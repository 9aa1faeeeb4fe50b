------------------------------ MODULE Linens_proofs ------------------------------
(***************************************************************************)
(* Proofs about Linens: types, the count of washes, and that no screen is  *)
(* silently stale.  What each request keeps of its own linens, what it     *)
(* leaves of the other requests, what publishing does to a queue, and what *)
(* each step of a connection leaves; Crash; then the theorems.             *)
(***************************************************************************)
EXTENDS LinensInv, SumTheorems

-----------------------------------------------------------------------------
(* Rows, and what scans make of them. *)

LEMMA Statuses ==
  /\ \A a \in Actions : ACTION_STATUS_MAP[a] \in LINEN_STATUSES
  /\ "IN_STOCK" \in LINEN_STATUSES
  /\ "UNBORN" \notin LINEN_STATUSES /\ "GONE" \notin LINEN_STATUSES
  BY LinensAssumption DEF ACTION_STATUS_MAP, LINEN_STATUSES, Range

LEMMA Rows ==
  /\ Unborn \in Row /\ Gone \in Row /\ NewLinen \in Row
  /\ Unborn # Gone /\ Unborn # NewLinen
  BY Statuses DEF Row, Unborn, Gone, NewLinen

LEMMA ScannedRow ==
  ASSUME NEW row \in Row, NEW read \in Row, NEW a \in Actions
  PROVE  /\ Scanned(row, read, a) \in Row
         /\ Scanned(row, read, a).status \in LINEN_STATUSES
  BY Statuses DEF Scanned, Row

LEMMA EditedRow ==
  ASSUME NEW row \in Row, NEW st \in Edits
  PROVE  /\ [row EXCEPT !.status = st] \in Row
         /\ [row EXCEPT !.status = st].status = st
         /\ [row EXCEPT !.status = st].washes = row.washes
         /\ st \in LINEN_STATUSES
  BY LinensAssumption DEF Row

LEMMA Idle ==
  /\ IdleRequest \in Request /\ Shaped(IdleRequest)
  /\ IdleRequest.pc = "idle" /\ IdleRequest.done = <<>> /\ IdleRequest.clock = 0
  /\ IdleRequest.kind = "scan"
  <1>1. <<>> \in Seq(Linens) /\ <<>> \in Seq([linen: Linens, row: Row])
    OBVIOUS
  <1> QED BY <1>1, Rows DEF IdleRequest, Request, Kinds, Shaped

(* What the shape of a request says at each stage. *)
LEMMA Shape ==
  ASSUME NEW req \in Request, Shaped(req)
  PROVE  /\ req.pc = "idle" => req = IdleRequest
         /\ req.pc = "insert" => req.kind \in {"create", "bulkCreate"} /\ IsInjective(req.todo)
         /\ req.pc = "next" => req.kind = "bulkScan"
         /\ req.pc = "write" => req.kind \in {"scan", "bulkScan", "update", "delete"}
         /\ req.pc = "event" => req.kind \in {"scan", "bulkScan"}
         /\ req.pc = "reread" => req.kind \in {"scan", "update"}
         /\ req.pc \in AtHand \cup {"insert"} => req.todo # <<>> /\ Head(req.todo) \in Linens
                                                /\ Tail(req.todo) \in Seq(Linens)
         /\ req.pc \in AtHand /\ req.kind # "bulkScan" => req.done = <<>> /\ Len(req.todo) = 1
         /\ req.pc # "idle" /\ req.kind \in {"scan", "bulkScan"} => req.action \in Actions
         /\ req.kind = "update" => req.action \in Edits
  <1>1. req.todo \in Seq(Linens)
    BY DEF Request
  <1>2. CASE req = IdleRequest
    BY <1>2, Idle DEF AtHand
  <1>3. CASE req # IdleRequest
    <2>1. /\ req.pc \in Stages[req.kind]
          /\ req.kind \in {"scan", "bulkScan"} => req.action \in Actions
          /\ req.kind = "update" => req.action \in Edits
          /\ req.pc \in AtHand \cup {"insert"} => req.todo # <<>>
          /\ req.pc \in AtHand /\ req.kind # "bulkScan" => req.done = <<>> /\ Len(req.todo) = 1
          /\ req.pc = "insert" => IsInjective(req.todo)
      BY <1>3 DEF Shaped
    <2>2. req.kind \in Kinds
      BY DEF Request
    <2>3. /\ req.pc # "idle"
          /\ req.pc = "insert" => req.kind \in {"create", "bulkCreate"}
          /\ req.pc = "next" => req.kind = "bulkScan"
          /\ req.pc = "write" => req.kind \in {"scan", "bulkScan", "update", "delete"}
          /\ req.pc = "event" => req.kind \in {"scan", "bulkScan"}
          /\ req.pc = "reread" => req.kind \in {"scan", "update"}
      BY <2>1, <2>2 DEF Stages, Kinds
    <2>4. req.todo # <<>> => Head(req.todo) \in Linens /\ Tail(req.todo) \in Seq(Linens)
      BY <1>1
    <2> QED BY <2>1, <2>3, <2>4
  <1> QED BY <1>2, <1>3

-----------------------------------------------------------------------------
(* What a step of a request, but for its publication, leaves of the types    *)
(* and the shape.                                                            *)
Working(s) ==
  /\ request' = [request EXCEPT ![s] = request'[s]]
  /\ request'[s] \in Request /\ Shaped(request'[s])
  /\ docs' \in [Linens -> Row] /\ washed' \in [Linens -> Nat]
  /\ disturbed' \subseteq Linens /\ disturbed \subseteq disturbed'
  /\ UNCHANGED <<conns, screens, missed>>

LEMMA Becomes ==
  ASSUME TypeOK, NEW s \in Slots, NEW req, Become(s, req)
  PROVE  /\ request'[s] = req
         /\ request' = [request EXCEPT ![s] = request'[s]]
         /\ \A t \in Slots \ {s} : request'[t] = request[t]
  BY DEF TypeOK, Become

LEMMA TouchTypes ==
  ASSUME TypeOK, NEW s \in Slots, NEW l \in Linens, Touch(s, l)
  PROVE  disturbed' \subseteq Linens /\ disturbed \subseteq disturbed'
  BY DEF TypeOK, Touch

LEMMA Singles ==
  ASSUME NEW l \in Linens
  PROVE  /\ <<l>> \in Seq(Linens) /\ <<l>> # <<>> /\ Len(<<l>>) = 1 /\ Head(<<l>>) = l
         /\ IsInjective(<<l>>)
  BY DEF IsInjective

LEMMA BeginOnTypes ==
  ASSUME TypeOK, NEW s \in Slots, NEW l \in Linens, NEW kind \in {"scan", "update", "delete"},
         NEW action \in Actions \cup Edits \cup {None},
         kind = "scan" => action \in Actions, kind = "update" => action \in Edits,
         BeginOn(s, l, kind, action)
  PROVE  /\ Working(s)
         /\ request'[s].pc = "write" /\ request'[s].kind = kind /\ request'[s].action = action
         /\ request'[s].todo = <<l>> /\ request'[s].read = docs[l] /\ request'[s].done = <<>>
         /\ request'[s].clock = 0
         /\ request[s].pc = "idle" /\ Exists(l) /\ Touch(s, l)
         /\ started' = started + 1 /\ started < MaxRequests
         /\ UNCHANGED <<docs, clock, washed>>
<1> DEFINE req == [IdleRequest EXCEPT !.pc = "write", !.kind = kind, !.action = action,
                                      !.todo = <<l>>, !.read = docs[l]]
<1>1. Become(s, req) /\ UNCHANGED <<docs, clock, washed, conns, screens, missed>>
      /\ request[s].pc = "idle" /\ started' = started + 1 /\ started < MaxRequests
  BY DEF BeginOn, Begin
<1>2. Touch(s, l) /\ Exists(l)
  BY DEF BeginOn
<1>3. docs[l] \in Row /\ <<>> \in Seq([linen: Linens, row: Row])
  BY DEF TypeOK
<1>4. req \in Request
  BY <1>3, Singles DEF Request, Kinds, IdleRequest
<1>5. Shaped(req)
  BY Singles DEF Shaped, Stages, AtHand, IdleRequest
<1>6. request'[s] = req /\ request' = [request EXCEPT ![s] = request'[s]]
  BY <1>1, Becomes
<1> HIDE DEF req
<1>7. request'[s] \in Request /\ Shaped(request'[s])
  BY <1>4, <1>5, <1>6
<1>8. Working(s)
  BY <1>1, <1>2, <1>6, <1>7, TouchTypes DEF Working, TypeOK
<1>9. /\ req.pc = "write" /\ req.kind = kind /\ req.action = action /\ req.todo = <<l>>
      /\ req.read = docs[l] /\ req.done = <<>> /\ req.clock = 0
  BY DEF req, IdleRequest
<1> QED BY <1>1, <1>2, <1>6, <1>8, <1>9

LEMMA BulkScanTypes ==
  ASSUME TypeOK, NEW s \in Slots, NEW b \in Batches, BulkScan(s, b)
  PROVE  /\ Working(s)
         /\ request'[s].pc = "next" /\ request'[s].kind = "bulkScan"
         /\ request'[s].action = b.action /\ request'[s].todo = b.codes
         /\ request'[s].done = <<>> /\ request'[s].clock = 0
         /\ request[s].pc = "idle"
         /\ started' = started + 1 /\ started < MaxRequests
         /\ UNCHANGED <<docs, clock, washed, disturbed>>
<1> DEFINE req == [IdleRequest EXCEPT !.pc = "next", !.kind = "bulkScan",
                                      !.action = b.action, !.todo = b.codes]
<1>1. Become(s, req) /\ UNCHANGED <<docs, clock, washed, conns, screens, missed, disturbed>>
      /\ request[s].pc = "idle" /\ started' = started + 1 /\ started < MaxRequests
  BY DEF BulkScan, Begin
<1>2. b.codes \in Seq(Linens) /\ b.action \in Actions
  <2>0. Batches \subseteq [codes: Seq(Linens), action: Actions]
    BY LinensAssumption
  <2>1. b \in [codes: Seq(Linens), action: Actions]
    BY <2>0, Zenon
  <2> QED BY <2>1
<1>4. req \in Request
  BY <1>2, Idle DEF Request, Kinds
<1>5. Shaped(req)
  BY <1>2 DEF Shaped, Stages, AtHand, IdleRequest
<1>6. request'[s] = req /\ request' = [request EXCEPT ![s] = request'[s]]
  BY <1>1, Becomes
<1> HIDE DEF req
<1>7. request'[s] \in Request /\ Shaped(request'[s])
  BY <1>4, <1>5, <1>6
<1>8. Working(s)
  BY <1>1, <1>6, <1>7 DEF Working, TypeOK
<1>9. /\ req.pc = "next" /\ req.kind = "bulkScan" /\ req.action = b.action
      /\ req.todo = b.codes /\ req.done = <<>> /\ req.clock = 0
  BY DEF req, IdleRequest
<1> QED BY <1>1, <1>6, <1>8, <1>9

LEMMA CreateTypes ==
  ASSUME TypeOK, NEW s \in Slots, NEW codes \in Seq(Linens),
         NEW kind \in {"create", "bulkCreate"}, CreateLinens(s, codes, kind)
  PROVE  /\ Working(s)
         /\ request'[s].pc = "insert" /\ request'[s].kind = kind /\ request'[s].todo = codes
         /\ request'[s].done = <<>> /\ request'[s].clock = 0
         /\ request[s].pc = "idle"
         /\ \A i \in DOMAIN codes : /\ docs[codes[i]] = Unborn
                                    /\ \A t \in Slots : codes[i] \notin ToSet(request[t].todo)
         /\ codes # <<>> /\ IsInjective(codes)
         /\ started' = started + 1 /\ started < MaxRequests
         /\ UNCHANGED <<docs, clock, washed, disturbed>>
<1> DEFINE req == [IdleRequest EXCEPT !.pc = "insert", !.kind = kind, !.todo = codes]
<1>1. Become(s, req) /\ UNCHANGED <<docs, clock, washed, conns, screens, missed, disturbed>>
      /\ request[s].pc = "idle" /\ started' = started + 1 /\ started < MaxRequests
  BY DEF CreateLinens, Begin
<1>2. codes # <<>> /\ IsInjective(codes)
  BY DEF CreateLinens
<1>4. req \in Request
  BY <1>2, Idle DEF Request, Kinds
<1>5. Shaped(req)
  BY <1>2 DEF Shaped, Stages, AtHand, IdleRequest
<1>6. request'[s] = req /\ request' = [request EXCEPT ![s] = request'[s]]
  BY <1>1, Becomes
<1>9. \A i \in DOMAIN codes : /\ docs[codes[i]] = Unborn
                              /\ \A t \in Slots : codes[i] \notin ToSet(request[t].todo)
  BY DEF CreateLinens
<1> HIDE DEF req
<1>7. request'[s] \in Request /\ Shaped(request'[s])
  BY <1>4, <1>5, <1>6
<1>8. Working(s)
  BY <1>1, <1>6, <1>7 DEF Working, TypeOK
<1>10. /\ req.pc = "insert" /\ req.kind = kind /\ req.todo = codes
       /\ req.done = <<>> /\ req.clock = 0
  BY DEF req, IdleRequest
<1> QED BY <1>1, <1>2, <1>6, <1>8, <1>9, <1>10

LEMMA RequestType == ASSUME TypeOK, NEW s \in Slots PROVE request[s] \in Request
  BY DEF TypeOK

LEMMA InsertTypes ==
  ASSUME TypeOK, NEW s \in Slots, Shaped(request[s]), InsertLinen(s)
  PROVE  /\ Working(s)
         /\ request[s].pc = "insert" /\ InHand(s) \in Linens
         /\ request'[s] = [request[s] EXCEPT
              !.pc = IF Len(request[s].todo) = 1 THEN "clock" ELSE "insert",
              !.todo = Tail(request[s].todo),
              !.done = Append(request[s].done, [linen |-> InHand(s), row |-> NewLinen])]
         /\ docs' = [docs EXCEPT ![InHand(s)] = NewLinen]
         /\ UNCHANGED <<clock, washed, started, disturbed>>
<1>0. request[s] \in Request
  BY RequestType
<1>1. PICK r : r = request[s]
  OBVIOUS
<1> DEFINE req == [r EXCEPT
              !.pc = IF Len(r.todo) = 1 THEN "clock" ELSE "insert", !.todo = Tail(r.todo),
              !.done = Append(r.done, [linen |-> InHand(s), row |-> NewLinen])]
<1>2. /\ r.pc = "insert" /\ docs' = [docs EXCEPT ![InHand(s)] = NewLinen]
      /\ Become(s, req) /\ UNCHANGED <<clock, washed, conns, screens, started, disturbed, missed>>
  BY <1>1 DEF InsertLinen
<1>3. /\ r.kind \in {"create", "bulkCreate"} /\ IsInjective(r.todo) /\ r.todo # <<>>
      /\ Head(r.todo) \in Linens /\ Tail(r.todo) \in Seq(Linens) /\ InHand(s) = Head(r.todo)
  BY <1>0, <1>1, <1>2, Shape DEF InHand
<1>4. r.todo \in Seq(Linens) /\ r.done \in Seq([linen: Linens, row: Row])
  BY <1>0, <1>1 DEF Request
<1>5. Append(r.done, [linen |-> InHand(s), row |-> NewLinen]) \in Seq([linen: Linens, row: Row])
  BY <1>3, <1>4, Rows
<1>6. req \in Request
  <2>1. r \in Request
    BY <1>0, <1>1
  <2> QED BY <1>3, <1>5, <2>1 DEF Request
<1>7. Shaped(req)
  <2>1. r \in Request
    BY <1>0, <1>1
  <2>2. req.pc \in {"insert", "clock"} /\ req.kind = r.kind /\ req.todo = Tail(r.todo)
        /\ (req.pc = "insert" => Len(r.todo) # 1)
    BY <1>0, <1>1 DEF Request
  <2>3. IsInjective(Tail(r.todo)) /\ (Len(r.todo) # 1 => Tail(r.todo) # <<>>)
    <3>1. \A i \in DOMAIN Tail(r.todo) : i + 1 \in DOMAIN r.todo /\ Tail(r.todo)[i] = r.todo[i + 1]
      BY <1>3, <1>4
    <3>2. DOMAIN Tail(r.todo) \subseteq Int
      BY <1>3
    <3>3. IsInjective(Tail(r.todo))
      <4> SUFFICES ASSUME NEW i \in DOMAIN Tail(r.todo), NEW j \in DOMAIN Tail(r.todo),
                          Tail(r.todo)[i] = Tail(r.todo)[j]
                   PROVE  i = j
        BY DEF IsInjective
      <4>1. i + 1 = j + 1
        BY <1>3, <3>1 DEF IsInjective
      <4> QED BY <3>2, <4>1
    <3>4. ASSUME Tail(r.todo) = <<>> PROVE Len(r.todo) = 1
      <4>1. Len(r.todo) \in Nat /\ Len(r.todo) # 0 /\ Len(Tail(r.todo)) = Len(r.todo) - 1
        BY <1>3, <1>4
      <4>2. Len(<<>>) = 0
        OBVIOUS
      <4>3. Len(Tail(r.todo)) = Len(<<>>)
        BY <3>4, Zenon
      <4> QED BY <4>1, <4>2, <4>3
    <3> QED BY <3>3, <3>4
  <2> HIDE DEF req
  <2> QED BY <1>3, <2>2, <2>3 DEF Shaped, Stages, AtHand
<1>8. request'[s] = req /\ request' = [request EXCEPT ![s] = request'[s]]
  BY <1>2, Becomes
<1> HIDE DEF req
<1>9. request'[s] \in Request /\ Shaped(request'[s])
  BY <1>6, <1>7, <1>8
<1>10. docs' \in [Linens -> Row]
  BY <1>2, Rows DEF TypeOK
<1>11. Working(s)
  BY <1>2, <1>8, <1>9, <1>10 DEF Working, TypeOK
<1> QED BY <1>1, <1>2, <1>3, <1>8, <1>11 DEF req

LEMMA NextTypes ==
  ASSUME TypeOK, NEW s \in Slots, Shaped(request[s]), NextCode(s)
  PROVE  /\ Working(s)
         /\ request[s].pc = "next"
         /\ \/ /\ request[s].done = <<>> /\ request'[s] = IdleRequest
               /\ UNCHANGED disturbed
            \/ /\ request[s].done # <<>> /\ request'[s] = [request[s] EXCEPT !.pc = "clock"]
               /\ UNCHANGED disturbed
            \/ /\ InHand(s) \in Linens /\ Exists(InHand(s)) /\ Touch(s, InHand(s))
               /\ request[s].todo # <<>>
               /\ request'[s] = [request[s] EXCEPT !.pc = "write", !.read = docs[InHand(s)]]
            \/ /\ request'[s] = [request[s] EXCEPT !.todo = Tail(request[s].todo)]
               /\ request[s].todo # <<>>
               /\ UNCHANGED disturbed
         /\ UNCHANGED <<docs, clock, washed, started>>
<1>0. request[s] \in Request /\ request[s].pc = "next"
  BY RequestType DEF NextCode
<1>1. PICK r : r = request[s]
  OBVIOUS
<1>2. /\ r \in Request /\ r.pc = "next" /\ r.kind = "bulkScan" /\ r.action \in Actions
      /\ r.todo \in Seq(Linens)
  <2>1. r.kind = "bulkScan" /\ r.action \in Actions
    BY <1>0, <1>1, Shape
  <2> QED BY <1>0, <1>1, <2>1 DEF Request
<1>3. UNCHANGED <<docs, clock, washed, conns, screens, started, missed>>
  BY DEF NextCode
<1>4. CASE r.todo = <<>>
  <2>1. UNCHANGED disturbed
    BY <1>1, <1>4 DEF NextCode
  <2>2. request'[s] = (IF r.done = <<>> THEN IdleRequest ELSE [r EXCEPT !.pc = "clock"])
    BY <1>1, <1>4, Becomes DEF NextCode
  <2>3. request' = [request EXCEPT ![s] = request'[s]]
    BY <1>1, <1>4, Becomes DEF NextCode
  <2>4. [r EXCEPT !.pc = "clock"] \in Request /\ Shaped([r EXCEPT !.pc = "clock"])
    BY <1>2 DEF Request, Shaped, Stages, AtHand
  <2>5. request'[s] \in Request /\ Shaped(request'[s])
    BY <2>2, <2>4, Idle
  <2>6. Working(s)
    BY <1>3, <2>1, <2>3, <2>5 DEF Working, TypeOK
  <2> QED BY <1>0, <1>1, <1>3, <2>1, <2>2, <2>6
<1>5. CASE r.todo # <<>> /\ Exists(InHand(s))
  <2>0. InHand(s) \in Linens
    BY <1>1, <1>2, <1>5 DEF InHand
  <2> DEFINE req == [r EXCEPT !.pc = "write", !.read = docs[InHand(s)]]
  <2>1. Touch(s, InHand(s)) /\ Become(s, req)
    BY <1>1, <1>5 DEF NextCode
  <2>2. docs[InHand(s)] \in Row
    BY <2>0 DEF TypeOK
  <2>3. req \in Request
    BY <1>2, <2>2 DEF Request
  <2>4. Shaped(req)
    <3>1. req.pc = "write" /\ req.kind = "bulkScan" /\ req.action = r.action /\ req.todo = r.todo
      BY <1>2 DEF Request
    <3> HIDE DEF req
    <3> QED BY <1>2, <1>5, <3>1 DEF Shaped, Stages, AtHand
  <2>5. request'[s] = req /\ request' = [request EXCEPT ![s] = request'[s]]
    BY <2>1, Becomes
  <2> HIDE DEF req
  <2>6. Working(s)
    BY <1>3, <2>0, <2>1, <2>3, <2>4, <2>5, TouchTypes DEF Working, TypeOK
  <2> QED BY <1>0, <1>1, <1>3, <1>5, <2>0, <2>1, <2>5, <2>6 DEF req
<1>6. CASE r.todo # <<>> /\ ~Exists(InHand(s))
  <2> DEFINE req == [r EXCEPT !.todo = Tail(r.todo)]
  <2>1. UNCHANGED disturbed /\ Become(s, req)
    BY <1>1, <1>6 DEF NextCode
  <2>3. req \in Request
    <3>1. Tail(r.todo) \in Seq(Linens)
      BY <1>2, <1>6
    <3> QED BY <1>2, <3>1 DEF Request
  <2>4. Shaped(req)
    <3>1. req.pc = "next" /\ req.kind = "bulkScan" /\ req.action = r.action
      BY <1>2 DEF Request
    <3> HIDE DEF req
    <3> QED BY <1>2, <3>1 DEF Shaped, Stages, AtHand
  <2>5. request'[s] = req /\ request' = [request EXCEPT ![s] = request'[s]]
    BY <2>1, Becomes
  <2> HIDE DEF req
  <2>6. Working(s)
    BY <1>3, <2>1, <2>3, <2>4, <2>5 DEF Working, TypeOK
  <2> QED BY <1>0, <1>1, <1>3, <1>6, <2>1, <2>5, <2>6 DEF req
<1> QED BY <1>4, <1>5, <1>6

LEMMA WriteTypes ==
  ASSUME TypeOK, NEW s \in Slots, Shaped(request[s]), WriteLinen(s)
  PROVE  /\ Working(s)
         /\ request[s].pc = "write" /\ InHand(s) \in Linens
         /\ \/ /\ request[s].kind \in {"scan", "bulkScan"} /\ request[s].action \in Actions
               /\ request'[s] = [request[s] EXCEPT !.pc = "event"]
               /\ docs' = IF ~Exists(InHand(s)) THEN docs
                          ELSE [docs EXCEPT ![InHand(s)] =
                                 Scanned(docs[InHand(s)], request[s].read, request[s].action)]
            \/ /\ request[s].kind \in {"update", "delete"}
               /\ ~Exists(InHand(s)) /\ docs' = docs /\ request'[s] = IdleRequest
            \/ /\ request[s].kind = "update" /\ request[s].action \in Edits
               /\ Exists(InHand(s))
               /\ docs' = [docs EXCEPT ![InHand(s)] =
                            [docs[InHand(s)] EXCEPT !.status = request[s].action]]
               /\ request'[s] = [request[s] EXCEPT !.pc = "reread"]
            \/ /\ request[s].kind = "delete"
               /\ Exists(InHand(s)) /\ docs' = [docs EXCEPT ![InHand(s)] = Gone]
               /\ request'[s] = [request[s] EXCEPT
                    !.pc = "clock", !.done = <<[linen |-> InHand(s), row |-> Gone]>>]
         /\ UNCHANGED <<clock, washed, started, disturbed>>
<1>0. request[s] \in Request
  BY RequestType
<1>1. PICK r : r = request[s]
  OBVIOUS
<1>l. PICK l : l = InHand(s)
  OBVIOUS
<1>2. /\ r \in Request /\ r.pc = "write" /\ l \in Linens /\ docs[l] \in Row /\ r.read \in Row
      /\ r.kind \in {"scan", "bulkScan", "update", "delete"} /\ r.todo # <<>>
      /\ UNCHANGED <<clock, washed, conns, screens, started, disturbed, missed>>
  <2>1. r.pc = "write" /\ UNCHANGED <<clock, washed, conns, screens, started, disturbed, missed>>
    BY <1>1 DEF WriteLinen
  <2>2. r.kind \in {"scan", "bulkScan", "update", "delete"} /\ r.todo # <<>>
        /\ Head(r.todo) \in Linens
    BY <1>0, <1>1, <2>1, Shape DEF AtHand
  <2>3. l \in Linens
    BY <1>1, <1>l, <2>2 DEF InHand
  <2>4. docs[l] \in Row
    BY <2>3 DEF TypeOK
  <2>5. r \in Request /\ r.read \in Row
    BY <1>0, <1>1 DEF Request
  <2> QED BY <2>1, <2>2, <2>3, <2>4, <2>5
<1>d. docs \in [Linens -> Row]
  BY DEF TypeOK
<1>3. docs' = IF ~Exists(l) THEN docs
             ELSE [docs EXCEPT ![l] =
               CASE r.kind = "delete" -> Gone
                 [] r.kind = "update" -> [@ EXCEPT !.status = r.action]
                 [] OTHER -> Scanned(@, r.read, r.action)]
  BY <1>1, <1>l DEF WriteLinen
<1>4. Become(s,
       CASE r.kind \in {"scan", "bulkScan"} -> [r EXCEPT !.pc = "event"]
         [] r.kind = "update" /\ Exists(l) -> [r EXCEPT !.pc = "reread"]
         [] r.kind = "delete" /\ Exists(l) ->
              [r EXCEPT !.pc = "clock", !.done = <<[linen |-> l, row |-> Gone]>>]
         [] OTHER -> IdleRequest)
  BY <1>1, <1>l DEF WriteLinen
<1>5. /\ request' = [request EXCEPT ![s] = request'[s]]
      /\ request'[s] = CASE r.kind \in {"scan", "bulkScan"} -> [r EXCEPT !.pc = "event"]
             [] r.kind = "update" /\ Exists(l) -> [r EXCEPT !.pc = "reread"]
             [] r.kind = "delete" /\ Exists(l) ->
                  [r EXCEPT !.pc = "clock", !.done = <<[linen |-> l, row |-> Gone]>>]
             [] OTHER -> IdleRequest
  BY <1>4, Becomes
<1>6. ASSUME request'[s] \in Request, Shaped(request'[s]), docs' \in [Linens -> Row]
      PROVE  Working(s)
  BY <1>2, <1>5, <1>6 DEF Working, TypeOK
<1>7. CASE r.kind \in {"scan", "bulkScan"}
  <2>1. r.action \in Actions
    BY <1>0, <1>1, <1>2, <1>7, Shape
  <2>2. docs' = IF ~Exists(l) THEN docs ELSE [docs EXCEPT ![l] = Scanned(docs[l], r.read, r.action)]
    <3>1. CASE ~Exists(l)
      BY <1>3, <3>1
    <3>2. CASE Exists(l)
      BY <1>3, <1>7, <1>d, <1>2, <3>2
    <3> QED BY <3>1, <3>2
  <2>3. docs' \in [Linens -> Row]
    <3>1. Scanned(docs[l], r.read, r.action) \in Row
      BY <1>2, <2>1, ScannedRow
    <3> QED BY <1>d, <2>2, <3>1
  <2>4. request'[s] = [r EXCEPT !.pc = "event"]
    BY <1>5, <1>7
  <2>5. request'[s] \in Request
    BY <1>2, <2>4 DEF Request
  <2>6. Shaped(request'[s])
    <3>1. PICK q : q = [r EXCEPT !.pc = "event"]
      OBVIOUS
    <3>2. q.pc = "event" /\ q.kind = r.kind /\ q.action = r.action /\ q.todo = r.todo
          /\ q.done = r.done
      BY <1>2, <3>1 DEF Request
    <3>3. r.kind # "bulkScan" => r.done = <<>> /\ Len(r.todo) = 1
      BY <1>0, <1>1, <1>2, Shape DEF AtHand
    <3>4. Shaped(q)
      BY <1>2, <1>7, <2>1, <3>2, <3>3 DEF Shaped, Stages, AtHand
    <3> QED BY <2>4, <3>1, <3>4
  <2> QED BY <1>1, <1>l, <1>2, <1>6, <1>7, <2>1, <2>2, <2>3, <2>4, <2>5, <2>6
<1>8. CASE r.kind \in {"update", "delete"} /\ ~Exists(l)
  <2>1. docs' = docs
    BY <1>3, <1>8
  <2>2. request'[s] = IdleRequest
    BY <1>5, <1>8
  <2> QED BY <1>1, <1>l, <1>2, <1>6, <1>8, <1>d, <2>1, <2>2, Idle
<1>9. CASE r.kind = "update" /\ Exists(l)
  <2>1. r.action \in Edits
    BY <1>0, <1>1, <1>9, Shape
  <2>2. docs' = [docs EXCEPT ![l] = [docs[l] EXCEPT !.status = r.action]]
    BY <1>2, <1>3, <1>9, <1>d
  <2>3. docs' \in [Linens -> Row]
    BY <1>2, <1>d, <2>1, <2>2, EditedRow
  <2>4. request'[s] = [r EXCEPT !.pc = "reread"]
    BY <1>5, <1>9
  <2>5. request'[s] \in Request
    BY <1>2, <2>4 DEF Request
  <2>6. Shaped(request'[s])
    <3>1. PICK q : q = [r EXCEPT !.pc = "reread"]
      OBVIOUS
    <3>2. q.pc = "reread" /\ q.kind = r.kind /\ q.action = r.action /\ q.todo = r.todo
          /\ q.done = r.done
      BY <1>2, <3>1 DEF Request
    <3>3. r.kind # "bulkScan" => r.done = <<>> /\ Len(r.todo) = 1
      BY <1>0, <1>1, <1>2, Shape DEF AtHand
    <3>4. Shaped(q)
      BY <1>2, <1>9, <2>1, <3>2, <3>3 DEF Shaped, Stages, AtHand
    <3> QED BY <2>4, <3>1, <3>4
  <2> QED BY <1>1, <1>l, <1>2, <1>6, <1>9, <2>1, <2>2, <2>3, <2>4, <2>5, <2>6
<1>10. CASE r.kind = "delete" /\ Exists(l)
  <2>2. docs' = [docs EXCEPT ![l] = Gone]
    BY <1>2, <1>3, <1>10, <1>d
  <2>3. docs' \in [Linens -> Row]
    BY <1>2, <1>d, <2>2, Rows
  <2>4. request'[s] = [r EXCEPT !.pc = "clock", !.done = <<[linen |-> l, row |-> Gone]>>]
    BY <1>5, <1>10
  <2>5. request'[s] \in Request
    <3>1. <<[linen |-> l, row |-> Gone]>> \in Seq([linen: Linens, row: Row])
      BY <1>2, Rows
    <3> QED BY <1>2, <2>4, <3>1 DEF Request
  <2>6. Shaped(request'[s])
    <3>1. PICK q : q = [r EXCEPT !.pc = "clock", !.done = <<[linen |-> l, row |-> Gone]>>]
      OBVIOUS
    <3>2. q.pc = "clock" /\ q.kind = r.kind /\ q.action = r.action /\ q.todo = r.todo
      BY <1>2, <3>1 DEF Request
    <3>4. Shaped(q)
      BY <1>2, <1>10, <3>2 DEF Shaped, Stages, AtHand
    <3> QED BY <2>4, <3>1, <3>4
  <2> QED BY <1>1, <1>l, <1>2, <1>6, <1>10, <2>2, <2>3, <2>4, <2>5, <2>6
<1> QED BY <1>2, <1>7, <1>8, <1>9, <1>10

LEMMA RecordTypes ==
  ASSUME TypeOK, NEW s \in Slots, Shaped(request[s]), RecordScan(s)
  PROVE  /\ Working(s)
         /\ request[s].pc = "event" /\ InHand(s) \in Linens
         /\ request[s].kind \in {"scan", "bulkScan"} /\ request[s].action \in Actions
         /\ washed' = [washed EXCEPT ![InHand(s)] =
              IF request[s].action = "complete_wash" THEN washed[InHand(s)] + 1
              ELSE washed[InHand(s)]]
         /\ \/ /\ request[s].kind = "scan" /\ request'[s] = [request[s] EXCEPT !.pc = "reread"]
            \/ /\ request[s].kind = "bulkScan"
               /\ request'[s] = [request[s] EXCEPT
                    !.pc = "next", !.todo = Tail(request[s].todo),
                    !.done = Append(request[s].done,
                      [linen |-> InHand(s),
                       row |-> Scanned(request[s].read, request[s].read, request[s].action)])]
         /\ UNCHANGED <<docs, clock, started, disturbed>>
<1>0. request[s] \in Request
  BY RequestType
<1>1. PICK r : r = request[s]
  OBVIOUS
<1>l. PICK l : l = InHand(s)
  OBVIOUS
<1>2. /\ r \in Request /\ r.pc = "event" /\ l \in Linens /\ r.read \in Row
      /\ r.kind \in {"scan", "bulkScan"} /\ r.action \in Actions
      /\ r.todo # <<>> /\ Tail(r.todo) \in Seq(Linens)
      /\ r.done \in Seq([linen: Linens, row: Row])
      /\ UNCHANGED <<docs, clock, conns, screens, started, disturbed, missed>>
  <2>1. r.pc = "event" /\ UNCHANGED <<docs, clock, conns, screens, started, disturbed, missed>>
    BY <1>1 DEF RecordScan
  <2>2. r.kind \in {"scan", "bulkScan"} /\ r.todo # <<>> /\ Tail(r.todo) \in Seq(Linens)
        /\ Head(r.todo) \in Linens
    BY <1>0, <1>1, <2>1, Shape DEF AtHand
  <2>3. r.action \in Actions
    BY <1>0, <1>1, <2>1, <2>2, Shape
  <2>4. l \in Linens
    BY <1>1, <1>l, <2>2 DEF InHand
  <2>5. r \in Request /\ r.read \in Row /\ r.done \in Seq([linen: Linens, row: Row])
    BY <1>0, <1>1 DEF Request
  <2> QED BY <2>1, <2>2, <2>3, <2>4, <2>5
<1>3. washed' = [washed EXCEPT ![l] = IF r.action = "complete_wash" THEN washed[l] + 1
                                      ELSE washed[l]]
  BY <1>1, <1>l, <1>2 DEF RecordScan, TypeOK
<1>4. washed' \in [Linens -> Nat]
  <2>1. washed[l] \in Nat /\ washed \in [Linens -> Nat]
    BY <1>2 DEF TypeOK
  <2> QED BY <1>2, <1>3, <2>1
<1>5. PICK row : row = Scanned(r.read, r.read, r.action)
  OBVIOUS
<1>6. row \in Row
  BY <1>2, <1>5, ScannedRow
<1>7. Become(s, IF r.kind = "scan" THEN [r EXCEPT !.pc = "reread"]
                ELSE [r EXCEPT !.pc = "next", !.todo = Tail(r.todo),
                               !.done = Append(r.done, [linen |-> l, row |-> row])])
  BY <1>1, <1>2, <1>l, <1>5 DEF RecordScan, Request
<1>8. /\ request' = [request EXCEPT ![s] = request'[s]]
      /\ request'[s] = IF r.kind = "scan" THEN [r EXCEPT !.pc = "reread"]
                       ELSE [r EXCEPT !.pc = "next", !.todo = Tail(r.todo),
                                      !.done = Append(r.done, [linen |-> l, row |-> row])]
  BY <1>7, Becomes
<1>9. ASSUME request'[s] \in Request, Shaped(request'[s]) PROVE  Working(s)
  BY <1>2, <1>4, <1>8, <1>9 DEF Working, TypeOK
<1>10. CASE r.kind = "scan"
  <2>4. request'[s] = [r EXCEPT !.pc = "reread"]
    BY <1>8, <1>10
  <2>5. request'[s] \in Request
    BY <1>2, <2>4 DEF Request
  <2>6. Shaped(request'[s])
    <3>1. PICK q : q = [r EXCEPT !.pc = "reread"]
      OBVIOUS
    <3>2. q.pc = "reread" /\ q.kind = r.kind /\ q.action = r.action /\ q.todo = r.todo
          /\ q.done = r.done
      BY <1>2, <3>1 DEF Request
    <3>3. r.done = <<>> /\ Len(r.todo) = 1
      BY <1>0, <1>1, <1>2, <1>10, Shape DEF AtHand
    <3>4. Shaped(q)
      BY <1>2, <1>10, <3>2, <3>3 DEF Shaped, Stages, AtHand
    <3> QED BY <2>4, <3>1, <3>4
  <2> QED BY <1>1, <1>l, <1>2, <1>3, <1>9, <1>10, <2>4, <2>5, <2>6
<1>11. CASE r.kind = "bulkScan"
  <2>1. PICK done : done = Append(r.done, [linen |-> l, row |-> row])
    OBVIOUS
  <2>2. done \in Seq([linen: Linens, row: Row])
    BY <1>2, <1>6, <2>1
  <2>4. request'[s] = [r EXCEPT !.pc = "next", !.todo = Tail(r.todo), !.done = done]
    BY <1>8, <1>11, <2>1
  <2>5. request'[s] \in Request
    BY <1>2, <2>2, <2>4 DEF Request
  <2>6. Shaped(request'[s])
    <3>1. PICK q : q = [r EXCEPT !.pc = "next", !.todo = Tail(r.todo), !.done = done]
      OBVIOUS
    <3>2. q.pc = "next" /\ q.kind = r.kind /\ q.action = r.action
      BY <1>2, <3>1 DEF Request
    <3>4. Shaped(q)
      BY <1>2, <1>11, <3>2 DEF Shaped, Stages, AtHand
    <3> QED BY <2>4, <3>1, <3>4
  <2> QED BY <1>1, <1>l, <1>2, <1>3, <1>5, <1>9, <1>11, <2>1, <2>4, <2>5, <2>6
<1> QED BY <1>2, <1>10, <1>11

LEMMA RereadTypes ==
  ASSUME TypeOK, NEW s \in Slots, Shaped(request[s]), RereadLinen(s)
  PROVE  /\ Working(s)
         /\ request[s].pc = "reread" /\ InHand(s) \in Linens /\ request[s].done = <<>>
         /\ request[s].kind \in {"scan", "update"}
         /\ request'[s] = [request[s] EXCEPT !.pc = "clock",
              !.done = IF Exists(InHand(s)) THEN <<[linen |-> InHand(s), row |-> docs[InHand(s)]]>>
                       ELSE <<>>]
         /\ UNCHANGED <<docs, clock, washed, started, disturbed>>
<1>0. request[s] \in Request
  BY RequestType
<1>1. PICK r : r = request[s]
  OBVIOUS
<1>l. PICK l : l = InHand(s)
  OBVIOUS
<1>2. /\ r \in Request /\ r.pc = "reread" /\ l \in Linens /\ docs[l] \in Row
      /\ r.kind \in {"scan", "update"} /\ r.done = <<>>
      /\ UNCHANGED <<docs, clock, washed, conns, screens, started, disturbed, missed>>
  <2>1. r.pc = "reread"
        /\ UNCHANGED <<docs, clock, washed, conns, screens, started, disturbed, missed>>
    BY <1>1 DEF RereadLinen
  <2>2. r.kind \in {"scan", "update"} /\ r.todo # <<>> /\ Head(r.todo) \in Linens
    BY <1>0, <1>1, <2>1, Shape DEF AtHand
  <2>3. r.done = <<>>
    BY <1>0, <1>1, <2>1, <2>2, Shape DEF AtHand
  <2>4. l \in Linens
    BY <1>1, <1>l, <2>2 DEF InHand
  <2>5. docs[l] \in Row
    BY <2>4 DEF TypeOK
  <2> QED BY <1>0, <1>1, <2>1, <2>2, <2>3, <2>4, <2>5
<1>3. PICK done : done = IF Exists(l) THEN <<[linen |-> l, row |-> docs[l]]>> ELSE <<>>
  OBVIOUS
<1>4. done \in Seq([linen: Linens, row: Row])
  <2>1. [linen |-> l, row |-> docs[l]] \in [linen: Linens, row: Row]
    BY <1>2
  <2>2. <<[linen |-> l, row |-> docs[l]]>> \in Seq([linen: Linens, row: Row])
    BY <2>1
  <2>3. <<>> \in Seq([linen: Linens, row: Row])
    OBVIOUS
  <2> QED BY <1>3, <2>2, <2>3
<1>5. Become(s, [r EXCEPT !.pc = "clock", !.done = done])
  BY <1>1, <1>l, <1>3 DEF RereadLinen
<1>6. /\ request' = [request EXCEPT ![s] = request'[s]]
      /\ request'[s] = [r EXCEPT !.pc = "clock", !.done = done]
  BY <1>5, Becomes
<1>7. request'[s] \in Request
  BY <1>2, <1>4, <1>6 DEF Request
<1>8. Shaped(request'[s])
  <2>1. PICK q : q = [r EXCEPT !.pc = "clock", !.done = done]
    OBVIOUS
  <2>2. q.pc = "clock" /\ q.kind = r.kind /\ q.action = r.action
    BY <1>2, <2>1 DEF Request
  <2>3. r.kind = "scan" => r.action \in Actions
    BY <1>0, <1>1, <1>2, Shape
  <2>4. r.kind = "update" => r.action \in Edits
    BY <1>0, <1>1, <1>2, Shape
  <2>5. Shaped(q)
    BY <1>2, <2>2, <2>3, <2>4 DEF Shaped, Stages, AtHand
  <2> QED BY <1>6, <2>1, <2>5
<1>9. Working(s)
  BY <1>2, <1>6, <1>7, <1>8 DEF Working, TypeOK
<1> QED BY <1>1, <1>l, <1>2, <1>3, <1>6, <1>9

LEMMA BumpTypes ==
  ASSUME TypeOK, NEW s \in Slots, Shaped(request[s]), BumpLiveClock(s)
  PROVE  /\ Working(s)
         /\ request[s].pc = "clock" /\ clock' = clock + 1
         /\ request'[s] = [request[s] EXCEPT !.pc = "publish", !.clock = clock + 1]
         /\ UNCHANGED <<docs, washed, started, disturbed>>
<1>0. request[s] \in Request
  BY RequestType
<1>1. PICK r : r = request[s]
  OBVIOUS
<1>2. /\ r.pc = "clock" /\ clock' = clock + 1
      /\ Become(s, [r EXCEPT !.pc = "publish", !.clock = clock + 1])
      /\ UNCHANGED <<docs, washed, conns, screens, started, disturbed, missed>>
  BY <1>1 DEF BumpLiveClock
<1>3. clock \in Nat
  BY DEF TypeOK
<1>6. /\ request' = [request EXCEPT ![s] = request'[s]]
      /\ request'[s] = [r EXCEPT !.pc = "publish", !.clock = clock + 1]
  BY <1>2, Becomes
<1>7. request'[s] \in Request
  <2>1. r \in Request
    BY <1>0, <1>1
  <2>2. PICK c : c = clock + 1
    OBVIOUS
  <2>3. [r EXCEPT !.pc = "publish", !.clock = c] \in Request
    <3>1. c \in Nat
      BY <1>3, <2>2
    <3> QED BY <2>1, <3>1 DEF Request
  <2> QED BY <2>2, <2>3, <1>6
<1>8. Shaped(request'[s])
  <2>1. PICK q : q = [r EXCEPT !.pc = "publish", !.clock = clock + 1]
    OBVIOUS
  <2>2. q.pc = "publish" /\ q.kind = r.kind /\ q.action = r.action
    BY <1>0, <1>1, <2>1 DEF Request
  <2>3. /\ r.kind \in {"scan", "bulkScan"} => r.action \in Actions
        /\ r.kind = "update" => r.action \in Edits
    BY <1>0, <1>1, <1>2, Shape
  <2>4. r.kind \in Kinds
    BY <1>0, <1>1 DEF Request
  <2>5. Shaped(q)
    BY <1>2, <2>2, <2>3, <2>4 DEF Shaped, Stages, AtHand, Kinds
  <2> QED BY <1>6, <2>1, <2>5
<1>9. Working(s)
  BY <1>2, <1>6, <1>7, <1>8 DEF Working, TypeOK
<1> QED BY <1>1, <1>2, <1>6, <1>9

-----------------------------------------------------------------------------
(* What requests touch. *)
TouchedBy(req) ==
  {req.done[i].linen : i \in DOMAIN req.done}
    \cup (IF req.pc \in {"insert", "write", "event", "reread"} THEN {Head(req.todo)} ELSE {})

LEMMA TouchedIs ==
  ASSUME NEW s \in Slots
  PROVE  Touched(s) = TouchedBy(request[s]) /\ Touched(s)' = TouchedBy(request'[s])
  BY DEF Touched, TouchedBy, InHand

LEMMA Element == ASSUME NEW S, NEW q \in Seq(S), NEW i \in DOMAIN q PROVE q[i] \in S
  OBVIOUS

LEMMA TouchedLinens ==
  ASSUME NEW req \in Request, Shaped(req)
  PROVE  TouchedBy(req) \subseteq Linens
<1>1. req.done \in Seq([linen: Linens, row: Row])
  BY DEF Request
<1>2. ASSUME NEW i \in DOMAIN req.done PROVE req.done[i].linen \in Linens
  <2>1. req.done[i] \in [linen: Linens, row: Row]
    BY <1>1, Element
  <2> QED BY <2>1
<1>3. req.pc \in {"insert", "write", "event", "reread"} => Head(req.todo) \in Linens
  BY Shape DEF AtHand
<1> QED BY <1>2, <1>3 DEF TouchedBy

(* A step of `s` changes linens that `s` touches; a linen once born stays,   *)
(* and is born where a creation has it in hand.                              *)
DocsStep(s) ==
  /\ \A k \in Linens : docs'[k] # docs[k] => k \in Touched(s)
  /\ \A k \in Linens : docs[k] # Unborn => docs'[k] # Unborn
  /\ \A k \in Linens : docs[k] = Unborn /\ docs'[k] # Unborn
                         => request[s].pc = "insert" /\ k = InHand(s)

(* What it comes to touch, it marks when another has it, or it is not born.  *)
Grows(s) ==
  \A k \in Touched(s)' : \/ k \in Touched(s)
                         \/ k \in Linens /\ Touch(s, k)
                         \/ \A t \in Slots \ {s} : k \notin Touched(t)

LEMMA GrowApart ==
  ASSUME TypeOK, NEW s \in Slots, Working(s), Grows(s),
         \A t, u \in Slots : t # u => Touched(t) \cap Touched(u) \subseteq disturbed
  PROVE  \A t, u \in Slots : t # u => Touched(t)' \cap Touched(u)' \subseteq disturbed'
<1>1. \A t \in Slots \ {s} : request'[t] = request[t]
  BY DEF TypeOK, Working
<1>2. \A t \in Slots \ {s} : Touched(t)' = Touched(t)
  BY <1>1, TouchedIs
<1>3. disturbed \subseteq disturbed'
  BY DEF Working
<1>4. ASSUME NEW t \in Slots \ {s} PROVE Touched(s)' \cap Touched(t)' \subseteq disturbed'
  <2> SUFFICES ASSUME NEW k \in Touched(s)', k \in Touched(t) PROVE k \in disturbed'
    BY <1>2
  <2>1. CASE k \in Touched(s)
    BY <1>3, <2>1
  <2>2. CASE k \in Linens /\ Touch(s, k)
    BY <2>2 DEF Touch
  <2>3. CASE \A u \in Slots \ {s} : k \notin Touched(u)
    BY <2>3
  <2> QED BY <2>1, <2>2, <2>3 DEF Grows
<1>5. ASSUME NEW t \in Slots, NEW u \in Slots, t # u
      PROVE Touched(t)' \cap Touched(u)' \subseteq disturbed'
  <2>1. CASE t = s
    BY <1>4, <1>5, <2>1
  <2>2. CASE u = s
    BY <1>4, <1>5, <2>2
  <2>3. CASE t # s /\ u # s
    BY <1>2, <1>3, <1>5, <2>3
  <2> QED BY <2>1, <2>2, <2>3
<1> QED BY <1>5

LEMMA InTouched ==
  ASSUME NEW t \in Slots
  PROVE  /\ request[t].pc \in AtHand \cup {"insert"} => InHand(t) \in Touched(t)
         /\ \A i \in DOMAIN request[t].done : request[t].done[i].linen \in Touched(t)
         /\ \A k : k \notin Touched(t) => NoRow(request[t].done, k)
  BY DEF Touched, AtHand, NoRow

(* The other requests keep what they hold. *)
LEMMA Others ==
  ASSUME TypeOK, NEW s \in Slots, NEW t \in Slots \ {s}, Working(s), DocsStep(s), Apart,
         Shaped(request[s]), Shaped(request[t]), Born(t), Holds(t), Publishes(t)
  PROVE  Born(t)' /\ Holds(t)' /\ Publishes(t)'
<1>1. request'[t] = request[t] /\ disturbed \subseteq disturbed'
  BY DEF TypeOK, Working
<1>2. PICK r : r = request[t]
  OBVIOUS
<1>3. r \in Request /\ Shaped(r) /\ r = request'[t]
  BY <1>1, <1>2, RequestType
<1>4. PICK h : h = Head(r.todo)
  OBVIOUS
<1>5. InHand(t) = h /\ InHand(t)' = h
  BY <1>1, <1>2, <1>4 DEF InHand
<1>6. \A k \in Touched(t) \ disturbed : docs'[k] = docs[k]
  <2>1. Touched(t) \subseteq Linens
    BY <1>2, <1>3, TouchedIs, TouchedLinens
  <2>2. Touched(s) \cap Touched(t) \subseteq disturbed
    BY DEF Apart
  <2> QED BY <2>1, <2>2 DEF DocsStep
<1>7. \A k \in Touched(t) : k \in Linens /\ (docs[k] # Unborn => docs'[k] # Unborn)
  BY <1>2, <1>3, TouchedIs, TouchedLinens DEF DocsStep
<1>8. r.pc \in AtHand \cup {"insert"} => h \in Touched(t)
  BY <1>2, <1>5, InTouched
<1>9. \A i \in DOMAIN r.done : r.done[i].linen \in Touched(t)
  BY <1>2, InTouched
<1>10. \A k : k \notin Touched(t) => NoRow(r.done, k)
  BY <1>2, InTouched
<1>11. Born(t)'
  <2>1. \A i \in DOMAIN r.done : docs'[r.done[i].linen] # Unborn
    BY <1>2, <1>7, <1>9 DEF Born
  <2>2. r.pc \in AtHand => docs'[h] # Unborn
    BY <1>2, <1>5, <1>7, <1>8 DEF Born
  <2>3. ASSUME r.pc = "insert", NEW i \in DOMAIN r.todo PROVE docs'[r.todo[i]] = Unborn
    <3>1. docs[r.todo[i]] = Unborn /\ r.todo[i] \in Linens
      BY <1>2, <1>3, <2>3 DEF Born, Request
    <3>2. SUFFICES ASSUME docs'[r.todo[i]] # Unborn PROVE FALSE
      OBVIOUS
    <3>3. request[s].pc = "insert" /\ r.todo[i] = InHand(s)
      BY <3>1, <3>2 DEF DocsStep
    <3>4. ToSet(request[s].todo) \cap ToSet(r.todo) = {}
      BY <1>2, <2>3, <3>3 DEF Apart
    <3>5. r.todo[i] \in ToSet(r.todo)
      BY <2>3 DEF ToSet
    <3>6. InHand(s) \in ToSet(request[s].todo)
      <4>1. request[s] \in Request
        BY RequestType
      <4>2. request[s].todo # <<>>
        BY <3>3, <4>1, Shape
      <4> QED BY <4>1, <4>2 DEF InHand, ToSet, Request
    <3> QED BY <3>3, <3>4, <3>5, <3>6
  <2> QED BY <1>2, <1>3, <1>5, <2>1, <2>2, <2>3 DEF Born
<1>12. Holds(t)'
  <2>1. r.pc \in AtHand /\ h \notin disturbed' => docs'[h] = docs[h] /\ h \notin disturbed
    BY <1>1, <1>6, <1>8
  <2>2. r.pc \in AtHand /\ h \notin disturbed => Exists(h)
    BY <1>2, <1>5 DEF Holds
  <2>3. r.pc = "write" /\ h \notin disturbed => docs[h] = r.read
    BY <1>2, <1>5 DEF Holds
  <2>4. r.pc = "event" /\ r.kind = "bulkScan" /\ h \notin disturbed
          => docs[h] = Scanned(r.read, r.read, r.action)
    BY <1>2, <1>5 DEF Holds
  <2>5. r.pc \in AtHand /\ h \notin disturbed' => Exists(h)'
    BY <2>1, <2>2 DEF Exists
  <2>6. r.pc = "write" /\ h \notin disturbed' => docs'[h] = r.read
    BY <2>1, <2>3 DEF AtHand
  <2>7. r.pc = "event" /\ r.kind = "bulkScan" /\ h \notin disturbed'
          => docs'[h] = Scanned(r.read, r.read, r.action)
    BY <2>1, <2>4 DEF AtHand
  <2> QED BY <1>3, <1>5, <2>5, <2>6, <2>7 DEF Holds
<1>13. Publishes(t)'
  <2> SUFFICES ASSUME NEW k \in Linens \ disturbed', ~NoRow(r.done, k),
                      ~(r.pc = "event" /\ h = k)
               PROVE  LastRow(r.done, k, docs'[k])
    BY <1>3, <1>5 DEF Publishes
  <2>1. k \in Touched(t) \ disturbed
    BY <1>1, <1>10
  <2>2. LastRow(r.done, k, docs[k])
    BY <1>2, <1>5, <2>1 DEF Publishes
  <2> QED BY <1>6, <2>1, <2>2
<1> QED BY <1>11, <1>12, <1>13

-----------------------------------------------------------------------------
(* The last row of a linen. *)
LEMMA AppendRow ==
  ASSUME NEW S, NEW q \in Seq(S), NEW e \in S, NEW k
  PROVE  /\ e.linen = k => LastRow(Append(q, e), k, e.row)
         /\ e.linen # k => \A r : LastRow(q, k, r) => LastRow(Append(q, e), k, r)
         /\ NoRow(Append(q, e), k) <=> NoRow(q, k) /\ e.linen # k
<1> DEFINE p == Append(q, e)
<1>1. Len(q) \in Nat /\ DOMAIN q = 1..Len(q) /\ DOMAIN p = 1..(Len(q) + 1)
  OBVIOUS
<1>2. /\ \A i \in DOMAIN q : p[i] = q[i]
      /\ p[Len(q) + 1] = e
  OBVIOUS
<1> HIDE DEF p
<1>3. DOMAIN p = DOMAIN q \cup {Len(q) + 1} /\ Len(q) + 1 \notin DOMAIN q
  BY <1>1
<1>4. NoRow(p, k) <=> NoRow(q, k) /\ e.linen # k
  BY <1>2, <1>3 DEF NoRow
<1>5. e.linen = k => LastRow(p, k, e.row)
  <2> SUFFICES ASSUME e.linen = k PROVE LastRow(p, k, e.row)
    OBVIOUS
  <2>1. \A j \in DOMAIN p : ~(j > Len(q) + 1)
    BY <1>1
  <2> QED BY <1>2, <1>3, <2>1 DEF LastRow
<1>6. ASSUME e.linen # k, NEW r, LastRow(q, k, r) PROVE LastRow(p, k, r)
  <2>1. PICK i \in DOMAIN q : /\ q[i].linen = k /\ q[i].row = r
                              /\ \A j \in DOMAIN q : j > i => q[j].linen # k
    BY <1>6 DEF LastRow
  <2>2. \A j \in DOMAIN p : j > i => p[j].linen # k
    BY <1>2, <1>3, <1>6, <2>1
  <2>3. i \in DOMAIN p /\ p[i] = q[i]
    BY <1>2, <1>3, <2>1
  <2> QED BY <2>1, <2>2, <2>3 DEF LastRow
<1> QED BY <1>4, <1>5, <1>6 DEF p

LEMMA AppendDone ==
  ASSUME NEW q \in Seq([linen: Linens, row: Row]), NEW e \in [linen: Linens, row: Row], NEW k
  PROVE  /\ e.linen = k => LastRow(Append(q, e), k, e.row)
         /\ e.linen # k => \A r : LastRow(q, k, r) => LastRow(Append(q, e), k, r)
         /\ NoRow(Append(q, e), k) <=> NoRow(q, k) /\ e.linen # k
  BY AppendRow, Zenon

LEMMA OneRow ==
  ASSUME NEW e, NEW k
  PROVE  /\ e.linen = k => LastRow(<<e>>, k, e.row)
         /\ e.linen # k => NoRow(<<e>>, k)
<1>1. DOMAIN <<e>> = {1} /\ <<e>>[1] = e /\ \A j \in {1} : ~(j > 1)
  OBVIOUS
<1> QED BY <1>1 DEF LastRow, NoRow

LEMMA NoRowOfNone == \A k : NoRow(<<>>, k)
  BY DEF NoRow

LEMMA LastIsRow == ASSUME NEW q, NEW k, NEW r, LastRow(q, k, r) PROVE ~NoRow(q, k)
  BY DEF LastRow, NoRow

-----------------------------------------------------------------------------
(* The request of the step: what it remembers and holds. *)
Remembers(s) == \A k \in Touched(s) \ disturbed' : k \in Touched(s)'

Creates(s) ==
  \A k \in Touched(s)' : request'[s].kind = "bulkCreate" =>
    docs[k] = Unborn \/ (k \in Touched(s) /\ request[s].kind = "bulkCreate")

Kept(s) ==
  /\ Working(s) /\ DocsStep(s) /\ Grows(s) /\ Remembers(s) /\ Creates(s)
  /\ Born(s)' /\ Holds(s)' /\ Publishes(s)'

LEMMA SameDocs == ASSUME NEW s \in Slots, docs' = docs PROVE DocsStep(s)
  BY DEF DocsStep

LEMMA IdleTouches == TouchedBy(IdleRequest) = {}
  BY Idle DEF TouchedBy

LEMMA ExistsBorn == ASSUME NEW l, Exists(l) PROVE docs[l] # Unborn
  BY DEF Exists, Unborn

LEMMA BeginOnKept ==
  ASSUME TypeOK, NEW s \in Slots, Shaped(request[s]), NEW l \in Linens,
         NEW kind \in {"scan", "update", "delete"}, NEW action \in Actions \cup Edits \cup {None},
         kind = "scan" => action \in Actions, kind = "update" => action \in Edits,
         BeginOn(s, l, kind, action)
  PROVE  Kept(s)
<1>1. PICK q : q = request'[s]
  OBVIOUS
<1>2. /\ Working(s) /\ request'[s] = q /\ request[s].pc = "idle" /\ Exists(l) /\ Touch(s, l)
      /\ docs' = docs
  BY <1>1, BeginOnTypes
<1>3. /\ q.pc = "write" /\ q.kind = kind /\ q.todo = <<l>> /\ q.read = docs[l] /\ q.done = <<>>
  BY <1>1, BeginOnTypes
<1>4. Head(q.todo) = l /\ InHand(s)' = l
  BY <1>2, <1>3 DEF InHand
<1>5. request[s] = IdleRequest
  BY <1>2, RequestType, Shape
<1>6. Touched(s) = {} /\ Touched(s)' = {l}
  BY <1>2, <1>3, <1>4, <1>5, TouchedIs, IdleTouches DEF TouchedBy
<1>7. Grows(s) /\ Remembers(s)
  BY <1>2, <1>6 DEF Grows, Remembers
<1>8. Creates(s)
  BY <1>2, <1>3 DEF Creates
<1>9. Born(s)'
  BY <1>2, <1>3, <1>4, ExistsBorn DEF Born
<1>10. Exists(l)'
  BY <1>2 DEF Exists
<1>11. Holds(s)'
  BY <1>2, <1>3, <1>4, <1>10 DEF Holds
<1>12. Publishes(s)'
  BY <1>2, <1>3, NoRowOfNone DEF Publishes
<1> QED BY <1>2, <1>7, <1>8, <1>9, <1>11, <1>12, SameDocs DEF Kept

LEMMA BulkScanKept ==
  ASSUME TypeOK, NEW s \in Slots, Shaped(request[s]), NEW b \in Batches, BulkScan(s, b)
  PROVE  Kept(s)
<1>1. PICK q : q = request'[s]
  OBVIOUS
<1>2. Working(s) /\ request'[s] = q /\ request[s].pc = "idle" /\ docs' = docs
  BY <1>1, BulkScanTypes
<1>3. q.pc = "next" /\ q.kind = "bulkScan" /\ q.done = <<>>
  BY <1>1, BulkScanTypes
<1>5. request[s] = IdleRequest
  BY <1>2, RequestType, Shape
<1>6. Touched(s) = {} /\ Touched(s)' = {}
  BY <1>2, <1>3, <1>5, TouchedIs, IdleTouches DEF TouchedBy
<1>7. Grows(s) /\ Remembers(s) /\ Creates(s)
  BY <1>6 DEF Grows, Remembers, Creates
<1>9. Born(s)'
  BY <1>2, <1>3 DEF Born, AtHand
<1>11. Holds(s)'
  BY <1>2, <1>3 DEF Holds, AtHand
<1>12. Publishes(s)'
  BY <1>2, <1>3, NoRowOfNone DEF Publishes
<1> QED BY <1>2, <1>7, <1>9, <1>11, <1>12, SameDocs DEF Kept

(* A linen that is not born is touched by its creation only. *)
LEMMA UnbornUntouched ==
  ASSUME NEW t \in Slots, Born(t), NEW k \in Touched(t), docs[k] = Unborn
  PROVE  request[t].pc = "insert" /\ k = InHand(t)
  BY DEF Born, Touched, AtHand

LEMMA CreateKept ==
  ASSUME TypeOK, NEW s \in Slots, \A t \in Slots : Shaped(request[t]) /\ Born(t),
         NEW codes \in Seq(Linens),
         NEW kind \in {"create", "bulkCreate"}, CreateLinens(s, codes, kind)
  PROVE  Kept(s)
<1>1. PICK q : q = request'[s]
  OBVIOUS
<1>2. /\ Working(s) /\ request'[s] = q /\ request[s].pc = "idle" /\ docs' = docs
      /\ \A i \in DOMAIN codes : /\ docs[codes[i]] = Unborn
                                 /\ \A t \in Slots : codes[i] \notin ToSet(request[t].todo)
      /\ codes # <<>>
  BY <1>1, CreateTypes
<1>3. q.pc = "insert" /\ q.kind = kind /\ q.todo = codes /\ q.done = <<>>
  BY <1>1, CreateTypes
<1>4. PICK h : h = Head(codes)
  OBVIOUS
<1>5. request[s] = IdleRequest
  BY <1>2, RequestType, Shape
<1>6. Touched(s) = {} /\ Touched(s)' = {h}
  BY <1>2, <1>3, <1>4, <1>5, TouchedIs, IdleTouches DEF TouchedBy
<1>7. docs[h] = Unborn /\ \A t \in Slots : h \notin ToSet(request[t].todo)
  BY <1>2, <1>4
<1>8. ASSUME NEW t \in Slots, h \in Touched(t) PROVE FALSE
  <2>1. request[t].pc = "insert" /\ h = InHand(t)
    BY <1>7, <1>8, UnbornUntouched
  <2>2. request[t].todo # <<>> /\ request[t].todo \in Seq(Linens)
    <3>1. request[t] \in Request
      BY RequestType
    <3> QED BY <2>1, <3>1, Shape DEF Request
  <2>3. h \in ToSet(request[t].todo)
    BY <2>1, <2>2 DEF InHand, ToSet
  <2> QED BY <1>7, <2>3
<1>9. Grows(s) /\ Remembers(s) /\ Creates(s)
  BY <1>6, <1>7, <1>8 DEF Grows, Remembers, Creates
<1>10. Born(s)'
  BY <1>2, <1>3 DEF Born, AtHand
<1>11. Holds(s)'
  BY <1>2, <1>3 DEF Holds, AtHand
<1>12. Publishes(s)'
  BY <1>2, <1>3, NoRowOfNone DEF Publishes
<1> QED BY <1>2, <1>9, <1>10, <1>11, <1>12, SameDocs DEF Kept

LEMMA DoneType ==
  ASSUME NEW r \in Request
  PROVE  r.done \in Seq([linen: Linens, row: Row]) /\ r.todo \in Seq(Linens)
  BY DEF Request

LEMMA InsertKept ==
  ASSUME TypeOK, NEW s \in Slots, \A t \in Slots : Shaped(request[t]) /\ Born(t),
         Publishes(s), Apart, InsertLinen(s)
  PROVE  Kept(s)
<1>1. PICK r : r = request[s]
  OBVIOUS
<1>2. PICK h : h = Head(r.todo)
  OBVIOUS
<1>3. PICK e : e = [linen |-> h, row |-> NewLinen]
  OBVIOUS
<1>4. InHand(s) = h
  BY <1>1, <1>2 DEF InHand
<1>5. /\ Working(s) /\ r.pc = "insert" /\ h \in Linens
      /\ docs' = [docs EXCEPT ![h] = NewLinen] /\ disturbed' = disturbed
  BY <1>1, <1>4, InsertTypes
<1>6. request'[s] = [r EXCEPT !.pc = IF Len(r.todo) = 1 THEN "clock" ELSE "insert",
                              !.todo = Tail(r.todo), !.done = Append(r.done, e)]
  BY <1>1, <1>3, <1>4, InsertTypes
<1>7. r \in Request /\ Shaped(r)
  BY <1>1, RequestType
<1>8. r.done \in Seq([linen: Linens, row: Row]) /\ r.todo \in Seq(Linens) /\ r.todo # <<>>
      /\ IsInjective(r.todo)
  BY <1>5, <1>7, DoneType, Shape
<1>e. e \in [linen: Linens, row: Row] /\ e.linen = h /\ e.row = NewLinen
  BY <1>3, <1>5, Rows
<1>a. ASSUME NEW k
      PROVE  /\ e.linen = k => LastRow(Append(r.done, e), k, e.row)
             /\ e.linen # k => \A x : LastRow(r.done, k, x) => LastRow(Append(r.done, e), k, x)
             /\ NoRow(Append(r.done, e), k) <=> NoRow(r.done, k) /\ e.linen # k
  <2>1. r.done \in Seq([linen: Linens, row: Row]) /\ e \in [linen: Linens, row: Row]
    BY <1>8, <1>e
  <2> QED BY <2>1, AppendDone, Zenon
<1>9. PICK q : q = request'[s]
  OBVIOUS
<1>10. /\ q.pc = (IF Len(r.todo) = 1 THEN "clock" ELSE "insert") /\ q.todo = Tail(r.todo)
       /\ q.done = Append(r.done, e) /\ q.kind = r.kind
  BY <1>6, <1>7, <1>9 DEF Request
<1>11. docs[h] = Unborn /\ \A i \in DOMAIN r.todo : docs[r.todo[i]] = Unborn
  <2>1. \A i \in DOMAIN r.todo : docs[r.todo[i]] = Unborn
    BY <1>1, <1>5 DEF Born
  <2>2. 1 \in DOMAIN r.todo /\ h = r.todo[1]
    BY <1>2, <1>8
  <2> QED BY <2>1, <2>2
<1>12. docs \in [Linens -> Row] /\ docs'[h] = NewLinen /\ \A k \in Linens \ {h} : docs'[k] = docs[k]
  BY <1>5 DEF TypeOK
<1>13. \A i \in DOMAIN Tail(r.todo) : /\ Tail(r.todo)[i] \in Linens \ {h}
                                      /\ docs[Tail(r.todo)[i]] = Unborn
                                      /\ Tail(r.todo)[i] \in ToSet(r.todo)
  <2> SUFFICES ASSUME NEW i \in DOMAIN Tail(r.todo)
               PROVE  /\ Tail(r.todo)[i] \in Linens \ {h} /\ docs[Tail(r.todo)[i]] = Unborn
                      /\ Tail(r.todo)[i] \in ToSet(r.todo)
    OBVIOUS
  <2>1. i + 1 \in DOMAIN r.todo /\ Tail(r.todo)[i] = r.todo[i + 1] /\ i \in Nat /\ i # 0
    BY <1>8
  <2>2. 1 \in DOMAIN r.todo /\ h = r.todo[1]
    BY <1>2, <1>8
  <2>3. r.todo[i + 1] # h
    BY <1>8, <2>1, <2>2 DEF IsInjective
  <2>4. r.todo[i + 1] \in Linens
    BY <1>8, <2>1, Element
  <2> QED BY <1>11, <2>1, <2>3, <2>4 DEF ToSet
<1>14. Len(r.todo) # 1 => Head(q.todo) \in Linens \ {h} /\ docs[Head(q.todo)] = Unborn
                          /\ Head(q.todo) \in ToSet(r.todo)
  <2>1. Len(r.todo) # 1 => 1 \in DOMAIN Tail(r.todo) /\ Head(Tail(r.todo)) = Tail(r.todo)[1]
    <3>1. PICK d : d = Tail(r.todo)
      OBVIOUS
    <3>2. d \in Seq(Linens) /\ Len(d) = Len(r.todo) - 1 /\ Len(r.todo) \in Nat /\ Len(r.todo) # 0
      BY <1>8, <3>1
    <3>3. Len(d) \in Nat /\ DOMAIN d = 1..Len(d)
      BY <3>2
    <3>4. Len(r.todo) # 1 => 1 \in DOMAIN d
      <4>1. PICK n \in Nat : n = Len(r.todo)
        BY <3>2
      <4>2. n # 1 => Len(d) >= 1
        <5>1. n # 0 /\ Len(d) = n - 1
          BY <3>2, <4>1
        <5> QED BY <5>1
      <4>3. Len(d) >= 1 => 1 \in 1..Len(d)
        BY <3>3
      <4> QED BY <3>3, <4>1, <4>2, <4>3
    <3>5. 1 \in DOMAIN d => Head(d) = d[1]
      BY <3>2
    <3> QED BY <3>1, <3>4, <3>5
  <2> QED BY <1>10, <1>13, <2>1
<1>15. {q.done[i].linen : i \in DOMAIN q.done} = {r.done[i].linen : i \in DOMAIN r.done} \cup {h}
  <2>1. /\ DOMAIN q.done = DOMAIN r.done \cup {Len(r.done) + 1}
        /\ \A i \in DOMAIN r.done : q.done[i] = r.done[i]
        /\ q.done[Len(r.done) + 1] = e
    BY <1>8, <1>10, <1>e
  <2> QED BY <2>1, <1>e
<1>16. Touched(s) = {r.done[i].linen : i \in DOMAIN r.done} \cup {h}
  BY <1>1, <1>2, <1>5, TouchedIs DEF TouchedBy
<1>17. Touched(s)' = Touched(s) \cup (IF q.pc = "insert" THEN {Head(q.todo)} ELSE {})
  <2>1. q.pc \in {"insert", "clock"}
    BY <1>10
  <2> QED BY <1>9, <1>15, <1>16, <2>1, TouchedIs DEF TouchedBy
<1>18. ASSUME NEW t \in Slots \ {s}, q.pc = "insert", Head(q.todo) \in Touched(t) PROVE FALSE
  <2>0. Len(r.todo) # 1
    BY <1>10, <1>18
  <2>1. request[t].pc = "insert" /\ Head(q.todo) = InHand(t)
    BY <1>14, <1>18, <2>0, UnbornUntouched
  <2>2. request[t].todo # <<>> /\ request[t].todo \in Seq(Linens)
    BY <2>1, RequestType, Shape, DoneType
  <2>3. Head(q.todo) \in ToSet(request[t].todo)
    BY <2>1, <2>2 DEF InHand, ToSet
  <2>4. ToSet(r.todo) \cap ToSet(request[t].todo) = {}
    BY <1>1, <1>5, <2>1 DEF Apart
  <2> QED BY <1>14, <2>0, <2>3, <2>4
<1>19. Grows(s)
  BY <1>17, <1>18 DEF Grows
<1>20. Remembers(s)
  BY <1>17 DEF Remembers
<1>21. Creates(s)
  BY <1>1, <1>9, <1>10, <1>14, <1>17 DEF Creates
<1>22. DocsStep(s)
  BY <1>1, <1>4, <1>5, <1>11, <1>12, <1>16, Rows DEF DocsStep
<1>23. Born(s)'
  <2>1. ASSUME NEW i \in DOMAIN q.done PROVE docs'[q.done[i].linen] # Unborn
    <3>1. /\ DOMAIN q.done = DOMAIN r.done \cup {Len(r.done) + 1}
          /\ \A j \in DOMAIN r.done : q.done[j] = r.done[j]
          /\ q.done[Len(r.done) + 1] = e
      BY <1>8, <1>10, <1>e
    <3>2. CASE i = Len(r.done) + 1
      BY <3>1, <3>2, <1>e, <1>12, Rows
    <3>3. CASE i \in DOMAIN r.done
      <4>1. docs[r.done[i].linen] # Unborn
        BY <1>1, <3>3 DEF Born
      <4>2. r.done[i].linen \in Linens
        <5>1. r.done[i] \in [linen: Linens, row: Row]
          BY <1>8, <3>3, Element
        <5> QED BY <5>1
      <4> QED BY <1>11, <1>12, <3>1, <3>3, <4>1, <4>2
    <3> QED BY <2>1, <3>1, <3>2, <3>3
  <2>2. q.pc \notin AtHand
    BY <1>10 DEF AtHand
  <2>3. \A i \in DOMAIN q.todo : docs'[q.todo[i]] = Unborn
    BY <1>10, <1>12, <1>13
  <2> QED BY <1>9, <2>1, <2>2, <2>3 DEF Born
<1>24. Holds(s)'
  BY <1>9, <1>10 DEF Holds, AtHand
<1>25. Publishes(s)'
  <2> SUFFICES ASSUME NEW k \in Linens \ disturbed', ~NoRow(q.done, k)
               PROVE  LastRow(q.done, k, docs'[k])
    BY <1>9 DEF Publishes
  <2>1. CASE k = h
    BY <1>a, <1>10, <1>e, <1>12, <2>1
  <2>2. CASE k # h
    <3>1. ~NoRow(r.done, k)
      BY <1>a, <1>10, <1>e, <2>2
    <3>2. LastRow(r.done, k, docs[k])
      BY <1>1, <1>5, <3>1 DEF Publishes
    <3> QED BY <1>a, <1>10, <1>e, <1>12, <2>2, <3>2
  <2> QED BY <2>1, <2>2
<1> QED BY <1>5, <1>19, <1>20, <1>21, <1>22, <1>23, <1>24, <1>25 DEF Kept

LEMMA NextKept ==
  ASSUME TypeOK, NEW s \in Slots, Shaped(request[s]), Born(s), Publishes(s), NextCode(s)
  PROVE  Kept(s)
<1>1. PICK r : r = request[s]
  OBVIOUS
<1>2. PICK q : q = request'[s]
  OBVIOUS
<1>3. /\ Working(s) /\ r.pc = "next" /\ r \in Request /\ r.kind = "bulkScan"
      /\ docs' = docs /\ disturbed \subseteq disturbed'
  <2>1. Working(s) /\ r.pc = "next" /\ docs' = docs
    BY <1>1, NextTypes
  <2>2. r \in Request /\ r.kind = "bulkScan"
    BY <1>1, <2>1, RequestType, Shape
  <2> QED BY <2>1, <2>2 DEF Working
<1>4. Touched(s) = {r.done[i].linen : i \in DOMAIN r.done}
  BY <1>1, <1>3, TouchedIs DEF TouchedBy
<1>5. ASSUME q.done = r.done, q.kind = "bulkScan",
             \/ q.pc \in {"clock", "next"} /\ Touched(s)' = Touched(s)
             \/ /\ q.pc = "write" /\ Touched(s)' = Touched(s) \cup {InHand(s)}
                /\ InHand(s)' = InHand(s) /\ q.read = docs[InHand(s)]
                /\ InHand(s) \in Linens /\ Exists(InHand(s)) /\ Touch(s, InHand(s))
      PROVE Kept(s)
  <2>1. Grows(s) /\ Remembers(s) /\ Creates(s)
    BY <1>2, <1>5 DEF Grows, Remembers, Creates
  <2>2. Born(s)'
    BY <1>1, <1>2, <1>3, <1>5, ExistsBorn DEF Born, AtHand
  <2>3. Holds(s)'
    BY <1>2, <1>3, <1>5 DEF Holds, AtHand, Exists
  <2>4. Publishes(s)'
    BY <1>1, <1>2, <1>3, <1>5 DEF Publishes
  <2> QED BY <1>3, <2>1, <2>2, <2>3, <2>4, SameDocs DEF Kept
<1>6. CASE r.done = <<>> /\ q = IdleRequest
  <2>1. Touched(s) = {} /\ Touched(s)' = {}
    <3>1. DOMAIN r.done = {}
      BY <1>6
    <3> QED BY <1>2, <1>4, <1>6, <3>1, TouchedIs, IdleTouches
  <2>2. Grows(s) /\ Remembers(s) /\ Creates(s)
    BY <2>1 DEF Grows, Remembers, Creates
  <2>3. Born(s)' /\ Holds(s)' /\ Publishes(s)'
    BY <1>2, <1>6, Idle, NoRowOfNone DEF Born, Holds, Publishes, AtHand
  <2> QED BY <1>3, <2>2, <2>3, SameDocs DEF Kept
<1>7. CASE q = [r EXCEPT !.pc = "clock"]
  <2>1. q.pc = "clock" /\ q.done = r.done /\ q.kind = r.kind
    BY <1>3, <1>7 DEF Request
  <2>2. Touched(s)' = Touched(s)
    BY <1>2, <1>4, <2>1, TouchedIs DEF TouchedBy
  <2> QED BY <1>3, <1>5, <2>1, <2>2
<1>8. CASE q = [r EXCEPT !.todo = Tail(r.todo)]
  <2>1. q.pc = "next" /\ q.done = r.done /\ q.kind = r.kind
    BY <1>3, <1>8 DEF Request
  <2>2. Touched(s)' = Touched(s)
    BY <1>2, <1>4, <2>1, TouchedIs DEF TouchedBy
  <2> QED BY <1>3, <1>5, <2>1, <2>2
<1>9. CASE /\ InHand(s) \in Linens /\ Exists(InHand(s)) /\ Touch(s, InHand(s))
           /\ q = [r EXCEPT !.pc = "write", !.read = docs[InHand(s)]]
  <2>1. q.pc = "write" /\ q.done = r.done /\ q.kind = r.kind /\ q.todo = r.todo
        /\ q.read = docs[InHand(s)]
    BY <1>3, <1>9 DEF Request
  <2>2. InHand(s)' = InHand(s) /\ InHand(s) = Head(q.todo)
    BY <1>1, <1>2, <2>1 DEF InHand
  <2>3. Touched(s)' = Touched(s) \cup {InHand(s)}
    BY <1>2, <1>4, <2>1, <2>2, TouchedIs DEF TouchedBy
  <2> QED BY <1>3, <1>5, <1>9, <2>1, <2>2, <2>3
<1> QED BY <1>1, <1>2, <1>6, <1>7, <1>8, <1>9, NextTypes

LEMMA StatusBorn ==
  ASSUME NEW row, row.status \in LINEN_STATUSES
  PROVE  row # Unborn /\ row.status \notin {"UNBORN", "GONE"}
  BY Statuses DEF Unborn

LEMMA WriteKept ==
  ASSUME TypeOK, NEW s \in Slots, Shaped(request[s]), Born(s), Holds(s), Publishes(s),
         WriteLinen(s)
  PROVE  Kept(s)
<1>1. PICK r : r = request[s]
  OBVIOUS
<1>2. PICK q : q = request'[s]
  OBVIOUS
<1>3. PICK h : h = Head(r.todo)
  OBVIOUS
<1>4. InHand(s) = h
  BY <1>1, <1>3 DEF InHand
<1>5. /\ Working(s) /\ r.pc = "write" /\ h \in Linens /\ disturbed' = disturbed
      /\ r \in Request /\ Shaped(r)
  BY <1>1, <1>4, WriteTypes, RequestType
<1>6. docs \in [Linens -> Row]
  BY DEF TypeOK
<1>7. Touched(s) = {r.done[i].linen : i \in DOMAIN r.done} \cup {h}
  BY <1>1, <1>3, <1>5, TouchedIs DEF TouchedBy
<1>8. docs[h] # Unborn /\ \A i \in DOMAIN r.done : docs[r.done[i].linen] # Unborn
  BY <1>1, <1>4, <1>5 DEF Born, AtHand
<1>9. h \notin disturbed => Exists(h) /\ docs[h] = r.read
  BY <1>1, <1>4, <1>5 DEF Holds, AtHand
<1>10. \A k \in Linens \ disturbed : NoRow(r.done, k) \/ LastRow(r.done, k, docs[k])
  BY <1>1, <1>5 DEF Publishes
<1>11. \A i \in DOMAIN r.done : r.done[i].linen \in Linens
  <2> TAKE i \in DOMAIN r.done
  <2>1. r.done[i] \in [linen: Linens, row: Row]
    BY <1>5, DoneType, Element
  <2> QED BY <2>1
<1>12. ASSUME NEW row, row # Unborn, docs' = [docs EXCEPT ![h] = row]
       PROVE  /\ DocsStep(s) /\ docs'[h] = row /\ \A k \in Linens \ {h} : docs'[k] = docs[k]
              /\ \A i \in DOMAIN r.done : docs'[r.done[i].linen] # Unborn
  <2>1. docs'[h] = row /\ \A k \in Linens \ {h} : docs'[k] = docs[k]
    BY <1>5, <1>6, <1>12
  <2>2. \A k \in Linens : docs'[k] # docs[k] => k = h
    BY <2>1
  <2> QED BY <1>7, <1>8, <1>11, <1>12, <2>1, <2>2 DEF DocsStep
<1>13. CASE /\ r.kind \in {"scan", "bulkScan"} /\ r.action \in Actions
            /\ q = [r EXCEPT !.pc = "event"]
            /\ docs' = IF ~Exists(h) THEN docs
                       ELSE [docs EXCEPT ![h] = Scanned(docs[h], r.read, r.action)]
  <2>1. q.pc = "event" /\ q.kind = r.kind /\ q.action = r.action /\ q.todo = r.todo
        /\ q.done = r.done /\ q.read = r.read
    BY <1>5, <1>13 DEF Request
  <2>2. InHand(s)' = h
    BY <1>2, <1>3, <2>1 DEF InHand
  <2>3. Touched(s)' = Touched(s)
    BY <1>2, <1>3, <1>7, <2>1, TouchedIs DEF TouchedBy
  <2>4. Grows(s) /\ Remembers(s) /\ Creates(s)
    BY <1>2, <1>13, <2>1, <2>3 DEF Grows, Remembers, Creates
  <2>5. /\ DocsStep(s) /\ \A k \in Linens \ {h} : docs'[k] = docs[k]
        /\ \A i \in DOMAIN r.done : docs'[r.done[i].linen] # Unborn
        /\ docs'[h] # Unborn
        /\ h \notin disturbed => /\ docs'[h].status \notin {"UNBORN", "GONE"}
                                 /\ docs'[h] = Scanned(r.read, r.read, r.action)
    <3>1. CASE ~Exists(h)
      BY <1>8, <1>9, <1>13, <3>1, SameDocs
    <3>2. CASE Exists(h)
      <4>1. PICK row : row = Scanned(docs[h], r.read, r.action)
        OBVIOUS
      <4>2. row.status \in LINEN_STATUSES
        <5>1. docs[h] \in Row /\ r.read \in Row
          BY <1>5, <1>6 DEF Request
        <5> QED BY <1>13, <4>1, <5>1, ScannedRow
      <4>3. docs' = [docs EXCEPT ![h] = row]
        BY <1>13, <3>2, <4>1
      <4>4. row # Unborn /\ row.status \notin {"UNBORN", "GONE"}
        BY <4>2, StatusBorn
      <4>5. /\ DocsStep(s) /\ docs'[h] = row /\ \A k \in Linens \ {h} : docs'[k] = docs[k]
            /\ \A i \in DOMAIN r.done : docs'[r.done[i].linen] # Unborn
        BY <1>12, <4>3, <4>4
      <4> QED BY <1>9, <4>1, <4>4, <4>5
    <3> QED BY <3>1, <3>2
  <2>6. Born(s)'
    BY <1>2, <2>1, <2>2, <2>5 DEF Born
  <2>7. Holds(s)'
    BY <1>2, <1>5, <2>1, <2>2, <2>5 DEF Holds, Exists
  <2>8. Publishes(s)'
    BY <1>2, <1>5, <1>10, <2>1, <2>2, <2>5 DEF Publishes
  <2> QED BY <1>5, <2>4, <2>5, <2>6, <2>7, <2>8 DEF Kept
<1>14. CASE r.kind \in {"update", "delete"} /\ ~Exists(h) /\ docs' = docs /\ q = IdleRequest
  <2>0. r.done = <<>>
    BY <1>5, <1>14, Shape DEF AtHand
  <2>1. Touched(s) = {h} /\ Touched(s)' = {}
    <3>1. DOMAIN r.done = {}
      BY <2>0
    <3> QED BY <1>2, <1>7, <1>14, <3>1, TouchedIs, IdleTouches
  <2>2. Grows(s) /\ Remembers(s) /\ Creates(s)
    BY <1>5, <1>9, <1>14, <2>1 DEF Grows, Remembers, Creates
  <2>3. Born(s)' /\ Holds(s)' /\ Publishes(s)'
    BY <1>2, <1>14, Idle, NoRowOfNone DEF Born, Holds, Publishes, AtHand
  <2> QED BY <1>5, <1>14, <2>2, <2>3, SameDocs DEF Kept
<1>15. CASE /\ r.kind = "update" /\ r.action \in Edits /\ Exists(h)
            /\ docs' = [docs EXCEPT ![h] = [docs[h] EXCEPT !.status = r.action]]
            /\ q = [r EXCEPT !.pc = "reread"]
  <2>0. r.done = <<>>
    BY <1>5, <1>15, Shape DEF AtHand
  <2>1. q.pc = "reread" /\ q.kind = r.kind /\ q.todo = r.todo /\ q.done = r.done
    BY <1>5, <1>15 DEF Request
  <2>2. InHand(s)' = h
    BY <1>2, <1>3, <2>1 DEF InHand
  <2>3. Touched(s)' = Touched(s)
    BY <1>2, <1>3, <1>7, <2>1, TouchedIs DEF TouchedBy
  <2>4. Grows(s) /\ Remembers(s) /\ Creates(s)
    BY <1>2, <1>15, <2>1, <2>3 DEF Grows, Remembers, Creates
  <2>5. PICK row : row = [docs[h] EXCEPT !.status = r.action]
    OBVIOUS
  <2>6. row.status \in LINEN_STATUSES
    <3>1. docs[h] \in Row
      BY <1>5, <1>6
    <3> QED BY <1>15, <2>5, <3>1, EditedRow
  <2>7. row # Unborn /\ row.status \notin {"UNBORN", "GONE"}
    BY <2>6, StatusBorn
  <2>8. docs' = [docs EXCEPT ![h] = row]
    BY <1>15, <2>5
  <2>9. DocsStep(s) /\ docs'[h] = row
    BY <1>12, <2>7, <2>8
  <2>10. Born(s)'
    <3>1. DOMAIN q.done = {}
      BY <2>0, <2>1
    <3> QED BY <1>2, <2>1, <2>2, <2>7, <2>9, <3>1 DEF Born
  <2>11. Holds(s)'
    BY <1>2, <2>1, <2>2, <2>7, <2>9 DEF Holds, Exists
  <2>12. Publishes(s)'
    BY <1>2, <2>0, <2>1, NoRowOfNone DEF Publishes
  <2> QED BY <1>5, <2>4, <2>9, <2>10, <2>11, <2>12 DEF Kept
<1>16. CASE /\ r.kind = "delete" /\ Exists(h) /\ docs' = [docs EXCEPT ![h] = Gone]
            /\ q = [r EXCEPT !.pc = "clock", !.done = <<[linen |-> h, row |-> Gone]>>]
  <2>0. r.done = <<>>
    BY <1>5, <1>16, Shape DEF AtHand
  <2>e. PICK e : e = [linen |-> h, row |-> Gone]
    OBVIOUS
  <2>1. q.pc = "clock" /\ q.kind = r.kind /\ q.todo = r.todo /\ q.done = <<e>>
        /\ e.linen = h /\ e.row = Gone
    BY <1>5, <1>16, <2>e DEF Request
  <2>2. Touched(s) = {h}
    <3>1. DOMAIN r.done = {}
      BY <2>0
    <3> QED BY <1>7, <3>1
  <2>3. Touched(s)' = {h}
    <3>1. DOMAIN q.done = {1} /\ q.done[1] = e
      BY <2>1
    <3> QED BY <1>2, <2>1, <3>1, TouchedIs DEF TouchedBy
  <2>4. Grows(s) /\ Remembers(s) /\ Creates(s)
    BY <1>2, <1>16, <2>1, <2>2, <2>3 DEF Grows, Remembers, Creates
  <2>9. DocsStep(s) /\ docs'[h] = Gone
    BY <1>12, <1>16, Rows
  <2>10. Born(s)'
    <3>1. DOMAIN q.done = {1} /\ q.done[1] = e
      BY <2>1
    <3> QED BY <1>2, <2>1, <2>9, <3>1, Rows DEF Born, AtHand
  <2>11. Holds(s)'
    BY <1>2, <2>1 DEF Holds, AtHand
  <2>12. Publishes(s)'
    <3> SUFFICES ASSUME NEW k \in Linens, ~NoRow(q.done, k) PROVE LastRow(q.done, k, docs'[k])
      BY <1>2 DEF Publishes
    <3> QED BY <2>1, <2>9, OneRow
  <2> QED BY <1>5, <2>4, <2>9, <2>10, <2>11, <2>12 DEF Kept
<1> QED BY <1>1, <1>2, <1>4, <1>13, <1>14, <1>15, <1>16, WriteTypes

LEMMA RecordKept ==
  ASSUME TypeOK, NEW s \in Slots, Shaped(request[s]), Born(s), Holds(s), Publishes(s),
         RecordScan(s)
  PROVE  Kept(s)
<1>1. PICK r : r = request[s]
  OBVIOUS
<1>2. PICK q : q = request'[s]
  OBVIOUS
<1>3. PICK h : h = Head(r.todo)
  OBVIOUS
<1>4. InHand(s) = h
  BY <1>1, <1>3 DEF InHand
<1>5. /\ Working(s) /\ r.pc = "event" /\ h \in Linens /\ disturbed' = disturbed /\ docs' = docs
      /\ r \in Request /\ Shaped(r) /\ r.action \in Actions
  BY <1>1, <1>4, RecordTypes, RequestType
<1>7. Touched(s) = {r.done[i].linen : i \in DOMAIN r.done} \cup {h}
  BY <1>1, <1>3, <1>5, TouchedIs DEF TouchedBy
<1>8. docs[h] # Unborn /\ \A i \in DOMAIN r.done : docs[r.done[i].linen] # Unborn
  BY <1>1, <1>4, <1>5 DEF Born, AtHand
<1>9. h \notin disturbed =>
        Exists(h) /\ (r.kind = "bulkScan" => docs[h] = Scanned(r.read, r.read, r.action))
  BY <1>1, <1>4, <1>5 DEF Holds, AtHand
<1>10. \A k \in Linens \ disturbed :
         NoRow(r.done, k) \/ LastRow(r.done, k, docs[k]) \/ k = h
  BY <1>1, <1>4, <1>5 DEF Publishes
<1>11. CASE r.kind = "scan" /\ q = [r EXCEPT !.pc = "reread"]
  <2>1. q.pc = "reread" /\ q.kind = r.kind /\ q.todo = r.todo /\ q.done = r.done
    BY <1>5, <1>11 DEF Request
  <2>2. InHand(s)' = h
    BY <1>2, <1>3, <2>1 DEF InHand
  <2>3. Touched(s)' = Touched(s)
    BY <1>2, <1>3, <1>7, <2>1, TouchedIs DEF TouchedBy
  <2>4. Grows(s) /\ Remembers(s) /\ Creates(s)
    BY <1>2, <1>11, <2>1, <2>3 DEF Grows, Remembers, Creates
  <2>5. Born(s)'
    BY <1>2, <1>5, <1>8, <2>1, <2>2 DEF Born
  <2>6. Holds(s)'
    BY <1>2, <1>5, <1>9, <2>1, <2>2 DEF Holds, Exists
  <2>7. r.done = <<>>
    BY <1>5, <1>11, Shape DEF AtHand
  <2>8. Publishes(s)'
    BY <1>2, <2>1, <2>7, NoRowOfNone DEF Publishes
  <2> QED BY <1>5, <2>4, <2>5, <2>6, <2>8, SameDocs DEF Kept
<1>12. PICK e : e = [linen |-> h, row |-> Scanned(r.read, r.read, r.action)]
  OBVIOUS
<1>13. CASE r.kind = "bulkScan" /\ q = [r EXCEPT !.pc = "next", !.todo = Tail(r.todo),
                                                 !.done = Append(r.done, e)]
  <2>1. q.pc = "next" /\ q.kind = r.kind /\ q.done = Append(r.done, e)
    BY <1>5, <1>13 DEF Request
  <2>2. e \in [linen: Linens, row: Row] /\ e.linen = h
        /\ e.row = Scanned(r.read, r.read, r.action)
    <3>1. r.read \in Row
      BY <1>5 DEF Request
    <3>2. Scanned(r.read, r.read, r.action) \in Row
      BY <1>5, <3>1, ScannedRow
    <3> QED BY <1>5, <1>12, <3>2
  <2>3. r.done \in Seq([linen: Linens, row: Row])
    BY <1>5, DoneType
  <2>4. /\ DOMAIN q.done = DOMAIN r.done \cup {Len(r.done) + 1}
        /\ \A i \in DOMAIN r.done : q.done[i] = r.done[i]
        /\ q.done[Len(r.done) + 1] = e
    BY <2>1, <2>2, <2>3
  <2>5. {q.done[i].linen : i \in DOMAIN q.done} = Touched(s)
    BY <1>7, <2>2, <2>4
  <2>6. Touched(s)' = Touched(s)
    BY <1>2, <2>1, <2>5, TouchedIs DEF TouchedBy
  <2>7. Grows(s) /\ Remembers(s) /\ Creates(s)
    BY <1>2, <1>13, <2>1, <2>6 DEF Grows, Remembers, Creates
  <2>8. Born(s)'
    BY <1>2, <1>5, <1>8, <2>1, <2>2, <2>4 DEF Born, AtHand
  <2>9. Holds(s)'
    BY <1>2, <2>1 DEF Holds, AtHand
  <2>10. Publishes(s)'
    <3> SUFFICES ASSUME NEW k \in Linens \ disturbed, ~NoRow(q.done, k)
                 PROVE  LastRow(q.done, k, docs[k])
      BY <1>2, <1>5 DEF Publishes
    <3>1. /\ e.linen = k => LastRow(Append(r.done, e), k, e.row)
          /\ e.linen # k => \A x : LastRow(r.done, k, x) => LastRow(Append(r.done, e), k, x)
          /\ NoRow(Append(r.done, e), k) <=> NoRow(r.done, k) /\ e.linen # k
      <4>1. e \in [linen: Linens, row: Row]
        BY <2>2
      <4> QED BY <2>3, <4>1, AppendDone, Zenon
    <3> QED BY <1>9, <1>10, <1>13, <2>1, <2>2, <3>1
  <2> QED BY <1>5, <2>7, <2>8, <2>9, <2>10, SameDocs DEF Kept
<1> QED BY <1>1, <1>2, <1>4, <1>11, <1>12, <1>13, RecordTypes

LEMMA RereadKept ==
  ASSUME TypeOK, NEW s \in Slots, Shaped(request[s]), Born(s), Holds(s), RereadLinen(s)
  PROVE  Kept(s)
<1>1. PICK r : r = request[s]
  OBVIOUS
<1>2. PICK q : q = request'[s]
  OBVIOUS
<1>3. PICK h : h = Head(r.todo)
  OBVIOUS
<1>4. InHand(s) = h
  BY <1>1, <1>3 DEF InHand
<1>5. /\ Working(s) /\ r.pc = "reread" /\ h \in Linens /\ disturbed' = disturbed /\ docs' = docs
      /\ r \in Request /\ r.done = <<>> /\ r.kind \in {"scan", "update"}
  BY <1>1, <1>4, RereadTypes, RequestType
<1>6. PICK done : done = IF Exists(h) THEN <<[linen |-> h, row |-> docs[h]]>> ELSE <<>>
  OBVIOUS
<1>7. Touched(s) = {h}
  <2>1. DOMAIN r.done = {}
    BY <1>5
  <2> QED BY <1>1, <1>3, <1>5, <2>1, TouchedIs DEF TouchedBy
<1>8. docs[h] # Unborn /\ (h \notin disturbed => Exists(h))
  BY <1>1, <1>4, <1>5 DEF Born, Holds, AtHand
<1>9. q.pc = "clock" /\ q.done = done /\ q.kind = r.kind
  <2>1. q = [r EXCEPT !.pc = "clock", !.done = done]
    BY <1>1, <1>2, <1>4, <1>6, RereadTypes
  <2> QED BY <1>5, <2>1 DEF Request
<1>10. CASE Exists(h)
  <2>1. PICK e : e = [linen |-> h, row |-> docs[h]]
    OBVIOUS
  <2>2. done = <<e>> /\ e.linen = h /\ e.row = docs[h] /\ DOMAIN done = {1} /\ done[1] = e
    BY <1>6, <1>10, <2>1
  <2>3. Touched(s)' = {h}
    BY <1>2, <1>9, <2>2, TouchedIs DEF TouchedBy
  <2>4. Grows(s) /\ Remembers(s) /\ Creates(s)
    BY <1>2, <1>5, <1>7, <1>9, <2>3 DEF Grows, Remembers, Creates
  <2>5. Born(s)'
    BY <1>2, <1>5, <1>8, <1>9, <2>2 DEF Born, AtHand
  <2>6. Holds(s)'
    BY <1>2, <1>9 DEF Holds, AtHand
  <2>7. Publishes(s)'
    <3> SUFFICES ASSUME NEW k \in Linens, ~NoRow(done, k) PROVE LastRow(done, k, docs[k])
      BY <1>2, <1>5, <1>9 DEF Publishes
    <3> QED BY <2>2, OneRow
  <2> QED BY <1>5, <2>4, <2>5, <2>6, <2>7, SameDocs DEF Kept
<1>11. CASE ~Exists(h)
  <2>1. done = <<>> /\ DOMAIN done = {}
    BY <1>6, <1>11
  <2>2. Touched(s)' = {}
    BY <1>2, <1>9, <2>1, TouchedIs DEF TouchedBy
  <2>4. Grows(s) /\ Remembers(s) /\ Creates(s)
    BY <1>5, <1>7, <1>8, <1>11, <2>2 DEF Grows, Remembers, Creates
  <2>5. Born(s)' /\ Holds(s)' /\ Publishes(s)'
    BY <1>2, <1>9, <2>1, NoRowOfNone DEF Born, Holds, Publishes, AtHand
  <2> QED BY <1>5, <2>4, <2>5, SameDocs DEF Kept
<1> QED BY <1>10, <1>11

LEMMA BumpKept ==
  ASSUME TypeOK, NEW s \in Slots, Shaped(request[s]), Born(s), Publishes(s), BumpLiveClock(s)
  PROVE  Kept(s)
<1>1. PICK r : r = request[s]
  OBVIOUS
<1>2. PICK q : q = request'[s]
  OBVIOUS
<1>3. /\ Working(s) /\ r.pc = "clock" /\ docs' = docs /\ disturbed' = disturbed /\ r \in Request
  BY <1>1, BumpTypes, RequestType
<1>4. q.pc = "publish" /\ q.done = r.done /\ q.kind = r.kind
  <2>1. q = [r EXCEPT !.pc = "publish", !.clock = clock + 1]
    BY <1>1, <1>2, BumpTypes
  <2> QED BY <1>3, <2>1 DEF Request
<1>5. Touched(s)' = Touched(s)
  BY <1>1, <1>2, <1>3, <1>4, TouchedIs DEF TouchedBy
<1>6. Grows(s) /\ Remembers(s) /\ Creates(s)
  BY <1>1, <1>2, <1>4, <1>5 DEF Grows, Remembers, Creates
<1>7. Born(s)' /\ Holds(s)' /\ Publishes(s)'
  BY <1>1, <1>2, <1>3, <1>4 DEF Born, Holds, Publishes, AtHand
<1> QED BY <1>3, <1>6, <1>7, SameDocs DEF Kept

-----------------------------------------------------------------------------
(* Creations do not share linens. *)
InsertsApart(s) ==
  request'[s].pc = "insert" =>
    \A t \in Slots \ {s} : request[t].pc = "insert" =>
      ToSet(request'[s].todo) \cap ToSet(request[t].todo) = {}

LEMMA StaysApart ==
  ASSUME TypeOK, NEW s \in Slots, Working(s), Grows(s), InsertsApart(s), Apart
  PROVE  Apart'
<1>1. \A t \in Slots \ {s} : request'[t] = request[t]
  BY DEF TypeOK, Working
<1>2. \A t, u \in Slots : t # u => Touched(t)' \cap Touched(u)' \subseteq disturbed'
  <2>1. \A t, u \in Slots : t # u => Touched(t) \cap Touched(u) \subseteq disturbed
    BY DEF Apart
  <2> QED BY <2>1, GrowApart
<1>3. ASSUME NEW t \in Slots, NEW u \in Slots, t # u,
             request'[t].pc = "insert", request'[u].pc = "insert"
      PROVE ToSet(request'[t].todo) \cap ToSet(request'[u].todo) = {}
  <2>1. CASE t = s
    BY <1>1, <1>3, <2>1 DEF InsertsApart
  <2>2. CASE u = s
    BY <1>1, <1>3, <2>2 DEF InsertsApart
  <2>3. CASE t # s /\ u # s
    BY <1>1, <1>3, <2>3 DEF Apart
  <2> QED BY <2>1, <2>2, <2>3
<1> QED BY <1>2, <1>3 DEF Apart

LEMMA InsertInsertsApart ==
  ASSUME TypeOK, NEW s \in Slots, Shaped(request[s]), Apart, InsertLinen(s)
  PROVE  InsertsApart(s)
<1>1. PICK r : r = request[s]
  OBVIOUS
<1>2. r.pc = "insert" /\ r \in Request /\ Shaped(r) /\ request'[s].todo = Tail(r.todo)
  <2>1. r.pc = "insert" /\ r \in Request /\ Shaped(r)
    BY <1>1, InsertTypes, RequestType
  <2>2. request'[s] = [r EXCEPT !.pc = IF Len(r.todo) = 1 THEN "clock" ELSE "insert",
             !.todo = Tail(r.todo),
             !.done = Append(r.done, [linen |-> InHand(s), row |-> NewLinen])]
    BY <1>1, InsertTypes
  <2> QED BY <2>1, <2>2 DEF Request
<1>3. ToSet(Tail(r.todo)) \subseteq ToSet(r.todo)
  <2>1. r.todo \in Seq(Linens) /\ r.todo # <<>>
    BY <1>2, DoneType, Shape
  <2>2. \A i \in DOMAIN Tail(r.todo) : i + 1 \in DOMAIN r.todo /\ Tail(r.todo)[i] = r.todo[i + 1]
    BY <2>1
  <2> QED BY <2>2 DEF ToSet
<1> QED BY <1>1, <1>2, <1>3 DEF Apart, InsertsApart

LEMMA CreateInsertsApart ==
  ASSUME TypeOK, NEW s \in Slots, NEW codes \in Seq(Linens),
         NEW kind \in {"create", "bulkCreate"}, CreateLinens(s, codes, kind)
  PROVE  InsertsApart(s)
<1>1. /\ request'[s].todo = codes
      /\ \A i \in DOMAIN codes : \A t \in Slots : codes[i] \notin ToSet(request[t].todo)
  BY CreateTypes
<1> QED BY <1>1 DEF InsertsApart, ToSet

-----------------------------------------------------------------------------
(* The count of washes. *)
LEMMA UnrecordedTouch ==
  ASSUME NEW l, NEW s \in Unrecorded(l)
  PROVE  s \in Slots /\ l \in Touched(s) /\ request[s].pc = "event" /\ InHand(s) = l
  BY InTouched DEF Unrecorded, AtHand

LEMMA UnrecordedOwn ==
  ASSUME Apart, NEW s \in Slots, NEW l \in Touched(s) \ disturbed
  PROVE  Unrecorded(l) \subseteq {s}
  BY UnrecordedTouch DEF Apart

LEMMA UnrecordedOthers ==
  ASSUME TypeOK, NEW s \in Slots, Working(s), NEW l
  PROVE  Unrecorded(l)' \ {s} = Unrecorded(l) \ {s}
<1>1. \A t \in Slots \ {s} : request'[t] = request[t]
  BY DEF TypeOK, Working
<1> QED BY <1>1 DEF Unrecorded, InHand

LEMMA QuietWashes ==
  ASSUME TypeOK, NEW s \in Slots, Working(s), docs' = docs, washed' = washed,
         request[s].pc # "event", request'[s].pc # "event", Washed, WashesCounted
  PROVE  Washed' /\ WashesCounted'
<1>1. \A l : Unrecorded(l)' = Unrecorded(l)
  <2> TAKE l
  <2>1. Unrecorded(l)' \ {s} = Unrecorded(l) \ {s}
    BY UnrecordedOthers
  <2>2. s \notin Unrecorded(l) /\ s \notin Unrecorded(l)'
    BY DEF Unrecorded
  <2> QED BY <2>1, <2>2
<1>2. disturbed \subseteq disturbed'
  BY DEF Working
<1>3. Washed'
  BY DEF Washed
<1>4. WashesCounted'
  BY <1>1, <1>2 DEF WashesCounted, Exists
<1> QED BY <1>3, <1>4

LEMMA NoneUnrecorded == Cardinality({}) = 0 /\ \A s : Cardinality({s}) = 1
  BY FS_EmptySet, FS_Singleton

LEMMA InsertWashes ==
  ASSUME TypeOK, NEW s \in Slots, \A t \in Slots : Shaped(request[t]) /\ Born(t),
         Washed, WashesCounted, InsertLinen(s)
  PROVE  Washed' /\ WashesCounted'
<1>1. PICK h : h = InHand(s)
  OBVIOUS
<1>2. /\ Working(s) /\ request[s].pc = "insert" /\ h \in Linens
      /\ docs' = [docs EXCEPT ![h] = NewLinen] /\ washed' = washed /\ disturbed' = disturbed
  BY <1>1, InsertTypes
<1>3. request'[s].pc # "event"
  <2>1. PICK r : r = request[s]
    OBVIOUS
  <2>2. request'[s] = [r EXCEPT !.pc = IF Len(r.todo) = 1 THEN "clock" ELSE "insert",
             !.todo = Tail(r.todo),
             !.done = Append(r.done, [linen |-> InHand(s), row |-> NewLinen])]
    BY <2>1, InsertTypes
  <2>3. r \in Request
    BY <2>1, RequestType
  <2> QED BY <2>2, <2>3 DEF Request
<1>4. \A l : Unrecorded(l)' = Unrecorded(l)
  <2> TAKE l
  <2>1. Unrecorded(l)' \ {s} = Unrecorded(l) \ {s}
    BY <1>2, UnrecordedOthers
  <2>2. s \notin Unrecorded(l) /\ s \notin Unrecorded(l)'
    BY <1>2, <1>3 DEF Unrecorded
  <2> QED BY <2>1, <2>2
<1>5. docs[h] = Unborn
  <2>1. request[s].todo # <<>> /\ request[s].todo \in Seq(Linens)
    BY <1>2, RequestType, Shape, DoneType
  <2>2. 1 \in DOMAIN request[s].todo /\ h = request[s].todo[1]
    BY <1>1, <2>1 DEF InHand
  <2> QED BY <1>2, <2>2 DEF Born
<1>6. docs'[h] = NewLinen /\ \A l \in Linens \ {h} : docs'[l] = docs[l]
  BY <1>2 DEF TypeOK
<1>7. washed[h] = 0
  BY <1>2, <1>5 DEF Washed
<1>8. Unrecorded(h) = {}
  <2> SUFFICES ASSUME NEW t \in Unrecorded(h) PROVE FALSE
    OBVIOUS
  <2>1. t \in Slots /\ request[t].pc = "event" /\ InHand(t) = h
    BY UnrecordedTouch
  <2> QED BY <1>5, <2>1 DEF Born, AtHand
<1>9. NewLinen.washes = 0 /\ NewLinen # Unborn /\ NewLinen.status # "UNBORN"
  BY Rows DEF NewLinen
<1>10. Washed'
  BY <1>2, <1>6, <1>9 DEF Washed
<1>11. WashesCounted'
  <2> SUFFICES ASSUME NEW l \in Linens \ disturbed, Exists(l)'
               PROVE  docs'[l].washes = washed[l] + Cardinality(Unrecorded(l))
    BY <1>2, <1>4 DEF WashesCounted
  <2>1. CASE l = h
    BY <1>6, <1>7, <1>8, <1>9, <2>1, NoneUnrecorded
  <2>2. CASE l # h
    BY <1>6, <2>2 DEF WashesCounted, Exists
  <2> QED BY <2>1, <2>2
<1> QED BY <1>10, <1>11

LEMMA WriteWashes ==
  ASSUME TypeOK, NEW s \in Slots, \A t \in Slots : Shaped(request[t]),
         Born(s), Holds(s), Apart, Washed, WashesCounted, WriteLinen(s)
  PROVE  Washed' /\ WashesCounted'
<1>1. PICK r : r = request[s]
  OBVIOUS
<1>2. PICK q : q = request'[s]
  OBVIOUS
<1>3. PICK h : h = Head(r.todo)
  OBVIOUS
<1>4. InHand(s) = h
  BY <1>1, <1>3 DEF InHand
<1>5. /\ Working(s) /\ r.pc = "write" /\ h \in Linens /\ disturbed' = disturbed
      /\ r \in Request /\ washed' = washed
  BY <1>1, <1>4, WriteTypes, RequestType
<1>6. docs \in [Linens -> Row] /\ washed[h] \in Nat /\ docs[h] \in Row
  BY <1>5 DEF TypeOK
<1>7. docs[h] # Unborn
  BY <1>1, <1>4, <1>5 DEF Born, AtHand
<1>8. h \notin disturbed => Exists(h) /\ docs[h] = r.read
  BY <1>1, <1>4, <1>5 DEF Holds, AtHand
<1>9. \A l : Unrecorded(l)' \ {s} = Unrecorded(l) \ {s} /\ s \notin Unrecorded(l)
  BY <1>1, <1>5, UnrecordedOthers DEF Unrecorded
<1>10. h \notin disturbed => Unrecorded(h) = {}
  <2>1. h \in Touched(s)
    BY <1>1, <1>4, <1>5, InTouched DEF AtHand
  <2> QED BY <1>9, <2>1, UnrecordedOwn
<1>11. ASSUME \A l \in Linens \ {h} : docs'[l] = docs[l],
              docs'[h].status # "UNBORN",
              \A l \in Linens \ {h} : s \notin Unrecorded(l)',
              h \notin disturbed /\ Exists(h)' =>
                docs'[h].washes = washed[h] + (IF s \in Unrecorded(h)' THEN 1 ELSE 0)
       PROVE  Washed' /\ WashesCounted'
  <2>1. Washed'
    BY <1>5, <1>11 DEF Washed, Unborn
  <2>2. ASSUME NEW l \in Linens \ disturbed, Exists(l)'
        PROVE  docs'[l].washes = washed[l] + Cardinality(Unrecorded(l)')
    <3>1. CASE l # h
      <4>3. Unrecorded(l)' \ {s} = Unrecorded(l) \ {s} /\ s \notin Unrecorded(l)
        BY <1>9
      <4>4. s \notin Unrecorded(l)'
        BY <1>11, <2>2, <3>1
      <4>1. Unrecorded(l)' = Unrecorded(l)
        BY <4>3, <4>4
      <4>2. Exists(l)
        BY <1>11, <2>2, <3>1 DEF Exists
      <4> QED BY <1>11, <3>1, <4>1, <4>2 DEF WashesCounted
    <3>2. CASE l = h
      <4>1. Unrecorded(h)' = IF s \in Unrecorded(h)' THEN {s} ELSE {}
        BY <1>9, <1>10, <3>2
      <4> QED BY <1>6, <1>11, <2>2, <3>2, <4>1, NoneUnrecorded
    <3> QED BY <3>1, <3>2
  <2> QED BY <1>5, <2>1, <2>2 DEF WashesCounted
<1>12. \A l \in Linens \ {h} : docs'[l] = docs[l]
  <2>1. \/ docs' = docs \/ \E row : docs' = [docs EXCEPT ![h] = row]
    BY <1>1, <1>4, WriteTypes
  <2> QED BY <1>6, <2>1
<1>13. CASE /\ r.kind \in {"scan", "bulkScan"} /\ r.action \in Actions
            /\ q = [r EXCEPT !.pc = "event"]
            /\ docs' = IF ~Exists(h) THEN docs
                       ELSE [docs EXCEPT ![h] = Scanned(docs[h], r.read, r.action)]
  <2>1. q.pc = "event" /\ q.action = r.action /\ q.todo = r.todo
    BY <1>5, <1>13 DEF Request
  <2>2. \A l : s \in Unrecorded(l)' <=> l = h /\ r.action = "complete_wash"
    BY <1>2, <1>3, <2>1 DEF Unrecorded, InHand
  <2>3. CASE ~Exists(h)
    <3>1. docs' = docs
      BY <1>13, <2>3
    <3>2. docs'[h].status # "UNBORN"
      BY <1>5, <1>7, <3>1 DEF Washed
    <3> QED BY <1>8, <1>11, <1>12, <2>2, <2>3, <3>2
  <2>4. CASE Exists(h)
    <3>1. PICK row : row = Scanned(docs[h], r.read, r.action)
      OBVIOUS
    <3>2. row.status \in LINEN_STATUSES
          /\ row.washes = IF r.action = "complete_wash" THEN r.read.washes + 1 ELSE docs[h].washes
      <4>1. r.read \in Row
        BY <1>5 DEF Request
      <4>2. row.status \in LINEN_STATUSES
        BY <1>6, <1>13, <3>1, <4>1, ScannedRow
      <4> QED BY <3>1, <4>2 DEF Scanned
    <3>3. docs' = [docs EXCEPT ![h] = row]
      BY <1>13, <2>4, <3>1
    <3>4. docs'[h] = row
      BY <1>5, <1>6, <3>3
    <3>5. docs'[h].status # "UNBORN"
      BY <3>2, <3>4, StatusBorn
    <3>6. h \notin disturbed => docs'[h].washes = washed[h] + (IF s \in Unrecorded(h)' THEN 1 ELSE 0)
      <4> SUFFICES ASSUME h \notin disturbed
                   PROVE docs'[h].washes = washed[h] + (IF s \in Unrecorded(h)' THEN 1 ELSE 0)
        OBVIOUS
      <4>1. docs[h].washes = washed[h] + Cardinality(Unrecorded(h))
        BY <1>5, <2>4 DEF WashesCounted
      <4>2. docs[h].washes = washed[h]
        BY <1>6, <1>10, <4>1, NoneUnrecorded
      <4>3. r.read.washes = washed[h]
        BY <1>8, <4>2
      <4> QED BY <1>6, <2>2, <3>2, <3>4, <4>2, <4>3
    <3> QED BY <1>11, <1>12, <2>2, <3>5, <3>6
  <2> QED BY <2>3, <2>4
<1>14. CASE ~Exists(h) /\ docs' = docs /\ q = IdleRequest
  <2>1. \A l : s \notin Unrecorded(l)'
    BY <1>2, <1>14, Idle DEF Unrecorded
  <2>2. docs'[h].status # "UNBORN"
    BY <1>5, <1>7, <1>14 DEF Washed
  <2> QED BY <1>8, <1>11, <1>12, <1>14, <2>1, <2>2
<1>15. CASE /\ r.action \in Edits /\ Exists(h)
            /\ docs' = [docs EXCEPT ![h] = [docs[h] EXCEPT !.status = r.action]]
            /\ q = [r EXCEPT !.pc = "reread"]
  <2>1. q.pc = "reread"
    BY <1>5, <1>15 DEF Request
  <2>2. \A l : s \notin Unrecorded(l)'
    BY <1>2, <2>1 DEF Unrecorded
  <2>3. PICK row : row = [docs[h] EXCEPT !.status = r.action]
    OBVIOUS
  <2>4. row.status \in LINEN_STATUSES /\ row.washes = docs[h].washes
    BY <1>6, <1>15, <2>3, EditedRow
  <2>5. docs'[h] = row
    BY <1>5, <1>6, <1>15, <2>3
  <2>6. h \notin disturbed => docs[h].washes = washed[h]
    <3>1. h \notin disturbed => docs[h].washes = washed[h] + Cardinality(Unrecorded(h))
      BY <1>5, <1>15 DEF WashesCounted
    <3> QED BY <1>6, <1>10, <3>1, NoneUnrecorded
  <2> QED BY <1>6, <1>11, <1>12, <2>2, <2>4, <2>5, <2>6, StatusBorn
<1>16. CASE /\ Exists(h) /\ docs' = [docs EXCEPT ![h] = Gone]
            /\ q = [r EXCEPT !.pc = "clock", !.done = <<[linen |-> h, row |-> Gone]>>]
  <2>1. q.pc = "clock"
    BY <1>5, <1>16 DEF Request
  <2>2. \A l : s \notin Unrecorded(l)'
    BY <1>2, <2>1 DEF Unrecorded
  <2>3. docs'[h] = Gone
    BY <1>5, <1>6, <1>16
  <2> QED BY <1>11, <1>12, <2>2, <2>3 DEF Exists, Gone
<1> QED BY <1>1, <1>2, <1>4, <1>13, <1>14, <1>15, <1>16, WriteTypes

LEMMA RecordWashes ==
  ASSUME TypeOK, NEW s \in Slots, \A t \in Slots : Shaped(request[t]),
         Born(s), Apart, Washed, WashesCounted, RecordScan(s)
  PROVE  Washed' /\ WashesCounted'
<1>1. PICK r : r = request[s]
  OBVIOUS
<1>3. PICK h : h = Head(r.todo)
  OBVIOUS
<1>4. InHand(s) = h
  BY <1>1, <1>3 DEF InHand
<1>5. /\ Working(s) /\ r.pc = "event" /\ h \in Linens /\ disturbed' = disturbed
      /\ r \in Request /\ docs' = docs
      /\ washed' = [washed EXCEPT ![h] = IF r.action = "complete_wash" THEN washed[h] + 1
                                         ELSE washed[h]]
  BY <1>1, <1>4, RecordTypes, RequestType
<1>6. washed \in [Linens -> Nat] /\ washed[h] \in Nat
  BY <1>5 DEF TypeOK
<1>7. docs[h] # Unborn
  BY <1>1, <1>4, <1>5 DEF Born, AtHand
<1>8. request'[s].pc \in {"reread", "next"}
  <2>1. PICK done : done = Append(r.done, [linen |-> h, row |-> Scanned(r.read, r.read, r.action)])
    OBVIOUS
  <2>2. \/ request'[s] = [r EXCEPT !.pc = "reread"]
        \/ request'[s] = [r EXCEPT !.pc = "next", !.todo = Tail(r.todo), !.done = done]
    BY <1>1, <1>4, <2>1, RecordTypes
  <2> QED BY <1>5, <2>2 DEF Request
<1>9. \A l : Unrecorded(l)' = Unrecorded(l) \ {s}
  <2> TAKE l
  <2>1. Unrecorded(l)' \ {s} = Unrecorded(l) \ {s}
    BY <1>5, UnrecordedOthers
  <2>2. s \notin Unrecorded(l)'
    BY <1>8 DEF Unrecorded
  <2> QED BY <2>1, <2>2
<1>10. washed'[h] = (IF r.action = "complete_wash" THEN washed[h] + 1 ELSE washed[h])
       /\ \A l \in Linens \ {h} : washed'[l] = washed[l]
  BY <1>5, <1>6
<1>11. Washed'
  BY <1>5, <1>7, <1>10 DEF Washed
<1>12. ASSUME NEW l \in Linens \ disturbed, Exists(l)
       PROVE docs[l].washes = washed'[l] + Cardinality(Unrecorded(l)')
  <2>0. docs[l].washes = washed[l] + Cardinality(Unrecorded(l))
    BY <1>12 DEF WashesCounted
  <2>1. CASE l # h
    <3>1. s \notin Unrecorded(l)
      BY <1>4, <2>1 DEF Unrecorded
    <3>2. Unrecorded(l)' = Unrecorded(l)
      BY <1>9, <3>1
    <3> QED BY <1>10, <2>0, <2>1, <3>2
  <2>2. CASE l = h
    <3>1. h \in Touched(s)
      BY <1>1, <1>4, <1>5, InTouched DEF AtHand
    <3>2. Unrecorded(h) \subseteq {s}
      BY <1>12, <2>2, <3>1, UnrecordedOwn
    <3>3. Unrecorded(h)' = {}
      BY <1>9, <3>2
    <3>4. Unrecorded(h) = IF r.action = "complete_wash" THEN {s} ELSE {}
      <4>1. s \in Unrecorded(h) <=> r.action = "complete_wash"
        BY <1>1, <1>4, <1>5 DEF Unrecorded
      <4> QED BY <3>2, <4>1
    <3>5. CASE r.action = "complete_wash"
      <4>1. Cardinality(Unrecorded(h)) = 1
        BY <3>4, <3>5, NoneUnrecorded
      <4> QED BY <1>6, <1>10, <2>0, <2>2, <3>3, <3>5, <4>1, NoneUnrecorded
    <3>6. CASE r.action # "complete_wash"
      <4>1. Cardinality(Unrecorded(h)) = 0
        BY <3>4, <3>6, NoneUnrecorded
      <4> QED BY <1>6, <1>10, <2>0, <2>2, <3>3, <3>6, <4>1, NoneUnrecorded
    <3> QED BY <3>5, <3>6
  <2> QED BY <2>1, <2>2
<1>13. WashesCounted'
  BY <1>5, <1>12 DEF WashesCounted, Exists
<1> QED BY <1>11, <1>13

-----------------------------------------------------------------------------
(* Clocks: a request bumps the clock at most once. *)
LEMMA UnclockedCount ==
  ASSUME TypeOK, NEW s \in Slots, request' = [request EXCEPT ![s] = request'[s]]
  PROVE  \E n \in Nat :
           /\ Cardinality(Unclocked) = n + (IF s \in Unclocked THEN 1 ELSE 0)
           /\ Cardinality(Unclocked') = n + (IF s \in Unclocked' THEN 1 ELSE 0)
<1>1. Unclocked' \ {s} = Unclocked \ {s}
  BY DEF Unclocked, TypeOK
<1>2. IsFiniteSet(Slots) /\ Unclocked \subseteq Slots /\ Unclocked' \subseteq Slots
  BY LinensAssumption DEF Unclocked
<1>3. IsFiniteSet(Unclocked) /\ IsFiniteSet(Unclocked')
  BY <1>2, FS_Subset
<1>4. ASSUME NEW S, IsFiniteSet(S)
      PROVE  /\ Cardinality(S \ {s}) \in Nat
             /\ Cardinality(S) = Cardinality(S \ {s}) + (IF s \in S THEN 1 ELSE 0)
  <2>1. IsFiniteSet(S \ {s}) /\ Cardinality(S) \in Nat
        /\ Cardinality(S \ {s}) = IF s \in S THEN Cardinality(S) - 1 ELSE Cardinality(S)
    BY <1>4, FS_RemoveElement, FS_CardinalityType
  <2>2. Cardinality(S \ {s}) \in Nat
    BY <2>1, FS_CardinalityType
  <2> QED BY <2>1, <2>2
<1>5. PICK n : n = Cardinality(Unclocked \ {s})
  OBVIOUS
<1>6. n \in Nat /\ Cardinality(Unclocked) = n + (IF s \in Unclocked THEN 1 ELSE 0)
  BY <1>3, <1>4, <1>5
<1>7. Cardinality(Unclocked') = n + (IF s \in Unclocked' THEN 1 ELSE 0)
  BY <1>1, <1>3, <1>4, <1>5
<1> QED BY <1>6, <1>7

Begins(s) ==
  /\ request[s].pc = "idle" /\ started' = started + 1 /\ started < MaxRequests
  /\ clock' = clock /\ request'[s].clock = 0

Bumps(s) ==
  /\ request[s].pc = "clock" /\ request'[s].pc = "publish" /\ started' = started
  /\ clock' = clock + 1 /\ request'[s].clock = clock + 1

Goes(s) ==
  /\ request[s].pc \notin {"idle", "publish"}
  /\ clock' = clock /\ started' = started
  /\ request'[s].clock \in {0, request[s].clock}

Ticks(s) == Begins(s) \/ Bumps(s) \/ Goes(s)

LEMMA TicksClocked ==
  ASSUME TypeOK, Clocked, NEW s \in Slots, Working(s), Ticks(s)
  PROVE  TypeOK' /\ Clocked'
<1>1. request' = [request EXCEPT ![s] = request'[s]] /\ UNCHANGED <<conns, screens, missed>>
      /\ request'[s] \in Request
  BY DEF Working
<1>2. \A t \in Slots \ {s} : request'[t] = request[t]
  BY <1>1 DEF TypeOK
<1>3. PICK n \in Nat : /\ Cardinality(Unclocked) = n + (IF s \in Unclocked THEN 1 ELSE 0)
                       /\ Cardinality(Unclocked') = n + (IF s \in Unclocked' THEN 1 ELSE 0)
  BY <1>1, UnclockedCount
<1>4. clock \in Nat /\ started \in Nat /\ MaxRequests \in Nat /\ started <= MaxRequests
      /\ request[s].clock \in Nat
  BY RequestType, LinensAssumption DEF TypeOK, Request
<1>5. clock + n + (IF s \in Unclocked THEN 1 ELSE 0) <= started
  BY <1>3, <1>4 DEF Clocked
<1>6. /\ clock' \in Nat /\ started' \in Nat /\ clock <= clock' /\ started' <= MaxRequests
      /\ clock' + n + (IF s \in Unclocked' THEN 1 ELSE 0) <= started'
      /\ request'[s].clock <= clock'
  <2>1. CASE Begins(s)
    BY <1>4, <1>5, <2>1 DEF Begins, Unclocked
  <2>2. CASE Bumps(s)
    <3>1. s \in Unclocked /\ s \notin Unclocked'
      BY <2>2 DEF Bumps, Unclocked
    <3> QED BY <1>4, <1>5, <2>2, <3>1 DEF Bumps
  <2>3. CASE Goes(s)
    <3>1. s \in Unclocked /\ request[s].clock <= clock
      BY <2>3 DEF Goes, Unclocked, Clocked
    <3> QED BY <1>4, <1>5, <2>3, <3>1 DEF Goes
  <2> QED BY <2>1, <2>2, <2>3 DEF Ticks
<1>7. clock' \in 0..MaxRequests /\ started' \in 0..MaxRequests
  <2>1. PICK b \in {0, 1} : b = IF s \in Unclocked' THEN 1 ELSE 0
    OBVIOUS
  <2>2. clock' + n + b <= started' /\ clock' \in Nat /\ started' \in Nat /\ started' <= MaxRequests
    BY <1>6, <2>1
  <2>3. PICK c \in Nat, d \in Nat : c = clock' /\ d = started'
    BY <2>2
  <2>4. c + n + b <= d /\ d <= MaxRequests
    BY <2>2, <2>3
  <2>5. c <= d
    BY <1>3, <2>1, <2>4
  <2> QED BY <1>4, <2>3, <2>4, <2>5
<1>8. TypeOK'
  BY <1>1, <1>7 DEF TypeOK, Working
<1>9. clock' + Cardinality(Unclocked') <= started'
  BY <1>3, <1>6
<1>10. \A t \in Slots : request'[t].clock <= clock'
  <2> TAKE t \in Slots
  <2>1. CASE t = s
    BY <1>6, <2>1
  <2>2. CASE t # s
    <3>1. request[t] \in Request /\ request[t].clock <= clock
      BY RequestType DEF Clocked
    <3> QED BY <1>2, <1>4, <1>6, <2>2, <3>1 DEF Request
  <2> QED BY <2>1, <2>2
<1>11. ASSUME NEW v \in Screens
       PROVE /\ conns'[v].asked <= clock'
             /\ \A i \in DOMAIN conns'[v].queue : conns'[v].queue[i].clock <= clock'
  <2>1. conns'[v] = conns[v] /\ conns[v] \in Connection
    BY <1>1 DEF TypeOK
  <2>2. conns[v].asked <= clock /\ conns[v].asked \in Nat /\ conns[v].queue \in Seq(Frame)
        /\ \A i \in DOMAIN conns[v].queue : conns[v].queue[i].clock <= clock
    BY <2>1 DEF Clocked, Connection
  <2>3. ASSUME NEW i \in DOMAIN conns[v].queue PROVE conns[v].queue[i].clock <= clock'
    <3>1. conns[v].queue[i] \in Frame
      BY <2>2, Element, Zenon
    <3> QED BY <1>4, <1>6, <2>2, <3>1 DEF Frame
  <2> QED BY <1>4, <1>6, <2>1, <2>2, <2>3
<1> QED BY <1>8, <1>9, <1>10, <1>11 DEF Clocked

LEMMA InsertTicks == ASSUME TypeOK, NEW s \in Slots, Shaped(request[s]), InsertLinen(s) PROVE Ticks(s)
<1>1. PICK r : r = request[s]
  OBVIOUS
<1>2. r \in Request /\ r.pc = "insert" /\ UNCHANGED <<clock, started>>
  BY <1>1, RequestType, InsertTypes
<1>3. request'[s].clock = r.clock
  BY <1>1, <1>2, InsertTypes DEF Request
<1> QED BY <1>1, <1>2, <1>3 DEF Ticks, Goes

LEMMA NextTicks == ASSUME TypeOK, NEW s \in Slots, Shaped(request[s]), NextCode(s) PROVE Ticks(s)
<1>1. PICK r : r = request[s]
  OBVIOUS
<1>2. r \in Request /\ r.pc = "next" /\ UNCHANGED <<clock, started>>
  BY <1>1, RequestType, NextTypes
<1>3. \/ request'[s] = IdleRequest
      \/ request'[s] = [r EXCEPT !.pc = "clock"]
      \/ request'[s] = [r EXCEPT !.pc = "write", !.read = docs[InHand(s)]]
      \/ request'[s] = [r EXCEPT !.todo = Tail(r.todo)]
  BY <1>1, NextTypes
<1>4. request'[s].clock \in {0, r.clock}
  BY <1>2, <1>3, Idle DEF Request
<1> QED BY <1>1, <1>2, <1>4 DEF Ticks, Goes

LEMMA WriteTicks == ASSUME TypeOK, NEW s \in Slots, Shaped(request[s]), WriteLinen(s) PROVE Ticks(s)
<1>1. PICK r : r = request[s]
  OBVIOUS
<1>2. r \in Request /\ r.pc = "write" /\ UNCHANGED <<clock, started>>
  BY <1>1, RequestType, WriteTypes
<1>3. \/ request'[s] = IdleRequest
      \/ request'[s] = [r EXCEPT !.pc = "event"]
      \/ request'[s] = [r EXCEPT !.pc = "reread"]
      \/ request'[s] = [r EXCEPT !.pc = "clock",
                                 !.done = <<[linen |-> InHand(s), row |-> Gone]>>]
  BY <1>1, WriteTypes
<1>4. request'[s].clock \in {0, r.clock}
  BY <1>2, <1>3, Idle DEF Request
<1> QED BY <1>1, <1>2, <1>4 DEF Ticks, Goes

LEMMA RecordTicks == ASSUME TypeOK, NEW s \in Slots, Shaped(request[s]), RecordScan(s) PROVE Ticks(s)
<1>1. PICK r : r = request[s]
  OBVIOUS
<1>2. r \in Request /\ r.pc = "event" /\ UNCHANGED <<clock, started>>
  BY <1>1, RequestType, RecordTypes
<1>3. PICK done : done = Append(r.done, [linen |-> InHand(s), row |-> Scanned(r.read, r.read, r.action)])
  OBVIOUS
<1>4. \/ request'[s] = [r EXCEPT !.pc = "reread"]
      \/ request'[s] = [r EXCEPT !.pc = "next", !.todo = Tail(r.todo), !.done = done]
  BY <1>1, <1>3, RecordTypes
<1>5. request'[s].clock = r.clock
  BY <1>2, <1>4 DEF Request
<1> QED BY <1>1, <1>2, <1>5 DEF Ticks, Goes

LEMMA RereadTicks == ASSUME TypeOK, NEW s \in Slots, Shaped(request[s]), RereadLinen(s) PROVE Ticks(s)
<1>1. PICK r : r = request[s]
  OBVIOUS
<1>2. r \in Request /\ r.pc = "reread" /\ UNCHANGED <<clock, started>>
  BY <1>1, RequestType, RereadTypes
<1>3. PICK done : done = IF Exists(InHand(s)) THEN <<[linen |-> InHand(s), row |-> docs[InHand(s)]]>>
                         ELSE <<>>
  OBVIOUS
<1>4. request'[s] = [r EXCEPT !.pc = "clock", !.done = done]
  BY <1>1, <1>3, RereadTypes
<1>5. request'[s].clock = r.clock
  BY <1>2, <1>4 DEF Request
<1> QED BY <1>1, <1>2, <1>5 DEF Ticks, Goes

LEMMA BumpTicks == ASSUME TypeOK, NEW s \in Slots, Shaped(request[s]), BumpLiveClock(s) PROVE Ticks(s)
<1>1. PICK r : r = request[s]
  OBVIOUS
<1>2. r \in Request /\ r.pc = "clock" /\ started' = started /\ clock' = clock + 1
      /\ request'[s] = [r EXCEPT !.pc = "publish", !.clock = clock + 1]
  BY <1>1, RequestType, BumpTypes
<1>3. request'[s].pc = "publish" /\ request'[s].clock = clock + 1
  BY <1>2 DEF Request
<1> QED BY <1>1, <1>2, <1>3 DEF Ticks, Bumps

-----------------------------------------------------------------------------
(* What a screen makes of a frame. *)
LEMMA ShownFacts ==
  ASSUME TypeOK, NEW sc \in Screen, NEW m \in Frame
  PROVE  /\ Shown(sc, m) \in Screen
         /\ Shown(sc, m).seen \in {sc.seen, m.clock}
         /\ m.type = "event" => \A l \in Linens :
              Shown(sc, m).shows[l] = IF m.linen = l THEN m.row ELSE sc.shows[l]
         /\ m.type = "clock" /\ m.clock > sc.seen => Shown(sc, m).shows = docs
         /\ m.type # "event" /\ ~(m.type = "clock" /\ m.clock > sc.seen) => Shown(sc, m) = sc
<1>1. docs \in [Linens -> Row] /\ sc.shows \in [Linens -> Row] /\ sc.seen \in Nat
      /\ m.clock \in Nat /\ m.row \in Row /\ m.linen \in Linens \cup {None} /\ None \notin Linens
      /\ m.type \in {"event", "clock", "reply", "end"}
  BY LinensAssumption DEF TypeOK, Screen, Frame
<1>2. CASE m.type = "event"
  <2>1. PICK shows : shows = IF m.linen = None THEN sc.shows
                             ELSE [sc.shows EXCEPT ![m.linen] = m.row]
    OBVIOUS
  <2>2. Shown(sc, m) = [shows |-> shows, seen |-> m.clock]
    BY <1>2, <2>1, Zenon DEF Shown
  <2>3. shows \in [Linens -> Row]
        /\ \A l \in Linens : shows[l] = IF m.linen = l THEN m.row ELSE sc.shows[l]
    BY <1>1, <2>1
  <2> QED BY <1>1, <1>2, <2>2, <2>3 DEF Screen
<1>3. CASE m.type = "clock" /\ m.clock > sc.seen
  <2>1. Shown(sc, m) = [shows |-> docs, seen |-> m.clock]
    BY <1>3 DEF Shown
  <2> QED BY <1>1, <1>3, <2>1 DEF Screen
<1>4. CASE m.type # "event" /\ ~(m.type = "clock" /\ m.clock > sc.seen)
  <2>1. Shown(sc, m) = sc
    BY <1>4, Zenon DEF Shown
  <2> QED BY <1>4, <2>1
<1> QED BY <1>2, <1>3, <1>4

(* Of a linen that does not change, a frame shows the same before and after. *)
LEMMA ShownSame ==
  ASSUME TypeOK, docs' \in [Linens -> Row], NEW sc \in Screen, NEW m \in Frame,
         NEW l \in Linens, docs'[l] = docs[l]
  PROVE  /\ Shown(sc, m).seen = Shown(sc, m)'.seen
         /\ Shown(sc, m)'.shows[l] = Shown(sc, m).shows[l]
<1>1. CASE m.type = "event"
  <2>1. Shown(sc, m)' = Shown(sc, m)
    BY <1>1, Zenon DEF Shown
  <2> QED BY <2>1
<1>2. CASE m.type = "clock" /\ m.clock > sc.seen
  <2>1. Shown(sc, m) = [shows |-> docs, seen |-> m.clock]
    BY <1>2 DEF Shown
  <2>2. Shown(sc, m)' = [shows |-> docs', seen |-> m.clock]
    BY <1>2 DEF Shown
  <2> QED BY <2>1, <2>2
<1>3. CASE m.type # "event" /\ ~(m.type = "clock" /\ m.clock > sc.seen)
  <2>1. Shown(sc, m)' = sc /\ Shown(sc, m) = sc
    BY <1>3, Zenon DEF Shown
  <2> QED BY <2>1
<1> QED BY <1>1, <1>2, <1>3

LEMMA ScreenTypes ==
  ASSUME TypeOK, NEW v \in Screens
  PROVE  /\ conns[v] \in Connection /\ screens[v] \in Screen
         /\ conns[v].queue \in Seq(Frame) /\ conns[v].asked \in Nat
         /\ conns[v].channels \subseteq Linens \cup {Laundry}
         /\ conns[v].state \in {"absent", "registered", "greeted", "asking", "closed"}
         /\ screens[v].shows \in [Linens -> Row] /\ screens[v].seen \in Nat
         /\ \A i \in DOMAIN conns[v].queue : conns[v].queue[i] \in Frame
<1>1. conns[v] \in Connection /\ screens[v] \in Screen
  BY DEF TypeOK
<1>2. conns[v].queue \in Seq(Frame)
  BY <1>1 DEF Connection
<1>3. \A i \in DOMAIN conns[v].queue : conns[v].queue[i] \in Frame
  BY <1>2, Element, Zenon
<1> QED BY <1>1, <1>2, <1>3 DEF Connection, Screen

LEMMA FrameFacts ==
  ASSUME NEW m \in Frame
  PROVE  /\ m.clock \in Nat /\ m.row \in Row /\ m.linen \in Linens \cup {None}
         /\ m.about \subseteq Linens /\ m.type \in {"event", "clock", "reply", "end"}
  BY DEF Frame

(* The first of a queue. *)
LEMMA HeadOf ==
  ASSUME NEW q \in Seq(Frame), q # <<>>
  PROVE  /\ 1 \in DOMAIN q /\ Head(q) = q[1] /\ Head(q) \in Frame /\ Len(q) \in Nat \ {0}
         /\ Tail(q) \in Seq(Frame) /\ Len(Tail(q)) = Len(q) - 1
         /\ \A i \in DOMAIN Tail(q) : Tail(q)[i] = q[i + 1] /\ i + 1 \in DOMAIN q
         /\ \A i \in DOMAIN q : i # 1 => i - 1 \in DOMAIN Tail(q) /\ Tail(q)[i - 1] = q[i]
<1>1. Len(q) \in Nat \ {0} /\ 1 \in DOMAIN q /\ Head(q) = q[1] /\ DOMAIN q = 1..Len(q)
  OBVIOUS
<1>2. Head(q) \in Frame
  BY <1>1
<1>3. Tail(q) \in Seq(Frame) /\ Len(Tail(q)) = Len(q) - 1
  OBVIOUS
<1>4. DOMAIN Tail(q) = 1..(Len(q) - 1)
  BY <1>1, <1>3
<1>5. \A i \in 1..(Len(q) - 1) : Tail(q)[i] = q[i + 1]
  BY <1>1
<1> QED BY <1>1, <1>2, <1>3, <1>4, <1>5

LEMMA AheadType ==
  ASSUME TypeOK, NEW v \in Screens
  PROVE  Ahead(v) \in Screen /\ Ahead(v).seen \in Nat /\ clock \in Nat
<1>1. clock \in Nat
  BY LinensAssumption DEF TypeOK
<1>2. CASE conns[v].queue = <<>>
  <2>1. Ahead(v) = screens[v]
    BY <1>2 DEF Ahead
  <2> QED BY <1>1, <2>1, ScreenTypes
<1>3. CASE conns[v].queue # <<>>
  <2>1. PICK m \in Frame : m = Head(conns[v].queue)
    BY <1>3, HeadOf, ScreenTypes
  <2>2. PICK sc \in Screen : sc = screens[v]
    BY ScreenTypes
  <2>3. Ahead(v) = Shown(sc, m)
    BY <1>3, <2>1, <2>2 DEF Ahead
  <2>4. Ahead(v) \in Screen
    BY <2>3, ShownFacts
  <2> QED BY <1>1, <2>4 DEF Screen
<1> QED BY <1>2, <1>3

-----------------------------------------------------------------------------
(* The steps of a request, but for publication, and the screens. *)
Reborn(s) ==
  request[s].kind = "bulkCreate" => \A k \in Linens : docs'[k] # docs[k] => docs[k] = Unborn

LEMMA WorkScreened ==
  ASSUME TypeOK, NEW s \in Slots, Working(s), DocsStep(s), Remembers(s), Creates(s), Reborn(s),
         Apart, Screened, clock' \in Nat, clock' >= clock
  PROVE  Screened'
<1>1. /\ UNCHANGED <<conns, screens, missed>> /\ disturbed \subseteq disturbed'
      /\ docs' \in [Linens -> Row]
      /\ \A t \in Slots \ {s} : request'[t] = request[t]
  BY DEF Working, TypeOK
<1>2. \A t \in Slots \ {s} : Touched(t)' = Touched(t)
  BY <1>1 DEF Touched, InHand
<1>3. SUFFICES ASSUME NEW v \in Screens, NEW l \in Linens
      PROVE  /\ (docs[l] = Unborn => Fresh(v, l))'
             /\ l \notin disturbed'
                  /\ (\E t \in Slots : request'[t].kind = "bulkCreate" /\ l \in Touched(t)')
                  => Fresh(v, l)'
             /\ l \notin disturbed' /\ <<v, l>> \notin missed /\ (\A t \in Slots : l \notin Touched(t)')
                  => UpToDate(v, l)'
  BY <1>1 DEF Screened
<1>4. (docs[l] = Unborn => Fresh(v, l)) /\ (docs[l] = Unborn => docs'[l] = docs[l] \/ docs'[l] # Unborn)
  BY DEF Screened
<1>5. docs'[l] = docs[l] /\ Fresh(v, l) => Fresh(v, l)'
  BY <1>1 DEF Fresh, Current, NoRow
<1>6. docs[l] = Unborn => Fresh(v, l)'
  BY <1>1, <1>4 DEF Fresh, Current, NoRow
<1>7. docs'[l] = Unborn => docs[l] = Unborn
  BY DEF DocsStep
<1>8. ASSUME l \notin disturbed', NEW t \in Slots, request'[t].kind = "bulkCreate", l \in Touched(t)'
      PROVE  Fresh(v, l)'
  <2>1. CASE t # s
    <3>1. request[t].kind = "bulkCreate" /\ l \in Touched(t) /\ l \notin disturbed
      BY <1>1, <1>2, <1>8, <2>1
    <3>2. Fresh(v, l)
      BY <3>1 DEF Screened
    <3>3. l \notin Touched(s)
      BY <2>1, <3>1 DEF Apart
    <3>4. docs'[l] = docs[l]
      BY <3>3 DEF DocsStep
    <3> QED BY <1>5, <3>2, <3>4
  <2>2. CASE t = s
    <3>1. docs[l] = Unborn \/ (l \in Touched(s) /\ request[s].kind = "bulkCreate")
      BY <1>8, <2>2 DEF Creates
    <3>2. CASE docs[l] # Unborn
      <4>1. Fresh(v, l)
        BY <1>1, <1>8, <3>1, <3>2 DEF Screened
      <4>2. docs'[l] = docs[l]
        BY <3>1, <3>2 DEF Reborn
      <4> QED BY <1>5, <4>1, <4>2
    <3> QED BY <1>6, <3>2
  <2> QED BY <2>1, <2>2
<1>9. ASSUME l \notin disturbed', <<v, l>> \notin missed, \A t \in Slots : l \notin Touched(t)'
      PROVE  UpToDate(v, l)'
  <2>1. l \notin disturbed /\ \A t \in Slots : l \notin Touched(t)
    BY <1>1, <1>2, <1>9 DEF Remembers
  <2>2. UpToDate(v, l)
    BY <1>9, <2>1 DEF Screened
  <2>3. docs'[l] = docs[l]
    BY <2>1 DEF DocsStep
  <2>4. Followed(v, l) => Followed(v, l)'
    BY <1>1, <2>3 DEF Followed, LastRow, NoRow, Current, Awaiting
  <2>5. Ahead(v)'.seen = Ahead(v).seen /\ Ahead(v)'.shows[l] = Ahead(v).shows[l]
    <3>1. CASE conns[v].queue = <<>>
      BY <1>1, <3>1 DEF Ahead
    <3>2. CASE conns[v].queue # <<>>
      <4>1. PICK m \in Frame : m = Head(conns[v].queue)
        BY <3>2, HeadOf, ScreenTypes
      <4>2. PICK sc \in Screen : sc = screens[v]
        BY ScreenTypes
      <4>3. Ahead(v) = Shown(sc, m)
        BY <3>2, <4>1, <4>2 DEF Ahead
      <4>4. Ahead(v)' = Shown(sc, m)'
        BY <1>1, <3>2, <4>1, <4>2 DEF Ahead
      <4> QED BY <1>1, <2>3, <4>3, <4>4, ShownSame
    <3> QED BY <3>1, <3>2
  <2>6. Settled(v, l) => Settled(v, l)'
    <3>1. clock \in Nat /\ screens[v].seen \in Nat /\ Ahead(v).seen \in Nat
      BY AheadType, ScreenTypes
    <3>2. Current(Ahead(v).shows[l], l) => Current(Ahead(v).shows[l], l)'
      BY <2>3, <2>5 DEF Current
    <3>3. screens[v].seen < clock /\ Ahead(v).seen < clock
            => screens'[v].seen < clock' /\ Ahead(v)'.seen < clock'
      BY <1>1, <2>5, <3>1
    <3> QED BY <1>1, <3>2, <3>3 DEF Settled
  <2> QED BY <1>1, <2>2, <2>4, <2>6 DEF UpToDate
<1> QED BY <1>6, <1>7, <1>8, <1>9

-----------------------------------------------------------------------------
(* A connection that is offered events: the table of Offered. *)
IsOffers(f, c, ms, n) ==
  f = [k \in 0..n |-> IF k = 0 THEN c ELSE Offer(f[k - 1], ms[k])]

LEMMA OffersExist ==
  ASSUME NEW c, NEW ms, NEW n \in Nat
  PROVE  \E f : IsOffers(f, c, ms, n)
<1> DEFINE S == {k \in 0..n : \E f : IsOffers(f, c, ms, k)}
<1>1. 0 \in S
  <2>1. PICK f : f = [k \in 0..0 |-> c]
    OBVIOUS
  <2>2. f = [k \in 0..0 |-> IF k = 0 THEN c ELSE Offer(f[k - 1], ms[k])]
    BY <2>1
  <2>3. IsOffers(f, c, ms, 0)
    BY <2>2 DEF IsOffers
  <2> QED BY <2>3
<1>2. ASSUME NEW j \in 1..n, j - 1 \in S PROVE j \in S
  <2>1. PICK f : IsOffers(f, c, ms, j - 1)
    BY <1>2
  <2>2. PICK g : g = [k \in 0..j |-> IF k = j THEN Offer(f[j - 1], ms[j]) ELSE f[k]]
    OBVIOUS
  <2>3. \A k \in 0..(j - 1) : f[k] = IF k = 0 THEN c ELSE Offer(f[k - 1], ms[k])
    BY <2>1 DEF IsOffers
  <2>4. \A k \in 0..(j - 1) : g[k] = f[k]
    BY <2>2
  <2>5. ASSUME NEW k \in 0..j PROVE g[k] = IF k = 0 THEN c ELSE Offer(g[k - 1], ms[k])
    <3>1. CASE k = j
      <4>1. g[k] = Offer(f[k - 1], ms[k]) /\ k # 0
        BY <2>2, <3>1
      <4>2. k - 1 \in 0..(j - 1)
        BY <3>1
      <4>3. g[k - 1] = f[k - 1]
        BY <2>4, <4>2
      <4> QED BY <4>1, <4>3
    <3>2. CASE k # j /\ k # 0
      <4>1. k \in 0..(j - 1) /\ k - 1 \in 0..(j - 1)
        BY <3>2
      <4>2. g[k] = f[k] /\ g[k - 1] = f[k - 1]
        BY <2>4, <4>1
      <4>3. f[k] = Offer(f[k - 1], ms[k])
        BY <2>3, <3>2, <4>1
      <4> QED BY <3>2, <4>2, <4>3
    <3>3. CASE k # j /\ k = 0
      <4>1. k \in 0..(j - 1)
        BY <3>3
      <4> QED BY <2>3, <2>4, <3>3, <4>1
    <3> QED BY <3>1, <3>2, <3>3
  <2>6. g = [k \in 0..j |-> g[k]]
    BY <2>2
  <2>7. g = [k \in 0..j |-> IF k = 0 THEN c ELSE Offer(g[k - 1], ms[k])]
    BY <2>5, <2>6, Zenon
  <2>8. IsOffers(g, c, ms, j)
    BY <2>7 DEF IsOffers
  <2> QED BY <2>8
<1> HIDE DEF S
<1>3. n \in S
  BY <1>1, <1>2, CountingUp
<1> QED BY <1>3 DEF S

LEMMA OfferedTable ==
  ASSUME NEW c, NEW ms, Len(ms) \in Nat
  PROVE  \E f : /\ f[0] = c
                /\ \A k \in 1..Len(ms) : f[k] = Offer(f[k - 1], ms[k])
                /\ Offered(c, ms) = f[Len(ms)]
<1> DEFINE g == CHOOSE f : IsOffers(f, c, ms, Len(ms))
<1>1. IsOffers(g, c, ms, Len(ms))
  BY OffersExist
<1>2. Offered(c, ms) = g[Len(ms)]
  BY Zenon DEF Offered, IsOffers
<1> HIDE DEF g
<1>3. \A k \in 0..Len(ms) : g[k] = IF k = 0 THEN c ELSE Offer(g[k - 1], ms[k])
  BY <1>1 DEF IsOffers
<1>4. g[0] = c
  BY <1>3
<1>5. \A k \in 1..Len(ms) : g[k] = Offer(g[k - 1], ms[k])
  BY <1>3
<1> QED BY <1>2, <1>4, <1>5

-----------------------------------------------------------------------------
(* One event. *)
Idles(c, m) == c.state \in {"absent", "closed"} \/ ~Wants(c, m)

LEMMA EndFrame == End \in Frame /\ End.linen = None /\ End.clock = 0 /\ End.type = "end"
  BY Rows DEF End, Clock, Event, Frame

LEMMA AppendFrame ==
  ASSUME NEW q \in Seq(Frame), NEW m \in Frame
  PROVE  /\ Append(q, m) \in Seq(Frame) /\ Len(Append(q, m)) = Len(q) + 1
         /\ DOMAIN Append(q, m) = 1..(Len(q) + 1)
         /\ \A i \in DOMAIN q : i \in DOMAIN Append(q, m) /\ Append(q, m)[i] = q[i]
         /\ Append(q, m)[Len(q) + 1] = m
         /\ ToSet(Append(q, m)) = ToSet(q) \cup {m}
<1>1. DOMAIN q = 1..Len(q) /\ Len(q) \in Nat
  OBVIOUS
<1>2. /\ Append(q, m) \in Seq(Frame) /\ Len(Append(q, m)) = Len(q) + 1
      /\ DOMAIN Append(q, m) = 1..(Len(q) + 1)
  OBVIOUS
<1>3. \A i \in 1..(Len(q) + 1) : Append(q, m)[i] = IF i = Len(q) + 1 THEN m ELSE q[i]
  OBVIOUS
<1>4. /\ \A i \in DOMAIN q : i \in DOMAIN Append(q, m) /\ Append(q, m)[i] = q[i]
      /\ Append(q, m)[Len(q) + 1] = m
  BY <1>1, <1>2, <1>3
<1>5. ToSet(Append(q, m)) = ToSet(q) \cup {m}
  BY <1>1, <1>2, <1>3 DEF ToSet
<1> QED BY <1>2, <1>4, <1>5

LEMMA AppendLast ==
  ASSUME NEW q \in Seq(Frame), NEW m \in Frame, NEW k
  PROVE  /\ m.linen = k => LastRow(Append(q, m), k, m.row)
         /\ m.linen # k => \A r : LastRow(q, k, r) => LastRow(Append(q, m), k, r)
         /\ NoRow(Append(q, m), k) <=> NoRow(q, k) /\ m.linen # k
  BY AppendRow, Zenon

LEMMA OfferFacts ==
  ASSUME NEW c \in Connection, Len(c.queue) <= QueueMax, NEW m \in Frame
  PROVE  LET d == Offer(c, m) IN
         /\ d \in Connection /\ Len(d.queue) <= QueueMax
         /\ d.channels = c.channels /\ d.asked \in {0, c.asked}
         /\ \/ Idles(c, m) /\ d = c
            \/ ~Idles(c, m) /\ d.state = c.state /\ d.queue = Append(c.queue, m)
            \/ ~Idles(c, m) /\ d.state = "closed" /\ c.queue # <<>>
               /\ d.queue = Append(Tail(c.queue), End)
<1>1. c.queue \in Seq(Frame) /\ Len(c.queue) \in Nat /\ QueueMax \in Nat \ {0}
  BY LinensAssumption DEF Connection
<1>2. CASE Idles(c, m)
  <2>1. Offer(c, m) = c
    BY <1>2, Zenon DEF Offer, Idles
  <2> QED BY <1>2, <2>1
<1>3. CASE ~Idles(c, m) /\ Len(c.queue) < QueueMax
  <2>1. PICK q : q = Append(c.queue, m)
    OBVIOUS
  <2>2. Offer(c, m) = [c EXCEPT !.queue = q]
    BY <1>3, <2>1 DEF Offer, Idles, Put
  <2>3. q \in Seq(Frame) /\ Len(q) <= QueueMax
    BY <1>1, <1>3, <2>1
  <2> QED BY <1>3, <2>1, <2>2, <2>3 DEF Connection
<1>4. CASE ~Idles(c, m) /\ ~(Len(c.queue) < QueueMax)
  <2>1. PICK q : q = Append(Tail(c.queue), End)
    OBVIOUS
  <2>2. Offer(c, m) = [c EXCEPT !.state = "closed", !.queue = q, !.asked = 0]
    BY <1>4, <2>1 DEF Offer, Idles, Put
  <2>3. c.queue # <<>>
    BY <1>1, <1>4
  <2>4. Tail(c.queue) \in Seq(Frame) /\ Len(Tail(c.queue)) = Len(c.queue) - 1
    BY <1>1, <2>3, HeadOf
  <2>5. q \in Seq(Frame) /\ Len(q) <= QueueMax
    <3>1. PICK u \in Seq(Frame) : u = Tail(c.queue)
      BY <2>4
    <3>2. Append(u, End) \in Seq(Frame) /\ Len(Append(u, End)) = Len(u) + 1
      BY AppendFrame, EndFrame
    <3> QED BY <1>1, <2>1, <2>4, <3>1, <3>2
  <2>6. PICK d : d = Offer(c, m)
    OBVIOUS
  <2>7. d = [c EXCEPT !.state = "closed", !.queue = q, !.asked = 0]
    BY <2>2, <2>6
  <2>8. /\ d.state = "closed" /\ d.queue = q /\ d.asked = 0 /\ d.channels = c.channels
        /\ d \in Connection
    BY <2>5, <2>7 DEF Connection
  <2> QED BY <1>4, <2>1, <2>3, <2>5, <2>6, <2>8
<1> QED BY <1>2, <1>3, <1>4

(* Where a connection that began as `b` is, some of `ms` having been offered *)
(* to it.                                                                    *)
Stage(b, ms, c) ==
  /\ c \in Connection /\ Len(c.queue) <= QueueMax
  /\ c.channels = b.channels /\ c.asked \in {0, b.asked} /\ c.state \in {b.state, "closed"}
  /\ b.state \in {"absent", "closed"} \/ b.channels = {} => c = b
  /\ ToSet(c.queue) \subseteq ToSet(b.queue) \cup ToSet(ms) \cup {End}
  /\ c.state # "closed" =>
       \A i \in DOMAIN b.queue : i \in DOMAIN c.queue /\ c.queue[i] = b.queue[i]
  /\ c.state = "closed" /\ b.state # "closed" /\ Len(b.queue) >= 2 =>
       c.queue # <<>> /\ Head(c.queue) = b.queue[2]

LEMMA StageFirst ==
  ASSUME NEW b \in Connection, Len(b.queue) <= QueueMax, NEW ms
  PROVE  Stage(b, ms, b)
  BY DEF Stage, Connection

LEMMA StageNext ==
  ASSUME NEW b \in Connection, NEW ms, NEW c, Stage(b, ms, c), NEW m \in Frame, m \in ToSet(ms)
  PROVE  Stage(b, ms, Offer(c, m))
<1>1. PICK d : d = Offer(c, m)
  OBVIOUS
<1>2. c \in Connection /\ Len(c.queue) <= QueueMax /\ c.queue \in Seq(Frame)
      /\ b.queue \in Seq(Frame) /\ c.channels = b.channels /\ c.state \in {b.state, "closed"}
  BY DEF Stage, Connection
<1>3. /\ d \in Connection /\ Len(d.queue) <= QueueMax
      /\ d.channels = c.channels /\ d.asked \in {0, c.asked}
      /\ \/ Idles(c, m) /\ d = c
         \/ ~Idles(c, m) /\ d.state = c.state /\ d.queue = Append(c.queue, m)
         \/ ~Idles(c, m) /\ d.state = "closed" /\ c.queue # <<>>
            /\ d.queue = Append(Tail(c.queue), End)
  BY <1>1, <1>2, OfferFacts
<1>4. ASSUME ~Idles(c, m) PROVE b.state \notin {"absent", "closed"} /\ b.channels # {}
                                /\ c.state \notin {"absent", "closed"}
  <2>1. c.state \notin {"absent", "closed"} /\ c.channels # {}
    BY <1>4 DEF Idles, Wants
  <2> QED BY <1>2, <2>1
<1>5. d.channels = b.channels /\ d.asked \in {0, b.asked} /\ d.state \in {b.state, "closed"}
  BY <1>2, <1>3 DEF Stage
<1>6. ASSUME ~Idles(c, m), d.state = c.state, d.queue = Append(c.queue, m)
      PROVE  Stage(b, ms, d)
  <2>1. /\ ToSet(d.queue) = ToSet(c.queue) \cup {m}
        /\ \A i \in DOMAIN c.queue : i \in DOMAIN d.queue /\ d.queue[i] = c.queue[i]
    BY <1>2, <1>6, AppendFrame
  <2>2. c.state # "closed"
    BY <1>4, <1>6
  <2> QED BY <1>3, <1>4, <1>5, <1>6, <2>1, <2>2 DEF Stage
<1>7. ASSUME ~Idles(c, m), d.state = "closed", c.queue # <<>>,
             d.queue = Append(Tail(c.queue), End)
      PROVE  Stage(b, ms, d)
  <2>1. PICK u \in Seq(Frame) : u = Tail(c.queue)
    BY <1>2, <1>7, HeadOf
  <2>2. /\ Len(u) = Len(c.queue) - 1
        /\ \A i \in DOMAIN u : u[i] = c.queue[i + 1] /\ i + 1 \in DOMAIN c.queue
    BY <1>2, <1>7, <2>1, HeadOf
  <2>3. /\ ToSet(d.queue) = ToSet(u) \cup {End} /\ d.queue \in Seq(Frame)
        /\ Len(d.queue) = Len(u) + 1
        /\ \A i \in DOMAIN u : i \in DOMAIN d.queue /\ d.queue[i] = u[i]
    <3>1. d.queue = Append(u, End)
      BY <1>7, <2>1
    <3>2. /\ ToSet(Append(u, End)) = ToSet(u) \cup {End} /\ Append(u, End) \in Seq(Frame)
          /\ Len(Append(u, End)) = Len(u) + 1
          /\ \A i \in DOMAIN u : i \in DOMAIN Append(u, End) /\ Append(u, End)[i] = u[i]
      BY AppendFrame, EndFrame
    <3> QED BY <3>1, <3>2
  <2>4. ToSet(u) \subseteq ToSet(c.queue)
    BY <2>2 DEF ToSet
  <2>5. ASSUME Len(b.queue) >= 2 PROVE d.queue # <<>> /\ Head(d.queue) = b.queue[2]
    <3>1. 2 \in DOMAIN b.queue
      BY <1>2, <2>5
    <3>2. 2 \in DOMAIN c.queue /\ c.queue[2] = b.queue[2]
      BY <1>4, <1>7, <3>1 DEF Stage
    <3>3. Len(c.queue) >= 2 /\ Len(c.queue) \in Nat
      BY <1>2, <3>2
    <3>4. Len(u) \in Nat /\ Len(u) >= 1 /\ 1 \in DOMAIN u
      BY <2>1, <2>2, <3>3
    <3>5. d.queue # <<>>
      BY <2>3, <3>4
    <3>6. d.queue[1] = c.queue[2]
      BY <2>2, <2>3, <3>4
    <3>7. Head(d.queue) = d.queue[1]
      BY <2>3, <3>5, HeadOf
    <3> QED BY <3>2, <3>5, <3>6, <3>7
  <2> QED BY <1>3, <1>4, <1>5, <1>7, <2>3, <2>4, <2>5 DEF Stage
<1> QED BY <1>1, <1>3, <1>6, <1>7

LEMMA OfferedStage ==
  ASSUME NEW b \in Connection, Len(b.queue) <= QueueMax, NEW ms \in Seq(Frame)
  PROVE  Stage(b, ms, Offered(b, ms))
<1>1. PICK n \in Nat : n = Len(ms) /\ DOMAIN ms = 1..n
  OBVIOUS
<1>2. PICK f : /\ f[0] = b
               /\ \A k \in 1..n : f[k] = Offer(f[k - 1], ms[k])
               /\ Offered(b, ms) = f[n]
  <2>1. Len(ms) \in Nat
    BY <1>1
  <2>2. \E f : /\ f[0] = b
               /\ \A k \in 1..Len(ms) : f[k] = Offer(f[k - 1], ms[k])
               /\ Offered(b, ms) = f[Len(ms)]
    BY <2>1, OfferedTable
  <2> QED BY <1>1, <2>2
<1> DEFINE S == {k \in 0..n : Stage(b, ms, f[k])}
<1>3. 0 \in S
  BY <1>1, <1>2, StageFirst
<1>4. ASSUME NEW k \in 1..n, k - 1 \in S PROVE k \in S
  <2>1. Stage(b, ms, f[k - 1])
    BY <1>4
  <2>2. ms[k] \in Frame /\ ms[k] \in ToSet(ms)
    BY <1>1, <1>4 DEF ToSet
  <2>3. Stage(b, ms, Offer(f[k - 1], ms[k]))
    BY <2>1, <2>2, StageNext
  <2> QED BY <1>2, <1>4, <2>3
<1> HIDE DEF S
<1>5. n \in S
  BY <1>3, <1>4, CountingUp
<1> QED BY <1>2, <1>5 DEF S

-----------------------------------------------------------------------------
(* The last row of a linen, when events are offered to a connection that     *)
(* stays open: its last in the queue, or its last in the events it wants.    *)
LEMMA OfferRow ==
  ASSUME NEW c \in Connection, Len(c.queue) <= QueueMax, NEW m \in Frame, NEW l, NEW r,
         Offer(c, m).state # "closed"
  PROVE  /\ c.state # "closed"
         /\ m.linen # l /\ LastRow(c.queue, l, r) => LastRow(Offer(c, m).queue, l, r)
         /\ c.state # "absent" /\ Wants(c, m) /\ m.linen = l => LastRow(Offer(c, m).queue, l, m.row)
<1>1. PICK d : d = Offer(c, m)
  OBVIOUS
<1>2. /\ d.state # "closed"
      /\ \/ Idles(c, m) /\ d = c
         \/ ~Idles(c, m) /\ d.state = c.state /\ d.queue = Append(c.queue, m)
  BY <1>1, OfferFacts
<1>3. PICK q \in Seq(Frame) : q = c.queue
  BY DEF Connection
<1>4. /\ m.linen = l => LastRow(Append(q, m), l, m.row)
      /\ m.linen # l /\ LastRow(q, l, r) => LastRow(Append(q, m), l, r)
  BY AppendLast
<1>5. c.state # "closed"
  BY <1>2 DEF Idles
<1>6. CASE Idles(c, m) /\ d = c
  BY <1>1, <1>5, <1>6 DEF Idles
<1>7. CASE d.queue = Append(q, m)
  BY <1>1, <1>4, <1>3, <1>5, <1>7
<1> QED BY <1>2, <1>3, <1>6, <1>7

LEMMA OfferedKeeps ==
  ASSUME NEW b \in Connection, Len(b.queue) <= QueueMax, NEW ms \in Seq(Frame), NEW l, NEW r,
         LastRow(b.queue, l, r), NoRow(ms, l), Offered(b, ms).state # "closed"
  PROVE  LastRow(Offered(b, ms).queue, l, r)
<1>1. PICK n \in Nat : n = Len(ms) /\ DOMAIN ms = 1..n
  OBVIOUS
<1>2. PICK f : /\ f[0] = b
               /\ \A k \in 1..n : f[k] = Offer(f[k - 1], ms[k])
               /\ Offered(b, ms) = f[n]
  <2>1. Len(ms) \in Nat
    BY <1>1
  <2>2. \E f : /\ f[0] = b
               /\ \A k \in 1..Len(ms) : f[k] = Offer(f[k - 1], ms[k])
               /\ Offered(b, ms) = f[Len(ms)]
    BY <2>1, OfferedTable
  <2> QED BY <1>1, <2>2
<1> DEFINE S == {k \in 0..n : /\ Stage(b, ms, f[k])
                              /\ f[k].state # "closed" => LastRow(f[k].queue, l, r)}
<1>3. 0 \in S
  BY <1>1, <1>2, StageFirst
<1>4. ASSUME NEW k \in 1..n, k - 1 \in S PROVE k \in S
  <2>1. PICK c : c = f[k - 1]
    OBVIOUS
  <2>2. Stage(b, ms, c) /\ (c.state # "closed" => LastRow(c.queue, l, r))
    BY <1>4, <2>1
  <2>3. PICK m : m = ms[k]
    OBVIOUS
  <2>4. m \in Frame /\ m \in ToSet(ms) /\ m.linen # l
    BY <1>1, <1>4, <2>3 DEF ToSet, NoRow
  <2>5. Stage(b, ms, Offer(c, m))
    BY <2>2, <2>4, StageNext
  <2>6. Offer(c, m).state # "closed" => LastRow(Offer(c, m).queue, l, r)
    <3>1. c \in Connection /\ Len(c.queue) <= QueueMax
      BY <2>2 DEF Stage
    <3> QED BY <2>2, <2>4, <3>1, OfferRow
  <2>7. f[k] = Offer(c, m)
    BY <1>2, <1>4, <2>1, <2>3
  <2> QED BY <1>4, <2>5, <2>6, <2>7
<1> HIDE DEF S
<1>5. n \in S
  <2>1. \A k \in 1..n : k - 1 \in S => k \in S
    BY <1>4
  <2>2. \A k \in 0..n : k \in S
    BY <1>3, <2>1, CountingUp, Zenon
  <2> QED BY <2>2
<1>6. f[n].state # "closed" => LastRow(f[n].queue, l, r)
  BY <1>5 DEF S
<1> QED BY <1>2, <1>6

LEMMA OfferedAdds ==
  ASSUME NEW b \in Connection, Len(b.queue) <= QueueMax, NEW ms \in Seq(Frame), NEW l, NEW r,
         LastRow(ms, l, r), \A i \in DOMAIN ms : ms[i].linen = l => Wants(b, ms[i]),
         b.state # "absent", Offered(b, ms).state # "closed"
  PROVE  LastRow(Offered(b, ms).queue, l, r)
<1>1. PICK n \in Nat : n = Len(ms) /\ DOMAIN ms = 1..n
  OBVIOUS
<1>2. PICK f : /\ f[0] = b
               /\ \A k \in 1..n : f[k] = Offer(f[k - 1], ms[k])
               /\ Offered(b, ms) = f[n]
  <2>1. Len(ms) \in Nat
    BY <1>1
  <2>2. \E f : /\ f[0] = b
               /\ \A k \in 1..Len(ms) : f[k] = Offer(f[k - 1], ms[k])
               /\ Offered(b, ms) = f[Len(ms)]
    BY <2>1, OfferedTable
  <2> QED BY <1>1, <2>2
<1>3. PICK i \in 1..n : /\ ms[i].linen = l /\ ms[i].row = r
                        /\ \A j \in 1..n : j > i => ms[j].linen # l
  BY <1>1 DEF LastRow
<1> DEFINE S == {k \in 0..n : /\ Stage(b, ms, f[k])
                              /\ k >= i /\ f[k].state # "closed" => LastRow(f[k].queue, l, r)}
<1>4. 0 \in S
  BY <1>2, <1>3, StageFirst
<1>5. ASSUME NEW k \in 1..n, k - 1 \in S PROVE k \in S
  <2>1. PICK c : c = f[k - 1]
    OBVIOUS
  <2>2. Stage(b, ms, c) /\ (k - 1 >= i /\ c.state # "closed" => LastRow(c.queue, l, r))
    BY <1>5, <2>1
  <2>3. PICK m : m = ms[k]
    OBVIOUS
  <2>4. m \in Frame /\ m \in ToSet(ms)
    BY <1>1, <1>5, <2>3 DEF ToSet
  <2>5. Stage(b, ms, Offer(c, m))
    BY <2>2, <2>4, StageNext
  <2>6. c \in Connection /\ Len(c.queue) <= QueueMax /\ c.channels = b.channels
        /\ c.state \in {b.state, "closed"}
    BY <2>2 DEF Stage
  <2>7. ASSUME k >= i, Offer(c, m).state # "closed" PROVE LastRow(Offer(c, m).queue, l, r)
    <3>1. /\ c.state # "closed"
          /\ m.linen # l /\ LastRow(c.queue, l, r) => LastRow(Offer(c, m).queue, l, r)
          /\ c.state # "absent" /\ Wants(c, m) /\ m.linen = l
               => LastRow(Offer(c, m).queue, l, m.row)
      BY <2>4, <2>6, <2>7, OfferRow
    <3>2. CASE k = i
      <4>1. m.linen = l /\ m.row = r
        BY <1>3, <2>3, <3>2
      <4>2. Wants(b, m)
        BY <1>1, <1>5, <2>3, <4>1
      <4>3. Wants(c, m) /\ c.state # "absent"
        BY <2>6, <3>1, <4>2 DEF Wants
      <4> QED BY <3>1, <4>1, <4>3
    <3>3. CASE k # i
      <4>1. m.linen # l /\ k - 1 >= i
        BY <1>3, <1>5, <2>3, <2>7, <3>3
      <4> QED BY <2>2, <3>1, <4>1
    <3> QED BY <3>2, <3>3
  <2>8. f[k] = Offer(c, m)
    BY <1>2, <1>5, <2>1, <2>3
  <2> QED BY <1>5, <2>5, <2>7, <2>8
<1> HIDE DEF S
<1>6. n \in S
  <2>1. \A k \in 1..n : k - 1 \in S => k \in S
    BY <1>5
  <2>2. \A k \in 0..n : k \in S
    BY <1>4, <2>1, CountingUp, Zenon
  <2> QED BY <2>2
<1>7. f[n].state # "closed" => LastRow(f[n].queue, l, r)
  BY <1>3, <1>6 DEF S
<1> QED BY <1>2, <1>7

-----------------------------------------------------------------------------
(* The events of a request. *)
LEMMA EventFacts ==
  ASSUME NEW c \in Nat, NEW ls \in SUBSET Linens, NEW l \in Linens \cup {None}, NEW row \in Row
  PROVE  LET e == Event(c, ls, l, row) IN
         /\ e \in Frame /\ e.clock = c /\ e.about = ls /\ e.linen = l /\ e.row = row
         /\ e.type = "event"
  BY DEF Event, Frame

(* Rows of done, as events. *)
RowEvents(req) ==
  [i \in DOMAIN req.done |->
     Event(req.clock, {req.done[i].linen}, req.done[i].linen, req.done[i].row)]

(* An event about all, or about none, lets no row be patched. *)
Notice(req, ls) == Event(req.clock, ls, None, Unborn)

LEMMA EventsAre ==
  ASSUME NEW req \in Request
  PROVE  \E ls \in SUBSET Linens :
           /\ req.kind = "bulkScan" => Events(req) = <<Notice(req, ls)>> \o RowEvents(req)
           /\ req.kind = "bulkCreate" => Events(req) = <<Notice(req, ls)>>
           /\ req.kind \notin {"bulkScan", "bulkCreate"} /\ req.done = <<>>
                => Events(req) = <<Notice(req, ls)>>
           /\ req.kind \notin {"bulkScan", "bulkCreate"} /\ req.done # <<>>
                => Events(req) = RowEvents(req)
<1>1. {req.done[i].linen : i \in DOMAIN req.done} \subseteq Linens
  <2>1. PICK q \in Seq([linen: Linens, row: Row]) : q = req.done
    BY DoneType
  <2>2. \A i \in DOMAIN q : q[i] \in [linen: Linens, row: Row]
    BY Element
  <2> QED BY <2>1, <2>2
<1>2. PICK all : all = {req.done[i].linen : i \in DOMAIN req.done}
  OBVIOUS
<1>3. CASE req.kind = "bulkScan"
  <2>1. Events(req) = <<Notice(req, all)>> \o RowEvents(req)
    BY <1>2, <1>3, Zenon DEF Events, Notice, RowEvents
  <2> QED BY <1>1, <1>2, <1>3, <2>1
<1>4. CASE req.kind = "bulkCreate"
  <2>1. Events(req) = <<Notice(req, all)>>
    BY <1>2, <1>4 DEF Events, Notice
  <2> QED BY <1>1, <1>2, <1>4, <2>1
<1>5. CASE req.kind \notin {"bulkScan", "bulkCreate"} /\ req.done = <<>>
  <2>1. Events(req) = <<Notice(req, {})>>
    BY <1>5, Zenon DEF Events, Notice
  <2> QED BY <1>5, <2>1
<1>6. CASE req.kind \notin {"bulkScan", "bulkCreate"} /\ req.done # <<>>
  <2>1. Events(req) = RowEvents(req)
    BY <1>6, Zenon DEF Events, RowEvents
  <2> QED BY <1>6, <2>1
<1> QED BY <1>3, <1>4, <1>5, <1>6

LEMMA RowEventsFacts ==
  ASSUME NEW req \in Request
  PROVE  /\ RowEvents(req) \in Seq(Frame)
         /\ DOMAIN RowEvents(req) = DOMAIN req.done
         /\ \A i \in DOMAIN req.done :
              LET e == RowEvents(req)[i] IN
              /\ e.type = "event" /\ e.clock = req.clock /\ e.linen = req.done[i].linen
              /\ e.row = req.done[i].row /\ e.about = {e.linen} /\ e.linen \in Linens
<1>1. PICK q \in Seq([linen: Linens, row: Row]) : q = req.done
  BY DoneType
<1>2. PICK n \in Nat : DOMAIN q = 1..n
  OBVIOUS
<1>3. req.clock \in Nat
  BY DEF Request
<1>4. \A i \in DOMAIN q : q[i].linen \in Linens /\ q[i].row \in Row
  <2>1. \A i \in DOMAIN q : q[i] \in [linen: Linens, row: Row]
    BY Element
  <2> QED BY <2>1
<1>5. PICK es : es = [i \in 1..n |-> Event(req.clock, {q[i].linen}, q[i].linen, q[i].row)]
  OBVIOUS
<1>6. ASSUME NEW i \in 1..n
      PROVE  LET e == es[i] IN
             /\ e \in Frame
             /\ e.type = "event" /\ e.clock = req.clock /\ e.linen = q[i].linen
             /\ e.row = q[i].row /\ e.about = {e.linen} /\ e.linen \in Linens
  <2>1. PICK l \in Linens, row \in Row, ls \in SUBSET Linens :
          l = q[i].linen /\ row = q[i].row /\ ls = {l}
    BY <1>2, <1>4
  <2>2. es[i] = Event(req.clock, ls, l, row)
    BY <1>5, <2>1
  <2> QED BY <1>3, <2>1, <2>2, EventFacts
<1>7. es \in Seq(Frame) /\ DOMAIN es = 1..n
  <2>1. es \in [1..n -> Frame]
    BY <1>5, <1>6
  <2> QED BY <2>1
<1>8. RowEvents(req) = es
  BY <1>1, <1>2, <1>5 DEF RowEvents
<1> QED BY <1>1, <1>2, <1>6, <1>7, <1>8

LEMMA NoticeFacts ==
  ASSUME NEW req \in Request, NEW ls \in SUBSET Linens
  PROVE  LET e == Notice(req, ls) IN
         e \in Frame /\ e.type = "event" /\ e.clock = req.clock /\ e.linen = None
<1>1. req.clock \in Nat
  BY DEF Request
<1> QED BY <1>1, Rows, EventFacts DEF Notice

LEMMA RowEventsLast ==
  ASSUME NEW req \in Request, NEW l, NEW r, LastRow(req.done, l, r)
  PROVE  LastRow(RowEvents(req), l, r)
<1>1. PICK i \in DOMAIN req.done : /\ req.done[i].linen = l /\ req.done[i].row = r
                                   /\ \A j \in DOMAIN req.done : j > i => req.done[j].linen # l
  BY DEF LastRow
<1>2. PICK es : es = RowEvents(req)
  OBVIOUS
<1>3. DOMAIN es = DOMAIN req.done
      /\ \A j \in DOMAIN es : es[j].linen = req.done[j].linen /\ es[j].row = req.done[j].row
  BY <1>2, RowEventsFacts
<1>4. LastRow(es, l, r)
  BY <1>1, <1>3 DEF LastRow
<1> QED BY <1>2, <1>4

(* A frame put before others. *)
LEMMA Prepend ==
  ASSUME NEW e \in Frame, NEW q \in Seq(Frame)
  PROVE  LET p == <<e>> \o q IN
         /\ p \in Seq(Frame)
         /\ \A i \in DOMAIN p : (i = 1 /\ p[i] = e) \/ (i - 1 \in DOMAIN q /\ p[i] = q[i - 1])
         /\ \A i \in DOMAIN q : i + 1 \in DOMAIN p /\ p[i + 1] = q[i]
<1>1. PICK n \in Nat : n = Len(q) /\ DOMAIN q = 1..n
  OBVIOUS
<1>2. PICK p : p = <<e>> \o q
  OBVIOUS
<1>3. p \in Seq(Frame) /\ Len(p) = n + 1 /\ DOMAIN p = 1..(n + 1)
  BY <1>1, <1>2
<1>4. \A i \in 1..(n + 1) : p[i] = IF i = 1 THEN e ELSE q[i - 1]
  BY <1>1, <1>2
<1> QED BY <1>1, <1>2, <1>3, <1>4

LEMMA PrependLast ==
  ASSUME NEW e \in Frame, NEW q \in Seq(Frame), NEW l, NEW r, LastRow(q, l, r)
  PROVE  LastRow(<<e>> \o q, l, r)
<1>1. PICK i \in DOMAIN q : /\ q[i].linen = l /\ q[i].row = r
                            /\ \A j \in DOMAIN q : j > i => q[j].linen # l
  BY DEF LastRow
<1>2. PICK p : p = <<e>> \o q
  OBVIOUS
<1>3. /\ \A j \in DOMAIN p : (j = 1 /\ p[j] = e) \/ (j - 1 \in DOMAIN q /\ p[j] = q[j - 1])
      /\ \A j \in DOMAIN q : j + 1 \in DOMAIN p /\ p[j + 1] = q[j]
      /\ p \in Seq(Frame)
  BY <1>2, Prepend
<1>4. i \in Nat \ {0} /\ \A j \in DOMAIN p : j \in Nat
  BY <1>3
<1>5. ASSUME NEW j \in DOMAIN p, j > i + 1 PROVE p[j].linen # l
  <2>1. j \in Nat
    BY <1>4
  <2>2. j - 1 \in DOMAIN q /\ p[j] = q[j - 1] /\ j - 1 > i
    BY <1>3, <1>4, <1>5, <2>1
  <2> QED BY <1>1, <2>2
<1>6. i + 1 \in DOMAIN p /\ p[i + 1].linen = l /\ p[i + 1].row = r
  BY <1>1, <1>3
<1>7. LastRow(p, l, r)
  BY <1>5, <1>6 DEF LastRow
<1> QED BY <1>2, <1>7

LEMMA EventsFacts ==
  ASSUME NEW req \in Request
  PROVE  /\ Events(req) \in Seq(Frame)
         /\ \A m \in ToSet(Events(req)) :
              /\ m \in Frame /\ m.type = "event" /\ m.clock = req.clock
              /\ m.linen # None => /\ m.about = {m.linen} /\ m.linen \in Linens
                                   /\ req.kind # "bulkCreate"
                                   /\ \E j \in DOMAIN req.done : m.linen = req.done[j].linen
         /\ \A l \in Linens : \A r :
              req.kind # "bulkCreate" /\ LastRow(req.done, l, r) => LastRow(Events(req), l, r)
<1>1. PICK ls \in SUBSET Linens :
           /\ req.kind = "bulkScan" => Events(req) = <<Notice(req, ls)>> \o RowEvents(req)
           /\ req.kind = "bulkCreate" => Events(req) = <<Notice(req, ls)>>
           /\ req.kind \notin {"bulkScan", "bulkCreate"} /\ req.done = <<>>
                => Events(req) = <<Notice(req, ls)>>
           /\ req.kind \notin {"bulkScan", "bulkCreate"} /\ req.done # <<>>
                => Events(req) = RowEvents(req)
  BY EventsAre
<1>2. PICK e \in Frame : /\ e = Notice(req, ls)
                         /\ e.type = "event" /\ e.clock = req.clock /\ e.linen = None
  BY NoticeFacts
<1>3. PICK es \in Seq(Frame) : es = RowEvents(req)
  BY RowEventsFacts
<1>4. \A m \in ToSet(es) :
              /\ m \in Frame /\ m.type = "event" /\ m.clock = req.clock
              /\ m.about = {m.linen} /\ m.linen \in Linens
              /\ \E j \in DOMAIN req.done : m.linen = req.done[j].linen
  <2>1. \A i \in DOMAIN es : es[i] \in Frame
    BY Element
  <2>2. \A i \in DOMAIN es :
              /\ i \in DOMAIN req.done
              /\ es[i].type = "event" /\ es[i].clock = req.clock
              /\ es[i].linen = req.done[i].linen
              /\ es[i].about = {es[i].linen} /\ es[i].linen \in Linens
    BY <1>3, RowEventsFacts
  <2>3. \A m \in ToSet(es) : \E i \in DOMAIN es : m = es[i]
    BY DEF ToSet
  <2> QED BY <2>1, <2>2, <2>3
<1>5. CASE req.kind = "bulkScan"
  <2>1. PICK p : p = <<e>> \o es
    OBVIOUS
  <2>2. Events(req) = p
    BY <1>1, <1>2, <1>3, <1>5, <2>1
  <2>3. p \in Seq(Frame) /\ ToSet(p) \subseteq {e} \cup ToSet(es)
    BY <2>1, Prepend DEF ToSet
  <2>4. \A l, r : LastRow(es, l, r) => LastRow(p, l, r)
    BY <2>1, PrependLast
  <2>5. \A l, r : LastRow(req.done, l, r) => LastRow(es, l, r)
    BY <1>3, RowEventsLast
  <2>6. \A m \in ToSet(p) :
              /\ m \in Frame /\ m.type = "event" /\ m.clock = req.clock
              /\ m.linen # None => /\ m.about = {m.linen} /\ m.linen \in Linens
                                   /\ \E j \in DOMAIN req.done : m.linen = req.done[j].linen
    BY <1>2, <1>4, <2>3
  <2> QED BY <1>5, <2>2, <2>3, <2>4, <2>5, <2>6
<1>6. CASE Events(req) = <<e>> /\ (req.kind = "bulkCreate" \/ req.done = <<>>)
  <2>1. <<e>> \in Seq(Frame)
    OBVIOUS
  <2>2. ToSet(<<e>>) = {e}
    BY DEF ToSet
  <2>3. req.done = <<>> => \A l, r : ~LastRow(req.done, l, r)
    BY DEF LastRow
  <2> QED BY <1>2, <1>6, <2>1, <2>2, <2>3
<1>7. CASE Events(req) = es /\ req.kind # "bulkCreate"
  <2>1. \A l, r : LastRow(req.done, l, r) => LastRow(es, l, r)
    BY <1>3, RowEventsLast
  <2> QED BY <1>4, <1>7, <2>1
<1> QED BY <1>1, <1>2, <1>3, <1>5, <1>6, <1>7

-----------------------------------------------------------------------------
(* Screens after a step of the hub, which changes no linen and no clock.     *)
LEMMA AheadAfter ==
  ASSUME NEW v \in Screens, docs' = docs
  PROVE  Ahead(v)' = IF conns'[v].queue = <<>> THEN screens'[v]
                     ELSE Shown(screens'[v], Head(conns'[v].queue))
<1>1. PICK sc : sc = screens'[v]
  OBVIOUS
<1>2. PICK q : q = conns'[v].queue
  OBVIOUS
<1>3. PICK m : m = Head(q)
  OBVIOUS
<1>4. Ahead(v)' = IF q = <<>> THEN sc ELSE Shown(sc, m)'
  BY <1>1, <1>2, <1>3 DEF Ahead
<1>5. Shown(sc, m)' = Shown(sc, m)
  BY Zenon DEF Shown
<1> QED BY <1>1, <1>2, <1>3, <1>4, <1>5

LEMMA Settles ==
  ASSUME TypeOK, docs' = docs, clock' = clock, NEW v \in Screens, NEW l \in Linens,
         NEW q \in Seq(Frame), conns'[v].queue = q, NEW sc \in Screen, screens'[v] = sc,
         \/ Current(sc.shows[l], l) /\ (q # <<>> => Head(q).linen # l)
         \/ \E m \in ToSet(q) : m.linen = l /\ m.row = docs[l] /\ m.type = "event"
         \/ sc.seen < clock /\ (q # <<>> => Head(q).clock < clock)
         \/ sc.seen < clock /\ q # <<>> /\ Head(q).type # "event"
  PROVE  Settled(v, l)'
<1>1. clock \in Nat /\ sc.seen \in Nat /\ docs \in [Linens -> Row]
  BY AheadType DEF TypeOK, Screen
<1>2. PICK ahead : ahead = Ahead(v)'
  OBVIOUS
<1>3. ahead = IF q = <<>> THEN sc ELSE Shown(sc, Head(q))
  BY <1>2, AheadAfter
<1>4. SUFFICES \/ ahead.shows[l] \in {docs[l], Unborn}
               \/ sc.seen < clock /\ ahead.seen < clock
               \/ \E i \in DOMAIN q : i > 1 /\ q[i].linen = l
  BY <1>2 DEF Settled, Current
<1>5. CASE q = <<>>
  <2>1. ToSet(q) = {}
    BY <1>5 DEF ToSet
  <2> QED BY <1>1, <1>3, <1>5, <2>1 DEF Current
<1>6. CASE q # <<>>
  <2>1. PICK m \in Frame : m = Head(q) /\ m = q[1]
    BY <1>6, HeadOf
  <2>2. ahead = Shown(sc, m)
    BY <1>3, <1>6, <2>1
  <2>3. m.clock \in Nat
    BY FrameFacts
  <2>4. /\ ahead.seen \in {sc.seen, m.clock}
        /\ m.type = "event" => ahead.shows[l] = IF m.linen = l THEN m.row ELSE sc.shows[l]
        /\ m.type = "clock" /\ m.clock > sc.seen => ahead.shows = docs
        /\ m.type # "event" /\ ~(m.type = "clock" /\ m.clock > sc.seen) => ahead = sc
    BY <2>2, ShownFacts
  <2>5. CASE Current(sc.shows[l], l) /\ m.linen # l
    BY <2>4, <2>5 DEF Current
  <2>6. CASE \E k \in ToSet(q) : k.linen = l /\ k.row = docs[l] /\ k.type = "event"
    <3>1. PICK i \in DOMAIN q : q[i].linen = l /\ q[i].row = docs[l] /\ q[i].type = "event"
      BY <2>6 DEF ToSet
    <3>2. CASE i = 1
      BY <2>1, <2>4, <3>1, <3>2
    <3>3. CASE i > 1
      BY <3>1, <3>3
    <3> QED BY <3>2, <3>3
  <2>7. CASE sc.seen < clock /\ m.clock < clock
    BY <2>4, <2>7
  <2>8. CASE sc.seen < clock /\ m.type # "event"
    BY <2>4, <2>8
  <2> QED BY <1>6, <2>1, <2>5, <2>6, <2>7, <2>8
<1> QED BY <1>5, <1>6

-----------------------------------------------------------------------------
(* Publication. *)
LEMMA UnheardFacts ==
  ASSUME NEW v, NEW ms, NEW l \in Linens, NEW m, m.linen = l, l \notin Unheard(v, ms)
  PROVE  /\ m \in ToSet(ms) /\ conns[v].state \in {"registered", "greeted", "asking"}
              => Wants(conns[v], m)
         /\ m \in ToSet(ms) \cup ToSet(conns[v].queue) /\ m \notin ToSet(Offered(conns[v], ms).queue)
              => \A c \in Clocks(v, Offered(conns[v], ms)) : ~(c >= m.clock)
<1> DEFINE before   == conns[v]
           after    == Offered(before, ms)
           unwanted == {k \in ToSet(ms) : before.state \in {"registered", "greeted", "asking"}
                                            /\ ~Wants(before, k)}
           lost     == {k \in ToSet(ms) \cup ToSet(before.queue) :
                          /\ k \notin ToSet(after.queue)
                          /\ \E c \in Clocks(v, after) : c >= k.clock}
<1>1. Unheard(v, ms) = {k.linen : k \in unwanted \cup lost} \ {None}
  BY DEF Unheard
<1>2. l # None
  BY LinensAssumption
<1>3. m \notin unwanted /\ m \notin lost
  <2> HIDE DEF unwanted, lost
  <2> QED BY <1>1, <1>2
<1> QED BY <1>3

LEMMA PublishSteps ==
  ASSUME TypeOK, NEW s \in Slots, Publish(s)
  PROVE  /\ request[s].pc = "publish" /\ request'[s] = IdleRequest
         /\ request' = [request EXCEPT ![s] = IdleRequest]
         /\ \A t \in Slots \ {s} : request'[t] = request[t]
         /\ UNCHANGED <<docs, clock, washed, screens, started, disturbed>>
         /\ \A v \in Screens :
              /\ conns'[v] = Offered(conns[v], Events(request[s]))
              /\ Stage(conns[v], Events(request[s]), conns'[v])
         /\ conns' \in [Screens -> Connection]
         /\ missed \subseteq missed'
         /\ \A v \in Screens : {v} \X Unheard(v, Events(request[s])) \subseteq missed'
         /\ missed' \subseteq Screens \X Linens
<1>1. PICK req \in Request : req = request[s]
  BY RequestType
<1>2. PICK ms \in Seq(Frame) : /\ ms = Events(req)
                               /\ \A m \in ToSet(ms) : m \in Frame
  BY EventsFacts
<1>3. /\ req.pc = "publish" /\ conns' = [v \in Screens |-> Offered(conns[v], ms)]
      /\ missed' = missed \cup UNION {{v} \X Unheard(v, ms) : v \in Screens}
      /\ Become(s, IdleRequest)
      /\ UNCHANGED <<docs, clock, washed, screens, started, disturbed>>
  BY <1>1, <1>2 DEF Publish
<1>4. /\ request'[s] = IdleRequest /\ request' = [request EXCEPT ![s] = IdleRequest]
      /\ \A t \in Slots \ {s} : request'[t] = request[t]
  BY <1>3, Becomes
<1>5. ASSUME NEW v \in Screens
      PROVE  conns'[v] = Offered(conns[v], ms) /\ Stage(conns[v], ms, conns'[v])
             /\ conns'[v] \in Connection
  <2>1. PICK b \in Connection : b = conns[v] /\ Len(b.queue) <= QueueMax
    BY DEF TypeOK
  <2>2. Stage(b, ms, Offered(b, ms))
    BY <2>1, OfferedStage
  <2>3. conns'[v] = Offered(conns[v], ms)
    BY <1>3
  <2> QED BY <2>1, <2>2, <2>3 DEF Stage
<1>6. conns' \in [Screens -> Connection]
  BY <1>3, <1>5
<1>7. \A v \in Screens : Unheard(v, ms) \subseteq Linens
  <2> SUFFICES ASSUME NEW v \in Screens, NEW l \in Unheard(v, ms) PROVE l \in Linens
    OBVIOUS
  <2>1. PICK m \in ToSet(ms) \cup ToSet(conns[v].queue) : l = m.linen /\ l # None
    BY DEF Unheard
  <2>2. \A k \in ToSet(conns[v].queue) : k \in Frame
    BY ScreenTypes DEF ToSet
  <2>3. m \in Frame
    BY <1>2, <2>1, <2>2
  <2> QED BY <2>1, <2>3, FrameFacts
<1>8. missed \subseteq missed' /\ \A v \in Screens : {v} \X Unheard(v, ms) \subseteq missed'
  BY <1>3
<1>9. missed' \subseteq Screens \X Linens
  BY <1>3, <1>7 DEF TypeOK
<1> QED BY <1>1, <1>2, <1>3, <1>4, <1>5, <1>6, <1>8, <1>9

LEMMA TwoOf ==
  ASSUME NEW q \in Seq(Frame), q # <<>>, Len(q) # 1
  PROVE  Len(q) >= 2 /\ 1 \in DOMAIN q /\ 2 \in DOMAIN q
<1>1. Len(q) \in Nat \ {0}
  BY HeadOf
<1>2. DOMAIN q = 1..Len(q)
  OBVIOUS
<1>3. PICK n \in Nat : n = Len(q)
  BY <1>1
<1>4. n >= 2
  BY <1>1, <1>3
<1> QED BY <1>2, <1>3, <1>4

(* A row of the linen, as it is, that was in the queue or is published: it   *)
(* is in the queue, or the clock it came with is still ahead of the screen.  *)
LEMMA HeardOrTold ==
  ASSUME TypeOK, NEW s \in Slots, Publish(s), NEW v \in Screens, NEW l \in Linens,
         <<v, l>> \notin missed',
         NEW m \in ToSet(Events(request[s])) \cup ToSet(conns[v].queue),
         m.linen = l, m.row = docs[l], m.type = "event", m.clock <= clock
  PROVE  Settled(v, l)'
<1>1. PICK ms \in Seq(Frame) : ms = Events(request[s])
  BY EventsFacts, RequestType
<1>2. PICK b \in Connection : b = conns[v] /\ b.queue \in Seq(Frame)
  BY ScreenTypes
<1>3. PICK c : c = conns'[v]
  OBVIOUS
<1>4. /\ c = Offered(b, ms) /\ Stage(b, ms, c) /\ l \notin Unheard(v, ms)
      /\ UNCHANGED <<docs, clock, screens>>
  <2>1. {v} \X Unheard(v, ms) \subseteq missed'
    BY <1>1, PublishSteps
  <2> QED BY <1>1, <1>2, <1>3, <2>1, PublishSteps
<1>5. PICK sc \in Screen : sc = screens[v] /\ screens'[v] = sc
  BY <1>4, ScreenTypes
<1>6. c.queue \in Seq(Frame)
  BY <1>4 DEF Stage, Connection
<1>7. clock \in Nat /\ sc.seen \in Nat
  BY <1>5, AheadType DEF Screen
<1>8. m \in Frame
  <2>1. \A q \in Seq(Frame) : \A k \in ToSet(q) : k \in Frame
    BY DEF ToSet
  <2> QED BY <1>1, <1>2, <2>1
<1>9. CASE m \in ToSet(c.queue)
  BY <1>3, <1>4, <1>5, <1>6, <1>9, Settles
<1>10. CASE m \notin ToSet(c.queue)
  <2>1. \A x \in Clocks(v, c) : ~(x >= m.clock)
    BY <1>1, <1>2, <1>4, <1>10, UnheardFacts
  <2>2. sc.seen \in Clocks(v, c)
    BY <1>5 DEF Clocks
  <2>3. sc.seen < clock
    BY <1>7, <1>8, <2>1, <2>2, FrameFacts
  <2>4. ASSUME c.queue # <<>> PROVE Head(c.queue).clock < clock
    <3>1. PICK h \in Frame : h = Head(c.queue) /\ h = c.queue[1] /\ 1 \in DOMAIN c.queue
      BY <1>6, <2>4, HeadOf
    <3>2. h.clock \in Clocks(v, c)
      BY <3>1 DEF Clocks
    <3>3. h.clock \in Nat /\ m.clock \in Nat
      BY <1>8, FrameFacts
    <3> QED BY <1>7, <2>1, <3>1, <3>2, <3>3
  <2> QED BY <1>3, <1>4, <1>5, <1>6, <2>3, <2>4, Settles
<1> QED BY <1>9, <1>10

(* A linen none of whose rows are published. *)
LEMMA PublishOthers ==
  ASSUME TypeOK, Clocked, NEW s \in Slots, Publish(s), NEW v \in Screens, NEW l \in Linens,
         Opened(v), UpToDate(v, l), <<v, l>> \notin missed',
         \A m \in ToSet(Events(request[s])) : m.linen # l
  PROVE  UpToDate(v, l)'
<1>1. PICK ms \in Seq(Frame) : ms = Events(request[s])
  BY EventsFacts, RequestType
<1>2. PICK b \in Connection : b = conns[v] /\ Len(b.queue) <= QueueMax
  BY DEF TypeOK
<1>3. PICK c : c = conns'[v]
  OBVIOUS
<1>4. /\ c = Offered(b, ms) /\ Stage(b, ms, c) /\ l \notin Unheard(v, ms)
      /\ UNCHANGED <<docs, clock, screens>>
  <2>1. {v} \X Unheard(v, ms) \subseteq missed'
    BY <1>1, PublishSteps
  <2> QED BY <1>1, <1>2, <1>3, <2>1, PublishSteps
<1>5. PICK sc \in Screen : sc = screens[v] /\ screens'[v] = sc
  BY <1>4, ScreenTypes
<1>6. c \in Connection /\ c.queue \in Seq(Frame) /\ b.queue \in Seq(Frame)
  BY <1>4 DEF Stage, Connection
<1>7. clock \in Nat /\ sc.seen \in Nat
  BY <1>5, AheadType DEF Screen
<1>8. \A m \in ToSet(ms) : m.linen # l
  BY <1>1
<1>9. CASE c = b
  <2>1. Followed(v, l) => Followed(v, l)'
    BY <1>2, <1>3, <1>4, <1>9 DEF Followed, Awaiting, LastRow, NoRow, Current
  <2>2. Ahead(v)' = Ahead(v)
    BY <1>2, <1>3, <1>4, <1>9, AheadAfter DEF Ahead
  <2>3. Settled(v, l) => Settled(v, l)'
    BY <1>2, <1>3, <1>4, <1>9, <2>2 DEF Settled, Current
  <2> QED BY <1>2, <1>3, <1>9, <2>1, <2>3 DEF UpToDate
<1>10. CASE c # b
  <2>1. b.state \in {"greeted", "asking"} /\ b.channels # {} /\ c.state \in {b.state, "closed"}
    BY <1>2, <1>4, <1>10 DEF Stage, Opened, Connection
  <2>2. Followed(v, l)
    BY <1>2, <2>1 DEF UpToDate
  <2>3. NoRow(ms, l)
    BY <1>8 DEF NoRow, ToSet
  <2>4. ToSet(c.queue) \subseteq ToSet(b.queue) \cup ToSet(ms) \cup {End}
    BY <1>4 DEF Stage
  <2>5. End.linen # l
    BY EndFrame, LinensAssumption
  <2>6. NoRow(b.queue, l) => NoRow(c.queue, l)
    BY <1>8, <2>4, <2>5 DEF NoRow, ToSet
  <2>7. CASE c.state # "closed"
    <3>1. ASSUME LastRow(b.queue, l, docs[l]) PROVE LastRow(c.queue, l, docs[l])
      BY <1>2, <1>4, <2>3, <2>7, <3>1, OfferedKeeps
    <3>2. ASSUME Awaiting(v) PROVE Awaiting(v)'
      <4>1. \A i \in DOMAIN b.queue : i \in DOMAIN c.queue /\ c.queue[i] = b.queue[i]
        BY <1>4, <2>7 DEF Stage
      <4>2. /\ b.queue # <<>> /\ b.queue[1].type = "clock" /\ b.queue[1].clock > sc.seen
            /\ Len(b.queue) # 1 /\ b.queue[2].type # "event"
        BY <1>2, <1>5, <2>1, <3>2 DEF Awaiting
      <4>3. 1 \in DOMAIN b.queue /\ 2 \in DOMAIN b.queue
        BY <1>6, <4>2, TwoOf
      <4>4. 1 \in DOMAIN c.queue /\ 2 \in DOMAIN c.queue /\ c.queue[1] = b.queue[1]
            /\ c.queue[2] = b.queue[2]
        BY <4>1, <4>3
      <4>5. Len(c.queue) # 1 /\ c.queue # <<>>
        BY <1>6, <4>4
      <4> QED BY <1>3, <1>5, <4>2, <4>4, <4>5 DEF Awaiting
    <3>3. Current(screens[v].shows[l], l) => Current(screens[v].shows[l], l)'
      BY <1>4 DEF Current
    <3>4. Followed(v, l)'
      BY <1>2, <1>3, <1>4, <2>2, <2>6, <3>1, <3>2, <3>3 DEF Followed
    <3> QED BY <1>3, <2>1, <2>7, <3>4 DEF UpToDate
  <2>8. CASE c.state = "closed"
    <3>1. SUFFICES Settled(v, l)'
      BY <1>3, <2>8 DEF UpToDate
    <3>2. c.queue # <<>> => Head(c.queue) \in ToSet(c.queue) /\ Head(c.queue) \in Frame
      BY <1>6, HeadOf DEF ToSet
    <3>3. CASE LastRow(b.queue, l, docs[l])
      <4>1. PICK m : m \in ToSet(b.queue) /\ m.linen = l /\ m.row = docs[l] /\ m.type = "event"
                     /\ m.clock <= clock
        <5>1. PICK i \in DOMAIN b.queue : b.queue[i].linen = l /\ b.queue[i].row = docs[l]
          BY <3>3 DEF LastRow
        <5>2. b.queue[i].type = "event" /\ b.queue[i].clock <= clock
          <6>1. l # None
            BY LinensAssumption
          <6> QED BY <1>2, <5>1, <6>1 DEF Opened, Clocked
        <5> QED BY <5>1, <5>2 DEF ToSet
      <4> QED BY <1>1, <1>2, <4>1, HeardOrTold
    <3>4. CASE NoRow(b.queue, l) /\ Current(screens[v].shows[l], l)
      <4>1. NoRow(c.queue, l)
        BY <2>6, <3>4
      <4>2. c.queue # <<>> => Head(c.queue).linen # l
        BY <3>2, <4>1 DEF NoRow, ToSet
      <4> QED BY <1>3, <1>4, <1>5, <1>6, <3>4, <4>2, Settles
    <3>5. CASE Awaiting(v)
      <4>1. /\ b.queue # <<>> /\ b.queue[1].clock > sc.seen
            /\ Len(b.queue) # 1 /\ b.queue[2].type # "event"
        BY <1>2, <1>5, <2>1, <3>5 DEF Awaiting
      <4>2. Len(b.queue) >= 2 /\ 1 \in DOMAIN b.queue
        BY <1>6, <4>1, TwoOf
      <4>3. c.queue # <<>> /\ Head(c.queue) = b.queue[2]
        BY <1>4, <2>1, <2>8, <4>2 DEF Stage
      <4>4. b.queue[1].clock <= clock /\ b.queue[1].clock \in Nat
        <5>1. b.queue[1] \in Frame
          BY <1>6, <4>2
        <5> QED BY <1>2, <4>2, <5>1, FrameFacts DEF Clocked
      <4>5. sc.seen < clock
        BY <1>7, <4>1, <4>4
      <4> QED BY <1>3, <1>4, <1>5, <1>6, <4>1, <4>3, <4>5, Settles
    <3> QED BY <2>2, <1>2, <3>3, <3>4, <3>5 DEF Followed
  <2> QED BY <2>7, <2>8
<1> QED BY <1>9, <1>10

(* A linen whose row, as it is, is the last that is published of it. *)
LEMMA PublishOwn ==
  ASSUME TypeOK, Clocked, NEW s \in Slots, Publish(s), NEW v \in Screens, NEW l \in Linens,
         Opened(v), <<v, l>> \notin missed', LastRow(Events(request[s]), l, docs[l])
  PROVE  UpToDate(v, l)'
<1>1. PICK req \in Request : req = request[s] /\ req.clock <= clock
  BY RequestType DEF Clocked
<1>2. PICK ms \in Seq(Frame) : ms = Events(req)
  BY EventsFacts
<1>3. PICK b \in Connection : b = conns[v] /\ Len(b.queue) <= QueueMax
  BY DEF TypeOK
<1>4. PICK c : c = conns'[v]
  OBVIOUS
<1>5. /\ c = Offered(b, ms) /\ Stage(b, ms, c) /\ l \notin Unheard(v, ms)
      /\ UNCHANGED <<docs, clock, screens>>
  <2>1. {v} \X Unheard(v, ms) \subseteq missed'
    BY <1>1, <1>2, PublishSteps
  <2> QED BY <1>1, <1>2, <1>3, <1>4, <2>1, PublishSteps
<1>6. PICK i \in DOMAIN ms : ms[i].linen = l /\ ms[i].row = docs[l]
  BY <1>1, <1>2 DEF LastRow
<1>7. PICK m : m = ms[i] /\ m \in ToSet(ms)
  BY <1>6 DEF ToSet
<1>8. m.linen = l /\ m.row = docs[l] /\ m.type = "event" /\ m.clock <= clock
  BY <1>1, <1>2, <1>6, <1>7, EventsFacts
<1>9. b.state \in {"registered", "greeted", "asking"} =>
        \A j \in DOMAIN ms : ms[j].linen = l => Wants(b, ms[j])
  <2> SUFFICES ASSUME b.state \in {"registered", "greeted", "asking"}, NEW j \in DOMAIN ms,
                      ms[j].linen = l
               PROVE  Wants(b, ms[j])
    OBVIOUS
  <2>1. ms[j] \in ToSet(ms)
    BY DEF ToSet
  <2> QED BY <1>3, <1>5, <2>1, UnheardFacts
<1>10. c.state \in {b.state, "closed"} /\ b.state \in {"absent", "registered", "greeted", "asking", "closed"}
  BY <1>5 DEF Stage, Connection
<1>11. b.state # "registered"
  <2> SUFFICES ASSUME b.state = "registered" PROVE FALSE
    OBVIOUS
  <2>1. Wants(b, m)
    BY <1>6, <1>7, <1>9
  <2>2. b.channels = {}
    BY <1>3 DEF Opened
  <2> QED BY <2>1, <2>2 DEF Wants
<1>12. CASE c.state \in {"greeted", "asking"}
  <2>1. b.state \in {"greeted", "asking"} /\ c.state # "closed"
    BY <1>10, <1>12
  <2>2. LastRow(ms, l, docs[l])
    BY <1>1, <1>2
  <2>3. LastRow(c.queue, l, docs[l])
    <3>1. PICK r : r = docs[l]
      OBVIOUS
    <3> QED BY <1>3, <1>5, <1>9, <2>1, <2>2, <3>1, OfferedAdds
  <2>4. Followed(v, l)'
    BY <1>4, <1>5, <2>3 DEF Followed
  <2> QED BY <1>4, <1>12, <2>4 DEF UpToDate
<1>13. CASE c.state \notin {"greeted", "asking"}
  <2>1. m \in ToSet(Events(request[s])) \cup ToSet(conns[v].queue)
    BY <1>1, <1>2, <1>7
  <2>2. Settled(v, l)'
    BY <1>8, <2>1, HeardOrTold
  <2> QED BY <1>4, <1>13, <2>2 DEF UpToDate
<1> QED BY <1>12, <1>13

LEMMA FreshUpToDate ==
  ASSUME TypeOK, NEW v \in Screens, NEW l \in Linens, Fresh(v, l)
  PROVE  UpToDate(v, l)
<1>1. NoRow(conns[v].queue, l) /\ Current(screens[v].shows[l], l)
  BY DEF Fresh
<1>2. Followed(v, l)
  BY <1>1 DEF Followed
<1>3. Current(Ahead(v).shows[l], l)
  <2>1. CASE conns[v].queue = <<>>
    BY <1>1, <2>1 DEF Ahead
  <2>2. CASE conns[v].queue # <<>>
    <3>1. PICK m \in Frame : m = Head(conns[v].queue) /\ m.linen # l
      <4>1. PICK q \in Seq(Frame) : q = conns[v].queue
        BY ScreenTypes
      <4>2. Head(q) \in Frame /\ Head(q) = q[1] /\ 1 \in DOMAIN q
        BY <2>2, <4>1, HeadOf
      <4> QED BY <1>1, <4>1, <4>2 DEF NoRow
    <3>2. PICK sc \in Screen : sc = screens[v]
      BY ScreenTypes
    <3>3. Ahead(v) = Shown(sc, m)
      BY <2>2, <3>1, <3>2 DEF Ahead
    <3>4. m.type \in {"event", "clock", "reply", "end"}
      BY FrameFacts
    <3> QED BY <1>1, <3>1, <3>2, <3>3, <3>4, ShownFacts DEF Current
  <2> QED BY <2>1, <2>2
<1> QED BY <1>2, <1>3 DEF UpToDate, Settled

(* A screen that is fresh stays so, when no row of the linen is published. *)
LEMMA PublishFresh ==
  ASSUME TypeOK, NEW s \in Slots, Publish(s), NEW v \in Screens, NEW l \in Linens,
         Fresh(v, l), \A m \in ToSet(Events(request[s])) : m.linen # l
  PROVE  Fresh(v, l)'
<1>1. UNCHANGED <<docs, screens>> /\ Stage(conns[v], Events(request[s]), conns'[v])
  BY PublishSteps
<1>2. ToSet(conns'[v].queue) \subseteq ToSet(conns[v].queue) \cup ToSet(Events(request[s])) \cup {End}
  BY <1>1 DEF Stage
<1>3. End.linen # l
  BY EndFrame, LinensAssumption
<1>4. NoRow(conns'[v].queue, l)
  BY <1>2, <1>3 DEF Fresh, NoRow, ToSet
<1> QED BY <1>1, <1>4 DEF Fresh, Current

(* Which linens a publication is about. *)
LEMMA PublishedTouched ==
  ASSUME TypeOK, NEW s \in Slots, NEW m \in ToSet(Events(request[s])), NEW l \in Linens, m.linen = l
  PROVE  /\ l \in Touched(s) /\ request[s].kind # "bulkCreate"
         /\ \E j \in DOMAIN request[s].done : request[s].done[j].linen = l
<1>1. l # None /\ request[s] \in Request
  BY RequestType, LinensAssumption
<1>2. /\ request[s].kind # "bulkCreate"
      /\ \E j \in DOMAIN request[s].done : request[s].done[j].linen = l
  BY <1>1, EventsFacts
<1> QED BY <1>2, InTouched

LEMMA PublishScreened ==
  ASSUME TypeOK, Clocked, NEW s \in Slots, Shaped(request[s]), Born(s), Publishes(s), Apart,
         \A v \in Screens : Opened(v), Screened, Publish(s)
  PROVE  Screened'
<1>1. /\ request[s].pc = "publish" /\ request'[s] = IdleRequest /\ missed \subseteq missed'
      /\ \A t \in Slots \ {s} : request'[t] = request[t]
      /\ UNCHANGED <<docs, clock, washed, screens, started, disturbed>>
  BY PublishSteps
<1>2. Touched(s)' = {}
  BY <1>1, TouchedIs, IdleTouches
<1>3. \A t \in Slots \ {s} : Touched(t)' = Touched(t)
  BY <1>1 DEF Touched, InHand
<1>4. SUFFICES ASSUME NEW v \in Screens, NEW l \in Linens
      PROVE  /\ docs[l] = Unborn => Fresh(v, l)'
             /\ l \notin disturbed
                  /\ (\E t \in Slots : request'[t].kind = "bulkCreate" /\ l \in Touched(t)')
                  => Fresh(v, l)'
             /\ l \notin disturbed /\ <<v, l>> \notin missed' /\ (\A t \in Slots : l \notin Touched(t)')
                  => UpToDate(v, l)'
  BY <1>1 DEF Screened
<1>5. ASSUME docs[l] = Unborn PROVE Fresh(v, l)'
  <2>1. Fresh(v, l)
    BY <1>5 DEF Screened
  <2>2. \A m \in ToSet(Events(request[s])) : m.linen # l
    BY <1>5, PublishedTouched DEF Born
  <2> QED BY <2>1, <2>2, PublishFresh
<1>6. ASSUME l \notin disturbed, NEW t \in Slots, request'[t].kind = "bulkCreate", l \in Touched(t)'
      PROVE  Fresh(v, l)'
  <2>1. t # s /\ request[t].kind = "bulkCreate" /\ l \in Touched(t)
    BY <1>1, <1>2, <1>3, <1>6
  <2>2. Fresh(v, l)
    BY <1>6, <2>1 DEF Screened
  <2>3. l \notin Touched(s)
    BY <1>6, <2>1 DEF Apart
  <2>4. \A m \in ToSet(Events(request[s])) : m.linen # l
    BY <2>3, PublishedTouched
  <2> QED BY <2>2, <2>4, PublishFresh
<1>7. ASSUME l \notin disturbed, <<v, l>> \notin missed', \A t \in Slots : l \notin Touched(t)'
      PROVE  UpToDate(v, l)'
  <2>1. \A t \in Slots \ {s} : l \notin Touched(t)
    BY <1>3, <1>7
  <2>2. <<v, l>> \notin missed
    BY <1>1, <1>7
  <2>3. CASE l \notin Touched(s)
    <3>1. UpToDate(v, l)
      BY <1>7, <2>1, <2>2, <2>3 DEF Screened
    <3>2. \A m \in ToSet(Events(request[s])) : m.linen # l
      BY <2>3, PublishedTouched
    <3> QED BY <1>7, <3>1, <3>2, PublishOthers
  <2>4. CASE l \in Touched(s) /\ request[s].kind = "bulkCreate"
    <3>1. UpToDate(v, l)
      BY <1>7, <2>4, FreshUpToDate DEF Screened
    <3>2. \A m \in ToSet(Events(request[s])) : m.linen # l
      BY <2>4, PublishedTouched
    <3> QED BY <1>7, <3>1, <3>2, PublishOthers
  <2>5. CASE l \in Touched(s) /\ request[s].kind # "bulkCreate"
    <3>1. \E j \in DOMAIN request[s].done : request[s].done[j].linen = l
      BY <1>1, <2>5 DEF Touched
    <3>2. LastRow(request[s].done, l, docs[l])
      BY <1>1, <1>7, <3>1 DEF Publishes, NoRow
    <3>3. LastRow(Events(request[s]), l, docs[l])
      BY <2>5, <3>2, EventsFacts, RequestType
    <3> QED BY <1>7, <3>3, PublishOwn
  <2> QED BY <2>3, <2>4, <2>5
<1> QED BY <1>5, <1>6, <1>7

LEMMA PublishTypeOK ==
  ASSUME TypeOK, NEW s \in Slots, Publish(s)
  PROVE  TypeOK'
<1>1. /\ request' = [request EXCEPT ![s] = IdleRequest]
      /\ UNCHANGED <<docs, clock, washed, screens, started, disturbed>>
      /\ conns' \in [Screens -> Connection] /\ missed' \subseteq Screens \X Linens
  BY PublishSteps
<1>2. request' \in [Slots -> Request]
  BY <1>1, Idle DEF TypeOK
<1>3. ASSUME NEW v \in Screens
      PROVE Len(conns'[v].queue) <= QueueMax /\ Cardinality(conns'[v].channels) <= MaxChannels
  <2>1. Stage(conns[v], Events(request[s]), conns'[v])
    BY PublishSteps
  <2>2. Len(conns'[v].queue) <= QueueMax /\ conns'[v].channels = conns[v].channels
    BY <2>1 DEF Stage
  <2> QED BY <2>2 DEF TypeOK
<1> QED BY <1>1, <1>2, <1>3 DEF TypeOK

LEMMA IdleHolds ==
  ASSUME NEW s \in Slots, request'[s] = IdleRequest
  PROVE  Born(s)' /\ Holds(s)' /\ Publishes(s)' /\ Touched(s)' = {} /\ Shaped(request'[s])
<1>1. DOMAIN IdleRequest.done = {}
  BY Idle
<1>2. Touched(s)' = {}
  BY TouchedIs, IdleTouches
<1>3. Born(s)' /\ Holds(s)'
  BY <1>1, Idle DEF Born, Holds, AtHand
<1>4. Publishes(s)'
  BY Idle, NoRowOfNone DEF Publishes
<1> QED BY <1>2, <1>3, <1>4, Idle

LEMMA PublishRequests ==
  ASSUME TypeOK, NEW s \in Slots, Publish(s), Apart, Washed, WashesCounted,
         \A t \in Slots : Shaped(request[t]) /\ Born(t) /\ Holds(t) /\ Publishes(t)
  PROVE  /\ \A t \in Slots : Shaped(request'[t]) /\ Born(t)' /\ Holds(t)' /\ Publishes(t)'
         /\ Apart' /\ Washed' /\ WashesCounted'
<1>1. /\ request[s].pc = "publish" /\ request'[s] = IdleRequest
      /\ \A t \in Slots \ {s} : request'[t] = request[t]
      /\ UNCHANGED <<docs, clock, washed, screens, started, disturbed>>
  BY PublishSteps
<1>2. Born(s)' /\ Holds(s)' /\ Publishes(s)' /\ Touched(s)' = {} /\ Shaped(request'[s])
  BY <1>1, IdleHolds
<1>3. \A t \in Slots \ {s} : InHand(t)' = InHand(t) /\ Touched(t)' = Touched(t)
  BY <1>1 DEF Touched, InHand
<1>4. ASSUME NEW t \in Slots \ {s}
      PROVE  Shaped(request'[t]) /\ Born(t)' /\ Holds(t)' /\ Publishes(t)'
  <2>1. Shaped(request[t]) /\ Born(t) /\ Holds(t) /\ Publishes(t) /\ request'[t] = request[t]
        /\ InHand(t)' = InHand(t)
    BY <1>1, <1>3
  <2>2. Born(t)'
    BY <1>1, <2>1 DEF Born
  <2>3. Holds(t)'
    BY <1>1, <2>1 DEF Holds, Exists
  <2>4. Publishes(t)'
    BY <1>1, <2>1 DEF Publishes
  <2> QED BY <2>1, <2>2, <2>3, <2>4
<1>5. request'[s].pc = "idle"
  BY <1>1, Idle
<1>6. Apart'
  BY <1>1, <1>2, <1>3, <1>5 DEF Apart
<1>7. Washed'
  BY <1>1 DEF Washed
<1>8. ASSUME NEW l PROVE Unrecorded(l)' = Unrecorded(l)
  BY <1>1, <1>3, <1>5 DEF Unrecorded
<1>9. WashesCounted'
  BY <1>1, <1>8 DEF WashesCounted, Exists
<1> QED BY <1>2, <1>4, <1>6, <1>7, <1>9

LEMMA PublishClocked ==
  ASSUME TypeOK, NEW s \in Slots, Publish(s), Clocked, \A v \in Screens : Opened(v)
  PROVE  Clocked' /\ \A v \in Screens : Opened(v)'
<1>1. /\ request[s].pc = "publish" /\ request'[s] = IdleRequest
      /\ \A t \in Slots \ {s} : request'[t] = request[t]
      /\ UNCHANGED <<docs, clock, washed, screens, started, disturbed>>
      /\ \A v \in Screens : Stage(conns[v], Events(request[s]), conns'[v])
  BY PublishSteps
<1>2. clock \in Nat
  BY AheadType, LinensAssumption DEF TypeOK
<1>3. Unclocked' = Unclocked
  BY <1>1, Idle DEF Unclocked
<1>4. \A t \in Slots : request'[t].clock <= clock
  BY <1>1, <1>2, Idle DEF Clocked
<1>5. \A m \in ToSet(Events(request[s])) : m.type = "event" /\ m.clock <= clock
  <2>1. request[s].clock <= clock
    BY DEF Clocked
  <2> QED BY <2>1, EventsFacts, RequestType
<1>6. ASSUME NEW v \in Screens
      PROVE  /\ conns'[v].asked <= clock
             /\ \A i \in DOMAIN conns'[v].queue :
                  /\ conns'[v].queue[i].clock <= clock
                  /\ conns'[v].queue[i].linen # None => conns'[v].queue[i].type = "event"
             /\ Opened(v)'
  <2>1. PICK b : b = conns[v]
    OBVIOUS
  <2>2. PICK c : c = conns'[v]
    OBVIOUS
  <2>3. Stage(b, Events(request[s]), c)
    BY <1>1, <2>1, <2>2
  <2>4. c.asked <= clock
    <3>1. b.asked <= clock
      BY <2>1 DEF Clocked
    <3> QED BY <1>2, <2>3, <3>1 DEF Stage
  <2>5. \A m \in ToSet(c.queue) : m.clock <= clock /\ (m.linen # None => m.type = "event")
    <3>1. \A m \in ToSet(b.queue) : m.clock <= clock /\ (m.linen # None => m.type = "event")
      BY <2>1 DEF ToSet, Clocked, Opened
    <3>2. End.clock <= clock /\ End.linen = None
      BY <1>2, EndFrame
    <3> QED BY <1>5, <2>3, <3>1, <3>2 DEF Stage
  <2>6. \A i \in DOMAIN c.queue :
          c.queue[i].clock <= clock /\ (c.queue[i].linen # None => c.queue[i].type = "event")
    BY <2>5 DEF ToSet
  <2>7. c.state = "absent" => c = NoConnection
    BY <2>1, <2>3 DEF Stage, Opened
  <2>8. c.state = "registered" => c.queue = <<>> /\ c.channels = {}
    BY <2>1, <2>3 DEF Stage, Opened
  <2>9. Opened(v)'
    BY <2>2, <2>6, <2>7, <2>8 DEF Opened
  <2> QED BY <2>2, <2>4, <2>6, <2>9
<1>7. clock' + Cardinality(Unclocked') <= started'
  BY <1>1, <1>3 DEF Clocked
<1> QED BY <1>1, <1>4, <1>6, <1>7 DEF Clocked

-----------------------------------------------------------------------------
(* Steps of a connection leave requests, linens and their clock alone. *)
LEMMA HubRequests ==
  ASSUME HubStep, \A t \in Slots : Shaped(request[t]) /\ Born(t) /\ Holds(t) /\ Publishes(t),
         Apart, Washed, WashesCounted
  PROVE  /\ \A t \in Slots : Shaped(request'[t]) /\ Born(t)' /\ Holds(t)' /\ Publishes(t)'
         /\ Apart' /\ Washed' /\ WashesCounted'
<1>1. UNCHANGED <<docs, clock, washed, request, started, disturbed>>
  BY DEF HubStep
<1>2. \A t \in Slots : InHand(t)' = InHand(t) /\ Touched(t)' = Touched(t)
  BY <1>1 DEF Touched, InHand
<1>3. \A t \in Slots : Shaped(request'[t]) /\ Born(t)' /\ Publishes(t)'
  BY <1>1, <1>2 DEF Born, Publishes
<1>4. \A t \in Slots : Holds(t)'
  BY <1>1, <1>2 DEF Holds, Exists
<1>5. Apart' /\ Washed'
  BY <1>1, <1>2 DEF Apart, Washed
<1>6. \A l : Unrecorded(l)' = Unrecorded(l)
  BY <1>1, <1>2 DEF Unrecorded
<1>7. WashesCounted'
  BY <1>1, <1>6 DEF WashesCounted, Exists
<1> QED BY <1>3, <1>4, <1>5, <1>7

(* What a step of the connection of `v` has to leave. *)
Sound(v) ==
  /\ conns'[v] \in Connection /\ screens'[v] \in Screen
  /\ Len(conns'[v].queue) <= QueueMax /\ Cardinality(conns'[v].channels) <= MaxChannels
  /\ conns'[v].asked <= clock
  /\ \A i \in DOMAIN conns'[v].queue : conns'[v].queue[i].clock <= clock
  /\ Opened(v)'
  /\ \A l \in Linens : Fresh(v, l) => Fresh(v, l)'
  /\ \A l \in Linens : <<v, l>> \notin missed' /\ (<<v, l>> \notin missed => UpToDate(v, l))
                         => UpToDate(v, l)'

(* ... and of the other screens. *)
Alone(v) ==
  \A w \in Screens \ {v} :
    /\ conns'[w] = conns[w] /\ screens'[w] = screens[w]
    /\ \A l \in Linens : <<w, l>> \in missed => <<w, l>> \in missed'

LEMMA HubKept ==
  ASSUME LinensInv, HubStep, NEW v \in Screens, Sound(v), Alone(v),
         conns' = [conns EXCEPT ![v] = conns'[v]], screens' = [screens EXCEPT ![v] = screens'[v]],
         missed' \subseteq Screens \X Linens
  PROVE  LinensInv'
<1>1. UNCHANGED <<docs, clock, washed, request, started, disturbed>>
  BY DEF HubStep
<1>2. /\ TypeOK /\ Clocked /\ Screened /\ \A w \in Screens : Opened(w)
  BY DEF LinensInv
<1>3. TypeOK'
  <2>1. conns' \in [Screens -> Connection] /\ screens' \in [Screens -> Screen]
    BY <1>2 DEF TypeOK, Sound
  <2>2. \A w \in Screens : Len(conns'[w].queue) <= QueueMax
                           /\ Cardinality(conns'[w].channels) <= MaxChannels
    BY <1>2 DEF TypeOK, Sound, Alone
  <2> QED BY <1>1, <1>2, <2>1, <2>2 DEF TypeOK
<1>4. Clocked'
  <2>1. Unclocked' = Unclocked
    BY <1>1 DEF Unclocked
  <2>2. \A w \in Screens : /\ conns'[w].asked <= clock
                           /\ \A i \in DOMAIN conns'[w].queue : conns'[w].queue[i].clock <= clock
    BY <1>2 DEF Clocked, Sound, Alone
  <2> QED BY <1>1, <1>2, <2>1, <2>2 DEF Clocked
<1>5. \A w \in Screens : Opened(w)'
  BY <1>2 DEF Opened, Sound, Alone
<1>6. \A t \in Slots : Touched(t)' = Touched(t)
  BY <1>1 DEF Touched, InHand
<1>7. ASSUME NEW w \in Screens, NEW l \in Linens
      PROVE  /\ Fresh(w, l) => Fresh(w, l)'
             /\ <<w, l>> \notin missed' /\ (<<w, l>> \notin missed => UpToDate(w, l))
                         => UpToDate(w, l)'
  <2>1. CASE w = v
    BY <2>1 DEF Sound
  <2>2. CASE w # v
    <3>1. conns'[w] = conns[w] /\ screens'[w] = screens[w] /\ docs' = docs /\ clock' = clock
          /\ (<<w, l>> \notin missed' => <<w, l>> \notin missed)
      BY <1>1, <2>2 DEF Alone
    <3>2. Fresh(w, l) => Fresh(w, l)'
      BY <3>1 DEF Fresh, Current
    <3>3. Followed(w, l) => Followed(w, l)'
      BY <3>1 DEF Followed, Awaiting, Current
    <3>4. Ahead(w)' = Ahead(w)
      BY <3>1, AheadAfter DEF Ahead
    <3>5. Settled(w, l) => Settled(w, l)'
      BY <3>1, <3>4 DEF Settled, Current
    <3> QED BY <3>1, <3>2, <3>3, <3>5 DEF UpToDate
  <2> QED BY <2>1, <2>2
<1>8. Screened'
  <2> SUFFICES ASSUME NEW w \in Screens, NEW l \in Linens
      PROVE  /\ docs[l] = Unborn => Fresh(w, l)'
             /\ l \notin disturbed
                  /\ (\E t \in Slots : request[t].kind = "bulkCreate" /\ l \in Touched(t))
                  => Fresh(w, l)'
             /\ l \notin disturbed /\ <<w, l>> \notin missed' /\ (\A t \in Slots : l \notin Touched(t))
                  => UpToDate(w, l)'
    BY <1>1, <1>6 DEF Screened
  <2> QED BY <1>2, <1>7 DEF Screened
<1> QED BY <1>3, <1>4, <1>5, <1>8, HubRequests DEF LinensInv

-----------------------------------------------------------------------------
LEMMA Bounds ==
  QueueMax \in Nat /\ QueueMax >= 1 /\ MaxChannels \in Nat /\ MaxChannels >= 1
  BY LinensAssumption

LEMMA NoConnectionFacts ==
  /\ NoConnection \in Connection /\ NoConnection.state = "absent" /\ NoConnection.queue = <<>>
  /\ NoConnection.channels = {} /\ NoConnection.asked = 0
  /\ Len(NoConnection.queue) <= QueueMax /\ Cardinality(NoConnection.channels) <= MaxChannels
<1>1. NoConnection.queue = <<>> /\ NoConnection.channels = {} /\ NoConnection.state = "absent"
      /\ NoConnection.asked = 0
  BY DEF NoConnection
<1>2. <<>> \in Seq(Frame) /\ Len(<<>>) = 0
  OBVIOUS
<1>3. NoConnection \in Connection
  BY <1>2 DEF NoConnection, Connection
<1> QED BY <1>1, <1>2, <1>3, Bounds, NoneUnrecorded

(* What is thrown away without the screen having seen its clock. *)
LEMMA DiscardedFacts ==
  ASSUME NEW v, NEW ms, NEW seen, NEW l \in Linens, <<v, l>> \notin Discarded(v, ms, seen),
         NEW m \in ToSet(ms), m.linen = l
  PROVE  ~(m.clock <= seen)
<1>1. l # None
  BY LinensAssumption
<1> QED BY <1>1 DEF Discarded

LEMMA DiscardedType ==
  ASSUME NEW v \in Screens, NEW ms \in Seq(Frame), NEW seen
  PROVE  Discarded(v, ms, seen) \subseteq Screens \X Linens
<1>1. \A m \in ToSet(ms) : m \in Frame
  BY DEF ToSet
<1>2. \A m \in ToSet(ms) : m.linen # None => m.linen \in Linens
  BY <1>1, FrameFacts
<1> QED BY <1>2 DEF Discarded

(* A connection that ends: what the screen does not know of, the clock tells. *)
LEMMA EndedSettles ==
  ASSUME TypeOK, Clocked, NEW v \in Screens, Opened(v), NEW l \in Linens, UpToDate(v, l),
         UNCHANGED <<docs, clock>>, screens'[v] = screens[v], conns'[v] = NoConnection,
         <<v, l>> \notin Discarded(v, conns[v].queue, screens[v].seen)
  PROVE  UpToDate(v, l)'
<1>1. PICK sc \in Screen : sc = screens[v] /\ screens'[v] = sc
  BY ScreenTypes
<1>2. PICK q \in Seq(Frame) : q = conns[v].queue
  BY ScreenTypes
<1>3. clock \in Nat /\ sc.seen \in Nat /\ l # None
  BY <1>1, AheadType, LinensAssumption DEF Screen
<1>4. /\ \A i \in DOMAIN q : q[i].clock <= clock /\ (q[i].linen # None => q[i].type = "event")
      /\ \A i \in DOMAIN q : q[i].clock \in Nat
  <2>1. \A i \in DOMAIN q : q[i] \in Frame
    BY Element
  <2> QED BY <1>2, <2>1, FrameFacts DEF Clocked, Opened
<1>5. \A i \in DOMAIN q : q[i].linen = l => sc.seen < clock
  <2> SUFFICES ASSUME NEW i \in DOMAIN q, q[i].linen = l PROVE sc.seen < clock
    OBVIOUS
  <2>1. q[i] \in ToSet(q)
    BY DEF ToSet
  <2>2. ~(q[i].clock <= sc.seen)
    BY <1>1, <1>2, <2>1, DiscardedFacts
  <2> QED BY <1>3, <1>4, <2>2
<1>6. SUFFICES Current(sc.shows[l], l) \/ sc.seen < clock
  <2>1. conns'[v].queue = <<>> /\ conns'[v].state = "absent" /\ <<>> \in Seq(Frame)
    BY NoConnectionFacts
  <2>2. Settled(v, l)'
    BY <1>1, <1>6, <2>1, Settles
  <2> QED BY <2>1, <2>2 DEF UpToDate
<1>7. CASE Followed(v, l)
  <2>1. CASE LastRow(q, l, docs[l])
    BY <1>5, <2>1 DEF LastRow
  <2>2. CASE Current(screens[v].shows[l], l)
    BY <1>1, <2>2
  <2>3. CASE Awaiting(v)
    <3>1. q # <<>> /\ q[1].clock > sc.seen
      BY <1>1, <1>2, <2>3 DEF Awaiting
    <3>2. 1 \in DOMAIN q
      BY <3>1, HeadOf
    <3> QED BY <1>3, <1>4, <3>1, <3>2
  <2> QED BY <1>2, <1>7, <2>1, <2>2, <2>3 DEF Followed
<1>8. CASE Settled(v, l)
  <2>1. CASE Current(Ahead(v).shows[l], l)
    <3>1. CASE q = <<>>
      BY <1>1, <1>2, <2>1, <3>1 DEF Ahead
    <3>2. CASE q # <<>>
      <4>1. PICK m \in Frame : m = Head(q) /\ m = q[1] /\ 1 \in DOMAIN q
        BY <3>2, HeadOf
      <4>2. Ahead(v) = Shown(sc, m)
        BY <1>1, <1>2, <3>2, <4>1 DEF Ahead
      <4>3. m.clock <= clock /\ m.clock \in Nat
        BY <1>4, <4>1
      <4>4. CASE m.type = "event" /\ m.linen = l
        BY <1>5, <4>1, <4>4
      <4>5. CASE m.type = "event" /\ m.linen # l
        BY <2>1, <4>2, <4>5, ShownFacts
      <4>6. CASE m.type = "clock" /\ m.clock > sc.seen
        BY <1>3, <4>3, <4>6
      <4>7. CASE m.type # "event" /\ ~(m.type = "clock" /\ m.clock > sc.seen)
        BY <2>1, <4>2, <4>7, ShownFacts
      <4> QED BY <4>4, <4>5, <4>6, <4>7
    <3> QED BY <3>1, <3>2
  <2>2. CASE screens[v].seen < clock
    BY <1>1, <2>2
  <2>3. CASE \E i \in DOMAIN q : i > 1 /\ q[i].linen = l
    BY <1>5, <2>3
  <2> QED BY <1>2, <1>8, <2>1, <2>2, <2>3 DEF Settled
<1> QED BY <1>7, <1>8 DEF UpToDate

LEMMA EndedFresh ==
  ASSUME NEW v \in Screens, NEW l, Fresh(v, l),
         docs' = docs, screens'[v] = screens[v], conns'[v] = NoConnection
  PROVE  Fresh(v, l)'
  BY NoConnectionFacts, NoRowOfNone DEF Fresh, Current

LEMMA EndedKept ==
  ASSUME LinensInv, HubStep, NEW v \in Screens, Ended(v)
  PROVE  LinensInv'
<1>1. /\ conns' = [conns EXCEPT ![v] = NoConnection] /\ screens' = screens
      /\ missed' = missed \cup Discarded(v, conns[v].queue, screens[v].seen)
      /\ UNCHANGED <<docs, clock>>
  BY DEF Ended, HubStep
<1>2. TypeOK /\ Clocked /\ Opened(v) /\ clock \in Nat
  BY AheadType DEF LinensInv
<1>3. conns'[v] = NoConnection /\ screens'[v] = screens[v] /\ screens[v] \in Screen
  BY <1>1, <1>2, ScreenTypes DEF TypeOK
<1>4. Alone(v)
  BY <1>1, <1>2 DEF Alone, TypeOK
<1>5. \A l \in Linens : Fresh(v, l) => Fresh(v, l)'
  BY <1>1, <1>3, EndedFresh
<1>6. ASSUME NEW l \in Linens, <<v, l>> \notin missed', <<v, l>> \notin missed => UpToDate(v, l)
      PROVE  UpToDate(v, l)'
  <2>1. <<v, l>> \notin missed /\ <<v, l>> \notin Discarded(v, conns[v].queue, screens[v].seen)
    BY <1>1, <1>6
  <2> QED BY <1>1, <1>2, <1>3, <1>6, <2>1, EndedSettles
<1>7. Opened(v)'
  BY <1>3, NoConnectionFacts DEF Opened
<1>8. Sound(v)
  BY <1>2, <1>3, <1>5, <1>6, <1>7, NoConnectionFacts DEF Sound
<1>9. missed' \subseteq Screens \X Linens
  BY <1>1, <1>2, ScreenTypes, DiscardedType DEF TypeOK
<1>10. screens' = [screens EXCEPT ![v] = screens'[v]]
       /\ conns' = [conns EXCEPT ![v] = conns'[v]]
  BY <1>1, <1>2, <1>3 DEF TypeOK
<1> QED BY <1>4, <1>8, <1>9, <1>10, HubKept

(* A step that throws nothing away. *)
LEMMA QuietKept ==
  ASSUME LinensInv, HubStep, UNCHANGED <<screens, missed>>, NEW v \in Screens,
         NEW c \in Connection, conns' = [conns EXCEPT ![v] = c],
         Len(c.queue) <= QueueMax, Cardinality(c.channels) <= MaxChannels, c.asked <= clock,
         \A i \in DOMAIN c.queue : c.queue[i].clock <= clock
                                   /\ (c.queue[i].linen # None => c.queue[i].type = "event"),
         c.state # "absent", c.state = "registered" => c.queue = <<>> /\ c.channels = {},
         \A l \in Linens : NoRow(conns[v].queue, l) => NoRow(c.queue, l),
         \A l \in Linens : UpToDate(v, l) => UpToDate(v, l)'
  PROVE  LinensInv'
<1>1. TypeOK /\ docs' = docs
  BY DEF LinensInv, HubStep
<1>2. conns'[v] = c /\ screens'[v] = screens[v] /\ screens[v] \in Screen
  BY <1>1, ScreenTypes DEF TypeOK
<1>3. Alone(v)
  BY <1>1 DEF Alone, TypeOK
<1>4. Opened(v)'
  BY <1>2 DEF Opened
<1>5. \A l \in Linens : Fresh(v, l) => Fresh(v, l)'
  BY <1>1, <1>2 DEF Fresh, Current
<1>6. Sound(v)
  BY <1>2, <1>4, <1>5 DEF Sound
<1>7. missed' \subseteq Screens \X Linens
  BY <1>1 DEF TypeOK
<1>8. screens' = [screens EXCEPT ![v] = screens'[v]]
      /\ conns' = [conns EXCEPT ![v] = conns'[v]]
  BY <1>1, <1>2 DEF TypeOK
<1> QED BY <1>3, <1>6, <1>7, <1>8, HubKept

LEMMA ConnectKept ==
  ASSUME LinensInv, NEW v \in Screens, Connect(v)
  PROVE  LinensInv'
<1>1. /\ HubStep /\ UNCHANGED <<screens, missed>> /\ conns[v].state = "absent"
      /\ conns' = [conns EXCEPT ![v].state = "registered"]
  BY DEF Connect
<1>2. TypeOK /\ conns[v] = NoConnection /\ clock \in Nat /\ docs' = docs /\ clock' = clock
  BY <1>1, AheadType DEF LinensInv, Opened, HubStep
<1>3. PICK c : c = [NoConnection EXCEPT !.state = "registered"]
  OBVIOUS
<1>4. /\ c \in Connection /\ c.state = "registered" /\ c.queue = <<>> /\ c.channels = {}
      /\ c.asked = 0
  BY <1>3, NoConnectionFacts DEF Connection
<1>5. conns' = [conns EXCEPT ![v] = c] /\ conns'[v] = c
  BY <1>1, <1>2, <1>3 DEF TypeOK
<1>6. ASSUME NEW l \in Linens, UpToDate(v, l) PROVE UpToDate(v, l)'
  <2>1. Settled(v, l)
    BY <1>1, <1>6 DEF UpToDate
  <2>2. Ahead(v)' = screens[v] /\ Ahead(v) = screens[v]
    BY <1>1, <1>2, <1>4, <1>5, NoConnectionFacts DEF Ahead
  <2>3. Settled(v, l)'
    BY <1>1, <1>2, <1>4, <1>5, <2>1, <2>2, NoConnectionFacts DEF Settled, Current
  <2> QED BY <1>4, <1>5, <2>3 DEF UpToDate
<1>7. Len(c.queue) <= QueueMax /\ Cardinality(c.channels) <= MaxChannels
  BY <1>4, NoConnectionFacts
<1>8. \A l : NoRow(c.queue, l)
  BY <1>4, NoRowOfNone
<1>9. DOMAIN c.queue = {}
  BY <1>4
<1>10. c.asked <= clock /\ c.state # "absent"
  BY <1>2, <1>4
<1> QED BY <1>10, <1>1, <1>4, <1>5, <1>6, <1>7, <1>8, <1>9, QuietKept

LEMMA ClockFacts ==
  ASSUME NEW n \in Nat
  PROVE  Clock(n) \in Frame /\ Clock(n).type = "clock" /\ Clock(n).linen = None
         /\ Clock(n).clock = n
  BY Rows DEF Clock, Event, Frame

LEMMA ReplyFacts ==
  Reply \in Frame /\ Reply.type = "reply" /\ Reply.linen = None /\ Reply.clock = 0
  BY Rows DEF Reply, Clock, Event, Frame

LEMMA GreetKept ==
  ASSUME LinensInv, NEW v \in Screens, Greet(v)
  PROVE  LinensInv'
<1>1. /\ HubStep /\ UNCHANGED <<screens, missed>> /\ conns[v].state = "registered"
      /\ conns' = [conns EXCEPT ![v].state = "greeted",
                                ![v].queue = Append(conns[v].queue, Clock(clock))]
  BY DEF Greet
<1>2. /\ TypeOK /\ conns[v].queue = <<>> /\ conns[v].channels = {} /\ clock \in Nat
      /\ docs' = docs /\ clock' = clock /\ conns[v].asked <= clock
  BY <1>1, AheadType DEF LinensInv, Opened, HubStep, Clocked
<1>3. PICK b \in Connection : b = conns[v]
  BY <1>2, ScreenTypes
<1>4. PICK m \in Frame : m = Clock(clock) /\ m.type = "clock" /\ m.linen = None /\ m.clock = clock
  BY <1>2, ClockFacts
<1>5. PICK c : c = [b EXCEPT !.state = "greeted", !.queue = <<m>>]
  OBVIOUS
<1>6. <<m>> \in Seq(Frame) /\ DOMAIN <<m>> = {1} /\ <<m>>[1] = m /\ Len(<<m>>) = 1 /\ <<m>> # <<>>
  OBVIOUS
<1>7. /\ c \in Connection /\ c.state = "greeted" /\ c.queue = <<m>> /\ c.channels = {}
      /\ c.asked = b.asked
  BY <1>2, <1>3, <1>5, <1>6 DEF Connection
<1>8. conns' = [conns EXCEPT ![v] = c] /\ conns'[v] = c
  <2>1. Append(conns[v].queue, Clock(clock)) = <<m>>
    BY <1>2, <1>4
  <2> QED BY <1>1, <1>2, <1>3, <1>5, <2>1 DEF TypeOK
<1>9. \A l \in Linens : NoRow(c.queue, l)
  BY <1>4, <1>6, <1>7, LinensAssumption DEF NoRow
<1>10. ASSUME NEW l \in Linens, UpToDate(v, l) PROVE UpToDate(v, l)'
  <2>1. Settled(v, l)
    BY <1>1, <1>10 DEF UpToDate
  <2>2. Ahead(v) = screens[v]
    BY <1>2 DEF Ahead
  <2>3. Current(screens[v].shows[l], l) \/ screens[v].seen < clock
    BY <1>2, <2>1, <2>2 DEF Settled
  <2>4. screens[v].seen < clock => Awaiting(v)'
    <3>1. screens[v].seen \in Nat
      BY <1>2, ScreenTypes
    <3> QED BY <1>1, <1>2, <1>4, <1>6, <1>7, <1>8, <3>1 DEF Awaiting
  <2>5. Followed(v, l)'
    BY <1>1, <1>2, <1>8, <1>9, <2>3, <2>4 DEF Followed, Current
  <2> QED BY <1>7, <1>8, <2>5 DEF UpToDate
<1>11. Len(c.queue) <= QueueMax /\ Cardinality(c.channels) <= MaxChannels /\ c.asked <= clock
  BY <1>2, <1>3, <1>6, <1>7, Bounds, NoneUnrecorded
<1>12. \A i \in DOMAIN c.queue : c.queue[i].clock <= clock
                                   /\ (c.queue[i].linen # None => c.queue[i].type = "event")
  BY <1>2, <1>4, <1>6, <1>7
<1> QED BY <1>1, <1>7, <1>8, <1>9, <1>10, <1>11, <1>12, QuietKept

LEMMA PingKept ==
  ASSUME LinensInv, NEW v \in Screens, Ping(v)
  PROVE  LinensInv'
<1>1. /\ HubStep /\ UNCHANGED <<screens, missed>> /\ conns[v].state = "greeted"
      /\ conns' = [conns EXCEPT ![v].state = "asking", ![v].asked = clock]
  BY DEF Ping
<1>2. /\ TypeOK /\ clock \in Nat /\ docs' = docs /\ clock' = clock /\ Clocked /\ Opened(v)
  BY <1>1, AheadType DEF LinensInv, HubStep
<1>3. PICK b \in Connection : b = conns[v]
  BY <1>2, ScreenTypes
<1>4. PICK c : c = [b EXCEPT !.state = "asking", !.asked = clock]
  OBVIOUS
<1>5. /\ c \in Connection /\ c.state = "asking" /\ c.queue = b.queue /\ c.channels = b.channels
      /\ c.asked = clock
  BY <1>2, <1>3, <1>4 DEF Connection
<1>6. conns' = [conns EXCEPT ![v] = c] /\ conns'[v] = c
  BY <1>1, <1>2, <1>3, <1>4 DEF TypeOK
<1>7. ASSUME NEW l \in Linens, UpToDate(v, l) PROVE UpToDate(v, l)'
  <2>1. Followed(v, l)
    BY <1>1, <1>7 DEF UpToDate
  <2>2. Followed(v, l)'
    BY <1>1, <1>2, <1>3, <1>5, <1>6, <2>1 DEF Followed, Current, Awaiting
  <2> QED BY <1>5, <1>6, <2>2 DEF UpToDate
<1>8. Len(c.queue) <= QueueMax /\ Cardinality(c.channels) <= MaxChannels /\ c.asked <= clock
  BY <1>2, <1>3, <1>5 DEF TypeOK
<1>9. \A i \in DOMAIN c.queue : c.queue[i].clock <= clock
                                   /\ (c.queue[i].linen # None => c.queue[i].type = "event")
  BY <1>2, <1>3, <1>5 DEF Clocked, Opened
<1> QED BY <1>1, <1>3, <1>5, <1>6, <1>7, <1>8, <1>9, QuietKept

(* An answer comes behind everything queued, and is no event. *)
LEMMA AnswerKept ==
  ASSUME LinensInv, NEW v \in Screens, conns[v].state \in {"greeted", "asking", "closed"},
         NEW channels \in SUBSET (Linens \cup {Laundry}), Cardinality(channels) <= MaxChannels,
         NEW frame \in Frame, frame.linen = None, frame.type # "event", frame.clock <= clock,
         Answer(v, channels, frame)
  PROVE  LinensInv'
<1>1. HubStep
  BY DEF Answer
<1>2. /\ TypeOK /\ clock \in Nat /\ docs' = docs /\ clock' = clock /\ Clocked /\ Opened(v)
  BY <1>1, AheadType DEF LinensInv, HubStep
<1>3. CASE Ended(v)
  BY <1>1, <1>3, EndedKept
<1>4. CASE /\ conns[v].state # "closed" /\ Len(conns[v].queue) # QueueMax
           /\ conns' = [conns EXCEPT ![v] =
                [conns[v] EXCEPT !.state = "greeted", !.channels = channels,
                          !.queue = Append(conns[v].queue, frame), !.asked = 0]]
           /\ UNCHANGED <<screens, missed>>
  <2>1. PICK b \in Connection : b = conns[v] /\ Len(b.queue) <= QueueMax
    BY <1>2 DEF TypeOK
  <2>2. PICK q \in Seq(Frame) : q = b.queue
    BY DEF Connection
  <2>3. PICK p \in Seq(Frame) : p = Append(q, frame)
    BY AppendFrame
  <2>4. /\ Len(p) = Len(q) + 1 /\ DOMAIN p = 1..(Len(q) + 1)
        /\ \A i \in DOMAIN q : i \in DOMAIN p /\ p[i] = q[i]
        /\ p[Len(q) + 1] = frame /\ ToSet(p) = ToSet(q) \cup {frame}
    BY <2>3, AppendFrame
  <2>5. PICK c : c = [b EXCEPT !.state = "greeted", !.channels = channels, !.queue = p, !.asked = 0]
    OBVIOUS
  <2>6. /\ c \in Connection /\ c.state = "greeted" /\ c.queue = p /\ c.channels = channels
        /\ c.asked = 0
    BY <2>5 DEF Connection
  <2>7. conns' = [conns EXCEPT ![v] = c] /\ conns'[v] = c
    BY <1>2, <1>4, <2>1, <2>2, <2>3, <2>5 DEF TypeOK
  <2>8. Len(p) <= QueueMax
    <3>1. PICK n \in Nat : n = Len(q)
      OBVIOUS
    <3> QED BY <1>4, <2>1, <2>2, <2>4, <3>1, Bounds
  <2>9. \A i \in DOMAIN p : p[i].clock <= clock /\ (p[i].linen # None => p[i].type = "event")
    <3>1. \A m \in ToSet(q) : m.clock <= clock /\ (m.linen # None => m.type = "event")
      BY <1>2, <2>1, <2>2 DEF ToSet, Clocked, Opened
    <3>2. \A i \in DOMAIN p : p[i] \in ToSet(p)
      BY DEF ToSet
    <3> QED BY <2>4, <3>1, <3>2
  <2>10. \A l \in Linens : /\ NoRow(q, l) => NoRow(p, l)
                           /\ \A r : LastRow(q, l, r) => LastRow(p, l, r)
    <3> SUFFICES ASSUME NEW l \in Linens
                 PROVE  /\ NoRow(q, l) => NoRow(p, l)
                        /\ \A r : LastRow(q, l, r) => LastRow(p, l, r)
      OBVIOUS
    <3>1. frame.linen # l
      BY LinensAssumption
    <3> QED BY <2>3, <3>1, AppendLast
  <2>11. ASSUME Awaiting(v) PROVE Awaiting(v)'
    <3>1. /\ q # <<>> /\ q[1].type = "clock" /\ q[1].clock > screens[v].seen
          /\ Len(q) # 1 => q[2].type # "event"
      BY <2>1, <2>2, <2>11 DEF Awaiting
    <3>2. 1 \in DOMAIN q /\ Len(q) \in Nat \ {0}
      BY <3>1, HeadOf
    <3>3. p[1] = q[1] /\ p # <<>> /\ Len(p) # 1
      BY <2>3, <2>4, <3>2
    <3>4. p[2].type # "event"
      <4>1. CASE Len(q) = 1
        BY <2>4, <4>1
      <4>2. CASE Len(q) # 1
        BY <2>4, <3>1, <4>2, TwoOf
      <4> QED BY <4>1, <4>2
    <3> QED BY <1>4, <2>6, <2>7, <3>1, <3>3, <3>4 DEF Awaiting
  <2>12. ASSUME NEW l \in Linens, UpToDate(v, l) PROVE UpToDate(v, l)'
    <3>1. conns[v].state \in {"greeted", "asking"}
      BY <1>4
    <3>2. Followed(v, l)
      BY <2>12, <3>1 DEF UpToDate
    <3>3. Followed(v, l)'
      BY <1>2, <1>4, <2>1, <2>2, <2>6, <2>7, <2>10, <2>11, <3>2 DEF Followed, Current
    <3> QED BY <2>6, <2>7, <3>3 DEF UpToDate
  <2>13. c.asked <= clock
    BY <1>2, <2>6
  <2> QED BY <1>1, <1>4, <2>1, <2>2, <2>6, <2>7, <2>8, <2>9, <2>10, <2>12, <2>13, QuietKept
<1> QED BY <1>3, <1>4 DEF Answer

LEMMA SubscribeKept ==
  ASSUME LinensInv, NEW v \in Screens, NEW ch \in Linens \cup {Laundry}, Subscribe(v, ch)
  PROVE  LinensInv'
<1>1. PICK old \in SUBSET (Linens \cup {Laundry}) : old = conns[v].channels
  BY ScreenTypes DEF LinensInv
<1>2. Cardinality(old) <= MaxChannels /\ clock \in Nat
  BY <1>1, AheadType DEF LinensInv, TypeOK
<1>3. PICK new : new = IF Cardinality(old) < MaxChannels THEN old \cup {ch} ELSE old
  OBVIOUS
<1>4. conns[v].state \in {"greeted", "closed"} /\ Answer(v, new, Reply)
  BY <1>1, <1>3 DEF Subscribe
<1>5. new \in SUBSET (Linens \cup {Laundry})
  BY <1>3
<1>6. Cardinality(new) <= MaxChannels
  <2>1. IsFiniteSet(Linens \cup {Laundry})
    BY LinensAssumption, FS_AddElement
  <2>2. IsFiniteSet(old)
    BY <2>1, FS_Subset
  <2>3. Cardinality(old) \in Nat
    BY <2>2, FS_CardinalityType
  <2>4. Cardinality(old \cup {ch}) = IF ch \in old THEN Cardinality(old) ELSE Cardinality(old) + 1
    BY <2>2, FS_AddElement
  <2> QED BY <1>2, <1>3, <2>3, <2>4, Bounds
<1>7. Reply \in Frame /\ Reply.linen = None /\ Reply.type # "event" /\ Reply.clock <= clock
  BY <1>2, ReplyFacts
<1> QED BY <1>4, <1>5, <1>6, <1>7, AnswerKept

LEMMA UnsubscribeKept ==
  ASSUME LinensInv, NEW v \in Screens, NEW ch \in Linens \cup {Laundry}, Unsubscribe(v, ch)
  PROVE  LinensInv'
<1>1. PICK old \in SUBSET (Linens \cup {Laundry}) : old = conns[v].channels
  BY ScreenTypes DEF LinensInv
<1>2. Cardinality(old) <= MaxChannels /\ clock \in Nat
  BY <1>1, AheadType DEF LinensInv, TypeOK
<1>3. PICK new \in SUBSET (Linens \cup {Laundry}) : new = old \ {ch}
  OBVIOUS
<1>4. conns[v].state \in {"greeted", "closed"} /\ Answer(v, new, Reply)
  BY <1>1, <1>3 DEF Unsubscribe
<1>5. Cardinality(new) <= MaxChannels
  <2>1. IsFiniteSet(Linens \cup {Laundry})
    BY LinensAssumption, FS_AddElement
  <2>2. IsFiniteSet(old)
    BY <2>1, FS_Subset
  <2>3. Cardinality(new) <= Cardinality(old) /\ Cardinality(new) \in Nat /\ Cardinality(old) \in Nat
    <3>1. new \subseteq old
      BY <1>3
    <3>2. IsFiniteSet(new) /\ Cardinality(new) <= Cardinality(old)
      BY <2>2, <3>1, FS_Subset
    <3> QED BY <2>2, <3>2, FS_CardinalityType
  <2> QED BY <1>2, <2>3, Bounds
<1>6. Reply \in Frame /\ Reply.linen = None /\ Reply.type # "event" /\ Reply.clock <= clock
  BY <1>2, ReplyFacts
<1> QED BY <1>4, <1>5, <1>6, AnswerKept

LEMMA PongKept ==
  ASSUME LinensInv, NEW v \in Screens, Pong(v)
  PROVE  LinensInv'
<1>1. /\ conns[v].state = "asking" /\ Answer(v, conns[v].channels, Clock(conns[v].asked))
  BY DEF Pong
<1>2. /\ conns[v].channels \in SUBSET (Linens \cup {Laundry}) /\ conns[v].asked \in Nat
      /\ Cardinality(conns[v].channels) <= MaxChannels /\ conns[v].asked <= clock
  BY ScreenTypes DEF LinensInv, TypeOK, Clocked
<1>3. PICK m \in Frame : /\ m = Clock(conns[v].asked) /\ m.linen = None /\ m.type # "event"
                         /\ m.clock <= clock
  BY <1>2, ClockFacts
<1> QED BY <1>1, <1>2, <1>3, AnswerKept

LEMMA DisconnectKept ==
  ASSUME LinensInv, NEW v \in Screens, Disconnect(v)
  PROVE  LinensInv'
  BY EndedKept DEF Disconnect

(* The oldest frame is taken from the queue. *)
LEMMA TailRows ==
  ASSUME NEW q \in Seq(Frame), q # <<>>, NEW l
  PROVE  /\ NoRow(q, l) => NoRow(Tail(q), l) /\ Head(q).linen # l
         /\ \A r : LastRow(q, l, r) =>
              \/ LastRow(Tail(q), l, r)
              \/ Head(q).linen = l /\ Head(q).row = r /\ NoRow(Tail(q), l)
         /\ \A i \in DOMAIN q : i > 1 => q[i] \in ToSet(Tail(q))
         /\ ToSet(Tail(q)) \subseteq ToSet(q)
<1>1. PICK p : p = Tail(q)
  OBVIOUS
<1>2. /\ 1 \in DOMAIN q /\ Head(q) = q[1]
      /\ \A i \in DOMAIN p : p[i] = q[i + 1] /\ i + 1 \in DOMAIN q
      /\ \A i \in DOMAIN q : i # 1 => i - 1 \in DOMAIN p /\ p[i - 1] = q[i]
      /\ p \in Seq(Frame)
  BY <1>1, HeadOf
<1>3. (\A i \in DOMAIN q : i \in Nat \ {0}) /\ (\A i \in DOMAIN p : i \in Nat \ {0})
  BY <1>2
<1>4. NoRow(q, l) => NoRow(p, l) /\ Head(q).linen # l
  BY <1>2 DEF NoRow
<1>5. ASSUME NEW r, LastRow(q, l, r)
      PROVE  LastRow(p, l, r) \/ (Head(q).linen = l /\ Head(q).row = r /\ NoRow(p, l))
  <2>1. PICK i \in DOMAIN q : /\ q[i].linen = l /\ q[i].row = r
                              /\ \A j \in DOMAIN q : j > i => q[j].linen # l
    BY <1>5 DEF LastRow
  <2>2. CASE i = 1
    <3>1. \A j \in DOMAIN p : p[j].linen # l
      <4> SUFFICES ASSUME NEW j \in DOMAIN p PROVE p[j].linen # l
        OBVIOUS
      <4>1. j + 1 \in DOMAIN q /\ j + 1 > i /\ p[j] = q[j + 1]
        BY <1>2, <1>3, <2>2
      <4> QED BY <2>1, <4>1
    <3> QED BY <1>2, <2>1, <2>2, <3>1 DEF NoRow
  <2>3. CASE i # 1
    <3>1. i - 1 \in DOMAIN p /\ p[i - 1] = q[i]
      BY <1>2, <2>3
    <3>2. \A j \in DOMAIN p : j > i - 1 => p[j].linen # l
      <4> SUFFICES ASSUME NEW j \in DOMAIN p, j > i - 1 PROVE p[j].linen # l
        OBVIOUS
      <4>1. j + 1 \in DOMAIN q /\ j + 1 > i /\ p[j] = q[j + 1]
        BY <1>2, <1>3
      <4> QED BY <2>1, <4>1
    <3> QED BY <2>1, <3>1, <3>2 DEF LastRow
  <2> QED BY <2>2, <2>3
<1>6. \A i \in DOMAIN q : i > 1 => q[i] \in ToSet(p)
  <2> SUFFICES ASSUME NEW i \in DOMAIN q, i > 1 PROVE q[i] \in ToSet(p)
    OBVIOUS
  <2>1. i - 1 \in DOMAIN p /\ p[i - 1] = q[i]
    BY <1>2
  <2> QED BY <2>1 DEF ToSet
<1>7. ToSet(p) \subseteq ToSet(q)
  BY <1>2 DEF ToSet
<1> QED BY <1>1, <1>4, <1>5, <1>6, <1>7

LEMMA PumpKept ==
  ASSUME LinensInv, NEW v \in Screens, Pump(v)
  PROVE  LinensInv'
<1>1. /\ TypeOK /\ Clocked /\ Opened(v) /\ clock \in Nat /\ HubStep
      /\ docs' = docs /\ clock' = clock /\ docs \in [Linens -> Row]
  BY AheadType DEF LinensInv, Pump, HubStep, TypeOK
<1>2. PICK c \in Connection : c = conns[v] /\ Len(c.queue) <= QueueMax
  BY <1>1 DEF TypeOK
<1>3. PICK q \in Seq(Frame) : q = c.queue /\ q # <<>>
  BY <1>2 DEF Connection, Pump
<1>4. PICK sc \in Screen : sc = screens[v]
  BY <1>1, ScreenTypes
<1>5. PICK m \in Frame : m = Head(q) /\ m = q[1] /\ 1 \in DOMAIN q
  BY <1>3, HeadOf
<1>6. PICK new \in Screen : new = Shown(sc, m)
  BY <1>1, ShownFacts
<1>7. PICK tail \in Seq(Frame) : tail = Tail(q) /\ Len(tail) = Len(q) - 1
  BY <1>3, HeadOf
<1>0. <<>> \in Seq(Frame)
  OBVIOUS
<1>8. PICK next \in Seq(Frame) : next = IF c.state = "closed" THEN <<>> ELSE tail
  <2>1. (IF c.state = "closed" THEN <<>> ELSE tail) \in Seq(Frame)
    BY <1>0, <1>7, Zenon
  <2> QED BY <2>1, Zenon
<1>9. PICK rest \in Seq(Frame) : rest = IF c.state = "closed" THEN tail ELSE <<>>
  <2>1. (IF c.state = "closed" THEN tail ELSE <<>>) \in Seq(Frame)
    BY <1>0, <1>7, Zenon
  <2> QED BY <2>1, Zenon
<1>10. PICK known : known = IF m.type = "clock" /\ m.clock > sc.seen
                 THEN {v} \X {l \in Linens : \A i \in DOMAIN next : next[i].linen # l} ELSE {}
  OBVIOUS
<1>11. /\ screens' = [screens EXCEPT ![v] = new]
       /\ conns' = [conns EXCEPT ![v].queue = next]
       /\ missed' = (missed \ known) \cup Discarded(v, rest, new.seen)
  BY <1>2, <1>3, <1>4, <1>5, <1>6, <1>7, <1>8, <1>9, <1>10 DEF Pump
<1>12. PICK d : d = [c EXCEPT !.queue = next]
  OBVIOUS
<1>13. /\ d \in Connection /\ d.queue = next /\ d.state = c.state /\ d.channels = c.channels
       /\ d.asked = c.asked
  BY <1>12 DEF Connection
<1>14. /\ conns' = [conns EXCEPT ![v] = d] /\ conns'[v] = d /\ screens'[v] = new
  BY <1>1, <1>2, <1>11, <1>12 DEF TypeOK
<1>15. c.state \in {"greeted", "asking", "closed"}
  <2>1. c.state # "absent"
    BY <1>1, <1>2, <1>3, NoConnectionFacts DEF Opened
  <2>2. c.state # "registered"
    BY <1>1, <1>2, <1>3 DEF Opened
  <2> QED BY <2>1, <2>2 DEF Connection
<1>16. /\ new.seen \in {sc.seen, m.clock}
       /\ m.type = "event" => \A l \in Linens :
            new.shows[l] = IF m.linen = l THEN m.row ELSE sc.shows[l]
       /\ m.type = "clock" /\ m.clock > sc.seen => new.shows = docs
       /\ m.type # "event" /\ ~(m.type = "clock" /\ m.clock > sc.seen) => new = sc
  BY <1>1, <1>6, ShownFacts
<1>17. \A k \in ToSet(q) : k \in Frame /\ k.clock <= clock /\ (k.linen # None => k.type = "event")
  <2>1. \A i \in DOMAIN q : q[i] \in Frame
    BY Element
  <2>2. \A i \in DOMAIN q : q[i].clock <= clock /\ (q[i].linen # None => q[i].type = "event")
    BY <1>1, <1>2, <1>3 DEF Clocked, Opened
  <2> QED BY <2>1, <2>2 DEF ToSet
<1>18. /\ ToSet(tail) \subseteq ToSet(q) /\ ToSet(next) \subseteq ToSet(q)
       /\ \A l : NoRow(q, l) => NoRow(next, l) /\ m.linen # l
  <2>1. ToSet(tail) \subseteq ToSet(q) /\ \A l : NoRow(q, l) => NoRow(tail, l) /\ m.linen # l
    BY <1>3, <1>5, <1>7, TailRows
  <2>2. ToSet(<<>>) = {} /\ \A l : NoRow(<<>>, l)
    BY NoRowOfNone DEF ToSet
  <2> QED BY <1>8, <2>1, <2>2
<1>19. new.seen \in Nat /\ sc.seen \in Nat /\ m.clock \in Nat
  BY FrameFacts DEF Screen
<1>20. ASSUME NEW l \in Linens, Current(sc.shows[l], l), m.linen # l
       PROVE  new.shows[l] \in {docs[l], Unborn}
  <2>1. CASE m.type = "event"
    BY <1>16, <1>20, <2>1 DEF Current
  <2>2. CASE m.type # "event"
    BY <1>16, <1>20, <2>2 DEF Current
  <2> QED BY <2>1, <2>2
<1>21. \A l \in Linens : Fresh(v, l) => Fresh(v, l)'
  <2> SUFFICES ASSUME NEW l \in Linens, Fresh(v, l) PROVE Fresh(v, l)'
    OBVIOUS
  <2>1. NoRow(q, l) /\ Current(sc.shows[l], l)
    BY <1>2, <1>3, <1>4 DEF Fresh
  <2>2. NoRow(next, l) /\ new.shows[l] \in {docs[l], Unborn}
    BY <1>18, <1>20, <2>1
  <2> QED BY <1>1, <1>13, <1>14, <2>2 DEF Fresh, Current
<1>22. ASSUME NEW l \in Linens, new.shows[l] \in {docs[l], Unborn}, NoRow(next, l)
       PROVE  UpToDate(v, l)'
  <2>1. CASE c.state # "closed"
    <3>1. Followed(v, l)'
      BY <1>1, <1>13, <1>14, <1>22 DEF Followed, Current
    <3> QED BY <1>13, <1>14, <1>15, <2>1, <3>1 DEF UpToDate
  <2>2. CASE c.state = "closed"
    <3>1. Settled(v, l)'
      BY <1>1, <1>8, <1>13, <1>14, <1>22, <2>2, Settles DEF Current
    <3> QED BY <1>13, <1>14, <2>2, <3>1 DEF UpToDate
  <2> QED BY <2>1, <2>2
<1>23. ASSUME NEW l \in Linens, <<v, l>> \notin missed', <<v, l>> \notin missed => UpToDate(v, l)
       PROVE  UpToDate(v, l)'
  <2>1. <<v, l>> \notin Discarded(v, rest, new.seen)
    BY <1>11, <1>23
  <2>2. l # None
    BY LinensAssumption
  <2>3. CASE <<v, l>> \in missed
    <3>1. <<v, l>> \in known
      BY <1>11, <1>23, <2>3
    <3>2. m.type = "clock" /\ m.clock > sc.seen /\ NoRow(next, l)
      BY <1>10, <3>1 DEF NoRow
    <3> QED BY <1>16, <1>22, <3>2
  <2>4. CASE <<v, l>> \notin missed /\ c.state # "closed"
    <3>1. Followed(v, l)
      BY <1>2, <1>15, <1>23, <2>4 DEF UpToDate
    <3>2. next = tail
      BY <1>8, <2>4
    <3>3. CASE LastRow(q, l, docs[l])
      <4>1. \/ LastRow(tail, l, docs[l])
            \/ m.linen = l /\ m.row = docs[l] /\ NoRow(tail, l)
        BY <1>3, <1>5, <1>7, <3>3, TailRows
      <4>2. CASE LastRow(tail, l, docs[l])
        <5>1. Followed(v, l)'
          BY <1>1, <1>13, <1>14, <3>2, <4>2 DEF Followed
        <5> QED BY <1>13, <1>14, <1>15, <2>4, <5>1 DEF UpToDate
      <4>3. CASE m.linen = l /\ m.row = docs[l] /\ NoRow(tail, l)
        <5>1. m.type = "event"
          BY <1>5, <1>17, <2>2, <4>3 DEF ToSet
        <5>2. new.shows[l] = docs[l]
          BY <1>16, <4>3, <5>1
        <5> QED BY <1>22, <3>2, <4>3, <5>2
      <4> QED BY <4>1, <4>2, <4>3
    <3>4. CASE NoRow(q, l) /\ Current(screens[v].shows[l], l)
      BY <1>4, <1>18, <1>20, <1>22, <3>4
    <3>5. CASE NoRow(q, l) /\ Awaiting(v)
      <4>1. m.type = "clock" /\ m.clock > sc.seen
        BY <1>2, <1>3, <1>4, <1>5, <3>5 DEF Awaiting
      <4> QED BY <1>16, <1>18, <1>22, <3>5, <4>1
    <3> QED BY <1>2, <1>3, <3>1, <3>3, <3>4, <3>5 DEF Followed
  <2>5. CASE <<v, l>> \notin missed /\ c.state = "closed"
    <3>1. Settled(v, l)
      BY <1>2, <1>23, <2>5 DEF UpToDate
    <3>2. next = <<>> /\ rest = tail /\ NoRow(next, l)
      BY <1>8, <1>9, <2>5, NoRowOfNone
    <3>3. Ahead(v) = new
      BY <1>2, <1>3, <1>4, <1>5, <1>6 DEF Ahead
    <3>4. CASE Current(Ahead(v).shows[l], l)
      BY <1>22, <3>2, <3>3, <3>4 DEF Current
    <3>5. ASSUME new.seen < clock PROVE UpToDate(v, l)'
      <4>1. Settled(v, l)'
        BY <1>1, <1>13, <1>14, <3>2, <3>5, Settles
      <4> QED BY <1>13, <1>14, <2>5, <4>1 DEF UpToDate
    <3>6. CASE \E i \in DOMAIN q : i > 1 /\ q[i].linen = l
      <4>1. PICK k \in ToSet(tail) : k.linen = l
        BY <1>3, <1>7, <3>6, TailRows
      <4>2. ~(k.clock <= new.seen)
        BY <2>1, <3>2, <4>1, DiscardedFacts
      <4>3. k.clock \in Nat /\ k.clock <= clock
        BY <1>17, <1>18, <4>1, FrameFacts
      <4>4. new.seen < clock
        BY <1>1, <1>19, <4>2, <4>3
      <4> QED BY <3>5, <4>4
    <3> QED BY <1>2, <1>3, <3>1, <3>3, <3>4, <3>5, <3>6 DEF Settled
  <2> QED BY <2>3, <2>4, <2>5
<1>24. \A i \in DOMAIN next : next[i].clock <= clock /\ (next[i].linen # None => next[i].type = "event")
  <2>1. \A i \in DOMAIN next : next[i] \in ToSet(q)
    BY <1>18 DEF ToSet
  <2> QED BY <1>17, <2>1
<1>25. Len(next) <= QueueMax /\ Cardinality(d.channels) <= MaxChannels /\ d.asked <= clock
  <2>1. Cardinality(d.channels) <= MaxChannels /\ d.asked <= clock
    BY <1>1, <1>2, <1>13 DEF TypeOK, Clocked
  <2>2. PICK n \in Nat : n = Len(q)
    OBVIOUS
  <2>3. Len(tail) = n - 1 /\ n <= QueueMax
    BY <1>2, <1>3, <1>7, <2>2
  <2>4. Len(<<>>) = 0
    OBVIOUS
  <2> QED BY <1>8, <2>1, <2>2, <2>3, <2>4, Bounds
<1>26. Opened(v)'
  BY <1>13, <1>14, <1>15, <1>24 DEF Opened
<1>27. Sound(v)
  BY <1>13, <1>14, <1>21, <1>23, <1>24, <1>25, <1>26 DEF Sound
<1>28. Alone(v)
  <2> SUFFICES ASSUME NEW w \in Screens \ {v}
               PROVE  /\ conns'[w] = conns[w] /\ screens'[w] = screens[w]
                      /\ \A l \in Linens : <<w, l>> \in missed => <<w, l>> \in missed'
    BY DEF Alone
  <2>1. conns'[w] = conns[w] /\ screens'[w] = screens[w]
    BY <1>1, <1>11, <1>14 DEF TypeOK
  <2>2. \A l : <<w, l>> \notin known
    BY <1>10
  <2> QED BY <1>11, <2>1, <2>2
<1>29. missed' \subseteq Screens \X Linens
  BY <1>1, <1>11, DiscardedType DEF TypeOK
<1>30. screens' = [screens EXCEPT ![v] = screens'[v]] /\ conns' = [conns EXCEPT ![v] = conns'[v]]
  BY <1>11, <1>14
<1> QED BY <1>1, <1>27, <1>28, <1>29, <1>30, HubKept

-----------------------------------------------------------------------------
(* A step of a request keeps the invariant. *)
LEMMA WorkKept ==
  ASSUME LinensInv, NEW s \in Slots, Kept(s), Ticks(s), InsertsApart(s), Reborn(s),
         Washed', WashesCounted'
  PROVE  LinensInv'
<1>1. /\ TypeOK /\ Clocked /\ Apart /\ Screened
      /\ \A t \in Slots : Shaped(request[t]) /\ Born(t) /\ Holds(t) /\ Publishes(t)
      /\ \A v \in Screens : Opened(v)
  BY DEF LinensInv
<1>2. /\ Working(s) /\ DocsStep(s) /\ Grows(s) /\ Remembers(s) /\ Creates(s)
      /\ Born(s)' /\ Holds(s)' /\ Publishes(s)'
  BY DEF Kept
<1>3. /\ Shaped(request'[s]) /\ conns' = conns
      /\ request' = [request EXCEPT ![s] = request'[s]]
  BY <1>2 DEF Working
<1>4. TypeOK' /\ Clocked'
  BY <1>1, <1>2, TicksClocked
<1>5. Apart'
  BY <1>1, <1>2, StaysApart
<1>6. \A t \in Slots : Shaped(request'[t]) /\ Born(t)' /\ Holds(t)' /\ Publishes(t)'
  <2>1. ASSUME NEW t \in Slots \ {s}
        PROVE  Shaped(request'[t]) /\ Born(t)' /\ Holds(t)' /\ Publishes(t)'
    <3>1. request'[t] = request[t]
      BY <1>1, <1>3 DEF TypeOK
    <3>2. Born(t)' /\ Holds(t)' /\ Publishes(t)'
      BY <1>1, <1>2, Others
    <3> QED BY <1>1, <3>1, <3>2
  <2> QED BY <1>2, <1>3, <2>1
<1>7. \A v \in Screens : Opened(v)'
  BY <1>1, <1>3 DEF Opened
<1>8. Screened'
  <2>1. clock \in Nat /\ clock' \in Nat
    BY <1>1, <1>4, LinensAssumption DEF TypeOK
  <2>2. clock' >= clock
    BY <2>1 DEF Ticks, Begins, Bumps, Goes
  <2> QED BY <1>1, <1>2, <2>1, <2>2, WorkScreened
<1> QED BY <1>4, <1>5, <1>6, <1>7, <1>8 DEF LinensInv

LEMMA InvParts ==
  ASSUME LinensInv
  PROVE  /\ TypeOK /\ Clocked /\ Apart /\ Screened /\ Washed /\ WashesCounted
         /\ \A t \in Slots : Shaped(request[t]) /\ Born(t) /\ Holds(t) /\ Publishes(t)
         /\ \A v \in Screens : Opened(v)
  BY DEF LinensInv

LEMMA BeginOnInv ==
  ASSUME LinensInv, NEW s \in Slots, NEW l \in Linens,
         NEW kind \in {"scan", "update", "delete"}, NEW action \in Actions \cup Edits \cup {None},
         kind = "scan" => action \in Actions, kind = "update" => action \in Edits,
         BeginOn(s, l, kind, action)
  PROVE  LinensInv'
<1>1. TypeOK /\ Shaped(request[s]) /\ Washed /\ WashesCounted
  BY InvParts
<1>2. Kept(s)
  BY <1>1, BeginOnKept
<1>3. /\ Working(s) /\ request[s].pc = "idle" /\ request'[s].pc = "write"
      /\ started' = started + 1 /\ started < MaxRequests /\ request'[s].clock = 0
      /\ UNCHANGED <<docs, clock, washed>>
  BY <1>1, BeginOnTypes
<1>4. Ticks(s) /\ InsertsApart(s) /\ Reborn(s)
  BY <1>3 DEF Ticks, Begins, InsertsApart, Reborn
<1>5. Washed' /\ WashesCounted'
  BY <1>1, <1>3, QuietWashes
<1> QED BY <1>2, <1>4, <1>5, WorkKept

LEMMA BulkScanInv ==
  ASSUME LinensInv, NEW s \in Slots, NEW b \in Batches, BulkScan(s, b)
  PROVE  LinensInv'
<1>1. TypeOK /\ Shaped(request[s]) /\ Washed /\ WashesCounted
  BY InvParts
<1>2. Kept(s)
  BY <1>1, BulkScanKept
<1>3. /\ Working(s) /\ request[s].pc = "idle" /\ request'[s].pc = "next"
      /\ started' = started + 1 /\ started < MaxRequests /\ request'[s].clock = 0
      /\ UNCHANGED <<docs, clock, washed>>
  BY <1>1, BulkScanTypes
<1>4. Ticks(s) /\ InsertsApart(s) /\ Reborn(s)
  BY <1>3 DEF Ticks, Begins, InsertsApart, Reborn
<1>5. Washed' /\ WashesCounted'
  BY <1>1, <1>3, QuietWashes
<1> QED BY <1>2, <1>4, <1>5, WorkKept

LEMMA CreateInv ==
  ASSUME LinensInv, NEW s \in Slots, NEW codes \in Seq(Linens),
         NEW kind \in {"create", "bulkCreate"}, CreateLinens(s, codes, kind)
  PROVE  LinensInv'
<1>1. /\ TypeOK /\ Washed /\ WashesCounted
      /\ \A t \in Slots : Shaped(request[t]) /\ Born(t)
  BY InvParts
<1>2. Kept(s)
  BY <1>1, CreateKept
<1>3. /\ Working(s) /\ request[s].pc = "idle" /\ request'[s].pc = "insert"
      /\ started' = started + 1 /\ started < MaxRequests /\ request'[s].clock = 0
      /\ UNCHANGED <<docs, clock, washed>>
  BY <1>1, CreateTypes
<1>4. InsertsApart(s)
  BY <1>1, CreateInsertsApart
<1>5. Ticks(s) /\ Reborn(s)
  BY <1>3 DEF Ticks, Begins, Reborn
<1>6. Washed' /\ WashesCounted'
  BY <1>1, <1>3, QuietWashes
<1> QED BY <1>2, <1>4, <1>5, <1>6, WorkKept

LEMMA InsertInv ==
  ASSUME LinensInv, NEW s \in Slots, InsertLinen(s)
  PROVE  LinensInv'
<1>1. /\ TypeOK /\ Washed /\ WashesCounted /\ Apart /\ Publishes(s)
      /\ \A t \in Slots : Shaped(request[t]) /\ Born(t)
  BY InvParts
<1>2. Kept(s)
  BY <1>1, InsertKept
<1>3. Ticks(s) /\ InsertsApart(s)
  BY <1>1, InsertTicks, InsertInsertsApart
<1>4. Washed' /\ WashesCounted'
  BY <1>1, InsertWashes
<1>5. Reborn(s)
  <2>1. PICK r \in Request : r = request[s] /\ r.todo \in Seq(Linens)
    BY <1>1, RequestType, DoneType
  <2>2. /\ r.pc = "insert" /\ InHand(s) \in Linens
        /\ docs' = [docs EXCEPT ![InHand(s)] = NewLinen]
    BY <1>1, <2>1, InsertTypes
  <2>3. r.todo # <<>>
    BY <1>1, <2>1, <2>2, Shape DEF AtHand
  <2>4. 1 \in DOMAIN r.todo /\ InHand(s) = r.todo[1]
    BY <2>1, <2>3 DEF InHand
  <2>5. docs[InHand(s)] = Unborn
    BY <1>1, <2>1, <2>2, <2>4 DEF Born
  <2> QED BY <1>1, <2>2, <2>5 DEF Reborn, TypeOK
<1> QED BY <1>2, <1>3, <1>4, <1>5, WorkKept

LEMMA NextInv ==
  ASSUME LinensInv, NEW s \in Slots, NextCode(s)
  PROVE  LinensInv'
<1>1. /\ TypeOK /\ Washed /\ WashesCounted /\ Shaped(request[s]) /\ Born(s) /\ Publishes(s)
  BY InvParts
<1>2. Kept(s) /\ Ticks(s)
  BY <1>1, NextKept, NextTicks
<1>3. PICK r \in Request : r = request[s]
  BY <1>1, RequestType
<1>4. PICK q \in Request : q = request'[s]
  BY <1>1, NextTypes DEF Working
<1>5. /\ Working(s) /\ r.pc = "next" /\ UNCHANGED <<docs, washed>>
      /\ q = IdleRequest \/ q = [r EXCEPT !.pc = "clock"]
         \/ q = [r EXCEPT !.pc = "write", !.read = docs[InHand(s)]]
         \/ q = [r EXCEPT !.todo = Tail(r.todo)]
  BY <1>1, <1>3, <1>4, NextTypes
<1>6. q.pc \in {"idle", "clock", "write", "next"}
  BY <1>3, <1>4, <1>5, Idle DEF Request
<1>7. InsertsApart(s) /\ Reborn(s)
  BY <1>4, <1>5, <1>6 DEF InsertsApart, Reborn
<1>8. Washed' /\ WashesCounted'
  BY <1>1, <1>3, <1>4, <1>5, <1>6, QuietWashes
<1> QED BY <1>2, <1>7, <1>8, WorkKept

LEMMA WriteInv ==
  ASSUME LinensInv, NEW s \in Slots, WriteLinen(s)
  PROVE  LinensInv'
<1>1. /\ TypeOK /\ Washed /\ WashesCounted /\ Apart /\ Born(s) /\ Holds(s) /\ Publishes(s)
      /\ \A t \in Slots : Shaped(request[t])
  BY InvParts
<1>2. Kept(s) /\ Ticks(s) /\ Washed' /\ WashesCounted'
  BY <1>1, WriteKept, WriteTicks, WriteWashes
<1>3. PICK r \in Request : r = request[s]
  BY <1>1, RequestType
<1>4. PICK q \in Request : q = request'[s]
  BY <1>1, WriteTypes DEF Working
<1>5. /\ r.pc = "write"
      /\ q = IdleRequest \/ q = [r EXCEPT !.pc = "event"] \/ q = [r EXCEPT !.pc = "reread"]
         \/ q = [r EXCEPT !.pc = "clock", !.done = <<[linen |-> InHand(s), row |-> Gone]>>]
  BY <1>1, <1>3, <1>4, WriteTypes
<1>6. q.pc # "insert"
  BY <1>3, <1>5, Idle DEF Request
<1>7. r.kind # "bulkCreate"
  BY <1>1, <1>3, <1>5, Shape
<1>8. InsertsApart(s) /\ Reborn(s)
  BY <1>3, <1>4, <1>6, <1>7 DEF InsertsApart, Reborn
<1> QED BY <1>2, <1>8, WorkKept

LEMMA RecordInv ==
  ASSUME LinensInv, NEW s \in Slots, RecordScan(s)
  PROVE  LinensInv'
<1>1. /\ TypeOK /\ Washed /\ WashesCounted /\ Apart /\ Born(s) /\ Holds(s) /\ Publishes(s)
      /\ \A t \in Slots : Shaped(request[t])
  BY InvParts
<1>2. Kept(s) /\ Ticks(s) /\ Washed' /\ WashesCounted'
  BY <1>1, RecordKept, RecordTicks, RecordWashes
<1>3. PICK r \in Request : r = request[s]
  BY <1>1, RequestType
<1>4. PICK q \in Request : q = request'[s]
  BY <1>1, RecordTypes DEF Working
<1>5. PICK e : e = [linen |-> InHand(s), row |-> Scanned(r.read, r.read, r.action)]
  OBVIOUS
<1>6. /\ UNCHANGED docs
      /\ q = [r EXCEPT !.pc = "reread"]
         \/ q = [r EXCEPT !.pc = "next", !.todo = Tail(r.todo), !.done = Append(r.done, e)]
  BY <1>1, <1>3, <1>4, <1>5, RecordTypes
<1>7. q.pc # "insert"
  BY <1>3, <1>6 DEF Request
<1>8. InsertsApart(s) /\ Reborn(s)
  BY <1>4, <1>6, <1>7 DEF InsertsApart, Reborn
<1> QED BY <1>2, <1>8, WorkKept

LEMMA RereadInv ==
  ASSUME LinensInv, NEW s \in Slots, RereadLinen(s)
  PROVE  LinensInv'
<1>1. /\ TypeOK /\ Washed /\ WashesCounted /\ Shaped(request[s]) /\ Born(s) /\ Holds(s)
  BY InvParts
<1>2. Kept(s) /\ Ticks(s)
  BY <1>1, RereadKept, RereadTicks
<1>3. PICK r \in Request : r = request[s]
  BY <1>1, RequestType
<1>4. PICK rows : rows = IF Exists(InHand(s)) THEN <<[linen |-> InHand(s), row |-> docs[InHand(s)]]>>
                         ELSE <<>>
  OBVIOUS
<1>5. /\ Working(s) /\ r.pc = "reread" /\ UNCHANGED <<docs, washed>>
      /\ request'[s] = [r EXCEPT !.pc = "clock", !.done = rows]
  BY <1>1, <1>3, <1>4, RereadTypes
<1>6. request'[s].pc = "clock"
  BY <1>3, <1>5 DEF Request
<1>7. InsertsApart(s) /\ Reborn(s)
  BY <1>5, <1>6 DEF InsertsApart, Reborn
<1>8. Washed' /\ WashesCounted'
  BY <1>1, <1>3, <1>5, <1>6, QuietWashes
<1> QED BY <1>2, <1>7, <1>8, WorkKept

LEMMA BumpInv ==
  ASSUME LinensInv, NEW s \in Slots, BumpLiveClock(s)
  PROVE  LinensInv'
<1>1. /\ TypeOK /\ Washed /\ WashesCounted /\ Shaped(request[s]) /\ Born(s) /\ Publishes(s)
  BY InvParts
<1>2. Kept(s) /\ Ticks(s)
  BY <1>1, BumpKept, BumpTicks
<1>3. PICK r \in Request : r = request[s]
  BY <1>1, RequestType
<1>4. /\ Working(s) /\ r.pc = "clock" /\ UNCHANGED <<docs, washed>>
      /\ request'[s] = [r EXCEPT !.pc = "publish", !.clock = clock + 1]
  BY <1>1, <1>3, BumpTypes
<1>5. request'[s].pc = "publish"
  BY <1>3, <1>4 DEF Request
<1>6. InsertsApart(s) /\ Reborn(s)
  BY <1>4, <1>5 DEF InsertsApart, Reborn
<1>7. Washed' /\ WashesCounted'
  BY <1>1, <1>3, <1>4, <1>5, QuietWashes
<1> QED BY <1>2, <1>6, <1>7, WorkKept

LEMMA PublishInv ==
  ASSUME LinensInv, NEW s \in Slots, Publish(s)
  PROVE  LinensInv'
<1>1. /\ TypeOK /\ Clocked /\ Apart /\ Screened /\ Washed /\ WashesCounted
      /\ \A t \in Slots : Shaped(request[t]) /\ Born(t) /\ Holds(t) /\ Publishes(t)
      /\ \A v \in Screens : Opened(v)
  BY InvParts
<1>2. TypeOK'
  BY <1>1, PublishTypeOK
<1>3. Clocked' /\ \A v \in Screens : Opened(v)'
  BY <1>1, PublishClocked
<1>4. Screened'
  BY <1>1, PublishScreened
<1>5. /\ \A t \in Slots : Shaped(request'[t]) /\ Born(t)' /\ Holds(t)' /\ Publishes(t)'
      /\ Apart' /\ Washed' /\ WashesCounted'
  BY <1>1, PublishRequests
<1> QED BY <1>2, <1>3, <1>4, <1>5 DEF LinensInv

-----------------------------------------------------------------------------
(* The process dies. *)
LEMMA CrashKept ==
  ASSUME LinensInv, Crash
  PROVE  LinensInv'
<1>1. /\ TypeOK /\ Clocked /\ Apart /\ Screened /\ Washed /\ WashesCounted
      /\ \A v \in Screens : Opened(v)
  BY InvParts
<1>2. /\ request' = [s \in Slots |-> IdleRequest]
      /\ disturbed' = disturbed \cup UNION {Touched(s) : s \in Slots}
      /\ conns' = [v \in Screens |-> NoConnection]
      /\ missed' = missed \cup UNION {Discarded(v, conns[v].queue, screens[v].seen) : v \in Screens}
      /\ UNCHANGED <<docs, clock, washed, screens, started>>
  BY DEF Crash
<1>3. \A s \in Slots : request'[s] = IdleRequest
  BY <1>2
<1>4. \A s \in Slots : Born(s)' /\ Holds(s)' /\ Publishes(s)' /\ Touched(s)' = {}
                       /\ Shaped(request'[s])
  BY <1>3, IdleHolds
<1>5. \A v \in Screens : conns'[v] = NoConnection
  BY <1>2
<1>6. \A s \in Slots : Touched(s) \subseteq Linens
  <2> SUFFICES ASSUME NEW s \in Slots PROVE Touched(s) \subseteq Linens
    OBVIOUS
  <2>1. Shaped(request[s])
    BY InvParts
  <2> QED BY <1>1, <2>1, RequestType, TouchedIs, TouchedLinens
<1>7. TypeOK'
  <2>1. request' \in [Slots -> Request] /\ conns' \in [Screens -> Connection]
    BY <1>2, Idle, NoConnectionFacts
  <2>2. \A v \in Screens : /\ Len(conns'[v].queue) <= QueueMax
                           /\ Cardinality(conns'[v].channels) <= MaxChannels
    BY <1>5, NoConnectionFacts
  <2>3. disturbed' \subseteq Linens
    BY <1>1, <1>2, <1>6 DEF TypeOK
  <2>4. \A v \in Screens : Discarded(v, conns[v].queue, screens[v].seen) \subseteq Screens \X Linens
    BY <1>1, ScreenTypes, DiscardedType
  <2>5. missed' \subseteq Screens \X Linens
    BY <1>1, <1>2, <2>4 DEF TypeOK
  <2> QED BY <1>1, <1>2, <2>1, <2>2, <2>3, <2>5 DEF TypeOK
<1>8. Clocked'
  <2>1. clock \in Nat /\ started \in Nat
    BY <1>1, LinensAssumption DEF TypeOK
  <2>2. Cardinality(Unclocked) \in Nat
    <3>1. Unclocked \subseteq Slots /\ IsFiniteSet(Slots)
      BY LinensAssumption DEF Unclocked
    <3>2. IsFiniteSet(Unclocked)
      BY <3>1, FS_Subset
    <3> QED BY <3>2, FS_CardinalityType
  <2>3. Unclocked' = {}
    BY <1>3, Idle DEF Unclocked
  <2>4. clock <= started
    BY <1>1, <2>1, <2>2 DEF Clocked
  <2>5. clock' + Cardinality(Unclocked') <= started'
    BY <1>2, <2>1, <2>3, <2>4, NoneUnrecorded
  <2>6. \A s \in Slots : request'[s].clock <= clock'
    BY <1>2, <1>3, <2>1, Idle
  <2>7. \A v \in Screens : /\ conns'[v].asked <= clock'
                           /\ \A i \in DOMAIN conns'[v].queue : conns'[v].queue[i].clock <= clock'
    BY <1>2, <1>5, <2>1, NoConnectionFacts
  <2> QED BY <2>5, <2>6, <2>7 DEF Clocked
<1>9. Apart'
  <2>1. \A s \in Slots : request'[s].pc = "idle"
    BY <1>3, Idle
  <2> QED BY <1>4, <2>1 DEF Apart
<1>10. Washed'
  BY <1>1, <1>2 DEF Washed
<1>11. \A v \in Screens : Opened(v)'
  BY <1>5, NoConnectionFacts DEF Opened
<1>12. ASSUME NEW l \in Linens, l \notin disturbed'
       PROVE  l \notin disturbed /\ \A s \in Slots : l \notin Touched(s)
  BY <1>2, <1>12
<1>13. WashesCounted'
  <2> SUFFICES ASSUME NEW l \in Linens, l \notin disturbed', Exists(l)'
               PROVE  docs'[l].washes = washed'[l] + Cardinality(Unrecorded(l)')
    BY DEF WashesCounted
  <2>1. l \notin disturbed /\ \A s \in Slots : l \notin Touched(s)
    BY <1>12
  <2>2. Unrecorded(l) = {}
    BY <2>1, UnrecordedTouch
  <2>3. Unrecorded(l)' = {}
    BY <1>3, Idle DEF Unrecorded
  <2>4. Exists(l)
    BY <1>2 DEF Exists
  <2> QED BY <1>1, <1>2, <2>1, <2>2, <2>3, <2>4 DEF WashesCounted
<1>14. Screened'
  <2> SUFFICES ASSUME NEW v \in Screens, NEW l \in Linens
        PROVE  /\ docs[l] = Unborn => Fresh(v, l)'
               /\ l \notin disturbed' /\ <<v, l>> \notin missed' => UpToDate(v, l)'
    BY <1>2, <1>4 DEF Screened
  <2>1. docs' = docs /\ clock' = clock /\ screens'[v] = screens[v] /\ conns'[v] = NoConnection
    BY <1>2, <1>5
  <2>2. docs[l] = Unborn => Fresh(v, l)'
    BY <1>1, <2>1, EndedFresh DEF Screened
  <2>3. ASSUME l \notin disturbed', <<v, l>> \notin missed' PROVE UpToDate(v, l)'
    <3>1. /\ <<v, l>> \notin missed
          /\ <<v, l>> \notin Discarded(v, conns[v].queue, screens[v].seen)
      BY <1>2, <2>3
    <3>2. l \notin disturbed /\ \A s \in Slots : l \notin Touched(s)
      BY <1>12, <2>3
    <3>3. UpToDate(v, l)
      BY <1>1, <3>1, <3>2 DEF Screened
    <3> QED BY <1>1, <2>1, <3>1, <3>3, EndedSettles
  <2> QED BY <2>2, <2>3
<1> QED BY <1>4, <1>7, <1>8, <1>9, <1>10, <1>11, <1>13, <1>14 DEF LinensInv

-----------------------------------------------------------------------------
(* It holds at first. *)
LEMMA InitKept == Init => LinensInv
<1> SUFFICES ASSUME Init PROVE LinensInv
  OBVIOUS
<1>1. /\ \A l \in Linens : docs[l] \in {NewLinen, Unborn}
      /\ docs \in [Linens -> Row]
      /\ clock = 0 /\ started = 0 /\ disturbed = {} /\ missed = {}
      /\ washed = [l \in Linens |-> 0] /\ request = [s \in Slots |-> IdleRequest]
      /\ conns = [v \in Screens |-> NoConnection]
      /\ screens = [v \in Screens |-> [shows |-> docs, seen |-> 0]]
  BY Rows DEF Init
<1>2. \A s \in Slots : request[s] = IdleRequest
  BY <1>1
<1>3. \A v \in Screens : conns[v] = NoConnection /\ screens[v] = [shows |-> docs, seen |-> 0]
  BY <1>1
<1>4. DOMAIN IdleRequest.done = {}
  BY Idle
<1>5. ASSUME NEW s \in Slots
      PROVE  Shaped(request[s]) /\ Born(s) /\ Holds(s) /\ Publishes(s) /\ Touched(s) = {}
  <2>1. Touched(s) = {} /\ Shaped(request[s])
    BY <1>2, Idle, TouchedIs, IdleTouches
  <2>2. Born(s) /\ Holds(s)
    BY <1>2, <1>4, Idle DEF Born, Holds, AtHand
  <2>3. Publishes(s)
    BY <1>2, Idle, NoRowOfNone DEF Publishes
  <2> QED BY <2>1, <2>2, <2>3
<1>6. TypeOK
  <2>1. request \in [Slots -> Request] /\ conns \in [Screens -> Connection]
    BY <1>1, Idle, NoConnectionFacts
  <2>2. screens \in [Screens -> Screen] /\ washed \in [Linens -> Nat]
    BY <1>1 DEF Screen
  <2>3. 0 \in 0..MaxRequests
    BY LinensAssumption
  <2> QED BY <1>1, <1>3, <2>1, <2>2, <2>3, NoConnectionFacts DEF TypeOK
<1>7. Clocked
  <2>1. Unclocked = {}
    BY <1>2, Idle DEF Unclocked
  <2>2. clock + Cardinality(Unclocked) <= started
    BY <1>1, <2>1, NoneUnrecorded
  <2> QED BY <1>1, <1>2, <1>3, <2>2, Idle, NoConnectionFacts DEF Clocked
<1>8. Apart
  <2>1. \A s \in Slots : request[s].pc = "idle"
    BY <1>2, Idle
  <2> QED BY <1>5, <2>1 DEF Apart
<1>9. Washed
  BY <1>1, Statuses DEF Washed, NewLinen, Unborn
<1>10. \A v \in Screens : Opened(v)
  BY <1>3, NoConnectionFacts DEF Opened
<1>11. Screened
  <2>1. ASSUME NEW v \in Screens, NEW l \in Linens PROVE Fresh(v, l) /\ UpToDate(v, l)
    <3>1. Fresh(v, l)
      BY <1>3, NoConnectionFacts, NoRowOfNone DEF Fresh, Current
    <3> QED BY <1>6, <3>1, FreshUpToDate
  <2> QED BY <2>1 DEF Screened
<1>12. WashesCounted
  <2>1. \A l : Unrecorded(l) = {}
    BY <1>2, Idle DEF Unrecorded
  <2>2. \A l \in Linens : docs[l].washes = 0
    BY <1>1 DEF NewLinen, Unborn
  <2> QED BY <1>1, <2>1, <2>2, NoneUnrecorded DEF WashesCounted
<1> QED BY <1>5, <1>6, <1>7, <1>8, <1>9, <1>10, <1>11, <1>12 DEF LinensInv

-----------------------------------------------------------------------------
(* A stutter. *)
LEMMA StutterKept ==
  ASSUME LinensInv, UNCHANGED vars
  PROVE  LinensInv'
<1>1. UNCHANGED <<docs, clock, washed, request, conns, screens, started, disturbed, missed>>
  BY DEF vars
<1>2. HubStep
  BY <1>1 DEF HubStep
<1>3. /\ TypeOK /\ Clocked /\ Apart /\ Screened /\ Washed /\ WashesCounted
      /\ \A t \in Slots : Shaped(request[t]) /\ Born(t) /\ Holds(t) /\ Publishes(t)
      /\ \A v \in Screens : Opened(v)
  BY InvParts
<1>4. /\ \A t \in Slots : Shaped(request'[t]) /\ Born(t)' /\ Holds(t)' /\ Publishes(t)'
      /\ Apart' /\ Washed' /\ WashesCounted'
  BY <1>2, <1>3, HubRequests
<1>5. TypeOK' /\ \A v \in Screens : Opened(v)'
  BY <1>1, <1>3 DEF TypeOK, Opened
<1>6. Clocked'
  BY <1>1, <1>3 DEF Clocked, Unclocked
<1>7. Screened'
  <2>1. \A s \in Slots : Touched(s)' = Touched(s)
    BY <1>1 DEF Touched, InHand
  <2>2. ASSUME NEW v \in Screens, NEW l \in Linens
        PROVE  (Fresh(v, l) => Fresh(v, l)') /\ (UpToDate(v, l) => UpToDate(v, l)')
    <3>1. Fresh(v, l) => Fresh(v, l)'
      BY <1>1 DEF Fresh, Current
    <3>2. Ahead(v)' = Ahead(v)
      BY <1>1, AheadAfter DEF Ahead
    <3>3. Settled(v, l) => Settled(v, l)'
      BY <1>1, <3>2 DEF Settled, Current
    <3>4. Followed(v, l) => Followed(v, l)'
      BY <1>1 DEF Followed, Awaiting, Current
    <3> QED BY <1>1, <3>1, <3>3, <3>4 DEF UpToDate
  <2> QED BY <1>1, <1>3, <2>1, <2>2 DEF Screened
<1> QED BY <1>4, <1>5, <1>6, <1>7 DEF LinensInv

LEMMA RequestsKept ==
  ASSUME LinensInv, NEW s \in Slots,
         \/ \E l \in Linens : \/ \E a \in Actions : ScanLinen(s, l, a)
                              \/ \E st \in Edits : UpdateLinen(s, l, st)
                              \/ DeleteLinen(s, l)
                              \/ CreateLinens(s, <<l>>, "create")
         \/ \E b \in Batches : BulkScan(s, b) \/ CreateLinens(s, b.codes, "bulkCreate")
         \/ InsertLinen(s) \/ NextCode(s) \/ WriteLinen(s) \/ RecordScan(s)
         \/ RereadLinen(s) \/ BumpLiveClock(s) \/ Publish(s)
  PROVE  LinensInv'
<1>1. ASSUME NEW l \in Linens, NEW a \in Actions, ScanLinen(s, l, a) PROVE LinensInv'
  BY <1>1, BeginOnInv DEF ScanLinen
<1>2. ASSUME NEW l \in Linens, NEW st \in Edits, UpdateLinen(s, l, st) PROVE LinensInv'
  BY <1>2, BeginOnInv DEF UpdateLinen
<1>3. ASSUME NEW l \in Linens, DeleteLinen(s, l) PROVE LinensInv'
  BY <1>3, BeginOnInv DEF DeleteLinen
<1>4. ASSUME NEW l \in Linens, CreateLinens(s, <<l>>, "create") PROVE LinensInv'
  BY <1>4, Singles, CreateInv
<1>5. ASSUME NEW b \in Batches, BulkScan(s, b) PROVE LinensInv'
  BY <1>5, BulkScanInv
<1>6. ASSUME NEW b \in Batches, CreateLinens(s, b.codes, "bulkCreate") PROVE LinensInv'
  <2>1. b.codes \in Seq(Linens)
    BY LinensAssumption
  <2> QED BY <1>6, <2>1, CreateInv
<1> QED BY <1>1, <1>2, <1>3, <1>4, <1>5, <1>6, InsertInv, NextInv, WriteInv, RecordInv,
           RereadInv, BumpInv, PublishInv

LEMMA LinensStep ==
  ASSUME LinensInv, [Next]_vars
  PROVE  LinensInv'
<1>1. ASSUME NEW s \in Slots,
             \/ \E l \in Linens : \/ \E a \in Actions : ScanLinen(s, l, a)
                                  \/ \E st \in Edits : UpdateLinen(s, l, st)
                                  \/ DeleteLinen(s, l)
                                  \/ CreateLinens(s, <<l>>, "create")
             \/ \E b \in Batches : BulkScan(s, b) \/ CreateLinens(s, b.codes, "bulkCreate")
             \/ InsertLinen(s) \/ NextCode(s) \/ WriteLinen(s) \/ RecordScan(s)
             \/ RereadLinen(s) \/ BumpLiveClock(s) \/ Publish(s)
      PROVE  LinensInv'
  BY <1>1, RequestsKept
<1>2. ASSUME NEW v \in Screens,
             Connect(v) \/ Greet(v) \/ Ping(v) \/ Pong(v) \/ Disconnect(v) \/ Pump(v)
      PROVE  LinensInv'
  BY <1>2, ConnectKept, GreetKept, PingKept, PongKept, DisconnectKept, PumpKept
<1>3. ASSUME NEW v \in Screens, NEW ch \in Linens \cup {Laundry},
             Subscribe(v, ch) \/ Unsubscribe(v, ch)
      PROVE  LinensInv'
  BY <1>3, SubscribeKept, UnsubscribeKept
<1>4. CASE Crash
  BY <1>4, CrashKept
<1>5. CASE UNCHANGED vars
  BY <1>5, StutterKept
<1> QED BY <1>1, <1>2, <1>3, <1>4, <1>5 DEF Next

-----------------------------------------------------------------------------
(* What the invariant says of a row that a screen shows. *)
LEMMA ScreenedNotStale ==
  ASSUME LinensInv
  PROVE  NeverSilentlyStale
<1>1. TypeOK /\ Clocked /\ Screened /\ \A v \in Screens : Opened(v)
  BY InvParts
<1> SUFFICES ASSUME NEW v \in Screens, NEW l \in Linens \ disturbed,
                    \A s \in Slots : l \notin Touched(s), <<v, l>> \notin missed,
                    \A i \in DOMAIN conns[v].queue : conns[v].queue[i].linen # l
             PROVE  screens[v].shows[l] \in {docs[l], Unborn} \/ screens[v].seen < clock
  BY DEF NeverSilentlyStale
<1>2. PICK sc \in Screen : sc = screens[v] /\ sc.seen \in Nat
  BY <1>1, ScreenTypes
<1>3. PICK q \in Seq(Frame) : q = conns[v].queue
  BY <1>1, ScreenTypes
<1>4. clock \in Nat /\ UpToDate(v, l)
  BY <1>1, AheadType DEF Screened
<1>5. \A i \in DOMAIN q : q[i].linen # l /\ q[i].clock <= clock
  BY <1>1, <1>3 DEF Clocked
<1>6. CASE q = <<>>
  <2>1. Ahead(v) = sc
    BY <1>2, <1>3, <1>6 DEF Ahead
  <2>2. ~Awaiting(v)
    BY <1>3, <1>6 DEF Awaiting
  <2>3. ~LastRow(q, l, docs[l])
    BY <1>5 DEF LastRow
  <2>4. Followed(v, l) \/ Settled(v, l)
    BY <1>4 DEF UpToDate
  <2> QED BY <1>2, <1>3, <1>5, <2>1, <2>2, <2>3, <2>4 DEF Followed, Settled, Current
<1>7. CASE q # <<>>
  <2>1. PICK m \in Frame : m = Head(q) /\ m = q[1] /\ 1 \in DOMAIN q /\ m.clock \in Nat
    BY <1>7, HeadOf, FrameFacts
  <2>2. m.linen # l /\ m.clock <= clock
    BY <1>5, <2>1
  <2>3. Ahead(v) = Shown(sc, m)
    BY <1>2, <1>3, <1>7, <2>1 DEF Ahead
  <2>4. ASSUME m.clock > sc.seen PROVE sc.seen < clock
    BY <1>2, <1>4, <2>1, <2>2, <2>4
  <2>5. CASE Followed(v, l)
    <3>1. ~LastRow(q, l, docs[l])
      BY <1>5 DEF LastRow
    <3>2. CASE Awaiting(v)
      <4>1. m.clock > sc.seen
        BY <1>2, <1>3, <2>1, <3>2 DEF Awaiting
      <4> QED BY <1>2, <2>4, <4>1
    <3> QED BY <1>3, <2>5, <3>1, <3>2 DEF Followed, Current
  <2>6. CASE Settled(v, l)
    <3>1. CASE Current(Ahead(v).shows[l], l)
      <4>1. CASE m.type = "event"
        BY <1>1, <1>2, <2>2, <2>3, <3>1, <4>1, ShownFacts DEF Current
      <4>2. CASE m.type = "clock" /\ m.clock > sc.seen
        BY <1>2, <2>4, <4>2
      <4>3. CASE m.type # "event" /\ ~(m.type = "clock" /\ m.clock > sc.seen)
        BY <1>1, <1>2, <2>3, <3>1, <4>3, ShownFacts DEF Current
      <4> QED BY <4>1, <4>2, <4>3
    <3>2. CASE screens[v].seen < clock
      BY <3>2
    <3>3. ~\E i \in DOMAIN conns[v].queue : i > 1 /\ conns[v].queue[i].linen = l
      BY <1>3, <1>5
    <3> QED BY <2>6, <3>1, <3>2, <3>3 DEF Settled
  <2> QED BY <1>4, <2>5, <2>6 DEF UpToDate
<1> QED BY <1>6, <1>7

(* The inductive invariant holds of every reachable state. *)
LEMMA LinensInvariant == Spec => []LinensInv
<1>1. Init => LinensInv
  BY InitKept
<1>2. LinensInv /\ [Next]_vars => LinensInv'
  BY LinensStep
<1> QED BY <1>1, <1>2, PTL DEF Spec

(* Whatever users scan, edit, create and delete at once, whatever sockets   *)
(* overflow, drop and reconnect, and whenever the process dies, every row,  *)
(* request, queue and screen is of its type; no queue outgrows              *)
(* QUEUE_MAXSIZE and no connection its channels (realtime.py).              *)
THEOREM LinensAreTyped == Spec => []TypeOK
<1>1. LinensInv => TypeOK
  BY InvParts
<1> QED BY <1>1, LinensInvariant, PTL

(* wash_count of a linen is the number of complete_wash rows of the audit   *)
(* trail, plus the one whose insert is still to come (linens.py:582-610),   *)
(* for every linen that no two requests ever met on and no death of the     *)
(* process left half scanned.                                               *)
THEOREM WashesAreCounted == Spec => []WashesCounted
<1>1. LinensInv => WashesCounted
  BY InvParts
<1> QED BY <1>1, LinensInvariant, PTL

(* A row that is not the linen's is never all a screen has: a request is    *)
(* about to publish it, or it is in the queue, or the clock of the laundry  *)
(* is ahead of the screen's, so that its next greeting or ping makes it     *)
(* load the list (routers/realtime.py:15-31); through overflows, drops,     *)
(* reconnections and deaths of the process, but for the rows in `missed`.   *)
THEOREM ScreensAreNeverSilentlyStale == Spec => []NeverSilentlyStale
<1>1. LinensInv => NeverSilentlyStale
  BY ScreenedNotStale
<1> QED BY <1>1, LinensInvariant, PTL
=============================================================================
