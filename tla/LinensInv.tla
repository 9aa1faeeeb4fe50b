-------------------------------- MODULE LinensInv --------------------------------
(***************************************************************************)
(* The inductive invariant of Linens.                                      *)
(***************************************************************************)
EXTENDS Linens

(* The last of `q`, frames or rows to publish, that is of `l` has row `r`;   *)
(* none is of `l`.                                                          *)
LastRow(q, l, r) ==
  \E i \in DOMAIN q : /\ q[i].linen = l /\ q[i].row = r
                      /\ \A j \in DOMAIN q : j > i => q[j].linen # l

NoRow(q, l) == \A i \in DOMAIN q : q[i].linen # l

-----------------------------------------------------------------------------
(* Requests. *)

(* Where a request of each kind can be, and what it holds there. *)
Stages ==
  [create     |-> {"insert", "clock", "publish"},
   bulkCreate |-> {"insert", "clock", "publish"},
   update     |-> {"write", "reread", "clock", "publish"},
   delete     |-> {"write", "clock", "publish"},
   scan       |-> {"write", "event", "reread", "clock", "publish"},
   bulkScan   |-> {"next", "write", "event", "clock", "publish"}]

AtHand == {"write", "event", "reread"}

Shaped(req) ==
  \/ req = IdleRequest
  \/ /\ req.pc \in Stages[req.kind]
     /\ req.kind \in {"scan", "bulkScan"} => req.action \in Actions
     /\ req.kind = "update" => req.action \in Edits
     /\ req.pc \in AtHand \cup {"insert"} => req.todo # <<>>
     /\ req.pc \in AtHand /\ req.kind # "bulkScan" => req.done = <<>> /\ Len(req.todo) = 1
     /\ req.pc = "insert" => IsInjective(req.todo)

(* What a request has touched has been born, and what is to be created has   *)
(* not, and is one request's alone.                                          *)
Born(s) ==
  LET req == request[s] IN
  /\ \A i \in DOMAIN req.done : docs[req.done[i].linen] # Unborn
  /\ req.pc \in AtHand => docs[InHand(s)] # Unborn
  /\ req.pc = "insert" => \A i \in DOMAIN req.todo : docs[req.todo[i]] = Unborn

Apart ==
  \A s, t \in Slots :
    /\ s # t /\ request[s].pc = "insert" /\ request[t].pc = "insert"
         => ToSet(request[s].todo) \cap ToSet(request[t].todo) = {}
    /\ s # t => Touched(s) \cap Touched(t) \subseteq disturbed

(* A linen no requests met on: what a request read, set and will publish of  *)
(* it is what is stored.                                                     *)
Holds(s) ==
  LET req == request[s]
      l   == InHand(s) IN
  /\ req.pc \in AtHand /\ l \notin disturbed => Exists(l)
  /\ req.pc = "write" /\ l \notin disturbed => docs[l] = req.read
  /\ req.pc = "event" /\ req.kind = "bulkScan" /\ l \notin disturbed
       => docs[l] = Scanned(req.read, req.read, req.action)

Publishes(s) ==
  \A k \in Linens \ disturbed :
    \/ NoRow(request[s].done, k) \/ LastRow(request[s].done, k, docs[k])
    \/ (request[s].pc = "event" /\ InHand(s) = k)

(* Requests that have the clock to bump yet. *)
Unclocked == {s \in Slots : request[s].pc \notin {"idle", "publish"}}

Clocked ==
  /\ clock + Cardinality(Unclocked) <= started
  /\ \A s \in Slots : request[s].clock <= clock
  /\ \A v \in Screens : /\ conns[v].asked <= clock
                        /\ \A i \in DOMAIN conns[v].queue : conns[v].queue[i].clock <= clock

Washed ==
  \A l \in Linens : /\ docs[l] = Unborn => washed[l] = 0
                    /\ docs[l].status = "UNBORN" => docs[l] = Unborn

-----------------------------------------------------------------------------
(* Screens. *)

Opened(v) ==
  /\ conns[v].state = "absent" => conns[v] = NoConnection
  /\ conns[v].state = "registered" => conns[v].queue = <<>> /\ conns[v].channels = {}
  /\ \A i \in DOMAIN conns[v].queue :
       conns[v].queue[i].linen # None => conns[v].queue[i].type = "event"

(* The screen after the next frame. *)
Ahead(v) ==
  IF conns[v].queue = <<>> THEN screens[v] ELSE Shown(screens[v], Head(conns[v].queue))

(* The rows that stand for the linen: its own, and that of a screen that has *)
(* not heard of it.                                                          *)
Current(row, l) == row \in {docs[l], Unborn}

(* With at most one frame to come. *)
Settled(v, l) ==
  \/ Current(Ahead(v).shows[l], l)
  \/ screens[v].seen < clock /\ Ahead(v).seen < clock
  \/ \E i \in DOMAIN conns[v].queue : i > 1 /\ conns[v].queue[i].linen = l

(* A greeting that will make the screen load the list is the next frame, and *)
(* no event can throw it out and be the next.                                *)
Awaiting(v) ==
  LET q == conns[v].queue IN
  /\ q # <<>> /\ q[1].type = "clock" /\ q[1].clock > screens[v].seen
  /\ IF Len(q) = 1 THEN conns[v].channels = {} ELSE q[2].type # "event"

(* With every frame to come. *)
Followed(v, l) ==
  \/ LastRow(conns[v].queue, l, docs[l])
  \/ /\ NoRow(conns[v].queue, l)
     /\ (Current(screens[v].shows[l], l) \/ Awaiting(v))

UpToDate(v, l) ==
  IF conns[v].state \in {"greeted", "asking"} THEN Followed(v, l) ELSE Settled(v, l)

Fresh(v, l) == Current(screens[v].shows[l], l) /\ NoRow(conns[v].queue, l)

Screened ==
  \A v \in Screens, l \in Linens :
    /\ docs[l] = Unborn => Fresh(v, l)
    /\ l \notin disturbed /\ (\E s \in Slots : request[s].kind = "bulkCreate" /\ l \in Touched(s))
         => Fresh(v, l)
    /\ l \notin disturbed /\ <<v, l>> \notin missed /\ (\A s \in Slots : l \notin Touched(s))
         => UpToDate(v, l)

-----------------------------------------------------------------------------
LinensInv ==
  /\ TypeOK
  /\ \A s \in Slots : Shaped(request[s]) /\ Born(s) /\ Holds(s) /\ Publishes(s)
  /\ Apart /\ Clocked /\ Washed
  /\ \A v \in Screens : Opened(v)
  /\ Screened
  /\ WashesCounted
=============================================================================
