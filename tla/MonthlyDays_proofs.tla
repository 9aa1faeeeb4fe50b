------------------------- MODULE MonthlyDays_proofs -------------------------
(***************************************************************************)
(* Proofs about MonthlyDays.  The types hold with any number of laundries.  *)
(* The other theorems are about one laundry: two tenants whose hotels have  *)
(* the same name share the owners of their days in the registry             *)
(* (monthly.py:597), and then each releases what the other has reserved.    *)
(*                                                                         *)
(* MonthInv, of MonthlyDaysInv, is inductive.  Its part about days speaks   *)
(* of clean days only (on which requests never overlapped), so a step is    *)
(* one of two things to a day: it is at work there, alone, and its Surplus  *)
(* and Unlisted say what it has reserved and made beyond what the day       *)
(* shows; or it works elsewhere, and leaves the books of the day as they    *)
(* are (BooksElsewhere).  Each of those is proved once per await.           *)
(***************************************************************************)
EXTENDS MonthlyDaysInv, SumTheorems

-----------------------------------------------------------------------------
(* Constants, and the first document of a month. *)

LEMMA NumbersDiffer ==
  /\ \A v \in BillNumbers \cup PassNumbers : v # None /\ v # Keep /\ v \notin Nat
  /\ None \notin Nat /\ Keep \notin Nat
  BY NumbersAssumption, GeneratedAssumption

LEMMA CellsAreNotPasses == \A c \in Cells : c \notin PassOwners
<1>1. \A c \in Cells : c[1] # "gatepass"
  BY CellsAssumption DEF Kinds
<1>2. \A o \in PassOwners : o[1] = "gatepass"
  BY DEF PassOwners
<1> QED BY <1>1, <1>2

LEMMA FirstFacts ==
  ASSUME NEW n \in Nat, NEW S, S \subseteq 1 .. n
  PROVE  /\ S = {} => First(S) = 0
         /\ S # {} => First(S) \in S /\ \A y \in S : First(S) <= y
<1>1. ASSUME S # {} PROVE Min(S) \in S /\ \A y \in S : Min(S) <= y
  <2>1. \E x \in S : \A y \in S : x <= y
    BY <1>1, SmallestNumber
  <2> QED BY <2>1 DEF Min
<1> QED BY <1>1 DEF First

LEMMA MonthsType ==
  ASSUME MonthTypes
  PROVE  /\ months \in Seq(MonthDocs) /\ Len(months) \in Nat /\ DOMAIN months = 1 .. Len(months)
         /\ \A i \in DOMAIN months :
              /\ months[i].kind \in Kinds /\ months[i].laundry \in Laundries \cup {None}
              /\ months[i].days \in [CellsOf(months[i].kind) -> DayStates]
              /\ months[i] = [laundry |-> months[i].laundry, kind |-> months[i].kind,
                              days |-> months[i].days]
<1>1. months \in Seq(MonthDocs)
  BY DEF MonthTypes
<1>2. \A i \in DOMAIN months : months[i] \in MonthDocs
  BY <1>1
<1>3. \A m \in MonthDocs :
        /\ m.kind \in Kinds /\ m.laundry \in Laundries \cup {None}
        /\ m.days \in [CellsOf(m.kind) -> DayStates]
        /\ m = [laundry |-> m.laundry, kind |-> m.kind, days |-> m.days]
  BY DEF MonthDocs, MonthDocsOf, Kinds
<1>4. Len(months) \in Nat /\ DOMAIN months = 1 .. Len(months)
  BY <1>1
<1> QED BY <1>1, <1>2, <1>3, <1>4

LEMMA AnyMonthFacts ==
  ASSUME MonthTypes, NEW k
  PROVE  /\ AnyMonth(k) \in 0 .. Len(months)
         /\ AnyMonth(k) = 0 <=> \A i \in DOMAIN months : months[i].kind # k
         /\ AnyMonth(k) # 0 => /\ AnyMonth(k) \in DOMAIN months
                               /\ months[AnyMonth(k)].kind = k
                               /\ \A i \in DOMAIN months : months[i].kind = k => AnyMonth(k) <= i
<1> DEFINE S == {i \in DOMAIN months : months[i].kind = k}
<1>1. Len(months) \in Nat /\ S \subseteq 1 .. Len(months) /\ DOMAIN months = 1 .. Len(months)
  BY MonthsType
<1>2. /\ S = {} => First(S) = 0
      /\ S # {} => First(S) \in S /\ \A y \in S : First(S) <= y
  BY <1>1, FirstFacts
<1>3. AnyMonth(k) = First(S)
  BY DEF AnyMonth
<1> QED BY <1>1, <1>2, <1>3

LEMMA MonthOfFacts ==
  ASSUME MonthTypes, NEW l, NEW k
  PROVE  /\ MonthOf(l, k) \in 0 .. Len(months)
         /\ MonthOf(l, k) # 0 => MonthOf(l, k) \in DOMAIN months /\ months[MonthOf(l, k)].kind = k
<1> DEFINE S == {i \in DOMAIN months : months[i].kind = k /\ Sees(l, months[i])}
<1>1. Len(months) \in Nat /\ S \subseteq 1 .. Len(months) /\ DOMAIN months = 1 .. Len(months)
  BY MonthsType
<1>2. /\ S = {} => First(S) = 0
      /\ S # {} => First(S) \in S /\ \A y \in S : First(S) <= y
  BY <1>1, FirstFacts
<1>3. MonthOf(l, k) = First(S)
  BY DEF MonthOf
<1> QED BY <1>1, <1>2, <1>3

OneLaundry == Laundries = {MainLaundry}

(* The laundry sees every month, those of nobody included. *)
LEMMA OneLaundryMonth ==
  ASSUME MonthTypes, OneLaundry, NEW k
  PROVE  MonthOf(MainLaundry, k) = AnyMonth(k)
<1>1. \A i \in DOMAIN months : Sees(MainLaundry, months[i])
  BY MonthsType DEF OneLaundry, Sees
<1>2. {i \in DOMAIN months : months[i].kind = k /\ Sees(MainLaundry, months[i])}
        = {i \in DOMAIN months : months[i].kind = k}
  BY <1>1
<1> QED BY <1>2, Zenon DEF MonthOf, AnyMonth

LEMMA ShownIsDay ==
  ASSUME MonthTypes, OneLaundry, NEW c
  PROVE  Shown(c) = Day(c)
  BY OneLaundryMonth DEF Shown, Day, Month

LEMMA EmptyDayType ==
  /\ EmptyDay \in DayStates /\ EmptyDay.status = "EMPTY" /\ EmptyDay.records = <<>>
  /\ EmptyDay.bill = None /\ EmptyDay.number = None /\ ~EmptyDay.entered
  BY DEF EmptyDay, DayStates

LEMMA DayInType ==
  ASSUME MonthTypes, NEW c \in Cells, NEW i,
         i = 0 \/ (i \in DOMAIN months /\ months[i].kind = c[1])
  PROVE  DayIn(i, c) \in DayStates
  BY MonthsType, EmptyDayType DEF DayIn, CellsOf

LEMMA DayType ==
  ASSUME MonthTypes, NEW c \in Cells
  PROVE  Day(c) \in DayStates
  BY AnyMonthFacts, DayInType DEF Day, Month

LEMMA DayFields ==
  ASSUME NEW d \in DayStates
  PROVE  /\ d.status \in {"EMPTY", "DRAFT", "CONFIRMED"} /\ d.entered \in BOOLEAN
         /\ d.bill \in BillNumbers \cup {None} /\ d.number \in PassNumbers \cup {None} \cup Nat
         /\ d.records \in Seq(Nat)
  BY DEF DayStates

-----------------------------------------------------------------------------
(* Documents come at the end, and days are written in place. *)

LEMMA NewMonthType ==
  ASSUME NEW l \in Laundries \cup {None}, NEW k \in Kinds
  PROVE  /\ NewMonth(l, k) \in MonthDocs
         /\ NewMonth(l, k).kind = k
         /\ \A c \in CellsOf(k) : NewMonth(l, k).days[c] = EmptyDay
<1>1. [c \in CellsOf(k) |-> EmptyDay] \in [CellsOf(k) -> DayStates]
  BY EmptyDayType
<1>2. NewMonth(l, k) \in MonthDocsOf(k)
  BY <1>1 DEF NewMonth, MonthDocsOf
<1>3. NewMonth(l, k) \in MonthDocs
  BY <1>2 DEF MonthDocs, Kinds
<1> QED BY <1>3 DEF NewMonth

LEMMA MonthAppended ==
  ASSUME MonthTypes, NEW l \in Laundries \cup {None}, NEW k \in Kinds,
         months' = Append(months, NewMonth(l, k))
  PROVE  /\ months' \in Seq(MonthDocs)
         /\ Len(months') = Len(months) + 1 /\ DOMAIN months' = 1 .. Len(months) + 1
         /\ \A i \in DOMAIN months : i \in DOMAIN months' /\ months'[i] = months[i]
         /\ months'[Len(months) + 1] = NewMonth(l, k)
<1>1. /\ months \in Seq(MonthDocs) /\ NewMonth(l, k) \in MonthDocs
      /\ Len(months) \in Nat /\ DOMAIN months = 1 .. Len(months)
  BY MonthsType, NewMonthType
<1> HIDE DEF MonthDocs, NewMonth
<1> QED BY <1>1

LEMMA AnyMonthAppended ==
  ASSUME MonthTypes, NEW l \in Laundries \cup {None}, NEW k \in Kinds,
         months' = Append(months, NewMonth(l, k)), NEW j
  PROVE  AnyMonth(j)' = IF AnyMonth(j) # 0 THEN AnyMonth(j)
                        ELSE IF j = k THEN Len(months) + 1 ELSE 0
<1> DEFINE n == Len(months)
           S == {i \in DOMAIN months' : months'[i].kind = j}
<1>1. /\ n \in Nat /\ DOMAIN months = 1 .. n /\ DOMAIN months' = 1 .. n + 1
      /\ \A i \in DOMAIN months : months'[i] = months[i]
      /\ months'[n + 1].kind = k
  BY MonthsType, MonthAppended, NewMonthType
<1>2. /\ S = {} => First(S) = 0
      /\ S # {} => First(S) \in S /\ \A y \in S : First(S) <= y
  <2>1. n + 1 \in Nat /\ S \subseteq 1 .. n + 1
    BY <1>1
  <2> HIDE DEF S
  <2> QED BY <2>1, FirstFacts
<1>3. AnyMonth(j)' = First(S)
  BY DEF AnyMonth
<1>4. /\ AnyMonth(j) = 0 <=> \A i \in DOMAIN months : months[i].kind # j
      /\ AnyMonth(j) # 0 => /\ AnyMonth(j) \in DOMAIN months
                            /\ months[AnyMonth(j)].kind = j
                            /\ \A i \in DOMAIN months : months[i].kind = j => AnyMonth(j) <= i
  BY AnyMonthFacts
<1>5. CASE AnyMonth(j) # 0
  <2> DEFINE m == AnyMonth(j)
  <2>1. m \in S /\ m \in 1 .. n
    BY <1>1, <1>4, <1>5
  <2>2. \A i \in S : m <= i
    BY <1>1, <1>4, <1>5
  <2>3. First(S) \in S /\ First(S) <= m /\ m <= First(S)
    BY <1>2, <2>1, <2>2
  <2>4. S \subseteq 1 .. n + 1
    BY <1>1
  <2>0. \A x \in 1 .. n + 1 : x \in Int
    BY <1>1
  <2> HIDE DEF S, m, n
  <2>5. First(S) \in Int /\ m \in Int
    BY <2>0, <2>1, <2>3, <2>4, Zenon
  <2> DEFINE f == First(S)
  <2>6. f <= m /\ m <= f /\ f \in Int
    BY <2>3, <2>5
  <2> HIDE DEF f
  <2>7. f = m
    BY <2>5, <2>6
  <2> QED BY <2>7, <1>3, <1>5 DEF m, f
<1>6. CASE AnyMonth(j) = 0
  <2>1. S = IF j = k THEN {n + 1} ELSE {}
    BY <1>1, <1>4, <1>6
  <2> HIDE DEF S
  <2> QED BY <1>2, <1>3, <1>6, <2>1
<1> QED BY <1>5, <1>6

LEMMA AnyMonthKept ==
  ASSUME DOMAIN months' = DOMAIN months,
         \A i \in DOMAIN months : months'[i].kind = months[i].kind, NEW j
  PROVE  AnyMonth(j)' = AnyMonth(j)
<1>1. {i \in DOMAIN months' : months'[i].kind = j} = {i \in DOMAIN months : months[i].kind = j}
  OBVIOUS
<1> QED BY <1>1, Zenon DEF AnyMonth

(* A new document changes no day anyone sees. *)
LEMMA DayAppended ==
  ASSUME MonthTypes, NEW l \in Laundries \cup {None}, NEW k \in Kinds,
         months' = Append(months, NewMonth(l, k)), NEW c \in Cells
  PROVE  /\ Day(c)' = Day(c)
         /\ Month(c) # 0 => Month(c)' = Month(c)
         /\ Month(c) = 0 /\ c[1] = k => Month(c)' = Len(months) + 1
<1>1. /\ Len(months) \in Nat /\ DOMAIN months = 1 .. Len(months)
      /\ \A i \in DOMAIN months : months'[i] = months[i]
      /\ months'[Len(months) + 1] = NewMonth(l, k)
  BY MonthsType, MonthAppended
<1>2. Month(c)' = IF Month(c) # 0 THEN Month(c)
                  ELSE IF c[1] = k THEN Len(months) + 1 ELSE 0
  BY AnyMonthAppended DEF Month
<1>3. CASE Month(c) # 0
  <2>1. Month(c) \in DOMAIN months
    BY <1>3, AnyMonthFacts DEF Month
  <2>2. Month(c)' = Month(c)
    BY <1>2, <1>3
  <2> QED BY <1>1, <1>3, <2>1, <2>2 DEF Day, DayIn
<1>4. CASE Month(c) = 0 /\ c[1] = k
  <2>1. Month(c)' = Len(months) + 1
    BY <1>2, <1>4
  <2>2. months'[Len(months) + 1].days[c] = EmptyDay
    BY <1>1, <1>4, NewMonthType DEF CellsOf
  <2> QED BY <1>1, <1>4, <2>1, <2>2 DEF Day, DayIn
<1>5. CASE Month(c) = 0 /\ c[1] # k
  BY <1>2, <1>5 DEF Day, DayIn
<1> QED BY <1>3, <1>4, <1>5

LEMMA MonthWritten ==
  ASSUME MonthTypes, NEW i \in DOMAIN months, NEW c \in Cells, months[i].kind = c[1],
         NEW day \in DayStates, SetDay(i, c, day)
  PROVE  /\ months' \in Seq(MonthDocs)
         /\ Len(months') = Len(months) /\ DOMAIN months' = DOMAIN months
         /\ \A j \in DOMAIN months :
              /\ months'[j].kind = months[j].kind
              /\ \A d \in CellsOf(months[j].kind) :
                   months'[j].days[d] = IF j = i /\ d = c THEN day ELSE months[j].days[d]
<1> DEFINE m == [months[i] EXCEPT !.days[c] = day]
<1>1. /\ months \in Seq(MonthDocs) /\ Len(months) \in Nat /\ DOMAIN months = 1 .. Len(months)
      /\ \A j \in DOMAIN months : months[j].days \in [CellsOf(months[j].kind) -> DayStates]
      /\ months[i].kind \in Kinds /\ months[i].laundry \in Laundries \cup {None}
      /\ months[i] = [laundry |-> months[i].laundry, kind |-> months[i].kind,
                      days |-> months[i].days]
  BY MonthsType
<1>2. c \in CellsOf(months[i].kind)
  BY DEF CellsOf
<1>3. /\ m = [laundry |-> months[i].laundry, kind |-> months[i].kind,
              days |-> [months[i].days EXCEPT ![c] = day]]
  BY <1>1
<1>4. [months[i].days EXCEPT ![c] = day] \in [CellsOf(months[i].kind) -> DayStates]
  BY <1>1, <1>2
<1>5. m \in MonthDocs
  <2>1. m \in MonthDocsOf(months[i].kind)
    BY <1>1, <1>3, <1>4 DEF MonthDocsOf
  <2> HIDE DEF m
  <2> QED BY <1>1, <2>1 DEF MonthDocs, Kinds
<1>6. months' = [months EXCEPT ![i] = m]
  BY DEF SetDay
<1>7. m.kind = months[i].kind /\ m.days = [months[i].days EXCEPT ![c] = day]
  BY <1>3
<1> HIDE DEF m
<1>8. /\ months' \in Seq(MonthDocs)
      /\ Len(months') = Len(months) /\ DOMAIN months' = DOMAIN months
      /\ \A j \in DOMAIN months : months'[j] = IF j = i THEN m ELSE months[j]
  BY <1>1, <1>5, <1>6
<1>9. \A d \in CellsOf(months[i].kind) : m.days[d] = IF d = c THEN day ELSE months[i].days[d]
  BY <1>1, <1>7
<1> QED BY <1>7, <1>8, <1>9

LEMMA DayWritten ==
  ASSUME MonthTypes, NEW i \in DOMAIN months, NEW c \in Cells, months[i].kind = c[1],
         NEW day \in DayStates, SetDay(i, c, day), NEW d \in Cells
  PROVE  /\ Month(d)' = Month(d)
         /\ Day(d)' = IF d = c /\ i = Month(c) THEN day ELSE Day(d)
<1>1. /\ DOMAIN months' = DOMAIN months
      /\ \A j \in DOMAIN months :
           /\ months'[j].kind = months[j].kind
           /\ \A e \in CellsOf(months[j].kind) :
                months'[j].days[e] = IF j = i /\ e = c THEN day ELSE months[j].days[e]
  BY MonthWritten
<1>2. Month(d)' = Month(d)
  BY <1>1, AnyMonthKept DEF Month
<1>3. CASE Month(d) = 0
  <2>1. d # c
    BY <1>3, AnyMonthFacts DEF Month
  <2> QED BY <1>2, <1>3, <2>1 DEF Day, DayIn
<1>4. CASE Month(d) # 0
  <2>1. Month(d) \in DOMAIN months /\ d \in CellsOf(months[Month(d)].kind)
    BY <1>4, AnyMonthFacts DEF Month, CellsOf
  <2>2. months'[Month(d)].days[d]
          = IF Month(d) = i /\ d = c THEN day ELSE months[Month(d)].days[d]
    BY <1>1, <2>1
  <2> QED BY <1>2, <1>4, <2>2 DEF Day, DayIn
<1> QED BY <1>3, <1>4

-----------------------------------------------------------------------------
(* Requests, field by field. *)

LEMMA RequestFields ==
  ASSUME NEW rq \in Requests
  PROVE  /\ rq.pc \in PCs /\ rq.op \in AllOps /\ rq.laundry \in Laundries
         /\ rq.cell \in Cells \cup {None} /\ rq.owner \in Cells \cup PassOwners \cup {<<>>}
         /\ rq.month \in Nat /\ rq.seen \in DayStates /\ rq.entered \in BOOLEAN
         /\ rq.refs \in ShownNumbers /\ rq.left \subseteq Fields /\ rq.owned \subseteq Scopes
         /\ rq.plan \in Int /\ rq.made \in Seq(Nat) /\ rq.key \in Keys \cup {None}
  BY DEF Requests

LEMMA IdleFacts ==
  /\ IdleRequest \in Requests /\ IdleRequest.pc = "idle" /\ IdleRequest.op = "save"
  /\ IdleRequest.month = 0 /\ IdleRequest.made = <<>> /\ IdleRequest.owner = <<>>
<1>1. NoReferences \in ShownNumbers
  BY DEF NoReferences, ShownNumbers
<1> QED BY <1>1, EmptyDayType, LaundriesAssumption DEF IdleRequest, Requests, PCs, AllOps, Fields

(* One slot moves, the others stay. *)
Acts(s) ==
  /\ request' \in [Slots -> Requests]
  /\ \A t \in Slots : t # s => request'[t] = request[t]

LEMMA RequestMoves ==
  ASSUME MonthTypes, NEW s \in Slots, NEW nq \in Requests, request' = [request EXCEPT ![s] = nq]
  PROVE  Acts(s) /\ request'[s] = nq
<1>1. request \in [Slots -> Requests]
  BY DEF MonthTypes
<1> HIDE DEF Requests
<1> QED BY <1>1 DEF Acts

LEMMA FinishFacts ==
  ASSUME MonthTypes, NEW s \in Slots, Finish(s)
  PROVE  Acts(s) /\ request'[s] = IdleRequest
  BY RequestMoves, IdleFacts DEF Finish

(* What a request keeps: who asks for what, and what it knows.              *)
SameOwn(s) ==
  /\ request'[s].op = request[s].op /\ request'[s].laundry = request[s].laundry
  /\ request'[s].cell = request[s].cell /\ request'[s].owner = request[s].owner
  /\ request'[s].entered = request[s].entered /\ request'[s].refs = request[s].refs
  /\ request'[s].key = request[s].key

SameDay(s) == request'[s].month = request[s].month /\ request'[s].seen = request[s].seen

SameClaims(s) == request'[s].left = request[s].left /\ request'[s].owned = request[s].owned

SameWork(s) == request'[s].plan = request[s].plan /\ request'[s].made = request[s].made

LEMMA GotoFacts ==
  ASSUME MonthTypes, NEW s \in Slots, NEW pc \in PCs, Goto(s, pc)
  PROVE  /\ Acts(s) /\ SameOwn(s) /\ SameDay(s) /\ SameClaims(s) /\ SameWork(s)
         /\ request'[s].pc = pc
<1> DEFINE nq == [request[s] EXCEPT !.pc = pc]
<1>1. request[s] \in Requests
  BY DEF MonthTypes
<1>2. nq \in Requests
  BY <1>1 DEF Requests
<1>3. request' = [request EXCEPT ![s] = nq]
  BY DEF Goto
<1>4. Acts(s) /\ request'[s] = nq
  BY <1>2, <1>3, RequestMoves
<1>5. /\ nq.op = request[s].op /\ nq.laundry = request[s].laundry /\ nq.cell = request[s].cell
      /\ nq.owner = request[s].owner /\ nq.entered = request[s].entered
      /\ nq.refs = request[s].refs /\ nq.key = request[s].key /\ nq.month = request[s].month
      /\ nq.seen = request[s].seen /\ nq.left = request[s].left /\ nq.owned = request[s].owned
      /\ nq.plan = request[s].plan /\ nq.made = request[s].made /\ nq.pc = pc
  BY <1>1 DEF Requests
<1> QED BY <1>4, <1>5 DEF SameOwn, SameDay, SameClaims, SameWork

(* The slot moves to another await, with other claims. *)
LEMMA ClaimsFacts ==
  ASSUME MonthTypes, NEW s \in Slots, NEW pc \in PCs, NEW left \in SUBSET Fields,
         NEW owned \in SUBSET Scopes,
         request' = [request EXCEPT ![s] = [request[s] EXCEPT !.owned = owned, !.left = left,
                                                              !.pc = pc]]
  PROVE  /\ Acts(s) /\ SameOwn(s) /\ SameDay(s) /\ SameWork(s)
         /\ request'[s].pc = pc /\ request'[s].left = left /\ request'[s].owned = owned
<1> DEFINE nq == [request[s] EXCEPT !.owned = owned, !.left = left, !.pc = pc]
<1>1. request[s] \in Requests
  BY DEF MonthTypes
<1>2. nq \in Requests
  BY <1>1 DEF Requests
<1>4. Acts(s) /\ request'[s] = nq
  BY <1>2, RequestMoves
<1>5. /\ nq.op = request[s].op /\ nq.laundry = request[s].laundry /\ nq.cell = request[s].cell
      /\ nq.owner = request[s].owner /\ nq.entered = request[s].entered
      /\ nq.refs = request[s].refs /\ nq.key = request[s].key /\ nq.month = request[s].month
      /\ nq.seen = request[s].seen /\ nq.left = left /\ nq.owned = owned
      /\ nq.plan = request[s].plan /\ nq.made = request[s].made /\ nq.pc = pc
  BY <1>1 DEF Requests
<1> QED BY <1>4, <1>5 DEF SameOwn, SameDay, SameWork

(* The same, with another document or copy of the day. *)
LEMMA PlaceFacts ==
  ASSUME MonthTypes, NEW s \in Slots, NEW pc \in PCs, NEW left \in SUBSET Fields,
         NEW month \in Nat, NEW seen \in DayStates,
         request' = [request EXCEPT ![s] = [request[s] EXCEPT !.month = month, !.seen = seen,
                                                              !.left = left, !.pc = pc]]
  PROVE  /\ Acts(s) /\ SameOwn(s) /\ SameWork(s)
         /\ request'[s].pc = pc /\ request'[s].left = left
         /\ request'[s].month = month /\ request'[s].seen = seen
<1> DEFINE nq == [request[s] EXCEPT !.month = month, !.seen = seen, !.left = left, !.pc = pc]
<1>1. request[s] \in Requests
  BY DEF MonthTypes
<1>2. nq \in Requests
  BY <1>1 DEF Requests
<1>4. Acts(s) /\ request'[s] = nq
  BY <1>2, RequestMoves
<1>5. /\ nq.op = request[s].op /\ nq.laundry = request[s].laundry /\ nq.cell = request[s].cell
      /\ nq.owner = request[s].owner /\ nq.entered = request[s].entered
      /\ nq.refs = request[s].refs /\ nq.key = request[s].key /\ nq.month = month
      /\ nq.seen = seen /\ nq.left = left
      /\ nq.plan = request[s].plan /\ nq.made = request[s].made /\ nq.pc = pc
  BY <1>1 DEF Requests
<1> QED BY <1>4, <1>5 DEF SameOwn, SameWork

-----------------------------------------------------------------------------
(* Numbers, field by field. *)

LEMMA RefsFields ==
  ASSUME NEW refs \in ShownNumbers
  PROVE  /\ refs["bill"] = refs.bill /\ refs["number"] = refs.number
         /\ refs.bill \in BillNumbers \cup {None}
         /\ refs.number \in PassNumbers \cup {None} \cup Nat
         /\ Given(refs) \subseteq {"bill", "number"}
         /\ "bill" \in Given(refs) <=> refs.bill # None
         /\ "number" \in Given(refs) <=> refs.number # None
         /\ refs = [bill |-> refs.bill, number |-> refs.number]
  BY DEF ShownNumbers, Given, Fields

LEMMA NumbersOfFacts ==
  ASSUME NEW refs \in ShownNumbers
  PROVE  \A v : v \in NumbersOf(refs) <=> v # None /\ (v = refs.bill \/ v = refs.number)
  BY RefsFields DEF NumbersOf

LEMMA RefsOfType ==
  ASSUME NEW d \in DayStates
  PROVE  /\ RefsOf(d) \in ShownNumbers /\ RefsOf(d).bill = d.bill /\ RefsOf(d).number = d.number
  BY DayFields DEF RefsOf, ShownNumbers

LEMMA NextFieldFacts ==
  ASSUME NEW left \in SUBSET Fields, left # {}
  PROVE  NextField(left) \in left /\ NextField(left) \in {"bill", "number"}
  BY DEF NextField, Fields

LEMMA ScopeFacts ==
  ASSUME NEW v, NEW f, NEW l
  PROVE  /\ ScopeKey(v, f, l)[1] = v
         /\ ScopeKey(v, "bill", l) = <<v, l>> /\ ScopeKey(v, "number", l) = <<v, None>>
  BY DEF ScopeKey

LEMMA ReservationFacts ==
  ASSUME NEW v, NEW f, NEW l, NEW o
  PROVE  /\ Reservation(v, f, l, o).value = v /\ Reservation(v, f, l, o).field = f
         /\ Reservation(v, f, l, o).laundry = l /\ Reservation(v, f, l, o).owner = o
         /\ Reservation(v, f, l, o).scope = ScopeKey(v, f, l)
  BY DEF Reservation

LEMMA ReservedFields ==
  ASSUME MonthTypes, NEW r \in reserved
  PROVE  /\ r.value \in BillNumbers \cup PassNumbers \cup Nat /\ r.field \in Fields
         /\ r.laundry \in Laundries /\ r.owner \in Cells \cup KnownOwners
         /\ r.scope = ScopeKey(r.value, r.field, r.laundry) /\ r.scope[1] = r.value
         /\ r.scope \in Scopes
<1>1. /\ r.value \in BillNumbers \cup PassNumbers \cup Nat /\ r.field \in Fields
      /\ r.laundry \in Laundries /\ r.owner \in Cells \cup KnownOwners
      /\ r = Reservation(r.value, r.field, r.laundry, r.owner)
  BY DEF MonthTypes, ReservationOK
<1>2. r.scope = ScopeKey(r.value, r.field, r.laundry)
  <2>1. Reservation(r.value, r.field, r.laundry, r.owner).scope
          = ScopeKey(r.value, r.field, r.laundry)
    BY ReservationFacts
  <2> QED BY <1>1, <2>1, Zenon
<1>3. ScopeKey(r.value, r.field, r.laundry) \in Scopes
  BY <1>1 DEF ScopeKey, Scopes
<1> QED BY <1>1, <1>2, <1>3, ScopeFacts

LEMMA OwnedScopesType ==
  ASSUME MonthTypes, NEW o
  PROVE  OwnedScopes(reserved, o) \subseteq Scopes
  BY ReservedFields DEF OwnedScopes

LEMMA KnownAreOwners ==
  ASSUME MonthTypes
  PROVE  KnownOwners \subseteq PassOwners /\ started \in Nat
  BY BoundsAssumption DEF KnownOwners, PassOwners, MonthTypes

LEMMA RequestIn ==
  ASSUME MonthTypes, NEW s \in Slots
  PROVE  request[s] \in Requests /\ request[s].month \in 0 .. Len(months)
<1>1. request[s] \in Requests /\ request[s].month <= Len(months)
  BY DEF MonthTypes
<1>2. request[s].month \in Nat
  BY <1>1, RequestFields
<1>3. Len(months) \in Nat
  BY MonthsType
<1> QED BY <1>1, <1>2, <1>3

(* What a request claims is a number. *)
LEMMA ReservesFacts ==
  ASSUME MonthTypes, NEW s \in Slots, RequestShape(request[s]),
         request[s].pc \in {"check", "readOwned", "claim", "unclaim"}
  PROVE  /\ request[s].op \in {"save", "pass"}
         /\ Reserves(request[s]) \subseteq Fields /\ Reserves(request[s]) # {}
         /\ request[s].op = "save" => Reserves(request[s]) = Given(request[s].refs)
         /\ request[s].op = "pass" => Reserves(request[s]) = {"number"}
         /\ \A f \in Reserves(request[s]) :
              request[s].refs[f] \in BillNumbers \cup PassNumbers \cup Nat
<1>1. request[s].op \in {"save", "pass"}
  BY RequestIn, RequestFields DEF RequestShape, Awaits, AllOps
<1>2. request[s].refs \in ShownNumbers
  BY RequestIn, RequestFields
<1>3. request[s].op = "pass" => request[s].refs.number \in PassNumbers
  BY DEF RequestShape
<1>4. Reserves(request[s]) # {}
  BY DEF RequestShape
<1>5. \A f \in Given(request[s].refs) :
        request[s].refs[f] \in BillNumbers \cup PassNumbers \cup Nat
  BY <1>2, RefsFields
<1>6. Given(request[s].refs) \subseteq Fields
  BY DEF Given
<1> QED BY <1>1, <1>2, <1>3, <1>4, <1>5, <1>6, RefsFields DEF Reserves, Fields

-----------------------------------------------------------------------------
(* What each await makes of its request. *)

LEMMA BeginReserveFacts ==
  ASSUME NEW rq \in Requests, NEW fields \in SUBSET Fields, rq.op \in {"save", "pass"}
  PROVE  LET nq == BeginReserve(rq, fields)
         IN  /\ nq \in Requests /\ nq.left = fields
             /\ nq.pc = IF fields = {} THEN AfterClaim(rq) ELSE "check"
             /\ nq.op = rq.op /\ nq.laundry = rq.laundry /\ nq.cell = rq.cell
             /\ nq.owner = rq.owner /\ nq.entered = rq.entered /\ nq.refs = rq.refs
             /\ nq.key = rq.key /\ nq.month = rq.month /\ nq.seen = rq.seen
             /\ nq.plan = rq.plan /\ nq.made = rq.made /\ nq.owned = rq.owned
<1> DEFINE pc == IF fields = {} THEN AfterClaim(rq) ELSE "check"
<1>1. pc \in PCs
  BY DEF AfterClaim, PCs
<1> HIDE DEF pc
<1>2. BeginReserve(rq, fields) = [rq EXCEPT !.left = fields, !.pc = pc]
  BY DEF BeginReserve, pc
<1>3. [rq EXCEPT !.left = fields, !.pc = pc] \in Requests
  BY <1>1 DEF Requests
<1>4. LET nq == [rq EXCEPT !.left = fields, !.pc = pc]
      IN  /\ nq.left = fields /\ nq.pc = pc
          /\ nq.op = rq.op /\ nq.laundry = rq.laundry /\ nq.cell = rq.cell
          /\ nq.owner = rq.owner /\ nq.entered = rq.entered /\ nq.refs = rq.refs
          /\ nq.key = rq.key /\ nq.month = rq.month /\ nq.seen = rq.seen
          /\ nq.plan = rq.plan /\ nq.made = rq.made /\ nq.owned = rq.owned
  BY DEF Requests
<1> QED BY <1>2, <1>3, <1>4 DEF pc

LEMMA InsertNewMonthFacts ==
  ASSUME MonthTypes, NEW s \in Slots, RequestShape(request[s]), InsertNewMonth(s)
  PROVE  /\ request[s].pc = "newMonth" /\ request[s].op = "save"
         /\ Acts(s) /\ SameOwn(s) /\ SameWork(s)
         /\ request'[s].month = Len(months) + 1 /\ request'[s].seen = request[s].seen
         /\ request'[s].left = Given(request[s].refs)
         /\ request'[s].pc = IF Given(request[s].refs) = {} THEN "write" ELSE "check"
         /\ months' = Append(months, NewMonth(request[s].laundry, request[s].cell[1]))
         /\ request[s].cell[1] \in Kinds /\ request[s].laundry \in Laundries
<1> DEFINE rq == [request[s] EXCEPT !.month = Len(months) + 1]
           nq == BeginReserve(rq, Given(request[s].refs))
<1>1. /\ request[s] \in Requests /\ Len(months) + 1 \in Nat
      /\ Given(request[s].refs) \in SUBSET Fields
  BY RequestIn, MonthsType DEF Given
<1>2. request[s].pc = "newMonth" /\ request[s].op = "save"
  BY <1>1, RequestFields DEF InsertNewMonth, RequestShape, Awaits, AllOps
<1>3. /\ rq \in Requests /\ rq.op = request[s].op /\ rq.laundry = request[s].laundry
      /\ rq.cell = request[s].cell /\ rq.owner = request[s].owner
      /\ rq.entered = request[s].entered /\ rq.refs = request[s].refs
      /\ rq.key = request[s].key /\ rq.month = Len(months) + 1 /\ rq.seen = request[s].seen
      /\ rq.plan = request[s].plan /\ rq.made = request[s].made
  BY <1>1 DEF Requests
<1>4. request' = [request EXCEPT ![s] = nq]
  BY DEF InsertNewMonth
<1>5. /\ nq \in Requests /\ nq.left = Given(request[s].refs)
      /\ nq.pc = IF Given(request[s].refs) = {} THEN "write" ELSE "check"
      /\ nq.op = rq.op /\ nq.laundry = rq.laundry /\ nq.cell = rq.cell
      /\ nq.owner = rq.owner /\ nq.entered = rq.entered /\ nq.refs = rq.refs
      /\ nq.key = rq.key /\ nq.month = rq.month /\ nq.seen = rq.seen
      /\ nq.plan = rq.plan /\ nq.made = rq.made
  <2> HIDE DEF rq
  <2> QED BY <1>1, <1>2, <1>3, BeginReserveFacts DEF AfterClaim
<1> HIDE DEF nq, rq
<1>6. Acts(s) /\ request'[s] = nq
  BY <1>4, <1>5, RequestMoves
<1>7. months' = Append(months, NewMonth(request[s].laundry, request[s].cell[1]))
  BY DEF InsertNewMonth, InsertMonth
<1>8. request[s].cell[1] \in Kinds /\ request[s].laundry \in Laundries
  BY <1>1, RequestFields, CellsAssumption DEF RequestShape
<1> QED BY <1>2, <1>3, <1>5, <1>6, <1>7, <1>8 DEF SameOwn, SameWork

LEMMA CheckNumberFacts ==
  ASSUME MonthTypes, NEW s \in Slots, RequestShape(request[s]), CheckNumber(s)
  PROVE  LET f == NextField(request[s].left)
         IN  /\ request[s].pc = "check" /\ f \in request[s].left
             /\ Acts(s)
             /\ \/ request'[s] = IdleRequest
                \/ /\ SameOwn(s) /\ SameDay(s) /\ SameWork(s)
                   /\ request'[s].owned = request[s].owned
                   /\ request'[s].left = request[s].left \ {f}
                   /\ request'[s].pc = IF request[s].left = {f} THEN "readOwned" ELSE "check"
<1> DEFINE rq == request[s]
           f == NextField(rq.left)
           pc == IF rq.left = {f} THEN "readOwned" ELSE "check"
           left == rq.left \ {f}
           owned == rq.owned
<1>1. rq.pc = "check"
  BY DEF CheckNumber
<1>2. /\ rq \in Requests /\ rq.left \in SUBSET Fields /\ rq.left # {} /\ rq.owned \in SUBSET Scopes
  BY <1>1, RequestIn, RequestFields DEF RequestShape
<1>3. f \in rq.left
  BY <1>2, NextFieldFacts
<1>4. \/ Finish(s)
      \/ request' = [request EXCEPT ![s].left = left, ![s].pc = pc]
  BY DEF CheckNumber
<1>5. ASSUME request' = [request EXCEPT ![s].left = left, ![s].pc = pc]
      PROVE  /\ Acts(s) /\ SameOwn(s) /\ SameDay(s) /\ SameWork(s)
             /\ request'[s].owned = rq.owned
             /\ request'[s].left = left /\ request'[s].pc = pc
  <2>1. pc \in PCs /\ left \in SUBSET Fields
    BY <1>2 DEF PCs
  <2>0. owned \in SUBSET Scopes
    BY <1>2
  <2> HIDE DEF f, pc, left
  <2>2. [request EXCEPT ![s].left = left, ![s].pc = pc]
          = [request EXCEPT ![s] = [rq EXCEPT !.owned = owned, !.left = left,
                                              !.pc = pc]]
    <3>1. [rq EXCEPT !.owned = owned, !.left = left, !.pc = pc]
            = [rq EXCEPT !.left = left, !.pc = pc]
      BY <1>2 DEF Requests
    <3> QED BY <3>1 DEF MonthTypes
  <2>3. request' = [request EXCEPT ![s] = [request[s] EXCEPT !.owned = owned, !.left = left,
                                                              !.pc = pc]]
    BY <1>5, <2>2, Zenon
  <2> HIDE DEF owned
  <2>4. /\ Acts(s) /\ SameOwn(s) /\ SameDay(s) /\ SameWork(s)
        /\ request'[s].owned = owned
        /\ request'[s].left = left /\ request'[s].pc = pc
    BY <2>0, <2>1, <2>3, ClaimsFacts
  <2> QED BY <2>4 DEF owned
<1> QED BY <1>1, <1>3, <1>4, <1>5, FinishFacts

LEMMA ReadOwnedFacts ==
  ASSUME MonthTypes, NEW s \in Slots, RequestShape(request[s]), ReadOwned(s)
  PROVE  /\ request[s].pc = "readOwned"
         /\ Acts(s) /\ SameOwn(s) /\ SameDay(s) /\ SameWork(s)
         /\ request'[s].owned = OwnedScopes(reserved, request[s].owner)
         /\ request'[s].left = Reserves(request[s]) /\ request'[s].pc = "claim"
<1> DEFINE rq == request[s]
           owned == OwnedScopes(reserved, rq.owner)
           left == Reserves(rq)
<1>1. rq.pc = "readOwned"
  BY DEF ReadOwned
<1>2. owned \in SUBSET Scopes /\ left \in SUBSET Fields /\ "claim" \in PCs
  BY <1>1, OwnedScopesType, ReservesFacts DEF PCs
<1>3. request' = [request EXCEPT ![s].owned = owned, ![s].left = left, ![s].pc = "claim"]
  BY DEF ReadOwned
<1> HIDE DEF owned, left
<1>4. request' = [request EXCEPT ![s] = [rq EXCEPT !.owned = owned, !.left = left, !.pc = "claim"]]
  BY <1>3 DEF MonthTypes
<1>5. /\ Acts(s) /\ SameOwn(s) /\ SameDay(s) /\ SameWork(s)
      /\ request'[s].owned = owned /\ request'[s].left = left /\ request'[s].pc = "claim"
  BY <1>2, <1>4, ClaimsFacts
<1> QED BY <1>1, <1>5 DEF owned, left

(* The claim of the field that is next. *)
ClaimOf(rq) ==
  Reservation(rq.refs[NextField(rq.left)], NextField(rq.left), rq.laundry, rq.owner)

LEMMA ClaimFacts ==
  ASSUME MonthTypes, NEW s \in Slots, RequestShape(request[s]), Claim(s)
  PROVE  LET f == NextField(request[s].left)
         IN  /\ request[s].pc = "claim" /\ f \in request[s].left
             /\ Acts(s) /\ SameOwn(s) /\ SameDay(s) /\ SameWork(s)
             /\ request'[s].owned = request[s].owned
             /\ \/ /\ DuplicateKey(reserved, ClaimOf(request[s])) /\ reserved' = reserved
                   /\ request'[s].left = request[s].left /\ request'[s].pc = "unclaim"
                \/ /\ ~DuplicateKey(reserved, ClaimOf(request[s]))
                   /\ reserved' = Upsert(reserved, ClaimOf(request[s]))
                   /\ request'[s].left = request[s].left \ {f}
                   /\ request'[s].pc = IF request[s].left = {f} THEN AfterClaim(request[s])
                                       ELSE "claim"
<1> DEFINE rq == request[s]
           f == NextField(rq.left)
           pc == IF rq.left = {f} THEN AfterClaim(rq) ELSE "claim"
           left == rq.left \ {f}
           owned == rq.owned
<1>1. rq.pc = "claim"
  BY DEF Claim
<1>2. /\ rq \in Requests /\ rq.left \in SUBSET Fields /\ rq.left # {} /\ rq.owned \in SUBSET Scopes
  BY <1>1, RequestIn, RequestFields DEF RequestShape
<1>3. f \in rq.left
  BY <1>2, NextFieldFacts
<1>4. \/ /\ DuplicateKey(reserved, ClaimOf(rq)) /\ reserved' = reserved /\ Goto(s, "unclaim")
      \/ /\ ~DuplicateKey(reserved, ClaimOf(rq)) /\ reserved' = Upsert(reserved, ClaimOf(rq))
         /\ request' = [request EXCEPT ![s].left = left, ![s].pc = pc]
  BY DEF Claim, ClaimOf
<1>5. ASSUME request' = [request EXCEPT ![s].left = left, ![s].pc = pc]
      PROVE  /\ Acts(s) /\ SameOwn(s) /\ SameDay(s) /\ SameWork(s)
             /\ request'[s].owned = rq.owned
             /\ request'[s].left = left /\ request'[s].pc = pc
  <2>1. pc \in PCs /\ left \in SUBSET Fields
    BY <1>2 DEF PCs, AfterClaim
  <2>0. owned \in SUBSET Scopes
    BY <1>2
  <2> HIDE DEF f, pc, left
  <2>2. [request EXCEPT ![s].left = left, ![s].pc = pc]
          = [request EXCEPT ![s] = [rq EXCEPT !.owned = owned, !.left = left,
                                              !.pc = pc]]
    <3>1. [rq EXCEPT !.owned = owned, !.left = left, !.pc = pc]
            = [rq EXCEPT !.left = left, !.pc = pc]
      BY <1>2 DEF Requests
    <3> QED BY <3>1 DEF MonthTypes
  <2>3. request' = [request EXCEPT ![s] = [request[s] EXCEPT !.owned = owned, !.left = left,
                                                              !.pc = pc]]
    BY <1>5, <2>2, Zenon
  <2> HIDE DEF owned
  <2>4. /\ Acts(s) /\ SameOwn(s) /\ SameDay(s) /\ SameWork(s)
        /\ request'[s].owned = owned
        /\ request'[s].left = left /\ request'[s].pc = pc
    BY <2>0, <2>1, <2>3, ClaimsFacts
  <2> QED BY <2>4 DEF owned
<1>6. ASSUME Goto(s, "unclaim")
      PROVE  /\ Acts(s) /\ SameOwn(s) /\ SameDay(s) /\ SameWork(s) /\ SameClaims(s)
             /\ request'[s].pc = "unclaim"
  <2>1. "unclaim" \in PCs
    BY DEF PCs
  <2> QED BY <1>6, <2>1, GotoFacts
<1> HIDE DEF pc
<1> QED BY <1>1, <1>3, <1>4, <1>5, <1>6, Zenon DEF SameClaims, pc

LEMMA UnclaimFacts ==
  ASSUME MonthTypes, NEW s \in Slots, Unclaim(s)
  PROVE  /\ request[s].pc = "unclaim" /\ Acts(s) /\ request'[s] = IdleRequest
         /\ reserved' = WithoutNew(reserved, request[s].owner,
                          {ScopeKey(request[s].refs[f], f, request[s].laundry) :
                             f \in Reserves(request[s])}, request[s].owned)
  BY FinishFacts, Zenon DEF Unclaim

(* What a save makes of its day. *)
SavedDay(rq) ==
  IF rq.entered \/ Given(rq.refs) # {}
  THEN [status |-> "DRAFT", entered |-> rq.entered, bill |-> rq.refs.bill,
        number |-> rq.refs.number, records |-> rq.seen.records]
  ELSE EmptyDay

LEMMA WriteDayFacts ==
  ASSUME MonthTypes, NEW s \in Slots, WriteDay(s)
  PROVE  /\ request[s].pc = "write"
         /\ Acts(s) /\ SameOwn(s) /\ SameDay(s) /\ SameClaims(s) /\ SameWork(s)
         /\ request'[s].pc = "release"
         /\ SavedDay(request[s]) \in DayStates
         /\ SetDay(request[s].month, request[s].cell, SavedDay(request[s]))
<1>1. request[s] \in Requests
  BY RequestIn
<1>2. SavedDay(request[s]) \in DayStates
  <2>1. /\ request[s].refs \in ShownNumbers /\ request[s].entered \in BOOLEAN
        /\ request[s].seen.records \in Seq(Nat)
    BY <1>1, RequestFields, DayFields
  <2> QED BY <2>1, RefsFields, EmptyDayType DEF SavedDay, DayStates
<1>3. Goto(s, "release") /\ "release" \in PCs
  BY DEF WriteDay, PCs
<1>4. /\ request[s].pc = "write"
      /\ SetDay(request[s].month, request[s].cell, SavedDay(request[s]))
  BY DEF WriteDay, SavedDay
<1> QED BY <1>2, <1>3, <1>4, GotoFacts

LEMMA ReleaseFacts ==
  ASSUME MonthTypes, NEW s \in Slots, Release(s)
  PROVE  /\ request[s].pc = "release" /\ Acts(s) /\ request'[s] = IdleRequest
         /\ reserved' = Released(reserved, request[s].owner,
                          NumbersOf(RefsOf(request[s].seen)) \ NumbersOf(request[s].refs))
  BY FinishFacts, Zenon DEF Release

LEMMA UnsetFacts ==
  ASSUME MonthTypes, NEW s \in Slots, Unset(s)
  PROVE  /\ request[s].pc = "unset"
         /\ Acts(s) /\ SameOwn(s) /\ SameDay(s) /\ SameClaims(s) /\ SameWork(s)
         /\ request'[s].pc = "release"
         /\ SetDay(request[s].month, request[s].cell, EmptyDay)
<1>1. "release" \in PCs
  BY DEF PCs
<1> QED BY <1>1, GotoFacts DEF Unset

LEMMA RecordsType ==
  ASSUME MonthTypes
  PROVE  /\ records \in Seq(RecordDocs) /\ Len(records) \in Nat
         /\ DOMAIN records = 1 .. Len(records)
         /\ \A i \in DOMAIN records :
              /\ records[i].laundry \in Laundries /\ records[i].cell \in Cells
              /\ records[i].bill \in BillNumbers \cup {None}
              /\ records[i].made \in {"grid", "hand"}
              /\ records[i].number \in PassNumbers \cup Nat
<1>1. records \in Seq(RecordDocs)
  BY DEF MonthTypes
<1>2. \A i \in DOMAIN records : records[i] \in RecordDocs
  BY <1>1
<1>3. Len(records) \in Nat /\ DOMAIN records = 1 .. Len(records)
  BY <1>1
<1> QED BY <1>1, <1>2, <1>3 DEF RecordDocs

LEMMA RecordForType ==
  ASSUME MonthTypes, NEW rq \in Requests, rq.cell \in Cells
  PROVE  /\ RecordFor(rq) \in RecordDocs /\ RecordFor(rq).cell = rq.cell
         /\ RecordFor(rq).bill = rq.refs.bill
         /\ RecordFor(rq).made = IF rq.op = "confirm" THEN "grid" ELSE "hand"
         /\ RecordFor(rq).number = IF rq.refs.number = None THEN Len(records) + 1
                                   ELSE rq.refs.number
<1>1. rq.refs \in ShownNumbers /\ rq.laundry \in Laundries
  BY RequestFields
<1>2. Len(records) + 1 \in Nat
  BY RecordsType
<1> QED BY <1>1, <1>2, RefsFields DEF RecordFor, RecordDocs

(* The record is inserted: it comes last. *)
Inserts(s) ==
  /\ records' \in Seq(RecordDocs)
  /\ Len(records') = Len(records) + 1 /\ DOMAIN records' = 1 .. Len(records) + 1
  /\ \A i \in DOMAIN records : i \in DOMAIN records' /\ records'[i] = records[i]
  /\ records'[Len(records) + 1] = RecordFor(request[s])

LEMMA InsertRecordFacts ==
  ASSUME MonthTypes, NEW s \in Slots, RequestShape(request[s]), InsertRecord(s)
  PROVE  /\ request[s].pc = "insert" /\ Acts(s)
         /\ \/ InsertRefused(request[s]) /\ request'[s] = IdleRequest /\ records' = records
            \/ /\ ~InsertRefused(request[s]) /\ Inserts(s)
               /\ SameOwn(s) /\ SameDay(s) /\ SameClaims(s)
               /\ request'[s].made = Append(request[s].made, Len(records) + 1)
               /\ request'[s].plan = request[s].plan - 1
               /\ request'[s].pc = AfterInsert(request[s])
<1> DEFINE rq == request[s]
           made == Append(rq.made, Len(records) + 1)
           plan == rq.plan - 1
           pc == AfterInsert(rq)
<1>1. rq \in Requests /\ rq.cell \in Cells
  BY RequestIn DEF RequestShape
<1>2. rq.pc = "insert"
  BY DEF InsertRecord
<1>3. \/ InsertRefused(rq) /\ Finish(s) /\ records' = records
      \/ /\ ~InsertRefused(rq) /\ records' = Append(records, RecordFor(rq))
         /\ request' = [request EXCEPT ![s].made = made, ![s].plan = plan, ![s].pc = pc]
  BY DEF InsertRecord, MonthTypes
<1>4. ASSUME request' = [request EXCEPT ![s].made = made, ![s].plan = plan, ![s].pc = pc]
      PROVE  /\ Acts(s) /\ SameOwn(s) /\ SameDay(s) /\ SameClaims(s)
             /\ request'[s].made = made /\ request'[s].plan = plan /\ request'[s].pc = pc
  <2> DEFINE nq == [rq EXCEPT !.made = made, !.plan = plan, !.pc = pc]
  <2>1. made \in Seq(Nat) /\ plan \in Int /\ pc \in PCs
    <3>1. rq.made \in Seq(Nat) /\ Len(records) + 1 \in Nat /\ rq.plan \in Int
      BY <1>1, RequestFields, RecordsType
    <3>2. pc \in PCs
      BY DEF AfterInsert, PCs
    <3> HIDE DEF pc
    <3> QED BY <3>1, <3>2
  <2> HIDE DEF made, plan, pc
  <2>2. nq \in Requests
    BY <1>1, <2>1 DEF Requests
  <2>3. /\ nq.op = rq.op /\ nq.laundry = rq.laundry /\ nq.cell = rq.cell
        /\ nq.owner = rq.owner /\ nq.entered = rq.entered
        /\ nq.refs = rq.refs /\ nq.key = rq.key /\ nq.month = rq.month
        /\ nq.seen = rq.seen /\ nq.left = rq.left /\ nq.owned = rq.owned
        /\ nq.plan = plan /\ nq.made = made /\ nq.pc = pc
    BY <1>1 DEF Requests
  <2>4. request' = [request EXCEPT ![s] = nq]
    BY <1>4 DEF MonthTypes
  <2> HIDE DEF nq
  <2>5. Acts(s) /\ request'[s] = nq
    BY <2>2, <2>4, RequestMoves
  <2> QED BY <2>3, <2>5 DEF SameOwn, SameDay, SameClaims
<1>5. ASSUME records' = Append(records, RecordFor(rq)) PROVE Inserts(s)
  <2> DEFINE doc == RecordFor(rq)
  <2>1. doc \in RecordDocs
    BY <1>1, RecordForType
  <2>2. records \in Seq(RecordDocs) /\ Len(records) \in Nat /\ DOMAIN records = 1 .. Len(records)
    BY RecordsType
  <2> HIDE DEF doc, RecordDocs
  <2>3. /\ records' \in Seq(RecordDocs)
        /\ Len(records') = Len(records) + 1 /\ DOMAIN records' = 1 .. Len(records) + 1
        /\ \A i \in DOMAIN records : i \in DOMAIN records' /\ records'[i] = records[i]
        /\ records'[Len(records) + 1] = doc
    <3>1. records' = Append(records, doc)
      BY <1>5 DEF doc
    <3> QED BY <3>1, <2>1, <2>2
  <2> QED BY <2>3 DEF Inserts, doc
<1>6. Finish(s) => Acts(s) /\ request'[s] = IdleRequest
  BY FinishFacts
<1> QED BY <1>2, <1>3, <1>4, <1>5, <1>6, Zenon

LEMMA MarkConfirmedFacts ==
  ASSUME MonthTypes, NEW s \in Slots, RequestShape(request[s]), MarkConfirmed(s)
  PROVE  LET day == [request[s].seen EXCEPT !.status = "CONFIRMED",
                                            !.records = request[s].made]
         IN  /\ request[s].pc = "mark" /\ Acts(s)
             /\ \/ request'[s] = IdleRequest
                \/ /\ SameOwn(s) /\ SameDay(s) /\ SameClaims(s) /\ SameWork(s)
                   /\ request'[s].pc = "remember"
             /\ day \in DayStates /\ day.status = "CONFIRMED"
             /\ day.records = request[s].made /\ day.bill = request[s].seen.bill
             /\ day.number = request[s].seen.number
             /\ SetDay(request[s].month, request[s].cell, day)
<1> DEFINE day == [request[s].seen EXCEPT !.status = "CONFIRMED", !.records = request[s].made]
<1>1. /\ request[s].pc = "mark" /\ SetDay(request[s].month, request[s].cell, day)
      /\ Finish(s) \/ Goto(s, "remember")
  BY DEF MarkConfirmed
<1>2. request[s].seen \in DayStates /\ request[s].made \in Seq(Nat)
  BY RequestIn, RequestFields
<1>3. /\ day \in DayStates /\ day.status = "CONFIRMED" /\ day.records = request[s].made
      /\ day.bill = request[s].seen.bill /\ day.number = request[s].seen.number
  BY <1>2 DEF DayStates
<1> HIDE DEF day
<1>4. "remember" \in PCs
  BY DEF PCs
<1>5. Goto(s, "remember") =>
        /\ Acts(s) /\ SameOwn(s) /\ SameDay(s) /\ SameClaims(s) /\ SameWork(s)
        /\ request'[s].pc = "remember"
  BY <1>4, GotoFacts
<1> QED BY <1>1, <1>3, <1>5, FinishFacts DEF day

LEMMA RememberFacts ==
  ASSUME MonthTypes, NEW s \in Slots, Remember(s)
  PROVE  /\ request[s].pc = "remember" /\ Acts(s)
         /\ \/ request[s].op = "confirm" /\ request'[s] = IdleRequest
            \/ /\ request[s].op # "confirm"
               /\ SameOwn(s) /\ SameDay(s) /\ SameClaims(s) /\ SameWork(s)
               /\ request'[s].pc = "syncRead"
<1>1. "syncRead" \in PCs
  BY DEF PCs
<1> QED BY <1>1, GotoFacts, FinishFacts DEF Remember

LEMMA SyncReadFacts ==
  ASSUME MonthTypes, NEW s \in Slots, RequestShape(request[s]), SyncRead(s)
  PROVE  LET i == AnyMonth("receiving")
         IN  /\ request[s].pc = "syncRead" /\ request[s].op \in {"pass", "sheet"}
             /\ Acts(s) /\ SameOwn(s) /\ SameWork(s)
             /\ request'[s].month = i /\ request'[s].seen = DayIn(i, request[s].cell)
             /\ request'[s].pc = IF i = 0 THEN "syncNew" ELSE "syncWrite"
<1> DEFINE rq == request[s]
           i == AnyMonth("receiving")
           seen == DayIn(i, rq.cell)
           left == rq.left
           pc == IF i = 0 THEN "syncNew" ELSE "syncWrite"
<1>1. rq.pc = "syncRead"
  BY DEF SyncRead
<1>2. rq \in Requests /\ left \in SUBSET Fields /\ pc \in PCs
  BY RequestIn, RequestFields DEF PCs
<1>3. rq.op \in {"pass", "sheet"} /\ rq.cell \in Cells /\ rq.cell[1] = "receiving"
  BY <1>1, <1>2, RequestFields DEF RequestShape, Awaits, AllOps
<1>4. i \in Nat /\ seen \in DayStates
  BY <1>3, AnyMonthFacts, DayInType, MonthsType
<1>5. request' = [request EXCEPT ![s].month = i, ![s].seen = seen, ![s].pc = pc]
  BY DEF SyncRead
<1> HIDE DEF i, seen, pc
<1>6. request' = [request EXCEPT ![s] = [rq EXCEPT !.month = i, !.seen = seen, !.left = left,
                                                  !.pc = pc]]
  <2>1. [rq EXCEPT !.month = i, !.seen = seen, !.left = left, !.pc = pc]
          = [rq EXCEPT !.month = i, !.seen = seen, !.pc = pc]
    BY <1>2 DEF Requests
  <2> QED BY <1>5, <2>1 DEF MonthTypes
<1> HIDE DEF left
<1>7. /\ Acts(s) /\ SameOwn(s) /\ SameWork(s)
      /\ request'[s].month = i /\ request'[s].seen = seen /\ request'[s].pc = pc
  BY <1>2, <1>4, <1>6, PlaceFacts
<1> QED BY <1>1, <1>3, <1>7, Zenon DEF i, seen, pc

LEMMA SyncNewMonthFacts ==
  ASSUME MonthTypes, NEW s \in Slots, SyncNewMonth(s)
  PROVE  /\ request[s].pc = "syncNew" /\ Acts(s) /\ SameOwn(s) /\ SameWork(s)
         /\ request'[s].month = Len(months) + 1 /\ request'[s].seen = request[s].seen
         /\ request'[s].pc = "syncWrite"
         /\ months' = Append(months, NewMonth(None, "receiving"))
<1> DEFINE rq == request[s]
           i == Len(months) + 1
           seen == rq.seen
           left == rq.left
<1>1. rq.pc = "syncNew" /\ months' = Append(months, NewMonth(None, "receiving"))
  BY DEF SyncNewMonth, InsertMonth
<1>2. /\ rq \in Requests /\ left \in SUBSET Fields /\ "syncWrite" \in PCs
      /\ i \in Nat /\ seen \in DayStates
  BY RequestIn, RequestFields, MonthsType DEF PCs
<1>5. request' = [request EXCEPT ![s].month = i, ![s].pc = "syncWrite"]
  BY DEF SyncNewMonth
<1> HIDE DEF i
<1>6. request' = [request EXCEPT ![s] = [rq EXCEPT !.month = i, !.seen = seen, !.left = left,
                                                  !.pc = "syncWrite"]]
  <2>1. [rq EXCEPT !.month = i, !.seen = seen, !.left = left, !.pc = "syncWrite"]
          = [rq EXCEPT !.month = i, !.pc = "syncWrite"]
    BY <1>2 DEF Requests
  <2> QED BY <1>5, <2>1 DEF MonthTypes
<1> HIDE DEF left, seen
<1>7. /\ Acts(s) /\ SameOwn(s) /\ SameWork(s)
      /\ request'[s].month = i /\ request'[s].seen = seen /\ request'[s].pc = "syncWrite"
  BY <1>2, <1>6, PlaceFacts
<1> QED BY <1>1, <1>7, Zenon DEF i, seen

LEMMA SyncedType ==
  ASSUME NEW d \in DayStates, NEW p, p.bill \in BillNumbers \cup {None},
         p.number \in PassNumbers \cup Nat, NEW id \in Nat
  PROVE  /\ Synced(d, p, id) \in DayStates /\ Synced(d, p, id).status = "CONFIRMED"
         /\ Synced(d, p, id).records = Append(d.records, id)
         /\ Synced(d, p, id).number = IF d.number # None THEN d.number ELSE p.number
         /\ Synced(d, p, id).bill = IF d.bill # None THEN d.bill ELSE p.bill
<1>1. d.records \in Seq(Nat) /\ Append(d.records, id) \in Seq(Nat)
  BY DayFields
<1> QED BY <1>1, DayFields DEF Synced, Or, DayStates

LEMMA PropagatedType ==
  ASSUME NEW d \in DayStates, NEW p, p.bill \in BillNumbers \cup {None},
         p.number \in PassNumbers \cup Nat
  PROVE  LET day == [d EXCEPT !.number = p.number, !.bill = Or(p.bill, d.bill),
                              !.status = IF d.status = "EMPTY" THEN "DRAFT" ELSE d.status]
         IN  /\ day \in DayStates /\ day.number = p.number /\ day.records = d.records
             /\ d.status = "CONFIRMED" => day.status = "CONFIRMED"
  BY DEF Or, DayStates

-----------------------------------------------------------------------------
(* How requests begin. *)

BeginsAs(s, rq) ==
  /\ ~Active(s) /\ Acts(s) /\ request'[s] = rq
  /\ started' = started + 1 /\ started < MaxRequests
  /\ mixed \subseteq mixed' /\ mixed' \subseteq Cells
  /\ \A t \in Slots : Active(t) /\ request[t].cell = rq.cell => rq.cell \in mixed'
  /\ UNCHANGED <<months, reserved, records, keyed>>

LEMMA BeginFacts ==
  ASSUME MonthTypes, NEW s \in Slots, ~Active(s), started < MaxRequests,
         NEW rq \in Requests, rq.cell \in Cells, Begin(s, rq)
  PROVE  BeginsAs(s, rq)
<1>1. Acts(s) /\ request'[s] = rq
  BY RequestMoves DEF Begin
<1>2. mixed' = mixed \cup {c \in {rq.cell} : \E t \in Slots : Active(t) /\ request[t].cell = c}
  BY DEF Begin
<1>3. mixed \subseteq Cells
  BY DEF MonthTypes
<1> QED BY <1>1, <1>2, <1>3 DEF BeginsAs, Begin

LEMMA FreshFacts ==
  ASSUME NEW op \in AllOps, NEW l \in Laundries, NEW c \in Cells
  PROVE  LET rq == Fresh(op, l, c)
         IN  /\ rq \in Requests /\ rq.op = op /\ rq.laundry = l /\ rq.cell = c /\ rq.owner = c
             /\ rq.month = 0 /\ rq.made = <<>> /\ rq.key = None /\ rq.refs = NoReferences
             /\ rq.owned = {} /\ rq.left = {} /\ rq.plan = 0
  BY IdleFacts DEF Fresh, IdleRequest, Requests

LEMMA SubmittedFacts ==
  ASSUME NEW p \in Payloads, NEW day \in DayStates
  PROVE  LET refs == Submitted(p, day)
         IN  /\ refs \in ShownNumbers
             /\ refs.number = day.number \/ refs.number \in PassNumbers \cup {None}
<1>1. /\ p \in Payload /\ p["bill"] = p.bill /\ p["number"] = p.number
      /\ p.bill \in BillNumbers \cup {None, Keep} /\ p.number \in PassNumbers \cup {None, Keep}
      /\ p.entered \in BOOLEAN
  BY PayloadsAssumption DEF Payload
<1>2. /\ RefsOf(day) \in ShownNumbers /\ RefsOf(day)["bill"] = day.bill
      /\ RefsOf(day)["number"] = day.number
  BY RefsOfType, RefsFields
<1>3. /\ day.bill \in BillNumbers \cup {None} /\ day.number \in PassNumbers \cup {None} \cup Nat
  BY DayFields
<1> DEFINE b == IF p.bill = Keep THEN day.bill ELSE p.bill
           n == IF p.number = Keep THEN day.number ELSE p.number
<1>4. Submitted(p, day) = [f \in {"bill", "number"} |-> IF f = "bill" THEN b ELSE n]
  BY <1>1, <1>2 DEF Submitted, Fields
<1>5. b \in BillNumbers \cup {None} /\ n \in PassNumbers \cup {None} \cup Nat
  BY <1>1, <1>3
<1>6. n = day.number \/ n \in PassNumbers \cup {None}
  BY <1>1
<1> HIDE DEF b, n
<1> QED BY <1>4, <1>5, <1>6 DEF ShownNumbers

LEMMA StartSaveFacts ==
  ASSUME MonthTypes, NEW s \in Slots, ~Active(s), started < MaxRequests,
         NEW l \in Laundries, NEW c \in Cells, NEW p \in Payloads, StartSave(s, l, c, p)
  PROVE  LET nq == request'[s]
             i == MonthOf(l, c[1])
             day == DayIn(i, c)
         IN  /\ BeginsAs(s, nq)
             /\ nq.op = "save" /\ nq.laundry = l /\ nq.cell = c /\ nq.owner = c
             /\ nq.month = i /\ nq.seen = day /\ nq.made = <<>> /\ day.status # "CONFIRMED"
             /\ nq.refs.number = day.number \/ nq.refs.number \in PassNumbers \cup {None}
             /\ \/ i = 0 /\ nq.pc = "newMonth"
                \/ /\ i # 0 /\ nq.left = Given(nq.refs)
                   /\ nq.pc = IF Given(nq.refs) = {} THEN "write" ELSE "check"
<1> DEFINE i == MonthOf(l, c[1])
           day == DayIn(i, c)
           refs == Submitted(p, day)
           fresh == Fresh("save", l, c)
           rq == [fresh EXCEPT !.month = i, !.seen = day, !.entered = p.entered, !.refs = refs]
           nq == IF i = 0 THEN [rq EXCEPT !.pc = "newMonth"] ELSE BeginReserve(rq, Given(rq.refs))
<1>1. i \in Nat /\ (i # 0 => i \in DOMAIN months /\ months[i].kind = c[1])
  BY MonthOfFacts, MonthsType
<1>2. day \in DayStates
  BY <1>1, DayInType
<1>3. /\ refs \in ShownNumbers /\ p.entered \in BOOLEAN
      /\ refs.number = day.number \/ refs.number \in PassNumbers \cup {None}
  <2>1. p.entered \in BOOLEAN
    BY PayloadsAssumption DEF Payload
  <2> HIDE DEF day
  <2> QED BY <1>2, <2>1, SubmittedFacts
<1>4. /\ fresh \in Requests /\ fresh.op = "save" /\ fresh.laundry = l /\ fresh.cell = c
      /\ fresh.owner = c /\ fresh.made = <<>>
  <2>1. "save" \in AllOps
    BY DEF AllOps
  <2> QED BY <2>1, FreshFacts
<1>5. Begin(s, nq) /\ day.status # "CONFIRMED"
  BY DEF StartSave, Locked
<1> HIDE DEF fresh, day, refs, i
<1>6. /\ rq \in Requests /\ rq.op = "save" /\ rq.laundry = l /\ rq.cell = c /\ rq.owner = c
      /\ rq.month = i /\ rq.seen = day /\ rq.made = <<>> /\ rq.refs = refs
  BY <1>1, <1>2, <1>3, <1>4 DEF Requests
<1> HIDE DEF rq
<1>7. /\ nq \in Requests /\ nq.op = "save" /\ nq.laundry = l /\ nq.cell = c /\ nq.owner = c
      /\ nq.month = i /\ nq.seen = day /\ nq.made = <<>> /\ nq.refs = refs
      /\ \/ i = 0 /\ nq.pc = "newMonth"
         \/ /\ i # 0 /\ nq.left = Given(nq.refs)
            /\ nq.pc = IF Given(nq.refs) = {} THEN "write" ELSE "check"
  <2>1. CASE i = 0
    <3>1. "newMonth" \in PCs
      BY DEF PCs
    <3> QED BY <1>6, <2>1, <3>1 DEF Requests
  <2>2. CASE i # 0
    <3>1. Given(rq.refs) \in SUBSET Fields /\ AfterClaim(rq) = "write"
      BY <1>6 DEF Given, AfterClaim
    <3>2. nq = BeginReserve(rq, Given(rq.refs))
      BY <2>2
    <3> HIDE DEF nq
    <3> QED BY <1>6, <2>2, <3>1, <3>2, BeginReserveFacts
  <2> QED BY <2>1, <2>2
<1> HIDE DEF nq
<1>8. BeginsAs(s, nq)
  BY <1>5, <1>7, BeginFacts
<1>9. request'[s] = nq
  BY <1>8 DEF BeginsAs
<1> QED BY <1>3, <1>5, <1>7, <1>8, <1>9, Zenon DEF day, i

LEMMA StartCancelFacts ==
  ASSUME MonthTypes, NEW s \in Slots, ~Active(s), started < MaxRequests,
         NEW l \in Laundries, NEW c \in Cells, StartCancel(s, l, c)
  PROVE  LET nq == request'[s]
             i == MonthOf(l, c[1])
             day == DayIn(i, c)
         IN  /\ BeginsAs(s, nq)
             /\ nq.op = "cancel" /\ nq.laundry = l /\ nq.cell = c /\ nq.owner = c
             /\ nq.month = i /\ nq.seen = day /\ nq.made = <<>> /\ day.status = "DRAFT"
             /\ nq.refs = NoReferences /\ nq.key = None
             /\ i # 0 /\ nq.pc = "unset"
<1> DEFINE i == MonthOf(l, c[1])
           day == DayIn(i, c)
           fresh == Fresh("cancel", l, c)
           nq == [fresh EXCEPT !.month = i, !.seen = day, !.pc = "unset"]
<1>1. i \in Nat /\ (i # 0 => i \in DOMAIN months /\ months[i].kind = c[1])
  BY MonthOfFacts, MonthsType
<1>2. day \in DayStates
  BY <1>1, DayInType
<1>3. Begin(s, nq) /\ day.status = "DRAFT"
  BY DEF StartCancel
<1>4. i # 0
  BY <1>3, EmptyDayType DEF DayIn
<1>5. /\ fresh \in Requests /\ fresh.op = "cancel" /\ fresh.laundry = l /\ fresh.cell = c
      /\ fresh.owner = c /\ fresh.made = <<>> /\ fresh.refs = NoReferences /\ fresh.key = None
  <2>1. "cancel" \in AllOps
    BY DEF AllOps
  <2> QED BY <2>1, FreshFacts
<1> HIDE DEF fresh, day, i
<1>6. /\ nq \in Requests /\ nq.op = "cancel" /\ nq.laundry = l /\ nq.cell = c /\ nq.owner = c
      /\ nq.month = i /\ nq.seen = day /\ nq.made = <<>> /\ nq.refs = NoReferences
      /\ nq.key = None /\ nq.pc = "unset"
  <2>1. "unset" \in PCs
    BY DEF PCs
  <2> QED BY <1>1, <1>2, <1>5, <2>1 DEF Requests
<1> HIDE DEF nq
<1>8. BeginsAs(s, nq)
  BY <1>3, <1>6, BeginFacts
<1>9. request'[s] = nq
  BY <1>8 DEF BeginsAs
<1> QED BY <1>3, <1>4, <1>6, <1>8, <1>9, Zenon DEF day, i

LEMMA RewashNumberType ==
  ASSUME MonthTypes, NEW c
  PROVE  NextRewashNumber(c) \in Nat
<1> DEFINE S == {j \in DOMAIN records : records[j].cell = c}
<1>1. IsFiniteSet(S)
  <2>1. IsFiniteSet(1 .. Len(records)) /\ S \subseteq 1 .. Len(records)
    BY RecordsType, FS_Interval
  <2> QED BY <2>1, FS_Subset
<1>2. IsFiniteSet({records[i] : i \in S})
  <2>2. [i \in S |-> records[i]] \in [S -> {records[i] : i \in S}]
    OBVIOUS
  <2>3. [i \in S |-> records[i]] \in Surjection(S, {records[i] : i \in S})
    BY <2>2 DEF Surjection
  <2> HIDE DEF S
  <2> QED BY <1>1, <2>3, FS_Surjection
<1>3. Rewashes(c) = {records[i] : i \in S}
  BY DEF Rewashes
<1> HIDE DEF S
<1>4. Cardinality(Rewashes(c)) \in Nat
  BY <1>2, <1>3, FS_CardinalityType
<1> QED BY <1>4 DEF NextRewashNumber

LEMMA StartConfirmFacts ==
  ASSUME MonthTypes, NEW s \in Slots, ~Active(s), started < MaxRequests,
         NEW l \in Laundries, NEW c \in Cells, NEW n \in 1 .. MaxPlan, NEW k \in Keys,
         StartConfirm(s, l, c, n, k)
  PROVE  LET nq == request'[s]
             i == MonthOf(l, c[1])
             day == DayIn(i, c)
         IN  /\ BeginsAs(s, nq)
             /\ nq.op = "confirm" /\ nq.laundry = l /\ nq.cell = c /\ nq.owner = c
             /\ nq.month = i /\ nq.seen = day /\ nq.made = <<>> /\ day.status = "DRAFT"
             /\ nq.refs.bill = day.bill /\ (c[1] # "rewash" => nq.refs.number = day.number)
             /\ nq.plan \in Nat /\ nq.plan > 0 /\ (c[1] # "delivery" => nq.plan = 1)
             /\ i # 0 /\ nq.pc = "insert"
<1> DEFINE i == MonthOf(l, c[1])
           day == DayIn(i, c)
           number == IF c[1] = "rewash" THEN NextRewashNumber(c) ELSE day.number
           refs == [bill |-> day.bill, number |-> number]
           fresh == Fresh("confirm", l, c)
           nq == [fresh EXCEPT !.month = i, !.seen = day, !.key = k, !.pc = "insert",
                               !.refs = refs, !.plan = n]
<1>1. i \in Nat /\ (i # 0 => i \in DOMAIN months /\ months[i].kind = c[1])
  BY MonthOfFacts, MonthsType
<1>2. day \in DayStates
  BY <1>1, DayInType
<1>3. Begin(s, nq) /\ day.status = "DRAFT" /\ n \in Plans(c)
  BY DEF StartConfirm
<1>4. i # 0
  BY <1>3, EmptyDayType DEF DayIn
<1>5. /\ fresh \in Requests /\ fresh.op = "confirm" /\ fresh.laundry = l /\ fresh.cell = c
      /\ fresh.owner = c /\ fresh.made = <<>>
  <2>1. "confirm" \in AllOps
    BY DEF AllOps
  <2> QED BY <2>1, FreshFacts
<1>6. refs \in ShownNumbers /\ refs.bill = day.bill /\ (c[1] # "rewash" => refs.number = day.number)
  <2>1. number \in PassNumbers \cup {None} \cup Nat /\ day.bill \in BillNumbers \cup {None}
    <3> HIDE DEF day
    <3> QED BY <1>2, DayFields, RewashNumberType
  <2>2. c[1] # "rewash" => number = day.number
    OBVIOUS
  <2> HIDE DEF number, day
  <2> QED BY <2>1, <2>2 DEF ShownNumbers
<1>7. n \in Nat /\ n > 0 /\ (c[1] # "delivery" => n = 1)
  BY <1>3 DEF Plans, MaxPlan
<1> HIDE DEF fresh, day, i, refs
<1>8. /\ nq \in Requests /\ nq.op = "confirm" /\ nq.laundry = l /\ nq.cell = c /\ nq.owner = c
      /\ nq.month = i /\ nq.seen = day /\ nq.made = <<>> /\ nq.refs = refs
      /\ nq.plan = n /\ nq.pc = "insert"
  <2>1. "insert" \in PCs
    BY DEF PCs
  <2>2. i \in Nat /\ n \in Int /\ refs \in ShownNumbers /\ k \in Keys \cup {None}
    BY <1>1, <1>6, <1>7
  <2>3. nq \in Requests
    BY <1>2, <1>5, <2>1, <2>2 DEF Requests
  <2>4. /\ nq.op = fresh.op /\ nq.laundry = fresh.laundry /\ nq.cell = fresh.cell
        /\ nq.owner = fresh.owner /\ nq.month = i /\ nq.seen = day /\ nq.made = fresh.made
        /\ nq.refs = refs /\ nq.plan = n /\ nq.pc = "insert"
    BY <1>5 DEF Requests
  <2> HIDE DEF nq
  <2> QED BY <1>5, <2>3, <2>4
<1> HIDE DEF nq
<1>9. BeginsAs(s, nq)
  BY <1>3, <1>8, BeginFacts DEF refs, day, i
<1>10. request'[s] = nq
  BY <1>9 DEF BeginsAs
<1>11. nq.refs.bill = day.bill /\ (c[1] # "rewash" => nq.refs.number = day.number)
  BY <1>6, <1>8, Zenon
<1>12. nq.plan \in Nat /\ nq.plan > 0 /\ (c[1] # "delivery" => nq.plan = 1)
  BY <1>7, <1>8
<1> QED BY <1>3, <1>4, <1>8, <1>9, <1>10, <1>11, <1>12, Zenon DEF day, i

LEMMA StartPassFacts ==
  ASSUME MonthTypes, NEW s \in Slots, ~Active(s), started < MaxRequests,
         NEW l \in Laundries, NEW c \in Cells, NEW r \in PassRefs, NEW k \in Keys,
         StartPass(s, l, c, r, k)
  PROVE  LET nq == request'[s]
         IN  /\ BeginsAs(s, nq)
             /\ nq.op = "pass" /\ nq.laundry = l /\ nq.cell = c
             /\ nq.owner = <<"gatepass", started>> /\ c[1] = "receiving"
             /\ nq.made = <<>> /\ nq.seen = EmptyDay /\ nq.refs.number \in PassNumbers
             /\ nq.left = {"number"} /\ nq.pc = "check" /\ nq.month = 0
<1> DEFINE owner == <<"gatepass", started>>
           fresh == Fresh("pass", l, c)
           rq == [fresh EXCEPT !.owner = owner, !.refs = r, !.key = k]
           nq == BeginReserve(rq, {"number"})
<1>1. Begin(s, nq) /\ c[1] = "receiving"
  BY DEF StartPass
<1>2. /\ fresh \in Requests /\ fresh.op = "pass" /\ fresh.laundry = l /\ fresh.cell = c
      /\ fresh.made = <<>> /\ fresh.seen = EmptyDay /\ fresh.month = 0
  <2>1. "pass" \in AllOps
    BY DEF AllOps
  <2>2. fresh.seen = EmptyDay
    BY DEF Fresh, IdleRequest
  <2> QED BY <2>1, <2>2, FreshFacts
<1>3. owner \in PassOwners
  BY KnownAreOwners DEF PassOwners
<1>4. r \in ShownNumbers /\ r.number \in PassNumbers
  BY PayloadsAssumption DEF References, ShownNumbers
<1> HIDE DEF fresh, owner
<1>5. /\ rq \in Requests /\ rq.op = "pass" /\ rq.laundry = l /\ rq.cell = c
      /\ rq.owner = owner /\ rq.made = <<>> /\ rq.seen = EmptyDay /\ rq.refs = r /\ rq.month = 0
  BY <1>2, <1>3, <1>4 DEF Requests
<1> HIDE DEF rq
<1>6. /\ nq \in Requests /\ nq.op = "pass" /\ nq.laundry = l /\ nq.cell = c
      /\ nq.owner = owner /\ nq.made = <<>> /\ nq.seen = EmptyDay /\ nq.refs = r
      /\ nq.left = {"number"} /\ nq.pc = "check" /\ nq.month = 0
  <2>1. {"number"} \in SUBSET Fields /\ {"number"} # {}
    BY DEF Fields
  <2> QED BY <1>5, <2>1, BeginReserveFacts
<1> HIDE DEF nq
<1>7. Begin(s, nq)
  BY <1>1 DEF nq, rq, fresh, owner
<1>8. BeginsAs(s, nq)
  BY <1>6, <1>7, BeginFacts
<1>9. request'[s] = nq
  BY <1>8 DEF BeginsAs
<1>10. nq.refs.number \in PassNumbers
  BY <1>4, <1>6, Zenon
<1> QED BY <1>1, <1>6, <1>8, <1>9, <1>10, Zenon DEF owner

LEMMA StartSheetFacts ==
  ASSUME MonthTypes, NEW s \in Slots, ~Active(s), started < MaxRequests,
         NEW l \in Laundries, NEW c \in Cells, StartSheet(s, l, c)
  PROVE  LET nq == request'[s]
         IN  /\ BeginsAs(s, nq)
             /\ nq.op = "sheet" /\ nq.laundry = l /\ nq.cell = c /\ nq.owner = c
             /\ c[1] = "receiving" /\ nq.made = <<>> /\ nq.seen = EmptyDay
             /\ nq.refs = NoReferences /\ nq.key = None /\ nq.pc = "insert" /\ nq.month = 0
<1> DEFINE fresh == Fresh("sheet", l, c)
           nq == [fresh EXCEPT !.pc = "insert"]
<1>1. Begin(s, nq) /\ c[1] = "receiving"
  BY DEF StartSheet
<1>2. /\ fresh \in Requests /\ fresh.op = "sheet" /\ fresh.laundry = l /\ fresh.cell = c
      /\ fresh.owner = c /\ fresh.made = <<>> /\ fresh.seen = EmptyDay /\ fresh.month = 0
      /\ fresh.refs = NoReferences /\ fresh.key = None
  <2>1. "sheet" \in AllOps
    BY DEF AllOps
  <2>2. fresh.seen = EmptyDay
    BY DEF Fresh, IdleRequest
  <2> QED BY <2>1, <2>2, FreshFacts
<1> HIDE DEF fresh
<1>3. /\ nq \in Requests /\ nq.op = "sheet" /\ nq.laundry = l /\ nq.cell = c
      /\ nq.owner = c /\ nq.made = <<>> /\ nq.seen = EmptyDay /\ nq.refs = NoReferences
      /\ nq.key = None /\ nq.pc = "insert" /\ nq.month = 0
  <2>1. "insert" \in PCs
    BY DEF PCs
  <2> QED BY <1>2, <2>1 DEF Requests
<1> HIDE DEF nq
<1>8. BeginsAs(s, nq)
  BY <1>1, <1>3, BeginFacts
<1>9. request'[s] = nq
  BY <1>8 DEF BeginsAs
<1> QED BY <1>1, <1>3, <1>8, <1>9, Zenon

LEMMA StartEditFacts ==
  ASSUME MonthTypes, NEW s \in Slots, ~Active(s), started < MaxRequests,
         NEW id \in DOMAIN records, StartEdit(s, id)
  PROVE  LET nq == request'[s]
             c == records[id].cell
             i == AnyMonth("receiving")
         IN  /\ BeginsAs(s, nq)
             /\ nq.op = "edit" /\ nq.cell = c /\ nq.owner = c /\ c \in Cells
             /\ c[1] = "receiving" /\ records[id].made = "hand"
             /\ nq.made = <<id>> /\ nq.seen = EmptyDay /\ nq.refs = NoReferences
             /\ nq.pc = "propagate" /\ nq.month = i /\ i # 0
             /\ id \in ToSet(DayIn(i, c).records)
<1> DEFINE l == records[id].laundry
           c == records[id].cell
           i == AnyMonth("receiving")
           fresh == Fresh("edit", l, c)
           nq == [fresh EXCEPT !.month = i, !.made = <<id>>, !.pc = "propagate"]
<1>1. /\ Begin(s, nq) /\ c[1] = "receiving" /\ records[id].made = "hand"
      /\ i # 0 /\ id \in ToSet(DayIn(i, c).records)
  BY DEF StartEdit
<1>2. l \in Laundries /\ c \in Cells /\ id \in Nat /\ i \in Nat
  BY RecordsType, AnyMonthFacts, MonthsType
<1> HIDE DEF l, c, i
<1>3. /\ fresh \in Requests /\ fresh.op = "edit" /\ fresh.laundry = l /\ fresh.cell = c
      /\ fresh.owner = c /\ fresh.seen = EmptyDay /\ fresh.refs = NoReferences
  <2>1. "edit" \in AllOps
    BY DEF AllOps
  <2>2. fresh.seen = EmptyDay
    BY DEF Fresh, IdleRequest
  <2> QED BY <1>2, <2>1, <2>2, FreshFacts
<1> HIDE DEF fresh
<1>4. /\ nq \in Requests /\ nq.op = "edit" /\ nq.cell = c /\ nq.owner = c /\ nq.made = <<id>>
      /\ nq.seen = EmptyDay /\ nq.refs = NoReferences /\ nq.pc = "propagate" /\ nq.month = i
  <2>1. "propagate" \in PCs /\ <<id>> \in Seq(Nat)
    BY <1>2 DEF PCs
  <2> QED BY <1>2, <1>3, <2>1 DEF Requests
<1> HIDE DEF nq
<1>8. BeginsAs(s, nq)
  BY <1>1, <1>2, <1>4, BeginFacts
<1>9. request'[s] = nq
  BY <1>8 DEF BeginsAs
<1> QED BY <1>1, <1>2, <1>4, <1>8, <1>9, Zenon DEF c, i

-----------------------------------------------------------------------------
(* What a step may do beside its own request. *)

StepOf(s) == Start(s) \/ Continue(s) \/ Crash(s)

MonthsStep(s) ==
  \/ months' = months
  \/ /\ request[s].pc \in {"newMonth", "syncNew"}
     /\ \E l \in Laundries \cup {None} :
          months' = Append(months, NewMonth(l, request[s].cell[1]))
     /\ mixed' = IF AnyMonth(request[s].cell[1]) = 0 THEN mixed
                 ELSE mixed \cup CellsOf(request[s].cell[1])
  \/ /\ request[s].pc \in {"write", "unset", "mark", "syncWrite", "propagate"}
     /\ \E day \in DayStates : SetDay(request[s].month, request[s].cell, day)

RecordsStep(s) ==
  \/ records' = records
  \/ request[s].pc = "insert" /\ ~InsertRefused(request[s]) /\ Inserts(s)

RegistryStep(s) ==
  \/ reserved' = reserved
  \/ /\ request[s].pc = "claim" /\ ~DuplicateKey(reserved, ClaimOf(request[s]))
     /\ reserved' = Upsert(reserved, ClaimOf(request[s]))
  \/ /\ request[s].pc \in {"unclaim", "release"} /\ reserved' \subseteq reserved
     /\ \A r \in reserved : r.owner # request[s].owner => r \in reserved'

CountsStep(s) ==
  /\ started' = started \/ (started' = started + 1 /\ started < MaxRequests /\ ~Active(s))
  /\ mixed \subseteq mixed' /\ mixed' \subseteq Cells

StepEffects(s) ==
  /\ Acts(s) /\ MonthsStep(s) /\ RecordsStep(s) /\ RegistryStep(s) /\ CountsStep(s)
  /\ request'[s].month <= Len(months')

LEMMA BeginEffects ==
  ASSUME MonthTypes, NEW s \in Slots, BeginsAs(s, request'[s]),
         request'[s].month \in 0 .. Len(months)
  PROVE  StepEffects(s)
<1>1. Len(months) \in Nat
  BY MonthsType
<1>2. months' = months /\ reserved' = reserved /\ records' = records
  BY DEF BeginsAs
<1>3. request'[s].month <= Len(months')
  BY <1>1, <1>2
<1> QED BY <1>2, <1>3 DEF BeginsAs, StepEffects, MonthsStep, RecordsStep, RegistryStep, CountsStep

LEMMA StartEffects ==
  ASSUME MonthTypes, NEW s \in Slots, Start(s)
  PROVE  StepEffects(s)
<1>1. ~Active(s) /\ started < MaxRequests
  BY DEF Start
<1>2. \A k : AnyMonth(k) \in 0 .. Len(months) /\ 0 \in 0 .. Len(months)
  BY AnyMonthFacts, MonthsType
<1>3. \A l, k : MonthOf(l, k) \in 0 .. Len(months)
  BY MonthOfFacts
<1>4. \/ \E l \in Laundries, c \in Cells, p \in Payloads : StartSave(s, l, c, p)
      \/ \E l \in Laundries, c \in Cells : StartCancel(s, l, c)
      \/ \E l \in Laundries, c \in Cells : StartSheet(s, l, c)
      \/ \E l \in Laundries, c \in Cells, n \in 1 .. MaxPlan, k \in Keys :
           StartConfirm(s, l, c, n, k)
      \/ \E l \in Laundries, c \in Cells, r \in PassRefs, k \in Keys : StartPass(s, l, c, r, k)
      \/ \E id \in DOMAIN records : StartEdit(s, id)
  BY DEF Start
<1>5. BeginsAs(s, request'[s]) /\ request'[s].month \in 0 .. Len(months)
  <2>1. ASSUME NEW l \in Laundries, NEW c \in Cells, NEW p \in Payloads, StartSave(s, l, c, p)
        PROVE  BeginsAs(s, request'[s]) /\ request'[s].month \in 0 .. Len(months)
    <3>1. BeginsAs(s, request'[s]) /\ request'[s].month = MonthOf(l, c[1])
      BY <1>1, <2>1, StartSaveFacts
    <3> QED BY <3>1, <1>3
  <2>2. ASSUME NEW l \in Laundries, NEW c \in Cells, StartCancel(s, l, c)
        PROVE  BeginsAs(s, request'[s]) /\ request'[s].month \in 0 .. Len(months)
    <3>1. BeginsAs(s, request'[s]) /\ request'[s].month = MonthOf(l, c[1])
      BY <1>1, <2>2, StartCancelFacts
    <3> QED BY <3>1, <1>3
  <2>3. ASSUME NEW l \in Laundries, NEW c \in Cells, StartSheet(s, l, c)
        PROVE  BeginsAs(s, request'[s]) /\ request'[s].month \in 0 .. Len(months)
    <3>1. BeginsAs(s, request'[s]) /\ request'[s].month = 0
      BY <1>1, <2>3, StartSheetFacts
    <3> QED BY <3>1, <1>2
  <2>4. ASSUME NEW l \in Laundries, NEW c \in Cells, NEW n \in 1 .. MaxPlan, NEW k \in Keys,
               StartConfirm(s, l, c, n, k)
        PROVE  BeginsAs(s, request'[s]) /\ request'[s].month \in 0 .. Len(months)
    <3>1. BeginsAs(s, request'[s]) /\ request'[s].month = MonthOf(l, c[1])
      BY <1>1, <2>4, StartConfirmFacts
    <3> QED BY <3>1, <1>3
  <2>5. ASSUME NEW l \in Laundries, NEW c \in Cells, NEW r \in PassRefs, NEW k \in Keys,
               StartPass(s, l, c, r, k)
        PROVE  BeginsAs(s, request'[s]) /\ request'[s].month \in 0 .. Len(months)
    <3>1. BeginsAs(s, request'[s]) /\ request'[s].month = 0
      BY <1>1, <2>5, StartPassFacts
    <3> QED BY <3>1, <1>2
  <2>6. ASSUME NEW id \in DOMAIN records, StartEdit(s, id)
        PROVE  BeginsAs(s, request'[s]) /\ request'[s].month \in 0 .. Len(months)
    <3>1. BeginsAs(s, request'[s]) /\ request'[s].month = AnyMonth("receiving")
      BY <1>1, <2>6, StartEditFacts
    <3> QED BY <3>1, <1>2
  <2> QED BY <1>4, <2>1, <2>2, <2>3, <2>4, <2>5, <2>6
<1> QED BY <1>5, BeginEffects

LEMMA ShapeOf ==
  ASSUME RequestShapes, NEW s \in Slots, request[s].pc # "idle"
  PROVE  RequestShape(request[s])
  BY DEF RequestShapes, Active

(* A step in which only the request and the registry move. *)
LEMMA SmallEffects ==
  ASSUME MonthTypes, NEW s \in Slots, Acts(s), UNCHANGED <<months, records, started>>,
         mixed \subseteq mixed', mixed' \subseteq Cells, RegistryStep(s),
         request'[s].month = request[s].month \/ request'[s] = IdleRequest
           \/ request'[s].month = AnyMonth("receiving")
  PROVE  StepEffects(s)
<1>1. request'[s].month \in 0 .. Len(months)
  BY RequestIn, IdleFacts, AnyMonthFacts, MonthsType
<1>2. Len(months') = Len(months) /\ Len(months) \in Nat
  BY MonthsType
<1>3. request'[s].month <= Len(months')
  BY <1>1, <1>2
<1> QED BY <1>3 DEF StepEffects, MonthsStep, RecordsStep, CountsStep

(* A step that writes a day. *)
LEMMA WriteEffects ==
  ASSUME MonthTypes, RequestShapes, NEW s \in Slots, Acts(s),
         UNCHANGED <<records, reserved, started, mixed>>,
         request[s].pc \in {"write", "unset", "mark", "syncWrite", "propagate"},
         NEW day \in DayStates, SetDay(request[s].month, request[s].cell, day),
         request'[s].month = request[s].month \/ request'[s] = IdleRequest
  PROVE  StepEffects(s)
<1>1. RequestShape(request[s])
  BY ShapeOf
<1>2. Located(request[s])
  <2>1. request[s].op \in AllOps
    BY RequestIn, RequestFields
  <2> QED BY <1>1, <2>1 DEF RequestShape, Located, Awaits, AllOps
<1>3. /\ request[s].month \in DOMAIN months /\ months[request[s].month].kind = request[s].cell[1]
      /\ request[s].cell \in Cells
  BY <1>1, <1>2 DEF RequestShape
<1>4. Len(months') = Len(months)
  BY <1>3, MonthWritten
<1>5. request'[s].month <= Len(months')
  BY <1>4, RequestIn, IdleFacts, MonthsType
<1>6. mixed \subseteq Cells
  BY DEF MonthTypes
<1> QED BY <1>5, <1>6 DEF StepEffects, MonthsStep, RecordsStep, CountsStep, RegistryStep

LEMMA NewMonthEffects ==
  ASSUME MonthTypes, NEW s \in Slots, Acts(s),
         UNCHANGED <<records, reserved, started>>,
         request[s].pc \in {"newMonth", "syncNew"}, NEW l \in Laundries \cup {None},
         request[s].cell[1] \in Kinds, InsertMonth(l, request[s].cell[1]),
         request'[s].month = Len(months) + 1
  PROVE  StepEffects(s)
<1>1. months' = Append(months, NewMonth(l, request[s].cell[1]))
  BY DEF InsertMonth
<1>2. Len(months') = Len(months) + 1 /\ Len(months) \in Nat
  BY <1>1, MonthAppended, MonthsType
<1>3. /\ mixed' = IF AnyMonth(request[s].cell[1]) = 0 THEN mixed
                 ELSE mixed \cup CellsOf(request[s].cell[1])
      /\ mixed \subseteq Cells
  BY DEF InsertMonth, MonthTypes
<1>4. mixed \subseteq mixed' /\ mixed' \subseteq Cells
  BY <1>3 DEF CellsOf
<1>5. request'[s].month <= Len(months')
  BY <1>2
<1> QED BY <1>1, <1>3, <1>4, <1>5 DEF StepEffects, MonthsStep, RecordsStep, CountsStep, RegistryStep

LEMMA ContinueEffects ==
  ASSUME MonthTypes, RequestShapes, NEW s \in Slots, Continue(s)
  PROVE  StepEffects(s)
<1>0. mixed \subseteq mixed /\ mixed \subseteq Cells /\ (reserved' = reserved => RegistryStep(s))
  BY DEF MonthTypes, RegistryStep
<1>00. \A pc : request[s].pc = pc /\ pc # "idle" => RequestShape(request[s])
  BY ShapeOf
<1>1. ASSUME InsertNewMonth(s) PROVE StepEffects(s)
  <2>1. request[s].pc = "newMonth" /\ RequestShape(request[s])
    BY <1>1, ShapeOf DEF InsertNewMonth
  <2>2. /\ Acts(s) /\ request'[s].month = Len(months) + 1
        /\ request[s].cell[1] \in Kinds /\ request[s].laundry \in Laundries
    BY <1>1, <2>1, InsertNewMonthFacts
  <2>3. /\ InsertMonth(request[s].laundry, request[s].cell[1])
        /\ UNCHANGED <<records, reserved, started>>
    BY <1>1 DEF InsertNewMonth
  <2> QED BY <2>1, <2>2, <2>3, NewMonthEffects
<1>2. ASSUME CheckNumber(s) PROVE StepEffects(s)
  <2>1. request[s].pc = "check" /\ RequestShape(request[s])
    BY <1>2, ShapeOf DEF CheckNumber
  <2>2. Acts(s) /\ (request'[s] = IdleRequest \/ request'[s].month = request[s].month)
    BY <1>2, <2>1, CheckNumberFacts DEF SameDay
  <2>3. UNCHANGED <<months, records, started, reserved, mixed>>
    BY <1>2 DEF CheckNumber
  <2> QED BY <1>0, <2>2, <2>3, SmallEffects
<1>3. ASSUME ReadOwned(s) PROVE StepEffects(s)
  <2>1. request[s].pc = "readOwned" /\ RequestShape(request[s])
    BY <1>3, ShapeOf DEF ReadOwned
  <2>2. Acts(s) /\ request'[s].month = request[s].month
    BY <1>3, <2>1, ReadOwnedFacts DEF SameDay
  <2>3. UNCHANGED <<months, records, started, reserved, mixed>>
    BY <1>3 DEF ReadOwned
  <2> QED BY <1>0, <2>2, <2>3, SmallEffects
<1>4. ASSUME Claim(s) PROVE StepEffects(s)
  <2>1. request[s].pc = "claim" /\ RequestShape(request[s])
    BY <1>4, ShapeOf DEF Claim
  <2>2. Acts(s) /\ request'[s].month = request[s].month /\ RegistryStep(s)
    BY <1>4, <2>1, ClaimFacts DEF SameDay, RegistryStep
  <2>3. UNCHANGED <<months, records, started, mixed>>
    BY <1>4 DEF Claim
  <2> QED BY <1>0, <2>2, <2>3, SmallEffects
<1>5. ASSUME Unclaim(s) PROVE StepEffects(s)
  <2>1. request[s].pc = "unclaim" /\ Acts(s) /\ request'[s] = IdleRequest
    BY <1>5, UnclaimFacts
  <2>2. RegistryStep(s)
    BY <1>5, <2>1, UnclaimFacts DEF RegistryStep, WithoutNew
  <2>3. UNCHANGED <<months, records, started, mixed>>
    BY <1>5 DEF Unclaim
  <2> QED BY <1>0, <2>1, <2>2, <2>3, SmallEffects
<1>6. ASSUME WriteDay(s) PROVE StepEffects(s)
  <2>1. /\ request[s].pc = "write" /\ Acts(s) /\ request'[s].month = request[s].month
        /\ SavedDay(request[s]) \in DayStates
        /\ SetDay(request[s].month, request[s].cell, SavedDay(request[s]))
    BY <1>6, WriteDayFacts DEF SameDay
  <2>2. UNCHANGED <<records, reserved, started, mixed>>
    BY <1>6 DEF WriteDay
  <2> QED BY <2>1, <2>2, WriteEffects
<1>7. ASSUME Release(s) PROVE StepEffects(s)
  <2>1. request[s].pc = "release" /\ Acts(s) /\ request'[s] = IdleRequest
    BY <1>7, ReleaseFacts
  <2>2. RegistryStep(s)
    BY <1>7, <2>1, ReleaseFacts DEF RegistryStep, Released
  <2>3. UNCHANGED <<months, records, started, mixed>>
    BY <1>7 DEF Release
  <2> QED BY <1>0, <2>1, <2>2, <2>3, SmallEffects
<1>8. ASSUME Unset(s) PROVE StepEffects(s)
  <2>1. /\ request[s].pc = "unset" /\ Acts(s) /\ request'[s].month = request[s].month
        /\ SetDay(request[s].month, request[s].cell, EmptyDay)
    BY <1>8, UnsetFacts DEF SameDay
  <2>2. UNCHANGED <<records, reserved, started, mixed>>
    BY <1>8 DEF Unset
  <2> QED BY <2>1, <2>2, WriteEffects, EmptyDayType
<1>9. ASSUME InsertRecord(s) PROVE StepEffects(s)
  <2>1. request[s].pc = "insert" /\ RequestShape(request[s])
    BY <1>9, ShapeOf DEF InsertRecord
  <2>2. /\ Acts(s) /\ RecordsStep(s)
        /\ request'[s] = IdleRequest \/ request'[s].month = request[s].month
    BY <1>9, <2>1, InsertRecordFacts DEF SameDay, RecordsStep
  <2>3. UNCHANGED <<months, started, reserved, mixed>>
    BY <1>9 DEF InsertRecord
  <2>4. request'[s].month <= Len(months')
    BY <2>2, <2>3, RequestIn, IdleFacts, MonthsType
  <2> QED BY <1>0, <2>2, <2>3, <2>4 DEF StepEffects, MonthsStep, CountsStep
<1>10. ASSUME MarkConfirmed(s) PROVE StepEffects(s)
  <2> DEFINE day == [request[s].seen EXCEPT !.status = "CONFIRMED", !.records = request[s].made]
  <2>1. request[s].pc = "mark" /\ RequestShape(request[s])
    BY <1>10, ShapeOf DEF MarkConfirmed
  <2>2. /\ Acts(s) /\ day \in DayStates /\ SetDay(request[s].month, request[s].cell, day)
        /\ request'[s] = IdleRequest \/ request'[s].month = request[s].month
    BY <1>10, <2>1, MarkConfirmedFacts DEF SameDay
  <2>3. UNCHANGED <<records, reserved, started, mixed>>
    BY <1>10 DEF MarkConfirmed
  <2> HIDE DEF day
  <2> QED BY <2>1, <2>2, <2>3, WriteEffects
<1>11. ASSUME Remember(s) PROVE StepEffects(s)
  <2>2. Acts(s) /\ (request'[s] = IdleRequest \/ request'[s].month = request[s].month)
    BY <1>11, RememberFacts DEF SameDay
  <2>3. UNCHANGED <<months, records, started, reserved, mixed>>
    BY <1>11 DEF Remember
  <2> QED BY <1>0, <2>2, <2>3, SmallEffects
<1>12. ASSUME SyncRead(s) PROVE StepEffects(s)
  <2>1. request[s].pc = "syncRead" /\ RequestShape(request[s])
    BY <1>12, ShapeOf DEF SyncRead
  <2>2. Acts(s) /\ request'[s].month = AnyMonth("receiving")
    BY <1>12, <2>1, SyncReadFacts
  <2>3. UNCHANGED <<months, records, started, reserved, mixed>>
    BY <1>12 DEF SyncRead
  <2> QED BY <1>0, <2>2, <2>3, SmallEffects
<1>13. ASSUME SyncNewMonth(s) PROVE StepEffects(s)
  <2>1. request[s].pc = "syncNew" /\ Acts(s) /\ request'[s].month = Len(months) + 1
    BY <1>13, SyncNewMonthFacts
  <2>2. RequestShape(request[s]) /\ request[s].op \in AllOps
    BY <2>1, ShapeOf, RequestIn, RequestFields
  <2>3. request[s].cell[1] = "receiving"
    BY <2>1, <2>2 DEF RequestShape, Awaits, AllOps
  <2>4. /\ InsertMonth(None, request[s].cell[1]) /\ request[s].cell[1] \in Kinds
        /\ UNCHANGED <<records, reserved, started>>
    BY <1>13, <2>3 DEF SyncNewMonth, Kinds
  <2> QED BY <2>1, <2>4, NewMonthEffects
<1>14. ASSUME SyncWrite(s) PROVE StepEffects(s)
  <2> DEFINE id == request[s].made[1]
             day == Synced(request[s].seen, records[id], id)
  <2>1. request[s].pc = "syncWrite" /\ RequestShape(request[s]) /\ request[s].op \in AllOps
    BY <1>14, ShapeOf, RequestIn, RequestFields DEF SyncWrite
  <2>2. id \in DOMAIN records
    BY <2>1 DEF RequestShape, Unsynced, Awaits, AllOps
  <2>3. day \in DayStates
    <3>1. request[s].seen \in DayStates
      BY RequestIn, RequestFields
    <3> HIDE DEF id
    <3> QED BY <2>2, <3>1, RecordsType, SyncedType
  <2>4. /\ SetDay(request[s].month, request[s].cell, day) /\ Finish(s)
        /\ UNCHANGED <<records, reserved, started, mixed>>
    BY <1>14 DEF SyncWrite
  <2>5. Acts(s) /\ request'[s] = IdleRequest
    BY <2>4, FinishFacts
  <2> HIDE DEF day
  <2> QED BY <2>1, <2>3, <2>4, <2>5, WriteEffects
<1>15. ASSUME Propagate(s) PROVE StepEffects(s)
  <2> DEFINE pass == records[request[s].made[1]]
             seen == DayIn(request[s].month, request[s].cell)
             day == [seen EXCEPT !.number = pass.number, !.bill = Or(pass.bill, seen.bill),
                                 !.status = IF seen.status = "EMPTY" THEN "DRAFT" ELSE seen.status]
  <2>1. request[s].pc = "propagate" /\ RequestShape(request[s]) /\ request[s].op \in AllOps
    BY <1>15, ShapeOf, RequestIn, RequestFields DEF Propagate
  <2>2. /\ request[s].op = "edit" /\ request[s].made[1] \in DOMAIN records
        /\ request[s].month \in DOMAIN months /\ months[request[s].month].kind = request[s].cell[1]
        /\ request[s].cell \in Cells
    BY <2>1 DEF RequestShape, Located, Awaits, AllOps
  <2>3. day \in DayStates
    <3>1. seen \in DayStates
      BY <2>2, DayInType
    <3>2. pass.bill \in BillNumbers \cup {None} /\ pass.number \in PassNumbers \cup Nat
      BY <2>2, RecordsType
    <3> HIDE DEF seen, pass
    <3> QED BY <3>1, <3>2, PropagatedType
  <2>4. /\ SetDay(request[s].month, request[s].cell, day) /\ Finish(s)
        /\ UNCHANGED <<records, reserved, started, mixed>>
    BY <1>15 DEF Propagate
  <2>5. Acts(s) /\ request'[s] = IdleRequest
    BY <2>4, FinishFacts
  <2> HIDE DEF day
  <2> QED BY <2>1, <2>3, <2>4, <2>5, WriteEffects
<1> QED BY <1>1, <1>2, <1>3, <1>4, <1>5, <1>6, <1>7, <1>8, <1>9, <1>10, <1>11, <1>12, <1>13,
          <1>14, <1>15 DEF Continue

LEMMA HasEffects ==
  ASSUME MonthTypes, RequestShapes, NEW s \in Slots, StepOf(s)
  PROVE  StepEffects(s)
<1>1. ASSUME Crash(s) PROVE StepEffects(s)
  <2>1. /\ Active(s) /\ Finish(s) /\ mixed' = mixed \cup {request[s].cell}
        /\ UNCHANGED <<months, reserved, records, started>>
    BY <1>1 DEF Crash
  <2>2. Acts(s) /\ request'[s] = IdleRequest
    BY <2>1, FinishFacts
  <2>3. request[s].cell \in Cells /\ mixed \subseteq Cells
    BY <2>1 DEF RequestShapes, RequestShape, MonthTypes
  <2> QED BY <2>1, <2>2, <2>3, SmallEffects DEF RegistryStep
<1> QED BY <1>1, StartEffects, ContinueEffects DEF StepOf

-----------------------------------------------------------------------------
(* Documents, records and owners only grow, and keep their types. *)

LocatedFacts(rq) ==
  /\ rq.month \in DOMAIN months /\ months[rq.month].kind = rq.cell[1] /\ rq.cell \in Cells

LEMMA WriterIsLocated ==
  ASSUME MonthTypes, RequestShapes, NEW s \in Slots,
         request[s].pc \in {"write", "unset", "mark", "syncWrite", "propagate"}
  PROVE  LocatedFacts(request[s])
<1>1. RequestShape(request[s]) /\ request[s].op \in AllOps
  BY ShapeOf, RequestIn, RequestFields
<1>2. Located(request[s])
  BY <1>1 DEF RequestShape, Located, Awaits, AllOps
<1> QED BY <1>1, <1>2 DEF RequestShape, LocatedFacts

LEMMA InserterOfMonth ==
  ASSUME MonthTypes, RequestShapes, NEW s \in Slots, request[s].pc \in {"newMonth", "syncNew"}
  PROVE  request[s].cell \in Cells /\ request[s].cell[1] \in Kinds
  BY ShapeOf, CellsAssumption DEF RequestShape

LEMMA MonthsGrow ==
  ASSUME MonthTypes, RequestShapes, NEW s \in Slots, StepEffects(s)
  PROVE  /\ months' \in Seq(MonthDocs) /\ Len(months') \in Nat /\ Len(months) <= Len(months')
         /\ \A i \in DOMAIN months : i \in DOMAIN months' /\ months'[i].kind = months[i].kind
<1>1. CASE months' = months
  BY <1>1, MonthsType
<1>2. CASE /\ request[s].pc \in {"newMonth", "syncNew"}
           /\ \E l \in Laundries \cup {None} :
                months' = Append(months, NewMonth(l, request[s].cell[1]))
  <2>1. PICK l \in Laundries \cup {None} : months' = Append(months, NewMonth(l, request[s].cell[1]))
    BY <1>2
  <2>2. request[s].cell[1] \in Kinds
    BY <1>2, InserterOfMonth
  <2>3. /\ months' \in Seq(MonthDocs)
        /\ Len(months') = Len(months) + 1 /\ DOMAIN months' = 1 .. Len(months) + 1
        /\ \A i \in DOMAIN months : i \in DOMAIN months' /\ months'[i] = months[i]
    BY <2>1, <2>2, MonthAppended
  <2> QED BY <2>3, MonthsType
<1>3. CASE /\ request[s].pc \in {"write", "unset", "mark", "syncWrite", "propagate"}
           /\ \E day \in DayStates : SetDay(request[s].month, request[s].cell, day)
  <2>1. PICK day \in DayStates : SetDay(request[s].month, request[s].cell, day)
    BY <1>3
  <2>2. LocatedFacts(request[s])
    BY <1>3, WriterIsLocated
  <2>3. /\ months' \in Seq(MonthDocs) /\ Len(months') = Len(months)
        /\ DOMAIN months' = DOMAIN months
        /\ \A j \in DOMAIN months : months'[j].kind = months[j].kind
    BY <2>1, <2>2, MonthWritten DEF LocatedFacts
  <2> QED BY <2>3, MonthsType
<1> QED BY <1>1, <1>2, <1>3 DEF StepEffects, MonthsStep

LEMMA RecordsGrow ==
  ASSUME MonthTypes, NEW s \in Slots, StepEffects(s)
  PROVE  /\ records' \in Seq(RecordDocs) /\ Len(records') \in Nat /\ Len(records) <= Len(records')
         /\ \A i \in DOMAIN records : i \in DOMAIN records' /\ records'[i] = records[i]
<1>1. CASE records' = records
  BY <1>1, RecordsType
<1>2. CASE Inserts(s)
  BY <1>2, RecordsType DEF Inserts
<1> QED BY <1>1, <1>2 DEF StepEffects, RecordsStep

LEMMA LaterIndexes ==
  ASSUME NEW m \in Nat, NEW n \in Nat, m <= n
  PROVE  (0 .. m - 1) \subseteq (0 .. n - 1)
<1> SUFFICES ASSUME NEW i \in 0 .. m - 1 PROVE i \in 0 .. n - 1
  OBVIOUS
<1> QED OBVIOUS

LEMMA OwnersGrow ==
  ASSUME MonthTypes, NEW s \in Slots, StepEffects(s)
  PROVE  /\ KnownOwners \subseteq KnownOwners' /\ started' \in 0 .. MaxRequests
         /\ started <= started' /\ started' \in Nat /\ started \in Nat
<1>1. started \in 0 .. MaxRequests /\ MaxRequests \in Nat
  BY BoundsAssumption DEF MonthTypes
<1>2. started' = started \/ (started' = started + 1 /\ started < MaxRequests)
  BY DEF StepEffects, CountsStep
<1>3. started' \in 0 .. MaxRequests /\ started <= started' /\ started' \in Nat /\ started \in Nat
  BY <1>1, <1>2
<1>4. (0 .. started - 1) \subseteq (0 .. started' - 1)
  BY <1>3, LaterIndexes
<1> QED BY <1>3, <1>4 DEF KnownOwners

LEMMA ClaimOK ==
  ASSUME MonthTypes, RequestShapes, NEW s \in Slots, request[s].pc = "claim"
  PROVE  LET claim == ClaimOf(request[s])
         IN  /\ claim.owner = request[s].owner /\ claim.laundry = request[s].laundry
             /\ claim.field = NextField(request[s].left)
             /\ claim.value = request[s].refs[NextField(request[s].left)]
             /\ claim.scope = ScopeKey(claim.value, claim.field, claim.laundry)
             /\ ReservationOK(claim)
<1> DEFINE rq == request[s]
           f == NextField(rq.left)
           v == rq.refs[f]
<1>1. RequestShape(rq)
  BY ShapeOf
<1>2. /\ rq.op \in {"save", "pass"} /\ f \in Reserves(rq) /\ f \in Fields
      /\ v \in BillNumbers \cup PassNumbers \cup Nat
  <2>1. rq.left # {} /\ rq.left \subseteq Reserves(rq)
    BY <1>1 DEF RequestShape
  <2>2. /\ rq.op \in {"save", "pass"} /\ Reserves(rq) \subseteq Fields
        /\ \A g \in Reserves(rq) : rq.refs[g] \in BillNumbers \cup PassNumbers \cup Nat
    BY <1>1, ReservesFacts
  <2>3. f \in rq.left
    BY <2>1, <2>2, NextFieldFacts
  <2> QED BY <2>1, <2>2, <2>3
<1>3. rq.laundry \in Laundries /\ rq.owner \in Cells \cup KnownOwners
  BY <1>1, <1>2, RequestIn, RequestFields DEF RequestShape
<1> DEFINE claim == Reservation(v, f, rq.laundry, rq.owner)
<1>4. ClaimOf(rq) = claim
  BY DEF ClaimOf
<1>5. /\ claim.value = v /\ claim.field = f /\ claim.laundry = rq.laundry
      /\ claim.owner = rq.owner /\ claim.scope = ScopeKey(v, f, rq.laundry)
  BY ReservationFacts
<1>6. claim = Reservation(claim.value, claim.field, claim.laundry, claim.owner)
  BY <1>5, Zenon
<1>7. ReservationOK(claim)
  <2> HIDE DEF claim, v, f
  <2> QED BY <1>2, <1>3, <1>5, <1>6 DEF ReservationOK
<1> HIDE DEF claim
<1> QED BY <1>4, <1>5, <1>7, Zenon

LEMMA RegistryKept ==
  ASSUME MonthTypes, RequestShapes, NEW s \in Slots, StepEffects(s)
  PROVE  /\ \A r \in reserved' : ReservationOK(r)'
         /\ \A r, q \in reserved' : r.scope = q.scope => r = q
<1>1. \A r : ReservationOK(r) => ReservationOK(r)'
  BY OwnersGrow DEF ReservationOK
<1>2. /\ \A r \in reserved : ReservationOK(r)
      /\ \A r, q \in reserved : r.scope = q.scope => r = q
  BY DEF MonthTypes
<1>3. CASE reserved' \subseteq reserved
  BY <1>1, <1>2, <1>3
<1>4. CASE /\ request[s].pc = "claim"
           /\ reserved' = Upsert(reserved, ClaimOf(request[s]))
  <2>1. ReservationOK(ClaimOf(request[s]))
    BY <1>4, ClaimOK
  <2>2. reserved' = {r \in reserved : r.scope # ClaimOf(request[s]).scope} \cup {ClaimOf(request[s])}
    BY <1>4 DEF Upsert
  <2> QED BY <1>1, <1>2, <2>1, <2>2
<1> QED BY <1>3, <1>4 DEF StepEffects, RegistryStep

LEMMA TypesKept ==
  ASSUME MonthTypes, RequestShapes, NEW s \in Slots, StepEffects(s)
  PROVE  MonthTypes'
<1>1. \A t \in Slots : request'[t].month <= Len(months')
  <2>1. ASSUME NEW t \in Slots, t # s PROVE request'[t].month <= Len(months')
    <3>1. request'[t] = request[t]
      BY <2>1 DEF StepEffects, Acts
    <3>2. request[t].month \in 0 .. Len(months) /\ Len(months) <= Len(months')
          /\ Len(months') \in Nat /\ Len(months) \in Nat
      BY RequestIn, MonthsGrow, MonthsType
    <3> QED BY <3>1, <3>2
  <2> QED BY <2>1 DEF StepEffects
<1>2. mixed' \subseteq Cells /\ request' \in [Slots -> Requests]
  BY DEF StepEffects, CountsStep, Acts
<1> QED BY <1>1, <1>2, MonthsGrow, RecordsGrow, OwnersGrow, RegistryKept DEF MonthTypes

LEMMA UnchangedTypes == MonthTypes /\ UNCHANGED vars => MonthTypes'
  BY DEF MonthTypes, ReservationOK, KnownOwners, vars

LEMMA InitTypes == Init => MonthTypes
<1> SUFFICES ASSUME Init PROVE MonthTypes
  OBVIOUS
<1>1. /\ months = <<>> /\ records = <<>> /\ reserved = {} /\ started = 0 /\ mixed = {}
      /\ request = [s \in Slots |-> IdleRequest]
  BY DEF Init
<1>2. request \in [Slots -> Requests] /\ \A s \in Slots : request[s].month <= Len(months)
  BY <1>1, IdleFacts
<1>3. 0 \in 0 .. MaxRequests
  BY BoundsAssumption
<1> QED BY <1>1, <1>2, <1>3 DEF MonthTypes

-----------------------------------------------------------------------------
(* The shapes of requests. *)

(* Requests that wait keep their shape. *)
LEMMA ShapeGrows ==
  ASSUME MonthTypes, RequestShapes, NEW s \in Slots, StepEffects(s),
         NEW rq \in Requests, RequestShape(rq)
  PROVE  RequestShape(rq)'
<1>1. /\ \A i \in DOMAIN months : i \in DOMAIN months' /\ months'[i].kind = months[i].kind
      /\ \A i \in DOMAIN records : i \in DOMAIN records' /\ records'[i] = records[i]
      /\ KnownOwners \subseteq KnownOwners'
  BY MonthsGrow, RecordsGrow, OwnersGrow
<1>2. /\ rq.cell \in Cells /\ rq.pc \in Awaits(rq.op)
      /\ (rq.op \in {"pass", "sheet", "edit"} => rq.cell[1] = "receiving")
      /\ (rq.op = "pass" => rq.refs.number \in PassNumbers)
      /\ (rq.op \in {"sheet", "cancel"} => rq.refs = NoReferences /\ rq.key = None)
      /\ (rq.pc \in {"check", "readOwned", "claim", "unclaim"} => Reserves(rq) # {})
      /\ (rq.pc \in {"check", "claim"} => rq.left # {} /\ rq.left \subseteq Reserves(rq))
      /\ (rq.op \in {"pass", "sheet"} /\ ~Unsynced(rq) => rq.made = <<>>)
  BY DEF RequestShape
<1>3. IF rq.op = "pass" THEN rq.owner \in KnownOwners' ELSE rq.owner = rq.cell
  BY <1>1 DEF RequestShape
<1>4. Located(rq) => rq.month \in DOMAIN months' /\ months'[rq.month].kind = rq.cell[1]
  BY <1>1 DEF RequestShape
<1>5. (Unsynced(rq) \/ rq.op = "edit") =>
        /\ rq.made # <<>> /\ rq.made[1] \in DOMAIN records'
        /\ records'[rq.made[1]].cell = rq.cell /\ records'[rq.made[1]].made = "hand"
  BY <1>1 DEF RequestShape
<1> QED BY <1>2, <1>3, <1>4, <1>5 DEF RequestShape

LEMMA ShapeOfOthers ==
  ASSUME MonthTypes, RequestShapes, NEW s \in Slots, StepEffects(s), NEW t \in Slots, t # s,
         request'[t].pc # "idle"
  PROVE  RequestShape(request[t])'
<1>1. request'[t] = request[t]
  BY DEF StepEffects, Acts
<1>2. RequestShape(request[t]) /\ request[t] \in Requests
  BY <1>1, ShapeOf, RequestIn
<1>3. PICK rq \in Requests : rq = request[t]
  BY <1>2
<1>4. RequestShape(rq)
  BY <1>2, <1>3
<1>5. RequestShape(rq)'
  BY <1>3, <1>4, ShapeGrows
<1>6. request'[t] = rq
  BY <1>1, <1>3
<1> QED BY <1>5, <1>6

(* What the request itself is to show for its new shape. *)
NewShape(rq, nq) ==
  /\ nq.pc \in Awaits(rq.op)
  /\ (nq.pc \in {"check", "readOwned", "claim", "unclaim"} => Reserves(rq) # {})
  /\ (nq.pc \in {"check", "claim"} => nq.left # {} /\ nq.left \subseteq Reserves(rq))
  /\ (rq.op \in {"pass", "sheet"} /\ ~Unsynced(nq) => nq.made = <<>>)
  /\ (Located(nq) => nq.month \in DOMAIN months' /\ months'[nq.month].kind = rq.cell[1])
  /\ ((Unsynced(nq) \/ rq.op = "edit") =>
        /\ nq.made # <<>> /\ nq.made[1] \in DOMAIN records'
        /\ records'[nq.made[1]].cell = rq.cell /\ records'[nq.made[1]].made = "hand")

LEMMA ShapeOfActor ==
  ASSUME MonthTypes, RequestShapes, NEW s \in Slots, StepEffects(s), RequestShape(request[s]),
         SameOwn(s), NewShape(request[s], request'[s])
  PROVE  RequestShape(request[s])'
<1> DEFINE rq == request[s]
<1>1. PICK nq \in Requests : nq = request'[s]
  BY DEF StepEffects, Acts
<1>2. /\ rq.cell \in Cells
      /\ (rq.op \in {"pass", "sheet", "edit"} => rq.cell[1] = "receiving")
      /\ (rq.op = "pass" => rq.refs.number \in PassNumbers)
      /\ (rq.op \in {"sheet", "cancel"} => rq.refs = NoReferences /\ rq.key = None)
      /\ IF rq.op = "pass" THEN rq.owner \in KnownOwners ELSE rq.owner = rq.cell
  BY DEF RequestShape
<1>3. /\ nq.op = rq.op /\ nq.cell = rq.cell /\ nq.owner = rq.owner /\ nq.refs = rq.refs
      /\ nq.key = rq.key
  BY <1>1 DEF SameOwn
<1>4. Reserves(nq) = Reserves(rq)
  BY <1>3 DEF Reserves
<1>5. KnownOwners \subseteq KnownOwners'
  BY OwnersGrow
<1>6. NewShape(rq, nq)
  BY <1>1
<1> HIDE DEF rq
<1>7. /\ nq.cell \in Cells
      /\ (nq.op \in {"pass", "sheet", "edit"} => nq.cell[1] = "receiving")
      /\ (nq.op = "pass" => nq.refs.number \in PassNumbers)
      /\ (nq.op \in {"sheet", "cancel"} => nq.refs = NoReferences /\ nq.key = None)
      /\ IF nq.op = "pass" THEN nq.owner \in KnownOwners' ELSE nq.owner = nq.cell
  BY <1>2, <1>3, <1>5
<1>8. /\ nq.pc \in Awaits(nq.op)
      /\ (nq.pc \in {"check", "readOwned", "claim", "unclaim"} => Reserves(nq) # {})
      /\ (nq.pc \in {"check", "claim"} => nq.left # {} /\ nq.left \subseteq Reserves(nq))
      /\ (nq.op \in {"pass", "sheet"} /\ ~Unsynced(nq) => nq.made = <<>>)
      /\ (Located(nq) => nq.month \in DOMAIN months' /\ months'[nq.month].kind = nq.cell[1])
      /\ ((Unsynced(nq) \/ nq.op = "edit") =>
            /\ nq.made # <<>> /\ nq.made[1] \in DOMAIN records'
            /\ records'[nq.made[1]].cell = nq.cell /\ records'[nq.made[1]].made = "hand")
  BY <1>3, <1>4, <1>6, Zenon DEF NewShape
<1>9. RequestShape(nq)'
  BY <1>7, <1>8, Zenon DEF RequestShape
<1> QED BY <1>1, <1>9

(* The same for a request that begins. *)
FirstShape(nq) ==
  /\ nq.cell \in Cells
  /\ (nq.op \in {"pass", "sheet", "edit"} => nq.cell[1] = "receiving")
  /\ (nq.op = "pass" => nq.refs.number \in PassNumbers)
  /\ (nq.op \in {"sheet", "cancel"} => nq.refs = NoReferences /\ nq.key = None)
  /\ IF nq.op = "pass" THEN nq.owner = <<"gatepass", started>> ELSE nq.owner = nq.cell

LEMMA ShapeOfFirst ==
  ASSUME MonthTypes, RequestShapes, NEW s \in Slots, StepEffects(s),
         started' = started + 1, FirstShape(request'[s]), NewShape(request'[s], request'[s])
  PROVE  RequestShape(request[s])'
<1>1. PICK nq \in Requests : nq = request'[s]
  BY DEF StepEffects, Acts
<1>2. FirstShape(nq) /\ NewShape(nq, nq)
  BY <1>1
<1>3. <<"gatepass", started>> \in KnownOwners'
  <2>1. started \in 0 .. started' - 1
    BY KnownAreOwners
  <2> QED BY <2>1 DEF KnownOwners
<1>4. RequestShape(nq)'
  <2>1. /\ nq.cell \in Cells
        /\ (nq.op \in {"pass", "sheet", "edit"} => nq.cell[1] = "receiving")
        /\ (nq.op = "pass" => nq.refs.number \in PassNumbers)
        /\ (nq.op \in {"sheet", "cancel"} => nq.refs = NoReferences /\ nq.key = None)
        /\ IF nq.op = "pass" THEN nq.owner \in KnownOwners' ELSE nq.owner = nq.cell
    BY <1>2, <1>3 DEF FirstShape
  <2> QED BY <1>2, <2>1, Zenon DEF NewShape, RequestShape
<1> QED BY <1>1, <1>4

(* All of them. *)
LEMMA ShapesTogether ==
  ASSUME MonthTypes, RequestShapes, NEW s \in Slots, StepEffects(s),
         request'[s].pc = "idle" \/ RequestShape(request[s])',
         \/ request'[s].pc = "idle"
         \/ Active(s) /\ SameOwn(s)
         \/ request'[s].op # "pass"
         \/ request'[s].owner = <<"gatepass", started>>
  PROVE  RequestShapes'
<1>1. \A t \in Slots : request'[t].pc # "idle" => RequestShape(request[t])'
  BY ShapeOfOthers
<1>2. \A t \in Slots : t # s => request'[t] = request[t]
  BY DEF StepEffects, Acts
<1>3. \A t \in Slots : Active(t) /\ request[t].op = "pass" =>
        request[t].owner \in KnownOwners /\ request[t].owner # <<"gatepass", started>>
  <2>1. \A o \in KnownOwners : o # <<"gatepass", started>>
    BY KnownAreOwners DEF KnownOwners
  <2> QED BY <2>1 DEF RequestShapes, RequestShape
<1>4. \A t, u \in Slots :
        (/\ Active(t) /\ request[t].op = "pass" /\ Active(u) /\ request[u].op = "pass"
         /\ request[t].owner = request[u].owner) => t = u
  BY DEF RequestShapes
<1>5. \A t, u \in Slots :
        (/\ request'[t].pc # "idle" /\ request'[t].op = "pass"
         /\ request'[u].pc # "idle" /\ request'[u].op = "pass"
         /\ request'[t].owner = request'[u].owner) => t = u
  BY <1>2, <1>3, <1>4 DEF Active, SameOwn
<1> QED BY <1>1, <1>5 DEF RequestShapes, Active

LEMMA StartShape ==
  ASSUME MonthTypes, RequestShapes, NEW s \in Slots, Start(s)
  PROVE  /\ RequestShape(request[s])'
         /\ request'[s].op # "pass" \/ request'[s].owner = <<"gatepass", started>>
<1>1. ~Active(s) /\ started < MaxRequests /\ StepEffects(s)
  BY StartEffects DEF Start
<1>2. \/ \E l \in Laundries, c \in Cells, p \in Payloads : StartSave(s, l, c, p)
      \/ \E l \in Laundries, c \in Cells : StartCancel(s, l, c)
      \/ \E l \in Laundries, c \in Cells : StartSheet(s, l, c)
      \/ \E l \in Laundries, c \in Cells, n \in 1 .. MaxPlan, k \in Keys :
           StartConfirm(s, l, c, n, k)
      \/ \E l \in Laundries, c \in Cells, r \in PassRefs, k \in Keys : StartPass(s, l, c, r, k)
      \/ \E id \in DOMAIN records : StartEdit(s, id)
  BY DEF Start
<1>3. SUFFICES BeginsAs(s, request'[s]) /\ FirstShape(request'[s])
               /\ NewShape(request'[s], request'[s])
  <2>1. ASSUME BeginsAs(s, request'[s]), FirstShape(request'[s]),
               NewShape(request'[s], request'[s])
        PROVE  /\ RequestShape(request[s])'
               /\ request'[s].op # "pass" \/ request'[s].owner = <<"gatepass", started>>
    <3>1. started' = started + 1
      BY <2>1 DEF BeginsAs
    <3> QED BY <1>1, <2>1, <3>1, ShapeOfFirst DEF FirstShape
  <2> QED BY <2>1
<1>4. ASSUME NEW l \in Laundries, NEW c \in Cells, NEW p \in Payloads, StartSave(s, l, c, p)
      PROVE  BeginsAs(s, request'[s]) /\ FirstShape(request'[s])
             /\ NewShape(request'[s], request'[s])
  <2> DEFINE nq == request'[s]
             i == MonthOf(l, c[1])
  <2>0. /\ BeginsAs(s, nq)
        /\ nq.op = "save" /\ nq.cell = c /\ nq.owner = c /\ nq.month = i /\ nq.made = <<>>
    BY <1>1, <1>4, StartSaveFacts
  <2>1. \/ i = 0 /\ nq.pc = "newMonth"
        \/ /\ i # 0 /\ nq.left = Given(nq.refs)
           /\ nq.pc = IF Given(nq.refs) = {} THEN "write" ELSE "check"
    BY <1>1, <1>4, StartSaveFacts
  <2>2. i # 0 => i \in DOMAIN months /\ months[i].kind = c[1]
    BY MonthOfFacts
  <2>3. months' = months
    BY <2>0 DEF BeginsAs
  <2> HIDE DEF nq, i
  <2>4. FirstShape(nq)
    BY <2>0 DEF FirstShape
  <2>5. NewShape(nq, nq)
    BY <2>0, <2>1, <2>2, <2>3 DEF NewShape, Awaits, Unsynced, Located, Reserves
  <2> QED BY <2>0, <2>4, <2>5 DEF nq
<1>5. ASSUME NEW l \in Laundries, NEW c \in Cells, StartCancel(s, l, c)
      PROVE  BeginsAs(s, request'[s]) /\ FirstShape(request'[s])
             /\ NewShape(request'[s], request'[s])
  <2> DEFINE nq == request'[s]
             i == MonthOf(l, c[1])
  <2>1. /\ BeginsAs(s, nq)
        /\ nq.op = "cancel" /\ nq.cell = c /\ nq.owner = c /\ nq.month = i /\ nq.made = <<>>
        /\ nq.refs = NoReferences /\ nq.key = None /\ i # 0 /\ nq.pc = "unset"
    BY <1>1, <1>5, StartCancelFacts
  <2>2. i # 0 => i \in DOMAIN months /\ months[i].kind = c[1]
    BY MonthOfFacts
  <2>3. months' = months
    BY <2>1 DEF BeginsAs
  <2> HIDE DEF nq, i
  <2>4. FirstShape(nq)
    BY <2>1 DEF FirstShape
  <2>5. NewShape(nq, nq)
    BY <2>1, <2>2, <2>3 DEF NewShape, Awaits, Unsynced, Located, Reserves
  <2> QED BY <2>1, <2>4, <2>5 DEF nq
<1>6. ASSUME NEW l \in Laundries, NEW c \in Cells, StartSheet(s, l, c)
      PROVE  BeginsAs(s, request'[s]) /\ FirstShape(request'[s])
             /\ NewShape(request'[s], request'[s])
  <2> DEFINE nq == request'[s]
  <2>1. /\ BeginsAs(s, nq)
        /\ nq.op = "sheet" /\ nq.cell = c /\ nq.owner = c /\ c[1] = "receiving" /\ nq.made = <<>>
        /\ nq.refs = NoReferences /\ nq.key = None /\ nq.pc = "insert"
    BY <1>1, <1>6, StartSheetFacts
  <2> HIDE DEF nq
  <2>4. FirstShape(nq)
    BY <2>1 DEF FirstShape
  <2>5. NewShape(nq, nq)
    BY <2>1 DEF NewShape, Awaits, Unsynced, Located
  <2> QED BY <2>1, <2>4, <2>5 DEF nq
<1>7. ASSUME NEW l \in Laundries, NEW c \in Cells, NEW n \in 1 .. MaxPlan, NEW k \in Keys,
             StartConfirm(s, l, c, n, k)
      PROVE  BeginsAs(s, request'[s]) /\ FirstShape(request'[s])
             /\ NewShape(request'[s], request'[s])
  <2> DEFINE nq == request'[s]
             i == MonthOf(l, c[1])
  <2>1. /\ BeginsAs(s, nq)
        /\ nq.op = "confirm" /\ nq.cell = c /\ nq.owner = c /\ nq.month = i /\ nq.made = <<>>
        /\ i # 0 /\ nq.pc = "insert"
    BY <1>1, <1>7, StartConfirmFacts
  <2>2. i # 0 => i \in DOMAIN months /\ months[i].kind = c[1]
    BY MonthOfFacts
  <2>3. months' = months
    BY <2>1 DEF BeginsAs
  <2> HIDE DEF nq, i
  <2>4. FirstShape(nq)
    BY <2>1 DEF FirstShape
  <2>5. NewShape(nq, nq)
    BY <2>1, <2>2, <2>3 DEF NewShape, Awaits, Unsynced, Located, Reserves
  <2> QED BY <2>1, <2>4, <2>5 DEF nq
<1>8. ASSUME NEW l \in Laundries, NEW c \in Cells, NEW r \in PassRefs, NEW k \in Keys,
             StartPass(s, l, c, r, k)
      PROVE  BeginsAs(s, request'[s]) /\ FirstShape(request'[s])
             /\ NewShape(request'[s], request'[s])
  <2> DEFINE nq == request'[s]
  <2>1. /\ BeginsAs(s, nq)
        /\ nq.op = "pass" /\ nq.cell = c /\ nq.owner = <<"gatepass", started>>
        /\ c[1] = "receiving" /\ nq.made = <<>> /\ nq.refs.number \in PassNumbers
        /\ nq.left = {"number"} /\ nq.pc = "check"
    BY <1>1, <1>8, StartPassFacts
  <2> HIDE DEF nq
  <2>4. FirstShape(nq)
    BY <2>1 DEF FirstShape
  <2>5. Reserves(nq) = {"number"}
    BY <2>1 DEF Reserves
  <2>6. NewShape(nq, nq)
    BY <2>1, <2>5 DEF NewShape, Awaits, Unsynced, Located
  <2> QED BY <2>1, <2>4, <2>6 DEF nq
<1>9. ASSUME NEW id \in DOMAIN records, StartEdit(s, id)
      PROVE  BeginsAs(s, request'[s]) /\ FirstShape(request'[s])
             /\ NewShape(request'[s], request'[s])
  <2> DEFINE nq == request'[s]
             c == records[id].cell
             i == AnyMonth("receiving")
  <2>1. /\ BeginsAs(s, nq)
        /\ nq.op = "edit" /\ nq.cell = c /\ nq.owner = c /\ c \in Cells
        /\ c[1] = "receiving" /\ records[id].made = "hand"
        /\ nq.made = <<id>> /\ nq.pc = "propagate" /\ nq.month = i /\ i # 0
    BY <1>1, <1>9, StartEditFacts
  <2>2. i # 0 => i \in DOMAIN months /\ months[i].kind = "receiving"
    BY AnyMonthFacts
  <2>3. months' = months /\ records' = records
    BY <2>1 DEF BeginsAs
  <2>7. nq.made # <<>> /\ nq.made[1] = id
    BY <2>1
  <2> HIDE DEF nq, i
  <2>4. FirstShape(nq)
    BY <2>1 DEF FirstShape
  <2>5. NewShape(nq, nq)
    BY <1>9, <2>1, <2>2, <2>3, <2>7 DEF NewShape, Awaits, Unsynced, Located
  <2> QED BY <2>1, <2>4, <2>5 DEF nq
<1> QED BY <1>2, <1>4, <1>5, <1>6, <1>7, <1>8, <1>9

LEMMA ContinueShape ==
  ASSUME MonthTypes, RequestShapes, NEW s \in Slots, Continue(s)
  PROVE  /\ request[s].pc # "idle"
         /\ request'[s].pc = "idle" \/ (SameOwn(s) /\ RequestShape(request[s])')
<1> DEFINE rq == request[s]
           nq == request'[s]
<1>0. StepEffects(s) /\ rq \in Requests /\ IdleRequest.pc = "idle"
  BY ContinueEffects, RequestIn, IdleFacts
<1>1. rq.pc # "idle"
  BY DEF Continue, InsertNewMonth, CheckNumber, ReadOwned, Claim, Unclaim, WriteDay, Release,
         Unset, InsertRecord, MarkConfirmed, Remember, SyncRead, SyncNewMonth, SyncWrite, Propagate
<1>2. RequestShape(rq)
  BY <1>1, ShapeOf
<1>3. /\ rq.op \in AllOps /\ rq.pc \in Awaits(rq.op) /\ rq.cell \in Cells
      /\ (rq.op \in {"pass", "sheet"} => rq.cell[1] = "receiving")
  BY <1>0, <1>2, RequestFields DEF RequestShape
<1>4. /\ (rq.pc \in {"check", "readOwned", "claim", "unclaim"} => Reserves(rq) # {})
      /\ (rq.pc \in {"check", "claim"} => rq.left # {} /\ rq.left \subseteq Reserves(rq))
      /\ (rq.op \in {"pass", "sheet"} /\ ~Unsynced(rq) => rq.made = <<>>)
      /\ (Located(rq) => rq.month \in DOMAIN months /\ months[rq.month].kind = rq.cell[1])
      /\ ((Unsynced(rq) \/ rq.op = "edit") =>
            /\ rq.made # <<>> /\ rq.made[1] \in DOMAIN records
            /\ records[rq.made[1]].cell = rq.cell /\ records[rq.made[1]].made = "hand")
  BY <1>2 DEF RequestShape
<1>5. SUFFICES nq.pc = "idle" \/ (SameOwn(s) /\ NewShape(rq, nq))
  BY <1>0, <1>1, <1>2, ShapeOfActor
<1>6. /\ \A i \in DOMAIN months : i \in DOMAIN months' /\ months'[i].kind = months[i].kind
      /\ \A i \in DOMAIN records : i \in DOMAIN records' /\ records'[i] = records[i]
  BY <1>0, MonthsGrow, RecordsGrow
<1> HIDE DEF rq, nq
<1>7. (* The numbers at hand are those of before. *)
      ASSUME nq.pc \in Awaits(rq.op), nq.pc # "insert", nq.made = rq.made,
             nq.pc \in {"check", "readOwned", "claim", "unclaim"} => Reserves(rq) # {},
             nq.pc \in {"check", "claim"} => nq.left # {} /\ nq.left \subseteq Reserves(rq),
             Located(nq) => nq.month \in DOMAIN months' /\ months'[nq.month].kind = rq.cell[1],
             Unsynced(nq) <=> Unsynced(rq)
      PROVE  NewShape(rq, nq)
  BY <1>4, <1>6, <1>7 DEF NewShape
<1>10. ASSUME InsertNewMonth(s) PROVE SameOwn(s) /\ NewShape(rq, nq)
  <2>1. /\ rq.pc = "newMonth" /\ rq.op = "save" /\ SameOwn(s) /\ nq.made = rq.made
        /\ nq.month = Len(months) + 1 /\ nq.left = Given(rq.refs)
        /\ nq.pc = IF Given(rq.refs) = {} THEN "write" ELSE "check"
        /\ months' = Append(months, NewMonth(rq.laundry, rq.cell[1]))
        /\ rq.cell[1] \in Kinds /\ rq.laundry \in Laundries
    BY <1>2, <1>10, InsertNewMonthFacts DEF rq, nq, SameWork
  <2>2. nq.op = "save"
    BY <2>1 DEF SameOwn, rq, nq
  <2>3. nq.month \in DOMAIN months' /\ months'[nq.month].kind = rq.cell[1]
    <3>1. /\ DOMAIN months' = 1 .. Len(months) + 1
          /\ months'[Len(months) + 1] = NewMonth(rq.laundry, rq.cell[1])
      BY <2>1, MonthAppended
    <3>2. NewMonth(rq.laundry, rq.cell[1]).kind = rq.cell[1] /\ Len(months) \in Nat
      BY <2>1, NewMonthType, MonthsType
    <3> QED BY <2>1, <3>1, <3>2
  <2> QED BY <2>1, <2>2, <2>3, <1>7 DEF Awaits, Unsynced, Reserves
<1>11. ASSUME CheckNumber(s) PROVE nq.pc = "idle" \/ (SameOwn(s) /\ NewShape(rq, nq))
  <2> DEFINE f == NextField(rq.left)
  <2>1. /\ rq.pc = "check" /\ f \in rq.left
        /\ \/ nq.pc = "idle"
           \/ /\ SameOwn(s) /\ nq.month = rq.month /\ nq.made = rq.made
              /\ nq.left = rq.left \ {f}
              /\ nq.pc = IF rq.left = {f} THEN "readOwned" ELSE "check"
    BY <1>0, <1>2, <1>11, CheckNumberFacts DEF rq, nq, SameWork, SameDay
  <2>2. SameOwn(s) => nq.op = rq.op
    BY DEF SameOwn, rq, nq
  <2> HIDE DEF f
  <2>3. rq.op \in {"save", "pass"}
    BY <1>3, <2>1 DEF Awaits, AllOps
  <2>4. Located(nq) /\ SameOwn(s) => Located(rq)
    BY <2>1, <2>2, <2>3 DEF Located
  <2> QED BY <1>4, <1>6, <2>1, <2>2, <2>3, <2>4, <1>7 DEF Awaits, Unsynced
<1>12. ASSUME ReadOwned(s) PROVE SameOwn(s) /\ NewShape(rq, nq)
  <2>1. /\ rq.pc = "readOwned" /\ SameOwn(s) /\ nq.month = rq.month /\ nq.made = rq.made
        /\ nq.left = Reserves(rq) /\ nq.pc = "claim"
    BY <1>2, <1>12, ReadOwnedFacts DEF rq, nq, SameWork, SameDay
  <2>2. nq.op = rq.op
    BY <2>1 DEF SameOwn, rq, nq
  <2>3. rq.op \in {"save", "pass"}
    BY <1>3, <2>1 DEF Awaits, AllOps
  <2>4. Located(nq) => Located(rq)
    BY <2>1, <2>2, <2>3 DEF Located
  <2> QED BY <1>4, <1>6, <2>1, <2>2, <2>3, <2>4, <1>7 DEF Awaits, Unsynced
<1>13. ASSUME Claim(s) PROVE SameOwn(s) /\ NewShape(rq, nq)
  <2> DEFINE f == NextField(rq.left)
  <2>1. /\ rq.pc = "claim" /\ f \in rq.left /\ SameOwn(s) /\ nq.month = rq.month
        /\ nq.made = rq.made
        /\ \/ nq.left = rq.left /\ nq.pc = "unclaim"
           \/ /\ nq.left = rq.left \ {f}
              /\ nq.pc = IF rq.left = {f} THEN AfterClaim(rq) ELSE "claim"
    BY <1>2, <1>13, ClaimFacts DEF rq, nq, SameWork, SameDay
  <2>2. nq.op = rq.op
    BY <2>1 DEF SameOwn, rq, nq
  <2> HIDE DEF f
  <2>3. rq.op \in {"save", "pass"}
    BY <1>3, <2>1 DEF Awaits, AllOps
  <2>4. Located(nq) => Located(rq)
    BY <2>1, <2>2, <2>3 DEF Located, AfterClaim
  <2>5. /\ nq.pc \in Awaits(rq.op)
        /\ (nq.pc \in {"check", "claim"} => nq.left # {} /\ nq.left \subseteq Reserves(rq))
        /\ Reserves(rq) # {}
    BY <1>4, <2>1, <2>3 DEF Awaits, AfterClaim
  <2>6. ~Unsynced(nq) /\ ~Unsynced(rq)
    BY <2>1, <2>2 DEF Unsynced, AfterClaim
  <2> QED BY <1>4, <1>6, <2>1, <2>4, <2>5, <2>6 DEF NewShape, AfterClaim
<1>14. ASSUME Unclaim(s) \/ Release(s) PROVE nq.pc = "idle"
  BY <1>0, <1>14, UnclaimFacts, ReleaseFacts DEF nq
<1>15. ASSUME WriteDay(s) \/ Unset(s) PROVE SameOwn(s) /\ NewShape(rq, nq)
  <2>1. /\ rq.pc \in {"write", "unset"} /\ SameOwn(s) /\ nq.month = rq.month
        /\ nq.made = rq.made /\ nq.pc = "release"
    BY <1>15, WriteDayFacts, UnsetFacts DEF rq, nq, SameWork, SameDay
  <2>2. nq.op = rq.op
    BY <2>1 DEF SameOwn, rq, nq
  <2>3. rq.op \in {"save", "cancel"}
    BY <1>3, <2>1 DEF Awaits, AllOps
  <2>4. Located(nq) => Located(rq)
    BY <2>1, <2>2, <2>3 DEF Located
  <2> QED BY <1>4, <1>6, <2>1, <2>2, <2>3, <2>4, <1>7 DEF Awaits, Unsynced
<1>16. ASSUME InsertRecord(s) PROVE nq.pc = "idle" \/ (SameOwn(s) /\ NewShape(rq, nq))
  <2> DEFINE n == Len(records) + 1
  <2>1. /\ rq.pc = "insert"
        /\ \/ nq.pc = "idle"
           \/ /\ Inserts(s) /\ SameOwn(s) /\ nq.month = rq.month
              /\ nq.made = Append(rq.made, n) /\ nq.pc = AfterInsert(rq)
    BY <1>0, <1>2, <1>16, InsertRecordFacts DEF rq, nq, SameDay
  <2> SUFFICES ASSUME Inserts(s), SameOwn(s), nq.month = rq.month, nq.made = Append(rq.made, n),
                      nq.pc = AfterInsert(rq)
               PROVE  NewShape(rq, nq)
    BY <2>1
  <2>2. nq.op = rq.op
    BY DEF SameOwn, rq, nq
  <2>3. rq.op \in {"confirm", "pass", "sheet"}
    BY <1>3, <2>1 DEF Awaits, AllOps
  <2>4. /\ n \in DOMAIN records' /\ records'[n] = RecordFor(rq)
        /\ RecordFor(rq).cell = rq.cell
        /\ RecordFor(rq).made = IF rq.op = "confirm" THEN "grid" ELSE "hand"
    BY <1>0, <1>3, RecordForType, RecordsType DEF Inserts, rq
  <2>5. Located(nq) => Located(rq)
    BY <2>1, <2>2, <2>3 DEF Located, AfterInsert
  <2>6. rq.op = "sheet" => rq.key = None
    BY <1>2 DEF RequestShape, rq
  <2>7. nq.pc \in Awaits(rq.op)
    BY <2>3, <2>6 DEF Awaits, AfterInsert
  <2>8. rq.op # "confirm" => Unsynced(nq) /\ nq.made # <<>> /\ nq.made[1] = n
    <3>1. ASSUME rq.op # "confirm" PROVE rq.made = <<>> /\ Unsynced(nq)
      BY <3>1, <1>4, <2>1, <2>2, <2>3 DEF Unsynced, AfterInsert
    <3>2. rq.made = <<>> => nq.made # <<>> /\ nq.made[1] = n
      OBVIOUS
    <3> QED BY <3>1, <3>2
  <2>9. rq.op = "confirm" => ~Unsynced(nq)
    BY <2>2 DEF Unsynced
  <2>10. nq.pc \notin {"check", "readOwned", "claim", "unclaim"}
    BY DEF AfterInsert
  <2> HIDE DEF n
  <2> QED BY <1>4, <1>6, <2>3, <2>4, <2>5, <2>7, <2>8, <2>9, <2>10 DEF NewShape
<1>17. ASSUME MarkConfirmed(s) \/ Remember(s) PROVE nq.pc = "idle" \/ (SameOwn(s) /\ NewShape(rq, nq))
  <2>1. /\ rq.pc \in {"mark", "remember"}
        /\ \/ nq.pc = "idle"
           \/ /\ SameOwn(s) /\ nq.month = rq.month /\ nq.made = rq.made
              /\ nq.pc = IF rq.pc = "mark" THEN "remember" ELSE "syncRead"
              /\ rq.pc = "remember" => rq.op # "confirm"
    BY <1>0, <1>2, <1>17, MarkConfirmedFacts, RememberFacts DEF rq, nq, SameWork, SameDay
  <2>2. SameOwn(s) => nq.op = rq.op
    BY DEF SameOwn, rq, nq
  <2>3. rq.op \in {"confirm", "pass"} /\ (rq.pc = "mark" => rq.op = "confirm")
    BY <1>3, <2>1 DEF Awaits, AllOps
  <2>4. Located(nq) /\ SameOwn(s) /\ nq.pc # "idle" => Located(rq)
    BY <2>1, <2>2, <2>3 DEF Located
  <2> QED BY <1>4, <1>6, <2>1, <2>2, <2>3, <2>4, <1>7 DEF Awaits, Unsynced
<1>18. ASSUME SyncRead(s) PROVE SameOwn(s) /\ NewShape(rq, nq)
  <2> DEFINE i == AnyMonth("receiving")
  <2>1. /\ rq.pc = "syncRead" /\ rq.op \in {"pass", "sheet"} /\ SameOwn(s)
        /\ nq.month = i /\ nq.made = rq.made
        /\ nq.pc = IF i = 0 THEN "syncNew" ELSE "syncWrite"
    BY <1>2, <1>18, SyncReadFacts DEF rq, nq, SameWork
  <2>2. nq.op = rq.op
    BY <2>1 DEF SameOwn, rq, nq
  <2>3. i # 0 => i \in DOMAIN months /\ months[i].kind = rq.cell[1]
    BY <1>3, <2>1, AnyMonthFacts
  <2> HIDE DEF i
  <2>4. Located(nq) => i # 0
    BY <2>1, <2>2 DEF Located
  <2> QED BY <1>4, <1>6, <2>1, <2>2, <2>3, <2>4, <1>7 DEF Awaits, Unsynced
<1>19. ASSUME SyncNewMonth(s) PROVE SameOwn(s) /\ NewShape(rq, nq)
  <2>1. /\ rq.pc = "syncNew" /\ SameOwn(s) /\ nq.month = Len(months) + 1 /\ nq.made = rq.made
        /\ nq.pc = "syncWrite" /\ months' = Append(months, NewMonth(None, "receiving"))
    BY <1>19, SyncNewMonthFacts DEF rq, nq, SameWork
  <2>2. nq.op = rq.op
    BY <2>1 DEF SameOwn, rq, nq
  <2>3. rq.op \in {"pass", "sheet"} /\ rq.cell[1] = "receiving"
    BY <1>3, <2>1 DEF Awaits, AllOps
  <2>4. nq.month \in DOMAIN months' /\ months'[nq.month].kind = rq.cell[1]
    <3>1. "receiving" \in Kinds /\ None \in Laundries \cup {None}
      BY DEF Kinds
    <3>2. /\ DOMAIN months' = 1 .. Len(months) + 1
          /\ months'[Len(months) + 1] = NewMonth(None, "receiving")
      BY <2>1, <3>1, MonthAppended
    <3>3. NewMonth(None, "receiving").kind = "receiving" /\ Len(months) \in Nat
      BY <3>1, NewMonthType, MonthsType
    <3> QED BY <2>1, <2>3, <3>2, <3>3
  <2> QED BY <1>4, <1>6, <2>1, <2>2, <2>3, <2>4, <1>7 DEF Awaits, Unsynced
<1>20. ASSUME SyncWrite(s) \/ Propagate(s) PROVE nq.pc = "idle"
  BY <1>0, <1>20, FinishFacts DEF SyncWrite, Propagate, nq
<1> QED BY <1>10, <1>11, <1>12, <1>13, <1>14, <1>15, <1>16, <1>17, <1>18, <1>19, <1>20 DEF Continue

LEMMA ShapesKept ==
  ASSUME MonthTypes, RequestShapes, NEW s \in Slots, StepOf(s)
  PROVE  RequestShapes'
<1>1. StepEffects(s)
  BY HasEffects
<1>2. CASE Start(s)
  BY <1>1, <1>2, StartShape, ShapesTogether
<1>3. CASE Continue(s)
  BY <1>1, <1>3, ContinueShape, ShapesTogether DEF Active
<1>4. CASE Crash(s)
  <2>1. request'[s].pc = "idle"
    BY <1>4, FinishFacts, IdleFacts DEF Crash
  <2> QED BY <1>1, <2>1, ShapesTogether
<1> QED BY <1>2, <1>3, <1>4 DEF StepOf

-----------------------------------------------------------------------------
(* Numbers of gate passes. *)

LEMMA PassNumbersKept ==
  ASSUME MonthTypes, RequestShapes, PassNumbersDiffer, GeneratedOld,
         NEW s \in Slots, StepEffects(s)
  PROVE  PassNumbersDiffer'
<1>1. CASE records' = records
  BY <1>1 DEF PassNumbersDiffer, IsPass
<1>2. CASE request[s].pc = "insert" /\ ~InsertRefused(request[s]) /\ Inserts(s)
  <2> DEFINE rq == request[s]
             n == Len(records) + 1
             number == IF rq.refs.number = None THEN n ELSE rq.refs.number
  <2>1. RequestShape(rq) /\ rq \in Requests /\ rq.op \in AllOps /\ rq.refs \in ShownNumbers
    BY <1>2, ShapeOf, RequestIn, RequestFields
  <2>2. /\ rq.cell \in Cells /\ rq.op \in {"confirm", "pass", "sheet"}
        /\ (rq.op # "confirm" => rq.cell[1] = "receiving")
    BY <1>2, <2>1 DEF RequestShape, Awaits, AllOps
  <2>3. /\ records'[n].cell = rq.cell /\ records'[n].number = number
        /\ (records'[n].made = "hand" => rq.op # "confirm")
    BY <1>2, <2>1, <2>2, RecordForType DEF Inserts
  <2>4. /\ Len(records') = n /\ DOMAIN records' = 1 .. n /\ n \in Nat
        /\ DOMAIN records = 1 .. Len(records) /\ Len(records) \in Nat
        /\ \A i \in DOMAIN records : records'[i] = records[i]
    BY <1>2, RecordsType DEF Inserts
  <2>5. rq.cell[1] = "receiving" /\ rq.refs.number # None =>
          /\ \A i \in DOMAIN records : IsPass(i) => records[i].number # rq.refs.number
          /\ Old(rq.refs.number)
    <3>1. rq.cell[1] = "receiving" /\ rq.refs.number # None => ~NumberTaken(rq.refs.number)
      BY <1>2 DEF InsertRefused
    <3>2. rq.cell[1] = "receiving" => Old(rq.refs.number)
      BY <1>2 DEF GeneratedOld, Active
    <3> QED BY <3>1, <3>2 DEF NumberTaken, Passes, IsPass
  <2>6. \A i \in DOMAIN records : IsPass(i) /\ records[i].number \in Nat =>
          records[i].number <= Len(records)
    BY DEF PassNumbersDiffer
  <2>7. rq.cell[1] = "receiving" =>
          /\ \A i \in DOMAIN records : IsPass(i) => records[i].number # number
          /\ (number \in Nat => number <= n)
    <3>1. \A i \in DOMAIN records : IsPass(i) => records[i].number # n
      BY <2>4, <2>6
    <3>2. Old(rq.refs.number) /\ rq.refs.number \in Nat => rq.refs.number <= n
      BY <2>4 DEF Old
    <3> HIDE DEF rq, n
    <3> QED BY <2>4, <2>5, <3>1, <3>2
  <2> HIDE DEF rq, n, number
  <2>8. \A i \in 1 .. n : i = n \/ i \in DOMAIN records
    BY <2>4 DEF n
  <2>9. \A i \in DOMAIN records' : records'[i].made = "hand" => records'[i].cell[1] = "receiving"
    BY <2>2, <2>3, <2>4, <2>8 DEF PassNumbersDiffer, IsPass
  <2>10. \A i, j \in DOMAIN records' :
           /\ records'[i].cell[1] = "receiving" /\ records'[j].cell[1] = "receiving"
           /\ records'[i].number = records'[j].number
           => i = j
    BY <2>3, <2>4, <2>7, <2>8 DEF PassNumbersDiffer, IsPass
  <2>11. \A i \in DOMAIN records' :
           records'[i].cell[1] = "receiving" /\ records'[i].number \in Nat =>
             records'[i].number <= Len(records')
    <3>1. \A i \in DOMAIN records : records[i].number \in Nat /\ records[i].number <= Len(records)
            => records[i].number <= n
      BY <2>4 DEF n
    <3> QED BY <2>3, <2>4, <2>6, <2>7, <2>8, <3>1 DEF IsPass
  <2> QED BY <2>9, <2>10, <2>11 DEF PassNumbersDiffer, IsPass
<1> QED BY <1>1, <1>2 DEF StepEffects, RecordsStep

(* The number a written day shows is one somebody had in hand. *)
NumberInHand(rq, day) ==
  \/ day.number = None
  \/ rq.op = "save" /\ day.number = rq.refs.number
  \/ day.number = rq.seen.number
  \/ \E i \in DOMAIN records : IsPass(i) /\ day.number = records[i].number

LEMMA WrittenNumber ==
  ASSUME MonthTypes, RequestShapes, NEW s \in Slots, StepOf(s),
         request[s].pc \in {"write", "unset", "mark", "syncWrite", "propagate"}
  PROVE  \/ months' = months
         \/ \E day \in DayStates : /\ SetDay(request[s].month, request[s].cell, day)
                                   /\ NumberInHand(request[s], day)
<1> DEFINE rq == request[s]
<1>1. RequestShape(rq) /\ rq \in Requests /\ rq.op \in AllOps /\ rq.pc \in Awaits(rq.op)
  BY ShapeOf, RequestIn, RequestFields DEF RequestShape
<1>2. \/ Crash(s) \/ WriteDay(s) \/ Unset(s) \/ MarkConfirmed(s) \/ SyncWrite(s) \/ Propagate(s)
  BY DEF StepOf, Start, Active, Continue, InsertNewMonth, CheckNumber, ReadOwned, Claim, Unclaim,
     Release, InsertRecord, Remember, SyncRead, SyncNewMonth
<1>3. CASE Crash(s)
  BY <1>3 DEF Crash
<1>4. CASE WriteDay(s)
  <2>1. /\ rq.pc = "write" /\ SavedDay(rq) \in DayStates
        /\ SetDay(rq.month, rq.cell, SavedDay(rq))
    BY <1>4, WriteDayFacts
  <2>2. rq.op = "save"
    BY <1>1, <2>1 DEF Awaits, AllOps
  <2>3. SavedDay(rq).number = None \/ SavedDay(rq).number = rq.refs.number
    BY EmptyDayType DEF SavedDay
  <2> QED BY <2>1, <2>2, <2>3 DEF NumberInHand
<1>5. CASE Unset(s)
  <2>1. SetDay(rq.month, rq.cell, EmptyDay)
    BY <1>5, UnsetFacts
  <2> QED BY <2>1, EmptyDayType DEF NumberInHand
<1>6. CASE MarkConfirmed(s)
  <2> DEFINE day == [rq.seen EXCEPT !.status = "CONFIRMED", !.records = rq.made]
  <2>1. /\ day \in DayStates /\ day.number = rq.seen.number
        /\ SetDay(rq.month, rq.cell, day)
    BY <1>1, <1>6, MarkConfirmedFacts
  <2> HIDE DEF day
  <2> QED BY <2>1 DEF NumberInHand
<1>7. CASE SyncWrite(s)
  <2> DEFINE id == rq.made[1]
             day == Synced(rq.seen, records[id], id)
  <2>1. SetDay(rq.month, rq.cell, day) /\ rq.pc = "syncWrite"
    BY <1>7 DEF SyncWrite
  <2>2. rq.op \in {"pass", "sheet"} /\ rq.cell[1] = "receiving" /\ Unsynced(rq)
    BY <1>1, <2>1 DEF RequestShape, Awaits, AllOps, Unsynced
  <2>3. id \in DOMAIN records /\ IsPass(id)
    BY <1>1, <2>2 DEF RequestShape, IsPass
  <2>4. rq.seen \in DayStates /\ id \in Nat
    BY <1>1, <2>3, RequestFields, RecordsType
  <2>5. /\ records[id].bill \in BillNumbers \cup {None} /\ records[id].number \in PassNumbers \cup Nat
    BY <2>3, RecordsType
  <2>6. /\ day \in DayStates
        /\ day.number = rq.seen.number \/ day.number = records[id].number
    <3> HIDE DEF id
    <3> QED BY <2>4, <2>5, SyncedType
  <2> HIDE DEF day
  <2> QED BY <2>1, <2>3, <2>6 DEF NumberInHand
<1>8. CASE Propagate(s)
  <2> DEFINE id == rq.made[1]
             seen == DayIn(rq.month, rq.cell)
             day == [seen EXCEPT !.number = records[id].number, !.bill = Or(records[id].bill, seen.bill),
                                 !.status = IF seen.status = "EMPTY" THEN "DRAFT" ELSE seen.status]
  <2>1. SetDay(rq.month, rq.cell, day) /\ rq.pc = "propagate"
    BY <1>8 DEF Propagate
  <2>2. rq.op = "edit" /\ rq.cell[1] = "receiving"
    BY <1>1, <2>1 DEF RequestShape, Awaits, AllOps
  <2>3. id \in DOMAIN records /\ IsPass(id)
    BY <1>1, <2>2 DEF RequestShape, IsPass
  <2>4. seen \in DayStates
    BY <2>1, WriterIsLocated, DayInType DEF LocatedFacts
  <2>5. /\ records[id].bill \in BillNumbers \cup {None} /\ records[id].number \in PassNumbers \cup Nat
    BY <2>3, RecordsType
  <2>6. day \in DayStates /\ day.number = records[id].number
    <3> HIDE DEF id, seen
    <3> QED BY <2>4, <2>5, PropagatedType
  <2> HIDE DEF day
  <2> QED BY <2>1, <2>3, <2>6 DEF NumberInHand
<1> QED BY <1>2, <1>3, <1>4, <1>5, <1>6, <1>7, <1>8

(* What a request has read of its day, and the numbers it has in hand. *)
ReadSeen(s) ==
  \/ request'[s].seen = request[s].seen /\ Active(s)
  \/ request'[s].seen = EmptyDay
  \/ \E i \in DOMAIN months : /\ months[i].kind = request'[s].cell[1]
                              /\ request'[s].cell \in Cells
                              /\ request'[s].seen = months[i].days[request'[s].cell]

ReadRefs(s) ==
  \/ Active(s) /\ request'[s].refs = request[s].refs /\ request'[s].op = request[s].op
     /\ request'[s].cell = request[s].cell
  \/ request'[s].refs.number \in PassNumbers \cup {None}
  \/ request'[s].refs.number = request'[s].seen.number
  \/ request'[s].op = "confirm" /\ request'[s].cell[1] = "rewash"

LEMMA ReadDay ==
  ASSUME NEW c \in Cells, NEW i, i = 0 \/ (i \in DOMAIN months /\ months[i].kind = c[1]),
         NEW s \in Slots, request'[s].cell = c, request'[s].seen = DayIn(i, c)
  PROVE  ReadSeen(s)
  BY DEF ReadSeen, DayIn

LEMMA WhatIsRead ==
  ASSUME MonthTypes, RequestShapes, NEW s \in Slots, StepOf(s), request'[s].pc # "idle"
  PROVE  ReadSeen(s) /\ ReadRefs(s)
<1>0. \A i \in Slots : request[i] \in Requests
  BY RequestIn
<1>1. CASE Start(s)
  <2>1. ~Active(s) /\ started < MaxRequests
    BY <1>1 DEF Start
  <2>2. \A l, k : MonthOf(l, k) = 0 \/ (MonthOf(l, k) \in DOMAIN months /\ months[MonthOf(l, k)].kind = k)
    BY MonthOfFacts
  <2>3. \/ \E l \in Laundries, c \in Cells, p \in Payloads : StartSave(s, l, c, p)
        \/ \E l \in Laundries, c \in Cells : StartCancel(s, l, c)
        \/ \E l \in Laundries, c \in Cells : StartSheet(s, l, c)
        \/ \E l \in Laundries, c \in Cells, n \in 1 .. MaxPlan, k \in Keys :
             StartConfirm(s, l, c, n, k)
        \/ \E l \in Laundries, c \in Cells, r \in PassRefs, k \in Keys : StartPass(s, l, c, r, k)
        \/ \E id \in DOMAIN records : StartEdit(s, id)
    BY <1>1 DEF Start
  <2>4. NoReferences.number = None
    BY DEF NoReferences
  <2>5. ASSUME NEW l \in Laundries, NEW c \in Cells, NEW p \in Payloads, StartSave(s, l, c, p)
        PROVE  ReadSeen(s) /\ ReadRefs(s)
    <3> DEFINE i == MonthOf(l, c[1])
               day == DayIn(i, c)
               nq == request'[s]
    <3>1. /\ nq.cell = c /\ nq.seen = day
          /\ nq.refs.number = day.number \/ nq.refs.number \in PassNumbers \cup {None}
      BY <2>1, <2>5, StartSaveFacts
    <3>2. i = 0 \/ (i \in DOMAIN months /\ months[i].kind = c[1])
      BY <2>2
    <3> HIDE DEF i
    <3> QED BY <3>1, <3>2, ReadDay DEF ReadRefs
  <2>6. ASSUME NEW l \in Laundries, NEW c \in Cells, StartCancel(s, l, c)
        PROVE  ReadSeen(s) /\ ReadRefs(s)
    <3> DEFINE i == MonthOf(l, c[1])
               nq == request'[s]
    <3>1. nq.cell = c /\ nq.seen = DayIn(i, c) /\ nq.refs = NoReferences
      BY <2>1, <2>6, StartCancelFacts
    <3>2. i = 0 \/ (i \in DOMAIN months /\ months[i].kind = c[1])
      BY <2>2
    <3> HIDE DEF i
    <3> QED BY <2>4, <3>1, <3>2, ReadDay DEF ReadRefs
  <2>7. ASSUME NEW l \in Laundries, NEW c \in Cells, StartSheet(s, l, c)
        PROVE  ReadSeen(s) /\ ReadRefs(s)
    <3>1. request'[s].seen = EmptyDay /\ request'[s].refs = NoReferences
      BY <2>1, <2>7, StartSheetFacts
    <3> QED BY <2>4, <3>1 DEF ReadSeen, ReadRefs
  <2>8. ASSUME NEW l \in Laundries, NEW c \in Cells, NEW n \in 1 .. MaxPlan, NEW k \in Keys,
               StartConfirm(s, l, c, n, k)
        PROVE  ReadSeen(s) /\ ReadRefs(s)
    <3> DEFINE i == MonthOf(l, c[1])
               nq == request'[s]
    <3>1. /\ nq.cell = c /\ nq.seen = DayIn(i, c) /\ nq.op = "confirm"
          /\ (c[1] # "rewash" => nq.refs.number = DayIn(i, c).number)
      BY <2>1, <2>8, StartConfirmFacts
    <3>2. i = 0 \/ (i \in DOMAIN months /\ months[i].kind = c[1])
      BY <2>2
    <3> HIDE DEF i
    <3> QED BY <3>1, <3>2, ReadDay DEF ReadRefs
  <2>9. ASSUME NEW l \in Laundries, NEW c \in Cells, NEW r \in PassRefs, NEW k \in Keys,
               StartPass(s, l, c, r, k)
        PROVE  ReadSeen(s) /\ ReadRefs(s)
    <3>1. request'[s].seen = EmptyDay /\ request'[s].refs.number \in PassNumbers
      BY <2>1, <2>9, StartPassFacts
    <3> QED BY <3>1 DEF ReadSeen, ReadRefs
  <2>10. ASSUME NEW id \in DOMAIN records, StartEdit(s, id)
        PROVE  ReadSeen(s) /\ ReadRefs(s)
    <3>1. request'[s].seen = EmptyDay /\ request'[s].refs = NoReferences
      BY <2>1, <2>10, StartEditFacts
    <3> QED BY <2>4, <3>1 DEF ReadSeen, ReadRefs
  <2> QED BY <2>3, <2>5, <2>6, <2>7, <2>8, <2>9, <2>10
<1>2. CASE Continue(s)
  <2>1. Active(s) /\ SameOwn(s) /\ RequestShape(request[s])
    BY <1>2, ContinueShape, ShapeOf DEF Active
  <2>2. ReadRefs(s)
    BY <2>1 DEF ReadRefs, SameOwn
  <2>3. CASE SyncRead(s)
    <3> DEFINE i == AnyMonth("receiving")
               c == request'[s].cell
    <3>1. request'[s].seen = DayIn(i, request[s].cell) /\ request[s].op \in {"pass", "sheet"}
      BY <2>1, <2>3, SyncReadFacts
    <3>2. c = request[s].cell
      BY <2>1 DEF SameOwn
    <3>3. c \in Cells /\ c[1] = "receiving"
      BY <2>1, <3>1, <3>2 DEF RequestShape
    <3>4. i = 0 \/ (i \in DOMAIN months /\ months[i].kind = c[1])
      BY <3>3, AnyMonthFacts
    <3>5. request'[s].seen = DayIn(i, c)
      BY <3>1, <3>2
    <3> HIDE DEF i
    <3>6. PICK d \in Cells : d = c
      BY <3>3
    <3>7. ReadSeen(s)
      BY <3>4, <3>5, <3>6 DEF ReadSeen, DayIn
    <3> QED BY <2>2, <3>7
  <2>4. CASE ~SyncRead(s)
    <3>0. IdleRequest.pc = "idle"
      BY IdleFacts
    <3>1. request'[s].seen = request[s].seen
      <4>1. InsertNewMonth(s) => request'[s].seen = request[s].seen
        BY <2>1, InsertNewMonthFacts
      <4>2. CheckNumber(s) => request'[s].seen = request[s].seen
        BY <2>1, <3>0, CheckNumberFacts DEF SameDay
      <4>3. ReadOwned(s) => request'[s].seen = request[s].seen
        BY <2>1, ReadOwnedFacts DEF SameDay
      <4>4. Claim(s) => request'[s].seen = request[s].seen
        BY <2>1, ClaimFacts DEF SameDay
      <4>5. ~Unclaim(s) /\ ~Release(s) /\ ~SyncWrite(s) /\ ~Propagate(s)
        BY <3>0, UnclaimFacts, ReleaseFacts, FinishFacts DEF SyncWrite, Propagate
      <4>6. WriteDay(s) \/ Unset(s) => request'[s].seen = request[s].seen
        BY WriteDayFacts, UnsetFacts DEF SameDay
      <4>7. InsertRecord(s) => request'[s].seen = request[s].seen
        BY <2>1, <3>0, InsertRecordFacts DEF SameDay
      <4>8. MarkConfirmed(s) \/ Remember(s) => request'[s].seen = request[s].seen
        BY <2>1, <3>0, MarkConfirmedFacts, RememberFacts DEF SameDay
      <4>9. SyncNewMonth(s) => request'[s].seen = request[s].seen
        BY SyncNewMonthFacts
      <4> QED BY <1>2, <2>4, <4>1, <4>2, <4>3, <4>4, <4>5, <4>6, <4>7, <4>8, <4>9 DEF Continue
    <3> QED BY <2>1, <2>2, <3>1 DEF ReadSeen
  <2> QED BY <2>3, <2>4
<1>3. CASE Crash(s)
  BY <1>3, FinishFacts, IdleFacts DEF Crash
<1> QED BY <1>1, <1>2, <1>3 DEF StepOf

LEMMA GeneratedOldKept ==
  ASSUME MonthTypes, RequestShapes, PassNumbersDiffer, GeneratedOld,
         NEW s \in Slots, StepOf(s), StepEffects(s)
  PROVE  GeneratedOld'
<1>1. Len(records) \in Nat /\ Len(records') \in Nat /\ Len(records) <= Len(records')
  BY RecordsGrow, RecordsType
<1>2. \A n : Old(n) => Old(n)'
  BY <1>1 DEF Old
<1>3. /\ \A i \in DOMAIN months : \A c \in CellsOf(months[i].kind) : Old(months[i].days[c].number)
      /\ \A t \in Slots : Active(t) =>
           /\ Old(request[t].seen.number)
           /\ (request[t].op = "confirm" => request[t].cell[1] # "rewash") =>
                Old(request[t].refs.number)
  BY DEF GeneratedOld
<1>4. \A n \in PassNumbers \cup {None} : Old(n)
  BY NumbersDiffer DEF Old
<1>5. \A i \in DOMAIN records : IsPass(i) => Old(records[i].number)
  BY DEF PassNumbersDiffer, Old
<1>6. Old(EmptyDay.number) /\ None \in PassNumbers \cup {None}
  BY <1>4, EmptyDayType
<1>7. \A i \in DOMAIN months' : \A c \in CellsOf(months'[i].kind) : Old(months'[i].days[c].number)
  <2>1. CASE months' = months
    BY <1>3, <2>1
  <2>2. CASE /\ request[s].pc \in {"newMonth", "syncNew"}
             /\ \E l \in Laundries \cup {None} :
                  months' = Append(months, NewMonth(l, request[s].cell[1]))
    <3>1. PICK l \in Laundries \cup {None} : months' = Append(months, NewMonth(l, request[s].cell[1]))
      BY <2>2
    <3>2. request[s].cell[1] \in Kinds
      BY <2>2, InserterOfMonth
    <3>3. PICK k \in Kinds : k = request[s].cell[1]
      BY <3>2
    <3>4. /\ DOMAIN months' = 1 .. Len(months) + 1 /\ DOMAIN months = 1 .. Len(months)
          /\ Len(months) \in Nat
          /\ \A i \in DOMAIN months : months'[i] = months[i]
          /\ months'[Len(months) + 1] = NewMonth(l, k)
      BY <3>1, <3>3, MonthAppended, MonthsType
    <3>5. /\ NewMonth(l, k).kind = k
          /\ \A c \in CellsOf(k) : NewMonth(l, k).days[c] = EmptyDay
      BY NewMonthType
    <3>6. \A i \in DOMAIN months' : i \in DOMAIN months \/ i = Len(months) + 1
      BY <3>4
    <3> QED BY <1>3, <1>6, <3>4, <3>5, <3>6
  <2>3. CASE request[s].pc \in {"write", "unset", "mark", "syncWrite", "propagate"} /\ months' # months
    <3>1. PICK day \in DayStates : /\ SetDay(request[s].month, request[s].cell, day)
                                   /\ NumberInHand(request[s], day)
      BY <2>3, WrittenNumber
    <3>2. LocatedFacts(request[s])
      BY <2>3, WriterIsLocated
    <3>3. Old(day.number)
      BY <1>3, <1>4, <1>5, <2>3, <3>1 DEF NumberInHand, Active
    <3>4. /\ DOMAIN months' = DOMAIN months
          /\ \A j \in DOMAIN months :
               /\ months'[j].kind = months[j].kind
               /\ \A d \in CellsOf(months[j].kind) :
                    months'[j].days[d] = IF j = request[s].month /\ d = request[s].cell THEN day
                                         ELSE months[j].days[d]
      BY <3>1, <3>2, MonthWritten DEF LocatedFacts
    <3> QED BY <1>3, <3>3, <3>4
  <2> QED BY <2>1, <2>2, <2>3 DEF StepEffects, MonthsStep
<1>8. \A t \in Slots : request'[t].pc # "idle" =>
        /\ Old(request'[t].seen.number)
        /\ (request'[t].op = "confirm" => request'[t].cell[1] # "rewash") =>
             Old(request'[t].refs.number)
  <2>1. \A t \in Slots : t # s => request'[t] = request[t]
    BY DEF StepEffects, Acts
  <2>2. ASSUME request'[s].pc # "idle"
        PROVE  /\ Old(request'[s].seen.number)
               /\ (request'[s].op = "confirm" => request'[s].cell[1] # "rewash") =>
                    Old(request'[s].refs.number)
    <3>1. ReadSeen(s) /\ ReadRefs(s)
      BY <2>2, WhatIsRead
    <3>2. Old(request'[s].seen.number)
      BY <1>3, <1>6, <3>1 DEF ReadSeen, CellsOf
    <3> QED BY <1>3, <1>4, <3>1, <3>2 DEF ReadRefs
  <2> QED BY <1>3, <2>1, <2>2 DEF Active
<1>9. \A n : Old(n) => (n \in Nat => n <= Len(records'))
  BY <1>1 DEF Old
<1>10. \A i \in DOMAIN months' : \A c \in CellsOf(months'[i].kind) :
        months'[i].days[c].number \in Nat => months'[i].days[c].number <= Len(records')
  BY <1>7, <1>9
<1>11. \A t \in Slots : request'[t].pc # "idle" =>
        /\ request'[t].seen.number \in Nat => request'[t].seen.number <= Len(records')
        /\ (request'[t].op = "confirm" => request'[t].cell[1] # "rewash") =>
             (request'[t].refs.number \in Nat => request'[t].refs.number <= Len(records'))
  BY <1>8, <1>9
<1> QED BY <1>10, <1>11 DEF GeneratedOld, Active, Old, CellsOf

(* A reservation stays, under its scope and owner, unless its owner's own   *)
(* request takes it back.                                                   *)
LEMMA ReservationKept ==
  ASSUME MonthTypes, RequestShapes, NEW s \in Slots, StepEffects(s), NEW r \in reserved,
         request[s].pc \notin {"unclaim", "release"} \/ request[s].owner # r.owner
  PROVE  \E q \in reserved' : q.scope = r.scope /\ q.owner = r.owner
<1>1. CASE reserved' = reserved
  BY <1>1
<1>2. CASE /\ request[s].pc = "claim" /\ ~DuplicateKey(reserved, ClaimOf(request[s]))
           /\ reserved' = Upsert(reserved, ClaimOf(request[s]))
  <2>1. ClaimOf(request[s]) \in reserved'
    BY <1>2 DEF Upsert
  <2>2. CASE r.scope # ClaimOf(request[s]).scope
    BY <1>2, <2>2 DEF Upsert
  <2>3. CASE r.scope = ClaimOf(request[s]).scope
    <3>1. r.owner = ClaimOf(request[s]).owner
      BY <1>2, <2>3 DEF DuplicateKey
    <3> QED BY <2>1, <2>3, <3>1
  <2> QED BY <2>2, <2>3
<1>3. CASE /\ request[s].pc \in {"unclaim", "release"} /\ reserved' \subseteq reserved
           /\ \A q \in reserved : q.owner # request[s].owner => q \in reserved'
  BY <1>3
<1> QED BY <1>1, <1>2, <1>3 DEF StepEffects, RegistryStep

(* Who is at the registry after a step was there before, or has a new pass, *)
(* or works for a day.                                                      *)
LEMMA AtRegistryBefore ==
  ASSUME MonthTypes, RequestShapes, NEW s \in Slots, StepOf(s),
         request'[s].pc \in AtRegistry
  PROVE  \/ request[s].pc \in AtRegistry /\ request'[s].owner = request[s].owner
         \/ request'[s].owner \in Cells \cup {<<"gatepass", started>>}
<1>1. CASE Start(s)
  BY <1>1, StartShape DEF RequestShape
<1>2. CASE Continue(s)
  <2>1. SameOwn(s) /\ RequestShape(request[s]) /\ RequestShape(request[s])'
    BY <1>2, ContinueShape, ShapeOf DEF AtRegistry
  <2>2. request'[s].owner = request[s].owner
    BY <2>1 DEF SameOwn
  <2>3. CASE request[s].op # "pass"
    BY <2>1, <2>2, <2>3 DEF RequestShape
  <2>4. CASE request[s].op = "pass" /\ request[s].pc \notin AtRegistry
    <3>1. CASE InsertNewMonth(s)
      BY <2>1, <2>4, <3>1 DEF RequestShape, Awaits, InsertNewMonth
    <3>2. CASE CheckNumber(s) \/ ReadOwned(s) \/ Claim(s) \/ Unclaim(s)
      BY <2>4, <3>2 DEF AtRegistry, CheckNumber, ReadOwned, Claim, Unclaim
    <3>3. CASE WriteDay(s) \/ Release(s) \/ Unset(s) \/ MarkConfirmed(s) \/ Propagate(s)
      <4>1. request[s].pc \in {"write", "release", "unset", "mark", "propagate"}
        BY <3>3 DEF WriteDay, Release, Unset, MarkConfirmed, Propagate
      <4> QED BY <2>1, <2>4, <4>1 DEF RequestShape, Awaits
    <3>4. CASE InsertRecord(s)
      <4>1. request'[s].pc = "idle" \/ request'[s].pc = AfterInsert(request[s])
        BY <2>1, <3>4, InsertRecordFacts, IdleFacts
      <4> QED BY <4>1 DEF AfterInsert, AtRegistry
    <3>5. CASE Remember(s)
      BY <3>5, RememberFacts, IdleFacts DEF AtRegistry
    <3>6. CASE SyncRead(s)
      BY <2>1, <3>6, SyncReadFacts DEF AtRegistry
    <3>7. CASE SyncNewMonth(s)
      BY <3>7, SyncNewMonthFacts DEF AtRegistry
    <3>8. CASE SyncWrite(s)
      BY <3>8, FinishFacts, IdleFacts DEF AtRegistry, SyncWrite
    <3> QED BY <1>2, <3>1, <3>2, <3>3, <3>4, <3>5, <3>6, <3>7, <3>8 DEF Continue
  <2> QED BY <2>2, <2>3, <2>4
<1>3. CASE Crash(s)
  BY <1>3, FinishFacts, IdleFacts DEF Crash, AtRegistry
<1> QED BY <1>1, <1>2, <1>3 DEF StepOf

(* A pass about to be inserted has just been given its number, or waits.    *)
LEMMA InsertBefore ==
  ASSUME MonthTypes, RequestShapes, NEW s \in Slots, StepOf(s),
         request'[s].pc = "insert", request'[s].op = "pass"
  PROVE  /\ request[s].pc = "claim" /\ request[s].op = "pass" /\ SameOwn(s)
         /\ ClaimOf(request[s]) \in reserved'
         /\ ClaimOf(request[s]).owner = request[s].owner
         /\ ClaimOf(request[s]).scope = NumberScope(request[s].refs.number)
<1>1. CASE Start(s)
  <2>1. CASE \E l \in Laundries, c \in Cells, p \in Payloads : StartSave(s, l, c, p)
    BY <1>1, <2>1, StartSaveFacts DEF Start
  <2>2. CASE \E l \in Laundries, c \in Cells : StartCancel(s, l, c) \/ StartSheet(s, l, c)
    BY <1>1, <2>2, StartCancelFacts, StartSheetFacts DEF Start
  <2>3. CASE \E l \in Laundries, c \in Cells, n \in 1 .. MaxPlan, k \in Keys :
               StartConfirm(s, l, c, n, k)
    BY <1>1, <2>3, StartConfirmFacts DEF Start
  <2>4. CASE \E l \in Laundries, c \in Cells, r \in PassRefs, k \in Keys :
               StartPass(s, l, c, r, k)
    BY <1>1, <2>4, StartPassFacts DEF Start
  <2>5. CASE \E id \in DOMAIN records : StartEdit(s, id)
    BY <1>1, <2>5, StartEditFacts DEF Start
  <2> QED BY <1>1, <2>1, <2>2, <2>3, <2>4, <2>5 DEF Start
<1>2. CASE Continue(s)
  <2>1. SameOwn(s) /\ RequestShape(request[s]) /\ request[s].op = "pass"
    BY <1>2, ContinueShape, ShapeOf DEF SameOwn
  <2>2. request[s].pc \in {"check", "readOwned", "claim", "unclaim", "insert", "remember",
                           "syncRead", "syncNew", "syncWrite"}
    BY <2>1 DEF RequestShape, Awaits
  <2>3. CASE CheckNumber(s)
    BY <2>1, <2>3, CheckNumberFacts, IdleFacts
  <2>4. CASE ReadOwned(s)
    BY <2>1, <2>4, ReadOwnedFacts
  <2>5. CASE Claim(s)
    <3>1. /\ request[s].pc = "claim" /\ reserved' = Upsert(reserved, ClaimOf(request[s]))
      BY <2>1, <2>5, ClaimFacts
    <3>2. request[s].left # {} /\ request[s].left \subseteq {"number"}
      BY <2>1, <3>1 DEF RequestShape, Reserves
    <3>3. NextField(request[s].left) = "number"
      BY <3>2 DEF NextField
    <3>4. request[s].refs["number"] = request[s].refs.number
      BY RequestIn, RequestFields, RefsFields
    <3> QED BY <2>1, <3>1, <3>3, <3>4, ReservationFacts, ScopeFacts
            DEF ClaimOf, Upsert, NumberScope
  <2>6. CASE Unclaim(s) \/ SyncWrite(s)
    BY <2>6, UnclaimFacts, FinishFacts, IdleFacts DEF SyncWrite
  <2>7. CASE InsertNewMonth(s) \/ WriteDay(s) \/ Release(s) \/ Unset(s) \/ MarkConfirmed(s)
               \/ Propagate(s)
    BY <2>2, <2>7 DEF InsertNewMonth, WriteDay, Release, Unset, MarkConfirmed, Propagate
  <2>8. CASE InsertRecord(s)
    <3>1. request'[s].pc = "idle" \/ request'[s].pc = AfterInsert(request[s])
      BY <2>1, <2>8, InsertRecordFacts, IdleFacts
    <3> QED BY <2>1, <3>1 DEF AfterInsert
  <2>9. CASE Remember(s)
    BY <2>9, RememberFacts, IdleFacts
  <2>10. CASE SyncRead(s)
    BY <2>1, <2>10, SyncReadFacts
  <2>11. CASE SyncNewMonth(s)
    BY <2>11, SyncNewMonthFacts
  <2> QED BY <1>2, <2>3, <2>4, <2>5, <2>6, <2>7, <2>8, <2>9, <2>10, <2>11 DEF Continue
<1>3. CASE Crash(s)
  BY <1>3, FinishFacts, IdleFacts DEF Crash
<1> QED BY <1>1, <1>2, <1>3 DEF StepOf

(* What a request takes back is its own: no pass that is made has it.       *)
LEMMA PassesHeldKept ==
  ASSUME MonthTypes, RequestShapes, PassesHeld, NEW s \in Slots, StepOf(s), StepEffects(s)
  PROVE  PassesHeld'
<1>1. /\ KnownOwners \subseteq KnownOwners' /\ started \in Nat
      /\ \A o \in KnownOwners : o \notin Cells /\ o # <<"gatepass", started>>
  <2>1. KnownOwners \subseteq KnownOwners' /\ started \in Nat
    BY OwnersGrow
  <2>2. \A o \in KnownOwners : o \notin Cells
    BY CellsAreNotPasses, KnownAreOwners
  <2>3. \A o \in KnownOwners : o # <<"gatepass", started>>
    BY <2>1 DEF KnownOwners
  <2> QED BY <2>1, <2>2, <2>3
<1>2. \A t \in Slots : t # s => request'[t] = request[t]
  BY DEF StepEffects, Acts
<1>3. \A t \in Slots : request[t].pc \in AtRegistry \cup {"release"} =>
        \/ request[t].op = "pass" /\ Active(t) /\ request[t].pc # "release"
        \/ request[t].owner \in Cells
  <2> SUFFICES ASSUME NEW t \in Slots, request[t].pc \in AtRegistry \cup {"release"}
               PROVE  \/ request[t].op = "pass" /\ Active(t) /\ request[t].pc # "release"
                      \/ request[t].owner \in Cells
    OBVIOUS
  <2>1. RequestShape(request[t])
    BY ShapeOf DEF AtRegistry
  <2> QED BY <2>1 DEF RequestShape, Active, AtRegistry, Awaits
<1>4. ASSUME NEW i \in DOMAIN records', (IsPass(i))', records'[i].made = "hand",
             records'[i].number \in PassNumbers
      PROVE  \E r \in reserved' :
               /\ r.scope = NumberScope(records'[i].number) /\ r.owner \in KnownOwners'
               /\ \A t \in Slots : request'[t].pc \in AtRegistry => request'[t].owner # r.owner
  <2>1. CASE i \in DOMAIN records /\ records'[i] = records[i]
    <3>1. PICK r \in reserved :
            /\ r.scope = NumberScope(records[i].number) /\ r.owner \in KnownOwners
            /\ \A t \in Slots : request[t].pc \in AtRegistry => request[t].owner # r.owner
      BY <1>4, <2>1 DEF PassesHeld, IsPass
    <3>2. request[s].pc \in {"unclaim", "release"} => request[s].owner # r.owner
      BY <1>1, <1>3, <3>1 DEF AtRegistry
    <3>3. PICK q \in reserved' : q.scope = r.scope /\ q.owner = r.owner
      BY <3>2, ReservationKept
    <3>4. request'[s].pc \in AtRegistry => request'[s].owner # q.owner
      BY <1>1, <3>1, <3>3, AtRegistryBefore
    <3> QED BY <1>1, <1>2, <2>1, <3>1, <3>3, <3>4
  <2>2. CASE i \notin DOMAIN records
    <3>1. request[s].pc = "insert" /\ ~InsertRefused(request[s]) /\ Inserts(s)
      BY <2>2 DEF StepEffects, RecordsStep
    <3>2. i = Len(records) + 1 /\ records'[i] = RecordFor(request[s])
      BY <2>2, <3>1, RecordsType DEF Inserts
    <3>3. RequestShape(request[s]) /\ request[s] \in Requests
      BY <3>1, ShapeOf, RequestIn
    <3>4. /\ request[s].op # "confirm"
          /\ records'[i].number = IF request[s].refs.number = None THEN Len(records) + 1
                                  ELSE request[s].refs.number
      BY <1>4, <3>2, <3>3, RecordForType DEF RequestShape
    <3>5. request[s].op = "pass" /\ records'[i].number = request[s].refs.number
      <4>1. request[s].op \in {"pass", "sheet"}
        BY <3>1, <3>3, <3>4, RequestFields DEF RequestShape, Awaits, AllOps
      <4>2. request[s].op = "sheet" => request[s].refs.number = None
        BY <3>3 DEF RequestShape, NoReferences
      <4>3. Len(records) + 1 \notin PassNumbers
        BY RecordsType, NumbersDiffer
      <4> QED BY <1>4, <3>4, <4>1, <4>2, <4>3
    <3>6. PICK r \in reserved :
            r.scope = NumberScope(request[s].refs.number) /\ r.owner = request[s].owner
      BY <3>1, <3>5 DEF PassesHeld
    <3>7. r.owner \in KnownOwners
      BY <3>3, <3>5, <3>6 DEF RequestShape
    <3>8. r \in reserved'
      BY <3>1 DEF StepEffects, RegistryStep
    <3>9. request'[s].pc \notin AtRegistry
      <4>1. ~Active(s) \/ request[s].pc \in AtRegistry => FALSE
        BY <3>1 DEF Active, AtRegistry
      <4>2. Continue(s) \/ Crash(s)
        BY <4>1 DEF StepOf, Start
      <4>3. CASE Continue(s)
        <5>1. InsertRecord(s)
          BY <3>1, <4>3 DEF Continue, InsertNewMonth, CheckNumber, ReadOwned, Claim, Unclaim,
               WriteDay, Release, Unset, MarkConfirmed, Remember, SyncRead, SyncNewMonth,
               SyncWrite, Propagate
        <5>2. request'[s].pc = "idle" \/ request'[s].pc = AfterInsert(request[s])
          BY <3>3, <5>1, InsertRecordFacts, IdleFacts
        <5> QED BY <5>2 DEF AfterInsert, AtRegistry
      <4>4. CASE Crash(s)
        BY <4>4, FinishFacts, IdleFacts DEF Crash, AtRegistry
      <4> QED BY <4>2, <4>3, <4>4
    <3>10. \A t \in Slots : t # s /\ request[t].pc \in AtRegistry => request[t].owner # r.owner
      BY <1>1, <1>3, <3>1, <3>5, <3>6, <3>7 DEF RequestShapes, Active
    <3> QED BY <1>1, <1>2, <3>5, <3>6, <3>7, <3>8, <3>9, <3>10
  <2>3. i \in DOMAIN records => records'[i] = records[i]
    BY RecordsGrow
  <2> QED BY <2>1, <2>2, <2>3
<1>5. ASSUME NEW t \in Slots, request'[t].op = "pass", request'[t].pc = "insert"
      PROVE  \E r \in reserved' : r.scope = NumberScope(request'[t].refs.number)
                                  /\ r.owner = request'[t].owner
  <2>1. CASE t = s
    <3>1. /\ SameOwn(s) /\ ClaimOf(request[s]) \in reserved'
          /\ ClaimOf(request[s]).owner = request[s].owner
          /\ ClaimOf(request[s]).scope = NumberScope(request[s].refs.number)
      BY <1>5, <2>1, InsertBefore
    <3> QED BY <2>1, <3>1 DEF SameOwn
  <2>2. CASE t # s
    <3>1. request'[t] = request[t]
      BY <1>2, <2>2
    <3>2. PICK r \in reserved :
            r.scope = NumberScope(request[t].refs.number) /\ r.owner = request[t].owner
      BY <1>5, <3>1 DEF PassesHeld
    <3>3. RequestShape(request[t]) /\ Active(t)
      BY <1>5, <3>1, ShapeOf DEF Active
    <3>4. request[t].owner \in KnownOwners
      BY <1>5, <3>1, <3>3 DEF RequestShape
    <3>5. request[s].pc \in {"unclaim", "release"} => request[s].owner # r.owner
      BY <1>1, <1>3, <1>5, <2>2, <3>1, <3>2, <3>3, <3>4 DEF RequestShapes, AtRegistry
    <3>6. PICK q \in reserved' : q.scope = r.scope /\ q.owner = r.owner
      BY <3>5, ReservationKept
    <3> QED BY <3>1, <3>2, <3>6
  <2> QED BY <2>1, <2>2
<1> QED BY <1>4, <1>5 DEF PassesHeld, IsPass, NumberScope

LEMMA StartBegins ==
  ASSUME MonthTypes, NEW s \in Slots, Start(s)
  PROVE  BeginsAs(s, request'[s]) /\ ~Active(s)
<1>1. CASE \E l \in Laundries, c \in Cells, p \in Payloads : StartSave(s, l, c, p)
  BY <1>1, StartSaveFacts DEF Start
<1>2. CASE \E l \in Laundries, c \in Cells : StartCancel(s, l, c) \/ StartSheet(s, l, c)
  BY <1>2, StartCancelFacts, StartSheetFacts DEF Start
<1>3. CASE \E l \in Laundries, c \in Cells, n \in 1 .. MaxPlan, k \in Keys :
             StartConfirm(s, l, c, n, k)
  BY <1>3, StartConfirmFacts DEF Start
<1>4. CASE \E l \in Laundries, c \in Cells, r \in PassRefs, k \in Keys :
             StartPass(s, l, c, r, k)
  BY <1>4, StartPassFacts DEF Start
<1>5. CASE \E id \in DOMAIN records : StartEdit(s, id)
  BY <1>5, StartEditFacts DEF Start
<1> QED BY <1>1, <1>2, <1>3, <1>4, <1>5 DEF Start

(* Whoever works on a day that stays clean is alone there.                  *)
LEMMA WorkersBefore ==
  ASSUME MonthTypes, RequestShapes, NEW s \in Slots, StepOf(s), StepEffects(s), NEW c \in Cells,
         c \notin mixed', Works(s, c)'
  PROVE  Works(s, c) \/ (\A t \in Slots : t # s => ~Works(t, c))
<1>1. request'[s].cell = c /\ request'[s].pc # "idle"
  BY DEF Works, Active
<1>2. CASE Start(s)
  <2>1. \A t \in Slots : Active(t) /\ request[t].cell = c => FALSE
    BY <1>1, <1>2, StartBegins DEF BeginsAs
  <2> QED BY <2>1 DEF Works
<1>3. CASE Continue(s)
  BY <1>1, <1>3, ContinueShape DEF SameOwn, Works, Active
<1>4. CASE Crash(s)
  BY <1>1, <1>4, FinishFacts, IdleFacts DEF Crash
<1> QED BY <1>2, <1>3, <1>4 DEF StepOf

LEMMA OneMonthKept ==
  ASSUME MonthTypes, RequestShapes, OneAtATime, NEW s \in Slots, StepEffects(s),
         NEW c \in Cells, c \notin mixed'
  PROVE  \A i, j \in DOMAIN months' :
           months'[i].kind = c[1] /\ months'[j].kind = c[1] => i = j
<1>1. \A i, j \in DOMAIN months : months[i].kind = c[1] /\ months[j].kind = c[1] => i = j
  BY DEF OneAtATime, Clean, StepEffects, CountsStep
<1>2. CASE months' = months
  BY <1>1, <1>2
<1>3. CASE /\ request[s].pc \in {"newMonth", "syncNew"}
           /\ \E l \in Laundries \cup {None} :
                months' = Append(months, NewMonth(l, request[s].cell[1]))
           /\ mixed' = IF AnyMonth(request[s].cell[1]) = 0 THEN mixed
                       ELSE mixed \cup CellsOf(request[s].cell[1])
  <2>1. PICK l \in Laundries \cup {None} :
          months' = Append(months, NewMonth(l, request[s].cell[1]))
    BY <1>3
  <2>2. request[s].cell[1] \in Kinds
    BY <1>3, InserterOfMonth
  <2>3. PICK k \in Kinds : k = request[s].cell[1]
    BY <2>2
  <2>4. /\ DOMAIN months' = 1 .. Len(months) + 1 /\ DOMAIN months = 1 .. Len(months)
        /\ Len(months) \in Nat
        /\ \A i \in DOMAIN months : months'[i] = months[i]
        /\ months'[Len(months) + 1] = NewMonth(l, k) /\ NewMonth(l, k).kind = k
    BY <2>1, <2>3, MonthAppended, MonthsType, NewMonthType
  <2>5. \A i \in DOMAIN months' : i \in DOMAIN months \/ i = Len(months) + 1
    BY <2>4
  <2>6. c[1] = k => \A i \in DOMAIN months : months[i].kind # k
    <3>1. c[1] = k => AnyMonth(k) = 0
      BY <1>3, <2>3 DEF CellsOf
    <3> QED BY <3>1, AnyMonthFacts
  <2> QED BY <1>1, <2>4, <2>5, <2>6
<1>4. CASE /\ request[s].pc \in {"write", "unset", "mark", "syncWrite", "propagate"}
           /\ \E day \in DayStates : SetDay(request[s].month, request[s].cell, day)
  <2>1. PICK day \in DayStates : SetDay(request[s].month, request[s].cell, day)
    BY <1>4
  <2>2. LocatedFacts(request[s])
    BY <1>4, WriterIsLocated
  <2>3. DOMAIN months' = DOMAIN months /\ \A j \in DOMAIN months : months'[j].kind = months[j].kind
    BY <2>1, <2>2, MonthWritten DEF LocatedFacts
  <2> QED BY <1>1, <2>3
<1> QED BY <1>2, <1>3, <1>4 DEF StepEffects, MonthsStep

LEMMA OneAtATimeKept ==
  ASSUME MonthTypes, RequestShapes, OneAtATime, NEW s \in Slots, StepOf(s), StepEffects(s)
  PROVE  OneAtATime'
<1> SUFFICES ASSUME NEW c \in Cells, c \notin mixed'
             PROVE  /\ \A t, u \in Slots : Works(t, c)' /\ Works(u, c)' => t = u
                    /\ \A i, j \in DOMAIN months' :
                         months'[i].kind = c[1] /\ months'[j].kind = c[1] => i = j
  BY DEF OneAtATime, Clean
<1>1. \A t \in Slots : t # s => (Works(t, c)' <=> Works(t, c))
  BY DEF StepEffects, Acts, Works, Active
<1>2. \A t, u \in Slots : Works(t, c) /\ Works(u, c) => t = u
  BY DEF OneAtATime, Clean, StepEffects, CountsStep
<1>3. Works(s, c)' => Works(s, c) \/ (\A t \in Slots : t # s => ~Works(t, c))
  BY WorkersBefore
<1>4. \A t, u \in Slots : Works(t, c)' /\ Works(u, c)' => t = u
  BY <1>1, <1>2, <1>3
<1> QED BY <1>4, OneMonthKept

-----------------------------------------------------------------------------
(* Days on which the step does not work. *)

SameBooks(c) ==
  /\ Day(c)' = Day(c) /\ (Month(c) # 0 => Month(c)' = Month(c))
  /\ Owned(c)' = Owned(c) /\ Made(c)' = Made(c)

LEMMA OwnedWritten ==
  ASSUME MonthTypes, NEW s \in Slots, RegistryStep(s), NEW c, request[s].owner # c
  PROVE  Owned(c)' = Owned(c)
<1> SUFFICES \A r : (r \in reserved /\ r.owner = c) <=> (r \in reserved' /\ r.owner = c)
  BY DEF Owned, OwnedScopes
<1>1. CASE reserved' = reserved
  BY <1>1
<1>2. CASE /\ request[s].pc = "claim" /\ ~DuplicateKey(reserved, ClaimOf(request[s]))
           /\ reserved' = Upsert(reserved, ClaimOf(request[s]))
  <2>1. ClaimOf(request[s]).owner = request[s].owner
    BY ReservationFacts DEF ClaimOf
  <2> QED BY <1>2, <2>1 DEF Upsert, DuplicateKey
<1>3. CASE /\ request[s].pc \in {"unclaim", "release"} /\ reserved' \subseteq reserved
           /\ \A r \in reserved : r.owner # request[s].owner => r \in reserved'
  BY <1>3
<1> QED BY <1>1, <1>2, <1>3 DEF RegistryStep

LEMMA MadeWritten ==
  ASSUME MonthTypes, RequestShapes, NEW s \in Slots, RecordsStep(s), NEW c,
         request[s].cell # c \/ records' = records
  PROVE  Made(c)' = Made(c)
<1>1. CASE records' = records
  BY <1>1 DEF Made
<1>2. CASE request[s].pc = "insert" /\ Inserts(s) /\ request[s].cell # c
  <2>1. request[s] \in Requests /\ request[s].cell \in Cells
    BY <1>2, ShapeOf, RequestIn DEF RequestShape
  <2>2. records'[Len(records) + 1].cell # c
    BY <1>2, <2>1, RecordForType DEF Inserts
  <2>3. \A i \in DOMAIN records' : i \in DOMAIN records \/ i = Len(records) + 1
    BY <1>2, RecordsType DEF Inserts
  <2> QED BY <1>2, <2>2, <2>3 DEF Made, Inserts
<1> QED BY <1>1, <1>2 DEF RecordsStep

LEMMA MonthsElsewhere ==
  ASSUME MonthTypes, RequestShapes, NEW s \in Slots, MonthsStep(s), NEW c \in Cells,
         request[s].cell # c \/ months' = months \/ request[s].pc \in {"newMonth", "syncNew"}
  PROVE  Day(c)' = Day(c) /\ (Month(c) # 0 => Month(c)' = Month(c))
<1>1. CASE months' = months
  BY <1>1 DEF Day, Month, DayIn, AnyMonth
<1>2. CASE /\ request[s].pc \in {"newMonth", "syncNew"}
           /\ \E l \in Laundries \cup {None} :
                months' = Append(months, NewMonth(l, request[s].cell[1]))
  <2>1. PICK l \in Laundries \cup {None} :
          months' = Append(months, NewMonth(l, request[s].cell[1]))
    BY <1>2
  <2>2. request[s].cell[1] \in Kinds
    BY <1>2, InserterOfMonth
  <2>3. PICK k \in Kinds : k = request[s].cell[1]
    BY <2>2
  <2>4. months' = Append(months, NewMonth(l, k))
    BY <2>1, <2>3
  <2> QED BY <2>4, DayAppended
<1>3. CASE /\ request[s].pc \in {"write", "unset", "mark", "syncWrite", "propagate"}
           /\ \E day \in DayStates : SetDay(request[s].month, request[s].cell, day)
           /\ request[s].cell # c
  <2>1. PICK day \in DayStates : SetDay(request[s].month, request[s].cell, day)
    BY <1>3
  <2>2. LocatedFacts(request[s])
    BY <1>3, WriterIsLocated
  <2>3. PICK d \in Cells : d = request[s].cell
    BY <2>2 DEF LocatedFacts
  <2>4. PICK i \in DOMAIN months : i = request[s].month /\ months[i].kind = d[1]
    BY <2>2, <2>3 DEF LocatedFacts
  <2>5. SetDay(i, d, day) /\ d # c
    BY <1>3, <2>1, <2>3, <2>4
  <2> QED BY <2>4, <2>5, DayWritten
<1> QED BY <1>1, <1>2, <1>3 DEF MonthsStep

(* Whoever does not work on a day does not touch its books.                 *)
LEMMA BooksElsewhere ==
  ASSUME MonthTypes, RequestShapes, NEW s \in Slots, StepEffects(s), NEW c \in Cells,
         ~Works(s, c)
  PROVE  SameBooks(c)
<1>1. CASE Active(s)
  <2>1. RequestShape(request[s]) /\ request[s].cell # c
    BY <1>1, ShapeOf DEF Works, Active
  <2>2. request[s].owner # c
    BY <2>1, CellsAreNotPasses, KnownAreOwners DEF RequestShape
  <2> QED BY <2>1, <2>2, OwnedWritten, MadeWritten, MonthsElsewhere DEF SameBooks, StepEffects
<1>2. CASE ~Active(s)
  <2>1. months' = months /\ records' = records /\ reserved' = reserved
    BY <1>2 DEF Active, StepEffects, MonthsStep, RecordsStep, RegistryStep
  <2> QED BY <2>1 DEF SameBooks, Day, Month, Owned, Made, DayIn, AnyMonth
<1> QED BY <1>1, <1>2

(* The part of DaysInv about one day. *)
AtWork(rq, c) == Exact(c, Surplus(rq), Unlisted(rq)) /\ UpToDate(rq, c) /\ Progress(rq, c)

DayInv(c) ==
  /\ NumbersReserved(c) /\ RecordsListed(c)
  /\ (~ \E s \in Slots : Works(s, c)) => Exact(c, {}, {})
  /\ \A s \in Slots : Works(s, c) => AtWork(request[s], c)

LEMMA DaysInvIs == DaysInv <=> \A c \in Cells : Clean(c) => DayInv(c)
BY DEF DaysInv, DayInv, AtWork

(* What makes the books of a day say the same after a step.                 *)
SameRecords == \A i \in DOMAIN records : i \in DOMAIN records' /\ records'[i] = records[i]

LEMMA ByHandKept ==
  ASSUME NEW c \in Cells, SameRecords, SameBooks(c), RecordsListed(c)
  PROVE  ByHand(Day(c))' <=> ByHand(Day(c))
<1>1. \A i \in ToSet(Day(c).records) : i \in DOMAIN records
  BY DEF RecordsListed, Made
<1> QED BY <1>1 DEF ByHand, SameRecords, SameBooks

LEMMA NumbersReservedKept ==
  ASSUME NEW c \in Cells, SameRecords, SameBooks(c), RecordsListed(c), NumbersReserved(c)
  PROVE  NumbersReserved(c)'
<1>1. ByHand(Day(c))' <=> ByHand(Day(c))
  BY ByHandKept
<1>2. \A i \in Made(c) : i \in DOMAIN records /\ records'[i] = records[i]
  BY DEF Made, SameRecords
<1> QED BY <1>1, <1>2 DEF NumbersReserved, SameBooks, NumberScope

LEMMA RecordsListedKept ==
  ASSUME NEW c \in Cells, SameRecords, SameBooks(c), RecordsListed(c)
  PROVE  RecordsListed(c)'
<1>1. \A i \in Made(c) : i \in DOMAIN records /\ records'[i] = records[i]
  BY DEF Made, SameRecords
<1> QED BY <1>1 DEF RecordsListed, SameBooks

LEMMA ExactKept ==
  ASSUME NEW c \in Cells, SameRecords, SameBooks(c), RecordsListed(c),
         NEW surplus, NEW unlisted, Exact(c, surplus, unlisted)
  PROVE  Exact(c, surplus, unlisted)'
<1>1. ByHand(Day(c))' <=> ByHand(Day(c))
  BY ByHandKept
<1> QED BY <1>1 DEF Exact, SameBooks, Values

LEMMA AtWorkKept ==
  ASSUME NEW c \in Cells, SameRecords, SameBooks(c), RecordsListed(c),
         NEW rq, Located(rq) => rq.month = Month(c) /\ Month(c) # 0, AtWork(rq, c)
  PROVE  AtWork(rq, c)'
<1>1. Exact(c, Surplus(rq), Unlisted(rq))'
  <2>1. \A x, y : Exact(c, x, y) => Exact(c, x, y)'
    BY ExactKept
  <2> QED BY <2>1 DEF AtWork
<1>2. UpToDate(rq, c)'
  BY DEF AtWork, UpToDate, SameBooks, Located, Editing, Unsynced
<1>3. Progress(rq, c)'
  BY DEF AtWork, Progress, SameBooks
<1> QED BY <1>1, <1>2, <1>3 DEF AtWork

LEMMA RecordsStay ==
  ASSUME MonthTypes, NEW s \in Slots, StepEffects(s)
  PROVE  SameRecords
BY RecordsGrow DEF SameRecords

(* A day that the step's request does not work on, before or after.         *)
LEMMA ElsewhereKept ==
  ASSUME MonthTypes, RequestShapes, NEW s \in Slots, StepEffects(s), NEW c \in Cells,
         DayInv(c), ~Works(s, c), ~Works(s, c)'
  PROVE  DayInv(c)'
<1>1. SameRecords /\ SameBooks(c) /\ NumbersReserved(c) /\ RecordsListed(c)
  BY RecordsStay, BooksElsewhere DEF DayInv
<1>2. \A t \in Slots : t # s => request'[t] = request[t]
  BY DEF StepEffects, Acts
<1>3. \A t \in Slots : Works(t, c)' <=> Works(t, c)
  BY <1>2 DEF Works, Active
<1>4. (~ \E t \in Slots : Works(t, c)) => Exact(c, {}, {})'
  <2>1. Exact(c, {}, {}) => Exact(c, {}, {})'
    <3>1. \A x, y : Exact(c, x, y) => Exact(c, x, y)'
      BY <1>1, ExactKept
    <3> QED BY <3>1
  <2> QED BY <2>1 DEF DayInv
<1>5. ASSUME NEW t \in Slots, Works(t, c)
      PROVE  AtWork(request[t], c)'
  <2>1. t # s /\ RequestShape(request[t]) /\ AtWork(request[t], c)
    BY <1>5, ShapeOf DEF Works, Active, DayInv
  <2>2. Located(request[t]) => request[t].month = Month(c) /\ Month(c) # 0
    BY <2>1, MonthsType DEF RequestShape, AtWork, UpToDate
  <2>3. PICK rq \in Requests : rq = request[t]
    BY RequestIn
  <2>4. AtWork(rq, c)'
    BY <1>1, <2>1, <2>2, <2>3, AtWorkKept
  <2>5. rq = request'[t]
    BY <1>2, <2>1, <2>3
  <2> QED BY <2>4, <2>5
<1>6. NumbersReserved(c)' /\ RecordsListed(c)'
  BY <1>1, NumbersReservedKept, RecordsListedKept
<1> QED BY <1>3, <1>4, <1>5, <1>6 DEF DayInv

(* A day the step's request works on, alone.                                *)
LEMMA OwnDay ==
  ASSUME NEW s \in Slots, NEW c \in Cells, StepEffects(s),
         Works(s, c) \/ Works(s, c)', \A t \in Slots : t # s => ~Works(t, c),
         NumbersReserved(c)', RecordsListed(c)',
         ~Works(s, c)' => Exact(c, {}, {})',
         Works(s, c)' => AtWork(request[s], c)'
  PROVE  DayInv(c)'
<1>1. \A t \in Slots : t # s => ~Works(t, c)'
  BY DEF StepEffects, Acts, Works, Active
<1> QED BY <1>1 DEF DayInv

-----------------------------------------------------------------------------
(* A request begins on a day at rest. *)

LEMMA EmptyToSet == ToSet(<<>>) = {} /\ \A x : ToSet(<<x>>) = {x}
<1>1. ToSet(<<>>) = {}
  BY DEF ToSet
<1>2. ASSUME NEW x PROVE ToSet(<<x>>) = {x}
  <2>1. DOMAIN <<x>> = {1} /\ <<x>>[1] = x
    OBVIOUS
  <2> QED BY <2>1 DEF ToSet
<1> QED BY <1>1, <1>2

LEMMA DraftNotByHand ==
  ASSUME NEW c, RecordsListed(c), Day(c).status # "CONFIRMED"
  PROVE  ~ByHand(Day(c)) /\ Day(c).records = <<>>
BY EmptyToSet DEF RecordsListed, ByHand

LEMMA NothingYet ==
  ASSUME NEW nq, nq.made = <<>>, nq.pc \notin {"claim", "unclaim", "release"},
         nq.pc = "write" => Given(nq.refs) = {}
  PROVE  Surplus(nq) = {} /\ Unlisted(nq) = {}
<1>1. Surplus(nq) = {}
  BY DEF Surplus, NumbersOf
<1>2. Unlisted(nq) = {}
  BY EmptyToSet DEF Unlisted
<1> QED BY <1>1, <1>2

LEMMA TheMonth ==
  ASSUME MonthTypes, OneLaundry, NEW l \in Laundries, NEW c
  PROVE  MonthOf(l, c[1]) = Month(c) /\ DayIn(MonthOf(l, c[1]), c) = Day(c)
BY OneLaundryMonth DEF OneLaundry, Month, Day

LEMMA SaveBegins ==
  ASSUME MonthTypes, OneLaundry, NEW c \in Cells, NEW nq \in Requests,
         NumbersReserved(c), RecordsListed(c), Exact(c, {}, {}),
         nq.op = "save", nq.month = Month(c), nq.seen = Day(c), nq.made = <<>>,
         Day(c).status # "CONFIRMED",
         nq.refs.number = Day(c).number \/ nq.refs.number \in PassNumbers \cup {None},
         \/ nq.pc = "newMonth"
         \/ nq.pc = IF Given(nq.refs) = {} THEN "write" ELSE "check"
  PROVE  AtWork(nq, c)
<1>1. Surplus(nq) = {} /\ Unlisted(nq) = {}
  BY NothingYet
<1>2. UpToDate(nq, c)
  BY DEF UpToDate, Unsynced, Editing
<1>3. nq.refs.number \notin Nat
  BY DraftNotByHand, NumbersDiffer DEF NumbersReserved
<1>4. nq.pc = "write" => ScopesOf(nq.refs, Given(nq.refs)) = {}
  BY DEF ScopesOf
<1>5. Progress(nq, c)
  BY <1>3, <1>4 DEF Progress
<1> QED BY <1>1, <1>2, <1>5 DEF AtWork

LEMMA CancelBegins ==
  ASSUME NEW c \in Cells, NEW nq \in Requests, Exact(c, {}, {}),
         nq.op = "cancel", nq.month = Month(c), nq.seen = Day(c), nq.made = <<>>,
         Day(c).status # "CONFIRMED", nq.pc = "unset"
  PROVE  AtWork(nq, c)
<1>1. Surplus(nq) = {} /\ Unlisted(nq) = {}
  BY NothingYet
<1>2. UpToDate(nq, c) /\ Progress(nq, c)
  BY DEF UpToDate, Unsynced, Editing, Progress
<1> QED BY <1>1, <1>2 DEF AtWork

LEMMA ConfirmBegins ==
  ASSUME NEW c \in Cells, NEW nq \in Requests, Exact(c, {}, {}),
         nq.op = "confirm", nq.month = Month(c), nq.seen = Day(c), nq.made = <<>>,
         Day(c).status # "CONFIRMED", nq.pc = "insert",
         nq.refs.bill = Day(c).bill, c[1] # "rewash" => nq.refs.number = Day(c).number,
         nq.plan > 0, c[1] # "delivery" => nq.plan = 1
  PROVE  AtWork(nq, c)
<1>1. Surplus(nq) = {} /\ Unlisted(nq) = {}
  BY NothingYet
<1>2. UpToDate(nq, c) /\ Progress(nq, c)
  BY DEF UpToDate, Unsynced, Editing, Progress
<1> QED BY <1>1, <1>2 DEF AtWork

LEMMA PassBegins ==
  ASSUME NEW c \in Cells, NEW nq \in Requests, Exact(c, {}, {}),
         nq.op \in {"pass", "sheet"}, nq.made = <<>>, nq.pc \in {"check", "insert"}
  PROVE  AtWork(nq, c)
<1>1. Surplus(nq) = {} /\ Unlisted(nq) = {}
  BY NothingYet
<1>2. UpToDate(nq, c) /\ Progress(nq, c)
  BY DEF UpToDate, Unsynced, Editing, Progress, Located
<1> QED BY <1>1, <1>2 DEF AtWork

LEMMA EditBegins ==
  ASSUME NEW c \in Cells, NEW nq \in Requests, Exact(c, {}, {}),
         nq.op = "edit", nq.month = Month(c), nq.pc = "propagate", nq.made # <<>>,
         nq.made[1] \in ToSet(Day(c).records)
  PROVE  AtWork(nq, c)
<1>1. Surplus(nq) = {} /\ Unlisted(nq) = {}
  BY DEF Surplus, Unlisted, Unsynced
<1>2. UpToDate(nq, c) /\ Progress(nq, c)
  BY DEF UpToDate, Unsynced, Editing, Progress
<1> QED BY <1>1, <1>2 DEF AtWork

LEMMA BegunAtWork ==
  ASSUME MonthTypes, OneLaundry, NEW s \in Slots, NEW c \in Cells, Start(s),
         NEW nq \in Requests, nq = request'[s], nq.cell = c,
         NumbersReserved(c), RecordsListed(c), Exact(c, {}, {})
  PROVE  AtWork(nq, c) /\ (Located(nq) => Month(c) # 0)
<1>1. ~Active(s) /\ started < MaxRequests /\ Month(c) = AnyMonth(c[1])
  BY DEF Start, Month
<1>2. \A l \in Laundries : MonthOf(l, c[1]) = Month(c) /\ DayIn(MonthOf(l, c[1]), c) = Day(c)
  BY TheMonth
<1>3. ASSUME NEW l \in Laundries, NEW d \in Cells, NEW p \in Payloads, StartSave(s, l, d, p)
      PROVE  AtWork(nq, c) /\ (Located(nq) => Month(c) # 0)
  <2>1. /\ nq.op = "save" /\ nq.cell = d /\ nq.month = MonthOf(l, d[1])
        /\ nq.seen = DayIn(MonthOf(l, d[1]), d) /\ nq.made = <<>>
        /\ DayIn(MonthOf(l, d[1]), d).status # "CONFIRMED"
        /\ \/ nq.refs.number = DayIn(MonthOf(l, d[1]), d).number
           \/ nq.refs.number \in PassNumbers \cup {None}
        /\ \/ MonthOf(l, d[1]) = 0 /\ nq.pc = "newMonth"
           \/ /\ MonthOf(l, d[1]) # 0
              /\ nq.pc = IF Given(nq.refs) = {} THEN "write" ELSE "check"
    <3>1. /\ nq.op = "save" /\ nq.cell = d /\ nq.month = MonthOf(l, d[1])
          /\ nq.seen = DayIn(MonthOf(l, d[1]), d) /\ nq.made = <<>>
          /\ DayIn(MonthOf(l, d[1]), d).status # "CONFIRMED"
      BY <1>1, <1>3, StartSaveFacts
    <3>2. \/ nq.refs.number = DayIn(MonthOf(l, d[1]), d).number
          \/ nq.refs.number \in PassNumbers \cup {None}
      BY <1>1, <1>3, StartSaveFacts
    <3>3. \/ MonthOf(l, d[1]) = 0 /\ request'[s].pc = "newMonth"
          \/ /\ MonthOf(l, d[1]) # 0 /\ request'[s].left = Given(request'[s].refs)
             /\ request'[s].pc = IF Given(request'[s].refs) = {} THEN "write" ELSE "check"
      BY <1>1, <1>3, StartSaveFacts
    <3> QED BY <3>1, <3>2, <3>3
  <2>2. d = c
    BY <2>1
  <2>3. /\ nq.month = Month(c) /\ nq.seen = Day(c) /\ Day(c).status # "CONFIRMED"
        /\ nq.refs.number = Day(c).number \/ nq.refs.number \in PassNumbers \cup {None}
        /\ \/ Month(c) = 0 /\ nq.pc = "newMonth"
           \/ Month(c) # 0 /\ nq.pc = IF Given(nq.refs) = {} THEN "write" ELSE "check"
    BY <1>2, <2>1, <2>2
  <2>4. AtWork(nq, c)
    BY <2>1, <2>3, SaveBegins
  <2>5. Located(nq) => Month(c) # 0
    BY <2>1, <2>3 DEF Located
  <2> QED BY <2>4, <2>5
<1>4. ASSUME NEW l \in Laundries, NEW d \in Cells, StartCancel(s, l, d)
      PROVE  AtWork(nq, c) /\ (Located(nq) => Month(c) # 0)
  <2>1. /\ nq.op = "cancel" /\ nq.cell = d /\ nq.month = MonthOf(l, d[1])
        /\ nq.seen = DayIn(MonthOf(l, d[1]), d) /\ nq.made = <<>>
        /\ DayIn(MonthOf(l, d[1]), d).status = "DRAFT"
        /\ MonthOf(l, d[1]) # 0 /\ nq.pc = "unset"
    BY <1>1, <1>4, StartCancelFacts
  <2>2. d = c
    BY <2>1
  <2>3. nq.month = Month(c) /\ nq.seen = Day(c) /\ Day(c).status # "CONFIRMED" /\ Month(c) # 0
    BY <1>2, <2>1, <2>2
  <2> QED BY <2>1, <2>3, CancelBegins
<1>5. ASSUME NEW l \in Laundries, NEW d \in Cells, NEW n \in 1 .. MaxPlan, NEW k \in Keys,
             StartConfirm(s, l, d, n, k)
      PROVE  AtWork(nq, c) /\ (Located(nq) => Month(c) # 0)
  <2>1. /\ nq.op = "confirm" /\ nq.cell = d /\ nq.month = MonthOf(l, d[1])
        /\ nq.seen = DayIn(MonthOf(l, d[1]), d) /\ nq.made = <<>>
        /\ DayIn(MonthOf(l, d[1]), d).status = "DRAFT"
        /\ nq.refs.bill = DayIn(MonthOf(l, d[1]), d).bill
        /\ (d[1] # "rewash" => nq.refs.number = DayIn(MonthOf(l, d[1]), d).number)
        /\ nq.plan > 0 /\ (d[1] # "delivery" => nq.plan = 1)
        /\ MonthOf(l, d[1]) # 0 /\ nq.pc = "insert"
    BY <1>1, <1>5, StartConfirmFacts
  <2>2. d = c
    BY <2>1
  <2>3. /\ nq.month = Month(c) /\ nq.seen = Day(c) /\ Day(c).status # "CONFIRMED" /\ Month(c) # 0
        /\ nq.refs.bill = Day(c).bill /\ (c[1] # "rewash" => nq.refs.number = Day(c).number)
        /\ nq.plan > 0 /\ (c[1] # "delivery" => nq.plan = 1)
    BY <1>2, <2>1, <2>2
  <2> QED BY <2>1, <2>3, ConfirmBegins
<1>6. ASSUME NEW l \in Laundries, NEW d \in Cells, NEW r \in PassRefs, NEW k \in Keys,
             StartPass(s, l, d, r, k)
      PROVE  AtWork(nq, c) /\ (Located(nq) => Month(c) # 0)
  <2>1. nq.op = "pass" /\ nq.made = <<>> /\ nq.pc = "check"
    BY <1>1, <1>6, StartPassFacts
  <2> QED BY <2>1, PassBegins DEF Located
<1>7. ASSUME NEW l \in Laundries, NEW d \in Cells, StartSheet(s, l, d)
      PROVE  AtWork(nq, c) /\ (Located(nq) => Month(c) # 0)
  <2>1. nq.op = "sheet" /\ nq.made = <<>> /\ nq.pc = "insert"
    BY <1>1, <1>7, StartSheetFacts
  <2> QED BY <2>1, PassBegins DEF Located
<1>8. ASSUME NEW id \in DOMAIN records, StartEdit(s, id)
      PROVE  AtWork(nq, c) /\ (Located(nq) => Month(c) # 0)
  <2>1. /\ nq.op = "edit" /\ nq.cell = records[id].cell /\ nq.cell[1] = "receiving"
        /\ nq.made = <<id>> /\ nq.pc = "propagate" /\ nq.month = AnyMonth("receiving")
        /\ AnyMonth("receiving") # 0
        /\ id \in ToSet(DayIn(AnyMonth("receiving"), records[id].cell).records)
    BY <1>1, <1>8, StartEditFacts
  <2>2. records[id].cell = c /\ c[1] = "receiving"
    BY <2>1
  <2>3. nq.month = Month(c) /\ Month(c) # 0 /\ id \in ToSet(Day(c).records)
    BY <1>1, <2>1, <2>2 DEF Day
  <2>4. nq.made # <<>> /\ nq.made[1] = id
    BY <2>1
  <2> QED BY <2>1, <2>3, <2>4, EditBegins
<1> QED BY <1>3, <1>4, <1>5, <1>6, <1>7, <1>8 DEF Start

LEMMA BeginKept ==
  ASSUME MonthTypes, RequestShapes, OneLaundry, NEW s \in Slots, Start(s), StepEffects(s),
         NEW c \in Cells, c \notin mixed', DayInv(c), Works(s, c)'
  PROVE  DayInv(c)'
<1>1. BeginsAs(s, request'[s]) /\ ~Active(s)
  BY StartBegins
<1>2. request'[s].cell = c /\ request'[s] \in Requests
  BY DEF Works, StepEffects, Acts
<1>3. \A t \in Slots : ~Works(t, c)
  BY <1>1, <1>2 DEF BeginsAs, Works
<1>4. NumbersReserved(c) /\ RecordsListed(c) /\ Exact(c, {}, {})
  BY <1>3 DEF DayInv
<1>5. SameRecords /\ SameBooks(c)
  BY <1>3, RecordsStay, BooksElsewhere
<1>6. NumbersReserved(c)' /\ RecordsListed(c)'
  BY <1>4, <1>5, NumbersReservedKept, RecordsListedKept
<1>7. PICK nq \in Requests : nq = request'[s]
  BY <1>2
<1>8. AtWork(nq, c) /\ (Located(nq) => nq.month = Month(c) /\ Month(c) # 0)
  <2>1. AtWork(nq, c) /\ (Located(nq) => Month(c) # 0)
    BY <1>2, <1>4, <1>7, BegunAtWork
  <2> QED BY <2>1 DEF AtWork, UpToDate
<1>9. AtWork(nq, c)'
  BY <1>4, <1>5, <1>8, AtWorkKept
<1>10. AtWork(request[s], c)'
  BY <1>7, <1>9
<1> QED BY <1>3, <1>6, <1>10, OwnDay

-----------------------------------------------------------------------------
(* The request at work on a day takes a step. *)

AtWorkOn(s, c) ==
  /\ MonthTypes /\ RequestShapes /\ StepEffects(s) /\ Works(s, c)
  /\ NumbersReserved(c) /\ RecordsListed(c) /\ AtWork(request[s], c)

BooksAfter(s, c) ==
  /\ NumbersReserved(c)' /\ RecordsListed(c)'
  /\ request'[s].pc = "idle" => Exact(c, {}, {})'
  /\ request'[s].pc # "idle" => AtWork(request[s], c)'

LEMMA WorkerFacts ==
  ASSUME NEW s \in Slots, NEW c \in Cells, AtWorkOn(s, c)
  PROVE  /\ RequestShape(request[s]) /\ request[s] \in Requests /\ request[s].cell = c
         /\ request[s].pc # "idle" /\ SameRecords
         /\ Day(c) \in DayStates /\ (Located(request[s]) => Month(c) # 0)
         /\ Exact(c, Surplus(request[s]), Unlisted(request[s]))
         /\ UpToDate(request[s], c) /\ Progress(request[s], c)
<1>1. MonthTypes /\ RequestShapes /\ StepEffects(s) /\ Active(s) /\ request[s].cell = c
  BY DEF AtWorkOn, Works
<1>2. RequestShape(request[s]) /\ request[s] \in Requests
  BY <1>1, ShapeOf, RequestIn DEF Active
<1>3. AtWork(request[s], c)
  BY DEF AtWorkOn
<1>4. Located(request[s]) => Month(c) # 0
  BY <1>1, <1>2, <1>3, MonthsType DEF RequestShape, AtWork, UpToDate
<1> QED BY <1>1, <1>2, <1>3, <1>4, DayType, RecordsStay DEF AtWork, Active

(* The books stay as they are. *)
LEMMA BooksUnchanged ==
  ASSUME NEW s \in Slots, NEW c \in Cells, AtWorkOn(s, c), SameBooks(c),
         NEW nq \in Requests, nq = request'[s],
         nq.pc = "idle" => Exact(c, {}, {}),
         nq.pc # "idle" => AtWork(nq, c) /\ (Located(nq) => Month(c) # 0)
  PROVE  BooksAfter(s, c)
<1>1. SameRecords /\ NumbersReserved(c) /\ RecordsListed(c)
  BY WorkerFacts DEF AtWorkOn
<1>2. NumbersReserved(c)' /\ RecordsListed(c)'
  BY <1>1, NumbersReservedKept, RecordsListedKept
<1>3. nq.pc = "idle" => Exact(c, {}, {})'
  <2>1. \A x, y : Exact(c, x, y) => Exact(c, x, y)'
    BY <1>1, ExactKept
  <2> QED BY <2>1
<1>4. nq.pc # "idle" => AtWork(nq, c)'
  BY <1>1, AtWorkKept DEF AtWork, UpToDate
<1>5. request'[s].pc # "idle" => AtWork(request[s], c)'
  BY <1>4
<1> QED BY <1>2, <1>3, <1>5 DEF BooksAfter

(* Nothing is written: the registry and the collections are as they were.   *)
LEMMA NothingWritten ==
  ASSUME NEW s \in Slots, NEW c \in Cells, UNCHANGED <<months, records>>,
         reserved' = reserved \/ (AtWorkOn(s, c) /\ request[s].op = "pass")
  PROVE  SameBooks(c)
<1>1. Day(c)' = Day(c) /\ Month(c)' = Month(c) /\ Made(c)' = Made(c)
  BY DEF Day, Month, Made, DayIn, AnyMonth
<1>2. CASE reserved' = reserved
  BY <1>1, <1>2 DEF SameBooks, Owned
<1>3. CASE AtWorkOn(s, c) /\ request[s].op = "pass"
  <2>1. MonthTypes /\ RegistryStep(s)
    BY <1>3 DEF AtWorkOn, StepEffects
  <2>2. request[s].owner # c
    BY <1>3, <2>1, WorkerFacts, CellsAreNotPasses, KnownAreOwners DEF RequestShape
  <2>3. Owned(c)' = Owned(c)
    BY <2>1, <2>2, OwnedWritten
  <2> QED BY <1>1, <2>3 DEF SameBooks
<1> QED BY <1>2, <1>3

LEMMA NewRequest ==
  ASSUME NEW s \in Slots, NEW c \in Cells, AtWorkOn(s, c)
  PROVE  request'[s] \in Requests
BY DEF AtWorkOn, StepEffects, Acts

LEMMA CheckKept ==
  ASSUME NEW s \in Slots, NEW c \in Cells, AtWorkOn(s, c), CheckNumber(s)
  PROVE  BooksAfter(s, c)
<1>1. /\ RequestShape(request[s]) /\ (Located(request[s]) => Month(c) # 0)
      /\ Exact(c, Surplus(request[s]), Unlisted(request[s]))
      /\ UpToDate(request[s], c) /\ Progress(request[s], c)
  BY WorkerFacts
<1>2. PICK nq \in Requests : nq = request'[s]
  BY NewRequest
<1>3. SameBooks(c)
  BY NothingWritten DEF CheckNumber
<1>4. MonthTypes
  BY DEF AtWorkOn
<1>5. /\ request[s].pc = "check"
      /\ \/ nq = IdleRequest
         \/ SameOwn(s) /\ SameDay(s) /\ nq.pc \in {"check", "readOwned"}
  BY <1>1, <1>2, <1>4, CheckNumberFacts
<1>6. Surplus(request[s]) = {} /\ Unlisted(request[s]) = {}
  BY <1>5 DEF Surplus, Unlisted, Unsynced
<1>7. nq.pc = "idle" => Exact(c, {}, {})
  BY <1>1, <1>6
<1>8. ASSUME nq.pc # "idle" PROVE AtWork(nq, c) /\ (Located(nq) => Month(c) # 0)
  <2>1. /\ nq.op = request[s].op /\ nq.refs = request[s].refs /\ nq.month = request[s].month
        /\ nq.seen = request[s].seen /\ nq.pc \in {"check", "readOwned"}
    BY <1>2, <1>5, <1>8, IdleFacts DEF SameOwn, SameDay
  <2>2. request[s].op \in {"save", "pass"}
    BY <1>1, <1>5, <1>4, RequestIn, RequestFields DEF RequestShape, Awaits, AllOps
  <2>3. Surplus(nq) = {} /\ Unlisted(nq) = {}
    BY <2>1 DEF Surplus, Unlisted, Unsynced
  <2>4. UpToDate(nq, c) /\ (Located(nq) => Month(c) # 0)
    BY <1>1, <1>5, <2>1, <2>2 DEF UpToDate, Located, Editing, Unsynced
  <2>5. Progress(nq, c)
    BY <1>1, <2>1, <2>2 DEF Progress
  <2> QED BY <1>1, <1>6, <2>3, <2>4, <2>5 DEF AtWork
<1> QED BY <1>2, <1>3, <1>7, <1>8, BooksUnchanged

LEMMA ReadOwnedKept ==
  ASSUME NEW s \in Slots, NEW c \in Cells, AtWorkOn(s, c), ReadOwned(s)
  PROVE  BooksAfter(s, c)
<1>1. /\ RequestShape(request[s]) /\ (Located(request[s]) => Month(c) # 0)
      /\ Exact(c, Surplus(request[s]), Unlisted(request[s])) /\ request[s].cell = c
      /\ UpToDate(request[s], c) /\ Progress(request[s], c)
      /\ NumbersReserved(c) /\ RecordsListed(c)
  BY WorkerFacts DEF AtWorkOn
<1>2. PICK nq \in Requests : nq = request'[s]
  BY NewRequest
<1>3. SameBooks(c)
  BY NothingWritten DEF ReadOwned
<1>4. MonthTypes
  BY DEF AtWorkOn
<1>5. /\ request[s].pc = "readOwned" /\ SameOwn(s) /\ SameDay(s)
      /\ nq.owned = OwnedScopes(reserved, request[s].owner)
      /\ nq.left = Reserves(request[s]) /\ nq.pc = "claim"
  BY <1>1, <1>2, <1>4, ReadOwnedFacts
<1>6. /\ nq.op = request[s].op /\ nq.refs = request[s].refs /\ nq.month = request[s].month
      /\ nq.seen = request[s].seen
  BY <1>2, <1>5 DEF SameOwn, SameDay
<1>7. request[s].op \in {"save", "pass"}
  BY <1>1, <1>5, <1>4, RequestIn, RequestFields DEF RequestShape, Awaits, AllOps
<1>8. Surplus(request[s]) = {} /\ Unlisted(request[s]) = {}
  BY <1>5 DEF Surplus, Unlisted, Unsynced
<1>9. request[s].op = "save" => Given(nq.refs) \ nq.left = {} /\ nq.owned = Owned(c)
  BY <1>1, <1>5, <1>6 DEF RequestShape, Reserves, Owned
<1>10. Surplus(nq) = {} /\ Unlisted(nq) = {}
  BY <1>5, <1>6, <1>9 DEF Surplus, Unlisted, Unsynced
<1>11. UpToDate(nq, c) /\ (Located(nq) => Month(c) # 0)
  BY <1>1, <1>5, <1>6, <1>7 DEF UpToDate, Located, Editing, Unsynced
<1>12. ASSUME request[s].op = "save"
       PROVE  /\ Owned(c) = nq.owned \cup ScopesOf(nq.refs, Given(nq.refs) \ nq.left)
              /\ Values(nq.owned) = NumbersOf(RefsOf(Day(c)))
              /\ ScopesOf(RefsOf(Day(c)), Given(RefsOf(Day(c)))) \subseteq nq.owned
  <2>1. ~ByHand(Day(c))
    BY <1>1, <1>5, <1>12, DraftNotByHand DEF UpToDate, Editing
  <2>2. ScopesOf(nq.refs, {}) = {}
    BY DEF ScopesOf
  <2> QED BY <1>1, <1>8, <1>9, <1>12, <2>1, <2>2 DEF Exact, NumbersReserved
<1>13. Progress(nq, c)
  BY <1>1, <1>5, <1>6, <1>7, <1>12 DEF Progress
<1>14. AtWork(nq, c)
  BY <1>1, <1>8, <1>10, <1>11, <1>13 DEF AtWork
<1> QED BY <1>2, <1>3, <1>5, <1>11, <1>14, BooksUnchanged

LEMMA RememberKept ==
  ASSUME NEW s \in Slots, NEW c \in Cells, AtWorkOn(s, c), Remember(s)
  PROVE  BooksAfter(s, c)
<1>1. /\ RequestShape(request[s]) /\ (Located(request[s]) => Month(c) # 0)
      /\ Exact(c, Surplus(request[s]), Unlisted(request[s]))
      /\ UpToDate(request[s], c) /\ Progress(request[s], c)
  BY WorkerFacts
<1>2. PICK nq \in Requests : nq = request'[s]
  BY NewRequest
<1>3. SameBooks(c)
  BY NothingWritten DEF Remember
<1>4. MonthTypes
  BY DEF AtWorkOn
<1>5. /\ request[s].pc = "remember"
      /\ \/ request[s].op = "confirm" /\ nq = IdleRequest
         \/ request[s].op # "confirm" /\ SameOwn(s) /\ SameDay(s) /\ SameWork(s) /\ nq.pc = "syncRead"
  BY <1>2, <1>4, RememberFacts
<1>6. nq.pc = "idle" => Exact(c, {}, {})
  <2>1. request[s].op = "confirm" => Surplus(request[s]) = {} /\ Unlisted(request[s]) = {}
    BY <1>5 DEF Surplus, Unlisted, Unsynced
  <2> QED BY <1>1, <1>5, <2>1
<1>7. ASSUME nq.pc # "idle" PROVE AtWork(nq, c) /\ (Located(nq) => Month(c) # 0)
  <2>1. /\ nq.op = request[s].op /\ nq.refs = request[s].refs /\ nq.month = request[s].month
        /\ nq.seen = request[s].seen /\ nq.made = request[s].made /\ nq.pc = "syncRead"
        /\ request[s].op # "confirm"
    BY <1>2, <1>5, <1>7, IdleFacts DEF SameOwn, SameDay, SameWork
  <2>2. request[s].op = "pass"
    BY <1>1, <1>5, <1>4, <2>1, RequestIn, RequestFields DEF RequestShape, Awaits, AllOps
  <2>3. Surplus(nq) = Surplus(request[s]) /\ Unlisted(nq) = Unlisted(request[s])
    BY <1>5, <2>1, <2>2 DEF Surplus, Unlisted, Unsynced
  <2>4. UpToDate(nq, c) /\ (Located(nq) => Month(c) # 0)
    BY <1>1, <1>5, <2>1, <2>2 DEF UpToDate, Located, Editing, Unsynced
  <2>5. Progress(nq, c)
    BY <1>1, <2>1, <2>2 DEF Progress
  <2> QED BY <1>1, <2>3, <2>4, <2>5 DEF AtWork
<1> QED BY <1>2, <1>3, <1>6, <1>7, BooksUnchanged

LEMMA SyncReadKept ==
  ASSUME NEW s \in Slots, NEW c \in Cells, AtWorkOn(s, c), SyncRead(s)
  PROVE  BooksAfter(s, c)
<1>1. /\ RequestShape(request[s]) /\ request[s].cell = c
      /\ Exact(c, Surplus(request[s]), Unlisted(request[s]))
      /\ UpToDate(request[s], c) /\ Progress(request[s], c)
  BY WorkerFacts
<1>2. PICK nq \in Requests : nq = request'[s]
  BY NewRequest
<1>3. SameBooks(c)
  BY NothingWritten DEF SyncRead
<1>4. MonthTypes
  BY DEF AtWorkOn
<1>5. /\ request[s].pc = "syncRead" /\ request[s].op \in {"pass", "sheet"}
      /\ SameOwn(s) /\ SameWork(s)
      /\ nq.month = AnyMonth("receiving") /\ nq.seen = DayIn(AnyMonth("receiving"), c)
      /\ nq.pc = IF AnyMonth("receiving") = 0 THEN "syncNew" ELSE "syncWrite"
  BY <1>1, <1>2, <1>4, SyncReadFacts
<1>6. c[1] = "receiving"
  BY <1>1, <1>5 DEF RequestShape
<1>7. nq.month = Month(c) /\ nq.seen = Day(c)
  BY <1>5, <1>6 DEF Month, Day
<1>8. /\ nq.op = request[s].op /\ nq.refs = request[s].refs /\ nq.made = request[s].made
      /\ nq.pc \in {"syncNew", "syncWrite"} /\ (nq.pc = "syncWrite" => Month(c) # 0)
  BY <1>2, <1>5, <1>6 DEF SameOwn, SameWork, Month
<1>9. Surplus(nq) = Surplus(request[s]) /\ Unlisted(nq) = Unlisted(request[s])
  BY <1>5, <1>8 DEF Surplus, Unlisted, Unsynced
<1>10. UpToDate(nq, c) /\ (Located(nq) => Month(c) # 0)
  BY <1>1, <1>5, <1>7, <1>8 DEF UpToDate, Located, Editing, Unsynced
<1>11. Progress(nq, c)
  BY <1>1, <1>5, <1>8 DEF Progress
<1>12. AtWork(nq, c)
  BY <1>1, <1>9, <1>10, <1>11 DEF AtWork
<1> QED BY <1>2, <1>3, <1>8, <1>10, <1>12, BooksUnchanged

LEMMA ValuesFacts ==
  \A A, sc : Values(A \cup {sc}) = Values(A) \cup {sc[1]}
BY DEF Values

LEMMA ClaimedOwned ==
  ASSUME NEW claim, ~DuplicateKey(reserved, claim), reserved' = Upsert(reserved, claim),
         NEW c, claim.owner = c
  PROVE  Owned(c)' = Owned(c) \cup {claim.scope}
<1>1. \A r \in reserved : r.scope = claim.scope => r.owner = c
  BY DEF DuplicateKey
<1>2. claim \in reserved'
  BY DEF Upsert
<1>3. \A r \in reserved' : r = claim \/ r \in reserved
  BY DEF Upsert
<1>4. \A r \in reserved : r.scope # claim.scope => r \in reserved'
  BY DEF Upsert
<1> QED BY <1>1, <1>2, <1>3, <1>4 DEF Owned, OwnedScopes

(* What a day says of its numbers stays true when it owns more of them.     *)
LEMMA OwnsMore ==
  ASSUME SameRecords, NEW c \in Cells, RecordsListed(c), NumbersReserved(c),
         Day(c)' = Day(c), Made(c)' = Made(c), Owned(c) \subseteq Owned(c)'
  PROVE  NumbersReserved(c)' /\ RecordsListed(c)' /\ (ByHand(Day(c))' <=> ByHand(Day(c)))
<1>1. \A i \in Made(c) : i \in DOMAIN records /\ records'[i] = records[i]
  BY DEF Made, SameRecords
<1>2. ByHand(Day(c))' <=> ByHand(Day(c))
  <2>1. \A i \in ToSet(Day(c).records) : i \in Made(c)
    BY DEF RecordsListed
  <2> QED BY <1>1, <2>1 DEF ByHand
<1>3. NumbersReserved(c)'
  BY <1>1, <1>2 DEF NumbersReserved, NumberScope
<1>4. RecordsListed(c)'
  BY <1>1 DEF RecordsListed
<1> QED BY <1>2, <1>3, <1>4

LEMMA ClaimKept ==
  ASSUME NEW s \in Slots, NEW c \in Cells, AtWorkOn(s, c), OneLaundry, Claim(s)
  PROVE  BooksAfter(s, c)
<1>1. /\ RequestShape(request[s]) /\ (Located(request[s]) => Month(c) # 0)
      /\ Exact(c, Surplus(request[s]), Unlisted(request[s])) /\ request[s].cell = c
      /\ UpToDate(request[s], c) /\ Progress(request[s], c) /\ request[s] \in Requests
      /\ NumbersReserved(c) /\ RecordsListed(c) /\ SameRecords
  BY WorkerFacts DEF AtWorkOn
<1>2. PICK nq \in Requests : nq = request'[s]
  BY NewRequest
<1>3. PICK rq \in Requests : rq = request[s]
  BY <1>1
<1>4. MonthTypes
  BY DEF AtWorkOn
<1>5. PICK f \in {"bill", "number"} : f = NextField(rq.left) /\ f \in rq.left
  <2>1. rq.left \in SUBSET Fields /\ rq.left # {}
    BY <1>1, <1>3, RequestFields DEF RequestShape, Claim
  <2> QED BY <2>1, NextFieldFacts
<1>6. PICK claim : claim = ClaimOf(rq)
  OBVIOUS
<1>7. /\ rq.pc = "claim" /\ SameOwn(s) /\ SameDay(s) /\ nq.owned = rq.owned
      /\ \/ DuplicateKey(reserved, claim) /\ reserved' = reserved
            /\ nq.left = rq.left /\ nq.pc = "unclaim"
         \/ ~DuplicateKey(reserved, claim) /\ reserved' = Upsert(reserved, claim)
            /\ nq.left = rq.left \ {f} /\ nq.pc = IF rq.left = {f} THEN AfterClaim(rq) ELSE "claim"
  BY <1>1, <1>2, <1>3, <1>4, <1>5, <1>6, ClaimFacts
<1>8. /\ nq.op = rq.op /\ nq.refs = rq.refs /\ nq.month = rq.month /\ nq.seen = rq.seen
  BY <1>2, <1>3, <1>7 DEF SameOwn, SameDay
<1>9. UNCHANGED <<months, records>>
  BY DEF Claim
<1>10. rq.op \in {"save", "pass"}
  BY <1>1, <1>3, <1>7, RequestFields DEF RequestShape, Awaits, AllOps
<1>11. CASE rq.op = "pass"
  <2>1. SameBooks(c)
    BY <1>3, <1>9, <1>11, NothingWritten
  <2>2. nq.pc \in {"claim", "unclaim", "insert"}
    BY <1>7, <1>8, <1>11 DEF AfterClaim
  <2>3. /\ Surplus(rq) = {} /\ Unlisted(rq) = {} /\ Surplus(nq) = {} /\ Unlisted(nq) = {}
    BY <1>7, <1>8, <1>11, <2>2 DEF Surplus, Unlisted, Unsynced
  <2>4. UpToDate(nq, c) /\ (Located(nq) => Month(c) # 0) /\ Progress(nq, c)
    BY <1>8, <1>11, <2>2 DEF UpToDate, Located, Editing, Unsynced, Progress
  <2>5. AtWork(nq, c)
    BY <1>1, <1>3, <2>3, <2>4 DEF AtWork
  <2> QED BY <1>2, <2>1, <2>2, <2>4, <2>5, BooksUnchanged
<1>12. CASE rq.op = "save" /\ reserved' = reserved /\ nq.left = rq.left /\ nq.pc = "unclaim"
  <2>1. SameBooks(c)
    BY <1>9, <1>12, NothingWritten
  <2>2. /\ Surplus(nq) = Surplus(rq) /\ Unlisted(nq) = Unlisted(rq)
    BY <1>7, <1>8, <1>12 DEF Surplus, Unlisted, Unsynced
  <2>3. UpToDate(nq, c) /\ (Located(nq) => Month(c) # 0)
    BY <1>1, <1>3, <1>7, <1>8, <1>12 DEF UpToDate, Located, Editing, Unsynced
  <2>4. Progress(nq, c)
    BY <1>1, <1>3, <1>7, <1>8, <1>12 DEF Progress
  <2>5. AtWork(nq, c)
    BY <1>1, <1>3, <2>2, <2>3, <2>4 DEF AtWork
  <2> QED BY <1>2, <1>12, <2>1, <2>3, <2>5, BooksUnchanged
<1>13. CASE /\ rq.op = "save" /\ ~DuplicateKey(reserved, claim)
            /\ reserved' = Upsert(reserved, claim) /\ nq.left = rq.left \ {f}
            /\ nq.pc = IF rq.left = {f} THEN "write" ELSE "claim"
  <2>1. /\ claim.owner = c /\ claim.scope = ScopeKey(rq.refs[f], f, MainLaundry)
        /\ rq.left \subseteq Given(rq.refs)
    <3>1. rq.owner = c /\ rq.laundry = MainLaundry
      BY <1>1, <1>3, <1>13, RequestFields DEF RequestShape, OneLaundry
    <3>2. rq.left \subseteq Given(rq.refs)
      BY <1>1, <1>3, <1>7, <1>13 DEF RequestShape, Reserves
    <3> QED BY <1>5, <1>6, <3>1, <3>2, ReservationFacts DEF ClaimOf
  <2>2. Owned(c)' = Owned(c) \cup {ScopeKey(rq.refs[f], f, MainLaundry)}
    BY <1>13, <2>1, ClaimedOwned
  <2>3. Day(c)' = Day(c) /\ Month(c)' = Month(c) /\ Made(c)' = Made(c)
    BY <1>9 DEF Day, Month, Made, DayIn, AnyMonth
  <2>4. NumbersReserved(c)' /\ RecordsListed(c)' /\ (ByHand(Day(c))' <=> ByHand(Day(c)))
    BY <1>1, <2>2, <2>3, OwnsMore
  <2>5. /\ Surplus(rq) = {rq.refs[g] : g \in Given(rq.refs) \ rq.left}
        /\ Unlisted(rq) = {} /\ Unlisted(nq) = {}
    BY <1>7, <1>8, <1>13 DEF Surplus, Unlisted, Unsynced
  <2>6. Surplus(nq) = Surplus(rq) \cup {rq.refs[f]}
    <3>1. nq.pc = "claim" => Surplus(nq) = {rq.refs[g] : g \in Given(rq.refs) \ (rq.left \ {f})}
      BY <1>8, <1>13 DEF Surplus
    <3>2. nq.pc = "write" => Surplus(nq) = {rq.refs[g] : g \in Given(rq.refs)} /\ rq.left = {f}
      BY <1>8, <1>13 DEF Surplus, NumbersOf
    <3> QED BY <1>5, <1>13, <2>1, <2>5, <3>1, <3>2
  <2>7. Values(Owned(c)') = Values(Owned(c)) \cup {rq.refs[f]}
    <3>1. ScopeKey(rq.refs[f], f, MainLaundry)[1] = rq.refs[f]
      BY ScopeFacts
    <3>2. \A A, sc : Values(A \cup {sc}) = Values(A) \cup {sc[1]}
      BY ValuesFacts
    <3> QED BY <2>2, <3>1, <3>2
  <2>8. Exact(c, Surplus(nq), Unlisted(nq))'
    <3>1. Exact(c, Surplus(rq), {})
      BY <1>1, <1>3, <2>5
    <3> QED BY <2>3, <2>4, <2>5, <2>6, <2>7, <3>1 DEF Exact
  <2>9. UpToDate(nq, c)'
    BY <1>1, <1>3, <1>7, <1>8, <1>13, <2>3 DEF UpToDate, Located, Editing, Unsynced
  <2>10. /\ Owned(c) = rq.owned \cup ScopesOf(rq.refs, Given(rq.refs) \ rq.left)
         /\ Values(rq.owned) = NumbersOf(RefsOf(Day(c)))
         /\ ScopesOf(RefsOf(Day(c)), Given(RefsOf(Day(c)))) \subseteq rq.owned
         /\ rq.refs.number \notin Nat
    BY <1>1, <1>3, <1>7, <1>13 DEF Progress
  <2>11. Owned(c)' = rq.owned \cup ScopesOf(rq.refs, Given(rq.refs) \ (rq.left \ {f}))
    <3>1. Given(rq.refs) \ (rq.left \ {f}) = (Given(rq.refs) \ rq.left) \cup {f}
      BY <1>5, <2>1
    <3> QED BY <2>2, <2>10, <3>1 DEF ScopesOf
  <2>12. nq.pc = "write" => ScopesOf(rq.refs, Given(rq.refs)) \subseteq Owned(c)'
    <3>1. nq.pc = "write" => Given(rq.refs) \ (rq.left \ {f}) = Given(rq.refs)
      BY <1>13
    <3> QED BY <2>11, <3>1
  <2>13. Progress(nq, c)'
    BY <1>7, <1>8, <1>13, <2>3, <2>10, <2>11, <2>12 DEF Progress
  <2>14. AtWork(nq, c)'
    BY <2>8, <2>9, <2>13 DEF AtWork
  <2>15. AtWork(request[s], c)'
    BY <1>2, <2>14
  <2> QED BY <1>2, <1>13, <2>4, <2>15 DEF BooksAfter
<1> QED BY <1>7, <1>10, <1>11, <1>12, <1>13 DEF AfterClaim

(* A draft, or an empty day, has no records. *)
LEMMA NoRecords ==
  ASSUME NEW c \in Cells, RecordsListed(c), Day(c).status # "CONFIRMED",
         NEW surplus, Exact(c, surplus, {})
  PROVE  Made(c) = {} /\ ToSet(Day(c).records) = {}
BY DraftNotByHand, EmptyToSet DEF Exact

LEMMA UnclaimedOwned ==
  ASSUME NEW c, NEW scopes, NEW owned,
         reserved' = WithoutNew(reserved, c, scopes, owned),
         owned \subseteq Owned(c), Owned(c) \subseteq owned \cup scopes
  PROVE  Owned(c)' = owned
<1>1. \A r \in reserved : r.owner = c => r.scope \in owned \cup scopes
  BY DEF Owned, OwnedScopes
<1>2. \A x \in owned : \E r \in reserved : r.owner = c /\ r.scope = x
  BY DEF Owned, OwnedScopes
<1>3. \A r : r \in reserved' <=> r \in reserved /\ ~(r.owner = c /\ r.scope \in scopes \ owned)
  BY DEF WithoutNew
<1> QED BY <1>1, <1>2, <1>3 DEF Owned, OwnedScopes

(* The numbers of a day without records are reserved by the day itself.     *)
LEMMA PlainNumbers ==
  ASSUME NEW c \in Cells, NEW day \in DayStates, day.number \notin Nat, NEW owned,
         ScopesOf(RefsOf(day), Given(RefsOf(day))) \subseteq owned, day.number # None
  PROVE  day.number \in PassNumbers /\ NumberScope(day.number) \in owned
<1>1. RefsOf(day) \in ShownNumbers /\ RefsOf(day).number = day.number
  BY RefsOfType
<1>2. "number" \in Given(RefsOf(day)) /\ RefsOf(day)["number"] = day.number
  BY <1>1, RefsFields
<1>3. ScopeKey(day.number, "number", MainLaundry) \in owned
  BY <1>2 DEF ScopesOf
<1> QED BY <1>3, DayFields, ScopeFacts DEF NumberScope

LEMMA UnclaimKept ==
  ASSUME NEW s \in Slots, NEW c \in Cells, AtWorkOn(s, c), OneLaundry, Unclaim(s)
  PROVE  BooksAfter(s, c)
<1>1. /\ RequestShape(request[s]) /\ Exact(c, Surplus(request[s]), Unlisted(request[s]))
      /\ request[s].cell = c /\ Day(c) \in DayStates
      /\ UpToDate(request[s], c) /\ Progress(request[s], c) /\ request[s] \in Requests
      /\ NumbersReserved(c) /\ RecordsListed(c) /\ SameRecords
  BY WorkerFacts DEF AtWorkOn
<1>2. PICK nq \in Requests : nq = request'[s]
  BY NewRequest
<1>3. PICK rq \in Requests : rq = request[s]
  BY <1>1
<1>4. MonthTypes
  BY DEF AtWorkOn
<1>5. PICK scopes : scopes = {ScopeKey(rq.refs[f], f, rq.laundry) : f \in Reserves(rq)}
  OBVIOUS
<1>6. /\ rq.pc = "unclaim" /\ nq.pc = "idle"
      /\ reserved' = WithoutNew(reserved, rq.owner, scopes, rq.owned)
  BY <1>2, <1>3, <1>4, <1>5, UnclaimFacts, IdleFacts
<1>7. UNCHANGED <<months, records>>
  BY DEF Unclaim
<1>8. rq.op \in {"save", "pass"}
  BY <1>1, <1>3, <1>6, RequestFields DEF RequestShape, Awaits, AllOps
<1>9. CASE rq.op = "pass"
  <2>1. SameBooks(c)
    BY <1>3, <1>7, <1>9, NothingWritten
  <2>2. Surplus(rq) = {} /\ Unlisted(rq) = {}
    BY <1>6, <1>9 DEF Surplus, Unlisted, Unsynced
  <2> QED BY <1>1, <1>2, <1>3, <1>6, <2>1, <2>2, BooksUnchanged
<1>10. CASE rq.op = "save"
  <2>1. rq.owner = c /\ rq.laundry = MainLaundry /\ Reserves(rq) = Given(rq.refs)
    BY <1>1, <1>3, <1>6, <1>10, RequestFields DEF RequestShape, OneLaundry, Reserves
  <2>2. /\ Owned(c) = rq.owned \cup ScopesOf(rq.refs, Given(rq.refs) \ rq.left)
        /\ Values(rq.owned) = NumbersOf(RefsOf(Day(c)))
        /\ ScopesOf(RefsOf(Day(c)), Given(RefsOf(Day(c)))) \subseteq rq.owned
    BY <1>1, <1>3, <1>6, <1>10 DEF Progress
  <2>3. rq.owned \subseteq Owned(c) /\ Owned(c) \subseteq rq.owned \cup scopes
    BY <1>5, <2>1, <2>2 DEF ScopesOf
  <2>4. Owned(c)' = rq.owned
    BY <1>6, <2>1, <2>3, UnclaimedOwned
  <2>5. Day(c)' = Day(c) /\ Month(c)' = Month(c) /\ Made(c)' = Made(c)
    BY <1>7 DEF Day, Month, Made, DayIn, AnyMonth
  <2>6. Day(c).status # "CONFIRMED" /\ Unlisted(rq) = {}
    BY <1>1, <1>3, <1>6, <1>10 DEF UpToDate, Editing, Unlisted, Unsynced
  <2>7. Made(c) = {} /\ ToSet(Day(c).records) = {} /\ ~ByHand(Day(c))
    BY <1>1, <1>3, <2>6, NoRecords, DraftNotByHand
  <2>8. ~ByHand(Day(c))'
    BY <2>5, <2>7 DEF ByHand
  <2>9. NumbersReserved(c)'
    <3>1. Day(c).number \notin Nat
      BY <1>1, <2>7 DEF NumbersReserved
    <3>2. Day(c).number # None =>
            Day(c).number \in PassNumbers /\ NumberScope(Day(c).number) \in rq.owned
      BY <1>1, <2>2, <3>1, PlainNumbers
    <3> QED BY <2>2, <2>4, <2>5, <2>7, <2>8, <3>1, <3>2 DEF NumbersReserved, NumberScope
  <2>10. RecordsListed(c)'
    BY <1>1, <2>5, <2>7 DEF RecordsListed
  <2>11. Exact(c, {}, {})'
    BY <2>2, <2>4, <2>5, <2>7 DEF Exact
  <2> QED BY <1>2, <1>6, <2>9, <2>10, <2>11 DEF BooksAfter
<1> QED BY <1>8, <1>9, <1>10

LEMMA ReleasedOwned ==
  ASSUME MonthTypes, NEW c, NEW values, reserved' = Released(reserved, c, values)
  PROVE  /\ \A sc : sc \in Owned(c)' <=> sc \in Owned(c) /\ sc[1] \notin values
         /\ Values(Owned(c)') = Values(Owned(c)) \ values
<1>1. \A r \in reserved : r.scope[1] = r.value
  BY ReservedFields
<1>2. \A r : r \in reserved' <=> r \in reserved /\ ~(r.owner = c /\ r.value \in values)
  BY DEF Released
<1>3. \A sc : sc \in Owned(c) <=> \E r \in reserved : r.owner = c /\ r.scope = sc
  BY DEF Owned, OwnedScopes
<1>4. \A sc : sc \in Owned(c)' <=> \E r \in reserved' : r.owner = c /\ r.scope = sc
  BY DEF Owned, OwnedScopes
<1>5. \A sc : sc \in Owned(c)' <=> sc \in Owned(c) /\ sc[1] \notin values
  BY <1>1, <1>2, <1>3, <1>4
<1> QED BY <1>5 DEF Values

LEMMA ReleaseKept ==
  ASSUME NEW s \in Slots, NEW c \in Cells, AtWorkOn(s, c), Release(s)
  PROVE  BooksAfter(s, c)
<1>1. /\ RequestShape(request[s]) /\ Exact(c, Surplus(request[s]), Unlisted(request[s]))
      /\ request[s].cell = c /\ Day(c) \in DayStates
      /\ Progress(request[s], c) /\ request[s] \in Requests
      /\ NumbersReserved(c) /\ RecordsListed(c) /\ SameRecords
  BY WorkerFacts DEF AtWorkOn
<1>2. PICK nq \in Requests : nq = request'[s]
  BY NewRequest
<1>3. PICK rq \in Requests : rq = request[s]
  BY <1>1
<1>4. MonthTypes
  BY DEF AtWorkOn
<1>5. PICK gone : gone = NumbersOf(RefsOf(rq.seen)) \ NumbersOf(rq.refs)
  OBVIOUS
<1>6. /\ rq.pc = "release" /\ nq.pc = "idle" /\ reserved' = Released(reserved, rq.owner, gone)
  BY <1>2, <1>3, <1>4, <1>5, ReleaseFacts, IdleFacts
<1>7. rq.op \in {"save", "cancel"} /\ rq.owner = c
  <2>1. rq.op \in {"save", "cancel"}
    BY <1>1, <1>3, <1>6, RequestFields DEF RequestShape, Awaits, AllOps
  <2> QED BY <1>1, <1>3, <2>1 DEF RequestShape
<1>8. Day(c)' = Day(c) /\ Made(c)' = Made(c)
  BY DEF Day, Month, Made, DayIn, AnyMonth, Release
<1>9. RefsOf(Day(c)) = rq.refs /\ Day(c).status # "CONFIRMED" /\ Unlisted(rq) = {}
  BY <1>1, <1>3, <1>6, <1>7 DEF Progress, Unlisted, Unsynced
<1>10. Made(c) = {} /\ ToSet(Day(c).records) = {} /\ ~ByHand(Day(c))
  BY <1>1, <1>3, <1>9, NoRecords, DraftNotByHand
<1>11. ~ByHand(Day(c))'
  BY <1>8, <1>10 DEF ByHand
<1>12. /\ \A sc : sc \in Owned(c)' <=> sc \in Owned(c) /\ sc[1] \notin gone
       /\ Values(Owned(c)') = Values(Owned(c)) \ gone
  BY <1>4, <1>6, <1>7, ReleasedOwned
<1>13. Values(Owned(c)') = NumbersOf(RefsOf(Day(c)))
  <2>1. Surplus(rq) = NumbersOf(RefsOf(rq.seen))
    BY <1>6 DEF Surplus
  <2>2. Values(Owned(c)) = NumbersOf(rq.refs) \cup NumbersOf(RefsOf(rq.seen))
    BY <1>1, <1>3, <1>9, <1>10, <2>1 DEF Exact
  <2> QED BY <1>5, <1>9, <1>12, <2>2
<1>14. ScopesOf(RefsOf(Day(c)), Given(RefsOf(Day(c)))) \subseteq Owned(c)'
  <2>1. ScopesOf(RefsOf(Day(c)), Given(RefsOf(Day(c)))) \subseteq Owned(c)
    BY <1>1, <1>10 DEF NumbersReserved
  <2>2. \A sc \in ScopesOf(RefsOf(Day(c)), Given(RefsOf(Day(c)))) :
          sc[1] \in NumbersOf(RefsOf(Day(c)))
    BY ScopeFacts DEF ScopesOf, NumbersOf
  <2> QED BY <1>5, <1>9, <1>12, <2>1, <2>2
<1>15. NumbersReserved(c)'
  <2>1. Day(c).number \notin Nat
    BY <1>1, <1>10 DEF NumbersReserved
  <2>2. PICK owned : owned = Owned(c)'
    OBVIOUS
  <2>3. Day(c).number # None =>
          Day(c).number \in PassNumbers /\ NumberScope(Day(c).number) \in owned
    BY <1>1, <1>14, <2>1, <2>2, PlainNumbers
  <2> QED BY <1>8, <1>10, <1>11, <1>14, <2>1, <2>2, <2>3 DEF NumbersReserved, NumberScope
<1>16. RecordsListed(c)'
  BY <1>1, <1>8, <1>10 DEF RecordsListed
<1>17. Exact(c, {}, {})'
  BY <1>8, <1>10, <1>13 DEF Exact
<1> QED BY <1>2, <1>6, <1>15, <1>16, <1>17 DEF BooksAfter

LEMMA WorkerWrites ==
  ASSUME NEW s \in Slots, NEW c \in Cells, AtWorkOn(s, c),
         request[s].pc \in {"write", "unset", "mark", "syncWrite", "propagate"},
         NEW day \in DayStates, SetDay(request[s].month, request[s].cell, day)
  PROVE  Day(c)' = day /\ Month(c)' = Month(c) /\ request[s].month = Month(c) /\ Month(c) # 0
<1>1. /\ RequestShape(request[s]) /\ request[s] \in Requests /\ request[s].cell = c
      /\ UpToDate(request[s], c) /\ MonthTypes /\ RequestShapes
  BY WorkerFacts DEF AtWorkOn
<1>2. Located(request[s])
  BY <1>1, RequestFields DEF RequestShape, Awaits, AllOps, Located
<1>3. request[s].month = Month(c) /\ Month(c) # 0
  BY <1>1, <1>2, WorkerFacts DEF UpToDate
<1>4. PICK i \in DOMAIN months : i = request[s].month /\ months[i].kind = c[1]
  BY <1>1, <1>2 DEF RequestShape
<1>5. SetDay(i, c, day)
  BY <1>1, <1>4
<1> QED BY <1>1, <1>3, <1>4, <1>5, DayWritten

LEMMA WriteKept ==
  ASSUME NEW s \in Slots, NEW c \in Cells, AtWorkOn(s, c), WriteDay(s)
  PROVE  BooksAfter(s, c)
<1>1. /\ RequestShape(request[s]) /\ Exact(c, Surplus(request[s]), Unlisted(request[s]))
      /\ request[s].cell = c /\ Day(c) \in DayStates /\ UpToDate(request[s], c)
      /\ Progress(request[s], c) /\ request[s] \in Requests
      /\ NumbersReserved(c) /\ RecordsListed(c) /\ SameRecords
  BY WorkerFacts DEF AtWorkOn
<1>2. PICK nq \in Requests : nq = request'[s]
  BY NewRequest
<1>3. PICK rq \in Requests : rq = request[s]
  BY <1>1
<1>4. MonthTypes
  BY DEF AtWorkOn
<1>5. /\ rq.pc = "write" /\ SameOwn(s) /\ SameDay(s) /\ nq.pc = "release"
      /\ SavedDay(rq) \in DayStates /\ SetDay(request[s].month, request[s].cell, SavedDay(rq))
  BY <1>2, <1>3, <1>4, WriteDayFacts
<1>6. PICK day \in DayStates : day = SavedDay(rq)
  BY <1>5
<1>7. /\ nq.op = rq.op /\ nq.refs = rq.refs /\ nq.month = rq.month /\ nq.seen = rq.seen
  BY <1>2, <1>3, <1>5 DEF SameOwn, SameDay
<1>8. rq.op = "save"
  BY <1>1, <1>3, <1>5, RequestFields DEF RequestShape, Awaits, AllOps
<1>9. Day(c)' = day /\ Month(c)' = Month(c) /\ rq.month = Month(c)
  BY <1>3, <1>5, <1>6, WorkerWrites
<1>10. Owned(c)' = Owned(c) /\ Made(c)' = Made(c)
  BY DEF WriteDay, Owned, Made
<1>11. rq.seen = Day(c) /\ Day(c).status # "CONFIRMED" /\ Unlisted(rq) = {}
  BY <1>1, <1>3, <1>5, <1>8 DEF UpToDate, Editing, Unlisted, Unsynced
<1>12. Made(c) = {} /\ ~ByHand(Day(c)) /\ Day(c).records = <<>>
  BY <1>1, <1>3, <1>11, NoRecords, DraftNotByHand
<1>13. rq.refs \in ShownNumbers /\ rq.refs.number \notin Nat
  BY <1>1, <1>3, <1>8, RequestFields DEF Progress
<1>14. RefsOf(day) = rq.refs /\ day.records = <<>> /\ day.status # "CONFIRMED"
  <2>1. CASE rq.entered \/ Given(rq.refs) # {}
    <3>1. /\ day.bill = rq.refs.bill /\ day.number = rq.refs.number
          /\ day.records = rq.seen.records /\ day.status = "DRAFT"
      BY <1>6, <2>1 DEF SavedDay
    <3> QED BY <1>11, <1>12, <1>13, <3>1, RefsFields DEF RefsOf
  <2>2. CASE ~(rq.entered \/ Given(rq.refs) # {})
    <3>1. rq.refs.bill = None /\ rq.refs.number = None
      BY <1>13, <2>2, RefsFields
    <3>2. day = EmptyDay
      BY <1>6, <2>2 DEF SavedDay
    <3> QED BY <1>13, <3>1, <3>2, RefsFields, EmptyDayType DEF RefsOf
  <2> QED BY <2>1, <2>2
<1>15. ScopesOf(rq.refs, Given(rq.refs)) \subseteq Owned(c)
  BY <1>1, <1>3, <1>5, <1>8 DEF Progress
<1>16. ~ByHand(Day(c))'
  BY <1>9, <1>14, EmptyToSet DEF ByHand
<1>17. day.number = rq.refs.number
  BY <1>6, <1>14, RefsOfType
<1>18. NumbersReserved(c)'
  <2>1. day.number # None =>
          day.number \in PassNumbers /\ NumberScope(day.number) \in Owned(c)
    BY <1>13, <1>14, <1>15, <1>17, PlainNumbers
  <2> QED BY <1>9, <1>10, <1>12, <1>13, <1>14, <1>15, <1>16, <1>17, <2>1
          DEF NumbersReserved, NumberScope
<1>19. RecordsListed(c)'
  BY <1>9, <1>10, <1>12, <1>14, EmptyToSet DEF RecordsListed
<1>20. Exact(c, Surplus(nq), Unlisted(nq))'
  <2>1. Unlisted(nq) = {} /\ Surplus(nq) = NumbersOf(RefsOf(Day(c)))
    BY <1>5, <1>7, <1>8, <1>11 DEF Unlisted, Unsynced, Surplus
  <2>2. Surplus(rq) = NumbersOf(rq.refs)
    BY <1>5, <1>8 DEF Surplus
  <2>3. Values(Owned(c)) = NumbersOf(rq.refs) \cup NumbersOf(RefsOf(Day(c)))
    BY <1>1, <1>3, <1>12, <2>2 DEF Exact
  <2> QED BY <1>9, <1>10, <1>12, <1>14, <2>1, <2>3, EmptyToSet DEF Exact
<1>21. UpToDate(nq, c)'
  BY <1>5, <1>7, <1>8, <1>9 DEF UpToDate, Editing, Unsynced
<1>22. Progress(nq, c)'
  BY <1>5, <1>7, <1>8, <1>9, <1>13, <1>14 DEF Progress
<1>23. AtWork(request[s], c)'
  <2>1. AtWork(nq, c)'
    BY <1>20, <1>21, <1>22 DEF AtWork
  <2> QED BY <1>2, <2>1
<1> QED BY <1>2, <1>5, <1>18, <1>19, <1>23 DEF BooksAfter

LEMMA UnsetKept ==
  ASSUME NEW s \in Slots, NEW c \in Cells, AtWorkOn(s, c), Unset(s)
  PROVE  BooksAfter(s, c)
<1>1. /\ RequestShape(request[s]) /\ Exact(c, Surplus(request[s]), Unlisted(request[s]))
      /\ request[s].cell = c /\ UpToDate(request[s], c) /\ request[s] \in Requests
      /\ NumbersReserved(c) /\ RecordsListed(c) /\ SameRecords
  BY WorkerFacts DEF AtWorkOn
<1>2. PICK nq \in Requests : nq = request'[s]
  BY NewRequest
<1>3. PICK rq \in Requests : rq = request[s]
  BY <1>1
<1>4. MonthTypes
  BY DEF AtWorkOn
<1>5. /\ rq.pc = "unset" /\ SameOwn(s) /\ SameDay(s) /\ nq.pc = "release"
      /\ SetDay(request[s].month, request[s].cell, EmptyDay)
  BY <1>2, <1>3, <1>4, UnsetFacts
<1>6. /\ nq.op = rq.op /\ nq.refs = rq.refs /\ nq.month = rq.month /\ nq.seen = rq.seen
  BY <1>2, <1>3, <1>5 DEF SameOwn, SameDay
<1>7. rq.op = "cancel" /\ rq.refs = NoReferences
  BY <1>1, <1>3, <1>5, RequestFields DEF RequestShape, Awaits, AllOps
<1>8. Day(c)' = EmptyDay /\ Month(c)' = Month(c) /\ rq.month = Month(c)
  <2>1. PICK day \in DayStates : day = EmptyDay
    BY EmptyDayType
  <2> QED BY <1>3, <1>5, <2>1, WorkerWrites
<1>9. Owned(c)' = Owned(c) /\ Made(c)' = Made(c)
  BY DEF Unset, Owned, Made
<1>10. rq.seen = Day(c) /\ Day(c).status # "CONFIRMED" /\ Unlisted(rq) = {} /\ Surplus(rq) = {}
  BY <1>1, <1>3, <1>5, <1>7 DEF UpToDate, Editing, Unlisted, Unsynced, Surplus
<1>11. Made(c) = {} /\ ~ByHand(Day(c))
  BY <1>1, <1>3, <1>10, NoRecords, DraftNotByHand
<1>12. /\ RefsOf(EmptyDay) = NoReferences /\ EmptyDay.records = <<>>
       /\ EmptyDay.status = "EMPTY" /\ EmptyDay.number = None
       /\ Given(NoReferences) = {} /\ NumbersOf(NoReferences) = {}
  BY EmptyDayType DEF RefsOf, NoReferences, Given, NumbersOf, Fields
<1>13. ~ByHand(Day(c))'
  BY <1>8, <1>12, EmptyToSet DEF ByHand
<1>14. NumbersReserved(c)'
  BY <1>8, <1>9, <1>11, <1>12, <1>13, NumbersDiffer DEF NumbersReserved, ScopesOf
<1>15. RecordsListed(c)'
  BY <1>8, <1>9, <1>11, <1>12, EmptyToSet DEF RecordsListed
<1>16. Exact(c, Surplus(nq), Unlisted(nq))'
  <2>1. Unlisted(nq) = {} /\ Surplus(nq) = NumbersOf(RefsOf(Day(c)))
    BY <1>5, <1>6, <1>7, <1>10 DEF Unlisted, Unsynced, Surplus
  <2>2. Values(Owned(c)) = NumbersOf(RefsOf(Day(c)))
    BY <1>1, <1>3, <1>10, <1>11 DEF Exact
  <2> QED BY <1>8, <1>9, <1>11, <1>12, <2>1, <2>2, EmptyToSet DEF Exact
<1>17. UpToDate(nq, c)'
  BY <1>5, <1>6, <1>7, <1>8 DEF UpToDate, Editing, Unsynced
<1>18. Progress(nq, c)'
  BY <1>5, <1>6, <1>7, <1>8, <1>12 DEF Progress
<1>19. AtWork(request[s], c)'
  <2>1. AtWork(nq, c)'
    BY <1>16, <1>17, <1>18 DEF AtWork
  <2> QED BY <1>2, <2>1
<1> QED BY <1>2, <1>5, <1>14, <1>15, <1>19 DEF BooksAfter

LEMMA MarkKept ==
  ASSUME NEW s \in Slots, NEW c \in Cells, AtWorkOn(s, c), MarkConfirmed(s)
  PROVE  BooksAfter(s, c)
<1>1. /\ RequestShape(request[s]) /\ Exact(c, Surplus(request[s]), Unlisted(request[s]))
      /\ request[s].cell = c /\ UpToDate(request[s], c) /\ request[s] \in Requests
      /\ NumbersReserved(c) /\ RecordsListed(c) /\ SameRecords
  BY WorkerFacts DEF AtWorkOn
<1>2. PICK nq \in Requests : nq = request'[s]
  BY NewRequest
<1>3. PICK rq \in Requests : rq = request[s]
  BY <1>1
<1>4. MonthTypes
  BY DEF AtWorkOn
<1>5. PICK day : day = [request[s].seen EXCEPT !.status = "CONFIRMED", !.records = request[s].made]
  OBVIOUS
<1>6. /\ rq.pc = "mark"
      /\ \/ nq.pc = "idle"
         \/ SameOwn(s) /\ SameDay(s) /\ nq.pc = "remember"
      /\ day \in DayStates /\ day.status = "CONFIRMED" /\ day.records = rq.made
      /\ day.bill = rq.seen.bill /\ day.number = rq.seen.number
      /\ SetDay(request[s].month, request[s].cell, day)
  BY <1>1, <1>2, <1>3, <1>4, <1>5, MarkConfirmedFacts, IdleFacts
<1>7. rq.op = "confirm"
  BY <1>1, <1>3, <1>6, RequestFields DEF RequestShape, Awaits, AllOps
<1>8. Day(c)' = day /\ Month(c)' = Month(c) /\ rq.month = Month(c)
  BY <1>3, <1>6, WorkerWrites
<1>9. Owned(c)' = Owned(c) /\ Made(c)' = Made(c) /\ records' = records
  BY DEF MarkConfirmed, Owned, Made
<1>10. /\ rq.seen = Day(c) /\ Day(c).status # "CONFIRMED"
       /\ Unlisted(rq) = ToSet(rq.made) /\ Surplus(rq) = {}
  BY <1>1, <1>3, <1>6, <1>7 DEF UpToDate, Editing, Unlisted, Surplus
<1>11. ~ByHand(Day(c)) /\ Day(c).records = <<>> /\ Made(c) = ToSet(rq.made)
  BY <1>1, <1>3, <1>10, DraftNotByHand, EmptyToSet DEF Exact
<1>12. RefsOf(day) = RefsOf(Day(c)) /\ day.number = Day(c).number
  BY <1>6, <1>10 DEF RefsOf
<1>13. /\ Day(c).number \notin Nat /\ Values(Owned(c)) = NumbersOf(RefsOf(Day(c)))
       /\ ScopesOf(RefsOf(Day(c)), Given(RefsOf(Day(c)))) \subseteq Owned(c)
  BY <1>1, <1>3, <1>10, <1>11 DEF NumbersReserved, Exact
<1>14. NumbersReserved(c)'
  BY <1>1, <1>8, <1>9, <1>12, <1>13 DEF NumbersReserved, NumberScope
<1>15. RecordsListed(c)'
  BY <1>1, <1>6, <1>8, <1>9, <1>11 DEF RecordsListed
<1>16. Exact(c, {}, {})'
  BY <1>6, <1>8, <1>9, <1>11, <1>12, <1>13 DEF Exact
<1>17. ASSUME nq.pc # "idle" PROVE AtWork(nq, c)'
  <2>1. /\ nq.op = "confirm" /\ nq.month = Month(c) /\ nq.pc = "remember"
    BY <1>2, <1>3, <1>6, <1>7, <1>8, <1>17 DEF SameOwn, SameDay
  <2>2. Surplus(nq) = {} /\ Unlisted(nq) = {}
    BY <2>1 DEF Surplus, Unlisted, Unsynced
  <2>3. UpToDate(nq, c)' /\ Progress(nq, c)'
    BY <1>8, <2>1 DEF UpToDate, Editing, Unsynced, Progress
  <2> QED BY <1>16, <2>2, <2>3 DEF AtWork
<1>18. request'[s].pc # "idle" => AtWork(request[s], c)'
  BY <1>2, <1>17
<1> QED BY <1>14, <1>15, <1>16, <1>18 DEF BooksAfter

(* The new pass of a request that synchronises it. *)
LEMMA PassOfRequest ==
  ASSUME NEW s \in Slots, NEW c \in Cells, AtWorkOn(s, c),
         Unsynced(request[s]) \/ request[s].op = "edit"
  PROVE  LET id == request[s].made[1]
         IN  /\ id \in DOMAIN records /\ id \in Nat /\ id \in Made(c)
             /\ records[id].cell = c /\ records[id].made = "hand"
             /\ records[id].bill \in BillNumbers \cup {None}
             /\ records[id].number \in PassNumbers \cup Nat
BY WorkerFacts, RecordsType DEF AtWorkOn, RequestShape, Made

LEMMA AppendedSet ==
  ASSUME NEW seq \in Seq(Nat), NEW x \in Nat
  PROVE  ToSet(Append(seq, x)) = ToSet(seq) \cup {x}
<1>1. /\ DOMAIN seq = 1 .. Len(seq) /\ Len(seq) \in Nat
      /\ DOMAIN Append(seq, x) = 1 .. Len(seq) + 1
      /\ \A i \in 1 .. Len(seq) : Append(seq, x)[i] = seq[i]
      /\ Append(seq, x)[Len(seq) + 1] = x
  OBVIOUS
<1>2. \A i \in 1 .. Len(seq) + 1 : i \in 1 .. Len(seq) \/ i = Len(seq) + 1
  BY <1>1
<1>3. Len(seq) + 1 \in 1 .. Len(seq) + 1 /\ (1 .. Len(seq)) \subseteq (1 .. Len(seq) + 1)
  BY <1>1
<1> QED BY <1>1, <1>2, <1>3 DEF ToSet

LEMMA SyncWriteKept ==
  ASSUME NEW s \in Slots, NEW c \in Cells, AtWorkOn(s, c), SyncWrite(s)
  PROVE  BooksAfter(s, c)
<1>1. /\ RequestShape(request[s]) /\ Exact(c, Surplus(request[s]), Unlisted(request[s]))
      /\ request[s].cell = c /\ UpToDate(request[s], c) /\ request[s] \in Requests
      /\ NumbersReserved(c) /\ RecordsListed(c) /\ SameRecords /\ Day(c) \in DayStates
  BY WorkerFacts DEF AtWorkOn
<1>2. PICK rq \in Requests : rq = request[s]
  BY <1>1
<1>3. MonthTypes
  BY DEF AtWorkOn
<1>4. rq.pc = "syncWrite" /\ rq.op \in {"pass", "sheet"}
  BY <1>1, <1>2, RequestFields DEF SyncWrite, RequestShape, Awaits, AllOps
<1>5. PICK id \in Nat : /\ id = rq.made[1] /\ id \in DOMAIN records /\ id \in Made(c)
                        /\ records[id].made = "hand"
                        /\ records[id].bill \in BillNumbers \cup {None}
                        /\ records[id].number \in PassNumbers \cup Nat
  BY <1>2, <1>4, PassOfRequest DEF Unsynced
<1>6. /\ rq.seen = Day(c) /\ ToSet(rq.made) = {id} /\ Unlisted(rq) = {id} /\ Surplus(rq) = {}
  BY <1>1, <1>2, <1>4, <1>5 DEF UpToDate, Unsynced, Unlisted, Surplus
<1>7. PICK day \in DayStates :
        /\ day = Synced(Day(c), records[id], id)
        /\ day.status = "CONFIRMED" /\ day.records = Append(Day(c).records, id)
        /\ day.number = IF Day(c).number # None THEN Day(c).number ELSE records[id].number
  <2>1. PICK d \in DayStates, p \in {records[id]} : d = Day(c) /\ p = records[id]
    BY <1>1
  <2>2. /\ Synced(d, p, id) \in DayStates /\ Synced(d, p, id).status = "CONFIRMED"
        /\ Synced(d, p, id).records = Append(d.records, id)
        /\ Synced(d, p, id).number = IF d.number # None THEN d.number ELSE p.number
    <3>1. p.bill \in BillNumbers \cup {None} /\ p.number \in PassNumbers \cup Nat
      BY <1>5, <2>1
    <3>2. Synced(d, p, id) \in DayStates
      BY <3>1, SyncedType
    <3> QED BY <3>2 DEF Synced, Or
  <2> QED BY <2>1, <2>2
<1>8. SetDay(request[s].month, request[s].cell, day)
  BY <1>2, <1>5, <1>6, <1>7 DEF SyncWrite
<1>9. Day(c)' = day
  BY <1>2, <1>4, <1>8, WorkerWrites
<1>10. Owned(c)' = Owned(c) /\ Made(c)' = Made(c) /\ records' = records
  BY DEF SyncWrite, Owned, Made
<1>11. ToSet(day.records) = ToSet(Day(c).records) \cup {id}
  BY <1>1, <1>7, DayFields, AppendedSet
<1>12. ByHand(Day(c))'
  BY <1>5, <1>9, <1>10, <1>11 DEF ByHand
<1>13. NumbersReserved(c)'
  <2>1. day.number # None =>
          \/ day.number \in PassNumbers /\ NumberScope(day.number) \in Owned(c)
          \/ \E i \in Made(c) : records[i].made = "hand" /\ records[i].number = day.number
    BY <1>1, <1>5, <1>7 DEF NumbersReserved
  <2> QED BY <1>1, <1>9, <1>10, <1>12, <2>1 DEF NumbersReserved, NumberScope
<1>14. Made(c) = ToSet(day.records)
  BY <1>1, <1>2, <1>6, <1>11 DEF Exact
<1>15. RecordsListed(c)'
  BY <1>1, <1>7, <1>9, <1>10, <1>14 DEF RecordsListed
<1>16. Exact(c, {}, {})'
  BY <1>9, <1>10, <1>12, <1>14 DEF Exact
<1>17. request'[s].pc = "idle"
  BY <1>3, FinishFacts, IdleFacts DEF SyncWrite
<1> QED BY <1>13, <1>15, <1>16, <1>17 DEF BooksAfter

LEMMA PropagateKept ==
  ASSUME NEW s \in Slots, NEW c \in Cells, AtWorkOn(s, c), Propagate(s)
  PROVE  BooksAfter(s, c)
<1>1. /\ RequestShape(request[s]) /\ Exact(c, Surplus(request[s]), Unlisted(request[s]))
      /\ request[s].cell = c /\ UpToDate(request[s], c) /\ request[s] \in Requests
      /\ NumbersReserved(c) /\ RecordsListed(c) /\ SameRecords /\ Day(c) \in DayStates
  BY WorkerFacts DEF AtWorkOn
<1>2. PICK rq \in Requests : rq = request[s]
  BY <1>1
<1>3. MonthTypes
  BY DEF AtWorkOn
<1>4. rq.pc = "propagate" /\ rq.op = "edit"
  BY <1>1, <1>2, RequestFields DEF Propagate, RequestShape, Awaits, AllOps
<1>5. PICK id \in Nat : /\ id = rq.made[1] /\ id \in DOMAIN records /\ id \in Made(c)
                        /\ records[id].made = "hand"
                        /\ records[id].bill \in BillNumbers \cup {None}
                        /\ records[id].number \in PassNumbers \cup Nat
  BY <1>2, <1>4, PassOfRequest
<1>6. id \in ToSet(Day(c).records) /\ Unlisted(rq) = {} /\ rq.month = Month(c)
  BY <1>1, <1>2, <1>4, <1>5 DEF UpToDate, Unsynced, Unlisted, Located
<1>7. DayIn(rq.month, rq.cell) = Day(c)
  BY <1>1, <1>2, <1>6 DEF Day
<1>8. PICK day \in DayStates :
        /\ day = [Day(c) EXCEPT !.number = records[id].number,
                    !.bill = Or(records[id].bill, Day(c).bill),
                    !.status = IF Day(c).status = "EMPTY" THEN "DRAFT" ELSE Day(c).status]
        /\ day.number = records[id].number /\ day.records = Day(c).records
        /\ (Day(c).status = "CONFIRMED" => day.status = "CONFIRMED")
  BY <1>1, <1>5, PropagatedType
<1>9. SetDay(request[s].month, request[s].cell, day)
  BY <1>2, <1>5, <1>7, <1>8 DEF Propagate
<1>10. Day(c)' = day
  BY <1>2, <1>4, <1>9, WorkerWrites
<1>11. Owned(c)' = Owned(c) /\ Made(c)' = Made(c) /\ records' = records
  BY DEF Propagate, Owned, Made
<1>12. ByHand(Day(c))'
  BY <1>5, <1>6, <1>8, <1>10, <1>11 DEF ByHand
<1>13. NumbersReserved(c)'
  BY <1>1, <1>5, <1>8, <1>10, <1>11, <1>12 DEF NumbersReserved, NumberScope
<1>14. day.status = "CONFIRMED"
  BY <1>1, <1>6, <1>8, EmptyToSet DEF RecordsListed
<1>15. RecordsListed(c)'
  BY <1>1, <1>8, <1>10, <1>11, <1>14 DEF RecordsListed
<1>16. Exact(c, {}, {})'
  BY <1>1, <1>2, <1>6, <1>8, <1>10, <1>11, <1>12 DEF Exact
<1>17. request'[s].pc = "idle"
  BY <1>3, FinishFacts, IdleFacts DEF Propagate
<1> QED BY <1>13, <1>15, <1>16, <1>17 DEF BooksAfter

(* The day gets one more record of its own, the last one.                   *)
LEMMA OneMoreRecord ==
  ASSUME MonthTypes, NEW s \in Slots, NEW c \in Cells, Inserts(s), request[s].cell = c,
         request[s] \in Requests,
         UNCHANGED <<months, reserved>>, RecordsListed(c)
  PROVE  /\ Day(c)' = Day(c) /\ Month(c)' = Month(c) /\ Owned(c)' = Owned(c)
         /\ Made(c)' = Made(c) \cup {Len(records) + 1} /\ Len(records) + 1 \notin Made(c)
         /\ SameRecords /\ (ByHand(Day(c))' <=> ByHand(Day(c)))
<1>1. Day(c)' = Day(c) /\ Month(c)' = Month(c) /\ Owned(c)' = Owned(c)
  BY DEF Day, Month, Owned, DayIn, AnyMonth
<1>2. records'[Len(records) + 1].cell = c
  BY RecordForType DEF Inserts
<1>3. SameRecords /\ Len(records) + 1 \notin DOMAIN records
  BY RecordsType DEF Inserts, SameRecords
<1>4. \A i \in DOMAIN records' : i \in DOMAIN records \/ i = Len(records) + 1
  BY RecordsType DEF Inserts
<1>5. Len(records) + 1 \in DOMAIN records'
  BY RecordsType DEF Inserts
<1>6. Made(c)' = Made(c) \cup {Len(records) + 1}
  BY <1>2, <1>3, <1>4, <1>5 DEF Made, SameRecords
<1>7. \A i \in ToSet(Day(c).records) : i \in DOMAIN records
  BY DEF RecordsListed, Made
<1>8. ByHand(Day(c))' <=> ByHand(Day(c))
  BY <1>1, <1>3, <1>7 DEF ByHand, SameRecords
<1> QED BY <1>1, <1>3, <1>6, <1>8 DEF Made

LEMMA InsertKept ==
  ASSUME NEW s \in Slots, NEW c \in Cells, AtWorkOn(s, c), OneLaundry, InsertRecord(s)
  PROVE  BooksAfter(s, c)
<1>1. /\ RequestShape(request[s]) /\ Exact(c, Surplus(request[s]), Unlisted(request[s]))
      /\ request[s].cell = c /\ UpToDate(request[s], c) /\ Progress(request[s], c)
      /\ request[s] \in Requests /\ Day(c) \in DayStates
      /\ NumbersReserved(c) /\ RecordsListed(c) /\ SameRecords
  BY WorkerFacts DEF AtWorkOn
<1>2. PICK nq \in Requests : nq = request'[s]
  BY NewRequest
<1>3. PICK rq \in Requests : rq = request[s]
  BY <1>1
<1>4. MonthTypes
  BY DEF AtWorkOn
<1>5. PICK n : n = Len(records) + 1
  OBVIOUS
<1>6. /\ rq.pc = "insert"
      /\ \/ InsertRefused(rq) /\ nq.pc = "idle" /\ records' = records
         \/ /\ Inserts(s) /\ SameOwn(s) /\ SameDay(s)
            /\ nq.made = Append(rq.made, n) /\ nq.plan = rq.plan - 1 /\ nq.pc = AfterInsert(rq)
  BY <1>1, <1>2, <1>3, <1>4, <1>5, InsertRecordFacts, IdleFacts
<1>7. UNCHANGED <<months, reserved>>
  BY DEF InsertRecord
<1>8. rq.op \in {"confirm", "pass", "sheet"} /\ rq.made \in Seq(Nat) /\ n \in Nat
  BY <1>1, <1>3, <1>4, <1>5, <1>6, RequestFields, RecordsType DEF RequestShape, Awaits, AllOps
<1>9. /\ Surplus(rq) = {} /\ Unlisted(rq) = IF rq.op = "confirm" THEN ToSet(rq.made) ELSE {}
  BY <1>6, <1>8 DEF Surplus, Unlisted, Unsynced
<1>10. rq.op # "confirm" => rq.made = <<>>
  BY <1>1, <1>3, <1>6, <1>8 DEF RequestShape, Unsynced
<1>11. rq.op = "confirm" =>
         /\ rq.seen = Day(c) /\ Day(c).status # "CONFIRMED"
         /\ rq.refs.bill = Day(c).bill /\ (c[1] # "rewash" => rq.refs.number = Day(c).number)
         /\ rq.plan > 0 /\ (c[1] # "delivery" => rq.plan = 1 /\ rq.made = <<>>)
  BY <1>1, <1>3, <1>6 DEF UpToDate, Editing, Progress
<1>12. CASE InsertRefused(rq) /\ nq.pc = "idle" /\ records' = records
  <2>1. SameBooks(c)
    BY <1>7, <1>12, NothingWritten
  <2>2. rq.made = <<>>
    <3>1. c[1] \in {"receiving", "rewash"}
      BY <1>1, <1>3, <1>12 DEF InsertRefused
    <3> QED BY <1>8, <1>10, <1>11, <3>1
  <2>3. Unlisted(rq) = {}
    BY <1>9, <2>2, EmptyToSet
  <2> QED BY <1>1, <1>2, <1>3, <1>9, <1>12, <2>1, <2>3, BooksUnchanged
<1>13. CASE /\ Inserts(s) /\ SameOwn(s) /\ SameDay(s)
            /\ nq.made = Append(rq.made, n) /\ nq.plan = rq.plan - 1 /\ nq.pc = AfterInsert(rq)
  <2>1. /\ Day(c)' = Day(c) /\ Month(c)' = Month(c) /\ Owned(c)' = Owned(c)
        /\ Made(c)' = Made(c) \cup {n} /\ n \notin Made(c)
        /\ (ByHand(Day(c))' <=> ByHand(Day(c)))
    BY <1>1, <1>4, <1>5, <1>7, <1>13, OneMoreRecord
  <2>2. \A i \in Made(c) : i \in DOMAIN records /\ records'[i] = records[i]
    BY <1>1 DEF Made, SameRecords
  <2>3. /\ nq.op = rq.op /\ nq.refs = rq.refs /\ nq.month = rq.month /\ nq.seen = rq.seen
    BY <1>2, <1>3, <1>13 DEF SameOwn, SameDay
  <2>4. /\ records'[n].bill = rq.refs.bill
        /\ records'[n].made = IF rq.op = "confirm" THEN "grid" ELSE "hand"
        /\ records'[n].number = IF rq.refs.number = None THEN n ELSE rq.refs.number
    BY <1>1, <1>3, <1>4, <1>5, <1>13, RecordForType DEF Inserts
  <2>5. ToSet(nq.made) = ToSet(rq.made) \cup {n}
    BY <1>8, <1>13, AppendedSet
  <2>6. rq.op = "confirm" /\ c[1] # "delivery" => Made(c) = {}
    <3>1. rq.op = "confirm" /\ c[1] # "delivery" => Unlisted(rq) = {}
      BY <1>9, <1>11, EmptyToSet
    <3> QED BY <1>1, <1>3, <1>11, <3>1, DraftNotByHand, EmptyToSet DEF Exact
  <2>7. RecordsListed(c)'
    <3>1. \A i, j \in Made(c)' : c[1] # "delivery" /\
            records'[i].made = "grid" /\ records'[j].made = "grid" => i = j
      BY <1>1, <1>8, <2>1, <2>2, <2>4, <2>6 DEF RecordsListed
    <3> QED BY <1>1, <2>1, <3>1 DEF RecordsListed
  <2>8. c[1] = "receiving" /\ rq.op = "confirm" =>
          /\ records'[n].number \in PassNumbers => NumberScope(records'[n].number) \in Owned(c)
          /\ records'[n].bill # None =>
               ScopeKey(records'[n].bill, "bill", MainLaundry) \in Owned(c)
    <3>1. ASSUME c[1] = "receiving", rq.op = "confirm"
          PROVE  /\ Day(c).number \notin Nat
                 /\ ScopesOf(RefsOf(Day(c)), Given(RefsOf(Day(c)))) \subseteq Owned(c)
                 /\ rq.refs.bill = Day(c).bill /\ rq.refs.number = Day(c).number
      <4>1. ~ByHand(Day(c))
        BY <1>1, <1>11, <3>1, DraftNotByHand
      <4> QED BY <1>1, <1>11, <3>1, <4>1 DEF NumbersReserved
    <3>2. c[1] = "receiving" /\ rq.op = "confirm" /\ records'[n].number \in PassNumbers =>
            Day(c).number # None /\ records'[n].number = Day(c).number
      BY <1>8, <2>4, <3>1, NumbersDiffer
    <3>3. c[1] = "receiving" /\ rq.op = "confirm" /\ records'[n].number \in PassNumbers =>
            NumberScope(records'[n].number) \in Owned(c)
      BY <1>1, <3>1, <3>2, PlainNumbers
    <3>4. RefsOf(Day(c)) \in ShownNumbers /\ RefsOf(Day(c)).bill = Day(c).bill
      BY <1>1, RefsOfType
    <3>5. Day(c).bill # None => "bill" \in Given(RefsOf(Day(c))) /\ RefsOf(Day(c))["bill"] = Day(c).bill
      BY <3>4, RefsFields
    <3>6. c[1] = "receiving" /\ rq.op = "confirm" /\ records'[n].bill # None =>
            ScopeKey(records'[n].bill, "bill", MainLaundry) \in Owned(c)
      BY <2>4, <3>1, <3>5 DEF ScopesOf
    <3> QED BY <3>3, <3>6
  <2>9. NumbersReserved(c)'
    <3>1. Day(c).number # None =>
            \/ Day(c).number \in PassNumbers /\ NumberScope(Day(c).number) \in Owned(c)
            \/ \E i \in Made(c)' : records'[i].made = "hand" /\ records'[i].number = Day(c).number
      BY <1>1, <2>1, <2>2 DEF NumbersReserved
    <3>2. c[1] = "receiving" => \A i \in Made(c)' : records'[i].made = "grid" =>
            /\ records'[i].number \in PassNumbers => NumberScope(records'[i].number) \in Owned(c)
            /\ records'[i].bill # None =>
                 ScopeKey(records'[i].bill, "bill", MainLaundry) \in Owned(c)
      <4>1. c[1] = "receiving" => \A i \in Made(c) : records'[i].made = "grid" =>
              /\ records'[i].number \in PassNumbers => NumberScope(records'[i].number) \in Owned(c)
              /\ records'[i].bill # None =>
                   ScopeKey(records'[i].bill, "bill", MainLaundry) \in Owned(c)
        BY <1>1, <2>2 DEF NumbersReserved
      <4>2. records'[n].made = "grid" => rq.op = "confirm"
        BY <2>4
      <4> QED BY <2>1, <2>8, <4>1, <4>2
    <3> QED BY <1>1, <2>1, <3>1, <3>2 DEF NumbersReserved, NumberScope
  <2>10. \/ nq.pc \in {"insert", "mark"} /\ rq.op = "confirm"
         \/ nq.pc \in {"remember", "syncRead"} /\ rq.op # "confirm"
    BY <1>13 DEF AfterInsert
  <2>11. Surplus(nq) = {} /\ Unlisted(nq) = Unlisted(rq) \cup {n}
    <3>1. Surplus(nq) = {}
      BY <2>3, <2>10 DEF Surplus
    <3>2. Unlisted(nq) = ToSet(nq.made)
      BY <1>8, <2>3, <2>10 DEF Unlisted, Unsynced
    <3> QED BY <1>8, <1>9, <1>10, <2>5, <3>1, <3>2, EmptyToSet
  <2>12. Exact(c, Surplus(nq), Unlisted(nq))'
    <3>1. Exact(c, {}, Unlisted(rq))
      BY <1>1, <1>3, <1>9
    <3> QED BY <2>1, <2>11, <3>1 DEF Exact
  <2>13. UpToDate(nq, c)'
    <3>1. rq.op # "confirm" => ToSet(nq.made) = {n} /\ nq.made[1] = n
      <4>1. rq.op # "confirm" => ToSet(nq.made) = {n}
        BY <1>10, <2>5, EmptyToSet
      <4>2. rq.op # "confirm" => nq.made[1] = n
        BY <1>8, <1>10, <1>13
      <4> QED BY <4>1, <4>2
    <3>2. n \notin ToSet(Day(c).records)
      BY <1>1, <2>1 DEF RecordsListed
    <3>3. rq.op = "confirm" => rq.month = Month(c)
      BY <1>1, <1>3, <1>6 DEF UpToDate, Located
    <3> QED BY <1>8, <1>11, <2>1, <2>3, <2>10, <3>1, <3>2, <3>3
            DEF UpToDate, Located, Editing, Unsynced
  <2>14. Progress(nq, c)'
    <3>1. rq.op = "confirm" /\ nq.pc = "insert" => nq.plan > 0 /\ c[1] = "delivery"
      <4>1. rq.plan \in Int
        BY RequestFields
      <4>2. rq.op = "confirm" /\ nq.pc = "insert" => rq.plan # 1
        BY <1>13 DEF AfterInsert
      <4> QED BY <1>11, <1>13, <4>1, <4>2
    <3> QED BY <1>8, <1>11, <2>1, <2>3, <2>10, <3>1 DEF Progress
  <2>15. AtWork(request[s], c)'
    <3>1. AtWork(nq, c)'
      BY <2>12, <2>13, <2>14 DEF AtWork
    <3> QED BY <1>2, <3>1
  <2> QED BY <1>2, <2>7, <2>9, <2>10, <2>15 DEF BooksAfter
<1> QED BY <1>6, <1>12, <1>13

(* A month that gets its first document shows its days as before.           *)
LEMMA FirstMonth ==
  ASSUME NEW s \in Slots, NEW c \in Cells, AtWorkOn(s, c), c \notin mixed',
         NEW l \in Laundries \cup {None}, InsertMonth(l, c[1]), UNCHANGED <<records, reserved>>
  PROVE  SameBooks(c) /\ Month(c)' = Len(months) + 1
<1>1. MonthTypes /\ c[1] \in Kinds
  BY CellsAssumption DEF AtWorkOn
<1>2. PICK k \in Kinds : k = c[1]
  BY <1>1
<1>3. months' = Append(months, NewMonth(l, k)) /\ Month(c) = 0
  BY <1>2 DEF InsertMonth, Month, CellsOf
<1>4. Owned(c)' = Owned(c) /\ Made(c)' = Made(c)
  BY DEF Owned, Made
<1> QED BY <1>1, <1>2, <1>3, <1>4, DayAppended DEF SameBooks

LEMMA InsertNewMonthKept ==
  ASSUME NEW s \in Slots, NEW c \in Cells, AtWorkOn(s, c), InsertNewMonth(s), c \notin mixed'
  PROVE  BooksAfter(s, c)
<1>1. /\ RequestShape(request[s]) /\ Exact(c, Surplus(request[s]), Unlisted(request[s]))
      /\ request[s].cell = c /\ UpToDate(request[s], c) /\ Progress(request[s], c)
      /\ NumbersReserved(c) /\ RecordsListed(c) /\ SameRecords /\ request[s] \in Requests
  BY WorkerFacts DEF AtWorkOn
<1>2. PICK nq \in Requests : nq = request'[s]
  BY NewRequest
<1>3. PICK rq \in Requests : rq = request[s]
  BY <1>1
<1>4. MonthTypes
  BY DEF AtWorkOn
<1>5. /\ rq.pc = "newMonth" /\ rq.op = "save" /\ SameOwn(s)
      /\ nq.month = Len(months) + 1 /\ nq.seen = rq.seen
      /\ nq.pc = IF Given(rq.refs) = {} THEN "write" ELSE "check"
  BY <1>1, <1>2, <1>3, <1>4, InsertNewMonthFacts
<1>6. nq.op = "save" /\ nq.refs = rq.refs
  BY <1>2, <1>3, <1>5 DEF SameOwn
<1>7. SameBooks(c) /\ Month(c)' = Len(months) + 1
  <2>1. PICK l \in Laundries : l = request[s].laundry
    BY <1>1, RequestFields
  <2>2. InsertMonth(l, c[1]) /\ UNCHANGED <<records, reserved>>
    BY <1>1, <2>1 DEF InsertNewMonth
  <2> QED BY <2>2, FirstMonth
<1>8. Surplus(rq) = {} /\ Unlisted(rq) = {}
  BY <1>5 DEF Surplus, Unlisted, Unsynced
<1>9. Surplus(nq) = {} /\ Unlisted(nq) = {}
  BY <1>5, <1>6 DEF Surplus, Unlisted, Unsynced, NumbersOf
<1>10. NumbersReserved(c)' /\ RecordsListed(c)'
  BY <1>1, <1>7, NumbersReservedKept, RecordsListedKept
<1>11. Exact(c, Surplus(nq), Unlisted(nq))'
  <2>1. \A x, y : Exact(c, x, y) => Exact(c, x, y)'
    BY <1>1, <1>7, ExactKept
  <2> QED BY <1>1, <1>3, <1>8, <1>9, <2>1
<1>12. rq.seen = Day(c) /\ Day(c).status # "CONFIRMED" /\ rq.refs.number \notin Nat
  BY <1>1, <1>3, <1>5 DEF UpToDate, Editing, Progress
<1>13. UpToDate(nq, c)'
  BY <1>5, <1>6, <1>7, <1>12 DEF UpToDate, Editing, Unsynced, SameBooks
<1>14. Progress(nq, c)'
  <2>1. nq.pc = "write" => ScopesOf(nq.refs, Given(nq.refs)) = {}
    BY <1>5, <1>6 DEF ScopesOf
  <2> QED BY <1>5, <1>6, <1>12, <2>1 DEF Progress
<1>15. AtWork(request[s], c)'
  <2>1. AtWork(nq, c)'
    BY <1>11, <1>13, <1>14 DEF AtWork
  <2> QED BY <1>2, <2>1
<1> QED BY <1>2, <1>5, <1>10, <1>15 DEF BooksAfter

LEMMA SyncNewMonthKept ==
  ASSUME NEW s \in Slots, NEW c \in Cells, AtWorkOn(s, c), SyncNewMonth(s), c \notin mixed'
  PROVE  BooksAfter(s, c)
<1>1. /\ RequestShape(request[s]) /\ Exact(c, Surplus(request[s]), Unlisted(request[s]))
      /\ request[s].cell = c /\ UpToDate(request[s], c)
      /\ NumbersReserved(c) /\ RecordsListed(c) /\ SameRecords /\ request[s] \in Requests
  BY WorkerFacts DEF AtWorkOn
<1>2. PICK nq \in Requests : nq = request'[s]
  BY NewRequest
<1>3. PICK rq \in Requests : rq = request[s]
  BY <1>1
<1>4. MonthTypes
  BY DEF AtWorkOn
<1>5. /\ rq.pc = "syncNew" /\ SameOwn(s) /\ SameWork(s)
      /\ nq.month = Len(months) + 1 /\ nq.seen = rq.seen /\ nq.pc = "syncWrite"
  BY <1>2, <1>3, <1>4, SyncNewMonthFacts
<1>6. rq.op \in {"pass", "sheet"} /\ c[1] = "receiving"
  <2>1. rq.op \in {"pass", "sheet"}
    BY <1>1, <1>3, <1>5, RequestFields DEF RequestShape, Awaits, AllOps
  <2> QED BY <1>1, <1>3, <2>1 DEF RequestShape
<1>7. nq.op = rq.op /\ nq.refs = rq.refs /\ nq.made = rq.made
  BY <1>2, <1>3, <1>5 DEF SameOwn, SameWork
<1>8. SameBooks(c) /\ Month(c)' = Len(months) + 1
  <2>1. PICK l \in Laundries \cup {None} : l = None
    OBVIOUS
  <2>2. InsertMonth(l, c[1]) /\ UNCHANGED <<records, reserved>>
    BY <1>6, <2>1 DEF SyncNewMonth
  <2> QED BY <2>2, FirstMonth
<1>9. Surplus(nq) = Surplus(rq) /\ Unlisted(nq) = Unlisted(rq)
  BY <1>5, <1>6, <1>7 DEF Surplus, Unlisted, Unsynced
<1>10. NumbersReserved(c)' /\ RecordsListed(c)'
  BY <1>1, <1>8, NumbersReservedKept, RecordsListedKept
<1>11. Exact(c, Surplus(nq), Unlisted(nq))'
  <2>1. \A x, y : Exact(c, x, y) => Exact(c, x, y)'
    BY <1>1, <1>8, ExactKept
  <2> QED BY <1>1, <1>3, <1>9, <2>1
<1>12. /\ rq.seen = Day(c) /\ ToSet(rq.made) = {rq.made[1]}
       /\ rq.made[1] \notin ToSet(Day(c).records)
  BY <1>1, <1>3, <1>5, <1>6 DEF UpToDate, Unsynced
<1>13. UpToDate(nq, c)'
  BY <1>5, <1>6, <1>7, <1>8, <1>12 DEF UpToDate, Editing, Unsynced, SameBooks
<1>14. Progress(nq, c)'
  BY <1>5, <1>6, <1>7 DEF Progress
<1>15. AtWork(request[s], c)'
  <2>1. AtWork(nq, c)'
    BY <1>11, <1>13, <1>14 DEF AtWork
  <2> QED BY <1>2, <2>1
<1> QED BY <1>2, <1>5, <1>10, <1>15 DEF BooksAfter

LEMMA ContinueKept ==
  ASSUME NEW s \in Slots, NEW c \in Cells, AtWorkOn(s, c), OneLaundry, Continue(s),
         c \notin mixed'
  PROVE  BooksAfter(s, c)
BY InsertNewMonthKept, CheckKept, ReadOwnedKept, ClaimKept, UnclaimKept, WriteKept, ReleaseKept,
   UnsetKept, InsertKept, MarkKept, RememberKept, SyncReadKept, SyncNewMonthKept, SyncWriteKept,
   PropagateKept DEF Continue

LEMMA DaysKept ==
  ASSUME MonthTypes, RequestShapes, OneAtATime, DaysInv, OneLaundry,
         NEW s \in Slots, StepOf(s), StepEffects(s)
  PROVE  DaysInv'
<1> SUFFICES ASSUME NEW c \in Cells, c \notin mixed'
             PROVE  DayInv(c)'
  BY DEF DaysInv, DayInv, AtWork, Clean
<1>1. c \notin mixed /\ DayInv(c)
  BY DaysInvIs DEF Clean, StepEffects, CountsStep
<1>2. CASE ~Works(s, c) /\ ~Works(s, c)'
  BY <1>1, <1>2, ElsewhereKept
<1>3. CASE Start(s) /\ Works(s, c)'
  BY <1>1, <1>3, BeginKept
<1>4. CASE Continue(s) /\ (Works(s, c) \/ Works(s, c)')
  <2>1. Works(s, c)
    BY <1>4, ContinueShape DEF SameOwn, Works, Active
  <2>2. \A t \in Slots : t # s => ~Works(t, c)
    BY <1>1, <2>1 DEF OneAtATime, Clean
  <2>3. AtWorkOn(s, c)
    BY <1>1, <2>1 DEF AtWorkOn, DayInv
  <2>4. BooksAfter(s, c)
    BY <1>4, <2>3, ContinueKept
  <2>5. request'[s].pc # "idle" => request'[s].cell = c
    BY <1>4, <2>1, ContinueShape DEF SameOwn, Works
  <2>6. ~Works(s, c)' => Exact(c, {}, {})'
    BY <2>4, <2>5 DEF BooksAfter, Works, Active
  <2>7. Works(s, c)' => AtWork(request[s], c)'
    BY <2>4 DEF BooksAfter, Works, Active
  <2> QED BY <2>1, <2>2, <2>4, <2>6, <2>7, OwnDay DEF BooksAfter
<1>5. CASE Crash(s) /\ (Works(s, c) \/ Works(s, c)')
  BY <1>5, FinishFacts, IdleFacts DEF Crash, Works, Active
<1>6. Start(s) => ~Works(s, c)
  BY StartBegins DEF Works
<1> QED BY <1>2, <1>3, <1>4, <1>5, <1>6 DEF StepOf

-----------------------------------------------------------------------------
(* The invariant holds. *)

LEMMA StepKept ==
  ASSUME MonthTypes, MonthInv, OneLaundry, NEW s \in Slots, StepOf(s)
  PROVE  MonthTypes' /\ MonthInv'
<1>1. /\ RequestShapes /\ PassNumbersDiffer /\ GeneratedOld /\ PassesHeld /\ OneAtATime /\ DaysInv
  BY DEF MonthInv
<1>2. StepEffects(s)
  BY <1>1, HasEffects
<1>3. MonthTypes' /\ RequestShapes'
  BY <1>1, <1>2, TypesKept, ShapesKept
<1>4. PassNumbersDiffer' /\ GeneratedOld'
  BY <1>1, <1>2, PassNumbersKept, GeneratedOldKept
<1>5. PassesHeld' /\ OneAtATime'
  BY <1>1, <1>2, PassesHeldKept, OneAtATimeKept
<1>6. DaysInv'
  BY <1>1, <1>2, DaysKept
<1> QED BY <1>3, <1>4, <1>5, <1>6 DEF MonthInv

LEMMA UnchangedShapes ==
  RequestShapes /\ UNCHANGED vars => RequestShapes'
BY DEF vars, RequestShapes, RequestShape, Active, KnownOwners, Unsynced, Located

LEMMA UnchangedDays ==
  ASSUME DaysInv, MonthTypes, RequestShapes, UNCHANGED vars
  PROVE  DaysInv'
<1>1. /\ months' = months /\ reserved' = reserved /\ records' = records
      /\ request' = request /\ mixed' = mixed
  BY DEF vars
<1> SUFFICES ASSUME NEW c \in Cells, c \notin mixed'
             PROVE  DayInv(c)'
  BY DEF DaysInv, DayInv, AtWork, Clean
<1>2. DayInv(c)
  BY <1>1, DaysInvIs DEF Clean
<1>3. SameRecords /\ SameBooks(c)
  BY <1>1 DEF SameRecords, SameBooks, Day, Month, Owned, Made, DayIn, AnyMonth
<1>4. NumbersReserved(c)' /\ RecordsListed(c)'
  BY <1>2, <1>3, NumbersReservedKept, RecordsListedKept DEF DayInv
<1>5. \A t \in Slots : Works(t, c)' <=> Works(t, c)
  BY <1>1 DEF Works, Active
<1>6. Exact(c, {}, {}) => Exact(c, {}, {})'
  <2>1. \A x, y : Exact(c, x, y) => Exact(c, x, y)'
    BY <1>2, <1>3, ExactKept DEF DayInv
  <2> QED BY <2>1
<1>7. ASSUME NEW t \in Slots, Works(t, c)
      PROVE  AtWork(request[t], c)'
  <2>1. RequestShape(request[t]) /\ AtWork(request[t], c) /\ request[t] \in Requests
    BY <1>2, <1>7, ShapeOf, RequestIn DEF Works, Active, DayInv
  <2>2. PICK rq \in Requests : rq = request[t]
    BY <2>1
  <2>3. Located(rq) => rq.month = Month(c) /\ Month(c) # 0
    BY <2>1, <2>2, MonthsType DEF RequestShape, AtWork, UpToDate
  <2>4. AtWork(rq, c)'
    BY <1>2, <1>3, <2>1, <2>2, <2>3, AtWorkKept DEF DayInv
  <2> QED BY <1>1, <2>2, <2>4
<1> QED BY <1>2, <1>4, <1>5, <1>6, <1>7 DEF DayInv

LEMMA UnchangedInv ==
  ASSUME MonthTypes, MonthInv, UNCHANGED vars
  PROVE  MonthInv'
<1>1. RequestShapes' /\ DaysInv'
  BY UnchangedShapes, UnchangedDays DEF MonthInv
<1>2. PassNumbersDiffer'
  BY DEF MonthInv, vars, PassNumbersDiffer, IsPass
<1>3. GeneratedOld'
  BY DEF MonthInv, vars, GeneratedOld, Old, Active, CellsOf
<1>4. PassesHeld'
  BY DEF MonthInv, vars, PassesHeld, IsPass, NumberScope, KnownOwners
<1>5. OneAtATime'
  BY DEF MonthInv, vars, OneAtATime, Clean, Works, Active
<1> QED BY <1>1, <1>2, <1>3, <1>4, <1>5 DEF MonthInv

LEMMA InitShapes == Init => RequestShapes
BY IdleFacts DEF Init, RequestShapes, Active

LEMMA InitInv == Init => MonthInv
<1> SUFFICES ASSUME Init PROVE MonthInv
  OBVIOUS
<1>1. /\ months = <<>> /\ records = <<>> /\ reserved = {} /\ mixed = {}
      /\ \A s \in Slots : request[s] = IdleRequest
      /\ DOMAIN months = {} /\ DOMAIN records = {}
  BY DEF Init
<1>2. RequestShapes
  BY InitShapes
<1>3. PassNumbersDiffer
  BY <1>1 DEF PassNumbersDiffer
<1>4. GeneratedOld
  BY <1>1, IdleFacts DEF GeneratedOld, Active
<1>5. PassesHeld
  BY <1>1, IdleFacts DEF PassesHeld
<1>6. \A s \in Slots, c \in Cells : ~Works(s, c)
  BY <1>1, IdleFacts DEF Works, Active
<1>7. OneAtATime
  BY <1>1, <1>6 DEF OneAtATime
<1>8. DaysInv
  <2> SUFFICES ASSUME NEW c \in Cells
               PROVE  NumbersReserved(c) /\ RecordsListed(c) /\ Exact(c, {}, {})
    BY <1>6 DEF DaysInv
  <2>1. Month(c) = 0
    BY <1>1, InitTypes, AnyMonthFacts DEF Month
  <2>2. Day(c) = EmptyDay
    BY <2>1 DEF Day, DayIn
  <2>3. Made(c) = {} /\ Owned(c) = {} /\ Values(Owned(c)) = {}
    BY <1>1 DEF Made, Owned, OwnedScopes, Values
  <2>4. ToSet(Day(c).records) = {} /\ ~ByHand(Day(c)) /\ Day(c).number = None /\ Day(c).bill = None
    BY <2>2, EmptyDayType, EmptyToSet DEF ByHand
  <2>5. Given(RefsOf(Day(c))) = {} /\ NumbersOf(RefsOf(Day(c))) = {}
        /\ ScopesOf(RefsOf(Day(c)), Given(RefsOf(Day(c)))) = {}
    BY <2>4 DEF Given, RefsOf, NumbersOf, ScopesOf, Fields
  <2> QED BY <2>2, <2>3, <2>4, <2>5, EmptyDayType, NumbersDiffer
          DEF NumbersReserved, RecordsListed, Exact
<1> QED BY <1>2, <1>3, <1>4, <1>5, <1>7, <1>8 DEF MonthInv

LEMMA TypesImply == MonthTypes => TypeOK
<1> SUFFICES ASSUME MonthTypes PROVE TypeOK
  OBVIOUS
<1>1. \A i \in DOMAIN months : MonthOK(months[i])
  BY MonthsType DEF MonthOK
<1>2. \A i \in DOMAIN records : RecordOK(records[i])
  BY RecordsType DEF RecordOK
<1>3. \A r \in reserved : r.value \in BillNumbers \cup PassNumbers \cup Nat /\ r.field \in Fields
  BY ReservedFields
<1>4. ASSUME NEW s \in Slots
      PROVE  /\ DOMAIN request[s] = DOMAIN IdleRequest
             /\ request[s].pc \in PCs /\ request[s].op \in AllOps
             /\ request[s].month \in 0 .. Len(months)
             /\ request[s].seen \in DayStates /\ request[s].left \subseteq Fields
  <2>1. request[s] \in Requests /\ request[s].month \in 0 .. Len(months)
    BY RequestIn
  <2>2. \A rq \in Requests :
          DOMAIN rq = {"pc", "op", "laundry", "cell", "owner", "month", "seen", "entered",
                       "refs", "left", "owned", "plan", "made", "key"}
    BY DEF Requests
  <2>3. DOMAIN request[s] = DOMAIN IdleRequest
    BY <2>1, <2>2, IdleFacts
  <2> QED BY <2>1, <2>3, RequestFields
<1> QED BY <1>1, <1>2, <1>3, <1>4 DEF TypeOK, MonthTypes

(* The documents of the grid, the registry, the records and the requests    *)
(* always have the types the module declares, with any number of laundries. *)
THEOREM TypeCorrect == Spec => []TypeOK
<1>1. Init => MonthTypes /\ RequestShapes
  BY InitTypes, InitShapes
<1>2. MonthTypes /\ RequestShapes /\ [Next]_vars => (MonthTypes /\ RequestShapes)'
  <2>1. MonthTypes /\ RequestShapes /\ UNCHANGED vars => (MonthTypes /\ RequestShapes)'
    BY UnchangedTypes, UnchangedShapes
  <2>2. MonthTypes /\ RequestShapes /\ Next => (MonthTypes /\ RequestShapes)'
    BY HasEffects, TypesKept, ShapesKept DEF Next, StepOf
  <2> QED BY <2>1, <2>2
<1>3. MonthTypes => TypeOK
  BY TypesImply
<1> QED BY <1>1, <1>2, <1>3, PTL DEF Spec

LEMMA NextKept ==
  ASSUME OneLaundry
  PROVE  (MonthTypes /\ MonthInv) /\ [Next]_vars => (MonthTypes /\ MonthInv)'
<1>1. MonthTypes /\ MonthInv /\ UNCHANGED vars => (MonthTypes /\ MonthInv)'
  BY UnchangedTypes, UnchangedInv
<1>2. MonthTypes /\ MonthInv /\ Next => (MonthTypes /\ MonthInv)'
  BY StepKept DEF Next, StepOf
<1> QED BY <1>1, <1>2

(* The inductive invariant: what the requests at work on the days of one    *)
(* laundry hold in the registry, know of their day and have made for it.    *)
THEOREM MonthInvHolds ==
  ASSUME Laundries = {MainLaundry}
  PROVE  Spec => [](MonthTypes /\ MonthInv)
<1>1. Init => MonthTypes /\ MonthInv
  BY InitTypes, InitInv
<1>2. (MonthTypes /\ MonthInv) /\ [Next]_vars => (MonthTypes /\ MonthInv)'
  BY NextKept DEF OneLaundry
<1> QED BY <1>1, <1>2, PTL DEF Spec

LEMMA QuietFacts ==
  ASSUME MonthTypes, MonthInv, OneLaundry, NEW c \in Cells, Quiet(c)
  PROVE  Shown(c) = Day(c) /\ NumbersReserved(c) /\ RecordsListed(c) /\ Exact(c, {}, {})
<1>1. DayInv(c) /\ ~ \E s \in Slots : Works(s, c)
  BY DaysInvIs DEF MonthInv, Quiet, Works
<1> QED BY <1>1, ShownIsDay DEF DayInv

LEMMA OwnedValues ==
  ASSUME MonthTypes, NEW c
  PROVE  {r.value : r \in {q \in reserved : q.owner = c}} = Values(Owned(c))
<1>1. \A r \in reserved : r.scope[1] = r.value
  BY ReservedFields
<1> QED BY <1>1 DEF Values, Owned, OwnedScopes

(* A day at rest holds the reservations of exactly the numbers it shows:    *)
(* what a refused save has claimed on the way is given back, what a saved   *)
(* or cancelled day no longer shows is released (manual_references.py:241). *)
THEOREM ReservedWhatIsShown ==
  ASSUME Laundries = {MainLaundry}
  PROVE  Spec => []ReservedIsShown
<1>1. MonthTypes /\ MonthInv => ReservedIsShown
  <2> SUFFICES ASSUME MonthTypes, MonthInv, NEW c \in Cells, Quiet(c), ~ByHand(Shown(c))
               PROVE  {r.value : r \in {q \in reserved : q.owner = c}}
                        = NumbersOf(RefsOf(Shown(c)))
    BY DEF ReservedIsShown
  <2>1. Shown(c) = Day(c) /\ Exact(c, {}, {})
    BY QuietFacts DEF OneLaundry
  <2> QED BY <2>1, OwnedValues DEF Exact
<1> QED BY <1>1, MonthInvHolds, PTL

(* The records of a day at rest are the ones it lists: a confirmed day      *)
(* lists all that were made for it, a draft has none, and a day is turned   *)
(* into one pass or rewash at most (monthly.py:12).                         *)
THEOREM RecordsAreListed ==
  ASSUME Laundries = {MainLaundry}
  PROVE  Spec => []RecordsAreShown
<1>1. MonthTypes /\ MonthInv => RecordsAreShown
  <2> SUFFICES ASSUME MonthTypes, MonthInv, NEW c \in Cells, Quiet(c)
               PROVE  /\ ToSet(Shown(c).records) = Made(c)
                      /\ Shown(c).status # "CONFIRMED" => Made(c) = {}
                      /\ c[1] # "delivery" =>
                           Cardinality({i \in Made(c) : records[i].made = "grid"}) <= 1
    BY DEF RecordsAreShown, Made
  <2>1. Shown(c) = Day(c) /\ RecordsListed(c) /\ Exact(c, {}, {})
    BY QuietFacts DEF OneLaundry
  <2>2. ToSet(Day(c).records) = Made(c)
    BY <2>1 DEF Exact
  <2>3. Day(c).status # "CONFIRMED" => Made(c) = {}
    BY <2>1, <2>2, DraftNotByHand, EmptyToSet
  <2>4. ASSUME c[1] # "delivery"
        PROVE  Cardinality({i \in Made(c) : records[i].made = "grid"}) <= 1
    <3>1. PICK G : G = {i \in Made(c) : records[i].made = "grid"}
      OBVIOUS
    <3>2. \A i, j \in G : i = j
      BY <2>1, <2>4, <3>1 DEF RecordsListed
    <3>3. G = {} => Cardinality(G) = 0
      BY FS_EmptySet
    <3>4. ASSUME NEW i \in G PROVE Cardinality(G) = 1
      <4>1. G = {i}
        BY <3>2
      <4>2. Cardinality({i}) = 1
        BY FS_Singleton
      <4> QED BY <4>1, <4>2, Zenon
    <3>5. Cardinality(G) <= 1
      BY <3>3, <3>4
    <3> QED BY <3>1, <3>5, Zenon
  <2> QED BY <2>1, <2>2, <2>3, <2>4
<1> QED BY <1>1, MonthInvHolds, PTL

(* A scope has one owner. *)
LEMMA OneOwner ==
  ASSUME MonthTypes, NEW c, NEW d, NEW sc, sc \in Owned(c), sc \in Owned(d)
  PROVE  c = d
BY DEF MonthTypes, Owned, OwnedScopes

(* A number typed for a pass made by hand is reserved by no day.            *)
LEMMA HandNumberNotOwned ==
  ASSUME MonthTypes, MonthInv, NEW c \in Cells, NEW j \in DOMAIN records, IsPass(j),
         records[j].made = "hand", records[j].number \in PassNumbers
  PROVE  NumberScope(records[j].number) \notin Owned(c)
<1>1. PICK r \in reserved : r.scope = NumberScope(records[j].number) /\ r.owner \in KnownOwners
  BY DEF MonthInv, PassesHeld
<1>2. r.owner # c
  BY <1>1, CellsAreNotPasses, KnownAreOwners
<1>3. NumberScope(records[j].number) \in Owned(r.owner)
  BY <1>1 DEF Owned, OwnedScopes
<1> QED BY <1>2, <1>3, OneOwner

(* Two days never hold the same number, each by its registry entry or by a  *)
(* pass made by hand.                                                       *)
Holds(c, x) ==
  \/ x \in PassNumbers /\ NumberScope(x) \in Owned(c)
  \/ \E i \in Made(c) : records[i].made = "hand" /\ records[i].number = x

LEMMA HoldersDiffer ==
  ASSUME MonthTypes, MonthInv, NEW c \in Cells, NEW d \in Cells, NEW x, Holds(c, x), Holds(d, x)
  PROVE  c = d
<1>1. \A e \in Cells : \A i \in Made(e) : records[i].made = "hand" =>
        i \in DOMAIN records /\ IsPass(i) /\ records[i].cell = e
  BY DEF MonthInv, PassNumbersDiffer, Made
<1>2. \A e \in Cells, i \in DOMAIN records :
        IsPass(i) /\ records[i].made = "hand" /\ records[i].number \in PassNumbers =>
          NumberScope(records[i].number) \notin Owned(e)
  BY HandNumberNotOwned
<1>3. CASE /\ x \in PassNumbers /\ NumberScope(x) \in Owned(c) /\ NumberScope(x) \in Owned(d)
  BY <1>3, OneOwner
<1>4. CASE /\ \E i \in Made(c) : records[i].made = "hand" /\ records[i].number = x
           /\ \E i \in Made(d) : records[i].made = "hand" /\ records[i].number = x
  BY <1>1, <1>4 DEF MonthInv, PassNumbersDiffer
<1> QED BY <1>1, <1>2, <1>3, <1>4 DEF Holds

LEMMA BearersHold ==
  ASSUME MonthTypes, MonthInv, NEW d \in Cells, NumbersReserved(d), NEW j \in Made(d), IsPass(j),
         records[j].number \in PassNumbers \/ records[j].made = "hand"
  PROVE  Holds(d, records[j].number)
<1>1. d[1] = "receiving" /\ records[j].made \in {"grid", "hand"}
  BY RecordsType DEF Made, IsPass
<1> QED BY <1>1 DEF Holds, NumbersReserved

(* What a day at rest shows, no other day shows in the same field, and no   *)
(* other gate pass bears; days are saved without seeing one another, passes *)
(* made by hand are written back into the grid, and the registry and the    *)
(* unique index each guard a part of it (monthly.py:648).                   *)
THEOREM NumbersAreUsedOnce ==
  ASSUME Laundries = {MainLaundry}
  PROVE  Spec => []NumbersUsedOnce
<1>1. MonthTypes /\ MonthInv => NumbersUsedOnce
  <2> SUFFICES ASSUME MonthTypes, MonthInv, NEW c \in Cells, NEW d \in Cells,
                      Quiet(c), Clean(d), c # d, NEW f \in Given(RefsOf(Shown(c))),
                      f = "number" \/ ~(ByHand(Shown(c)) \/ ByHand(Shown(d)))
               PROVE  /\ RefsOf(Shown(c))[f] # RefsOf(Shown(d))[f]
                      /\ ~ \E p \in Passes : /\ p.cell = d /\ (f = "number" \/ p.made = "grid")
                                             /\ RefsOf(p)[f] = RefsOf(Shown(c))[f]
    BY DEF NumbersUsedOnce
  <2>1. /\ Shown(c) = Day(c) /\ Shown(d) = Day(d) /\ Day(c) \in DayStates /\ Day(d) \in DayStates
        /\ NumbersReserved(c) /\ NumbersReserved(d)
    BY ShownIsDay, DayType, DaysInvIs DEF OneLaundry, MonthInv, Quiet, DayInv
  <2>2. /\ RefsOf(Day(c)) \in ShownNumbers /\ RefsOf(Day(d)) \in ShownNumbers
        /\ RefsOf(Day(c)).bill = Day(c).bill /\ RefsOf(Day(c)).number = Day(c).number
        /\ RefsOf(Day(d)).bill = Day(d).bill /\ RefsOf(Day(d)).number = Day(d).number
    BY <2>1, RefsOfType
  <2>3. /\ f \in {"bill", "number"}
        /\ RefsOf(Day(c))["bill"] = Day(c).bill /\ RefsOf(Day(c))["number"] = Day(c).number
        /\ RefsOf(Day(d))["bill"] = Day(d).bill /\ RefsOf(Day(d))["number"] = Day(d).number
        /\ (f = "bill" => Day(c).bill # None) /\ (f = "number" => Day(c).number # None)
    BY <2>1, <2>2, RefsFields
  <2>4. \A p \in Passes : /\ RefsOf(p)["bill"] = p.bill /\ RefsOf(p)["number"] = p.number
                          /\ \E j \in DOMAIN records : p = records[j] /\ IsPass(j)
    BY DEF Passes, RefsOf, IsPass
  <2>5. CASE f = "number"
    <3>1. \A e \in {c, d} : Day(e).number # None => Holds(e, Day(e).number)
      BY <2>1 DEF NumbersReserved, Holds
    <3>2. Holds(c, Day(c).number)
      BY <2>3, <2>5, <3>1
    <3>3. Day(c).number # Day(d).number
      BY <2>3, <2>5, <3>1, HoldersDiffer
    <3>4. ASSUME NEW p \in Passes, p.cell = d, p.number = Day(c).number
          PROVE  FALSE
      <4>1. PICK j \in DOMAIN records : p = records[j] /\ IsPass(j)
        BY <2>4
      <4>2. j \in Made(d) /\ records[j].number = Day(c).number
        BY <3>4, <4>1 DEF Made
      <4>3. ~Holds(d, Day(c).number)
        BY <3>2, HoldersDiffer
      <4>4. records[j].number \notin PassNumbers
        BY <2>1, <4>1, <4>2, <4>3, BearersHold
      <4>5. PICK i \in Made(c) : records[i].made = "hand" /\ records[i].number = Day(c).number
        BY <3>2, <4>2, <4>4 DEF Holds
      <4>6. i \in DOMAIN records /\ IsPass(i) /\ records[i].cell = c
        BY <4>5 DEF MonthInv, PassNumbersDiffer, Made
      <4>7. i = j
        BY <4>1, <4>2, <4>5, <4>6 DEF MonthInv, PassNumbersDiffer
      <4> QED BY <3>4, <4>1, <4>6, <4>7
    <3> QED BY <2>1, <2>3, <2>4, <2>5, <3>3, <3>4
  <2>6. CASE f = "bill"
    <3> DEFINE sc == ScopeKey(Day(c).bill, "bill", MainLaundry)
    <3>1. ~ByHand(Day(c)) /\ ~ByHand(Day(d))
      BY <2>1, <2>6
    <3>2. sc \in Owned(c)
      <4>1. "bill" \in Given(RefsOf(Day(c)))
        BY <2>1, <2>6
      <4> QED BY <2>1, <2>3, <3>1, <4>1 DEF NumbersReserved, ScopesOf
    <3>3. sc \notin Owned(d)
      BY <3>2, OneOwner
    <3>4. Day(c).bill # Day(d).bill
      <4>1. Day(d).bill # None => "bill" \in Given(RefsOf(Day(d)))
        BY <2>2, RefsFields
      <4>2. Day(d).bill # None => ScopeKey(Day(d).bill, "bill", MainLaundry) \in Owned(d)
        BY <2>1, <2>3, <3>1, <4>1 DEF NumbersReserved, ScopesOf
      <4> QED BY <2>3, <2>6, <3>3, <4>2
    <3>5. ASSUME NEW p \in Passes, p.cell = d, p.made = "grid", p.bill = Day(c).bill
          PROVE  FALSE
      <4>1. PICK j \in DOMAIN records : p = records[j] /\ IsPass(j)
        BY <2>4
      <4>2. j \in Made(d) /\ d[1] = "receiving"
        BY <3>5, <4>1 DEF Made, IsPass
      <4> QED BY <2>1, <2>3, <2>6, <3>3, <3>5, <4>1, <4>2 DEF NumbersReserved
    <3> QED BY <2>1, <2>3, <2>4, <2>6, <3>4, <3>5
  <2> QED BY <2>3, <2>5, <2>6
<1> QED BY <1>1, MonthInvHolds, PTL

LEMMA PrefixFacts ==
  ASSUME NEW seq \in Seq(Nat), NEW x \in Nat
  PROVE  IsPrefix(seq, seq) /\ IsPrefix(seq, Append(seq, x))
BY DEF IsPrefix

(* A step of a request on a confirmed day leaves it so, and adds one pass   *)
(* to what it lists at most.                                                *)
LEMMA ConfirmedStays ==
  ASSUME NEW s \in Slots, NEW c \in Cells, AtWorkOn(s, c), Continue(s),
         Day(c).status = "CONFIRMED"
  PROVE  /\ Day(c)'.status = "CONFIRMED"
         /\ \/ Day(c)'.records = Day(c).records
            \/ \E x \in Nat : Day(c)'.records = Append(Day(c).records, x)
<1>1. /\ RequestShape(request[s]) /\ request[s].cell = c /\ UpToDate(request[s], c)
      /\ request[s] \in Requests /\ Day(c) \in DayStates
      /\ MonthTypes /\ RequestShapes /\ StepEffects(s)
  BY WorkerFacts DEF AtWorkOn
<1>2. CASE months' = months
  BY <1>1, <1>2, MonthsElsewhere DEF StepEffects
<1>3. CASE InsertNewMonth(s) \/ SyncNewMonth(s)
  <2>1. request[s].pc \in {"newMonth", "syncNew"}
    BY <1>3 DEF InsertNewMonth, SyncNewMonth
  <2> QED BY <1>1, <2>1, MonthsElsewhere DEF StepEffects
<1>4. CASE WriteDay(s) \/ Unset(s) \/ MarkConfirmed(s)
  <2>1. request[s].pc \in {"write", "unset", "mark"}
    BY <1>4 DEF WriteDay, Unset, MarkConfirmed
  <2>2. Editing(request[s])
    BY <1>1, <2>1, RequestFields DEF RequestShape, Awaits, AllOps, Editing
  <2> QED BY <1>1, <2>2 DEF UpToDate
<1>5. CASE SyncWrite(s)
  <2>1. request[s].pc = "syncWrite" /\ request[s].op \in {"pass", "sheet"}
    BY <1>1, <1>5, RequestFields DEF SyncWrite, RequestShape, Awaits, AllOps
  <2>2. PICK id \in Nat : /\ id = request[s].made[1]
                          /\ records[id].bill \in BillNumbers \cup {None}
                          /\ records[id].number \in PassNumbers \cup Nat
    BY <2>1, PassOfRequest DEF Unsynced
  <2>3. request[s].seen = Day(c)
    BY <1>1, <2>1 DEF UpToDate
  <2>4. PICK d \in DayStates, p \in {records[id]} : d = Day(c) /\ p = records[id]
    BY <1>1
  <2>5. /\ Synced(d, p, id) \in DayStates /\ Synced(d, p, id).status = "CONFIRMED"
        /\ Synced(d, p, id).records = Append(d.records, id)
    <3>1. p.bill \in BillNumbers \cup {None} /\ p.number \in PassNumbers \cup Nat
      BY <2>2, <2>4
    <3>2. Synced(d, p, id) \in DayStates
      BY <3>1, SyncedType
    <3> QED BY <3>2 DEF Synced
  <2>6. PICK day \in DayStates : day = Synced(Day(c), records[id], id)
    BY <2>4, <2>5
  <2>7. SetDay(request[s].month, request[s].cell, day)
    BY <1>5, <2>2, <2>3, <2>6 DEF SyncWrite
  <2>8. Day(c)' = day
    BY <2>1, <2>7, WorkerWrites
  <2> QED BY <2>4, <2>5, <2>6, <2>8
<1>6. CASE Propagate(s)
  <2>1. request[s].pc = "propagate" /\ request[s].op = "edit"
    BY <1>1, <1>6, RequestFields DEF Propagate, RequestShape, Awaits, AllOps
  <2>2. PICK id \in Nat : /\ id = request[s].made[1]
                          /\ records[id].bill \in BillNumbers \cup {None}
                          /\ records[id].number \in PassNumbers \cup Nat
    BY <2>1, PassOfRequest
  <2>3. DayIn(request[s].month, request[s].cell) = Day(c)
    BY <1>1, <2>1 DEF UpToDate, Located, Day
  <2>4. PICK day \in DayStates :
          /\ day = [Day(c) EXCEPT !.number = records[id].number,
                      !.bill = Or(records[id].bill, Day(c).bill),
                      !.status = IF Day(c).status = "EMPTY" THEN "DRAFT" ELSE Day(c).status]
          /\ day.records = Day(c).records
          /\ (Day(c).status = "CONFIRMED" => day.status = "CONFIRMED")
    BY <1>1, <2>2, PropagatedType
  <2>5. SetDay(request[s].month, request[s].cell, day)
    BY <1>6, <2>2, <2>3, <2>4 DEF Propagate
  <2>6. Day(c)' = day
    BY <2>1, <2>5, WorkerWrites
  <2> QED BY <2>4, <2>6
<1>7. CheckNumber(s) \/ ReadOwned(s) \/ Claim(s) \/ Unclaim(s) \/ Release(s) \/ InsertRecord(s)
        \/ Remember(s) \/ SyncRead(s) => months' = months
  BY DEF CheckNumber, ReadOwned, Claim, Unclaim, Release, InsertRecord, Remember, SyncRead
<1> QED BY <1>2, <1>3, <1>4, <1>5, <1>6, <1>7 DEF Continue

ShownAsDay == \A c \in Cells : Shown(c) = Day(c)

LEMMA ShownNext ==
  ASSUME OneLaundry
  PROVE  MonthTypes' => ShownAsDay'
<1>1. MonthTypes => ShownAsDay
  BY ShownIsDay DEF ShownAsDay
<1> QED BY <1>1, PTL

LEMMA ConfirmedStep ==
  ASSUME MonthTypes, MonthInv, OneLaundry, NEW s \in Slots, StepOf(s), NEW c \in Cells,
         c \notin mixed', Shown(c).status = "CONFIRMED"
  PROVE  Shown(c)'.status = "CONFIRMED" /\ IsPrefix(Shown(c).records, Shown(c)'.records)
<1>1. StepEffects(s) /\ RequestShapes /\ MonthTypes'
  BY HasEffects, StepKept DEF MonthInv
<1>2. Shown(c) = Day(c) /\ Day(c) \in DayStates /\ Day(c).records \in Seq(Nat)
  BY ShownIsDay, DayType, DayFields
<1>3. Shown(c)' = Day(c)'
  BY <1>1, ShownNext DEF ShownAsDay
<1>4. /\ Day(c)'.status = "CONFIRMED"
      /\ \/ Day(c)'.records = Day(c).records
         \/ \E x \in Nat : Day(c)'.records = Append(Day(c).records, x)
  <2>1. CASE ~Works(s, c)
    <3>1. Day(c)' = Day(c)
      BY <1>1, <2>1, BooksElsewhere DEF SameBooks
    <3> QED BY <1>2, <3>1
  <2>2. CASE Works(s, c)
    <3>1. ~Start(s) /\ ~Crash(s)
      BY <2>2, StartBegins DEF Works, Crash
    <3>2. DayInv(c)
      BY <1>1, DaysInvIs DEF MonthInv, Clean, StepEffects, CountsStep
    <3>3. AtWorkOn(s, c)
      BY <1>1, <2>2, <3>2 DEF AtWorkOn, DayInv
    <3> QED BY <1>2, <3>1, <3>3, ConfirmedStays DEF StepOf
  <2> QED BY <2>1, <2>2
<1>5. IsPrefix(Day(c).records, Day(c)'.records)
  BY <1>2, <1>4, PrefixFacts
<1> QED BY <1>2, <1>3, <1>4, <1>5

(* A confirmed day stays confirmed, and goes on listing its records; passes *)
(* made by hand may join, and edits of them rewrite its numbers, while      *)
(* saves, cancellations and confirmations begun before find it changed      *)
(* (monthly.py:12).                                                         *)
THEOREM ConfirmedStaysConfirmed ==
  ASSUME Laundries = {MainLaundry}
  PROVE  Spec => ConfirmedForGood
<1>1. (MonthTypes /\ MonthInv) /\ [Next]_vars =>
        [\A c \in Cells :
           Shown(c).status = "CONFIRMED" /\ c \notin mixed' =>
             /\ Shown(c)'.status = "CONFIRMED"
             /\ IsPrefix(Shown(c).records, Shown(c)'.records)]_vars
  BY ConfirmedStep DEF OneLaundry, Next, StepOf
<1> QED BY <1>1, MonthInvHolds, PTL DEF Spec, ConfirmedForGood
================================================================================
