------------------------------ MODULE MonthlyDays ------------------------------
(***************************************************************************)
(* The monthly grid of one hotel and one month: days are entered as        *)
(* DRAFT, and confirming one creates its records, a gate pass, deliveries  *)
(* or a rewash, before it marks the day CONFIRMED.  Gate passes created by *)
(* hand, or from the sheet of the day, are written back into the grid.     *)
(* The numbers people enter are reserved in the registry while the day is  *)
(* a document of its own, and no transaction spans the two.                *)
(*                                                                         *)
(* Every await is a point where other requests take steps.  The checks of  *)
(* one number, several reads in the code, are one step.  Quantities are    *)
(* abstracted to whether there are any.  A generated number is claimed by  *)
(* a unique insert before it is used: it is the index of its record.       *)
(***************************************************************************)
EXTENDS ManualReferences, Naturals, Sequences, FiniteSets, SequencesExt

CONSTANTS Cells,       \* the days in use: <<kind of grid, date>>
          MainLaundry, \* the tenant to whom unstamped documents belong
          Keep,        \* a field the client leaves out
          Payloads,    \* what clients enter into a day
          PassRefs,    \* the numbers on gate passes made by hand
          Keys,        \* idempotency keys the clients use; None: without one
          Slots,       \* requests in flight at the same time
          Ops,         \* what happens in this deployment
          MaxRequests  \* bound: requests of a behaviour

AllOps == {"save", "confirm", "cancel", "pass", "sheet", "edit", "crash"}

Kinds == {"receiving", "delivery", "rewash"}

(* What a client sends of a day: whether there are quantities, and of each *)
(* number a new one, none, or nothing at all.                              *)
Payload == [entered: BOOLEAN, bill: BillNumbers \cup {None, Keep},
            number: PassNumbers \cup {None, Keep}]

ASSUME LaundriesAssumption == MainLaundry \in Laundries /\ None \notin Laundries
ASSUME NumbersAssumption   == {None, Keep} \cap (BillNumbers \cup PassNumbers) = {}
(* Typed and generated numbers are kept apart: a typed number that has been  *)
(* generated is refused, and the generator skips numbers that were typed     *)
(* (gate_pass_records.py:94).                                                *)
ASSUME GeneratedAssumption == (BillNumbers \cup PassNumbers \cup {None, Keep}) \cap Nat = {}
ASSUME CellsAssumption     == IsFiniteSet(Cells) /\ \A c \in Cells : c[1] \in Kinds
ASSUME PayloadsAssumption  == /\ Payloads \subseteq Payload
                              /\ PassRefs \subseteq References
                              /\ \A r \in PassRefs : r.number # None
ASSUME SlotsAssumption     == IsFiniteSet(Slots)
ASSUME OpsAssumption       == Ops \subseteq AllOps
ASSUME BoundsAssumption    == MaxRequests \in Nat

VARIABLES months,   \* the documents of monthly_entries, oldest first
          reserved, \* the registry of manual references
          records,  \* the gate passes, deliveries and rewashes, oldest first
          keyed,    \* the idempotency keys remembered
          request,  \* slot -> where its request stands, and what it has read
          started,  \* requests so far, for the bound; also tells owners apart
          mixed     \* history: cells two requests edited at once, one died in,
                    \* or whose month has two documents

vars == <<months, reserved, records, keyed, request, started, mixed>>

-----------------------------------------------------------------------------
(* A synchronised day may show a generated number. *)
DayStates == [status: {"EMPTY", "DRAFT", "CONFIRMED"}, entered: BOOLEAN,
              bill: BillNumbers \cup {None}, number: PassNumbers \cup {None} \cup Nat,
              records: Seq(Nat)]

EmptyDay == [status |-> "EMPTY", entered |-> FALSE, bill |-> None, number |-> None,
             records |-> <<>>]

CellsOf(kind) == {c \in Cells : c[1] = kind}

NewMonth(laundry, kind) ==
  [laundry |-> laundry, kind |-> kind, days |-> [c \in CellsOf(kind) |-> EmptyDay]]

MonthOK(m) == /\ m.laundry \in Laundries \cup {None} /\ m.kind \in Kinds
              /\ m.days \in [CellsOf(m.kind) -> DayStates]

(* `made` says who made a gate pass: "grid" or "hand".                     *)
RecordOK(r) == /\ r.laundry \in Laundries /\ r.cell \in Cells /\ r.made \in {"grid", "hand"}
               /\ r.number \in PassNumbers \cup Nat /\ r.bill \in BillNumbers \cup {None}

PCs == {"idle", "newMonth", "check", "readOwned", "claim", "unclaim", "write", "release",
        "insert", "mark", "remember", "unset", "syncRead", "syncNew", "syncWrite",
        "propagate"}

IdleRequest ==
  [pc |-> "idle", op |-> "save", laundry |-> MainLaundry, cell |-> None,
   owner |-> <<>>, month |-> 0, seen |-> EmptyDay, entered |-> FALSE, refs |-> NoReferences,
   left |-> {}, owned |-> {}, plan |-> 0, made |-> <<>>, key |-> None]

Active(s) == request[s].pc # "idle"

TypeOK ==
  /\ \A i \in DOMAIN months : MonthOK(months[i])
  /\ \A i \in DOMAIN records : RecordOK(records[i])
  /\ \A r \in reserved : r.value \in BillNumbers \cup PassNumbers \cup Nat /\ r.field \in Fields
  /\ \A r, q \in reserved : r.scope = q.scope => r = q
  /\ \A s \in Slots : /\ DOMAIN request[s] = DOMAIN IdleRequest
                      /\ request[s].pc \in PCs /\ request[s].op \in AllOps
                      /\ request[s].month \in 0..Len(months)
                      /\ request[s].seen \in DayStates /\ request[s].left \subseteq Fields
  /\ started \in 0..MaxRequests
  /\ mixed \subseteq Cells

Init ==
  /\ months = <<>> /\ records = <<>>
  /\ reserved = {} /\ keyed = {}
  /\ request = [s \in Slots |-> IdleRequest]
  /\ started = 0 /\ mixed = {}

-----------------------------------------------------------------------------
(* Reading the grid. *)

(* laundry_match: documents without a laundry are the main laundry's. *)
Sees(laundry, m) == m.laundry = laundry \/ (laundry = MainLaundry /\ m.laundry = None)

First(S) == IF S = {} THEN 0 ELSE Min(S)

(* _find_month_doc: the oldest document of the laundry. *)
MonthOf(laundry, kind) ==
  First({i \in DOMAIN months : months[i].kind = kind /\ Sees(laundry, months[i])})

(* monthly_sync looks for the month without a laundry. *)
AnyMonth(kind) == First({i \in DOMAIN months : months[i].kind = kind})

DayIn(i, cell) == IF i = 0 THEN EmptyDay ELSE months[i].days[cell]

Passes == {records[i] : i \in {j \in DOMAIN records : records[j].cell[1] = "receiving"}}

(* Unique index on gate_pass_number. *)
NumberTaken(number) == \E p \in Passes : p.number = number

SetDay(i, cell, day) == months' = [months EXCEPT ![i].days[cell] = day]

(* Registration of the month; the index cannot see that there is one, since *)
(* client_name is stored encrypted, differently each time.                  *)
InsertMonth(laundry, kind) ==
  /\ months' = Append(months, NewMonth(laundry, kind))
  /\ mixed' = IF AnyMonth(kind) = 0 THEN mixed ELSE mixed \cup CellsOf(kind)

-----------------------------------------------------------------------------
(* Requests. *)

(* A request begins: it overlaps with the others on its cell. *)
Begin(s, rq) ==
  /\ request' = [request EXCEPT ![s] = rq]
  /\ started' = started + 1
  /\ mixed' = mixed \cup {c \in {rq.cell} : \E t \in Slots : Active(t) /\ request[t].cell = c}
  /\ UNCHANGED <<months, reserved, records, keyed>>

Goto(s, pc) == request' = [request EXCEPT ![s].pc = pc]

Finish(s) == request' = [request EXCEPT ![s] = IdleRequest]

Fresh(op, laundry, cell) ==
  [IdleRequest EXCEPT !.op = op, !.laundry = laundry, !.cell = cell, !.owner = cell]

(* Where a request goes when its numbers are its own. *)
AfterClaim(rq) == IF rq.op = "save" THEN "write" ELSE "insert"

(* reserve_references: nothing given, nothing to reserve. *)
BeginReserve(rq, fields) ==
  [rq EXCEPT !.left = fields, !.pc = IF fields = {} THEN AfterClaim(rq) ELSE "check"]

(* The fields are taken in the order of REFERENCE_FIELDS. *)
NextField(left) == IF "bill" \in left THEN "bill" ELSE "number"

(* The numbers a request reserves: a pass its own number, never its bill's. *)
Reserves(rq) == IF rq.op = "save" THEN Given(rq.refs) ELSE {"number"}

(* One number is looked up in the registry and in the documents. *)
CheckNumber(s) ==
  LET rq == request[s]
      f  == NextField(rq.left)
      used == \/ ConflictingReservations(reserved, rq.refs[f], f, rq.laundry, rq.owner) # {}
              \/ ExistingDocument(Passes, rq.refs[f], f, rq.laundry)
  IN  /\ rq.pc = "check"
      /\ IF used THEN Finish(s)
         ELSE request' = [request EXCEPT ![s].left = rq.left \ {f},
                            ![s].pc = IF rq.left = {f} THEN "readOwned" ELSE "check"]
      /\ UNCHANGED <<months, reserved, records, keyed, started, mixed>>

ReadOwned(s) ==
  /\ request[s].pc = "readOwned"
  /\ request' = [request EXCEPT ![s].owned = OwnedScopes(reserved, request[s].owner),
                                ![s].left = Reserves(request[s]), ![s].pc = "claim"]
  /\ UNCHANGED <<months, reserved, records, keyed, started, mixed>>

Claim(s) ==
  LET rq == request[s]
      f  == NextField(rq.left)
      claim == Reservation(rq.refs[f], f, rq.laundry, rq.owner)
  IN  /\ rq.pc = "claim"
      /\ IF DuplicateKey(reserved, claim)
         THEN reserved' = reserved /\ Goto(s, "unclaim")
         ELSE /\ reserved' = Upsert(reserved, claim)
              /\ request' = [request EXCEPT ![s].left = rq.left \ {f},
                               ![s].pc = IF rq.left = {f} THEN AfterClaim(rq) ELSE "claim"]
      /\ UNCHANGED <<months, records, keyed, started, mixed>>

(* Another request was faster: what was reserved on the way is given back. *)
Unclaim(s) ==
  LET rq == request[s]
      scopes == {ScopeKey(rq.refs[f], f, rq.laundry) : f \in Reserves(rq)}
  IN  /\ rq.pc = "unclaim"
      /\ reserved' = WithoutNew(reserved, rq.owner, scopes, rq.owned)
      /\ Finish(s)
      /\ UNCHANGED <<months, records, keyed, started, mixed>>

-----------------------------------------------------------------------------
(* update_day_quantities. *)

RefsOf(day) == [bill |-> day.bill, number |-> day.number]

(* Mutant: what the client leaves out is taken as it comes. *)
Submitted_AsIs(asked, day) == [f \in Fields |-> asked[f]]

(* A field left out of the payload keeps the number the day shows. *)
Submitted(asked, day) ==
  [f \in Fields |-> IF asked[f] = Keep THEN RefsOf(day)[f] ELSE asked[f]]

(* Mutant: nothing is locked. *)
Locked_Never(day) == FALSE

(* A confirmed day can no longer be changed here. *)
Locked(day) == day.status = "CONFIRMED"

(* Up to the reservation.  A request refused before has no effect.          *)
StartSave(s, laundry, cell, payload) ==
  LET i   == MonthOf(laundry, cell[1])
      day == DayIn(i, cell)
      noNumbers == NumbersOf(payload) \subseteq {Keep}
      rq == [Fresh("save", laundry, cell) EXCEPT
               !.month = i, !.seen = day, !.entered = payload.entered,
               !.refs = Submitted(payload, day)]
  IN  /\ "save" \in Ops
      /\ cell[1] = "receiving" \/ noNumbers
      /\ ~ Locked(day)
      /\ ~ Ambiguous(rq.refs)
      /\ i = 0 => payload.entered \/ ~ noNumbers
      /\ Begin(s, IF i = 0 THEN [rq EXCEPT !.pc = "newMonth"]
                  ELSE BeginReserve(rq, Given(rq.refs)))

InsertNewMonth(s) ==
  LET rq == request[s]
  IN  /\ rq.pc = "newMonth"
      /\ InsertMonth(rq.laundry, rq.cell[1])
      /\ request' = [request EXCEPT ![s] =
                       BeginReserve([rq EXCEPT !.month = Len(months) + 1], Given(rq.refs))]
      /\ UNCHANGED <<reserved, records, keyed, started>>

(* The day is written as DRAFT from the copy read at the beginning; when    *)
(* nothing is left in it, it is removed.                                    *)
WriteDay(s) ==
  LET rq == request[s]
      day == [status |-> "DRAFT", entered |-> rq.entered, bill |-> rq.refs.bill,
              number |-> rq.refs.number, records |-> rq.seen.records]
  IN  /\ rq.pc = "write"
      /\ SetDay(rq.month, rq.cell,
                IF rq.entered \/ Given(rq.refs) # {} THEN day ELSE EmptyDay)
      /\ Goto(s, "release")
      /\ UNCHANGED <<reserved, records, keyed, started, mixed>>

(* The numbers the day had and has no more are free again. *)
Release(s) ==
  LET rq == request[s]
  IN  /\ rq.pc = "release"
      /\ reserved' = Released(reserved, rq.owner,
                              NumbersOf(RefsOf(rq.seen)) \ NumbersOf(rq.refs))
      /\ Finish(s)
      /\ UNCHANGED <<months, records, keyed, started, mixed>>

-----------------------------------------------------------------------------
(* cancel_monthly_day. *)

StartCancel(s, laundry, cell) ==
  LET i == MonthOf(laundry, cell[1])
  IN  /\ "cancel" \in Ops
      /\ DayIn(i, cell).status = "DRAFT"
      /\ Begin(s, [Fresh("cancel", laundry, cell) EXCEPT
                     !.month = i, !.seen = DayIn(i, cell), !.pc = "unset"])

Unset(s) ==
  /\ request[s].pc = "unset"
  /\ SetDay(request[s].month, request[s].cell, EmptyDay)
  /\ Goto(s, "release")
  /\ UNCHANGED <<reserved, records, keyed, started, mixed>>

-----------------------------------------------------------------------------
(* confirm_monthly_day. *)

(* The numbers of rewashes count up per date. *)
Rewashes(cell) == {records[i] : i \in {j \in DOMAIN records : records[j].cell = cell}}

NextRewashNumber(cell) == Cardinality(Rewashes(cell)) + 1

(* How many records are to be made: a delivery day has one draft for each   *)
(* gate pass, of any month, its pieces are taken from.                      *)
MaxPlan == 2

Plans(cell) == IF cell[1] = "delivery" THEN 1..MaxPlan ELSE {1}

(* A key that is known, a day confirmed already, an empty one: no effect.   *)
StartConfirm(s, laundry, cell, plan, key) ==
  LET i == MonthOf(laundry, cell[1])
      day == DayIn(i, cell)
  IN  /\ "confirm" \in Ops
      /\ <<laundry, cell, key>> \notin keyed
      /\ day.status = "DRAFT" /\ day.entered
      /\ plan \in Plans(cell)
      /\ Begin(s, [Fresh("confirm", laundry, cell) EXCEPT
                     !.month = i, !.seen = day, !.key = key, !.pc = "insert",
                     !.refs = [bill |-> day.bill,
                               number |-> IF cell[1] = "rewash" THEN NextRewashNumber(cell)
                                          ELSE day.number],
                     !.plan = plan])

(* Unique indexes on the numbers of gate passes and of rewashes. *)
InsertRefused(rq) ==
  CASE rq.cell[1] = "receiving" -> rq.refs.number # None /\ NumberTaken(rq.refs.number)
    [] rq.cell[1] = "rewash"    -> \E r \in Rewashes(rq.cell) : r.number = rq.refs.number
    [] OTHER                    -> FALSE

RecordFor(rq) ==
  [laundry |-> rq.laundry, cell |-> rq.cell, bill |-> rq.refs.bill,
   made |-> IF rq.op = "confirm" THEN "grid" ELSE "hand",
   number |-> IF rq.refs.number = None THEN Len(records) + 1 ELSE rq.refs.number]

AfterInsert(rq) ==
  IF rq.op = "confirm" THEN (IF rq.plan = 1 THEN "mark" ELSE "insert")
  ELSE IF rq.key = None THEN "syncRead" ELSE "remember"

(* The records are inserted one after the other; a duplicate number ends    *)
(* the request with an error, and what it reserved or inserted stays.       *)
InsertRecord(s) ==
  LET rq == request[s]
  IN  /\ rq.pc = "insert"
      /\ IF InsertRefused(rq) THEN Finish(s) /\ records' = records
         ELSE /\ records' = Append(records, RecordFor(rq))
              /\ request' = [request EXCEPT ![s].made = Append(@, Len(records) + 1),
                               ![s].plan = @ - 1, ![s].pc = AfterInsert(rq)]
      /\ UNCHANGED <<months, reserved, keyed, started, mixed>>

(* The day is marked from the copy read at the beginning. *)
MarkConfirmed(s) ==
  LET rq == request[s]
  IN  /\ rq.pc = "mark"
      /\ SetDay(rq.month, rq.cell,
                [rq.seen EXCEPT !.status = "CONFIRMED", !.records = rq.made])
      /\ IF rq.key = None THEN Finish(s) ELSE Goto(s, "remember")
      /\ UNCHANGED <<reserved, records, keyed, started, mixed>>

KeyOf(rq) ==
  IF rq.op = "confirm" THEN <<rq.laundry, rq.cell, rq.key>> ELSE <<rq.laundry, rq.key>>

Remember(s) ==
  /\ request[s].pc = "remember"
  /\ keyed' = keyed \cup {KeyOf(request[s])}
  /\ IF request[s].op = "confirm" THEN Finish(s) ELSE Goto(s, "syncRead")
  /\ UNCHANGED <<months, reserved, records, started, mixed>>

-----------------------------------------------------------------------------
(* Gate passes made by hand (create_gate_pass), or from the sheet of the    *)
(* day (today_sheet), whose number is generated and needs no reservation.   *)

StartPass(s, laundry, cell, refs, key) ==
  LET rq == [Fresh("pass", laundry, cell) EXCEPT
               !.owner = <<"gatepass", started>>, !.refs = refs, !.key = key]
  IN  /\ "pass" \in Ops
      /\ cell[1] = "receiving"
      /\ <<laundry, key>> \notin keyed
      /\ ~ NumberTaken(refs.number)
      /\ Begin(s, BeginReserve(rq, {"number"}))

StartSheet(s, laundry, cell) ==
  /\ "sheet" \in Ops
  /\ cell[1] = "receiving"
  /\ Begin(s, [Fresh("sheet", laundry, cell) EXCEPT !.pc = "insert"])

(* sync_gate_pass_to_monthly: the new pass is shown on its day, in whatever *)
(* laundry's document comes first; a new document belongs to none.          *)
SyncRead(s) ==
  LET rq == request[s]
      i  == AnyMonth("receiving")
  IN  /\ rq.pc = "syncRead"
      /\ request' = [request EXCEPT ![s].month = i, ![s].seen = DayIn(i, rq.cell),
                                    ![s].pc = IF i = 0 THEN "syncNew" ELSE "syncWrite"]
      /\ UNCHANGED <<months, reserved, records, keyed, started, mixed>>

SyncNewMonth(s) ==
  /\ request[s].pc = "syncNew"
  /\ InsertMonth(None, "receiving")
  /\ request' = [request EXCEPT ![s].month = Len(months) + 1, ![s].pc = "syncWrite"]
  /\ UNCHANGED <<reserved, records, keyed, started>>

Or(a, b) == IF a # None THEN a ELSE b

(* Mutant: the day shows the new pass only. *)
Synced_Alone(day, pass, id) ==
  [status |-> "CONFIRMED", entered |-> TRUE, bill |-> Or(day.bill, pass.bill),
   number |-> Or(day.number, pass.number), records |-> <<id>>]

(* What the day shows already stays, the pass fills the gaps. *)
Synced(day, pass, id) ==
  [status |-> "CONFIRMED", entered |-> TRUE, bill |-> Or(day.bill, pass.bill),
   number |-> Or(day.number, pass.number), records |-> Append(day.records, id)]

SyncWrite(s) ==
  LET rq == request[s]
      id == rq.made[1]
  IN  /\ rq.pc = "syncWrite"
      /\ SetDay(rq.month, rq.cell, Synced(rq.seen, records[id], id))
      /\ Finish(s)
      /\ UNCHANGED <<reserved, records, keyed, started, mixed>>

(* update_gate_pass ends by writing the numbers of the pass over those of   *)
(* its day (update_monthly_day_references).                                 *)
StartEdit(s, id) ==
  LET pass == records[id]
      i    == AnyMonth("receiving")
  IN  /\ "edit" \in Ops
      /\ pass.cell[1] = "receiving" /\ pass.made = "hand"
      /\ i # 0 /\ id \in ToSet(DayIn(i, pass.cell).records)
      /\ Begin(s, [Fresh("edit", pass.laundry, pass.cell) EXCEPT
                     !.month = i, !.made = <<id>>, !.pc = "propagate"])

(* The fields are set one by one: a day removed meanwhile comes back, with  *)
(* no status, which every reader takes as one that may be edited.           *)
Propagate(s) ==
  LET rq   == request[s]
      pass == records[rq.made[1]]
      day  == DayIn(rq.month, rq.cell)
  IN  /\ rq.pc = "propagate"
      /\ SetDay(rq.month, rq.cell,
                [day EXCEPT !.number = pass.number, !.bill = Or(pass.bill, day.bill),
                            !.status = IF day.status = "EMPTY" THEN "DRAFT" ELSE day.status])
      /\ Finish(s)
      /\ UNCHANGED <<reserved, records, keyed, started, mixed>>

(* The process dies between two awaits. *)
Crash(s) ==
  /\ "crash" \in Ops /\ Active(s)
  /\ mixed' = mixed \cup {request[s].cell}
  /\ Finish(s)
  /\ UNCHANGED <<months, reserved, records, keyed, started>>

-----------------------------------------------------------------------------
Start(s) ==
  /\ ~ Active(s) /\ started < MaxRequests
  /\ \/ \E l \in Laundries, c \in Cells, p \in Payloads : StartSave(s, l, c, p)
     \/ \E l \in Laundries, c \in Cells : StartCancel(s, l, c) \/ StartSheet(s, l, c)
     \/ \E l \in Laundries, c \in Cells, n \in 1..MaxPlan, k \in Keys :
          StartConfirm(s, l, c, n, k)
     \/ \E l \in Laundries, c \in Cells, r \in PassRefs, k \in Keys :
          StartPass(s, l, c, r, k)
     \/ \E id \in DOMAIN records : StartEdit(s, id)

Continue(s) ==
  \/ InsertNewMonth(s) \/ CheckNumber(s) \/ ReadOwned(s) \/ Claim(s) \/ Unclaim(s)
  \/ WriteDay(s) \/ Release(s) \/ Unset(s)
  \/ InsertRecord(s) \/ MarkConfirmed(s) \/ Remember(s)
  \/ SyncRead(s) \/ SyncNewMonth(s) \/ SyncWrite(s) \/ Propagate(s)

Next == \E s \in Slots : Start(s) \/ Continue(s) \/ Crash(s)

Spec == Init /\ [][Next]_vars

-----------------------------------------------------------------------------
(* What the grid promises.  Requests on one day are not serialised, so the  *)
(* promises are about days no two requests edited at once, none died in and *)
(* whose month has one document; requests on other days, of the same number *)
(* even, may do anything at any time.                                       *)

Clean(c) == c \notin mixed

Quiet(c) == Clean(c) /\ ~ \E s \in Slots : Active(s) /\ request[s].cell = c

Shown(c) == DayIn(MonthOf(MainLaundry, c[1]), c)

ByHand(day) == \E i \in ToSet(day.records) : records[i].made = "hand"

(* The registry and the grid tell the same story: a day at rest holds the   *)
(* reservations of exactly the numbers it shows.  A refused request, at the *)
(* check or by the index with some numbers already claimed, has neither     *)
(* kept nor lost one (manual_references.py:241, monthly.py:648).            *)
ReservedIsShown ==
  \A c \in Cells :
    Quiet(c) /\ ~ ByHand(Shown(c)) =>
      {r.value : r \in {q \in reserved : q.owner = c}} = NumbersOf(RefsOf(Shown(c)))

(* A number is used once: what a day at rest shows, no other day shows in   *)
(* the same field, and no other gate pass bears.  The exception are the     *)
(* bill numbers of passes made by hand, which nobody reserves.              *)
NumbersUsedOnce ==
  \A c, d \in Cells :
    Quiet(c) /\ Clean(d) /\ c # d =>
      \A f \in Given(RefsOf(Shown(c))) :
        (f = "number" \/ ~ (ByHand(Shown(c)) \/ ByHand(Shown(d)))) =>
          /\ RefsOf(Shown(c))[f] # RefsOf(Shown(d))[f]
          /\ ~ \E p \in Passes : /\ p.cell = d /\ (f = "number" \/ p.made = "grid")
                                 /\ RefsOf(p)[f] = RefsOf(Shown(c))[f]

(* The grid shows exactly the records of a day at rest: a confirmed day     *)
(* lists every one that was made for it, a draft has none, and no day has   *)
(* two passes or rewashes of its own (monthly.py:12).                       *)
RecordsAreShown ==
  \A c \in Cells :
    LET made == {i \in DOMAIN records : records[i].cell = c}
    IN  Quiet(c) =>
          /\ ToSet(Shown(c).records) = made
          /\ Shown(c).status # "CONFIRMED" => made = {}
          /\ c[1] # "delivery" => Cardinality({i \in made : records[i].made = "grid"}) <= 1

(* "CONFIRMED days are immutable" (monthly.py:12): such a day stays so, and *)
(* never loses a record; gate passes made by hand may join.                 *)
ConfirmedForGood ==
  [][\A c \in Cells :
       Shown(c).status = "CONFIRMED" /\ c \notin mixed' =>
         /\ Shown(c)'.status = "CONFIRMED"
         /\ IsPrefix(Shown(c).records, Shown(c)'.records)]_vars
================================================================================
