----------------------------- MODULE MonthlyDaysInv -----------------------------
(***************************************************************************)
(* The inductive invariant behind MonthlyDays, for one laundry: what each   *)
(* await of a request holds in the registry, knows of its day and has made  *)
(* for it, as long as nobody else works on the day.                        *)
(***************************************************************************)
EXTENDS MonthlyDays

-----------------------------------------------------------------------------
(* Types, and the shapes of requests. *)

MonthDocsOf(k) ==
  [laundry: Laundries \cup {None}, kind: {k}, days: [CellsOf(k) -> DayStates]]

MonthDocs == MonthDocsOf("receiving") \cup MonthDocsOf("delivery") \cup MonthDocsOf("rewash")

RecordDocs == [laundry: Laundries, cell: Cells, bill: BillNumbers \cup {None},
               made: {"grid", "hand"}, number: PassNumbers \cup Nat]

ShownNumbers == [bill: BillNumbers \cup {None}, number: PassNumbers \cup {None} \cup Nat]

PassOwners == {"gatepass"} \X Nat

(* Owners of passes whose requests have begun. *)
KnownOwners == {"gatepass"} \X (0 .. started - 1)

Scopes == (BillNumbers \cup PassNumbers \cup Nat) \X (Laundries \cup {None})

ReservationOK(r) ==
  /\ r.value \in BillNumbers \cup PassNumbers \cup Nat /\ r.field \in Fields
  /\ r.laundry \in Laundries /\ r.owner \in Cells \cup KnownOwners
  /\ r = Reservation(r.value, r.field, r.laundry, r.owner)

Requests == [pc: PCs, op: AllOps, laundry: Laundries, cell: Cells \cup {None},
             owner: Cells \cup PassOwners \cup {<<>>}, month: Nat, seen: DayStates,
             entered: BOOLEAN, refs: ShownNumbers, left: SUBSET Fields, owned: SUBSET Scopes,
             plan: Int, made: Seq(Nat), key: Keys \cup {None}]

MonthTypes ==
  /\ months \in Seq(MonthDocs)
  /\ records \in Seq(RecordDocs)
  /\ \A r \in reserved : ReservationOK(r)
  /\ \A r, q \in reserved : r.scope = q.scope => r = q
  /\ request \in [Slots -> Requests] /\ \A s \in Slots : request[s].month <= Len(months)
  /\ started \in 0..MaxRequests
  /\ mixed \subseteq Cells

(* The awaits of each kind of request. *)
Awaits(op) ==
  CASE op = "save"    -> {"newMonth", "check", "readOwned", "claim", "unclaim", "write", "release"}
    [] op = "cancel"  -> {"unset", "release"}
    [] op = "confirm" -> {"insert", "mark", "remember"}
    [] op = "pass"    -> {"check", "readOwned", "claim", "unclaim", "insert", "remember",
                          "syncRead", "syncNew", "syncWrite"}
    [] op = "sheet"   -> {"insert", "syncRead", "syncNew", "syncWrite"}
    [] op = "edit"    -> {"propagate"}
    [] OTHER          -> {}

(* A gate pass made by hand is in the collection, not yet on its day.       *)
Unsynced(rq) == /\ rq.op \in {"pass", "sheet"}
                /\ rq.pc \in {"remember", "syncRead", "syncNew", "syncWrite"}

(* A request that knows the document of its month. *)
Located(rq) == \/ rq.op \in {"save", "cancel", "confirm", "edit"} /\ rq.pc # "newMonth"
               \/ rq.pc = "syncWrite"

(* What a request will do next is defined. *)
RequestShape(rq) ==
  /\ rq.cell \in Cells /\ rq.pc \in Awaits(rq.op)
  /\ IF rq.op = "pass" THEN rq.owner \in KnownOwners ELSE rq.owner = rq.cell
  /\ rq.op \in {"pass", "sheet", "edit"} => rq.cell[1] = "receiving"
  /\ rq.op = "pass" => rq.refs.number \in PassNumbers
  /\ rq.op \in {"sheet", "cancel"} => rq.refs = NoReferences /\ rq.key = None
  /\ rq.pc \in {"check", "readOwned", "claim", "unclaim"} => Reserves(rq) # {}
  /\ rq.pc \in {"check", "claim"} => rq.left # {} /\ rq.left \subseteq Reserves(rq)
  /\ rq.op \in {"pass", "sheet"} /\ ~ Unsynced(rq) => rq.made = <<>>
  /\ Located(rq) => rq.month \in DOMAIN months /\ months[rq.month].kind = rq.cell[1]
  /\ (Unsynced(rq) \/ rq.op = "edit") =>
       /\ rq.made # <<>> /\ rq.made[1] \in DOMAIN records
       /\ records[rq.made[1]].cell = rq.cell /\ records[rq.made[1]].made = "hand"

RequestShapes ==
  /\ \A s \in Slots : Active(s) => RequestShape(request[s])
  /\ \A s, t \in Slots :
       (/\ Active(s) /\ request[s].op = "pass"
        /\ Active(t) /\ request[t].op = "pass"
        /\ request[s].owner = request[t].owner) => s = t

-----------------------------------------------------------------------------
(* Numbers. *)

IsPass(i) == records[i].cell[1] = "receiving"

(* The unique index; a generated number is as old as its pass.  Only gate   *)
(* passes are made by hand.                                                 *)
PassNumbersDiffer ==
  /\ \A i \in DOMAIN records : records[i].made = "hand" => IsPass(i)
  /\ \A i, j \in DOMAIN records :
       IsPass(i) /\ IsPass(j) /\ records[i].number = records[j].number => i = j
  /\ \A i \in DOMAIN records : IsPass(i) /\ records[i].number \in Nat =>
       records[i].number <= Len(records)

(* Wherever a generated number is shown or in hand, its pass exists; those  *)
(* of rewashes count for themselves.                                        *)
Old(number) == number \in Nat => number <= Len(records)

GeneratedOld ==
  /\ \A i \in DOMAIN months : \A c \in CellsOf(months[i].kind) : Old(months[i].days[c].number)
  /\ \A s \in Slots : Active(s) =>
       /\ Old(request[s].seen.number)
       /\ (request[s].op = "confirm" => request[s].cell[1] # "rewash") =>
            Old(request[s].refs.number)

NumberScope(value) == <<value, None>>

(* A number that was typed for a gate pass is held by its request, which    *)
(* has done with the registry once the pass is there.                       *)
AtRegistry == {"check", "readOwned", "claim", "unclaim"}

PassesHeld ==
  /\ \A i \in DOMAIN records :
       IsPass(i) /\ records[i].made = "hand" /\ records[i].number \in PassNumbers =>
         \E r \in reserved :
           /\ r.scope = NumberScope(records[i].number) /\ r.owner \in KnownOwners
           /\ \A s \in Slots : request[s].pc \in AtRegistry => request[s].owner # r.owner
  /\ \A s \in Slots : request[s].op = "pass" /\ request[s].pc = "insert" =>
       \E r \in reserved :
         r.scope = NumberScope(request[s].refs.number) /\ r.owner = request[s].owner

-----------------------------------------------------------------------------
(* Days. *)

Month(c) == AnyMonth(c[1])

Day(c) == DayIn(Month(c), c)

Made(c) == {i \in DOMAIN records : records[i].cell = c}

Owned(c) == OwnedScopes(reserved, c)

Values(scopes) == {sc[1] : sc \in scopes}

ScopesOf(refs, fields) == {ScopeKey(refs[f], f, MainLaundry) : f \in fields}

Works(s, c) == Active(s) /\ request[s].cell = c

(* Nobody else works on a clean day, and its month has one document.        *)
OneAtATime ==
  \A c \in Cells : Clean(c) =>
    /\ \A s, t \in Slots : Works(s, c) /\ Works(t, c) => s = t
    /\ \A i, j \in DOMAIN months :
         months[i].kind = c[1] /\ months[j].kind = c[1] => i = j

(* What a request has reserved beyond what the day shows ...                *)
Surplus(rq) ==
  CASE rq.op = "save" /\ rq.pc \in {"claim", "unclaim"} ->
         {rq.refs[f] : f \in Given(rq.refs) \ rq.left}
    [] rq.op = "save" /\ rq.pc = "write" -> NumbersOf(rq.refs)
    [] rq.pc = "release" -> NumbersOf(RefsOf(rq.seen))
    [] OTHER -> {}

(* ... and the records it has made that the day does not list.              *)
Unlisted(rq) ==
  IF (rq.op = "confirm" /\ rq.pc \in {"insert", "mark"}) \/ Unsynced(rq)
  THEN ToSet(rq.made) ELSE {}

(* A day and its numbers: they are reserved, by the day itself or by the    *)
(* gate pass they come from.                                                *)
NumbersReserved(c) ==
  /\ ~ ByHand(Day(c)) => /\ Day(c).number \notin Nat
                         /\ ScopesOf(RefsOf(Day(c)), Given(RefsOf(Day(c)))) \subseteq Owned(c)
  /\ Day(c).number # None =>
       \/ Day(c).number \in PassNumbers /\ NumberScope(Day(c).number) \in Owned(c)
       \/ \E i \in Made(c) : records[i].made = "hand" /\ records[i].number = Day(c).number
  /\ c[1] = "receiving" => \A i \in Made(c) : records[i].made = "grid" =>
       /\ records[i].number \in PassNumbers => NumberScope(records[i].number) \in Owned(c)
       /\ records[i].bill # None => ScopeKey(records[i].bill, "bill", MainLaundry) \in Owned(c)

(* A day and its records. *)
RecordsListed(c) ==
  /\ ToSet(Day(c).records) \subseteq Made(c)
  /\ Day(c).status # "CONFIRMED" => Day(c).records = <<>>
  /\ c[1] # "delivery" => \A i, j \in Made(c) :
       records[i].made = "grid" /\ records[j].made = "grid" => i = j

(* At rest the books are exact. *)
Exact(c, surplus, unlisted) ==
  /\ Made(c) = ToSet(Day(c).records) \cup unlisted
  /\ ~ ByHand(Day(c)) => Values(Owned(c)) = NumbersOf(RefsOf(Day(c))) \cup surplus

(* A request that has a copy of the day and has not written it yet. *)
Editing(rq) == \/ rq.op \in {"save", "cancel"} /\ rq.pc # "release"
               \/ rq.op = "confirm" /\ rq.pc # "remember"

(* What the request at work on a clean day knows of it. *)
UpToDate(rq, c) ==
  /\ Located(rq) => rq.month = Month(c)
  /\ Editing(rq) => rq.seen = Day(c) /\ Day(c).status # "CONFIRMED"
  /\ rq.pc \in {"syncNew", "syncWrite"} => rq.seen = Day(c)
  /\ Unsynced(rq) => rq.made[1] \notin ToSet(Day(c).records) /\ ToSet(rq.made) = {rq.made[1]}
  /\ rq.op = "edit" => rq.made[1] \in ToSet(Day(c).records)

(* What it has done so far. *)
Progress(rq, c) ==
  /\ rq.op = "save" => rq.refs.number \notin Nat
  /\ rq.op = "save" /\ rq.pc \in {"claim", "unclaim"} =>
       /\ Owned(c) = rq.owned \cup ScopesOf(rq.refs, Given(rq.refs) \ rq.left)
       /\ Values(rq.owned) = NumbersOf(RefsOf(Day(c)))
       /\ ScopesOf(RefsOf(Day(c)), Given(RefsOf(Day(c)))) \subseteq rq.owned
  /\ rq.op = "save" /\ rq.pc = "write" =>
       ScopesOf(rq.refs, Given(rq.refs)) \subseteq Owned(c)
  /\ rq.pc = "release" => RefsOf(Day(c)) = rq.refs /\ Day(c).status # "CONFIRMED"
  /\ rq.op = "confirm" /\ rq.pc \in {"insert", "mark"} =>
       /\ rq.refs.bill = Day(c).bill
       /\ c[1] # "rewash" => rq.refs.number = Day(c).number
       /\ rq.pc = "insert" => rq.plan > 0
       /\ c[1] # "delivery" /\ rq.pc = "insert" => rq.plan = 1 /\ rq.made = <<>>

DaysInv ==
  \A c \in Cells : Clean(c) =>
    /\ NumbersReserved(c) /\ RecordsListed(c)
    /\ (~ \E s \in Slots : Works(s, c)) => Exact(c, {}, {})
    /\ \A s \in Slots : Works(s, c) =>
         /\ Exact(c, Surplus(request[s]), Unlisted(request[s]))
         /\ UpToDate(request[s], c) /\ Progress(request[s], c)

MonthInv ==
  RequestShapes /\ PassNumbersDiffer /\ GeneratedOld /\ PassesHeld /\ OneAtATime /\ DaysInv
=============================================================================
