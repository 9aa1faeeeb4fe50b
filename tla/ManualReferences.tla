--------------------------- MODULE ManualReferences ---------------------------
(***************************************************************************)
(* The registry of the numbers people write on paper.  A reservation ties  *)
(* a number to its owner, a day of the monthly grid or one gate pass; the  *)
(* index on scope_key is the only thing the database enforces.             *)
(*                                                                         *)
(* The numbers are those of one hotel.  Of the reference fields, "bill" is *)
(* bill_number, whose scope is the hotel in one laundry; "number" stands   *)
(* for gate_pass_number and for alrs_number, whose scope is the whole      *)
(* system and which the code treats alike.                                 *)
(***************************************************************************)
LOCAL INSTANCE Naturals

CONSTANTS Laundries,   \* tenants
          BillNumbers, \* bill numbers, prefixed by the code of the hotel
          PassNumbers, \* numbers typed for a gate pass; may coincide with bill numbers
          None         \* no number, no tenant

Fields == {"bill", "number"}

References == [bill: BillNumbers \cup {None}, number: PassNumbers \cup {None}]

NoReferences == [bill |-> None, number |-> None]

Given(refs) == {f \in Fields : refs[f] # None}

NumbersOf(refs) == {refs[f] : f \in Given(refs)}

(* scope_key: the number, and for bill numbers the laundry. *)
ScopeKey(value, field, laundry) ==
  <<value, IF field = "bill" THEN laundry ELSE None>>

Reservation(value, field, laundry, owner) ==
  [value |-> value, field |-> field, scope |-> ScopeKey(value, field, laundry),
   laundry |-> laundry, owner |-> owner]

(* One request may not give the same number in two fields. *)
Ambiguous(refs) == refs.bill # None /\ refs.bill = refs.number

(* Any use of the number by another owner is in the way, except that bill  *)
(* numbers of different laundries do not meet.                             *)
ConflictingReservations(reserved, value, field, laundry, owner) ==
  {r \in reserved : /\ r.value = value
                    /\ r.owner # owner
                    /\ ~ (/\ field = "bill" /\ r.field = "bill"
                          /\ r.laundry # laundry)}

(* `passes` are the gate passes, the documents that bear numbers here.     *)
ExistingDocument(passes, value, field, laundry) ==
  \E p \in passes : \/ p.number = value
                    \/ p.bill = value /\ (field = "bill" => p.laundry = laundry)

OwnedScopes(reserved, owner) == {r.scope : r \in {q \in reserved : q.owner = owner}}

(* Mutant: the upsert finds the scope whoever owns it, and takes it over.   *)
DuplicateKey_ByScope(reserved, claim) == FALSE

(* The upsert by scope and owner runs into the index when the scope is     *)
(* another owner's.                                                        *)
DuplicateKey(reserved, claim) ==
  \E r \in reserved : r.scope = claim.scope /\ r.owner # claim.owner

Upsert(reserved, claim) ==
  {r \in reserved : r.scope # claim.scope} \cup {claim}

(* Mutant: nothing is given back. *)
WithoutNew_Nothing(reserved, owner, scopes, ownedBefore) == reserved

(* What a refused request gives back: the scopes it did not own before.    *)
WithoutNew(reserved, owner, scopes, ownedBefore) ==
  {r \in reserved : ~ (r.owner = owner /\ r.scope \in scopes \ ownedBefore)}

(* release_references goes by the number, not by the scope.                *)
Released(reserved, owner, values) ==
  {r \in reserved : ~ (r.owner = owner /\ r.value \in values)}
================================================================================
