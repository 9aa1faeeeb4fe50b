----------------------------- MODULE MCMonthlyDays -----------------------------
(* Instances of MonthlyDays for TLC. *)
EXTENDS MonthlyDaysInv, TLC

CONSTANTS l1, n1, n2, d1, d2, s1, s2, k1

(* Two days of the receiving grid compete for the same numbers, beside a   *)
(* delivery day and a rewash day.                                          *)
FourDays == {<<"receiving", d1>>, <<"receiving", d2>>, <<"delivery", 1>>, <<"rewash", 1>>}

Entry(entered, bill, number) == [entered |-> entered, bill |-> bill, number |-> number]

(* A number; a bill number that another day may use as its number; other   *)
(* quantities with the same numbers; an empty day.                         *)
SomePayloads == {Entry(TRUE, None, n1), Entry(TRUE, n1, n2),
                 Entry(TRUE, None, Keep), Entry(FALSE, None, None)}

SomePassRefs == {[bill |-> None, number |-> n1], [bill |-> n1, number |-> n2]}

(* Dates and slots are interchangeable. *)
Same == Permutations(Slots) \cup Permutations({d1, d2})
================================================================================
