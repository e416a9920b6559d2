------------------------------ MODULE IdShifts ------------------------------
(***************************************************************************)
(* protocol/mapping_data.py: what inserting ids into a numbering does to   *)
(* the ids that were there, in either direction.                           *)
(***************************************************************************)
EXTENDS Integers

IdShift == [insert_at : Nat, count : Nat]

inserted(count, at) == [insert_at |-> at, count |-> count]

shift_up(shift, v) == IF v >= shift.insert_at THEN v + shift.count ELSE v

\* Faulty variants of shift_down: the inserted range is left as it is; every id is shifted.
shift_down_NoCollapse(shift, v) == IF v >= shift.insert_at + shift.count THEN v - shift.count ELSE v

shift_down_Unguarded(shift, v) == v - shift.count

\* The ids of the inserted range collapse into the first of them.
shift_down(shift, v) ==
    IF v >= shift.insert_at + shift.count THEN v - shift.count
    ELSE IF v >= shift.insert_at THEN shift.insert_at
    ELSE v

\* Nothing from the inserted range on can be told apart.
cap(shift, v) == IF v >= shift.insert_at THEN shift.insert_at ELSE v
=============================================================================
