------------------------------- MODULE MCSchedule -------------------------------
(* Small instances of SourceSchedule for TLC. *)
EXTENDS SourceSchedule, TLC

\* Days of no option, no number and null beside those that pass.
Posted ==
    {[active |-> a, enabled |-> e, days |-> d, rest |-> TRUE] :
        a \in {"true", "false", "null"}, e \in {"true", "absent", "other"},
        d \in {NullNumber, AbsentNumber, 0, 1, 2, 3}}

\* Requests that change the schedule only.
Plain ==
    {[active |-> "absent", enabled |-> "true", days |-> d, rest |-> TRUE] : d \in {1, 2}}
        \cup {[active |-> "absent", enabled |-> "false", days |-> 1, rest |-> TRUE]}

\* The threads of the pool are interchangeable.
Symmetry == Permutations(Thread)
================================================================================
