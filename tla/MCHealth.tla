------------------------------ MODULE MCHealth ------------------------------
(* Small instances of SourceHealth for TLC. *)
EXTENDS SourceHealth, TLC

\* One waits for more failures in a row than a page looks at; one lowers the pair of
\* thresholds of which another raises the first; a form sends all the columns.
ManyFailures == [failureCritical |-> Lookback + 1]

SomePatches == {ManyFailures, [errorWarning |-> 4], [errorWarning |-> 1, errorCritical |-> 1],
                [errorWarning |-> 0, errorCritical |-> 1, failureWarning |-> 0,
                 failureCritical |-> 0, partialWarning |-> FALSE]}

Symmetry == Permutations(Admins)
=============================================================================
