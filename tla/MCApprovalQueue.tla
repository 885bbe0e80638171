-------------------------- MODULE MCApprovalQueue --------------------------
(***************************************************************************)
(* ApprovalQueue on a small table.  The rows are interchangeable, so safety *)
(* is checked up to their permutations.                                    *)
(***************************************************************************)
EXTENDS ApprovalQueueRefinement, TLC

Rows_symmetry == Permutations(Items)

\* The service calls alone, with the clock and the reminder job standing still:
\* the positions and the decisions do not depend on them.
CallsSpec == Init /\ [][ServiceCall]_vars
=============================================================================
