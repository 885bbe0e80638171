---------------------- MODULE ApprovalQueueRefinement ----------------------
(***************************************************************************)
(* The table implements the lifecycle: queued rows wait, the row with the  *)
(* active flag is in front of the owner, the resolution column is the      *)
(* decision.                                                               *)
(***************************************************************************)
EXTENDS ApprovalQueue

Lifecycle == INSTANCE ApprovalLifecycle
                 WITH waiting <- Queued, current <- Active, decision <- resolution

\* Every step of the service, the reminder job and the clock is a step of the
\* lifecycle or leaves it alone.
ImplementsLifecycle == Lifecycle!Spec
=============================================================================
