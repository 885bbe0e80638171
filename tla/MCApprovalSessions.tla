------------------------- MODULE MCApprovalSessions -------------------------
(***************************************************************************)
(* ApprovalSessions on small tables; rows and sessions are interchangeable. *)
(***************************************************************************)
EXTENDS ApprovalSessions

T == INSTANCE TLC

Interchangeable == T!Permutations(Items) \cup T!Permutations(Sessions)
=============================================================================
