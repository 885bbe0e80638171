----------------------------- MODULE MCListRuns -----------------------------
(***************************************************************************)
(* Two lists of one supplier that share their item numbers, or one list.   *)
(***************************************************************************)
EXTENDS ListRuns

SharedRows == [l \in Lists |-> Items]
=============================================================================
