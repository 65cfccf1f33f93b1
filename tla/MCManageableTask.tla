--------------------------- MODULE MCManageableTask ---------------------------
(* Four requests with a future, and a stop, against one task: enough for a   *)
(* pause, a resume that overtakes it, a second pause and a wait for the end. *)
EXTENDS ManageableTask

CONSTANTS f1, f2, f3, f4

MCFutures == {f1, f2, f3, f4}
=============================================================================
