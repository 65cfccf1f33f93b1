------------------------------ MODULE MCPromises ------------------------------
(***************************************************************************)
(* Promises and SharedFlag for TLC: every behaviour has the promises of    *)
(* one program, or the threads that use a cancellation flag.  Five states  *)
(* are enough for a chain behind a future inside another one; three        *)
(* objects and two threads for a copy, an assignment and a destruction to  *)
(* meet around one flag, which any two of them may be the first to make.   *)
(***************************************************************************)
EXTENDS Promises, SharedFlag, TLC

CONSTANTS x, y, u1, u2, o1, o2, o3, f1, f2, f3

VARIABLE part   \* what the behaviour has; for good

allVars == <<vars, flagVars, part>>

AllInit == part \in {"promises", "flag"} /\ Init /\ FlagInit

AllNext ==
  /\ UNCHANGED part
  /\ \/ part = "promises" /\ Next /\ UNCHANGED flagVars
     \/ part = "flag" /\ FlagNext /\ UNCHANGED vars

AllSpec == AllInit /\ [][AllNext]_allVars

SlotSymmetry == Permutations(Slots)
=============================================================================
