------------------------------ MODULE CloseGate ------------------------------
(***************************************************************************)
(* What closing one AOContext promises (include/nhope/async/ao-context.h,  *)
(* AOContext::close): threads enter the context only while it is open; one *)
(* thread closes it; the close handlers are called once nobody but that    *)
(* thread is still inside.                                                 *)
(***************************************************************************)
CONSTANTS Threads, Nobody

VARIABLES phase,        \* "open", "preparing", "closing", "closed"
          inside,       \* threads that keep the context from closing
          closer        \* the thread that closes it

vars == <<phase, inside, closer>>

Init == /\ phase = "open"
        /\ inside = {}
        /\ closer = Nobody

Enter(t) == /\ phase = "open"
            /\ inside' = inside \cup {t}
            /\ UNCHANGED <<phase, closer>>

Leave(t) == /\ inside' = inside \ {t}
            /\ UNCHANGED <<phase, closer>>

Prepare(t) == /\ phase = "open"
              /\ phase' = "preparing"
              /\ closer' = t
              /\ UNCHANGED inside

\* The close handlers may be called from here on.
BeginClosing == /\ phase = "preparing"
                /\ inside \subseteq {closer}
                /\ phase' = "closing"
                /\ UNCHANGED <<inside, closer>>

FinishClosing == /\ phase = "closing"
                 /\ phase' = "closed"
                 /\ UNCHANGED <<inside, closer>>

Next == \/ \E t \in Threads : Enter(t) \/ Leave(t) \/ Prepare(t)
        \/ BeginClosing
        \/ FinishClosing

Spec == Init /\ [][Next]_vars
=============================================================================
