----------------------------- MODULE JournalSlot -----------------------------
(***************************************************************************)
(* The life cycle that one INC journal slot promises to everything that     *)
(* shares it: the Dispatch kernel opens and seals it, the Combine kernel    *)
(* activates it and closes it.  This is the abstract specification the      *)
(* Combine kernel is shown to implement.                                    *)
(***************************************************************************)

JournalStates == {"FREE", "DISPATCH_OPEN", "DISPATCH_SEALED",
                  "COMBINE_ACTIVE", "COMPLETE", "ABORTED"}

\* ValidJournalTransition: the switch of the host library.
ValidJournalTransition(from, to) ==
    \/ from = "FREE"            /\ to = "DISPATCH_OPEN"
    \/ from = "DISPATCH_OPEN"   /\ to \in {"DISPATCH_SEALED", "ABORTED"}
    \/ from = "DISPATCH_SEALED" /\ to \in {"COMBINE_ACTIVE", "ABORTED"}
    \/ from = "COMBINE_ACTIVE"  /\ to \in {"COMPLETE", "ABORTED"}
    \/ from \in {"COMPLETE", "ABORTED"} /\ to = "FREE"

-----------------------------------------------------------------------------

VARIABLE state

Init == state \in JournalStates

Next == \E to \in JournalStates :
            /\ ValidJournalTransition(state, to)
            /\ state' = to

Spec == Init /\ [][Next]_state
=============================================================================
