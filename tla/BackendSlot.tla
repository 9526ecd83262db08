---------------------------- MODULE BackendSlot ----------------------------
(***************************************************************************)
(* What the backend controller promises to its callers: one slot that is   *)
(* stopped, starting, ready or failed, and an epoch that moves whenever    *)
(* the slot is emptied or filled.  A slot that was emptied can only be     *)
(* filled by a new start; work begun in an older epoch never changes it.   *)
(***************************************************************************)
EXTENDS Naturals

VARIABLES
    state,   \* what status() reports of the current backend
    epoch    \* backendController.generation

slotVars == <<state, epoch>>

Init ==
    /\ state = "stopped"
    /\ epoch = 0

\* A start is only accepted by an empty slot.
Begin ==
    /\ state = "stopped"
    /\ state' = "starting"
    /\ epoch' = epoch + 1

\* A start settles in the epoch that began it, once.
Settle ==
    /\ state = "starting"
    /\ state' \in {"ready", "failed"}
    /\ UNCHANGED epoch

\* stop and restart empty the slot whatever it holds.
Reset ==
    /\ state' = "stopped"
    /\ epoch' = epoch + 1

Next == Begin \/ Settle \/ Reset

SafeSpec == Init /\ [][Next]_slotVars

Spec == SafeSpec /\ WF_slotVars(Settle)
=============================================================================
