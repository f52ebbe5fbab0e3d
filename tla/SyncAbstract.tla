---------------------------- MODULE SyncAbstract ----------------------------
(***************************************************************************)
(* What the network synchroniser promises its caller, without batches,     *)
(* callbacks or the loop: a call of startSync (busy) fetches a target      *)
(* height and moves the current height up towards it; the status is        *)
(* SYNCING while it does, NOT_SYNCED once stopped, and becomes SYNCED only *)
(* when the current height has reached the target, as the call returns.   *)
(* A stop that comes after the target has been reached does not keep the  *)
(* call from completing.                                                   *)
(***************************************************************************)
EXTENDS Naturals

CONSTANTS ReportedHeights   \* the heights a start can fetch as its target

VARIABLES
    status,   \* what getStatus() reports
    height,   \* the current block height
    target,   \* the latest height fetched by the running or last call
    busy      \* a call of startSync has not returned

vars == <<status, height, target, busy>>

Init ==
    /\ status = "NOT_SYNCED"
    /\ height = 0
    /\ target = 0
    /\ busy = FALSE

\* A call starts when none runs and the status is not SYNCING.
Start(h) ==
    /\ ~busy
    /\ status # "SYNCING"
    /\ status' = "SYNCING"
    /\ busy' = TRUE
    /\ height' = 0
    /\ target' = h

\* A syncing call moves the height forward, never past the target.
Advance ==
    /\ busy
    /\ status = "SYNCING"
    /\ height < target
    /\ height' \in (height + 1) .. target
    /\ UNCHANGED <<status, target, busy>>

Stop ==
    /\ busy
    /\ status = "SYNCING"
    /\ status' = "NOT_SYNCED"
    /\ UNCHANGED <<height, target, busy>>

\* The call returns SYNCED, and only when caught up.
Complete ==
    /\ busy
    /\ height = target
    /\ status' = "SYNCED"
    /\ busy' = FALSE
    /\ UNCHANGED <<height, target>>

\* A stopped call returns and leaves the status as it is.
Return ==
    /\ busy
    /\ status # "SYNCING"
    /\ busy' = FALSE
    /\ UNCHANGED <<status, height, target>>

Next ==
    \/ \E h \in ReportedHeights : Start(h)
    \/ Advance
    \/ Stop
    \/ Complete
    \/ Return

Spec == Init /\ [][Next]_vars

=============================================================================
