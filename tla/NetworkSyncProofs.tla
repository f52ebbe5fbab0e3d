------------------------- MODULE NetworkSyncProofs -------------------------
(***************************************************************************)
(* Proofs about NetworkSync for every batch size, height modulus and set   *)
(* of reported heights: the type invariant, that m_isSyncing agrees with   *)
(* the reported status, and that a SYNCED run has caught up.               *)
(***************************************************************************)
EXTENDS NetworkSync, TLAPS

USE BatchAssumption, ModulusAssumption, HeightsAssumption, EndpointAssumption

(***************************************************************************)
(* The invariant the proofs go through.  SyncedMeansCaughtUp is not        *)
(* inductive by itself: FinishSync completes on current >= latest, which   *)
(* needs current <= latest, and the callback of updateProgress(1.0) runs   *)
(* between the check and the SYNCED status, so the caught-up state must    *)
(* already hold at pc = "finalCallback"; and no run in progress is        *)
(* SYNCED, so processBlocks never moves the height of a SYNCED state.      *)
(***************************************************************************)
IInv ==
    /\ TypeOK
    /\ SyncFlagMatchesStatus
    /\ current <= latest
    /\ pc # "idle" => status # "SYNCED"
    /\ status = "SYNCED" => current = latest /\ progress = <<1, 1>>
    /\ pc = "finalCallback" => current = latest /\ progress = <<1, 1>>

LEMMA WrapInHeights ==
    ASSUME NEW n \in Nat
    PROVE  Wrap(n) \in Heights
BY DEF Wrap, Heights

LEMMA MinInHeights ==
    ASSUME NEW a \in Heights, NEW b \in Heights
    PROVE  /\ MinHeight(a, b) \in Heights
           /\ MinHeight(a, b) <= b
BY DEF MinHeight, Heights

LEMMA InitIInv == Init => IInv
<1> SUFFICES ASSUME Init PROVE IInv
    OBVIOUS
<1>1. progress \in Heights \X (Heights \ {0})
    BY DEF Init, Heights
<1>2. batches \in Seq(Heights) /\ Len(batches) <= Modulus
    BY DEF Init
<1>3. cfgFile \in Endpoints \cup {NoValue} /\ cfgValue = cfgFile
    BY DEF Init
<1>4. endpoint \in Endpoints
    BY <1>3 DEF Init, ConfiguredEndpoint
<1>5. TypeOK
    BY <1>1, <1>2, <1>3, <1>4 DEF Init, TypeOK, Heights, Statuses,
       ControlPoints
<1>6. SyncFlagMatchesStatus
    BY DEF Init, SyncFlagMatchesStatus
<1>7. QED
    BY <1>5, <1>6 DEF Init, IInv

LEMMA NextIInv == IInv /\ [Next]_vars => IInv'
<1> SUFFICES ASSUME IInv, [Next]_vars PROVE IInv'
    OBVIOUS
<1> USE DEF IInv, TypeOK, SyncFlagMatchesStatus, Statuses, ControlPoints
<1>1. ASSUME NEW cb \in BOOLEAN, NEW h \in ReportedHeights, StartSync(cb, h)
      PROVE  IInv'
    BY <1>1 DEF StartSync, Heights, cfgVars
<1>2. CASE ProcessBlocks
    <2> DEFINE toHeight == MinHeight(Wrap(height + BatchSize), latest)
    <2>1. Wrap(height + BatchSize) \in Heights
        <3>1. height + BatchSize \in Nat
            BY DEF Heights
        <3>2. QED
            BY <3>1, WrapInHeights
    <2>2. toHeight \in Heights /\ toHeight <= latest
        BY <2>1, MinInHeights
    <2>3. batches' \in Seq(Heights) /\ Len(batches') <= Modulus
        BY <1>2, <2>2 DEF ProcessBlocks
    <2>4. progress' \in Heights \X (Heights \ {0})
        BY <1>2, <2>2 DEF ProcessBlocks, Heights
    <2>5. QED
        BY <1>2, <2>2, <2>3, <2>4 DEF ProcessBlocks, cfgVars
<1>3. CASE CallbackStopSync
    BY <1>3 DEF CallbackStopSync, StopEffect, InCallback, cfgVars
<1>4. ASSUME NEW e \in Endpoints, SetNetworkEndpoint(e)
      PROVE  IInv'
    BY <1>4 DEF SetNetworkEndpoint, SaveConfig, syncVars
<1>5. CASE BatchCallbackReturns
    BY <1>5 DEF BatchCallbackReturns, cfgVars
<1>6. CASE EndBatch
    <2>1. Wrap(height + BatchSize) \in Heights
        <3>1. height + BatchSize \in Nat
            BY DEF Heights
        <3>2. QED
            BY <3>1, WrapInHeights
    <2>2. QED
        BY <1>6, <2>1 DEF EndBatch, LoopHead, cfgVars
<1>7. CASE FinishSync
    <2>1. <<1, 1>> \in Heights \X (Heights \ {0})
        BY DEF Heights
    <2>2. CASE isSyncing /\ current >= latest
        <3>1. current = latest
            BY <2>2 DEF Heights
        <3>2. QED
            BY <1>7, <2>1, <2>2, <3>1 DEF FinishSync, CompleteSync, cfgVars
    <2>3. CASE ~(isSyncing /\ current >= latest)
        BY <1>7, <2>3 DEF FinishSync, cfgVars
    <2>4. QED
        BY <2>2, <2>3
<1>8. CASE FinalCallbackReturns
    BY <1>8 DEF FinalCallbackReturns, CompleteSync, cfgVars
<1>9. CASE UNCHANGED vars
    BY <1>9 DEF vars, syncVars, cfgVars
<1>10. QED
    BY <1>1, <1>2, <1>3, <1>4, <1>5, <1>6, <1>7, <1>8, <1>9 DEF Next, SyncStep

(***************************************************************************)
(* The type invariant of the synchroniser holds in every reachable state.  *)
(***************************************************************************)
THEOREM TypeCorrect == Spec => []TypeOK
<1>1. IInv => TypeOK
    BY DEF IInv
<1>2. QED
    BY <1>1, InitIInv, NextIInv, PTL DEF Spec

(***************************************************************************)
(* m_isSyncing, the guard of startSync and stopSync, is set exactly when   *)
(* getStatus() reports SYNCING, in every reachable state, callbacks        *)
(* stopping the run included.                                              *)
(***************************************************************************)
THEOREM FlagMatchesStatus == Spec => []SyncFlagMatchesStatus
<1>1. IInv => SyncFlagMatchesStatus
    BY DEF IInv
<1>2. QED
    BY <1>1, InitIInv, NextIInv, PTL DEF Spec

(***************************************************************************)
(* A run reported SYNCED has processed every height up to the latest one   *)
(* and reports progress 1.0.                                               *)
(***************************************************************************)
THEOREM CaughtUpWhenSynced == Spec => []SyncedMeansCaughtUp
<1>1. IInv => SyncedMeansCaughtUp
    BY DEF IInv, SyncedMeansCaughtUp
<1>2. QED
    BY <1>1, InitIInv, NextIInv, PTL DEF Spec

=============================================================================
