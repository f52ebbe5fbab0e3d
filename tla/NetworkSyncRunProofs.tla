------------------------ MODULE NetworkSyncRunProofs ------------------------
(***************************************************************************)
(* Proofs about one call of startSync: which heights the batch loop hands  *)
(* to processBlocks, that the current height never goes back within a     *)
(* call, and that the synchroniser implements SyncAbstract.  All three     *)
(* need heights that do not wrap: latest + batchSize must fit in uint64_t  *)
(* (NoWrap).  The program meets it: fetchLatestBlockHeight returns 12345   *)
(* and the batch is 100.  For a height within batchSize of 2^64 the loop   *)
(* start would wrap back to 0 and none of them would hold.                 *)
(***************************************************************************)
EXTENDS NetworkSyncProofs

USE BatchAssumption, ModulusAssumption, HeightsAssumption

\* No reported height is within batchSize of the top of the uint64_t range.
NoWrap == \A h \in ReportedHeights : h + BatchSize <= Modulus

\* A call of startSync is running, or the last one completed.
Active == pc # "idle" \/ status = "SYNCED"

\* The loop has ended (or is ending) with the latest height reached.
Done == (pc = "final" /\ isSyncing) \/ pc = "finalCallback" \/ status = "SYNCED"

(***************************************************************************)
(* The state of the batch loop in terms of the number n = Len(batches) of  *)
(* processBlocks calls made so far: at the top of the loop height = n *    *)
(* batchSize, after processBlocks height = (n - 1) * batchSize, and every  *)
(* batch end so far is min(i * batchSize, latest).  When the loop has      *)
(* ended caught up, n is the least with n * batchSize >= latest.           *)
(***************************************************************************)
RunInv ==
    /\ Active => latest + BatchSize <= Modulus
    /\ Active => \A i \in 1 .. Len(batches) :
                     batches[i] = MinHeight(i * BatchSize, latest)
    /\ pc = "batch" =>
           /\ isSyncing
           /\ height = Len(batches) * BatchSize
           /\ height < latest
           /\ current = height
    /\ pc \in {"callback", "sleep"} =>
           /\ Len(batches) >= 1
           /\ height = (Len(batches) - 1) * BatchSize
           /\ height < latest
           /\ current = MinHeight(height + BatchSize, latest)
    /\ Done =>
           /\ latest <= Len(batches) * BatchSize
           /\ Len(batches) = 0 \/ (Len(batches) - 1) * BatchSize < latest
           /\ current = latest

LEMMA MulSucc ==
    ASSUME NEW n \in Nat, NEW b \in Nat
    PROVE  /\ (n + 1) * b = n * b + b
           /\ ((n + 1) - 1) * b = n * b
           /\ b >= 1 => n <= n * b
           /\ n * b \in Nat
BY SMT

\* Len(batches) = ceil(latest / batchSize) when it is the least n with
\* n * batchSize >= latest.
LEMMA CeilDiv ==
    ASSUME NEW n \in Nat, NEW b \in Nat \ {0}, NEW l \in Nat,
           l <= n * b, n = 0 \/ (n - 1) * b < l
    PROVE  n = (l + b - 1) \div b
<1>1. CASE n = 0
    BY <1>1, SMT
<1>2. CASE n # 0
    <2>1. n * b <= l + b - 1 /\ l + b - 1 < (n + 1) * b
        BY <1>2, SMT
    <2>2. QED
        BY <2>1, SMT
<1>3. QED
    BY <1>1, <1>2

LEMMA InitRunInv == Init => RunInv
BY DEF Init, RunInv, Active, Done

(***************************************************************************)
(* Below the top of the range, height + batchSize does not wrap.           *)
(***************************************************************************)
LEMMA NoWrapStep ==
    ASSUME NEW h \in Nat, h < latest, latest + BatchSize <= Modulus,
           latest \in Nat
    PROVE  Wrap(h + BatchSize) = h + BatchSize
BY DEF Wrap

LEMMA NextRunInv ==
    ASSUME NoWrap, IInv, RunInv, [Next]_vars
    PROVE  RunInv'
<1> USE DEF IInv, TypeOK, SyncFlagMatchesStatus
<1> DEFINE n == Len(batches)
<1>0. n \in Nat /\ latest \in Nat /\ height \in Nat /\ current \in Nat
    BY DEF Heights
<1>1. ASSUME NEW cb \in BOOLEAN, NEW h \in ReportedHeights, StartSync(cb, h)
      PROVE  RunInv'
    <2>1. h \in Nat /\ h + BatchSize <= Modulus
        BY DEF NoWrap, Heights
    <2>2. QED
        BY <1>1, <2>1 DEF StartSync, RunInv, Active, Done
<1>2. CASE ProcessBlocks
    <2>1. pc = "batch" /\ isSyncing /\ height = n * BatchSize
          /\ height < latest /\ current = height
          /\ latest + BatchSize <= Modulus
          /\ \A i \in 1 .. n : batches[i] = MinHeight(i * BatchSize, latest)
        BY <1>2 DEF ProcessBlocks, RunInv, Active
    <2>2. Wrap(height + BatchSize) = height + BatchSize
        BY <1>0, <2>1, NoWrapStep
    <2>3. n < Modulus
        BY <1>0, <2>1, MulSucc
    <2> DEFINE toHeight == MinHeight(height + BatchSize, latest)
    <2>4. batches' = Append(batches, toHeight) /\ current' = toHeight
          /\ pc' \in {"callback", "sleep"}
          /\ UNCHANGED <<status, latest, isSyncing, height>>
        BY <1>2, <2>2, <2>3 DEF ProcessBlocks
    <2>5. Len(batches') = n + 1
        BY <2>4
    <2>6. toHeight = MinHeight((n + 1) * BatchSize, latest)
        BY <1>0, <2>1, MulSucc
    <2>7. \A i \in 1 .. Len(batches') :
              batches'[i] = MinHeight(i * BatchSize, latest')
        <3> SUFFICES ASSUME NEW i \in 1 .. n + 1
                     PROVE  batches'[i] = MinHeight(i * BatchSize, latest)
            BY <2>4, <2>5
        <3>1. CASE i <= n
            <4>1. batches'[i] = batches[i]
                BY <2>4, <3>1
            <4>2. QED
                BY <2>1, <3>1, <4>1
        <3>2. CASE i = n + 1
            BY <2>4, <2>6, <3>2
        <3>3. QED
            BY <3>1, <3>2
    <2>8. height = (Len(batches') - 1) * BatchSize
        <3>1. ((n + 1) - 1) * BatchSize = n * BatchSize
            BY <1>0, MulSucc
        <3>2. QED
            BY <2>1, <2>5, <3>1
    <2>9. status # "SYNCED"
        BY <2>1
    <2>10. QED
        BY <2>1, <2>4, <2>7, <2>8, <2>9 DEF RunInv, Active, Done
<1>3. CASE CallbackStopSync
    BY <1>3 DEF CallbackStopSync, StopEffect, InCallback, RunInv, Active,
       Done
<1>4. ASSUME NEW e \in Endpoints, SetNetworkEndpoint(e)
      PROVE  RunInv'
    BY <1>4 DEF SetNetworkEndpoint, syncVars, RunInv, Active, Done
<1>5. CASE BatchCallbackReturns
    BY <1>5 DEF BatchCallbackReturns, RunInv, Active, Done
<1>6. CASE EndBatch
    <2>1. pc = "sleep" /\ n >= 1 /\ height = (n - 1) * BatchSize
          /\ height < latest /\ current = MinHeight(height + BatchSize, latest)
          /\ latest + BatchSize <= Modulus /\ status # "SYNCED"
        BY <1>6 DEF EndBatch, RunInv, Active
    <2>2. Wrap(height + BatchSize) = height + BatchSize
        BY <1>0, <2>1, NoWrapStep
    <2>3. height + BatchSize = n * BatchSize
        BY <1>0, <2>1, MulSucc
    <2>4. UNCHANGED <<status, latest, current, isSyncing, batches>>
        BY <1>6 DEF EndBatch
    <2>5. CASE isSyncing /\ height + BatchSize < latest
        <3>1. pc' = "batch" /\ height' = height + BatchSize
            BY <1>6, <2>2, <2>5 DEF EndBatch, LoopHead
        <3>2. current = height + BatchSize
            BY <2>1, <2>5 DEF MinHeight
        <3>3. QED
            BY <2>1, <2>3, <2>4, <2>5, <3>1, <3>2 DEF RunInv, Active, Done
    <2>6. CASE isSyncing /\ ~(height + BatchSize < latest)
        <3>1. pc' = "final"
            BY <1>6, <2>2, <2>6 DEF EndBatch, LoopHead
        <3>2. current = latest
            BY <1>0, <2>1, <2>6 DEF MinHeight
        <3>3. QED
            BY <1>0, <2>1, <2>3, <2>4, <2>6, <3>1, <3>2 DEF RunInv, Active, Done
    <2>7. CASE ~isSyncing
        <3>1. pc' = "final"
            BY <1>6, <2>7 DEF EndBatch
        <3>2. QED
            BY <2>1, <2>4, <2>7, <3>1 DEF RunInv, Active, Done
    <2>8. QED
        BY <2>5, <2>6, <2>7
<1>7. CASE FinishSync
    <2>1. CASE isSyncing /\ current >= latest
        <3>1. Done /\ Active
            BY <1>7, <2>1 DEF FinishSync, Done, Active
        <3>2. Done' /\ Active'
            <4>1. CASE hasCallback
                <5>1. pc' = "finalCallback"
                    BY <1>7, <2>1, <4>1 DEF FinishSync
                <5>2. QED
                    BY <5>1 DEF Done, Active
            <4>2. CASE ~hasCallback
                <5>1. status' = "SYNCED"
                    BY <1>7, <2>1, <4>2 DEF FinishSync, CompleteSync
                <5>2. QED
                    BY <5>1 DEF Done, Active
            <4>3. QED
                BY <4>1, <4>2
        <3>4. UNCHANGED <<latest, current, batches>>
              /\ pc' \in {"finalCallback", "idle"}
            BY <1>7 DEF FinishSync, CompleteSync
        <3>5. QED
            BY <3>1, <3>2, <3>4 DEF RunInv
    <2>2. CASE ~(isSyncing /\ current >= latest)
        <3>1. pc' = "idle" /\ UNCHANGED status
            BY <1>7, <2>2 DEF FinishSync
        <3>2. status # "SYNCED"
            BY <1>7 DEF FinishSync
        <3>3. QED
            BY <3>1, <3>2 DEF RunInv, Active, Done
    <2>3. QED
        BY <2>1, <2>2
<1>8. CASE FinalCallbackReturns
    BY <1>8 DEF FinalCallbackReturns, CompleteSync, RunInv, Active, Done
<1>9. CASE UNCHANGED vars
    BY <1>9 DEF vars, syncVars, RunInv, Active, Done
<1>10. QED
    BY <1>1, <1>2, <1>3, <1>4, <1>5, <1>6, <1>7, <1>8, <1>9 DEF Next, SyncStep

(***************************************************************************)
(* A run reported SYNCED handed processBlocks the batch ends               *)
(* min(i * batchSize, latest), one for each of the ceil(latest /           *)
(* batchSize) batches, for every batch size and every reported height      *)
(* that does not wrap uint64_t.                                            *)
(***************************************************************************)
THEOREM CoversAllHeights ==
    ASSUME NoWrap
    PROVE  Spec => []SyncedCoversAllHeights
<1>1. IInv /\ RunInv => SyncedCoversAllHeights
    <2> SUFFICES ASSUME IInv, RunInv, status = "SYNCED"
                 PROVE  SyncedCoversAllHeights
        BY DEF SyncedCoversAllHeights
    <2>1. Done /\ Active
        BY DEF Done, Active
    <2>2. Len(batches) \in Nat /\ latest \in Nat
        BY DEF IInv, TypeOK, Heights
    <2>3. Len(batches) = (latest + BatchSize - 1) \div BatchSize
        BY <2>1, <2>2, CeilDiv DEF RunInv
    <2>4. QED
        BY <2>1, <2>3 DEF RunInv, SyncedCoversAllHeights
<1>2. IInv /\ RunInv /\ [Next]_vars => IInv' /\ RunInv'
    BY NextIInv, NextRunInv
<1>3. QED
    BY <1>1, <1>2, InitIInv, InitRunInv, PTL DEF Spec

(***************************************************************************)
(* The one step of a call that moves the current height, processBlocks,    *)
(* moves it up: it starts from current = height < latest.                  *)
(***************************************************************************)
LEMMA StepNeverBacktracks ==
    ASSUME NoWrap, IInv, RunInv, [Next]_vars
    PROVE  pc # "idle" /\ pc' # "idle" => current <= current'
<1> USE DEF IInv, TypeOK
<1>0. latest \in Nat /\ height \in Nat /\ current \in Nat
    BY DEF Heights
<1>1. CASE ProcessBlocks
    <2>1. pc = "batch" /\ height < latest /\ current = height
          /\ latest + BatchSize <= Modulus
        BY <1>1 DEF ProcessBlocks, RunInv, Active
    <2>2. Wrap(height + BatchSize) = height + BatchSize
        BY <1>0, <2>1, NoWrapStep
    <2>3. current' = MinHeight(height + BatchSize, latest)
        BY <1>1, <2>2 DEF ProcessBlocks
    <2>4. QED
        BY <1>0, <2>1, <2>3 DEF MinHeight
<1>2. ASSUME NEW cb \in BOOLEAN, NEW h \in ReportedHeights, StartSync(cb, h)
      PROVE  pc # "idle" /\ pc' # "idle" => current <= current'
    BY <1>2 DEF StartSync
<1>3. CASE UNCHANGED current
    BY <1>0, <1>3
<1>4. QED
    <2>1. [Next]_vars => \/ ProcessBlocks
                         \/ \E cb \in BOOLEAN, h \in ReportedHeights :
                               StartSync(cb, h)
                         \/ UNCHANGED current
        BY DEF Next, SyncStep, BatchCallbackReturns, EndBatch, FinishSync,
           FinalCallbackReturns, CallbackStopSync, SetNetworkEndpoint,
           syncVars, vars
    <2>2. QED
        BY <1>1, <1>2, <1>3, <2>1

(***************************************************************************)
(* Within one call of startSync the current height never goes back, for    *)
(* every batch size and non-wrapping height: progress may still jump back  *)
(* when a new call starts (the sync_progress run), the height only resets  *)
(* there.                                                                  *)
(***************************************************************************)
THEOREM HeightMonotone ==
    ASSUME NoWrap
    PROVE  Spec => HeightNeverBacktracksInRun
<1>1. IInv /\ RunInv /\ [Next]_vars => IInv' /\ RunInv'
    BY NextIInv, NextRunInv
<1>2. IInv /\ RunInv /\ [Next]_vars
        => [pc # "idle" /\ pc' # "idle" => current <= current']_vars
    BY StepNeverBacktracks
<1>3. QED
    BY <1>1, <1>2, InitIInv, InitRunInv, PTL DEF Spec, HeightNeverBacktracksInRun

(***************************************************************************)
(* The initial state of the synchroniser is the initial state of           *)
(* SyncAbstract: nothing running, NOT_SYNCED, heights 0.                    *)
(***************************************************************************)
LEMMA InitRefines == Init => Abs!Init
BY DEF Init, Abs!Init

(***************************************************************************)
(* Each step maps to an abstract one: startSync to Start, processBlocks to *)
(* Advance, stopSync from a callback to Stop, the completion in            *)
(* updateProgress to Complete, a stopped call's return to Return, and the  *)
(* callbacks' returns, the loop tail and setNetworkEndpoint to stutters.   *)
(***************************************************************************)
LEMMA StepRefines ==
    ASSUME NoWrap, IInv, RunInv, [Next]_vars
    PROVE  [Abs!Next]_Abs!vars
<1> USE DEF IInv, TypeOK, SyncFlagMatchesStatus
<1>0. latest \in Nat /\ height \in Nat /\ current \in Nat
    BY DEF Heights
<1>1. ASSUME NEW cb \in BOOLEAN, NEW h \in ReportedHeights, StartSync(cb, h)
      PROVE  [Abs!Next]_Abs!vars
    <2>1. Abs!Start(h)
        BY <1>1 DEF StartSync, Abs!Start
    <2>2. QED
        BY <2>1 DEF Abs!Next
<1>2. CASE ProcessBlocks
    <2>1. pc = "batch" /\ isSyncing /\ height < latest /\ current = height
          /\ latest + BatchSize <= Modulus
        BY <1>2 DEF ProcessBlocks, RunInv, Active
    <2>2. Wrap(height + BatchSize) = height + BatchSize
        BY <1>0, <2>1, NoWrapStep
    <2>3. current' = MinHeight(height + BatchSize, latest)
          /\ pc' \in {"callback", "sleep"}
          /\ UNCHANGED <<status, latest>>
        BY <1>2, <2>2 DEF ProcessBlocks
    <2>4. current' \in (current + 1) .. latest
        BY <1>0, <2>1, <2>3 DEF MinHeight
    <2>5. Abs!Advance
        BY <2>1, <2>3, <2>4 DEF Abs!Advance
    <2>6. QED
        BY <2>5 DEF Abs!Next
<1>3. CASE CallbackStopSync
    <2>1. Abs!Stop
        BY <1>3 DEF CallbackStopSync, StopEffect, InCallback, Abs!Stop
    <2>2. QED
        BY <2>1 DEF Abs!Next
<1>4. ASSUME NEW e \in Endpoints, SetNetworkEndpoint(e)
      PROVE  [Abs!Next]_Abs!vars
    BY <1>4 DEF SetNetworkEndpoint, syncVars, Abs!vars
<1>5. CASE BatchCallbackReturns
    BY <1>5 DEF BatchCallbackReturns, Abs!vars
<1>6. CASE EndBatch
    BY <1>6 DEF EndBatch, LoopHead, Abs!vars
<1>7. CASE FinishSync
    <2>1. CASE isSyncing /\ current >= latest /\ hasCallback
        BY <1>7, <2>1 DEF FinishSync, Abs!vars
    <2>2. CASE isSyncing /\ current >= latest /\ ~hasCallback
        <3>1. current = latest
            BY <1>7, <2>2 DEF FinishSync, RunInv, Done
        <3>2. Abs!Complete
            BY <1>7, <2>2, <3>1 DEF FinishSync, CompleteSync, Abs!Complete
        <3>3. QED
            BY <3>2 DEF Abs!Next
    <2>3. CASE ~(isSyncing /\ current >= latest)
        <3>1. ~isSyncing
            BY <1>0, <1>7, <2>3 DEF FinishSync, RunInv, Done
        <3>2. Abs!Return
            BY <1>7, <2>3, <3>1 DEF FinishSync, Abs!Return
        <3>3. QED
            BY <3>2 DEF Abs!Next
    <2>4. QED
        BY <2>1, <2>2, <2>3
<1>8. CASE FinalCallbackReturns
    <2>1. current = latest
        BY <1>8 DEF FinalCallbackReturns
    <2>2. Abs!Complete
        BY <1>8, <2>1 DEF FinalCallbackReturns, CompleteSync, Abs!Complete
    <2>3. QED
        BY <2>2 DEF Abs!Next
<1>9. CASE UNCHANGED vars
    BY <1>9 DEF vars, syncVars, Abs!vars
<1>10. QED
    BY <1>1, <1>2, <1>3, <1>4, <1>5, <1>6, <1>7, <1>8, <1>9 DEF Next, SyncStep

(***************************************************************************)
(* The synchroniser implements SyncAbstract for every batch size and every *)
(* non-wrapping reported height: the batch loop, its callbacks and a stop  *)
(* from inside them only ever advance the height towards the target, and   *)
(* SYNCED is reported only by a call that returns caught up.              *)
(***************************************************************************)
THEOREM Refinement ==
    ASSUME NoWrap
    PROVE  Spec => SyncRefinesAbstract
<1>1. IInv /\ RunInv /\ [Next]_vars => IInv' /\ RunInv'
    BY NextIInv, NextRunInv
<1>2. IInv /\ RunInv /\ [Next]_vars => [Abs!Next]_Abs!vars
    BY StepRefines
<1>3. QED
    BY <1>1, <1>2, InitIInv, InitRunInv, InitRefines, PTL
       DEF Spec, SyncRefinesAbstract, Abs!Spec

=============================================================================
