---------------------------- MODULE NetworkSync ----------------------------
(***************************************************************************)
(* The network synchroniser of the LuminaChain wallet                      *)
(* (src/unnamed/part_005, class NetworkSync, declared in                   *)
(* src/include/network/sync.h).                                            *)
(*                                                                         *)
(* startSync() connects, fetches the latest height and then runs           *)
(* simulateSync() on the caller's thread: a loop over batches of           *)
(* BatchSize heights, each batch calling processBlocks(), which updates    *)
(* the current height and the progress and then calls the user's progress  *)
(* callback synchronously.  The callback may call back into the object;    *)
(* stopSync() from inside the callback is the only way the loop can be     *)
(* cancelled, and the loop checks for it after each batch.  After the loop *)
(* updateProgress(1.0) calls the callback once more before it marks the    *)
(* run SYNCED.                                                             *)
(*                                                                         *)
(* The control point of that single thread is pc:                          *)
(*   "idle"          no call of startSync is running                       *)
(*   "batch"         at the top of the loop body, height < latest          *)
(*   "callback"      inside m_callback called by processBlocks             *)
(*   "sleep"         after processBlocks, at the sleep and the stop check  *)
(*   "final"         after the loop, at the completion check               *)
(*   "finalCallback" inside m_callback called by updateProgress(1.0)       *)
(*                                                                         *)
(* Heights are uint64_t in the code; here they are integers modulo         *)
(* Modulus (2^64 in the code), so the arithmetic of height + batchSize is  *)
(* the code's.  fetchLatestBlockHeight() always reports 12345, so no batch *)
(* of the program wraps; the runs' ReportedHeights do not either.          *)
(* The float progress is kept exactly as the fraction                      *)
(* <<numerator, denominator>>.                                             *)
(* setNetworkEndpoint() also writes the Config singleton and saves the     *)
(* config file: cfgValue is the network_endpoint entry of the in-memory    *)
(* Config, cfgFile the entry in the file, cfgLoaded whether main() loaded  *)
(* a config file (Config::m_configFilePath is non-empty).                  *)
(***************************************************************************)
EXTENDS Naturals, Sequences

CONSTANTS
    BatchSize,        \* simulateSync: uint64_t batchSize = 100
    Modulus,          \* heights are uint64_t: taken modulo 2^64
    ReportedHeights,  \* heights fetchLatestBlockHeight() can obtain
    Endpoints,        \* endpoint URLs
    DefaultEndpoint,  \* "https://node.luminachain.network"
    NoValue           \* no network_endpoint entry in the config

Heights == 0 .. (Modulus - 1)

ASSUME BatchAssumption == BatchSize \in Nat \ {0}
ASSUME ModulusAssumption == Modulus \in Nat /\ Modulus >= 2
ASSUME HeightsAssumption == ReportedHeights \subseteq Heights
                              /\ ReportedHeights # {}
ASSUME EndpointAssumption == DefaultEndpoint \in Endpoints
                               /\ NoValue \notin Endpoints

VARIABLES
    status,       \* m_status
    progress,     \* m_progress, as <<numerator, denominator>>
    latest,       \* m_latestBlockHeight
    current,      \* m_currentBlockHeight
    isSyncing,    \* m_isSyncing
    hasCallback,  \* m_callback is set
    pc,           \* control point of the thread running startSync
    height,       \* the loop variable of simulateSync
    endpoint,     \* m_networkEndpoint
    cfgValue,     \* Config network_endpoint entry in memory
    cfgFile,      \* network_endpoint entry of the config file
    cfgLoaded,    \* Config::m_configFilePath is non-empty
    batches       \* auxiliary: toHeight of each processBlocks of this run,
                  \* kept up to Modulus entries (more than any run
                  \* that does not wrap has batches)

syncVars == <<status, progress, latest, current, isSyncing, hasCallback,
              pc, height, batches>>
cfgVars == <<endpoint, cfgValue, cfgFile, cfgLoaded>>
vars == <<syncVars, cfgVars>>

Statuses == {"NOT_SYNCED", "SYNCING", "SYNCED"}
ControlPoints == {"idle", "batch", "callback", "sleep", "final",
                  "finalCallback"}
InCallback == pc \in {"callback", "finalCallback"}

\* uint64_t addition wraps around.
Wrap(n) == n % Modulus

MinHeight(a, b) == IF a <= b THEN a ELSE b

\* The loop condition of simulateSync: height < m_latestBlockHeight.
LoopHead(h) == IF h < latest THEN "batch" ELSE "final"

\* The constructor's endpoint: the config entry when it is non-empty.
ConfiguredEndpoint(v) == IF v # NoValue THEN v ELSE DefaultEndpoint

\* Config::saveToFile(): fails without a loaded path, or when the file
\* cannot be opened for writing; otherwise the file holds the entry.
SaveConfig(v) == cfgFile' \in IF cfgLoaded THEN {v, cfgFile} ELSE {cfgFile}

-----------------------------------------------------------------------------
(***************************************************************************)
(* Construction: main() loads the config file (or fails to, leaving the    *)
(* path empty) and the constructor takes the endpoint from the config when *)
(* it has one.                                                             *)
(***************************************************************************)
Init ==
    /\ status = "NOT_SYNCED"
    /\ progress = <<0, 1>>
    /\ latest = 0
    /\ current = 0
    /\ isSyncing = FALSE
    /\ hasCallback = FALSE
    /\ pc = "idle"
    /\ height = 0
    /\ batches = <<>>
    /\ cfgLoaded \in BOOLEAN
    /\ cfgFile \in IF cfgLoaded THEN Endpoints \cup {NoValue} ELSE {NoValue}
    /\ cfgValue = cfgFile
    /\ endpoint = ConfiguredEndpoint(cfgValue)

\* Mutant: simulateSync does not reset the current height.
StartSyncKeepsHeight(cb, reported) ==
    /\ pc = "idle"
    /\ ~isSyncing
    /\ hasCallback' = (hasCallback \/ cb)
    /\ latest' = reported
    /\ status' = "SYNCING"
    /\ isSyncing' = TRUE
    /\ height' = 0
    /\ pc' = IF 0 < reported THEN "batch" ELSE "final"
    /\ batches' = <<>>
    /\ UNCHANGED <<progress, current, cfgVars>>

(***************************************************************************)
(* startSync(callback): rejected while m_isSyncing; otherwise keeps the    *)
(* callback if one is given, connects (always succeeds), fetches the       *)
(* latest height (reported), sets SYNCING and enters simulateSync, which   *)
(* resets the current height and tests the loop condition for height 0.   *)
(* m_progress is left as the previous run left it.                         *)
(***************************************************************************)
StartSync(cb, reported) ==
    /\ pc = "idle"
    /\ ~isSyncing
    /\ hasCallback' = (hasCallback \/ cb)
    /\ latest' = reported
    /\ status' = "SYNCING"
    /\ isSyncing' = TRUE
    /\ current' = 0
    /\ height' = 0
    /\ pc' = IF 0 < reported THEN "batch" ELSE "final"
    /\ batches' = <<>>
    /\ UNCHANGED <<progress, cfgVars>>

\* Mutant: the progress fraction divides by the batch start.
ProcessBlocksByStart ==
    LET toHeight == MinHeight(Wrap(height + BatchSize), latest)
    IN  /\ pc = "batch"
        /\ current' = toHeight
        /\ progress' = <<toHeight, height>>
        /\ pc' = IF hasCallback THEN "callback" ELSE "sleep"
        /\ batches' = IF Len(batches) < Modulus
                         THEN Append(batches, toHeight) ELSE batches
        /\ UNCHANGED <<status, latest, isSyncing, hasCallback, height,
                       cfgVars>>

\* Mutant: the last batch is not clipped to the latest height.
ProcessBlocksNoClip ==
    LET toHeight == Wrap(height + BatchSize)
    IN  /\ pc = "batch"
        /\ current' = toHeight
        /\ progress' = IF latest > 0 THEN <<MinHeight(toHeight, latest), latest>>
                                     ELSE progress
        /\ pc' = IF hasCallback THEN "callback" ELSE "sleep"
        /\ batches' = IF Len(batches) < Modulus
                         THEN Append(batches, toHeight) ELSE batches
        /\ UNCHANGED <<status, latest, isSyncing, hasCallback, height,
                       cfgVars>>

\* Mutant: the batch end is one past height + batchSize.
ProcessBlocksOffByOne ==
    LET toHeight == MinHeight(Wrap(height + BatchSize + 1), latest)
    IN  /\ pc = "batch"
        /\ current' = toHeight
        /\ progress' = IF latest > 0 THEN <<toHeight, latest>> ELSE progress
        /\ pc' = IF hasCallback THEN "callback" ELSE "sleep"
        /\ batches' = IF Len(batches) < Modulus
                         THEN Append(batches, toHeight) ELSE batches
        /\ UNCHANGED <<status, latest, isSyncing, hasCallback, height,
                       cfgVars>>

(***************************************************************************)
(* One loop iteration up to the callback: toHeight = min(height +          *)
(* batchSize, latest) and processBlocks(height, toHeight), which sets the  *)
(* current height and the progress and then calls the callback.            *)
(***************************************************************************)
ProcessBlocks ==
    LET toHeight == MinHeight(Wrap(height + BatchSize), latest)
    IN  /\ pc = "batch"
        /\ current' = toHeight
        /\ progress' = IF latest > 0 THEN <<toHeight, latest>> ELSE progress
        /\ pc' = IF hasCallback THEN "callback" ELSE "sleep"
        /\ batches' = IF Len(batches) < Modulus
                         THEN Append(batches, toHeight) ELSE batches
        /\ UNCHANGED <<status, latest, isSyncing, hasCallback, height,
                       cfgVars>>

\* Mutant: stopSync() clears the flag and leaves the status.
StopEffectKeepsStatus ==
    /\ status' = status
    /\ isSyncing' = FALSE

\* The state change of stopSync() once it has passed its guard.
StopEffect ==
    /\ status' = IF status # "SYNCED" THEN "NOT_SYNCED" ELSE status
    /\ isSyncing' = FALSE

(***************************************************************************)
(* stopSync() called from inside the progress callback: rejected unless   *)
(* m_isSyncing; otherwise NOT_SYNCED unless already SYNCED, and the flag   *)
(* is cleared.  The loop notices it at the next check.                     *)
(***************************************************************************)
CallbackStopSync ==
    /\ InCallback
    /\ isSyncing
    /\ StopEffect
    /\ UNCHANGED <<progress, latest, current, hasCallback, pc, height,
                   batches, cfgVars>>

(***************************************************************************)
(* setNetworkEndpoint(e), from the user between runs or from a callback:   *)
(* the member, the in-memory Config entry and Config::saveToFile(), which  *)
(* fails when no config file path is known.                                *)
(***************************************************************************)
SetNetworkEndpoint(e) ==
    /\ pc \in {"idle", "callback", "finalCallback"}
    /\ endpoint' = e
    /\ cfgValue' = e
    /\ SaveConfig(e)
    /\ UNCHANGED <<syncVars, cfgLoaded>>

\* The callback called by processBlocks returns.
BatchCallbackReturns ==
    /\ pc = "callback"
    /\ pc' = "sleep"
    /\ UNCHANGED <<status, progress, latest, current, isSyncing, hasCallback,
                   height, batches, cfgVars>>

\* Mutant: the loop body never advances height.
EndBatchNoAdvance ==
    /\ pc = "sleep"
    /\ IF isSyncing
         THEN /\ pc' = LoopHead(height)
              /\ UNCHANGED height
         ELSE /\ pc' = "final"
              /\ UNCHANGED height
    /\ UNCHANGED <<status, progress, latest, current, isSyncing, hasCallback,
                   batches, cfgVars>>

(***************************************************************************)
(* Rest of the loop body: after the sleep, break if m_isSyncing was        *)
(* cleared, else height += batchSize (wrapping) and test the loop          *)
(* condition again.                                                        *)
(***************************************************************************)
EndBatch ==
    /\ pc = "sleep"
    /\ IF isSyncing
         THEN /\ height' = Wrap(height + BatchSize)
              /\ pc' = LoopHead(Wrap(height + BatchSize))
         ELSE /\ pc' = "final"
              /\ UNCHANGED height
    /\ UNCHANGED <<status, progress, latest, current, isSyncing, hasCallback,
                   batches, cfgVars>>

\* The tail of updateProgress(1.0) after its callback call.
CompleteSync ==
    /\ status' = "SYNCED"
    /\ isSyncing' = FALSE
    /\ pc' = "idle"

\* Mutant: SYNCED is set before the final callback is called.
FinishSyncMarksFirst ==
    /\ pc = "final"
    /\ IF isSyncing /\ current >= latest
         THEN /\ progress' = <<1, 1>>
              /\ status' = "SYNCED"
              /\ isSyncing' = FALSE
              /\ pc' = IF hasCallback THEN "finalCallback" ELSE "idle"
         ELSE /\ pc' = "idle"
              /\ UNCHANGED <<status, progress, isSyncing>>
    /\ UNCHANGED <<latest, current, hasCallback, height, batches, cfgVars>>

(***************************************************************************)
(* After the loop: if still syncing and the current height reached the     *)
(* latest, updateProgress(1.0): progress 1, the callback (if set), then    *)
(* SYNCED.  Otherwise startSync returns with the state as it is.           *)
(***************************************************************************)
FinishSync ==
    /\ pc = "final"
    /\ IF isSyncing /\ current >= latest
         THEN /\ progress' = <<1, 1>>
              /\ IF hasCallback
                   THEN /\ pc' = "finalCallback"
                        /\ UNCHANGED <<status, isSyncing>>
                   ELSE CompleteSync
         ELSE /\ pc' = "idle"
              /\ UNCHANGED <<status, progress, isSyncing>>
    /\ UNCHANGED <<latest, current, hasCallback, height, batches, cfgVars>>

\* The callback called by updateProgress(1.0) returns.
FinalCallbackReturns ==
    /\ pc = "finalCallback"
    /\ CompleteSync
    /\ UNCHANGED <<progress, latest, current, hasCallback, height, batches, cfgVars>>

\* The steps the synchronising thread takes by itself.
SyncStep ==
    \/ ProcessBlocks
    \/ BatchCallbackReturns
    \/ EndBatch
    \/ FinishSync
    \/ FinalCallbackReturns

Next ==
    \/ \E cb \in BOOLEAN, h \in ReportedHeights : StartSync(cb, h)
    \/ SyncStep
    \/ CallbackStopSync
    \/ \E e \in Endpoints : SetNetworkEndpoint(e)

(***************************************************************************)
(* The loop runs on the caller's thread and never blocks, and a callback   *)
(* returns: the thread's own steps are weakly fair.  The user's calls are  *)
(* not.                                                                    *)
(***************************************************************************)
Spec == Init /\ [][Next]_vars
FairSpec == Spec /\ WF_vars(SyncStep)

-----------------------------------------------------------------------------
\* Fractions ordered by cross-multiplication.
FracLeq(p, q) == p[1] * q[2] <= q[1] * p[2]

TypeOK ==
    /\ status \in Statuses
    /\ progress \in Heights \X (Heights \ {0})
    /\ latest \in Heights
    /\ current \in Heights
    /\ isSyncing \in BOOLEAN
    /\ hasCallback \in BOOLEAN
    /\ pc \in ControlPoints
    /\ height \in Heights
    /\ endpoint \in Endpoints
    /\ cfgValue \in Endpoints \cup {NoValue}
    /\ cfgFile \in Endpoints \cup {NoValue}
    /\ cfgLoaded \in BOOLEAN
    /\ batches \in Seq(Heights)
    /\ Len(batches) <= Modulus

(***************************************************************************)
(* m_isSyncing, which guards startSync and stopSync, is set exactly when   *)
(* getStatus() reports SYNCING: stopSync from a callback, the completion   *)
(* in updateProgress and a restart of a finished run keep the two in step, *)
(* so a caller who sees NOT_SYNCED or SYNCED can start a run and one who   *)
(* sees SYNCING cannot.                                                    *)
(***************************************************************************)
SyncFlagMatchesStatus == isSyncing <=> status = "SYNCING"

(***************************************************************************)
(* A run reported SYNCED has processed up to the latest height and left    *)
(* progress at 1.0: simulateSync only completes when the current height    *)
(* reached the latest one, and processBlocks never goes beyond it.         *)
(***************************************************************************)
SyncedMeansCaughtUp ==
    status = "SYNCED" => current = latest /\ progress[1] = progress[2]

(***************************************************************************)
(* The heights handed to processBlocks by a run that ends SYNCED are the   *)
(* cumulative batch ends min(i * batchSize, latest), one per batch and     *)
(* none skipped (spec: latest 250, batch 100 gives 100, 200, 250).         *)
(***************************************************************************)
SyncedCoversAllHeights ==
    status = "SYNCED" =>
        /\ Len(batches) = (latest + BatchSize - 1) \div BatchSize
        /\ \A i \in 1 .. Len(batches) :
               batches[i] = MinHeight(i * BatchSize, latest)

(***************************************************************************)
(* Every call of startSync that starts a run returns: the batch loop       *)
(* reaches the latest height, or is stopped, in finitely many steps.       *)
(***************************************************************************)
SyncTerminates == (pc # "idle") ~> (pc = "idle")

(***************************************************************************)
(* Spec 3: progress is non-decreasing while status = SYNCING.  startSync   *)
(* does not reset m_progress, so a second run starts at the old value.     *)
(***************************************************************************)
ProgressMonotoneWhileSyncing ==
    [][status = "SYNCING" /\ status' = "SYNCING" => FracLeq(progress, progress')]_vars

(***************************************************************************)
(* Spec 3 and 4.4: reaching progress 1.0 implies SYNCED, and a stop after  *)
(* the final batch has completed leaves the run SYNCED.  Checked when      *)
(* startSync has returned.                                                 *)
(***************************************************************************)
CompletedRunIsSynced ==
    (pc = "idle" /\ latest > 0 /\ progress[1] = progress[2]) => status = "SYNCED"

(***************************************************************************)
(* Within one call of startSync the current height never goes back:        *)
(* processBlocks moves it to min(height + batchSize, latest) and only the  *)
(* reset in simulateSync lowers it.  Fails when height + batchSize wraps.  *)
(***************************************************************************)
HeightNeverBacktracksInRun ==
    [][pc # "idle" /\ pc' # "idle" => current <= current']_vars

\* The synchroniser seen through its promise: the call of startSync is
\* running while pc is not "idle".
Abs == INSTANCE SyncAbstract WITH height <- current, target <- latest,
                                  busy <- (pc # "idle")

(***************************************************************************)
(* The batch loop with its callbacks implements the abstract synchroniser:  *)
(* every step of startSync, processBlocks, stopSync from a callback and    *)
(* updateProgress is a step of SyncAbstract or leaves its state alone, so  *)
(* SYNCED is only reported as the call returns caught up.                  *)
(***************************************************************************)
SyncRefinesAbstract == Abs!Spec

=============================================================================
