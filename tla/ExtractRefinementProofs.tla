---------------------- MODULE ExtractRefinementProofs ----------------------
(***************************************************************************)
(* Proofs about the steps of ExtractWorker: what no step takes back, who   *)
(* is left behind while nothing fails, and that every step is one of the   *)
(* client's contract or invisible to the client.                           *)
(***************************************************************************)
EXTENDS ExtractOutcomeProofs
-----------------------------------------------------------------------------
(***************************************************************************)
(* What no step takes back.                                                *)
(***************************************************************************)

\* A worker whose extract has its outcome only has the client left to tell.
LEMMA WorkerStepFinal ==
  ASSUME OutcomeInv, NEW w \in Workers, WorkerStep(w) \/ ProcessRaises(w),
         NEW e \in Extracts, status[e] \in Outcomes
  PROVE  status'[e] = status[e] /\ state'[e] = state[e] /\ published'[e] = published[e]
<1>a. OwnershipInv /\ OneRun
  BY DEF OutcomeInv, RunInv
<1>1. CASE e # job[w]
  BY <1>a, <1>1, OtherExtracts DEF SameExtract
<1>2. CASE e = job[w]
  <2>1. Telling(w)
    BY <1>a, <1>2, HolderStands
  <2> QED
    BY <1>a, <1>2, <2>1, WorkerStepSeen
       DEF Seen, Telling, Filling, StartRun, FinalizeCancelled, CommitOutcome,
           PromoteRename, PromoteSuccess
<1> QED
  BY <1>1, <1>2

\* No step of anyone rewrites an outcome.
LEMMA NextFinal ==
  ASSUME OutcomeInv, [Next]_vars, NEW e \in Extracts, status[e] \in Outcomes
  PROVE  status'[e] = status[e] /\ state'[e] = state[e] /\ published'[e] = published[e]
<1>1. CASE Handlers
  <2>a. RowsOK
    BY DEF OutcomeInv, RunInv, OwnershipInv, TypeOK
  <2> QED
    BY <1>1, <2>a DEF Handlers, CreateExtract, Enqueue, CreateAborts,
       CancelExtract, CancelAborts, Cancellable, Outcomes, RowsOK, rowVars,
       storeVars
<1>2. CASE AdminHooks \/ Crash \/ UNCHANGED vars
  BY <1>2, HooksSeen DEF rowVars, storeVars
<1> QED
  BY <1>1, <1>2, WorkerStepFinal DEF Next

\* What a finished run reports is final: no late cancel, no other worker, no
\* restart rewrites the row or the published prefix.
THEOREM OutcomesStand == Spec => OutcomeStable
<1>1. OutcomeInv /\ [Next]_vars =>
          [\A e \in Extracts : status[e] \in Outcomes =>
              /\ status'[e] = status[e]
              /\ state'[e] = state[e]
              /\ published'[e] = published[e]]_vars
  BY NextFinal
<1> QED
  BY <1>1, OutcomeInvariant, PTL DEF Spec, OutcomeStable

\* A worker whose extract was cancelled before its run does not start it.
LEMMA WorkerStepEarly ==
  ASSUME OutcomeInv, NEW w \in Workers, WorkerStep(w) \/ ProcessRaises(w),
         NEW e \in Extracts, status[e] = "CANCELLED", ~runId[e]
  PROVE  SameExtract(e)
<1>a. OwnershipInv /\ OneRun
  BY DEF OutcomeInv, RunInv
<1>1. CASE e # job[w]
  BY <1>a, <1>1, OtherExtracts
<1>2. CASE e = job[w]
  <2>1. Waiting(w)
    BY <1>a, <1>2, HolderStands DEF RunOf, Outcome
  <2> QED
    BY <1>a, <1>2, <2>1, WorkerStepSeen
       DEF Seen, SameExtract, Waiting, Telling, Filling, StartRun, Startable,
           FinalizeCancelled, CommitOutcome, PromoteRename, PromoteSuccess
<1> QED
  BY <1>1, <1>2

\* Nor does anyone else bring it back.
LEMMA NextEarly ==
  ASSUME OutcomeInv, [Next]_vars, NEW e \in Extracts, status[e] = "CANCELLED", ~runId[e]
  PROVE  SameExtract(e)
<1>1. CASE Handlers
  <2>a. RowsOK
    BY DEF OutcomeInv, RunInv, OwnershipInv, TypeOK
  <2> QED
    BY <1>1, <2>a DEF Handlers, CreateExtract, Enqueue, CreateAborts,
       CancelExtract, CancelAborts, Cancellable, RowsOK, rowVars, storeVars,
       SameExtract
<1>2. CASE AdminHooks \/ Crash \/ UNCHANGED vars
  BY <1>2, HooksSeen DEF rowVars, storeVars, SameExtract
<1> QED
  BY <1>1, <1>2, WorkerStepEarly DEF Next

\* A cancel that comes before the run is final for the row, both prefixes and
\* the client, also for a job in a worker's hands behind the pause gate.
THEOREM EarlyCancelStands == Spec => CancelledEarlyIsFinal
<1>1. ASSUME OutcomeInv, [Next]_vars
      PROVE  [\A e \in Extracts : status[e] = "CANCELLED" /\ ~runId[e] =>
                 /\ status'[e] = "CANCELLED" /\ ~runId'[e]
                 /\ staging'[e] = NoDir /\ published'[e] = NoDir
                 /\ notices'[e] = <<>>]_vars
  <2> SUFFICES ASSUME NEW e \in Extracts, status[e] = "CANCELLED", ~runId[e]
               PROVE  /\ status'[e] = "CANCELLED" /\ ~runId'[e]
                      /\ staging'[e] = NoDir /\ published'[e] = NoDir
                      /\ notices'[e] = <<>>
    BY <1>1
  <2>1. SameExtract(e)
    BY <1>1, NextEarly
  <2>2. RowOf(e)
    BY <1>1 DEF OutcomeInv, RunInv, OneRun
  <2> QED
    BY <2>1, <2>2 DEF SameExtract, RowOf, Outcomes
<1> QED
  BY <1>1, OutcomeInvariant, PTL DEF Spec, CancelledEarlyIsFinal
-----------------------------------------------------------------------------
(***************************************************************************)
(* Who is left behind while the process lives and nothing raises.          *)
(***************************************************************************)

\* Nothing has failed yet.
Undisturbed == crashes = 0 /\ raises = 0

\* A run is through with its staging prefix before it lets go of the extract.
StagingGone ==
    Undisturbed =>
        \A w \in Workers :
            pc[w] \in {"mark", "discard", "commit", "emit", "publish"} =>
                staging[job[w]] = NoDir

\* A create handler holds the loop: there is one at most.
OneCreating == \A d, e \in creating : d = e

KeepingInv == RunInv /\ OneCreating /\ NoOrphan /\ StagingGone /\ StagingOwned

\* No step undoes a crash or an exception, and the faults count.
LEMMA StillUndisturbed ==
  ASSUME TypeOK, Next, Undisturbed'
  PROVE  Undisturbed /\ ~Crash /\ \A w \in Workers : ~ProcessRaises(w)
<1> USE DEF rowVars, storeVars, poolVars, busVars, runVars, localVars, faultVars,
            sharedVars
<1>a. crashes \in Nat /\ raises \in Nat
  BY DEF TypeOK
<1>1. ASSUME Handlers \/ AdminHooks
      PROVE  crashes' = crashes /\ (raises' = raises \/ raises' = raises + 1)
  <2>1. CASE Handlers
    <3>1. PICK e \in Extracts :
             \/ \E s \in Scopes, m \in Modes, p \in Priorities :
                   CreateExtract(e, s, m, p)
             \/ Enqueue(e) \/ CreateAborts(e)
             \/ CancelExtract(e) \/ CancelAborts(e)
      BY <2>1 DEF Handlers
    <3>2. ASSUME NEW s, NEW m, NEW p, CreateExtract(e, s, m, p)
          PROVE  crashes' = crashes /\ raises' = raises
      BY <3>2 DEF CreateExtract
    <3>3. CASE Enqueue(e) \/ CreateAborts(e)
      BY <3>3 DEF Enqueue, CreateAborts
    <3>4. CASE CancelExtract(e) \/ CancelAborts(e)
      BY <3>4 DEF CancelExtract, CancelAborts
    <3> QED
      BY <3>1, <3>2, <3>3, <3>4
  <2>2. CASE AdminHooks
    BY <2>2 DEF AdminHooks, PauseProcessing, ResumeProcessing,
         SimulateSourceOutage, SetBus, OtherPublish
  <2> QED
    BY <1>1, <2>1, <2>2
<1>2. ASSUME NEW w \in Workers, WorkerStep(w)
      PROVE  crashes' = crashes /\ (raises' = raises \/ raises' = raises + 1)
  BY <1>2, ZenonT(30) DEF WorkerStep, Dequeue, Released, SkipCancelled, StartRun, NextFund,
       CancelObserved, FinalizeCancelled, SourceFails, WriteTmp,
       PartitionWritten, WriteFails, Retry, FundExhausted, ScopeDone,
       DropStaging, WriteManifest, PromoteRename, PromoteSuccess,
       CommitOutcome, EmitNone, EmitWebhook, EmitEvent, EmitBlocks,
       PublishWakes, PublishWaitsAgain, AppendToTopic, CleanupStaging
<1>3. ASSUME NEW w \in Workers, ProcessRaises(w) PROVE raises' # 0
  BY <1>a, <1>3 DEF ProcessRaises
<1>4. ASSUME Crash PROVE crashes' # 0
  BY <1>a, <1>4 DEF Crash
<1> QED
  BY <1>a, <1>1, <1>2, <1>3, <1>4 DEF Next, Undisturbed

\* A worker lets go of an extract only when nothing is left to do for it: its
\* outcome or its cancellation is on the row and its staging prefix is gone.
LEMMA LetsGo ==
  ASSUME KeepingInv, Undisturbed, NEW w \in Workers, WorkerStep(w),
         NEW e \in Extracts, e = job[w], raises' = raises
  PROVE  \/ job'[w] = e
         \/ /\ status'[e] \notin {"ACCEPTED", "RUNNING"}
            /\ staging'[e] = NoDir
<1> USE DEF rowVars, storeVars, poolVars, busVars, runVars, localVars, faultVars,
            sharedVars
<1>a. OwnershipInv /\ OneRun /\ RowsOK /\ TasksOK
  BY DEF KeepingInv, RunInv, OwnershipInv, TypeOK
<1>b. HasJob(w) /\ RowOf(e) /\ RunOf(w)
  BY <1>a, HolderStands
<1>1. CASE Dequeue(w)
  BY <1>1, <1>b DEF Dequeue, HasJob
<1>2. CASE SkipCancelled(w)
  <2>1. status[e] = "CANCELLED" /\ ~runId[e]
    BY <1>b, <1>2 DEF SkipCancelled, Startable, RunOf, Waiting
  <2> QED
    BY <1>b, <1>2, <2>1 DEF SkipCancelled, RowOf
<1>3. CASE FinalizeCancelled(w)
  BY <1>a, <1>3 DEF FinalizeCancelled, KeepingInv, StagingGone, RowsOK
<1>4. CASE EmitNone(w) \/ EmitWebhook(w) \/ EmitEvent(w) \/ PublishWakes(w)
  <2>1. pc[w] \in {"emit", "publish"} /\ UNCHANGED <<status, staging>>
    BY <1>a, <1>4 DEF EmitNone, EmitWebhook, EmitEvent, PublishWakes,
          AppendToTopic, OwnershipInv, WokenOK, Publishers
  <2>2. status[e] = Outcome(w)
    BY <1>b, <2>1 DEF RunOf, Telling
  <2> QED
    BY <2>1, <2>2 DEF Outcome, KeepingInv, StagingGone
<1>5. CASE \/ Released(w) \/ StartRun(w) \/ NextFund(w) \/ CancelObserved(w)
           \/ SourceFails(w) \/ WriteTmp(w) \/ PartitionWritten(w)
           \/ WriteFails(w) \/ Retry(w) \/ FundExhausted(w) \/ ScopeDone(w)
           \/ DropStaging(w) \/ WriteManifest(w) \/ PromoteRename(w)
           \/ PromoteSuccess(w) \/ CommitOutcome(w) \/ EmitBlocks(w)
           \/ PublishWaitsAgain(w)
  BY <1>5 DEF Released, StartRun, NextFund, CancelObserved, SourceFails,
       WriteTmp, PartitionWritten, WriteFails, Retry, FundExhausted, ScopeDone,
       DropStaging, WriteManifest, PromoteRename, PromoteSuccess,
       CommitOutcome, EmitBlocks, PublishWaitsAgain
<1> QED
  BY <1>1, <1>2, <1>3, <1>4, <1>5 DEF WorkerStep

\* A step of the pool that meets no fault leaves nobody behind.
LEMMA WorkerStepKeeps ==
  ASSUME KeepingInv, Undisturbed, NEW w \in Workers, WorkerStep(w), raises' = raises
  PROVE  \A e \in Extracts :
             /\ status'[e] \in {"ACCEPTED", "RUNNING"} => Owned(e)'
             /\ staging'[e] # NoDir => Holders(e)' # {}
<1> SUFFICES ASSUME NEW e \in Extracts
             PROVE  /\ status'[e] \in {"ACCEPTED", "RUNNING"} => Owned(e)'
                    /\ staging'[e] # NoDir => Holders(e)' # {}
  OBVIOUS
<1>a. OwnershipInv /\ OneRun
  BY DEF KeepingInv, RunInv
<1>1. CASE e = job[w]
  BY <1>1, LetsGo DEF Owned, Holders
<1>2. CASE e # job[w]
  <2>1. SameExtract(e)
    BY <1>a, <1>2, OtherExtracts
  <2>2. \A v \in Workers : job[v] = e => job'[v] = e
    BY <1>a, <1>2, OtherWorkers DEF SameLocals
  <2>3. e \in creating \cup queue => e \in creating' \cup queue' \/ job'[w] = e
    <3>1. job \in [Workers -> Extracts \cup {NoJob}]
      BY <1>a DEF OwnershipInv, TypeOK, TasksOK
    <3> QED
      BY <1>a, <3>1, WorkerStepHands
  <2>4. (status[e] \in {"ACCEPTED", "RUNNING"} => Owned(e))
         /\ (staging[e] # NoDir => Holders(e) # {})
    BY DEF KeepingInv, NoOrphan, StagingOwned, Undisturbed
  <2> QED
    BY <2>1, <2>2, <2>3, <2>4 DEF SameExtract, Owned, Holders
<1> QED
  BY <1>1, <1>2

\* ... and is through with its prefix in time.
LEMMA WorkerStepGone ==
  ASSUME KeepingInv, Undisturbed, NEW w \in Workers, WorkerStep(w), raises' = raises
  PROVE  StagingGone'
<1> USE DEF rowVars, storeVars, poolVars, busVars, runVars, localVars, faultVars,
            sharedVars
<1>a. OwnershipInv /\ OneRun /\ StoreOK /\ TasksOK
  BY DEF KeepingInv, RunInv, OwnershipInv, TypeOK
<1>b. pc[w] \in {"mark", "discard", "commit", "emit", "publish"} =>
          staging[job[w]] = NoDir
  BY DEF KeepingInv, StagingGone
<1>c. HasJob(w) => job[w] \in Extracts
  BY <1>a, Alone
<1>1. ASSUME NEW v \in Workers \ {w},
             pc'[v] \in {"mark", "discard", "commit", "emit", "publish"}
      PROVE  staging'[job'[v]] = NoDir
  <2>1. Untouched(v)
    BY <1>a, OthersUntouched
  <2>2. HasJob(v) /\ staging[job[v]] = NoDir
    BY <1>1, <2>1 DEF Untouched, SameLocals, HasJob, KeepingInv, StagingGone
  <2> QED
    BY <2>1, <2>2 DEF Untouched, SameLocals, SameExtract
<1>2. ASSUME pc'[w] \in {"mark", "discard", "commit", "emit", "publish"}
      PROVE  staging'[job'[w]] = NoDir
  <2>1. CASE CancelObserved(w) \/ DropStaging(w)
    <3>1. job' = job /\ job[w] \in Extracts /\ CleanupStaging(job[w])
      BY <1>c, <2>1 DEF CancelObserved, DropStaging, HasJob
    <3>2. raises' # raises + 1
      BY <1>a DEF OwnershipInv, TypeOK
    <3> QED
      BY <1>a, <3>1, <3>2 DEF CleanupStaging, StoreOK
  <2>2. CASE PromoteRename(w)
    BY <1>a, <1>c, <2>2 DEF PromoteRename, HasJob, StoreOK
  <2>3. CASE \/ PromoteSuccess(w) \/ CommitOutcome(w) \/ EmitBlocks(w)
             \/ PublishWaitsAgain(w)
    BY <1>a, <1>b, <2>3 DEF PromoteSuccess, CommitOutcome, EmitBlocks,
         PublishWaitsAgain, OwnershipInv, WokenOK, Publishers
  <2>4. CASE \/ Dequeue(w) \/ Released(w) \/ SkipCancelled(w) \/ StartRun(w)
             \/ NextFund(w) \/ FinalizeCancelled(w) \/ SourceFails(w)
             \/ WriteTmp(w) \/ PartitionWritten(w) \/ WriteFails(w)
             \/ Retry(w) \/ FundExhausted(w) \/ ScopeDone(w)
             \/ WriteManifest(w) \/ EmitNone(w) \/ EmitWebhook(w)
             \/ EmitEvent(w) \/ PublishWakes(w)
    BY <1>2, <1>a, <2>4 DEF TasksOK, Goto, LoopTop, Dequeue, Released,
         SkipCancelled, StartRun, NextFund, FinalizeCancelled, SourceFails,
         WriteTmp, PartitionWritten, WriteFails, Retry, FundExhausted,
         ScopeDone, WriteManifest, EmitNone, EmitWebhook, EmitEvent,
         PublishWakes, AppendToTopic
  <2> QED
    BY <2>1, <2>2, <2>3, <2>4 DEF WorkerStep
<1> QED
  BY <1>1, <1>2 DEF StagingGone

\* Handlers and hooks leave the workers where they are or let them through the
\* gate, and hand every new row on.
LEMMA OthersKeep ==
  ASSUME KeepingInv, Undisturbed, Undisturbed', ~Crash,
         Handlers \/ AdminHooks \/ UNCHANGED vars
  PROVE  (NoOrphan /\ StagingGone /\ StagingOwned)'
<1> USE DEF rowVars, storeVars, poolVars, busVars, runVars, localVars, faultVars
<1>a. OwnershipInv /\ RowsOK /\ TasksOK
  BY DEF KeepingInv, RunInv, OwnershipInv, TypeOK
<1>b. /\ \A e \in Extracts : status[e] \in {"ACCEPTED", "RUNNING"} => Owned(e)
      /\ \A e \in Extracts : staging[e] # NoDir => Holders(e) # {}
      /\ \A v \in Workers : pc[v] \in {"mark", "discard", "commit", "emit", "publish"} =>
             staging[job[v]] = NoDir
  BY DEF KeepingInv, NoOrphan, StagingGone, StagingOwned, Undisturbed
<1>1. /\ UNCHANGED <<job, staging>>
      /\ \A v \in Workers : pc'[v] # pc[v] => pc'[v] \in {"get", "wake"}
  BY <1>a DEF Handlers, CreateExtract, Enqueue, CreateAborts, CancelExtract,
       CancelAborts, AdminHooks, PauseProcessing, ResumeProcessing, GateOpens,
       SimulateSourceOutage, SetBus, OtherPublish, TasksOK, vars
<1>2. StagingGone' /\ StagingOwned'
  BY <1>b, <1>1 DEF StagingGone, StagingOwned, Holders
<1>3. ASSUME NEW e \in Extracts, status'[e] \in {"ACCEPTED", "RUNNING"}
      PROVE  Owned(e)'
  <2>1. ASSUME NEW d \in Extracts, NEW s \in Scopes, NEW m \in Modes,
               NEW p \in Priorities, CreateExtract(d, s, m, p)
        PROVE  Owned(e)'
    BY <1>a, <1>b, <1>1, <1>3, <2>1
       DEF CreateExtract, Owned, Holders, RowsOK, LoopFree
  <2>2. ASSUME NEW d \in Extracts, Enqueue(d)
        PROVE  Owned(e)'
    <3>1. creating = {d}
      BY <2>2 DEF Enqueue, OneCreating, KeepingInv
    <3> QED
      BY <1>b, <1>1, <1>3, <2>2, <3>1 DEF Enqueue, Owned, Holders
  <2>3. ASSUME NEW d \in Extracts, CancelExtract(d) \/ CancelAborts(d)
        PROVE  Owned(e)'
    BY <1>a, <1>b, <1>1, <1>3, <2>3
       DEF CancelExtract, CancelAborts, Owned, Holders, RowsOK
  <2>4. ASSUME NEW d \in Extracts PROVE ~CreateAborts(d)
    BY DEF CreateAborts, Undisturbed
  <2>5. CASE AdminHooks \/ UNCHANGED vars
    <3>1. UNCHANGED <<status, creating, queue>>
      BY <2>5 DEF AdminHooks, PauseProcessing, ResumeProcessing,
           SimulateSourceOutage, SetBus, OtherPublish, vars
    <3> QED
      BY <1>b, <1>1, <1>3, <3>1 DEF Owned, Holders
  <2> QED
    BY <2>1, <2>2, <2>3, <2>4, <2>5 DEF Handlers
<1> QED
  BY <1>2, <1>3 DEF NoOrphan

\* Every step keeps the invariant.
LEMMA NextKeeps == KeepingInv /\ [Next]_vars => KeepingInv'
<1> SUFFICES ASSUME KeepingInv, [Next]_vars
             PROVE  OneCreating' /\ (NoOrphan /\ StagingGone /\ StagingOwned)'
  BY NextRun DEF KeepingInv
<1>a. OneCreating'
  <2>1. \/ creating' \in {creating, {}}
        \/ \E e \in Extracts : creating' = {e}
    <3>1. ASSUME NEW w \in Workers, WorkerStep(w) \/ ProcessRaises(w)
          PROVE  creating' = creating
      BY <3>1, WorkerStepHands DEF KeepingInv, RunInv
    <3>2. CASE Handlers
      BY <3>2 DEF Handlers, CreateExtract, Enqueue, CreateAborts, CancelExtract,
           CancelAborts
    <3>3. CASE AdminHooks \/ Crash \/ UNCHANGED vars
      BY <3>3 DEF AdminHooks, PauseProcessing, ResumeProcessing,
           SimulateSourceOutage, SetBus, OtherPublish, Crash, vars, poolVars
    <3> QED
      BY <3>1, <3>2, <3>3 DEF Next
  <2> QED
    BY <2>1 DEF KeepingInv, OneCreating
<1> SUFFICES (NoOrphan /\ StagingGone /\ StagingOwned)'
  BY <1>a
<1>1. CASE ~Undisturbed'
  BY <1>1 DEF NoOrphan, StagingGone, StagingOwned, Undisturbed
<1>2. CASE Undisturbed'
  <2>1. CASE UNCHANGED vars
    <3>1. Undisturbed /\ ~Crash
      BY <1>2, <2>1 DEF Undisturbed, Crash, vars, faultVars, KeepingInv, RunInv,
          OwnershipInv, TypeOK
    <3> QED
      BY <1>2, <2>1, <3>1, OthersKeep
  <2>2. CASE Next
    <3>1. Undisturbed /\ ~Crash /\ \A w \in Workers : ~ProcessRaises(w)
      BY <1>2, <2>2, StillUndisturbed DEF KeepingInv, RunInv, OwnershipInv
    <3>2. raises' = raises
      BY <1>2, <3>1 DEF Undisturbed
    <3>3. ASSUME NEW w \in Workers, WorkerStep(w)
          PROVE  (NoOrphan /\ StagingGone /\ StagingOwned)'
      BY <3>1, <3>2, <3>3, WorkerStepKeeps, WorkerStepGone DEF NoOrphan, StagingOwned
    <3> QED
      BY <1>2, <2>2, <3>1, <3>3, OthersKeep DEF Next
  <2> QED
    BY <2>1, <2>2
<1> QED
  BY <1>1, <1>2

\* Nobody is left behind while nothing fails, in every reachable state.
LEMMA KeepingInvariant == Spec => []KeepingInv
<1>1. Init => KeepingInv
  <2> SUFFICES ASSUME Init PROVE OneCreating /\ NoOrphan /\ StagingGone /\ StagingOwned
    BY InitRun DEF KeepingInv
  <2> QED
    BY DEF Init, OneCreating, NoOrphan, StagingGone, StagingOwned
<1> QED
  BY <1>1, NextKeeps, PTL DEF Spec

\* While the process lives and nothing raises, every row that promises work is
\* in someone's hands: no pause, cancel, outage or full scope loses a job.
THEOREM NothingForgotten == Spec => []NoOrphan
<1>1. KeepingInv => NoOrphan
  BY DEF KeepingInv
<1> QED
  BY <1>1, KeepingInvariant, PTL

\* ... and every staging prefix belongs to the run in progress that fills it.
THEOREM NoStrayStaging == Spec => []StagingOwned
<1>1. KeepingInv => StagingOwned
  BY DEF KeepingInv
<1> QED
  BY <1>1, KeepingInvariant, PTL
-----------------------------------------------------------------------------
(***************************************************************************)
(* The client's contract.                                                  *)
(***************************************************************************)

\* The funds asked for, and those a client can list and fetch.
Wanted(e) == Range(scope[e])

Visible(e) == Listed(e) \cap Downloadable(e)

\* Nothing is visible before the outcome.
LEMMA HiddenBefore ==
  ASSUME NEW e, status[e] \notin {"COMPLETED", "PARTIAL"}
  PROVE  Visible(e) = {}
BY DEF Visible, Listed

\* An extract nobody touched looks the same.
LEMMA SameLooks ==
  ASSUME NEW e, status'[e] = status[e], state'[e] = state[e],
         published'[e] = published[e], scope'[e] = scope[e]
  PROVE  Visible(e)' = Visible(e) /\ Wanted(e)' = Wanted(e)
BY DEF Visible, Listed, Downloadable, Wanted

\* What the contract says of a client's view that did not change.
LEMMA Unseen ==
  ASSUME UNCHANGED <<status, runId, notices>>,
         \A e \in Extracts : Visible(e)' = Visible(e) /\ Wanted(e)' = Wanted(e)
  PROVE  UNCHANGED Contract!vars
BY DEF Contract!vars, Visible, Wanted

\* The initial states are initial for the contract.
LEMMA InitContract == Init => Contract!Init
BY DEF Init, Contract!Init, Listed, Range

\* A handler is Accept, Cancel or nothing to the client.
LEMMA HandlersContract ==
  ASSUME OutcomeInv, Handlers
  PROVE  [Contract!Next]_(Contract!vars)
<1> USE DEF rowVars, storeVars, poolVars, busVars, runVars, localVars, faultVars
<1>a. OwnershipInv /\ RowsOK
  BY DEF OutcomeInv, RunInv, OwnershipInv, TypeOK
<1>1. ASSUME NEW e \in Extracts, NEW s \in Scopes, NEW m \in Modes,
             NEW p \in Priorities, CreateExtract(e, s, m, p)
      PROVE  Contract!Accept(e)
  <2>1. /\ status[e] = "NONE" /\ status' = [status EXCEPT ![e] = "ACCEPTED"]
        /\ scope' = [scope EXCEPT ![e] = s]
        /\ UNCHANGED <<runId, state, published, notices>>
    BY <1>1 DEF CreateExtract
  <2>2. s \in Seq(Funds) /\ s # <<>>
    BY ConstantsAssumption
  <2>3. Range(s) \in (SUBSET Funds) \ {{}}
    <3>1. DOMAIN s = 1..Len(s) /\ Len(s) \in Nat /\ Len(s) # 0
      BY <2>2
    <3>2. s[1] \in Range(s) /\ Range(s) \subseteq Funds
      BY <2>2, <3>1 DEF Range
    <3> QED
      BY <3>2
  <2>4. ASSUME NEW d \in Extracts
        PROVE  /\ Visible(d)' = Visible(d)
               /\ d # e => Wanted(d)' = Wanted(d)
    <3>1. CASE d = e
      BY <1>a, <2>1, <3>1, HiddenBefore DEF RowsOK, Visible, Listed
    <3>2. CASE d # e
      BY <1>a, <2>1, <3>2, SameLooks DEF RowsOK
    <3> QED
      BY <3>1, <3>2
  <2>5. Wanted(e)' = Range(s)
    BY <1>a, <2>1 DEF RowsOK, Wanted
  <2>6. [d \in Extracts |-> Wanted(d)]'
            = [[d \in Extracts |-> Wanted(d)] EXCEPT ![e] = Range(s)]
    BY <2>4, <2>5
  <2>7. [d \in Extracts |-> Visible(d)]' = [d \in Extracts |-> Visible(d)]
    BY <2>4
  <2> QED
    BY <2>1, <2>3, <2>6, <2>7 DEF Contract!Accept, Wanted, Visible
<1>2. ASSUME NEW e \in Extracts, Enqueue(e) \/ CreateAborts(e) \/ CancelAborts(e)
      PROVE  UNCHANGED Contract!vars
  <2>1. UNCHANGED <<status, runId, notices, scope, state, published>>
    BY <1>2 DEF Enqueue, CreateAborts, CancelAborts
  <2> QED
    BY <2>1, SameLooks, Unseen
<1>3. ASSUME NEW e \in Extracts, CancelExtract(e)
      PROVE  Contract!Cancel(e)
  <2>1. /\ status[e] \in {"ACCEPTED", "RUNNING"}
        /\ status' = [status EXCEPT ![e] = "CANCELLED"]
        /\ UNCHANGED <<runId, notices, scope, state, published>>
    BY <1>3 DEF CancelExtract, Cancellable
  <2>2. ASSUME NEW d \in Extracts
        PROVE  Visible(d)' = Visible(d) /\ Wanted(d)' = Wanted(d)
    <3>1. CASE d = e
      BY <1>a, <2>1, <3>1, HiddenBefore DEF RowsOK, Visible, Listed, Wanted
    <3>2. CASE d # e
      BY <1>a, <2>1, <3>2, SameLooks DEF RowsOK
    <3> QED
      BY <3>1, <3>2
  <2> QED
    BY <2>1, <2>2 DEF Contract!Cancel, Wanted, Visible
<1> QED
  BY <1>1, <1>2, <1>3 DEF Handlers, Contract!Next

\* The commit makes the outcome and its files visible in one step.
LEMMA CommitContract ==
  ASSUME OutcomeInv, NEW w \in Workers, CommitOutcome(w),
         NEW e \in Extracts, e = job[w]
  PROVE  Contract!Finish(e)
<1>a. /\ OwnershipInv /\ OneRun /\ RowsOK /\ HasJob(w) /\ published[e] \in Dir
      /\ OutcomeOf(e)'
  BY WorkerStepOutcome DEF OutcomeInv, RunInv, OwnershipInv, TypeOK, StoreOK,
       WorkerStep, CommitOutcome, HasJob
<1>1. /\ status' = [status EXCEPT ![e] = Outcome(w)]
      /\ state' = [state EXCEPT ![e] = FinalState(w)]
      /\ UNCHANGED <<scope, runId, published, notices>>
  BY DEF CommitOutcome, rowVars, storeVars
<1>2. runId[e] /\ status[e] \in {"RUNNING", "CANCELLED"}
  BY <1>a DEF OneRun, RunOf, Running, CommitOutcome
<1>3. Outcome(w) \in {"COMPLETED", "PARTIAL", "FAILED"}
  BY DEF Outcome
<1>4. status'[e] = Outcome(w) /\ state'[e] = FinalState(w)
  BY <1>a, <1>1 DEF RowsOK
<1>5. state'[e].files \subseteq DOMAIN scope[e]
  <2>1. completed[w] \subseteq 1..Len(scope[e])
    BY <1>a DEF OwnershipInv, JobOK
  <2>2. DOMAIN scope[e] = 1..Len(scope[e])
    BY <1>a DEF RowsOK
  <2> QED
    BY <1>4, <2>1, <2>2 DEF FinalState, FilesOfRun
<1>6. FundsAt(e, state[e].files)' \subseteq Wanted(e)
  BY <1>1, <1>5 DEF FundsAt, Wanted, Range
<1> DEFINE fs == Visible(e)'
<1>7. fs \in SUBSET Funds
  BY <1>a, <1>1 DEF Visible, Downloadable, Dir
<1>8. Contract!Delivers(e, Outcome(w), fs)
  <2>1. CASE Outcome(w) = "COMPLETED"
    <3>1. fs = Wanted(e)
      BY <1>a, <1>1, <1>4, <2>1 DEF OutcomeOf, FundsAt, Visible, Listed, Downloadable, Wanted
    <3> QED
      BY <2>1, <3>1 DEF Contract!Delivers, Wanted
  <2>2. CASE Outcome(w) = "PARTIAL"
    <3>1. fs = FundsAt(e, state[e].files)' /\ state'[e].files # {}
      BY <1>a, <1>4, <2>2 DEF OutcomeOf, FundsAt, Visible, Listed, Downloadable
    <3>2. fs # {} /\ fs \subseteq Wanted(e)
      BY <1>6, <3>1 DEF FundsAt
    <3> QED
      BY <2>2, <3>2 DEF Contract!Delivers, Wanted
  <2>3. CASE Outcome(w) = "FAILED"
    <3>1. fs = {}
      BY <1>4, <2>3 DEF Visible, Listed
    <3> QED
      BY <2>3, <3>1 DEF Contract!Delivers
  <2> QED
    BY <1>3, <2>1, <2>2, <2>3
<1>9. \A d \in Extracts : Wanted(d)' = Wanted(d) /\ (d # e => Visible(d)' = Visible(d))
  BY <1>a, <1>1, SameLooks DEF RowsOK, Wanted
<1>10. [d \in Extracts |-> Wanted(d)]' = [d \in Extracts |-> Wanted(d)]
  BY <1>9
<1>11. [d \in Extracts |-> Visible(d)]'
           = [[d \in Extracts |-> Visible(d)] EXCEPT ![e] = fs]
  BY <1>9
<1> HIDE DEF fs
<1>12. \E outcome \in {"COMPLETED", "PARTIAL", "FAILED"}, gs \in SUBSET Funds :
           /\ Contract!Delivers(e, outcome, gs)
           /\ status' = [status EXCEPT ![e] = outcome]
           /\ [d \in Extracts |-> Visible(d)]'
                  = [[d \in Extracts |-> Visible(d)] EXCEPT ![e] = gs]
  BY <1>1, <1>3, <1>7, <1>8, <1>11
<1> QED
  BY <1>1, <1>2, <1>10, <1>12 DEF Contract!Finish, Wanted, Visible

\* A step of the pool is Start, Cancel, Finish, Tell or nothing to the client.
LEMMA WorkerStepContract ==
  ASSUME OutcomeInv, NEW w \in Workers, WorkerStep(w) \/ ProcessRaises(w),
         NEW e, e = job[w]
  PROVE  [Contract!Next]_(Contract!vars)
<1>a. /\ OwnershipInv /\ OneRun /\ RunInv /\ RowsOK
      /\ notices \in [Extracts -> Seq({"ready", "failed"})]
  BY DEF OutcomeInv, RunInv, OwnershipInv, TypeOK
<1>b. scope' = scope /\ mode' = mode
  BY <1>a, OtherExtracts
<1>c. HasJob(w) => job[w] \in Extracts /\ RowOf(job[w]) /\ RunOf(w)
  BY <1>a, Alone DEF OneRun
<1>d. [d \in Extracts |-> Wanted(d)]' = [d \in Extracts |-> Wanted(d)]
  BY <1>b DEF Wanted
<1>1. CASE UNCHANGED Seen
  BY <1>b, <1>1, SameLooks, Unseen DEF Seen
<1>2. CASE StartRun(w)
  <2>1. /\ e \in Extracts /\ pc[w] = "process" /\ status[e] # "CANCELLED"
        /\ status' = [status EXCEPT ![e] = "RUNNING"]
        /\ runId' = [runId EXCEPT ![e] = TRUE]
        /\ state' = [state EXCEPT ![e] = InProgress]
        /\ UNCHANGED <<published, notices>>
    BY <1>c, <1>2 DEF StartRun, Startable, HasJob, storeVars
  <2>2. status[e] = "ACCEPTED"
    BY <1>a, <1>c, <2>1, Alone DEF HasJob, RunOf, RowOf, Waiting
  <2>3. \A d \in Extracts : Visible(d)' = Visible(d)
    <3>1. Visible(e)' = Visible(e)
      BY <1>a, <2>1, <2>2 DEF RowsOK, Visible, Listed
    <3>2. \A d \in Extracts \ {e} : Visible(d)' = Visible(d)
      BY <1>a, <1>b, <2>1, SameLooks DEF RowsOK
    <3> QED
      BY <3>1, <3>2
  <2>4. [d \in Extracts |-> Visible(d)]' = [d \in Extracts |-> Visible(d)]
    BY <2>3
  <2>5. Contract!Start(e)
    BY <1>d, <2>1, <2>2, <2>4 DEF Contract!Start, Wanted, Visible
  <2> QED
    BY <2>1, <2>5 DEF Contract!Next
<1>3. CASE FinalizeCancelled(w)
  <2>1. /\ e \in Extracts /\ pc[w] = "discard"
        /\ status' = [status EXCEPT ![e] = "CANCELLED"]
        /\ UNCHANGED <<runId, state, published, notices>>
    BY <1>c, <1>3 DEF FinalizeCancelled, HasJob, storeVars
  <2>2. status[e] \in {"RUNNING", "CANCELLED"}
    BY <1>c, <2>1 DEF HasJob, RunOf, Running
  <2>3. \A d \in Extracts : Visible(d)' = Visible(d)
    <3>1. Visible(e)' = Visible(e)
      BY <1>a, <2>1, <2>2 DEF RowsOK, Visible, Listed
    <3>2. \A d \in Extracts \ {e} : Visible(d)' = Visible(d)
      BY <1>a, <1>b, <2>1, SameLooks DEF RowsOK
    <3> QED
      BY <3>1, <3>2
  <2>4. [d \in Extracts |-> Visible(d)]' = [d \in Extracts |-> Visible(d)]
    BY <2>3
  <2>5. CASE status[e] = "RUNNING"
    <3>1. Contract!Cancel(e)
      BY <1>d, <2>1, <2>4, <2>5 DEF Contract!Cancel, Wanted, Visible
    <3> QED
      BY <2>1, <3>1 DEF Contract!Next
  <2>6. CASE status[e] = "CANCELLED"
    <3>1. status' = status
      BY <1>a, <2>1, <2>6 DEF RowsOK
    <3> QED
      BY <1>d, <2>1, <2>4, <3>1 DEF Contract!vars, Wanted, Visible
  <2> QED
    BY <2>2, <2>5, <2>6
<1>4. CASE CommitOutcome(w)
  <2>1. e \in Extracts
    BY <1>c, <1>4 DEF CommitOutcome, HasJob
  <2> QED
    BY <1>4, <2>1, CommitContract DEF Contract!Next
<1>5. CASE PromoteRename(w) \/ PromoteSuccess(w)
  <2>1. /\ e \in Extracts /\ Running(w)
        /\ UNCHANGED <<status, runId, state, notices>>
        /\ \A d \in Extracts \ {e} : published'[d] = published[d]
    BY <1>a, <1>c, <1>5
       DEF PromoteRename, PromoteSuccess, HasJob, Running, rowVars, OwnershipInv,
           TypeOK, StoreOK
  <2>2. status[e] \in {"RUNNING", "CANCELLED"}
    BY <1>a, <2>1, HolderStands
  <2>3. Visible(e)' = Visible(e) /\ Wanted(e)' = Wanted(e)
    BY <1>b, <2>1, <2>2 DEF Visible, Listed, Wanted
  <2>4. \A d \in Extracts \ {e} : Visible(d)' = Visible(d) /\ Wanted(d)' = Wanted(d)
    BY <1>b, <2>1, SameLooks
  <2> QED
    BY <2>1, <2>3, <2>4, Unseen
<1>6. CASE /\ Telling(w) /\ mode[job[w]] # "none" /\ Notify(w)
           /\ UNCHANGED <<status, runId, state, staging, published>>
  <2>1. e \in Extracts /\ notices[e] = <<>> /\ status[e] = Outcome(w)
    BY <1>c, <1>6 DEF HasJob, Telling, RunOf
  <2>2. notices' = [notices EXCEPT ![e] = <<NoticeOf(w)>>]
    BY <1>a, <1>6, <2>1 DEF Notify
  <2>3. /\ status[e] \in {"COMPLETED", "PARTIAL", "FAILED"}
        /\ NoticeOf(w) = IF status[e] = "COMPLETED" THEN "ready" ELSE "failed"
    BY <2>1 DEF NoticeOf, Outcome
  <2>4. [d \in Extracts |-> Visible(d)]' = [d \in Extracts |-> Visible(d)]
    BY <1>b, <1>6, SameLooks
  <2>5. Contract!Tell(e)
    BY <1>d, <1>6, <2>1, <2>2, <2>3, <2>4 DEF Contract!Tell, Wanted, Visible
  <2> QED
    BY <2>1, <2>5 DEF Contract!Next
<1> QED
  BY <1>a, <1>1, <1>2, <1>3, <1>4, <1>5, <1>6, WorkerStepSeen

\* Every step is one of the contract or invisible to the client.
LEMMA NextContract ==
  ASSUME OutcomeInv, [Next]_vars
  PROVE  [Contract!Next]_(Contract!vars)
<1>1. CASE AdminHooks \/ Crash \/ UNCHANGED vars
  <2>1. UNCHANGED <<status, runId, notices, scope, state, published>>
    BY <1>1, HooksSeen DEF rowVars, storeVars
  <2> QED
    BY <2>1, SameLooks, Unseen
<1> QED
  BY <1>1, HandlersContract, WorkerStepContract DEF Next

\* The worker pool, the rows and the object store implement the contract: for
\* any number of extracts, workers and funds, and through crashes and exceptions
\* at any step, a client sees extracts accepted, started, cancelled and finished
\* in single steps, and is told afterwards.
THEOREM ContractKept == Spec => ImplementsContract
BY InitContract, NextContract, OutcomeInvariant, PTL
   DEF Spec, ImplementsContract, Contract!Spec
=============================================================================
