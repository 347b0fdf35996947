----------------------- MODULE ExtractOutcomeProofs -----------------------
(***************************************************************************)
(* Proofs about what a run of ExtractWorker leaves behind: rows, published *)
(* prefixes and notifications, on top of single ownership.  An extract has *)
(* at most one run, because nothing puts a job back on the queue; so what  *)
(* is true of a run when it writes the row is true ever after.             *)
(***************************************************************************)
EXTENDS ExtractWorkerProofs, FiniteSetTheorems

\* Where a worker stands with its job: the run not started, files being
\* written, the run not committed, the outcome committed.
Waiting(w) == pc[w] \in {"pausedJob", "wake", "process"}

Filling(w) == pc[w] \in {"fund", "attempt", "rename", "backoff", "finalize"}

Running(w) == Filling(w) \/ pc[w] \in {"promote", "mark", "commit", "discard"}

Telling(w) == pc[w] \in {"emit", "publish"}

\* An extract has one run at most.  What the row and the client know of it ...
RowOf(e) ==
    /\ e \in creating \cup queue => ~runId[e]
    /\ ~runId[e] => /\ status[e] \in {"NONE", "ACCEPTED", "CANCELLED"}
                    /\ staging[e] = NoDir /\ published[e] = NoDir
    /\ runId[e] => status[e] \notin {"NONE", "ACCEPTED"}
    /\ status[e] \notin Outcomes => notices[e] = <<>>

\* ... is what the worker that has the run has done so far.
RunOf(w) ==
    /\ Waiting(w) => ~runId[job[w]]
    /\ Running(w) => runId[job[w]] /\ status[job[w]] \in {"RUNNING", "CANCELLED"}
    /\ Telling(w) => status[job[w]] = Outcome(w) /\ notices[job[w]] = <<>>
    /\ pc[w] = "publish" => mode[job[w]] = "event"

OneRun == (\A e \in Extracts : RowOf(e)) /\ (\A w \in Workers : RunOf(w))

\* The funds of a run: those behind the position of the loop are in exactly one
\* of the two lists, and a run that ends before its scope does has spent the
\* attempts of the extract.
Accounted(w) ==
    /\ completed[w] \cap failed[w] = {}
    /\ ~Running(w) /\ ~Telling(w) =>
           completed[w] = {} /\ failed[w] = {} /\ total[w] = 0
    /\ pc[w] = "fund" => idx[w] <= Len(scope[job[w]]) + 1
    /\ pc[w] = "fund" \/ InFund(w) =>
           completed[w] \cup failed[w] = 1..(idx[w] - 1)
    /\ pc[w] \in {"promote", "mark"} => completed[w] # {}
    /\ pc[w] \in {"finalize", "promote", "mark", "commit"} =>
           \/ completed[w] \cup failed[w] = 1..Len(scope[job[w]])
           \/ failed[w] # {} /\ total[w] >= MaxAttemptsPerExtract

\* A run that failed on its first k funds has spent all their attempts.
SpentOn(w, k) ==
    /\ failed[w] = 1..k
    /\ total[w] = MaxAttemptsPerFund * k

\* The retry caps, for a run in which nothing succeeded so far: it goes on only
\* below the cap of the extract, and ends at its cap or the end of its scope.
Capped(w) ==
    /\ pc[w] = "attempt" => attempts[w] < MaxAttemptsPerFund
    /\ pc[w] \in {"rename", "backoff"} => attempts[w] <= MaxAttemptsPerFund
    /\ completed[w] = {} /\ (pc[w] = "fund" \/ InFund(w)) =>
           /\ SpentOn(w, idx[w] - 1)
           /\ total[w] < MaxAttemptsPerExtract
    /\ completed[w] = {} /\ pc[w] \in {"finalize", "commit"} =>
           \E k \in 0..Len(scope[job[w]]) :
               /\ SpentOn(w, k)
               /\ total[w] < MaxAttemptsPerExtract + MaxAttemptsPerFund
               /\ k < Len(scope[job[w]]) => total[w] >= MaxAttemptsPerExtract

\* The funds at some positions of a scope.
FundsAt(e, is) == {scope[e][i] : i \in is}

\* What a run has in its staging prefix: the files of the completed funds, and
\* left-overs of failed funds and of the present one.
StagingFilled(w) ==
    LET d == staging[job[w]]
        busy == IF InFund(w) THEN {Fund(w)} ELSE {}
    IN /\ d.files = ManifestFunds(w)
       /\ d.tmp \subseteq FundsAt(job[w], failed[w]) \cup busy
       /\ d.manifest = IF pc[w] = "promote" THEN ManifestFunds(w) ELSE {}
       /\ ~d.success

\* What a run has published: what it had in staging, marked in the end.
PublishedWhole(w) ==
    LET d == published[job[w]]
    IN /\ staging[job[w]] = NoDir
       /\ d.files = ManifestFunds(w) /\ d.manifest = ManifestFunds(w)
       /\ d.tmp \subseteq FundsAt(job[w], failed[w])
       /\ d.success = (pc[w] = "commit")

\* The two prefixes of an extract while its run lasts.
Stored(w) ==
    /\ Filling(w) \/ pc[w] = "promote" => StagingFilled(w)
    /\ Filling(w) \/ pc[w] \in {"promote", "discard"} => published[job[w]] = NoDir
    /\ pc[w] = "commit" /\ completed[w] = {} => published[job[w]] = NoDir
    /\ pc[w] \in {"mark", "commit"} /\ completed[w] # {} => PublishedWhole(w)

\* The inductive invariant behind the outcomes.
RunInv ==
    /\ OwnershipInv
    /\ OneRun
    /\ \A w \in Workers : Accounted(w) /\ Capped(w) /\ Stored(w)
-----------------------------------------------------------------------------
(***************************************************************************)
(* A worker step touches one worker and one extract.                       *)
(***************************************************************************)

\* A worker with a job is the only one that has it.
LEMMA Alone ==
  ASSUME OwnershipInv, NEW w \in Workers, HasJob(w)
  PROVE  /\ job[w] \in Extracts /\ job[w] \notin creating \cup queue
         /\ status[job[w]] # "NONE"
         /\ \A v \in Workers \ {w} : job[v] # job[w]
BY ConstantsAssumption DEF OwnershipInv, JobOK, SingleOwner, Minted

\* The locals of one worker are what they were.
SameLocals(v) ==
    /\ pc'[v] = pc[v] /\ job'[v] = job[v] /\ idx'[v] = idx[v]
    /\ attempts'[v] = attempts[v] /\ total'[v] = total[v]
    /\ completed'[v] = completed[v] /\ failed'[v] = failed[v]

\* The row, the prefixes and the notifications of one extract are.
SameExtract(e) ==
    /\ status'[e] = status[e] /\ runId'[e] = runId[e] /\ state'[e] = state[e]
    /\ staging'[e] = staging[e] /\ published'[e] = published[e]
    /\ notices'[e] = notices[e]

\* A worker step leaves the locals of the other workers alone.
LEMMA OtherWorkers ==
  ASSUME OwnershipInv, NEW w \in Workers, WorkerStep(w) \/ ProcessRaises(w)
  PROVE  \A v \in Workers \ {w} : SameLocals(v)
<1> USE DEF rowVars, storeVars, poolVars, busVars, runVars, localVars,
            faultVars, sharedVars, Goto, TasksOK, SameLocals
<1>a. TasksOK
  BY DEF OwnershipInv, TypeOK
<1>1. CASE \/ Dequeue(w) \/ Released(w) \/ SkipCancelled(w)
          \/ StartRun(w) \/ NextFund(w) \/ CancelObserved(w)
          \/ FinalizeCancelled(w)
    BY <1>a, <1>1 DEF Dequeue, Released, SkipCancelled, StartRun, NextFund,
      CancelObserved, FinalizeCancelled, LoopTop
<1>2. CASE \/ SourceFails(w) \/ WriteTmp(w) \/ PartitionWritten(w)
          \/ WriteFails(w) \/ Retry(w) \/ FundExhausted(w)
          \/ ScopeDone(w)
    BY <1>a, <1>2 DEF SourceFails, WriteTmp, PartitionWritten, WriteFails,
      Retry, FundExhausted, ScopeDone
<1>3. CASE \/ DropStaging(w) \/ WriteManifest(w) \/ PromoteRename(w)
          \/ PromoteSuccess(w) \/ CommitOutcome(w)
    BY <1>a, <1>3 DEF DropStaging, WriteManifest, PromoteRename,
      PromoteSuccess, CommitOutcome
<1>4. CASE \/ EmitNone(w) \/ EmitWebhook(w) \/ EmitEvent(w)
          \/ EmitBlocks(w) \/ PublishWakes(w)
          \/ PublishWaitsAgain(w) \/ ProcessRaises(w)
    BY <1>a, <1>4 DEF EmitNone, EmitWebhook, EmitEvent, EmitBlocks,
      PublishWakes, PublishWaitsAgain, ProcessRaises, LoopTop, AppendToTopic
<1> QED
  BY <1>1, <1>2, <1>3, <1>4 DEF WorkerStep

\* ... and the extracts the worker does not have.
LEMMA OtherExtracts ==
  ASSUME OwnershipInv, NEW w \in Workers, WorkerStep(w) \/ ProcessRaises(w)
  PROVE  /\ scope' = scope /\ mode' = mode
         /\ \A e \in Extracts \ {job[w]} : SameExtract(e)
<1> USE DEF rowVars, storeVars, poolVars, busVars, runVars, localVars,
            faultVars, sharedVars, RowsOK, StoreOK, SameExtract
<1>a. RowsOK /\ StoreOK /\ notices \in [Extracts -> Seq({"ready", "failed"})]
  BY DEF OwnershipInv, TypeOK
<1>1. CASE \/ Dequeue(w) \/ Released(w) \/ SkipCancelled(w)
          \/ StartRun(w) \/ NextFund(w) \/ CancelObserved(w)
          \/ FinalizeCancelled(w)
    BY <1>a, <1>1, ZenonT(30) DEF Dequeue, Released, SkipCancelled, StartRun, NextFund,
      CancelObserved, FinalizeCancelled, LoopTop, CleanupStaging
<1>2. CASE \/ SourceFails(w) \/ WriteTmp(w) \/ PartitionWritten(w)
          \/ WriteFails(w) \/ Retry(w) \/ FundExhausted(w)
          \/ ScopeDone(w)
    BY <1>a, <1>2 DEF SourceFails, WriteTmp, PartitionWritten, WriteFails,
      Retry, FundExhausted, ScopeDone
<1>3. CASE \/ DropStaging(w) \/ WriteManifest(w) \/ PromoteRename(w)
          \/ PromoteSuccess(w) \/ CommitOutcome(w)
    BY <1>a, <1>3 DEF DropStaging, WriteManifest, PromoteRename,
      PromoteSuccess, CommitOutcome, CleanupStaging
<1>4. CASE \/ EmitNone(w) \/ EmitWebhook(w) \/ EmitEvent(w)
          \/ EmitBlocks(w) \/ PublishWakes(w)
          \/ PublishWaitsAgain(w) \/ ProcessRaises(w)
    BY <1>a, <1>4 DEF EmitNone, EmitWebhook, EmitEvent, EmitBlocks,
      PublishWakes, PublishWaitsAgain, ProcessRaises, LoopTop,
      AppendToTopic, Notify, StoreLater
<1> QED
  BY <1>1, <1>2, <1>3, <1>4 DEF WorkerStep

\* A worker that made no step, and whose extract nobody touched.
Untouched(v) ==
    /\ SameLocals(v)
    /\ HasJob(v) => /\ SameExtract(job[v])
                    /\ scope'[job[v]] = scope[job[v]] /\ mode'[job[v]] = mode[job[v]]

\* While one worker makes a step, the others are untouched.
LEMMA OthersUntouched ==
  ASSUME OwnershipInv, NEW w \in Workers, WorkerStep(w) \/ ProcessRaises(w)
  PROVE  \A v \in Workers \ {w} : Untouched(v)
<1> SUFFICES ASSUME NEW v \in Workers \ {w} PROVE Untouched(v)
  OBVIOUS
<1>1. SameLocals(v)
  BY OtherWorkers
<1>2. HasJob(v) => job[v] \in Extracts \ {job[w]}
  BY Alone
<1> QED
  BY <1>1, <1>2, OtherExtracts DEF Untouched

\* What is true of the run of such a worker stays true.
LEMMA RunKept ==
  ASSUME NEW v \in Workers, Untouched(v)
  PROVE  RunOf(v) => RunOf(v)'
<1>1. Outcome(v)' = Outcome(v)
  BY DEF Untouched, SameLocals, Outcome
<1>2. CASE HasJob(v)
  <2>1. /\ runId'[job'[v]] = runId[job[v]] /\ status'[job'[v]] = status[job[v]]
        /\ notices'[job'[v]] = notices[job[v]] /\ mode'[job'[v]] = mode[job[v]]
    BY <1>2 DEF Untouched, SameLocals, SameExtract
  <2> QED
    BY <1>1, <2>1
       DEF Untouched, SameLocals, RunOf, Waiting, Running, Filling, Telling
<1>3. CASE ~HasJob(v)
  BY <1>3 DEF Untouched, SameLocals, RunOf, Waiting, Running, Filling, Telling, HasJob
<1> QED
  BY <1>2, <1>3

\* So does what is true of its lists, its attempts and its prefixes, even if
\* someone cancels the extract.
LEMMA RunFactsKept ==
  ASSUME NEW v \in Workers, SameLocals(v),
         HasJob(v) => /\ scope'[job[v]] = scope[job[v]]
                      /\ staging'[job[v]] = staging[job[v]]
                      /\ published'[job[v]] = published[job[v]]
  PROVE  /\ Accounted(v) => Accounted(v)'
         /\ Capped(v) => Capped(v)'
         /\ Stored(v) => Stored(v)'
<1> USE DEF SameLocals, Running, Filling, Telling, InFund
<1>1. CASE HasJob(v)
  <2>1. /\ scope'[job'[v]] = scope[job[v]] /\ staging'[job'[v]] = staging[job[v]]
        /\ published'[job'[v]] = published[job[v]]
    BY <1>1
  <2>2. Accounted(v) => Accounted(v)'
    BY <2>1 DEF Accounted
  <2>3. Capped(v) => Capped(v)'
    BY <2>1 DEF Capped, SpentOn
  <2>4. /\ ManifestFunds(v)' = ManifestFunds(v) /\ Fund(v)' = Fund(v)
        /\ FundsAt(job[v], failed[v])' = FundsAt(job[v], failed[v])
    BY <2>1 DEF ManifestFunds, Fund, FundsAt
  <2>5. Stored(v) => Stored(v)'
    BY <2>1, <2>4 DEF Stored, StagingFilled, PublishedWhole
  <2> QED
    BY <2>2, <2>3, <2>5
<1>2. CASE ~HasJob(v)
  BY <1>2 DEF HasJob, Accounted, Capped, Stored
<1> QED
  BY <1>1, <1>2
-----------------------------------------------------------------------------
(***************************************************************************)
(* One run per extract.                                                    *)
(***************************************************************************)

\* The worker that makes the step still is where its run is ...
LEMMA WorkerStepRunOf ==
  ASSUME OwnershipInv, OneRun, NEW w \in Workers, WorkerStep(w) \/ ProcessRaises(w)
  PROVE  RunOf(w)'
<1> USE DEF rowVars, storeVars, poolVars, busVars, runVars, localVars,
            faultVars, sharedVars, Goto, HasJob, RunOf, RowOf, Waiting, Running,
            Filling, Telling, TasksOK, RowsOK
<1>a. /\ RunOf(w) /\ TasksOK /\ RowsOK /\ queue \subseteq Extracts
      /\ w \in woken => pc[w] = "publish"
      /\ HasJob(w) => RowOf(job[w])
  BY Alone DEF OneRun, OwnershipInv, TypeOK, PoolOK, WokenOK, Publishers
<1>b. HasJob(w) => job[w] \in Extracts /\ status[job[w]] # "NONE"
  BY Alone
<1>1. CASE Dequeue(w)
  BY <1>a, <1>1 DEF Dequeue, Heads, OneRun
<1>2. CASE \/ SkipCancelled(w) \/ FinalizeCancelled(w) \/ EmitNone(w)
           \/ EmitWebhook(w) \/ EmitEvent(w) \/ PublishWakes(w)
           \/ ProcessRaises(w)
  BY <1>a, <1>2 DEF SkipCancelled, FinalizeCancelled, EmitNone, EmitWebhook,
              EmitEvent, PublishWakes, ProcessRaises, AppendToTopic, LoopTop
<1>3. CASE Released(w) \/ StartRun(w)
  BY <1>a, <1>b, <1>3 DEF Released, StartRun
<1>4. CASE \/ NextFund(w) \/ CancelObserved(w) \/ SourceFails(w) \/ WriteTmp(w)
           \/ PartitionWritten(w) \/ WriteFails(w) \/ Retry(w)
           \/ FundExhausted(w) \/ ScopeDone(w)
  BY <1>a, <1>4 DEF NextFund, CancelObserved, SourceFails, WriteTmp,
              PartitionWritten, WriteFails, Retry, FundExhausted, ScopeDone
<1>5. CASE \/ DropStaging(w) \/ WriteManifest(w) \/ PromoteRename(w)
           \/ PromoteSuccess(w)
  BY <1>a, <1>5 DEF DropStaging, WriteManifest, PromoteRename, PromoteSuccess
<1>6. CASE CommitOutcome(w)
  <2>1. Outcome(w)' = Outcome(w)
    BY <1>6 DEF CommitOutcome, Outcome
  <2>2. notices[job[w]] = <<>>
    BY <1>a, <1>6 DEF CommitOutcome, Outcomes
  <2> HIDE DEF RowOf
  <2> QED
    BY <1>a, <1>b, <1>6, <2>1, <2>2 DEF CommitOutcome
<1>7. CASE EmitBlocks(w) \/ PublishWaitsAgain(w)
  <2>1. Outcome(w)' = Outcome(w)
    BY <1>7 DEF EmitBlocks, PublishWaitsAgain, Outcome
  <2> HIDE DEF RowOf
  <2> QED
    BY <1>a, <1>7, <2>1 DEF EmitBlocks, PublishWaitsAgain, StoreLater
<1> QED
  BY <1>1, <1>2, <1>3, <1>4, <1>5, <1>6, <1>7 DEF WorkerStep

\* ... and the extract it has knows of that run only.
LEMMA WorkerStepRowOf ==
  ASSUME OwnershipInv, OneRun, NEW w \in Workers, WorkerStep(w) \/ ProcessRaises(w),
         NEW e \in Extracts, e = job[w]
  PROVE  RowOf(e)'
<1> USE DEF rowVars, storeVars, poolVars, busVars, runVars, localVars,
            faultVars, sharedVars, Goto, HasJob, RowsOK, Outcomes
<1>a. /\ RowsOK /\ StoreOK /\ notices \in [Extracts -> Seq({"ready", "failed"})]
      /\ w \in woken => pc[w] = "publish"
      /\ status[e] # "NONE" /\ e \notin creating \cup queue
  BY Alone, ConstantsAssumption
     DEF OwnershipInv, TypeOK, JobOK, WokenOK, Publishers
<1>b. RunOf(w) /\ RowOf(e)
  BY DEF OneRun
<1>c. e \notin (creating \cup queue)'
  BY <1>a, WorkerStepHands
<1>d. Outcome(w) \in Outcomes
  BY DEF Outcome
<1>1. CASE StartRun(w)
  BY <1>a, <1>b, <1>c, <1>1 DEF StartRun, RowOf, RunOf, Waiting, Startable
<1>2. CASE FinalizeCancelled(w)
  BY <1>a, <1>b, <1>c, <1>2 DEF FinalizeCancelled, RowOf, RunOf, Running, Filling
<1>3. CASE CommitOutcome(w)
  BY <1>a, <1>b, <1>c, <1>d, <1>3
     DEF CommitOutcome, RowOf, RunOf, Running, Filling
<1>4. CASE EmitWebhook(w) \/ EmitEvent(w) \/ PublishWakes(w)
  <2>1. Telling(w)
    BY <1>a, <1>4 DEF EmitWebhook, EmitEvent, PublishWakes, Telling
  <2>2. UNCHANGED <<runId, status, staging, published>>
    BY <1>4 DEF EmitWebhook, EmitEvent, PublishWakes, AppendToTopic, storeVars
  <2> QED
    BY <1>b, <1>c, <1>d, <2>1, <2>2 DEF RowOf, RunOf
<1>5. CASE \/ Dequeue(w) \/ Released(w) \/ SkipCancelled(w) \/ NextFund(w)
           \/ SourceFails(w) \/ WriteFails(w) \/ Retry(w) \/ FundExhausted(w)
           \/ ScopeDone(w) \/ EmitNone(w) \/ EmitBlocks(w)
           \/ PublishWaitsAgain(w) \/ ProcessRaises(w)
  <2>1. UNCHANGED <<runId, status, staging, published, notices>>
    BY <1>5 DEF Dequeue, Released, SkipCancelled, NextFund, SourceFails,
                WriteFails, Retry, FundExhausted, ScopeDone, EmitNone,
                EmitBlocks, PublishWaitsAgain, ProcessRaises, StoreLater
  <2> QED
    BY <1>b, <1>c, <2>1 DEF RowOf
<1>6. CASE \/ CancelObserved(w) \/ WriteTmp(w) \/ PartitionWritten(w)
           \/ DropStaging(w) \/ WriteManifest(w) \/ PromoteRename(w)
           \/ PromoteSuccess(w)
  <2>1. Running(w) /\ UNCHANGED <<runId, status, notices>>
    BY <1>6 DEF CancelObserved, WriteTmp, PartitionWritten, DropStaging,
                WriteManifest, PromoteRename, PromoteSuccess, Running, Filling
  <2> QED
    BY <1>b, <1>c, <2>1 DEF RowOf, RunOf
<1> QED
  BY <1>1, <1>2, <1>3, <1>4, <1>5, <1>6 DEF WorkerStep

\* Every worker step keeps OneRun.
LEMMA WorkerStepOneRun ==
  ASSUME OwnershipInv, OneRun, NEW w \in Workers, WorkerStep(w) \/ ProcessRaises(w)
  PROVE  OneRun'
<1>1. ASSUME NEW v \in Workers \ {w} PROVE RunOf(v)'
  BY OthersUntouched, RunKept DEF OneRun
<1>2. ASSUME NEW e \in Extracts \ {job[w]} PROVE RowOf(e)'
  <2>1. (creating \cup queue)' \subseteq creating \cup queue
    BY WorkerStepHands
  <2>2. RowOf(e) /\ SameExtract(e)
    BY OtherExtracts DEF OneRun
  <2> QED
    BY <2>1, <2>2 DEF RowOf, SameExtract
<1>3. ASSUME NEW e \in Extracts, e = job[w] PROVE RowOf(e)'
  BY <1>3, WorkerStepRowOf
<1> QED
  BY <1>1, <1>2, <1>3, WorkerStepRunOf DEF OneRun
-----------------------------------------------------------------------------
(***************************************************************************)
(* The funds and the attempts of a run.                                    *)
(***************************************************************************)

\* A worker that goes back to the top of its loop has empty lists.
LEMMA LoopTopRun ==
  ASSUME TasksOK, NEW w \in Workers, LoopTop(w)
  PROVE  Accounted(w)' /\ Capped(w)'
BY DEF TasksOK, LoopTop, Goto, Accounted, Capped, InFund, Running, Filling, Telling

\* The worker that makes the step still accounts for its funds.
LEMMA WorkerStepAccounted ==
  ASSUME OwnershipInv, NEW w \in Workers, WorkerStep(w) \/ ProcessRaises(w),
         Accounted(w)
  PROVE  Accounted(w)'
<1> USE ConstantsAssumption
    DEF rowVars, storeVars, poolVars, busVars, runVars, localVars, faultVars,
        sharedVars, Goto, InFund, Accounted, Running, Filling, Telling
<1>a. /\ TasksOK
      /\ w \in woken => pc[w] = "publish"
      /\ HasJob(w) => job[w] \in Extracts /\ Len(scope[job[w]]) \in Nat
  BY Alone DEF OwnershipInv, TypeOK, RowsOK, WokenOK, Publishers
<1>b. /\ InFund(w) => idx[w] \in 1..Len(scope[job[w]])
      /\ pc[w] = "fund" => idx[w] \in Nat \ {0}
  BY DEF OwnershipInv, JobOK
<1>1. CASE \/ SkipCancelled(w) \/ FinalizeCancelled(w) \/ EmitNone(w)
           \/ EmitWebhook(w) \/ EmitEvent(w) \/ PublishWakes(w)
           \/ ProcessRaises(w)
  BY <1>a, <1>1, LoopTopRun
     DEF SkipCancelled, FinalizeCancelled, EmitNone, EmitWebhook, EmitEvent,
         PublishWakes, ProcessRaises, AppendToTopic
<1>2. CASE Dequeue(w) \/ Released(w)
  BY <1>a, <1>2 DEF TasksOK, Dequeue, Released
<1>3. CASE StartRun(w)
  BY <1>a, <1>3 DEF TasksOK, StartRun, HasJob
<1>4. CASE NextFund(w)
  BY <1>a, <1>4, SMTT(30) DEF TasksOK, NextFund
<1>5. CASE SourceFails(w) \/ WriteTmp(w) \/ WriteFails(w) \/ Retry(w)
  BY <1>a, <1>5 DEF TasksOK, SourceFails, WriteTmp, WriteFails, Retry
<1>6. CASE PartitionWritten(w)
  BY <1>a, <1>b, <1>6, SMTT(30) DEF TasksOK, PartitionWritten, HasJob
<1>7. CASE FundExhausted(w)
  BY <1>a, <1>b, <1>7, SMTT(30)
     DEF TasksOK, FundExhausted, FundsFailed, ExtractCapReached, HasJob
<1>8. CASE ScopeDone(w)
  BY <1>a, <1>b, <1>8 DEF TasksOK, ScopeDone, Remaining, HasJob
<1>9. CASE \/ CancelObserved(w) \/ DropStaging(w) \/ WriteManifest(w)
           \/ PromoteRename(w) \/ PromoteSuccess(w) \/ CommitOutcome(w)
           \/ EmitBlocks(w) \/ PublishWaitsAgain(w)
  BY <1>a, <1>9, SMTT(30) DEF TasksOK, CancelObserved, DropStaging, WriteManifest,
         PromoteRename, PromoteSuccess, CommitOutcome, EmitBlocks,
         PublishWaitsAgain
<1> QED
  BY <1>1, <1>2, <1>3, <1>4, <1>5, <1>6, <1>7, <1>8, <1>9 DEF WorkerStep

\* ... and stays within its caps.
LEMMA WorkerStepCapped ==
  ASSUME OwnershipInv, NEW w \in Workers, WorkerStep(w) \/ ProcessRaises(w),
         Accounted(w), Capped(w)
  PROVE  Capped(w)'
<1> USE ConstantsAssumption
    DEF rowVars, storeVars, poolVars, busVars, runVars, localVars, faultVars,
        sharedVars, Goto, InFund, Capped, SpentOn
<1>a. /\ TasksOK
      /\ w \in woken => pc[w] = "publish"
      /\ HasJob(w) => job[w] \in Extracts /\ Len(scope[job[w]]) \in Nat
  BY Alone DEF OwnershipInv, TypeOK, RowsOK, WokenOK, Publishers
<1>b. /\ InFund(w) => idx[w] \in 1..Len(scope[job[w]])
      /\ pc[w] = "fund" => idx[w] \in Nat \ {0}
  BY DEF OwnershipInv, JobOK
<1>1. CASE \/ SkipCancelled(w) \/ FinalizeCancelled(w) \/ EmitNone(w)
           \/ EmitWebhook(w) \/ EmitEvent(w) \/ PublishWakes(w)
           \/ ProcessRaises(w)
  BY <1>a, <1>1, LoopTopRun
     DEF SkipCancelled, FinalizeCancelled, EmitNone, EmitWebhook, EmitEvent,
         PublishWakes, ProcessRaises, AppendToTopic
<1>2. CASE Dequeue(w) \/ Released(w) \/ PublishWaitsAgain(w)
  BY <1>a, <1>2 DEF TasksOK, Dequeue, Released, PublishWaitsAgain
<1>3. CASE StartRun(w)
  BY <1>a, <1>3 DEF TasksOK, StartRun, HasJob, Accounted, Running, Filling, Telling
<1>4. CASE NextFund(w)
  BY <1>a, <1>4 DEF TasksOK, NextFund
<1>5. CASE SourceFails(w) \/ WriteTmp(w) \/ WriteFails(w) \/ Retry(w)
  BY <1>a, <1>5 DEF TasksOK, SourceFails, WriteTmp, WriteFails, Retry
<1>6. CASE PartitionWritten(w)
  BY <1>a, <1>b, <1>6 DEF TasksOK, PartitionWritten, HasJob
<1>7. CASE FundExhausted(w)
  <2>1. /\ idx[w] \in 1..Len(scope[job[w]]) /\ Len(scope[job[w]]) \in Nat
        /\ attempts[w] = MaxAttemptsPerFund /\ completed'[w] = completed[w]
        /\ total[w] \in Nat
    BY <1>a, <1>b, <1>7 DEF TasksOK, FundExhausted, HasJob
  <2>2. ASSUME completed[w] = {}
        PROVE  /\ failed'[w] = 1..idx[w]
               /\ total'[w] = MaxAttemptsPerFund * idx[w]
               /\ total'[w] = total[w] + MaxAttemptsPerFund
               /\ total[w] < MaxAttemptsPerExtract
    <3>1. failed[w] = 1..(idx[w] - 1) /\ total[w] = MaxAttemptsPerFund * (idx[w] - 1)
          /\ total[w] < MaxAttemptsPerExtract
      BY <1>7, <2>2 DEF FundExhausted
    <3>2. 1..idx[w] = (1..(idx[w] - 1)) \cup {idx[w]}
      BY <2>1
    <3>3. MaxAttemptsPerFund * idx[w]
             = MaxAttemptsPerFund * (idx[w] - 1) + MaxAttemptsPerFund
      BY <2>1
    <3> QED
      BY <1>a, <1>7, <2>1, <3>1, <3>2, <3>3 DEF TasksOK, FundExhausted, FundsFailed
  <2>3. CASE ExtractCapReached(w)
    <3>1. pc'[w] = "finalize" /\ total'[w] >= MaxAttemptsPerExtract
      BY <1>a, <1>7, <2>1, <2>3 DEF TasksOK, FundExhausted, ExtractCapReached
    <3>2. scope' = scope /\ job' = job
      BY <1>7 DEF FundExhausted
    <3> QED
      BY <2>1, <2>2, <3>1, <3>2
  <2>4. CASE ~ExtractCapReached(w)
    <3>1. /\ pc'[w] = "fund" /\ idx'[w] = idx[w] + 1
          /\ total'[w] < MaxAttemptsPerExtract
      BY <1>a, <1>7, <2>1, <2>4 DEF TasksOK, FundExhausted, ExtractCapReached
    <3> QED
      BY <2>1, <2>2, <3>1
  <2> QED
    BY <2>3, <2>4
<1>8. CASE ScopeDone(w)
  <2>1. completed[w] = {} => /\ SpentOn(w, Len(scope[job[w]]))
                             /\ total[w] < MaxAttemptsPerExtract
    <3>1. idx[w] - 1 = Len(scope[job[w]])
      BY <1>a, <1>b, <1>8 DEF ScopeDone, Remaining, HasJob, Accounted
    <3> QED
      BY <1>8, <3>1 DEF ScopeDone
  <2>2. /\ pc'[w] = "finalize" /\ UNCHANGED <<scope, job, completed, failed, total>>
        /\ total[w] \in Nat
        /\ Len(scope[job[w]]) \in 0..Len(scope[job[w]])
    BY <1>a, <1>8 DEF TasksOK, ScopeDone, HasJob
  <2>3. completed[w] = {} => total[w] < MaxAttemptsPerExtract + MaxAttemptsPerFund
    BY <2>1, <2>2
  <2> QED
    BY <2>1, <2>2, <2>3, SMTT(30)
<1>9. CASE \/ CancelObserved(w) \/ WriteManifest(w) \/ PromoteRename(w)
           \/ CommitOutcome(w) \/ EmitBlocks(w)
  BY <1>a, <1>9, SMTT(30) DEF TasksOK, CancelObserved, WriteManifest, PromoteRename,
         CommitOutcome, EmitBlocks
<1>10. CASE DropStaging(w) \/ PromoteSuccess(w)
  BY <1>a, <1>10 DEF TasksOK, DropStaging, PromoteSuccess, Accounted
<1> QED
  BY <1>1, <1>2, <1>3, <1>4, <1>5, <1>6, <1>7, <1>8, <1>9, <1>10 DEF WorkerStep
-----------------------------------------------------------------------------
(***************************************************************************)
(* The prefixes of a run.                                                  *)
(***************************************************************************)

\* The worker that makes the step still has in its prefixes what it wrote.
LEMMA WorkerStepStored ==
  ASSUME OwnershipInv, OneRun, NEW w \in Workers, WorkerStep(w) \/ ProcessRaises(w),
         Accounted(w), Stored(w)
  PROVE  Stored(w)'
<1> USE DEF rowVars, storeVars, poolVars, busVars, runVars, localVars,
            faultVars, sharedVars, Goto
<1>a. /\ TasksOK /\ StoreOK
      /\ w \in woken => pc[w] = "publish"
      /\ HasJob(w) => job[w] \in Extracts /\ staging[job[w]] \in Dir
                      /\ published[job[w]] \in Dir
      /\ HasJob(w) => RowOf(job[w])
      /\ RunOf(w)
  BY Alone DEF OwnershipInv, TypeOK, StoreOK, WokenOK, Publishers, OneRun
<1>1. CASE pc'[w] \in {"pausedTop", "get", "pausedJob", "wake", "process",
                       "emit", "publish"}
  BY <1>1 DEF Stored, Filling
<1>2. CASE StartRun(w)
  <2>1. completed[w] = {} /\ failed[w] = {}
    BY <1>2 DEF StartRun, Accounted, Running, Filling, Telling
  <2>2. staging[job[w]] = NoDir /\ published[job[w]] = NoDir
    BY <1>a, <1>2 DEF StartRun, HasJob, Waiting, RunOf, RowOf
  <2>3. /\ pc'[w] = "fund" /\ completed'[w] = {} /\ failed'[w] = {}
        /\ UNCHANGED <<scope, job, staging, published>>
    BY <1>a, <1>2, <2>1 DEF StartRun, TasksOK
  <2> QED
    BY <2>2, <2>3 DEF Stored, StagingFilled, Filling, ManifestFunds, FundsAt,
                      InFund, NoDir
<1>3. CASE \/ NextFund(w) \/ SourceFails(w) \/ WriteFails(w) \/ Retry(w)
           \/ ScopeDone(w)
  <2>1. /\ Filling(w) /\ pc'[w] \in {"attempt", "backoff", "finalize"}
        /\ pc[w] # "fund" => InFund(w)
        /\ pc'[w] = "finalize" => pc[w] = "fund"
        /\ UNCHANGED <<scope, job, idx, completed, failed, staging, published>>
    BY <1>a, <1>3 DEF TasksOK, NextFund, SourceFails, WriteFails, Retry,
           ScopeDone, Filling, InFund
  <2> QED
    BY <2>1 DEF Stored, StagingFilled, Filling, ManifestFunds, FundsAt,
                InFund, Fund
<1>4. CASE FundExhausted(w)
  <2>1. /\ pc[w] = "backoff" /\ pc'[w] \in {"fund", "finalize"}
        /\ failed'[w] = failed[w] \cup {idx[w]}
        /\ UNCHANGED <<scope, job, completed, staging, published>>
    BY <1>a, <1>4 DEF TasksOK, FundExhausted, FundsFailed
  <2>2. StagingFilled(w) /\ published[job[w]] = NoDir /\ InFund(w)
    BY <2>1 DEF Stored, Filling, InFund
  <2>3. /\ ManifestFunds(w)' = ManifestFunds(w)
        /\ FundsAt(job[w], failed[w])' = FundsAt(job[w], failed[w]) \cup {Fund(w)}
    BY <2>1 DEF ManifestFunds, Fund, FundsAt
  <2> QED
    BY <2>1, <2>2, <2>3 DEF Stored, StagingFilled, Filling, InFund
<1>5. CASE WriteTmp(w)
  <2>1. /\ pc[w] = "attempt" /\ pc'[w] = "rename"
        /\ UNCHANGED <<scope, job, idx, completed, failed, published>>
        /\ staging' = [staging EXCEPT ![job[w]].tmp = @ \cup {Fund(w)}]
    BY <1>a, <1>5 DEF TasksOK, WriteTmp
  <2>2. staging'[job[w]] = [staging[job[w]] EXCEPT !.tmp = @ \cup {Fund(w)}]
    BY <1>a, <2>1 DEF StoreOK, HasJob
  <2> QED
    BY <1>a, <2>1, <2>2 DEF Stored, StagingFilled, Filling, ManifestFunds,
           FundsAt, InFund, Fund, HasJob, Dir
<1>6. CASE PartitionWritten(w)
  <2> DEFINE d == staging[job[w]]
  <2>1. /\ pc[w] = "rename" /\ pc'[w] = "fund"
        /\ completed'[w] = completed[w] \cup {idx[w]}
        /\ UNCHANGED <<scope, job, failed, published>>
        /\ d \in Dir /\ job[w] \in Extracts
    BY <1>a, <1>6 DEF TasksOK, PartitionWritten, HasJob
  <2>2. /\ staging'[job[w]].tmp = d.tmp \ {Fund(w)}
        /\ staging'[job[w]].files = d.files \cup {Fund(w)}
        /\ staging'[job[w]].manifest = d.manifest
        /\ staging'[job[w]].success = d.success
    BY <1>a, <1>6, <2>1 DEF PartitionWritten, StoreOK, Dir
  <2>3. /\ d.files = ManifestFunds(w) /\ d.manifest = {} /\ ~d.success
        /\ d.tmp \subseteq FundsAt(job[w], failed[w]) \cup {Fund(w)}
        /\ published[job[w]] = NoDir
    BY <2>1 DEF Stored, StagingFilled, Filling, InFund
  <2>4. ManifestFunds(w)' = ManifestFunds(w) \cup {Fund(w)}
    BY <2>1 DEF ManifestFunds, Fund
  <2> QED
    BY <2>1, <2>2, <2>3, <2>4 DEF Stored, StagingFilled, Filling, InFund, FundsAt
<1>7. CASE CancelObserved(w)
  BY <1>a, <1>7 DEF TasksOK, CancelObserved, Stored, Filling
<1>8. CASE DropStaging(w)
  BY <1>a, <1>8 DEF TasksOK, DropStaging, Stored, Filling
<1>9. CASE WriteManifest(w)
  <2>1. /\ pc[w] = "finalize" /\ pc'[w] = "promote"
        /\ UNCHANGED <<scope, job, completed, failed, published>>
        /\ staging'[job[w]] = [staging[job[w]] EXCEPT !.manifest = ManifestFunds(w)]
    BY <1>a, <1>9 DEF TasksOK, StoreOK, WriteManifest, HasJob
  <2> QED
    BY <1>a, <2>1 DEF Stored, StagingFilled, Filling, ManifestFunds,
           FundsAt, InFund, HasJob, Dir
<1>10. CASE PromoteRename(w)
  <2>1. /\ pc[w] = "promote" /\ pc'[w] = "mark"
        /\ UNCHANGED <<scope, job, completed, failed>>
        /\ published'[job[w]] = staging[job[w]] /\ staging'[job[w]] = NoDir
    BY <1>a, <1>10 DEF TasksOK, StoreOK, PromoteRename, HasJob
  <2>2. StagingFilled(w) /\ ManifestFunds(w)' = ManifestFunds(w)
    BY <2>1 DEF Stored, ManifestFunds
  <2>3. FundsAt(job[w], failed[w])' = FundsAt(job[w], failed[w])
    BY <2>1 DEF FundsAt
  <2>4. PublishedWhole(w)'
    BY <1>a, <2>1, <2>2, <2>3
       DEF StagingFilled, PublishedWhole, InFund, HasJob, Dir
  <2> QED
    BY <2>1, <2>4 DEF Stored, Filling
<1>11. CASE PromoteSuccess(w)
  <2>1. /\ pc[w] = "mark" /\ pc'[w] = "commit"
        /\ UNCHANGED <<scope, job, completed, failed, staging>>
        /\ published'[job[w]] = [published[job[w]] EXCEPT !.success = TRUE]
    BY <1>a, <1>11 DEF TasksOK, StoreOK, PromoteSuccess, HasJob
  <2>2. completed[w] # {} /\ PublishedWhole(w)
    BY <2>1 DEF Stored, Accounted
  <2>3. ManifestFunds(w)' = ManifestFunds(w) /\ FundsAt(job[w], failed[w])'
            = FundsAt(job[w], failed[w])
    BY <2>1 DEF ManifestFunds, FundsAt
  <2>4. PublishedWhole(w)'
    <3> DEFINE d == published[job[w]]
               u == [d EXCEPT !.success = TRUE]
    <3>1. d \in Dir
      BY <1>a, <2>1 DEF HasJob
    <3>2. /\ u.files = d.files /\ u.tmp = d.tmp /\ u.manifest = d.manifest
          /\ u.success = TRUE
      BY <3>1 DEF Dir
    <3>3. published'[job'[w]] = u /\ staging'[job'[w]] = staging[job[w]]
      BY <2>1
    <3> HIDE DEF u
    <3> QED
      BY <2>1, <2>2, <2>3, <3>2, <3>3 DEF PublishedWhole
  <2> QED
    BY <2>1, <2>2, <2>4 DEF Stored, Filling
<1>12. CASE \/ Dequeue(w) \/ Released(w) \/ SkipCancelled(w)
            \/ FinalizeCancelled(w) \/ CommitOutcome(w) \/ EmitNone(w)
            \/ EmitWebhook(w) \/ EmitEvent(w) \/ EmitBlocks(w)
            \/ PublishWakes(w) \/ PublishWaitsAgain(w) \/ ProcessRaises(w)
  BY <1>a, <1>1, <1>12
     DEF TasksOK, Dequeue, Released, SkipCancelled, FinalizeCancelled,
         CommitOutcome, EmitNone, EmitWebhook, EmitEvent, EmitBlocks,
         PublishWakes, PublishWaitsAgain, ProcessRaises, AppendToTopic, LoopTop
<1> QED
  BY <1>2, <1>3, <1>4, <1>5, <1>6, <1>7, <1>8, <1>9, <1>10, <1>11, <1>12
     DEF WorkerStep
-----------------------------------------------------------------------------
(***************************************************************************)
(* What a worker step does to what a client can see.                       *)
(***************************************************************************)

Seen == <<status, runId, state, published, notices>>

\* Nothing, unless it starts the run, drops it, commits it, publishes or tells.
LEMMA WorkerStepSeen ==
  ASSUME OwnershipInv, OneRun, NEW w \in Workers, WorkerStep(w) \/ ProcessRaises(w)
  PROVE  \/ UNCHANGED <<Seen, staging>>
         \/ Filling(w) /\ UNCHANGED Seen
         \/ StartRun(w) \/ FinalizeCancelled(w) \/ CommitOutcome(w)
         \/ PromoteRename(w) \/ PromoteSuccess(w)
         \/ /\ Telling(w) /\ mode[job[w]] # "none" /\ Notify(w)
            /\ UNCHANGED <<status, runId, state, staging, published>>
<1> USE DEF rowVars, storeVars, poolVars, busVars, runVars, localVars,
            faultVars, sharedVars, Seen, Filling, Telling
<1>1. CASE \/ Dequeue(w) \/ Released(w) \/ SkipCancelled(w) \/ NextFund(w)
           \/ SourceFails(w) \/ WriteFails(w) \/ Retry(w) \/ FundExhausted(w)
           \/ ScopeDone(w) \/ EmitNone(w) \/ EmitBlocks(w)
           \/ PublishWaitsAgain(w) \/ ProcessRaises(w)
  BY <1>1 DEF Dequeue, Released, SkipCancelled, NextFund, SourceFails,
              WriteFails, Retry, FundExhausted, ScopeDone, EmitNone,
              EmitBlocks, PublishWaitsAgain, ProcessRaises, StoreLater
<1>2. CASE \/ CancelObserved(w) \/ WriteTmp(w) \/ PartitionWritten(w)
           \/ DropStaging(w) \/ WriteManifest(w)
  BY <1>2 DEF CancelObserved, WriteTmp, PartitionWritten, DropStaging,
              WriteManifest
<1>3. CASE EmitWebhook(w) \/ EmitEvent(w)
  BY <1>3 DEF EmitWebhook, EmitEvent, AppendToTopic
<1>4. CASE PublishWakes(w)
  <2>1. pc[w] = "publish"
    BY <1>4 DEF PublishWakes, OwnershipInv, WokenOK, Publishers
  <2>2. mode[job[w]] = "event"
    BY <2>1 DEF OneRun, RunOf
  <2> QED
    BY <1>4, <2>1, <2>2 DEF PublishWakes, AppendToTopic
<1> QED
  BY <1>1, <1>2, <1>3, <1>4 DEF WorkerStep

\* Where the worker of an extract stands with it, by the extract's row.
LEMMA HolderStands ==
  ASSUME OwnershipInv, OneRun, NEW w \in Workers, job[w] \in Extracts
  PROVE  /\ HasJob(w) /\ RowOf(job[w]) /\ RunOf(w)
         /\ Waiting(w) \/ Running(w) \/ Telling(w)
         /\ status[job[w]] \in Outcomes => Telling(w) /\ status[job[w]] = Outcome(w)
         /\ Running(w) => /\ status[job[w]] \in {"RUNNING", "CANCELLED"}
                          /\ notices[job[w]] = <<>>
         /\ Telling(w) => ~Waiting(w) /\ ~Running(w)
<1>1. HasJob(w) /\ pc[w] \in SuspendedPcs \cup LoopPcs
  BY ConstantsAssumption DEF OwnershipInv, JobOK, TypeOK, TasksOK
<1>2. Waiting(w) \/ Running(w) \/ Telling(w)
  BY <1>1 DEF HasJob, Waiting, Running, Filling, Telling, SuspendedPcs, LoopPcs
<1>3. RowOf(job[w]) /\ RunOf(w)
  BY DEF OneRun
<1>4. Running(w) => /\ status[job[w]] \in {"RUNNING", "CANCELLED"}
                    /\ notices[job[w]] = <<>>
  BY <1>3 DEF RowOf, RunOf, Outcomes
<1>5. status[job[w]] \in Outcomes => Telling(w) /\ status[job[w]] = Outcome(w)
  BY <1>2, <1>3 DEF RowOf, RunOf, Outcomes
<1>6. Telling(w) => ~Waiting(w) /\ ~Running(w)
  BY DEF Waiting, Running, Filling, Telling
<1> QED
  BY <1>1, <1>2, <1>3, <1>4, <1>5, <1>6
-----------------------------------------------------------------------------
(***************************************************************************)
(* Every step keeps what is known of the runs.                             *)
(***************************************************************************)

\* Before the first request there is no run.
LEMMA InitRun == Init => RunInv
<1> SUFFICES ASSUME Init PROVE OneRun /\ \A w \in Workers : Accounted(w) /\ Capped(w) /\ Stored(w)
  BY InitOwnership DEF RunInv
<1> USE DEF Init
<1>1. \A e \in Extracts : RowOf(e)
  BY DEF RowOf
<1>2. ASSUME NEW w \in Workers
      PROVE  RunOf(w) /\ Accounted(w) /\ Capped(w) /\ Stored(w)
  <2>1. pc[w] = "get" /\ completed[w] = {} /\ failed[w] = {} /\ total[w] = 0
    OBVIOUS
  <2> QED
    BY <2>1 DEF RunOf, Accounted, Capped, Stored, Waiting, Running, Filling,
                Telling, InFund
<1> QED
  BY <1>1, <1>2 DEF OneRun

\* Steps of the pool.
LEMMA WorkerStepRun ==
  ASSUME RunInv, NEW w \in Workers, WorkerStep(w) \/ ProcessRaises(w)
  PROVE  /\ OneRun'
         /\ \A v \in Workers : (Accounted(v) /\ Capped(v) /\ Stored(v))'
<1>1. OneRun'
  BY WorkerStepOneRun DEF RunInv
<1>2. (Accounted(w) /\ Capped(w) /\ Stored(w))'
  BY WorkerStepAccounted, WorkerStepCapped, WorkerStepStored DEF RunInv
<1>3. ASSUME NEW v \in Workers \ {w}
      PROVE  (Accounted(v) /\ Capped(v) /\ Stored(v))'
  BY OthersUntouched, OtherExtracts, RunFactsKept
     DEF RunInv, Untouched, SameExtract
<1> QED
  BY <1>1, <1>2, <1>3

\* The handlers: a row that is created has no run, and a cancel changes the
\* status of a row and nothing else of it.
LEMMA HandlersRun ==
  ASSUME RunInv, Handlers
  PROVE  /\ OneRun'
         /\ \A v \in Workers : (Accounted(v) /\ Capped(v) /\ Stored(v))'
<1> USE DEF rowVars, storeVars, poolVars, busVars, runVars, localVars, faultVars
<1>a. OwnershipInv /\ OneRun /\ RowsOK /\ PoolOK
  BY DEF RunInv, OwnershipInv, TypeOK
<1>b. \A v \in Workers : SameLocals(v)
  BY DEF Handlers, CreateExtract, Enqueue, CreateAborts, CancelExtract,
         CancelAborts, SameLocals
<1>1. ASSUME NEW e \in Extracts, NEW s \in Scopes, NEW m \in Modes,
             NEW p \in Priorities, CreateExtract(e, s, m, p)
      PROVE  /\ OneRun'
             /\ \A v \in Workers : (Accounted(v) /\ Capped(v) /\ Stored(v))'
  <2> USE DEF CreateExtract
  <2>1. ~runId[e] /\ status[e] = "NONE" /\ status'[e] = "ACCEPTED"
    BY <1>a, <1>1 DEF OneRun, RowOf, RowsOK
  <2>2. ASSUME NEW d \in Extracts PROVE RowOf(d)'
    <3>1. RowOf(d) /\ RowOf(e)
      BY <1>a DEF OneRun
    <3>2. CASE d = e
      BY <1>1, <2>1, <3>1, <3>2 DEF RowOf, Outcomes
    <3>3. CASE d # e
      <4>1. status'[d] = status[d] /\ creating' = {e}
        BY <1>a, <1>1, <3>3 DEF RowsOK
      <4> QED
        BY <1>1, <3>1, <3>3, <4>1 DEF RowOf
    <3> QED
      BY <3>2, <3>3
  <2>3. ASSUME NEW v \in Workers
        PROVE  (RunOf(v) /\ Accounted(v) /\ Capped(v) /\ Stored(v))'
    <3>1. HasJob(v) => job[v] \in Extracts \ {e}
      BY <1>a, <2>1, Alone
    <3>2. Untouched(v)
      BY <1>a, <1>b, <1>1, <3>1 DEF Untouched, SameExtract, RowsOK
    <3>3. HasJob(v) => scope'[job[v]] = scope[job[v]]
      BY <3>2 DEF Untouched
    <3> QED
      BY <1>a, <3>2, RunKept, RunFactsKept
         DEF RunInv, OneRun, Untouched, SameExtract
  <2> QED
    BY <2>2, <2>3 DEF OneRun
<1>2. ASSUME NEW e \in Extracts,
             Enqueue(e) \/ CreateAborts(e) \/ CancelAborts(e)
      PROVE  /\ OneRun'
             /\ \A v \in Workers : (Accounted(v) /\ Capped(v) /\ Stored(v))'
  <2> USE DEF Enqueue, CreateAborts, CancelAborts
  <2>1. (creating \cup queue)' \subseteq creating \cup queue
    BY <1>a, <1>2
  <2>2. UNCHANGED <<rowVars, storeVars, notices>>
    BY <1>2
  <2>3. \A d \in Extracts : RowOf(d)'
    BY <1>a, <2>1, <2>2 DEF OneRun, RowOf
  <2>4. ASSUME NEW v \in Workers
        PROVE  (RunOf(v) /\ Accounted(v) /\ Capped(v) /\ Stored(v))'
    <3>1. Untouched(v)
      BY <1>b, <2>2 DEF Untouched, SameExtract
    <3> QED
      BY <1>a, <2>2, <3>1, RunKept, RunFactsKept
         DEF RunInv, OneRun, Untouched, SameExtract
  <2> QED
    BY <2>3, <2>4 DEF OneRun
<1>3. ASSUME NEW e \in Extracts, CancelExtract(e)
      PROVE  /\ OneRun'
             /\ \A v \in Workers : (Accounted(v) /\ Capped(v) /\ Stored(v))'
  <2> USE DEF CancelExtract
  <2>1. /\ status[e] \in {"ACCEPTED", "RUNNING"} /\ status'[e] = "CANCELLED"
        /\ \A d \in Extracts \ {e} : status'[d] = status[d]
        /\ UNCHANGED <<creating, queue, runId, scope, mode, staging, published,
                       notices>>
    BY <1>a, <1>3 DEF RowsOK, Cancellable
  <2>2. \A d \in Extracts : RowOf(d)'
    BY <1>a, <2>1 DEF OneRun, RowOf, Outcomes
  <2>3. ASSUME NEW v \in Workers PROVE RunOf(v)'
    <3>1. RunOf(v) /\ SameLocals(v) /\ (HasJob(v) => job[v] \in Extracts)
      BY <1>a, <1>b, Alone DEF OneRun
    <3>2. Outcome(v)' = Outcome(v) /\ Outcome(v) \in Outcomes
      BY <3>1 DEF SameLocals, Outcome, Outcomes
    <3> QED
      BY <2>1, <3>1, <3>2
         DEF SameLocals, RunOf, Waiting, Running, Filling, Telling, HasJob,
             Outcomes
  <2>4. \A v \in Workers : (Accounted(v) /\ Capped(v) /\ Stored(v))'
    BY <1>b, <2>1, RunFactsKept DEF RunInv
  <2> QED
    BY <2>2, <2>3, <2>4 DEF OneRun
<1> QED
  BY <1>1, <1>2, <1>3 DEF Handlers

\* The admin hooks, a crash and a stuttering step: workers keep their runs or
\* have none.
LEMMA HooksRun ==
  ASSUME RunInv, AdminHooks \/ Crash \/ UNCHANGED vars
  PROVE  /\ OneRun'
         /\ \A v \in Workers : (Accounted(v) /\ Capped(v) /\ Stored(v))'
<1> USE DEF rowVars, storeVars, poolVars, busVars, runVars, localVars, faultVars
<1>a. OwnershipInv /\ OneRun /\ TasksOK
  BY DEF RunInv, OwnershipInv, TypeOK
<1>b. /\ UNCHANGED <<rowVars, storeVars, notices>>
      /\ (creating \cup queue)' \subseteq creating \cup queue
  BY DEF AdminHooks, PauseProcessing, ResumeProcessing, SimulateSourceOutage,
         SetBus, OtherPublish, Crash, vars
<1>1. \A e \in Extracts : RowOf(e)'
  BY <1>a, <1>b DEF OneRun, RowOf
<1>2. ASSUME NEW v \in Workers, SameLocals(v)
      PROVE  (RunOf(v) /\ Accounted(v) /\ Capped(v) /\ Stored(v))'
  <2>1. Untouched(v)
    BY <1>b, <1>2 DEF Untouched, SameExtract
  <2> QED
    BY <1>a, <1>b, <2>1, RunKept, RunFactsKept
       DEF RunInv, OneRun, Untouched, SameExtract
<1>3. CASE ResumeProcessing
  <2>1. ASSUME NEW v \in Workers, pc[v] \in {"pausedTop", "pausedJob"}
        PROVE  (RunOf(v) /\ Accounted(v) /\ Capped(v) /\ Stored(v))'
    <3>1. /\ pc[v] = "pausedTop" => pc'[v] = "get"
          /\ pc[v] = "pausedJob" => pc'[v] = "wake"
          /\ UNCHANGED <<scope, job, runId, completed, failed, total>>
      BY <1>3, <2>1 DEF ResumeProcessing, GateOpens
    <3>2. RunOf(v) /\ Accounted(v)
      BY <1>a DEF RunInv, OneRun
    <3> QED
      BY <2>1, <3>1, <3>2
         DEF RunOf, Accounted, Capped, Stored, Waiting, Running, Filling,
             Telling, InFund
  <2>2. ASSUME NEW v \in Workers, pc[v] \notin {"pausedTop", "pausedJob"}
        PROVE  SameLocals(v)
    BY <1>3, <2>2 DEF ResumeProcessing, GateOpens, SameLocals
  <2> QED
    BY <1>1, <1>2, <2>1, <2>2 DEF OneRun
<1>4. CASE Crash
  <2>1. ASSUME NEW v \in Workers
        PROVE  (RunOf(v) /\ Accounted(v) /\ Capped(v) /\ Stored(v))'
    <3>1. pc'[v] = "get" /\ completed'[v] = {} /\ failed'[v] = {} /\ total'[v] = 0
      BY <1>4 DEF Crash
    <3> QED
      BY <3>1 DEF RunOf, Accounted, Capped, Stored, Waiting, Running, Filling,
                  Telling, InFund
  <2> QED
    BY <1>1, <2>1 DEF OneRun
<1>5. CASE \/ PauseProcessing \/ OtherPublish \/ UNCHANGED vars
           \/ \E b \in BOOLEAN : SimulateSourceOutage(b) \/ SetBus(b)
  <2>1. \A v \in Workers : SameLocals(v)
    BY <1>5 DEF PauseProcessing, OtherPublish, SimulateSourceOutage, SetBus,
                SameLocals, vars
  <2> QED
    BY <1>1, <1>2, <2>1 DEF OneRun
<1> QED
  BY <1>3, <1>4, <1>5 DEF AdminHooks

\* Every step keeps the invariant.
LEMMA NextRun == RunInv /\ [Next]_vars => RunInv'
<1> SUFFICES ASSUME RunInv, [Next]_vars PROVE RunInv'
  OBVIOUS
<1>1. OwnershipInv'
  BY NextOwnership DEF RunInv
<1> QED
  BY <1>1, WorkerStepRun, HandlersRun, HooksRun DEF RunInv, Next
-----------------------------------------------------------------------------
(***************************************************************************)
(* What a run leaves behind.                                               *)
(***************************************************************************)

\* The retry arithmetic of a run that failed.
FailedFast(e) ==
    LET s == state[e] IN
    /\ s.retries = MaxAttemptsPerFund * Cardinality(s.failed)
    /\ s.retries < MaxAttemptsPerExtract + MaxAttemptsPerFund
    /\ Cardinality(s.failed) < Len(scope[e]) => s.retries >= MaxAttemptsPerExtract

\* The promises of the outcomes, one extract at a time.
OutcomeOf(e) ==
    /\ published[e] # NoDir =>
           /\ published[e].files = published[e].manifest
           /\ published[e].files # {}
           /\ staging[e] = NoDir
    /\ status[e] \in {"ACCEPTED", "FAILED"} => published[e] = NoDir
    /\ status[e] = "COMPLETED" =>
           /\ published[e] = [files |-> Range(scope[e]), tmp |-> {},
                              manifest |-> Range(scope[e]), success |-> TRUE]
           /\ FundsAt(e, state[e].files) = Range(scope[e])
    /\ status[e] = "PARTIAL" =>
           LET s == state[e] IN
           /\ FundsAt(e, s.files) = published[e].files
           /\ published[e].success
           /\ s.files # {} /\ s.failed # {} /\ s.files \cap s.failed = {}
           /\ \/ s.files \cup s.failed = 1..Len(scope[e])
              \/ s.retries >= MaxAttemptsPerExtract
    /\ status[e] = "FAILED" => FailedFast(e)
    /\ \/ notices[e] = <<>>
       \/ /\ notices[e] = <<"ready">>
          /\ status[e] = "COMPLETED"
          /\ mode[e] # "none"
       \/ /\ notices[e] = <<"failed">>
          /\ status[e] \in {"PARTIAL", "FAILED"}
          /\ mode[e] # "none"

OutcomeInv == RunInv /\ \A e \in Extracts : OutcomeOf(e)

\* An extract nobody touched keeps its promises.
LEMMA OutcomeKept ==
  ASSUME NEW e \in Extracts, SameExtract(e), scope'[e] = scope[e], mode'[e] = mode[e],
         OutcomeOf(e)
  PROVE  OutcomeOf(e)'
BY DEF OutcomeOf, SameExtract, FailedFast, FundsAt

\* A run that failed has spent the attempts of k funds and of no other.
LEMMA CommitFailed ==
  ASSUME OwnershipInv, NEW w \in Workers, CommitOutcome(w), Capped(w),
         NEW e \in Extracts, e = job[w], completed[w] = {}
  PROVE  FailedFast(e)'
<1>1. PICK k \in 0..Len(scope[e]) :
          /\ SpentOn(w, k)
          /\ total[w] < MaxAttemptsPerExtract + MaxAttemptsPerFund
          /\ k < Len(scope[e]) => total[w] >= MaxAttemptsPerExtract
  BY DEF CommitOutcome, Capped
<1>2. Len(scope[e]) \in Nat
  BY DEF OwnershipInv, TypeOK, RowsOK
<1>3. Cardinality(failed[w]) = k
  <2>1. k \in Int /\ 1 \in Int /\ (1 > k => k = 0)
    BY <1>1, <1>2
  <2>2. Cardinality(1..k) = IF 1 > k THEN 0 ELSE k - 1 + 1
    BY <2>1, FS_Interval, Zenon
  <2>3. failed[w] = 1..k
    BY <1>1 DEF SpentOn
  <2> QED
    BY <2>1, <2>2, <2>3
<1>4. state'[e] = FinalState(w) /\ scope' = scope
  BY DEF CommitOutcome, OwnershipInv, TypeOK, RowsOK
<1>5. Outcome(w) = "FAILED"
  BY DEF Outcome
<1>6. state'[e].failed = failed[w] /\ state'[e].retries = total[w]
  BY <1>4, <1>5 DEF FinalState
<1> QED
  BY <1>1, <1>2, <1>3, <1>4, <1>6 DEF SpentOn, FailedFast

\* The commit finds in the published prefix what it writes to the row.
LEMMA CommitKeeps ==
  ASSUME RunInv, NEW w \in Workers, CommitOutcome(w),
         NEW e \in Extracts, e = job[w], OutcomeOf(e)
  PROVE  OutcomeOf(e)'
<1>a. /\ OwnershipInv /\ RowsOK /\ TasksOK /\ published[e] \in Dir
      /\ Accounted(w) /\ Capped(w) /\ Stored(w) /\ pc[w] = "commit"
  BY DEF RunInv, OwnershipInv, TypeOK, StoreOK, CommitOutcome
<1>b. /\ status'[e] = Outcome(w) /\ state'[e] = FinalState(w)
      /\ UNCHANGED <<scope, mode, staging, published, notices>>
  BY <1>a DEF CommitOutcome, RowsOK, storeVars
<1>c. state'[e].files = completed[w] /\ state'[e].failed = failed[w]
  BY <1>b DEF FinalState, FilesOfRun
<1>d. notices[e] = <<>>
  BY <1>a, HolderStands DEF RunInv, Running
<1>e. DOMAIN scope[e] = 1..Len(scope[e])
  BY <1>a DEF RowsOK
<1>1. CASE completed[w] = {}
  <2>1. Outcome(w) = "FAILED"
    BY <1>1 DEF Outcome
  <2>2. published[e] = NoDir
    BY <1>a, <1>1 DEF Stored
  <2>3. FailedFast(e)'
    BY <1>a, <1>1, CommitFailed
  <2> QED
    BY <1>b, <1>d, <2>1, <2>2, <2>3 DEF OutcomeOf
<1>2. CASE completed[w] # {} /\ failed[w] # {}
  <2>1. Outcome(w) = "PARTIAL"
    BY <1>2 DEF Outcome
  <2>2. state'[e].retries = total[w]
    BY <1>b, <2>1 DEF FinalState
  <2>3. /\ published[e].files = FundsAt(e, completed[w]) /\ published[e].success
    <3>1. PublishedWhole(w)
      BY <1>a, <1>2 DEF Stored
    <3>2. ManifestFunds(w) = FundsAt(e, completed[w])
      BY DEF ManifestFunds, FundsAt
    <3> QED
      BY <1>a, <3>1, <3>2 DEF PublishedWhole
  <2>4. /\ completed[w] \cap failed[w] = {}
        /\ \/ completed[w] \cup failed[w] = 1..Len(scope[e])
           \/ total[w] >= MaxAttemptsPerExtract
    BY <1>a DEF Accounted
  <2>5. FundsAt(e, state[e].files)' = FundsAt(e, completed[w])
    BY <1>b, <1>c DEF FundsAt
  <2> QED
    BY <1>b, <1>c, <1>d, <1>2, <2>1, <2>2, <2>3, <2>4, <2>5 DEF OutcomeOf
<1>3. CASE completed[w] # {} /\ failed[w] = {}
  <2>1. Outcome(w) = "COMPLETED"
    BY <1>3 DEF Outcome
  <2>2. completed[w] = 1..Len(scope[e])
    BY <1>a, <1>3 DEF Accounted
  <2>3. FundsAt(e, completed[w]) = Range(scope[e])
    BY <1>e, <2>2 DEF FundsAt, Range
  <2>4. PublishedWhole(w) /\ ManifestFunds(w) = Range(scope[e])
    BY <1>a, <1>3, <2>3 DEF Stored, ManifestFunds, FundsAt
  <2>5. published[e].tmp \subseteq FundsAt(e, {})
    BY <1>3, <2>4 DEF PublishedWhole
  <2>6. published[e].tmp = {}
    BY <2>5 DEF FundsAt
  <2>7. published[e].success \in BOOLEAN /\ published[e].success
    BY <1>a, <2>4 DEF PublishedWhole, Dir
  <2>8. published[e].files = Range(scope[e]) /\ published[e].manifest = Range(scope[e])
    BY <2>4 DEF PublishedWhole
  <2>9. published[e] = [files |-> Range(scope[e]), tmp |-> {},
                        manifest |-> Range(scope[e]), success |-> TRUE]
    BY <1>a, <2>6, <2>7, <2>8 DEF Dir
  <2>10. FundsAt(e, state[e].files)' = FundsAt(e, completed[w])
    BY <1>b, <1>c DEF FundsAt
  <2> QED
    BY <1>b, <1>d, <2>1, <2>3, <2>9, <2>10 DEF OutcomeOf
<1> QED
  BY <1>1, <1>2, <1>3

\* Telling the client is the first time it hears of the extract.
LEMMA TellKeeps ==
  ASSUME RunInv, NEW w \in Workers, Telling(w), mode[job[w]] # "none", Notify(w),
         UNCHANGED <<scope, mode, status, runId, state, staging, published>>,
         NEW e \in Extracts, e = job[w], OutcomeOf(e)
  PROVE  OutcomeOf(e)'
<1>1. notices[e] = <<>> /\ status[e] = Outcome(w)
  BY DEF RunInv, OneRun, RunOf
<1>2. notices'[e] = <<NoticeOf(w)>>
  BY <1>1 DEF Notify, RunInv, OwnershipInv, TypeOK
<1>3. \/ NoticeOf(w) = "ready" /\ status[e] = "COMPLETED"
      \/ NoticeOf(w) = "failed" /\ status[e] \in {"PARTIAL", "FAILED"}
  BY <1>1 DEF NoticeOf, Outcome
<1> QED
  BY <1>2, <1>3 DEF OutcomeOf, FailedFast, FundsAt

\* What happens to the prefixes of a run shows nothing before they are whole.
LEMMA WorkerStepOutcome ==
  ASSUME OutcomeInv, NEW w \in Workers, WorkerStep(w) \/ ProcessRaises(w),
         NEW e \in Extracts
  PROVE  OutcomeOf(e)'
<1>a. /\ OwnershipInv /\ OneRun /\ RunInv /\ RowsOK /\ StoreOK /\ OutcomeOf(e)
      /\ Stored(w) /\ Accounted(w) /\ Stored(w)' /\ Accounted(w)'
  BY WorkerStepStored, WorkerStepAccounted DEF OutcomeInv, RunInv, OwnershipInv, TypeOK
<1>b. scope' = scope /\ mode' = mode
  BY <1>a, OtherExtracts
<1>1. CASE e # job[w]
  BY <1>a, <1>b, <1>1, OtherExtracts, OutcomeKept
<1>2. CASE e = job[w]
  <2>a. HasJob(w) /\ RowOf(e) /\ RunOf(w)
    BY <1>a, <1>2, HolderStands
  <2>b. Running(w) => status[e] \in {"RUNNING", "CANCELLED"} /\ notices[e] = <<>>
    BY <1>a, <1>2, HolderStands
  <2>1. CASE UNCHANGED <<Seen, staging>>
    BY <1>a, <1>b, <2>1, OutcomeKept DEF Seen, SameExtract
  <2>2. CASE Filling(w) /\ UNCHANGED Seen
    <3>1. published[e] = NoDir /\ Running(w)
      BY <1>a, <1>2, <2>2 DEF Stored, Running
    <3> QED
      BY <2>2, <2>b, <3>1 DEF Seen, OutcomeOf
  <2>3. CASE StartRun(w)
    <3>1. published[e] = NoDir /\ notices[e] = <<>>
      BY <1>2, <2>a, <2>3 DEF StartRun, RunOf, RowOf, Waiting, Outcomes
    <3>2. status'[e] = "RUNNING" /\ UNCHANGED <<published, notices>>
      BY <1>a, <1>2, <2>3 DEF StartRun, RowsOK, storeVars
    <3> QED
      BY <3>1, <3>2 DEF OutcomeOf
  <2>4. CASE FinalizeCancelled(w)
    <3>1. published[e] = NoDir /\ notices[e] = <<>>
      BY <1>a, <1>2, <2>b, <2>4 DEF FinalizeCancelled, Stored, Running
    <3>2. status'[e] = "CANCELLED" /\ UNCHANGED <<published, notices>>
      BY <1>a, <1>2, <2>4 DEF FinalizeCancelled, RowsOK, storeVars
    <3> QED
      BY <3>1, <3>2 DEF OutcomeOf
  <2>5. CASE CommitOutcome(w)
    BY <1>a, <1>2, <2>5, CommitKeeps
  <2>6. CASE PromoteRename(w) \/ PromoteSuccess(w)
    <3>1. /\ Running(w) /\ completed[w] # {} /\ pc'[w] \in {"mark", "commit"}
          /\ UNCHANGED <<status, notices, completed, job>>
      BY <1>a, <2>6
         DEF PromoteRename, PromoteSuccess, Running, Goto, Accounted, rowVars,
             runVars, OwnershipInv, TypeOK, TasksOK
    <3>2. PublishedWhole(w)'
      BY <1>a, <3>1 DEF Stored
    <3>3. ManifestFunds(w)' # {}
      BY <3>1 DEF ManifestFunds
    <3>4. /\ staging'[e] = NoDir
          /\ published'[e].files = ManifestFunds(w)'
          /\ published'[e].manifest = ManifestFunds(w)'
      BY <1>2, <3>1, <3>2 DEF PublishedWhole
    <3> QED
      BY <2>b, <3>1, <3>3, <3>4 DEF OutcomeOf
  <2>7. CASE /\ Telling(w) /\ mode[job[w]] # "none" /\ Notify(w)
             /\ UNCHANGED <<status, runId, state, staging, published>>
    BY <1>a, <1>b, <1>2, <2>7, TellKeeps
  <2> QED
    BY <1>a, <2>1, <2>2, <2>3, <2>4, <2>5, <2>6, <2>7, WorkerStepSeen
<1> QED
  BY <1>1, <1>2

\* The handlers promise nothing and break no promise: what can be cancelled has
\* no outcome and told nobody.
LEMMA HandlersOutcome ==
  ASSUME OutcomeInv, Handlers, NEW e \in Extracts
  PROVE  OutcomeOf(e)'
<1> USE DEF rowVars, storeVars, poolVars, busVars, runVars, localVars, faultVars
<1>a. OwnershipInv /\ RowsOK /\ RowOf(e) /\ OutcomeOf(e)
  BY DEF OutcomeInv, RunInv, OneRun, OwnershipInv, TypeOK
<1>1. ASSUME NEW d \in Extracts, NEW s \in Scopes, NEW m \in Modes,
             NEW p \in Priorities, CreateExtract(d, s, m, p)
      PROVE  OutcomeOf(e)'
  <2>1. CASE e = d
    <3>1. ~runId[e] /\ status[e] = "NONE" /\ status'[e] = "ACCEPTED"
      BY <1>a, <1>1, <2>1 DEF CreateExtract, RowsOK, RowOf
    <3>2. published'[e] = NoDir /\ notices'[e] = <<>>
      BY <1>a, <1>1, <3>1 DEF CreateExtract, RowOf, Outcomes
    <3> QED
      BY <3>1, <3>2 DEF OutcomeOf
  <2>2. CASE e # d
    <3>1. SameExtract(e) /\ scope'[e] = scope[e] /\ mode'[e] = mode[e]
      BY <1>a, <1>1, <2>2 DEF CreateExtract, RowsOK, SameExtract
    <3> QED
      BY <1>a, <3>1, OutcomeKept
  <2> QED
    BY <2>1, <2>2
<1>2. ASSUME NEW d \in Extracts, Enqueue(d) \/ CreateAborts(d) \/ CancelAborts(d)
      PROVE  OutcomeOf(e)'
  <2>1. SameExtract(e) /\ scope'[e] = scope[e] /\ mode'[e] = mode[e]
    BY <1>2 DEF Enqueue, CreateAborts, CancelAborts, SameExtract
  <2> QED
    BY <1>a, <2>1, OutcomeKept
<1>3. ASSUME NEW d \in Extracts, CancelExtract(d)
      PROVE  OutcomeOf(e)'
  <2>1. CASE e = d
    <3>1. status[e] \in {"ACCEPTED", "RUNNING"} /\ status'[e] = "CANCELLED"
      BY <1>a, <1>3, <2>1 DEF CancelExtract, Cancellable, RowsOK
    <3>2. notices'[e] = <<>> /\ UNCHANGED <<staging, published>>
      BY <1>a, <1>3, <3>1 DEF CancelExtract, RowOf, Outcomes
    <3> QED
      BY <1>a, <3>1, <3>2 DEF OutcomeOf
  <2>2. CASE e # d
    <3>1. SameExtract(e) /\ scope'[e] = scope[e] /\ mode'[e] = mode[e]
      BY <1>a, <1>3, <2>2 DEF CancelExtract, RowsOK, SameExtract
    <3> QED
      BY <1>a, <3>1, OutcomeKept
  <2> QED
    BY <2>1, <2>2
<1> QED
  BY <1>1, <1>2, <1>3 DEF Handlers

\* The hooks and a crash touch no row, no prefix and no notification.
LEMMA HooksSeen ==
  ASSUME AdminHooks \/ Crash \/ UNCHANGED vars
  PROVE  UNCHANGED <<rowVars, storeVars, notices>>
BY DEF rowVars, storeVars, poolVars, busVars, runVars, localVars, faultVars,
       AdminHooks, PauseProcessing, ResumeProcessing, SimulateSourceOutage,
       SetBus, OtherPublish, Crash, vars

\* Every step keeps every promise.
LEMMA NextOutcome == OutcomeInv /\ [Next]_vars => OutcomeInv'
<1> SUFFICES ASSUME OutcomeInv, [Next]_vars PROVE OutcomeInv'
  OBVIOUS
<1>1. RunInv'
  BY NextRun DEF OutcomeInv
<1>2. ASSUME NEW e \in Extracts PROVE OutcomeOf(e)'
  <2>1. CASE AdminHooks \/ Crash \/ UNCHANGED vars
    <3>1. SameExtract(e) /\ scope'[e] = scope[e] /\ mode'[e] = mode[e]
      BY <2>1, HooksSeen DEF SameExtract, rowVars, storeVars
    <3> QED
      BY <3>1, OutcomeKept DEF OutcomeInv
  <2> QED
    BY <2>1, WorkerStepOutcome, HandlersOutcome DEF Next
<1> QED
  BY <1>1, <1>2 DEF OutcomeInv

\* Before the first request there is nothing to promise.
LEMMA InitOutcome == Init => OutcomeInv
<1> SUFFICES ASSUME Init PROVE \A e \in Extracts : OutcomeOf(e)
  BY InitRun DEF OutcomeInv
<1> QED
  BY DEF Init, OutcomeOf

\* One run per extract, its books, its caps and its prefixes, and what it leaves
\* behind, in every reachable state.
THEOREM OutcomeInvariant == Spec => []OutcomeInv
BY InitOutcome, NextOutcome, PTL DEF Spec

\* Publication is atomic for every reader: whatever crash or exception comes in
\* the middle of promote(), a published prefix has a manifest, exactly the files
\* it lists, and nothing left in staging.
THEOREM AtomicPublication == Spec => []PublishIsAtomic
<1>1. OutcomeInv => PublishIsAtomic
  BY DEF OutcomeInv, OutcomeOf, PublishIsAtomic
<1> QED
  BY <1>1, OutcomeInvariant, PTL

\* No file is published for an extract that has not started or that FAILED.
THEOREM NoFileWithoutOutcome == Spec => []NothingWithoutOutcome
<1>1. OutcomeInv => NothingWithoutOutcome
  <2> SUFFICES ASSUME OutcomeInv, NEW e \in Extracts
               PROVE  /\ status[e] \in {"NONE", "ACCEPTED", "FAILED"} =>
                             published[e] = NoDir
                      /\ ~runId[e] => staging[e] = NoDir /\ published[e] = NoDir
    BY DEF NothingWithoutOutcome
  <2>1. RowOf(e) /\ OutcomeOf(e)
    BY DEF OutcomeInv, RunInv, OneRun
  <2> QED
    BY <2>1 DEF RowOf, OutcomeOf
<1> QED
  BY <1>1, OutcomeInvariant, PTL

\* COMPLETED means every fund of the scope, whatever the number of funds and of
\* failed attempts on the way.
THEOREM CompletedDelivers == Spec => []CompletedIsWhole
<1>1. OutcomeInv => CompletedIsWhole
  <2> SUFFICES ASSUME OutcomeInv, NEW e \in Extracts, status[e] = "COMPLETED"
               PROVE  /\ published[e] = [files |-> Range(scope[e]), tmp |-> {},
                             manifest |-> Range(scope[e]), success |-> TRUE]
                      /\ Listed(e) = Range(scope[e])
    BY DEF CompletedIsWhole
  <2> QED
    BY DEF OutcomeInv, OutcomeOf, Listed, FundsAt
<1> QED
  BY <1>1, OutcomeInvariant, PTL

\* PARTIAL lists what was published and accounts for every other fund.
THEOREM PartialDelivers == Spec => []PartialAccounts
<1>1. OutcomeInv => PartialAccounts
  <2> SUFFICES ASSUME OutcomeInv, NEW e \in Extracts, status[e] = "PARTIAL"
               PROVE  LET s == state[e] IN
                      /\ Listed(e) = Downloadable(e)
                      /\ published[e].success
                      /\ s.files # {} /\ s.failed # {} /\ s.files \cap s.failed = {}
                      /\ \/ s.files \cup s.failed = 1..Len(scope[e])
                         \/ s.retries >= MaxAttemptsPerExtract
    BY DEF PartialAccounts
  <2> QED
    BY DEF OutcomeInv, OutcomeOf, Listed, FundsAt, Downloadable
<1> QED
  BY <1>1, OutcomeInvariant, PTL

\* At most one notification, after the outcome it speaks of, and "ready" only
\* when every fund of the scope can be fetched.
THEOREM NoticesTruthful == Spec => []NoticeMatchesOutcome
<1>1. OutcomeInv => NoticeMatchesOutcome
  <2> SUFFICES ASSUME OutcomeInv, NEW e \in Extracts
               PROVE  \/ notices[e] = <<>>
                      \/ /\ notices[e] = <<"ready">>
                         /\ status[e] = "COMPLETED"
                         /\ Range(scope[e]) \subseteq Downloadable(e)
                         /\ mode[e] # "none"
                      \/ /\ notices[e] = <<"failed">>
                         /\ status[e] \in {"PARTIAL", "FAILED"}
                         /\ mode[e] # "none"
    BY DEF NoticeMatchesOutcome
  <2>1. OutcomeOf(e)
    BY DEF OutcomeInv
  <2>2. status[e] = "COMPLETED" => Downloadable(e) = Range(scope[e])
    BY <2>1 DEF OutcomeOf, Downloadable
  <2> QED
    BY <2>1, <2>2 DEF OutcomeOf
<1> QED
  BY <1>1, OutcomeInvariant, PTL

\* A run in which nothing succeeds spends a full set of attempts on each fund it
\* tries, and stops at the extract's cap: for every value of the two caps.
THEOREM FailureIsCapped == Spec => []FailsFast
<1>1. OutcomeInv => FailsFast
  BY DEF OutcomeInv, OutcomeOf, FailedFast, FailsFast
<1> QED
  BY <1>1, OutcomeInvariant, PTL
=============================================================================
