------------------------ MODULE ExtractWorkerProofs ------------------------
(***************************************************************************)
(* Proofs about ExtractWorker, for every number of extracts, workers and   *)
(* funds, every scope and every setting of the retry caps.                 *)
(***************************************************************************)
EXTENDS ExtractWorker, TLAPS

\* A worker past queue.get() has a job in hand.
HasJob(w) == pc[w] \notin {"pausedTop", "get"}

\* A worker that is busy with one fund of its scope.
InFund(w) == pc[w] \in {"attempt", "rename", "backoff"}

JobOK ==
    \A w \in Workers :
        /\ HasJob(w) => job[w] \in Extracts
        /\ ~HasJob(w) => job[w] = NoJob /\ completed[w] = {}
        /\ pc[w] = "fund" => idx[w] \in Nat \ {0}
        /\ InFund(w) => idx[w] \in 1..Len(scope[job[w]])
        /\ HasJob(w) => completed[w] \subseteq 1..Len(scope[job[w]])

\* An id that was not minted is in nobody's hands.
Minted ==
    \A e \in Extracts : status[e] = "NONE" =>
        /\ e \notin queue \cup creating
        /\ \A w \in Workers : job[w] # e

\* A notified publisher is still blocked in publish().
WokenOK == woken \subseteq Publishers

\* The inductive invariant behind type correctness and single ownership.
OwnershipInv == TypeOK /\ JobOK /\ Minted /\ SingleOwner /\ WokenOK

\* An empty database and an idle pool satisfy the invariant.
LEMMA InitOwnership == Init => OwnershipInv
<1> SUFFICES ASSUME Init PROVE OwnershipInv
  OBVIOUS
<1> USE ConstantsAssumption DEF Init
<1>1. TypeOK
  <2>1. RowsOK
    BY DEF RowsOK, Status, StateJson, InProgress
  <2>2. StoreOK
    BY DEF StoreOK, Dir, NoDir
  <2>3. PoolOK
    BY DEF PoolOK
  <2>4. TasksOK
    BY DEF TasksOK, SuspendedPcs
  <2>5. notices \in [Extracts -> Seq({"ready", "failed"})]
    OBVIOUS
  <2> QED
    BY <2>1, <2>2, <2>3, <2>4, <2>5 DEF TypeOK
<1>2. JobOK
  BY DEF JobOK, HasJob, InFund
<1>3. Minted /\ SingleOwner
  BY DEF Minted, SingleOwner
<1>4. WokenOK
  BY DEF WokenOK
<1> QED
  BY <1>1, <1>2, <1>3, <1>4 DEF OwnershipInv
-----------------------------------------------------------------------------
(***************************************************************************)
(* Types of the operators the actions are built from.                      *)
(***************************************************************************)

\* The fund a busy worker is at is a fund.
LEMMA FundType ==
  ASSUME OwnershipInv, NEW w \in Workers, InFund(w)
  PROVE  job[w] \in Extracts /\ Fund(w) \in Funds
<1>1. HasJob(w)
  BY DEF InFund, HasJob
<1>2. job[w] \in Extracts /\ idx[w] \in 1..Len(scope[job[w]])
  BY <1>1 DEF OwnershipInv, JobOK
<1>3. scope[job[w]] \in Seq(Funds)
  BY <1>2 DEF OwnershipInv, TypeOK, RowsOK
<1> QED
  BY <1>2, <1>3 DEF Fund

\* The manifest lists funds.
LEMMA ManifestType ==
  ASSUME OwnershipInv, NEW w \in Workers, HasJob(w)
  PROVE  job[w] \in Extracts /\ ManifestFunds(w) \subseteq Funds
<1>1. job[w] \in Extracts /\ completed[w] \subseteq 1..Len(scope[job[w]])
  BY DEF OwnershipInv, JobOK
<1>2. scope[job[w]] \in Seq(Funds)
  BY <1>1 DEF OwnershipInv, TypeOK, RowsOK
<1> QED
  BY <1>1, <1>2 DEF ManifestFunds

\* However much cleanup_staging removes, it leaves directories.
LEMMA CleanupType ==
  ASSUME StoreOK, raises \in Nat, NEW e \in Extracts, CleanupStaging(e)
  PROVE  staging' \in [Extracts -> Dir] /\ raises' \in Nat
<1>1. staging[e] \in Dir /\ NoDir \in Dir
  BY DEF StoreOK, Dir, NoDir
<1>2. CASE staging' = [staging EXCEPT ![e] = NoDir] /\ UNCHANGED raises
  BY <1>1, <1>2 DEF StoreOK
<1>3. CASE /\ raises' = raises + 1
           /\ \E fs \in SUBSET staging[e].files, ts \in SUBSET staging[e].tmp :
                 staging' = [staging EXCEPT ![e] = [@ EXCEPT !.files = fs, !.tmp = ts]]
  <2>1. PICK fs \in SUBSET staging[e].files, ts \in SUBSET staging[e].tmp :
            staging' = [staging EXCEPT ![e] = [@ EXCEPT !.files = fs, !.tmp = ts]]
    BY <1>3
  <2>2. [staging[e] EXCEPT !.files = fs, !.tmp = ts] \in Dir
    BY <1>1 DEF Dir
  <2> QED
    BY <1>3, <2>1, <2>2 DEF StoreOK
<1> QED
  BY <1>2, <1>3 DEF CleanupStaging

\* Notifying appends one of the two kinds of event.
LEMMA NotifyType ==
  ASSUME TypeOK, NEW w \in Workers, job[w] \in Extracts, Notify(w)
  PROVE  notices' \in [Extracts -> Seq({"ready", "failed"})]
<1>1. NoticeOf(w) \in {"ready", "failed"}
  BY DEF NoticeOf
<1>2. notices[job[w]] \in Seq({"ready", "failed"})
  BY DEF TypeOK
<1>3. Append(notices[job[w]], NoticeOf(w)) \in Seq({"ready", "failed"})
  BY <1>1, <1>2
<1> QED
  BY <1>3 DEF TypeOK, Notify

\* Back at the top of its loop a worker has well-typed locals.
LEMMA LoopTopType ==
  ASSUME TasksOK, NEW w \in Workers, LoopTop(w)
  PROVE  TasksOK'
BY DEF TasksOK, LoopTop, Goto, SuspendedPcs
-----------------------------------------------------------------------------
(***************************************************************************)
(* Every step keeps the types.                                             *)
(***************************************************************************)

\* A step of a worker task keeps the types.
LEMMA WorkerStepType ==
  ASSUME OwnershipInv, NEW w \in Workers, WorkerStep(w)
  PROVE  TypeOK'
<1> USE DEF rowVars, storeVars, poolVars, busVars, runVars, localVars,
            faultVars, sharedVars
<1>a. TypeOK /\ RowsOK /\ StoreOK /\ PoolOK /\ TasksOK
  BY DEF OwnershipInv, TypeOK
<1>b. HasJob(w) => job[w] \in Extracts
  BY DEF OwnershipInv, JobOK
<1>c. ASSUME AppendToTopic(w), job[w] \in Extracts
      PROVE  TypeOK'
  <2>1. TasksOK'
    BY <1>a, <1>c, LoopTopType DEF AppendToTopic
  <2>2. notices' \in [Extracts -> Seq({"ready", "failed"})]
    BY <1>a, <1>c, NotifyType DEF AppendToTopic
  <2> QED
    BY <1>a, <1>c, <2>1, <2>2
       DEF TypeOK, RowsOK, StoreOK, PoolOK, AppendToTopic, Publishers
<1>1. CASE Dequeue(w)
  BY <1>a, <1>1
     DEF TypeOK, RowsOK, StoreOK, PoolOK, TasksOK, Goto,
         SuspendedPcs, LoopPcs, Dequeue, Heads, QueueWithout
<1>2. CASE Released(w)
  BY <1>a, <1>2
     DEF TypeOK, RowsOK, StoreOK, PoolOK, TasksOK, Goto,
         SuspendedPcs, LoopPcs, Released
<1>3. CASE SkipCancelled(w)
  <2>1. TasksOK'
    BY <1>a, <1>3, LoopTopType DEF SkipCancelled
  <2> QED
    BY <1>a, <1>b, <1>3, <2>1 DEF TypeOK, RowsOK, StoreOK, PoolOK, HasJob, SkipCancelled
<1>4. CASE StartRun(w)
  BY <1>a, <1>b, <1>4
     DEF TypeOK, RowsOK, StoreOK, PoolOK, TasksOK, Goto,
         SuspendedPcs, LoopPcs, StartRun, HasJob, Status, StateJson, InProgress
<1>5. CASE NextFund(w)
  BY <1>a, <1>5
     DEF TypeOK, RowsOK, StoreOK, PoolOK, TasksOK, Goto,
         SuspendedPcs, LoopPcs, NextFund
<1>6. CASE CancelObserved(w)
  <2>1. job[w] \in Extracts /\ CleanupStaging(job[w])
    BY <1>b, <1>6 DEF CancelObserved, HasJob
  <2>2. staging' \in [Extracts -> Dir] /\ raises' \in Nat
    BY <1>a, <2>1, CleanupType DEF TypeOK
  <2> QED
    BY <1>a, <1>6, <2>2
       DEF TypeOK, RowsOK, StoreOK, PoolOK, TasksOK, Goto, LoopPcs, CancelObserved
<1>7. CASE FinalizeCancelled(w)
  <2>1. TasksOK'
    BY <1>a, <1>7, LoopTopType DEF FinalizeCancelled
  <2> QED
    BY <1>a, <1>b, <1>7, <2>1 DEF TypeOK, RowsOK, StoreOK, PoolOK, HasJob, FinalizeCancelled, Status
<1>8. CASE SourceFails(w)
  BY <1>a, <1>8
     DEF TypeOK, RowsOK, StoreOK, PoolOK, TasksOK, Goto,
         SuspendedPcs, LoopPcs, SourceFails
<1>9. CASE WriteTmp(w)
  <2>1. job[w] \in Extracts /\ Fund(w) \in Funds
    BY <1>9, FundType DEF WriteTmp, InFund
  <2>2. [staging[job[w]] EXCEPT !.tmp = @ \cup {Fund(w)}] \in Dir
    BY <1>a, <2>1 DEF StoreOK, Dir
  <2>3. staging' \in [Extracts -> Dir]
    BY <1>a, <1>9, <2>1, <2>2 DEF StoreOK, WriteTmp
  <2> QED
    BY <1>a, <1>9, <2>3, SMTT(30)
       DEF TypeOK, RowsOK, StoreOK, PoolOK, TasksOK, Goto, LoopPcs, WriteTmp
<1>10. CASE PartitionWritten(w)
  <2>1. job[w] \in Extracts /\ Fund(w) \in Funds
    BY <1>10, FundType DEF PartitionWritten, InFund
  <2> DEFINE d == staging[job[w]]
  <2>2. [[d EXCEPT !.tmp = d.tmp \ {Fund(w)}]
            EXCEPT !.files = d.files \cup {Fund(w)}] \in Dir
    BY <1>a, <2>1 DEF StoreOK, Dir
  <2>3. staging' \in [Extracts -> Dir]
    BY <1>a, <1>10, <2>1, <2>2 DEF StoreOK, PartitionWritten, Dir
  <2> QED
    BY <1>a, <1>10, <2>3, SMTT(30)
       DEF TypeOK, RowsOK, StoreOK, PoolOK, TasksOK, Goto, LoopPcs,
           PartitionWritten
<1>11. CASE WriteFails(w)
  BY <1>a, <1>11
     DEF TypeOK, RowsOK, StoreOK, PoolOK, TasksOK, Goto,
         SuspendedPcs, LoopPcs, WriteFails
<1>12. CASE Retry(w)
  BY <1>a, <1>12
     DEF TypeOK, RowsOK, StoreOK, PoolOK, TasksOK, Goto,
         SuspendedPcs, LoopPcs, Retry
<1>13. CASE FundExhausted(w)
  <2>1. FundsFailed(w) \in SUBSET Nat
    BY <1>a DEF TasksOK, FundsFailed
  <2>2. TasksOK'
    BY <1>a, <1>13, <2>1 DEF TasksOK, Goto, LoopPcs, FundExhausted
  <2> QED
    BY <1>a, <1>13, <2>2 DEF TypeOK, RowsOK, StoreOK, PoolOK, FundExhausted
<1>14. CASE ScopeDone(w)
  BY <1>a, <1>14
     DEF TypeOK, RowsOK, StoreOK, PoolOK, TasksOK, Goto,
         SuspendedPcs, LoopPcs, ScopeDone
<1>15. CASE DropStaging(w)
  <2>1. job[w] \in Extracts /\ CleanupStaging(job[w])
    BY <1>b, <1>15 DEF DropStaging, HasJob
  <2>2. staging' \in [Extracts -> Dir] /\ raises' \in Nat
    BY <1>a, <2>1, CleanupType DEF TypeOK
  <2> QED
    BY <1>a, <1>15, <2>2
       DEF TypeOK, RowsOK, StoreOK, PoolOK, TasksOK, Goto, LoopPcs, DropStaging
<1>16. CASE WriteManifest(w)
  <2>1. job[w] \in Extracts /\ ManifestFunds(w) \subseteq Funds
    BY <1>16, ManifestType DEF WriteManifest, HasJob
  <2>2. [staging[job[w]] EXCEPT !.manifest = ManifestFunds(w)] \in Dir
    BY <1>a, <2>1 DEF StoreOK, Dir
  <2>3. staging' \in [Extracts -> Dir]
    BY <1>a, <1>16, <2>1, <2>2 DEF StoreOK, WriteManifest
  <2> QED
    BY <1>a, <1>16, <2>3
       DEF TypeOK, RowsOK, StoreOK, PoolOK, TasksOK, Goto, LoopPcs,
           WriteManifest
<1>17. CASE PromoteRename(w)
  BY <1>a, <1>b, <1>17
     DEF TypeOK, RowsOK, StoreOK, PoolOK, TasksOK, Goto,
         SuspendedPcs, LoopPcs, PromoteRename, HasJob, Dir, NoDir
<1>18. CASE PromoteSuccess(w)
  <2>1. job[w] \in Extracts
    BY <1>b, <1>18 DEF PromoteSuccess, HasJob
  <2>2. [published[job[w]] EXCEPT !.success = TRUE] \in Dir
    BY <1>a, <2>1 DEF StoreOK, Dir
  <2>3. published' \in [Extracts -> Dir]
    BY <1>a, <1>18, <2>1, <2>2 DEF StoreOK, PromoteSuccess
  <2> QED
    BY <1>a, <1>18, <2>3
       DEF TypeOK, RowsOK, StoreOK, PoolOK, TasksOK, Goto, LoopPcs,
           PromoteSuccess
<1>19. CASE CommitOutcome(w)
  <2>1. Outcome(w) \in Status
    BY DEF Outcome, Status
  <2>2. FinalState(w) \in StateJson
    BY <1>a DEF TasksOK, FinalState, FilesOfRun, Outcome, StateJson, ErrorCodes
  <2>3. RowsOK'
    BY <1>a, <1>19, <2>1, <2>2 DEF RowsOK, CommitOutcome
  <2> QED
    BY <1>a, <1>19, <2>3
       DEF TypeOK, StoreOK, PoolOK, TasksOK, Goto, LoopPcs, CommitOutcome
<1>20. CASE EmitNone(w)
  <2>1. TasksOK'
    BY <1>a, <1>20, LoopTopType DEF EmitNone
  <2> QED
    BY <1>a, <1>b, <1>20, <2>1 DEF TypeOK, RowsOK, StoreOK, PoolOK, HasJob, EmitNone
<1>21. CASE EmitWebhook(w)
  <2>1. TasksOK'
    BY <1>a, <1>21, LoopTopType DEF EmitWebhook
  <2>2. notices' \in [Extracts -> Seq({"ready", "failed"})]
    BY <1>a, <1>b, <1>21, NotifyType DEF EmitWebhook, HasJob
  <2> QED
    BY <1>a, <1>21, <2>1, <2>2 DEF TypeOK, RowsOK, StoreOK, PoolOK, EmitWebhook
<1>22. CASE EmitEvent(w)
  <2>1. AppendToTopic(w) /\ job[w] \in Extracts
    BY <1>b, <1>22 DEF EmitEvent, HasJob, OwnershipInv, WokenOK, Publishers
  <2> QED
    BY <1>c, <2>1
<1>23. CASE EmitBlocks(w)
  BY <1>a, <1>23
     DEF TypeOK, RowsOK, StoreOK, PoolOK, TasksOK, Goto,
         SuspendedPcs, LoopPcs, EmitBlocks, StoreLater
<1>24. CASE PublishWakes(w)
  <2>1. AppendToTopic(w) /\ job[w] \in Extracts
    BY <1>b, <1>24 DEF PublishWakes, HasJob, OwnershipInv, WokenOK, Publishers
  <2> QED
    BY <1>c, <2>1
<1>25. CASE PublishWaitsAgain(w)
  BY <1>a, <1>25
     DEF TypeOK, RowsOK, StoreOK, PoolOK, TasksOK, Goto,
         SuspendedPcs, LoopPcs, PublishWaitsAgain
<1> QED
  BY <1>1, <1>2, <1>3, <1>4, <1>5, <1>6, <1>7, <1>8, <1>9, <1>10, <1>11, <1>12, <1>13, <1>14, <1>15, <1>16, <1>17, <1>18, <1>19, <1>20, <1>21, <1>22, <1>23, <1>24, <1>25
     DEF WorkerStep

\* What a worker step does to the hands an extract is in: nothing, or it lets
\* go of the worker's job, or it takes one off the queue.
LEMMA WorkerStepHands ==
  ASSUME OwnershipInv, NEW w \in Workers, WorkerStep(w) \/ ProcessRaises(w)
  PROVE  /\ creating' = creating
         /\ \/ job' = job /\ queue' = queue
            \/ job' = [job EXCEPT ![w] = NoJob] /\ queue' = queue
            \/ \E e \in queue : job' = [job EXCEPT ![w] = e] /\ queue' = queue \ {e}
<1> USE DEF rowVars, storeVars, poolVars, busVars, runVars, localVars,
            faultVars, sharedVars
<1>1. CASE Dequeue(w)
  BY <1>1 DEF Dequeue, Heads, QueueWithout
<1>2. CASE SkipCancelled(w) \/ EmitNone(w) \/ EmitWebhook(w) \/ ProcessRaises(w)
  BY <1>2 DEF SkipCancelled, EmitNone, EmitWebhook, ProcessRaises, LoopTop
<1>3. CASE FinalizeCancelled(w) \/ EmitEvent(w) \/ PublishWakes(w)
  BY <1>3 DEF FinalizeCancelled, EmitEvent, PublishWakes, AppendToTopic, LoopTop
<1>4. CASE \/ Released(w) \/ StartRun(w) \/ NextFund(w) \/ CancelObserved(w)
           \/ SourceFails(w) \/ WriteTmp(w) \/ PartitionWritten(w)
           \/ WriteFails(w)
  BY <1>4 DEF Released, StartRun, NextFund, CancelObserved, SourceFails,
              WriteTmp, PartitionWritten, WriteFails
<1>5. CASE \/ Retry(w) \/ FundExhausted(w) \/ ScopeDone(w) \/ DropStaging(w)
           \/ WriteManifest(w) \/ PromoteRename(w) \/ PromoteSuccess(w)
  BY <1>5 DEF Retry, FundExhausted, ScopeDone, DropStaging, WriteManifest,
              PromoteRename, PromoteSuccess
<1>6. CASE CommitOutcome(w) \/ EmitBlocks(w) \/ PublishWaitsAgain(w)
  BY <1>6 DEF CommitOutcome, EmitBlocks, PublishWaitsAgain
<1> QED
  BY <1>1, <1>2, <1>3, <1>4, <1>5, <1>6 DEF WorkerStep

\* No worker step forgets that an id was minted.
LEMMA WorkerStepStatus ==
  ASSUME OwnershipInv, NEW w \in Workers, WorkerStep(w) \/ ProcessRaises(w)
  PROVE  \A e \in Extracts : status'[e] = "NONE" => status[e] = "NONE"
<1> USE DEF rowVars, storeVars, poolVars, busVars, runVars, localVars,
            faultVars, sharedVars
<1>1. CASE StartRun(w) \/ FinalizeCancelled(w) \/ CommitOutcome(w)
  BY <1>1 DEF StartRun, FinalizeCancelled, CommitOutcome, Outcome, OwnershipInv,
              TypeOK, RowsOK
<1>2. CASE \/ Dequeue(w) \/ Released(w) \/ SkipCancelled(w) \/ NextFund(w)
           \/ CancelObserved(w) \/ SourceFails(w) \/ WriteTmp(w)
           \/ PartitionWritten(w)
  BY <1>2 DEF Dequeue, Released, SkipCancelled, NextFund, CancelObserved,
              SourceFails, WriteTmp, PartitionWritten
<1>3. CASE \/ WriteFails(w) \/ Retry(w) \/ FundExhausted(w) \/ ScopeDone(w)
           \/ DropStaging(w) \/ WriteManifest(w) \/ PromoteRename(w)
           \/ PromoteSuccess(w)
  BY <1>3 DEF WriteFails, Retry, FundExhausted, ScopeDone, DropStaging,
              WriteManifest, PromoteRename, PromoteSuccess
<1>4. CASE \/ EmitNone(w) \/ EmitWebhook(w) \/ EmitEvent(w) \/ EmitBlocks(w)
           \/ PublishWakes(w) \/ PublishWaitsAgain(w) \/ ProcessRaises(w)
  BY <1>4 DEF EmitNone, EmitWebhook, EmitEvent, EmitBlocks, PublishWakes,
              PublishWaitsAgain, AppendToTopic, ProcessRaises
<1> QED
  BY <1>1, <1>2, <1>3, <1>4 DEF WorkerStep

\* An extract changes hands without being in two pairs of them.
LEMMA WorkerStepOwner ==
  ASSUME OwnershipInv, NEW w \in Workers, WorkerStep(w) \/ ProcessRaises(w)
  PROVE  (SingleOwner /\ Minted)'
<1>1. /\ SingleOwner /\ Minted
      /\ queue \subseteq Extracts /\ creating \subseteq Extracts
      /\ job \in [Workers -> Extracts \cup {NoJob}]
      /\ NoJob \notin Extracts
  BY ConstantsAssumption DEF OwnershipInv, TypeOK, PoolOK, TasksOK
<1>2. \A e \in Extracts : status'[e] = "NONE" => status[e] = "NONE"
  BY WorkerStepStatus
<1>3. creating' = creating
  BY WorkerStepHands
<1>4. CASE job' = job /\ queue' = queue
  BY <1>1, <1>2, <1>3, <1>4 DEF SingleOwner, Minted
<1>5. CASE job' = [job EXCEPT ![w] = NoJob] /\ queue' = queue
  BY <1>1, <1>2, <1>3, <1>5 DEF SingleOwner, Minted
<1>6. ASSUME NEW e \in queue,
             job' = [job EXCEPT ![w] = e], queue' = queue \ {e}
      PROVE  (SingleOwner /\ Minted)'
  BY <1>1, <1>2, <1>3, <1>6 DEF SingleOwner, Minted
<1> QED
  BY <1>4, <1>5, <1>6, WorkerStepHands

\* Every worker step keeps the locals of the tasks consistent.
LEMMA WorkerStepJob ==
  ASSUME OwnershipInv, NEW w \in Workers, WorkerStep(w) \/ ProcessRaises(w)
  PROVE  (JobOK /\ WokenOK)'
<1> USE DEF rowVars, storeVars, poolVars, busVars, runVars, localVars,
            faultVars, sharedVars, Goto, JobOK, HasJob, InFund, WokenOK,
            Publishers
<1>a. /\ JobOK /\ WokenOK /\ TasksOK /\ PoolOK
      /\ scope \in [Extracts -> Seq(Funds)]
  BY DEF OwnershipInv, TypeOK, RowsOK
<1>1. CASE Dequeue(w)
  BY <1>a, <1>1 DEF TasksOK, PoolOK, Dequeue, Heads, QueueWithout
<1>2. CASE Released(w)
  BY <1>a, <1>2 DEF TasksOK, PoolOK, Released
<1>3. CASE SkipCancelled(w)
  BY <1>a, <1>3 DEF TasksOK, PoolOK, SkipCancelled, LoopTop
<1>4. CASE StartRun(w)
  BY <1>a, <1>4 DEF TasksOK, PoolOK, StartRun
<1>5. CASE NextFund(w)
  BY <1>a, <1>5 DEF TasksOK, PoolOK, NextFund, Remaining
<1>6. CASE CancelObserved(w)
  BY <1>a, <1>6 DEF TasksOK, PoolOK, CancelObserved
<1>7. CASE FinalizeCancelled(w)
  BY <1>a, <1>7 DEF TasksOK, PoolOK, FinalizeCancelled, LoopTop
<1>8. CASE SourceFails(w)
  BY <1>a, <1>8 DEF TasksOK, PoolOK, SourceFails
<1>9. CASE WriteTmp(w)
  BY <1>a, <1>9 DEF TasksOK, PoolOK, WriteTmp
<1>10. CASE PartitionWritten(w)
  BY <1>a, <1>10 DEF TasksOK, PoolOK, PartitionWritten
<1>11. CASE WriteFails(w)
  BY <1>a, <1>11 DEF TasksOK, PoolOK, WriteFails
<1>12. CASE Retry(w)
  BY <1>a, <1>12 DEF TasksOK, PoolOK, Retry
<1>13. CASE FundExhausted(w)
  BY <1>a, <1>13, SMTT(30) DEF TasksOK, PoolOK, FundExhausted
<1>14. CASE ScopeDone(w)
  BY <1>a, <1>14 DEF TasksOK, PoolOK, ScopeDone
<1>15. CASE DropStaging(w)
  BY <1>a, <1>15 DEF TasksOK, PoolOK, DropStaging
<1>16. CASE WriteManifest(w)
  BY <1>a, <1>16 DEF TasksOK, PoolOK, WriteManifest
<1>17. CASE PromoteRename(w)
  BY <1>a, <1>17 DEF TasksOK, PoolOK, PromoteRename
<1>18. CASE PromoteSuccess(w)
  BY <1>a, <1>18 DEF TasksOK, PoolOK, PromoteSuccess
<1>19. CASE CommitOutcome(w)
  BY <1>a, <1>19 DEF TasksOK, PoolOK, CommitOutcome
<1>20. CASE EmitNone(w)
  BY <1>a, <1>20 DEF TasksOK, PoolOK, EmitNone, LoopTop
<1>21. CASE EmitWebhook(w)
  BY <1>a, <1>21 DEF TasksOK, PoolOK, EmitWebhook, LoopTop
<1>22. CASE EmitEvent(w)
  BY <1>a, <1>22 DEF TasksOK, PoolOK, EmitEvent, LoopTop, AppendToTopic
<1>23. CASE EmitBlocks(w)
  BY <1>a, <1>23 DEF TasksOK, PoolOK, EmitBlocks
<1>24. CASE PublishWakes(w)
  BY <1>a, <1>24 DEF TasksOK, PoolOK, PublishWakes, LoopTop, AppendToTopic
<1>25. CASE PublishWaitsAgain(w)
  BY <1>a, <1>25 DEF TasksOK, PoolOK, PublishWaitsAgain
<1>26. CASE ProcessRaises(w)
  BY <1>a, <1>26 DEF TasksOK, PoolOK, ProcessRaises, LoopTop, RaisingPcs, LoopPcs
<1> QED
  BY <1>1, <1>2, <1>3, <1>4, <1>5, <1>6, <1>7, <1>8, <1>9, <1>10, <1>11, <1>12, <1>13, <1>14, <1>15, <1>16, <1>17, <1>18, <1>19, <1>20, <1>21, <1>22, <1>23, <1>24, <1>25, <1>26
     DEF WorkerStep
-----------------------------------------------------------------------------
(***************************************************************************)
(* The other steps, and the theorems.                                      *)
(***************************************************************************)

\* The create and cancel handlers keep the invariant: an id is minted once and
\* handed to the queue by the handler that minted it.
LEMMA HandlersInv ==
  ASSUME OwnershipInv, Handlers
  PROVE  OwnershipInv'
<1> USE ConstantsAssumption
    DEF rowVars, storeVars, poolVars, busVars, runVars, localVars, faultVars
<1>a. /\ TypeOK /\ RowsOK /\ StoreOK /\ PoolOK /\ TasksOK
      /\ JobOK /\ Minted /\ SingleOwner /\ WokenOK
  BY DEF OwnershipInv, TypeOK
<1>1. ASSUME NEW e \in Extracts, NEW s \in Scopes, NEW m \in Modes,
             NEW p \in Priorities, CreateExtract(e, s, m, p)
      PROVE  OwnershipInv'
  <2> USE DEF CreateExtract
  <2>1. s \in Seq(Funds) /\ m \in {"event", "webhook", "none"} /\ p \in {0, 1, 2}
    OBVIOUS
  <2>2. TypeOK'
    BY <1>a, <1>1, <2>1 DEF TypeOK, RowsOK, StoreOK, PoolOK, TasksOK, Status
  <2>3. \A w \in Workers : job[w] # e
    BY <1>a, <1>1 DEF Minted
  <2>4. JobOK'
    BY <1>a, <1>1, <2>3 DEF JobOK, HasJob, InFund, RowsOK
  <2>5. Minted' /\ SingleOwner' /\ WokenOK'
    BY <1>a, <1>1, <2>3 DEF Minted, SingleOwner, WokenOK, Publishers, RowsOK
  <2> QED
    BY <2>2, <2>4, <2>5 DEF OwnershipInv
<1>2. ASSUME NEW e \in Extracts, Enqueue(e) \/ CreateAborts(e)
      PROVE  OwnershipInv'
  <2> USE DEF Enqueue, CreateAborts
  <2>1. TypeOK'
    BY <1>a, <1>2 DEF TypeOK, RowsOK, StoreOK, PoolOK, TasksOK
  <2>2. JobOK' /\ WokenOK'
    BY <1>a, <1>2 DEF JobOK, HasJob, InFund, WokenOK, Publishers
  <2>3. Minted' /\ SingleOwner'
    BY <1>a, <1>2 DEF Minted, SingleOwner, PoolOK
  <2> QED
    BY <2>1, <2>2, <2>3 DEF OwnershipInv
<1>3. ASSUME NEW e \in Extracts, CancelExtract(e) \/ CancelAborts(e)
      PROVE  OwnershipInv'
  <2> USE DEF CancelExtract, CancelAborts
  <2>1. TypeOK'
    <3>1. RowsOK'
      BY <1>a, <1>3, ZenonT(30) DEF RowsOK, Status
    <3>2. PoolOK'
      BY <1>a, <1>3 DEF PoolOK
    <3> QED
      BY <1>a, <1>3, <3>1, <3>2 DEF TypeOK, StoreOK, TasksOK
  <2>2. JobOK' /\ WokenOK'
    BY <1>a, <1>3 DEF JobOK, HasJob, InFund, WokenOK, Publishers
  <2>3. Minted' /\ SingleOwner'
    BY <1>a, <1>3 DEF Minted, SingleOwner, RowsOK
  <2> QED
    BY <2>1, <2>2, <2>3 DEF OwnershipInv
<1> QED
  BY <1>1, <1>2, <1>3 DEF Handlers

\* So do the admin hooks: the pause gate lets a worker go with the job it has.
LEMMA AdminHooksInv ==
  ASSUME OwnershipInv, AdminHooks
  PROVE  OwnershipInv'
<1> USE DEF rowVars, storeVars, poolVars, busVars, runVars, localVars, faultVars
<1>a. /\ TypeOK /\ RowsOK /\ StoreOK /\ PoolOK /\ TasksOK
      /\ JobOK /\ Minted /\ SingleOwner /\ WokenOK
  BY DEF OwnershipInv, TypeOK
<1>1. CASE ResumeProcessing
  <2> USE DEF ResumeProcessing, GateOpens
  <2>1. TypeOK'
    BY <1>a, <1>1
       DEF TypeOK, RowsOK, StoreOK, PoolOK, TasksOK, SuspendedPcs, LoopPcs
  <2>2. JobOK' /\ WokenOK'
    BY <1>a, <1>1 DEF JobOK, HasJob, InFund, WokenOK, Publishers, TasksOK
  <2>3. Minted' /\ SingleOwner'
    BY <1>a, <1>1 DEF Minted, SingleOwner
  <2> QED
    BY <2>1, <2>2, <2>3 DEF OwnershipInv
<1>2. ASSUME \/ PauseProcessing
             \/ \E b \in BOOLEAN : SimulateSourceOutage(b)
             \/ \E up \in BOOLEAN : SetBus(up)
             \/ OtherPublish
      PROVE  OwnershipInv'
  <2> USE DEF PauseProcessing, SimulateSourceOutage, SetBus, OtherPublish
  <2>1. TypeOK'
    BY <1>a, <1>2, ZenonT(30) DEF TypeOK, RowsOK, StoreOK, PoolOK, TasksOK, Publishers
  <2>2. JobOK' /\ WokenOK'
    BY <1>a, <1>2 DEF JobOK, HasJob, InFund, WokenOK, Publishers
  <2>3. Minted' /\ SingleOwner'
    BY <1>a, <1>2 DEF Minted, SingleOwner
  <2> QED
    BY <2>1, <2>2, <2>3 DEF OwnershipInv
<1> QED
  BY <1>1, <1>2 DEF AdminHooks

\* An exception lets go of the job, a crash of every job.
LEMMA FaultsInv ==
  ASSUME OwnershipInv, Crash \/ \E w \in Workers : ProcessRaises(w)
  PROVE  OwnershipInv'
<1> USE DEF rowVars, storeVars, poolVars, busVars
<1>a. /\ TypeOK /\ RowsOK /\ StoreOK /\ PoolOK /\ TasksOK
      /\ JobOK /\ Minted /\ SingleOwner /\ WokenOK
  BY DEF OwnershipInv, TypeOK
<1>1. ASSUME NEW w \in Workers, ProcessRaises(w)
      PROVE  OwnershipInv'
  <2>1. TasksOK'
    BY <1>a, <1>1, LoopTopType DEF ProcessRaises
  <2>2. TypeOK'
    BY <1>a, <1>1, <2>1 DEF TypeOK, RowsOK, StoreOK, PoolOK, ProcessRaises
  <2> QED
    BY <1>1, <2>2, WorkerStepJob, WorkerStepOwner DEF OwnershipInv
<1>2. CASE Crash
  <2> USE ConstantsAssumption DEF Crash
  <2>1. TypeOK'
    <3>1. TasksOK'
      BY <1>2 DEF TasksOK, SuspendedPcs
    <3>2. PoolOK'
      BY <1>2 DEF PoolOK
    <3> QED
      BY <1>a, <1>2, <3>1, <3>2 DEF TypeOK, RowsOK, StoreOK
  <2>2. JobOK' /\ WokenOK'
    BY <1>2 DEF JobOK, HasJob, InFund, WokenOK
  <2>3. Minted' /\ SingleOwner'
    BY <1>2 DEF Minted, SingleOwner
  <2> QED
    BY <2>1, <2>2, <2>3 DEF OwnershipInv
<1> QED
  BY <1>1, <1>2

\* Every step keeps the invariant.
LEMMA NextOwnership == OwnershipInv /\ [Next]_vars => OwnershipInv'
<1> SUFFICES ASSUME OwnershipInv, [Next]_vars PROVE OwnershipInv'
  OBVIOUS
<1>1. ASSUME NEW w \in Workers, WorkerStep(w) PROVE OwnershipInv'
  BY <1>1, WorkerStepType, WorkerStepJob, WorkerStepOwner DEF OwnershipInv
<1>2. CASE UNCHANGED vars
  BY <1>2 DEF OwnershipInv, TypeOK, RowsOK, StoreOK, PoolOK, TasksOK, JobOK,
              HasJob, InFund, Minted, SingleOwner, WokenOK, Publishers, vars,
              rowVars, storeVars, poolVars, busVars, runVars, localVars,
              faultVars
<1> QED
  BY <1>1, <1>2, HandlersInv, AdminHooksInv, FaultsInv DEF Next

\* The inductive invariant holds in every reachable state: types, consistent
\* worker locals, unminted ids in nobody's hands, and single ownership.
THEOREM OwnershipInvariant == Spec => []OwnershipInv
BY InitOwnership, NextOwnership, PTL DEF Spec

\* Every reachable state of the rows, the stores, the pool and its tasks is
\* well typed; in particular no worker indexes past the end of its scope.
THEOREM TypeCorrectness == Spec => []TypeOK
<1>1. OwnershipInv => TypeOK
  BY DEF OwnershipInv
<1> QED
  BY <1>1, OwnershipInvariant, PTL

\* Exactly one worker per extract: at any time an extract is with its create
\* handler, in the queue or with one worker, through pauses, exceptions,
\* crashes and restarts, and for any size of the pool.
THEOREM ExclusiveOwnership == Spec => []SingleOwner
<1>1. OwnershipInv => SingleOwner
  BY DEF OwnershipInv
<1> QED
  BY <1>1, OwnershipInvariant, PTL
=============================================================================
