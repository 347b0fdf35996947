-------------------------- MODULE RetentionProofs --------------------------
(***************************************************************************)
(* Proofs about Retention, for any extracts, files, periods and windows,   *)
(* and any number of crashes, exceptions and disk errors.                  *)
(***************************************************************************)
EXTENDS Retention, TLAPS

\* Rows the sweeper is going to delete are past their time, now and from now on.
DoomedArePast ==
    /\ pc = "expire" => \A e \in todo : /\ status[e] # "RUNNING"
                                        /\ expiresAt[e] <= now
    /\ pc = "delete" => /\ status[row] # "RUNNING"
                        /\ expiresAt[row] <= now
                        /\ \A e \in todo : /\ status[e] # "RUNNING"
                                           /\ expiresAt[e] <= now

\* Rows it is going to warn are not flagged, and the one in hand is among them.
WarnedAreNew ==
    /\ pc \in {"warn", "blocked", "flag"} => \A e \in todo : ~sent[e]
    /\ pc \in {"blocked", "flag"} => row \in todo

\* The event of e is on the topic and no fault has come between it and the flag.
Announced(e) == sent[e] \/ (pc = "flag" /\ row = e)

\* Every further event goes back to a fault.
FaultsCounted ==
    \A e \in Extracts :
        /\ warnings[e] <= crashes + raises + 1
        /\ ~Announced(e) => warnings[e] <= crashes + raises

RetentionInv ==
    /\ RetentionTypeOK
    /\ DoomedArePast
    /\ KeptForPeriod
    /\ WarnedAreNew
    /\ FaultsCounted

\* Nothing has happened yet.
LEMMA InitRetention == Init => RetentionInv
<1> SUFFICES ASSUME Init PROVE RetentionInv
  OBVIOUS
<1>1. RetentionTypeOK
  BY RetentionAssumption DEF Init, RetentionTypeOK, SuspendedPcs, LoopPcs
<1>2. DoomedArePast /\ KeptForPeriod /\ WarnedAreNew
  BY DEF Init, DoomedArePast, KeptForPeriod, WarnedAreNew
<1>3. FaultsCounted
  BY DEF Init, FaultsCounted
<1> QED
  BY <1>1, <1>2, <1>3 DEF RetentionInv

\* A step of the clock, the clients or the bus.
LEMMA OthersOK ==
  ASSUME RetentionInv,
         \/ Tick \/ OtherPublish
         \/ \E e \in Extracts : ListFiles(e)
         \/ \E up \in BOOLEAN : SetBus(up)
  PROVE  RetentionInv'
<1> USE DEF rowVars, sweepVars, historyVars, faultVars
<1>1. CASE Tick
  <2>1. RetentionTypeOK'
    BY <1>1 DEF Tick, RetentionInv, RetentionTypeOK
  <2>2. DoomedArePast' /\ KeptForPeriod'
    BY <1>1 DEF Tick, LoopFree, SuspendedPcs, RetentionInv, RetentionTypeOK,
                DoomedArePast, KeptForPeriod
  <2>3. WarnedAreNew' /\ FaultsCounted'
    BY <1>1 DEF Tick, RetentionInv, WarnedAreNew, FaultsCounted, Announced
  <2> QED
    BY <2>1, <2>2, <2>3 DEF RetentionInv
<1>2. CASE OtherPublish
  BY <1>2 DEF OtherPublish, RetentionInv, RetentionTypeOK, DoomedArePast,
              KeptForPeriod, WarnedAreNew, FaultsCounted, Announced
<1>3. ASSUME NEW e \in Extracts, ListFiles(e) PROVE RetentionInv'
  <2>1. RetentionTypeOK'
    BY <1>3, RetentionAssumption
       DEF ListFiles, Sign, RetentionInv, RetentionTypeOK
  <2> QED
    BY <1>3, <2>1 DEF ListFiles, RetentionInv, DoomedArePast, KeptForPeriod,
                      WarnedAreNew, FaultsCounted, Announced
<1>4. ASSUME NEW up \in BOOLEAN, SetBus(up) PROVE RetentionInv'
  BY <1>4 DEF SetBus, RetentionInv, RetentionTypeOK, DoomedArePast,
              KeptForPeriod, WarnedAreNew, FaultsCounted, Announced
<1> QED
  BY <1>1, <1>2, <1>3, <1>4

\* An extract that is completed has its whole period before it.
LEMMA CompleteOK ==
  ASSUME RetentionInv, NEW e \in Extracts, NEW s \in {"COMPLETED", "PARTIAL"},
         Complete(e, s)
  PROVE  RetentionInv'
<1> USE DEF sweepVars, faultVars
<1>1. RetentionTypeOK'
  <2>1. now + RetentionDays[e] \in Nat
    BY RetentionAssumption DEF RetentionInv, RetentionTypeOK
  <2>2. /\ status' \in [Extracts ->
                           {"RUNNING", "COMPLETED", "PARTIAL", "EXPIRED"}]
        /\ expiresAt' \in [Extracts -> Nat]
        /\ files' \in [Extracts -> SUBSET Files]
    BY <2>1 DEF Complete, RetentionInv, RetentionTypeOK
  <2> QED
    BY <2>2 DEF Complete, RetentionInv, RetentionTypeOK
<1>2. DoomedArePast'
  BY DEF Complete, LoopFree, SuspendedPcs, RetentionInv, DoomedArePast
<1>3. KeptForPeriod'
  BY DEF Complete, RetentionInv, RetentionTypeOK, KeptForPeriod
<1>4. WarnedAreNew' /\ FaultsCounted'
  BY DEF Complete, RetentionInv, WarnedAreNew, FaultsCounted, Announced
<1> QED
  BY <1>1, <1>2, <1>3, <1>4 DEF RetentionInv

\* The expiring event and its flag.
LEMMA WarnOK ==
  ASSUME RetentionInv,
         \/ StartSweep \/ WarnWakes \/ WarnWaitsAgain \/ Flag
         \/ \E e \in Extracts : Warn(e) \/ WarnBlocks(e)
  PROVE  RetentionInv'
<1> USE DEF rowVars, historyVars, faultVars
<1>1. CASE StartSweep
  BY <1>1 DEF StartSweep, Expiring, RetentionInv, RetentionTypeOK, LoopPcs,
              DoomedArePast, KeptForPeriod, WarnedAreNew, FaultsCounted,
              Announced
<1>2. ASSUME NEW e \in Extracts, e \in todo, pc \in {"warn", "blocked"},
             Published(e)
      PROVE  RetentionInv'
  <2>1. RetentionTypeOK'
    <3>1. busUp' \in BOOLEAN /\ woken' \in BOOLEAN
      BY <1>2 DEF Published, RetentionInv, RetentionTypeOK
    <3>2. warnings' \in [Extracts -> Nat]
      BY <1>2 DEF Published, RetentionInv, RetentionTypeOK
    <3>3. /\ pc' \in SuspendedPcs \cup LoopPcs
          /\ row' \in Extracts \cup {NoRow}
          /\ row' # NoRow <=> pc' \in {"blocked", "flag", "delete"}
      BY <1>2, RetentionAssumption DEF Published, LoopPcs
    <3> QED
      BY <1>2, <3>1, <3>2, <3>3 DEF Published, RetentionInv, RetentionTypeOK
  <2>2. DoomedArePast' /\ KeptForPeriod' /\ WarnedAreNew'
    BY <1>2 DEF Published, RetentionInv, DoomedArePast, KeptForPeriod,
                WarnedAreNew
  <2>3. ~Announced(e) /\ \A d \in Extracts \ {e} : Announced(d)' = Announced(d)
    BY <1>2 DEF Published, RetentionInv, WarnedAreNew, Announced
  <2>4. FaultsCounted'
    BY <1>2, <2>3 DEF Published, RetentionInv, RetentionTypeOK, FaultsCounted,
                      Announced
  <2> QED
    BY <2>1, <2>2, <2>4 DEF RetentionInv
<1>3. CASE WarnWakes
  BY <1>2, <1>3 DEF WarnWakes, RetentionInv, RetentionTypeOK, WarnedAreNew
<1>4. CASE WarnWaitsAgain
  BY <1>4 DEF WarnWaitsAgain, RetentionInv, RetentionTypeOK, DoomedArePast,
              KeptForPeriod, WarnedAreNew, FaultsCounted, Announced
<1>5. CASE Flag
  <2>1. row \in Extracts
    BY <1>5 DEF Flag, RetentionInv, RetentionTypeOK
  <2>2. RetentionTypeOK'
    BY <1>5, <2>1 DEF Flag, RetentionInv, RetentionTypeOK, LoopPcs
  <2>3. DoomedArePast' /\ KeptForPeriod'
    BY <1>5 DEF Flag, RetentionInv, DoomedArePast, KeptForPeriod
  <2>4. WarnedAreNew'
    BY <1>5, <2>1 DEF Flag, RetentionInv, RetentionTypeOK, WarnedAreNew
  <2>5. FaultsCounted'
    BY <1>5, <2>1
       DEF Flag, RetentionInv, RetentionTypeOK, FaultsCounted, Announced
  <2> QED
    BY <2>2, <2>3, <2>4, <2>5 DEF RetentionInv
<1>6. ASSUME NEW e \in Extracts, Warn(e) PROVE RetentionInv'
  BY <1>2, <1>6 DEF Warn
<1>7. ASSUME NEW e \in Extracts, WarnBlocks(e) PROVE RetentionInv'
  BY <1>7, RetentionAssumption
     DEF WarnBlocks, RetentionInv, RetentionTypeOK, SuspendedPcs, DoomedArePast,
         KeptForPeriod, WarnedAreNew, FaultsCounted, Announced
<1> QED
  BY <1>1, <1>3, <1>4, <1>5, <1>6, <1>7

\* The second half of a sweep only touches rows past their time.
LEMMA ExpireOK ==
  ASSUME RetentionInv,
         \/ FindExpired \/ MarkExpired \/ EndSweep
         \/ \E e \in Extracts : DeletePublished(e)
         \/ \E f \in Files : RemoveFile(f) \/ RemoveFails(f)
  PROVE  RetentionInv'
<1> USE DEF rowVars, historyVars, faultVars
<1>1. CASE FindExpired
  BY <1>1 DEF FindExpired, Expired, RetentionInv, RetentionTypeOK, LoopPcs,
              DoomedArePast, KeptForPeriod, WarnedAreNew, FaultsCounted,
              Announced
<1>2. CASE MarkExpired
  <2>1. row \in Extracts
    BY <1>2 DEF MarkExpired, RetentionInv, RetentionTypeOK
  <2>2. RetentionTypeOK'
    BY <1>2, <2>1
       DEF MarkExpired, ExpireRow, RetentionInv, RetentionTypeOK, LoopPcs
  <2>3. DoomedArePast'
    BY <1>2, <2>1
       DEF MarkExpired, ExpireRow, RetentionInv, RetentionTypeOK, DoomedArePast
  <2>4. KeptForPeriod'
    BY <1>2, <2>1
       DEF MarkExpired, ExpireRow, RetentionInv, RetentionTypeOK, DoomedArePast,
           KeptForPeriod
  <2>5. WarnedAreNew' /\ FaultsCounted'
    BY <1>2 DEF MarkExpired, RetentionInv, WarnedAreNew, FaultsCounted, Announced
  <2> QED
    BY <2>2, <2>3, <2>4, <2>5 DEF RetentionInv
<1>3. CASE EndSweep
  BY <1>3 DEF EndSweep, RetentionInv, RetentionTypeOK, SuspendedPcs,
              DoomedArePast, KeptForPeriod, WarnedAreNew, FaultsCounted,
              Announced
<1>4. ASSUME NEW e \in Extracts, DeletePublished(e) PROVE RetentionInv'
  BY <1>4, RetentionAssumption
     DEF DeletePublished, RetentionInv, RetentionTypeOK, LoopPcs, DoomedArePast,
         KeptForPeriod, WarnedAreNew, FaultsCounted, Announced
<1>5. ASSUME NEW f \in Files, RemoveFile(f) PROVE RetentionInv'
  <2>1. row \in Extracts
    BY <1>5 DEF RemoveFile, RetentionInv, RetentionTypeOK
  <2>2. RetentionTypeOK'
    BY <1>5, <2>1 DEF RemoveFile, RetentionInv, RetentionTypeOK
  <2>3. KeptForPeriod'
    BY <1>5, <2>1 DEF RemoveFile, RetentionInv, RetentionTypeOK, DoomedArePast,
                      KeptForPeriod
  <2>4. DoomedArePast' /\ WarnedAreNew' /\ FaultsCounted'
    BY <1>5 DEF RemoveFile, RetentionInv, DoomedArePast, WarnedAreNew,
                FaultsCounted, Announced
  <2> QED
    BY <2>2, <2>3, <2>4 DEF RetentionInv
<1>6. ASSUME NEW f \in Files, RemoveFails(f) PROVE RetentionInv'
  BY <1>6 DEF RemoveFails, RetentionInv, RetentionTypeOK, DoomedArePast,
              KeptForPeriod, WarnedAreNew, FaultsCounted, Announced
<1> QED
  BY <1>1, <1>2, <1>3, <1>4, <1>5, <1>6

\* A sweep that is cut short leaves at most one event without its flag, and the
\* fault accounts for it.
LEMMA FaultsOK ==
  ASSUME RetentionInv, SweepRaises \/ Crash
  PROVE  RetentionInv'
<1> USE DEF rowVars, SweepRaises, Crash, SweepOver
<1>1. RetentionTypeOK'
  <2>1. busUp' \in BOOLEAN /\ woken' \in BOOLEAN
    BY DEF RetentionInv, RetentionTypeOK
  <2>2. crashes' \in Nat /\ raises' \in Nat /\ diskErrors' \in Nat
    BY DEF RetentionInv, RetentionTypeOK
  <2>3. /\ pc' \in SuspendedPcs \cup LoopPcs
        /\ row' \in Extracts \cup {NoRow}
        /\ row' # NoRow <=> pc' \in {"blocked", "flag", "delete"}
        /\ todo' \in SUBSET Extracts /\ left' \in SUBSET Files
        /\ began' \in Nat
    BY DEF SuspendedPcs
  <2> QED
    BY <2>1, <2>2, <2>3 DEF RetentionInv, RetentionTypeOK
<1>2. DoomedArePast' /\ KeptForPeriod' /\ WarnedAreNew'
  BY DEF RetentionInv, DoomedArePast, KeptForPeriod, WarnedAreNew
<1>3. FaultsCounted'
  BY DEF RetentionInv, RetentionTypeOK, FaultsCounted, Announced
<1> QED
  BY <1>1, <1>2, <1>3 DEF RetentionInv

\* Every step keeps the invariant.
LEMMA NextRetention == RetentionInv /\ [Next]_vars => RetentionInv'
<1> SUFFICES ASSUME RetentionInv, [Next]_vars PROVE RetentionInv'
  OBVIOUS
<1>1. CASE UNCHANGED vars
  BY <1>1 DEF vars, rowVars, sweepVars, historyVars, faultVars, RetentionInv,
              RetentionTypeOK, DoomedArePast, KeptForPeriod, WarnedAreNew,
              FaultsCounted, Announced
<1> QED
  BY <1>1, OthersOK, CompleteOK, WarnOK, ExpireOK, FaultsOK DEF Next, Sweep

\* Nothing of an extract is removed before its expires_at, however sweeps,
\* stalls of the bus and restarts fall.
THEOREM RetentionIsKept == Spec => [](RetentionTypeOK /\ KeptForPeriod)
<1>1. RetentionInv => RetentionTypeOK /\ KeptForPeriod
  BY DEF RetentionInv
<1> QED
  BY <1>1, InitRetention, NextRetention, PTL DEF Spec
-----------------------------------------------------------------------------
(***************************************************************************)
(* What clients can reach, and who was warned.                             *)
(***************************************************************************)

\* No link outlives the moment it could last have been issued by more than its
\* lifetime.
LinksBounded ==
    \A e \in Extracts :
        /\ linkUntil[e] <= now + LinkTtl
        /\ status[e] = "EXPIRED" => linkUntil[e] <= expiredAt[e] + LinkTtl

\* What rmtree has passed over and what it has left behind is a disk error.
ErrorsExplain ==
    /\ pc = "delete" => files[row] \subseteq left \/ diskErrors > 0
    /\ \A e \in Extracts :
          status[e] = "EXPIRED" => files[e] = {} \/ diskErrors > 0

\* Unless a sweep was cut short, the only incomplete extract is the one the
\* sweeper has in hand.
WholeOrInHand ==
    crashes + raises = 0 =>
        \A e \in Extracts :
            status[e] \in {"COMPLETED", "PARTIAL"} =>
                files[e] = Files \/ (pc = "delete" /\ row = e)

\* The event of e is out, or the sweep under way could not have found it.
WarnedOrUnseen(e) ==
    \/ warnings[e] > 0
    \/ expiresAt[e] > began + WarnWindow
    \/ expiresAt[e] >= began + RetentionDays[e]

\* Rows are flagged after their event; and of the COMPLETED rows a sweep that is
\* past its first query need care only for those the query found.
WarningsAhead ==
    /\ began <= now
    /\ pc = "flag" => warnings[row] > 0
    /\ \A e \in Extracts :
          /\ sent[e] => warnings[e] > 0
          /\ pc # "sleep" /\ status[e] = "COMPLETED" =>
                \/ WarnedOrUnseen(e)
                \/ pc \in {"warn", "blocked", "flag"} /\ e \in todo

LifeInv ==
    /\ RetentionInv
    /\ LinksBounded
    /\ ErrorsExplain
    /\ WholeOrInHand
    /\ WarningsAhead

\* There are no links, no files and no sweep.
LEMMA InitLife == Init => LifeInv
<1> SUFFICES ASSUME Init PROVE LifeInv
  OBVIOUS
<1>1. RetentionInv
  BY InitRetention
<1>2. LinksBounded
  BY RetentionAssumption DEF Init, LinksBounded
<1>3. ErrorsExplain /\ WholeOrInHand
  BY DEF Init, ErrorsExplain, WholeOrInHand
<1>4. WarningsAhead
  BY DEF Init, WarningsAhead
<1> QED
  BY <1>1, <1>2, <1>3, <1>4 DEF LifeInv

\* The steps that change no row, file, link or clock.
Quiet ==
    \/ OtherPublish \/ StartSweep \/ WarnWakes \/ WarnWaitsAgain
    \/ FindExpired \/ EndSweep \/ SweepRaises \/ Crash
    \/ \E up \in BOOLEAN : SetBus(up)
    \/ \E e \in Extracts : Warn(e) \/ WarnBlocks(e) \/ DeletePublished(e)

\* What a quiet step leaves alone.
LEMMA QuietLeaves ==
  ASSUME Quiet
  PROVE  UNCHANGED <<now, status, expiresAt, sent, files, linkUntil, expiredAt,
                     diskErrors>>
BY DEF Quiet, OtherPublish, StartSweep, WarnWakes, WarnWaitsAgain, FindExpired,
       EndSweep, SweepRaises, Crash, SetBus, Warn, WarnBlocks, DeletePublished,
       Published, rowVars, historyVars, faultVars

\* Every other step is one of these.
LEMMA LoudSteps ==
  ASSUME Next, ~Quiet
  PROVE  \/ Tick \/ Flag \/ MarkExpired
         \/ \E e \in Extracts :
               ListFiles(e) \/ \E s \in {"COMPLETED", "PARTIAL"} : Complete(e, s)
         \/ \E f \in Files : RemoveFile(f) \/ RemoveFails(f)
BY DEF Next, Sweep, Quiet

\* Links are signed for a fixed time, and not for an EXPIRED extract.
LEMMA LinksStep ==
  ASSUME RetentionTypeOK, LinksBounded, Next
  PROVE  LinksBounded'
<1> USE RetentionAssumption DEF RetentionTypeOK, LinksBounded
<1>1. CASE Quiet
  BY <1>1, QuietLeaves
<1>2. CASE Tick
  BY <1>2 DEF Tick, rowVars, historyVars
<1>3. CASE Flag
  BY <1>3 DEF Flag, historyVars
<1>4. CASE MarkExpired
  <2>1. row \in Extracts
    BY <1>4 DEF MarkExpired
  <2> QED
    BY <1>4, <2>1 DEF MarkExpired, ExpireRow
<1>5. ASSUME NEW e \in Extracts, ListFiles(e) PROVE LinksBounded'
  BY <1>5 DEF ListFiles, Listable, Sign, rowVars, historyVars
<1>6. ASSUME NEW e \in Extracts, NEW s \in {"COMPLETED", "PARTIAL"},
             Complete(e, s)
      PROVE  LinksBounded'
  BY <1>6 DEF Complete
<1>7. ASSUME NEW f \in Files, RemoveFile(f) \/ RemoveFails(f)
      PROVE  LinksBounded'
  BY <1>7 DEF RemoveFile, RemoveFails, rowVars, historyVars
<1> QED
  BY <1>1, <1>2, <1>3, <1>4, <1>5, <1>6, <1>7, LoudSteps

\* rmtree visits each file it found and removes it or meets an error.
LEMMA ErrorsStep ==
  ASSUME RetentionTypeOK, ErrorsExplain, Next
  PROVE  ErrorsExplain'
<1> USE DEF RetentionTypeOK, ErrorsExplain
<1>1. CASE Quiet
  <2>1. pc' = "delete" => \/ pc = "delete" /\ row' = row /\ left' = left
                          \/ left' = files[row']
    BY <1>1 DEF Quiet, OtherPublish, StartSweep, WarnWakes, WarnWaitsAgain,
                FindExpired, EndSweep, SweepRaises, Crash, SweepOver, SetBus,
                Warn, WarnBlocks, DeletePublished, Published, sweepVars
  <2> QED
    BY <1>1, <2>1, QuietLeaves
<1>2. CASE Tick
  BY <1>2 DEF Tick, rowVars, sweepVars, faultVars
<1>3. CASE Flag
  BY <1>3 DEF Flag, faultVars
<1>4. CASE MarkExpired
  <2>1. row \in Extracts
    BY <1>4 DEF MarkExpired
  <2>2. files[row] = {} \/ diskErrors > 0
    BY <1>4 DEF MarkExpired
  <2> QED
    BY <1>4, <2>1, <2>2 DEF MarkExpired, ExpireRow, faultVars
<1>5. ASSUME NEW e \in Extracts, ListFiles(e) PROVE ErrorsExplain'
  BY <1>5 DEF ListFiles, rowVars, sweepVars, faultVars
<1>6. ASSUME NEW e \in Extracts, NEW s \in {"COMPLETED", "PARTIAL"},
             Complete(e, s)
      PROVE  ErrorsExplain'
  BY <1>6 DEF Complete, LoopFree, SuspendedPcs, sweepVars, faultVars
<1>7. ASSUME NEW f \in Files, RemoveFile(f) PROVE ErrorsExplain'
  BY <1>7 DEF RemoveFile, rowVars, faultVars
<1>8. ASSUME NEW f \in Files, RemoveFails(f) PROVE ErrorsExplain'
  BY <1>8 DEF RemoveFails, rowVars
<1> QED
  BY <1>1, <1>2, <1>3, <1>4, <1>5, <1>6, <1>7, <1>8, LoudSteps

\* Files go one by one, and the row tells before another task runs.
LEMMA WholeStep ==
  ASSUME RetentionTypeOK, WholeOrInHand, Next
  PROVE  WholeOrInHand'
<1> USE DEF RetentionTypeOK, WholeOrInHand
<1> SUFFICES ASSUME crashes' + raises' = 0
             PROVE  WholeOrInHand'
  OBVIOUS
<1>1. CASE Quiet
  <2>1. /\ ~SweepRaises /\ ~Crash
        /\ crashes + raises = 0
    BY <1>1 DEF Quiet, OtherPublish, StartSweep, WarnWakes, WarnWaitsAgain,
                FindExpired, EndSweep, SweepRaises, Crash, SetBus,
                Warn, WarnBlocks, DeletePublished, Published, faultVars
  <2>2. pc = "delete" => pc' = "delete" /\ row' = row
    BY <1>1, <2>1
       DEF Quiet, OtherPublish, StartSweep, WarnWakes, WarnWaitsAgain,
           FindExpired, EndSweep, SetBus, Warn, WarnBlocks, DeletePublished,
           Published, sweepVars
  <2> QED
    BY <1>1, <2>1, <2>2, QuietLeaves
<1>2. CASE Tick
  BY <1>2 DEF Tick, rowVars, sweepVars, faultVars
<1>3. CASE Flag
  BY <1>3 DEF Flag, faultVars
<1>4. CASE MarkExpired
  <2>1. row \in Extracts
    BY <1>4 DEF MarkExpired
  <2> QED
    BY <1>4, <2>1 DEF MarkExpired, ExpireRow, faultVars
<1>5. ASSUME NEW e \in Extracts, ListFiles(e) PROVE WholeOrInHand'
  BY <1>5 DEF ListFiles, rowVars, sweepVars, faultVars
<1>6. ASSUME NEW e \in Extracts, NEW s \in {"COMPLETED", "PARTIAL"},
             Complete(e, s)
      PROVE  WholeOrInHand'
  BY <1>6 DEF Complete, sweepVars, faultVars
<1>7. ASSUME NEW f \in Files, RemoveFile(f) PROVE WholeOrInHand'
  BY <1>7 DEF RemoveFile, rowVars, faultVars
<1>8. ASSUME NEW f \in Files, RemoveFails(f) PROVE WholeOrInHand'
  BY <1>8 DEF RemoveFails, rowVars
<1> QED
  BY <1>1, <1>2, <1>3, <1>4, <1>5, <1>6, <1>7, <1>8, LoudSteps

\* The event comes before the flag; a sweep's first query finds every COMPLETED
\* row that is due and not flagged, and a row completed later has its whole
\* retention period ahead of the query.
LEMMA WarningsStep ==
  ASSUME RetentionInv, WarningsAhead, Next
  PROVE  WarningsAhead'
<1> USE DEF RetentionTypeOK, WarningsAhead, WarnedOrUnseen
<1> RetentionTypeOK /\ WarnedAreNew
  BY DEF RetentionInv
<1> USE RetentionAssumption
<1>1. CASE OtherPublish \/ WarnWaitsAgain \/ Tick
  BY <1>1 DEF OtherPublish, WarnWaitsAgain, Tick, rowVars, historyVars, sweepVars
<1>2. ASSUME NEW up \in BOOLEAN, SetBus(up) PROVE WarningsAhead'
  BY <1>2 DEF SetBus, rowVars, historyVars, sweepVars
<1>3. CASE StartSweep
  BY <1>3 DEF StartSweep, Expiring, rowVars
<1>4. ASSUME NEW e \in Extracts, pc \in {"warn", "blocked"}, Published(e)
      PROVE  WarningsAhead'
  <2>1. /\ warnings'[e] > 0
        /\ \A d \in Extracts : warnings'[d] >= warnings[d]
    BY <1>4 DEF Published
  <2> QED
    BY <1>4, <2>1 DEF Published, rowVars
<1>5. CASE WarnWakes
  BY <1>4, <1>5 DEF WarnWakes
<1>6. ASSUME NEW e \in Extracts, Warn(e) PROVE WarningsAhead'
  BY <1>4, <1>6 DEF Warn
<1>7. ASSUME NEW e \in Extracts, WarnBlocks(e) PROVE WarningsAhead'
  BY <1>7 DEF WarnBlocks, rowVars, historyVars
<1>8. CASE Flag
  <2>1. row \in Extracts
    BY <1>8 DEF Flag
  <2> QED
    BY <1>8, <2>1 DEF Flag, historyVars
<1>9. CASE FindExpired
  BY <1>9 DEF FindExpired, rowVars, historyVars
<1>10. CASE MarkExpired
  <2>1. row \in Extracts
    BY <1>10 DEF MarkExpired
  <2> QED
    BY <1>10, <2>1 DEF MarkExpired, ExpireRow
<1>11. CASE EndSweep \/ SweepRaises \/ Crash
  BY <1>11 DEF EndSweep, SweepRaises, Crash, SweepOver, rowVars
<1>12. ASSUME NEW e \in Extracts, DeletePublished(e) PROVE WarningsAhead'
  BY <1>12 DEF DeletePublished, rowVars, historyVars
<1>13. ASSUME NEW f \in Files, RemoveFile(f) \/ RemoveFails(f)
       PROVE  WarningsAhead'
  BY <1>13 DEF RemoveFile, RemoveFails, rowVars, historyVars
<1>14. ASSUME NEW e \in Extracts, ListFiles(e) PROVE WarningsAhead'
  BY <1>14 DEF ListFiles, rowVars, sweepVars, historyVars
<1>15. ASSUME NEW e \in Extracts, NEW s \in {"COMPLETED", "PARTIAL"},
              Complete(e, s)
       PROVE  WarningsAhead'
  <2>1. expiresAt'[e] >= began + RetentionDays[e]
    BY <1>15 DEF Complete
  <2> QED
    BY <1>15, <2>1 DEF Complete, sweepVars
<1> QED
  BY <1>1, <1>2, <1>3, <1>5, <1>6, <1>7, <1>8, <1>9, <1>10, <1>11, <1>12, <1>13,
     <1>14, <1>15 DEF Next, Sweep

\* Every step keeps all of it.
LEMMA NextLife == LifeInv /\ [Next]_vars => LifeInv'
<1> SUFFICES ASSUME LifeInv, [Next]_vars PROVE LifeInv'
  OBVIOUS
<1>1. RetentionInv /\ RetentionInv' /\ RetentionTypeOK
  BY NextRetention DEF LifeInv, RetentionInv
<1>2. CASE Next
  BY <1>1, <1>2, LinksStep, ErrorsStep, WholeStep, WarningsStep DEF LifeInv
<1>3. CASE UNCHANGED vars
  BY <1>1, <1>3 DEF vars, rowVars, sweepVars, historyVars, faultVars, LifeInv,
                    LinksBounded, ErrorsExplain, WholeOrInHand, WarningsAhead,
                    WarnedOrUnseen
<1> QED
  BY <1>2, <1>3

\* The invariant holds of every behaviour.
LEMMA LifeInvariant == Spec => []LifeInv
BY InitLife, NextLife, PTL DEF Spec

\* The expiring event is published once, and at most once more for each crash or
\* exception that fell between the event and its flag.
THEOREM WarnedOnce == Spec => []WarnedOncePerFault
<1>1. LifeInv => WarnedOncePerFault
  BY DEF LifeInv, RetentionInv, RetentionTypeOK, FaultsCounted,
         WarnedOncePerFault
<1> QED
  BY <1>1, LifeInvariant, PTL

\* list_files lists a file that is gone only after a fault has cut a sweep short,
\* and only for an extract that the next sweep will find.
THEOREM ListingsAreTrue == Spec => []ListedFilesExist
<1>1. LifeInv => ListedFilesExist
  <2> SUFFICES ASSUME LifeInv, LoopFree, NEW e \in Extracts, Listable(e),
                      files[e] # Files
               PROVE  crashes + raises > 0 /\ e \in Expired
    BY DEF ListedFilesExist
  <2>1. status[e] \in {"COMPLETED", "PARTIAL"} /\ pc # "delete"
    BY DEF Listable, LoopFree, SuspendedPcs
  <2>2. crashes \in Nat /\ raises \in Nat /\ now \in Nat /\ expiresAt[e] \in Nat
    BY DEF LifeInv, RetentionInv, RetentionTypeOK
  <2>3. crashes + raises # 0
    BY <2>1 DEF LifeInv, WholeOrInHand
  <2>4. expiresAt[e] <= now
    BY <2>1, <2>2 DEF LifeInv, RetentionInv, KeptForPeriod
  <2> QED
    BY <2>1, <2>2, <2>3, <2>4 DEF Expired
<1> QED
  BY <1>1, LifeInvariant, PTL

\* What rmtree leaves of an EXPIRED extract is served only after a disk error,
\* and only through links signed before the end.
THEOREM LeftoversFade == Spec => []LeftoversOutOfReach
<1>1. LifeInv => LeftoversOutOfReach
  BY DEF LifeInv, LinksBounded, ErrorsExplain, LeftoversOutOfReach, Serves,
         FilePath
<1> QED
  BY <1>1, LifeInvariant, PTL

\* No file of a COMPLETED extract is removed before its expiring event is out,
\* unless the sweep that removes it could not have found the row to warn.
THEOREM NoSilentDeletion == Spec => WarnedBeforeDeleted
<1> DEFINE Warned ==
      \A e \in Extracts :
          status[e] = "COMPLETED" /\ files'[e] # files[e] =>
              \/ warnings[e] > 0
              \/ expiresAt[e] > began + WarnWindow
              \/ expiresAt[e] >= began + RetentionDays[e]
<1>1. LifeInv /\ [Next]_vars => [Warned]_vars
  <2> SUFFICES ASSUME LifeInv, Next, NEW e \in Extracts,
                      status[e] = "COMPLETED", files'[e] # files[e]
               PROVE  WarnedOrUnseen(e)
    BY DEF WarnedOrUnseen
  <2>1. ~Quiet
    BY QuietLeaves
  <2>2. ~(Tick \/ Flag \/ MarkExpired)
    BY DEF Tick, Flag, MarkExpired
  <2>3. \A d \in Extracts : ~ListFiles(d)
    BY DEF ListFiles
  <2>4. \A d \in Extracts, s \in {"COMPLETED", "PARTIAL"} : ~Complete(d, s)
    BY DEF Complete, LifeInv, RetentionInv, RetentionTypeOK
  <2>5. \A f \in Files : ~RemoveFails(f)
    BY DEF RemoveFails
  <2>6. PICK f \in Files : RemoveFile(f)
    BY <2>1, <2>2, <2>3, <2>4, <2>5, LoudSteps
  <2>7. pc = "delete"
    BY <2>6 DEF RemoveFile
  <2> QED
    BY <2>7 DEF LifeInv, WarningsAhead
<1> QED
  BY <1>1, LifeInvariant, PTL DEF Spec, WarnedBeforeDeleted
=============================================================================
