----------------------------- MODULE Retention -----------------------------
(***************************************************************************)
(* The end of an extract's life: the retention sweeper                     *)
(* (extract_service/webhooks.py), the rows it finds (storage.py), the      *)
(* published files it deletes and the presigned links that lead to them    *)
(* (object_store.py, main.py).                                             *)
(*                                                                         *)
(* The sweeper is one task.  It suspends between sweeps and, while the     *)
(* event bus is paused, inside a sweep, for as long as the pause lasts; a  *)
(* crash can fall between any two steps.                                   *)
(***************************************************************************)
EXTENDS Naturals, FiniteSets

CONSTANTS
    Extracts,
    Files,          \* the files of an extract
    RetentionDays,  \* by extract, from completion to expires_at: the request's
                    \* retention_days or the default; 0 for a negative one
    WarnWindow,     \* RetentionSweeper.warn_window
    LinkTtl,        \* settings.presigned_url_ttl_seconds
    MaxTime,        \* bound: the clock
    MaxCrashes,     \* bound: process crashes
    MaxRaises,      \* bound: exceptions that end a sweep
    MaxDiskErrors,  \* bound: files that rmtree could not remove
    NoRow           \* the sweeper has no row in hand

ASSUME RetentionAssumption ==
    /\ Files # {}
    /\ RetentionDays \in [Extracts -> Nat]
    /\ WarnWindow \in Nat
    /\ LinkTtl \in Nat
    /\ MaxTime \in Nat
    /\ MaxCrashes \in Nat
    /\ MaxRaises \in Nat
    /\ MaxDiskErrors \in Nat
    /\ NoRow \notin Extracts

VARIABLES
    now,            \* utcnow()
    (* columns of the extracts table *)
    status, expiresAt,
    sent,           \* expiring_event_sent
    files,          \* published files, by extract
    linkUntil,      \* hard expiry of the newest links list_files handed out
    busUp,          \* EventBus._bus_available
    (* the sweeper's task *)
    pc,
    todo,           \* rows of the present query still to be visited
    row,            \* the row in hand
    left,           \* files of it that rmtree has not come to
    woken,          \* blocked in publish(), and notified
    (* history *)
    warnings,       \* expiring events published for it
    began,          \* when the present sweep read the rows to warn
    expiredAt,      \* when the row became EXPIRED
    crashes, raises, diskErrors

rowVars == <<status, expiresAt, sent>>
sweepVars == <<pc, todo, row, left, woken>>
historyVars == <<warnings, began, expiredAt>>
faultVars == <<crashes, raises, diskErrors>>
vars == <<now, rowVars, files, linkUntil, busUp, sweepVars, historyVars,
          faultVars>>

\* Suspended between two sweeps, or in publish().
SuspendedPcs == {"sleep", "blocked"}

LoopPcs == {"warn", "flag", "expire", "delete"}

\* Every variable has its type, and the sweeper holds a row exactly while it
\* announces or deletes one.
RetentionTypeOK ==
    /\ now \in Nat
    /\ status \in [Extracts -> {"RUNNING", "COMPLETED", "PARTIAL", "EXPIRED"}]
    /\ expiresAt \in [Extracts -> Nat]
    /\ sent \in [Extracts -> BOOLEAN]
    /\ files \in [Extracts -> SUBSET Files]
    /\ linkUntil \in [Extracts -> Nat]
    /\ busUp \in BOOLEAN
    /\ pc \in SuspendedPcs \cup LoopPcs
    /\ todo \in SUBSET Extracts
    /\ row \in Extracts \cup {NoRow}
    /\ left \in SUBSET Files
    /\ woken \in BOOLEAN
    /\ row # NoRow <=> pc \in {"blocked", "flag", "delete"}
    /\ warnings \in [Extracts -> Nat]
    /\ began \in Nat
    /\ expiredAt \in [Extracts -> Nat]
    /\ crashes \in Nat /\ raises \in Nat /\ diskErrors \in Nat

Init ==
    /\ now = 0
    /\ status = [e \in Extracts |-> "RUNNING"]
    /\ expiresAt = [e \in Extracts |-> 0]
    /\ sent = [e \in Extracts |-> FALSE]
    /\ files = [e \in Extracts |-> {}]
    /\ linkUntil = [e \in Extracts |-> 0]
    /\ busUp = TRUE
    /\ pc = "sleep"
    /\ todo = {}
    /\ row = NoRow
    /\ left = {}
    /\ woken = FALSE
    /\ warnings = [e \in Extracts |-> 0]
    /\ began = 0
    /\ expiredAt = [e \in Extracts |-> 0]
    /\ crashes = 0 /\ raises = 0 /\ diskErrors = 0

LoopFree == pc \in SuspendedPcs
-----------------------------------------------------------------------------
(***************************************************************************)
(* The clock, the workers, the clients and the bus.                        *)
(***************************************************************************)

\* The unit of the clock is long against what a task does before it suspends.
Tick ==
    /\ LoopFree
    /\ now < MaxTime
    /\ now' = now + 1
    /\ UNCHANGED <<rowVars, files, linkUntil, busUp, sweepVars, historyVars,
                   faultVars>>

\* A worker publishes files and sets the outcome and expires_at.
Complete(e, s) ==
    /\ LoopFree
    /\ status[e] = "RUNNING"
    /\ status' = [status EXCEPT ![e] = s]
    /\ expiresAt' = [expiresAt EXCEPT ![e] = now + RetentionDays[e]]
    /\ files' = [files EXCEPT ![e] = Files]
    /\ UNCHANGED <<now, sent, linkUntil, busUp, sweepVars, warnings, began,
                   expiredAt, faultVars>>

\* Mutant: links are handed out whatever the status.
ListableAlways(e) == status[e] # "RUNNING"

\* 410 for EXPIRED, 409 for every status without files.
Listable(e) == status[e] \in {"COMPLETED", "PARTIAL"}

\* sign(): a link's expiry does not depend on the extract's.
Sign == now + LinkTtl

\* GET /extracts/{id}/files signs a link for every file and the manifest.  Older
\* links lead to the same files for a shorter time.
ListFiles(e) ==
    /\ LoopFree
    /\ Listable(e)
    /\ linkUntil' = [linkUntil EXCEPT ![e] = Sign]
    /\ UNCHANGED <<now, rowVars, files, busUp, sweepVars, historyVars,
                   faultVars>>

\* verify(): a link holds for the second of its expiry, too.
Verify(e) == linkUntil[e] > 0 /\ linkUntil[e] >= now

\* file_path()
FilePath(e, f) == f \in files[e]

\* GET /extracts/{id}/download/{file} looks at the link and the directory, and
\* not at the row's status.
Serves(e, f) == Verify(e) /\ FilePath(e, f)

\* EventBus.pause() and EventBus.resume() notify nobody.
SetBus(up) ==
    /\ LoopFree
    /\ busUp # up
    /\ busUp' = up
    /\ UNCHANGED <<now, rowVars, files, linkUntil, sweepVars, historyVars,
                   faultVars>>

\* A worker publishes and notifies the sweeper.
OtherPublish ==
    /\ pc = "blocked"
    /\ busUp
    /\ ~woken
    /\ woken' = TRUE
    /\ UNCHANGED <<now, rowVars, files, linkUntil, busUp, pc, todo, row, left,
                   historyVars, faultVars>>
-----------------------------------------------------------------------------
(***************************************************************************)
(* One sweep: run_once.                                                    *)
(***************************************************************************)

\* Mutant: rows are warned again and again.
ExpiringResent == {e \in Extracts : /\ status[e] = "COMPLETED"
                                    /\ expiresAt[e] <= now + WarnWindow}

\* Mutant: the warning window is forgotten and an extract about to be deleted
\* is no longer expiring.
ExpiringTooLate == {e \in Extracts : /\ status[e] = "COMPLETED"
                                     /\ ~sent[e]
                                     /\ expiresAt[e] < now}

\* find_expiring
Expiring == {e \in Extracts : /\ status[e] = "COMPLETED"
                              /\ ~sent[e]
                              /\ expiresAt[e] <= now + WarnWindow}

\* Mutant: rows are deleted when they should be warned.
ExpiredEarly == {e \in Extracts : /\ status[e] \in {"COMPLETED", "PARTIAL"}
                                  /\ expiresAt[e] <= now + WarnWindow}

\* Mutant: partial extracts are kept for good.
ExpiredCompletedOnly == {e \in Extracts : /\ status[e] = "COMPLETED"
                                          /\ expiresAt[e] <= now}

\* find_expired
Expired == {e \in Extracts : /\ status[e] \in {"COMPLETED", "PARTIAL"}
                             /\ expiresAt[e] <= now}

StartSweep ==
    /\ pc = "sleep"
    /\ pc' = "warn"
    /\ todo' = Expiring
    /\ began' = now
    /\ UNCHANGED <<now, rowVars, files, linkUntil, busUp, row, left, woken,
                   warnings, expiredAt, faultVars>>

\* The expiring event of row e is on the topic.
Published(e) ==
    /\ busUp
    /\ warnings' = [warnings EXCEPT ![e] = @ + 1]
    /\ row' = e
    /\ pc' = "flag"
    /\ woken' = FALSE
    /\ UNCHANGED <<now, rowVars, files, linkUntil, busUp, todo, left, began,
                   expiredAt, faultVars>>

Warn(e) ==
    /\ pc = "warn"
    /\ e \in todo
    /\ Published(e)

\* publish() waits, and the whole sweep with it.
WarnBlocks(e) ==
    /\ pc = "warn"
    /\ e \in todo
    /\ ~busUp
    /\ row' = e
    /\ pc' = "blocked"
    /\ UNCHANGED <<now, rowVars, files, linkUntil, busUp, todo, left, woken,
                   historyVars, faultVars>>

WarnWakes ==
    /\ pc = "blocked"
    /\ woken
    /\ Published(row)

WarnWaitsAgain ==
    /\ pc = "blocked"
    /\ woken
    /\ ~busUp
    /\ woken' = FALSE
    /\ UNCHANGED <<now, rowVars, files, linkUntil, busUp, pc, todo, row, left,
                   historyVars, faultVars>>

Flag ==
    /\ pc = "flag"
    /\ sent' = [sent EXCEPT ![row] = TRUE]
    /\ todo' = todo \ {row}
    /\ row' = NoRow
    /\ pc' = "warn"
    /\ UNCHANGED <<now, status, expiresAt, files, linkUntil, busUp, left, woken,
                   historyVars, faultVars>>

FindExpired ==
    /\ pc = "warn"
    /\ todo = {}
    /\ todo' = Expired
    /\ pc' = "expire"
    /\ UNCHANGED <<now, rowVars, files, linkUntil, busUp, row, left, woken,
                   historyVars, faultVars>>

\* delete_published: rmtree takes the directory apart file by file ...
DeletePublished(e) ==
    /\ pc = "expire"
    /\ e \in todo
    /\ row' = e
    /\ left' = files[e]
    /\ pc' = "delete"
    /\ UNCHANGED <<now, rowVars, files, linkUntil, busUp, todo, woken,
                   historyVars, faultVars>>

RemoveFile(f) ==
    /\ pc = "delete"
    /\ f \in left
    /\ left' = left \ {f}
    /\ files' = [files EXCEPT ![row] = @ \ {f}]
    /\ UNCHANGED <<now, rowVars, linkUntil, busUp, pc, todo, row, woken,
                   historyVars, faultVars>>

\* ... and, with ignore_errors, leaves what it cannot remove.
RemoveFails(f) ==
    /\ pc = "delete"
    /\ f \in left
    /\ diskErrors < MaxDiskErrors
    /\ diskErrors' = diskErrors + 1
    /\ left' = left \ {f}
    /\ UNCHANGED <<now, rowVars, files, linkUntil, busUp, pc, todo, row, woken,
                   historyVars, crashes, raises>>

\* Mutant: the files are gone and the row does not say so.
ExpireRowLost(e) == UNCHANGED status

ExpireRow(e) == status' = [status EXCEPT ![e] = "EXPIRED"]

MarkExpired ==
    /\ pc = "delete"
    /\ left = {}
    /\ ExpireRow(row)
    /\ expiredAt' = [expiredAt EXCEPT ![row] = now]
    /\ todo' = todo \ {row}
    /\ row' = NoRow
    /\ pc' = "expire"
    /\ UNCHANGED <<now, expiresAt, sent, files, linkUntil, busUp, left, woken,
                   warnings, began, faultVars>>

\* The bus is pruned (module EventBus) and the task sleeps.
EndSweep ==
    /\ pc = "expire"
    /\ todo = {}
    /\ pc' = "sleep"
    /\ began' = 0
    /\ UNCHANGED <<now, rowVars, files, linkUntil, busUp, todo, row, left, woken,
                   warnings, expiredAt, faultVars>>

\* Back to the top of _loop, with nothing in hand.
SweepOver ==
    /\ pc' = "sleep"
    /\ todo' = {}
    /\ row' = NoRow
    /\ left' = {}
    /\ woken' = FALSE
    /\ began' = 0

\* A query, an update or the construction of an event raises; _loop logs it and
\* tries again after its tick.
SweepRaises ==
    /\ pc \in LoopPcs
    /\ raises < MaxRaises
    /\ raises' = raises + 1
    /\ SweepOver
    /\ UNCHANGED <<now, rowVars, files, linkUntil, busUp, warnings, expiredAt,
                   crashes, diskErrors>>

\* The process dies and is started again; rows, files and links survive.
Crash ==
    /\ crashes < MaxCrashes
    /\ crashes' = crashes + 1
    /\ SweepOver
    /\ busUp' = TRUE
    /\ UNCHANGED <<now, rowVars, files, linkUntil, warnings, expiredAt, raises,
                   diskErrors>>
-----------------------------------------------------------------------------
Sweep ==
    \/ StartSweep \/ WarnWakes \/ WarnWaitsAgain \/ Flag \/ FindExpired
    \/ MarkExpired \/ EndSweep
    \/ \E e \in Extracts : Warn(e) \/ WarnBlocks(e) \/ DeletePublished(e)
    \/ \E f \in Files : RemoveFile(f) \/ RemoveFails(f)

Next ==
    \/ Tick
    \/ \E e \in Extracts :
          ListFiles(e) \/ \E s \in {"COMPLETED", "PARTIAL"} : Complete(e, s)
    \/ \E up \in BOOLEAN : SetBus(up)
    \/ OtherPublish
    \/ Sweep
    \/ SweepRaises
    \/ Crash

Spec == Init /\ [][Next]_vars

\* The loop runs the sweeper when it is runnable, and its tick ends.
FairSpec == Spec /\ WF_vars(Sweep)
-----------------------------------------------------------------------------
\* Files are kept for the whole period: nothing is removed before expires_at,
\* however sweeps, stalls and restarts fall.
KeptForPeriod ==
    \A e \in Extracts :
        status[e] # "RUNNING" /\ files[e] # Files => now >= expiresAt[e]

\* A COMPLETED extract loses files only after its expiring event, unless the
\* sweep that deletes it read the rows to warn too early to find it: before the
\* warning was due, or before the extract was completed.  Only a bus that held
\* the sweep up since then explains either.
WarnedBeforeDeleted ==
    [][\A e \in Extracts :
          status[e] = "COMPLETED" /\ files'[e] # files[e] =>
              \/ warnings[e] > 0
              \/ expiresAt[e] > began + WarnWindow
              \/ expiresAt[e] >= began + RetentionDays[e]]_vars

\* An extract is announced as expiring once; each crash or exception between
\* the event and the flag can repeat one announcement, and nothing else can.
WarnedOncePerFault ==
    \A e \in Extracts : warnings[e] <= 1 + crashes + raises

\* A client never meets an extract half deleted, while a task other than the
\* sweeper can run, unless a crash or an exception cut a sweep short; and then it
\* is one past its time, which the next sweep finds and finishes.
ListedFilesExist ==
    LoopFree =>
        \A e \in Extracts :
            Listable(e) /\ files[e] # Files =>
                crashes + raises > 0 /\ e \in Expired

\* Links issued before the end outlive the row by less than their own lifetime,
\* and no later one is issued: what rmtree left behind is out of reach.
LeftoversOutOfReach ==
    \A e \in Extracts, f \in Files :
        status[e] = "EXPIRED" /\ Serves(e, f) =>
            /\ diskErrors > 0
            /\ linkUntil[e] <= expiredAt[e] + LinkTtl

\* An extract past its time expires, through stalls, exceptions and restarts,
\* as long as no sweep is blocked in publish() for good.
ExpiredInTheEnd ==
    []<>(pc # "blocked") =>
        \A e \in Extracts :
            status[e] # "RUNNING" /\ expiresAt[e] <= now
                ~> status[e] = "EXPIRED"
=============================================================================
