------------------------------ MODULE Archive ------------------------------
(***************************************************************************)
(* ArchiveOldMails (internal/worker/archive_handler.go): one transaction   *)
(* for each batch moves old mails to the archive tables. Every worker      *)
(* process schedules the task for itself, so that several run at once. They*)
(* meet the manual retry and the cancellation of a mail (internal/service/ *)
(* mail_service.go) and the runs of its tasks (internal/worker/            *)
(* mail_handler.go and server.go), whose writes wait for the row's lock and*)
(* then find no row. A mail has the task of its creation and one of every  *)
(* retry; how often Asynq runs a task is in MailDelivery and left open here.*)
(*                                                                         *)
(* The attachments of a mail go with its row (ON DELETE CASCADE).          *)
(***************************************************************************)
EXTENDS WorkerProcesses

CONSTANTS
    Mails, Retries, Cancels,
    ArchiveBatchSize

\* The tasks are named for the mail that was created and for the request that retries it.
Tasks == Mails \cup Retries

ASSUME ArchiveAssumption ==
    ArchiveBatchSize \in Nat \ {0} /\ Mails \cap Retries = {}

Terminal == {"sent", "failed", "cancelled"}

\* Queued stands for pending too. ClearBodies leaves the compressed body alone.
Rows == [status : Terminal \cup {"queued", "sending"}, body : {"text", "compressed"}, task : Tasks]

\* The columns the INSERT names leave out the compressed body, the score and the tags.
ArchiveRow(row) == [row EXCEPT !.body = IF row.body = "text" THEN "text" ELSE "none"]

ASSUME NothingAssumption ==
    Nothing \notin Rows /\ \A row \in Rows : Nothing # ArchiveRow(row)

VARIABLES
    mails,              \* the row of each mail: [status, body, task], or Nothing
    recipients,         \* the mails with rows in mail_recipients
    archive,            \* mails_archive
    archivedRecipients, \* mail_recipients_archive
    old,                \* the mails created more than 90 days ago
    batch,              \* the transaction of each worker: [step, seen, ids]
    task,               \* each task: "none", "waits", or how far its run came
    retry,              \* each Retry request: [step, mail]
    cancel,             \* each Cancel request: [step, mail, task]
    closed              \* observation: the mails that a run or a cancellation wrote a terminal
                        \* status for, and no retry has put back into the queue since

tables == <<mails, recipients, archive, archivedRecipients, old>>
others == <<task, retry, cancel, closed>>
archiveVars == <<tables, batch, others>>

NoBatch == [step |-> "idle", seen |-> <<>>, ids |-> {}]

ArchiveInit ==
    /\ mails \in {rows \in [Mails -> Rows] : \A m \in Mails :
                     /\ rows[m].status # "sending" /\ rows[m].task = m
                     /\ rows[m].body = "compressed" => rows[m].status = "sent"}
    /\ recipients = Mails
    /\ archive = [m \in Mails |-> Nothing]
    /\ archivedRecipients = {}
    /\ old = {}
    /\ batch = [w \in Workers |-> NoBatch]
    /\ task = [t \in Tasks |-> IF t \in Mails /\ mails[t].status = "queued" THEN "waits" ELSE "none"]
    /\ retry = [r \in Retries |-> [step |-> "read", mail |-> Nothing]]
    /\ cancel = [c \in Cancels |-> [step |-> "read", mail |-> Nothing, task |-> Nothing]]
    /\ closed = {}

Stored(m) == mails[m] # Nothing
Locked(m) == \E w \in Workers : m \in batch[w].ids

Ages(m) ==
    /\ m \notin old
    /\ old' = old \cup {m}
    /\ UNCHANGED <<mails, recipients, archive, archivedRecipients, batch, others>>

-----------------------------------------------------------------------------
(* The archiver. Its statements read the rows as they were when the         *)
(* statement began; FOR UPDATE locks a row only if it still matches.        *)

Matches(rows, m) == rows[m] # Nothing /\ rows[m].status \in Terminal

InReach(m) == m \in old /\ Matches(mails, m)

BeginBatch(w) ==
    /\ batch[w].step = "begin"
    /\ batch' = [batch EXCEPT ![w] = [step |-> "lock", ids |-> {},
                                      seen |-> [m \in Mails |-> IF InReach(m) THEN mails[m] ELSE Nothing]]]
    /\ UNCHANGED <<tables, others>>

\* A faulty query that does not look at a row again once it has the lock.
EligibleAsSeen(w) ==
    {m \in Mails : Matches(batch[w].seen, m) /\ Stored(m) /\ ~Locked(m)}

\* The rows in reach: those another archiver holds are skipped.
Eligible(w) ==
    {m \in Mails : Matches(batch[w].seen, m) /\ Matches(mails, m) /\ ~Locked(m)}

LockBatch(w) ==
    /\ batch[w].step = "lock"
    /\ \E ids \in SUBSET Eligible(w) :
        /\ Cardinality(ids) <= ArchiveBatchSize
        /\ Cardinality(ids) < ArchiveBatchSize => ids = Eligible(w)
        /\ batch' = [batch EXCEPT ![w] =
              IF ids = {} THEN NoBatch ELSE [@ EXCEPT !.step = "commit", !.ids = ids]]
    /\ UNCHANGED <<tables, others>>

\* A faulty order of the statements: the recipients are deleted before they are copied.
MoveWithoutCopy(w) ==
    LET ids == batch[w].ids IN
    /\ archive' = [m \in Mails |-> IF m \in ids THEN ArchiveRow(batch[w].seen[m]) ELSE archive[m]]
    /\ mails' = [m \in Mails |-> IF m \in ids THEN Nothing ELSE mails[m]]
    /\ recipients' = recipients \ ids
    /\ UNCHANGED <<archivedRecipients, old>>

\* The statements of a batch become visible with its commit.
Move(w) ==
    LET ids == batch[w].ids IN
    /\ archive' = [m \in Mails |-> IF m \in ids THEN ArchiveRow(batch[w].seen[m]) ELSE archive[m]]
    /\ archivedRecipients' = archivedRecipients \cup (recipients \cap ids)
    /\ mails' = [m \in Mails |-> IF m \in ids THEN Nothing ELSE mails[m]]
    /\ recipients' = recipients \ ids
    /\ UNCHANGED old

CommitBatch(w) ==
    /\ batch[w].step = "commit"
    /\ Move(w)
    /\ batch' = [batch EXCEPT ![w] =
          IF Cardinality(batch[w].ids) < ArchiveBatchSize THEN NoBatch ELSE [NoBatch EXCEPT !.step = "begin"]]
    /\ UNCHANGED others

ArchiveStep(w) == BeginBatch(w) \/ LockBatch(w) \/ CommitBatch(w)

-----------------------------------------------------------------------------
(* The requests and the runs. An UPDATE of a locked row waits; of a row that*)
(* is gone, it changes nothing and is no error.                             *)

Write(m, row) ==
    /\ ~Locked(m)
    /\ mails' = IF Stored(m) THEN [mails EXCEPT ![m] = row] ELSE mails
    /\ UNCHANGED <<recipients, archive, archivedRecipients, old, batch>>

SetStatus(m, status) == Write(m, [mails[m] EXCEPT !.status = status])

Close(m) == closed' = IF Stored(m) THEN closed \cup {m} ELSE closed

GoOn(r, step) == retry' = [retry EXCEPT ![r].step = step]

RetryRead(r) ==
    /\ retry[r].step = "read"
    /\ \E m \in Mails :
        /\ Stored(m) /\ mails[m].status = "failed"
        /\ retry' = [retry EXCEPT ![r] = [step |-> "enqueue", mail |-> m]]
    /\ UNCHANGED <<tables, batch, task, cancel, closed>>

RetryEnqueue(r) ==
    /\ retry[r].step = "enqueue"
    /\ task' = [task EXCEPT ![r] = "waits"]
    /\ GoOn(r, "taskId")
    /\ UNCHANGED <<tables, batch, cancel, closed>>

RetryTaskId(r) ==
    /\ retry[r].step = "taskId"
    /\ Write(retry[r].mail, [mails[retry[r].mail] EXCEPT !.task = r])
    /\ GoOn(r, "status")
    /\ UNCHANGED <<task, cancel, closed>>

\* The answer is a success, whether the row was there ("queued") or not ("missed").
RetryStatus(r) ==
    LET m == retry[r].mail IN
    /\ retry[r].step = "status"
    /\ SetStatus(m, "queued")
    /\ GoOn(r, IF Stored(m) THEN "queued" ELSE "missed")
    /\ closed' = IF Stored(m) THEN closed \ {m} ELSE closed
    /\ UNCHANGED <<task, cancel>>

\* An error ends the request; what it did before stays.
RetryFails(r) ==
    /\ retry[r].step \in {"enqueue", "taskId", "status"}
    /\ GoOn(r, "failed")
    /\ UNCHANGED <<tables, batch, task, cancel, closed>>

CancelRead(c) ==
    /\ cancel[c].step = "read"
    /\ \E m \in Mails :
        /\ Stored(m) /\ mails[m].status = "queued"
        /\ cancel' = [cancel EXCEPT ![c] = [step |-> "delete", mail |-> m, task |-> mails[m].task]]
    /\ UNCHANGED <<tables, batch, task, retry, closed>>

\* A task that runs is not deleted; the error is only logged.
CancelDelete(c) ==
    LET t == cancel[c].task IN
    /\ cancel[c].step = "delete"
    /\ task' \in IF task[t] = "waits" THEN {task, [task EXCEPT ![t] = "none"]} ELSE {task}
    /\ cancel' = [cancel EXCEPT ![c].step = "write"]
    /\ UNCHANGED <<tables, batch, retry, closed>>

CancelWrite(c) ==
    /\ cancel[c].step = "write"
    /\ SetStatus(cancel[c].mail, "cancelled")
    /\ Close(cancel[c].mail)
    /\ cancel' = [cancel EXCEPT ![c].step = "done"]
    /\ UNCHANGED <<task, retry>>

-----------------------------------------------------------------------------
(* The runs of a task.                                                      *)

TaskMail(t) == IF t \in Mails THEN t ELSE retry[t].mail

Goes(t, to) == task' = [task EXCEPT ![t] = to]

\* The run of a cancelled mail ends; that of a mail that is gone fails until its last.
Load(t) ==
    LET m == TaskMail(t) IN
    /\ task[t] = "waits"
    /\ \/ Stored(m) /\ mails[m].status # "cancelled" /\ Goes(t, "loaded")
       \/ (Stored(m) => mails[m].status = "cancelled") /\ Goes(t, "none")
    /\ UNCHANGED <<tables, batch, retry, cancel, closed>>

\* MarkSending and, after a temporary failure, the status of a mail to be tried again.
Advance(t, from, status, to) ==
    /\ task[t] = from
    /\ SetStatus(TaskMail(t), status)
    /\ Goes(t, to)
    /\ UNCHANGED <<retry, cancel, closed>>

MarkSent(t) ==
    /\ task[t] = "sending"
    /\ SetStatus(TaskMail(t), "sent")
    /\ Close(TaskMail(t))
    /\ Goes(t, "sent")
    /\ UNCHANGED <<retry, cancel>>

\* failMail and the ErrorHandler, which also writes for a run that could not load its mail.
\* The task may have a run left, for Asynq counts one more.
FailRun(t) ==
    /\ task[t] \in {"waits", "loaded", "sending"}
    /\ SetStatus(TaskMail(t), "failed")
    /\ Close(TaskMail(t))
    /\ \E to \in {"waits", "none"} : Goes(t, to)
    /\ UNCHANGED <<retry, cancel>>

ClearBodies(t) ==
    LET m == TaskMail(t) IN
    /\ task[t] = "sent"
    /\ Write(m, [mails[m] EXCEPT !.body = "compressed"])
    /\ Goes(t, "none")
    /\ UNCHANGED <<retry, cancel, closed>>

\* A run ends without a write: a delay, an error of a query, a shutdown, the death of the
\* process. Asynq runs the task again or has run it often enough.
Interrupted(t) ==
    /\ task[t] \in {"loaded", "sending", "sent"}
    /\ \E to \in {"waits", "none"} : Goes(t, to)
    /\ UNCHANGED <<tables, batch, retry, cancel, closed>>

RunStep(t) ==
    \/ Load(t)
    \/ Advance(t, "loaded", "sending", "sending")
    \/ Advance(t, "sending", "queued", "waits")
    \/ MarkSent(t) \/ FailRun(t) \/ ClearBodies(t) \/ Interrupted(t)

RetryStep(r) ==
    RetryRead(r) \/ RetryEnqueue(r) \/ RetryTaskId(r) \/ RetryStatus(r) \/ RetryFails(r)

CancelStep(c) == CancelRead(c) \/ CancelDelete(c) \/ CancelWrite(c)

-----------------------------------------------------------------------------
(* The task in its worker process.                                          *)

vars == <<processVars, archiveVars>>

TakeArchive(w) ==
    /\ Take(w)
    /\ batch' = [batch EXCEPT ![w].step = "begin"]
    /\ UNCHANGED <<tables, others>>

EndArchive(w) ==
    /\ doing[w] = "task"
    /\ batch[w] = NoBatch
    /\ Return(w)
    /\ UNCHANGED archiveVars

\* An error, or the death of the process: the open transaction is rolled back.
Rollback(w) == batch' = [batch EXCEPT ![w] = NoBatch] /\ UNCHANGED <<tables, others>>

Fault == faults < MaxFaults /\ faults' = faults + 1

FailArchive(w) ==
    /\ batch[w] # NoBatch
    /\ Fault
    /\ ReturnError(w)
    /\ Rollback(w)

\* rows.Err() is not looked at: an INSERT that fails on the way leaves no ids and ends the
\* task like one that found nothing.
FailInsert(w) ==
    /\ batch[w].step = "lock"
    /\ Fault
    /\ doing' = [doing EXCEPT ![w] = "idle"]
    /\ UNCHANGED due
    /\ Rollback(w)

\* The commit succeeds and its answer is lost.
LoseCommit(w) ==
    /\ batch[w].step = "commit"
    /\ Fault
    /\ ReturnError(w)
    /\ Move(w)
    /\ batch' = [batch EXCEPT ![w] = NoBatch]
    /\ UNCHANGED others

WorkerStep(w) ==
    \/ StartWorker(w, "idle") /\ UNCHANGED archiveVars
    \/ TakeArchive(w) \/ EndArchive(w) \/ FailArchive(w) \/ FailInsert(w) \/ LoseCommit(w)
    \/ Stop(w) /\ UNCHANGED archiveVars
    \/ Crash(w) /\ Rollback(w)
    \/ ArchiveStep(w) /\ UNCHANGED processVars

Next ==
    \/ \E w \in Workers : WorkerStep(w)
    \/ Schedule /\ UNCHANGED archiveVars
    \/ (\E m \in Mails : Ages(m)) /\ UNCHANGED processVars
    \/ (\E t \in Tasks : RunStep(t)) /\ UNCHANGED processVars
    \/ (\E r \in Retries : RetryStep(r)) /\ UNCHANGED processVars
    \/ (\E c \in Cancels : CancelStep(c)) /\ UNCHANGED processVars

Init == ProcessesInit /\ ArchiveInit

Spec == Init /\ [][Next]_vars

-----------------------------------------------------------------------------
(* Properties.                                                              *)

\* However archivers, retries, runs and crashes meet: a mail is in one of the two tables,
\* and its recipients are where it is. What is in its columns is ArchivedAsItWas.
MovedWhole ==
    /\ \A m \in Mails : Stored(m) <=> archive[m] = Nothing
    /\ recipients = {m \in Mails : Stored(m)}
    /\ archivedRecipients = Mails \ recipients

\* The retry of a task has not put its mail back into the queue: it is on its way to
\* do so, it failed, or it came too late.
NotRelaunched(t) == t \in Retries /\ retry[t].step \in {"taskId", "status", "missed", "failed"}

\* A mail may be archived while a task of it waits or runs, for the archiver looks at the
\* row alone. But then a run or a cancellation has closed it since it was queued last, or
\* the task is that of a retry that has not said queued: a mail that was put into the
\* queue is not archived before, however long its request and the archiver have waited
\* for each other.
NothingPendingLeaves ==
    \A t \in Tasks : task[t] # "none" /\ ~Stored(TaskMail(t)) =>
        TaskMail(t) \in closed \/ NotRelaunched(t)

\* Retry sends a failed mail again by putting it back into the queue, says its comment:
\* when it has answered, the row is in the queue, or the mail has been worked off since.
RetryRelaunches == \A r \in Retries : retry[r].step = "missed" => retry[r].mail \in closed

\* The inductive invariant. Every variable keeps its shape ...
TypeOK ==
    /\ mails \in [Mails -> Rows \cup {Nothing}]
    /\ old \subseteq Mails
    /\ batch \in [Workers -> [step : {"idle", "begin", "lock", "commit"},
                              seen : [Mails -> Rows \cup {Nothing}] \cup {<<>>}, ids : SUBSET Mails]]

\* ... and what an archiver has locked is still there, finished, and nobody else's.
LocksHold ==
    /\ \A w \in Workers :
        /\ batch[w].step = "lock" => batch[w].seen \in [Mails -> Rows \cup {Nothing}]
        /\ \A m \in batch[w].ids :
             /\ batch[w].step = "commit" /\ Matches(mails, m)
             /\ batch[w].seen \in [Mails -> Rows \cup {Nothing}] /\ Matches(batch[w].seen, m)
    /\ \A v, w \in Workers : v # w => batch[v].ids \cap batch[w].ids = {}

TablesSound == TypeOK /\ LocksHold /\ MovedWhole

\* What the requests and the tasks are about ...
RequestsSound ==
    /\ task \in [Tasks -> {"none", "waits", "loaded", "sending", "sent"}]
    /\ retry \in [Retries -> [step : {"read", "enqueue", "taskId", "status", "queued", "missed", "failed"},
                              mail : Mails \cup {Nothing}]]
    /\ \A r \in Retries : retry[r].step \in {"read", "enqueue"} => task[r] = "none"
    /\ \A r \in Retries : retry[r].step # "read" => retry[r].mail \in Mails
    /\ cancel \in [Cancels -> [step : {"read", "delete", "write", "done"},
                               mail : Mails \cup {Nothing}, task : Tasks \cup {Nothing}]]
    /\ \A c \in Cancels : cancel[c].step # "read" => cancel[c].mail \in Mails /\ cancel[c].task \in Tasks

\* ... and why a row that is closed, or gone, has a task.
PendingSound ==
    \A t \in Tasks :
        task[t] # "none" /\ (Stored(TaskMail(t)) => mails[TaskMail(t)].status \in Terminal) =>
            TaskMail(t) \in closed \/ NotRelaunched(t)

\* Only a process that works on the task has a transaction.
OnlyTasksArchive ==
    /\ doing \in [Workers -> {"down", "idle", "task"}]
    /\ \A w \in Workers : doing[w] # "task" => batch[w] = NoBatch

IInv == TablesSound /\ RequestsSound /\ PendingSound /\ OnlyTasksArchive

\* The archive holds a mail as it was: the doc comment of ArchiveOldMails says the mails
\* are moved.
ArchivedAsItWas ==
    [][\A m \in Mails : Stored(m) /\ mails'[m] = Nothing => archive'[m] = mails[m]]_archiveVars
=============================================================================
