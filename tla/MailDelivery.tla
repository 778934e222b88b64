---------------------------- MODULE MailDelivery ----------------------------
(***************************************************************************)
(* The life of a mail in MailHive: the API requests that create, cancel    *)
(* and retry it (internal/service/mail_service.go), the rows of the mails  *)
(* table they write (internal/adapter/postgres/mail_repo.go), the Asynq    *)
(* tasks that carry it (external) and the worker that sends it             *)
(* (internal/worker/mail_handler.go and server.go).                        *)
(*                                                                         *)
(* Every database, Redis and SMTP call of a request or of a worker is a    *)
(* step of its own, because nothing serialises them: each UPDATE is        *)
(* unconditional and no transaction spans two calls.                       *)
(***************************************************************************)
EXTENDS Integers, FiniteSets

CONSTANTS
    Mails,          \* mail identifiers
    Tasks,          \* Asynq task identifiers: bounds the number of enqueues
    Ops,            \* API requests being served at the same time
    Workers,        \* goroutines of the Asynq server (Concurrency)
    NoTask, NoMail, \* absent task_id, mail of a task that does not exist
    MaxRetry,       \* asynq.MaxRetry(5)
    BatchChunkSize, \* rows per UPDATE batch of SetQueuedBatch
    MaxFaults       \* bounds crashes, shutdowns and failed calls whose error
                    \* the code swallows

ASSUME MaxRetryAssumption == MaxRetry \in Nat \ {0}
ASSUME MaxFaultsAssumption == MaxFaults \in Nat
ASSUME NoTaskAssumption == NoTask \notin Tasks
ASSUME NoMailAssumption == NoMail \notin Mails
ASSUME ChunkAssumption == BatchChunkSize \in Nat \ {0}

VARIABLES
    mail,      \* the mails table
    task,      \* the Asynq tasks in Redis
    op,        \* the API requests in progress
    run,       \* the worker goroutines
    faults,    \* faults so far
    tries,     \* observation: MarkSending calls made by the runs of a task
    dels,      \* observation: messages the SMTP server accepted for a task
    requeued,  \* observation: times a shutdown put a task back
    failures,  \* observation: runs of a task that ended in an error, a delay
               \* aside, or with their worker
    unsendable \* observation: a run found the task unsendable

obs == <<tries, dels, requeued, failures, unsendable>>
vars == <<mail, task, op, run, faults, tries, dels, requeued, failures, unsendable>>

Status == {"none", "pending", "queued", "sending", "sent", "failed", "cancelled"}

\* A row. sentAt: sent_at is set; body: the text and HTML bodies are still there.
MailRow == [status : Status, taskId : Tasks \cup {NoTask}, attempts : Nat,
            sentAt : BOOLEAN, body : BOOLEAN]

\* "pending" stands for the pending and scheduled sets of a queue, "gone" for
\* a task that was acknowledged (no Retention) and "deleted" for DeleteTask.
TaskRec == [state : {"free", "pending", "active", "retry", "archived", "gone", "deleted"},
            mail : Mails \cup {NoMail}, retried : 0..MaxRetry]

OpRec == [pc : {"idle", "enqueue", "cancelDelete", "cancelUpdate",
                "retryEnqueue", "retryTaskId", "retryStatus"},
          mails : SUBSET Mails, ids : [Mails -> Tasks \cup {NoTask}]]

\* What HandleMailSend returns: nil after a send, nil for a cancelled mail, an
\* error, ErrRateLimited or ErrCircuitOpen, an error wrapping SkipRetry.
Results == {"none", "sent", "cancelled", "error", "delayed", "skip"}

RunRec == [pc : {"idle", "load", "prepare", "mark", "send", "sendFailed",
                 "markSent", "clear", "onError", "settle"},
           task : Tasks \cup {NoTask}, result : Results]

IdleOp == [pc |-> "idle", mails |-> {}, ids |-> [m \in Mails |-> NoTask]]
IdleRun == [pc |-> "idle", task |-> NoTask, result |-> "none"]

Init ==
    /\ mail = [m \in Mails |-> [status |-> "none", taskId |-> NoTask, attempts |-> 0,
                                sentAt |-> FALSE, body |-> TRUE]]
    /\ task = [t \in Tasks |-> [state |-> "free", mail |-> NoMail, retried |-> 0]]
    /\ op = [o \in Ops |-> IdleOp]
    /\ run = [w \in Workers |-> IdleRun]
    /\ faults = 0
    /\ tries = [t \in Tasks |-> 0]
    /\ dels = [t \in Tasks |-> 0]
    /\ requeued = [t \in Tasks |-> 0]
    /\ failures = [t \in Tasks |-> 0]
    /\ unsendable = [t \in Tasks |-> FALSE]

-----------------------------------------------------------------------------
(* The writes of the mails repository, each one UPDATE ... WHERE id = $1.   *)

UpdateStatus(m, s) == mail' = [mail EXCEPT ![m].status = s]

\* CreateWithRecipients and CreateBatchWithRecipients: one transaction.
InsertRows(ms) ==
    /\ \A m \in ms : mail[m].status = "none"
    /\ mail' = [m \in Mails |-> IF m \in ms THEN [mail[m] EXCEPT !.status = "pending"]
                                            ELSE mail[m]]

Fault == faults < MaxFaults /\ faults' = faults + 1

\* A call whose error the caller only logs or ignores.
SwallowedError == Fault /\ UNCHANGED mail

Enqueue(m, t) ==
    /\ task[t].state = "free"
    /\ task' = [task EXCEPT ![t] = [state |-> "pending", mail |-> m, retried |-> 0]]

-----------------------------------------------------------------------------
(* API requests.                                                            *)

\* Create up to its insert; what it validates and refuses before has no effect.
\* A grouped mail is the singleton case, a campaign (individuel) any other.
CreateInsert(o, ms) ==
    /\ op[o].pc = "idle"
    /\ ms # {}
    /\ InsertRows(ms)
    /\ op' = [op EXCEPT ![o] = [IdleOp EXCEPT !.pc = "enqueue", !.mails = ms]]
    /\ UNCHANGED <<task, run, faults, obs>>

\* One goroutine of phase 3 (or the single enqueue of creerMail).
CreateEnqueue(o, m, t) ==
    /\ op[o].pc = "enqueue"
    /\ m \in op[o].mails
    /\ op[o].ids[m] = NoTask
    /\ Enqueue(m, t)
    /\ op' = [op EXCEPT ![o].ids[m] = t]
    /\ UNCHANGED <<mail, run, faults, obs>>

\* A faulty chunk that gives every row the task of one of its mails.
SetQueuedSharingTask(o, ms) ==
    /\ op[o].pc = "enqueue"
    /\ ms # {} /\ ms = op[o].mails
    /\ \A m \in ms : op[o].ids[m] # NoTask
    /\ \E k \in ms :
         mail' = [m \in Mails |->
                    IF m \in ms THEN [mail[m] EXCEPT !.status = "queued", !.taskId = op[o].ids[k]]
                                ELSE mail[m]]
    /\ op' = [op EXCEPT ![o] = IdleOp]
    /\ UNCHANGED <<task, run, faults, obs>>

\* SetQueued, or one chunk of SetQueuedBatch in the map's random order.
CreateSetQueued(o, ms) ==
    /\ op[o].pc = "enqueue"
    /\ ms # {} /\ ms \subseteq op[o].mails
    /\ \A m \in op[o].mails : op[o].ids[m] # NoTask
    /\ \/ ms = op[o].mails /\ Cardinality(ms) <= BatchChunkSize
       \/ Cardinality(ms) = BatchChunkSize
    /\ mail' = [m \in Mails |->
                  IF m \in ms THEN [mail[m] EXCEPT !.status = "queued", !.taskId = op[o].ids[m]]
                              ELSE mail[m]]
    /\ op' = [op EXCEPT ![o] = IF ms = op[o].mails THEN IdleOp
                               ELSE [op[o] EXCEPT !.mails = @ \ ms]]
    /\ UNCHANGED <<task, run, faults, obs>>

CancelRead(o, m) ==
    /\ op[o].pc = "idle"
    /\ mail[m].status \in {"pending", "queued"}
    /\ op' = [op EXCEPT ![o] =
                [pc |-> IF mail[m].taskId = NoTask THEN "cancelUpdate" ELSE "cancelDelete",
                 mails |-> {m},
                 ids |-> [IdleOp.ids EXCEPT ![m] = mail[m].taskId]]]
    /\ UNCHANGED <<mail, task, run, faults, obs>>

\* The inspector refuses to delete an active task, a missing one is not found;
\* the error is only logged.
CancelDelete(o, m) ==
    /\ op[o].pc = "cancelDelete"
    /\ m \in op[o].mails
    /\ op' = [op EXCEPT ![o].pc = "cancelUpdate"]
    /\ LET t == op[o].ids[m]
           deletable == task[t].state \in {"pending", "retry", "archived"}
       IN \/ deletable /\ task' = [task EXCEPT ![t].state = "deleted"] /\ UNCHANGED faults
          \/ ~deletable /\ UNCHANGED <<task, faults>>
          \/ deletable /\ Fault /\ UNCHANGED task
    /\ UNCHANGED <<mail, run, obs>>

CancelUpdate(o, m) ==
    /\ op[o].pc = "cancelUpdate"
    /\ m \in op[o].mails
    /\ UpdateStatus(m, "cancelled")
    /\ op' = [op EXCEPT ![o] = IdleOp]
    /\ UNCHANGED <<task, run, faults, obs>>

RetryRead(o, m) ==
    /\ op[o].pc = "idle"
    /\ mail[m].status = "failed"
    /\ op' = [op EXCEPT ![o] = [IdleOp EXCEPT !.pc = "retryEnqueue", !.mails = {m}]]
    /\ UNCHANGED <<mail, task, run, faults, obs>>

RetryEnqueue(o, m, t) ==
    /\ op[o].pc = "retryEnqueue"
    /\ m \in op[o].mails
    /\ Enqueue(m, t)
    /\ op' = [op EXCEPT ![o].pc = "retryTaskId", ![o].ids[m] = t]
    /\ UNCHANGED <<mail, run, faults, obs>>

RetryTaskId(o, m) ==
    /\ op[o].pc = "retryTaskId"
    /\ m \in op[o].mails
    /\ mail' = [mail EXCEPT ![m].taskId = op[o].ids[m]]
    /\ op' = [op EXCEPT ![o].pc = "retryStatus"]
    /\ UNCHANGED <<task, run, faults, obs>>

RetryStatus(o, m) ==
    /\ op[o].pc = "retryStatus"
    /\ m \in op[o].mails
    /\ UpdateStatus(m, "queued")
    /\ op' = [op EXCEPT ![o] = IdleOp]
    /\ UNCHANGED <<task, run, faults, obs>>

\* A call of the request returns an error, the client goes away or the API
\* process dies: the steps done so far stay. A campaign whose enqueueErr is
\* set returns before phase 4, so it ends here too, whichever of its
\* goroutines had already enqueued.
RequestFails(o) ==
    /\ op[o].pc # "idle"
    /\ op' = [op EXCEPT ![o] = IdleOp]
    /\ UNCHANGED <<mail, task, run, faults, obs>>

-----------------------------------------------------------------------------
(* HandleMailSend.                                                          *)

RunMail(w) == task[run[w].task].mail
Retried(w) == task[run[w].task].retried

\* Asynq hands a pending, scheduled or retry task whose time has come.
Dequeue(w, t) ==
    /\ run[w].pc = "idle"
    /\ task[t].state \in {"pending", "retry"}
    /\ task' = [task EXCEPT ![t].state = "active"]
    /\ run' = [run EXCEPT ![w] = [pc |-> "load", task |-> t, result |-> "none"]]
    /\ UNCHANGED <<mail, op, faults, obs>>

Goto(w, pc) == run' = [run EXCEPT ![w].pc = pc]
Return(w, pc, res) == run' = [run EXCEPT ![w].pc = pc, ![w].result = res]

\* Faulty loads: the cancelled status forgotten, or reported as an error that
\* does not count.
LoadWithoutCheck(w) ==
    /\ run[w].pc = "load"
    /\ Goto(w, "prepare")
    /\ UNCHANGED <<mail, task, op, faults, obs>>

LoadDelayingCancelled(w) ==
    /\ run[w].pc = "load"
    /\ \/ mail[RunMail(w)].status = "cancelled" /\ Return(w, "onError", "delayed")
       \/ mail[RunMail(w)].status # "cancelled" /\ Goto(w, "prepare")
    /\ UNCHANGED <<mail, task, op, faults, obs>>

\* GetByID. Only a cancelled mail stops here: sent and failed ones go on.
Load(w) ==
    /\ run[w].pc = "load"
    /\ \/ mail[RunMail(w)].status = "cancelled" /\ Return(w, "settle", "cancelled")
       \/ mail[RunMail(w)].status # "cancelled" /\ Goto(w, "prepare")
    /\ UNCHANGED <<mail, task, op, faults, obs>>

\* The database, Redis or the blob store answers with an error before the
\* send (lines 88-110, 183-197) or MarkSending does (234-236).
CallFails(w) ==
    /\ run[w].pc \in {"load", "prepare", "mark", "markSent"}
    /\ Return(w, "onError", "error")
    /\ UNCHANGED <<mail, task, op, faults, obs>>

\* Recipients, attachments, template, tenant, rate limiter, circuit breaker and
\* SMTP configuration: what they hold is not modelled here, only where they lead.
PrepareReady(w) ==
    /\ run[w].pc = "prepare"
    /\ Goto(w, "mark")
    /\ UNCHANGED <<mail, task, op, faults, obs>>

\* ErrRateLimited or ErrCircuitOpen.
PrepareDelayed(w) ==
    /\ run[w].pc = "prepare"
    /\ Return(w, "onError", "delayed")
    /\ UNCHANGED <<mail, task, op, faults, obs>>

\* failMail then SkipRetry: template, SMTP configuration or password unusable.
PrepareUnsendable(w) ==
    /\ run[w].pc = "prepare"
    /\ \/ UpdateStatus(RunMail(w), "failed") /\ UNCHANGED faults
       \/ SwallowedError
    /\ unsendable' = [unsendable EXCEPT ![run[w].task] = TRUE]
    /\ Return(w, "onError", "skip")
    /\ UNCHANGED <<task, op, tries, dels, requeued, failures>>

MarkSending(w) ==
    /\ run[w].pc = "mark"
    /\ mail' = [mail EXCEPT ![RunMail(w)].status = "sending",
                            ![RunMail(w)].attempts = @ + 1]
    /\ tries' = [tries EXCEPT ![run[w].task] = @ + 1]
    /\ Goto(w, "send")
    /\ UNCHANGED <<task, op, faults, dels, requeued, failures, unsendable>>

Accept(w) == dels' = [dels EXCEPT ![run[w].task] = @ + 1]

SendSucceeds(w) ==
    /\ run[w].pc = "send"
    /\ Accept(w)
    /\ Goto(w, "markSent")
    /\ UNCHANGED <<mail, task, op, faults, tries, requeued, failures, unsendable>>

\* A faulty handler that goes on after an SMTP error.
SendErrsIgnored(w) ==
    /\ run[w].pc = "send"
    /\ Goto(w, "markSent")
    /\ UNCHANGED <<mail, task, op, faults, obs>>

\* sender.Send wraps every error the same way, permanent cause or not, and a
\* timeout may come after the server accepted the message.
SendErrs(w) ==
    /\ run[w].pc = "send"
    /\ Return(w, "sendFailed", "error")
    /\ Accept(w) \/ UNCHANGED dels
    /\ UNCHANGED <<mail, task, op, faults, tries, requeued, failures, unsendable>>

LastRetry(w) == Retried(w) >= MaxRetry - 1

\* A faulty failure branch that purges the bodies too.
AfterSendErrorPurging(w) ==
    /\ run[w].pc = "sendFailed"
    /\ mail' = [mail EXCEPT ![RunMail(w)].status = "failed", ![RunMail(w)].body = FALSE]
    /\ Goto(w, "onError")
    /\ UNCHANGED <<task, op, faults, obs>>

\* A faulty handler that returns nil once the last retry has failed.
AfterSendErrorForgiven(w) ==
    /\ run[w].pc = "sendFailed"
    /\ UpdateStatus(RunMail(w), IF LastRetry(w) THEN "failed" ELSE "pending")
    /\ IF LastRetry(w) THEN Return(w, "settle", "sent") ELSE Goto(w, "onError")
    /\ UNCHANGED <<task, op, faults, obs>>

AfterSendError(w) ==
    /\ run[w].pc = "sendFailed"
    /\ \/ UpdateStatus(RunMail(w), IF LastRetry(w) THEN "failed" ELSE "pending")
          /\ UNCHANGED faults
       \/ SwallowedError
    /\ Goto(w, "onError")
    /\ UNCHANGED <<task, op, obs>>

\* A faulty handler that only logs the error of MarkSent.
MarkSentLogged(w) ==
    /\ run[w].pc = "markSent"
    /\ \/ mail' = [mail EXCEPT ![RunMail(w)].status = "sent", ![RunMail(w)].sentAt = TRUE] /\ UNCHANGED faults
       \/ SwallowedError
    /\ Goto(w, "clear")
    /\ UNCHANGED <<task, op, obs>>

MarkSent(w) ==
    /\ run[w].pc = "markSent"
    /\ mail' = [mail EXCEPT ![RunMail(w)].status = "sent", ![RunMail(w)].sentAt = TRUE]
    /\ Goto(w, "clear")
    /\ UNCHANGED <<task, op, faults, obs>>

ClearBodies(w) ==
    /\ run[w].pc = "clear"
    /\ \/ mail' = [mail EXCEPT ![RunMail(w)].body = FALSE] /\ UNCHANGED faults
       \/ SwallowedError
    /\ Return(w, "settle", "sent")
    /\ UNCHANGED <<task, op, obs>>

\* The ErrorHandler of NewServer: it looks at the retry count, not at the error.
ErrorHandler(w) ==
    /\ run[w].pc = "onError"
    /\ \/ LastRetry(w) /\ UpdateStatus(RunMail(w), "failed") /\ UNCHANGED faults
       \/ LastRetry(w) /\ SwallowedError
       \/ ~LastRetry(w) /\ UNCHANGED <<mail, faults>>
    /\ Goto(w, "settle")
    /\ UNCHANGED <<task, op, obs>>

\* Faulty versions of IsFailure: every error counts, or no temporary one.
EverythingCounts(res) == TRUE
NothingTemporaryCounts(res) == res \notin {"delayed", "error"}

\* IsFailure: a delayed mail does not use up a retry.
IsFailure(res) == res # "delayed"

\* A faulty end that compares with > instead of >=.
OneRetryTooMany(tr, res) ==
    IF res \in {"sent", "cancelled"} THEN [tr EXCEPT !.state = "gone"]
    ELSE IF IsFailure(res) /\ (res = "skip" \/ tr.retried > MaxRetry)
    THEN [tr EXCEPT !.state = "archived"]
    ELSE [tr EXCEPT !.state = "retry", !.retried = IF IsFailure(res) THEN @ + 1 ELSE @]

\* Asynq acknowledges, archives or reschedules the task.
AfterReturn(tr, res) ==
    IF res \in {"sent", "cancelled"} THEN [tr EXCEPT !.state = "gone"]
    ELSE IF ~IsFailure(res) THEN [tr EXCEPT !.state = "retry"]
    ELSE IF res = "skip" \/ tr.retried >= MaxRetry THEN [tr EXCEPT !.state = "archived"]
    ELSE [tr EXCEPT !.state = "retry", !.retried = @ + 1]

CountFailure(t) == failures' = [failures EXCEPT ![t] = @ + 1]

Settle(w) ==
    /\ run[w].pc = "settle"
    /\ task' = [task EXCEPT ![run[w].task] = AfterReturn(@, run[w].result)]
    /\ run' = [run EXCEPT ![w] = IdleRun]
    /\ IF run[w].result \in {"sent", "cancelled", "delayed"}
         THEN UNCHANGED failures ELSE CountFailure(run[w].task)
    /\ UNCHANGED <<mail, op, faults, tries, dels, requeued, unsendable>>

\* The worker process dies: Redis still lists the task as active.
WorkerCrash(w) ==
    /\ run[w].pc # "idle"
    /\ Fault
    /\ run' = [run EXCEPT ![w] = IdleRun]
    /\ UNCHANGED <<mail, task, op, obs>>

\* srv.Shutdown aborts the run and puts the task back without counting a retry.
WorkerShutdown(w) ==
    /\ run[w].pc # "idle"
    /\ Fault
    /\ task' = [task EXCEPT ![run[w].task].state = "pending"]
    /\ requeued' = [requeued EXCEPT ![run[w].task] = @ + 1]
    /\ run' = [run EXCEPT ![w] = IdleRun]
    /\ UNCHANGED <<mail, op, tries, dels, failures, unsendable>>

\* A faulty recoverer that leaves the exhausted tasks alone.
RecoverRetriesOnly(t) ==
    /\ task[t].state = "active" /\ task[t].retried < MaxRetry
    /\ \A w \in Workers : run[w].task # t
    /\ task' = [task EXCEPT ![t].state = "retry", ![t].retried = @ + 1]
    /\ CountFailure(t)
    /\ UNCHANGED <<mail, op, run, faults, tries, dels, requeued, unsendable>>

\* The recoverer finds an active task whose lease has expired. It counts a
\* failure and never calls the ErrorHandler.
Recover(t) ==
    /\ task[t].state = "active"
    /\ \A w \in Workers : run[w].task # t
    /\ \/ task[t].retried >= MaxRetry /\ task' = [task EXCEPT ![t].state = "archived"]
       \/ task[t].retried < MaxRetry
          /\ task' = [task EXCEPT ![t].state = "retry", ![t].retried = @ + 1]
    /\ CountFailure(t)
    /\ UNCHANGED <<mail, op, run, faults, tries, dels, requeued, unsendable>>

-----------------------------------------------------------------------------
RequestStep(o) ==
    \/ \E ms \in SUBSET Mails : CreateInsert(o, ms) \/ CreateSetQueued(o, ms)
    \/ \E m \in Mails, t \in Tasks : CreateEnqueue(o, m, t) \/ RetryEnqueue(o, m, t)
    \/ \E m \in Mails : \/ CancelRead(o, m) \/ CancelDelete(o, m) \/ CancelUpdate(o, m)
                        \/ RetryRead(o, m) \/ RetryTaskId(o, m) \/ RetryStatus(o, m)

\* A step of the handler itself: what an alive worker keeps doing.
HandlerStep(w) ==
    \/ Load(w) \/ CallFails(w)
    \/ PrepareReady(w) \/ PrepareDelayed(w) \/ PrepareUnsendable(w)
    \/ MarkSending(w) \/ SendSucceeds(w) \/ SendErrs(w) \/ AfterSendError(w)
    \/ MarkSent(w) \/ ClearBodies(w) \/ ErrorHandler(w) \/ Settle(w)

Next ==
    \/ \E o \in Ops : RequestStep(o) \/ RequestFails(o)
    \/ \E w \in Workers, t \in Tasks : Dequeue(w, t)
    \/ \E w \in Workers : HandlerStep(w) \/ WorkerCrash(w) \/ WorkerShutdown(w)
    \/ \E t \in Tasks : Recover(t)

Spec == Init /\ [][Next]_vars

\* A running handler goes on (its calls have timeouts), the recoverer scans for
\* expired leases every minute and Asynq polls its queues by weight, in order
\* of arrival in each, so a task that keeps being due is handed out. Requests
\* that have begun go on.
Fairness ==
    /\ \A w \in Workers : WF_vars(HandlerStep(w))
    /\ \A t \in Tasks : WF_vars(Recover(t)) /\ SF_vars(\E w \in Workers : Dequeue(w, t))
    /\ \A o \in Ops : WF_vars(op[o].pc # "idle" /\ RequestStep(o))

FairSpec == Spec /\ Fairness
-----------------------------------------------------------------------------
(* Properties.                                                              *)

\* Every variable keeps its shape.
TypeOK ==
    /\ mail \in [Mails -> MailRow]
    /\ task \in [Tasks -> TaskRec]
    /\ op \in [Ops -> OpRec]
    /\ run \in [Workers -> RunRec]
    /\ faults \in 0..MaxFaults
    /\ tries \in [Tasks -> Nat] /\ dels \in [Tasks -> Nat] /\ requeued \in [Tasks -> Nat]
    /\ failures \in [Tasks -> Nat] /\ unsendable \in [Tasks -> BOOLEAN]

Delivered(m) == \E t \in Tasks : task[t].mail = m /\ dels[t] > 0

\* A task never puts its mail on the wire more often than its MaxRetry + 1 runs
\* and the runs a shutdown cut short allow, whatever crashes, delays (which
\* reschedule without counting) and recoveries happen: what returns without
\* counting must return before MarkSending.
AttemptsBounded ==
    \A t \in Tasks : dels[t] <= tries[t] /\ tries[t] <= MaxRetry + 1 + requeued[t]

\* A row that says sent, or that has a sent_at, belongs to a mail the SMTP
\* server accepted at least once.
SentMeansDelivered ==
    \A m \in Mails : (mail[m].status = "sent" \/ mail[m].sentAt) => Delivered(m)

\* ClearBodies empties the columns a run sends from (with store_body a compressed
\* copy stays for reading): it never reaches a mail that was not delivered, so a
\* retry still has something to send.
BodyKeptUntilDelivered ==
    \A m \in Mails : ~mail[m].body => Delivered(m)

\* A row that says queued names a task, and the task a row names carries that
\* mail: Cancel, which deletes the task by this id, never deletes another mail's.
QueuedHasOwnTask ==
    \A m \in Mails :
        /\ mail[m].status = "queued" => mail[m].taskId # NoTask
        /\ mail[m].taskId # NoTask => task[mail[m].taskId].mail = m

Spent(t) == failures[t] >= MaxRetry - 1 \/ unsendable[t]

\* A mail that says failed has a task a run found unsendable, or one of which MaxRetry - 1
\* runs or more have failed, by an error that is no delay or by the death of their worker:
\* rate limits and open breakers, which return through the same ErrorHandler, do not bring
\* a mail there, however often they strike and whatever crashes and shutdowns come between.
\* Once it is there the next of them does mark it failed, which the comment of IsFailure
\* (server.go:34-36) would not have.
FailedIsSpent ==
    \A m \in Mails : mail[m].status = "failed" => \E t \in Tasks : task[t].mail = m /\ Spent(t)

\* Asynq forgets a task (acknowledged, no Retention) only after it delivered its
\* mail and recorded sent_at, or for a run that read a cancelled row: an error
\* always leaves the task in retry or archived, where it can be seen.
NoSilentLoss ==
    [][\A t \in Tasks : task[t].state # "gone" /\ task'[t].state = "gone" =>
          \/ dels[t] > 0 /\ mail[task[t].mail].sentAt
          \/ \E w \in Workers : run[w].task = t /\ run[w].result = "cancelled"]_vars

\* No request works on m, and no run holds m between its Load and its writes.
CancelledAndQuiet(m) ==
    /\ mail[m].status = "cancelled"
    /\ \A o \in Ops : m \notin op[o].mails
    /\ \A w \in Workers : run[w].pc \notin {"idle", "load", "onError", "settle"} => RunMail(w) # m

\* Once the requests and the runs that overlapped the cancellation are over, a
\* cancelled mail stays cancelled and no run gets past Load with it; the one
\* write left is the ErrorHandler's failed, after a Load that could not read it.
CancelledStaysQuiet ==
    [][\A m \in Mails :
          CancelledAndQuiet(m) => CancelledAndQuiet(m)' \/ mail'[m].status = "failed"]_vars

-----------------------------------------------------------------------------
(* The contract: a task is an order to send its mail.                       *)

FoundCancelled(t) == \E w \in Workers : run[w].task = t /\ run[w].result = "cancelled"

StageOf ==
    [free |-> "free", pending |-> "due", retry |-> "due", active |-> "taken",
     archived |-> "parked", gone |-> "closed", deleted |-> "withdrawn"]

Stage(t) ==
    IF task[t].state = "active" /\ FoundCancelled(t) THEN "calledOff" ELSE StageOf[task[t].state]

\* The mails a request is cancelling.
Cancels(rec) == IF rec.pc \in {"cancelDelete", "cancelUpdate"} THEN rec.mails ELSE {}

TaskStages == [t \in Tasks |-> Stage(t)]
Letters == [t \in Tasks |-> task[t].mail]
RecordedMails == {m \in Mails : mail[m].sentAt}
AskedMails == {m \in Mails : \E o \in Ops : m \in Cancels(op[o])}
CancelledMails == {m \in Mails : mail[m].status = "cancelled"}

Contract == INSTANCE DeliveryContract WITH
    Orders <- Tasks, Limit <- MaxRetry + 1, stage <- TaskStages, letter <- Letters,
    accepted <- dels, breaks <- requeued, recorded <- RecordedMails, asked <- AskedMails,
    cancelled <- CancelledMails

\* Requests, workers and the queue keep the contract between them, although none of
\* their calls is tied to the next: a task in the hands of a worker disappears only once
\* its mail was accepted and has its sent_at or was found cancelled, any other only by a
\* request that cancels its own mail; sent_at is set after an acceptance and never
\* unset; and a task is accepted at most MaxRetry + 1 times plus once per shutdown.
DeliversAsPromised == Contract!CSpec

\* Asynq's recoverer and the handler's returns never leave a task active for
\* ever, whatever crashed.
ActiveTaskSettles ==
    \A t \in Tasks : task[t].state = "active" ~> task[t].state # "active"

\* The tasks of a mail that stays cancelled, also those DeleteTask could not
\* remove, all leave the queue without another manual action.
CancelledDrains ==
    \A m \in Mails : <>[](mail[m].status = "cancelled") =>
        <>[](\A t \in Tasks : task[t].mail = m =>
                task[t].state \in {"archived", "gone", "deleted"})

(* What the proofs of these properties need besides (see MailDeliveryProofs). *)

\* A busy worker holds an active task, and no other worker holds it.
RunsHoldTasks ==
    /\ \A w \in Workers :
         \/ run[w] = IdleRun
         \/ run[w].pc # "idle" /\ run[w].task \in Tasks /\ task[run[w].task].state = "active"
    /\ \A v, w \in Workers : run[v].task = run[w].task /\ run[v].task # NoTask => v = w

\* A task nobody enqueued yet has no history.
FreeIsNew ==
    \A t \in Tasks :
        IF task[t].state = "free"
        THEN task[t].mail = NoMail /\ tries[t] = 0 /\ dels[t] = 0
        ELSE task[t].mail \in Mails

\* No run of t has called MarkSending since its retry count last moved.
NotYetTried(t) ==
    \/ task[t].state \in {"free", "pending", "retry"}
    \/ \E w \in Workers : /\ run[w].task = t
                          /\ run[w].pc \in {"load", "prepare", "mark"} \/ run[w].result = "delayed"

AttemptsCounted ==
    /\ \A w \in Workers :
         /\ run[w].pc \in {"load", "prepare", "mark", "send", "markSent", "clear"}
              => run[w].result = "none"
         /\ run[w].pc = "send" => dels[run[w].task] < tries[run[w].task]
    /\ \A t \in Tasks :
         /\ dels[t] <= tries[t]
         /\ tries[t] <= task[t].retried + requeued[t] + 1
         /\ NotYetTried(t) => tries[t] <= task[t].retried + requeued[t]

\* Asynq counts no more retries than runs have failed.
RetriesAreFailures == \A t \in Tasks : task[t].retried <= failures[t]

\* What a run that got an answer from the SMTP server, and a request about to
\* write a row, already know.
RowsFollowTasks ==
    /\ SentMeansDelivered /\ BodyKeptUntilDelivered /\ QueuedHasOwnTask
    /\ \A w \in Workers : run[w].pc \in {"markSent", "clear"} => dels[run[w].task] > 0
    /\ \A o \in Ops : \A m \in Mails :
         /\ op[o].ids[m] # NoTask => task[op[o].ids[m]].mail = m
         /\ m \in op[o].mails => /\ op[o].pc \notin {"idle", "enqueue"} => op[o].mails = {m}
                                 /\ op[o].pc = "retryTaskId" => op[o].ids[m] # NoTask
                                 /\ op[o].pc = "cancelDelete" => op[o].ids[m] # NoTask
                                 /\ op[o].pc = "retryStatus" => mail[m].taskId # NoTask

\* A run past MarkSent, or about to return nil for a send, has written sent_at.
ReturnsAreRecorded ==
    \A w \in Workers :
        run[w].pc = "clear" \/ run[w].result = "sent" =>
            run[w].task \in Tasks /\ dels[run[w].task] > 0 /\ mail[RunMail(w)].sentAt

\* The inductive invariant.
IInv ==
    /\ TypeOK /\ RunsHoldTasks /\ FreeIsNew /\ AttemptsCounted /\ RowsFollowTasks
    /\ RetriesAreFailures
=============================================================================
