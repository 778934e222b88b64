------------------------- MODULE MailDeliveryProofs -------------------------
(* Theorems of MailDelivery, for every set of mails, tasks, requests and     *)
(* workers and every MaxRetry, chunk size and number of faults.              *)
EXTENDS MailDelivery, TLAPS

-----------------------------------------------------------------------------
(* The end of a run keeps the shape of the task.                             *)

LEMMA AfterReturnType ==
    ASSUME NEW tr \in TaskRec, NEW res \in Results
    PROVE  /\ AfterReturn(tr, res) \in TaskRec
           /\ AfterReturn(tr, res).mail = tr.mail
<1>1. tr.retried \in 0..MaxRetry /\ MaxRetry \in Nat
  BY MaxRetryAssumption DEF TaskRec
<1>2. \A s \in {"gone", "retry", "archived"}, n \in 0..MaxRetry :
         /\ [tr EXCEPT !.state = s] \in TaskRec
         /\ [tr EXCEPT !.state = s, !.retried = n] \in TaskRec
         /\ [tr EXCEPT !.state = s].mail = tr.mail
         /\ [tr EXCEPT !.state = s, !.retried = n].mail = tr.mail
  BY DEF TaskRec
<1>3. ~(tr.retried >= MaxRetry) => tr.retried + 1 \in 0..MaxRetry
  BY <1>1
<1>4. CASE res \in {"sent", "cancelled"}
  BY <1>2, <1>4, <1>1 DEF AfterReturn
<1>5. CASE res \notin {"sent", "cancelled"} /\ ~IsFailure(res)
  BY <1>2, <1>5, <1>1 DEF AfterReturn
<1>6. CASE /\ res \notin {"sent", "cancelled"} /\ IsFailure(res)
           /\ res = "skip" \/ tr.retried >= MaxRetry
  BY <1>2, <1>6, <1>1 DEF AfterReturn
<1>7. CASE /\ res \notin {"sent", "cancelled"} /\ IsFailure(res)
           /\ ~(res = "skip" \/ tr.retried >= MaxRetry)
  BY <1>2, <1>3, <1>7 DEF AfterReturn
<1> QED BY <1>4, <1>5, <1>6, <1>7

LEMMA InitType == Init => TypeOK
BY MaxFaultsAssumption, MaxRetryAssumption
DEF Init, TypeOK, MailRow, Status, TaskRec, OpRec, RunRec, Results, IdleOp, IdleRun

\* What a request does to the types.
LEMMA RequestType ==
    ASSUME TypeOK, NEW o \in Ops, RequestStep(o) \/ RequestFails(o)
    PROVE  TypeOK'
<1> USE DEF TypeOK, obs
<1>1. ASSUME NEW ms \in SUBSET Mails, CreateInsert(o, ms) PROVE TypeOK'
  <2>1. \A m \in Mails : [mail[m] EXCEPT !.status = "pending"] \in MailRow
    BY DEF MailRow, Status
  <2>2. mail' \in [Mails -> MailRow]
    BY <1>1, <2>1 DEF CreateInsert, InsertRows
  <2>3. op' \in [Ops -> OpRec]
    BY <1>1 DEF CreateInsert, InsertRows, OpRec, IdleOp
  <2> QED BY <1>1, <2>2, <2>3 DEF CreateInsert, InsertRows
<1>2. ASSUME NEW ms \in SUBSET Mails, CreateSetQueued(o, ms) PROVE TypeOK'
  <2>1. mail' \in [Mails -> MailRow]
    <3>1. ASSUME NEW m \in Mails
          PROVE  [mail[m] EXCEPT !.status = "queued", !.taskId = op[o].ids[m]] \in MailRow
      <4>1. op[o].ids[m] \in Tasks \cup {NoTask}
        BY DEF OpRec
      <4> QED BY <4>1 DEF MailRow, Status
    <3> QED BY <1>2, <3>1 DEF CreateSetQueued
  <2>2. op' \in [Ops -> OpRec]
    <3> DEFINE rest == [op[o] EXCEPT !.mails = op[o].mails \ ms]
    <3>1. IdleOp \in OpRec /\ rest \in OpRec
      BY DEF OpRec, IdleOp
    <3>2. op' = [op EXCEPT ![o] = IdleOp] \/ op' = [op EXCEPT ![o] = rest]
      BY <1>2 DEF CreateSetQueued
    <3> HIDE DEF rest
    <3> QED BY <3>1, <3>2
  <2> QED BY <1>2, <2>1, <2>2 DEF CreateSetQueued
<1>3. ASSUME NEW m \in Mails, NEW t \in Tasks, CreateEnqueue(o, m, t) PROVE TypeOK'
  <2>1. task' \in [Tasks -> TaskRec]
    BY <1>3, MaxRetryAssumption DEF CreateEnqueue, Enqueue, TaskRec
  <2>2. [op[o].ids EXCEPT ![m] = t] \in [Mails -> Tasks \cup {NoTask}]
    BY DEF OpRec
  <2>3. op' \in [Ops -> OpRec]
    <3>0. \A ids \in [Mails -> Tasks \cup {NoTask}] : [op[o] EXCEPT !.ids = ids] \in OpRec
      BY DEF OpRec
    <3>1. [op[o] EXCEPT !.ids = [op[o].ids EXCEPT ![m] = t]] \in OpRec
      BY <2>2, <3>0
    <3>2. op' = [op EXCEPT ![o] = [op[o] EXCEPT !.ids = [op[o].ids EXCEPT ![m] = t]]]
      BY <1>3, ZenonT(40) DEF CreateEnqueue
    <3> QED BY <3>1, <3>2
  <2> QED BY <1>3, <2>1, <2>3 DEF CreateEnqueue
<1>4. ASSUME NEW m \in Mails, NEW t \in Tasks, RetryEnqueue(o, m, t) PROVE TypeOK'
  <2>1. task' \in [Tasks -> TaskRec]
    BY <1>4, MaxRetryAssumption DEF RetryEnqueue, Enqueue, TaskRec
  <2>2. [op[o].ids EXCEPT ![m] = t] \in [Mails -> Tasks \cup {NoTask}]
    BY DEF OpRec
  <2>3. op' \in [Ops -> OpRec]
    <3>0. \A ids \in [Mails -> Tasks \cup {NoTask}] :
             [op[o] EXCEPT !.pc = "retryTaskId", !.ids = ids] \in OpRec
      BY DEF OpRec
    <3>1. [op[o] EXCEPT !.pc = "retryTaskId", !.ids = [op[o].ids EXCEPT ![m] = t]] \in OpRec
      BY <2>2, <3>0
    <3>2. op' = [op EXCEPT ![o] = [op[o] EXCEPT !.pc = "retryTaskId",
                                                !.ids = [op[o].ids EXCEPT ![m] = t]]]
      BY <1>4, ZenonT(40) DEF RetryEnqueue
    <3> QED BY <3>1, <3>2
  <2> QED BY <1>4, <2>1, <2>3 DEF RetryEnqueue
<1>5. ASSUME NEW m \in Mails, CancelRead(o, m) PROVE TypeOK'
  BY <1>5 DEF CancelRead, OpRec, IdleOp, MailRow
<1>6. ASSUME NEW m \in Mails, CancelDelete(o, m) PROVE TypeOK'
  <2>1. task' \in [Tasks -> TaskRec]
    <3>1. \A t \in Tasks : [task[t] EXCEPT !.state = "deleted"] \in TaskRec
      BY DEF TaskRec
    <3>2. \/ UNCHANGED task
          \/ \E t : task' = [task EXCEPT ![t] = [task[t] EXCEPT !.state = "deleted"]]
      BY <1>6 DEF CancelDelete
    <3> QED BY <3>1, <3>2
  <2>2. op' \in [Ops -> OpRec]
    <3>1. [op[o] EXCEPT !.pc = "cancelUpdate"] \in OpRec
      BY DEF OpRec
    <3>2. op' = [op EXCEPT ![o] = [op[o] EXCEPT !.pc = "cancelUpdate"]]
      BY <1>6 DEF CancelDelete
    <3> QED BY <3>1, <3>2
  <2>3. faults' \in 0..MaxFaults
    BY <1>6, MaxFaultsAssumption DEF CancelDelete, Fault
  <2> QED BY <1>6, <2>1, <2>2, <2>3 DEF CancelDelete
<1>7. ASSUME NEW m \in Mails, CancelUpdate(o, m) PROVE TypeOK'
  <2>1. mail' \in [Mails -> MailRow]
    BY <1>7 DEF CancelUpdate, UpdateStatus, MailRow, Status
  <2>2. IdleOp \in OpRec
    BY DEF OpRec, IdleOp
  <2>3. op' \in [Ops -> OpRec]
    BY <1>7, <2>2 DEF CancelUpdate
  <2> QED BY <1>7, <2>1, <2>3 DEF CancelUpdate
<1>8. ASSUME NEW m \in Mails, RetryRead(o, m) PROVE TypeOK'
  BY <1>8 DEF RetryRead, OpRec, IdleOp
<1>9. ASSUME NEW m \in Mails, RetryTaskId(o, m) PROVE TypeOK'
  <2>1. [mail[m] EXCEPT !.taskId = op[o].ids[m]] \in MailRow
    BY DEF MailRow, OpRec
  <2>2. mail' \in [Mails -> MailRow]
    BY <1>9, <2>1 DEF RetryTaskId
  <2>3. op' \in [Ops -> OpRec]
    <3>1. [op[o] EXCEPT !.pc = "retryStatus"] \in OpRec
      BY DEF OpRec
    <3>2. op' = [op EXCEPT ![o] = [op[o] EXCEPT !.pc = "retryStatus"]]
      BY <1>9 DEF RetryTaskId
    <3> QED BY <3>1, <3>2
  <2> QED BY <1>9, <2>2, <2>3 DEF RetryTaskId
<1>10. ASSUME NEW m \in Mails, RetryStatus(o, m) PROVE TypeOK'
  <2>1. mail' \in [Mails -> MailRow]
    BY <1>10 DEF RetryStatus, UpdateStatus, MailRow, Status
  <2>2. IdleOp \in OpRec
    BY DEF OpRec, IdleOp
  <2>3. op' \in [Ops -> OpRec]
    BY <1>10, <2>2 DEF RetryStatus
  <2> QED BY <1>10, <2>1, <2>3 DEF RetryStatus
<1>11. ASSUME RequestFails(o) PROVE TypeOK'
  BY <1>11, MaxFaultsAssumption DEF RequestFails, Fault, OpRec, IdleOp
<1> QED
  BY <1>1, <1>2, <1>3, <1>4, <1>5, <1>6, <1>7, <1>8, <1>9, <1>10, <1>11 DEF RequestStep

LEMMA CounterType ==
    ASSUME NEW c \in [Tasks -> Nat], NEW x
    PROVE  [c EXCEPT ![x] = @ + 1] \in [Tasks -> Nat]
<1>1. \A t \in Tasks : c[t] + 1 \in Nat
  OBVIOUS
<1> QED BY <1>1

\* What a worker, Asynq or a fault does to the types.
LEMMA WorkerType ==
    ASSUME TypeOK, NEW w \in Workers,
           HandlerStep(w) \/ WorkerCrash(w) \/ WorkerShutdown(w)
    PROVE  TypeOK'
<1> USE DEF TypeOK, obs
<1>0. /\ \A s \in Status : \A m : UpdateStatus(m, s) => mail' \in [Mails -> MailRow]
      /\ Fault => faults' \in 0..MaxFaults
  <2>1. ASSUME NEW s \in Status, NEW m, UpdateStatus(m, s)
        PROVE  mail' \in [Mails -> MailRow]
    <3>1. \A k \in Mails : [mail[k] EXCEPT !.status = s] \in MailRow
      BY DEF MailRow
    <3>2. mail' = [mail EXCEPT ![m] = [mail[m] EXCEPT !.status = s]]
      BY <2>1 DEF UpdateStatus
    <3> QED BY <3>1, <3>2
  <2> QED BY <2>1, MaxFaultsAssumption DEF Fault
<1>1. ASSUME NEW pc \in {"prepare", "mark", "send", "markSent", "clear", "onError", "settle"},
             Goto(w, pc)
      PROVE  run' \in [Workers -> RunRec]
  BY <1>1 DEF Goto, RunRec
<1>2. ASSUME NEW pc \in {"sendFailed", "onError", "settle"}, NEW res \in Results, Return(w, pc, res)
      PROVE  run' \in [Workers -> RunRec]
  <2>1. [run[w] EXCEPT !.pc = pc, !.result = res] \in RunRec
    BY DEF RunRec
  <2> QED BY <1>2, <2>1 DEF Return
<1>3. CASE Load(w)
  BY <1>1, <1>2, <1>3 DEF Load, Results
<1>4. CASE CallFails(w)
  BY <1>2, <1>4 DEF CallFails, Results
<1>5. CASE PrepareReady(w)
  BY <1>1, <1>5 DEF PrepareReady
<1>6. CASE PrepareDelayed(w)
  BY <1>2, <1>6 DEF PrepareDelayed, Results
<1>7. CASE PrepareUnsendable(w)
  <2>1. mail' \in [Mails -> MailRow] /\ faults' \in 0..MaxFaults
    BY <1>0, <1>7 DEF PrepareUnsendable, SwallowedError, Status
  <2>2. unsendable' \in [Tasks -> BOOLEAN]
    BY <1>7 DEF PrepareUnsendable
  <2> QED BY <1>2, <1>7, <2>1, <2>2 DEF PrepareUnsendable, Results
<1>8. CASE MarkSending(w)
  <2>1. ASSUME NEW m \in Mails
        PROVE  [mail[m] EXCEPT !.status = "sending", !.attempts = mail[m].attempts + 1] \in MailRow
    <3>1. mail[m].attempts + 1 \in Nat
      BY DEF MailRow
    <3> QED BY <3>1 DEF MailRow, Status
  <2>2. mail' \in [Mails -> MailRow]
    BY <1>8, <2>1 DEF MarkSending
  <2>3. tries' \in [Tasks -> Nat]
    BY <1>8, CounterType DEF MarkSending
  <2> QED BY <1>1, <1>8, <2>2, <2>3 DEF MarkSending
<1>9. CASE SendSucceeds(w)
  <2>1. dels' \in [Tasks -> Nat]
    BY <1>9, CounterType DEF SendSucceeds, Accept
  <2> QED BY <1>1, <1>9, <2>1 DEF SendSucceeds
<1>10. CASE SendErrs(w)
  <2>1. dels' \in [Tasks -> Nat]
    BY <1>10, CounterType DEF SendErrs, Accept
  <2> QED BY <1>2, <1>10, <2>1 DEF SendErrs, Results
<1>11. CASE AfterSendError(w)
  <2>1. mail' \in [Mails -> MailRow] /\ faults' \in 0..MaxFaults
    BY <1>0, <1>11 DEF AfterSendError, SwallowedError, Status
  <2> QED BY <1>1, <1>11, <2>1 DEF AfterSendError
<1>12. CASE MarkSent(w)
  <2>1. \A m \in Mails : [mail[m] EXCEPT !.status = "sent", !.sentAt = TRUE] \in MailRow
    BY DEF MailRow, Status
  <2>2. mail' \in [Mails -> MailRow]
    BY <1>12, <2>1 DEF MarkSent
  <2> QED BY <1>1, <1>12, <2>2 DEF MarkSent
<1>13. CASE ClearBodies(w)
  <2>1. mail' \in [Mails -> MailRow]
    <3>1. \A m \in Mails : [mail[m] EXCEPT !.body = FALSE] \in MailRow
      BY DEF MailRow
    <3>2. UNCHANGED mail \/ mail' = [mail EXCEPT ![RunMail(w)].body = FALSE]
      BY <1>13 DEF ClearBodies, SwallowedError
    <3> QED BY <3>1, <3>2
  <2>2. faults' \in 0..MaxFaults
    BY <1>0, <1>13 DEF ClearBodies, SwallowedError
  <2> QED BY <1>2, <1>13, <2>1, <2>2 DEF ClearBodies, Results
<1>14. CASE ErrorHandler(w)
  <2>1. mail' \in [Mails -> MailRow] /\ faults' \in 0..MaxFaults
    BY <1>0, <1>14 DEF ErrorHandler, SwallowedError, Status
  <2> QED BY <1>1, <1>14, <2>1 DEF ErrorHandler
<1>15. CASE Settle(w)
  <2>1. \A t \in Tasks : AfterReturn(task[t], run[w].result) \in TaskRec
    BY AfterReturnType DEF RunRec
  <2>2. task' \in [Tasks -> TaskRec]
    BY <1>15, <2>1 DEF Settle
  <2>3. failures' \in [Tasks -> Nat]
    BY <1>15, CounterType DEF Settle, CountFailure
  <2> QED BY <1>15, <2>2, <2>3 DEF Settle, RunRec, Results, IdleRun
<1>16. CASE WorkerCrash(w)
  BY <1>0, <1>16 DEF WorkerCrash, RunRec, Results, IdleRun
<1>17. CASE WorkerShutdown(w)
  <2>1. task' \in [Tasks -> TaskRec]
    <3>1. \A t \in Tasks : [task[t] EXCEPT !.state = "pending"] \in TaskRec
      BY DEF TaskRec
    <3> QED BY <1>17, <3>1 DEF WorkerShutdown
  <2>2. requeued' \in [Tasks -> Nat]
    BY <1>17, CounterType DEF WorkerShutdown
  <2>3. run' \in [Workers -> RunRec]
    BY <1>17 DEF WorkerShutdown, RunRec, Results, IdleRun
  <2> QED BY <1>0, <1>17, <2>1, <2>2, <2>3 DEF WorkerShutdown
<1> QED
  BY <1>3, <1>4, <1>5, <1>6, <1>7, <1>8, <1>9, <1>10, <1>11, <1>12, <1>13, <1>14, <1>15, <1>16,
     <1>17 DEF HandlerStep

LEMMA NextType == ASSUME TypeOK, [Next]_vars PROVE TypeOK'
<1>1. CASE UNCHANGED vars
  BY <1>1 DEF TypeOK, vars, obs
<1>2. ASSUME NEW w \in Workers, NEW t \in Tasks, Dequeue(w, t) PROVE TypeOK'
  <2>1. task' \in [Tasks -> TaskRec]
    BY <1>2 DEF Dequeue, TypeOK, TaskRec
  <2>2. run' \in [Workers -> RunRec]
    BY <1>2 DEF Dequeue, TypeOK, RunRec, Results
  <2> QED BY <1>2, <2>1, <2>2 DEF Dequeue, TypeOK, obs
<1>3. ASSUME NEW t \in Tasks, Recover(t) PROVE TypeOK'
  <2>1. task[t].retried \in 0..MaxRetry /\ MaxRetry \in Nat
    BY MaxRetryAssumption DEF TypeOK, TaskRec
  <2>2. task[t].retried < MaxRetry => task[t].retried + 1 \in 0..MaxRetry
    BY <2>1
  <2>3. [task[t] EXCEPT !.state = "archived"] \in TaskRec
    BY DEF TypeOK, TaskRec
  <2>4. task[t].retried < MaxRetry =>
          [task[t] EXCEPT !.state = "retry", !.retried = task[t].retried + 1] \in TaskRec
    BY <2>2 DEF TypeOK, TaskRec
  <2>5. task' \in [Tasks -> TaskRec]
    BY <1>3, <2>3, <2>4 DEF Recover, TypeOK
  <2>6. failures' \in [Tasks -> Nat]
    BY <1>3, CounterType DEF Recover, CountFailure, TypeOK
  <2> QED BY <1>3, <2>5, <2>6 DEF Recover, TypeOK
<1> QED BY <1>1, <1>2, <1>3, RequestType, WorkerType DEF Next

\* Every reachable state is well typed. In particular the retry count of a task
\* stays within MaxRetry: Asynq and its recoverer archive before they would
\* schedule one run too many.
THEOREM TypeCorrect == Spec => []TypeOK
<1>1. Init => TypeOK  BY InitType
<1>2. TypeOK /\ [Next]_vars => TypeOK'  BY NextType
<1> QED BY <1>1, <1>2, PTL DEF Spec

-----------------------------------------------------------------------------
(* What each kind of step does to tasks and runs.                            *)

\* A request enqueues a new task, deletes one that is not active, or neither.
LEMMA RequestEffect ==
    ASSUME IInv, NEW o \in Ops, RequestStep(o) \/ RequestFails(o)
    PROVE  /\ UNCHANGED <<run, tries, dels, requeued>>
           /\ \/ UNCHANGED task
              \/ \E m \in Mails, t \in Tasks : Enqueue(m, t)
              \/ \E t \in Tasks : /\ task[t].state \in {"pending", "retry", "archived"}
                                  /\ task' = [task EXCEPT ![t].state = "deleted"]
<1> USE DEF obs
<1>1. ASSUME NEW ms \in SUBSET Mails, CreateInsert(o, ms) \/ CreateSetQueued(o, ms)
      PROVE  UNCHANGED <<task, run, tries, dels, requeued>>
  BY <1>1 DEF CreateInsert, InsertRows, CreateSetQueued
<1>2. ASSUME NEW m \in Mails, NEW t \in Tasks, CreateEnqueue(o, m, t) \/ RetryEnqueue(o, m, t)
      PROVE  UNCHANGED <<run, tries, dels, requeued>> /\ Enqueue(m, t)
  BY <1>2 DEF CreateEnqueue, RetryEnqueue
<1>3. ASSUME NEW m \in Mails, CancelDelete(o, m)
      PROVE  /\ UNCHANGED <<run, tries, dels, requeued>>
             /\ \/ UNCHANGED task
                \/ \E t \in Tasks : /\ task[t].state \in {"pending", "retry", "archived"}
                                    /\ task' = [task EXCEPT ![t].state = "deleted"]
  <2>1. op[o].ids[m] \in Tasks
    BY <1>3 DEF CancelDelete, IInv, RowsFollowTasks, TypeOK, OpRec
  <2> QED BY <1>3, <2>1 DEF CancelDelete
<1>4. ASSUME NEW m \in Mails, CancelRead(o, m) \/ CancelUpdate(o, m) \/ RetryRead(o, m)
                              \/ RetryTaskId(o, m) \/ RetryStatus(o, m)
      PROVE  UNCHANGED <<task, run, tries, dels, requeued>>
  BY <1>4 DEF CancelRead, CancelUpdate, RetryRead, RetryTaskId, RetryStatus
<1>5. ASSUME RequestFails(o) PROVE UNCHANGED <<task, run, tries, dels, requeued>>
  BY <1>5 DEF RequestFails
<1> QED BY <1>1, <1>2, <1>3, <1>4, <1>5 DEF RequestStep

\* Until it settles, a handler keeps its task and leaves the others alone.
LEMMA HandlerEffect ==
    ASSUME IInv, NEW w \in Workers, HandlerStep(w), ~Settle(w)
    PROVE  /\ UNCHANGED <<task, op, requeued>>
           /\ run[w].pc # "idle" /\ run'[w].pc # "idle" /\ run'[w].task = run[w].task
           /\ run' = [run EXCEPT ![w] = run'[w]]
<1> USE DEF IInv, TypeOK, obs
<1>1. \A pc : Goto(w, pc) => /\ run'[w].pc = pc /\ run'[w].task = run[w].task
                             /\ run' = [run EXCEPT ![w] = run'[w]]
  BY DEF Goto, RunRec
<1>2. \A pc, res : Return(w, pc, res) => /\ run'[w].pc = pc /\ run'[w].task = run[w].task
                                         /\ run' = [run EXCEPT ![w] = run'[w]]
  <2>1. SUFFICES ASSUME NEW pc, NEW res, Return(w, pc, res)
                 PROVE  /\ run'[w].pc = pc /\ run'[w].task = run[w].task
                        /\ run' = [run EXCEPT ![w] = run'[w]]
    OBVIOUS
  <2>2. run'[w] = [[run[w] EXCEPT !.pc = pc] EXCEPT !.result = res]
    BY <2>1 DEF Return, RunRec
  <2>3. run' = [run EXCEPT ![w] = run'[w]]
    BY <2>1, <2>2 DEF Return, RunRec
  <2>4. run[w] \in RunRec
    OBVIOUS
  <2> QED BY <2>2, <2>3, <2>4 DEF RunRec
<1>3. CASE Load(w)               BY <1>1, <1>2, <1>3 DEF Load
<1>4. CASE CallFails(w)          BY <1>2, <1>4 DEF CallFails
<1>5. CASE PrepareReady(w)       BY <1>1, <1>5 DEF PrepareReady
<1>6. CASE PrepareDelayed(w)     BY <1>2, <1>6 DEF PrepareDelayed
<1>7. CASE PrepareUnsendable(w)  BY <1>2, <1>7 DEF PrepareUnsendable
<1>8. CASE MarkSending(w)        BY <1>1, <1>8 DEF MarkSending
<1>9. CASE SendSucceeds(w)       BY <1>1, <1>9 DEF SendSucceeds
<1>10. CASE SendErrs(w)          BY <1>2, <1>10 DEF SendErrs
<1>11. CASE AfterSendError(w)    BY <1>1, <1>11 DEF AfterSendError
<1>12. CASE MarkSent(w)          BY <1>1, <1>12 DEF MarkSent
<1>13. CASE ClearBodies(w)       BY <1>2, <1>13 DEF ClearBodies
<1>14. CASE ErrorHandler(w)      BY <1>1, <1>14 DEF ErrorHandler
<1> QED
  BY <1>3, <1>4, <1>5, <1>6, <1>7, <1>8, <1>9, <1>10, <1>11, <1>12, <1>13, <1>14 DEF HandlerStep

\* The end of a run frees the worker and moves its task, and no other, out of
\* active; a crash leaves it there.
LEMMA EndEffect ==
    ASSUME IInv, NEW w \in Workers, Settle(w) \/ WorkerCrash(w) \/ WorkerShutdown(w)
    PROVE  /\ run' = [run EXCEPT ![w] = IdleRun]
           /\ run[w].task \in Tasks /\ task[run[w].task].state = "active"
           /\ \A t \in Tasks : t # run[w].task => task'[t] = task[t]
           /\ \A t \in Tasks : \/ task'[t].mail = task[t].mail /\ task'[t].state # "free"
                               \/ task'[t] = task[t]
           /\ UNCHANGED <<mail, op, tries, dels>>
<1> USE DEF IInv, TypeOK, obs
<1>1. run[w].pc # "idle"
  BY DEF Settle, WorkerCrash, WorkerShutdown
<1>2. run[w].task \in Tasks /\ task[run[w].task].state = "active"
  BY <1>1 DEF RunsHoldTasks, IdleRun
<1>3. CASE Settle(w)
  <2> DEFINE t0 == run[w].task
  <2>1. /\ AfterReturn(task[t0], run[w].result).mail = task[t0].mail
        /\ AfterReturn(task[t0], run[w].result).state # "free"
    <3>1. task[t0] \in TaskRec /\ run[w].result \in Results
      BY <1>2 DEF RunRec
    <3>2. \A tr \in TaskRec, s \in {"gone", "retry", "archived"} : \A n :
             /\ [tr EXCEPT !.state = s].state # "free"
             /\ [tr EXCEPT !.state = s, !.retried = n].state # "free"
      BY DEF TaskRec
    <3>3. AfterReturn(task[t0], run[w].result).state # "free"
      BY <3>1, <3>2 DEF AfterReturn
    <3> QED BY <3>1, <3>3, AfterReturnType
  <2>2. task' = [task EXCEPT ![t0] = AfterReturn(task[t0], run[w].result)]
    BY <1>3 DEF Settle
  <2> QED BY <1>2, <1>3, <2>1, <2>2 DEF Settle
<1>4. CASE WorkerCrash(w)
  BY <1>2, <1>4 DEF WorkerCrash
<1>5. CASE WorkerShutdown(w)
  <2>1. task' = [task EXCEPT ![run[w].task] = [task[run[w].task] EXCEPT !.state = "pending"]]
    BY <1>5 DEF WorkerShutdown
  <2>2. /\ [task[run[w].task] EXCEPT !.state = "pending"].state = "pending"
        /\ [task[run[w].task] EXCEPT !.state = "pending"].mail = task[run[w].task].mail
    BY <1>2 DEF TaskRec
  <2> QED BY <1>2, <1>5, <2>1, <2>2 DEF WorkerShutdown
<1> QED BY <1>3, <1>4, <1>5

\* A run begins on a task that is due, and the recoverer moves a task no run holds.
LEMMA DequeueEffect ==
    ASSUME IInv, NEW w \in Workers, NEW t \in Tasks, Dequeue(w, t)
    PROVE  /\ run[w] = IdleRun /\ task[t].state \in {"pending", "retry"}
           /\ run' = [run EXCEPT ![w] = [pc |-> "load", task |-> t, result |-> "none"]]
           /\ task' = [task EXCEPT ![t] = task'[t]]
           /\ task'[t].state = "active" /\ task'[t].mail = task[t].mail
           /\ task'[t].retried = task[t].retried
           /\ UNCHANGED <<mail, op, tries, dels, requeued>>
<1>1. run[w] = IdleRun
  BY DEF IInv, RunsHoldTasks, Dequeue
<1> QED BY <1>1 DEF IInv, TypeOK, TaskRec, Dequeue, obs

LEMMA RecoverEffect ==
    ASSUME IInv, NEW t \in Tasks, Recover(t)
    PROVE  /\ task[t].state = "active" /\ \A w \in Workers : run[w].task # t
           /\ task' = [task EXCEPT ![t] = task'[t]]
           /\ task'[t].mail = task[t].mail
           /\ \/ task'[t].state = "archived" /\ task'[t].retried = task[t].retried
              \/ task'[t].state = "retry" /\ task'[t].retried = task[t].retried + 1
           /\ UNCHANGED <<mail, op, run, tries, dels, requeued>>
BY DEF IInv, TypeOK, TaskRec, Recover, obs

LEMMA EnqueueEffect ==
    ASSUME TypeOK, NEW m \in Mails, NEW t \in Tasks, Enqueue(m, t)
    PROVE  /\ task[t].state = "free"
           /\ task' = [task EXCEPT ![t] = task'[t]]
           /\ task'[t].state = "pending" /\ task'[t].mail = m /\ task'[t].retried = 0
BY DEF TypeOK, Enqueue

-----------------------------------------------------------------------------
(* The parts of the inductive invariant, one by one.                         *)

LEMMA HoldStep == ASSUME IInv, [Next]_vars PROVE RunsHoldTasks'
<1> USE DEF RunsHoldTasks
<1>0. RunsHoldTasks /\ TypeOK  BY DEF IInv
<1>1. CASE UNCHANGED vars
  BY <1>0, <1>1 DEF vars, obs
<1>2. ASSUME NEW o \in Ops, RequestStep(o) \/ RequestFails(o) PROVE RunsHoldTasks'
  <2>1. \A t \in Tasks : task[t].state = "active" => task'[t].state = "active"
    BY <1>0, <1>2, RequestEffect, EnqueueEffect DEF TypeOK
  <2> QED BY <1>0, <1>2, <2>1, RequestEffect
<1>3. ASSUME NEW w \in Workers, HandlerStep(w), ~Settle(w) PROVE RunsHoldTasks'
  BY <1>0, <1>3, HandlerEffect DEF TypeOK, IdleRun
<1>4. ASSUME NEW w \in Workers, Settle(w) \/ WorkerCrash(w) \/ WorkerShutdown(w)
      PROVE  RunsHoldTasks'
  <2>1. run'[w] = IdleRun /\ \A v \in Workers : v # w => run'[v] = run[v]
    BY <1>0, <1>4, EndEffect DEF TypeOK
  <2>2. \A v \in Workers : v # w /\ run[v] # IdleRun =>
          run[v].task # run[w].task /\ task'[run[v].task] = task[run[v].task]
    BY <1>0, <1>4, EndEffect, NoTaskAssumption
  <2>3. IdleRun.task = NoTask
    BY DEF IdleRun
  <2> QED BY <1>0, <2>1, <2>2, <2>3
<1>5. ASSUME NEW w \in Workers, NEW t \in Tasks, Dequeue(w, t) PROVE RunsHoldTasks'
  <2>1. \A v \in Workers : run[v].task # t
    BY <1>0, <1>5, DequeueEffect, NoTaskAssumption DEF IdleRun
  <2> QED BY <1>0, <1>5, <2>1, DequeueEffect DEF TypeOK, IdleRun
<1>6. ASSUME NEW t \in Tasks, Recover(t) PROVE RunsHoldTasks'
  BY <1>0, <1>6, RecoverEffect DEF TypeOK
<1> QED BY <1>1, <1>2, <1>3, <1>4, <1>5, <1>6 DEF Next

LEMMA FreshStep == ASSUME IInv, [Next]_vars PROVE FreeIsNew'
<1> USE DEF FreeIsNew
<1>0. FreeIsNew /\ TypeOK /\ RunsHoldTasks  BY DEF IInv
<1>1. CASE UNCHANGED vars
  BY <1>0, <1>1 DEF vars, obs
<1>2. ASSUME NEW o \in Ops, RequestStep(o) \/ RequestFails(o) PROVE FreeIsNew'
  <2>1. CASE UNCHANGED task
    BY <1>0, <1>2, <2>1, RequestEffect
  <2>2. ASSUME NEW m \in Mails, NEW t \in Tasks, Enqueue(m, t) PROVE FreeIsNew'
    BY <1>0, <1>2, <2>2, RequestEffect, EnqueueEffect DEF TypeOK
  <2>3. ASSUME NEW t \in Tasks, task[t].state \in {"pending", "retry", "archived"},
               task' = [task EXCEPT ![t].state = "deleted"]
        PROVE  FreeIsNew'
    BY <1>0, <1>2, <2>3, RequestEffect DEF TypeOK, TaskRec
  <2> QED BY <1>2, <2>1, <2>2, <2>3, RequestEffect
<1>3. ASSUME NEW w \in Workers, HandlerStep(w), ~Settle(w) PROVE FreeIsNew'
  <2>1. run[w].task \in Tasks /\ task[run[w].task].state = "active"
    BY <1>0, <1>3, HandlerEffect DEF RunsHoldTasks, IdleRun
  <2>2. \A t \in Tasks : t # run[w].task => tries'[t] = tries[t] /\ dels'[t] = dels[t]
    BY <1>0, <1>3 DEF TypeOK, obs, HandlerStep, Load, CallFails, PrepareReady, PrepareDelayed,
       PrepareUnsendable, MarkSending, SendSucceeds, SendErrs, AfterSendError, MarkSent,
       ClearBodies, ErrorHandler, Accept
  <2> QED BY <1>0, <1>3, <2>1, <2>2, HandlerEffect
<1>4. ASSUME NEW w \in Workers, Settle(w) \/ WorkerCrash(w) \/ WorkerShutdown(w)
      PROVE  FreeIsNew'
  BY <1>0, <1>4, EndEffect
<1>5. ASSUME NEW w \in Workers, NEW t \in Tasks, Dequeue(w, t) PROVE FreeIsNew'
  BY <1>0, <1>5, DequeueEffect DEF TypeOK
<1>6. ASSUME NEW t \in Tasks, Recover(t) PROVE FreeIsNew'
  BY <1>0, <1>6, RecoverEffect DEF TypeOK
<1> QED BY <1>1, <1>2, <1>3, <1>4, <1>5, <1>6 DEF Next

Untried(r) == r.pc \in {"load", "prepare", "mark"} \/ r.result = "delayed"
Clean(r) == r.pc \in {"load", "prepare", "mark", "send", "markSent", "clear"} => r.result = "none"

\* What a step of a handler must establish about its own task.
LEMMA CountMove ==
    ASSUME IInv, NEW w \in Workers, HandlerStep(w), ~Settle(w), NEW t0, t0 = run[w].task,
           Clean(run'[w]),
           run'[w].pc = "send" => dels'[t0] < tries'[t0],
           dels'[t0] <= tries'[t0],
           tries'[t0] <= task[t0].retried + requeued[t0] + 1,
           Untried(run'[w]) => tries'[t0] <= task[t0].retried + requeued[t0],
           \A t \in Tasks : t # t0 => tries'[t] = tries[t] /\ dels'[t] = dels[t]
    PROVE  AttemptsCounted'
<1>0. AttemptsCounted /\ RunsHoldTasks /\ TypeOK  BY DEF IInv
<1>1. /\ UNCHANGED <<task, requeued>> /\ run'[w].task = t0
      /\ \A v \in Workers : v # w => run'[v] = run[v]
      /\ t0 \in Tasks /\ task[t0].state = "active" /\ t0 # NoTask
  BY <1>0, HandlerEffect, NoTaskAssumption DEF RunsHoldTasks, IdleRun, TypeOK
<1>2. \A v \in Workers : v # w => run[v].task # t0
  BY <1>0, <1>1 DEF RunsHoldTasks
<1>3. ASSUME NEW v \in Workers
      PROVE  /\ Clean(run'[v])
             /\ run'[v].pc = "send" => dels'[run'[v].task] < tries'[run'[v].task]
  <2>1. CASE v = w  BY <1>1, <2>1
  <2>2. CASE v # w
    <3>1. run[v].pc = "send" => run[v].task \in Tasks /\ run[v].task # t0
      BY <1>0, <1>2, <2>2 DEF RunsHoldTasks, IdleRun
    <3> QED BY <1>0, <1>1, <2>2, <3>1 DEF AttemptsCounted, Clean
  <2> QED BY <2>1, <2>2
<1>4. ASSUME NEW t \in Tasks
      PROVE  /\ dels'[t] <= tries'[t]
             /\ tries'[t] <= task'[t].retried + requeued'[t] + 1
             /\ NotYetTried(t)' => tries'[t] <= task'[t].retried + requeued'[t]
  <2>1. CASE t = t0
    <3>1. NotYetTried(t)' => Untried(run'[w])
      BY <1>1, <1>2, <2>1 DEF NotYetTried, Untried
    <3> QED BY <1>1, <2>1, <3>1
  <2>2. CASE t # t0
    <3>1. NotYetTried(t)' => NotYetTried(t)
      BY <1>1, <2>2 DEF NotYetTried
    <3> QED BY <1>0, <1>1, <2>2, <3>1 DEF AttemptsCounted
  <2> QED BY <2>1, <2>2
<1> QED BY <1>3, <1>4 DEF AttemptsCounted, Clean

LEMMA CountHandler ==
    ASSUME IInv, NEW w \in Workers, HandlerStep(w), ~Settle(w)
    PROVE  AttemptsCounted'
<1> DEFINE t0 == run[w].task
<1>0. /\ t0 \in Tasks /\ task[t0].state = "active" /\ run[w] \in RunRec
      /\ tries[t0] \in Nat /\ dels[t0] \in Nat /\ requeued[t0] \in Nat
      /\ task[t0].retried \in Nat
      /\ tries \in [Tasks -> Nat] /\ dels \in [Tasks -> Nat]
  BY HandlerEffect, MaxRetryAssumption DEF IInv, TypeOK, RunsHoldTasks, IdleRun, TaskRec
<1>1. /\ Clean(run[w]) /\ (run[w].pc = "send" => dels[t0] < tries[t0])
      /\ dels[t0] <= tries[t0] /\ tries[t0] <= task[t0].retried + requeued[t0] + 1
      /\ Untried(run[w]) => tries[t0] <= task[t0].retried + requeued[t0]
  BY <1>0 DEF IInv, AttemptsCounted, NotYetTried, Clean, Untried
<1>2. \A pc : Goto(w, pc) => run'[w].pc = pc /\ run'[w].result = run[w].result
  BY DEF Goto, IInv, TypeOK, RunRec
<1>3. \A pc, res : Return(w, pc, res) => run'[w].pc = pc /\ run'[w].result = res
  BY DEF Return, IInv, TypeOK, RunRec
<1> USE DEF obs, Clean, Untried
<1>4. CASE Load(w)
  BY <1>0, <1>1, <1>2, <1>3, <1>4, CountMove DEF Load
<1>5. CASE CallFails(w)
  BY <1>0, <1>1, <1>3, <1>5, CountMove DEF CallFails
<1>6. CASE PrepareReady(w)
  BY <1>0, <1>1, <1>2, <1>6, CountMove DEF PrepareReady
<1>7. CASE PrepareDelayed(w)
  BY <1>0, <1>1, <1>3, <1>7, CountMove DEF PrepareDelayed
<1>8. CASE PrepareUnsendable(w)
  BY <1>0, <1>1, <1>3, <1>8, CountMove DEF PrepareUnsendable
<1>9. CASE MarkSending(w)
  <2>1. tries'[t0] = tries[t0] + 1 /\ \A t \in Tasks : t # t0 => tries'[t] = tries[t]
    BY <1>0, <1>9 DEF MarkSending
  <2>2. run[w].result = "none"
    BY <1>1, <1>9 DEF MarkSending
  <2> QED BY <1>0, <1>1, <1>2, <1>9, <2>1, <2>2, CountMove DEF MarkSending
<1>10. CASE SendSucceeds(w)
  <2>1. dels'[t0] = dels[t0] + 1 /\ \A t \in Tasks : t # t0 => dels'[t] = dels[t]
    BY <1>0, <1>10 DEF SendSucceeds, Accept
  <2> QED BY <1>0, <1>1, <1>2, <1>10, <2>1, CountMove DEF SendSucceeds
<1>11. CASE SendErrs(w)
  <2>1. /\ dels'[t0] \in {dels[t0], dels[t0] + 1}
        /\ \A t \in Tasks : t # t0 => dels'[t] = dels[t]
    BY <1>0, <1>11 DEF SendErrs, Accept
  <2>2. run'[w].pc = "sendFailed" /\ run'[w].result = "error"
    BY <1>3, <1>11 DEF SendErrs
  <2> QED BY <1>0, <1>1, <1>11, <2>1, <2>2, CountMove DEF SendErrs
<1>12. CASE AfterSendError(w)
  BY <1>0, <1>1, <1>2, <1>12, CountMove DEF AfterSendError
<1>13. CASE MarkSent(w)
  BY <1>0, <1>1, <1>2, <1>13, CountMove DEF MarkSent
<1>14. CASE ClearBodies(w)
  BY <1>0, <1>1, <1>3, <1>14, CountMove DEF ClearBodies
<1>15. CASE ErrorHandler(w)
  BY <1>0, <1>1, <1>2, <1>15, CountMove DEF ErrorHandler
<1> QED
  BY <1>4, <1>5, <1>6, <1>7, <1>8, <1>9, <1>10, <1>11, <1>12, <1>13, <1>14, <1>15
     DEF HandlerStep

\* The end of a run: what it does to the retry count pays for the try it made.
LEMMA CountEnd ==
    ASSUME IInv, NEW w \in Workers, Settle(w) \/ WorkerCrash(w) \/ WorkerShutdown(w)
    PROVE  AttemptsCounted'
<1> DEFINE t0 == run[w].task
<1>0. AttemptsCounted /\ RunsHoldTasks /\ TypeOK  BY DEF IInv
<1>1. /\ run' = [run EXCEPT ![w] = IdleRun] /\ t0 \in Tasks /\ task[t0].state = "active"
      /\ \A t \in Tasks : t # t0 => task'[t] = task[t]
      /\ UNCHANGED <<mail, op, tries, dels>>
      /\ \A v \in Workers : v # w => run[v].task # t0
  BY <1>0, EndEffect, NoTaskAssumption DEF RunsHoldTasks
<1>2. /\ tries[t0] \in Nat /\ requeued[t0] \in Nat /\ task[t0].retried \in 0..MaxRetry
      /\ MaxRetry \in Nat /\ task[t0] \in TaskRec /\ run[w] \in RunRec
  BY <1>0, <1>1, MaxRetryAssumption DEF TypeOK, TaskRec
<1>3. /\ tries[t0] <= task[t0].retried + requeued[t0] + 1
      /\ run[w].result = "delayed" => tries[t0] <= task[t0].retried + requeued[t0]
  BY <1>0, <1>1 DEF AttemptsCounted, NotYetTried
<1>4. /\ tries'[t0] <= task'[t0].retried + requeued'[t0] + 1
      /\ task'[t0].state \in {"free", "pending", "retry"} =>
           tries'[t0] <= task'[t0].retried + requeued'[t0]
      /\ \A t \in Tasks : t # t0 => requeued'[t] = requeued[t]
  <2>1. CASE Settle(w)
    <3>1. task'[t0] = AfterReturn(task[t0], run[w].result) /\ requeued' = requeued
      BY <1>0, <1>1, <2>1 DEF Settle, TypeOK, obs
    <3>2. \/ task'[t0].state \in {"gone", "archived"} /\ task'[t0].retried = task[t0].retried
          \/ /\ run[w].result = "delayed"
             /\ task'[t0].state = "retry" /\ task'[t0].retried = task[t0].retried
          \/ task'[t0].state = "retry" /\ task'[t0].retried = task[t0].retried + 1
      <4>1. \/ task'[t0] = [task[t0] EXCEPT !.state = "gone"]
            \/ run[w].result = "delayed" /\ task'[t0] = [task[t0] EXCEPT !.state = "retry"]
            \/ task'[t0] = [task[t0] EXCEPT !.state = "archived"]
            \/ task'[t0] = [task[t0] EXCEPT !.state = "retry", !.retried = task[t0].retried + 1]
        BY <3>1 DEF AfterReturn, IsFailure
      <4> QED BY <1>2, <4>1 DEF TaskRec
    <3> QED BY <1>1, <1>2, <1>3, <3>1, <3>2
  <2>2. CASE WorkerCrash(w)
    BY <1>1, <1>3, <2>2 DEF WorkerCrash, obs
  <2>3. CASE WorkerShutdown(w)
    <3>1. requeued'[t0] = requeued[t0] + 1 /\ \A t \in Tasks : t # t0 => requeued'[t] = requeued[t]
      BY <1>0, <1>1, <2>3 DEF WorkerShutdown, TypeOK
    <3>2. task'[t0].retried = task[t0].retried
      BY <1>0, <1>1, <1>2, <2>3 DEF WorkerShutdown, TypeOK, TaskRec
    <3> QED BY <1>1, <1>2, <1>3, <3>1, <3>2
  <2> QED BY <2>1, <2>2, <2>3
<1>5. \A v \in Workers : run'[v] = IF v = w THEN IdleRun ELSE run[v]
  BY <1>0, <1>1 DEF TypeOK
<1>6. ASSUME NEW t \in Tasks
      PROVE  /\ dels'[t] <= tries'[t]
             /\ tries'[t] <= task'[t].retried + requeued'[t] + 1
             /\ NotYetTried(t)' => tries'[t] <= task'[t].retried + requeued'[t]
  <2>1. CASE t = t0
    <3>1. NotYetTried(t)' => task'[t0].state \in {"free", "pending", "retry"}
      BY <1>1, <1>5, <2>1 DEF NotYetTried, IdleRun
    <3> QED BY <1>0, <1>1, <1>4, <2>1, <3>1 DEF AttemptsCounted
  <2>2. CASE t # t0
    <3>1. NotYetTried(t)' => NotYetTried(t)
      BY <1>1, <1>5, <2>2 DEF NotYetTried, IdleRun
    <3> QED BY <1>0, <1>1, <1>4, <2>2, <3>1 DEF AttemptsCounted
  <2> QED BY <2>1, <2>2
<1>7. \A v \in Workers : /\ Clean(run'[v])
                         /\ run'[v].pc = "send" => dels'[run'[v].task] < tries'[run'[v].task]
  BY <1>0, <1>1, <1>5 DEF AttemptsCounted, Clean, IdleRun
<1> QED BY <1>6, <1>7 DEF AttemptsCounted, Clean

LEMMA CountStep == ASSUME IInv, [Next]_vars PROVE AttemptsCounted'
<1>0. AttemptsCounted /\ RunsHoldTasks /\ TypeOK /\ FreeIsNew /\ MaxRetry \in Nat
  BY MaxRetryAssumption DEF IInv
<1>00. \A t \in Tasks : /\ tries[t] \in Nat /\ requeued[t] \in Nat /\ dels[t] \in Nat
                        /\ task[t].retried \in Nat
  BY <1>0 DEF TypeOK, TaskRec
<1>1. CASE UNCHANGED vars
  BY <1>0, <1>1 DEF vars, obs, AttemptsCounted, NotYetTried
<1>2. ASSUME NEW o \in Ops, RequestStep(o) \/ RequestFails(o) PROVE AttemptsCounted'
  <2>0. UNCHANGED <<run, tries, dels, requeued>>
    BY <1>2, RequestEffect
  <2>1. CASE UNCHANGED task
    BY <1>0, <2>0, <2>1 DEF AttemptsCounted, NotYetTried
  <2>2. ASSUME NEW m \in Mails, NEW t0 \in Tasks, Enqueue(m, t0) PROVE AttemptsCounted'
    <3>1. tries[t0] = 0 /\ task'[t0].retried = 0
      BY <1>0, <2>2, EnqueueEffect DEF FreeIsNew
    <3>2. \A t \in Tasks : t # t0 => task'[t] = task[t]
      BY <2>2 DEF Enqueue
    <3>3. \A t \in Tasks : t # t0 => (NotYetTried(t)' => NotYetTried(t))
      BY <2>0, <3>2 DEF NotYetTried
    <3> QED BY <1>0, <1>00, <2>0, <3>1, <3>2, <3>3 DEF AttemptsCounted
  <2>3. ASSUME NEW t0 \in Tasks, task[t0].state \in {"pending", "retry", "archived"},
               task' = [task EXCEPT ![t0].state = "deleted"]
        PROVE  AttemptsCounted'
    <3>1. \A t \in Tasks : task'[t].retried = task[t].retried
      BY <1>0, <2>3 DEF TypeOK, TaskRec
    <3>2. \A t \in Tasks : NotYetTried(t)' => NotYetTried(t)
      BY <1>0, <2>0, <2>3 DEF NotYetTried, TypeOK, TaskRec
    <3> QED BY <1>0, <2>0, <3>1, <3>2 DEF AttemptsCounted
  <2> QED BY <1>2, <2>1, <2>2, <2>3, RequestEffect
<1>3. ASSUME NEW w \in Workers, HandlerStep(w), ~Settle(w) PROVE AttemptsCounted'
  BY <1>3, CountHandler
<1>4. ASSUME NEW w \in Workers, Settle(w) \/ WorkerCrash(w) \/ WorkerShutdown(w)
      PROVE  AttemptsCounted'
  BY <1>4, CountEnd
<1>5. ASSUME NEW w \in Workers, NEW t0 \in Tasks, Dequeue(w, t0) PROVE AttemptsCounted'
  <2>1. \A t \in Tasks : task'[t].retried = task[t].retried /\ (t # t0 => task'[t] = task[t])
    BY <1>0, <1>5, DequeueEffect DEF TypeOK
  <2>2. /\ \A v \in Workers : v # w => run'[v] = run[v]
        /\ run'[w] = [pc |-> "load", task |-> t0, result |-> "none"]
    BY <1>0, <1>5, DequeueEffect DEF TypeOK
  <2>3. \A t \in Tasks : NotYetTried(t)' => NotYetTried(t)
    BY <1>0, <1>5, <2>1, <2>2, DequeueEffect DEF NotYetTried
  <2> QED BY <1>0, <1>5, <2>1, <2>2, <2>3, DequeueEffect DEF AttemptsCounted
<1>6. ASSUME NEW t0 \in Tasks, Recover(t0) PROVE AttemptsCounted'
  <2>1. /\ \A t \in Tasks : t # t0 => task'[t] = task[t]
        /\ UNCHANGED <<run, tries, dels, requeued>>
    BY <1>0, <1>6, RecoverEffect DEF TypeOK
  <2>2. \A t \in Tasks : t # t0 => (NotYetTried(t)' => NotYetTried(t))
    BY <2>1 DEF NotYetTried
  <2>3. /\ tries[t0] <= task'[t0].retried + requeued[t0] + 1
        /\ NotYetTried(t0)' => tries[t0] <= task'[t0].retried + requeued[t0]
    BY <1>0, <1>00, <1>6, <2>1, RecoverEffect DEF NotYetTried, AttemptsCounted
  <2> QED BY <1>0, <2>1, <2>2, <2>3 DEF AttemptsCounted
<1> QED BY <1>1, <1>2, <1>3, <1>4, <1>5, <1>6 DEF Next

\* An enqueued task keeps its mail and its deliveries for ever.
LEMMA TaskKeepsMail ==
    ASSUME IInv, [Next]_vars, NEW t \in Tasks
    PROVE  /\ task[t].state # "free" => task'[t].mail = task[t].mail /\ task'[t].state # "free"
           /\ dels'[t] >= dels[t]
<1>0. TypeOK /\ dels[t] \in Nat  BY DEF IInv, TypeOK
<1>1. CASE UNCHANGED vars
  BY <1>0, <1>1 DEF vars, obs
<1>2. ASSUME NEW o \in Ops, RequestStep(o) \/ RequestFails(o)
      PROVE  /\ task[t].state # "free" => task'[t].mail = task[t].mail /\ task'[t].state # "free"
             /\ dels'[t] >= dels[t]
  <2>1. ASSUME NEW m \in Mails, NEW u \in Tasks, Enqueue(m, u)
        PROVE  task[t].state # "free" => task'[t] = task[t]
    BY <1>0, <2>1 DEF Enqueue, TypeOK
  <2>2. ASSUME NEW u \in Tasks, task' = [task EXCEPT ![u].state = "deleted"]
        PROVE  task[t].state # "free" => task'[t].mail = task[t].mail /\ task'[t].state # "free"
    BY <1>0, <2>2 DEF TypeOK, TaskRec
  <2>3. UNCHANGED dels
    BY <1>2, RequestEffect
  <2> QED BY <1>0, <1>2, <2>1, <2>2, <2>3, RequestEffect
<1>3. ASSUME NEW w \in Workers, HandlerStep(w), ~Settle(w) PROVE task' = task /\ dels'[t] >= dels[t]
  <2>1. dels' = dels \/ dels' = [dels EXCEPT ![run[w].task] = @ + 1]
    BY <1>3 DEF obs, HandlerStep, Load, CallFails, PrepareReady, PrepareDelayed,
       PrepareUnsendable, MarkSending, SendSucceeds, SendErrs, AfterSendError, MarkSent,
       ClearBodies, ErrorHandler, Accept
  <2> QED BY <1>0, <1>3, <2>1, HandlerEffect DEF TypeOK
<1>4. ASSUME NEW w \in Workers, Settle(w) \/ WorkerCrash(w) \/ WorkerShutdown(w)
      PROVE  /\ task[t].state # "free" => task'[t].mail = task[t].mail /\ task'[t].state # "free"
             /\ dels'[t] >= dels[t]
  BY <1>0, <1>4, EndEffect
<1>5. ASSUME NEW w \in Workers, NEW u \in Tasks, Dequeue(w, u)
      PROVE  /\ task[t].state # "free" => task'[t].mail = task[t].mail /\ task'[t].state # "free"
             /\ dels'[t] >= dels[t]
  BY <1>0, <1>5, DequeueEffect DEF TypeOK
<1>6. ASSUME NEW u \in Tasks, Recover(u)
      PROVE  /\ task[t].state # "free" => task'[t].mail = task[t].mail /\ task'[t].state # "free"
             /\ dels'[t] >= dels[t]
  BY <1>0, <1>6, RecoverEffect DEF TypeOK
<1> QED BY <1>1, <1>2, <1>3, <1>4, <1>5, <1>6 DEF Next

\* A delivered mail stays delivered, a task_id goes on naming a task of its mail.
LEMMA DeliveredStays ==
    ASSUME IInv, [Next]_vars
    PROVE  /\ \A m \in Mails : Delivered(m) => Delivered(m)'
           /\ \A m \in Mails, t \in Tasks : task[t].mail = m => task'[t].mail = m
<1>1. ASSUME NEW m \in Mails, NEW t \in Tasks, task[t].mail = m
      PROVE  task'[t].mail = m /\ dels'[t] >= dels[t]
  <2>1. task[t].state # "free"
    BY <1>1, NoMailAssumption DEF IInv, FreeIsNew
  <2> QED BY <1>1, <2>1, TaskKeepsMail
<1>2. \A t \in Tasks : dels[t] \in Nat /\ dels'[t] \in Nat
  BY NextType DEF IInv, TypeOK
<1> QED BY <1>1, <1>2 DEF Delivered

\* A step outside the requests: what it must establish about the rows.
LEMMA RowsMove ==
    ASSUME IInv, [Next]_vars, op' = op,
           \A m \in Mails : mail'[m].taskId = mail[m].taskId,
           \A m \in Mails : mail'[m].status = "queued" => mail[m].status = "queued",
           \A m \in Mails : mail'[m].status = "sent" \/ mail'[m].sentAt =>
                              mail[m].status = "sent" \/ mail[m].sentAt \/ Delivered(m),
           \A m \in Mails : ~mail'[m].body => ~mail[m].body \/ Delivered(m),
           \A v \in Workers : run'[v].pc \in {"markSent", "clear"} => dels'[run'[v].task] > 0
    PROVE  RowsFollowTasks'
<1>0. RowsFollowTasks /\ TypeOK  BY DEF IInv
<1>1. SentMeansDelivered' /\ BodyKeptUntilDelivered'
  BY <1>0, DeliveredStays DEF RowsFollowTasks, SentMeansDelivered, BodyKeptUntilDelivered
<1>2. QueuedHasOwnTask'
  BY <1>0, DeliveredStays DEF RowsFollowTasks, QueuedHasOwnTask, TypeOK, MailRow
<1>3. (\A o \in Ops : \A m \in Mails :
         /\ op[o].ids[m] # NoTask => task[op[o].ids[m]].mail = m
         /\ m \in op[o].mails => /\ op[o].pc \notin {"idle", "enqueue"} => op[o].mails = {m}
                                 /\ op[o].pc = "retryTaskId" => op[o].ids[m] # NoTask
                                 /\ op[o].pc = "cancelDelete" => op[o].ids[m] # NoTask
                                 /\ op[o].pc = "retryStatus" => mail[m].taskId # NoTask)'
  BY <1>0, DeliveredStays DEF RowsFollowTasks, TypeOK, OpRec
<1> QED BY <1>1, <1>2, <1>3 DEF RowsFollowTasks

\* The handler writes sent and sent_at, and destroys the bodies, only when the
\* SMTP server has answered for the task it holds.
LEMMA RowsHandler ==
    ASSUME IInv, [Next]_vars, NEW w \in Workers, HandlerStep(w), ~Settle(w)
    PROVE  RowsFollowTasks'
<1> DEFINE t0 == run[w].task
           Known(v) == run'[v].pc \in {"markSent", "clear"} => dels'[run'[v].task] > 0
<1>0. RowsFollowTasks /\ RunsHoldTasks /\ FreeIsNew /\ TypeOK  BY DEF IInv
<1>1. /\ UNCHANGED <<task, op>> /\ run' = [run EXCEPT ![w] = run'[w]] /\ run'[w].task = t0
      /\ t0 \in Tasks /\ task[t0].mail \in Mails
  BY <1>0, HandlerEffect DEF RunsHoldTasks, FreeIsNew, IdleRun
<1>2. \A v \in Workers : v # w => Known(v)
  <2>1. ASSUME NEW v \in Workers, v # w, run[v].pc \in {"markSent", "clear"}
        PROVE  run[v].task \in Tasks /\ dels[run[v].task] > 0
    BY <1>0, <2>1 DEF RunsHoldTasks, RowsFollowTasks, IdleRun
  <2>2. \A t \in Tasks : dels[t] \in Nat /\ dels'[t] \in Nat /\ dels'[t] >= dels[t]
    BY <1>0, NextType, TaskKeepsMail DEF TypeOK
  <2> QED BY <1>0, <1>1, <2>1, <2>2 DEF TypeOK
<1>3. \A pc : Goto(w, pc) => run'[w].pc = pc
  BY <1>0 DEF Goto, TypeOK, RunRec
<1>4. \A pc, res : Return(w, pc, res) => run'[w].pc = pc
  BY <1>0 DEF Return, TypeOK, RunRec
<1>6. ASSUME NEW s \in {"failed", "pending"}, UpdateStatus(task[t0].mail, s) \/ UNCHANGED mail,
             run'[w].pc \notin {"markSent", "clear"}
      PROVE  RowsFollowTasks'
  <2>1. \A m \in Mails : /\ mail'[m].taskId = mail[m].taskId
                         /\ mail'[m].status \in {mail[m].status, s}
                         /\ mail'[m].sentAt = mail[m].sentAt /\ mail'[m].body = mail[m].body
    BY <1>0, <1>6 DEF UpdateStatus, TypeOK, MailRow
  <2> QED BY <1>1, <1>2, <1>6, <2>1, RowsMove
<1>7. ASSUME UNCHANGED mail, run'[w].pc \notin {"markSent", "clear"} PROVE RowsFollowTasks'
  BY <1>6, <1>7
<1>8. CASE Load(w) \/ CallFails(w) \/ PrepareReady(w) \/ PrepareDelayed(w) \/ SendErrs(w)
  BY <1>3, <1>4, <1>7, <1>8 DEF Load, CallFails, PrepareReady, PrepareDelayed, SendErrs
<1>9. CASE PrepareUnsendable(w)
  BY <1>4, <1>6, <1>9 DEF PrepareUnsendable, SwallowedError, RunMail
<1>10. CASE MarkSending(w)
  <2>1. mail' = [mail EXCEPT ![task[t0].mail] =
                   [mail[task[t0].mail] EXCEPT !.status = "sending",
                                               !.attempts = mail[task[t0].mail].attempts + 1]]
    BY <1>0, <1>1, <1>10 DEF MarkSending, RunMail, TypeOK, MailRow
  <2>2. \A m \in Mails : /\ mail'[m].taskId = mail[m].taskId
                         /\ mail'[m].status \in {mail[m].status, "sending"}
                         /\ mail'[m].sentAt = mail[m].sentAt /\ mail'[m].body = mail[m].body
    BY <1>0, <1>1, <2>1, SMTT(30) DEF TypeOK, MailRow
  <2>3. run'[w].pc = "send"
    BY <1>3, <1>10 DEF MarkSending
  <2> QED BY <1>1, <1>2, <2>2, <2>3, RowsMove
<1>11. CASE SendSucceeds(w)
  <2>1. UNCHANGED mail /\ dels' = [dels EXCEPT ![t0] = dels[t0] + 1] /\ dels[t0] \in Nat
    BY <1>0, <1>1, <1>11 DEF SendSucceeds, Accept, TypeOK
  <2>2. dels'[run'[w].task] > 0
    BY <1>0, <1>1, <2>1 DEF TypeOK
  <2> QED BY <1>1, <1>2, <2>1, <2>2, RowsMove
<1>12. CASE AfterSendError(w)
  BY <1>3, <1>6, <1>12 DEF AfterSendError, SwallowedError, RunMail
<1>13. CASE MarkSent(w)
  <2>1. dels[t0] > 0 /\ UNCHANGED dels /\ Delivered(task[t0].mail)
    <3>1. UNCHANGED dels /\ run[w].pc = "markSent"
      BY <1>13 DEF MarkSent, obs
    <3> QED BY <1>0, <1>1, <3>1, SMTT(30) DEF RowsFollowTasks, Delivered
  <2>2. mail' = [mail EXCEPT ![task[t0].mail] =
                   [mail[task[t0].mail] EXCEPT !.status = "sent", !.sentAt = TRUE]]
    BY <1>13, ZenonT(40) DEF MarkSent, RunMail
  <2>3. \A m \in Mails : /\ mail'[m].taskId = mail[m].taskId /\ mail'[m].body = mail[m].body
                         /\ mail'[m].status \in {mail[m].status, "sent"}
                         /\ m # task[t0].mail => mail'[m] = mail[m]
    BY <1>0, <1>1, <2>2 DEF TypeOK, MailRow
  <2> QED BY <1>1, <1>2, <2>1, <2>3, RowsMove
<1>14. CASE ClearBodies(w)
  <2>1. dels[t0] > 0 /\ Delivered(task[t0].mail)
    BY <1>0, <1>1, <1>14 DEF ClearBodies, RowsFollowTasks, Delivered
  <2>2. \A m \in Mails : /\ mail'[m].taskId = mail[m].taskId /\ mail'[m].status = mail[m].status
                         /\ mail'[m].sentAt = mail[m].sentAt
                         /\ m # task[t0].mail => mail'[m] = mail[m]
    BY <1>0, <1>1, <1>14 DEF ClearBodies, SwallowedError, RunMail, TypeOK, MailRow
  <2>3. run'[w].pc = "settle"
    BY <1>4, <1>14 DEF ClearBodies
  <2> QED BY <1>1, <1>2, <2>1, <2>2, <2>3, RowsMove
<1>15. CASE ErrorHandler(w)
  BY <1>3, <1>6, <1>15 DEF ErrorHandler, SwallowedError, RunMail
<1> QED
  BY <1>8, <1>9, <1>10, <1>11, <1>12, <1>13, <1>14, <1>15 DEF HandlerStep

\* A request writes a row with what it knows of the task it enqueued or read.
LEMMA RowsRequest ==
    ASSUME IInv, [Next]_vars, NEW o \in Ops, RequestStep(o) \/ RequestFails(o)
    PROVE  RowsFollowTasks'
<1> DEFINE OpKnows(p, m) ==
             /\ op[p].ids[m] # NoTask => task[op[p].ids[m]].mail = m
             /\ m \in op[p].mails => /\ op[p].pc \notin {"idle", "enqueue"} => op[p].mails = {m}
                                     /\ op[p].pc = "retryTaskId" => op[p].ids[m] # NoTask
                                     /\ op[p].pc = "cancelDelete" => op[p].ids[m] # NoTask
                                     /\ op[p].pc = "retryStatus" => mail[m].taskId # NoTask
           RowOK(m) == /\ mail[m].status = "queued" => mail[m].taskId # NoTask
                       /\ mail[m].taskId # NoTask => task[mail[m].taskId].mail = m
<1>0. TypeOK /\ NoTask \notin Tasks /\ UNCHANGED <<run, dels>>
  BY RequestEffect, NoTaskAssumption DEF IInv
<1>1. /\ \A m \in Mails : RowOK(m) /\ \A p \in Ops : OpKnows(p, m)
      /\ \A v \in Workers : run[v].pc \in {"markSent", "clear"} => dels[run[v].task] > 0
  BY DEF IInv, RowsFollowTasks, QueuedHasOwnTask
\* What is left for each request: its own row and its own knowledge.
<1>2. ASSUME \A m \in Mails : /\ mail'[m].sentAt = mail[m].sentAt /\ mail'[m].body = mail[m].body
                              /\ mail'[m].status = "sent" => mail[m].status = "sent",
             \A m \in Mails : RowOK(m)' /\ \A p \in Ops : OpKnows(p, m)'
      PROVE  RowsFollowTasks'
  <2>1. SentMeansDelivered' /\ BodyKeptUntilDelivered'
    BY <1>2, DeliveredStays DEF IInv, RowsFollowTasks, SentMeansDelivered, BodyKeptUntilDelivered
  <2>2. \A v \in Workers : run'[v].pc \in {"markSent", "clear"} => dels'[run'[v].task] > 0
    BY <1>0, <1>1
  <2> QED BY <1>2, <2>1, <2>2 DEF RowsFollowTasks, QueuedHasOwnTask
<1>3. \A m \in Mails, t \in Tasks : task[t].mail = m => task'[t].mail = m
  BY DeliveredStays
<1>4. ASSUME NEW m \in Mails
      PROVE  /\ mail[m] \in MailRow
             /\ \A p \in Ops : op[p] \in OpRec /\ op[p].ids[m] \in Tasks \cup {NoTask}
             /\ mail[m].taskId \in Tasks \cup {NoTask}
  BY <1>0 DEF TypeOK, OpRec, MailRow
\* A request that only moves on, or ends.
<1>5. ASSUME UNCHANGED mail, \A p \in Ops : p # o => op'[p] = op[p],
             \A m \in Mails : OpKnows(o, m)'
      PROVE  RowsFollowTasks'
  <2>1. \A m \in Mails : RowOK(m)'
    BY <1>1, <1>3, <1>4, <1>5
  <2>2. \A m \in Mails, p \in Ops : p # o => OpKnows(p, m)'
    BY <1>1, <1>3, <1>4, <1>5
  <2> QED BY <1>2, <1>5, <2>1, <2>2
<1>6. \A m \in Mails : IdleOp.pc = "idle" /\ IdleOp.ids[m] = NoTask /\ IdleOp.mails = {}
  BY DEF IdleOp
<1>7. ASSUME op' = [op EXCEPT ![o] = IdleOp] PROVE \A m \in Mails : OpKnows(o, m)'
  BY <1>0, <1>6, <1>7 DEF TypeOK
\* Enqueueing: the id the request keeps is the one of the new task.
<1>8. ASSUME NEW m \in Mails, NEW t \in Tasks, Enqueue(m, t), UNCHANGED mail,
             NEW pc \in {"enqueue", "retryTaskId"},
             pc = "retryTaskId" => op[o].mails = {m},
             op' = [op EXCEPT ![o] = [op[o] EXCEPT !.pc = pc, !.ids = [op[o].ids EXCEPT ![m] = t]]]
      PROVE  RowsFollowTasks'
  <2>1. /\ op'[o].pc = pc /\ op'[o].mails = op[o].mails
        /\ op'[o].ids = [op[o].ids EXCEPT ![m] = t] /\ op[o].ids \in [Mails -> Tasks \cup {NoTask}]
    BY <1>0, <1>8 DEF TypeOK, OpRec
  <2>2. task'[t].mail = m /\ t # NoTask
    BY <1>0, <1>8, EnqueueEffect
  <2>3. \A k \in Mails : OpKnows(o, k)'
    BY <1>1, <1>3, <1>4, <1>8, <2>1, <2>2
  <2>4. \A q \in Ops : q # o => op'[q] = op[q]
    BY <1>0, <1>8 DEF TypeOK
  <2> QED BY <1>5, <1>8, <2>3, <2>4
\* Writing rows: a queued row has its task_id, which is what the request knew.
<1>9. ASSUME \A q \in Ops : q # o => op'[q] = op[q], \A m \in Mails : OpKnows(o, m)',
             \A m \in Mails :
               /\ mail'[m].sentAt = mail[m].sentAt /\ mail'[m].body = mail[m].body
               /\ mail'[m].status = "sent" => mail[m].status = "sent"
               /\ mail'[m].status = "queued" => mail'[m].taskId # NoTask
               /\ \/ mail'[m].taskId = mail[m].taskId
                  \/ mail'[m].taskId \in Tasks /\ task[mail'[m].taskId].mail = m
      PROVE  RowsFollowTasks'
  <2>1. ASSUME NEW m \in Mails PROVE RowOK(m)'
    BY <1>1, <1>3, <1>4, <1>9
  <2>2. ASSUME NEW m \in Mails, NEW q \in Ops, q # o PROVE OpKnows(q, m)'
    <3>1. mail[m].taskId # NoTask => mail'[m].taskId # NoTask
      BY <1>0, <1>9
    <3> QED BY <1>1, <1>3, <1>4, <1>9, <2>2, <3>1
  <2> QED BY <1>2, <1>9, <2>1, <2>2
<1>10. ASSUME NEW ms \in SUBSET Mails, CreateInsert(o, ms) PROVE RowsFollowTasks'
  <2>1. \A m \in Mails : mail'[m] \in {mail[m], [mail[m] EXCEPT !.status = "pending"]}
    BY <1>0, <1>10 DEF CreateInsert, InsertRows
  <2>2. \A m \in Mails : /\ mail'[m].sentAt = mail[m].sentAt /\ mail'[m].body = mail[m].body
                         /\ mail'[m].status \in {mail[m].status, "pending"}
                         /\ mail'[m].taskId = mail[m].taskId
    BY <1>4, <2>1 DEF MailRow
  <2>3. /\ op'[o].pc = "enqueue" /\ \A m \in Mails : op'[o].ids[m] = NoTask
        /\ \A q \in Ops : q # o => op'[q] = op[q]
    BY <1>0, <1>10 DEF CreateInsert, InsertRows, IdleOp, TypeOK
  <2> QED BY <1>1, <1>9, <2>2, <2>3
<1>11. ASSUME NEW m \in Mails, NEW t \in Tasks, CreateEnqueue(o, m, t) PROVE RowsFollowTasks'
  <2>1. op' = [op EXCEPT ![o] = [op[o] EXCEPT !.pc = "enqueue",
                                              !.ids = [op[o].ids EXCEPT ![m] = t]]]
    <3>1. op' = [op EXCEPT ![o] = [op[o] EXCEPT !.ids = [op[o].ids EXCEPT ![m] = t]]]
      BY <1>11 DEF CreateEnqueue
    <3>2. [op[o] EXCEPT !.ids = [op[o].ids EXCEPT ![m] = t]] =
          [op[o] EXCEPT !.pc = "enqueue", !.ids = [op[o].ids EXCEPT ![m] = t]]
      BY <1>4, <1>11 DEF CreateEnqueue, OpRec
    <3> QED BY <3>1, <3>2
  <2> QED BY <1>8, <1>11, <2>1 DEF CreateEnqueue
<1>12. ASSUME NEW ms \in SUBSET Mails, CreateSetQueued(o, ms) PROVE RowsFollowTasks'
  <2>1. ASSUME NEW m \in ms
        PROVE  m \in Mails /\ op[o].ids[m] \in Tasks /\ task[op[o].ids[m]].mail = m
    <3>1. m \in Mails /\ op[o].ids[m] # NoTask
      BY <1>12 DEF CreateSetQueued
    <3> QED BY <1>1, <1>4, <3>1
  <2>2. ASSUME NEW m \in Mails
        PROVE  /\ mail'[m].sentAt = mail[m].sentAt /\ mail'[m].body = mail[m].body
               /\ mail'[m].status = "sent" => mail[m].status = "sent"
               /\ mail'[m].status = "queued" => mail'[m].taskId # NoTask
               /\ \/ mail'[m].taskId = mail[m].taskId
                  \/ mail'[m].taskId \in Tasks /\ task[mail'[m].taskId].mail = m
    <3>1. CASE m \in ms
      <4>1. mail'[m] = [mail[m] EXCEPT !.status = "queued", !.taskId = op[o].ids[m]]
        BY <1>12, <3>1 DEF CreateSetQueued
      <4>2. /\ mail'[m].status = "queued" /\ mail'[m].taskId = op[o].ids[m]
            /\ mail'[m].sentAt = mail[m].sentAt /\ mail'[m].body = mail[m].body
        BY <1>4, <4>1 DEF MailRow
      <4> QED BY <1>0, <2>1, <3>1, <4>2
    <3>2. CASE m \notin ms
      BY <1>1, <1>12, <3>2 DEF CreateSetQueued
    <3> QED BY <3>1, <3>2
  <2>3. op' = [op EXCEPT ![o] = IdleOp]
        \/ op' = [op EXCEPT ![o] = [op[o] EXCEPT !.mails = op[o].mails \ ms]]
    BY <1>12 DEF CreateSetQueued
  <2>4. ASSUME op' = [op EXCEPT ![o] = [op[o] EXCEPT !.mails = op[o].mails \ ms]]
        PROVE  \A m \in Mails : OpKnows(o, m)'
    <3>1. op[o].pc = "enqueue" /\ op[o] \in OpRec
      BY <1>0, <1>12 DEF TypeOK, CreateSetQueued
    <3>2. op'[o] = [op[o] EXCEPT !.mails = op[o].mails \ ms]
      BY <1>0, <2>4 DEF TypeOK
    <3>3. op'[o].pc = "enqueue" /\ op'[o].ids = op[o].ids
      BY <3>1, <3>2 DEF OpRec
    <3> QED BY <1>1, <1>3, <1>4, <3>3
  <2>5. \A q \in Ops : q # o => op'[q] = op[q]
    BY <1>0, <2>3 DEF TypeOK
  <2> QED BY <1>7, <1>9, <2>2, <2>3, <2>4, <2>5
<1>13. ASSUME NEW m \in Mails, CancelRead(o, m) PROVE RowsFollowTasks'
  <2>1. /\ op'[o].pc = IF mail[m].taskId = NoTask THEN "cancelUpdate" ELSE "cancelDelete"
        /\ op'[o].mails = {m} /\ op'[o].ids = [IdleOp.ids EXCEPT ![m] = mail[m].taskId]
        /\ \A q \in Ops : q # o => op'[q] = op[q]
    BY <1>0, <1>13 DEF CancelRead, TypeOK
  <2>2. \A k \in Mails : op'[o].ids[k] = IF k = m THEN mail[m].taskId ELSE NoTask
    BY <2>1 DEF IdleOp
  <2>3. UNCHANGED <<mail, task, run, obs>>
    BY <1>13 DEF CancelRead
  <2> QED BY <1>1, <1>5, <1>13, <2>1, <2>2, <2>3 DEF CancelRead
<1>14. ASSUME NEW m \in Mails, CancelDelete(o, m) PROVE RowsFollowTasks'
  <2>1. /\ op'[o].pc = "cancelUpdate" /\ op'[o].ids = op[o].ids
        /\ op'[o].mails = op[o].mails /\ op[o].pc = "cancelDelete"
        /\ \A q \in Ops : q # o => op'[q] = op[q]
    <3>1. op' = [op EXCEPT ![o] = [op[o] EXCEPT !.pc = "cancelUpdate"]]
      BY <1>14 DEF CancelDelete
    <3>2. op \in [Ops -> OpRec] /\ op[o].pc = "cancelDelete"
      BY <1>0, <1>14 DEF TypeOK, CancelDelete
    <3> QED BY <3>1, <3>2 DEF OpRec
  <2>2. UNCHANGED mail
    BY <1>14 DEF CancelDelete
  <2>3. \A k \in Mails : OpKnows(o, k)'
    BY <1>1, <1>3, <1>4, <2>1
  <2> QED BY <1>5, <2>1, <2>2, <2>3
<1>15. ASSUME NEW m \in Mails, CancelUpdate(o, m) PROVE RowsFollowTasks'
  <2>1. \A k \in Mails : /\ mail'[k].sentAt = mail[k].sentAt /\ mail'[k].body = mail[k].body
                         /\ mail'[k].status \in {mail[k].status, "cancelled"}
                         /\ mail'[k].taskId = mail[k].taskId
    BY <1>0, <1>15 DEF CancelUpdate, UpdateStatus, TypeOK, MailRow
  <2>2. op' = [op EXCEPT ![o] = IdleOp] /\ \A q \in Ops : q # o => op'[q] = op[q]
    BY <1>0, <1>15 DEF CancelUpdate, TypeOK
  <2> QED BY <1>1, <1>7, <1>9, <2>1, <2>2
<1>16. ASSUME NEW m \in Mails, RetryRead(o, m) PROVE RowsFollowTasks'
  <2>1. /\ op'[o].pc = "retryEnqueue" /\ \A k \in Mails : op'[o].ids[k] = NoTask
        /\ \A q \in Ops : q # o => op'[q] = op[q]
    BY <1>0, <1>16 DEF RetryRead, TypeOK, IdleOp
  <2> QED BY <1>5, <1>16, <2>1 DEF RetryRead
<1>17. ASSUME NEW m \in Mails, NEW t \in Tasks, RetryEnqueue(o, m, t) PROVE RowsFollowTasks'
  <2>1. op' = [op EXCEPT ![o] = [op[o] EXCEPT !.pc = "retryTaskId",
                                              !.ids = [op[o].ids EXCEPT ![m] = t]]]
    BY <1>17, Zenon DEF RetryEnqueue
  <2>2. op[o].pc = "retryEnqueue" /\ op[o].mails = {m} /\ Enqueue(m, t) /\ UNCHANGED mail
    BY <1>1, <1>17 DEF RetryEnqueue
  <2> QED BY <1>8, <2>1, <2>2, Zenon
<1>18. ASSUME NEW m \in Mails, RetryTaskId(o, m) PROVE RowsFollowTasks'
  <2>1. /\ op[o].pc = "retryTaskId" /\ op[o].mails = {m} /\ op[o].ids[m] \in Tasks
        /\ task[op[o].ids[m]].mail = m
    BY <1>1, <1>4, <1>18 DEF RetryTaskId
  <2>2. /\ op'[o].pc = "retryStatus" /\ op'[o].mails = {m} /\ op'[o].ids = op[o].ids
        /\ \A q \in Ops : q # o => op'[q] = op[q]
    BY <1>0, <1>4, <1>18, <2>1 DEF RetryTaskId, TypeOK, OpRec
  <2>3. mail'[m] = [mail[m] EXCEPT !.taskId = op[o].ids[m]]
    BY <1>0, <1>18 DEF RetryTaskId, TypeOK
  <2>4. /\ mail'[m].taskId = op[o].ids[m] /\ mail'[m].status = mail[m].status
        /\ mail'[m].sentAt = mail[m].sentAt /\ mail'[m].body = mail[m].body
    BY <1>4, <2>3 DEF MailRow
  <2>5. \A k \in Mails : k # m => mail'[k] = mail[k]
    BY <1>0, <1>18 DEF RetryTaskId, TypeOK
  <2>6. \A k \in Mails : OpKnows(o, k)'
    BY <1>0, <1>1, <1>3, <1>4, <2>1, <2>2, <2>4
  <2>7. ASSUME NEW k \in Mails
        PROVE  /\ mail'[k].sentAt = mail[k].sentAt /\ mail'[k].body = mail[k].body
               /\ mail'[k].status = "sent" => mail[k].status = "sent"
               /\ mail'[k].status = "queued" => mail'[k].taskId # NoTask
               /\ \/ mail'[k].taskId = mail[k].taskId
                  \/ mail'[k].taskId \in Tasks /\ task[mail'[k].taskId].mail = k
    BY <1>0, <1>1, <2>1, <2>4, <2>5
  <2> QED BY <1>9, <2>2, <2>6, <2>7
<1>19. ASSUME NEW m \in Mails, RetryStatus(o, m) PROVE RowsFollowTasks'
  <2>1. mail[m].taskId # NoTask
    BY <1>1, <1>19 DEF RetryStatus
  <2>2. mail'[m] = [mail[m] EXCEPT !.status = "queued"] /\ \A k \in Mails : k # m => mail'[k] = mail[k]
    BY <1>0, <1>19 DEF RetryStatus, UpdateStatus, TypeOK
  <2>3. /\ mail'[m].status = "queued" /\ mail'[m].taskId = mail[m].taskId
        /\ mail'[m].sentAt = mail[m].sentAt /\ mail'[m].body = mail[m].body
    BY <1>4, <2>2 DEF MailRow
  <2>4. op' = [op EXCEPT ![o] = IdleOp] /\ \A q \in Ops : q # o => op'[q] = op[q]
    BY <1>0, <1>19 DEF RetryStatus, TypeOK
  <2>5. ASSUME NEW k \in Mails
        PROVE  /\ mail'[k].sentAt = mail[k].sentAt /\ mail'[k].body = mail[k].body
               /\ mail'[k].status = "sent" => mail[k].status = "sent"
               /\ mail'[k].status = "queued" => mail'[k].taskId # NoTask
               /\ mail'[k].taskId = mail[k].taskId
    BY <1>1, <2>1, <2>2, <2>3
  <2> QED BY <1>7, <1>9, <2>4, <2>5
<1>20. ASSUME RequestFails(o) PROVE RowsFollowTasks'
  BY <1>0, <1>5, <1>7, <1>20 DEF RequestFails, TypeOK
<1> QED
  BY <1>10, <1>11, <1>12, <1>13, <1>14, <1>15, <1>16, <1>17, <1>18, <1>19, <1>20 DEF RequestStep

LEMMA RowsStep == ASSUME IInv, [Next]_vars PROVE RowsFollowTasks'
<1>0. RowsFollowTasks /\ RunsHoldTasks /\ TypeOK  BY DEF IInv
<1>1. ASSUME UNCHANGED <<mail, op, dels>>,
             \A v \in Workers : run'[v].pc \in {"markSent", "clear"} => run'[v] = run[v]
      PROVE  RowsFollowTasks'
  <2>1. \A v \in Workers : run'[v].pc \in {"markSent", "clear"} => dels'[run'[v].task] > 0
    BY <1>0, <1>1 DEF RowsFollowTasks
  <2> QED BY <1>1, <2>1, RowsMove
<1>2. CASE UNCHANGED vars
  BY <1>1, <1>2 DEF vars, obs
<1>3. ASSUME NEW o \in Ops, RequestStep(o) \/ RequestFails(o) PROVE RowsFollowTasks'
  BY <1>3, RowsRequest
<1>4. ASSUME NEW w \in Workers, HandlerStep(w), ~Settle(w) PROVE RowsFollowTasks'
  BY <1>4, RowsHandler
<1>5. ASSUME NEW w \in Workers, Settle(w) \/ WorkerCrash(w) \/ WorkerShutdown(w)
      PROVE  RowsFollowTasks'
  <2>1. \A v \in Workers : run'[v].pc \in {"markSent", "clear"} => run'[v] = run[v]
    BY <1>0, <1>5, EndEffect DEF TypeOK, IdleRun
  <2> QED BY <1>1, <1>5, <2>1, EndEffect
<1>6. ASSUME NEW w \in Workers, NEW t \in Tasks, Dequeue(w, t) PROVE RowsFollowTasks'
  <2>1. \A v \in Workers : run'[v].pc \in {"markSent", "clear"} => run'[v] = run[v]
    BY <1>0, <1>6, DequeueEffect DEF TypeOK
  <2> QED BY <1>1, <1>6, <2>1, DequeueEffect
<1>7. ASSUME NEW t \in Tasks, Recover(t) PROVE RowsFollowTasks'
  BY <1>1, <1>7, RecoverEffect
<1> QED BY <1>2, <1>3, <1>4, <1>5, <1>6, <1>7 DEF Next

-----------------------------------------------------------------------------
(* The failures that a task has had.                                         *)

LEMMA AfterReturnCounts ==
    ASSUME NEW tr \in TaskRec, NEW res \in Results
    PROVE  /\ AfterReturn(tr, res).retried \in {tr.retried, tr.retried + 1}
           /\ res \in {"sent", "cancelled", "delayed"} => AfterReturn(tr, res).retried = tr.retried
<1>1. \A s : /\ [tr EXCEPT !.state = s].retried = tr.retried
             /\ [tr EXCEPT !.state = s, !.retried = tr.retried + 1].retried = tr.retried + 1
  BY DEF TaskRec
<1> QED BY <1>1 DEF AfterReturn, IsFailure

\* Requests and running handlers leave the count alone and add at most a task that was
\* found unsendable; the end of a run and the recoverer add one to it.
LEMMA FailuresMove ==
    ASSUME TypeOK, [Next]_vars
    PROVE  \A t \in Tasks : /\ failures'[t] = failures[t] \/ failures'[t] = failures[t] + 1
                            /\ unsendable[t] => unsendable'[t]
<1> USE DEF TypeOK, obs
<1>1. CASE UNCHANGED vars
  BY <1>1 DEF vars
<1>2. ASSUME NEW o \in Ops, RequestStep(o) \/ RequestFails(o) PROVE UNCHANGED <<failures, unsendable>>
  BY <1>2 DEF RequestStep, RequestFails, CreateInsert, CreateSetQueued, CreateEnqueue,
     RetryEnqueue, CancelRead, CancelDelete, CancelUpdate, RetryRead, RetryTaskId, RetryStatus
<1>3. ASSUME NEW w \in Workers, HandlerStep(w), ~PrepareUnsendable(w), ~Settle(w)
      PROVE  UNCHANGED <<failures, unsendable>>
  BY <1>3 DEF HandlerStep, Load, CallFails, PrepareReady, PrepareDelayed,
     MarkSending, SendSucceeds, SendErrs, AfterSendError, MarkSent, ClearBodies, ErrorHandler
<1>4. ASSUME NEW w \in Workers, PrepareUnsendable(w)
      PROVE  failures' = failures /\ \A t \in Tasks : unsendable[t] => unsendable'[t]
  BY <1>4 DEF PrepareUnsendable
<1>5. ASSUME NEW w \in Workers, WorkerCrash(w) \/ WorkerShutdown(w)
      PROVE  UNCHANGED <<failures, unsendable>>
  BY <1>5 DEF WorkerCrash, WorkerShutdown
<1>6. ASSUME NEW t \in Tasks, CountFailure(t)
      PROVE  \A u \in Tasks : failures'[u] = failures[u] \/ failures'[u] = failures[u] + 1
  BY <1>6 DEF CountFailure
<1>7. ASSUME NEW w \in Workers, Settle(w)
      PROVE  /\ unsendable' = unsendable
             /\ \A u \in Tasks : failures'[u] = failures[u] \/ failures'[u] = failures[u] + 1
  BY <1>7 DEF Settle, CountFailure
<1>8. ASSUME NEW t \in Tasks, Recover(t)
      PROVE  /\ unsendable' = unsendable
             /\ \A u \in Tasks : failures'[u] = failures[u] \/ failures'[u] = failures[u] + 1
  BY <1>6, <1>8 DEF Recover
<1>9. ASSUME NEW w \in Workers, NEW t \in Tasks, Dequeue(w, t) PROVE UNCHANGED <<failures, unsendable>>
  BY <1>9 DEF Dequeue
<1> QED BY <1>1, <1>2, <1>3, <1>4, <1>5, <1>7, <1>8, <1>9 DEF Next

\* Every retry that Asynq counts was a failure.
LEMMA RetriesStep == ASSUME IInv, [Next]_vars PROVE RetriesAreFailures'
<1>0. /\ TypeOK /\ TypeOK' /\ RetriesAreFailures
      /\ \A t \in Tasks : /\ failures[t] \in Nat /\ failures'[t] \in Nat
                           /\ task[t].retried \in Nat /\ task'[t].retried \in Nat
                           /\ task[t].retried <= failures[t] /\ failures[t] <= failures'[t]
  <2>1. TypeOK /\ TypeOK' /\ RetriesAreFailures
    BY NextType DEF IInv
  <2>2. \A t \in Tasks : /\ failures[t] \in Nat /\ failures'[t] \in Nat
                         /\ task[t].retried \in Nat /\ task'[t].retried \in Nat
    BY <2>1, MaxRetryAssumption DEF TypeOK, TaskRec
  <2> QED BY <2>1, <2>2, FailuresMove DEF RetriesAreFailures
<1>1. SUFFICES ASSUME NEW t \in Tasks PROVE task'[t].retried <= failures'[t]
  BY DEF RetriesAreFailures
<1>2. CASE task'[t].retried <= task[t].retried
  BY <1>0, <1>2
<1>3. ASSUME NEW o \in Ops, RequestStep(o) \/ RequestFails(o) PROVE task'[t].retried <= task[t].retried
  <2>1. ASSUME NEW m \in Mails, NEW u \in Tasks, Enqueue(m, u)
        PROVE  task'[t] = task[t] \/ task'[t].retried = 0
    BY <1>0, <2>1 DEF Enqueue, TypeOK
  <2>2. ASSUME NEW u \in Tasks, task' = [task EXCEPT ![u].state = "deleted"]
        PROVE  task'[t].retried = task[t].retried
    BY <1>0, <2>2 DEF TypeOK, TaskRec
  <2> QED BY <1>0, <1>3, <2>1, <2>2, RequestEffect
<1>4. ASSUME NEW w \in Workers, HandlerStep(w), ~Settle(w) PROVE task' = task
  BY <1>4, HandlerEffect
<1>5. ASSUME NEW w \in Workers, WorkerCrash(w) \/ WorkerShutdown(w)
      PROVE  task'[t].retried = task[t].retried
  <2>1. CASE WorkerCrash(w)
    BY <2>1 DEF WorkerCrash
  <2>2. CASE WorkerShutdown(w)
    <3>1. task[t] \in TaskRec
      BY <1>0 DEF TypeOK
    <3>2. task'[t] = task[t] \/ task'[t] = [task[t] EXCEPT !.state = "pending"]
      BY <1>0, <2>2 DEF WorkerShutdown, TypeOK
    <3> QED BY <3>1, <3>2 DEF TaskRec
  <2> QED BY <1>5, <2>1, <2>2
<1>6. ASSUME NEW w \in Workers, NEW u \in Tasks, Dequeue(w, u) PROVE task'[t].retried = task[t].retried
  BY <1>0, <1>6 DEF Dequeue, TypeOK, TaskRec
<1>7. ASSUME NEW w \in Workers, Settle(w), run[w].task = t PROVE task'[t].retried <= failures'[t]
  <2>1. /\ task'[t] = AfterReturn(task[t], run[w].result)
        /\ task[t] \in TaskRec /\ run[w].result \in Results
    BY <1>0, <1>7 DEF Settle, TypeOK, RunRec
  <2>2. CASE run[w].result \in {"sent", "cancelled", "delayed"}
    BY <1>0, <2>1, <2>2, AfterReturnCounts
  <2>3. CASE run[w].result \notin {"sent", "cancelled", "delayed"}
    <3>1. failures'[t] = failures[t] + 1
      BY <1>0, <1>7, <2>3 DEF Settle, CountFailure, TypeOK
    <3>2. task'[t].retried \in {task[t].retried, task[t].retried + 1}
      BY <2>1, AfterReturnCounts
    <3> QED BY <1>0, <3>1, <3>2
  <2> QED BY <2>2, <2>3
<1>8. ASSUME NEW w \in Workers, Settle(w), run[w].task # t PROVE task'[t] = task[t]
  BY <1>8, EndEffect
<1>9. ASSUME NEW u \in Tasks, Recover(u) PROVE task'[t].retried <= failures'[t]
  <2>1. CASE u # t
    <3>1. task'[t] = task[t]
      BY <1>0, <1>9, <2>1, RecoverEffect DEF TypeOK
    <3> QED BY <1>0, <3>1
  <2>2. CASE u = t
    <3>1. failures'[t] = failures[t] + 1
      BY <1>0, <1>9, <2>2 DEF Recover, CountFailure, TypeOK
    <3>2. task'[t].retried \in {task[t].retried, task[t].retried + 1}
      BY <1>9, <2>2, RecoverEffect
    <3> QED BY <1>0, <3>1, <3>2
  <2> QED BY <2>1, <2>2
<1> QED
  BY <1>0, <1>2, <1>3, <1>4, <1>5, <1>6, <1>7, <1>8, <1>9 DEF Next, vars

LEMMA InitInv == Init => IInv
<1> SUFFICES ASSUME Init PROVE IInv
  OBVIOUS
<1>1. TypeOK
  BY InitType
<1>2. RunsHoldTasks
  BY DEF Init, RunsHoldTasks, IdleRun
<1>3. FreeIsNew
  BY DEF Init, FreeIsNew
<1>4. AttemptsCounted
  BY DEF Init, AttemptsCounted, NotYetTried, IdleRun
<1>5. RowsFollowTasks
  BY DEF Init, RowsFollowTasks, SentMeansDelivered, BodyKeptUntilDelivered, QueuedHasOwnTask,
     IdleRun, IdleOp
<1>6. RetriesAreFailures
  BY DEF Init, RetriesAreFailures
<1> QED BY <1>1, <1>2, <1>3, <1>4, <1>5, <1>6 DEF IInv

-----------------------------------------------------------------------------
(* The theorems.                                                             *)

\* The inductive invariant: a busy worker owns its active task, a task's retry
\* count pays for the sends it was granted, and every claim of a row is backed
\* by what the tasks of its mail did, which a run or a request remembers between
\* the calls it makes.
THEOREM InductiveInvariant == Spec => []IInv
<1>1. Init => IInv
  BY InitInv
<1>2. IInv /\ [Next]_vars => IInv'
  <2> SUFFICES ASSUME IInv, [Next]_vars PROVE IInv'
    OBVIOUS
  <2>1. TypeOK'
    BY NextType DEF IInv
  <2> QED BY <2>1, HoldStep, FreshStep, CountStep, RowsStep, RetriesStep DEF IInv
<1> QED BY <1>1, <1>2, PTL DEF Spec

\* Whatever crashes, shutdowns, delays and failures happen, a task calls the SMTP
\* server at most MaxRetry + 1 times, plus once per shutdown that put it back
\* without counting: HandleMailSend returns ErrRateLimited and ErrCircuitOpen,
\* the errors IsFailure does not count, before MarkSending only.
THEOREM AttemptsAreBounded == Spec => []AttemptsBounded
<1>1. IInv => AttemptsBounded
  <2> SUFFICES ASSUME IInv, NEW t \in Tasks
               PROVE  dels[t] <= tries[t] /\ tries[t] <= MaxRetry + 1 + requeued[t]
    BY DEF AttemptsBounded
  <2>1. /\ dels[t] <= tries[t] /\ tries[t] <= task[t].retried + requeued[t] + 1
        /\ task[t].retried \in 0..MaxRetry
        /\ tries[t] \in Nat /\ requeued[t] \in Nat /\ MaxRetry \in Nat
    BY MaxRetryAssumption DEF IInv, AttemptsCounted, TypeOK, TaskRec
  <2> QED BY <2>1
<1> QED BY <1>1, InductiveInvariant, PTL

\* A row says sent, or has a sent_at, only if the SMTP server accepted a message
\* for one of the mail's tasks: MarkSent follows a successful Send of the same run,
\* and no later write of a request or of another run breaks the claim.
THEOREM SentIsDelivered == Spec => []SentMeansDelivered
<1>1. IInv => SentMeansDelivered
  BY DEF IInv, RowsFollowTasks
<1> QED BY <1>1, InductiveInvariant, PTL

\* ClearBodies never destroys the text of a mail that was not delivered.
THEOREM BodySurvivesUntilDelivery == Spec => []BodyKeptUntilDelivered
<1>1. IInv => BodyKeptUntilDelivered
  BY DEF IInv, RowsFollowTasks
<1> QED BY <1>1, InductiveInvariant, PTL

\* A queued row names a task, and every task_id names a task of that very mail,
\* through chunked campaigns, retries and cancellations of the same mail: so
\* Cancel never deletes the task of another mail.
THEOREM TaskIdIsOwn == Spec => []QueuedHasOwnTask
<1>1. IInv => QueuedHasOwnTask
  BY DEF IInv, RowsFollowTasks
<1> QED BY <1>1, InductiveInvariant, PTL

-----------------------------------------------------------------------------
(* What Asynq forgets.                                                       *)

\* No write of a row clears sent_at.
LEMMA SentAtStays ==
    ASSUME IInv, [Next]_vars, NEW m \in Mails, mail[m].sentAt
    PROVE  mail'[m].sentAt
<1>0. TypeOK  BY DEF IInv
<1>1. \A x, s : UpdateStatus(x, s) => mail'[m].sentAt = mail[m].sentAt
  BY <1>0 DEF UpdateStatus, TypeOK, MailRow
<1>2. ASSUME NEW o \in Ops, RequestStep(o) \/ RequestFails(o) PROVE mail'[m].sentAt
  <2>1. ASSUME NEW ms \in SUBSET Mails, CreateInsert(o, ms) \/ CreateSetQueued(o, ms)
        PROVE  mail'[m].sentAt
    <3>1. mail[m] \in MailRow
      BY <1>0 DEF TypeOK
    <3>2. CASE CreateInsert(o, ms)
      <4>1. mail'[m] = [mail[m] EXCEPT !.status = "pending"] \/ mail'[m] = mail[m]
        BY <3>2 DEF CreateInsert, InsertRows
      <4> QED BY <3>1, <4>1 DEF MailRow
    <3>3. CASE CreateSetQueued(o, ms)
      <4>1. \/ mail'[m] = [mail[m] EXCEPT !.status = "queued", !.taskId = op[o].ids[m]]
            \/ mail'[m] = mail[m]
        BY <3>3 DEF CreateSetQueued
      <4> QED BY <3>1, <4>1 DEF MailRow
    <3> QED BY <2>1, <3>2, <3>3
  <2>2. ASSUME NEW x \in Mails, RetryTaskId(o, x) PROVE mail'[m].sentAt
    BY <1>0, <2>2 DEF RetryTaskId, TypeOK, MailRow
  <2>3. ASSUME NEW x \in Mails, CancelUpdate(o, x) \/ RetryStatus(o, x) PROVE mail'[m].sentAt
    BY <1>1, <2>3 DEF CancelUpdate, RetryStatus
  <2>4. ASSUME UNCHANGED mail PROVE mail'[m].sentAt
    BY <2>4
  <2> QED
    BY <1>2, <2>1, <2>2, <2>3, <2>4 DEF RequestStep, RequestFails, CreateEnqueue, RetryEnqueue,
       CancelRead, CancelDelete, RetryRead
<1>3. ASSUME NEW w \in Workers, HandlerStep(w), ~Settle(w) PROVE mail'[m].sentAt
  <2>1. CASE MarkSending(w)
    BY <1>0, <2>1 DEF MarkSending, TypeOK, MailRow
  <2>2. CASE MarkSent(w)
    BY <1>0, <2>2 DEF MarkSent, TypeOK, MailRow
  <2>3. CASE ClearBodies(w)
    BY <1>0, <2>3 DEF ClearBodies, SwallowedError, TypeOK, MailRow
  <2>4. CASE PrepareUnsendable(w) \/ AfterSendError(w) \/ ErrorHandler(w)
    BY <1>1, <2>4 DEF PrepareUnsendable, AfterSendError, ErrorHandler, SwallowedError
  <2>5. CASE UNCHANGED mail
    BY <2>5
  <2> QED
    BY <1>3, <2>1, <2>2, <2>3, <2>4, <2>5 DEF HandlerStep, Load, CallFails, PrepareReady,
       PrepareDelayed, SendSucceeds, SendErrs
<1>4. ASSUME NEW w \in Workers, Settle(w) \/ WorkerCrash(w) \/ WorkerShutdown(w)
      PROVE  mail'[m].sentAt
  BY <1>4, EndEffect
<1>5. ASSUME NEW w \in Workers, NEW t \in Tasks, Dequeue(w, t) PROVE mail'[m].sentAt
  BY <1>5, DequeueEffect
<1>6. ASSUME NEW t \in Tasks, Recover(t) PROVE mail'[m].sentAt
  BY <1>6, RecoverEffect
<1> QED BY <1>2, <1>3, <1>4, <1>5, <1>6 DEF Next, vars

\* A run that goes on with what it holds keeps what it has recorded.
LEMMA RecordedStays ==
    ASSUME IInv, ReturnsAreRecorded, [Next]_vars, NEW w \in Workers, run'[w].task = run[w].task,
           run[w].pc = "clear" \/ run[w].result = "sent"
    PROVE  run'[w].task \in Tasks /\ dels'[run'[w].task] > 0 /\ mail'[RunMail(w)'].sentAt
<1> DEFINE t0 == run[w].task
<1>1. t0 \in Tasks /\ dels[t0] > 0 /\ mail[task[t0].mail].sentAt
  BY DEF ReturnsAreRecorded, RunMail
<1>2. run[w] # IdleRun
  BY <1>1, NoTaskAssumption DEF IdleRun
<1>3. task[t0].state # "free" /\ task[t0].mail \in Mails
  BY <1>1, <1>2 DEF IInv, RunsHoldTasks, FreeIsNew
<1>4. task'[t0].mail = task[t0].mail /\ dels'[t0] >= dels[t0]
  BY <1>1, <1>3, TaskKeepsMail
<1>5. dels[t0] \in Nat /\ dels'[t0] \in Nat
  BY <1>1, NextType DEF IInv, TypeOK
<1>6. mail'[task[t0].mail].sentAt
  BY <1>1, <1>3, SentAtStays
<1> QED BY <1>1, <1>4, <1>5, <1>6 DEF RunMail

LEMMA RecordedStep == ASSUME IInv, ReturnsAreRecorded, [Next]_vars PROVE ReturnsAreRecorded'
<1> DEFINE Recorded(w) == run[w].pc = "clear" \/ run[w].result = "sent" =>
             run[w].task \in Tasks /\ dels[run[w].task] > 0 /\ mail[RunMail(w)].sentAt
<1>0. TypeOK /\ RunsHoldTasks  BY DEF IInv
<1>1. ASSUME NEW v \in Workers, run'[v] = run[v] PROVE Recorded(v)'
  BY <1>1, RecordedStays DEF RunMail
<1>2. ASSUME NEW v \in Workers, run'[v].pc # "clear", run'[v].result # "sent" PROVE Recorded(v)'
  BY <1>2
<1>3. ASSUME NEW w \in Workers, HandlerStep(w), ~Settle(w) PROVE Recorded(w)'
  <2>0. run[w].pc \in {"load", "prepare", "mark", "send", "markSent", "clear"} =>
          run[w].result = "none"
    BY DEF IInv, AttemptsCounted
  <2>1. \A pc : Goto(w, pc) => /\ run'[w].pc = pc /\ run'[w].task = run[w].task
                               /\ run'[w].result = run[w].result
    BY <1>0 DEF Goto, TypeOK, RunRec
  <2>2. \A pc, res : Return(w, pc, res) => /\ run'[w].pc = pc /\ run'[w].task = run[w].task
                                           /\ run'[w].result = res
    BY <1>0 DEF Return, TypeOK, RunRec
  <2>3. CASE Load(w) \/ CallFails(w) \/ PrepareReady(w) \/ PrepareDelayed(w)
             \/ PrepareUnsendable(w)
    BY <1>2, <2>0, <2>1, <2>2, <2>3 DEF Load, CallFails, PrepareReady, PrepareDelayed,
       PrepareUnsendable
  <2>4. CASE MarkSending(w) \/ SendSucceeds(w) \/ SendErrs(w)
    BY <1>2, <2>0, <2>1, <2>2, <2>4 DEF MarkSending, SendSucceeds, SendErrs
  <2>5. CASE AfterSendError(w) \/ ErrorHandler(w)
    <3>1. run'[w].pc # "clear" /\ run'[w].task = run[w].task /\ run'[w].result = run[w].result
      BY <2>1, <2>5 DEF AfterSendError, ErrorHandler
    <3> QED BY <3>1, RecordedStays
  <2>6. CASE MarkSent(w)
    <3> DEFINE t0 == run[w].task
    <3>1. run[w].pc = "markSent" /\ UNCHANGED <<task, dels>> /\ run'[w].task = t0
      BY <2>1, <2>6 DEF MarkSent, obs
    <3>2. t0 \in Tasks /\ task[t0].mail \in Mails /\ dels[t0] > 0
      BY <3>1 DEF IInv, RunsHoldTasks, FreeIsNew, RowsFollowTasks, IdleRun
    <3>3. mail'[task[t0].mail].sentAt
      BY <1>0, <2>6, <3>2 DEF MarkSent, RunMail, TypeOK, MailRow
    <3> QED BY <3>1, <3>2, <3>3 DEF RunMail
  <2>7. CASE ClearBodies(w)
    <3>1. run[w].pc = "clear" /\ run'[w].task = run[w].task
      BY <2>2, <2>7 DEF ClearBodies
    <3> QED BY <3>1, RecordedStays
  <2> QED BY <1>3, <2>3, <2>4, <2>5, <2>6, <2>7 DEF HandlerStep
<1>4. ASSUME NEW w \in Workers, HandlerStep(w), ~Settle(w) PROVE \A v \in Workers : Recorded(v)'
  <2>1. \A v \in Workers : v # w => run'[v] = run[v]
    BY <1>0, <1>4, HandlerEffect DEF TypeOK
  <2> QED BY <1>1, <1>3, <1>4, <2>1
<1>5. ASSUME NEW w \in Workers, Settle(w) \/ WorkerCrash(w) \/ WorkerShutdown(w)
      PROVE  \A v \in Workers : Recorded(v)'
  <2>1. run' = [run EXCEPT ![w] = IdleRun]
    BY <1>5, EndEffect
  <2>2. \A v \in Workers : run'[v] = run[v] \/ run'[v] = IdleRun
    BY <1>0, <2>1 DEF TypeOK
  <2> QED BY <1>1, <1>2, <2>2 DEF IdleRun
<1>6. ASSUME NEW w \in Workers, NEW t \in Tasks, Dequeue(w, t)
      PROVE  \A v \in Workers : Recorded(v)'
  <2>1. run' = [run EXCEPT ![w] = [pc |-> "load", task |-> t, result |-> "none"]]
    BY <1>6 DEF Dequeue
  <2>2. \A v \in Workers : \/ run'[v] = run[v]
                           \/ run'[v] = [pc |-> "load", task |-> t, result |-> "none"]
    BY <1>0, <2>1 DEF TypeOK
  <2> QED BY <1>1, <1>2, <2>2
<1>7. ASSUME UNCHANGED run PROVE \A v \in Workers : Recorded(v)'
  BY <1>1, <1>7
<1>8. \A o \in Ops : RequestStep(o) \/ RequestFails(o) => UNCHANGED run
  BY RequestEffect
<1>9. \A t \in Tasks : Recover(t) => UNCHANGED run
  BY DEF Recover
<1> QED BY <1>4, <1>5, <1>6, <1>7, <1>8, <1>9 DEF ReturnsAreRecorded, Next, vars

\* Only a run that returns nil makes Asynq forget its task.
LEMMA OnlyReturnsForget ==
    ASSUME IInv, [Next]_vars, NEW t \in Tasks, task[t].state # "gone", task'[t].state = "gone"
    PROVE  \E w \in Workers : run[w].task = t /\ run[w].result \in {"sent", "cancelled"}
<1>0. TypeOK  BY DEF IInv
<1>1. ASSUME NEW o \in Ops, RequestStep(o) \/ RequestFails(o) PROVE FALSE
  <2>1. CASE UNCHANGED task
    BY <2>1
  <2>2. ASSUME NEW m \in Mails, NEW x \in Tasks, Enqueue(m, x) PROVE FALSE
    BY <1>0, <2>2, EnqueueEffect DEF TypeOK
  <2>3. ASSUME NEW x \in Tasks, task' = [task EXCEPT ![x].state = "deleted"] PROVE FALSE
    BY <1>0, <2>3 DEF TypeOK, TaskRec
  <2> QED BY <1>1, <2>1, <2>2, <2>3, RequestEffect
<1>2. ASSUME NEW w \in Workers, Settle(w) PROVE run[w].task = t /\ run[w].result \in {"sent", "cancelled"}
  <2> DEFINE t0 == run[w].task
             tr == task[t0]
  <2>1. t0 = t
    BY <1>2, EndEffect
  <2>2. task'[t] = AfterReturn(tr, run[w].result) /\ tr \in TaskRec
    BY <1>0, <1>2, <2>1 DEF Settle, TypeOK
  <2>3. \A s \in {"retry", "archived"} : \A n :
           /\ [tr EXCEPT !.state = s].state # "gone"
           /\ [tr EXCEPT !.state = s, !.retried = n].state # "gone"
    BY <2>2 DEF TaskRec
  <2> HIDE DEF tr
  <2>4. run[w].result \in {"sent", "cancelled"}
    BY <2>2, <2>3 DEF AfterReturn
  <2> QED BY <2>1, <2>4
<1>3. ASSUME NEW w \in Workers, WorkerCrash(w) \/ WorkerShutdown(w) PROVE FALSE
  BY <1>0, <1>3 DEF WorkerCrash, WorkerShutdown, TypeOK, TaskRec
<1>4. ASSUME NEW w \in Workers, HandlerStep(w), ~Settle(w) PROVE FALSE
  BY <1>4, HandlerEffect
<1>5. ASSUME NEW w \in Workers, NEW u \in Tasks, Dequeue(w, u) PROVE FALSE
  BY <1>0, <1>5, DequeueEffect DEF TypeOK
<1>6. ASSUME NEW u \in Tasks, Recover(u) PROVE FALSE
  BY <1>0, <1>6, RecoverEffect DEF TypeOK
<1>7. task' # task
  OBVIOUS
<1> QED BY <1>1, <1>2, <1>3, <1>4, <1>5, <1>6, <1>7 DEF Next, vars

\* Asynq forgets a task only once its mail was accepted and says so (MarkSent comes
\* before the nil of HandleMailSend, and nothing clears sent_at), or for a run that
\* read a cancelled row: no crash, shutdown, retry or overlapping request makes a
\* task vanish otherwise.
THEOREM NothingIsLostSilently == Spec => NoSilentLoss
<1> DEFINE Forgets(t) == task[t].state # "gone" /\ task'[t].state = "gone" =>
             \/ dels[t] > 0 /\ mail[task[t].mail].sentAt
             \/ \E w \in Workers : run[w].task = t /\ run[w].result = "cancelled"
<1>1. Init => ReturnsAreRecorded
  BY DEF Init, ReturnsAreRecorded, IdleRun
<1>2. IInv /\ ReturnsAreRecorded /\ [Next]_vars => ReturnsAreRecorded'
  BY RecordedStep
<1>3. IInv /\ ReturnsAreRecorded /\ [Next]_vars => [\A t \in Tasks : Forgets(t)]_vars
  BY OnlyReturnsForget DEF ReturnsAreRecorded, RunMail
<1> QED BY <1>1, <1>2, <1>3, InductiveInvariant, PTL DEF Spec, NoSilentLoss

-----------------------------------------------------------------------------
(* What a cancelled mail may still see.                                      *)

\* Past Load and before the writes of a run.
Holding(w) == run[w].pc \notin {"idle", "load", "onError", "settle"}

Busy(w) == run[w] # IdleRun

\* A quiet mail stays quiet when nobody writes its row or takes it up.
LEMMA QuietMove ==
    ASSUME NEW m \in Mails, CancelledAndQuiet(m), mail'[m] = mail[m],
           \A o \in Ops : m \notin op'[o].mails,
           \A w \in Workers : Holding(w)' => RunMail(w)' # m
    PROVE  CancelledAndQuiet(m)'
BY DEF CancelledAndQuiet, Holding

\* A run keeps its mail as long as it keeps its task.
LEMMA RunKeepsMail ==
    ASSUME IInv, [Next]_vars, NEW w \in Workers, Busy(w), run'[w].task = run[w].task
    PROVE  RunMail(w)' = RunMail(w) /\ RunMail(w) \in Mails
<1>1. run[w].task \in Tasks /\ task[run[w].task].state # "free"
  BY DEF IInv, RunsHoldTasks, Busy
<1> QED BY <1>1, TaskKeepsMail DEF RunMail, IInv, FreeIsNew

\* Create takes new rows, Cancel pending and queued ones, Retry failed ones: a
\* request that does not hold the mail neither writes nor takes it.
LEMMA RequestLeaves ==
    ASSUME IInv, NEW m \in Mails, mail[m].status = "cancelled", NEW o \in Ops,
           RequestStep(o) \/ RequestFails(o), \A p \in Ops : m \notin op[p].mails
    PROVE  mail'[m] = mail[m] /\ \A p \in Ops : m \notin op'[p].mails
<1>0. TypeOK  BY DEF IInv
<1> DEFINE Stays == mail'[m] = mail[m] /\ \A p \in Ops : m \notin op'[p].mails
<1>1. ASSUME NEW ms \in SUBSET Mails, CreateInsert(o, ms) PROVE Stays
  <2>1. m \notin ms
    BY <1>1 DEF CreateInsert, InsertRows
  <2> QED BY <1>0, <1>1, <2>1 DEF CreateInsert, InsertRows, IdleOp, TypeOK
<1>2. ASSUME NEW ms \in SUBSET Mails, CreateSetQueued(o, ms) PROVE Stays
  <2>1. ms \subseteq op[o].mails
    BY <1>2 DEF CreateSetQueued
  <2>2. mail'[m] = mail[m]
    BY <1>2, <2>1 DEF CreateSetQueued
  <2>3. op' = [op EXCEPT ![o] = IdleOp] \/ op' = [op EXCEPT ![o] = [op[o] EXCEPT !.mails = @ \ ms]]
    BY <1>2 DEF CreateSetQueued
  <2>4. IdleOp.mails = {} /\ [op[o] EXCEPT !.mails = @ \ ms].mails \subseteq op[o].mails
    BY <1>0 DEF IdleOp, TypeOK, OpRec
  <2> QED BY <1>0, <2>2, <2>3, <2>4 DEF TypeOK
<1>3. ASSUME NEW x \in Mails, NEW t \in Tasks, CreateEnqueue(o, x, t) \/ RetryEnqueue(o, x, t)
      PROVE  Stays
  <2>1. \E ids, pc : op' = [op EXCEPT ![o] = [op[o] EXCEPT !.pc = pc, !.ids = ids]]
    <3>1. CASE CreateEnqueue(o, x, t)
      <4>1. op' = [op EXCEPT ![o] = [op[o] EXCEPT !.ids = [op[o].ids EXCEPT ![x] = t]]]
        BY <3>1, ZenonT(40) DEF CreateEnqueue
      <4>2. [op[o] EXCEPT !.ids = [op[o].ids EXCEPT ![x] = t]]
              = [op[o] EXCEPT !.pc = op[o].pc, !.ids = [op[o].ids EXCEPT ![x] = t]]
        BY <1>0 DEF TypeOK, OpRec
      <4> QED BY <4>1, <4>2
    <3>2. CASE RetryEnqueue(o, x, t)
      <4>1. op' = [op EXCEPT ![o] = [op[o] EXCEPT !.pc = "retryTaskId",
                                                  !.ids = [op[o].ids EXCEPT ![x] = t]]]
        BY <3>2, ZenonT(40) DEF RetryEnqueue
      <4> QED BY <4>1
    <3> QED BY <1>3, <3>1, <3>2
  <2>2. \A ids, pc : [op[o] EXCEPT !.pc = pc, !.ids = ids].mails = op[o].mails
    BY <1>0 DEF TypeOK, OpRec
  <2>3. UNCHANGED mail
    BY <1>3 DEF CreateEnqueue, RetryEnqueue
  <2> QED BY <1>0, <2>1, <2>2, <2>3 DEF TypeOK
<1>4. ASSUME NEW x \in Mails, CancelRead(o, x) \/ RetryRead(o, x) PROVE Stays
  <2>1. x # m /\ UNCHANGED mail
    BY <1>4 DEF CancelRead, RetryRead
  <2>2. op'[o].mails = {x} /\ \A p \in Ops : p # o => op'[p] = op[p]
    <3>1. CASE CancelRead(o, x)
      BY <1>0, <3>1 DEF CancelRead, TypeOK
    <3>2. CASE RetryRead(o, x)
      BY <1>0, <3>2 DEF RetryRead, TypeOK, IdleOp
    <3> QED BY <1>4, <3>1, <3>2
  <2> QED BY <2>1, <2>2
<1>5. ASSUME NEW x \in Mails, CancelUpdate(o, x) \/ RetryTaskId(o, x) \/ RetryStatus(o, x)
      PROVE  Stays
  <2>1. x # m
    BY <1>5 DEF CancelUpdate, RetryTaskId, RetryStatus
  <2>2. mail'[m] = mail[m]
    BY <1>0, <1>5, <2>1 DEF CancelUpdate, RetryTaskId, RetryStatus, UpdateStatus, TypeOK
  <2>3. op'[o].mails \subseteq op[o].mails /\ \A p \in Ops : p # o => op'[p] = op[p]
    BY <1>0, <1>5 DEF CancelUpdate, RetryTaskId, RetryStatus, TypeOK, OpRec, IdleOp
  <2> QED BY <2>2, <2>3
<1>6. ASSUME NEW x \in Mails, CancelDelete(o, x) PROVE Stays
  BY <1>0, <1>6 DEF CancelDelete, TypeOK, OpRec
<1>7. ASSUME RequestFails(o) PROVE Stays
  BY <1>0, <1>7 DEF RequestFails, TypeOK, IdleOp
<1> QED BY <1>1, <1>2, <1>3, <1>4, <1>5, <1>6, <1>7 DEF RequestStep

\* A run writes the row of its own mail only.
LEMMA RunWritesOwnRow ==
    ASSUME IInv, NEW w \in Workers, HandlerStep(w), NEW m \in Mails, RunMail(w) # m
    PROVE  mail'[m] = mail[m]
<1>0. TypeOK  BY DEF IInv
<1>1. \A s : UpdateStatus(RunMail(w), s) => mail'[m] = mail[m]
  BY <1>0 DEF UpdateStatus, TypeOK
<1>2. CASE MarkSending(w) \/ MarkSent(w) \/ ClearBodies(w)
  BY <1>0, <1>2 DEF MarkSending, MarkSent, ClearBodies, SwallowedError, TypeOK
<1>3. CASE PrepareUnsendable(w) \/ AfterSendError(w) \/ ErrorHandler(w)
  BY <1>1, <1>3 DEF PrepareUnsendable, AfterSendError, ErrorHandler, SwallowedError
<1>4. CASE UNCHANGED mail
  BY <1>4
<1> QED
  BY <1>2, <1>3, <1>4 DEF HandlerStep, Load, CallFails, PrepareReady, PrepareDelayed,
     SendSucceeds, SendErrs, Settle

\* A run that has the mail at Load stops there, one past its writes has at most the
\* write of the ErrorHandler left.
LEMMA RunLetsGo ==
    ASSUME IInv, NEW w \in Workers, HandlerStep(w), ~Settle(w), NEW m \in Mails,
           RunMail(w) = m, mail[m].status = "cancelled", ~Holding(w)
    PROVE  /\ ~Holding(w)'
           /\ mail'[m] = mail[m] \/ mail'[m].status = "failed"
<1>0. TypeOK  BY DEF IInv
<1>1. \A pc : Goto(w, pc) => run'[w].pc = pc
  BY <1>0 DEF Goto, TypeOK, RunRec
<1>2. \A pc, res : Return(w, pc, res) => run'[w].pc = pc
  BY <1>0 DEF Return, TypeOK, RunRec
<1>3. CASE run[w].pc = "load"
  BY <1>1, <1>2, <1>3 DEF HandlerStep, Load, CallFails, PrepareReady, PrepareDelayed, PrepareUnsendable,
     MarkSending, SendSucceeds, SendErrs, AfterSendError, MarkSent, ClearBodies, ErrorHandler,
     Settle, Holding
<1>4. CASE run[w].pc = "onError"
  <2>1. CASE CallFails(w)
    BY <1>4, <2>1 DEF CallFails
  <2>2. CASE ErrorHandler(w)
    <3>1. UpdateStatus(m, "failed") => mail'[m].status = "failed"
      BY <1>0 DEF UpdateStatus, TypeOK, MailRow
    <3> QED BY <1>1, <2>2, <3>1 DEF ErrorHandler, SwallowedError, Holding
  <2> QED
    BY <1>4, <2>1, <2>2 DEF HandlerStep, Load, PrepareReady, PrepareDelayed, PrepareUnsendable,
       MarkSending, SendSucceeds, SendErrs, AfterSendError, MarkSent, ClearBodies, Settle
<1>5. CASE run[w].pc = "settle"
  BY <1>5 DEF HandlerStep, Load, CallFails, PrepareReady, PrepareDelayed, PrepareUnsendable,
     MarkSending, SendSucceeds, SendErrs, AfterSendError, MarkSent, ClearBodies, ErrorHandler
<1>6. run[w].pc # "idle"
  BY HandlerEffect
<1> QED BY <1>3, <1>4, <1>5, <1>6 DEF Holding

LEMMA QuietStep ==
    ASSUME IInv, [Next]_vars, NEW m \in Mails, CancelledAndQuiet(m)
    PROVE  CancelledAndQuiet(m)' \/ mail'[m].status = "failed"
<1>0. /\ TypeOK /\ mail[m].status = "cancelled" /\ \A o \in Ops : m \notin op[o].mails
      /\ \A w \in Workers : Holding(w) => RunMail(w) # m
  BY DEF IInv, CancelledAndQuiet, Holding
<1>1. ASSUME NEW v \in Workers, run'[v] = run[v] PROVE Holding(v)' => RunMail(v)' # m
  <2>1. Holding(v) => Busy(v)
    BY DEF Holding, Busy, IdleRun
  <2> QED BY <1>0, <1>1, <2>1, RunKeepsMail DEF Holding
<1>2. ASSUME NEW o \in Ops, RequestStep(o) \/ RequestFails(o) PROVE CancelledAndQuiet(m)'
  <2>1. UNCHANGED run
    BY <1>2, RequestEffect
  <2> QED BY <1>0, <1>1, <1>2, <2>1, RequestLeaves, QuietMove
<1>3. ASSUME NEW w \in Workers, HandlerStep(w), ~Settle(w)
      PROVE  CancelledAndQuiet(m)' \/ mail'[m].status = "failed"
  <2>1. /\ UNCHANGED op /\ run[w].pc # "idle" /\ run'[w].task = run[w].task
        /\ \A v \in Workers : v # w => run'[v] = run[v]
    BY <1>0, <1>3, HandlerEffect DEF TypeOK
  <2>2. RunMail(w)' = RunMail(w)
    BY <2>1, RunKeepsMail DEF Busy, IdleRun
  <2>3. CASE RunMail(w) # m
    BY <1>0, <1>1, <1>3, <2>1, <2>2, <2>3, RunWritesOwnRow, QuietMove
  <2>4. CASE RunMail(w) = m
    BY <1>0, <1>1, <1>3, <2>1, <2>4, RunLetsGo, QuietMove
  <2> QED BY <2>3, <2>4
<1>4. ASSUME NEW w \in Workers, Settle(w) \/ WorkerCrash(w) \/ WorkerShutdown(w)
      PROVE  CancelledAndQuiet(m)'
  <2>1. run' = [run EXCEPT ![w] = IdleRun] /\ UNCHANGED <<mail, op>>
    BY <1>4, EndEffect
  <2>2. \A v \in Workers : v # w => run'[v] = run[v]
    BY <2>1
  <2>3. ~Holding(w)'
    BY <1>0, <2>1 DEF Holding, TypeOK, IdleRun
  <2> QED BY <1>0, <1>1, <2>1, <2>2, <2>3, QuietMove
<1>5. ASSUME NEW w \in Workers, NEW t \in Tasks, Dequeue(w, t) PROVE CancelledAndQuiet(m)'
  <2>1. /\ run' = [run EXCEPT ![w] = [pc |-> "load", task |-> t, result |-> "none"]]
        /\ UNCHANGED <<mail, op>>
    BY <1>5, DequeueEffect
  <2>2. \A v \in Workers : v # w => run'[v] = run[v]
    BY <2>1
  <2>3. ~Holding(w)'
    BY <1>0, <2>1 DEF Holding, TypeOK
  <2> QED BY <1>0, <1>1, <2>1, <2>2, <2>3, QuietMove
<1>6. ASSUME NEW t \in Tasks, Recover(t) PROVE CancelledAndQuiet(m)'
  BY <1>0, <1>1, <1>6, QuietMove DEF Recover
<1>7. CASE UNCHANGED vars
  BY <1>0, <1>1, <1>7, QuietMove DEF vars
<1> QED BY <1>2, <1>3, <1>4, <1>5, <1>6, <1>7 DEF Next

\* Once the requests and the runs that overlapped the cancellation are over, a
\* cancelled mail is left alone: later requests refuse it, later runs stop at Load, and
\* only the ErrorHandler of a run that could not read it may still write failed.
THEOREM CancelledIsLeftAlone == Spec => CancelledStaysQuiet
<1> DEFINE Quiet(m) == CancelledAndQuiet(m) => CancelledAndQuiet(m)' \/ mail'[m].status = "failed"
<1>1. IInv /\ [Next]_vars => [\A m \in Mails : Quiet(m)]_vars
  BY QuietStep
<1> QED BY <1>1, InductiveInvariant, PTL DEF Spec, CancelledStaysQuiet

-----------------------------------------------------------------------------
(* The contract: how each step looks from outside.                           *)

LEMMA InitContract == Init => Contract!CInit
<1> SUFFICES ASSUME Init PROVE Contract!CInit
  OBVIOUS
<1>1. TaskStages = [t \in Tasks |-> "free"]
  BY DEF Init, TaskStages, Stage, StageOf
<1>2. Letters = [t \in Tasks |-> NoMail]
  BY DEF Init, Letters
<1>3. RecordedMails = {} /\ AskedMails = {} /\ CancelledMails = {}
  BY DEF Init, RecordedMails, AskedMails, CancelledMails, Cancels, IdleOp
<1> QED BY <1>1, <1>2, <1>3 DEF Init, Contract!CInit

\* A worker that holds a task, and whether the task was found cancelled.
LEMMA HeldStage ==
    ASSUME RunsHoldTasks, NEW w \in Workers, run[w].pc # "idle"
    PROVE  /\ run[w].task \in Tasks /\ task[run[w].task].state = "active"
           /\ TaskStages[run[w].task] = IF run[w].result = "cancelled" THEN "calledOff" ELSE "taken"
<1> DEFINE t == run[w].task
<1>1. t \in Tasks /\ task[t].state = "active"
  BY DEF RunsHoldTasks, IdleRun
<1>2. FoundCancelled(t) <=> run[w].result = "cancelled"
  BY <1>1, NoTaskAssumption DEF RunsHoldTasks, FoundCancelled
<1> QED BY <1>1, <1>2 DEF TaskStages, Stage, StageOf

\* The stages of tasks follow what changes of the tasks and of the runs that hold them.
LEMMA StageMoves ==
    ASSUME NEW t \in Tasks, NEW s, \A u \in Tasks \ {t} : Stage(u)' = Stage(u), Stage(t)' = s
    PROVE  TaskStages' = [TaskStages EXCEPT ![t] = s]
BY DEF TaskStages

LEMMA StagesStay == ASSUME \A u \in Tasks : Stage(u)' = Stage(u) PROVE TaskStages' = TaskStages
BY DEF TaskStages

LEMMA OtherStage ==
    ASSUME NEW w \in Workers, NEW u \in Tasks, task'[u] = task[u],
           run[w].task # u, run'[w].task # u, \A v \in Workers \ {w} : run'[v] = run[v]
    PROVE  Stage(u)' = Stage(u)
<1>1. FoundCancelled(u)' <=> FoundCancelled(u)
  BY DEF FoundCancelled
<1> QED BY <1>1 DEF Stage

\* Without a run nothing is found cancelled.
LEMMA UnheldStage ==
    ASSUME NEW t \in Tasks, task[t].state # "active" \/ \A w \in Workers : run[w].task # t
    PROVE  Stage(t) = StageOf[task[t].state]
BY DEF Stage, FoundCancelled

\* What is written to rows.
LEMMA RowsSay ==
    ASSUME NEW ms \in SUBSET Mails,
           \A m \in Mails : mail'[m].sentAt = mail[m].sentAt,
           \A m \in Mails \ ms : mail'[m].status = mail[m].status,
           \A m \in ms : mail'[m].status # "cancelled"
    PROVE  RecordedMails' = RecordedMails /\ CancelledMails' = CancelledMails \ ms
BY DEF RecordedMails, CancelledMails

LEMMA StatusSays ==
    ASSUME TypeOK, NEW m \in Mails, NEW s, UpdateStatus(m, s)
    PROVE  /\ s # "cancelled" =>
                RecordedMails' = RecordedMails /\ CancelledMails' = CancelledMails \ {m}
           /\ s = "cancelled" =>
                RecordedMails' = RecordedMails /\ CancelledMails' = CancelledMails \cup {m}
<1>1. /\ mail'[m].status = s /\ mail'[m].sentAt = mail[m].sentAt
      /\ \A x \in Mails \ {m} : mail'[x] = mail[x]
  BY DEF UpdateStatus, TypeOK, MailRow
<1> QED BY <1>1 DEF RecordedMails, CancelledMails

\* The mails somebody is cancelling, when one request moves on.
LEMMA AskedMoves ==
    ASSUME TypeOK, NEW o \in Ops, NEW rec, op' = [op EXCEPT ![o] = rec]
    PROVE  /\ Cancels(rec) = Cancels(op[o]) => AskedMails' = AskedMails
           /\ \A m \in Mails : Cancels(op[o]) = {} /\ Cancels(rec) = {m} =>
                AskedMails' = AskedMails \cup {m}
           /\ \A m \in Mails : Cancels(op[o]) \subseteq {m} /\ Cancels(rec) = {} =>
                AskedMails' \in {AskedMails, AskedMails \ {m}}
<1>1. op'[o] = rec /\ \A p \in Ops \ {o} : op'[p] = op[p]
  BY DEF TypeOK
<1>2. ASSUME Cancels(rec) = Cancels(op[o]) PROVE AskedMails' = AskedMails
  BY <1>1, <1>2 DEF AskedMails, Cancels
<1>3. ASSUME NEW m \in Mails, Cancels(op[o]) = {}, Cancels(rec) = {m}
      PROVE  AskedMails' = AskedMails \cup {m}
  BY <1>1, <1>3 DEF AskedMails, Cancels
<1>4. ASSUME NEW m \in Mails, Cancels(op[o]) \subseteq {m}, Cancels(rec) = {}
      PROVE  AskedMails' \in {AskedMails, AskedMails \ {m}}
  <2>1. AskedMails' \subseteq AskedMails /\ AskedMails \ {m} \subseteq AskedMails'
    BY <1>1, <1>4 DEF AskedMails, Cancels
  <2> QED BY <2>1
<1> QED BY <1>2, <1>3, <1>4

\* A request that leaves tasks and runs alone, and one that enqueues.
LEMMA TasksStay ==
    ASSUME UNCHANGED <<task, run>>
    PROVE  UNCHANGED <<TaskStages, Letters>>
<1>1. \A u \in Tasks : Stage(u)' = Stage(u)
  BY DEF Stage, FoundCancelled
<1> QED BY <1>1, StagesStay DEF Letters

LEMMA EnqueuePlaces ==
    ASSUME TypeOK, NEW m \in Mails, NEW t \in Tasks, Enqueue(m, t), NEW o \in Ops, NEW rec,
           op' = [op EXCEPT ![o] = rec], Cancels(rec) = Cancels(op[o]),
           UNCHANGED <<mail, run, dels, requeued>>
    PROVE  Contract!Place(t, m)
<1>1. /\ task[t].state = "free" /\ task'[t].state = "pending" /\ task'[t].mail = m
      /\ \A u \in Tasks \ {t} : task'[u] = task[u]
  BY DEF Enqueue, TypeOK
<1>2. TaskStages[t] = "free"
  BY <1>1, UnheldStage DEF TaskStages, StageOf
<1>3. Stage(t)' = "due"
  BY <1>1 DEF Stage, StageOf
<1>4. TaskStages' = [TaskStages EXCEPT ![t] = "due"]
  <2>1. \A u \in Tasks \ {t} : Stage(u)' = Stage(u)
    BY <1>1 DEF Stage, FoundCancelled
  <2> QED BY <1>3, <2>1, StageMoves
<1>5. Letters' = [Letters EXCEPT ![t] = m]
  BY <1>1 DEF Letters
<1>6. AskedMails' = AskedMails
  BY AskedMoves
<1>7. RecordedMails' = RecordedMails /\ CancelledMails' = CancelledMails
  BY DEF RecordedMails, CancelledMails
<1> QED BY <1>2, <1>4, <1>5, <1>6, <1>7 DEF Contract!Place, Contract!Move

\* Creating a mail, retrying one by hand.
LEMMA CreationRefined ==
    ASSUME IInv, NEW o \in Ops,
           \/ \E ms \in SUBSET Mails : CreateInsert(o, ms) \/ CreateSetQueued(o, ms)
           \/ \E m \in Mails, t \in Tasks : CreateEnqueue(o, m, t) \/ RetryEnqueue(o, m, t)
    PROVE  Contract!CNext
<1>0. TypeOK /\ Cancels(IdleOp) = {}
  BY DEF IInv, Cancels, IdleOp
<1>1. ASSUME NEW ms \in SUBSET Mails, CreateInsert(o, ms) PROVE Contract!Revive
  <2>1. UNCHANGED <<task, run, dels, requeued>> /\ op[o].pc = "idle"
    BY <1>1 DEF CreateInsert, obs
  <2>2. RecordedMails' = RecordedMails /\ CancelledMails' = CancelledMails \ ms
    <3>1. \A m \in ms : mail'[m].sentAt = mail[m].sentAt /\ mail'[m].status = "pending"
      BY <1>0, <1>1 DEF CreateInsert, InsertRows, TypeOK, MailRow
    <3>2. \A m \in Mails \ ms : mail'[m] = mail[m]
      BY <1>1 DEF CreateInsert, InsertRows
    <3> QED BY <3>1, <3>2, RowsSay
  <2>3. AskedMails' = AskedMails
    <3> DEFINE rec == [IdleOp EXCEPT !.pc = "enqueue", !.mails = ms]
    <3>1. op' = [op EXCEPT ![o] = rec] /\ Cancels(rec) = {} /\ Cancels(op[o]) = {}
      BY <1>1, <2>1 DEF CreateInsert, Cancels, IdleOp
    <3> QED BY <1>0, <3>1, AskedMoves
  <2> QED BY <2>1, <2>2, <2>3, TasksStay DEF Contract!Revive
<1>2. ASSUME NEW ms \in SUBSET Mails, CreateSetQueued(o, ms) PROVE Contract!Revive
  <2>1. UNCHANGED <<task, run, dels, requeued>> /\ op[o].pc = "enqueue"
    BY <1>2 DEF CreateSetQueued, obs
  <2>2. RecordedMails' = RecordedMails /\ CancelledMails' = CancelledMails \ ms
    <3>1. \A m \in ms : mail'[m].sentAt = mail[m].sentAt /\ mail'[m].status = "queued"
      <4>1. \A m \in ms : /\ m \in Mails
                         /\ mail'[m] = [mail[m] EXCEPT !.status = "queued", !.taskId = op[o].ids[m]]
        BY <1>2 DEF CreateSetQueued
      <4>2. \A m \in Mails : mail[m] \in MailRow
        BY <1>0 DEF TypeOK
      <4> QED BY <4>1, <4>2 DEF MailRow
    <3>2. \A m \in Mails \ ms : mail'[m] = mail[m]
      BY <1>2 DEF CreateSetQueued
    <3> QED BY <3>1, <3>2, RowsSay
  <2>3. AskedMails' = AskedMails
    <3> DEFINE rec == IF ms = op[o].mails THEN IdleOp ELSE [op[o] EXCEPT !.mails = @ \ ms]
    <3>1. op' = [op EXCEPT ![o] = rec]
      BY <1>2 DEF CreateSetQueued
    <3>2. Cancels(rec) = {} /\ Cancels(op[o]) = {}
      BY <1>0, <2>1 DEF Cancels, TypeOK, OpRec
    <3> QED BY <1>0, <3>1, <3>2, AskedMoves
  <2> QED BY <2>1, <2>2, <2>3, TasksStay DEF Contract!Revive
<1>3. ASSUME NEW m \in Mails, NEW t \in Tasks, CreateEnqueue(o, m, t) \/ RetryEnqueue(o, m, t)
      PROVE  Contract!Place(t, m)
  <2> DEFINE rec == op'[o]
  <2>1. Enqueue(m, t) /\ UNCHANGED <<mail, run, dels, requeued>>
    BY <1>3 DEF CreateEnqueue, RetryEnqueue, obs
  <2>2. /\ op' = [op EXCEPT ![o] = rec]
        /\ op[o].pc \in {"enqueue", "retryEnqueue"} /\ rec.pc \in {"enqueue", "retryTaskId"}
    BY <1>0, <1>3 DEF CreateEnqueue, RetryEnqueue, TypeOK, OpRec
  <2>3. Cancels(rec) = Cancels(op[o])
    BY <2>2 DEF Cancels
  <2> QED BY <1>0, <2>1, <2>2, <2>3, EnqueuePlaces
<1> QED BY <1>1, <1>2, <1>3 DEF Contract!CNext

\* Cancelling a mail: who asks is known until the request is over.
LEMMA CancellationRefined ==
    ASSUME IInv, NEW o \in Ops, NEW m \in Mails,
           CancelRead(o, m) \/ CancelDelete(o, m) \/ CancelUpdate(o, m)
    PROVE  Contract!CNext \/ UNCHANGED Contract!cvars
<1>0. TypeOK /\ RowsFollowTasks /\ Cancels(IdleOp) = {}
  BY DEF IInv, Cancels, IdleOp
<1>1. CASE CancelRead(o, m)
  <2> DEFINE rec == [pc |-> IF mail[m].taskId = NoTask THEN "cancelUpdate" ELSE "cancelDelete",
                     mails |-> {m}, ids |-> [IdleOp.ids EXCEPT ![m] = mail[m].taskId]]
  <2>1. UNCHANGED <<mail, task, run, dels, requeued>>
    BY <1>1 DEF CancelRead, obs
  <2>2. op' = [op EXCEPT ![o] = rec] /\ Cancels(rec) = {m} /\ Cancels(op[o]) = {}
    BY <1>1 DEF CancelRead, Cancels
  <2>3. AskedMails' = AskedMails \cup {m}
    BY <1>0, <2>2, AskedMoves
  <2>4. RecordedMails' = RecordedMails /\ CancelledMails' = CancelledMails
    BY <2>1 DEF RecordedMails, CancelledMails
  <2>5. Contract!Ask(m)
    BY <2>1, <2>3, <2>4, TasksStay DEF Contract!Ask
  <2> QED BY <2>5 DEF Contract!CNext
<1>2. CASE CancelDelete(o, m)
  <2> DEFINE t == op[o].ids[m]
  <2>1. /\ UNCHANGED <<mail, run, dels, requeued>> /\ op[o].pc = "cancelDelete"
        /\ m \in op[o].mails /\ op' = [op EXCEPT ![o] = [op[o] EXCEPT !.pc = "cancelUpdate"]]
    BY <1>2 DEF CancelDelete, obs
  <2>2. t \in Tasks /\ task[t].mail = m
    BY <1>0, <2>1 DEF RowsFollowTasks, TypeOK, OpRec
  <2>3. m \in AskedMails
    BY <2>1 DEF AskedMails, Cancels
  <2>4. AskedMails' = AskedMails
    <3>1. Cancels([op[o] EXCEPT !.pc = "cancelUpdate"]) = Cancels(op[o])
      BY <1>0, <2>1 DEF Cancels, TypeOK, OpRec
    <3> QED BY <1>0, <2>1, <3>1, AskedMoves
  <2>5. RecordedMails' = RecordedMails /\ CancelledMails' = CancelledMails
    BY <2>1 DEF RecordedMails, CancelledMails
  <2>6. CASE UNCHANGED task
    BY <2>1, <2>4, <2>5, <2>6, TasksStay DEF Contract!cvars
  <2>7. CASE /\ task[t].state \in {"pending", "retry", "archived"}
             /\ task' = [task EXCEPT ![t].state = "deleted"]
    <3>1. /\ task'[t].state = "deleted" /\ task'[t].mail = task[t].mail
          /\ \A u \in Tasks \ {t} : task'[u] = task[u]
      BY <1>0, <2>2, <2>7 DEF TypeOK, TaskRec
    <3>2. TaskStages[t] \in {"due", "parked"} /\ Letters[t] = m
      BY <2>2, <2>7, UnheldStage DEF TaskStages, StageOf, Letters
    <3>3. TaskStages' = [TaskStages EXCEPT ![t] = "withdrawn"]
      <4>1. \A u \in Tasks \ {t} : Stage(u)' = Stage(u)
        BY <2>1, <3>1 DEF Stage, FoundCancelled
      <4>2. \E u \in Tasks : u = t /\ Stage(u)' = "withdrawn"
        BY <2>2, <3>1 DEF Stage, StageOf
      <4> QED BY <2>2, <4>1, <4>2 DEF TaskStages
    <3>4. Letters' = Letters
      BY <3>1 DEF Letters
    <3>5. Contract!Withdraw(t)
      BY <2>1, <2>3, <2>4, <2>5, <3>2, <3>3, <3>4 DEF Contract!Withdraw, Contract!Move
    <3> QED BY <2>2, <3>5 DEF Contract!CNext
  <2> QED BY <1>2, <2>6, <2>7 DEF CancelDelete
<1>3. CASE CancelUpdate(o, m)
  <2>1. /\ UNCHANGED <<task, run, dels, requeued>> /\ op[o].pc = "cancelUpdate"
        /\ m \in op[o].mails /\ op' = [op EXCEPT ![o] = IdleOp] /\ UpdateStatus(m, "cancelled")
    BY <1>3 DEF CancelUpdate, obs
  <2>2. op[o].mails = {m}
    BY <1>0, <2>1 DEF RowsFollowTasks
  <2>3. m \in AskedMails
    BY <2>1 DEF AskedMails, Cancels
  <2>4. AskedMails' \in {AskedMails, AskedMails \ {m}}
    BY <1>0, <2>1, <2>2, AskedMoves DEF Cancels
  <2>5. RecordedMails' = RecordedMails /\ CancelledMails' = CancelledMails \cup {m}
    BY <1>0, <2>1, StatusSays
  <2>6. Contract!Cancel(m)
    BY <2>1, <2>3, <2>4, <2>5, TasksStay DEF Contract!Cancel
  <2> QED BY <2>6 DEF Contract!CNext
<1> QED BY <1>1, <1>2, <1>3

\* The other writes of requests.
LEMMA RetryRefined ==
    ASSUME IInv, NEW o \in Ops, NEW m \in Mails,
           RetryRead(o, m) \/ RetryTaskId(o, m) \/ RetryStatus(o, m)
    PROVE  Contract!CNext \/ UNCHANGED Contract!cvars
<1>0. TypeOK /\ UNCHANGED <<task, run, dels, requeued>>
  BY DEF IInv, RetryRead, RetryTaskId, RetryStatus, obs
<1>1. AskedMails' = AskedMails
  <2> DEFINE rec == op'[o]
  <2>1. /\ op' = [op EXCEPT ![o] = rec]
        /\ op[o].pc \notin {"cancelDelete", "cancelUpdate"}
        /\ rec.pc \notin {"cancelDelete", "cancelUpdate"}
    <3>1. CASE RetryRead(o, m)
      BY <1>0, <3>1 DEF RetryRead, TypeOK, IdleOp
    <3>2. CASE RetryTaskId(o, m)
      BY <1>0, <3>2 DEF RetryTaskId, TypeOK, OpRec
    <3>3. CASE RetryStatus(o, m)
      BY <1>0, <3>3 DEF RetryStatus, TypeOK, IdleOp
    <3> QED BY <3>1, <3>2, <3>3
  <2>2. Cancels(rec) = Cancels(op[o])
    BY <2>1 DEF Cancels
  <2> QED BY <1>0, <2>1, <2>2, AskedMoves
<1>2. CASE RetryRead(o, m) \/ RetryTaskId(o, m)
  <2>1. \A x \in Mails : mail'[x].sentAt = mail[x].sentAt /\ mail'[x].status = mail[x].status
    BY <1>0, <1>2 DEF RetryRead, RetryTaskId, TypeOK, MailRow
  <2>2. RecordedMails' = RecordedMails /\ CancelledMails' = CancelledMails
    BY <2>1 DEF RecordedMails, CancelledMails
  <2> QED BY <1>0, <1>1, <2>2, TasksStay DEF Contract!cvars
<1>3. CASE RetryStatus(o, m)
  <2>1. RecordedMails' = RecordedMails /\ CancelledMails' = CancelledMails \ {m}
    BY <1>0, <1>3, StatusSays DEF RetryStatus
  <2>2. Contract!Revive
    BY <1>0, <1>1, <2>1, TasksStay DEF Contract!Revive
  <2> QED BY <2>2 DEF Contract!CNext
<1> QED BY <1>2, <1>3

LEMMA AbandonRefined ==
    ASSUME IInv, NEW o \in Ops, RequestFails(o)
    PROVE  Contract!CNext \/ UNCHANGED Contract!cvars
<1>1. /\ TypeOK /\ UNCHANGED <<mail, task, run, dels, requeued>>
      /\ op' = [op EXCEPT ![o] = IdleOp] /\ Cancels(IdleOp) = {}
  BY DEF IInv, RequestFails, obs, Cancels, IdleOp
<1>2. RecordedMails' = RecordedMails /\ CancelledMails' = CancelledMails
  BY <1>1 DEF RecordedMails, CancelledMails
<1>3. CASE Cancels(op[o]) = {}
  BY <1>1, <1>2, <1>3, AskedMoves, TasksStay DEF Contract!cvars
<1>4. CASE Cancels(op[o]) # {}
  <2>1. PICK m \in Mails : m \in Cancels(op[o])
    BY <1>1, <1>4 DEF Cancels, TypeOK, OpRec
  <2>2. Cancels(op[o]) = {m}
    BY <2>1 DEF Cancels, IInv, RowsFollowTasks
  <2>3. AskedMails' \in {AskedMails, AskedMails \ {m}}
    BY <1>1, <2>2, AskedMoves
  <2>4. Contract!Drop(m) \/ UNCHANGED Contract!cvars
    BY <1>1, <1>2, <2>3, TasksStay DEF Contract!Drop, Contract!cvars
  <2> QED BY <2>4 DEF Contract!CNext
<1> QED BY <1>3, <1>4

\* A run that goes on with its task: only what it returns can change the stage.
LEMMA RunGoesOn ==
    ASSUME IInv, NEW w \in Workers, NEW rec, run[w].pc # "idle", rec.task = run[w].task,
           run' = [run EXCEPT ![w] = rec], UNCHANGED <<task, op>>
    PROVE  /\ Letters' = Letters /\ AskedMails' = AskedMails
           /\ (rec.result = "cancelled" <=> run[w].result = "cancelled") => TaskStages' = TaskStages
           /\ rec.result = "cancelled" =>
                TaskStages' = [TaskStages EXCEPT ![run[w].task] = "calledOff"]
<1>1. /\ RunsHoldTasks /\ run'[w] = rec
      /\ \A v \in Workers \ {w} : run'[v] = run[v]
  BY DEF IInv, TypeOK
<1>2. PICK t \in Tasks : t = run[w].task /\ task[t].state = "active"
  BY <1>1, HeldStage
<1>3. \A u \in Tasks \ {t} : Stage(u)' = Stage(u)
  BY <1>1, <1>2, OtherStage
<1>4. \A v \in Workers : run[v].task = t => v = w
  BY <1>1, <1>2, NoTaskAssumption DEF RunsHoldTasks
<1>5. FoundCancelled(t)' <=> rec.result = "cancelled"
  BY <1>1, <1>2, <1>4 DEF FoundCancelled
<1>6. FoundCancelled(t) <=> run[w].result = "cancelled"
  BY <1>2, <1>4 DEF FoundCancelled
<1>7. Stage(t)' = IF rec.result = "cancelled" THEN "calledOff" ELSE "taken"
  BY <1>2, <1>5 DEF Stage, StageOf
<1>8. ASSUME rec.result = "cancelled" <=> run[w].result = "cancelled"
      PROVE  TaskStages' = TaskStages
  BY <1>2, <1>3, <1>6, <1>7, <1>8, StagesStay DEF Stage, StageOf
<1>9. ASSUME rec.result = "cancelled"
      PROVE  TaskStages' = [TaskStages EXCEPT ![t] = "calledOff"]
  BY <1>3, <1>7, <1>9, StageMoves
<1>10. Letters' = Letters /\ AskedMails' = AskedMails
  BY DEF Letters, AskedMails
<1> QED BY <1>2, <1>8, <1>9, <1>10

\* The steps of a run before and around the send.
LEMMA HandlerRefined ==
    ASSUME IInv, NEW w \in Workers, HandlerStep(w), ~Settle(w)
    PROVE  Contract!CNext \/ UNCHANGED Contract!cvars
<1>1. /\ TypeOK /\ RowsFollowTasks /\ RunsHoldTasks /\ AttemptsCounted /\ FreeIsNew
      /\ run[w] \in RunRec
  BY DEF IInv, TypeOK
<1>2. /\ UNCHANGED <<task, op, requeued>>
      /\ run[w].pc # "idle" /\ run' = [run EXCEPT ![w] = run'[w]]
  BY HandlerEffect
<1>3. PICK t \in Tasks : t = run[w].task /\ task[t].state = "active"
  BY <1>1, <1>2, HeldStage
<1>4. PICK m \in Mails : m = task[t].mail /\ m = RunMail(w) /\ m = Letters[t]
  BY <1>1, <1>3 DEF FreeIsNew, RunMail, Letters
<1>5. /\ TaskStages[t] = IF run[w].result = "cancelled" THEN "calledOff" ELSE "taken"
      /\ run[w].pc \in {"load", "prepare", "mark", "send", "markSent", "clear"} =>
           run[w].result = "none"
  BY <1>1, <1>2, <1>3, HeldStage DEF AttemptsCounted
<1>6. \A pc : Goto(w, pc) => run'[w].task = t /\ run'[w].result = run[w].result
  BY <1>1, <1>3 DEF Goto, TypeOK, RunRec
<1>7. \A pc, res : Return(w, pc, res) => run'[w].task = t /\ run'[w].result = res
  BY <1>1, <1>3 DEF Return, TypeOK, RunRec
<1>8. ASSUME run'[w].task = t, run'[w].result = "cancelled" <=> run[w].result = "cancelled"
      PROVE  UNCHANGED <<TaskStages, Letters, AskedMails, requeued>>
  BY <1>2, <1>3, <1>8, RunGoesOn
<1>9. ASSUME UNCHANGED mail PROVE RecordedMails' = RecordedMails /\ CancelledMails' = CancelledMails
  BY <1>9 DEF RecordedMails, CancelledMails
<1>10. \A s : s # "cancelled" /\ UpdateStatus(m, s) =>
          RecordedMails' = RecordedMails /\ CancelledMails' = CancelledMails \ {m}
  BY <1>1, StatusSays
<1>11. CASE Load(w)
  <2>1. run[w].pc = "load" /\ UNCHANGED <<mail, dels>>
    BY <1>11 DEF Load, obs
  <2>2. CASE mail[m].status = "cancelled" /\ Return(w, "settle", "cancelled")
    <3>1. TaskStages[t] = "taken" /\ m \in CancelledMails
      BY <1>5, <2>1, <2>2 DEF CancelledMails
    <3>2. /\ TaskStages' = [TaskStages EXCEPT ![t] = "calledOff"]
          /\ Letters' = Letters /\ AskedMails' = AskedMails
      BY <1>2, <1>3, <1>7, <2>2, RunGoesOn
    <3>3. Contract!CallOff(t)
      BY <1>2, <1>4, <1>9, <2>1, <3>1, <3>2 DEF Contract!CallOff, Contract!Move
    <3> QED BY <3>3 DEF Contract!CNext
  <2>3. CASE Goto(w, "prepare")
    BY <1>6, <1>8, <1>9, <2>1, <2>3 DEF Contract!cvars
  <2> QED BY <1>4, <1>11, <2>2, <2>3 DEF Load
<1>12. CASE CallFails(w) \/ PrepareReady(w) \/ PrepareDelayed(w)
  <2>1. UNCHANGED <<mail, dels>> /\ run[w].result = "none"
    BY <1>5, <1>12 DEF CallFails, PrepareReady, PrepareDelayed, obs
  <2>2. run'[w].task = t /\ run'[w].result \in {"none", "error", "delayed"}
    BY <1>6, <1>7, <1>12, <2>1 DEF CallFails, PrepareReady, PrepareDelayed
  <2> QED BY <1>8, <1>9, <2>1, <2>2 DEF Contract!cvars
<1>13. CASE PrepareUnsendable(w)
  <2>1. /\ UNCHANGED dels /\ run[w].result = "none"
        /\ run'[w].task = t /\ run'[w].result = "skip"
        /\ UpdateStatus(m, "failed") \/ UNCHANGED mail
    BY <1>4, <1>5, <1>7, <1>13 DEF PrepareUnsendable, SwallowedError, obs
  <2>2. Contract!Revive \/ UNCHANGED Contract!cvars
    BY <1>8, <1>9, <1>10, <2>1 DEF Contract!Revive, Contract!cvars
  <2> QED BY <2>2 DEF Contract!CNext
<1>14. CASE MarkSending(w)
  <2>1. UNCHANGED dels /\ run'[w].task = t /\ run'[w].result = run[w].result
    BY <1>6, <1>14 DEF MarkSending
  <2>2. /\ mail'[m].status = "sending" /\ mail'[m].sentAt = mail[m].sentAt
        /\ \A x \in Mails \ {m} : mail'[x] = mail[x]
    BY <1>1, <1>4, <1>14 DEF MarkSending, TypeOK, MailRow
  <2>3. RecordedMails' = RecordedMails /\ CancelledMails' = CancelledMails \ {m}
    BY <2>2 DEF RecordedMails, CancelledMails
  <2>4. Contract!Revive
    BY <1>8, <2>1, <2>3 DEF Contract!Revive
  <2> QED BY <2>4 DEF Contract!CNext
<1>15. CASE SendSucceeds(w) \/ SendErrs(w)
  <2>1. /\ UNCHANGED mail /\ run[w].pc = "send" /\ run[w].result = "none"
        /\ dels' = dels \/ dels' = [dels EXCEPT ![t] = @ + 1]
    BY <1>3, <1>5, <1>15 DEF SendSucceeds, SendErrs, Accept
  <2>2. run'[w].task = t /\ run'[w].result \in {"none", "error"}
    BY <1>6, <1>7, <1>15, <2>1 DEF SendSucceeds, SendErrs
  <2>3. TaskStages[t] = "taken" /\ dels[t] < MaxRetry + 1 + requeued[t]
    <3>1. dels[t] < tries[t] /\ tries[t] <= task[t].retried + requeued[t] + 1
      BY <1>1, <1>3, <2>1 DEF AttemptsCounted
    <3>2. task[t].retried \in 0..MaxRetry
      BY <1>1 DEF TypeOK, TaskRec
    <3>3. dels[t] \in Nat /\ tries[t] \in Nat /\ requeued[t] \in Nat
      BY <1>1 DEF TypeOK
    <3> QED BY <1>5, <2>1, <3>1, <3>2, <3>3, MaxRetryAssumption
  <2>4. Contract!Deliver(t) \/ UNCHANGED Contract!cvars
    BY <1>8, <1>9, <2>1, <2>2, <2>3 DEF Contract!Deliver, Contract!cvars
  <2> QED BY <2>4 DEF Contract!CNext
<1>16. CASE AfterSendError(w) \/ ErrorHandler(w)
  <2>1. /\ UNCHANGED dels /\ run'[w].task = t /\ run'[w].result = run[w].result
        /\ UpdateStatus(m, "failed") \/ UpdateStatus(m, "pending") \/ UNCHANGED mail
    BY <1>4, <1>6, <1>16 DEF AfterSendError, ErrorHandler, SwallowedError, obs
  <2>2. Contract!Revive \/ UNCHANGED Contract!cvars
    BY <1>8, <1>9, <1>10, <2>1 DEF Contract!Revive, Contract!cvars
  <2> QED BY <2>2 DEF Contract!CNext
<1>17. CASE MarkSent(w)
  <2>1. /\ UNCHANGED dels /\ run[w].pc = "markSent" /\ run[w].result = "none"
        /\ run'[w].task = t /\ run'[w].result = "none"
    BY <1>5, <1>6, <1>17 DEF MarkSent, obs
  <2>2. TaskStages[t] = "taken" /\ dels[t] > 0
    BY <1>1, <1>3, <1>5, <2>1 DEF RowsFollowTasks
  <2>3. /\ mail'[m].status = "sent" /\ mail'[m].sentAt
        /\ \A x \in Mails \ {m} : mail'[x] = mail[x]
    BY <1>1, <1>4, <1>17 DEF MarkSent, TypeOK, MailRow
  <2>4. RecordedMails' = RecordedMails \cup {m} /\ CancelledMails' = CancelledMails \ {m}
    BY <2>3 DEF RecordedMails, CancelledMails
  <2>5. Contract!Record(t)
    BY <1>4, <1>8, <2>1, <2>2, <2>4 DEF Contract!Record
  <2> QED BY <2>5 DEF Contract!CNext
<1>18. CASE ClearBodies(w)
  <2>1. /\ UNCHANGED dels /\ run[w].result = "none"
        /\ run'[w].task = t /\ run'[w].result = "sent"
    BY <1>5, <1>7, <1>18 DEF ClearBodies, obs
  <2>2. \A x \in Mails : mail'[x].sentAt = mail[x].sentAt /\ mail'[x].status = mail[x].status
    BY <1>1, <1>18 DEF ClearBodies, SwallowedError, TypeOK, MailRow
  <2>3. RecordedMails' = RecordedMails /\ CancelledMails' = CancelledMails
    BY <2>2 DEF RecordedMails, CancelledMails
  <2> QED BY <1>8, <2>1, <2>3 DEF Contract!cvars
<1> QED
  BY <1>11, <1>12, <1>13, <1>14, <1>15, <1>16, <1>17, <1>18 DEF HandlerStep

\* A run that ends lets go of its task: the stage is what Asynq's state says.
LEMMA RunLeavesTask ==
    ASSUME IInv, NEW w \in Workers, NEW t \in Tasks, t = run[w].task, run[w].pc # "idle",
           run' = [run EXCEPT ![w] = IdleRun], task'[t].mail = task[t].mail,
           \A u \in Tasks \ {t} : task'[u] = task[u], UNCHANGED <<mail, op>>
    PROVE  /\ TaskStages[t] = IF run[w].result = "cancelled" THEN "calledOff" ELSE "taken"
           /\ TaskStages' = [TaskStages EXCEPT ![t] = StageOf[task'[t].state]]
           /\ UNCHANGED <<Letters, RecordedMails, AskedMails, CancelledMails>>
<1>1. /\ RunsHoldTasks /\ run'[w] = IdleRun /\ IdleRun.task = NoTask
      /\ \A v \in Workers \ {w} : run'[v] = run[v]
  BY DEF IInv, TypeOK, IdleRun
<1>2. \A v \in Workers \ {w} : run[v].task # t
  BY <1>1, NoTaskAssumption DEF RunsHoldTasks
<1>3. \A v \in Workers : run'[v].task # t
  BY <1>1, <1>2, NoTaskAssumption
<1>4. ~FoundCancelled(t)'
  BY <1>3 DEF FoundCancelled
<1>5. \A u \in Tasks \ {t} : Stage(u)' = Stage(u)
  <2> TAKE u \in Tasks \ {t}
  <2>1. run'[w].task # u
    BY <1>1, NoTaskAssumption
  <2> QED BY <1>1, <2>1, OtherStage
<1>6. TaskStages' = [TaskStages EXCEPT ![t] = StageOf[task'[t].state]]
  <2>1. Stage(t)' = StageOf[task'[t].state]
    BY <1>4 DEF Stage
  <2>2. \A s : Stage(t)' = s => TaskStages' = [TaskStages EXCEPT ![t] = s]
    BY <1>5, StageMoves
  <2> QED BY <2>1, <2>2
<1>7. UNCHANGED <<Letters, RecordedMails, AskedMails, CancelledMails>>
  BY DEF Letters, RecordedMails, AskedMails, CancelledMails
<1> QED BY <1>1, <1>6, <1>7, HeldStage

\* What Asynq makes of a task whose handler returned.
LEMMA AfterReturnState ==
    ASSUME NEW tr \in TaskRec, NEW res \in Results
    PROVE  IF res \in {"sent", "cancelled"} THEN AfterReturn(tr, res).state = "gone"
           ELSE AfterReturn(tr, res).state \in {"retry", "archived"}
<1>1. \A s : \A n : /\ [tr EXCEPT !.state = s].state = s
                    /\ [tr EXCEPT !.state = s, !.retried = n].state = s
  BY DEF TaskRec
<1> QED BY <1>1 DEF AfterReturn

\* The stages in which a run or the recoverer can leave a task.
LEMMA StagesOfEnds ==
    /\ StageOf["gone"] = "closed" /\ StageOf["retry"] = "due" /\ StageOf["archived"] = "parked"
    /\ StageOf["active"] = "taken" /\ StageOf["pending"] = "due"
BY DEF StageOf

\* The end of a run: an acknowledgement closes the task only after a recorded send or
\* for a cancelled mail, everything else keeps it.
LEMMA EndRefined ==
    ASSUME IInv, ReturnsAreRecorded, NEW w \in Workers,
           Settle(w) \/ WorkerCrash(w) \/ WorkerShutdown(w)
    PROVE  Contract!CNext \/ UNCHANGED Contract!cvars
<1>1. /\ TypeOK /\ RunsHoldTasks /\ run[w].pc # "idle" /\ run[w] \in RunRec
      /\ task \in [Tasks -> TaskRec]
  BY DEF IInv, TypeOK, Settle, WorkerCrash, WorkerShutdown
<1>2. PICK t \in Tasks : t = run[w].task /\ task[t].state = "active"
  BY <1>1, HeldStage
<1>3. /\ run' = [run EXCEPT ![w] = IdleRun] /\ UNCHANGED <<mail, op, dels>>
      /\ \A u \in Tasks \ {t} : task'[u] = task[u]
      /\ task'[t].mail = task[t].mail
  BY <1>2, EndEffect
<1>4. /\ TaskStages[t] = IF run[w].result = "cancelled" THEN "calledOff" ELSE "taken"
      /\ TaskStages' = [TaskStages EXCEPT ![t] = StageOf[task'[t].state]]
      /\ UNCHANGED <<Letters, RecordedMails, AskedMails, CancelledMails>>
  BY <1>1, <1>2, <1>3, RunLeavesTask
<1>5. CASE Settle(w)
  <2>1. requeued' = requeued
    BY <1>5 DEF Settle, obs
  <2>2. /\ task'[t].state \in {"gone", "retry", "archived"}
        /\ task'[t].state = "gone" <=> run[w].result \in {"sent", "cancelled"}
    <3>1. task'[t] = AfterReturn(task[t], run[w].result)
      BY <1>1, <1>2, <1>5 DEF Settle
    <3>2. task[t] \in TaskRec /\ run[w].result \in Results
      BY <1>1 DEF RunRec
    <3> QED BY <3>1, <3>2, AfterReturnState
  <2>3. CASE run[w].result \in {"sent", "cancelled"}
    <3>1. TaskStages' = [TaskStages EXCEPT ![t] = "closed"]
      BY <1>4, <2>2, <2>3, StagesOfEnds
    <3>2. TaskStages[t] = "taken" => dels[t] > 0 /\ Letters[t] \in RecordedMails
      <4>1. SUFFICES ASSUME TaskStages[t] = "taken"
                     PROVE  dels[t] > 0 /\ Letters[t] \in RecordedMails
        OBVIOUS
      <4>2. run[w].result = "sent"
        BY <1>4, <2>3, <4>1
      <4>3. task[t].mail \in Mails
        BY <1>2 DEF IInv, FreeIsNew
      <4> QED BY <1>2, <4>2, <4>3 DEF ReturnsAreRecorded, RunMail, Letters, RecordedMails
    <3>3. Contract!Close(t)
      BY <1>3, <1>4, <2>1, <3>1, <3>2 DEF Contract!Close, Contract!Move
    <3> QED BY <3>3 DEF Contract!CNext
  <2>4. CASE run[w].result \notin {"sent", "cancelled"}
    <3>1. /\ TaskStages[t] = "taken"
          /\ \/ TaskStages' = [TaskStages EXCEPT ![t] = "due"]
             \/ TaskStages' = [TaskStages EXCEPT ![t] = "parked"]
      BY <1>4, <2>2, <2>4, StagesOfEnds
    <3>2. Contract!PutBack(t) \/ Contract!Park(t)
      BY <1>3, <1>4, <2>1, <3>1 DEF Contract!PutBack, Contract!Park, Contract!Move
    <3> QED BY <3>2 DEF Contract!CNext
  <2> QED BY <2>3, <2>4
<1>6. CASE WorkerCrash(w)
  <2>1. UNCHANGED <<task, requeued>> /\ TaskStages' = [TaskStages EXCEPT ![t] = "taken"]
    BY <1>2, <1>4, <1>6, StagesOfEnds DEF WorkerCrash, obs
  <2>2. CASE TaskStages[t] = "calledOff"
    <3>1. Contract!Forget(t)
      BY <1>3, <1>4, <2>1, <2>2 DEF Contract!Forget, Contract!Move
    <3> QED BY <3>1 DEF Contract!CNext
  <2>3. CASE TaskStages[t] = "taken"
    <3>1. TaskStages' = TaskStages
      BY <2>1, <2>3 DEF TaskStages
    <3> QED BY <1>3, <1>4, <2>1, <3>1 DEF Contract!cvars
  <2> QED BY <1>4, <2>2, <2>3
<1>7. CASE WorkerShutdown(w)
  <2>1. task'[t].state = "pending" /\ requeued' = [requeued EXCEPT ![t] = @ + 1]
    BY <1>1, <1>2, <1>7 DEF WorkerShutdown, TaskRec
  <2>2. /\ TaskStages[t] \in {"taken", "calledOff"}
        /\ TaskStages' = [TaskStages EXCEPT ![t] = "due"]
    BY <1>4, <2>1, StagesOfEnds
  <2>3. Contract!Interrupt(t)
    BY <1>3, <1>4, <2>1, <2>2 DEF Contract!Interrupt, Contract!Move
  <2> QED BY <2>3 DEF Contract!CNext
<1> QED BY <1>5, <1>6, <1>7

\* A run begins, or the recoverer takes back what nobody holds.
LEMMA QueueRefined ==
    ASSUME IInv, NEW t \in Tasks, Recover(t) \/ \E w \in Workers : Dequeue(w, t)
    PROVE  Contract!CNext
<1>0. TypeOK
  BY DEF IInv
<1>1. CASE Recover(t)
  <2>1. /\ task[t].state = "active" /\ \A w \in Workers : run[w].task # t
        /\ \A u \in Tasks \ {t} : task'[u] = task[u]
        /\ task'[t].mail = task[t].mail /\ task'[t].state \in {"archived", "retry"}
        /\ UNCHANGED <<mail, op, run, dels, requeued>>
    BY <1>0, <1>1, RecoverEffect DEF TypeOK
  <2>2. TaskStages[t] = "taken"
    BY <2>1, UnheldStage DEF TaskStages, StageOf
  <2>3. \/ TaskStages' = [TaskStages EXCEPT ![t] = "due"]
        \/ TaskStages' = [TaskStages EXCEPT ![t] = "parked"]
    <3>1. \A u \in Tasks \ {t} : Stage(u)' = Stage(u)
      BY <2>1 DEF Stage, FoundCancelled
    <3>2. Stage(t)' = "due" \/ Stage(t)' = "parked"
      BY <2>1 DEF Stage, StageOf
    <3>3. \A s : Stage(t)' = s => TaskStages' = [TaskStages EXCEPT ![t] = s]
      BY <3>1, StageMoves
    <3> QED BY <3>2, <3>3
  <2>4. UNCHANGED <<Letters, RecordedMails, AskedMails, CancelledMails>>
    BY <2>1 DEF Letters, RecordedMails, AskedMails, CancelledMails
  <2>5. Contract!PutBack(t) \/ Contract!Park(t)
    BY <2>1, <2>2, <2>3, <2>4 DEF Contract!PutBack, Contract!Park, Contract!Move
  <2> QED BY <2>5 DEF Contract!CNext
<1>2. ASSUME NEW w \in Workers, Dequeue(w, t) PROVE Contract!CNext
  <2>1. /\ run[w] = IdleRun /\ task[t].state \in {"pending", "retry"}
        /\ run' = [run EXCEPT ![w] = [pc |-> "load", task |-> t, result |-> "none"]]
        /\ \A u \in Tasks \ {t} : task'[u] = task[u]
        /\ task'[t].state = "active" /\ task'[t].mail = task[t].mail
        /\ UNCHANGED <<mail, op, dels, requeued>>
    BY <1>0, <1>2, DequeueEffect DEF TypeOK
  <2>2. /\ run'[w].task = t /\ run'[w].result = "none" /\ run[w].task = NoTask
        /\ \A v \in Workers \ {w} : run'[v] = run[v]
    BY <1>0, <2>1 DEF TypeOK, IdleRun
  <2>3. TaskStages[t] = "due"
    BY <2>1, UnheldStage DEF TaskStages, StageOf
  <2>4. \A v \in Workers : run[v].task # t
    BY <2>1, NoTaskAssumption DEF IInv, RunsHoldTasks, IdleRun
  <2>5. TaskStages' = [TaskStages EXCEPT ![t] = "taken"]
    <3>1. \A u \in Tasks \ {t} : Stage(u)' = Stage(u)
      BY <2>1, <2>2, OtherStage, NoTaskAssumption
    <3>2. ~FoundCancelled(t)'
      BY <2>2, <2>4 DEF FoundCancelled
    <3>3. Stage(t)' = "taken"
      BY <2>1, <3>2 DEF Stage, StageOf
    <3> QED BY <3>1, <3>3, StageMoves
  <2>6. UNCHANGED <<Letters, RecordedMails, AskedMails, CancelledMails>>
    BY <2>1 DEF Letters, RecordedMails, AskedMails, CancelledMails
  <2>7. Contract!Take(t)
    BY <2>1, <2>3, <2>5, <2>6 DEF Contract!Take, Contract!Move
  <2> QED BY <2>7 DEF Contract!CNext
<1> QED BY <1>1, <1>2

LEMMA StepRefined ==
    ASSUME IInv, ReturnsAreRecorded, [Next]_vars
    PROVE  [Contract!CNext]_(Contract!cvars)
<1>1. ASSUME NEW o \in Ops, RequestStep(o) \/ RequestFails(o)
      PROVE  Contract!CNext \/ UNCHANGED Contract!cvars
  BY <1>1, CreationRefined, CancellationRefined, RetryRefined, AbandonRefined DEF RequestStep
<1>2. ASSUME NEW w \in Workers, HandlerStep(w) \/ WorkerCrash(w) \/ WorkerShutdown(w)
      PROVE  Contract!CNext \/ UNCHANGED Contract!cvars
  BY <1>2, HandlerRefined, EndRefined
<1>3. ASSUME NEW t \in Tasks, Recover(t) \/ \E w \in Workers : Dequeue(w, t)
      PROVE  Contract!CNext
  BY <1>3, QueueRefined
<1>4. ASSUME UNCHANGED vars PROVE UNCHANGED Contract!cvars
  <2>1. UNCHANGED <<Letters, RecordedMails, AskedMails, CancelledMails>>
    BY <1>4 DEF vars, Letters, RecordedMails, AskedMails, CancelledMails
  <2> QED BY <1>4, <2>1, TasksStay DEF vars, Contract!cvars
<1> QED BY <1>1, <1>2, <1>3, <1>4 DEF Next

\* Requests, workers and Asynq implement the contract of delivery: whatever they do at
\* the same time, crash in or hear too late, a task somebody holds is closed only with
\* its mail accepted and sent_at set or its mail found cancelled, any other is removed
\* only by a request cancelling its own mail, and it is accepted at most MaxRetry + 1
\* times plus once for every shutdown.
THEOREM RefinesContract == Spec => DeliversAsPromised
<1>1. Init => Contract!CInit
  BY InitContract
<1>2. Init => ReturnsAreRecorded
  BY DEF Init, ReturnsAreRecorded, IdleRun
<1>3. IInv /\ ReturnsAreRecorded /\ [Next]_vars => ReturnsAreRecorded'
  BY RecordedStep
<1>4. IInv /\ ReturnsAreRecorded /\ [Next]_vars => [Contract!CNext]_(Contract!cvars)
  BY StepRefined
<1> QED
  BY <1>1, <1>2, <1>3, <1>4, InductiveInvariant, PTL DEF Spec, DeliversAsPromised, Contract!CSpec

-----------------------------------------------------------------------------
(* What makes a mail fail.                                                   *)

\* Requests never mark a mail failed, a run only its own when it may.
LEMMA RequestsFailNoMail ==
    ASSUME IInv, NEW o \in Ops, RequestStep(o) \/ RequestFails(o), NEW m \in Mails,
           mail'[m].status = "failed"
    PROVE  mail[m].status = "failed"
<1>0. TypeOK  BY DEF IInv
<1>1. ASSUME NEW x, NEW s, UpdateStatus(x, s), s # "failed" PROVE mail[m].status = "failed"
  BY <1>0, <1>1 DEF UpdateStatus, TypeOK, MailRow
<1>2. ASSUME NEW ms \in SUBSET Mails, CreateInsert(o, ms) \/ CreateSetQueued(o, ms)
      PROVE  mail[m].status = "failed"
  <2>1. \A s, t : s # "failed" => /\ [mail[m] EXCEPT !.status = s].status # "failed"
                                 /\ [mail[m] EXCEPT !.status = s, !.taskId = t].status # "failed"
    BY <1>0 DEF TypeOK, MailRow
  <2>2. CASE CreateInsert(o, ms)
    BY <2>1, <2>2 DEF CreateInsert, InsertRows
  <2>3. CASE CreateSetQueued(o, ms)
    BY <2>1, <2>3 DEF CreateSetQueued
  <2> QED BY <1>2, <2>2, <2>3
<1>3. ASSUME NEW x \in Mails, RetryTaskId(o, x) PROVE mail[m].status = "failed"
  BY <1>0, <1>3 DEF RetryTaskId, TypeOK, MailRow
<1>4. ASSUME NEW x \in Mails, CancelUpdate(o, x) \/ RetryStatus(o, x) PROVE mail[m].status = "failed"
  BY <1>1, <1>4 DEF CancelUpdate, RetryStatus
<1>5. ASSUME UNCHANGED mail PROVE mail[m].status = "failed"
  BY <1>5
<1> QED
  BY <1>2, <1>3, <1>4, <1>5 DEF RequestStep, RequestFails, CreateEnqueue, RetryEnqueue,
     CancelRead, CancelDelete, RetryRead

LEMMA RunFailsOwnMail ==
    ASSUME IInv, NEW w \in Workers, HandlerStep(w), ~Settle(w), NEW m \in Mails,
           mail'[m].status = "failed", mail[m].status # "failed"
    PROVE  RunMail(w) = m /\ (LastRetry(w) \/ unsendable'[run[w].task])
<1>0. TypeOK /\ RunMail(w) = m
  BY RunWritesOwnRow DEF IInv
<1>1. run[w].task \in Tasks
  BY HandlerEffect, HeldStage DEF IInv
<1>2. \A s : UpdateStatus(RunMail(w), s) => mail'[m].status = s
  BY <1>0 DEF UpdateStatus, TypeOK, MailRow
<1>3. CASE PrepareUnsendable(w)
  BY <1>0, <1>1, <1>3 DEF PrepareUnsendable, TypeOK
<1>4. CASE AfterSendError(w) \/ ErrorHandler(w)
  BY <1>0, <1>2, <1>4 DEF AfterSendError, ErrorHandler, SwallowedError
<1>5. ~MarkSending(w) /\ ~MarkSent(w) /\ ~ClearBodies(w)
  BY <1>0 DEF MarkSending, MarkSent, ClearBodies, SwallowedError, TypeOK, MailRow
<1> QED
  BY <1>0, <1>3, <1>4, <1>5 DEF HandlerStep, Load, CallFails, PrepareReady, PrepareDelayed,
     SendSucceeds, SendErrs

LEMMA FailedStep == ASSUME IInv, FailedIsSpent, [Next]_vars PROVE FailedIsSpent'
<1>1. SUFFICES ASSUME NEW m \in Mails, mail'[m].status = "failed"
               PROVE  \E t \in Tasks : task'[t].mail = m /\ Spent(t)'
  BY DEF FailedIsSpent
<1>2. CASE mail[m].status = "failed"
  <2>1. PICK t \in Tasks : task[t].mail = m /\ Spent(t)
    BY <1>2 DEF FailedIsSpent
  <2>2. task[t].state # "free"
    BY <2>1, NoMailAssumption DEF IInv, FreeIsNew
  <2>3. Spent(t)'
    <3>1. failures[t] \in Nat /\ MaxRetry \in Nat
      BY MaxRetryAssumption DEF IInv, TypeOK
    <3>2. /\ failures'[t] = failures[t] \/ failures'[t] = failures[t] + 1
          /\ unsendable[t] => unsendable'[t]
      BY FailuresMove DEF IInv
    <3> QED BY <2>1, <3>1, <3>2 DEF Spent
  <2> QED BY <2>1, <2>2, <2>3, TaskKeepsMail
<1>3. CASE mail[m].status # "failed"
  <2>1. PICK w \in Workers : HandlerStep(w) /\ ~Settle(w)
    <3>1. mail' # mail
      BY <1>1, <1>3
    <3>2. \A w \in Workers : Settle(w) \/ WorkerCrash(w) \/ WorkerShutdown(w) => mail' = mail
      BY EndEffect
    <3>3. \A w \in Workers, t \in Tasks : Dequeue(w, t) => mail' = mail
      BY DequeueEffect
    <3>4. \A t \in Tasks : Recover(t) => mail' = mail
      BY RecoverEffect
    <3>5. \A o \in Ops : ~(RequestStep(o) \/ RequestFails(o))
      BY <1>1, <1>3, RequestsFailNoMail
    <3> QED BY <3>1, <3>2, <3>3, <3>4, <3>5 DEF Next, vars
  <2>2. RunMail(w) = m /\ (LastRetry(w) \/ unsendable'[run[w].task])
    BY <1>1, <1>3, <2>1, RunFailsOwnMail
  <2>3. PICK t \in Tasks : t = run[w].task /\ run'[w].task = t /\ task' = task
    BY <2>1, HandlerEffect, HeldStage DEF IInv
  <2>4. Spent(t)'
    <3>1. /\ task[t].retried \in Nat /\ failures[t] \in Nat /\ MaxRetry \in Nat
          /\ task[t].retried <= failures[t]
      BY MaxRetryAssumption DEF IInv, TypeOK, TaskRec, RetriesAreFailures
    <3>2. failures'[t] = failures[t] \/ failures'[t] = failures[t] + 1
      BY FailuresMove DEF IInv
    <3> QED BY <2>2, <2>3, <3>1, <3>2 DEF Spent, LastRetry, Retried
  <2> QED BY <2>2, <2>3, <2>4 DEF RunMail
<1> QED BY <1>2, <1>3

\* A mail says failed only if a run found one of its tasks unsendable, or MaxRetry - 1 runs
\* of one ended in an error that is no delay or with their worker, whatever crashes and
\* shutdowns happen: the ErrorHandler, which looks at no error, does not bring a mail there
\* that rate limits and open breakers only put off.
THEOREM FailuresAreCounted == Spec => []FailedIsSpent
<1>1. Init => FailedIsSpent
  BY DEF Init, FailedIsSpent
<1>2. IInv /\ FailedIsSpent /\ [Next]_vars => FailedIsSpent'
  BY FailedStep
<1> QED BY <1>1, <1>2, InductiveInvariant, PTL DEF Spec
=============================================================================
