-------------------------- MODULE WorkerProcesses --------------------------
(***************************************************************************)
(* The worker processes (startWorker of cmd/mailhive/main.go) as a daily   *)
(* task sees them: every process has a scheduler of its own, so that each  *)
(* day the task is enqueued once for every process that is up. Asynq gives *)
(* it to one process, again after an error, and to another after a crash.  *)
(***************************************************************************)
EXTENDS Naturals, FiniteSets

CONSTANTS
    Workers,
    MaxDue,    \* bound on the tasks that wait
    MaxFaults, \* bound on failures and crashes
    Nothing

ASSUME BoundsAssumption == MaxDue \in Nat /\ MaxFaults \in Nat

VARIABLES
    doing,  \* what each process does: "down", "boot", "idle" or "task"
    due,    \* the daily tasks that wait
    faults

processVars == <<doing, due, faults>>

ProcessesInit ==
    /\ doing = [w \in Workers |-> "down"]
    /\ due = 0
    /\ faults = 0

Up == {w \in Workers : doing[w] \notin {"down", "boot"}}

\* EnsurePartitions runs in "boot", before the server and the scheduler start.
StartWorker(w, first) ==
    /\ doing[w] = "down"
    /\ doing' = [doing EXCEPT ![w] = first]
    /\ UNCHANGED <<due, faults>>

\* @daily, in the scheduler of every process.
Schedule ==
    /\ due' = IF due + Cardinality(Up) < MaxDue THEN due + Cardinality(Up) ELSE MaxDue
    /\ UNCHANGED <<doing, faults>>

Take(w) ==
    /\ doing[w] = "idle"
    /\ due > 0
    /\ doing' = [doing EXCEPT ![w] = "task"]
    /\ due' = due - 1
    /\ UNCHANGED faults

\* The handler returned nil; the result of the run at the start is only logged.
Return(w) ==
    /\ doing' = [doing EXCEPT ![w] = "idle"]
    /\ UNCHANGED <<due, faults>>

\* A faulty handler that hides its error from Asynq.
PutBackNothing(w) == UNCHANGED due

PutBack(w) == due' = IF doing[w] = "task" THEN due + 1 ELSE due

\* The handler returned an error.
ReturnError(w) ==
    /\ doing' = [doing EXCEPT ![w] = "idle"]
    /\ PutBack(w)

\* SIGTERM between two tasks.
Stop(w) ==
    /\ doing[w] = "idle"
    /\ doing' = [doing EXCEPT ![w] = "down"]
    /\ UNCHANGED <<due, faults>>

Crash(w) ==
    /\ faults < MaxFaults
    /\ doing[w] # "down"
    /\ faults' = faults + 1
    /\ doing' = [doing EXCEPT ![w] = "down"]
    /\ PutBack(w)
=============================================================================
