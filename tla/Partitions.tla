----------------------------- MODULE Partitions -----------------------------
(***************************************************************************)
(* EnsurePartitions (internal/worker/partition_handler.go): the monthly    *)
(* partitions of audit_logs for the current month and the three next, with *)
(* the move of rows that fell into the default partition. It runs when a   *)
(* worker starts and every day, in every worker process.                   *)
(***************************************************************************)
EXTENDS WorkerProcesses

CONSTANTS
    MonthLength,  \* the days of each month, from month 0 on
    Days,         \* the days of a month on which something happens
    MaxMonth,     \* bound on the clock
    MaxEntries    \* bound on the entries of a month

Ahead == 0..3
Months == DOMAIN MonthLength

ASSUME CalendarAssumption ==
    /\ MonthLength \in [Months -> 28..31]
    /\ Days \subseteq 1..31
    /\ MaxMonth \in Nat /\ 0..MaxMonth + 4 \subseteq Months

VARIABLES
    today,       \* [month, day]
    created,     \* audit_logs exists: the migrations were run
    partitions,  \* the months that have a partition
    inDefault,   \* the rows of each month in audit_logs_default
    inPartition, \* and in the partition of the month
    logged,      \* observation: the entries logged of each month
    run          \* the last EnsurePartitions of each worker: [step, i, now]

partitionVars == <<today, created, partitions, inDefault, inPartition, logged, run>>

NoRun == [step |-> "idle", i |-> 0, now |-> [month |-> 0, day |-> 1]]

PartitionsInit ==
    /\ today \in [month : {0}, day : {d \in Days : d <= MonthLength[0]}]
    /\ created = FALSE
    /\ partitions = {}
    /\ inDefault = [m \in Months |-> 0]
    /\ inPartition = [m \in Months |-> 0]
    /\ logged = [m \in Months |-> 0]
    /\ run = [w \in Workers |-> NoRun]

RunMigrations ==
    /\ ~created
    /\ created' = TRUE
    /\ UNCHANGED <<today, partitions, inDefault, inPartition, logged, run>>

\* The next day on which something happens.
Passes ==
    /\ \E day \in Days, ahead \in {0, 1} :
        /\ IF ahead = 0 THEN day > today.day ELSE today.month < MaxMonth
        /\ day <= MonthLength[today.month + ahead]
        /\ today' = [month |-> today.month + ahead, day |-> day]
    /\ UNCHANGED <<created, partitions, inDefault, inPartition, logged, run>>

\* An audit entry goes to the partition of its month, or else to the default one.
LogEntry ==
    LET m == today.month IN
    /\ created
    /\ \A n \in Months : logged[n] < MaxEntries
    /\ logged' = [logged EXCEPT ![m] = @ + 1]
    /\ IF m \in partitions
       THEN inPartition' = [inPartition EXCEPT ![m] = @ + 1] /\ UNCHANGED inDefault
       ELSE inDefault' = [inDefault EXCEPT ![m] = @ + 1] /\ UNCHANGED inPartition
    /\ UNCHANGED <<today, created, partitions, run>>

-----------------------------------------------------------------------------

BeginRun(w) == run' = [run EXCEPT ![w] = [step |-> "create", i |-> 0, now |-> today]]

\* A faulty calendar that counts from the month to come.
MonthAfterNext(date, i) == date.month + i + 1

\* AddDate: a day the month does not have is a day of the next month.
MonthAfter(date, i) ==
    LET m == date.month + i IN IF date.day <= MonthLength[m] THEN m ELSE m + 1

Month(w) == MonthAfter(run[w].now, run[w].i)

\* The loop goes on, or ends without an error.
NextMonth(w) ==
    run' = [run EXCEPT ![w] = [step |-> IF run[w].i = 3 THEN "done" ELSE "create",
                               i |-> IF run[w].i = 3 THEN 3 ELSE run[w].i + 1,
                               now |-> run[w].now]]

\* CREATE TABLE IF NOT EXISTS: refused when the default partition holds rows of the month,
\* given up when audit_logs does not exist.
CreatePartition(w) ==
    /\ run[w].step = "create"
    /\ \/ /\ ~created
          /\ run' = [run EXCEPT ![w] = NoRun]
          /\ UNCHANGED partitions
       \/ /\ created /\ (Month(w) \in partitions \/ inDefault[Month(w)] = 0)
          /\ partitions' = partitions \cup {Month(w)}
          /\ NextMonth(w)
       \/ /\ created /\ Month(w) \notin partitions /\ inDefault[Month(w)] > 0
          /\ run' = [run EXCEPT ![w].step = "migrate"]
          /\ UNCHANGED partitions
    /\ UNCHANGED <<today, created, inDefault, inPartition, logged>>

\* A faulty transaction whose DELETE returns nothing to insert.
MigrateFromDefaultLosing(w) ==
    LET m == Month(w) IN
    /\ run[w].step = "migrate"
    /\ m \notin partitions
    /\ partitions' = partitions \cup {m}
    /\ inDefault' = [inDefault EXCEPT ![m] = 0]
    /\ NextMonth(w)
    /\ UNCHANGED <<today, created, inPartition, logged>>

\* migrateFromDefault: DETACH locks the table until the commit, so that nobody logs an
\* entry in between; the CREATE fails when another worker made the partition.
MigrateFromDefault(w) ==
    LET m == Month(w) IN
    /\ run[w].step = "migrate"
    /\ m \notin partitions
    /\ partitions' = partitions \cup {m}
    /\ inPartition' = [inPartition EXCEPT ![m] = @ + inDefault[m]]
    /\ inDefault' = [inDefault EXCEPT ![m] = 0]
    /\ NextMonth(w)
    /\ UNCHANGED <<today, created, logged>>

MigrationRefused(w) == run[w].step = "migrate" /\ Month(w) \in partitions

-----------------------------------------------------------------------------
(* The runs in their worker processes.                                      *)

vars == <<processVars, partitionVars>>

Tables == <<today, created, partitions, inDefault, inPartition, logged>>

Boot(w) == StartWorker(w, "boot") /\ BeginRun(w) /\ UNCHANGED Tables

TakePartitions(w) == Take(w) /\ BeginRun(w) /\ UNCHANGED Tables

Ended(w) == run[w].step \in {"idle", "done"}

\* The error of the run at the start is only logged.
EndRun(w) ==
    /\ doing[w] \in {"boot", "task"}
    /\ Ended(w)
    /\ Return(w)
    /\ UNCHANGED partitionVars

Abandon(w) == run' = [run EXCEPT ![w] = NoRun] /\ UNCHANGED Tables

\* A query fails, or CREATE finds the partition of another worker.
FailRun(w) ==
    /\ ~Ended(w)
    /\ MigrationRefused(w) \/ faults < MaxFaults
    /\ faults' = IF MigrationRefused(w) THEN faults ELSE faults + 1
    /\ ReturnError(w)
    /\ Abandon(w)

RunStep(w) == (CreatePartition(w) \/ MigrateFromDefault(w)) /\ UNCHANGED processVars

WorkerStep(w) ==
    \/ Boot(w) \/ TakePartitions(w) \/ EndRun(w) \/ FailRun(w)
    \/ Stop(w) /\ UNCHANGED partitionVars
    \/ Crash(w) /\ Abandon(w)
    \/ RunStep(w)

Next ==
    \/ \E w \in Workers : WorkerStep(w)
    \/ Passes /\ Schedule
    \/ (RunMigrations \/ LogEntry) /\ UNCHANGED processVars

Init == ProcessesInit /\ PartitionsInit

Spec == Init /\ [][Next]_vars

\* A process that is up goes on, and one that is down is started again.
Progress(w) ==
    \/ Boot(w) \/ TakePartitions(w) \/ EndRun(w) \/ RunStep(w)
    \/ MigrationRefused(w) /\ FailRun(w)

FairSpec == Spec /\ \A w \in Workers : WF_vars(Progress(w))

-----------------------------------------------------------------------------
(* Properties.                                                              *)

\* However many workers create partitions and move rows while entries are logged: no
\* entry is lost or doubled, and each is in the partition of its month if there is one.
EntriesInPlace ==
    \A m \in Months :
        /\ inDefault[m] + inPartition[m] = logged[m]
        /\ IF m \in partitions THEN inDefault[m] = 0 ELSE inPartition[m] = 0

Covers(w, ahead) == \A i \in ahead : run[w].now.month + i \in partitions

\* A run that ended well has covered the month it began in, and, begun before the 29th,
\* the three months after it, whatever other workers did meanwhile.
DoneMeansCovered ==
    \A w \in Workers : run[w].step = "done" =>
        Covers(w, IF run[w].now.day <= 28 THEN Ahead ELSE {0})

\* The inductive invariant. Every variable keeps its shape, and dates exist ...
Dates == {date \in [month : 0..MaxMonth, day : 1..31] : date.day <= MonthLength[date.month]}

TypeOK ==
    /\ today \in Dates
    /\ partitions \subseteq Months
    /\ inDefault \in [Months -> Nat] /\ inPartition \in [Months -> Nat] /\ logged \in [Months -> Nat]
    /\ run \in [Workers -> [step : {"idle", "create", "migrate", "done"}, i : 0..3, now : Dates]]

\* ... and the months a run has passed are covered.
RunsCover ==
    \A w \in Workers : \A j \in Ahead :
        j < run[w].i \/ run[w].step = "done" => MonthAfter(run[w].now, j) \in partitions

IInv == TypeOK /\ EntriesInPlace /\ RunsCover

\* The partition of the month is made once a daily task waits, however rows of the month
\* got into the default partition before, and however often the run fails, meets the run
\* of another worker or loses its process.
MonthCovered ==
    \A m \in 0..MaxMonth :
        created /\ due > 0 /\ today.month = m ~> m \in partitions \/ today.month # m
=============================================================================
