-------------------------- MODULE PartitionsProofs --------------------------
(***************************************************************************)
(* What EnsurePartitions promises holds for any number of workers, entries *)
(* and months, any calendar and any failures.                              *)
(***************************************************************************)
EXTENDS Partitions, TLAPS

RunShape == [step : {"idle", "create", "migrate", "done"}, i : 0..3, now : Dates]

\* The months a run names are months of the calendar, in the order of the loop.
LEMMA MonthAfterSound ==
    ASSUME NEW date \in Dates, NEW j \in Ahead
    PROVE /\ MonthAfter(date, j) \in Months
          /\ date.day <= 28 => MonthAfter(date, j) = date.month + j
          /\ j = 0 => MonthAfter(date, j) = date.month
<1>1. /\ date.month \in 0..MaxMonth /\ date.day \in 1..31 /\ MaxMonth \in Nat
      /\ date.day <= MonthLength[date.month]
    BY CalendarAssumption DEF Dates
<1>2. \A m \in 0..MaxMonth + 4 : m \in Months /\ MonthLength[m] \in 28..31
    BY CalendarAssumption
<1>3. /\ date.month + j \in 0..MaxMonth + 4 /\ date.month + j + 1 \in 0..MaxMonth + 4
      /\ MonthLength[date.month + j] \in 28..31
    BY <1>1, <1>2 DEF Ahead
<1>4. QED
    BY <1>1, <1>2, <1>3 DEF MonthAfter, Ahead

LEMMA InitSound == Init => IInv
<1> SUFFICES ASSUME Init PROVE IInv OBVIOUS
<1>1. /\ today \in [month : {0}, day : {d \in Days : d <= MonthLength[0]}]
      /\ partitions = {} /\ run = [w \in Workers |-> NoRun]
      /\ inDefault = [m \in Months |-> 0] /\ inPartition = [m \in Months |-> 0]
      /\ logged = [m \in Months |-> 0]
    BY DEF Init, PartitionsInit
<1>2. /\ MaxMonth \in Nat /\ 0 \in 0..MaxMonth /\ Days \subseteq 1..31 /\ MonthLength[0] \in 28..31
    BY CalendarAssumption
<1>3. today \in Dates
    BY <1>1, <1>2 DEF Dates
<1>4. NoRun \in RunShape /\ NoRun.i = 0 /\ NoRun.step = "idle"
    <2>1. [month |-> 0, day |-> 1] \in Dates
        BY <1>2 DEF Dates
    <2>2. QED
        BY <2>1 DEF NoRun, RunShape
<1>5. TypeOK
    BY <1>1, <1>3, <1>4 DEF TypeOK, RunShape
<1>6. EntriesInPlace
    BY <1>1 DEF EntriesInPlace
<1>7. RunsCover
    BY <1>1, <1>4 DEF RunsCover, Ahead
<1>8. QED
    BY <1>5, <1>6, <1>7 DEF IInv

-----------------------------------------------------------------------------
(* The runs.                                                                *)

\* A run that starts, restarts or is given up has passed no month.
LEMMA FreshRun ==
    ASSUME IInv, NEW w \in Workers, NEW new \in RunShape, new.i = 0, new.step # "done",
           run' = [run EXCEPT ![w] = new],
           UNCHANGED <<partitions, inDefault, inPartition, logged>>, today' \in Dates
    PROVE IInv'
<1>1. \A v \in Workers : run'[v] = IF v = w THEN new ELSE run[v]
    BY DEF IInv, TypeOK
<1>2. TypeOK'
    BY DEF IInv, TypeOK, RunShape
<1>3. RunsCover'
    BY <1>1 DEF IInv, RunsCover, Ahead
<1>4. EntriesInPlace'
    BY DEF IInv, EntriesInPlace
<1>5. QED
    BY <1>2, <1>3, <1>4 DEF IInv

\* No step of a run.
LEMMA OtherStep ==
    ASSUME IInv, UNCHANGED <<partitions, inDefault, inPartition, logged, run>>, today' \in Dates
    PROVE IInv'
    BY DEF IInv, TypeOK, EntriesInPlace, RunsCover

\* The month of the run got its partition, and the run goes on.
LEMMA NextSound ==
    ASSUME IInv, NEW w \in Workers, run[w].step \in {"create", "migrate"}, NextMonth(w),
           partitions' = partitions \cup {Month(w)}
    PROVE /\ run' \in [Workers -> RunShape] /\ partitions' \subseteq Months /\ RunsCover'
<1> DEFINE i == run[w].i
           new == [step |-> IF i = 3 THEN "done" ELSE "create",
                   i |-> IF i = 3 THEN 3 ELSE i + 1, now |-> run[w].now]
<1>1. run[w] \in RunShape /\ i \in 0..3 /\ run[w].now \in Dates
    BY DEF IInv, TypeOK, RunShape
<1>2. run' = [run EXCEPT ![w] = new]
    BY <1>1 DEF NextMonth, IInv, TypeOK, RunShape
<1>3. /\ new \in RunShape /\ new.now = run[w].now
      /\ new.i = (IF i = 3 THEN 3 ELSE i + 1) /\ (new.step = "done" => i = 3)
    BY <1>1 DEF RunShape
<1> HIDE DEF new
<1>4. \A v \in Workers : run'[v] = IF v = w THEN new ELSE run[v]
    BY <1>2 DEF IInv, TypeOK
<1>5. run' \in [Workers -> RunShape]
    BY <1>2, <1>3 DEF IInv, TypeOK, RunShape
<1>6. Month(w) = MonthAfter(run[w].now, i) /\ Month(w) \in Months
    BY <1>1, MonthAfterSound DEF Month, Ahead
<1>7. partitions' \subseteq Months
    BY <1>6 DEF IInv, TypeOK
<1>8. ASSUME NEW j \in Ahead, j < new.i \/ new.step = "done"
      PROVE  MonthAfter(new.now, j) \in partitions'
    <2>1. CASE j = i
        BY <2>1, <1>3, <1>6
    <2>2. CASE j # i
        <3>1. j < i
            BY <2>2, <1>1, <1>3, <1>8 DEF Ahead
        <3>2. QED
            BY <3>1, <1>3 DEF IInv, RunsCover
    <2>3. QED
        BY <2>1, <2>2
<1>9. RunsCover'
    BY <1>4, <1>8 DEF IInv, RunsCover
<1>10. QED
    BY <1>5, <1>7, <1>9

LEMMA CreateSound == ASSUME IInv, NEW w \in Workers, CreatePartition(w) PROVE IInv'
<1>0. /\ UNCHANGED <<today, created, inDefault, inPartition, logged>>
      /\ run[w].step = "create" /\ run[w] \in RunShape
    BY DEF CreatePartition, IInv, TypeOK, RunShape
<1>1. CASE run' = [run EXCEPT ![w] = NoRun] /\ partitions' = partitions
    <2>1. NoRun \in RunShape /\ NoRun.i = 0 /\ NoRun.step = "idle"
        <3>1. [month |-> 0, day |-> 1] \in Dates
            BY CalendarAssumption DEF Dates
        <3>2. QED
            BY <3>1 DEF NoRun, RunShape
    <2>2. QED
        BY <1>0, <1>1, <2>1, FreshRun DEF IInv, TypeOK
<1>2. CASE /\ Month(w) \in partitions \/ inDefault[Month(w)] = 0
           /\ partitions' = partitions \cup {Month(w)} /\ NextMonth(w)
    <2>1. /\ run' \in [Workers -> RunShape] /\ partitions' \subseteq Months /\ RunsCover'
        BY <1>0, <1>2, NextSound
    <2>2. TypeOK'
        BY <1>0, <2>1 DEF IInv, TypeOK, RunShape
    <2>3. EntriesInPlace'
        BY <1>0, <1>2 DEF IInv, EntriesInPlace
    <2>4. QED
        BY <2>1, <2>2, <2>3 DEF IInv
<1>3. CASE run' = [run EXCEPT ![w].step = "migrate"] /\ partitions' = partitions
    <2> DEFINE new == [run[w] EXCEPT !.step = "migrate"]
    <2>1. /\ new \in RunShape /\ new.i = run[w].i /\ new.now = run[w].now /\ new.step = "migrate"
          /\ run' = [run EXCEPT ![w] = new]
        BY <1>0, <1>3 DEF RunShape
    <2> HIDE DEF new
    <2>2. \A v \in Workers : run'[v] = IF v = w THEN new ELSE run[v]
        BY <2>1 DEF IInv, TypeOK
    <2>3. TypeOK'
        BY <1>0, <1>3, <2>1 DEF IInv, TypeOK, RunShape
    <2>4. RunsCover'
        BY <1>3, <2>1, <2>2 DEF IInv, RunsCover
    <2>5. QED
        BY <1>0, <1>3, <2>3, <2>4 DEF IInv, EntriesInPlace
<1>4. QED
    BY <1>1, <1>2, <1>3 DEF CreatePartition

\* The rows of the month change places within one transaction.
LEMMA MigrateSound == ASSUME IInv, NEW w \in Workers, MigrateFromDefault(w) PROVE IInv'
<1> DEFINE m == Month(w)
<1>1. /\ UNCHANGED <<today, created, logged>> /\ run[w].step = "migrate" /\ m \notin partitions
      /\ partitions' = partitions \cup {m} /\ NextMonth(w)
      /\ inPartition' = [inPartition EXCEPT ![m] = inPartition[m] + inDefault[m]]
      /\ inDefault' = [inDefault EXCEPT ![m] = 0]
    BY DEF MigrateFromDefault
<1>2. m \in Months
    BY MonthAfterSound DEF IInv, TypeOK, Month, Ahead
<1>3. /\ run' \in [Workers -> RunShape] /\ partitions' \subseteq Months /\ RunsCover'
    BY <1>1, NextSound
<1> HIDE DEF m
<1>4. /\ inDefault \in [Months -> Nat] /\ inPartition \in [Months -> Nat] /\ logged \in [Months -> Nat]
    BY DEF IInv, TypeOK
<1>5. /\ inDefault' \in [Months -> Nat] /\ inPartition' \in [Months -> Nat]
      /\ \A n \in Months : /\ inDefault'[n] = IF n = m THEN 0 ELSE inDefault[n]
                           /\ inPartition'[n] = IF n = m THEN inPartition[m] + inDefault[m]
                                                ELSE inPartition[n]
    BY <1>1, <1>2, <1>4
<1>6. TypeOK'
    BY <1>1, <1>3, <1>5 DEF IInv, TypeOK, RunShape
<1>7. EntriesInPlace'
    BY <1>1, <1>2, <1>4, <1>5 DEF IInv, EntriesInPlace
<1>8. QED
    BY <1>3, <1>6, <1>7 DEF IInv

LEMMA LogSound == IInv /\ LogEntry => IInv'
<1> SUFFICES ASSUME IInv, LogEntry PROVE IInv' OBVIOUS
<1> DEFINE m == today.month
<1>1. /\ UNCHANGED <<today, created, partitions, run>>
      /\ logged' = [logged EXCEPT ![m] = logged[m] + 1]
      /\ \/ /\ m \in partitions /\ inDefault' = inDefault
            /\ inPartition' = [inPartition EXCEPT ![m] = inPartition[m] + 1]
         \/ /\ m \notin partitions /\ inPartition' = inPartition
            /\ inDefault' = [inDefault EXCEPT ![m] = inDefault[m] + 1]
    BY DEF LogEntry
<1>2. m \in Months /\ today \in Dates
    BY CalendarAssumption DEF IInv, TypeOK, Dates
<1> HIDE DEF m
<1>3. /\ inDefault \in [Months -> Nat] /\ inPartition \in [Months -> Nat] /\ logged \in [Months -> Nat]
    BY DEF IInv, TypeOK
<1>4. /\ logged' \in [Months -> Nat]
      /\ \A n \in Months : logged'[n] = IF n = m THEN logged[n] + 1 ELSE logged[n]
    BY <1>1, <1>2, <1>3
<1>5. /\ inDefault' \in [Months -> Nat] /\ inPartition' \in [Months -> Nat]
      /\ EntriesInPlace'
    <2>1. CASE m \in partitions
        <3>1. /\ inDefault' = inDefault /\ inPartition' \in [Months -> Nat]
              /\ \A n \in Months : inPartition'[n] = IF n = m THEN inPartition[n] + 1 ELSE inPartition[n]
            BY <2>1, <1>1, <1>3
        <3>2. QED
            BY <2>1, <3>1, <1>1, <1>3, <1>4 DEF IInv, EntriesInPlace
    <2>2. CASE m \notin partitions
        <3>1. /\ inPartition' = inPartition /\ inDefault' \in [Months -> Nat]
              /\ \A n \in Months : inDefault'[n] = IF n = m THEN inDefault[n] + 1 ELSE inDefault[n]
            BY <2>2, <1>1, <1>3
        <3>2. QED
            BY <2>2, <3>1, <1>1, <1>3, <1>4 DEF IInv, EntriesInPlace
    <2>3. QED
        BY <2>1, <2>2
<1>6. QED
    BY <1>1, <1>2, <1>4, <1>5 DEF IInv, TypeOK, RunsCover

-----------------------------------------------------------------------------
LEMMA StepSound == IInv /\ [Next]_vars => IInv'
<1> SUFFICES ASSUME IInv, [Next]_vars PROVE IInv' OBVIOUS
<1>0. today \in Dates
    BY DEF IInv, TypeOK
<1>1. ASSUME NEW w \in Workers, BeginRun(w), UNCHANGED Tables PROVE IInv'
    <2> DEFINE new == [step |-> "create", i |-> 0, now |-> today]
    <2>1. new \in RunShape /\ new.i = 0 /\ new.step = "create"
        BY <1>0 DEF RunShape
    <2>2. run' = [run EXCEPT ![w] = new]
        BY <1>1 DEF BeginRun
    <2> HIDE DEF new
    <2>3. QED
        BY <1>0, <1>1, <2>1, <2>2, FreshRun DEF Tables
<1>2. ASSUME NEW w \in Workers, Abandon(w) PROVE IInv'
    <2>1. NoRun \in RunShape /\ NoRun.i = 0 /\ NoRun.step = "idle"
        <3>1. [month |-> 0, day |-> 1] \in Dates
            BY CalendarAssumption DEF Dates
        <3>2. QED
            BY <3>1 DEF NoRun, RunShape
    <2>2. QED
        BY <1>0, <1>2, <2>1, FreshRun DEF Abandon, Tables
<1>3. ASSUME NEW w \in Workers, WorkerStep(w) PROVE IInv'
    <2>1. CASE Boot(w) \/ TakePartitions(w)
        BY <2>1, <1>1 DEF Boot, TakePartitions
    <2>2. CASE EndRun(w) \/ (Stop(w) /\ UNCHANGED partitionVars)
        BY <2>2, <1>0, OtherStep DEF EndRun, partitionVars
    <2>3. CASE FailRun(w) \/ (Crash(w) /\ Abandon(w))
        BY <2>3, <1>2 DEF FailRun
    <2>4. CASE RunStep(w)
        BY <2>4, CreateSound, MigrateSound DEF RunStep
    <2>5. QED
        BY <1>3, <2>1, <2>2, <2>3, <2>4 DEF WorkerStep
<1>4. CASE Passes
    <2>1. PICK day \in Days, ahead \in {0, 1} :
              /\ IF ahead = 0 THEN day > today.day ELSE today.month < MaxMonth
              /\ day <= MonthLength[today.month + ahead]
              /\ today' = [month |-> today.month + ahead, day |-> day]
        BY <1>4 DEF Passes
    <2>2. today.month \in 0..MaxMonth /\ MaxMonth \in Nat /\ day \in 1..31
        BY <1>0, CalendarAssumption DEF Dates
    <2>3. today' \in Dates
        BY <2>1, <2>2 DEF Dates
    <2>4. QED
        BY <1>4, <2>3, OtherStep DEF Passes
<1>5. CASE RunMigrations
    BY <1>5, <1>0, OtherStep DEF RunMigrations
<1>6. CASE UNCHANGED vars
    BY <1>6, <1>0, OtherStep DEF vars, partitionVars
<1>7. QED
    BY <1>3, <1>4, <1>5, <1>6, LogSound DEF Next

\* The invariant of EnsurePartitions: the months a run has passed are covered.
THEOREM InductiveInvariant == Spec => []IInv
<1>1. QED
    BY InitSound, StepSound, PTL DEF Spec

\* No entry of the audit log is lost, doubled or left in the default partition once its
\* month has one, whatever workers create and move meanwhile (migrateFromDefault).
THEOREM EntriesStayInPlace == Spec => []EntriesInPlace
<1>1. IInv => EntriesInPlace
    BY DEF IInv
<1>2. QED
    BY <1>1, InductiveInvariant, PTL

\* An EnsurePartitions that ended well has covered the month it began in, and the next
\* three unless it began on a day that not every month has.
THEOREM EndedRunHasCovered == Spec => []DoneMeansCovered
<1>1. IInv => DoneMeansCovered
    <2> SUFFICES ASSUME IInv, NEW w \in Workers, run[w].step = "done"
                 PROVE  Covers(w, IF run[w].now.day <= 28 THEN Ahead ELSE {0})
        BY DEF DoneMeansCovered
    <2>1. run[w].now \in Dates /\ \A j \in Ahead : MonthAfter(run[w].now, j) \in partitions
        BY DEF IInv, TypeOK, RunsCover
    <2>2. 0 \in Ahead
        BY DEF Ahead
    <2>3. CASE run[w].now.day <= 28
        BY <2>1, <2>3, MonthAfterSound DEF Covers
    <2>4. CASE ~(run[w].now.day <= 28)
        <3>1. MonthAfter(run[w].now, 0) = run[w].now.month
            BY <2>1, <2>2, MonthAfterSound
        <3>2. run[w].now.month + 0 = run[w].now.month
            BY <2>1, CalendarAssumption DEF Dates
        <3>3. QED
            BY <2>1, <2>2, <2>4, <3>1, <3>2 DEF Covers
    <2>5. QED
        BY <2>3, <2>4
<1>2. QED
    BY <1>1, InductiveInvariant, PTL
=============================================================================
