---------------------------- MODULE ArchiveProofs ----------------------------
(***************************************************************************)
(* What ArchiveOldMails promises holds for any number of mails, archivers, *)
(* retries and failures, and any batch size.                               *)
(***************************************************************************)
EXTENDS Archive, TLAPS

LEMMA InitSound == Init => IInv
<1> SUFFICES ASSUME Init PROVE IInv OBVIOUS
<1>1. /\ mails \in [Mails -> Rows] /\ \A m \in Mails : mails[m].task = m
      /\ recipients = Mails /\ archive = [m \in Mails |-> Nothing] /\ archivedRecipients = {}
      /\ batch = [w \in Workers |-> NoBatch] /\ old = {}
      /\ task = [t \in Tasks |-> IF t \in Mails /\ mails[t].status = "queued" THEN "waits" ELSE "none"]
      /\ retry = [r \in Retries |-> [step |-> "read", mail |-> Nothing]]
      /\ cancel = [c \in Cancels |-> [step |-> "read", mail |-> Nothing, task |-> Nothing]]
    BY DEF Init, ArchiveInit
<1>2. \A m \in Mails : mails[m] # Nothing
    BY <1>1, NothingAssumption
<1>3. TypeOK
    BY <1>1 DEF TypeOK, NoBatch
<1>4. LocksHold
    BY <1>1 DEF LocksHold, NoBatch
<1>5. MovedWhole
    BY <1>1, <1>2 DEF MovedWhole, Stored
<1>6. OnlyTasksArchive
    BY <1>1 DEF OnlyTasksArchive, Init, ProcessesInit
<1>7. RequestsSound
    BY <1>1, ArchiveAssumption DEF RequestsSound, Tasks
<1>8. PendingSound
    BY <1>1, <1>2 DEF PendingSound, TaskMail, Stored, Terminal, Tasks
<1>9. QED
    BY <1>3, <1>4, <1>5, <1>6, <1>7, <1>8 DEF IInv, TablesSound

\* A write of one row nobody has locked: the mail stays where it is.
LEMMA WriteSound ==
    ASSUME TablesSound, NEW m, ~Locked(m), NEW row, m \in Mails /\ Stored(m) => row \in Rows,
           mails' = IF Stored(m) THEN [mails EXCEPT ![m] = row] ELSE mails,
           UNCHANGED <<recipients, archive, archivedRecipients, batch, old>>
    PROVE TablesSound'
<1>1. mails \in [Mails -> Rows \cup {Nothing}]
    BY DEF TablesSound, TypeOK
<1>2. \A n \in Mails : mails'[n] = IF Stored(m) /\ n = m THEN row ELSE mails[n]
    BY <1>1
<1>3. mails' \in [Mails -> Rows \cup {Nothing}]
    <2>1. CASE Stored(m) /\ m \in Mails
        BY <2>1, <1>1
    <2>2. CASE ~Stored(m)
        BY <2>2, <1>1
    <2>3. CASE Stored(m) /\ m \notin Mails
        BY <2>3, <1>1
    <2>4. QED
        BY <2>1, <2>2, <2>3
<1>4. \A n \in Mails : (mails'[n] = Nothing) <=> (mails[n] = Nothing)
    BY <1>1, <1>2, NothingAssumption DEF Stored
<1>5. TypeOK'
    BY <1>3 DEF TablesSound, TypeOK
<1>6. MovedWhole'
    BY <1>4 DEF TablesSound, MovedWhole, Stored
<1>7. LocksHold'
    <2>1. \A w \in Workers, n \in Mails : n \in batch[w].ids => mails'[n] = mails[n]
        BY <1>2 DEF Locked
    <2>2. \A w \in Workers : batch[w].ids \subseteq Mails
        BY DEF TablesSound, TypeOK
    <2>3. QED
        BY <2>1, <2>2 DEF TablesSound, LocksHold, Matches
<1>8. QED
    BY <1>5, <1>6, <1>7 DEF TablesSound

\* A step that touches neither the tables nor a transaction.
LEMMA IdleSound ==
    ASSUME TablesSound, UNCHANGED <<mails, recipients, archive, archivedRecipients, batch>>,
           old' \subseteq Mails
    PROVE TablesSound'
    BY DEF TablesSound, TypeOK, LocksHold, MovedWhole, Matches, Stored

\* A transaction that begins, or is rolled back, holds nothing.
LEMMA ReleaseSound ==
    ASSUME TablesSound, NEW w \in Workers, NEW new,
           batch' = [batch EXCEPT ![w] = new], new.ids = {},
           new \in [step : {"idle", "begin", "lock", "commit"},
                    seen : [Mails -> Rows \cup {Nothing}] \cup {<<>>}, ids : SUBSET Mails],
           new.step = "lock" => new.seen \in [Mails -> Rows \cup {Nothing}],
           UNCHANGED tables
    PROVE TablesSound'
<1>1. \A v \in Workers : batch'[v] = IF v = w THEN new ELSE batch[v]
    BY DEF TablesSound, TypeOK
<1>2. TypeOK'
    BY DEF TablesSound, TypeOK, tables
<1>3. LocksHold'
    BY <1>1 DEF TablesSound, LocksHold, Matches, tables
<1>4. QED
    BY <1>2, <1>3 DEF TablesSound, MovedWhole, Stored, tables

LEMMA BeginSound ==
    ASSUME TablesSound, NEW w \in Workers, BeginBatch(w)
    PROVE TablesSound'
<1> DEFINE new == [step |-> "lock", ids |-> {},
                   seen |-> [m \in Mails |-> IF InReach(m) THEN mails[m] ELSE Nothing]]
<1>1. /\ new.ids = {}
      /\ new \in [step : {"idle", "begin", "lock", "commit"},
                  seen : [Mails -> Rows \cup {Nothing}] \cup {<<>>}, ids : SUBSET Mails]
      /\ new.seen \in [Mails -> Rows \cup {Nothing}]
    BY DEF TablesSound, TypeOK
<1>2. batch' = [batch EXCEPT ![w] = new] /\ UNCHANGED tables
    BY DEF BeginBatch, tables
<1> HIDE DEF new
<1>3. QED
    BY <1>1, <1>2, ReleaseSound

\* NoBatch, as it is or about to begin.
LEMMA NoBatchShape ==
    \A s \in {"idle", "begin"} :
        /\ [NoBatch EXCEPT !.step = s].ids = {}
        /\ [NoBatch EXCEPT !.step = s].step = s
        /\ [NoBatch EXCEPT !.step = s] \in
              [step : {"idle", "begin", "lock", "commit"},
               seen : [Mails -> Rows \cup {Nothing}] \cup {<<>>}, ids : SUBSET Mails]
<1> SUFFICES ASSUME NEW s \in {"idle", "begin"}
             PROVE /\ [NoBatch EXCEPT !.step = s].ids = {}
                   /\ [NoBatch EXCEPT !.step = s].step = s
                   /\ [NoBatch EXCEPT !.step = s] \in
                        [step : {"idle", "begin", "lock", "commit"},
                         seen : [Mails -> Rows \cup {Nothing}] \cup {<<>>}, ids : SUBSET Mails]
    OBVIOUS
<1> DEFINE none == <<>>
<1> HIDE DEF none
<1>1. NoBatch = [step |-> "idle", seen |-> none, ids |-> {}]
    BY DEF NoBatch, none
<1>2. [NoBatch EXCEPT !.step = s] = [step |-> s, seen |-> none, ids |-> {}]
    BY <1>1
<1>3. none \in [Mails -> Rows \cup {Nothing}] \cup {<<>>}
    BY DEF none
<1> DEFINE seen == [Mails -> Rows \cup {Nothing}] \cup {<<>>}
<1> HIDE DEF seen
<1>4. [step |-> s, seen |-> none, ids |-> {}] \in
          [step : {"idle", "begin", "lock", "commit"}, seen : seen, ids : SUBSET Mails]
    BY <1>3 DEF seen
<1>5. QED
    BY <1>2, <1>4 DEF seen

LEMMA NoBatchIdle == NoBatch = [NoBatch EXCEPT !.step = "idle"]
    BY DEF NoBatch

LEMMA RollbackSound ==
    ASSUME TablesSound, NEW w \in Workers, Rollback(w)
    PROVE TablesSound'
<1>1. /\ NoBatch.ids = {} /\ NoBatch.step # "lock"
      /\ NoBatch \in [step : {"idle", "begin", "lock", "commit"},
                      seen : [Mails -> Rows \cup {Nothing}] \cup {<<>>}, ids : SUBSET Mails]
    BY NoBatchShape, NoBatchIdle
<1>2. batch' = [batch EXCEPT ![w] = NoBatch] /\ UNCHANGED tables
    BY DEF Rollback, tables
<1>3. QED
    BY <1>1, <1>2, ReleaseSound

\* The task begins where the one before it ended, with NoBatch.
LEMMA TakeSound ==
    ASSUME IInv, NEW w \in Workers, TakeArchive(w)
    PROVE TablesSound'
<1> DEFINE new == [batch[w] EXCEPT !.step = "begin"]
<1>0. TablesSound /\ batch[w].ids = {}
    BY DEF IInv, OnlyTasksArchive, TakeArchive, Take, NoBatch
<1>1. batch[w] \in [step : {"idle", "begin", "lock", "commit"},
                    seen : [Mails -> Rows \cup {Nothing}] \cup {<<>>}, ids : SUBSET Mails]
    BY <1>0 DEF TablesSound, TypeOK
<1>2. /\ new.ids = {} /\ new.step = "begin"
      /\ new \in [step : {"idle", "begin", "lock", "commit"},
                  seen : [Mails -> Rows \cup {Nothing}] \cup {<<>>}, ids : SUBSET Mails]
    BY <1>0, <1>1
<1>3. batch' = [batch EXCEPT ![w] = new] /\ UNCHANGED tables
    BY DEF TakeArchive, tables
<1> HIDE DEF new
<1>4. QED
    BY <1>0, <1>2, <1>3, ReleaseSound

-----------------------------------------------------------------------------
(* The two statements that matter.                                          *)

\* FOR UPDATE SKIP LOCKED: finished rows, of nobody else.
LEMMA LockSound ==
    ASSUME TablesSound, NEW w \in Workers, LockBatch(w)
    PROVE TablesSound'
<1>1. PICK ids \in SUBSET Eligible(w) :
          batch' = [batch EXCEPT ![w] =
                IF ids = {} THEN NoBatch ELSE [batch[w] EXCEPT !.step = "commit", !.ids = ids]]
    BY DEF LockBatch
<1>2. batch[w].step = "lock" /\ UNCHANGED tables
    BY DEF LockBatch, tables
<1>3. CASE ids = {}
    <2>1. /\ NoBatch.ids = {} /\ NoBatch.step # "lock"
          /\ NoBatch \in [step : {"idle", "begin", "lock", "commit"},
                          seen : [Mails -> Rows \cup {Nothing}] \cup {<<>>}, ids : SUBSET Mails]
        BY NoBatchShape, NoBatchIdle
    <2>2. batch' = [batch EXCEPT ![w] = NoBatch]
        BY <1>1, <1>3
    <2>3. QED
        BY <1>2, <2>1, <2>2, ReleaseSound
<1>4. CASE ids # {}
    <2> DEFINE new == [batch[w] EXCEPT !.step = "commit", !.ids = ids]
    <2>1. /\ batch[w] \in [step : {"idle", "begin", "lock", "commit"},
                           seen : [Mails -> Rows \cup {Nothing}] \cup {<<>>}, ids : SUBSET Mails]
          /\ batch[w].seen \in [Mails -> Rows \cup {Nothing}]
        BY <1>2 DEF TablesSound, TypeOK, LocksHold
    <2>2. /\ ids \subseteq Mails
          /\ \A m \in ids : Matches(batch[w].seen, m) /\ Matches(mails, m) /\ ~Locked(m)
        BY DEF Eligible, TablesSound, TypeOK
    <2>3. /\ new.ids = ids /\ new.step = "commit" /\ new.seen = batch[w].seen
          /\ new \in [step : {"idle", "begin", "lock", "commit"},
                      seen : [Mails -> Rows \cup {Nothing}] \cup {<<>>}, ids : SUBSET Mails]
        BY <2>1, <2>2
    <2>4. batch' = [batch EXCEPT ![w] = new]
        BY <1>1, <1>4
    <2> HIDE DEF new
    <2>5. \A v \in Workers : batch'[v] = IF v = w THEN new ELSE batch[v]
        BY <2>4 DEF TablesSound, TypeOK
    <2>6. TypeOK'
        BY <1>2, <2>3, <2>4 DEF TablesSound, TypeOK, tables
    <2>7. LocksHold'
        <3>1. \A v \in Workers :
                /\ batch'[v].step = "lock" => batch'[v].seen \in [Mails -> Rows \cup {Nothing}]
                /\ \A m \in batch'[v].ids :
                     /\ batch'[v].step = "commit" /\ Matches(mails, m)
                     /\ batch'[v].seen \in [Mails -> Rows \cup {Nothing}]
                     /\ Matches(batch'[v].seen, m)
            BY <2>1, <2>2, <2>3, <2>5 DEF TablesSound, LocksHold
        <3>2. \A u, v \in Workers : u # v => batch'[u].ids \cap batch'[v].ids = {}
            BY <2>2, <2>3, <2>5 DEF TablesSound, LocksHold, Locked
        <3>3. mails' = mails
            BY <1>2 DEF tables
        <3>4. QED
            BY <3>1, <3>2, <3>3 DEF LocksHold, Matches
    <2>8. QED
        BY <1>2, <2>6, <2>7 DEF TablesSound, MovedWhole, Stored, tables
<1>5. QED
    BY <1>3, <1>4

\* The rows of the batch move with their recipients; they were finished.
LEMMA MoveSound ==
    ASSUME TablesSound, NEW w \in Workers, Move(w),
           NEW step \in {"idle", "begin"}, batch' = [batch EXCEPT ![w] = [NoBatch EXCEPT !.step = step]]
    PROVE /\ TablesSound'
          /\ \A m \in Mails : mails'[m] = mails[m] \/ (mails'[m] = Nothing /\ mails[m].status \in Terminal)
<1> DEFINE ids == batch[w].ids
           new == [NoBatch EXCEPT !.step = step]
<1>1. /\ archive' = [m \in Mails |-> IF m \in ids THEN ArchiveRow(batch[w].seen[m]) ELSE archive[m]]
      /\ archivedRecipients' = archivedRecipients \cup (recipients \cap ids)
      /\ mails' = [m \in Mails |-> IF m \in ids THEN Nothing ELSE mails[m]]
      /\ recipients' = recipients \ ids
      /\ batch' = [batch EXCEPT ![w] = new] /\ old' = old
    BY DEF Move
<1>2. /\ ids \subseteq Mails
      /\ \A m \in ids : Matches(mails, m) /\ batch[w].seen[m] \in Rows
    <2>1. \A m \in ids : batch[w].seen \in [Mails -> Rows \cup {Nothing}] /\ batch[w].seen[m] # Nothing
        BY DEF TablesSound, LocksHold, Matches
    <2>2. ids \subseteq Mails /\ \A m \in ids : Matches(mails, m)
        BY DEF TablesSound, TypeOK, LocksHold
    <2>3. QED
        BY <2>1, <2>2
<1>3. /\ new.ids = {} /\ new.step # "lock"
      /\ new \in [step : {"idle", "begin", "lock", "commit"},
                  seen : [Mails -> Rows \cup {Nothing}] \cup {<<>>}, ids : SUBSET Mails]
    BY NoBatchShape
<1> HIDE DEF new
<1>4. \A v \in Workers : batch'[v] = IF v = w THEN new ELSE batch[v]
    BY <1>1 DEF TablesSound, TypeOK
<1>5. TypeOK'
    BY <1>1, <1>3 DEF TablesSound, TypeOK
<1>6. LocksHold'
    <2>1. \A v \in Workers : v # w => batch[v].ids \cap ids = {} /\ batch[v].ids \subseteq Mails
        BY DEF TablesSound, TypeOK, LocksHold
    <2>2. \A v \in Workers : v # w => \A m \in batch[v].ids : mails'[m] = mails[m]
        BY <1>1, <2>1
    <2>3. \A v \in Workers : v # w =>
             /\ batch[v].step = "lock" => batch[v].seen \in [Mails -> Rows \cup {Nothing}]
             /\ \A m \in batch[v].ids :
                  /\ batch[v].step = "commit" /\ mails'[m] # Nothing /\ mails'[m].status \in Terminal
                  /\ batch[v].seen \in [Mails -> Rows \cup {Nothing}] /\ Matches(batch[v].seen, m)
        BY <2>2 DEF TablesSound, LocksHold, Matches
    <2>4. \A u, v \in Workers : u # v => batch'[u].ids \cap batch'[v].ids = {}
        BY <1>3, <1>4 DEF TablesSound, LocksHold
    <2>5. QED
        BY <1>3, <1>4, <2>3, <2>4 DEF LocksHold, Matches
<1>7. MovedWhole'
    <2>1. \A m \in ids : mails[m] # Nothing /\ mails'[m] = Nothing /\ archive'[m] # Nothing
        BY <1>1, <1>2, NothingAssumption DEF Matches
    <2>2. \A m \in Mails \ ids : mails'[m] = mails[m] /\ archive'[m] = archive[m]
        BY <1>1
    <2>3. \A m \in Mails : Stored(m) <=> archive[m] = Nothing
        BY DEF TablesSound, MovedWhole
    <2>4. \A m \in Mails : mails'[m] # Nothing <=> archive'[m] = Nothing
        BY <2>1, <2>2, <2>3 DEF Stored
    <2>5. recipients = {m \in Mails : mails[m] # Nothing} /\ archivedRecipients = Mails \ recipients
        BY DEF TablesSound, MovedWhole, Stored
    <2>6. recipients' = {m \in Mails : mails'[m] # Nothing}
        BY <1>1, <2>1, <2>2, <2>5
    <2>7. archivedRecipients' = Mails \ recipients'
        BY <1>1, <1>2, <2>5
    <2>8. QED
        BY <2>4, <2>6, <2>7 DEF MovedWhole, Stored
<1>8. \A m \in Mails : mails'[m] = mails[m] \/ (mails'[m] = Nothing /\ mails[m].status \in Terminal)
    BY <1>1, <1>2 DEF Matches
<1>9. QED
    BY <1>5, <1>6, <1>7, <1>8 DEF TablesSound

\* The commit of a batch, and one whose answer is lost.
LEMMA CommitSound ==
    ASSUME TablesSound, NEW w \in Workers, CommitBatch(w) \/ LoseCommit(w)
    PROVE /\ TablesSound'
          /\ \A m \in Mails : mails'[m] = mails[m] \/ (mails'[m] = Nothing /\ mails[m].status \in Terminal)
<1>1. PICK step \in {"idle", "begin"} : batch' = [batch EXCEPT ![w] = [NoBatch EXCEPT !.step = step]]
    BY NoBatchIdle DEF CommitBatch, LoseCommit
<1>2. Move(w)
    BY DEF CommitBatch, LoseCommit
<1>3. QED
    BY <1>1, <1>2, MoveSound

-----------------------------------------------------------------------------
(* The requests and the runs write one row, and leave the rest.             *)

LEMMA RowSound ==
    ASSUME TablesSound, NEW m, NEW row, m \in Mails /\ Stored(m) => row \in Rows, Write(m, row)
    PROVE TablesSound'
    BY WriteSound DEF Write

LEMMA StatusSound ==
    ASSUME TablesSound, NEW m, NEW status \in Terminal \cup {"queued", "sending"}, SetStatus(m, status)
    PROVE TablesSound'
<1> DEFINE row == [mails[m] EXCEPT !.status = status]
<1>1. m \in Mails /\ Stored(m) => row \in Rows
    BY DEF TablesSound, TypeOK, Stored, Rows
<1>2. Write(m, row)
    BY DEF SetStatus
<1> HIDE DEF row
<1>3. QED
    BY <1>1, <1>2, RowSound

LEMMA RetryTables ==
    ASSUME TablesSound, NEW r \in Retries, RetryStep(r)
    PROVE TablesSound'
<1>1. CASE RetryRead(r) \/ RetryEnqueue(r) \/ RetryFails(r)
    BY <1>1, IdleSound DEF RetryRead, RetryEnqueue, RetryFails, tables, TablesSound, TypeOK
<1>2. CASE RetryTaskId(r)
    <2> DEFINE m == retry[r].mail
               row == [mails[m] EXCEPT !.task = r]
    <2>1. Write(m, row)
        BY <1>2 DEF RetryTaskId
    <2>2. m \in Mails /\ Stored(m) => row \in Rows
        BY DEF TablesSound, TypeOK, Stored, Rows, Tasks
    <2> HIDE DEF m, row
    <2>3. QED
        BY <2>1, <2>2, RowSound
<1>3. CASE RetryStatus(r)
    BY <1>3, StatusSound DEF RetryStatus
<1>4. QED
    BY <1>1, <1>2, <1>3 DEF RetryStep

LEMMA CancelTables ==
    ASSUME TablesSound, NEW c \in Cancels, CancelStep(c)
    PROVE TablesSound'
<1>1. CASE CancelRead(c) \/ CancelDelete(c)
    BY <1>1, IdleSound DEF CancelRead, CancelDelete, tables, TablesSound, TypeOK
<1>2. CASE CancelWrite(c)
    BY <1>2, StatusSound DEF CancelWrite, Terminal
<1>3. QED
    BY <1>1, <1>2 DEF CancelStep

LEMMA RunTables ==
    ASSUME TablesSound, NEW t \in Tasks, RunStep(t)
    PROVE TablesSound'
<1>1. CASE Load(t) \/ Interrupted(t)
    BY <1>1, IdleSound DEF Load, Interrupted, tables, TablesSound, TypeOK
<1>2. CASE Advance(t, "loaded", "sending", "sending") \/ Advance(t, "sending", "queued", "waits")
    BY <1>2, StatusSound DEF Advance
<1>3. CASE MarkSent(t) \/ FailRun(t)
    BY <1>3, StatusSound DEF MarkSent, FailRun, Terminal
<1>4. CASE ClearBodies(t)
    <2> DEFINE m == TaskMail(t)
               row == [mails[m] EXCEPT !.body = "compressed"]
    <2>1. Write(m, row)
        BY <1>4 DEF ClearBodies
    <2>2. m \in Mails /\ Stored(m) => row \in Rows
        BY DEF TablesSound, TypeOK, Stored, Rows
    <2> HIDE DEF m, row
    <2>3. QED
        BY <2>1, <2>2, RowSound
<1>5. QED
    BY <1>1, <1>2, <1>3, <1>4 DEF RunStep

-----------------------------------------------------------------------------
(* One step of the system: the tables.                                      *)

\* A step of a worker takes only finished rows away, and writes none.
LEMMA WorkerTables ==
    ASSUME IInv, NEW w \in Workers, WorkerStep(w)
    PROVE /\ TablesSound'
          /\ \A m \in Mails : mails'[m] = mails[m] \/ (mails'[m] = Nothing /\ mails[m].status \in Terminal)
<1>0. TablesSound
    BY DEF IInv
<1>1. CASE (StartWorker(w, "idle") \/ Stop(w)) /\ UNCHANGED archiveVars
    BY <1>0, <1>1, IdleSound DEF archiveVars, tables, TablesSound, TypeOK
<1>2. CASE TakeArchive(w)
    BY <1>2, TakeSound DEF TakeArchive, tables
<1>3. CASE EndArchive(w)
    BY <1>0, <1>3, IdleSound DEF EndArchive, archiveVars, tables, TablesSound, TypeOK
<1>4. CASE FailArchive(w) \/ FailInsert(w) \/ (Crash(w) /\ Rollback(w))
    <2>1. Rollback(w)
        BY <1>4 DEF FailArchive, FailInsert
    <2>2. QED
        BY <1>0, <2>1, RollbackSound DEF Rollback, tables
<1>5. CASE BeginBatch(w)
    BY <1>0, <1>5, BeginSound DEF BeginBatch, tables
<1>6. CASE LockBatch(w)
    BY <1>0, <1>6, LockSound DEF LockBatch, tables
<1>7. CASE CommitBatch(w) \/ LoseCommit(w)
    BY <1>0, <1>7, CommitSound
<1>8. QED
    BY <1>1, <1>2, <1>3, <1>4, <1>5, <1>6, <1>7 DEF WorkerStep, ArchiveStep

LEMMA TableStep == IInv /\ Next => TablesSound'
<1> SUFFICES ASSUME IInv, Next PROVE TablesSound' OBVIOUS
<1>0. TablesSound
    BY DEF IInv
<1>1. CASE Schedule /\ UNCHANGED archiveVars
    BY <1>0, <1>1, IdleSound DEF archiveVars, tables, TablesSound, TypeOK
<1>2. ASSUME NEW m \in Mails, Ages(m) PROVE TablesSound'
    BY <1>0, <1>2, IdleSound DEF Ages, TablesSound, TypeOK
<1>3. QED
    BY <1>0, <1>1, <1>2, WorkerTables, RetryTables, CancelTables, RunTables DEF Next

-----------------------------------------------------------------------------
(* The requests, and what they say of the tasks.                            *)

LEMMA RequestStep == IInv /\ Next => RequestsSound'
<1> SUFFICES ASSUME IInv, Next PROVE RequestsSound' OBVIOUS
<1>0. RequestsSound
    BY DEF IInv
<1>1. CASE UNCHANGED others
    BY <1>0, <1>1 DEF others, RequestsSound
<1>2. ASSUME NEW t \in Tasks, RunStep(t) PROVE RequestsSound'
    <2>1. /\ UNCHANGED <<retry, cancel>> /\ task[t] # "none"
          /\ \E to \in {"none", "waits", "loaded", "sending", "sent"} : Goes(t, to)
        BY <1>2 DEF RunStep, Load, Advance, MarkSent, FailRun, ClearBodies, Interrupted
    <2>2. QED
        BY <1>0, <2>1 DEF RequestsSound, Goes
<1>3. ASSUME NEW r \in Retries, RetryStep(r) PROVE RequestsSound'
    <2>0. r \in Tasks
        BY DEF Tasks
    <2>1. CASE RetryRead(r)
        BY <2>1, <1>0 DEF RetryRead, RequestsSound
    <2>2. CASE RetryEnqueue(r)
        BY <2>0, <2>2, <1>0 DEF RetryEnqueue, GoOn, RequestsSound
    <2>3. CASE RetryTaskId(r)
        BY <2>3, <1>0 DEF RetryTaskId, GoOn, RequestsSound
    <2>4. CASE RetryStatus(r)
        BY <2>4, <1>0 DEF RetryStatus, GoOn, RequestsSound
    <2>5. CASE RetryFails(r)
        BY <2>5, <1>0 DEF RetryFails, GoOn, RequestsSound
    <2>6. QED
        BY <1>3, <2>1, <2>2, <2>3, <2>4, <2>5 DEF RetryStep
<1>4. ASSUME NEW c \in Cancels, CancelStep(c) PROVE RequestsSound'
    <2>1. CASE CancelRead(c)
        <3>1. PICK m \in Mails : Stored(m) /\ cancel' = [cancel EXCEPT ![c] =
                  [step |-> "delete", mail |-> m, task |-> mails[m].task]]
            BY <2>1 DEF CancelRead
        <3>2. mails[m].task \in Tasks
            BY <3>1 DEF IInv, TablesSound, TypeOK, Stored, Rows
        <3>3. QED
            BY <2>1, <3>1, <3>2, <1>0 DEF CancelRead, RequestsSound
    <2>2. CASE CancelDelete(c)
        <3>1. /\ task' \in [Tasks -> {"none", "waits", "loaded", "sending", "sent"}]
              /\ \A t \in Tasks : task[t] = "none" => task'[t] = "none"
            BY <2>2, <1>0 DEF CancelDelete, RequestsSound
        <3>2. \A r \in Retries : r \in Tasks
            BY DEF Tasks
        <3>3. QED
            BY <2>2, <3>1, <3>2, <1>0 DEF CancelDelete, RequestsSound
    <2>3. CASE CancelWrite(c)
        BY <2>3, <1>0 DEF CancelWrite, RequestsSound
    <2>4. QED
        BY <1>4, <2>1, <2>2, <2>3 DEF CancelStep
<1>5. ASSUME NEW w \in Workers, WorkerStep(w) PROVE UNCHANGED others
    BY <1>5 DEF WorkerStep, ArchiveStep, BeginBatch, LockBatch, CommitBatch, TakeArchive, EndArchive,
                FailArchive, FailInsert, LoseCommit, Rollback, archiveVars
<1>6. QED
    BY <1>1, <1>2, <1>3, <1>4, <1>5 DEF Next, Ages, archiveVars

\* The mail of a task.
LEMMA TaskMails ==
    ASSUME RequestsSound, NEW t \in Tasks, task[t] # "none"
    PROVE TaskMail(t) \in Mails
    BY DEF RequestsSound, TaskMail, Tasks

\* A step that starts no task, asks for no retry and opens no mail again, and that closes a
\* mail when it gives it a terminal status.
LEMMA PendingKept ==
    ASSUME RequestsSound, PendingSound, retry' = retry, closed \subseteq closed',
           \A t \in Tasks : task'[t] # "none" => task[t] # "none",
           \A m \in Mails : (mails'[m] # Nothing => mails'[m].status \in Terminal) =>
               (mails[m] # Nothing => mails[m].status \in Terminal) \/ m \in closed'
    PROVE PendingSound'
<1> SUFFICES ASSUME NEW t \in Tasks, task'[t] # "none",
                    mails'[TaskMail(t)] # Nothing => mails'[TaskMail(t)].status \in Terminal
             PROVE TaskMail(t) \in closed' \/ NotRelaunched(t)
    BY DEF PendingSound, TaskMail, Stored, NotRelaunched
<1>1. task[t] # "none" /\ TaskMail(t) \in Mails
    BY TaskMails
<1>2. CASE TaskMail(t) \notin closed'
    <2>1. mails[TaskMail(t)] # Nothing => mails[TaskMail(t)].status \in Terminal
        BY <1>1, <1>2
    <2>2. QED
        BY <1>1, <2>1 DEF PendingSound, Stored
<1>3. QED
    BY <1>2

\* The step of a run.
LEMMA RunPending ==
    ASSUME IInv, NEW t \in Tasks, RunStep(t)
    PROVE PendingSound'
<1>0. RequestsSound /\ PendingSound /\ mails \in [Mails -> Rows \cup {Nothing}]
    BY DEF IInv, TablesSound, TypeOK
<1>1. retry' = retry /\ \A u \in Tasks : task'[u] # "none" => task[u] # "none"
    BY <1>0 DEF RunStep, Load, Advance, MarkSent, FailRun, ClearBodies, Interrupted, Goes, RequestsSound
<1>2. CASE Load(t) \/ Interrupted(t)
    BY <1>0, <1>1, <1>2, PendingKept DEF Load, Interrupted, tables
<1>3. CASE Advance(t, "loaded", "sending", "sending") \/ Advance(t, "sending", "queued", "waits")
    <2>1. PICK status \in {"sending", "queued"} : SetStatus(TaskMail(t), status) /\ closed' = closed
        BY <1>3 DEF Advance
    <2>2. \A m \in Mails : mails'[m] = mails[m] \/ (mails'[m] # Nothing /\ mails'[m].status = status)
        BY <1>0, <2>1, NothingAssumption DEF SetStatus, Write, Stored, Rows
    <2>3. status \notin Terminal
        BY DEF Terminal
    <2>4. QED
        BY <1>0, <1>1, <2>1, <2>2, <2>3, PendingKept
<1>4. CASE MarkSent(t) \/ FailRun(t)
    <2>1. PICK status \in Terminal : SetStatus(TaskMail(t), status) /\ Close(TaskMail(t))
        BY <1>4 DEF MarkSent, FailRun, Terminal
    <2>2. \A m \in Mails : mails'[m] = mails[m] \/ m \in closed'
        BY <1>0, <2>1 DEF SetStatus, Write, Close
    <2>3. closed \subseteq closed'
        BY <2>1 DEF Close
    <2>4. QED
        BY <1>0, <1>1, <2>2, <2>3, PendingKept
<1>5. CASE ClearBodies(t)
    <2>1. Write(TaskMail(t), [mails[TaskMail(t)] EXCEPT !.body = "compressed"]) /\ closed' = closed
        BY <1>5 DEF ClearBodies
    <2>2. \A m \in Mails : mails'[m] = mails[m] \/
              (mails[m] # Nothing /\ mails'[m] # Nothing /\ mails'[m].status = mails[m].status)
        BY <1>0, <2>1, NothingAssumption DEF Write, Stored, Rows
    <2>3. QED
        BY <1>0, <1>1, <2>1, <2>2, PendingKept
<1>6. QED
    BY <1>2, <1>3, <1>4, <1>5 DEF RunStep

LEMMA CancelPending ==
    ASSUME IInv, NEW c \in Cancels, CancelStep(c)
    PROVE PendingSound'
<1>0. RequestsSound /\ PendingSound /\ mails \in [Mails -> Rows \cup {Nothing}]
    BY DEF IInv, TablesSound, TypeOK
<1>1. CASE CancelRead(c)
    BY <1>0, <1>1, PendingKept DEF CancelRead, tables
<1>2. CASE CancelDelete(c)
    <2>1. \A t \in Tasks : task'[t] # "none" => task[t] # "none"
        BY <1>0, <1>2 DEF CancelDelete, RequestsSound
    <2>2. QED
        BY <1>0, <1>2, <2>1, PendingKept DEF CancelDelete, tables
<1>3. CASE CancelWrite(c)
    <2> DEFINE m == cancel[c].mail
    <2>1. SetStatus(m, "cancelled") /\ Close(m) /\ UNCHANGED <<task, retry>>
        BY <1>3 DEF CancelWrite
    <2>2. \A n \in Mails : mails'[n] = mails[n] \/ n \in closed'
        BY <1>0, <2>1 DEF SetStatus, Write, Close
    <2>3. closed \subseteq closed'
        BY <2>1 DEF Close
    <2>4. QED
        BY <1>0, <2>1, <2>2, <2>3, PendingKept
<1>4. QED
    BY <1>1, <1>2, <1>3 DEF CancelStep

\* The step of a retry: the mail of its own task, and the mail itself when it says queued.
LEMMA RetryPending ==
    ASSUME IInv, NEW r \in Retries, RetryStep(r)
    PROVE PendingSound'
<1>0. RequestsSound /\ PendingSound /\ mails \in [Mails -> Rows \cup {Nothing}]
    BY DEF IInv, TablesSound, TypeOK
<1>1. r \in Tasks /\ r \notin Mails
    BY ArchiveAssumption DEF Tasks
<1>2. \A u \in Tasks : u # r => task'[u] = task[u]
    BY <1>0 DEF RetryStep, RetryRead, RetryEnqueue, RetryTaskId, RetryStatus, RetryFails, RequestsSound
<1>3. \A u \in Retries : u # r => retry'[u] = retry[u]
    BY <1>0 DEF RetryStep, RetryRead, RetryEnqueue, RetryTaskId, RetryStatus, RetryFails, GoOn, RequestsSound
<1> SUFFICES ASSUME NEW t \in Tasks, task'[t] # "none",
                    Stored(TaskMail(t))' => (mails[TaskMail(t)].status)' \in Terminal
             PROVE (TaskMail(t) \in closed)' \/ NotRelaunched(t)'
    BY DEF PendingSound
<1>4. t # r => TaskMail(t)' = TaskMail(t) /\ task'[t] = task[t] /\ (NotRelaunched(t) => NotRelaunched(t)')
    BY <1>1, <1>2, <1>3 DEF TaskMail, NotRelaunched, Tasks
<1>5. CASE t = r
    <2>1. CASE RetryRead(r)
        BY <1>0, <1>5, <2>1 DEF RetryRead, RequestsSound
    <2>2. CASE RetryEnqueue(r) \/ RetryTaskId(r) \/ RetryFails(r)
        BY <1>0, <1>5, <2>2 DEF RetryEnqueue, RetryTaskId, RetryFails, GoOn, RequestsSound, NotRelaunched
    <2>3. CASE RetryStatus(r)
        <3> DEFINE m == retry[r].mail
        <3>1. m \in Mails /\ SetStatus(m, "queued") /\ TaskMail(r)' = m
            BY <1>0, <1>1, <2>3 DEF RetryStatus, RequestsSound, GoOn, TaskMail
        <3>2. CASE Stored(m)
            <4>1. mails'[m] # Nothing /\ mails'[m].status = "queued"
                BY <1>0, <3>1, <3>2, NothingAssumption DEF SetStatus, Write, Stored, Rows
            <4>2. QED
                BY <1>5, <3>1, <4>1 DEF Stored, Terminal
        <3>3. CASE ~Stored(m)
            BY <1>0, <1>5, <2>3, <3>3 DEF RetryStatus, GoOn, RequestsSound, NotRelaunched
        <3>4. QED
            BY <3>2, <3>3
    <2>4. QED
        BY <2>1, <2>2, <2>3 DEF RetryStep
<1>6. CASE t # r
    <2> DEFINE n == TaskMail(t)
    <2>1. n \in Mails /\ TaskMail(t)' = n /\ task[t] # "none"
        BY <1>0, <1>4, <1>6, TaskMails
    <2>2. mails'[n] # Nothing => mails'[n].status \in Terminal
        BY <2>1 DEF Stored
    <2>3. (n \in closed => n \in closed') /\ (mails[n] # Nothing => mails[n].status \in Terminal)
        <3>1. CASE RetryRead(r) \/ RetryEnqueue(r) \/ RetryFails(r)
            BY <2>2, <3>1 DEF RetryRead, RetryEnqueue, RetryFails, tables
        <3>2. CASE RetryTaskId(r)
            <4>1. mails'[n] = mails[n] \/ (mails'[n] = [mails[n] EXCEPT !.task = r] /\ mails[n] # Nothing)
                BY <1>0, <2>1, <3>2 DEF RetryTaskId, Write, Stored
            <4>2. mails[n] # Nothing => mails'[n] # Nothing /\ mails'[n].status = mails[n].status
                BY <1>0, <1>1, <2>1, <4>1, NothingAssumption DEF Rows
            <4>3. closed' = closed
                BY <3>2 DEF RetryTaskId
            <4>4. QED
                BY <2>2, <4>2, <4>3
        <3>3. CASE RetryStatus(r)
            <4> DEFINE m == retry[r].mail
            <4>1. SetStatus(m, "queued") /\ closed' = IF Stored(m) THEN closed \ {m} ELSE closed
                BY <3>3 DEF RetryStatus
            <4>2. CASE n = m /\ Stored(m)
                <5>1. mails'[n] # Nothing /\ mails'[n].status = "queued"
                    BY <1>0, <2>1, <4>1, <4>2, NothingAssumption DEF SetStatus, Write, Stored, Rows
                <5>2. QED
                    BY <2>2, <5>1 DEF Terminal
            <4>3. CASE ~(n = m /\ Stored(m))
                <5>1. mails'[n] = mails[n] /\ (n \in closed => n \in closed')
                    BY <1>0, <2>1, <4>1, <4>3 DEF SetStatus, Write
                <5>2. QED
                    BY <2>2, <5>1
            <4>4. QED
                BY <4>2, <4>3
        <3>4. QED
            BY <3>1, <3>2, <3>3 DEF RetryStep
    <2>4. n \in closed \/ NotRelaunched(t)
        BY <1>0, <2>1, <2>3 DEF PendingSound, Stored
    <2>5. QED
        BY <1>4, <1>6, <2>1, <2>3, <2>4
<1>7. QED
    BY <1>5, <1>6

\* What an archiver takes away was finished, and stays so.
LEMMA PendingStep == IInv /\ Next => PendingSound'
<1> SUFFICES ASSUME IInv, Next PROVE PendingSound' OBVIOUS
<1>0. RequestsSound /\ PendingSound
    BY DEF IInv
<1>1. CASE Schedule /\ UNCHANGED archiveVars
    BY <1>0, <1>1, PendingKept DEF archiveVars, tables, others
<1>2. ASSUME NEW m \in Mails, Ages(m) PROVE PendingSound'
    BY <1>0, <1>2, PendingKept DEF Ages, others
<1>3. ASSUME NEW w \in Workers, WorkerStep(w) PROVE PendingSound'
    <2>1. UNCHANGED others
        BY <1>3 DEF WorkerStep, ArchiveStep, BeginBatch, LockBatch, CommitBatch, TakeArchive, EndArchive,
                    FailArchive, FailInsert, LoseCommit, Rollback, archiveVars
    <2>2. \A m \in Mails : mails'[m] = mails[m] \/ (mails'[m] = Nothing /\ mails[m].status \in Terminal)
        BY <1>3, WorkerTables
    <2>3. QED
        BY <1>0, <2>1, <2>2, PendingKept DEF others
<1>4. QED
    BY <1>1, <1>2, <1>3, RunPending, CancelPending, RetryPending DEF Next

-----------------------------------------------------------------------------
(* The transactions and the processes.                                      *)

\* Transactions come and go with the task of their process.
LEMMA ProcessStep == IInv /\ Next => OnlyTasksArchive'
<1> SUFFICES ASSUME IInv, Next PROVE OnlyTasksArchive' OBVIOUS
<1>0. /\ doing \in [Workers -> {"down", "idle", "task"}]
      /\ \A w \in Workers : doing[w] # "task" => batch[w] = NoBatch
      /\ \A w \in Workers : batch[w].step = "idle" \/ doing[w] = "task"
      /\ DOMAIN batch = Workers
    BY DEF IInv, OnlyTasksArchive, TablesSound, TypeOK, NoBatch
<1>1. ASSUME NEW w \in Workers, WorkerStep(w) PROVE OnlyTasksArchive'
    <2>1. CASE StartWorker(w, "idle") /\ UNCHANGED archiveVars
        BY <2>1, <1>0 DEF StartWorker, archiveVars, OnlyTasksArchive
    <2>2. CASE TakeArchive(w)
        BY <2>2, <1>0 DEF TakeArchive, Take, OnlyTasksArchive
    <2>3. CASE EndArchive(w)
        BY <2>3, <1>0 DEF EndArchive, Return, archiveVars, OnlyTasksArchive
    <2>4. CASE FailArchive(w) \/ FailInsert(w) \/ LoseCommit(w)
        BY <2>4, <1>0 DEF FailArchive, FailInsert, LoseCommit, ReturnError, Rollback, OnlyTasksArchive
    <2>5. CASE Stop(w) /\ UNCHANGED archiveVars
        BY <2>5, <1>0 DEF Stop, archiveVars, OnlyTasksArchive
    <2>6. CASE Crash(w) /\ Rollback(w)
        BY <2>6, <1>0 DEF Crash, Rollback, OnlyTasksArchive
    <2>7. CASE ArchiveStep(w) /\ UNCHANGED processVars
        <3>1. doing[w] = "task" /\ doing' = doing
            BY <2>7, <1>0 DEF ArchiveStep, BeginBatch, LockBatch, CommitBatch, processVars
        <3>2. \A v \in Workers \ {w} : batch'[v] = batch[v]
            BY <2>7, <1>0 DEF ArchiveStep, BeginBatch, LockBatch, CommitBatch
        <3>3. QED
            BY <3>1, <3>2, <1>0 DEF OnlyTasksArchive
    <2>8. QED
        BY <1>1, <2>1, <2>2, <2>3, <2>4, <2>5, <2>6, <2>7 DEF WorkerStep
<1>2. CASE Schedule /\ UNCHANGED archiveVars
    BY <1>2, <1>0 DEF Schedule, archiveVars, OnlyTasksArchive
<1>3. CASE UNCHANGED <<batch, processVars>>
    BY <1>3, <1>0 DEF processVars, OnlyTasksArchive
<1>4. ASSUME NEW m \in Mails, Ages(m) PROVE UNCHANGED batch
    BY <1>4 DEF Ages
<1>5. ASSUME NEW t \in Tasks, RunStep(t) PROVE UNCHANGED batch
    BY <1>5 DEF RunStep, Load, Advance, MarkSent, FailRun, ClearBodies, Interrupted, SetStatus, Write
<1>6. ASSUME NEW r \in Retries, RetryStep(r) PROVE UNCHANGED batch
    BY <1>6 DEF RetryStep, RetryRead, RetryEnqueue, RetryTaskId, RetryStatus, RetryFails, SetStatus, Write
<1>7. ASSUME NEW c \in Cancels, CancelStep(c) PROVE UNCHANGED batch
    BY <1>7 DEF CancelStep, CancelRead, CancelDelete, CancelWrite, SetStatus, Write
<1>8. QED
    BY <1>1, <1>2, <1>3, <1>4, <1>5, <1>6, <1>7 DEF Next

LEMMA StutterSound == IInv /\ UNCHANGED vars => IInv'
<1> SUFFICES ASSUME IInv, UNCHANGED vars PROVE IInv' OBVIOUS
<1>1. TablesSound'
    BY IdleSound DEF vars, archiveVars, tables, IInv, TablesSound, TypeOK
<1>2. OnlyTasksArchive'
    BY DEF vars, archiveVars, processVars, IInv, OnlyTasksArchive
<1>3. RequestsSound'
    BY DEF vars, archiveVars, others, IInv, RequestsSound
<1>4. PendingSound'
    BY PendingKept DEF vars, archiveVars, tables, others, IInv
<1>5. QED
    BY <1>1, <1>2, <1>3, <1>4 DEF IInv

\* The invariant of ArchiveOldMails: what a transaction has locked is there, finished,
\* and nobody else's until it ends; and a task whose row is finished or gone has been
\* worked off or belongs to a retry that has not put its mail into the queue.
THEOREM InductiveInvariant == Spec => []IInv
<1>1. IInv /\ [Next]_vars => IInv'
    BY TableStep, RequestStep, PendingStep, ProcessStep, StutterSound DEF IInv
<1>2. QED
    BY <1>1, InitSound, PTL DEF Spec

\* A mail is in mails or in mails_archive, its recipients with it, whatever archivers,
\* retries, cancellations, runs and crashes meet.
THEOREM MailsAreInOnePlace == Spec => []MovedWhole
<1>1. IInv => MovedWhole
    BY DEF IInv, TablesSound
<1>2. QED
    BY <1>1, InductiveInvariant, PTL

\* A mail that Retry, or its creation, has put into the queue is not archived before a run
\* or a cancellation has closed it, even if the archiver read its row before.
THEOREM NothingPendingIsArchived == Spec => []NothingPendingLeaves
<1>1. IInv => NothingPendingLeaves
    BY DEF IInv, PendingSound, NothingPendingLeaves
<1>2. QED
    BY <1>1, InductiveInvariant, PTL
=============================================================================
