--------------------------- MODULE AuditLogProofs ---------------------------
(***************************************************************************)
(* What Close of the audit log promises, for any number of requests,       *)
(* workers and places in the queue.                                        *)
(***************************************************************************)
EXTENDS AuditLog, FiniteSetTheorems, TLAPS

LEMMA InitIInv == Init => IInv
BY DEF Init, IInv, TypeOK, ReturnedMeansEmpty, ChannelClosed

LEMMA NextTypeOK == TypeOK /\ [Next]_vars => TypeOK'
<1> SUFFICES ASSUME TypeOK, [Next]_vars PROVE TypeOK'
  OBVIOUS
<1> USE DEF TypeOK
<1>1. ASSUME NEW e \in Entries, StartRequest(e) \/ CheckClosed(e) PROVE TypeOK'
  BY <1>1 DEF StartRequest, CheckClosed
<1>2. ASSUME NEW e \in Entries, Send(e) PROVE TypeOK'
  BY <1>2 DEF Send
<1>3. ASSUME NEW w \in Workers, Take(w) PROVE TypeOK'
  BY <1>3 DEF Take, Hold
<1>4. ASSUME NEW w \in Workers, Write(w) PROVE TypeOK'
  BY <1>4 DEF Write, Hold
<1>5. ASSUME NEW w \in Workers, Return(w) PROVE TypeOK'
  BY <1>5 DEF Return
<1>6. CASE Signal \/ Stop
  BY <1>6 DEF Signal, Stop, Shutdown, ShutdownTimesOut, CloseSwap, CloseChannel, CloseWait, Main
<1>7. CASE UNCHANGED vars
  BY <1>7 DEF vars
<1> QED
  BY <1>1, <1>2, <1>3, <1>4, <1>5, <1>6, <1>7 DEF Next, HandlerStep, WorkerStep

\* A request moves: only a send on the open channel changes the queue, and then no
\* worker has returned yet.
LEMMA HandlerKeeps ==
    ASSUME IInv, NEW e \in Entries, StartRequest(e) \/ HandlerStep(e)
    PROVE  ReturnedMeansEmpty'
<1> USE DEF IInv, TypeOK, ReturnedMeansEmpty, ChannelClosed
<1>1. CASE StartRequest(e) \/ CheckClosed(e)
  BY <1>1 DEF StartRequest, CheckClosed, Settled
<1>2. CASE Send(e)
  BY <1>2 DEF Send, Settled
<1> QED
  BY <1>1, <1>2 DEF HandlerStep

LEMMA TakeKeeps ==
    ASSUME IInv, NEW w \in Workers, Take(w)
    PROVE  ReturnedMeansEmpty'
<1> USE DEF IInv, TypeOK
<1>1. PICK e \in queue : /\ worker' = [worker EXCEPT ![w].entry = e]
                         /\ queue' = queue \ {e}
  BY DEF Take, Hold
<1>2. /\ ~worker[w].returned /\ worker[w].entry = NoEntry
      /\ UNCHANGED <<main, handler, created, lost>>
  BY DEF Take
<1>3. \A v \in Workers : ~worker[v].returned
  BY <1>1 DEF ReturnedMeansEmpty
<1>4. \A v \in Workers : ~worker'[v].returned
  BY <1>1, <1>3
<1>5. main' # "exited"
  BY <1>2, <1>3, WorkersAssumption DEF ReturnedMeansEmpty
<1>6. ASSUME NEW d \in Entries, handler'[d] = "accepted"
      PROVE  d \in queue' \/ Settled(d)' \/ \E v \in Workers : worker'[v].entry = d
  <2>1. CASE d = e
    BY <2>1, <1>1
  <2>2. CASE d # e /\ d \in queue
    BY <2>2, <1>1
  <2>3. CASE Settled(d)
    BY <2>3, <1>2 DEF Settled
  <2>4. CASE \E v \in Workers : worker[v].entry = d
    <3>1. PICK v \in Workers : worker[v].entry = d
      BY <2>4
    <3>2. v # w
      BY <3>1, <1>2, NoEntryAssumption
    <3> QED
      BY <3>1, <3>2, <1>1
  <2> QED
    BY <1>2, <1>6, <2>1, <2>2, <2>3, <2>4 DEF ReturnedMeansEmpty
<1> QED
  BY <1>4, <1>5, <1>6 DEF ReturnedMeansEmpty

LEMMA WriteKeeps ==
    ASSUME IInv, NEW w \in Workers, Write(w)
    PROVE  ReturnedMeansEmpty'
<1> USE DEF IInv, TypeOK
<1> DEFINE e == worker[w].entry
<1>1. /\ e # NoEntry /\ worker' = [worker EXCEPT ![w].entry = NoEntry]
      /\ UNCHANGED <<main, handler, queue>>
      /\ e \in created' \cup lost' /\ created \subseteq created' /\ lost \subseteq lost'
  BY DEF Write, Hold
<1>2. ~worker[w].returned
  BY <1>1 DEF ReturnedMeansEmpty
<1>3. \A v \in Workers : worker'[v].returned = worker[v].returned
                         /\ (v # w => worker'[v] = worker[v])
  BY <1>1
<1>4. ASSUME NEW d \in Entries, handler'[d] = "accepted"
      PROVE  d \in queue' \/ Settled(d)' \/ \E v \in Workers : worker'[v].entry = d
  <2>1. d \in queue \/ Settled(d) \/ \E v \in Workers : worker[v].entry = d
    BY <1>1, <1>4 DEF ReturnedMeansEmpty
  <2> QED
    BY <2>1, <1>1, <1>3 DEF Settled
<1> QED
  BY <1>1, <1>2, <1>3, <1>4 DEF ReturnedMeansEmpty, ChannelClosed

LEMMA RestKeeps ==
    ASSUME IInv, Signal \/ Stop \/ (\E w \in Workers : Return(w)) \/ UNCHANGED vars
    PROVE  ReturnedMeansEmpty'
<1> USE DEF IInv, TypeOK, ReturnedMeansEmpty, ChannelClosed, Settled
<1>1. CASE Signal \/ Stop
  BY <1>1 DEF Signal, Stop, Shutdown, ShutdownTimesOut, CloseSwap, CloseChannel, CloseWait, Main
<1>2. CASE \E w \in Workers : Return(w)
  <2>1. PICK w \in Workers : Return(w)
    BY <1>2
  <2>2. \A v \in Workers : worker'[v].entry = worker[v].entry
    BY <2>1 DEF Return
  <2>3. \A v \in Workers : worker'[v].returned => worker[v].returned \/ v = w
    BY <2>1 DEF Return
  <2>4. main = "exited" => worker[w].returned
    OBVIOUS
  <2> QED
    BY <2>1, <2>2, <2>3, <2>4 DEF Return
<1>3. CASE UNCHANGED vars
  BY <1>3 DEF vars
<1> QED
  BY <1>1, <1>2, <1>3

\* Every state of the service satisfies the inductive invariant.
THEOREM InductiveInvariant == Spec => []IInv
<1>1. IInv /\ [Next]_vars => IInv'
  <2> SUFFICES ASSUME IInv, [Next]_vars PROVE IInv'
    OBVIOUS
  <2>1. TypeOK'
    BY NextTypeOK DEF IInv
  <2>2. ReturnedMeansEmpty'
    BY HandlerKeeps, TakeKeeps, WriteKeeps, RestKeeps DEF Next, WorkerStep
  <2> QED
    BY <2>1, <2>2 DEF IInv
<1> QED
  BY InitIInv, <1>1, PTL DEF Spec

\* Close (audit_log_service.go:109) returns only when every entry that Log accepted
\* was answered for by the database.
THEOREM ClosingDrains == Spec => []CloseDrains
<1>1. IInv => CloseDrains
  <2> SUFFICES ASSUME IInv, main = "exited", NEW e \in Entries, handler[e] = "accepted"
               PROVE  Settled(e)
    BY DEF CloseDrains
  <2>1. \A w \in Workers : worker[w].returned /\ queue = {} /\ worker[w].entry = NoEntry
    BY DEF IInv, ReturnedMeansEmpty
  <2>2. queue = {}
    BY <2>1, WorkersAssumption
  <2> QED
    BY <2>1, <2>2, NoEntryAssumption DEF IInv, ReturnedMeansEmpty
<1> QED
  BY InductiveInvariant, <1>1, PTL

-----------------------------------------------------------------------------
(* Which entries never reach the queue.                                     *)

LossInv == TypeOK /\ LateAreKnown /\ LossHasCause

\* What was accepted stays accepted, so a queue that was full once keeps its witness.
LEMMA AcceptedGrows ==
    ASSUME Accepted \subseteq Accepted', Cardinality(Accepted) >= QueueSize
    PROVE  Cardinality(Accepted') >= QueueSize
<1>1. IsFiniteSet(Accepted') /\ IsFiniteSet(Accepted)
  BY EntriesAssumption, FS_Subset DEF Accepted
<1>2. Cardinality(Accepted) <= Cardinality(Accepted')
  BY <1>1, FS_Subset
<1>3. Cardinality(Accepted) \in Nat /\ Cardinality(Accepted') \in Nat
  BY <1>1, FS_CardinalityType
<1> QED
  BY <1>2, <1>3, QueueSizeAssumption

\* A queue without room holds that many accepted entries.
LEMMA FullQueue ==
    ASSUME LossInv, Cardinality(queue) >= QueueSize
    PROVE  Cardinality(Accepted) >= QueueSize
<1>1. IsFiniteSet(Accepted) /\ queue \subseteq Accepted
  BY EntriesAssumption, FS_Subset DEF Accepted, LossInv, LateAreKnown
<1>2. Cardinality(queue) <= Cardinality(Accepted) /\ IsFiniteSet(queue)
  BY <1>1, FS_Subset
<1>3. Cardinality(Accepted) \in Nat /\ Cardinality(queue) \in Nat
  BY <1>1, <1>2, FS_CardinalityType
<1> QED
  BY <1>2, <1>3, QueueSizeAssumption

\* A request moves. Once the server has stopped only one Shutdown gave up on can.
LEMMA HandlerLosses ==
    ASSUME LossInv, NEW e \in Entries, StartRequest(e) \/ HandlerStep(e)
    PROVE  (LateAreKnown /\ LossHasCause)'
<1> USE DEF LossInv, TypeOK, Busy
<1>1. UNCHANGED <<main, late>>
  BY DEF StartRequest, HandlerStep, CheckClosed, Send
<1>2. \A d \in Entries : d # e => handler'[d] = handler[d]
  BY DEF StartRequest, HandlerStep, CheckClosed, Send
<1>3. handler[e] \in {"none", "working", "checked"}
  BY DEF StartRequest, HandlerStep, CheckClosed, Send
<1>4. Accepted \subseteq Accepted'
  BY <1>2, <1>3 DEF Accepted
<1>5. queue' \subseteq Accepted'
  <2>1. queue' = queue \/ (queue' = queue \cup {e} /\ handler'[e] = "accepted")
    BY DEF StartRequest, HandlerStep, CheckClosed, Send
  <2> QED
    BY <1>4, <2>1 DEF LateAreKnown, Accepted
<1>6. ASSUME NEW d \in Entries, Busy(d)' PROVE main' \in {"serving", "draining"} \/ d \in late'
  <2>1. CASE StartRequest(e)
    BY <1>1, <1>2, <1>6, <2>1 DEF StartRequest, LateAreKnown
  <2>2. CASE HandlerStep(e)
    <3>1. Busy(e)
      BY <2>2 DEF HandlerStep, CheckClosed, Send
    <3> QED
      BY <1>1, <1>2, <1>6, <3>1 DEF LateAreKnown
  <2> QED
    BY <2>1, <2>2
<1>7. ASSUME NEW d \in Entries, handler'[d] \in {"ignored", "panicked"} PROVE d \in late'
  <2>1. CASE d # e
    BY <1>1, <1>2, <1>7, <2>1 DEF LossHasCause
  <2>2. CASE d = e
    <3>1. Busy(e) /\ Closed
      BY <1>7, <2>2 DEF StartRequest, HandlerStep, CheckClosed, Send, Closed, ChannelClosed
    <3> QED
      BY <1>1, <2>2, <3>1 DEF LateAreKnown, Closed
  <2> QED
    BY <2>1, <2>2
<1>8. ASSUME NEW d \in Entries, handler'[d] = "dropped" PROVE Cardinality(Accepted') >= QueueSize
  <2>1. CASE handler[d] = "dropped"
    BY <1>4, <2>1, AcceptedGrows DEF LossHasCause
  <2>2. CASE handler[d] # "dropped"
    <3>1. Cardinality(queue) >= QueueSize
      BY <1>2, <1>8, <2>2 DEF StartRequest, HandlerStep, CheckClosed, Send
    <3> QED
      BY <1>4, <3>1, FullQueue, AcceptedGrows
  <2> QED
    BY <2>1, <2>2
<1> QED
  BY <1>1, <1>5, <1>6, <1>7, <1>8 DEF LateAreKnown, LossHasCause

\* No other step moves a request; a server that stops knows who is late.
LEMMA RestLosses ==
    ASSUME LossInv, Signal \/ Stop \/ (\E w \in Workers : WorkerStep(w)) \/ UNCHANGED vars
    PROVE  (LateAreKnown /\ LossHasCause)'
<1> USE DEF LossInv, TypeOK
<1>1. handler' = handler /\ queue' \subseteq queue /\ Accepted' = Accepted
  BY DEF Signal, Stop, Shutdown, ShutdownTimesOut, CloseSwap, CloseChannel, CloseWait, Main,
         WorkerStep, Take, Write, Return, vars, Accepted
<1>2. late' = late \/ main \in {"serving", "draining"}
  BY DEF Signal, Stop, Shutdown, ShutdownTimesOut, CloseSwap, CloseChannel, CloseWait, Main,
         WorkerStep, Take, Write, Return, vars
<1>3. ASSUME NEW e \in Entries, Busy(e)' PROVE main' \in {"serving", "draining"} \/ e \in late'
  <2>1. Busy(e)
    BY <1>1, <1>3 DEF Busy
  <2>2. CASE Shutdown
    BY <2>1, <2>2 DEF Shutdown
  <2>3. CASE ShutdownTimesOut
    BY <2>1, <2>3 DEF ShutdownTimesOut
  <2>4. CASE ~Shutdown /\ ~ShutdownTimesOut
    <3>1. late' = late /\ (main \in {"serving", "draining"} => main' \in {"serving", "draining"})
      BY <2>4 DEF Signal, Stop, CloseSwap, CloseChannel, CloseWait, Main,
                  WorkerStep, Take, Write, Return, vars
    <3> QED
      BY <2>1, <3>1 DEF LateAreKnown
  <2> QED
    BY <2>2, <2>3, <2>4
<1>4. ASSUME NEW e \in Entries, handler'[e] \in {"ignored", "panicked"} PROVE e \in late'
  <2>1. e \in late
    BY <1>1, <1>4 DEF LossHasCause
  <2>2. late' = late
    BY <1>2, <2>1 DEF LateAreKnown
  <2> QED
    BY <2>1, <2>2
<1>5. main' \in {"serving", "draining"} => late' = {}
  BY DEF Signal, Stop, Shutdown, ShutdownTimesOut, CloseSwap, CloseChannel, CloseWait, Main,
         WorkerStep, Take, Write, Return, vars, LateAreKnown
<1> QED
  BY <1>1, <1>3, <1>4, <1>5 DEF LateAreKnown, LossHasCause

\* An entry that never reaches the queue is one of a request that outlived srv.Shutdown
\* (main.go:450), or was refused by a full queue (audit_log_service.go:96).
THEOREM LossesHaveCauses == Spec => []LossHasCause
<1>1. Init => LossInv
  BY NoEntryAssumption, InitIInv DEF Init, IInv, LossInv, LateAreKnown, LossHasCause, Busy
<1>2. LossInv /\ [Next]_vars => LossInv'
  BY NextTypeOK, HandlerLosses, RestLosses DEF Next, LossInv
<1>3. LossInv => LossHasCause
  BY DEF LossInv
<1> QED
  BY <1>1, <1>2, <1>3, PTL DEF Spec
=============================================================================
