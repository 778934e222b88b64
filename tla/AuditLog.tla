------------------------------ MODULE AuditLog ------------------------------
(***************************************************************************)
(* The audit log of the API process (internal/service/audit_log_service.go)*)
(* between the HTTP handlers that call Log (internal/middleware/audit.go), *)
(* the worker goroutines that write the entries and the shutdown of the    *)
(* process (cmd/mailhive/main.go), which stops the HTTP server and then    *)
(* calls Close.                                                            *)
(*                                                                         *)
(* One entry per request. The queue is a set: its workers write in any     *)
(* order anyway.                                                           *)
(***************************************************************************)
EXTENDS Integers, FiniteSets

CONSTANTS
    Entries,   \* the audited requests, each with its entry
    Workers,   \* goroutines of the service
    NoEntry,
    QueueSize  \* auditQueueSize

ASSUME NoEntryAssumption == NoEntry \notin Entries
ASSUME QueueSizeAssumption == QueueSize \in Nat \ {0}
ASSUME EntriesAssumption == IsFiniteSet(Entries)
ASSUME WorkersAssumption == Workers # {}

VARIABLES
    main,     \* startAPI, from serving to the return of Close
    handler,  \* where each request is with its call of Log
    queue,    \* the entries in the channel
    worker,   \* the entry each worker holds, and whether it has returned
    created,  \* entries the repository wrote
    lost,     \* entries whose Create failed or timed out
    dropped,  \* the counter of entries refused because the queue was full
    late      \* observation: the requests still running when Shutdown gave up

vars == <<main, handler, queue, worker, created, lost, dropped, late>>

Closed == main \in {"swapped", "waiting", "exited"}      \* closed.Load()
ChannelClosed == main \in {"waiting", "exited"}

Init ==
    /\ main = "serving"
    /\ handler = [e \in Entries |-> "none"]
    /\ queue = {}
    /\ worker = [w \in Workers |-> [entry |-> NoEntry, returned |-> FALSE]]
    /\ created = {} /\ lost = {}
    /\ dropped = 0
    /\ late = {}

-----------------------------------------------------------------------------
(* A request that is not a read ends with Log.                              *)

StartRequest(e) ==
    /\ main = "serving"
    /\ handler[e] = "none"
    /\ handler' = [handler EXCEPT ![e] = "working"]
    /\ UNCHANGED <<main, queue, worker, created, lost, dropped, late>>

CheckClosed(e) ==
    /\ handler[e] = "working"
    /\ handler' = [handler EXCEPT ![e] = IF Closed THEN "ignored" ELSE "checked"]
    /\ UNCHANGED <<main, queue, worker, created, lost, dropped, late>>

\* select: a send on a closed channel panics, even when there would be no room.
Send(e) ==
    /\ handler[e] = "checked"
    /\ \/ /\ ChannelClosed
          /\ handler' = [handler EXCEPT ![e] = "panicked"]
          /\ UNCHANGED <<queue, dropped>>
       \/ /\ ~ChannelClosed /\ Cardinality(queue) < QueueSize
          /\ handler' = [handler EXCEPT ![e] = "accepted"]
          /\ queue' = queue \cup {e}
          /\ UNCHANGED dropped
       \/ /\ ~ChannelClosed /\ Cardinality(queue) >= QueueSize
          /\ handler' = [handler EXCEPT ![e] = "dropped"]
          /\ dropped' = dropped + 1
          /\ UNCHANGED queue
    /\ UNCHANGED <<main, worker, created, lost, late>>

-----------------------------------------------------------------------------
(* worker: for entry := range queue.                                        *)

Hold(w, e) == worker' = [worker EXCEPT ![w].entry = e]

Take(w) ==
    /\ ~worker[w].returned /\ worker[w].entry = NoEntry
    /\ \E e \in queue : Hold(w, e) /\ queue' = queue \ {e}
    /\ UNCHANGED <<main, handler, created, lost, dropped, late>>

\* A faulty worker that returns when a write fails.
WriteOrReturn(w) ==
    LET e == worker[w].entry IN
    /\ e # NoEntry
    /\ \/ Hold(w, NoEntry) /\ created' = created \cup {e} /\ UNCHANGED lost
       \/ /\ worker' = [worker EXCEPT ![w] = [entry |-> NoEntry, returned |-> TRUE]]
          /\ lost' = lost \cup {e} /\ UNCHANGED created
    /\ UNCHANGED <<main, handler, queue, dropped, late>>

\* Create answers within auditWriteTimeout; an error is only reported.
Write(w) ==
    LET e == worker[w].entry IN
    /\ e # NoEntry
    /\ \/ created' = created \cup {e} /\ UNCHANGED lost
       \/ lost' = lost \cup {e} /\ UNCHANGED created
    /\ Hold(w, NoEntry)
    /\ UNCHANGED <<main, handler, queue, dropped, late>>

\* The channel is closed and drained.
Return(w) ==
    /\ ~worker[w].returned /\ worker[w].entry = NoEntry
    /\ queue = {} /\ ChannelClosed
    /\ worker' = [worker EXCEPT ![w].returned = TRUE]
    /\ UNCHANGED <<main, handler, queue, created, lost, dropped, late>>

-----------------------------------------------------------------------------
(* The shutdown of the API process.                                         *)

Main(from, to) ==
    /\ main = from
    /\ main' = to
    /\ UNCHANGED <<handler, queue, worker, created, lost, dropped>>

Signal == Main("serving", "draining") /\ UNCHANGED late

Busy(e) == handler[e] \in {"working", "checked"}

\* srv.Shutdown returns when no request is left, or after ten seconds.
Shutdown ==
    /\ Main("draining", "stopped")
    /\ \A e \in Entries : ~Busy(e)
    /\ UNCHANGED late

ShutdownTimesOut ==
    /\ Main("draining", "stopped")
    /\ late' = {e \in Entries : Busy(e)}
    /\ late' # {}

\* A faulty shutdown that closes the audit log before it stops the HTTP server.
CloseSwapFirst == Main("draining", "swapped") /\ UNCHANGED late

CloseSwap == Main("stopped", "swapped") /\ UNCHANGED late

CloseChannel == Main("swapped", "waiting") /\ UNCHANGED late

CloseWait ==
    /\ \A w \in Workers : worker[w].returned
    /\ Main("waiting", "exited")
    /\ UNCHANGED late

-----------------------------------------------------------------------------
HandlerStep(e) == CheckClosed(e) \/ Send(e)
WorkerStep(w) == Take(w) \/ Write(w) \/ Return(w)
Stop == Shutdown \/ ShutdownTimesOut \/ CloseSwap \/ CloseChannel \/ CloseWait

Next ==
    \/ \E e \in Entries : StartRequest(e) \/ HandlerStep(e)
    \/ \E w \in Workers : WorkerStep(w)
    \/ Signal \/ Stop

Spec == Init /\ [][Next]_vars

\* Writes have a timeout, so workers go on; so does the shutdown once it began.
FairSpec == Spec /\ WF_vars(Stop) /\ \A w \in Workers : WF_vars(WorkerStep(w))
-----------------------------------------------------------------------------
(* Properties.                                                              *)

\* Every variable keeps its shape.
TypeOK ==
    /\ main \in {"serving", "draining", "stopped", "swapped", "waiting", "exited"}
    /\ handler \in [Entries -> {"none", "working", "checked", "ignored", "accepted",
                                "dropped", "panicked"}]
    /\ queue \subseteq Entries
    /\ worker \in [Workers -> [entry : Entries \cup {NoEntry}, returned : BOOLEAN]]
    /\ created \subseteq Entries /\ lost \subseteq Entries
    /\ dropped \in Nat
    /\ late \subseteq Entries

Settled(e) == e \in created \cup lost

\* Close does not return before every entry Log accepted was handed to the
\* repository and answered for, also those accepted between the swap of closed and
\* the closing of the channel.
CloseDrains == main = "exited" => \A e \in Entries : handler[e] = "accepted" => Settled(e)

Accepted == {e \in Entries : handler[e] = "accepted"}

\* An entry is lost before the queue for two reasons only. Its request outlived the ten
\* seconds of srv.Shutdown and found the service closed (Log returns at once, or its send
\* panics); or the queue was full of entries that had been accepted before it.
LossHasCause ==
    \A e \in Entries :
        /\ handler[e] \in {"ignored", "panicked"} => e \in late
        /\ handler[e] = "dropped" => Cardinality(Accepted) >= QueueSize

\* Accepted entries do not wait for ever, and a shutdown comes to its end.
EntriesSettle ==
    /\ \A e \in Entries : handler[e] = "accepted" ~> Settled(e)
    /\ main = "draining" ~> main = "exited"

(* What the proof of CloseDrains needs besides.                             *)

\* A worker returns from a closed channel that is empty, and holds nothing then.
ReturnedMeansEmpty ==
    /\ \A w \in Workers : worker[w].returned => queue = {} /\ ChannelClosed /\ worker[w].entry = NoEntry
    /\ main = "exited" => \A w \in Workers : worker[w].returned
    /\ \A e \in Entries : handler[e] = "accepted" =>
         e \in queue \/ Settled(e) \/ \E w \in Workers : worker[w].entry = e

\* The inductive invariant.
IInv == TypeOK /\ ReturnedMeansEmpty

\* What the proof of LossHasCause needs besides: what is queued was accepted, and a request
\* that still runs when the HTTP server has stopped is one Shutdown gave up on.
LateAreKnown ==
    /\ queue \subseteq Accepted
    /\ \A e \in Entries : Busy(e) => main \in {"serving", "draining"} \/ e \in late
    /\ main \in {"serving", "draining"} => late = {}
=============================================================================
