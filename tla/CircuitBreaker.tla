--------------------------- MODULE CircuitBreaker ---------------------------
(***************************************************************************)
(* The circuit breakers of a worker process (internal/worker/              *)
(* circuit_breaker.go) under the goroutines of HandleMailSend that share   *)
(* them: the registry's double-checked creation, one breaker object per    *)
(* SMTP configuration behind its own mutex, and the way HandleMailSend     *)
(* calls Allow before a send and RecordSuccess or RecordFailure after it.  *)
(***************************************************************************)
EXTENDS Integers

CONSTANTS
    Configs, Workers, NoConfig,
    Threshold, Cooldown,
    Cells, NoCell      \* addresses of breaker objects, nil

ASSUME ThresholdAssumption == Threshold \in Nat \ {0}
ASSUME CooldownAssumption == Cooldown \in Nat \ {0}
ASSUME NoConfigAssumption == NoConfig \notin Configs
ASSUME NoCellAssumption == NoCell \notin Cells

VARIABLES
    breakers,  \* the registry's map
    cell,      \* the breaker objects
    worker     \* the goroutines, between a call of Allow and the end of the send

vars == <<breakers, cell, worker>>

\* age is time.Since(lastFailure), which only matters up to the cooldown, as
\* failures does up to the threshold: both are counted up to that bound.
Cell == [state : {"closed", "open", "halfOpen"}, failures : 0..Threshold, age : 0..Cooldown]

\* lastFailure is the zero time: long ago.
NewCell == [state |-> "closed", failures |-> 0, age |-> Cooldown]

\* call: the registry method a goroutine is in, while it is in one.
Worker == [pc : {"idle", "lookup", "create", "enter", "prepare", "send"},
           call : {"allow", "success", "failure"},
           config : Configs \cup {NoConfig},
           cb : Cells \cup {NoCell}]

Idle == [pc |-> "idle", call |-> "allow", config |-> NoConfig, cb |-> NoCell]

Init ==
    /\ breakers = [c \in Configs |-> NoCell]
    /\ cell = [k \in Cells |-> NewCell]
    /\ worker = [w \in Workers |-> Idle]

Upto(bound, n) == IF n < bound THEN n + 1 ELSE bound

-----------------------------------------------------------------------------
(* get: a read under RLock, then, if nothing is there, a second one under Lock *)

Call(w, c, m) == worker' = [worker EXCEPT ![w] = [pc |-> "lookup", call |-> m,
                                                  config |-> c, cb |-> NoCell]]
Enter(w, k) == worker' = [worker EXCEPT ![w].pc = "enter", ![w].cb = k]

Lookup(w) ==
    /\ worker[w].pc = "lookup"
    /\ LET k == breakers[worker[w].config]
       IN \/ k # NoCell /\ Enter(w, k)
          \/ k = NoCell /\ worker' = [worker EXCEPT ![w].pc = "create"]
    /\ UNCHANGED <<breakers, cell>>

\* A faulty creation without the second look.
CreateUnchecked(w) ==
    /\ worker[w].pc = "create"
    /\ \E k \in Cells :
         /\ \A c \in Configs : breakers[c] # k
         /\ \A v \in Workers : worker[v].cb # k
         /\ breakers' = [breakers EXCEPT ![worker[w].config] = k]
         /\ cell' = [cell EXCEPT ![k] = NewCell]
         /\ Enter(w, k)

Create(w) ==
    /\ worker[w].pc = "create"
    /\ LET c == worker[w].config
       IN \/ breakers[c] # NoCell /\ Enter(w, breakers[c]) /\ UNCHANGED <<breakers, cell>>
          \/ /\ breakers[c] = NoCell
             /\ \E k \in Cells :
                  /\ \A d \in Configs : breakers[d] # k
                  /\ breakers' = [breakers EXCEPT ![c] = k]
                  /\ cell' = [cell EXCEPT ![k] = NewCell]
                  /\ Enter(w, k)

-----------------------------------------------------------------------------
(* The methods of the registry: what each does under the breaker's mutex.    *)

InCall(w, m) == worker[w].pc = "enter" /\ worker[w].call = m
CellOf(w) == cell[worker[w].cb]
Finish(w) == worker' = [worker EXCEPT ![w] = Idle]
Proceed(w) == worker' = [worker EXCEPT ![w].pc = "prepare"]

\* Faulty refusals: for as long as the breaker is not closed, or counted as failures.
AllowOnlyClosed(w) ==
    /\ InCall(w, "allow")
    /\ \/ CellOf(w).state = "closed" /\ Proceed(w)
       \/ CellOf(w).state # "closed" /\ Finish(w)
    /\ UNCHANGED <<breakers, cell>>

AllowRefreshing(w) ==
    /\ InCall(w, "allow")
    /\ \/ /\ CellOf(w).state = "closed" \/ (CellOf(w).state = "open" /\ CellOf(w).age = Cooldown)
          /\ cell' = [cell EXCEPT ![worker[w].cb].state = IF @ = "open" THEN "halfOpen" ELSE @]
          /\ Proceed(w)
       \/ /\ CellOf(w).state = "halfOpen" \/ (CellOf(w).state = "open" /\ CellOf(w).age < Cooldown)
          /\ cell' = [cell EXCEPT ![worker[w].cb].age = 0]
          /\ Finish(w)
    /\ UNCHANGED breakers

Allow(w) ==
    /\ InCall(w, "allow")
    /\ \/ CellOf(w).state = "closed" /\ Proceed(w) /\ UNCHANGED cell
       \/ /\ CellOf(w).state = "open" /\ CellOf(w).age = Cooldown
          /\ cell' = [cell EXCEPT ![worker[w].cb].state = "halfOpen"]
          /\ Proceed(w)
       \/ CellOf(w).state = "open" /\ CellOf(w).age < Cooldown /\ Finish(w) /\ UNCHANGED cell
       \/ CellOf(w).state = "halfOpen" /\ Finish(w) /\ UNCHANGED cell
    /\ UNCHANGED breakers

RecordSuccess(w) ==
    /\ InCall(w, "success")
    /\ cell' = [cell EXCEPT ![worker[w].cb].state = "closed", ![worker[w].cb].failures = 0]
    /\ Finish(w)
    /\ UNCHANGED breakers

\* Faulty failures: the threshold looked at in the closed state only, and a
\* threshold reached too late.
RecordFailureIfClosed(w) ==
    /\ InCall(w, "failure")
    /\ cell' = [cell EXCEPT
                  ![worker[w].cb] =
                    [state |-> IF @.state = "closed" /\ @.failures + 1 >= Threshold
                               THEN "open" ELSE @.state,
                     failures |-> Upto(Threshold, @.failures), age |-> 0]]
    /\ Finish(w)
    /\ UNCHANGED breakers

RecordFailureLate(w) ==
    /\ InCall(w, "failure")
    /\ cell' = [cell EXCEPT
                  ![worker[w].cb] =
                    [state |-> IF @.failures >= Threshold THEN "open" ELSE @.state,
                     failures |-> Upto(Threshold, @.failures), age |-> 0]]
    /\ Finish(w)
    /\ UNCHANGED breakers

RecordFailure(w) ==
    /\ InCall(w, "failure")
    /\ cell' = [cell EXCEPT
                  ![worker[w].cb] =
                    [state |-> IF @.failures + 1 >= Threshold THEN "open" ELSE @.state,
                     failures |-> Upto(Threshold, @.failures), age |-> 0]]
    /\ Finish(w)
    /\ UNCHANGED breakers

-----------------------------------------------------------------------------
(* HandleMailSend around them.                                               *)

Begin(w, c) ==
    /\ worker[w].pc = "idle"
    /\ Call(w, c, "allow")
    /\ UNCHANGED <<breakers, cell>>

\* The configuration is gone, its password unreadable, or MarkSending failed: the
\* handler returns without a word to the breaker.
AbandonSend(w) ==
    /\ worker[w].pc = "prepare"
    /\ Finish(w)
    /\ UNCHANGED <<breakers, cell>>

StartSend(w) ==
    /\ worker[w].pc = "prepare"
    /\ worker' = [worker EXCEPT ![w].pc = "send"]
    /\ UNCHANGED <<breakers, cell>>

\* A faulty handler that keeps the refusal of a recipient from the breaker.
EndSendSilently(w) ==
    /\ worker[w].pc = "send"
    /\ Call(w, worker[w].config, "success") \/ Finish(w)
    /\ UNCHANGED <<breakers, cell>>

\* Within sendTimeout. Any error counts, the refusal of one recipient too.
EndSend(w) ==
    /\ worker[w].pc = "send"
    /\ Call(w, worker[w].config, "success") \/ Call(w, worker[w].config, "failure")
    /\ UNCHANGED <<breakers, cell>>

Tick ==
    /\ cell' = [k \in Cells |-> [cell[k] EXCEPT !.age = Upto(Cooldown, @)]]
    /\ UNCHANGED <<breakers, worker>>

\* The worker process restarts with an empty registry.
Restart ==
    /\ breakers' = [c \in Configs |-> NoCell]
    /\ cell' = [k \in Cells |-> NewCell]
    /\ worker' = [w \in Workers |-> Idle]

Step(w) ==
    \/ Lookup(w) \/ Create(w) \/ Allow(w) \/ RecordSuccess(w) \/ RecordFailure(w)
    \/ AbandonSend(w) \/ StartSend(w) \/ EndSend(w)

Next ==
    \/ \E w \in Workers : Step(w) \/ \E c \in Configs : Begin(w, c)
    \/ Tick
    \/ Restart

Spec == Init /\ [][Next]_vars

\* A handler goes on (its calls have timeouts, the mutexes are held for a few
\* lines), time passes, and a mail of each configuration keeps coming: Asynq
\* reschedules a refused one without end, since ErrCircuitOpen is not a failure.
Fairness ==
    /\ \A w \in Workers : WF_vars(Step(w))
    /\ WF_vars(Tick)
    /\ \A c \in Configs : SF_vars(\E w \in Workers : Begin(w, c))

FairSpec == Spec /\ Fairness
-----------------------------------------------------------------------------
(* Properties.                                                               *)

\* Every variable keeps its shape.
TypeOK ==
    /\ breakers \in [Configs -> Cells \cup {NoCell}]
    /\ cell \in [Cells -> Cell]
    /\ worker \in [Workers -> Worker]

\* The breaker of a configuration; one that was never used counts as new.
Breaker(c) == IF breakers[c] = NoCell THEN NewCell ELSE cell[breakers[c]]

Stage(r) ==
    IF r.pc = "prepare" THEN "admitted"
    ELSE IF r.pc = "send" THEN "sending"
    ELSE IF r.call = "success" THEN "ok"
    ELSE IF r.call = "failure" THEN "failed" ELSE "out"

SendConfig(r) == IF Stage(r) = "out" THEN NoConfig ELSE r.config

\* The account of the contract.
Streak == [c \in Configs |-> Breaker(c).failures]
Rest == [c \in Configs |-> Breaker(c).age]
Trial == [c \in Configs |-> Breaker(c).state = "halfOpen"]
Stages == [w \in Workers |-> Stage(worker[w])]
Sends == [w \in Workers |-> SendConfig(worker[w])]

Contract == INSTANCE BreakerContract WITH
    streak <- Streak, rest <- Rest, trial <- Trial, stage <- Stages, config <- Sends

\* The breakers of a process, created by racing goroutines and used through
\* pointers, behave as one account per configuration: every result lands in the
\* streak of its configuration, no send is allowed on a tripped breaker before the
\* cooldown, and at most one until the next result.
ImplementsContract == Contract!CSpec

\* A mail is only put off for a reason: as many failures in a row as the threshold,
\* and either a failure less than a cooldown ago or a trial that was granted since.
RefusalHasReason ==
    [][\A w \in Workers :
          InCall(w, "allow") /\ worker'[w] = Idle /\ breakers' = breakers =>
             LET b == Breaker(worker[w].config)
             IN b.failures = Threshold /\ (b.age < Cooldown \/ b.state = "halfOpen")]_vars

\* An open breaker is tried again: while mails keep coming it does not stay open.
OpenBreakerIsTried == \A c \in Configs : Breaker(c).state = "open" ~> Breaker(c).state # "open"

\* A trial that reaches the SMTP server ends the half-open state, either way.
TrialDecides ==
    \A c \in Configs :
        (Breaker(c).state = "halfOpen"
           /\ \E w \in Workers : worker[w].pc = "send" /\ worker[w].config = c)
        ~> Breaker(c).state # "halfOpen"

(* What the refinement rests on (see CircuitBreakerProofs).                  *)

\* No two configurations share a breaker, and a goroutine inside a method works on
\* the one breaker of its configuration.
OneBreakerEach ==
    /\ \A c, d \in Configs : breakers[c] = breakers[d] /\ breakers[c] # NoCell => c = d
    /\ \A w \in Workers : worker[w].pc = "enter" =>
         worker[w].cb = breakers[worker[w].config] /\ worker[w].cb # NoCell

WorkersKnowConfig ==
    \A w \in Workers : \/ worker[w] = Idle
                       \/ worker[w].pc # "idle" /\ worker[w].config \in Configs

\* A breaker is closed exactly while its streak is below the threshold.
ClosedMeansBelow == \A k \in Cells : cell[k].state = "closed" <=> cell[k].failures < Threshold

\* What the refinement needs in every state, together.
IInv == TypeOK /\ OneBreakerEach /\ WorkersKnowConfig /\ ClosedMeansBelow
=============================================================================
