-------------------------- MODULE BreakerContract --------------------------
(***************************************************************************)
(* What the circuit breaker of a worker process promises, said without its *)
(* states, its registry and its locks: per SMTP configuration, how many    *)
(* sends in a row have failed, for how long it has rested since the last   *)
(* failure, and whether a trial was granted since the last result.         *)
(* CircuitBreaker is shown to implement it.                                *)
(***************************************************************************)
EXTENDS Integers

CONSTANTS
    Configs,    \* SMTP configurations
    Workers,    \* goroutines of one worker process
    NoConfig,   \* no configuration: what a worker that is out sends with
    Threshold,  \* FailureThreshold: consecutive failures that trip the breaker
    Cooldown    \* CooldownPeriod, in ticks

VARIABLES
    streak,     \* failed sends in a row, counted up to Threshold
    rest,       \* ticks since the last failure, counted up to Cooldown
    trial,      \* a send was allowed after the cooldown, no result came since
    stage,      \* where each worker is with its send
    config      \* the configuration it sends with

cvars == <<streak, rest, trial, stage, config>>

CInit ==
    /\ streak = [c \in Configs |-> 0]
    /\ rest = [c \in Configs |-> Cooldown]
    /\ trial = [c \in Configs |-> FALSE]
    /\ stage = [w \in Workers |-> "out"]
    /\ config = [w \in Workers |-> NoConfig]

\* The next of a count that stops at its bound.
Upto(bound, n) == IF n < bound THEN n + 1 ELSE bound

\* A send is allowed while the streak is short, or once per cooldown.
Admit(w, c) ==
    /\ stage[w] = "out"
    /\ streak[c] = Threshold => rest[c] = Cooldown /\ ~trial[c]
    /\ trial' = [trial EXCEPT ![c] = streak[c] = Threshold]
    /\ stage' = [stage EXCEPT ![w] = "admitted"]
    /\ config' = [config EXCEPT ![w] = c]
    /\ UNCHANGED <<streak, rest>>

\* The worker begins to send, or gives up before: then the trial it may hold is
\* not given back.
Begin(w) ==
    /\ stage[w] = "admitted"
    /\ stage' = [stage EXCEPT ![w] = "sending"]
    /\ UNCHANGED <<streak, rest, trial, config>>

\* Once it has begun, it learns how the send ended and says so.
Outcome(w, s) ==
    /\ stage[w] = "sending"
    /\ s \in {"ok", "failed"}
    /\ stage' = [stage EXCEPT ![w] = s]
    /\ UNCHANGED <<streak, rest, trial, config>>

Leave(w) ==
    /\ stage' = [stage EXCEPT ![w] = "out"]
    /\ config' = [config EXCEPT ![w] = NoConfig]

GiveUp(w) ==
    /\ stage[w] = "admitted"
    /\ Leave(w)
    /\ UNCHANGED <<streak, rest, trial>>

\* Every result counts, also that of a send allowed before the breaker tripped.
Success(w) ==
    /\ stage[w] = "ok"
    /\ streak' = [streak EXCEPT ![config[w]] = 0]
    /\ trial' = [trial EXCEPT ![config[w]] = FALSE]
    /\ Leave(w)
    /\ UNCHANGED rest

Failure(w) ==
    /\ stage[w] = "failed"
    /\ streak' = [streak EXCEPT ![config[w]] = Upto(Threshold, @)]
    /\ rest' = [rest EXCEPT ![config[w]] = 0]
    /\ trial' = [trial EXCEPT ![config[w]] = FALSE]
    /\ Leave(w)

Pass ==
    /\ rest' = [c \in Configs |-> Upto(Cooldown, rest[c])]
    /\ UNCHANGED <<streak, trial, stage, config>>

\* The process restarts: nothing is remembered.
Forget ==
    /\ streak' = [c \in Configs |-> 0]
    /\ rest' = [c \in Configs |-> Cooldown]
    /\ trial' = [c \in Configs |-> FALSE]
    /\ stage' = [w \in Workers |-> "out"]
    /\ config' = [w \in Workers |-> NoConfig]

CNext ==
    \/ \E w \in Workers : \/ \E c \in Configs : Admit(w, c)
                          \/ \E s \in {"ok", "failed"} : Outcome(w, s)
                          \/ Begin(w) \/ GiveUp(w) \/ Success(w) \/ Failure(w)
    \/ Pass
    \/ Forget

CSpec == CInit /\ [][CNext]_cvars
=============================================================================
