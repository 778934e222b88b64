------------------------ MODULE CircuitBreakerProofs ------------------------
(* Theorems of CircuitBreaker, for every set of configurations, goroutines   *)
(* and addresses, every threshold and every cooldown.                        *)
EXTENDS CircuitBreaker, TLAPS

-----------------------------------------------------------------------------
(* Counting up to a bound.                                                   *)

LEMMA UptoType ==
    ASSUME NEW bound \in Nat, NEW n \in 0..bound
    PROVE  Upto(bound, n) \in 0..bound /\ Contract!Upto(bound, n) = Upto(bound, n)
BY DEF Upto, Contract!Upto

\* A breaker after a failure and after a success.
Failed(b) == [state |-> IF b.failures + 1 >= Threshold THEN "open" ELSE b.state,
              failures |-> Upto(Threshold, b.failures), age |-> 0]
Restored(b) == [b EXCEPT !.state = "closed", !.failures = 0]

LEMMA BreakerMoves ==
    ASSUME NEW b \in Cell
    PROVE  /\ Failed(b) \in Cell /\ Restored(b) \in Cell /\ NewCell \in Cell
           /\ [b EXCEPT !.state = "halfOpen"] \in Cell
           /\ [b EXCEPT !.age = Upto(Cooldown, b.age)] \in Cell
<1>1. Upto(Threshold, b.failures) \in 0..Threshold /\ Upto(Cooldown, b.age) \in 0..Cooldown
  BY UptoType, ThresholdAssumption, CooldownAssumption DEF Cell
<1>2. 0 \in 0..Threshold /\ 0 \in 0..Cooldown /\ Cooldown \in 0..Cooldown
  BY ThresholdAssumption, CooldownAssumption
<1> QED BY <1>1, <1>2 DEF Cell, Failed, Restored, NewCell

-----------------------------------------------------------------------------
(* What the steps of a goroutine do, said with Breaker and Stage.            *)

\* Where a goroutine may go: its own record, and only its own, changes.
LEMMA WorkerMoves ==
    ASSUME IInv, NEW w \in Workers, NEW r \in Worker, worker' = [worker EXCEPT ![w] = r]
    PROVE  /\ worker' \in [Workers -> Worker]
           /\ worker'[w] = r /\ \A v \in Workers : v # w => worker'[v] = worker[v]
BY DEF IInv, TypeOK

LEMMA Enterer ==
    ASSUME IInv, NEW w \in Workers, worker[w].pc = "enter"
    PROVE  /\ worker[w] \in Worker /\ worker[w].config \in Configs /\ worker[w].cb \in Cells
           /\ worker[w].cb = breakers[worker[w].config]
           /\ CellOf(w) = Breaker(worker[w].config) /\ CellOf(w) \in Cell
<1>1. worker[w] \in Worker /\ worker[w].config \in Configs /\ worker[w].cb \in Cells \cup {NoCell}
  BY DEF IInv, TypeOK, WorkersKnowConfig, Worker, Idle
<1>2. worker[w].cb = breakers[worker[w].config] /\ worker[w].cb # NoCell
  BY DEF IInv, OneBreakerEach
<1> QED BY <1>1, <1>2 DEF CellOf, Breaker, IInv, TypeOK

LEMMA BreakerType ==
    ASSUME TypeOK
    PROVE  \A c \in Configs : Breaker(c) \in Cell
<1>1. NewCell \in Cell
  BY ThresholdAssumption, CooldownAssumption DEF NewCell, Cell
<1> QED BY <1>1 DEF TypeOK, Breaker

\* A write through the pointer of a goroutine changes the breaker of its
\* configuration and no other.
LEMMA WriteCell ==
    ASSUME IInv, NEW w \in Workers, worker[w].pc = "enter", NEW b \in Cell,
           cell' = [cell EXCEPT ![worker[w].cb] = b], UNCHANGED breakers
    PROVE  /\ cell' \in [Cells -> Cell]
           /\ \A c \in Configs : Breaker(c)' = IF c = worker[w].config THEN b ELSE Breaker(c)
<1>1. /\ worker[w].config \in Configs /\ worker[w].cb \in Cells
      /\ worker[w].cb = breakers[worker[w].config]
  BY Enterer
<1>2. cell \in [Cells -> Cell] /\ breakers \in [Configs -> Cells \cup {NoCell}]
  BY DEF IInv, TypeOK
<1>3. \A c \in Configs : c # worker[w].config /\ breakers[c] # NoCell => breakers[c] # worker[w].cb
  BY <1>1, NoCellAssumption DEF IInv, OneBreakerEach
<1>4. \A c \in Configs : breakers[c] # NoCell => breakers[c] \in Cells
  BY <1>2
<1> QED BY <1>1, <1>2, <1>3, <1>4, NoCellAssumption DEF Breaker

-----------------------------------------------------------------------------
(* The inductive invariant.                                                  *)

\* What a step of one goroutine that leaves the registry alone must establish.
LEMMA InvMove ==
    ASSUME IInv, NEW w \in Workers, NEW r \in Worker, worker' = [worker EXCEPT ![w] = r],
           UNCHANGED breakers, cell' \in [Cells -> Cell], ClosedMeansBelow',
           r = Idle \/ (r.pc # "idle" /\ r.config \in Configs),
           r.pc = "enter" => r.cb = breakers[r.config] /\ r.cb # NoCell
    PROVE  IInv'
<1>1. /\ worker' \in [Workers -> Worker] /\ worker'[w] = r
      /\ \A v \in Workers : v # w => worker'[v] = worker[v]
  BY WorkerMoves
<1>2. TypeOK'
  BY <1>1 DEF IInv, TypeOK
<1>3. OneBreakerEach'
  BY <1>1 DEF IInv, OneBreakerEach
<1>4. WorkersKnowConfig'
  BY <1>1 DEF IInv, WorkersKnowConfig
<1> QED BY <1>2, <1>3, <1>4 DEF IInv

\* The records a goroutine may become.
At(w, pc) == [worker[w] EXCEPT !.pc = pc]
Entering(w, k) == [worker[w] EXCEPT !.pc = "enter", !.cb = k]
Calling(c, m) == [pc |-> "lookup", call |-> m, config |-> c, cb |-> NoCell]

LEMMA Known ==
    ASSUME IInv, NEW w \in Workers, worker[w].pc # "idle"
    PROVE  /\ worker[w].config \in Configs
           /\ breakers[worker[w].config] \in Cells \cup {NoCell}
BY DEF IInv, TypeOK, WorkersKnowConfig, Idle

LEMMA Stops ==
    ASSUME IInv, NEW w \in Workers, Finish(w)
    PROVE  worker' = [worker EXCEPT ![w] = Idle] /\ Idle \in Worker /\ Idle.pc = "idle"
BY DEF Finish, Idle, Worker

LEMMA Goes ==
    ASSUME IInv, NEW w \in Workers, NEW pc \in {"create", "prepare", "send"},
           worker' = [worker EXCEPT ![w].pc = pc]
    PROVE  /\ worker' = [worker EXCEPT ![w] = At(w, pc)]
           /\ At(w, pc) \in Worker /\ At(w, pc).pc = pc
           /\ At(w, pc).config = worker[w].config /\ At(w, pc).call = worker[w].call
<1>1. worker' = [worker EXCEPT ![w] = At(w, pc)]
  BY DEF At
<1>2. worker[w] \in Worker
  BY DEF IInv, TypeOK
<1> QED BY <1>1, <1>2 DEF At, Worker

LEMMA Enters ==
    ASSUME IInv, NEW w \in Workers, NEW k \in Cells, Enter(w, k)
    PROVE  /\ worker' = [worker EXCEPT ![w] = Entering(w, k)]
           /\ Entering(w, k) \in Worker /\ Entering(w, k).pc = "enter" /\ Entering(w, k).cb = k
           /\ Entering(w, k).config = worker[w].config /\ Entering(w, k).call = worker[w].call
<1>1. worker' = [worker EXCEPT ![w] = Entering(w, k)]
  BY Zenon DEF Entering, Enter
<1>2. worker[w] \in Worker
  BY DEF IInv, TypeOK
<1> QED BY <1>1, <1>2 DEF Entering, Worker

LEMMA Calls ==
    ASSUME IInv, NEW w \in Workers, NEW c \in Configs, NEW m \in {"allow", "success", "failure"},
           Call(w, c, m)
    PROVE  /\ worker' = [worker EXCEPT ![w] = Calling(c, m)]
           /\ Calling(c, m) \in Worker /\ Calling(c, m).pc = "lookup"
           /\ Calling(c, m).config = c /\ Calling(c, m).call = m
BY DEF Call, Calling, Worker

\* A result keeps the breaker closed exactly below the threshold.
LEMMA ResultCells ==
    ASSUME IInv, NEW w \in Workers, worker[w].pc = "enter",
           NEW b \in {Restored(CellOf(w)), Failed(CellOf(w))}
    PROVE  b \in Cell /\ (b.state = "closed" <=> b.failures < Threshold)
<1>1. CellOf(w) \in Cell /\ (CellOf(w).state = "closed" <=> CellOf(w).failures < Threshold)
  BY Enterer DEF IInv, ClosedMeansBelow, CellOf
<1>2. CellOf(w).failures \in Nat /\ Threshold \in Nat \ {0}
  BY <1>1, ThresholdAssumption DEF Cell
<1>3. CASE b = Restored(CellOf(w))
  <2>1. b.state = "closed" /\ b.failures = 0
    BY <1>1, <1>3 DEF Restored, Cell
  <2>2. b \in Cell
    BY <1>1, <1>3, BreakerMoves
  <2> QED BY <1>2, <2>1, <2>2
<1>4. CASE b = Failed(CellOf(w))
  <2>1. b.state = "closed" <=> b.failures < Threshold
    BY <1>1, <1>2, <1>4 DEF Failed, Upto
  <2> QED BY <1>1, <1>4, <2>1, BreakerMoves
<1> QED BY <1>3, <1>4

\* The writes of the three methods, under the mutex.
LEMMA Writes ==
    ASSUME NEW w \in Workers
    PROVE  /\ RecordSuccess(w) => cell' = [cell EXCEPT ![worker[w].cb] = Restored(CellOf(w))]
           /\ RecordFailure(w) => cell' = [cell EXCEPT ![worker[w].cb] = Failed(CellOf(w))]
           /\ Allow(w) => \/ UNCHANGED cell
                          \/ cell' = [cell EXCEPT ![worker[w].cb] =
                                                    [CellOf(w) EXCEPT !.state = "halfOpen"]]
<1>1. RecordSuccess(w) => cell' = [cell EXCEPT ![worker[w].cb] = Restored(CellOf(w))]
  BY Zenon DEF RecordSuccess, Restored, CellOf
<1>2. RecordFailure(w) => cell' = [cell EXCEPT ![worker[w].cb] = Failed(CellOf(w))]
  BY DEF RecordFailure, Failed, CellOf
<1>3. Allow(w) => \/ UNCHANGED cell
                  \/ cell' = [cell EXCEPT ![worker[w].cb] = [CellOf(w) EXCEPT !.state = "halfOpen"]]
  BY Zenon DEF Allow, CellOf
<1> QED BY <1>1, <1>2, <1>3

LEMMA StepInv ==
    ASSUME IInv, NEW w \in Workers, Step(w) \/ \E c \in Configs : Begin(w, c)
    PROVE  IInv'
<1>0. TypeOK /\ ClosedMeansBelow /\ cell \in [Cells -> Cell]  BY DEF IInv, TypeOK
<1>1. UNCHANGED cell => ClosedMeansBelow'
  BY <1>0 DEF ClosedMeansBelow
<1>2. CASE Lookup(w)
  <2> DEFINE k == breakers[worker[w].config]
  <2>1. worker[w].config \in Configs /\ UNCHANGED <<breakers, cell>> /\ k \in Cells \cup {NoCell}
    BY <1>2, Known DEF Lookup
  <2>2. CASE k # NoCell /\ Enter(w, k)
    BY <1>0, <1>1, <2>1, <2>2, Enters, InvMove
  <2>3. CASE worker' = [worker EXCEPT ![w].pc = "create"]
    BY <1>0, <1>1, <2>1, <2>3, Goes, InvMove
  <2> QED BY <1>2, <2>2, <2>3 DEF Lookup
<1>3. CASE Create(w)
  <2> DEFINE c == worker[w].config
  <2>1. c \in Configs /\ breakers[c] \in Cells \cup {NoCell}
    BY <1>3, Known DEF Create
  <2>2. CASE breakers[c] # NoCell /\ Enter(w, breakers[c]) /\ UNCHANGED <<breakers, cell>>
    BY <1>0, <1>1, <2>1, <2>2, Enters, InvMove
  <2>3. ASSUME NEW k \in Cells, breakers[c] = NoCell, \A d \in Configs : breakers[d] # k,
               breakers' = [breakers EXCEPT ![c] = k], cell' = [cell EXCEPT ![k] = NewCell],
               Enter(w, k)
        PROVE  IInv'
    <3> DEFINE r == Entering(w, k)
    <3>1. r \in Worker /\ r.pc = "enter" /\ r.config = c /\ r.cb = k /\ worker' = [worker EXCEPT ![w] = r]
      BY <2>3, Enters
    <3>2. /\ worker' \in [Workers -> Worker] /\ worker'[w] = r
          /\ \A v \in Workers : v # w => worker'[v] = worker[v]
      BY <3>1, WorkerMoves
    <3>3. NewCell \in Cell /\ (NewCell.state = "closed" <=> NewCell.failures < Threshold)
      BY ThresholdAssumption, CooldownAssumption DEF NewCell, Cell
    <3>4. TypeOK'
      BY <1>0, <2>3, <3>2, <3>3 DEF TypeOK
    <3>5. ClosedMeansBelow'
      BY <1>0, <2>3, <3>3 DEF ClosedMeansBelow
    <3>6. WorkersKnowConfig'
      BY <2>1, <3>1, <3>2 DEF IInv, WorkersKnowConfig
    <3>7. /\ breakers'[c] = k /\ \A d \in Configs : d # c => breakers'[d] = breakers[d]
          /\ k # NoCell
      BY <1>0, <2>1, <2>3, NoCellAssumption DEF TypeOK
    <3>8. \A v \in Workers : v # w /\ worker[v].pc = "enter" =>
             worker[v].config # c /\ worker[v].config \in Configs
      BY <2>3, Enterer, NoCellAssumption
    <3>9. OneBreakerEach'
      BY <2>3, <3>1, <3>2, <3>7, <3>8 DEF IInv, OneBreakerEach
    <3> QED BY <3>4, <3>5, <3>6, <3>9 DEF IInv
  <2> QED BY <1>3, <2>2, <2>3 DEF Create
<1>4. CASE Allow(w)
  <2>1. worker[w].pc = "enter" /\ UNCHANGED breakers
    BY <1>4 DEF Allow, InCall
  <2>2. cell' \in [Cells -> Cell] /\ ClosedMeansBelow'
    <3>1. CASE UNCHANGED cell
      BY <1>0, <1>1, <3>1
    <3>2. CASE cell' # cell
      <4>1. CellOf(w).state = "open" /\ CellOf(w) \in Cell /\ worker[w].cb \in Cells
        BY <1>4, <2>1, <3>2, Enterer DEF Allow
      <4>2. cell' = [cell EXCEPT ![worker[w].cb] = [CellOf(w) EXCEPT !.state = "halfOpen"]]
        BY <1>4, <2>1, <3>2, Writes
      <4>3. /\ [CellOf(w) EXCEPT !.state = "halfOpen"] \in Cell
            /\ [CellOf(w) EXCEPT !.state = "halfOpen"].state = "halfOpen"
            /\ [CellOf(w) EXCEPT !.state = "halfOpen"].failures = CellOf(w).failures
        BY <4>1 DEF Cell
      <4>4. ~(CellOf(w).failures < Threshold)
        BY <1>0, <4>1 DEF ClosedMeansBelow, CellOf
      <4> QED BY <1>0, <4>1, <4>2, <4>3, <4>4 DEF ClosedMeansBelow
    <3> QED BY <3>1, <3>2
  <2>3. Proceed(w) \/ Finish(w)
    BY <1>4 DEF Allow
  <2>4. CASE Proceed(w)
    BY <2>1, <2>2, <2>4, Known, Goes, InvMove DEF Proceed
  <2>5. CASE Finish(w)
    BY <2>1, <2>2, <2>5, Stops, InvMove
  <2> QED BY <2>3, <2>4, <2>5
<1>5. CASE RecordSuccess(w) \/ RecordFailure(w)
  <2>1. worker[w].pc = "enter" /\ UNCHANGED breakers /\ Finish(w)
    BY <1>5 DEF RecordSuccess, RecordFailure, InCall
  <2>2. PICK b \in {Restored(CellOf(w)), Failed(CellOf(w))} :
               cell' = [cell EXCEPT ![worker[w].cb] = b]
    BY <1>5, <2>1, Writes
  <2>3. b \in Cell /\ (b.state = "closed" <=> b.failures < Threshold) /\ worker[w].cb \in Cells
    BY <2>1, Enterer, ResultCells
  <2>4. cell' \in [Cells -> Cell] /\ ClosedMeansBelow'
    BY <1>0, <2>2, <2>3 DEF ClosedMeansBelow
  <2> QED BY <2>1, <2>4, Stops, InvMove
<1>6. CASE AbandonSend(w)
  BY <1>0, <1>1, <1>6, Stops, InvMove DEF AbandonSend
<1>7. CASE StartSend(w)
  BY <1>0, <1>1, <1>7, Known, Goes, InvMove DEF StartSend
<1>8. ASSUME NEW c \in Configs, NEW m \in {"allow", "success", "failure"}, Call(w, c, m),
             UNCHANGED <<breakers, cell>>
      PROVE  IInv'
  BY <1>0, <1>1, <1>8, Calls, InvMove
<1>9. CASE EndSend(w)
  BY <1>8, <1>9, Known DEF EndSend
<1>10. CASE \E c \in Configs : Begin(w, c)
  BY <1>8, <1>10 DEF Begin
<1> QED BY <1>2, <1>3, <1>4, <1>5, <1>6, <1>7, <1>9, <1>10 DEF Step

LEMMA InitInv == Init => IInv
<1> SUFFICES ASSUME Init PROVE IInv
  OBVIOUS
<1>1. NewCell \in Cell /\ NewCell.state = "closed" /\ NewCell.failures < Threshold /\ Idle \in Worker
  BY ThresholdAssumption, CooldownAssumption DEF NewCell, Cell, Idle, Worker
<1>2. TypeOK
  BY <1>1 DEF Init, TypeOK
<1>3. OneBreakerEach /\ WorkersKnowConfig /\ ClosedMeansBelow
  BY <1>1 DEF Init, OneBreakerEach, WorkersKnowConfig, ClosedMeansBelow, Idle
<1> QED BY <1>2, <1>3 DEF IInv

LEMMA NextInv == ASSUME IInv, [Next]_vars PROVE IInv'
<1>1. CASE UNCHANGED vars
  BY <1>1 DEF IInv, vars, TypeOK, OneBreakerEach, WorkersKnowConfig, ClosedMeansBelow
<1>2. CASE Tick
  <2>1. cell \in [Cells -> Cell] /\ UNCHANGED <<breakers, worker>>
    BY <1>2 DEF IInv, TypeOK, Tick
  <2>2. ASSUME NEW k \in Cells
        PROVE  /\ cell'[k] \in Cell /\ cell'[k].state = cell[k].state
               /\ cell'[k].failures = cell[k].failures
    <3>1. cell'[k] = [cell[k] EXCEPT !.age = Upto(Cooldown, cell[k].age)]
      BY <1>2 DEF Tick
    <3>2. cell[k] \in Cell /\ cell'[k] \in Cell
      BY <2>1, <3>1, BreakerMoves
    <3> QED BY <3>1, <3>2 DEF Cell
  <2>3. cell' \in [Cells -> Cell]
    BY <1>2, <2>2 DEF Tick
  <2>4. TypeOK'
    BY <2>1, <2>3 DEF IInv, TypeOK
  <2>5. OneBreakerEach' /\ WorkersKnowConfig'
    BY <2>1 DEF IInv, OneBreakerEach, WorkersKnowConfig
  <2>6. ClosedMeansBelow'
    BY <2>2 DEF IInv, ClosedMeansBelow
  <2> QED BY <2>4, <2>5, <2>6 DEF IInv
<1>3. CASE Restart
  <2>1. Init'
    BY <1>3 DEF Restart, Init
  <2> QED BY <2>1, InitInv, PTL
<1> QED BY <1>1, <1>2, <1>3, StepInv DEF Next

\* Goroutines never share a breaker across configurations nor hold a stale one:
\* the double check of get keeps the pointer read in a call the registry's own.
THEOREM InductiveInvariant == Spec => []IInv
<1>1. IInv /\ [Next]_vars => IInv'
  BY NextInv
<1> QED BY <1>1, InitInv, PTL DEF Spec

-----------------------------------------------------------------------------
(* The refinement.                                                           *)

\* The account moves with the breaker of one configuration, or not at all.
LEMMA AccountMoves ==
    ASSUME NEW d \in Configs, NEW b,
           \A c \in Configs : Breaker(c)' = IF c = d THEN b ELSE Breaker(c)
    PROVE  /\ Streak' = [Streak EXCEPT ![d] = b.failures]
           /\ Rest' = [Rest EXCEPT ![d] = b.age]
           /\ Trial' = [Trial EXCEPT ![d] = b.state = "halfOpen"]
BY DEF Streak, Rest, Trial

LEMMA AccountStays ==
    ASSUME \A c \in Configs : Breaker(c)' = Breaker(c)
    PROVE  Streak' = Streak /\ Rest' = Rest /\ Trial' = Trial
BY DEF Streak, Rest, Trial

LEMMA StageMoves ==
    ASSUME IInv, NEW w \in Workers, NEW r, worker' = [worker EXCEPT ![w] = r]
    PROVE  /\ Stages' = [Stages EXCEPT ![w] = Stage(r)]
           /\ Sends' = [Sends EXCEPT ![w] = SendConfig(r)]
<1>1. \A v \in Workers : worker'[v] = IF v = w THEN r ELSE worker[v]
  BY DEF IInv, TypeOK
<1>2. /\ Stages' = [v \in Workers |-> Stage(worker'[v])]
      /\ Sends' = [v \in Workers |-> SendConfig(worker'[v])]
  BY Zenon DEF Stages, Sends, Stage, SendConfig
<1>3. \A v \in Workers : /\ Stage(worker'[v]) = IF v = w THEN Stage(r) ELSE Stage(worker[v])
                         /\ SendConfig(worker'[v]) = IF v = w THEN SendConfig(r) ELSE SendConfig(worker[v])
  BY <1>1
<1> QED BY <1>2, <1>3 DEF Stages, Sends

\* A step between the calls of one worker that its stage does not show.
LEMMA Hidden ==
    ASSUME IInv, NEW w \in Workers, NEW r, worker' = [worker EXCEPT ![w] = r],
           Stage(r) = Stage(worker[w]), SendConfig(r) = SendConfig(worker[w]),
           \A c \in Configs : Breaker(c)' = Breaker(c)
    PROVE  UNCHANGED Contract!cvars
<1>1. Stages' = Stages /\ Sends' = Sends
  <2>1. /\ Stages' = [Stages EXCEPT ![w] = Stage(r)]
        /\ Sends' = [Sends EXCEPT ![w] = SendConfig(r)]
    BY StageMoves
  <2>2. Stages[w] = Stage(r) /\ Sends[w] = SendConfig(r)
    BY DEF Stages, Sends
  <2>3. Stages = [Stages EXCEPT ![w] = Stages[w]] /\ Sends = [Sends EXCEPT ![w] = Sends[w]]
    BY DEF Stages, Sends
  <2> HIDE DEF Stages, Sends
  <2> QED BY <2>1, <2>2, <2>3
<1> QED BY <1>1, AccountStays DEF Contract!cvars

LEMMA IdleIsOut == Stage(Idle) = "out" /\ SendConfig(Idle) = NoConfig
BY DEF Stage, SendConfig, Idle

LEMMA InitRefines == Init => Contract!CInit
<1> SUFFICES ASSUME Init PROVE Contract!CInit
  OBVIOUS
<1>1. \A c \in Configs : Breaker(c) = NewCell
  BY DEF Init, Breaker
<1>2. Streak = [c \in Configs |-> 0] /\ Rest = [c \in Configs |-> Cooldown]
  BY <1>1 DEF Streak, Rest, NewCell
<1>3. Trial = [c \in Configs |-> FALSE]
  <2>1. NewCell.state # "halfOpen"
    BY DEF NewCell
  <2>2. \A c \in Configs : (Breaker(c).state = "halfOpen") = FALSE
    BY <1>1, <2>1, Zenon
  <2> QED BY <2>2, Zenon DEF Trial
<1>4. Stages = [w \in Workers |-> "out"] /\ Sends = [w \in Workers |-> NoConfig]
  BY IdleIsOut DEF Init, Stages, Sends
<1> QED BY <1>2, <1>3, <1>4 DEF Contract!CInit

\* Looking up, creating and being refused do not show.
LEMMA LookupHidden ==
    ASSUME IInv, NEW w \in Workers, Lookup(w)
    PROVE  UNCHANGED Contract!cvars
<1> DEFINE k == breakers[worker[w].config]
<1>1. k \in Cells \cup {NoCell} /\ worker[w].pc = "lookup"
  BY Known DEF Lookup
<1>2. \A c \in Configs : Breaker(c)' = Breaker(c)
  BY DEF Lookup, Breaker
<1>3. CASE k # NoCell /\ Enter(w, k)
  <2>1. /\ worker' = [worker EXCEPT ![w] = Entering(w, k)]
        /\ Entering(w, k).pc = "enter" /\ Entering(w, k).call = worker[w].call
        /\ Entering(w, k).config = worker[w].config
    BY <1>1, <1>3, Enters
  <2>2. /\ Stage(Entering(w, k)) = Stage(worker[w])
        /\ SendConfig(Entering(w, k)) = SendConfig(worker[w])
    BY <1>1, <2>1 DEF Stage, SendConfig
  <2> QED BY <1>2, <2>1, <2>2, Hidden
<1>4. CASE worker' = [worker EXCEPT ![w].pc = "create"]
  <2>1. /\ worker' = [worker EXCEPT ![w] = At(w, "create")]
        /\ At(w, "create").pc = "create" /\ At(w, "create").call = worker[w].call
        /\ At(w, "create").config = worker[w].config
    BY <1>4, Goes
  <2>2. /\ Stage(At(w, "create")) = Stage(worker[w])
        /\ SendConfig(At(w, "create")) = SendConfig(worker[w])
    BY <1>1, <2>1 DEF Stage, SendConfig
  <2> QED BY <1>2, <2>1, <2>2, Hidden
<1> QED BY <1>3, <1>4 DEF Lookup

LEMMA CreateHidden ==
    ASSUME IInv, NEW w \in Workers, Create(w)
    PROVE  UNCHANGED Contract!cvars
<1> DEFINE c == worker[w].config
<1>1. c \in Configs /\ breakers[c] \in Cells \cup {NoCell} /\ worker[w].pc = "create"
  BY Known DEF Create
<1>2. ASSUME NEW k \in Cells, Enter(w, k), \A d \in Configs : Breaker(d)' = Breaker(d)
      PROVE  UNCHANGED Contract!cvars
  <2>1. /\ worker' = [worker EXCEPT ![w] = Entering(w, k)]
        /\ Entering(w, k).pc = "enter" /\ Entering(w, k).call = worker[w].call
        /\ Entering(w, k).config = worker[w].config
    BY <1>2, Enters
  <2>2. /\ Stage(Entering(w, k)) = Stage(worker[w])
        /\ SendConfig(Entering(w, k)) = SendConfig(worker[w])
    BY <1>1, <2>1 DEF Stage, SendConfig
  <2> QED BY <1>2, <2>1, <2>2, Hidden
<1>3. CASE breakers[c] # NoCell /\ Enter(w, breakers[c]) /\ UNCHANGED <<breakers, cell>>
  <2>1. \A d \in Configs : Breaker(d)' = Breaker(d)
    BY <1>3 DEF Breaker
  <2> QED BY <1>1, <1>2, <1>3, <2>1
<1>4. ASSUME NEW k \in Cells, breakers[c] = NoCell, \A d \in Configs : breakers[d] # k,
             breakers' = [breakers EXCEPT ![c] = k], cell' = [cell EXCEPT ![k] = NewCell],
             Enter(w, k)
      PROVE  UNCHANGED Contract!cvars
  <2>1. /\ breakers \in [Configs -> Cells \cup {NoCell}] /\ cell \in [Cells -> Cell]
        /\ k # NoCell
    BY <1>4, NoCellAssumption DEF IInv, TypeOK
  <2>2. \A d \in Configs : Breaker(d)' = Breaker(d)
    BY <1>1, <1>4, <2>1 DEF Breaker
  <2> QED BY <1>2, <1>4, <2>2
<1> QED BY <1>3, <1>4 DEF Create

LEMMA RefusalHidden ==
    ASSUME IInv, NEW w \in Workers, InCall(w, "allow"), Finish(w), UNCHANGED <<breakers, cell>>
    PROVE  UNCHANGED Contract!cvars
<1>1. \A c \in Configs : Breaker(c)' = Breaker(c)
  BY DEF Breaker
<1>2. Stage(worker[w]) = "out" /\ SendConfig(worker[w]) = NoConfig
  BY DEF InCall, Stage, SendConfig
<1> QED BY <1>1, <1>2, Stops, IdleIsOut, Hidden

\* A send that Allow lets through.
LEMMA AdmitRefined ==
    ASSUME IInv, NEW w \in Workers, Allow(w), Proceed(w)
    PROVE  Contract!Admit(w, worker[w].config)
<1> DEFINE c == worker[w].config
           r == At(w, "prepare")
<1>1. /\ worker[w].pc = "enter" /\ worker[w].call = "allow" /\ UNCHANGED breakers
      /\ c \in Configs /\ CellOf(w) = Breaker(c) /\ CellOf(w) \in Cell
      /\ worker[w].cb \in Cells
  BY Enterer DEF Allow, InCall
<1>2. worker' = [worker EXCEPT ![w] = r] /\ r.pc = "prepare" /\ r.config = c
  BY Goes DEF Proceed
<1>3. /\ Stages' = [Stages EXCEPT ![w] = "admitted"] /\ Sends' = [Sends EXCEPT ![w] = c]
      /\ Stages[w] = "out"
  <2>1. Stage(r) = "admitted" /\ SendConfig(r) = c
    BY <1>2 DEF Stage, SendConfig
  <2>2. Stages[w] = "out"
    BY <1>1 DEF Stages, Stage
  <2>3. Stages' = [Stages EXCEPT ![w] = Stage(r)] /\ Sends' = [Sends EXCEPT ![w] = SendConfig(r)]
    BY <1>2, StageMoves
  <2> QED BY <2>1, <2>2, <2>3
<1>4. /\ Streak[c] = CellOf(w).failures /\ Rest[c] = CellOf(w).age
      /\ Trial[c] <=> CellOf(w).state = "halfOpen"
      /\ CellOf(w).state = "closed" <=> Streak[c] < Threshold
      /\ Streak[c] \in 0..Threshold
  <2>1. CellOf(w).state = "closed" <=> CellOf(w).failures < Threshold
    BY <1>1 DEF IInv, ClosedMeansBelow, CellOf
  <2> QED BY <1>1, <2>1 DEF Streak, Rest, Trial, Cell
<1>5. CASE CellOf(w).state = "closed" /\ UNCHANGED cell
  <2>1. Streak' = Streak /\ Rest' = Rest /\ Trial' = Trial
    BY <1>1, <1>5, AccountStays DEF Breaker
  <2>2. Streak[c] # Threshold /\ Trial[c] = FALSE
    <3>1. Streak[c] # Threshold
      BY <1>4, <1>5, ThresholdAssumption
    <3> QED BY <1>1, <1>5, <3>1 DEF Trial
  <2>3. Trial = [Trial EXCEPT ![c] = Streak[c] = Threshold]
    <3>1. (Streak[c] = Threshold) = FALSE
      BY <2>2
    <3>2. Trial = [Trial EXCEPT ![c] = Trial[c]]
      BY <1>1 DEF Trial
    <3> QED BY <2>2, <3>1, <3>2, Zenon
  <2> QED BY <1>3, <2>1, <2>2, <2>3 DEF Contract!Admit
<1>6. CASE /\ CellOf(w).state = "open" /\ CellOf(w).age = Cooldown
           /\ cell' = [cell EXCEPT ![worker[w].cb].state = "halfOpen"]
  <2> DEFINE b == [CellOf(w) EXCEPT !.state = "halfOpen"]
  <2>1. /\ b \in Cell /\ b.state = "halfOpen" /\ b.failures = CellOf(w).failures
        /\ b.age = CellOf(w).age
    BY <1>1 DEF Cell
  <2>2. cell' = [cell EXCEPT ![worker[w].cb] = b]
    BY <1>6, Zenon DEF CellOf
  <2>3. \A d \in Configs : Breaker(d)' = IF d = c THEN b ELSE Breaker(d)
    BY <1>1, <2>1, <2>2, WriteCell
  <2>4. /\ Streak' = [Streak EXCEPT ![c] = b.failures] /\ Rest' = [Rest EXCEPT ![c] = b.age]
        /\ Trial' = [Trial EXCEPT ![c] = b.state = "halfOpen"]
    <3> HIDE DEF b
    <3> QED BY <1>1, <2>3, AccountMoves
  <2>5. Streak' = Streak /\ Rest' = Rest
    <3>1. Streak = [Streak EXCEPT ![c] = Streak[c]] /\ Rest = [Rest EXCEPT ![c] = Rest[c]]
      BY DEF Streak, Rest
    <3>2. b.failures = Streak[c] /\ b.age = Rest[c]
      BY <1>4, <2>1
    <3> QED BY <2>4, <3>1, <3>2, Zenon
  <2>6. Streak[c] = Threshold /\ Rest[c] = Cooldown /\ ~Trial[c]
    BY <1>4, <1>6, ThresholdAssumption
  <2>7. (b.state = "halfOpen") = (Streak[c] = Threshold)
    BY <2>1, <2>6
  <2>8. Trial' = [Trial EXCEPT ![c] = Streak[c] = Threshold]
    BY <2>4, <2>7, Zenon
  <2> QED BY <1>3, <2>5, <2>6, <2>8 DEF Contract!Admit
<1>7. ~Finish(w)
  <2>1. worker'[w] = r /\ Idle.pc = "idle"
    BY <1>2 DEF IInv, TypeOK, Idle
  <2> QED BY <1>2, <2>1 DEF Finish, IInv, TypeOK
<1> QED BY <1>5, <1>6, <1>7 DEF Allow

\* A result that reaches the breaker.
LEMMA ResultRefined ==
    ASSUME IInv, NEW w \in Workers, RecordSuccess(w) \/ RecordFailure(w)
    PROVE  Contract!Success(w) \/ Contract!Failure(w)
<1> DEFINE c == worker[w].config
<1>1. /\ worker[w].pc = "enter" /\ UNCHANGED breakers /\ Finish(w)
      /\ c \in Configs /\ CellOf(w) = Breaker(c) /\ CellOf(w) \in Cell
  BY Enterer DEF RecordSuccess, RecordFailure, InCall
<1>2. Stages' = [Stages EXCEPT ![w] = "out"] /\ Sends' = [Sends EXCEPT ![w] = NoConfig]
  <2>1. worker' = [worker EXCEPT ![w] = Idle]
    BY <1>1, Stops
  <2>2. /\ Stages' = [Stages EXCEPT ![w] = Stage(Idle)]
        /\ Sends' = [Sends EXCEPT ![w] = SendConfig(Idle)]
    BY <2>1, StageMoves
  <2> QED BY <2>2, IdleIsOut
<1>3. Streak[c] = CellOf(w).failures /\ Rest[c] = CellOf(w).age
  BY <1>1 DEF Streak, Rest
<1>4. ASSUME NEW b \in Cell, b.state # "halfOpen", cell' = [cell EXCEPT ![worker[w].cb] = b]
      PROVE  /\ Streak' = [Streak EXCEPT ![c] = b.failures]
             /\ Rest' = [Rest EXCEPT ![c] = b.age]
             /\ Trial' = [Trial EXCEPT ![c] = FALSE]
  <2>1. \A d \in Configs : Breaker(d)' = IF d = c THEN b ELSE Breaker(d)
    BY <1>1, <1>4, WriteCell
  <2>2. /\ Streak' = [Streak EXCEPT ![c] = b.failures] /\ Rest' = [Rest EXCEPT ![c] = b.age]
        /\ Trial' = [Trial EXCEPT ![c] = b.state = "halfOpen"]
    BY <1>1, <2>1, AccountMoves
  <2>3. (b.state = "halfOpen") = FALSE
    BY <1>4
  <2> QED BY <2>2, <2>3, Zenon
<1>5. CASE RecordSuccess(w)
  <2> DEFINE b == Restored(CellOf(w))
  <2>1. cell' = [cell EXCEPT ![worker[w].cb] = b] /\ b \in Cell
    BY <1>1, <1>5, Writes, BreakerMoves
  <2>2. b.state = "closed" /\ b.failures = 0 /\ b.age = CellOf(w).age
    BY <1>1 DEF Restored, Cell
  <2>3. Stages[w] = "ok" /\ Sends[w] = c
    BY <1>1, <1>5 DEF RecordSuccess, InCall, Stages, Sends, Stage, SendConfig
  <2>4. Streak' = [Streak EXCEPT ![c] = 0] /\ Trial' = [Trial EXCEPT ![c] = FALSE]
        /\ Rest' = [Rest EXCEPT ![c] = b.age]
    <3> HIDE DEF b
    <3> QED BY <1>4, <2>1, <2>2
  <2>5. Rest' = Rest
    <3>1. Rest = [Rest EXCEPT ![c] = Rest[c]]
      BY DEF Rest
    <3> QED BY <1>3, <2>2, <2>4, <3>1, Zenon
  <2> QED BY <1>2, <2>3, <2>4, <2>5 DEF Contract!Success, Contract!Leave
<1>6. CASE RecordFailure(w)
  <2> DEFINE b == Failed(CellOf(w))
  <2>1. cell' = [cell EXCEPT ![worker[w].cb] = b] /\ b \in Cell
    BY <1>1, <1>6, Writes, BreakerMoves
  <2>2. /\ b.failures = Upto(Threshold, CellOf(w).failures) /\ b.age = 0
        /\ b.state # "halfOpen"
    <3>1. CellOf(w).failures \in 0..Threshold /\ Threshold \in Nat
      BY <1>1, ThresholdAssumption DEF Cell
    <3>2. CellOf(w).state = "halfOpen" => CellOf(w).failures + 1 >= Threshold
      <4>1. CellOf(w).state = "closed" <=> CellOf(w).failures < Threshold
        BY <1>1, Enterer DEF IInv, ClosedMeansBelow, CellOf
      <4> QED BY <3>1, <4>1
    <3> QED BY <3>1, <3>2 DEF Failed
  <2>3. Stages[w] = "failed" /\ Sends[w] = c
    BY <1>1, <1>6 DEF RecordFailure, InCall, Stages, Sends, Stage, SendConfig
  <2>4. Streak' = [Streak EXCEPT ![c] = b.failures] /\ Trial' = [Trial EXCEPT ![c] = FALSE]
        /\ Rest' = [Rest EXCEPT ![c] = 0]
    <3> HIDE DEF b
    <3> QED BY <1>4, <2>1, <2>2
  <2>5. b.failures = Contract!Upto(Threshold, Streak[c])
    BY <1>3, <2>2 DEF Upto, Contract!Upto
  <2>6. Streak' = [Streak EXCEPT ![c] = Contract!Upto(Threshold, Streak[c])]
    BY <2>4, <2>5, Zenon
  <2> QED BY <1>2, <2>3, <2>4, <2>6 DEF Contract!Failure, Contract!Leave
<1> QED BY <1>5, <1>6

\* The handler before and after the send.
LEMMA HandlerRefined ==
    ASSUME IInv, NEW w \in Workers, AbandonSend(w) \/ StartSend(w) \/ EndSend(w)
    PROVE  Contract!GiveUp(w) \/ Contract!Begin(w) \/ \E s \in {"ok", "failed"} : Contract!Outcome(w, s)
<1> DEFINE c == worker[w].config
<1>1. c \in Configs /\ worker[w].pc \in {"prepare", "send"}
  BY Known DEF AbandonSend, StartSend, EndSend
<1>2. /\ Stages[w] = IF worker[w].pc = "send" THEN "sending" ELSE "admitted"
      /\ Sends[w] = c
  BY <1>1 DEF Stages, Sends, Stage, SendConfig
<1>3. Streak' = Streak /\ Rest' = Rest /\ Trial' = Trial
  <2>1. \A d \in Configs : Breaker(d)' = Breaker(d)
    BY DEF AbandonSend, StartSend, EndSend, Breaker
  <2> QED BY <2>1, AccountStays
<1>4. ASSUME NEW r, worker' = [worker EXCEPT ![w] = r]
      PROVE  /\ Stages' = [Stages EXCEPT ![w] = Stage(r)]
             /\ Sends' = [Sends EXCEPT ![w] = SendConfig(r)]
  BY <1>4, StageMoves
<1>5. Sends = [Sends EXCEPT ![w] = Sends[w]]
  BY DEF Sends
<1>6. CASE AbandonSend(w)
  <2>1. worker' = [worker EXCEPT ![w] = Idle]
    BY <1>6, Stops DEF AbandonSend
  <2>2. Stages' = [Stages EXCEPT ![w] = "out"] /\ Sends' = [Sends EXCEPT ![w] = NoConfig]
    BY <1>4, <2>1, IdleIsOut
  <2> QED BY <1>2, <1>3, <1>6, <2>2 DEF AbandonSend, Contract!GiveUp, Contract!Leave
<1>7. CASE StartSend(w)
  <2>1. /\ worker' = [worker EXCEPT ![w] = At(w, "send")]
        /\ At(w, "send").pc = "send" /\ At(w, "send").config = c
    BY <1>7, Goes DEF StartSend
  <2>2. Stage(At(w, "send")) = "sending" /\ SendConfig(At(w, "send")) = c
    BY <2>1 DEF Stage, SendConfig
  <2>3. Stages' = [Stages EXCEPT ![w] = "sending"] /\ Sends' = [Sends EXCEPT ![w] = Sends[w]]
    BY <1>2, <1>4, <2>1, <2>2
  <2> QED BY <1>2, <1>3, <1>5, <1>7, <2>3 DEF StartSend, Contract!Begin
<1>8. ASSUME EndSend(w), NEW m \in {"success", "failure"}, Call(w, c, m)
      PROVE  \E s \in {"ok", "failed"} : Contract!Outcome(w, s)
  <2> DEFINE s == IF m = "success" THEN "ok" ELSE "failed"
  <2>1. /\ worker' = [worker EXCEPT ![w] = Calling(c, m)]
        /\ Calling(c, m).pc = "lookup" /\ Calling(c, m).config = c /\ Calling(c, m).call = m
    BY <1>1, <1>8, Calls
  <2>2. Stage(Calling(c, m)) = s /\ SendConfig(Calling(c, m)) = c
    BY <2>1 DEF Stage, SendConfig
  <2>3. Stages' = [Stages EXCEPT ![w] = s] /\ Sends' = [Sends EXCEPT ![w] = Sends[w]]
    <3> HIDE DEF s
    <3> QED BY <1>2, <1>4, <2>1, <2>2
  <2>4. Stages[w] = "sending"
    BY <1>2, <1>8 DEF EndSend
  <2>5. s \in {"ok", "failed"}
    OBVIOUS
  <2> HIDE DEF s
  <2> QED BY <1>3, <1>5, <2>3, <2>4, <2>5 DEF Contract!Outcome
<1> QED BY <1>6, <1>7, <1>8 DEF EndSend

LEMMA TickRefined ==
    ASSUME IInv, Tick
    PROVE  Contract!Pass
<1>1. TypeOK /\ UNCHANGED <<breakers, worker>>
  BY DEF IInv, Tick
<1>2. ASSUME NEW c \in Configs
      PROVE  /\ Breaker(c)'.failures = Breaker(c).failures /\ Breaker(c)'.state = Breaker(c).state
             /\ Breaker(c)'.age = Contract!Upto(Cooldown, Breaker(c).age)
  <2>1. CASE breakers[c] = NoCell
    BY <1>1, <2>1, CooldownAssumption DEF Breaker, NewCell, Contract!Upto
  <2>2. CASE breakers[c] # NoCell
    <3>1. breakers[c] \in Cells /\ cell[breakers[c]] \in Cell
      BY <1>1, <2>2 DEF TypeOK
    <3>2. cell'[breakers[c]] = [cell[breakers[c]] EXCEPT !.age = Upto(Cooldown, cell[breakers[c]].age)]
      BY <3>1 DEF Tick
    <3>3. /\ cell'[breakers[c]].failures = cell[breakers[c]].failures
          /\ cell'[breakers[c]].state = cell[breakers[c]].state
          /\ cell'[breakers[c]].age = Contract!Upto(Cooldown, cell[breakers[c]].age)
      BY <3>1, <3>2 DEF Cell, Upto, Contract!Upto
    <3> QED BY <1>1, <2>2, <3>3 DEF Breaker
  <2> QED BY <2>1, <2>2
<1>3. Streak' = Streak /\ Rest' = [c \in Configs |-> Contract!Upto(Cooldown, Rest[c])]
  BY <1>2 DEF Streak, Rest
<1>4. Trial' = Trial
  BY <1>2, Zenon DEF Trial
<1>5. Stages' = Stages /\ Sends' = Sends
  BY <1>1 DEF Stages, Sends
<1> QED BY <1>3, <1>4, <1>5 DEF Contract!Pass

LEMMA StepRefined == ASSUME IInv, [Next]_vars PROVE [Contract!CNext]_(Contract!cvars)
<1>1. CASE UNCHANGED vars
  <2>1. Streak' = Streak /\ Rest' = Rest /\ Trial' = Trial /\ Stages' = Stages /\ Sends' = Sends
    <3>1. \A c \in Configs : Breaker(c)' = Breaker(c)
      BY <1>1 DEF vars, Breaker
    <3>2. Stages' = Stages /\ Sends' = Sends
      BY <1>1 DEF vars, Stages, Sends
    <3> QED BY <3>1, <3>2, AccountStays
  <2> QED BY <2>1 DEF Contract!cvars
<1>2. ASSUME NEW w \in Workers, Step(w) PROVE Contract!CNext \/ UNCHANGED Contract!cvars
  <2>1. CASE Lookup(w) \/ Create(w)
    BY <2>1, LookupHidden, CreateHidden
  <2>2. CASE Allow(w)
    <3>1. CASE Proceed(w)
      <4>1. worker[w].config \in Configs
        BY <2>2, Known DEF Allow, InCall
      <4>2. Contract!Admit(w, worker[w].config)
        BY <2>2, <3>1, AdmitRefined
      <4> QED BY <4>1, <4>2 DEF Contract!CNext
    <3>2. CASE InCall(w, "allow") /\ Finish(w) /\ UNCHANGED <<breakers, cell>>
      BY <3>2, RefusalHidden
    <3> QED BY <2>2, <3>1, <3>2 DEF Allow
  <2>3. CASE RecordSuccess(w) \/ RecordFailure(w)
    BY <2>3, ResultRefined DEF Contract!CNext
  <2>4. CASE AbandonSend(w) \/ StartSend(w) \/ EndSend(w)
    BY <2>4, HandlerRefined DEF Contract!CNext
  <2> QED BY <1>2, <2>1, <2>2, <2>3, <2>4 DEF Step
<1>3. ASSUME NEW w \in Workers, NEW c \in Configs, Begin(w, c) PROVE UNCHANGED Contract!cvars
  <2>1. /\ worker' = [worker EXCEPT ![w] = Calling(c, "allow")]
        /\ Calling(c, "allow").pc = "lookup" /\ Calling(c, "allow").call = "allow"
    BY <1>3, Calls DEF Begin
  <2>2. worker[w] = Idle
    BY <1>3 DEF Begin, IInv, WorkersKnowConfig
  <2>3. Stage(Calling(c, "allow")) = "out" /\ SendConfig(Calling(c, "allow")) = NoConfig
    BY <2>1 DEF Stage, SendConfig
  <2>4. \A d \in Configs : Breaker(d)' = Breaker(d)
    BY <1>3 DEF Begin, Breaker
  <2> QED BY <2>1, <2>2, <2>3, <2>4, IdleIsOut, Hidden
<1>4. CASE Tick
  BY <1>4, TickRefined DEF Contract!CNext
<1>5. CASE Restart
  <2>1. Init'
    BY <1>5 DEF Restart, Init
  <2>2. (Contract!CInit)'
    BY <2>1, InitRefines, PTL
  <2>3. Contract!Forget
    BY <2>2 DEF Contract!CInit, Contract!Forget
  <2> QED BY <2>3 DEF Contract!CNext
<1> QED BY <1>1, <1>2, <1>3, <1>4, <1>5 DEF Next

-----------------------------------------------------------------------------
(* The theorems.                                                             *)

\* The breakers implement their contract: however the goroutines race for the
\* registry and the mutexes, every result lands in the streak of its configuration,
\* a tripped breaker lets nothing through before its cooldown is over, and at most
\* one send until the next result is recorded.
THEOREM RefinesContract == Spec => ImplementsContract
<1>1. Init => Contract!CInit
  BY InitRefines
<1>2. IInv /\ [Next]_vars => [Contract!CNext]_(Contract!cvars)
  BY StepRefined
<1> QED BY <1>1, <1>2, InductiveInvariant, PTL DEF Spec, ImplementsContract, Contract!CSpec

\* Allow puts a mail off only when as many sends of its configuration failed in a
\* row as the threshold says, and either the last failure is less than a cooldown
\* ago or a trial was granted since.
THEOREM RefusalsHaveReasons == Spec => RefusalHasReason
<1> DEFINE Reason(w) ==
      InCall(w, "allow") /\ worker'[w] = Idle /\ breakers' = breakers =>
        LET b == Breaker(worker[w].config)
        IN b.failures = Threshold /\ (b.age < Cooldown \/ b.state = "halfOpen")
<1>1. ASSUME IInv, [Next]_vars, NEW w \in Workers, InCall(w, "allow"), worker'[w] = Idle,
             breakers' = breakers
      PROVE  /\ Breaker(worker[w].config).failures = Threshold
             /\ \/ Breaker(worker[w].config).age < Cooldown
                \/ Breaker(worker[w].config).state = "halfOpen"
  <2>1. /\ worker[w].pc = "enter" /\ worker[w].call = "allow" /\ worker[w] # Idle
        /\ CellOf(w) = Breaker(worker[w].config) /\ CellOf(w) \in Cell
        /\ CellOf(w).state = "closed" <=> CellOf(w).failures < Threshold
    BY <1>1, Enterer DEF InCall, Idle, IInv, ClosedMeansBelow, CellOf
  <2>2. worker' # worker
    BY <1>1, <2>1
  <2>3. ~Restart
    <3>1. breakers[worker[w].config] # NoCell /\ worker[w].config \in Configs
      BY <1>1, <2>1, Enterer, NoCellAssumption
    <3> QED BY <1>1, <3>1 DEF Restart
  <2>4. ASSUME NEW v \in Workers, v # w, Step(v) \/ \E c \in Configs : Begin(v, c)
        PROVE  worker'[w] = worker[w]
    BY <1>1, <2>4 DEF IInv, TypeOK, Step, Lookup, Create, Allow, RecordSuccess, RecordFailure,
       AbandonSend, StartSend, EndSend, Begin, Enter, Call, Finish, Proceed
  <2>5. Allow(w)
    <3>1. ~Tick /\ ~UNCHANGED vars
      BY <2>2 DEF Tick, vars
    <3>2. Step(w) \/ \E c \in Configs : Begin(w, c)
      BY <1>1, <2>1, <2>3, <2>4, <3>1 DEF Next
    <3> QED BY <2>1, <3>2 DEF Step, Lookup, Create, RecordSuccess, RecordFailure, AbandonSend,
            StartSend, EndSend, Begin, InCall
  <2>6. ~Proceed(w)
    BY <1>1 DEF Proceed, IInv, TypeOK, Worker, Idle
  <2>7. \/ CellOf(w).state = "open" /\ CellOf(w).age < Cooldown
        \/ CellOf(w).state = "halfOpen"
    BY <2>5, <2>6 DEF Allow
  <2>8. CellOf(w).failures = Threshold
    BY <2>1, <2>7, ThresholdAssumption DEF Cell
  <2> QED BY <2>1, <2>7, <2>8
<1>2. IInv /\ [Next]_vars => \A w \in Workers : Reason(w)
  BY <1>1
<1>3. IInv /\ [Next]_vars => [\A w \in Workers : Reason(w)]_vars
  BY <1>2
<1> QED BY <1>3, InductiveInvariant, PTL DEF Spec, RefusalHasReason

=============================================================================
