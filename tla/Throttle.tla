------------------------------ MODULE Throttle ------------------------------
(***************************************************************************)
(* What HandleMailSend (internal/worker/mail_handler.go) asks before it    *)
(* sends: the settings of the tenant and the SMTP configuration, through   *)
(* the caches of its process (internal/worker/cache.go), and a token of the*)
(* bucket all workers share in Redis (internal/adapter/redis/              *)
(* rate_limiter.go).                                                       *)
(*                                                                         *)
(* Several processes run goroutines that share the caches of their         *)
(* process. Every version of the settings has a rate and a burst of its    *)
(* own. Tokens are counted in fractions and time in parts of a second, so  *)
(* that a rate is a natural number of fractions for each unit of time. The *)
(* time a call hands to the script is at most MaxSkew away from that of    *)
(* Redis: clocks differ, drift and are set, and a call is under way for a  *)
(* while.                                                                  *)
(***************************************************************************)
EXTENDS Integers, FiniteSets

CONSTANTS
    Processes, Goroutines,
    ProcessOf,  \* the process of each goroutine
    MaxSkew,    \* how far apart the times of two calls at one moment may be
    Token,      \* the fractions of a token
    Second,     \* the units of time in a second
    Rate,       \* rate_limit of each version of the settings, fractions per unit of time
    Burst,      \* rate_burst of each version of the settings, tokens
    MaxRate, MaxBurst,
    MaxVersion, \* bound on the versions, of the two rows together
    Ttl,        \* defaultConfigCacheTTL
    MaxFetch,   \* bound on the time between a read of a row and its storing
    MinTtl,     \* the least EXPIRE of the bucket, 60 s
    MaxTime,    \* bound on the clock
    MaxSlowed,  \* bound on the calls counted by slowed
    Nothing

Keys == {"tenant", "smtp"}
Versions == 1..MaxVersion

ASSUME ProcessAssumption == ProcessOf \in [Goroutines -> Processes]
ASSUME UnitAssumption == Token \in Nat \ {0} /\ Second \in Nat \ {0}
ASSUME SettingsAssumption ==
    /\ MaxVersion \in Nat \ {0} /\ MaxRate \in Nat /\ MaxBurst \in Nat
    /\ Rate \in [1..MaxVersion -> 1..MaxRate] /\ Burst \in [1..MaxVersion -> 0..MaxBurst]
ASSUME TimeAssumption ==
    Ttl \in Nat \ {0} /\ MaxFetch \in Nat /\ MaxTime \in Nat /\ MaxSlowed \in Nat

\* Calls are less than half the least EXPIRE apart: 30 seconds.
ASSUME SkewAssumption == MaxSkew \in Nat /\ MinTtl \in Nat /\ 2 * MaxSkew <= MinTtl

Larger(a, b) == IF a < b THEN b ELSE a
Ceiling(a, b) == (a + b - 1) \div b

\* EXPIRE of the bucket: twice the whole seconds that fill it at the caller's settings.
KeyTtl(version) ==
    Larger(2 * Second * Ceiling(Token * Burst[version], Second * Rate[version]), MinTtl)

\* The hash of a bucket, and that no bucket is no bucket at all.
Buckets == [tokens : Int, last : Nat, touched : Nat, by : Versions]
ASSUME NothingAssumption == Nothing \notin Buckets

VARIABLES
    now,     \* real time
    row,     \* the version of each row in PostgreSQL
    retired, \* observation: when each version was replaced, MaxTime + 1 while it was not
    cache,   \* the entry of each process and key: [version, storedAt], or Nothing
    job,     \* each goroutine: [pc, version, readAt, late]; late is an observation:
             \* how long the version had been replaced when it was taken into use
    bucket,  \* rate_limit:{tenant}, or Nothing: its tokens and last, and when and at which
             \* version the last call set its EXPIRE
    granted, \* observation: the tokens given
    raised,  \* observation: the calls that found the key expired and had a larger burst
             \* than the call before
    slowed   \* observation: the calls that had a lower rate than the call before

account == <<bucket, granted, raised, slowed>>
vars == <<now, row, retired, cache, job, account>>

Idle == [pc |-> "tenant", version |-> 0, readAt |-> 0, late |-> 0]

Init ==
    /\ now = 0
    /\ row = [k \in Keys |-> 1]
    /\ retired = [k \in Keys |-> [v \in Versions |-> MaxTime + 1]]
    /\ cache = [p \in Processes |-> [k \in Keys |-> Nothing]]
    /\ job = [g \in Goroutines |-> Idle]
    /\ bucket = Nothing
    /\ granted = 0 /\ raised = 0 /\ slowed = 0

-----------------------------------------------------------------------------
(* ttlCache, and the two functions that fill it.                            *)

Entry(g, k) == cache[ProcessOf[g]][k]

Fresh(entry) == entry # Nothing /\ now - entry.storedAt < Ttl

\* The steps of a goroutine for each key. What follows the SMTP configuration is not here.
ReadStep(k) == IF k = "tenant" THEN "tenantRead" ELSE "smtpRead"
SetStep(k) == IF k = "tenant" THEN "tenantSet" ELSE "smtpSet"
StepAfter(k) == IF k = "tenant" THEN "allow" ELSE "tenant"

Use(g, k, version) ==
    job' = [job EXCEPT ![g] =
        [pc |-> StepAfter(k), version |-> version, readAt |-> 0,
         late |-> IF retired[k][version] <= now THEN now - retired[k][version] ELSE 0]]

\* A faulty get that does not look at the age of the entry.
GetAnyAge(g, k) ==
    /\ job[g].pc = k
    /\ \/ Entry(g, k) # Nothing /\ Use(g, k, Entry(g, k).version)
       \/ Entry(g, k) = Nothing /\ job' = [job EXCEPT ![g].pc = ReadStep(k)]
    /\ UNCHANGED <<now, row, retired, cache, account>>

\* get: an entry that is too old is deleted.
Get(g, k) ==
    /\ job[g].pc = k
    /\ \/ /\ Fresh(Entry(g, k))
          /\ Use(g, k, Entry(g, k).version)
          /\ UNCHANGED cache
       \/ /\ ~Fresh(Entry(g, k))
          /\ cache' = [cache EXCEPT ![ProcessOf[g]][k] = Nothing]
          /\ job' = [job EXCEPT ![g].pc = ReadStep(k)]
    /\ UNCHANGED <<now, row, retired, account>>

ReadRow(g, k) ==
    /\ job[g].pc = ReadStep(k)
    /\ job' = [job EXCEPT ![g] = [pc |-> SetStep(k), version |-> row[k], readAt |-> now, late |-> 0]]
    /\ UNCHANGED <<now, row, retired, cache, account>>

\* set stamps the entry with the time of storing.
Set(g, k) ==
    /\ job[g].pc = SetStep(k)
    /\ cache' = [cache EXCEPT ![ProcessOf[g]][k] = [version |-> job[g].version, storedAt |-> now]]
    /\ Use(g, k, job[g].version)
    /\ UNCHANGED <<now, row, retired, account>>

\* The run ends early: a row cannot be read, the mail has no SMTP configuration, or its
\* breaker is open.
GiveUp(g) ==
    /\ job[g].pc \in {"tenantRead", "smtp", "smtpRead"}
    /\ job' = [job EXCEPT ![g] = Idle]
    /\ UNCHANGED <<now, row, retired, cache, account>>

-----------------------------------------------------------------------------
(* The script of the token bucket, one call at a time.                      *)

Least(a, b) == IF a < b THEN a ELSE b

\* What a call may take for the time, counted from the clock furthest behind.
Stamps == now..now + MaxSkew

Kept == bucket # Nothing /\ now < bucket.touched + KeyTtl(bucket.by)

\* A faulty script that does not count time that went backwards.
GainedForward(v, stamp) ==
    IF ~Kept THEN Token * Burst[v]
    ELSE IF stamp > bucket.last
         THEN Least(Token * Burst[v], bucket.tokens + Rate[v] * (stamp - bucket.last))
         ELSE Least(Token * Burst[v], bucket.tokens)

\* The tokens after the gain since the last call, at the caller's rate and up to the
\* caller's burst. The gain is negative when the caller's time is behind.
Gained(v, stamp) ==
    IF Kept THEN Least(Token * Burst[v], bucket.tokens + Rate[v] * (stamp - bucket.last))
    ELSE Token * Burst[v]

RunScript(v, stamp) ==
    LET t == Gained(v, stamp) IN
    /\ bucket' = [tokens |-> IF t >= Token THEN t - Token ELSE t, last |-> stamp,
                  touched |-> now, by |-> v]
    /\ granted' = IF t >= Token THEN granted + 1 ELSE granted
    /\ raised' = IF bucket # Nothing /\ ~Kept /\ Burst[v] > Burst[bucket.by]
                 THEN raised + 1 ELSE raised
    /\ slowed' = IF Kept /\ Rate[v] < Rate[bucket.by] THEN slowed + 1 ELSE slowed
    /\ slowed' <= MaxSlowed

\* Refused is ErrRateLimited: the task comes back later.
Allow(g) ==
    /\ job[g].pc = "allow"
    /\ \E stamp \in Stamps :
        /\ RunScript(job[g].version, stamp)
        /\ job' = [job EXCEPT ![g] =
                IF Gained(job[g].version, stamp) >= Token THEN [Idle EXCEPT !.pc = "smtp"] ELSE Idle]
    /\ UNCHANGED <<now, row, retired, cache>>

\* Redis gives no answer, whether or not the script ran: its client may call again, or the
\* error ends the run.
AllowFails(g) ==
    /\ job[g].pc = "allow"
    /\ \/ \E stamp \in Stamps : RunScript(job[g].version, stamp)
       \/ UNCHANGED account
    /\ job' \in {job, [job EXCEPT ![g] = Idle]}
    /\ UNCHANGED <<now, row, retired, cache>>

-----------------------------------------------------------------------------
(* The API updates a row; time passes, never past the longest fetch.        *)

UpdateRow(k) ==
    /\ row["tenant"] + row["smtp"] <= MaxVersion
    /\ row' = [row EXCEPT ![k] = @ + 1]
    /\ retired' = [retired EXCEPT ![k][row[k]] = now]
    /\ UNCHANGED <<now, cache, job, account>>

Fetching(g) == \E k \in Keys : job[g].pc = SetStep(k)

Tick ==
    /\ now < MaxTime
    /\ \A g \in Goroutines : Fetching(g) => now < job[g].readAt + MaxFetch
    /\ now' = now + 1
    /\ UNCHANGED <<row, retired, cache, job, account>>

GoroutineStep(g) ==
    \/ \E k \in Keys : Get(g, k) \/ ReadRow(g, k) \/ Set(g, k)
    \/ GiveUp(g) \/ Allow(g) \/ AllowFails(g)

Next ==
    \/ \E g \in Goroutines : GoroutineStep(g)
    \/ \E k \in Keys : UpdateRow(k)
    \/ Tick

Spec == Init /\ [][Next]_vars

-----------------------------------------------------------------------------
(* Properties.                                                              *)

Entries == [version : Versions, storedAt : Nat]
Jobs == [pc : {"tenant", "tenantRead", "tenantSet", "allow", "smtp", "smtpRead", "smtpSet"},
         version : 0..MaxVersion, readAt : Nat, late : Nat]

\* Every variable keeps its shape; only the cached and the used versions matter.
TypeOK ==
    /\ now \in 0..MaxTime
    /\ row \in [Keys -> Versions]
    /\ retired \in [Keys -> [Versions -> 0..MaxTime + 1]]
    /\ cache \in [Processes -> [Keys -> Entries \cup {Nothing}]]
    /\ job \in [Goroutines -> Jobs]
    /\ bucket = Nothing \/ bucket \in Buckets
    /\ granted \in Nat /\ raised \in Nat /\ slowed \in Nat

\* The inductive invariant. Allowance is what a tenant may get whatever the time: its
\* largest burst, again for every call counted by raised, and what the times of two calls
\* are apart for every call counted by slowed. What was given or is in the bucket was
\* there or was gained since, the last gain at the rate of the last caller; a token is
\* only given when it is there.
Allowance == MaxBurst * Token * (1 + raised) + MaxRate * MaxSkew * slowed

BucketSound ==
    /\ bucket = Nothing => granted = 0
    /\ bucket # Nothing =>
        /\ bucket.touched <= now
        /\ bucket.touched <= bucket.last /\ bucket.last <= bucket.touched + MaxSkew
        /\ granted * Token + bucket.tokens <=
               Allowance + MaxRate * bucket.touched + Rate[bucket.by] * (bucket.last - bucket.touched)
        /\ granted * Token <= Allowance + MaxRate * (bucket.touched + MaxSkew)

CacheSound ==
    /\ \A k \in Keys : \A v \in Versions : v >= row[k] => retired[k][v] = MaxTime + 1
    /\ \A p \in Processes, k \in Keys : cache[p][k] # Nothing =>
        /\ cache[p][k].storedAt <= now
        /\ cache[p][k].storedAt <= retired[k][cache[p][k].version] + MaxFetch

JobSound ==
    \A g \in Goroutines :
        /\ job[g].pc = "allow" => job[g].version \in Versions
        /\ \A k \in Keys : job[g].pc = SetStep(k) =>
            /\ job[g].version \in Versions
            /\ job[g].readAt <= now /\ now <= job[g].readAt + MaxFetch
            /\ job[g].readAt <= retired[k][job[g].version]

\* A tenant gets no more tokens than its largest burst and the highest rate allow,
\* whatever settings the workers have cached, whatever time their calls hand over, and
\* whether or not the key expired or the answer was lost. Two things add to it, and they
\* are counted: a bucket filled anew because EXPIRE was set by a call with a smaller burst,
\* and a gain at a high rate taken back at a lower one.
WithinQuota ==
    granted * Token <= MaxBurst * Token * (1 + raised) + MaxRate * (now + MaxSkew * (1 + slowed))

\* A change of a row takes effect after the TTL and the longest fetch, not after the
\* TTL alone: an entry is stamped when it is stored, not when it was read.
StalenessBounded == \A g \in Goroutines : job[g].late = 0 \/ job[g].late < Ttl + MaxFetch

\* All of it: the invariant the proofs induct on.
IInv == TypeOK /\ BucketSound /\ CacheSound /\ JobSound /\ StalenessBounded
=============================================================================
