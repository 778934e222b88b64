--------------------------- MODULE ThrottleProofs ---------------------------
(***************************************************************************)
(* The limits of Throttle hold for any number of processes, goroutines and *)
(* versions, any rates, bursts and TTLs, and any times of the calls that   *)
(* are less than half the least EXPIRE apart.                              *)
(***************************************************************************)
EXTENDS Throttle, TLAPS

\* The settings of every version are in range.
LEMMA Constants ==
    /\ \A g \in Goroutines : ProcessOf[g] \in Processes
    /\ MaxSkew \in Nat /\ MaxVersion \in Nat \ {0} /\ MaxRate \in Nat /\ MaxBurst \in Nat
    /\ Token \in Nat \ {0} /\ Second \in Nat \ {0} /\ MinTtl \in Nat
    /\ Ttl \in Nat \ {0} /\ MaxFetch \in Nat /\ MaxTime \in Nat
    /\ \A v \in Versions : Rate[v] \in 1..MaxRate /\ Burst[v] \in 0..MaxBurst
    BY ProcessAssumption, SkewAssumption, SettingsAssumption, TimeAssumption, UnitAssumption
    DEF Versions

LEMMA ProductMonotone ==
    ASSUME NEW a \in Nat, NEW b \in Nat, NEW c \in Nat, a <= b
    PROVE  a * c <= b * c /\ c * a <= c * b
    OBVIOUS

LEMMA ProductNatural == ASSUME NEW a \in Nat, NEW b \in Nat PROVE a * b \in Nat
    OBVIOUS

LEMMA CeilingCovers ==
    ASSUME NEW a \in Nat, NEW b \in Nat \ {0}
    PROVE  Ceiling(a, b) \in Nat /\ b * Ceiling(a, b) >= a
    BY DEF Ceiling

\* The key lives until the caller's bucket is full at the caller's rate, and for as long
\* again as two calls are apart: EXPIRE is the larger of twice the one and twice the other.
LEMMA KeyTtlCovers ==
    ASSUME NEW v \in Versions
    PROVE  /\ KeyTtl(v) \in Nat /\ KeyTtl(v) >= MaxSkew
           /\ Rate[v] * (KeyTtl(v) - MaxSkew) >= Token * Burst[v]
<1> DEFINE r == Rate[v]
           full == Token * Burst[v]
           n == Ceiling(full, Second * r)
<1>1. /\ r \in Nat \ {0} /\ full \in Nat /\ Second \in Nat \ {0} /\ Second * r \in Nat \ {0}
      /\ MaxSkew \in Nat /\ MinTtl \in Nat /\ 2 * MaxSkew <= MinTtl
    BY Constants, SkewAssumption
<1>2. n \in Nat /\ (Second * r) * n >= full
    BY <1>1, CeilingCovers
<1>3. KeyTtl(v) = Larger(2 * Second * n, MinTtl)
    BY DEF KeyTtl
<1> HIDE DEF r, full, n
<1> DEFINE fill == Second * n
<1>4. fill \in Nat /\ r * fill >= full
    BY <1>1, <1>2
<1>5. KeyTtl(v) = Larger(2 * fill, MinTtl)
    BY <1>1, <1>2, <1>3
<1> HIDE DEF fill
<1>6. KeyTtl(v) \in Nat /\ KeyTtl(v) >= 2 * fill /\ KeyTtl(v) >= 2 * MaxSkew
    BY <1>1, <1>4, <1>5 DEF Larger
<1>7. KeyTtl(v) - MaxSkew \in Nat /\ fill <= KeyTtl(v) - MaxSkew /\ KeyTtl(v) >= MaxSkew
    BY <1>1, <1>4, <1>6
<1>8. r * fill <= r * (KeyTtl(v) - MaxSkew)
    BY <1>1, <1>4, <1>7, ProductMonotone
<1>9. r * (KeyTtl(v) - MaxSkew) >= full
    BY <1>1, <1>4, <1>6, <1>8
<1>10. QED
    BY <1>6, <1>7, <1>9 DEF r, full

\* The steps of the two keys are their own.
LEMMA Steps ==
    /\ \A k \in Keys : SetStep(k) \in {"tenantSet", "smtpSet"}
    /\ \A k \in Keys : SetStep(k) \notin {"tenant", "smtp", "tenantRead", "smtpRead",
                                          "allow"}
    /\ \A k \in Keys : StepAfter(k) \in {"allow", "tenant"} /\ ReadStep(k) \in {"tenantRead", "smtpRead"}
    /\ \A k, l \in Keys : SetStep(k) = SetStep(l) => k = l
    BY DEF Keys, SetStep, StepAfter, ReadStep

\* A step that leaves bucket and clock alone.
LEMMA AccountKept == BucketSound /\ UNCHANGED <<now, account>> => BucketSound'
    BY DEF BucketSound, Allowance, account

LEMMA InitSound == Init => IInv
<1> SUFFICES ASSUME Init PROVE IInv OBVIOUS
<1> USE Constants DEF Init
<1>1. TypeOK
    <2>1. Idle \in Jobs
        BY DEF Idle, Jobs
    <2>2. /\ row \in [Keys -> Versions]
          /\ retired \in [Keys -> [Versions -> 0..MaxTime + 1]]
        BY DEF Versions
    <2>3. cache \in [Processes -> [Keys -> Entries \cup {Nothing}]]
        OBVIOUS
    <2>4. job \in [Goroutines -> {Idle}]
        OBVIOUS
    <2>5. job \in [Goroutines -> Jobs]
        BY <2>1, <2>4
    <2>6. now \in 0..MaxTime /\ granted \in Nat /\ raised \in Nat /\ slowed \in Nat
        OBVIOUS
    <2>7. bucket = Nothing
        OBVIOUS
    <2> HIDE DEF Init
    <2>8. QED
        BY <2>2, <2>3, <2>5, <2>6, <2>7, Zenon DEF TypeOK
<1>2. BucketSound
    BY DEF BucketSound
<1>3. CacheSound
    BY DEF CacheSound
<1>4. JobSound
    BY Steps DEF JobSound, Idle
<1>5. StalenessBounded
    BY DEF StalenessBounded, Idle
<1>6. QED
    BY <1>1, <1>2, <1>3, <1>4, <1>5 DEF IInv

-----------------------------------------------------------------------------
(* The caches.                                                              *)

\* What Use leaves of a goroutine: the version it got, and how long it had been
\* replaced.
LEMMA UseSound ==
    ASSUME IInv, NEW g \in Goroutines, NEW k \in Keys, NEW v \in Versions, Use(g, k, v),
           now - retired[k][v] < Ttl + MaxFetch,
           now' = now, retired' = retired
    PROVE /\ job' \in [Goroutines -> Jobs]
          /\ JobSound' /\ StalenessBounded'
<1> DEFINE late == IF retired[k][v] <= now THEN now - retired[k][v] ELSE 0
<1> DEFINE new == [pc |-> StepAfter(k), version |-> v, readAt |-> 0, late |-> late]
<1>1. job' = [job EXCEPT ![g] = new]
    BY DEF Use
<1>2. /\ job \in [Goroutines -> Jobs]
      /\ now \in Nat /\ retired[k][v] \in Nat
    BY Constants DEF IInv, TypeOK
<1>3. late \in Nat /\ (late = 0 \/ late < Ttl + MaxFetch)
    BY <1>2
<1>4. /\ new.pc \in {"allow", "tenant"} /\ new.version = v
      /\ new.late = late /\ new.readAt = 0
    BY Steps
<1>5. new \in Jobs
    BY <1>3, <1>4, Constants DEF Versions, Jobs
<1> HIDE DEF new, late
<1>6. \A h \in Goroutines : job'[h] = IF h = g THEN new ELSE job[h]
    BY <1>1, <1>2
<1>7. JobSound'
    BY <1>4, <1>6, Steps DEF JobSound, IInv
<1>8. StalenessBounded'
    BY <1>3, <1>4, <1>6 DEF StalenessBounded, IInv
<1>9. QED
    BY <1>1, <1>2, <1>5, <1>7, <1>8

\* A goroutine that goes to a step without a version of its own.
LEMMA IdleSound ==
    ASSUME IInv, NEW g \in Goroutines, NEW new, job' = [job EXCEPT ![g] = new],
           new \in [pc : {"tenant", "tenantRead", "smtp", "smtpRead"},
                    version : 0..MaxVersion, readAt : Nat, late : Nat],
           new.late = 0 \/ new.late < Ttl + MaxFetch,
           now' = now, retired' = retired
    PROVE /\ job' \in [Goroutines -> Jobs]
          /\ JobSound' /\ StalenessBounded'
<1>1. job \in [Goroutines -> Jobs]
    BY DEF IInv, TypeOK
<1>2. \A h \in Goroutines : job'[h] = IF h = g THEN new ELSE job[h]
    BY <1>1
<1>3. /\ new.pc \in {"tenant", "tenantRead", "smtp", "smtpRead"}
      /\ new \in Jobs
    BY DEF Jobs
<1>4. JobSound'
    BY <1>2, <1>3, Steps DEF JobSound, IInv
<1>5. StalenessBounded'
    BY <1>2 DEF StalenessBounded, IInv
<1>6. QED
    BY <1>1, <1>3, <1>4, <1>5

LEMMA GetSound == ASSUME IInv, NEW g \in Goroutines, NEW k \in Keys, Get(g, k) PROVE IInv'
<1> DEFINE p == ProcessOf[g]
<1> DEFINE entry == cache[p][k]
<1>0. /\ p \in Processes
      /\ UNCHANGED <<now, row, retired, account>> /\ job[g].pc = k
    BY Constants DEF Get
<1>1. CASE Fresh(entry) /\ Use(g, k, entry.version) /\ cache' = cache
    <2>1. /\ entry # Nothing /\ entry \in Entries /\ now - entry.storedAt < Ttl
          /\ entry.storedAt <= retired[k][entry.version] + MaxFetch
          /\ entry.version \in Versions
        BY <1>0, <1>1 DEF Fresh, IInv, TypeOK, CacheSound, Entries
    <2>2. now \in Nat /\ retired[k][entry.version] \in Nat /\ entry.storedAt \in Nat
        BY <2>1, Constants DEF IInv, TypeOK, Entries
    <2> HIDE DEF entry
    <2>3. now - retired[k][entry.version] < Ttl + MaxFetch
        BY <2>1, <2>2, Constants
    <2>4. Use(g, k, entry.version)
        BY <1>1, <2>1
    <2>5. /\ job' \in [Goroutines -> Jobs]
          /\ JobSound' /\ StalenessBounded'
        BY <1>0, <2>1, <2>3, <2>4, UseSound
    <2>6. QED
        BY <1>0, <1>1, <2>5, AccountKept DEF IInv, TypeOK, account, CacheSound
<1>2. CASE /\ cache' = [cache EXCEPT ![p][k] = Nothing]
           /\ job' = [job EXCEPT ![g].pc = ReadStep(k)]
    <2> DEFINE new == [job[g] EXCEPT !.pc = ReadStep(k)]
    <2>1. job[g] \in Jobs
        BY DEF IInv, TypeOK
    <2>2. (job[g].late = 0 \/ job[g].late < Ttl + MaxFetch)
        BY <2>1 DEF IInv, JobSound, StalenessBounded
    <2>3. new \in [pc : {"tenant", "tenantRead", "smtp", "smtpRead"},
                   version : 0..MaxVersion, readAt : Nat, late : Nat]
        BY <2>1, <2>2, Steps DEF Jobs
    <2>4. new.late = 0 \/ new.late < Ttl + MaxFetch
        BY <2>1, <2>2
    <2>5. job' = [job EXCEPT ![g] = new]
        BY <1>2
    <2> HIDE DEF new
    <2>6. /\ job' \in [Goroutines -> Jobs]
          /\ JobSound' /\ StalenessBounded'
        BY <1>0, <2>3, <2>4, <2>5, IdleSound
    <2>7. cache \in [Processes -> [Keys -> Entries \cup {Nothing}]]
        BY DEF IInv, TypeOK
    <2>8. /\ cache' \in [Processes -> [Keys -> Entries \cup {Nothing}]]
          /\ \A q \in Processes, l \in Keys : cache'[q][l] \in {cache[q][l], Nothing}
        BY <1>0, <1>2, <2>7
    <2>9. CacheSound'
        BY <1>0, <2>8 DEF CacheSound, IInv
    <2>10. QED
        BY <1>0, <2>6, <2>8, <2>9, AccountKept DEF IInv, TypeOK, account
<1>3. QED
    BY <1>1, <1>2 DEF Get, Entry

LEMMA ReadRowSound == ASSUME IInv, NEW g \in Goroutines, NEW k \in Keys, ReadRow(g, k) PROVE IInv'
<1> DEFINE new == [pc |-> SetStep(k), version |-> row[k], readAt |-> now, late |-> 0]
<1>0. /\ UNCHANGED <<now, row, retired, cache, account>>
      /\ job' = [job EXCEPT ![g] = new] /\ job \in [Goroutines -> Jobs]
    BY DEF ReadRow, IInv, TypeOK
<1>1. /\ row[k] \in Versions /\ now \in Nat /\ now <= MaxTime
      /\ retired[k][row[k]] = MaxTime + 1
    <2>1. now \in Nat /\ now <= MaxTime
        BY Constants DEF IInv, TypeOK
    <2>2. row[k] \in Versions /\ row[k] >= row[k]
        BY Constants DEF IInv, TypeOK, Versions
    <2>3. QED
        BY <2>1, <2>2 DEF IInv, CacheSound
<1>2. /\ new \in Jobs /\ new.pc = SetStep(k) /\ new.version = row[k]
      /\ new.readAt = now /\ new.late = 0
    BY <1>1, Steps, Constants DEF Versions, Jobs
<1> HIDE DEF new
<1>3. \A h \in Goroutines : job'[h] = IF h = g THEN new ELSE job[h]
    BY <1>0
<1>4. JobSound'
    <2>1. ASSUME NEW h \in Goroutines, h # g
          PROVE  /\ job'[h].pc = "allow" => job'[h].version \in Versions
                 /\ \A l \in Keys : job'[h].pc = SetStep(l) =>
                      /\ job'[h].version \in Versions
                      /\ job'[h].readAt <= now /\ now <= job'[h].readAt + MaxFetch
                      /\ job'[h].readAt <= retired[l][job'[h].version]
        BY <1>3, <2>1 DEF IInv, JobSound
    <2>2. /\ new.pc = "allow" => new.version \in Versions
          /\ \A l \in Keys : new.pc = SetStep(l) =>
               /\ new.version \in Versions
               /\ new.readAt <= now /\ now <= new.readAt + MaxFetch
               /\ new.readAt <= retired[l][new.version]
        BY <1>1, <1>2, Steps, Constants
    <2>3. QED
        BY <1>0, <1>3, <2>1, <2>2 DEF JobSound
<1>5. StalenessBounded'
    BY <1>2, <1>3 DEF StalenessBounded, IInv
<1>6. QED
    BY <1>0, <1>2, <1>4, <1>5, AccountKept DEF IInv, TypeOK, account, CacheSound

LEMMA SetSound == ASSUME IInv, NEW g \in Goroutines, NEW k \in Keys, Set(g, k) PROVE IInv'
<1> DEFINE p == ProcessOf[g]
<1> DEFINE v == job[g].version
<1> DEFINE entry == [version |-> v, storedAt |-> now]
<1>0. /\ p \in Processes
      /\ UNCHANGED <<now, row, retired, account>>
      /\ cache' = [cache EXCEPT ![p][k] = entry] /\ Use(g, k, v)
    BY Constants DEF Set
<1>1. /\ v \in Versions /\ job[g].readAt <= now /\ now <= job[g].readAt + MaxFetch
      /\ job[g].readAt <= retired[k][v] /\ job[g].readAt \in Nat
    BY DEF Set, IInv, JobSound, TypeOK, Jobs
<1>2. now \in Nat /\ retired[k][v] \in Nat
    BY <1>1, Constants DEF IInv, TypeOK
<1> HIDE DEF v
<1>3. now - retired[k][v] < Ttl + MaxFetch /\ now <= retired[k][v] + MaxFetch
    BY <1>1, <1>2, Constants
<1>4. /\ job' \in [Goroutines -> Jobs]
      /\ JobSound' /\ StalenessBounded'
    BY <1>0, <1>1, <1>3, UseSound
<1>5. entry \in Entries /\ entry.version = v /\ entry.storedAt = now
    BY <1>1, <1>2 DEF Entries
<1> HIDE DEF entry
<1>6. cache \in [Processes -> [Keys -> Entries \cup {Nothing}]]
    BY DEF IInv, TypeOK
<1>7. /\ cache' \in [Processes -> [Keys -> Entries \cup {Nothing}]]
      /\ \A q \in Processes, l \in Keys :
            cache'[q][l] = IF q = p /\ l = k THEN entry ELSE cache[q][l]
    BY <1>0, <1>5, <1>6
<1>8. CacheSound'
    BY <1>0, <1>3, <1>5, <1>7, <1>2 DEF CacheSound, IInv
<1>9. QED
    BY <1>0, <1>4, <1>7, <1>8, AccountKept DEF IInv, TypeOK, account

-----------------------------------------------------------------------------
(* The bucket.                                                              *)

LEMMA AllowanceRange ==
    ASSUME NEW a \in Nat, NEW b \in Nat
    PROVE  MaxBurst * Token * (1 + a) + MaxRate * MaxSkew * b \in Nat
<1>1. MaxBurst \in Nat /\ Token \in Nat /\ MaxRate \in Nat /\ MaxSkew \in Nat /\ 1 + a \in Nat
    BY Constants
<1>2. MaxBurst * Token \in Nat /\ MaxRate * MaxSkew \in Nat
    BY <1>1, ProductNatural
<1>3. MaxBurst * Token * (1 + a) \in Nat /\ MaxRate * MaxSkew * b \in Nat
    BY <1>1, <1>2, ProductNatural
<1>4. QED
    BY <1>3

LEMMA AllowanceNatural == ASSUME TypeOK PROVE Allowance \in Nat
<1>1. raised \in Nat /\ slowed \in Nat
    BY DEF TypeOK
<1>2. QED
    BY <1>1, AllowanceRange DEF Allowance

\* What a call adds to the allowance.
LEMMA AllowanceGrows ==
    ASSUME TypeOK
    PROVE  /\ raised' = raised /\ slowed' = slowed => Allowance' = Allowance
           /\ raised' = raised + 1 /\ slowed' = slowed => Allowance' = Allowance + MaxBurst * Token
           /\ raised' = raised /\ slowed' = slowed + 1 => Allowance' = Allowance + MaxRate * MaxSkew
<1>1. /\ MaxBurst \in Nat /\ Token \in Nat /\ raised \in Nat
      /\ MaxRate \in Nat /\ MaxSkew \in Nat /\ slowed \in Nat
    BY Constants DEF TypeOK
<1>2. MaxBurst * Token \in Nat /\ MaxRate * MaxSkew \in Nat
    BY <1>1, ProductNatural
<1>3. ASSUME NEW a \in Nat, NEW n \in Nat PROVE a * (n + 1) = a * n + a
    OBVIOUS
<1>4. /\ MaxBurst * Token * (1 + (raised + 1)) = MaxBurst * Token * (1 + raised) + MaxBurst * Token
      /\ MaxRate * MaxSkew * (slowed + 1) = MaxRate * MaxSkew * slowed + MaxRate * MaxSkew
    BY <1>1, <1>2, <1>3
<1>5. MaxBurst * Token * (1 + raised) \in Nat /\ MaxRate * MaxSkew * slowed \in Nat
    BY <1>1, <1>2, ProductNatural
<1>6. QED
    BY <1>2, <1>4, <1>5 DEF Allowance

\* The gain of a call, between the time it hands over and that of the call before, split at
\* the moments of the two calls.
LEMMA GainSplit ==
    ASSUME NEW q \in Nat, NEW touched \in Nat, NEW last \in Nat, NEW stamp \in Nat, NEW n \in Nat
    PROVE  q * (stamp - last) = q * (stamp - n) + q * (n - touched) - q * (last - touched)
    OBVIOUS

\* The account before the token is taken: t tokens are there. A rate lower than that of the
\* call before takes less back than was gained, by at most what the times are apart.
LEMMA KeptSound ==
    ASSUME TypeOK, BucketSound, NEW v \in Versions, NEW stamp \in Stamps, RunScript(v, stamp), Kept
    PROVE  /\ granted * Token + Gained(v, stamp) <= Allowance' + MaxRate * now + Rate[v] * (stamp - now)
           /\ granted * Token <= Allowance' + MaxRate * (now + MaxSkew)
           /\ Gained(v, stamp) \in Int
<1> DEFINE r == Rate[bucket.by]
           q == Rate[v]
           old == bucket.touched
           t == Gained(v, stamp)
           spent == granted * Token
           full == Token * Burst[v]
<1>1. /\ now \in Nat /\ stamp \in Nat /\ old \in Nat /\ bucket.last \in Nat /\ bucket.tokens \in Int
      /\ old <= now /\ old <= bucket.last /\ bucket.last <= old + MaxSkew /\ now <= stamp
      /\ q \in Nat /\ r \in Nat /\ q <= MaxRate /\ r <= MaxRate /\ MaxRate \in Nat /\ MaxSkew \in Nat
    BY Constants DEF TypeOK, BucketSound, Kept, Buckets, Stamps
<1>2. /\ spent + bucket.tokens <= Allowance + MaxRate * old + r * (bucket.last - old)
      /\ spent <= Allowance + MaxRate * (old + MaxSkew)
    BY DEF BucketSound, Kept
<1>3. spent \in Nat /\ Allowance \in Nat /\ full \in Nat
    BY AllowanceNatural, ProductNatural, Constants DEF TypeOK
<1>4. t = Least(full, bucket.tokens + q * (stamp - bucket.last))
    BY DEF Gained
<1>5. /\ raised' = raised
      /\ slowed' = IF q < r THEN slowed + 1 ELSE slowed
    BY DEF RunScript
<1> HIDE DEF r, q, t, spent, full
<1>6. t \in Int /\ t <= bucket.tokens + q * (stamp - bucket.last)
    BY <1>1, <1>3, <1>4 DEF Least
<1>7. q * (stamp - bucket.last) = q * (stamp - now) + q * (now - old) - q * (bucket.last - old)
    BY <1>1, GainSplit
<1>8. q * (now - old) <= MaxRate * (now - old) /\ MaxRate * (now - old) = MaxRate * now - MaxRate * old
    BY <1>1, ProductMonotone
<1>9. /\ Allowance' \in Nat /\ Allowance <= Allowance'
      /\ r * (bucket.last - old) - q * (bucket.last - old) <= Allowance' - Allowance
    <2>1. CASE q < r
        <3>1. Allowance' = Allowance + MaxRate * MaxSkew /\ MaxRate * MaxSkew \in Nat
            BY <1>1, <1>5, <2>1, AllowanceGrows, ProductNatural
        <3>2. r * (bucket.last - old) <= r * MaxSkew /\ r * MaxSkew <= MaxRate * MaxSkew
            BY <1>1, ProductMonotone
        <3>3. q * (bucket.last - old) \in Nat
            BY <1>1, ProductNatural
        <3>4. r * (bucket.last - old) \in Nat /\ r * MaxSkew \in Nat
            BY <1>1, ProductNatural
        <3>5. QED
            BY <1>3, <3>1, <3>2, <3>3, <3>4
    <2>2. CASE r <= q
        <3>1. Allowance' = Allowance
            BY <1>1, <1>5, <2>2, AllowanceGrows
        <3>2. r * (bucket.last - old) <= q * (bucket.last - old)
            BY <1>1, <2>2, ProductMonotone
        <3>3. q * (bucket.last - old) \in Nat /\ r * (bucket.last - old) \in Nat
            BY <1>1, ProductNatural
        <3>4. QED
            BY <1>3, <3>1, <3>2, <3>3
    <2>3. QED
        BY <1>1, <2>1, <2>2
<1>10. spent + t <= Allowance' + MaxRate * now + q * (stamp - now)
    <2> DEFINE a == q * (stamp - bucket.last)
               b == q * (stamp - now)
               c == q * (now - old)
               d == q * (bucket.last - old)
               e == r * (bucket.last - old)
               x == MaxRate * old
               y == MaxRate * now
               more == Allowance'
    <2>1. /\ a \in Int /\ b \in Int /\ c \in Int /\ d \in Int /\ e \in Int /\ x \in Int /\ y \in Int
          /\ more \in Nat /\ Allowance \in Nat /\ spent \in Nat /\ t \in Int /\ bucket.tokens \in Int
        BY <1>1, <1>3, <1>6, <1>9
    <2>2. /\ spent + bucket.tokens <= Allowance + x + e /\ t <= bucket.tokens + a
          /\ a = b + c - d /\ c <= y - x /\ e - d <= more - Allowance
        BY <1>2, <1>6, <1>7, <1>8, <1>9
    <2> HIDE DEF a, b, c, d, e, x, y, more
    <2>3. spent + t <= more + y + b
        BY <2>1, <2>2
    <2>4. QED
        BY <2>3 DEF b, y, more
<1>11. spent <= Allowance' + MaxRate * (now + MaxSkew)
    <2> DEFINE x == MaxRate * (old + MaxSkew)
               z == MaxRate * (now + MaxSkew)
               more == Allowance'
    <2>1. x \in Nat /\ z \in Nat /\ x <= z
        BY <1>1, ProductMonotone, ProductNatural
    <2>2. spent <= Allowance + x /\ Allowance <= more /\ more \in Nat
        BY <1>2, <1>9
    <2> HIDE DEF x, z, more
    <2>3. spent <= more + z
        BY <1>3, <2>1, <2>2
    <2>4. QED
        BY <2>3 DEF z, more
<1>12. QED
    BY <1>6, <1>10, <1>11 DEF q, t, spent

\* A bucket filled anew: when EXPIRE has passed, the burst it was set for was gained in the
\* meantime; a larger burst is counted.
LEMMA FilledSound ==
    ASSUME TypeOK, BucketSound, NEW v \in Versions, NEW stamp \in Stamps, RunScript(v, stamp), ~Kept
    PROVE  /\ granted * Token + Gained(v, stamp) <= Allowance' + MaxRate * now + Rate[v] * (stamp - now)
           /\ granted * Token <= Allowance' + MaxRate * (now + MaxSkew)
           /\ Gained(v, stamp) \in Int
<1> DEFINE full == Token * Burst[v]
           spent == granted * Token
           most == MaxBurst * Token
           gain == Rate[v] * (stamp - now)
<1>1. /\ now \in Nat /\ stamp \in Nat /\ now <= stamp /\ MaxRate \in Nat /\ MaxSkew \in Nat
      /\ Rate[v] \in Nat /\ Burst[v] \in Nat /\ Burst[v] <= MaxBurst /\ MaxBurst \in Nat /\ Token \in Nat
    BY Constants DEF TypeOK, Stamps
<1>2. /\ full \in Nat /\ spent \in Nat /\ most \in Nat /\ gain \in Nat /\ full <= most
      /\ MaxRate * now \in Nat /\ MaxRate * (now + MaxSkew) \in Nat
    <2>1. stamp - now \in Nat /\ now + MaxSkew \in Nat /\ granted \in Nat
        BY <1>1 DEF TypeOK
    <2>2. full <= Token * MaxBurst /\ Token * MaxBurst = most
        BY <1>1, ProductMonotone
    <2>3. QED
        BY <1>1, <2>1, <2>2, ProductNatural
<1>3. Gained(v, stamp) = full /\ slowed' = slowed
    BY DEF Gained, RunScript
<1>4. Allowance \in Nat
    BY AllowanceNatural
<1>5. CASE bucket = Nothing
    <2>1. spent = 0
        BY <1>5, <1>1 DEF BucketSound
    <2>2. Allowance' = Allowance
        BY <1>3, <1>5, AllowanceGrows DEF RunScript
    <2>3. Allowance >= most
        <3>1. raised \in Nat /\ slowed \in Nat
            BY DEF TypeOK
        <3>2. most * 1 <= most * (1 + raised) /\ most * 1 = most
            BY <1>2, <3>1, ProductMonotone
        <3>3. MaxRate * MaxSkew * slowed \in Nat /\ most * (1 + raised) \in Nat
            BY <1>1, <1>2, <3>1, ProductNatural
        <3> HIDE DEF most
        <3>4. QED
            BY <1>2, <3>2, <3>3 DEF Allowance, most
    <2> HIDE DEF full, spent, most, gain
    <2>4. spent + full <= Allowance' + MaxRate * now + gain /\ spent <= Allowance' + MaxRate * (now + MaxSkew)
        BY <1>2, <1>4, <2>1, <2>2, <2>3
    <2>5. QED
        BY <1>2, <1>3, <2>4 DEF full, spent, gain
<1>6. CASE bucket # Nothing
    <2> DEFINE by == bucket.by
               old == bucket.touched
               ttl == KeyTtl(by)
    <2>1. by \in Versions /\ old \in Nat /\ ttl \in Nat /\ now >= old + ttl
        BY <1>1, <1>6, KeyTtlCovers DEF TypeOK, Buckets, Kept
    <2>2. spent <= Allowance + MaxRate * (old + MaxSkew)
        BY <1>6 DEF BucketSound
    <2>3. /\ ttl >= MaxSkew /\ Rate[by] * (ttl - MaxSkew) >= Token * Burst[by]
          /\ Rate[by] \in Nat /\ Rate[by] <= MaxRate /\ Burst[by] \in Nat
        BY <2>1, KeyTtlCovers, Constants
    <2> HIDE DEF ttl, old, by
    <2> DEFINE x == MaxRate * (old + MaxSkew)
               y == MaxRate * (now - (old + MaxSkew))
    <2>4. now - (old + MaxSkew) \in Nat /\ ttl - MaxSkew \in Nat /\ ttl - MaxSkew <= now - (old + MaxSkew)
        BY <1>1, <2>1, <2>3
    <2>5. x \in Nat /\ y \in Nat /\ x + y = MaxRate * now
        BY <1>1, <2>1, <2>4, ProductNatural
    <2>6. Token * Burst[by] <= y
        <3>1. Rate[by] * (ttl - MaxSkew) <= MaxRate * (ttl - MaxSkew)
            BY <1>1, <2>3, <2>4, ProductMonotone
        <3>2. MaxRate * (ttl - MaxSkew) <= y
            BY <1>1, <2>4, ProductMonotone
        <3>3. /\ Rate[by] * (ttl - MaxSkew) \in Nat /\ MaxRate * (ttl - MaxSkew) \in Nat
              /\ Token * Burst[by] \in Nat
            BY <1>1, <2>3, <2>4, ProductNatural
        <3> HIDE DEF y
        <3>4. QED
            BY <2>3, <2>5, <3>1, <3>2, <3>3
    <2>7. Allowance' \in Nat /\ Allowance <= Allowance' /\ full <= y + (Allowance' - Allowance)
        <3>1. CASE Burst[v] > Burst[by]
            <4>1. Allowance' = Allowance + most
                BY <1>3, <1>6, <3>1, AllowanceGrows DEF RunScript, by
            <4> HIDE DEF full, most, y
            <4>2. QED
                BY <1>2, <1>4, <2>5, <4>1
        <3>2. CASE Burst[v] <= Burst[by]
            <4>1. ~(Burst[v] > Burst[by])
                BY <1>1, <2>3, <3>2
            <4>2. Allowance' = Allowance
                BY <1>3, <4>1, AllowanceGrows DEF RunScript, by
            <4>3. full <= Token * Burst[by] /\ Token * Burst[by] \in Nat
                BY <1>1, <2>3, <3>2, ProductMonotone, ProductNatural
            <4> HIDE DEF full, y
            <4>4. QED
                BY <1>2, <1>4, <2>5, <2>6, <4>2, <4>3
        <3>3. QED
            BY <1>1, <2>3, <3>1, <3>2
    <2> DEFINE z == MaxRate * (now + MaxSkew)
    <2>8. x <= z /\ z \in Nat
        BY <1>1, <2>1, <2>4, ProductMonotone, ProductNatural
    <2>9. spent <= Allowance + x
        BY <2>2 DEF old
    <2> HIDE DEF full, spent, most, gain, x, y, z
    <2>10. spent + full <= Allowance' + (x + y) + gain
        <3> DEFINE more == Allowance'
        <3>1. more \in Nat /\ Allowance <= more /\ full <= y + (more - Allowance)
            BY <2>7
        <3> HIDE DEF more
        <3>2. spent + full <= more + (x + y) + gain
            BY <1>2, <1>4, <2>5, <2>9, <3>1
        <3>3. QED
            BY <3>2 DEF more
    <2>11. spent <= Allowance' + z
        <3> DEFINE more == Allowance'
        <3>1. more \in Nat /\ Allowance <= more
            BY <2>7
        <3> HIDE DEF more
        <3>2. spent <= more + z
            BY <1>2, <1>4, <2>5, <2>8, <2>9, <3>1
        <3>3. QED
            BY <3>2 DEF more
    <2>12. QED
        BY <1>2, <1>3, <2>5, <2>10, <2>11 DEF full, spent, gain, z
<1>7. QED
    BY <1>5, <1>6

\* The token that is taken was there: what is left is a debt only when none was given.
LEMMA ScriptSound ==
    ASSUME TypeOK, BucketSound, NEW v \in Versions, NEW stamp \in Stamps, RunScript(v, stamp), now' = now
    PROVE  /\ BucketSound' /\ bucket' \in Buckets
           /\ granted' \in Nat /\ raised' \in Nat /\ slowed' \in Nat
<1> DEFINE t == Gained(v, stamp)
           left == IF t >= Token THEN t - Token ELSE t
           gain == Rate[v] * (stamp - now)
           x == MaxRate * now
           z == MaxRate * (now + MaxSkew)
<1>1. /\ granted * Token + t <= Allowance' + x + gain
      /\ granted * Token <= Allowance' + z /\ t \in Int
    BY KeptSound, FilledSound
<1>2. /\ now \in Nat /\ stamp \in Nat /\ now <= stamp /\ stamp <= now + MaxSkew
      /\ MaxRate \in Nat /\ MaxSkew \in Nat /\ Rate[v] \in Nat /\ Rate[v] <= MaxRate
      /\ Token \in Nat /\ granted \in Nat /\ raised \in Nat /\ slowed \in Nat
    BY Constants DEF TypeOK, Stamps
<1>3. /\ bucket' = [tokens |-> left, last |-> stamp, touched |-> now, by |-> v]
      /\ granted' = IF t >= Token THEN granted + 1 ELSE granted
      /\ raised' \in {raised, raised + 1} /\ slowed' \in {slowed, slowed + 1}
    BY DEF RunScript
<1> HIDE DEF t
<1>4. left \in Int /\ granted' \in Nat /\ raised' \in Nat /\ slowed' \in Nat
    BY <1>1, <1>2, <1>3
<1>5. Allowance' \in Nat
    BY <1>4, AllowanceRange DEF Allowance
<1>6. x \in Nat /\ z \in Nat /\ gain \in Nat /\ x + gain <= z
    <2>1. gain <= Rate[v] * MaxSkew /\ Rate[v] * MaxSkew <= MaxRate * MaxSkew
        BY <1>2, ProductMonotone
    <2>2. x \in Nat /\ gain \in Nat /\ Rate[v] * MaxSkew \in Nat /\ MaxRate * MaxSkew \in Nat
        BY <1>2, ProductNatural
    <2>3. z = x + MaxRate * MaxSkew
        BY <1>2
    <2> HIDE DEF x, z, gain
    <2>4. QED
        BY <2>1, <2>2, <2>3
<1>7. (granted + 1) * Token = granted * Token + Token /\ granted * Token \in Nat
    BY <1>2, ProductNatural
<1>8. granted' * Token + left <= Allowance' + x + gain /\ granted' * Token <= Allowance' + z
    <2> HIDE DEF x, z, gain
    <2>1. CASE t >= Token
        <3>1. granted' * Token = granted * Token + Token /\ left = t - Token
            BY <1>3, <1>7, <2>1
        <3>2. granted' * Token + left = granted * Token + t /\ granted' * Token + Token <= granted * Token + t + Token
            BY <1>1, <1>2, <1>7, <2>1, <3>1
        <3>3. granted' * Token <= granted * Token + t
            BY <1>1, <1>2, <1>7, <2>1, <3>1
        <3>4. granted' * Token \in Nat /\ left \in Int
            BY <1>2, <1>4, ProductNatural
        <3>5. QED
            BY <1>1, <1>5, <1>6, <1>7, <3>2, <3>3, <3>4
    <2>2. CASE ~(t >= Token)
        <3>1. granted' * Token = granted * Token /\ left = t
            BY <1>3, <2>2
        <3>2. QED
            BY <1>1, <3>1
    <2>3. QED
        BY <2>1, <2>2
<1>9. /\ bucket' \in Buckets /\ bucket'.tokens = left /\ bucket'.last = stamp
      /\ bucket'.touched = now /\ bucket'.by = v
    BY <1>2, <1>3, <1>4 DEF Buckets
<1> HIDE DEF left
<1>10. BucketSound'
    <2>1. bucket' # Nothing
        BY <1>9, NothingAssumption
    <2>2. bucket'.touched <= now' /\ bucket'.touched <= bucket'.last /\ bucket'.last <= bucket'.touched + MaxSkew
        BY <1>2, <1>9
    <2>3. granted' * Token + bucket'.tokens <=
             Allowance' + MaxRate * bucket'.touched + Rate[bucket'.by] * (bucket'.last - bucket'.touched)
        BY <1>8, <1>9
    <2>4. granted' * Token <= Allowance' + MaxRate * (bucket'.touched + MaxSkew)
        BY <1>8, <1>9
    <2>5. QED
        BY <2>1, <2>2, <2>3, <2>4 DEF BucketSound
<1>11. QED
    BY <1>4, <1>9, <1>10

\* A goroutine that leaves the limiter has no version of its own.
LEMMA LeaveSound ==
    ASSUME IInv, NEW g \in Goroutines, job' = [job EXCEPT ![g] = Idle] \/ job' = [job EXCEPT ![g] = [Idle EXCEPT !.pc = "smtp"]],
           UNCHANGED <<now, row, retired, cache>>
    PROVE  job' \in [Goroutines -> Jobs] /\ JobSound' /\ StalenessBounded'
<1>1. ASSUME NEW pc \in {"tenant", "smtp"}
      PROVE  /\ [Idle EXCEPT !.pc = pc] \in [pc : {"tenant", "tenantRead", "smtp", "smtpRead"},
                                             version : 0..MaxVersion, readAt : Nat, late : Nat]
             /\ [Idle EXCEPT !.pc = pc].late = 0
    BY Constants DEF Idle
<1>2. Idle = [Idle EXCEPT !.pc = "tenant"]
    BY DEF Idle
<1>3. PICK pc \in {"tenant", "smtp"} : job' = [job EXCEPT ![g] = [Idle EXCEPT !.pc = pc]]
    BY <1>2
<1>4. QED
    BY <1>1, <1>3, IdleSound

LEMMA AllowSound ==
    ASSUME IInv, NEW g \in Goroutines, Allow(g) \/ AllowFails(g)
    PROVE  IInv'
<1>1. /\ UNCHANGED <<now, row, retired, cache>> /\ job[g].pc = "allow"
      /\ job' = job \/ job' = [job EXCEPT ![g] = Idle] \/ job' = [job EXCEPT ![g] = [Idle EXCEPT !.pc = "smtp"]]
      /\ (\E stamp \in Stamps : RunScript(job[g].version, stamp)) \/ UNCHANGED account
    BY DEF Allow, AllowFails
<1>2. job[g].version \in Versions
    BY <1>1 DEF IInv, JobSound
<1>3. /\ BucketSound' /\ (bucket' = Nothing \/ bucket' \in Buckets)
      /\ granted' \in Nat /\ raised' \in Nat /\ slowed' \in Nat
    <2>1. CASE UNCHANGED account
        BY <1>1, <2>1, AccountKept DEF account, IInv, TypeOK
    <2>2. ASSUME NEW stamp \in Stamps, RunScript(job[g].version, stamp)
          PROVE  /\ BucketSound' /\ bucket' \in Buckets
                 /\ granted' \in Nat /\ raised' \in Nat /\ slowed' \in Nat
        BY <1>1, <1>2, <2>2, ScriptSound DEF IInv
    <2>3. QED
        BY <1>1, <2>1, <2>2
<1>4. job' \in [Goroutines -> Jobs] /\ JobSound' /\ StalenessBounded'
    <2>1. CASE job' = job
        BY <1>1, <2>1 DEF IInv, TypeOK, JobSound, StalenessBounded
    <2>2. QED
        BY <1>1, <2>1, LeaveSound
<1>5. QED
    BY <1>1, <1>3, <1>4 DEF IInv, TypeOK, CacheSound

LEMMA GiveUpSound == ASSUME IInv, NEW g \in Goroutines, GiveUp(g) PROVE IInv'
<1>1. /\ UNCHANGED <<now, row, retired, cache, account>>
      /\ job' = [job EXCEPT ![g] = Idle]
    BY DEF GiveUp
<1>2. job' \in [Goroutines -> Jobs] /\ JobSound' /\ StalenessBounded'
    BY <1>1, LeaveSound
<1>3. BucketSound'
    BY <1>1, AccountKept DEF IInv
<1>4. QED
    BY <1>1, <1>2, <1>3 DEF account, IInv, TypeOK, CacheSound

-----------------------------------------------------------------------------
(* The rows and the clock.                                                  *)

LEMMA UpdateRowSound == ASSUME IInv, NEW k \in Keys, UpdateRow(k) PROVE IInv'
<1> DEFINE old == row[k]
<1>0. /\ UNCHANGED <<now, cache, job, account>>
      /\ row["tenant"] + row["smtp"] <= MaxVersion
      /\ row' = [row EXCEPT ![k] = old + 1]
      /\ retired' = [retired EXCEPT ![k][old] = now]
    BY DEF UpdateRow
<1>1. /\ row \in [Keys -> Versions] /\ retired \in [Keys -> [Versions -> 0..MaxTime + 1]]
      /\ now \in 0..MaxTime /\ MaxTime \in Nat /\ MaxFetch \in Nat /\ MaxVersion \in Nat
    BY Constants DEF IInv, TypeOK
<1>2. old \in Versions /\ old + 1 \in Versions
    BY <1>0, <1>1 DEF Keys, Versions
<1> HIDE DEF old
<1>3. /\ row' \in [Keys -> Versions]
      /\ \A l \in Keys : row'[l] = IF l = k THEN old + 1 ELSE row[l]
    BY <1>0, <1>1, <1>2
<1>4. /\ retired' \in [Keys -> [Versions -> 0..MaxTime + 1]]
      /\ \A l \in Keys, v \in Versions :
            retired'[l][v] = IF l = k /\ v = old THEN now ELSE retired[l][v]
    BY <1>0, <1>1, <1>2
<1>5. CacheSound'
    <2>1. \A l \in Keys : \A v \in Versions : v >= row'[l] => retired'[l][v] = MaxTime + 1
        <3> SUFFICES ASSUME NEW l \in Keys, NEW v \in Versions, v >= row'[l]
                     PROVE  retired'[l][v] = MaxTime + 1
            OBVIOUS
        <3>1. v >= row[l] /\ ~(l = k /\ v = old)
            BY <1>2, <1>3 DEF Versions, old
        <3>2. QED
            BY <3>1, <1>4 DEF IInv, CacheSound
    <2>2. ASSUME NEW p \in Processes, NEW l \in Keys, cache'[p][l] # Nothing
          PROVE  /\ cache'[p][l].storedAt <= now'
                 /\ cache'[p][l].storedAt <= retired'[l][cache'[p][l].version] + MaxFetch
        <3>1. cache[p][l] \in Entries /\ cache' = cache
            BY <1>0, <2>2 DEF IInv, TypeOK
        <3>2. cache[p][l].version \in Versions /\ cache[p][l].storedAt \in Nat
            BY <3>1 DEF Entries
        <3>3. /\ cache[p][l].storedAt <= now
              /\ cache[p][l].storedAt <= retired[l][cache[p][l].version] + MaxFetch
            BY <1>0, <2>2 DEF IInv, CacheSound
        <3>4. QED
            BY <1>0, <1>1, <1>4, <3>1, <3>2, <3>3
    <2>3. QED
        BY <2>1, <2>2 DEF CacheSound
<1>6. JobSound'
    <2> SUFFICES ASSUME NEW g \in Goroutines
                 PROVE  /\ job[g].pc = "allow" => job[g].version \in Versions
                        /\ \A l \in Keys : job[g].pc = SetStep(l) =>
                             /\ job[g].version \in Versions
                             /\ job[g].readAt <= now /\ now <= job[g].readAt + MaxFetch
                             /\ job[g].readAt <= retired'[l][job[g].version]
        BY <1>0 DEF JobSound
    <2>1. job[g].readAt \in Nat
        BY DEF IInv, TypeOK, Jobs
    <2>2. QED
        BY <2>1, <1>1, <1>4 DEF IInv, JobSound
<1>7. QED
    BY <1>0, <1>3, <1>4, <1>5, <1>6, AccountKept
    DEF IInv, TypeOK, account, StalenessBounded

LEMMA TickSound == ASSUME IInv, Tick PROVE IInv'
<1>0. /\ UNCHANGED <<row, retired, cache, job, account>>
      /\ now < MaxTime /\ now' = now + 1
      /\ \A g \in Goroutines : Fetching(g) => now < job[g].readAt + MaxFetch
    BY DEF Tick
<1>1. now \in 0..MaxTime /\ MaxTime \in Nat /\ MaxFetch \in Nat /\ now' \in 0..MaxTime
    BY <1>0, Constants DEF IInv, TypeOK
<1>2. BucketSound'
    <2>1. CASE bucket = Nothing
        BY <2>1, <1>0 DEF IInv, BucketSound, account
    <2>2. CASE bucket # Nothing
        <3>1. bucket.touched \in Nat
            BY <2>2 DEF IInv, TypeOK, Buckets
        <3>2. QED
            BY <2>2, <3>1, <1>0, <1>1 DEF IInv, BucketSound, Allowance, account
    <2>3. QED
        BY <2>1, <2>2
<1>3. CacheSound'
    <2>1. ASSUME NEW p \in Processes, NEW k \in Keys, cache[p][k] # Nothing
          PROVE  cache[p][k].storedAt <= now + 1
        <3>1. cache[p][k].storedAt \in Nat /\ cache[p][k].storedAt <= now
            BY <2>1 DEF IInv, TypeOK, CacheSound, Entries
        <3>2. QED
            BY <3>1, <1>1
    <2>2. QED
        BY <2>1, <1>0 DEF IInv, CacheSound
<1>4. JobSound'
    <2> SUFFICES ASSUME NEW g \in Goroutines, NEW k \in Keys, job[g].pc = SetStep(k)
                 PROVE  job[g].readAt <= now + 1 /\ now + 1 <= job[g].readAt + MaxFetch
        BY <1>0 DEF IInv, JobSound
    <2>1. job[g].readAt \in Nat /\ job[g].readAt <= now
        BY DEF IInv, TypeOK, JobSound, Jobs
    <2>2. now < job[g].readAt + MaxFetch
        BY <1>0 DEF Fetching
    <2>3. QED
        BY <2>1, <2>2, <1>1
<1>5. QED
    BY <1>0, <1>1, <1>2, <1>3, <1>4
    DEF IInv, TypeOK, account, StalenessBounded

-----------------------------------------------------------------------------
LEMMA StepSound == IInv /\ [Next]_vars => IInv'
<1> SUFFICES ASSUME IInv, [Next]_vars PROVE IInv' OBVIOUS
<1>1. ASSUME NEW g \in Goroutines, GoroutineStep(g) PROVE IInv'
    BY <1>1, GetSound, ReadRowSound, SetSound, GiveUpSound, AllowSound DEF GoroutineStep
<1>2. ASSUME NEW k \in Keys, UpdateRow(k) PROVE IInv'
    BY <1>2, UpdateRowSound
<1>3. CASE Tick
    BY <1>3, TickSound
<1>4. CASE UNCHANGED vars
    BY <1>4, AccountKept DEF vars, account, IInv, TypeOK, CacheSound, JobSound, StalenessBounded
<1>5. QED
    BY <1>1, <1>2, <1>3, <1>4 DEF Next

\* The invariant of the bucket, the caches and the goroutines that use them: what
\* rate_limiter.go and cache.go keep between any two calls.
THEOREM InductiveInvariant == Spec => []IInv
<1>1. QED
    BY InitSound, StepSound, PTL DEF Spec

\* A tenant never gets more tokens than its largest burst and its highest rate allow, but
\* for the two exceptions that WithinQuota counts (the script of rate_limiter.go).
THEOREM QuotaIsKept == Spec => []WithinQuota
<1>1. IInv => WithinQuota
    <2> SUFFICES ASSUME IInv PROVE WithinQuota OBVIOUS
    <2> DEFINE late == MaxRate * (now + MaxSkew)
    <2>1. /\ now \in Nat /\ granted \in Nat /\ slowed \in Nat /\ MaxRate \in Nat /\ MaxSkew \in Nat
          /\ Token \in Nat /\ granted * Token \in Nat /\ Allowance \in Nat /\ late \in Nat
        BY Constants, AllowanceNatural, ProductNatural DEF IInv, TypeOK
    <2>2. granted * Token <= Allowance + late
        <3>1. CASE bucket = Nothing
            <4>1. granted * Token = 0
                BY <2>1, <3>1 DEF IInv, BucketSound
            <4> HIDE DEF late
            <4>2. QED
                BY <2>1, <4>1
        <3>2. CASE bucket # Nothing
            <4>1. /\ bucket.touched \in Nat /\ bucket.touched <= now
                  /\ granted * Token <= Allowance + MaxRate * (bucket.touched + MaxSkew)
                BY <3>2 DEF IInv, TypeOK, Buckets, BucketSound
            <4>2. MaxRate * (bucket.touched + MaxSkew) <= late /\ MaxRate * (bucket.touched + MaxSkew) \in Nat
                BY <2>1, <4>1, ProductMonotone, ProductNatural
            <4> HIDE DEF late
            <4>3. QED
                BY <2>1, <4>1, <4>2
        <3>3. QED
            BY <3>1, <3>2
    <2>3. late + MaxRate * MaxSkew * slowed = MaxRate * (now + MaxSkew * (1 + slowed))
        BY <2>1
    <2> DEFINE burst == MaxBurst * Token * (1 + raised)
    <2>4. burst \in Nat /\ MaxRate * MaxSkew * slowed \in Nat /\ Allowance = burst + MaxRate * MaxSkew * slowed
        <3>1. MaxBurst \in Nat /\ 1 + raised \in Nat
            BY Constants DEF IInv, TypeOK
        <3>2. MaxBurst * Token \in Nat /\ MaxRate * MaxSkew \in Nat
            BY <2>1, <3>1, ProductNatural
        <3>3. QED
            BY <2>1, <3>1, <3>2, ProductNatural DEF Allowance
    <2> HIDE DEF late, burst
    <2>5. granted * Token <= burst + MaxRate * (now + MaxSkew * (1 + slowed))
        BY <2>1, <2>2, <2>3, <2>4
    <2>6. QED
        BY <2>5 DEF WithinQuota, burst
<1>2. QED
    BY <1>1, InductiveInvariant, PTL

\* What a goroutine takes into use was replaced less than the TTL and the longest fetch
\* ago (get and set of cache.go).
THEOREM StalenessIsBounded == Spec => []StalenessBounded
<1>1. IInv => StalenessBounded
    BY DEF IInv
<1>2. QED
    BY <1>1, InductiveInvariant, PTL
=============================================================================
