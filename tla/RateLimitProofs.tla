----------------------------- MODULE RateLimitProofs -----------------------------
(***********************************************************************************)
(* Proofs about RateLimit, in every deployment: the limit is respected in every    *)
(* bucket whose counters last, a refusal is just, and a running counter is lost    *)
(* across windows of different length only.                                        *)
(***********************************************************************************)
EXTENDS RateLimit, TLAPS, FiniteSetTheorems

Arrived == {r \in Request : phase[r] # "new"}

\* The requests a store has counted, admitted or not.
Counted(s, k, w) == {r \in Request : phase[r] \in {"allowed", "refused"}
                                     /\ proc[r] = s /\ In(r, k, w)}

\* The windows that some request may still be counted in: those the purge keeps, or
\* those that have not ended.
Live(k, w) ==
    IF deployment.backend = "database" THEN w >= Cutoff
                                       ELSE w >= Window(clock, WindowSeconds[k])

\* No request is suspended for longer than MaxStall, and only the database is waited for.
StallsAreShort ==
    \A r \in Request : phase[r] = "stamped" =>
        deployment.backend = "database" /\ at[r] <= clock /\ clock <= at[r] + MaxStall

\* If the counters of a bucket last, then as long as a window is live its counter is the
\* number of requests counted in it.
CountersExact ==
    \A s \in Store, k \in Key, w \in Time :
        CountersLast(k) /\ Live(k, w) => hits[s][k][w] = Cardinality(Counted(s, k, w))

\* Whoever has a counter has been counted, which bounds the size of a dictionary.
RowsHaveCallers ==
    \A s \in Store, k \in Key, w \in Time : hits[s][k][w] > 0 => Counted(s, k, w) # {}

\* Of the requests counted in a window the first ones are admitted, up to the limit.
FirstAreAdmitted ==
    \A s \in Store, k \in Key, w \in Time : CountersLast(k) =>
        LET n == Cardinality(Counted(s, k, w)) IN
        Cardinality(Admitted(s, k, w)) = IF n <= Limit[k] THEN n ELSE Limit[k]

\* What a counter says has been admitted, up to the limit, also if it was lost before.
HitsWereAdmitted ==
    \A s \in Store, k \in Key, w \in Time :
        \/ hits[s][k][w] <= Cardinality(Admitted(s, k, w))
        \/ Limit[k] <= Cardinality(Admitted(s, k, w))

IInv ==
    /\ TypeOK /\ IsFiniteSet(Arrived)
    /\ StallsAreShort /\ CountersExact /\ RowsHaveCallers
    /\ FirstAreAdmitted /\ HitsWereAdmitted
----------------------------------------------------------------------------------
(* Integer division.                                                               *)

\* What a quotient is.
LEMMA DivBounds ==
    ASSUME NEW n \in Nat, NEW s \in Nat \ {0}
    PROVE  /\ n \div s \in Nat
           /\ s * (n \div s) <= n
           /\ n < s * (n \div s) + s
  BY SMT

\* Multiples keep the order of their factors.
LEMMA MulMono ==
    ASSUME NEW a \in Int, NEW b \in Int, NEW s \in Nat, a <= b
    PROVE  s * a <= s * b
  OBVIOUS

LEMMA MulLess ==
    ASSUME NEW a \in Int, NEW b \in Int, NEW s \in Nat \ {0}, s * a < s * b + s
    PROVE  a <= b
<1>1. SUFFICES ASSUME a >= b + 1 PROVE FALSE
  OBVIOUS
<1>2. s * a >= s * (b + 1)
  BY <1>1
<1> QED BY <1>2

\* The multiple of s that n lies behind determines the quotient.
LEMMA DivUnique ==
    ASSUME NEW n \in Nat, NEW s \in Nat \ {0}, NEW q \in Int,
           s * q <= n, n < s * q + s
    PROVE  n \div s = q
  BY DivBounds, MulLess

\* Windows follow one another as the clock does, and there are no more of them than seconds.
LEMMA DivMono ==
    ASSUME NEW n \in Nat, NEW m \in Nat, NEW s \in Nat \ {0}, n <= m
    PROVE  n \div s <= m \div s
  BY DivBounds, MulLess

LEMMA DivSmaller ==
    ASSUME NEW n \in Nat, NEW s \in Nat \ {0}
    PROVE  n \div s <= n
<1>1. 1 * (n \div s) <= s * (n \div s)
  BY DivBounds
<1> QED BY <1>1, DivBounds

\* A longer window has the smaller number.
LEMMA DivCoarser ==
    ASSUME NEW n \in Nat, NEW s \in Nat \ {0}, NEW p \in Nat \ {0}, s <= p
    PROVE  n \div p <= n \div s
<1>1. s * (n \div p) <= p * (n \div p)
  <2>1. n \div p \in Nat
    BY DivBounds
  <2> QED BY <2>1
<1>2. n \div p \in Nat /\ n \div s \in Nat
  BY DivBounds
<1>3. s * (n \div p) < s * (n \div s) + s
  BY <1>1, <1>2, DivBounds
<1> QED BY <1>2, <1>3, MulLess

\* A clock reading is at most k windows old when the window it was in is at most k
\* numbers behind.
LEMMA DivStall ==
    ASSUME NEW a \in Nat, NEW now \in Nat, NEW k \in Nat,
           NEW s \in Nat \ {0}, NEW p \in Nat \ {0}, s <= p, now <= a + k * p
    PROVE  (now \div p) - k <= a \div s
<1>1. now \div p \in Nat /\ a \div p \in Nat /\ a \div s \in Nat
  BY DivBounds
<1>2. p * (now \div p) <= now /\ a < p * (a \div p) + p
  BY DivBounds
<1>3. p * ((a \div p) + k) = p * (a \div p) + k * p
  BY <1>1
<1>4. p * (now \div p) \in Int /\ p * (a \div p) \in Int /\ k * p \in Int /\ p * ((a \div p) + k) \in Int
  BY <1>1
<1>5. p * (now \div p) < p * ((a \div p) + k) + p
  BY <1>2, <1>3, <1>4
<1>6. now \div p <= (a \div p) + k
  BY <1>1, <1>5, MulLess
<1>7. a \div p <= a \div s
  BY DivCoarser
<1> QED BY <1>1, <1>6, <1>7

----------------------------------------------------------------------------------
(* The deployment, the windows and the type invariant.                             *)

\* What RateLimitAssumption says of the deployment that runs.
LEMMA Deployed ==
    ASSUME TypeOK
    PROVE  /\ deployment.backend \in {"database", "memory"}
           /\ deployment.purge \in Nat \ {0}
           /\ \A k \in Key : WindowSeconds[k] \in Nat \ {0}
           /\ deployment.backend = "database" => Store = {"table"}
           /\ deployment.backend = "memory" => Store = Process /\ deployment.threshold \in Nat
  BY RateLimitAssumption DEF TypeOK, WindowSeconds, Store

\* The window of every reading of the clock has a number and a counter.
LEMMA WindowsCounted ==
    ASSUME TypeOK, NEW n \in Time, NEW k \in Key
    PROVE  Window(n, WindowSeconds[k]) \in Time
<1>1. n \in Nat /\ WindowSeconds[k] \in Nat \ {0} /\ MaxTime \in Nat
  BY Deployed, RateLimitAssumption DEF Time
<1>2. n \div WindowSeconds[k] \in Nat /\ n \div WindowSeconds[k] <= n
  BY <1>1, DivBounds, DivSmaller
<1> QED BY <1>1, <1>2 DEF Time, Window

\* Retry-After is what is left of the window, and never less than a second.
LEMMA RestOfWindow ==
    ASSUME TypeOK, NEW n \in Time, NEW k \in Key
    PROVE  LET rest == ResetAt(Window(n, WindowSeconds[k]), k) - n IN
           /\ AtLeastOne(rest) = rest
           /\ rest \in 1..WindowSeconds[k]
<1> DEFINE s == WindowSeconds[k]
           w == n \div s
<1>1. n \in Nat /\ s \in Nat \ {0}
  BY Deployed, RateLimitAssumption DEF Time
<1>2. w \in Nat /\ s * w <= n /\ n < s * w + s
  BY <1>1, DivBounds
<1>3. (w + 1) * s = s * w + s
  BY <1>1, <1>2
<1>4. (w + 1) * s - n \in 1..s
  <2> s * w \in Int
    BY <1>1, <1>2
  <2> HIDE DEF w, s
  <2> QED BY <1>1, <1>2, <1>3
<1> QED
  <2> HIDE DEF w, s
  <2>1. (w + 1) * s - n \in 1..s => AtLeastOne((w + 1) * s - n) = (w + 1) * s - n
    BY <1>1 DEF AtLeastOne
  <2> QED BY <1>4, <2>1 DEF ResetAt, Window, w, s

\* Every action but Tick leaves the clock, and every action the deployment and what the
\* requests are about.
LEMMA StepFrame ==
    ASSUME [Next]_vars
    PROVE  UNCHANGED <<deployment, key, proc>>
  BY DEF Next, vars, Stamp, Upsert, CheckMemory, Purge, Tick, Done

\* What a store holds after it was pruned.
LEMMA PruneType ==
    ASSUME TypeOK, NEW s \in Store, NEW w \in Time
    PROVE  Pruned(s, w) \in [Key -> [Time -> Nat]]
  BY DEF TypeOK, Pruned

LEMMA InitType == ASSUME Init PROVE TypeOK
<1>1. clock \in Time /\ 0 \in Time
  BY RateLimitAssumption DEF Init, Time
<1>2. \A r \in Request : 0 <= WindowSeconds[key[r]]
  BY RateLimitAssumption DEF Init, WindowSeconds
<1> QED BY <1>1, <1>2 DEF Init, TypeOK

\* The verdict keeps the types, whatever the counter says.
LEMMA VerdictType ==
    ASSUME TypeOK, NEW r \in Request, NEW count,
           NEW now \in Time,
           Verdict(r, count, Window(now, WindowSeconds[key[r]]), now),
           UNCHANGED <<deployment, key>>
    PROVE  /\ phase' \in [Request -> {"new", "stamped", "allowed", "refused"}]
           /\ retryAfter' \in [Request -> Nat]
           /\ \A q \in Request : retryAfter'[q] <= WindowSeconds'[key'[q]]
<1>1. key[r] \in Key /\ WindowSeconds' = WindowSeconds
  BY DEF TypeOK, WindowSeconds
<1>2. AtLeastOne(ResetAt(Window(now, WindowSeconds[key[r]]), key[r]) - now) \in 1..WindowSeconds[key[r]]
  BY <1>1, RestOfWindow
<1>3. WindowSeconds[key[r]] \in Nat
  BY <1>1, Deployed
<1>4. ASSUME NEW q \in Request PROVE retryAfter'[q] <= WindowSeconds'[key'[q]]
  <2>1. CASE q = r
    <3>1. retryAfter'[q] \in 1..WindowSeconds[key[r]]
      BY <1>2, <2>1 DEF Verdict, TypeOK
    <3> QED BY <1>1, <1>3, <2>1, <3>1 DEF TypeOK
  <2>2. CASE q # r
    BY <1>1, <2>2 DEF Verdict, TypeOK
  <2> QED BY <2>1, <2>2
<1>5. retryAfter' \in [Request -> Nat]
  BY <1>2, <1>3 DEF Verdict, TypeOK
<1> QED BY <1>4, <1>5 DEF Verdict, TypeOK

LEMMA StepType == ASSUME TypeOK, [Next]_vars PROVE TypeOK'
<1> USE StepFrame
<1>0. Store' = Store /\ WindowSeconds' = WindowSeconds /\ clock \in Nat /\ MaxTime \in Nat
  BY RateLimitAssumption DEF Store, WindowSeconds, TypeOK, Time
<1>1. ASSUME NEW r \in Request, Stamp(r) PROVE TypeOK'
  BY <1>0, <1>1 DEF Stamp, TypeOK
<1>2. ASSUME NEW r \in Request, Upsert(r) PROVE TypeOK'
  <2> DEFINE k == key[r]
             w == Window(at[r], WindowSeconds[k])
             count == hits["table"][k][w] + 1
  <2>1. k \in Key /\ at[r] \in Time
    BY DEF TypeOK
  <2>2. w \in Time
    BY <2>1, WindowsCounted
  <2>3. /\ hits' = [hits EXCEPT !["table"][k][w] = count]
        /\ Verdict(r, count, w, at[r])
        /\ UNCHANGED <<deployment, clock, key, proc, at>>
    BY <1>2 DEF Upsert
  <2>4. hits' \in [Store -> [Key -> [Time -> Nat]]]
    <3> HIDE DEF k, w
    <3>1. CASE "table" \in Store
      <4>1. count \in Nat /\ hits["table"] \in [Key -> [Time -> Nat]]
        BY <2>1, <2>2, <3>1 DEF TypeOK
      <4> HIDE DEF count
      <4>2. [hits["table"] EXCEPT ![k][w] = count] \in [Key -> [Time -> Nat]]
        BY <4>1, <2>1, <2>2
      <4> QED BY <2>3, <3>1, <4>2 DEF TypeOK
    <3>2. CASE "table" \notin Store
      BY <2>3, <3>2 DEF TypeOK
    <3> QED BY <3>1, <3>2
  <2>5. /\ phase' \in [Request -> {"new", "stamped", "allowed", "refused"}]
        /\ retryAfter' \in [Request -> Nat]
        /\ \A q \in Request : retryAfter'[q] <= WindowSeconds'[key'[q]]
    BY <2>1, <2>3, VerdictType
  <2> QED BY <1>0, <2>3, <2>4, <2>5 DEF TypeOK
<1>3. ASSUME NEW r \in Request, CheckMemory(r) PROVE TypeOK'
  <2> DEFINE k == key[r]
             s == proc[r]
             w == Window(clock, WindowSeconds[k])
             count == Pruned(s, w)[k][w] + 1
  <2>1. k \in Key /\ s \in Store /\ clock \in Time
    BY DEF TypeOK
  <2>2. w \in Time
    BY <2>1, WindowsCounted
  <2>3. /\ hits' = [hits EXCEPT ![s] = [Pruned(s, w) EXCEPT ![k][w] = count]]
        /\ at' = [at EXCEPT ![r] = clock]
        /\ Verdict(r, count, w, clock)
        /\ UNCHANGED <<deployment, clock, key, proc>>
    BY <1>3 DEF CheckMemory
  <2>4. hits' \in [Store -> [Key -> [Time -> Nat]]]
    <3> DEFINE P == Pruned(s, w)
    <3>1. P \in [Key -> [Time -> Nat]]
      BY <2>1, <2>2, PruneType
    <3> HIDE DEF k, w, s, P
    <3>2. hits' = [hits EXCEPT ![s] = [P EXCEPT ![k][w] = P[k][w] + 1]]
      BY <2>3 DEF P
    <3>3. [P EXCEPT ![k][w] = P[k][w] + 1] \in [Key -> [Time -> Nat]]
      BY <2>1, <2>2, <3>1
    <3> QED BY <2>1, <3>2, <3>3 DEF TypeOK
  <2>5. /\ phase' \in [Request -> {"new", "stamped", "allowed", "refused"}]
        /\ retryAfter' \in [Request -> Nat]
        /\ \A q \in Request : retryAfter'[q] <= WindowSeconds'[key'[q]]
    BY <2>1, <2>3, VerdictType
  <2> QED BY <1>0, <2>1, <2>3, <2>4, <2>5 DEF TypeOK
<1>4. ASSUME Purge PROVE TypeOK'
  <2>1. hits' \in [Store -> [Key -> [Time -> Nat]]]
    <3>1. [k \in Key |-> [w \in Time |-> IF w < Cutoff THEN 0 ELSE hits["table"][k][w]]]
              \in [Key -> [Time -> Nat]]
      BY <1>4, Deployed DEF Purge, TypeOK
    <3> QED BY <1>4, <3>1 DEF Purge, TypeOK
  <2> QED BY <1>0, <1>4, <2>1 DEF Purge, TypeOK
<1>5. ASSUME Tick PROVE TypeOK'
  BY <1>0, <1>5 DEF Tick, TypeOK, Time
<1>6. CASE UNCHANGED vars \/ Done
  BY <1>0, <1>6 DEF Done, vars, TypeOK
<1> QED BY <1>1, <1>2, <1>3, <1>4, <1>5, <1>6 DEF Next

----------------------------------------------------------------------------------
(* Counting.                                                                       *)

\* Only a finite part of the requests has been counted or admitted anywhere.
LEMMA FinitelyMany ==
    ASSUME IsFiniteSet(Arrived), NEW s, NEW k, NEW w
    PROVE  /\ Admitted(s, k, w) \subseteq Counted(s, k, w)
           /\ IsFiniteSet(Counted(s, k, w)) /\ IsFiniteSet(Admitted(s, k, w))
           /\ Cardinality(Counted(s, k, w)) \in Nat /\ Cardinality(Admitted(s, k, w)) \in Nat
           /\ Cardinality(Admitted(s, k, w)) <= Cardinality(Counted(s, k, w))
<1>1. Admitted(s, k, w) \subseteq Counted(s, k, w) /\ Counted(s, k, w) \subseteq Arrived
  BY DEF Admitted, Counted, Arrived
<1>2. IsFiniteSet(Counted(s, k, w))
  BY <1>1, FS_Subset
<1> QED BY <1>1, <1>2, FS_Subset, FS_CardinalityType

\* A step that gives no verdict changes no count.
LEMMA QuietStep ==
    ASSUME UNCHANGED <<deployment, key, proc, retryAfter>>,
           \A q \in Request : phase[q] \in {"allowed", "refused"}
                                  => phase'[q] = phase[q] /\ at'[q] = at[q],
           \A q \in Request : phase'[q] \in {"allowed", "refused"} => phase'[q] = phase[q]
    PROVE  /\ \A s, k, w : Counted(s, k, w)' = Counted(s, k, w)
           /\ \A s, k, w : Admitted(s, k, w)' = Admitted(s, k, w)
           /\ \A k : CountersLast(k)' = CountersLast(k)
           /\ FirstAreAdmitted => FirstAreAdmitted'
<1>1. Store' = Store /\ WindowSeconds' = WindowSeconds /\ \A k : CountersLast(k)' = CountersLast(k)
  BY DEF Store, WindowSeconds, CountersLast
<1>2. \A s, k, w : Counted(s, k, w)' = Counted(s, k, w) /\ Admitted(s, k, w)' = Admitted(s, k, w)
  BY <1>1 DEF Counted, Admitted, In
<1> QED BY <1>1, <1>2 DEF FirstAreAdmitted

\* Request r has been counted in window w, on a counter that stood at c, and judged.
Judged(r, w, c) ==
    /\ \A s, k, v : Counted(s, k, v)' =
           IF s = proc[r] /\ k = key[r] /\ v = w THEN Counted(s, k, v) \cup {r}
                                                 ELSE Counted(s, k, v)
    /\ CountersLast(key[r]) => Cardinality(Counted(proc[r], key[r], w) \cup {r}) = c + 1
    /\ \A s, k, v : ~(s = proc[r] /\ k = key[r] /\ v = w) => Admitted(s, k, v)' = Admitted(s, k, v)
    /\ \A s, k, v : s = proc[r] /\ k = key[r] /\ v = w =>
          ((\/ c <= Cardinality(Admitted(s, k, v))
            \/ Limit[k] <= Cardinality(Admitted(s, k, v)))
           => (\/ c + 1 <= Cardinality(Admitted(s, k, v)')
               \/ Limit[k] <= Cardinality(Admitted(s, k, v)')))
    /\ FirstAreAdmitted'

\* A verdict adds one request to the window of its clock reading, and admits it if the
\* counter has not passed the limit.  If the counter is exact, that keeps "the first ones are
\* admitted, up to the limit".
LEMMA VerdictStep ==
    ASSUME TypeOK, IsFiniteSet(Arrived), FirstAreAdmitted,
           NEW r \in Request, phase[r] \in {"new", "stamped"},
           NEW now \in Time, NEW w, w = Window(now, WindowSeconds[key[r]]),
           NEW c \in Nat, NEW count, count = c + 1,
           CountersLast(key[r]) => c = Cardinality(Counted(proc[r], key[r], w)),
           phase' = [phase EXCEPT ![r] = IF Allowed(count, key[r]) THEN "allowed" ELSE "refused"],
           UNCHANGED <<deployment, key, proc>>, at' = [at EXCEPT ![r] = now]
    PROVE  Judged(r, w, c)
<1> DEFINE n == Cardinality(Counted(proc[r], key[r], w))
<1>0. Store' = Store /\ WindowSeconds' = WindowSeconds /\ \A k : CountersLast(k)' = CountersLast(k)
  BY DEF Store, WindowSeconds, CountersLast
<1>1. key[r] \in Key /\ proc[r] \in Store /\ w \in Time /\ Limit[key[r]] \in Nat /\ n \in Nat
  BY FinitelyMany, WindowsCounted, RateLimitAssumption DEF TypeOK
<1>3. /\ phase'[r] = IF c + 1 <= Limit[key[r]] THEN "allowed" ELSE "refused"
      /\ at'[r] = now
      /\ \A q \in Request : q # r => phase'[q] = phase[q] /\ at'[q] = at[q]
  BY DEF TypeOK, Allowed
<1>4. r \notin Counted(proc[r], key[r], w) /\ r \notin Admitted(proc[r], key[r], w)
  BY DEF Counted, Admitted
<1>5. \A s, k, v : Counted(s, k, v)' =
          IF s = proc[r] /\ k = key[r] /\ v = w THEN Counted(s, k, v) \cup {r}
                                                ELSE Counted(s, k, v)
  BY <1>0, <1>3 DEF Counted, In
<1>6. \A s, k, v : Admitted(s, k, v)' =
          IF s = proc[r] /\ k = key[r] /\ v = w /\ c + 1 <= Limit[key[r]]
          THEN Admitted(s, k, v) \cup {r} ELSE Admitted(s, k, v)
  BY <1>0, <1>3 DEF Admitted, In
<1>7. Cardinality(Counted(proc[r], key[r], w) \cup {r}) = n + 1
  BY <1>4, FinitelyMany, FS_AddElement
<1>8. \A s, k, v : s = proc[r] /\ k = key[r] /\ v = w =>
         /\ Cardinality(Admitted(s, k, v)) \in Nat
         /\ Cardinality(Admitted(s, k, v)') =
                IF c + 1 <= Limit[k] THEN Cardinality(Admitted(s, k, v)) + 1
                                     ELSE Cardinality(Admitted(s, k, v))
  <2>1. Cardinality(Admitted(proc[r], key[r], w) \cup {r}) = Cardinality(Admitted(proc[r], key[r], w)) + 1
    BY <1>4, FinitelyMany, FS_AddElement
  <2> QED BY <1>6, <2>1, FinitelyMany
<1>9. \A s, k, v : s = proc[r] /\ k = key[r] /\ v = w =>
         ((\/ c <= Cardinality(Admitted(s, k, v))
           \/ Limit[k] <= Cardinality(Admitted(s, k, v)))
          => (\/ c + 1 <= Cardinality(Admitted(s, k, v)')
              \/ Limit[k] <= Cardinality(Admitted(s, k, v)')))
  BY <1>1, <1>8
<1>10. ASSUME NEW s \in Store, NEW k \in Key, NEW v \in Time, CountersLast(k)
       PROVE  LET m == Cardinality(Counted(s, k, v)') IN
              Cardinality(Admitted(s, k, v)') = IF m <= Limit[k] THEN m ELSE Limit[k]
  <2>1. CASE s = proc[r] /\ k = key[r] /\ v = w
    <3>0. Cardinality(Counted(s, k, v)') = n + 1 /\ c = n
      BY <1>5, <1>7, <1>10, <2>1
    <3>1. Cardinality(Admitted(s, k, v)) = IF n <= Limit[k] THEN n ELSE Limit[k]
      BY <1>1, <1>10, <2>1 DEF FirstAreAdmitted
    <3> HIDE DEF n
    <3> QED BY <1>1, <1>8, <2>1, <3>0, <3>1
  <2>2. CASE ~(s = proc[r] /\ k = key[r] /\ v = w)
    <3>1. Counted(s, k, v)' = Counted(s, k, v) /\ Admitted(s, k, v)' = Admitted(s, k, v)
      BY <1>5, <1>6, <2>2
    <3> QED BY <1>10, <3>1 DEF FirstAreAdmitted
  <2> QED BY <2>1, <2>2
<1>11. FirstAreAdmitted'
  BY <1>0, <1>10 DEF FirstAreAdmitted
<1>12. CountersLast(key[r]) => Cardinality(Counted(proc[r], key[r], w) \cup {r}) = c + 1
  BY <1>7
<1> QED BY <1>5, <1>6, <1>9, <1>11, <1>12 DEF Judged

----------------------------------------------------------------------------------
(* The inductive invariant.                                                        *)

LEMMA InitIInv == ASSUME Init PROVE IInv
<1>1. TypeOK
  BY InitType
<1>2. Arrived = {} /\ IsFiniteSet(Arrived)
  <2>1. Arrived = {}
    BY DEF Init, Arrived
  <2> QED BY <2>1, FS_EmptySet
<1>3. \A s, k, w : Counted(s, k, w) = {} /\ Admitted(s, k, w) = {}
  BY DEF Init, Counted, Admitted
<1>4. CountersExact
  BY <1>3, FS_EmptySet DEF CountersExact, Init
<1>5. FirstAreAdmitted
  BY <1>3, FS_EmptySet, RateLimitAssumption DEF FirstAreAdmitted
<1>7. RowsHaveCallers
  BY DEF Init, RowsHaveCallers
<1>6. StallsAreShort /\ HitsWereAdmitted
  <2>1. StallsAreShort
    BY DEF Init, StallsAreShort
  <2>2. \A s \in Store, k \in Key, w \in Time : hits[s][k][w] = 0
    BY DEF Init
  <2>3. \A s \in Store, k \in Key, w \in Time : Cardinality(Admitted(s, k, w)) = 0
    BY <1>3, FS_EmptySet
  <2> QED BY <2>1, <2>2, <2>3 DEF HitsWereAdmitted
<1> QED BY <1>1, <1>2, <1>4, <1>5, <1>6, <1>7 DEF IInv

\* A window that is over, or that the purge gives up, never comes back.
LEMMA LiveBefore ==
    ASSUME TypeOK, [Next]_vars, NEW k \in Key, NEW w \in Time, Live(k, w)'
    PROVE  Live(k, w)
<1> USE StepFrame
<1>1. deployment' = deployment /\ WindowSeconds' = WindowSeconds
  BY DEF WindowSeconds
<1>2. clock \in Nat /\ clock' \in Nat /\ clock <= clock' /\ w \in Int /\ KeepWindows \in Int
  <2>1. clock \in Nat /\ w \in Int /\ KeepWindows \in Int
    BY RateLimitAssumption DEF TypeOK, Time
  <2>2. clock' = clock \/ clock' = clock + 1
    BY DEF Next, vars, Stamp, Upsert, CheckMemory, Purge, Tick, Done
  <2> QED BY <2>1, <2>2
<1>3. WindowSeconds[k] \in Nat \ {0} /\ deployment.purge \in Nat \ {0}
  BY Deployed
<1>4. /\ clock \div WindowSeconds[k] <= clock' \div WindowSeconds[k]
      /\ clock \div deployment.purge <= clock' \div deployment.purge
  BY <1>2, <1>3, DivMono
<1>5. /\ clock \div WindowSeconds[k] \in Int /\ clock' \div WindowSeconds[k] \in Int
      /\ clock \div deployment.purge \in Int /\ clock' \div deployment.purge \in Int
  BY <1>2, <1>3, DivBounds
<1> QED BY <1>1, <1>2, <1>4, <1>5 DEF Live, Cutoff, Window

\* The clock is read in a window whose counter the purge still keeps when it is used.
LEMMA StampedIsLive ==
    ASSUME TypeOK, StallsAreShort, NEW r \in Request, phase[r] = "stamped", CountersLast(key[r])
    PROVE  Live(key[r], Window(at[r], WindowSeconds[key[r]]))
<1>1. key[r] \in Key /\ at[r] \in Nat /\ clock \in Nat /\ KeepWindows \in Nat /\ MaxStall \in Nat
  BY RateLimitAssumption DEF TypeOK, Time
<1>2. /\ deployment.backend = "database"
      /\ WindowSeconds[key[r]] \in Nat \ {0} /\ deployment.purge \in Nat \ {0}
      /\ WindowSeconds[key[r]] <= deployment.purge
      /\ MaxStall <= KeepWindows * deployment.purge
      /\ clock <= at[r] + MaxStall
  BY <1>1, Deployed DEF StallsAreShort, CountersLast
<1>3. KeepWindows * deployment.purge \in Nat
  BY <1>1, <1>2
<1>4. clock <= at[r] + KeepWindows * deployment.purge
  BY <1>1, <1>2, <1>3
<1>5. (clock \div deployment.purge) - KeepWindows <= at[r] \div WindowSeconds[key[r]]
  BY <1>1, <1>2, <1>4, DivStall
<1>6. clock \div deployment.purge \in Int /\ at[r] \div WindowSeconds[key[r]] \in Int
  BY <1>1, <1>2, DivBounds
<1> QED BY <1>1, <1>2, <1>5, <1>6 DEF Live, Cutoff, Window

\* The step that reads the clock.
LEMMA StampStep ==
    ASSUME IInv, NEW r \in Request, Stamp(r)
    PROVE  /\ StallsAreShort' /\ CountersExact' /\ RowsHaveCallers'
           /\ FirstAreAdmitted' /\ HitsWereAdmitted'
<1>1. /\ deployment.backend = "database" /\ phase[r] = "new"
      /\ phase' = [phase EXCEPT ![r] = "stamped"] /\ at' = [at EXCEPT ![r] = clock]
      /\ UNCHANGED <<deployment, clock, hits, key, proc, retryAfter>>
  BY DEF Stamp
<1>2. /\ phase'[r] = "stamped" /\ at'[r] = clock
      /\ \A q \in Request : q # r => phase'[q] = phase[q] /\ at'[q] = at[q]
  BY <1>1 DEF IInv, TypeOK
<1>3. clock \in Nat /\ MaxStall \in Nat
  BY RateLimitAssumption DEF IInv, TypeOK, Time
<1>4. StallsAreShort'
  BY <1>1, <1>2, <1>3 DEF IInv, StallsAreShort
<1>5. /\ \A s, k, w : Counted(s, k, w)' = Counted(s, k, w) /\ Admitted(s, k, w)' = Admitted(s, k, w)
      /\ \A k : CountersLast(k)' = CountersLast(k)
      /\ FirstAreAdmitted'
  BY <1>1, <1>2, QuietStep DEF IInv
<1>6. Store' = Store /\ \A k, w : Live(k, w)' = Live(k, w)
  BY <1>1 DEF Store, Live, Cutoff, WindowSeconds
<1>7. CountersExact' /\ RowsHaveCallers' /\ HitsWereAdmitted'
  BY <1>1, <1>5, <1>6 DEF IInv, CountersExact, RowsHaveCallers, HitsWereAdmitted
<1> QED BY <1>4, <1>5, <1>7

\* The step that counts in the table.
LEMMA UpsertStep ==
    ASSUME IInv, NEW r \in Request, Upsert(r)
    PROVE  /\ StallsAreShort' /\ CountersExact' /\ RowsHaveCallers'
           /\ FirstAreAdmitted' /\ HitsWereAdmitted'
<1> DEFINE k == key[r]
           w == Window(at[r], WindowSeconds[k])
           c == hits["table"][k][w]
<1> USE DEF IInv
<1>1. phase[r] = "stamped" /\ UNCHANGED <<deployment, clock, key, proc, at>>
  BY DEF Upsert
<1>2. k \in Key /\ at[r] \in Time /\ w \in Time
  BY WindowsCounted DEF TypeOK
<1>3. Store = {"table"} /\ proc[r] = "table"
  BY <1>1, Deployed DEF StallsAreShort, TypeOK
<1>4. c \in Nat /\ (CountersLast(k) => c = Cardinality(Counted(proc[r], k, w)))
  <2>1. c \in Nat
    <3>1. hits["table"] \in [Key -> [Time -> Nat]]
      BY <1>3 DEF TypeOK
    <3> HIDE DEF k, w
    <3> QED BY <1>2, <3>1
  <2>2. CountersLast(k) => Live(k, w)
    BY <1>1, StampedIsLive
  <2> QED BY <1>2, <1>3, <2>1, <2>2 DEF CountersExact
<1>5. hits' = [hits EXCEPT !["table"][k][w] = c + 1] /\ Verdict(r, c + 1, w, at[r])
  BY DEF Upsert
<1>6. at' = [at EXCEPT ![r] = at[r]]
  BY <1>1 DEF TypeOK
<1>7. Judged(r, w, c)
  <2>1. phase' = [phase EXCEPT ![r] = IF Allowed(c + 1, key[r]) THEN "allowed" ELSE "refused"]
    BY <1>5 DEF Verdict
  <2>2. w = Window(at[r], WindowSeconds[key[r]])
    OBVIOUS
  <2>3. /\ phase[r] \in {"new", "stamped"} /\ at[r] \in Time /\ c \in Nat
        /\ CountersLast(key[r]) => c = Cardinality(Counted(proc[r], key[r], w))
        /\ UNCHANGED <<deployment, key, proc>>
    BY <1>1, <1>2, <1>4
  <2>4. TypeOK /\ IsFiniteSet(Arrived) /\ FirstAreAdmitted
    OBVIOUS
  <2> HIDE DEF c, w, IInv
  <2> QED BY <1>6, <2>1, <2>2, <2>3, <2>4, VerdictStep
<1> USE DEF Judged
<1>8. CountersExact'
  <2>1. Store' = Store /\ \A l, v : Live(l, v)' = Live(l, v) /\ CountersLast(l)' = CountersLast(l)
    BY <1>1 DEF Store, Live, Cutoff, WindowSeconds, CountersLast
  <2>2. ASSUME NEW l \in Key, NEW v \in Time, CountersLast(l), Live(l, v)
        PROVE  hits'["table"][l][v] = Cardinality(Counted("table", l, v)')
    <3>1. hits["table"][l][v] = Cardinality(Counted("table", l, v))
      BY <1>3, <2>2 DEF CountersExact
    <3> HIDE DEF w, c
    <3>2. hits["table"] \in [Key -> [Time -> Nat]] /\ hits \in [Store -> [Key -> [Time -> Nat]]]
      BY <1>3 DEF TypeOK
    <3>3. CASE l = k /\ v = w
      <4>1. hits'["table"][l][v] = c + 1
        BY <1>2, <1>3, <1>5, <3>2, <3>3
      <4> QED BY <1>3, <1>7, <2>2, <3>3, <4>1
    <3>4. CASE ~(l = k /\ v = w)
      <4>1. hits'["table"][l][v] = hits["table"][l][v]
        BY <1>2, <1>3, <1>5, <3>2, <3>4
      <4> QED BY <1>3, <1>7, <3>1, <3>4, <4>1
    <3> QED BY <3>3, <3>4
  <2> HIDE DEF w, c
  <2> QED BY <1>3, <2>1, <2>2 DEF CountersExact
<1>9. StallsAreShort'
  BY <1>1, <1>5 DEF StallsAreShort, TypeOK, Verdict
<1>10. RowsHaveCallers'
  <2>1. Store' = Store
    BY <1>1 DEF Store
  <2>2. ASSUME NEW l \in Key, NEW v \in Time, hits'["table"][l][v] > 0
        PROVE  Counted("table", l, v)' # {}
    <3>1. (l = k /\ v = w) \/ hits'["table"][l][v] = hits["table"][l][v]
      <4> HIDE DEF w, c
      <4> QED BY <1>2, <1>3, <1>5 DEF TypeOK
    <3> HIDE DEF w, c
    <3> QED BY <1>3, <1>7, <2>2, <3>1 DEF RowsHaveCallers
  <2> QED BY <1>3, <2>1, <2>2 DEF RowsHaveCallers
<1>11. HitsWereAdmitted'
  <2>1. Store' = Store
    BY <1>1 DEF Store
  <2>2. ASSUME NEW l \in Key, NEW v \in Time
        PROVE  LET m == Cardinality(Admitted("table", l, v)') IN
               hits'["table"][l][v] <= m \/ Limit[l] <= m
    <3> HIDE DEF w
    <3>1. CASE l = k /\ v = w
      <4>1. hits'["table"][l][v] = c + 1
        <5> HIDE DEF c
        <5> QED BY <1>2, <1>3, <1>5, <3>1 DEF TypeOK
      <4>2. \/ c <= Cardinality(Admitted("table", l, v))
            \/ Limit[l] <= Cardinality(Admitted("table", l, v))
        BY <1>2, <1>3, <3>1 DEF HitsWereAdmitted
      <4> HIDE DEF c
      <4> QED BY <1>3, <1>7, <3>1, <4>1, <4>2
    <3>2. CASE ~(l = k /\ v = w)
      <4>1. hits'["table"][l][v] = hits["table"][l][v]
        <5> HIDE DEF c
        <5> QED BY <1>2, <1>3, <1>5, <3>2 DEF TypeOK
      <4> QED BY <1>3, <1>7, <3>2, <4>1 DEF HitsWereAdmitted
    <3> QED BY <3>1, <3>2
  <2> QED BY <1>3, <2>1, <2>2 DEF HitsWereAdmitted
<1> QED BY <1>7, <1>8, <1>9, <1>10, <1>11

\* A dictionary never has more entries than there have been requests.
LEMMA FewRows ==
    ASSUME TypeOK, RowsHaveCallers, IsFiniteSet(Request), NEW s \in Store
    PROVE  Cardinality(Rows(s)) \in Nat /\ Cardinality(Rows(s)) <= Cardinality(Request)
<1> DEFINE row == [r \in Request |-> <<key[r], Window(at[r], WindowSeconds[key[r]])>>]
           T == {row[r] : r \in Request}
<1>1. row \in Surjection(Request, T)
  BY DEF Surjection
<1>2. Rows(s) \subseteq T
  <2> SUFFICES ASSUME NEW k \in Key, NEW w \in Time, hits[s][k][w] > 0 PROVE <<k, w>> \in T
    BY DEF Rows
  <2>1. PICK r \in Request : In(r, k, w)
    BY DEF RowsHaveCallers, Counted
  <2> QED BY <2>1 DEF In
<1> HIDE DEF T, row
<1>3. IsFiniteSet(T) /\ Cardinality(T) <= Cardinality(Request)
  BY <1>1, FS_Surjection
<1>4. IsFiniteSet(Rows(s)) /\ Cardinality(Rows(s)) <= Cardinality(T)
  BY <1>2, <1>3, FS_Subset
<1>5. Cardinality(Rows(s)) \in Nat /\ Cardinality(T) \in Nat /\ Cardinality(Request) \in Nat
  BY <1>3, <1>4, FS_CardinalityType
<1> QED BY <1>3, <1>4, <1>5

\* What the pruning leaves: from a full dictionary it takes the windows with a smaller
\* number.  A bucket whose counters last loses only what is over.
LEMMA PruningTakes ==
    ASSUME NEW s, NEW w, NEW l \in Key, NEW v \in Time
    PROVE  \/ Pruned(s, w)[l][v] = hits[s][l][v]
           \/ Pruned(s, w)[l][v] = 0 /\ v < w /\ Cardinality(Rows(s)) > deployment.threshold
  BY DEF Pruned

LEMMA PruningIsSound ==
    ASSUME TypeOK, RowsHaveCallers, deployment.backend = "memory",
           NEW s \in Store, NEW k \in Key, NEW l \in Key, NEW v \in Time, CountersLast(l)
    PROVE  \/ Pruned(s, Window(clock, WindowSeconds[k]))[l][v] = hits[s][l][v]
           \/ v < Window(clock, WindowSeconds[l])
<1>1. CASE \A j \in Key : WindowSeconds[l] <= WindowSeconds[j]
  <2>1. /\ clock \in Nat /\ v \in Int
        /\ WindowSeconds[k] \in Nat \ {0} /\ WindowSeconds[l] \in Nat \ {0}
    BY Deployed, RateLimitAssumption DEF TypeOK, Time
  <2>2. /\ clock \div WindowSeconds[k] <= clock \div WindowSeconds[l]
        /\ clock \div WindowSeconds[k] \in Int /\ clock \div WindowSeconds[l] \in Int
    BY <1>1, <2>1, DivCoarser, DivBounds
  <2>3. v < Window(clock, WindowSeconds[k]) => v < Window(clock, WindowSeconds[l])
    BY <2>1, <2>2 DEF Window
  <2> QED BY <2>3, PruningTakes
<1>2. CASE IsFiniteSet(Request) /\ Cardinality(Request) <= deployment.threshold
  <2>1. /\ Cardinality(Rows(s)) \in Nat /\ Cardinality(Rows(s)) <= Cardinality(Request)
        /\ Cardinality(Request) \in Nat /\ deployment.threshold \in Nat
    BY <1>2, FewRows, FS_CardinalityType, Deployed
  <2>2. ~(Cardinality(Rows(s)) > deployment.threshold)
    BY <1>2, <2>1
  <2> QED BY <2>2 DEF Pruned
<1> QED BY <1>1, <1>2 DEF CountersLast

\* The step that counts in a dictionary, pruned first if it is full.
LEMMA CheckMemoryStep ==
    ASSUME IInv, NEW r \in Request, CheckMemory(r)
    PROVE  /\ StallsAreShort' /\ CountersExact' /\ RowsHaveCallers'
           /\ FirstAreAdmitted' /\ HitsWereAdmitted'
<1> DEFINE k == key[r]
           p == proc[r]
           w == Window(clock, WindowSeconds[k])
           P == Pruned(p, w)
           c == P[k][w]
<1> USE DEF IInv
<1>1. /\ deployment.backend = "memory" /\ phase[r] = "new"
      /\ at' = [at EXCEPT ![r] = clock] /\ UNCHANGED <<deployment, clock, key, proc>>
  BY DEF CheckMemory
<1>2. k \in Key /\ p \in Store /\ clock \in Time /\ w \in Time
  BY WindowsCounted DEF TypeOK
<1>3. \A l \in Key, v \in Time : Live(l, v) <=> v >= Window(clock, WindowSeconds[l])
  BY <1>1, <1>2 DEF Live
<1>4. ASSUME NEW l \in Key, NEW v \in Time, CountersLast(l), Live(l, v)
      PROVE  P[l][v] = Cardinality(Counted(p, l, v))
  <2>1. hits[p][l][v] = Cardinality(Counted(p, l, v))
    BY <1>2, <1>4 DEF CountersExact
  <2>2. v \in Int /\ Window(clock, WindowSeconds[l]) \in Int
    BY <1>2, WindowsCounted DEF Time
  <2>3. v >= Window(clock, WindowSeconds[l])
    BY <1>3, <1>4
  <2>4. P[l][v] = hits[p][l][v] \/ v < Window(clock, WindowSeconds[l])
    BY <1>1, <1>2, <1>4, PruningIsSound
  <2> HIDE DEF P
  <2> QED BY <2>1, <2>2, <2>3, <2>4
<1>5. c \in Nat /\ (CountersLast(k) => c = Cardinality(Counted(p, k, w)))
  <2>1. w >= w
    BY <1>2 DEF Time
  <2>2. Live(k, w)
    BY <1>2, <1>3, <2>1
  <2>3. c \in Nat
    BY <1>2, PruneType
  <2> QED BY <1>2, <1>4, <2>2, <2>3
<1>6. hits' = [hits EXCEPT ![p] = [P EXCEPT ![k][w] = c + 1]] /\ Verdict(r, c + 1, w, clock)
  BY DEF CheckMemory
<1>7. Judged(r, w, c)
  <2>1. phase' = [phase EXCEPT ![r] = IF Allowed(c + 1, key[r]) THEN "allowed" ELSE "refused"]
    BY <1>6 DEF Verdict
  <2>2. w = Window(clock, WindowSeconds[key[r]])
    OBVIOUS
  <2>3. /\ phase[r] \in {"new", "stamped"} /\ clock \in Time /\ c \in Nat
        /\ CountersLast(key[r]) => c = Cardinality(Counted(proc[r], key[r], w))
        /\ at' = [at EXCEPT ![r] = clock] /\ UNCHANGED <<deployment, key, proc>>
    BY <1>1, <1>2, <1>5
  <2>4. TypeOK /\ IsFiniteSet(Arrived) /\ FirstAreAdmitted
    OBVIOUS
  <2> HIDE DEF c, w, IInv
  <2> QED BY <2>1, <2>2, <2>3, <2>4, VerdictStep
<1> USE DEF Judged
<1>8. CountersExact'
  <2>1. Store' = Store /\ \A l, v : Live(l, v)' = Live(l, v) /\ CountersLast(l)' = CountersLast(l)
    BY <1>1 DEF Store, Live, Cutoff, WindowSeconds, CountersLast
  <2>2. hits \in [Store -> [Key -> [Time -> Nat]]] /\ P \in [Key -> [Time -> Nat]]
    BY <1>2, PruneType DEF TypeOK
  <2>3. ASSUME NEW s \in Store, NEW l \in Key, NEW v \in Time, CountersLast(l), Live(l, v)
        PROVE  hits'[s][l][v] = Cardinality(Counted(s, l, v)')
    <3>1. hits[s][l][v] = Cardinality(Counted(s, l, v))
      BY <2>3 DEF CountersExact
    <3>2. P[l][v] = Cardinality(Counted(p, l, v))
      BY <1>4, <2>3
    <3> HIDE DEF w, c, P
    <3>3. CASE s = p /\ l = k /\ v = w
      <4>1. hits'[s][l][v] = c + 1
        BY <1>2, <1>6, <2>2, <3>3
      <4> QED BY <1>7, <2>3, <3>3, <4>1
    <3>4. CASE s = p /\ ~(l = k /\ v = w)
      <4>1. hits'[s][l][v] = P[l][v]
        BY <1>2, <1>6, <2>2, <3>4
      <4> QED BY <1>7, <3>2, <3>4, <4>1
    <3>5. CASE s # p
      <4>1. hits'[s] = hits[s]
        BY <1>2, <1>6, <2>2, <3>5
      <4> QED BY <1>7, <3>1, <3>5, <4>1
    <3> QED BY <3>3, <3>4, <3>5
  <2> HIDE DEF w, c, P
  <2> QED BY <2>1, <2>3 DEF CountersExact
<1>9. StallsAreShort'
  BY <1>1, <1>6 DEF StallsAreShort, TypeOK, Verdict
<1>10. RowsHaveCallers'
  <2>1. Store' = Store
    BY <1>1 DEF Store
  <2>2. hits \in [Store -> [Key -> [Time -> Nat]]] /\ P \in [Key -> [Time -> Nat]]
    BY <1>2, PruneType DEF TypeOK
  <2>3. ASSUME NEW s \in Store, NEW l \in Key, NEW v \in Time, hits'[s][l][v] > 0
        PROVE  Counted(s, l, v)' # {}
    <3>1. P[l][v] \in {hits[p][l][v], 0}
      BY PruningTakes
    <3> HIDE DEF w, c, P
    <3>2. (s = p /\ l = k /\ v = w) \/ hits'[s][l][v] \in {hits[s][l][v], 0}
      BY <1>2, <1>6, <2>2, <3>1
    <3>3. CASE s = p /\ l = k /\ v = w
      BY <1>7, <3>3
    <3>4. CASE hits'[s][l][v] \in {hits[s][l][v], 0}
      BY <1>7, <2>3, <3>4 DEF RowsHaveCallers
    <3> QED BY <3>2, <3>3, <3>4
  <2> HIDE DEF w, c, P
  <2> QED BY <2>1, <2>3 DEF RowsHaveCallers
<1>11. HitsWereAdmitted'
  <2>1. Store' = Store
    BY <1>1 DEF Store
  <2>2. hits \in [Store -> [Key -> [Time -> Nat]]] /\ P \in [Key -> [Time -> Nat]]
    BY <1>2, PruneType DEF TypeOK
  <2>3. \A s, l, v : Cardinality(Admitted(s, l, v)) \in Nat
    BY FinitelyMany
  <2>4. ASSUME NEW s \in Store, NEW l \in Key, NEW v \in Time
        PROVE  LET m == Cardinality(Admitted(s, l, v)') IN
               hits'[s][l][v] <= m \/ Limit[l] <= m
    <3>1. P[l][v] \in {hits[p][l][v], 0}
      BY PruningTakes
    <3>2. LET m == Cardinality(Admitted(p, l, v)) IN P[l][v] <= m \/ Limit[l] <= m
      <4> HIDE DEF P
      <4> QED BY <1>2, <2>3, <3>1 DEF HitsWereAdmitted
    <3>3. CASE s = p /\ l = k /\ v = w
      <4>1. hits'[s][l][v] = c + 1
        <5> HIDE DEF w, c, P
        <5> QED BY <1>2, <1>6, <2>2, <3>3
      <4>2. \/ c <= Cardinality(Admitted(s, l, v))
            \/ Limit[l] <= Cardinality(Admitted(s, l, v))
        BY <3>2, <3>3
      <4> HIDE DEF w, c, P
      <4> QED BY <1>7, <3>3, <4>1, <4>2
    <3>4. CASE s = p /\ ~(l = k /\ v = w)
      <4> HIDE DEF w, c, P
      <4>1. hits'[s][l][v] = P[l][v]
        BY <1>2, <1>6, <2>2, <3>4
      <4> QED BY <1>7, <3>2, <3>4, <4>1
    <3>5. CASE s # p
      <4> HIDE DEF w, c, P
      <4>1. hits'[s] = hits[s]
        BY <1>2, <1>6, <2>2, <3>5
      <4> QED BY <1>7, <3>5, <4>1 DEF HitsWereAdmitted
    <3> QED BY <3>3, <3>4, <3>5
  <2> HIDE DEF w, c, P
  <2> QED BY <2>1, <2>4 DEF HitsWereAdmitted
<1> QED BY <1>7, <1>8, <1>9, <1>10, <1>11

\* The purge, and time: nobody is counted, and no live counter of a bucket whose counters
\* last goes.
LEMMA PurgeStep ==
    ASSUME IInv, Purge
    PROVE  /\ StallsAreShort' /\ CountersExact' /\ RowsHaveCallers'
           /\ FirstAreAdmitted' /\ HitsWereAdmitted'
<1> USE DEF IInv
<1>1. /\ deployment.backend = "database"
      /\ UNCHANGED <<deployment, clock, phase, key, proc, at, retryAfter>>
  BY DEF Purge
<1>2. /\ \A s, k, w : Counted(s, k, w)' = Counted(s, k, w) /\ Admitted(s, k, w)' = Admitted(s, k, w)
      /\ \A k : CountersLast(k)' = CountersLast(k)
      /\ FirstAreAdmitted'
  BY <1>1, QuietStep
<1>3. Store = {"table"} /\ Store' = Store /\ \A k, w : Live(k, w)' = Live(k, w)
  BY <1>1, Deployed DEF Store, Live, Cutoff, WindowSeconds
<1>4. ASSUME NEW k \in Key, NEW w \in Time, Live(k, w)
      PROVE  hits'["table"][k][w] = hits["table"][k][w]
  <2>1. Cutoff \in Int /\ w \in Int
    <3>1. clock \in Nat /\ deployment.purge \in Nat \ {0} /\ KeepWindows \in Nat
      BY Deployed, RateLimitAssumption DEF TypeOK, Time
    <3>2. clock \div deployment.purge \in Nat
      BY <3>1, DivBounds
    <3> QED BY <3>1, <3>2 DEF Cutoff, Window, Time
  <2>2. ~(w < Cutoff)
    BY <1>1, <1>4, <2>1 DEF Live
  <2>3. hits \in [Store -> [Key -> [Time -> Nat]]]
    BY DEF TypeOK
  <2> QED BY <1>3, <2>2, <2>3 DEF Purge
<1>5. CountersExact'
  BY <1>2, <1>3, <1>4 DEF CountersExact
<1>6. RowsHaveCallers'
  <2>1. \A k \in Key, w \in Time : hits'["table"][k][w] \in {hits["table"][k][w], 0}
    BY <1>3 DEF Purge, TypeOK
  <2> QED BY <1>2, <1>3, <2>1 DEF RowsHaveCallers
<1>7. HitsWereAdmitted'
  <2>1. \A k \in Key, w \in Time : hits'["table"][k][w] \in {hits["table"][k][w], 0}
    BY <1>3 DEF Purge, TypeOK
  <2>2. \A k, w : Cardinality(Admitted("table", k, w)) \in Nat
    BY FinitelyMany
  <2> QED BY <1>2, <1>3, <2>1, <2>2 DEF HitsWereAdmitted
<1> QED BY <1>1, <1>2, <1>5, <1>6, <1>7 DEF StallsAreShort

LEMMA TickStep ==
    ASSUME IInv, Tick
    PROVE  /\ StallsAreShort' /\ CountersExact' /\ RowsHaveCallers'
           /\ FirstAreAdmitted' /\ HitsWereAdmitted'
<1> USE DEF IInv
<1>1. /\ \A r \in Request : phase[r] = "stamped" => clock - at[r] < MaxStall
      /\ clock' = clock + 1 /\ UNCHANGED <<deployment, hits, phase, key, proc, at, retryAfter>>
  BY DEF Tick
<1>2. /\ \A s, k, w : Counted(s, k, w)' = Counted(s, k, w) /\ Admitted(s, k, w)' = Admitted(s, k, w)
      /\ \A k : CountersLast(k)' = CountersLast(k)
      /\ FirstAreAdmitted'
  BY <1>1, QuietStep
<1>3. Store' = Store /\ \A k \in Key, w \in Time : Live(k, w)' => Live(k, w)
  BY <1>1, LiveBefore DEF Store, Next
<1>4. CountersExact'
  BY <1>1, <1>2, <1>3 DEF CountersExact
<1>5. clock \in Nat /\ MaxStall \in Nat /\ at \in [Request -> Nat]
  BY RateLimitAssumption DEF TypeOK, Time
<1>6. StallsAreShort'
  BY <1>1, <1>5 DEF StallsAreShort
<1>7. RowsHaveCallers' /\ HitsWereAdmitted'
  BY <1>1, <1>2, <1>3 DEF RowsHaveCallers, HitsWereAdmitted
<1> QED BY <1>2, <1>4, <1>6, <1>7

LEMMA NextIInv == ASSUME IInv, [Next]_vars PROVE IInv'
<1>1. TypeOK'
  BY StepType DEF IInv
<1>2. IsFiniteSet(Arrived')
  <2>1. \E r : Arrived' \subseteq Arrived \cup {r}
    BY DEF Arrived, Next, vars, Stamp, Upsert, CheckMemory, Verdict, Purge, Tick, Done, IInv, TypeOK
  <2> QED BY <2>1, FS_AddElement, FS_Subset DEF IInv
<1>3. /\ StallsAreShort' /\ CountersExact' /\ RowsHaveCallers'
      /\ FirstAreAdmitted' /\ HitsWereAdmitted'
  <2>1. CASE \E r \in Request : Stamp(r) \/ Upsert(r) \/ CheckMemory(r)
    BY <2>1, StampStep, UpsertStep, CheckMemoryStep
  <2>2. CASE Purge
    BY <2>2, PurgeStep
  <2>3. CASE Tick
    BY <2>3, TickStep
  <2>4. CASE UNCHANGED vars \/ Done
    <3>1. UNCHANGED vars
      BY <2>4 DEF Done
    <3> QED BY <3>1
        DEF IInv, vars, StallsAreShort, CountersExact, RowsHaveCallers, FirstAreAdmitted, HitsWereAdmitted,
            Store, Live, Cutoff, CountersLast, Counted, Admitted, In, WindowSeconds
  <2> QED BY <2>1, <2>2, <2>3, <2>4 DEF Next
<1> QED BY <1>1, <1>2, <1>3 DEF IInv

----------------------------------------------------------------------------------
(* What the invariant says of admissions and refusals.                             *)

LEMMA WithinLimit == ASSUME IInv PROVE AdmittedWithinLimit
<1>1. ASSUME NEW s \in Store, NEW k \in Key, NEW w \in Time, CountersLast(k)
      PROVE  Cardinality(Admitted(s, k, w)) <= Limit[k]
  <2>1. Limit[k] \in Nat /\ Cardinality(Counted(s, k, w)) \in Nat
    BY FinitelyMany, RateLimitAssumption DEF IInv
  <2>2. LET n == Cardinality(Counted(s, k, w)) IN
        Cardinality(Admitted(s, k, w)) = IF n <= Limit[k] THEN n ELSE Limit[k]
    BY <1>1 DEF IInv, FirstAreAdmitted
  <2> QED BY <2>1, <2>2
<1> QED BY <1>1 DEF AdmittedWithinLimit

\* A period as long as the window meets at most two windows of the clock.
LEMMA TwoWindows ==
    ASSUME TypeOK, NEW k \in Key, NEW t \in Nat, NEW n \in Nat,
           t <= n, n <= t + WindowSeconds[k] - 1
    PROVE  LET w == Window(t, WindowSeconds[k]) IN Window(n, WindowSeconds[k]) \in {w, w + 1}
<1> DEFINE s == WindowSeconds[k]
           v == n \div s
           w == t \div s
<1>1. s \in Nat \ {0}
  BY Deployed
<1>2. v \in Nat /\ s * v <= n /\ n < s * v + s
  BY <1>1, DivBounds
<1>3. w \in Nat /\ s * w <= t /\ t < s * w + s
  BY <1>1, DivBounds
<1>4. w <= v
  BY <1>1, DivMono
<1>5. v <= w + 1
  <2>1. s * (w + 1) = s * w + s /\ s * w \in Int /\ s * v \in Int
    <3> HIDE DEF s, v, w
    <3> QED BY <1>1, <1>2, <1>3
  <2>2. n <= t + s - 1
    OBVIOUS
  <2> HIDE DEF s, v, w
  <2>3. s * v < s * (w + 1) + s
    BY <1>1, <1>2, <1>3, <2>1, <2>2
  <2> QED BY <1>1, <1>2, <1>3, <2>3, MulLess
<1>6. v \in {w, w + 1}
  <2> HIDE DEF s, v, w
  <2> QED BY <1>2, <1>3, <1>4, <1>5
<1> QED BY <1>6 DEF Window

LEMMA AtWorstTwice == ASSUME IInv PROVE TwiceAtWorst
<1>1. ASSUME NEW s \in Store, NEW k \in Key, NEW t \in Time, CountersLast(k)
      PROVE  Cardinality({r \in Request : /\ phase[r] = "allowed" /\ proc[r] = s /\ key[r] = k
                                          /\ at[r] \in t..(t + WindowSeconds[k] - 1)})
                 <= 2 * Limit[k]
  <2> DEFINE Period == {r \in Request : /\ phase[r] = "allowed" /\ proc[r] = s /\ key[r] = k
                                        /\ at[r] \in t..(t + WindowSeconds[k] - 1)}
             w == Window(t, WindowSeconds[k])
             A == Admitted(s, k, w)
             B == Admitted(s, k, w + 1)
  <2>1. w \in Time /\ t \in Nat /\ w \in Nat /\ WindowSeconds[k] \in Nat \ {0} /\ Limit[k] \in Nat
    BY WindowsCounted, Deployed, RateLimitAssumption DEF IInv, Time
  <2>2. Period \subseteq A \cup B
    <3>1. SUFFICES ASSUME NEW r \in Period PROVE r \in A \cup B
      OBVIOUS
    <3>2. at[r] \in Nat /\ t <= at[r] /\ at[r] <= t + WindowSeconds[k] - 1
      <4>1. at[r] \in t..(t + WindowSeconds[k] - 1) /\ at[r] \in Nat
        BY DEF IInv, TypeOK, Time
      <4> QED BY <2>1, <4>1
    <3>3. Window(at[r], WindowSeconds[k]) \in {w, w + 1}
      BY <2>1, <3>2, TwoWindows DEF IInv
    <3> HIDE DEF w
    <3> QED BY <3>3 DEF Admitted, In
  <2>3. IsFiniteSet(A) /\ IsFiniteSet(B) /\ Cardinality(A) \in Nat /\ Cardinality(B) \in Nat
    BY FinitelyMany DEF IInv
  <2>4. Cardinality(A) <= Limit[k]
    BY <1>1, <2>1, WithinLimit DEF AdmittedWithinLimit
  <2>5. Cardinality(B) <= Limit[k]
    <3>1. CASE w + 1 \in Time
      BY <1>1, <3>1, WithinLimit DEF AdmittedWithinLimit
    <3>2. CASE w + 1 \notin Time
      <4>1. \A r \in Request : key[r] = k => Window(at[r], WindowSeconds[k]) \in Time
        BY WindowsCounted DEF IInv, TypeOK
      <4>2. B = {}
        <5> HIDE DEF w
        <5> QED BY <3>2, <4>1 DEF Admitted, In
      <4>3. Cardinality(B) = 0
        BY <4>2, FS_EmptySet
      <4> HIDE DEF B
      <4> QED BY <2>1, <4>3
    <3> QED BY <3>1, <3>2
  <2> HIDE DEF Period, A, B
  <2>6. /\ IsFiniteSet(A \cup B) /\ IsFiniteSet(A \cap B) /\ Cardinality(A \cap B) \in Nat
        /\ Cardinality(A \cup B) = Cardinality(A) + Cardinality(B) - Cardinality(A \cap B)
    BY <2>3, FS_Union, FS_Intersection, FS_CardinalityType
  <2>7. Cardinality(Period) <= Cardinality(A \cup B) /\ Cardinality(Period) \in Nat
    BY <2>2, <2>6, FS_Subset, FS_CardinalityType
  <2>8. Cardinality(Period) <= 2 * Limit[k]
    BY <2>1, <2>3, <2>4, <2>5, <2>6, <2>7
  <2> QED BY <2>8 DEF Period
<1> QED BY <1>1 DEF TwiceAtWorst

\* Whoever is refused has found a counter past the limit, so the limit was admitted before,
\* and is told the rest of the window he was counted in.
LEMMA RefusalIsJust ==
    ASSUME IInv, [Next]_vars, NEW r \in Request, phase[r] # "refused", phase'[r] = "refused"
    PROVE  LET k == key[r]
               w == Window(at'[r], WindowSeconds[k])
               back == clock + retryAfter'[r] IN
           /\ Cardinality(Admitted(proc[r], k, w)) >= Limit[k]
           /\ (w + 1) * WindowSeconds[k] <= back
           /\ back <= (w + 1) * WindowSeconds[k] + (clock - at'[r])
<1> USE DEF IInv
<1> DEFINE k == key[r]
           now == at'[r]
           w == Window(now, WindowSeconds[k])
<1>1. \A q \in Request : \/ Stamp(q) => phase'[r] \in {phase[r], "stamped"}
                         \/ FALSE
  BY DEF Stamp, TypeOK
<1>2. Upsert(r) \/ CheckMemory(r)
  BY <1>1 DEF Next, vars, Upsert, CheckMemory, Verdict, Purge, Tick, Done, TypeOK
<1>3. PICK count \in Nat :
        /\ Verdict(r, count, w, now)
        /\ count - 1 <= Cardinality(Admitted(proc[r], k, w)) \/ Limit[k] <= Cardinality(Admitted(proc[r], k, w))
        /\ now \in Time /\ now <= clock
  <2>1. CASE Upsert(r)
    <3>1. now = at[r] /\ phase[r] = "stamped"
      BY <2>1 DEF Upsert
    <3>2. now \in Time /\ now <= clock /\ proc[r] = "table" /\ k \in Key /\ "table" \in Store
      BY <3>1, Deployed DEF TypeOK, StallsAreShort
    <3>3. w \in Time
      BY <3>2, WindowsCounted
    <3>4. hits["table"][k][w] \in Nat
      BY <3>2, <3>3 DEF TypeOK
    <3>5. Verdict(r, hits["table"][k][w] + 1, w, now)
      BY <2>1, <3>1 DEF Upsert
    <3>6. LET m == Cardinality(Admitted("table", k, w)) IN hits["table"][k][w] <= m \/ Limit[k] <= m
      BY <3>2, <3>3 DEF HitsWereAdmitted
    <3> HIDE DEF k, w, now
    <3>7. hits["table"][k][w] + 1 \in Nat /\ (hits["table"][k][w] + 1) - 1 = hits["table"][k][w]
      BY <3>4
    <3> QED BY <3>2, <3>5, <3>6, <3>7
  <2>2. CASE CheckMemory(r)
    <3>1. now = clock
      BY <2>2 DEF CheckMemory, TypeOK
    <3>2. now \in Time /\ now <= clock /\ proc[r] \in Store /\ k \in Key
      BY <3>1, RateLimitAssumption DEF TypeOK, Time
    <3>3. w \in Time
      BY <3>2, WindowsCounted
    <3> DEFINE P == Pruned(proc[r], w)
    <3>4. P[k][w] \in Nat /\ hits[proc[r]][k][w] \in Nat /\ P[k][w] \in {hits[proc[r]][k][w], 0}
      BY <3>2, <3>3, PruneType, PruningTakes DEF TypeOK
    <3>5. Verdict(r, P[k][w] + 1, w, now)
      BY <2>2, <3>1 DEF CheckMemory
    <3>6. LET m == Cardinality(Admitted(proc[r], k, w)) IN
          m \in Nat /\ (hits[proc[r]][k][w] <= m \/ Limit[k] <= m)
      BY <3>2, <3>3, FinitelyMany DEF HitsWereAdmitted
    <3> HIDE DEF k, w, now, P
    <3>7. P[k][w] + 1 \in Nat /\ (P[k][w] + 1) - 1 = P[k][w]
      BY <3>4
    <3> QED BY <3>2, <3>4, <3>5, <3>6, <3>7
  <2> QED BY <1>2, <2>1, <2>2
<1>4. k \in Key /\ Limit[k] \in Nat /\ Cardinality(Admitted(proc[r], k, w)) \in Nat
  BY FinitelyMany, RateLimitAssumption DEF TypeOK
<1>5. ~(count <= Limit[k]) /\ retryAfter'[r] = ResetAt(w, k) - now
  <2>1. AtLeastOne(ResetAt(w, k) - now) = ResetAt(w, k) - now
    BY <1>3, <1>4, RestOfWindow
  <2> HIDE DEF w, now
  <2> QED BY <1>3, <2>1 DEF Verdict, Allowed, TypeOK
<1>6. Cardinality(Admitted(proc[r], k, w)) >= Limit[k]
  <2> HIDE DEF w, k
  <2> QED BY <1>3, <1>4, <1>5
<1>7. now \in Int /\ clock \in Int /\ (w + 1) * WindowSeconds[k] \in Int
  <2>0. WindowSeconds[k] \in Nat \ {0}
    BY <1>4, Deployed
  <2>3. clock \in Time /\ now \in Time /\ Time \subseteq Nat
    <3>1. clock \in Time /\ Time \subseteq Nat
      BY RateLimitAssumption DEF Time, TypeOK
    <3> HIDE DEF now
    <3> QED BY <1>3, <3>1
  <2> HIDE DEF now, k
  <2>1. now \in Nat /\ clock \in Nat /\ WindowSeconds[k] \in Nat \ {0}
    BY <2>0, <2>3
  <2>2. w \in Nat
    BY <2>1, DivBounds DEF Window
  <2> HIDE DEF w
  <2> QED BY <2>1, <2>2
<1> HIDE DEF w, now, k
<1>8. /\ (w + 1) * WindowSeconds[k] <= clock + retryAfter'[r]
      /\ clock + retryAfter'[r] <= (w + 1) * WindowSeconds[k] + (clock - now)
  BY <1>3, <1>5, <1>7 DEF ResetAt
<1> QED BY <1>6, <1>8 DEF w, now, k

\* A running counter goes only to a purge given a shorter window, or to a request on a bucket
\* with a shorter window that finds the dictionary full.
LEMMA DropsAcrossWindows ==
    ASSUME TypeOK, [Next]_vars,
           NEW s \in Store, NEW k \in Key, NEW w \in Time, hits[s][k][w] > 0, hits'[s][k][w] = 0,
           w >= Window(clock, WindowSeconds[k])
    PROVE  IF deployment.backend = "database" THEN deployment.purge < WindowSeconds[k]
           ELSE /\ Cardinality(Rows(s)) > deployment.threshold
                /\ \E r \in Request : /\ phase'[r] # phase[r] /\ proc[r] = s
                                      /\ WindowSeconds[key[r]] < WindowSeconds[k]
<1>1. /\ w \in Int /\ clock \in Nat /\ hits[s][k][w] \in Nat /\ KeepWindows \in Nat
      /\ WindowSeconds[k] \in Nat \ {0} /\ deployment.purge \in Nat \ {0}
  <2>1. w \in Int /\ clock \in Nat /\ KeepWindows \in Nat
    BY RateLimitAssumption DEF TypeOK, Time
  <2>2. hits[s][k][w] \in Nat
    BY DEF TypeOK
  <2>3. WindowSeconds[k] \in Nat \ {0} /\ deployment.purge \in Nat \ {0}
    BY Deployed
  <2> QED BY <2>1, <2>2, <2>3
<1>2. hits' # hits
  BY <1>1
<1>3. ASSUME NEW r \in Request, Upsert(r) PROVE FALSE
  <2> DEFINE v == Window(at[r], WindowSeconds[key[r]])
  <2>1. key[r] \in Key /\ v \in Time
    BY WindowsCounted DEF TypeOK
  <2>2. hits' = [hits EXCEPT !["table"][key[r]][v] = hits["table"][key[r]][v] + 1]
    BY <1>3 DEF Upsert
  <2> HIDE DEF v
  <2>3. hits["table"][key[r]][v] + 1 # 0 \/ "table" # s
    BY <2>1 DEF TypeOK
  <2>4. hits'[s][k][w] \in {hits[s][k][w], hits["table"][key[r]][v] + 1}
    BY <2>2 DEF TypeOK
  <2> QED BY <1>1, <2>1, <2>2, <2>3, <2>4 DEF TypeOK
<1>4. ASSUME NEW r \in Request, CheckMemory(r)
      PROVE  /\ deployment.backend = "memory" /\ Cardinality(Rows(s)) > deployment.threshold
             /\ phase'[r] # phase[r] /\ proc[r] = s /\ WindowSeconds[key[r]] < WindowSeconds[k]
  <2> DEFINE v == Window(clock, WindowSeconds[key[r]])
             P == Pruned(proc[r], v)
  <2>1. key[r] \in Key /\ proc[r] \in Store /\ v \in Time
    BY WindowsCounted DEF TypeOK
  <2>2. hits' = [hits EXCEPT ![proc[r]] = [P EXCEPT ![key[r]][v] = P[key[r]][v] + 1]]
    BY <1>4 DEF CheckMemory
  <2>3. P \in [Key -> [Time -> Nat]]
    BY <2>1, PruneType
  <2>4. s = proc[r] /\ P[k][w] = 0
    <3> HIDE DEF P, v
    <3> QED BY <1>1, <2>1, <2>2, <2>3 DEF TypeOK
  <2>5. w < v /\ Cardinality(Rows(s)) > deployment.threshold
    <3>1. P[k][w] # hits[s][k][w]
      <4> HIDE DEF P
      <4> QED BY <1>1, <2>4
    <3> QED BY <2>4, <3>1, PruningTakes
  <2>6. ~(WindowSeconds[k] <= WindowSeconds[key[r]])
    <3>1. WindowSeconds[key[r]] \in Nat \ {0}
      BY <2>1, Deployed
    <3>2. clock \div WindowSeconds[k] \in Int /\ clock \div WindowSeconds[key[r]] \in Int
      BY <1>1, <3>1, DivBounds
    <3>3. ~(clock \div WindowSeconds[key[r]] <= clock \div WindowSeconds[k])
      BY <1>1, <2>5, <3>2 DEF Window
    <3> QED BY <1>1, <3>1, <3>3, DivCoarser
  <2>7. WindowSeconds[key[r]] < WindowSeconds[k]
    BY <1>1, <2>1, <2>6, Deployed
  <2>8. phase'[r] # phase[r] /\ deployment.backend = "memory"
    BY <1>4 DEF CheckMemory, Verdict, TypeOK
  <2> QED BY <2>4, <2>5, <2>7, <2>8
<1>5. ASSUME Purge PROVE deployment.backend = "database" /\ deployment.purge < WindowSeconds[k]
  <2>1. deployment.backend = "database" /\ s = "table" /\ "table" \in Store
    BY <1>5, Deployed DEF Purge
  <2>2. w < Cutoff
    BY <1>1, <1>5, <2>1 DEF Purge, TypeOK
  <2>3. clock \div deployment.purge \in Int /\ clock \div WindowSeconds[k] \in Int
    BY <1>1, DivBounds
  <2>4. ~(clock \div deployment.purge <= clock \div WindowSeconds[k])
    BY <1>1, <2>2, <2>3 DEF Cutoff, Window
  <2>5. ~(WindowSeconds[k] <= deployment.purge)
    BY <1>1, <2>4, DivCoarser
  <2> QED BY <1>1, <2>1, <2>5
<1>6. (\E r \in Request : Upsert(r) \/ CheckMemory(r)) \/ Purge
  BY <1>2 DEF Next, vars, Stamp, Tick, Done
<1> QED BY <1>3, <1>4, <1>5, <1>6

----------------------------------------------------------------------------------
(* The theorems.                                                                   *)

LEMMA Invariance == Spec => []IInv
<1>1. Init => IInv
  BY InitIInv
<1>2. IInv /\ [Next]_vars => IInv'
  BY NextIInv
<1> QED BY <1>1, <1>2, PTL DEF Spec

\* Rate limiter: in every bucket whose counters last, every store admits at most the limit in
\* a window and at most twice of it in any period of that length, whatever the number of
\* requests and however they overlap with purges and prunes.  With the windows of the
\* repository the counters of the shortest always last in a dictionary, and those of the
\* others while it is not full.
THEOREM LimitHolds == Spec => []LimitRespected
<1>1. IInv => LimitRespected
  BY WithinLimit, AtWorstTwice DEF IInv, LimitRespected
<1> QED BY <1>1, Invariance, PTL

\* Rate limiter: in every deployment nobody is turned away unless the store has admitted the
\* full limit in the window of his clock reading, and whoever comes back after Retry-After
\* finds that window over, by no more than his answer was delayed.
THEOREM RefusalsHaveReason == Spec => RefusalsAreJust
<1>1. IInv /\ [Next]_vars =>
        [\A r \in Request : phase[r] # "refused" /\ phase'[r] = "refused" =>
            LET k == key[r]
                w == Window(at'[r], WindowSeconds[k])
                back == clock + retryAfter'[r] IN
            /\ Cardinality(Admitted(proc[r], k, w)) >= Limit[k]
            /\ (w + 1) * WindowSeconds[k] <= back
            /\ back <= (w + 1) * WindowSeconds[k] + (clock - at'[r])]_vars
  BY RefusalIsJust
<1> QED BY <1>1, Invariance, PTL DEF Spec, RefusalsAreJust

\* Rate limiter: in every deployment the counter of a running window goes only to a purge given
\* a shorter window, or to a request with a shorter window that finds the dictionary full.
THEOREM RunningRowsGoAcrossWindows == Spec => LossNeedsUnequalWindows
<1>1. IInv => TypeOK
  BY DEF IInv
<1>2. TypeOK /\ [Next]_vars =>
        [\A s \in Store, k \in Key, w \in Time :
            hits[s][k][w] > 0 /\ hits'[s][k][w] = 0 /\ w >= Window(clock, WindowSeconds[k]) =>
               IF deployment.backend = "database" THEN deployment.purge < WindowSeconds[k]
               ELSE /\ Cardinality(Rows(s)) > deployment.threshold
                    /\ \E r \in Request : /\ phase'[r] # phase[r] /\ proc[r] = s
                                          /\ WindowSeconds[key[r]] < WindowSeconds[k]]_vars
  BY DropsAcrossWindows
<1> QED BY <1>1, <1>2, Invariance, PTL DEF Spec, LossNeedsUnequalWindows
===================================================================================
