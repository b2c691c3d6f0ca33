-------------------------------- MODULE RateLimit --------------------------------
(***********************************************************************************)
(* The fixed-window rate limiter and its two backends: one table of counters       *)
(* shared through the database, or one dictionary per process.  A key stands for   *)
(* "bucket:peer address" and carries the window and the limit of its bucket.       *)
(***********************************************************************************)
EXTENDS Integers, FiniteSets

CONSTANTS Request, Process,
          Key, Limit,                  \* Limit is per key
          Deployments,                 \* the ways the application may be deployed
          KeepWindows,                 \* purge_expired's keep_windows
          MaxTime,                     \* bound: the clock stops here
          MaxStall                     \* bound: seconds between reading the clock and counting

ASSUME RateLimitAssumption ==
    /\ Limit \in [Key -> Nat]
    /\ \A d \in Deployments : /\ d.backend \in {"database", "memory"}
                             /\ d.seconds \in [Key -> Nat \ {0}]   \* window length
                             /\ d.purge \in Nat \ {0}   \* purge_expired's window_seconds
                             /\ d.threshold \in Nat     \* _PRUNE_THRESHOLD
    /\ KeepWindows \in Nat
    /\ MaxTime \in Nat /\ MaxStall \in Nat

VARIABLES deployment,   \* the settings: backend, window lengths, purge argument, threshold
          clock,
          hits,      \* hits of a key in a window, per store; 0 is "no row"
          phase,     \* "new", "stamped" (the clock has been read) or the verdict
          key, proc, at,   \* what each request counts, where, and its clock reading
          retryAfter

vars == <<deployment, clock, hits, phase, key, proc, at, retryAfter>>

Time == 0..MaxTime

\* Where counters live: in one table, or in each process.
Store == IF deployment.backend = "database" THEN {"table"} ELSE Process

WindowSeconds == deployment.seconds

Window(now, seconds) == now \div seconds

Rows(s) == {row \in Key \X Time : hits[s][row[1]][row[2]] > 0}

----------------------------------------------------------------------------------
Init ==
    /\ deployment \in Deployments
    /\ clock = 0
    /\ hits = [s \in Store |-> [k \in Key |-> [w \in Time |-> 0]]]
    /\ phase = [r \in Request |-> "new"]
    /\ key \in [Request -> Key]
    /\ proc \in [Request -> Store]
    /\ at = [r \in Request |-> 0]
    /\ retryAfter = [r \in Request |-> 0]

AllowedOneMore(count, k) == count <= Limit[k] + 1   \* faulty: off by one
Allowed(count, k) == count <= Limit[k]

ResetNow(w, k) == w * WindowSeconds[k]              \* faulty: start of the same window
ResetLate(w, k) == (w + 2) * WindowSeconds[k]       \* faulty: a window too late
ResetAt(w, k) == (w + 1) * WindowSeconds[k]

AtLeastOne(n) == IF n > 1 THEN n ELSE 1

\* The counter is read from "table" and the verdict on it is given to the caller.
Verdict(r, count, w, now) ==
    /\ phase' = [phase EXCEPT ![r] = IF Allowed(count, key[r]) THEN "allowed" ELSE "refused"]
    /\ retryAfter' = [retryAfter EXCEPT ![r] = AtLeastOne(ResetAt(w, key[r]) - now)]

\* DatabaseLimiter.check, first half: the clock is read.
Stamp(r) ==
    /\ deployment.backend = "database" /\ phase[r] = "new"
    /\ phase' = [phase EXCEPT ![r] = "stamped"]
    /\ at' = [at EXCEPT ![r] = clock]
    /\ UNCHANGED <<deployment, clock, hits, key, proc, retryAfter>>

\* Second half: one atomic upsert, committed at once.
Upsert(r) ==
    LET k == key[r]
        w == Window(at[r], WindowSeconds[k])
        count == hits["table"][k][w] + 1 IN
    /\ phase[r] = "stamped"
    /\ hits' = [hits EXCEPT !["table"][k][w] = count]
    /\ Verdict(r, count, w, at[r])
    /\ UNCHANGED <<deployment, clock, key, proc, at>>

\* MemoryLimiter: past the threshold, every entry with a smaller window number than
\* the current request's goes, whatever its own key's window is.
PrunedAlways(s, w) == [k \in Key |-> [v \in Time |-> IF v <= w THEN 0 ELSE hits[s][k][v]]]   \* faulty: prunes the current window
Pruned(s, w) ==
    IF Cardinality(Rows(s)) > deployment.threshold
    THEN [k \in Key |-> [v \in Time |-> IF v < w THEN 0 ELSE hits[s][k][v]]]
    ELSE hits[s]

\* MemoryLimiter.check: nothing is awaited, so it is one step of its process.
CheckMemory(r) ==
    LET k == key[r]
        s == proc[r]
        w == Window(clock, WindowSeconds[k])
        count == Pruned(s, w)[k][w] + 1 IN
    /\ deployment.backend = "memory" /\ phase[r] = "new"
    /\ hits' = [hits EXCEPT ![s] = [Pruned(s, w) EXCEPT ![k][w] = count]]
    /\ at' = [at EXCEPT ![r] = clock]
    /\ Verdict(r, count, w, clock)
    /\ UNCHANGED <<deployment, clock, key, proc>>

CutoffAhead == Window(clock, deployment.purge) + 1             \* faulty: the current window too
Cutoff == Window(clock, deployment.purge) - KeepWindows

\* purge_expired, called by a periodic job.  A DELETE that runs later than its cutoff
\* was computed only drops fewer rows.
Purge ==
    /\ deployment.backend = "database"
    /\ hits' = [hits EXCEPT !["table"] =
                   [k \in Key |-> [w \in Time |-> IF w < Cutoff THEN 0 ELSE @[k][w]]]]
    /\ UNCHANGED <<deployment, clock, phase, key, proc, at, retryAfter>>

\* Time passes, but no request takes longer than MaxStall between its two halves.
Tick ==
    /\ clock < MaxTime
    /\ \A r \in Request : phase[r] = "stamped" => clock - at[r] < MaxStall
    /\ clock' = clock + 1
    /\ UNCHANGED <<deployment, hits, phase, key, proc, at, retryAfter>>

Done ==
    /\ clock = MaxTime /\ \A r \in Request : phase[r] \in {"allowed", "refused"}
    /\ UNCHANGED vars

Next == (\E r \in Request : Stamp(r) \/ Upsert(r) \/ CheckMemory(r)) \/ Purge \/ Tick \/ Done

Spec == Init /\ [][Next]_vars

\* A request that has arrived is not suspended for ever, and time goes on.
FairSpec == Spec /\ WF_vars(Tick) /\ \A r \in Request : WF_vars(Upsert(r))

----------------------------------------------------------------------------------
\* Every variable has its type.
TypeOK ==
    /\ deployment \in Deployments
    /\ clock \in Time
    /\ hits \in [Store -> [Key -> [Time -> Nat]]]
    /\ phase \in [Request -> {"new", "stamped", "allowed", "refused"}]
    /\ key \in [Request -> Key] /\ proc \in [Request -> Store]
    /\ at \in [Request -> Time]
    /\ retryAfter \in [Request -> Nat]
    /\ \A r \in Request : retryAfter[r] <= WindowSeconds[key[r]]

In(r, k, w) == key[r] = k /\ Window(at[r], WindowSeconds[k]) = w

Admitted(s, k, w) == {r \in Request : phase[r] = "allowed" /\ proc[r] = s /\ In(r, k, w)}

\* Buckets whose counters last as long as a request may be counted in them, which neither
\* backend sees to: the purge is given a window at least as long and stays off the requests
\* under way; in a dictionary no other bucket has a shorter window, or there is room for all.
CountersLast(k) ==
    IF deployment.backend = "database"
    THEN /\ WindowSeconds[k] <= deployment.purge
         /\ MaxStall <= KeepWindows * deployment.purge
    ELSE \/ \A l \in Key : WindowSeconds[k] <= WindowSeconds[l]
         \/ IsFiniteSet(Request) /\ Cardinality(Request) <= deployment.threshold

\* The database limit is global and the memory limit per process: no store admits more
\* than the limit in a window, whatever the interleaving of upserts, purges and prunes.
AdmittedWithinLimit ==
    \A s \in Store, k \in Key, w \in Time :
        CountersLast(k) => Cardinality(Admitted(s, k, w)) <= Limit[k]

\* "At worst a caller gets 2x the limit across a window boundary": over any period as
\* long as the window, aligned to it or not.
TwiceAtWorst ==
    \A s \in Store, k \in Key, t \in Time : CountersLast(k) =>
        Cardinality({r \in Request : /\ phase[r] = "allowed" /\ proc[r] = s /\ key[r] = k
                                     /\ at[r] \in t..(t + WindowSeconds[k] - 1)})
            <= 2 * Limit[k]

\* However upserts, purges and prunes interleave, a store admits at most the limit in a
\* window of the clock and at most twice of it in any period of that length: in every
\* bucket whose counters last.
LimitRespected == TypeOK /\ AdmittedWithinLimit /\ TwiceAtWorst

\* In every deployment a client is turned away only if the store has admitted the full
\* limit in the window of its clock reading.  When it comes back after Retry-After, counted
\* from the answer, that window is over, by no more than the answer was delayed.
RefusalsAreJust ==
    [][\A r \in Request : phase[r] # "refused" /\ phase'[r] = "refused" =>
          LET k == key[r]
              w == Window(at'[r], WindowSeconds[k])
              back == clock + retryAfter'[r] IN
          /\ Cardinality(Admitted(proc[r], k, w)) >= Limit[k]
          /\ (w + 1) * WindowSeconds[k] <= back
          /\ back <= (w + 1) * WindowSeconds[k] + (clock - at'[r])]_vars

\* A counter of a window that is still running is lost in two ways only: to a purge that was
\* given a shorter window, or to a request on a bucket with a shorter window that finds
\* the dictionary full.
LossNeedsUnequalWindows ==
    [][\A s \in Store, k \in Key, w \in Time :
          hits[s][k][w] > 0 /\ hits'[s][k][w] = 0 /\ w >= Window(clock, WindowSeconds[k]) =>
             IF deployment.backend = "database" THEN deployment.purge < WindowSeconds[k]
             ELSE /\ Cardinality(Rows(s)) > deployment.threshold
                  /\ \E r \in Request : /\ phase'[r] # phase[r] /\ proc[r] = s
                                        /\ WindowSeconds[key[r]] < WindowSeconds[k]]_vars

\* MemoryLimiter.check says when it prunes that "Windows are monotonic, so anything from
\* an earlier one is dead": no counter of a window that is still running is dropped.
OnlyDeadRowsDropped ==
    [][\A s \in Store, k \in Key, w \in Time :
          hits[s][k][w] > 0 /\ hits'[s][k][w] = 0 => w < Window(clock, WindowSeconds[k])]_vars
===================================================================================
