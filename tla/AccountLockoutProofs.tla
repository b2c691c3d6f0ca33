--------------------------- MODULE AccountLockoutProofs ---------------------------
(***********************************************************************************)
(* Theorems about AccountLockout, for any number of sign-ins, any threshold and    *)
(* any length of the lockout.                                                      *)
(***********************************************************************************)
EXTENDS AccountLockout, TLAPS

\* The counter a sign-in computes with was once that of the row.
SeenIsEarned == \A r \in Request : seen[r][1] <= failures

\* A sign-in that goes on found no lockout in force when it read the clock.
FoundUnlocked == \A r \in Request : InFlight(r) => at[r] <= clock /\ (Enabled => seen[r][2] <= at[r])

\* While sign-ins have followed each other, what the one in flight has read is still the
\* row, and the counter counts the failures since the last success.
OneAtATime ==
    ~overlapped =>
        /\ attempts = streak
        /\ \A q, r \in Request : InFlight(q) /\ InFlight(r) => q = r
        /\ \A r \in Request : InFlight(r) => seen[r] = row

IInv == TypeOK /\ LockIsEarned /\ SeenIsEarned /\ FoundUnlocked /\ OneAtATime /\ LocksUnlessOverlapped

----------------------------------------------------------------------------------
\* The part of the assumption that is about numbers.
LEMMA Bounds == Threshold \in Nat \ {0} /\ LockSeconds \in Nat \ {0} /\ MaxTime \in Nat
  BY LockoutAssumption

LEMMA InitIInv == Init => IInv
<1> SUFFICES ASSUME Init PROVE IInv
  OBVIOUS
<1>1. TypeOK
  <2>1. clock \in 0..MaxTime /\ failedAt \in 0..MaxTime /\ lockedUntil \in 0..(MaxTime + LockSeconds)
    BY Bounds DEF Init
  <2>2. attempts \in Nat /\ failures \in Nat /\ streak \in 0..failures
    BY SMT DEF Init
  <2>3. seen \in [Request -> Nat \X Nat] /\ at \in [Request -> 0..MaxTime]
    BY Bounds DEF Init
  <2>4. overlapped \in BOOLEAN
    BY Zenon DEF Init
  <2> QED
    BY <2>1, <2>2, <2>3, <2>4 DEF Init, TypeOK
<1>2. LockIsEarned /\ SeenIsEarned /\ FoundUnlocked /\ OneAtATime
  BY DEF Init, LockIsEarned, SeenIsEarned, FoundUnlocked, OneAtATime, InFlight
<1>3. LocksUnlessOverlapped
  BY LockoutAssumption DEF Init, LocksUnlessOverlapped, LocksAtThreshold
<1> QED
  BY <1>1, <1>2, <1>3 DEF IInv

\* A sign-in that stops, or flushes its success, writes nothing: only its phase, its
\* reply and the lock of the row change.
LEMMA OneProceeds ==
    ASSUME IInv, NEW r \in Request, NEW p \in {"signed_in", "done"}, NEW a \in {"none", "refused", "signed_in", "error"},
           InFlight(r), phase' = [phase EXCEPT ![r] = p], reply' = [reply EXCEPT ![r] = a],
           lock' \in Request \cup {NoOne}, UNCHANGED <<clock, account, row, seen, at, history>>
    PROVE  IInv'
<1>1. \A q \in Request : InFlight(q)' => InFlight(q)
  BY DEF IInv, TypeOK, InFlight
<1>2. TypeOK'
  BY DEF IInv, TypeOK, row, history
<1>3. UNCHANGED <<attempts, lockedUntil, failures, streak, failedAt, overlapped>>
  BY DEF row, history
<1>4. LockIsEarned' /\ SeenIsEarned' /\ FoundUnlocked' /\ OneAtATime' /\ LocksUnlessOverlapped'
  BY <1>1, <1>3 DEF IInv, LockIsEarned, SeenIsEarned, FoundUnlocked, OneAtATime, LocksUnlessOverlapped,
                    LocksAtThreshold, row
<1> QED
  BY <1>2, <1>4 DEF IInv

LEMMA AuthenticateIInv == ASSUME IInv, NEW r \in Request, Authenticate(r) PROVE IInv'
<1>1. PICK now \in 0..clock :
        /\ at' = [at EXCEPT ![r] = now]
        /\ phase'[r] \in {"failing", "succeeding", "done"}
        /\ phase' = [phase EXCEPT ![r] = phase'[r]]
        /\ phase'[r] # "done" => ~(Enabled /\ IsLocked(now))
        /\ reply'[r] \in {"none", "refused", "signed_in", "error"}
        /\ reply' = [reply EXCEPT ![r] = reply'[r]]
  BY DEF Authenticate, IInv, TypeOK
<1>2. /\ phase[r] = "new" /\ seen' = [seen EXCEPT ![r] = row]
      /\ overlapped' = (overlapped \/ \E q \in Request : InFlight(q))
      /\ UNCHANGED <<clock, account, attempts, lockedUntil, lock, failures, streak, failedAt>>
  BY DEF Authenticate, row
<1>3. row \in Nat \X Nat /\ row[1] = attempts /\ row[2] = lockedUntil /\ row' = row
  BY <1>2, LockoutAssumption DEF IInv, TypeOK, row
<1>4. \A q \in Request \ {r} : phase'[q] = phase[q] /\ seen'[q] = seen[q] /\ at'[q] = at[q]
  BY <1>1, <1>2 DEF IInv, TypeOK
<1>5. seen'[r] = row /\ at'[r] = now
  BY <1>1, <1>2 DEF IInv, TypeOK
<1>6. now \in 0..MaxTime /\ now <= clock
  BY LockoutAssumption DEF IInv, TypeOK
<1>7. TypeOK'
  <2>1. at' \in [Request -> 0..MaxTime] /\ seen' \in [Request -> Nat \X Nat]
    BY <1>1, <1>2, <1>3, <1>6 DEF IInv, TypeOK
  <2>2. phase' \in [Request -> {"new", "failing", "succeeding", "signed_in", "done"}]
    BY <1>1 DEF IInv, TypeOK
  <2>3. reply' \in [Request -> {"none", "refused", "signed_in", "error"}]
    BY <1>1 DEF IInv, TypeOK
  <2>4. overlapped' \in BOOLEAN
    BY <1>2 DEF IInv, TypeOK
  <2> QED
    BY <1>2, <2>1, <2>2, <2>3, <2>4 DEF IInv, TypeOK
<1>8. LockIsEarned' /\ SeenIsEarned'
  BY <1>2, <1>3, <1>4, <1>5 DEF IInv, LockIsEarned, SeenIsEarned
<1>9. FoundUnlocked'
  <2> SUFFICES ASSUME NEW q \in Request, InFlight(q)'
               PROVE  at'[q] <= clock /\ (Enabled => seen'[q][2] <= at'[q])
    BY <1>2 DEF FoundUnlocked
  <2>1. CASE q = r
    BY <2>1, <1>1, <1>3, <1>5, <1>6 DEF InFlight, IsLocked, IInv, TypeOK
  <2>2. CASE q # r
    BY <2>2, <1>4 DEF IInv, FoundUnlocked, InFlight
  <2> QED
    BY <2>1, <2>2
<1>10. OneAtATime'
  <2> SUFFICES ASSUME ~overlapped' PROVE OneAtATime'
    BY DEF OneAtATime
  <2>1. ~overlapped /\ \A q \in Request : ~InFlight(q)
    BY <1>2 DEF IInv, TypeOK
  <2>2. \A q \in Request : InFlight(q)' => q = r
    BY <2>1, <1>4 DEF InFlight
  <2> QED
    BY <2>1, <2>2, <1>2, <1>3, <1>5 DEF IInv, OneAtATime
<1>11. LocksUnlessOverlapped'
  BY <1>2 DEF IInv, TypeOK, LocksUnlessOverlapped, LocksAtThreshold
<1> QED
  BY <1>7, <1>8, <1>9, <1>10, <1>11 DEF IInv

LEMMA RegisterFailureIInv == ASSUME IInv, NEW r \in Request, RegisterFailure(r) PROVE IInv'
<1> DEFINE count == seen[r][1] + 1
<1>1. /\ phase[r] = "failing" /\ attempts' = count
      /\ lockedUntil' = IF count >= Threshold THEN at[r] + LockSeconds ELSE lockedUntil
      /\ phase' = [phase EXCEPT ![r] = "done"] /\ reply' = [reply EXCEPT ![r] = "refused"]
      /\ failures' = failures + 1 /\ streak' = streak + 1 /\ failedAt' = at[r]
      /\ UNCHANGED <<clock, account, lock, seen, at, overlapped>>
  BY DEF RegisterFailure, Locks
<1>2. /\ seen[r][1] \in Nat /\ at[r] \in 0..MaxTime /\ attempts \in Nat /\ failures \in Nat
      /\ lockedUntil \in 0..(MaxTime + LockSeconds) /\ streak \in 0..failures /\ seen[r][1] <= failures
  BY DEF IInv, TypeOK, SeenIsEarned
<1>3. TypeOK'
  <2>1. lockedUntil' \in 0..(MaxTime + LockSeconds)
    BY <1>1, <1>2, LockoutAssumption
  <2>2. attempts' \in Nat /\ failures' \in Nat /\ streak' \in 0..failures' /\ failedAt' \in 0..MaxTime
    BY <1>1, <1>2
  <2> QED
    BY <1>1, <2>1, <2>2 DEF IInv, TypeOK
<1>4. LockIsEarned'
  BY <1>1, <1>2, LockoutAssumption DEF IInv, LockIsEarned
<1>5. SeenIsEarned'
  <2>1. \A q \in Request : seen[q][1] \in Nat /\ seen[q][1] <= failures
    BY DEF IInv, TypeOK, SeenIsEarned
  <2> QED
    BY <1>1, <1>2, <2>1 DEF SeenIsEarned
<1>6. \A q \in Request : InFlight(q)' => InFlight(q) /\ q # r
  BY <1>1 DEF IInv, TypeOK, InFlight
<1>7. FoundUnlocked'
  BY <1>1, <1>6 DEF IInv, FoundUnlocked
<1>8. ~overlapped => seen[r][1] = streak /\ \A q \in Request : ~InFlight(q)'
  BY <1>1, <1>6 DEF IInv, OneAtATime, InFlight, row
<1>9. OneAtATime'
  BY <1>1, <1>8 DEF OneAtATime
<1>10. LocksUnlessOverlapped'
  BY <1>1, <1>2, <1>8, LockoutAssumption DEF LocksUnlessOverlapped, LocksAtThreshold
<1> QED
  BY <1>3, <1>4, <1>5, <1>7, <1>9, <1>10 DEF IInv

LEMMA TeardownIInv == ASSUME IInv, NEW r \in Request, Teardown(r) PROVE IInv'
<1>1. /\ phase[r] = "signed_in" /\ attempts' \in {0, attempts} /\ lockedUntil' \in {0, lockedUntil}
      /\ seen[r][1] = attempts => attempts' = 0
      /\ lock' = NoOne /\ phase' = [phase EXCEPT ![r] = "done"] /\ streak' = 0
      /\ UNCHANGED <<clock, account, seen, at, reply, failures, failedAt, overlapped>>
  BY DEF Teardown, Cleared
<1>2. TypeOK'
  BY <1>1, LockoutAssumption DEF IInv, TypeOK
<1>3. LockIsEarned' /\ SeenIsEarned'
  BY <1>1 DEF IInv, TypeOK, LockIsEarned, SeenIsEarned
<1>4. \A q \in Request : InFlight(q)' => InFlight(q) /\ q # r
  BY <1>1 DEF IInv, TypeOK, InFlight
<1>5. FoundUnlocked'
  BY <1>1, <1>4 DEF IInv, FoundUnlocked
<1>6. ~overlapped => attempts' = 0 /\ \A q \in Request : ~InFlight(q)'
  BY <1>1, <1>4 DEF IInv, OneAtATime, InFlight, row
<1>7. OneAtATime'
  BY <1>1, <1>6 DEF OneAtATime
<1>8. LocksUnlessOverlapped'
  BY <1>1, LockoutAssumption DEF LocksUnlessOverlapped, LocksAtThreshold
<1> QED
  BY <1>2, <1>3, <1>5, <1>7, <1>8 DEF IInv

LEMMA TickIInv == ASSUME IInv, Tick PROVE IInv'
<1>1. clock' = clock + 1 /\ clock' \in 0..MaxTime
      /\ UNCHANGED <<account, attempts, lockedUntil, lock, phase, seen, at, reply, failures, streak, failedAt, overlapped>>
  BY LockoutAssumption DEF Tick, row, history, IInv, TypeOK
<1>2. TypeOK'
  BY <1>1 DEF IInv, TypeOK
<1>3. FoundUnlocked'
  BY <1>1 DEF IInv, TypeOK, FoundUnlocked, InFlight
<1>4. LockIsEarned' /\ SeenIsEarned' /\ OneAtATime' /\ LocksUnlessOverlapped'
  BY <1>1 DEF IInv, LockIsEarned, SeenIsEarned, OneAtATime, LocksUnlessOverlapped, LocksAtThreshold, InFlight, row
<1> QED
  BY <1>2, <1>3, <1>4 DEF IInv

LEMMA NextIInv == IInv /\ [Next]_vars => IInv'
<1> SUFFICES ASSUME IInv, [Next]_vars PROVE IInv'
  OBVIOUS
<1>1. ASSUME NEW r \in Request, Authenticate(r) PROVE IInv'
  BY <1>1, AuthenticateIInv
<1>2. ASSUME NEW r \in Request, RegisterFailure(r) PROVE IInv'
  BY <1>2, RegisterFailureIInv
<1>3. ASSUME NEW r \in Request, SignIn(r) PROVE IInv'
  BY <1>3, OneProceeds DEF SignIn, InFlight
<1>4. ASSUME NEW r \in Request, Teardown(r) PROVE IInv'
  BY <1>4, TeardownIInv
<1>5. ASSUME NEW r \in Request, Fails(r) PROVE IInv'
  <2>1. lock' \in Request \cup {NoOne}
    BY <1>5 DEF Fails, Unlocked, IInv, TypeOK
  <2>2. PICK a \in {"none", "refused", "signed_in", "error"} : reply' = [reply EXCEPT ![r] = a]
    BY <1>5 DEF Fails, IInv, TypeOK
  <2> QED
    BY <1>5, <2>1, <2>2, OneProceeds DEF Fails
<1>6. CASE Tick
  BY <1>6, TickIInv
<1>7. CASE UNCHANGED vars
  <2>1. TypeOK'
    BY <1>7 DEF vars, IInv, TypeOK
  <2> QED
    BY <1>7, <2>1 DEF vars, IInv, LockIsEarned, SeenIsEarned, FoundUnlocked, OneAtATime, LocksUnlessOverlapped,
                      LocksAtThreshold, InFlight, row
<1> QED
  BY <1>1, <1>2, <1>3, <1>4, <1>5, <1>6, <1>7 DEF Next, Serve, Done

LEMMA Invariance == Spec => []IInv
<1> QED
  BY InitIInv, NextIInv, PTL DEF Spec

\* However many sign-ins overlap, the counter never shows a failure that did not happen
\* and nobody is locked out below the threshold.
THEOREM LockStaysConsistent == Spec => []LockConsistent
<1>1. IInv => LockConsistent
  BY DEF IInv, LockConsistent
<1> QED
  BY <1>1, Invariance, PTL

\* Failures that follow each other lock the account once the threshold is hit.
THEOREM ThresholdLocks == Spec => []LocksUnlessOverlapped
<1>1. IInv => LocksUnlessOverlapped
  BY DEF IInv
<1> QED
  BY <1>1, Invariance, PTL

\* A lockout in force is never brought forward by sign-ins that follow each other.
THEOREM LockoutsStand == Spec => LockoutStands
<1>1. ASSUME IInv, [Next]_vars, Enabled, lockedUntil > clock, ~overlapped'
      PROVE  attempts' >= attempts /\ lockedUntil' >= lockedUntil
  <2>1. attempts \in Nat /\ lockedUntil \in Nat /\ clock \in Nat
    BY Bounds, <1>1 DEF IInv, TypeOK
  <2>2. ASSUME NEW r \in Request, InFlight(r), overlapped' = overlapped PROVE FALSE
    <3>1. at[r] <= clock /\ seen[r][2] <= at[r] /\ at[r] \in Nat
      BY <1>1, <2>2 DEF IInv, TypeOK, FoundUnlocked
    <3>2. seen[r] = row
      BY <1>1, <2>2 DEF IInv, OneAtATime
    <3> QED
      BY <1>1, <2>1, <3>1, <3>2 DEF row
  <2>3. ASSUME NEW r \in Request PROVE ~RegisterFailure(r) /\ ~Teardown(r)
    BY <2>2 DEF RegisterFailure, Teardown, InFlight
  <2>4. attempts' = attempts /\ lockedUntil' = lockedUntil
    BY <1>1, <2>3 DEF Next, Serve, Done, Authenticate, SignIn, Fails, Tick, vars, row
  <2> QED
    BY <2>1, <2>4
<1>2. IInv /\ [Next]_vars =>
        [Enabled /\ lockedUntil > clock /\ ~overlapped'
            => attempts' >= attempts /\ lockedUntil' >= lockedUntil]_vars
  BY <1>1
<1> QED
  BY <1>2, Invariance, PTL DEF Spec, LockoutStands
===================================================================================
