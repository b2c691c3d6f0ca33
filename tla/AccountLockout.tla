------------------------------ MODULE AccountLockout ------------------------------
(***********************************************************************************)
(* Password sign-in and the lockout counter of one account.  A sign-in reads the   *)
(* row, verifies the password (Argon2, in any of several workers) and then writes  *)
(* absolute values computed from what it read: a failure in a transaction it       *)
(* commits at once, a success in one that commits after the response.              *)
(***********************************************************************************)
EXTENDS Naturals

CONSTANTS Request,
          Threshold, LockSeconds,   \* settings.account_lockout_threshold, _seconds
          Enabled,                  \* settings.account_lockout_enabled
          MaxTime,                  \* bound: the clock stops here
          MaxStall,                 \* bound: seconds between reading the clock and writing
          NoOne

ASSUME LockoutAssumption ==
    /\ Threshold \in Nat \ {0} /\ LockSeconds \in Nat \ {0}
    /\ Enabled \in BOOLEAN
    /\ MaxTime \in Nat /\ MaxStall \in Nat /\ NoOne \notin Request

VARIABLES clock,
          account,       \* is_active, and how it stands with the second factor
          attempts,      \* users.failed_login_attempts
          lockedUntil,   \* users.locked_until; 0 is NULL
          lock,          \* the open transaction that has written the row
          phase, seen, at,   \* of each request: progress, the row it read, its `now`
          reply,
          failures,      \* history: failed sign-ins committed, in all
          streak,        \* history: failed sign-ins committed since the last success
          failedAt,      \* history: when the latest of them read the clock
          overlapped     \* history: two sign-ins of the account have overlapped

vars == <<clock, account, attempts, lockedUntil, lock, phase, seen, at, reply,
          failures, streak, failedAt, overlapped>>
row == <<attempts, lockedUntil>>
history == <<failures, streak, failedAt, overlapped>>

Account == [active: BOOLEAN, mfa: {"not required", "enrolled", "not enrolled"}]

InFlight(r) == phase[r] \in {"failing", "succeeding", "signed_in"}

----------------------------------------------------------------------------------
Init ==
    /\ clock = 0
    /\ account \in Account
    /\ attempts = 0 /\ lockedUntil = 0 /\ lock = NoOne
    /\ phase = [r \in Request |-> "new"]
    /\ seen = [r \in Request |-> <<0, 0>>]
    /\ at = [r \in Request |-> 0]
    /\ reply = [r \in Request |-> "none"]
    /\ failures = 0 /\ streak = 0 /\ failedAt = 0 /\ overlapped = FALSE

IsLockedNever(now) == FALSE   \* faulty: the lock is not looked at
IsLocked(now) == lockedUntil > now

\* What a wrong password, or an administrator's right one with a wrong code, counts as.
Counts(password, code) ==
    \/ ~password
    \/ account.active /\ account.mfa = "enrolled" /\ ~code
    \/ account.active /\ account.mfa = "not enrolled"

\* authenticate up to the verdict: the clock and then the row are read, nothing is
\* written.  A failure is only written down while lockouts are enabled.
Authenticate(r) ==
    /\ phase[r] = "new"
    /\ \E now \in 0..clock, password, code \in BOOLEAN :
        LET locked == Enabled /\ IsLocked(now)
            counted == ~locked /\ Enabled /\ Counts(password, code)
            refused == locked \/ Counts(password, code) \/ ~account.active IN
        /\ now + MaxStall >= clock
        /\ at' = [at EXCEPT ![r] = now]
        /\ seen' = [seen EXCEPT ![r] = row]
        /\ phase' = [phase EXCEPT ![r] = IF counted THEN "failing"
                                         ELSE IF refused THEN "done" ELSE "succeeding"]
        /\ reply' = [reply EXCEPT ![r] = IF refused /\ ~counted THEN "refused" ELSE @]
    /\ overlapped' = (overlapped \/ \E q \in Request : InFlight(q))
    /\ UNCHANGED <<clock, account, row, lock, failures, streak, failedAt>>

LocksOneLate(count) == count > Threshold   \* faulty: off by one
LocksOneEarly(count) == count + 1 >= Threshold   \* faulty: off by one
Locks(count) == count >= Threshold

\* _register_failure: counter and lock are written and committed at once.
RegisterFailure(r) ==
    LET count == seen[r][1] + 1 IN
    /\ phase[r] = "failing" /\ lock = NoOne
    /\ attempts' = count
    /\ lockedUntil' = IF Locks(count) THEN at[r] + LockSeconds ELSE lockedUntil
    /\ phase' = [phase EXCEPT ![r] = "done"]
    /\ reply' = [reply EXCEPT ![r] = "refused"]
    /\ failures' = failures + 1 /\ streak' = streak + 1 /\ failedAt' = at[r]
    /\ UNCHANGED <<clock, account, lock, seen, at, overlapped>>

\* A success flushes its changes, and the redirect is sent.
SignIn(r) ==
    /\ phase[r] = "succeeding" /\ lock = NoOne
    /\ lock' = r
    /\ phase' = [phase EXCEPT ![r] = "signed_in"]
    /\ reply' = [reply EXCEPT ![r] = "signed_in"]
    /\ UNCHANGED <<clock, account, row, seen, at, history>>

ClearedByDecrement(old, current) == current - old   \* faulty: subtracts what it read
\* A column is written only if the value the session loaded differs from the new one.
Cleared(old, current) == IF old # 0 THEN 0 ELSE current

\* The commit in the teardown of get_session.
Teardown(r) ==
    /\ phase[r] = "signed_in"
    /\ attempts' = Cleared(seen[r][1], attempts)
    /\ lockedUntil' = Cleared(seen[r][2], lockedUntil)
    /\ lock' = NoOne
    /\ phase' = [phase EXCEPT ![r] = "done"]
    /\ streak' = 0
    /\ UNCHANGED <<clock, account, seen, at, reply, failures, failedAt, overlapped>>

\* The database fails or the process dies: the transaction is rolled back.
KeepsLock(r) == lock   \* faulty: the row stays locked
Unlocked(r) == IF lock = r THEN NoOne ELSE lock

Fails(r) ==
    /\ InFlight(r)
    /\ lock' = Unlocked(r)
    /\ phase' = [phase EXCEPT ![r] = "done"]
    /\ reply' = [reply EXCEPT ![r] = IF @ = "none" THEN "error" ELSE @]
    /\ UNCHANGED <<clock, account, row, seen, at, history>>

Tick ==
    /\ clock < MaxTime
    /\ \A r \in Request : InFlight(r) => clock < at[r] + MaxStall
    /\ clock' = clock + 1
    /\ UNCHANGED <<account, row, lock, phase, seen, at, reply, history>>

Done == (\A r \in Request : phase[r] = "done") /\ clock = MaxTime /\ UNCHANGED vars

Serve(r) == RegisterFailure(r) \/ SignIn(r) \/ Teardown(r)

Next == (\E r \in Request : Authenticate(r) \/ Serve(r) \/ Fails(r)) \/ Tick \/ Done

Spec == Init /\ [][Next]_vars

\* A sign-in that has read the row is not suspended for ever.
FairSpec == Spec /\ \A r \in Request : WF_vars(Serve(r))

----------------------------------------------------------------------------------
\* Every variable has its type.
TypeOK ==
    /\ clock \in 0..MaxTime
    /\ account \in Account
    /\ attempts \in Nat /\ lockedUntil \in 0..(MaxTime + LockSeconds)
    /\ lock \in Request \cup {NoOne}
    /\ phase \in [Request -> {"new", "failing", "succeeding", "signed_in", "done"}]
    /\ seen \in [Request -> Nat \X Nat]
    /\ at \in [Request -> 0..MaxTime]
    /\ reply \in [Request -> {"none", "refused", "signed_in", "error"}]
    /\ failures \in Nat /\ streak \in 0..failures /\ failedAt \in 0..MaxTime
    /\ overlapped \in BOOLEAN

\* Whatever sign-ins overlap, the counter never shows a failure that did not happen,
\* and nobody is locked out by fewer failures than the threshold.
LockIsEarned ==
    /\ attempts <= failures
    /\ lockedUntil # 0 => failures >= Threshold

\* Every sign-in is answered: none waits for ever for another's lock on the row.
EverySignInEnds == \A r \in Request : InFlight(r) ~> phase[r] = "done"

\* "locking the account once the threshold is hit": after that many failures in a row
\* the account is locked, for the configured time from the latest of them.
LocksAtThreshold ==
    Enabled /\ streak >= Threshold => lockedUntil >= failedAt + LockSeconds

\* What the code does ensure of it: it holds until two sign-ins have overlapped, also
\* through crashes, failed commits and lockouts that end between the attempts.
LocksUnlessOverlapped == ~overlapped => LocksAtThreshold

\* Until two sign-ins have overlapped, a lockout in force is never brought forward and
\* the counter behind it never falls, whatever is tried in the meantime.
LockoutStands ==
    [][Enabled /\ lockedUntil > clock /\ ~overlapped'
          => attempts' >= attempts /\ lockedUntil' >= lockedUntil]_vars

\* Under any overlap the row of the account stays well formed and overstates nothing:
\* not the failures counted, nor the right to be locked.
LockConsistent == TypeOK /\ LockIsEarned
===================================================================================
