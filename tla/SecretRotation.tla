------------------------------ MODULE SecretRotation ------------------------------
(***********************************************************************************)
(* The rotation of APP_SECRET_KEY: processes that read their settings once, at      *)
(* start, an operator who rolls a release out process by process and runs the      *)
(* re-encryption job, and the TOTP seeds stored under whichever secret was current *)
(* when they were written.  Secrets are numbered in the order of their use.        *)
(***********************************************************************************)
EXTENDS Naturals

CONSTANTS Process, User,
          Generations   \* bound: how many secrets there ever are

ASSUME RotationAssumption == Generations \in Nat \ {0}

VARIABLES release,    \* the settings the operator has released
          config,     \* the settings each process read at its start
          seed,       \* the secret an administrator's mfa_secret is encrypted under; 0 is no row
          rewritten   \* the users the job has treated since the last new secret

rotation == <<release, config, seed, rewritten>>

Secret == 1..Generations

\* secret_key and previous_secret_keys.
Settings == [current: Secret, previous: SUBSET Secret]

CandidatesCurrent(s) == {s.current}   \* faulty: superseded secrets are not tried
\* The secrets a process tries when it decrypts or verifies.
Candidates(s) == {s.current} \cup s.previous

Readable(p, secret) == secret \in Candidates(config[p])

\* Every SELECT of a user decrypts the seed, and raises DecryptionError if it cannot.
Loads(p, u) == seed[u] # 0 /\ Readable(p, seed[u])

RolledOut == \A p \in Process : config[p] = release

----------------------------------------------------------------------------------
RotationInit ==
    /\ release = [current |-> 1, previous |-> {}]
    /\ config = [p \in Process |-> release]
    /\ seed \in [User -> {0, 1}]
    /\ rewritten = {}

\* Step 1 of the procedure: a new secret, the live one becomes a previous one.
Introduce ==
    /\ RolledOut /\ release.current < Generations
    /\ release' = [current |-> release.current + 1, previous |-> release.previous \cup {release.current}]
    /\ rewritten' = {}
    /\ UNCHANGED <<config, seed>>

\* A deploy reaches p.  get_settings and _cipher are cached for its whole life.
Restart(p) ==
    /\ config' = [config EXCEPT ![p] = release]
    /\ UNCHANGED <<release, seed, rewritten>>

RotatedKeeps(s) == s   \* faulty: encrypts again under the secret it decrypted with
\* crypto.rotate, run with the released settings.
Rotated(s) == release.current

\* Step 2, one user: a seed that cannot be read stops the job.
Reencrypt(u) ==
    /\ RolledOut /\ release.previous # {} /\ u \notin rewritten
    /\ seed[u] \in Candidates(release) \cup {0}
    /\ seed' = [seed EXCEPT ![u] = IF @ = 0 THEN 0 ELSE Rotated(@)]
    /\ rewritten' = rewritten \cup {u}
    /\ UNCHANGED <<release, config>>

\* Step 3: the previous secrets are dropped once the job has treated every user.
Retire ==
    /\ RolledOut /\ release.previous # {} /\ rewritten = User
    /\ release' = [release EXCEPT !.previous = {}]
    /\ UNCHANGED <<config, seed, rewritten>>

\* create_admin of the command line, which also provisions the seed and commits.
Enrol(p, u) ==
    /\ seed[u] = 0
    /\ seed' = [seed EXCEPT ![u] = config[p].current]
    /\ UNCHANGED <<release, config, rewritten>>

Operator == Introduce \/ Retire \/ \E u \in User : Reencrypt(u) \/ \E p \in Process : Enrol(p, u)

----------------------------------------------------------------------------------
RotationTypeOK ==
    /\ release \in Settings /\ config \in [Process -> Settings]
    /\ seed \in [User -> Secret \cup {0}] /\ rewritten \subseteq User

\* A secret only processes that still wait for the current deploy do not know.
TooNew(p, secret) == config[p] # release /\ secret = release.current

\* "Encrypted columns stay readable across the change": at every moment of a rotation,
\* with any of the processes restarted and any of the rows rewritten, each process can
\* decrypt each seed, unless the deploy has yet to reach it and the seed is newer.
StoredIsReadable ==
    \A p \in Process, u \in User :
        seed[u] # 0 => Readable(p, seed[u]) \/ TooNew(p, seed[u])
===================================================================================
