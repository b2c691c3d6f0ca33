------------------------------- MODULE Deployment --------------------------------
(***********************************************************************************)
(* How a deployment comes to serve: its processes read their settings, migrate the  *)
(* schema, provision accounts and start, each in any order and at the same time as  *)
(* the others unless something keeps it from that.  Every process but a server runs *)
(* one program of statements and ends; what it has not committed is then lost.      *)
(***********************************************************************************)
EXTENDS Naturals, Sequences, FiniteSets

CONSTANTS Process,
          Role,        \* what each process does
          Local,       \* bound: may the environment be local or test
          Mistakes     \* bound: the mistakes an operator makes in the settings of each process

Roles == {"upgrade", "downgrade", "create_admin", "seed_demo", "serve"}
Database == {"postgres", "sqlite"}

\* A variable may have a wrong name after APP_, or be left out, as a wrong prefix leaves it too.
Mistake == ({"environment", "database_url", "secret_key"} \X {"misspelt", "missing"}) \cup {<<"debug", "on">>}

ASSUME DeploymentAssumption ==
    IsFiniteSet(Process) /\ Role \in [Process -> Roles] /\ Local \subseteq BOOLEAN
    /\ Mistakes \in [Process -> SUBSET Mistake]

VARIABLES local,     \* the operator means a local or test environment
          intended,  \* the database the operator means
          compose,   \* the deployment is that of compose.yaml
          email,     \* the account create_admin is asked for
          at,        \* where each process is
          opened,    \* the database its settings name
          unset,     \* whether APP_DATABASE_URL was left out of them
          pc,        \* the statement it executes next
          own,       \* what its open transaction has changed: schema objects and rows
          db,        \* committed: the schema, whether alembic_version says head, and the rows
          wired      \* the handlers on the event bus of each server

vars == <<local, intended, compose, email, at, opened, unset, pc, own, db, wired>>

ObjectsMisordered ==   \* faulty: a table before the one it refers to
    <<"inbound_deliveries", "rate_limit_counters", "webhook_endpoints", "api_keys", "users", "ix_users_email",
      "audit_events", "items", "webhook_deliveries">>
\* The tables in the order of their creation, and the index that makes an address unique.
Objects == <<"inbound_deliveries", "rate_limit_counters", "users", "ix_users_email", "webhook_endpoints",
             "api_keys", "audit_events", "items", "webhook_deliveries">>
Object == {Objects[i] : i \in DOMAIN Objects}

\* The foreign keys of the schema, and the table of the index.
References == {<<"ix_users_email", "users">>, <<"api_keys", "users">>, <<"audit_events", "users">>, <<"items", "users">>,
               <<"webhook_deliveries", "webhook_endpoints">>}
On(object) == IF object = "ix_users_email" THEN "users" ELSE object

Email == {"admin@example.com", "member@example.com"}   \* bound: the seed's two addresses

----------------------------------------------------------------------------------
(* The programs. *)

Upgrade == [i \in 1..Len(Objects) |-> <<"create", Objects[i]>>] \o << <<"commit", "all">> >>
Downgrade == [i \in 1..Len(Objects) |-> <<"drop", Objects[Len(Objects) + 1 - i]>>] \o << <<"commit", "all">> >>

create_user(e) == << <<"refuse", "users", e>>, <<"insert", "users", e>> >>
create_item == << <<"refuse", "items", "item-101">>, <<"insert", "items", "item-101">> >>

CreateAdminLate(e) ==   \* faulty: the second factor is provisioned after the commit
    << <<"skip", "users", e>> >> \o create_user(e) \o << <<"commit", "all">>, <<"totp", "users", e>> >>
CreateAdmin(e) ==
    << <<"skip", "users", e>> >> \o create_user(e) \o << <<"totp", "users", e>>, <<"commit", "all">> >>

SeedPiecemeal ==   \* faulty: the accounts are committed before the records
    << <<"skip", "users", "admin@example.com">> >>
    \o create_user("admin@example.com") \o create_user("member@example.com")
    \o << <<"totp", "users", "admin@example.com">>, <<"commit", "all">> >> \o create_item
    \o << <<"insert", "api_keys", "local-development">>, <<"commit", "all">> >>
SeedDemo ==
    << <<"skip", "users", "admin@example.com">> >>
    \o create_user("admin@example.com") \o create_user("member@example.com") \o create_item
    \o << <<"insert", "api_keys", "local-development">>, <<"totp", "users", "admin@example.com">>, <<"commit", "all">> >>

Program(p) ==
    CASE Role[p] = "upgrade" -> Upgrade
      [] Role[p] = "downgrade" -> Downgrade
      [] Role[p] = "create_admin" -> CreateAdmin(email[p])
      [] Role[p] = "seed_demo" -> SeedDemo
      [] OTHER -> << >>

Step(p) == Program(p)[pc[p]]

----------------------------------------------------------------------------------
(* The settings. *)

\* A variable that does not reach the process leaves its default; the one of APP_ENVIRONMENT
\* is "local", but "production" in the image that compose runs.
Default(m, variable) == <<variable, "misspelt">> \in m \/ <<variable, "missing">> \in m
is_local_or_test(m) == local \/ (Default(m, "environment") /\ ~compose)
Opens(m) == IF Default(m, "database_url") THEN "sqlite" ELSE intended

UnknownIgnored(m) == FALSE   \* faulty: pydantic-settings alone, extra="forbid"
UnknownVariable(m) == \E mistake \in m : mistake[2] = "misspelt"

SqliteAllowed(m) == ~is_local_or_test(m) /\ (Default(m, "secret_key") \/ <<"debug", "on">> \in m)   \* faulty: any database
DevDefaults(m) ==
    ~is_local_or_test(m) /\ (Default(m, "secret_key") \/ <<"debug", "on">> \in m \/ Opens(m) = "sqlite")

\* seed_demo starts only in a local environment.
Refused(p, m) ==
    UnknownVariable(m) \/ DevDefaults(m) \/ (Role[p] = "seed_demo" /\ ~is_local_or_test(m))

\* Compose says staging, and PostgreSQL.
Init ==
    /\ local \in Local /\ intended \in Database /\ compose \in BOOLEAN
    /\ compose => ~local /\ intended = "postgres"
    /\ email \in [Process -> Email]
    /\ \A p \in Process : Role[p] # "create_admin" => email[p] = "admin@example.com"
    /\ at = [p \in Process |-> "down"]
    /\ opened = [p \in Process |-> intended]
    /\ unset = [p \in Process |-> FALSE]
    /\ pc = [p \in Process |-> 1]
    /\ own = [p \in Process |-> [objects |-> {}, rows |-> {}]]
    /\ db = [d \in Database |-> [objects |-> {}, head |-> FALSE, rows |-> {}]]
    /\ wired = [p \in Process |-> << >>]

----------------------------------------------------------------------------------
(* Start-up. *)

\* The application of compose waits for its migration to have completed successfully; a
\* server that is started in any other way waits for nothing.
Unordered(p) == TRUE   \* faulty: the application does not wait for the migration
Ordered(p) == compose /\ Role[p] = "serve" => \E q \in Process : Role[q] = "upgrade" /\ at[q] = "ended"

SubscribeAgain(bus, h) == Append(bus, h)   \* faulty: a repeat is not ignored
subscribe(bus, h) == IF \E i \in DOMAIN bus : bus[i] = h THEN bus ELSE Append(bus, h)
Wire(p) == wired' = [wired EXCEPT ![p] = subscribe(subscribe(@, "webhooks"), "audit")]

\* The settings are read at import.
Boot(p) ==
    /\ at[p] = "down" /\ Ordered(p)
    /\ \E m \in SUBSET Mistakes[p] :
        /\ ~Refused(p, m)
        /\ opened' = [opened EXCEPT ![p] = Opens(m)]
        /\ unset' = [unset EXCEPT ![p] = <<"database_url", "missing">> \in m]
    /\ IF Role[p] = "serve" THEN at' = [at EXCEPT ![p] = "serving"] /\ Wire(p)
       ELSE at' = [at EXCEPT ![p] = "booted"] /\ UNCHANGED wired
    /\ UNCHANGED <<local, intended, compose, email, pc, own, db>>

RefuseSettings(p) ==
    /\ at[p] = "down" /\ Ordered(p)
    /\ \E m \in SUBSET Mistakes[p] : Refused(p, m)
    /\ at' = [at EXCEPT ![p] = "refused"]
    /\ UNCHANGED <<local, intended, compose, email, opened, unset, pc, own, db, wired>>

\* A server wires its bus again: another application in the same process enters its
\* lifespan, or a warm Lambda imports its handler.
WireAgain(p) ==
    /\ at[p] = "serving" /\ Wire(p)
    /\ UNCHANGED <<local, intended, compose, email, at, opened, unset, pc, own, db>>

\* restart: unless-stopped, or by hand.
Restart(p) ==
    /\ at[p] \in {"serving", "refused"} /\ Role[p] = "serve"
    /\ at' = [at EXCEPT ![p] = "down"]
    /\ opened' = [opened EXCEPT ![p] = intended] /\ unset' = [unset EXCEPT ![p] = FALSE]
    /\ wired' = [wired EXCEPT ![p] = << >>]
    /\ UNCHANGED <<local, intended, compose, email, pc, own, db>>

----------------------------------------------------------------------------------
(* Transactions.  PostgreSQL's cover DDL too; SQLite commits each DDL statement. *)

DdlAutocommits(d) == FALSE   \* faulty: each table is committed when it is created
Transactional(d) == d = "postgres"

Ddl(p) == Role[p] \in {"upgrade", "downgrade"}
Others(p) == {q \in Process \ {p} : at[q] = "running" /\ opened[q] = opened[p]}
Here(p) == db[opened[p]]

\* The tables an open transaction has read or changed.
Held(q) == {On(Program(q)[i][2]) : i \in 1..(pc[q] - 1)}

\* DDL waits for every transaction that has used its table, and they for it; a row waits
\* for another of the same key.  SQLite has one writer at a time, and readers never wait.
Waits(p) ==
    \E q \in Others(p) :
        IF opened[p] = "postgres"
        THEN /\ On(Step(p)[2]) \in Held(q)
             /\ \/ Ddl(p) \/ Ddl(q)
                \/ Step(p)[1] = "insert" /\ \E r \in own[q].rows : r.table = Step(p)[2] /\ r.key = Step(p)[3]
        ELSE Step(p)[1] \notin {"skip", "refuse"} /\ own[q].rows # {}

Exists(p, table) == table \in Here(p).objects

\* The key of items is part of its table, the one of users is its index.
UniqueItems(p) == {"items"}   \* faulty: ix_users_email is an index like any other
Unique(p) == {"items"} \cup {t \in {"users"} : Exists(p, "ix_users_email")}
Found(p, table, key) == \E r \in Here(p).rows \cup own[p].rows : r.table = table /\ r.key = key
Taken(p, table, key) == table \in Unique(p) /\ Found(p, table, key)

Executing(p, kind) ==
    /\ at[p] = "running" /\ Step(p)[1] = kind /\ (kind # "commit" => ~Waits(p))
    /\ UNCHANGED <<local, intended, compose, email, opened, unset, wired>>

Advance(p) == pc' = [pc EXCEPT ![p] = @ + 1] /\ at' = at

NothingUndone(p) == own   \* faulty: a connection goes back to its pool within a transaction
\* What is not committed is rolled back with the session, or by the database server.
RolledBack(p) == [own EXCEPT ![p] = [objects |-> {}, rows |-> {}]]

Ends(p, end) ==
    /\ at' = [at EXCEPT ![p] = end]
    /\ pc' = [pc EXCEPT ![p] = 1]
    /\ own' = RolledBack(p)

\* alembic reads the version: an upgrade at head has nothing to do, and a downgrade needs one.
Begin(p) ==
    /\ at[p] = "booted"
    /\ at' = [at EXCEPT ![p] = CASE Role[p] = "upgrade" /\ Here(p).head -> "ended"
                                 [] Role[p] = "downgrade" /\ ~Here(p).head -> "failed"
                                 [] OTHER -> "running"]
    /\ UNCHANGED <<local, intended, compose, email, opened, unset, pc, own, db, wired>>

OneEach(d) == \A r, s \in db[d].rows : r.table = "users" /\ s.table = "users" /\ r.key = s.key => r = s

\* A unique index is refused over rows that are not.
Create(p) ==
    LET t == Step(p)[2] IN
    /\ Executing(p, "create") /\ ~Exists(p, t)
    /\ t = "ix_users_email" => OneEach(opened[p])
    /\ IF Transactional(opened[p])
       THEN own' = [own EXCEPT ![p].objects = @ \cup {t}] /\ UNCHANGED db
       ELSE db' = [db EXCEPT ![opened[p]].objects = @ \cup {t}] /\ UNCHANGED own
    /\ Advance(p)

\* With a table go its rows.
Drop(p) ==
    LET t == Step(p)[2] IN
    /\ Executing(p, "drop") /\ Exists(p, t)
    /\ IF Transactional(opened[p])
       THEN own' = [own EXCEPT ![p].objects = @ \cup {t}] /\ UNCHANGED db
       ELSE /\ db' = [db EXCEPT ![opened[p]].objects = @ \ {t},
                                ![opened[p]].rows = {r \in @ : r.table # t}]
            /\ UNCHANGED own
    /\ Advance(p)

\* The CLI looks an account up and has nothing to do if it exists; create_user and
\* create_item refuse a key that is taken.
Look(p) ==
    /\ \E kind \in {"skip", "refuse"} :
        /\ Executing(p, kind) /\ Exists(p, Step(p)[2])
        /\ IF Found(p, Step(p)[2], Step(p)[3])
           THEN Ends(p, IF kind = "skip" THEN "ended" ELSE "failed")
           ELSE Advance(p) /\ UNCHANGED own
    /\ UNCHANGED db

Password == [guessable: BOOLEAN, breached: BOOLEAN]

OutageAdmits(pw, answered) == answered => ~pw.guessable /\ ~pw.breached   \* faulty: the whole policy fails open
\* validate: the offline rules always apply, the breach corpus when it answers.
ValidPassword(pw, answered) == ~pw.guessable /\ (answered => ~pw.breached)

\* A row is added; an account's password has passed the policy.
Insert(p) ==
    LET t == Step(p)[2]  k == Step(p)[3] IN
    /\ Executing(p, "insert") /\ Exists(p, t) /\ ~Taken(p, t, k)
    /\ \E pw \in Password, answered \in BOOLEAN :
        /\ ValidPassword(pw, answered)
        /\ own' = [own EXCEPT ![p].rows = @ \cup
               {[table |-> t, key |-> k, by |-> p, totp |-> FALSE, guessable |-> pw.guessable]}]
    /\ Advance(p) /\ UNCHANGED db

Provision(p) ==
    /\ Executing(p, "totp")
    /\ own' = [own EXCEPT ![p].rows = {[r EXCEPT !.totp = @ \/ r.key = Step(p)[3]] : r \in @}]
    /\ Advance(p) /\ UNCHANGED db

\* The transaction of a migration ends with the version, of one of the CLI with the print.
Commit(p) ==
    /\ Executing(p, "commit")
    /\ LET schema == IF Role[p] = "downgrade" THEN Here(p).objects \ own[p].objects ELSE Here(p).objects \cup own[p].objects
       IN db' = [db EXCEPT ![opened[p]] =
                    [objects |-> schema,
                     head   |-> IF Ddl(p) THEN Role[p] = "upgrade" ELSE @.head,
                     rows   |-> {r \in @.rows \cup own[p].rows : r.table \in schema}]]
    /\ IF pc[p] = Len(Program(p)) THEN Ends(p, "ended")
       ELSE Advance(p) /\ own' = [own EXCEPT ![p] = [objects |-> {}, rows |-> {}]]

\* A statement or the password is refused, a lock is not granted, or the process is killed.
Fail(p) ==
    /\ at[p] = "running"
    /\ Ends(p, "failed")
    /\ UNCHANGED <<local, intended, compose, email, opened, unset, db, wired>>

Execute(p) ==
    \/ Begin(p) \/ Create(p) \/ Drop(p) \/ Look(p) \/ Insert(p) \/ Provision(p) \/ Commit(p) \/ Fail(p)

\* Nothing is left to do but to start servers.
Quiet ==
    /\ \A p \in Process : at[p] \in {"refused", "ended", "failed"} \/ Role[p] = "serve"
    /\ UNCHANGED vars

Next == (\E p \in Process : Boot(p) \/ RefuseSettings(p) \/ WireAgain(p) \/ Restart(p) \/ Execute(p)) \/ Quiet

Spec == Init /\ [][Next]_vars

----------------------------------------------------------------------------------
Undone == \E p \in Process : Role[p] = "downgrade" /\ at[p] # "down"

Row == [table : {"users", "items", "api_keys"}, key : Email \cup {"item-101", "local-development"},
        by : Process, totp : BOOLEAN, guessable : BOOLEAN]

\* Every variable has its type, and a process without a transaction has no changes pending.
TypeOK ==
    /\ local \in BOOLEAN /\ intended \in Database /\ compose \in BOOLEAN /\ email \in [Process -> Email]
    /\ at \in [Process -> {"down", "booted", "running", "serving", "refused", "ended", "failed"}]
    /\ opened \in [Process -> Database] /\ unset \in [Process -> BOOLEAN] /\ pc \in [Process -> Nat]
    /\ own \in [Process -> [objects : SUBSET Object, rows : SUBSET Row]]
    /\ \A p \in Process :
        /\ at[p] = "running" => pc[p] \in 1..Len(Program(p))
        /\ at[p] # "running" => pc[p] = 1 /\ own[p] = [objects |-> {}, rows |-> {}]
    /\ db \in [Database -> [objects : SUBSET Object, head : BOOLEAN, rows : SUBSET Row]]
    /\ wired \in [Process -> Seq({"webhooks", "audit"})]

\* On PostgreSQL the version tells the schema, wherever a migration was killed and however
\* many run at once; on SQLite, head says that all of it is there until it is undone.
SchemaMatchesVersion ==
    /\ db["postgres"].objects = IF db["postgres"].head THEN Object ELSE {}
    /\ db["sqlite"].head /\ ~Undone => db["sqlite"].objects = Object

\* No table refers to one that is not there, even in a migration that was cut short.
ReferencesExist ==
    \A d \in Database, ref \in References : ref[1] \in db[d].objects => ref[2] \in db[d].objects

\* A migration has completed on the database that the operator means.
Migrated == \E q \in Process : Role[q] = "upgrade" /\ at[q] = "ended" /\ ~unset[q]

\* A server finds the whole schema in the database it opens, unless the operator has begun
\* to take it down: the server of compose whichever variables are misspelt or left out, for
\* it or for the migration it waits for; any other one if it is started after a migration and
\* APP_DATABASE_URL was left out for neither, whatever is misspelt.
ServesOnSchema ==
    [][\A p \in Process : at[p] # "serving" /\ at'[p] = "serving" /\ (compose \/ (Migrated /\ ~unset'[p])) =>
          db[opened'[p]].objects = Object \/ Undone]_vars

\* No two accounts have one address, though each command looks first and inserts later: on
\* PostgreSQL ever, on SQLite once a migration has got past the table to its index.
OneUserPerEmail ==
    \A d \in Database : d = "postgres" \/ "ix_users_email" \in db[d].objects => OneEach(d)

\* An administrator cannot sign in without a TOTP seed, so none is ever stored without one.
AdminsHaveTotp ==
    \A d \in Database : \A r \in db[d].rows :
        r.table = "users" /\ (Role[r.by] = "create_admin" \/ r.key = "admin@example.com") => r.totp

\* No account is stored with a password the offline rules refuse, also while the breach
\* corpus cannot be asked.
NoGuessablePasswords == \A d \in Database : \A r \in db[d].rows : ~r.guessable

\* What a command has stored is all of what it stores, or nothing, wherever it was killed.
StoredWhole ==
    Undone \/ \A d \in Database : \A r \in db[d].rows :
        \A i \in DOMAIN Program(r.by) : Program(r.by)[i][1] = "insert" =>
            \E s \in db[d].rows : s.by = r.by /\ <<s.table, s.key>> = Tail(Program(r.by)[i])

\* A server calls each handler once for an event, however often its bus was wired.
HandlersOnce ==
    \A p \in Process : at[p] = "serving" =>
        Len(wired[p]) = 2 /\ {wired[p][i] : i \in 1..2} = {"webhooks", "audit"}

\* What processes build at start, cut short or side by side, is whole: the schema for its
\* version, and the bus of every server.
DeploymentConsistent == TypeOK /\ SchemaMatchesVersion /\ ReferencesExist /\ HandlersOnce

\* Accounts are usable however the commands that provision them overlap or are killed.
AccountsConsistent == OneUserPerEmail /\ AdminsHaveTotp /\ NoGuessablePasswords /\ StoredWhole
===================================================================================
