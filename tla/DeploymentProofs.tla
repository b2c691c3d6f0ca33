----------------------------- MODULE DeploymentProofs -----------------------------
(***********************************************************************************)
(* Proofs about Deployment, for any number of processes in any roles: the schema   *)
(* and the bus are whole, a server starts on a whole schema, and accounts are      *)
(* usable however the commands that provision them overlap or are killed.          *)
(***********************************************************************************)
EXTENDS Deployment, TLAPS, SequenceTheorems

\* The first n objects of the schema.
Prefix(n) == {Objects[i] : i \in 1..n}

\* Which processes are at work, and on which database: those of compose on PostgreSQL, and
\* all on the one the operator means if they are told of it.
Lives ==
    /\ compose => ~local
    /\ \A p \in Process :
        /\ at[p] \in {"booted", "running", "ended", "failed"} => Role[p] # "serve"
        /\ at[p] = "serving" => Role[p] = "serve"
        /\ at[p] \notin {"down", "refused"} =>
            (compose => opened[p] = "postgres") /\ (~unset[p] => opened[p] = intended)

\* The bus of a server is its two handlers, the bus of any other process is empty.
BusWired ==
    \A p \in Process :
        wired[p] = IF at[p] = "serving" THEN <<"webhooks", "audit">> ELSE << >>

\* What the DDL of a process has created or dropped so far.
Touched(p) ==
    CASE Role[p] = "upgrade" -> Prefix(pc[p] - 1)
      [] Role[p] = "downgrade" -> {Objects[10 - i] : i \in 1..(pc[p] - 1)}
      [] OTHER -> {}

\* In PostgreSQL they are all in the open transaction, so that its commit leaves the
\* whole schema or none of it.
TransactionsWhole ==
    /\ \A p \in Process : own[p].objects = IF opened[p] = "postgres" THEN Touched(p) ELSE {}
    /\ db["postgres"].objects = IF db["postgres"].head THEN Object ELSE {}

\* A migration of SQLite that has done some of its DDL, and how far it got.
Between(p) == at[p] = "running" /\ opened[p] = "sqlite" /\ Ddl(p) /\ pc[p] \in 2..9
Front(p) == IF Role[p] = "upgrade" THEN pc[p] - 1 ELSE 10 - pc[p]

\* SQLite always has the first objects, and there is one migration at most between its
\* first statement and its last: the others find an object there, or missing, and stop.
OneAtTheFront ==
    /\ \E n \in 0..9 : db["sqlite"].objects = Prefix(n)
    /\ \A p \in Process : Between(p) => db["sqlite"].objects = Prefix(Front(p))
    /\ \A p, q \in Process : Between(p) /\ Between(q) => p = q

\* Nothing goes as long as nothing is taken down.
NothingLost ==
    /\ \A p \in Process :
        /\ at[p] = "running" /\ Role[p] = "upgrade" /\ opened[p] = "sqlite"
               => Touched(p) \subseteq db["sqlite"].objects
        /\ at[p] = "ended" /\ Role[p] = "upgrade" => db[opened[p]].objects = Object
        /\ \A r \in own[p].rows : r.table \in db[opened[p]].objects
    /\ db["sqlite"].head => db["sqlite"].objects = Object

RowsHaveTables == \A d \in Database : \A r \in db[d].rows : r.table \in db[d].objects

SchemaInv == TransactionsWhole /\ OneAtTheFront /\ RowsHaveTables /\ (~Undone => NothingLost)

\* The statements of a kind that a process has executed.
Executed(p, kind) == {i \in 1..(pc[p] - 1) : Program(p)[i][1] = kind}

\* What an open transaction holds is what its program has inserted so far.
Pending(p) ==
    /\ \A r \in own[p].rows :
        /\ r.by = p /\ ~r.guessable
        /\ \E i \in Executed(p, "insert") : Program(p)[i][2] = r.table /\ Program(p)[i][3] = r.key
    /\ \A i \in Executed(p, "insert") :
        \E r \in own[p].rows : r.table = Program(p)[i][2] /\ r.key = Program(p)[i][3]
    /\ \A i \in Executed(p, "totp") : \A r \in own[p].rows : r.key = Program(p)[i][3] => r.totp

PendingIsProgram == \A p \in Process : Pending(p)

\* Where the addresses are kept apart.
Guarded(d) == d = "postgres" \/ "ix_users_email" \in db[d].objects

\* There no two transactions, and no transaction and the table, have a user of one address.
PendingIsUnique ==
    \A p \in Process : \A r \in own[p].rows : r.table = "users" /\ Guarded(opened[p]) =>
        /\ \A s \in db[opened[p]].rows : s.table = "users" => s.key # r.key
        /\ \A q \in Process : \A s \in own[q].rows :
            opened[q] = opened[p] /\ s.table = "users" /\ s.key = r.key => s = r

RowsInv == PendingIsProgram /\ PendingIsUnique /\ AccountsConsistent

IInv == TypeOK /\ Lives /\ BusWired /\ SchemaInv /\ RowsInv
----------------------------------------------------------------------------------
(* The programs, statement by statement.                                           *)

LEMMA ObjectsAre ==
    /\ Len(Objects) = 9
    /\ Object = Prefix(9)
    /\ \A i, j \in 1..9 : Objects[i] = Objects[j] => i = j
<1>1. Len(Objects) = 9 /\ DOMAIN Objects = 1..9
  BY DEF Objects
<1>2. \A i, j \in 1..9 : Objects[i] = Objects[j] => i = j
  BY SMT DEF Objects
<1> QED BY <1>1, <1>2 DEF Object, Prefix

LEMMA UpgradeIs ==
    /\ Len(Upgrade) = 10
    /\ \A i \in 1..9 : Upgrade[i] = <<"create", Objects[i]>>
    /\ Upgrade[10] = <<"commit", "all">>
  BY ObjectsAre DEF Upgrade

LEMMA DowngradeIs ==
    /\ Len(Downgrade) = 10
    /\ \A i \in 1..9 : Downgrade[i] = <<"drop", Objects[10 - i]>>
    /\ Downgrade[10] = <<"commit", "all">>
  BY ObjectsAre DEF Downgrade

LEMMA CreateAdminIs ==
    ASSUME NEW e
    PROVE  /\ Len(CreateAdmin(e)) = 5
           /\ CreateAdmin(e)[1] = <<"skip", "users", e>>
           /\ CreateAdmin(e)[2] = <<"refuse", "users", e>>
           /\ CreateAdmin(e)[3] = <<"insert", "users", e>>
           /\ CreateAdmin(e)[4] = <<"totp", "users", e>>
           /\ CreateAdmin(e)[5] = <<"commit", "all">>
  BY DEF CreateAdmin, create_user

LEMMA SeedDemoIs ==
    /\ Len(SeedDemo) = 10
    /\ SeedDemo[1] = <<"skip", "users", "admin@example.com">>
    /\ SeedDemo[2] = <<"refuse", "users", "admin@example.com">>
    /\ SeedDemo[3] = <<"insert", "users", "admin@example.com">>
    /\ SeedDemo[4] = <<"refuse", "users", "member@example.com">>
    /\ SeedDemo[5] = <<"insert", "users", "member@example.com">>
    /\ SeedDemo[6] = <<"refuse", "items", "item-101">>
    /\ SeedDemo[7] = <<"insert", "items", "item-101">>
    /\ SeedDemo[8] = <<"insert", "api_keys", "local-development">>
    /\ SeedDemo[9] = <<"totp", "users", "admin@example.com">>
    /\ SeedDemo[10] = <<"commit", "all">>
  BY DEF SeedDemo, create_user, create_item

\* What each kind of statement is about, and that every program ends with its commit.
Shaped(p, i) ==
    LET kind == Program(p)[i][1]
        subject == Program(p)[i][2]
        name == Program(p)[i][3]
        last == Len(Program(p)) IN
    /\ kind \in {"create", "drop", "skip", "refuse", "insert", "totp", "commit"}
    /\ kind = "commit" <=> i = last
    /\ Role[p] = "upgrade" => last = 10 /\ (i <= 9 => kind = "create" /\ subject = Objects[i])
    /\ Role[p] = "downgrade" => last = 10 /\ (i <= 9 => kind = "drop" /\ subject = Objects[10 - i])
    /\ ~Ddl(p) => kind \notin {"create", "drop"}
    /\ kind = "insert" =>
           /\ subject \in {"users", "items", "api_keys"}
           /\ name \in Email \cup {"item-101", "local-development"}
           /\ Tail(Program(p)[i]) = <<subject, name>>
           /\ subject = "users" /\ (Role[p] = "create_admin" \/ name = "admin@example.com") =>
                  Program(p)[last - 1][1] = "totp" /\ Program(p)[last - 1][3] = name
    /\ kind = "totp" => i = last - 1

LEMMA Programs ==
    ASSUME NEW p \in Process, email[p] \in Email
    PROVE  /\ Len(Program(p)) \in Nat
           /\ Role[p] # "serve" => Len(Program(p)) >= 1
           /\ \A i \in 1..Len(Program(p)) : Shaped(p, i)
<1>1. Role[p] \in Roles
  BY DeploymentAssumption
<1>2. CASE Role[p] = "upgrade"
  <2>1. Program(p) = Upgrade
    BY <1>2 DEF Program
  <2>2. ASSUME NEW i \in 1..9 PROVE Shaped(p, i)
    BY <1>2, <2>1, <2>2, UpgradeIs DEF Shaped, Ddl
  <2>3. Shaped(p, 10)
    BY <1>2, <2>1, UpgradeIs DEF Shaped, Ddl
  <2> QED BY <2>1, <2>2, <2>3, UpgradeIs
<1>3. CASE Role[p] = "downgrade"
  <2>1. Program(p) = Downgrade
    BY <1>3 DEF Program
  <2>2. ASSUME NEW i \in 1..9 PROVE Shaped(p, i)
    BY <1>3, <2>1, <2>2, DowngradeIs DEF Shaped, Ddl
  <2>3. Shaped(p, 10)
    BY <1>3, <2>1, DowngradeIs DEF Shaped, Ddl
  <2> QED BY <2>1, <2>2, <2>3, DowngradeIs
<1>4. CASE Role[p] = "create_admin"
  <2>1. Program(p) = CreateAdmin(email[p])
    BY <1>4 DEF Program
  <2>2. ~Ddl(p)
    BY <1>4 DEF Ddl
  <2>3. Shaped(p, 1) /\ Shaped(p, 2) /\ Shaped(p, 4) /\ Shaped(p, 5)
    BY <1>4, <2>1, <2>2, CreateAdminIs DEF Shaped
  <2>4. Shaped(p, 3)
    <3>1. Program(p)[3] = <<"insert", "users", email[p]>> /\ Len(Program(p)) = 5
      BY <2>1, CreateAdminIs
    <3>2. Program(p)[4] = <<"totp", "users", email[p]>>
      BY <2>1, CreateAdminIs
    <3>3. Tail(Program(p)[3]) = <<"users", email[p]>>
      BY <3>1
    <3> QED BY <1>4, <2>2, <3>1, <3>2, <3>3 DEF Shaped
  <2>5. Len(Program(p)) = 5 /\ 1..5 = {1, 2, 3, 4, 5}
    BY <2>1, CreateAdminIs
  <2> QED BY <2>3, <2>4, <2>5
<1>5. CASE Role[p] = "seed_demo"
  <2>1. Program(p) = SeedDemo
    BY <1>5 DEF Program
  <2>2. ~Ddl(p)
    BY <1>5 DEF Ddl
  <2>3. Shaped(p, 1) /\ Shaped(p, 2) /\ Shaped(p, 4) /\ Shaped(p, 6)
    BY <1>5, <2>1, <2>2, SeedDemoIs DEF Shaped
  <2>4. Shaped(p, 9) /\ Shaped(p, 10)
    BY <1>5, <2>1, <2>2, SeedDemoIs DEF Shaped
  <2>5. Shaped(p, 3)
    BY <1>5, <2>1, <2>2, SeedDemoIs DEF Shaped, Email
  <2>6. Shaped(p, 5)
    BY <1>5, <2>1, <2>2, SeedDemoIs DEF Shaped, Email
  <2>7. Shaped(p, 7)
    BY <1>5, <2>1, <2>2, SeedDemoIs DEF Shaped
  <2>8. Shaped(p, 8)
    BY <1>5, <2>1, <2>2, SeedDemoIs DEF Shaped
  <2> QED BY <2>1, <2>3, <2>4, <2>5, <2>6, <2>7, <2>8, SeedDemoIs
<1>6. CASE Role[p] = "serve"
  BY <1>6 DEF Program
<1> QED BY <1>1, <1>2, <1>3, <1>4, <1>5, <1>6 DEF Roles

----------------------------------------------------------------------------------
(* Control: types, the life of a process, the bus.                                 *)

ControlInv == TypeOK /\ Lives /\ BusWired

\* What the statement under way is.
LEMMA Running ==
    ASSUME TypeOK, NEW p \in Process, at[p] = "running"
    PROVE  /\ pc[p] \in 1..Len(Program(p)) /\ Len(Program(p)) \in Nat
           /\ Shaped(p, pc[p])
           /\ \A i \in 1..Len(Program(p)) : Shaped(p, i)
  BY Programs DEF TypeOK

\* No step changes a program.
LEMMA StepFrame ==
    ASSUME [Next]_vars
    PROVE  /\ UNCHANGED <<local, intended, compose, email>>
           /\ \A p : Program(p)' = Program(p)
<1>1. UNCHANGED <<local, intended, compose, email>>
  BY DEF Next, vars, Boot, RefuseSettings, WireAgain, Restart, Execute, Begin, Create, Drop, Look, Insert,
         Provision, Commit, Fail, Executing, Quiet
<1> QED BY <1>1 DEF Program

\* Wiring a bus that is empty or wired leaves it wired once.
LEMMA WiredOnce ==
    ASSUME TypeOK, BusWired, NEW p \in Process, Wire(p)
    PROVE  wired' = [wired EXCEPT ![p] = <<"webhooks", "audit">>]
<1>1. wired[p] = << >> \/ wired[p] = <<"webhooks", "audit">>
  BY DEF BusWired
<1>2. subscribe(<< >>, "webhooks") = <<"webhooks">>
  BY DEF subscribe
<1>3. subscribe(<<"webhooks">>, "audit") = <<"webhooks", "audit">>
  <2>1. ~\E i \in DOMAIN <<"webhooks">> : <<"webhooks">>[i] = "audit"
    OBVIOUS
  <2>2. Append(<<"webhooks">>, "audit") = <<"webhooks", "audit">>
    <3> DEFINE bus == Append(<<"webhooks">>, "audit")
    <3>1. bus \in Seq({"webhooks", "audit"}) /\ Len(bus) = 2
      OBVIOUS
    <3>2. <<"webhooks", "audit">> \in Seq({"webhooks", "audit"}) /\ Len(<<"webhooks", "audit">>) = 2
      OBVIOUS
    <3>3. \A i \in 1..2 : bus[i] = <<"webhooks", "audit">>[i]
      OBVIOUS
    <3> QED BY <3>1, <3>2, <3>3, SeqEqual
  <2> QED BY <2>1, <2>2 DEF subscribe
<1>4. subscribe(<<"webhooks", "audit">>, "webhooks") = <<"webhooks", "audit">>
  BY DEF subscribe
<1>5. subscribe(<<"webhooks", "audit">>, "audit") = <<"webhooks", "audit">>
  BY DEF subscribe
<1> QED BY <1>1, <1>2, <1>3, <1>4, <1>5 DEF Wire

\* A program runs statement by statement.
LEMMA Statements ==
    ASSUME ControlInv, NEW p \in Process, Execute(p)
    PROVE  /\ Role[p] # "serve"
           /\ UNCHANGED <<opened, unset, wired>>
           /\ \/ Begin(p)
              \/ /\ at[p] = "running"
                 /\ \/ Create(p) \/ Drop(p) \/ Insert(p) \/ Provision(p) \/ Commit(p)
                    \/ Look(p) \/ Fail(p)
<1>1. at[p] \in {"booted", "running"}
  BY DEF Execute, Begin, Create, Drop, Look, Insert, Provision, Commit, Fail, Executing
<1>2. UNCHANGED <<opened, unset, wired>>
  BY DEF Execute, Begin, Create, Drop, Look, Insert, Provision, Commit, Fail, Executing
<1>3. Begin(p) \/ at[p] = "running"
  BY DEF Execute, Create, Drop, Look, Insert, Provision, Commit, Fail, Executing
<1> QED BY <1>1, <1>2, <1>3 DEF Execute, ControlInv, Lives

\* What a process executes when it is running, by its role.
LEMMA Kinds ==
    ASSUME TypeOK, NEW p \in Process, at[p] = "running"
    PROVE  LET kind == Program(p)[pc[p]][1]
               subject == Program(p)[pc[p]][2] IN
           /\ kind = "create" => Role[p] = "upgrade" /\ pc[p] \in 1..9 /\ subject = Objects[pc[p]]
           /\ kind = "drop" => Role[p] = "downgrade" /\ pc[p] \in 1..9 /\ subject = Objects[10 - pc[p]]
           /\ kind = "commit" <=> pc[p] = Len(Program(p))
           /\ kind \notin {"create", "drop", "commit"} => ~Ddl(p)
           /\ kind # "commit" => pc[p] + 1 \in 1..Len(Program(p))
           /\ Ddl(p) => Len(Program(p)) = 10
<1> DEFINE kind == Program(p)[pc[p]][1]
           last == Len(Program(p))
<1>1. Shaped(p, pc[p]) /\ pc[p] \in 1..last /\ last \in Nat
  BY Running
<1>2. kind = "commit" <=> pc[p] = last
  BY <1>1 DEF Shaped
<1>3. /\ Role[p] = "upgrade" => last = 10 /\ (pc[p] <= 9 => kind = "create" /\ Program(p)[pc[p]][2] = Objects[pc[p]])
      /\ Role[p] = "downgrade" => last = 10 /\ (pc[p] <= 9 => kind = "drop" /\ Program(p)[pc[p]][2] = Objects[10 - pc[p]])
      /\ ~Ddl(p) => kind \notin {"create", "drop"}
  BY <1>1 DEF Shaped
<1>4. Ddl(p) <=> Role[p] = "upgrade" \/ Role[p] = "downgrade"
  BY DEF Ddl
<1> HIDE DEF kind, last
<1>5. Ddl(p) => last = 10 /\ (pc[p] # 10 => pc[p] \in 1..9)
  BY <1>1, <1>3, <1>4
<1>6. kind # "commit" => pc[p] + 1 \in 1..last
  BY <1>1, <1>2
<1>7. kind = "create" => Role[p] = "upgrade" /\ pc[p] \in 1..9
  BY <1>2, <1>3, <1>4, <1>5
<1>8. kind = "drop" => Role[p] = "downgrade" /\ pc[p] \in 1..9
  BY <1>2, <1>3, <1>4, <1>5
<1>9. kind \notin {"create", "drop", "commit"} => ~Ddl(p)
  BY <1>2, <1>3, <1>4, <1>5
<1> QED BY <1>2, <1>3, <1>5, <1>6, <1>7, <1>8, <1>9 DEF kind, last

(* Updates of one field of a record, written as updates of the whole.               *)

LEMMA OwnParts ==
    ASSUME TypeOK, NEW p \in Process, NEW x
    PROVE  /\ [own EXCEPT ![p].objects = x] = [own EXCEPT ![p] = [objects |-> x, rows |-> own[p].rows]]
           /\ [own EXCEPT ![p].rows = x] = [own EXCEPT ![p] = [objects |-> own[p].objects, rows |-> x]]
<1>1. own \in [Process -> [objects : SUBSET Object, rows : SUBSET Row]]
  BY DEF TypeOK
<1>2. /\ [own[p] EXCEPT !.objects = x] = [objects |-> x, rows |-> own[p].rows]
      /\ [own[p] EXCEPT !.rows = x] = [objects |-> own[p].objects, rows |-> x]
  <2>1. own[p] \in [objects : SUBSET Object, rows : SUBSET Row]
    BY <1>1
  <2> QED BY <2>1
<1>3. /\ [own EXCEPT ![p].objects = x] = [own EXCEPT ![p] = [own[p] EXCEPT !.objects = x]]
      /\ [own EXCEPT ![p].rows = x] = [own EXCEPT ![p] = [own[p] EXCEPT !.rows = x]]
  BY <1>1
<1> QED BY <1>2, <1>3

LEMMA DbParts ==
    ASSUME TypeOK, NEW d \in Database, NEW x
    PROVE  [db EXCEPT ![d].objects = x] =
               [db EXCEPT ![d] = [objects |-> x, head |-> db[d].head, rows |-> db[d].rows]]
<1>1. db \in [Database -> [objects : SUBSET Object, head : BOOLEAN, rows : SUBSET Row]]
  BY DEF TypeOK
<1>2. [db[d] EXCEPT !.objects = x] = [objects |-> x, head |-> db[d].head, rows |-> db[d].rows]
  <2>1. db[d] \in [objects : SUBSET Object, head : BOOLEAN, rows : SUBSET Row]
    BY <1>1
  <2> QED BY <2>1
<1>3. [db EXCEPT ![d].objects = x] = [db EXCEPT ![d] = [db[d] EXCEPT !.objects = x]]
  BY <1>1
<1> QED BY <1>2, <1>3

LEMMA DbPartsBoth ==
    ASSUME TypeOK, NEW d \in Database, NEW x, NEW y
    PROVE  [db EXCEPT ![d].objects = x, ![d].rows = y] =
               [db EXCEPT ![d] = [objects |-> x, head |-> db[d].head, rows |-> y]]
<1>1. db \in [Database -> [objects : SUBSET Object, head : BOOLEAN, rows : SUBSET Row]]
  BY DEF TypeOK
<1>2. [db[d] EXCEPT !.objects = x, !.rows = y] = [objects |-> x, head |-> db[d].head, rows |-> y]
  <2>0. db[d] \in [objects : SUBSET Object, head : BOOLEAN, rows : SUBSET Row]
    BY <1>1
  <2>1. [db[d] EXCEPT !.objects = x] = [objects |-> x, head |-> db[d].head, rows |-> db[d].rows]
    BY <2>0
  <2>2. [db[d] EXCEPT !.objects = x, !.rows = y] = [[db[d] EXCEPT !.objects = x] EXCEPT !.rows = y]
    BY <2>0
  <2>3. [[objects |-> x, head |-> db[d].head, rows |-> db[d].rows] EXCEPT !.rows = y]
            = [objects |-> x, head |-> db[d].head, rows |-> y]
    OBVIOUS
  <2> QED BY <2>1, <2>2, <2>3
<1>3. [db EXCEPT ![d].objects = x, ![d].rows = y] = [db EXCEPT ![d] = [db[d] EXCEPT !.objects = x, !.rows = y]]
  BY <1>1
<1> QED BY <1>2, <1>3

\* What each step of a program does, in full.
LEMMA CreateEffect ==
    ASSUME ControlInv, NEW p \in Process, Create(p)
    PROVE  LET t == Objects[pc[p]] IN
           /\ at[p] = "running" /\ Role[p] = "upgrade" /\ pc[p] \in 1..9
           /\ at' = at /\ pc' = [pc EXCEPT ![p] = pc[p] + 1] /\ opened' = opened
           /\ t \notin db[opened[p]].objects
           /\ \/ /\ opened[p] = "postgres" /\ db' = db
                 /\ own' = [own EXCEPT ![p] = [objects |-> own[p].objects \cup {t}, rows |-> own[p].rows]]
              \/ /\ opened[p] = "sqlite" /\ own' = own
                 /\ db' = [db EXCEPT !["sqlite"] = [objects |-> db["sqlite"].objects \cup {t},
                                                    head |-> db["sqlite"].head, rows |-> db["sqlite"].rows]]
<1>1. at[p] = "running" /\ Program(p)[pc[p]][1] = "create" /\ opened' = opened
  BY DEF Create, Executing, Step
<1>2. Role[p] = "upgrade" /\ pc[p] \in 1..9 /\ Program(p)[pc[p]][2] = Objects[pc[p]]
  BY <1>1, Kinds DEF ControlInv
<1>3. at' = at /\ pc' = [pc EXCEPT ![p] = pc[p] + 1] /\ Objects[pc[p]] \notin db[opened[p]].objects
  BY <1>2 DEF Create, Advance, Exists, Here, Step
<1>4. CASE opened[p] = "postgres"
  <2>1. db' = db /\ own' = [own EXCEPT ![p].objects = own[p].objects \cup {Objects[pc[p]]}]
    BY <1>2, <1>4 DEF Create, Transactional, Step
  <2>2. own' = [own EXCEPT ![p] = [objects |-> own[p].objects \cup {Objects[pc[p]]}, rows |-> own[p].rows]]
    BY <2>1, OwnParts DEF ControlInv, TypeOK
  <2> QED BY <1>1, <1>2, <1>3, <1>4, <2>1, <2>2
<1>5. CASE opened[p] = "sqlite"
  <2>1. own' = own /\ db' = [db EXCEPT !["sqlite"].objects = db["sqlite"].objects \cup {Objects[pc[p]]}]
    BY <1>2, <1>5 DEF Create, Transactional, Step
  <2>2. db' = [db EXCEPT !["sqlite"] = [objects |-> db["sqlite"].objects \cup {Objects[pc[p]]},
                                        head |-> db["sqlite"].head, rows |-> db["sqlite"].rows]]
    BY <2>1, DbParts DEF ControlInv, TypeOK, Database
  <2> QED BY <1>1, <1>2, <1>3, <1>5, <2>1, <2>2
<1> QED BY <1>4, <1>5 DEF ControlInv, TypeOK, Database

LEMMA DropEffect ==
    ASSUME ControlInv, NEW p \in Process, Drop(p)
    PROVE  LET t == Objects[10 - pc[p]] IN
           /\ at[p] = "running" /\ Role[p] = "downgrade" /\ pc[p] \in 1..9
           /\ at' = at /\ pc' = [pc EXCEPT ![p] = pc[p] + 1] /\ opened' = opened
           /\ t \in db[opened[p]].objects
           /\ \/ /\ opened[p] = "postgres" /\ db' = db
                 /\ own' = [own EXCEPT ![p] = [objects |-> own[p].objects \cup {t}, rows |-> own[p].rows]]
              \/ /\ opened[p] = "sqlite" /\ own' = own
                 /\ db' = [db EXCEPT !["sqlite"] =
                              [objects |-> db["sqlite"].objects \ {t}, head |-> db["sqlite"].head,
                               rows |-> {r \in db["sqlite"].rows : r.table # t}]]
<1>1. at[p] = "running" /\ Program(p)[pc[p]][1] = "drop" /\ opened' = opened
  BY DEF Drop, Executing, Step
<1>2. Role[p] = "downgrade" /\ pc[p] \in 1..9 /\ Program(p)[pc[p]][2] = Objects[10 - pc[p]]
  BY <1>1, Kinds DEF ControlInv
<1>3. at' = at /\ pc' = [pc EXCEPT ![p] = pc[p] + 1] /\ Objects[10 - pc[p]] \in db[opened[p]].objects
  BY <1>2 DEF Drop, Advance, Exists, Here, Step
<1>4. CASE opened[p] = "postgres"
  <2>1. db' = db /\ own' = [own EXCEPT ![p].objects = own[p].objects \cup {Objects[10 - pc[p]]}]
    BY <1>2, <1>4 DEF Drop, Transactional, Step
  <2>2. own' = [own EXCEPT ![p] = [objects |-> own[p].objects \cup {Objects[10 - pc[p]]}, rows |-> own[p].rows]]
    BY <2>1, OwnParts DEF ControlInv, TypeOK
  <2> QED BY <1>1, <1>2, <1>3, <1>4, <2>1, <2>2
<1>5. CASE opened[p] = "sqlite"
  <2> DEFINE t == Objects[10 - pc[p]]
  <2>1. own' = own /\ db' = [db EXCEPT !["sqlite"].objects = @ \ {t},
                                       !["sqlite"].rows = {r \in @ : r.table # t}]
    BY <1>2, <1>5 DEF Drop, Transactional, Step
  <2> HIDE DEF t
  <2> DEFINE R == {r \in db["sqlite"].rows : r.table # t}
  <2>2. db' = [db EXCEPT !["sqlite"] =
                  [objects |-> db["sqlite"].objects \ {t}, head |-> db["sqlite"].head, rows |-> R]]
    <3>1. db' = [db EXCEPT !["sqlite"].objects = db["sqlite"].objects \ {t}, !["sqlite"].rows = R]
      BY <2>1
    <3> HIDE DEF R
    <3> QED BY <3>1, DbPartsBoth DEF ControlInv, TypeOK, Database
  <2> QED BY <1>1, <1>2, <1>3, <1>5, <2>1, <2>2 DEF t
<1> QED BY <1>4, <1>5 DEF ControlInv, TypeOK, Database

\* The row that an insert adds.
Added(p) == [table |-> Program(p)[pc[p]][2], key |-> Program(p)[pc[p]][3], by |-> p,
             totp |-> FALSE, guessable |-> FALSE]

LEMMA InsertEffect ==
    ASSUME ControlInv, NEW p \in Process, Insert(p)
    PROVE  /\ at[p] = "running" /\ ~Ddl(p) /\ Program(p)[pc[p]][1] = "insert"
           /\ pc[p] + 1 \in 1..Len(Program(p)) /\ Shaped(p, pc[p])
           /\ at' = at /\ pc' = [pc EXCEPT ![p] = pc[p] + 1] /\ opened' = opened /\ db' = db
           /\ own' = [own EXCEPT ![p] = [objects |-> own[p].objects, rows |-> own[p].rows \cup {Added(p)}]]
           /\ Added(p) \in Row /\ ~Waits(p)
           /\ Added(p).table \in db[opened[p]].objects /\ ~Taken(p, Added(p).table, Added(p).key)
<1>1. /\ at[p] = "running" /\ Program(p)[pc[p]][1] = "insert" /\ opened' = opened /\ db' = db /\ ~Waits(p)
      /\ Advance(p) /\ Program(p)[pc[p]][2] \in db[opened[p]].objects
      /\ ~Taken(p, Program(p)[pc[p]][2], Program(p)[pc[p]][3])
  BY DEF Insert, Executing, Step, Exists, Here
<1>2. ~Ddl(p) /\ pc[p] + 1 \in 1..Len(Program(p)) /\ Shaped(p, pc[p])
  BY <1>1, Kinds, Running DEF ControlInv
<1>3. PICK pw \in Password, answered \in BOOLEAN :
          /\ ValidPassword(pw, answered)
          /\ own' = [own EXCEPT ![p].rows = own[p].rows \cup
                 {[table |-> Program(p)[pc[p]][2], key |-> Program(p)[pc[p]][3], by |-> p,
                   totp |-> FALSE, guessable |-> pw.guessable]}]
  BY DEF Insert, Step
<1>4. pw.guessable = FALSE
  BY <1>3 DEF ValidPassword, Password
<1>5. own' = [own EXCEPT ![p].rows = own[p].rows \cup {Added(p)}]
  BY <1>3, <1>4 DEF Added
<1>6. own' = [own EXCEPT ![p] = [objects |-> own[p].objects, rows |-> own[p].rows \cup {Added(p)}]]
  BY <1>5, OwnParts DEF ControlInv, TypeOK
<1>7. Added(p) \in Row
  BY <1>1, <1>2 DEF Shaped, Row, Added
<1>8. Added(p).table = Program(p)[pc[p]][2] /\ Added(p).key = Program(p)[pc[p]][3]
  BY DEF Added
<1> QED BY <1>1, <1>2, <1>6, <1>7, <1>8 DEF Advance

\* A row after the second factor was provisioned for k.
Enrolled(r, k) == [r EXCEPT !.totp = @ \/ r.key = k]

LEMMA EnrolledIsRow ==
    ASSUME NEW r \in Row, NEW k
    PROVE  /\ Enrolled(r, k) \in Row
           /\ Enrolled(r, k).table = r.table /\ Enrolled(r, k).key = r.key /\ Enrolled(r, k).by = r.by
           /\ Enrolled(r, k).guessable = r.guessable
           /\ (r.key = k => Enrolled(r, k).totp) /\ (r.totp => Enrolled(r, k).totp)
<1>1. (r.totp \/ r.key = k) \in BOOLEAN
  OBVIOUS
<1>2. \A b \in BOOLEAN : [r EXCEPT !.totp = b] \in Row
  BY DEF Row
<1>3. Enrolled(r, k) \in Row
  BY <1>1, <1>2 DEF Enrolled
<1> QED BY <1>3 DEF Enrolled, Row

LEMMA ProvisionEffect ==
    ASSUME ControlInv, NEW p \in Process, Provision(p)
    PROVE  /\ at[p] = "running" /\ ~Ddl(p) /\ Program(p)[pc[p]][1] = "totp"
           /\ pc[p] + 1 \in 1..Len(Program(p))
           /\ at' = at /\ pc' = [pc EXCEPT ![p] = pc[p] + 1] /\ opened' = opened /\ db' = db
           /\ own' = [own EXCEPT ![p] = [objects |-> own[p].objects,
                                         rows |-> {Enrolled(r, Program(p)[pc[p]][3]) : r \in own[p].rows}]]
<1>1. /\ at[p] = "running" /\ Program(p)[pc[p]][1] = "totp" /\ opened' = opened /\ db' = db /\ Advance(p)
      /\ own' = [own EXCEPT ![p].rows = {Enrolled(r, Program(p)[pc[p]][3]) : r \in own[p].rows}]
  BY DEF Provision, Executing, Step, Enrolled
<1>2. ~Ddl(p) /\ pc[p] + 1 \in 1..Len(Program(p))
  BY <1>1, Kinds DEF ControlInv
<1> DEFINE R == {Enrolled(r, Program(p)[pc[p]][3]) : r \in own[p].rows}
<1>3. own' = [own EXCEPT ![p] = [objects |-> own[p].objects, rows |-> R]]
  <2>1. own' = [own EXCEPT ![p].rows = R]
    BY <1>1
  <2> HIDE DEF R
  <2> QED BY <2>1, OwnParts DEF ControlInv, TypeOK
<1> QED BY <1>1, <1>2, <1>3 DEF Advance

\* What a process leaves in the database when it commits.
Left(p) ==
    LET tables == IF Role[p] = "downgrade" THEN db[opened[p]].objects \ own[p].objects
                                           ELSE db[opened[p]].objects \cup own[p].objects IN
    [objects |-> tables,
     head   |-> IF Ddl(p) THEN Role[p] = "upgrade" ELSE db[opened[p]].head,
     rows   |-> {r \in db[opened[p]].rows \cup own[p].rows : r.table \in tables}]

Nothing == [objects |-> {}, rows |-> {}]

LEMMA CommitEffect ==
    ASSUME ControlInv, NEW p \in Process, Commit(p)
    PROVE  /\ at[p] = "running" /\ pc[p] = Len(Program(p)) /\ (Ddl(p) => pc[p] = 10) /\ opened' = opened
           /\ at' = [at EXCEPT ![p] = "ended"] /\ pc' = [pc EXCEPT ![p] = 1]
           /\ own' = [own EXCEPT ![p] = Nothing]
           /\ db' = [db EXCEPT ![opened[p]] = Left(p)]
<1>1. at[p] = "running" /\ Program(p)[pc[p]][1] = "commit" /\ opened' = opened
  BY DEF Commit, Executing, Step
<1>2. pc[p] = Len(Program(p)) /\ (Ddl(p) => pc[p] = 10)
  BY <1>1, Kinds DEF ControlInv
<1>3. db' = [db EXCEPT ![opened[p]] = Left(p)]
  BY DEF Commit, Left, Here, ControlInv, TypeOK
<1> QED BY <1>1, <1>2, <1>3 DEF Commit, Ends, RolledBack, Nothing

LEMMA LookEffect ==
    ASSUME ControlInv, NEW p \in Process, Look(p)
    PROVE  /\ at[p] = "running" /\ ~Ddl(p) /\ opened' = opened /\ db' = db
           /\ Program(p)[pc[p]][1] \in {"skip", "refuse"}
           /\ \/ /\ at' = at /\ pc' = [pc EXCEPT ![p] = pc[p] + 1] /\ own' = own
                 /\ pc[p] + 1 \in 1..Len(Program(p))
              \/ /\ at' = [at EXCEPT ![p] = at'[p]] /\ at'[p] \in {"ended", "failed"}
                 /\ pc' = [pc EXCEPT ![p] = 1] /\ own' = [own EXCEPT ![p] = Nothing]
<1>1. /\ at[p] = "running" /\ Program(p)[pc[p]][1] \in {"skip", "refuse"} /\ opened' = opened /\ db' = db
  BY DEF Look, Executing, Step
<1>2. ~Ddl(p) /\ pc[p] + 1 \in 1..Len(Program(p))
  BY <1>1, Kinds DEF ControlInv
<1>3. \/ Advance(p) /\ UNCHANGED own
      \/ Ends(p, "ended")
      \/ Ends(p, "failed")
  BY DEF Look
<1>4. CASE Advance(p) /\ UNCHANGED own
  BY <1>1, <1>2, <1>4 DEF Advance
<1>5. CASE Ends(p, "ended")
  BY <1>1, <1>2, <1>5 DEF Ends, RolledBack, Nothing, ControlInv, TypeOK
<1>6. CASE Ends(p, "failed")
  BY <1>1, <1>2, <1>6 DEF Ends, RolledBack, Nothing, ControlInv, TypeOK
<1> QED BY <1>3, <1>4, <1>5, <1>6

LEMMA FailEffect ==
    ASSUME ControlInv, NEW p \in Process, Fail(p)
    PROVE  /\ at[p] = "running" /\ opened' = opened /\ db' = db
           /\ at' = [at EXCEPT ![p] = "failed"] /\ pc' = [pc EXCEPT ![p] = 1]
           /\ own' = [own EXCEPT ![p] = Nothing]
  BY DEF Fail, Ends, RolledBack, Nothing

LEMMA BeginEffect ==
    ASSUME ControlInv, NEW p \in Process, Begin(p)
    PROVE  /\ at[p] = "booted" /\ pc[p] = 1 /\ own[p] = Nothing /\ UNCHANGED <<opened, pc, own, db>>
           /\ at' = [at EXCEPT ![p] = at'[p]] /\ at'[p] \in {"running", "ended", "failed"}
           /\ at'[p] = "ended" => Role[p] = "upgrade" /\ db[opened[p]].head
           /\ 1 \in 1..Len(Program(p))
<1>1. at[p] = "booted" /\ pc[p] = 1 /\ own[p] = Nothing /\ UNCHANGED <<opened, pc, own, db>>
  BY DEF Begin, ControlInv, TypeOK, Nothing
<1>2. 1 \in 1..Len(Program(p))
  BY <1>1, Programs DEF ControlInv, TypeOK, Lives
<1> QED BY <1>1, <1>2 DEF Begin, Here, ControlInv, TypeOK

LEMMA InitControl == ASSUME Init PROVE ControlInv
<1>1. /\ local \in BOOLEAN /\ intended \in Database /\ compose \in BOOLEAN /\ email \in [Process -> Email]
      /\ opened \in [Process -> Database] /\ unset \in [Process -> BOOLEAN] /\ (compose => ~local)
  BY DeploymentAssumption DEF Init
<1>2. at = [p \in Process |-> "down"] /\ pc = [p \in Process |-> 1] /\ wired = [p \in Process |-> << >>]
  BY DEF Init
<1>3. own \in [Process -> [objects : SUBSET Object, rows : SUBSET Row]]
      /\ \A p \in Process : own[p] = [objects |-> {}, rows |-> {}]
  BY DEF Init
<1>4. db \in [Database -> [objects : SUBSET Object, head : BOOLEAN, rows : SUBSET Row]]
  BY DEF Init
<1>5. << >> \in Seq({"webhooks", "audit"})
  OBVIOUS
<1>6. TypeOK
  BY <1>1, <1>2, <1>3, <1>4, <1>5 DEF TypeOK
<1>7. Lives /\ BusWired
  BY <1>1, <1>2 DEF Lives, BusWired
<1> QED BY <1>6, <1>7 DEF ControlInv

\* What a step of a program leaves of the types.
LEMMA StatementTypes ==
    ASSUME ControlInv, NEW p \in Process, Execute(p)
    PROVE  /\ own' \in [Process -> [objects : SUBSET Object, rows : SUBSET Row]]
           /\ db' \in [Database -> [objects : SUBSET Object, head : BOOLEAN, rows : SUBSET Row]]
<1> DEFINE Own == [objects : SUBSET Object, rows : SUBSET Row]
           Db == [objects : SUBSET Object, head : BOOLEAN, rows : SUBSET Row]
<1>0. /\ own \in [Process -> Own] /\ db \in [Database -> Db] /\ opened[p] \in Database
      /\ Nothing \in Own /\ \A i \in 1..9 : Objects[i] \in Object
      /\ own[p].objects \subseteq Object /\ own[p].rows \subseteq Row
      /\ \A d \in Database : /\ db[d].objects \subseteq Object /\ db[d].rows \subseteq Row
                            /\ db[d].head \in BOOLEAN
  BY ObjectsAre DEF ControlInv, TypeOK, Nothing, Prefix
<1>1. \A x \in Own : [own EXCEPT ![p] = x] \in [Process -> Own]
  <2> HIDE DEF Own
  <2> QED BY <1>0
<1>2. \A x \in Db : \A d \in Database : [db EXCEPT ![d] = x] \in [Database -> Db]
  <2> HIDE DEF Db
  <2> QED BY <1>0
<1>3. CASE Begin(p)
  BY <1>0, <1>3, BeginEffect
<1>4. CASE Create(p)
  <2> DEFINE t == Objects[pc[p]]
  <2>1. t \in Object
    BY <1>0, <1>4, CreateEffect
  <2>2. [objects |-> own[p].objects \cup {t}, rows |-> own[p].rows] \in Own
    BY <1>0, <2>1
  <2>3. "sqlite" \in Database /\ [objects |-> db["sqlite"].objects \cup {t}, head |-> db["sqlite"].head,
                                 rows |-> db["sqlite"].rows] \in Db
    BY <1>0, <2>1 DEF Database
  <2> QED BY <1>0, <1>1, <1>2, <1>4, <2>2, <2>3, CreateEffect
<1>5. CASE Drop(p)
  <2> DEFINE t == Objects[10 - pc[p]]
  <2>1. t \in Object
    BY <1>0, <1>5, DropEffect
  <2>2. [objects |-> own[p].objects \cup {t}, rows |-> own[p].rows] \in Own
    BY <1>0, <2>1
  <2> DEFINE x == [objects |-> db["sqlite"].objects \ {t}, head |-> db["sqlite"].head,
                   rows |-> {r \in db["sqlite"].rows : r.table # t}]
  <2>3. "sqlite" \in Database /\ x \in Db
    BY <1>0, <2>1 DEF Database
  <2>4. \/ own' = [own EXCEPT ![p] = [objects |-> own[p].objects \cup {t}, rows |-> own[p].rows]] /\ db' = db
        \/ own' = own /\ db' = [db EXCEPT !["sqlite"] = x]
    BY <1>5, DropEffect
  <2> HIDE DEF x, Db, Own, t
  <2>5. own' \in [Process -> Own] /\ db' \in [Database -> Db]
    <3> own \in [Process -> Own] /\ db \in [Database -> Db]
      BY <1>0
    <3> QED BY <1>1, <1>2, <2>2, <2>3, <2>4
  <2> QED BY <2>5 DEF Own, Db
<1>6. CASE Look(p)
  BY <1>0, <1>1, <1>6, LookEffect
<1>7. CASE Insert(p)
  <2>1. [objects |-> own[p].objects, rows |-> own[p].rows \cup {Added(p)}] \in Own
    BY <1>0, <1>7, InsertEffect
  <2> QED BY <1>0, <1>1, <1>7, <2>1, InsertEffect
<1>8. CASE Provision(p)
  <2> DEFINE R == {Enrolled(r, Program(p)[pc[p]][3]) : r \in own[p].rows}
  <2>1. R \subseteq Row
    BY <1>0, EnrolledIsRow
  <2> HIDE DEF R
  <2>2. [objects |-> own[p].objects, rows |-> R] \in Own
    BY <1>0, <2>1
  <2> QED BY <1>0, <1>1, <1>8, <2>2, ProvisionEffect DEF R
<1>9. CASE Commit(p)
  <2>1. Left(p) \in Db
    BY <1>0 DEF Left
  <2>2. Nothing \in Own /\ opened[p] \in Database
    BY <1>0
  <2>3. own' = [own EXCEPT ![p] = Nothing] /\ db' = [db EXCEPT ![opened[p]] = Left(p)]
    BY <1>9, CommitEffect
  <2> HIDE DEF Own, Db
  <2>4. own' \in [Process -> Own] /\ db' \in [Database -> Db]
    BY <1>1, <1>2, <2>1, <2>2, <2>3
  <2> QED BY <2>4 DEF Own, Db
<1>10. CASE Fail(p)
  BY <1>0, <1>1, <1>10, FailEffect
<1> QED BY <1>3, <1>4, <1>5, <1>6, <1>7, <1>8, <1>9, <1>10 DEF Execute

\* Where a process is, and that it has no transaction when it is not running.
LEMMA StatementControl ==
    ASSUME ControlInv, NEW p \in Process, Execute(p)
    PROVE  /\ at' = [at EXCEPT ![p] = at'[p]] /\ pc' = [pc EXCEPT ![p] = pc'[p]]
           /\ own' = [own EXCEPT ![p] = own'[p]]
           /\ at'[p] \in {"running", "ended", "failed"}
           /\ at'[p] = "running" => pc'[p] \in 1..Len(Program(p))
           /\ at'[p] # "running" => pc'[p] = 1 /\ own'[p] = Nothing
<1>0. /\ p \in DOMAIN at /\ p \in DOMAIN pc /\ p \in DOMAIN own
      /\ at = [q \in DOMAIN at |-> at[q]] /\ pc = [q \in DOMAIN pc |-> pc[q]]
      /\ own = [q \in DOMAIN own |-> own[q]] /\ pc[p] \in Nat
  BY DEF ControlInv, TypeOK
<1>1. CASE Begin(p)
  BY <1>0, <1>1, BeginEffect
<1>2. CASE Create(p)
  <2>1. pc[p] + 1 \in 1..Len(Program(p))
    <3>1. pc[p] \in 1..9 /\ Len(Program(p)) = 10
      BY <1>2, CreateEffect, Kinds DEF ControlInv, Ddl
    <3> QED BY <3>1
  <2> QED BY <1>0, <1>2, <2>1, CreateEffect
<1>3. CASE Drop(p)
  <2>1. pc[p] + 1 \in 1..Len(Program(p))
    <3>1. pc[p] \in 1..9 /\ Len(Program(p)) = 10
      BY <1>3, DropEffect, Kinds DEF ControlInv, Ddl
    <3> QED BY <3>1
  <2> QED BY <1>0, <1>3, <2>1, DropEffect
<1>4. CASE Look(p)
  BY <1>0, <1>4, LookEffect
<1>5. CASE Insert(p)
  BY <1>0, <1>5, InsertEffect
<1>6. CASE Provision(p)
  BY <1>0, <1>6, ProvisionEffect
<1>7. CASE Commit(p)
  BY <1>0, <1>7, CommitEffect
<1>8. CASE Fail(p)
  BY <1>0, <1>8, FailEffect
<1> QED BY <1>1, <1>2, <1>3, <1>4, <1>5, <1>6, <1>7, <1>8 DEF Execute

LEMMA NextControl == ASSUME ControlInv, [Next]_vars PROVE ControlInv'
<1> USE DEF ControlInv
<1>0. UNCHANGED <<local, intended, compose, email>> /\ \A q : Program(q)' = Program(q)
  BY StepFrame
<1>1. ASSUME NEW p \in Process, Boot(p) PROVE ControlInv'
  <2>1. /\ at[p] = "down" /\ UNCHANGED <<pc, own, db>>
        /\ at'[p] \in {"serving", "booted"}
        /\ at' = [at EXCEPT ![p] = at'[p]]
        /\ at'[p] = "serving" => Role[p] = "serve"
        /\ at'[p] = "booted" => Role[p] # "serve"
    BY <1>1 DEF Boot, TypeOK
  <2>2. PICK m \in SUBSET Mistakes[p] :
          /\ ~Refused(p, m)
          /\ opened' = [opened EXCEPT ![p] = Opens(m)]
          /\ unset' = [unset EXCEPT ![p] = <<"database_url", "missing">> \in m]
    BY <1>1 DEF Boot
  <2>3. /\ Opens(m) \in Database /\ (compose => Opens(m) = "postgres")
        /\ <<"database_url", "missing">> \notin m => Opens(m) = intended
    <3>1. Opens(m) \in Database
      BY DEF TypeOK, Opens, Database
    <3>2. ASSUME compose PROVE Opens(m) # "sqlite"
      <4>1. ~local /\ ~DevDefaults(m)
        BY <2>2, <3>2 DEF Refused, Lives
      <4> QED BY <3>2, <4>1 DEF DevDefaults, is_local_or_test
    <3>3. ASSUME <<"database_url", "missing">> \notin m PROVE Opens(m) = intended
      <4>1. <<"database_url", "misspelt">>[2] = "misspelt" /\ ~UnknownVariable(m)
        BY <2>2 DEF Refused
      <4>2. <<"database_url", "misspelt">> \notin m
        BY <4>1 DEF UnknownVariable
      <4> QED BY <3>3, <4>2 DEF Opens, Default
    <3> QED BY <3>1, <3>2, <3>3 DEF Database
  <2>4. wired' = [wired EXCEPT ![p] = IF at'[p] = "serving" THEN <<"webhooks", "audit">> ELSE << >>]
    <3>1. wired[p] = << >>
      BY <2>1 DEF BusWired
    <3>2. CASE at'[p] = "serving"
      BY <1>1, <2>1, <3>2, WiredOnce DEF Boot
    <3>3. CASE at'[p] # "serving"
      BY <1>1, <3>1, <3>3 DEF Boot, TypeOK
    <3> QED BY <3>2, <3>3
  <2>5. << >> \in Seq({"webhooks", "audit"}) /\ <<"webhooks", "audit">> \in Seq({"webhooks", "audit"})
    OBVIOUS
  <2>6. TypeOK'
    <3>1. opened' \in [Process -> Database] /\ unset' \in [Process -> BOOLEAN]
      BY <2>2, <2>3 DEF TypeOK
    <3>2. wired' \in [Process -> Seq({"webhooks", "audit"})]
      BY <2>4, <2>5 DEF TypeOK
    <3>3. at' \in [Process -> {"down", "booted", "running", "serving", "refused", "ended", "failed"}]
      BY <2>1 DEF TypeOK
    <3>4. \A q \in Process : at'[q] = "running" <=> at[q] = "running"
      BY <2>1 DEF TypeOK
    <3> QED BY <1>0, <2>1, <3>1, <3>2, <3>3, <3>4 DEF TypeOK
  <2>7. Lives'
    BY <1>0, <2>1, <2>2, <2>3 DEF Lives, TypeOK
  <2>8. BusWired'
    BY <2>1, <2>4 DEF BusWired, TypeOK
  <2> QED BY <2>6, <2>7, <2>8
<1>2. ASSUME NEW p \in Process, WireAgain(p) PROVE ControlInv'
  <2>1. wired' = wired
    <3>1. wired[p] = <<"webhooks", "audit">> /\ wired' = [wired EXCEPT ![p] = <<"webhooks", "audit">>]
      BY <1>2, WiredOnce DEF WireAgain, BusWired
    <3> QED BY <3>1 DEF TypeOK
  <2>2. UNCHANGED vars
    BY <1>2, <2>1 DEF WireAgain, vars
  <2> QED BY <1>0, <2>2 DEF vars, TypeOK, Lives, BusWired
<1>3. ASSUME NEW p \in Process, Restart(p) PROVE ControlInv'
  <2>1. /\ at[p] \in {"serving", "refused"} /\ Role[p] = "serve"
        /\ at' = [at EXCEPT ![p] = "down"] /\ wired' = [wired EXCEPT ![p] = << >>]
        /\ opened' = [opened EXCEPT ![p] = intended] /\ unset' = [unset EXCEPT ![p] = FALSE]
        /\ UNCHANGED <<pc, own, db>>
    BY <1>3 DEF Restart
  <2>2. << >> \in Seq({"webhooks", "audit"})
    OBVIOUS
  <2>3. \A q \in Process : at'[q] = "running" <=> at[q] = "running"
    BY <2>1 DEF TypeOK
  <2>4. TypeOK'
    BY <1>0, <2>1, <2>2, <2>3 DEF TypeOK
  <2> QED BY <1>0, <2>1, <2>4 DEF TypeOK, Lives, BusWired
<1>4. ASSUME NEW p \in Process, Execute(p) PROVE ControlInv'
  <2>1. Role[p] # "serve" /\ UNCHANGED <<opened, unset, wired>>
        /\ at[p] \in {"booted", "running"}
    BY <1>4, Statements DEF Begin
  <2>2. /\ at' = [at EXCEPT ![p] = at'[p]] /\ pc' = [pc EXCEPT ![p] = pc'[p]]
        /\ own' = [own EXCEPT ![p] = own'[p]]
        /\ at'[p] \in {"running", "ended", "failed"}
        /\ at'[p] = "running" => pc'[p] \in 1..Len(Program(p))
        /\ at'[p] # "running" => pc'[p] = 1 /\ own'[p] = Nothing
    BY <1>4, StatementControl
  <2>3. at'[p] = "running" => pc'[p] \in Nat
    BY <2>2, Programs DEF TypeOK
  <2>4. pc' \in [Process -> Nat]
    BY <2>2, <2>3 DEF TypeOK
  <2>5. at' \in [Process -> {"down", "booted", "running", "serving", "refused", "ended", "failed"}]
    BY <2>2 DEF TypeOK
  <2>6. ASSUME NEW q \in Process
        PROVE  /\ at'[q] = "running" => pc'[q] \in 1..Len(Program(q))
               /\ at'[q] # "running" => pc'[q] = 1 /\ own'[q] = [objects |-> {}, rows |-> {}]
    BY <2>2 DEF TypeOK, Nothing
  <2>7. TypeOK'
    BY <1>0, <1>4, <2>1, <2>4, <2>5, <2>6, StatementTypes DEF TypeOK
  <2>8. Lives' /\ BusWired'
    BY <1>0, <2>1, <2>2 DEF Lives, BusWired, TypeOK
  <2> QED BY <2>7, <2>8
<1>5. ASSUME NEW p \in Process, RefuseSettings(p) PROVE ControlInv'
  <2>1. /\ at[p] = "down" /\ at' = [at EXCEPT ![p] = "refused"]
        /\ UNCHANGED <<opened, unset, pc, own, db, wired>>
    BY <1>5 DEF RefuseSettings
  <2>2. \A q \in Process : at'[q] = "running" <=> at[q] = "running"
    BY <2>1 DEF TypeOK
  <2>3. TypeOK'
    BY <1>0, <2>1, <2>2 DEF TypeOK
  <2> QED BY <1>0, <2>1, <2>3 DEF TypeOK, Lives, BusWired
<1>6. CASE UNCHANGED vars \/ Quiet
  BY <1>0, <1>6 DEF Quiet, vars, TypeOK, Lives, BusWired
<1> QED BY <1>1, <1>2, <1>3, <1>4, <1>5, <1>6 DEF Next

----------------------------------------------------------------------------------
(* The schema.                                                                     *)

LEMMA PrefixFacts ==
    /\ \A i \in 1..9, n \in 0..9 : Objects[i] \in Prefix(n) <=> i <= n
    /\ \A n, m \in 0..9 : Prefix(n) = Prefix(m) => n = m
    /\ \A n \in 0..9 : Prefix(n) \subseteq Object
    /\ Prefix(0) = {} /\ Prefix(9) = Object
    /\ \A n \in 1..9 : Prefix(n) = Prefix(n - 1) \cup {Objects[n]} /\ Prefix(n - 1) = Prefix(n) \ {Objects[n]}
<1>1. \A i \in 1..9, n \in 0..9 : Objects[i] \in Prefix(n) <=> i <= n
  BY ObjectsAre DEF Prefix
<1>2. ASSUME NEW n \in 0..9, NEW m \in 0..9, Prefix(n) = Prefix(m), n < m PROVE FALSE
  BY <1>1, <1>2
<1>3. \A n \in 0..9 : Prefix(n) \subseteq Object
  BY ObjectsAre DEF Prefix
<1>4. Prefix(0) = {} /\ Prefix(9) = Object
  BY ObjectsAre DEF Prefix
<1>5. ASSUME NEW n \in 1..9 PROVE Prefix(n) = Prefix(n - 1) \cup {Objects[n]}
  BY DEF Prefix
<1>6. ASSUME NEW n \in 1..9 PROVE Prefix(n - 1) = Prefix(n) \ {Objects[n]}
  <2>1. Objects[n] \notin Prefix(n - 1)
    BY <1>1
  <2> QED BY <1>5, <2>1
<1>7. \A n, m \in 0..9 : Prefix(n) = Prefix(m) => n = m
  BY <1>2
<1> QED BY <1>1, <1>3, <1>4, <1>5, <1>6, <1>7

\* How the tables a migration has worked on grow.
LEMMA TouchedFacts ==
    ASSUME ControlInv, NEW p \in Process
    PROVE  /\ pc[p] = 1 => Touched(p) = {}
           /\ ~Ddl(p) => Touched(p) = {}
           /\ Ddl(p) /\ pc[p] = 10 => Touched(p) = Object
           /\ Role[p] = "upgrade" => Touched(p) = Prefix(pc[p] - 1)
<1>1. CASE Role[p] = "upgrade"
  <2>1. Touched(p) = Prefix(pc[p] - 1)
    BY <1>1 DEF Touched
  <2> QED BY <1>1, <2>1, PrefixFacts DEF Ddl
<1>2. CASE Role[p] = "downgrade"
  <2>1. Touched(p) = {Objects[10 - i] : i \in 1..(pc[p] - 1)}
    BY <1>2 DEF Touched
  <2>2. pc[p] = 1 => Touched(p) = {}
    BY <2>1
  <2>3. ASSUME pc[p] = 10 PROVE Touched(p) = Object
    <3>1. Touched(p) = {Objects[10 - i] : i \in 1..9}
      BY <2>1, <2>3
    <3>2. \A i \in 1..9 : 10 - i \in 1..9 /\ 10 - (10 - i) = i
      OBVIOUS
    <3>3. Object = {Objects[i] : i \in 1..9}
      BY ObjectsAre DEF Prefix
    <3> QED BY <3>1, <3>2, <3>3
  <2> QED BY <1>2, <2>2, <2>3 DEF Ddl
<1>3. CASE ~Ddl(p)
  BY <1>3 DEF Touched, Ddl
<1> QED BY <1>1, <1>2, <1>3 DEF Ddl

LEMMA TouchedGrows ==
    ASSUME ControlInv, NEW p \in Process, pc[p] \in 1..9, pc' = [pc EXCEPT ![p] = pc[p] + 1], Ddl(p)
    PROVE  Touched(p)' = Touched(p) \cup {IF Role[p] = "upgrade" THEN Objects[pc[p]] ELSE Objects[10 - pc[p]]}
<1>1. pc'[p] = pc[p] + 1
  BY DEF ControlInv, TypeOK
<1>2. CASE Role[p] = "upgrade"
  <2>1. Touched(p) = Prefix(pc[p] - 1) /\ Touched(p)' = Prefix(pc[p])
    BY <1>1, <1>2 DEF Touched, Prefix
  <2> QED BY <1>2, <2>1, PrefixFacts
<1>3. CASE Role[p] = "downgrade"
  <2>1. Touched(p) = {Objects[10 - i] : i \in 1..(pc[p] - 1)} /\ Touched(p)' = {Objects[10 - i] : i \in 1..pc[p]}
    BY <1>1, <1>3 DEF Touched
  <2>2. 1..pc[p] = (1..(pc[p] - 1)) \cup {pc[p]}
    OBVIOUS
  <2> QED BY <1>3, <2>1, <2>2
<1> QED BY <1>2, <1>3 DEF Ddl

\* A migration that has begun to take the schema down is remembered.
LEMMA UndoneStays == ASSUME ControlInv, Undone, [Next]_vars PROVE Undone'
<1>1. PICK p \in Process : Role[p] = "downgrade" /\ at[p] # "down"
  BY DEF Undone
<1>2. ASSUME NEW q \in Process, Boot(q) \/ RefuseSettings(q) \/ WireAgain(q) \/ Restart(q) \/ Execute(q)
      PROVE  at'[p] # "down"
  <2>1. CASE Boot(q) \/ RefuseSettings(q)
    BY <1>1, <2>1 DEF Boot, RefuseSettings, ControlInv, TypeOK
  <2>2. CASE WireAgain(q)
    BY <1>1, <2>2 DEF WireAgain
  <2>3. CASE Restart(q)
    BY <1>1, <2>3 DEF Restart, ControlInv, TypeOK
  <2>4. CASE Execute(q)
    BY <1>1, <2>4, StatementControl DEF ControlInv, TypeOK
  <2> QED BY <1>2, <2>1, <2>2, <2>3, <2>4
<1>3. CASE UNCHANGED vars \/ Quiet
  BY <1>1, <1>3 DEF vars, Quiet, Undone
<1> QED BY <1>1, <1>2, <1>3 DEF Next, Undone

LEMMA InitSchema == ASSUME Init PROVE SchemaInv
<1>1. /\ db["postgres"] = [objects |-> {}, head |-> FALSE, rows |-> {}]
      /\ db["sqlite"] = [objects |-> {}, head |-> FALSE, rows |-> {}]
      /\ \A d \in Database : db[d] = [objects |-> {}, head |-> FALSE, rows |-> {}]
      /\ \A p \in Process : at[p] = "down" /\ pc[p] = 1 /\ own[p].objects = {} /\ own[p].rows = {}
  BY DEF Init, Database
<1>2. TransactionsWhole
  <2>1. \A p \in Process : Touched(p) = {}
    BY <1>1, InitControl, TouchedFacts
  <2>2. db["postgres"].objects = {} /\ db["postgres"].head = FALSE
    BY <1>1
  <2> HIDE DEF Touched
  <2>3. \A p \in Process : own[p].objects = IF opened[p] = "postgres" THEN Touched(p) ELSE {}
    BY <1>1, <2>1
  <2> QED BY <2>2, <2>3 DEF TransactionsWhole
<1>3. OneAtTheFront
  <2>1. db["sqlite"].objects = Prefix(0) /\ 0 \in 0..9
    BY <1>1, PrefixFacts
  <2>2. \A p \in Process : ~Between(p)
    BY <1>1 DEF Between
  <2> QED BY <2>1, <2>2 DEF OneAtTheFront
<1>4. NothingLost /\ RowsHaveTables
  BY <1>1 DEF NothingLost, RowsHaveTables
<1> QED BY <1>2, <1>3, <1>4 DEF SchemaInv

\* A step that does no DDL and commits nothing.
LEMMA NoDdlStep ==
    ASSUME ControlInv, ControlInv', SchemaInv, ~Undone' => ~Undone, db' = db,
           NEW p \in Process,
           \A q \in Process \ {p} :
               at'[q] = at[q] /\ pc'[q] = pc[q] /\ opened'[q] = opened[q] /\ own'[q] = own[q],
           \/ own'[p].objects = own[p].objects /\ ~Ddl(p) /\ opened'[p] = opened[p]
           \/ own'[p].objects = {} /\ pc'[p] = 1,
           at'[p] = "ended" /\ Role[p] = "upgrade" /\ ~Undone => db[opened'[p]].objects = Object,
           ~Undone => \A r \in own'[p].rows : r.table \in db[opened'[p]].objects
    PROVE  SchemaInv'
<1>1. \A q \in Process \ {p} : Touched(q)' = Touched(q) /\ (Between(q)' <=> Between(q)) /\ Front(q)' = Front(q)
  BY DEF Touched, Between, Front, Ddl
<1>2. ~Between(p)' /\ (Role[p] = "upgrade" => Touched(p)' = {})
  BY TouchedFacts, PrefixFacts DEF Between, Ddl, Touched
<1>3. TransactionsWhole'
  <2>1. ASSUME NEW q \in Process
        PROVE  own'[q].objects = IF opened'[q] = "postgres" THEN Touched(q)' ELSE {}
    <3>1. CASE q # p
      BY <1>1, <3>1 DEF SchemaInv, TransactionsWhole
    <3>2. CASE q = p /\ own'[p].objects = own[p].objects /\ ~Ddl(p) /\ opened'[p] = opened[p]
      <4>1. Touched(p) = {} /\ Touched(p)' = {}
        BY <3>2 DEF Touched, Ddl
      <4> QED BY <3>2, <4>1 DEF SchemaInv, TransactionsWhole
    <3>3. CASE q = p /\ own'[p].objects = {} /\ pc'[p] = 1
      <4>1. Touched(p)' = {}
        BY <3>3, PrefixFacts DEF Touched
      <4> QED BY <3>3, <4>1
    <3> QED BY <3>1, <3>2, <3>3
  <2> QED BY <2>1 DEF SchemaInv, TransactionsWhole
<1>4. OneAtTheFront'
  BY <1>1, <1>2 DEF SchemaInv, OneAtTheFront
<1>5. ASSUME ~Undone' PROVE NothingLost'
  <2>1. NothingLost /\ ~Undone
    BY <1>5 DEF SchemaInv
  <2>2. ASSUME NEW q \in Process
        PROVE  /\ at'[q] = "running" /\ Role[q] = "upgrade" /\ opened'[q] = "sqlite"
                      => Touched(q)' \subseteq db["sqlite"].objects
               /\ at'[q] = "ended" /\ Role[q] = "upgrade" => db[opened'[q]].objects = Object
               /\ \A r \in own'[q].rows : r.table \in db[opened'[q]].objects
    <3>1. CASE q = p
      BY <1>2, <2>1, <3>1
    <3>2. CASE q # p
      BY <1>1, <2>1, <3>2 DEF NothingLost
    <3> QED BY <3>1, <3>2
  <2> QED BY <2>1, <2>2 DEF NothingLost
<1> QED BY <1>3, <1>4, <1>5 DEF SchemaInv, RowsHaveTables

\* A statement of DDL in PostgreSQL adds to the open transaction.
LEMMA PostgresStep ==
    ASSUME ControlInv, SchemaInv, ~Undone' => ~Undone, db' = db, opened' = opened,
           NEW p \in Process, opened[p] = "postgres", Ddl(p), pc[p] \in 1..9,
           at' = at, pc' = [pc EXCEPT ![p] = pc[p] + 1],
           NEW t, t = IF Role[p] = "upgrade" THEN Objects[pc[p]] ELSE Objects[10 - pc[p]],
           own' = [own EXCEPT ![p] = [objects |-> own[p].objects \cup {t}, rows |-> own[p].rows]]
    PROVE  SchemaInv'
<1>1. /\ own'[p].objects = own[p].objects \cup {t} /\ own'[p].rows = own[p].rows
      /\ \A q \in Process \ {p} : own'[q] = own[q] /\ pc'[q] = pc[q]
  BY DEF ControlInv, TypeOK
<1>2. Touched(p)' = Touched(p) \cup {t}
  BY TouchedGrows
<1>3. \A q \in Process \ {p} : Touched(q)' = Touched(q) /\ (Between(q)' <=> Between(q)) /\ Front(q)' = Front(q)
  BY <1>1 DEF Touched, Between, Front, Ddl
<1>4. ~Between(p) /\ ~Between(p)'
  BY DEF Between
<1>5. TransactionsWhole'
  BY <1>1, <1>2, <1>3 DEF SchemaInv, TransactionsWhole
<1>6. OneAtTheFront'
  BY <1>3, <1>4 DEF SchemaInv, OneAtTheFront
<1>7. ASSUME ~Undone' PROVE NothingLost'
  <2>1. NothingLost
    BY <1>7 DEF SchemaInv
  <2> QED BY <1>1, <1>3, <2>1 DEF NothingLost
<1> QED BY <1>5, <1>6, <1>7 DEF SchemaInv, RowsHaveTables

\* A migration of SQLite that finds the table it needs as it needs it is the only one.
LEMMA AloneAtTheFront ==
    ASSUME ControlInv, OneAtTheFront, NEW p \in Process, at[p] = "running", opened[p] = "sqlite",
           pc[p] \in 1..9,
           \/ Role[p] = "upgrade" /\ Objects[pc[p]] \notin db["sqlite"].objects
           \/ Role[p] = "downgrade" /\ Objects[10 - pc[p]] \in db["sqlite"].objects
    PROVE  /\ db["sqlite"].objects = Prefix(Front(p))
           /\ \A q \in Process \ {p} : ~Between(q)
<1>1. PICK n \in 0..9 : db["sqlite"].objects = Prefix(n)
  BY DEF OneAtTheFront
<1>2. CASE pc[p] \in 2..9
  BY <1>2 DEF OneAtTheFront, Between, Ddl
<1>3. CASE pc[p] = 1
  <2>1. n = Front(p) /\ n \in {0, 9}
    BY <1>1, <1>3, PrefixFacts DEF Front
  <2>2. ASSUME NEW q \in Process, Between(q) PROVE FALSE
    <3>1. Front(q) \in 1..8
      BY <2>2 DEF Between, Front
    <3>2. Prefix(n) = Prefix(Front(q))
      BY <1>1, <2>2 DEF OneAtTheFront
    <3> QED BY <2>1, <3>1, <3>2, PrefixFacts
  <2> QED BY <1>1, <2>1, <2>2
<1> QED BY <1>2, <1>3

LEMMA CreateSchema ==
    ASSUME ControlInv, ControlInv', SchemaInv, ~Undone' => ~Undone,
           NEW p \in Process, Create(p)
    PROVE  SchemaInv'
<1> DEFINE t == Objects[pc[p]]
<1>1. /\ at[p] = "running" /\ Role[p] = "upgrade" /\ pc[p] \in 1..9
      /\ at' = at /\ pc' = [pc EXCEPT ![p] = pc[p] + 1] /\ opened' = opened
      /\ t \notin db[opened[p]].objects
  BY CreateEffect
<1>2. CASE opened[p] = "postgres"
  <2>1. db' = db /\ own' = [own EXCEPT ![p] = [objects |-> own[p].objects \cup {t}, rows |-> own[p].rows]]
    BY <1>2, CreateEffect
  <2> QED BY <1>1, <1>2, <2>1, PostgresStep DEF Ddl
<1>3. CASE opened[p] = "sqlite"
  <2>1. /\ own' = own
        /\ db' = [db EXCEPT !["sqlite"] = [objects |-> db["sqlite"].objects \cup {t},
                                           head |-> db["sqlite"].head, rows |-> db["sqlite"].rows]]
    BY <1>3, CreateEffect
  <2>2. /\ db'["postgres"] = db["postgres"] /\ db'["sqlite"].objects = db["sqlite"].objects \cup {t}
        /\ db'["sqlite"].head = db["sqlite"].head /\ db'["sqlite"].rows = db["sqlite"].rows
    BY <2>1 DEF ControlInv, TypeOK, Database
  <2>3. db["sqlite"].objects = Prefix(pc[p] - 1) /\ \A q \in Process \ {p} : ~Between(q)
    BY <1>1, <1>3, AloneAtTheFront DEF SchemaInv, Front
  <2>4. db'["sqlite"].objects = Prefix(pc[p])
    BY <1>1, <2>2, <2>3, PrefixFacts
  <2>5. pc'[p] = pc[p] + 1 /\ \A q \in Process \ {p} : pc'[q] = pc[q]
    BY <1>1 DEF ControlInv, TypeOK
  <2>6. \A q \in Process \ {p} : Touched(q)' = Touched(q) /\ ~Between(q)'
    BY <1>1, <2>3, <2>5 DEF Touched, Between, Ddl
  <2>7. TransactionsWhole'
    BY <1>1, <1>3, <2>1, <2>2, <2>6 DEF SchemaInv, TransactionsWhole
  <2>8. OneAtTheFront'
    <3>1. Front(p)' = pc[p]
      BY <1>1, <2>5 DEF Front
    <3> QED BY <1>1, <2>4, <2>6, <3>1 DEF OneAtTheFront
  <2>9. ASSUME ~Undone' PROVE NothingLost'
    <3>1. NothingLost
      BY <2>9 DEF SchemaInv
    <3>2. db["sqlite"].objects # Object
      BY <1>1, <1>3 DEF Object, Objects
    <3>3. Touched(p)' = Prefix(pc[p])
      BY <1>1, <2>5 DEF Touched
    <3>4. \A q \in Process : Role[q] = "upgrade" /\ at[q] = "ended" =>
              opened[q] # "sqlite" /\ db[opened[q]].objects = Object
      BY <1>3, <3>1, <3>2 DEF NothingLost
    <3>5. \A d \in Database : db'[d].rows = db[d].rows /\ db[d].objects \subseteq db'[d].objects
      BY <2>2 DEF Database
    <3>6. \A q \in Process : opened[q] \in Database
      BY DEF ControlInv, TypeOK
    <3>7. ASSUME NEW q \in Process
          PROVE  /\ at'[q] = "running" /\ Role[q] = "upgrade" /\ opened'[q] = "sqlite"
                        => Touched(q)' \subseteq db'["sqlite"].objects
                 /\ at'[q] = "ended" /\ Role[q] = "upgrade" => db'[opened'[q]].objects = Object
                 /\ \A r \in own'[q].rows : r.table \in db'[opened'[q]].objects
      BY <1>1, <2>1, <2>2, <2>4, <2>6, <3>1, <3>3, <3>4, <3>5, <3>6 DEF NothingLost, Database
    <3>8. db'["sqlite"].head => db'["sqlite"].objects = Object
      BY <2>2, <3>1, <3>2 DEF NothingLost
    <3> QED BY <3>7, <3>8 DEF NothingLost
  <2>10. RowsHaveTables'
    BY <2>2 DEF SchemaInv, RowsHaveTables, Database
  <2> QED BY <2>7, <2>8, <2>9, <2>10 DEF SchemaInv
<1> QED BY <1>2, <1>3 DEF ControlInv, TypeOK, Database

LEMMA DropSchema ==
    ASSUME ControlInv, ControlInv', SchemaInv, ~Undone' => ~Undone,
           NEW p \in Process, Drop(p)
    PROVE  SchemaInv'
<1> DEFINE t == Objects[10 - pc[p]]
<1>1. /\ at[p] = "running" /\ Role[p] = "downgrade" /\ pc[p] \in 1..9
      /\ at' = at /\ pc' = [pc EXCEPT ![p] = pc[p] + 1] /\ opened' = opened
      /\ t \in db[opened[p]].objects
  BY DropEffect
<1>2. Undone'
  BY <1>1 DEF Undone
<1>3. CASE opened[p] = "postgres"
  <2>1. db' = db /\ own' = [own EXCEPT ![p] = [objects |-> own[p].objects \cup {t}, rows |-> own[p].rows]]
    BY <1>3, DropEffect
  <2> QED BY <1>1, <1>3, <2>1, PostgresStep DEF Ddl
<1>4. CASE opened[p] = "sqlite"
  <2> DEFINE R == {r \in db["sqlite"].rows : r.table # t}
  <2>1. /\ own' = own
        /\ db' = [db EXCEPT !["sqlite"] = [objects |-> db["sqlite"].objects \ {t},
                                           head |-> db["sqlite"].head, rows |-> R]]
    BY <1>4, DropEffect
  <2>2. /\ db'["postgres"] = db["postgres"] /\ db'["sqlite"].objects = db["sqlite"].objects \ {t}
        /\ db'["sqlite"].rows = R
    <3> HIDE DEF R, t
    <3> QED BY <2>1 DEF ControlInv, TypeOK, Database
  <2>3. db["sqlite"].objects = Prefix(10 - pc[p]) /\ \A q \in Process \ {p} : ~Between(q)
    BY <1>1, <1>4, AloneAtTheFront DEF SchemaInv, Front
  <2>4. db'["sqlite"].objects = Prefix(9 - pc[p])
    BY <1>1, <2>2, <2>3, PrefixFacts
  <2>5. pc'[p] = pc[p] + 1 /\ \A q \in Process \ {p} : pc'[q] = pc[q]
    BY <1>1 DEF ControlInv, TypeOK
  <2>6. \A q \in Process \ {p} : Touched(q)' = Touched(q) /\ ~Between(q)'
    BY <1>1, <2>3, <2>5 DEF Touched, Between, Ddl
  <2>7. TransactionsWhole'
    BY <1>1, <1>4, <2>1, <2>2, <2>6 DEF SchemaInv, TransactionsWhole
  <2>8. OneAtTheFront'
    <3>1. Front(p)' = 9 - pc[p] /\ 9 - pc[p] \in 0..9
      BY <1>1, <2>5 DEF Front
    <3> QED BY <1>1, <2>4, <2>6, <3>1 DEF OneAtTheFront
  <2>9. RowsHaveTables'
    BY <2>2 DEF SchemaInv, RowsHaveTables, Database
  <2> QED BY <1>2, <2>7, <2>8, <2>9 DEF SchemaInv
<1> QED BY <1>3, <1>4 DEF ControlInv, TypeOK, Database

LEMMA CommitSchema ==
    ASSUME ControlInv, ControlInv', SchemaInv, ~Undone' => ~Undone,
           NEW p \in Process, Commit(p)
    PROVE  SchemaInv'
<1> DEFINE d == opened[p]
<1>1. /\ at[p] = "running" /\ (Ddl(p) => pc[p] = 10) /\ opened' = opened
      /\ at' = [at EXCEPT ![p] = "ended"] /\ pc' = [pc EXCEPT ![p] = 1]
      /\ own' = [own EXCEPT ![p] = Nothing]
      /\ db' = [db EXCEPT ![d] = Left(p)]
  BY CommitEffect
<1>2. /\ at'[p] = "ended" /\ pc'[p] = 1 /\ own'[p] = Nothing
      /\ \A q \in Process \ {p} : at'[q] = at[q] /\ pc'[q] = pc[q] /\ own'[q] = own[q]
      /\ d \in Database /\ db'[d] = Left(p) /\ \A e \in Database \ {d} : db'[e] = db[e]
  <2> HIDE DEF d
  <2>1. d \in Database
    BY DEF ControlInv, TypeOK, d
  <2> QED BY <1>1, <2>1 DEF ControlInv, TypeOK
<1>3. \A q \in Process \ {p} : Touched(q)' = Touched(q) /\ (Between(q)' <=> Between(q)) /\ Front(q)' = Front(q)
  BY <1>1, <1>2 DEF Touched, Between, Front, Ddl
<1>4. ~Between(p)' /\ Touched(p)' = {}
  BY <1>2, PrefixFacts DEF Between, Touched
<1>5. own[p].objects = IF d = "postgres" THEN (IF Ddl(p) THEN Object ELSE {}) ELSE {}
  BY <1>1, TouchedFacts DEF SchemaInv, TransactionsWhole
<1>6. Left(p).objects = IF Role[p] = "downgrade" THEN db[d].objects \ own[p].objects
                                               ELSE db[d].objects \cup own[p].objects
  BY DEF Left
<1>7. Left(p).head = IF Ddl(p) THEN Role[p] = "upgrade" ELSE db[d].head
  BY DEF Left
<1>8. \A r \in Left(p).rows : r.table \in Left(p).objects
  BY DEF Left
<1>9. db[d].objects \subseteq Object
  BY <1>2 DEF ControlInv, TypeOK
<1> HIDE DEF d
<1>10. TransactionsWhole'
  <2>1. db'["postgres"].objects = IF db'["postgres"].head THEN Object ELSE {}
    <3>1. CASE d = "postgres" /\ Role[p] = "upgrade"
      <4>1. Left(p).objects = Object /\ Left(p).head = TRUE
        BY <1>5, <1>6, <1>7, <1>9, <3>1 DEF Ddl
      <4> QED BY <1>2, <3>1, <4>1
    <3>2. CASE d = "postgres" /\ Role[p] = "downgrade"
      <4>1. Left(p).objects = {} /\ Left(p).head = FALSE
        BY <1>5, <1>6, <1>7, <1>9, <3>2 DEF Ddl
      <4> QED BY <1>2, <3>2, <4>1
    <3>3. CASE d = "postgres" /\ ~Ddl(p)
      <4>1. Left(p).objects = db[d].objects /\ Left(p).head = db[d].head
        BY <1>5, <1>6, <1>7, <3>3 DEF Ddl
      <4> QED BY <1>2, <3>3, <4>1 DEF SchemaInv, TransactionsWhole
    <3>4. CASE d # "postgres"
      BY <1>2, <3>4 DEF SchemaInv, TransactionsWhole, Database
    <3> QED BY <3>1, <3>2, <3>3, <3>4 DEF Ddl
  <2>2. ASSUME NEW q \in Process
        PROVE  own'[q].objects = IF opened'[q] = "postgres" THEN Touched(q)' ELSE {}
    <3>1. Nothing.objects = {}
      BY DEF Nothing
    <3>2. CASE q = p
      BY <1>2, <1>4, <3>1, <3>2
    <3>3. CASE q # p
      BY <1>1, <1>2, <1>3, <3>3 DEF SchemaInv, TransactionsWhole
    <3> QED BY <3>2, <3>3
  <2> QED BY <2>1, <2>2 DEF TransactionsWhole
<1>11. db'["sqlite"].objects = db["sqlite"].objects
  <2>1. CASE d = "sqlite"
    <3>1. Left(p).objects = db[d].objects
      BY <1>5, <1>6, <2>1
    <3> QED BY <1>2, <2>1, <3>1
  <2>2. CASE d # "sqlite"
    BY <1>2, <2>2 DEF Database
  <2> QED BY <2>1, <2>2
<1>12. OneAtTheFront'
  BY <1>3, <1>4, <1>11 DEF SchemaInv, OneAtTheFront
<1>13. ASSUME ~Undone' PROVE NothingLost'
  <2>1. NothingLost /\ Role[p] # "downgrade"
    BY <1>1, <1>13 DEF SchemaInv, Undone
  <2>2. Left(p).objects = db[d].objects \cup own[p].objects
    BY <1>6, <2>1
  <2>3. \A e \in Database : db[e].objects \subseteq db'[e].objects
    BY <1>2, <2>2
  <2>4. Role[p] = "upgrade" => db'[d].objects = Object
    <3>1. CASE d = "postgres"
      BY <1>2, <1>5, <1>9, <2>2, <3>1 DEF Ddl
    <3>2. CASE d = "sqlite" /\ Role[p] = "upgrade"
      <4>1. Touched(p) = Object
        BY <1>1, <3>2, TouchedFacts DEF Ddl
      <4>2. Object \subseteq db["sqlite"].objects
        BY <1>1, <2>1, <3>2, <4>1 DEF NothingLost, d
      <4> QED BY <1>2, <1>5, <1>9, <2>2, <3>2, <4>2
    <3> QED BY <1>2, <3>1, <3>2 DEF Database
  <2>5. \A e \in Database : db[e].objects = Object => db'[e].objects = Object
    <3>1. \A e \in Database : db'[e].objects \subseteq Object
      BY DEF ControlInv, TypeOK
    <3> QED BY <2>3, <3>1
  <2>6. opened'[p] = d /\ \A q \in Process : opened[q] \in Database
    BY <1>1 DEF ControlInv, TypeOK, d
  <2>7. ASSUME NEW q \in Process
        PROVE  /\ at'[q] = "running" /\ Role[q] = "upgrade" /\ opened'[q] = "sqlite"
                      => Touched(q)' \subseteq db'["sqlite"].objects
               /\ at'[q] = "ended" /\ Role[q] = "upgrade" => db'[opened'[q]].objects = Object
               /\ \A r \in own'[q].rows : r.table \in db'[opened'[q]].objects
    <3>1. CASE q = p
      BY <1>2, <2>4, <2>6, <3>1 DEF Nothing
    <3>2. CASE q # p
      BY <1>1, <1>2, <1>3, <1>11, <2>1, <2>3, <2>5, <2>6, <3>2 DEF NothingLost
    <3> QED BY <3>1, <3>2
  <2>8. db'["sqlite"].head => db'["sqlite"].objects = Object
    <3>1. CASE d = "sqlite" /\ Ddl(p)
      BY <2>1, <2>4, <3>1 DEF Ddl
    <3>2. CASE ~(d = "sqlite" /\ Ddl(p))
      <4>1. db'["sqlite"].head = db["sqlite"].head
        BY <1>2, <1>7, <3>2 DEF Database
      <4> QED BY <1>11, <2>1, <4>1 DEF NothingLost
    <3> QED BY <3>1, <3>2
  <2> QED BY <2>7, <2>8 DEF NothingLost
<1>14. RowsHaveTables'
  BY <1>2, <1>8 DEF SchemaInv, RowsHaveTables
<1> QED BY <1>10, <1>12, <1>13, <1>14 DEF SchemaInv

LEMMA NextSchema == ASSUME ControlInv, ControlInv', SchemaInv, [Next]_vars PROVE SchemaInv'
<1>0. ~Undone' => ~Undone
  BY UndoneStays
<1>1. ASSUME NEW p \in Process, Boot(p) \/ RefuseSettings(p) \/ WireAgain(p) \/ Restart(p) PROVE SchemaInv'
  <2>1. /\ db' = db /\ pc' = pc /\ own' = own /\ at'[p] # "ended"
        /\ \A q \in Process \ {p} : at'[q] = at[q] /\ opened'[q] = opened[q]
        /\ own[p] = Nothing /\ pc[p] = 1
    BY <1>1 DEF Boot, RefuseSettings, WireAgain, Restart, ControlInv, TypeOK, Nothing
  <2>2. own'[p].objects = {} /\ own'[p].rows = {}
    BY <2>1 DEF Nothing
  <2> QED BY <1>0, <2>1, <2>2, NoDdlStep
<1>2. ASSUME NEW p \in Process, Execute(p) PROVE SchemaInv'
  <2>0. opened' = opened /\ opened[p] \in Database
        /\ Nothing.objects = {} /\ Nothing.rows = {}
    BY <1>2, Statements DEF ControlInv, TypeOK, Nothing
  <2>1. \A q \in Process \ {p} :
            at'[q] = at[q] /\ pc'[q] = pc[q] /\ opened'[q] = opened[q] /\ own'[q] = own[q]
    BY <1>2, <2>0, StatementControl DEF ControlInv, TypeOK
  <2>2. CASE Begin(p)
    <3>1. own[p] = Nothing /\ UNCHANGED <<own, db>> /\ pc'[p] = 1
          /\ (at'[p] = "ended" => db[opened[p]].head)
      BY <2>2, BeginEffect
    <3>2. at'[p] = "ended" /\ ~Undone => db[opened'[p]].objects = Object
      BY <2>0, <3>1 DEF SchemaInv, TransactionsWhole, NothingLost, Database
    <3>3. own'[p].objects = {} /\ own'[p].rows = {}
      BY <2>0, <3>1
    <3> QED BY <1>0, <2>0, <2>1, <3>1, <3>2, <3>3, NoDdlStep
  <2>3. CASE Create(p)
    BY <1>0, <2>0, <2>3, CreateSchema
  <2>4. CASE Drop(p)
    BY <1>0, <2>0, <2>4, DropSchema
  <2>5. CASE Look(p)
    <3>1. db' = db /\ ~Ddl(p) /\ Role[p] # "upgrade"
      BY <2>5, LookEffect DEF Ddl
    <3>2. \/ own'[p] = own[p]
          \/ own'[p] = Nothing /\ pc'[p] = 1
      BY <2>5, LookEffect DEF ControlInv, TypeOK
    <3>3. \/ own'[p].objects = own[p].objects
          \/ own'[p].objects = {} /\ pc'[p] = 1
      BY <2>0, <3>2
    <3>4. ~Undone => \A r \in own'[p].rows : r.table \in db[opened'[p]].objects
      BY <2>0, <3>2 DEF SchemaInv, NothingLost
    <3> QED BY <1>0, <2>0, <2>1, <3>1, <3>3, <3>4, NoDdlStep
  <2>6. CASE Insert(p)
    <3>1. db' = db /\ ~Ddl(p) /\ Role[p] # "upgrade"
      BY <2>6, InsertEffect DEF Ddl
    <3>2. own'[p].objects = own[p].objects /\ own'[p].rows = own[p].rows \cup {Added(p)}
      BY <2>6, InsertEffect DEF ControlInv, TypeOK
    <3>3. ~Undone => \A r \in own'[p].rows : r.table \in db[opened'[p]].objects
      BY <2>0, <2>6, <3>2, InsertEffect DEF SchemaInv, NothingLost
    <3> QED BY <1>0, <2>0, <2>1, <3>1, <3>2, <3>3, NoDdlStep
  <2>7. CASE Provision(p)
    <3>1. db' = db /\ ~Ddl(p) /\ Role[p] # "upgrade"
      BY <2>7, ProvisionEffect DEF Ddl
    <3>2. /\ own'[p].objects = own[p].objects
          /\ own'[p].rows = {Enrolled(r, Program(p)[pc[p]][3]) : r \in own[p].rows}
      BY <2>7, ProvisionEffect DEF ControlInv, TypeOK
    <3>3. \A r \in own[p].rows : Enrolled(r, Program(p)[pc[p]][3]).table = r.table
      BY EnrolledIsRow DEF ControlInv, TypeOK
    <3>4. ~Undone => \A r \in own'[p].rows : r.table \in db[opened'[p]].objects
      BY <2>0, <3>2, <3>3 DEF SchemaInv, NothingLost
    <3> QED BY <1>0, <2>0, <2>1, <3>1, <3>2, <3>4, NoDdlStep
  <2>8. CASE Commit(p)
    BY <1>0, <2>0, <2>8, CommitSchema
  <2>9. CASE Fail(p)
    <3>1. db' = db /\ own'[p] = Nothing /\ pc'[p] = 1 /\ at'[p] = "failed"
      BY <2>9, FailEffect DEF ControlInv, TypeOK
    <3>2. own'[p].objects = {} /\ own'[p].rows = {}
      BY <2>0, <3>1
    <3> QED BY <1>0, <2>0, <2>1, <3>1, <3>2, NoDdlStep
  <2> QED BY <1>2, <2>2, <2>3, <2>4, <2>5, <2>6, <2>7, <2>8, <2>9 DEF Execute
<1>3. CASE UNCHANGED vars \/ Quiet
  <2>1. UNCHANGED vars
    BY <1>3 DEF Quiet
  <2> QED BY <2>1
      DEF vars, SchemaInv, RowsHaveTables, TransactionsWhole, OneAtTheFront, NothingLost, Touched, Between, Front, Undone, Ddl
<1> QED BY <1>1, <1>2, <1>3 DEF Next

----------------------------------------------------------------------------------
(* The rows.                                                                       *)

\* A program is a sequence.
LEMMA ProgramDomain ==
    ASSUME NEW p \in Process, email[p] \in Email
    PROVE  DOMAIN Program(p) = 1..Len(Program(p))
<1>1. Role[p] \in Roles
  BY DeploymentAssumption
<1>2. CASE Role[p] = "upgrade"
  BY <1>2, ObjectsAre DEF Program, Upgrade
<1>3. CASE Role[p] = "downgrade"
  BY <1>3, ObjectsAre DEF Program, Downgrade
<1>4. CASE Role[p] = "create_admin"
  BY <1>4 DEF Program, CreateAdmin, create_user
<1>5. CASE Role[p] = "seed_demo"
  BY <1>5 DEF Program, SeedDemo, create_user, create_item
<1>6. CASE Role[p] = "serve"
  BY <1>6 DEF Program
<1> QED BY <1>1, <1>2, <1>3, <1>4, <1>5, <1>6 DEF Roles

\* A process that is not in a program has no rows pending.
Settled(p) == own'[p].rows = {} /\ pc'[p] = 1 /\ db' = db

\* A statement that adds no row and changes none.
Stepped(p) ==
    /\ own'[p].rows = own[p].rows /\ pc'[p] = pc[p] + 1 /\ opened' = opened
    /\ Program(p)[pc[p]][1] \notin {"insert", "totp"}
    /\ \A d \in Database : db'[d].rows \subseteq db[d].rows
    /\ Undone' \/ \A d \in Database : db'[d].rows = db[d].rows

LEMMA RowsStep ==
    ASSUME ControlInv, [Next]_vars
    PROVE  \/ UNCHANGED vars
           \/ \E p \in Process :
                /\ \A q \in Process \ {p} : pc'[q] = pc[q] /\ own'[q] = own[q] /\ opened'[q] = opened[q]
                /\ \/ Settled(p)
                   \/ /\ at[p] = "running"
                      /\ Stepped(p) \/ Insert(p) \/ Provision(p) \/ Commit(p)
<1>1. ASSUME NEW p \in Process, Boot(p) \/ RefuseSettings(p) \/ WireAgain(p) \/ Restart(p)
      PROVE  /\ \A q \in Process \ {p} : pc'[q] = pc[q] /\ own'[q] = own[q] /\ opened'[q] = opened[q]
             /\ Settled(p)
  <2>1. /\ db' = db /\ pc' = pc /\ own' = own
        /\ \A q \in Process \ {p} : opened'[q] = opened[q]
        /\ own[p] = Nothing /\ pc[p] = 1
    BY <1>1 DEF Boot, RefuseSettings, WireAgain, Restart, ControlInv, TypeOK, Nothing
  <2> QED BY <2>1 DEF Settled, Nothing
<1>2. ASSUME NEW p \in Process, Execute(p)
      PROVE  /\ \A q \in Process \ {p} : pc'[q] = pc[q] /\ own'[q] = own[q] /\ opened'[q] = opened[q]
             /\ \/ Settled(p)
                \/ /\ at[p] = "running"
                   /\ Stepped(p) \/ Insert(p) \/ Provision(p) \/ Commit(p)
  <2>0. Nothing.rows = {} /\ "sqlite" \in Database /\ Database = {"sqlite", "postgres"}
    BY DEF Nothing, Database
  <2>1. \A q \in Process \ {p} : pc'[q] = pc[q] /\ own'[q] = own[q] /\ opened'[q] = opened[q]
    BY <1>2, Statements, StatementControl DEF ControlInv, TypeOK
  <2>2. CASE Begin(p)
    <3>1. own[p] = Nothing /\ pc[p] = 1 /\ UNCHANGED <<pc, own, db>>
      BY <2>2, BeginEffect
    <3> QED BY <2>0, <2>1, <3>1 DEF Settled
  <2>3. CASE Create(p)
    <3>1. at[p] = "running" /\ pc' = [pc EXCEPT ![p] = pc[p] + 1] /\ opened' = opened
      BY <2>3, CreateEffect
    <3>2. Program(p)[pc[p]][1] = "create"
      BY <2>3 DEF Create, Executing, Step
    <3> DEFINE t == Objects[pc[p]]
               x == [objects |-> own[p].objects \cup {t}, rows |-> own[p].rows]
               y == [objects |-> db["sqlite"].objects \cup {t}, head |-> db["sqlite"].head,
                     rows |-> db["sqlite"].rows]
    <3>0. /\ \/ db' = db /\ own' = [own EXCEPT ![p] = x]
             \/ own' = own /\ db' = [db EXCEPT !["sqlite"] = y]
          /\ x.rows = own[p].rows /\ y.rows = db["sqlite"].rows
      BY <2>3, CreateEffect
    <3> HIDE DEF x, y
    <3>3. own'[p].rows = own[p].rows
      BY <3>0 DEF ControlInv, TypeOK
    <3>4. \A d \in Database : db'[d].rows = db[d].rows
      BY <2>0, <3>0 DEF ControlInv, TypeOK
    <3>5. pc'[p] = pc[p] + 1
      BY <3>1 DEF ControlInv, TypeOK
    <3> QED BY <2>1, <3>1, <3>2, <3>3, <3>4, <3>5 DEF Stepped
  <2>4. CASE Drop(p)
    <3>1. at[p] = "running" /\ pc' = [pc EXCEPT ![p] = pc[p] + 1] /\ opened' = opened /\ at' = at
          /\ Role[p] = "downgrade"
      BY <2>4, DropEffect
    <3>2. Program(p)[pc[p]][1] = "drop"
      BY <2>4 DEF Drop, Executing, Step
    <3>3. own'[p].rows = own[p].rows
      BY <2>4, DropEffect DEF ControlInv, TypeOK
    <3>4. ASSUME NEW d \in Database PROVE db'[d].rows \subseteq db[d].rows
      <4> DEFINE R == {r \in db["sqlite"].rows : r.table # Objects[10 - pc[p]]}
                 x == [objects |-> db["sqlite"].objects \ {Objects[10 - pc[p]]}, head |-> db["sqlite"].head, rows |-> R]
      <4>1. db' = db \/ db' = [db EXCEPT !["sqlite"] = x]
        BY <2>4, DropEffect
      <4>2. x.rows \subseteq db["sqlite"].rows
        OBVIOUS
      <4> HIDE DEF x
      <4> QED BY <2>0, <4>1, <4>2 DEF ControlInv, TypeOK
    <3>5. pc'[p] = pc[p] + 1
      BY <3>1 DEF ControlInv, TypeOK
    <3>6. Undone'
      BY <3>1 DEF Undone
    <3> QED BY <2>1, <3>1, <3>2, <3>3, <3>4, <3>5, <3>6 DEF Stepped
  <2>5. CASE Look(p)
    <3>1. at[p] = "running" /\ db' = db /\ opened' = opened /\ Program(p)[pc[p]][1] \in {"skip", "refuse"}
      BY <2>5, LookEffect
    <3>2. \/ own'[p] = own[p] /\ pc'[p] = pc[p] + 1
          \/ own'[p] = Nothing /\ pc'[p] = 1
      BY <2>5, LookEffect DEF ControlInv, TypeOK
    <3>3. CASE own'[p] = own[p] /\ pc'[p] = pc[p] + 1
      BY <2>1, <3>1, <3>3 DEF Stepped
    <3>4. CASE own'[p] = Nothing /\ pc'[p] = 1
      BY <2>0, <2>1, <3>1, <3>4 DEF Settled
    <3> QED BY <3>2, <3>3, <3>4
  <2>6. CASE Fail(p)
    <3>1. db' = db /\ own'[p] = Nothing /\ pc'[p] = 1
      BY <2>6, FailEffect DEF ControlInv, TypeOK
    <3> QED BY <2>0, <2>1, <3>1 DEF Settled
  <2> QED BY <1>2, <2>1, <2>2, <2>3, <2>4, <2>5, <2>6, Statements
<1>3. CASE UNCHANGED vars \/ Quiet
  BY <1>3 DEF Quiet
<1> QED BY <1>1, <1>2, <1>3 DEF Next

\* What a process has executed after its next statement, and after its last.
LEMMA ExecutedGrows ==
    ASSUME ControlInv, [Next]_vars, NEW p \in Process, NEW kind
    PROVE  /\ pc'[p] = pc[p] => Executed(p, kind)' = Executed(p, kind)
           /\ pc'[p] = 1 => Executed(p, kind)' = {}
           /\ at[p] = "running" /\ pc'[p] = pc[p] + 1 =>
                 Executed(p, kind)' =
                     Executed(p, kind) \cup {i \in {pc[p]} : Program(p)[i][1] = kind}
<1>1. Executed(p, kind)' = {i \in 1..(pc'[p] - 1) : Program(p)[i][1] = kind}
  BY StepFrame DEF Executed
<1>2. ASSUME at[p] = "running", pc'[p] = pc[p] + 1 PROVE 1..(pc'[p] - 1) = 1..(pc[p] - 1) \cup {pc[p]}
  <2>1. pc[p] \in Nat /\ pc[p] >= 1
    BY <1>2, Running DEF ControlInv
  <2> QED BY <1>2, <2>1
<1>3. pc'[p] = 1 => 1..(pc'[p] - 1) = {}
  OBVIOUS
<1> QED BY <1>1, <1>2, <1>3 DEF Executed

LEMMA NextPending == ASSUME ControlInv, PendingIsProgram, [Next]_vars PROVE PendingIsProgram'
<1>0. \A q \in Process : Program(q)' = Program(q)
  BY StepFrame
<1>1. ASSUME NEW q \in Process, pc'[q] = pc[q], own'[q] = own[q] PROVE Pending(q)'
  <2>1. \A kind : Executed(q, kind)' = Executed(q, kind)
    BY <1>1, ExecutedGrows
  <2> QED BY <1>0, <1>1, <2>1 DEF Pending, PendingIsProgram
<1>2. CASE UNCHANGED vars
  BY <1>1, <1>2 DEF vars, PendingIsProgram
<1>3. ASSUME NEW p \in Process,
             \A q \in Process \ {p} : pc'[q] = pc[q] /\ own'[q] = own[q] /\ opened'[q] = opened[q],
             \/ Settled(p)
             \/ /\ at[p] = "running"
                /\ Stepped(p) \/ Insert(p) \/ Provision(p) \/ Commit(p)
      PROVE  PendingIsProgram'
  <2> SUFFICES Pending(p)'
    BY <1>1, <1>3 DEF PendingIsProgram
  <2>1. CASE own'[p].rows = {} /\ pc'[p] = 1
    <3>1. Executed(p, "insert")' = {} /\ Executed(p, "totp")' = {}
      BY <2>1, ExecutedGrows
    <3> QED BY <2>1, <3>1 DEF Pending
  <2>2. Settled(p) \/ Commit(p) => own'[p].rows = {} /\ pc'[p] = 1
    BY CommitEffect DEF Settled, Nothing, ControlInv, TypeOK
  <2>3. CASE at[p] = "running" /\ Stepped(p)
    <3>1. Executed(p, "insert")' = Executed(p, "insert") /\ Executed(p, "totp")' = Executed(p, "totp")
      <4>1. pc'[p] = pc[p] + 1 /\ Program(p)[pc[p]][1] # "insert" /\ Program(p)[pc[p]][1] # "totp"
        BY <2>3 DEF Stepped
      <4>2. {i \in {pc[p]} : Program(p)[i][1] = "insert"} = {} /\ {i \in {pc[p]} : Program(p)[i][1] = "totp"} = {}
        BY <4>1
      <4> QED BY <2>3, <4>1, <4>2, ExecutedGrows
    <3> QED BY <1>0, <2>3, <3>1 DEF Pending, PendingIsProgram, Stepped
  <2>4. CASE Insert(p)
    <3>1. /\ at[p] = "running" /\ Program(p)[pc[p]][1] = "insert"
          /\ pc[p] + 1 \in 1..Len(Program(p)) /\ pc'[p] = pc[p] + 1
          /\ own'[p].rows = own[p].rows \cup {Added(p)}
      BY <2>4, InsertEffect DEF ControlInv, TypeOK
    <3>2. Executed(p, "insert")' = Executed(p, "insert") \cup {pc[p]}
      BY <3>1, ExecutedGrows
    <3>3. Executed(p, "totp")' = {}
      <4>1. Executed(p, "totp")' = Executed(p, "totp")
        BY <3>1, ExecutedGrows
      <4>2. ASSUME NEW i \in Executed(p, "totp") PROVE FALSE
        <5>1. i \in 1..(pc[p] - 1) /\ Program(p)[i][1] = "totp"
          BY DEF Executed
        <5>2. i \in 1..Len(Program(p)) /\ Len(Program(p)) \in Nat /\ pc[p] \in Nat
          BY <3>1, <5>1, Running DEF ControlInv
        <5>3. i = Len(Program(p)) - 1
          BY <3>1, <5>1, <5>2, Running DEF ControlInv, Shaped
        <5> QED BY <3>1, <5>1, <5>2, <5>3
      <4> QED BY <4>1, <4>2
    <3>4. /\ Added(p).by = p /\ Added(p).guessable = FALSE
          /\ Added(p).table = Program(p)[pc[p]][2] /\ Added(p).key = Program(p)[pc[p]][3]
      BY DEF Added
    <3>5. \A r \in own'[p].rows :
              /\ r.by = p /\ ~r.guessable
              /\ \E i \in Executed(p, "insert")' : Program(p)[i][2] = r.table /\ Program(p)[i][3] = r.key
      BY <3>1, <3>2, <3>4 DEF Pending, PendingIsProgram
    <3>6. \A i \in Executed(p, "insert")' :
              \E r \in own'[p].rows : r.table = Program(p)[i][2] /\ r.key = Program(p)[i][3]
      BY <3>1, <3>2, <3>4 DEF Pending, PendingIsProgram
    <3> QED BY <1>0, <3>3, <3>5, <3>6 DEF Pending
  <2>5. CASE Provision(p)
    <3> DEFINE k == Program(p)[pc[p]][3]
    <3>1. /\ at[p] = "running" /\ Program(p)[pc[p]][1] = "totp" /\ pc'[p] = pc[p] + 1
          /\ own'[p].rows = {Enrolled(r, k) : r \in own[p].rows}
      BY <2>5, ProvisionEffect DEF ControlInv, TypeOK
    <3>2. Executed(p, "insert")' = Executed(p, "insert") /\ Executed(p, "totp")' = Executed(p, "totp") \cup {pc[p]}
      BY <3>1, ExecutedGrows
    <3>3. \A r \in own[p].rows :
              /\ Enrolled(r, k).table = r.table /\ Enrolled(r, k).key = r.key /\ Enrolled(r, k).by = r.by
              /\ Enrolled(r, k).guessable = r.guessable
              /\ (r.key = k => Enrolled(r, k).totp) /\ (r.totp => Enrolled(r, k).totp)
      BY EnrolledIsRow DEF ControlInv, TypeOK
    <3>4. Pending(p)
      BY DEF PendingIsProgram
    <3>5. \A r \in own'[p].rows :
              /\ r.by = p /\ ~r.guessable
              /\ \E i \in Executed(p, "insert") : Program(p)[i][2] = r.table /\ Program(p)[i][3] = r.key
      <4> HIDE DEF k
      <4> QED BY <3>1, <3>3, <3>4 DEF Pending
    <3>6. \A i \in Executed(p, "insert") :
              \E r \in own'[p].rows : r.table = Program(p)[i][2] /\ r.key = Program(p)[i][3]
      <4> HIDE DEF k
      <4> QED BY <3>1, <3>3, <3>4 DEF Pending
    <3>7. \A i \in Executed(p, "totp")' : \A r \in own'[p].rows : r.key = Program(p)[i][3] => r.totp
      <4>1. \A r \in own'[p].rows : r.key = k => r.totp
        <5> HIDE DEF k
        <5> QED BY <3>1, <3>3
      <4>2. \A i \in Executed(p, "totp") : \A r \in own'[p].rows : r.key = Program(p)[i][3] => r.totp
        <5> HIDE DEF k
        <5> QED BY <3>1, <3>3, <3>4 DEF Pending
      <4> QED BY <3>2, <4>1, <4>2
    <3> QED BY <1>0, <3>2, <3>5, <3>6, <3>7 DEF Pending
  <2> QED BY <1>3, <2>1, <2>2, <2>3, <2>4, <2>5
<1> QED BY <1>2, <1>3, RowsStep

\* A transaction that waits for no other inserts no user another has pending.
LEMMA InsertAlone ==
    ASSUME ControlInv, PendingIsProgram, NEW p \in Process, Insert(p), NEW q \in Process \ {p},
           opened[q] = opened[p], NEW s \in own[q].rows, s.table = "users", Added(p).table = "users"
    PROVE  s.key # Added(p).key
<1>1. /\ ~Waits(p) /\ Program(p)[pc[p]][1] = "insert"
      /\ Program(p)[pc[p]][2] = "users" /\ Added(p).key = Program(p)[pc[p]][3]
  BY InsertEffect DEF Added
<1>2. q \in Others(p)
  BY DEF ControlInv, TypeOK, Others
<1>3. CASE opened[p] = "postgres"
  <2>1. "users" \in Held(q)
    BY DEF PendingIsProgram, Pending, Executed, Held, On
  <2>2. On("users") = "users"
    BY DEF On
  <2>3. q \in Others(p) /\ On(Step(p)[2]) \in Held(q) /\ Step(p) = Program(p)[pc[p]]
    BY <1>1, <1>2, <2>1, <2>2 DEF Step
  <2> QED BY <1>1, <1>3, <2>3 DEF Waits
<1>4. CASE opened[p] # "postgres"
  BY <1>1, <1>2, <1>4 DEF Waits, Step
<1> QED BY <1>3, <1>4

\* The index appears on SQLite alone by its own statement, which finds one account for each
\* address, and nothing pending.
LEMMA IndexAppears ==
    ASSUME ControlInv, SchemaInv, PendingIsProgram, [Next]_vars, NEW d \in Database, ~Guarded(d), Guarded(d)'
    PROVE  /\ d = "sqlite" /\ OneEach(d) /\ UNCHANGED <<own, opened>>
           /\ \A e \in Database : db'[e].rows = db[e].rows
           /\ \A q \in Process : opened[q] = d => own[q].rows = {}
<1> DEFINE ix == "ix_users_email"
<1>1. d = "sqlite" /\ ix \notin db["sqlite"].objects /\ ix \in db'["sqlite"].objects
  BY DEF Guarded, Database
<1>2. PICK p \in Process : Create(p)
  <2>1. db' # db
    BY <1>1
  <2>2. PICK p \in Process : Execute(p)
    BY <2>1 DEF Next, vars, Quiet, Boot, RefuseSettings, WireAgain, Restart
  <2>3. ~(Begin(p) \/ Look(p) \/ Insert(p) \/ Provision(p) \/ Fail(p))
    BY <2>1, BeginEffect, LookEffect, InsertEffect, ProvisionEffect, FailEffect
  <2>4. ASSUME Drop(p) PROVE FALSE
    <3> DEFINE x == [objects |-> db["sqlite"].objects \ {Objects[10 - pc[p]]}, head |-> db["sqlite"].head,
                     rows |-> {r \in db["sqlite"].rows : r.table # Objects[10 - pc[p]]}]
    <3>1. db' = [db EXCEPT !["sqlite"] = x]
      BY <2>1, <2>4, DropEffect
    <3>2. ix \notin x.objects
      BY <1>1
    <3> HIDE DEF x
    <3> QED BY <1>1, <3>1, <3>2 DEF ControlInv, TypeOK, Database
  <2>5. ASSUME Commit(p) PROVE FALSE
    <3>1. db' = [db EXCEPT ![opened[p]] = Left(p)]
      BY <2>5, CommitEffect
    <3>2. opened[p] = "sqlite"
      BY <1>1, <3>1 DEF ControlInv, TypeOK, Database
    <3>3. own[p].objects = {}
      BY <3>2 DEF SchemaInv, TransactionsWhole
    <3>4. Left(p).objects \subseteq db["sqlite"].objects
      BY <3>2, <3>3 DEF Left
    <3> QED BY <1>1, <3>1, <3>2, <3>4 DEF ControlInv, TypeOK, Database
  <2> QED BY <2>2, <2>3, <2>4, <2>5 DEF Execute
<1>3. /\ at[p] = "running" /\ Role[p] = "upgrade" /\ pc[p] \in 1..9 /\ opened' = opened
      /\ opened[p] = "sqlite" /\ own' = own
      /\ db' = [db EXCEPT !["sqlite"] = [objects |-> db["sqlite"].objects \cup {Objects[pc[p]]},
                                         head |-> db["sqlite"].head, rows |-> db["sqlite"].rows]]
  <2>1. db' # db
    BY <1>1
  <2> QED BY <1>2, <2>1, CreateEffect
<1>4. Objects[pc[p]] = ix /\ \A e \in Database : db'[e].rows = db[e].rows
  BY <1>1, <1>3 DEF ControlInv, TypeOK, Database
<1>5. Step(p)[1] = "create" /\ ~Waits(p) /\ OneEach(d)
  <2>1. Step(p)[1] = "create" /\ ~Waits(p) /\ (Step(p)[2] = ix => OneEach(opened[p]))
    BY <1>2 DEF Create, Executing
  <2>2. Program(p)[pc[p]][2] = Objects[pc[p]]
    BY <1>3, <2>1, Kinds DEF ControlInv, Step
  <2> QED BY <1>1, <1>3, <1>4, <2>1, <2>2 DEF Step
<1>6. ASSUME NEW q \in Process, opened[q] = d PROVE own[q].rows = {}
  <2>1. CASE q = p
    <3>1. ASSUME NEW i \in Executed(p, "insert") PROVE FALSE
      <4>1. i \in 1..(pc[p] - 1) /\ Program(p)[i][1] = "insert"
        BY DEF Executed
      <4>2. i \in 1..Len(Program(p)) /\ i <= 9
        BY <1>3, <4>1, Running DEF ControlInv
      <4>3. Shaped(p, i)
        BY <1>3, <4>2, Running DEF ControlInv
      <4> QED BY <1>3, <4>1, <4>2, <4>3 DEF Shaped
    <3> QED BY <2>1, <3>1 DEF PendingIsProgram, Pending
  <2>2. CASE q # p /\ at[q] = "running"
    <3>1. q \in Others(p)
      BY <1>1, <1>3, <1>6, <2>2 DEF Others
    <3> QED BY <1>3, <1>5, <3>1 DEF Waits
  <2>3. CASE at[q] # "running"
    BY <2>3 DEF ControlInv, TypeOK
  <2> QED BY <2>1, <2>2, <2>3
<1> QED BY <1>1, <1>3, <1>4, <1>5, <1>6

\* Where a user can be inserted on PostgreSQL, the whole schema is there.
LEMMA InsertGuarded ==
    ASSUME ControlInv, SchemaInv, NEW p \in Process, Insert(p), Guarded(opened[p])
    PROVE  Exists(p, "ix_users_email")
<1>1. CASE opened[p] = "postgres"
  <2>1. db["postgres"].objects = Object
    BY <1>1, InsertEffect DEF SchemaInv, TransactionsWhole
  <2>2. Objects[4] = "ix_users_email"
    BY DEF Objects
  <2>3. "ix_users_email" \in Object
    BY <2>2, ObjectsAre DEF Prefix
  <2> QED BY <1>1, <2>1, <2>3 DEF Exists, Here
<1>2. CASE opened[p] # "postgres"
  BY <1>2 DEF Guarded, Exists, Here
<1> QED BY <1>1, <1>2

LEMMA NextUnique ==
    ASSUME ControlInv, SchemaInv, PendingIsProgram, PendingIsUnique, [Next]_vars
    PROVE  PendingIsUnique'
<1>0. \A q \in Process : opened[q] \in Database
  BY DEF ControlInv, TypeOK
<1>1. CASE UNCHANGED vars
  BY <1>1 DEF vars, PendingIsUnique, Guarded
<1>2. ASSUME NEW d \in Database, ~Guarded(d), Guarded(d)' PROVE PendingIsUnique'
  <2>1. /\ d = "sqlite" /\ UNCHANGED <<own, opened>>
        /\ \A e \in Database : db'[e].rows = db[e].rows
        /\ \A q \in Process : opened[q] = d => own[q].rows = {}
    BY <1>2, IndexAppears
  <2>2. \A q \in Process : opened[q] # d => Guarded(opened[q])
    BY <1>0, <2>1 DEF Guarded, Database
  <2>3. \A q \in Process : db'[opened'[q]].rows = db[opened[q]].rows /\ opened'[q] = opened[q] /\ own'[q] = own[q]
    BY <1>0, <2>1
  <2>4. ASSUME NEW q \in Process, NEW r \in own[q].rows, r.table = "users"
        PROVE  /\ \A s \in db[opened[q]].rows : s.table = "users" => s.key # r.key
               /\ \A o \in Process : \A s \in own[o].rows :
                   opened[o] = opened[q] /\ s.table = "users" /\ s.key = r.key => s = r
    BY <2>1, <2>2, <2>4 DEF PendingIsUnique
  <2> QED BY <2>3, <2>4 DEF PendingIsUnique
<1>3. ASSUME NEW p \in Process,
             \A q \in Process \ {p} : pc'[q] = pc[q] /\ own'[q] = own[q] /\ opened'[q] = opened[q],
             \/ Settled(p)
             \/ /\ at[p] = "running"
                /\ Stepped(p) \/ Insert(p) \/ Provision(p) \/ Commit(p),
             \A d \in Database : Guarded(d)' => Guarded(d)
      PROVE  PendingIsUnique'
  <2>0. \A q \in Process : opened'[q] = opened[q] /\ Guarded(opened[q])' => Guarded(opened[q])
    <3> TAKE q \in Process
    <3>1. PICK d \in Database : d = opened[q]
      BY <1>0
    <3> QED BY <1>3, <3>1 DEF Guarded
  <2>1. CASE Settled(p)
    BY <1>3, <2>0, <2>1 DEF Settled, PendingIsUnique, Guarded
  <2>2. CASE Stepped(p)
    BY <1>0, <1>3, <2>0, <2>2 DEF Stepped, PendingIsUnique, Guarded
  <2>3. CASE Insert(p)
    <3>1. db' = db /\ opened' = opened /\ own'[p].rows = own[p].rows \cup {Added(p)}
      BY <2>3, InsertEffect DEF ControlInv, TypeOK
    <3>2. ASSUME Added(p).table = "users", Guarded(opened[p])
          PROVE  /\ \A s \in db[opened[p]].rows : s.table = "users" => s.key # Added(p).key
                 /\ \A s \in own[p].rows : s.table = "users" => s.key # Added(p).key
      BY <2>3, <3>2, InsertEffect, InsertGuarded DEF Taken, Found, Here, Unique
    <3>3. ASSUME Added(p).table = "users", NEW q \in Process \ {p}, opened[q] = opened[p], NEW s \in own[q].rows,
                 s.table = "users"
          PROVE  s.key # Added(p).key
      BY <2>3, <3>3, InsertAlone
    <3> QED BY <1>3, <2>0, <3>1, <3>2, <3>3 DEF PendingIsUnique, Guarded
  <2>4. CASE Provision(p)
    <3> DEFINE k == Program(p)[pc[p]][3]
    <3>1. /\ db' = db /\ opened' = opened
          /\ own'[p].rows = {Enrolled(r, k) : r \in own[p].rows}
      BY <2>4, ProvisionEffect DEF ControlInv, TypeOK
    <3>2. \A r \in own[p].rows : Enrolled(r, k).table = r.table /\ Enrolled(r, k).key = r.key
      BY EnrolledIsRow DEF ControlInv, TypeOK
    <3>3. \A q \in Process : \A r \in own[q].rows : r.by = q
      BY DEF PendingIsProgram, Pending
    <3> HIDE DEF k
    <3> QED BY <1>3, <2>0, <3>1, <3>2, <3>3 DEF PendingIsUnique, Guarded
  <2>5. CASE Commit(p)
    <3>1. opened' = opened /\ own'[p].rows = {} /\ db'[opened[p]] = Left(p)
          /\ \A d \in Database \ {opened[p]} : db'[d] = db[d]
      BY <1>0, <2>5, CommitEffect DEF ControlInv, TypeOK, Nothing
    <3>2. Left(p).rows \subseteq db[opened[p]].rows \cup own[p].rows
      BY DEF Left
    <3>3. \A q \in Process : \A r \in own[q].rows : r.by = q
      BY DEF PendingIsProgram, Pending
    <3> QED BY <1>0, <1>3, <2>0, <3>1, <3>2, <3>3 DEF PendingIsUnique, Guarded
  <2> QED BY <1>3, <2>1, <2>2, <2>3, <2>4, <2>5
<1> QED BY <1>1, <1>2, <1>3, RowsStep

\* What is pending when a transaction commits: every row the program stores, an
\* administrator's with its second factor.
LEMMA PendingIsComplete ==
    ASSUME ControlInv, PendingIsProgram, NEW p \in Process, Commit(p), NEW r \in own[p].rows
    PROVE  /\ r.by = p /\ ~r.guessable
           /\ r.table = "users" /\ (Role[p] = "create_admin" \/ r.key = "admin@example.com") => r.totp
           /\ \A i \in DOMAIN Program(p) : Program(p)[i][1] = "insert" =>
                 \E s \in own[p].rows : s.by = p /\ <<s.table, s.key>> = Tail(Program(p)[i])
<1> DEFINE last == Len(Program(p))
<1>1. at[p] = "running" /\ pc[p] = last
  BY CommitEffect
<1>2. last \in Nat /\ (\A i \in 1..last : Shaped(p, i)) /\ DOMAIN Program(p) = 1..last
  BY <1>1, Running, ProgramDomain DEF ControlInv, TypeOK
<1>3. Pending(p)
  BY DEF PendingIsProgram
<1>4. \A i \in 1..last : Program(p)[i][1] = "insert" => i \in Executed(p, "insert")
  <2> TAKE i \in 1..last
  <2>1. HAVE Program(p)[i][1] = "insert"
  <2>2. i # last
    BY <1>2, <2>1 DEF Shaped
  <2> HIDE DEF last
  <2>3. i \in 1..(pc[p] - 1)
    BY <1>1, <1>2, <2>2
  <2> QED BY <2>1, <2>3 DEF Executed
<1>5. ASSUME NEW i \in DOMAIN Program(p), Program(p)[i][1] = "insert"
      PROVE  \E s \in own[p].rows : s.by = p /\ <<s.table, s.key>> = Tail(Program(p)[i])
  <2>1. PICK s \in own[p].rows : s.table = Program(p)[i][2] /\ s.key = Program(p)[i][3]
    BY <1>2, <1>3, <1>4, <1>5 DEF Pending
  <2>2. Tail(Program(p)[i]) = <<Program(p)[i][2], Program(p)[i][3]>>
    BY <1>2, <1>5 DEF Shaped
  <2>3. s.by = p
    BY <1>3 DEF Pending
  <2> QED BY <2>1, <2>2, <2>3
<1>6. ASSUME r.table = "users", Role[p] = "create_admin" \/ r.key = "admin@example.com" PROVE r.totp
  <2>1. PICK i \in Executed(p, "insert") : Program(p)[i][2] = r.table /\ Program(p)[i][3] = r.key
    BY <1>3 DEF Pending
  <2>2. i \in 1..last /\ i <= last - 1 /\ last - 1 \in 1..last /\ Program(p)[i][1] = "insert"
    BY <1>1, <1>2, <2>1 DEF Executed
  <2>3. Shaped(p, i)
    BY <1>2, <2>2
  <2>4. Program(p)[last - 1][1] = "totp" /\ Program(p)[last - 1][3] = r.key
    BY <1>6, <2>1, <2>2, <2>3 DEF Shaped
  <2>5. last - 1 \in Executed(p, "totp")
    BY <1>1, <1>2, <2>2, <2>4 DEF Executed
  <2> QED BY <1>3, <2>4, <2>5 DEF Pending
<1> QED BY <1>3, <1>5, <1>6 DEF Pending

\* Rows that stay, or go as the operator takes the schema down.
LEMMA AccountsStay ==
    ASSUME ControlInv, SchemaInv, PendingIsProgram, AccountsConsistent, [Next]_vars,
           \A d \in Database : db'[d].rows \subseteq db[d].rows,
           Undone' \/ \A d \in Database : db'[d].rows = db[d].rows
    PROVE  AccountsConsistent'
<1>1. /\ ~Undone' => ~Undone
      /\ \A q : Program(q)' = Program(q)
  BY StepFrame, UndoneStays
<1>2. StoredWhole'
  BY <1>1 DEF AccountsConsistent, StoredWhole
<1>3. ASSUME NEW d \in Database, Guarded(d)' PROVE OneEach(d)'
  <2>1. OneEach(d)
    BY <1>3, IndexAppears DEF AccountsConsistent, OneUserPerEmail, Guarded
  <2> QED BY <2>1 DEF OneEach
<1>4. OneUserPerEmail'
  BY <1>3 DEF OneUserPerEmail, Guarded
<1> QED BY <1>2, <1>4 DEF AccountsConsistent, AdminsHaveTotp, NoGuessablePasswords

LEMMA CommitAccounts ==
    ASSUME ControlInv, SchemaInv, RowsInv, NEW p \in Process, Commit(p), [Next]_vars
    PROVE  AccountsConsistent'
<1> DEFINE d == opened[p]
<1>0. PendingIsProgram /\ PendingIsUnique /\ AccountsConsistent
  BY DEF RowsInv
<1>1. /\ ~Undone' => ~Undone
      /\ \A q : Program(q)' = Program(q)
  BY StepFrame, UndoneStays
<1>2. d \in Database /\ db'[d] = Left(p) /\ \A e \in Database \ {d} : db'[e] = db[e]
  <2>1. d \in Database
    BY DEF ControlInv, TypeOK
  <2> HIDE DEF d
  <2>2. db' = [db EXCEPT ![d] = Left(p)]
    BY CommitEffect DEF d
  <2> QED BY <2>1, <2>2 DEF ControlInv, TypeOK
<1>3. Left(p).rows \subseteq db[d].rows \cup own[p].rows
  BY DEF Left
<1>4. \A r \in own[p].rows :
          /\ r.by = p /\ ~r.guessable
          /\ r.table = "users" /\ (Role[p] = "create_admin" \/ r.key = "admin@example.com") => r.totp
          /\ \A i \in DOMAIN Program(p) : Program(p)[i][1] = "insert" =>
                \E s \in own[p].rows : s.by = p /\ <<s.table, s.key>> = Tail(Program(p)[i])
  BY <1>0, PendingIsComplete
<1>5. Guarded(d) =>
          /\ \A r \in own[p].rows, s \in db[d].rows :
                 r.table = "users" /\ s.table = "users" => s.key # r.key
          /\ \A r, s \in own[p].rows : r.table = "users" /\ s.table = "users" /\ s.key = r.key => s = r
  BY <1>0 DEF PendingIsUnique
<1> HIDE DEF d
<1>6. OneUserPerEmail'
  <2>1. ASSUME NEW e \in Database, Guarded(e)', NEW r \in db'[e].rows, NEW s \in db'[e].rows,
               r.table = "users", s.table = "users", r.key = s.key
        PROVE  r = s
    <3>1. CASE ~Guarded(e)
      BY <1>0, <2>1, <3>1, IndexAppears DEF OneEach
    <3>2. CASE Guarded(e)
      <4>1. OneEach(e)
        BY <1>0, <3>2 DEF AccountsConsistent, OneUserPerEmail, Guarded
      <4>2. CASE e = d
        BY <1>2, <1>3, <1>5, <2>1, <3>2, <4>1, <4>2 DEF OneEach
      <4>3. CASE e # d
        BY <1>2, <2>1, <4>1, <4>3 DEF OneEach
      <4> QED BY <4>2, <4>3
    <3> QED BY <3>1, <3>2
  <2>2. ASSUME NEW e \in Database, Guarded(e)' PROVE OneEach(e)'
    BY <2>1, <2>2 DEF OneEach
  <2> QED BY <2>2 DEF OneUserPerEmail, Guarded
<1>7. AdminsHaveTotp' /\ NoGuessablePasswords'
  <2>1. ASSUME NEW e \in Database, NEW r \in db'[e].rows
        PROVE  /\ r.table = "users" /\ (Role[r.by] = "create_admin" \/ r.key = "admin@example.com") => r.totp
               /\ ~r.guessable
    <3>1. CASE r \in db[e].rows
      BY <1>0, <3>1 DEF AccountsConsistent, AdminsHaveTotp, NoGuessablePasswords
    <3>2. CASE r \notin db[e].rows
      <4>1. r \in own[p].rows
        BY <1>2, <1>3, <2>1, <3>2
      <4> QED BY <1>4, <4>1
    <3> QED BY <3>1, <3>2
  <2> QED BY <2>1 DEF AdminsHaveTotp, NoGuessablePasswords
<1>8. ASSUME ~Undone' PROVE StoredWhole'
  <2>1. NothingLost /\ ~Undone
    BY <1>1, <1>8 DEF SchemaInv
  <2>2. Role[p] # "downgrade"
    BY <2>1, CommitEffect DEF Undone
  <2>3. Left(p).rows = db[d].rows \cup own[p].rows
    <3>1. \A r \in db[d].rows \cup own[p].rows : r.table \in db[d].objects
      BY <1>2, <2>1 DEF SchemaInv, RowsHaveTables, NothingLost, d
    <3> QED BY <2>2, <3>1 DEF Left, d
  <2>4. ASSUME NEW e \in Database, NEW r \in db'[e].rows, NEW i \in DOMAIN Program(r.by),
               Program(r.by)[i][1] = "insert"
        PROVE  \E s \in db'[e].rows : s.by = r.by /\ <<s.table, s.key>> = Tail(Program(r.by)[i])
    <3>1. CASE r \in db[e].rows
      <4>1. PICK s \in db[e].rows : s.by = r.by /\ <<s.table, s.key>> = Tail(Program(r.by)[i])
        BY <1>0, <2>1, <2>4, <3>1 DEF AccountsConsistent, StoredWhole
      <4>2. db[e].rows \subseteq db'[e].rows
        BY <1>2, <2>3
      <4> QED BY <4>1, <4>2
    <3>2. CASE r \notin db[e].rows
      <4>1. e = d /\ r \in own[p].rows /\ r.by = p
        BY <1>2, <1>3, <1>4, <2>4, <3>2
      <4>2. PICK s \in own[p].rows : s.by = p /\ <<s.table, s.key>> = Tail(Program(p)[i])
        BY <1>4, <2>4, <4>1
      <4>3. s \in db'[e].rows
        BY <1>2, <2>3, <4>1
      <4> QED BY <4>1, <4>2, <4>3
    <3> QED BY <3>1, <3>2
  <2> QED BY <1>1, <2>4 DEF StoredWhole
<1>9. StoredWhole'
  BY <1>8 DEF StoredWhole
<1> QED BY <1>6, <1>7, <1>9 DEF AccountsConsistent

LEMMA NextRows == ASSUME ControlInv, SchemaInv, RowsInv, [Next]_vars PROVE RowsInv'
<1>1. PendingIsProgram' /\ PendingIsUnique'
  BY NextPending, NextUnique DEF RowsInv
<1>2. AccountsConsistent'
  <2>0. AccountsConsistent
    BY DEF RowsInv
  <2>1. ASSUME NEW p \in Process, Commit(p) PROVE AccountsConsistent'
    BY <2>1, CommitAccounts
  <2>2. ASSUME db' = db PROVE AccountsConsistent'
    BY <2>0, <2>2, AccountsStay DEF RowsInv
  <2>3. ASSUME NEW p \in Process, Stepped(p) PROVE AccountsConsistent'
    BY <2>0, <2>3, AccountsStay DEF Stepped, RowsInv
  <2>4. ASSUME NEW p \in Process, Settled(p) \/ Insert(p) \/ Provision(p) PROVE db' = db
    BY <2>4, InsertEffect, ProvisionEffect DEF Settled
  <2>5. UNCHANGED vars => db' = db
    BY DEF vars
  <2> QED BY <2>1, <2>2, <2>3, <2>4, <2>5, RowsStep
<1> QED BY <1>1, <1>2 DEF RowsInv

LEMMA InitRows == ASSUME Init PROVE RowsInv
<1>1. /\ \A p \in Process : pc[p] = 1 /\ own[p].rows = {}
      /\ \A d \in Database : db[d].rows = {}
  BY DEF Init
<1>2. \A p \in Process : \A kind : Executed(p, kind) = {}
  BY <1>1 DEF Executed
<1>3. PendingIsProgram /\ PendingIsUnique
  BY <1>1, <1>2 DEF PendingIsProgram, Pending, PendingIsUnique
<1>4. AccountsConsistent
  BY <1>1 DEF AccountsConsistent, OneUserPerEmail, OneEach, AdminsHaveTotp, NoGuessablePasswords, StoredWhole
<1> QED BY <1>3, <1>4 DEF RowsInv

----------------------------------------------------------------------------------
(* What follows of every behaviour.                                                *)

\* The first tables refer only to one another.
LEMMA PrefixClosed ==
    ASSUME NEW n \in 0..9, NEW ref \in References, ref[1] \in Prefix(n)
    PROVE  ref[2] \in Prefix(n)
<1>1. /\ Objects[3] = "users" /\ Objects[4] = "ix_users_email" /\ Objects[5] = "webhook_endpoints"
      /\ Objects[6] = "api_keys" /\ Objects[7] = "audit_events" /\ Objects[8] = "items"
      /\ Objects[9] = "webhook_deliveries"
  BY DEF Objects
<1>2. \/ ref[1] = Objects[4] /\ ref[2] = Objects[3]
      \/ ref[1] = Objects[6] /\ ref[2] = Objects[3]
      \/ ref[1] = Objects[7] /\ ref[2] = Objects[3]
      \/ ref[1] = Objects[8] /\ ref[2] = Objects[3]
      \/ ref[1] = Objects[9] /\ ref[2] = Objects[5]
  BY <1>1 DEF References
<1> QED BY <1>2, PrefixFacts

LEMMA ConsistentFromInv == ASSUME ControlInv, SchemaInv PROVE DeploymentConsistent
<1>1. SchemaMatchesVersion
  BY DEF SchemaInv, SchemaMatchesVersion, TransactionsWhole, NothingLost
<1>2. \A d \in Database : \E n \in 0..9 : db[d].objects = Prefix(n)
  <2>1. \E n \in 0..9 : db["postgres"].objects = Prefix(n)
    <3>1. db["postgres"].objects = Prefix(0) \/ db["postgres"].objects = Prefix(9)
      BY PrefixFacts DEF SchemaInv, TransactionsWhole
    <3> QED BY <3>1
  <2>2. \E n \in 0..9 : db["sqlite"].objects = Prefix(n)
    BY DEF SchemaInv, OneAtTheFront
  <2> QED BY <2>1, <2>2 DEF Database
<1>3. ReferencesExist
  BY <1>2, PrefixClosed DEF ReferencesExist
<1>4. HandlersOnce
  <2>1. ASSUME NEW p \in Process, at[p] = "serving"
        PROVE  Len(wired[p]) = 2 /\ {wired[p][i] : i \in 1..2} = {"webhooks", "audit"}
    <3>1. wired[p] = <<"webhooks", "audit">>
      BY <2>1 DEF ControlInv, BusWired
    <3>2. {<<"webhooks", "audit">>[i] : i \in 1..2} = {"webhooks", "audit"}
      <4>1. 1..2 = {1, 2}
        OBVIOUS
      <4> QED BY <4>1
    <3> QED BY <3>1, <3>2
  <2> QED BY <2>1 DEF HandlersOnce
<1> QED BY <1>1, <1>3, <1>4 DEF ControlInv, DeploymentConsistent

\* A server starts after an upgrade has ended, on the database that it migrated.
LEMMA ServeStep ==
    ASSUME ControlInv, SchemaInv, [Next]_vars, NEW p \in Process, at[p] # "serving", at'[p] = "serving",
           compose \/ (Migrated /\ ~unset'[p])
    PROVE  db[opened'[p]].objects = Object \/ Undone
<1>1. CASE Boot(p)
  <2>0. ControlInv' /\ compose' = compose /\ intended' = intended
    BY NextControl, StepFrame
  <2>1. /\ Role[p] = "serve"
        /\ (compose => opened'[p] = "postgres") /\ (~unset'[p] => opened'[p] = intended)
    BY <2>0 DEF ControlInv, Lives
  <2>2. PICK q \in Process : Role[q] = "upgrade" /\ at[q] = "ended" /\ (compose \/ (~unset[q] /\ ~unset'[p]))
    BY <1>1, <2>1 DEF Boot, Ordered, Migrated
  <2>3. (compose => opened[q] = "postgres") /\ (~unset[q] => opened[q] = intended)
    BY <2>2 DEF ControlInv, Lives
  <2>4. opened'[p] = opened[q]
    BY <2>1, <2>2, <2>3
  <2> QED BY <2>2, <2>4 DEF SchemaInv, NothingLost
<1>2. ASSUME NEW q \in Process, Boot(q) \/ RefuseSettings(q) \/ WireAgain(q) \/ Restart(q), q # p PROVE FALSE
  BY <1>2 DEF Boot, RefuseSettings, WireAgain, Restart, ControlInv, TypeOK
<1>3. ASSUME RefuseSettings(p) \/ WireAgain(p) \/ Restart(p) PROVE FALSE
  BY <1>3 DEF RefuseSettings, WireAgain, Restart, ControlInv, TypeOK
<1>4. ASSUME NEW q \in Process, Execute(q) PROVE FALSE
  BY <1>4, StatementControl DEF ControlInv, TypeOK
<1>5. ~UNCHANGED vars /\ ~Quiet
  BY DEF vars, Quiet
<1> QED BY <1>1, <1>2, <1>3, <1>4, <1>5 DEF Next

\* The inductive invariant.
THEOREM Inductive == Spec => []IInv
<1> DEFINE Parts == ControlInv /\ SchemaInv /\ RowsInv
<1>1. Init => Parts
  BY InitControl, InitSchema, InitRows
<1>2. Parts /\ [Next]_vars => Parts'
  <2> SUFFICES ASSUME Parts, [Next]_vars PROVE Parts'
    OBVIOUS
  <2>1. ControlInv'
    BY NextControl
  <2>2. SchemaInv'
    BY <2>1, NextSchema
  <2>3. RowsInv'
    BY NextRows
  <2> QED BY <2>1, <2>2, <2>3
<1>3. Parts => IInv
  BY DEF ControlInv, IInv
<1> QED BY <1>1, <1>2, <1>3, PTL DEF Spec

\* Wherever migrations and start-ups are cut short, and however many run side by side, the
\* schema is the one its version names, nothing refers to a missing table, and the bus of
\* every server calls each handler once: DeploymentConsistent.
THEOREM SchemaIsConsistent == Spec => []DeploymentConsistent
<1>1. IInv => DeploymentConsistent
  BY ConsistentFromInv DEF IInv, ControlInv
<1> QED BY <1>1, Inductive, PTL

\* However the commands that provision accounts overlap with one another and with migrations,
\* or are killed, no two accounts have one address, on SQLite where a migration has got to the
\* index that says so; administrators can sign in, no guessable password is stored, and what a
\* command has stored is whole: AccountsConsistent.
THEOREM AccountsAreConsistent == Spec => []AccountsConsistent
<1>1. IInv => AccountsConsistent
  BY DEF IInv, RowsInv
<1> QED BY <1>1, Inductive, PTL

\* Unless the operator has begun to take it down, a server finds the whole schema in the
\* database it opens: the one that compose starts whichever variables of whichever processes
\* are misspelt or left out, any other after a migration, if APP_DATABASE_URL was left out for
\* neither: ServesOnSchema.
THEOREM ServersFindSchema == Spec => ServesOnSchema
<1> DEFINE Starts ==
        \A p \in Process : at[p] # "serving" /\ at'[p] = "serving" /\ (compose \/ (Migrated /\ ~unset'[p])) =>
            db[opened'[p]].objects = Object \/ Undone
<1>1. IInv /\ [Next]_vars => [Starts]_vars
  BY ServeStep DEF IInv, ControlInv
<1> HIDE DEF Starts
<1>2. Spec => [][Starts]_vars
  BY <1>1, Inductive, PTL DEF Spec
<1> QED BY <1>2 DEF ServesOnSchema, Starts
===================================================================================
