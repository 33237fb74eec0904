------------------------------ MODULE Startup ------------------------------
(***************************************************************************)
(* From an empty, an older or a half-made database to a server that serves *)
(*                                                                         *)
(*   postgresql   the container (docker-entrypoint.sh): `alembic upgrade   *)
(*                head', then uvicorn, which leaves the schema alone       *)
(*   sqlite       uvicorn alone (README, development): create_all and the  *)
(*                demo data, in the lifespan of main.py                    *)
(*                                                                         *)
(* Several servers start at once on one database, die anywhere, are        *)
(* refused by the database, and are started again (restart:                *)
(* unless-stopped; uvicorn's supervisor).  With the servers down, an       *)
(* operator may run `alembic downgrade -1'.                                *)
(*                                                                         *)
(* PostgreSQL runs a whole `alembic' command in one transaction; its       *)
(* statements are seen by others, and hold them up, only as that           *)
(* transaction commits.  On SQLite every CREATE and ALTER commits itself.  *)
(***************************************************************************)
EXTENDS Schema

CONSTANTS
    Servers,        \* containers, or the workers of a development server
    Operator,       \* whoever runs `alembic downgrade'
    Deployments,    \* which of the two
    SeedDemoUsers,  \* settings.seed_demo_users
    MaxCrashes,     \* bound on deaths
    MaxDowngrades   \* bound on what the operator does

ASSUME StartupAssumption ==
    /\ Operator \notin Servers
    /\ Deployments \subseteq {"postgresql", "sqlite"}
    /\ SeedDemoUsers \in BOOLEAN
    /\ MaxCrashes \in Nat /\ MaxDowngrades \in Nat

Processes == Servers \cup {Operator}

VARIABLES
    deployment,
    database,   \* what is committed: the tables, and alembic_version
    filled,     \* the tables have rows, from an earlier time of service
    seeded,     \* how often each set of demo rows has been committed
    pc,
    plan,       \* per process: the statements to go, and the database as it knows it
    crashes, downgrades

vars == <<deployment, database, filled, seeded, pc, plan, crashes, downgrades>>

-----------------------------------------------------------------------------
(* Plans *)

\* UPDATE alembic_version SET version_num = `to' WHERE version_num = `from', when the
\* statements of a revision are done.
Stamp(from, to) == [kind |-> "stamp", from |-> from, to |-> to]

\* env.py, context.run_migrations: the revisions the database has not seen, in order.
Upgrades(version) ==
    FoldLeft(LAMBDA path, n : path \o Chain[n].upgrade \o <<Stamp(n - 1, n)>>,
             <<>>, [i \in 1..(Newest - version) |-> version + i])

\* `downgrade -1'
Downgrades(version) == Chain[version].downgrade \o <<Stamp(version, version - 1)>>

\* create_all creates tables in an order in which a table follows those it refers to, as
\* the revisions do.
SortedTables ==
    LET creations == SelectSeq(Upgrades(0), LAMBDA s : s.kind = "create")
    IN [i \in DOMAIN creations |-> creations[i].table]

\* It looks first for the tables that are not there, and never changes one that is.
MissingTables(tables) ==
    LET missing == SelectSeq(SortedTables, LAMBDA t : t \notin DOMAIN tables)
    IN [i \in DOMAIN missing |-> CreateTable(missing[i], Declared[missing[i]])]

\* What one statement does to a database.  A stamp that matches no row is an error.
Permits(base, rows, s) ==
    IF s.kind = "stamp" THEN base.version = s.from ELSE Accepts(base.tables, rows, s)

Effect(base, s) ==
    IF s.kind = "stamp" THEN [base EXCEPT !.version = s.to]
                        ELSE [base EXCEPT !.tables = Execute(@, s)]

NoDatabase == [tables |-> <<>>, version |-> 0]
AtRevision(n) == [tables |-> SchemaOf[n], version |-> n]

-----------------------------------------------------------------------------
(* State *)

NoPlan == [todo |-> <<>>, begun |-> FALSE, known |-> NoDatabase]

Steps == {"down", "version", "migrate", "lifespan", "create",
          "count projects", "insert projects", "count users", "insert users", "serving"}

SeedData == {"projects", "users"}

TypeOK ==
    /\ deployment \in Deployments
    /\ DOMAIN database.tables \subseteq DOMAIN Declared /\ database.version \in 0..Newest
    /\ filled \in BOOLEAN
    /\ seeded \in [SeedData -> Nat]
    /\ pc \in [Processes -> Steps] /\ pc[Operator] \in {"down", "migrate"}
    /\ DOMAIN plan = Processes
    /\ \A p \in Processes : /\ plan[p].begun \in BOOLEAN
                            /\ plan[p] # NoPlan => pc[p] \in {"migrate", "create"}
    /\ crashes \in 0..MaxCrashes /\ downgrades \in 0..MaxDowngrades

\* A production database is new or was left by an earlier version of the program.
Init ==
    /\ deployment \in Deployments
    /\ \E version \in IF deployment = "postgresql" THEN 0..Newest ELSE {0} :
          /\ database = AtRevision(version)
          /\ filled \in BOOLEAN /\ (filled => version > 0)
    /\ seeded = [s \in SeedData |-> 0]
    /\ pc = [p \in Processes |-> "down"]
    /\ plan = [p \in Processes |-> NoPlan]
    /\ crashes = 0 /\ downgrades = 0

Autocommit == deployment = "sqlite"

Goto(p, from, to) == pc[p] = from /\ pc' = [pc EXCEPT ![p] = to]

\* The process is gone, with the transaction it may have had.
GoDown(p) ==
    /\ pc' = [pc EXCEPT ![p] = "down"]
    /\ plan' = [plan EXCEPT ![p] = NoPlan]

Decide(p, statements) ==
    plan' = [plan EXCEPT ![p] = [todo |-> statements, begun |-> FALSE, known |-> database]]

-----------------------------------------------------------------------------
(* Alembic *)

\* Mutant: a server whose first start ended is not started again.
LaunchOnce(p) ==
    /\ pc[Operator] = "down" /\ crashes = 0
    /\ Goto(p, "down", IF deployment = "sqlite" THEN "lifespan" ELSE "version")
    /\ UNCHANGED <<deployment, database, filled, seeded, plan, crashes, downgrades>>

\* docker-entrypoint.sh, or uvicorn.  Not while the operator works on the database.
Launch(p) ==
    /\ pc[Operator] = "down"
    /\ Goto(p, "down", IF deployment = "sqlite" THEN "lifespan" ELSE "version")
    /\ UNCHANGED <<deployment, database, filled, seeded, plan, crashes, downgrades>>

ReadVersion(p) ==
    /\ Goto(p, "version", "migrate")
    /\ Decide(p, Upgrades(database.version))
    /\ UNCHANGED <<deployment, database, filled, seeded, crashes, downgrades>>

Downgrade ==
    /\ deployment = "postgresql" /\ downgrades < MaxDowngrades
    /\ database.version > 0 /\ \A p \in Servers : pc[p] = "down"
    /\ Goto(Operator, "down", "migrate")
    /\ Decide(Operator, Downgrades(database.version))
    /\ downgrades' = downgrades + 1
    /\ UNCHANGED <<deployment, database, filled, seeded, crashes>>

\* What a statement works on: the committed database, or what the own transaction, which
\* has begun with its first statement, has made of it.
Base(p) == IF plan[p].begun /\ ~Autocommit THEN plan[p].known ELSE database

Runs(base, s) == Permits(base, filled, s)

\* A transaction that has created or altered something holds up the others, whose first
\* statement is the same.
HeldUp(p) == ~Autocommit /\ \E q \in Processes \ {p} : plan[q].begun

\* Mutant: each statement is committed by itself.
RunStatementAutocommit(p) ==
    LET s == plan[p].todo[1] IN
    /\ pc[p] \in {"migrate", "create"} /\ plan[p].todo # <<>> /\ ~HeldUp(p)
    /\ Runs(database, s)
    /\ plan' = [plan EXCEPT ![p] = [todo |-> Tail(@.todo), begun |-> TRUE,
                                    known |-> Effect(database, s)]]
    /\ database' = Effect(database, s)
    /\ UNCHANGED <<deployment, filled, seeded, pc, crashes, downgrades>>

\* One CREATE, DROP, ALTER or stamp, of Alembic or of create_all.
RunStatement(p) ==
    LET s == plan[p].todo[1]
        after == Effect(Base(p), s)
    IN /\ pc[p] \in {"migrate", "create"} /\ plan[p].todo # <<>> /\ ~HeldUp(p)
       /\ Runs(Base(p), s)
       /\ plan' = [plan EXCEPT ![p] = [todo |-> Tail(@.todo), begun |-> TRUE,
                                       known |-> IF Autocommit THEN Effect(@.known, s)
                                                               ELSE after]]
       /\ database' = IF Autocommit THEN after ELSE database
       /\ UNCHANGED <<deployment, filled, seeded, pc, crashes, downgrades>>

\* The database refuses it: rollback, and the command fails (`set -e', or the lifespan).
Refused(p) ==
    /\ pc[p] \in {"migrate", "create"} /\ plan[p].todo # <<>> /\ ~HeldUp(p)
    /\ ~Runs(Base(p), plan[p].todo[1])
    /\ GoDown(p)
    /\ UNCHANGED <<deployment, database, filled, seeded, crashes, downgrades>>

\* The transaction commits; the entrypoint goes on to uvicorn.
Migrated(p) ==
    /\ plan[p].todo = <<>>
    /\ Goto(p, "migrate", IF p = Operator THEN "down" ELSE "lifespan")
    /\ database' = IF plan[p].begun /\ ~Autocommit THEN plan[p].known ELSE database
    /\ plan' = [plan EXCEPT ![p] = NoPlan]
    /\ UNCHANGED <<deployment, filled, seeded, crashes, downgrades>>

-----------------------------------------------------------------------------
(* The lifespan of main.py *)

Serve(p, from) == Goto(p, from, "serving") /\ filled' = TRUE

\* Only on SQLite does the server touch the schema, or seed.
LifespanPostgres(p) ==
    /\ deployment = "postgresql"
    /\ Serve(p, "lifespan")
    /\ UNCHANGED <<deployment, database, seeded, plan, crashes, downgrades>>

CreateAll(p) ==
    /\ deployment = "sqlite"
    /\ Goto(p, "lifespan", "create")
    /\ Decide(p, MissingTables(database.tables))
    /\ UNCHANGED <<deployment, database, filled, seeded, crashes, downgrades>>

Created(p) ==
    /\ plan[p].todo = <<>>
    /\ Goto(p, "create", "count projects")
    /\ plan' = [plan EXCEPT ![p] = NoPlan]
    /\ UNCHANGED <<deployment, database, filled, seeded, crashes, downgrades>>

\* seed_if_empty, seed_demo_users: count, which opens no transaction on SQLite.
CountProjects(p) ==
    /\ IF seeded["projects"] = 0
         THEN Goto(p, "count projects", "insert projects")
         ELSE Goto(p, "count projects", "count users")
    /\ UNCHANGED <<deployment, database, filled, seeded, plan, crashes, downgrades>>

CountUsers(p) ==
    /\ IF SeedDemoUsers /\ seeded["users"] = 0
         THEN Goto(p, "count users", "insert users") /\ UNCHANGED filled
         ELSE Serve(p, "count users")
    /\ UNCHANGED <<deployment, database, seeded, plan, crashes, downgrades>>

\* The demo orders have fixed numbers, the demo users fixed addresses: where these are
\* unique keys, a second set of the rows is refused as a whole.
Clashes(what) ==
    LET table == IF what = "projects" THEN "purchase_orders" ELSE "users"
    IN seeded[what] > 0 /\ database.tables[table].keys # {}

\* Insert and commit.
InsertSeeds(p, from, what, next) ==
    /\ pc[p] = from
    /\ IF Clashes(what)
         THEN GoDown(p) /\ UNCHANGED <<seeded, filled>>
         ELSE /\ seeded' = [seeded EXCEPT ![what] = @ + 1]
              /\ pc' = [pc EXCEPT ![p] = next]
              /\ filled' = (filled \/ next = "serving")
              /\ UNCHANGED plan
    /\ UNCHANGED <<deployment, database, crashes, downgrades>>

InsertProjects(p) == InsertSeeds(p, "insert projects", "projects", "count users")
InsertUsers(p) == InsertSeeds(p, "insert users", "users", "serving")

-----------------------------------------------------------------------------

\* A process dies or is stopped: PostgreSQL rolls back, SQLite keeps what it has.
Crash(p) ==
    /\ pc[p] # "down" /\ crashes < MaxCrashes
    /\ GoDown(p)
    /\ crashes' = crashes + 1
    /\ UNCHANGED <<deployment, database, filled, seeded, downgrades>>

Go(p) ==
    \/ RunStatement(p) \/ Refused(p) \/ Migrated(p)
    \/ /\ p \in Servers
       /\ \/ Launch(p) \/ ReadVersion(p)
          \/ LifespanPostgres(p) \/ CreateAll(p) \/ Created(p)
          \/ CountProjects(p) \/ InsertProjects(p) \/ CountUsers(p) \/ InsertUsers(p)

Quiet == (\A p \in Servers : pc[p] = "serving") /\ UNCHANGED vars

Next == Downgrade \/ Quiet \/ \E p \in Processes : Go(p) \/ Crash(p)

\* A process that can go on does, and one that ended is started again.
Spec == Init /\ [][Next]_vars /\ \A p \in Processes : WF_vars(Go(p))

-----------------------------------------------------------------------------
(* Properties *)

\* A server that serves has the tables, references, keys and columns that models.py
\* declares, whichever way the database was made and from whatever revision.
ServesDeclared ==
    \A p \in Servers : pc[p] = "serving" => database.tables = Declared

\* A production database is at one revision, never between two, whoever died or was
\* refused while migrating; and a downgrade leaves what the revision before it had made.
CommittedIsRevision ==
    deployment = "postgresql" => database.tables = SchemaOf[database.version]

\* `alembic upgrade head' on every start is safe to repeat (docker-entrypoint.sh): a
\* start fails in the database only if another process has changed it since the start
\* looked, so that the next one has less to do.
RefusedOnlyByRival ==
    [][\A p \in Processes : Refused(p) => Base(p) # plan[p].known]_vars

\* Demo rows are there once when a server serves, however many started together.
SeededOnce ==
    /\ \A s \in SeedData : seeded[s] <= 1
    /\ deployment = "sqlite" =>
         \A p \in Servers : pc[p] = "serving" =>
            seeded["projects"] = 1 /\ (SeedDemoUsers => seeded["users"] = 1)

\* Every server that is down serves, in the end.
EveryServerServes == \A p \in Servers : pc[p] = "down" ~> pc[p] = "serving"

-----------------------------------------------------------------------------
(* What the revisions and the declared tables must be like, whatever is started *)

\* The databases that statements pass through one after the other, whoever runs them.
Passed(from, statements) ==
    LET db[i \in 0..Len(statements)] ==
            IF i = 0 THEN from ELSE Effect(db[i - 1], statements[i])
    IN db

\* The statements lead from one database to the other, and each is accepted on what those
\* before it have made, whether there are rows or not.
Leads(from, statements, to) ==
    LET db == Passed(from, statements) IN
    /\ statements \in Seq({statements[i] : i \in DOMAIN statements})
    /\ db[0] = from /\ db[Len(statements)] = to
    /\ \A i \in 0..Len(statements) :
          DOMAIN db[i].tables \subseteq DOMAIN Declared /\ db[i].version \in 0..Newest
    /\ \A i \in 1..Len(statements) :
          /\ db[i] = Effect(db[i - 1], statements[i])
          /\ \A rows \in BOOLEAN : Permits(db[i - 1], rows, statements[i])

Rest(statements, n) == SubSeq(statements, n + 1, Len(statements))

\* What create_all does to an empty database, and the database when it has done so much.
Creations == MissingTables(<<>>)
CreatedUpTo(n) == Passed(NoDatabase, Creations)[n]

\* The upgrades missing at any revision lead to the newest, and none does once they have
\* been made; a downgrade leads to the revision before, even if there are rows.
RevisionsLead ==
    /\ \A v \in 0..Newest : Leads(AtRevision(v), Upgrades(v), AtRevision(Newest))
    /\ \A v \in 1..Newest : Leads(AtRevision(v), Downgrades(v), AtRevision(v - 1))
    /\ \A v \in 0..Newest, rows \in BOOLEAN :
          Upgrades(v) = <<>> \/ ~Permits(AtRevision(Newest), rows, Upgrades(v)[1])

\* create_all leads to the declared tables, and goes on where it was left off.
CreationsLead ==
    /\ Leads(NoDatabase, Creations, [tables |-> Declared, version |-> 0])
    /\ \A n \in 0..Len(Creations) :
          /\ MissingTables(CreatedUpTo(n).tables) = Rest(Creations, n)
          /\ \A m \in 1..n, rows \in BOOLEAN : ~Permits(CreatedUpTo(n), rows, Creations[m])

\* The two descriptions of the schema are one, from whatever revision the migration
\* starts; and the demo rows have keys that a second set of them violates.
ChainIsSound ==
    /\ RevisionsLead /\ CreationsLead
    /\ AtRevision(0) = NoDatabase /\ SchemaOf[Newest] = Declared
    /\ Declared["purchase_orders"].keys # {} /\ Declared["users"].keys # {}

\* It speaks of no state, and is checked where the program starts: a database that nobody
\* has worked on yet is one from which all revisions, up and down, and create_all lead.
SoundToStartFrom ==
    (\A p \in Processes : pc[p] = "down") /\ crashes = 0 /\ downgrades = 0 => ChainIsSound

-----------------------------------------------------------------------------
(* The inductive invariant *)

\* A process has run the first n of the statements, in its transaction or for good.
OnTheWay(p, from, statements, n) ==
    /\ plan[p].todo = Rest(statements, n)
    /\ plan[p].known = Passed(from, statements)[n]

\* One that has not begun its transaction has run nothing.
InTransaction(p, from, statements) ==
    \E n \in 0..Len(statements) : OnTheWay(p, from, statements, n) /\ (plan[p].begun \/ n = 0)

\* A server may migrate from a revision that a rival has left behind; who has got past
\* the migration is at the newest.
UpgradeIsWhole(p) ==
    /\ pc[p] \in {"down", "version", "migrate", "lifespan", "serving"}
    /\ pc[p] = "migrate" => \E v \in 0..Newest :
          /\ database \in {AtRevision(v), AtRevision(Newest)}
          /\ InTransaction(p, AtRevision(v), Upgrades(v))
    /\ pc[p] \in {"lifespan", "serving"} => database = AtRevision(Newest)

UpgradesAreWhole == deployment = "postgresql" => \A p \in Servers : UpgradeIsWhole(p)

\* The operator starts from the revision that is committed, and nobody else works.
OperatorIsAlone ==
    pc[Operator] = "migrate" =>
        /\ deployment = "postgresql" /\ \A p \in Servers : pc[p] = "down"
        /\ \E v \in 1..Newest : /\ database = AtRevision(v)
                                /\ InTransaction(Operator, AtRevision(v), Downgrades(v))

OneRevision == deployment = "postgresql" => \E v \in 0..Newest : database = AtRevision(v)

\* On SQLite the servers create the tables in one order, and none is ahead of what there
\* is; who has got past create_all has all of them.
CreatedInOrder ==
    deployment = "sqlite" =>
        /\ \A p \in Servers :
              /\ pc[p] \notin {"version", "migrate"}
              /\ pc[p] \in {"down", "lifespan", "create"} \/ database.tables = Declared
        /\ \E n \in 0..Len(Creations) :
              /\ database = CreatedUpTo(n)
              /\ \A p \in Servers : pc[p] = "create" =>
                    \E m \in 0..n : OnTheWay(p, NoDatabase, Creations, m)

\* Only SQLite is seeded; who is past the projects has found or inserted them.
SeededInOrder ==
    /\ deployment = "postgresql" => \A s \in SeedData : seeded[s] = 0
    /\ deployment = "sqlite" => \A p \in Servers :
          pc[p] \in {"count users", "insert users"} => seeded["projects"] = 1

IInv ==
    /\ TypeOK
    /\ UpgradesAreWhole /\ OperatorIsAlone /\ OneRevision
    /\ CreatedInOrder /\ SeededInOrder /\ SeededOnce
=============================================================================
