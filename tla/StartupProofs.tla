--------------------------- MODULE StartupProofs ----------------------------
(***************************************************************************)
(* Proofs about Startup, for any number of servers, deaths and downgrades: *)
(* whoever serves has the declared schema, a production database is always *)
(* at one revision, and only a rival can make a start fail.                *)
(*                                                                         *)
(* That the revisions and create_all do what they should is ChainIsSound,  *)
(* which has no parameter and which TLC evaluates; the proofs are about    *)
(* processes that run them at once, die in between, and start again.       *)
(***************************************************************************)
EXTENDS Startup, SequenceTheorems, TLAPS

-----------------------------------------------------------------------------
(* Statements *)

\* What is left of statements that lead somewhere, and what running the next one does.
LEMMA LedStep ==
    ASSUME NEW from, NEW statements, NEW to, Leads(from, statements, to),
           NEW n \in 0..Len(statements), Rest(statements, n) # <<>>
    PROVE  /\ n + 1 \in 1..Len(statements)
           /\ Rest(statements, n)[1] = statements[n + 1]
           /\ Tail(Rest(statements, n)) = Rest(statements, n + 1)
           /\ Passed(from, statements)[n + 1]
                = Effect(Passed(from, statements)[n], statements[n + 1])
           /\ \A rows \in BOOLEAN :
                 Permits(Passed(from, statements)[n], rows, statements[n + 1])
<1> DEFINE S == {statements[i] : i \in DOMAIN statements}
<1>1. statements \in Seq(S) /\ Len(statements) \in Nat
  BY DEF Leads
<1>2. n < Len(statements)
  BY <1>1, SubSeqEmpty DEF Rest
<1>3. n + 1 \in 1..Len(statements) /\ Len(statements) \in (n + 1)..Len(statements)
  BY <1>1, <1>2
<1>4. /\ Head(Rest(statements, n)) = statements[n + 1]
      /\ Tail(Rest(statements, n)) = Rest(statements, n + 1)
  BY <1>1, <1>3, HeadTailOfSubSeq DEF Rest
<1>5. Rest(statements, n)[1] = statements[n + 1]
  <2>1. Rest(statements, n) \in Seq(S)
    BY <1>1, <1>3, SubSeqProperties DEF Rest
  <2> QED
    BY <1>4, <2>1
<1>6. n = (n + 1) - 1
  OBVIOUS
<1> QED
  BY <1>3, <1>4, <1>5, <1>6 DEF Leads

\* All of them, and none.
LEMMA LedEnds ==
    ASSUME NEW from, NEW statements, NEW to, Leads(from, statements, to)
    PROVE  /\ Len(statements) \in Nat
           /\ Rest(statements, 0) = statements
           /\ Passed(from, statements)[0] = from
           /\ Passed(from, statements)[Len(statements)] = to
           /\ \A n \in 0..Len(statements) : Rest(statements, n) = <<>> => n = Len(statements)
<1> DEFINE S == {statements[i] : i \in DOMAIN statements}
<1>1. statements \in Seq(S) /\ Len(statements) \in Nat
  BY DEF Leads
<1>2. Rest(statements, 0) = statements
  BY <1>1, SubSeqFull DEF Rest
<1>3. ASSUME NEW n \in 0..Len(statements), Rest(statements, n) = <<>>
      PROVE  n = Len(statements)
  <2>1. SUFFICES ASSUME n # Len(statements) PROVE FALSE
    OBVIOUS
  <2>2. Len(Rest(statements, n)) = Len(statements) - (n + 1) + 1
    <3>1. n + 1 <= Len(statements) /\ n + 1 \in Int
      BY <1>1, <2>1
    <3>2. \A i \in (n + 1)..Len(statements) : statements[i] \in S
      BY <1>1
    <3> QED
      BY <1>1, <3>1, <3>2, SubSeqProperties DEF Rest
  <2>3. Len(<<>>) = 0
    OBVIOUS
  <2> QED
    BY <1>1, <1>3, <2>1, <2>2, <2>3
<1> QED
  BY <1>1, <1>2, <1>3 DEF Leads

LEMMA NewestIsNat == Newest \in Nat /\ 0 \in 0..Newest
BY DEF Newest, Chain

LEMMA Revisions ==
    ASSUME NEW v \in 0..Newest
    PROVE  AtRevision(v).tables = SchemaOf[v] /\ AtRevision(v).version = v
BY DEF AtRevision

-----------------------------------------------------------------------------
(* What the actions do *)

\* Only p has moved.
Kept(p) == \A q \in Processes \ {p} : pc'[q] = pc[q] /\ plan'[q] = plan[q]

ServerStep(p) ==
    \/ RunStatement(p) \/ Refused(p) \/ Crash(p) \/ Migrated(p)
    \/ Launch(p) \/ ReadVersion(p) \/ LifespanPostgres(p) \/ CreateAll(p) \/ Created(p)
    \/ CountProjects(p) \/ InsertProjects(p) \/ CountUsers(p) \/ InsertUsers(p)

OperatorStep ==
    Downgrade \/ RunStatement(Operator) \/ Refused(Operator) \/ Crash(Operator)
    \/ Migrated(Operator)

LEMMA StepCases ==
    ASSUME [Next]_vars
    PROVE  \/ OperatorStep \/ UNCHANGED vars
           \/ \E p \in Servers : ServerStep(p)
BY DEF Next, Go, Quiet, OperatorStep, ServerStep, Processes

LEMMA Members == Operator \in Processes /\ Operator \notin Servers /\ Servers \subseteq Processes
BY StartupAssumption DEF Processes

LEMMA Deployment ==
    ASSUME TypeOK
    PROVE  deployment = "postgresql" \/ deployment = "sqlite"
BY StartupAssumption DEF TypeOK

\* The deployment is chosen once.
LEMMA DeploymentStays ==
    ASSUME [Next]_vars
    PROVE  deployment' = deployment
BY StepCases DEF OperatorStep, ServerStep, vars, RunStatement, Refused, Crash, Migrated, Launch,
   ReadVersion, LifespanPostgres, CreateAll, Created, CountProjects, CountUsers, InsertProjects,
   InsertUsers, InsertSeeds, Downgrade

LEMMA RunEffect ==
    ASSUME TypeOK, NEW p \in Processes, RunStatement(p)
    PROVE  /\ Kept(p) /\ pc' = pc /\ pc[p] \in {"migrate", "create"}
           /\ plan[p].todo # <<>> /\ Permits(Base(p), filled, plan[p].todo[1])
           /\ plan'[p].todo = Tail(plan[p].todo) /\ plan'[p].begun
           /\ plan'[p].known = IF Autocommit THEN Effect(plan[p].known, plan[p].todo[1])
                                             ELSE Effect(Base(p), plan[p].todo[1])
           /\ database' = IF Autocommit THEN Effect(Base(p), plan[p].todo[1]) ELSE database
           /\ UNCHANGED <<deployment, filled, seeded, crashes, downgrades>>
BY DEF RunStatement, Runs, Kept, TypeOK

\* A process that is refused or dies.
LEMMA DownEffect ==
    ASSUME TypeOK, NEW p \in Processes, GoDown(p)
    PROVE  Kept(p) /\ pc'[p] = "down" /\ plan'[p] = NoPlan
BY DEF GoDown, Kept, TypeOK

LEMMA EndEffect ==
    ASSUME TypeOK, NEW p \in Processes, Refused(p) \/ Crash(p)
    PROVE  /\ Kept(p) /\ pc[p] # "down" /\ pc'[p] = "down" /\ plan'[p] = NoPlan
           /\ UNCHANGED <<deployment, database, filled, seeded>>
BY DownEffect DEF Refused, Crash

LEMMA MigratedEffect ==
    ASSUME TypeOK, NEW p \in Processes, Migrated(p)
    PROVE  /\ Kept(p) /\ pc[p] = "migrate"
           /\ pc'[p] = (IF p = Operator THEN "down" ELSE "lifespan")
           /\ plan[p].todo = <<>> /\ plan'[p] = NoPlan
           /\ database' = IF plan[p].begun /\ ~Autocommit THEN plan[p].known ELSE database
           /\ UNCHANGED <<deployment, filled, seeded>>
BY DEF Migrated, Goto, Kept, TypeOK

\* A process that decides what to run.
LEMMA DecideEffect ==
    ASSUME TypeOK, NEW p \in Processes, NEW from, NEW to, NEW statements,
           Goto(p, from, to), Decide(p, statements)
    PROVE  /\ Kept(p) /\ pc[p] = from /\ pc'[p] = to
           /\ plan'[p].todo = statements /\ ~plan'[p].begun /\ plan'[p].known = database
BY DEF Goto, Decide, Kept, TypeOK

\* A server that goes on without touching the schema.
Walks(p) ==
    \/ Launch(p) \/ LifespanPostgres(p) \/ Created(p)
    \/ CountProjects(p) \/ CountUsers(p)
    \/ (InsertProjects(p) /\ ~Clashes("projects")) \/ (InsertUsers(p) /\ ~Clashes("users"))

Seeding == {"count projects", "insert projects", "count users", "insert users"}

LEMMA WalkEffect ==
    ASSUME TypeOK, NEW p \in Servers, Walks(p)
    PROVE  /\ Kept(p) /\ plan'[p] \in {plan[p], NoPlan} /\ UNCHANGED <<deployment, database>>
           /\ \/ /\ pc[p] = "down" /\ pc[Operator] = "down"
                 /\ pc'[p] = (IF deployment = "sqlite" THEN "lifespan" ELSE "version")
              \/ /\ pc[p] = "lifespan" /\ pc'[p] = "serving" /\ deployment = "postgresql"
              \/ /\ pc[p] = "create" /\ pc'[p] = "count projects" /\ plan[p].todo = <<>>
              \/ /\ pc[p] \in Seeding /\ pc'[p] \in Seeding \cup {"serving"}
<1>1. p \in Processes
  BY Members
<1>2. ASSUME NEW from, NEW to, Goto(p, from, to)
      PROVE  /\ pc[p] = from /\ pc'[p] = to
             /\ \A q \in Processes \ {p} : pc'[q] = pc[q]
  BY <1>1, <1>2 DEF Goto, TypeOK
<1>3. CASE Launch(p)
  BY <1>1, <1>2, <1>3 DEF Launch, Kept
<1>4. CASE LifespanPostgres(p)
  BY <1>1, <1>2, <1>4 DEF LifespanPostgres, Serve, Kept
<1>5. CASE Created(p)
  BY <1>1, <1>2, <1>5 DEF Created, Kept, TypeOK
<1>6. CASE CountProjects(p) \/ CountUsers(p)
  BY <1>1, <1>2, <1>6 DEF CountProjects, CountUsers, Serve, Kept, Seeding
<1>7. CASE (InsertProjects(p) /\ ~Clashes("projects")) \/ (InsertUsers(p) /\ ~Clashes("users"))
  BY <1>1, <1>7 DEF InsertProjects, InsertUsers, InsertSeeds, Kept, Seeding, TypeOK
<1> QED
  BY <1>3, <1>4, <1>5, <1>6, <1>7 DEF Walks

\* A second set of demo rows is refused.
Stumbles(p) ==
    (InsertProjects(p) /\ Clashes("projects")) \/ (InsertUsers(p) /\ Clashes("users"))

LEMMA StumbleEffect ==
    ASSUME TypeOK, NEW p \in Servers, Stumbles(p)
    PROVE  /\ Kept(p) /\ pc[p] \in Seeding /\ pc'[p] = "down" /\ plan'[p] = NoPlan
           /\ UNCHANGED <<deployment, database, filled, seeded>>
BY Members, DownEffect DEF Stumbles, InsertProjects, InsertUsers, InsertSeeds, Seeding

LEMMA ServerCases ==
    ASSUME NEW p \in Servers, ServerStep(p)
    PROVE  \/ RunStatement(p) \/ Refused(p) \/ Crash(p) \/ Migrated(p)
           \/ ReadVersion(p) \/ CreateAll(p) \/ Walks(p) \/ Stumbles(p)
BY DEF ServerStep, Walks, Stumbles

\* A statement that is run where it should be takes its process one further.
LEMMA RunsOn ==
    ASSUME TypeOK, NEW p \in Processes, RunStatement(p),
           NEW from, NEW statements, NEW to, Leads(from, statements, to),
           NEW n \in 0..Len(statements), OnTheWay(p, from, statements, n),
           Base(p) = Passed(from, statements)[n]
    PROVE  /\ n + 1 \in 0..Len(statements) /\ OnTheWay(p, from, statements, n + 1)'
           /\ database' = IF Autocommit THEN Passed(from, statements)[n + 1] ELSE database
<1>1. /\ plan[p].todo = Rest(statements, n) /\ plan[p].todo # <<>>
      /\ plan[p].known = Passed(from, statements)[n]
  BY RunEffect DEF OnTheWay
<1>2. /\ n + 1 \in 1..Len(statements)
      /\ plan[p].todo[1] = statements[n + 1]
      /\ Tail(plan[p].todo) = Rest(statements, n + 1)
      /\ Passed(from, statements)[n + 1]
           = Effect(Passed(from, statements)[n], statements[n + 1])
  BY <1>1, LedStep
<1>3. /\ plan'[p].todo = Rest(statements, n + 1)
      /\ plan'[p].known = Passed(from, statements)[n + 1]
  BY <1>1, <1>2, RunEffect
<1>4. n + 1 \in 0..Len(statements)
  BY <1>2
<1> QED
  BY <1>1, <1>2, <1>3, <1>4, RunEffect DEF OnTheWay

-----------------------------------------------------------------------------
(* The operator works alone *)

LEMMA ServersMeanNoOperator ==
    ASSUME IInv, NEW p \in Servers, ServerStep(p)
    PROVE  pc[Operator] = "down" /\ pc'[Operator] = "down" /\ plan'[Operator] = plan[Operator]
<1>1. TypeOK /\ p \in Processes /\ p # Operator
  BY Members DEF IInv
<1>2. pc[Operator] \in {"down", "migrate"}
  BY <1>1 DEF TypeOK
<1>3. pc[p] # "down" \/ pc[Operator] = "down"
  <2>1. CASE RunStatement(p) \/ Refused(p) \/ Crash(p) \/ Migrated(p)
    BY <1>1, <2>1, RunEffect, EndEffect, MigratedEffect
  <2>2. CASE ReadVersion(p) \/ CreateAll(p)
    BY <2>2 DEF ReadVersion, CreateAll, Goto
  <2>3. CASE Walks(p) \/ Stumbles(p)
    BY <1>1, <2>3, WalkEffect, StumbleEffect DEF Seeding
  <2> QED
    BY <2>1, <2>2, <2>3, ServerCases
<1>4. pc[Operator] = "down"
  BY <1>2, <1>3 DEF IInv, OperatorIsAlone
<1>5. Kept(p)
  BY <1>1, ServerCases, RunEffect, EndEffect, MigratedEffect, DecideEffect, WalkEffect,
     StumbleEffect DEF ReadVersion, CreateAll
<1> QED
  BY <1>1, <1>4, <1>5, Members DEF Kept

\* What the operator has run, within the revision that is taken back.
LEMMA OperatorRuns ==
    ASSUME ChainIsSound, IInv, RunStatement(Operator)
    PROVE  OperatorIsAlone' /\ database' = database /\ deployment = "postgresql"
<1>1. TypeOK /\ Operator \in Processes /\ pc[Operator] = "migrate"
  BY Members, RunEffect DEF IInv, TypeOK
<1>2. /\ deployment = "postgresql" /\ \A p \in Servers : pc[p] = "down"
      /\ ~Autocommit
  BY <1>1 DEF IInv, OperatorIsAlone, Autocommit
<1>3. PICK v \in 1..Newest : /\ database = AtRevision(v)
                             /\ InTransaction(Operator, AtRevision(v), Downgrades(v))
  BY <1>1 DEF IInv, OperatorIsAlone
<1>4. PICK n \in 0..Len(Downgrades(v)) :
        /\ OnTheWay(Operator, AtRevision(v), Downgrades(v), n)
        /\ plan[Operator].begun \/ n = 0
  BY <1>3 DEF InTransaction
<1>5. Leads(AtRevision(v), Downgrades(v), AtRevision(v - 1))
  BY DEF ChainIsSound, RevisionsLead
<1>6. Base(Operator) = Passed(AtRevision(v), Downgrades(v))[n]
  <2>1. CASE plan[Operator].begun
    BY <1>2, <1>4, <2>1 DEF Base, OnTheWay
  <2>2. CASE ~plan[Operator].begun
    BY <1>3, <1>4, <1>5, <2>2, LedEnds DEF Base
  <2> QED
    BY <2>1, <2>2
<1>7. /\ n + 1 \in 0..Len(Downgrades(v))
      /\ OnTheWay(Operator, AtRevision(v), Downgrades(v), n + 1)'
      /\ database' = database
  BY <1>1, <1>2, <1>4, <1>5, <1>6, RunsOn
<1>8. plan'[Operator].begun /\ UNCHANGED <<pc, deployment>>
  BY <1>1, RunEffect
<1>9. InTransaction(Operator, AtRevision(v), Downgrades(v))'
  BY <1>7, <1>8 DEF InTransaction
<1> QED
  BY <1>2, <1>3, <1>7, <1>8, <1>9 DEF OperatorIsAlone

\* A downgrade ends at the revision it started from or at the one before.
LEMMA OperatorCommits ==
    ASSUME ChainIsSound, IInv, Migrated(Operator)
    PROVE  /\ deployment = "postgresql" /\ \E v \in 0..Newest : database' = AtRevision(v)
           /\ pc'[Operator] = "down" /\ \A p \in Servers : pc[p] = "down" /\ pc'[p] = "down"
<1>1. TypeOK /\ Operator \in Processes /\ pc[Operator] = "migrate" /\ Kept(Operator)
  BY Members, MigratedEffect DEF IInv
<1>2. deployment = "postgresql" /\ \A p \in Servers : pc[p] = "down"
  BY <1>1 DEF IInv, OperatorIsAlone
<1>3. PICK v \in 1..Newest : /\ database = AtRevision(v)
                             /\ InTransaction(Operator, AtRevision(v), Downgrades(v))
  BY <1>1 DEF IInv, OperatorIsAlone
<1>4. PICK n \in 0..Len(Downgrades(v)) : OnTheWay(Operator, AtRevision(v), Downgrades(v), n)
  BY <1>3 DEF InTransaction
<1>5. Leads(AtRevision(v), Downgrades(v), AtRevision(v - 1))
  BY DEF ChainIsSound, RevisionsLead
<1>6. plan[Operator].known = AtRevision(v - 1)
  BY <1>1, <1>4, <1>5, MigratedEffect, LedEnds DEF OnTheWay
<1>7. database' \in {AtRevision(v), AtRevision(v - 1)}
  BY <1>1, <1>3, <1>6, MigratedEffect
<1>8. v \in 0..Newest /\ v - 1 \in 0..Newest
  BY NewestIsNat
<1>9. \A p \in Servers : pc'[p] = "down"
  BY <1>1, <1>2, Members DEF Kept
<1> QED
  BY <1>1, <1>2, <1>7, <1>8, <1>9, MigratedEffect

LEMMA DowngradeEffect ==
    ASSUME ChainIsSound, IInv, Downgrade
    PROVE  OperatorIsAlone' /\ UNCHANGED <<database, deployment>> /\ deployment = "postgresql"
           /\ \A p \in Servers : pc[p] = "down" /\ pc'[p] = "down"
<1>1. TypeOK /\ Operator \in Processes
  BY Members DEF IInv
<1>2. PICK v \in 0..Newest : database = AtRevision(v)
  BY DEF IInv, OneRevision, Downgrade
<1>3. database.version = v /\ v \in 1..Newest
  BY <1>2, Revisions, NewestIsNat DEF Downgrade
<1>4. /\ Kept(Operator) /\ plan'[Operator].todo = Downgrades(v)
      /\ ~plan'[Operator].begun /\ plan'[Operator].known = AtRevision(v)
  BY <1>1, <1>2, <1>3, DecideEffect DEF Downgrade
<1>5. Leads(AtRevision(v), Downgrades(v), AtRevision(v - 1))
  BY <1>3 DEF ChainIsSound, RevisionsLead
<1>6. 0 \in 0..Len(Downgrades(v)) /\ OnTheWay(Operator, AtRevision(v), Downgrades(v), 0)'
  BY <1>4, <1>5, LedEnds DEF OnTheWay
<1>7. InTransaction(Operator, AtRevision(v), Downgrades(v))'
  BY <1>6 DEF InTransaction
<1>8. \A p \in Servers : pc[p] = "down" /\ pc'[p] = "down"
  BY <1>4, Members DEF Kept, Downgrade
<1> QED
  BY <1>2, <1>3, <1>7, <1>8 DEF OperatorIsAlone, Downgrade

LEMMA OperatorStays ==
    ASSUME ChainIsSound, IInv, [Next]_vars
    PROVE  OperatorIsAlone'
<1>1. TypeOK /\ Operator \in Processes
  BY Members DEF IInv
<1>2. CASE \E p \in Servers : ServerStep(p)
  BY <1>2, ServersMeanNoOperator DEF OperatorIsAlone
<1>3. CASE OperatorStep
  <2>1. CASE RunStatement(Operator)
    BY <2>1, OperatorRuns
  <2>2. CASE Downgrade
    BY <2>2, DowngradeEffect
  <2>3. CASE Refused(Operator) \/ Crash(Operator) \/ Migrated(Operator)
    BY <1>1, <2>3, EndEffect, MigratedEffect DEF OperatorIsAlone
  <2> QED
    BY <1>3, <2>1, <2>2, <2>3 DEF OperatorStep
<1>4. CASE UNCHANGED vars
  BY <1>4 DEF IInv, OperatorIsAlone, InTransaction, OnTheWay, vars
<1> QED
  BY <1>2, <1>3, <1>4, StepCases

-----------------------------------------------------------------------------
(* PostgreSQL: one revision, whoever dies or is refused *)

\* A server that runs a statement works on what it knows: a rival has not been there.
LEMMA UpgradeRuns ==
    ASSUME ChainIsSound, IInv, deployment = "postgresql", NEW p \in Servers, RunStatement(p)
    PROVE  \E v \in 0..Newest :
              /\ database \in {AtRevision(v), AtRevision(Newest)}
              /\ InTransaction(p, AtRevision(v), Upgrades(v))'
<1>1. TypeOK /\ p \in Processes /\ ~Autocommit /\ pc[p] = "migrate"
  BY Members, RunEffect DEF IInv, Autocommit, UpgradesAreWhole, UpgradeIsWhole
<1>2. PICK v \in 0..Newest : /\ database \in {AtRevision(v), AtRevision(Newest)}
                             /\ InTransaction(p, AtRevision(v), Upgrades(v))
  BY <1>1 DEF IInv, UpgradesAreWhole, UpgradeIsWhole
<1>3. PICK n \in 0..Len(Upgrades(v)) :
        /\ OnTheWay(p, AtRevision(v), Upgrades(v), n)
        /\ plan[p].begun \/ n = 0
  BY <1>2 DEF InTransaction
<1>4. Leads(AtRevision(v), Upgrades(v), AtRevision(Newest))
  BY DEF ChainIsSound, RevisionsLead
<1>5. Base(p) = Passed(AtRevision(v), Upgrades(v))[n]
  <2>1. CASE plan[p].begun
    BY <1>1, <1>3, <2>1 DEF Base, OnTheWay
  <2>2. CASE ~plan[p].begun
    <3>1. n = 0 /\ Base(p) = database /\ plan[p].todo = Upgrades(v)
      BY <1>3, <1>4, <2>2, LedEnds DEF Base, OnTheWay
    <3>2. filled \in BOOLEAN /\ Upgrades(v) # <<>>
          /\ Permits(database, filled, Upgrades(v)[1])
      BY <1>1, <3>1, RunEffect DEF TypeOK
    <3>3. database # AtRevision(Newest)
      BY <3>2 DEF ChainIsSound, RevisionsLead
    <3> QED
      BY <1>2, <1>4, <3>1, <3>3, LedEnds
  <2> QED
    BY <2>1, <2>2
<1>6. /\ n + 1 \in 0..Len(Upgrades(v))
      /\ OnTheWay(p, AtRevision(v), Upgrades(v), n + 1)'
  BY <1>1, <1>3, <1>4, <1>5, RunsOn
<1>7. plan'[p].begun
  BY <1>1, RunEffect
<1>8. InTransaction(p, AtRevision(v), Upgrades(v))'
  BY <1>6, <1>7 DEF InTransaction
<1> QED
  BY <1>2, <1>8

\* However far the rivals are, a server that has nothing left to run leaves the newest
\* revision.
LEMMA UpgradeCommits ==
    ASSUME ChainIsSound, IInv, deployment = "postgresql", NEW p \in Servers, Migrated(p)
    PROVE  database' = AtRevision(Newest)
<1>1. TypeOK /\ p \in Processes /\ ~Autocommit
  BY Members DEF IInv, Autocommit
<1>2. pc[p] = "migrate" /\ plan[p].todo = <<>>
  BY <1>1, MigratedEffect
<1>3. PICK v \in 0..Newest : /\ database \in {AtRevision(v), AtRevision(Newest)}
                             /\ InTransaction(p, AtRevision(v), Upgrades(v))
  BY <1>2 DEF IInv, UpgradesAreWhole, UpgradeIsWhole
<1>4. PICK n \in 0..Len(Upgrades(v)) :
        /\ OnTheWay(p, AtRevision(v), Upgrades(v), n)
        /\ plan[p].begun \/ n = 0
  BY <1>3 DEF InTransaction
<1>5. Leads(AtRevision(v), Upgrades(v), AtRevision(Newest))
  BY DEF ChainIsSound, RevisionsLead
<1>6. n = Len(Upgrades(v)) /\ plan[p].known = AtRevision(Newest)
  BY <1>2, <1>4, <1>5, LedEnds DEF OnTheWay
<1>7. plan[p].begun \/ AtRevision(v) = AtRevision(Newest)
  BY <1>4, <1>5, <1>6, LedEnds
<1> QED
  BY <1>1, <1>3, <1>6, <1>7, MigratedEffect

\* Nothing but a commit changes a PostgreSQL database.
LEMMA DatabaseStays ==
    ASSUME ChainIsSound, IInv, deployment = "postgresql", [Next]_vars
    PROVE  \/ database' = database
           \/ \E p \in Servers : Migrated(p)
           \/ Migrated(Operator)
<1>1. TypeOK /\ Servers \subseteq Processes /\ Operator \in Processes /\ ~Autocommit
  BY Members DEF IInv, Autocommit
<1>2. CASE OperatorStep
  BY <1>1, <1>2, RunEffect, EndEffect DEF OperatorStep, Downgrade
<1>3. ASSUME NEW p \in Servers, ServerStep(p)
      PROVE  database' = database \/ Migrated(p)
  BY <1>1, <1>3, ServerCases, RunEffect, EndEffect, WalkEffect, StumbleEffect
     DEF ReadVersion, CreateAll
<1> QED
  BY <1>2, <1>3, StepCases DEF vars

LEMMA OneRevisionStays ==
    ASSUME ChainIsSound, IInv, [Next]_vars
    PROVE  OneRevision'
<1>1. SUFFICES ASSUME deployment = "postgresql"
               PROVE  \E v \in 0..Newest : database' = AtRevision(v)
  BY DeploymentStays DEF OneRevision
<1>2. \E v \in 0..Newest : database = AtRevision(v)
  BY <1>1 DEF IInv, OneRevision
<1>3. Newest \in 0..Newest
  BY NewestIsNat
<1> QED
  BY <1>1, <1>2, <1>3, DatabaseStays, UpgradeCommits, OperatorCommits

\* Who does not move is where it was, if a rival has committed too.
LEMMA Bystander ==
    ASSUME NEW p \in Servers, UpgradeIsWhole(p), UNCHANGED <<pc[p], plan[p]>>,
           database' \in {database, AtRevision(Newest)}
    PROVE  UpgradeIsWhole(p)'
<1>1. CASE pc[p] = "migrate"
  <2>1. PICK v \in 0..Newest : /\ database \in {AtRevision(v), AtRevision(Newest)}
                               /\ InTransaction(p, AtRevision(v), Upgrades(v))
    BY <1>1 DEF UpgradeIsWhole
  <2>2. InTransaction(p, AtRevision(v), Upgrades(v))'
    BY <2>1 DEF InTransaction, OnTheWay
  <2>3. database' \in {AtRevision(v), AtRevision(Newest)}
    BY <2>1
  <2> QED
    BY <1>1, <2>2, <2>3 DEF UpgradeIsWhole
<1>2. CASE pc[p] # "migrate"
  BY <1>2 DEF UpgradeIsWhole
<1> QED
  BY <1>1, <1>2

LEMMA UpgradesStay ==
    ASSUME ChainIsSound, IInv, [Next]_vars
    PROVE  UpgradesAreWhole'
<1>1. SUFFICES ASSUME deployment = "postgresql", NEW p \in Servers
               PROVE  UpgradeIsWhole(p)'
  BY DeploymentStays DEF UpgradesAreWhole
<1>2. /\ TypeOK /\ UpgradeIsWhole(p) /\ ~Autocommit
      /\ p \in Processes /\ Operator \in Processes /\ p # Operator
  BY <1>1, Members DEF IInv, UpgradesAreWhole, Autocommit
<1>3. CASE UNCHANGED vars
  BY <1>2, <1>3, Bystander DEF vars
<1>4. CASE OperatorStep
  <2>1. CASE RunStatement(Operator)
    BY <1>2, <2>1, Bystander, OperatorRuns, RunEffect DEF Kept
  <2>2. CASE Refused(Operator) \/ Crash(Operator)
    BY <1>2, <2>2, Bystander, EndEffect DEF Kept
  <2>3. CASE Migrated(Operator)
    BY <2>3, OperatorCommits DEF UpgradeIsWhole
  <2>4. CASE Downgrade
    BY <2>4, DowngradeEffect DEF UpgradeIsWhole
  <2> QED
    BY <1>4, <2>1, <2>2, <2>3, <2>4 DEF OperatorStep
<1>5. ASSUME NEW q \in Servers, ServerStep(q), q # p
      PROVE  UpgradeIsWhole(p)'
  <2>1. Kept(q) /\ q \in Processes
    BY <1>2, <1>5, Members, ServerCases, RunEffect, EndEffect, MigratedEffect, DecideEffect,
       WalkEffect, StumbleEffect DEF ReadVersion, CreateAll
  <2>2. UNCHANGED <<pc[p], plan[p]>>
    BY <1>2, <1>5, <2>1 DEF Kept
  <2>3. CASE Migrated(q)
    BY <1>1, <1>2, <2>2, <2>3, Bystander, UpgradeCommits
  <2>4. CASE ~Migrated(q)
    <3>1. database' = database
      BY <1>2, <1>5, <2>1, <2>4, ServerCases, RunEffect, EndEffect, WalkEffect, StumbleEffect
         DEF ReadVersion, CreateAll
    <3> QED
      BY <1>2, <2>2, <3>1, Bystander
  <2> QED
    BY <2>3, <2>4
<1>6. CASE ServerStep(p)
  <2>1. CASE RunStatement(p)
    <3>1. pc'[p] = "migrate" /\ database' = database
      BY <1>1, <1>2, <2>1, RunEffect DEF UpgradeIsWhole
    <3> QED
      BY <1>1, <2>1, <3>1, UpgradeRuns DEF UpgradeIsWhole
  <2>2. CASE Refused(p) \/ Crash(p) \/ Stumbles(p)
    BY <1>2, <2>2, EndEffect, StumbleEffect DEF UpgradeIsWhole
  <2>3. CASE Migrated(p)
    BY <1>1, <1>2, <2>3, MigratedEffect, UpgradeCommits DEF UpgradeIsWhole
  <2>4. CASE ReadVersion(p)
    <3>1. PICK v \in 0..Newest : database = AtRevision(v)
      BY <1>1 DEF IInv, OneRevision
    <3>2. /\ pc'[p] = "migrate" /\ database' = database
          /\ plan'[p].todo = Upgrades(v) /\ plan'[p].known = AtRevision(v)
      BY <1>2, <2>4, <3>1, Revisions, DecideEffect DEF ReadVersion
    <3>3. Leads(AtRevision(v), Upgrades(v), AtRevision(Newest))
      BY DEF ChainIsSound, RevisionsLead
    <3>4. 0 \in 0..Len(Upgrades(v)) /\ OnTheWay(p, AtRevision(v), Upgrades(v), 0)'
      BY <3>2, <3>3, LedEnds DEF OnTheWay
    <3>5. InTransaction(p, AtRevision(v), Upgrades(v))'
      BY <3>4 DEF InTransaction
    <3> QED
      BY <3>1, <3>2, <3>5 DEF UpgradeIsWhole
  <2>5. CASE CreateAll(p)
    BY <1>1, <2>5 DEF CreateAll
  <2>6. CASE Walks(p)
    BY <1>1, <1>2, <2>6, WalkEffect DEF UpgradeIsWhole, Seeding
  <2> QED
    BY <1>6, <2>1, <2>2, <2>3, <2>4, <2>5, <2>6, ServerCases
<1> QED
  BY <1>3, <1>4, <1>5, <1>6, StepCases

-----------------------------------------------------------------------------
(* SQLite: the tables in one order, and the demo rows once *)

Full == [tables |-> Declared, version |-> 0]

\* How far the tables are, and the servers that create them.
CreatedSoFar(n) ==
    /\ database = CreatedUpTo(n)
    /\ \A p \in Servers : pc[p] = "create" =>
          \E m \in 0..n : OnTheWay(p, NoDatabase, Creations, m)

\* The databases on the way to the declared tables.
LEMMA CreationOrder ==
    ASSUME ChainIsSound, NEW n \in 0..Len(Creations)
    PROVE  /\ Leads(NoDatabase, Creations, Full) /\ Len(Creations) \in Nat
           /\ MissingTables(CreatedUpTo(n).tables) = Rest(Creations, n)
           /\ \A m \in 1..n, rows \in BOOLEAN : ~Permits(CreatedUpTo(n), rows, Creations[m])
           /\ CreatedUpTo(Len(Creations)) = Full
           /\ CreatedUpTo(n).tables = Declared => Rest(Creations, n) = <<>>
<1>1. Leads(NoDatabase, Creations, Full)
  BY DEF ChainIsSound, CreationsLead, Full
<1>2. /\ Len(Creations) \in Nat /\ CreatedUpTo(Len(Creations)) = Full
      /\ Len(Creations) \in 0..Len(Creations)
  BY <1>1, LedEnds DEF CreatedUpTo
<1>3. \A k \in 0..Len(Creations) : MissingTables(CreatedUpTo(k).tables) = Rest(Creations, k)
  BY DEF ChainIsSound, CreationsLead
<1>4. \A m \in 1..n, rows \in BOOLEAN : ~Permits(CreatedUpTo(n), rows, Creations[m])
  BY DEF ChainIsSound, CreationsLead
<1>5. Rest(Creations, Len(Creations)) = <<>>
  BY <1>2, SubSeqEmpty DEF Rest
<1>6. CreatedUpTo(n).tables = Declared => Rest(Creations, n) = <<>>
  BY <1>2, <1>3, <1>5 DEF Full
<1> QED
  BY <1>1, <1>2, <1>3, <1>4, <1>6

\* A server that creates a table is the first to get there.
LEMMA CreationRuns ==
    ASSUME ChainIsSound, IInv, deployment = "sqlite", NEW p \in Servers, RunStatement(p)
    PROVE  /\ database.tables # Declared
           /\ \E n \in 0..Len(Creations) : CreatedSoFar(n)'
<1>1. TypeOK /\ p \in Processes /\ Autocommit
  BY Members DEF IInv, Autocommit
<1>2. pc[p] = "create" /\ plan[p].todo # <<>>
  BY <1>1, RunEffect DEF IInv, CreatedInOrder
<1>3. PICK n \in 0..Len(Creations) : CreatedSoFar(n)
  BY DEF IInv, CreatedInOrder, CreatedSoFar
<1>4. PICK m \in 0..n : OnTheWay(p, NoDatabase, Creations, m)
  BY <1>2, <1>3 DEF CreatedSoFar
<1>5. Leads(NoDatabase, Creations, Full) /\ Len(Creations) \in Nat /\ m \in 0..Len(Creations)
  BY CreationOrder
<1>6. m + 1 \in 1..Len(Creations) /\ plan[p].todo[1] = Creations[m + 1]
  BY <1>2, <1>4, <1>5, LedStep DEF OnTheWay
<1>7. Base(p) = CreatedUpTo(n) /\ filled \in BOOLEAN
  BY <1>1, <1>3 DEF Base, CreatedSoFar, TypeOK
<1>8. Permits(CreatedUpTo(n), filled, Creations[m + 1])
  BY <1>1, <1>6, <1>7, RunEffect
<1>9. m = n
  <2>1. ~(m + 1 \in 1..n)
    BY <1>7, <1>8, CreationOrder
  <2> QED
    BY <1>5, <1>6, <2>1
<1>10. /\ n + 1 \in 0..Len(Creations)
       /\ OnTheWay(p, NoDatabase, Creations, n + 1)'
       /\ database' = CreatedUpTo(n + 1)
  BY <1>1, <1>4, <1>5, <1>7, <1>9, RunsOn DEF CreatedUpTo
<1>11. ASSUME NEW q \in Servers, pc'[q] = "create"
       PROVE  \E k \in 0..(n + 1) : OnTheWay(q, NoDatabase, Creations, k)'
  <2>1. CASE q = p
    BY <1>5, <1>10, <2>1
  <2>2. CASE q # p
    <3>1. pc[q] = "create" /\ plan'[q] = plan[q]
      BY <1>1, <1>11, <2>2, Members, RunEffect DEF Kept
    <3>2. PICK k \in 0..n : OnTheWay(q, NoDatabase, Creations, k)
      BY <1>3, <3>1 DEF CreatedSoFar
    <3>3. k \in 0..(n + 1) /\ OnTheWay(q, NoDatabase, Creations, k)'
      BY <1>5, <3>1, <3>2 DEF OnTheWay
    <3> QED
      BY <3>3
  <2> QED
    BY <2>1, <2>2
<1>12. database.tables # Declared
  <2>1. Rest(Creations, n) # <<>>
    BY <1>2, <1>4, <1>9 DEF OnTheWay
  <2> QED
    BY <1>3, <2>1, CreationOrder DEF CreatedSoFar
<1>13. CreatedSoFar(n + 1)'
  BY <1>10, <1>11 DEF CreatedSoFar, CreatedUpTo
<1> QED
  BY <1>10, <1>12, <1>13

\* A server that is not creating leaves the others as far as they are.
LEMMA CreatorsStay ==
    ASSUME NEW n \in 0..Len(Creations), CreatedSoFar(n), database' = database,
           \A q \in Servers : pc'[q] = "create" => pc[q] = "create" /\ plan'[q] = plan[q]
    PROVE  CreatedSoFar(n)'
BY DEF CreatedSoFar, OnTheWay, CreatedUpTo

Ready(p) ==
    /\ pc[p] \notin {"version", "migrate"}
    /\ pc[p] \in {"down", "lifespan", "create"} \/ database.tables = Declared

LEMMA CreatedStays ==
    ASSUME ChainIsSound, IInv, [Next]_vars
    PROVE  CreatedInOrder'
<1>1. SUFFICES ASSUME deployment = "sqlite"
               PROVE  /\ \A p \in Servers : Ready(p)'
                      /\ \E n \in 0..Len(Creations) : CreatedSoFar(n)'
  BY DeploymentStays DEF CreatedInOrder, Ready, CreatedSoFar
<1>2. TypeOK /\ Servers \subseteq Processes /\ Autocommit /\ \A p \in Servers : Ready(p)
  BY <1>1, Members DEF IInv, CreatedInOrder, Ready, Autocommit
<1>3. PICK n \in 0..Len(Creations) : CreatedSoFar(n)
  BY <1>1 DEF IInv, CreatedInOrder, CreatedSoFar
<1>4. CASE OperatorStep
  <2>1. pc[Operator] = "down"
    BY <1>1, <1>2 DEF IInv, OperatorIsAlone, TypeOK
  <2> QED
    BY <1>1, <1>2, <1>4, <2>1, Members, RunEffect, EndEffect, MigratedEffect
       DEF OperatorStep, Downgrade
<1>5. ASSUME NEW p \in Servers, ServerStep(p)
      PROVE  /\ \A q \in Servers : Ready(q)'
             /\ \E k \in 0..Len(Creations) : CreatedSoFar(k)'
  <2>1. p \in Processes /\ Ready(p)
    BY <1>2
  <2>2. CASE RunStatement(p)
    <3>1. database.tables # Declared /\ \E k \in 0..Len(Creations) : CreatedSoFar(k)'
      BY <1>1, <2>2, CreationRuns
    <3>2. pc' = pc
      BY <1>2, <2>1, <2>2, RunEffect
    <3> QED
      BY <1>2, <3>1, <3>2 DEF Ready
  <2>3. CASE Refused(p) \/ Crash(p) \/ Stumbles(p)
    <3>1. Kept(p) /\ pc'[p] = "down" /\ database' = database
      BY <1>2, <2>1, <2>3, EndEffect, StumbleEffect
    <3>2. \A q \in Servers : pc'[q] = "create" => pc[q] = "create" /\ plan'[q] = plan[q]
      BY <1>2, <3>1 DEF Kept
    <3> QED
      BY <1>2, <1>3, <3>1, <3>2, CreatorsStay DEF Ready, Kept
  <2>4. CASE Migrated(p)
    BY <1>2, <2>1, <2>4, MigratedEffect DEF Ready
  <2>5. CASE ReadVersion(p)
    BY <2>1, <2>5 DEF Ready, ReadVersion, Goto
  <2>6. CASE CreateAll(p)
    <3>1. /\ Kept(p) /\ pc'[p] = "create" /\ plan'[p].todo = Rest(Creations, n)
          /\ plan'[p].known = CreatedUpTo(n) /\ database' = database
      BY <1>2, <1>3, <2>1, <2>6, DecideEffect, CreationOrder DEF CreateAll, CreatedSoFar
    <3>2. n \in 0..n /\ OnTheWay(p, NoDatabase, Creations, n)'
      BY <3>1, CreationOrder DEF OnTheWay, CreatedUpTo
    <3>3. ASSUME NEW q \in Servers, pc'[q] = "create"
          PROVE  \E m \in 0..n : OnTheWay(q, NoDatabase, Creations, m)'
      <4>1. CASE q = p
        BY <3>2, <4>1
      <4>2. CASE q # p
        <5>1. pc[q] = "create" /\ plan'[q] = plan[q]
          BY <1>2, <3>1, <3>3, <4>2 DEF Kept
        <5> QED
          BY <1>3, <5>1 DEF CreatedSoFar, OnTheWay
      <4> QED
        BY <4>1, <4>2
    <3>4. CreatedSoFar(n)'
      BY <1>3, <3>1, <3>3 DEF CreatedSoFar, CreatedUpTo
    <3> QED
      BY <1>2, <3>1, <3>4 DEF Ready, Kept
  <2>7. CASE Walks(p)
    <3>1. Kept(p) /\ database' = database /\ pc'[p] # "create"
      BY <1>2, <2>7, WalkEffect DEF Seeding
    <3>2. \A q \in Servers : pc'[q] = "create" => pc[q] = "create" /\ plan'[q] = plan[q]
      BY <1>2, <3>1 DEF Kept
    <3>3. Ready(p)'
      <4>1. CASE pc[p] = "create"
        <5>1. plan[p].todo = <<>> /\ pc'[p] = "count projects"
          BY <1>2, <2>7, <4>1, WalkEffect DEF Seeding
        <5>2. PICK m \in 0..n : OnTheWay(p, NoDatabase, Creations, m)
          BY <1>3, <4>1 DEF CreatedSoFar
        <5>3. m \in 0..Len(Creations) /\ Leads(NoDatabase, Creations, Full)
              /\ Len(Creations) \in Nat
          BY CreationOrder
        <5>4. Rest(Creations, m) = <<>>
          BY <5>1, <5>2 DEF OnTheWay
        <5>5. m = Len(Creations)
          BY <5>3, <5>4, LedEnds
        <5>6. n = Len(Creations)
          BY <5>3, <5>5
        <5>7. database = Full
          BY <1>3, <5>6, CreationOrder DEF CreatedSoFar
        <5>8. database'.tables = Declared
          BY <3>1, <5>7 DEF Full
        <5> QED
          BY <5>1, <5>8 DEF Ready
      <4>2. CASE pc[p] # "create"
        BY <1>1, <1>2, <2>1, <2>7, <3>1, <4>2, WalkEffect DEF Ready, Seeding
      <4> QED
        BY <4>1, <4>2
    <3> QED
      BY <1>2, <1>3, <3>1, <3>2, <3>3, CreatorsStay DEF Ready, Kept
  <2> QED
    BY <1>5, <2>2, <2>3, <2>4, <2>5, <2>6, <2>7, ServerCases
<1>6. CASE UNCHANGED vars
  BY <1>2, <1>3, <1>6, CreatorsStay DEF vars, Ready
<1> QED
  BY <1>4, <1>5, <1>6, StepCases

\* Demo rows are inserted where there are none, for the first time.
LEMMA SeedEffect ==
    ASSUME ChainIsSound, IInv, deployment = "sqlite", NEW p \in Servers, Walks(p),
           NEW what \in SeedData
    PROVE  \/ seeded'[what] = seeded[what]
           \/ /\ seeded[what] = 0 /\ seeded'[what] = 1
              /\ \/ what = "projects" /\ pc[p] = "insert projects"
                 \/ what = "users" /\ pc[p] = "insert users"
<1>1. TypeOK /\ \A w \in SeedData : seeded[w] \in Nat
  BY DEF IInv, TypeOK
<1>2. CASE ~(InsertProjects(p) \/ InsertUsers(p))
  BY <1>2 DEF Walks, Launch, LifespanPostgres, Created, CountProjects, CountUsers
<1>3. CASE InsertProjects(p) /\ ~Clashes("projects")
  <2>1. pc[p] = "insert projects" /\ seeded' = [seeded EXCEPT !["projects"] = @ + 1]
    BY <1>3 DEF InsertProjects, InsertSeeds
  <2>2. database.tables = Declared
    BY <2>1 DEF IInv, CreatedInOrder
  <2>3. seeded["projects"] = 0
    BY <1>1, <1>3, <2>2 DEF Clashes, ChainIsSound, SeedData
  <2>4. seeded'["projects"] = 1 /\ seeded'["users"] = seeded["users"]
    <3>1. DOMAIN seeded = SeedData /\ "projects" \in SeedData /\ "users" \in SeedData
      BY <1>1 DEF TypeOK, SeedData
    <3>2. /\ seeded'["projects"] = seeded["projects"] + 1
          /\ seeded'["users"] = seeded["users"]
      BY <2>1, <3>1
    <3> QED
      BY <2>3, <3>2
  <2>5. what = "projects" \/ what = "users"
    BY DEF SeedData
  <2> QED
    BY <2>1, <2>3, <2>4, <2>5
<1>4. CASE InsertUsers(p) /\ ~Clashes("users")
  <2>1. pc[p] = "insert users" /\ seeded' = [seeded EXCEPT !["users"] = @ + 1]
    BY <1>4 DEF InsertUsers, InsertSeeds
  <2>2. database.tables = Declared
    BY <2>1 DEF IInv, CreatedInOrder
  <2>3. seeded["users"] = 0
    BY <1>1, <1>4, <2>2 DEF Clashes, ChainIsSound, SeedData
  <2>4. seeded'["users"] = 1 /\ seeded'["projects"] = seeded["projects"]
    <3>1. DOMAIN seeded = SeedData /\ "projects" \in SeedData /\ "users" \in SeedData
      BY <1>1 DEF TypeOK, SeedData
    <3>2. /\ seeded'["users"] = seeded["users"] + 1
          /\ seeded'["projects"] = seeded["projects"]
      BY <2>1, <3>1
    <3> QED
      BY <2>3, <3>2
  <2>5. what = "users" \/ what = "projects"
    BY DEF SeedData
  <2> QED
    BY <2>1, <2>3, <2>4, <2>5
<1> QED
  BY <1>2, <1>3, <1>4 DEF Walks, InsertProjects, InsertUsers, InsertSeeds

SeedsAre(p) ==
    /\ pc[p] \in {"count users", "insert users", "serving"} => seeded["projects"] = 1
    /\ pc[p] = "serving" => (SeedDemoUsers => seeded["users"] = 1)

\* A server that counted finds the rows, or inserts them, before it serves.
LEMMA SeedStep ==
    ASSUME ChainIsSound, IInv, deployment = "sqlite", NEW p \in Servers, Walks(p)
    PROVE  SeedsAre(p)'
<1>1. /\ TypeOK /\ p \in Processes /\ SeedData = {"projects", "users"}
      /\ \A w \in SeedData : seeded[w] \in {0, 1} /\ seeded'[w] \in {0, 1}
      /\ \A w \in SeedData : seeded[w] = 1 => seeded'[w] = 1
      /\ "projects" \in SeedData /\ "users" \in SeedData
  <2>1. \A w \in SeedData : seeded[w] \in {0, 1}
    BY DEF IInv, TypeOK, SeededOnce
  <2> QED
    BY <2>1, SeedEffect, Members DEF IInv, SeedData
<1>2. pc[p] \in {"count users", "insert users", "serving"} => seeded["projects"] = 1
  BY DEF IInv, SeededInOrder, SeededOnce
<1>3. CASE Launch(p) \/ LifespanPostgres(p) \/ Created(p)
  BY <1>1, <1>3 DEF Launch, LifespanPostgres, Created, Serve, Goto, SeedsAre, TypeOK
<1>4. CASE CountProjects(p)
  BY <1>1, <1>4 DEF CountProjects, Goto, SeedsAre, TypeOK
<1>5. CASE CountUsers(p)
  <2>1. pc[p] = "count users" /\ seeded' = seeded
    BY <1>5 DEF CountUsers, Serve, Goto
  <2>2. CASE SeedDemoUsers /\ seeded["users"] = 0
    BY <1>1, <1>2, <1>5, <2>1, <2>2 DEF CountUsers, Goto, SeedsAre, TypeOK
  <2>3. CASE ~(SeedDemoUsers /\ seeded["users"] = 0)
    BY <1>1, <1>2, <2>1, <2>3 DEF SeedsAre
  <2> QED
    BY <2>2, <2>3
<1>6. CASE InsertProjects(p) /\ ~Clashes("projects")
  <2>1. pc'[p] = "count users" /\ seeded'["projects"] = seeded["projects"] + 1
    BY <1>1, <1>6 DEF InsertProjects, InsertSeeds, TypeOK
  <2>2. seeded'["projects"] = 1
    <3>1. seeded["projects"] \in {0, 1} /\ seeded'["projects"] \in {0, 1}
      BY <1>1
    <3>2. \A a, b \in {0, 1} : b = a + 1 => b = 1
      OBVIOUS
    <3>3. seeded'["projects"] = seeded["projects"] + 1
      BY <2>1
    <3> QED
      BY <3>1, <3>2, <3>3
  <2> QED
    BY <2>1, <2>2 DEF SeedsAre
<1>7. CASE InsertUsers(p) /\ ~Clashes("users")
  <2>1. pc[p] = "insert users" /\ seeded'["users"] = seeded["users"] + 1
    BY <1>1, <1>7 DEF InsertUsers, InsertSeeds, TypeOK
  <2>2. seeded'["users"] = 1
    <3>1. seeded["users"] \in {0, 1} /\ seeded'["users"] \in {0, 1}
      BY <1>1
    <3>2. \A a, b \in {0, 1} : b = a + 1 => b = 1
      OBVIOUS
    <3>3. seeded'["users"] = seeded["users"] + 1
      BY <2>1
    <3> QED
      BY <3>1, <3>2, <3>3
  <2>3. seeded'["projects"] = 1
    BY <1>1, <1>2, <2>1
  <2> QED
    BY <2>2, <2>3 DEF SeedsAre
<1> QED
  BY <1>3, <1>4, <1>5, <1>6, <1>7 DEF Walks

\* Steps outside the lifespan insert nothing.
LEMMA SeededStays ==
    ASSUME IInv, [Next]_vars, \A p \in Servers : ~Walks(p)
    PROVE  /\ seeded' = seeded
           /\ \A p \in Servers : pc'[p] \in Seeding \cup {"serving"} => pc'[p] = pc[p]
<1>1. TypeOK /\ Servers \subseteq Processes /\ Operator \in Processes
  BY Members DEF IInv
<1>2. CASE OperatorStep
  <2>1. CASE Downgrade
    BY <1>1, <2>1, Members DEF Downgrade, Goto, TypeOK
  <2> QED
    BY <1>1, <1>2, <2>1, RunEffect, EndEffect, MigratedEffect, StartupAssumption
       DEF OperatorStep, Kept, Processes
<1>3. ASSUME NEW p \in Servers, ServerStep(p)
      PROVE  /\ seeded' = seeded
             /\ \A q \in Servers : pc'[q] \in Seeding \cup {"serving"} => pc'[q] = pc[q]
  <2>1. CASE RunStatement(p) \/ Refused(p) \/ Crash(p) \/ Migrated(p)
    BY <1>1, <2>1, Members, RunEffect, EndEffect, MigratedEffect DEF Kept, Seeding
  <2>2. CASE ReadVersion(p)
    BY <1>1, <2>2 DEF ReadVersion, Goto, TypeOK, Seeding
  <2>3. CASE CreateAll(p)
    BY <1>1, <2>3 DEF CreateAll, Goto, TypeOK, Seeding
  <2>4. CASE Stumbles(p)
    BY <1>1, <2>4, StumbleEffect DEF Kept, Seeding
  <2> QED
    BY <1>3, <2>1, <2>2, <2>3, <2>4, ServerCases
<1> QED
  BY <1>2, <1>3, StepCases DEF vars

LEMMA SeedsStay ==
    ASSUME ChainIsSound, IInv, [Next]_vars
    PROVE  SeededInOrder' /\ SeededOnce'
<1>1. /\ TypeOK /\ deployment' = deployment /\ SeedData = {"projects", "users"}
      /\ \A w \in SeedData : seeded[w] \in {0, 1}
  BY DeploymentStays DEF IInv, TypeOK, SeededOnce, SeedData
<1>2. deployment = "sqlite" => \A p \in Servers : SeedsAre(p)
  BY DEF IInv, SeededInOrder, SeededOnce, SeedsAre
<1>3. CASE \A p \in Servers : ~Walks(p)
  BY <1>1, <1>2, <1>3, SeededStays DEF IInv, SeededInOrder, SeededOnce, SeedsAre, Seeding
<1>4. CASE deployment = "postgresql" /\ \E p \in Servers : Walks(p)
  <2>1. PICK p \in Servers : Walks(p)
    BY <1>4
  <2>2. pc[p] \notin Seeding
    BY <1>4 DEF IInv, UpgradesAreWhole, UpgradeIsWhole, Seeding
  <2>3. seeded' = seeded
    BY <2>1, <2>2 DEF Walks, Launch, LifespanPostgres, Created, CountProjects, CountUsers,
       InsertProjects, InsertUsers, InsertSeeds, Seeding
  <2> QED
    BY <1>1, <1>4, <2>3 DEF IInv, SeededInOrder, SeededOnce
<1>5. CASE deployment = "sqlite" /\ \E p \in Servers : Walks(p)
  <2>1. PICK p \in Servers : Walks(p)
    BY <1>5
  <2>2. /\ \A w \in SeedData : seeded'[w] \in {0, 1}
        /\ \A w \in SeedData : seeded[w] = 1 => seeded'[w] = 1
    BY <1>1, <1>5, <2>1, SeedEffect
  <2>3. ASSUME NEW q \in Servers
        PROVE  SeedsAre(q)'
    <3>1. CASE q = p
      BY <1>5, <2>1, <3>1, SeedStep
    <3>2. CASE q # p
      <4>1. pc'[q] = pc[q]
        BY <1>1, <2>1, <3>2, Members, WalkEffect DEF Kept
      <4> QED
        BY <1>1, <1>2, <1>5, <2>2, <4>1 DEF SeedsAre
    <3> QED
      BY <3>1, <3>2
  <2>4. SeededOnce'
    <3>1. \A w \in SeedData : seeded'[w] <= 1
      BY <2>2
    <3>2. \A q \in Servers : pc'[q] = "serving" =>
             seeded'["projects"] = 1 /\ (SeedDemoUsers => seeded'["users"] = 1)
      BY <2>3 DEF SeedsAre
    <3> QED
      BY <3>1, <3>2 DEF SeededOnce
  <2> QED
    BY <1>1, <1>5, <2>3, <2>4 DEF SeededInOrder, SeedsAre
<1> QED
  BY <1>1, <1>3, <1>4, <1>5, Deployment

-----------------------------------------------------------------------------
(* The theorems *)

\* Whatever is committed has only declared tables, and the number of a revision.
LEMMA DatabaseTyped ==
    ASSUME ChainIsSound, NEW db,
           \/ \E v \in 0..Newest : db = AtRevision(v)
           \/ \E n \in 0..Len(Creations) : db = CreatedUpTo(n)
    PROVE  DOMAIN db.tables \subseteq DOMAIN Declared /\ db.version \in 0..Newest
<1>1. ASSUME NEW v \in 0..Newest, db = AtRevision(v)
      PROVE  DOMAIN db.tables \subseteq DOMAIN Declared /\ db.version \in 0..Newest
  <2>1. Leads(AtRevision(v), Upgrades(v), AtRevision(Newest))
    BY DEF ChainIsSound, RevisionsLead
  <2>2. Passed(AtRevision(v), Upgrades(v))[0] = db /\ 0 \in 0..Len(Upgrades(v))
    BY <1>1, <2>1, LedEnds
  <2> QED
    BY <2>1, <2>2 DEF Leads
<1>2. ASSUME NEW n \in 0..Len(Creations), db = CreatedUpTo(n)
      PROVE  DOMAIN db.tables \subseteq DOMAIN Declared /\ db.version \in 0..Newest
  <2>1. Leads(NoDatabase, Creations, Full)
    BY CreationOrder
  <2> QED
    BY <1>2, <2>1 DEF Leads, CreatedUpTo
<1> QED
  BY <1>1, <1>2

StepsTyped == pc \in [Processes -> Steps] /\ pc[Operator] \in {"down", "migrate"}

PlansTyped ==
    /\ DOMAIN plan = Processes
    /\ \A p \in Processes : /\ plan[p].begun \in BOOLEAN
                            /\ plan[p] # NoPlan => pc[p] \in {"migrate", "create"}

LEMMA Moved ==
    ASSUME StepsTyped, NEW p \in Processes, NEW to \in Steps,
           p = Operator => to \in {"down", "migrate"}, pc' = [pc EXCEPT ![p] = to]
    PROVE  StepsTyped' /\ pc'[p] = to /\ \A q \in Processes \ {p} : pc'[q] = pc[q]
BY Members DEF StepsTyped

LEMMA Planned ==
    ASSUME PlansTyped, NEW p \in Processes, Kept(p), DOMAIN plan' = Processes,
           plan'[p].begun \in BOOLEAN, plan'[p] = NoPlan \/ pc'[p] \in {"migrate", "create"}
    PROVE  PlansTyped'
<1>1. ASSUME NEW q \in Processes
      PROVE  /\ plan'[q].begun \in BOOLEAN
             /\ plan'[q] # NoPlan => pc'[q] \in {"migrate", "create"}
  <2>1. CASE q = p
    BY <2>1
  <2>2. CASE q # p
    BY <2>2 DEF PlansTyped, Kept
  <2> QED
    BY <2>1, <2>2
<1> QED
  BY <1>1 DEF PlansTyped

\* A server without a plan goes on without one.
LEMMA Unplanned ==
    ASSUME PlansTyped, NEW p \in Processes, pc[p] \notin {"migrate", "create"},
           plan' = plan, \A q \in Processes \ {p} : pc'[q] = pc[q]
    PROVE  PlansTyped'
BY DEF PlansTyped

LEMMA PlansStay ==
    ASSUME TypeOK, [Next]_vars
    PROVE  StepsTyped' /\ PlansTyped'
<1>1. StepsTyped /\ PlansTyped /\ Operator \in Processes /\ Operator \notin Servers
      /\ Servers \subseteq Processes
  BY Members DEF TypeOK, StepsTyped, PlansTyped
<1>2. NoPlan.begun \in BOOLEAN
  BY DEF NoPlan
<1>3. ASSUME NEW p \in Processes, GoDown(p)
      PROVE  StepsTyped' /\ PlansTyped'
  <2>1. StepsTyped'
    BY <1>1, <1>3, Moved DEF GoDown, Steps
  <2>2. Kept(p) /\ plan'[p] = NoPlan /\ DOMAIN plan' = Processes
    BY <1>1, <1>3, DownEffect DEF GoDown, PlansTyped
  <2> QED
    BY <1>1, <1>2, <2>1, <2>2, Planned
<1>4. ASSUME NEW p \in Processes, RunStatement(p)
      PROVE  StepsTyped' /\ PlansTyped'
  <2>1. pc' = pc /\ pc[p] \in {"migrate", "create"} /\ Kept(p)
    BY <1>4, RunEffect
  <2>2. DOMAIN plan' = Processes /\ plan'[p].begun \in BOOLEAN
    BY <1>1, <1>4 DEF RunStatement, PlansTyped
  <2> QED
    BY <1>1, <2>1, <2>2, Planned DEF StepsTyped
<1>5. ASSUME NEW p \in Processes, NEW from, NEW to \in {"migrate", "create"},
             Goto(p, from, to), p = Operator => to = "migrate", NEW statements,
             Decide(p, statements)
      PROVE  StepsTyped' /\ PlansTyped'
  <2>1. StepsTyped' /\ pc'[p] = to
    BY <1>1, <1>5, Moved DEF Goto, Steps
  <2>2. Kept(p) /\ DOMAIN plan' = Processes /\ plan'[p].begun \in BOOLEAN
    BY <1>1, <1>5 DEF Goto, Decide, Kept, StepsTyped, PlansTyped
  <2> QED
    BY <1>1, <1>5, <2>1, <2>2, Planned
<1>6. ASSUME NEW p \in Processes, NEW from, NEW to \in Steps, Goto(p, from, to),
             p = Operator => to = "down", plan' = [plan EXCEPT ![p] = NoPlan]
      PROVE  StepsTyped' /\ PlansTyped'
  <2>1. StepsTyped'
    BY <1>1, <1>6, Moved DEF Goto
  <2>2. Kept(p) /\ plan'[p] = NoPlan /\ DOMAIN plan' = Processes
    BY <1>1, <1>6 DEF Goto, Kept, StepsTyped, PlansTyped
  <2> QED
    BY <1>1, <1>2, <2>1, <2>2, Planned
<1>7. ASSUME NEW p \in Servers, NEW to \in Steps, pc[p] \notin {"migrate", "create"},
             pc' = [pc EXCEPT ![p] = to], plan' = plan
      PROVE  StepsTyped' /\ PlansTyped'
  BY <1>1, <1>7, Moved, Unplanned
<1>8. CASE OperatorStep
  <2>1. CASE Downgrade
    BY <1>1, <1>5, <2>1 DEF Downgrade
  <2>2. CASE Migrated(Operator)
    BY <1>1, <1>6, <2>2 DEF Migrated, Steps
  <2> QED
    BY <1>1, <1>3, <1>4, <1>8, <2>1, <2>2 DEF OperatorStep, Refused, Crash
<1>9. ASSUME NEW p \in Servers, ServerStep(p)
      PROVE  StepsTyped' /\ PlansTyped'
  <2>1. p \in Processes /\ p # Operator
    BY <1>1
  <2>2. CASE RunStatement(p) \/ Refused(p) \/ Crash(p)
    BY <1>3, <1>4, <2>1, <2>2 DEF Refused, Crash
  <2>3. CASE Migrated(p) \/ Created(p)
    BY <1>6, <2>1, <2>3 DEF Migrated, Created, Steps
  <2>4. CASE ReadVersion(p) \/ CreateAll(p)
    BY <1>5, <2>1, <2>4 DEF ReadVersion, CreateAll
  <2>5. CASE Launch(p) \/ LifespanPostgres(p) \/ CountProjects(p) \/ CountUsers(p)
    BY <1>7, <2>5 DEF Launch, LifespanPostgres, CountProjects, CountUsers, Serve, Goto, Steps
  <2>6. CASE InsertProjects(p) \/ InsertUsers(p)
    BY <1>3, <1>7, <2>1, <2>6 DEF InsertProjects, InsertUsers, InsertSeeds, Steps
  <2> QED
    BY <1>9, <2>2, <2>3, <2>4, <2>5, <2>6 DEF ServerStep
<1>10. CASE UNCHANGED vars
  BY <1>1, <1>10 DEF vars, StepsTyped, PlansTyped
<1> QED
  BY <1>8, <1>9, <1>10, StepCases

CountersTyped ==
    /\ deployment \in Deployments /\ filled \in BOOLEAN
    /\ seeded \in [SeedData -> Nat]
    /\ crashes \in 0..MaxCrashes /\ downgrades \in 0..MaxDowngrades

LEMMA CountersStay ==
    ASSUME TypeOK, [Next]_vars
    PROVE  CountersTyped'
<1>1. CountersTyped /\ MaxCrashes \in Nat /\ MaxDowngrades \in Nat
  BY StartupAssumption DEF TypeOK, CountersTyped
<1>2. CASE OperatorStep \/ UNCHANGED vars
  BY <1>1, <1>2 DEF OperatorStep, vars, Downgrade, RunStatement, Refused, Crash, Migrated,
     CountersTyped
<1>3. ASSUME NEW p \in Servers, ServerStep(p), ~InsertProjects(p), ~InsertUsers(p)
      PROVE  CountersTyped'
  <2>1. UNCHANGED <<deployment, seeded, downgrades>>
    BY <1>3 DEF ServerStep, RunStatement, Refused, Crash, Migrated, Launch, ReadVersion,
       LifespanPostgres, CreateAll, Created, CountProjects, CountUsers
  <2>2. filled' = filled \/ filled' = TRUE
    BY <1>3 DEF ServerStep, RunStatement, Refused, Crash, Migrated, Launch, ReadVersion,
       LifespanPostgres, CreateAll, Created, CountProjects, CountUsers, Serve
  <2>3. crashes' = crashes \/ (crashes < MaxCrashes /\ crashes' = crashes + 1)
    BY <1>3 DEF ServerStep, RunStatement, Refused, Crash, Migrated, Launch, ReadVersion,
       LifespanPostgres, CreateAll, Created, CountProjects, CountUsers
  <2>4. filled' \in BOOLEAN
    BY <1>1, <2>2 DEF CountersTyped
  <2>5. crashes' \in 0..MaxCrashes
    BY <1>1, <2>3 DEF CountersTyped
  <2> QED
    BY <1>1, <2>1, <2>4, <2>5 DEF CountersTyped
<1>4. ASSUME NEW p \in Servers, NEW from, NEW what \in SeedData, NEW next,
             InsertSeeds(p, from, what, next)
      PROVE  CountersTyped'
  <2>1. UNCHANGED <<deployment, crashes, downgrades>> /\ filled' \in BOOLEAN
    BY <1>1, <1>4 DEF InsertSeeds, CountersTyped
  <2>2. seeded' = seeded \/ seeded' = [seeded EXCEPT ![what] = @ + 1]
    BY <1>4 DEF InsertSeeds
  <2>3. seeded' \in [SeedData -> Nat]
    BY <1>1, <2>2 DEF CountersTyped
  <2> QED
    BY <1>1, <2>1, <2>3 DEF CountersTyped
<1>5. ASSUME NEW p \in Servers, InsertProjects(p) \/ InsertUsers(p)
      PROVE  CountersTyped'
  BY <1>4, <1>5 DEF InsertProjects, InsertUsers, SeedData
<1> QED
  BY <1>2, <1>3, <1>5, StepCases

LEMMA TypeStays ==
    ASSUME ChainIsSound, IInv, [Next]_vars
    PROVE  TypeOK'
<1>1. StepsTyped' /\ PlansTyped' /\ CountersTyped'
  BY PlansStay, CountersStay DEF IInv
<1>2. \/ \E v \in 0..Newest : database' = AtRevision(v)
      \/ \E n \in 0..Len(Creations) : database' = CreatedUpTo(n)
  BY OneRevisionStays, CreatedStays, DeploymentStays, Deployment
     DEF OneRevision, CreatedInOrder, IInv, CreatedUpTo
<1>3. DOMAIN database'.tables \subseteq DOMAIN Declared /\ database'.version \in 0..Newest
  BY <1>2, DatabaseTyped
<1> QED
  BY <1>1, <1>3 DEF StepsTyped, PlansTyped, CountersTyped, TypeOK

LEMMA Inductive ==
    ASSUME ChainIsSound, IInv, [Next]_vars
    PROVE  IInv'
BY TypeStays, UpgradesStay, OperatorStays, OneRevisionStays, CreatedStays, SeedsStay DEF IInv

LEMMA Initially ==
    ASSUME ChainIsSound, Init
    PROVE  IInv
<1>1. /\ Servers \subseteq Processes /\ Operator \in Processes
      /\ \A p \in Processes : pc[p] = "down" /\ plan[p] = NoPlan
  BY Members, NewestIsNat DEF Init
<1>2. PICK v \in 0..Newest : database = AtRevision(v) /\ (deployment = "sqlite" => v = 0)
  BY NewestIsNat DEF Init
<1>3. TypeOK
  <2>1. DOMAIN database.tables \subseteq DOMAIN Declared /\ database.version \in 0..Newest
    BY <1>2, DatabaseTyped
  <2>2. NoPlan.begun \in BOOLEAN
    BY DEF NoPlan
  <2>3. /\ pc \in [Processes -> Steps] /\ pc[Operator] \in {"down", "migrate"}
        /\ DOMAIN plan = Processes
    BY <1>1 DEF Init, Steps
  <2>4. /\ deployment \in Deployments /\ filled \in BOOLEAN /\ seeded \in [SeedData -> Nat]
        /\ crashes \in 0..MaxCrashes /\ downgrades \in 0..MaxDowngrades
    <3>1. deployment \in Deployments /\ seeded \in [SeedData -> Nat]
      BY DEF Init
    <3>2. filled \in BOOLEAN
      BY DEF Init
    <3>3. crashes \in 0..MaxCrashes /\ downgrades \in 0..MaxDowngrades
      BY StartupAssumption DEF Init
    <3> QED
      BY <3>1, <3>2, <3>3
  <2> QED
    BY <1>1, <2>1, <2>2, <2>3, <2>4 DEF TypeOK
<1>4. UpgradesAreWhole /\ OperatorIsAlone /\ OneRevision
  BY <1>1, <1>2 DEF UpgradesAreWhole, UpgradeIsWhole, OperatorIsAlone, OneRevision
<1>5. CreatedInOrder
  <2>1. Len(Creations) \in Nat /\ 0 \in 0..Len(Creations) /\ CreatedUpTo(0) = NoDatabase
    BY LedEnds DEF ChainIsSound, CreationsLead, CreatedUpTo
  <2>2. deployment = "sqlite" => database = CreatedUpTo(0)
    BY <1>2, <2>1 DEF ChainIsSound
  <2> QED
    BY <1>1, <2>1, <2>2 DEF CreatedInOrder
<1>6. SeededInOrder /\ SeededOnce
  <2>1. \A s \in SeedData : seeded[s] = 0 /\ seeded[s] <= 1
    BY DEF Init
  <2> QED
    BY <1>1, <2>1 DEF SeededInOrder, SeededOnce
<1> QED
  BY <1>3, <1>4, <1>5, <1>6 DEF IInv

\* The inductive invariant: how far each process may be with what it runs, and what the
\* others may have made of the database meanwhile.
THEOREM Invariance ==
    ASSUME ChainIsSound
    PROVE  Spec => []IInv
<1>1. Init => IInv
  BY Initially
<1>2. IInv /\ [Next]_vars => IInv'
  BY Inductive
<1>3. Spec => Init /\ [][Next]_vars
  BY PTL DEF Spec
<1> QED
  BY <1>1, <1>2, <1>3, PTL

\* Processes, plans and the database keep their types: only declared tables are ever
\* there, whatever is interrupted.
THEOREM TypeCorrect ==
    ASSUME ChainIsSound
    PROVE  Spec => []TypeOK
<1>1. IInv => TypeOK
  BY DEF IInv
<1> QED
  BY <1>1, Invariance, PTL

\* A server that serves has the schema of models.py, whichever way the database was made,
\* however many servers started together, died or were refused.
THEOREM ServersHaveTheSchema ==
    ASSUME ChainIsSound
    PROVE  Spec => []ServesDeclared
<1>1. IInv => ServesDeclared
  <2>1. SUFFICES ASSUME IInv, NEW p \in Servers, pc[p] = "serving"
                 PROVE  database.tables = Declared
    BY DEF ServesDeclared
  <2>2. CASE deployment = "postgresql"
    BY <2>1, <2>2, NewestIsNat, Revisions
       DEF IInv, UpgradesAreWhole, UpgradeIsWhole, ChainIsSound, AtRevision
  <2>3. CASE deployment = "sqlite"
    BY <2>1, <2>3 DEF IInv, CreatedInOrder
  <2> QED
    BY <2>1, <2>2, <2>3, Deployment DEF IInv
<1> QED
  BY <1>1, Invariance, PTL

\* A production database is at one revision, never between two, whoever died, was refused
\* or came second.
THEOREM AlwaysOneRevision ==
    ASSUME ChainIsSound
    PROVE  Spec => []CommittedIsRevision
<1>1. IInv => CommittedIsRevision
  BY Revisions DEF IInv, OneRevision, CommittedIsRevision
<1> QED
  BY <1>1, Invariance, PTL

\* The demo rows are inserted once, however many servers count none.
THEOREM SeedsAreThereOnce ==
    ASSUME ChainIsSound
    PROVE  Spec => []SeededOnce
<1>1. IInv => SeededOnce
  BY DEF IInv
<1> QED
  BY <1>1, Invariance, PTL

\* What a process would run is accepted on the database it knows.
LEMMA KnownIsAccepted ==
    ASSUME NEW p, NEW from, NEW statements, NEW to, Leads(from, statements, to),
           NEW n \in 0..Len(statements), OnTheWay(p, from, statements, n),
           plan[p].todo # <<>>, filled \in BOOLEAN
    PROVE  Permits(plan[p].known, filled, plan[p].todo[1])
BY LedStep DEF OnTheWay

\* A start fails in the database only if another process has changed it since.
THEOREM OnlyRivalsRefuse ==
    ASSUME ChainIsSound
    PROVE  Spec => RefusedOnlyByRival
<1>1. ASSUME IInv, NEW p \in Processes, Refused(p)
      PROVE  Base(p) # plan[p].known
  <2>1. /\ TypeOK /\ filled \in BOOLEAN /\ plan[p].todo # <<>>
        /\ pc[p] \in {"migrate", "create"} /\ ~Permits(Base(p), filled, plan[p].todo[1])
    BY <1>1 DEF IInv, TypeOK, Refused, Runs
  <2>2. Permits(plan[p].known, filled, plan[p].todo[1])
    <3>1. CASE p = Operator
      <4>1. PICK v \in 1..Newest : InTransaction(p, AtRevision(v), Downgrades(v))
        BY <1>1, <2>1, <3>1 DEF IInv, OperatorIsAlone, TypeOK
      <4>2. Leads(AtRevision(v), Downgrades(v), AtRevision(v - 1))
        BY DEF ChainIsSound, RevisionsLead
      <4> QED
        BY <2>1, <4>1, <4>2, KnownIsAccepted DEF InTransaction
    <3>2. CASE p \in Servers /\ deployment = "postgresql"
      <4>1. PICK v \in 0..Newest : InTransaction(p, AtRevision(v), Upgrades(v))
        BY <1>1, <2>1, <3>2 DEF IInv, UpgradesAreWhole, UpgradeIsWhole
      <4>2. Leads(AtRevision(v), Upgrades(v), AtRevision(Newest))
        BY DEF ChainIsSound, RevisionsLead
      <4> QED
        BY <2>1, <4>1, <4>2, KnownIsAccepted DEF InTransaction
    <3>3. CASE p \in Servers /\ deployment = "sqlite"
      <4>1. PICK n \in 0..Len(Creations) :
              \E m \in 0..n : OnTheWay(p, NoDatabase, Creations, m)
        BY <1>1, <2>1, <3>3 DEF IInv, CreatedInOrder
      <4>2. PICK m \in 0..n : OnTheWay(p, NoDatabase, Creations, m)
        BY <4>1
      <4>3. Leads(NoDatabase, Creations, Full) /\ m \in 0..Len(Creations)
        BY CreationOrder
      <4> QED
        BY <2>1, <4>2, <4>3, KnownIsAccepted
    <3> QED
      BY <2>1, <3>1, <3>2, <3>3, Deployment DEF Processes
  <2> QED
    BY <2>1, <2>2
<1>2. IInv /\ [Next]_vars => [\A p \in Processes : Refused(p) => Base(p) # plan[p].known]_vars
  BY <1>1
<1>3. Spec => Init /\ [][Next]_vars
  BY PTL DEF Spec
<1> QED
  BY <1>2, <1>3, Invariance, PTL DEF RefusedOnlyByRival
=============================================================================
