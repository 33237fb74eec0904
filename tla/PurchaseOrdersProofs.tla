----------------------- MODULE PurchaseOrdersProofs -----------------------
(***************************************************************************)
(* Proofs about PurchaseOrders, for any number of orders and threads, any  *)
(* supplied numbers and any bound.                                         *)
(***************************************************************************)
EXTENDS PurchaseOrders, TLAPS, SequenceTheorems, FiniteSetTheorems, WellFoundedInduction

(* Rows and sessions *)

LEMMA NullTypes == NoOrder \notin OrderRow /\ NoSession \in Session
<1>1. None \notin Statuses /\ NoOrder.status = None
  BY OrderAssumption DEF NoOrder
<1>2. QED
  BY <1>1 DEF OrderRow, NoSession, Session

\* An UPDATE of one row, column by column.
LEMMA MergeRow ==
    ASSUME NEW row \in OrderRow, NEW loaded \in OrderRow, NEW mine \in OrderRow
    PROVE  LET new == Merge(row, loaded, mine) IN
           /\ new \in OrderRow
           /\ mine.number = loaded.number => new.number = row.number
           /\ mine.generated = loaded.generated => new.generated = row.generated
           /\ ~loaded.archived /\ row.archived => new.archived
<1>. DEFINE new == Merge(row, loaded, mine)
<1>1. new = [number |-> IF mine.number = loaded.number THEN row.number ELSE mine.number,
             status |-> IF mine.status = loaded.status THEN row.status ELSE mine.status,
             archived |-> IF mine.archived = loaded.archived THEN row.archived ELSE mine.archived,
             generated |-> IF mine.generated = loaded.generated THEN row.generated
                                                                ELSE mine.generated]
  BY DEF Merge, OrderRow
<1>2. new.number \in Years \X PONumbers /\ new.status \in Statuses
  BY <1>1 DEF OrderRow
<1>3. /\ row.archived \in BOOLEAN /\ mine.archived \in BOOLEAN /\ loaded.archived \in BOOLEAN
      /\ row.generated \in BOOLEAN /\ mine.generated \in BOOLEAN
  BY DEF OrderRow
<1>4. new.archived \in BOOLEAN /\ new.generated \in BOOLEAN
  BY <1>1, <1>3
<1>5. new \in OrderRow
  BY <1>1, <1>2, <1>4 DEF OrderRow
<1>6. /\ mine.number = loaded.number => new.number = row.number
      /\ mine.generated = loaded.generated => new.generated = row.generated
  BY <1>1
<1>7. ~loaded.archived /\ row.archived => new.archived
  BY <1>1, <1>3
<1>8. QED
  BY <1>5, <1>6, <1>7

RequestsTyped ==
    /\ pc \in [Threads -> {"idle", "insert", "create", "change"}]
    /\ sess \in [Threads -> Session]
Others(t) == \A u \in Threads \ {t} : pc'[u] = pc[u] /\ sess'[u] = sess[u]

LEMMA ContinueEffect ==
    ASSUME TypeOK, NEW t \in Threads, NEW from, NEW to \in {"idle", "insert", "create", "change"},
           NEW s \in Session, Continue(t, from, to, s)
    PROVE  /\ pc[t] = from /\ pc'[t] = to /\ sess'[t] = s /\ Others(t) /\ RequestsTyped'
           /\ year' = year
BY DEF Continue, TypeOK, Others, RequestsTyped

LEMMA FinishEffect ==
    ASSUME TypeOK, NEW t \in Threads, NEW from, Finish(t, from)
    PROVE  pc[t] = from /\ pc'[t] = "idle" /\ Others(t) /\ RequestsTyped' /\ year' = year
BY NullTypes, ContinueEffect DEF Finish

-----------------------------------------------------------------------------
(* What each step does, field by field *)

LEMMA CreateEffect ==
    ASSUME IInv, NEW t \in Threads, NEW number \in Years \X PONumbers, NEW status \in Statuses,
           NEW generated \in BOOLEAN, Create(t, number, status, generated)
    PROVE  /\ pc[t] = "idle" /\ pc'[t] = "insert" /\ Others(t) /\ RequestsTyped'
           /\ sess'[t].mine \in OrderRow /\ UNCHANGED <<year, orders>>
           /\ sess'[t].mine.number = number /\ sess'[t].mine.generated = generated
<1>. DEFINE row == [number |-> number, status |-> status, archived |-> FALSE,
                    generated |-> generated]
<1>1. row \in OrderRow
  BY DEF OrderRow
<1>2. Continue(t, "idle", "insert", [NoSession EXCEPT !.mine = row]) /\ orders' = orders
  BY DEF Create
<1>3. row.number = number /\ row.generated = generated
  OBVIOUS
<1>. HIDE DEF row
<1>4. PICK s : s = [NoSession EXCEPT !.mine = row]
  OBVIOUS
<1>5. s \in Session /\ s.mine = row
  BY <1>1, <1>4, NullTypes DEF Session, NoSession
<1>6. Continue(t, "idle", "insert", s)
  BY <1>2, <1>4
<1>7. QED
  BY <1>1, <1>2, <1>3, <1>5, <1>6, ContinueEffect DEF IInv

\* With a number from the client or from the generator.
LEMMA CreatesEffect ==
    ASSUME IInv, NEW t \in Threads, NEW status \in Statuses,
           \/ CreateGenerated(t, status)
           \/ \E y \in Years, s \in Supplied : CreateSupplied(t, <<y, s>>, status)
    PROVE  /\ pc[t] = "idle" /\ pc'[t] = "insert" /\ Others(t) /\ RequestsTyped'
           /\ sess'[t].mine \in OrderRow /\ UNCHANGED <<year, orders>>
           /\ \/ /\ sess'[t].mine.number = <<year, NextSuffix(orders, year)>>
                 /\ sess'[t].mine.generated
              \/ sess'[t].mine.number[2] \in Supplied /\ ~sess'[t].mine.generated
<1>1. CASE CreateGenerated(t, status)
  <2>1. PICK number \in Years \X PONumbers : number = <<year, NextSuffix(orders, year)>>
    BY <1>1 DEF CreateGenerated, IInv, TypeOK
  <2>2. Create(t, number, status, TRUE)
    BY <1>1, <2>1 DEF CreateGenerated
  <2>3. QED
    BY <2>1, <2>2, CreateEffect
<1>2. CASE \E y \in Years, s \in Supplied : CreateSupplied(t, <<y, s>>, status)
  <2>1. PICK y \in Years, s \in Supplied : Create(t, <<y, s>>, status, FALSE)
    BY <1>2 DEF CreateSupplied
  <2>2. PICK number \in Years \X PONumbers : number = <<y, s>>
    BY DEF PONumbers
  <2>3. Create(t, number, status, FALSE) /\ number[2] \in Supplied
    BY <2>1, <2>2
  <2>4. QED
    BY <2>3, CreateEffect
<1>3. QED
  BY <1>1, <1>2

\* The INSERT gives the row an id that nobody uses and a number that nobody else has, or
\* raises.
LEMMA InsertEffect ==
    ASSUME IInv, NEW t \in Threads, CreateInsert(t)
    PROVE  /\ pc[t] = "insert" /\ Others(t) /\ RequestsTyped' /\ UNCHANGED <<year, orders>>
           /\ \/ pc'[t] = "idle"
              \/ /\ pc'[t] = "create" /\ sess'[t].mine = sess[t].mine
                 /\ sess'[t].order \in Orders /\ orders[sess'[t].order] = NoOrder
                 /\ \A u \in Threads : sess[u].order # sess'[t].order
                 /\ sess[t].mine.number \notin Numbers(orders)
                 /\ \A u \in Threads : pc[u] = "create" =>
                        sess[u].mine.number # sess[t].mine.number
<1>1. CASE Finish(t, "insert")
  BY <1>1, FinishEffect DEF IInv, CreateInsert
<1>2. CASE ~Finish(t, "insert")
  <2>1. PICK o \in Orders : /\ IsNextOrder(o)
                            /\ Continue(t, "insert", "create", [sess[t] EXCEPT !.order = o])
    BY <1>2 DEF CreateInsert
  <2>2. PICK s : s = [sess[t] EXCEPT !.order = o]
    OBVIOUS
  <2>3. s \in Session /\ s.order = o /\ s.mine = sess[t].mine
    BY <2>2 DEF Session, IInv, TypeOK
  <2>4. Continue(t, "insert", "create", s)
    BY <2>1, <2>2
  <2>5. /\ pc[t] = "insert" /\ pc'[t] = "create" /\ sess'[t] = s /\ Others(t) /\ RequestsTyped'
        /\ year' = year
    BY <2>3, <2>4, ContinueEffect DEF IInv
  <2>6. orders[o] = NoOrder /\ \A u \in Threads : sess[u].order # o
    BY <2>1 DEF IsNextOrder, FreshOrders
  <2>7. /\ orders' = orders /\ sess[t].mine.number \notin Numbers(orders)
        /\ \A u \in Threads : pc[u] = "create" => sess[u].mine.number # sess[t].mine.number
    BY <1>2 DEF CreateInsert, Waits
  <2>8. QED
    BY <2>3, <2>5, <2>6, <2>7
<1>3. QED
  BY <1>1, <1>2

\* A commit writes one row: a new one, or one that was there, with its number and the
\* mark of the archive if it had it.
Writes(t, o, row) ==
    /\ pc'[t] = "idle" /\ Others(t) /\ RequestsTyped' /\ year' = year
    /\ orders' = [orders EXCEPT ![o] = row]

LEMMA CreateCommitEffect ==
    ASSUME IInv, NEW t \in Threads, CreateCommit(t)
    PROVE  \E o \in Orders, row \in OrderRow :
               /\ pc[t] = "create" /\ o = sess[t].order /\ row = sess[t].mine
               /\ orders[o] = NoOrder /\ Writes(t, o, row)
<1>1. pc[t] = "create" /\ sess[t].order \in Orders /\ sess[t].mine \in OrderRow
      /\ orders[sess[t].order] = NoOrder
  BY FinishEffect DEF IInv, CreateCommit, CreatesAreNew
<1>2. Writes(t, sess[t].order, sess[t].mine)
  BY FinishEffect DEF IInv, CreateCommit, Writes
<1>3. QED
  BY <1>1, <1>2

LEMMA ChangeCommitEffect ==
    ASSUME IInv, NEW t \in Threads, ChangeCommit(t)
    PROVE  \E o \in Orders, row \in OrderRow :
               /\ pc[t] = "change" /\ o = sess[t].order /\ orders[o] \in OrderRow
               /\ row.number = orders[o].number /\ row.generated = orders[o].generated
               /\ (orders[o].archived => row.archived) /\ Writes(t, o, row)
<1>. DEFINE s == sess[t]
            row == Merge(orders[s.order], s.loaded, s.mine)
<1>1. /\ pc[t] = "change" /\ s.order \in Orders /\ s.loaded \in OrderRow /\ ~s.loaded.archived
      /\ s.mine \in OrderRow /\ s.mine.number = s.loaded.number
      /\ s.mine.generated = s.loaded.generated
      /\ orders[s.order] \in OrderRow
  BY FinishEffect DEF IInv, TypeOK, ChangeCommit, ChangesAreOfRows
<1>2. /\ row \in OrderRow /\ row.number = orders[s.order].number
      /\ row.generated = orders[s.order].generated
      /\ orders[s.order].archived => row.archived
  BY <1>1, MergeRow
<1>3. Writes(t, s.order, row)
  BY FinishEffect DEF IInv, ChangeCommit, Writes
<1>. HIDE DEF row
<1>4. QED
  BY <1>1, <1>2, <1>3

LEMMA LoadEffect ==
    ASSUME IInv, NEW t \in Threads, NEW o \in Orders,
           ArchiveLoad(t, o) \/ \E status \in Statuses : UpdateLoad(t, o, status)
    PROVE  /\ pc[t] = "idle" /\ pc'[t] = "change" /\ Others(t) /\ RequestsTyped'
           /\ orders[o] # NoOrder /\ sess'[t].order = o
           /\ sess'[t].loaded \in OrderRow /\ ~sess'[t].loaded.archived
           /\ sess'[t].mine \in OrderRow /\ sess'[t].mine.number = sess'[t].loaded.number
           /\ sess'[t].mine.generated = sess'[t].loaded.generated
           /\ UNCHANGED <<year, orders>>
<1>1. ASSUME NEW mine \in OrderRow, mine.number = orders[o].number,
             mine.generated = orders[o].generated, Load(t, o, mine)
      PROVE  /\ pc[t] = "idle" /\ pc'[t] = "change" /\ Others(t) /\ RequestsTyped'
             /\ orders[o] # NoOrder /\ sess'[t].order = o
             /\ sess'[t].loaded \in OrderRow /\ ~sess'[t].loaded.archived
             /\ sess'[t].mine \in OrderRow /\ sess'[t].mine.number = sess'[t].loaded.number
             /\ sess'[t].mine.generated = sess'[t].loaded.generated
             /\ UNCHANGED <<year, orders>>
  <2>1. PICK s : s = [order |-> o, loaded |-> orders[o], mine |-> mine]
    OBVIOUS
  <2>2. Continue(t, "idle", "change", s) /\ orders[o] # NoOrder /\ ~orders[o].archived
        /\ orders' = orders
    BY <1>1, <2>1 DEF Load
  <2>3. orders[o] \in OrderRow
    BY <2>2 DEF IInv, TypeOK
  <2>4. s \in Session /\ s.order = o /\ s.loaded = orders[o] /\ s.mine = mine
    BY <2>1, <2>3, <1>1 DEF Session
  <2>5. /\ pc[t] = "idle" /\ pc'[t] = "change" /\ sess'[t] = s /\ Others(t) /\ RequestsTyped'
        /\ year' = year
    BY <2>2, <2>4, ContinueEffect DEF IInv
  <2>6. QED
    BY <1>1, <2>2, <2>3, <2>4, <2>5
<1>2. orders[o] \in OrderRow
  BY DEF ArchiveLoad, UpdateLoad, Load, IInv, TypeOK
<1>3. CASE ArchiveLoad(t, o)
  <2>1. PICK mine : mine = [orders[o] EXCEPT !.archived = TRUE]
    OBVIOUS
  <2>2. mine \in OrderRow /\ mine.number = orders[o].number /\ mine.generated = orders[o].generated
    BY <1>2, <2>1 DEF OrderRow
  <2>3. Load(t, o, mine)
    BY <1>3, <2>1 DEF ArchiveLoad
  <2>4. QED
    BY <1>1, <2>2, <2>3
<1>4. CASE \E status \in Statuses : UpdateLoad(t, o, status)
  <2>1. PICK status \in Statuses : UpdateLoad(t, o, status)
    BY <1>4
  <2>2. PICK mine : mine = [orders[o] EXCEPT !.status = status]
    OBVIOUS
  <2>3. mine \in OrderRow /\ mine.number = orders[o].number /\ mine.generated = orders[o].generated
    BY <1>2, <2>2 DEF OrderRow
  <2>4. Load(t, o, mine)
    BY <2>1, <2>2 DEF UpdateLoad
  <2>5. QED
    BY <1>1, <2>3, <2>4
<1>5. QED
  BY <1>3, <1>4

LEMMA AbortEffect ==
    ASSUME IInv, NEW t \in Threads, Abort(t)
    PROVE  pc'[t] = "idle" /\ Others(t) /\ RequestsTyped' /\ UNCHANGED <<year, orders>>
BY FinishEffect DEF IInv, Abort

\* Every step is one of these.
LEMMA StepCases ==
    ASSUME IInv, [Next]_vars
    PROVE  \/ UNCHANGED <<orders, pc, sess>> /\ year' \in Years
           \/ \E t \in Threads :
                \/ \E status \in Statuses :
                     \/ CreateGenerated(t, status)
                     \/ \E y \in Years, s \in Supplied : CreateSupplied(t, <<y, s>>, status)
                \/ \E o \in Orders :
                     ArchiveLoad(t, o) \/ \E status \in Statuses : UpdateLoad(t, o, status)
                \/ CreateInsert(t) \/ CreateCommit(t) \/ ChangeCommit(t) \/ Abort(t)
<1>1. CASE Tick
  BY <1>1 DEF Tick
<1>2. CASE UNCHANGED vars
  BY <1>2 DEF vars, IInv, TypeOK
<1>3. CASE \E t \in Threads : Start(t) \/ Step(t) \/ Abort(t)
  BY <1>3 DEF Start, Step
<1>4. QED
  BY <1>1, <1>2, <1>3 DEF Next, Quiet

-----------------------------------------------------------------------------
(* Each part of the invariant *)

LEMMA TypeStays ==
    ASSUME IInv, [Next]_vars
    PROVE  TypeOK'
<1>. USE DEF IInv, TypeOK, RequestsTyped
<1>1. ASSUME UNCHANGED <<orders, pc, sess>> /\ year' \in Years
      PROVE  TypeOK'
  BY <1>1
<1>2. ASSUME NEW t \in Threads, NEW status \in Statuses, CreateGenerated(t, status) \/ (\E y \in Years, s \in Supplied : CreateSupplied(t, <<y, s>>, status))
      PROVE  TypeOK'
  BY <1>2, CreatesEffect DEF Others
<1>3. ASSUME NEW t \in Threads, NEW o \in Orders, ArchiveLoad(t, o) \/ (\E status \in Statuses : UpdateLoad(t, o, status))
      PROVE  TypeOK'
  BY <1>3, LoadEffect DEF Others
<1>4. ASSUME NEW t \in Threads, CreateInsert(t)
      PROVE  TypeOK'
  BY <1>4, InsertEffect DEF Others
<1>5. ASSUME NEW t \in Threads, CreateCommit(t)
      PROVE  TypeOK'
  BY <1>5, CreateCommitEffect DEF Others, Writes
<1>6. ASSUME NEW t \in Threads, ChangeCommit(t)
      PROVE  TypeOK'
  BY <1>6, ChangeCommitEffect DEF Others, Writes
<1>7. ASSUME NEW t \in Threads, Abort(t)
      PROVE  TypeOK'
  BY <1>7, AbortEffect DEF Others
<1>8. QED
  BY <1>1, <1>2, <1>3, <1>4, <1>5, <1>6, <1>7, StepCases

LEMMA CreatesStay ==
    ASSUME IInv, [Next]_vars
    PROVE  CreatesAreNew'
<1>. USE DEF IInv, CreatesAreNew, TypeOK
<1>1. ASSUME UNCHANGED <<orders, pc, sess>> /\ year' \in Years
      PROVE  CreatesAreNew'
  BY <1>1
<1>2. ASSUME NEW t \in Threads, NEW status \in Statuses, CreateGenerated(t, status) \/ (\E y \in Years, s \in Supplied : CreateSupplied(t, <<y, s>>, status))
      PROVE  CreatesAreNew'
  BY <1>2, CreatesEffect DEF Others
<1>3. ASSUME NEW t \in Threads, NEW o \in Orders, ArchiveLoad(t, o) \/ (\E status \in Statuses : UpdateLoad(t, o, status))
      PROVE  CreatesAreNew'
  BY <1>3, LoadEffect DEF Others
<1>4. ASSUME NEW t \in Threads, CreateInsert(t)
      PROVE  CreatesAreNew'
  BY <1>4, InsertEffect DEF Others
<1>5. ASSUME NEW t \in Threads, CreateCommit(t)
      PROVE  CreatesAreNew'
  BY <1>5, CreateCommitEffect DEF Others, Writes, Numbers
<1>6. ASSUME NEW t \in Threads, ChangeCommit(t)
      PROVE  CreatesAreNew'
  <2>1. PICK o \in Orders, row \in OrderRow :
          /\ pc[t] = "change" /\ o = sess[t].order /\ orders[o] \in OrderRow
          /\ row.number = orders[o].number /\ (orders[o].archived => row.archived)
          /\ Writes(t, o, row)
    BY <1>6, ChangeCommitEffect
  <2>2. row # NoOrder /\ orders[o] # NoOrder
    BY <2>1, NullTypes
  <2>3. /\ orders' \in [Orders -> OrderRow \cup {NoOrder}] /\ orders'[o] = row
        /\ \A p \in Orders \ {o} : orders'[p] = orders[p]
    BY <2>1 DEF Writes
  <2>4. Numbers(orders)' = Numbers(orders)
    BY <2>1, <2>2, <2>3 DEF Numbers
  <2>5. \A u \in Threads : pc'[u] \in {"insert", "create"} => pc'[u] = pc[u] /\ sess'[u] = sess[u]
    BY <2>1 DEF Writes, Others
  <2>6. \A p \in Orders : orders[p] = NoOrder => orders'[p] = NoOrder
    BY <2>2, <2>3
  <2>7. QED
    BY <2>4, <2>5, <2>6
<1>7. ASSUME NEW t \in Threads, Abort(t)
      PROVE  CreatesAreNew'
  BY <1>7, AbortEffect DEF Others
<1>8. QED
  BY <1>1, <1>2, <1>3, <1>4, <1>5, <1>6, <1>7, StepCases

LEMMA ChangesStay ==
    ASSUME IInv, [Next]_vars
    PROVE  ChangesAreOfRows'
<1>. USE DEF IInv, ChangesAreOfRows, TypeOK
<1>1. ASSUME UNCHANGED <<orders, pc, sess>> /\ year' \in Years
      PROVE  ChangesAreOfRows'
  BY <1>1
<1>2. ASSUME NEW t \in Threads, NEW status \in Statuses, CreateGenerated(t, status) \/ (\E y \in Years, s \in Supplied : CreateSupplied(t, <<y, s>>, status))
      PROVE  ChangesAreOfRows'
  BY <1>2, CreatesEffect DEF Others
<1>3. ASSUME NEW t \in Threads, NEW o \in Orders, ArchiveLoad(t, o) \/ (\E status \in Statuses : UpdateLoad(t, o, status))
      PROVE  ChangesAreOfRows'
  BY <1>3, LoadEffect DEF Others
<1>4. ASSUME NEW t \in Threads, CreateInsert(t)
      PROVE  ChangesAreOfRows'
  BY <1>4, InsertEffect DEF Others
<1>5. ASSUME NEW t \in Threads, CreateCommit(t)
      PROVE  ChangesAreOfRows'
  BY <1>5, CreateCommitEffect DEF Others, Writes
<1>6. ASSUME NEW t \in Threads, ChangeCommit(t)
      PROVE  ChangesAreOfRows'
  <2>1. PICK o \in Orders, row \in OrderRow :
          /\ pc[t] = "change" /\ o = sess[t].order /\ orders[o] \in OrderRow
          /\ row.number = orders[o].number /\ (orders[o].archived => row.archived)
          /\ Writes(t, o, row)
    BY <1>6, ChangeCommitEffect
  <2>2. row # NoOrder /\ orders[o] # NoOrder
    BY <2>1, NullTypes
  <2>3. /\ orders' \in [Orders -> OrderRow \cup {NoOrder}] /\ orders'[o] = row
        /\ \A p \in Orders \ {o} : orders'[p] = orders[p]
    BY <2>1 DEF Writes
  <2>4. \A u \in Threads : pc'[u] = "change" => pc'[u] = pc[u] /\ sess'[u] = sess[u]
    BY <2>1 DEF Writes, Others
  <2>5. \A p \in Orders : orders[p] # NoOrder => orders'[p] # NoOrder
    BY <2>2, <2>3
  <2>6. QED
    BY <2>4, <2>5
<1>7. ASSUME NEW t \in Threads, Abort(t)
      PROVE  ChangesAreOfRows'
  BY <1>7, AbortEffect DEF Others
<1>8. QED
  BY <1>1, <1>2, <1>3, <1>4, <1>5, <1>6, <1>7, StepCases

LEMMA UniqueStays ==
    ASSUME IInv, [Next]_vars
    PROVE  NumbersAreUnique'
<1>. USE DEF IInv, NumbersAreUnique, TypeOK
<1>1. ASSUME UNCHANGED <<orders, pc, sess>> /\ year' \in Years
      PROVE  NumbersAreUnique'
  BY <1>1
<1>2. ASSUME NEW t \in Threads, NEW status \in Statuses, CreateGenerated(t, status) \/ (\E y \in Years, s \in Supplied : CreateSupplied(t, <<y, s>>, status))
      PROVE  NumbersAreUnique'
  BY <1>2, CreatesEffect DEF Others
<1>3. ASSUME NEW t \in Threads, NEW o \in Orders, ArchiveLoad(t, o) \/ (\E status \in Statuses : UpdateLoad(t, o, status))
      PROVE  NumbersAreUnique'
  BY <1>3, LoadEffect DEF Others
<1>4. ASSUME NEW t \in Threads, CreateInsert(t)
      PROVE  NumbersAreUnique'
  BY <1>4, InsertEffect DEF Others
<1>5. ASSUME NEW t \in Threads, CreateCommit(t)
      PROVE  NumbersAreUnique'
  <2>1. PICK o \in Orders, row \in OrderRow :
          /\ pc[t] = "create" /\ o = sess[t].order /\ row = sess[t].mine
          /\ orders[o] = NoOrder /\ Writes(t, o, row)
    BY <1>5, CreateCommitEffect
  <2>2. row # NoOrder
    BY <2>1, NullTypes
  <2>3. /\ orders' \in [Orders -> OrderRow \cup {NoOrder}] /\ orders'[o] = row
        /\ \A p \in Orders \ {o} : orders'[p] = orders[p]
    BY <2>1 DEF Writes
  <2>4. row.number \notin Numbers(orders)
    BY <2>1 DEF CreatesAreNew
  <2>5. \A p \in Orders : orders[p] # NoOrder => orders[p].number # row.number
    BY <2>4 DEF Numbers
  <2>6. QED
    BY <2>2, <2>3, <2>5
<1>6. ASSUME NEW t \in Threads, ChangeCommit(t)
      PROVE  NumbersAreUnique'
  <2>1. PICK o \in Orders, row \in OrderRow :
          /\ pc[t] = "change" /\ o = sess[t].order /\ orders[o] \in OrderRow
          /\ row.number = orders[o].number /\ (orders[o].archived => row.archived)
          /\ Writes(t, o, row)
    BY <1>6, ChangeCommitEffect
  <2>2. row # NoOrder /\ orders[o] # NoOrder
    BY <2>1, NullTypes
  <2>3. /\ orders' \in [Orders -> OrderRow \cup {NoOrder}] /\ orders'[o] = row
        /\ \A p \in Orders \ {o} : orders'[p] = orders[p]
    BY <2>1 DEF Writes
  <2>4. QED
    BY <2>1, <2>2, <2>3
<1>7. ASSUME NEW t \in Threads, Abort(t)
      PROVE  NumbersAreUnique'
  BY <1>7, AbortEffect DEF Others
<1>8. QED
  BY <1>1, <1>2, <1>3, <1>4, <1>5, <1>6, <1>7, StepCases

-----------------------------------------------------------------------------
(* The theorems *)

LEMMA Initially == Init => IInv
BY NullTypes DEF Init, IInv, TypeOK, CreatesAreNew, ChangesAreOfRows, NumbersAreUnique

LEMMA Inductive ==
    ASSUME IInv, [Next]_vars
    PROVE  IInv'
BY TypeStays, CreatesStay, ChangesStay, UniqueStays DEF IInv

\* The inductive invariant: a row that is being created has an id and a number of its
\* own, and a change starts from a row that was not in the archive.
THEOREM Invariance == Spec => []IInv
<1>1. Init => IInv
  BY Initially
<1>2. IInv /\ [Next]_vars => IInv'
  BY Inductive
<1>3. QED
  BY <1>1, <1>2, PTL DEF Spec

\* Rows, sessions and the year keep their types.
THEOREM TypeCorrect == Spec => []TypeOK
BY Invariance, PTL DEF IInv

\* However creations overlap, with numbers of the generator or of the client, no two
\* orders have one number.
THEOREM NumbersDiffer == Spec => []NumbersAreUnique
BY Invariance, PTL DEF IInv

LEMMA ArchiveKept ==
    ASSUME IInv, [Next]_vars
    PROVE  \A p \in Orders : orders[p].archived => orders'[p].archived
<1>. USE DEF IInv, TypeOK
<1>1. ASSUME UNCHANGED <<orders, pc, sess>> /\ year' \in Years
      PROVE  \A p \in Orders : orders[p].archived => orders'[p].archived
  BY <1>1
<1>2. ASSUME NEW t \in Threads, NEW status \in Statuses, CreateGenerated(t, status) \/ (\E y \in Years, s \in Supplied : CreateSupplied(t, <<y, s>>, status))
      PROVE  \A p \in Orders : orders[p].archived => orders'[p].archived
  BY <1>2, CreatesEffect DEF Others
<1>3. ASSUME NEW t \in Threads, NEW o \in Orders, ArchiveLoad(t, o) \/ (\E status \in Statuses : UpdateLoad(t, o, status))
      PROVE  \A p \in Orders : orders[p].archived => orders'[p].archived
  BY <1>3, LoadEffect DEF Others
<1>4. ASSUME NEW t \in Threads, CreateInsert(t)
      PROVE  \A p \in Orders : orders[p].archived => orders'[p].archived
  BY <1>4, InsertEffect DEF Others
<1>5. ASSUME NEW t \in Threads, CreateCommit(t)
      PROVE  \A p \in Orders : orders[p].archived => orders'[p].archived
  <2>1. PICK o \in Orders, row \in OrderRow :
          /\ pc[t] = "create" /\ o = sess[t].order /\ row = sess[t].mine
          /\ orders[o] = NoOrder /\ Writes(t, o, row)
    BY <1>5, CreateCommitEffect
  <2>2. row # NoOrder
    BY <2>1, NullTypes
  <2>3. /\ orders' \in [Orders -> OrderRow \cup {NoOrder}] /\ orders'[o] = row
        /\ \A p \in Orders \ {o} : orders'[p] = orders[p]
    BY <2>1 DEF Writes
  <2>4. ~orders[o].archived
    BY <2>1 DEF NoOrder
  <2>5. QED
    BY <2>3, <2>4
<1>6. ASSUME NEW t \in Threads, ChangeCommit(t)
      PROVE  \A p \in Orders : orders[p].archived => orders'[p].archived
  BY <1>6, ChangeCommitEffect DEF Others, Writes
<1>7. ASSUME NEW t \in Threads, Abort(t)
      PROVE  \A p \in Orders : orders[p].archived => orders'[p].archived
  BY <1>7, AbortEffect DEF Others
<1>8. QED
  BY <1>1, <1>2, <1>3, <1>4, <1>5, <1>6, <1>7, StepCases

\* No PATCH, whenever it loaded the order, takes it out of the archive.
THEOREM ArchiveStays == Spec => ArchivedStaysArchived
<1>1. IInv /\ [Next]_vars => [\A o \in Orders : orders[o].archived => orders'[o].archived]_vars
  BY ArchiveKept
<1>2. QED
  BY <1>1, Invariance, PTL DEF Spec, ArchivedStaysArchived

LEMMA NumberKept ==
    ASSUME IInv, [Next]_vars
    PROVE  \A p \in Orders : orders[p] # NoOrder =>
                 orders'[p] # NoOrder /\ orders'[p].number = orders[p].number
<1>. USE DEF IInv, TypeOK
<1>1. ASSUME UNCHANGED <<orders, pc, sess>> /\ year' \in Years
      PROVE  \A p \in Orders : orders[p] # NoOrder =>
                 orders'[p] # NoOrder /\ orders'[p].number = orders[p].number
  BY <1>1
<1>2. ASSUME NEW t \in Threads, NEW status \in Statuses, CreateGenerated(t, status) \/ (\E y \in Years, s \in Supplied : CreateSupplied(t, <<y, s>>, status))
      PROVE  \A p \in Orders : orders[p] # NoOrder =>
                 orders'[p] # NoOrder /\ orders'[p].number = orders[p].number
  BY <1>2, CreatesEffect DEF Others
<1>3. ASSUME NEW t \in Threads, NEW o \in Orders, ArchiveLoad(t, o) \/ (\E status \in Statuses : UpdateLoad(t, o, status))
      PROVE  \A p \in Orders : orders[p] # NoOrder =>
                 orders'[p] # NoOrder /\ orders'[p].number = orders[p].number
  BY <1>3, LoadEffect DEF Others
<1>4. ASSUME NEW t \in Threads, CreateInsert(t)
      PROVE  \A p \in Orders : orders[p] # NoOrder =>
                 orders'[p] # NoOrder /\ orders'[p].number = orders[p].number
  BY <1>4, InsertEffect DEF Others
<1>5. ASSUME NEW t \in Threads, CreateCommit(t)
      PROVE  \A p \in Orders : orders[p] # NoOrder =>
                 orders'[p] # NoOrder /\ orders'[p].number = orders[p].number
  BY <1>5, CreateCommitEffect DEF Others, Writes
<1>6. ASSUME NEW t \in Threads, ChangeCommit(t)
      PROVE  \A p \in Orders : orders[p] # NoOrder =>
                 orders'[p] # NoOrder /\ orders'[p].number = orders[p].number
  <2>1. PICK o \in Orders, row \in OrderRow :
          /\ pc[t] = "change" /\ o = sess[t].order /\ orders[o] \in OrderRow
          /\ row.number = orders[o].number /\ (orders[o].archived => row.archived)
          /\ Writes(t, o, row)
    BY <1>6, ChangeCommitEffect
  <2>2. row # NoOrder /\ orders[o] # NoOrder
    BY <2>1, NullTypes
  <2>3. /\ orders' \in [Orders -> OrderRow \cup {NoOrder}] /\ orders'[o] = row
        /\ \A p \in Orders \ {o} : orders'[p] = orders[p]
    BY <2>1 DEF Writes
  <2>4. QED
    BY <2>1, <2>2, <2>3
<1>7. ASSUME NEW t \in Threads, Abort(t)
      PROVE  \A p \in Orders : orders[p] # NoOrder =>
                 orders'[p] # NoOrder /\ orders'[p].number = orders[p].number
  BY <1>7, AbortEffect DEF Others
<1>8. QED
  BY <1>1, <1>2, <1>3, <1>4, <1>5, <1>6, <1>7, StepCases

\* A row is never deleted, and keeps the number it was created with.
THEOREM NumbersAreKept == Spec => NumbersStay
<1>1. IInv /\ [Next]_vars => [\A o \in Orders : orders[o] # NoOrder =>
          orders'[o] # NoOrder /\ orders'[o].number = orders[o].number]_vars
  BY NumberKept
<1>2. QED
  BY <1>1, Invariance, PTL DEF Spec, NumbersStay

-----------------------------------------------------------------------------
(* Numbers of three digits *)

\* A set of numbers up to n has a greatest one: there is a least set of those that are at
\* least one of them.
LEMMA HasGreatest ==
    ASSUME NEW n \in Nat, NEW T \in SUBSET (0..n), T # {}
    PROVE  \E x \in T : \A y \in T : y <= x
<1>. DEFINE AtLeast(x) == {y \in T : x <= y}
            Tails == {AtLeast(x) : x \in T}
<1>1. IsFiniteSet(T)
  <2>1. IsFiniteSet(0..n)
    BY FS_Interval
  <2>2. QED
    BY <2>1, FS_Subset
<1>2. Tails \subseteq FiniteSubsetsOf(T) /\ Tails # {}
  <2>1. Tails \subseteq SUBSET T /\ Tails # {}
    OBVIOUS
  <2>2. QED
    BY <1>1, <2>1, FS_FiniteSubsetsOfFinite
<1>3. PICK R \in Tails : \A Q \in Tails : ~(<<Q, R>> \in StrictSubsetOrdering(T))
  <2>. HIDE DEF Tails
  <2>1. IsWellFoundedOn(StrictSubsetOrdering(T), FiniteSubsetsOf(T))
    BY FS_StrictSubsetOrderingWellFounded
  <2>2. QED
    BY <1>2, <2>1, WFMin
<1>4. PICK x \in T : R = AtLeast(x)
  OBVIOUS
<1>5. SUFFICES ASSUME NEW y \in T, y > x PROVE FALSE
  OBVIOUS
<1>6. AtLeast(y) \in Tails /\ AtLeast(y) \in SUBSET T /\ AtLeast(x) \in SUBSET T
  OBVIOUS
<1>7. AtLeast(y) \subseteq AtLeast(x) /\ x \in AtLeast(x) /\ x \notin AtLeast(y)
  <2>1. x \in Int /\ y \in Int /\ \A z \in T : z \in Int
    OBVIOUS
  <2>2. x \in AtLeast(x) /\ x \notin AtLeast(y)
    BY <1>5, <2>1
  <2>3. \A z \in T : y <= z => x <= z
    BY <1>5, <2>1
  <2>4. QED
    BY <2>2, <2>3
<1>. HIDE DEF AtLeast, Tails
<1>8. <<AtLeast(y), AtLeast(x)>> \in StrictSubsetOrdering(T)
  BY <1>6, <1>7 DEF StrictSubsetOrdering
<1>9. QED
  BY <1>3, <1>4, <1>6, <1>8

LEMMA PowersOfTen ==
    /\ 10^0 = 1 /\ 10^1 = 10 /\ 10^2 = 100 /\ 10^3 = 1000 /\ 10^4 = 10000 /\ 10^5 = 100000
    /\ 10^6 = 1000000 /\ 10^7 = 10000000 /\ 10^8 = 100000000 /\ 10^9 = 1000000000
OBVIOUS

\* Numbers of three digits are compared digit by digit.
LEMMA OrderOfNumbers ==
    ASSUME NEW a \in 0..9, NEW b \in 0..9, NEW c \in 0..9,
           NEW d \in 0..9, NEW e \in 0..9, NEW f \in 0..9
    PROVE  100 * a + 10 * b + c < 100 * d + 10 * e + f
              <=> a < d \/ (a = d /\ b < e) \/ (a = d /\ b = e /\ c < f)
<1>1. CASE a < d
  BY <1>1
<1>2. CASE a > d
  BY <1>2
<1>3. CASE a = d
  BY <1>3
<1>4. QED
  BY <1>1, <1>2, <1>3

LEMMA ThreeAreSeq ==
    ASSUME NEW s \in ThreeDigits
    PROVE  /\ s \in Seq(0..9) /\ Len(s) = 3 /\ DOMAIN s = 1..3
           /\ s[1] \in 0..9 /\ s[2] \in 0..9 /\ s[3] \in 0..9
<1>1. s \in [1..3 -> 0..9]
  BY DEF ThreeDigits
<1>2. DOMAIN s = 1..3 /\ \A i \in 1..3 : s[i] \in 0..9
  BY <1>1
<1>3. s \in Seq(0..9)
  BY <1>1, SeqDef
<1>4. QED
  BY <1>2, <1>3

LEMMA ValueOfThree ==
    ASSUME NEW s \in ThreeDigits
    PROVE  Value(s) = 100 * s[1] + 10 * s[2] + s[3]
<1>. DEFINE Extend(f) == [i \in 0..Len(s) |-> IF i = 0 THEN 0 ELSE 10 * f[i - 1] + s[i]]
            upTo == CHOOSE f : f = Extend(f)
            sums == [i \in 0..3 |-> IF i = 0 THEN 0 ELSE IF i = 1 THEN s[1]
                                    ELSE IF i = 2 THEN 10 * s[1] + s[2]
                                    ELSE 100 * s[1] + 10 * s[2] + s[3]]
<1>1. Len(s) = 3 /\ s[1] \in 0..9 /\ s[2] \in 0..9 /\ s[3] \in 0..9
  BY DEF ThreeDigits
<1>2. sums = Extend(sums)
  <2>1. DOMAIN sums = 0..3 /\ DOMAIN Extend(sums) = 0..3
    BY <1>1
  <2>2. \A i \in 0..3 : sums[i] = Extend(sums)[i]
    BY <1>1
  <2>3. QED
    BY <1>1, <2>2
<1>3. upTo = Extend(upTo)
  <2>. HIDE DEF sums, Extend
  <2>1. \E f : f = Extend(f)
    BY <1>2
  <2>2. QED
    BY <2>1
<1>4. Value(s) = upTo[3]
  BY <1>1 DEF Value
<1>. HIDE DEF upTo
<1>5. upTo[0] = 0 /\ upTo[1] = 10 * upTo[0] + s[1] /\ upTo[2] = 10 * upTo[1] + s[2]
      /\ upTo[3] = 10 * upTo[2] + s[3]
  BY <1>1, <1>3
<1>6. QED
  BY <1>1, <1>4, <1>5

LEMMA PaddedIsThree ==
    ASSUME NEW n \in 0..999
    PROVE  /\ Padded(n) \in ThreeDigits
           /\ Value(Padded(n)) = n
<1>. DEFINE width == CHOOSE w \in 3..9 : n < 10^w /\ (w = 3 \/ n >= 10^(w-1))
            digits == [i \in 1..3 |-> (n \div 10^(3 - i)) % 10]
<1>1. width = 3
  <2>1. n < 10^3 /\ 3 \in 3..9
    BY PowersOfTen
  <2>2. ASSUME NEW w \in 3..9, n < 10^w, w = 3 \/ n >= 10^(w-1)
        PROVE  w = 3
    <3>1. w \in {3, 4, 5, 6, 7, 8, 9}
      OBVIOUS
    <3>2. /\ ~(n >= 10^(4-1)) /\ ~(n >= 10^(5-1)) /\ ~(n >= 10^(6-1)) /\ ~(n >= 10^(7-1))
          /\ ~(n >= 10^(8-1)) /\ ~(n >= 10^(9-1))
      BY PowersOfTen
    <3>3. QED
      BY <2>2, <3>1, <3>2, Zenon
  <2>3. QED
    BY <2>1, <2>2
<1>2. Padded(n) = digits
  <2>1. Padded(n) = [i \in 1..width |-> (n \div 10^(width - i)) % 10]
    BY DEF Padded
  <2>. HIDE DEF width
  <2>2. QED
    BY <1>1, <2>1
<1>3. digits[1] = (n \div 100) % 10 /\ digits[2] = (n \div 10) % 10 /\ digits[3] = n % 10
  BY PowersOfTen
<1>4. digits \in ThreeDigits
  <2>1. \A i \in 1..3 : digits[i] \in 0..9
    <3>1. \A i \in 1..3 : i = 1 \/ i = 2 \/ i = 3
      OBVIOUS
    <3>2. QED
      BY <1>3, <3>1
  <2>2. QED
    BY <2>1 DEF ThreeDigits
<1>5. 100 * digits[1] + 10 * digits[2] + digits[3] = n
  BY <1>3
<1>. HIDE DEF digits
<1>6. QED
  BY <1>2, <1>4, <1>5, ValueOfThree

\* Three digits are the padding of their value.
LEMMA ThreePadded ==
    ASSUME NEW s \in ThreeDigits
    PROVE  Value(s) \in 0..999 /\ Padded(Value(s)) = s
<1>1. /\ Value(s) = 100 * s[1] + 10 * s[2] + s[3]
      /\ s[1] \in 0..9 /\ s[2] \in 0..9 /\ s[3] \in 0..9
  BY ValueOfThree DEF ThreeDigits
<1>2. Value(s) \in 0..999
  BY <1>1
<1>3. PICK t \in ThreeDigits : t = Padded(Value(s))
  BY <1>2, PaddedIsThree
<1>4. Value(t) = Value(s) /\ Value(t) = 100 * t[1] + 10 * t[2] + t[3]
      /\ t[1] \in 0..9 /\ t[2] \in 0..9 /\ t[3] \in 0..9
  BY <1>2, <1>3, PaddedIsThree, ValueOfThree, ThreeAreSeq
<1>5. t[1] = s[1] /\ t[2] = s[2] /\ t[3] = s[3]
  <2>1. 100 * t[1] + 10 * t[2] + t[3] = 100 * s[1] + 10 * s[2] + s[3]
    BY <1>1, <1>4
  <2>2. /\ s[1] \in 0..9 /\ s[2] \in 0..9 /\ s[3] \in 0..9
        /\ t[1] \in 0..9 /\ t[2] \in 0..9 /\ t[3] \in 0..9
    BY <1>1, <1>4
  <2>3. QED
    <3>1. PICK a \in 0..9, b \in 0..9, c \in 0..9, d \in 0..9, e \in 0..9, f \in 0..9 :
             a = t[1] /\ b = t[2] /\ c = t[3] /\ d = s[1] /\ e = s[2] /\ f = s[3]
      BY <2>2
    <3>2. 100 * a + 10 * b + c = 100 * d + 10 * e + f
      BY <2>1, <3>1
    <3>3. a = d /\ b = e /\ c = f
      <4>1. a = d
        BY <3>2
      <4>2. QED
        BY <3>2, <4>1
    <3>4. QED
      BY <3>1, <3>3
<1>6. t = s
  BY <1>5 DEF ThreeDigits
<1>7. QED
  BY <1>2, <1>3, <1>6

LEMMA PaddedThousand == Padded(1000) = Thousand
<1>. DEFINE width == CHOOSE w \in 3..9 : 1000 < 10^w /\ (w = 3 \/ 1000 >= 10^(w-1))
<1>1. width = 4
  <2>1. 1000 < 10^4 /\ 1000 >= 10^(4-1) /\ 4 \in 3..9
    BY PowersOfTen
  <2>2. ASSUME NEW w \in 3..9, 1000 < 10^w, w = 3 \/ 1000 >= 10^(w-1)
        PROVE  w = 4
    <3>1. w \in {3, 4, 5, 6, 7, 8, 9}
      OBVIOUS
    <3>2. /\ ~(1000 < 10^3) /\ ~(1000 >= 10^(5-1)) /\ ~(1000 >= 10^(6-1))
          /\ ~(1000 >= 10^(7-1)) /\ ~(1000 >= 10^(8-1)) /\ ~(1000 >= 10^(9-1))
      BY PowersOfTen
    <3>3. ASSUME w = 3 PROVE FALSE
      BY <2>2, <3>2, <3>3
    <3>4. 1000 >= 10^(w-1)
      BY <2>2, <3>3
    <3>5. w # 5 /\ w # 6 /\ w # 7 /\ w # 8 /\ w # 9
      <4>1. ASSUME w = 5 PROVE FALSE
        <5>1. 1000 >= 10^(5-1)
          BY <3>4, <4>1
        <5>2. QED
          BY <3>2, <5>1
      <4>2. ASSUME w = 6 PROVE FALSE
        <5>1. 1000 >= 10^(6-1)
          BY <3>4, <4>2
        <5>2. QED
          BY <3>2, <5>1
      <4>3. ASSUME w = 7 PROVE FALSE
        <5>1. 1000 >= 10^(7-1)
          BY <3>4, <4>3
        <5>2. QED
          BY <3>2, <5>1
      <4>4. ASSUME w = 8 PROVE FALSE
        <5>1. 1000 >= 10^(8-1)
          BY <3>4, <4>4
        <5>2. QED
          BY <3>2, <5>1
      <4>5. ASSUME w = 9 PROVE FALSE
        <5>1. 1000 >= 10^(9-1)
          BY <3>4, <4>5
        <5>2. QED
          BY <3>2, <5>1
      <4>6. QED
        BY <4>1, <4>2, <4>3, <4>4, <4>5
    <3>6. QED
      BY <3>1, <3>3, <3>5
  <2>3. QED
    BY <2>1, <2>2
<1>2. Padded(1000) = [i \in 1..4 |-> (1000 \div 10^(4 - i)) % 10]
  <2>1. Padded(1000) = [i \in 1..width |-> (1000 \div 10^(width - i)) % 10]
    BY DEF Padded
  <2>. HIDE DEF width
  <2>2. QED
    BY <1>1, <2>1
<1>3. \A i \in 1..4 : (1000 \div 10^(4 - i)) % 10 = Thousand[i]
  <2>1. \A i \in 1..4 : i = 1 \/ i = 2 \/ i = 3 \/ i = 4
    OBVIOUS
  <2>2. /\ 1000 \div 10^(4 - 1) = 1 /\ 1000 \div 10^(4 - 2) = 10
        /\ 1000 \div 10^(4 - 3) = 100 /\ 1000 \div 10^(4 - 4) = 1000
    BY PowersOfTen
  <2>3. QED
    <3>1. /\ Thousand[1] = 1 /\ Thousand[2] = 0 /\ Thousand[3] = 0 /\ Thousand[4] = 0
          /\ 1 % 10 = 1 /\ 10 % 10 = 0 /\ 100 % 10 = 0 /\ 1000 % 10 = 0
      BY DEF Thousand
    <3>. DEFINE digit(i) == (1000 \div 10^(4 - i)) % 10
    <3>2. /\ digit(1) = Thousand[1] /\ digit(2) = Thousand[2]
          /\ digit(3) = Thousand[3] /\ digit(4) = Thousand[4]
      BY <2>2, <3>1
    <3>. HIDE DEF digit
    <3>3. ASSUME NEW i \in 1..4
          PROVE  digit(i) = Thousand[i]
      <4>1. CASE i = 1
        BY <4>1, <3>2
      <4>2. CASE i = 2
        BY <4>2, <3>2
      <4>3. CASE i = 3
        BY <4>3, <3>2
      <4>4. CASE i = 4
        BY <4>4, <3>2
      <4>5. QED
        BY <2>1, <4>1, <4>2, <4>3, <4>4
    <3>4. QED
      BY <3>3 DEF digit
<1>4. QED
  BY <1>2, <1>3 DEF Thousand

LEMMA HighestIsThree == Highest \in ThreeDigits /\ Value(Highest) = 999 /\ Thousand \notin ThreeDigits
<1>1. Highest \in ThreeDigits
  BY DEF Highest, ThreeDigits
<1>2. Value(Highest) = 999
  BY <1>1, ValueOfThree DEF Highest
<1>3. Thousand \notin ThreeDigits
  <2>1. Len(Thousand) = 4 /\ \A s \in ThreeDigits : Len(s) = 3
    BY DEF Thousand, ThreeDigits
  <2>2. QED
    BY <2>1
<1>4. QED
  BY <1>1, <1>2, <1>3

LEMMA ValueOfThousand == Value(Thousand) = 1000
<1>. DEFINE Extend(f) == [i \in 0..Len(Thousand) |-> IF i = 0 THEN 0 ELSE 10 * f[i - 1] + Thousand[i]]
            upTo == CHOOSE f : f = Extend(f)
            sums == [i \in 0..4 |-> IF i = 0 THEN 0 ELSE IF i = 1 THEN 1
                                    ELSE IF i = 2 THEN 10 ELSE IF i = 3 THEN 100 ELSE 1000]
<1>1. /\ Len(Thousand) = 4 /\ Thousand[1] = 1 /\ Thousand[2] = 0 /\ Thousand[3] = 0
      /\ Thousand[4] = 0
  BY DEF Thousand
<1>2. sums = Extend(sums)
  <2>1. \A i \in 0..4 : sums[i] = Extend(sums)[i]
    BY <1>1
  <2>2. QED
    BY <1>1, <2>1
<1>3. upTo = Extend(upTo)
  <2>. HIDE DEF sums, Extend
  <2>1. \E f : f = Extend(f)
    BY <1>2
  <2>2. QED
    BY <2>1
<1>4. Value(Thousand) = upTo[4]
  BY <1>1 DEF Value
<1>. HIDE DEF upTo
<1>5. upTo[0] = 0 /\ upTo[1] = 1 /\ upTo[2] = 10 /\ upTo[3] = 100 /\ upTo[4] = 1000
  <2>1. upTo[0] = 0 /\ upTo[1] = 10 * upTo[0] + 1 /\ upTo[2] = 10 * upTo[1] + 0
        /\ upTo[3] = 10 * upTo[2] + 0 /\ upTo[4] = 10 * upTo[3] + 0
    BY <1>1, <1>3
  <2>2. QED
    BY <2>1
<1>6. QED
  BY <1>4, <1>5

\* Strings of three digits are ordered as their values; one that starts with 1 is before 999.
LEMMA BeforeIsLess ==
    ASSUME NEW s \in ThreeDigits, NEW t \in ThreeDigits
    PROVE  Before(s, t) <=> Value(s) < Value(t)
<1>1. /\ Value(s) = 100 * s[1] + 10 * s[2] + s[3] /\ Value(t) = 100 * t[1] + 10 * t[2] + t[3]
      /\ s[1] \in 0..9 /\ s[2] \in 0..9 /\ s[3] \in 0..9
      /\ t[1] \in 0..9 /\ t[2] \in 0..9 /\ t[3] \in 0..9
      /\ DOMAIN s = 1..3 /\ DOMAIN t = 1..3 /\ Len(s) = 3 /\ Len(t) = 3
  BY ValueOfThree DEF ThreeDigits
<1>2. ~IsStrictPrefix(s, t)
  <2>1. s \in Seq(0..9) /\ t \in Seq(0..9)
    BY ThreeAreSeq
  <2>2. SubSeq(s, 1, 3) = s /\ SubSeq(t, 1, 3) = t
    BY <1>1, <2>1
  <2>3. QED
    BY <1>1, <2>2 DEF IsStrictPrefix, IsPrefix
<1>3. Before(s, t) <=> \E i \in 1..3 : s[i] < t[i] /\ \A j \in 1..(i - 1) : s[j] = t[j]
  BY <1>1, <1>2 DEF Before
<1>4. (\E i \in 1..3 : s[i] < t[i] /\ \A j \in 1..(i - 1) : s[j] = t[j])
      <=> \/ s[1] < t[1]
          \/ s[1] = t[1] /\ s[2] < t[2]
          \/ s[1] = t[1] /\ s[2] = t[2] /\ s[3] < t[3]
  <2>. DEFINE First(i) == s[i] < t[i] /\ \A j \in 1..(i - 1) : s[j] = t[j]
  <2>1. First(1) <=> s[1] < t[1]
    OBVIOUS
  <2>2. First(2) <=> s[1] = t[1] /\ s[2] < t[2]
    <3>1. \A j : j \in 1..(2 - 1) <=> j = 1
      OBVIOUS
    <3>2. QED
      BY <3>1
  <2>3. First(3) <=> s[1] = t[1] /\ s[2] = t[2] /\ s[3] < t[3]
    <3>1. \A j : j \in 1..(3 - 1) <=> j = 1 \/ j = 2
      OBVIOUS
    <3>2. QED
      BY <3>1
  <2>4. (\E i \in 1..3 : First(i)) <=> First(1) \/ First(2) \/ First(3)
    <3>. HIDE DEF First
    <3>1. \A i : i \in 1..3 <=> i = 1 \/ i = 2 \/ i = 3
      OBVIOUS
    <3>2. QED
      BY <3>1
  <2>5. QED
    BY <2>1, <2>2, <2>3, <2>4
<1>5. Value(s) < Value(t)
      <=> \/ s[1] < t[1]
          \/ s[1] = t[1] /\ s[2] < t[2]
          \/ s[1] = t[1] /\ s[2] = t[2] /\ s[3] < t[3]
  <2>1. /\ s[1] \in 0..9 /\ s[2] \in 0..9 /\ s[3] \in 0..9
        /\ t[1] \in 0..9 /\ t[2] \in 0..9 /\ t[3] \in 0..9
    BY <1>1
  <2>2. 100 * s[1] + 10 * s[2] + s[3] < 100 * t[1] + 10 * t[2] + t[3]
        <=> \/ s[1] < t[1]
            \/ s[1] = t[1] /\ s[2] < t[2]
            \/ s[1] = t[1] /\ s[2] = t[2] /\ s[3] < t[3]
    <3>1. PICK a \in 0..9, b \in 0..9, c \in 0..9, d \in 0..9, e \in 0..9, f \in 0..9 :
             a = s[1] /\ b = s[2] /\ c = s[3] /\ d = t[1] /\ e = t[2] /\ f = t[3]
      BY <2>1
    <3>2. 100 * a + 10 * b + c < 100 * d + 10 * e + f
              <=> a < d \/ (a = d /\ b < e) \/ (a = d /\ b = e /\ c < f)
      BY OrderOfNumbers, SMTT(60)
    <3>3. QED
      BY <3>1, <3>2
  <2>3. QED
    BY <1>1, <2>2
<1>6. QED
  BY <1>3, <1>4, <1>5

LEMMA ThousandIsBefore == Before(Thousand, Highest) /\ ~Before(Highest, Thousand)
<1>1. DOMAIN Thousand = 1..4 /\ Thousand[1] = 1 /\ DOMAIN Highest = 1..3 /\ Highest[1] = 9
      /\ Len(Highest) = 3 /\ Len(Thousand) = 4
  BY DEF Thousand, Highest
<1>2. Before(Thousand, Highest)
  BY <1>1 DEF Before
<1>3. ~IsStrictPrefix(Highest, Thousand)
  <2>1. SubSeq(Highest, 1, 3)[1] = 9 /\ SubSeq(Thousand, 1, 3)[1] = 1
    BY DEF Highest, Thousand
  <2>2. QED
    BY <1>1, <2>1 DEF IsStrictPrefix, IsPrefix
<1>4. ASSUME NEW i \in DOMAIN Highest \cap DOMAIN Thousand, Highest[i] < Thousand[i],
             \A j \in 1..(i - 1) : Highest[j] = Thousand[j]
      PROVE  FALSE
  <2>1. i = 1 \/ 1 \in 1..(i - 1)
    BY <1>1
  <2>2. QED
    BY <1>1, <1>4, <2>1
<1>5. QED
  BY <1>2, <1>3, <1>4 DEF Before

LEMMA DigitsAreLast ==
    ASSUME NEW s \in ThreeDigits
    PROVE  LastPart(s) = s /\ IsDigit(s)
<1>1. Len(s) = 3 /\ DOMAIN s = 1..3 /\ s \in Seq(0..9) /\ \A i \in 1..3 : s[i] \in 0..9
  BY ThreeAreSeq DEF ThreeDigits
<1>. DEFINE cuts == {0} \cup {i \in DOMAIN s : s[i] = Hyphen}
            cut == CHOOSE i \in cuts : \A j \in cuts : j <= i
<1>2. cuts = {0}
  BY <1>1 DEF Hyphen
<1>3. cut = 0
  BY <1>2
<1>4. LastPart(s) = SubSeq(s, cut + 1, Len(s))
  BY DEF LastPart
<1>5. LastPart(s) = SubSeq(s, 1, 3)
  <2>. HIDE DEF cut
  <2>1. QED
    BY <1>1, <1>3, <1>4
<1>6. SubSeq(s, 1, 3) = s
  BY <1>1
<1>7. IsDigit(s)
  BY <1>1 DEF IsDigit
<1>8. QED
  BY <1>5, <1>6, <1>7

\* What the generator gives, if the numbers of the year are as InSequence says.
LEMMA NextOfThree ==
    ASSUME NEW table, NEW y,
           SuffixesOf(table, y) \subseteq ThreeDigits \cup {Thousand},
           Thousand \in SuffixesOf(table, y) => Highest \in SuffixesOf(table, y)
    PROVE  \/ SuffixesOf(table, y) = {} /\ NextSuffix(table, y) = Padded(1)
           \/ \E g \in SuffixesOf(table, y) \cap ThreeDigits :
                  /\ \A s \in SuffixesOf(table, y) \cap ThreeDigits : Value(s) <= Value(g)
                  /\ NextSuffix(table, y) = Padded(Value(g) + 1)
<1>1. CASE SuffixesOf(table, y) = {}
  BY <1>1 DEF NextSuffix
<1>2. CASE SuffixesOf(table, y) # {}
  <2>. DEFINE present == SuffixesOf(table, y)
              short == present \cap ThreeDigits
              values == {Value(s) : s \in short}
              IsGreatest(s) == \A t \in present : t = s \/ Before(t, s)
  <2>1. short # {}
    BY <1>2, HighestIsThree
  <2>2. PICK x \in values : \A v \in values : v <= x
    <3>1. values \in SUBSET (0..999)
      BY ThreePadded
    <3>2. values # {} /\ 999 \in Nat
      BY <2>1
    <3>. HIDE DEF values
    <3>3. PICK n \in Nat : n = 999
      OBVIOUS
    <3>4. PICK T \in SUBSET (0..n) : T = values
      BY <3>1, <3>3
    <3>5. T # {}
      BY <3>2, <3>4
    <3>6. \E x \in T : \A v \in T : v <= x
      BY <3>5, HasGreatest
    <3>7. QED
      BY <3>4, <3>6
  <2>3. PICK g \in short : \A s \in short : Value(s) <= Value(g)
    BY <2>2
  <2>4. Value(g) \in 0..999 /\ g \in present /\ g \in ThreeDigits
    BY <2>3, ThreePadded
  <2>5. IsGreatest(g)
    <3>1. ASSUME NEW t \in present, t \in ThreeDigits
          PROVE  t = g \/ Before(t, g)
      <4>1. Value(t) \in 0..999 /\ Padded(Value(t)) = t /\ Padded(Value(g)) = g
            /\ Value(t) <= Value(g)
        BY <2>3, <2>4, <3>1, ThreePadded
      <4>2. CASE Value(t) = Value(g)
        BY <4>1, <4>2
      <4>3. CASE Value(t) < Value(g)
        BY <4>3, <2>4, <3>1, BeforeIsLess
      <4>4. Value(t) = Value(g) \/ Value(t) < Value(g)
        <5>1. PICK v \in 0..999 : v = Value(t)
          BY <4>1, Zenon
        <5>2. PICK w \in 0..999 : w = Value(g)
          BY <2>4, Zenon
        <5>3. v <= w
          BY <4>1, <5>1, <5>2, Zenon
        <5>4. v = w \/ v < w
          BY <5>3
        <5>5. QED
          BY <5>1, <5>2, <5>4, Zenon
      <4>5. QED
        BY <4>2, <4>3, <4>4
    <3>2. ASSUME Thousand \in present
          PROVE  Before(Thousand, g)
      <4>1. Highest \in short /\ Value(Highest) = 999
        BY <3>2, HighestIsThree
      <4>2. Value(g) = 999
        BY <2>3, <2>4, <4>1
      <4>3. g = Highest
        <5>1. Padded(Value(g)) = g /\ Padded(Value(Highest)) = Highest
          BY <2>4, HighestIsThree, ThreePadded
        <5>2. QED
          BY <4>1, <4>2, <5>1
      <4>4. QED
        BY <4>3, ThousandIsBefore
    <3>3. QED
      BY <3>1, <3>2
  <2>6. ASSUME NEW s \in present, IsGreatest(s)
        PROVE  s = g
    <3>1. SUFFICES ASSUME s # g PROVE FALSE
      OBVIOUS
    <3>2. Before(s, g) /\ Before(g, s)
      BY <2>4, <2>5, <2>6, <3>1
    <3>3. CASE s \in ThreeDigits
      <4>1. Value(s) < Value(g) /\ Value(g) < Value(s) /\ Value(s) \in 0..999
        BY <2>4, <3>2, <3>3, BeforeIsLess, ThreePadded
      <4>2. PICK v \in 0..999 : v = Value(s)
        BY <4>1, Zenon
      <4>3. PICK w \in 0..999 : w = Value(g)
        BY <2>4, Zenon
      <4>4. v < w /\ w < v
        BY <4>1, <4>2, <4>3, Zenon
      <4>5. QED
        BY <4>4
    <3>4. CASE s = Thousand
      <4>1. Highest \in short /\ Value(Highest) = 999
        BY <3>4, HighestIsThree
      <4>2. Value(g) = 999
        BY <2>3, <2>4, <4>1
      <4>3. g = Highest
        <5>1. Padded(Value(g)) = g /\ Padded(Value(Highest)) = Highest
          BY <2>4, HighestIsThree, ThreePadded
        <5>2. QED
          BY <4>1, <4>2, <5>1
      <4>4. QED
        BY <3>2, <3>4, <4>3, ThousandIsBefore
    <3>5. QED
      BY <3>3, <3>4
  <2>. HIDE DEF IsGreatest
  <2>7. (CHOOSE s \in present : IsGreatest(s)) = g
    BY <2>4, <2>5, <2>6
  <2>8. LastPart(CHOOSE s \in present : IsGreatest(s)) = g /\ IsDigit(g)
    BY <2>4, <2>7, DigitsAreLast
  <2>9. NextSuffix(table, y) = Padded(Value(g) + 1)
    BY <1>2, <2>8 DEF NextSuffix, IsGreatest
  <2>10. QED
    BY <2>3, <2>9
<1>3. QED
  BY <1>1, <1>2

-----------------------------------------------------------------------------
(* Numbers in sequence *)

LEMMA SuffixIsNumber ==
    ASSUME IInv, NEW y, NEW s
    PROVE  s \in SuffixesOf(orders, y) <=> <<y, s>> \in Numbers(orders)
<1>1. ASSUME NEW n \in Numbers(orders)
      PROVE  n = <<n[1], n[2]>>
  <2>1. n \in Years \X PONumbers
    BY DEF Numbers, IInv, TypeOK, OrderRow
  <2>2. QED
    BY <2>1
<1>2. QED
  BY <1>1 DEF SuffixesOf

LEMMA SequenceIsThree ==
    ASSUME IInv, InSequence, NEW y
    PROVE  /\ SuffixesOf(orders, y) \subseteq ThreeDigits \cup {Thousand}
           /\ Thousand \in SuffixesOf(orders, y) => Highest \in SuffixesOf(orders, y)
<1>1. ASSUME NEW s \in SuffixesOf(orders, y)
      PROVE  \E o \in Orders : /\ orders[o] # NoOrder /\ orders[o].number = <<y, s>>
                               /\ IsInSequence(orders[o])
  <2>1. <<y, s>> \in Numbers(orders)
    BY SuffixIsNumber
  <2>2. PICK o \in Orders : orders[o] # NoOrder /\ orders[o].number = <<y, s>>
    BY <2>1 DEF Numbers, IInv, TypeOK
  <2>3. QED
    BY <2>2 DEF InSequence
<1>2. SuffixesOf(orders, y) \subseteq ThreeDigits \cup {Thousand}
  BY <1>1 DEF IsInSequence
<1>3. ASSUME Thousand \in SuffixesOf(orders, y)
      PROVE  Highest \in SuffixesOf(orders, y)
  <2>1. PICK o \in Orders : /\ orders[o].number = <<y, Thousand>>
                            /\ IsInSequence(orders[o])
    BY <1>1, <1>3
  <2>2. orders[o].generated
    BY <2>1, HighestIsThree DEF IsInSequence
  <2>3. Value(Thousand) = 1 \/ <<y, Padded(Value(Thousand) - 1)>> \in Numbers(orders)
    BY <2>1, <2>2 DEF IsInSequence, Follows
  <2>4. Value(Thousand) # 1 /\ Padded(Value(Thousand) - 1) = Highest
    <3>1. Value(Thousand) - 1 = Value(Highest) /\ Value(Thousand) # 1
      BY ValueOfThousand, HighestIsThree
    <3>2. QED
      BY <3>1, HighestIsThree, ThreePadded
  <2>5. QED
    BY <2>3, <2>4, SuffixIsNumber
<1>4. QED
  BY <1>2, <1>3

\* What the generator gives follows a number in use; it is in use itself if and only if
\* it is 1000 and the year has come there.
LEMMA NextFollows ==
    ASSUME IInv, InSequence, NEW y
    PROVE  LET next == NextSuffix(orders, y) IN
           /\ next \in ThreeDigits \cup {Thousand}
           /\ Value(next) = 1 \/ <<y, Padded(Value(next) - 1)>> \in Numbers(orders)
           /\ <<y, Thousand>> \in Numbers(orders) => next = Thousand
           /\ <<y, Thousand>> \notin Numbers(orders) => <<y, next>> \notin Numbers(orders)
<1>. DEFINE present == SuffixesOf(orders, y)
            next == NextSuffix(orders, y)
<1>1. CASE present = {} /\ next = Padded(1)
  <2>1. next \in ThreeDigits /\ Value(next) = 1
    BY <1>1, PaddedIsThree
  <2>2. \A s : <<y, s>> \notin Numbers(orders)
    BY <1>1, SuffixIsNumber
  <2>3. QED
    BY <2>1, <2>2
<1>2. ASSUME NEW g \in present \cap ThreeDigits,
             \A s \in present \cap ThreeDigits : Value(s) <= Value(g),
             next = Padded(Value(g) + 1)
      PROVE  /\ next \in ThreeDigits \cup {Thousand}
             /\ Value(next) = 1 \/ <<y, Padded(Value(next) - 1)>> \in Numbers(orders)
             /\ <<y, Thousand>> \in Numbers(orders) => next = Thousand
             /\ <<y, Thousand>> \notin Numbers(orders) => <<y, next>> \notin Numbers(orders)
  <2>1. PICK v \in 0..999 : v = Value(g)
    BY ThreePadded
  <2>2. g = Padded(v) /\ next = Padded(v + 1)
    BY <1>2, <2>1, ThreePadded
  <2>3. Value(next) = v + 1
    <3>1. CASE v = 999
      BY <2>2, <3>1, PaddedThousand, ValueOfThousand
    <3>2. CASE v # 999
      <4>1. v + 1 \in 0..999
        BY <3>2
      <4>2. QED
        BY <2>2, <4>1, PaddedIsThree
    <3>3. QED
      BY <3>1, <3>2
  <2>4. <<y, Padded(Value(next) - 1)>> \in Numbers(orders)
    <3>1. Value(next) - 1 = v
      BY <2>3
    <3>2. QED
      BY <2>2, <3>1, SuffixIsNumber
  <2>5. CASE v = 999
    <3>1. next = Thousand
      BY <2>2, <2>5, PaddedThousand
    <3>2. QED
      BY <2>4, <3>1
  <2>6. CASE v # 999
    <3>1. next \in ThreeDigits
      <4>1. v + 1 \in 0..999
        BY <2>6
      <4>2. QED
        BY <2>2, <4>1, PaddedIsThree
    <3>2. next \notin present
      <4>1. ASSUME next \in present PROVE FALSE
        <5>1. v + 1 <= v
          BY <1>2, <2>1, <2>3, <3>1, <4>1
        <5>2. QED
          BY <5>1
      <4>2. QED
        BY <4>1
    <3>3. Thousand \notin present
      <4>1. ASSUME Thousand \in present PROVE FALSE
        <5>1. Highest \in present \cap ThreeDigits /\ Value(Highest) = 999
          BY <4>1, SequenceIsThree, HighestIsThree
        <5>2. 999 <= v
          BY <1>2, <2>1, <5>1
        <5>3. QED
          BY <2>6, <5>2
      <4>2. QED
        BY <4>1
    <3>4. <<y, next>> \notin Numbers(orders) /\ <<y, Thousand>> \notin Numbers(orders)
      BY <3>2, <3>3, SuffixIsNumber
    <3>5. QED
      BY <2>4, <3>1, <3>4
  <2>7. QED
    BY <2>5, <2>6
<1>3. \/ present = {} /\ next = Padded(1)
      \/ \E g \in present \cap ThreeDigits :
             /\ \A s \in present \cap ThreeDigits : Value(s) <= Value(g)
             /\ next = Padded(Value(g) + 1)
  BY SequenceIsThree, NextOfThree
<1>4. QED
  BY <1>1, <1>2, <1>3

\* A row that is there was there, with its number, or is what a thread creates.
LEMMA RowsCome ==
    ASSUME IInv, [Next]_vars, NEW p \in Orders, orders'[p] # NoOrder
    PROVE  \/ /\ orders[p] # NoOrder /\ orders'[p].number = orders[p].number
              /\ orders'[p].generated = orders[p].generated
           \/ \E t \in Threads : pc[t] = "create" /\ orders'[p] = sess[t].mine
<1>. USE DEF IInv, TypeOK
<1>1. CASE UNCHANGED orders
  BY <1>1
<1>2. ASSUME NEW t \in Threads, CreateCommit(t)
      PROVE  \/ /\ orders[p] # NoOrder /\ orders'[p].number = orders[p].number
                /\ orders'[p].generated = orders[p].generated
             \/ pc[t] = "create" /\ orders'[p] = sess[t].mine
  BY <1>2, CreateCommitEffect DEF Writes
<1>3. ASSUME NEW t \in Threads, ChangeCommit(t)
      PROVE  /\ orders[p] # NoOrder /\ orders'[p].number = orders[p].number
             /\ orders'[p].generated = orders[p].generated
  <2>1. PICK o \in Orders, row \in OrderRow :
          /\ orders[o] \in OrderRow /\ row.number = orders[o].number
          /\ row.generated = orders[o].generated /\ Writes(t, o, row)
    BY <1>3, ChangeCommitEffect
  <2>2. orders[o] # NoOrder
    BY <2>1, NullTypes
  <2>3. orders'[o] = row /\ \A q \in Orders \ {o} : orders'[q] = orders[q]
    BY <2>1 DEF Writes
  <2>4. QED
    BY <2>1, <2>2, <2>3
<1>4. UNCHANGED orders \/ \E t \in Threads : CreateCommit(t) \/ ChangeCommit(t)
  BY StepCases, CreatesEffect, LoadEffect, InsertEffect, AbortEffect
<1>5. QED
  BY <1>1, <1>2, <1>3, <1>4

\* What a thread creates it had before, or has now from the generator or the client.
LEMMA MinesCome ==
    ASSUME IInv, [Next]_vars, NEW t \in Threads, pc'[t] \in {"insert", "create"}
    PROVE  \/ pc[t] \in {"insert", "create"} /\ sess'[t].mine = sess[t].mine
           \/ /\ sess'[t].mine.number = <<year, NextSuffix(orders, year)>>
              /\ sess'[t].mine.generated
           \/ sess'[t].mine.number[2] \in Supplied /\ ~sess'[t].mine.generated
<1>. DEFINE Comes == \/ pc[t] \in {"insert", "create"} /\ sess'[t].mine = sess[t].mine
                     \/ /\ sess'[t].mine.number = <<year, NextSuffix(orders, year)>>
                        /\ sess'[t].mine.generated
                     \/ sess'[t].mine.number[2] \in Supplied /\ ~sess'[t].mine.generated
<1>1. ASSUME UNCHANGED <<pc, sess>>
      PROVE  Comes
  BY <1>1
<1>2. ASSUME NEW u \in Threads, NEW status \in Statuses,
             \/ CreateGenerated(u, status)
             \/ \E y \in Years, s \in Supplied : CreateSupplied(u, <<y, s>>, status)
      PROVE  Comes
  BY <1>2, CreatesEffect DEF Others
<1>3. ASSUME NEW u \in Threads, NEW o \in Orders,
             ArchiveLoad(u, o) \/ (\E status \in Statuses : UpdateLoad(u, o, status))
      PROVE  Comes
  BY <1>3, LoadEffect DEF Others
<1>4. ASSUME NEW u \in Threads, CreateInsert(u)
      PROVE  Comes
  BY <1>4, InsertEffect DEF Others
<1>5. ASSUME NEW u \in Threads, CreateCommit(u)
      PROVE  Comes
  BY <1>5, CreateCommitEffect DEF Others, Writes
<1>6. ASSUME NEW u \in Threads, ChangeCommit(u)
      PROVE  Comes
  BY <1>6, ChangeCommitEffect DEF Others, Writes
<1>7. ASSUME NEW u \in Threads, Abort(u)
      PROVE  Comes
  BY <1>7, AbortEffect DEF Others
<1>. HIDE DEF Comes
<1>8. Comes
  BY <1>1, <1>2, <1>3, <1>4, <1>5, <1>6, <1>7, StepCases
<1>9. QED
  BY <1>8 DEF Comes

LEMMA SequenceStays ==
    ASSUME Supplied \subseteq ThreeDigits, IInv, InSequence, [Next]_vars
    PROVE  InSequence'
<1>1. Numbers(orders) \subseteq Numbers(orders)'
  <2>1. DOMAIN orders = Orders /\ DOMAIN orders' = Orders
    BY TypeStays DEF IInv, TypeOK
  <2>2. \A p \in Orders : orders[p] # NoOrder =>
            orders'[p] # NoOrder /\ orders'[p].number = orders[p].number
    BY NumberKept
  <2>3. QED
    BY <2>1, <2>2 DEF Numbers
<1>2. ASSUME NEW row, IsInSequence(row)
      PROVE  IsInSequence(row)'
  BY <1>1, <1>2 DEF IsInSequence, Follows
<1>3. ASSUME NEW p \in Orders, orders'[p] # NoOrder
      PROVE  IsInSequence(orders[p])'
  <2>1. CASE /\ orders[p] # NoOrder /\ orders'[p].number = orders[p].number
             /\ orders'[p].generated = orders[p].generated
    <3>1. IsInSequence(orders[p])
      BY <2>1 DEF InSequence
    <3>2. QED
      BY <1>1, <2>1, <3>1 DEF IsInSequence, Follows
  <2>2. ASSUME NEW t \in Threads, pc[t] = "create", orders'[p] = sess[t].mine
        PROVE  IsInSequence(orders[p])'
    <3>1. IsInSequence(sess[t].mine)
      BY <2>2 DEF InSequence
    <3>2. QED
      BY <1>1, <2>2, <3>1 DEF IsInSequence, Follows
  <2>3. QED
    BY <1>3, <2>1, <2>2, RowsCome
<1>4. ASSUME NEW t \in Threads, pc'[t] \in {"insert", "create"}
      PROVE  IsInSequence(sess[t].mine)'
  <2>1. CASE pc[t] \in {"insert", "create"} /\ sess'[t].mine = sess[t].mine
    <3>1. IsInSequence(sess[t].mine)
      BY <2>1 DEF InSequence
    <3>2. QED
      BY <1>1, <2>1, <3>1 DEF IsInSequence, Follows
  <2>2. CASE /\ sess'[t].mine.number = <<year, NextSuffix(orders, year)>>
             /\ sess'[t].mine.generated
    <3>1. PICK s : s = NextSuffix(orders, year)
      OBVIOUS
    <3>2. /\ s \in ThreeDigits \cup {Thousand}
          /\ Value(s) = 1 \/ <<year, Padded(Value(s) - 1)>> \in Numbers(orders)
      BY <3>1, NextFollows
    <3>3. sess'[t].mine.number[1] = year /\ sess'[t].mine.number[2] = s
      BY <2>2, <3>1
    <3>4. QED
      BY <1>1, <2>2, <3>2, <3>3 DEF IsInSequence, Follows
  <2>3. CASE sess'[t].mine.number[2] \in Supplied /\ ~sess'[t].mine.generated
    BY <2>3 DEF IsInSequence
  <2>4. QED
    BY <1>4, <2>1, <2>2, <2>3, MinesCome
<1>5. QED
  BY <1>3, <1>4 DEF InSequence

\* If the numbers that clients supply have three digits, all numbers have, or are the
\* 1000 that the generator gives, and each it gave follows one in use.
THEOREM NumbersInSequence ==
    ASSUME Supplied \subseteq ThreeDigits
    PROVE  Spec => []InSequence
<1>1. Init => InSequence
  BY DEF Init, InSequence
<1>2. IInv /\ InSequence /\ [Next]_vars => InSequence'
  BY SequenceStays
<1>3. QED
  BY <1>1, <1>2, Invariance, PTL DEF Spec

\* Then no number of a year is skipped, however creations overlap, fail and die.
THEOREM NoneSkipped ==
    ASSUME Supplied \subseteq ThreeDigits
    PROVE  Spec => []NoGaps
<1>1. IInv /\ InSequence => NoGaps
  <2>1. SUFFICES ASSUME IInv, InSequence, NEW o \in Orders, orders[o].generated,
                        Value(orders[o].number[2]) # 1
                 PROVE  \E p \in Orders : orders[p].number
                            = <<orders[o].number[1], Padded(Value(orders[o].number[2]) - 1)>>
    BY DEF NoGaps
  <2>2. orders[o] # NoOrder
    BY <2>1 DEF NoOrder
  <2>3. Follows(orders[o].number)
    BY <2>1, <2>2 DEF InSequence, IsInSequence
  <2>4. QED
    BY <2>1, <2>3 DEF Follows, Numbers, IInv, TypeOK
<1>2. QED
  BY <1>1, Invariance, NumbersInSequence, PTL

\* The generator gives a number in use if and only if 1000 is in use, and then it gives
\* 1000: the failure that the run po_overflow finds is the only one and lasts.
THEOREM FailsAtThousand ==
    ASSUME Supplied \subseteq ThreeDigits
    PROVE  Spec => [](UnusedBeforeThousand /\ NeverBeyond)
<1>1. IInv /\ InSequence => UnusedBeforeThousand /\ NeverBeyond
  BY NextFollows DEF UnusedBeforeThousand, NeverBeyond, NextIsUnused
<1>2. QED
  BY <1>1, Invariance, NumbersInSequence, PTL

\* An instance without the number 1000 always has a number to give.
THEOREM NextUnused ==
    ASSUME Supplied \subseteq ThreeDigits, MaxNumber <= 999
    PROVE  Spec => []NextIsUnused
<1>1. Thousand \notin PONumbers
  <2>1. ASSUME NEW n \in 1..MaxNumber
        PROVE  Padded(n) \in ThreeDigits
    <3>1. n \in 0..999
      BY OrderAssumption
    <3>2. QED
      BY <3>1, PaddedIsThree
  <2>2. QED
    BY <2>1, HighestIsThree DEF PONumbers
<1>2. IInv => <<year, Thousand>> \notin Numbers(orders)
  BY <1>1 DEF IInv, TypeOK, Numbers, OrderRow
<1>3. IInv /\ UnusedBeforeThousand => NextIsUnused
  BY <1>2 DEF UnusedBeforeThousand
<1>4. QED
  BY <1>3, Invariance, FailsAtThousand, PTL
=============================================================================
