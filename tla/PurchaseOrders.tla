--------------------------- MODULE PurchaseOrders ---------------------------
(***************************************************************************)
(* The generic CRUD routes (crud.py) of the resource that has a hook at    *)
(* creation: purchase orders, numbered PO-<year>-<suffix> unless the       *)
(* client supplies a number.  Each handler runs on a thread with a session *)
(* and a transaction of its own, as in DocumentPipeline.                   *)
(*                                                                         *)
(* A number is a pair of year and suffix, a suffix a sequence of           *)
(* characters.  The columns that PATCH may change are one: the status.     *)
(* Numbers are unique over all tenants, so tenants are left out.           *)
(***************************************************************************)
EXTENDS Integers, FiniteSets, Sequences, SequencesExt, UnitOfWork

CONSTANTS
    Orders,    \* ids of purchase_orders rows, numbered by a sequence
    Years,     \* years that the clock shows, one after the other
    MaxNumber, \* bound: a suffix of more than this is out of the instance
    Supplied,  \* suffixes that clients supply
    Statuses,
    Threads,
    Faults,    \* TRUE if a request may die half way
    None

\* A character is a digit or stands for the others, which sort above (a letter) or
\* below (the hyphen) the digits.
Letter == 10
Hyphen == -1

ASSUME OrderAssumption ==
    /\ Orders \subseteq Nat /\ Years \subseteq Nat /\ MaxNumber \in Nat
    /\ Years # {} /\ \A s \in Supplied : s \in Seq(Hyphen..Letter)
    /\ None \notin Orders \cup Threads \cup Statuses
    /\ Faults \in BOOLEAN

VARIABLES year, orders, pc, sess

vars == <<year, orders, pc, sess>>

-----------------------------------------------------------------------------
(* Numbers *)

\* f"{n:03d}": decimal digits, at least three.
Padded(n) ==
    LET width == CHOOSE w \in 3..9 : n < 10^w /\ (w = 3 \/ n >= 10^(w-1))
    IN [i \in 1..width |-> (n \div 10^(width - i)) % 10]

\* rsplit("-", 1)[-1]
LastPart(s) == LET cuts == {0} \cup {i \in DOMAIN s : s[i] = Hyphen}
                   cut == CHOOSE i \in cuts : \A j \in cuts : j <= i
               IN SubSeq(s, cut + 1, Len(s))

IsDigit(s) == s # <<>> /\ \A i \in DOMAIN s : s[i] \in 0..9

\* int(s)
Value(s) == LET upTo[i \in 0..Len(s)] == IF i = 0 THEN 0 ELSE 10 * upTo[i - 1] + s[i]
            IN upTo[Len(s)]

\* The order of strings, by which max() chooses.
Before(s, t) ==
    \/ IsStrictPrefix(s, t)
    \/ \E i \in DOMAIN s \cap DOMAIN t :
           s[i] < t[i] /\ \A j \in 1..(i - 1) : s[j] = t[j]

\* The numbers of the committed rows, archived ones included.
NoOrder == [number |-> None, status |-> None, archived |-> FALSE, generated |-> FALSE]
Numbers(table) == {table[o].number : o \in {p \in DOMAIN table : table[p] # NoOrder}}

\* Mutants: archived orders are left out; so is the year.
SuffixesOfLive(table, y) ==
    {table[o].number[2] : o \in {p \in DOMAIN table : table[p] # NoOrder
                                    /\ table[p].number[1] = y /\ ~table[p].archived}}
SuffixesOfAll(table, y) == {n[2] : n \in Numbers(table)}

SuffixesOf(table, y) == {n[2] : n \in {m \in Numbers(table) : m[1] = y}}

\* generate_po_number: one above the greatest, if that ends in a number.
NextSuffix(table, y) ==
    LET present == SuffixesOf(table, y)
        greatest == LastPart(CHOOSE s \in present : \A t \in present : t = s \/ Before(t, s))
    IN IF present # {} /\ IsDigit(greatest) THEN Padded(Value(greatest) + 1) ELSE Padded(1)

-----------------------------------------------------------------------------
(* State *)

PONumbers == {Padded(n) : n \in 1..MaxNumber} \cup Supplied

\* `generated' is no column but what the properties need.
OrderRow == [number : Years \X PONumbers, status : Statuses, archived : BOOLEAN,
             generated : BOOLEAN]

\* The row as loaded and as assigned to.
Session == [order : Orders \cup {None}, loaded : OrderRow \cup {NoOrder},
            mine : OrderRow \cup {NoOrder}]
NoSession == [order |-> None, loaded |-> NoOrder, mine |-> NoOrder]

TypeOK ==
    /\ year \in Years
    /\ orders \in [Orders -> OrderRow \cup {NoOrder}]
    /\ pc \in [Threads -> {"idle", "insert", "create", "change"}]
    /\ sess \in [Threads -> Session]

Init ==
    /\ year \in Years /\ \A y \in Years : year <= y
    /\ orders = [o \in Orders |-> NoOrder]
    /\ pc = [t \in Threads |-> "idle"]
    /\ sess = [t \in Threads |-> NoSession]

Continue(t, from, to, session) ==
    /\ pc[t] = from
    /\ pc' = [pc EXCEPT ![t] = to]
    /\ sess' = [sess EXCEPT ![t] = session]
    /\ UNCHANGED year

Finish(t, from) == Continue(t, from, "idle", NoSession)

\* New Year.
Tick == \E y \in Years : year' = y /\ y = year + 1 /\ UNCHANGED <<orders, pc, sess>>

-----------------------------------------------------------------------------
(* POST *)

\* A sequence yields the ids, in order and each once, also to what is rolled back: the
\* instance takes the least that is not in use.
FreshOrders == {o \in Orders : orders[o] = NoOrder /\ \A t \in Threads : sess[t].order # o}
IsNextOrder(o) == o \in FreshOrders /\ \A p \in FreshOrders : o <= p

\* The instance has ids for all that wait to insert.
Spare == Cardinality({u \in Threads : pc[u] = "insert"}) < Cardinality(FreshOrders)

Create(t, number, status, generated) ==
    /\ Spare
    /\ Continue(t, "idle", "insert",
                [NoSession EXCEPT !.mine = [number |-> number, status |-> status,
                                            archived |-> FALSE, generated |-> generated]])
    /\ UNCHANGED orders

CreateSupplied(t, number, status) == Create(t, number, status, FALSE)

\* Without a number in the request: a SELECT for the greatest one.
CreateGenerated(t, status) ==
    /\ NextSuffix(orders, year) \in PONumbers
    /\ Create(t, <<year, NextSuffix(orders, year)>>, status, TRUE)

\* An uncommitted row with the number: the INSERT waits for its transaction to end.
Waits(t) == \E u \in Threads : pc[u] = "create" /\ sess[u].mine.number = sess[t].mine.number

\* The flush: po_number is unique, so a number that is committed raises.
CreateInsert(t) ==
    LET mine == sess[t].mine IN
    /\ ~Waits(t)
    /\ IF mine.number \in Numbers(orders)
         THEN Finish(t, "insert")
         ELSE \E o \in Orders : IsNextOrder(o)
                             /\ Continue(t, "insert", "create", [sess[t] EXCEPT !.order = o])
    /\ UNCHANGED orders

CreateCommit(t) ==
    /\ Finish(t, "create")
    /\ orders' = [orders EXCEPT ![sess[t].order] = sess[t].mine]

-----------------------------------------------------------------------------
(* PATCH and DELETE of one order *)

\* _get_or_404: an archived order is not found.  The assignments follow.
Load(t, o, mine) ==
    /\ orders[o] # NoOrder /\ ~orders[o].archived
    /\ Continue(t, "idle", "change", [order |-> o, loaded |-> orders[o], mine |-> mine])
    /\ UNCHANGED orders

UpdateLoad(t, o, status) == Load(t, o, [orders[o] EXCEPT !.status = status])

\* There is a column is_archived, so the row stays.
ArchiveLoad(t, o) == Load(t, o, [orders[o] EXCEPT !.archived = TRUE])

\* commit() flushes the changed columns and the audit entry.
ChangeCommit(t) ==
    LET s == sess[t] IN
    /\ Finish(t, "change")
    /\ orders' = [orders EXCEPT ![s.order] = Merge(@, s.loaded, s.mine)]

\* The request or its worker dies: rollback.
Abort(t) == Faults /\ pc[t] # "idle" /\ Finish(t, pc[t]) /\ UNCHANGED orders

-----------------------------------------------------------------------------

Start(t) ==
    \/ \E status \in Statuses :
         \/ CreateGenerated(t, status)
         \/ \E y \in Years, s \in Supplied : CreateSupplied(t, <<y, s>>, status)
         \/ \E o \in Orders : UpdateLoad(t, o, status)
    \/ \E o \in Orders : ArchiveLoad(t, o)

Step(t) == CreateInsert(t) \/ CreateCommit(t) \/ ChangeCommit(t)

Quiet == (\A t \in Threads : pc[t] = "idle") /\ UNCHANGED vars

Next == Tick \/ Quiet \/ \E t \in Threads : Start(t) \/ Step(t) \/ Abort(t)

Spec == Init /\ [][Next]_vars

-----------------------------------------------------------------------------
(* Properties *)

\* "Assign the next PO-YYYY-NNN number": what would be assigned now is not in use, so
\* that a creation no other one overlaps succeeds.
NextIsUnused == <<year, NextSuffix(orders, year)>> \notin Numbers(orders)

\* However creations overlap, fail and die, no number of a year is skipped: below a
\* generated number that is not the first, its predecessor is in use.
NoGaps ==
    \A o \in Orders : orders[o].generated =>
        LET n == orders[o].number IN
        Value(n[2]) = 1 \/ \E p \in Orders : orders[p].number = <<n[1], Padded(Value(n[2]) - 1)>>

\* An order in the archive stays there, whatever the PATCHes do that loaded it before.
ArchivedStaysArchived == [][\A o \in Orders : orders[o].archived => orders'[o].archived]_vars

\* po_number is unique, and what a row has got it keeps.
NumbersAreUnique ==
    \A o, p \in Orders : orders[o] # NoOrder /\ orders[p] # NoOrder
                             /\ orders[o].number = orders[p].number => o = p
NumbersStay ==
    [][\A o \in Orders : orders[o] # NoOrder =>
           orders'[o] # NoOrder /\ orders'[o].number = orders[o].number]_vars

-----------------------------------------------------------------------------
(* The inductive invariant *)

\* An uncommitted row has an id and a number of its own.
CreatesAreNew ==
    \A t \in Threads :
        /\ pc[t] \in {"insert", "create"} => sess[t].mine \in OrderRow
        /\ pc[t] = "create" =>
             /\ sess[t].order \in Orders /\ orders[sess[t].order] = NoOrder
             /\ sess[t].mine.number \notin Numbers(orders)
             /\ \A u \in Threads \ {t} : pc[u] = "create" =>
                    sess[u].order # sess[t].order /\ sess[u].mine.number # sess[t].mine.number

\* A change starts from a row that was not archived, and leaves its number alone.
ChangesAreOfRows ==
    \A t \in Threads : pc[t] = "change" =>
        /\ sess[t].order \in Orders /\ orders[sess[t].order] # NoOrder
        /\ sess[t].loaded \in OrderRow /\ ~sess[t].loaded.archived
        /\ sess[t].mine \in OrderRow /\ sess[t].mine.number = sess[t].loaded.number
        /\ sess[t].mine.generated = sess[t].loaded.generated

IInv == TypeOK /\ CreatesAreNew /\ ChangesAreOfRows /\ NumbersAreUnique

-----------------------------------------------------------------------------
(* What the numbers in use are, if clients supply three digits, as most do   *)

ThreeDigits == [1..3 -> 0..9]
Highest == <<9, 9, 9>>
Thousand == <<1, 0, 0, 0>>

\* The generator gives the successor of a number in use, and stops after 999: a string
\* that starts with 1 is not the greatest one.
Follows(number) ==
    \/ Value(number[2]) = 1
    \/ <<number[1], Padded(Value(number[2]) - 1)>> \in Numbers(orders)

IsInSequence(row) ==
    /\ row.number[2] \in ThreeDigits \/ (row.generated /\ row.number[2] = Thousand)
    /\ row.generated => Follows(row.number)

InSequence ==
    /\ \A o \in Orders : orders[o] # NoOrder => IsInSequence(orders[o])
    /\ \A t \in Threads : pc[t] \in {"insert", "create"} => IsInSequence(sess[t].mine)

\* The generator gives a number in use after 1000, which it gives again and again, and
\* never before.
UnusedBeforeThousand == NextIsUnused <=> <<year, Thousand>> \notin Numbers(orders)
NeverBeyond == <<year, Thousand>> \in Numbers(orders) => NextSuffix(orders, year) = Thousand
=============================================================================
