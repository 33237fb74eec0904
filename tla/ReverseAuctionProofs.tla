------------------------ MODULE ReverseAuctionProofs ------------------------
(***************************************************************************)
(* Proofs about ReverseAuction, for any number of bids, vendors, amounts   *)
(* and threads.                                                            *)
(***************************************************************************)
EXTENDS ReverseAuction, FiniteSetTheorems, TLAPS

(* Types *)

LEMMA MergeAuction ==
    ASSUME NEW row \in AuctionRow, NEW loaded \in AuctionRow, NEW mine \in AuctionRow
    PROVE  Merge(row, loaded, mine) \in AuctionRow
BY DEF Merge, AuctionRow

\* The columns of a merged row.
LEMMA MergeColumns ==
    ASSUME NEW row \in AuctionRow, NEW loaded, NEW mine
    PROVE  LET new == Merge(row, loaded, mine) IN
           /\ new.leadVendor = IF mine.leadVendor = loaded.leadVendor THEN row.leadVendor
                                                                      ELSE mine.leadVendor
           /\ new.leadAmount = IF mine.leadAmount = loaded.leadAmount THEN row.leadAmount
                                                                      ELSE mine.leadAmount
           /\ new.reserve = IF mine.reserve = loaded.reserve THEN row.reserve ELSE mine.reserve
BY DEF Merge, AuctionRow

LEMMA NullTypes ==
    NoAuction \in AuctionRow /\ NoBid \in BidRow /\ NoSession \in Session
<1>1. NoAuction \in AuctionRow
  BY DEF NoAuction, AuctionRow
<1>2. NoBid \in BidRow
  BY DEF NoBid, BidRow
<1>3. QED
  BY <1>1, <1>2 DEF NoSession, Session

LEMMA Numbers ==
    /\ Amounts \subseteq Nat
    /\ \A row \in AuctionRow : row.leadAmount \in Nat /\ row.step \in Nat /\ row.reserve \in Nat
    /\ \A row \in BidRow : row.amount \in Nat
<1>1. Amounts \cup {0} \subseteq Nat /\ Steps \cup {0} \subseteq Nat
  BY AuctionAssumption
<1>2. \A row \in AuctionRow : /\ row.leadAmount \in Amounts \cup {0}
                              /\ row.reserve \in Amounts \cup {0}
                              /\ row.step \in Steps \cup {0}
  BY DEF AuctionRow
<1>3. \A row \in BidRow : row.amount \in Amounts \cup {0}
  BY DEF BidRow, NoBid
<1> QED
  BY <1>1, <1>2, <1>3

\* A row without a bid leads nothing.
LEMMA LeadersArePlaced == Leaders \subseteq Placed /\ Placed \subseteq Bids
BY DEF Leaders, Placed, NoBid

\* Clearing the flag of a row changes nothing else, and no bid into none.
LEMMA Unflagged ==
    ASSUME NEW row \in BidRow
    PROVE  LET new == [row EXCEPT !.isLeading = FALSE] IN
           /\ new \in BidRow
           /\ new = NoBid <=> row = NoBid
           /\ new.vendor = row.vendor /\ new.amount = row.amount /\ new.saw = row.saw
           /\ ~new.isLeading
<1> DEFINE new == [row EXCEPT !.isLeading = FALSE]
<1>1. CASE row = NoBid
  <2> DEFINE Null == [vendor : {None}, amount : {0}, isLeading : BOOLEAN, saw : {None}]
  <2>1. row \in Null /\ ~row.isLeading
    BY <1>1 DEF NoBid
  <2>2. new \in Null /\ ~new.isLeading
    BY <2>1
  <2>3. \A r \in Null : ~r.isLeading => r = NoBid
    BY DEF NoBid
  <2>4. new = NoBid
    BY <2>2, <2>3
  <2> QED
    BY <1>1, <2>4 DEF NoBid, BidRow
<1>2. CASE row # NoBid
  <2>1. row \in [vendor : Vendors \cup {None}, amount : Amounts \cup {0}, isLeading : BOOLEAN,
                 saw : Amounts \cup {0}]
    BY <1>2 DEF BidRow
  <2>2. /\ new \in [vendor : Vendors \cup {None}, amount : Amounts \cup {0},
                    isLeading : BOOLEAN, saw : Amounts \cup {0}]
        /\ new.vendor = row.vendor /\ new.amount = row.amount /\ new.saw = row.saw
        /\ ~new.isLeading
    BY <2>1
  <2>3. new.saw # None
    BY <2>2, AuctionAssumption
  <2>4. new # NoBid
    BY <2>3 DEF NoBid
  <2> QED
    BY <1>2, <2>2, <2>4 DEF BidRow
<1> QED
  BY <1>1, <1>2

LEMMA FinishTypes ==
    ASSUME TypeOK, NEW t \in Threads, NEW from, Finish(t, from)
    PROVE  /\ bidLock' \in [Bids -> Threads \cup {None}]
           /\ pc' \in [Threads -> {"idle", "clear", "wait", "commit", "edit"}]
           /\ sess' \in [Threads -> Session]
BY NullTypes DEF Finish, Continue, Released, TypeOK

LEMMA ClearTypes ==
    ASSUME TypeOK, NEW t \in Threads, NEW from, NEW rows \in SUBSET Bids, Clear(t, from, rows)
    PROVE  TypeOK'
<1>1. [sess[t] EXCEPT !.cleared = rows] \in Session
  BY DEF TypeOK, Session
<1> QED
  BY <1>1 DEF Clear, Continue, TypeOK

\* A PATCH assigns neither to the lead nor, if it may not, to the reserve price.
LEMMA EditEffect ==
    ASSUME TypeOK, NEW t \in Threads, EditLoad(t)
    PROVE  /\ \E mine \in AuctionRow :
                /\ Continue(t, "idle", "edit",
                            [NoSession EXCEPT !.loaded = auction, !.mine = mine])
                /\ mine.leadVendor = auction.leadVendor /\ mine.leadAmount = auction.leadAmount
                /\ "reserve" \notin Edits => mine.reserve = auction.reserve
           /\ UNCHANGED <<auction, bids, bidLock>>
<1>1. PICK column \in Edits :
         \E value \in CASE column = "status" -> {"active", "inactive"}
                        [] column = "reserve" -> Amounts
                        [] column = "step" -> Steps :
           Continue(t, "idle", "edit",
                    [NoSession EXCEPT !.loaded = auction, !.mine = [auction EXCEPT ![column] = value]])
  BY DEF EditLoad
<1>2. column \in {"status", "reserve", "step"}
  BY AuctionAssumption
<1>3. PICK value \in CASE column = "status" -> {"active", "inactive"}
                       [] column = "reserve" -> Amounts
                       [] column = "step" -> Steps :
           Continue(t, "idle", "edit",
                    [NoSession EXCEPT !.loaded = auction, !.mine = [auction EXCEPT ![column] = value]])
  BY <1>1
<1> DEFINE mine == [auction EXCEPT ![column] = value]
<1>4. /\ mine \in AuctionRow
      /\ mine.leadVendor = auction.leadVendor /\ mine.leadAmount = auction.leadAmount
      /\ column # "reserve" => mine.reserve = auction.reserve
  <2>1. CASE column = "status"
    BY <1>3, <2>1 DEF TypeOK, AuctionRow
  <2>2. CASE column = "reserve"
    BY <1>3, <2>2 DEF TypeOK, AuctionRow
  <2>3. CASE column = "step"
    BY <1>3, <2>3 DEF TypeOK, AuctionRow
  <2> QED
    BY <1>2, <2>1, <2>2, <2>3
<1> HIDE DEF mine
<1>5. Continue(t, "idle", "edit", [NoSession EXCEPT !.loaded = auction, !.mine = mine])
  BY <1>3 DEF mine
<1>6. UNCHANGED <<auction, bids, bidLock>>
  BY DEF EditLoad
<1> QED
  BY <1>1, <1>4, <1>5, <1>6

LEMMA StepTypeOK ==
    ASSUME TypeOK, [Next]_vars
    PROVE  TypeOK'
<1>1. ASSUME NEW t \in Threads, NEW v \in Vendors \cup {None}, NEW a \in Amounts, BidLoad(t, v, a)
      PROVE  TypeOK'
  <2>1. PICK b \in Bids : Continue(t, "idle", "clear",
                     [loaded |-> auction,
                      mine |-> [auction EXCEPT !.leadVendor = v, !.leadAmount = a],
                      bid |-> b,
                      row |-> [vendor |-> v, amount |-> a, isLeading |-> TRUE,
                               saw |-> auction.leadAmount],
                      cleared |-> {}])
    BY <1>1 DEF BidLoad, FreshBids
  <2>2. [auction EXCEPT !.leadVendor = v, !.leadAmount = a] \in AuctionRow
    BY DEF TypeOK, AuctionRow
  <2>3. [vendor |-> v, amount |-> a, isLeading |-> TRUE, saw |-> auction.leadAmount] \in BidRow
    BY DEF TypeOK, AuctionRow, BidRow
  <2> QED
    BY <1>1, <2>1, <2>2, <2>3 DEF BidLoad, Continue, TypeOK, Session
<1>2. ASSUME NEW t \in Threads, ClearNow(t) PROVE TypeOK'
  BY <1>2, ClearTypes DEF ClearNow, Leaders
<1>3. ASSUME NEW t \in Threads, ClearWaits(t) PROVE TypeOK'
  <2>1. [sess[t] EXCEPT !.cleared = Leaders] \in Session
    BY DEF TypeOK, Session, Leaders
  <2> QED
    BY <1>3, <2>1 DEF ClearWaits, Continue, TypeOK
<1>4. ASSUME NEW t \in Threads, ClearAfter(t) PROVE TypeOK'
  BY <1>4, ClearTypes DEF ClearAfter, Leaders
<1>5. ASSUME NEW t \in Threads, BidCommit(t) PROVE TypeOK'
  <2>1. sess[t] \in Session
    BY DEF TypeOK
  <2>2. auction' \in AuctionRow
    BY <1>5, <2>1, MergeAuction DEF BidCommit, TypeOK, Session
  <2>3. bids' \in [Bids -> BidRow]
    BY <1>5, <2>1, Unflagged DEF BidCommit, TypeOK, Session
  <2> QED
    BY <1>5, <2>2, <2>3, FinishTypes DEF BidCommit, TypeOK
<1>6. ASSUME NEW t \in Threads, EditLoad(t) PROVE TypeOK'
  <2>1. PICK mine \in AuctionRow :
          Continue(t, "idle", "edit", [NoSession EXCEPT !.loaded = auction, !.mine = mine])
    BY <1>6, EditEffect
  <2>2. [NoSession EXCEPT !.loaded = auction, !.mine = mine] \in Session
    BY NullTypes DEF Session, NoSession, TypeOK
  <2> QED
    BY <1>6, <2>1, <2>2 DEF EditLoad, Continue, TypeOK
<1>7. ASSUME NEW t \in Threads, EditCommit(t) PROVE TypeOK'
  <2>1. sess[t] \in Session
    BY DEF TypeOK
  <2>2. auction' \in AuctionRow
    BY <1>7, <2>1, MergeAuction DEF EditCommit, TypeOK, Session
  <2> QED
    BY <1>7, <2>2, FinishTypes DEF EditCommit, TypeOK
<1>8. ASSUME NEW t \in Threads, Abort(t) PROVE TypeOK'
  BY <1>8, FinishTypes DEF Abort, TypeOK
<1>9. CASE UNCHANGED vars
  BY <1>9 DEF vars, TypeOK
<1> QED
  BY <1>1, <1>2, <1>3, <1>4, <1>5, <1>6, <1>7, <1>8, <1>9 DEF Next, Start, Step, Quiet

-----------------------------------------------------------------------------
(* What steps change *)

\* A step of one session leaves the others alone.
LEMMA OthersContinue ==
    ASSUME TypeOK, NEW t \in Threads, NEW from, NEW to, NEW session,
           Continue(t, from, to, session)
    PROVE  /\ pc[t] = from /\ pc'[t] = to /\ sess'[t] = session
           /\ \A u \in Threads \ {t} : pc'[u] = pc[u] /\ sess'[u] = sess[u]
BY DEF Continue, TypeOK

LEMMA OthersFinish ==
    ASSUME TypeOK, NEW t \in Threads, NEW from, Finish(t, from)
    PROVE  /\ pc[t] = from /\ pc'[t] = "idle" /\ sess'[t] = NoSession
           /\ \A u \in Threads \ {t} : pc'[u] = pc[u] /\ sess'[u] = sess[u]
BY OthersContinue DEF Finish

\* What is placed and who leads depends on the rows alone.
LEMMA SameBids ==
    ASSUME bids' = bids
    PROVE  /\ Placed' = Placed /\ Leaders' = Leaders
           /\ OneAfterTheOther' = OneAfterTheOther
BY DEF Placed, Leaders, OneAfterTheOther

\* A commit places the bid of the session and unflags those it has cleared; what other
\* bids say stays.
LEMMA CommitEffect ==
    ASSUME TypeOK, InsertsAreOwn, CopiesAreSound, NEW t \in Threads, BidCommit(t)
    PROVE  LET s == sess[t] IN
           /\ s \in Session /\ s.bid \in Bids /\ s.bid \notin Placed
           /\ bids'[s.bid] = s.row
           /\ Placed' = Placed \cup {s.bid}
           /\ Leaders' = (Leaders \ s.cleared) \cup {s.bid}
           /\ \A b \in Placed : /\ bids'[b].vendor = bids[b].vendor
                                /\ bids'[b].amount = bids[b].amount
                                /\ bids'[b].saw = bids[b].saw
           /\ auction' = Merge(auction, s.loaded, s.mine)
<1> DEFINE s == sess[t]
<1>1. pc[t] = "commit" /\ s \in Session
  BY OthersFinish DEF BidCommit, TypeOK
<1>2. Bidding(t)
  BY <1>1 DEF Bidding
<1>3. s.bid \in Bids /\ bids[s.bid] = NoBid
  BY <1>1, <1>2 DEF InsertsAreOwn, Session
<1>4. s.bid \notin Placed
  BY <1>3 DEF Placed
<1>5. /\ s.row \in BidRow /\ s.row.isLeading /\ s.row.saw \in Amounts \cup {0}
      /\ s.cleared \subseteq Bids
  BY <1>1, <1>2 DEF CopiesAreSound, Session, AuctionRow
<1>6. s.row # NoBid
  BY <1>5, AuctionAssumption DEF NoBid
<1>7. /\ bids' = [b \in Bids |-> IF b = s.bid THEN s.row
                                 ELSE IF b \in s.cleared THEN [bids[b] EXCEPT !.isLeading = FALSE]
                                 ELSE bids[b]]
      /\ auction' = Merge(auction, s.loaded, s.mine)
  BY DEF BidCommit
<1>8. \A b \in Bids : bids[b] \in BidRow
  BY DEF TypeOK
<1> HIDE DEF s
<1>9. \A b \in Bids \ {s.bid} :
         /\ bids'[b].vendor = bids[b].vendor /\ bids'[b].amount = bids[b].amount
         /\ bids'[b].saw = bids[b].saw
         /\ bids'[b].isLeading <=> bids[b].isLeading /\ b \notin s.cleared
  BY <1>7, <1>8 DEF BidRow
<1>10. \A b \in Bids \ {s.bid} : bids'[b] = NoBid <=> bids[b] = NoBid
  <2> SUFFICES ASSUME NEW b \in Bids \ {s.bid}
               PROVE  bids'[b] = NoBid <=> bids[b] = NoBid
    OBVIOUS
  <2>1. CASE b \notin s.cleared
    BY <1>7, <2>1
  <2>2. CASE b \in s.cleared
    BY <1>7, <1>8, <2>2, Unflagged
  <2> QED
    BY <2>1, <2>2
<1>11. Placed' = Placed \cup {s.bid}
  BY <1>3, <1>6, <1>7, <1>10 DEF Placed
<1>12. Leaders' = (Leaders \ s.cleared) \cup {s.bid}
  BY <1>3, <1>5, <1>7, <1>9 DEF Leaders
<1> QED
  BY <1>1, <1>3, <1>4, <1>7, <1>9, <1>11, <1>12 DEF s, Placed

\* A bid is loaded with an id that nobody uses and assigns itself to the auction.
LEMMA LoadEffect ==
    ASSUME TypeOK, NEW t \in Threads, NEW v, NEW a, BidLoad(t, v, a)
    PROVE  /\ pc[t] = "idle" /\ pc'[t] = "clear"
           /\ sess'[t].loaded = auction
           /\ sess'[t].mine = [auction EXCEPT !.leadVendor = v, !.leadAmount = a]
           /\ sess'[t].row.vendor = v /\ sess'[t].row.amount = a /\ sess'[t].row.isLeading
           /\ sess'[t].row.saw = auction.leadAmount
           /\ sess'[t].bid \in FreshBids
           /\ Acceptable(auction, a)
           /\ \A u \in Threads \ {t} : pc'[u] = pc[u] /\ sess'[u] = sess[u]
           /\ UNCHANGED <<auction, bids>>
<1> DEFINE new(b) == [loaded |-> auction,
                      mine |-> [auction EXCEPT !.leadVendor = v, !.leadAmount = a],
                      bid |-> b,
                      row |-> [vendor |-> v, amount |-> a, isLeading |-> TRUE,
                               saw |-> auction.leadAmount],
                      cleared |-> {}]
<1>1. PICK b \in FreshBids : Continue(t, "idle", "clear", new(b))
  BY DEF BidLoad
<1>2. Acceptable(auction, a) /\ UNCHANGED <<auction, bids>>
  BY DEF BidLoad
<1> HIDE DEF new
<1>3. /\ pc[t] = "idle" /\ pc'[t] = "clear" /\ sess'[t] = new(b)
      /\ \A u \in Threads \ {t} : pc'[u] = pc[u] /\ sess'[u] = sess[u]
  BY <1>1, OthersContinue
<1> QED
  BY <1>2, <1>3 DEF new

\* An edit is loaded with the lead as it is.
LEMMA EditCopies ==
    ASSUME TypeOK, NEW t \in Threads, EditLoad(t)
    PROVE  /\ pc[t] = "idle" /\ pc'[t] = "edit"
           /\ sess'[t].loaded = auction
           /\ sess'[t].mine.leadVendor = auction.leadVendor
           /\ sess'[t].mine.leadAmount = auction.leadAmount
           /\ "reserve" \notin Edits => sess'[t].mine.reserve = auction.reserve
           /\ sess'[t].bid = None
           /\ \A u \in Threads \ {t} : pc'[u] = pc[u] /\ sess'[u] = sess[u]
           /\ UNCHANGED <<auction, bids>>
<1> DEFINE new(mine) == [NoSession EXCEPT !.loaded = auction, !.mine = mine]
<1>1. PICK mine \in AuctionRow :
        /\ Continue(t, "idle", "edit", new(mine))
        /\ mine.leadVendor = auction.leadVendor /\ mine.leadAmount = auction.leadAmount
        /\ "reserve" \notin Edits => mine.reserve = auction.reserve
  BY EditEffect
<1>2. UNCHANGED <<auction, bids>>
  BY EditEffect
<1>3. /\ new(mine).loaded = auction /\ new(mine).mine = mine /\ new(mine).bid = None
  BY DEF NoSession
<1> HIDE DEF new
<1>4. /\ pc[t] = "idle" /\ pc'[t] = "edit" /\ sess'[t] = new(mine)
      /\ \A u \in Threads \ {t} : pc'[u] = pc[u] /\ sess'[u] = sess[u]
  BY <1>1, OthersContinue
<1> QED
  BY <1>1, <1>2, <1>3, <1>4

\* The UPDATE of the flags takes rows that still lead: all of them, unless it waited.
LEMMA ClearEffect ==
    ASSUME TypeOK, NEW t \in Threads, ClearNow(t) \/ ClearWaits(t) \/ ClearAfter(t)
    PROVE  /\ pc[t] \in {"clear", "wait"} /\ pc'[t] \in {"wait", "commit"}
           /\ sess'[t].loaded = sess[t].loaded /\ sess'[t].mine = sess[t].mine
           /\ sess'[t].bid = sess[t].bid /\ sess'[t].row = sess[t].row
           /\ (IF pc[t] = "clear" THEN Leaders ELSE Leaders \cap sess[t].cleared)
                \subseteq sess'[t].cleared
           /\ \A u \in Threads \ {t} : pc'[u] = pc[u] /\ sess'[u] = sess[u]
           /\ UNCHANGED <<auction, bids>>
<1>1. PICK rows : /\ sess'[t] = [sess[t] EXCEPT !.cleared = rows]
                  /\ pc[t] \in {"clear", "wait"} /\ pc'[t] \in {"wait", "commit"}
                  /\ (IF pc[t] = "clear" THEN Leaders ELSE Leaders \cap sess[t].cleared)
                       \subseteq rows
  <2>1. CASE ClearNow(t)
    <3>1. Continue(t, "clear", "commit", [sess[t] EXCEPT !.cleared = Leaders])
      BY <2>1 DEF ClearNow, Clear
    <3> QED
      BY <3>1, OthersContinue
  <2>2. CASE ClearWaits(t)
    <3>1. Continue(t, "clear", "wait", [sess[t] EXCEPT !.cleared = Leaders])
      BY <2>2 DEF ClearWaits
    <3> QED
      BY <3>1, OthersContinue
  <2>3. CASE ClearAfter(t)
    <3>1. Continue(t, "wait", "commit", [sess[t] EXCEPT !.cleared = sess[t].cleared \cap Leaders])
      BY <2>3 DEF ClearAfter, Clear
    <3>2. /\ pc[t] = "wait" /\ pc'[t] = "commit"
          /\ sess'[t] = [sess[t] EXCEPT !.cleared = sess[t].cleared \cap Leaders]
      BY <3>1, OthersContinue
    <3> QED
      BY <3>2
  <2> QED
    BY <2>1, <2>2, <2>3
<1>2. sess[t] \in Session
  BY DEF TypeOK
<1>3. /\ sess'[t].loaded = sess[t].loaded /\ sess'[t].mine = sess[t].mine
      /\ sess'[t].bid = sess[t].bid /\ sess'[t].row = sess[t].row
      /\ sess'[t].cleared = rows
  BY <1>1, <1>2 DEF Session
<1>4. \A u \in Threads \ {t} : pc'[u] = pc[u] /\ sess'[u] = sess[u]
  BY OthersContinue DEF ClearNow, ClearWaits, ClearAfter, Clear
<1>5. UNCHANGED <<auction, bids>>
  BY DEF ClearNow, ClearWaits, ClearAfter, Clear
<1> QED
  BY <1>1, <1>3, <1>4, <1>5

\* What one session does in a step.
LEMMA SessionSteps ==
    ASSUME TypeOK, [Next]_vars, NEW u \in Threads
    PROVE  \/ pc'[u] = pc[u] /\ sess'[u] = sess[u]
           \/ pc'[u] = "idle" /\ sess'[u] = NoSession
           \/ \E v \in Vendors \cup {None}, a \in Amounts : BidLoad(u, v, a)
           \/ ClearNow(u) \/ ClearWaits(u) \/ ClearAfter(u)
           \/ EditLoad(u)
<1>1. CASE UNCHANGED vars
  BY <1>1 DEF vars
<1>2. ASSUME NEW t \in Threads \ {u}, Start(t) \/ Step(t) \/ Abort(t)
      PROVE  pc'[u] = pc[u] /\ sess'[u] = sess[u]
  BY <1>2, EditCopies, LoadEffect, ClearEffect, OthersFinish
     DEF Start, Step, Abort, BidCommit, EditCommit
<1>3. ASSUME Start(u) \/ Step(u) \/ Abort(u)
      PROVE  \/ pc'[u] = "idle" /\ sess'[u] = NoSession
             \/ \E v \in Vendors \cup {None}, a \in Amounts : BidLoad(u, v, a)
             \/ ClearNow(u) \/ ClearWaits(u) \/ ClearAfter(u)
             \/ EditLoad(u)
  BY <1>3, OthersFinish DEF Start, Step, Abort, BidCommit, EditCommit
<1> QED
  BY <1>1, <1>2, <1>3 DEF Next, Quiet

\* Only the commit of a bid touches the bids and who leads.
LEMMA OnlyBidsLead ==
    ASSUME TypeOK, CopiesAreSound, [Next]_vars
    PROVE  \/ \E t \in Threads : BidCommit(t)
           \/ /\ bids' = bids
              /\ auction'.leadVendor = auction.leadVendor
              /\ auction'.leadAmount = auction.leadAmount
<1>1. ASSUME NEW t \in Threads, EditCommit(t)
      PROVE  /\ bids' = bids
             /\ auction'.leadVendor = auction.leadVendor
             /\ auction'.leadAmount = auction.leadAmount
  <2>1. pc[t] = "edit"
    BY <1>1, OthersFinish DEF EditCommit
  <2>2. /\ sess[t].mine.leadVendor = sess[t].loaded.leadVendor
        /\ sess[t].mine.leadAmount = sess[t].loaded.leadAmount
    BY <2>1 DEF CopiesAreSound
  <2> QED
    BY <1>1, <2>2, MergeColumns DEF EditCommit, TypeOK
<1> QED
  BY <1>1, EditCopies, LoadEffect, ClearEffect DEF Next, Quiet, vars, Start, Step, Abort

-----------------------------------------------------------------------------
(* Each part of the inductive invariant is kept *)

LEMMA KeepInsertsAreOwn ==
    ASSUME TypeOK, InsertsAreOwn, CopiesAreSound, [Next]_vars
    PROVE  InsertsAreOwn'
<1>1. ASSUME NEW t \in Threads, NEW v \in Vendors \cup {None}, NEW a \in Amounts, BidLoad(t, v, a)
      PROVE  InsertsAreOwn'
  <2>1. PICK b \in FreshBids : sess'[t].bid = b
    BY <1>1, LoadEffect
  <2>2. /\ pc'[t] = "clear" /\ bids' = bids
        /\ \A u \in Threads \ {t} : pc'[u] = pc[u] /\ sess'[u] = sess[u]
    BY <1>1, LoadEffect
  <2>3. b # None /\ bids[b] = NoBid /\ \A u \in Threads : sess[u].bid # b
    BY AuctionAssumption DEF FreshBids
  <2> QED
    BY <2>1, <2>2, <2>3 DEF InsertsAreOwn, Bidding
<1>2. ASSUME NEW t \in Threads, ClearNow(t) \/ ClearWaits(t) \/ ClearAfter(t)
      PROVE  InsertsAreOwn'
  BY <1>2, ClearEffect DEF InsertsAreOwn, Bidding
<1>3. ASSUME NEW t \in Threads, pc'[t] = "idle", sess'[t] = NoSession, bids' = bids,
             \A u \in Threads \ {t} : pc'[u] = pc[u] /\ sess'[u] = sess[u]
      PROVE  InsertsAreOwn'
  BY <1>3 DEF InsertsAreOwn, Bidding, NoSession
<1>4. ASSUME NEW t \in Threads, BidCommit(t)
      PROVE  InsertsAreOwn'
  <2>1. /\ pc'[t] = "idle" /\ sess'[t] = NoSession
        /\ \A u \in Threads \ {t} : pc'[u] = pc[u] /\ sess'[u] = sess[u]
    BY <1>4, OthersFinish DEF BidCommit
  <2>2. sess[t].bid \in Bids /\ Placed' = Placed \cup {sess[t].bid}
    BY <1>4, CommitEffect
  <2>3. sess[t].bid # None
    BY <2>2, AuctionAssumption
  <2>4. ASSUME NEW b \in Bids, b # sess[t].bid, bids[b] = NoBid PROVE bids'[b] = NoBid
    BY <2>2, <2>4 DEF Placed
  <2>5. ASSUME NEW u \in Threads \ {t}, sess[u].bid # None
        PROVE  sess[u].bid \in Bids /\ sess[u].bid # sess[t].bid /\ bids[sess[u].bid] = NoBid
    BY <2>3, <2>5 DEF InsertsAreOwn, TypeOK, Session
  <2> QED
    BY <2>1, <2>4, <2>5 DEF InsertsAreOwn, Bidding, NoSession
<1>5. ASSUME NEW t \in Threads, EditLoad(t)
      PROVE  InsertsAreOwn'
  BY <1>5, EditCopies DEF InsertsAreOwn, Bidding
<1>6. CASE UNCHANGED vars
  BY <1>6 DEF vars, InsertsAreOwn, Bidding
<1> QED
  BY <1>1, <1>2, <1>3, <1>4, <1>5, <1>6, OthersFinish
     DEF Next, Quiet, Start, Step, Abort, EditCommit

LEMMA KeepCopiesAreSound ==
    ASSUME TypeOK, CopiesAreSound, [Next]_vars
    PROVE  CopiesAreSound'
<1> DEFINE Sound(p, s) ==
        /\ p \in {"clear", "wait", "commit"} =>
             /\ s.mine = [s.loaded EXCEPT !.leadVendor = s.row.vendor, !.leadAmount = s.row.amount]
             /\ s.row.saw = s.loaded.leadAmount
             /\ s.row.isLeading
             /\ Acceptable(s.loaded, s.row.amount)
        /\ p = "edit" => /\ s.mine.leadVendor = s.loaded.leadVendor
                         /\ s.mine.leadAmount = s.loaded.leadAmount
<1>1. CopiesAreSound <=> \A u \in Threads : Sound(pc[u], sess[u])
  BY DEF CopiesAreSound, Bidding
<1>2. CopiesAreSound' <=> \A u \in Threads : Sound(pc'[u], sess'[u])
  BY DEF CopiesAreSound, Bidding
<1> SUFFICES ASSUME NEW u \in Threads PROVE Sound(pc'[u], sess'[u])
  BY <1>2
<1>3. ASSUME NEW v \in Vendors \cup {None}, NEW a \in Amounts, BidLoad(u, v, a)
      PROVE  Sound(pc'[u], sess'[u])
  <2>1. /\ pc'[u] = "clear"
        /\ sess'[u].loaded = auction
        /\ sess'[u].mine = [auction EXCEPT !.leadVendor = v, !.leadAmount = a]
        /\ sess'[u].row.vendor = v /\ sess'[u].row.amount = a /\ sess'[u].row.isLeading
        /\ sess'[u].row.saw = auction.leadAmount
        /\ Acceptable(auction, a)
    BY <1>3, LoadEffect
  <2>2. sess'[u].mine = [sess'[u].loaded EXCEPT !.leadVendor = sess'[u].row.vendor,
                                                !.leadAmount = sess'[u].row.amount]
    BY <2>1, Zenon
  <2> QED
    BY <2>1, <2>2
<1>4. CASE ClearNow(u) \/ ClearWaits(u) \/ ClearAfter(u)
  <2>1. /\ pc[u] \in {"clear", "wait"} /\ pc'[u] \in {"wait", "commit"}
        /\ sess'[u].loaded = sess[u].loaded /\ sess'[u].mine = sess[u].mine
        /\ sess'[u].row = sess[u].row
    BY <1>4, ClearEffect
  <2>2. Sound(pc[u], sess[u])
    BY <1>1
  <2> QED
    BY <2>1, <2>2
<1>5. CASE EditLoad(u)
  BY <1>5, EditCopies
<1>6. CASE pc'[u] = pc[u] /\ sess'[u] = sess[u]
  BY <1>1, <1>6
<1>7. CASE pc'[u] = "idle" /\ sess'[u] = NoSession
  BY <1>7
<1> QED
  BY <1>3, <1>4, <1>5, <1>6, <1>7, SessionSteps

LEMMA KeepFirstSawNone ==
    ASSUME TypeOK, InsertsAreOwn, CopiesAreSound, FirstSawNone, [Next]_vars
    PROVE  FirstSawNone'
<1>1. ASSUME NEW t \in Threads, BidCommit(t) PROVE FirstSawNone'
  <2>1. /\ sess[t].bid \in Bids /\ bids'[sess[t].bid] = sess[t].row
        /\ Placed' = Placed \cup {sess[t].bid}
        /\ \A b \in Placed : bids'[b].saw = bids[b].saw
    BY <1>1, CommitEffect
  <2>2. CASE Placed = {}
    <3>1. pc[t] = "commit"
      BY <1>1, OthersFinish DEF BidCommit
    <3>2. sess[t].row.saw = 0
      BY <2>2, <3>1 DEF FirstSawNone, CopiesAreSound, Bidding
    <3> QED
      BY <2>1, <3>2 DEF FirstSawNone
  <2>3. CASE Placed # {}
    BY <2>1, <2>3 DEF FirstSawNone
  <2> QED
    BY <2>2, <2>3
<1>2. CASE /\ bids' = bids
           /\ auction'.leadVendor = auction.leadVendor
           /\ auction'.leadAmount = auction.leadAmount
  <2>1. Placed' = Placed
    BY <1>2, SameBids
  <2>2. ASSUME Placed = {}, NEW u \in Threads, pc'[u] # "idle"
        PROVE  sess'[u].loaded.leadVendor = None /\ sess'[u].loaded.leadAmount = 0
    <3>1. CASE pc'[u] = pc[u] /\ sess'[u] = sess[u]
      BY <2>2, <3>1 DEF FirstSawNone
    <3>2. CASE ClearNow(u) \/ ClearWaits(u) \/ ClearAfter(u)
      <4>1. pc[u] \in {"clear", "wait"} /\ sess'[u].loaded = sess[u].loaded
        BY <3>2, ClearEffect
      <4> QED
        BY <2>2, <4>1 DEF FirstSawNone
    <3>3. CASE EditLoad(u)
      BY <2>2, <3>3, EditCopies DEF FirstSawNone
    <3>4. ASSUME NEW v \in Vendors \cup {None}, NEW a \in Amounts, BidLoad(u, v, a)
          PROVE  sess'[u].loaded = auction
      BY <3>4, LoadEffect
    <3> QED
      BY <2>2, <3>1, <3>2, <3>3, <3>4, SessionSteps DEF FirstSawNone
  <2> QED
    BY <1>2, <2>1, <2>2 DEF FirstSawNone
<1> QED
  BY <1>1, <1>2, OnlyBidsLead

\* What a commit makes of the lead: its own bid, unless that equals what it loaded.
LEMMA CommitLead ==
    ASSUME TypeOK, InsertsAreOwn, CopiesAreSound, NEW t \in Threads, BidCommit(t)
    PROVE  LET s == sess[t] IN
           /\ auction'.leadVendor = IF s.row.vendor = s.loaded.leadVendor
                                    THEN auction.leadVendor ELSE s.row.vendor
           /\ auction'.leadAmount = IF s.row.amount = s.loaded.leadAmount
                                    THEN auction.leadAmount ELSE s.row.amount
           /\ auction'.reserve = IF s.mine.reserve = s.loaded.reserve
                                 THEN auction.reserve ELSE s.mine.reserve
           /\ s.row.saw = s.loaded.leadAmount /\ Acceptable(s.loaded, s.row.amount)
           /\ pc[t] = "commit" /\ pc'[t] = "idle"
<1> DEFINE s == sess[t]
<1>1. pc[t] = "commit" /\ pc'[t] = "idle"
  BY OthersFinish DEF BidCommit
<1>2. /\ s.mine = [s.loaded EXCEPT !.leadVendor = s.row.vendor, !.leadAmount = s.row.amount]
      /\ s.row.saw = s.loaded.leadAmount /\ Acceptable(s.loaded, s.row.amount)
  BY <1>1 DEF CopiesAreSound, Bidding
<1>3. s.loaded \in AuctionRow
  BY CommitEffect DEF Session
<1>4. s.mine.leadVendor = s.row.vendor /\ s.mine.leadAmount = s.row.amount
  BY <1>2, <1>3 DEF AuctionRow
<1>5. auction \in AuctionRow /\ auction' = Merge(auction, s.loaded, s.mine)
  BY CommitEffect DEF TypeOK
<1> HIDE DEF s
<1>6. /\ auction'.leadVendor = IF s.mine.leadVendor = s.loaded.leadVendor
                               THEN auction.leadVendor ELSE s.mine.leadVendor
      /\ auction'.leadAmount = IF s.mine.leadAmount = s.loaded.leadAmount
                               THEN auction.leadAmount ELSE s.mine.leadAmount
      /\ auction'.reserve = IF s.mine.reserve = s.loaded.reserve
                            THEN auction.reserve ELSE s.mine.reserve
  BY <1>5, MergeColumns
<1> QED
  BY <1>1, <1>2, <1>4, <1>6 DEF s

LEMMA KeepLeadWasBid ==
    ASSUME TypeOK, InsertsAreOwn, CopiesAreSound, FirstSawNone, LeadWasBid, [Next]_vars
    PROVE  LeadWasBid'
<1>1. ASSUME NEW t \in Threads, BidCommit(t) PROVE LeadWasBid'
  <2>1. /\ sess[t].bid \in Bids /\ bids'[sess[t].bid] = sess[t].row
        /\ Placed' = Placed \cup {sess[t].bid}
        /\ \A b \in Placed : bids'[b].vendor = bids[b].vendor /\ bids'[b].amount = bids[b].amount
    BY <1>1, CommitEffect
  <2>2. /\ auction'.leadVendor = IF sess[t].row.vendor = sess[t].loaded.leadVendor
                                 THEN auction.leadVendor ELSE sess[t].row.vendor
        /\ auction'.leadAmount = IF sess[t].row.amount = sess[t].loaded.leadAmount
                                 THEN auction.leadAmount ELSE sess[t].row.amount
        /\ pc[t] = "commit"
    BY <1>1, CommitLead
  <2>3. CASE Placed = {}
    <3>1. /\ auction.leadVendor = sess[t].loaded.leadVendor
          /\ auction.leadAmount = sess[t].loaded.leadAmount
      BY <2>2, <2>3 DEF FirstSawNone
    <3> QED
      BY <2>1, <2>2, <3>1 DEF LeadWasBid
  <2>4. CASE Placed # {}
    BY <2>1, <2>2, <2>4 DEF LeadWasBid
  <2> QED
    BY <2>3, <2>4
<1>2. CASE /\ bids' = bids
           /\ auction'.leadVendor = auction.leadVendor
           /\ auction'.leadAmount = auction.leadAmount
  BY <1>2, SameBids DEF LeadWasBid
<1> QED
  BY <1>1, <1>2, OnlyBidsLead

\* A bid that undercuts one within the reserve is within it.
LEMMA AcceptableIsWithin ==
    ASSUME TypeOK, LeadWasBid, FirstSawNone, WithinReserve, NEW a \in Amounts,
           Acceptable(auction, a)
    PROVE  a <= auction.reserve
<1>1. /\ auction.leadAmount \in Nat /\ auction.step \in Nat /\ auction.reserve \in Nat
      /\ a \in Nat
  BY Numbers DEF TypeOK
<1>2. CASE auction.leadAmount > 0
  <2>1. Placed # {}
    BY <1>1, <1>2 DEF FirstSawNone
  <2>2. auction.leadAmount <= auction.reserve
    BY <2>1 DEF LeadWasBid, WithinReserve
  <2> QED
    BY <1>1, <1>2, <2>2 DEF Acceptable
<1> QED
  BY <1>2 DEF Acceptable

LEMMA KeepReserve ==
    ASSUME TypeOK, InsertsAreOwn, CopiesAreSound, FirstSawNone, LeadWasBid, [Next]_vars,
           "reserve" \notin Edits, ReserveIsKept
    PROVE  ReserveIsKept'
<1>1. auction'.reserve = auction.reserve
  <2>1. ASSUME NEW t \in Threads, BidCommit(t) PROVE auction'.reserve = auction.reserve
    BY <2>1, CommitLead DEF ReserveIsKept
  <2>2. ASSUME NEW t \in Threads, EditCommit(t) PROVE auction'.reserve = auction.reserve
    <3>1. pc[t] = "edit"
      BY <2>2, OthersFinish DEF EditCommit
    <3> QED
      BY <2>2, <3>1, MergeColumns DEF EditCommit, TypeOK, ReserveIsKept
  <2> QED
    BY <2>1, <2>2, EditCopies, LoadEffect, ClearEffect DEF Next, Quiet, vars, Start, Step, Abort
<1>2. ASSUME NEW u \in Threads, pc'[u] # "idle"
      PROVE  /\ sess'[u].loaded.reserve = auction.reserve /\ sess'[u].mine.reserve = auction.reserve
             /\ Bidding(u)' => sess'[u].row.amount <= auction.reserve
  <2>1. CASE pc'[u] = pc[u] /\ sess'[u] = sess[u]
    BY <1>2, <2>1 DEF ReserveIsKept, Bidding
  <2>2. CASE ClearNow(u) \/ ClearWaits(u) \/ ClearAfter(u)
    <3>1. /\ pc[u] \in {"clear", "wait"} /\ sess'[u].loaded = sess[u].loaded
          /\ sess'[u].mine = sess[u].mine /\ sess'[u].row = sess[u].row
      BY <2>2, ClearEffect
    <3> QED
      BY <3>1 DEF ReserveIsKept, Bidding
  <2>3. CASE EditLoad(u)
    BY <2>3, EditCopies DEF Bidding
  <2>4. ASSUME NEW v \in Vendors \cup {None}, NEW a \in Amounts, BidLoad(u, v, a)
        PROVE  /\ sess'[u].loaded.reserve = auction.reserve
               /\ sess'[u].mine.reserve = auction.reserve
               /\ sess'[u].row.amount <= auction.reserve
    <3>1. /\ sess'[u].loaded = auction
          /\ sess'[u].mine = [auction EXCEPT !.leadVendor = v, !.leadAmount = a]
          /\ sess'[u].row.amount = a /\ Acceptable(auction, a)
      BY <2>4, LoadEffect
    <3>2. a <= auction.reserve
      BY <3>1, AcceptableIsWithin DEF ReserveIsKept
    <3> QED
      BY <3>1, <3>2 DEF TypeOK, AuctionRow
  <2> QED
    BY <1>2, <2>1, <2>2, <2>3, <2>4, SessionSteps
<1>3. WithinReserve'
  <2>1. ASSUME NEW t \in Threads, BidCommit(t) PROVE WithinReserve'
    <3>1. /\ sess[t].bid \in Bids /\ bids'[sess[t].bid] = sess[t].row
          /\ Placed' = Placed \cup {sess[t].bid}
          /\ \A b \in Placed : bids'[b].amount = bids[b].amount
      BY <2>1, CommitEffect
    <3>2. sess[t].row.amount <= auction.reserve
      BY <2>1, CommitLead DEF ReserveIsKept, Bidding
    <3> QED
      BY <1>1, <3>1, <3>2 DEF WithinReserve, ReserveIsKept
  <2>2. CASE bids' = bids
    BY <1>1, <2>2, SameBids DEF WithinReserve, ReserveIsKept
  <2> QED
    BY <2>1, <2>2, OnlyBidsLead
<1> QED
  BY <1>1, <1>2, <1>3 DEF ReserveIsKept

LEMMA KeepLeadersHaveOwners ==
    ASSUME TypeOK, InsertsAreOwn, CopiesAreSound, LeadersHaveOwners, [Next]_vars
    PROVE  LeadersHaveOwners'
<1>1. PICK owner \in [Leaders -> Threads] :
        /\ \A b, c \in Leaders : owner[b] = owner[c] => b = c
        /\ \A b \in Leaders : pc[owner[b]] \in {"wait", "commit"} => b \in sess[owner[b]].cleared
  BY DEF LeadersHaveOwners
<1>2. ASSUME NEW t \in Threads, BidCommit(t) PROVE LeadersHaveOwners'
  <2> DEFINE id == sess[t].bid
             heir == [b \in Leaders' |-> IF b = id THEN t ELSE owner[b]]
  <2>1. Leaders' = (Leaders \ sess[t].cleared) \cup {id} /\ id \notin Leaders
    BY <1>2, CommitEffect, LeadersArePlaced
  <2>2. /\ pc[t] = "commit" /\ pc'[t] = "idle"
        /\ \A u \in Threads \ {t} : pc'[u] = pc[u] /\ sess'[u] = sess[u]
    BY <1>2, OthersFinish DEF BidCommit
  <2>3. \A b \in Leaders' \ {id} : b \in Leaders /\ owner[b] \in Threads \ {t}
    BY <1>1, <2>1, <2>2
  <2> HIDE DEF id
  <2>4. heir \in [Leaders' -> Threads]
    BY <2>3
  <2>5. /\ \A b, c \in Leaders' : heir[b] = heir[c] => b = c
        /\ \A b \in Leaders' : pc'[heir[b]] \in {"wait", "commit"} => b \in sess'[heir[b]].cleared
    BY <1>1, <2>2, <2>3
  <2> HIDE DEF heir
  <2> QED
    BY <2>4, <2>5 DEF LeadersHaveOwners
<1>3. CASE bids' = bids
  <2>1. Leaders' = Leaders
    BY <1>3, SameBids
  <2>2. ASSUME NEW b \in Leaders, pc'[owner[b]] \in {"wait", "commit"}
        PROVE  b \in sess'[owner[b]].cleared
    <3> DEFINE u == owner[b]
    <3>1. u \in Threads
      BY <1>1
    <3>2. pc[u] \in {"wait", "commit"} => b \in sess[u].cleared
      BY <1>1
    <3> HIDE DEF u
    <3>3. CASE ClearNow(u) \/ ClearWaits(u) \/ ClearAfter(u)
      <4>1. /\ pc[u] \in {"clear", "wait"}
            /\ (IF pc[u] = "clear" THEN Leaders ELSE Leaders \cap sess[u].cleared)
                 \subseteq sess'[u].cleared
        BY <3>1, <3>3, ClearEffect
      <4> QED
        BY <3>2, <4>1 DEF u
    <3>4. CASE pc'[u] = pc[u] /\ sess'[u] = sess[u]
      BY <2>2, <3>2, <3>4 DEF u
    <3>5. CASE ~(pc'[u] \in {"wait", "commit"})
      BY <2>2, <3>5 DEF u
    <3>6. ASSUME NEW v \in Vendors \cup {None}, NEW a \in Amounts, BidLoad(u, v, a)
          PROVE  pc'[u] = "clear"
      BY <3>1, <3>6, LoadEffect
    <3>7. EditLoad(u) => pc'[u] = "edit"
      BY <3>1, EditCopies
    <3> QED
      BY <3>1, <3>3, <3>4, <3>5, <3>6, <3>7, SessionSteps DEF u
  <2>3. owner \in [Leaders' -> Threads]
    BY <2>1
  <2> QED
    BY <1>1, <2>1, <2>2, <2>3 DEF LeadersHaveOwners
<1> QED
  BY <1>2, <1>3, OnlyBidsLead

\* A commit that leaves the bids one after the other was the last one: its bid was
\* unseen, and they were one after the other before.
LEMMA CommitInTurn ==
    ASSUME TypeOK, InsertsAreOwn, CopiesAreSound, NEW t \in Threads, BidCommit(t),
           OneAfterTheOther'
    PROVE  OneAfterTheOther /\ Unseen(t) /\ Bidding(t)
<1>1. /\ sess[t].bid \notin Placed /\ bids'[sess[t].bid] = sess[t].row
      /\ Placed' = Placed \cup {sess[t].bid}
      /\ \A b \in Placed : bids'[b].saw = bids[b].saw
  BY CommitEffect
<1>2. Bidding(t)
  BY CommitLead DEF Bidding
<1> QED
  BY <1>1, <1>2 DEF OneAfterTheOther, Unseen

LEMMA KeepInTurn ==
    ASSUME TypeOK, InsertsAreOwn, CopiesAreSound, InTurn, [Next]_vars
    PROVE  InTurn'
<1>1. ASSUME NEW t \in Threads, BidCommit(t) PROVE InTurn'
  <2> SUFFICES ASSUME OneAfterTheOther', NEW u \in Threads, Bidding(u)', Unseen(u)'
               PROVE  FALSE
    BY DEF InTurn
  <2>1. OneAfterTheOther /\ Unseen(t) /\ Bidding(t)
    BY <1>1, CommitInTurn
  <2>2. u # t
    BY <1>1, CommitLead DEF Bidding
  <2>3. pc'[u] = pc[u] /\ sess'[u] = sess[u]
    BY <1>1, <2>2, OthersFinish DEF BidCommit
  <2>4. Bidding(u)
    BY <2>3 DEF Bidding
  <2>5. /\ bids'[sess[t].bid] = sess[t].row
        /\ Placed' = Placed \cup {sess[t].bid}
        /\ \A b \in Placed : bids'[b].saw = bids[b].saw
    BY <1>1, CommitEffect
  <2>6. Unseen(u) /\ sess[u].row.saw # sess[t].row.saw
    BY <2>3, <2>5 DEF Unseen
  <2>7. sess[u].loaded.leadAmount = auction.leadAmount
        /\ sess[t].loaded.leadAmount = auction.leadAmount
    BY <2>1, <2>4, <2>6 DEF InTurn
  <2> QED
    BY <2>1, <2>4, <2>6, <2>7 DEF CopiesAreSound
<1>2. CASE /\ bids' = bids
           /\ auction'.leadVendor = auction.leadVendor
           /\ auction'.leadAmount = auction.leadAmount
  <2> SUFFICES ASSUME OneAfterTheOther, NEW u \in Threads, Bidding(u)', Unseen(u)'
               PROVE  /\ sess'[u].loaded.leadVendor = auction.leadVendor
                      /\ sess'[u].loaded.leadAmount = auction.leadAmount
                      /\ pc'[u] \in {"wait", "commit"} => Leaders \subseteq sess'[u].cleared
    BY <1>2, SameBids DEF InTurn
  <2>1. CASE pc'[u] = pc[u] /\ sess'[u] = sess[u]
    <3>1. Bidding(u) /\ Unseen(u)
      BY <1>2, <2>1, SameBids DEF Bidding, Unseen
    <3> QED
      BY <2>1, <3>1 DEF InTurn
  <2>2. CASE ClearNow(u) \/ ClearWaits(u) \/ ClearAfter(u)
    <3>1. /\ pc[u] \in {"clear", "wait"} /\ sess'[u].loaded = sess[u].loaded
          /\ sess'[u].row = sess[u].row
          /\ (IF pc[u] = "clear" THEN Leaders ELSE Leaders \cap sess[u].cleared)
               \subseteq sess'[u].cleared
      BY <2>2, ClearEffect
    <3>2. Bidding(u) /\ Unseen(u)
      BY <1>2, <3>1, SameBids DEF Bidding, Unseen
    <3> QED
      BY <3>1, <3>2 DEF InTurn
  <2>3. CASE pc'[u] \in {"idle", "edit"}
    BY <2>3 DEF Bidding
  <2>4. ASSUME NEW v \in Vendors \cup {None}, NEW a \in Amounts, BidLoad(u, v, a)
        PROVE  pc'[u] = "clear" /\ sess'[u].loaded = auction
    BY <2>4, LoadEffect
  <2>5. EditLoad(u) => pc'[u] = "edit"
    BY EditCopies
  <2> QED
    BY <2>1, <2>2, <2>3, <2>4, <2>5, SessionSteps
<1> QED
  BY <1>1, <1>2, OnlyBidsLead

LEMMA KeepLowestLeads ==
    ASSUME TypeOK, InsertsAreOwn, CopiesAreSound, FirstSawNone, InTurn, LowestLeads, [Next]_vars
    PROVE  LowestLeads'
<1>1. ASSUME NEW t \in Threads, BidCommit(t), OneAfterTheOther' PROVE LowestLeads'
  <2> DEFINE s == sess[t]
             id == sess[t].bid
  <2>1. /\ s \in Session /\ id \notin Placed /\ bids'[id] = s.row
        /\ Placed' = Placed \cup {id}
        /\ Leaders' = (Leaders \ s.cleared) \cup {id}
        /\ \A b \in Placed : bids'[b].amount = bids[b].amount
    BY <1>1, CommitEffect
  <2>2. OneAfterTheOther /\ Unseen(t) /\ Bidding(t) /\ pc[t] = "commit"
    BY <1>1, CommitInTurn, CommitLead
  <2>3. /\ s.loaded.leadVendor = auction.leadVendor /\ s.loaded.leadAmount = auction.leadAmount
        /\ Leaders \subseteq s.cleared
    BY <2>2 DEF InTurn
  <2>4. auction'.leadVendor = s.row.vendor /\ auction'.leadAmount = s.row.amount
    BY <1>1, <2>3, CommitLead
  <2>5. Leaders' = {id}
    BY <2>1, <2>3
  <2>6. ASSUME NEW c \in Placed PROVE s.row.amount <= bids[c].amount
    <3>1. PICK b \in Leaders : /\ \A d \in Placed \ {b} : bids[b].amount <= bids[d].amount
                               /\ auction.leadAmount = bids[b].amount
      BY <2>2 DEF LowestLeads
    <3>2. /\ s.row.saw = s.loaded.leadAmount /\ Acceptable(s.loaded, s.row.amount)
      BY <1>1, CommitLead
    <3>3. s.loaded.leadAmount # 0
      BY <2>2, <3>2 DEF FirstSawNone, Unseen
    <3>4. /\ s.loaded.leadAmount \in Nat /\ s.loaded.step \in Nat /\ bids[b].amount \in Nat
          /\ bids[c].amount \in Nat /\ s.row.amount \in Nat
      <4>1. /\ s.loaded \in AuctionRow /\ s.row \in BidRow
            /\ bids[b] \in BidRow /\ bids[c] \in BidRow
        BY <2>1 DEF TypeOK, Session, Leaders, Placed
      <4> HIDE DEF s
      <4> QED
        BY <4>1, Numbers
    <3>5. bids[b].amount <= bids[c].amount
      BY <3>1, <3>4
    <3>6. s.row.amount <= s.loaded.leadAmount - s.loaded.step
      BY <3>2, <3>3, <3>4 DEF Acceptable
    <3> HIDE DEF s
    <3> QED
      BY <2>3, <3>1, <3>4, <3>5, <3>6
  <2> HIDE DEF s, id
  <2> QED
    BY <2>1, <2>4, <2>5, <2>6 DEF LowestLeads
<1>2. CASE /\ bids' = bids
           /\ auction'.leadVendor = auction.leadVendor
           /\ auction'.leadAmount = auction.leadAmount
  BY <1>2, SameBids DEF LowestLeads
<1> QED
  BY <1>1, <1>2, OnlyBidsLead DEF LowestLeads

-----------------------------------------------------------------------------
(* The invariant *)

LEMMA InitIInv == Init => IInv
<1> SUFFICES ASSUME Init PROVE IInv
  OBVIOUS
<1>1. /\ auction \in NewAuction
      /\ \A b \in Bids : bids[b] = NoBid /\ ~bids[b].isLeading
      /\ \A t \in Threads : pc[t] = "idle" /\ sess[t] = NoSession
  BY DEF Init, NoBid
<1>2. auction \in AuctionRow /\ auction.leadVendor = None /\ auction.leadAmount = 0
  BY <1>1 DEF NewAuction, AuctionRow
<1>3. TypeOK
  BY <1>2, NullTypes DEF Init, TypeOK
<1>4. Placed = {} /\ Leaders = {}
  BY <1>1 DEF Placed, Leaders
<1>5. InsertsAreOwn
  BY <1>1 DEF InsertsAreOwn, Bidding, NoSession
<1>6. CopiesAreSound
  BY <1>1 DEF CopiesAreSound, Bidding
<1>7. FirstSawNone
  BY <1>1, <1>2, <1>4 DEF FirstSawNone
<1>8. LeadWasBid /\ LowestLeads
  BY <1>4 DEF LeadWasBid, LowestLeads
<1>9. ReserveIsKept
  BY <1>1, <1>4 DEF ReserveIsKept, WithinReserve
<1>10. LeadersHaveOwners
  <2>1. [b \in {} |-> None] \in [Leaders -> Threads]
    BY <1>4
  <2> QED
    BY <1>4, <2>1 DEF LeadersHaveOwners
<1>11. InTurn
  BY <1>1 DEF InTurn, Bidding
<1> QED
  BY <1>3, <1>5, <1>6, <1>7, <1>8, <1>9, <1>10, <1>11 DEF IInv

LEMMA StepIInv == IInv /\ [Next]_vars => IInv'
<1> SUFFICES ASSUME IInv, [Next]_vars PROVE IInv'
  OBVIOUS
<1>2. TypeOK' /\ InsertsAreOwn' /\ CopiesAreSound' /\ FirstSawNone' /\ LeadWasBid'
  BY StepTypeOK, KeepInsertsAreOwn, KeepCopiesAreSound, KeepFirstSawNone, KeepLeadWasBid DEF IInv
<1>3. "reserve" \notin Edits => ReserveIsKept'
  BY KeepReserve DEF IInv
<1>4. LeadersHaveOwners' /\ InTurn' /\ LowestLeads'
  BY KeepLeadersHaveOwners, KeepInTurn, KeepLowestLeads DEF IInv
<1> QED
  BY <1>2, <1>3, <1>4 DEF IInv

\* The inductive invariant holds in every reachable state, for any number of bids,
\* vendors, amounts and threads, and whichever columns PATCH may edit.
THEOREM Invariance == Spec => []IInv
BY InitIInv, StepIInv, PTL DEF Spec

\* Every variable keeps its type; in particular no bid is ever inserted without an
\* amount and a leading amount it was validated against.
THEOREM TypeCorrect == Spec => []TypeOK
<1>1. IInv => TypeOK
  BY DEF IInv
<1> QED
  BY <1>1, Invariance, PTL

\* The lead on the auction always names the amount of a bid and the vendor of a bid,
\* although two commits may each write one of the two columns (auction_routes.py).
THEOREM LeadIsBid == Spec => []LeadWasBid
<1>1. IInv => LeadWasBid
  BY DEF IInv
<1> QED
  BY <1>1, Invariance, PTL

\* No bid exceeds the reserve price if PATCH does not edit that price, however the
\* requests interleave: each bid is validated against an amount that was within it.
THEOREM BidsWithinReserve ==
    ASSUME "reserve" \notin Edits
    PROVE  Spec => []WithinReserve
<1>1. IInv => WithinReserve
  BY DEF IInv, ReserveIsKept
<1> QED
  BY <1>1, Invariance, PTL

\* At most one bid per thread leads at a time.
THEOREM FewLead == Spec => []LeadersAreFew
<1>1. ASSUME IInv PROVE LeadersAreFew
  <2>1. PICK owner \in [Leaders -> Threads] :
               \A b, c \in Leaders : owner[b] = owner[c] => b = c
    BY <1>1 DEF IInv, LeadersHaveOwners
  <2>2. owner \in Injection(Leaders, Threads)
    BY <2>1 DEF Injection, IsInjective
  <2>3. IsFiniteSet(Threads)
    BY AuctionAssumption
  <2>4. Cardinality(Leaders) <= Cardinality(Threads)
    BY <2>2, <2>3, FS_Injection DEF ExistsInjection
  <2> QED
    BY <2>4 DEF LeadersAreFew
<1> QED
  BY <1>1, Invariance, PTL

\* Bids that were validated one after the other leave one leader: the lowest bid, which
\* the auction names.
THEOREM OneAfterTheOtherLeads == Spec => []LowestLeads
<1>1. IInv => LowestLeads
  BY DEF IInv
<1> QED
  BY <1>1, Invariance, PTL
=============================================================================
