---------------------------- MODULE ReverseAuction ----------------------------
(***************************************************************************)
(* Bidding in one reverse auction (auction_routes.py) while the generic    *)
(* PATCH route (crud.py) edits it.  Handlers run on threads, each with a   *)
(* session and a transaction of its own, as in DocumentPipeline.           *)
(*                                                                         *)
(* Amounts are whole numbers of the smallest unit.  That an auction is     *)
(* archived is left out: bidding does not look at it.                      *)
(***************************************************************************)
EXTENDS Integers, FiniteSets, UnitOfWork

CONSTANTS
    Bids,     \* ids of auction_bids rows, numbered by a sequence
    Vendors,
    Amounts,  \* what vendors may bid, and what reserve prices may be
    Steps,    \* decrement steps
    Threads,
    Edits,    \* the columns that PATCH may change in this instance
    Faults,   \* TRUE if a request may die half way
    None

ASSUME AuctionAssumption ==
    /\ Bids \subseteq Nat /\ Amounts \subseteq Nat /\ Steps \subseteq Nat
    /\ None \notin Bids \cup Vendors \cup Threads \cup Amounts \cup {0}
    /\ IsFiniteSet(Threads)
    /\ Edits \subseteq {"status", "reserve", "step"}
    /\ Faults \in BOOLEAN

VARIABLES
    auction, \* committed row of reverse_auctions
    bids,    \* committed rows of auction_bids
    bidLock, \* row locks of open transactions on bids
    pc, sess

vars == <<auction, bids, bidLock, pc, sess>>

\* To bidding, a scheduled, a closed and a cancelled auction are alike: inactive.
\* leadAmount 0 stands for: no bid yet.
AuctionRow == [status : {"active", "inactive"},
               reserve : Amounts \cup {0}, step : Steps \cup {0},
               leadVendor : Vendors \cup {None}, leadAmount : Amounts \cup {0}]
NoAuction == [status |-> "inactive", reserve |-> 0, step |-> 0,
              leadVendor |-> None, leadAmount |-> 0]

NoBid == [vendor |-> None, amount |-> 0, isLeading |-> FALSE, saw |-> None]

\* `saw' is no column but what the properties need: the leading amount that the bid
\* was validated against.
BidRow == [vendor : Vendors \cup {None}, amount : Amounts \cup {0}, isLeading : BOOLEAN,
           saw : Amounts \cup {0}] \cup {NoBid}

\* The auction as loaded and as assigned to, the bid to be inserted, and the bids
\* the transaction is clearing the flag of.
Session == [loaded : AuctionRow, mine : AuctionRow, bid : Bids \cup {None},
            row : BidRow, cleared : SUBSET Bids]
NoSession == [loaded |-> NoAuction, mine |-> NoAuction, bid |-> None, row |-> NoBid,
              cleared |-> {}]

NewAuction == [status : {"active", "inactive"}, reserve : Amounts, step : Steps,
               leadVendor : {None}, leadAmount : {0}]

Placed == {b \in Bids : bids[b] # NoBid}
Leaders == {b \in Bids : bids[b].isLeading}

TypeOK ==
    /\ auction \in AuctionRow
    /\ bids \in [Bids -> BidRow]
    /\ bidLock \in [Bids -> Threads \cup {None}]
    /\ pc \in [Threads -> {"idle", "clear", "wait", "commit", "edit"}]
    /\ sess \in [Threads -> Session]

Init ==
    /\ auction \in NewAuction
    /\ bids = [b \in Bids |-> NoBid]
    /\ bidLock = [b \in Bids |-> None]
    /\ pc = [t \in Threads |-> "idle"]
    /\ sess = [t \in Threads |-> NoSession]

-----------------------------------------------------------------------------
(* Sessions *)

Continue(t, from, to, session) ==
    /\ pc[t] = from
    /\ pc' = [pc EXCEPT ![t] = to]
    /\ sess' = [sess EXCEPT ![t] = session]

\* commit or rollback, and the end of the request.
Finish(t, from) ==
    /\ Continue(t, from, "idle", NoSession)
    /\ bidLock' = Released(bidLock, t, None)

\* The sequence never yields an id that is in use.
FreshBids == {b \in Bids : bids[b] = NoBid /\ \A t \in Threads : sess[t].bid # b}
IsNextBid(b) == b \in FreshBids /\ \A c \in FreshBids : b <= c

-----------------------------------------------------------------------------
(* POST /{id}/bids *)

\* Mutants: the leading amount is forgotten; so is the reserve price.
AcceptableAnyway(row, amount) == amount <= row.reserve
AcceptableFirst(row, amount) ==
    IF row.leadAmount > 0 THEN amount <= row.leadAmount - row.step ELSE TRUE

\* Lower than the leading amount by the step; the first bid within the reserve.
Acceptable(row, amount) ==
    IF row.leadAmount > 0 THEN amount <= row.leadAmount - row.step ELSE amount <= row.reserve

\* 400 unless the auction, as loaded, is active and the bid acceptable.
BidLoad(t, vendor, amount) ==
    /\ auction.status = "active"
    /\ Acceptable(auction, amount)
    /\ \E b \in FreshBids :
         /\ IsNextBid(b)
         /\ Continue(t, "idle", "clear",
                     [loaded |-> auction,
                      mine |-> [auction EXCEPT !.leadVendor = vendor, !.leadAmount = amount],
                      bid |-> b,
                      row |-> [vendor |-> vendor, amount |-> amount, isLeading |-> TRUE,
                               saw |-> auction.leadAmount],
                      cleared |-> {}])
    /\ UNCHANGED <<auction, bids, bidLock>>

AvailableBids(t, rows) == \A b \in rows : Available(bidLock[b], t, None)

Clear(t, from, rows) ==
    /\ Continue(t, from, "commit", [sess[t] EXCEPT !.cleared = rows])
    /\ bidLock' = [b \in Bids |-> IF b \in rows THEN t ELSE bidLock[b]]
    /\ UNCHANGED <<auction, bids>>

\* Mutant: no flag is cleared.
ClearNothing(t) == Clear(t, "clear", {})

\* UPDATE ... SET is_leading = false WHERE is_leading, then the INSERT.
ClearNow(t) == AvailableBids(t, Leaders) /\ Clear(t, "clear", Leaders)

\* Another transaction holds one of the rows: the UPDATE waits for it with the rows
\* its snapshot has ...
ClearWaits(t) ==
    /\ ~AvailableBids(t, Leaders)
    /\ Continue(t, "clear", "wait", [sess[t] EXCEPT !.cleared = Leaders])
    /\ UNCHANGED <<auction, bids, bidLock>>

\* ... and then leaves out those that no longer match; a bid committed meanwhile is
\* not among them.
ClearAfter(t) ==
    LET rows == sess[t].cleared \cap Leaders IN
    AvailableBids(t, rows) /\ Clear(t, "wait", rows)

\* Mutant: the auction is not updated.
BidUnnamed(t) ==
    LET s == sess[t] IN
    /\ Finish(t, "commit")
    /\ bids' = [b \in Bids |-> IF b = s.bid THEN s.row
                               ELSE IF b \in s.cleared THEN [bids[b] EXCEPT !.isLeading = FALSE]
                               ELSE bids[b]]
    /\ UNCHANGED auction

\* The UPDATE of the auction comes with the commit and writes the columns that the
\* bid changed, over whatever was committed since the auction was loaded.
BidCommit(t) ==
    LET s == sess[t] IN
    /\ Finish(t, "commit")
    /\ bids' = [b \in Bids |-> IF b = s.bid THEN s.row
                               ELSE IF b \in s.cleared THEN [bids[b] EXCEPT !.isLeading = FALSE]
                               ELSE bids[b]]
    /\ auction' = Merge(auction, s.loaded, s.mine)

-----------------------------------------------------------------------------
(* PATCH /{id} *)

\* One column is changed; the schema keeps amounts and steps from being negative.
EditLoad(t) ==
    /\ \E column \in Edits :
         \E value \in CASE column = "status" -> {"active", "inactive"}
                        [] column = "reserve" -> Amounts
                        [] column = "step" -> Steps :
           Continue(t, "idle", "edit",
                    [NoSession EXCEPT !.loaded = auction, !.mine = [auction EXCEPT ![column] = value]])
    /\ UNCHANGED <<auction, bids, bidLock>>

EditCommit(t) ==
    /\ Finish(t, "edit")
    /\ auction' = Merge(auction, sess[t].loaded, sess[t].mine)
    /\ UNCHANGED bids

-----------------------------------------------------------------------------
\* A request dies; its transaction is rolled back.
Abort(t) ==
    /\ Faults
    /\ pc[t] # "idle"
    /\ Finish(t, pc[t])
    /\ UNCHANGED <<auction, bids>>

Quiet == (\A t \in Threads : pc[t] = "idle") /\ UNCHANGED vars

Start(t) == EditLoad(t) \/ \E v \in Vendors \cup {None}, a \in Amounts : BidLoad(t, v, a)

Step(t) == ClearNow(t) \/ ClearWaits(t) \/ ClearAfter(t) \/ BidCommit(t) \/ EditCommit(t)

Next == (\E t \in Threads : Start(t) \/ Step(t) \/ Abort(t)) \/ Quiet

Spec == Init /\ [][Next]_vars

-----------------------------------------------------------------------------
(* Properties *)

\* The amount and the vendor on the auction are those of bids that were placed, even
\* when concurrent requests write one column each.
LeadWasBid ==
    /\ Placed # {} => \E b \in Placed : bids[b].amount = auction.leadAmount
    /\ Placed # {} => \E b \in Placed : bids[b].vendor = auction.leadVendor

\* As long as the reserve price is not edited, no bid exceeds it, neither the first
\* nor any that undercuts another, whatever the interleaving.
WithinReserve == \A b \in Placed : bids[b].amount <= auction.reserve

\* Concurrent bids may all be flagged, but the error does not add up: there are
\* never more leading bids than requests that can run at once.
LeadersAreFew == Cardinality(Leaders) <= Cardinality(Threads)

\* If no two bids were validated against the same leading amount -- they came one
\* after the other -- the board is right: one leading bid, the lowest, and the auction
\* names its vendor and amount.
OneAfterTheOther == \A b, c \in Placed : bids[b].saw = bids[c].saw => b = c

LowestLeads ==
    OneAfterTheOther /\ Placed # {} =>
        \E b \in Leaders :
            /\ Leaders = {b}
            /\ \A c \in Placed \ {b} : bids[b].amount <= bids[c].amount
            /\ auction.leadVendor = bids[b].vendor
            /\ auction.leadAmount = bids[b].amount

-----------------------------------------------------------------------------
(* The inductive invariant *)

Bidding(t) == pc[t] \in {"clear", "wait", "commit"}

\* Bids in progress have ids of their own, which no row has.
InsertsAreOwn ==
    \A t \in Threads :
        /\ Bidding(t) => sess[t].bid # None
        /\ sess[t].bid # None =>
             bids[sess[t].bid] = NoBid /\ \A u \in Threads \ {t} : sess[u].bid # sess[t].bid

\* A bid in progress assigns itself to the auction as it was loaded, and was acceptable
\* there; an edit leaves the lead alone.
CopiesAreSound ==
    \A t \in Threads :
        LET s == sess[t] IN
        /\ Bidding(t) =>
             /\ s.mine = [s.loaded EXCEPT !.leadVendor = s.row.vendor, !.leadAmount = s.row.amount]
             /\ s.row.saw = s.loaded.leadAmount
             /\ s.row.isLeading
             /\ Acceptable(s.loaded, s.row.amount)
        /\ pc[t] = "edit" => /\ s.mine.leadVendor = s.loaded.leadVendor
                             /\ s.mine.leadAmount = s.loaded.leadAmount

\* Before the first bid nobody leads, nor has led when a session loaded the auction; so
\* the first one saw 0.
FirstSawNone ==
    /\ Placed = {} =>
         /\ auction.leadVendor = None /\ auction.leadAmount = 0
         /\ \A t \in Threads : pc[t] # "idle" =>
              sess[t].loaded.leadVendor = None /\ sess[t].loaded.leadAmount = 0
    /\ Placed # {} => \E b \in Placed : bids[b].saw = 0

\* If the reserve price is not edited, sessions have it as it is, and bid within it.
ReserveIsKept ==
    /\ WithinReserve
    /\ \A t \in Threads : pc[t] # "idle" =>
         /\ sess[t].loaded.reserve = auction.reserve /\ sess[t].mine.reserve = auction.reserve
         /\ Bidding(t) => sess[t].row.amount <= auction.reserve

\* Each leading bid is the last one of a thread, which is about to clear it if it bids
\* again.
LeadersHaveOwners ==
    \E owner \in [Leaders -> Threads] :
        /\ \A b, c \in Leaders : owner[b] = owner[c] => b = c
        /\ \A b \in Leaders : pc[owner[b]] \in {"wait", "commit"} => b \in sess[owner[b]].cleared

\* A bid that will be the only one to have seen its leading amount has seen the last one,
\* and clears whoever leads.
Unseen(t) == \A b \in Placed : bids[b].saw # sess[t].row.saw
InTurn ==
    OneAfterTheOther =>
        \A t \in Threads : Bidding(t) /\ Unseen(t) =>
            /\ sess[t].loaded.leadVendor = auction.leadVendor
            /\ sess[t].loaded.leadAmount = auction.leadAmount
            /\ pc[t] \in {"wait", "commit"} => Leaders \subseteq sess[t].cleared

\* All of it, which every step preserves (ReverseAuctionProofs).
IInv ==
    /\ TypeOK /\ InsertsAreOwn /\ CopiesAreSound /\ FirstSawNone /\ LeadWasBid
    /\ "reserve" \notin Edits => ReserveIsKept
    /\ LeadersHaveOwners /\ InTurn /\ LowestLeads
=============================================================================
