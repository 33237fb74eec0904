---------------------------- MODULE UploadLedger ----------------------------
(***************************************************************************)
(* What chunked uploads promise: chunks are accepted, in any order and as  *)
(* often as a client likes, until the upload is stored; that happens at    *)
(* most once, with every chunk as it was accepted last, and it settles the *)
(* upload.  What was accepted is never taken back.                         *)
(*                                                                         *)
(* Sessions, directories, the event loop, the lock and crashes are no part *)
(* of it: an upload may stop for ever at any point before it is stored.    *)
(***************************************************************************)
EXTENDS Sequences

CONSTANTS Uploads, Chunks, Contents, None

VARIABLES
    accepted, \* upload -> chunk -> the content accepted last, or None
    stored    \* upload -> the files stored for it

Init ==
    /\ accepted = [u \in Uploads |-> [k \in Chunks |-> None]]
    /\ stored = [u \in Uploads |-> <<>>]

Unsettled(u) == stored[u] = <<>>
Whole(u) == \A k \in Chunks : accepted[u][k] # None

Accept(u, k, content) ==
    /\ Unsettled(u)
    /\ accepted' = [accepted EXCEPT ![u][k] = content]
    /\ UNCHANGED stored

Store(u) ==
    /\ Unsettled(u) /\ Whole(u)
    /\ stored' = [stored EXCEPT ![u] = <<accepted[u]>>]
    /\ UNCHANGED accepted

Next ==
    \E u \in Uploads :
        \/ \E k \in Chunks, content \in Contents : Accept(u, k, content)
        \/ Store(u)

Spec == Init /\ [][Next]_<<accepted, stored>>
=============================================================================
