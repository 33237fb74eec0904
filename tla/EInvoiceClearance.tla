-------------------------- MODULE EInvoiceClearance --------------------------
(***************************************************************************)
(* Clearance of e-invoices by the tax authority's MyInvois service         *)
(* (einvoice_routes.py, einvoice/backends.py, einvoice/client.py): submit, *)
(* refresh the status, cancel, and replace the lines of an invoice.        *)
(*                                                                         *)
(* Every handler is a plain `def' and runs on a thread with a database     *)
(* session of its own, as in DocumentPipeline.  The service is external    *)
(* and asynchronous: a submission is only accepted for validation, and an  *)
(* answer may get lost after the service has acted.                        *)
(*                                                                         *)
(* A request refused because MyInvois is not configured or not enabled for *)
(* the tenant changes nothing, so the configuration is not in the model.   *)
(***************************************************************************)
EXTENDS Integers, FiniteSets, UnitOfWork

CONSTANTS
    Invoices,  \* ids of e_invoices rows
    Docs,      \* numbers the service gives to submissions, in this order
    Batches,   \* lists of lines that requests send
    Threads,
    Requests,  \* which requests occur in this instance
    Answers,   \* how calls of the service may end in this instance
    Faults,    \* TRUE if a worker may die
    None

ASSUME ClearanceAssumption ==
    /\ Docs \subseteq Nat
    /\ None \notin Invoices \cup Docs \cup Batches \cup Threads
    /\ Answers \subseteq {"accepted", "unlisted", "rejected", "numbered", "lost", "failed"}
    /\ Faults \in BOOLEAN

VARIABLES
    invoice, \* committed e_invoices rows: status and the document on record
    lines,   \* invoice -> the batches its committed lines come from
    service, \* what MyInvois holds: document -> invoice, lines as sent, status
    rowLock, \* row locks of open transactions
    pc, sess

vars == <<invoice, lines, service, rowLock, pc, sess>>

Statuses == {"not_submitted", "submitting", "submitted", "valid", "invalid", "cancelled"}
Submitted == {"submitted", "valid"}

\* A submission holds one document, so one number stands for the submission (sub,
\* submission_uid) and for its document (uuid, myinvois_uuid).
InvoiceRow == [status : Statuses, sub : Docs \cup {None}, uuid : Docs \cup {None}]
Document == [of : Invoices \cup {None}, lines : SUBSET Batches,
             status : {"none", "rejected", "submitted", "valid", "invalid", "cancelled"}]
NoDocument == [of |-> None, lines |-> {}, status |-> "none"]
NewInvoice == [status |-> "not_submitted", sub |-> None, uuid |-> None]

Session == [id : Invoices \cup {None}, loaded : InvoiceRow, mine : InvoiceRow,
            oldLines : SUBSET Batches, newLines : SUBSET Batches]
NoSession == [id |-> None, loaded |-> NewInvoice, mine |-> NewInvoice,
              oldLines |-> {}, newLines |-> {}]

TypeOK ==
    /\ invoice \in [Invoices -> InvoiceRow]
    /\ lines \in [Invoices -> SUBSET Batches]
    /\ service \in [Docs -> Document]
    /\ rowLock \in [Invoices -> Threads \cup {None}]
    /\ pc \in [Threads -> {"idle", "claim", "send", "submit", "poll", "refresh",
                           "withdraw", "cancel", "clear", "replace"}]
    /\ sess \in [Threads -> Session]

Init ==
    /\ invoice = [i \in Invoices |-> NewInvoice]
    /\ lines = [i \in Invoices |-> {}]
    /\ service = [d \in Docs |-> NoDocument]
    /\ rowLock = [i \in Invoices |-> None]
    /\ pc = [t \in Threads |-> "idle"]
    /\ sess = [t \in Threads |-> NoSession]

-----------------------------------------------------------------------------
(* Requests and sessions *)

\* The row is loaded; mine is what the handler makes of it.
Begin(t, kind, step, i, mine) ==
    /\ kind \in Requests
    /\ pc[t] = "idle"
    /\ pc' = [pc EXCEPT ![t] = step]
    /\ sess' = [sess EXCEPT ![t] = [NoSession EXCEPT !.id = i, !.loaded = invoice[i],
                                                     !.mine = mine]]
    /\ UNCHANGED <<invoice, lines, service, rowLock>>

Continue(t, from, to, session) ==
    /\ pc[t] = from
    /\ pc' = [pc EXCEPT ![t] = to]
    /\ sess' = [sess EXCEPT ![t] = session]

\* Mutant: the transaction is left open.
FinishOpen(t, from) == Continue(t, from, "idle", NoSession) /\ UNCHANGED rowLock

\* commit or rollback, and the end of the request.
Finish(t, from) ==
    /\ Continue(t, from, "idle", NoSession)
    /\ rowLock' = Released(rowLock, t, None)

\* Assignments of the session reach the row as it is at commit.
Written(s) == Merge(invoice[s.id], s.loaded, s.mine)

FreshDocs == {d \in Docs : service[d] = NoDocument}
FreshBatches == {b \in Batches : /\ \A i \in Invoices : b \notin lines[i]
                                 /\ \A d \in Docs : b \notin service[d].lines
                                 /\ \A t \in Threads : b \notin sess[t].newLines}

\* Bound of the instances: a request that needs a number or a batch starts only
\* while there is one that no other request is about to take.
Spare(fresh, takers) == Cardinality(fresh) > Cardinality({t \in Threads : pc[t] \in takers})
SpareDoc == Spare(FreshDocs, {"claim", "send"})
SpareBatch == Spare(FreshBatches, {"clear"})

-----------------------------------------------------------------------------
(* POST /{id}/submit *)

\* Mutant: no look at the status.
SubmitUnchecked(t, i) ==
    /\ SpareDoc
    /\ Begin(t, "submit", "claim", i, [invoice[i] EXCEPT !.status = "submitting"])

\* 409 if the row as loaded is submitted or valid.
SubmitLoad(t, i) ==
    /\ invoice[i].status \notin Submitted
    /\ SpareDoc
    /\ Begin(t, "submit", "claim", i, [invoice[i] EXCEPT !.status = "submitting"])

\* Mutants: `submitting' is committed; it is not written at all.
SubmitMarks(t) ==
    LET s == sess[t] IN
    /\ Continue(t, "claim", "send", s)
    /\ Available(rowLock[s.id], t, None)
    /\ invoice' = [invoice EXCEPT ![s.id].status = "submitting"]
    /\ UNCHANGED <<lines, service, rowLock>>
SubmitUnmarked(t) ==
    /\ Continue(t, "claim", "send", sess[t])
    /\ UNCHANGED <<invoice, lines, service, rowLock>>

\* The flush of `submitting' locks the row until the transaction ends; no other
\* transaction ever sees that value.
SubmitFlush(t) ==
    LET s == sess[t] IN
    /\ Continue(t, "claim", "send", s)
    /\ Available(rowLock[s.id], t, None)
    /\ rowLock' = [rowLock EXCEPT ![s.id] = t]
    /\ UNCHANGED <<invoice, lines, service>>

\* The service takes what it is sent; an accepted document is yet to be validated.
Receive(i, d, status) ==
    service' = [service EXCEPT ![d] = [of |-> i, lines |-> lines[i], status |-> status]]

\* Mutant: what the result does not have is cleared.
AppliedWhole(row, status, sub, uuid) == [status |-> status, sub |-> sub, uuid |-> uuid]

\* _apply: a number the result does not have leaves the one on record.
Applied(row, status, sub, uuid) ==
    [status |-> status, sub |-> IF sub = None THEN row.sub ELSE sub,
     uuid |-> IF uuid = None THEN row.uuid ELSE uuid]

\* The document is built from the lines as they are now, and sent.  A rejection may
\* come with a submission's number, never with a document's; so may an answer that
\* lists no document at all, which is taken for an acceptance.  An exception -- the
\* signer refuses, no connection, an answer that never came -- is recorded as
\* `invalid' too.
SubmitSend(t) ==
    LET s == sess[t]
        Result(status, sub, uuid) ==
            Continue(t, "send", "submit", [s EXCEPT !.mine = Applied(@, status, sub, uuid)])
    IN
    /\ pc[t] = "send"
    /\ \E d \in FreshDocs :
         /\ \A m \in FreshDocs : d <= m
         /\ \/ /\ "accepted" \in Answers
               /\ Receive(s.id, d, "submitted")
               /\ Result("submitted", d, d)
            \/ /\ "unlisted" \in Answers
               /\ Receive(s.id, d, "rejected")
               /\ Result("submitted", d, None)
            \/ /\ "unlisted" \in Answers
               /\ Result("submitted", None, None)
               /\ UNCHANGED service
            \/ /\ "numbered" \in Answers
               /\ Receive(s.id, d, "rejected")
               /\ Result("invalid", d, None)
            \/ /\ {"rejected", "failed"} \cap Answers # {}
               /\ Result("invalid", None, None)
               /\ UNCHANGED service
            \/ /\ "lost" \in Answers
               /\ Receive(s.id, d, "submitted")
               /\ Result("invalid", None, None)
    /\ UNCHANGED <<invoice, lines, rowLock>>

\* `submitting' was flushed, so the status is written whatever it was before.
SubmitCommit(t) ==
    LET s == sess[t] IN
    /\ Finish(t, "submit")
    /\ invoice' = [invoice EXCEPT ![s.id] = [Written(s) EXCEPT !.status = s.mine.status]]
    /\ UNCHANGED <<lines, service>>

-----------------------------------------------------------------------------
(* GET /{id}/status and POST /{id}/cancel *)

RefreshLoad(t, i) ==
    /\ invoice[i].status # "not_submitted"
    /\ Begin(t, "refresh", "poll", i, invoice[i])

\* status_map: a status the table does not have, or a submission in which the
\* service lists no document, reads `submitted'.
Mapped(status) == IF status = "rejected" THEN "submitted" ELSE status

\* What the service says of the submission on record, as loaded.
Poll(t) ==
    LET s == sess[t] IN
    /\ s.loaded.sub # None
    /\ Continue(t, "poll", "refresh",
                [s EXCEPT !.mine.status = Mapped(service[s.loaded.sub].status)])
    /\ UNCHANGED <<invoice, lines, service, rowLock>>

\* 502: no number on record to ask for, or no answer.
PollRaises(t) ==
    /\ sess[t].loaded.sub = None \/ "failed" \in Answers
    /\ Finish(t, "poll")
    /\ UNCHANGED <<invoice, lines, service>>

RefreshCommit(t) ==
    LET s == sess[t] IN
    /\ Finish(t, "refresh")
    /\ Dirty(s.loaded, s.mine) => Available(rowLock[s.id], t, None)
    /\ invoice' = [invoice EXCEPT ![s.id] = Written(s)]
    /\ UNCHANGED <<lines, service>>

\* 409 unless the row as loaded is submitted or valid.
CancelLoad(t, i) ==
    /\ invoice[i].status \in Submitted
    /\ Begin(t, "cancel", "withdraw", i, [invoice[i] EXCEPT !.status = "cancelled"])

\* The service cancels a document it has not found invalid or cancelled before.
Live(d) == d # None /\ service[d].status \in Submitted

Withdraw(d) == service' = [service EXCEPT ![d].status = "cancelled"]

CancelCall(t) ==
    LET s == sess[t] IN
    /\ Live(s.loaded.uuid)
    /\ Withdraw(s.loaded.uuid)
    /\ Continue(t, "withdraw", "cancel", s)
    /\ UNCHANGED <<invoice, lines, rowLock>>

\* Mutant: the exception is swallowed.
CancelAnyway(t) ==
    LET s == sess[t] IN
    /\ Continue(t, "withdraw", "cancel", s)
    /\ UNCHANGED <<invoice, lines, service, rowLock>>

\* 502, nothing is recorded: refused, no connection, or an answer that never came.
CancelRaises(t) ==
    LET d == sess[t].loaded.uuid IN
    /\ Finish(t, "withdraw")
    /\ \/ (~Live(d) \/ "failed" \in Answers) /\ UNCHANGED service
       \/ Live(d) /\ "lost" \in Answers /\ Withdraw(d)
    /\ UNCHANGED <<invoice, lines>>

CancelCommit(t) ==
    LET s == sess[t] IN
    /\ Finish(t, "cancel")
    /\ Available(rowLock[s.id], t, None)
    /\ invoice' = [invoice EXCEPT ![s.id] = Written(s)]
    /\ UNCHANGED <<lines, service>>

-----------------------------------------------------------------------------
(* PUT /{id}/lines *)

\* Mutant: no look at the status.
LinesUnchecked(t, i) == SpareBatch /\ Begin(t, "lines", "clear", i, invoice[i])

\* 409 if the row as loaded is submitted or valid.
LinesLoad(t, i) ==
    /\ invoice[i].status \notin Submitted
    /\ SpareBatch
    /\ Begin(t, "lines", "clear", i, invoice[i])

\* The lines are loaded when they are cleared; the request's own lines are new.
LinesClear(t) ==
    LET s == sess[t] IN
    /\ pc[t] = "clear"
    /\ \E b \in FreshBatches :
         Continue(t, "clear", "replace", [s EXCEPT !.oldLines = lines[s.id], !.newLines = {b}])
    /\ UNCHANGED <<invoice, lines, service, rowLock>>

\* The loaded lines are deleted, those already gone with a warning only, and the
\* new ones inserted.  Neither needs the lock of the invoice's row: an insert takes
\* FOR KEY SHARE on it, which an UPDATE of other columns does not exclude.
LinesCommit(t) ==
    LET s == sess[t] IN
    /\ Finish(t, "replace")
    /\ lines' = [lines EXCEPT ![s.id] = (@ \ s.oldLines) \cup s.newLines]
    /\ UNCHANGED <<invoice, service>>

-----------------------------------------------------------------------------
\* The service validates a document in its own time.
Validate(d) ==
    /\ service[d].status = "submitted"
    /\ \E verdict \in {"valid", "invalid"} :
         service' = [service EXCEPT ![d].status = verdict]
    /\ UNCHANGED <<invoice, lines, rowLock, pc, sess>>

\* A worker dies: its transactions are rolled back, the service does not notice.
Abort(t) ==
    /\ Faults
    /\ pc[t] # "idle"
    /\ Finish(t, pc[t])
    /\ UNCHANGED <<invoice, lines, service>>

Quiet == (\A t \in Threads : pc[t] = "idle") /\ UNCHANGED vars

Start(t) ==
    \E i \in Invoices : SubmitLoad(t, i) \/ RefreshLoad(t, i) \/ CancelLoad(t, i) \/ LinesLoad(t, i)

Step(t) ==
    \/ SubmitFlush(t) \/ SubmitSend(t) \/ SubmitCommit(t)
    \/ Poll(t) \/ PollRaises(t) \/ RefreshCommit(t)
    \/ CancelCall(t) \/ CancelRaises(t) \/ CancelCommit(t)
    \/ LinesClear(t) \/ LinesCommit(t)

Next ==
    \/ \E t \in Threads : Start(t) \/ Step(t) \/ Abort(t)
    \/ \E d \in Docs : Validate(d)
    \/ Quiet

Spec == Init /\ [][Next]_vars

\* A request that was taken up goes on; PostgreSQL grants a row lock in the order
\* it was asked for.  The calls of the service end: the client has a timeout.
FairSpec == Spec /\ \A t \in Threads : SF_vars(Step(t))

-----------------------------------------------------------------------------
(* Properties *)

\* `submitting' is a mark a transaction makes for itself: no invoice is ever left
\* in it, so none is blocked for good by a worker that died while submitting.
NothingLeftSubmitting == \A i \in Invoices : invoice[i].status # "submitting"

\* The documents of an invoice that the one on record is not earlier than.
Recorded(i, uuid) == {d \in Docs : uuid # None /\ d <= uuid /\ service[d].of = i}

\* A status that speaks of a document is of one the service has decided so.
IsReal(i, row) ==
    /\ row.status = "valid" =>
         \E d \in Recorded(i, row.uuid) : service[d].status \in {"valid", "cancelled"}
    /\ row.status = "cancelled" =>
         \E d \in Recorded(i, row.uuid) : service[d].status = "cancelled"

\* However late the answers are written, and whatever other requests, deaths and lost
\* answers do in between: an invoice reads valid or cancelled only if the service has
\* found a document of it valid or has cancelled one, and it has the number of that
\* document or a later one to ask for.  (Not that it is of the last: see README.)
DecisionsAreReal == \A i \in Invoices : IsReal(i, invoice[i])

\* Submissions of one invoice do not overlap, so a document accepted earlier never
\* replaces a later one on record, in whatever order requests commit and whether or
\* not some of them die or get no answer.
NewestOnRecord ==
    [][\A i \in Invoices : LET old == invoice[i].uuid
                                new == invoice'[i].uuid
                            IN  old \in {None, new} \/ (new # None /\ old < new)]_vars

Sending(i) == \E t \in Threads : pc[t] = "submit" /\ sess[t].id = i

\* "Re-submitting a valid document is refused": the service never holds two
\* documents of one invoice that count.
OneLiveDocument ==
    \A d, e \in Docs : Live(d) /\ Live(e) /\ service[d].of = service[e].of => d = e

\* What the row says of the document is what the service found: valid was found
\* valid, cancelled is cancelled, and a document that counts is on record as one.
RecordIsBacked ==
    /\ \A i \in Invoices :
         /\ invoice[i].status = "valid" => service[invoice[i].uuid].status \in {"valid", "cancelled"}
         /\ invoice[i].status = "cancelled" => service[invoice[i].uuid].status = "cancelled"
    /\ \A d \in Docs : Live(d) /\ ~Sending(service[d].of) =>
         invoice[service[d].of].uuid = d /\ invoice[service[d].of].status \in Submitted

\* "Cannot edit lines after submission": the lines of a document that counts are
\* those of the invoice.
LinesMatchDocument == \A d \in Docs : Live(d) => service[d].lines = lines[service[d].of]

\* Every request is answered.
RequestsAreAnswered == \A t \in Threads : pc[t] # "idle" ~> pc[t] = "idle"

-----------------------------------------------------------------------------
(* The inductive invariant *)

\* A submission holds the lock of its row from the flush to the commit.
LocksAreHeld ==
    \A t \in Threads :
        /\ pc[t] # "idle" => sess[t].id \in Invoices
        /\ pc[t] \in {"send", "submit"} => rowLock[sess[t].id] = t

\* `submitting' is in sessions that have yet to hear from the service, nowhere else.
MarksAreOwn ==
    /\ NothingLeftSubmitting
    /\ \A t \in Threads :
         /\ sess[t].loaded.status # "submitting"
         /\ pc[t] \notin {"claim", "send"} => sess[t].mine.status # "submitting"

\* The numbers of a row are of what was sent for this very invoice.
IsOwn(i, row) ==
    /\ row.sub # None => service[row.sub].of = i
    /\ row.uuid # None =>
         /\ service[row.uuid].of = i
         /\ service[row.uuid].status \notin {"none", "rejected"}

\* What sessions know of an invoice is of that invoice, as is what is on record.
NumbersAreOwn ==
    /\ \A d \in Docs : service[d] = NoDocument
                        \/ (service[d].of # None /\ service[d].status # "none")
    /\ \A i \in Invoices : IsOwn(i, invoice[i])
    /\ \A t \in Threads : pc[t] # "idle" =>
         IsOwn(sess[t].id, sess[t].loaded) /\ IsOwn(sess[t].id, sess[t].mine)

\* The service counts up; a document that a session is about to put on record is later
\* than the one there.
NumbersGrow ==
    /\ \A d, e \in Docs : service[d] # NoDocument /\ service[e] = NoDocument => d < e
    /\ \A t \in Threads : pc[t] # "idle" =>
         LET old == invoice[sess[t].id].uuid
             new == sess[t].mine.uuid
         IN  \/ new = sess[t].loaded.uuid
             \/ pc[t] = "submit" /\ new # None /\ (old = None \/ old < new)

\* A submission with a document on record has that document or a later one there.
IsListed(row) ==
    row.sub # None =>
        service[row.sub].status = "rejected" \/ (row.uuid # None /\ row.sub <= row.uuid)

\* What a session is about to write was decided of a document no later than the one that
\* will be on record, which is no earlier than when the session loaded the row.
AnswersAreReal ==
    /\ \A i \in Invoices : IsReal(i, invoice[i]) /\ IsListed(invoice[i])
    /\ \A t \in Threads : pc[t] # "idle" =>
         LET loaded == sess[t].loaded
             mine == sess[t].mine
             old == invoice[sess[t].id].uuid
         IN  /\ IF pc[t] = "withdraw" THEN mine.status = "cancelled" ELSE IsReal(sess[t].id, mine)
             /\ IsListed(loaded) /\ IsListed(mine)
             /\ loaded.uuid # None => old # None /\ loaded.uuid <= old
             /\ mine.sub \notin {None, loaded.sub} =>
                  service[mine.sub].status = "rejected" \/ mine.uuid # loaded.uuid

IInv == TypeOK /\ LocksAreHeld /\ MarksAreOwn /\ NumbersAreOwn /\ NumbersGrow /\ AnswersAreReal

-----------------------------------------------------------------------------
(* One request at a time: nobody else runs or dies, and every answer arrives *)

Serial == (\A t, u \in Threads : t = u) /\ ~Faults /\ "lost" \notin Answers

\* A session has the row as it is, and goes on only as its status allows.
CopyIsFresh ==
    \A t \in Threads :
        LET s == sess[t] IN
        /\ pc[t] # "idle" => s.loaded = invoice[s.id]
        /\ pc[t] \in {"claim", "send", "submit", "clear", "replace"} =>
             s.loaded.status \notin Submitted
        /\ pc[t] # "submit" => s.mine.sub = s.loaded.sub /\ s.mine.uuid = s.loaded.uuid
        /\ pc[t] \in {"withdraw", "cancel"} => s.mine.status = "cancelled"

\* What a row says is so.
IsTrue(row) ==
    /\ row.status \in {"valid", "cancelled"} => row.uuid # None
    /\ row.status = "valid" => service[row.uuid].status \in {"valid", "cancelled"}
    /\ row.status = "cancelled" => service[row.uuid].status = "cancelled"
    /\ row.sub # None => row.sub = row.uuid \/ service[row.sub].status = "rejected"
    /\ Live(row.uuid) => row.status \in Submitted

\* Rows tell the truth, and so will those about to be written; in between a document
\* that is being cancelled still reads as it was.
RowsAreTrue ==
    /\ \A t \in Threads : pc[t] \in {"submit", "refresh", "cancel"} => IsTrue(sess[t].mine)
    /\ \A i \in Invoices : IsTrue(invoice[i])

\* A document that counts is on record, or its submission is about to record it.
LiveIsKnown ==
    \A d \in Docs : Live(d) =>
        \/ invoice[service[d].of].uuid = d
        \/ \E t \in Threads : pc[t] = "submit" /\ sess[t].id = service[d].of /\ sess[t].mine.uuid = d

SerialIInv == IInv /\ CopyIsFresh /\ RowsAreTrue /\ LiveIsKnown /\ LinesMatchDocument
=============================================================================
