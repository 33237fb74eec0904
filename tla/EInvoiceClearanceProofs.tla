----------------------- MODULE EInvoiceClearanceProofs -----------------------
(***************************************************************************)
(* Proofs about EInvoiceClearance, for any number of invoices, documents,  *)
(* batches of lines and threads.                                           *)
(***************************************************************************)
EXTENDS EInvoiceClearance, FiniteSetTheorems, TLAPS

(* Rows and sessions *)

LEMMA RowsEqual ==
    ASSUME NEW r \in InvoiceRow, NEW q \in InvoiceRow,
           r.status = q.status, r.sub = q.sub, r.uuid = q.uuid
    PROVE  r = q
BY DEF InvoiceRow

LEMMA NullTypes ==
    NewInvoice \in InvoiceRow /\ NoDocument \in Document /\ NoSession \in Session
<1>1. NewInvoice \in InvoiceRow
  BY DEF NewInvoice, InvoiceRow, Statuses
<1>2. NoDocument \in Document
  BY DEF NoDocument, Document
<1>3. QED
  BY <1>1, <1>2 DEF NoSession, Session

\* An UPDATE of one row, column by column.
LEMMA MergeRow ==
    ASSUME NEW row \in InvoiceRow, NEW loaded \in InvoiceRow, NEW mine \in InvoiceRow
    PROVE  LET new == Merge(row, loaded, mine) IN
           /\ new \in InvoiceRow
           /\ new.status = IF mine.status = loaded.status THEN row.status ELSE mine.status
           /\ new.sub = IF mine.sub = loaded.sub THEN row.sub ELSE mine.sub
           /\ new.uuid = IF mine.uuid = loaded.uuid THEN row.uuid ELSE mine.uuid
BY DEF Merge, InvoiceRow

LEMMA ApplyRow ==
    ASSUME NEW row \in InvoiceRow, NEW status \in Statuses,
           NEW sub \in Docs \cup {None}, NEW uuid \in Docs \cup {None}
    PROVE  LET new == Applied(row, status, sub, uuid) IN
           /\ new \in InvoiceRow
           /\ new.status = status
           /\ new.sub = IF sub = None THEN row.sub ELSE sub
           /\ new.uuid = IF uuid = None THEN row.uuid ELSE uuid
BY DEF Applied, InvoiceRow

SessionsTyped ==
    /\ pc \in [Threads -> {"idle", "claim", "send", "submit", "poll", "refresh",
                           "withdraw", "cancel", "clear", "replace"}]
    /\ sess \in [Threads -> Session]

\* What is left of a session and the locks at its end.
LEMMA FinishEffect ==
    ASSUME TypeOK, NEW t \in Threads, NEW from, Finish(t, from)
    PROVE  /\ pc[t] = from /\ pc'[t] = "idle" /\ sess'[t] = NoSession
           /\ \A u \in Threads \ {t} : pc'[u] = pc[u] /\ sess'[u] = sess[u]
           /\ \A i \in Invoices : rowLock[i] # t => rowLock'[i] = rowLock[i]
           /\ rowLock' \in [Invoices -> Threads \cup {None}]
           /\ SessionsTyped'
BY NullTypes DEF Finish, Continue, Released, TypeOK, SessionsTyped

\* A session that goes on.
LEMMA ContinueEffect ==
    ASSUME TypeOK, NEW t \in Threads, NEW from, NEW to, NEW session,
           Continue(t, from, to, session)
    PROVE  /\ pc[t] = from /\ pc'[t] = to /\ sess'[t] = session
           /\ \A u \in Threads \ {t} : pc'[u] = pc[u] /\ sess'[u] = sess[u]
           /\ session \in Session /\ to \in {"send", "submit", "refresh", "cancel", "replace"} =>
                SessionsTyped'
BY DEF Continue, TypeOK, SessionsTyped

Loading(t, i) == SubmitLoad(t, i) \/ RefreshLoad(t, i) \/ CancelLoad(t, i) \/ LinesLoad(t, i)

\* A request loads the row of its invoice; what it assigns right away is the status.
LEMMA LoadEffect ==
    ASSUME TypeOK, NEW t \in Threads, NEW i \in Invoices, Loading(t, i)
    PROVE  /\ pc[t] = "idle" /\ pc'[t] \in {"claim", "poll", "withdraw", "clear"}
           /\ SessionsTyped'
           /\ sess'[t].id = i /\ sess'[t].loaded = invoice[i]
           /\ sess'[t].mine.sub = invoice[i].sub /\ sess'[t].mine.uuid = invoice[i].uuid
           /\ sess'[t].mine.status = CASE pc'[t] = "claim" -> "submitting"
                                       [] pc'[t] = "withdraw" -> "cancelled"
                                       [] pc'[t] \in {"poll", "clear"} -> invoice[i].status
           /\ pc'[t] \in {"claim", "clear"} => invoice[i].status \notin Submitted
           /\ \A u \in Threads \ {t} : pc'[u] = pc[u] /\ sess'[u] = sess[u]
           /\ UNCHANGED <<invoice, lines, service, rowLock>>
<1> DEFINE new(mine) == [NoSession EXCEPT !.id = i, !.loaded = invoice[i], !.mine = mine]
<1>1. invoice[i] \in InvoiceRow
  BY DEF TypeOK
<1>2. ASSUME NEW status \in Statuses
      PROVE  LET mine == [invoice[i] EXCEPT !.status = status] IN
             mine \in InvoiceRow /\ mine.status = status
             /\ mine.sub = invoice[i].sub /\ mine.uuid = invoice[i].uuid
  BY <1>1 DEF InvoiceRow
<1>3. ASSUME NEW mine \in InvoiceRow
      PROVE  new(mine) \in Session /\ new(mine).id = i /\ new(mine).loaded = invoice[i]
             /\ new(mine).mine = mine
  BY <1>1 DEF NoSession, Session
<1> HIDE DEF new
<1>4. ASSUME NEW kind, NEW step \in {"claim", "poll", "withdraw", "clear"},
             NEW mine \in InvoiceRow, Begin(t, kind, step, i, mine)
      PROVE  /\ pc[t] = "idle" /\ pc'[t] = step /\ sess'[t] = new(mine)
             /\ SessionsTyped'
             /\ \A u \in Threads \ {t} : pc'[u] = pc[u] /\ sess'[u] = sess[u]
             /\ UNCHANGED <<invoice, lines, service, rowLock>>
  <2>1. pc' = [pc EXCEPT ![t] = step] /\ sess' = [sess EXCEPT ![t] = new(mine)]
    BY <1>4 DEF Begin, new
  <2> QED
    BY <1>3, <1>4, <2>1 DEF Begin, TypeOK, SessionsTyped
<1>5. CASE SubmitLoad(t, i)
  <2> DEFINE mine == [invoice[i] EXCEPT !.status = "submitting"]
  <2>1. Begin(t, "submit", "claim", i, mine) /\ invoice[i].status \notin Submitted
    BY <1>5 DEF SubmitLoad
  <2>2. /\ mine \in InvoiceRow /\ mine.status = "submitting"
        /\ mine.sub = invoice[i].sub /\ mine.uuid = invoice[i].uuid
    BY <1>2 DEF Statuses
  <2> HIDE DEF mine
  <2> QED
    BY <1>3, <1>4, <2>1, <2>2
<1>6. CASE RefreshLoad(t, i)
  <2>1. Begin(t, "refresh", "poll", i, invoice[i])
    BY <1>6 DEF RefreshLoad
  <2> QED
    BY <1>1, <1>3, <1>4, <2>1
<1>7. CASE CancelLoad(t, i)
  <2> DEFINE mine == [invoice[i] EXCEPT !.status = "cancelled"]
  <2>1. Begin(t, "cancel", "withdraw", i, mine)
    BY <1>7 DEF CancelLoad
  <2>2. /\ mine \in InvoiceRow /\ mine.status = "cancelled"
        /\ mine.sub = invoice[i].sub /\ mine.uuid = invoice[i].uuid
    BY <1>2 DEF Statuses
  <2> HIDE DEF mine
  <2> QED
    BY <1>3, <1>4, <2>1, <2>2
<1>8. CASE LinesLoad(t, i)
  <2>1. Begin(t, "lines", "clear", i, invoice[i]) /\ invoice[i].status \notin Submitted
    BY <1>8 DEF LinesLoad
  <2> QED
    BY <1>1, <1>3, <1>4, <2>1
<1> QED
  BY <1>5, <1>6, <1>7, <1>8 DEF Loading

\* The flush takes the lock of the row.
LEMMA FlushEffect ==
    ASSUME TypeOK, LocksAreHeld, NEW t \in Threads, SubmitFlush(t)
    PROVE  /\ pc[t] = "claim" /\ pc'[t] = "send" /\ sess'[t] = sess[t]
           /\ rowLock[sess[t].id] \in {None, t}
           /\ rowLock' = [rowLock EXCEPT ![sess[t].id] = t]
           /\ rowLock'[sess[t].id] = t
           /\ SessionsTyped'
           /\ \A u \in Threads \ {t} : pc'[u] = pc[u] /\ sess'[u] = sess[u]
           /\ UNCHANGED <<invoice, lines, service>>
<1>1. pc[t] = "claim" /\ sess[t].id \in Invoices
  BY DEF SubmitFlush, Continue, LocksAreHeld
<1>2. sess[t] \in Session
  BY DEF TypeOK
<1> QED
  BY <1>1, <1>2, ContinueEffect DEF SubmitFlush, Available, TypeOK

\* How a submission ends: the document is the first that the service has not numbered.
LEMMA SendEffect ==
    ASSUME TypeOK, NEW t \in Threads, SubmitSend(t)
    PROVE  /\ pc[t] = "send" /\ pc'[t] = "submit"
           /\ SessionsTyped'
           /\ sess'[t].id = sess[t].id /\ sess'[t].loaded = sess[t].loaded
           /\ \A u \in Threads \ {t} : pc'[u] = pc[u] /\ sess'[u] = sess[u]
           /\ UNCHANGED <<invoice, lines, rowLock>>
           /\ \E d \in FreshDocs :
                LET mine == sess[t].mine
                    new == sess'[t].mine
                    sent(status) == [of |-> sess[t].id, lines |-> lines[sess[t].id],
                                     status |-> status]
                IN
                /\ \A m \in FreshDocs : d <= m
                /\ \/ /\ service' = [service EXCEPT ![d] = sent("submitted")]
                      /\ new.status = "submitted" /\ new.sub = d /\ new.uuid = d
                   \/ /\ service' = [service EXCEPT ![d] = sent("rejected")]
                      /\ new.status \in {"submitted", "invalid"}
                      /\ new.sub = d /\ new.uuid = mine.uuid
                   \/ /\ service' = service
                      /\ new.status \in {"submitted", "invalid"}
                      /\ new.sub = mine.sub /\ new.uuid = mine.uuid
                   \/ /\ service' = [service EXCEPT ![d] = sent("submitted")]
                      /\ "lost" \in Answers
                      /\ new.status = "invalid" /\ new.sub = mine.sub /\ new.uuid = mine.uuid
<1> DEFINE s == sess[t]
           after(status, sub, uuid) == [s EXCEPT !.mine = Applied(s.mine, status, sub, uuid)]
           sent(status) == [of |-> s.id, lines |-> lines[s.id], status |-> status]
<1>1. s \in Session /\ s.mine \in InvoiceRow
  BY DEF TypeOK, Session
<1>2. PICK d \in FreshDocs, status \in {"submitted", "invalid"} :
        /\ \A m \in FreshDocs : d <= m
        /\ \/ /\ service' = [service EXCEPT ![d] = sent("submitted")]
              /\ Continue(t, "send", "submit", after("submitted", d, d))
           \/ /\ service' = [service EXCEPT ![d] = sent("rejected")]
              /\ Continue(t, "send", "submit", after(status, d, None))
           \/ /\ service' = service
              /\ Continue(t, "send", "submit", after(status, None, None))
           \/ /\ service' = [service EXCEPT ![d] = sent("submitted")]
              /\ "lost" \in Answers
              /\ Continue(t, "send", "submit", after("invalid", None, None))
  BY DEF SubmitSend, Receive
<1>3. d \in Docs /\ d # None
  BY ClearanceAssumption DEF FreshDocs
<1>4. ASSUME NEW to \in {"submitted", "invalid"}, NEW sub \in {d, None}, NEW uuid \in {d, None}
      PROVE  LET new == after(to, sub, uuid) IN
             /\ new \in Session /\ new.id = s.id /\ new.loaded = s.loaded
             /\ new.mine.status = to
             /\ new.mine.sub = IF sub = None THEN s.mine.sub ELSE sub
             /\ new.mine.uuid = IF uuid = None THEN s.mine.uuid ELSE uuid
  <2> DEFINE mine == Applied(s.mine, to, sub, uuid)
  <2>1. to \in Statuses /\ sub \in Docs \cup {None} /\ uuid \in Docs \cup {None}
    BY <1>3 DEF Statuses
  <2>2. /\ mine \in InvoiceRow /\ mine.status = to
        /\ mine.sub = IF sub = None THEN s.mine.sub ELSE sub
        /\ mine.uuid = IF uuid = None THEN s.mine.uuid ELSE uuid
    <3> HIDE DEF s
    <3> QED
      BY <1>1, <2>1, ApplyRow
  <2> HIDE DEF mine
  <2>3. LET new == [s EXCEPT !.mine = mine] IN
        new \in Session /\ new.id = s.id /\ new.loaded = s.loaded /\ new.mine = mine
    BY <1>1, <2>2 DEF Session
  <2> QED
    BY <2>2, <2>3 DEF mine
<1> HIDE DEF after, sent
<1>5. /\ pc[t] = "send" /\ pc'[t] = "submit" /\ SessionsTyped'
      /\ \A u \in Threads \ {t} : pc'[u] = pc[u] /\ sess'[u] = sess[u]
      /\ \/ /\ service' = [service EXCEPT ![d] = sent("submitted")]
            /\ sess'[t] = after("submitted", d, d)
         \/ /\ service' = [service EXCEPT ![d] = sent("rejected")]
            /\ sess'[t] = after(status, d, None)
         \/ /\ service' = service
            /\ sess'[t] = after(status, None, None)
         \/ /\ service' = [service EXCEPT ![d] = sent("submitted")]
            /\ "lost" \in Answers
            /\ sess'[t] = after("invalid", None, None)
  BY <1>2, <1>3, <1>4, ContinueEffect
<1>6. UNCHANGED <<invoice, lines, rowLock>>
  BY DEF SubmitSend
<1>7. sess'[t].id = s.id /\ sess'[t].loaded = s.loaded
  BY <1>4, <1>5
<1>8. LET new == sess'[t].mine IN
      \/ /\ service' = [service EXCEPT ![d] = sent("submitted")]
         /\ new.status = "submitted" /\ new.sub = d /\ new.uuid = d
      \/ /\ service' = [service EXCEPT ![d] = sent("rejected")]
         /\ new.status = status /\ new.sub = d /\ new.uuid = s.mine.uuid
      \/ /\ service' = service
         /\ new.status = status /\ new.sub = s.mine.sub /\ new.uuid = s.mine.uuid
      \/ /\ service' = [service EXCEPT ![d] = sent("submitted")]
         /\ "lost" \in Answers
         /\ new.status = "invalid" /\ new.sub = s.mine.sub /\ new.uuid = s.mine.uuid
  BY <1>3, <1>4, <1>5
<1> QED
  BY <1>2, <1>5, <1>6, <1>7, <1>8, Zenon DEF sent

\* The documents on record are known to the service, so a poll maps what it says to a
\* status that invoices have.
LEMMA PollEffect ==
    ASSUME TypeOK, NumbersAreOwn, LocksAreHeld, NEW t \in Threads, Poll(t)
    PROVE  /\ pc[t] = "poll" /\ pc'[t] = "refresh"
           /\ SessionsTyped'
           /\ sess'[t].id = sess[t].id /\ sess'[t].loaded = sess[t].loaded
           /\ sess'[t].mine.sub = sess[t].mine.sub /\ sess'[t].mine.uuid = sess[t].mine.uuid
           /\ sess[t].loaded.sub \in Docs
           /\ sess'[t].mine.status = Mapped(service[sess[t].loaded.sub].status)
           /\ sess'[t].mine.status \in Statuses \ {"submitting"}
           /\ \A u \in Threads \ {t} : pc'[u] = pc[u] /\ sess'[u] = sess[u]
           /\ UNCHANGED <<invoice, lines, service, rowLock>>
<1> DEFINE s == sess[t]
           status == Mapped(service[s.loaded.sub].status)
           new == [s EXCEPT !.mine.status = status]
<1>1. s \in Session /\ s.loaded \in InvoiceRow /\ s.mine \in InvoiceRow
  BY DEF TypeOK, Session
<1>2. pc[t] = "poll" /\ s.loaded.sub # None
  BY ContinueEffect DEF Poll
<1>3. s.loaded.sub \in Docs /\ service[s.loaded.sub].of = s.id /\ s.id # None
  BY <1>1, <1>2, ClearanceAssumption DEF NumbersAreOwn, IsOwn, LocksAreHeld, InvoiceRow
<1>4. service[s.loaded.sub].status # "none" /\ service[s.loaded.sub] \in Document
  BY <1>3 DEF NumbersAreOwn, NoDocument, TypeOK
<1>5. status \in Statuses \ {"submitting"}
  BY <1>4 DEF Mapped, Document, Statuses
<1> HIDE DEF status
<1>6. /\ new \in Session /\ new.id = s.id /\ new.loaded = s.loaded
      /\ new.mine.sub = s.mine.sub /\ new.mine.uuid = s.mine.uuid /\ new.mine.status = status
  BY <1>1, <1>5 DEF Session, InvoiceRow
<1>7. Continue(t, "poll", "refresh", new) /\ UNCHANGED <<invoice, lines, service, rowLock>>
  BY DEF Poll, status
<1> HIDE DEF new
<1>8. /\ pc'[t] = "refresh" /\ sess'[t] = new /\ SessionsTyped'
      /\ \A u \in Threads \ {t} : pc'[u] = pc[u] /\ sess'[u] = sess[u]
  BY <1>6, <1>7, ContinueEffect
<1> QED
  BY <1>2, <1>3, <1>5, <1>6, <1>7, <1>8 DEF status

\* The service withdraws the document on record.
LEMMA WithdrawEffect ==
    ASSUME TypeOK, NEW t \in Threads, CancelCall(t)
    PROVE  /\ pc[t] = "withdraw" /\ pc'[t] = "cancel" /\ sess'[t] = sess[t]
           /\ Live(sess[t].loaded.uuid) /\ sess[t].loaded.uuid \in Docs
           /\ Withdraw(sess[t].loaded.uuid)
           /\ SessionsTyped'
           /\ \A u \in Threads \ {t} : pc'[u] = pc[u] /\ sess'[u] = sess[u]
           /\ UNCHANGED <<invoice, lines, rowLock>>
BY ContinueEffect DEF CancelCall, Live, TypeOK, Session, InvoiceRow

\* The old lines are looked up; the new ones are of the request alone.
LEMMA LinesEffect ==
    ASSUME TypeOK, LocksAreHeld, NEW t \in Threads, LinesClear(t)
    PROVE  /\ pc[t] = "clear" /\ pc'[t] = "replace"
           /\ SessionsTyped'
           /\ sess'[t].id = sess[t].id /\ sess'[t].loaded = sess[t].loaded
           /\ sess'[t].mine = sess[t].mine
           /\ sess'[t].oldLines = lines[sess[t].id]
           /\ \E b \in Batches : sess'[t].newLines = {b}
           /\ \A u \in Threads \ {t} : pc'[u] = pc[u] /\ sess'[u] = sess[u]
           /\ UNCHANGED <<invoice, lines, service, rowLock>>
<1> DEFINE s == sess[t]
           new(b) == [s EXCEPT !.oldLines = lines[s.id], !.newLines = {b}]
<1>1. s \in Session /\ lines[s.id] \in SUBSET Batches
  BY DEF TypeOK, LinesClear, Continue, LocksAreHeld
<1>2. PICK b \in Batches : Continue(t, "clear", "replace", new(b))
  BY DEF LinesClear, FreshBatches
<1>3. /\ new(b) \in Session /\ new(b).id = s.id /\ new(b).loaded = s.loaded
      /\ new(b).mine = s.mine /\ new(b).oldLines = lines[s.id] /\ new(b).newLines = {b}
  BY <1>1 DEF Session
<1> HIDE DEF new
<1>4. /\ pc[t] = "clear" /\ pc'[t] = "replace" /\ sess'[t] = new(b) /\ SessionsTyped'
      /\ \A u \in Threads \ {t} : pc'[u] = pc[u] /\ sess'[u] = sess[u]
  BY <1>2, <1>3, ContinueEffect
<1>5. UNCHANGED <<invoice, lines, service, rowLock>>
  BY DEF LinesClear
<1> QED
  BY <1>3, <1>4, <1>5

Committing(t) == SubmitCommit(t) \/ RefreshCommit(t) \/ CancelCommit(t)

\* A commit writes one row: numbers that the session has not changed stay as they are,
\* and a row that is as it was loaded becomes the session's.
LEMMA CommitEffect ==
    ASSUME TypeOK, LocksAreHeld, NEW t \in Threads, Committing(t)
    PROVE  LET s == sess[t]
               row == invoice[s.id]
           IN
           /\ s \in Session /\ s.id \in Invoices
           /\ pc[t] \in {"submit", "refresh", "cancel"}
           /\ \E new \in InvoiceRow :
                /\ invoice' = [invoice EXCEPT ![s.id] = new]
                /\ new.status \in {row.status, s.mine.status}
                /\ new.sub = IF s.mine.sub = s.loaded.sub THEN row.sub ELSE s.mine.sub
                /\ new.uuid = IF s.mine.uuid = s.loaded.uuid THEN row.uuid ELSE s.mine.uuid
                /\ s.loaded = row => new = s.mine
           /\ pc'[t] = "idle" /\ sess'[t] = NoSession
           /\ rowLock' \in [Invoices -> Threads \cup {None}] /\ SessionsTyped'
           /\ \A i \in Invoices : rowLock[i] # t => rowLock'[i] = rowLock[i]
           /\ \A u \in Threads \ {t} : pc'[u] = pc[u] /\ sess'[u] = sess[u]
           /\ UNCHANGED <<lines, service>>
<1> DEFINE s == sess[t]
           row == invoice[s.id]
           merged == Merge(row, s.loaded, s.mine)
<1>1. PICK from \in {"submit", "refresh", "cancel"} : Finish(t, from)
  BY DEF Committing, SubmitCommit, RefreshCommit, CancelCommit
<1>2. /\ pc[t] = from /\ pc'[t] = "idle" /\ sess'[t] = NoSession
      /\ rowLock' \in [Invoices -> Threads \cup {None}] /\ SessionsTyped'
      /\ \A i \in Invoices : rowLock[i] # t => rowLock'[i] = rowLock[i]
      /\ \A u \in Threads \ {t} : pc'[u] = pc[u] /\ sess'[u] = sess[u]
  BY <1>1, FinishEffect
<1>3. s \in Session /\ s.loaded \in InvoiceRow /\ s.mine \in InvoiceRow
  BY DEF TypeOK, Session
<1>4. s.id \in Invoices /\ row \in InvoiceRow
  BY <1>2 DEF LocksAreHeld, TypeOK
<1>5. /\ merged \in InvoiceRow
      /\ merged.status = IF s.mine.status = s.loaded.status THEN row.status ELSE s.mine.status
      /\ merged.sub = IF s.mine.sub = s.loaded.sub THEN row.sub ELSE s.mine.sub
      /\ merged.uuid = IF s.mine.uuid = s.loaded.uuid THEN row.uuid ELSE s.mine.uuid
  <2> HIDE DEF s, row
  <2> QED
    BY <1>3, <1>4, MergeRow
<1>6. UNCHANGED <<lines, service>>
  BY DEF Committing, SubmitCommit, RefreshCommit, CancelCommit
<1>7. PICK new : /\ invoice' = [invoice EXCEPT ![s.id] = new]
                 /\ new = merged \/ new = [merged EXCEPT !.status = s.mine.status]
  BY DEF Committing, SubmitCommit, RefreshCommit, CancelCommit, Written
<1> HIDE DEF s, row, merged
<1>8. /\ new \in InvoiceRow
      /\ new.status \in {merged.status, s.mine.status}
      /\ new.sub = merged.sub /\ new.uuid = merged.uuid
  BY <1>3, <1>5, <1>7 DEF InvoiceRow
<1>9. s.loaded = row => new = s.mine
  BY <1>3, <1>5, <1>8, RowsEqual
<1> QED
  BY <1>2, <1>3, <1>4, <1>5, <1>6, <1>7, <1>8, <1>9 DEF s, row

Ending(t) == PollRaises(t) \/ CancelRaises(t) \/ LinesCommit(t) \/ Abort(t)

\* The other ends of a request write no row of an invoice.
LEMMA EndEffect ==
    ASSUME TypeOK, NEW t \in Threads, Ending(t)
    PROVE  /\ pc[t] # "idle" /\ pc'[t] = "idle" /\ sess'[t] = NoSession
           /\ rowLock' \in [Invoices -> Threads \cup {None}] /\ SessionsTyped'
           /\ \A i \in Invoices : rowLock[i] # t => rowLock'[i] = rowLock[i]
           /\ \A u \in Threads \ {t} : pc'[u] = pc[u] /\ sess'[u] = sess[u]
           /\ invoice' = invoice
           /\ lines' = lines \/ (LinesCommit(t) /\ pc[t] = "replace" /\ service' = service)
           /\ \/ service' = service
              \/ \E d \in Docs : Live(d) /\ Withdraw(d) /\ d = sess[t].loaded.uuid
                                 /\ "lost" \in Answers /\ pc[t] = "withdraw"
<1>1. PICK from : Finish(t, from) /\ from # "idle"
  BY DEF Ending, PollRaises, CancelRaises, LinesCommit, Abort
<1>2. /\ pc[t] # "idle" /\ pc'[t] = "idle" /\ sess'[t] = NoSession
      /\ rowLock' \in [Invoices -> Threads \cup {None}] /\ SessionsTyped'
      /\ \A i \in Invoices : rowLock[i] # t => rowLock'[i] = rowLock[i]
      /\ \A u \in Threads \ {t} : pc'[u] = pc[u] /\ sess'[u] = sess[u]
  BY <1>1, FinishEffect
<1>3. /\ invoice' = invoice
      /\ lines' = lines \/ (LinesCommit(t) /\ pc[t] = "replace" /\ service' = service)
  BY DEF Ending, PollRaises, CancelRaises, LinesCommit, Abort, Finish, Continue
<1>4. CASE CancelRaises(t)
  <2>1. pc[t] = "withdraw"
    BY <1>4, FinishEffect DEF CancelRaises
  <2>2. Live(sess[t].loaded.uuid) => sess[t].loaded.uuid \in Docs
    BY DEF Live, TypeOK, Session, InvoiceRow
  <2> QED
    BY <1>2, <1>3, <1>4, <2>1, <2>2 DEF CancelRaises
<1>5. CASE ~CancelRaises(t)
  BY <1>2, <1>3, <1>5 DEF Ending, PollRaises, LinesCommit, Abort
<1> QED
  BY <1>4, <1>5

\* Every step is one of these.
LEMMA StepCases ==
    ASSUME [Next]_vars
    PROVE  \/ \E t \in Threads, i \in Invoices : Loading(t, i)
           \/ \E t \in Threads : SubmitFlush(t) \/ SubmitSend(t) \/ Poll(t) \/ CancelCall(t)
                                 \/ LinesClear(t) \/ Committing(t) \/ Ending(t)
           \/ \E d \in Docs : Validate(d)
           \/ UNCHANGED vars
BY DEF Next, Start, Step, Loading, Committing, Ending, Quiet

\* What one session does in a step.
LEMMA SessionSteps ==
    ASSUME TypeOK, LocksAreHeld, NumbersAreOwn, [Next]_vars, NEW u \in Threads
    PROVE  \/ pc'[u] = pc[u] /\ sess'[u] = sess[u]
           \/ pc'[u] = "idle" /\ sess'[u] = NoSession
           \/ \E i \in Invoices : Loading(u, i)
           \/ SubmitFlush(u) \/ SubmitSend(u) \/ Poll(u) \/ CancelCall(u)
           \/ LinesClear(u)
<1>1. ASSUME NEW t \in Threads \ {u},
             \/ \E i \in Invoices : Loading(t, i)
             \/ SubmitFlush(t) \/ SubmitSend(t) \/ Poll(t) \/ CancelCall(t)
             \/ LinesClear(t) \/ Committing(t) \/ Ending(t)
      PROVE  pc'[u] = pc[u] /\ sess'[u] = sess[u]
  <2>1. CASE \E i \in Invoices : Loading(t, i)
    BY <2>1, LoadEffect
  <2>2. CASE SubmitFlush(t)
    BY <2>2, FlushEffect
  <2>3. CASE SubmitSend(t)
    BY <2>3, SendEffect
  <2>4. CASE Poll(t)
    BY <2>4, PollEffect
  <2>5. CASE CancelCall(t)
    BY <2>5, WithdrawEffect
  <2>6. CASE LinesClear(t)
    BY <2>6, LinesEffect
  <2>7. CASE Committing(t)
    BY <2>7, CommitEffect
  <2>8. CASE Ending(t)
    BY <2>8, EndEffect
  <2> QED
    BY <1>1, <2>1, <2>2, <2>3, <2>4, <2>5, <2>6, <2>7, <2>8
<1>2. (\E d \in Docs : Validate(d)) \/ UNCHANGED vars => pc'[u] = pc[u] /\ sess'[u] = sess[u]
  BY DEF Validate, vars
<1>3. Committing(u) \/ Ending(u) => pc'[u] = "idle" /\ sess'[u] = NoSession
  BY CommitEffect, EndEffect
<1> QED
  BY <1>1, <1>2, <1>3, StepCases

\* Of what the service has, only the status changes, and neither from a rejection nor
\* to one.
LEMMA ServiceKeeps ==
    ASSUME TypeOK, LocksAreHeld, NumbersAreOwn, [Next]_vars, NEW d \in Docs,
           service[d] # NoDocument
    PROVE  /\ service'[d] # NoDocument
           /\ service'[d].of = service[d].of /\ service'[d].lines = service[d].lines
           /\ \/ service'[d].status = service[d].status
              \/ Live(d) /\ service'[d].status = "cancelled"
              \/ service[d].status = "submitted" /\ service'[d].status \in {"valid", "invalid"}
<1>1. service[d] \in Document /\ service[d].of # None /\ d # None
  BY ClearanceAssumption DEF TypeOK, NumbersAreOwn
<1>2. ASSUME NEW c \in Docs, NEW status \in {"valid", "invalid", "cancelled"},
             (Live(c) /\ status = "cancelled") \/ service[c].status = "submitted",
             service' = [service EXCEPT ![c].status = status]
      PROVE  /\ service'[d] # NoDocument
             /\ service'[d].of = service[d].of /\ service'[d].lines = service[d].lines
             /\ \/ service'[d].status = service[d].status
                \/ Live(d) /\ service'[d].status = "cancelled"
                \/ service[d].status = "submitted" /\ service'[d].status \in {"valid", "invalid"}
  <2>1. CASE c = d
    <3>1. service'[d] = [service[d] EXCEPT !.status = status]
      BY <1>2, <2>1 DEF TypeOK
    <3>2. /\ service'[d].of = service[d].of /\ service'[d].lines = service[d].lines
          /\ service'[d].status = status
      BY <1>1, <3>1 DEF Document
    <3>3. service'[d] # NoDocument
      BY <1>1, <3>2 DEF NoDocument
    <3> QED
      BY <1>1, <1>2, <2>1, <3>2, <3>3 DEF Live, Submitted
  <2>2. CASE c # d
    BY <1>1, <1>2, <2>2 DEF TypeOK
  <2> QED
    BY <2>1, <2>2
<1>3. CASE service' = service
  BY <1>3
<1>4. ASSUME NEW t \in Threads, SubmitSend(t)
      PROVE  service'[d] = service[d]
  <2>1. PICK c \in FreshDocs :
          \/ service' = service
          \/ \E doc : service' = [service EXCEPT ![c] = doc]
    BY <1>4, SendEffect
  <2>2. c # d
    BY DEF FreshDocs
  <2> QED
    BY <2>1, <2>2 DEF TypeOK
<1>5. ASSUME NEW t \in Threads, CancelCall(t)
      PROVE  \E c \in Docs : Live(c) /\ service' = [service EXCEPT ![c].status = "cancelled"]
  BY <1>5, WithdrawEffect DEF Withdraw
<1>6. ASSUME NEW t \in Threads, Ending(t)
      PROVE  \/ service' = service
             \/ \E c \in Docs : Live(c) /\ service' = [service EXCEPT ![c].status = "cancelled"]
  BY <1>6, EndEffect DEF Withdraw
<1>7. ASSUME NEW c \in Docs, Validate(c)
      PROVE  /\ service[c].status = "submitted"
             /\ \E status \in {"valid", "invalid"} :
                  service' = [service EXCEPT ![c].status = status]
  BY <1>7 DEF Validate
<1>8. \A t \in Threads : SubmitFlush(t) \/ LinesClear(t) => service' = service
  BY DEF SubmitFlush, LinesClear
<1>9. \A t \in Threads : \/ \E i \in Invoices : Loading(t, i)
                         \/ Poll(t) \/ Committing(t)
                         => service' = service
  BY LoadEffect, PollEffect, CommitEffect
<1> QED
  BY <1>1, <1>2, <1>3, <1>4, <1>5, <1>6, <1>7, <1>8, <1>9, StepCases DEF vars

\* Only submissions make the service number a document.
LEMMA OnlySendsNumber ==
    ASSUME TypeOK, LocksAreHeld, NumbersAreOwn, [Next]_vars, NEW d \in Docs,
           service[d] = NoDocument
    PROVE  service'[d] = NoDocument \/ \E t \in Threads : SubmitSend(t)
<1>1. ASSUME NEW c \in Docs, Live(c), NEW status,
             service' = [service EXCEPT ![c].status = status]
      PROVE  service'[d] = NoDocument
  <2>1. c # d
    BY <1>1 DEF Live, Submitted, NoDocument
  <2> QED
    BY <1>1, <2>1 DEF TypeOK
<1>2. \A t \in Threads : \/ \E i \in Invoices : Loading(t, i)
                         \/ SubmitFlush(t) \/ Poll(t) \/ LinesClear(t) \/ Committing(t)
                         => service' = service
  BY LoadEffect, FlushEffect, PollEffect, LinesEffect, CommitEffect
<1>3. \A t \in Threads : CancelCall(t) \/ Ending(t) =>
         \/ service' = service
         \/ \E c \in Docs : Live(c) /\ service' = [service EXCEPT ![c].status = "cancelled"]
  BY WithdrawEffect, EndEffect DEF Withdraw
<1>4. ASSUME NEW c \in Docs, Validate(c)
      PROVE  Live(c) /\ \E status : service' = [service EXCEPT ![c].status = status]
  BY <1>4, ClearanceAssumption DEF Validate, Live, Submitted
<1> QED
  BY <1>1, <1>2, <1>3, <1>4, StepCases DEF vars

\* Only commits write rows.
LEMMA RowsStay ==
    ASSUME TypeOK, [Next]_vars
    PROVE  (\E t \in Threads : Committing(t)) \/ invoice' = invoice
<1>1. ASSUME NEW t \in Threads, NEW i \in Invoices, Loading(t, i) PROVE invoice' = invoice
  BY <1>1, LoadEffect
<1>2. ASSUME NEW t \in Threads, Ending(t) PROVE invoice' = invoice
  BY <1>2, EndEffect
<1> QED
  BY <1>1, <1>2, StepCases DEF SubmitFlush, SubmitSend, Poll, CancelCall, LinesClear,
     Validate, vars

\* Only the replacement of lines writes lines.
LEMMA LinesStay ==
    ASSUME TypeOK, LocksAreHeld, NumbersAreOwn, [Next]_vars
    PROVE  (\E t \in Threads : LinesCommit(t)) \/ lines' = lines
<1>1. \A t \in Threads : (\E i \in Invoices : Loading(t, i)) \/ Committing(t) => lines' = lines
  BY LoadEffect, CommitEffect
<1>2. \A t \in Threads : Ending(t) => LinesCommit(t) \/ lines' = lines
  BY EndEffect
<1> QED
  BY <1>1, <1>2, StepCases DEF SubmitFlush, SubmitSend, Poll, CancelCall, LinesClear,
     Validate, vars

-----------------------------------------------------------------------------
(* Each part of the inductive invariant is kept *)

LEMMA StepTypeOK ==
    ASSUME IInv, [Next]_vars
    PROVE  TypeOK'
<1>1. TypeOK /\ LocksAreHeld /\ NumbersAreOwn
  BY DEF IInv
<1>2. ASSUME NEW t \in Threads, NEW i \in Invoices, Loading(t, i) PROVE TypeOK'
  BY <1>1, <1>2, LoadEffect DEF TypeOK, SessionsTyped
<1>3. ASSUME NEW t \in Threads, SubmitFlush(t) PROVE TypeOK'
  BY <1>1, <1>3, FlushEffect DEF TypeOK, SessionsTyped
<1>4. ASSUME NEW t \in Threads, SubmitSend(t) PROVE TypeOK'
  <2>1. sess[t].id \in Invoices
    BY <1>1, <1>4, SendEffect DEF LocksAreHeld
  <2>2. \A status \in {"submitted", "rejected"} :
           [of |-> sess[t].id, lines |-> lines[sess[t].id], status |-> status] \in Document
    BY <1>1, <2>1 DEF TypeOK, Document
  <2>3. service' \in [Docs -> Document]
    BY <1>1, <1>4, <2>2, SendEffect DEF TypeOK
  <2> QED
    BY <1>1, <1>4, <2>3, SendEffect DEF TypeOK, SessionsTyped
<1>5. ASSUME NEW t \in Threads, Poll(t) PROVE TypeOK'
  BY <1>1, <1>5, PollEffect DEF TypeOK, SessionsTyped
<1>6. ASSUME NEW d \in Docs, NEW status \in {"valid", "invalid", "cancelled"},
             service' = [service EXCEPT ![d].status = status]
      PROVE  service' \in [Docs -> Document]
  <2>1. service[d] \in Document
    BY <1>1 DEF TypeOK
  <2>2. [service[d] EXCEPT !.status = status] \in Document
    BY <2>1 DEF Document
  <2> QED
    BY <1>1, <1>6, <2>2 DEF TypeOK
<1>7. ASSUME NEW t \in Threads, CancelCall(t) PROVE TypeOK'
  <2>1. service' \in [Docs -> Document]
    BY <1>1, <1>6, <1>7, WithdrawEffect DEF Withdraw
  <2> QED
    BY <1>1, <1>7, <2>1, WithdrawEffect DEF TypeOK, SessionsTyped
<1>8. ASSUME NEW t \in Threads, LinesClear(t) PROVE TypeOK'
  BY <1>1, <1>8, LinesEffect DEF TypeOK, SessionsTyped
<1>9. ASSUME NEW t \in Threads, Committing(t) PROVE TypeOK'
  <2>1. invoice' \in [Invoices -> InvoiceRow]
    BY <1>1, <1>9, CommitEffect DEF TypeOK
  <2> QED
    BY <1>1, <1>9, <2>1, CommitEffect DEF TypeOK, SessionsTyped
<1>10. ASSUME NEW t \in Threads, Ending(t) PROVE TypeOK'
  <2>1. service' \in [Docs -> Document]
    BY <1>1, <1>6, <1>10, EndEffect DEF Withdraw, TypeOK
  <2>2. lines' \in [Invoices -> SUBSET Batches]
    <3>1. sess[t] \in Session
      BY <1>1 DEF TypeOK
    <3> QED
      BY <1>1, <1>10, <3>1, EndEffect DEF LinesCommit, TypeOK, Session
  <2> QED
    BY <1>1, <1>10, <2>1, <2>2, EndEffect DEF TypeOK, SessionsTyped
<1>11. ASSUME NEW d \in Docs, Validate(d) PROVE TypeOK'
  <2>1. service' \in [Docs -> Document]
    BY <1>6, <1>11 DEF Validate
  <2> QED
    BY <1>1, <1>11, <2>1 DEF Validate, TypeOK
<1>12. CASE UNCHANGED vars
  BY <1>1, <1>12 DEF vars, TypeOK
<1> QED
  BY <1>2, <1>3, <1>4, <1>5, <1>7, <1>8, <1>9, <1>10, <1>11, <1>12, StepCases

\* Nobody takes a lock that another transaction holds.
LEMMA KeepLocksAreHeld ==
    ASSUME IInv, [Next]_vars
    PROVE  LocksAreHeld'
<1>1. TypeOK /\ LocksAreHeld /\ NumbersAreOwn
  BY DEF IInv
<1>2. ASSUME NEW u \in Threads, pc'[u] # "idle" PROVE sess'[u].id \in Invoices
  <2>1. pc[u] # "idle" => sess[u].id \in Invoices
    BY <1>1 DEF LocksAreHeld
  <2>2. SubmitFlush(u) \/ LinesClear(u) => sess[u].id \in Invoices
    BY <1>1 DEF SubmitFlush, LinesClear, Continue, LocksAreHeld
  <2>3. ASSUME NEW i \in Invoices, Loading(u, i) PROVE sess'[u].id \in Invoices
    BY <1>1, <2>3, LoadEffect
  <2> QED
    BY <1>1, <1>2, <2>1, <2>2, <2>3, SessionSteps, FlushEffect, SendEffect, PollEffect,
       WithdrawEffect, LinesEffect
<1>3. ASSUME NEW u \in Threads, pc[u] \in {"send", "submit"}, pc'[u] # "idle"
      PROVE  rowLock'[sess[u].id] = u
  <2>1. sess[u].id \in Invoices /\ rowLock[sess[u].id] = u /\ u # None
    BY <1>1, <1>3, ClearanceAssumption DEF LocksAreHeld
  <2>2. ASSUME NEW t \in Threads, SubmitFlush(t) PROVE rowLock'[sess[u].id] = u
    <3>1. sess[t].id \in Invoices
      BY <1>1, <2>2 DEF SubmitFlush, Continue, LocksAreHeld
    <3>2. rowLock[sess[t].id] \in {None, t} /\ rowLock' = [rowLock EXCEPT ![sess[t].id] = t]
      BY <1>1, <2>2, <3>1, FlushEffect
    <3> QED
      BY <1>1, <2>1, <3>1, <3>2 DEF TypeOK
  <2>3. ASSUME NEW t \in Threads, Committing(t) \/ Ending(t) PROVE rowLock'[sess[u].id] = u
    <3>1. t # u
      BY <1>1, <1>3, <2>3, CommitEffect, EndEffect
    <3> QED
      BY <1>1, <2>1, <2>3, <3>1, CommitEffect, EndEffect
  <2>4. ASSUME NEW t \in Threads, NEW i \in Invoices, Loading(t, i) PROVE rowLock' = rowLock
    BY <1>1, <2>4, LoadEffect
  <2>5. ASSUME NEW t \in Threads, SubmitSend(t) \/ Poll(t) \/ CancelCall(t) \/ LinesClear(t)
        PROVE  rowLock' = rowLock
    BY <2>5 DEF SubmitSend, Poll, CancelCall, LinesClear
  <2> QED
    BY <2>1, <2>2, <2>3, <2>4, <2>5, StepCases DEF Validate, vars
<1>4. ASSUME NEW u \in Threads, pc'[u] \in {"send", "submit"}
      PROVE  rowLock'[sess'[u].id] = u
  <2>1. CASE SubmitFlush(u)
    BY <1>1, <2>1, FlushEffect
  <2>2. CASE SubmitSend(u)
    BY <1>1, <1>3, <2>2, SendEffect
  <2>3. CASE pc'[u] = pc[u] /\ sess'[u] = sess[u]
    BY <1>3, <1>4, <2>3
  <2>4. ASSUME NEW i \in Invoices, Loading(u, i) PROVE FALSE
    BY <1>1, <1>4, <2>4, LoadEffect
  <2>5. ~Poll(u) /\ ~CancelCall(u)
    BY <1>1, <1>4, PollEffect, WithdrawEffect
  <2>6. CASE LinesClear(u)
    BY <1>1, <1>4, <2>6, LinesEffect
  <2> QED
    BY <1>1, <1>4, <2>1, <2>2, <2>3, <2>4, <2>5, <2>6, SessionSteps
<1> QED
  BY <1>2, <1>4 DEF LocksAreHeld

LEMMA KeepMarksAreOwn ==
    ASSUME IInv, [Next]_vars
    PROVE  MarksAreOwn'
<1>1. TypeOK /\ LocksAreHeld /\ NumbersAreOwn /\ MarksAreOwn
  BY DEF IInv
<1>2. NothingLeftSubmitting'
  <2>1. ASSUME NEW t \in Threads, Committing(t) PROVE NothingLeftSubmitting'
    <3>1. PICK new \in InvoiceRow :
             /\ invoice' = [invoice EXCEPT ![sess[t].id] = new]
             /\ new.status \in {invoice[sess[t].id].status, sess[t].mine.status}
      BY <1>1, <2>1, CommitEffect
    <3>2. pc[t] \in {"submit", "refresh", "cancel"} /\ sess[t].id \in Invoices
      BY <1>1, <2>1, CommitEffect
    <3>3. new.status # "submitting"
      BY <1>1, <3>1, <3>2 DEF MarksAreOwn, NothingLeftSubmitting
    <3> QED
      BY <1>1, <3>1, <3>2, <3>3 DEF MarksAreOwn, NothingLeftSubmitting, TypeOK
  <2>2. CASE invoice' = invoice
    BY <1>1, <2>2 DEF MarksAreOwn, NothingLeftSubmitting
  <2>3. (\E t \in Threads : Committing(t)) \/ invoice' = invoice
    BY <1>1, RowsStay
  <2> QED
    BY <2>1, <2>2, <2>3
<1>3. ASSUME NEW u \in Threads
      PROVE  /\ sess'[u].loaded.status # "submitting"
             /\ pc'[u] \notin {"claim", "send"} => sess'[u].mine.status # "submitting"
  <2>1. /\ sess[u].loaded.status # "submitting"
        /\ pc[u] \notin {"claim", "send"} => sess[u].mine.status # "submitting"
    BY <1>1 DEF MarksAreOwn
  <2>2. ASSUME NEW i \in Invoices, Loading(u, i)
        PROVE  /\ sess'[u].loaded.status # "submitting"
               /\ pc'[u] # "claim" => sess'[u].mine.status # "submitting"
    <3>1. invoice[i].status # "submitting"
      BY <1>1 DEF MarksAreOwn, NothingLeftSubmitting
    <3> QED
      BY <1>1, <2>2, <3>1, LoadEffect
  <2>3. CASE SubmitFlush(u)
    BY <1>1, <2>1, <2>3, FlushEffect
  <2>4. CASE SubmitSend(u)
    BY <1>1, <2>1, <2>4, SendEffect
  <2>5. CASE Poll(u)
    BY <1>1, <2>1, <2>5, PollEffect
  <2>6. CASE CancelCall(u)
    BY <1>1, <2>1, <2>6, WithdrawEffect
  <2>7. CASE LinesClear(u)
    BY <1>1, <2>1, <2>7, LinesEffect
  <2>8. NoSession.loaded.status # "submitting" /\ NoSession.mine.status # "submitting"
    BY DEF NoSession, NewInvoice
  <2> QED
    BY <1>1, <2>1, <2>2, <2>3, <2>4, <2>5, <2>6, <2>7, <2>8, SessionSteps
<1> QED
  BY <1>2, <1>3 DEF MarksAreOwn

\* A row that names an invoice's own documents goes on doing so.
LEMMA OwnStays ==
    ASSUME IInv, [Next]_vars, NEW i \in Invoices, NEW row \in InvoiceRow, IsOwn(i, row)
    PROVE  /\ row.sub # None => service'[row.sub].of = i
           /\ row.uuid # None =>
                /\ service'[row.uuid].of = i
                /\ service'[row.uuid].status \notin {"none", "rejected"}
<1>1. TypeOK /\ LocksAreHeld /\ NumbersAreOwn /\ i # None
  BY ClearanceAssumption DEF IInv
<1>2. ASSUME NEW d \in Docs, service[d].of = i
      PROVE  /\ service'[d].of = i
             /\ service[d].status \notin {"none", "rejected"} =>
                  service'[d].status \notin {"none", "rejected"}
  <2>1. service[d] # NoDocument
    BY <1>1, <1>2 DEF NoDocument
  <2> QED
    BY <1>1, <1>2, <2>1, ServiceKeeps
<1>3. row.sub \in Docs \cup {None} /\ row.uuid \in Docs \cup {None}
  BY DEF InvoiceRow
<1> QED
  BY <1>2, <1>3 DEF IsOwn

\* What a submission receives it keeps for its own invoice.
LEMMA SendIsOwn ==
    ASSUME IInv, NEW t \in Threads, SubmitSend(t), [Next]_vars
    PROVE  /\ IsOwn(sess[t].id, sess[t].mine)'
           /\ IsOwn(sess[t].id, sess[t].loaded)'
<1>1. TypeOK /\ LocksAreHeld /\ NumbersAreOwn
  BY DEF IInv
<1> DEFINE i == sess[t].id
           mine == sess[t].mine
           loaded == sess[t].loaded
           new == sess'[t].mine
<1>2. /\ pc[t] = "send" /\ sess'[t].id = i /\ sess'[t].loaded = loaded
  BY <1>1, SendEffect
<1>3. /\ i \in Invoices /\ IsOwn(i, mine) /\ IsOwn(i, loaded)
      /\ mine \in InvoiceRow /\ loaded \in InvoiceRow
  BY <1>1, <1>2 DEF LocksAreHeld, NumbersAreOwn, TypeOK, Session
<1>4. PICK d \in FreshDocs :
        \/ /\ service' = [service EXCEPT ![d] = [of |-> i, lines |-> lines[i],
                                                 status |-> "submitted"]]
           /\ new.sub = d /\ new.uuid = d
        \/ /\ service' = [service EXCEPT ![d] = [of |-> i, lines |-> lines[i],
                                                 status |-> "rejected"]]
           /\ new.sub = d /\ new.uuid = mine.uuid
        \/ new.sub = mine.sub /\ new.uuid = mine.uuid
  BY <1>1, SendEffect
<1>5. d \in Docs
  BY DEF FreshDocs
<1> HIDE DEF i, mine, loaded, new
<1>6. /\ mine.sub # None => service'[mine.sub].of = i
      /\ mine.uuid # None => /\ service'[mine.uuid].of = i
                             /\ service'[mine.uuid].status \notin {"none", "rejected"}
      /\ loaded.sub # None => service'[loaded.sub].of = i
      /\ loaded.uuid # None => /\ service'[loaded.uuid].of = i
                               /\ service'[loaded.uuid].status \notin {"none", "rejected"}
  BY <1>3, OwnStays
<1>7. /\ new.sub # None => service'[new.sub].of = i
      /\ new.uuid # None => /\ service'[new.uuid].of = i
                            /\ service'[new.uuid].status \notin {"none", "rejected"}
  BY <1>1, <1>4, <1>5, <1>6 DEF TypeOK
<1> QED
  BY <1>2, <1>6, <1>7 DEF IsOwn, i, mine, loaded, new

LEMMA KeepNumbersAreOwn ==
    ASSUME IInv, [Next]_vars
    PROVE  NumbersAreOwn'
<1>1. TypeOK /\ LocksAreHeld /\ NumbersAreOwn
  BY DEF IInv
<1>2. ASSUME NEW d \in Docs
      PROVE  service'[d] = NoDocument \/ (service'[d].of # None /\ service'[d].status # "none")
  <2>1. CASE service[d] # NoDocument
    BY <1>1, <2>1, ServiceKeeps DEF NumbersAreOwn
  <2>2. CASE service[d] = NoDocument
    <3>1. ASSUME NEW t \in Threads, SubmitSend(t)
          PROVE  service'[d] = NoDocument \/ (service'[d].of # None /\ service'[d].status # "none")
      <4>1. sess[t].id \in Invoices /\ sess[t].id # None
        BY <1>1, <3>1, SendEffect, ClearanceAssumption DEF LocksAreHeld
      <4>2. PICK c \in FreshDocs, status \in {"submitted", "rejected"} :
              \/ service' = service
              \/ service' = [service EXCEPT ![c] = [of |-> sess[t].id,
                                                    lines |-> lines[sess[t].id],
                                                    status |-> status]]
        BY <1>1, <3>1, SendEffect
      <4> QED
        BY <1>1, <2>2, <4>1, <4>2 DEF TypeOK
    <3> QED
      BY <1>1, <2>2, <3>1, OnlySendsNumber
  <2> QED
    BY <2>1, <2>2
<1>3. ASSUME NEW u \in Threads, pc'[u] # "idle"
      PROVE  IsOwn(sess[u].id, sess[u].loaded)' /\ IsOwn(sess[u].id, sess[u].mine)'
  <2> DEFINE i == sess'[u].id
  <2>1. CASE SubmitSend(u)
    BY <2>1, SendIsOwn
  <2>2. ASSUME NEW j \in Invoices, Loading(u, j)
        PROVE  IsOwn(sess[u].id, sess[u].loaded)' /\ IsOwn(sess[u].id, sess[u].mine)'
    <3>1. /\ sess'[u].id = j /\ sess'[u].loaded = invoice[j]
          /\ sess'[u].mine.sub = invoice[j].sub /\ sess'[u].mine.uuid = invoice[j].uuid
      BY <1>1, <2>2, LoadEffect
    <3>2. IsOwn(j, invoice[j]) /\ invoice[j] \in InvoiceRow
      BY <1>1 DEF NumbersAreOwn, TypeOK
    <3>3. /\ invoice[j].sub # None => service'[invoice[j].sub].of = j
          /\ invoice[j].uuid # None =>
               /\ service'[invoice[j].uuid].of = j
               /\ service'[invoice[j].uuid].status \notin {"none", "rejected"}
      BY <3>2, OwnStays
    <3> QED
      BY <3>1, <3>3 DEF IsOwn
  <2>3. ASSUME pc[u] # "idle", sess'[u].id = sess[u].id, sess'[u].loaded = sess[u].loaded,
               sess'[u].mine.sub = sess[u].mine.sub, sess'[u].mine.uuid = sess[u].mine.uuid
        PROVE  IsOwn(sess[u].id, sess[u].loaded)' /\ IsOwn(sess[u].id, sess[u].mine)'
    <3> DEFINE loaded == sess[u].loaded
               mine == sess[u].mine
               own == sess[u].id
    <3>1. /\ own \in Invoices /\ IsOwn(own, loaded) /\ IsOwn(own, mine)
          /\ loaded \in InvoiceRow /\ mine \in InvoiceRow
      BY <1>1, <2>3 DEF LocksAreHeld, NumbersAreOwn, TypeOK, Session
    <3> HIDE DEF loaded, mine, own
    <3>2. /\ mine.sub # None => service'[mine.sub].of = own
          /\ mine.uuid # None => /\ service'[mine.uuid].of = own
                                 /\ service'[mine.uuid].status \notin {"none", "rejected"}
          /\ loaded.sub # None => service'[loaded.sub].of = own
          /\ loaded.uuid # None => /\ service'[loaded.uuid].of = own
                                   /\ service'[loaded.uuid].status \notin {"none", "rejected"}
      BY <3>1, OwnStays
    <3> QED
      BY <2>3, <3>2 DEF IsOwn, loaded, mine, own
  <2> QED
    BY <1>1, <1>3, <2>1, <2>2, <2>3, SessionSteps, FlushEffect, PollEffect, WithdrawEffect,
       LinesEffect
<1>4. ASSUME NEW i \in Invoices PROVE IsOwn(i, invoice[i])'
  <2>1. invoice[i] \in InvoiceRow /\ IsOwn(i, invoice[i])
    BY <1>1 DEF NumbersAreOwn, TypeOK
  <2> DEFINE row == invoice[i]
  <2>2. /\ row.sub # None => service'[row.sub].of = i
        /\ row.uuid # None => /\ service'[row.uuid].of = i
                              /\ service'[row.uuid].status \notin {"none", "rejected"}
    <3> HIDE DEF row
    <3> QED
      BY <2>1, OwnStays DEF row
  <2>3. ASSUME NEW t \in Threads, Committing(t) PROVE IsOwn(i, invoice[i])'
    <3> DEFINE mine == sess[t].mine
               loaded == sess[t].loaded
               own == sess[t].id
    <3>1. /\ own \in Invoices /\ IsOwn(own, mine) /\ mine \in InvoiceRow
      BY <1>1, <2>3, CommitEffect DEF LocksAreHeld, NumbersAreOwn, TypeOK, Session
    <3>2. PICK new \in InvoiceRow :
              /\ invoice' = [invoice EXCEPT ![own] = new]
              /\ new.sub = IF mine.sub = loaded.sub THEN invoice[own].sub ELSE mine.sub
              /\ new.uuid = IF mine.uuid = loaded.uuid THEN invoice[own].uuid ELSE mine.uuid
      BY <1>1, <2>3, CommitEffect
    <3> HIDE DEF mine, loaded, own
    <3>3. /\ mine.sub # None => service'[mine.sub].of = own
          /\ mine.uuid # None => /\ service'[mine.uuid].of = own
                                 /\ service'[mine.uuid].status \notin {"none", "rejected"}
      BY <3>1, OwnStays
    <3>4. CASE i = own
      BY <1>1, <2>2, <3>1, <3>2, <3>3, <3>4 DEF IsOwn, TypeOK
    <3>5. CASE i # own
      BY <1>1, <2>2, <3>2, <3>5 DEF IsOwn, TypeOK
    <3> QED
      BY <3>4, <3>5
  <2>4. CASE invoice' = invoice
    BY <2>2, <2>4 DEF IsOwn
  <2>5. (\E t \in Threads : Committing(t)) \/ invoice' = invoice
    BY <1>1, RowsStay
  <2> QED
    BY <2>3, <2>4, <2>5
<1> QED
  BY <1>2, <1>3, <1>4 DEF NumbersAreOwn

\* A row that is being submitted is written by its own transaction only: another one that
\* commits leaves the document on record as it is.
LEMMA UuidStays ==
    ASSUME IInv, [Next]_vars, NEW i \in Invoices
    PROVE  \/ invoice'[i].uuid = invoice[i].uuid
           \/ \E t \in Threads : /\ pc[t] = "submit" /\ pc'[t] = "idle"
                                 /\ sess[t].id = i /\ rowLock[i] = t
                                 /\ sess[t].mine.uuid # sess[t].loaded.uuid
                                 /\ invoice'[i].uuid = sess[t].mine.uuid
<1>1. TypeOK /\ LocksAreHeld /\ NumbersGrow
  BY DEF IInv
<1>2. ASSUME NEW t \in Threads, Committing(t)
      PROVE  \/ invoice'[i].uuid = invoice[i].uuid
             \/ /\ pc[t] = "submit" /\ pc'[t] = "idle" /\ sess[t].id = i /\ rowLock[i] = t
                /\ sess[t].mine.uuid # sess[t].loaded.uuid
                /\ invoice'[i].uuid = sess[t].mine.uuid
  <2>1. /\ sess[t].id \in Invoices /\ pc[t] # "idle" /\ pc'[t] = "idle"
        /\ \E new \in InvoiceRow :
             /\ invoice' = [invoice EXCEPT ![sess[t].id] = new]
             /\ new.uuid = IF sess[t].mine.uuid = sess[t].loaded.uuid
                           THEN invoice[sess[t].id].uuid ELSE sess[t].mine.uuid
    BY <1>1, <1>2, CommitEffect
  <2>2. sess[t].mine.uuid # sess[t].loaded.uuid => pc[t] = "submit"
    BY <1>1, <2>1 DEF NumbersGrow
  <2>3. pc[t] = "submit" => rowLock[sess[t].id] = t
    BY <1>1 DEF LocksAreHeld
  <2> QED
    BY <1>1, <2>1, <2>2, <2>3 DEF TypeOK
<1>3. CASE invoice' = invoice
  BY <1>3
<1> QED
  BY <1>1, <1>2, <1>3, RowsStay

LEMMA KeepNumbersGrow ==
    ASSUME IInv, [Next]_vars
    PROVE  NumbersGrow'
<1>1. TypeOK /\ LocksAreHeld /\ NumbersAreOwn /\ NumbersGrow
  BY DEF IInv
<1>2. ASSUME NEW d \in Docs, NEW e \in Docs, service'[d] # NoDocument, service'[e] = NoDocument
      PROVE  d < e
  <2>1. service[e] = NoDocument
    BY <1>1, <1>2, ServiceKeeps
  <2>2. CASE service[d] # NoDocument
    BY <1>1, <2>1, <2>2 DEF NumbersGrow
  <2>3. CASE service[d] = NoDocument
    <3>1. PICK t \in Threads : SubmitSend(t)
      BY <1>1, <1>2, <2>3, OnlySendsNumber
    <3>2. PICK c \in FreshDocs :
             /\ \A m \in FreshDocs : c <= m
             /\ \/ service' = service
                \/ \E doc : service' = [service EXCEPT ![c] = doc]
      BY <1>1, <3>1, SendEffect
    <3>3. d = c
      BY <1>1, <1>2, <2>3, <3>2 DEF TypeOK
    <3>4. e \in FreshDocs /\ e # d
      BY <1>2, <2>1 DEF FreshDocs
    <3> QED
      BY <3>2, <3>3, <3>4, ClearanceAssumption DEF FreshDocs
  <2> QED
    BY <2>2, <2>3
<1>3. ASSUME NEW u \in Threads, pc'[u] # "idle"
      PROVE  LET old == invoice'[sess'[u].id].uuid
                 new == sess'[u].mine.uuid
             IN  \/ new = sess'[u].loaded.uuid
                 \/ pc'[u] = "submit" /\ new # None /\ (old = None \/ old < new)
  <2>1. CASE pc'[u] = pc[u] /\ sess'[u] = sess[u]
    <3> DEFINE i == sess[u].id
               new == sess[u].mine.uuid
    <3>1. SUFFICES ASSUME new # sess[u].loaded.uuid
                   PROVE  /\ pc[u] = "submit" /\ new # None
                          /\ invoice'[i].uuid = None \/ invoice'[i].uuid < new
      BY <2>1
    <3>2. /\ pc[u] = "submit" /\ new # None /\ i \in Invoices /\ rowLock[i] = u
          /\ invoice[i].uuid = None \/ invoice[i].uuid < new
      BY <1>1, <1>3, <2>1, <3>1 DEF NumbersGrow, LocksAreHeld
    <3>3. invoice'[i].uuid = invoice[i].uuid
      <4>1. ASSUME NEW t \in Threads, pc'[t] = "idle", rowLock[i] = t PROVE FALSE
        BY <1>3, <3>2, <4>1
      <4> HIDE DEF i
      <4> QED
        BY <3>2, <4>1, UuidStays
    <3> QED
      BY <3>2, <3>3
  <2>2. ASSUME NEW i \in Invoices, Loading(u, i)
        PROVE  sess'[u].mine.uuid = sess'[u].loaded.uuid
    BY <1>1, <2>2, LoadEffect
  <2>3. CASE SubmitSend(u)
    <3> DEFINE i == sess[u].id
    <3>1. PICK d \in FreshDocs : sess'[u].mine.uuid \in {sess[u].mine.uuid, d}
      BY <1>1, <2>3, SendEffect
    <3>2. /\ pc[u] = "send" /\ pc'[u] = "submit" /\ sess'[u].id = i
          /\ sess'[u].loaded = sess[u].loaded /\ invoice' = invoice
      BY <1>1, <2>3, SendEffect
    <3>3. sess[u].mine.uuid = sess[u].loaded.uuid /\ i \in Invoices
      BY <1>1, <3>2 DEF NumbersGrow, LocksAreHeld
    <3>4. d \in Docs /\ service[d] = NoDocument /\ d # None
      BY ClearanceAssumption DEF FreshDocs
    <3>5. invoice[i].uuid = None \/ invoice[i].uuid < d
      <4>1. SUFFICES ASSUME invoice[i].uuid # None PROVE invoice[i].uuid < d
        OBVIOUS
      <4>2. /\ invoice[i].uuid \in Docs /\ service[invoice[i].uuid].of = i /\ i # None
        BY <1>1, <3>3, <4>1, ClearanceAssumption
           DEF NumbersAreOwn, IsOwn, TypeOK, InvoiceRow
      <4>3. service[invoice[i].uuid] # NoDocument
        BY <4>2 DEF NoDocument
      <4> QED
        BY <1>1, <3>4, <4>2, <4>3 DEF NumbersGrow
    <3> QED
      BY <3>1, <3>2, <3>3, <3>4, <3>5
  <2>4. CASE SubmitFlush(u) \/ Poll(u) \/ CancelCall(u) \/ LinesClear(u)
    <3>1. /\ pc[u] \notin {"idle", "submit"}
          /\ sess'[u].mine.uuid = sess[u].mine.uuid /\ sess'[u].loaded = sess[u].loaded
      BY <1>1, <2>4, FlushEffect, PollEffect, WithdrawEffect, LinesEffect
    <3> QED
      BY <1>1, <3>1 DEF NumbersGrow
  <2> QED
    BY <1>1, <1>3, <2>1, <2>2, <2>3, <2>4, SessionSteps
<1> QED
  BY <1>2, <1>3 DEF NumbersGrow

LEMMA UuidGrows ==
    ASSUME IInv, [Next]_vars, NEW i \in Invoices
    PROVE  LET old == invoice[i].uuid
               new == invoice'[i].uuid
           IN  old \in {None, new} \/ (new # None /\ old < new)
BY UuidStays DEF IInv, NumbersGrow

\* Numbers of the service compare as numbers do.
LEMMA DocsOrdered ==
    /\ None \notin Docs
    /\ \A a \in Docs : a <= a
    /\ \A a, b \in Docs : a < b => a <= b
    /\ \A a, b, c \in Docs : (a <= b /\ b <= c) => a <= c
<1>1. Docs \subseteq Nat /\ None \notin Docs
  BY ClearanceAssumption
<1>2. /\ \A a \in Nat : a <= a
      /\ \A a, b \in Nat : a < b => a <= b
      /\ \A a, b, c \in Nat : (a <= b /\ b <= c) => a <= c
  OBVIOUS
<1> QED
  BY <1>1, <1>2, Zenon

\* IsReal and IsListed when the service holds `held'.
RealIn(held, i, row) ==
    /\ row.status = "valid" =>
         /\ row.uuid # None
         /\ \E d \in Docs : d <= row.uuid /\ held[d].of = i /\ held[d].status \in {"valid", "cancelled"}
    /\ row.status = "cancelled" =>
         /\ row.uuid # None
         /\ \E d \in Docs : d <= row.uuid /\ held[d].of = i /\ held[d].status = "cancelled"

ListedIn(held, row) ==
    row.sub # None => held[row.sub].status = "rejected" \/ (row.uuid # None /\ row.sub <= row.uuid)

\* A row made of an invoice's row stays real while the number on record grows.
LEMMA RealStays ==
    ASSUME IInv, [Next]_vars, NEW i \in Invoices, NEW row \in InvoiceRow, NEW new \in InvoiceRow,
           RealIn(service, i, row), new.status = row.status,
           row.uuid # None => new.uuid # None /\ row.uuid <= new.uuid
    PROVE  RealIn(service', i, new)
<1>1. TypeOK /\ LocksAreHeld /\ NumbersAreOwn /\ i # None /\ Docs \subseteq Nat
  BY ClearanceAssumption DEF IInv
<1>2. ASSUME NEW d \in Docs, service[d].of = i, service[d].status \in {"valid", "cancelled"}
      PROVE  /\ service'[d].of = i
             /\ service'[d].status \in {"valid", "cancelled"}
             /\ service[d].status = "cancelled" => service'[d].status = "cancelled"
  <2>1. service[d] # NoDocument
    BY <1>1, <1>2 DEF NoDocument
  <2> QED
    BY <1>1, <1>2, <2>1, ServiceKeeps DEF Live, Submitted
<1>3. row.uuid \in Docs \cup {None} /\ new.uuid \in Docs \cup {None}
  BY DEF InvoiceRow
<1>4. ASSUME NEW d \in Docs, d <= row.uuid, row.uuid # None PROVE d <= new.uuid /\ new.uuid # None
  <2>1. new.uuid # None /\ row.uuid <= new.uuid
    BY <1>4
  <2>2. row.uuid \in Docs /\ new.uuid \in Docs
    BY <1>3, <1>4, <2>1
  <2> QED
    BY <1>4, <2>1, <2>2, DocsOrdered, Zenon
<1>5. CASE row.status = "valid"
  <2>1. PICK d \in Docs : d <= row.uuid /\ service[d].of = i
                          /\ service[d].status \in {"valid", "cancelled"}
    BY <1>5 DEF RealIn
  <2>2. row.uuid # None
    BY <1>5 DEF RealIn
  <2> QED
    BY <1>2, <1>4, <1>5, <2>1, <2>2 DEF RealIn
<1>6. CASE row.status = "cancelled"
  <2>1. PICK d \in Docs : d <= row.uuid /\ service[d].of = i /\ service[d].status = "cancelled"
    BY <1>6 DEF RealIn
  <2>2. row.uuid # None
    BY <1>6 DEF RealIn
  <2> QED
    BY <1>2, <1>4, <1>6, <2>1, <2>2 DEF RealIn
<1> QED
  BY <1>5, <1>6 DEF RealIn

LEMMA ListedStays ==
    ASSUME IInv, [Next]_vars, NEW i \in Invoices, NEW row \in InvoiceRow,
           IsOwn(i, row), ListedIn(service, row)
    PROVE  /\ ListedIn(service', row)
           /\ row.sub # None /\ service[row.sub].status = "rejected" =>
                service'[row.sub].status = "rejected"
<1>1. TypeOK /\ LocksAreHeld /\ NumbersAreOwn /\ i # None
  BY ClearanceAssumption DEF IInv
<1>2. CASE row.sub # None
  <2>1. row.sub \in Docs /\ service[row.sub] # NoDocument
    BY <1>1, <1>2 DEF InvoiceRow, IsOwn, NoDocument
  <2>2. service[row.sub].status = "rejected" => service'[row.sub].status = "rejected"
    BY <1>1, <2>1, ServiceKeeps DEF Live, Submitted
  <2> QED
    BY <2>2 DEF ListedIn
<1>3. CASE row.sub = None
  BY <1>3 DEF ListedIn
<1> QED
  BY <1>2, <1>3

\* What AnswersAreReal says of a session at p.
SessionReal(p, s, held, old) ==
    /\ IF p = "withdraw" THEN s.mine.status = "cancelled" ELSE RealIn(held, s.id, s.mine)
    /\ ListedIn(held, s.loaded) /\ ListedIn(held, s.mine)
    /\ s.loaded.uuid # None => old # None /\ s.loaded.uuid <= old
    /\ s.mine.sub # s.loaded.sub /\ s.mine.sub # None =>
         held[s.mine.sub].status = "rejected" \/ s.mine.uuid # s.loaded.uuid

LEMMA RealMeans ==
    AnswersAreReal <=>
        /\ \A i \in Invoices : RealIn(service, i, invoice[i]) /\ ListedIn(service, invoice[i])
        /\ \A t \in Threads : pc[t] # "idle" =>
             SessionReal(pc[t], sess[t], service, invoice[sess[t].id].uuid)
<1>1. ASSUME NEW i, NEW row PROVE IsReal(i, row) <=> RealIn(service, i, row)
  BY DEF IsReal, Recorded, RealIn
<1>2. ASSUME NEW row PROVE IsListed(row) <=> ListedIn(service, row)
  BY DEF IsListed, ListedIn
<1> QED
  BY <1>1, <1>2 DEF AnswersAreReal, SessionReal

LEMMA KeepAnswersAreReal ==
    ASSUME IInv, [Next]_vars
    PROVE  AnswersAreReal'
<1>1. TypeOK /\ LocksAreHeld /\ NumbersAreOwn /\ NumbersGrow /\ Docs \subseteq Nat /\ None \notin Docs
  BY ClearanceAssumption DEF IInv
<1>2. /\ \A i \in Invoices : RealIn(service, i, invoice[i]) /\ ListedIn(service, invoice[i])
      /\ \A t \in Threads : pc[t] # "idle" =>
           SessionReal(pc[t], sess[t], service, invoice[sess[t].id].uuid)
  BY RealMeans DEF IInv
<1>3. ASSUME NEW i \in Invoices PROVE RealIn(service', i, invoice'[i]) /\ ListedIn(service', invoice'[i])
  <2> DEFINE row == invoice[i]
  <2>1. row \in InvoiceRow /\ IsOwn(i, row) /\ RealIn(service, i, row) /\ ListedIn(service, row)
    BY <1>1, <1>2 DEF NumbersAreOwn, TypeOK
  <2>2. row.uuid \in Docs \cup {None}
    BY <2>1 DEF InvoiceRow
  <2>3. RealIn(service', i, row) /\ ListedIn(service', row)
    <3>1. row.uuid # None => row.uuid <= row.uuid
      BY <2>2, DocsOrdered, Zenon
    <3> HIDE DEF row
    <3> QED
      BY <2>1, <3>1, RealStays, ListedStays
  <2>4. ASSUME NEW t \in Threads, Committing(t), sess[t].id = i
        PROVE  RealIn(service', i, invoice'[i]) /\ ListedIn(service', invoice'[i])
    <3> DEFINE mine == sess[t].mine
               loaded == sess[t].loaded
    <3>1. PICK new \in InvoiceRow :
             /\ invoice' = [invoice EXCEPT ![i] = new]
             /\ new.status \in {row.status, mine.status}
             /\ new.sub = IF mine.sub = loaded.sub THEN row.sub ELSE mine.sub
             /\ new.uuid = IF mine.uuid = loaded.uuid THEN row.uuid ELSE mine.uuid
      BY <1>1, <2>4, CommitEffect
    <3>2. pc[t] \in {"submit", "refresh", "cancel"} /\ service' = service
      BY <1>1, <2>4, CommitEffect
    <3>3. /\ mine \in InvoiceRow /\ loaded \in InvoiceRow
          /\ SessionReal(pc[t], sess[t], service, row.uuid)
      BY <1>1, <1>2, <2>4, <3>2 DEF TypeOK, Session
    <3>4. \/ mine.uuid = loaded.uuid
          \/ mine.uuid # None /\ (row.uuid = None \/ row.uuid < mine.uuid)
      BY <1>1, <2>4, <3>2 DEF NumbersGrow
    <3>5. invoice'[i] = new
      BY <1>1, <3>1 DEF TypeOK
    <3> HIDE DEF mine, loaded, row
    <3>6. /\ RealIn(service, i, mine) /\ ListedIn(service, mine)
          /\ loaded.uuid # None => row.uuid # None /\ loaded.uuid <= row.uuid
          /\ mine.sub # loaded.sub /\ mine.sub # None =>
               service[mine.sub].status = "rejected" \/ mine.uuid # loaded.uuid
      BY <2>4, <3>2, <3>3 DEF SessionReal, mine, loaded
    <3>7. /\ mine.uuid \in Docs \cup {None} /\ loaded.uuid \in Docs \cup {None}
          /\ row.sub \in Docs \cup {None} /\ mine.sub \in Docs \cup {None}
      BY <2>1, <3>3 DEF InvoiceRow
    <3>8. /\ row.uuid # None => new.uuid # None /\ row.uuid <= new.uuid
          /\ mine.uuid # None => new.uuid # None /\ mine.uuid <= new.uuid
      <4>1. CASE mine.uuid = loaded.uuid
        BY <2>2, <3>1, <3>6, <4>1, DocsOrdered, Zenon
      <4>2. CASE mine.uuid # loaded.uuid
        BY <2>2, <3>1, <3>4, <3>7, <4>2, DocsOrdered, Zenon
      <4> QED
        BY <4>1, <4>2
    <3>9. RealIn(service', i, new)
      BY <2>1, <3>1, <3>3, <3>6, <3>8, RealStays
    <3>10. ListedIn(service, new)
      <4>1. CASE mine.sub = loaded.sub
        <5>1. SUFFICES ASSUME new.sub # None, service[new.sub].status # "rejected"
                       PROVE  new.uuid # None /\ new.sub <= new.uuid
          BY DEF ListedIn
        <5>2. row.uuid # None /\ row.sub <= row.uuid /\ new.sub = row.sub
          BY <2>1, <3>1, <4>1, <5>1 DEF ListedIn
        <5>3. new.uuid \in Docs /\ row.uuid \in Docs /\ row.sub \in Docs /\ row.uuid <= new.uuid
          BY <2>2, <3>1, <3>7, <3>8, <5>1, <5>2 DEF InvoiceRow
        <5> QED
          BY <5>2, <5>3, DocsOrdered, Zenon
      <4>2. CASE mine.sub # loaded.sub
        BY <3>1, <3>6, <3>8, <4>2 DEF ListedIn
      <4> QED
        BY <4>1, <4>2
    <3> QED
      BY <3>2, <3>5, <3>9, <3>10
  <2>5. ASSUME NEW t \in Threads, Committing(t), sess[t].id # i PROVE invoice'[i] = invoice[i]
    BY <1>1, <2>5, CommitEffect DEF TypeOK
  <2> QED
    BY <1>1, <2>3, <2>4, <2>5, RowsStay
<1>4. ASSUME NEW u \in Threads, pc'[u] # "idle"
      PROVE  SessionReal(pc'[u], sess'[u], service', invoice'[sess'[u].id].uuid)
  <2> DEFINE s == sess[u]
             i == s.id
  <2>1. ASSUME pc[u] # "idle"
        PROVE  /\ i \in Invoices /\ s.loaded \in InvoiceRow /\ s.mine \in InvoiceRow
               /\ IsOwn(i, s.loaded) /\ IsOwn(i, s.mine)
               /\ SessionReal(pc[u], s, service, invoice[i].uuid)
    BY <1>1, <1>2, <2>1 DEF LocksAreHeld, NumbersAreOwn, TypeOK, Session
  <2>2. ASSUME pc[u] # "idle"
        PROVE  /\ ListedIn(service', s.loaded) /\ ListedIn(service', s.mine)
               /\ pc[u] # "withdraw" => RealIn(service', i, s.mine)
               /\ s.loaded.uuid # None =>
                    invoice'[i].uuid # None /\ s.loaded.uuid <= invoice'[i].uuid
               /\ s.mine.sub # s.loaded.sub /\ s.mine.sub # None =>
                    service'[s.mine.sub].status = "rejected" \/ s.mine.uuid # s.loaded.uuid
    <3> DEFINE mine == s.mine
               loaded == s.loaded
    <3>1. /\ mine.uuid \in Docs \cup {None} /\ loaded.uuid \in Docs \cup {None}
          /\ invoice[i].uuid \in Docs \cup {None} /\ invoice'[i].uuid \in Docs \cup {None}
      <4>1. TypeOK'
        BY StepTypeOK DEF IInv
      <4> QED
        BY <1>1, <2>1, <2>2, <4>1 DEF InvoiceRow, TypeOK
    <3> HIDE DEF mine, loaded, i
    <3>2. /\ ListedIn(service, loaded) /\ ListedIn(service, mine)
          /\ pc[u] # "withdraw" => RealIn(service, i, mine)
          /\ loaded.uuid # None => invoice[i].uuid # None /\ loaded.uuid <= invoice[i].uuid
          /\ mine.sub # loaded.sub /\ mine.sub # None =>
               service[mine.sub].status = "rejected" \/ mine.uuid # loaded.uuid
      BY <2>1, <2>2 DEF SessionReal, mine, loaded, i
    <3>3. /\ ListedIn(service', loaded) /\ ListedIn(service', mine)
          /\ mine.sub # None /\ service[mine.sub].status = "rejected" =>
               service'[mine.sub].status = "rejected"
      BY <2>1, <2>2, <3>2, ListedStays DEF mine, loaded
    <3>4. pc[u] # "withdraw" => RealIn(service', i, mine)
      <4>1. mine.uuid # None => mine.uuid <= mine.uuid
        BY <3>1, DocsOrdered, Zenon
      <4> QED
        BY <2>1, <2>2, <3>2, <4>1, RealStays DEF mine
    <3>5. loaded.uuid # None => invoice'[i].uuid # None /\ loaded.uuid <= invoice'[i].uuid
      <4>1. LET old == invoice[i].uuid
                new == invoice'[i].uuid
            IN  old \in {None, new} \/ (new # None /\ old < new)
        BY <2>1, <2>2, UuidGrows
      <4> QED
        BY <3>1, <3>2, <4>1, DocsOrdered, Zenon
    <3>6. mine.sub # loaded.sub /\ mine.sub # None =>
            service'[mine.sub].status = "rejected" \/ mine.uuid # loaded.uuid
      BY <3>2, <3>3
    <3> QED
      BY <3>3, <3>4, <3>5, <3>6 DEF mine, loaded
  <2>3. CASE pc'[u] = pc[u] /\ sess'[u] = sess[u]
    BY <1>4, <2>1, <2>2, <2>3 DEF SessionReal
  <2>4. ASSUME NEW j \in Invoices, Loading(u, j)
        PROVE  SessionReal(pc'[u], sess'[u], service', invoice'[sess'[u].id].uuid)
    <3>1. /\ sess'[u].id = j /\ sess'[u].loaded = invoice[j] /\ invoice' = invoice
          /\ sess'[u].mine.sub = invoice[j].sub /\ sess'[u].mine.uuid = invoice[j].uuid
          /\ pc'[u] \in {"claim", "poll", "withdraw", "clear"}
          /\ pc'[u] = "claim" => sess'[u].mine.status = "submitting"
          /\ pc'[u] = "withdraw" => sess'[u].mine.status = "cancelled"
          /\ pc'[u] \in {"poll", "clear"} => sess'[u].mine.status = invoice[j].status
          /\ service' = service
      BY <1>1, <2>4, LoadEffect
    <3>2. RealIn(service, j, invoice[j]) /\ ListedIn(service, invoice[j])
          /\ invoice[j].uuid \in Docs \cup {None}
      BY <1>1, <1>2 DEF TypeOK, InvoiceRow
    <3>3. invoice[j].uuid # None => invoice[j].uuid <= invoice[j].uuid
      BY <3>2, DocsOrdered, Zenon
    <3>4. pc'[u] # "withdraw" => RealIn(service, j, sess'[u].mine)
      BY <3>1, <3>2 DEF RealIn
    <3>5. ListedIn(service, sess'[u].mine)
      BY <3>1, <3>2 DEF ListedIn
    <3> QED
      BY <3>1, <3>2, <3>3, <3>4, <3>5 DEF SessionReal
  <2>5. CASE SubmitFlush(u) \/ LinesClear(u)
    <3>1. /\ pc[u] \notin {"idle", "withdraw"} /\ pc'[u] # "withdraw" /\ sess'[u].id = i
          /\ sess'[u].loaded = s.loaded /\ sess'[u].mine = s.mine
      BY <1>1, <2>5, FlushEffect, LinesEffect
    <3> QED
      BY <2>1, <2>2, <3>1 DEF SessionReal
  <2>6. CASE Poll(u)
    <3>1. /\ pc[u] = "poll" /\ pc'[u] = "refresh" /\ sess'[u].id = i
          /\ sess'[u].loaded = s.loaded /\ service' = service /\ s.loaded.sub \in Docs
          /\ sess'[u].mine.sub = s.mine.sub /\ sess'[u].mine.uuid = s.mine.uuid
          /\ sess'[u].mine.status = Mapped(service[s.loaded.sub].status)
      BY <1>1, <2>6, PollEffect
    <3>2. s.mine.uuid = s.loaded.uuid
      BY <1>1, <3>1 DEF NumbersGrow
    <3>3. /\ ListedIn(service, s.loaded) /\ service[s.loaded.sub].of = i /\ s.loaded.sub # None
      BY <1>1, <2>1, <3>1 DEF SessionReal, IsOwn
    <3>4. RealIn(service', i, sess'[u].mine)
      BY <3>1, <3>2, <3>3 DEF RealIn, ListedIn, Mapped
    <3> QED
      BY <2>2, <3>1, <3>4 DEF SessionReal, ListedIn
  <2>7. CASE CancelCall(u)
    <3>1. /\ pc[u] = "withdraw" /\ pc'[u] = "cancel" /\ sess'[u] = s
          /\ s.loaded.uuid \in Docs /\ Withdraw(s.loaded.uuid)
      BY <1>1, <2>7, WithdrawEffect
    <3>2. s.mine.uuid = s.loaded.uuid
      BY <1>1, <3>1 DEF NumbersGrow
    <3>3. service[s.loaded.uuid].of = i /\ service[s.loaded.uuid] \in Document
      BY <1>1, <2>1, <3>1 DEF IsOwn, TypeOK
    <3>4. service'[s.loaded.uuid].of = i /\ service'[s.loaded.uuid].status = "cancelled"
      BY <1>1, <3>1, <3>3 DEF Withdraw, TypeOK, Document
    <3>5. RealIn(service', i, s.mine)
      <4>1. s.loaded.uuid # None /\ s.loaded.uuid <= s.loaded.uuid
        BY <3>1, DocsOrdered, Zenon
      <4> QED
        BY <3>1, <3>2, <3>4, <4>1 DEF RealIn
    <3> QED
      BY <2>2, <3>1, <3>5 DEF SessionReal
  <2>8. CASE SubmitSend(u)
    <3>1. /\ pc[u] = "send" /\ pc'[u] = "submit" /\ sess'[u].id = i /\ sess'[u].loaded = s.loaded
      BY <1>1, <2>8, SendEffect
    <3>2. PICK d \in FreshDocs :
            LET new == sess'[u].mine IN
            /\ new.status \in {"submitted", "invalid"}
            /\ \/ new.sub = d /\ new.uuid = d
               \/ /\ service' = [service EXCEPT ![d] = [of |-> i, lines |-> lines[i],
                                                        status |-> "rejected"]]
                  /\ new.sub = d /\ new.uuid = s.mine.uuid
               \/ new.sub = s.mine.sub /\ new.uuid = s.mine.uuid
      BY <1>1, <2>8, SendEffect
    <3>3. d \in Docs /\ d <= d /\ service[d] = NoDocument
      BY <1>1 DEF FreshDocs
    <3>4. RealIn(service', i, sess'[u].mine)
      BY <3>2 DEF RealIn
    <3>5. s.loaded.uuid # d
      BY <1>1, <2>1, <3>1, <3>3, ClearanceAssumption DEF IsOwn, NoDocument
    <3>6. CASE sess'[u].mine.sub = d /\ sess'[u].mine.uuid = d
      BY <1>1, <2>2, <3>1, <3>3, <3>4, <3>5, <3>6 DEF SessionReal, ListedIn
    <3>7. CASE /\ service' = [service EXCEPT ![d] = [of |-> i, lines |-> lines[i],
                                                     status |-> "rejected"]]
               /\ sess'[u].mine.sub = d /\ sess'[u].mine.uuid = s.mine.uuid
      <4>1. service'[d].status = "rejected"
        BY <1>1, <3>3, <3>7 DEF TypeOK
      <4> QED
        BY <2>2, <3>1, <3>4, <3>7, <4>1 DEF SessionReal, ListedIn
    <3>8. CASE sess'[u].mine.sub = s.mine.sub /\ sess'[u].mine.uuid = s.mine.uuid
      BY <2>2, <3>1, <3>4, <3>8 DEF SessionReal, ListedIn
    <3> QED
      BY <3>2, <3>6, <3>7, <3>8
  <2> QED
    BY <1>1, <1>4, <2>3, <2>4, <2>5, <2>6, <2>7, <2>8, SessionSteps
<1>5. AnswersAreReal' <=>
        /\ \A i \in Invoices : RealIn(service', i, invoice'[i]) /\ ListedIn(service', invoice'[i])
        /\ \A t \in Threads : pc'[t] # "idle" =>
             SessionReal(pc'[t], sess'[t], service', invoice'[sess'[t].id].uuid)
  <2>1. ASSUME NEW i, NEW row PROVE IsReal(i, row)' <=> RealIn(service', i, row)
    BY DEF IsReal, Recorded, RealIn
  <2> QED
    BY DEF AnswersAreReal, SessionReal, IsReal, IsListed, Recorded, RealIn, ListedIn
<1> QED
  BY <1>3, <1>4, <1>5

-----------------------------------------------------------------------------
(* Theorems for every interleaving *)

LEMMA InitIInv == Init => IInv
<1> SUFFICES ASSUME Init PROVE IInv
  OBVIOUS
<1>1. /\ \A i \in Invoices : invoice[i] = NewInvoice
      /\ \A d \in Docs : service[d] = NoDocument
      /\ \A t \in Threads : pc[t] = "idle" /\ sess[t] = NoSession
  BY DEF Init
<1>2. TypeOK
  BY NullTypes DEF Init, TypeOK
<1>3. LocksAreHeld
  BY <1>1 DEF LocksAreHeld
<1>4. MarksAreOwn
  BY <1>1 DEF MarksAreOwn, NothingLeftSubmitting, NoSession, NewInvoice
<1>5. NumbersAreOwn
  BY <1>1 DEF NumbersAreOwn, IsOwn, NewInvoice
<1>6. NumbersGrow
  BY <1>1 DEF NumbersGrow
<1>7. AnswersAreReal
  BY <1>1 DEF AnswersAreReal, IsReal, IsListed, NewInvoice
<1> QED
  BY <1>2, <1>3, <1>4, <1>5, <1>6, <1>7 DEF IInv

LEMMA StepIInv == IInv /\ [Next]_vars => IInv'
BY StepTypeOK, KeepLocksAreHeld, KeepMarksAreOwn, KeepNumbersAreOwn, KeepNumbersGrow,
   KeepAnswersAreReal DEF IInv

\* The inductive invariant holds in every reachable state: whichever requests run at
\* once, die or get no answer.
THEOREM Invariance == Spec => []IInv
BY InitIInv, StepIInv, PTL DEF Spec

\* Every variable keeps its type; in particular each status that the service may have
\* for a document is mapped to one that an invoice may have (backends.py).
THEOREM TypeCorrect == Spec => []TypeOK
<1>1. IInv => TypeOK
  BY DEF IInv
<1> QED
  BY <1>1, Invariance, PTL

\* No invoice is ever committed as `submitting' (einvoice_routes.py).
THEOREM NoneLeftSubmitting == Spec => []NothingLeftSubmitting
<1>1. IInv => NothingLeftSubmitting
  BY DEF IInv, MarksAreOwn
<1> QED
  BY <1>1, Invariance, PTL

\* The document on record is only ever replaced by a later one: the row lock taken by
\* the flush of `submitting' keeps submissions of one invoice apart.
THEOREM NewestStaysOnRecord == Spec => NewestOnRecord
<1>1. IInv /\ [Next]_vars => \A i \in Invoices : LET old == invoice[i].uuid
                                                      new == invoice'[i].uuid
                                                  IN  old \in {None, new} \/ (new # None /\ old < new)
  BY UuidGrows
<1> QED
  BY <1>1, Invariance, PTL DEF Spec, NewestOnRecord

\* Whenever an answer is written, an invoice that reads valid or cancelled has a document
\* that the service has decided so, or a later one, on record (_apply, submit, cancel).
THEOREM DecisionsStayReal == Spec => []DecisionsAreReal
<1>1. IInv => DecisionsAreReal
  BY DEF IInv, AnswersAreReal, DecisionsAreReal
<1> QED
  BY <1>1, Invariance, PTL

-----------------------------------------------------------------------------
(* One request at a time *)

\* What a row says of the service's documents goes on being so.
LEMMA TrueStays ==
    ASSUME IInv, [Next]_vars, NEW i \in Invoices, NEW row \in InvoiceRow,
           IsOwn(i, row), IsTrue(row)
    PROVE  /\ row.status \in {"valid", "cancelled"} => row.uuid # None
           /\ row.status = "valid" => service'[row.uuid].status \in {"valid", "cancelled"}
           /\ row.status = "cancelled" => service'[row.uuid].status = "cancelled"
           /\ row.sub # None => row.sub = row.uuid \/ service'[row.sub].status = "rejected"
           /\ row.uuid # None /\ service'[row.uuid].status \in Submitted =>
                row.status \in Submitted
<1>1. TypeOK /\ LocksAreHeld /\ NumbersAreOwn /\ i # None
  BY ClearanceAssumption DEF IInv
<1>2. ASSUME NEW d \in Docs, service[d].of = i
      PROVE  /\ \/ service'[d].status = service[d].status
                \/ Live(d) /\ service'[d].status = "cancelled"
                \/ service[d].status = "submitted" /\ service'[d].status \in {"valid", "invalid"}
  <2>1. service[d] # NoDocument
    BY <1>1, <1>2 DEF NoDocument
  <2> QED
    BY <1>1, <2>1, ServiceKeeps
<1>3. row.sub \in Docs \cup {None} /\ row.uuid \in Docs \cup {None}
  BY DEF InvoiceRow
<1>4. CASE row.uuid = None
  BY <1>2, <1>3, <1>4 DEF IsOwn, IsTrue, Live, Submitted
<1>5. CASE row.uuid # None
  <2>1. row.uuid \in Docs /\ service[row.uuid].of = i
    BY <1>3, <1>5 DEF IsOwn
  <2>2. row.sub # None => row.sub = row.uuid \/ service'[row.sub].status = "rejected"
    BY <1>2, <1>3 DEF IsOwn, IsTrue, Live, Submitted
  <2> QED
    BY <1>2, <1>5, <2>1, <2>2 DEF IsTrue, Live, Submitted
<1> QED
  BY <1>4, <1>5

\* Whoever is at work is the only one.
LEMMA OnlyOne ==
    ASSUME Serial, TypeOK, LocksAreHeld, NumbersAreOwn, [Next]_vars,
           NEW u \in Threads, pc[u] # "idle", pc'[u] = pc[u], sess'[u] = sess[u]
    PROVE  invoice' = invoice /\ lines' = lines
<1>1. \A t \in Threads : t = u
  BY DEF Serial
<1>2. ~Committing(u) /\ ~Ending(u)
  BY CommitEffect, EndEffect
<1>3. invoice' = invoice
  BY <1>1, <1>2, RowsStay
<1>4. \A i \in Invoices : ~Loading(u, i)
  BY LoadEffect
<1> QED
  BY <1>1, <1>2, <1>3, <1>4, StepCases DEF SubmitFlush, SubmitSend, Poll, CancelCall, LinesClear,
     Validate, vars

LEMMA KeepCopyIsFresh ==
    ASSUME Serial, SerialIInv, [Next]_vars
    PROVE  CopyIsFresh'
<1>1. TypeOK /\ LocksAreHeld /\ NumbersAreOwn /\ CopyIsFresh
  BY DEF SerialIInv, IInv
<1> DEFINE Fresh(p, s, row) ==
        /\ p # "idle" => s.loaded = row
        /\ p \in {"claim", "send", "submit", "clear", "replace"} => s.loaded.status \notin Submitted
        /\ p # "submit" => s.mine.sub = s.loaded.sub /\ s.mine.uuid = s.loaded.uuid
        /\ p \in {"withdraw", "cancel"} => s.mine.status = "cancelled"
<1>2. \A u \in Threads : Fresh(pc[u], sess[u], invoice[sess[u].id])
  BY <1>1 DEF CopyIsFresh
<1> SUFFICES ASSUME NEW u \in Threads PROVE Fresh(pc'[u], sess'[u], invoice'[sess'[u].id])
  BY DEF CopyIsFresh
<1>3. CASE pc'[u] = pc[u] /\ sess'[u] = sess[u]
  BY <1>1, <1>2, <1>3, OnlyOne
<1>4. CASE pc'[u] = "idle" /\ sess'[u] = NoSession
  BY <1>4 DEF NoSession
<1>5. ASSUME NEW i \in Invoices, Loading(u, i)
      PROVE  Fresh(pc'[u], sess'[u], invoice'[sess'[u].id])
  BY <1>1, <1>5, LoadEffect
<1>6. CASE SubmitFlush(u)
  BY <1>1, <1>2, <1>6, FlushEffect
<1>7. CASE SubmitSend(u)
  BY <1>1, <1>2, <1>7, SendEffect
<1>8. CASE Poll(u)
  BY <1>1, <1>2, <1>8, PollEffect
<1>9. CASE CancelCall(u)
  BY <1>1, <1>2, <1>9, WithdrawEffect
<1>10. CASE LinesClear(u)
  BY <1>1, <1>2, <1>10, LinesEffect
<1> QED
  BY <1>1, <1>3, <1>4, <1>5, <1>6, <1>7, <1>8, <1>9, <1>10, SessionSteps

\* A commit makes the row what the session says.
LEMMA SerialCommit ==
    ASSUME Serial, SerialIInv, NEW t \in Threads, Committing(t)
    PROVE  /\ invoice' = [invoice EXCEPT ![sess[t].id] = sess[t].mine]
           /\ sess[t].id \in Invoices /\ IsTrue(sess[t].mine)
           /\ service' = service /\ pc[t] \in {"submit", "refresh", "cancel"}
<1>1. TypeOK /\ LocksAreHeld /\ NumbersAreOwn /\ CopyIsFresh
  BY DEF SerialIInv, IInv
<1>2. /\ pc[t] \in {"submit", "refresh", "cancel"} /\ sess[t].id \in Invoices
      /\ service' = service
      /\ \E new \in InvoiceRow :
           /\ invoice' = [invoice EXCEPT ![sess[t].id] = new]
           /\ sess[t].loaded = invoice[sess[t].id] => new = sess[t].mine
  BY <1>1, CommitEffect
<1>3. sess[t].loaded = invoice[sess[t].id]
  BY <1>1, <1>2 DEF CopyIsFresh
<1> QED
  BY <1>2, <1>3 DEF SerialIInv, RowsAreTrue

\* Where a session goes on only if nothing counts, nothing does.
LEMMA NothingLive ==
    ASSUME Serial, SerialIInv, NEW t \in Threads, pc[t] \in {"claim", "send", "clear", "replace"}
    PROVE  \A d \in Docs : ~(Live(d) /\ service[d].of = sess[t].id)
<1> SUFFICES ASSUME NEW d \in Docs, Live(d), service[d].of = sess[t].id PROVE FALSE
  OBVIOUS
<1>1. /\ sess[t].id \in Invoices /\ sess[t].loaded = invoice[sess[t].id]
      /\ sess[t].loaded.status \notin Submitted
  BY DEF SerialIInv, IInv, LocksAreHeld, CopyIsFresh
<1>2. invoice[sess[t].id].uuid = d
  BY DEF SerialIInv, LiveIsKnown, Serial
<1> QED
  BY <1>1, <1>2 DEF SerialIInv, RowsAreTrue, IsTrue

LEMMA KeepRowsAreTrue ==
    ASSUME Serial, SerialIInv, [Next]_vars
    PROVE  RowsAreTrue'
<1>1. /\ IInv /\ TypeOK /\ LocksAreHeld /\ NumbersAreOwn /\ CopyIsFresh /\ RowsAreTrue
      /\ "lost" \notin Answers
  BY DEF SerialIInv, IInv, Serial
<1>2. ASSUME NEW i \in Invoices PROVE IsTrue(invoice[i])'
  <2> DEFINE row == invoice[i]
  <2>1. row \in InvoiceRow /\ IsOwn(i, row) /\ IsTrue(row)
    BY <1>1 DEF RowsAreTrue, NumbersAreOwn, TypeOK
  <2> HIDE DEF row
  <2>2. /\ row.status \in {"valid", "cancelled"} => row.uuid # None
        /\ row.status = "valid" => service'[row.uuid].status \in {"valid", "cancelled"}
        /\ row.status = "cancelled" => service'[row.uuid].status = "cancelled"
        /\ row.sub # None => row.sub = row.uuid \/ service'[row.sub].status = "rejected"
        /\ row.uuid # None /\ service'[row.uuid].status \in Submitted => row.status \in Submitted
    BY <1>1, <2>1, TrueStays
  <2>3. CASE invoice'[i] = row
    BY <2>2, <2>3 DEF IsTrue, Live
  <2>4. ASSUME NEW t \in Threads, Committing(t), i = sess[t].id PROVE IsTrue(invoice[i])'
    <3>1. invoice'[i] = sess[t].mine /\ service' = service /\ IsTrue(sess[t].mine)
      BY <1>1, <2>4, SerialCommit DEF TypeOK
    <3> QED
      BY <3>1 DEF IsTrue, Live
  <2>5. ASSUME NEW t \in Threads, Committing(t), i # sess[t].id PROVE invoice'[i] = row
    BY <1>1, <2>5, SerialCommit DEF TypeOK, row
  <2> QED
    BY <1>1, <2>3, <2>4, <2>5, RowsStay DEF row
<1>3. ASSUME NEW u \in Threads, pc'[u] \in {"submit", "refresh", "cancel"}
      PROVE  IsTrue(sess[u].mine)'
  <2> DEFINE mine == sess[u].mine
             loaded == sess[u].loaded
             id == sess[u].id
             new == sess'[u].mine
  <2>1. mine \in InvoiceRow /\ (pc[u] # "idle" => id \in Invoices /\ IsOwn(id, mine))
    BY <1>1 DEF TypeOK, Session, LocksAreHeld, NumbersAreOwn
  <2>2. CASE pc'[u] = pc[u] /\ sess'[u] = sess[u]
    <3>1. pc[u] # "idle" /\ IsTrue(mine) /\ new = mine
      BY <1>1, <1>3, <2>2 DEF RowsAreTrue
    <3> HIDE DEF mine, id
    <3>2. /\ mine.status \in {"valid", "cancelled"} => mine.uuid # None
          /\ mine.status = "valid" => service'[mine.uuid].status \in {"valid", "cancelled"}
          /\ mine.status = "cancelled" => service'[mine.uuid].status = "cancelled"
          /\ mine.sub # None => mine.sub = mine.uuid \/ service'[mine.sub].status = "rejected"
          /\ mine.uuid # None /\ service'[mine.uuid].status \in Submitted =>
               mine.status \in Submitted
      BY <1>1, <2>1, <3>1, TrueStays
    <3> QED
      BY <3>1, <3>2 DEF IsTrue, Live
  <2>3. ASSUME pc[u] # "idle", pc[u] # "submit"
        PROVE  /\ id \in Invoices /\ loaded = invoice[id] /\ IsOwn(id, loaded)
               /\ loaded \in InvoiceRow
               /\ mine.sub = loaded.sub /\ mine.uuid = loaded.uuid /\ IsTrue(loaded)
               /\ loaded.sub # None =>
                    loaded.sub = loaded.uuid \/ service'[loaded.sub].status = "rejected"
               /\ loaded.uuid # None /\ service'[loaded.uuid].status \in Submitted =>
                    loaded.status \in Submitted
    <3>1. /\ id \in Invoices /\ loaded = invoice[id]
          /\ mine.sub = loaded.sub /\ mine.uuid = loaded.uuid
      BY <1>1, <2>1, <2>3 DEF CopyIsFresh
    <3>2. IsTrue(loaded) /\ IsOwn(id, loaded) /\ loaded \in InvoiceRow
      BY <1>1, <3>1 DEF RowsAreTrue, NumbersAreOwn, TypeOK
    <3> HIDE DEF mine, loaded, id
    <3> QED
      BY <1>1, <3>1, <3>2, TrueStays
  <2>4. CASE SubmitSend(u)
    <3>1. pc[u] = "send" /\ loaded.status \notin Submitted
      BY <1>1, <2>4, SendEffect DEF CopyIsFresh
    <3>2. PICK d \in FreshDocs :
            \/ new.status = "submitted" /\ new.sub = d /\ new.uuid = d
            \/ /\ service' = [service EXCEPT ![d] = [of |-> id, lines |-> lines[id],
                                                     status |-> "rejected"]]
               /\ new.status \in {"submitted", "invalid"} /\ new.sub = d /\ new.uuid = mine.uuid
            \/ /\ new.status \in {"submitted", "invalid"}
               /\ new.sub = mine.sub /\ new.uuid = mine.uuid
      BY <1>1, <2>4, SendEffect
    <3>3. service' = [service EXCEPT ![d] = [of |-> id, lines |-> lines[id],
                                             status |-> "rejected"]]
          => service'[d].status = "rejected"
      BY <1>1 DEF TypeOK, FreshDocs
    <3> HIDE DEF mine, loaded, id, new
    <3>4. /\ new.status \in {"submitted", "invalid"}
          /\ new.sub # None => new.sub = new.uuid \/ service'[new.sub].status = "rejected"
          /\ new.uuid # None /\ service'[new.uuid].status \in Submitted =>
               new.status \in Submitted
      BY <2>3, <3>1, <3>2, <3>3 DEF Submitted
    <3> QED
      BY <3>4 DEF IsTrue, Live, new
  <2>5. CASE Poll(u)
    <3>1. /\ pc[u] = "poll" /\ service' = service /\ loaded.sub # None
          /\ new.sub = mine.sub /\ new.uuid = mine.uuid
          /\ new.status = Mapped(service[loaded.sub].status)
      BY <1>1, <2>5, PollEffect, ClearanceAssumption
    <3> HIDE DEF mine, loaded, id, new
    <3>2. loaded.sub = loaded.uuid \/ service[loaded.sub].status = "rejected"
      BY <2>3, <3>1
    <3>3. /\ new.status \in {"valid", "cancelled"} => new.uuid # None
          /\ new.status = "valid" => service'[new.uuid].status \in {"valid", "cancelled"}
          /\ new.status = "cancelled" => service'[new.uuid].status = "cancelled"
          /\ new.sub # None => new.sub = new.uuid \/ service'[new.sub].status = "rejected"
          /\ new.uuid # None /\ service'[new.uuid].status \in Submitted =>
               new.status \in Submitted
      BY <2>3, <3>1, <3>2 DEF Mapped, Submitted
    <3> QED
      BY <3>3 DEF IsTrue, Live, new
  <2>6. CASE CancelCall(u)
    <3>1. /\ pc[u] = "withdraw" /\ loaded.uuid \in Docs /\ loaded.uuid # None /\ new = mine
          /\ service' = [service EXCEPT ![loaded.uuid].status = "cancelled"]
      BY <1>1, <2>6, WithdrawEffect, ClearanceAssumption DEF Withdraw
    <3>2. mine.status = "cancelled"
      BY <1>1, <3>1 DEF CopyIsFresh
    <3>3. service'[loaded.uuid].status = "cancelled"
      <4>1. service[loaded.uuid] \in Document
        BY <1>1, <3>1 DEF TypeOK
      <4> HIDE DEF loaded
      <4> QED
        BY <1>1, <3>1, <4>1 DEF TypeOK, Document
    <3> HIDE DEF mine, loaded, id, new
    <3>4. /\ new.status \in {"valid", "cancelled"} => new.uuid # None
          /\ new.status = "valid" => service'[new.uuid].status \in {"valid", "cancelled"}
          /\ new.status = "cancelled" => service'[new.uuid].status = "cancelled"
          /\ new.sub # None => new.sub = new.uuid \/ service'[new.sub].status = "rejected"
          /\ new.uuid # None /\ service'[new.uuid].status \in Submitted =>
               new.status \in Submitted
      BY <2>3, <3>1, <3>2, <3>3 DEF Submitted
    <3> QED
      BY <3>4 DEF IsTrue, Live, new
  <2>7. \A i \in Invoices : ~Loading(u, i)
    BY <1>1, <1>3, LoadEffect
  <2>8. ~SubmitFlush(u) /\ ~LinesClear(u)
    BY <1>1, <1>3, FlushEffect, LinesEffect
  <2> QED
    BY <1>1, <1>3, <2>2, <2>4, <2>5, <2>6, <2>7, <2>8, SessionSteps
<1> QED
  BY <1>2, <1>3 DEF RowsAreTrue

\* A document that counts now did so before, or has just been received for an invoice
\* that had none.
LEMMA LiveBefore ==
    ASSUME Serial, SerialIInv, [Next]_vars, NEW d \in Docs, Live(d)'
    PROVE  \/ Live(d) /\ service'[d].of = service[d].of /\ service'[d].lines = service[d].lines
           \/ \E t \in Threads :
                /\ SubmitSend(t) /\ pc'[t] = "submit" /\ sess'[t].id = service'[d].of
                /\ sess'[t].mine.uuid = d
                /\ service'[d].lines = lines[service'[d].of] /\ lines' = lines
<1>1. /\ IInv /\ TypeOK /\ LocksAreHeld /\ NumbersAreOwn /\ "lost" \notin Answers
      /\ service'[d].status \in Submitted
  BY DEF SerialIInv, IInv, Serial, Live
<1>2. CASE service[d] # NoDocument
  <2>1. /\ service'[d].of = service[d].of /\ service'[d].lines = service[d].lines
        /\ \/ service'[d].status = service[d].status
           \/ Live(d) /\ service'[d].status = "cancelled"
           \/ service[d].status = "submitted" /\ service'[d].status \in {"valid", "invalid"}
    BY <1>1, <1>2, ServiceKeeps
  <2> QED
    BY <1>1, <2>1, ClearanceAssumption DEF Live, Submitted
<1>3. CASE service[d] = NoDocument
  <2>1. PICK t \in Threads : SubmitSend(t)
    BY <1>1, <1>3, OnlySendsNumber DEF NoDocument, Submitted
  <2>2. PICK c \in FreshDocs :
          \/ /\ service' = [service EXCEPT ![c] = [of |-> sess[t].id, lines |-> lines[sess[t].id],
                                                   status |-> "submitted"]]
             /\ sess'[t].mine.uuid = c
          \/ service' = [service EXCEPT ![c] = [of |-> sess[t].id, lines |-> lines[sess[t].id],
                                                status |-> "rejected"]]
          \/ service' = service
    BY <1>1, <2>1, SendEffect
  <2>3. /\ c = d
        /\ service' = [service EXCEPT ![d] = [of |-> sess[t].id, lines |-> lines[sess[t].id],
                                              status |-> "submitted"]]
        /\ sess'[t].mine.uuid = d
    BY <1>1, <1>3, <2>2 DEF TypeOK, NoDocument, Submitted, FreshDocs
  <2>4. pc'[t] = "submit" /\ sess'[t].id = sess[t].id /\ lines' = lines
    BY <1>1, <2>1, SendEffect
  <2>5. service'[d].of = sess[t].id /\ service'[d].lines = lines[sess[t].id]
    BY <1>1, <2>3 DEF TypeOK
  <2> QED
    BY <2>1, <2>3, <2>4, <2>5
<1> QED
  BY <1>2, <1>3

LEMMA KeepLiveIsKnown ==
    ASSUME Serial, SerialIInv, [Next]_vars
    PROVE  LiveIsKnown'
<1>1. /\ IInv /\ TypeOK /\ LocksAreHeld /\ NumbersAreOwn /\ CopyIsFresh /\ RowsAreTrue
      /\ LiveIsKnown /\ NumbersGrow /\ ~Faults /\ \A t, u \in Threads : t = u
  BY DEF SerialIInv, IInv, Serial
<1> SUFFICES ASSUME NEW d \in Docs, Live(d)'
             PROVE  \/ invoice'[service'[d].of].uuid = d
                    \/ \E t \in Threads : /\ pc'[t] = "submit" /\ sess'[t].id = service'[d].of
                                          /\ sess'[t].mine.uuid = d
  BY DEF LiveIsKnown
<1>2. CASE Live(d) /\ service'[d].of = service[d].of
  <2> DEFINE i == service[d].of
  <2>1. i \in Invoices
    BY <1>1, <1>2 DEF NumbersAreOwn, TypeOK, Document, NoDocument, Live, Submitted
  <2>2. CASE invoice[i].uuid = d
    <3>1. invoice[i].status \in Submitted
      BY <1>1, <1>2, <2>1, <2>2 DEF RowsAreTrue, IsTrue
    <3> HIDE DEF i
    <3>2. ASSUME NEW t \in Threads, pc[t] = "submit", sess[t].id = i PROVE FALSE
      BY <1>1, <2>1, <3>1, <3>2 DEF CopyIsFresh
    <3>3. invoice'[i].uuid = invoice[i].uuid
      BY <1>1, <2>1, <3>2, UuidStays
    <3> QED
      BY <1>2, <2>2, <3>3 DEF i
  <2>3. ASSUME NEW t \in Threads, pc[t] = "submit", sess[t].id = i, sess[t].mine.uuid = d
        PROVE  \/ invoice'[i].uuid = d
               \/ pc'[t] = "submit" /\ sess'[t].id = i /\ sess'[t].mine.uuid = d
    <3> HIDE DEF i
    <3>1. CASE Committing(t)
      BY <1>1, <2>1, <2>3, <3>1, SerialCommit DEF TypeOK
    <3>2. ~Ending(t)
      BY <1>1, <2>3 DEF Ending, PollRaises, CancelRaises, LinesCommit, Abort, Finish, Continue
    <3>3. \/ \E j \in Invoices : Loading(t, j)
          \/ SubmitFlush(t) \/ SubmitSend(t) \/ Poll(t) \/ CancelCall(t) \/ LinesClear(t)
          => FALSE
      BY <1>1, <2>3, LoadEffect, FlushEffect, SendEffect, PollEffect, WithdrawEffect, LinesEffect
    <3>4. CASE (\E c \in Docs : Validate(c)) \/ UNCHANGED vars
      BY <2>3, <3>4 DEF Validate, vars
    <3> QED
      BY <1>1, <3>1, <3>2, <3>3, <3>4, StepCases
  <2> QED
    BY <1>1, <1>2, <2>2, <2>3 DEF LiveIsKnown
<1> QED
  BY <1>2, LiveBefore

LEMMA KeepLinesMatch ==
    ASSUME Serial, SerialIInv, [Next]_vars
    PROVE  LinesMatchDocument'
<1>1. TypeOK /\ LocksAreHeld /\ NumbersAreOwn /\ LinesMatchDocument
  BY DEF SerialIInv, IInv
<1> SUFFICES ASSUME NEW d \in Docs, Live(d)'
             PROVE  service'[d].lines = lines'[service'[d].of]
  BY DEF LinesMatchDocument
<1>2. CASE /\ Live(d) /\ service'[d].of = service[d].of
           /\ service'[d].lines = service[d].lines
  <2> DEFINE i == service[d].of
  <2>1. ASSUME NEW t \in Threads, LinesCommit(t) PROVE lines'[i] = lines[i]
    <3>1. pc[t] = "replace"
      BY <2>1 DEF LinesCommit, Finish, Continue
    <3>2. sess[t].id # i
      BY <1>2, <3>1, NothingLive
    <3> QED
      BY <1>1, <2>1, <3>2 DEF LinesCommit, TypeOK
  <2>2. (\E t \in Threads : LinesCommit(t)) \/ lines' = lines
    BY <1>1, LinesStay
  <2>3. lines'[i] = lines[i]
    BY <2>1, <2>2
  <2> QED
    BY <1>1, <1>2, <2>3 DEF LinesMatchDocument
<1> QED
  BY <1>2, LiveBefore

LEMMA SerialInit ==
    ASSUME Init
    PROVE  SerialIInv
<1>1. /\ \A i \in Invoices : invoice[i] = NewInvoice /\ lines[i] = {}
      /\ \A d \in Docs : service[d] = NoDocument
      /\ \A t \in Threads : pc[t] = "idle" /\ sess[t] = NoSession
  BY DEF Init
<1>2. IInv
  BY InitIInv
<1>3. CopyIsFresh
  BY <1>1 DEF CopyIsFresh, NoSession
<1>4. \A d \in Docs : ~Live(d)
  BY <1>1 DEF Live, NoDocument, Submitted
<1>5. RowsAreTrue
  BY <1>1 DEF RowsAreTrue, IsTrue, NewInvoice, Live
<1>6. LiveIsKnown /\ LinesMatchDocument
  BY <1>4 DEF LiveIsKnown, LinesMatchDocument
<1> QED
  BY <1>2, <1>3, <1>5, <1>6 DEF SerialIInv

\* With one request at a time, and every answer arriving, rows and sessions agree with
\* what the service has.
THEOREM SerialInvariance ==
    ASSUME Serial
    PROVE  Spec => []SerialIInv
<1>1. Init => SerialIInv
  BY SerialInit
<1>2. SerialIInv /\ [Next]_vars => SerialIInv'
  BY StepIInv, KeepCopyIsFresh, KeepRowsAreTrue, KeepLiveIsKnown, KeepLinesMatch
     DEF SerialIInv
<1> QED
  BY <1>1, <1>2, PTL DEF Spec

\* A valid document is not submitted again: of one invoice at most one document counts.
THEOREM OneIsLive ==
    ASSUME Serial
    PROVE  Spec => []OneLiveDocument
<1>1. SerialIInv => OneLiveDocument
  <2> SUFFICES ASSUME SerialIInv, NEW d \in Docs, NEW e \in Docs, Live(d), Live(e),
                      service[d].of = service[e].of
               PROVE  d = e
    BY DEF OneLiveDocument
  <2>1. service[d].of \in Invoices
    BY DEF SerialIInv, IInv, NumbersAreOwn, TypeOK, Document, NoDocument, Live, Submitted
  <2>2. ASSUME NEW c \in Docs, Live(c), service[c].of = service[d].of, NEW t \in Threads,
               pc[t] = "submit", sess[t].id = service[d].of
        PROVE  invoice[service[d].of].uuid # c
    BY <2>1, <2>2 DEF SerialIInv, CopyIsFresh, RowsAreTrue, IsTrue
  <2> QED
    BY <2>2 DEF SerialIInv, LiveIsKnown, Serial
<1> QED
  BY <1>1, SerialInvariance, PTL

\* The status on record is what the service found, and what counts is on record.
THEOREM RecordStaysBacked ==
    ASSUME Serial
    PROVE  Spec => []RecordIsBacked
<1>1. SerialIInv => RecordIsBacked
  <2> SUFFICES ASSUME SerialIInv PROVE RecordIsBacked
    OBVIOUS
  <2>1. \A d \in Docs : Live(d) => service[d].of \in Invoices
    BY DEF SerialIInv, IInv, NumbersAreOwn, TypeOK, Document, NoDocument, Live, Submitted
  <2>2. ASSUME NEW d \in Docs, Live(d), ~Sending(service[d].of)
        PROVE  invoice[service[d].of].uuid = d /\ invoice[service[d].of].status \in Submitted
    BY <2>1, <2>2 DEF SerialIInv, LiveIsKnown, Sending, RowsAreTrue, IsTrue
  <2>3. ASSUME NEW i \in Invoices
        PROVE  /\ invoice[i].status = "valid" =>
                    service[invoice[i].uuid].status \in {"valid", "cancelled"}
               /\ invoice[i].status = "cancelled" => service[invoice[i].uuid].status = "cancelled"
    BY DEF SerialIInv, RowsAreTrue, IsTrue
  <2> QED
    BY <2>2, <2>3 DEF RecordIsBacked
<1> QED
  BY <1>1, SerialInvariance, PTL

\* "Cannot edit lines after submission": the lines of an invoice are those of the
\* document that counts.
THEOREM LinesStayAsSent ==
    ASSUME Serial
    PROVE  Spec => []LinesMatchDocument
<1>1. SerialIInv => LinesMatchDocument
  BY DEF SerialIInv
<1> QED
  BY <1>1, SerialInvariance, PTL
=============================================================================
