--------------------------- MODULE DocumentPipeline ---------------------------
(***************************************************************************)
(* The document pipeline of the backend: the raw landing zone              *)
(* (raw_routes.py, raw_store.py), the ETL that promotes a landed document  *)
(* to a curated file, the ingestion that turns a file into an e-invoice    *)
(* (ingestion.py), and the upload, OCR and delete routes that work on the  *)
(* same rows and the same stored objects (files.py, ocr_routes.py).        *)
(*                                                                         *)
(* Two kinds of process serve requests.  Once an `async def' handler has   *)
(* read the bytes sent to it, it runs to its end on the event loop of its  *)
(* worker, because nothing else it awaits ever suspends: each element of   *)
(* Loops serves one request at a time.  A plain `def' handler runs on a    *)
(* thread of the worker's pool: Threads.                                   *)
(* Every request has a database session of its own; the action of a        *)
(* request ends where another request could see or change what it uses: at *)
(* a SELECT, a flush, a commit, or a call to the object store.             *)
(***************************************************************************)
EXTENDS Integers, FiniteSets, UnitOfWork

CONSTANTS
    RawIds,      \* ids of raw_documents rows; also the key of the row's object
    FileIds,     \* ids of file_uploads rows; also the key of an uploaded object
    InvoiceIds,  \* ids of e_invoices rows that ingestion may create
    Loops,       \* event loops, one per worker process
    Threads,     \* threads of the workers' pools
    Contents,    \* what a client may send as the bytes of a document
    Categories,  \* categories documents have; "invoice" is the one that matters
    OcrResults,  \* what text acquisition may return, a subset of Texts
    Requests,    \* which requests and client acts occur in this instance
    Faults,      \* TRUE if a request may die half way (worker killed, error)
    None

Procs == Loops \cup Threads
Paths == RawIds \cup FileIds

\* Document text: none (or blank), real text, or the "[OCR Error" string that
\* _run_ocr returns instead of raising.
Blank == ""
OcrError == "[OCR Error"
Texts == {Blank, "text", OcrError}

ASSUME IdsAssumption ==
    /\ RawIds \cap FileIds = {}
    /\ Loops \cap Threads = {}
    /\ None \notin RawIds \cup FileIds \cup InvoiceIds \cup Procs \cup Contents
    /\ None \notin {"upload", "presign"}
    /\ OcrResults \subseteq Texts
    /\ Faults \in BOOLEAN

VARIABLES
    raws,      \* committed rows of raw_documents
    files,     \* committed rows of file_uploads
    invoiceOf, \* e_invoices row -> the file whose ingestion created it, or None
    objects,   \* object store: key -> bytes, or None
    rawLock,   \* row locks of open transactions
    fileLock,
    pc,        \* where each process is in the request it serves
    sess       \* the database session of that request

vars == <<raws, files, invoiceOf, objects, rawLock, fileLock, pc, sess>>

RawStatuses == {"absent", "pending_upload", "landed", "extracting", "extracted", "failed"}
FileStatuses == {"absent", "pending", "processing", "ingested", "failed"}

\* Of documents whose bytes have been stored, as far as the table knows.
OnRecord == {"landed", "extracting", "extracted", "failed"}

RawRow == [status : RawStatuses, source : {None, "upload", "presign"},
           link : FileIds \cup {None}, text : Texts,
           checksum : Contents \cup {None}, category : Categories \cup {None}]

FileRow == [status : FileStatuses, path : Paths \cup {None}, text : Texts,
            extracted : BOOLEAN, entity : InvoiceIds \cup {None},
            archived : BOOLEAN, category : Categories \cup {None}]

NoRaw == [status |-> "absent", source |-> None, link |-> None, text |-> Blank,
          checksum |-> None, category |-> None]

NoFile == [status |-> "absent", path |-> None, text |-> Blank, extracted |-> FALSE,
           entity |-> None, archived |-> FALSE, category |-> None]

\* The rows a request works on, each as loaded and as assigned to; the e-invoice
\* it has inserted but not committed; whether ingestion succeeded.
Session == [raw : RawIds \cup {None}, rawLoaded : RawRow, rawMine : RawRow,
            file : FileIds \cup {None}, fileLoaded : FileRow, fileMine : FileRow,
            invoice : InvoiceIds \cup {None}, ok : BOOLEAN]

NoSession == [raw |-> None, rawLoaded |-> NoRaw, rawMine |-> NoRaw,
              file |-> None, fileLoaded |-> NoFile, fileMine |-> NoFile,
              invoice |-> None, ok |-> FALSE]

LoopSteps == {"idle", "land", "confirm", "upload", "delete"}
ThreadSteps == {"idle", "claim", "curate", "process", "extract", "commit", "fail",
                "reload", "finish", "ocr"}

TypeOK ==
    /\ raws \in [RawIds -> RawRow]
    /\ files \in [FileIds -> FileRow]
    /\ invoiceOf \in [InvoiceIds -> FileIds \cup {None}]
    /\ objects \in [Paths -> Contents \cup {None}]
    /\ rawLock \in [RawIds -> Procs \cup {None}]
    /\ fileLock \in [FileIds -> Procs \cup {None}]
    /\ pc \in [Procs -> LoopSteps \cup ThreadSteps]
    /\ sess \in [Procs -> Session]

Init ==
    /\ raws = [r \in RawIds |-> NoRaw]
    /\ files = [f \in FileIds |-> NoFile]
    /\ invoiceOf = [i \in InvoiceIds |-> None]
    /\ objects = [path \in Paths |-> None]
    /\ rawLock = [r \in RawIds |-> None]
    /\ fileLock = [f \in FileIds |-> None]
    /\ pc = [p \in Procs |-> "idle"]
    /\ sess = [p \in Procs |-> NoSession]

-----------------------------------------------------------------------------
(* Requests, sessions, ids *)

store == <<raws, files, invoiceOf, objects>>
locks == <<rawLock, fileLock>>

\* A process takes up a request of the given kind.
Begin(p, kind, step, session) ==
    /\ kind \in Requests
    /\ pc[p] = "idle"
    /\ pc' = [pc EXCEPT ![p] = step]
    /\ sess' = [sess EXCEPT ![p] = session]

\* The request goes on to its next step with this session.
Continue(p, from, to, session) ==
    /\ pc[p] = from
    /\ pc' = [pc EXCEPT ![p] = to]
    /\ sess' = [sess EXCEPT ![p] = session]

\* The request is over: get_db closes its session.
Finish(p, from) == Continue(p, from, "idle", NoSession)

\* Mutant: the transaction is left open.
TransactionLeftOpen(p) == UNCHANGED <<rawLock, fileLock>>

\* commit and rollback both end the transaction and give up its locks.
EndTransaction(p) ==
    /\ rawLock' = Released(rawLock, p, None)
    /\ fileLock' = Released(fileLock, p, None)

\* Ids and keys nobody has used: a sequence or a uuid4 never yields one twice.
FreshRaws == {r \in RawIds : /\ raws[r] = NoRaw /\ objects[r] = None
                             /\ \A p \in Procs : sess[p].raw # r}
FreshFiles == {f \in FileIds : /\ files[f] = NoFile /\ objects[f] = None
                               /\ \A p \in Procs : sess[p].file # f}
FreshInvoices == {i \in InvoiceIds : /\ invoiceOf[i] = None
                                     /\ \A p \in Procs : sess[p].invoice # i}

\* Bound of the instances: requests that may insert a file or an e-invoice start
\* only while each thread could still take an id, so none gets stuck half way.
SpareFile == Cardinality(FreshFiles) >= Cardinality(Threads)
SpareInvoice == Cardinality(FreshInvoices) >= Cardinality(Threads)

-----------------------------------------------------------------------------
(* Landing zone: POST /raw/land, /raw/presign, /raw/{id}/confirm *)

\* The bytes are in the object store before there is a row that tracks them.
LandSave(l) ==
    /\ \E r \in FreshRaws, c \in Contents, cat \in Categories :
         /\ Begin(l, "land", "land",
                  [NoSession EXCEPT !.raw = r,
                      !.rawMine = [NoRaw EXCEPT !.status = "landed", !.source = "upload",
                                                !.checksum = c, !.category = cat]])
         /\ objects' = [objects EXCEPT ![r] = c]
    /\ UNCHANGED <<raws, files, invoiceOf, locks>>

LandCommit(l) ==
    /\ Finish(l, "land")
    /\ raws' = [raws EXCEPT ![sess[l].raw] = sess[l].rawMine]
    /\ UNCHANGED <<files, invoiceOf, objects, locks>>

\* The row is committed before the URL is handed out.
Presign(l) ==
    /\ "presign" \in Requests
    /\ pc[l] = "idle"
    /\ \E r \in FreshRaws, cat \in Categories :
         raws' = [raws EXCEPT ![r] = [NoRaw EXCEPT !.status = "pending_upload",
                                                   !.source = "presign", !.category = cat]]
    /\ UNCHANGED <<files, invoiceOf, objects, locks, pc, sess>>

\* The client uses its URL; nothing but the URL's expiry stops it from using it
\* again, which only instances with "reput" consider.
ClientPut(r) ==
    /\ raws[r].source = "presign"
    /\ \/ raws[r].status = "pending_upload" /\ objects[r] = None
       \/ "reput" \in Requests
    /\ \E c \in Contents : objects' = [objects EXCEPT ![r] = c]
    /\ UNCHANGED <<raws, files, invoiceOf, locks, pc, sess>>

\* Mutant: confirmation in any state.
ConfirmableAlways == RawStatuses \ {"absent"}

Confirmable == {"pending_upload", "landed"}

\* The checksum of the object is taken when the upload is confirmed, not before.
Confirmed(r) == [raws[r] EXCEPT !.status = "landed", !.checksum = objects[r]]

\* 409 unless pending_upload or landed, 404 unless the object is there.
ConfirmLoad(l, r) ==
    /\ raws[r].status \in Confirmable
    /\ objects[r] # None
    /\ Begin(l, "confirm", "confirm",
             [NoSession EXCEPT !.raw = r, !.rawLoaded = raws[r], !.rawMine = Confirmed(r)])
    /\ UNCHANGED <<store, locks>>

ConfirmCommit(l) ==
    LET s == sess[l] IN
    /\ Finish(l, "confirm")
    /\ Dirty(s.rawLoaded, s.rawMine) => Available(rawLock[s.raw], l, None)
    /\ raws' = [raws EXCEPT ![s.raw] = Merge(@, s.rawLoaded, s.rawMine)]
    /\ UNCHANGED <<files, invoiceOf, objects, locks>>

-----------------------------------------------------------------------------
(* ETL, first transaction: POST /raw/{id}/etl up to ingest_file *)

EtlLoad(t, r) ==
    /\ raws[r].status \notin {"absent", "pending_upload"}
    /\ raws[r].link = None => SpareFile
    /\ SpareInvoice
    /\ Begin(t, "etl", "claim",
             [NoSession EXCEPT !.raw = r, !.rawLoaded = raws[r],
                               !.rawMine = [raws[r] EXCEPT !.status = "extracting"]])
    /\ UNCHANGED <<store, locks>>

\* Flush of etl_status.  It locks the row, unless the row was loaded `extracting'.
EtlClaim(t) ==
    LET s == sess[t] IN
    /\ Continue(t, "claim", "curate", s)
    /\ IF Dirty(s.rawLoaded, s.rawMine)
         THEN /\ Available(rawLock[s.raw], t, None)
              /\ rawLock' = [rawLock EXCEPT ![s.raw] = t]
         ELSE UNCHANGED rawLock
    /\ UNCHANGED <<store, fileLock>>

\* Reuse the curated file the loaded row links to, or else insert one that
\* references the raw object.
EtlCurate(t) ==
    LET s == sess[t] IN
    /\ \/ /\ s.rawLoaded.link # None
          /\ Continue(t, "curate", "process",
                      [s EXCEPT !.file = s.rawLoaded.link,
                                !.fileLoaded = files[s.rawLoaded.link],
                                !.fileMine = files[s.rawLoaded.link]])
       \/ /\ s.rawLoaded.link = None
          /\ \E f \in FreshFiles :
               Continue(t, "curate", "process",
                        [s EXCEPT !.file = f, !.rawMine.link = f,
                                  !.fileMine = [NoFile EXCEPT !.status = "pending",
                                                              !.path = s.raw,
                                                              !.text = s.rawLoaded.text,
                                                              !.category = s.rawLoaded.category]])
    /\ UNCHANGED <<store, locks>>

-----------------------------------------------------------------------------
(* Ingestion: ingest_file, called by ETL and by POST /files/{id}/ingest *)

IngestLoad(t, f) ==
    /\ files[f].status # "absent" /\ ~files[f].archived
    /\ SpareInvoice
    /\ Begin(t, "ingest", "process",
             [NoSession EXCEPT !.file = f, !.fileLoaded = files[f], !.fileMine = files[f]])
    /\ UNCHANGED <<store, locks>>

\* The session's file was inserted by its own open transaction.
Inserted(s) == s.file # None /\ s.fileLoaded = NoFile

\* Flush of ingest_status = 'processing', and with it of the new link of the raw
\* row.  Both rows stay locked until the transaction ends.
IngestFlush(t) ==
    LET s == sess[t] IN
    /\ Continue(t, "process", "extract", [s EXCEPT !.fileMine.status = "processing"])
    /\ IF Inserted(s)
         THEN UNCHANGED fileLock
         ELSE /\ Available(fileLock[s.file], t, None)
              /\ fileLock' = [fileLock EXCEPT ![s.file] = t]
    /\ IF Dirty(s.rawLoaded, s.rawMine)
         THEN /\ Available(rawLock[s.raw], t, None)
              /\ rawLock' = [rawLock EXCEPT ![s.raw] = t]
         ELSE UNCHANGED rawLock
    /\ UNCHANGED store

\* _get_text: the cached text, or what OCR makes of the object; reading an object
\* that is gone raises.
TextOf(s) == IF s.fileMine.text # Blank THEN {s.fileMine.text}
             ELSE IF objects[s.fileMine.path] = None THEN {}
             ELSE OcrResults

\* Mutant: the error string is cached like any text.
CachedAnyway(old, text) == IF old = Blank THEN text ELSE old

\* What ends up cached in ocr_text: an OCR error never does.
Cached(old, text) == IF old = Blank /\ text # OcrError THEN text ELSE old

\* Mutants: an e-invoice whatever the file is linked to; none at all; the id of the
\* file stored as the id of the entity.
EntityAgain(s) == IF s.fileMine.category = "invoice" THEN FreshInvoices ELSE {s.fileMine.entity}
EntityNever(s) == {s.fileMine.entity}
EntityMixedUp(s) == IF s.fileMine.category = "invoice" THEN {s.file} ELSE {s.fileMine.entity}

\* An e-invoice is inserted for an invoice that, as loaded, has no entity yet.
EntityOf(s) == IF s.fileMine.category = "invoice" /\ s.fileMine.entity = None
                 THEN FreshInvoices ELSE {s.fileMine.entity}

Extract(t) ==
    LET s == sess[t] IN
    /\ pc[t] = "extract"
    /\ \E text \in TextOf(s), i \in EntityOf(s) :
         Continue(t, "extract", "commit",
                  [s EXCEPT !.fileMine.text = Cached(@, text),
                            !.fileMine.extracted = TRUE,
                            !.fileMine.status = "ingested",
                            !.fileMine.entity = i,
                            !.invoice = IF i = s.fileMine.entity THEN None ELSE i])
    /\ UNCHANGED <<store, locks>>

\* Any exception: the object is gone, a value the database refuses, a lost
\* connection.  The rollback undoes the ETL's part of the transaction too; a file
\* inserted by it is now a transient object, which keeps the text it was given.
ExtractRaises(t) ==
    LET s == sess[t] IN
    /\ pc[t] = "extract"
    /\ \E text \in {s.fileMine.text} \cup {Cached(s.fileMine.text, x) : x \in TextOf(s)} :
         Continue(t, "extract", IF Inserted(s) THEN "reload" ELSE "fail",
                  [s EXCEPT !.fileMine.text = text])
    /\ EndTransaction(t)
    /\ UNCHANGED store

\* The ingest route ends with ingest_file; ETL goes on.
AfterIngest(t, from, session) ==
    IF session.raw = None THEN Finish(t, from) ELSE Continue(t, from, "reload", session)

IngestCommit(t) ==
    LET s == sess[t] IN
    /\ AfterIngest(t, "commit", [s EXCEPT !.ok = TRUE, !.invoice = None])
    /\ files' = [files EXCEPT ![s.file] =
                   IF Inserted(s) THEN s.fileMine
                   \* 'processing' was flushed, so the status is written in any case
                   ELSE [Merge(@, s.fileLoaded, s.fileMine) EXCEPT !.status = "ingested"]]
    /\ raws' = IF s.raw = None THEN raws
               ELSE [raws EXCEPT ![s.raw] = Merge(@, s.rawLoaded, s.rawMine)]
    /\ invoiceOf' = IF s.invoice = None THEN invoiceOf
                    ELSE [invoiceOf EXCEPT ![s.invoice] = s.file]
    /\ EndTransaction(t)
    /\ UNCHANGED objects

\* ingest_status = 'failed' on the expired row: an UPDATE of that column alone.
IngestFail(t) ==
    LET s == sess[t] IN
    /\ AfterIngest(t, "fail", s)
    /\ Available(fileLock[s.file], t, None)
    /\ files' = [files EXCEPT ![s.file].status = "failed"]
    /\ UNCHANGED <<raws, invoiceOf, objects, locks>>

-----------------------------------------------------------------------------
(* ETL, second transaction: mirror the outcome onto the manifest *)

\* Mutants: the result of ingestion is not looked at; a failure is not recorded.
OutcomeAssumed(s) == "extracted"
OutcomeDropped(s) == IF s.ok THEN "extracted" ELSE "extracting"

Outcome(s) == IF s.ok THEN "extracted" ELSE "failed"

EtlReload(t) ==
    LET s == sess[t]
        row == raws[s.raw]
        curated == IF Inserted(s) /\ ~s.ok THEN s.fileMine ELSE files[s.file]
    IN
    /\ Continue(t, "reload", "finish",
                [s EXCEPT !.rawLoaded = row,
                          !.rawMine = [row EXCEPT
                              !.status = Outcome(s),
                              !.text = IF @ = Blank THEN curated.text ELSE @,
                              !.category = curated.category]])
    /\ UNCHANGED <<store, locks>>

\* processed_at always changes, so there always is an UPDATE.
EtlFinish(t) ==
    LET s == sess[t] IN
    /\ Finish(t, "finish")
    /\ Available(rawLock[s.raw], t, None)
    /\ raws' = [raws EXCEPT ![s.raw] = Merge(@, s.rawLoaded, s.rawMine)]
    /\ UNCHANGED <<files, invoiceOf, objects, locks>>

-----------------------------------------------------------------------------
(* Files: POST /files/upload, POST /files/{id}/ocr, DELETE /files/{id} *)

UploadSave(l) ==
    /\ Cardinality(FreshFiles) > Cardinality(Threads)
    /\ \E f \in FreshFiles, c \in Contents, cat \in Categories :
         /\ Begin(l, "upload", "upload",
                  [NoSession EXCEPT !.file = f,
                      !.fileMine = [NoFile EXCEPT !.status = "pending", !.path = f,
                                                  !.category = cat]])
         /\ objects' = [objects EXCEPT ![f] = c]
    /\ UNCHANGED <<raws, files, invoiceOf, locks>>

UploadCommit(l) ==
    /\ Finish(l, "upload")
    /\ files' = [files EXCEPT ![sess[l].file] = sess[l].fileMine]
    /\ UNCHANGED <<raws, invoiceOf, objects, locks>>

\* Cached text is returned as it is, which changes nothing; else OCR runs.
OcrLoad(t, f) ==
    /\ files[f].status # "absent" /\ ~files[f].archived /\ files[f].text = Blank
    /\ Begin(t, "ocr", "ocr",
             [NoSession EXCEPT !.file = f, !.fileLoaded = files[f], !.fileMine = files[f]])
    /\ UNCHANGED <<store, locks>>

\* Whatever _run_ocr returns is stored.
OcrCommit(t) ==
    LET s == sess[t] IN
    /\ Finish(t, "ocr")
    /\ objects[s.fileMine.path] # None
    /\ Available(fileLock[s.file], t, None)
    /\ \E text \in OcrResults :
         files' = [files EXCEPT ![s.file] =
                     Merge(@, s.fileLoaded, [s.fileMine EXCEPT !.text = text])]
    /\ UNCHANGED <<raws, invoiceOf, objects, locks>>

\* The object is gone: storage.read raises out of the handler.
OcrRaises(t) ==
    /\ Finish(t, "ocr")
    /\ objects[sess[t].fileMine.path] = None
    /\ UNCHANGED <<store, locks>>

\* The object goes first, the row is archived after.  S3Storage.delete answers
\* False when the store refuses, and the handler does not look.
DeleteObject(l, f) ==
    /\ files[f].status # "absent" /\ ~files[f].archived
    /\ Begin(l, "delete", "delete",
             [NoSession EXCEPT !.file = f, !.fileLoaded = files[f],
                               !.fileMine = [files[f] EXCEPT !.archived = TRUE]])
    /\ \/ objects' = [objects EXCEPT ![files[f].path] = None]
       \/ UNCHANGED objects
    /\ UNCHANGED <<raws, files, invoiceOf, locks>>

\* Mutant: the row is deleted, not archived.
DeleteRow(l) ==
    /\ Finish(l, "delete")
    /\ Available(fileLock[sess[l].file], l, None)
    /\ files' = [files EXCEPT ![sess[l].file] = NoFile]
    /\ UNCHANGED <<raws, invoiceOf, objects, locks>>

DeleteCommit(l) ==
    LET s == sess[l] IN
    /\ Finish(l, "delete")
    /\ Available(fileLock[s.file], l, None)
    /\ files' = [files EXCEPT ![s.file] = Merge(@, s.fileLoaded, s.fileMine)]
    /\ UNCHANGED <<raws, invoiceOf, objects, locks>>

-----------------------------------------------------------------------------
\* A request dies where it is: its transaction is rolled back, what it did to the
\* object store and what it committed before stays.
Abort(p) ==
    /\ Faults
    /\ pc[p] # "idle"
    /\ Finish(p, pc[p])
    /\ EndTransaction(p)
    /\ UNCHANGED store

\* No request in progress and none arriving.
Quiet == (\A p \in Procs : pc[p] = "idle") /\ UNCHANGED vars

LoopStep(l) ==
    \/ LandCommit(l) \/ ConfirmCommit(l) \/ UploadCommit(l) \/ DeleteCommit(l)

LoopStart(l) ==
    \/ LandSave(l) \/ Presign(l) \/ UploadSave(l)
    \/ \E r \in RawIds : ConfirmLoad(l, r)
    \/ \E f \in FileIds : DeleteObject(l, f)

ThreadStep(t) ==
    \/ EtlClaim(t) \/ EtlCurate(t) \/ IngestFlush(t) \/ Extract(t) \/ ExtractRaises(t)
    \/ IngestCommit(t) \/ IngestFail(t) \/ EtlReload(t) \/ EtlFinish(t)
    \/ OcrCommit(t) \/ OcrRaises(t)

ThreadStart(t) ==
    \/ \E r \in RawIds : EtlLoad(t, r)
    \/ \E f \in FileIds : IngestLoad(t, f) \/ OcrLoad(t, f)

Next ==
    \/ \E l \in Loops : LoopStart(l) \/ LoopStep(l)
    \/ \E t \in Threads : ThreadStart(t) \/ ThreadStep(t)
    \/ \E p \in Procs : Abort(p)
    \/ \E r \in RawIds : ClientPut(r)
    \/ Quiet

Spec == Init /\ [][Next]_vars

\* A handler that has started goes on: the thread pool and the event loops run,
\* and PostgreSQL grants a row lock in the order it was asked for, so a request
\* does not wait for ever for a lock that is free again and again.
FairSpec ==
    /\ Spec
    /\ \A l \in Loops : SF_vars(LoopStep(l))
    /\ \A t \in Threads : SF_vars(ThreadStep(t))

-----------------------------------------------------------------------------
(* Properties *)

\* A raw document reported `extracted' really has been promoted: it links to a
\* curated file over its own bytes that carries extracted data and, if it is an
\* invoice, an e-invoice that ingestion created from that very file -- in spite of
\* rollbacks, of requests that die, and of other requests on the same rows.
ExtractedIsBacked ==
    \A r \in RawIds : raws[r].status = "extracted" =>
        /\ raws[r].link # None
        /\ LET f == files[raws[r].link] IN
           /\ f.path = r /\ f.extracted
           /\ f.category = "invoice" =>
                f.entity # None /\ invoiceOf[f.entity] = raws[r].link

\* No link dangles or crosses: a manifest links to a committed file over the same
\* object, a file to an e-invoice created from it, and no file from which an
\* e-invoice was created is left without a link.
LinksAreSound ==
    /\ \A r \in RawIds : raws[r].link # None =>
         files[raws[r].link].status # "absent" /\ files[raws[r].link].path = r
    /\ \A f \in FileIds : files[f].entity # None => invoiceOf[files[f].entity] = f
    /\ \A i \in InvoiceIds : invoiceOf[i] # None => files[invoiceOf[i]].entity # None

\* What a commit established is never taken back by another request's stale copy
\* of the row: a link, extracted data, an entity, an archived file.
NothingTakenBack ==
    [][/\ \A r \in RawIds : raws[r].link # None => raws'[r].link # None
       /\ \A f \in FileIds :
            /\ files[f].status # "absent" => files'[f].path = files[f].path
            /\ files[f].extracted => files'[f].extracted
            /\ files[f].entity # None => files'[f].entity # None
            /\ files[f].archived => files'[f].archived
       /\ \A i \in InvoiceIds : invoiceOf[i] # None => invoiceOf'[i] = invoiceOf[i]]_vars

\* Without concurrent runs on one document the pipeline implements the ledger: a
\* document is promoted once and a file booked once, whatever is re-run, whichever
\* request dies between two commits, and whatever is deleted in between.
Ledger == INSTANCE PromotionLedger WITH
    Docs <- RawIds, Files <- FileIds, Invoices <- InvoiceIds,
    curated <- [r \in RawIds |-> {f \in FileIds : files[f].path = r}],
    booked <- [f \in FileIds |-> {i \in InvoiceIds : invoiceOf[i] = f}]

PromotedOnce == Ledger!LedgerSpec

\* With concurrent runs it does not, but each thread repeats the work at most once: what
\* one run of it has committed, the next one finds.
PromotionsAreFew ==
    /\ \A r \in RawIds :
          Cardinality({f \in FileIds : files[f].path = r}) <= Cardinality(Threads)
    /\ \A f \in FileIds :
          Cardinality({i \in InvoiceIds : invoiceOf[i] = f}) <= Cardinality(Threads)

\* The row lock that the next flush or UPDATE of p needs is held by q.
WaitsFor(p, q) ==
    LET s == sess[p] IN
    /\ p # q
    /\ \/ /\ pc[p] = "finish" \/ (pc[p] \in {"confirm", "claim", "process"}
                                     /\ Dirty(s.rawLoaded, s.rawMine))
          /\ s.raw # None /\ rawLock[s.raw] = q
       \/ /\ pc[p] \in {"fail", "ocr", "delete"} \/ (pc[p] = "process" /\ ~Inserted(s))
          /\ s.file # None /\ fileLock[s.file] = q

\* Who waits for one that waits, waits for one that does not: an ingestion on a file, on
\* behalf of ETL, is waited for with the manifest it holds.  So there is no deadlock.
WaitsAreShort ==
    \A p, q, u \in Procs :
        WaitsFor(p, q) /\ WaitsFor(q, u) => \A v \in Procs : ~WaitsFor(u, v)

\* A document that has landed has the checksum of the bytes in the landing zone.
Described(r) ==
    raws[r].status \in OnRecord => raws[r].checksum # None /\ raws[r].checksum = objects[r]

\* The confirmation of r has the checksum of bytes that were replaced since it read them.
Overtaken(l, r) ==
    pc[l] = "confirm" /\ sess[l].raw = r /\ sess[l].rawMine.checksum \in Contents \ {objects[r]}

\* What parts a manifest from its object is always a change of the object: a late PUT with
\* other bytes, a deletion, or such a PUT while a confirmation is between its look at the
\* object and its commit.  Landing, confirming again and ETL, from rows loaded before, do
\* not write over the checksum that is right.
PartedByBytes ==
    [][\A r \in RawIds : Described(r) /\ ~Described(r)' =>
         \/ objects'[r] # objects[r]
         \/ \E l \in Loops : Overtaken(l, r) /\ pc'[l] = "idle"]_vars

\* "the original bytes are preserved untouched for re-processing": once landed, a
\* document can always be read again.
RawBytesPreserved ==
    \A r \in RawIds : raws[r].status \in OnRecord => objects[r] # None

\* ingest_file keeps an OCR error out of the text it caches, so that a later run
\* tries again instead of extracting from an error message.
NoErrorTextCached ==
    /\ \A f \in FileIds : files[f].text # OcrError
    /\ \A r \in RawIds : raws[r].text # OcrError

\* The lifecycle of a manifest only goes forward to `landed' from `pending_upload':
\* a late confirmation does not take back what ETL has done meanwhile.
LandedOnce ==
    [][\A r \in RawIds : raws'[r].status = "landed" =>
         raws[r].status \in {"absent", "pending_upload", "landed"}]_vars

\* Every request is answered: no two of them wait for each other's row locks, and
\* none leaves a lock behind.
RequestsAreAnswered == \A p \in Procs : pc[p] # "idle" ~> pc[p] = "idle"

\* `extracting' is a passing state: no document stays in it unless a worker died.
ExtractingPasses ==
    \A r \in RawIds : raws[r].status = "extracting" ~> raws[r].status \in {"extracted", "failed"}

-----------------------------------------------------------------------------
(* The inductive invariant behind ExtractedIsBacked, LinksAreSound and        *)
(* NothingTakenBack: what the sessions of requests in progress know.          *)

\* A request that works on a row has one in hand.
RowsInHand(p) ==
    /\ pc[p] \in {"land", "confirm", "claim", "curate", "reload", "finish"} => sess[p].raw # None
    /\ pc[p] \in {"upload", "delete", "process", "extract", "commit", "fail", "reload", "ocr"}
         => sess[p].file # None

Ingesting(p) == pc[p] \in {"process", "extract", "commit"}

\* What a transaction has inserted is nobody else's and not committed yet.
InsertsAreOwn(p) ==
    LET s == sess[p] IN
    /\ pc[p] = "land" => /\ raws[s.raw] = NoRaw
                         /\ s.rawMine.link = None
                         /\ \A q \in Procs \ {p} : sess[q].raw # s.raw
    /\ pc[p] = "upload" => Inserted(s)
    /\ pc[p] \in {"ocr", "delete"} => ~Inserted(s)
    /\ (Ingesting(p) \/ pc[p] = "upload") /\ Inserted(s) =>
         /\ files[s.file] = NoFile
         /\ s.fileMine.path = IF s.raw = None THEN s.file ELSE s.raw
         /\ \A q \in Procs \ {p} : sess[q].file # s.file
    /\ s.invoice # None => /\ pc[p] = "commit"
                           /\ invoiceOf[s.invoice] = None
                           /\ \A q \in Procs \ {p} : sess[q].invoice # s.invoice

\* The copy of a manifest is of a committed row, may be stale, but its assignments
\* never unlink it; `extracted' is assigned only to a linked one.
RawCopyIsSound(p) ==
    LET s == sess[p] IN
    /\ s.raw # None => s.rawMine.status # "absent"
    /\ s.raw # None /\ pc[p] # "land" => raws[s.raw].status # "absent"
    /\ pc[p] \in {"confirm", "claim", "curate", "finish"} => s.rawMine.link = s.rawLoaded.link
    /\ s.rawLoaded.link # None => /\ s.raw # None
                                  /\ raws[s.raw].link # None
                                  /\ files[s.rawLoaded.link].status # "absent"
    /\ Ingesting(p) /\ s.raw # None =>
         s.rawMine.link = s.file /\ s.rawLoaded.link = IF Inserted(s) THEN None ELSE s.file
    /\ Ingesting(p) /\ s.raw = None => ~Inserted(s)
    /\ s.ok => pc[p] \in {"reload", "finish"} /\ raws[s.raw].link # None
    /\ s.rawMine.status = "extracted" => pc[p] = "finish" /\ raws[s.raw].link # None

\* The copy of a file may be stale, but nothing it holds has been taken back.
FileCopyIsSound(p) ==
    LET s == sess[p] IN
    /\ s.file # None => s.fileMine.status # "absent"
    /\ pc[p] \in {"claim", "curate"} => s.fileLoaded = NoFile
    /\ pc[p] = "fail" => files[s.file].status # "absent"
    /\ (Ingesting(p) \/ pc[p] \in {"ocr", "delete"}) /\ ~Inserted(s) =>
         /\ files[s.file].status # "absent"
         /\ s.fileMine.path = s.fileLoaded.path
         /\ s.fileMine.category = s.fileLoaded.category
         /\ s.fileLoaded.category = files[s.file].category
         /\ s.fileLoaded.entity # None => files[s.file].entity # None
         /\ s.fileLoaded.archived => s.fileMine.archived
    /\ s.fileLoaded.extracted => s.fileMine.extracted
    /\ pc[p] \in {"upload", "process", "extract", "ocr", "delete"} => s.fileMine.entity = s.fileLoaded.entity
    /\ pc[p] = "commit" =>
         /\ s.fileMine.extracted
         /\ s.fileMine.category = "invoice" => s.fileMine.entity # None
         /\ IF s.invoice = None THEN s.fileMine.entity = s.fileLoaded.entity
                                ELSE s.fileMine.entity = s.invoice

\* A manifest is linked only together with a successful ingestion.
LinkedIsPromoted ==
    \A r \in RawIds :
        /\ raws[r].status = "extracted" => raws[r].link # None
        /\ raws[r].link # None =>
             LET f == files[raws[r].link] IN
             /\ f.status # "absent" /\ f.path = r /\ f.extracted
             /\ f.category = "invoice" => f.entity # None

Sound(p) == RowsInHand(p) /\ InsertsAreOwn(p) /\ RawCopyIsSound(p) /\ FileCopyIsSound(p)

IInv == TypeOK /\ (\A p \in Procs : Sound(p)) /\ LinkedIsPromoted /\ LinksAreSound

-----------------------------------------------------------------------------
(* The inductive invariants behind the other properties, each with what it   *)
(* takes for granted, beside IInv.                                           *)

\* One worker; one request at a time on its threads.
OneLoop == \A k, l \in Loops : k = l
OneThread == \A t, u \in Threads : t = u

\* Threads run `def' handlers and loops `async def' ones, which hold no manifest while they
\* work on files.
InPlace(p) ==
    /\ pc[p] \in IF p \in Loops THEN LoopSteps ELSE ThreadSteps
    /\ pc[p] \in {"upload", "delete"} => sess[p].raw = None

\* Landing and confirmation assign `landed'.  ETL works on documents that have landed, for
\* good, and never does.
HasLanded(p) ==
    LET s == sess[p] IN
    /\ pc[p] \in {"land", "confirm"} => s.rawMine.status = "landed"
    /\ s.raw # None /\ pc[p] \notin {"land", "confirm"} =>
         /\ raws[s.raw].status \in OnRecord
         /\ s.rawMine.status \in OnRecord \ {"landed"}

\* A confirmation that has `landed' to assign is of a document that nobody else can
\* work on, if there is one worker.
ConfirmsOnce(p) ==
    LET s == sess[p] IN
    pc[p] = "confirm" => \/ s.rawLoaded.status = "landed"
                         \/ raws[s.raw].status = "pending_upload"

LandingIsOnce ==
    \A p \in Procs : InPlace(p) /\ HasLanded(p) /\ (OneLoop => ConfirmsOnce(p))

\* A landing holds the checksum of its object, which nobody else can change yet.  A
\* confirmation has a checksum to write, over none if the document is not on record.  ETL
\* assigns none.
ChecksumInHand(p) ==
    LET s == sess[p] IN
    /\ pc[p] = "land" => s.rawMine.checksum # None /\ s.rawMine.checksum = objects[s.raw]
    /\ pc[p] = "confirm" => /\ s.rawMine.checksum \in Contents
                            /\ \/ raws[s.raw].status \in OnRecord
                               \/ /\ s.rawLoaded.status = "pending_upload"
                                  /\ s.rawLoaded.checksum = None
    /\ s.raw # None /\ pc[p] \notin {"land", "confirm"} =>
         s.rawMine.checksum = s.rawLoaded.checksum

ChecksumsAreKept ==
    /\ LandingIsOnce
    /\ \A r \in RawIds : raws[r].status = "pending_upload" => raws[r].checksum = None
    /\ \A f \in FileIds : files[f].path \in RawIds => raws[files[f].path].status # "absent"
    /\ \A p \in Procs : ChecksumInHand(p)

\* Without the OCR route no session has an error for a text.
TextsInHand(p) ==
    LET s == sess[p] IN
    /\ pc[p] # "ocr"
    /\ \A row \in {s.rawLoaded, s.rawMine, s.fileLoaded, s.fileMine} : row.text # OcrError

TextsAreReal == NoErrorTextCached /\ \A p \in Procs : TextsInHand(p)

\* With one thread what an ingestion has loaded is still so: no link, no entity.  Each
\* file that was promoted is the one its manifest links to.
Promoting == {"claim", "curate", "process", "extract", "commit"}

StillTheSame(p) ==
    LET s == sess[p] IN
    /\ pc[p] \in Promoting /\ s.raw # None /\ s.rawLoaded.link = None =>
         raws[s.raw].link = None
    /\ Ingesting(p) /\ ~Inserted(s) /\ s.fileLoaded.entity = None =>
         files[s.file].entity = None
    /\ s.invoice # None => s.fileLoaded.entity = None

PromotedIsLinked ==
    \A f \in FileIds : files[f].path \in RawIds => raws[files[f].path].link = f

Serial == PromotedIsLinked /\ \A p \in Procs : InPlace(p) /\ StillTheSame(p)

\* Which thread promoted a document, or booked a file: it cannot do so again.
Promotes(p, r) == pc[p] \in Promoting /\ sess[p].raw = r /\ sess[p].rawLoaded.link = None
Books(p, f) == Ingesting(p) /\ sess[p].file = f /\ sess[p].fileLoaded.entity = None

Promoted == {f \in FileIds : files[f].path \in RawIds}
Booked == {i \in InvoiceIds : invoiceOf[i] # None}

PromotedByOne ==
    /\ \A f \in Promoted : raws[files[f].path].link # None
    /\ \E by \in [Promoted -> Threads] : \A f \in Promoted :
          /\ ~Promotes(by[f], files[f].path)
          /\ \A g \in Promoted \ {f} : files[g].path = files[f].path => by[g] # by[f]

BookedByOne ==
    /\ \A p \in Procs : sess[p].invoice # None => sess[p].fileLoaded.entity = None
    /\ \E by \in [Booked -> Threads] : \A i \in Booked :
          /\ ~Books(by[i], invoiceOf[i])
          /\ \A j \in Booked \ {i} : invoiceOf[j] = invoiceOf[i] => by[j] # by[i]

OncePerThread == PromotedByOne /\ BookedByOne /\ \A p \in Procs : InPlace(p)

\* A lock is of a transaction in progress, which works on the row.
LocksAreHeld ==
    /\ \A r \in RawIds : rawLock[r] # None =>
          /\ pc[rawLock[r]] \in {"curate", "process", "extract", "commit"}
          /\ sess[rawLock[r]].raw = r
    /\ \A f \in FileIds : fileLock[f] # None =>
          pc[fileLock[f]] \in {"extract", "commit"} /\ sess[fileLock[f]].file = f
=============================================================================
