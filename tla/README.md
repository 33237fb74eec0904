# AIConstructERP in TLA+

A verification project for AIConstructERP: a FastAPI application (`src/backend/app`)
over PostgreSQL (SQLite in development) and an object store, with a browser client,
for the documents, e-invoices, auctions and orders of construction companies.
Paths below are relative to `src/backend/app` unless they say otherwise.

The arithmetic of the program is simple. What is hard in it is that every request
is a transaction of its own, that several run at once on threads and on the event
loop, that a request may commit more than once or die half way, and that part of
the state (stored objects, upload sessions, documents held by the tax service) is
outside the database. The modules describe that, and the properties are about it.

## 1. The system

### Components

| Component | Source | State | Operations | Modelled in |
|---|---|---|---|---|
| Sessions and transactions | `database.py` | session copies of rows; row locks | load, flush, commit, rollback | `UnitOfWork`, and every module |
| Raw landing zone and ETL | `raw_routes.py`, `raw_store.py` | `raw_documents`, objects | land, presign, confirm, etl | `DocumentPipeline` |
| Ingestion | `ingestion.py` | `file_uploads`, `e_invoices` | `ingest_file` | `DocumentPipeline` |
| Files and OCR | `files.py`, `ocr_routes.py` | `file_uploads`, objects | upload, delete, ingest, OCR | `DocumentPipeline` |
| Object storage | `storage*.py` | key to bytes | save, read, delete | `DocumentPipeline` (partly) |
| Chunked upload | `chunked_upload.py` | sessions in memory, chunks on disk | init, chunk, complete, cancel, expiry | `ChunkedUpload` |
| E-invoice clearance | `einvoice_routes.py`, `einvoice/backends.py`, `einvoice/client.py` | `e_invoices`, lines; the service's documents | submit, refresh, cancel, replace lines | `EInvoiceClearance` |
| Reverse auction | `auction_routes.py` | `reverse_auctions`, `auction_bids` | bid, edit | `ReverseAuction` |
| CRUD and order numbers | `crud.py` | `purchase_orders` | create, update, archive | `PurchaseOrders` |
| Schema | `models.py`, `alembic/versions/` | tables, foreign keys, unique keys | seven upgrades and downgrades, `create_all` | `Schema` |
| Migration and start | `docker-entrypoint.sh`, `alembic/env.py`, `main.py`, `seed.py` | `alembic_version`, the tables, demo rows | migrate, create, seed, serve, downgrade | `Startup` |
| Users and tokens | `auth.py`, `security.py` | `users`; signed tokens | sign in, refresh, switch off | `Access` (partly) |
| Module registry | `module_registry.py`, `module_routes.py` | `tenant_modules` | toggle, gate | `Access` (partly) |
| Frontend | `src/frontend/src/api.ts`, `App.tsx` | tokens in the browser | requests, 401 handling, signing in and out | `Access` (partly) |
| Tenants, registration | `tenants.py`, part of `auth.py` | `tenants`, `users` | create, delete | not modelled: single inserts and deletes |
| AI and chat | `ai.py`, `ai_routes.py`, `chat_routes.py` | chat sessions, messages | send, delete | not modelled: a model call between reads and one commit |
| Event stream | `sse_routes.py` | none | stream the model's answer | not modelled |
| Workers, scheduler | `workers.py`, `scheduler.py` | none | none | not modelled: no code imports them |
| Audit log | `audit.py`, `audit_routes.py` | append-only rows | `log_action` | not modelled: written in the caller's transaction, read by nobody |
| Encryption | `encryption.py` | a key per process | encrypt, decrypt | not modelled: an external cipher |
| Request and response schemas | `*schemas*.py` | none | none | not modelled: declarations |

### How the components interact

* Each request gets its own session from `get_db`. Autoflush is off; expire-on-commit is
  left on, so that an object is read again after a commit or a rollback of its own session
  and not before: what a request loaded stays as it was however many others commit, and the
  UPDATE at flush names only the columns that were assigned a different value. Two
  requests on one row therefore merge by column, at the moment of the flush.
* `async def` handlers share the event loop of their worker. Apart from reading
  the request's own body nothing they await suspends, so they do not interleave
  with one another inside a worker, but they do with the threads on which plain
  `def` handlers run, and with other workers.
* The ETL calls `ingest_file` in the transaction in which it has inserted the
  curated file; `ingest_file` commits it, or rolls it back, and the ETL then goes on
  with a second transaction. The files route calls the same function.
* A curated file shares the stored object of the raw document it came from.
* Submission calls the tax service between a flush and the commit, so the answer of
  the service and the row can part.
* Upload sessions live in the memory of one worker, the chunks on its disk; a
  completed upload becomes an ordinary `file_uploads` row.

* Every route of a module passes `get_current_active_user` and `require_module`: the
  token, the row of the user and the setting of the tenant are read for each request.
  The server keeps no sessions; the browser decides when to refresh and to send again.
* The container runs `alembic upgrade head` and then the server; a development server
  creates the tables itself. `models.py` and the revisions describe one schema twice.

### What is hard, and what makes each part correct

* **Pipeline.** Concurrent ETL, ingestion, deletion and OCR on the same rows; a
  rollback that undoes more than the code that catches it thinks; workers that die
  between two commits; objects outside the transaction. Correct: links between
  manifest, file and e-invoice are never dangling or crossed; `extracted` is true;
  nothing committed is taken back by a stale copy; re-running promotes nothing twice;
  no request and no document hangs.
* **Clearance.** Lost answers, workers that die after the service has accepted,
  refresh against cancel, answers written after the row has gone on. Correct: an invoice
  has one document that counts, is never stuck in `submitting`, never goes back to an older
  document, and reads valid or cancelled only if the service has decided so.
* **Auction.** Validation against a leading amount that is no longer leading.
  Correct: the auction names bids that were placed, within the reserve; bids in
  sequence leave the lowest leading.
* **Uploads.** A look-up before an await and its use after it; cancel and expiry
  against chunk and complete. Correct: what is stored is exactly what was received,
  once.
* **Orders.** Numbers chosen from what is committed, by several requests. Correct:
  there is always a number to give, none is skipped, and the archive is final.
* **Start.** Servers that start together, migrate the same database, die between two
  statements, and are started again; two descriptions of one schema. Correct: whoever
  serves has the declared schema; a migration is all or nothing; demo rows are there
  once; a start that is refused succeeds later.
* **Access.** Requests that are refused together and refresh together, are sent again,
  and meet an account or module that was switched off meanwhile. Correct: no handler
  runs twice for one request, no request is refused because another one has refreshed, and
  retrying ends.

`PROJECT.json` lists each hazard at its line, with the properties that cover it.

## 2. The modules

```
UnitOfWork          UPDATE by column, row locks            (operators only)
  DocumentPipeline    EXTENDS it; implements PromotionLedger (INSTANCE .. WITH)
    DocumentPipelineProofs     EXTENDS it: its inductive invariant and what follows
      DocumentLifecycleProofs  EXTENDS these: landing, checksums, texts, the ledger, locks
  EInvoiceClearance   EXTENDS UnitOfWork;  EInvoiceClearanceProofs
  ReverseAuction      EXTENDS UnitOfWork;  ReverseAuctionProofs
  ChunkedUpload       EXTENDS UnitOfWork;  ChunkedUploadProofs;  implements UploadLedger
  PurchaseOrders      EXTENDS UnitOfWork;  PurchaseOrdersProofs
Schema              the declared schema and the revisions     (operators only)
  Startup             EXTENDS Schema;      StartupProofs
Access                                     AccessProofs
```

The modules of the request handlers have an `MC` module each, with symmetry sets for
TLC; `Startup` and `Access` are run as they are.

The modules of the request handlers have the same shape. A process (`Threads`, and `Loops` for
the event loops) has a program counter `pc` and a session `sess`. A request begins
with one action and goes on by one action for each stretch of code within which no
other request could see or change what it uses: a stretch ends at a SELECT whose
result is used later, at a flush, a commit, an await that suspends, a call of the
object store or of the service. A 4xx answer before any such step changes nothing
and is a guard. `Abort` (or `Crash`) is the request or its worker dying: the
transaction is rolled back, what is outside the database stays. Where a module has
`Quiet`, it is the system at rest; everything else that cannot move is a deadlock,
and TLC looks for one in every run.

**UnitOfWork.** `Merge(row, loaded, mine)` is the UPDATE: columns in which `mine`
differs from `loaded` take its value in the row *as it is now*. `Dirty` says if there
is an UPDATE at all, `Available`/`Released` are row locks.

**DocumentPipeline.** `raws`, `files`, `invoiceOf` are the committed rows of the three
tables, reduced to the columns that decide something: status, link, cached text,
checksum, category, path, archived. Text is blank, real, or an OCR error message. The
field parsers are `data was extracted`; an invoice's amounts play no part.
`objects` is the store. `LandSave`/`LandCommit`, `Presign`, `ConfirmLoad`/`ConfirmCommit`
are the landing routes; `ClientPut` is the client writing to a pre-signed URL.
`EtlLoad`, `EtlClaim` (status `extracting`, flushed: the row is locked), `EtlCurate` (find or insert the
curated file), then the steps of `ingest_file` -- `IngestFlush`, `Extract` or
`ExtractRaises`, `IngestCommit`, `IngestFail` -- and `EtlReload`, `EtlFinish`.
`IngestLoad` enters the same steps from the files route. `UploadSave`/`UploadCommit`,
`DeleteObject`/`DeleteCommit`, `OcrLoad`/`OcrCommit`/`OcrRaises` are the rest.
`Described` says that a manifest has the checksum of the bytes that are in the store.

**PromotionLedger** is the abstract specification: documents, files and e-invoices
without sessions, locks or crashes; each document promoted once, each file booked
once, for good. The refinement maps `curated[d]` to the files with the document's
path and `booked[f]` to the e-invoices created from `f`.

**EInvoiceClearance.** `invoice` and `lines` are the committed rows, `service` what the
tax service holds, each document with the lines it was made from. `SubmitLoad`,
`SubmitFlush` (the row's lock is taken, `submitting` stays uncommitted), the service's
decision, `SubmitCommit`; the answer may be lost after the service has acted. The service
may accept a document, reject it with or without naming it, or answer with an acceptance
that lists none (`unlisted`); `sub` and `uuid` are the numbers of submission and document
that the row has then.

**ReverseAuction.** A bid loads and validates (`BidLoad`), clears the leading flags by a
bulk UPDATE that may have to wait for another one and then applies to the rows its
snapshot had (`ClearNow`, `ClearWaits`, `ClearAfter`), and commits; `EditLoad` and
`EditCommit` are PATCH of the auction.

**ChunkedUpload.** `open` and `received` are the dictionary of sessions, `dirs` and `disk`
the directories with chunks. `_cleanup_session` is three steps: pop, remove the files,
remove the directory. `loop` says which handler has the event loop, `lock` who has
`_lock`; cancel takes no lock. `told` are the ids a client can know.

**UploadLedger** is its abstract specification: chunks accepted for an upload, and files
stored for it, without sessions, disk, loop, lock or deaths. A chunk is accepted while
nothing is stored; once, all of them become a file, in one step. The refinement maps
`accepted` to `received` and `stored` to `files`.

**PurchaseOrders.** The CRUD routes of the one resource with a creation hook. A number is
a year and a suffix, a sequence of characters, because `max()` compares strings.
`CreateGenerated` is the SELECT, `CreateInsert` the flush that waits for an uncommitted
equal number and is refused by a committed one.

**Schema.** `Declared` is what `models.py` says, `Chain` the seven revisions, each with the
statements of its upgrade and its downgrade: creating, dropping and altering tables, with
references, unique keys and added columns. `Accepts` and `Execute` are the database: a
table is created once, what it refers to is there, a table others refer to is not
dropped, a NOT NULL column without a default is refused if there are rows. `SchemaOf[n]` is
what the first `n` upgrades make of an empty database.

**Startup.** A server reads `alembic_version` (`ReadVersion`), runs the statements of the
missing revisions (`RunStatement`) in one transaction (`Migrated`), or creates the missing
tables one by one and counts and inserts the demo rows (`CreateAll`, `CountProjects` ..
`InsertUsers`), and serves. `HeldUp` is a statement waiting for another process's
transaction. `Refused` is the database saying no; the process is then down, as after
`Crash`, and `Launch` starts it again. `Downgrade` is an operator's `alembic downgrade -1`
with the servers down. `Permits` and `Effect` are what one statement needs and does, a stamp
of `alembic_version` included; `ChainIsSound` is what all of them together have to achieve: from
every revision the upgrades lead to the newest and a downgrade to the one before, the
newest is `Declared`, and `create_all` goes on where it was left off.

**Access.** `browser` holds the tokens of the tab, `fetch[r]` what request `r` has sent and
got. `Send` or, for the one call that goes without `request()`, `SendFile`; `Answer`, then `Return` or `Refresh`, `AnswerRefresh`, and `Resend` or `GiveUp`, as in
`api.ts`; a token is the key and the tick it was signed with. `Lose` and `LoseRefresh` are the
network failing; `Unload` is the page going to `/login` with whatever was in flight;
`SignOut` and `SignIn` may come at any moment. `UpdateUser` and `SetModule` are the
administrators. `StatusOf` is the chain of dependencies in front of a handler, in its order.

`PROJECT.json` maps each definition to its lines.

## 3. The runs

| Run | Instance | Shows |
|---|---|---|
| `pipeline_concurrent` | 1 document, 3 files, 3 e-invoices, 2 threads, 1 loop; land, etl, ingest, delete; requests die | `IInv`; `LinksAreSound`, `ExtractedIsBacked`; `NothingTakenBack`; `PromotionsAreFew`, `WaitsAreShort` |
| `pipeline_serial` | 1 document, 2 contents, 2 files, 2 e-invoices, 1 thread, 1 loop; every request, with PUTs after confirmation; requests die | `PromotedOnce`: the pipeline implements the ledger; `PartedByBytes`, `LandedOnce` |
| `pipeline_progress` | 1 document, 2 files, 2 e-invoices, 2 threads, 1 loop; land, etl, ingest; fair | `NoErrorTextCached`; `RequestsAreAnswered`, `ExtractingPasses`; no deadlock |
| `clearance_serial` | 2 invoices, 3 documents, 1 thread; every request; every answer but a lost one | `OneLiveDocument`, `RecordIsBacked`, `LinesMatchDocument` |
| `clearance_concurrent` | 1 invoice, 3 documents, 2 threads; submit, refresh, cancel; workers die, answers are lost, acceptances list no document; fair | `NothingLeftSubmitting`, `DecisionsAreReal`, `NewestOnRecord`, `RequestsAreAnswered` |
| `auction` | 3 bids, 2 amounts, 2 threads, edits of status and step; requests die | `LeadWasBid`, `WithinReserve`, `LeadersAreFew`, `LowestLeads` |
| `chunks` | 2 uploads of 2 chunks, 2 contents, 2 requests at a time; the worker dies | `UploadIsAtomic`: it implements its ledger; `StoredIsReceived`, `ReceivedIsOnDisk`; no deadlock on the lock |
| `orders` | 3 orders, 2 years, 2 threads, a supplied number; requests die | `NextIsUnused`, `NoGaps`, `ArchivedStaysArchived` |
| `startup` | 2 servers and an operator; PostgreSQL at each of the 8 versions, empty or filled, and SQLite; 2 deaths, 1 downgrade; fair | `ServesDeclared`, `CommittedIsRevision`, `SeededOnce`, `SoundToStartFrom`; `RefusedOnlyByRival`, `EveryServerServes` |
| `access` | 2 requests, 3 ticks, access tokens of 1 and refresh tokens of 2, a restart with a new key; fair | `RanOnce`, `LostByExpiry`; `EveryRequestEnds` |

`IInv` is the inductive invariant of a module, its type invariant included. Those of the
other modules, and `LandingIsOnce`, `ChecksumsAreKept`, `TextsAreReal`, `Serial`, `OncePerThread`
and `LocksAreHeld` of `DocumentPipeline`, `SerialIInv` of `EInvoiceClearance`,
`NothingBeforeTold` of `ChunkedUpload` and `InSequence`, `UnusedBeforeThousand` and
`NeverBeyond` of `PurchaseOrders`, hold on the same instances but are not among the runs'
properties: they are there for the theorems of section 4, which state them for every
instance.

Two more runs end in a counterexample, on purpose: each checks one thing that a
comment or docstring of the code says and the code does not do.

| Run | The code says | What happens |
|---|---|---|
| `bytes_lost` | "the original bytes are preserved untouched for re-processing" (`models.py`) | deleting the curated file of a document deletes the object it shares with the manifest |
| `po_overflow` | "Assign the next PO-YYYY-NNN number" (`crud.py`) | after 1000 the string maximum is still 999, so 1000 is assigned again and refused, for the rest of the year |

Every property of a passing run has a mutant in `PROJECT.json`: a change of one
definition, such as a dropped guard or a write of whole rows, under which the same run
finds the property violated. The mutated forms stand beside the definitions they
replace.

### Bounds

Ids are small sets; an action that needs a fresh id is disabled when none is left, and a
request that will need one starts only while those in progress leave it one (`SpareFile`,
`SpareInvoice`, `SpareDoc`, `SpareBatch`), which cuts behaviours short and never makes up
one. Only actions that insert ask for that: an ETL run over a document that has its file
needs no fresh file and is not held back. The sets are sized so
that the interesting case fits: a second document, file, invoice or bid created while
or after the first; in `pipeline_concurrent` a third file, so that two threads can race
while one is left to be deleted; in `pipeline_progress` two files and two e-invoices, so
that one thread ingests a file while the other runs the ETL over it again and waits for
its row. Two threads are the least number that race, and the races known here are between
two requests on one row; requests on different rows share no state but the ids. One
content is enough where only presence counts, two where overwriting counts
(`pipeline_serial`, `chunks`).
`MaxNumber` bounds generated order numbers. Amounts are positive: 0 stands for `no bid
yet` in the code and after a bid of 0 the next one is treated as the first.
`startup` has every version to start from, because each revision has statements of its
own, and two servers because a third could only repeat what the second does. `access` has
time for an access token to expire twice and a refresh token once, so that a request can
be refused, refreshed, and refused for good; two requests are the fewest that refresh
together; and one restart makes all tokens worthless once.

Where a run narrows what may happen, the reason is a weakness the code really has, in
section 5, and the narrower claim is what remains true: `pipeline_serial` and
`clearance_serial` have one thread, `pipeline_progress` has no OCR route, `orders` supplies
only numbers of the generator's own form. Other runs leave out what their question does not
need, to stay small: `pipeline_concurrent` has no upload route and one content,
`pipeline_progress` no confirmations, deletions or late PUTs, `clearance_concurrent` no
lines. The theorems about them hold for every set of requests that their hypotheses allow.

### Fairness

The other runs use no fairness. `FairSpec` of `DocumentPipeline` and `EInvoiceClearance`
asks for strong fairness of each process's *continuing* steps: a handler that has begun
is run by the pool or the loop, and PostgreSQL queues for a row lock in order of
arrival, so that a request does not wait for ever for a lock that is free again and
again. Nothing is assumed of clients: no request ever has to be made, and no pre-signed
PUT has to arrive. Deaths of requests need no fairness and get none; `ExtractingPasses` is
checked without them, because a document whose worker died in mid-extraction does
stay `extracting` until someone runs the ETL again.

`Startup` asks for weak fairness of each process: a statement that is not held up is run,
and a server that is down is started (`restart: unless-stopped` in the compose file; in
development uvicorn's supervisor). Statements are held up only by a transaction of a
process that can go on or die. Deaths are bounded, downgrades too, and happen with the
servers down. `Access` asks for weak fairness of each request: the server answers what it
gets, and the page goes on with the answer. Losing an answer, signing in, time and
restarts get none.

## 4. The proofs

TLAPS proves, for every value of the constants -- any number of documents, invoices, bids,
uploads, orders, servers, requests, threads and workers -- every invariant, action
property and refinement that the passing runs check, but for `SoundToStartFrom`. The constants are subject to one
named assumption for each module: ids of different kinds differ (`IdsAssumption`,
`ClearanceAssumption`, ...), numbers and amounts are natural numbers in the range that the
code gives them, and the like. Where a theorem has a hypothesis beyond that, it is the
narrowing of the run that checks the property, and one of the weaknesses of section 5
refutes it otherwise.

| Theorem | Hypothesis | States |
|---|---|---|
| **DocumentPipelineProofs** `Invariance`, `TypeCorrect` | | `IInv`, `TypeOK` |
| `LinksStaySound`, `ExtractedStaysBacked` | | `LinksAreSound`, `ExtractedIsBacked` |
| `NothingIsTakenBack` | | `NothingTakenBack` |
| **DocumentLifecycleProofs** `LandingInvariance` | | `LandingIsOnce` |
| `LandsOnce` | `OneLoop` | `LandedOnce` |
| `ChecksumInvariance`, `PartedOnlyByBytes` | | `ChecksumsAreKept`, `PartedByBytes` |
| `NoErrorIsCached` | no OCR route | `NoErrorTextCached` |
| `OwnersInvariance`, `LocksInvariance` | | `OncePerThread`, `LocksAreHeld` |
| `FewPromotions` | finitely many threads | `PromotionsAreFew` |
| `NoDeadlock` | | `WaitsAreShort` |
| `SerialInvariance`, `SerialImplementsLedger` | `OneThread` | `Serial`; `PromotedOnce`, the refinement |
| **EInvoiceClearanceProofs** `Invariance`, `TypeCorrect` | | `IInv`, `TypeOK` |
| `NoneLeftSubmitting`, `DecisionsStayReal` | | `NothingLeftSubmitting`, `DecisionsAreReal` |
| `NewestStaysOnRecord` | | `NewestOnRecord` |
| `SerialInvariance`, `OneIsLive`, `RecordStaysBacked`, `LinesStayAsSent` | `Serial` | `SerialIInv`, `OneLiveDocument`, `RecordIsBacked`, `LinesMatchDocument` |
| **ReverseAuctionProofs** `Invariance`, `TypeCorrect` | | `IInv`, `TypeOK` |
| `LeadIsBid`, `FewLead`, `OneAfterTheOtherLeads` | | `LeadWasBid`, `LeadersAreFew`, `LowestLeads` |
| `BidsWithinReserve` | the reserve is not edited | `WithinReserve` |
| **ChunkedUploadProofs** `Invariance`, `TypeCorrect` | | `IInv`, `TypeOK` |
| `ReceivedStaysOnDisk`, `StoredFilesAreReceived` | | `ReceivedIsOnDisk`, `StoredIsReceived` |
| `NewUploadsAreEmpty`, `ImplementsLedger` | | `NothingBeforeTold`; `UploadIsAtomic`, the refinement |
| **PurchaseOrdersProofs** `Invariance`, `TypeCorrect` | | `IInv`, `TypeOK` |
| `NumbersDiffer`, `ArchiveStays`, `NumbersAreKept` | | `NumbersAreUnique`, `ArchivedStaysArchived`, `NumbersStay` |
| `NumbersInSequence`, `NoneSkipped` | three digits are supplied | `InSequence`, `NoGaps` |
| `FailsAtThousand` | three digits are supplied | `UnusedBeforeThousand`, `NeverBeyond` |
| `NextUnused` | and no number is above 999 | `NextIsUnused` |
| **StartupProofs** `Invariance`, `TypeCorrect` | `ChainIsSound` | `IInv`, `TypeOK` |
| `ServersHaveTheSchema`, `AlwaysOneRevision`, `SeedsAreThereOnce` | `ChainIsSound` | `ServesDeclared`, `CommittedIsRevision`, `SeededOnce` |
| `OnlyRivalsRefuse` | `ChainIsSound` | `RefusedOnlyByRival` |
| **AccessProofs** `Invariance`, `TypeCorrect` | | `IInv`, `TypeOK` |
| `RunsOnce`, `OnlyExpirySignsOut` | | `RanOnce`, `LostByExpiry` |

Few of these properties are inductive as they stand, because a request holds copies from
before other requests' commits. Each `IInv` says what such a copy may and may not be. A
proof has one step for each action and under it one for each conjunct that the action can
disturb, over lemmas about `Merge`, ids, locks and sessions.

**DocumentPipeline.** `RowsInHand`: at the steps that use a row the session has one.
`InsertsAreOwn`: a row inserted and not committed belongs to one session and is still
absent in the table. `RawCopyIsSound`, `FileCopyIsSound`: a copy may be stale, but links,
extracted data and archived flags in it have not been taken back since, and the
assignments made to it never unset them; together with the column-wise `Merge` this is why
a stale copy cannot undo a commit. `LinkedIsPromoted`: a link appears only in the commit
of a successful ingestion.

On top of it, `LandingIsOnce`: only landing and confirmation have `landed` to assign,
everything else works on documents that are past it, and with one event loop a confirmation
that assigns it is of a document still pending. With two loops it is not, which is the
weakness that `OneLoop` excludes. `ChecksumsAreKept`: a landing has the checksum of what it
stored; a confirmation has one of bytes that were there, and either the document is already
on record, or the row had no checksum when it was loaded; every other session has the
checksum it loaded and so does not write one. Nothing is assumed of the client or of
deletions, so what `PartedByBytes` states is the most there is: a manifest and its object
are parted when the object changes, or by a confirmation that such a change has overtaken.
`TextsAreReal`: without the OCR route no copy has an error for a text. `Serial`: with one
thread, what an ingestion found missing (a link, an entity) is still missing when it
commits, and each file over a document is the one its manifest links to.

The refinement is proved step by step: the initial states have nothing promoted, only
`IngestCommit` changes `curated` and `booked`, and what it does is a promotion, with or
without an e-invoice, a booking, or nothing to the ledger; every other action stutters. The
event loops need no bound for that: landing and confirmation touch neither files nor
e-invoices, and uploads and deletions no link or entity.

With several threads a document may be promoted more than once, but by each thread at most
once: `OncePerThread` gives every curated file of a document, and every e-invoice of a file,
a thread of its own that is not about to make another one. What a thread has committed it
finds when it loads the row again, and what it loaded before, it commits only once. The
map from files to threads is then an injection for each document, which bounds their
number (`FewPromotions`).

`LocksAreHeld`: a row lock belongs to a transaction in progress that works on the row. A
manifest is locked by an ETL from its claim on, a file by whoever ingests it from the flush to the
commit, and nobody who has locked a file waits for anything. A chain of waits is therefore an
ETL or a confirmation that waits for the manifest of an ETL that waits for its file, and ends
there (`NoDeadlock`). That a request which waits is served in the end is a liveness property
and stays with TLC.

**EInvoiceClearance.** `LocksAreHeld` (a submission has the lock from flush to commit),
`MarksAreOwn` (`submitting` is only in sessions that wait for the service), `NumbersAreOwn`
(whose document a row or a session has the numbers of) and `NumbersGrow` (the number it is
about to record is later than the one there, which the lock makes so). `AnswersAreReal`: a
valid or cancelled status that a session is about to write was decided of a document no
later than the one that will be on record. Statuses and numbers are different columns, so
an old answer may be written beside newer numbers; what makes the claim inductive is that the
numbers on record only grow from the load of the row to its commit, whoever commits in
between. `SerialIInv` is for one
request at a time without lost answers: copies are fresh, rows say what the service has,
whatever counts is on record or about to be.

**ReverseAuction.** `CopiesAreSound`: a bid in progress was acceptable to the auction as
loaded, and assigns just itself. `FirstSawNone`: while nothing is placed no copy has a
leading bid; `LeadWasBid` needs it, because two commits may each write one of the two
columns. `LeadersHaveOwners`: an injection from leading bids to threads, which is why
there are no more of them. `InTurn`: bids that see one another one after the other clear
whoever leads.

**ChunkedUpload.** Who may have the event loop and the lock; which uploads a request can
name; that a chunk about to be counted is on disk; that what is being assembled can lose
chunks but not get others in their place; and that once a file is stored no request can
change or complete that upload again (`StoredIsClosed`).

The refinement rests on that and on `NothingBeforeTold`: `InitOpen` stutters because an
upload has received nothing before its session is opened; `ChunkAdd` is an `Accept`, because
an upload with a file is closed to chunks or its handler still has the loop; `CompleteCommit`
is a `Store`, because nothing missing is left in what it assembled and so it equals what was
received. Deaths, cancellation and expiry are stutters.

**PurchaseOrders.** An uncommitted row has an id and a number of its own; a change starts
from a row that was not archived.

The numbers are compared as strings and read as numbers. The theorems about that assume
of the clients that they supply three digits, as the generator itself does
(`Supplied \subseteq ThreeDigits`); a shorter supplied suffix does break the generator, as the finding
on `po_overflow` says. For three digits the order of strings is that of numbers, and the
only other suffix that can ever be in use is 1000, which is below all that start with a
greater digit. `InSequence` says that of the rows, committed or not, and that each
generated number follows one in use. The greatest string of a finite set of sequences exists
by induction over the natural numbers up to 999, for which the well-founded minimum of
`WellFoundedInduction` serves, because it needs no operator as a parameter. It follows that none is
skipped, and that the generator works until 999 is given (`NextUnused`) and then gives
1000 once, and again for ever (`FailsAtThousand`): the counterexample of `po_overflow` is
the only way in which it fails.

**Startup.** How far a process is with its statements (`OnTheWay`), what a rival may
have made of the database meanwhile, and, for SQLite, that servers create the tables in one
order. The proof knows the chain of revisions only by `ChainIsSound`. That is a
statement about the concrete revisions and not about states: TLC evaluates it in the
`startup` run, in `SoundToStartFrom`, and a proof by hand would unfold folds over all of
the statements.

**Access.** A request whose answer was a refusal has had no effect (`NotRunYet`); without a
hitch all tokens are signed with the one key (`NoHitch`), and a refresh is refused only
because the very token it was sent with has expired (`RefusedByExpiry`).

Only model-checked:

* Liveness -- `RequestsAreAnswered` (twice), `ExtractingPasses`, `EveryServerServes`,
  `EveryRequestEnds`: fairness and ENABLED are outside the prover's reach. That no state is without
  a successor is TLC's too; for the row locks of the pipeline, `NoDeadlock` proves the reason.
* `ChainIsSound` itself, and with it `SoundToStartFrom`: constant formulas over the
  revisions, which the run evaluates completely; there is no instance to generalise from.

## 5. Known weaknesses that the runs steer around

Found while modelling; each is a real interleaving of the code that a narrower run
leaves out. The hazards of `PROJECT.json` name the lines.

* Two ETL runs on one document, on two threads or workers, both find no curated file
  and promote it twice. Likewise two ingestions of one file each find no entity and
  create one, although the docstring of `ingest_file` says "creates at most one linked
  entity": the pipeline with `Requests = {"upload", "ingest"}` and two threads shows it.
* A chunk whose upload is cancelled while it is being read from the request may be
  written after the directory was listed, and then stays on disk for good.
* Two workers may confirm and run the ETL on a document at once, so that the later
  commit of the confirmation turns `extracted` back into `landed`.
* The OCR route stores `[OCR Error ...]` as text, which ingestion takes care not to.
* A pre-signed URL stays valid after confirmation: a late PUT changes bytes under a
  recorded checksum, or between the look of a confirmation at the object and its commit.
  `PartedByBytes` names these as the only ways, with deletion.
* Two submissions of one invoice, or a retry after a lost answer, give the service two
  documents. What holds regardless is `DecisionsAreReal` and `NewestOnRecord`.
* A refresh that is answered while the invoice is submitted again writes what the service
  said of the earlier document beside the numbers of the new one, and an answer may be older than the
  row. `DecisionsAreReal` says how far that goes: the decision is of a document of this
  invoice, of the one on record or of an earlier one.
* A rejection that names a document, or an acceptance that lists none, leaves an
  invoice `submitted` after a refresh with no document to ask for or to cancel.
* Lines may be replaced while a submission is being sent; two replacements at once may both
  insert, and the invoice then has the lines of both. No property covers more than one thread there.
* Bids at the same time may both lead, with the auction naming the later commit
  (`LeadersAreFew` bounds it); an auction may close between check and commit of a bid; a
  bid of 0 reopens the bidding.
* Upload sessions are per process: with more than one worker (`docker-entrypoint.sh`
  starts one by default) chunks may reach a worker without the session, and a restart
  leaves chunks on disk.
* A late answer to a refresh puts tokens back after the user has signed out, and a late
  refusal clears those of a new sign-in.
* Two requests that refresh together send the same refresh token. If it expires between
  their turns, one is granted a new pair and the other refused, and the refusal clears
  the new pair: the page goes to the sign-in with a live refresh token thrown away.
  `LostByExpiry` therefore speaks of the token the refused request itself has sent, and not
  of the one in the browser; and of a user without `hitch`: no lost answer, no account
  switched off, no new key.
* An upload of a file does not go through `request()`: with an expired access token it
  fails, and the page neither refreshes nor sends it again.
* Two first toggles of a module may both insert; the unique key refuses one of them with a
  server error. The key does not cover a setting without a tenant (NULLs are distinct).
* In a chat with two messages sent at once, the history given to the assistant leaves out
  the last message, which may be the other request's.

## 6. What is left out

* Reads that change nothing: lists, downloads, status routes.
* The text parsers, the layout and the signature of e-invoice documents, rounding.
* `raw_verify_checksum_on_confirm=False`; the offline e-invoice backend and the
  configuration of the service for each tenant.
* An exception in `db.refresh` after a commit: the request fails although it succeeded, and
  a retry of `complete`, whose session is still there, would store a second file, which
  `UploadIsAtomic` excludes. Partial transfers to the store,
  the object left behind by a worker that dies between storing and committing.
* Replacing the lines of an invoice by none, and the wait of a DELETE of lines for another
  replacement to commit, which itself waits for nothing.
* `etl_error`, which is not cleared by a later success and decides nothing.
* Tenants: every operation is within one tenant, or, as for order numbers, global.
  Registration, the creation of users and tenants, the deletion of tenants, roles.
* `alembic upgrade head` on SQLite, which a container with the default `DATABASE_URL` runs:
  there each statement commits itself, and a death in the middle leaves tables that the
  next attempt would stumble over. Column types, plain indexes, the offline mode.
* The start of modules (`register_module`), and two administrators at once.
* Chat, AI, event stream: an answer of an external model and what is done with it is one
  transaction that no other component reads. `workers.py` and `scheduler.py`: no code
  imports them.
* Archived auctions, and the physical delete of resources without an archive flag.

## 7. Plan

The models exist, and the theorems of section 4 state what the runs check. What is left,
in this order:

1. A composition of `ChunkedUpload` and `DocumentPipeline` at `file_uploads`: a completed
   upload is a file that ingestion, OCR and deletion work on.
2. The claims that hold where section 5 refutes stronger ones, as `PromotionsAreFew` does
   for the ledger: which documents overlapping submissions can leave with the service, and
   how far the status on record can be behind.
3. The waits for rows of e-invoices, auctions and orders, as `WaitsAreShort` states them for
   the pipeline.

The modules that are proved about declare their constants with named assumptions, have no
recursive operators and have one action for each step.
