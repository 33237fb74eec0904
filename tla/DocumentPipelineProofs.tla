----------------------- MODULE DocumentPipelineProofs -----------------------
(***************************************************************************)
(* Proofs about DocumentPipeline, for any number of documents, files,      *)
(* e-invoices, workers and threads.                                        *)
(***************************************************************************)
EXTENDS DocumentPipeline, TLAPS

(* The unit of work keeps rows and lock tables well typed. *)

LEMMA MergeRaw ==
    ASSUME NEW row \in RawRow, NEW loaded \in RawRow, NEW mine \in RawRow
    PROVE  Merge(row, loaded, mine) \in RawRow
BY DEF Merge, RawRow

LEMMA MergeFile ==
    ASSUME NEW row \in FileRow, NEW loaded \in FileRow, NEW mine \in FileRow
    PROVE  Merge(row, loaded, mine) \in FileRow
BY DEF Merge, FileRow

LEMMA ReleasedTypes ==
    ASSUME NEW p, TypeOK
    PROVE  /\ Released(rawLock, p, None) \in [RawIds -> Procs \cup {None}]
           /\ Released(fileLock, p, None) \in [FileIds -> Procs \cup {None}]
BY DEF Released, TypeOK

LEMMA NullTypes ==
    NoRaw \in RawRow /\ NoFile \in FileRow /\ NoSession \in Session
<1>1. NoRaw \in RawRow
  BY DEF NoRaw, RawRow, RawStatuses, Texts, Blank
<1>2. NoFile \in FileRow
  BY DEF NoFile, FileRow, FileStatuses, Texts, Blank
<1>3. QED
  BY <1>1, <1>2 DEF NoSession, Session

\* TypeOK is an invariant, whatever the requests do.
LEMMA InitTypeOK == Init => TypeOK
BY NullTypes DEF Init, TypeOK, LoopSteps, ThreadSteps

\* Taking up, going on with and ending a request keep pc and sess well typed.
LEMMA ContinueTypes ==
    ASSUME TypeOK, NEW p \in Procs, NEW from, NEW to \in LoopSteps \cup ThreadSteps,
           NEW s \in Session, Continue(p, from, to, s)
    PROVE  pc' \in [Procs -> LoopSteps \cup ThreadSteps] /\ sess' \in [Procs -> Session]
BY DEF Continue, TypeOK

LEMMA FinishTypes ==
    ASSUME TypeOK, NEW p \in Procs, NEW from, Finish(p, from)
    PROVE  pc' \in [Procs -> LoopSteps \cup ThreadSteps] /\ sess' \in [Procs -> Session]
BY ContinueTypes, NullTypes DEF Finish, LoopSteps

LEMMA BeginTypes ==
    ASSUME TypeOK, NEW p \in Procs, NEW kind, NEW to \in LoopSteps \cup ThreadSteps,
           NEW s \in Session, Begin(p, kind, to, s)
    PROVE  pc' \in [Procs -> LoopSteps \cup ThreadSteps] /\ sess' \in [Procs -> Session]
BY DEF Begin, TypeOK

LEMMA LoopTypes ==
    ASSUME TypeOK, NEW l \in Loops, LoopStart(l) \/ LoopStep(l)
    PROVE  TypeOK'
<1> l \in Procs
  BY DEF Procs
<1> USE NullTypes
<1>1. CASE LandSave(l)
  <2>1. PICK r \in FreshRaws, c \in Contents, cat \in Categories :
          /\ Begin(l, "land", "land",
                  [NoSession EXCEPT !.raw = r,
                      !.rawMine = [NoRaw EXCEPT !.status = "landed", !.source = "upload",
                                                !.checksum = c, !.category = cat]])
          /\ objects' = [objects EXCEPT ![r] = c]
    BY <1>1 DEF LandSave
  <2>2. [NoRaw EXCEPT !.status = "landed", !.source = "upload",
                      !.checksum = c, !.category = cat] \in RawRow
    BY DEF NoRaw, RawRow, RawStatuses
  <2>3. r \in RawIds
    BY DEF FreshRaws
  <2>4. [NoSession EXCEPT !.raw = r,
                      !.rawMine = [NoRaw EXCEPT !.status = "landed", !.source = "upload",
                                                !.checksum = c, !.category = cat]] \in Session
    BY <2>2, <2>3 DEF Session, NoSession
  <2>5. pc' \in [Procs -> LoopSteps \cup ThreadSteps] /\ sess' \in [Procs -> Session]
    BY <2>1, <2>4, BeginTypes DEF LoopSteps
  <2> QED
    BY <1>1, <2>1, <2>5 DEF LandSave, TypeOK, locks, Paths
<1>2. CASE Presign(l)
  <2>1. PICK r \in FreshRaws, cat \in Categories :
           raws' = [raws EXCEPT ![r] = [NoRaw EXCEPT !.status = "pending_upload",
                                                   !.source = "presign", !.category = cat]]
    BY <1>2 DEF Presign
  <2>2. [NoRaw EXCEPT !.status = "pending_upload",
                      !.source = "presign", !.category = cat] \in RawRow
    BY DEF NoRaw, RawRow, RawStatuses
  <2> QED
    BY <1>2, <2>1, <2>2 DEF Presign, TypeOK, locks
<1>3. CASE UploadSave(l)
  <2>1. PICK f \in FreshFiles, c \in Contents, cat \in Categories :
         /\ Begin(l, "upload", "upload",
                  [NoSession EXCEPT !.file = f,
                      !.fileMine = [NoFile EXCEPT !.status = "pending", !.path = f,
                                                  !.category = cat]])
         /\ objects' = [objects EXCEPT ![f] = c]
    BY <1>3 DEF UploadSave
  <2>2. f \in FileIds
    BY DEF FreshFiles
  <2>3. [NoFile EXCEPT !.status = "pending", !.path = f, !.category = cat] \in FileRow
    BY <2>2 DEF NoFile, FileRow, FileStatuses, Paths
  <2>4. [NoSession EXCEPT !.file = f,
            !.fileMine = [NoFile EXCEPT !.status = "pending", !.path = f,
                                        !.category = cat]] \in Session
    BY <2>2, <2>3 DEF Session, NoSession
  <2>5. pc' \in [Procs -> LoopSteps \cup ThreadSteps] /\ sess' \in [Procs -> Session]
    BY <2>1, <2>4, BeginTypes DEF LoopSteps
  <2> QED
    BY <1>3, <2>1, <2>5 DEF UploadSave, TypeOK, locks, Paths
<1>4. ASSUME NEW r \in RawIds, ConfirmLoad(l, r)
      PROVE  TypeOK'
  <2>1. Confirmed(r) \in RawRow
    BY DEF Confirmed, TypeOK, RawRow, RawStatuses, Paths
  <2>2. [NoSession EXCEPT !.raw = r, !.rawLoaded = raws[r],
            !.rawMine = Confirmed(r)] \in Session
    BY <2>1 DEF TypeOK, Session, NoSession
  <2>3. pc' \in [Procs -> LoopSteps \cup ThreadSteps] /\ sess' \in [Procs -> Session]
    BY <1>4, <2>2, BeginTypes DEF LoopSteps, ConfirmLoad
  <2> QED
    BY <1>4, <2>3 DEF ConfirmLoad, TypeOK, locks, store
<1>5. ASSUME NEW f \in FileIds, DeleteObject(l, f)
      PROVE  TypeOK'
  <2>1. [files[f] EXCEPT !.archived = TRUE] \in FileRow
    BY DEF TypeOK, FileRow
  <2>2. [NoSession EXCEPT !.file = f, !.fileLoaded = files[f],
            !.fileMine = [files[f] EXCEPT !.archived = TRUE]] \in Session
    BY <2>1 DEF TypeOK, Session, NoSession
  <2>3. pc' \in [Procs -> LoopSteps \cup ThreadSteps] /\ sess' \in [Procs -> Session]
    BY <1>5, <2>2, BeginTypes DEF LoopSteps, DeleteObject
  <2> QED
    BY <1>5, <2>3 DEF DeleteObject, TypeOK, locks, store
<1> DEFINE s == sess[l]
<1>6. s \in Session /\ s.rawLoaded \in RawRow /\ s.rawMine \in RawRow
        /\ s.fileLoaded \in FileRow /\ s.fileMine \in FileRow
  BY DEF TypeOK, Session
<1>7. ASSUME NEW from, Finish(l, from)
      PROVE  pc' \in [Procs -> LoopSteps \cup ThreadSteps] /\ sess' \in [Procs -> Session]
  BY <1>7, FinishTypes
<1>8. CASE LandCommit(l)
  BY <1>6, <1>7, <1>8 DEF LandCommit, TypeOK, locks
<1>9. CASE ConfirmCommit(l)
  <2>1. raws' = [raws EXCEPT ![s.raw] = Merge(raws[s.raw], s.rawLoaded, s.rawMine)]
    BY <1>9 DEF ConfirmCommit
  <2>2. raws' \in [RawIds -> RawRow]
    BY <1>6, <2>1, MergeRaw DEF TypeOK
  <2> QED
    BY <1>7, <1>9, <2>2 DEF ConfirmCommit, TypeOK, locks
<1>10. CASE UploadCommit(l)
  BY <1>6, <1>7, <1>10 DEF UploadCommit, TypeOK, locks
<1>11. CASE DeleteCommit(l)
  <2>1. files' = [files EXCEPT ![s.file] = Merge(files[s.file], s.fileLoaded, s.fileMine)]
    BY <1>11 DEF DeleteCommit
  <2>2. files' \in [FileIds -> FileRow]
    BY <1>6, <2>1, MergeFile DEF TypeOK
  <2> QED
    BY <1>7, <1>11, <2>2 DEF DeleteCommit, TypeOK, locks
<1> QED
  BY <1>1, <1>2, <1>3, <1>4, <1>5, <1>8, <1>9, <1>10, <1>11 DEF LoopStart, LoopStep

LEMMA ThreadStartTypes ==
    ASSUME TypeOK, NEW t \in Threads, ThreadStart(t)
    PROVE  TypeOK'
<1> t \in Procs
  BY DEF Procs
<1> USE NullTypes
<1>1. ASSUME NEW r \in RawIds, EtlLoad(t, r)
      PROVE  TypeOK'
  <2>1. [raws[r] EXCEPT !.status = "extracting"] \in RawRow
    BY DEF TypeOK, RawRow, RawStatuses
  <2>2. [NoSession EXCEPT !.raw = r, !.rawLoaded = raws[r],
            !.rawMine = [raws[r] EXCEPT !.status = "extracting"]] \in Session
    BY <2>1 DEF TypeOK, Session, NoSession
  <2>3. pc' \in [Procs -> LoopSteps \cup ThreadSteps] /\ sess' \in [Procs -> Session]
    BY <1>1, <2>2, BeginTypes DEF ThreadSteps, EtlLoad
  <2> QED
    BY <1>1, <2>3 DEF EtlLoad, TypeOK, locks, store
<1>2. ASSUME NEW f \in FileIds, IngestLoad(t, f) \/ OcrLoad(t, f)
      PROVE  TypeOK'
  <2>1. [NoSession EXCEPT !.file = f, !.fileLoaded = files[f], !.fileMine = files[f]] \in Session
    BY DEF TypeOK, Session, NoSession
  <2>2. pc' \in [Procs -> LoopSteps \cup ThreadSteps] /\ sess' \in [Procs -> Session]
    BY <1>2, <2>1, BeginTypes DEF ThreadSteps, IngestLoad, OcrLoad
  <2> QED
    BY <1>2, <2>2 DEF IngestLoad, OcrLoad, TypeOK, locks, store
<1> QED
  BY <1>1, <1>2 DEF ThreadStart

LEMMA ThreadStepTypes ==
    ASSUME TypeOK, NEW t \in Threads, RowsInHand(t), ThreadStep(t)
    PROVE  TypeOK'
<1> t \in Procs
  BY DEF Procs
<1> USE NullTypes
<1> DEFINE s == sess[t]
<1>s. s \in Session /\ s.rawLoaded \in RawRow /\ s.rawMine \in RawRow
        /\ s.fileLoaded \in FileRow /\ s.fileMine \in FileRow
  BY DEF TypeOK, Session
<1>c. ASSUME NEW from, NEW to \in LoopSteps \cup ThreadSteps, NEW session \in Session,
             Continue(t, from, to, session) \/ Finish(t, from) \/ AfterIngest(t, from, session)
      PROVE  pc' \in [Procs -> LoopSteps \cup ThreadSteps] /\ sess' \in [Procs -> Session]
  BY <1>c, ContinueTypes, FinishTypes DEF AfterIngest, ThreadSteps
<1>f. ASSUME NEW from, Finish(t, from)
      PROVE  pc' \in [Procs -> LoopSteps \cup ThreadSteps] /\ sess' \in [Procs -> Session]
  BY <1>f, FinishTypes
<1>1. CASE EtlClaim(t)
  <2>1. pc' \in [Procs -> LoopSteps \cup ThreadSteps] /\ sess' \in [Procs -> Session]
    BY <1>1, <1>s, <1>c DEF EtlClaim, ThreadSteps
  <2> QED
    BY <1>1, <2>1 DEF EtlClaim, TypeOK, store
<1>2. CASE EtlCurate(t)
  <2>1. CASE s.rawLoaded.link # None
    <3>1. s.rawLoaded.link \in FileIds
      BY <2>1, <1>s DEF RawRow
    <3>2. [s EXCEPT !.file = s.rawLoaded.link, !.fileLoaded = files[s.rawLoaded.link],
                    !.fileMine = files[s.rawLoaded.link]] \in Session
      BY <3>1, <1>s DEF Session, TypeOK
    <3>3. Continue(t, "curate", "process",
                      [s EXCEPT !.file = s.rawLoaded.link,
                                !.fileLoaded = files[s.rawLoaded.link],
                                !.fileMine = files[s.rawLoaded.link]])
      BY <1>2, <2>1 DEF EtlCurate
    <3>4. pc' \in [Procs -> LoopSteps \cup ThreadSteps] /\ sess' \in [Procs -> Session]
      BY <3>2, <3>3, <1>c DEF ThreadSteps
    <3> QED
      BY <1>2, <3>4 DEF EtlCurate, TypeOK, store, locks
  <2>2. CASE s.rawLoaded.link = None
    <3>1. PICK f \in FreshFiles :
               Continue(t, "curate", "process",
                        [s EXCEPT !.file = f, !.rawMine.link = f,
                                  !.fileMine = [NoFile EXCEPT !.status = "pending",
                                                              !.path = s.raw,
                                                              !.text = s.rawLoaded.text,
                                                              !.category = s.rawLoaded.category]])
      BY <1>2, <2>2 DEF EtlCurate
    <3>2. f \in FileIds
      BY DEF FreshFiles
    <3>3. [NoFile EXCEPT !.status = "pending", !.path = s.raw, !.text = s.rawLoaded.text,
                         !.category = s.rawLoaded.category] \in FileRow
      <4>1. s.raw \in Paths \cup {None} /\ s.rawLoaded.text \in Texts
               /\ s.rawLoaded.category \in Categories \cup {None}
        BY <1>s DEF Paths, RawRow, Session
      <4> QED
        BY <4>1, NullTypes DEF NoFile, FileRow, FileStatuses
    <3>4. [s.rawMine EXCEPT !.link = f] \in RawRow
      BY <1>s, <3>2 DEF RawRow
    <3>5. [s EXCEPT !.file = f, !.rawMine.link = f,
                    !.fileMine = [NoFile EXCEPT !.status = "pending",
                                                !.path = s.raw,
                                                !.text = s.rawLoaded.text,
                                                !.category = s.rawLoaded.category]] \in Session
      BY <1>s, <3>2, <3>3, <3>4 DEF Session
    <3>6. pc' \in [Procs -> LoopSteps \cup ThreadSteps] /\ sess' \in [Procs -> Session]
      BY <3>1, <3>5, <1>c DEF ThreadSteps
    <3> QED
      BY <1>2, <3>6 DEF EtlCurate, TypeOK, store, locks
  <2> QED
    BY <2>1, <2>2
<1>3. CASE IngestFlush(t)
  <2>1. [s.fileMine EXCEPT !.status = "processing"] \in FileRow
    BY <1>s DEF FileRow, FileStatuses
  <2>2. [s EXCEPT !.fileMine.status = "processing"] \in Session
    BY <1>s, <2>1 DEF Session
  <2>3. pc' \in [Procs -> LoopSteps \cup ThreadSteps] /\ sess' \in [Procs -> Session]
    BY <1>3, <2>2, <1>c DEF IngestFlush, ThreadSteps
  <2> QED
    BY <1>3, <2>3 DEF IngestFlush, TypeOK, store
<1>t. \A text \in TextOf(s) : text \in Texts /\ Cached(s.fileMine.text, text) \in Texts
  BY <1>s, IdsAssumption DEF TextOf, Cached, FileRow
<1>4. CASE Extract(t)
  <2>1. PICK text \in TextOf(s), i \in EntityOf(s) :
         Continue(t, "extract", "commit",
                  [s EXCEPT !.fileMine.text = Cached(@, text),
                            !.fileMine.extracted = TRUE,
                            !.fileMine.status = "ingested",
                            !.fileMine.entity = i,
                            !.invoice = IF i = s.fileMine.entity THEN None ELSE i])
    BY <1>4 DEF Extract
  <2>2. i \in InvoiceIds \cup {None}
    BY <1>s DEF EntityOf, FreshInvoices, FileRow
  <2>3. [s.fileMine EXCEPT !.text = Cached(@, text), !.extracted = TRUE,
                           !.status = "ingested", !.entity = i] \in FileRow
    BY <1>s, <1>t, <2>2 DEF FileRow, FileStatuses
  <2>4. [s EXCEPT !.fileMine.text = Cached(@, text),
                            !.fileMine.extracted = TRUE,
                            !.fileMine.status = "ingested",
                            !.fileMine.entity = i,
                            !.invoice = IF i = s.fileMine.entity THEN None ELSE i] \in Session
    BY <1>s, <2>2, <2>3 DEF Session, FileRow
  <2>5. pc' \in [Procs -> LoopSteps \cup ThreadSteps] /\ sess' \in [Procs -> Session]
    BY <2>1, <2>4, <1>c DEF ThreadSteps
  <2> QED
    BY <1>4, <2>5 DEF Extract, TypeOK, store, locks
<1>5. CASE ExtractRaises(t)
  <2>1. PICK text \in {s.fileMine.text} \cup {Cached(s.fileMine.text, x) : x \in TextOf(s)} :
         Continue(t, "extract", IF Inserted(s) THEN "reload" ELSE "fail",
                  [s EXCEPT !.fileMine.text = text])
    BY <1>5 DEF ExtractRaises
  <2>2. [s.fileMine EXCEPT !.text = text] \in FileRow
    BY <1>s, <1>t DEF FileRow
  <2>3. [s EXCEPT !.fileMine.text = text] \in Session
    BY <1>s, <2>2 DEF Session
  <2>4. pc' \in [Procs -> LoopSteps \cup ThreadSteps] /\ sess' \in [Procs -> Session]
    BY <2>1, <2>3, <1>c DEF ThreadSteps
  <2> QED
    BY <1>5, <2>4, ReleasedTypes DEF ExtractRaises, EndTransaction, TypeOK, store
<1>6. CASE IngestCommit(t)
  <2>1. [s EXCEPT !.ok = TRUE, !.invoice = None] \in Session
    BY <1>s DEF Session
  <2>2. pc' \in [Procs -> LoopSteps \cup ThreadSteps] /\ sess' \in [Procs -> Session]
    BY <1>6, <2>1, <1>c DEF IngestCommit, ThreadSteps
  <2>3. files' \in [FileIds -> FileRow]
    <3>1. s.file \in FileIds => files[s.file] \in FileRow
      BY DEF TypeOK
    <3>2. s.file \in FileIds =>
            [Merge(files[s.file], s.fileLoaded, s.fileMine) EXCEPT !.status = "ingested"] \in FileRow
      BY <1>s, <3>1, MergeFile DEF FileRow, FileStatuses
    <3>3. files' = [files EXCEPT ![s.file] =
                   IF Inserted(s) THEN s.fileMine
                   ELSE [Merge(files[s.file], s.fileLoaded, s.fileMine) EXCEPT !.status = "ingested"]]
      BY <1>6 DEF IngestCommit
    <3> QED
      BY <1>s, <3>2, <3>3 DEF TypeOK
  <2>4. raws' \in [RawIds -> RawRow]
    <3>1. s.raw \in RawIds => Merge(raws[s.raw], s.rawLoaded, s.rawMine) \in RawRow
      BY <1>s, MergeRaw DEF TypeOK
    <3>2. raws' = IF s.raw = None THEN raws
                  ELSE [raws EXCEPT ![s.raw] = Merge(raws[s.raw], s.rawLoaded, s.rawMine)]
      BY <1>6 DEF IngestCommit
    <3> QED
      BY <3>1, <3>2 DEF TypeOK
  <2>5. invoiceOf' \in [InvoiceIds -> FileIds \cup {None}]
    BY <1>s, <1>6 DEF IngestCommit, TypeOK, Session
  <2> QED
    BY <1>6, <2>2, <2>3, <2>4, <2>5, ReleasedTypes DEF IngestCommit, EndTransaction, TypeOK
<1>7. CASE IngestFail(t)
  <2>1. pc' \in [Procs -> LoopSteps \cup ThreadSteps] /\ sess' \in [Procs -> Session]
    BY <1>7, <1>s, <1>c DEF IngestFail, ThreadSteps
  <2>2. files' \in [FileIds -> FileRow]
    <3>1. s.file \in FileIds => [files[s.file] EXCEPT !.status = "failed"] \in FileRow
      BY DEF TypeOK, FileRow, FileStatuses
    <3> QED
      BY <1>7, <3>1 DEF IngestFail, TypeOK
  <2> QED
    BY <1>7, <2>1, <2>2 DEF IngestFail, TypeOK, locks
<1>8. CASE EtlReload(t)
  <2> DEFINE row == raws[s.raw]
             curated == IF Inserted(s) /\ ~s.ok THEN s.fileMine ELSE files[s.file]
  <2>1. Continue(t, "reload", "finish",
                [s EXCEPT !.rawLoaded = row,
                          !.rawMine = [row EXCEPT
                              !.status = Outcome(s),
                              !.text = IF @ = Blank THEN curated.text ELSE @,
                              !.category = curated.category]])
    BY <1>8 DEF EtlReload
  <2>2. pc[t] = "reload"
    BY <2>1 DEF Continue
  <2>3. s.raw \in RawIds /\ s.file \in FileIds
    BY <1>s, <2>2 DEF RowsInHand, Session
  <2>4. row \in RawRow /\ curated.text \in Texts /\ curated.category \in Categories \cup {None}
    BY <1>s, <2>3 DEF TypeOK, FileRow
  <2> HIDE DEF row, curated
  <2>5. [row EXCEPT !.status = Outcome(s),
                    !.text = IF @ = Blank THEN curated.text ELSE @,
                    !.category = curated.category] \in RawRow
    <3>1. Outcome(s) \in RawStatuses
      BY DEF Outcome, RawStatuses
    <3>2. (IF row.text = Blank THEN curated.text ELSE row.text) \in Texts
      BY <2>4 DEF RawRow
    <3> QED
      BY <2>4, <3>1, <3>2 DEF RawRow
  <2>6. [s EXCEPT !.rawLoaded = row,
                  !.rawMine = [row EXCEPT
                              !.status = Outcome(s),
                              !.text = IF @ = Blank THEN curated.text ELSE @,
                              !.category = curated.category]] \in Session
    BY <1>s, <2>4, <2>5 DEF Session
  <2>7. pc' \in [Procs -> LoopSteps \cup ThreadSteps] /\ sess' \in [Procs -> Session]
    BY <2>1, <2>6, <1>c DEF ThreadSteps
  <2> QED
    BY <1>8, <2>7 DEF EtlReload, TypeOK, store, locks
<1>9. CASE EtlFinish(t)
  <2>1. raws' = [raws EXCEPT ![s.raw] = Merge(raws[s.raw], s.rawLoaded, s.rawMine)]
    BY <1>9 DEF EtlFinish
  <2>2. raws' \in [RawIds -> RawRow]
    BY <1>s, <2>1, MergeRaw DEF TypeOK
  <2> QED
    BY <1>9, <1>f, <2>2 DEF EtlFinish, TypeOK, locks
<1>10. CASE OcrCommit(t)
  <2>1. PICK text \in OcrResults :
          files' = [files EXCEPT ![s.file] =
                     Merge(files[s.file], s.fileLoaded, [s.fileMine EXCEPT !.text = text])]
    BY <1>10 DEF OcrCommit
  <2>2. [s.fileMine EXCEPT !.text = text] \in FileRow
    BY <1>s, IdsAssumption DEF FileRow
  <2>3. files' \in [FileIds -> FileRow]
    BY <1>s, <2>1, <2>2, MergeFile DEF TypeOK
  <2> QED
    BY <1>10, <1>f, <2>3 DEF OcrCommit, TypeOK, locks
<1>11. CASE OcrRaises(t)
  BY <1>11, <1>f DEF OcrRaises, TypeOK, locks, store
<1> QED
  BY <1>1, <1>2, <1>3, <1>4, <1>5, <1>6, <1>7, <1>8, <1>9, <1>10, <1>11 DEF ThreadStep

LEMMA OtherTypes ==
    ASSUME TypeOK
    PROVE  /\ \A p \in Procs : Abort(p) => TypeOK'
           /\ \A r \in RawIds : ClientPut(r) => TypeOK'
           /\ UNCHANGED vars => TypeOK'
<1>1. ASSUME NEW p \in Procs, Abort(p)
      PROVE  TypeOK'
  BY <1>1, FinishTypes, ReleasedTypes DEF Abort, EndTransaction, TypeOK, store
<1>2. ASSUME NEW r \in RawIds, ClientPut(r)
      PROVE  TypeOK'
  BY <1>2 DEF ClientPut, TypeOK, locks, Paths
<1>3. UNCHANGED vars => TypeOK'
  BY DEF vars, TypeOK
<1> QED
  BY <1>1, <1>2, <1>3

LEMMA StepTypeOK ==
    ASSUME TypeOK, \A p \in Procs : RowsInHand(p), [Next]_vars
    PROVE  TypeOK'
BY LoopTypes, ThreadStartTypes, ThreadStepTypes, OtherTypes DEF Next, Quiet, Procs

-----------------------------------------------------------------------------
(* The invariant IInv.  One process acts at a time; what it commits only      *)
(* grows, and it keeps clear of what the others have inserted.                *)

Grows ==
    /\ \A r \in RawIds :
         /\ raws[r].status # "absent" => raws'[r].status # "absent"
         /\ raws[r].link # None => raws'[r].link # None
    /\ \A f \in FileIds :
         /\ files[f].status # "absent" => /\ files'[f].status # "absent"
                                          /\ files'[f].path = files[f].path
                                          /\ files'[f].category = files[f].category
         /\ files[f].extracted => files'[f].extracted
         /\ files[f].entity # None => files'[f].entity # None
         /\ files[f].archived => files'[f].archived
    /\ \A i \in InvoiceIds : invoiceOf[i] # None => invoiceOf'[i] = invoiceOf[i]

KeepsClear(p, q) ==
    /\ pc[q] = "land" =>
         raws'[sess[q].raw] = raws[sess[q].raw] /\ sess'[p].raw # sess[q].raw
    /\ (Ingesting(q) \/ pc[q] = "upload") /\ Inserted(sess[q]) =>
         files'[sess[q].file] = files[sess[q].file] /\ sess'[p].file # sess[q].file
    /\ sess[q].invoice # None =>
         invoiceOf'[sess[q].invoice] = invoiceOf[sess[q].invoice] /\ sess'[p].invoice # sess[q].invoice

Acts(p) == \A q \in Procs \ {p} : pc'[q] = pc[q] /\ sess'[q] = sess[q]

\* A process that does not act stays sound.
LEMMA Bystander ==
    ASSUME IInv, NEW p \in Procs, NEW q \in Procs \ {p}, Acts(p), Grows, KeepsClear(p, q)
    PROVE  Sound(q)'
<1> USE DEF IInv
<1>s. Sound(q) /\ pc'[q] = pc[q] /\ sess'[q] = sess[q] /\ q \in Procs
  BY DEF Acts
<1>t. sess[q] \in Session
  BY DEF TypeOK
<1>1. RowsInHand(q)'
  BY <1>s DEF Sound, RowsInHand
<1>2. InsertsAreOwn(q)'
  <2>1. \A z \in Procs \ {q} : z # p => sess'[z] = sess[z]
    BY DEF Acts
  <2> QED
    BY <1>s, <2>1 DEF Sound, InsertsAreOwn, KeepsClear, Ingesting, Inserted
<1>3. RawCopyIsSound(q)'
  <2>1. RowsInHand(q) /\ RawCopyIsSound(q)
    BY <1>s DEF Sound
  <2>2. sess[q].rawLoaded.link \in FileIds \cup {None}
    BY <1>t DEF Session, RawRow
  <2> QED
    BY <1>s, <1>t, <2>1, <2>2 DEF RowsInHand, RawCopyIsSound, Grows, Ingesting, Inserted, Session
<1>4. FileCopyIsSound(q)'
  <2>1. RowsInHand(q) /\ FileCopyIsSound(q)
    BY <1>s DEF Sound
  <2> QED
    BY <1>s, <1>t, <2>1 DEF RowsInHand, FileCopyIsSound, Grows, Ingesting, Inserted, Session
<1> QED
  BY <1>1, <1>2, <1>3, <1>4 DEF Sound

LEMMA IdleIsSound ==
    ASSUME NEW p \in Procs, pc'[p] = "idle", sess'[p] = NoSession
    PROVE  Sound(p)'
BY DEF Sound, RowsInHand, InsertsAreOwn, RawCopyIsSound, FileCopyIsSound, Ingesting, Inserted,
       NoSession, NoRaw, NoFile

\* If the rows do not change, nothing has to be shown about them.
LEMMA RowsUnchanged ==
    ASSUME IInv, UNCHANGED <<raws, files, invoiceOf>>
    PROVE  Grows /\ LinkedIsPromoted' /\ LinksAreSound'
BY DEF IInv, Grows, LinkedIsPromoted, LinksAreSound

\* One process acts: what is left to show of IInv.
LEMMA OneActs ==
    ASSUME IInv, TypeOK', NEW p \in Procs, Acts(p), Grows, Sound(p)',
           \A q \in Procs \ {p} : KeepsClear(p, q),
           LinkedIsPromoted', LinksAreSound'
    PROVE  IInv'
<1>1. \A q \in Procs : Sound(q)'
  BY Bystander
<1> QED
  BY <1>1 DEF IInv

\* A request that starts on committed rows, or on fresh ids, starts sound.
LEMMA StartSound ==
    ASSUME IInv, TypeOK', NEW p \in Procs, LoopStart(p) \/ ThreadStart(p),
           p \in Loops \/ p \in Threads, ~Presign(p)
    PROVE  IInv'
<1> USE DEF Begin
<1>r. UNCHANGED <<raws, files, invoiceOf>>
  BY DEF LoopStart, ThreadStart, LandSave, UploadSave, ConfirmLoad, DeleteObject, EtlLoad,
         IngestLoad, OcrLoad, store
<1>a. Acts(p) /\ pc[p] = "idle"
  BY DEF LoopStart, ThreadStart, LandSave, UploadSave, ConfirmLoad, DeleteObject, EtlLoad,
         IngestLoad, OcrLoad, Acts, IInv, TypeOK
<1>t. TypeOK
  BY DEF IInv
<1>1. Grows /\ LinkedIsPromoted' /\ LinksAreSound'
  BY <1>r, RowsUnchanged
<1>2. ASSUME NEW r \in FreshRaws, NEW mine, mine.status = "landed", mine.link = None,
             pc' = [pc EXCEPT ![p] = "land"],
             sess' = [sess EXCEPT ![p] = [NoSession EXCEPT !.raw = r, !.rawMine = mine]]
      PROVE  Sound(p)' /\ \A q \in Procs \ {p} : KeepsClear(p, q)
  <2>1. /\ pc'[p] = "land" /\ sess'[p].raw = r /\ sess'[p].rawMine.link = None
        /\ sess'[p].rawMine.status = "landed" /\ sess'[p].rawLoaded = NoRaw
        /\ sess'[p].file = None /\ sess'[p].invoice = None /\ ~sess'[p].ok
        /\ sess'[p].fileLoaded = NoFile /\ sess'[p].fileMine = NoFile
    BY <1>2, <1>t DEF TypeOK, NoSession, NoRaw
  <2>2. r \in RawIds /\ raws[r] = NoRaw /\ \A q \in Procs : sess[q].raw # r
    BY DEF FreshRaws
  <2>3. \A q \in Procs \ {p} : sess'[q] = sess[q]
    BY <1>a DEF Acts
  <2>4. r # None
    BY <2>2, IdsAssumption
  <2>5. Sound(p)'
    BY <1>r, <2>1, <2>2, <2>3, <2>4 DEF Sound, RowsInHand, InsertsAreOwn, RawCopyIsSound,
       FileCopyIsSound, Ingesting, Inserted, NoRaw, NoFile
  <2>6. \A q \in Procs \ {p} : KeepsClear(p, q)
    BY <1>r, <2>1, <2>2 DEF KeepsClear, IInv, Sound, RowsInHand, Ingesting
  <2> QED
    BY <2>5, <2>6
<1>3. ASSUME NEW f \in FreshFiles, NEW cat \in Categories,
             pc' = [pc EXCEPT ![p] = "upload"],
             sess' = [sess EXCEPT ![p] =
                  [NoSession EXCEPT !.file = f,
                      !.fileMine = [NoFile EXCEPT !.status = "pending", !.path = f,
                                                  !.category = cat]]]
      PROVE  Sound(p)' /\ \A q \in Procs \ {p} : KeepsClear(p, q)
  <2>1. /\ pc'[p] = "upload" /\ sess'[p].raw = None /\ sess'[p].invoice = None /\ ~sess'[p].ok
        /\ sess'[p].file = f /\ sess'[p].fileLoaded = NoFile
        /\ sess'[p].fileMine.status = "pending" /\ sess'[p].fileMine.path = f
        /\ sess'[p].fileMine.entity = None
        /\ sess'[p].rawLoaded = NoRaw /\ sess'[p].rawMine = NoRaw
    BY <1>3, <1>t DEF TypeOK, NoSession, NoFile
  <2>2. f \in FileIds /\ files[f] = NoFile /\ \A q \in Procs : sess[q].file # f
    BY DEF FreshFiles
  <2>3. \A q \in Procs \ {p} : sess'[q] = sess[q]
    BY <1>a DEF Acts
  <2>4. f # None
    BY <2>2, IdsAssumption
  <2>5. Sound(p)'
    BY <1>r, <2>1, <2>2, <2>3, <2>4 DEF Sound, RowsInHand, InsertsAreOwn, RawCopyIsSound,
       FileCopyIsSound, Ingesting, Inserted, NoRaw, NoFile
  <2>6. \A q \in Procs \ {p} : KeepsClear(p, q)
    BY <1>r, <2>1, <2>2 DEF KeepsClear, IInv, Sound, RowsInHand, Ingesting
  <2> QED
    BY <2>5, <2>6
\* The requests that start on a committed row take no fresh id.
<1>k. ASSUME sess'[p].invoice = None,
             \A q \in Procs \ {p} : pc[q] = "land" => sess[q].raw # sess'[p].raw,
             \A q \in Procs \ {p} : Inserted(sess[q]) /\ (Ingesting(q) \/ pc[q] = "upload")
                                       => sess[q].file # sess'[p].file
      PROVE  \A q \in Procs \ {p} : KeepsClear(p, q)
  BY <1>r, <1>k DEF KeepsClear
<1>l. ASSUME NEW q \in Procs, pc[q] = "land"
      PROVE  sess[q].raw # None /\ raws[sess[q].raw].status = "absent"
  BY <1>l DEF IInv, Sound, RowsInHand, InsertsAreOwn, NoRaw
<1>i. ASSUME NEW q \in Procs, Inserted(sess[q]), Ingesting(q) \/ pc[q] = "upload"
      PROVE  sess[q].file # None /\ files[sess[q].file].status = "absent"
  BY <1>i DEF IInv, Sound, RowsInHand, InsertsAreOwn, Inserted, NoFile
<1>4. ASSUME NEW r \in RawIds, raws[r].status # "absent", NEW to \in {"confirm", "claim"},
             NEW mine \in RawRow, mine.link = raws[r].link,
             mine.status \in {"landed", "extracting"},
             pc' = [pc EXCEPT ![p] = to],
             sess' = [sess EXCEPT ![p] = [NoSession EXCEPT !.raw = r, !.rawLoaded = raws[r],
                                                           !.rawMine = mine]]
      PROVE  Sound(p)' /\ \A q \in Procs \ {p} : KeepsClear(p, q)
  <2>1. /\ pc'[p] = to /\ sess'[p].raw = r /\ sess'[p].invoice = None /\ ~sess'[p].ok
        /\ sess'[p].file = None /\ sess'[p].fileLoaded = NoFile /\ sess'[p].fileMine = NoFile
        /\ sess'[p].rawLoaded = raws[r] /\ sess'[p].rawMine = mine
    BY <1>4, <1>t DEF TypeOK, NoSession
  <2>2. r # None
    BY IdsAssumption
  <2>3. raws[r].link # None => files[raws[r].link].status # "absent"
    BY DEF IInv, LinksAreSound
  <2>4. Sound(p)'
    BY <1>r, <1>4, <2>1, <2>2, <2>3 DEF Sound, RowsInHand, InsertsAreOwn, RawCopyIsSound,
       FileCopyIsSound, Ingesting, Inserted, NoFile
  <2> QED
    BY <1>4, <1>k, <1>l, <1>i, <2>1, <2>4
<1>5. ASSUME NEW f \in FileIds, files[f].status # "absent",
             NEW to \in {"delete", "process", "ocr"},
             NEW mine \in FileRow, mine.status # "absent", mine.path = files[f].path,
             mine.category = files[f].category, mine.entity = files[f].entity,
             files[f].extracted => mine.extracted, files[f].archived => mine.archived,
             pc' = [pc EXCEPT ![p] = to],
             sess' = [sess EXCEPT ![p] = [NoSession EXCEPT !.file = f, !.fileLoaded = files[f],
                                                           !.fileMine = mine]]
      PROVE  Sound(p)' /\ \A q \in Procs \ {p} : KeepsClear(p, q)
  <2>1. /\ pc'[p] = to /\ sess'[p].file = f /\ sess'[p].invoice = None /\ ~sess'[p].ok
        /\ sess'[p].raw = None /\ sess'[p].rawLoaded = NoRaw /\ sess'[p].rawMine = NoRaw
        /\ sess'[p].fileLoaded = files[f] /\ sess'[p].fileMine = mine
    BY <1>5, <1>t DEF TypeOK, NoSession
  <2>2. f # None /\ files[f] # NoFile
    BY <1>5, IdsAssumption DEF NoFile
  <2>3. Sound(p)'
    BY <1>r, <1>5, <2>1, <2>2 DEF Sound, RowsInHand, InsertsAreOwn, RawCopyIsSound,
       FileCopyIsSound, Ingesting, Inserted, NoRaw
  <2> QED
    BY <1>5, <1>k, <1>l, <1>i, <2>1, <2>3
<1>6. Sound(p)' /\ \A q \in Procs \ {p} : KeepsClear(p, q)
  <2>1. CASE LandSave(p)
    <3>1. PICK r \in FreshRaws, c \in Contents, cat \in Categories :
            /\ Begin(p, "land", "land",
                  [NoSession EXCEPT !.raw = r,
                      !.rawMine = [NoRaw EXCEPT !.status = "landed", !.source = "upload",
                                                !.checksum = c, !.category = cat]])
            /\ objects' = [objects EXCEPT ![r] = c]
      BY <2>1 DEF LandSave
    <3> DEFINE mine == [NoRaw EXCEPT !.status = "landed", !.source = "upload",
                                     !.checksum = c, !.category = cat]
    <3>2. mine.status = "landed" /\ mine.link = None
      BY DEF NoRaw
    <3>3. /\ pc' = [pc EXCEPT ![p] = "land"]
          /\ sess' = [sess EXCEPT ![p] = [NoSession EXCEPT !.raw = r, !.rawMine = mine]]
      BY <3>1
    <3> HIDE DEF mine
    <3> QED
      BY <1>2, <3>2, <3>3
  <2>2. CASE UploadSave(p)
    BY <1>3, <2>2 DEF UploadSave
  <2>3. ASSUME NEW r \in RawIds, ConfirmLoad(p, r) \/ EtlLoad(p, r)
        PROVE  Sound(p)' /\ \A q \in Procs \ {p} : KeepsClear(p, q)
    <3>1. CASE ConfirmLoad(p, r)
      <4> DEFINE mine == Confirmed(r)
      <4>1. mine \in RawRow /\ mine.link = raws[r].link /\ mine.status = "landed"
        <5>1. raws[r] \in RawRow /\ objects[r] \in Contents \cup {None}
          BY <1>t DEF TypeOK, Paths
        <5> QED
          BY <5>1 DEF Confirmed, RawRow, RawStatuses
      <4>2. /\ raws[r].status # "absent"
            /\ pc' = [pc EXCEPT ![p] = "confirm"]
            /\ sess' = [sess EXCEPT ![p] = [NoSession EXCEPT !.raw = r, !.rawLoaded = raws[r],
                                                              !.rawMine = mine]]
        BY <3>1 DEF ConfirmLoad, Confirmable
      <4> HIDE DEF mine
      <4> QED
        BY <1>4, <4>1, <4>2
    <3>2. CASE EtlLoad(p, r)
      <4> DEFINE mine == [raws[r] EXCEPT !.status = "extracting"]
      <4>1. mine \in RawRow /\ mine.link = raws[r].link /\ mine.status = "extracting"
        <5>1. raws[r] \in RawRow
          BY <1>t DEF TypeOK
        <5> QED
          BY <5>1 DEF RawRow, RawStatuses
      <4>2. /\ raws[r].status # "absent"
            /\ pc' = [pc EXCEPT ![p] = "claim"]
            /\ sess' = [sess EXCEPT ![p] = [NoSession EXCEPT !.raw = r, !.rawLoaded = raws[r],
                                                              !.rawMine = mine]]
        BY <3>2 DEF EtlLoad
      <4> HIDE DEF mine
      <4> QED
        BY <1>4, <4>1, <4>2
    <3> QED
      BY <2>3, <3>1, <3>2
  <2>4. ASSUME NEW f \in FileIds, DeleteObject(p, f) \/ IngestLoad(p, f) \/ OcrLoad(p, f)
        PROVE  Sound(p)' /\ \A q \in Procs \ {p} : KeepsClear(p, q)
    <3>1. CASE DeleteObject(p, f)
      <4> DEFINE mine == [files[f] EXCEPT !.archived = TRUE]
      <4>1. /\ mine \in FileRow /\ mine.status = files[f].status /\ mine.path = files[f].path
            /\ mine.category = files[f].category /\ mine.entity = files[f].entity
            /\ mine.extracted = files[f].extracted /\ mine.archived
        BY <1>t DEF TypeOK, FileRow
      <4>2. /\ files[f].status # "absent"
            /\ pc' = [pc EXCEPT ![p] = "delete"]
            /\ sess' = [sess EXCEPT ![p] = [NoSession EXCEPT !.file = f, !.fileLoaded = files[f],
                                                              !.fileMine = mine]]
        BY <3>1 DEF DeleteObject
      <4> HIDE DEF mine
      <4> QED
        BY <1>5, <4>1, <4>2
    <3>2. CASE IngestLoad(p, f) \/ OcrLoad(p, f)
      <4>1. files[f] \in FileRow /\ files[f].status # "absent"
        BY <1>t, <3>2 DEF TypeOK, IngestLoad, OcrLoad
      <4>2. PICK to \in {"process", "ocr"} :
              /\ pc' = [pc EXCEPT ![p] = to]
              /\ sess' = [sess EXCEPT ![p] = [NoSession EXCEPT !.file = f, !.fileLoaded = files[f],
                                                                !.fileMine = files[f]]]
        BY <3>2 DEF IngestLoad, OcrLoad
      <4> QED
        BY <1>5, <4>1, <4>2
    <3> QED
      BY <2>4, <3>1, <3>2
  <2> QED
    BY <2>1, <2>2, <2>3, <2>4 DEF LoopStart, ThreadStart
<1> QED
  BY <1>1, <1>a, <1>6, OneActs

(* Steps of a request in progress. *)

LEMMA ContinueActs ==
    ASSUME TypeOK, NEW p \in Procs, NEW from, NEW to, NEW s, Continue(p, from, to, s)
    PROVE  Acts(p) /\ pc[p] = from /\ pc'[p] = to /\ sess'[p] = s
BY DEF Continue, Acts, TypeOK

\* p writes no row but those its session works on.
OnlyOwn(p) ==
    /\ \A r \in RawIds : r # sess[p].raw => raws'[r] = raws[r]
    /\ \A f \in FileIds : f # sess[p].file => files'[f] = files[f]
    /\ \A i \in InvoiceIds : i # sess[p].invoice => invoiceOf'[i] = invoiceOf[i]

\* A step that takes no new row keeps clear of what the others have inserted.
LEMMA OwnRows ==
    ASSUME IInv, NEW p \in Procs, OnlyOwn(p),
           sess'[p].raw \in {sess[p].raw, None},
           sess'[p].file \in {sess[p].file, None},
           sess'[p].invoice \in {sess[p].invoice, None}
    PROVE  \A q \in Procs \ {p} : KeepsClear(p, q)
<1> TAKE q \in Procs \ {p}
<1>1. sess[q] \in Session /\ RowsInHand(q) /\ InsertsAreOwn(q)
  BY DEF IInv, TypeOK, Sound
<1>2. /\ pc[q] = "land" => sess[q].raw \in RawIds /\ sess[p].raw # sess[q].raw
      /\ (Ingesting(q) \/ pc[q] = "upload") /\ Inserted(sess[q]) =>
           sess[q].file \in FileIds /\ sess[p].file # sess[q].file
      /\ sess[q].invoice # None =>
           sess[q].invoice \in InvoiceIds /\ sess[p].invoice # sess[q].invoice
  BY <1>1 DEF RowsInHand, InsertsAreOwn, Session, Ingesting, Inserted
<1>3. (Ingesting(q) \/ pc[q] = "upload") => sess[q].file # None
  BY <1>1 DEF RowsInHand, Ingesting
<1>4. pc[q] = "land" => sess[q].raw # None
  BY <1>1 DEF RowsInHand
<1> QED
  BY <1>2, <1>3, <1>4 DEF KeepsClear, OnlyOwn

\* A step that writes no row and takes no new one.
LEMMA QuietStep ==
    ASSUME IInv, TypeOK', NEW p \in Procs, UNCHANGED <<raws, files, invoiceOf>>,
           NEW from, NEW to, NEW s, Continue(p, from, to, s),
           s.raw \in {sess[p].raw, None}, s.file \in {sess[p].file, None},
           s.invoice \in {sess[p].invoice, None},
           Sound(p)'
    PROVE  IInv'
<1>1. Acts(p) /\ sess'[p] = s
  BY ContinueActs DEF IInv
<1>2. OnlyOwn(p)
  BY DEF OnlyOwn
<1> QED
  BY <1>1, <1>2, OwnRows, RowsUnchanged, OneActs

LEMMA EtlClaimSound ==
    ASSUME IInv, TypeOK', NEW p \in Threads, EtlClaim(p)
    PROVE  IInv'
<1> p \in Procs
  BY DEF Procs
<1>1. Continue(p, "claim", "curate", sess[p]) /\ UNCHANGED <<raws, files, invoiceOf>>
  BY DEF EtlClaim, store
<1>2. pc[p] = "claim" /\ pc'[p] = "curate" /\ sess'[p] = sess[p] /\ Acts(p)
  BY <1>1, ContinueActs DEF IInv
<1>3. Sound(p)'
  BY <1>1, <1>2 DEF IInv, Sound, RowsInHand, InsertsAreOwn, RawCopyIsSound, FileCopyIsSound,
     Ingesting, Inserted, Acts
<1> QED
  BY <1>1, <1>3, QuietStep

LEMMA IngestFlushSound ==
    ASSUME IInv, TypeOK', NEW p \in Threads, IngestFlush(p)
    PROVE  IInv'
<1> p \in Procs
  BY DEF Procs
<1> DEFINE s == [sess[p] EXCEPT !.fileMine.status = "processing"]
<1>1. Continue(p, "process", "extract", s) /\ UNCHANGED <<raws, files, invoiceOf>>
  BY DEF IngestFlush, store
<1>2. pc[p] = "process" /\ pc'[p] = "extract" /\ sess'[p] = s /\ Acts(p)
  BY <1>1, ContinueActs DEF IInv
<1>3. sess[p] \in Session
  BY DEF IInv, TypeOK
<1>4. /\ s.raw = sess[p].raw /\ s.rawLoaded = sess[p].rawLoaded /\ s.rawMine = sess[p].rawMine
      /\ s.file = sess[p].file /\ s.fileLoaded = sess[p].fileLoaded
      /\ s.invoice = sess[p].invoice /\ s.ok = sess[p].ok
      /\ s.fileMine.status = "processing" /\ s.fileMine.path = sess[p].fileMine.path
      /\ s.fileMine.category = sess[p].fileMine.category
      /\ s.fileMine.entity = sess[p].fileMine.entity
      /\ s.fileMine.extracted = sess[p].fileMine.extracted
      /\ s.fileMine.archived = sess[p].fileMine.archived
  BY <1>3 DEF Session, FileRow
<1> HIDE DEF s
<1>5. Sound(p)'
  BY <1>1, <1>2, <1>4 DEF IInv, Sound, RowsInHand, InsertsAreOwn, RawCopyIsSound,
     FileCopyIsSound, Ingesting, Inserted, Acts
<1> QED
  BY <1>1, <1>4, <1>5, QuietStep

LEMMA ExtractRaisesSound ==
    ASSUME IInv, TypeOK', NEW p \in Threads, ExtractRaises(p)
    PROVE  IInv'
<1> p \in Procs
  BY DEF Procs
<1>1. PICK text : Continue(p, "extract", IF Inserted(sess[p]) THEN "reload" ELSE "fail",
                           [sess[p] EXCEPT !.fileMine.text = text])
  BY DEF ExtractRaises
<1> DEFINE s == [sess[p] EXCEPT !.fileMine.text = text]
           to == IF Inserted(sess[p]) THEN "reload" ELSE "fail"
<1>2. Continue(p, "extract", to, s) /\ UNCHANGED <<raws, files, invoiceOf>>
  BY <1>1 DEF ExtractRaises, store
<1>3. sess[p] \in Session
  BY DEF IInv, TypeOK
<1>4. /\ s.raw = sess[p].raw /\ s.rawLoaded = sess[p].rawLoaded /\ s.rawMine = sess[p].rawMine
      /\ s.file = sess[p].file /\ s.fileLoaded = sess[p].fileLoaded
      /\ s.invoice = sess[p].invoice /\ s.ok = sess[p].ok
      /\ s.fileMine.status = sess[p].fileMine.status
      /\ s.fileMine.extracted = sess[p].fileMine.extracted
  BY <1>3 DEF Session, FileRow
<1> HIDE DEF s
<1>5. pc[p] = "extract" /\ pc'[p] = to /\ sess'[p] = s
  BY <1>2, ContinueActs DEF IInv
<1>6. Sound(p)'
  BY <1>2, <1>4, <1>5 DEF IInv, Sound, RowsInHand, InsertsAreOwn, RawCopyIsSound,
     FileCopyIsSound, Ingesting, Inserted
<1> QED
  BY <1>2, <1>4, <1>6, QuietStep

\* A request that ends without writing: OCR that raises, or any request that dies.
LEMMA FinishSound ==
    ASSUME IInv, TypeOK', NEW p \in Procs, NEW from, Finish(p, from),
           UNCHANGED <<raws, files, invoiceOf>>
    PROVE  IInv'
<1>1. Continue(p, from, "idle", NoSession)
  BY DEF Finish
<1>2. pc'[p] = "idle" /\ sess'[p] = NoSession
  BY <1>1, ContinueActs DEF IInv
<1>3. Sound(p)'
  BY <1>2, IdleIsSound
<1>4. NoSession.raw = None /\ NoSession.file = None /\ NoSession.invoice = None
  BY DEF NoSession
<1> QED
  BY <1>1, <1>3, <1>4, QuietStep

LEMMA EtlReloadSound ==
    ASSUME IInv, TypeOK', NEW p \in Threads, EtlReload(p)
    PROVE  IInv'
<1> p \in Procs
  BY DEF Procs
<1> DEFINE row == raws[sess[p].raw]
           curated == IF Inserted(sess[p]) /\ ~sess[p].ok THEN sess[p].fileMine
                      ELSE files[sess[p].file]
           mine == [row EXCEPT !.status = Outcome(sess[p]),
                               !.text = IF @ = Blank THEN curated.text ELSE @,
                               !.category = curated.category]
           s == [sess[p] EXCEPT !.rawLoaded = row, !.rawMine = mine]
<1>1. Continue(p, "reload", "finish", s) /\ UNCHANGED <<raws, files, invoiceOf>>
  BY DEF EtlReload, store
<1>2. sess[p] \in Session /\ TypeOK /\ Sound(p)
  BY DEF IInv, TypeOK
<1>3. pc[p] = "reload" /\ pc'[p] = "finish" /\ sess'[p] = s
  BY <1>1, <1>2, ContinueActs
<1>4. sess[p].raw \in RawIds /\ sess[p].raw # None
  BY <1>2, <1>3 DEF Session, Sound, RowsInHand
<1>5. row \in RawRow /\ row.link \in FileIds \cup {None}
  BY <1>2, <1>4 DEF TypeOK, RawRow
<1> HIDE DEF row, curated
<1>6. mine.link = row.link /\ mine.status = Outcome(sess[p])
  BY <1>5 DEF RawRow
<1> HIDE DEF mine
<1>7. /\ s.raw = sess[p].raw /\ s.rawLoaded = row /\ s.rawMine = mine
      /\ s.file = sess[p].file /\ s.fileLoaded = sess[p].fileLoaded
      /\ s.fileMine = sess[p].fileMine
      /\ s.invoice = sess[p].invoice /\ s.ok = sess[p].ok
  BY <1>2 DEF Session
<1> HIDE DEF s
<1>8. row.link # None => files[row.link].status # "absent"
  BY <1>4 DEF row, IInv, LinksAreSound
<1>9. Sound(p)'
  BY <1>1, <1>2, <1>3, <1>4, <1>6, <1>7, <1>8 DEF row, Outcome, Sound, RowsInHand, InsertsAreOwn,
     RawCopyIsSound, FileCopyIsSound, Ingesting, Inserted
<1> QED
  BY <1>1, <1>7, <1>9, QuietStep

LEMMA ExtractSound ==
    ASSUME IInv, TypeOK', NEW p \in Threads, Extract(p)
    PROVE  IInv'
<1> p \in Procs
  BY DEF Procs
<1>1. PICK text \in TextOf(sess[p]), i \in EntityOf(sess[p]) :
         Continue(p, "extract", "commit",
                  [sess[p] EXCEPT !.fileMine.text = Cached(@, text),
                            !.fileMine.extracted = TRUE,
                            !.fileMine.status = "ingested",
                            !.fileMine.entity = i,
                            !.invoice = IF i = sess[p].fileMine.entity THEN None ELSE i])
  BY DEF Extract
<1> DEFINE s == [sess[p] EXCEPT !.fileMine.text = Cached(@, text),
                            !.fileMine.extracted = TRUE,
                            !.fileMine.status = "ingested",
                            !.fileMine.entity = i,
                            !.invoice = IF i = sess[p].fileMine.entity THEN None ELSE i]
<1>2. Continue(p, "extract", "commit", s) /\ UNCHANGED <<raws, files, invoiceOf>>
  BY <1>1 DEF Extract, store
<1>3. sess[p] \in Session /\ Sound(p)
  BY DEF IInv, TypeOK
<1>4. /\ s.raw = sess[p].raw /\ s.rawLoaded = sess[p].rawLoaded /\ s.rawMine = sess[p].rawMine
      /\ s.file = sess[p].file /\ s.fileLoaded = sess[p].fileLoaded /\ s.ok = sess[p].ok
      /\ s.invoice = IF i = sess[p].fileMine.entity THEN None ELSE i
      /\ s.fileMine.status = "ingested" /\ s.fileMine.path = sess[p].fileMine.path
      /\ s.fileMine.category = sess[p].fileMine.category
      /\ s.fileMine.entity = i /\ s.fileMine.extracted
      /\ s.fileMine.archived = sess[p].fileMine.archived
  BY <1>3 DEF Session, FileRow
<1> HIDE DEF s
<1>5. pc[p] = "extract" /\ pc'[p] = "commit" /\ sess'[p] = s /\ Acts(p)
  BY <1>2, ContinueActs DEF IInv
<1>6. /\ i # sess[p].fileMine.entity => i \in FreshInvoices /\ i # None
      /\ s.fileMine.category = "invoice" => i # None
  BY <1>4, IdsAssumption DEF EntityOf, FreshInvoices
<1>7. s.invoice # None => /\ s.invoice = i /\ i \in InvoiceIds /\ invoiceOf[i] = None
                          /\ \A q \in Procs : sess[q].invoice # i
  BY <1>4, <1>6 DEF FreshInvoices
<1>8. Sound(p)'
  <2>1. RowsInHand(p)' /\ InsertsAreOwn(p)'
    BY <1>2, <1>3, <1>4, <1>5, <1>7 DEF Sound, RowsInHand, InsertsAreOwn, Ingesting, Inserted, Acts
  <2>2. RawCopyIsSound(p)'
    BY <1>2, <1>3, <1>4, <1>5 DEF Sound, RawCopyIsSound, Ingesting, Inserted
  <2>3. FileCopyIsSound(p)'
    BY <1>2, <1>3, <1>4, <1>5, <1>6 DEF Sound, FileCopyIsSound, Ingesting, Inserted
  <2> QED
    BY <2>1, <2>2, <2>3 DEF Sound
<1>9. \A q \in Procs \ {p} : KeepsClear(p, q)
  BY <1>2, <1>3, <1>4, <1>5, <1>7 DEF IInv, Sound, KeepsClear, InsertsAreOwn
<1> QED
  BY <1>2, <1>5, <1>8, <1>9, RowsUnchanged, OneActs

LEMMA EtlCurateSound ==
    ASSUME IInv, TypeOK', NEW p \in Threads, EtlCurate(p)
    PROVE  IInv'
<1> p \in Procs
  BY DEF Procs
<1> DEFINE old == sess[p]
<1>1. UNCHANGED <<raws, files, invoiceOf>>
  BY DEF EtlCurate, store
<1>2. old \in Session /\ Sound(p) /\ TypeOK
  BY DEF IInv, TypeOK
<1>3. pc[p] = "curate" /\ Acts(p) /\ pc'[p] = "process"
  BY <1>2, ContinueActs DEF EtlCurate
<1>4. old.raw # None /\ old.raw \in RawIds /\ old.invoice = None /\ ~old.ok
      /\ old.fileLoaded = NoFile /\ old.rawMine.link = old.rawLoaded.link
      /\ old.rawMine.status # "absent" /\ old.rawMine.status # "extracted"
      /\ raws[old.raw].status # "absent"
  BY <1>2, <1>3 DEF Sound, RowsInHand, InsertsAreOwn, RawCopyIsSound, FileCopyIsSound, Session
<1>5. /\ old.rawLoaded.link \in FileIds \cup {None}
      /\ old.rawLoaded.link # None => /\ files[old.rawLoaded.link].status # "absent"
                                      /\ raws[old.raw].link # None
  BY <1>2 DEF Session, RawRow, Sound, RawCopyIsSound
<1>6. CASE old.rawLoaded.link # None
  <2> DEFINE f == old.rawLoaded.link
             s == [old EXCEPT !.file = f, !.fileLoaded = files[f], !.fileMine = files[f]]
  <2>1. Continue(p, "curate", "process", s)
    BY <1>6 DEF EtlCurate
  <2>2. /\ s.raw = old.raw /\ s.rawLoaded = old.rawLoaded /\ s.rawMine = old.rawMine
        /\ s.file = f /\ s.fileLoaded = files[f] /\ s.fileMine = files[f]
        /\ s.invoice = None /\ ~s.ok
    BY <1>2, <1>4 DEF Session
  <2> HIDE DEF s
  <2>3. sess'[p] = s
    BY <1>2, <2>1, ContinueActs
  <2>4. files[f].status # "absent" /\ f \in FileIds /\ f # None /\ files[f] # NoFile
    BY <1>5, <1>6 DEF NoFile
  <2>5. Sound(p)'
    BY <1>1, <1>3, <1>4, <1>5, <2>2, <2>3, <2>4 DEF Sound, RowsInHand, InsertsAreOwn,
       RawCopyIsSound, FileCopyIsSound, Ingesting, Inserted, Acts
  <2>6. \A q \in Procs \ {p} : KeepsClear(p, q)
    BY <1>1, <1>4, <2>2, <2>3, <2>4 DEF IInv, Sound, KeepsClear, InsertsAreOwn, NoFile
  <2> QED
    BY <1>1, <1>3, <2>5, <2>6, RowsUnchanged, OneActs
<1>7. CASE old.rawLoaded.link = None
  <2>1. PICK f \in FreshFiles :
          Continue(p, "curate", "process",
                   [old EXCEPT !.file = f, !.rawMine.link = f,
                               !.fileMine = [NoFile EXCEPT !.status = "pending",
                                                           !.path = old.raw,
                                                           !.text = old.rawLoaded.text,
                                                           !.category = old.rawLoaded.category]])
    BY <1>7 DEF EtlCurate
  <2> DEFINE mine == [NoFile EXCEPT !.status = "pending", !.path = old.raw,
                                    !.text = old.rawLoaded.text,
                                    !.category = old.rawLoaded.category]
             s == [old EXCEPT !.file = f, !.rawMine.link = f, !.fileMine = mine]
  <2>2. mine.status = "pending" /\ mine.path = old.raw /\ mine.entity = None
    BY DEF NoFile
  <2>3. Continue(p, "curate", "process", s)
    BY <2>1
  <2> HIDE DEF mine
  <2>4. /\ s.raw = old.raw /\ s.rawLoaded = old.rawLoaded
        /\ s.rawMine.link = f /\ s.rawMine.status = old.rawMine.status
        /\ s.file = f /\ s.fileLoaded = NoFile /\ s.fileMine = mine
        /\ s.invoice = None /\ ~s.ok
    BY <1>2, <1>4 DEF Session, RawRow
  <2> HIDE DEF s
  <2>5. sess'[p] = s
    BY <1>2, <2>3, ContinueActs
  <2>6. f \in FileIds /\ f # None /\ files[f] = NoFile /\ \A q \in Procs : sess[q].file # f
    BY IdsAssumption DEF FreshFiles
  <2>7. Sound(p)'
    BY <1>1, <1>3, <1>4, <1>7, <2>2, <2>4, <2>5, <2>6 DEF Sound, RowsInHand, InsertsAreOwn,
       RawCopyIsSound, FileCopyIsSound, Ingesting, Inserted, Acts, NoFile
  <2>8. \A q \in Procs \ {p} : KeepsClear(p, q)
    BY <1>1, <1>4, <2>4, <2>5, <2>6 DEF IInv, Sound, KeepsClear, InsertsAreOwn
  <2> QED
    BY <1>1, <1>3, <2>7, <2>8, RowsUnchanged, OneActs
<1> QED
  BY <1>6, <1>7

(* Steps that write rows. *)

\* The column of a merged row, whatever the column.
LEMMA MergeRawFacts ==
    ASSUME NEW row \in RawRow, NEW loaded \in RawRow, NEW mine \in RawRow
    PROVE  LET m == Merge(row, loaded, mine) IN
           /\ m.status = IF mine.status = loaded.status THEN row.status ELSE mine.status
           /\ m.link = IF mine.link = loaded.link THEN row.link ELSE mine.link
BY DEF Merge, RawRow

LEMMA MergeFileFacts ==
    ASSUME NEW row \in FileRow, NEW loaded \in FileRow, NEW mine \in FileRow
    PROVE  LET m == Merge(row, loaded, mine) IN
           /\ m.status = IF mine.status = loaded.status THEN row.status ELSE mine.status
           /\ m.path = IF mine.path = loaded.path THEN row.path ELSE mine.path
           /\ m.category = IF mine.category = loaded.category THEN row.category ELSE mine.category
           /\ m.entity = IF mine.entity = loaded.entity THEN row.entity ELSE mine.entity
           /\ m.extracted = IF mine.extracted = loaded.extracted THEN row.extracted ELSE mine.extracted
           /\ m.archived = IF mine.archived = loaded.archived THEN row.archived ELSE mine.archived
BY DEF Merge, FileRow

\* An UPDATE of a manifest that keeps its link.
LEMMA RawUpdate ==
    ASSUME IInv, NEW r \in RawIds, NEW row,
           raws[r].status # "absent", row.status # "absent", row.link = raws[r].link,
           row.status = "extracted" => row.link # None,
           raws' = [raws EXCEPT ![r] = row], UNCHANGED <<files, invoiceOf>>
    PROVE  Grows /\ LinkedIsPromoted' /\ LinksAreSound'
<1>1. \A q \in RawIds : raws'[q] = IF q = r THEN row ELSE raws[q]
  BY DEF IInv, TypeOK
<1> QED
  BY <1>1 DEF IInv, Grows, LinkedIsPromoted, LinksAreSound

\* An UPDATE of a file that keeps its object, its category and its entity.
LEMMA FileUpdate ==
    ASSUME IInv, NEW f \in FileIds, NEW row,
           files[f].status # "absent", row.status # "absent", row.path = files[f].path,
           row.category = files[f].category, row.entity = files[f].entity,
           files[f].extracted => row.extracted, files[f].archived => row.archived,
           files' = [files EXCEPT ![f] = row], UNCHANGED <<raws, invoiceOf>>
    PROVE  Grows /\ LinkedIsPromoted' /\ LinksAreSound'
<1>1. \A g \in FileIds : files'[g] = IF g = f THEN row ELSE files[g]
  BY DEF IInv, TypeOK
<1>2. Grows
  BY <1>1 DEF Grows
<1>3. LinkedIsPromoted'
  <2> SUFFICES ASSUME NEW r \in RawIds
               PROVE  /\ raws[r].status = "extracted" => raws[r].link # None
                      /\ raws[r].link # None =>
                           LET g == files'[raws[r].link] IN
                           /\ g.status # "absent" /\ g.path = r /\ g.extracted
                           /\ g.category = "invoice" => g.entity # None
    BY DEF LinkedIsPromoted
  <2>1. raws[r].link \in FileIds \cup {None}
    BY DEF IInv, TypeOK, RawRow
  <2> QED
    BY <1>1, <2>1 DEF IInv, LinkedIsPromoted
<1>4. LinksAreSound'
  <2>1. \A r \in RawIds : raws[r].link \in FileIds \cup {None}
    BY DEF IInv, TypeOK, RawRow
  <2>2. \A i \in InvoiceIds : invoiceOf[i] \in FileIds \cup {None}
    BY DEF IInv, TypeOK
  <2> QED
    BY <1>1, <2>1, <2>2 DEF IInv, LinksAreSound
<1> QED
  BY <1>2, <1>3, <1>4

\* A request that ends with its writes: what is left to show.
LEMMA LastStep ==
    ASSUME IInv, TypeOK', NEW p \in Procs, NEW from, Finish(p, from), OnlyOwn(p),
           Grows, LinkedIsPromoted', LinksAreSound'
    PROVE  IInv'
<1>1. Acts(p) /\ pc'[p] = "idle" /\ sess'[p] = NoSession
  BY ContinueActs DEF IInv, Finish
<1>2. Sound(p)'
  BY <1>1, IdleIsSound
<1>3. \A q \in Procs \ {p} : KeepsClear(p, q)
  BY <1>1, OwnRows DEF NoSession
<1> QED
  BY <1>1, <1>2, <1>3, OneActs

LEMMA ManifestSteps ==
    ASSUME IInv, TypeOK', NEW p \in Procs, ConfirmCommit(p) \/ EtlFinish(p)
    PROVE  IInv' /\ Grows
<1> DEFINE s == sess[p]
           row == Merge(raws[s.raw], s.rawLoaded, s.rawMine)
<1>1. /\ pc[p] \in {"confirm", "finish"} /\ Finish(p, pc[p])
      /\ raws' = [raws EXCEPT ![s.raw] = row] /\ UNCHANGED <<files, invoiceOf>>
  BY DEF ConfirmCommit, EtlFinish, Finish, Continue
<1>2. s \in Session /\ Sound(p) /\ TypeOK
  BY DEF IInv, TypeOK
<1>3. /\ s.raw \in RawIds /\ s.raw # None /\ raws[s.raw].status # "absent"
      /\ s.rawMine.status # "absent" /\ s.rawMine.link = s.rawLoaded.link
      /\ s.rawMine.status = "extracted" => raws[s.raw].link # None
  BY <1>1, <1>2 DEF Session, Sound, RowsInHand, RawCopyIsSound
<1>4. raws[s.raw] \in RawRow /\ s.rawLoaded \in RawRow /\ s.rawMine \in RawRow
  BY <1>2, <1>3 DEF TypeOK, Session
<1>5. raws[s.raw].status = "extracted" => raws[s.raw].link # None
  BY <1>3 DEF IInv, LinkedIsPromoted
<1>6. /\ row.status # "absent" /\ row.link = raws[s.raw].link
      /\ row.status = "extracted" => row.link # None
  BY <1>3, <1>4, <1>5, MergeRawFacts
<1> HIDE DEF row
<1>7. Grows /\ LinkedIsPromoted' /\ LinksAreSound'
  BY <1>1, <1>3, <1>6, RawUpdate
<1>8. OnlyOwn(p)
  BY <1>1, <1>2 DEF OnlyOwn, TypeOK
<1> QED
  BY <1>1, <1>7, <1>8, LastStep

LEMMA FileSteps ==
    ASSUME IInv, TypeOK', NEW p \in Procs, OcrCommit(p) \/ DeleteCommit(p)
    PROVE  IInv' /\ Grows
<1> DEFINE s == sess[p]
<1>2. s \in Session /\ Sound(p) /\ TypeOK
  BY DEF IInv, TypeOK
<1>3. s.fileLoaded \in FileRow /\ s.fileMine \in FileRow
  BY <1>2 DEF Session
<1>4. PICK mine \in FileRow :
        /\ mine.status = s.fileMine.status /\ mine.path = s.fileMine.path
        /\ mine.category = s.fileMine.category /\ mine.entity = s.fileMine.entity
        /\ mine.extracted = s.fileMine.extracted /\ mine.archived = s.fileMine.archived
        /\ files' = [files EXCEPT ![s.file] = Merge(files[s.file], s.fileLoaded, mine)]
  <2>1. CASE DeleteCommit(p)
    BY <1>3, <2>1 DEF DeleteCommit
  <2>2. CASE OcrCommit(p)
    <3>1. PICK text \in OcrResults :
            files' = [files EXCEPT ![s.file] =
                        Merge(files[s.file], s.fileLoaded, [s.fileMine EXCEPT !.text = text])]
      BY <2>2 DEF OcrCommit
    <3> DEFINE mine == [s.fileMine EXCEPT !.text = text]
    <3>2. /\ mine \in FileRow
          /\ mine.status = s.fileMine.status /\ mine.path = s.fileMine.path
          /\ mine.category = s.fileMine.category /\ mine.entity = s.fileMine.entity
          /\ mine.extracted = s.fileMine.extracted /\ mine.archived = s.fileMine.archived
      BY <1>3, IdsAssumption DEF FileRow
    <3>3. files' = [files EXCEPT ![s.file] = Merge(files[s.file], s.fileLoaded, mine)]
      BY <3>1
    <3> HIDE DEF mine
    <3> QED
      BY <3>2, <3>3
  <2> QED
    BY <2>1, <2>2
<1> DEFINE row == Merge(files[s.file], s.fileLoaded, mine)
<1>5. /\ pc[p] \in {"ocr", "delete"} /\ Finish(p, pc[p]) /\ UNCHANGED <<raws, invoiceOf>>
  BY DEF OcrCommit, DeleteCommit, Finish, Continue
<1>6. /\ s.file \in FileIds /\ s.file # None /\ files[s.file].status # "absent"
      /\ s.fileMine.status # "absent" /\ s.fileMine.path = s.fileLoaded.path
      /\ s.fileMine.category = s.fileLoaded.category
      /\ s.fileMine.entity = s.fileLoaded.entity
      /\ s.fileLoaded.extracted => s.fileMine.extracted
      /\ s.fileLoaded.archived => s.fileMine.archived
  BY <1>2, <1>5 DEF Session, Sound, RowsInHand, InsertsAreOwn, FileCopyIsSound
<1>7. files[s.file] \in FileRow
  BY <1>2, <1>6 DEF TypeOK
<1>b. /\ files[s.file].extracted \in BOOLEAN /\ files[s.file].archived \in BOOLEAN
      /\ s.fileLoaded.extracted \in BOOLEAN /\ s.fileLoaded.archived \in BOOLEAN
      /\ mine.extracted \in BOOLEAN /\ mine.archived \in BOOLEAN
  BY <1>3, <1>4, <1>7 DEF FileRow
<1>8. /\ row.status # "absent" /\ row.path = files[s.file].path
      /\ row.category = files[s.file].category /\ row.entity = files[s.file].entity
      /\ files[s.file].extracted => row.extracted
      /\ files[s.file].archived => row.archived
  <2>1. /\ row.status = IF mine.status = s.fileLoaded.status THEN files[s.file].status ELSE mine.status
        /\ row.path = IF mine.path = s.fileLoaded.path THEN files[s.file].path ELSE mine.path
        /\ row.category = IF mine.category = s.fileLoaded.category
                            THEN files[s.file].category ELSE mine.category
        /\ row.entity = IF mine.entity = s.fileLoaded.entity THEN files[s.file].entity ELSE mine.entity
        /\ row.extracted = IF mine.extracted = s.fileLoaded.extracted
                             THEN files[s.file].extracted ELSE mine.extracted
        /\ row.archived = IF mine.archived = s.fileLoaded.archived
                            THEN files[s.file].archived ELSE mine.archived
    BY <1>3, <1>4, <1>7, MergeFileFacts
  <2> HIDE DEF row
  <2>3. files[s.file].extracted => row.extracted
    BY <1>4, <1>6, <1>b, <2>1
  <2>4. files[s.file].archived => row.archived
    BY <1>4, <1>6, <1>b, <2>1
  <2> QED
    BY <1>4, <1>6, <2>1, <2>3, <2>4
<1>9. files' = [files EXCEPT ![s.file] = row]
  BY <1>4
<1> HIDE DEF row
<1>10. Grows /\ LinkedIsPromoted' /\ LinksAreSound'
  BY <1>5, <1>6, <1>8, <1>9, FileUpdate
<1>11. OnlyOwn(p)
  BY <1>2, <1>5, <1>9 DEF OnlyOwn, TypeOK
<1> QED
  BY <1>5, <1>10, <1>11, LastStep

\* A new manifest has no link yet, and nothing refers to it.
LEMMA RawInsert ==
    ASSUME IInv, NEW r \in RawIds, NEW row, raws[r] = NoRaw,
           row.link = None, row.status # "extracted",
           raws' = [raws EXCEPT ![r] = row], UNCHANGED <<files, invoiceOf>>
    PROVE  Grows /\ LinkedIsPromoted' /\ LinksAreSound'
<1>1. \A q \in RawIds : raws'[q] = IF q = r THEN row ELSE raws[q]
  BY DEF IInv, TypeOK
<1>2. NoRaw.status = "absent" /\ NoRaw.link = None
  BY DEF NoRaw
<1> QED
  BY <1>1, <1>2 DEF IInv, Grows, LinkedIsPromoted, LinksAreSound

LEMMA LandCommitSound ==
    ASSUME IInv, TypeOK', NEW p \in Procs, LandCommit(p)
    PROVE  IInv' /\ Grows
<1> DEFINE s == sess[p]
<1>1. /\ pc[p] = "land" /\ Finish(p, "land")
      /\ raws' = [raws EXCEPT ![s.raw] = s.rawMine] /\ UNCHANGED <<files, invoiceOf>>
  BY DEF LandCommit, Finish, Continue
<1>2. s \in Session /\ Sound(p) /\ TypeOK
  BY DEF IInv, TypeOK
<1>3. s.raw \in RawIds /\ raws[s.raw] = NoRaw /\ s.rawMine.link = None /\ s.rawMine.status # "extracted"
  BY <1>1, <1>2 DEF Session, Sound, RowsInHand, InsertsAreOwn, RawCopyIsSound
<1>4. Grows /\ LinkedIsPromoted' /\ LinksAreSound'
  BY <1>1, <1>3, RawInsert
<1>5. OnlyOwn(p)
  BY <1>1, <1>2 DEF OnlyOwn, TypeOK
<1> QED
  BY <1>1, <1>4, <1>5, LastStep

LEMMA PresignSound ==
    ASSUME IInv, TypeOK', NEW p \in Procs, Presign(p)
    PROVE  IInv' /\ Grows
<1>1. PICK r \in FreshRaws, cat \in Categories :
         raws' = [raws EXCEPT ![r] = [NoRaw EXCEPT !.status = "pending_upload",
                                                   !.source = "presign", !.category = cat]]
  BY DEF Presign
<1> DEFINE row == [NoRaw EXCEPT !.status = "pending_upload",
                                !.source = "presign", !.category = cat]
<1>2. row.status = "pending_upload" /\ row.link = None
  BY DEF NoRaw
<1>3. raws' = [raws EXCEPT ![r] = row] /\ UNCHANGED <<files, invoiceOf, pc, sess>>
  BY <1>1 DEF Presign
<1> HIDE DEF row
<1>4. r \in RawIds /\ raws[r] = NoRaw /\ \A q \in Procs : sess[q].raw # r
  BY DEF FreshRaws
<1>5. Grows /\ LinkedIsPromoted' /\ LinksAreSound'
  BY <1>2, <1>3, <1>4, RawInsert
<1>6. ASSUME NEW q \in Procs
      PROVE  Sound(q)'
  <2>1. sess[q] \in Session /\ Sound(q) /\ pc'[q] = pc[q] /\ sess'[q] = sess[q]
    BY <1>3 DEF IInv, TypeOK
  <2>2. sess[q].rawLoaded.link \in FileIds \cup {None}
    BY <2>1 DEF Session, RawRow
  <2>3. raws'[sess[q].raw] = raws[sess[q].raw]
    BY <1>3, <1>4 DEF IInv, TypeOK
  <2> QED
    BY <1>3, <2>1, <2>2, <2>3 DEF Sound, RowsInHand, InsertsAreOwn, RawCopyIsSound,
       FileCopyIsSound, Ingesting, Inserted
<1> QED
  BY <1>5, <1>6 DEF IInv

LEMMA UploadCommitSound ==
    ASSUME IInv, TypeOK', NEW p \in Procs, UploadCommit(p)
    PROVE  IInv' /\ Grows
<1> DEFINE s == sess[p]
<1>1. /\ pc[p] = "upload" /\ Finish(p, "upload")
      /\ files' = [files EXCEPT ![s.file] = s.fileMine] /\ UNCHANGED <<raws, invoiceOf>>
  BY DEF UploadCommit, Finish, Continue
<1>2. s \in Session /\ Sound(p) /\ TypeOK
  BY DEF IInv, TypeOK
<1>3. s.file \in FileIds /\ files[s.file] = NoFile /\ s.fileMine.entity = None
  BY <1>1, <1>2 DEF Session, Sound, RowsInHand, InsertsAreOwn, FileCopyIsSound, Inserted, NoFile
<1>4. \A g \in FileIds : files'[g] = IF g = s.file THEN s.fileMine ELSE files[g]
  BY <1>1, <1>2 DEF TypeOK
<1>5. /\ \A r \in RawIds : raws[r].link \in FileIds \cup {None}
      /\ \A i \in InvoiceIds : invoiceOf[i] \in FileIds \cup {None}
      /\ NoFile.status = "absent" /\ NoFile.entity = None /\ ~NoFile.extracted /\ ~NoFile.archived
  BY <1>2 DEF TypeOK, RawRow, NoFile
<1>6. Grows
  BY <1>1, <1>3, <1>4, <1>5 DEF Grows
<1>7. \A r \in RawIds : raws[r].link # None => files'[raws[r].link] = files[raws[r].link]
  BY <1>3, <1>4, <1>5 DEF IInv, LinkedIsPromoted
<1>8. LinkedIsPromoted'
  BY <1>1, <1>7 DEF IInv, LinkedIsPromoted
<1>9. LinksAreSound'
  BY <1>1, <1>3, <1>4, <1>5, <1>7 DEF IInv, LinksAreSound
<1>10. OnlyOwn(p)
  BY <1>1, <1>4 DEF OnlyOwn
<1> QED
  BY <1>1, <1>6, <1>8, <1>9, <1>10, LastStep

LEMMA IngestFailSound ==
    ASSUME IInv, TypeOK', NEW p \in Threads, IngestFail(p)
    PROVE  IInv' /\ Grows
<1> p \in Procs
  BY DEF Procs
<1> DEFINE s == sess[p]
           row == [files[s.file] EXCEPT !.status = "failed"]
<1>1. /\ pc[p] = "fail" /\ AfterIngest(p, "fail", s)
      /\ files' = [files EXCEPT ![s.file] = row] /\ UNCHANGED <<raws, invoiceOf>>
  BY DEF IngestFail, AfterIngest, Finish, Continue
<1>2. s \in Session /\ Sound(p) /\ TypeOK
  BY DEF IInv, TypeOK
<1>3. s.file \in FileIds /\ s.file # None /\ files[s.file].status # "absent"
  BY <1>1, <1>2 DEF Session, Sound, RowsInHand, FileCopyIsSound
<1>4. files[s.file] \in FileRow
  BY <1>2, <1>3 DEF TypeOK
<1>5. /\ row.status = "failed" /\ row.path = files[s.file].path
      /\ row.category = files[s.file].category /\ row.entity = files[s.file].entity
      /\ row.extracted = files[s.file].extracted /\ row.archived = files[s.file].archived
  BY <1>4 DEF FileRow
<1> HIDE DEF row
<1>6. Grows /\ LinkedIsPromoted' /\ LinksAreSound'
  BY <1>1, <1>3, <1>5, FileUpdate
<1>7. OnlyOwn(p)
  BY <1>1, <1>2 DEF OnlyOwn, TypeOK
<1>8. CASE s.raw = None
  BY <1>1, <1>6, <1>7, <1>8, LastStep DEF AfterIngest
<1>9. CASE s.raw # None
  <2>1. Continue(p, "fail", "reload", s)
    BY <1>1, <1>9 DEF AfterIngest
  <2>2. Acts(p) /\ pc'[p] = "reload" /\ sess'[p] = s
    BY <1>2, <2>1, ContinueActs
  <2>3. s.rawLoaded.link \in FileIds \cup {None}
    BY <1>2 DEF Session, RawRow
  <2>4. Sound(p)'
    BY <1>1, <1>2, <1>3, <1>6, <1>9, <2>2, <2>3 DEF Sound, RowsInHand, InsertsAreOwn,
       RawCopyIsSound, FileCopyIsSound, Ingesting, Inserted, Grows
  <2> QED
    BY <1>6, <1>7, <2>2, <2>4, OwnRows, OneActs
<1> QED
  BY <1>8, <1>9

\* The commit of a successful ingestion: the one step that links a manifest to its
\* file and a file to its e-invoice.
LEMMA IngestCommitSound ==
    ASSUME IInv, TypeOK', NEW p \in Threads, IngestCommit(p)
    PROVE  IInv' /\ Grows
<1> p \in Procs
  BY DEF Procs
<1> DEFINE s == sess[p]
           old == files[s.file]
           fileRow == IF Inserted(s) THEN s.fileMine
                      ELSE [Merge(old, s.fileLoaded, s.fileMine) EXCEPT !.status = "ingested"]
           rawRow == Merge(raws[s.raw], s.rawLoaded, s.rawMine)
           after == [s EXCEPT !.ok = TRUE, !.invoice = None]
<1>1. /\ pc[p] = "commit" /\ AfterIngest(p, "commit", after)
      /\ files' = [files EXCEPT ![s.file] = fileRow]
      /\ raws' = IF s.raw = None THEN raws ELSE [raws EXCEPT ![s.raw] = rawRow]
      /\ invoiceOf' = IF s.invoice = None THEN invoiceOf
                      ELSE [invoiceOf EXCEPT ![s.invoice] = s.file]
  BY DEF IngestCommit, AfterIngest, Finish, Continue
<1>2. s \in Session /\ Sound(p) /\ TypeOK
  BY DEF IInv, TypeOK
<1>3. /\ s.file \in FileIds /\ s.file # None /\ s.raw \in RawIds \cup {None}
      /\ s.invoice \in InvoiceIds \cup {None}
      /\ old \in FileRow /\ s.fileLoaded \in FileRow /\ s.fileMine \in FileRow
      /\ s.rawLoaded \in RawRow /\ s.rawMine \in RawRow
      /\ s.raw # None => raws[s.raw] \in RawRow
  BY <1>1, <1>2 DEF Session, Sound, RowsInHand, TypeOK
\* What the session knows of its file.
<1>4. /\ Inserted(s) => /\ old = NoFile /\ s.raw # None /\ s.fileMine.path = s.raw
                        /\ s.fileLoaded.entity = None
      /\ ~Inserted(s) => /\ old.status # "absent" /\ s.fileMine.path = s.fileLoaded.path
                         /\ s.fileMine.category = s.fileLoaded.category
                         /\ s.fileLoaded.category = old.category
                         /\ s.fileLoaded.entity # None => old.entity # None
                         /\ s.fileLoaded.archived => s.fileMine.archived
      /\ s.fileMine.status # "absent" /\ s.fileMine.extracted
      /\ s.fileMine.category = "invoice" => s.fileMine.entity # None
      /\ s.invoice = None => s.fileMine.entity = s.fileLoaded.entity
      /\ s.invoice # None => s.fileMine.entity = s.invoice /\ invoiceOf[s.invoice] = None
  BY <1>1, <1>2, <1>3 DEF Sound, InsertsAreOwn, RawCopyIsSound, FileCopyIsSound, Ingesting,
     Inserted, NoFile
<1>5. /\ fileRow.status # "absent"
      /\ Inserted(s) => /\ fileRow.path = s.raw /\ fileRow.extracted
                        /\ fileRow.category = "invoice" => fileRow.entity # None
      /\ ~Inserted(s) => /\ fileRow.path = old.path /\ fileRow.category = old.category
                         /\ old.extracted => fileRow.extracted
                         /\ old.archived => fileRow.archived
      /\ fileRow.entity \in {old.entity, s.invoice}
      /\ s.invoice = None => fileRow.entity = old.entity
      /\ s.invoice # None => fileRow.entity # None
  <2>1. CASE Inserted(s)
    <3>1. fileRow = s.fileMine /\ NoFile.entity = None
      BY <2>1 DEF NoFile
    <3> HIDE DEF fileRow
    <3> QED
      BY <1>4, <2>1, <3>1
  <2>2. CASE ~Inserted(s)
    <3> DEFINE m == Merge(old, s.fileLoaded, s.fileMine)
    <3>1. /\ m.path = IF s.fileMine.path = s.fileLoaded.path THEN old.path ELSE s.fileMine.path
          /\ m.category = IF s.fileMine.category = s.fileLoaded.category
                            THEN old.category ELSE s.fileMine.category
          /\ m.entity = IF s.fileMine.entity = s.fileLoaded.entity
                          THEN old.entity ELSE s.fileMine.entity
          /\ m.extracted = IF s.fileMine.extracted = s.fileLoaded.extracted
                             THEN old.extracted ELSE s.fileMine.extracted
          /\ m.archived = IF s.fileMine.archived = s.fileLoaded.archived
                            THEN old.archived ELSE s.fileMine.archived
      BY <1>3, MergeFileFacts
    <3>2. m \in FileRow
      BY <1>3, MergeFile
    <3> HIDE DEF m
    <3>3. fileRow = [m EXCEPT !.status = "ingested"]
      BY <2>2 DEF m
    <3>4. /\ fileRow.status = "ingested" /\ fileRow.path = m.path /\ fileRow.category = m.category
          /\ fileRow.entity = m.entity /\ fileRow.extracted = m.extracted
          /\ fileRow.archived = m.archived
      BY <3>2, <3>3 DEF FileRow
    <3> HIDE DEF fileRow
    <3>5. old.archived => fileRow.archived
      <4>1. /\ old.archived \in BOOLEAN /\ s.fileMine.archived \in BOOLEAN
            /\ s.fileLoaded.archived \in BOOLEAN
        BY <1>3 DEF FileRow
      <4> QED
        BY <1>4, <2>2, <3>1, <3>4, <4>1
    <3>6. old.extracted => fileRow.extracted
      BY <1>4, <3>1, <3>4
    <3> QED
      BY <1>4, <2>2, <3>1, <3>4, <3>5, <3>6
  <2> QED
    BY <2>1, <2>2
<1> HIDE DEF fileRow
\* And of its manifest.
<1>6. s.raw # None => /\ s.rawMine.status \notin {"absent", "extracted"}
                      /\ raws[s.raw].status # "absent"
                      /\ s.rawMine.link = s.file
                      /\ Inserted(s) => s.rawLoaded.link = None
                      /\ ~Inserted(s) => s.rawLoaded.link = s.file /\ raws[s.raw].link # None
  BY <1>1, <1>2, <1>3 DEF Sound, RawCopyIsSound, Ingesting, Inserted
<1>7. s.raw # None => /\ rawRow.status # "absent"
                      /\ rawRow.status = "extracted" => raws[s.raw].status = "extracted"
                      /\ Inserted(s) => rawRow.link = s.file
                      /\ ~Inserted(s) => rawRow.link = raws[s.raw].link
                      /\ rawRow.link # None
  BY <1>3, <1>6, MergeRawFacts
<1> HIDE DEF rawRow
<1>8. /\ \A g \in FileIds : files'[g] = IF g = s.file THEN fileRow ELSE files[g]
      /\ s.raw # None => s.raw \in RawIds /\ raws'[s.raw] = rawRow
      /\ \A r \in RawIds : r # s.raw => raws'[r] = raws[r]
      /\ \A i \in InvoiceIds :
           invoiceOf'[i] = IF s.invoice # None /\ i = s.invoice THEN s.file ELSE invoiceOf[i]
  BY <1>1, <1>2, <1>3 DEF TypeOK
<1>9. /\ None \notin RawIds
      /\ \A r \in RawIds : raws[r].link \in FileIds \cup {None}
      /\ \A g \in FileIds : files[g].entity \in InvoiceIds \cup {None}
      /\ \A i \in InvoiceIds : invoiceOf[i] \in FileIds \cup {None}
      /\ NoFile.status = "absent" /\ NoFile.entity = None /\ ~NoFile.extracted /\ ~NoFile.archived
  BY <1>2, IdsAssumption DEF TypeOK, RawRow, FileRow, NoFile
<1>10. Grows
  <2>1. \A r \in RawIds : /\ raws[r].status # "absent" => raws'[r].status # "absent"
                          /\ raws[r].link # None => raws'[r].link # None
    BY <1>6, <1>7, <1>8, <1>9
  <2>2. \A g \in FileIds :
         /\ files[g].status # "absent" => /\ files'[g].status # "absent"
                                          /\ files'[g].path = files[g].path
                                          /\ files'[g].category = files[g].category
         /\ files[g].extracted => files'[g].extracted
         /\ files[g].entity # None => files'[g].entity # None
         /\ files[g].archived => files'[g].archived
    BY <1>4, <1>5, <1>8, <1>9
  <2>3. \A i \in InvoiceIds : invoiceOf[i] # None => invoiceOf'[i] = invoiceOf[i]
    BY <1>4, <1>8
  <2> QED
    BY <2>1, <2>2, <2>3 DEF Grows
<1>11. \A r \in RawIds :
         LET f == files'[raws'[r].link] IN
         raws'[r].link # None => /\ f.status # "absent" /\ f.path = r /\ f.extracted
                                 /\ f.category = "invoice" => f.entity # None
  <2> TAKE r \in RawIds
  <2>1. CASE s.raw # None /\ r = s.raw /\ Inserted(s)
    BY <1>3, <1>5, <1>7, <1>8, <2>1
  <2>2. CASE ~(s.raw # None /\ r = s.raw /\ Inserted(s))
    <3>1. raws'[r].link = raws[r].link
      BY <1>7, <1>8, <1>9, <2>2
    <3> DEFINE g == raws[r].link
    <3>2. g # None => /\ g \in FileIds /\ files[g].status # "absent" /\ files[g].path = r
                      /\ files[g].extracted
                      /\ files[g].category = "invoice" => files[g].entity # None
      BY <1>9 DEF IInv, LinkedIsPromoted
    <3>3. g # None => /\ files'[g].status # "absent" /\ files'[g].path = files[g].path
                      /\ files'[g].category = files[g].category
                      /\ files'[g].extracted
                      /\ files[g].entity # None => files'[g].entity # None
      BY <1>10, <3>2 DEF Grows
    <3> QED
      BY <3>1, <3>2, <3>3
  <2> QED
    BY <2>1, <2>2
<1>12. LinkedIsPromoted'
  <2>1. \A r \in RawIds : raws'[r].status = "extracted" => raws'[r].link # None
    BY <1>7, <1>8, <1>9 DEF IInv, LinkedIsPromoted
  <2> QED
    BY <1>11, <2>1 DEF LinkedIsPromoted
<1>13. LinksAreSound'
  <2>1. ASSUME NEW g \in FileIds, files'[g].entity # None
        PROVE  invoiceOf'[files'[g].entity] = g
    <3>1. CASE files'[g].entity = files[g].entity
      <4>1. invoiceOf[files[g].entity] = g /\ files[g].entity \in InvoiceIds /\ g # None
        BY <1>9, <2>1, <3>1, IdsAssumption DEF IInv, LinksAreSound
      <4> QED
        BY <1>10, <3>1, <4>1 DEF Grows
    <3>2. CASE files'[g].entity # files[g].entity
      <4>1. g = s.file /\ fileRow.entity = s.invoice /\ s.invoice # None
        BY <1>5, <1>8, <2>1, <3>2
      <4> QED
        BY <1>3, <1>8, <4>1
    <3> QED
      BY <3>1, <3>2
  <2>2. ASSUME NEW i \in InvoiceIds, invoiceOf'[i] # None
        PROVE  files'[invoiceOf'[i]].entity # None
    <3>1. CASE s.invoice # None /\ i = s.invoice
      BY <1>3, <1>5, <1>8, <3>1
    <3>2. CASE ~(s.invoice # None /\ i = s.invoice)
      <4>1. invoiceOf'[i] = invoiceOf[i] /\ invoiceOf[i] \in FileIds
        BY <1>8, <1>9, <2>2, <3>2
      <4>2. files[invoiceOf[i]].entity # None
        BY <2>2, <4>1 DEF IInv, LinksAreSound
      <4> QED
        BY <1>10, <4>1, <4>2 DEF Grows
    <3> QED
      BY <3>1, <3>2
  <2> QED
    BY <1>11, <2>1, <2>2 DEF LinksAreSound
<1>14. OnlyOwn(p)
  BY <1>8 DEF OnlyOwn
<1>15. CASE s.raw = None
  BY <1>1, <1>10, <1>12, <1>13, <1>14, <1>15, LastStep DEF AfterIngest
<1>16. CASE s.raw # None
  <2>1. Continue(p, "commit", "reload", after)
    <3>1. after.raw = s.raw
      BY <1>2 DEF Session
    <3> QED
      BY <1>1, <1>16, <3>1 DEF AfterIngest
  <2>2. Acts(p) /\ pc'[p] = "reload" /\ sess'[p] = after
    BY <1>2, <2>1, ContinueActs
  <2>3. /\ after.raw = s.raw /\ after.rawLoaded = s.rawLoaded /\ after.rawMine = s.rawMine
        /\ after.file = s.file /\ after.fileLoaded = s.fileLoaded
        /\ after.fileMine = s.fileMine /\ after.invoice = None /\ after.ok
    BY <1>2 DEF Session
  <2> HIDE DEF after
  <2>4. s.rawLoaded.link \in FileIds \cup {None}
    BY <1>3 DEF RawRow
  <2>5. raws'[s.raw].link # None /\ raws'[s.raw].status # "absent"
    BY <1>7, <1>8, <1>16
  <2>6. RowsInHand(p)' /\ InsertsAreOwn(p)'
    BY <1>3, <1>16, <2>2, <2>3 DEF RowsInHand, InsertsAreOwn, Ingesting, Inserted
  <2>7. RawCopyIsSound(p)'
    BY <1>1, <1>2, <1>3, <1>6, <1>10, <1>16, <2>2, <2>3, <2>4, <2>5 DEF Sound, RawCopyIsSound,
       Ingesting, Inserted, Grows
  <2>8. FileCopyIsSound(p)'
    BY <1>2, <1>4, <2>2, <2>3 DEF Sound, FileCopyIsSound, Ingesting, Inserted
  <2>9. Sound(p)'
    BY <2>6, <2>7, <2>8 DEF Sound
  <2> QED
    BY <1>10, <1>12, <1>13, <1>14, <2>2, <2>3, <2>9, OwnRows, OneActs
<1> QED
  BY <1>15, <1>16

-----------------------------------------------------------------------------
(* The invariant and the theorems. *)

LEMMA InitIInv == Init => IInv
<1> SUFFICES ASSUME Init PROVE IInv
  OBVIOUS
<1>1. TypeOK
  BY InitTypeOK
<1>2. ASSUME NEW p \in Procs
      PROVE  Sound(p)
  BY DEF Init, Sound, RowsInHand, InsertsAreOwn, RawCopyIsSound, FileCopyIsSound, Ingesting,
     Inserted, NoSession, NoRaw, NoFile
<1>3. LinkedIsPromoted /\ LinksAreSound
  BY DEF Init, LinkedIsPromoted, LinksAreSound, NoRaw, NoFile
<1> QED
  BY <1>1, <1>2, <1>3 DEF IInv

\* A step that changes no row and no session: a client's PUT, or none at all.
LEMMA OutsideStep ==
    ASSUME IInv, TypeOK', UNCHANGED <<raws, files, invoiceOf, pc, sess>>
    PROVE  IInv'
<1>1. \A p \in Procs : Sound(p)'
  BY DEF IInv, Sound, RowsInHand, InsertsAreOwn, RawCopyIsSound, FileCopyIsSound, Ingesting,
     Inserted
<1> QED
  BY <1>1, RowsUnchanged DEF IInv

\* Every step keeps IInv, and no step takes back what was committed.
LEMMA StepIInv ==
    ASSUME IInv, [Next]_vars
    PROVE  IInv' /\ Grows
<1>1. TypeOK'
  BY StepTypeOK DEF IInv, Sound
<1>2. ASSUME NEW l \in Loops, LoopStart(l)
      PROVE  IInv' /\ Grows
  <2>1. CASE Presign(l)
    BY <1>1, <2>1, PresignSound DEF Procs
  <2>2. CASE ~Presign(l)
    <3>1. UNCHANGED <<raws, files, invoiceOf>>
      BY <1>2, <2>2 DEF LoopStart, LandSave, UploadSave, ConfirmLoad, DeleteObject, store
    <3> QED
      BY <1>1, <1>2, <2>2, <3>1, StartSound, RowsUnchanged DEF Procs
  <2> QED
    BY <2>1, <2>2
<1>3. ASSUME NEW t \in Threads, ThreadStart(t)
      PROVE  IInv' /\ Grows
  <2>1. UNCHANGED <<raws, files, invoiceOf>>
    BY <1>3 DEF ThreadStart, EtlLoad, IngestLoad, OcrLoad, store
  <2>2. CASE Presign(t)
    BY <1>1, <2>2, PresignSound DEF Procs
  <2> QED
    BY <1>1, <1>3, <2>1, <2>2, StartSound, RowsUnchanged DEF Procs
<1>4. ASSUME NEW l \in Loops, LoopStep(l)
      PROVE  IInv' /\ Grows
  BY <1>1, <1>4, LandCommitSound, UploadCommitSound, ManifestSteps, FileSteps DEF LoopStep, Procs
<1>5. ASSUME NEW t \in Threads, ThreadStep(t)
      PROVE  IInv' /\ Grows
  <2>1. CASE EtlFinish(t) \/ OcrCommit(t) \/ IngestCommit(t) \/ IngestFail(t)
    BY <1>1, <2>1, ManifestSteps, FileSteps, IngestCommitSound, IngestFailSound DEF Procs
  <2>2. CASE EtlClaim(t) \/ EtlCurate(t) \/ IngestFlush(t) \/ Extract(t) \/ ExtractRaises(t)
               \/ EtlReload(t)
    <3>1. UNCHANGED <<raws, files, invoiceOf>>
      BY <2>2 DEF EtlClaim, EtlCurate, IngestFlush, Extract, ExtractRaises, EtlReload, store
    <3>2. IInv'
      BY <1>1, <2>2, EtlClaimSound, EtlCurateSound, IngestFlushSound, ExtractSound,
         ExtractRaisesSound, EtlReloadSound
    <3> QED
      BY <3>1, <3>2, RowsUnchanged
  <2>3. CASE OcrRaises(t)
    BY <1>1, <2>3, FinishSound, RowsUnchanged DEF OcrRaises, Procs, store
  <2> QED
    BY <1>5, <2>1, <2>2, <2>3 DEF ThreadStep
<1>6. ASSUME NEW p \in Procs, Abort(p)
      PROVE  IInv' /\ Grows
  BY <1>1, <1>6, FinishSound, RowsUnchanged DEF Abort, store
<1>7. ASSUME UNCHANGED <<raws, files, invoiceOf, pc, sess>>
      PROVE  IInv' /\ Grows
  BY <1>1, <1>7, OutsideStep, RowsUnchanged
<1> QED
  BY <1>2, <1>3, <1>4, <1>5, <1>6, <1>7 DEF Next, ClientPut, Quiet, vars

\* IInv holds in every reachable state, for any number of requests in progress.
THEOREM Invariance == Spec => []IInv
BY InitIInv, StepIInv, PTL DEF Spec

\* Rows, objects, locks and sessions stay well typed.
THEOREM TypeCorrect == Spec => []TypeOK
<1>1. IInv => TypeOK
  BY DEF IInv
<1> QED
  BY <1>1, Invariance, PTL

\* No concurrent request, rollback or death of a request makes a manifest dangle,
\* two files claim one e-invoice, or an e-invoice lose its file.
THEOREM LinksStaySound == Spec => []LinksAreSound
<1>1. IInv => LinksAreSound
  BY DEF IInv
<1> QED
  BY <1>1, Invariance, PTL

\* Whatever the other requests do, `extracted' on a manifest means that its document
\* was promoted to a file with extracted data and, if an invoice, to an e-invoice.
THEOREM ExtractedStaysBacked == Spec => []ExtractedIsBacked
<1>1. IInv => ExtractedIsBacked
  <2> SUFFICES ASSUME IInv, NEW r \in RawIds, raws[r].status = "extracted"
               PROVE  /\ raws[r].link # None
                      /\ LET f == files[raws[r].link] IN
                         /\ f.path = r /\ f.extracted
                         /\ f.category = "invoice" =>
                              f.entity # None /\ invoiceOf[f.entity] = raws[r].link
    BY DEF ExtractedIsBacked
  <2>1. raws[r].link # None /\ raws[r].link \in FileIds
    BY DEF IInv, TypeOK, RawRow, LinkedIsPromoted
  <2> QED
    BY <2>1 DEF IInv, LinkedIsPromoted, LinksAreSound
<1> QED
  BY <1>1, Invariance, PTL

\* No request takes back what another one has committed, however stale its copy.
THEOREM NothingIsTakenBack == Spec => NothingTakenBack
<1> DEFINE Kept ==
       /\ \A r \in RawIds : raws[r].link # None => raws'[r].link # None
       /\ \A f \in FileIds :
            /\ files[f].status # "absent" => files'[f].path = files[f].path
            /\ files[f].extracted => files'[f].extracted
            /\ files[f].entity # None => files'[f].entity # None
            /\ files[f].archived => files'[f].archived
       /\ \A i \in InvoiceIds : invoiceOf[i] # None => invoiceOf'[i] = invoiceOf[i]
<1>1. IInv /\ [Next]_vars => [Kept]_vars
  BY StepIInv DEF Grows
<1>2. Spec => [][Kept]_vars
  BY <1>1, Invariance, PTL DEF Spec
<1> QED
  BY <1>2 DEF NothingTakenBack
=============================================================================
