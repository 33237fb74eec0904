----------------------- MODULE DocumentLifecycleProofs -----------------------
(***************************************************************************)
(* More about DocumentPipeline, on the invariant of DocumentPipelineProofs:*)
(* a manifest lands once, only changed bytes part it from its object, no   *)
(* error is cached for a text, and a single thread implements              *)
(* PromotionLedger.  Any number of threads each repeat work at most once,  *)
(* leave no row lock behind, and never all wait for one another.           *)
(***************************************************************************)
EXTENDS DocumentPipelineProofs, FiniteSetTheorems

(* What one step does to a manifest, whoever takes it. *)

LEMMA MergedRaw ==
    ASSUME NEW row \in RawRow, NEW loaded \in RawRow, NEW mine \in RawRow
    PROVE  LET m == Merge(row, loaded, mine) IN
           /\ m.status = IF mine.status = loaded.status THEN row.status ELSE mine.status
           /\ m.link = IF mine.link = loaded.link THEN row.link ELSE mine.link
           /\ m.text = IF mine.text = loaded.text THEN row.text ELSE mine.text
           /\ m.checksum = IF mine.checksum = loaded.checksum THEN row.checksum ELSE mine.checksum
BY DEF Merge, RawRow

\* Actions that write no manifest.
LEMMA ManifestsStay ==
    ASSUME NEW p,
           \/ LandSave(p) \/ UploadSave(p) \/ UploadCommit(p) \/ DeleteCommit(p)
           \/ EtlClaim(p) \/ EtlCurate(p) \/ IngestFlush(p) \/ Extract(p) \/ ExtractRaises(p)
           \/ IngestFail(p) \/ EtlReload(p) \/ OcrCommit(p) \/ OcrRaises(p) \/ Abort(p)
           \/ (\E r \in RawIds : ConfirmLoad(p, r) \/ EtlLoad(p, r))
           \/ (\E f \in FileIds : DeleteObject(p, f) \/ IngestLoad(p, f) \/ OcrLoad(p, f))
    PROVE  raws' = raws
BY DEF LandSave, UploadSave, UploadCommit, DeleteCommit, EtlClaim, EtlCurate, IngestFlush, Extract,
       ExtractRaises, IngestFail, EtlReload, OcrCommit, OcrRaises, Abort, ConfirmLoad, EtlLoad,
       DeleteObject, IngestLoad, OcrLoad, store

\* The others insert one, or write the one they have in hand.
LEMMA ManifestWritten ==
    ASSUME IInv, NEW p \in Procs, NEW r \in RawIds,
           LandCommit(p) \/ ConfirmCommit(p) \/ IngestCommit(p) \/ EtlFinish(p) \/ Presign(p)
    PROVE  \/ raws'[r] = raws[r]
           \/ raws[r] = NoRaw /\ Presign(p) /\ raws'[r].status = "pending_upload"
                /\ raws'[r].link = None /\ raws'[r].text = Blank /\ raws'[r].checksum = None
           \/ raws[r] = NoRaw /\ pc[p] = "land" /\ sess[p].raw = r /\ raws'[r] = sess[p].rawMine
           \/ /\ pc[p] \in {"confirm", "commit", "finish"} /\ sess[p].raw = r
              /\ pc'[p] \in {"idle", "reload"}
              /\ raws'[r] = Merge(raws[r], sess[p].rawLoaded, sess[p].rawMine)
<1> DEFINE s == sess[p]
<1>1. TypeOK /\ Sound(p) /\ None \notin RawIds
  BY IdsAssumption DEF IInv
<1>2. CASE LandCommit(p)
  BY <1>1, <1>2 DEF LandCommit, Finish, Continue, Sound, InsertsAreOwn, TypeOK
<1>3. CASE ConfirmCommit(p)
  BY <1>1, <1>3 DEF ConfirmCommit, Finish, Continue, TypeOK
<1>4. CASE EtlFinish(p)
  BY <1>1, <1>4 DEF EtlFinish, Finish, Continue, TypeOK
<1>5. CASE IngestCommit(p)
  <2>1. pc[p] = "commit" /\ pc'[p] \in {"idle", "reload"}
    BY <1>1, <1>5 DEF TypeOK, IngestCommit, AfterIngest, Finish, Continue
  <2> QED
    BY <1>1, <1>5, <2>1 DEF IngestCommit, TypeOK
<1>6. CASE Presign(p)
  <2>1. PICK q \in FreshRaws, cat \in Categories :
           raws' = [raws EXCEPT ![q] = [NoRaw EXCEPT !.status = "pending_upload",
                                                   !.source = "presign", !.category = cat]]
    BY <1>6 DEF Presign
  <2>2. q = r => raws[r] = NoRaw /\ r \in DOMAIN raws
    BY <1>1 DEF FreshRaws, TypeOK
  <2> QED
    BY <1>1, <1>6, <2>1, <2>2 DEF NoRaw, TypeOK
<1> QED
  BY <1>2, <1>3, <1>4, <1>5, <1>6

LEMMA RawWrites ==
    ASSUME IInv, [Next]_vars, NEW r \in RawIds, raws'[r] # raws[r]
    PROVE  \/ /\ raws[r] = NoRaw /\ raws'[r].status = "pending_upload"
              /\ raws'[r].link = None /\ raws'[r].text = Blank /\ raws'[r].checksum = None
           \/ \E p \in Procs : /\ raws[r] = NoRaw /\ pc[p] = "land" /\ sess[p].raw = r
                               /\ raws'[r] = sess[p].rawMine
           \/ \E p \in Procs : /\ pc[p] \in {"confirm", "commit", "finish"} /\ sess[p].raw = r
                               /\ pc'[p] \in {"idle", "reload"}
                               /\ raws'[r] = Merge(raws[r], sess[p].rawLoaded, sess[p].rawMine)
<1>1. ASSUME NEW l \in Loops, LoopStart(l) \/ LoopStep(l)
      PROVE  LandCommit(l) \/ ConfirmCommit(l) \/ Presign(l)
  BY <1>1, ManifestsStay DEF LoopStart, LoopStep
<1>2. ASSUME NEW t \in Threads, ThreadStart(t) \/ ThreadStep(t)
      PROVE  IngestCommit(t) \/ EtlFinish(t)
  BY <1>2, ManifestsStay DEF ThreadStart, ThreadStep
<1>3. PICK p \in Procs :
        LandCommit(p) \/ ConfirmCommit(p) \/ IngestCommit(p) \/ EtlFinish(p) \/ Presign(p)
  BY <1>1, <1>2, ManifestsStay DEF Next, Procs, ClientPut, Quiet, vars
<1> QED
  BY <1>3, ManifestWritten

(* What one step does to what a session has of a manifest. *)

\* The process keeps the manifest it has in hand, and assigns at most the link.
KeepsManifest(p) ==
    LET s == sess[p]
        t == sess'[p]
    IN /\ t.raw = s.raw /\ t.rawLoaded = s.rawLoaded
       /\ t.rawMine.status = s.rawMine.status
       /\ t.rawMine.text = s.rawMine.text
       /\ t.rawMine.checksum = s.rawMine.checksum
       /\ pc'[p] \in LoopSteps \/ pc[p] \in LoopSteps => pc'[p] = pc[p]
       /\ pc'[p] \in Promoting => pc[p] \in Promoting

\* It has none.
HasNoManifest(p) ==
    /\ sess'[p].raw = None /\ sess'[p].rawLoaded = NoRaw /\ sess'[p].rawMine = NoRaw
    /\ pc'[p] \notin {"land", "confirm"}

\* It inserts one, or loads one.
Lands(p, r) ==
    /\ raws[r] = NoRaw /\ objects[r] = None /\ objects'[r] # None
    /\ pc'[p] = "land" /\ sess'[p].raw = r /\ sess'[p].rawLoaded = NoRaw
    /\ sess'[p].rawMine.status = "landed" /\ sess'[p].rawMine.text = Blank
    /\ sess'[p].rawMine.checksum = objects'[r]

Loads(p, r) ==
    /\ raws' = raws /\ sess'[p].raw = r /\ sess'[p].rawLoaded = raws[r]
    /\ \/ /\ pc'[p] = "confirm" /\ raws[r].status \in Confirmable /\ objects[r] # None
          /\ p \in Loops
          /\ objects' = objects
          /\ sess'[p].rawMine.status = "landed" /\ sess'[p].rawMine.text = raws[r].text
          /\ sess'[p].rawMine.checksum = objects[r]
       \/ /\ pc'[p] = "claim" /\ raws[r].status \notin {"absent", "pending_upload"}
          /\ sess'[p].rawMine.status = "extracting" /\ sess'[p].rawMine.text = raws[r].text
          /\ sess'[p].rawMine.checksum = raws[r].checksum
       \/ /\ pc[p] = "reload" /\ pc'[p] = "finish" /\ sess[p].raw = r
          /\ sess'[p].rawMine.status \in {"extracted", "failed"}
          /\ sess'[p].rawMine.text \in {raws[r].text, sess[p].fileMine.text,
                                        files[sess[p].file].text}
          /\ sess'[p].rawMine.checksum = raws[r].checksum

LEMMA StartsManifest ==
    ASSUME IInv, NEW p \in Procs,
           (p \in Loops /\ LoopStart(p)) \/ (p \in Threads /\ ThreadStart(p))
    PROVE  KeepsManifest(p) \/ HasNoManifest(p) \/ \E r \in RawIds : Lands(p, r) \/ Loads(p, r)
<1> USE DEF Begin
<1>1. TypeOK /\ None \notin Contents /\ p \in DOMAIN pc /\ p \in DOMAIN sess
  BY IdsAssumption DEF IInv, TypeOK
<1>2. CASE p \in Loops /\ LandSave(p)
  <2>1. PICK r \in FreshRaws, c \in Contents, cat \in Categories :
         /\ Begin(p, "land", "land",
                  [NoSession EXCEPT !.raw = r,
                      !.rawMine = [NoRaw EXCEPT !.status = "landed", !.source = "upload",
                                                !.checksum = c, !.category = cat]])
         /\ objects' = [objects EXCEPT ![r] = c]
    BY <1>2 DEF LandSave
  <2>2. r \in RawIds /\ raws[r] = NoRaw /\ objects[r] = None /\ objects'[r] = c
    BY <1>1, <2>1 DEF FreshRaws, TypeOK, Paths
  <2>3. Lands(p, r)
    BY <1>1, <2>1, <2>2 DEF Lands, NoSession, NoRaw
  <2> QED
    BY <2>2, <2>3
<1>3. CASE p \in Loops /\ Presign(p)
  BY <1>3 DEF Presign, KeepsManifest
<1>4. CASE p \in Loops /\ UploadSave(p)
  BY <1>1, <1>4 DEF UploadSave, HasNoManifest, NoSession
<1>5. ASSUME NEW r \in RawIds, p \in Loops, ConfirmLoad(p, r)
      PROVE  Loads(p, r)
  <2>1. /\ Confirmed(r).status = "landed" /\ Confirmed(r).text = raws[r].text
        /\ Confirmed(r).checksum = objects[r]
    BY <1>1 DEF Confirmed, TypeOK, RawRow
  <2> QED
    BY <1>1, <1>5, <2>1 DEF ConfirmLoad, Loads, NoSession, store
<1>6. ASSUME NEW f \in FileIds, DeleteObject(p, f) \/ IngestLoad(p, f) \/ OcrLoad(p, f)
      PROVE  HasNoManifest(p)
  BY <1>1, <1>6 DEF DeleteObject, IngestLoad, OcrLoad, HasNoManifest, NoSession
<1>7. ASSUME NEW r \in RawIds, EtlLoad(p, r)
      PROVE  Loads(p, r)
  <2>1. /\ [raws[r] EXCEPT !.status = "extracting"].status = "extracting"
        /\ [raws[r] EXCEPT !.status = "extracting"].text = raws[r].text
        /\ [raws[r] EXCEPT !.status = "extracting"].checksum = raws[r].checksum
    BY <1>1 DEF TypeOK, RawRow
  <2> QED
    BY <1>1, <1>7, <2>1 DEF EtlLoad, Loads, NoSession, store
<1> QED
  BY <1>2, <1>3, <1>4, <1>5, <1>6, <1>7 DEF LoopStart, ThreadStart

LEMMA ContinuesManifest ==
    ASSUME IInv, NEW p \in Procs, LoopStep(p) \/ ThreadStep(p) \/ Abort(p)
    PROVE  KeepsManifest(p) \/ HasNoManifest(p) \/ \E r \in RawIds : Loads(p, r)
<1> DEFINE s == sess[p]
<1>1. /\ TypeOK /\ RowsInHand(p) /\ p \in DOMAIN pc /\ p \in DOMAIN sess
      /\ s \in Session /\ s.rawMine \in RawRow /\ s.fileMine \in FileRow
  BY DEF IInv, Sound, TypeOK, Session
<1>2. ASSUME NEW from, Finish(p, from)
      PROVE  HasNoManifest(p)
  BY <1>1, <1>2 DEF Finish, Continue, HasNoManifest, NoSession
<1>3. ASSUME NEW from, NEW to, NEW session, Continue(p, from, to, session),
             from \notin LoopSteps, to \notin LoopSteps, to \in Promoting => from \in Promoting,
             session.raw = s.raw, session.rawLoaded = s.rawLoaded,
             session.rawMine.status = s.rawMine.status,
             session.rawMine.text = s.rawMine.text,
             session.rawMine.checksum = s.rawMine.checksum
      PROVE  KeepsManifest(p)
  BY <1>1, <1>3 DEF Continue, KeepsManifest
<1> USE DEF LoopSteps, Promoting
<1>4. CASE EtlClaim(p)
  BY <1>3, <1>4 DEF EtlClaim
<1>5. CASE EtlCurate(p)
  <2>1. PICK session : /\ Continue(p, "curate", "process", session)
                       /\ session.raw = s.raw /\ session.rawLoaded = s.rawLoaded
                       /\ session.rawMine.status = s.rawMine.status
                       /\ session.rawMine.text = s.rawMine.text
                       /\ session.rawMine.checksum = s.rawMine.checksum
    <3>1. CASE s.rawLoaded.link # None
      <4> DEFINE a == [s EXCEPT !.file = s.rawLoaded.link, !.fileLoaded = files[s.rawLoaded.link],
                                !.fileMine = files[s.rawLoaded.link]]
      <4>1. Continue(p, "curate", "process", a)
        BY <1>5, <3>1 DEF EtlCurate
      <4>2. a.raw = s.raw /\ a.rawLoaded = s.rawLoaded /\ a.rawMine = s.rawMine
        BY <1>1 DEF Session
      <4> QED
        BY <4>1, <4>2
    <3>2. CASE s.rawLoaded.link = None
      <4>1. PICK f \in FreshFiles :
               Continue(p, "curate", "process",
                        [s EXCEPT !.file = f, !.rawMine.link = f,
                                  !.fileMine = [NoFile EXCEPT !.status = "pending",
                                                              !.path = s.raw,
                                                              !.text = s.rawLoaded.text,
                                                              !.category = s.rawLoaded.category]])
        BY <1>5, <3>2 DEF EtlCurate
      <4> DEFINE row == [NoFile EXCEPT !.status = "pending", !.path = s.raw,
                                       !.text = s.rawLoaded.text,
                                       !.category = s.rawLoaded.category]
                 a == [s EXCEPT !.file = f, !.rawMine.link = f, !.fileMine = row]
      <4>2. /\ a.raw = s.raw /\ a.rawLoaded = s.rawLoaded
            /\ a.rawMine = [s.rawMine EXCEPT !.link = f]
        BY <1>1 DEF Session
      <4>3. Continue(p, "curate", "process", a)
        BY <4>1
      <4> HIDE DEF a
      <4> QED
        BY <1>1, <4>2, <4>3 DEF RawRow
    <3> QED
      BY <3>1, <3>2
  <2> QED
    BY <1>3, <2>1
<1>6. CASE IngestFlush(p)
  <2> DEFINE a == [s EXCEPT !.fileMine.status = "processing"]
  <2>1. Continue(p, "process", "extract", a)
    BY <1>6 DEF IngestFlush
  <2>2. a.raw = s.raw /\ a.rawLoaded = s.rawLoaded /\ a.rawMine = s.rawMine
    BY <1>1 DEF Session
  <2> HIDE DEF a
  <2> QED
    BY <1>3, <2>1, <2>2
<1>7. CASE Extract(p)
  <2>1. PICK text \in TextOf(s), i \in EntityOf(s) :
          Continue(p, "extract", "commit",
                  [s EXCEPT !.fileMine.text = Cached(@, text),
                            !.fileMine.extracted = TRUE,
                            !.fileMine.status = "ingested",
                            !.fileMine.entity = i,
                            !.invoice = IF i = s.fileMine.entity THEN None ELSE i])
    BY <1>7 DEF Extract
  <2> DEFINE a == [s EXCEPT !.fileMine.text = Cached(@, text),
                            !.fileMine.extracted = TRUE,
                            !.fileMine.status = "ingested",
                            !.fileMine.entity = i,
                            !.invoice = IF i = s.fileMine.entity THEN None ELSE i]
  <2>2. a.raw = s.raw /\ a.rawLoaded = s.rawLoaded /\ a.rawMine = s.rawMine
    BY <1>1 DEF Session
  <2>3. Continue(p, "extract", "commit", a)
    BY <2>1
  <2> HIDE DEF a
  <2> QED
    BY <1>3, <2>2, <2>3
<1>8. CASE ExtractRaises(p)
  <2>1. PICK text : Continue(p, "extract", IF Inserted(s) THEN "reload" ELSE "fail",
                             [s EXCEPT !.fileMine.text = text])
    BY <1>8 DEF ExtractRaises
  <2> DEFINE a == [s EXCEPT !.fileMine.text = text]
  <2>2. a.raw = s.raw /\ a.rawLoaded = s.rawLoaded /\ a.rawMine = s.rawMine
    BY <1>1 DEF Session
  <2>3. Continue(p, "extract", IF Inserted(s) THEN "reload" ELSE "fail", a)
    BY <2>1
  <2> HIDE DEF a
  <2>4. PICK to \in {"reload", "fail"} : Continue(p, "extract", to, a)
    BY <2>3
  <2> QED
    BY <1>3, <2>2, <2>4
<1>9. CASE IngestCommit(p)
  <2> DEFINE a == [s EXCEPT !.ok = TRUE, !.invoice = None]
  <2>1. AfterIngest(p, "commit", a)
    BY <1>9 DEF IngestCommit
  <2>2. a.raw = s.raw /\ a.rawLoaded = s.rawLoaded /\ a.rawMine = s.rawMine
    BY <1>1 DEF Session
  <2> HIDE DEF a
  <2> QED
    BY <1>2, <1>3, <2>1, <2>2 DEF AfterIngest
<1>10. CASE IngestFail(p)
  BY <1>2, <1>3, <1>10 DEF IngestFail, AfterIngest
<1>11. CASE EtlReload(p)
  <2> DEFINE row == raws[s.raw]
             curated == IF Inserted(s) /\ ~s.ok THEN s.fileMine ELSE files[s.file]
             mine == [row EXCEPT !.status = Outcome(s),
                                 !.text = IF row.text = Blank THEN curated.text ELSE row.text,
                                 !.category = curated.category]
             a == [s EXCEPT !.rawLoaded = row, !.rawMine = mine]
  <2>1. pc[p] = "reload" /\ raws' = raws /\ Continue(p, "reload", "finish", a)
    BY <1>11 DEF EtlReload, Continue, store
  <2>2. s.raw \in RawIds /\ row \in RawRow
    BY <1>1, <2>1 DEF RowsInHand, Session, TypeOK
  <2>3. a.raw = s.raw /\ a.rawLoaded = row /\ a.rawMine = mine
    BY <1>1 DEF Session
  <2>4. /\ mine.status \in {"extracted", "failed"}
        /\ mine.text \in {row.text, s.fileMine.text, files[s.file].text}
        /\ mine.checksum = row.checksum
    BY <2>2 DEF RawRow, Outcome
  <2> HIDE DEF a, mine, row
  <2>5. sess'[p] = a /\ pc'[p] = "finish"
    BY <1>1, <2>1 DEF Continue
  <2>6. Loads(p, s.raw)
    BY <2>1, <2>3, <2>4, <2>5 DEF Loads, row
  <2> QED
    BY <2>2, <2>6
<1>12. CASE LoopStep(p) \/ EtlFinish(p) \/ OcrCommit(p) \/ OcrRaises(p) \/ Abort(p)
  BY <1>2, <1>12 DEF LoopStep, LandCommit, ConfirmCommit, UploadCommit, DeleteCommit, EtlFinish,
     OcrCommit, OcrRaises, Abort
<1> QED
  BY <1>4, <1>5, <1>6, <1>7, <1>8, <1>9, <1>10, <1>11, <1>12 DEF ThreadStep

\* One process acts at a time, if any does.
LEMMA ActsAlone ==
    ASSUME TypeOK, NEW q \in Procs,
           LoopStart(q) \/ ThreadStart(q) \/ LoopStep(q) \/ ThreadStep(q) \/ Abort(q)
    PROVE  Acts(q)
<1>1. ASSUME NEW from, NEW to, NEW s, Continue(q, from, to, s)
      PROVE  Acts(q)
  BY <1>1, ContinueActs
<1>2. ASSUME NEW from, NEW s, Finish(q, from) \/ AfterIngest(q, from, s)
      PROVE  Acts(q)
  BY <1>1, <1>2 DEF Finish, AfterIngest
<1>3. ASSUME NEW kind, NEW to, NEW s, Begin(q, kind, to, s)
      PROVE  Acts(q)
  BY <1>3 DEF Begin, Acts, TypeOK
<1>4. CASE LoopStart(q)
  BY <1>3, <1>4 DEF LoopStart, LandSave, Presign, UploadSave, ConfirmLoad, DeleteObject, Acts
<1>5. CASE ThreadStart(q)
  BY <1>3, <1>5 DEF ThreadStart, EtlLoad, IngestLoad, OcrLoad
<1>6. CASE LoopStep(q) \/ Abort(q)
  BY <1>2, <1>6 DEF LoopStep, LandCommit, ConfirmCommit, UploadCommit, DeleteCommit, Abort
<1>7. CASE ThreadStep(q)
  BY <1>1, <1>2, <1>7 DEF ThreadStep, EtlClaim, EtlCurate, IngestFlush, Extract, ExtractRaises,
     IngestCommit, IngestFail, EtlReload, EtlFinish, OcrCommit, OcrRaises
<1> QED
  BY <1>4, <1>5, <1>6, <1>7

\* What a step is, seen from one process: its own, or one that leaves it as it is.
LEMMA OwnOrOther ==
    ASSUME TypeOK, [Next]_vars, NEW p \in Procs
    PROVE  \/ pc'[p] = pc[p] /\ sess'[p] = sess[p]
           \/ p \in Loops /\ LoopStart(p)
           \/ p \in Threads /\ ThreadStart(p)
           \/ p \in Loops /\ LoopStep(p)
           \/ p \in Threads /\ ThreadStep(p)
           \/ Abort(p)
<1>1. ASSUME NEW q \in Procs, q # p,
             LoopStart(q) \/ ThreadStart(q) \/ LoopStep(q) \/ ThreadStep(q) \/ Abort(q)
      PROVE  pc'[p] = pc[p] /\ sess'[p] = sess[p]
  BY <1>1, ActsAlone DEF Acts
<1> QED
  BY <1>1 DEF Next, Procs, ClientPut, Quiet, vars

LEMMA RawSessions ==
    ASSUME IInv, [Next]_vars, NEW p \in Procs
    PROVE  KeepsManifest(p) \/ HasNoManifest(p) \/ \E r \in RawIds : Lands(p, r) \/ Loads(p, r)
<1>1. ASSUME pc'[p] = pc[p], sess'[p] = sess[p]
      PROVE  KeepsManifest(p)
  BY <1>1 DEF KeepsManifest
<1> QED
  BY <1>1, OwnOrOther, StartsManifest, ContinuesManifest DEF IInv

\* Processes stay at steps of their kind.
LEMMA StepInPlace ==
    ASSUME IInv, [Next]_vars, NEW p \in Procs, InPlace(p)
    PROVE  InPlace(p)'
<1>1. TypeOK /\ p \in DOMAIN pc /\ p \in DOMAIN sess /\ (p \in Threads => p \notin Loops)
        /\ (p \in Loops \/ p \in Threads)
  BY IdsAssumption DEF IInv, TypeOK, Procs
<1>2. CASE pc'[p] = pc[p] /\ sess'[p] = sess[p]
  BY <1>2 DEF InPlace
<1>3. CASE p \in Loops /\ LoopStart(p)
  BY <1>1, <1>2, <1>3 DEF LoopStart, LandSave, Presign, UploadSave, ConfirmLoad, DeleteObject, Begin,
     InPlace, LoopSteps, NoSession
<1>4. CASE p \in Threads /\ ThreadStart(p)
  BY <1>1, <1>4 DEF ThreadStart, EtlLoad, IngestLoad, OcrLoad, Begin, InPlace, ThreadSteps
<1>5. ASSUME NEW from, Finish(p, from)
      PROVE  InPlace(p)'
  BY <1>1, <1>5 DEF Finish, Continue, InPlace, LoopSteps, ThreadSteps
<1>6. CASE (p \in Loops /\ LoopStep(p)) \/ Abort(p)
  BY <1>5, <1>6 DEF LoopStep, LandCommit, ConfirmCommit, UploadCommit, DeleteCommit, Abort
<1>7. ASSUME NEW from, NEW to, NEW s, p \in Threads, Continue(p, from, to, s),
             to \in ThreadSteps \ LoopSteps
      PROVE  InPlace(p)'
  BY <1>1, <1>7 DEF Continue, InPlace, LoopSteps, ThreadSteps
<1>8. CASE p \in Threads /\ ThreadStep(p)
  <2> USE DEF LoopSteps, ThreadSteps
  <2>1. CASE EtlClaim(p)
    BY <1>7, <1>8, <2>1 DEF EtlClaim
  <2>4. CASE EtlCurate(p)
    <3>1. CASE sess[p].rawLoaded.link # None
      <4>1. Continue(p, "curate", "process",
                     [sess[p] EXCEPT !.file = sess[p].rawLoaded.link,
                                     !.fileLoaded = files[sess[p].rawLoaded.link],
                                     !.fileMine = files[sess[p].rawLoaded.link]])
        BY <2>4, <3>1 DEF EtlCurate
      <4> QED
        BY <1>7, <1>8, <4>1
    <3>2. CASE sess[p].rawLoaded.link = None
      <4>1. PICK f \in FreshFiles :
               Continue(p, "curate", "process",
                        [sess[p] EXCEPT !.file = f, !.rawMine.link = f,
                                  !.fileMine = [NoFile EXCEPT !.status = "pending",
                                                              !.path = sess[p].raw,
                                                              !.text = sess[p].rawLoaded.text,
                                                              !.category = sess[p].rawLoaded.category]])
        BY <2>4, <3>2 DEF EtlCurate
      <4> QED
        BY <1>7, <1>8, <4>1
    <3> QED
      BY <3>1, <3>2
  <2>5. CASE IngestFlush(p)
    BY <1>7, <1>8, <2>5 DEF IngestFlush
  <2>6. CASE Extract(p)
    BY <1>7, <1>8, <2>6 DEF Extract
  <2>7. CASE EtlReload(p)
    BY <1>7, <1>8, <2>7 DEF EtlReload
  <2>2. CASE ExtractRaises(p)
    <3>1. CASE Inserted(sess[p])
      BY <1>7, <1>8, <2>2, <3>1 DEF ExtractRaises
    <3>2. CASE ~Inserted(sess[p])
      BY <1>7, <1>8, <2>2, <3>2 DEF ExtractRaises
    <3> QED
      BY <3>1, <3>2
  <2>3. CASE IngestCommit(p) \/ IngestFail(p) \/ EtlFinish(p) \/ OcrCommit(p) \/ OcrRaises(p)
    BY <1>5, <1>7, <1>8, <2>3 DEF IngestCommit, IngestFail, AfterIngest, EtlFinish, OcrCommit,
       OcrRaises
  <2> QED
    BY <1>8, <2>1, <2>2, <2>3, <2>4, <2>5, <2>6, <2>7 DEF ThreadStep
<1> QED
  BY <1>2, <1>3, <1>4, <1>6, <1>8, <1>1, OwnOrOther

LEMMA InitInPlace == Init => \A p \in Procs : InPlace(p)
BY DEF Init, InPlace, LoopSteps, ThreadSteps

-----------------------------------------------------------------------------
(* A manifest lands once. *)

\* Rows in the sessions and the table, with the parts that are needed below.
LEMMA InHand ==
    ASSUME IInv, NEW p \in Procs
    PROVE  /\ Sound(p)
           /\ sess[p] \in Session
           /\ sess[p].rawLoaded \in RawRow /\ sess[p].rawMine \in RawRow
           /\ sess[p].fileLoaded \in FileRow /\ sess[p].fileMine \in FileRow
           /\ sess[p].raw # None => sess[p].raw \in RawIds
           /\ sess[p].file # None => sess[p].file \in FileIds
           /\ \A r \in RawIds : raws[r] \in RawRow
           /\ \A f \in FileIds : files[f] \in FileRow
           /\ None \notin RawIds /\ None \notin FileIds /\ None \notin Contents
BY IdsAssumption DEF IInv, TypeOK, Session

LEMMA StaysOnRecord ==
    ASSUME IInv, [Next]_vars, LandingIsOnce, NEW r \in RawIds, raws[r].status \in OnRecord
    PROVE  raws'[r].status \in OnRecord
<1>1. raws[r] # NoRaw
  BY DEF NoRaw, OnRecord
<1>2. SUFFICES ASSUME NEW q \in Procs, pc[q] \in {"confirm", "commit", "finish"}, sess[q].raw = r,
                      raws'[r] = Merge(raws[r], sess[q].rawLoaded, sess[q].rawMine)
               PROVE  raws'[r].status \in OnRecord
  BY <1>1, RawWrites
<1>3. HasLanded(q) /\ r # None
  BY <1>2, InHand DEF LandingIsOnce
<1>4. sess[q].rawMine.status \in OnRecord
  BY <1>2, <1>3 DEF HasLanded, OnRecord
<1> QED
  BY <1>2, <1>4, InHand, MergedRaw

LEMMA StepHasLanded ==
    ASSUME IInv, [Next]_vars, LandingIsOnce, NEW p \in Procs
    PROVE  HasLanded(p)'
<1>1. HasLanded(p)
  BY DEF LandingIsOnce
<1>2. CASE KeepsManifest(p)
  BY <1>1, <1>2, InHand, StaysOnRecord DEF KeepsManifest, HasLanded, LoopSteps
<1>3. CASE HasNoManifest(p)
  BY <1>3 DEF HasNoManifest, HasLanded
<1>4. ASSUME NEW r \in RawIds, Lands(p, r)
      PROVE  HasLanded(p)'
  BY <1>4 DEF Lands, HasLanded
<1>5. ASSUME NEW r \in RawIds, Loads(p, r)
      PROVE  HasLanded(p)'
  <2>1. raws[r].status \in RawStatuses /\ r # None
    BY InHand DEF RawRow
  <2> QED
    BY <1>1, <1>5, <2>1, StaysOnRecord DEF Loads, HasLanded, OnRecord, RawStatuses
<1> QED
  BY <1>2, <1>3, <1>4, <1>5, RawSessions

LEMMA StepConfirmsOnce ==
    ASSUME IInv, [Next]_vars, LandingIsOnce, OneLoop, NEW p \in Procs
    PROVE  ConfirmsOnce(p)'
<1>1. CASE KeepsManifest(p)
  <2> SUFFICES ASSUME pc'[p] = "confirm", sess'[p].rawLoaded.status # "landed"
               PROVE  raws'[sess'[p].raw].status = "pending_upload"
    BY DEF ConfirmsOnce
  <2> DEFINE r == sess[p].raw
  <2>1. /\ pc[p] = "confirm" /\ sess'[p].raw = r /\ sess[p].rawLoaded.status # "landed"
        /\ ConfirmsOnce(p)
    BY <1>1 DEF KeepsManifest, LandingIsOnce, LoopSteps
  <2>2. r \in RawIds /\ r # None /\ raws[r].status = "pending_upload"
    BY <2>1, InHand DEF ConfirmsOnce, Sound, RowsInHand
  <2>3. ASSUME NEW q \in Procs, pc[q] \in {"confirm", "commit", "finish"}, sess[q].raw = r,
               pc'[q] \in {"idle", "reload"}
        PROVE  FALSE
    <3>1. HasLanded(q) /\ InPlace(p) /\ InPlace(q)
      BY DEF LandingIsOnce
    <3>2. pc[q] = "confirm"
      BY <2>2, <2>3, <3>1 DEF HasLanded, OnRecord
    <3>3. p \in Loops /\ q \in Loops
      BY <2>1, <3>1, <3>2 DEF InPlace, ThreadSteps
    <3> QED
      BY <2>3, <3>3 DEF OneLoop
  <2>4. raws[r] # NoRaw
    BY <2>2 DEF NoRaw
  <2> QED
    BY <2>1, <2>2, <2>3, <2>4, RawWrites
<1>2. CASE HasNoManifest(p)
  BY <1>2 DEF HasNoManifest, ConfirmsOnce
<1>3. ASSUME NEW r \in RawIds, Lands(p, r)
      PROVE  ConfirmsOnce(p)'
  BY <1>3 DEF Lands, ConfirmsOnce
<1>4. ASSUME NEW r \in RawIds, Loads(p, r)
      PROVE  ConfirmsOnce(p)'
  BY <1>4 DEF Loads, ConfirmsOnce, Confirmable
<1> QED
  BY <1>1, <1>2, <1>3, <1>4, RawSessions

LEMMA InitLandingIsOnce == Init => LandingIsOnce
BY InitInPlace DEF Init, LandingIsOnce, HasLanded, ConfirmsOnce, NoSession

LEMMA StepLandingIsOnce ==
    ASSUME IInv, [Next]_vars, LandingIsOnce
    PROVE  LandingIsOnce'
<1>1. ASSUME NEW p \in Procs
      PROVE  InPlace(p)' /\ HasLanded(p)' /\ (OneLoop => ConfirmsOnce(p)')
  BY <1>1, StepInPlace, StepHasLanded, StepConfirmsOnce DEF LandingIsOnce
<1> QED
  BY <1>1 DEF LandingIsOnce

\* ETL works on documents that have landed, whatever else is going on.
THEOREM LandingInvariance == Spec => []LandingIsOnce
BY InitLandingIsOnce, StepLandingIsOnce, Invariance, PTL DEF Spec

\* With one worker, and so one event loop, no confirmation takes back what ETL has done.
THEOREM LandsOnce ==
    ASSUME OneLoop
    PROVE  Spec => LandedOnce
<1> DEFINE Forward == \A r \in RawIds : raws'[r].status = "landed" =>
                         raws[r].status \in {"absent", "pending_upload", "landed"}
<1>1. IInv /\ LandingIsOnce /\ [Next]_vars => [Forward]_vars
  <2> SUFFICES ASSUME IInv, LandingIsOnce, [Next]_vars, NEW r \in RawIds,
                      raws'[r].status = "landed", raws'[r] # raws[r]
               PROVE  raws[r].status \in {"absent", "pending_upload", "landed"}
    OBVIOUS
  <2>1. raws[r] = NoRaw => raws[r].status = "absent"
    BY DEF NoRaw
  <2>2. ASSUME NEW q \in Procs, pc[q] \in {"confirm", "commit", "finish"}, sess[q].raw = r,
               raws'[r] = Merge(raws[r], sess[q].rawLoaded, sess[q].rawMine)
        PROVE  raws[r].status \in {"pending_upload", "landed"}
    <3>1. /\ raws'[r].status = IF sess[q].rawMine.status = sess[q].rawLoaded.status
                                 THEN raws[r].status ELSE sess[q].rawMine.status
          /\ HasLanded(q) /\ ConfirmsOnce(q) /\ r # None
      BY <2>2, InHand, MergedRaw DEF LandingIsOnce
    <3> QED
      BY <2>2, <3>1 DEF HasLanded, ConfirmsOnce
  <2> QED
    BY <2>1, <2>2, RawWrites
<1>2. Spec => [][Forward]_vars
  BY <1>1, Invariance, LandingInvariance, PTL DEF Spec
<1> QED
  BY <1>2 DEF LandedOnce

-----------------------------------------------------------------------------
(* No error is cached for a text. *)

LEMMA MergedText ==
    ASSUME NEW row \in FileRow, NEW loaded \in FileRow, NEW mine \in FileRow
    PROVE  Merge(row, loaded, mine).text \in {row.text, mine.text}
BY DEF Merge, FileRow

LEMMA CachedIsReal ==
    ASSUME NEW old, old # OcrError, NEW text
    PROVE  Cached(old, text) # OcrError
BY DEF Cached

LEMMA NullTexts ==
    /\ NoRaw.text # OcrError /\ NoFile.text # OcrError
    /\ NoSession.rawLoaded = NoRaw /\ NoSession.rawMine = NoRaw
    /\ NoSession.fileLoaded = NoFile /\ NoSession.fileMine = NoFile
BY DEF NoRaw, NoFile, NoSession, Blank, OcrError

\* The texts of the manifests, in the table and in the sessions.
LEMMA StepRawTexts ==
    ASSUME IInv, [Next]_vars, TextsAreReal, NEW r \in RawIds
    PROVE  raws'[r].text # OcrError
<1>1. ASSUME NEW q \in Procs, sess[q].raw = r,
             raws'[r] = Merge(raws[r], sess[q].rawLoaded, sess[q].rawMine)
      PROVE  raws'[r].text # OcrError
  <2>1. raws'[r].text \in {raws[r].text, sess[q].rawMine.text}
    BY <1>1, InHand, MergedRaw
  <2> QED
    BY <2>1 DEF TextsAreReal, NoErrorTextCached, TextsInHand
<1>2. Blank # OcrError
  BY DEF Blank, OcrError
<1> QED
  BY <1>1, <1>2, RawWrites DEF TextsAreReal, NoErrorTextCached, TextsInHand

LEMMA StepRawTextsInHand ==
    ASSUME IInv, [Next]_vars, TextsAreReal, NEW p \in Procs
    PROVE  sess'[p].rawLoaded.text # OcrError /\ sess'[p].rawMine.text # OcrError
<1>1. /\ TextsInHand(p) /\ NoErrorTextCached /\ Blank # OcrError
  BY DEF TextsAreReal, Blank, OcrError
<1>2. CASE KeepsManifest(p)
  BY <1>1, <1>2 DEF KeepsManifest, TextsInHand
<1>3. CASE HasNoManifest(p)
  BY <1>3, NullTexts DEF HasNoManifest
<1>4. ASSUME NEW r \in RawIds, Lands(p, r)
      PROVE  sess'[p].rawLoaded.text # OcrError /\ sess'[p].rawMine.text # OcrError
  BY <1>1, <1>4, NullTexts DEF Lands
<1>5. ASSUME NEW r \in RawIds, Loads(p, r)
      PROVE  sess'[p].rawLoaded.text # OcrError /\ sess'[p].rawMine.text # OcrError
  <2>1. pc[p] = "reload" => sess[p].file \in FileIds
    BY InHand DEF Sound, RowsInHand
  <2>2. raws[r].text # OcrError
    BY <1>1 DEF NoErrorTextCached
  <2>3. sess[p].fileMine.text # OcrError
    BY <1>1 DEF TextsInHand
  <2>4. pc[p] = "reload" => files[sess[p].file].text # OcrError
    BY <1>1, <2>1 DEF NoErrorTextCached
  <2> QED
    BY <1>5, <2>2, <2>3, <2>4 DEF Loads
<1> QED
  BY <1>2, <1>3, <1>4, <1>5, RawSessions

(* What one step does to a file, and to what a session has of one. *)

WritesFile(p, f) ==
    LET s == sess[p] IN
    /\ s.file = f /\ pc'[p] \in {"idle", "reload"}
    /\ \/ pc[p] = "upload" /\ files'[f] = s.fileMine
       \/ /\ pc[p] = "commit" /\ IngestCommit(p)
          /\ files'[f] = IF Inserted(s) THEN s.fileMine
                         ELSE [Merge(files[f], s.fileLoaded, s.fileMine) EXCEPT !.status = "ingested"]
       \/ pc[p] = "delete" /\ files'[f] = Merge(files[f], s.fileLoaded, s.fileMine)
       \/ /\ pc[p] = "ocr"
          /\ \E text \in OcrResults :
                files'[f] = Merge(files[f], s.fileLoaded, [s.fileMine EXCEPT !.text = text])
       \/ pc[p] = "fail" /\ files'[f] = [files[f] EXCEPT !.status = "failed"]

LEMMA FilesStay ==
    ASSUME NEW p,
           \/ LoopStart(p) \/ LandCommit(p) \/ ConfirmCommit(p) \/ ThreadStart(p)
           \/ EtlClaim(p) \/ EtlCurate(p) \/ IngestFlush(p) \/ Extract(p) \/ ExtractRaises(p)
           \/ EtlReload(p) \/ EtlFinish(p) \/ OcrRaises(p) \/ Abort(p)
    PROVE  files' = files
BY DEF LoopStart, LandSave, Presign, UploadSave, ConfirmLoad, DeleteObject, LandCommit, ConfirmCommit,
       ThreadStart, EtlLoad, IngestLoad, OcrLoad, EtlClaim, EtlCurate, IngestFlush, Extract,
       ExtractRaises, EtlReload, EtlFinish, OcrRaises, Abort, store

LEMMA FileWritten ==
    ASSUME IInv, NEW p \in Procs, NEW f \in FileIds, files'[f] # files[f],
           UploadCommit(p) \/ DeleteCommit(p) \/ IngestCommit(p) \/ IngestFail(p) \/ OcrCommit(p)
    PROVE  WritesFile(p, f)
<1>1. TypeOK /\ p \in DOMAIN pc /\ f \in DOMAIN files
  BY DEF IInv, TypeOK
<1>2. CASE UploadCommit(p)
  BY <1>1, <1>2 DEF UploadCommit, WritesFile, Finish, Continue
<1>3. CASE DeleteCommit(p)
  BY <1>1, <1>3 DEF DeleteCommit, WritesFile, Finish, Continue
<1>4. CASE IngestCommit(p)
  <2>1. pc[p] = "commit" /\ pc'[p] \in {"idle", "reload"}
    BY <1>1, <1>4 DEF IngestCommit, AfterIngest, Finish, Continue
  <2>2. files' = [files EXCEPT ![sess[p].file] =
                    IF Inserted(sess[p]) THEN sess[p].fileMine
                    ELSE [Merge(files[sess[p].file], sess[p].fileLoaded, sess[p].fileMine)
                            EXCEPT !.status = "ingested"]]
    BY <1>4 DEF IngestCommit
  <2>3. sess[p].file = f
    BY <1>1, <2>2
  <2> QED
    BY <1>1, <1>4, <2>1, <2>2, <2>3 DEF WritesFile
<1>5. CASE IngestFail(p)
  <2>1. pc[p] = "fail" /\ pc'[p] \in {"idle", "reload"}
    BY <1>1, <1>5 DEF IngestFail, AfterIngest, Finish, Continue
  <2> QED
    BY <1>1, <1>5, <2>1 DEF IngestFail, WritesFile
<1>6. CASE OcrCommit(p)
  <2>1. PICK text \in OcrResults :
         files' = [files EXCEPT ![sess[p].file] =
                     Merge(@, sess[p].fileLoaded, [sess[p].fileMine EXCEPT !.text = text])]
    BY <1>6 DEF OcrCommit
  <2>2. pc[p] = "ocr" /\ pc'[p] = "idle" /\ sess[p].file = f
    BY <1>1, <1>6, <2>1 DEF OcrCommit, Finish, Continue
  <2> QED
    BY <1>1, <2>1, <2>2 DEF WritesFile
<1> QED
  BY <1>2, <1>3, <1>4, <1>5, <1>6

LEMMA FileWrites ==
    ASSUME IInv, [Next]_vars, NEW f \in FileIds, files'[f] # files[f]
    PROVE  \E p \in Procs : WritesFile(p, f)
<1>1. ASSUME NEW l \in Loops, LoopStart(l) \/ LoopStep(l)
      PROVE  UploadCommit(l) \/ DeleteCommit(l)
  BY <1>1, FilesStay DEF LoopStep
<1>2. ASSUME NEW t \in Threads, ThreadStart(t) \/ ThreadStep(t)
      PROVE  IngestCommit(t) \/ IngestFail(t) \/ OcrCommit(t)
  BY <1>2, FilesStay DEF ThreadStep
<1>3. PICK p \in Procs :
        UploadCommit(p) \/ DeleteCommit(p) \/ IngestCommit(p) \/ IngestFail(p) \/ OcrCommit(p)
  BY <1>1, <1>2, FilesStay DEF Next, Procs, ClientPut, Quiet, vars
<1> QED
  BY <1>3, FileWritten

KeepsFile(p) ==
    LET s == sess[p]
        t == sess'[p]
    IN /\ t.file = s.file /\ t.fileLoaded = s.fileLoaded
       /\ \/ t.fileMine.text = s.fileMine.text
          \/ \E text \in Texts : t.fileMine.text = Cached(s.fileMine.text, text)
       /\ pc'[p] = "ocr" => pc[p] = "ocr"
       /\ Ingesting(p)' => Ingesting(p)

HasNoFile(p) ==
    /\ sess'[p].fileLoaded = NoFile /\ sess'[p].fileMine.text = Blank
    /\ pc'[p] # "ocr" /\ ~Ingesting(p)'

LoadsFile(p, f) ==
    /\ sess'[p].file = f /\ sess'[p].fileLoaded = files[f] /\ files' = files
    /\ sess'[p].fileMine.text = files[f].text
    /\ pc'[p] = "ocr" => "ocr" \in Requests

InsertsFile(p, f) ==
    /\ pc[p] = "curate" /\ pc'[p] = "process"
    /\ sess'[p].file = f /\ sess'[p].fileLoaded = sess[p].fileLoaded
    /\ sess'[p].fileMine.text = sess[p].rawLoaded.text

LEMMA StartsFile ==
    ASSUME IInv, NEW p \in Procs, LoopStart(p) \/ ThreadStart(p)
    PROVE  KeepsFile(p) \/ HasNoFile(p) \/ \E f \in FileIds : LoadsFile(p, f)
<1> USE DEF Begin
<1>1. TypeOK /\ p \in DOMAIN pc /\ p \in DOMAIN sess
  BY DEF IInv, TypeOK
<1>2. CASE LandSave(p)
  <2>1. PICK r, row : Begin(p, "land", "land", [NoSession EXCEPT !.raw = r, !.rawMine = row])
    BY <1>2 DEF LandSave
  <2> QED
    BY <1>1, <2>1 DEF HasNoFile, NoSession, NoFile, Ingesting
<1>3. CASE Presign(p)
  BY <1>3 DEF Presign, KeepsFile, Ingesting
<1>4. CASE UploadSave(p)
  <2>1. PICK f, c, cat :
          Begin(p, "upload", "upload",
                [NoSession EXCEPT !.file = f,
                      !.fileMine = [NoFile EXCEPT !.status = "pending", !.path = f,
                                                  !.category = cat]])
    BY <1>4 DEF UploadSave
  <2> QED
    BY <1>1, <2>1 DEF HasNoFile, NoSession, NoFile, Ingesting
<1>5. ASSUME NEW r \in RawIds, ConfirmLoad(p, r) \/ EtlLoad(p, r)
      PROVE  HasNoFile(p)
  <2>1. CASE ConfirmLoad(p, r)
    BY <1>1, <2>1 DEF ConfirmLoad, HasNoFile, NoSession, NoFile, Ingesting
  <2>2. CASE EtlLoad(p, r)
    BY <1>1, <2>2 DEF EtlLoad, HasNoFile, NoSession, NoFile, Ingesting
  <2> QED
    BY <1>5, <2>1, <2>2
<1>6. ASSUME NEW f \in FileIds, IngestLoad(p, f) \/ OcrLoad(p, f)
      PROVE  LoadsFile(p, f)
  BY <1>1, <1>6 DEF IngestLoad, OcrLoad, LoadsFile, NoSession, store
<1>7. ASSUME NEW f \in FileIds, DeleteObject(p, f)
      PROVE  LoadsFile(p, f)
  <2>1. [files[f] EXCEPT !.archived = TRUE].text = files[f].text
    BY <1>1 DEF TypeOK, FileRow
  <2> QED
    BY <1>1, <1>7, <2>1 DEF DeleteObject, LoadsFile, NoSession
<1> QED
  BY <1>2, <1>3, <1>4, <1>5, <1>6, <1>7 DEF LoopStart, ThreadStart

LEMMA ContinuesFile ==
    ASSUME IInv, NEW p \in Procs, LoopStep(p) \/ ThreadStep(p) \/ Abort(p)
    PROVE  \/ KeepsFile(p) \/ HasNoFile(p)
           \/ \E f \in FileIds : LoadsFile(p, f) \/ InsertsFile(p, f)
<1> DEFINE s == sess[p]
<1>1. /\ TypeOK /\ p \in DOMAIN pc /\ p \in DOMAIN sess
      /\ s \in Session /\ s.rawLoaded \in RawRow /\ s.fileMine \in FileRow
  BY InHand DEF IInv, TypeOK
<1>2. ASSUME NEW from, Finish(p, from)
      PROVE  HasNoFile(p)
  BY <1>1, <1>2 DEF Finish, Continue, HasNoFile, NoSession, NoFile, Ingesting
<1>3. ASSUME NEW from, NEW to, NEW session, Continue(p, from, to, session), to # "ocr",
             to \in {"process", "extract", "commit"} => from \in {"process", "extract"},
             session.file = s.file, session.fileLoaded = s.fileLoaded,
             \/ session.fileMine.text = s.fileMine.text
             \/ \E text \in Texts : session.fileMine.text = Cached(s.fileMine.text, text)
      PROVE  KeepsFile(p)
  <2>1. pc[p] = from /\ pc'[p] = to /\ sess'[p] = session
    BY <1>1, <1>3 DEF Continue
  <2> QED
    BY <1>3, <2>1 DEF KeepsFile, Ingesting
<1>4. CASE EtlClaim(p)
  BY <1>3, <1>4 DEF EtlClaim
<1>5. CASE EtlCurate(p)
  <2>1. CASE s.rawLoaded.link # None
    <3> DEFINE f == s.rawLoaded.link
               a == [s EXCEPT !.file = f, !.fileLoaded = files[f], !.fileMine = files[f]]
    <3>1. Continue(p, "curate", "process", a) /\ files' = files
      BY <1>5, <2>1 DEF EtlCurate, store
    <3>2. f \in FileIds
      BY <1>1, <2>1 DEF RawRow
    <3>3. a.file = f /\ a.fileLoaded = files[f] /\ a.fileMine = files[f]
      BY <1>1 DEF Session
    <3> HIDE DEF a
    <3>4. LoadsFile(p, f)
      BY <1>1, <3>1, <3>3 DEF Continue, LoadsFile
    <3> QED
      BY <3>2, <3>4
  <2>2. CASE s.rawLoaded.link = None
    <3>1. PICK f \in FreshFiles :
               Continue(p, "curate", "process",
                        [s EXCEPT !.file = f, !.rawMine.link = f,
                                  !.fileMine = [NoFile EXCEPT !.status = "pending",
                                                              !.path = s.raw,
                                                              !.text = s.rawLoaded.text,
                                                              !.category = s.rawLoaded.category]])
      BY <1>5, <2>2 DEF EtlCurate
    <3> DEFINE row == [NoFile EXCEPT !.status = "pending", !.path = s.raw,
                                     !.text = s.rawLoaded.text,
                                     !.category = s.rawLoaded.category]
               a == [s EXCEPT !.file = f, !.rawMine.link = f, !.fileMine = row]
    <3>2. a.file = f /\ a.fileLoaded = s.fileLoaded /\ a.fileMine = row
      BY <1>1 DEF Session
    <3>3. Continue(p, "curate", "process", a) /\ f \in FileIds
      BY <3>1 DEF FreshFiles
    <3> HIDE DEF a
    <3>4. row.text = s.rawLoaded.text
      BY DEF NoFile
    <3>5. InsertsFile(p, f)
      BY <1>1, <3>2, <3>3, <3>4 DEF Continue, InsertsFile
    <3> QED
      BY <3>3, <3>5
  <2> QED
    BY <2>1, <2>2
<1>6. CASE IngestFlush(p)
  <2> DEFINE a == [s EXCEPT !.fileMine.status = "processing"]
  <2>1. Continue(p, "process", "extract", a)
    BY <1>6 DEF IngestFlush
  <2>2. a.file = s.file /\ a.fileLoaded = s.fileLoaded /\ a.fileMine.text = s.fileMine.text
    BY <1>1 DEF Session, FileRow
  <2> HIDE DEF a
  <2> QED
    BY <1>3, <2>1, <2>2
<1>t. TextOf(s) \subseteq Texts
  BY <1>1, IdsAssumption DEF TextOf, FileRow
<1>7. CASE Extract(p)
  <2>1. PICK text \in TextOf(s), i \in EntityOf(s) :
          Continue(p, "extract", "commit",
                  [s EXCEPT !.fileMine.text = Cached(@, text),
                            !.fileMine.extracted = TRUE,
                            !.fileMine.status = "ingested",
                            !.fileMine.entity = i,
                            !.invoice = IF i = s.fileMine.entity THEN None ELSE i])
    BY <1>7 DEF Extract
  <2> DEFINE row == [s.fileMine EXCEPT !.text = Cached(@, text), !.extracted = TRUE,
                                       !.status = "ingested", !.entity = i]
             a == [s EXCEPT !.fileMine.text = Cached(@, text),
                            !.fileMine.extracted = TRUE,
                            !.fileMine.status = "ingested",
                            !.fileMine.entity = i,
                            !.invoice = IF i = s.fileMine.entity THEN None ELSE i]
  <2>2. a.file = s.file /\ a.fileLoaded = s.fileLoaded /\ a.fileMine = row
    BY <1>1 DEF Session, FileRow
  <2>3. Continue(p, "extract", "commit", a)
    BY <2>1
  <2>4. row.text = Cached(s.fileMine.text, text)
    BY <1>1 DEF FileRow
  <2> HIDE DEF a, row
  <2> QED
    BY <1>3, <1>t, <2>2, <2>3, <2>4
<1>8. CASE ExtractRaises(p)
  <2>1. PICK text \in {s.fileMine.text} \cup {Cached(s.fileMine.text, x) : x \in TextOf(s)} :
          Continue(p, "extract", IF Inserted(s) THEN "reload" ELSE "fail",
                   [s EXCEPT !.fileMine.text = text])
    BY <1>8 DEF ExtractRaises
  <2> DEFINE a == [s EXCEPT !.fileMine.text = text]
  <2>2. a.file = s.file /\ a.fileLoaded = s.fileLoaded /\ a.fileMine.text = text
    BY <1>1 DEF Session, FileRow
  <2>3. Continue(p, "extract", IF Inserted(s) THEN "reload" ELSE "fail", a)
    BY <2>1
  <2> HIDE DEF a
  <2>4. PICK to \in {"reload", "fail"} : Continue(p, "extract", to, a)
    BY <2>3
  <2>5. text = s.fileMine.text \/ \E x \in Texts : text = Cached(s.fileMine.text, x)
    BY <1>t, <2>1
  <2> QED
    BY <1>3, <2>2, <2>4, <2>5
<1>9. CASE IngestCommit(p)
  <2> DEFINE a == [s EXCEPT !.ok = TRUE, !.invoice = None]
  <2>1. AfterIngest(p, "commit", a)
    BY <1>9 DEF IngestCommit
  <2>2. a.file = s.file /\ a.fileLoaded = s.fileLoaded /\ a.fileMine = s.fileMine
    BY <1>1 DEF Session
  <2> HIDE DEF a
  <2> QED
    BY <1>2, <1>3, <2>1, <2>2 DEF AfterIngest
<1>10. CASE IngestFail(p)
  BY <1>2, <1>3, <1>10 DEF IngestFail, AfterIngest
<1>11. CASE EtlReload(p)
  <2>1. PICK loaded, mine : Continue(p, "reload", "finish",
                                     [s EXCEPT !.rawLoaded = loaded, !.rawMine = mine])
    BY <1>11 DEF EtlReload
  <2> DEFINE a == [s EXCEPT !.rawLoaded = loaded, !.rawMine = mine]
  <2>2. a.file = s.file /\ a.fileLoaded = s.fileLoaded /\ a.fileMine = s.fileMine
    BY <1>1 DEF Session
  <2> HIDE DEF a
  <2> QED
    BY <1>3, <2>1, <2>2 DEF a
<1>12. CASE LoopStep(p) \/ EtlFinish(p) \/ OcrCommit(p) \/ OcrRaises(p) \/ Abort(p)
  BY <1>2, <1>12 DEF LoopStep, LandCommit, ConfirmCommit, UploadCommit, DeleteCommit, EtlFinish,
     OcrCommit, OcrRaises, Abort
<1> QED
  BY <1>4, <1>5, <1>6, <1>7, <1>8, <1>9, <1>10, <1>11, <1>12 DEF ThreadStep

LEMMA FileSessions ==
    ASSUME IInv, [Next]_vars, NEW p \in Procs
    PROVE  \/ KeepsFile(p) \/ HasNoFile(p)
           \/ \E f \in FileIds : LoadsFile(p, f) \/ InsertsFile(p, f)
<1>1. ASSUME pc'[p] = pc[p], sess'[p] = sess[p]
      PROVE  KeepsFile(p)
  BY <1>1 DEF KeepsFile, Ingesting
<1> QED
  BY <1>1, OwnOrOther, StartsFile, ContinuesFile DEF IInv

-----------------------------------------------------------------------------

LEMMA StepFileTexts ==
    ASSUME IInv, [Next]_vars, TextsAreReal, NEW f \in FileIds
    PROVE  files'[f].text # OcrError
<1>1. \A p \in Procs : TextsInHand(p) /\ sess[p].fileMine.text # OcrError
  BY DEF TextsAreReal, TextsInHand
<1>2. files[f].text # OcrError /\ files[f] \in FileRow
  BY InHand DEF TextsAreReal, NoErrorTextCached, IInv, TypeOK
<1>3. ASSUME NEW p \in Procs, WritesFile(p, f)
      PROVE  files'[f].text # OcrError
  <2> DEFINE m == Merge(files[f], sess[p].fileLoaded, sess[p].fileMine)
  <2>1. m \in FileRow /\ m.text \in {files[f].text, sess[p].fileMine.text}
    BY <1>2, InHand, MergedText, MergeFile
  <2>2. [m EXCEPT !.status = "ingested"].text = m.text
    BY <2>1 DEF FileRow
  <2>3. [files[f] EXCEPT !.status = "failed"].text = files[f].text
    BY <1>2 DEF FileRow
  <2>4. files'[f] \in {sess[p].fileMine, m, [m EXCEPT !.status = "ingested"],
                        [files[f] EXCEPT !.status = "failed"]}
    BY <1>1, <1>3 DEF WritesFile, TextsInHand
  <2> HIDE DEF m
  <2> QED
    BY <1>1, <1>2, <2>1, <2>2, <2>3, <2>4
<1> QED
  BY <1>2, <1>3, FileWrites

LEMMA StepFileTextsInHand ==
    ASSUME "ocr" \notin Requests, IInv, [Next]_vars, TextsAreReal, NEW p \in Procs
    PROVE  /\ pc'[p] # "ocr"
           /\ sess'[p].fileLoaded.text # OcrError /\ sess'[p].fileMine.text # OcrError
<1>1. TextsInHand(p)
  BY DEF TextsAreReal
<1>2. CASE KeepsFile(p)
  BY <1>1, <1>2, CachedIsReal DEF KeepsFile, TextsInHand
<1>3. CASE HasNoFile(p)
  BY <1>3, NullTexts DEF HasNoFile, Blank, OcrError
<1>4. ASSUME NEW f \in FileIds, LoadsFile(p, f)
      PROVE  /\ pc'[p] # "ocr"
             /\ sess'[p].fileLoaded.text # OcrError /\ sess'[p].fileMine.text # OcrError
  BY <1>4 DEF LoadsFile, TextsAreReal, NoErrorTextCached
<1>5. ASSUME NEW f \in FileIds, InsertsFile(p, f)
      PROVE  /\ pc'[p] # "ocr"
             /\ sess'[p].fileLoaded.text # OcrError /\ sess'[p].fileMine.text # OcrError
  BY <1>1, <1>5 DEF InsertsFile, TextsInHand
<1> QED
  BY <1>2, <1>3, <1>4, <1>5, FileSessions

LEMMA InitTextsAreReal == Init => TextsAreReal
BY NullTexts DEF Init, TextsAreReal, NoErrorTextCached, TextsInHand

LEMMA StepTextsAreReal ==
    ASSUME "ocr" \notin Requests, IInv, [Next]_vars, TextsAreReal
    PROVE  TextsAreReal'
<1>1. NoErrorTextCached'
  BY StepRawTexts, StepFileTexts DEF NoErrorTextCached
<1>2. ASSUME NEW p \in Procs
      PROVE  TextsInHand(p)'
  BY <1>2, StepRawTextsInHand, StepFileTextsInHand DEF TextsInHand
<1> QED
  BY <1>1, <1>2 DEF TextsAreReal

\* ETL and ingestion never cache what the text acquisition says instead of raising, nor pass
\* it on from a manifest to its file or back.
THEOREM NoErrorIsCached ==
    ASSUME "ocr" \notin Requests
    PROVE  Spec => []NoErrorTextCached
<1>1. TextsAreReal => NoErrorTextCached
  BY DEF TextsAreReal
<1>2. Init => TextsAreReal
  BY InitTextsAreReal
<1>3. IInv /\ TextsAreReal /\ [Next]_vars => TextsAreReal'
  BY StepTextsAreReal
<1> QED
  BY <1>1, <1>2, <1>3, Invariance, PTL DEF Spec

-----------------------------------------------------------------------------
(* One thread: what an ingestion has loaded is still so when it commits. *)

\* The thread that is at work is the only one there is.
LEMMA Alone ==
    ASSUME OneThread, Serial, NEW p \in Procs, NEW q \in Procs,
           pc[p] \in ThreadSteps \ LoopSteps, pc[q] \in ThreadSteps \ LoopSteps
    PROVE  p = q
BY DEF OneThread, Serial, InPlace, Procs

\* Links are set when a transaction that promotes commits, and never changed.
LEMMA LinkWritten ==
    ASSUME IInv, [Next]_vars, NEW r \in RawIds, raws'[r].link # raws[r].link
    PROVE  \E q \in Procs : /\ pc[q] = "commit" /\ sess[q].raw = r /\ sess[q].rawLoaded.link = None
                            /\ Inserted(sess[q]) /\ raws'[r].link = sess[q].file
                            /\ pc'[q] \in {"idle", "reload"}
<1>1. ASSUME NEW q \in Procs, raws[r] = NoRaw, pc[q] = "land", sess[q].raw = r,
             raws'[r] = sess[q].rawMine
      PROVE  FALSE
  <2>1. sess[q].rawMine.link = None
    BY <1>1, InHand DEF Sound, InsertsAreOwn
  <2> QED
    BY <1>1, <2>1 DEF NoRaw
<1>2. ASSUME NEW q \in Procs, pc[q] \in {"confirm", "commit", "finish"}, sess[q].raw = r,
             raws'[r] = Merge(raws[r], sess[q].rawLoaded, sess[q].rawMine)
      PROVE  /\ pc[q] = "commit" /\ Inserted(sess[q]) /\ sess[q].rawLoaded.link = None
             /\ raws'[r].link = sess[q].file
  <2>1. /\ raws'[r].link = IF sess[q].rawMine.link = sess[q].rawLoaded.link
                             THEN raws[r].link ELSE sess[q].rawMine.link
        /\ r # None /\ RawCopyIsSound(q)
    BY <1>2, InHand, MergedRaw DEF Sound
  <2> QED
    BY <1>2, <2>1 DEF RawCopyIsSound, Ingesting
<1> QED
  BY <1>1, <1>2, RawWrites DEF NoRaw

\* Files are given an entity, and a path, only by a transaction that inserts the one or
\* the other.
LEMMA FileChanged ==
    ASSUME IInv, [Next]_vars, NEW f \in FileIds, NEW p \in Procs, WritesFile(p, f)
    PROVE  \/ pc[p] = "upload" /\ files[f] = NoFile /\ files'[f] = sess[p].fileMine
           \/ pc[p] = "commit" /\ files[f] = NoFile /\ files'[f] = sess[p].fileMine
                /\ Inserted(sess[p])
           \/ /\ files'[f].path = files[f].path
              /\ files'[f].entity # files[f].entity => pc[p] = "commit"
<1> DEFINE s == sess[p]
           m == Merge(files[f], s.fileLoaded, s.fileMine)
<1>1. /\ s.fileLoaded \in FileRow /\ s.fileMine \in FileRow /\ files[f] \in FileRow
      /\ Sound(p) /\ OcrResults \subseteq Texts /\ s.file = f /\ f # None
  BY InHand, IdsAssumption DEF WritesFile
<1>m. m \in FileRow
  BY <1>1, MergeFile
<1>2. /\ m.path = IF s.fileMine.path = s.fileLoaded.path THEN files[f].path ELSE s.fileMine.path
      /\ m.entity = IF s.fileMine.entity = s.fileLoaded.entity THEN files[f].entity
                                                               ELSE s.fileMine.entity
  BY <1>1, MergeFileFacts
<1>3. CASE pc[p] = "upload" \/ (pc[p] = "commit" /\ Inserted(s))
  <2>1. files[f] = NoFile
    BY <1>1, <1>3 DEF Sound, InsertsAreOwn, Ingesting
  <2> QED
    BY <1>3, <2>1 DEF WritesFile
<1>4. CASE pc[p] = "commit" /\ ~Inserted(s)
  <2>1. s.fileMine.path = s.fileLoaded.path
    BY <1>1, <1>4 DEF Sound, FileCopyIsSound, Ingesting
  <2>2. files'[f] = [m EXCEPT !.status = "ingested"]
    BY <1>4 DEF WritesFile
  <2> HIDE DEF m
  <2>3. files'[f].path = m.path
    BY <1>m, <2>2 DEF FileRow
  <2> QED
    BY <1>2, <1>4, <2>1, <2>3
<1>5. CASE pc[p] = "delete"
  <2>1. s.fileMine.path = s.fileLoaded.path /\ s.fileMine.entity = s.fileLoaded.entity
    BY <1>1, <1>5 DEF Sound, FileCopyIsSound, InsertsAreOwn
  <2> QED
    BY <1>2, <1>5, <2>1 DEF WritesFile
<1>6. CASE pc[p] = "ocr"
  <2>1. PICK text \in OcrResults :
          files'[f] = Merge(files[f], s.fileLoaded, [s.fileMine EXCEPT !.text = text])
    BY <1>6 DEF WritesFile
  <2> DEFINE mine == [s.fileMine EXCEPT !.text = text]
  <2>2. mine \in FileRow /\ mine.path = s.fileMine.path /\ mine.entity = s.fileMine.entity
    BY <1>1, <2>1 DEF FileRow
  <2>3. s.fileMine.path = s.fileLoaded.path /\ s.fileMine.entity = s.fileLoaded.entity
    BY <1>1, <1>6 DEF Sound, FileCopyIsSound, InsertsAreOwn
  <2> HIDE DEF mine
  <2>4. files'[f] = Merge(files[f], s.fileLoaded, mine)
    BY <2>1 DEF mine
  <2> QED
    BY <1>1, <2>2, <2>3, <2>4, MergeFileFacts
<1>7. CASE pc[p] = "fail"
  <2>1. files'[f] = [files[f] EXCEPT !.status = "failed"]
    BY <1>7 DEF WritesFile
  <2> QED
    BY <1>1, <2>1 DEF FileRow
<1> QED
  BY <1>3, <1>4, <1>5, <1>6, <1>7 DEF WritesFile

LEMMA StepStillTheSameLink ==
    ASSUME OneThread, IInv, [Next]_vars, Serial, NEW p \in Procs,
           pc'[p] \in Promoting, sess'[p].raw # None, sess'[p].rawLoaded.link = None
    PROVE  raws'[sess'[p].raw].link = None
<1>1. CASE KeepsManifest(p)
  <2> DEFINE r == sess[p].raw
  <2>1. pc[p] \in Promoting /\ sess'[p].raw = r /\ r \in RawIds /\ sess[p].rawLoaded.link = None
    BY <1>1, InHand DEF KeepsManifest
  <2>2. raws[r].link = None
    BY <1>1, <2>1 DEF Serial, StillTheSame, KeepsManifest
  <2>3. ASSUME NEW q \in Procs, pc[q] = "commit", pc'[q] \in {"idle", "reload"}
        PROVE  FALSE
    <3>1. p = q
      BY <2>1, <2>3, Alone DEF Promoting, ThreadSteps, LoopSteps
    <3> QED
      BY <2>3, <3>1 DEF Promoting
  <2> QED
    BY <2>1, <2>2, <2>3, LinkWritten
<1>2. CASE HasNoManifest(p)
  BY <1>2 DEF HasNoManifest
<1>3. ASSUME NEW r \in RawIds, Lands(p, r) \/ Loads(p, r)
      PROVE  raws'[sess'[p].raw].link = None
  BY <1>3 DEF Lands, Loads, Promoting
<1> QED
  BY <1>1, <1>2, <1>3, RawSessions

LEMMA StepStillTheSameEntity ==
    ASSUME OneThread, IInv, [Next]_vars, Serial, NEW p \in Procs,
           Ingesting(p)', ~Inserted(sess'[p]), sess'[p].fileLoaded.entity = None
    PROVE  files'[sess'[p].file].entity = None
<1>1. CASE KeepsFile(p)
  <2> DEFINE f == sess[p].file
  <2>1. /\ Ingesting(p) /\ sess'[p].file = f /\ f \in FileIds /\ ~Inserted(sess[p])
        /\ sess[p].fileLoaded.entity = None
    BY <1>1, InHand DEF KeepsFile, Sound, RowsInHand, Ingesting, Inserted
  <2>2. files[f].entity = None
    BY <2>1 DEF Serial, StillTheSame
  <2>3. ASSUME NEW q \in Procs, WritesFile(q, f), files'[f].entity # None
        PROVE  FALSE
    <3>1. q # p
      BY <2>1, <2>3 DEF WritesFile, Ingesting
    <3>2. files[f] # NoFile
      BY <2>1, InHand DEF Sound, FileCopyIsSound, NoFile
    <3>3. pc[q] = "commit"
      BY <2>1, <2>2, <2>3, <3>2, FileChanged
    <3> QED
      BY <2>1, <3>1, <3>3, Alone DEF Ingesting, ThreadSteps, LoopSteps
  <2> QED
    BY <2>1, <2>2, <2>3, FileWrites
<1>2. CASE HasNoFile(p)
  BY <1>2 DEF HasNoFile
<1>3. ASSUME NEW f \in FileIds, LoadsFile(p, f)
      PROVE  files'[sess'[p].file].entity = None
  BY <1>3 DEF LoadsFile
<1>4. ASSUME NEW f \in FileIds, InsertsFile(p, f)
      PROVE  FALSE
  BY <1>4, InHand DEF InsertsFile, Sound, FileCopyIsSound, Inserted
<1> QED
  BY <1>1, <1>2, <1>3, <1>4, FileSessions

LEMMA ToCommit ==
    ASSUME IInv, [Next]_vars, NEW p \in Procs, pc'[p] = "commit"
    PROVE  (pc'[p] = pc[p] /\ sess'[p] = sess[p]) \/ Extract(p)
<1>1. TypeOK /\ p \in DOMAIN pc
  BY DEF IInv, TypeOK
<1>2. ASSUME NEW from, NEW to, NEW s, Continue(p, from, to, s) \/ Finish(p, from), to # "commit"
      PROVE  FALSE
  BY <1>1, <1>2 DEF Finish, Continue
<1>3. ASSUME NEW kind, NEW to, NEW s, Begin(p, kind, to, s), to # "commit"
      PROVE  FALSE
  BY <1>1, <1>3 DEF Begin
<1>4. CASE LoopStart(p)
  BY <1>3, <1>4 DEF LoopStart, LandSave, Presign, UploadSave, ConfirmLoad, DeleteObject
<1>5. CASE ThreadStart(p)
  BY <1>3, <1>5 DEF ThreadStart, EtlLoad, IngestLoad, OcrLoad
<1>6. CASE LoopStep(p) \/ Abort(p)
  BY <1>2, <1>6 DEF LoopStep, LandCommit, ConfirmCommit, UploadCommit, DeleteCommit, Abort
<1>7. CASE EtlClaim(p) \/ EtlCurate(p) \/ IngestFlush(p) \/ EtlReload(p)
  <2>1. pc'[p] \in {"curate", "process", "extract", "finish"}
    BY <1>1, <1>7 DEF EtlClaim, EtlCurate, IngestFlush, EtlReload, Continue
  <2> QED
    BY <2>1
<1>8. CASE ExtractRaises(p) \/ IngestCommit(p) \/ IngestFail(p) \/ EtlFinish(p) \/ OcrCommit(p)
             \/ OcrRaises(p)
  <2>1. pc'[p] \in {"reload", "fail", "idle"}
    BY <1>1, <1>8 DEF ExtractRaises, IngestCommit, IngestFail, AfterIngest, EtlFinish, OcrCommit,
       OcrRaises, Finish, Continue
  <2> QED
    BY <2>1
<1> QED
  BY <1>1, <1>4, <1>5, <1>6, <1>7, <1>8, OwnOrOther DEF ThreadStep

\* An e-invoice is inserted only for a file that was loaded without one.
LEMMA StepInvoice ==
    ASSUME IInv, [Next]_vars, NEW p \in Procs, sess'[p].invoice # None,
           sess[p].invoice # None => sess[p].fileLoaded.entity = None
    PROVE  sess'[p].fileLoaded.entity = None
<1>1. pc'[p] = "commit"
  <2>1. IInv'
    BY StepIInv
  <2> QED
    BY <2>1 DEF IInv, Sound, InsertsAreOwn
<1>2. CASE pc'[p] = pc[p] /\ sess'[p] = sess[p]
  BY <1>2
<1>3. CASE Extract(p)
  <2> DEFINE s == sess[p]
  <2>1. PICK text \in TextOf(s), i \in EntityOf(s) :
          Continue(p, "extract", "commit",
                  [s EXCEPT !.fileMine.text = Cached(@, text),
                            !.fileMine.extracted = TRUE,
                            !.fileMine.status = "ingested",
                            !.fileMine.entity = i,
                            !.invoice = IF i = s.fileMine.entity THEN None ELSE i])
    BY <1>3 DEF Extract
  <2> DEFINE a == [s EXCEPT !.fileMine.text = Cached(@, text),
                            !.fileMine.extracted = TRUE,
                            !.fileMine.status = "ingested",
                            !.fileMine.entity = i,
                            !.invoice = IF i = s.fileMine.entity THEN None ELSE i]
  <2>2. pc[p] = "extract" /\ sess'[p] = a
    BY <2>1 DEF Continue, IInv, TypeOK
  <2>3. s \in Session /\ s.fileMine.entity = s.fileLoaded.entity
    BY <2>2, InHand DEF Sound, FileCopyIsSound
  <2>4. /\ a.fileLoaded = s.fileLoaded
        /\ a.invoice = IF i = s.fileMine.entity THEN None ELSE i
    BY <2>3 DEF Session
  <2> HIDE DEF a
  <2>5. i # s.fileMine.entity
    BY <2>2, <2>4
  <2> QED
    BY <2>1, <2>2, <2>3, <2>4, <2>5 DEF EntityOf
<1> QED
  BY <1>1, <1>2, <1>3, ToCommit

\* A file that is over a document after the step was, or is inserted by its promotion.
LEMMA PathWritten ==
    ASSUME IInv, [Next]_vars, \A p \in Procs : InPlace(p), NEW f \in FileIds,
           files'[f].path # files[f].path, files'[f].path \in RawIds
    PROVE  \E p \in Procs : /\ IngestCommit(p) /\ pc[p] = "commit" /\ sess[p].file = f
                            /\ Inserted(sess[p]) /\ files[f] = NoFile
                            /\ sess[p].raw = files'[f].path
<1>1. PICK p \in Procs : WritesFile(p, f)
  BY FileWrites
<1>2. /\ pc[p] \in {"upload", "commit"} /\ Inserted(sess[p]) /\ files[f] = NoFile
      /\ files'[f] = sess[p].fileMine /\ sess[p].file = f
  BY <1>1, InHand, FileChanged DEF Sound, InsertsAreOwn, WritesFile
<1>3. sess[p].fileMine.path = IF sess[p].raw = None THEN f ELSE sess[p].raw
  BY <1>2, InHand DEF Sound, InsertsAreOwn, Ingesting
<1>4. sess[p].raw # None /\ sess[p].raw = files'[f].path
  BY <1>2, <1>3, IdsAssumption
<1>5. pc[p] = "commit"
  BY <1>2, <1>4 DEF InPlace
<1> QED
  BY <1>1, <1>2, <1>4, <1>5 DEF WritesFile

\* The transaction that inserts a file over a document links the document to it.
LEMMA InsertedIsLinked ==
    ASSUME IInv, NEW p \in Procs, IngestCommit(p), pc[p] = "commit", Inserted(sess[p]),
           sess[p].raw # None
    PROVE  raws'[sess[p].raw].link = sess[p].file
<1> DEFINE s == sess[p]
<1>1. /\ s.raw \in RawIds /\ s.file \in FileIds /\ s.file # None
      /\ s.rawMine.link = s.file /\ s.rawLoaded.link = None
  BY InHand DEF Sound, RowsInHand, RawCopyIsSound, Ingesting
<1>2. raws'[s.raw] = Merge(raws[s.raw], s.rawLoaded, s.rawMine)
  BY <1>1 DEF IngestCommit, IInv, TypeOK
<1>3. raws'[s.raw].link = s.rawMine.link
  BY <1>1, <1>2, InHand, MergedRaw
<1> QED
  BY <1>1, <1>3

LEMMA StepPromotedIsLinked ==
    ASSUME IInv, [Next]_vars, Serial
    PROVE  PromotedIsLinked'
<1> SUFFICES ASSUME NEW f \in FileIds, files'[f].path \in RawIds
             PROVE  raws'[files'[f].path].link = f
  BY DEF PromotedIsLinked
<1>1. CASE files'[f].path = files[f].path
  <2> DEFINE r == files[f].path
  <2>1. raws[r].link = f /\ r \in RawIds /\ f # None
    BY <1>1, IdsAssumption DEF Serial, PromotedIsLinked
  <2>2. ASSUME NEW q \in Procs, pc[q] = "commit", sess[q].raw = r, sess[q].rawLoaded.link = None
        PROVE  FALSE
    BY <2>1, <2>2, InHand DEF Serial, StillTheSame, Promoting
  <2> QED
    BY <1>1, <2>1, <2>2, LinkWritten
<1>2. CASE files'[f].path # files[f].path
  BY <1>2, PathWritten, InsertedIsLinked, InHand DEF Serial
<1> QED
  BY <1>1, <1>2

LEMMA InitSerial == Init => Serial
<1> SUFFICES ASSUME Init PROVE Serial
  OBVIOUS
<1>1. PromotedIsLinked
  BY IdsAssumption DEF Init, PromotedIsLinked, NoFile
<1>2. ASSUME NEW p \in Procs
      PROVE  StillTheSame(p)
  BY <1>2 DEF Init, StillTheSame, Promoting, Ingesting, NoSession
<1> QED
  BY <1>1, <1>2, InitInPlace DEF Serial

LEMMA StepSerial ==
    ASSUME OneThread, IInv, [Next]_vars, Serial
    PROVE  Serial'
<1>1. ASSUME NEW p \in Procs
      PROVE  InPlace(p)' /\ StillTheSame(p)'
  BY <1>1, StepInPlace, StepStillTheSameLink, StepStillTheSameEntity, StepInvoice
     DEF StillTheSame, Serial
<1> QED
  BY <1>1, StepPromotedIsLinked DEF Serial

\* With one thread, every file over a document is the one its manifest links to, and no
\* ingestion commits on a link or an entity that has changed since it was loaded.
THEOREM SerialInvariance ==
    ASSUME OneThread
    PROVE  Spec => []Serial
<1>1. IInv /\ Serial /\ [Next]_vars => Serial'
  BY StepSerial
<1> QED
  BY <1>1, InitSerial, Invariance, PTL DEF Spec

-----------------------------------------------------------------------------
(* One thread: the pipeline implements the ledger, step by step. *)

CuratedFiles == [r \in RawIds |-> {f \in FileIds : files[f].path = r}]
BookedInvoices == [f \in FileIds |-> {i \in InvoiceIds : invoiceOf[i] = f}]

LEMMA LedgerStarts == Init => Ledger!LedgerInit
BY IdsAssumption DEF Init, Ledger!LedgerInit, NoFile

\* Only a commit of ingestion says anything to the ledger.
LEMMA OnlyIngestionBooks ==
    ASSUME [Next]_vars, \A p \in Procs : ~IngestCommit(p)
    PROVE  invoiceOf' = invoiceOf
<1>1. ASSUME NEW p, \/ LoopStart(p) \/ LoopStep(p) \/ ThreadStart(p) \/ Abort(p)
                    \/ (ThreadStep(p) /\ ~IngestCommit(p))
      PROVE  invoiceOf' = invoiceOf
  <2>1. CASE LoopStart(p) \/ LoopStep(p)
    BY <2>1 DEF LoopStart, LoopStep, LandSave, Presign, UploadSave, ConfirmLoad, DeleteObject,
       LandCommit, ConfirmCommit, UploadCommit, DeleteCommit, store
  <2>2. CASE ThreadStart(p) \/ Abort(p)
    BY <2>2 DEF ThreadStart, EtlLoad, IngestLoad, OcrLoad, Abort, store
  <2>3. CASE ThreadStep(p) /\ ~IngestCommit(p)
    BY <2>3 DEF ThreadStep, EtlClaim, EtlCurate, IngestFlush, Extract, ExtractRaises, IngestFail,
       EtlReload, EtlFinish, OcrCommit, OcrRaises, store
  <2> QED
    BY <1>1, <2>1, <2>2, <2>3
<1> QED
  BY <1>1 DEF Next, Procs, ClientPut, Quiet, vars

LEMMA PathLost ==
    ASSUME IInv, [Next]_vars, NEW f \in FileIds, files'[f].path # files[f].path
    PROVE  files[f].path = None
<1>1. PICK p \in Procs : WritesFile(p, f)
  BY FileWrites
<1> QED
  BY <1>1, FileChanged DEF NoFile

LEMMA OtherSteps ==
    ASSUME IInv, [Next]_vars, Serial, \A p \in Procs : ~IngestCommit(p)
    PROVE  UNCHANGED <<CuratedFiles, BookedInvoices>>
<1>1. ASSUME NEW f \in FileIds, NEW r \in RawIds
      PROVE  files'[f].path = r <=> files[f].path = r
  BY <1>1, PathWritten, PathLost, IdsAssumption DEF Serial
<1>2. CuratedFiles' = CuratedFiles
  BY <1>1 DEF CuratedFiles
<1>3. BookedInvoices' = BookedInvoices
  BY OnlyIngestionBooks DEF BookedInvoices
<1> QED
  BY <1>2, <1>3

\* What a commit of ingestion says to it.
LEMMA CommitFacts ==
    ASSUME OneThread, IInv, [Next]_vars, Serial, NEW p \in Procs, IngestCommit(p)
    PROVE  LET s == sess[p] IN
           /\ pc[p] = "commit" /\ s.file \in FileIds
           /\ files[s.file].entity = None \/ s.invoice = None
           /\ s.invoice # None => s.invoice \in InvoiceIds /\ invoiceOf[s.invoice] = None
           /\ Inserted(s) => /\ s.raw \in RawIds /\ raws[s.raw].link = None
                             /\ files[s.file] = NoFile
                             /\ files'[s.file].path = s.raw
           /\ \A f \in FileIds : ~(Inserted(s) /\ f = s.file) =>
                \A r \in RawIds : files'[f].path = r <=> files[f].path = r
           /\ invoiceOf' = IF s.invoice = None THEN invoiceOf
                           ELSE [invoiceOf EXCEPT ![s.invoice] = s.file]
<1> DEFINE s == sess[p]
<1>1. pc[p] = "commit"
  BY DEF IngestCommit, AfterIngest, Finish, Continue
<1>2. s.file \in FileIds /\ Ingesting(p)
  BY <1>1, InHand DEF Sound, RowsInHand, Ingesting
<1>3. Inserted(s) => files[s.file] = NoFile
  BY <1>2, InHand DEF Sound, InsertsAreOwn
<1>4. files[s.file].entity = None \/ s.invoice = None
  BY <1>2, <1>3 DEF Serial, StillTheSame, NoFile
<1>5. s.invoice # None => s.invoice \in InvoiceIds /\ invoiceOf[s.invoice] = None
  BY InHand DEF Sound, InsertsAreOwn, Session
<1>6. ASSUME Inserted(s)
      PROVE  /\ s.raw \in RawIds /\ raws[s.raw].link = None
             /\ files'[s.file].path = s.raw
  <2>1. s.raw \in RawIds /\ s.rawLoaded.link = None /\ s.fileMine.path = s.raw
    BY <1>2, <1>6, InHand DEF Sound, RawCopyIsSound, InsertsAreOwn
  <2>2. files'[s.file] = s.fileMine
    BY <1>2, <1>6 DEF IngestCommit, IInv, TypeOK
  <2> QED
    BY <1>1, <2>1, <2>2, IdsAssumption DEF Serial, StillTheSame, Promoting
<1>7. ASSUME NEW f \in FileIds, ~(Inserted(s) /\ f = s.file), NEW r \in RawIds
      PROVE  files'[f].path = r <=> files[f].path = r
  <2>1. ASSUME NEW q \in Procs, pc[q] = "commit"
        PROVE  q = p
    BY <1>1, <2>1, Alone DEF ThreadSteps, LoopSteps
  <2> QED
    BY <1>7, <2>1, PathWritten, PathLost, IdsAssumption DEF Serial
<1>8. invoiceOf' = IF s.invoice = None THEN invoiceOf
                   ELSE [invoiceOf EXCEPT ![s.invoice] = s.file]
  BY DEF IngestCommit
<1> QED
  BY <1>1, <1>2, <1>3, <1>4, <1>5, <1>6, <1>7, <1>8

\* An e-invoice is recorded for a file that has none and is no other file's.
LEMMA CommitRecords ==
    ASSUME OneThread, IInv, [Next]_vars, Serial, NEW p \in Procs, IngestCommit(p),
           sess[p].invoice # None
    PROVE  /\ sess[p].invoice \in InvoiceIds
           /\ BookedInvoices[sess[p].file] = {}
           /\ \A g \in FileIds : sess[p].invoice \notin BookedInvoices[g]
           /\ BookedInvoices' = [BookedInvoices EXCEPT ![sess[p].file] = {sess[p].invoice}]
<1> DEFINE f == sess[p].file
           i == sess[p].invoice
<1>1. /\ f \in FileIds /\ files[f].entity = None /\ i \in InvoiceIds /\ invoiceOf[i] = None
      /\ invoiceOf' = [invoiceOf EXCEPT ![i] = f]
  BY CommitFacts
<1>2. None \notin FileIds /\ \A j \in InvoiceIds : invoiceOf[j] # f
  BY <1>1, IdsAssumption DEF IInv, LinksAreSound
<1>3. \A j \in InvoiceIds : invoiceOf'[j] = IF j = i THEN f ELSE invoiceOf[j]
  BY <1>1 DEF IInv, TypeOK
<1> HIDE DEF f, i
<1>4. BookedInvoices[f] = {} /\ \A g \in FileIds : i \notin BookedInvoices[g]
  BY <1>1, <1>2 DEF BookedInvoices
<1>5. ASSUME NEW g \in FileIds
      PROVE  BookedInvoices'[g] = IF g = f THEN {i} ELSE BookedInvoices[g]
  <2>1. CASE g = f
    BY <1>1, <1>2, <1>3, <2>1 DEF BookedInvoices
  <2>2. CASE g # f
    BY <1>1, <1>2, <1>3, <2>2 DEF BookedInvoices
  <2> QED
    BY <2>1, <2>2
<1>6. BookedInvoices' = [BookedInvoices EXCEPT ![f] = {i}]
  BY <1>5 DEF BookedInvoices
<1> QED
  BY <1>1, <1>4, <1>6 DEF f, i

LEMMA CommitPromotes ==
    ASSUME OneThread, IInv, [Next]_vars, Serial, NEW p \in Procs, IngestCommit(p),
           Inserted(sess[p])
    PROVE  /\ sess[p].raw \in RawIds
           /\ CuratedFiles[sess[p].raw] = {}
           /\ \A r \in RawIds : sess[p].file \notin CuratedFiles[r]
           /\ CuratedFiles' = [CuratedFiles EXCEPT ![sess[p].raw] = {sess[p].file}]
<1> DEFINE f == sess[p].file
           d == sess[p].raw
<1>1. /\ f \in FileIds /\ d \in RawIds /\ raws[d].link = None /\ files[f] = NoFile
      /\ files'[f].path = d
      /\ \A g \in FileIds : g # f => \A r \in RawIds : files'[g].path = r <=> files[g].path = r
  BY CommitFacts
<1>2. files[f].path = None /\ None \notin RawIds /\ None \notin FileIds
  BY <1>1, IdsAssumption DEF NoFile
<1>3. \A g \in FileIds : files[g].path # d
  BY <1>1, <1>2 DEF Serial, PromotedIsLinked
<1> HIDE DEF f, d
<1>4. CuratedFiles[d] = {} /\ \A r \in RawIds : f \notin CuratedFiles[r]
  BY <1>1, <1>2, <1>3 DEF CuratedFiles
<1>5. ASSUME NEW r \in RawIds
      PROVE  CuratedFiles'[r] = IF r = d THEN {f} ELSE CuratedFiles[r]
  <2>1. CASE r = d
    BY <1>1, <1>3, <2>1 DEF CuratedFiles
  <2>2. CASE r # d
    BY <1>1, <1>2, <2>2 DEF CuratedFiles
  <2> QED
    BY <2>1, <2>2
<1>6. CuratedFiles' = [CuratedFiles EXCEPT ![d] = {f}]
  BY <1>5 DEF CuratedFiles
<1> QED
  BY <1>1, <1>4, <1>6 DEF f, d

\* Each step is a promotion, a booking, or nothing to the ledger.
LEMMA LedgerStep ==
    ASSUME OneThread, IInv, [Next]_vars, Serial
    PROVE  [Ledger!LedgerNext]_(Ledger!ledger)
<1>1. CASE \A p \in Procs : ~IngestCommit(p)
  BY <1>1, OtherSteps DEF Ledger!ledger, CuratedFiles, BookedInvoices
<1>2. ASSUME NEW p \in Procs, IngestCommit(p)
      PROVE  [Ledger!LedgerNext]_(Ledger!ledger)
  <2>0. PICK f \in FileIds : f = sess[p].file
    BY <1>2, CommitFacts
  <2>1. PICK i : i = sess[p].invoice
    OBVIOUS
  <2>2. i # None => \E j \in InvoiceIds : Ledger!Record(f, j)
    <3> SUFFICES ASSUME i # None PROVE i \in InvoiceIds /\ Ledger!Record(f, i)
      OBVIOUS
    <3> QED
      BY <1>2, <2>0, <2>1, CommitRecords DEF Ledger!Record, BookedInvoices
  <2>3. i = None => BookedInvoices' = BookedInvoices
    <3>1. i = None => invoiceOf' = invoiceOf
      BY <1>2, <2>1, CommitFacts
    <3> QED
      BY <3>1 DEF BookedInvoices
  <2>4. CASE Inserted(sess[p])
    <3>1. PICK d \in RawIds : d = sess[p].raw
      BY <1>2, <2>4, CommitPromotes
    <3>2. /\ CuratedFiles[d] = {} /\ \A e \in RawIds : f \notin CuratedFiles[e]
          /\ CuratedFiles' = [CuratedFiles EXCEPT ![d] = {f}]
      BY <1>2, <2>0, <2>4, <3>1, CommitPromotes
    <3>3. Ledger!Promote(d, f)
      BY <2>2, <2>3, <3>2 DEF Ledger!Promote, CuratedFiles, BookedInvoices
    <3> QED
      BY <3>3 DEF Ledger!LedgerNext
  <2>5. CASE ~Inserted(sess[p])
    <3>1. CuratedFiles' = CuratedFiles
      BY <1>2, <2>5, CommitFacts DEF CuratedFiles
    <3>2. CASE i = None
      BY <2>3, <3>1, <3>2 DEF Ledger!ledger, CuratedFiles, BookedInvoices
    <3>3. CASE i # None
      <4>1. Ledger!Book(f)
        BY <2>2, <3>1, <3>3 DEF Ledger!Book, CuratedFiles
      <4> QED
        BY <4>1 DEF Ledger!LedgerNext
    <3> QED
      BY <3>2, <3>3
  <2> QED
    BY <2>4, <2>5
<1> QED
  BY <1>1, <1>2

\* With one thread the pipeline implements the ledger: however often ETL and ingestion are
\* run, whichever request dies between two commits, and whatever event loops do meanwhile,
\* a document is promoted once and a file booked once.
THEOREM SerialImplementsLedger ==
    ASSUME OneThread
    PROVE  Spec => PromotedOnce
<1>1. Init => Ledger!LedgerInit
  BY LedgerStarts
<1>2. IInv /\ Serial /\ [Next]_vars => [Ledger!LedgerNext]_(Ledger!ledger)
  BY LedgerStep
<1>3. Spec => []Serial
  BY SerialInvariance
<1>4. Spec => Ledger!LedgerInit /\ [][Ledger!LedgerNext]_(Ledger!ledger)
  BY <1>1, <1>2, <1>3, Invariance, PTL DEF Spec
<1> QED
  BY <1>4 DEF PromotedOnce, Ledger!LedgerSpec

-----------------------------------------------------------------------------
(* What parts a manifest from the bytes it describes. *)

\* What a landing has stored cannot be changed before its row is there: there is no URL for
\* it, and no file over it.
LEMMA LandingKeepsBytes ==
    ASSUME IInv, [Next]_vars, ChecksumsAreKept, NEW p \in Procs, pc[p] = "land"
    PROVE  objects'[sess[p].raw] = objects[sess[p].raw]
<1> DEFINE r == sess[p].raw
<1>1. /\ TypeOK /\ RawIds \cap FileIds = {} /\ r \in RawIds /\ r \in DOMAIN objects
      /\ raws[r] = NoRaw /\ objects[r] # None
  BY IdsAssumption, InHand DEF IInv, TypeOK, Paths, Sound, RowsInHand, InsertsAreOwn,
     ChecksumsAreKept, ChecksumInHand
<1> HIDE DEF r
<1>2. ASSUME NEW l \in Loops, LandSave(l)
      PROVE  objects'[r] = objects[r]
  <2>1. PICK q \in FreshRaws, c \in Contents : objects' = [objects EXCEPT ![q] = c]
    BY <1>2 DEF LandSave
  <2>2. q # r
    BY <1>1, <2>1 DEF FreshRaws
  <2> QED
    BY <1>1, <2>1, <2>2
<1>3. ASSUME NEW l \in Loops, UploadSave(l)
      PROVE  objects'[r] = objects[r]
  <2>1. PICK f \in FreshFiles, c \in Contents : objects' = [objects EXCEPT ![f] = c]
    BY <1>3 DEF UploadSave
  <2>2. f # r
    BY <1>1, <2>1 DEF FreshFiles
  <2> QED
    BY <1>1, <2>1, <2>2
<1>4. ASSUME NEW q \in RawIds, ClientPut(q)
      PROVE  objects'[r] = objects[r]
  <2>1. q # r
    BY <1>1, <1>4, IdsAssumption DEF ClientPut, NoRaw
  <2> QED
    BY <1>1, <1>4, <2>1 DEF ClientPut
<1>5. ASSUME NEW l \in Loops, NEW f \in FileIds, DeleteObject(l, f)
      PROVE  objects'[r] = objects[r]
  <2>1. files[f].path # r
    BY <1>1 DEF ChecksumsAreKept, NoRaw
  <2> QED
    BY <1>1, <1>5, <2>1 DEF DeleteObject
<1>6. ASSUME NEW l, Presign(l) \/ (\E q \in RawIds : ConfirmLoad(l, q)) \/ LoopStep(l) \/ Abort(l)
      PROVE  objects' = objects
  BY <1>6 DEF Presign, ConfirmLoad, LoopStep, LandCommit, ConfirmCommit, UploadCommit, DeleteCommit,
     Abort, store
<1>7. ASSUME NEW t, ThreadStart(t) \/ ThreadStep(t)
      PROVE  objects' = objects
  BY <1>7 DEF ThreadStart, EtlLoad, IngestLoad, OcrLoad, ThreadStep, EtlClaim, EtlCurate, IngestFlush,
     Extract, ExtractRaises, IngestCommit, IngestFail, EtlReload, EtlFinish, OcrCommit, OcrRaises,
     store
<1>8. objects'[r] = objects[r]
  BY <1>2, <1>3, <1>4, <1>5, <1>6, <1>7 DEF Next, LoopStart, Quiet, vars
<1> QED
  BY <1>8 DEF r

\* No file is over a document that is not there.
LEMMA StepOverDocuments ==
    ASSUME IInv, [Next]_vars, ChecksumsAreKept, NEW f \in FileIds, files'[f].path \in RawIds
    PROVE  raws'[files'[f].path].status # "absent"
<1> DEFINE r == files'[f].path
<1>1. Grows
  BY StepIInv
<1>2. CASE files'[f].path = files[f].path
  BY <1>1, <1>2 DEF ChecksumsAreKept, Grows
<1>3. CASE files'[f].path # files[f].path
  <2>1. PICK p \in Procs : pc[p] = "commit" /\ sess[p].raw = r
    BY <1>3, PathWritten DEF ChecksumsAreKept, LandingIsOnce
  <2>2. raws[r].status # "absent"
    BY <2>1, InHand DEF Sound, RawCopyIsSound
  <2> QED
    BY <1>1, <2>2 DEF Grows
<1> QED
  BY <1>2, <1>3

\* A document that waits for its upload has no checksum.
LEMMA StepUnchecked ==
    ASSUME IInv, [Next]_vars, ChecksumsAreKept, NEW r \in RawIds, raws'[r].status = "pending_upload"
    PROVE  raws'[r].checksum = None
<1>1. ASSUME NEW q \in Procs, pc[q] = "land", sess[q].raw = r, raws'[r] = sess[q].rawMine
      PROVE  FALSE
  BY <1>1 DEF ChecksumsAreKept, LandingIsOnce, HasLanded
<1>2. ASSUME NEW q \in Procs, pc[q] \in {"confirm", "commit", "finish"}, sess[q].raw = r,
             raws'[r] = Merge(raws[r], sess[q].rawLoaded, sess[q].rawMine)
      PROVE  FALSE
  <2>1. /\ raws'[r].status = IF sess[q].rawMine.status = sess[q].rawLoaded.status
                               THEN raws[r].status ELSE sess[q].rawMine.status
        /\ r # None
    BY <1>2, InHand, MergedRaw
  <2>2. HasLanded(q) /\ ChecksumInHand(q) /\ LandingIsOnce
    BY DEF ChecksumsAreKept, LandingIsOnce
  <2>3. raws[r].status \notin OnRecord
    BY <2>2, StaysOnRecord DEF OnRecord
  <2>4. pc[q] = "confirm"
    BY <1>2, <2>1, <2>2, <2>3 DEF HasLanded
  <2>5. sess[q].rawLoaded.status = "pending_upload" /\ sess[q].rawMine.status = "landed"
    BY <1>2, <2>2, <2>3, <2>4 DEF HasLanded, ChecksumInHand
  <2> QED
    BY <2>1, <2>5
<1> QED
  BY <1>1, <1>2, RawWrites DEF ChecksumsAreKept

LEMMA StepChecksum ==
    ASSUME IInv, [Next]_vars, ChecksumsAreKept, NEW p \in Procs
    PROVE  ChecksumInHand(p)'
<1>1. CASE KeepsManifest(p)
  <2> DEFINE r == sess[p].raw
  <2>1. ChecksumInHand(p) /\ sess'[p].raw = r /\ LandingIsOnce
    BY <1>1 DEF ChecksumsAreKept, KeepsManifest
  <2>2. CASE pc'[p] = "land"
    <3>1. pc[p] = "land"
      BY <1>1, <2>2 DEF KeepsManifest, LoopSteps
    <3>2. objects'[r] = objects[r]
      BY <3>1, LandingKeepsBytes
    <3> QED
      BY <1>1, <2>1, <2>2, <3>1, <3>2 DEF ChecksumInHand, KeepsManifest
  <2>3. CASE pc'[p] = "confirm"
    <3>1. pc[p] = "confirm" /\ r \in RawIds
      BY <1>1, <2>3, InHand DEF KeepsManifest, LoopSteps, Sound, RowsInHand
    <3>2. raws[r].status \in OnRecord => raws'[r].status \in OnRecord
      BY <2>1, <3>1, StaysOnRecord
    <3> QED
      BY <1>1, <2>1, <2>3, <3>1, <3>2 DEF ChecksumInHand, KeepsManifest
  <2>4. CASE pc'[p] \notin {"land", "confirm"}
    BY <1>1, <2>1, <2>4 DEF ChecksumInHand, KeepsManifest, LoopSteps
  <2> QED
    BY <2>2, <2>3, <2>4
<1>2. CASE HasNoManifest(p)
  BY <1>2 DEF HasNoManifest, ChecksumInHand
<1>3. ASSUME NEW r \in RawIds, Lands(p, r)
      PROVE  ChecksumInHand(p)'
  BY <1>3 DEF Lands, ChecksumInHand
<1>4. ASSUME NEW r \in RawIds, Loads(p, r)
      PROVE  ChecksumInHand(p)'
  <2>1. objects[r] \in Contents \cup {None}
    BY DEF IInv, TypeOK, Paths
  <2>2. raws[r].status = "pending_upload" => raws[r].checksum = None
    BY DEF ChecksumsAreKept
  <2> QED
    BY <1>4, <2>1, <2>2 DEF Loads, ChecksumInHand, Confirmable, OnRecord
<1> QED
  BY <1>1, <1>2, <1>3, <1>4, RawSessions

LEMMA InitChecksumsAreKept == Init => ChecksumsAreKept
<1> SUFFICES ASSUME Init
             PROVE  ChecksumsAreKept
  OBVIOUS
<1>1. \A f \in FileIds : files[f].path \notin RawIds
  BY IdsAssumption DEF Init, NoFile
<1>2. \A r \in RawIds : raws[r].status = "absent"
  BY DEF Init, NoRaw
<1>3. \A p \in Procs : ChecksumInHand(p)
  BY DEF Init, ChecksumInHand, NoSession
<1> QED
  BY <1>1, <1>2, <1>3, InitLandingIsOnce DEF ChecksumsAreKept

LEMMA StepChecksumsAreKept ==
    ASSUME IInv, [Next]_vars, ChecksumsAreKept
    PROVE  ChecksumsAreKept'
<1>1. LandingIsOnce'
  BY StepLandingIsOnce DEF ChecksumsAreKept
<1>2. \A r \in RawIds : raws'[r].status = "pending_upload" => raws'[r].checksum = None
  BY StepUnchecked
<1>3. \A f \in FileIds : files'[f].path \in RawIds => raws'[files'[f].path].status # "absent"
  BY StepOverDocuments
<1>4. \A p \in Procs : ChecksumInHand(p)'
  BY StepChecksum
<1> QED
  BY <1>1, <1>2, <1>3, <1>4 DEF ChecksumsAreKept

\* A step that parts the two without changing the object commits a confirmation whose bytes
\* have been replaced meanwhile.
LEMMA PartsByConfirmation ==
    ASSUME IInv, [Next]_vars, ChecksumsAreKept, NEW r \in RawIds,
           Described(r), ~Described(r)', objects'[r] = objects[r]
    PROVE  \E l \in Loops : Overtaken(l, r) /\ pc'[l] = "idle"
<1>1. /\ raws'[r].status \in OnRecord
      /\ ~(raws'[r].checksum # None /\ raws'[r].checksum = objects[r])
      /\ raws[r].status \in OnRecord => raws[r].checksum # None /\ raws[r].checksum = objects[r]
  BY DEF Described
<1>2. raws'[r] # raws[r] /\ raws'[r].status # "pending_upload"
  BY <1>1 DEF OnRecord
<1>3. ASSUME NEW q \in Procs, pc[q] = "land", sess[q].raw = r, raws'[r] = sess[q].rawMine
      PROVE  FALSE
  BY <1>1, <1>3 DEF ChecksumsAreKept, ChecksumInHand
<1>4. PICK q \in Procs : /\ pc[q] \in {"confirm", "commit", "finish"} /\ sess[q].raw = r
                         /\ pc'[q] \in {"idle", "reload"}
                         /\ raws'[r] = Merge(raws[r], sess[q].rawLoaded, sess[q].rawMine)
  BY <1>2, <1>3, RawWrites
<1>5. /\ raws'[r].checksum = IF sess[q].rawMine.checksum = sess[q].rawLoaded.checksum
                               THEN raws[r].checksum ELSE sess[q].rawMine.checksum
      /\ r # None
  BY <1>4, InHand, MergedRaw
<1>6. HasLanded(q) /\ ChecksumInHand(q) /\ InPlace(q) /\ InPlace(q)'
  BY StepInPlace DEF ChecksumsAreKept, LandingIsOnce
<1>7. pc[q] = "confirm"
  BY <1>1, <1>4, <1>5, <1>6 DEF HasLanded, ChecksumInHand
<1>8. q \in Loops /\ pc'[q] = "idle"
  BY <1>4, <1>6, <1>7 DEF InPlace, LoopSteps, ThreadSteps
<1>9. sess[q].rawMine.checksum \in Contents
  BY <1>6, <1>7 DEF ChecksumInHand
<1>10. sess[q].rawMine.checksum # objects[r]
  <2> SUFFICES ASSUME sess[q].rawMine.checksum = objects[r]
               PROVE  FALSE
    OBVIOUS
  <2>1. objects[r] # None
    BY <1>9, InHand
  <2>2. sess[q].rawLoaded.checksum = objects[r]
    BY <1>1, <1>5, <2>1
  <2>3. raws[r].status \in OnRecord
    BY <1>4, <1>6, <1>7, <2>1, <2>2 DEF ChecksumInHand
  <2> QED
    BY <1>1, <1>5, <2>2, <2>3
<1> QED
  BY <1>4, <1>7, <1>8, <1>9, <1>10 DEF Overtaken

\* Where checksums come from, whatever is sent late, deleted, confirmed again or promoted.
THEOREM ChecksumInvariance == Spec => []ChecksumsAreKept
BY InitChecksumsAreKept, StepChecksumsAreKept, Invariance, PTL DEF Spec

\* A manifest and the bytes it describes are parted by a late PUT, by a deletion, or by a
\* confirmation that such a PUT has overtaken; never by another request with an older copy
\* of the row.
THEOREM PartedOnlyByBytes == Spec => PartedByBytes
<1> DEFINE Parting == \A r \in RawIds : Described(r) /\ ~Described(r)' =>
                        \/ objects'[r] # objects[r]
                        \/ \E l \in Loops : Overtaken(l, r) /\ pc'[l] = "idle"
<1>1. IInv /\ ChecksumsAreKept /\ [Next]_vars => [Parting]_vars
  BY PartsByConfirmation
<1>2. Spec => [][Parting]_vars
  BY <1>1, Invariance, ChecksumInvariance, PTL DEF Spec
<1> QED
  BY <1>2 DEF PartedByBytes

-----------------------------------------------------------------------------
(* Any number of threads: each of them promotes a document, and books a file, once. *)

\* Who cannot promote a document that is linked will not: it would have to load it.
LEMMA StaysDonePromoting ==
    ASSUME IInv, [Next]_vars, NEW p \in Procs, NEW r \in RawIds, raws[r].link # None,
           ~Promotes(p, r)
    PROVE  ~Promotes(p, r)'
<1>1. CASE KeepsManifest(p)
  BY <1>1 DEF KeepsManifest, Promotes
<1>2. CASE HasNoManifest(p)
  BY <1>2, IdsAssumption DEF HasNoManifest, Promotes
<1>3. ASSUME NEW q \in RawIds, Lands(p, q) \/ Loads(p, q)
      PROVE  ~Promotes(p, r)'
  BY <1>3 DEF Lands, Loads, Promotes, Promoting
<1> QED
  BY <1>1, <1>2, <1>3, RawSessions

LEMMA StaysDoneBooking ==
    ASSUME IInv, [Next]_vars, NEW p \in Procs, NEW f \in FileIds, files[f].entity # None,
           ~Books(p, f)
    PROVE  ~Books(p, f)'
<1>1. CASE KeepsFile(p)
  BY <1>1 DEF KeepsFile, Books
<1>2. CASE HasNoFile(p)
  BY <1>2 DEF HasNoFile, Books
<1>3. ASSUME NEW g \in FileIds, LoadsFile(p, g)
      PROVE  ~Books(p, f)'
  BY <1>3 DEF LoadsFile, Books
<1>4. ASSUME NEW g \in FileIds, InsertsFile(p, g)
      PROVE  ~Books(p, f)'
  <2>1. Inserted(sess[p])' /\ Ingesting(p)' /\ sess'[p].file = g
    BY <1>4, InHand DEF InsertsFile, Sound, FileCopyIsSound, Inserted, Ingesting
  <2>2. files'[g] = NoFile
    <3>1. IInv'
      BY StepIInv
    <3> QED
      BY <2>1, <3>1 DEF IInv, Sound, InsertsAreOwn
  <2>3. files'[f].entity # None
    BY StepIInv DEF Grows, vars
  <2> QED
    BY <2>1, <2>2, <2>3 DEF Books, NoFile
<1> QED
  BY <1>1, <1>2, <1>3, <1>4, FileSessions

\* One ingestion commits at a time.
LEMMA OneCommits ==
    ASSUME IInv, NEW p \in Procs, NEW q \in Procs, p \in Threads,
           IngestCommit(p), IngestCommit(q)
    PROVE  p = q
<1>1. Acts(p)
  BY ActsAlone DEF ThreadStep, IInv
<1>2. pc[q] = "commit" /\ pc'[q] # "commit"
  BY DEF IngestCommit, AfterIngest, Finish, Continue, IInv, TypeOK
<1> QED
  BY <1>1, <1>2 DEF Acts

LEMMA StepPromotedByOne ==
    ASSUME IInv, [Next]_vars, OncePerThread
    PROVE  PromotedByOne'
<1>1. \A p \in Procs : InPlace(p)
  BY DEF OncePerThread
<1>2. /\ IInv'
      /\ \A r \in RawIds : raws[r].link # None => raws'[r].link # None
  BY StepIInv DEF Grows, vars
<1>3. PICK by \in [Promoted -> Threads] : \A f \in Promoted :
          /\ ~Promotes(by[f], files[f].path)
          /\ \A g \in Promoted \ {f} : files[g].path = files[f].path => by[g] # by[f]
  BY DEF OncePerThread, PromotedByOne
<1>4. ASSUME NEW f \in Promoted
      PROVE  /\ f \in Promoted' /\ files'[f].path = files[f].path /\ files[f].path \in RawIds
             /\ raws[files[f].path].link # None /\ raws'[files[f].path].link # None
             /\ ~Promotes(by[f], files[f].path)'
  <2>1. f \in FileIds /\ files[f].path \in RawIds /\ raws[files[f].path].link # None
    BY DEF Promoted, OncePerThread, PromotedByOne
  <2>2. files'[f].path = files[f].path
    BY <2>1, PathLost, IdsAssumption
  <2>3. by[f] \in Procs
    BY <1>3 DEF Procs
  <2>4. PICK r \in RawIds : r = files[f].path
    BY <2>1
  <2>5. ~Promotes(by[f], r)'
    BY <1>3, <2>1, <2>3, <2>4, StaysDonePromoting
  <2>6. ~Promotes(by[f], files[f].path)'
    BY <2>2, <2>4, <2>5 DEF Promotes
  <2> QED
    BY <1>2, <2>1, <2>2, <2>6 DEF Promoted
<1>5. CASE Promoted' = Promoted
  BY <1>3, <1>4, <1>5 DEF PromotedByOne
<1>6. CASE Promoted' # Promoted
  <2>1. PICK f \in Promoted' : f \notin Promoted
    BY <1>4, <1>6
  <2>2. f \in FileIds /\ files'[f].path \in RawIds /\ files'[f].path # files[f].path
    BY <2>1 DEF Promoted
  <2>3. PICK p \in Procs : /\ IngestCommit(p) /\ pc[p] = "commit" /\ sess[p].file = f
                           /\ Inserted(sess[p]) /\ sess[p].raw = files'[f].path
    BY <1>1, <2>2, PathWritten
  <2>4. p \in Threads /\ Promotes(p, files'[f].path)
    <3>1. p \in Threads
      BY <1>1, <2>3 DEF InPlace, LoopSteps, Procs
    <3>2. sess[p].rawLoaded.link = None
      BY <2>2, <2>3, InHand DEF Sound, RawCopyIsSound, Ingesting
    <3> QED
      BY <2>3, <3>1, <3>2 DEF Promotes, Promoting
  <2>5. ASSUME NEW g \in Promoted', g \notin Promoted
        PROVE  g = f
    <3>1. g \in FileIds /\ files'[g].path \in RawIds /\ files'[g].path # files[g].path
      BY <2>5 DEF Promoted
    <3>2. PICK q \in Procs : IngestCommit(q) /\ sess[q].file = g
      BY <1>1, <3>1, PathWritten
    <3> QED
      BY <2>3, <2>4, <3>2, OneCommits
  <2>6. raws'[files'[f].path].link # None
    BY <2>2, <2>3, InsertedIsLinked, IdsAssumption
  <2>7. ~Promotes(p, files[f].path)'
    <3>1. pc'[p] \in {"idle", "reload"}
      BY <2>3 DEF IngestCommit, AfterIngest, Finish, Continue, IInv, TypeOK
    <3> QED
      BY <3>1 DEF Promotes, Promoting
  <2>8. PICK new \in [Promoted' -> Threads] :
          \A g \in Promoted' : new[g] = IF g = f THEN p ELSE by[g]
    <3> DEFINE chosen == [g \in Promoted' |-> IF g = f THEN p ELSE by[g]]
    <3>1. chosen \in [Promoted' -> Threads]
      BY <1>3, <2>4, <2>5
    <3> QED
      BY <3>1
  <2>9. ASSUME NEW g \in Promoted'
        PROVE  ~Promotes(new[g], files[g].path)'
    <3>1. CASE g = f
      <4>1. new[g] = p /\ files'[g].path = files'[f].path
        BY <2>8, <3>1
      <4>2. ~Promotes(p, files[g].path)'
        BY <2>7, <4>1 DEF Promotes
      <4> QED
        BY <4>1, <4>2 DEF Promotes
    <3>2. CASE g # f
      <4>1. g \in Promoted /\ new[g] = by[g] /\ files'[g].path = files[g].path
        BY <1>4, <2>5, <2>8, <3>2
      <4> QED
        BY <1>4, <4>1
    <3> QED
      BY <3>1, <3>2
  <2>10. ASSUME NEW g \in Promoted', NEW h \in Promoted' \ {g},
                files'[h].path = files'[g].path
         PROVE  new[h] # new[g]
    <3>1. ASSUME NEW k \in Promoted, files'[k].path = files'[f].path
          PROVE  by[k] # p
      BY <1>3, <1>4, <2>4, <3>1
    <3>2. CASE g = f
      BY <2>5, <2>8, <2>10, <3>1, <3>2
    <3>3. CASE h = f
      BY <2>5, <2>8, <2>10, <3>1, <3>3
    <3>4. CASE g # f /\ h # f
      <4>1. g \in Promoted /\ h \in Promoted /\ new[g] = by[g] /\ new[h] = by[h]
        BY <2>5, <2>8, <2>10, <3>4
      <4>2. files[h].path = files[g].path
        BY <1>4, <2>10, <4>1
      <4> QED
        BY <1>3, <2>10, <4>1, <4>2
    <3> QED
      BY <3>2, <3>3, <3>4
  <2>11. \A g \in Promoted' : raws'[files'[g].path].link # None
    BY <1>4, <2>5, <2>6
  <2> QED
    BY <2>9, <2>10, <2>11 DEF PromotedByOne
<1> QED
  BY <1>5, <1>6

LEMMA StepBookedByOne ==
    ASSUME IInv, [Next]_vars, OncePerThread
    PROVE  BookedByOne'
<1>1. /\ \A p \in Procs : InPlace(p)
      /\ \A p \in Procs : sess[p].invoice # None => sess[p].fileLoaded.entity = None
  BY DEF OncePerThread, BookedByOne
<1>2. /\ IInv'
      /\ \A f \in FileIds : files[f].entity # None => files'[f].entity # None
      /\ \A i \in InvoiceIds : invoiceOf[i] # None => invoiceOf'[i] = invoiceOf[i]
  BY StepIInv DEF Grows, vars
<1>3. PICK by \in [Booked -> Threads] : \A i \in Booked :
          /\ ~Books(by[i], invoiceOf[i])
          /\ \A j \in Booked \ {i} : invoiceOf[j] = invoiceOf[i] => by[j] # by[i]
  BY DEF OncePerThread, BookedByOne
<1>4. \A p \in Procs : sess'[p].invoice # None => sess'[p].fileLoaded.entity = None
  BY <1>1, StepInvoice
<1>5. ASSUME NEW i \in Booked
      PROVE  /\ i \in Booked' /\ invoiceOf'[i] = invoiceOf[i]
             /\ ~Books(by[i], invoiceOf[i])'
  <2>1. /\ i \in InvoiceIds /\ invoiceOf[i] # None /\ invoiceOf[i] \in FileIds
        /\ files[invoiceOf[i]].entity # None
    BY DEF Booked, IInv, TypeOK, LinksAreSound
  <2>2. invoiceOf'[i] = invoiceOf[i] /\ by[i] \in Procs
    BY <1>2, <1>3, <2>1 DEF Procs
  <2>3. PICK f \in FileIds : f = invoiceOf[i]
    BY <2>1
  <2>4. ~Books(by[i], f)'
    BY <1>3, <2>1, <2>2, <2>3, StaysDoneBooking
  <2> QED
    BY <2>1, <2>2, <2>3, <2>4 DEF Booked, Books
<1>6. CASE Booked' = Booked
  BY <1>3, <1>4, <1>5, <1>6 DEF BookedByOne
<1>7. CASE Booked' # Booked
  <2>1. PICK i \in Booked' : i \notin Booked
    BY <1>5, <1>7
  <2>2. i \in InvoiceIds /\ invoiceOf'[i] # None /\ invoiceOf[i] = None
    BY <2>1 DEF Booked
  <2>3. PICK p \in Procs : IngestCommit(p)
    BY <2>2, OnlyIngestionBooks
  <2>4. pc[p] = "commit" /\ pc'[p] \in {"idle", "reload"}
    BY <2>3 DEF IngestCommit, AfterIngest, Finish, Continue, IInv, TypeOK
  <2>5. PICK f \in FileIds : f = sess[p].file
    BY <2>4, InHand DEF Sound, RowsInHand
  <2>6. invoiceOf' = IF sess[p].invoice = None THEN invoiceOf
                     ELSE [invoiceOf EXCEPT ![sess[p].invoice] = f]
    BY <2>3, <2>5 DEF IngestCommit
  <2>7. sess[p].invoice = i /\ invoiceOf'[i] = f
        /\ \A j \in InvoiceIds : j # i => invoiceOf'[j] = invoiceOf[j]
    BY <2>2, <2>6 DEF IInv, TypeOK
  <2>8. p \in Threads /\ Books(p, f) /\ ~Books(p, f)'
    <3>1. p \in Threads
      BY <1>1, <2>4 DEF InPlace, LoopSteps, Procs
    <3>2. sess[p].fileLoaded.entity = None
      BY <1>1, <2>2, <2>7, IdsAssumption
    <3> QED
      BY <2>4, <2>5, <3>1, <3>2 DEF Books, Ingesting
  <2>9. \A j \in Booked' : j # i => j \in Booked
    BY <2>7 DEF Booked
  <2>10. PICK new \in [Booked' -> Threads] :
           \A j \in Booked' : new[j] = IF j = i THEN p ELSE by[j]
    <3> DEFINE chosen == [j \in Booked' |-> IF j = i THEN p ELSE by[j]]
    <3>1. chosen \in [Booked' -> Threads]
      BY <1>3, <2>8, <2>9
    <3> QED
      BY <3>1
  <2>11. ASSUME NEW j \in Booked'
         PROVE  ~Books(new[j], invoiceOf[j])'
    <3>1. CASE j = i
      BY <2>1, <2>7, <2>8, <2>10, <3>1 DEF Books
    <3>2. CASE j # i
      <4>1. j \in Booked /\ new[j] = by[j]
        BY <2>9, <2>10, <3>2
      <4> QED
        BY <1>5, <4>1 DEF Books
    <3> QED
      BY <3>1, <3>2
  <2>12. ASSUME NEW j \in Booked', NEW k \in Booked' \ {j}, invoiceOf'[k] = invoiceOf'[j]
         PROVE  new[k] # new[j]
    <3>1. ASSUME NEW l \in Booked, invoiceOf'[l] = f
          PROVE  by[l] # p
      BY <1>3, <1>5, <2>8, <3>1
    <3>2. CASE j = i
      BY <2>7, <2>9, <2>10, <2>12, <3>1, <3>2
    <3>3. CASE k = i
      BY <2>7, <2>9, <2>10, <2>12, <3>1, <3>3
    <3>4. CASE j # i /\ k # i
      <4>1. j \in Booked /\ k \in Booked /\ new[j] = by[j] /\ new[k] = by[k]
        BY <2>9, <2>10, <2>12, <3>4
      <4>2. invoiceOf[k] = invoiceOf[j]
        BY <1>5, <2>12, <4>1
      <4> QED
        BY <1>3, <2>12, <4>1, <4>2
    <3> QED
      BY <3>2, <3>3, <3>4
  <2> QED
    BY <1>4, <2>11, <2>12 DEF BookedByOne
<1> QED
  BY <1>6, <1>7

LEMMA InitOncePerThread == Init => OncePerThread
<1> SUFFICES ASSUME Init PROVE OncePerThread
  OBVIOUS
<1>1. Promoted = {} /\ Booked = {}
  BY IdsAssumption DEF Init, Promoted, Booked, NoFile
<1>2. \A p \in Procs : sess[p].invoice = None
  BY DEF Init, NoSession
<1>3. \E by : by \in [{} -> Threads]
  <2>1. [x \in {} |-> x] \in [{} -> Threads]
    OBVIOUS
  <2> QED
    BY <2>1
<1> QED
  BY <1>1, <1>2, <1>3, InitInPlace DEF OncePerThread, PromotedByOne, BookedByOne

LEMMA StepOncePerThread ==
    ASSUME IInv, [Next]_vars, OncePerThread
    PROVE  OncePerThread'
<1>1. \A p \in Procs : InPlace(p)'
  BY StepInPlace DEF OncePerThread
<1> QED
  BY <1>1, StepPromotedByOne, StepBookedByOne DEF OncePerThread

\* For every file that promotes a document, and every e-invoice of a file, there is a thread
\* that did it and cannot do it again; no two are of one thread.
THEOREM OwnersInvariance == Spec => []OncePerThread
<1>1. IInv /\ OncePerThread /\ [Next]_vars => OncePerThread'
  BY StepOncePerThread
<1> QED
  BY <1>1, InitOncePerThread, Invariance, PTL DEF Spec

\* However runs of ETL and ingestion overlap, fail and are repeated, a document has no more
\* curated files, and a file no more e-invoices, than there are threads.
THEOREM FewPromotions ==
    ASSUME IsFiniteSet(Threads)
    PROVE  Spec => []PromotionsAreFew
<1>1. ASSUME OncePerThread, NEW r \in RawIds
      PROVE  Cardinality({f \in FileIds : files[f].path = r}) <= Cardinality(Threads)
  <2> DEFINE S == {f \in FileIds : files[f].path = r}
  <2>1. PICK by \in [Promoted -> Threads] : \A f \in Promoted :
          \A g \in Promoted \ {f} : files[g].path = files[f].path => by[g] # by[f]
    BY <1>1 DEF OncePerThread, PromotedByOne
  <2>2. S \subseteq Promoted /\ \A f \in S : files[f].path = r
    BY DEF Promoted
  <2> DEFINE owner == [f \in S |-> by[f]]
  <2> HIDE DEF S
  <2>3. owner \in [S -> Threads] /\ \A f, g \in S : owner[f] = owner[g] => f = g
    BY <2>1, <2>2
  <2> HIDE DEF owner
  <2>4. owner \in Injection(S, Threads)
    BY <2>3 DEF Injection, IsInjective
  <2>5. Cardinality(S) <= Cardinality(Threads)
    BY <2>4, FS_Injection
  <2> QED
    BY <2>5 DEF S
<1>2. ASSUME OncePerThread, NEW f \in FileIds
      PROVE  Cardinality({i \in InvoiceIds : invoiceOf[i] = f}) <= Cardinality(Threads)
  <2> DEFINE S == {i \in InvoiceIds : invoiceOf[i] = f}
  <2>1. PICK by \in [Booked -> Threads] : \A i \in Booked :
          \A j \in Booked \ {i} : invoiceOf[j] = invoiceOf[i] => by[j] # by[i]
    BY <1>2 DEF OncePerThread, BookedByOne
  <2>2. S \subseteq Booked /\ \A i \in S : invoiceOf[i] = f
    BY IdsAssumption DEF Booked
  <2> DEFINE owner == [i \in S |-> by[i]]
  <2> HIDE DEF S
  <2>3. owner \in [S -> Threads] /\ \A i, j \in S : owner[i] = owner[j] => i = j
    BY <2>1, <2>2
  <2> HIDE DEF owner
  <2>4. owner \in Injection(S, Threads)
    BY <2>3 DEF Injection, IsInjective
  <2>5. Cardinality(S) <= Cardinality(Threads)
    BY <2>4, FS_Injection
  <2> QED
    BY <2>5 DEF S
<1>3. OncePerThread => PromotionsAreFew
  BY <1>1, <1>2 DEF PromotionsAreFew
<1> QED
  BY <1>3, OwnersInvariance, PTL

-----------------------------------------------------------------------------
(* Row locks: who holds one, and who waits. *)

\* Where a transaction has flushed an UPDATE and not ended.
Holding == {"curate", "process", "extract", "commit"}

\* Other steps touch no lock, and are not taken by a process that holds one.
LEMMA LockFreeSteps ==
    ASSUME TypeOK, NEW p \in Procs,
           \/ LoopStart(p) \/ LoopStep(p) \/ ThreadStart(p)
           \/ IngestFail(p) \/ EtlReload(p) \/ EtlFinish(p) \/ OcrCommit(p) \/ OcrRaises(p)
    PROVE  UNCHANGED locks /\ (pc[p] \notin Holding \/ UNCHANGED <<pc, sess>>)
<1>1. CASE LoopStart(p)
  BY <1>1 DEF LoopStart, LandSave, Presign, UploadSave, ConfirmLoad, DeleteObject, Begin, Holding
<1>2. CASE LoopStep(p)
  BY <1>2 DEF LoopStep, LandCommit, ConfirmCommit, UploadCommit, DeleteCommit, Finish, Continue,
     Holding
<1>3. CASE ThreadStart(p)
  BY <1>3 DEF ThreadStart, EtlLoad, IngestLoad, OcrLoad, Begin, Holding
<1>4. CASE IngestFail(p) \/ EtlReload(p)
  BY <1>4 DEF IngestFail, EtlReload, AfterIngest, Finish, Continue, Holding
<1>5. CASE EtlFinish(p) \/ OcrCommit(p) \/ OcrRaises(p)
  BY <1>5 DEF EtlFinish, OcrCommit, OcrRaises, Finish, Continue, Holding
<1> QED
  BY <1>1, <1>2, <1>3, <1>4, <1>5

\* The end of a transaction gives up its locks and no other.
LEMMA LocksReleased ==
    ASSUME TypeOK, NEW p \in Procs, EndTransaction(p)
    PROVE  /\ \A r \in RawIds : rawLock'[r] # None => rawLock'[r] = rawLock[r] /\ rawLock[r] # p
           /\ \A f \in FileIds : fileLock'[f] # None => fileLock'[f] = fileLock[f] /\ fileLock[f] # p
BY IdsAssumption DEF EndTransaction, Released, TypeOK

\* What the steps of a promotion or an ingestion in progress do to locks and session.
LEMMA HolderSteps ==
    ASSUME TypeOK, NEW p \in Procs, EtlClaim(p) \/ EtlCurate(p) \/ IngestFlush(p) \/ Extract(p)
    PROVE  /\ sess'[p].raw = sess[p].raw
           /\ \/ /\ pc[p] = "claim" /\ pc'[p] = "curate" /\ fileLock' = fileLock
                 /\ rawLock' \in {rawLock, [rawLock EXCEPT ![sess[p].raw] = p]}
              \/ pc[p] = "curate" /\ pc'[p] = "process" /\ UNCHANGED locks
              \/ /\ pc[p] = "process" /\ pc'[p] = "extract" /\ sess'[p].file = sess[p].file
                 /\ rawLock' \in {rawLock, [rawLock EXCEPT ![sess[p].raw] = p]}
                 /\ fileLock' \in {fileLock, [fileLock EXCEPT ![sess[p].file] = p]}
              \/ /\ pc[p] = "extract" /\ pc'[p] = "commit" /\ sess'[p].file = sess[p].file
                 /\ UNCHANGED locks
<1> DEFINE s == sess[p]
<1>1. s \in Session /\ p \in DOMAIN pc /\ p \in DOMAIN sess
  BY DEF TypeOK
<1>2. CASE EtlClaim(p)
  BY <1>1, <1>2 DEF EtlClaim, Continue
<1>3. CASE EtlCurate(p)
  <2>1. PICK a : Continue(p, "curate", "process", a) /\ a.raw = s.raw
    <3>1. CASE s.rawLoaded.link # None
      <4> DEFINE a == [s EXCEPT !.file = s.rawLoaded.link,
                                !.fileLoaded = files[s.rawLoaded.link],
                                !.fileMine = files[s.rawLoaded.link]]
      <4>1. Continue(p, "curate", "process", a)
        BY <1>3, <3>1 DEF EtlCurate
      <4>2. a.raw = s.raw
        BY <1>1 DEF Session
      <4> QED
        BY <4>1, <4>2
    <3>2. CASE s.rawLoaded.link = None
      <4>1. PICK f \in FreshFiles :
               Continue(p, "curate", "process",
                        [s EXCEPT !.file = f, !.rawMine.link = f,
                                  !.fileMine = [NoFile EXCEPT !.status = "pending",
                                                              !.path = s.raw,
                                                              !.text = s.rawLoaded.text,
                                                              !.category = s.rawLoaded.category]])
        BY <1>3, <3>2 DEF EtlCurate
      <4> DEFINE a == [s EXCEPT !.file = f, !.rawMine.link = f,
                                !.fileMine = [NoFile EXCEPT !.status = "pending",
                                                            !.path = s.raw,
                                                            !.text = s.rawLoaded.text,
                                                            !.category = s.rawLoaded.category]]
      <4>2. a.raw = s.raw
        BY <1>1 DEF Session
      <4> QED
        BY <4>1, <4>2
    <3> QED
      BY <3>1, <3>2
  <2> QED
    BY <1>1, <1>3, <2>1 DEF EtlCurate, Continue
<1>4. CASE IngestFlush(p)
  <2> DEFINE a == [s EXCEPT !.fileMine.status = "processing"]
  <2>1. a.raw = s.raw /\ a.file = s.file
    BY <1>1 DEF Session
  <2>2. Continue(p, "process", "extract", a)
    BY <1>4 DEF IngestFlush
  <2> HIDE DEF a
  <2>3. pc[p] = "process" /\ pc'[p] = "extract" /\ sess'[p].raw = s.raw /\ sess'[p].file = s.file
    BY <1>1, <2>1, <2>2 DEF Continue
  <2> QED
    BY <1>4, <2>3 DEF IngestFlush
<1>5. CASE Extract(p)
  <2>1. PICK text \in TextOf(s), i \in EntityOf(s) :
          Continue(p, "extract", "commit",
                  [s EXCEPT !.fileMine.text = Cached(@, text),
                            !.fileMine.extracted = TRUE,
                            !.fileMine.status = "ingested",
                            !.fileMine.entity = i,
                            !.invoice = IF i = s.fileMine.entity THEN None ELSE i])
    BY <1>5 DEF Extract
  <2> DEFINE a == [s EXCEPT !.fileMine.text = Cached(@, text),
                            !.fileMine.extracted = TRUE,
                            !.fileMine.status = "ingested",
                            !.fileMine.entity = i,
                            !.invoice = IF i = s.fileMine.entity THEN None ELSE i]
  <2>2. a.raw = s.raw /\ a.file = s.file
    BY <1>1 DEF Session
  <2>3. Continue(p, "extract", "commit", a)
    BY <2>1
  <2> HIDE DEF a
  <2>4. pc[p] = "extract" /\ pc'[p] = "commit" /\ sess'[p].raw = s.raw /\ sess'[p].file = s.file
    BY <1>1, <2>2, <2>3 DEF Continue
  <2> QED
    BY <1>5, <2>4 DEF Extract
<1> QED
  BY <1>2, <1>3, <1>4, <1>5

LEMMA StepLocksAreHeld ==
    ASSUME TypeOK, LocksAreHeld, [Next]_vars
    PROVE  LocksAreHeld'
<1> USE DEF Holding
<1>1. ASSUME UNCHANGED <<locks, pc, sess>>
      PROVE  LocksAreHeld'
  BY <1>1 DEF locks, LocksAreHeld
<1>2. ASSUME NEW p \in Procs, Acts(p), UNCHANGED locks, pc[p] \notin Holding
      PROVE  LocksAreHeld'
  <2>1. ASSUME NEW r \in RawIds, rawLock[r] # None
        PROVE  /\ pc'[rawLock[r]] = pc[rawLock[r]] /\ sess'[rawLock[r]] = sess[rawLock[r]]
    BY <1>2, <2>1 DEF LocksAreHeld, Acts, TypeOK
  <2>2. ASSUME NEW f \in FileIds, fileLock[f] # None
        PROVE  /\ pc'[fileLock[f]] = pc[fileLock[f]] /\ sess'[fileLock[f]] = sess[fileLock[f]]
    BY <1>2, <2>2 DEF LocksAreHeld, Acts, TypeOK
  <2> QED
    BY <1>2, <2>1, <2>2 DEF LocksAreHeld, locks
<1>3. ASSUME NEW p \in Procs, Acts(p), EndTransaction(p)
      PROVE  LocksAreHeld'
  <2>1. ASSUME NEW r \in RawIds, rawLock'[r] # None
        PROVE  /\ pc'[rawLock'[r]] \in Holding /\ sess'[rawLock'[r]].raw = r
    BY <1>3, <2>1, LocksReleased DEF LocksAreHeld, Acts, TypeOK
  <2>2. ASSUME NEW f \in FileIds, fileLock'[f] # None
        PROVE  /\ pc'[fileLock'[f]] \in {"extract", "commit"} /\ sess'[fileLock'[f]].file = f
    BY <1>3, <2>2, LocksReleased DEF LocksAreHeld, Acts, TypeOK
  <2> QED
    BY <2>1, <2>2 DEF LocksAreHeld
<1>4. ASSUME NEW p \in Procs, Acts(p),
             EtlClaim(p) \/ EtlCurate(p) \/ IngestFlush(p) \/ Extract(p)
      PROVE  LocksAreHeld'
  <2>1. ASSUME NEW r \in RawIds, rawLock'[r] # None
        PROVE  /\ pc'[rawLock'[r]] \in Holding /\ sess'[rawLock'[r]].raw = r
    <3>1. rawLock'[r] = rawLock[r] \/ (rawLock'[r] = p /\ sess[p].raw = r)
      BY <1>4, HolderSteps DEF TypeOK, locks
    <3>2. CASE rawLock'[r] = p
      <4>1. sess[p].raw = r
        BY <2>1, <3>1, <3>2 DEF LocksAreHeld
      <4> QED
        BY <1>4, <3>2, <4>1, HolderSteps
    <3>3. CASE rawLock'[r] # p
      BY <1>4, <2>1, <3>1, <3>3 DEF LocksAreHeld, Acts, TypeOK
    <3> QED
      BY <3>2, <3>3
  <2>2. ASSUME NEW f \in FileIds, fileLock'[f] # None
        PROVE  /\ pc'[fileLock'[f]] \in {"extract", "commit"} /\ sess'[fileLock'[f]].file = f
    <3>1. \/ fileLock'[f] = fileLock[f]
          \/ fileLock'[f] = p /\ pc[p] = "process" /\ sess[p].file = f
      BY <1>4, HolderSteps DEF TypeOK, locks
    <3>2. CASE fileLock'[f] = p
      <4>1. sess[p].file = f /\ pc[p] \in {"process", "extract", "commit"}
        BY <2>2, <3>1, <3>2 DEF LocksAreHeld
      <4> QED
        BY <1>4, <3>2, <4>1, HolderSteps
    <3>3. CASE fileLock'[f] # p
      BY <1>4, <2>2, <3>1, <3>3 DEF LocksAreHeld, Acts, TypeOK
    <3> QED
      BY <3>2, <3>3
  <2> QED
    BY <2>1, <2>2 DEF LocksAreHeld
<1>5. ASSUME NEW p \in Procs,
             LoopStart(p) \/ ThreadStart(p) \/ LoopStep(p) \/ ThreadStep(p) \/ Abort(p)
      PROVE  LocksAreHeld'
  <2>1. Acts(p)
    BY <1>5, ActsAlone
  <2>2. CASE \/ LoopStart(p) \/ LoopStep(p) \/ ThreadStart(p)
             \/ IngestFail(p) \/ EtlReload(p) \/ EtlFinish(p) \/ OcrCommit(p) \/ OcrRaises(p)
    BY <1>1, <1>2, <2>1, <2>2, LockFreeSteps
  <2>3. CASE ExtractRaises(p) \/ IngestCommit(p) \/ Abort(p)
    BY <1>3, <2>1, <2>3 DEF ExtractRaises, IngestCommit, Abort
  <2>4. CASE EtlClaim(p) \/ EtlCurate(p) \/ IngestFlush(p) \/ Extract(p)
    BY <1>4, <2>1, <2>4
  <2> QED
    BY <1>5, <2>2, <2>3, <2>4 DEF ThreadStep
<1> QED
  BY <1>1, <1>5 DEF Next, Procs, ClientPut, Quiet, vars, locks

\* No transaction leaves a lock behind, and who holds one works on its row.
THEOREM LocksInvariance == Spec => []LocksAreHeld
<1>1. Init => LocksAreHeld
  BY DEF Init, LocksAreHeld
<1>2. IInv /\ LocksAreHeld /\ [Next]_vars => LocksAreHeld'
  BY StepLocksAreHeld DEF IInv
<1> QED
  BY <1>1, <1>2, Invariance, PTL DEF Spec

\* No deadlock: a request that is waited for waits, if at all, for one that does not.
THEOREM NoDeadlock == Spec => []WaitsAreShort
<1>1. ASSUME IInv, LocksAreHeld, NEW p \in Procs, NEW q \in Procs, NEW u \in Procs,
             WaitsFor(p, q), WaitsFor(q, u), NEW v \in Procs
      PROVE  ~WaitsFor(u, v)
  <2>1. ASSUME NEW k \in Procs
        PROVE  /\ sess[k].raw # None => sess[k].raw \in RawIds
               /\ sess[k].file # None => sess[k].file \in FileIds
    BY <1>1, InHand
  <2>2. None \notin Procs
    BY IdsAssumption
  <2>3. pc[q] = "process" /\ sess[p].raw = sess[q].raw /\ rawLock[sess[q].raw] = q
    BY <1>1, <2>1, <2>2 DEF WaitsFor, LocksAreHeld
  <2>4. pc[u] \in {"extract", "commit"}
    BY <1>1, <2>1, <2>2, <2>3 DEF WaitsFor, LocksAreHeld
  <2> QED
    BY <2>4 DEF WaitsFor
<1>2. IInv /\ LocksAreHeld => WaitsAreShort
  BY <1>1 DEF WaitsAreShort
<1> QED
  BY <1>2, Invariance, LocksInvariance, PTL
=============================================================================
