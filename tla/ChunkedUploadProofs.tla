----------------------- MODULE ChunkedUploadProofs -----------------------
(***************************************************************************)
(* Proofs about ChunkedUpload, for any number of uploads, chunks, contents *)
(* and requests, with and without crashes of the worker: the inductive     *)
(* invariant, what follows from it, and that UploadLedger is implemented.  *)
(***************************************************************************)
EXTENDS ChunkedUpload, TLAPS

(* Requests *)

LEMMA NullTypes == NothingHere \in Parts /\ NoRequest \in Request
<1>1. NothingHere \in Parts
  BY DEF NothingHere, Parts
<1>2. QED
  BY <1>1 DEF NoRequest, Request

RequestsTyped ==
    /\ pc \in [Clients -> {"idle", "enter", "expire", "await", "add", "assemble", "save",
                           "drop", "unlink", "rmdir"}]
    /\ req \in [Clients -> Request]

\* A request that goes on.
LEMMA GotoEffect ==
    ASSUME TypeOK, NEW c \in Clients, NEW from, NEW to, NEW r, Goto(c, from, to, r)
    PROVE  /\ pc[c] = from /\ pc'[c] = to /\ req'[c] = r
           /\ \A d \in Clients \ {c} : pc'[d] = pc[d] /\ req'[d] = req[d]
           /\ r \in Request /\ to \in {"idle", "enter", "expire", "await", "add", "assemble",
                                       "save", "drop", "unlink", "rmdir"} => RequestsTyped'
BY DEF Goto, TypeOK, RequestsTyped

\* A request that ends leaves the loop.
LEMMA AnswerEffect ==
    ASSUME TypeOK, NEW c \in Clients, NEW from, Answer(c, from)
    PROVE  /\ pc[c] = from /\ pc'[c] = "idle" /\ req'[c] = NoRequest
           /\ \A d \in Clients \ {c} : pc'[d] = pc[d] /\ req'[d] = req[d]
           /\ loop' = IF loop = c THEN None ELSE loop
           /\ RequestsTyped'
<1>1. Goto(c, from, "idle", NoRequest)
  BY DEF Answer
<1>2. QED
  BY <1>1, NullTypes, GotoEffect DEF Answer, LeaveLoop

-----------------------------------------------------------------------------
(* What each step does, field by field *)

\* What a step of c leaves alone.
Others(c) == \A d \in Clients \ {c} : pc'[d] = pc[d] /\ req'[d] = req[d]

LEMMA DropEffect ==
    ASSUME IInv, NEW c \in Clients, Drop(c)
    PROVE  /\ pc[c] = "drop" /\ pc'[c] = "unlink" /\ Others(c) /\ RequestsTyped'
           /\ req[c].upload \in told
           /\ req'[c].upload = req[c].upload /\ req'[c].drops = req[c].upload
           /\ req'[c].expired = req[c].expired
           /\ open' = open \ {req[c].upload}
           /\ UNCHANGED <<told, received, dirs, disk, files, loop, lock>>
<1>1. PICK r : r = [req[c] EXCEPT !.drops = req[c].upload]
  OBVIOUS
<1>2. Goto(c, "drop", "unlink", r)
  BY <1>1 DEF Drop
<1>3. pc[c] = "drop" /\ req[c].upload \in told /\ req[c].upload \in Uploads /\ req[c] \in Request
  BY <1>2, GotoEffect DEF IInv, NamedIsTold, TypeOK
<1>4. /\ r \in Request /\ r.upload = req[c].upload /\ r.drops = req[c].upload
      /\ r.expired = req[c].expired
  BY <1>1, <1>3 DEF Request
<1>5. QED
  BY <1>2, <1>3, <1>4, GotoEffect DEF IInv, Drop, Others, storage

LEMMA UnlinkEffect ==
    ASSUME IInv, NEW c \in Clients, Unlink(c)
    PROVE  /\ pc[c] = "unlink" /\ pc'[c] = "rmdir" /\ Others(c) /\ RequestsTyped'
           /\ req'[c] = req[c] /\ req[c].drops \in told \ open
           /\ disk'[req[c].drops] = NothingHere
           /\ \A u \in Uploads \ {req[c].drops} : disk'[u] = disk[u]
           /\ disk' \in [Uploads -> Parts]
           /\ UNCHANGED <<open, told, received, dirs, files, loop, lock>>
<1>1. Goto(c, "unlink", "rmdir", req[c])
  BY DEF Unlink
<1>2. pc[c] = "unlink" /\ req[c].drops \in told \ open /\ req[c].drops \in Uploads /\ req[c] \in Request
  BY <1>1, GotoEffect DEF IInv, NamedIsTold, TypeOK
<1>3. QED
  BY <1>1, <1>2, GotoEffect, NullTypes DEF IInv, TypeOK, Unlink, Others, memory

LEMMA RmdirEffect ==
    ASSUME IInv, NEW c \in Clients, Rmdir(c)
    PROVE  /\ pc[c] = "rmdir" /\ Others(c) /\ RequestsTyped'
           /\ req[c].drops \in told \ open
           /\ dirs' = IF disk[req[c].drops] = NothingHere THEN dirs \ {req[c].drops} ELSE dirs
           /\ \/ /\ lock = c /\ pc'[c] = "expire" /\ loop' = loop
                 /\ req'[c].upload = req[c].upload /\ req'[c].expired = req[c].expired
              \/ /\ lock # c /\ pc'[c] = "idle" /\ req'[c] = NoRequest
                 /\ loop' = IF loop = c THEN None ELSE loop
           /\ UNCHANGED <<open, told, received, disk, files, lock>>
<1>1. pc[c] = "rmdir" /\ req[c].drops \in told \ open /\ req[c] \in Request
  BY DEF Rmdir, IInv, NamedIsTold, TypeOK
<1>2. CASE lock = c
  <2>1. PICK r : r = [req[c] EXCEPT !.drops = None]
    OBVIOUS
  <2>2. Goto(c, "rmdir", "expire", r)
    BY <1>2, <2>1 DEF Rmdir
  <2>3. r \in Request /\ r.upload = req[c].upload /\ r.expired = req[c].expired
    BY <1>1, <2>1 DEF Request
  <2>4. QED
    BY <1>1, <1>2, <2>2, <2>3, GotoEffect DEF IInv, Rmdir, Others, memory
<1>3. CASE lock # c
  <2>1. Answer(c, "rmdir")
    BY <1>3 DEF Rmdir
  <2>2. QED
    BY <1>1, <1>3, <2>1, AnswerEffect DEF IInv, Rmdir, Others, memory
<1>4. QED
  BY <1>2, <1>3

LEMMA InitMkdirEffect ==
    ASSUME IInv, NEW c \in Clients, InitMkdir(c)
    PROVE  /\ pc[c] = "idle" /\ pc'[c] = "enter" /\ Others(c) /\ RequestsTyped'
           /\ req'[c].upload \in Uploads \ (dirs \cup told) /\ req'[c].expired = {}
           /\ dirs' = dirs \cup {req'[c].upload}
           /\ UNCHANGED <<open, told, received, disk, files, loop, lock>>
<1>1. PICK u \in Uploads \ (dirs \cup told) :
        Goto(c, "idle", "enter", [NoRequest EXCEPT !.upload = u]) /\ dirs' = dirs \cup {u}
  BY DEF InitMkdir
<1>2. PICK r : r = [NoRequest EXCEPT !.upload = u]
  OBVIOUS
<1>3. r \in Request /\ r.upload = u /\ r.expired = {}
  BY <1>2, NullTypes DEF Request, NoRequest
<1>4. Goto(c, "idle", "enter", r)
  BY <1>1, <1>2
<1>5. QED
  BY <1>1, <1>3, <1>4, GotoEffect DEF IInv, InitMkdir, Others, memory

LEMMA InitLockEffect ==
    ASSUME IInv, NEW c \in Clients, InitLock(c)
    PROVE  /\ pc[c] = "enter" /\ pc'[c] = "expire" /\ Others(c) /\ RequestsTyped'
           /\ req'[c].upload = req[c].upload /\ req'[c].expired \in SUBSET open
           /\ lock \in {None, c} /\ lock' = c
           /\ UNCHANGED <<open, told, received, dirs, disk, files, loop>>
<1>1. PICK old \in SUBSET open : Goto(c, "enter", "expire", [req[c] EXCEPT !.expired = old])
  BY DEF InitLock
<1>2. PICK r : r = [req[c] EXCEPT !.expired = old]
  OBVIOUS
<1>3. req[c] \in Request /\ old \in SUBSET Uploads
  BY DEF IInv, TypeOK
<1>4. r \in Request /\ r.upload = req[c].upload /\ r.expired = old
  BY <1>2, <1>3 DEF Request
<1>5. Goto(c, "enter", "expire", r)
  BY <1>1, <1>2
<1>6. QED
  BY <1>4, <1>5, GotoEffect DEF IInv, InitLock, Others, Available, memory, storage

LEMMA InitRaisesEffect ==
    ASSUME IInv, NEW c \in Clients, InitRaises(c)
    PROVE  /\ pc[c] = "enter" /\ pc'[c] = "idle" /\ req'[c] = NoRequest /\ Others(c) /\ RequestsTyped'
           /\ loop' = IF loop = c THEN None ELSE loop
           /\ UNCHANGED <<open, told, received, dirs, disk, files, lock>>
<1>1. Answer(c, "enter")
  BY DEF InitRaises
<1>2. QED
  BY <1>1, AnswerEffect DEF IInv, InitRaises, Others, memory, storage

LEMMA InitExpireEffect ==
    ASSUME IInv, NEW c \in Clients, InitExpire(c)
    PROVE  /\ pc[c] = "expire" /\ pc'[c] = "unlink" /\ Others(c) /\ RequestsTyped'
           /\ req'[c].upload = req[c].upload /\ req'[c].expired \subseteq req[c].expired
           /\ req'[c].drops \in told /\ open' = open \ {req'[c].drops}
           /\ UNCHANGED <<told, received, dirs, disk, files, loop, lock>>
<1>1. PICK u \in req[c].expired :
        /\ Goto(c, "expire", "unlink", [req[c] EXCEPT !.expired = @ \ {u}, !.drops = u])
        /\ open' = open \ {u}
  BY DEF InitExpire
<1>2. PICK r : r = [req[c] EXCEPT !.expired = @ \ {u}, !.drops = u]
  OBVIOUS
<1>3. req[c] \in Request /\ req[c].expired \subseteq told /\ u \in told /\ u \in Uploads
  BY DEF IInv, TypeOK, NamedIsTold
<1>4. /\ r \in Request /\ r.upload = req[c].upload /\ r.expired = req[c].expired \ {u}
      /\ r.drops = u
  BY <1>2, <1>3 DEF Request
<1>5. Goto(c, "expire", "unlink", r)
  BY <1>1, <1>2
<1>6. QED
  BY <1>1, <1>3, <1>4, <1>5, GotoEffect DEF IInv, InitExpire, Others, storage

LEMMA InitOpenEffect ==
    ASSUME IInv, NEW c \in Clients, InitOpen(c)
    PROVE  /\ pc[c] = "expire" /\ pc'[c] = "idle" /\ req'[c] = NoRequest /\ Others(c) /\ RequestsTyped'
           /\ lock = c /\ lock' = None /\ loop' = loop
           /\ req[c].upload \in dirs \ told
           /\ open' = open \cup {req[c].upload} /\ told' = told \cup {req[c].upload}
           /\ received'[req[c].upload] = NothingHere
           /\ \A u \in Uploads \ {req[c].upload} : received'[u] = received[u]
           /\ received' \in [Uploads -> Parts]
           /\ UNCHANGED <<dirs, disk, files>>
<1>1. Answer(c, "expire")
  BY DEF InitOpen
<1>2. pc[c] = "expire" /\ lock = c /\ loop # c /\ req[c].upload \in dirs \ told
  BY <1>1, AnswerEffect DEF IInv, LockIsKept, NewIsUnknown, Opening
<1>3. QED
  BY <1>1, <1>2, AnswerEffect, NullTypes DEF IInv, TypeOK, InitOpen, Others, storage

LEMMA ChunkLookupEffect ==
    ASSUME IInv, NEW c \in Clients, NEW u \in Uploads, NEW k \in Chunks, NEW content \in Contents,
           ChunkLookup(c, u, k, content)
    PROVE  /\ pc[c] = "idle" /\ pc'[c] = "await" /\ Others(c) /\ RequestsTyped'
           /\ loop = None /\ u \in open
           /\ req'[c].upload = u /\ req'[c].expired = {}
           /\ req'[c].chunk = k /\ req'[c].content = content
           /\ UNCHANGED <<open, told, received, dirs, disk, files, loop, lock>>
<1>1. PICK r : r = [NoRequest EXCEPT !.upload = u, !.chunk = k, !.content = content]
  OBVIOUS
<1>2. r \in Request /\ r.upload = u /\ r.expired = {} /\ r.chunk = k /\ r.content = content
  BY <1>1, NullTypes DEF Request, NoRequest
<1>3. Goto(c, "idle", "await", r)
  BY <1>1 DEF ChunkLookup
<1>4. QED
  BY <1>2, <1>3, GotoEffect DEF IInv, ChunkLookup, Others, memory, storage

LEMMA ChunkWriteEffect ==
    ASSUME IInv, NEW c \in Clients, ChunkWrite(c)
    PROVE  /\ pc[c] = "await" /\ Others(c) /\ RequestsTyped' /\ loop = None
           /\ \/ /\ req[c].upload \in dirs /\ pc'[c] = "add" /\ req'[c] = req[c] /\ loop' = c
                 /\ disk'[req[c].upload][req[c].chunk] = req[c].content
                 /\ \A k \in Chunks \ {req[c].chunk} :
                        disk'[req[c].upload][k] = disk[req[c].upload][k]
                 /\ \A u \in Uploads \ {req[c].upload} : disk'[u] = disk[u]
              \/ /\ req[c].upload \notin dirs /\ pc'[c] = "idle" /\ req'[c] = NoRequest
                 /\ loop' = loop /\ disk' = disk
           /\ disk' \in [Uploads -> Parts]
           /\ UNCHANGED <<open, told, received, dirs, files, lock>>
<1>1. pc[c] = "await" /\ req[c] \in Request /\ req[c].upload \in Uploads
  BY DEF ChunkWrite, IInv, TypeOK, NamedIsTold
<1>2. CASE req[c].upload \in dirs
  <2>1. Goto(c, "await", "add", req[c])
    BY <1>2 DEF ChunkWrite
  <2>2. req[c].chunk \in Chunks /\ req[c].content \in Contents
    BY <1>1 DEF IInv, ChunkIsNamed
  <2>3. disk' = [disk EXCEPT ![req[c].upload][req[c].chunk] = req[c].content]
    BY <1>2 DEF ChunkWrite
  <2>4. /\ disk' \in [Uploads -> Parts]
        /\ disk'[req[c].upload][req[c].chunk] = req[c].content
        /\ \A k \in Chunks \ {req[c].chunk} :
               disk'[req[c].upload][k] = disk[req[c].upload][k]
        /\ \A u \in Uploads \ {req[c].upload} : disk'[u] = disk[u]
    BY <1>1, <2>2, <2>3 DEF IInv, TypeOK, Parts
  <2>5. QED
    BY <1>1, <1>2, <2>1, <2>4, GotoEffect DEF IInv, ChunkWrite, TakeLoop, Others, memory
<1>3. CASE req[c].upload \notin dirs
  <2>1. Answer(c, "await")
    BY <1>3 DEF ChunkWrite
  <2>2. loop' = loop
    BY <2>1 DEF Answer, LeaveLoop, ChunkWrite
  <2>3. QED
    BY <1>1, <1>3, <2>1, <2>2, AnswerEffect DEF IInv, TypeOK, ChunkWrite, Others, memory
<1>4. QED
  BY <1>2, <1>3

LEMMA ChunkAddEffect ==
    ASSUME IInv, NEW c \in Clients, ChunkAdd(c)
    PROVE  /\ pc[c] = "add" /\ pc'[c] = "idle" /\ req'[c] = NoRequest /\ Others(c) /\ RequestsTyped'
           /\ loop = c /\ loop' = None /\ lock # c
           /\ received'[req[c].upload][req[c].chunk] = req[c].content
           /\ \A k \in Chunks \ {req[c].chunk} :
                  received'[req[c].upload][k] = received[req[c].upload][k]
           /\ \A u \in Uploads \ {req[c].upload} : received'[u] = received[u]
           /\ received' \in [Uploads -> Parts]
           /\ UNCHANGED <<open, told, dirs, disk, files, lock>>
<1>1. Answer(c, "add")
  BY DEF ChunkAdd
<1>2. pc[c] = "add" /\ loop = c /\ lock # c /\ req[c] \in Request /\ req[c].upload \in Uploads
  BY <1>1, AnswerEffect DEF IInv, TypeOK, NamedIsTold, LoopIsKept, LockIsKept
<1>3. req[c].chunk \in Chunks /\ req[c].content \in Contents
  BY <1>2 DEF IInv, ChunkIsNamed
<1>4. received' = [received EXCEPT ![req[c].upload][req[c].chunk] = req[c].content]
  BY DEF ChunkAdd
<1>5. /\ received' \in [Uploads -> Parts]
      /\ received'[req[c].upload][req[c].chunk] = req[c].content
      /\ \A k \in Chunks \ {req[c].chunk} :
             received'[req[c].upload][k] = received[req[c].upload][k]
      /\ \A u \in Uploads \ {req[c].upload} : received'[u] = received[u]
  BY <1>2, <1>3, <1>4 DEF IInv, TypeOK, Parts
<1>6. QED
  BY <1>1, <1>2, <1>5, AnswerEffect DEF IInv, ChunkAdd, Others, storage

LEMMA CompleteCheckEffect ==
    ASSUME IInv, NEW c \in Clients, NEW u \in Uploads, CompleteCheck(c, u)
    PROVE  /\ pc[c] = "idle" /\ pc'[c] = "assemble" /\ Others(c) /\ RequestsTyped'
           /\ u \in open /\ Missing(received[u]) = {} /\ loop = None /\ loop' = c
           /\ req'[c].upload = u /\ req'[c].expired = {}
           /\ \A k \in Chunks : req'[c].assembled[k] = None
           /\ UNCHANGED <<open, told, received, dirs, disk, files, lock>>
<1>1. PICK r : r = [NoRequest EXCEPT !.upload = u]
  OBVIOUS
<1>2. /\ r \in Request /\ r.upload = u /\ r.expired = {}
      /\ \A k \in Chunks : r.assembled[k] = None
  BY <1>1, NullTypes DEF Request, NoRequest, NothingHere
<1>3. Goto(c, "idle", "assemble", r)
  BY <1>1 DEF CompleteCheck
<1>4. QED
  BY <1>2, <1>3, GotoEffect DEF IInv, CompleteCheck, TakeLoop, Others, memory, storage

LEMMA CompleteReadEffect ==
    ASSUME IInv, NEW c \in Clients, CompleteRead(c)
    PROVE  /\ pc[c] = "assemble" /\ Others(c) /\ RequestsTyped'
           /\ \/ /\ pc'[c] = "save" /\ req'[c] = req[c] /\ Missing(req[c].assembled) = {}
                 /\ loop' = loop
              \/ /\ pc'[c] = "idle" /\ req'[c] = NoRequest
                 /\ loop' = IF loop = c THEN None ELSE loop
              \/ /\ pc'[c] = "assemble" /\ loop' = loop
                 /\ req'[c].upload = req[c].upload /\ req'[c].expired = req[c].expired
                 /\ \A k \in Chunks : req'[c].assembled[k] \in
                                          {req[c].assembled[k], disk[req[c].upload][k]}
           /\ UNCHANGED <<open, told, received, dirs, disk, files, lock>>
<1>1. pc[c] = "assemble" /\ req[c] \in Request /\ req[c].upload \in Uploads
  BY DEF CompleteRead, IInv, TypeOK, NamedIsTold
<1>2. CASE Missing(req[c].assembled) = {} /\ Goto(c, "assemble", "save", req[c]) /\ UNCHANGED loop
  BY <1>1, <1>2, GotoEffect DEF IInv, CompleteRead, Others, memory, storage
<1>3. ASSUME Answer(c, "assemble")
      PROVE  pc'[c] = "idle" /\ req'[c] = NoRequest /\ Others(c) /\ RequestsTyped'
             /\ loop' = IF loop = c THEN None ELSE loop
  BY <1>3, AnswerEffect DEF IInv, Others
<1>4. ASSUME NEW k \in Missing(req[c].assembled), UNCHANGED loop,
             Goto(c, "assemble", "assemble", [req[c] EXCEPT !.assembled[k] = disk[req[c].upload][k]])
      PROVE  /\ pc'[c] = "assemble" /\ loop' = loop /\ Others(c) /\ RequestsTyped'
             /\ req'[c].upload = req[c].upload /\ req'[c].expired = req[c].expired
             /\ \A j \in Chunks : req'[c].assembled[j] \in
                                      {req[c].assembled[j], disk[req[c].upload][j]}
  <2>1. PICK r : r = [req[c] EXCEPT !.assembled[k] = disk[req[c].upload][k]]
    OBVIOUS
  <2>2. Goto(c, "assemble", "assemble", r)
    BY <1>4, <2>1
  <2>3. k \in Chunks /\ disk[req[c].upload][k] \in Contents \cup {None}
    BY <1>1 DEF Missing, IInv, TypeOK, Parts
  <2>4. /\ r.upload = req[c].upload /\ r.expired = req[c].expired
        /\ r.assembled = [req[c].assembled EXCEPT ![k] = disk[req[c].upload][k]]
        /\ r = [upload |-> req[c].upload, chunk |-> req[c].chunk, content |-> req[c].content,
                assembled |-> r.assembled, expired |-> req[c].expired, drops |-> req[c].drops]
    BY <1>1, <2>1 DEF Request
  <2>5. /\ r.assembled \in Parts
        /\ \A j \in Chunks : r.assembled[j] \in {req[c].assembled[j], disk[req[c].upload][j]}
    BY <1>1, <2>3, <2>4 DEF Parts, Request
  <2>6. r \in Request
    BY <1>1, <2>4, <2>5 DEF Request
  <2>7. pc'[c] = "assemble" /\ req'[c] = r /\ Others(c) /\ RequestsTyped'
    BY <2>2, <2>6, GotoEffect DEF IInv, Others
  <2>8. QED
    BY <1>4, <2>4, <2>5, <2>7
<1>5. UNCHANGED <<open, told, received, dirs, disk, files, lock>>
  BY DEF CompleteRead, memory, storage
<1>6. CASE \E k \in Missing(req[c].assembled) :
             /\ \A j \in Missing(req[c].assembled) : k <= j
             /\ IF disk[req[c].upload][k] = None THEN Answer(c, "assemble")
                ELSE /\ Goto(c, "assemble", "assemble",
                             [req[c] EXCEPT !.assembled[k] = disk[req[c].upload][k]])
                     /\ UNCHANGED loop
  BY <1>1, <1>3, <1>4, <1>5, <1>6
<1>7. QED
  BY <1>2, <1>6 DEF CompleteRead

LEMMA CompleteCommitEffect ==
    ASSUME IInv, NEW c \in Clients, CompleteCommit(c)
    PROVE  /\ pc[c] = "save" /\ pc'[c] = "drop" /\ req'[c] = req[c] /\ Others(c) /\ RequestsTyped'
           /\ req[c].upload \in told /\ loop = c
           /\ files'[req[c].upload] = <<req[c].assembled>>
           /\ \A u \in Uploads \ {req[c].upload} : files'[u] = files[u]
           /\ files' \in [Uploads -> Seq(Parts)]
           /\ UNCHANGED <<open, told, received, dirs, disk, loop, lock>>
<1>1. Goto(c, "save", "drop", req[c])
  BY DEF CompleteCommit
<1>2. /\ pc[c] = "save" /\ req[c] \in Request /\ req[c].upload \in told /\ req[c].upload \in Uploads
      /\ loop = c /\ files[req[c].upload] = <<>>
  BY <1>1, GotoEffect DEF IInv, TypeOK, NamedIsTold, LoopIsKept, AssembledIsReceived
<1>3. req[c].assembled \in Parts
  BY <1>2 DEF Request
<1>4. Append(files[req[c].upload], req[c].assembled) = <<req[c].assembled>>
  BY <1>2, <1>3
<1>5. files' = [files EXCEPT ![req[c].upload] = <<req[c].assembled>>]
  BY <1>4 DEF CompleteCommit
<1>6. QED
  BY <1>1, <1>2, <1>3, <1>5, GotoEffect DEF IInv, TypeOK, CompleteCommit, Others, memory

LEMMA CompleteRaisesEffect ==
    ASSUME IInv, NEW c \in Clients, CompleteRaises(c)
    PROVE  /\ pc[c] = "save" /\ pc'[c] = "idle" /\ req'[c] = NoRequest /\ Others(c) /\ RequestsTyped'
           /\ loop' = IF loop = c THEN None ELSE loop
           /\ UNCHANGED <<open, told, received, dirs, disk, files, lock>>
<1>1. Answer(c, "save")
  BY DEF CompleteRaises
<1>2. QED
  BY <1>1, AnswerEffect DEF IInv, CompleteRaises, Others, memory, storage

LEMMA CancelStartEffect ==
    ASSUME IInv, NEW c \in Clients, NEW u \in Uploads, CancelStart(c, u)
    PROVE  /\ pc[c] = "idle" /\ pc'[c] = "drop" /\ Others(c) /\ RequestsTyped'
           /\ u \in told /\ req'[c].upload = u /\ req'[c].expired = {}
           /\ UNCHANGED <<open, told, received, dirs, disk, files, loop, lock>>
<1>1. PICK r : r = [NoRequest EXCEPT !.upload = u]
  OBVIOUS
<1>2. r \in Request /\ r.upload = u /\ r.expired = {}
  BY <1>1, NullTypes DEF Request, NoRequest
<1>3. Goto(c, "idle", "drop", r)
  BY <1>1 DEF CancelStart
<1>4. QED
  BY <1>2, <1>3, GotoEffect DEF IInv, CancelStart, Others, memory, storage

-----------------------------------------------------------------------------
(* Each part of the invariant *)

LEMMA TypeStays ==
    ASSUME IInv, [Next]_vars
    PROVE  TypeOK'
<1>. USE UploadAssumption DEF IInv, TypeOK, RequestsTyped
<1>1. ASSUME NEW c \in Clients, InitMkdir(c) PROVE TypeOK'
  BY <1>1, InitMkdirEffect DEF Others
<1>2. ASSUME NEW c \in Clients, NEW u \in Uploads, CompleteCheck(c, u) PROVE TypeOK'
  BY <1>2, CompleteCheckEffect DEF Others
<1>3. ASSUME NEW c \in Clients, NEW u \in Uploads, CancelStart(c, u) PROVE TypeOK'
  BY <1>3, CancelStartEffect DEF Others
<1>4. ASSUME NEW c \in Clients, NEW u \in Uploads, NEW k \in Chunks, NEW content \in Contents, ChunkLookup(c, u, k, content) PROVE TypeOK'
  BY <1>4, ChunkLookupEffect DEF Others
<1>5. ASSUME NEW c \in Clients, Drop(c) PROVE TypeOK'
  BY <1>5, DropEffect DEF Others
<1>6. ASSUME NEW c \in Clients, Unlink(c) PROVE TypeOK'
  BY <1>6, UnlinkEffect DEF Others
<1>7. ASSUME NEW c \in Clients, Rmdir(c) PROVE TypeOK'
  BY <1>7, RmdirEffect DEF Others
<1>8. ASSUME NEW c \in Clients, InitLock(c) PROVE TypeOK'
  BY <1>8, InitLockEffect DEF Others
<1>9. ASSUME NEW c \in Clients, InitRaises(c) PROVE TypeOK'
  BY <1>9, InitRaisesEffect DEF Others
<1>10. ASSUME NEW c \in Clients, InitExpire(c) PROVE TypeOK'
  BY <1>10, InitExpireEffect DEF Others
<1>11. ASSUME NEW c \in Clients, InitOpen(c) PROVE TypeOK'
  BY <1>11, InitOpenEffect DEF Others
<1>12. ASSUME NEW c \in Clients, ChunkWrite(c) PROVE TypeOK'
  BY <1>12, ChunkWriteEffect DEF Others
<1>13. ASSUME NEW c \in Clients, ChunkAdd(c) PROVE TypeOK'
  BY <1>13, ChunkAddEffect DEF Others
<1>14. ASSUME NEW c \in Clients, CompleteRead(c) PROVE TypeOK'
  BY <1>14, CompleteReadEffect DEF Others
<1>15. ASSUME NEW c \in Clients, CompleteCommit(c) PROVE TypeOK'
  BY <1>15, CompleteCommitEffect DEF Others
<1>16. ASSUME NEW c \in Clients, CompleteRaises(c) PROVE TypeOK'
  BY <1>16, CompleteRaisesEffect DEF Others
<1>17. CASE Crash
  BY <1>17, NullTypes DEF Crash, storage
<1>18. CASE UNCHANGED vars
  BY <1>18 DEF vars
<1>19. QED
  BY <1>1, <1>2, <1>3, <1>4, <1>5, <1>6, <1>7, <1>8, <1>9, <1>10, <1>11, <1>12, <1>13, <1>14, <1>15, <1>16, <1>17, <1>18 DEF Next, Start, Step, Quiet

LEMMA OpenStays ==
    ASSUME IInv, [Next]_vars
    PROVE  (open \subseteq dirs)'
<1>. USE UploadAssumption DEF IInv, NamedIsTold
<1>1. ASSUME NEW c \in Clients, InitMkdir(c) PROVE (open \subseteq dirs)'
  BY <1>1, InitMkdirEffect DEF Others
<1>2. ASSUME NEW c \in Clients, NEW u \in Uploads, CompleteCheck(c, u) PROVE (open \subseteq dirs)'
  BY <1>2, CompleteCheckEffect DEF Others
<1>3. ASSUME NEW c \in Clients, NEW u \in Uploads, CancelStart(c, u) PROVE (open \subseteq dirs)'
  BY <1>3, CancelStartEffect DEF Others
<1>4. ASSUME NEW c \in Clients, NEW u \in Uploads, NEW k \in Chunks, NEW content \in Contents, ChunkLookup(c, u, k, content) PROVE (open \subseteq dirs)'
  BY <1>4, ChunkLookupEffect DEF Others
<1>5. ASSUME NEW c \in Clients, Drop(c) PROVE (open \subseteq dirs)'
  BY <1>5, DropEffect DEF Others
<1>6. ASSUME NEW c \in Clients, Unlink(c) PROVE (open \subseteq dirs)'
  BY <1>6, UnlinkEffect DEF Others
<1>7. ASSUME NEW c \in Clients, Rmdir(c) PROVE (open \subseteq dirs)'
  BY <1>7, RmdirEffect DEF Others
<1>8. ASSUME NEW c \in Clients, InitLock(c) PROVE (open \subseteq dirs)'
  BY <1>8, InitLockEffect DEF Others
<1>9. ASSUME NEW c \in Clients, InitRaises(c) PROVE (open \subseteq dirs)'
  BY <1>9, InitRaisesEffect DEF Others
<1>10. ASSUME NEW c \in Clients, InitExpire(c) PROVE (open \subseteq dirs)'
  BY <1>10, InitExpireEffect DEF Others
<1>11. ASSUME NEW c \in Clients, InitOpen(c) PROVE (open \subseteq dirs)'
  BY <1>11, InitOpenEffect DEF Others
<1>12. ASSUME NEW c \in Clients, ChunkWrite(c) PROVE (open \subseteq dirs)'
  BY <1>12, ChunkWriteEffect DEF Others
<1>13. ASSUME NEW c \in Clients, ChunkAdd(c) PROVE (open \subseteq dirs)'
  BY <1>13, ChunkAddEffect DEF Others
<1>14. ASSUME NEW c \in Clients, CompleteRead(c) PROVE (open \subseteq dirs)'
  BY <1>14, CompleteReadEffect DEF Others
<1>15. ASSUME NEW c \in Clients, CompleteCommit(c) PROVE (open \subseteq dirs)'
  BY <1>15, CompleteCommitEffect DEF Others
<1>16. ASSUME NEW c \in Clients, CompleteRaises(c) PROVE (open \subseteq dirs)'
  BY <1>16, CompleteRaisesEffect DEF Others
<1>17. CASE Crash
  BY <1>17 DEF Crash, NoRequest
<1>18. CASE UNCHANGED vars
  BY <1>18 DEF vars
<1>19. QED
  BY <1>1, <1>2, <1>3, <1>4, <1>5, <1>6, <1>7, <1>8, <1>9, <1>10, <1>11, <1>12, <1>13, <1>14, <1>15, <1>16, <1>17, <1>18 DEF Next, Start, Step, Quiet

LEMMA LoopStays ==
    ASSUME IInv, [Next]_vars
    PROVE  LoopIsKept'
<1>. USE UploadAssumption DEF IInv, LoopIsKept, LockIsKept
<1>1. ASSUME NEW c \in Clients, InitMkdir(c) PROVE LoopIsKept'
  BY <1>1, InitMkdirEffect DEF Others
<1>2. ASSUME NEW c \in Clients, NEW u \in Uploads, CompleteCheck(c, u) PROVE LoopIsKept'
  BY <1>2, CompleteCheckEffect DEF Others
<1>3. ASSUME NEW c \in Clients, NEW u \in Uploads, CancelStart(c, u) PROVE LoopIsKept'
  BY <1>3, CancelStartEffect DEF Others
<1>4. ASSUME NEW c \in Clients, NEW u \in Uploads, NEW k \in Chunks, NEW content \in Contents, ChunkLookup(c, u, k, content) PROVE LoopIsKept'
  BY <1>4, ChunkLookupEffect DEF Others
<1>5. ASSUME NEW c \in Clients, Drop(c) PROVE LoopIsKept'
  BY <1>5, DropEffect DEF Others
<1>6. ASSUME NEW c \in Clients, Unlink(c) PROVE LoopIsKept'
  BY <1>6, UnlinkEffect DEF Others
<1>7. ASSUME NEW c \in Clients, Rmdir(c) PROVE LoopIsKept'
  BY <1>7, RmdirEffect DEF Others
<1>8. ASSUME NEW c \in Clients, InitLock(c) PROVE LoopIsKept'
  BY <1>8, InitLockEffect DEF Others
<1>9. ASSUME NEW c \in Clients, InitRaises(c) PROVE LoopIsKept'
  BY <1>9, InitRaisesEffect DEF Others
<1>10. ASSUME NEW c \in Clients, InitExpire(c) PROVE LoopIsKept'
  BY <1>10, InitExpireEffect DEF Others
<1>11. ASSUME NEW c \in Clients, InitOpen(c) PROVE LoopIsKept'
  BY <1>11, InitOpenEffect DEF Others
<1>12. ASSUME NEW c \in Clients, ChunkWrite(c) PROVE LoopIsKept'
  BY <1>12, ChunkWriteEffect DEF Others
<1>13. ASSUME NEW c \in Clients, ChunkAdd(c) PROVE LoopIsKept'
  BY <1>13, ChunkAddEffect DEF Others
<1>14. ASSUME NEW c \in Clients, CompleteRead(c) PROVE LoopIsKept'
  BY <1>14, CompleteReadEffect DEF Others
<1>15. ASSUME NEW c \in Clients, CompleteCommit(c) PROVE LoopIsKept'
  BY <1>15, CompleteCommitEffect DEF Others
<1>16. ASSUME NEW c \in Clients, CompleteRaises(c) PROVE LoopIsKept'
  BY <1>16, CompleteRaisesEffect DEF Others
<1>17. CASE Crash
  BY <1>17 DEF Crash, NoRequest
<1>18. CASE UNCHANGED vars
  BY <1>18 DEF vars
<1>19. QED
  BY <1>1, <1>2, <1>3, <1>4, <1>5, <1>6, <1>7, <1>8, <1>9, <1>10, <1>11, <1>12, <1>13, <1>14, <1>15, <1>16, <1>17, <1>18 DEF Next, Start, Step, Quiet

LEMMA LockStays ==
    ASSUME IInv, [Next]_vars
    PROVE  LockIsKept'
<1>. USE UploadAssumption DEF IInv, LockIsKept, LoopIsKept, TypeOK
<1>1. ASSUME NEW c \in Clients, InitMkdir(c) PROVE LockIsKept'
  BY <1>1, InitMkdirEffect DEF Others
<1>2. ASSUME NEW c \in Clients, NEW u \in Uploads, CompleteCheck(c, u) PROVE LockIsKept'
  BY <1>2, CompleteCheckEffect DEF Others
<1>3. ASSUME NEW c \in Clients, NEW u \in Uploads, CancelStart(c, u) PROVE LockIsKept'
  BY <1>3, CancelStartEffect DEF Others
<1>4. ASSUME NEW c \in Clients, NEW u \in Uploads, NEW k \in Chunks, NEW content \in Contents, ChunkLookup(c, u, k, content) PROVE LockIsKept'
  BY <1>4, ChunkLookupEffect DEF Others
<1>5. ASSUME NEW c \in Clients, Drop(c) PROVE LockIsKept'
  BY <1>5, DropEffect DEF Others
<1>6. ASSUME NEW c \in Clients, Unlink(c) PROVE LockIsKept'
  BY <1>6, UnlinkEffect DEF Others
<1>7. ASSUME NEW c \in Clients, Rmdir(c) PROVE LockIsKept'
  BY <1>7, RmdirEffect DEF Others
<1>8. ASSUME NEW c \in Clients, InitLock(c) PROVE LockIsKept'
  <2>1. lock = None /\ loop # c
    BY <1>8, InitLockEffect
  <2>2. QED
    BY <1>8, <2>1, InitLockEffect DEF Others
<1>9. ASSUME NEW c \in Clients, InitRaises(c) PROVE LockIsKept'
  BY <1>9, InitRaisesEffect DEF Others
<1>10. ASSUME NEW c \in Clients, InitExpire(c) PROVE LockIsKept'
  BY <1>10, InitExpireEffect DEF Others
<1>11. ASSUME NEW c \in Clients, InitOpen(c) PROVE LockIsKept'
  BY <1>11, InitOpenEffect DEF Others
<1>12. ASSUME NEW c \in Clients, ChunkWrite(c) PROVE LockIsKept'
  BY <1>12, ChunkWriteEffect DEF Others
<1>13. ASSUME NEW c \in Clients, ChunkAdd(c) PROVE LockIsKept'
  BY <1>13, ChunkAddEffect DEF Others
<1>14. ASSUME NEW c \in Clients, CompleteRead(c) PROVE LockIsKept'
  BY <1>14, CompleteReadEffect DEF Others
<1>15. ASSUME NEW c \in Clients, CompleteCommit(c) PROVE LockIsKept'
  BY <1>15, CompleteCommitEffect DEF Others
<1>16. ASSUME NEW c \in Clients, CompleteRaises(c) PROVE LockIsKept'
  BY <1>16, CompleteRaisesEffect DEF Others
<1>17. CASE Crash
  BY <1>17 DEF Crash, NoRequest
<1>18. CASE UNCHANGED vars
  BY <1>18 DEF vars
<1>19. QED
  BY <1>1, <1>2, <1>3, <1>4, <1>5, <1>6, <1>7, <1>8, <1>9, <1>10, <1>11, <1>12, <1>13, <1>14, <1>15, <1>16, <1>17, <1>18 DEF Next, Start, Step, Quiet

\* Nobody starts to open an upload but by InitMkdir.
LEMMA NoneNew ==
    ASSUME NewIsUnknown,
           \A d \in Clients : Opening(d)' =>
               Opening(d) /\ req'[d].upload = req[d].upload /\ req[d].upload \in dirs' \ told'
    PROVE  NewIsUnknown'
BY DEF NewIsUnknown

LEMMA NewStays ==
    ASSUME IInv, [Next]_vars
    PROVE  NewIsUnknown'
<1>. USE UploadAssumption DEF IInv, LockIsKept, NamedIsTold, TypeOK
<1>1. ASSUME NEW c \in Clients, InitMkdir(c) PROVE NewIsUnknown'
  BY <1>1, InitMkdirEffect DEF Others, NewIsUnknown, Opening
<1>2. ASSUME NEW c \in Clients, NEW u \in Uploads, CompleteCheck(c, u) PROVE NewIsUnknown'
  <2>1. \A d \in Clients : Opening(d)' =>
          Opening(d) /\ req'[d].upload = req[d].upload /\ req[d].upload \in dirs' \ told'
    BY <1>2, CompleteCheckEffect DEF Others, NewIsUnknown, Opening
  <2>2. QED
    BY <2>1, NoneNew
<1>3. ASSUME NEW c \in Clients, NEW u \in Uploads, CancelStart(c, u) PROVE NewIsUnknown'
  <2>1. \A d \in Clients : Opening(d)' =>
          Opening(d) /\ req'[d].upload = req[d].upload /\ req[d].upload \in dirs' \ told'
    BY <1>3, CancelStartEffect DEF Others, NewIsUnknown, Opening
  <2>2. QED
    BY <2>1, NoneNew
<1>4. ASSUME NEW c \in Clients, NEW u \in Uploads, NEW k \in Chunks, NEW content \in Contents, ChunkLookup(c, u, k, content) PROVE NewIsUnknown'
  <2>1. \A d \in Clients : Opening(d)' =>
          Opening(d) /\ req'[d].upload = req[d].upload /\ req[d].upload \in dirs' \ told'
    BY <1>4, ChunkLookupEffect, SMTT(30) DEF Others, NewIsUnknown, Opening
  <2>2. QED
    BY <2>1, NoneNew
<1>5. ASSUME NEW c \in Clients, Drop(c) PROVE NewIsUnknown'
  <2>1. \A d \in Clients : Opening(d)' =>
          Opening(d) /\ req'[d].upload = req[d].upload /\ req[d].upload \in dirs' \ told'
    BY <1>5, DropEffect DEF Others, NewIsUnknown, Opening
  <2>2. QED
    BY <2>1, NoneNew
<1>6. ASSUME NEW c \in Clients, Unlink(c) PROVE NewIsUnknown'
  <2>1. \A d \in Clients : Opening(d)' =>
          Opening(d) /\ req'[d].upload = req[d].upload /\ req[d].upload \in dirs' \ told'
    BY <1>6, UnlinkEffect DEF Others, NewIsUnknown, Opening
  <2>2. QED
    BY <2>1, NoneNew
<1>7. ASSUME NEW c \in Clients, Rmdir(c) PROVE NewIsUnknown'
  <2>1. \A d \in Clients : Opening(d)' =>
          Opening(d) /\ req'[d].upload = req[d].upload /\ req[d].upload \in dirs' \ told'
    BY <1>7, RmdirEffect DEF Others, NewIsUnknown, Opening
  <2>2. QED
    BY <2>1, NoneNew
<1>8. ASSUME NEW c \in Clients, InitLock(c) PROVE NewIsUnknown'
  <2>1. \A d \in Clients : Opening(d)' =>
          Opening(d) /\ req'[d].upload = req[d].upload /\ req[d].upload \in dirs' \ told'
    BY <1>8, InitLockEffect DEF Others, NewIsUnknown, Opening
  <2>2. QED
    BY <2>1, NoneNew
<1>9. ASSUME NEW c \in Clients, InitRaises(c) PROVE NewIsUnknown'
  <2>1. \A d \in Clients : Opening(d)' =>
          Opening(d) /\ req'[d].upload = req[d].upload /\ req[d].upload \in dirs' \ told'
    BY <1>9, InitRaisesEffect DEF Others, NewIsUnknown, Opening
  <2>2. QED
    BY <2>1, NoneNew
<1>10. ASSUME NEW c \in Clients, InitExpire(c) PROVE NewIsUnknown'
  <2>1. \A d \in Clients : Opening(d)' =>
          Opening(d) /\ req'[d].upload = req[d].upload /\ req[d].upload \in dirs' \ told'
    BY <1>10, InitExpireEffect DEF Others, NewIsUnknown, Opening
  <2>2. QED
    BY <2>1, NoneNew
<1>11. ASSUME NEW c \in Clients, InitOpen(c) PROVE NewIsUnknown'
  <2>1. \A d \in Clients : Opening(d)' =>
          Opening(d) /\ req'[d].upload = req[d].upload /\ req[d].upload \in dirs' \ told'
    BY <1>11, InitOpenEffect DEF Others, NewIsUnknown, Opening
  <2>2. QED
    BY <2>1, NoneNew
<1>12. ASSUME NEW c \in Clients, ChunkWrite(c) PROVE NewIsUnknown'
  <2>1. \A d \in Clients : Opening(d)' =>
          Opening(d) /\ req'[d].upload = req[d].upload /\ req[d].upload \in dirs' \ told'
    BY <1>12, ChunkWriteEffect DEF Others, NewIsUnknown, Opening
  <2>2. QED
    BY <2>1, NoneNew
<1>13. ASSUME NEW c \in Clients, ChunkAdd(c) PROVE NewIsUnknown'
  <2>1. \A d \in Clients : Opening(d)' =>
          Opening(d) /\ req'[d].upload = req[d].upload /\ req[d].upload \in dirs' \ told'
    BY <1>13, ChunkAddEffect DEF Others, NewIsUnknown, Opening
  <2>2. QED
    BY <2>1, NoneNew
<1>14. ASSUME NEW c \in Clients, CompleteRead(c) PROVE NewIsUnknown'
  <2>1. \A d \in Clients : Opening(d)' =>
          Opening(d) /\ req'[d].upload = req[d].upload /\ req[d].upload \in dirs' \ told'
    BY <1>14, CompleteReadEffect DEF Others, NewIsUnknown, Opening
  <2>2. QED
    BY <2>1, NoneNew
<1>15. ASSUME NEW c \in Clients, CompleteCommit(c) PROVE NewIsUnknown'
  <2>1. \A d \in Clients : Opening(d)' =>
          Opening(d) /\ req'[d].upload = req[d].upload /\ req[d].upload \in dirs' \ told'
    BY <1>15, CompleteCommitEffect DEF Others, NewIsUnknown, Opening
  <2>2. QED
    BY <2>1, NoneNew
<1>16. ASSUME NEW c \in Clients, CompleteRaises(c) PROVE NewIsUnknown'
  <2>1. \A d \in Clients : Opening(d)' =>
          Opening(d) /\ req'[d].upload = req[d].upload /\ req[d].upload \in dirs' \ told'
    BY <1>16, CompleteRaisesEffect DEF Others, NewIsUnknown, Opening
  <2>2. QED
    BY <2>1, NoneNew
<1>17. CASE Crash
  BY <1>17 DEF Crash, NoRequest, NewIsUnknown, Opening
<1>18. CASE UNCHANGED vars
  BY <1>18 DEF vars, NewIsUnknown, Opening
<1>19. QED
  BY <1>1, <1>2, <1>3, <1>4, <1>5, <1>6, <1>7, <1>8, <1>9, <1>10, <1>11, <1>12, <1>13, <1>14, <1>15, <1>16, <1>17, <1>18 DEF Next, Start, Step, Quiet

LEMMA NamedStays ==
    ASSUME IInv, [Next]_vars
    PROVE  NamedIsTold'
<1>. USE UploadAssumption DEF IInv, NamedIsTold, NewIsUnknown, Opening, LockIsKept, TypeOK
<1>1. ASSUME NEW c \in Clients, InitMkdir(c) PROVE NamedIsTold'
  BY <1>1, InitMkdirEffect DEF Others, NoRequest
<1>2. ASSUME NEW c \in Clients, NEW u \in Uploads, CompleteCheck(c, u) PROVE NamedIsTold'
  BY <1>2, CompleteCheckEffect DEF Others, NoRequest
<1>3. ASSUME NEW c \in Clients, NEW u \in Uploads, CancelStart(c, u) PROVE NamedIsTold'
  BY <1>3, CancelStartEffect DEF Others, NoRequest
<1>4. ASSUME NEW c \in Clients, NEW u \in Uploads, NEW k \in Chunks, NEW content \in Contents, ChunkLookup(c, u, k, content) PROVE NamedIsTold'
  BY <1>4, ChunkLookupEffect DEF Others, NoRequest
<1>5. ASSUME NEW c \in Clients, Drop(c) PROVE NamedIsTold'
  BY <1>5, DropEffect DEF Others, NoRequest
<1>6. ASSUME NEW c \in Clients, Unlink(c) PROVE NamedIsTold'
  BY <1>6, UnlinkEffect DEF Others, NoRequest
<1>7. ASSUME NEW c \in Clients, Rmdir(c) PROVE NamedIsTold'
  BY <1>7, RmdirEffect DEF Others, NoRequest
<1>8. ASSUME NEW c \in Clients, InitLock(c) PROVE NamedIsTold'
  BY <1>8, InitLockEffect DEF Others, NoRequest
<1>9. ASSUME NEW c \in Clients, InitRaises(c) PROVE NamedIsTold'
  BY <1>9, InitRaisesEffect DEF Others, NoRequest
<1>10. ASSUME NEW c \in Clients, InitExpire(c) PROVE NamedIsTold'
  BY <1>10, InitExpireEffect DEF Others, NoRequest
<1>11. ASSUME NEW c \in Clients, InitOpen(c) PROVE NamedIsTold'
  BY <1>11, InitOpenEffect DEF Others, NoRequest
<1>12. ASSUME NEW c \in Clients, ChunkWrite(c) PROVE NamedIsTold'
  BY <1>12, ChunkWriteEffect DEF Others, NoRequest
<1>13. ASSUME NEW c \in Clients, ChunkAdd(c) PROVE NamedIsTold'
  BY <1>13, ChunkAddEffect DEF Others, NoRequest
<1>14. ASSUME NEW c \in Clients, CompleteRead(c) PROVE NamedIsTold'
  BY <1>14, CompleteReadEffect DEF Others, NoRequest
<1>15. ASSUME NEW c \in Clients, CompleteCommit(c) PROVE NamedIsTold'
  BY <1>15, CompleteCommitEffect DEF Others, NoRequest
<1>16. ASSUME NEW c \in Clients, CompleteRaises(c) PROVE NamedIsTold'
  BY <1>16, CompleteRaisesEffect DEF Others, NoRequest
<1>17. CASE Crash
  BY <1>17 DEF Crash, NoRequest
<1>18. CASE UNCHANGED vars
  BY <1>18 DEF vars
<1>19. QED
  BY <1>1, <1>2, <1>3, <1>4, <1>5, <1>6, <1>7, <1>8, <1>9, <1>10, <1>11, <1>12, <1>13, <1>14, <1>15, <1>16, <1>17, <1>18 DEF Next, Start, Step, Quiet

LEMMA ChunkStays ==
    ASSUME IInv, [Next]_vars
    PROVE  ChunkIsNamed'
<1>. USE UploadAssumption DEF IInv, ChunkIsNamed
<1>1. ASSUME NEW c \in Clients, InitMkdir(c) PROVE ChunkIsNamed'
  BY <1>1, InitMkdirEffect DEF Others
<1>2. ASSUME NEW c \in Clients, NEW u \in Uploads, CompleteCheck(c, u) PROVE ChunkIsNamed'
  BY <1>2, CompleteCheckEffect DEF Others
<1>3. ASSUME NEW c \in Clients, NEW u \in Uploads, CancelStart(c, u) PROVE ChunkIsNamed'
  BY <1>3, CancelStartEffect DEF Others
<1>4. ASSUME NEW c \in Clients, NEW u \in Uploads, NEW k \in Chunks, NEW content \in Contents, ChunkLookup(c, u, k, content) PROVE ChunkIsNamed'
  BY <1>4, ChunkLookupEffect DEF Others
<1>5. ASSUME NEW c \in Clients, Drop(c) PROVE ChunkIsNamed'
  BY <1>5, DropEffect DEF Others
<1>6. ASSUME NEW c \in Clients, Unlink(c) PROVE ChunkIsNamed'
  BY <1>6, UnlinkEffect DEF Others
<1>7. ASSUME NEW c \in Clients, Rmdir(c) PROVE ChunkIsNamed'
  BY <1>7, RmdirEffect DEF Others
<1>8. ASSUME NEW c \in Clients, InitLock(c) PROVE ChunkIsNamed'
  BY <1>8, InitLockEffect DEF Others
<1>9. ASSUME NEW c \in Clients, InitRaises(c) PROVE ChunkIsNamed'
  BY <1>9, InitRaisesEffect DEF Others
<1>10. ASSUME NEW c \in Clients, InitExpire(c) PROVE ChunkIsNamed'
  BY <1>10, InitExpireEffect DEF Others
<1>11. ASSUME NEW c \in Clients, InitOpen(c) PROVE ChunkIsNamed'
  BY <1>11, InitOpenEffect DEF Others
<1>12. ASSUME NEW c \in Clients, ChunkWrite(c) PROVE ChunkIsNamed'
  BY <1>12, ChunkWriteEffect DEF Others
<1>13. ASSUME NEW c \in Clients, ChunkAdd(c) PROVE ChunkIsNamed'
  BY <1>13, ChunkAddEffect DEF Others
<1>14. ASSUME NEW c \in Clients, CompleteRead(c) PROVE ChunkIsNamed'
  BY <1>14, CompleteReadEffect DEF Others
<1>15. ASSUME NEW c \in Clients, CompleteCommit(c) PROVE ChunkIsNamed'
  BY <1>15, CompleteCommitEffect DEF Others
<1>16. ASSUME NEW c \in Clients, CompleteRaises(c) PROVE ChunkIsNamed'
  BY <1>16, CompleteRaisesEffect DEF Others
<1>17. CASE Crash
  BY <1>17 DEF Crash, NoRequest
<1>18. CASE UNCHANGED vars
  BY <1>18 DEF vars
<1>19. QED
  BY <1>1, <1>2, <1>3, <1>4, <1>5, <1>6, <1>7, <1>8, <1>9, <1>10, <1>11, <1>12, <1>13, <1>14, <1>15, <1>16, <1>17, <1>18 DEF Next, Start, Step, Quiet

LEMMA AddedStays ==
    ASSUME IInv, [Next]_vars
    PROVE  AddedIsOnDisk'
<1>. USE UploadAssumption DEF IInv, AddedIsOnDisk, LoopIsKept, NamedIsTold, ChunkIsNamed, TypeOK
<1>1. ASSUME NEW c \in Clients, InitMkdir(c) PROVE AddedIsOnDisk'
  BY <1>1, InitMkdirEffect DEF Others
<1>2. ASSUME NEW c \in Clients, NEW u \in Uploads, CompleteCheck(c, u) PROVE AddedIsOnDisk'
  BY <1>2, CompleteCheckEffect DEF Others
<1>3. ASSUME NEW c \in Clients, NEW u \in Uploads, CancelStart(c, u) PROVE AddedIsOnDisk'
  BY <1>3, CancelStartEffect DEF Others
<1>4. ASSUME NEW c \in Clients, NEW u \in Uploads, NEW k \in Chunks, NEW content \in Contents, ChunkLookup(c, u, k, content) PROVE AddedIsOnDisk'
  BY <1>4, ChunkLookupEffect DEF Others
<1>5. ASSUME NEW c \in Clients, Drop(c) PROVE AddedIsOnDisk'
  BY <1>5, DropEffect DEF Others
<1>6. ASSUME NEW c \in Clients, Unlink(c) PROVE AddedIsOnDisk'
  <2>1. \A d \in Clients : req'[d] = req[d] /\ (pc'[d] = "add" => pc[d] = "add")
    BY <1>6, UnlinkEffect DEF Others
  <2>2. open' = open /\ \A u \in open : disk'[u] = disk[u]
    BY <1>6, UnlinkEffect
  <2>3. QED
    BY <2>1, <2>2
<1>7. ASSUME NEW c \in Clients, Rmdir(c) PROVE AddedIsOnDisk'
  BY <1>7, RmdirEffect DEF Others
<1>8. ASSUME NEW c \in Clients, InitLock(c) PROVE AddedIsOnDisk'
  <2>1. \A d \in Clients : pc'[d] = "add" => pc[d] = "add" /\ req'[d] = req[d]
    BY <1>8, InitLockEffect DEF Others
  <2>2. QED
    BY <1>8, <2>1, InitLockEffect
<1>9. ASSUME NEW c \in Clients, InitRaises(c) PROVE AddedIsOnDisk'
  BY <1>9, InitRaisesEffect DEF Others
<1>10. ASSUME NEW c \in Clients, InitExpire(c) PROVE AddedIsOnDisk'
  BY <1>10, InitExpireEffect DEF Others
<1>11. ASSUME NEW c \in Clients, InitOpen(c) PROVE AddedIsOnDisk'
  BY <1>11, InitOpenEffect DEF Others
<1>12. ASSUME NEW c \in Clients, ChunkWrite(c) PROVE AddedIsOnDisk'
  BY <1>12, ChunkWriteEffect DEF Others
<1>13. ASSUME NEW c \in Clients, ChunkAdd(c) PROVE AddedIsOnDisk'
  BY <1>13, ChunkAddEffect DEF Others
<1>14. ASSUME NEW c \in Clients, CompleteRead(c) PROVE AddedIsOnDisk'
  BY <1>14, CompleteReadEffect DEF Others
<1>15. ASSUME NEW c \in Clients, CompleteCommit(c) PROVE AddedIsOnDisk'
  BY <1>15, CompleteCommitEffect DEF Others
<1>16. ASSUME NEW c \in Clients, CompleteRaises(c) PROVE AddedIsOnDisk'
  BY <1>16, CompleteRaisesEffect DEF Others
<1>17. CASE Crash
  BY <1>17 DEF Crash, NoRequest
<1>18. CASE UNCHANGED vars
  BY <1>18 DEF vars
<1>19. QED
  BY <1>1, <1>2, <1>3, <1>4, <1>5, <1>6, <1>7, <1>8, <1>9, <1>10, <1>11, <1>12, <1>13, <1>14, <1>15, <1>16, <1>17, <1>18 DEF Next, Start, Step, Quiet

\* A chunk that is being received stays so, but for ChunkAdd.
LEMMA ReceivingStays ==
    ASSUME NEW c \in Clients, Others(c), pc'[c] = "add" => req'[c] = req[c], pc[c] # "add"
    PROVE  \A u, k : BeingReceived(u, k) => BeingReceived(u, k)'
BY DEF Others, BeingReceived

LEMMA ReceivedStays ==
    ASSUME IInv, [Next]_vars
    PROVE  ReceivedIsOnDisk'
<1>. USE UploadAssumption DEF IInv, NamedIsTold, TypeOK
<1>. DEFINE Safe(v, i) == v \in dirs /\ disk[v][i] = received[v][i]
<1>. SUFFICES ASSUME NEW w \in open', NEW j \in Chunks, received'[w][j] # None, ~BeingReceived(w, j)'
              PROVE  Safe(w, j)'
  BY DEF ReceivedIsOnDisk
<1>1. ASSUME NEW c \in Clients, InitMkdir(c) PROVE Safe(w, j)'
  <2>1. BeingReceived(w, j) => BeingReceived(w, j)'
    BY <1>1, InitMkdirEffect, ReceivingStays
  <2>2. QED
    BY <1>1, <2>1, InitMkdirEffect DEF ReceivedIsOnDisk
<1>2. ASSUME NEW c \in Clients, NEW u \in Uploads, CompleteCheck(c, u) PROVE Safe(w, j)'
  <2>1. BeingReceived(w, j) => BeingReceived(w, j)'
    BY <1>2, CompleteCheckEffect, ReceivingStays
  <2>2. QED
    BY <1>2, <2>1, CompleteCheckEffect DEF ReceivedIsOnDisk
<1>3. ASSUME NEW c \in Clients, NEW u \in Uploads, CancelStart(c, u) PROVE Safe(w, j)'
  <2>1. BeingReceived(w, j) => BeingReceived(w, j)'
    BY <1>3, CancelStartEffect, ReceivingStays
  <2>2. QED
    BY <1>3, <2>1, CancelStartEffect DEF ReceivedIsOnDisk
<1>4. ASSUME NEW c \in Clients, NEW u \in Uploads, NEW k \in Chunks, NEW content \in Contents, ChunkLookup(c, u, k, content) PROVE Safe(w, j)'
  <2>1. BeingReceived(w, j) => BeingReceived(w, j)'
    BY <1>4, ChunkLookupEffect, ReceivingStays
  <2>2. QED
    BY <1>4, <2>1, ChunkLookupEffect DEF ReceivedIsOnDisk
<1>5. ASSUME NEW c \in Clients, Drop(c) PROVE Safe(w, j)'
  <2>1. BeingReceived(w, j) => BeingReceived(w, j)'
    BY <1>5, DropEffect, ReceivingStays
  <2>2. QED
    BY <1>5, <2>1, DropEffect DEF ReceivedIsOnDisk
<1>6. ASSUME NEW c \in Clients, Unlink(c) PROVE Safe(w, j)'
  <2>1. BeingReceived(w, j) => BeingReceived(w, j)'
    BY <1>6, UnlinkEffect, ReceivingStays
  <2>2. w \in open /\ w \in Uploads /\ w # req[c].drops
    BY <1>6, UnlinkEffect
  <2>3. disk'[w] = disk[w]
    BY <1>6, <2>2, UnlinkEffect
  <2>4. QED
    BY <1>6, <2>1, <2>3, UnlinkEffect DEF ReceivedIsOnDisk
<1>7. ASSUME NEW c \in Clients, Rmdir(c) PROVE Safe(w, j)'
  <2>1. BeingReceived(w, j) => BeingReceived(w, j)'
    BY <1>7, RmdirEffect, ReceivingStays
  <2>2. QED
    BY <1>7, <2>1, RmdirEffect DEF ReceivedIsOnDisk
<1>8. ASSUME NEW c \in Clients, InitLock(c) PROVE Safe(w, j)'
  <2>1. BeingReceived(w, j) => BeingReceived(w, j)'
    BY <1>8, InitLockEffect, ReceivingStays
  <2>2. QED
    BY <1>8, <2>1, InitLockEffect DEF ReceivedIsOnDisk
<1>9. ASSUME NEW c \in Clients, InitRaises(c) PROVE Safe(w, j)'
  <2>1. BeingReceived(w, j) => BeingReceived(w, j)'
    BY <1>9, InitRaisesEffect, ReceivingStays
  <2>2. QED
    BY <1>9, <2>1, InitRaisesEffect DEF ReceivedIsOnDisk
<1>10. ASSUME NEW c \in Clients, InitExpire(c) PROVE Safe(w, j)'
  <2>1. BeingReceived(w, j) => BeingReceived(w, j)'
    BY <1>10, InitExpireEffect, ReceivingStays
  <2>2. QED
    BY <1>10, <2>1, InitExpireEffect DEF ReceivedIsOnDisk
<1>11. ASSUME NEW c \in Clients, InitOpen(c) PROVE Safe(w, j)'
  <2>1. BeingReceived(w, j) => BeingReceived(w, j)'
    BY <1>11, InitOpenEffect, ReceivingStays
  <2>2. QED
    BY <1>11, <2>1, InitOpenEffect DEF ReceivedIsOnDisk, NothingHere
<1>12. ASSUME NEW c \in Clients, ChunkWrite(c) PROVE Safe(w, j)'
  <2>1. BeingReceived(w, j) => BeingReceived(w, j)'
    BY <1>12, ChunkWriteEffect, ReceivingStays
  <2>2. w \in Uploads /\ w \in open /\ req[c].upload \in Uploads
    BY <1>12, ChunkWriteEffect
  <2>3. pc'[c] = "add" /\ w = req[c].upload => j # req[c].chunk
    BY <1>12, ChunkWriteEffect DEF BeingReceived
  <2>4. disk'[w][j] = disk[w][j]
    BY <1>12, <2>2, <2>3, ChunkWriteEffect
  <2>5. QED
    BY <1>12, <2>1, <2>2, <2>4, ChunkWriteEffect DEF ReceivedIsOnDisk
<1>13. ASSUME NEW c \in Clients, ChunkAdd(c) PROVE Safe(w, j)'
  <2>1. BeingReceived(w, j) => w = req[c].upload /\ j = req[c].chunk
    BY <1>13, ChunkAddEffect DEF BeingReceived, LoopIsKept
  <2>2. QED
    BY <1>13, <2>1, ChunkAddEffect DEF ReceivedIsOnDisk, AddedIsOnDisk
<1>14. ASSUME NEW c \in Clients, CompleteRead(c) PROVE Safe(w, j)'
  <2>1. BeingReceived(w, j) => BeingReceived(w, j)'
    BY <1>14, CompleteReadEffect, ReceivingStays
  <2>2. QED
    BY <1>14, <2>1, CompleteReadEffect DEF ReceivedIsOnDisk
<1>15. ASSUME NEW c \in Clients, CompleteCommit(c) PROVE Safe(w, j)'
  <2>1. BeingReceived(w, j) => BeingReceived(w, j)'
    BY <1>15, CompleteCommitEffect, ReceivingStays
  <2>2. QED
    BY <1>15, <2>1, CompleteCommitEffect DEF ReceivedIsOnDisk
<1>16. ASSUME NEW c \in Clients, CompleteRaises(c) PROVE Safe(w, j)'
  <2>1. BeingReceived(w, j) => BeingReceived(w, j)'
    BY <1>16, CompleteRaisesEffect, ReceivingStays
  <2>2. QED
    BY <1>16, <2>1, CompleteRaisesEffect DEF ReceivedIsOnDisk
<1>17. CASE Crash
  BY <1>17 DEF Crash
<1>18. CASE UNCHANGED vars
  BY <1>18 DEF vars, ReceivedIsOnDisk, BeingReceived
<1>19. QED
  BY <1>1, <1>2, <1>3, <1>4, <1>5, <1>6, <1>7, <1>8, <1>9, <1>10, <1>11, <1>12, <1>13, <1>14, <1>15, <1>16, <1>17, <1>18 DEF Next, Start, Step, Quiet

\* What is taken from the disk is the only change the requests that assemble can bear.
LEMMA AssemblingStays ==
    ASSUME AssembledIsReceived, NamedIsTold, told \subseteq Uploads,
           \A d \in Clients : pc'[d] \in {"assemble", "save"} =>
               /\ pc'[d] = pc[d] /\ req'[d] = req[d]
               /\ received'[req[d].upload] = received[req[d].upload],
           UNCHANGED files,
           \A u \in Uploads, k \in Chunks : disk'[u][k] \in {None, disk[u][k]}
    PROVE  AssembledIsReceived'
BY DEF AssembledIsReceived, NamedIsTold, Missing

LEMMA AssembledStays ==
    ASSUME IInv, [Next]_vars
    PROVE  AssembledIsReceived'
<1>. USE UploadAssumption DEF IInv, LoopIsKept, NamedIsTold, TypeOK
<1>1. ASSUME NEW c \in Clients, InitMkdir(c) PROVE AssembledIsReceived'
  BY <1>1, InitMkdirEffect DEF Others, AssembledIsReceived, Missing
<1>2. ASSUME NEW c \in Clients, NEW u \in Uploads, CompleteCheck(c, u) PROVE AssembledIsReceived'
  <2>1. \A d \in Clients \ {c} : pc'[d] \notin {"assemble", "save"}
    BY <1>2, CompleteCheckEffect DEF Others
  <2>2. files[u] = <<>>
    <3>1. ~Finishing(u) /\ ~Closed(u)
      BY <1>2, CompleteCheckEffect DEF Finishing, Closed
    <3>2. QED
      BY <3>1 DEF StoredIsClosed
  <2>3. \A k \in Chunks : disk[u][k] = received[u][k]
    BY <1>2, CompleteCheckEffect DEF ReceivedIsOnDisk, BeingReceived, Missing
  <2>4. QED
    BY <1>2, <2>1, <2>2, <2>3, CompleteCheckEffect DEF AssembledIsReceived, Missing
<1>3. ASSUME NEW c \in Clients, NEW u \in Uploads, CancelStart(c, u) PROVE AssembledIsReceived'
  <2>1. \A d \in Clients : pc'[d] \in {"assemble", "save"} => pc'[d] = pc[d] /\ req'[d] = req[d]
    BY <1>3, CancelStartEffect DEF Others
  <2>2. UNCHANGED <<files, received, disk>>
    BY <1>3, CancelStartEffect
  <2>3. QED
    BY <2>1, <2>2, AssemblingStays
<1>4. ASSUME NEW c \in Clients, NEW u \in Uploads, NEW k \in Chunks, NEW content \in Contents, ChunkLookup(c, u, k, content) PROVE AssembledIsReceived'
  BY <1>4, ChunkLookupEffect DEF Others, AssembledIsReceived, Missing
<1>5. ASSUME NEW c \in Clients, Drop(c) PROVE AssembledIsReceived'
  BY <1>5, DropEffect DEF Others, AssembledIsReceived, Missing
<1>6. ASSUME NEW c \in Clients, Unlink(c) PROVE AssembledIsReceived'
  <2>1. \A u \in Uploads : disk'[u] \in {NothingHere, disk[u]}
    BY <1>6, UnlinkEffect
  <2>2. \A u \in Uploads, k \in Chunks : disk'[u][k] \in {None, disk[u][k]}
    BY <2>1 DEF NothingHere
  <2>3. \A d \in Clients : pc'[d] \in {"assemble", "save"} => pc'[d] = pc[d] /\ req'[d] = req[d]
    BY <1>6, UnlinkEffect DEF Others
  <2>4. UNCHANGED <<files, received>>
    BY <1>6, UnlinkEffect
  <2>5. QED
    BY <2>2, <2>3, <2>4, AssemblingStays
<1>7. ASSUME NEW c \in Clients, Rmdir(c) PROVE AssembledIsReceived'
  BY <1>7, RmdirEffect DEF Others, AssembledIsReceived, Missing
<1>8. ASSUME NEW c \in Clients, InitLock(c) PROVE AssembledIsReceived'
  BY <1>8, InitLockEffect DEF Others, AssembledIsReceived, Missing
<1>9. ASSUME NEW c \in Clients, InitRaises(c) PROVE AssembledIsReceived'
  BY <1>9, InitRaisesEffect DEF Others, AssembledIsReceived, Missing
<1>10. ASSUME NEW c \in Clients, InitExpire(c) PROVE AssembledIsReceived'
  BY <1>10, InitExpireEffect DEF Others, AssembledIsReceived, Missing
<1>11. ASSUME NEW c \in Clients, InitOpen(c) PROVE AssembledIsReceived'
  <2>1. \A d \in Clients : pc'[d] \in {"assemble", "save"} =>
            pc'[d] = pc[d] /\ req'[d] = req[d] /\ req[d].upload \in told
    BY <1>11, InitOpenEffect DEF Others
  <2>2. \A u \in told : received'[u] = received[u]
    BY <1>11, InitOpenEffect
  <2>3. UNCHANGED <<files, disk>>
    BY <1>11, InitOpenEffect
  <2>4. QED
    BY <2>1, <2>2, <2>3, AssemblingStays
<1>12. ASSUME NEW c \in Clients, ChunkWrite(c) PROVE AssembledIsReceived'
  <2>1. \A d \in Clients : pc'[d] \notin {"assemble", "save"}
    BY <1>12, ChunkWriteEffect DEF Others
  <2>2. QED
    BY <2>1 DEF AssembledIsReceived
<1>13. ASSUME NEW c \in Clients, ChunkAdd(c) PROVE AssembledIsReceived'
  BY <1>13, ChunkAddEffect DEF Others, AssembledIsReceived, Missing
<1>14. ASSUME NEW c \in Clients, CompleteRead(c) PROVE AssembledIsReceived'
  <2>1. pc[c] = "assemble" /\ loop = c
    BY <1>14, CompleteReadEffect
  <2>2. \A d \in Clients \ {c} : pc'[d] \notin {"assemble", "save"}
    BY <1>14, <2>1, CompleteReadEffect DEF Others
  <2>3. LET u == req[c].upload IN
        /\ files[u] = <<>> /\ Missing(received[u]) = {}
        /\ \A k \in Chunks : /\ req[c].assembled[k] \in {None, received[u][k]}
                             /\ disk[u][k] \in {None, received[u][k]}
    BY <2>1 DEF AssembledIsReceived
  <2>4. pc'[c] \in {"assemble", "save"} =>
          /\ req'[c].upload = req[c].upload
          /\ \A k \in Chunks : req'[c].assembled[k] \in {None, received[req[c].upload][k]}
          /\ pc'[c] = "save" => Missing(req'[c].assembled) = {}
    BY <1>14, <2>3, CompleteReadEffect
  <2>5. UNCHANGED <<files, received, disk>>
    BY <1>14, CompleteReadEffect
  <2>6. QED
    <3>1. pc'[c] = "assemble" => \A k \in Chunks : disk'[req'[c].upload][k] \in
                                                       {None, received'[req'[c].upload][k]}
      BY <2>3, <2>4, <2>5
    <3>2. pc'[c] \in {"assemble", "save"} =>
            /\ files'[req'[c].upload] = <<>> /\ Missing(received'[req'[c].upload]) = {}
            /\ \A k \in Chunks : req'[c].assembled[k] \in {None, received'[req'[c].upload][k]}
      BY <2>3, <2>4, <2>5
    <3>3. QED
      BY <2>2, <2>4, <3>1, <3>2 DEF AssembledIsReceived, Missing
<1>15. ASSUME NEW c \in Clients, CompleteCommit(c) PROVE AssembledIsReceived'
  BY <1>15, CompleteCommitEffect DEF Others, AssembledIsReceived, Missing
<1>16. ASSUME NEW c \in Clients, CompleteRaises(c) PROVE AssembledIsReceived'
  BY <1>16, CompleteRaisesEffect DEF Others, AssembledIsReceived, Missing
<1>17. CASE Crash
  BY <1>17 DEF Crash, AssembledIsReceived
<1>18. CASE UNCHANGED vars
  BY <1>18 DEF vars, AssembledIsReceived, Missing
<1>19. QED
  BY <1>1, <1>2, <1>3, <1>4, <1>5, <1>6, <1>7, <1>8, <1>9, <1>10, <1>11, <1>12, <1>13, <1>14, <1>15, <1>16, <1>17, <1>18 DEF Next, Start, Step, Quiet

\* An upload stays closed if no request comes to a step that touches it.
LEMMA ClosedStays ==
    ASSUME NEW w, Closed(w), w \notin open', w \in dirs' => w \in dirs,
           \A d \in Clients : req'[d].upload = w /\ pc'[d] \in {"await", "add", "assemble", "save"} =>
               pc'[d] = pc[d] /\ req'[d] = req[d]
    PROVE  Closed(w)'
BY DEF Closed

LEMMA StoredStays ==
    ASSUME IInv, [Next]_vars
    PROVE  StoredIsClosed'
<1>. USE UploadAssumption DEF IInv, LoopIsKept, NamedIsTold, TypeOK
<1>. DEFINE Kept(v) == /\ v \in told
                       /\ Len(files[v]) = 1 /\ files[v][1] = received[v]
                       /\ Missing(received[v]) = {}
                       /\ Finishing(v) \/ Closed(v)
<1>. SUFFICES ASSUME NEW w \in Uploads, files'[w] # <<>>
              PROVE  Kept(w)'
  BY DEF StoredIsClosed
<1>1. ASSUME NEW c \in Clients, InitMkdir(c) PROVE Kept(w)'
  <2>1. w \in told /\ w # req'[c].upload
    BY <1>1, InitMkdirEffect DEF StoredIsClosed
  <2>2. Finishing(w) => Finishing(w)'
    BY <1>1, <2>1, InitMkdirEffect DEF Others, Finishing
  <2>3. Closed(w) => Closed(w)'
    BY <1>1, <2>1, InitMkdirEffect DEF Others, Closed
  <2>4. QED
    BY <1>1, <2>1, <2>2, <2>3, InitMkdirEffect DEF StoredIsClosed
<1>2. ASSUME NEW c \in Clients, NEW u \in Uploads, CompleteCheck(c, u) PROVE Kept(w)'
  BY <1>2, CompleteCheckEffect DEF Others, StoredIsClosed, Finishing, Closed
<1>3. ASSUME NEW c \in Clients, NEW u \in Uploads, CancelStart(c, u) PROVE Kept(w)'
  BY <1>3, CancelStartEffect DEF Others, StoredIsClosed, Finishing, Closed
<1>4. ASSUME NEW c \in Clients, NEW u \in Uploads, NEW k \in Chunks, NEW content \in Contents, ChunkLookup(c, u, k, content) PROVE Kept(w)'
  BY <1>4, ChunkLookupEffect DEF Others, StoredIsClosed, Finishing, Closed
<1>5. ASSUME NEW c \in Clients, Drop(c) PROVE Kept(w)'
  BY <1>5, DropEffect DEF Others, StoredIsClosed, Finishing, Closed
<1>6. ASSUME NEW c \in Clients, Unlink(c) PROVE Kept(w)'
  <2>1. Finishing(w) => Finishing(w)'
    BY <1>6, UnlinkEffect DEF Others, Finishing, LockIsKept
  <2>2. Closed(w) => Closed(w)'
    BY <1>6, UnlinkEffect DEF Others, Closed
  <2>3. QED
    BY <1>6, <2>1, <2>2, UnlinkEffect DEF StoredIsClosed
<1>7. ASSUME NEW c \in Clients, Rmdir(c) PROVE Kept(w)'
  <2>1. CASE loop = c
    <3>1. lock # c /\ req[c].drops = req[c].upload
      BY <1>7, <2>1, RmdirEffect DEF LockIsKept
    <3>2. \A d \in Clients : pc'[d] \notin {"add", "assemble", "save"}
      BY <1>7, <2>1, RmdirEffect DEF Others
    <3>3. Finishing(w) => Closed(w)'
      BY <1>7, <2>1, <3>1, <3>2, RmdirEffect DEF Finishing, Closed
    <3>4. Closed(w) => Closed(w)'
      BY <1>7, <3>2, RmdirEffect DEF Others, Closed
    <3>5. QED
      BY <1>7, <3>3, <3>4, RmdirEffect DEF StoredIsClosed
  <2>2. CASE loop # c
    <3>1. Finishing(w) => Finishing(w)'
      BY <1>7, <2>2, RmdirEffect DEF Others, Finishing
    <3>2. \A d \in Clients : pc'[d] \in {"await", "add", "assemble", "save"} =>
              pc'[d] = pc[d] /\ req'[d] = req[d]
      BY <1>7, RmdirEffect DEF Others
    <3>3. open' = open /\ dirs' \subseteq dirs
      BY <1>7, RmdirEffect
    <3>4. Closed(w) => Closed(w)'
      BY <3>2, <3>3, ClosedStays DEF Closed
    <3>5. QED
      BY <1>7, <3>1, <3>4, RmdirEffect DEF StoredIsClosed
  <2>3. QED
    BY <2>1, <2>2
<1>8. ASSUME NEW c \in Clients, InitLock(c) PROVE Kept(w)'
  BY <1>8, InitLockEffect DEF Others, StoredIsClosed, Finishing, Closed
<1>9. ASSUME NEW c \in Clients, InitRaises(c) PROVE Kept(w)'
  BY <1>9, InitRaisesEffect DEF Others, StoredIsClosed, Finishing, Closed
<1>10. ASSUME NEW c \in Clients, InitExpire(c) PROVE Kept(w)'
  <2>1. Finishing(w) => Finishing(w)'
    BY <1>10, InitExpireEffect DEF Others, Finishing
  <2>2. Closed(w) => Closed(w)'
    BY <1>10, InitExpireEffect DEF Others, Closed
  <2>3. QED
    BY <1>10, <2>1, <2>2, InitExpireEffect DEF StoredIsClosed
<1>11. ASSUME NEW c \in Clients, InitOpen(c) PROVE Kept(w)'
  <2>1. w \in told /\ w # req[c].upload
    BY <1>11, InitOpenEffect DEF StoredIsClosed
  <2>2. Finishing(w) => Finishing(w)'
    BY <1>11, <2>1, InitOpenEffect DEF Others, Finishing
  <2>3. \A d \in Clients : pc'[d] \in {"await", "add", "assemble", "save"} =>
            pc'[d] = pc[d] /\ req'[d] = req[d]
    BY <1>11, InitOpenEffect DEF Others
  <2>4. Closed(w) => w \notin open' /\ dirs' = dirs
    BY <1>11, <2>1, InitOpenEffect DEF Closed
  <2>5. Closed(w) => Closed(w)'
    BY <2>3, <2>4, ClosedStays
  <2>6. QED
    BY <1>11, <2>1, <2>2, <2>5, InitOpenEffect DEF StoredIsClosed
<1>12. ASSUME NEW c \in Clients, ChunkWrite(c) PROVE Kept(w)'
  BY <1>12, ChunkWriteEffect DEF Others, StoredIsClosed, Finishing, Closed
<1>13. ASSUME NEW c \in Clients, ChunkAdd(c) PROVE Kept(w)'
  <2>1. ~Finishing(w)
    BY <1>13, ChunkAddEffect DEF Finishing
  <2>2. Closed(w) /\ w # req[c].upload
    BY <1>13, <2>1, ChunkAddEffect DEF StoredIsClosed, Closed
  <2>3. Closed(w)'
    BY <1>13, <2>2, ChunkAddEffect DEF Others, Closed
  <2>4. QED
    BY <1>13, <2>2, <2>3, ChunkAddEffect DEF StoredIsClosed
<1>14. ASSUME NEW c \in Clients, CompleteRead(c) PROVE Kept(w)'
  <2>1. ~Finishing(w)
    BY <1>14, CompleteReadEffect DEF Finishing
  <2>2. Closed(w)
    BY <1>14, <2>1, CompleteReadEffect DEF StoredIsClosed
  <2>3. req[c].upload # w
    BY <1>14, <2>2, CompleteReadEffect DEF Closed
  <2>4. \A d \in Clients : req'[d].upload = w /\ pc'[d] \in {"await", "add", "assemble", "save"} =>
            pc'[d] = pc[d] /\ req'[d] = req[d]
    BY <1>14, <2>3, CompleteReadEffect DEF Others
  <2>5. Closed(w)'
    BY <1>14, <2>2, <2>4, CompleteReadEffect, ClosedStays DEF Closed
  <2>6. QED
    BY <1>14, <2>2, <2>5, CompleteReadEffect DEF StoredIsClosed
<1>15. ASSUME NEW c \in Clients, CompleteCommit(c) PROVE Kept(w)'
  <2>1. CASE w = req[c].upload
    <3>1. Finishing(w)'
      BY <1>15, <2>1, CompleteCommitEffect DEF Finishing
    <3>2. /\ Missing(received[w]) = {} /\ received[w] \in Parts /\ req[c].assembled \in Parts
          /\ \A k \in Chunks : req[c].assembled[k] = received[w][k]
      BY <1>15, <2>1, CompleteCommitEffect DEF AssembledIsReceived, Missing, Request
    <3>3. req[c].assembled = received[w]
      BY <3>2 DEF Parts
    <3>4. w \in told' /\ files'[w] = <<received[w]>> /\ received' = received
      BY <1>15, <2>1, <3>3, CompleteCommitEffect
    <3>5. QED
      BY <3>1, <3>2, <3>4 DEF Missing
  <2>2. CASE w # req[c].upload
    <3>1. ~Finishing(w)
      BY <1>15, CompleteCommitEffect DEF Finishing
    <3>2. Closed(w)
      BY <1>15, <2>2, <3>1, CompleteCommitEffect DEF StoredIsClosed
    <3>3. /\ UNCHANGED <<open, dirs>>
          /\ \A d \in Clients : req'[d] = req[d] /\ (req[d].upload = w => pc'[d] = pc[d])
      BY <1>15, <2>2, CompleteCommitEffect DEF Others
    <3>4. Closed(w)'
      BY <3>2, <3>3 DEF Closed
    <3>5. QED
      BY <1>15, <2>2, <3>4, CompleteCommitEffect DEF StoredIsClosed
  <2>3. QED
    BY <2>1, <2>2
<1>16. ASSUME NEW c \in Clients, CompleteRaises(c) PROVE Kept(w)'
  <2>1. ~Finishing(w)
    BY <1>16, CompleteRaisesEffect DEF Finishing
  <2>2. Closed(w) /\ w # req[c].upload
    BY <1>16, <2>1, CompleteRaisesEffect DEF StoredIsClosed, Closed
  <2>3. Closed(w)'
    BY <1>16, <2>2, CompleteRaisesEffect DEF Others, Closed
  <2>4. QED
    BY <1>16, <2>2, <2>3, CompleteRaisesEffect DEF StoredIsClosed
<1>17. CASE Crash
  BY <1>17 DEF Crash, StoredIsClosed, Closed, NoRequest, storage
<1>18. CASE UNCHANGED vars
  BY <1>18 DEF vars, StoredIsClosed, Finishing, Closed
<1>19. QED
  BY <1>1, <1>2, <1>3, <1>4, <1>5, <1>6, <1>7, <1>8, <1>9, <1>10, <1>11, <1>12, <1>13, <1>14, <1>15, <1>16, <1>17, <1>18 DEF Next, Start, Step, Quiet

-----------------------------------------------------------------------------
(* The theorems *)

LEMMA Initially == Init => IInv
<1>. SUFFICES ASSUME Init PROVE IInv
  OBVIOUS
<1>. USE DEF Init
<1>1. TypeOK
  BY NullTypes DEF TypeOK
<1>2. LoopIsKept /\ LockIsKept /\ NewIsUnknown
  BY UploadAssumption DEF LoopIsKept, LockIsKept, NewIsUnknown, Opening
<1>3. NamedIsTold /\ ChunkIsNamed /\ AddedIsOnDisk /\ ReceivedIsOnDisk /\ AssembledIsReceived
  BY DEF NamedIsTold, ChunkIsNamed, AddedIsOnDisk, ReceivedIsOnDisk, AssembledIsReceived, NoRequest
<1>4. StoredIsClosed
  BY DEF StoredIsClosed
<1>5. QED
  BY <1>1, <1>2, <1>3, <1>4 DEF IInv

LEMMA Inductive ==
    ASSUME IInv, [Next]_vars
    PROVE  IInv'
BY TypeStays, OpenStays, LoopStays, LockStays, NewStays, NamedStays, ChunkStays, AddedStays,
   ReceivedStays, AssembledStays, StoredStays DEF IInv

\* The inductive invariant: who may hold the event loop and the lock, which uploads a
\* request can name, what has reached the disk, and that a stored upload is closed.
THEOREM Invariance == Spec => []IInv
<1>1. Init => IInv
  BY Initially
<1>2. IInv /\ [Next]_vars => IInv'
  BY Inductive
<1>3. QED
  BY <1>1, <1>2, PTL DEF Spec

\* Every variable of the chunked upload keeps its type: only uploads a client was told
\* of have a session, and a chunk is never counted beyond the last one.
THEOREM TypeCorrect == Spec => []TypeOK
BY Invariance, PTL DEF IInv

\* A chunk that was answered for is on disk as it was sent for as long as the session
\* is there: no clean-up, of whichever request, takes the files of an open upload.
THEOREM ReceivedStaysOnDisk == Spec => []ReceivedIsOnDisk
BY Invariance, PTL DEF IInv

\* Every file that complete stores is whole and is what was received, whatever is
\* repeated, cancelled, expired or lost in a crash while it is being assembled.
THEOREM StoredFilesAreReceived == Spec => []StoredIsReceived
<1>1. IInv => StoredIsReceived
  BY DEF IInv, TypeOK, StoredIsClosed, StoredIsReceived
<1>2. QED
  BY <1>1, Invariance, PTL

-----------------------------------------------------------------------------
(* Chunked uploads implement UploadLedger *)

\* Most steps leave what was received and what was stored alone.
LEMMA LedgerStays ==
    ASSUME IInv, [Next]_vars
    PROVE  \/ UNCHANGED <<told, received, files>>
           \/ \E c \in Clients : InitOpen(c) \/ ChunkAdd(c) \/ CompleteCommit(c)
<1>. DEFINE Same == UNCHANGED <<told, received, files>>
<1>1. ASSUME NEW c \in Clients, Start(c) PROVE Same
  BY <1>1 DEF Start, InitMkdir, CompleteCheck, CancelStart, ChunkLookup, memory, storage
<1>2. ASSUME NEW c \in Clients, Step(c), ~InitOpen(c), ~ChunkAdd(c), ~CompleteCommit(c) PROVE Same
  BY <1>2 DEF Step, Drop, Unlink, Rmdir, InitLock, InitRaises, InitExpire, ChunkWrite,
              CompleteRead, CompleteRaises, memory, storage
<1>3. CASE Crash
  BY <1>3 DEF Crash, storage
<1>4. CASE UNCHANGED vars
  BY <1>4 DEF vars
<1>5. QED
  BY <1>1, <1>2, <1>3, <1>4 DEF Next, Quiet

LEMMA UntoldStays ==
    ASSUME IInv, NothingBeforeTold, [Next]_vars
    PROVE  NothingBeforeTold'
<1>. USE DEF IInv, NothingBeforeTold
<1>1. CASE UNCHANGED <<told, received, files>>
  BY <1>1
<1>2. ASSUME NEW c \in Clients, InitOpen(c) PROVE NothingBeforeTold'
  BY <1>2, InitOpenEffect
<1>3. ASSUME NEW c \in Clients, ChunkAdd(c) PROVE NothingBeforeTold'
  <2>1. req[c].upload \in told
    BY <1>3, ChunkAddEffect DEF NamedIsTold
  <2>2. QED
    BY <1>3, <2>1, ChunkAddEffect
<1>4. ASSUME NEW c \in Clients, CompleteCommit(c) PROVE NothingBeforeTold'
  BY <1>4, CompleteCommitEffect
<1>5. QED
  BY <1>1, <1>2, <1>3, <1>4, LedgerStays

\* A session starts from nothing, and its upload had nothing before: opening one takes
\* nothing back.
THEOREM NewUploadsAreEmpty == Spec => []NothingBeforeTold
<1>1. Init => NothingBeforeTold
  BY DEF Init, NothingBeforeTold
<1>2. IInv /\ NothingBeforeTold /\ [Next]_vars => NothingBeforeTold'
  BY UntoldStays
<1>3. QED
  BY <1>1, <1>2, Invariance, PTL DEF Spec

LEMMA LedgerStarts == Init => Ledger!Init
BY DEF Init, Ledger!Init, NothingHere

\* A session that is opened has received nothing, nor had its upload before.
LEMMA OpenIsUnseen ==
    ASSUME IInv, NothingBeforeTold, NEW c \in Clients, InitOpen(c)
    PROVE  UNCHANGED <<received, files>>
<1>1. /\ received' \in [Uploads -> Parts] /\ files' = files
      /\ \A u \in Uploads : received'[u] = received[u]
  <2>1. req[c].upload \in Uploads \ told \/ req[c].upload \notin Uploads
    BY InitOpenEffect
  <2>2. QED
    BY <2>1, InitOpenEffect DEF IInv, NothingBeforeTold
<1>2. received' = received
  BY <1>1 DEF IInv, TypeOK
<1>3. QED
  BY <1>1, <1>2

\* A chunk is counted while no file is stored for its upload.
LEMMA AddAccepts ==
    ASSUME IInv, NEW c \in Clients, ChunkAdd(c)
    PROVE  Ledger!Next
<1>. DEFINE u == req[c].upload
            k == req[c].chunk
            content == req[c].content
<1>1. /\ u \in told /\ u \in Uploads /\ k \in Chunks /\ content \in Contents
  BY ChunkAddEffect DEF IInv, TypeOK, NamedIsTold, ChunkIsNamed
<1>2. files[u] = <<>>
  <2>1. ~Finishing(u)
    BY ChunkAddEffect DEF Finishing
  <2>2. ~Closed(u)
    BY ChunkAddEffect DEF Closed
  <2>3. QED
    BY <1>1, <2>1, <2>2 DEF IInv, StoredIsClosed
<1>3. received' = [received EXCEPT ![u][k] = content] /\ files' = files
  BY DEF ChunkAdd, storage
<1>4. Ledger!Accept(u, k, content)
  BY <1>2, <1>3 DEF Ledger!Accept, Ledger!Unsettled
<1>5. QED
  BY <1>1, <1>4 DEF Ledger!Next

\* What is committed is whole, and what was received.
LEMMA CommitStores ==
    ASSUME IInv, NEW c \in Clients, CompleteCommit(c)
    PROVE  Ledger!Next
<1>. DEFINE u == req[c].upload
<1>1. pc[c] = "save" /\ u \in Uploads /\ req[c] \in Request
  BY CompleteCommitEffect DEF IInv, TypeOK, NamedIsTold
<1>2. /\ files[u] = <<>> /\ Missing(received[u]) = {} /\ Missing(req[c].assembled) = {}
      /\ \A k \in Chunks : req[c].assembled[k] \in {None, received[u][k]}
  BY <1>1 DEF IInv, AssembledIsReceived
<1>3. req[c].assembled = received[u]
  <2>1. req[c].assembled \in Parts /\ received[u] \in Parts
    BY <1>1 DEF IInv, TypeOK, Request
  <2>2. \A k \in Chunks : req[c].assembled[k] = received[u][k]
    BY <1>2 DEF Missing
  <2>3. QED
    BY <2>1, <2>2 DEF Parts
<1>4. files' = [files EXCEPT ![u] = <<received[u]>>] /\ received' = received
  <2>1. files' = [files EXCEPT ![u] = Append(files[u], req[c].assembled)]
    BY DEF CompleteCommit
  <2>2. Append(files[u], req[c].assembled) = <<received[u]>>
    BY <1>2, <1>3
  <2>3. QED
    BY <2>1, <2>2 DEF CompleteCommit, memory
<1>5. Ledger!Store(u)
  BY <1>2, <1>4 DEF Ledger!Store, Ledger!Unsettled, Ledger!Whole, Missing
<1>6. QED
  BY <1>1, <1>5 DEF Ledger!Next

LEMMA LedgerStep ==
    ASSUME IInv, NothingBeforeTold, [Next]_vars
    PROVE  [Ledger!Next]_<<received, files>>
<1>1. CASE UNCHANGED <<told, received, files>>
  BY <1>1
<1>2. ASSUME NEW c \in Clients, InitOpen(c) PROVE UNCHANGED <<received, files>>
  BY <1>2, OpenIsUnseen
<1>3. ASSUME NEW c \in Clients, ChunkAdd(c) PROVE Ledger!Next
  BY <1>3, AddAccepts
<1>4. ASSUME NEW c \in Clients, CompleteCommit(c) PROVE Ledger!Next
  BY <1>4, CommitStores
<1>5. QED
  BY <1>1, <1>2, <1>3, <1>4, LedgerStays

\* Whatever is repeated, cancelled, expired or lost in a crash at any point, all that can
\* be seen of an upload is that chunks are accepted for it and that, once, the whole of
\* them becomes a file, in one step and with no chunk accepted after it.
THEOREM ImplementsLedger == Spec => UploadIsAtomic
<1>1. Init => Ledger!Init
  BY LedgerStarts
<1>2. IInv /\ NothingBeforeTold /\ [Next]_vars => [Ledger!Next]_<<received, files>>
  BY LedgerStep
<1>3. Spec => Ledger!Init /\ [][Ledger!Next]_<<received, files>>
  BY <1>1, <1>2, Invariance, NewUploadsAreEmpty, PTL DEF Spec
<1>4. QED
  BY <1>3 DEF UploadIsAtomic, Ledger!Spec
=============================================================================
