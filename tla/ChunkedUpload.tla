---------------------------- MODULE ChunkedUpload ----------------------------
(***************************************************************************)
(* Chunked uploads (chunked_upload.py) in one worker process.  The upload  *)
(* sessions are a dictionary in the memory of the process, the chunks are  *)
(* files in one directory per upload.                                      *)
(*                                                                         *)
(* `init' and `cancel' are plain `def' handlers and run on threads.        *)
(* `chunk' and `complete' are `async def' and share the event loop; the    *)
(* only call they await that suspends is file.read(), because a chunk is   *)
(* larger than what an upload keeps in memory.                             *)
(***************************************************************************)
EXTENDS Integers, FiniteSets, Sequences, UnitOfWork

CONSTANTS
    Uploads,  \* upload ids: a uuid4 never comes twice
    Chunks,   \* indices of the chunks of an upload, the same for all
    Contents, \* what a client may send as a chunk
    Clients,  \* requests in progress
    Crashes,  \* TRUE if the worker may die
    None

ASSUME UploadAssumption ==
    /\ Chunks \subseteq Nat
    /\ None \notin Uploads \cup Contents \cup Clients
    /\ Crashes \in BOOLEAN

VARIABLES
    open,     \* keys of _upload_sessions
    told,     \* uploads whose id a client has been told
    received, \* upload -> chunk -> what was received for it, or None
    dirs,     \* uploads that have a directory
    disk,     \* upload -> chunk -> content of its file, or None
    files,    \* upload -> the FileUpload rows committed for it
    loop,     \* the request whose handler runs on the event loop, or None
    lock,     \* the holder of _lock, or None
    pc, req

vars == <<open, told, received, dirs, disk, files, loop, lock, pc, req>>
memory == <<open, told, received>>
storage == <<dirs, disk, files>>

NothingHere == [k \in Chunks |-> None]
Parts == [Chunks -> Contents \cup {None}]

\* A request: its upload, the chunk it brings, what it has assembled, the expired
\* sessions it is to drop and the upload it is dropping.
Request == [upload : Uploads \cup {None}, chunk : Chunks \cup {None},
            content : Contents \cup {None}, assembled : Parts,
            expired : SUBSET Uploads, drops : Uploads \cup {None}]
NoRequest == [upload |-> None, chunk |-> None, content |-> None,
              assembled |-> NothingHere, expired |-> {}, drops |-> None]

TypeOK ==
    /\ open \subseteq told /\ told \subseteq Uploads /\ dirs \subseteq Uploads
    /\ received \in [Uploads -> Parts]
    /\ disk \in [Uploads -> Parts]
    /\ files \in [Uploads -> Seq(Parts)]
    /\ loop \in Clients \cup {None} /\ lock \in Clients \cup {None}
    /\ pc \in [Clients -> {"idle", "enter", "expire", "await", "add", "assemble", "save",
                           "drop", "unlink", "rmdir"}]
    /\ req \in [Clients -> Request]

Init ==
    /\ open = {} /\ told = {} /\ dirs = {}
    /\ received = [u \in Uploads |-> NothingHere]
    /\ disk = [u \in Uploads |-> NothingHere]
    /\ files = [u \in Uploads |-> <<>>]
    /\ loop = None /\ lock = None
    /\ pc = [c \in Clients |-> "idle"]
    /\ req = [c \in Clients |-> NoRequest]

Goto(c, from, to, r) ==
    /\ pc[c] = from
    /\ pc' = [pc EXCEPT ![c] = to]
    /\ req' = [req EXCEPT ![c] = r]

\* A handler keeps the loop until it awaits something that suspends, or ends.
TakeLoop(c) == loop = None /\ loop' = c
LeaveLoop(c) == loop' = IF loop = c THEN None ELSE loop

\* The request ends, with an answer or an exception.
Answer(c, from) == Goto(c, from, "idle", NoRequest) /\ LeaveLoop(c)

-----------------------------------------------------------------------------
(* _cleanup_session, of which the lock is no part *)

\* Mutant: the directory goes first.
DropLater(c) ==
    /\ Goto(c, "drop", "unlink", [req[c] EXCEPT !.drops = req[c].upload])
    /\ UNCHANGED <<memory, storage, loop, lock>>

\* The session is popped ...
Drop(c) ==
    /\ Goto(c, "drop", "unlink", [req[c] EXCEPT !.drops = req[c].upload])
    /\ open' = open \ {req[c].upload}
    /\ UNCHANGED <<told, received, storage, loop, lock>>

\* ... then rmtree removes the files that it finds in the directory ...
Unlink(c) ==
    /\ Goto(c, "unlink", "rmdir", req[c])
    /\ disk' = [disk EXCEPT ![req[c].drops] = NothingHere]
    /\ UNCHANGED <<memory, dirs, files, loop, lock>>

\* ... and the directory, unless a file has come into it meanwhile: that error is
\* ignored.  Within init the next expired session follows.
Rmdir(c) ==
    LET u == req[c].drops IN
    /\ pc[c] = "rmdir"
    /\ dirs' = IF disk[u] = NothingHere THEN dirs \ {u} ELSE dirs
    /\ IF lock = c THEN Goto(c, "rmdir", "expire", [req[c] EXCEPT !.drops = None]) /\ UNCHANGED loop
                   ELSE Answer(c, "rmdir")
    /\ UNCHANGED <<memory, disk, files, lock>>

-----------------------------------------------------------------------------
(* POST /init *)

\* The directory is made before there is a session.
InitMkdir(c) ==
    /\ \E u \in Uploads \ (dirs \cup told) : /\ Goto(c, "idle", "enter", [NoRequest EXCEPT !.upload = u])
                               /\ dirs' = dirs \cup {u}
    /\ UNCHANGED <<memory, disk, files, loop, lock>>

\* Under the lock: any of the sessions may be older than the TTL.
InitLock(c) ==
    /\ Available(lock, c, None)
    /\ lock' = c
    /\ \E old \in SUBSET open : Goto(c, "enter", "expire", [req[c] EXCEPT !.expired = old])
    /\ UNCHANGED <<memory, storage, loop>>

\* Another request pops its session, without the lock, while the dictionary is being
\* iterated: RuntimeError.  The lock is released on the way out.
InitRaises(c) ==
    /\ Available(lock, c, None)
    /\ \E d \in Clients : pc[d] = "drop" /\ req[d].upload \in open
    /\ Answer(c, "enter")
    /\ UNCHANGED <<memory, storage, lock>>

\* The next expired session is popped.
InitExpire(c) ==
    /\ \E u \in req[c].expired :
         /\ Goto(c, "expire", "unlink", [req[c] EXCEPT !.expired = @ \ {u}, !.drops = u])
         /\ open' = open \ {u}
    /\ UNCHANGED <<told, received, storage, loop, lock>>

InitOpen(c) ==
    LET u == req[c].upload IN
    /\ req[c].expired = {}
    /\ Answer(c, "expire")
    /\ open' = open \cup {u}
    /\ told' = told \cup {u}
    /\ received' = [received EXCEPT ![u] = NothingHere]
    /\ lock' = None
    /\ UNCHANGED storage

-----------------------------------------------------------------------------
(* POST /{id}/chunk *)

\* The session is looked up, then the handler awaits the data.  404 without one.
ChunkLookup(c, u, k, content) ==
    /\ loop = None
    /\ u \in open
    /\ Goto(c, "idle", "await", [NoRequest EXCEPT !.upload = u, !.chunk = k, !.content = content])
    /\ UNCHANGED <<memory, storage, loop, lock>>

\* Mutant: the chunk is only counted.
ChunkLost(c) ==
    /\ TakeLoop(c)
    /\ Goto(c, "await", "add", req[c])
    /\ UNCHANGED <<memory, storage, lock>>

\* The file is written, or the directory is gone and open() raises.
ChunkWrite(c) ==
    LET r == req[c] IN
    /\ pc[c] = "await" /\ loop = None
    /\ IF r.upload \in dirs
         THEN /\ TakeLoop(c)
              /\ Goto(c, "await", "add", r)
              /\ disk' = [disk EXCEPT ![r.upload][r.chunk] = r.content]
         ELSE Answer(c, "await") /\ UNCHANGED disk
    /\ UNCHANGED <<memory, dirs, files, lock>>

\* The loop stands still until the lock is free.
ChunkAdd(c) ==
    LET r == req[c] IN
    /\ Available(lock, c, None)
    /\ Answer(c, "add")
    /\ received' = [received EXCEPT ![r.upload][r.chunk] = r.content]
    /\ UNCHANGED <<open, told, storage, lock>>

-----------------------------------------------------------------------------
(* POST /{id}/complete *)

Missing(parts) == {k \in Chunks : parts[k] = None}

\* Mutant: the chunks are not counted.
CompleteUncounted(c, u) ==
    /\ u \in open
    /\ TakeLoop(c)
    /\ Goto(c, "idle", "save", [NoRequest EXCEPT !.upload = u, !.assembled = disk[u]])
    /\ UNCHANGED <<memory, storage, lock>>

\* 404 without a session, 400 while chunks are missing.
CompleteCheck(c, u) ==
    /\ u \in open
    /\ Missing(received[u]) = {}
    /\ TakeLoop(c)
    /\ Goto(c, "idle", "assemble", [NoRequest EXCEPT !.upload = u])
    /\ UNCHANGED <<memory, storage, lock>>

\* The chunks are read in order; 500 if one is not on disk.
CompleteRead(c) ==
    LET r == req[c] IN
    /\ pc[c] = "assemble"
    /\ \/ Missing(r.assembled) = {} /\ Goto(c, "assemble", "save", r) /\ UNCHANGED loop
       \/ \E k \in Missing(r.assembled) :
            /\ \A j \in Missing(r.assembled) : k <= j
            /\ IF disk[r.upload][k] = None THEN Answer(c, "assemble")
               ELSE /\ Goto(c, "assemble", "assemble", [r EXCEPT !.assembled[k] = disk[r.upload][k]])
                    /\ UNCHANGED loop
    /\ UNCHANGED <<memory, storage, lock>>

\* Mutant: the session stays.
CompleteCommitOnly(c) ==
    LET r == req[c] IN
    /\ Answer(c, "save")
    /\ files' = [files EXCEPT ![r.upload] = Append(@, r.assembled)]
    /\ UNCHANGED <<memory, dirs, disk, lock>>

\* Stored, committed; the session is dropped after that.
CompleteCommit(c) ==
    LET r == req[c] IN
    /\ Goto(c, "save", "drop", r)
    /\ files' = [files EXCEPT ![r.upload] = Append(@, r.assembled)]
    /\ UNCHANGED <<memory, dirs, disk, loop, lock>>

\* The object store or the database refuses: the session is kept for another try.
CompleteRaises(c) ==
    /\ Answer(c, "save")
    /\ UNCHANGED <<memory, storage, lock>>

-----------------------------------------------------------------------------
(* DELETE /{id}, and the end of the process *)

\* Nothing is looked up; an unknown id is no error.
CancelStart(c, u) ==
    /\ u \in told
    /\ Goto(c, "idle", "drop", [NoRequest EXCEPT !.upload = u])
    /\ UNCHANGED <<memory, storage, loop, lock>>

\* The worker dies and is started again: the sessions are gone, the chunks are not.
\* (What a dropped session has received is never looked at.)
Crash ==
    /\ Crashes
    /\ open' = {}
    /\ loop' = None /\ lock' = None
    /\ pc' = [c \in Clients |-> "idle"]
    /\ req' = [c \in Clients |-> NoRequest]
    /\ UNCHANGED <<told, received, storage>>

Quiet == (\A c \in Clients : pc[c] = "idle") /\ UNCHANGED vars

Start(c) ==
    \/ InitMkdir(c)
    \/ \E u \in Uploads : CompleteCheck(c, u) \/ CancelStart(c, u)
    \/ \E u \in Uploads, k \in Chunks, content \in Contents : ChunkLookup(c, u, k, content)

Step(c) ==
    \/ Drop(c) \/ Unlink(c) \/ Rmdir(c)
    \/ InitLock(c) \/ InitRaises(c) \/ InitExpire(c) \/ InitOpen(c)
    \/ ChunkWrite(c) \/ ChunkAdd(c)
    \/ CompleteRead(c) \/ CompleteCommit(c) \/ CompleteRaises(c)

Next == (\E c \in Clients : Start(c) \/ Step(c)) \/ Crash \/ Quiet

Spec == Init /\ [][Next]_vars

-----------------------------------------------------------------------------
(* Properties *)

\* Every stored file is whole and consists of exactly the chunks that were answered
\* for, in spite of cancellations, expiry and repeated chunks at any moment.
StoredIsReceived ==
    \A u \in Uploads : \A i \in DOMAIN files[u] :
        Missing(files[u][i]) = {} /\ files[u][i] = received[u]

\* The chunk is written and not yet counted.
BeingReceived(u, k) ==
    \E c \in Clients : pc[c] = "add" /\ req[c].upload = u /\ req[c].chunk = k

\* While an upload can be completed, what was answered for is on disk as it was sent;
\* only the chunk being received is ahead of that.
ReceivedIsOnDisk ==
    \A u \in open, k \in Chunks :
        received[u][k] # None /\ ~BeingReceived(u, k)
            => u \in dirs /\ disk[u][k] = received[u][k]

\* An upload is stored in one step, once, out of what was accepted for it, and takes
\* no chunk after that; whatever becomes of its session, nothing else can be seen of it.
Ledger == INSTANCE UploadLedger WITH accepted <- received, stored <- files
UploadIsAtomic == Ledger!Spec

-----------------------------------------------------------------------------
(* The inductive invariant *)

\* A handler that does not await keeps the event loop, and init keeps the lock, on
\* another thread, while it drops the expired sessions.
LoopIsKept ==
    \A c \in Clients :
        /\ pc[c] \in {"add", "assemble", "save"} => loop = c
        /\ loop = c => pc[c] \in {"add", "assemble", "save", "drop", "unlink", "rmdir"}
LockIsKept ==
    \A c \in Clients :
        /\ pc[c] = "expire" => lock = c
        /\ lock = c => pc[c] \in {"expire", "unlink", "rmdir"} /\ loop # c

\* The id of an upload that is being opened has a directory, and nobody else knows it.
Opening(c) == pc[c] = "enter" \/ lock = c
NewIsUnknown ==
    \A c \in Clients : Opening(c) =>
        /\ req[c].upload \in dirs \ told
        /\ \A d \in Clients \ {c} : Opening(d) => req[d].upload # req[c].upload

\* Every other id that a request names is one that a client was told, and a session
\* that is being cleaned up is not open again.
NamedIsTold ==
    \A c \in Clients :
        /\ pc[c] \in {"await", "add", "assemble", "save", "drop"} => req[c].upload \in told
        /\ req[c].expired \subseteq told
        /\ pc[c] \in {"unlink", "rmdir"} => /\ req[c].drops \in told \ open
                                            /\ lock # c => req[c].drops = req[c].upload

ChunkIsNamed ==
    \A c \in Clients : pc[c] \in {"await", "add"} =>
                           req[c].chunk \in Chunks /\ req[c].content \in Contents

\* A chunk that is about to be counted is on disk, unless the upload is gone.
AddedIsOnDisk ==
    \A c \in Clients : pc[c] = "add" /\ req[c].upload \in open =>
                           disk[req[c].upload][req[c].chunk] = req[c].content

\* What is being assembled is what was received: a cancellation can take chunks away,
\* nothing can put others in their place.
AssembledIsReceived ==
    \A c \in Clients :
        LET u == req[c].upload IN
        /\ pc[c] \in {"assemble", "save"} =>
             /\ files[u] = <<>> /\ Missing(received[u]) = {}
             /\ \A k \in Chunks : req[c].assembled[k] \in {None, received[u][k]}
        /\ pc[c] = "assemble" => \A k \in Chunks : disk[u][k] \in {None, received[u][k]}
        /\ pc[c] = "save" => Missing(req[c].assembled) = {}

\* The request that stored the file is still dropping the session and its chunks.
Finishing(u) ==
    \E c \in Clients :
        /\ loop = c /\ req[c].upload = u
        /\ \/ pc[c] = "drop"
           \/ pc[c] = "unlink" /\ u \notin open
           \/ pc[c] = "rmdir" /\ u \notin open /\ disk[u] = NothingHere

\* No request can change what the upload has received, or complete it.
Closed(u) ==
    /\ u \notin open
    /\ \A c \in Clients : req[c].upload = u =>
           /\ pc[c] \notin {"add", "assemble", "save"}
           /\ pc[c] = "await" => u \notin dirs

StoredIsClosed ==
    \A u \in Uploads : files[u] # <<>> =>
        /\ u \in told
        /\ Len(files[u]) = 1 /\ files[u][1] = received[u] /\ Missing(received[u]) = {}
        /\ Finishing(u) \/ Closed(u)

IInv ==
    /\ TypeOK
    /\ open \subseteq dirs
    /\ LoopIsKept /\ LockIsKept
    /\ NewIsUnknown /\ NamedIsTold /\ ChunkIsNamed
    /\ AddedIsOnDisk /\ ReceivedIsOnDisk
    /\ AssembledIsReceived
    /\ StoredIsClosed

\* Nothing was received for an upload before its id was given out.
NothingBeforeTold == \A u \in Uploads \ told : received[u] = NothingHere
=============================================================================
