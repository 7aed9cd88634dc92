------------------------------- MODULE Files --------------------------------
(***************************************************************************)
(* The file transfer: handle_file_request, handle_file_upload and          *)
(* handle_file_download (net/session.cpp) over the tables files and        *)
(* file_chunks (db/file_store.cpp), and the hourly cleanup (server.cpp).   *)
(*                                                                         *)
(* Every call of the store is one step under the database lock; handlers   *)
(* of different sessions and the cleanup interleave between the calls.     *)
(* The tables survive a restart; the state of an upload belongs to the     *)
(* session that began it and is lost with it.  Sizes are in units of which *)
(* the download's 64 KB are DownloadChunk; a frame holds less data than    *)
(* that, FrameData.  Byte counts and progress frames are left out; a       *)
(* handler that only answers with an error is a stuttering step.           *)
(***************************************************************************)
EXTENDS Integers, FiniteSets

CONSTANTS
    Session,
    File,          \* file ids, chosen by the clients
    None,
    Size,          \* the file sizes clients announce
    ChunkSize,     \* the chunk sizes clients prefer
    DownloadChunk, \* the chunk size of handle_file_download
    FrameData,     \* the most data of a chunk that fits in a frame
    MaxSize,       \* max_file_size
    Ttl,           \* kDefaultTtlSeconds
    MaxTime,       \* bound: the clock
    Scanner,       \* whether a virus scanner is connected
    Reuse,         \* whether clients request the id of a file that is gone
    Faults         \* calls of the store that may fail and are not reported

(* A row of the table files. *)
Row == [size : Nat \ {0}, expires : Nat, complete : BOOLEAN]

ASSUME FilesAssumption ==
    /\ None \notin File
    /\ Size \subseteq Nat /\ ChunkSize \subseteq Nat \ {0}
    /\ DownloadChunk \in Nat \ {0} /\ MaxSize \in Nat
    /\ FrameData \in 1..(DownloadChunk - 1)
    /\ Ttl \in Nat \ {0} /\ MaxTime \in Nat
    /\ Scanner \in BOOLEAN /\ Reuse \in BOOLEAN
    /\ Faults \subseteq {"get", "delete", "mark"}

ASSUME NoneAssumption == None \notin Row /\ None \notin Nat

VARIABLES
    now,       \* nowUnix()
    files,     \* the table files
    chunks,    \* the table file_chunks
    uploads,   \* active_uploads_ of every session: chunks expected, or None
    step,      \* the handler a session is in between two calls of the store
    requested, \* ids that have been requested (history)
    received   \* what a session was sent of a complete file (history)

tables == <<files, chunks>>
vars == <<now, files, chunks, uploads, step, requested, received>>

(* Mutant: rounded down, a last partial chunk is not counted. *)
TotalChunksDown(size, chunk) == size \div chunk

(* total_chunks: the last chunk may be partial. *)
TotalChunks(size, chunk) == (size + chunk - 1) \div chunk

Chunk == [file : File, index : Nat, bad : BOOLEAN]
Idle == [op |-> "idle"]
Scanning == [op : {"scan"}, file : File, next : Nat, bad : BOOLEAN]
Downloading == [op : {"download"}, file : File, next : Nat, total : Nat]

(* The file of the last download, None if it was not complete, and the     *)
(* chunks of it that were sent.                                            *)
Nothing == [file |-> None, sent |-> {}]

Succeeds(call, ok) == ok \/ call \in Faults

Init ==
    /\ now = 0
    /\ files = [f \in File |-> None]
    /\ chunks = {}
    /\ uploads = [s \in Session |-> [f \in File |-> None]]
    /\ step = [s \in Session |-> Idle]
    /\ requested = {}
    /\ received = [s \in Session |-> Nothing]

-----------------------------------------------------------------------------
(* FileStore. *)

(* Mutant: an id that exists is taken over instead of refused. *)
CreateFileReplace(f, size) ==
    files' = [files EXCEPT ![f] = [size |-> size, expires |-> now + Ttl, complete |-> FALSE]]

(* createFile: file_id is the primary key, an id in use is refused. *)
CreateFile(f, size) ==
    /\ files[f] = None
    /\ files' = [files EXCEPT ![f] = [size |-> size, expires |-> now + Ttl, complete |-> FALSE]]

(* Mutant: chunks are stored whether or not the file exists. *)
StoreChunkUnchecked(f, i, bad) ==
    chunks' = {c \in chunks : ~(c.file = f /\ c.index = i)}
                \cup {[file |-> f, index |-> i, bad |-> bad]}

(* storeChunk: the foreign key demands the file, a chunk that exists is    *)
(* replaced.                                                               *)
StoreChunk(f, i, bad) ==
    /\ files[f] # None
    /\ chunks' = {c \in chunks : ~(c.file = f /\ c.index = i)}
                   \cup {[file |-> f, index |-> i, bad |-> bad]}

(* getFile. *)
GetFile(f) == files[f]

(* getChunk: at most one, file and index are the primary key. *)
GetChunk(f, i) == {c \in chunks : c.file = f /\ c.index = i}

(* deleteFile and cleanupExpired: the chunks go with the file. *)
DeleteFiles(F) ==
    /\ files' = [f \in File |-> IF f \in F THEN None ELSE files[f]]
    /\ chunks' = {c \in chunks : c.file \notin F}

(* markComplete: an UPDATE, it changes nothing when the file is gone. *)
MarkComplete(f) ==
    files' = IF files[f] = None THEN files
             ELSE [files EXCEPT ![f].complete = TRUE]

-----------------------------------------------------------------------------
(* handle_file_request: the upload begins once the file is created.  Ids   *)
(* are unique by convention (proto/ircord.proto), not by enforcement.      *)
RequestFile(s, f, size, chunk) ==
    /\ step[s] = Idle
    /\ Reuse \/ f \notin requested \/ files[f] # None
    /\ size > 0 /\ size <= MaxSize
    /\ CreateFile(f, size)
    /\ uploads' = [uploads EXCEPT ![s][f] = TotalChunks(size, chunk)]
    /\ requested' = requested \cup {f}
    /\ UNCHANGED <<now, chunks, step, received>>

(* active_uploads_.erase. *)
EndUpload(s, f) == uploads' = [uploads EXCEPT ![s][f] = None]

(* handle_file_upload up to storeChunk, for a chunk of n units: the client *)
(* says which chunk is the last, and then the scan follows.  What n has to *)
(* do with the chunk size of the upload is not looked at.                  *)
UploadChunk(s, f, i, n, bad, last) ==
    /\ step[s] = Idle
    /\ n <= FrameData
    /\ uploads[s][f] # None
    /\ i < uploads[s][f]
    /\ StoreChunk(f, i, bad)
    /\ step' = [step EXCEPT ![s] =
                  IF last THEN [op |-> "scan", file |-> f, next |-> 0, bad |-> FALSE] ELSE Idle]
    /\ UNCHANGED <<now, files, uploads, requested, received>>

(* getChunk for the scan: chunks that are missing are passed over. *)
ReadForScan(s, ok) ==
    LET r == step[s]
        bad == ok /\ \E c \in GetChunk(r.file, r.next) : c.bad
    IN  /\ r.op = "scan" /\ r.next < uploads[s][r.file]
        /\ Succeeds("get", ok)
        /\ step' = [step EXCEPT ![s] = [op |-> "scan", file |-> r.file, next |-> r.next + 1,
                                        bad |-> r.bad \/ bad]]
        /\ UNCHANGED <<now, tables, uploads, requested, received>>

(* Mutant: the verdict of the scanner is only logged. *)
ThreatIgnored(r) == FALSE

(* The verdict: without a scanner, or when it fails, a file passes. *)
Threat(r) == Scanner /\ r.bad

(* Mutant: the upload of a finished file stays active. *)
FinishUploadKeeps(s, ok) ==
    LET r == step[s]
    IN  /\ r.op = "scan" /\ r.next >= uploads[s][r.file]
        /\ \/ /\ Threat(r) /\ ok
              /\ DeleteFiles({r.file})
           \/ /\ ~Threat(r) /\ ok
              /\ MarkComplete(r.file) /\ UNCHANGED chunks
           \/ /\ ~ok /\ (IF Threat(r) THEN "delete" ELSE "mark") \in Faults
              /\ UNCHANGED tables
        /\ step' = [step EXCEPT ![s] = Idle]
        /\ UNCHANGED <<now, uploads, requested, received>>

(* The end of handle_file_upload: an infected file is deleted, any other   *)
(* marked complete.  Neither result is looked at, the upload is over.      *)
FinishUpload(s, ok) ==
    LET r == step[s]
    IN  /\ r.op = "scan" /\ r.next >= uploads[s][r.file]
        /\ \/ /\ Threat(r) /\ ok
              /\ DeleteFiles({r.file})
           \/ /\ ~Threat(r) /\ ok
              /\ MarkComplete(r.file) /\ UNCHANGED chunks
           \/ /\ ~ok /\ (IF Threat(r) THEN "delete" ELSE "mark") \in Faults
              /\ UNCHANGED tables
        /\ EndUpload(s, r.file)
        /\ step' = [step EXCEPT ![s] = Idle]
        /\ UNCHANGED <<now, requested, received>>

(* handle_file_download up to getFile: complete or not, the file is sent   *)
(* in chunks of 64 KB, whatever the chunks of its upload were.             *)
StartDownload(s, f, i) ==
    /\ step[s] = Idle
    /\ GetFile(f) # None
    /\ i < TotalChunks(GetFile(f).size, DownloadChunk)
    /\ step' = [step EXCEPT ![s] =
                  [op |-> "download", file |-> f, next |-> i,
                   total |-> TotalChunks(GetFile(f).size, DownloadChunk)]]
    /\ received' = [received EXCEPT ![s] =
                      [file |-> IF GetFile(f).complete THEN f ELSE None, sent |-> {}]]
    /\ UNCHANGED <<now, tables, uploads, requested>>

(* One turn of the download's loop: a chunk is sent, with is_last when it  *)
(* is the last of total; one that is missing ends the download.            *)
SendChunk(s, ok) ==
    LET r == step[s]
        found == IF ok THEN GetChunk(r.file, r.next) ELSE {}
    IN  /\ r.op = "download"
        /\ Succeeds("get", ok)
        /\ step' = [step EXCEPT ![s] =
                      IF found # {} /\ r.next + 1 < r.total THEN [r EXCEPT !.next = @ + 1]
                      ELSE Idle]
        /\ received' = IF received[s].file = None THEN received
                        ELSE [received EXCEPT ![s].sent = @ \cup found]
        /\ UNCHANGED <<now, tables, uploads, requested>>

-----------------------------------------------------------------------------
(* The session is destroyed, and its active uploads with it. *)
EndSession(s) ==
    /\ step[s] = Idle
    /\ uploads' = [uploads EXCEPT ![s] = [f \in File |-> None]]
    /\ UNCHANGED <<now, tables, step, requested, received>>

(* do_read_frame_header: a chunk of n units that makes a frame larger than *)
(* kMaxMessageSize is not read, it ends the session.                       *)
OversizedChunk(s, n) == n > FrameData /\ EndSession(s)

(* The server stops at any point and starts again over the same database. *)
Restart ==
    /\ uploads' = [s \in Session |-> [f \in File |-> None]]
    /\ step' = [s \in Session |-> Idle]
    /\ UNCHANGED <<now, tables, requested, received>>

Expired == {f \in File : files[f] # None /\ files[f].expires <= now}

(* schedule_cleanup's timer. *)
CleanupExpired ==
    /\ Expired # {}
    /\ DeleteFiles(Expired)
    /\ UNCHANGED <<now, uploads, step, requested, received>>

Tick ==
    /\ now < MaxTime
    /\ now' = now + 1
    /\ UNCHANGED <<tables, uploads, step, requested, received>>

Next ==
    \/ \E s \in Session, f \in File, size \in Size, chunk \in ChunkSize :
         RequestFile(s, f, size, chunk)
    \/ \E s \in Session, f \in File, i \in 0..(MaxSize - 1), n \in 1..DownloadChunk,
          bad, last \in BOOLEAN :
         UploadChunk(s, f, i, n, bad, last)
    \/ \E s \in Session, n \in 1..DownloadChunk : OversizedChunk(s, n)
    \/ \E s \in Session, ok \in BOOLEAN :
         ReadForScan(s, ok) \/ FinishUpload(s, ok) \/ SendChunk(s, ok)
    \/ \E s \in Session, f \in File, i \in 0..(MaxSize - 1) : StartDownload(s, f, i)
    \/ \E s \in Session : EndSession(s)
    \/ Restart
    \/ CleanupExpired
    \/ Tick

Spec == Init /\ [][Next]_vars

-----------------------------------------------------------------------------
ChunksOfFile(f) == {c \in chunks : c.file = f}

(* Every variable has its type; an upload expects at least one chunk. *)
TypeOK ==
    /\ now \in Nat
    /\ files \in [File -> Row \cup {None}]
    /\ chunks \subseteq Chunk
    /\ uploads \in [Session -> [File -> (Nat \ {0}) \cup {None}]]
    /\ step \in [Session -> {Idle} \cup Scanning \cup Downloading]
    /\ requested \subseteq File
    /\ received \in [Session -> [file : File \cup {None}, sent : SUBSET Chunk]]

(* No chunk outlives or precedes its file, although sessions go on sending *)
(* chunks for files that the cleanup or a scan has removed.                *)
NoOrphans == \A c \in chunks : files[c.file] # None

(* A file is uploaded by one session at most. *)
OneUploader ==
    \A f \in File, s, t \in Session :
      uploads[s][f] # None /\ uploads[t][f] # None => s = t

(* A scan in progress belongs to an active upload of the session. *)
ScansAreUploads ==
    \A s \in Session : step[s].op = "scan" => uploads[s][step[s].file] # None

(* With ids that are not used twice, the content of a complete file does   *)
(* not change until the file is removed: what was announced to its readers *)
(* is what they get, however late another handler runs.                    *)
CompleteFrozen ==
    [][\A f \in File :
         /\ ~Reuse
         /\ files[f] # None /\ files[f].complete
         => files'[f] = None \/ (files'[f] = files[f] /\ ChunksOfFile(f)' = ChunksOfFile(f))]_vars

(* With a scanner, and reads that succeed, no complete file holds a chunk  *)
(* the scanner would object to; a delete that fails leaves the file        *)
(* incomplete for good.                                                    *)
CompleteIsClean ==
    Scanner /\ ~Reuse /\ "get" \notin Faults =>
      \A c \in chunks : files[c.file].complete => ~c.bad

(* An incomplete file whose uploader is gone stays as it is until it is    *)
(* removed: no session can resume, finish or take over the upload.         *)
AbandonedStays ==
    [][\A f \in File :
         /\ ~Reuse
         /\ files[f] # None /\ ~files[f].complete
         /\ \A s \in Session : uploads[s][f] = None
         => files'[f] = None \/ (files'[f] = files[f] /\ ChunksOfFile(f)' = ChunksOfFile(f))]_vars

(* What an upload may write, and when: a complete file only goes away, and *)
(* so does an incomplete one without an upload.                            *)
OnlyUploadersWrite == CompleteFrozen /\ AbandonedStays

(* Readers of a complete file: what they were sent is what the store holds *)
(* as long as the file exists, is free of what the scanner objects to, and *)
(* is the same for any two of them, the one that was cut off by the        *)
(* removal of the file included.  Nothing locks a file against writers     *)
(* between two turns of a download.                                        *)
DownloadsSound ==
    ~Reuse =>
      \A s \in Session : received[s].file # None =>
        /\ files[received[s].file] # None => received[s].sent \subseteq chunks
        /\ Scanner /\ "get" \notin Faults => \A c \in received[s].sent : ~c.bad
        /\ \A t \in Session : received[t].file = received[s].file =>
              \A c \in received[s].sent, d \in received[t].sent : c.index = d.index => c = d
=============================================================================
