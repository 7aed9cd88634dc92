---------------------------- MODULE FilesProofs -----------------------------
(***************************************************************************)
(* Proofs about Files, for any sessions, files, sizes and faults.          *)
(***************************************************************************)
EXTENDS Files, TLAPS

(* With ids that are not used twice: a file and an upload of it were       *)
(* requested, and a complete file has no upload.                           *)
Requested ==
    /\ \A f \in File : files[f] # None => f \in requested
    /\ ~Reuse => \A f \in File, s \in Session : uploads[s][f] # None => f \in requested

CompleteHasNoUpload ==
    ~Reuse => \A f \in File, s \in Session :
                files[f] # None /\ files[f].complete => uploads[s][f] = None

OnlyUploader == ~Reuse => OneUploader

(* The chunks of a file that is being uploaded are among those its upload  *)
(* expects, and a scan has seen those before its next.                     *)
ChunksExpected ==
    ~Reuse => \A c \in chunks, s \in Session :
                uploads[s][c.file] # None => c.index < uploads[s][c.file]

ScanHasSeen ==
    ~Reuse /\ "get" \notin Faults =>
      \A c \in chunks, s \in Session :
        step[s].op = "scan" /\ c.file = step[s].file /\ c.index < step[s].next /\ c.bad => step[s].bad

Uploads == ScansAreUploads /\ Requested /\ OnlyUploader /\ CompleteHasNoUpload

Contents == NoOrphans /\ ChunksExpected /\ ScanHasSeen /\ CompleteIsClean

Inv == TypeOK /\ Uploads /\ Contents

-----------------------------------------------------------------------------
(* A size and a chunk size that are not zero make at least one chunk. *)
LEMMA TotalChunksPositive ==
  ASSUME NEW size \in Nat \ {0}, NEW chunk \in Nat \ {0}
  PROVE  TotalChunks(size, chunk) \in Nat \ {0}
<1> DEFINE q == (size + chunk - 1) \div chunk
<1>1. /\ size + chunk - 1 \in Nat
      /\ size + chunk - 1 >= chunk
  OBVIOUS
<1>2. /\ q \in Int
      /\ size + chunk - 1 < chunk * (q + 1)
      /\ chunk * q <= size + chunk - 1
  BY <1>1
<1>3. q > 0
  <2>1. SUFFICES ASSUME q <= 0 PROVE FALSE
    BY <1>2
  <2>2. chunk * (q + 1) <= chunk
    <3>1. q + 1 <= 1
      BY <2>1, <1>2
    <3>2. \A x \in Int : x <= 1 => chunk * x <= chunk
      OBVIOUS
    <3> HIDE DEF q
    <3> QED BY <3>1, <3>2, <1>2
  <2> HIDE DEF q
  <2> QED BY <1>1, <1>2, <2>2
<1> QED BY <1>2, <1>3 DEF TotalChunks

(* What a handler is in tells its record. *)
LEMMA StepKinds ==
  ASSUME TypeOK, NEW s \in Session
  PROVE  /\ step[s].op = "scan" => step[s] \in Scanning
         /\ step[s].op = "download" => step[s] \in Downloading
BY DEF TypeOK, Idle, Scanning, Downloading

(* Removing files keeps the types of both tables. *)
LEMMA DeleteType ==
  ASSUME TypeOK, NEW F \in SUBSET File, DeleteFiles(F)
  PROVE  files' \in [File -> Row \cup {None}] /\ chunks' \subseteq Chunk
BY DEF TypeOK, DeleteFiles

(* The type invariant is inductive. *)
LEMMA TypeStep ==
  ASSUME TypeOK, [Next]_vars
  PROVE  TypeOK'
<1> USE FilesAssumption
<1>1. ASSUME NEW s \in Session, NEW f \in File, NEW size \in Size, NEW chunk \in ChunkSize,
             RequestFile(s, f, size, chunk)
      PROVE  TypeOK'
  <2>1. TotalChunks(size, chunk) \in Nat \ {0}
    BY <1>1, TotalChunksPositive DEF RequestFile
  <2>2. [size |-> size, expires |-> now + Ttl, complete |-> FALSE] \in Row
    BY <1>1 DEF RequestFile, TypeOK, Row
  <2> QED BY <1>1, <2>1, <2>2 DEF RequestFile, CreateFile, TypeOK
<1>2. ASSUME NEW s \in Session, NEW f \in File, NEW i \in 0..(MaxSize - 1), NEW n \in 1..DownloadChunk,
             NEW bad \in BOOLEAN, NEW last \in BOOLEAN, UploadChunk(s, f, i, n, bad, last)
      PROVE  TypeOK'
  <2>1. [file |-> f, index |-> i, bad |-> bad] \in Chunk
    BY DEF Chunk
  <2>2. [op |-> "scan", file |-> f, next |-> 0, bad |-> FALSE] \in Scanning
    BY DEF Scanning
  <2> QED BY <1>2, <2>1, <2>2 DEF UploadChunk, StoreChunk, TypeOK
<1>3. ASSUME NEW s \in Session, NEW ok \in BOOLEAN, ReadForScan(s, ok)
      PROVE  TypeOK'
  <2>1. step[s] \in Scanning
    BY <1>3, StepKinds DEF ReadForScan
  <2>2. step'[s] \in Scanning
    <3> DEFINE bad == step[s].bad \/ (ok /\ \E c \in GetChunk(step[s].file, step[s].next) : c.bad)
    <3>1. step'[s] = [op |-> "scan", file |-> step[s].file, next |-> step[s].next + 1, bad |-> bad]
      BY <1>3 DEF ReadForScan, TypeOK
    <3>2. bad \in BOOLEAN
      BY <2>1, Zenon DEF Scanning
    <3> HIDE DEF bad
    <3> QED BY <2>1, <3>1, <3>2 DEF Scanning
  <2>3. \A t \in Session : t # s => step'[t] = step[t]
    BY <1>3 DEF ReadForScan, TypeOK
  <2>4. step' \in [Session -> {Idle} \cup Scanning \cup Downloading]
    BY <1>3, <2>2, <2>3 DEF ReadForScan, TypeOK
  <2> QED BY <1>3, <2>4 DEF ReadForScan, TypeOK, tables
<1>4. ASSUME NEW s \in Session, NEW ok \in BOOLEAN, FinishUpload(s, ok)
      PROVE  TypeOK'
  <2>1. step[s] \in Scanning /\ step[s].file \in File
    BY <1>4, StepKinds DEF FinishUpload, Scanning
  <2>2. files' \in [File -> Row \cup {None}] /\ chunks' \subseteq Chunk
    <3>1. CASE DeleteFiles({step[s].file})
      BY <3>1, <2>1, DeleteType
    <3>2. CASE MarkComplete(step[s].file) /\ UNCHANGED chunks
      BY <3>2, <2>1 DEF MarkComplete, TypeOK, Row
    <3>3. CASE UNCHANGED tables
      BY <3>3 DEF TypeOK, tables
    <3> QED BY <1>4, <3>1, <3>2, <3>3 DEF FinishUpload
  <2> QED BY <1>4, <2>1, <2>2 DEF FinishUpload, EndUpload, TypeOK
<1>5. ASSUME NEW s \in Session, NEW ok \in BOOLEAN, SendChunk(s, ok)
      PROVE  TypeOK'
  <2>1. step[s] \in Downloading
    BY <1>5, StepKinds DEF SendChunk
  <2>2. [step[s] EXCEPT !.next = @ + 1] \in Downloading
    BY <2>1 DEF Downloading
  <2>3. received' \in [Session -> [file : File \cup {None}, sent : SUBSET Chunk]]
    BY <1>5 DEF SendChunk, GetChunk, TypeOK
  <2> QED BY <1>5, <2>2, <2>3 DEF SendChunk, TypeOK, tables
<1>6. ASSUME NEW s \in Session, NEW f \in File, NEW i \in 0..(MaxSize - 1), StartDownload(s, f, i)
      PROVE  TypeOK'
  <2>1. files[f] \in Row
    BY <1>6 DEF StartDownload, GetFile, TypeOK
  <2>2. TotalChunks(files[f].size, DownloadChunk) \in Nat
    BY <2>1, TotalChunksPositive DEF Row
  <2>3. [op |-> "download", file |-> f, next |-> i,
         total |-> TotalChunks(files[f].size, DownloadChunk)] \in Downloading
    BY <2>2 DEF Downloading
  <2>4. [file |-> IF files[f].complete THEN f ELSE None, sent |-> {}]
          \in [file : File \cup {None}, sent : SUBSET Chunk]
    OBVIOUS
  <2> QED BY <1>6, <2>3, <2>4 DEF StartDownload, GetFile, TypeOK, tables
<1>7. ASSUME NEW s \in Session, EndSession(s)
      PROVE  TypeOK'
  BY <1>7 DEF EndSession, TypeOK, tables
<1>8. CASE Restart
  BY <1>8 DEF Restart, TypeOK, tables
<1>9. CASE CleanupExpired
  <2>1. Expired \in SUBSET File
    BY DEF Expired
  <2> QED BY <1>9, <2>1, DeleteType DEF CleanupExpired, TypeOK
<1>10. CASE Tick
  BY <1>10 DEF Tick, TypeOK, tables
<1>11. CASE UNCHANGED vars
  BY <1>11 DEF vars, TypeOK
<1> QED BY <1>1, <1>2, <1>3, <1>4, <1>5, <1>6, <1>7, <1>8, <1>9, <1>10, <1>11
     DEF Next, OversizedChunk

-----------------------------------------------------------------------------
(* Who uploads what: one step per action. *)
LEMMA UploadsStep ==
  ASSUME Inv, TypeOK', [Next]_vars
  PROVE  Uploads'
<1> USE FilesAssumption DEF Uploads, ScansAreUploads, Requested, OnlyUploader, OneUploader,
                            CompleteHasNoUpload
<1>1. ASSUME NEW s \in Session, NEW f \in File, NEW size \in Size, NEW chunk \in ChunkSize,
             RequestFile(s, f, size, chunk)
      PROVE  Uploads'
  <2>1. /\ files[f] = None /\ requested' = requested \cup {f} /\ step' = step
        /\ Reuse \/ f \notin requested
    BY <1>1 DEF RequestFile, CreateFile
  <2>2. \A g \in File : files'[g] = IF g = f THEN [size |-> size, expires |-> now + Ttl, complete |-> FALSE]
                                              ELSE files[g]
    BY <1>1 DEF RequestFile, CreateFile, Inv, TypeOK
  <2>3. \A t \in Session, g \in File :
          uploads'[t][g] = IF t = s /\ g = f THEN TotalChunks(size, chunk) ELSE uploads[t][g]
    BY <1>1 DEF RequestFile, Inv, TypeOK
  <2>4. ScansAreUploads'
    <3>1. SUFFICES ASSUME NEW t \in Session, step[t].op = "scan"
                   PROVE  uploads'[t][step[t].file] # None
      BY <2>1
    <3>2. step[t].file \in File /\ uploads[t][step[t].file] # None
      BY <3>1, StepKinds DEF Inv, Scanning
    <3>3. t # s
      BY <1>1, <3>1 DEF RequestFile, Idle
    <3> QED BY <3>2, <3>3, <2>3
  <2>5. Requested'
    BY <2>1, <2>2, <2>3 DEF Inv
  <2>6. OnlyUploader'
    BY <2>1, <2>3 DEF Inv
  <2>7. CompleteHasNoUpload'
    BY <2>1, <2>2, <2>3 DEF Inv
  <2> QED BY <2>4, <2>5, <2>6, <2>7
<1>2. ASSUME NEW s \in Session, NEW f \in File, NEW i \in 0..(MaxSize - 1), NEW n \in 1..DownloadChunk,
             NEW bad \in BOOLEAN, NEW last \in BOOLEAN, UploadChunk(s, f, i, n, bad, last)
      PROVE  Uploads'
  BY <1>2 DEF UploadChunk, Inv, TypeOK, Idle
<1>3. ASSUME NEW s \in Session, NEW ok \in BOOLEAN, ReadForScan(s, ok)
      PROVE  Uploads'
  BY <1>3 DEF ReadForScan, Inv, TypeOK, tables
<1>4. ASSUME NEW s \in Session, NEW ok \in BOOLEAN, FinishUpload(s, ok)
      PROVE  Uploads'
  <2>1. step[s].file \in File
    BY <1>4, StepKinds DEF FinishUpload, Scanning, Inv
  <2>2. \A g \in File : files'[g] # None => files[g] # None
    BY <1>4, <2>1 DEF FinishUpload, DeleteFiles, MarkComplete, Inv, TypeOK, tables
  <2>3. \A g \in File : files'[g] # None /\ files'[g].complete =>
                          g = step[s].file \/ (files[g] # None /\ files[g].complete)
    BY <1>4, <2>1 DEF FinishUpload, DeleteFiles, MarkComplete, Inv, TypeOK, tables
  <2>4. \A t \in Session, g \in File :
          uploads'[t][g] = IF t = s /\ g = step[s].file THEN None ELSE uploads[t][g]
    BY <1>4, <2>1 DEF FinishUpload, EndUpload, Inv, TypeOK
  <2>5. \A t \in Session : step'[t] = IF t = s THEN Idle ELSE step[t]
    BY <1>4 DEF FinishUpload, Inv, TypeOK
  <2>6. uploads[s][step[s].file] # None
    BY <1>4 DEF FinishUpload, Inv
  <2>7. ScansAreUploads'
    <3>1. SUFFICES ASSUME NEW t \in Session, step'[t].op = "scan"
                   PROVE  uploads'[t][step'[t].file] # None
      OBVIOUS
    <3>2. t # s /\ step'[t] = step[t]
      BY <2>5, <3>1 DEF Idle
    <3>3. step[t].file \in File /\ uploads[t][step[t].file] # None
      BY <3>1, <3>2, StepKinds DEF Inv, Scanning
    <3> QED BY <3>2, <3>3, <2>4
  <2>8. Requested'
    BY <1>4, <2>2, <2>4 DEF FinishUpload, Inv
  <2>9. OnlyUploader'
    BY <2>4 DEF Inv
  <2>10. CompleteHasNoUpload'
    BY <2>1, <2>3, <2>4, <2>6 DEF Inv
  <2> QED BY <2>7, <2>8, <2>9, <2>10
<1>5. ASSUME NEW s \in Session, NEW ok \in BOOLEAN, SendChunk(s, ok)
      PROVE  Uploads'
  <2>1. \A t \in Session : step'[t].op = "scan" => step'[t] = step[t]
    BY <1>5, StepKinds DEF SendChunk, Inv, TypeOK, Idle, Downloading
  <2> QED BY <1>5, <2>1 DEF SendChunk, Inv, tables
<1>6. ASSUME NEW s \in Session, NEW f \in File, NEW i \in 0..(MaxSize - 1), StartDownload(s, f, i)
      PROVE  Uploads'
  BY <1>6 DEF StartDownload, Inv, TypeOK, tables
<1>7. ASSUME NEW s \in Session, EndSession(s)
      PROVE  Uploads'
  BY <1>7 DEF EndSession, Inv, TypeOK, tables, Idle
<1>8. CASE Restart
  BY <1>8 DEF Restart, Inv, TypeOK, tables, Idle
<1>9. CASE CleanupExpired
  BY <1>9 DEF CleanupExpired, DeleteFiles, Inv, TypeOK
<1>10. CASE Tick
  BY <1>10 DEF Tick, Inv, tables
<1>11. CASE UNCHANGED vars
  BY <1>11 DEF vars, Inv
<1> QED BY <1>1, <1>2, <1>3, <1>4, <1>5, <1>6, <1>7, <1>8, <1>9, <1>10, <1>11
     DEF Next, OversizedChunk

(* A step that leaves both tables alone, and adds no upload, keeps what    *)
(* Contents says of them if the scans go on or end.                        *)
LEMMA ContentsKept ==
  ASSUME Inv, UNCHANGED tables,
         \A t \in Session, g \in File : uploads'[t][g] = uploads[t][g] \/ uploads'[t][g] = None,
         \A t \in Session : step'[t].op = "scan" => step'[t] = step[t]
  PROVE  Contents'
BY DEF Inv, TypeOK, Chunk, Contents, NoOrphans, ChunksExpected, ScanHasSeen, CompleteIsClean, tables

(* What the chunks in the store are: one step per action. *)
LEMMA ContentsStep ==
  ASSUME Inv, TypeOK', [Next]_vars
  PROVE  Contents'
<1> USE FilesAssumption DEF Contents, NoOrphans, ChunksExpected, ScanHasSeen, CompleteIsClean
<1>0. \A c \in chunks : c.file \in File /\ c.index \in Nat
  BY DEF Inv, TypeOK, Chunk
<1>1. ASSUME NEW s \in Session, NEW f \in File, NEW size \in Size, NEW chunk \in ChunkSize,
             RequestFile(s, f, size, chunk)
      PROVE  Contents'
  <2>1. files[f] = None /\ chunks' = chunks /\ step' = step
    BY <1>1 DEF RequestFile, CreateFile
  <2>2. \A g \in File : g # f => files'[g] = files[g]
    BY <1>1 DEF RequestFile, CreateFile, Inv, TypeOK
  <2>3. \A t \in Session, g \in File : g # f => uploads'[t][g] = uploads[t][g]
    BY <1>1 DEF RequestFile, Inv, TypeOK
  <2>4. \A c \in chunks : c.file # f
    BY <2>1 DEF Inv
  <2> QED BY <1>0, <2>1, <2>2, <2>3, <2>4 DEF Inv
<1>2. ASSUME NEW s \in Session, NEW f \in File, NEW i \in 0..(MaxSize - 1), NEW n \in 1..DownloadChunk,
             NEW bad \in BOOLEAN, NEW last \in BOOLEAN, UploadChunk(s, f, i, n, bad, last)
      PROVE  Contents'
  <2> DEFINE new == [file |-> f, index |-> i, bad |-> bad]
  <2>1. /\ files' = files /\ uploads' = uploads /\ files[f] # None
        /\ uploads[s][f] # None /\ i < uploads[s][f]
        /\ step[s] = Idle
    BY <1>2 DEF UploadChunk, StoreChunk
  <2>2. \A c \in chunks' : c \in chunks \/ c = new
    BY <1>2 DEF UploadChunk, StoreChunk
  <2>3. new.file = f /\ new.index = i /\ new.bad = bad
    OBVIOUS
  <2>4. NoOrphans'
    BY <2>1, <2>2, <2>3 DEF Inv
  <2>5. \A t \in Session : ~Reuse /\ t # s => uploads[t][f] = None
    BY <2>1 DEF Inv, Uploads, OnlyUploader, OneUploader
  <2> HIDE DEF new
  <2>6. ChunksExpected'
    BY <2>1, <2>2, <2>3, <2>5 DEF Inv
  <2>7. ScanHasSeen'
    <3>1. SUFFICES ASSUME ~Reuse, "get" \notin Faults, NEW c \in chunks', NEW t \in Session,
                          step'[t].op = "scan", c.file = step'[t].file,
                          c.index < step'[t].next, c.bad
                   PROVE  step'[t].bad
      OBVIOUS
    <3>2. c.index \in Nat
      BY DEF TypeOK, Chunk
    <3>3. CASE t = s
      <4>1. step'[s] = [op |-> "scan", file |-> f, next |-> 0, bad |-> FALSE]
        BY <1>2, <3>1, <3>3 DEF UploadChunk, Idle, Inv, TypeOK
      <4> QED BY <3>1, <3>2, <3>3, <4>1
    <3>4. CASE t # s
      <4>1. step'[t] = step[t]
        BY <1>2, <3>4 DEF UploadChunk, Inv, TypeOK
      <4>2. uploads[t][step[t].file] # None
        BY <3>1, <4>1 DEF Inv, Uploads, ScansAreUploads
      <4>3. c # new
        BY <2>3, <2>5, <3>1, <3>4, <4>1, <4>2
      <4> QED BY <2>2, <3>1, <4>1, <4>3 DEF Inv
    <3> QED BY <3>3, <3>4
  <2>8. CompleteIsClean'
    <3>1. ~Reuse => ~files[f].complete
      BY <2>1 DEF Inv, Uploads, CompleteHasNoUpload, TypeOK, Row
    <3> QED BY <2>1, <2>2, <2>3, <3>1 DEF Inv
  <2> QED BY <2>4, <2>6, <2>7, <2>8
<1>3. ASSUME NEW s \in Session, NEW ok \in BOOLEAN, ReadForScan(s, ok)
      PROVE  Contents'
  <2>1. files' = files /\ chunks' = chunks /\ uploads' = uploads
    BY <1>3 DEF ReadForScan, tables
  <2>2. ScanHasSeen'
    <3>1. SUFFICES ASSUME ~Reuse, "get" \notin Faults, NEW c \in chunks, NEW t \in Session,
                          step'[t].op = "scan", c.file = step'[t].file,
                          c.index < step'[t].next, c.bad
                   PROVE  step'[t].bad
      BY <2>1
    <3>2. CASE t = s
      <4>1. /\ step[s] \in Scanning /\ step[s].op = "scan" /\ step[s].next \in Nat
        BY <1>3, StepKinds DEF ReadForScan, Scanning, Inv
      <4>2. ok
        BY <1>3, <3>1 DEF ReadForScan, Succeeds
      <4>3. /\ step'[s].file = step[s].file
            /\ step'[s].next = step[s].next + 1
            /\ step'[s].bad = (step[s].bad \/ (ok /\ \E d \in GetChunk(step[s].file, step[s].next) : d.bad))
        BY <1>3 DEF ReadForScan, Inv, TypeOK
      <4>4. CASE c.index < step[s].next
        BY <3>1, <3>2, <4>1, <4>3, <4>4 DEF Inv
      <4>5. CASE c.index = step[s].next
        <5>1. c \in GetChunk(step[s].file, step[s].next)
          BY <3>1, <3>2, <4>3, <4>5 DEF GetChunk
        <5> QED BY <3>1, <3>2, <4>2, <4>3, <5>1
      <4> QED BY <1>0, <3>1, <3>2, <4>1, <4>3, <4>4, <4>5
    <3>3. CASE t # s
      BY <1>3, <3>1, <3>3 DEF ReadForScan, Inv, TypeOK
    <3> QED BY <3>2, <3>3
  <2> QED BY <2>1, <2>2 DEF Inv
<1>4. ASSUME NEW s \in Session, NEW ok \in BOOLEAN, FinishUpload(s, ok)
      PROVE  Contents'
  <2> DEFINE r == step[s]
  <2>1. r \in Scanning /\ r.op = "scan" /\ r.file \in File
    BY <1>4, StepKinds DEF FinishUpload, Scanning, Inv
  <2>2. \A t \in Session, g \in File : uploads'[t][g] = uploads[t][g] \/ uploads'[t][g] = None
    BY <1>4, <2>1 DEF FinishUpload, EndUpload, Inv, TypeOK
  <2>3. \A t \in Session : step'[t].op = "scan" => step'[t] = step[t]
    BY <1>4 DEF FinishUpload, Inv, TypeOK, Idle
  <2>4. CASE DeleteFiles({r.file})
    <3>1. \A c \in chunks' : c \in chunks /\ files'[c.file] = files[c.file]
      BY <1>0, <2>4 DEF DeleteFiles
    <3> QED BY <1>0, <2>2, <2>3, <3>1 DEF Inv
  <2>5. CASE ~Threat(r) /\ MarkComplete(r.file) /\ UNCHANGED chunks
    <3>0. \A g \in File : files[g] # None => files'[g] # None
      <4>1. \A row \in Row : [row EXCEPT !.complete = TRUE] # None
        <5>1. \A row \in Row : [row EXCEPT !.complete = TRUE] \in Row
          BY DEF Row
        <5> QED BY <5>1, NoneAssumption
      <4> QED BY <2>1, <2>5, <4>1 DEF MarkComplete, Inv, TypeOK
    <3>1. \A g \in File : g # r.file => files'[g] = files[g]
      BY <2>1, <2>5 DEF MarkComplete, Inv, TypeOK, Row
    <3>2. ASSUME Scanner, ~Reuse, "get" \notin Faults, NEW c \in chunks, c.file = r.file
          PROVE  ~c.bad
      <4>1. ~r.bad
        BY <2>5, <3>2 DEF Threat
      <4>2. uploads[s][r.file] \in Nat /\ r.next \in Nat /\ r.next >= uploads[s][r.file]
        <5>1. uploads[s][r.file] # None /\ uploads[s][r.file] \in (Nat \ {0}) \cup {None}
          BY <2>1 DEF Inv, Uploads, ScansAreUploads, TypeOK
        <5>2. r.next >= uploads[s][r.file]
          BY <1>4 DEF FinishUpload
        <5>3. r.next \in Nat
          BY <2>1 DEF Scanning
        <5> QED BY <5>1, <5>2, <5>3
      <4>3. c.index < uploads[s][r.file]
        BY <2>1, <3>2 DEF Inv, Uploads, ScansAreUploads
      <4>4. c.index < r.next
        BY <1>0, <4>2, <4>3
      <4> QED BY <2>1, <3>2, <4>1, <4>4 DEF Inv
    <3>5. NoOrphans'
      <4>1. \A c \in chunks : c.file \in File /\ files[c.file] # None
        BY <1>0 DEF Inv
      <4>2. \A c \in chunks : files'[c.file] # None
        BY <3>0, <4>1
      <4> QED BY <2>5, <4>2
    <3>6. ChunksExpected'
      BY <1>0, <2>2, <2>5 DEF Inv
    <3>7. ScanHasSeen'
      BY <2>3, <2>5 DEF Inv
    <3>3. NoOrphans' /\ ChunksExpected' /\ ScanHasSeen'
      BY <3>5, <3>6, <3>7
    <3>4. CompleteIsClean'
      <4>1. SUFFICES ASSUME Scanner, ~Reuse, "get" \notin Faults, NEW c \in chunks,
                            files'[c.file].complete
                     PROVE  ~c.bad
        BY <2>5
      <4>2. CASE c.file = r.file
        BY <3>2, <4>1, <4>2
      <4>3. CASE c.file # r.file
        <5>1. files'[c.file] = files[c.file]
          BY <1>0, <3>1, <4>3
        <5>2. files[c.file].complete
          BY <4>1, <5>1
        <5> QED BY <4>1, <5>2 DEF Inv
      <4> QED BY <4>2, <4>3
    <3> QED BY <3>3, <3>4
  <2>6. CASE UNCHANGED tables
    BY <2>2, <2>3, <2>6, ContentsKept
  <2> QED BY <1>4, <2>4, <2>5, <2>6 DEF FinishUpload
<1>5. ASSUME NEW s \in Session, NEW ok \in BOOLEAN, SendChunk(s, ok)
      PROVE  Contents'
  <2>1. \A t \in Session : step'[t].op = "scan" => step'[t] = step[t]
    BY <1>5, StepKinds DEF SendChunk, Inv, TypeOK, Idle, Downloading
  <2> QED BY <1>5, <2>1, ContentsKept DEF SendChunk
<1>6. ASSUME NEW s \in Session, NEW f \in File, NEW i \in 0..(MaxSize - 1), StartDownload(s, f, i)
      PROVE  Contents'
  <2>1. \A t \in Session : step'[t].op = "scan" => step'[t] = step[t]
    BY <1>6 DEF StartDownload, Inv, TypeOK
  <2> QED BY <1>6, <2>1, ContentsKept DEF StartDownload
<1>7. ASSUME NEW s \in Session, EndSession(s)
      PROVE  Contents'
  <2>1. \A t \in Session, g \in File : uploads'[t][g] = uploads[t][g] \/ uploads'[t][g] = None
    BY <1>7 DEF EndSession, Inv, TypeOK
  <2> QED BY <1>7, <2>1, ContentsKept DEF EndSession
<1>8. CASE Restart
  <2>1. \A t \in Session : step'[t].op = "scan" => step'[t] = step[t]
    BY <1>8 DEF Restart, Idle
  <2> QED BY <1>8, <2>1, ContentsKept DEF Restart
<1>9. CASE CleanupExpired
  <2>1. \A c \in chunks' : c \in chunks /\ files'[c.file] = files[c.file]
    BY <1>0, <1>9 DEF CleanupExpired, DeleteFiles
  <2> QED BY <1>0, <1>9, <2>1 DEF CleanupExpired, Inv
<1>10. CASE Tick
  BY <1>10, ContentsKept DEF Tick
<1>11. CASE UNCHANGED vars
  BY <1>11, ContentsKept DEF vars, tables
<1> QED BY <1>1, <1>2, <1>3, <1>4, <1>5, <1>6, <1>7, <1>8, <1>9, <1>10, <1>11
     DEF Next, OversizedChunk

(* Inv holds in the initial state, is kept by every step, and so always holds. *)
LEMMA InitInv ==
  ASSUME Init
  PROVE  Inv
BY FilesAssumption DEF Init, Inv, TypeOK, Idle, Nothing, Uploads, ScansAreUploads, Requested, OnlyUploader,
     OneUploader, CompleteHasNoUpload, Contents, NoOrphans, ChunksExpected, ScanHasSeen,
     CompleteIsClean

LEMMA Inductive ==
  ASSUME Inv, [Next]_vars
  PROVE  Inv'
<1>1. TypeOK'
  BY TypeStep DEF Inv
<1> QED BY <1>1, UploadsStep, ContentsStep DEF Inv

LEMMA Invariance == Spec => []Inv
<1>1. Init => Inv
  BY InitInv
<1>2. Inv /\ [Next]_vars => Inv'
  BY Inductive
<1> QED BY <1>1, <1>2, PTL DEF Spec

-----------------------------------------------------------------------------
(* Every variable has its type, whatever the interleaving of handlers,     *)
(* cleanup and restarts.                                                   *)
THEOREM TypeCorrect == Spec => []TypeOK
<1>1. Inv => TypeOK
  BY DEF Inv
<1> QED BY <1>1, Invariance, PTL

(* storeChunk's foreign key and the cascading deletes leave no chunk       *)
(* without its file, with ids reused or not and with any fault.            *)
THEOREM NoOrphanChunks == Spec => []NoOrphans
<1>1. Inv => NoOrphans
  BY DEF Inv, Contents
<1> QED BY <1>1, Invariance, PTL

(* With a scanner and reads that succeed, handle_file_upload marks no file *)
(* complete that holds a chunk the scanner objects to.                     *)
THEOREM Clean == Spec => []CompleteIsClean
<1>1. Inv => CompleteIsClean
  BY DEF Inv, Contents
<1> QED BY <1>1, Invariance, PTL

-----------------------------------------------------------------------------
(* What a step may do to a file that no session is uploading. *)
Untouched(f) ==
    files'[f] = None \/ (files'[f] = files[f] /\ ChunksOfFile(f)' = ChunksOfFile(f))

(* With ids that are not used twice, a file that exists and that no        *)
(* session is uploading is changed by no step but its removal.             *)
LEMMA OnlyUploadsWrite ==
  ASSUME Inv, [Next]_vars, ~Reuse, NEW f \in File, files[f] # None,
         \A s \in Session : uploads[s][f] = None
  PROVE  Untouched(f)
<1> USE FilesAssumption DEF Untouched, ChunksOfFile
<1>1. ASSUME NEW s \in Session, NEW g \in File, NEW size \in Size, NEW chunk \in ChunkSize,
             RequestFile(s, g, size, chunk)
      PROVE  Untouched(f)
  BY <1>1 DEF RequestFile, CreateFile, Inv, TypeOK
<1>2. ASSUME NEW s \in Session, NEW g \in File, NEW i \in 0..(MaxSize - 1), NEW n \in 1..DownloadChunk,
             NEW bad \in BOOLEAN, NEW last \in BOOLEAN, UploadChunk(s, g, i, n, bad, last)
      PROVE  Untouched(f)
  <2>1. g # f /\ files' = files
    BY <1>2 DEF UploadChunk
  <2>2. \A c : c.file = f => (c \in chunks' <=> c \in chunks)
    BY <1>2, <2>1 DEF UploadChunk, StoreChunk
  <2> QED BY <2>1, <2>2
<1>3. ASSUME NEW s \in Session, NEW ok \in BOOLEAN, FinishUpload(s, ok)
      PROVE  Untouched(f)
  <2>1. step[s].file \in File /\ step[s].file # f
    BY <1>3, StepKinds DEF FinishUpload, Scanning, Inv, Uploads, ScansAreUploads
  <2>2. CASE DeleteFiles({step[s].file})
    BY <2>1, <2>2 DEF DeleteFiles
  <2>3. CASE MarkComplete(step[s].file) /\ UNCHANGED chunks
    BY <2>1, <2>3 DEF MarkComplete, Inv, TypeOK
  <2>4. CASE UNCHANGED tables
    BY <2>4 DEF tables
  <2> QED BY <1>3, <2>2, <2>3, <2>4 DEF FinishUpload
<1>4. CASE CleanupExpired
  BY <1>4 DEF CleanupExpired, DeleteFiles
<1>5. CASE UNCHANGED tables
  BY <1>5 DEF tables
<1> QED BY <1>1, <1>2, <1>3, <1>4, <1>5
     DEF Next, ReadForScan, SendChunk, StartDownload, EndSession, OversizedChunk, Restart, Tick,
         vars, tables

(* A complete file is not written to: its upload ended when it was marked  *)
(* complete, and createFile refuses its id.                                *)
THEOREM Frozen == Spec => CompleteFrozen
<1>1. Inv /\ [Next]_vars =>
        [\A f \in File :
           /\ ~Reuse
           /\ files[f] # None /\ files[f].complete
           => files'[f] = None \/ (files'[f] = files[f] /\ ChunksOfFile(f)' = ChunksOfFile(f))]_vars
  BY OnlyUploadsWrite DEF Inv, Uploads, CompleteHasNoUpload, Untouched
<1> QED BY <1>1, Invariance, PTL DEF Spec, CompleteFrozen

(* An upload whose session is gone is never resumed: the file stays        *)
(* incomplete until cleanupExpired removes it.                             *)
THEOREM Abandoned == Spec => AbandonedStays
<1>1. Inv /\ [Next]_vars =>
        [\A f \in File :
           /\ ~Reuse
           /\ files[f] # None /\ ~files[f].complete
           /\ \A s \in Session : uploads[s][f] = None
           => files'[f] = None \/ (files'[f] = files[f] /\ ChunksOfFile(f)' = ChunksOfFile(f))]_vars
  BY OnlyUploadsWrite DEF Untouched
<1> QED BY <1>1, Invariance, PTL DEF Spec, AbandonedStays

(* Both together: complete files and abandoned ones are never written to.  *)
THEOREM OnlyUploaders == Spec => OnlyUploadersWrite
  BY Frozen, Abandoned DEF OnlyUploadersWrite

-----------------------------------------------------------------------------
(* Readers.  A file and an index determine a chunk; what a session was     *)
(* sent is of the file it reads, and still in the store if the file is.    *)
ChunksUnique == \A c, d \in chunks : c.file = d.file /\ c.index = d.index => c = d

SentFrom(s) ==
    LET f == received[s].file IN
    /\ f \in requested
    /\ files[f] # None => files[f].complete /\ received[s].sent \subseteq chunks
    /\ \A c \in received[s].sent : c.file = f
    /\ step[s].op = "download" => step[s].file = f

Sent == ~Reuse => \A s \in Session : received[s].file # None => SentFrom(s)

Readers == ChunksUnique /\ Sent /\ DownloadsSound

LEMMA ChunksUniqueStep ==
  ASSUME Inv, ChunksUnique, [Next]_vars
  PROVE  ChunksUnique'
<1> USE DEF ChunksUnique
<1>1. ASSUME NEW s \in Session, NEW f \in File, NEW i \in 0..(MaxSize - 1), NEW n \in 1..DownloadChunk,
             NEW bad \in BOOLEAN, NEW last \in BOOLEAN, UploadChunk(s, f, i, n, bad, last)
      PROVE  ChunksUnique'
  <2>1. PICK new : new = [file |-> f, index |-> i, bad |-> bad]
    OBVIOUS
  <2>2. chunks' = {c \in chunks : ~(c.file = f /\ c.index = i)} \cup {new}
    BY <1>1, <2>1 DEF UploadChunk, StoreChunk
  <2>3. new.file = f /\ new.index = i
    BY <2>1
  <2> QED BY <2>2, <2>3
<1>2. ASSUME NEW s \in Session, NEW ok \in BOOLEAN, FinishUpload(s, ok)
      PROVE  ChunksUnique'
  <2>1. chunks' \subseteq chunks
    BY <1>2 DEF FinishUpload, DeleteFiles, tables
  <2> QED BY <2>1
<1>3. CASE CleanupExpired
  <2>1. chunks' \subseteq chunks
    BY <1>3 DEF CleanupExpired, DeleteFiles
  <2> QED BY <2>1
<1>4. CASE UNCHANGED chunks
  BY <1>4
<1> QED BY <1>1, <1>2, <1>3, <1>4
     DEF Next, RequestFile, ReadForScan, SendChunk, StartDownload, EndSession, OversizedChunk,
         Restart, Tick, vars, tables

(* With ids that are not used twice, a file that is gone stays away, and a *)
(* complete one stays as it is until then.                                 *)
LEMMA GoneOrFrozen ==
  ASSUME Inv, [Next]_vars, ~Reuse, NEW f \in File, f \in requested
  PROVE  /\ f \in requested'
         /\ files[f] = None => files'[f] = None
         /\ files[f] # None /\ files[f].complete => Untouched(f)
<1>1. requested \subseteq requested'
  BY DEF Next, RequestFile, UploadChunk, ReadForScan, FinishUpload, SendChunk, StartDownload,
         EndSession, OversizedChunk, Restart, CleanupExpired, Tick, vars
<1>2. files[f] # None /\ files[f].complete => Untouched(f)
  BY OnlyUploadsWrite DEF Inv, Uploads, CompleteHasNoUpload
<1>3. ASSUME files[f] = None PROVE files'[f] = None
  <2>1. ASSUME NEW s \in Session, NEW g \in File, NEW size \in Size, NEW chunk \in ChunkSize,
               RequestFile(s, g, size, chunk)
        PROVE  files'[f] = None
    BY <1>3, <2>1 DEF RequestFile, CreateFile, Inv, TypeOK
  <2>2. ASSUME NEW s \in Session, NEW ok \in BOOLEAN, FinishUpload(s, ok)
        PROVE  files'[f] = None
    BY <1>3, <2>2 DEF FinishUpload, DeleteFiles, MarkComplete, Inv, TypeOK, tables
  <2>3. CASE CleanupExpired
    BY <1>3, <2>3 DEF CleanupExpired, DeleteFiles
  <2>4. CASE UNCHANGED files
    BY <1>3, <2>4
  <2> QED BY <2>1, <2>2, <2>3, <2>4
       DEF Next, UploadChunk, ReadForScan, SendChunk, StartDownload, EndSession, OversizedChunk,
           Restart, Tick, vars, tables
<1> QED BY <1>1, <1>2, <1>3

(* What a reader was sent stays in the store until the file is gone. *)
LEMMA SentStays ==
  ASSUME Inv, Readers, [Next]_vars, ~Reuse, NEW s \in Session, received[s].file # None
  PROVE  LET f == received[s].file IN
         /\ f \in requested'
         /\ files'[f] # None => files'[f].complete /\ received[s].sent \subseteq chunks'
<1>1. PICK f : f = received[s].file
  OBVIOUS
<1>2. f \in File /\ f \in requested /\ SentFrom(s)
  BY <1>1 DEF Inv, TypeOK, Readers, Sent, SentFrom
<1>3. f \in requested'
  BY <1>2, GoneOrFrozen
<1>4. ASSUME files'[f] # None
      PROVE  files'[f].complete /\ received[s].sent \subseteq chunks'
  <2>1. files[f] # None /\ files[f].complete /\ received[s].sent \subseteq ChunksOfFile(f)
    BY <1>1, <1>2, <1>4, GoneOrFrozen DEF SentFrom, ChunksOfFile
  <2>2. files'[f] = files[f] /\ ChunksOfFile(f)' = ChunksOfFile(f)
    BY <1>2, <1>4, <2>1, GoneOrFrozen DEF Untouched
  <2> QED BY <2>1, <2>2 DEF ChunksOfFile
<1> QED BY <1>1, <1>3, <1>4

(* A step that sends nothing and starts no download. *)
LEMMA ReadersKept ==
  ASSUME Inv, Readers, [Next]_vars, received' = received,
         \A t \in Session : step'[t].op = "download" => step'[t] = step[t]
  PROVE  Readers'
<1>1. Sent'
  BY SentStays DEF Readers, Sent, SentFrom
<1>2. DownloadsSound'
  BY SentStays DEF Readers, DownloadsSound
<1> QED BY <1>1, <1>2, ChunksUniqueStep DEF Readers

LEMMA ReadersStep ==
  ASSUME Inv, Readers, [Next]_vars
  PROVE  Readers'
<1>1. ASSUME NEW s \in Session, NEW ok \in BOOLEAN, SendChunk(s, ok)
      PROVE  Readers'
  <2>1. /\ UNCHANGED <<files, chunks, uploads, requested>>
        /\ step[s] \in Downloading /\ step[s].op = "download"
    BY <1>1, StepKinds DEF SendChunk, Inv, tables
  <2>2. /\ \A t \in Session : t # s => received'[t] = received[t] /\ step'[t] = step[t]
        /\ received'[s].file = received[s].file
    BY <1>1 DEF SendChunk, Inv, TypeOK
  <2>3. step'[s].op = "download" => step'[s].file = step[s].file
    BY <1>1, <2>1 DEF SendChunk, Inv, TypeOK, Idle, Downloading
  <2>4. PICK found : /\ found \subseteq GetChunk(step[s].file, step[s].next)
                     /\ received[s].file # None => received'[s].sent = received[s].sent \cup found
    BY <1>1 DEF SendChunk, Inv, TypeOK
  <2>5. SUFFICES ASSUME ~Reuse, received[s].file # None
                 PROVE  Readers'
    <3>1. CASE Reuse
      BY <3>1, ChunksUniqueStep DEF Readers, Sent, DownloadsSound
    <3>2. CASE ~Reuse /\ received[s].file = None
      <4>1. received' = received
        BY <1>1, <3>2 DEF SendChunk
      <4> QED BY <2>1, <2>2, <3>2, <4>1, ChunksUniqueStep DEF Readers, Sent, SentFrom, DownloadsSound
    <3> QED BY <2>5, <3>1, <3>2
  <2>6. SentFrom(s) /\ step[s].file = received[s].file
    BY <2>1, <2>5 DEF Readers, Sent, SentFrom
  <2>7. \A c \in found : /\ c \in chunks /\ c.file = received[s].file
                         /\ files[received[s].file] # None
                         /\ files[received[s].file].complete
    BY <2>4, <2>6 DEF GetChunk, Inv, Contents, NoOrphans, SentFrom
  <2>8. Sent'
    <3>1. SentFrom(s)'
      BY <2>1, <2>2, <2>3, <2>4, <2>5, <2>6, <2>7 DEF SentFrom
    <3>2. \A t \in Session : t # s /\ SentFrom(t) => SentFrom(t)'
      BY <2>1, <2>2 DEF SentFrom
    <3> QED BY <2>2, <2>5, <3>1, <3>2 DEF Readers, Sent
  <2>9. \A c \in found : Scanner /\ "get" \notin Faults => ~c.bad
    BY <2>5, <2>7 DEF Inv, Contents, CompleteIsClean
  <2>10. ASSUME NEW c \in found, NEW t \in Session, received[t].file = received[s].file,
                NEW d \in received[t].sent \cup found, c.index = d.index
         PROVE  c = d
    <3>1. d \in chunks /\ d.file = c.file
      BY <2>5, <2>7, <2>10 DEF Readers, Sent, SentFrom
    <3> QED BY <2>7, <2>10, <3>1 DEF Readers, ChunksUnique
  <2>11. DownloadsSound'
    <3>1. \A t \in Session : received'[t].file = received[t].file
      BY <2>2
    <3>2. \A t \in Session : \A c \in received'[t].sent :
            c \in received[t].sent \/ (t = s /\ c \in found)
      BY <2>2, <2>4, <2>5
    <3>3. \A t \in Session : received[t].file # None /\ files'[received[t].file] # None
            => received'[t].sent \subseteq chunks'
      BY <2>1, <2>7, <3>2, <2>5 DEF Readers, DownloadsSound
    <3>4. \A t \in Session : \A c \in received'[t].sent :
            received[t].file # None /\ Scanner /\ "get" \notin Faults => ~c.bad
      BY <2>5, <2>9, <3>2 DEF Readers, DownloadsSound
    <3>5. ASSUME NEW t \in Session, NEW u \in Session, received[t].file # None,
                 received[u].file = received[t].file,
                 NEW c \in received'[t].sent, NEW d \in received'[u].sent, c.index = d.index
          PROVE  c = d
      <4>1. CASE c \in received[t].sent /\ d \in received[u].sent
        BY <2>5, <3>5, <4>1 DEF Readers, DownloadsSound
      <4>2. CASE t = s /\ c \in found
        <5>1. d \in received[u].sent \cup found
          BY <3>2
        <5> QED BY <2>10, <3>5, <4>2, <5>1
      <4>3. CASE u = s /\ d \in found
        <5>1. c \in received[t].sent \cup found
          BY <3>2
        <5> QED BY <2>10, <3>5, <4>3, <5>1
      <4> QED BY <3>2, <4>1, <4>2, <4>3
    <3> QED BY <3>1, <3>3, <3>4, <3>5 DEF DownloadsSound
  <2> QED BY <2>8, <2>11, ChunksUniqueStep DEF Readers
<1>2. ASSUME NEW s \in Session, NEW f \in File, NEW i \in 0..(MaxSize - 1), StartDownload(s, f, i)
      PROVE  Readers'
  <2>1. UNCHANGED <<files, chunks, uploads, requested>> /\ files[f] # None
    BY <1>2 DEF StartDownload, GetFile, tables
  <2>2. /\ \A t \in Session : t # s => received'[t] = received[t] /\ step'[t] = step[t]
        /\ received'[s].sent = {} /\ step'[s].file = f
        /\ received'[s].file # None => received'[s].file = f /\ files[f].complete
    BY <1>2 DEF StartDownload, GetFile, Inv, TypeOK
  <2>3. f \in requested
    BY <2>1 DEF Inv, Uploads, Requested
  <2>4. Sent'
    BY <2>1, <2>2, <2>3 DEF Readers, Sent, SentFrom
  <2>5. DownloadsSound'
    BY <2>1, <2>2 DEF Readers, DownloadsSound
  <2> QED BY <2>4, <2>5, ChunksUniqueStep DEF Readers
<1>3. ASSUME NEW s \in Session, NEW f \in File, NEW i \in 0..(MaxSize - 1), NEW n \in 1..DownloadChunk,
             NEW bad \in BOOLEAN, NEW last \in BOOLEAN, UploadChunk(s, f, i, n, bad, last)
      PROVE  Readers'
  BY <1>3, ReadersKept DEF UploadChunk, Inv, TypeOK, Idle
<1>4. ASSUME NEW s \in Session, NEW ok \in BOOLEAN, ReadForScan(s, ok) \/ FinishUpload(s, ok)
      PROVE  Readers'
  BY <1>4, ReadersKept DEF ReadForScan, FinishUpload, Inv, TypeOK, Idle
<1>5. CASE Restart
  BY <1>5, ReadersKept DEF Restart, Idle
<1>6. CASE UNCHANGED <<step, received>>
  BY <1>6, ReadersKept
<1> QED BY <1>1, <1>2, <1>3, <1>4, <1>5, <1>6
     DEF Next, RequestFile, EndSession, OversizedChunk, CleanupExpired, Tick, vars

(* A download that began on a complete file never mixes versions of it:    *)
(* between two getChunk calls of handle_file_download nothing but the      *)
(* removal of the file can come.                                           *)
THEOREM Downloads == Spec => []DownloadsSound
<1>1. Init => Readers
  BY FilesAssumption DEF Init, Readers, ChunksUnique, Sent, DownloadsSound, Nothing
<1>2. Readers => DownloadsSound
  BY DEF Readers
<1> QED BY <1>1, <1>2, ReadersStep, Invariance, PTL DEF Spec
-----------------------------------------------------------------------------
(* The store implements FileLife.  A file is open while a session uploads  *)
(* it, and abandoned when it is incomplete and no session does.            *)
Uploading(f) == \E s \in Session : uploads[s][f] # None

LifeOf(f) ==
    CASE files[f] = None /\ f \notin requested -> "new"
      [] files[f] = None /\ f \in requested -> "gone"
      [] files[f] # None /\ files[f].complete -> "complete"
      [] files[f] # None /\ ~files[f].complete /\ Uploading(f) -> "open"
      [] files[f] # None /\ ~files[f].complete /\ ~Uploading(f) -> "abandoned"

lives == [f \in File |-> LifeOf(f)]

Life == INSTANCE FileLife
        WITH life <- lives, stored <- chunks, Screened <- Scanner /\ "get" \notin Faults

LEMMA LifeValues ==
  ASSUME NEW f
  PROVE  /\ LifeOf(f) = "new" <=> files[f] = None /\ f \notin requested
         /\ LifeOf(f) = "gone" <=> files[f] = None /\ f \in requested
         /\ LifeOf(f) = "complete" <=> files[f] # None /\ files[f].complete
         /\ LifeOf(f) = "open" <=> files[f] # None /\ ~files[f].complete /\ Uploading(f)
         /\ LifeOf(f) \in {"new", "gone", "complete", "open", "abandoned"}
  BY DEF LifeOf

(* What the life of a file depends on. *)
LEMMA LifeSame ==
  ASSUME NEW f, files'[f] = files[f], f \in requested' <=> f \in requested,
         Uploading(f)' <=> Uploading(f)
  PROVE  LifeOf(f)' = LifeOf(f)
  BY DEF LifeOf

(* A step that only ends uploads abandons their files. *)
LEMMA LifeAbandoned ==
  ASSUME UNCHANGED <<files, chunks, requested>>,
         \A t \in Session, f \in File : uploads'[t][f] = uploads[t][f] \/ uploads'[t][f] = None
  PROVE  Life!Next
<1> DEFINE F == {f \in File : LifeOf(f) = "open" /\ LifeOf(f)' = "abandoned"}
<1>1. \A f \in File : LifeOf(f)' = IF f \in F THEN "abandoned" ELSE LifeOf(f)
  <2> SUFFICES ASSUME NEW f \in File
               PROVE  LifeOf(f)' = IF f \in F THEN "abandoned" ELSE LifeOf(f)
    OBVIOUS
  <2>1. Uploading(f)' => Uploading(f)
    BY DEF Uploading
  <2>2. CASE Uploading(f)' <=> Uploading(f)
    BY <2>2, LifeSame
  <2>3. CASE Uploading(f) /\ ~Uploading(f)'
    BY <2>3 DEF LifeOf
  <2> QED BY <2>1, <2>2, <2>3
<1>2. lives' = [f \in File |-> IF f \in F THEN "abandoned" ELSE lives[f]]
  BY <1>1 DEF lives
<1>3. \A f \in F : lives[f] = "open"
  BY DEF lives
<1>4. Life!Abandon(F) /\ F \in SUBSET File
  BY <1>2, <1>3 DEF Life!Abandon
<1> QED BY <1>4 DEF Life!Next

(* A step that deletes files removes those that were there. *)
LEMMA LifeRemoved ==
  ASSUME Inv, ~Reuse, NEW F \in SUBSET File, DeleteFiles(F), requested' = requested,
         \A f \in File : f \notin F => (Uploading(f)' <=> Uploading(f))
  PROVE  Life!Next
<1> DEFINE R == {f \in F : files[f] # None}
<1>1. \A f \in File : LifeOf(f)' = IF f \in R THEN "gone" ELSE LifeOf(f)
  <2> SUFFICES ASSUME NEW f \in File
               PROVE  LifeOf(f)' = IF f \in R THEN "gone" ELSE LifeOf(f)
    OBVIOUS
  <2>1. files'[f] = IF f \in F THEN None ELSE files[f]
    BY DEF DeleteFiles
  <2>2. CASE f \notin F
    BY <2>1, <2>2, LifeSame
  <2>3. CASE f \in R
    BY <2>1, <2>3 DEF Inv, Uploads, Requested, LifeOf
  <2>4. CASE f \in F /\ f \notin R
    BY <2>1, <2>4 DEF LifeOf
  <2> QED BY <2>2, <2>3, <2>4
<1>2. lives' = [f \in File |-> IF f \in R THEN "gone" ELSE lives[f]]
  BY <1>1 DEF lives
<1>3. \A f \in R : lives[f] \in {"open", "complete", "abandoned"}
  BY LifeValues DEF lives
<1>4. chunks' = {c \in chunks : c.file \notin R}
  BY DEF DeleteFiles, Inv, Contents, NoOrphans
<1>5. Life!Remove(R) /\ R \in SUBSET File
  BY <1>2, <1>3, <1>4 DEF Life!Remove
<1> QED BY <1>5 DEF Life!Next

LEMMA LifeStep == Inv /\ ~Reuse /\ [Next]_vars => [Life!Next]_<<lives, chunks>>
<1> SUFFICES ASSUME Inv, ~Reuse, [Next]_vars
             PROVE  Life!Next \/ UNCHANGED <<lives, chunks>>
  OBVIOUS
<1>1. ASSUME NEW s \in Session, NEW f \in File, NEW size \in Size, NEW chunk \in ChunkSize,
             RequestFile(s, f, size, chunk)
      PROVE  Life!Next
  <2>1. /\ files[f] = None /\ f \notin requested /\ requested' = requested \cup {f}
        /\ chunks' = chunks
    BY <1>1 DEF RequestFile, CreateFile
  <2>2. /\ files'[f] # None /\ ~files'[f].complete
        /\ \A g \in File : g # f => files'[g] = files[g]
    <3>1. [size |-> size, expires |-> now + Ttl, complete |-> FALSE] \in Row
      BY <1>1, FilesAssumption DEF RequestFile, Inv, TypeOK, Row
    <3> QED BY <1>1, <3>1, NoneAssumption DEF RequestFile, CreateFile, Inv, TypeOK
  <2>3. \A t \in Session, g \in File :
          uploads'[t][g] = IF t = s /\ g = f THEN TotalChunks(size, chunk) ELSE uploads[t][g]
    BY <1>1 DEF RequestFile, Inv, TypeOK
  <2>4. TotalChunks(size, chunk) # None
    <3>1. TotalChunks(size, chunk) \in Nat \ {0}
      BY <1>1, TotalChunksPositive, FilesAssumption DEF RequestFile
    <3> QED BY <3>1, NoneAssumption
  <2>5. Uploading(f)' /\ \A g \in File : g # f => (Uploading(g)' <=> Uploading(g))
    BY <2>3, <2>4 DEF Uploading
  <2>6. LifeOf(f) = "new" /\ LifeOf(f)' = "open"
    BY <2>1, <2>2, <2>5 DEF LifeOf
  <2>7. \A g \in File : g # f => LifeOf(g)' = LifeOf(g)
    BY <2>1, <2>2, <2>5, LifeSame
  <2>8. lives' = [lives EXCEPT ![f] = "open"] /\ lives[f] = "new"
    BY <2>6, <2>7 DEF lives
  <2> QED BY <2>1, <2>8 DEF Life!Open, Life!Next
<1>2. ASSUME NEW s \in Session, NEW f \in File, NEW i \in 0..(MaxSize - 1), NEW n \in 1..DownloadChunk,
             NEW bad \in BOOLEAN, NEW last \in BOOLEAN, UploadChunk(s, f, i, n, bad, last)
      PROVE  Life!Next
  <2>1. /\ UNCHANGED <<files, uploads, requested>>
        /\ files[f] # None /\ uploads[s][f] # None
    BY <1>2 DEF UploadChunk, StoreChunk
  <2>2. ~files[f].complete /\ Uploading(f)
    BY <2>1 DEF Inv, Uploads, CompleteHasNoUpload, Uploading
  <2>3. lives' = lives /\ lives[f] = "open"
    <3>1. \A g \in File : LifeOf(g)' = LifeOf(g)
      BY <2>1, LifeSame DEF Uploading
    <3> QED BY <2>1, <2>2, <3>1, LifeValues DEF lives
  <2>4. chunks' = {c \in chunks : c.file # f \/ c.index # i}
                     \cup {[file |-> f, index |-> i, bad |-> bad]}
    BY <1>2 DEF UploadChunk, StoreChunk
  <2>5. i \in Nat
    BY FilesAssumption
  <2>6. Life!Write(f, i, bad)
    BY <2>3, <2>4 DEF Life!Write
  <2> QED BY <2>5, <2>6 DEF Life!Next
<1>3. ASSUME NEW s \in Session, NEW ok \in BOOLEAN, FinishUpload(s, ok)
      PROVE  Life!Next \/ UNCHANGED <<lives, chunks>>
  <2>0. PICK f \in File : f = step[s].file /\ uploads[s][f] # None
    BY <1>3, StepKinds DEF FinishUpload, Scanning, Inv, Uploads, ScansAreUploads
  <2>1. /\ requested' = requested
        /\ \A t \in Session, g \in File :
             uploads'[t][g] = IF t = s /\ g = f THEN None ELSE uploads[t][g]
    BY <1>3, <2>0 DEF FinishUpload, EndUpload, Inv, TypeOK
  <2>2. \A g \in File : g # f => (Uploading(g)' <=> Uploading(g))
    BY <2>1 DEF Uploading
  <2>3. CASE DeleteFiles({f})
    <3>1. \A g \in File : g \notin {f} => (Uploading(g)' <=> Uploading(g))
      BY <2>2
    <3> QED BY <2>1, <2>3, <3>1, LifeRemoved
  <2>4. CASE ~Threat(step[s]) /\ MarkComplete(f) /\ UNCHANGED chunks /\ files[f] # None
    <3>1. /\ files'[f] # None /\ files'[f].complete
          /\ \A g \in File : g # f => files'[g] = files[g]
      <4>1. files[f] \in Row
        BY <2>4 DEF Inv, TypeOK
      <4>2. [files[f] EXCEPT !.complete = TRUE] \in Row
        BY <4>1 DEF Row
      <4>3. files' = [files EXCEPT ![f] = [files[f] EXCEPT !.complete = TRUE]]
        BY <2>4 DEF MarkComplete
      <4> QED BY <4>1, <4>2, <4>3, NoneAssumption DEF Inv, TypeOK, Row
    <3>2. ~files[f].complete /\ Uploading(f)
      BY <2>0, <2>4 DEF Inv, Uploads, CompleteHasNoUpload, Uploading
    <3>3. LifeOf(f) = "open" /\ LifeOf(f)' = "complete"
      BY <2>4, <3>1, <3>2 DEF LifeOf
    <3>4. \A g \in File : g # f => LifeOf(g)' = LifeOf(g)
      BY <2>1, <2>2, <3>1, LifeSame
    <3>5. lives' = [lives EXCEPT ![f] = "complete"] /\ lives[f] = "open"
      BY <3>3, <3>4 DEF lives
    <3>6. Scanner /\ "get" \notin Faults => \A c \in chunks : c.file = f => ~c.bad
      BY <2>4, <3>1, Inductive DEF Inv, Contents, CompleteIsClean
    <3>7. Life!Complete(f)
      BY <2>4, <3>5, <3>6 DEF Life!Complete
    <3> QED BY <3>7 DEF Life!Next
  <2>5. CASE MarkComplete(f) /\ UNCHANGED chunks /\ files[f] = None
    BY <2>1, <2>5, LifeAbandoned DEF MarkComplete
  <2>6. CASE UNCHANGED tables
    BY <2>1, <2>6, LifeAbandoned DEF tables
  <2> QED BY <1>3, <2>0, <2>3, <2>4, <2>5, <2>6 DEF FinishUpload
<1>4. ASSUME NEW s \in Session, EndSession(s)
      PROVE  Life!Next
  <2>1. \A t \in Session, f \in File : uploads'[t][f] = uploads[t][f] \/ uploads'[t][f] = None
    BY <1>4 DEF EndSession, Inv, TypeOK
  <2> QED BY <1>4, <2>1, LifeAbandoned DEF EndSession, tables
<1>5. CASE Restart
  BY <1>5, LifeAbandoned DEF Restart, tables
<1>6. CASE CleanupExpired
  <2>1. Expired \in SUBSET File
    BY DEF Expired
  <2>2. \A f \in File : Uploading(f)' <=> Uploading(f)
    BY <1>6 DEF CleanupExpired, Uploading
  <2> QED BY <1>6, <2>1, <2>2, LifeRemoved DEF CleanupExpired
<1>7. CASE UNCHANGED <<files, chunks, uploads, requested>>
  BY <1>7, LifeAbandoned
<1> QED BY <1>1, <1>2, <1>3, <1>4, <1>5, <1>6, <1>7
     DEF Next, OversizedChunk, ReadForScan, SendChunk, StartDownload, Tick, vars, tables

(* With ids that are not used twice the handlers, the scan, the cleanup    *)
(* and restarts implement FileLife, whatever calls fail: no step opens a   *)
(* file again, or writes to one that is not open.                          *)
THEOREM LifeImplemented == ASSUME ~Reuse PROVE Spec => Life!Spec
<1>1. Init => Life!Init
  <2>1. Init => \A f \in File : LifeOf(f) = "new"
    BY LifeValues DEF Init
  <2> QED BY <2>1 DEF Init, Life!Init, lives
<1>2. Inv /\ [Next]_vars => [Life!Next]_<<lives, chunks>>
  BY LifeStep
<1>3. Inv /\ [Next]_vars => [Life!Next]_(Life!lifeVars)
  BY <1>2 DEF Life!lifeVars
<1> QED BY <1>1, <1>3, Invariance, PTL DEF Spec, Life!Spec
=============================================================================
