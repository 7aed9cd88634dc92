SPECIFICATION Spec
CONSTANTS
  Session = {s1, s2}
  File = {f1, f2}
  None = None
  Size = {0, 1, 3, 4}
  ChunkSize = {1, 2}
  DownloadChunk = 2
  FrameData = 1
  MaxSize = 3
  Ttl = 1
  MaxTime = 1
  Scanner = TRUE
  Reuse = FALSE
  Faults = {"delete", "mark"}
SYMMETRY Symmetry
INVARIANTS TypeOK NoOrphans CompleteIsClean DownloadsSound
PROPERTY OnlyUploadersWrite
