SPECIFICATION FairSpec
CONSTANTS
  Docs = {1, 2}
  Name <- SameName
  Files = {1, 2}
  Base <- OneBase
  Tasks = {1}
  Kinds <- OneOfEach
  Requests <- Either
  Runners = {"worker", "api"}
  Api = {"api"}
  Chunk = 1
  MaxEvents = 1
  NoTask = NoTask
  NoSource = NoSource
  NoProgress = NoProgress
INVARIANTS Delivered NoteOnce
PROPERTY Indexed
