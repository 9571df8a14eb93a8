SPECIFICATION FairSpec
CONSTANTS
  Texts <- MCTexts
  Calls <- MCCalls
  Indexes <- MCIndexes
  Tokens <- MCTokens
  NoText = NoText
  Dialects <- MCDialects
  Chunk <- MCChunk
  Scripts <- MCScripts
  Event <- K1Event
  IsDone <- IsDoneEvent
  TrState <- AdapterState
  TrInit <- AdapterInit
  ChunkEvents <- AdapterEvents
  ChunkState <- AdapterAfter
  Closers = {c1}
  Habits = {"until_eof", "past_end"}
  MaxOpens = 2
INVARIANT
  DoneIsLast
