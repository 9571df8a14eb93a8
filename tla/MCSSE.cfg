SPECIFICATION FairSpec
CONSTANTS
  Texts <- MCTexts
  Calls <- MCCalls
  Indexes <- MCIndexes
  Tokens <- MCTokens
  NoText = NoText
  Dialects <- MCDialects
  Chunk <- MCChunk
  Scripts <- MCScripts
  Event <- K1Event
  IsDone <- IsDoneEvent
  TrState <- AdapterState
  TrInit <- AdapterInit
  ChunkEvents <- AdapterEvents
  ChunkState <- AdapterAfter
  Closers = {c1, c2}
  Habits = {"until_done", "until_eof"}
  MaxOpens = 3
INVARIANTS
  TypeOK
  SingleSource
  AtMostOneRetry
  NoStreamLeak
  DrainedConforms
  GenerateAgrees
PROPERTIES
  QuietAfterClose
  ImplementsContract
  CallsReturnOnceCancelled
