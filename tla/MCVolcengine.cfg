SPECIFICATION FairSpec
CONSTANTS
  Texts <- MCTexts
  Calls <- MCCalls
  Indexes <- MCIndexes
  Tokens <- MCTokens
  NoText = NoText
  Chunk <- MCChunk
  Bodies <- MCBodies
  Event <- K1Event
  IsDone <- IsDoneEvent
  TrState <- ArkState
  TrInit <- ArkInit
  ChunkEvents <- ArkEvents
  ChunkAfter <- ArkAfter
  EndEvent <- ArkDone
  Closers = {c1, c2}
  Habits = {"until_eof", "past_end"}
  MaxOpens = 2
INVARIANTS
  TypeOK
  AtMostOneRetry
  NoStreamLeak
  OneDone
  DrainedConforms
  GenerateAgrees
PROPERTIES
  ImplementsContract
  NextReturnsOnceCancelled
