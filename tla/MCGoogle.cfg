SPECIFICATION FairSpec
CONSTANTS
  Texts <- MCTexts
  Calls <- MCCalls
  Indexes <- MCIndexes
  Tokens <- MCTokens
  NoText = NoText
  EmptyArgs = "{}"
  Chunk <- MCChunk
  Bodies <- MCBodies
  Event <- K1Event
  TrState <- GoogleState
  TrInit <- GoogleInit
  ChunkEvents <- GoogleEvents
  ChunkAfter <- GoogleAfter
  EndEvent <- GoogleDone
  Closers = {c1, c2}
INVARIANTS
  TypeOK
  Released
  GenerateAgrees
PROPERTIES
  EndIsFinal
  ImplementsContract
  CallsReturn
