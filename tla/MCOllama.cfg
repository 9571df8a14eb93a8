SPECIFICATION FairSpec
CONSTANTS
  Texts <- MCTexts
  Calls <- MCCalls
  Indexes <- MCIndexes
  Tokens <- MCTokens
  NoText <- MCNoText
  PlainPieces <- MCPlain
  Anonymous <- MCAnonymous
  NameAsId <- MCNameAsId
  Modes <- MCModes
  Frame <- MCFrame
  Bodies <- MCBodies
  IsLast <- MCIsLast
  Event <- MCEvent
  TrState <- MCTrState
  FrameEvents <- MCFrameEvents
  FrameAfter <- MCFrameAfter
  Run <- MCRun
  Closers = {c1, c2}
  Habits = {"until_eof", "past_end"}
INVARIANTS
  TypeOK
  EofIsComplete
  FailureSurfaces
  DrainedConforms
  GenerateAgrees
PROPERTIES
  QuietAfterClose
  EndIsFinal
  ImplementsContract
  ProducerExits
  CloseUnblocksNext
