SPECIFICATION FairSpec
CONSTANTS
  Vendors <- AllVendors
  NoText = ""
  HalfWord = 16
  Configs <- MCConfigs
  Asked <- MCAsked
  GivenTools <- MCGivenTools
  EditedTools <- MCEditedTools
  EditedText = "edited"
  Replies <- MCReplies
INVARIANTS
  TypeOK
  SentAsMeant
  ReturnedSound
PROPERTY
  CallsReturn
