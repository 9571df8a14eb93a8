SPECIFICATION FairSpec
CONSTANTS
  Vendors = {"minimax"}
  NoText = ""
  HalfWord = 16
  Configs <- RawConfigs
  Asked <- MCAsked
  GivenTools <- MCGivenTools
  EditedTools <- MCEditedTools
  EditedText = "edited"
  Replies <- MCReplies
PROPERTY
  NeverHangs
