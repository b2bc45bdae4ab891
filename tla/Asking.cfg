SPECIFICATION AskingSpec
CONSTANTS
  Questions <- MCQuestions
  minimum = 1
  maximum = 3
  Options = {"yes", "2"}
  ADHOC_KEY = "antwort"
  PersonOrder <- MCPersonOrder
  Pictures <- MCPictures
  Setups <- MCSetups
  MAX_PICTURES_PER_REQUEST = 4
  MAX_MARKS = 3
  MARK_COORD_MAX = 3
  Values <- MCValues
  chair = chair
  bin = bin
  Words <- MCWords
  ObjectLists <- MCObjectLists
  Boxes <- MCBoxes
  Claims <- MCClaims
  MayBeMissing <- MCMayBeMissing
  MaxRuns = 2
INVARIANTS
  MarksFit
  PicturesBelong
PROPERTIES
  OnlyWhatWasAsked
  AnswersStand
  OneSlotEach
CHECK_DEADLOCK FALSE
