SPECIFICATION Spec
CONSTANTS
  v1 = v1
  v2 = v2
  file = file
  record = record
  note = note
  Files = {v1, v2, file}
  Records = {record}
  Messages = {note}
  Texts <- TwoTexts
  ChunkBytes = 2500
  TurnSizes = {90, 1900}
  MaxTurns = 2
  MaxSources = 3
  MaxBytes = 6000
  Contexts <- TwoProviders
  Instructions = {1000, 4000}
  Caps <- TwoCaps
  TitleSize = 20
  HeaderSize = 40
  TagSize = 12
CHECK_DEADLOCK FALSE
INVARIANTS ChunksAreTheText RenderedNearBudget PairSurvives CompactionIsAccepted
