SPECIFICATION Spec
CONSTANTS
  record = record
  note = note
  a = a
  b = b
  c = c
  override = override
  roleplay = roleplay
  Gone = Gone
  Runs = {r1, r2}
  Sources = {record, note}
  Texts = {a, b, c}
  HighConfidence = {override}
  Suspicious = {roleplay}
  Matched <- Rules
  Requests <- Noted
  Past <- Stored
  Before = Before
  SummarySizes = {2}
  MaxSources = 2
  PoolSize = 2
  MaxStops = 1
CHECK_DEADLOCK FALSE
PROPERTIES DeletedIsForgotten
