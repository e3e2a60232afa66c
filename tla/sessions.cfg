SPECIFICATION Spec
CONSTANTS
  record = record
  note = note
  a = a
  b = b
  c = c
  override = override
  roleplay = roleplay
  Gone = Gone
  Runs = {r1, r2}
  Sources = {record, note}
  Texts = {a, b, c}
  HighConfidence = {override}
  Suspicious = {roleplay}
  Matched <- Rules
  Requests <- OdooRequests
  Past <- Stored
  Before = Before
  SummarySizes = {1}
  MaxSources = 1
  PoolSize = 2
  MaxStops = 1
CHECK_DEADLOCK FALSE
INVARIANTS TypeOK TurnsAreCounted GivenWhatWasSent PreparedIsStored
PROPERTIES MemoryIsKept EveryRunEnds
