SPECIFICATION Spec
CONSTANTS
  r1 = r1
  r2 = r2
  r3 = r3
  r4 = r4
  k1 = k1
  k2 = k2
  brief = brief
  minutes = minutes
  plain = plain
  odd = odd
  bad = bad
  override = override
  roleplay = roleplay
  w1 = w1
  w2 = w2
  Runs = {r1, r2, r3, r4}
  Keys = {k1, k2}
  Texts = {Blank, plain, odd, bad}
  Pages = {Blank, bad}
  Bodies <- TwoBodies
  HighConfidence = {override}
  Suspicious = {roleplay}
  Matched <- Rules
  Blank = Blank
  Workers = {w1, w2}
  NoRun = NoRun
  MaxRestarts = 1
CHECK_DEADLOCK FALSE
INVARIANTS EachRunHasItsPlace AnswersAgree PromptsAreScreened
PROPERTIES EveryQuestionnaireEnds
