SPECIFICATION Spec
CONSTANTS
  c1 = c1
  c2 = c2
  c3 = c3
  questionnaire = questionnaire
  generation = generation
  review = review
  drafting = drafting
  fallback = fallback
  qwen38 = qwen38
  qwen36 = qwen36
  Calls = {c1, c2, c3, questionnaire}
  Guarded = {c1, c2, c3}
  Profiles = {generation, review, drafting, fallback}
  Keys = {qwen38, qwen36}
  KeyOf <- SharedKey
  Rpm <- RpmOf
  Tpm <- TpmOf
  Rpd <- RpdOf
  Attempts <- TriedTwice
  JsonMode <- GenerationIsJson
  Primary <- Responsibility
  Fallback <- NotForReview
  Enabled = {generation, review, drafting, fallback}
  ByteCap <- ByteCaps
  MaxInput <- InputCaps
  Reserve <- Reserves
  Bytes <- PromptBytes
  NoProfile = NoProfile
  DayLength = 2
  MaxMinute = 2
SYMMETRY ReviewsAlike
CHECK_DEADLOCK FALSE
INVARIANTS TypeOK WithinLimits DayIsSumOfMinutes NoCallWithoutReservation AttemptsBounded
