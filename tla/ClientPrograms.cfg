\* Four callers of each of the example programs.
CONSTANTS
  c1 = c1
  c2 = c2
  c3 = c3
  c4 = c4
  None = None
  Caller = {c1, c2, c3, c4}
  InitialBalance = 1
  Amounts <- SmallAmounts
  JobsPerCall = 2
  Rounds = 2
SPECIFICATION ProgramSpec
INVARIANTS AuditSeesOwnPayment TokenFetchedOnce RefreshFlagOwned JobsAreFetched SyncMeansUploaded AnswerIsCurrent
PROPERTIES ProgramsEnd
