SPECIFICATION GwSpec
SYMMETRY ThreadSymmetry
CONSTANTS
  s1 = s1
  s2 = s2
  r1 = r1
  g1 = g1
  Threads = {t1, t2}
  Sessions = {s1, s2}
  RunOf <- GwRuns
  Supervised = {s1}
  Actions <- GwActions
  Grants = {g1}
  Covers <- GwCovers
  MaxToolCalls = 1
  MaxTokens = 1
  MaxSessions = 1
  MaxEntries = 1
  MaxApprovals = 1
INVARIANTS
    ApprovalSingleUse
    AllowIsJustified
    StoppedSessionGetsNothing
