CONSTANTS
  p1 = p1  p2 = p2  r1 = r1  r2 = r2  c1 = c1  c2 = c2
  s1 = s1  s2 = s2  s3 = s3  s4 = s4
  Creators <- TwoCreators
  Renewers <- TwoRenewers
  Claims <- OneClaim
  Sandboxes <- ThreeSandboxes
  NoSandbox = NoSandbox
  Size = 2
  KillMayFail = FALSE
  CloseInterruptible = TRUE
SPECIFICATION Spec
INVARIANT ShutdownReclaims
