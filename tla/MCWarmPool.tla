----------------------------- MODULE MCWarmPool -----------------------------
(***************************************************************************)
(* Model values and symmetry for the runs of WarmPool.                     *)
(***************************************************************************)
EXTENDS WarmPool, TLC

CONSTANTS p1, p2, r1, r2, c1, c2, s1, s2, s3, s4

OneCreator == {p1}
TwoCreators == {p1, p2}
TwoRenewers == {r1, r2}
OneClaim == {c1}
TwoClaims == {c1, c2}
TwoSandboxes == {s1, s2}
ThreeSandboxes == {s1, s2, s3}
FourSandboxes == {s1, s2, s3, s4}

\* Sandboxes are interchangeable, and so are producers, renewers and episodes.
Symmetry ==
  Permutations(Sandboxes) \cup Permutations(Creators)
    \cup Permutations(Renewers) \cup Permutations(Claims)
=============================================================================
