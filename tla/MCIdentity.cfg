SPECIFICATION Spec
CONSTANTS
  Signups = {s1, s2, s3}
  Contestants = {c1}
  Handles = {h1, h2}
  Names = {n1, n2}
  MaxCrashes = 2
SYMMETRY Alike
INVARIANTS TypeOK AccountsAgree
CHECK_DEADLOCK FALSE
