CONSTANTS
  v1 = v1  v2 = v2  v3 = v3  v4 = v4
  a = a  b = b  bad = bad  Nil = Nil
  Honest = {v1, v2, v3}
  Faulty = {v4}
  Values = {a, b, bad}
  Executable = {a, b}
  Rounds <- TwoRounds
  Proposer <- FaultyFirst
  HeaderRound <- HeaderABBad
  Waiting = {}
  Crashing = {}
SPECIFICATION Spec
CHECK_DEADLOCK FALSE
INVARIANTS Agreement LockRule OnlyExecutableCertified
SYMMETRY Alike
