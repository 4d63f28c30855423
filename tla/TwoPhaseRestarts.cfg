CONSTANTS
  v1 = v1  v2 = v2  v3 = v3  v4 = v4
  a = a  b = b  bad = bad  Nil = Nil
  Honest = {v1, v2, v3}
  Faulty = {}
  Values = {a, b}
  Executable = {a, b}
  Rounds <- TwoRounds
  Proposer <- AllHonest
  HeaderRound <- HeaderAB
  Waiting = {v1}
  Crashing = {v1, v2}
SPECIFICATION Spec
CHECK_DEADLOCK FALSE
INVARIANTS NoDoubleSign
 
