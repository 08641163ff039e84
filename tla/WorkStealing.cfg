CONSTANTS
  w1 = w1
  w2 = w2
  w3 = w3
  Workers = {w1, w2, w3}
  First = w1
  N = 4
  TagRange = 8
  Phases <- TwoAndThree
SPECIFICATION FairSpec
INVARIANTS EachTaskOnce TerminatesLast
PROPERTY PhaseEnds
