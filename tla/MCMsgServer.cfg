CONSTANTS
  Sons = {s1, s2}
  Father = Father
  MaxVal = 2
SPECIFICATION FairSpec
INVARIANTS OwnAnswers
PROPERTY EndsClean
CHECK_DEADLOCK FALSE
