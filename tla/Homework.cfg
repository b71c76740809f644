SPECIFICATION Spec
CONSTANTS
  Homeworks = {h1, h2}
  Students = {anna}
  Scores <- MCScores
  Answers <- MCAnswers
  Comments <- MCComments
  Digits <- MCDigits
  BlockLength = 10
  Leftovers <- MCLeftovers
  MayRunOut = TRUE
  MaxSheet = 11
INVARIANT TypeOK
PROPERTY ImplementsGrades
