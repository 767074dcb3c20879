SPECIFICATION Spec
CONSTANTS
  Literal <- Literals
  Numbers <- SpokenNumbers
  MathMaxTokens = 32
  MaxInputBytes = 256
  MaxFormula = 7
  MaxSentence = 7
  HtSize = 512
  XorByte <- ByteXors
  Files <- Vocabularies
  TextBytes <- SomeBytes
  MaxText = 4
  MaxTokens = 3
INVARIANTS
  GrammarRespected
  Understood
  LookupIsFirst
  SplitsAsPattern
  TextSurvives
