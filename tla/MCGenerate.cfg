SPECIFICATION Spec
CONSTANTS
  a = a
  b = b
  NL = NL
  NLNL = NLNL
  Mark = Mark
  End = End
  Unset = Unset
  Plain <- PlainTokens
  Prompts <- SmallPrompts
  MaxTokens = 8
  MaxOneShot = 4
  HasTpl = TRUE
  RepeatLimit = 3
  ParaLimit = 3
  BufSize = 7
  MaxK = 3
INVARIANTS
  OutputClean
  NoLoopShown
  StopsJustified
PROPERTIES
  ImplementsTokenStream
