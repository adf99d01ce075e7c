CONSTANTS
  Char <- MCChar
  Texts <- MCTexts
  BadPaths = {"app.log", ""}
  Numeral <- MCNumeral
  MaxSize = 16777215
SPECIFICATION Spec
CHECK_DEADLOCK FALSE
INVARIANTS
  StartTypeOK
  LastValidWins
  PatternMeaning
  
