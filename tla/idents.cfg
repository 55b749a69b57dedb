CONSTANTS
  Char <- MCChar
  Text <- MCText
  Ascii <- MCAscii
  Limit = 63
  MaxCtes = 2
  Numeral <- MCNumeral
SPECIFICATION Spec
INVARIANTS
  ReadsBack
  CtesApart
