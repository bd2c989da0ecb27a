\* Literal run: a U64 of 9 bits, U32 of 7, I16 of 6, I8 of 5; F32 and F64
\* significands of 4 and 6 bits.  Every integer literal is checked against
\* its value, and every NaN literal against its payload.
CONSTANTS
  Underscore = Underscore
  U64Bits = 9
  U32Bits = 7
  I16Bits = 6
  I8Bits = 5
  SigBits32 = 4
  SigBits64 = 6
  IntTokens <- MCIntTokens
  NaNTokens <- MCNaNTokens
  FloatTokens <- MCFloatTokens
  NumericChars <- MCNumericChars
SPECIFICATION Spec
INVARIANTS
  IntLiteralMatchesValue
  NaNPayloadPreserved
  FloatLiteralParsed
