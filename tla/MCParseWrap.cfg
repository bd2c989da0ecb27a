\* Wrap run: the widths of the literal run; checks the assertion on the
\* accumulation of the digit loops, which a negative literal parsed for an
\* unsigned type reaches.
CONSTANTS
  Underscore = Underscore
  U64Bits = 9
  U32Bits = 7
  I16Bits = 6
  I8Bits = 5
  SigBits32 = 4
  SigBits64 = 6
  IntTokens <- MCIntTokens
  NaNTokens <- MCNaNTokens
  FloatTokens <- MCFloatTokens
  NumericChars <- MCNumericChars
SPECIFICATION Spec
INVARIANTS
  DigitLoopNeverWraps
