---------------------------- MODULE ParseNumbers ----------------------------
(***************************************************************************)
(* The integer and float literal parsers of                               *)
(* src/Lib/WASTParse/ParseNumbers.cpp, run on tokens the lexer accepts.    *)
(* A token is its sign, its base and its characters after the sign and    *)
(* "0x", each a digit value or the underscore separator; the parsers'     *)
(* character tests (tryParseHexit, the '0'..'9' range) are the mapping of  *)
(* a character to its value.                                               *)
(*                                                                         *)
(* U64 is a word of U64Bits bits and every other integer type is narrower, *)
(* so the wrap-around of U64 arithmetic and of the casts to the parsed     *)
(* types happens at the same places as in the code, on shorter literals.   *)
(* Every bound a parse loop is given is kept at least 15, the largest     *)
(* digit, as it is at the real widths (the smallest is 128), except the 0  *)
(* that tryParseInt passes for a negative literal of an unsigned type.    *)
(***************************************************************************)
EXTENDS Integers, Sequences, SequencesExt

CONSTANTS
  Underscore,     \* the '_' separator character
  U64Bits,        \* width of U64 (and of Uptr)
  U32Bits,        \* width of U32
  I16Bits,        \* width of I16 / U16
  I8Bits,         \* width of I8 / U8
  SigBits32,      \* FloatComponents<F32>::numSignificandBits
  SigBits64,      \* FloatComponents<F64>::numSignificandBits
  IntTokens,      \* integer tokens: [sign, base, chars]
  NaNTokens,      \* NaN tokens: [type, sign, payload]; payload is <<>> when absent
  FloatTokens,    \* other tokens given to tryParseFloat: [type, sign, text]
  NumericChars    \* the characters parseFloat's scan takes as part of the number

ASSUME /\ I8Bits < I16Bits /\ I16Bits < U32Bits /\ U32Bits < U64Bits
       /\ SigBits32 < SigBits64 /\ SigBits64 < U64Bits
       /\ 2 ^ (I8Bits - 1) >= 15 /\ 2 ^ SigBits32 - 1 >= 15

U64Mod == 2 ^ U64Bits

\* The parsed types (tryParseU64 ... parseI64, lines 298-361): the signed
\* minimum and unsigned maximum passed to tryParseInt, the width of its
\* UnsignedInt, and the width and signedness of the value returned.
IntTypes ==
  [ U64 |-> [min |-> 0, max |-> 2 ^ U64Bits - 1, uBits |-> U64Bits, bits |-> U64Bits, signed |-> FALSE],
    U32 |-> [min |-> 0, max |-> 2 ^ U32Bits - 1, uBits |-> U32Bits, bits |-> U32Bits, signed |-> FALSE],
    I8  |-> [min |-> -(2 ^ (I8Bits - 1)), max |-> 2 ^ I8Bits - 1, uBits |-> U32Bits, bits |-> I8Bits, signed |-> TRUE],
    I16 |-> [min |-> -(2 ^ (I16Bits - 1)), max |-> 2 ^ I16Bits - 1, uBits |-> U32Bits, bits |-> I16Bits, signed |-> TRUE],
    I32 |-> [min |-> -(2 ^ (U32Bits - 1)), max |-> 2 ^ U32Bits - 1, uBits |-> U32Bits, bits |-> U32Bits, signed |-> TRUE],
    I64 |-> [min |-> -(2 ^ (U64Bits - 1)), max |-> 2 ^ U64Bits - 1, uBits |-> U64Bits, bits |-> U64Bits, signed |-> TRUE] ]

\* The float formats of parseNaN: significand width.
FloatTypes == [F32 |-> SigBits32, F64 |-> SigBits64]

\* A value of w bits read back as a two's-complement integer (the final
\* I8(...) .. I64(...) casts).
AsSigned(v, w) == IF v >= 2 ^ (w - 1) THEN v - 2 ^ w ELSE v

-----------------------------------------------------------------------------
(* parseSign (lines 34-46).                                                 *)

parseSign(tok) == tok.sign = "-"

-----------------------------------------------------------------------------
(* parseDecimalUnsignedInt (lines 83-113) and parseHexUnsignedInt (lines   *)
(* 51-78).  Each returns the value, whether "too large" was reported, and  *)
(* whether the wavmAssert on the accumulation (lines 74, 109) would fail;  *)
(* with assertions compiled out the loop goes on with the wrapped value.   *)

\* Mutant: the overflow test forgets the digit about to be added.
DecimalTooLargeNoDigit(result, digit, maxValue) == result > maxValue \div 10

\* Line 102: result > U64(maxValue - digit) / 10, in U64 arithmetic.
DecimalTooLarge(result, digit, maxValue) == result > ((maxValue - digit) % U64Mod) \div 10

RECURSIVE parseDecimalLoop(_, _, _)
parseDecimalLoop(cs, result, maxValue) ==
  IF cs = <<>> THEN [val |-> result, tooLarge |-> FALSE, wrapped |-> FALSE]
  ELSE IF Head(cs) = Underscore THEN parseDecimalLoop(Tail(cs), result, maxValue)
  ELSE IF DecimalTooLarge(result, Head(cs), maxValue)
    \* Lines 104-107: report, clamp to maxValue and skip the rest.
    THEN [val |-> maxValue, tooLarge |-> TRUE, wrapped |-> FALSE]
  ELSE LET next == (result * 10 + Head(cs)) % U64Mod
           rest == parseDecimalLoop(Tail(cs), next, maxValue)
       IN [rest EXCEPT !.wrapped = @ \/ next < result]

parseDecimalUnsignedInt(cs, maxValue) == parseDecimalLoop(cs, 0, maxValue)

\* Line 67: result > (maxValue - hexit) / 16, in U64 arithmetic.
HexTooLarge(result, hexit, maxValue) == result > ((maxValue - hexit) % U64Mod) \div 16

RECURSIVE parseHexLoop(_, _, _)
parseHexLoop(cs, result, maxValue) ==
  IF cs = <<>> THEN [val |-> result, tooLarge |-> FALSE, wrapped |-> FALSE]
  ELSE IF Head(cs) = Underscore THEN parseHexLoop(Tail(cs), result, maxValue)
  ELSE IF HexTooLarge(result, Head(cs), maxValue)
    THEN [val |-> maxValue, tooLarge |-> TRUE, wrapped |-> FALSE]
  ELSE LET next == (result * 16 + Head(cs)) % U64Mod
           rest == parseHexLoop(Tail(cs), next, maxValue)
       IN [rest EXCEPT !.wrapped = @ \/ next < result]

parseHexUnsignedInt(cs, maxValue) == parseHexLoop(cs, 0, maxValue)

-----------------------------------------------------------------------------
(* tryParseInt (lines 230-272) and the typed entry points (298-361).       *)

\* Lines 243-252: a negative literal is parsed up to -U64(minSignedValue).
MaxValueFor(neg, ty) == IF neg THEN (-ty.min) % U64Mod ELSE ty.max

\* The outcome of tryParseInt for a token and a type, followed by the
\* entry point's cast of the UnsignedInt to the type returned.  A negative
\* literal for an unsigned type is rejected after it has been parsed
\* (lines 257-262).
tryParseInt(tok, ty) ==
  LET neg == parseSign(tok)
      maxValue == MaxValueFor(neg, ty)
      p == IF tok.base = 10 THEN parseDecimalUnsignedInt(tok.chars, maxValue)
                            ELSE parseHexUnsignedInt(tok.chars, maxValue)
      u == IF neg THEN (-p.val) % (2 ^ ty.uBits) ELSE p.val % (2 ^ ty.uBits)
      v == u % (2 ^ ty.bits)
  IN [ok |-> ~(ty.min = 0 /\ neg),
      val |-> IF ty.signed THEN AsSigned(v, ty.bits) ELSE v,
      tooLarge |-> p.tooLarge, wrapped |-> p.wrapped]

-----------------------------------------------------------------------------
(* parseNaN (lines 118-151).                                               *)

\* Mutant: the quiet bit shifted one place too far.
NaNDefaultSignificandShifted(sigBits) == (2 ^ sigBits) % (2 ^ sigBits)

\* Lines 146-147: without a payload only the top significand bit is set.
NaNDefaultSignificand(sigBits) == 2 ^ (sigBits - 1)

\* The float's components: the exponent is always all ones.  A payload is
\* parsed as hex up to maxSignificand; a zero payload is reported and the
\* significand set to 1 (line 139), then overwritten by the parsed bits
\* (line 141).
parseNaN(tok, sigBits) ==
  LET maxSignificand == 2 ^ sigBits - 1
      p == parseHexUnsignedInt(tok.payload, maxSignificand)
      significand ==
        IF tok.payload = <<>> THEN NaNDefaultSignificand(sigBits)
        ELSE p.val % (2 ^ sigBits)
  IN [sign |-> IF parseSign(tok) THEN 1 ELSE 0, exponentAllOnes |-> TRUE,
      significand |-> significand,
      error |-> tok.payload # <<>> /\ (p.tooLarge \/ p.val = 0)]

-----------------------------------------------------------------------------
(* parseInfinity (lines 153-164), parseFloat (lines 176-222) and the       *)
(* dispatch of tryParseFloat on the token type (lines 274-296).  A float   *)
(* token's text is its characters from the token's first one (its sign     *)
(* included) followed by the character that ends it.  David Gay's strtod   *)
(* is not modelled: parseFloat's result is the string it is given.         *)

\* Lines 156-164: the largest exponent and a zero significand.
parseInfinity(tok, sigBits) ==
  [sign |-> IF parseSign(tok) THEN 1 ELSE 0, exponentAllOnes |-> TRUE,
   significand |-> 0, error |-> FALSE]

\* Mutant: the copy made at the first underscore keeps the underscore.
FirstUnderscoreCopyInclusive(text, i) == SubSeq(text, 1, i)

\* Line 197: std::string(firstChar, nextChar), the characters before the
\* first underscore.
FirstUnderscoreCopy(text, i) == SubSeq(text, 1, i - 1)

\* Lines 185-210: the scan from the token's first character to the first
\* character that is not numeric; i is nextChar.  Returns nextChar and the
\* string copied once an underscore was seen.
RECURSIVE parseFloatScan(_, _, _, _)
parseFloatScan(text, i, copy, hasUnderscores) ==
  LET c == text[i] IN
  IF c \notin NumericChars THEN [next |-> i, copy |-> copy, hasUnderscores |-> hasUnderscores]
  ELSE IF c = Underscore /\ ~hasUnderscores
    THEN parseFloatScan(text, i + 1, FirstUnderscoreCopy(text, i), TRUE)
  ELSE IF c # Underscore /\ hasUnderscores
    THEN parseFloatScan(text, i + 1, Append(copy, c), TRUE)
  ELSE parseFloatScan(text, i + 1, copy, hasUnderscores)

\* Lines 179-222: the string handed to strtof/strtod (the copy if there
\* were underscores, else the token from its first character up to the
\* scan's end) and how far nextChar has advanced.
parseFloat(tok) ==
  LET s == parseFloatScan(tok.text, 1, <<>>, FALSE)
  IN [strtodInput |-> IF s.hasUnderscores THEN s.copy ELSE SubSeq(tok.text, 1, s.next - 1),
      consumed |-> s.next - 1]

\* Lines 276-296: the parser chosen by the token type; any other token is
\* "expected float literal" and tryParseFloat returns false.
tryParseFloat(tok, sigBits) ==
  CASE tok.type \in {"decimalInt", "decimalFloat", "hexInt", "hexFloat"}
         -> [ok |-> TRUE] @@ parseFloat(tok)
    [] tok.type = "floatNaN" -> [ok |-> TRUE] @@ parseNaN(tok, sigBits)
    [] tok.type = "floatInf" -> [ok |-> TRUE] @@ parseInfinity(tok, sigBits)
    [] OTHER -> [ok |-> FALSE]

-----------------------------------------------------------------------------
(* One literal parsed by one entry point (parseU32 ... parseI64, or        *)
(* parseF32 / parseF64 through tryParseFloat).                             *)

VARIABLES
  lit,      \* the token
  kind,     \* the entry point: a key of IntTypes or of FloatTypes
  outcome   \* its result, once parsed

vars == <<lit, kind, outcome>>

Init ==
  /\ \/ lit \in IntTokens /\ kind \in DOMAIN IntTypes
     \/ lit \in NaNTokens \cup FloatTokens /\ kind \in DOMAIN FloatTypes
  /\ outcome = [done |-> FALSE]

ParseInt ==
  /\ kind \in DOMAIN IntTypes
  /\ ~outcome.done
  /\ outcome' = [done |-> TRUE] @@ tryParseInt(lit, IntTypes[kind])
  /\ UNCHANGED <<lit, kind>>

ParseFloat ==
  /\ kind \in DOMAIN FloatTypes
  /\ ~outcome.done
  /\ outcome' = [done |-> TRUE] @@ tryParseFloat(lit, FloatTypes[kind])
  /\ UNCHANGED <<lit, kind>>

\* The parse has returned.
Parsed == outcome.done /\ UNCHANGED vars

Next == ParseInt \/ ParseFloat \/ Parsed

Spec == Init /\ [][Next]_vars

-----------------------------------------------------------------------------
(* Reference values and properties.                                        *)

\* The number a token's characters denote, in unbounded integers.
LiteralValue(chars, base) ==
  FoldLeft(LAMBDA acc, d : acc * base + d, 0, SelectSeq(chars, LAMBDA c : c # Underscore))

\* An integer literal that tryParseInt accepts yields the literal's value
\* in the parsed type (two's complement for the signed types), and
\* "too large" is reported exactly when the literal's magnitude exceeds
\* the bound of its sign, in which case the bound is returned: the overflow
\* tests of parseDecimalUnsignedInt and parseHexUnsignedInt are exact at
\* every boundary, in U64 arithmetic.
IntLiteralMatchesValue ==
  (outcome.done /\ kind \in DOMAIN IntTypes /\ outcome.ok) =>
    LET ty == IntTypes[kind]
        neg == parseSign(lit)
        v == LiteralValue(lit.chars, lit.base)
        limit == IF neg THEN -ty.min ELSE ty.max
        s == IF neg THEN -(IF v > limit THEN limit ELSE v) ELSE (IF v > limit THEN limit ELSE v)
        w == s % (2 ^ ty.bits)
    IN /\ outcome.tooLarge = (v > limit)
       /\ outcome.val = (IF ty.signed THEN AsSigned(w, ty.bits) ELSE w)

\* The wavmAssert(result * 10 + digit >= result) of line 109 (and its hex
\* twin at line 74): the accumulation in the digit loops never wraps.
DigitLoopNeverWraps ==
  (outcome.done /\ kind \in DOMAIN IntTypes) => ~outcome.wrapped

\* A NaN literal keeps its payload: without one only the quiet bit is set
\* and nothing is reported; a payload is reported as an error exactly when
\* it is zero (lines 136-139) or exceeds maxSignificand (parseHexUnsignedInt),
\* and a payload that is accepted is the significand.  What a rejected
\* payload leaves in the significand is not stated: the parse has failed.
NaNPayloadPreserved ==
  (outcome.done /\ kind \in DOMAIN FloatTypes /\ lit.type = "floatNaN") =>
    LET maxSignificand == 2 ^ FloatTypes[kind] - 1
        v == LiteralValue(lit.payload, 16)
    IN IF lit.payload = <<>>
         THEN outcome.significand = 2 ^ (FloatTypes[kind] - 1) /\ ~outcome.error
         ELSE /\ outcome.error = (v = 0 \/ v > maxSignificand)
              /\ ~outcome.error => outcome.significand = v

\* The text of a float token, without the character that ends it.
TokenChars(tok) == Front(tok.text)

\* A float literal reaches strtof/strtod as exactly its characters with the
\* underscores removed, the copy parseFloat starts at the first underscore
\* joined to the characters after it, and parseFloat leaves nextChar at
\* the end of the token (the wavmAssert of line 291); an infinity is the
\* largest exponent with the token's sign, and any other token is refused.
FloatLiteralParsed ==
  (outcome.done /\ kind \in DOMAIN FloatTypes /\ lit \in FloatTokens) =>
    CASE lit.type \in {"decimalInt", "decimalFloat", "hexInt", "hexFloat"}
           -> /\ outcome.strtodInput = SelectSeq(TokenChars(lit), LAMBDA c : c # Underscore)
              /\ outcome.consumed = Len(TokenChars(lit))
      [] lit.type = "floatInf"
           -> /\ outcome.significand = 0
              /\ outcome.sign = IF lit.sign = "-" THEN 1 ELSE 0
      [] OTHER -> ~outcome.ok

====
