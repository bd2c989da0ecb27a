--------------------------- MODULE MCParseNumbers ---------------------------
(***************************************************************************)
(* Model-checking instance of ParseNumbers: every decimal literal of up to *)
(* three digits, hex literals of up to three hexits, each with an          *)
(* underscore form, under every sign, for every integer entry point; and   *)
(* NaN literals with and without payloads.                                 *)
(***************************************************************************)
EXTENDS ParseNumbers

Signs == {"", "+", "-"}

\* Digit strings of one to three characters over D, and the two-character
\* ones with an underscore between their characters.
DigitStrings(D) ==
  LET plain == UNION {[1 .. n -> D] : n \in 1 .. 3}
  IN plain \cup {<<a, Underscore, b>> : a, b \in D}

MCIntTokens ==
  {[sign |-> s, base |-> 10, chars |-> c] : s \in Signs, c \in DigitStrings(0 .. 9)}
  \cup {[sign |-> s, base |-> 16, chars |-> c] : s \in Signs, c \in DigitStrings({0, 1, 7, 8, 15})}

MCNaNTokens ==
  {[type |-> "floatNaN", sign |-> s, payload |-> p] : s \in Signs,
                                p \in {<<>>} \cup UNION {[1 .. n -> {0, 1, 7, 8, 15}] : n \in 1 .. 2}}

\* The characters of parseFloat's isNumericChar test used here, and two
\* that end a token.
MCNumericChars == {"0", "9", "a", "x", ".", "p", "-", "+", Underscore}

Enders == {")", " "}

\* Float token bodies of up to four characters, underscores anywhere in
\* them (the scan treats every numeric character but '_' alike); each is
\* given every sign and followed by an ending character.
FloatBodies ==
  UNION {[1 .. n -> {"0", "p", Underscore}] : n \in 1 .. 4}

SignChars(s) == IF s = "" THEN <<>> ELSE <<s>>

MCFloatTokens ==
  {[type |-> t, sign |-> s, text |-> SignChars(s) \o b \o <<e>>] :
     t \in {"decimalFloat", "hexFloat"}, s \in Signs, b \in FloatBodies, e \in Enders}
  \cup {[type |-> "decimalInt", sign |-> s, text |-> SignChars(s) \o <<"9", Underscore, "0", ")">>] :
          s \in Signs}
  \cup {[type |-> "hexInt", sign |-> s, text |-> SignChars(s) \o <<"0", "x", "a", Underscore, "9", ")">>] :
          s \in Signs}
  \cup {[type |-> t, sign |-> s, text |-> SignChars(s) \o <<")">>] :
          t \in {"floatInf", "name"}, s \in Signs}
====
