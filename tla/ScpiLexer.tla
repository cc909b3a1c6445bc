----------------------------- MODULE ScpiLexer ------------------------------
(***************************************************************************)
(* The tokens of IEEE 488.2 program messages, as lexer.c of scpi-parser    *)
(* finds them.  A program message is a sequence of characters; the lexer's *)
(* state (buffer, pos, len) is the pair of the message s and the index i   *)
(* of the next character, which is Len(s) + 1 at its end.  Each scpiLex_   *)
(* function becomes an operator that returns                               *)
(*   type, first, len : the token it leaves in its output parameter,       *)
(*   ret              : the number it returns,                             *)
(*   next             : the position at which it leaves the state.         *)
(*                                                                         *)
(* "hi" is a character beyond ASCII, "cr" and "nl" are CR and LF.          *)
(***************************************************************************)
EXTENDS Integers, Sequences, FiniteSetsExt

(* Letters stand for themselves in either case: nothing in the library
   tells a from A. *)
digits == <<"0", "1", "2", "3", "4", "5", "6", "7", "8", "9", "A", "B", "C", "D", "E", "F">>
Alpha == {"A", "B", "C", "D", "E", "F", "G", "H", "I", "J", "K", "L", "M",
          "N", "O", "P", "Q", "R", "S", "T", "U", "V", "W", "X", "Y", "Z"}

BaseDigit(base) == {digits[k] : k \in 1 .. base}
Digit == BaseDigit(10)
HexDigit == BaseDigit(16)
OctDigit == BaseDigit(8)
BinDigit == BaseDigit(2)
NameChar == Alpha \cup Digit \cup {"_"}

Numeral == [c \in HexDigit |-> (CHOOSE k \in 1 .. 16 : digits[k] = c) - 1]
Blank == {" "}  \* isws: a space or a tabulator
Quote == {"\"", "'"}

(* isascii7bit fails for one character, isProgramExpression for more. *)
NonAscii == "hi"
NoExpression == {"\"", "#", "'", "(", ")", ";", "cr", "nl", NonAscii}

Char == NameChar \cup Blank \cup Quote \cup NoExpression
          \cup {"*", ":", "?", ",", "+", "-", ".", "/", "@", "!", "$"}

-----------------------------------------------------------------------------
(* The skip functions *)

iseos(s, i) == i > Len(s)

At(s, i, C) == i <= Len(s) /\ s[i] \in C

(* The number of characters of C that follow one another from i on *)
Span(s, i, C) ==
  LET stop == {j \in i .. Len(s) : s[j] \notin C}
  IN  (IF stop = {} THEN Len(s) + 1 ELSE Min(stop)) - i

(* skipChr and the functions like it: the position after an optional
   character of C *)
Opt(s, i, C) == IF At(s, i, C) THEN i + 1 ELSE i

skipWs(s, i) == i + Span(s, i, Blank)

(* skipProgramMnemonic: the position after a letter and more name
   characters; i itself when no letter is there *)
skipProgramMnemonic(s, i) ==
  IF At(s, i, Alpha) THEN i + 1 + Span(s, i + 1, NameChar) ELSE i

Token(type, first, len, ret, next) ==
  [type |-> type, first |-> first, len |-> len, ret |-> ret, next |-> next]

(* A token from i up to j, and the failure that leaves the position at i *)
Found(type, i, j) == Token(type, i, j - i, j - i, j)

None(i) == Token("UNKNOWN", i, 0, 0, i)

FoundOrNone(type, i, j) == IF j > i THEN Found(type, i, j) ELSE None(i)

-----------------------------------------------------------------------------
(* Program headers.  The skip functions return one of the three results and
   where they stopped. *)

skipCommonProgramHeader(s, i) ==
  LET j == skipProgramMnemonic(s, i + 1)
  IN  IF ~ At(s, i, {"*"}) THEN [res |-> "NONE", next |-> i]
      ELSE [res |-> IF j > i + 1 THEN "OK" ELSE "INCOMPLETE", next |-> j]

(* Behind a mnemonic: as many more as have a colon before them *)
moreMnemonics(s) ==
  LET rest[j \in 1 .. Len(s) + 1] ==
        IF ~ At(s, j, {":"}) THEN [res |-> "OK", next |-> j]
        ELSE IF skipProgramMnemonic(s, j + 1) = j + 1 THEN [res |-> "INCOMPLETE", next |-> j + 1]
        ELSE rest[skipProgramMnemonic(s, j + 1)]
  IN  rest

skipCompoundProgramHeader(s, i) ==
  LET first == Opt(s, i, {":"})
      k     == skipProgramMnemonic(s, first)
  IN  CASE k > first -> moreMnemonics(s)[k]
        [] k = first /\ first > i -> [res |-> "INCOMPLETE", next |-> k]
        [] OTHER -> [res |-> "NONE", next |-> i]

(* The token of the header that the skip function left in h *)
HeaderToken(s, i, kind, h) ==
  LET j == Opt(s, h.next, {"?"})
  IN  CASE h.res = "OK" -> Found(IF j > h.next THEN kind \o "_QUERY" ELSE kind, i, j)
        [] h.res = "INCOMPLETE" -> Found("INCOMPLETE_" \o kind, i, h.next)
        [] h.res = "NONE" -> None(i)

ProgramHeader(s, i) ==
  IF skipCommonProgramHeader(s, i).res # "NONE"
  THEN HeaderToken(s, i, "COMMON", skipCommonProgramHeader(s, i))
  ELSE HeaderToken(s, i, "COMPOUND", skipCompoundProgramHeader(s, i))

-----------------------------------------------------------------------------
(* Program data *)

CharacterProgramData(s, i) == FoundOrNone("MNEMONIC", i, skipProgramMnemonic(s, i))

(* Seeded fault: an exponent without a digit is taken. *)
skipExponent_NoRollback(s, i) ==
  LET e == skipWs(s, i)
      d == Opt(s, skipWs(s, e + 1), {"+", "-"})
  IN  IF At(s, e, {"E"}) THEN d + Span(s, d, Digit) ELSE i

(* The exponent counts only with a digit in it, blanks included. *)
skipExponent(s, i) ==
  LET e == skipWs(s, i)
      d == Opt(s, skipWs(s, e + 1), {"+", "-"})
      n == Span(s, d, Digit)
  IN  IF At(s, e, {"E"}) /\ n > 0 THEN d + n ELSE i

DecimalNumericProgramData(s, i) ==
  LET a == Opt(s, i, {"+", "-"})
      m == Span(s, a, Digit)
      p == Opt(s, a + m, {"."})
      f == IF p > a + m THEN Span(s, p, Digit) ELSE 0
  IN  IF m + f = 0 THEN None(i) ELSE Found("DECIMAL", i, skipExponent(s, p + f))

(* The letters of a unit, and its power *)
skipUnit(s, i) == i + Span(s, i, Alpha)
skipPower(s, i) == Opt(s, Opt(s, i, {"-"}), Digit)

(* Behind a unit and its power: as many more as have a / or . before them *)
moreUnits(s) ==
  LET more[j \in 1 .. Len(s) + 1] ==
        IF At(s, j, {"/", "."}) THEN more[skipPower(s, skipUnit(s, j + 1))] ELSE j
  IN  more

SuffixProgramData(s, i) ==
  LET a == Opt(s, i, {"/"})
      b == skipUnit(s, a)
  IN  FoundOrNone("SUFFIX", i, IF b > a THEN moreUnits(s)[skipPower(s, b)] ELSE a)

(* #Hff, #Q17, #B01: the token leaves the prefix out, the result counts it. *)
BasedNumber(s, i, type, C) ==
  LET n == Span(s, i + 2, C)
  IN  IF n > 0 THEN Token(type, i + 2, n, n + 2, i + 2 + n) ELSE None(i)

NondecimalNumericData(s, i) ==
  CASE At(s, i, {"#"}) /\ At(s, i + 1, {"H"}) -> BasedNumber(s, i, "HEXNUM", HexDigit)
    [] At(s, i, {"#"}) /\ At(s, i + 1, {"Q"}) -> BasedNumber(s, i, "OCTNUM", OctDigit)
    [] At(s, i, {"#"}) /\ At(s, i + 1, {"B"}) -> BasedNumber(s, i, "BINNUM", BinDigit)
    [] OTHER -> None(i)

(* A string ends at the first quote that is not doubled; without one, or
   with a character that is not ASCII before it, there is no string. *)
closingQuote(s, q) ==
  LET close[j \in 1 .. Len(s) + 1] ==
        CASE iseos(s, j) -> 0
          [] At(s, j, {q}) /\ At(s, j + 1, {q}) -> close[j + 2]
          [] At(s, j, {q}) /\ ~ At(s, j + 1, {q}) -> j
          [] At(s, j, {NonAscii}) -> 0
          [] OTHER -> close[j + 1]
  IN  close

StringProgramData(s, i) ==
  LET end == closingQuote(s, s[i])[i + 1]
  IN  IF At(s, i, Quote) /\ end > 0 THEN Found("STRING", i, end + 1) ELSE None(i)

(* #<digit k><k digits: the length n><n characters>.  A block of which the
   end has not arrived takes all that is there. *)
lengthOfBlock(s, i, n) ==
  LET length[j \in 0 .. n] ==
        IF j = 0 THEN 0 ELSE 10 * length[j - 1] + Numeral[s[i + 1 + j]]
  IN  length[n]

ArbitraryBlockProgramData(s, i) ==
  LET k == IF At(s, i + 1, Digit \ {"0"}) THEN Numeral[s[i + 1]] ELSE 0
      n == IF Span(s, i + 2, Digit) > k THEN k ELSE Span(s, i + 2, Digit)
      data == i + 2 + n
      valid == k > 0 /\ n = k /\ data + lengthOfBlock(s, i, n) <= Len(s) + 1
      incomplete == \/ iseos(s, i + 1)
                    \/ k > 0 /\ n = k /\ data + lengthOfBlock(s, i, n) > Len(s) + 1
                    \/ k > 0 /\ n < k /\ iseos(s, data)
  IN  CASE At(s, i, {"#"}) /\ valid ->
             Token("BLOCK", data, lengthOfBlock(s, i, n), 2 + n + lengthOfBlock(s, i, n),
                   data + lengthOfBlock(s, i, n))
        [] At(s, i, {"#"}) /\ incomplete -> Token("UNKNOWN", i, 0, 0, Len(s) + 1)
        [] OTHER -> None(i)

(* Seeded fault: an expression goes on to its bracket, over anything. *)
ProgramExpression_OverAll(s, i) ==
  LET j == i + 1 + Span(s, i + 1, Char \ {")"})
  IN  IF At(s, i, {"("}) /\ At(s, j, {")"}) THEN Found("EXPRESSION", i, j + 1) ELSE None(i)

ProgramExpression(s, i) ==
  LET j == i + 1 + Span(s, i + 1, Char \ NoExpression)
  IN  IF At(s, i, {"("}) /\ At(s, j, {")"}) THEN Found("EXPRESSION", i, j + 1) ELSE None(i)

-----------------------------------------------------------------------------
(* Separators *)

Comma(s, i) == FoundOrNone("COMMA", i, Opt(s, i, {","}))

Semicolon(s, i) == FoundOrNone("SEMICOLON", i, Opt(s, i, {";"}))

Colon(s, i) == FoundOrNone("COLON", i, Opt(s, i, {":"}))

SpecificCharacter(s, i, c) == FoundOrNone("SPECIFIC_CHARACTER", i, Opt(s, i, {c}))

(* CR, LF or CR LF *)
NewLine(s, i) == FoundOrNone("NL", i, Opt(s, Opt(s, i, {"cr"}), {"nl"}))
=============================================================================
