----------------------------- MODULE ScpiNumber -----------------------------
(***************************************************************************)
(* What scpi-parser makes of a parameter: numbers in four bases and two    *)
(* widths, decimal fractions, choices, texts, blocks and numbers with      *)
(* units; and how it writes them (parser.c, utils.c, units.c).             *)
(*                                                                         *)
(* d is the parameter part of a unit, as in Parameter; a reader returns    *)
(*   ok, val    : its result and the value it stores when ok,              *)
(*   pos, error : the position it leaves and the error it pushed, or 0.    *)
(* An integer is its bit pattern, a number in 0 .. 2^w - 1.                *)
(***************************************************************************)
EXTENDS ScpiUnit, SequencesExt

CONSTANTS Width,     \* 32 in the code: the bits of int32_t and uint32_t
          LongWidth  \* 64: those of the 64 bit types and of long

ASSUME WidthAssumption == Width \in Nat \ {0, 1} /\ LongWidth \in Nat /\ Width <= LongWidth

INVALID_SUFFIX == 0 - 131
DATA_TYPE_ERROR == 0 - 104
SUFFIX_NOT_ALLOWED == 0 - 138
ILLEGAL_PARAMETER_VALUE == 0 - 224

-----------------------------------------------------------------------------
(* Writing integers *)

(* The powers of the base that the code divides by; the first of them is a
   literal for each base and width. *)
Powers(base, w) == {k \in 0 .. w - 1 : base ^ k < 2 ^ w}

(* Without leading zeros *)
Digits(u, base, w) ==
  LET n == Max({0} \cup {k \in Powers(base, w) : base ^ k <= u})
  IN  [j \in 1 .. n + 1 |-> digits[1 + ((u \div base ^ (n + 1 - j)) % base)]]

Signed(val, w) == IF val >= 2 ^ (w - 1) THEN val - 2 ^ w ELSE val

(* Seeded fault: the sign is written, and the bits after it as they are. *)
UIntToStrBaseSign_BitsAfterSign(val, w, base, sign) ==
  IF sign /\ base = 10 /\ Signed(val, w) < 0 THEN <<"-">> \o Digits(val, base, w) ELSE Digits(val, base, w)

(* UInt32ToStrBaseSign and UInt64ToStrBaseSign *)
UIntToStrBaseSign(val, w, base, sign) ==
  IF sign /\ base = 10 /\ Signed(val, w) < 0
  THEN <<"-">> \o Digits(0 - Signed(val, w), base, w)
  ELSE Digits(val, base, w)

getBasePrefix(base) == CASE base = 2 -> <<"#", "B">>
                         [] base = 8 -> <<"#", "Q">>
                         [] base = 16 -> <<"#", "H">>
                         [] OTHER -> <<>>

(* resultUInt32BaseSign, resultUInt64BaseSign, without the delimiter *)
resultUIntBaseSign(val, w, base, sign) == getBasePrefix(base) \o UIntToStrBaseSign(val, w, base, sign)

-----------------------------------------------------------------------------
(* Reading integers *)

(* What stands at i of s in the base: sign, magnitude, characters taken *)
Magnitude(s, i, base) ==
  LET j == Opt(s, i, {"+", "-"})
      n == Span(s, j, BaseDigit(base))
      mag[k \in 0 .. n] == IF k = 0 THEN 0 ELSE base * mag[k - 1] + Numeral[s[j + k - 1]]
  IN  [minus |-> At(s, i, {"-"}), mag |-> mag[n], len |-> IF n = 0 THEN 0 ELSE j + n - i]

(* strtol saturates, strtoul takes a negative number modulo its width, and
   both are cut to the w bits of the variable. *)
strBaseToInt(s, i, w, base) ==
  LET m == Magnitude(s, i, base)
      top == 2 ^ (LongWidth - 1)
      long == IF m.minus THEN 0 - Min({m.mag, top}) ELSE Min({m.mag, top - 1})
  IN  [val |-> long % 2 ^ w, len |-> m.len]

strBaseToUInt(s, i, w, base) ==
  LET m == Magnitude(s, i, base)
      all == 2 ^ LongWidth
      long == IF m.mag >= all THEN all - 1 ELSE (IF m.minus THEN all - m.mag ELSE m.mag) % all
  IN  [val |-> long % 2 ^ w, len |-> m.len]

SCPI_ParamIsNumber(p, suffixAllowed) ==
  \/ p.type \in {"HEXNUM", "OCTNUM", "BINNUM", "DECIMAL"}
  \/ p.type = "DECIMAL_WITH_SUFFIX" /\ suffixAllowed

(* ParamSignToUInt32, ParamSignToUInt64: only a decimal number can have a
   sign.  The conversion starts at the token and knows nothing of its end. *)
ParamSignToUInt(d, p, w, sign) ==
  LET converted(n) == [ok |-> n.len > 0, val |-> n.val]
  IN  CASE p.type = "HEXNUM" -> converted(strBaseToUInt(d, p.first, w, 16))
        [] p.type = "OCTNUM" -> converted(strBaseToUInt(d, p.first, w, 8))
        [] p.type = "BINNUM" -> converted(strBaseToUInt(d, p.first, w, 2))
        [] p.type \in {"DECIMAL", "DECIMAL_WITH_SUFFIX"} ->
             converted(IF sign THEN strBaseToInt(d, p.first, w, 10) ELSE strBaseToUInt(d, p.first, w, 10))
        [] OTHER -> [ok |-> FALSE, val |-> 0]

(* What a reader returns *)
Failed(r, error) == [ok |-> FALSE, val |-> 0, pos |-> r.pos, error |-> error]
Read(r, val) == [ok |-> TRUE, val |-> val, pos |-> r.pos, error |-> 0]

(* Seeded fault: a suffix is read over. *)
NumberError_SuffixRead(p) == IF SCPI_ParamIsNumber(p, TRUE) THEN 0 ELSE DATA_TYPE_ERROR

(* The error for a parameter that a number is read from, 0 for none *)
NumberError(p) == CASE SCPI_ParamIsNumber(p, FALSE) -> 0
                    [] p.type = "DECIMAL_WITH_SUFFIX" -> SUFFIX_NOT_ALLOWED
                    [] OTHER -> DATA_TYPE_ERROR

(* ParamSignUInt32, ParamSignUInt64: when the conversion finds no number,
   the result is FALSE and no error is pushed. *)
ParamSignUInt(d, r, w, sign) ==
  LET read(n) == IF n.ok THEN Read(r, n.val) ELSE Failed(r, 0)
  IN  CASE ~ r.ok -> Failed(r, r.error)
        [] r.ok /\ NumberError(r.param) # 0 -> Failed(r, NumberError(r.param))
        [] OTHER -> read(ParamSignToUInt(d, r.param, w, sign))

-----------------------------------------------------------------------------
(* Reading fractions: the value is mant * 10^exp. *)

(* strtod: a blank before or in the exponent ends the number. *)
strToDouble(s, i) ==
  LET a == Opt(s, i, {"+", "-"})
      p == a + Span(s, a, Digit)
      f == IF At(s, p, {"."}) THEN p + 1 + Span(s, p + 1, Digit) ELSE p
      e == Magnitude(s, f + 1, 10)
      given == SelectSeq(SubSeq(s, a, f - 1), LAMBDA c : c \in Digit)
      mant == Magnitude(given, 1, 10).mag
      exp == IF At(s, f, {"E"}) /\ e.len > 0 THEN (IF e.minus THEN 0 - e.mag ELSE e.mag) ELSE 0
  IN  [mant |-> IF At(s, i, {"-"}) THEN 0 - mant ELSE mant,
       exp  |-> exp - (IF f > p THEN f - p - 1 ELSE 0)]

(* SCPI_ParamToFloat and SCPI_ParamToDouble: the other bases come as integers
   of 32 and of 64 bits. *)
SCPI_ParamToDouble(d, p, w) ==
  IF p.type \in {"HEXNUM", "OCTNUM", "BINNUM"}
  THEN [mant |-> ParamSignToUInt(d, p, w, FALSE).val, exp |-> 0]
  ELSE strToDouble(d, p.first)

(* SCPI_ParamFloat (w = Width), SCPI_ParamDouble (w = LongWidth) *)
SCPI_ParamDouble(d, r, w) ==
  CASE ~ r.ok -> Failed(r, r.error)
    [] r.ok /\ NumberError(r.param) # 0 -> Failed(r, NumberError(r.param))
    [] OTHER -> Read(r, SCPI_ParamToDouble(d, r.param, w))

-----------------------------------------------------------------------------
(* Texts and blocks *)

IsQuoted(p) == p.type = "STRING"

(* The characters of a string as they stand, quotes doubled; any other
   parameter as a whole *)
SCPI_ParamCharacters(d, r) ==
  CASE ~ r.ok -> Failed(r, r.error)
    [] r.ok /\ IsQuoted(r.param) ->
         Read(r, SubSeq(d, r.param.first + 1, r.param.first + r.param.len - 2))
    [] OTHER -> Read(r, Text(d, r.param))

SCPI_ParamArbitraryBlock(d, r) ==
  CASE ~ r.ok -> Failed(r, r.error)
    [] r.ok /\ r.param.type = "BLOCK" -> Read(r, Text(d, r.param))
    [] OTHER -> Failed(r, DATA_TYPE_ERROR)

(* Seeded fault: the limit comes one character late. *)
Copied_OneMore(t, buffer_len) ==
  LET from[i \in 2 .. Len(t) + 2] ==
        IF i >= Len(t) \/ i - 1 > buffer_len THEN <<>>
        ELSE <<t[i]>> \o from[IF t[i] = t[1] THEN i + 2 ELSE i + 1]
  IN  from[2]

(* The loop of SCPI_ParamCopyText over the token t: the quote that doubles
   another is skipped, and it is the position in the token that is limited. *)
Copied(t, buffer_len) ==
  LET from[i \in 2 .. Len(t) + 2] ==
        IF i >= Len(t) \/ i - 1 >= buffer_len THEN <<>>
        ELSE <<t[i]>> \o from[IF t[i] = t[1] THEN i + 2 ELSE i + 1]
  IN  from[2]

SCPI_ParamCopyText(d, r, buffer_len) ==
  CASE ~ r.ok -> Failed(r, r.error)
    [] r.ok /\ IsQuoted(r.param) -> Read(r, Copied(Text(d, r.param), buffer_len))
    [] OTHER -> Failed(r, DATA_TYPE_ERROR)

(* SCPI_ResultText, without the delimiter: in double quotes, those inside
   doubled *)
SCPI_ResultText(t) ==
  <<"\"">> \o FlattenSeq([k \in DOMAIN t |-> IF t[k] = "\"" THEN <<"\"", "\"">> ELSE <<t[k]>>]) \o <<"\"">>

-----------------------------------------------------------------------------
(* Choices.  An option has a short and a long form, as matchPattern finds
   them in its name. *)

NameOf(t) == FoldLeft(LAMBDA w, c : w \o c, "", t)

Option(short, long, tag) == [short |-> short, long |-> long, tag |-> tag]

(* The first of the places found, or 0 *)
First(found) == IF found = {} THEN 0 ELSE Min(found)

SCPI_ParamToChoice(d, p, options) ==
  LET k == First({i \in DOMAIN options : NameOf(Text(d, p)) \in {options[i].short, options[i].long}})
  IN  CASE p.type # "MNEMONIC" -> [ok |-> FALSE, val |-> 0, error |-> DATA_TYPE_ERROR]
        [] p.type = "MNEMONIC" /\ k = 0 -> [ok |-> FALSE, val |-> 0, error |-> ILLEGAL_PARAMETER_VALUE]
        [] OTHER -> [ok |-> TRUE, val |-> options[k].tag, error |-> 0]

SCPI_ParamChoice(d, r, options) ==
  LET choose(c) == IF c.ok THEN Read(r, c.val) ELSE Failed(r, c.error)
  IN  IF r.ok THEN choose(SCPI_ParamToChoice(d, r.param, options)) ELSE Failed(r, r.error)

scpi_bool_def == << Option("OFF", "OFF", 0), Option("ON", "ON", 1) >>

SCPI_ParamBool(d, r) ==
  IF r.ok /\ r.param.type = "DECIMAL"
  THEN Read(r, ParamSignToUInt(d, r.param, Width, TRUE).val # 0)
  ELSE LET c == SCPI_ParamChoice(d, r, scpi_bool_def) IN [c EXCEPT !.val = @ # 0]
=============================================================================
