----------------------------- MODULE MCScpiUnit -----------------------------
(***************************************************************************)
(* The lexer, the unit parser and the readers of parameters on lines that  *)
(* go on from some beginning with a few characters: a behaviour types a    *)
(* line character by character.  The tokens and the values are compared    *)
(* with the grammar, given by what its words look like.                    *)
(***************************************************************************)
EXTENDS ScpiUnits, ScpiList

CONSTANT Families  \* beginnings, with what may be typed behind each

VARIABLE line

Family(begin, chars, typed) == [begin |-> begin, chars |-> chars, typed |-> typed]

Spell(w) == [k \in 1 .. Len(w) |-> SubSeq(w, k, k)]

MCFamilies ==
  { Family(<<>>, {"M", "E", "1", "0", ":", "*", "?", " ", ",", ";", "nl", "+", ".", "'", "#", "(", ")"}, 4),
    Family(<<"M", " ", "1">>, {"E", "1", ".", "+", " ", ",", ";", "nl", "M", "#"}, 4),
    Family(<<"M", ":", "M">>, {"M", "1", ":", "*", "?", " ", ";", "nl", "$"}, 4),
    Family(<<"M", " ", "#", "1", "2">>, {"1", "M", ",", ";", "nl", " ", "#", "'"}, 4),
    Family(<<"M", " ", "(">>, {"1", "2", ",", ":", "."}, 5),
    Family(<<"M", " ", "(">>, {"1", ";", "nl", ")", " "}, 4),
    Family(<<"M", " ", "(", "@", "1">>, {"2", ",", ":", "!"}, 6),
    Family(<<"M", " ">>, {"0", "1", "7", "9", "-", ".", "E"}, 5),
    Family(<<"M", " ", "#">>, {"0", "1", "A", "F", "H", "Q", "B"}, 4),
    Family(<<"M", " ", "#", "B">>, {"0", "1"}, 9),
    Family(<<"M", " ", "'">>, {"'", "\"", "M", ",", NonAscii}, 6),
    Family(<<"M", " ", "\"">>, {"'", "\"", "M"}, 6),
    Family(<<"M", " ", "O">>, {"N", "F", "1"}, 3) }
  \cup {Family(<<"M", " ", "1">> \o Spell(scpi_units_def[k][1]), {}, 0) : k \in DOMAIN scpi_units_def}
  \cup {Family(<<"M", " ">> \o Spell(scpi_special_numbers_def[k].long), {}, 0) :
           k \in DOMAIN scpi_special_numbers_def}

Init == line \in {f.begin : f \in Families}

Type(f, c) ==
  /\ IsPrefix(f.begin, line)
  /\ Len(line) < Len(f.begin) + f.typed
  /\ \A k \in Len(f.begin) + 1 .. Len(line) : line[k] \in f.chars
  /\ line' = Append(line, c)

Next == \E f \in Families : \E c \in f.chars : Type(f, c)

Spec == Init /\ [][Next]_line

-----------------------------------------------------------------------------
(* Words of the grammar *)

All(t, C) == \A k \in DOMAIN t : t[k] \in C

Optional(t, C) == Len(t) <= 1 /\ All(t, C)

(* The ways to cut t in two *)
Cuts(t) == {<<SubSeq(t, 1, k), SubSeq(t, k + 1, Len(t))>> : k \in 0 .. Len(t)}

IsMnemonic(t) == t # <<>> /\ t[1] \in Alpha /\ All(t, NameChar)

(* Mnemonics with single colons between them *)
IsPath(t) == /\ t # <<>> /\ t[1] \in Alpha /\ t[Len(t)] # ":"
             /\ All(t, NameChar \cup {":"})
             /\ \A k \in 1 .. Len(t) - 1 : t[k] = ":" => t[k + 1] \in Alpha

IsHeader(t) ==
  \E c \in Cuts(t) : /\ Optional(c[2], {"?"})
                     /\ \E d \in Cuts(c[1]) : \/ d[1] = <<"*">> /\ IsMnemonic(d[2])
                                              \/ Optional(d[1], {":"}) /\ IsPath(d[2])

IsDigits(t) == t # <<>> /\ All(t, Digit)

IsSigned(t, Word(_)) == \E c \in Cuts(t) : Optional(c[1], {"+", "-"}) /\ Word(c[2])

IsMantissa(t) == /\ All(t, Digit \cup {"."})
                 /\ \E k \in DOMAIN t : t[k] \in Digit
                 /\ Cardinality({k \in DOMAIN t : t[k] = "."}) <= 1

IsExponent(t) == \E c \in Cuts(t) : /\ c[2] # <<>> /\ c[2][1] = "E" /\ All(c[1], Blank)
                                    /\ \E d \in Cuts(Tail(c[2])) : All(d[1], Blank) /\ IsSigned(d[2], IsDigits)

IsDecimal(t) == \E c \in Cuts(t) : IsSigned(c[1], IsMantissa) /\ (c[2] = <<>> \/ IsExponent(c[2]))

(* Quotes inside a string come in pairs: every run of them is even. *)
IsString(t) ==
  /\ Len(t) >= 2 /\ t[1] \in Quote /\ t[Len(t)] = t[1] /\ NonAscii \notin Range(t)
  /\ \A j, k \in 2 .. Len(t) - 1 :
       /\ j <= k /\ All(SubSeq(t, j, k), {t[1]})
       /\ (j = 2 \/ t[j - 1] # t[1]) /\ (k = Len(t) - 1 \/ t[k + 1] # t[1])
       => (k - j) % 2 = 1

IsExpression(t) == /\ Len(t) >= 2 /\ t[1] = "(" /\ t[Len(t)] = ")"
                   /\ All(SubSeq(t, 2, Len(t) - 1), Char \ NoExpression)

(* The longest beginning of the line that is a word, 0 if there is none *)
Longest(Word(_)) == Max({0} \cup {k \in 1 .. Len(line) : Word(SubSeq(line, 1, k))})

-----------------------------------------------------------------------------
(* Properties *)

(* The header of a unit is the longest one that the grammar allows, and is
   called incomplete only if what is there cannot be a header; numbers,
   strings and expressions are as long as they can be, too, and a string is
   not over where its quote is doubled (lexer.c). *)
TokensAreLongest ==
  LET h == ProgramHeader(line, 1)
  IN  /\ IF h.type \in {"COMMON", "COMMON_QUERY", "COMPOUND", "COMPOUND_QUERY"}
         THEN h.len = Longest(IsHeader)
         ELSE ~ IsHeader(SubSeq(line, 1, h.len)) /\ (h.type = "UNKNOWN" => Longest(IsHeader) = 0)
      /\ DecimalNumericProgramData(line, 1).len = Longest(IsDecimal)
      /\ StringProgramData(line, 1).len = Longest(LAMBDA t : IsString(t) /\ ~ At(line, Len(t) + 1, {t[1]}))
      /\ ProgramExpression(line, 1).len = Longest(IsExpression)

(* Every unit takes something of the line, so that the loops over units come
   to an end, and what it takes ends with its terminator: no unit swallows a
   newline or a semicolon, but in strings and blocks (parser.c:1430). *)
NoTerminatorSwallowed ==
  LET proper(u) ==
        /\ u.next \in 2 .. Len(line) + 1
        /\ u.header.len >= 0 /\ u.header.first + u.header.len <= u.next
        /\ u.data.len >= 0 /\ u.data.first + u.data.len <= u.next
        /\ All(line, Char \ (Quote \cup {"#"})) =>
             \A k \in 1 .. u.next - 1 :
               line[k] \in {"nl", "cr", ";"} => k >= u.stop /\ u.termination # "NONE"
  IN  line # <<>> => proper(detectProgramMessageUnit(line, 1))

(* The parameters of a unit: the line up to their end, and where they start *)
WithData(u, Holds(_, _)) ==
  u.data.type = "ALL" => Holds(SubSeq(line, 1, u.data.first + u.data.len - 1), u)

OfLine(Holds(_, _)) == line # <<>> => WithData(detectProgramMessageUnit(line, 1), Holds)

(* The parameters that the parser counted in a unit are those that a callback
   can read back one by one, and no more, if no blank is before a comma
   (SCPI_Parameter, parser.c:680, against numberOfParameters). *)
ParametersReadBack ==
  (\A k \in 2 .. Len(line) : line[k] = "," => line[k - 1] \notin Blank) =>
    OfLine(LAMBDA d, u :
      LET r[k \in 0 .. u.count] ==
            IF k = 0 THEN ReadParameter(NoData(u.data.first)) ELSE Parameter(d, r[k - 1].pos, k - 1, TRUE)
      IN  /\ \A k \in 1 .. u.count : r[k].ok
          /\ Parameter(d, r[u.count].pos, u.count, TRUE).error = MISSING_PARAMETER)

OfFirst(Holds(_, _)) == OfLine(LAMBDA d, u : Holds(d, Parameter(d, u.data.first, 0, TRUE)))

(* The text t as a parameter *)
Again(t) == Parameter(t, 1, 0, TRUE)

(* r is the reading of the text t of the integer n. *)
IsReadingOf(r, t, n) == r.ok /\ r.val = n /\ r.pos = Len(t) + 1

ReadsAs(t, n, w, sign) == IsReadingOf(ParamSignUInt(t, Again(t), w, sign), t, n)

IntegerReadsBack(n, w) ==
  n.ok => \A base \in {2, 8, 10, 16}, signed \in BOOLEAN :
            base = 10 \/ ~ signed => ReadsAs(resultUIntBaseSign(n.val, w, base, signed), n.val, w, signed)

NumberOf(t) == SCPI_ParamNumber(t, Again(t)).val

(* 1 and the unit that is written behind q, or the name of q *)
Written(q) == IF q.special = "" THEN <<"1">> \o Spell(UnitName(q))
              ELSE Spell(SCPI_ChoiceToName(scpi_special_numbers_def, q.special))

QuantityReadsBack(q) ==
  q.ok /\ q.val.unit # "UNITLESS" =>
    NumberOf(Written(q.val)) =
      IF q.val.special = "" THEN Quantity([mant |-> 1, exp |-> 0], q.val.unit, "1") ELSE q.val

(* A number that a callback read and writes as its answer reads back as the
   same bits: signed, or in any base, in either width.  The unit that is
   written behind a quantity is its unit with the factor 1, and the name of a
   special number is its name (parser.c:391, units.c:318, 476). *)
NumbersReadBack ==
  OfFirst(LAMBDA d, r :
    /\ \A w \in {Width, LongWidth}, sign \in BOOLEAN : IntegerReadsBack(ParamSignUInt(d, r, w, sign), w)
    /\ QuantityReadsBack(SCPI_ParamNumber(d, r)))

(* The whole part of a fraction *)
Whole(real) == LET m == IF real.mant < 0 THEN 0 - real.mant ELSE real.mant
               IN  (IF real.mant < 0 THEN 0 - 1 ELSE 1) * (m \div 10 ^ (0 - real.exp))

InRange(n, w) == n \in 0 - 2 ^ (w - 1) .. 2 ^ (w - 1) - 1

(* The readers agree on a decimal number: integers on its whole part, if it
   has no exponent and fits, and a Boolean is what is not 0. *)
DecimalsAgree(d, r, real) ==
  r.param.type = "DECIMAL" /\ "E" \notin Range(Text(d, r.param)) /\ Text(d, r.param)[1] # "." =>
    /\ \A w \in {Width, LongWidth} :
         InRange(Whole(real.val), w) => Signed(ParamSignUInt(d, r, w, TRUE).val, w) = Whole(real.val)
    /\ InRange(Whole(real.val), Width) => (SCPI_ParamBool(d, r).val <=> Whole(real.val) # 0)

(* No parameter is a number, a text and a block at once, and a suffix is read
   with units only. *)
KindsDiffer(r, real, text, block, number) ==
  /\ Cardinality({k \in 1 .. 3 : <<real.ok, text.ok, block.ok>>[k]}) <= 1
  /\ real.ok => number.ok /\ number.val.value = real.val
  /\ real.error = SUFFIX_NOT_ALLOWED <=> number.error = INVALID_SUFFIX \/ (number.ok /\ number.val.unit # "NONE")

OneErrorOrValue(r, read) ==
  \A k \in DOMAIN read : (read[k].ok <=> read[k].error = 0) /\ read[k].pos = r.pos

(* A typed reader gives a value or one error, never both or none, and takes
   the parameter in either case (parser.c:886-1350), but for two: an integer
   from a decimal number that begins with its point, and a number from a
   text, a block or an expression give neither. *)
TypedParameters ==
  LET agree(d, r, real, text, block, number) ==
        /\ OneErrorOrValue(r, <<real, text, block, SCPI_ParamDouble(d, r, Width), SCPI_ParamBool(d, r),
                                SCPI_ParamCharacters(d, r), SCPI_ParamChoice(d, r, scpi_special_numbers_def)>>)
        /\ KindsDiffer(r, real, text, block, number)
        /\ DecimalsAgree(d, r, real)
  IN  OfFirst(LAMBDA d, r : agree(d, r, SCPI_ParamDouble(d, r, LongWidth), SCPI_ParamCopyText(d, r, Len(line)),
                                  SCPI_ParamArbitraryBlock(d, r), SCPI_ParamNumber(d, r)))

(* What is copied of a string fits into the buffer with its final 0, is the
   beginning of the text, and the whole of it if the buffer has room for the
   string as it stands; the text that is written as an answer reads back as
   the same text, whichever quotes it has (parser.c:478, 1172). *)
TextsReadBack ==
  LET copies(token, whole) == \A n \in 1 .. Len(token) : /\ Len(Copied(token, n)) < n
                                                        /\ IsPrefix(Copied(token, n), whole)
      answered(whole, t, r) == r.pos = Len(t) + 1 /\ SCPI_ParamCopyText(t, r, Len(t)).val = whole
      answer(whole, t) == answered(whole, t, Again(t))
      whole(d, r, copy) == copies(Text(d, r.param), copy.val) /\ answer(copy.val, SCPI_ResultText(copy.val))
  IN  OfFirst(LAMBDA d, r : IsQuoted(r.param) => whole(d, r, SCPI_ParamCopyText(d, r, r.param.len)))

(* The pieces of t between the characters c *)
Pieces(t, c) ==
  LET cut == <<0>> \o SelectSeq([k \in DOMAIN t |-> k], LAMBDA k : t[k] = c) \o <<Len(t) + 1>>
  IN  [k \in 1 .. Len(cut) - 1 |-> SubSeq(t, cut[k] + 1, cut[k + 1] - 1)]

IntValue(t) == strBaseToInt(t, 1, Width, 10).val

(* The list t by its pieces: entries, ends of an entry, numbers of an end *)
Split(list, c) == [k \in DOMAIN list |-> Pieces(list[k], c)]
Ends(entries) == [k \in DOMAIN entries |-> Split(entries[k], "!")]
ListOf(t) == Ends(Split(Pieces(t, ","), ":"))

IsList(list, dimensions) ==
  \A k \in DOMAIN list :
    /\ Len(list[k]) <= 2
    /\ \A e \in DOMAIN list[k] : /\ Len(list[k][e]) = Len(list[k][1]) /\ Len(list[k][e]) <= dimensions
                                 /\ \A n \in DOMAIN list[k][e] : IsDecimal(list[k][e][n])

IsEntry(e, sides) ==
  LET value(side) == [n \in DOMAIN side |-> IntValue(side[n])]
  IN  /\ e.res = "OK"
      /\ e.from = value(sides[1])
      /\ e.isRange <=> Len(sides) = 2
      /\ e.isRange => e.to = value(sides[2])

(* Reading entry 0, 1, ... finds the entries of the list and then its end;
   of what is no list, a channel list is found to be wrong at some entry. *)
ChannelsRead(list, read) ==
  IF IsList(list, Len(line))
  THEN /\ \A k \in DOMAIN list : IsEntry(read[k - 1].entry, list[k])
       /\ read[Len(list)] = [entry |-> NoEntry("NO_MORE", Len(line) + 1), error |-> 0]
  ELSE \E k \in 0 .. Len(list) : read[k].error = EXPRESSION_PARSING_ERROR

NumbersRead(list, read) ==
  IF IsList(list, 1)
  THEN /\ \A k \in DOMAIN list : IsEntry(read[k - 1].entry, list[k])
       /\ read[Len(list)].entry.res = "NO_MORE" /\ read[Len(list)].error = 0
  ELSE \E k \in 0 .. Len(list) : read[k].entry.res # "OK"

ChannelList(list, d, p) ==
  ChannelsRead(list, [k \in 0 .. Len(list) |-> SCPI_ExprChannelListEntry(d, p, k)])

NumericList(list, d, p) ==
  NumbersRead(list, [k \in 0 .. Len(list) |-> SCPI_ExprNumericListEntry(d, p, k)])

Expression(first, n) == Found("EXPRESSION", first, first + n)

(* An expression with its bracket closed is read entry by entry as the list
   that it is, of channels or of numbers (expression.c:85, 268). *)
ListsRead ==
  LET list(from) == ListOf(SubSeq(line, from, Len(line)))
  IN  All(SubSeq(line, 4, Len(line)), Char \ NoExpression) =>
      /\ IsPrefix(<<"M", " ", "(", "@">>, line) =>
           ChannelList(list(5), Append(line, ")"), Expression(3, Len(line) - 1))
      /\ IsPrefix(<<"M", " ", "(">>, line) /\ ~ At(line, 4, {"@"}) =>
           NumericList(list(4), Append(line, ")"), Expression(3, Len(line) - 1))
=============================================================================
