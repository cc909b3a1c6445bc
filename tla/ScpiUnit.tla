------------------------------ MODULE ScpiUnit ------------------------------
(***************************************************************************)
(* How parser.c of scpi-parser cuts a line into program message units, and *)
(* a unit into header and parameters.  Positions are as in ScpiLexer; the  *)
(* line s is what the code gives as buffer and length, so a position after *)
(* its end is never read.                                                  *)
(***************************************************************************)
EXTENDS ScpiLexer

(* A number may have blanks and a suffix after it. *)
Number(s, dec, suffix) ==
  IF suffix.ret > 0
  THEN Found("DECIMAL_WITH_SUFFIX", dec.first, suffix.next)
  ELSE Token("DECIMAL", dec.first, dec.len, dec.len, skipWs(s, dec.next))

NumberOrNone(s, dec) ==
  IF dec.ret > 0 THEN Number(s, dec, SuffixProgramData(s, skipWs(s, dec.next))) ELSE dec

BlockOrExpression(s, block) ==
  IF block.ret > 0 THEN block ELSE ProgramExpression(s, block.next)

(* The first lexer function that returns something else than 0 wins. *)
ProgramData(s, b) ==
  IF NondecimalNumericData(s, b).ret > 0 THEN NondecimalNumericData(s, b)
  ELSE IF CharacterProgramData(s, b).ret > 0 THEN CharacterProgramData(s, b)
  ELSE IF DecimalNumericProgramData(s, b).ret > 0 THEN NumberOrNone(s, DecimalNumericProgramData(s, b))
  ELSE IF StringProgramData(s, b).ret > 0 THEN StringProgramData(s, b)
  ELSE BlockOrExpression(s, ArbitraryBlockProgramData(s, b))

Padded(s, t, before) ==
  LET after == skipWs(s, t.next)
  IN  Token(t.type, t.first, t.len, before + t.ret + (after - t.next), after)

(* scpiParser_parseProgramData: blanks, one parameter, blanks.  ret is what
   the function returns: it does not count blanks after a number that has no
   suffix. *)
parseProgramData(s, i) == Padded(s, ProgramData(s, skipWs(s, i)), skipWs(s, i) - i)

(* The loop of scpiParser_parseAllProgramData from each position on:
   parameters with commas between them; when one is missing there is no data
   at all. *)
MissingData(j) == [ok |-> FALSE, len |-> 0, next |-> j, count |-> 0 - 1]

(* A parameter p and a comma c before the data r *)
Onto(p, c, r) == IF r.ok THEN [r EXCEPT !.len = @ + p.ret + c.ret, !.count = @ + 1] ELSE r

dataFrom(s) ==
  LET from[j \in 1 .. Len(s) + 1] ==
        LET go(p, c) ==
              CASE p.type = "UNKNOWN" -> MissingData(p.next)
                [] p.type # "UNKNOWN" /\ c.ret = 0 ->
                     [ok |-> TRUE, len |-> p.ret, next |-> p.next, count |-> 1]
                [] OTHER -> Onto(p, c, from[c.next])
            read(p) == go(p, Comma(s, p.next))
        IN  read(parseProgramData(s, j))
  IN  from

(* scpiParser_parseAllProgramData; ret is numberOfParameters. *)
parseAllProgramData(s, i) ==
  LET token(all) == Token(IF all.ok THEN "ALL" ELSE "UNKNOWN", i, all.len, all.count, all.next)
  IN  token(dataFrom(s)[i])

NoData(i) == Token("UNKNOWN", i, 0, 0, i)

(* The data of a unit with the header h: only behind blanks *)
UnitData(s, h) ==
  IF skipWs(s, h.next) > h.next THEN parseAllProgramData(s, skipWs(s, h.next)) ELSE NoData(h.next)

(* The terminator of a unit, if there is one *)
UnitEnd(s, i) == IF NewLine(s, i).ret > 0 THEN NewLine(s, i) ELSE Semicolon(s, i)

(* Seeded fault: a character that fits nowhere is not skipped. *)
UnitOf_KeepsChar(s, i, h, d, end) ==
  [header |-> h, data |-> d, termination |-> IF end.ret > 0 THEN end.type ELSE "NONE",
   count |-> d.ret, stop |-> d.next, next |-> end.next]

(* The unit with the given header, data and terminator.  A character that
   fits nowhere makes the unit invalid and ends it. *)
UnitOf(s, i, h, d, end) ==
  LET junk == end.ret = 0 /\ ~ iseos(s, d.next)
  IN  [header      |-> IF junk THEN [h EXCEPT !.type = "INVALID", !.len = 1] ELSE h,
       data        |-> IF junk THEN NoData(i) ELSE d,
       count       |-> d.ret,
       stop        |-> IF junk THEN d.next + 1 ELSE d.next,
       termination |-> IF end.ret > 0 THEN end.type ELSE "NONE",
       next        |-> IF junk THEN d.next + 1 ELSE end.next]

(* scpiParser_detectProgramMessageUnit: one unit of s from i on, with its
   terminator from stop to next. *)
detectProgramMessageUnit(s, i) ==
  LET withData(h, d) == UnitOf(s, i, h, d, UnitEnd(s, d.next))
      withHeader(h)  == withData(h, UnitData(s, h))
  IN  withHeader(ProgramHeader(s, skipWs(s, i)))

-----------------------------------------------------------------------------
(* Reading the parameters back *)

INVALID_SEPARATOR == 0 - 103
MISSING_PARAMETER == 0 - 109
INVALID_STRING_DATA == 0 - 151

(* What SCPI_Parameter leaves: its result, the token, the position and the
   error it pushed, 0 for none. *)
NotRead(pos, type, error) == [ok |-> FALSE, param |-> Token(type, 0, 0, 0, 0), pos |-> pos, error |-> error]

ReadParameter(p) ==
  IF p.type = "UNKNOWN" THEN NotRead(p.next, "UNKNOWN", INVALID_STRING_DATA)
  ELSE [ok |-> TRUE, param |-> p, pos |-> p.next, error |-> 0]

(* Seeded fault: the comma is left where it is. *)
Parameter_KeepsComma(d, pos, count, mandatory) ==
  IF iseos(d, pos) THEN NotRead(pos, "UNKNOWN", MISSING_PARAMETER)
  ELSE ReadParameter(parseProgramData(d, pos))

(* SCPI_Parameter on the parameters d, of which count have been read. *)
Parameter(d, pos, count, mandatory) ==
  LET c == Comma(d, pos)
  IN  CASE iseos(d, pos) /\ mandatory -> NotRead(pos, "UNKNOWN", MISSING_PARAMETER)
        [] iseos(d, pos) /\ ~ mandatory -> NotRead(pos, "MNEMONIC", 0)
        [] ~ iseos(d, pos) /\ count # 0 /\ c.ret = 0 -> NotRead(pos, "UNKNOWN", INVALID_SEPARATOR)
        [] OTHER -> ReadParameter(parseProgramData(d, IF count = 0 THEN pos ELSE c.next))

-----------------------------------------------------------------------------
(* Compound headers (utils.c).  s is the line, in which a header is a token
   [first, len]; prev is the header of the last unit that was executed, or
   [first |-> 0, len |-> 0]. *)

Text(s, t) == SubSeq(s, t.first, t.first + t.len - 1)

(* composeCompoundCommand: a relative header gets the path of the previous
   one, written into the line in front of it. *)
composeCompoundCommand(s, prev, current) ==
  LET colons == {k \in 1 .. prev.len : s[prev.first + k - 1] = ":"}
      n      == IF colons = {} THEN 0 ELSE Max(colons)
      first  == current.first - n
      alone  == \/ prev.len = 0
                \/ s[current.first] \in {"*", ":"}
                \/ s[prev.first] = "*"
  IN  IF alone \/ n = 0 THEN [line |-> s, header |-> current]
      ELSE [line   |-> [j \in 1 .. Len(s) |-> IF j \in first .. current.first - 1
                                              THEN s[prev.first + (j - first)] ELSE s[j]],
            header |-> [current EXCEPT !.first = first, !.len = @ + n]]
=============================================================================
