------------------------------ MODULE ScpiList -------------------------------
(***************************************************************************)
(* The entries of numeric lists (1,3:5) and channel lists (@1!2,3!1:3!4),  *)
(* as expression.c of scpi-parser reads them: entry index of an expression *)
(* is found by reading from its start.  x is the line up to the bracket    *)
(* that closes the expression, which is outside of what is read.           *)
(*                                                                         *)
(* An entry is read as                                                     *)
(*   res      : OK, NO_MORE or ERROR                                       *)
(*   isRange, from, to : its values, for a numeric list of one number each *)
(*   next     : the position behind it                                     *)
(***************************************************************************)
EXTENDS ScpiNumber

EXPRESSION_PARSING_ERROR == 0 - 170

NoEntry(res, i) == [res |-> res, isRange |-> FALSE, from |-> <<>>, to |-> <<>>, next |-> i]
Single(from, i) == [res |-> "OK", isRange |-> FALSE, from |-> from, to |-> <<>>, next |-> i]
Range2(from, to, i) == [res |-> "OK", isRange |-> TRUE, from |-> from, to |-> to, next |-> i]

(* SCPI_ParamToInt32 of a number in the list *)
IntOf(x, p) == ParamSignToUInt(x, p, Width, TRUE).val

-----------------------------------------------------------------------------
(* Numeric lists *)

numericTo(x, from, to) ==
  IF to.ret = 0 THEN NoEntry("ERROR", to.next)
  ELSE Range2(<<IntOf(x, from)>>, <<IntOf(x, to)>>, to.next)

numericFrom(x, from, colon) ==
  CASE from.ret = 0 -> NoEntry("NO_MORE", from.next)
    [] from.ret > 0 /\ colon.ret = 0 -> Single(<<IntOf(x, from)>>, from.next)
    [] OTHER -> numericTo(x, from, DecimalNumericProgramData(x, colon.next))

numericRange(x, i) ==
  LET range(from) == numericFrom(x, from, Colon(x, from.next))
  IN  range(DecimalNumericProgramData(x, i))

-----------------------------------------------------------------------------
(* Channel lists *)

(* channelSpec: numbers with "!" between them.  All of them are counted; the
   code stores as many values as its caller has room for. *)
channelSpec(x, i) ==
  LET spec[j \in i .. Len(x) + 1] ==
        LET behind(number, mark) ==
              CASE number.ret = 0 -> [res |-> "NO_MORE", values |-> <<>>, next |-> j]
                [] number.ret > 0 /\ mark.ret = 0 ->
                     [res |-> "OK", values |-> <<IntOf(x, number)>>, next |-> number.next]
                [] OTHER -> [spec[mark.next] EXCEPT !.values = <<IntOf(x, number)>> \o @]
            one(number) == behind(number, SpecificCharacter(x, number.next, "!"))
        IN  one(DecimalNumericProgramData(x, j))
      result(s) == IF s.res = "NO_MORE" /\ s.values # <<>> THEN [s EXCEPT !.res = "ERROR"] ELSE s
  IN  result(spec[i])

(* Seeded fault: the ends of a range may have different dimensions. *)
SameDimensions_Any(from, to) == TRUE

SameDimensions(from, to) == Len(from) = Len(to)

channelTo(from, to) ==
  IF to.res = "OK" /\ SameDimensions(from.values, to.values)
  THEN Range2(from.values, to.values, to.next)
  ELSE NoEntry("ERROR", to.next)

channelFrom(x, from, colon) ==
  CASE from.res # "OK" -> NoEntry("ERROR", from.next)
    [] from.res = "OK" /\ colon.ret = 0 -> Single(from.values, from.next)
    [] OTHER -> channelTo(from, channelSpec(x, colon.next))

channelRange(x, i) ==
  LET range(from) == channelFrom(x, from, Colon(x, from.next))
  IN  range(channelSpec(x, i))

-----------------------------------------------------------------------------
(* The loop of both functions: entries 0 to index, a comma between them;
   range[i] is what is read at position i. *)
ListEntry(range, x, start, index) ==
  LET after(e, c) ==
        CASE e.res # "OK" -> e
          [] e.res = "OK" /\ c.ret > 0 -> range[c.next]
          [] OTHER -> NoEntry(IF iseos(x, e.next) THEN "NO_MORE" ELSE "ERROR", e.next)
      entry[k \in 0 .. index] ==
        IF k = 0 THEN range[start] ELSE after(entry[k - 1], Comma(x, entry[k - 1].next))
  IN  entry[index]

(* An entry and the error that was pushed, 0 for none *)
Pushed(e) == [entry |-> e, error |-> IF e.res = "ERROR" THEN EXPRESSION_PARSING_ERROR ELSE 0]

NotAList(error) == [entry |-> NoEntry("ERROR", 0), error |-> error]

Inside(d, p) == SubSeq(d, 1, p.first + p.len - 2)

(* SCPI_ExprNumericListEntry, SCPI_ExprNumericListEntryInt *)
SCPI_ExprNumericListEntry(d, p, index) ==
  IF p.type # "EXPRESSION" THEN NotAList(DATA_TYPE_ERROR)
  ELSE LET x == Inside(d, p)
       IN  Pushed(ListEntry([i \in 1 .. Len(x) + 1 |-> numericRange(x, i)], x, p.first + 1, index))

(* SCPI_ExprChannelListEntry.  Only a list that ends says NO_MORE, so the
   test for the end that follows in the code never fails. *)
SCPI_ExprChannelListEntry(d, p, index) ==
  LET x  == Inside(d, p)
      at == SpecificCharacter(x, p.first + 1, "@")
  IN  CASE p.type # "EXPRESSION" -> NotAList(DATA_TYPE_ERROR)
        [] p.type = "EXPRESSION" /\ at.ret = 0 -> NotAList(EXPRESSION_PARSING_ERROR)
        [] OTHER -> Pushed(ListEntry([i \in 1 .. Len(x) + 1 |-> channelRange(x, i)], x, at.next, index))
=============================================================================
