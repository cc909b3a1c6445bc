----------------------------- MODULE OicNumeric ------------------------------
(***************************************************************************)
(* scpi_parse_numeric of the OIC parser (scpiparser.cpp): a number with an *)
(* exponent, an SI prefix and a unit, read character by character.  One    *)
(* operator per state of its loop; a state that does not want a character  *)
(* hands it to the next one.  The value is mant * 10^exp: a float is exact *)
(* for the few digits that a channel or a setting has.                     *)
(***************************************************************************)
EXTENDS Integers, Sequences, FiniteSetsExt, SequencesExt

Numeral == [c \in {"0", "1", "2", "3", "4", "5", "6", "7", "8", "9"} |->
              CHOOSE n \in 0 .. 9 : c = <<"0", "1", "2", "3", "4", "5", "6", "7", "8", "9">>[n + 1]]
Digit == DOMAIN Numeral
Lower == {"a", "b", "c", "d", "e", "f", "g", "h", "i", "j", "k", "l", "m",
          "n", "o", "p", "q", "r", "s", "t", "u", "v", "w", "x", "y", "z"}
Upper == {"A", "B", "C", "D", "E", "F", "G", "H", "I", "J", "K", "L", "M",
          "N", "O", "P", "Q", "R", "S", "T", "U", "V", "W", "X", "Y", "Z"}
Blank == {" "}

(* The SI prefixes; h is none of them, C is. *)
Prefix == [c \in {"y", "z", "a", "f", "p", "n", "u", "m", "c", "d",
                  "D", "C", "k", "M", "G", "T", "P", "E", "Z", "Y"} |->
  CASE c = "y" -> 0 - 24 [] c = "z" -> 0 - 21 [] c = "a" -> 0 - 18 [] c = "f" -> 0 - 15
    [] c = "p" -> 0 - 12 [] c = "n" -> 0 - 9  [] c = "u" -> 0 - 6  [] c = "m" -> 0 - 3
    [] c = "c" -> 0 - 2  [] c = "d" -> 0 - 1  [] c = "D" -> 1  [] c = "C" -> 2
    [] c = "k" -> 3  [] c = "M" -> 6  [] c = "G" -> 9  [] c = "T" -> 12
    [] c = "P" -> 15 [] c = "E" -> 18 [] c = "Z" -> 21 [] c = "Y" -> 24]

(* The variables of the loop; unit says whether a unit has begun. *)
Unread == [state |-> "leading", minus |-> FALSE, mant |-> 0, point |-> 0,
           exponent |-> 0, below |-> FALSE, unit |-> FALSE]

(* States 8 and 9: all that follows belongs to the unit, or to nothing. *)
unitProper(n, c) ==
  IF c \in Lower \cup Upper THEN [n EXCEPT !.unit = TRUE, !.state = "done"] ELSE [n EXCEPT !.state = "done"]

(* State 7 *)
prefix(n, c) ==
  CASE c \in DOMAIN Prefix -> [n EXCEPT !.exponent = @ + Prefix[c], !.state = "unit"]
    [] c \in Upper \ DOMAIN Prefix -> unitProper(n, c)
    [] OTHER -> [n EXCEPT !.state = "done"]

(* State 6 *)
blanks(n, c) == IF c \in Blank THEN [n EXCEPT !.state = "blanks"] ELSE prefix(n, c)

(* State 5 *)
exponentDigit(n, c) ==
  IF c \in Digit THEN [n EXCEPT !.exponent = 10 * @ + Numeral[c], !.state = "exponent"] ELSE blanks(n, c)

(* State 4: signs may follow each other. *)
exponentSign(n, c) ==
  CASE c \in {"+", "-"} -> [n EXCEPT !.below = @ \/ c = "-"]
    [] c \in Digit -> exponentDigit(n, c)
    [] OTHER -> [n EXCEPT !.state = "done"]

digit(n, c) == [n EXCEPT !.mant = 10 * @ + Numeral[c],
                         !.point = @ + IF n.state = "fraction" THEN 1 ELSE 0]

(* States 2 and 3 *)
mantissa(n, c) ==
  CASE c \in Digit -> digit(n, c)
    [] c = "." -> [n EXCEPT !.state = "fraction"]
    [] c = "e" -> [n EXCEPT !.state = "exponent sign"]
    [] OTHER -> blanks(n, c)

(* States 0 and 1: a number does not begin with its point. *)
leading(n, c) ==
  CASE c \in Blank -> n
    [] c \in {"+", "-"} -> [n EXCEPT !.minus = c = "-", !.state = "mantissa"]
    [] c \in Digit -> mantissa([n EXCEPT !.state = "mantissa"], c)
    [] OTHER -> [n EXCEPT !.state = "done"]

step(n, c) == CASE n.state = "leading" -> leading(n, c)
                [] n.state \in {"mantissa", "fraction"} -> mantissa(n, c)
                [] n.state = "exponent sign" -> exponentSign(n, c)
                [] n.state = "exponent" -> exponentDigit(n, c)
                [] n.state = "blanks" -> blanks(n, c)
                [] n.state = "unit" -> unitProper(n, c)
                [] n.state = "done" -> n

Value(minus, mant, exp) == [minus |-> minus, mant |-> mant, exp |-> exp]

(* The sign of the exponent is applied when the prefix is in it already. *)
valueOf(n) == Value(n.minus, n.mant, (IF n.below THEN 0 - n.exponent ELSE n.exponent) - n.point)

scpi_parse_numeric(str, default_value, min_value, max_value) ==
  LET solid == {i \in DOMAIN str : str[i] \notin Blank}
      from  == IF solid = {} THEN <<>> ELSE SubSeq(str, Min(solid), Len(str))
  IN  CASE IsPrefix(<<"D", "E", "F", "A", "U", "L", "T">>, from) -> Value(FALSE, default_value, 0)
        [] IsPrefix(<<"M", "A", "X">>, from) -> Value(FALSE, max_value, 0)
        [] IsPrefix(<<"M", "I", "N">>, from) -> Value(FALSE, min_value, 0)
        [] OTHER -> valueOf(FoldLeft(step, Unread, str))

(* The whole part of a value, as a conversion to unsigned char cuts it;
   outside of the 8 bits of that type the outcome is not defined. *)
Whole(v) == IF v.exp >= 0 THEN v.mant * 10 ^ v.exp ELSE v.mant \div 10 ^ (0 - v.exp)

unsigned_char(v) == IF Whole(v) > 255 \/ (v.minus /\ Whole(v) > 0) THEN 0 .. 255 ELSE {Whole(v)}
==============================================================================
