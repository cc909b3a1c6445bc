----------------------------- MODULE ScpiMatch ------------------------------
(***************************************************************************)
(* Command patterns of scpi-parser, e.g. [:MEASure]:VOLTage#[:DC]?, and    *)
(* the headers they match.  A pattern is a sequence of keywords and of the *)
(* separators ":" "[" "]" "?"; a header is a sequence of words and of the  *)
(* separators ":" "?".  A keyword has a long and a short spelling, and is  *)
(* Numeric when its pattern ends with #; a word is a spelling, regardless  *)
(* of case, with the digits it ends with.                                  *)
(***************************************************************************)
EXTENDS Integers, Sequences

CONSTANTS Keyword, Word, \* with no name in common with the separators
          Spellings,     \* of a keyword: the long and the short one
          Numeric,       \* the keywords with #
          Stem, Digits,  \* of a word: its spelling, and its number or None
          Common,        \* the words that begin with *
          None,          \* no digits
          Default        \* default_value of SCPI_CommandNumbers

ASSUME SpellingAssumption == /\ Numeric \subseteq Keyword
                             /\ Common \subseteq Word
                             /\ DOMAIN Spellings = Keyword
                             /\ DOMAIN Stem = Word /\ DOMAIN Digits = Word

(* What stands at position i of s; nothing behind its end. *)
At(s, i) == IF i \in DOMAIN s THEN s[i] ELSE "end"

(* patternSeparatorPos, cmdSeparatorPos: the position behind the keyword or
   the word at i, if there is one. *)
patternSeparatorPos(p, i) == IF At(p, i) \in Keyword THEN i + 1 ELSE i
cmdSeparatorPos(c, i) == IF At(c, i) \in Word THEN i + 1 ELSE i

(* A word is spelt like a keyword, without digits, or with any. *)
compareStr(k, w) == Stem[w] \in Spellings[k] /\ Digits[w] = None
compareStrAndNum(k, w) == Stem[w] \in Spellings[k]

(* matchPattern: a keyword and a word that agree; or neither is there. *)
matchPattern(k, w) ==
  \/ /\ k \in Keyword /\ w \in Word
     /\ IF k \in Numeric THEN compareStrAndNum(k, w) ELSE compareStr(k, w)
  \/ k \notin Keyword /\ w \notin Word

(* What compareStrAndNum leaves for keyword k in the array of numbers. *)
NumberOf(k, w) == IF matchPattern(k, w) /\ Digits[w] # None THEN Digits[w] ELSE Default

(* Separators of the pattern that go with the ":" of the header behind a
   word that matched, and what they do to the open brackets. *)
AfterMatch == { [seps |-> <<":">>, brackets |-> 0],
                [seps |-> <<"[", ":">>, brackets |-> 1],
                [seps |-> <<"]", ":">>, brackets |-> 0 - 1],
                [seps |-> <<"]", "[", ":">>, brackets |-> 0] }

(* Seeded fault: one optional keyword can be left out, not two. *)
AfterMismatch_Single == { [seps |-> <<"]", ":">>, brackets |-> 0 - 1] }

(* Separators behind an optional keyword that the header leaves out. *)
AfterMismatch == { [seps |-> <<"]", ":">>, brackets |-> 0 - 1],
                   [seps |-> <<"]", "[", ":">>, brackets |-> 0] }

(* The members of table whose separators stand in p at i. *)
Found(table, p, i) == {t \in table : \A n \in DOMAIN t.seps : At(p, i + n - 1) = t.seps[n]}

(* The header is complete: what the pattern still has from i on, with b open
   brackets, must be optional. *)
RestIsOptional(p, i, b) ==
  LET rest[j \in 1 .. Len(p) + 1, open \in -1 .. Len(p)] ==
        LET q    == patternSeparatorPos(p, j)
            now  == open + (CASE At(p, q) = "[" -> 1 [] At(p, q) = "]" -> 0 - 1 [] OTHER -> 0)
        IN  \/ j = Len(p) + 1
            \/ IF now = 0 /\ At(p, q + 1) # "[" THEN q = Len(p) ELSE rest[q + 1, now]
  IN  rest[i, b]

(* Seeded fault: a keyword that is left out takes no place among the numbers. *)
Counted_Present(k, w) == IF k \in Numeric /\ matchPattern(k, w) THEN <<NumberOf(k, w)>> ELSE <<>>

(* The number that keyword k adds: one left out has the default value. *)
Counted(k, w) == IF k \in Numeric THEN <<NumberOf(k, w)>> ELSE <<>>

(* The loop of matchCommand from position i of pattern p and j of header c,
   with b open brackets: does the header match, and which numbers are
   written.  Keywords behind the end of the header write none. *)
MatchFrom(p, c, i, j) ==
  LET loop[k \in 1 .. Len(p) + 1, l \in 1 .. Len(c) + 1, b \in -1 .. Len(p)] ==
        LET key == At(p, k)
            word == At(c, l)
            kEnd == patternSeparatorPos(p, k)
            lEnd == cmdSeparatorPos(c, l)
            stop(ok) == [ok |-> ok, numbers |-> Counted(key, word)]
            after(t, m) == LET r == loop[kEnd + Len(t.seps), m, b + t.brackets]
                           IN  [r EXCEPT !.numbers = Counted(key, word) \o @]
            matched == CHOOSE t \in Found(AfterMatch, p, kEnd) : TRUE
            skipped == CHOOSE t \in Found(AfterMismatch, p, kEnd) : TRUE
        IN  IF matchPattern(key, word)
            THEN CASE lEnd > Len(c) -> stop(RestIsOptional(p, kEnd, b))
                   [] lEnd <= Len(c) /\ At(c, lEnd) = ":" /\ Found(AfterMatch, p, kEnd) # {} ->
                        after(matched, lEnd + 1)
                   [] OTHER -> stop(FALSE)
            ELSE IF Found(AfterMismatch, p, kEnd) # {} THEN after(skipped, l) ELSE stop(FALSE)
  IN  loop[i, j, IF p[1] = "[" THEN 1 ELSE 0]

(* A query pattern matches queries only; a header with a question mark for a
   pattern without one fails in the loop. *)
QueriesAgree(p, c) == p[Len(p)] = "?" => c[Len(c)] = "?"

(* matchCommand: the pattern and the header, which is not empty. *)
matchCommand(pattern, cmd) ==
  LET query == pattern[Len(pattern)] = "?"
      p == IF query THEN SubSeq(pattern, 1, Len(pattern) - 1) ELSE pattern
      c == IF query THEN SubSeq(cmd, 1, Len(cmd) - 1) ELSE cmd
      bracket == IF p[1] = "[" THEN 2 ELSE 1
      colon == At(c, 1) = ":" /\ Len(c) >= 2
      No == [ok |-> FALSE, numbers |-> <<>>]
  IN  IF ~ QueriesAgree(pattern, cmd) \/ (colon /\ c[2] \in Common) THEN No
      ELSE MatchFrom(p, c, IF At(p, bracket) = ":" THEN bracket + 1 ELSE bracket,
                           IF colon THEN 2 ELSE 1)

(* SCPI_Match, and SCPI_CommandNumbers with an array that held old. *)
SCPI_Match(pattern, cmd) == matchCommand(pattern, cmd).ok
SCPI_CommandNumbers(pattern, cmd, old) ==
  LET new == matchCommand(pattern, cmd).numbers
  IN  [n \in DOMAIN old |-> IF n \in DOMAIN new THEN new[n] ELSE old[n]]
=============================================================================
