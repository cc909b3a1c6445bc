---------------------------- MODULE MCScpiMatch -----------------------------
(***************************************************************************)
(* Every pattern of up to three different keywords, each mandatory or in   *)
(* brackets of its own, with every header: a behaviour types a header      *)
(* token by token.  What a header must look like is said by MayOmit and    *)
(* IsForm, without the code's search.                                      *)
(***************************************************************************)
EXTENDS ScpiMatch, FiniteSets, SequencesExt

CONSTANTS MaxTokens

VARIABLES parts, \* the pattern: [key, optional] for each of its keywords
          query, \* the pattern ends with a question mark
          typed  \* the header

vars == <<parts, query, typed>>

MCKeyword == {"CH", "IO", "DC", "IDN"}
MCNumeric == {"CH", "IO"}
MCSpellings == [k \in MCKeyword |-> CASE k = "CH" -> {"channel", "ch"}
                                      [] k = "IO" -> {"io"}
                                      [] k = "DC" -> {"dc"}
                                      [] k = "IDN" -> {"*idn"}]
MCStem == [w \in {"ch", "channel2", "io", "io3", "dc", "dc4", "*idn"} |->
             CASE w = "ch" -> "ch" [] w = "channel2" -> "channel" [] w \in {"io", "io3"} -> "io"
               [] w \in {"dc", "dc4"} -> "dc" [] w = "*idn" -> "*idn"]
MCWord == DOMAIN MCStem
MCNone == 0 - 1
MCDigits == [w \in MCWord |-> CASE w = "channel2" -> 2 [] w = "io3" -> 3 [] w = "dc4" -> 4
                                [] OTHER -> MCNone]
MCDefault == 1
Unwritten == 0 - 9

Part == [key : MCKeyword \ {"IDN"}, optional : BOOLEAN]

Patterns == {<<[key |-> "IDN", optional |-> FALSE]>>} \cup
            {s \in BoundedSeq(Part, 3) :
               s # <<>> /\ \A a, b \in DOMAIN s : a # b => s[a].key # s[b].key}

(* How a pattern is written. *)
Written ==
  LET text(k) == CASE parts[k].optional -> <<"[", ":", parts[k].key, "]">>
                   [] ~ parts[k].optional /\ k = 1 -> <<parts[k].key>>
                   [] OTHER -> <<":", parts[k].key>>
  IN  FlattenSeq([k \in DOMAIN parts |-> text(k)]) \o (IF query THEN <<"?">> ELSE <<>>)

Init == parts \in Patterns /\ query \in BOOLEAN /\ typed = <<>>

Type(t) == /\ Len(typed) < MaxTokens
           /\ typed # <<>> => /\ Last(typed) # "?"
                              /\ ~ (t \in Word /\ Last(typed) \in Word)
           /\ typed' = Append(typed, t)
           /\ UNCHANGED <<parts, query>>

Next == \E t \in Word \cup {":", "?"} : Type(t)

Spec == Init /\ [][Next]_vars

-----------------------------------------------------------------------------
Words == SelectSeq(typed, LAMBDA t : t \in Word)

(* The sets of keywords a header may consist of *)
MayKeep == {S \in SUBSET DOMAIN parts : S # {} /\ \A k \in DOMAIN parts : parts[k].optional \/ k \in S}

Spells(k, w) == /\ Stem[w] \in Spellings[parts[k].key]
                /\ Digits[w] = None \/ parts[k].key \in Numeric

(* The header consists of the keywords S, in order, with single colons. *)
IsForm(S) ==
  LET order == SetToSortSeq(S, <)
      joined == [n \in 1 .. 2 * Len(Words) - 1 |-> IF n % 2 = 1 THEN Words[(n + 1) \div 2] ELSE ":"]
      body == joined \o (IF query THEN <<"?">> ELSE <<>>)
  IN  /\ Len(Words) = Len(order)
      /\ \A n \in DOMAIN order : Spells(order[n], Words[n])
      /\ \/ typed = body
         \/ typed = <<":">> \o body /\ Words[1] \notin Common

(* The header matches exactly when it is what remains of the pattern after
   some optional keywords are left out, and asks if the pattern does. *)
MatchesForms == typed # <<>> =>
  (SCPI_Match(Written, typed) <=> \E S \in MayKeep : IsForm(S))

(* The n-th number a callback gets belongs to the n-th numeric keyword of
   its pattern: the digits in the header, or the default value when the
   header has none or leaves the keyword out.  Behind the last keyword of
   the header nothing is written. *)
NumbersRead == typed # <<>> => \A S \in MayKeep : IsForm(S) =>
  LET last    == CHOOSE k \in S : \A l \in S : l <= k
      order   == SetToSortSeq(S, <)
      word(k) == Words[CHOOSE n \in DOMAIN order : order[n] = k]
      numeric == SetToSortSeq({k \in DOMAIN parts : parts[k].key \in Numeric}, <)
      value(k) == CASE k \in S /\ Digits[word(k)] # None -> Digits[word(k)]
                    [] k > last -> Unwritten
                    [] OTHER -> Default
      got     == SCPI_CommandNumbers(Written, typed, <<Unwritten, Unwritten>>)
  IN  \A n \in DOMAIN numeric : got[n] = value(numeric[n])
=============================================================================
