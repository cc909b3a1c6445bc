--------------------------- MODULE ScpiInput_proofs ---------------------------
(*****************************************************************************)
(* The parser from its lexer to SCPI_Input, for every command table, every   *)
(* buffer length and every text, in whatever pieces it arrives.  First what  *)
(* the lexer and scpiParser_detectProgramMessageUnit do with any text: every *)
(* token lies where it was looked for and within the text, and a unit takes  *)
(* at least a character (UnitAdvances).  The loops of the lexer are recursive*)
(* functions; what they return is shown with the induction of                *)
(* Recursion_proofs.  Then what a callback may read and write, the steps of  *)
(* the parser, and the inductive invariant InputInv: the positions are where *)
(* they should be (Buffered), and the errors of a unit, of its line and the  *)
(* result of the line agree (Reports); a measure that every step of a call   *)
(* decreases (InputEnds); and that a unit has one error at most              *)
(* (AtMostOneError).                                                         *)
(* The rest is about the pieces that the bytes come in (ChunksDoNotMatter).  *)
(* The parser looks for units in what has arrived so far, the property asks  *)
(* for those of the whole stream: two texts, of which the one may go on where*)
(* the other ends.  Alike says that two texts have the same characters up to *)
(* a place where both end what the lexer looks for, Lined that they have a   *)
(* line in common; every function of the lexer finds the same token in both  *)
(* (UnitLined).  So the lines that are complete stay what they are when more *)
(* bytes come (CompleteExtended), and the inductive invariant ChunkInv       *)
(* relates what was handled, what is being parsed and what the buffer keeps  *)
(* to the lines of the stream.                                               *)
(*****************************************************************************)
EXTENDS ScpiInput, Recursion_proofs, SequenceTheorems

-----------------------------------------------------------------------------
(* The lexer and the units *)

(* The positions of a message, with the one behind its end *)
Pos(s) == 1 .. Len(s) + 1

(* A token that was looked for at i: it lies between i and where the lexer
   stopped, and the lexer has moved on by as much as it counts at least. *)
Within(t, s, i) ==
  /\ t = Token(t.type, t.first, t.len, t.ret, t.next)
  /\ t.next \in i .. Len(s) + 1
  /\ t.first \in i .. t.next /\ t.len \in Nat /\ t.first + t.len <= t.next
  /\ t.ret \in 0 .. t.next - i

-----------------------------------------------------------------------------
(* A span of characters ends in the text or right behind it. *)
LEMMA SpanBounds ==
  ASSUME NEW s \in Seq(Char), NEW i \in Pos(s), NEW C
  PROVE  Span(s, i, C) \in 0 .. Len(s) + 1 - i
  <1> DEFINE stop == {j \in i .. Len(s) : s[j] \notin C}
  <1>1. Len(s) \in Nat /\ i \in 1 .. Len(s) + 1
    BY DEF Pos
  <1>2. stop \in SUBSET Nat
    BY <1>1
  <1>3. Span(s, i, C) = (IF stop = {} THEN Len(s) + 1 ELSE Min(stop)) - i
    BY DEF Span
  <1>4. CASE stop = {}
    BY <1>1, <1>3, <1>4
  <1>5. CASE stop # {}
    <2>1. Min(stop) \in stop
      <3> HIDE DEF stop
      <3> QED BY <1>2, <1>5, MinLeast
    <2>2. Min(stop) \in i .. Len(s)
      BY <2>1
    <2> HIDE DEF stop
    <2> QED BY <1>1, <1>3, <1>5, <2>2
  <1> QED BY <1>4, <1>5

(* An optional character is skipped or not. *)
LEMMA OptBounds ==
  ASSUME NEW s \in Seq(Char), NEW i \in Pos(s), NEW C
  PROVE  Opt(s, i, C) \in i .. Len(s) + 1 /\ Opt(s, i, C) \in Pos(s)
  BY DEF Opt, At, Pos

(* skipWs stays in the text. *)
LEMMA WsBounds ==
  ASSUME NEW s \in Seq(Char), NEW i \in Pos(s)
  PROVE  skipWs(s, i) \in i .. Len(s) + 1 /\ skipWs(s, i) \in Pos(s)
  BY SpanBounds DEF skipWs, Pos

(* skipProgramMnemonic stays in the text. *)
LEMMA MnemonicBounds ==
  ASSUME NEW s \in Seq(Char), NEW i \in Pos(s)
  PROVE  skipProgramMnemonic(s, i) \in i .. Len(s) + 1 /\ skipProgramMnemonic(s, i) \in Pos(s)
  <1>1. CASE At(s, i, Alpha)
    <2>1. i + 1 \in Pos(s) /\ i \in Nat /\ Len(s) \in Nat
      BY <1>1 DEF At, Pos
    <2>2. Span(s, i + 1, NameChar) \in 0 .. Len(s) + 1 - (i + 1)
      BY <2>1, SpanBounds
    <2> QED BY <1>1, <2>1, <2>2 DEF skipProgramMnemonic, Pos
  <1>2. CASE ~ At(s, i, Alpha)
    BY <1>2 DEF skipProgramMnemonic, Pos
  <1> QED BY <1>1, <1>2

(* The tokens that the lexer makes of the characters from i up to j *)
LEMMA FoundWithin ==
  ASSUME NEW s \in Seq(Char), NEW i \in Pos(s), NEW j \in i .. Len(s) + 1, NEW type
  PROVE  /\ Within(FoundOrNone(type, i, j), s, i)
         /\ Within(None(i), s, i)
         /\ j > i => Within(Found(type, i, j), s, i)
  BY DEF Within, FoundOrNone, Found, None, Token, Pos

(* and the token it makes of none. *)
LEMMA NoneWithin ==
  ASSUME NEW s \in Seq(Char), NEW i \in Pos(s)
  PROVE  Within(None(i), s, i)
  BY DEF Within, None, Token, Pos

-----------------------------------------------------------------------------
(* Headers *)
Stop(s, j) == [res : {"OK", "INCOMPLETE"}, next : j .. Len(s) + 1]

(* More mnemonics end at a position behind the first of them. *)
LEMMA MoreMnemonics ==
  ASSUME NEW s \in Seq(Char)
  PROVE  \A j \in Pos(s) : moreMnemonics(s)[j] \in Stop(s, j)
  <1> DEFINE n == Len(s) + 1
             S == Stop(s, 1)
             body(g, j) ==
               IF ~ At(s, j, {":"}) THEN [res |-> "OK", next |-> j]
               ELSE IF skipProgramMnemonic(s, j + 1) = j + 1 THEN [res |-> "INCOMPLETE", next |-> j + 1]
               ELSE g[skipProgramMnemonic(s, j + 1)]
             step == [p \in (1 .. n) \X [1 .. n -> S] |-> body(p[2], p[1])]
  <1>1. n \in Nat /\ S # {}
    <2>1. [res |-> "OK", next |-> 1] \in S
      BY DEF Stop
    <2> QED BY <2>1
  <1>2. ASSUME NEW j \in 1 .. n, At(s, j, {":"})
        PROVE  j + 1 \in 1 .. n /\ skipProgramMnemonic(s, j + 1) \in j + 1 .. n
    BY <1>2, MnemonicBounds DEF At, Pos
  <1>3. \A j \in 1 .. n, g \in [1 .. n -> S] : step[<<j, g>>] = body(g, j)
    OBVIOUS
  <1>4. \A j \in 1 .. n, g \in [1 .. n -> S] : body(g, j) \in S
    BY <1>2 DEF Stop
  <1>5. ASSUME NEW j \in 1 .. n, NEW g \in [1 .. n -> S], NEW h \in [1 .. n -> S],
               \A k \in j + 1 .. n : g[k] = h[k]
        PROVE  body(g, j) = body(h, j)
    BY <1>2, <1>5
  <1>6. PICK f \in [1 .. n -> S] : SolvesDown(f, step, n)
    <2>1. StepDown(step, n, S)
      <3> HIDE DEF step, S, n, body
      <3>1. \A j \in 1 .. n, g \in [1 .. n -> S] : step[<<j, g>>] \in S
        BY <1>3, <1>4
      <3>2. ASSUME NEW j \in 1 .. n, NEW g \in [1 .. n -> S], NEW h \in [1 .. n -> S],
                   \A k \in j + 1 .. n : g[k] = h[k]
            PROVE  step[<<j, g>>] = step[<<j, h>>]
        <4>1. body(g, j) = body(h, j)
          BY <1>5, <3>2
        <4> QED BY <1>3, <4>1
      <3> QED BY <3>1, <3>2 DEF StepDown
    <2> HIDE DEF step, S, n, body
    <2> QED BY <1>1, <2>1, RecursionDown
  <1>7. f = [j \in 1 .. n |-> body(f, j)]
    <2> HIDE DEF step, body
    <2> QED BY <1>3, <1>6 DEF SolvesDown
  <1>8. moreMnemonics(s) = [j \in 1 .. n |-> body(moreMnemonics(s), j)]
    BY <1>7 DEF moreMnemonics
  <1> DEFINE F == moreMnemonics(s)
  <1>9. ASSUME NEW j \in 1 .. n, \A k \in j + 1 .. n : F[k] \in Stop(s, k)
        PROVE  F[j] \in Stop(s, j)
    <2>1. F[j] = body(F, j)
      BY <1>8
    <2> HIDE DEF F
    <2>2. CASE ~ At(s, j, {":"})
      BY <2>1, <2>2 DEF Stop
    <2>3. CASE At(s, j, {":"})
      <3>1. F[skipProgramMnemonic(s, j + 1)] \in Stop(s, skipProgramMnemonic(s, j + 1))
        BY <1>2, <1>9, <2>3
      <3>2. skipProgramMnemonic(s, j + 1) \in j + 1 .. n
        BY <1>2, <2>3
      <3> QED BY <2>1, <2>3, <3>1, <3>2 DEF Stop
    <2> QED BY <2>2, <2>3
  <1>10. \A j \in 1 .. n : F[j] \in Stop(s, j)
    <2> DEFINE T == {j \in 1 .. n : F[j] \in Stop(s, j)}
    <2>1. \A j \in 1 .. n : (\A k \in j + 1 .. n : k \in T) => j \in T
      BY <1>9
    <2> HIDE DEF T, n
    <2>2. \A j \in 1 .. n : j \in T
      BY <1>1, <2>1, InductionDown
    <2> QED BY <2>2 DEF T
  <1> QED BY <1>10 DEF Pos

(* skipUnit and skipPower, the parts of a suffix, stay in the text. *)
LEMMA UnitBounds ==
  ASSUME NEW s \in Seq(Char), NEW i \in Pos(s)
  PROVE  /\ skipUnit(s, i) \in i .. Len(s) + 1 /\ skipUnit(s, i) \in Pos(s)
         /\ skipPower(s, i) \in i .. Len(s) + 1 /\ skipPower(s, i) \in Pos(s)
  <1>1. skipUnit(s, i) \in i .. Len(s) + 1 /\ skipUnit(s, i) \in Pos(s)
    BY SpanBounds DEF skipUnit, Pos
  <1>2. Opt(s, i, {"-"}) \in i .. Len(s) + 1 /\ Opt(s, i, {"-"}) \in Pos(s)
    BY OptBounds
  <1>3. skipPower(s, i) \in Opt(s, i, {"-"}) .. Len(s) + 1 /\ skipPower(s, i) \in Pos(s)
    BY <1>2, OptBounds DEF skipPower
  <1> QED BY <1>1, <1>2, <1>3 DEF Pos

(* More units end at a position behind the first of them. *)
LEMMA MoreUnits ==
  ASSUME NEW s \in Seq(Char)
  PROVE  \A j \in Pos(s) : moreUnits(s)[j] \in j .. Len(s) + 1
  <1> DEFINE n == Len(s) + 1
             S == 1 .. n
             body(g, j) ==
               IF At(s, j, {"/", "."}) THEN g[skipPower(s, skipUnit(s, j + 1))] ELSE j
             step == [p \in (1 .. n) \X [1 .. n -> S] |-> body(p[2], p[1])]
  <1>1. n \in Nat /\ S # {}
    <2>1. 1 \in S
      OBVIOUS
    <2> QED BY <2>1
  <1>2. ASSUME NEW j \in 1 .. n, At(s, j, {"/", "."})
        PROVE  skipPower(s, skipUnit(s, j + 1)) \in j + 1 .. n
    <2>1. j + 1 \in Pos(s)
      BY <1>2 DEF At, Pos
    <2>2. skipUnit(s, j + 1) \in j + 1 .. n /\ skipUnit(s, j + 1) \in Pos(s)
      BY <2>1, UnitBounds
    <2>3. skipPower(s, skipUnit(s, j + 1)) \in skipUnit(s, j + 1) .. n
      BY <2>2, UnitBounds
    <2> QED BY <2>2, <2>3
  <1>3. \A j \in 1 .. n, g \in [1 .. n -> S] : step[<<j, g>>] = body(g, j)
    OBVIOUS
  <1>4. \A j \in 1 .. n, g \in [1 .. n -> S] : body(g, j) \in S
    BY <1>2
  <1>5. ASSUME NEW j \in 1 .. n, NEW g \in [1 .. n -> S], NEW h \in [1 .. n -> S],
               \A k \in j + 1 .. n : g[k] = h[k]
        PROVE  body(g, j) = body(h, j)
    BY <1>2, <1>5
  <1>6. PICK f \in [1 .. n -> S] : SolvesDown(f, step, n)
    <2>1. StepDown(step, n, S)
      <3> HIDE DEF step, S, n, body
      <3>1. \A j \in 1 .. n, g \in [1 .. n -> S] : step[<<j, g>>] \in S
        BY <1>3, <1>4
      <3>2. ASSUME NEW j \in 1 .. n, NEW g \in [1 .. n -> S], NEW h \in [1 .. n -> S],
                   \A k \in j + 1 .. n : g[k] = h[k]
            PROVE  step[<<j, g>>] = step[<<j, h>>]
        <4>1. body(g, j) = body(h, j)
          BY <1>5, <3>2
        <4> QED BY <1>3, <4>1
      <3> QED BY <3>1, <3>2 DEF StepDown
    <2> HIDE DEF step, S, n, body
    <2> QED BY <1>1, <2>1, RecursionDown
  <1>7. f = [j \in 1 .. n |-> body(f, j)]
    <2> HIDE DEF step, body
    <2> QED BY <1>3, <1>6 DEF SolvesDown
  <1>8. moreUnits(s) = [j \in 1 .. n |-> body(moreUnits(s), j)]
    BY <1>7 DEF moreUnits
  <1> DEFINE F == moreUnits(s)
  <1>9. ASSUME NEW j \in 1 .. n, \A k \in j + 1 .. n : F[k] \in k .. Len(s) + 1
        PROVE  F[j] \in j .. Len(s) + 1
    <2>1. F[j] = body(F, j)
      BY <1>8
    <2> HIDE DEF F
    <2>2. CASE ~ At(s, j, {"/", "."})
      BY <2>1, <2>2
    <2>3. CASE At(s, j, {"/", "."})
      <3> DEFINE k == skipPower(s, skipUnit(s, j + 1))
      <3>1. k \in j + 1 .. n
        BY <1>2, <2>3
      <3>2. F[j] = F[k]
        BY <2>1, <2>3
      <3> HIDE DEF k
      <3>3. F[k] \in k .. Len(s) + 1
        BY <1>9, <3>1
      <3> QED BY <3>1, <3>2, <3>3
    <2> QED BY <2>2, <2>3
  <1>10. \A j \in 1 .. n : F[j] \in j .. Len(s) + 1
    <2> DEFINE T == {j \in 1 .. n : F[j] \in j .. Len(s) + 1}
    <2>1. \A j \in 1 .. n : (\A k \in j + 1 .. n : k \in T) => j \in T
      BY <1>9
    <2> HIDE DEF T, n
    <2>2. \A j \in 1 .. n : j \in T
      BY <1>1, <2>1, InductionDown
    <2> QED BY <2>2 DEF T
  <1> QED BY <1>10 DEF Pos

(* A closing quote is behind where it is looked for, and in the message. *)
LEMMA ClosingQuote ==
  ASSUME NEW s \in Seq(Char), NEW q \in Quote
  PROVE  \A j \in Pos(s) : closingQuote(s, q)[j] = 0 \/ closingQuote(s, q)[j] \in j .. Len(s)
  <1> DEFINE n == Len(s) + 1
             S == 0 .. n
             body(g, j) ==
               CASE iseos(s, j) -> 0
                 [] At(s, j, {q}) /\ At(s, j + 1, {q}) -> g[j + 2]
                 [] At(s, j, {q}) /\ ~ At(s, j + 1, {q}) -> j
                 [] At(s, j, {NonAscii}) -> 0
                 [] OTHER -> g[j + 1]
             step == [p \in (1 .. n) \X [1 .. n -> S] |-> body(p[2], p[1])]
  <1>1. n \in Nat /\ S # {}
    <2>1. 0 \in S
      OBVIOUS
    <2> QED BY <2>1
  <1>2. ASSUME NEW j \in 1 .. n
        PROVE  /\ ~ iseos(s, j) => j \in 1 .. Len(s) /\ j + 1 \in j + 1 .. n
               /\ At(s, j + 1, {q}) => j + 2 \in j + 1 .. n
               /\ At(s, j, {q}) => ~ iseos(s, j) /\ ~ At(s, j, {NonAscii})
               /\ At(s, j, {NonAscii}) => ~ iseos(s, j)
    <2>1. q # NonAscii
      BY DEF Quote, NonAscii
    <2>2. At(s, j, {q}) => ~ iseos(s, j) /\ ~ At(s, j, {NonAscii})
      BY <2>1 DEF At, iseos
    <2> QED BY <2>2 DEF At, iseos
  <1>3. \A j \in 1 .. n, g \in [1 .. n -> S] : step[<<j, g>>] = body(g, j)
    OBVIOUS
  <1>4. \A j \in 1 .. n, g \in [1 .. n -> S] : body(g, j) \in S
    <2> SUFFICES ASSUME NEW j \in 1 .. n, NEW g \in [1 .. n -> S] PROVE body(g, j) \in S
      OBVIOUS
    <2>1. \/ body(g, j) = 0
          \/ j + 2 \in 1 .. n /\ body(g, j) = g[j + 2]
          \/ body(g, j) = j
          \/ j + 1 \in 1 .. n /\ body(g, j) = g[j + 1]
      <3>1. CASE iseos(s, j)
        BY <1>2, <3>1
      <3>2. CASE At(s, j, {q})
        <4>1. At(s, j + 1, {q}) => j + 2 \in 1 .. n
          BY <1>2
        <4>2. ~ iseos(s, j) /\ ~ At(s, j, {NonAscii})
          BY <1>2, <3>2
        <4>3. body(g, j) = IF At(s, j + 1, {q}) THEN g[j + 2] ELSE j
          BY <3>2, <4>2
        <4> QED BY <4>1, <4>3
      <3>3. CASE At(s, j, {NonAscii})
        BY <1>2, <3>3
      <3>4. CASE ~ iseos(s, j) /\ ~ At(s, j, {q}) /\ ~ At(s, j, {NonAscii})
        <4>1. j + 1 \in 1 .. n
          BY <1>2, <3>4
        <4>2. body(g, j) = g[j + 1]
          BY <3>4
        <4> QED BY <4>1, <4>2
      <3> QED BY <3>1, <3>2, <3>3, <3>4
    <2> HIDE DEF body
    <2> QED BY <2>1
  <1>5. ASSUME NEW j \in 1 .. n, NEW g \in [1 .. n -> S], NEW h \in [1 .. n -> S],
               \A k \in j + 1 .. n : g[k] = h[k]
        PROVE  body(g, j) = body(h, j)
    <2>1. CASE iseos(s, j)
      BY <1>2, <2>1
    <2>2. CASE ~ iseos(s, j)
      BY <1>2, <1>5, <2>2
    <2> QED BY <2>1, <2>2
  <1>6. PICK f \in [1 .. n -> S] : SolvesDown(f, step, n)
    <2>1. StepDown(step, n, S)
      <3> HIDE DEF step, S, n, body
      <3>1. \A j \in 1 .. n, g \in [1 .. n -> S] : step[<<j, g>>] \in S
        BY <1>3, <1>4
      <3>2. ASSUME NEW j \in 1 .. n, NEW g \in [1 .. n -> S], NEW h \in [1 .. n -> S],
                   \A k \in j + 1 .. n : g[k] = h[k]
            PROVE  step[<<j, g>>] = step[<<j, h>>]
        <4>1. body(g, j) = body(h, j)
          BY <1>5, <3>2
        <4> QED BY <1>3, <4>1
      <3> QED BY <3>1, <3>2 DEF StepDown
    <2> HIDE DEF step, S, n, body
    <2> QED BY <1>1, <2>1, RecursionDown
  <1>7. f = [j \in 1 .. n |-> body(f, j)]
    <2> HIDE DEF step, body
    <2> QED BY <1>3, <1>6 DEF SolvesDown
  <1>8. closingQuote(s, q) = [j \in 1 .. n |-> body(closingQuote(s, q), j)]
    BY <1>7 DEF closingQuote
  <1> DEFINE F == closingQuote(s, q)
  <1>9. ASSUME NEW j \in 1 .. n, \A k \in j + 1 .. n : F[k] = 0 \/ F[k] \in k .. Len(s)
        PROVE  F[j] = 0 \/ F[j] \in j .. Len(s)
    <2>1. F[j] = body(F, j)
      BY <1>8
    <2> HIDE DEF F
    <2>2. CASE iseos(s, j)
      BY <1>2, <2>1, <2>2
    <2>3. CASE ~ iseos(s, j)
      <3>1. F[j] \in {0, j} \/ F[j] = F[j + 1] \/ (j + 2 \in j + 1 .. n /\ F[j] = F[j + 2])
        BY <1>2, <2>1, <2>3
      <3>2. \A k \in j + 1 .. n : F[k] = 0 \/ F[k] \in j .. Len(s)
        BY <1>9
      <3> QED BY <1>2, <2>3, <3>1, <3>2
    <2> QED BY <2>2, <2>3
  <1>10. \A j \in 1 .. n : F[j] = 0 \/ F[j] \in j .. Len(s)
    <2> DEFINE T == {j \in 1 .. n : F[j] = 0 \/ F[j] \in j .. Len(s)}
    <2>1. \A j \in 1 .. n : (\A k \in j + 1 .. n : k \in T) => j \in T
      BY <1>9
    <2> HIDE DEF T, n
    <2>2. \A j \in 1 .. n : j \in T
      BY <1>1, <2>1, InductionDown
    <2> QED BY <2>2 DEF T
  <1> QED BY <1>10 DEF Pos

(* What Span counts is in C. *)
LEMMA SpanMembers ==
  ASSUME NEW s \in Seq(Char), NEW i \in Pos(s), NEW C
  PROVE  \A k \in i .. i + Span(s, i, C) - 1 : k \in 1 .. Len(s) /\ s[k] \in C
  <1> DEFINE stop == {j \in i .. Len(s) : s[j] \notin C}
             n == Span(s, i, C)
  <1>1. Len(s) \in Nat /\ i \in 1 .. Len(s) + 1 /\ n \in 0 .. Len(s) + 1 - i
    BY SpanBounds DEF Pos
  <1>2. n = (IF stop = {} THEN Len(s) + 1 ELSE Min(stop)) - i
    BY DEF Span
  <1>3. \A k \in i .. i + n - 1 : k \notin stop
    <2>1. stop \in SUBSET Nat
      BY <1>1
    <2> HIDE DEF stop, n
    <2>2. CASE stop = {}
      BY <2>2
    <2>3. CASE stop # {}
      <3>1. Min(stop) \in Nat /\ \A m \in stop : Min(stop) <= m
        BY <2>1, <2>3, MinLeast
      <3>2. n = Min(stop) - i
        BY <1>2, <2>3
      <3> QED BY <1>1, <3>1, <3>2
    <2> QED BY <2>2, <2>3
  <1> HIDE DEF n
  <1>4. ASSUME NEW k \in i .. i + n - 1 PROVE k \in i .. Len(s) /\ s[k] \in C
    BY <1>1, <1>3
  <1> QED BY <1>1, <1>4 DEF n

(* A digit has a value. *)
LEMMA NumeralNat ==
  ASSUME NEW c \in Digit
  PROVE  Numeral[c] \in Nat
  <1>1. c \in HexDigit /\ \E k \in 1 .. 16 : digits[k] = c
    BY DEF Digit, HexDigit, BaseDigit
  <1>2. (CHOOSE k \in 1 .. 16 : digits[k] = c) \in 1 .. 16
    BY <1>1
  <1> QED BY <1>1, <1>2 DEF Numeral

(* The length that the digits of a block give is a number. *)
LEMMA BlockLength ==
  ASSUME NEW s \in Seq(Char), NEW i \in Nat, NEW n \in Nat,
         \A j \in 1 .. n : s[i + 1 + j] \in Digit
  PROVE  lengthOfBlock(s, i, n) \in Nat
  <1> DEFINE d(j) == Numeral[s[i + 1 + j]]
             body(f, j) == IF j = 0 THEN 0 ELSE 10 * f[j - 1] + d(j)
             step == [p \in (1 .. n) \X Nat |-> 10 * p[2] + d(p[1])]
             F == CHOOSE g : g = [j \in 0 .. n |-> body(g, j)]
  <1>1. \A j \in 1 .. n : d(j) \in Nat
    BY NumeralNat
  <1>2. lengthOfBlock(s, i, n) = F[n]
    BY DEF lengthOfBlock
  <1> HIDE DEF d
  <1>3. \A j \in 1 .. n, v \in Nat : step[<<j, v>>] = 10 * v + d(j)
    OBVIOUS
  <1>4. StepUp(step, n, Nat)
    <2> HIDE DEF step
    <2>1. ASSUME NEW j \in 1 .. n, NEW v \in Nat PROVE step[<<j, v>>] \in Nat
      <3>1. d(j) \in Nat /\ step[<<j, v>>] = 10 * v + d(j)
        BY <1>1, <1>3
      <3> QED BY <3>1
    <2> QED BY <2>1 DEF StepUp
  <1>5. PICK f \in [0 .. n -> Nat] : SolvesUp(f, step, n, 0)
    <2> HIDE DEF step
    <2> QED BY <1>4, RecursionUp
  <1>6. f = [j \in 0 .. n |-> body(f, j)]
    <2> HIDE DEF step
    <2>1. f = [j \in 0 .. n |-> IF j = 0 THEN 0 ELSE step[<<j, f[j - 1]>>]]
      BY <1>5 DEF SolvesUp
    <2>2. ASSUME NEW j \in 1 .. n PROVE step[<<j, f[j - 1]>>] = 10 * f[j - 1] + d(j)
      <3>1. f[j - 1] \in Nat
        OBVIOUS
      <3> QED BY <1>3, <3>1
    <2>3. ASSUME NEW j \in 0 .. n PROVE f[j] = body(f, j)
      <3>1. f[j] = IF j = 0 THEN 0 ELSE step[<<j, f[j - 1]>>]
        BY <2>1, Zenon
      <3>2. CASE j = 0
        BY <3>1, <3>2
      <3>3. CASE j # 0
        <4>1. j \in 1 .. n
          BY <3>3
        <4> QED BY <2>2, <3>1, <3>3, <4>1
      <3> QED BY <3>2, <3>3
    <2> QED BY <2>1, <2>3
  <1>7. F = [j \in 0 .. n |-> body(F, j)]
    BY <1>6
  <1> HIDE DEF F
  <1>8. 0 .. n \subseteq {j \in 0 .. n : F[j] \in Nat}
    <2> DEFINE T == {j \in 0 .. n : F[j] \in Nat}
    <2>1. 0 \in T
      BY <1>7
    <2>2. ASSUME NEW j \in 1 .. n, j - 1 \in T PROVE j \in T
      <3>1. F[j] = 10 * F[j - 1] + d(j)
        BY <1>7
      <3>2. d(j) \in Nat
        BY <1>1
      <3>3. F[j - 1] \in Nat
        BY <2>2
      <3> HIDE DEF d
      <3>4. F[j] \in Nat
        BY <3>1, <3>2, <3>3, SMTT(30)
      <3> QED BY <3>4
    <2> HIDE DEF T
    <2>3. 0 .. n \subseteq T
      BY <2>1, <2>2, Induction
    <2> QED BY <2>3 DEF T
  <1> QED BY <1>2, <1>8

-----------------------------------------------------------------------------
(* Every lexer function leaves the position between where it began and the
   end of the message. *)
LEMMA HeaderWithin ==
  ASSUME NEW s \in Seq(Char), NEW i \in Pos(s)
  PROVE  Within(ProgramHeader(s, i), s, i)
  <1> DEFINE Result(h) == /\ h.res \in {"OK", "INCOMPLETE", "NONE"}
                          /\ h.next \in i .. Len(s) + 1
                          /\ h.res # "NONE" => h.next > i
  <1>0. i \in Nat /\ i >= 1 /\ i <= Len(s) + 1 /\ Len(s) \in Nat
    BY DEF Pos
  <1>1. Result(skipCommonProgramHeader(s, i))
    <2>1. CASE ~ At(s, i, {"*"})
      BY <1>0, <2>1 DEF skipCommonProgramHeader
    <2>2. CASE At(s, i, {"*"})
      <3> DEFINE j == skipProgramMnemonic(s, i + 1)
      <3>1. i + 1 \in Pos(s)
        BY <1>0, <2>2 DEF At, Pos
      <3>2. j \in i + 1 .. Len(s) + 1
        BY <3>1, MnemonicBounds
      <3>3. skipCommonProgramHeader(s, i) = [res |-> IF j > i + 1 THEN "OK" ELSE "INCOMPLETE", next |-> j]
        BY <2>2 DEF skipCommonProgramHeader
      <3> HIDE DEF j
      <3> QED BY <1>0, <3>2, <3>3
    <2> QED BY <2>1, <2>2
  <1>2. Result(skipCompoundProgramHeader(s, i))
    <2> DEFINE first == Opt(s, i, {":"})
               k == skipProgramMnemonic(s, first)
    <2>1. first \in i .. Len(s) + 1 /\ first \in Pos(s)
      BY OptBounds
    <2>2. k \in first .. Len(s) + 1 /\ k \in Pos(s)
      BY <2>1, MnemonicBounds
    <2>3. moreMnemonics(s)[k] \in Stop(s, k)
      BY <2>2, MoreMnemonics
    <2>4. skipCompoundProgramHeader(s, i) =
            CASE k > first -> moreMnemonics(s)[k]
              [] k = first /\ first > i -> [res |-> "INCOMPLETE", next |-> k]
              [] OTHER -> [res |-> "NONE", next |-> i]
      BY DEF skipCompoundProgramHeader
    <2> HIDE DEF k, first
    <2>5. CASE k > first
      <3>1. skipCompoundProgramHeader(s, i) = moreMnemonics(s)[k]
        BY <2>1, <2>2, <2>4, <2>5
      <3> QED BY <1>0, <2>1, <2>2, <2>3, <2>5, <3>1 DEF Stop
    <2>6. CASE k = first /\ first > i
      <3>1. skipCompoundProgramHeader(s, i) = [res |-> "INCOMPLETE", next |-> k]
        BY <2>1, <2>2, <2>4, <2>6
      <3> QED BY <1>0, <2>1, <2>2, <2>6, <3>1
    <2>7. CASE k = first /\ ~ first > i
      <3>1. skipCompoundProgramHeader(s, i) = [res |-> "NONE", next |-> i]
        BY <2>1, <2>2, <2>4, <2>7
      <3> QED BY <1>0, <3>1
    <2> QED BY <2>1, <2>2, <2>5, <2>6, <2>7
  <1>3. ASSUME NEW h, Result(h), NEW kind
        PROVE  Within(HeaderToken(s, i, kind, h), s, i)
    <2>1. h.next \in Pos(s)
      BY <1>0, <1>3 DEF Pos
    <2>2. Opt(s, h.next, {"?"}) \in h.next .. Len(s) + 1
      BY <2>1, OptBounds
    <2>3. CASE h.res = "OK"
      <3> DEFINE j == Opt(s, h.next, {"?"})
                 t == IF j > h.next THEN kind \o "_QUERY" ELSE kind
      <3>1. j \in i .. Len(s) + 1 /\ j > i
        BY <1>0, <1>3, <2>2, <2>3
      <3>2. HeaderToken(s, i, kind, h) = Found(t, i, j)
        BY <2>3 DEF HeaderToken
      <3> HIDE DEF j, t
      <3> QED BY <3>1, <3>2, FoundWithin
    <2>4. CASE h.res = "INCOMPLETE"
      <3> DEFINE t == "INCOMPLETE_" \o kind
      <3>1. HeaderToken(s, i, kind, h) = Found(t, i, h.next)
        BY <2>4 DEF HeaderToken
      <3> HIDE DEF t
      <3> QED BY <1>3, <2>4, <3>1, FoundWithin
    <2>5. CASE h.res = "NONE"
      <3>1. HeaderToken(s, i, kind, h) = None(i)
        BY <2>5 DEF HeaderToken
      <3> QED BY <1>0, <3>1, FoundWithin
    <2> QED BY <1>3, <2>3, <2>4, <2>5
  <1> QED BY <1>1, <1>2, <1>3 DEF ProgramHeader

(* skipExponent stays in the text: a sign without digits is not taken. *)
LEMMA ExponentBounds ==
  ASSUME NEW s \in Seq(Char), NEW i \in Pos(s)
  PROVE  skipExponent(s, i) \in i .. Len(s) + 1
  <1> DEFINE e == skipWs(s, i)
             d == Opt(s, skipWs(s, e + 1), {"+", "-"})
             n == Span(s, d, Digit)
  <1>1. e \in i .. Len(s) + 1 /\ i \in Nat /\ Len(s) \in Nat /\ i <= Len(s) + 1
    BY WsBounds DEF Pos
  <1>2. skipExponent(s, i) = IF At(s, e, {"E"}) /\ n > 0 THEN d + n ELSE i
    BY DEF skipExponent
  <1>3. ASSUME At(s, e, {"E"}) PROVE d + n \in i .. Len(s) + 1
    <2> HIDE DEF d, e
    <2>1. e + 1 \in Pos(s)
      BY <1>1, <1>3 DEF At, Pos
    <2>2. skipWs(s, e + 1) \in e + 1 .. Len(s) + 1 /\ skipWs(s, e + 1) \in Pos(s)
      BY <2>1, WsBounds
    <2>3. d \in skipWs(s, e + 1) .. Len(s) + 1 /\ d \in Pos(s)
      BY <2>2, OptBounds DEF d
    <2>4. n \in 0 .. Len(s) + 1 - d
      BY <2>3, SpanBounds
    <2> HIDE DEF n
    <2> QED BY <1>1, <2>2, <2>3, <2>4 DEF Pos
  <1> HIDE DEF e, d, n
  <1> QED BY <1>1, <1>2, <1>3

(* A decimal number lies in the text, with or without an exponent. *)
LEMMA NumberWithin ==
  ASSUME NEW s \in Seq(Char), NEW i \in Pos(s)
  PROVE  Within(DecimalNumericProgramData(s, i), s, i)
  <1> DEFINE a == Opt(s, i, {"+", "-"})
             m == Span(s, a, Digit)
             p == Opt(s, a + m, {"."})
             f == IF p > a + m THEN Span(s, p, Digit) ELSE 0
             x == skipExponent(s, p + f)
  <1>1. a \in i .. Len(s) + 1 /\ a \in Pos(s) /\ i \in Nat /\ Len(s) \in Nat
    BY OptBounds DEF Pos
  <1>2. m \in 0 .. Len(s) + 1 - a /\ a + m \in Pos(s)
    <2> HIDE DEF a
    <2>1. m \in 0 .. Len(s) + 1 - a
      BY <1>1, SpanBounds
    <2> QED BY <1>1, <2>1 DEF Pos
  <1>3. p \in a + m .. Len(s) + 1 /\ p \in Pos(s)
    <2> HIDE DEF a, m
    <2> QED BY <1>2, OptBounds
  <1>4. f \in 0 .. Len(s) + 1 - p /\ p + f \in Pos(s)
    <2> HIDE DEF a, m, p
    <2>1. Span(s, p, Digit) \in 0 .. Len(s) + 1 - p
      BY <1>3, SpanBounds
    <2> QED BY <1>1, <1>3, <2>1 DEF Pos
  <1>5. x \in p + f .. Len(s) + 1
    <2> HIDE DEF p, f
    <2> QED BY <1>4, ExponentBounds
  <1>6. DecimalNumericProgramData(s, i) = IF m + f = 0 THEN None(i) ELSE Found("DECIMAL", i, x)
    BY DEF DecimalNumericProgramData
  <1> HIDE DEF a, m, p, f, x
  <1>7. CASE m + f = 0
    BY <1>1, <1>6, <1>7, FoundWithin DEF Pos
  <1>8. CASE m + f # 0
    <2>1. x \in i .. Len(s) + 1 /\ x > i
      BY <1>1, <1>2, <1>3, <1>4, <1>5, <1>8 DEF Pos
    <2> QED BY <1>1, <1>6, <1>8, <2>1, FoundWithin
  <1> QED BY <1>7, <1>8

(* A suffix lies in the text, however many units are multiplied in it. *)
LEMMA SuffixWithin ==
  ASSUME NEW s \in Seq(Char), NEW i \in Pos(s)
  PROVE  Within(SuffixProgramData(s, i), s, i)
  <1> DEFINE a == Opt(s, i, {"/"})
             b == skipUnit(s, a)
             c == skipPower(s, b)
             j == IF b > a THEN moreUnits(s)[c] ELSE a
  <1>1. a \in i .. Len(s) + 1 /\ a \in Pos(s) /\ i \in Nat /\ Len(s) \in Nat
    BY OptBounds DEF Pos
  <1>2. b \in a .. Len(s) + 1 /\ b \in Pos(s)
    <2> HIDE DEF a
    <2> QED BY <1>1, UnitBounds
  <1>3. c \in b .. Len(s) + 1 /\ c \in Pos(s)
    <2> HIDE DEF a, b
    <2> QED BY <1>2, UnitBounds
  <1>4. moreUnits(s)[c] \in c .. Len(s) + 1
    <2> HIDE DEF c
    <2> QED BY <1>3, MoreUnits
  <1>5. SuffixProgramData(s, i) = FoundOrNone("SUFFIX", i, j)
    BY DEF SuffixProgramData
  <1>6. j \in i .. Len(s) + 1
    <2> HIDE DEF a, b, c
    <2> QED BY <1>1, <1>2, <1>3, <1>4 DEF Pos
  <1> HIDE DEF j
  <1> QED BY <1>5, <1>6, FoundWithin

(* A number of another base lies in the text. *)
LEMMA NondecimalWithin ==
  ASSUME NEW s \in Seq(Char), NEW i \in Pos(s)
  PROVE  Within(NondecimalNumericData(s, i), s, i)
  <1>0. i \in Nat /\ i >= 1 /\ Len(s) \in Nat
    BY DEF Pos
  <1>1. ASSUME NEW type, NEW C, i + 1 <= Len(s)
        PROVE  Within(BasedNumber(s, i, type, C), s, i)
    <2> DEFINE n == Span(s, i + 2, C)
    <2>1. i + 2 \in Pos(s)
      BY <1>0, <1>1 DEF Pos
    <2>2. n \in 0 .. Len(s) + 1 - (i + 2)
      BY <2>1, SpanBounds
    <2>3. BasedNumber(s, i, type, C) = IF n > 0 THEN Token(type, i + 2, n, n + 2, i + 2 + n) ELSE None(i)
      BY DEF BasedNumber
    <2> HIDE DEF n
    <2>4. CASE n > 0
      <3>1. Within(Token(type, i + 2, n, n + 2, i + 2 + n), s, i)
        BY <1>0, <2>2, <2>4 DEF Within, Token
      <3> QED BY <2>3, <2>4, <3>1
    <2>5. CASE ~ n > 0
      BY <2>3, <2>5, NoneWithin
    <2> QED BY <2>4, <2>5
  <1>2. CASE ~ At(s, i, {"#"})
    <2>1. NondecimalNumericData(s, i) = None(i)
      BY <1>2 DEF NondecimalNumericData
    <2> QED BY <2>1, NoneWithin
  <1>3. CASE At(s, i, {"#"}) /\ ~ At(s, i + 1, {"H", "Q", "B"})
    <2>1. NondecimalNumericData(s, i) = None(i)
      BY <1>3 DEF NondecimalNumericData, At
    <2> QED BY <2>1, NoneWithin
  <1>4. CASE At(s, i, {"#"}) /\ At(s, i + 1, {"H", "Q", "B"})
    <2>1. i + 1 <= Len(s)
      BY <1>4 DEF At
    <2>2. \E type, C : NondecimalNumericData(s, i) = BasedNumber(s, i, type, C)
      BY <1>4 DEF NondecimalNumericData, At
    <2> QED BY <1>1, <2>1, <2>2
  <1> QED BY <1>2, <1>3, <1>4

(* A string lies in the text, also where its closing quote is missing. *)
LEMMA StringWithin ==
  ASSUME NEW s \in Seq(Char), NEW i \in Pos(s)
  PROVE  Within(StringProgramData(s, i), s, i)
  <1> DEFINE end == closingQuote(s, s[i])[i + 1]
  <1>1. StringProgramData(s, i) =
          IF At(s, i, Quote) /\ end > 0 THEN Found("STRING", i, end + 1) ELSE None(i)
    BY DEF StringProgramData
  <1>2. CASE At(s, i, Quote) /\ end > 0
    <2>1. s[i] \in Quote /\ i + 1 \in Pos(s) /\ i \in Nat /\ Len(s) \in Nat
      BY <1>2 DEF At, Pos
    <2>2. end = 0 \/ end \in i + 1 .. Len(s)
      BY <2>1, ClosingQuote
    <2> HIDE DEF end
    <2>3. end + 1 \in i .. Len(s) + 1 /\ end + 1 > i
      BY <1>2, <2>1, <2>2
    <2>4. Within(Found("STRING", i, end + 1), s, i)
      BY <2>3, FoundWithin
    <2> QED BY <1>1, <1>2, <2>4
  <1>3. CASE ~ (At(s, i, Quote) /\ end > 0)
    BY <1>1, <1>3, NoneWithin
  <1> QED BY <1>2, <1>3

(* A block lies in the text, also where the length it announces goes beyond
   the end, or has fewer digits than announced. *)
LEMMA BlockWithin ==
  ASSUME NEW s \in Seq(Char), NEW i \in Pos(s)
  PROVE  Within(ArbitraryBlockProgramData(s, i), s, i)
  <1> DEFINE k == IF At(s, i + 1, Digit \ {"0"}) THEN Numeral[s[i + 1]] ELSE 0
             m == Span(s, i + 2, Digit)
             n == IF m > k THEN k ELSE m
             data == i + 2 + n
             length == lengthOfBlock(s, i, n)
             valid == k > 0 /\ n = k /\ data + length <= Len(s) + 1
             incomplete == \/ iseos(s, i + 1)
                           \/ k > 0 /\ n = k /\ data + length > Len(s) + 1
                           \/ k > 0 /\ n < k /\ iseos(s, data)
             block == Token("BLOCK", data, length, 2 + n + length, data + length)
             rest == Token("UNKNOWN", i, 0, 0, Len(s) + 1)
  <1>0. i \in Nat /\ i >= 1 /\ i <= Len(s) + 1 /\ Len(s) \in Nat
    BY DEF Pos
  <1>1. ArbitraryBlockProgramData(s, i) =
          CASE At(s, i, {"#"}) /\ valid -> block
            [] At(s, i, {"#"}) /\ incomplete -> rest
            [] OTHER -> None(i)
    BY DEF ArbitraryBlockProgramData
  <1>2. ASSUME valid PROVE Within(block, s, i) /\ ~ incomplete
    <2>1. At(s, i + 1, Digit \ {"0"}) /\ k > 0
      BY <1>2
    <2>2. i + 2 \in Pos(s) /\ s[i + 1] \in Digit
      BY <1>0, <2>1 DEF At, Pos
    <2>3. k \in Nat
      BY <2>1, <2>2, NumeralNat
    <2>4. m \in 0 .. Len(s) + 1 - (i + 2)
      BY <2>2, SpanBounds
    <2>5. \A j \in i + 2 .. i + 2 + m - 1 : s[j] \in Digit
      BY <2>2, SpanMembers
    <2> HIDE DEF k, m
    <2>6. n \in Nat /\ n <= m
      BY <2>3, <2>4
    <2> HIDE DEF n
    <2>7. \A j \in 1 .. n : s[i + 1 + j] \in Digit
      <3> SUFFICES ASSUME NEW j \in 1 .. n PROVE s[i + 1 + j] \in Digit
        OBVIOUS
      <3>1. i + 1 + j \in i + 2 .. i + 2 + m - 1
        BY <1>0, <2>4, <2>6
      <3> QED BY <2>5, <3>1
    <2>8. length \in Nat
      BY <1>0, <2>6, <2>7, BlockLength
    <2> HIDE DEF length
    <2>9. n = k /\ data + length <= Len(s) + 1
      BY <1>2
    <2>10. ~ iseos(s, i + 1)
      BY <1>0, <2>2 DEF iseos, Pos
    <2>11. ~ incomplete
      BY <1>0, <2>3, <2>6, <2>8, <2>9, <2>10
    <2>12. Within(block, s, i)
      BY <1>0, <2>6, <2>8, <2>9 DEF Within, Token
    <2> QED BY <2>11, <2>12
  <1>3. Within(rest, s, i)
    BY <1>0 DEF Within, Token
  <1> HIDE DEF valid, incomplete, block, rest
  <1>4. CASE ~ At(s, i, {"#"})
    <2>1. ArbitraryBlockProgramData(s, i) = None(i)
      BY <1>1, <1>4
    <2> QED BY <2>1, NoneWithin
  <1>5. CASE At(s, i, {"#"}) /\ valid
    <2>1. ~ incomplete
      BY <1>2, <1>5
    <2>2. ArbitraryBlockProgramData(s, i) = block
      BY <1>1, <1>5, <2>1
    <2> QED BY <1>2, <1>5, <2>2
  <1>6. CASE At(s, i, {"#"}) /\ ~ valid /\ incomplete
    <2>1. ArbitraryBlockProgramData(s, i) = rest
      BY <1>1, <1>6
    <2> QED BY <1>3, <2>1
  <1>7. CASE At(s, i, {"#"}) /\ ~ valid /\ ~ incomplete
    <2>1. ArbitraryBlockProgramData(s, i) = None(i)
      BY <1>1, <1>7
    <2> QED BY <2>1, NoneWithin
  <1> QED BY <1>4, <1>5, <1>6, <1>7

(* An expression lies in the text, also where its parenthesis stays open. *)
LEMMA ExpressionWithin ==
  ASSUME NEW s \in Seq(Char), NEW i \in Pos(s)
  PROVE  Within(ProgramExpression(s, i), s, i)
  <1> DEFINE j == i + 1 + Span(s, i + 1, Char \ NoExpression)
  <1>1. ProgramExpression(s, i) =
          IF At(s, i, {"("}) /\ At(s, j, {")"}) THEN Found("EXPRESSION", i, j + 1) ELSE None(i)
    BY DEF ProgramExpression
  <1>2. CASE At(s, i, {"("}) /\ At(s, j, {")"})
    <2>1. i + 1 \in Pos(s) /\ i \in Nat /\ Len(s) \in Nat
      BY <1>2 DEF At, Pos
    <2>2. j \in i + 1 .. Len(s) + 1
      BY <2>1, SpanBounds
    <2> HIDE DEF j
    <2>3. j + 1 \in i .. Len(s) + 1 /\ j + 1 > i
      BY <1>2, <2>1, <2>2 DEF At
    <2>4. Within(Found("EXPRESSION", i, j + 1), s, i)
      BY <2>3, FoundWithin
    <2> QED BY <1>1, <1>2, <2>4
  <1>3. CASE ~ (At(s, i, {"("}) /\ At(s, j, {")"}))
    BY <1>1, <1>3, NoneWithin
  <1> QED BY <1>2, <1>3

(* Separators, line ends and character data lie in the text. *)
LEMMA SeparatorsWithin ==
  ASSUME NEW s \in Seq(Char), NEW i \in Pos(s)
  PROVE  /\ Within(Comma(s, i), s, i)
         /\ Within(Semicolon(s, i), s, i)
         /\ Within(NewLine(s, i), s, i)
         /\ Within(CharacterProgramData(s, i), s, i)
  <1>1. Within(Comma(s, i), s, i)
    BY OptBounds, FoundWithin DEF Comma
  <1>2. Within(Semicolon(s, i), s, i)
    BY OptBounds, FoundWithin DEF Semicolon
  <1>3. Within(NewLine(s, i), s, i)
    <2> DEFINE a == Opt(s, i, {"cr"})
               b == Opt(s, a, {"nl"})
    <2>1. a \in i .. Len(s) + 1 /\ a \in Pos(s)
      BY OptBounds
    <2> HIDE DEF a
    <2>2. b \in a .. Len(s) + 1
      BY <2>1, OptBounds
    <2> HIDE DEF b
    <2>3. b \in i .. Len(s) + 1
      BY <2>1, <2>2 DEF Pos
    <2>4. Within(FoundOrNone("NL", i, b), s, i)
      BY <2>3, FoundWithin
    <2> QED BY <2>4 DEF NewLine, a, b
  <1>4. Within(CharacterProgramData(s, i), s, i)
    BY MnemonicBounds, FoundWithin DEF CharacterProgramData
  <1> QED BY <1>1, <1>2, <1>3, <1>4

(* What was looked for behind i was looked for at i. *)
LEMMA WithinEarlier ==
  ASSUME NEW s \in Seq(Char), NEW i \in Pos(s), NEW j \in Pos(s), i <= j, NEW t, Within(t, s, j)
  PROVE  Within(t, s, i)
  BY DEF Within, Pos

(* The lexer stops at a position of the text. *)
LEMMA WithinPos ==
  ASSUME NEW s \in Seq(Char), NEW i \in Pos(s), NEW t, Within(t, s, i)
  PROVE  t.next \in Pos(s) /\ t.next >= i
  BY DEF Within, Pos

-----------------------------------------------------------------------------
(* Parameters *)
LEMMA ProgramDataWithin ==
  ASSUME NEW s \in Seq(Char), NEW i \in Pos(s)
  PROVE  Within(ProgramData(s, i), s, i)
  <1>1. ASSUME NEW dec, Within(dec, s, i)
        PROVE  Within(NumberOrNone(s, dec), s, i)
    <2> DEFINE b == skipWs(s, dec.next)
               t == SuffixProgramData(s, b)
    <2>1. dec.next \in Pos(s) /\ dec.next >= i
      BY <1>1, WithinPos
    <2>2. b \in dec.next .. Len(s) + 1 /\ b \in Pos(s)
      BY <2>1, WsBounds
    <2>3. Within(t, s, b)
      <3> HIDE DEF b
      <3> QED BY <2>2, SuffixWithin
    <2>4. NumberOrNone(s, dec) = IF dec.ret > 0 THEN Number(s, dec, t) ELSE dec
      BY DEF NumberOrNone
    <2>5. Number(s, dec, t) = IF t.ret > 0 THEN Found("DECIMAL_WITH_SUFFIX", dec.first, t.next)
                              ELSE Token("DECIMAL", dec.first, dec.len, dec.len, b)
      BY DEF Number
    <2> HIDE DEF t, b
    <2>6. ASSUME dec.ret > 0, t.ret > 0
          PROVE  Within(Found("DECIMAL_WITH_SUFFIX", dec.first, t.next), s, i)
      <3>1. /\ dec.first \in Nat /\ dec.first >= i /\ dec.first <= t.next
            /\ t.next \in i .. Len(s) + 1
        <4>1. i \in Nat /\ Len(s) \in Nat /\ dec.first \in i .. dec.next /\ dec.next \in i .. Len(s) + 1
          BY <1>1 DEF Within, Pos
        <4>2. t.next \in b .. Len(s) + 1
          BY <2>3 DEF Within
        <4> QED BY <2>2, <4>1, <4>2
      <3>2. i \in Nat /\ Len(s) \in Nat /\ t.next \in Nat
        BY <3>1 DEF Pos
      <3>3. t.next - dec.first \in 0 .. t.next - i
        BY <3>1, <3>2
      <3> QED BY <3>1, <3>2, <3>3 DEF Within, Found, Token
    <2>7. ASSUME dec.ret > 0
          PROVE  Within(Token("DECIMAL", dec.first, dec.len, dec.len, b), s, i)
      <3>1. /\ dec.first \in Nat /\ dec.first >= i /\ dec.len \in Nat /\ b \in i .. Len(s) + 1
            /\ dec.first + dec.len <= b
        BY <1>1, <2>1, <2>2 DEF Within, Pos
      <3>2. i \in Nat /\ Len(s) \in Nat /\ b \in Nat
        BY <3>1 DEF Pos
      <3>3. dec.len \in 0 .. b - i
        BY <3>1, <3>2
      <3> QED BY <3>1, <3>2, <3>3 DEF Within, Token
    <2> QED BY <1>1, <2>4, <2>5, <2>6, <2>7
  <1>2. ASSUME NEW block, Within(block, s, i)
        PROVE  Within(BlockOrExpression(s, block), s, i)
    <2>1. block.next \in Pos(s) /\ block.next >= i /\ i \in Nat
      BY <1>2, WithinPos DEF Pos
    <2>2. Within(ProgramExpression(s, block.next), s, i)
      BY <2>1, ExpressionWithin, WithinEarlier DEF Pos
    <2> QED BY <1>2, <2>2 DEF BlockOrExpression
  <1>3. Within(NumberOrNone(s, DecimalNumericProgramData(s, i)), s, i)
    BY <1>1, NumberWithin
  <1>4. Within(BlockOrExpression(s, ArbitraryBlockProgramData(s, i)), s, i)
    BY <1>2, BlockWithin
  <1> QED BY <1>3, <1>4, NondecimalWithin, SeparatorsWithin, StringWithin DEF ProgramData

(* One parameter of any type lies in the text, its suffix included. *)
LEMMA ParameterWithin ==
  ASSUME NEW s \in Seq(Char), NEW i \in Pos(s)
  PROVE  Within(parseProgramData(s, i), s, i)
  <1> DEFINE b == skipWs(s, i)
             t == ProgramData(s, b)
             after == skipWs(s, t.next)
  <1>1. b \in i .. Len(s) + 1 /\ b \in Pos(s)
    BY WsBounds
  <1>2. Within(t, s, b)
    <2> HIDE DEF b
    <2> QED BY <1>1, ProgramDataWithin
  <1>3. t.next \in Pos(s)
    <2> HIDE DEF b, t
    <2> QED BY <1>1, <1>2, WithinPos
  <1>4. after \in t.next .. Len(s) + 1
    <2> HIDE DEF t
    <2> QED BY <1>3, WsBounds
  <1>5. parseProgramData(s, i) = Token(t.type, t.first, t.len, (b - i) + t.ret + (after - t.next), after)
    BY DEF parseProgramData, Padded
  <1> HIDE DEF b, t, after
  <1>6. /\ t.first \in b .. after /\ t.len \in Nat /\ t.first + t.len <= after
        /\ t.ret \in 0 .. t.next - b /\ t.next \in b .. after
    BY <1>1, <1>2, <1>4 DEF Within, Pos
  <1>7. i \in Nat /\ b \in Nat /\ after \in Nat /\ t.next \in Nat /\ Len(s) \in Nat /\ i <= b
    BY <1>1, <1>4, <1>6 DEF Pos
  <1>8. (b - i) + t.ret + (after - t.next) \in 0 .. after - i
    <2>1. ASSUME NEW ret \in Nat, NEW next \in Nat, ret <= next - b, next <= after
          PROVE  (b - i) + ret + (after - next) \in 0 .. after - i
      BY <1>7, <2>1, SMTT(30)
    <2> QED BY <1>6, <1>7, <2>1, SMTT(30)
  <1> QED BY <1>4, <1>5, <1>6, <1>7, <1>8, SMTT(30) DEF Within, Token

(* What stands for the data from j on: its length is at most what was taken. *)
Data(s, j) ==
  [ok : BOOLEAN, len : Nat, next : j .. Len(s) + 1, count : Int]

Short(r, j) == r.len <= r.next - j

(* The data of a unit grow by the tokens read: a comma and a parameter. *)
LEMMA OntoData ==
  ASSUME NEW s \in Seq(Char), NEW j \in Nat, NEW p, NEW c, p.ret \in Nat, c.ret \in Nat,
         NEW r \in Data(s, j)
  PROVE  /\ Onto(p, c, r) \in Data(s, j)
         /\ Onto(p, c, r).next = r.next
         /\ Onto(p, c, r).len <= r.len + p.ret + c.ret
  <1>0. r.len \in Nat /\ r.next \in j .. Len(s) + 1 /\ r.count \in Int /\ r.ok \in BOOLEAN
    BY DEF Data
  <1>1. CASE r.ok
    <2>1. Onto(p, c, r) = [ok |-> r.ok, len |-> r.len + p.ret + c.ret, next |-> r.next, count |-> r.count + 1]
      BY <1>1 DEF Onto, Data
    <2> QED BY <1>0, <2>1 DEF Data
  <1>2. CASE ~ r.ok
    <2>1. Onto(p, c, r) = r
      BY <1>2 DEF Onto
    <2> QED BY <1>0, <2>1
  <1> QED BY <1>1, <1>2

(* The data from a position on ends behind it. *)
LEMMA DataFrom ==
  ASSUME NEW s \in Seq(Char)
  PROVE  \A j \in Pos(s) : dataFrom(s)[j] \in Data(s, j) /\ Short(dataFrom(s)[j], j)
  <1> DEFINE n == Len(s) + 1
             P(j) == parseProgramData(s, j)
             C(j) == Comma(s, P(j).next)
             S == Data(s, 1)
             body(g, j) ==
               CASE P(j).type = "UNKNOWN" -> MissingData(P(j).next)
                 [] P(j).type # "UNKNOWN" /\ C(j).ret = 0 ->
                      [ok |-> TRUE, len |-> P(j).ret, next |-> P(j).next, count |-> 1]
                 [] OTHER -> Onto(P(j), C(j), g[C(j).next])
             step == [p \in (1 .. n) \X [1 .. n -> S] |-> body(p[2], p[1])]
  <1>1. n \in Nat /\ S # {}
    <2>1. MissingData(1) \in S
      BY DEF Data, MissingData
    <2> QED BY <2>1
  <1>2. ASSUME NEW j \in 1 .. n
        PROVE  /\ P(j).next \in j .. n /\ P(j).ret \in Nat /\ P(j).ret <= P(j).next - j
               /\ C(j).next \in j .. n /\ C(j).ret \in Nat
               /\ P(j).ret + C(j).ret <= C(j).next - j
               /\ C(j).ret # 0 => C(j).next \in j + 1 .. n
    <2>1. j \in Pos(s)
      BY DEF Pos
    <2>2. Within(P(j), s, j)
      BY <2>1, ParameterWithin
    <2>3. P(j).next \in Pos(s)
      <3> HIDE DEF P
      <3> QED BY <2>1, <2>2, WithinPos
    <2>4. Within(C(j), s, P(j).next)
      <3> HIDE DEF P
      <3> QED BY <2>3, SeparatorsWithin
    <2> HIDE DEF P, C
    <2>5. P(j).next \in j .. n /\ P(j).ret \in 0 .. P(j).next - j
      BY <2>1, <2>2 DEF Within
    <2>6. C(j).next \in P(j).next .. n /\ C(j).ret \in 0 .. C(j).next - P(j).next
      BY <2>4 DEF Within
    <2>7. n \in Nat /\ j \in Nat /\ P(j).next \in Nat /\ C(j).next \in Nat
      BY <1>1, <2>5, <2>6
    <2> HIDE DEF n
    <2> QED BY <2>5, <2>6, <2>7, SMTT(30)
  <1>3. \A j \in 1 .. n, g \in [1 .. n -> S] : step[<<j, g>>] = body(g, j)
    OBVIOUS
  <1>4. \A j \in 1 .. n, g \in [1 .. n -> S] : body(g, j) \in S
    <2> SUFFICES ASSUME NEW j \in 1 .. n, NEW g \in [1 .. n -> S] PROVE body(g, j) \in S
      OBVIOUS
    <2>1. g[C(j).next] \in S
      BY <1>2
    <2> HIDE DEF P, C
    <2>2. CASE P(j).type = "UNKNOWN"
      <3>1. body(g, j) = MissingData(P(j).next)
        BY <2>2
      <3> HIDE DEF body
      <3> QED BY <1>2, <3>1 DEF Data, MissingData
    <2>3. CASE P(j).type # "UNKNOWN" /\ C(j).ret = 0
      <3>1. body(g, j) = [ok |-> TRUE, len |-> P(j).ret, next |-> P(j).next, count |-> 1]
        BY <2>3
      <3> HIDE DEF body
      <3> QED BY <1>2, <3>1 DEF Data
    <2>4. CASE P(j).type # "UNKNOWN" /\ C(j).ret # 0
      <3>1. body(g, j) = Onto(P(j), C(j), g[C(j).next])
        BY <2>4
      <3>2. Onto(P(j), C(j), g[C(j).next]) \in S
        <4> HIDE DEF body
        <4> QED BY <1>2, <2>1, OntoData
      <3> QED BY <3>1, <3>2
    <2> QED BY <2>2, <2>3, <2>4
  <1>5. ASSUME NEW j \in 1 .. n, NEW g \in [1 .. n -> S], NEW h \in [1 .. n -> S],
               \A k \in j + 1 .. n : g[k] = h[k]
        PROVE  body(g, j) = body(h, j)
    <2> HIDE DEF P, C
    <2> QED BY <1>2, <1>5
  <1>6. PICK f \in [1 .. n -> S] : SolvesDown(f, step, n)
    <2>1. StepDown(step, n, S)
      <3> HIDE DEF step, S, n, body
      <3>1. \A j \in 1 .. n, g \in [1 .. n -> S] : step[<<j, g>>] \in S
        BY <1>3, <1>4
      <3>2. ASSUME NEW j \in 1 .. n, NEW g \in [1 .. n -> S], NEW h \in [1 .. n -> S],
                   \A k \in j + 1 .. n : g[k] = h[k]
            PROVE  step[<<j, g>>] = step[<<j, h>>]
        <4>1. body(g, j) = body(h, j)
          BY <1>5, <3>2
        <4> QED BY <1>3, <4>1
      <3> QED BY <3>1, <3>2 DEF StepDown
    <2> HIDE DEF step, S, n, body
    <2> QED BY <1>1, <2>1, RecursionDown
  <1>7. f = [j \in 1 .. n |-> body(f, j)]
    <2> HIDE DEF step, body
    <2> QED BY <1>3, <1>6 DEF SolvesDown
  <1>8. dataFrom(s) = [j \in 1 .. n |-> body(dataFrom(s), j)]
    BY <1>7 DEF dataFrom
  <1> DEFINE F == dataFrom(s)
  <1>9. ASSUME NEW j \in 1 .. n, \A k \in j + 1 .. n : F[k] \in Data(s, k) /\ Short(F[k], k)
        PROVE  F[j] \in Data(s, j) /\ Short(F[j], j)
    <2>1. F[j] = body(F, j)
      BY <1>8
    <2> HIDE DEF F
    <2> DEFINE r == F[C(j).next]
    <2>2. C(j).ret # 0 => r \in Data(s, C(j).next) /\ Short(r, C(j).next)
      BY <1>2, <1>9
    <2> HIDE DEF P, C, r
    <2>3. CASE P(j).type = "UNKNOWN"
      <3>1. F[j] = MissingData(P(j).next)
        BY <2>1, <2>3
      <3> QED BY <1>2, <3>1 DEF Data, MissingData, Short
    <2>4. CASE P(j).type # "UNKNOWN" /\ C(j).ret = 0
      <3>1. F[j] = [ok |-> TRUE, len |-> P(j).ret, next |-> P(j).next, count |-> 1]
        BY <2>1, <2>4
      <3> QED BY <1>2, <3>1 DEF Data, Short
    <2>5. CASE P(j).type # "UNKNOWN" /\ C(j).ret # 0
      <3>1. F[j] = Onto(P(j), C(j), r)
        BY <2>1, <2>5 DEF r
      <3>2. r \in Data(s, j)
        BY <1>2, <2>2, <2>5 DEF Data
      <3> DEFINE o == Onto(P(j), C(j), r)
      <3>3. o \in Data(s, j) /\ o.next = r.next /\ o.len <= r.len + P(j).ret + C(j).ret
        BY <1>2, <3>2, OntoData
      <3> HIDE DEF o
      <3>4. r.len <= r.next - C(j).next /\ r.len \in Nat /\ r.next \in Nat
        BY <1>2, <2>2, <2>5, <3>2 DEF Short, Data
      <3>5. /\ P(j).ret \in Nat /\ C(j).ret \in Nat /\ C(j).next \in Nat /\ o.len \in Nat
            /\ P(j).ret + C(j).ret <= C(j).next - j
        BY <1>1, <1>2, <3>3 DEF Data
      <3>6. o.len <= r.len + (P(j).ret + C(j).ret) /\ j \in Nat
        BY <3>3, <3>4, <3>5, SMTT(30)
      <3>7. r.len + (P(j).ret + C(j).ret) <= r.next - C(j).next + (C(j).next - j)
        BY <3>4, <3>5, <3>6, SMTT(30)
      <3>8. o.len <= o.next - j
        <4> HIDE DEF P, C, r, body, step, S, n
        <4> QED BY <3>3, <3>4, <3>5, <3>6, <3>7, SMTT(30)
      <3> QED BY <3>1, <3>3, <3>8 DEF Short, o
    <2> QED BY <2>3, <2>4, <2>5
  <1>10. \A j \in 1 .. n : F[j] \in Data(s, j) /\ Short(F[j], j)
    <2> DEFINE T == {j \in 1 .. n : F[j] \in Data(s, j) /\ Short(F[j], j)}
    <2>1. \A j \in 1 .. n : (\A k \in j + 1 .. n : k \in T) => j \in T
      BY <1>9
    <2> HIDE DEF T, n
    <2>2. \A j \in 1 .. n : j \in T
      BY <1>1, <2>1, InductionDown
    <2> QED BY <2>2 DEF T
  <1> QED BY <1>10 DEF Pos

(* All parameters of a unit, and the commas between them, lie in the text. *)
LEMMA AllDataWithin ==
  ASSUME NEW s \in Seq(Char), NEW i \in Pos(s)
  PROVE  LET d == parseAllProgramData(s, i)
         IN  d.next \in i .. Len(s) + 1 /\ d.first = i /\ d.len \in 0 .. d.next - i
  <1>1. dataFrom(s)[i] \in Data(s, i) /\ Short(dataFrom(s)[i], i)
    BY DataFrom
  <1> DEFINE d == parseAllProgramData(s, i)
  <1>2. d.next = dataFrom(s)[i].next /\ d.first = i /\ d.len = dataFrom(s)[i].len
    BY DEF parseAllProgramData, Token
  <1> HIDE DEF d
  <1>3. d.next \in i .. Len(s) + 1 /\ d.first = i /\ d.len \in 0 .. d.next - i
    BY <1>1, <1>2 DEF Data, Short, Pos
  <1> QED BY <1>3 DEF d

-----------------------------------------------------------------------------
(* scpiParser_detectProgramMessageUnit takes at least one character, where
   there is one, and never goes behind the end of the line; the header of the
   unit, if it is valid, and its data lie between where the unit began and
   where it ended.  So neither the loop that scans (parser.c:333) nor the one that parses
   (parser.c:200) meets a unit that it cannot leave behind, whatever the line. *)
THEOREM UnitAdvances ==
  ASSUME NEW s \in Seq(Char), NEW i \in Pos(s)
  PROVE  LET u == detectProgramMessageUnit(s, i)
         IN  /\ u.next \in i .. Len(s) + 1 /\ (i <= Len(s) => u.next > i)
             /\ u.termination # "NONE" => u.next > i
             /\ u.header.type # "INVALID" =>
                  /\ Within(u.header, s, i) /\ u.header.next <= u.next
                  /\ u.data.first \in u.header.next .. u.next /\ u.data.len \in Nat
                  /\ u.data.first + u.data.len <= u.next
  <1> DEFINE b == skipWs(s, i)
             h == ProgramHeader(s, b)
             d == UnitData(s, h)
             end == UnitEnd(s, d.next)
             junk == end.ret = 0 /\ ~ iseos(s, d.next)
             u == detectProgramMessageUnit(s, i)
  <1>0. i \in Nat /\ i >= 1 /\ i <= Len(s) + 1 /\ Len(s) \in Nat
    BY DEF Pos
  <1>1. b \in i .. Len(s) + 1 /\ b \in Pos(s)
    BY WsBounds
  <1>2. Within(h, s, b)
    <2> HIDE DEF b
    <2> QED BY <1>1, HeaderWithin
  <1>3. Within(h, s, i) /\ h.next \in Pos(s)
    <2> HIDE DEF b, h
    <2> QED BY <1>0, <1>1, <1>2, WithinEarlier, WithinPos
  <1>4. /\ d.next \in h.next .. Len(s) + 1
        /\ d.first \in h.next .. d.next /\ d.len \in Nat /\ d.first + d.len <= d.next
    <2> DEFINE a == skipWs(s, h.next)
    <2> HIDE DEF h
    <2>1. a \in h.next .. Len(s) + 1 /\ a \in Pos(s)
      BY <1>3, WsBounds
    <2> DEFINE all == parseAllProgramData(s, a)
    <2>2. all.next \in a .. Len(s) + 1 /\ all.first = a /\ all.len \in 0 .. all.next - a
      <3> HIDE DEF a
      <3> QED BY <2>1, AllDataWithin
    <2>3. d = IF a > h.next THEN all ELSE NoData(h.next)
      BY DEF UnitData
    <2>4. NoData(h.next).next = h.next /\ NoData(h.next).first = h.next /\ NoData(h.next).len = 0
      BY DEF NoData, Token
    <2> HIDE DEF a, all, d
    <2> QED BY <1>0, <1>3, <2>1, <2>2, <2>3, <2>4 DEF Pos
  <1>5. d.next \in Pos(s) /\ d.next >= i
    <2> HIDE DEF h, d
    <2> QED BY <1>0, <1>3, <1>4 DEF Within, Pos
  <1>6. Within(end, s, d.next)
    <2> HIDE DEF d
    <2> QED BY <1>5, SeparatorsWithin DEF UnitEnd
  <1>7. u = UnitOf(s, i, h, d, end)
    BY DEF detectProgramMessageUnit
  <1> HIDE DEF b, h, d, end, u
  <1>8. /\ u.next = IF junk THEN d.next + 1 ELSE end.next
        /\ u.header = IF junk THEN [h EXCEPT !.type = "INVALID", !.len = 1] ELSE h
        /\ ~ junk => u.data = d
        /\ u.termination = IF end.ret > 0 THEN end.type ELSE "NONE"
    BY <1>7 DEF UnitOf
  <1>9. CASE junk
    <2>1. u.next = d.next + 1 /\ d.next <= Len(s)
      BY <1>0, <1>5, <1>8, <1>9 DEF iseos, Pos
    <2>2. u.header.type = "INVALID"
      BY <1>3, <1>8, <1>9 DEF Within, Token
    <2>3. u.next \in i .. Len(s) + 1 /\ u.next > i
      BY <1>0, <1>5, <2>1 DEF Pos
    <2>4. u.termination = "NONE"
      BY <1>6, <1>8, <1>9 DEF Within
    <2> QED BY <2>2, <2>3, <2>4 DEF u
  <1>10. CASE ~ junk
    <2>1. u.next = end.next /\ u.header = h /\ u.data = d
      BY <1>8, <1>10
    <2>2. end.next \in d.next .. Len(s) + 1 /\ (end.ret > 0 => end.next > d.next) /\ end.ret \in Nat
      BY <1>5, <1>6 DEF Within, Pos
    <2>3. end.ret > 0 \/ d.next > Len(s)
      BY <1>10, <2>2 DEF iseos
    <2>4. u.next \in i .. Len(s) + 1 /\ (i <= Len(s) => u.next > i)
      BY <1>0, <1>5, <2>1, <2>2, <2>3 DEF Pos
    <2>5. Within(u.header, s, i) /\ u.header.next <= u.next
      BY <1>3, <1>4, <2>1, <2>2 DEF Within, Pos
    <2>6. u.data.first \in u.header.next .. u.next /\ u.data.len \in Nat /\ u.data.first + u.data.len <= u.next
      BY <1>3, <1>4, <1>5, <2>1, <2>2 DEF Pos
    <2>7. u.termination # "NONE" => u.next > i
      <3>1. u.termination # "NONE" => end.next > d.next
        BY <1>8, <2>2
      <3> QED BY <1>0, <1>5, <2>1, <2>2, <3>1 DEF Pos
    <2> QED BY <2>4, <2>5, <2>6, <2>7 DEF u
  <1> QED BY <1>9, <1>10

-----------------------------------------------------------------------------
(* Reading parameters *)

(* What a callback has read so far, at a position of its parameters *)
Got(d) == [ok : BOOLEAN, pos : Pos(d), error : Int, count : Nat]

(* What a reader returns *)
Returned(r, d) == r.ok \in BOOLEAN /\ r.pos \in Pos(d) /\ r.error \in Int

(* SCPI_Parameter stays in the parameters of the command. *)
LEMMA ParameterReads ==
  ASSUME NEW d \in Seq(Char), NEW pos \in Pos(d), NEW count \in Nat, NEW mandatory
  PROVE  Returned(Parameter(d, pos, count, mandatory), d)
  <1> DEFINE c == Comma(d, pos)
             from == IF count = 0 THEN pos ELSE c.next
             x == parseProgramData(d, from)
             p == Parameter(d, pos, count, mandatory)
  <1>1. c.next \in Pos(d)
    BY SeparatorsWithin, WithinPos
  <1>2. from \in Pos(d)
    BY <1>1
  <1>3. x.next \in Pos(d)
    <2> HIDE DEF from
    <2> QED BY <1>2, ParameterWithin, WithinPos
  <1>4. \A type : /\ Returned(NotRead(pos, type, 0), d)
                   /\ Returned(NotRead(pos, type, MISSING_PARAMETER), d)
                   /\ Returned(NotRead(pos, type, INVALID_SEPARATOR), d)
    BY DEF Returned, NotRead, MISSING_PARAMETER, INVALID_SEPARATOR
  <1>5. Returned(ReadParameter(x), d)
    <2> HIDE DEF x
    <2> QED BY <1>3 DEF Returned, ReadParameter, NotRead, INVALID_STRING_DATA
  <1>6. CASE iseos(d, pos) /\ mandatory
    <2>1. p = NotRead(pos, "UNKNOWN", MISSING_PARAMETER)
      BY <1>6 DEF Parameter
    <2> HIDE DEF p
    <2> QED BY <1>4, <2>1 DEF p
  <1>7. CASE iseos(d, pos) /\ ~ mandatory
    <2>1. p = NotRead(pos, "MNEMONIC", 0)
      BY <1>7 DEF Parameter
    <2> HIDE DEF p
    <2> QED BY <1>4, <2>1 DEF p
  <1>8. CASE ~ iseos(d, pos) /\ count # 0 /\ c.ret = 0
    <2>1. p = NotRead(pos, "UNKNOWN", INVALID_SEPARATOR)
      BY <1>8 DEF Parameter
    <2> HIDE DEF p
    <2> QED BY <1>4, <2>1 DEF p
  <1>9. CASE ~ iseos(d, pos) /\ ~ (count # 0 /\ c.ret = 0)
    <2>1. p = ReadParameter(x)
      BY <1>9 DEF Parameter
    <2> HIDE DEF p, x
    <2> QED BY <1>5, <2>1 DEF p
  <1> QED BY <1>6, <1>7, <1>8, <1>9

(* What a number that cannot be read is reported as *)
LEMMA NumberErrorCode ==
  ASSUME NEW p
  PROVE  NumberError(p) \in Int
  <1>1. CASE SCPI_ParamIsNumber(p, FALSE)
    <2>1. NumberError(p) = 0
      BY <1>1 DEF NumberError, SCPI_ParamIsNumber
    <2> QED BY <2>1
  <1>2. CASE ~ SCPI_ParamIsNumber(p, FALSE) /\ p.type = "DECIMAL_WITH_SUFFIX"
    <2>1. NumberError(p) = SUFFIX_NOT_ALLOWED
      BY <1>2 DEF NumberError
    <2> QED BY <2>1 DEF SUFFIX_NOT_ALLOWED
  <1>3. CASE ~ SCPI_ParamIsNumber(p, FALSE) /\ p.type # "DECIMAL_WITH_SUFFIX"
    <2>1. NumberError(p) = DATA_TYPE_ERROR
      BY <1>3 DEF NumberError
    <2> QED BY <2>1 DEF DATA_TYPE_ERROR
  <1> QED BY <1>1, <1>2, <1>3

(* An integer reader leaves the position of the parameter it was given. *)
LEMMA IntegerReads ==
  ASSUME NEW d, NEW r, Returned(r, d)
  PROVE  Returned(ParamSignUInt(d, r, Width, TRUE), d)
  <1> DEFINE x == ParamSignUInt(d, r, Width, TRUE)
             n == ParamSignToUInt(d, r.param, Width, TRUE)
             e == NumberError(r.param)
  <1>1. e \in Int
    BY NumberErrorCode
  <1>2. /\ Returned(Failed(r, r.error), d) /\ Returned(Failed(r, 0), d)
        /\ Returned(Failed(r, e), d) /\ Returned(Read(r, n.val), d)
    <2> HIDE DEF e, n
    <2> QED BY <1>1 DEF Returned, Failed, Read
  <1>3. CASE ~ r.ok
    <2>1. x = Failed(r, r.error)
      BY <1>3 DEF ParamSignUInt
    <2> HIDE DEF x
    <2> QED BY <1>2, <2>1 DEF x
  <1>4. CASE r.ok /\ e # 0
    <2>1. x = Failed(r, e)
      BY <1>4 DEF ParamSignUInt
    <2> HIDE DEF x, e
    <2> QED BY <1>2, <2>1 DEF x
  <1>5. CASE r.ok /\ e = 0
    <2>1. x = IF n.ok THEN Read(r, n.val) ELSE Failed(r, 0)
      BY <1>5 DEF ParamSignUInt
    <2> HIDE DEF x, n
    <2> QED BY <1>2, <2>1 DEF x
  <1> QED BY <1>3, <1>4, <1>5

(* A callback that reads one more parameter stays in its data, *)
LEMMA ReadNextGot ==
  ASSUME NEW d \in Seq(Char), NEW r \in Got(d), NEW mandatory
  PROVE  ReadNext(d, r, mandatory) \in Got(d)
  <1> DEFINE p == Parameter(d, r.pos, r.count, mandatory)
             x == ParamSignUInt(d, p, Width, TRUE)
  <1>1. r.ok \in BOOLEAN /\ r.pos \in Pos(d) /\ r.count \in Nat
    BY DEF Got
  <1>2. Returned(p, d)
    BY <1>1, ParameterReads
  <1>3. Returned(x, d)
    <2> HIDE DEF p
    <2> QED BY <1>2, IntegerReads
  <1>4. ReadNext(d, r, mandatory) =
          IF r.ok THEN [ok |-> x.ok, pos |-> x.pos, error |-> x.error,
                        count |-> r.count + (IF p.ok THEN 1 ELSE 0)]
          ELSE r
    BY DEF ReadNext
  <1> HIDE DEF p, x
  <1> QED BY <1>1, <1>3, <1>4 DEF Got, Returned

(* How the parameters are read: from the first, each behind the one before. *)
LEMMA ReadsStep ==
  ASSUME NEW d \in Seq(Char), NEW pos \in Pos(d), NEW c, c.reads \in Nat, c.more \in Nat
  PROVE  \A k \in 0 .. c.reads + c.more :
           readOf(c, d, pos)[k] = IF k = 0 THEN [ok |-> TRUE, pos |-> pos, error |-> 0, count |-> 0]
                                  ELSE ReadNext(d, readOf(c, d, pos)[k - 1], k <= c.reads)
  <1> DEFINE n == c.reads + c.more
             S == Got(d)
             F == readOf(c, d, pos)
             next(k, v) == ReadNext(d, v, k <= c.reads)
             body(g, k) == IF k = 0 THEN [ok |-> TRUE, pos |-> pos, error |-> 0, count |-> 0] ELSE next(k, g[k - 1])
             step == [p \in (1 .. n) \X S |-> next(p[1], p[2])]
  <1>1. n \in Nat
    OBVIOUS
  <1>2. [ok |-> TRUE, pos |-> pos, error |-> 0, count |-> 0] \in S
    BY DEF Got
  <1>3. ASSUME NEW k \in 1 .. n, NEW v \in S
        PROVE  next(k, v) \in S
    BY ReadNextGot, Zenon
  <1>4. \A k \in 1 .. n, v \in S : step[<<k, v>>] = next(k, v)
    <2> HIDE DEF next, S, n
    <2> QED OBVIOUS
  <1>5. StepUp(step, n, S)
    <2> HIDE DEF step, next, S, n
    <2> QED BY <1>3, <1>4 DEF StepUp
  <1>6. PICK f \in [0 .. n -> S] : SolvesUp(f, step, n, [ok |-> TRUE, pos |-> pos, error |-> 0, count |-> 0])
    <2> HIDE DEF step, next, S, n
    <2> QED BY <1>1, <1>2, <1>5, RecursionUp
  <1>7. f = [k \in 0 .. n |-> body(f, k)]
    <2> HIDE DEF step, next, S, n
    <2>1. f = [k \in 0 .. n |-> IF k = 0 THEN [ok |-> TRUE, pos |-> pos, error |-> 0, count |-> 0] ELSE step[<<k, f[k - 1]>>]]
      BY <1>6 DEF SolvesUp
    <2>2. ASSUME NEW k \in 0 .. n PROVE f[k] = body(f, k)
      <3>1. f[k] = IF k = 0 THEN [ok |-> TRUE, pos |-> pos, error |-> 0, count |-> 0] ELSE step[<<k, f[k - 1]>>]
        BY <2>1, Zenon
      <3>2. CASE k = 0
        BY <3>1, <3>2
      <3>3. CASE k # 0
        <4>1. k \in 1 .. n /\ f[k - 1] \in S
          BY <1>1, <3>3
        <4> QED BY <1>4, <3>1, <3>3, <4>1
      <3> QED BY <3>2, <3>3
    <2> HIDE DEF body
    <2> QED BY <2>1, <2>2
  <1>8. F = [k \in 0 .. n |-> body(F, k)]
    BY <1>7 DEF readOf
  <1> HIDE DEF F
  <1>9. ASSUME NEW k \in 0 .. n
        PROVE  F[k] = body(F, k)
    <2> HIDE DEF body, n
    <2> QED BY <1>8
  <1> QED BY <1>9 DEF F

(* What a callback reads, it reads within its parameters. *)
LEMMA ReadsGot ==
  ASSUME NEW d \in Seq(Char), NEW pos \in Pos(d), NEW c, c.reads \in Nat, c.more \in Nat
  PROVE  \A k \in 0 .. c.reads + c.more : readOf(c, d, pos)[k] \in Got(d)
  <1> DEFINE n == c.reads + c.more
             F == readOf(c, d, pos)
             first == [ok |-> TRUE, pos |-> pos, error |-> 0, count |-> 0]
             T == {k \in 0 .. n : F[k] \in Got(d)}
  <1>1. n \in Nat /\ first \in Got(d)
    BY DEF Got
  <1>2. \A k \in 0 .. n : F[k] = IF k = 0 THEN first ELSE ReadNext(d, F[k - 1], k <= c.reads)
    BY ReadsStep
  <1> HIDE DEF F, n, first
  <1>3. 0 \in T
    BY <1>1, <1>2
  <1>4. ASSUME NEW k \in 1 .. n, k - 1 \in T PROVE k \in T
    <2>1. F[k] = ReadNext(d, F[k - 1], k <= c.reads) /\ F[k - 1] \in Got(d)
      BY <1>1, <1>2, <1>4
    <2>2. F[k] \in Got(d)
      <3>1. F[k - 1] \in Got(d)
        BY <2>1
      <3> DEFINE v == F[k - 1]
                 mandatory == k <= c.reads
      <3> HIDE DEF v
      <3>2. ReadNext(d, v, mandatory) \in Got(d)
        BY <3>1, ReadNextGot, Zenon DEF v
      <3> QED BY <2>1, <3>2 DEF v
    <2> QED BY <1>1, <2>2
  <1>5. 0 .. n \subseteq T
    <2> HIDE DEF T
    <2> QED BY <1>1, <1>3, <1>4, Induction
  <1> QED BY <1>5 DEF F, n

(* and so does the whole callback, whatever it reads. *)
LEMMA CallbackGot ==
  ASSUME NEW d \in Seq(Char), NEW pos \in Pos(d), NEW c, c.reads \in Nat, c.more \in Nat
  PROVE  Callback(c, d, pos) \in Got(d)
  <1> DEFINE all == readOf(c, d, pos)[c.reads + c.more]
             some == readOf(c, d, pos)[c.reads]
  <1>1. all \in Got(d) /\ some \in Got(d)
    BY ReadsGot
  <1>2. Callback(c, d, pos) = [all EXCEPT !.ok = some.ok]
    BY DEF Callback
  <1> HIDE DEF all, some
  <1> QED BY <1>1, <1>2 DEF Got

-----------------------------------------------------------------------------
(* Writing results *)

(* What is written to the host *)
Writes == [what : {"res", ",", "block", "data", ";", "nl"}, n : Nat]

(* What a command has written so far: of a block, no more than announced *)
Writing == [text : Seq(Writes), count : Nat, reminding : Nat, errors : Seq(Int)]

(* A sequence of one element *)
LEMMA Singleton ==
  ASSUME NEW S, NEW x \in S
  PROVE  <<x>> \in Seq(S) /\ Len(<<x>>) = 1
  OBVIOUS

(* A piece of output is a sequence of writes. *)
LEMMA WrittenText ==
  ASSUME NEW n \in Nat, NEW text \in Seq(Writes), NEW what \in {"res", ",", "block", "data", ";", "nl"}
  PROVE  text \o Written(what, n) \in Seq(Writes)
  <1>1. [what |-> what, n |-> n] \in Writes
    BY DEF Writes
  <1>2. <<[what |-> what, n |-> n]>> \in Seq(Writes)
    BY <1>1, Singleton
  <1>3. Written(what, n) \in Seq(Writes)
    BY <1>2 DEF Written
  <1> QED BY <1>3, ConcatProperties

(* SCPI_ResultArbitraryBlockData never writes more than was announced. *)
LEMMA BlockDataWriting ==
  ASSUME NEW w \in Writing, NEW n \in Nat
  PROVE  BlockData(w, n) \in Writing
  <1>0. /\ w.text \in Seq(Writes) /\ w.count \in Nat /\ w.reminding \in Nat /\ w.errors \in Seq(Int)
        /\ w = [text |-> w.text, count |-> w.count, reminding |-> w.reminding, errors |-> w.errors]
    BY DEF Writing
  <1>1. CASE Accepts(w, n)
    <2> DEFINE text == w.text \o Written("data", n)
               count == IF w.reminding = n THEN w.count + 1 ELSE w.count
    <2>1. text \in Seq(Writes)
      BY <1>0, WrittenText
    <2>2. w.reminding - n \in Nat
      BY <1>0, <1>1 DEF Accepts
    <2>3. BlockData(w, n) = [text |-> text, count |-> count, reminding |-> w.reminding - n, errors |-> w.errors]
      BY <1>0, <1>1 DEF BlockData
    <2>4. count \in Nat
      BY <1>0
    <2> HIDE DEF text, count
    <2> QED BY <1>0, <2>1, <2>2, <2>3, <2>4 DEF Writing
  <1>2. CASE ~ Accepts(w, n)
    <2>1. BlockData(w, n) = [text |-> w.text, count |-> w.count, reminding |-> w.reminding,
                             errors |-> Append(w.errors, SYSTEM_ERROR)]
      BY <1>0, <1>2 DEF BlockData
    <2>2. Append(w.errors, SYSTEM_ERROR) \in Seq(Int)
      BY <1>0 DEF SYSTEM_ERROR
    <2> QED BY <1>0, <2>1, <2>2 DEF Writing
  <1> QED BY <1>1, <1>2

(* SCPI_ResultArbitraryBlockHeader announces a number of bytes. *)
LEMMA BlockHeaderWriting ==
  ASSUME NEW w \in Writing, NEW n \in Nat
  PROVE  BlockHeader(w, n) \in Writing
  <1> DEFINE text == w.text \o Written("block", n)
  <1>0. /\ w.text \in Seq(Writes) /\ w.count \in Nat /\ w.reminding \in Nat /\ w.errors \in Seq(Int)
        /\ w = [text |-> w.text, count |-> w.count, reminding |-> w.reminding, errors |-> w.errors]
    BY DEF Writing
  <1>1. text \in Seq(Writes)
    BY <1>0, WrittenText
  <1>2. BlockHeader(w, n) = [text |-> text, count |-> w.count, reminding |-> n, errors |-> w.errors]
    <2>1. BlockHeader(w, n) = [w EXCEPT !.text = text, !.reminding = n]
      BY DEF BlockHeader
    <2> HIDE DEF text
    <2> QED BY <1>0, <2>1
  <1> HIDE DEF text
  <1> QED BY <1>0, <1>1, <1>2 DEF Writing

(* The parts of a block, one after the other *)
LEMMA GivenStep ==
  ASSUME NEW w \in Writing, NEW item \in Seq(Nat), item # <<>>
  PROVE  \A k \in 0 .. Len(item) - 1 :
           givenOf(w, item)[k] = IF k = 0 THEN BlockHeader(w, item[1])
                                 ELSE BlockData(givenOf(w, item)[k - 1], item[k + 1])
  <1> DEFINE n == Len(item) - 1
             S == Writing
             F == givenOf(w, item)
             next(k, v) == BlockData(v, item[k + 1])
             body(g, k) == IF k = 0 THEN BlockHeader(w, item[1]) ELSE next(k, g[k - 1])
             step == [p \in (1 .. n) \X S |-> next(p[1], p[2])]
  <1>1. n \in Nat
    OBVIOUS
  <1>2. BlockHeader(w, item[1]) \in S
    <2>1. item[1] \in Nat
      BY <1>1
    <2> QED BY <2>1, BlockHeaderWriting
  <1>3. ASSUME NEW k \in 1 .. n, NEW v \in S
        PROVE  next(k, v) \in S
    <2>1. item[k + 1] \in Nat
      BY <1>3
    <2> QED BY <2>1, BlockDataWriting
  <1>4. \A k \in 1 .. n, v \in S : step[<<k, v>>] = next(k, v)
    <2> HIDE DEF next, S, n
    <2> QED OBVIOUS
  <1>5. StepUp(step, n, S)
    <2> HIDE DEF step, next, S, n
    <2> QED BY <1>3, <1>4 DEF StepUp
  <1>6. PICK f \in [0 .. n -> S] : SolvesUp(f, step, n, BlockHeader(w, item[1]))
    <2> HIDE DEF step, next, S, n
    <2> QED BY <1>1, <1>2, <1>5, RecursionUp
  <1>7. f = [k \in 0 .. n |-> body(f, k)]
    <2> HIDE DEF step, next, S, n
    <2>1. f = [k \in 0 .. n |-> IF k = 0 THEN BlockHeader(w, item[1]) ELSE step[<<k, f[k - 1]>>]]
      BY <1>6 DEF SolvesUp
    <2>2. ASSUME NEW k \in 0 .. n PROVE f[k] = body(f, k)
      <3>1. f[k] = IF k = 0 THEN BlockHeader(w, item[1]) ELSE step[<<k, f[k - 1]>>]
        BY <2>1, Zenon
      <3>2. CASE k = 0
        BY <3>1, <3>2
      <3>3. CASE k # 0
        <4>1. k \in 1 .. n /\ f[k - 1] \in S
          BY <1>1, <3>3
        <4> QED BY <1>4, <3>1, <3>3, <4>1
      <3> QED BY <3>2, <3>3
    <2> HIDE DEF body
    <2> QED BY <2>1, <2>2
  <1>8. F = [k \in 0 .. n |-> body(F, k)]
    BY <1>7 DEF givenOf
  <1> HIDE DEF F
  <1>9. ASSUME NEW k \in 0 .. n
        PROVE  F[k] = body(F, k)
    <2> HIDE DEF body, n
    <2> QED BY <1>8
  <1> QED BY <1>9 DEF F

(* Every part leaves an answer that is written so far. *)
LEMMA GivenWriting ==
  ASSUME NEW w \in Writing, NEW item \in Seq(Nat), item # <<>>
  PROVE  \A k \in 0 .. Len(item) - 1 : givenOf(w, item)[k] \in Writing
  <1> DEFINE n == Len(item) - 1
             F == givenOf(w, item)
             T == {k \in 0 .. n : F[k] \in Writing}
  <1>1. /\ n \in Nat
        /\ \A k \in 0 .. n : F[k] = IF k = 0 THEN BlockHeader(w, item[1]) ELSE BlockData(F[k - 1], item[k + 1])
    BY GivenStep
  <1>2. \A k \in 0 .. n : item[k + 1] \in Nat
    OBVIOUS
  <1> HIDE DEF F, n
  <1>3. 0 \in T
    <2>1. 0 \in 0 .. n /\ item[1] \in Nat
      BY <1>1, <1>2
    <2> QED BY <1>1, <2>1, BlockHeaderWriting
  <1>4. ASSUME NEW k \in 1 .. n, k - 1 \in T PROVE k \in T
    <2>1. F[k] = BlockData(F[k - 1], item[k + 1]) /\ F[k - 1] \in Writing /\ item[k + 1] \in Nat
      BY <1>1, <1>2, <1>4
    <2> QED BY <2>1, BlockDataWriting
  <1>5. 0 .. n \subseteq T
    <2> HIDE DEF T
    <2> QED BY <1>1, <1>3, <1>4, Induction
  <1> QED BY <1>5 DEF F, n

(* One result, text or block, however its bytes are cut into calls *)
LEMMA ResultWriting ==
  ASSUME NEW w \in Writing, NEW item \in Seq(Nat)
  PROVE  WriteResult(w, item) \in Writing
  <1> DEFINE delimited == w.text \o writeDelimiter(w.count)
             text == delimited \o Written("res", 0)
  <1>0. /\ w.text \in Seq(Writes) /\ w.count \in Nat /\ w.reminding \in Nat /\ w.errors \in Seq(Int)
        /\ w = [text |-> w.text, count |-> w.count, reminding |-> w.reminding, errors |-> w.errors]
    BY DEF Writing
  <1>1. CASE item = Value
    <2>1. delimited \in Seq(Writes)
      <3>1. CASE w.count > 0
        <4>1. delimited = w.text \o Written(",", 0)
          BY <3>1 DEF writeDelimiter
        <4> QED BY <1>0, <4>1, WrittenText
      <3>2. CASE ~ (w.count > 0)
        <4>1. delimited = w.text \o <<>>
          BY <3>2 DEF writeDelimiter
        <4> QED BY <1>0, <4>1, ConcatEmptySeq
      <3> QED BY <3>1, <3>2
    <2>2. text \in Seq(Writes)
      <3> HIDE DEF delimited
      <3> QED BY <2>1, WrittenText
    <2>3. WriteResult(w, item) = [text |-> text, count |-> w.count + 1,
                                  reminding |-> w.reminding, errors |-> w.errors]
      BY <1>0, <1>1 DEF WriteResult
    <2> HIDE DEF text
    <2> QED BY <1>0, <2>2, <2>3 DEF Writing
  <1>2. CASE item # Value
    <2>1. Len(item) - 1 \in 0 .. Len(item) - 1
      BY <1>2 DEF Value
    <2>2. givenOf(w, item)[Len(item) - 1] \in Writing
      BY <1>2, <2>1, GivenWriting DEF Value
    <2> QED BY <1>2, <2>2 DEF WriteResult
  <1> QED BY <1>1, <1>2

(* Each result is written behind those before it. *)
LEMMA WrittenStep ==
  ASSUME NEW results \in Seq(Seq(Nat))
  PROVE  \A k \in 0 .. Len(results) :
           writtenOf(results)[k] = IF k = 0 THEN NoResult
                                   ELSE WriteResult(writtenOf(results)[k - 1], results[k])
  <1> DEFINE n == Len(results)
             S == Writing
             F == writtenOf(results)
             next(k, v) == WriteResult(v, results[k])
             body(g, k) == IF k = 0 THEN NoResult ELSE next(k, g[k - 1])
             step == [p \in (1 .. n) \X S |-> next(p[1], p[2])]
  <1>1. n \in Nat
    OBVIOUS
  <1>2. NoResult \in S
    <2>1. <<>> \in Seq(Writes) /\ <<>> \in Seq(Int)
      OBVIOUS
    <2> QED BY <2>1 DEF NoResult, Writing
  <1>3. ASSUME NEW k \in 1 .. n, NEW v \in S
        PROVE  next(k, v) \in S
    <2>1. results[k] \in Seq(Nat)
      BY <1>3
    <2> QED BY <2>1, ResultWriting
  <1>4. \A k \in 1 .. n, v \in S : step[<<k, v>>] = next(k, v)
    <2> HIDE DEF next, S, n
    <2> QED OBVIOUS
  <1>5. StepUp(step, n, S)
    <2> HIDE DEF step, next, S, n
    <2> QED BY <1>3, <1>4 DEF StepUp
  <1>6. PICK f \in [0 .. n -> S] : SolvesUp(f, step, n, NoResult)
    <2> HIDE DEF step, next, S, n
    <2> QED BY <1>1, <1>2, <1>5, RecursionUp
  <1>7. f = [k \in 0 .. n |-> body(f, k)]
    <2> HIDE DEF step, next, S, n
    <2>1. f = [k \in 0 .. n |-> IF k = 0 THEN NoResult ELSE step[<<k, f[k - 1]>>]]
      BY <1>6 DEF SolvesUp
    <2>2. ASSUME NEW k \in 0 .. n PROVE f[k] = body(f, k)
      <3>1. f[k] = IF k = 0 THEN NoResult ELSE step[<<k, f[k - 1]>>]
        BY <2>1, Zenon
      <3>2. CASE k = 0
        BY <3>1, <3>2
      <3>3. CASE k # 0
        <4>1. k \in 1 .. n /\ f[k - 1] \in S
          BY <1>1, <3>3
        <4> QED BY <1>4, <3>1, <3>3, <4>1
      <3> QED BY <3>2, <3>3
    <2> HIDE DEF body
    <2> QED BY <2>1, <2>2
  <1>8. F = [k \in 0 .. n |-> body(F, k)]
    BY <1>7 DEF writtenOf
  <1> HIDE DEF F
  <1>9. ASSUME NEW k \in 0 .. n
        PROVE  F[k] = body(F, k)
    <2> HIDE DEF body, n
    <2> QED BY <1>8
  <1> QED BY <1>9 DEF F

(* What they write is an answer. *)
LEMMA WrittenWriting ==
  ASSUME NEW results \in Seq(Seq(Nat))
  PROVE  \A k \in 0 .. Len(results) : writtenOf(results)[k] \in Writing
  <1> DEFINE n == Len(results)
             F == writtenOf(results)
             T == {k \in 0 .. n : F[k] \in Writing}
  <1>1. n \in Nat /\ NoResult \in Writing
    <2>1. <<>> \in Seq(Writes) /\ <<>> \in Seq(Int)
      OBVIOUS
    <2> QED BY <2>1 DEF NoResult, Writing
  <1>2. \A k \in 0 .. n : F[k] = IF k = 0 THEN NoResult ELSE WriteResult(F[k - 1], results[k])
    BY WrittenStep
  <1>3. \A k \in 1 .. n : results[k] \in Seq(Nat)
    OBVIOUS
  <1> HIDE DEF F, n
  <1>4. 0 \in T
    BY <1>1, <1>2
  <1>5. ASSUME NEW k \in 1 .. n, k - 1 \in T PROVE k \in T
    <2>1. F[k] = WriteResult(F[k - 1], results[k]) /\ F[k - 1] \in Writing /\ results[k] \in Seq(Nat)
      BY <1>1, <1>2, <1>3, <1>5
    <2>2. F[k] \in Writing
      BY <2>1, ResultWriting
    <2> QED BY <1>1, <2>2
  <1>6. 0 .. n \subseteq T
    <2> HIDE DEF T
    <2> QED BY <1>1, <1>4, <1>5, Induction
  <1> QED BY <1>6 DEF F, n

(* All results of a callback *)
LEMMA ResultsWriting ==
  ASSUME NEW results \in Seq(Seq(Nat))
  PROVE  Results(results) \in Writing
  <1>1. Len(results) \in 0 .. Len(results)
    OBVIOUS
  <1> QED BY <1>1, WrittenWriting DEF Results

-----------------------------------------------------------------------------
(* Headers *)

(* A header that ends before i, or none at all *)
Earlier(h, i) == /\ h.first \in Nat /\ h.len \in Nat /\ h.first + h.len <= i
                 /\ h.len > 0 => h.first > 0

(* What composeCompoundCommand writes in front of a relative header is taken
   from the line and stays in it, at positions that were executed before. *)
LEMMA ComposedWithin ==
  ASSUME NEW s \in Seq(Char), NEW i \in Pos(s), NEW prev, Earlier(prev, i),
         NEW current, Within(current, s, i), current.len > 0
  PROVE  LET c == composeCompoundCommand(s, prev, current)
         IN  /\ c.line \in Seq(Char) /\ Len(c.line) = Len(s)
             /\ c.header.len > 0 /\ Earlier(c.header, current.first + current.len)
  <1> DEFINE colons == {k \in 1 .. prev.len : s[prev.first + k - 1] = ":"}
             n == IF colons = {} THEN 0 ELSE Max(colons)
             first == current.first - n
             alone == \/ prev.len = 0
                      \/ s[current.first] \in {"*", ":"}
                      \/ s[prev.first] = "*"
             line == [j \in 1 .. Len(s) |-> IF j \in first .. current.first - 1
                                            THEN s[prev.first + (j - first)] ELSE s[j]]
             header == [current EXCEPT !.first = first, !.len = @ + n]
             c == composeCompoundCommand(s, prev, current)
  <1>1. /\ i \in Nat /\ i > 0 /\ Len(s) \in Nat /\ i <= Len(s) + 1
        /\ current.first \in Nat /\ current.first >= i /\ current.len \in Nat
        /\ current.next \in Nat /\ current.next <= Len(s) + 1 /\ current.first + current.len <= current.next
        /\ current = Token(current.type, current.first, current.len, current.ret, current.next)
    BY DEF Pos, Within
  <1>2. prev.first \in Nat /\ prev.len \in Nat /\ prev.first + prev.len <= i /\ (prev.len > 0 => prev.first > 0)
    BY DEF Earlier
  <1>3. n \in 0 .. prev.len
    <2>1. CASE colons = {}
      BY <1>2, <2>1
    <2>2. CASE colons # {}
      <3>1. colons \in SUBSET (0 .. prev.len) /\ \A k \in colons : k \in 1 .. prev.len
        BY <1>2
      <3> HIDE DEF colons
      <3>2. Max(colons) \in colons
        BY <1>2, <2>2, <3>1, MaxGreatest
      <3> QED BY <2>2, <3>1, <3>2
    <2> QED BY <2>1, <2>2
  <1>4. c = IF alone \/ n = 0 THEN [line |-> s, header |-> current] ELSE [line |-> line, header |-> header]
    BY DEF composeCompoundCommand
  <1> HIDE DEF n, c, alone
  <1>5. CASE alone \/ n = 0
    <2>1. c.line = s /\ c.header = current
      BY <1>4, <1>5
    <2>2. Earlier(current, current.first + current.len)
      BY <1>1 DEF Earlier
    <2> QED BY <2>1, <2>2 DEF c
  <1>6. CASE ~ (alone \/ n = 0)
    <2>1. c.line = line /\ c.header = header
      BY <1>4, <1>6
    <2>2. /\ n \in Nat /\ first \in Nat /\ first > 0 /\ first = current.first - n
      BY <1>1, <1>2, <1>3, <1>6, SMTT(30)
    <2>3. header.first = first /\ header.len = current.len + n
      BY <1>1 DEF Token
    <2> HIDE DEF header, first
    <2>4. ASSUME NEW j \in 1 .. Len(s) PROVE line[j] \in Char
      <3>1. CASE j \in first .. current.first - 1
        <4>1. j - first \in 0 .. n - 1
          BY <1>1, <2>2, <3>1
        <4>2. prev.len > 0 /\ prev.first > 0 /\ n <= prev.len
          BY <1>2, <1>3, <1>6
        <4>3. ASSUME NEW k \in 0 .. n - 1
              PROVE  prev.first + k \in 1 .. Len(s)
          BY <1>1, <1>2, <2>2, <4>2, SMTT(30)
        <4>4. prev.first + (j - first) \in 1 .. Len(s)
          BY <4>1, <4>3
        <4>5. line[j] = s[prev.first + (j - first)]
          BY <3>1
        <4> QED BY <4>4, <4>5
      <3>2. CASE j \notin first .. current.first - 1
        BY <3>2
      <3> QED BY <3>1, <3>2
    <2>5. line \in [1 .. Len(s) -> Char]
      BY <2>4
    <2> HIDE DEF line
    <2>6. line \in Seq(Char) /\ Len(line) = Len(s)
      BY <1>1, <2>5
    <2>7. header.len > 0 /\ Earlier(header, current.first + current.len)
      BY <1>1, <2>2, <2>3, SMTT(30) DEF Earlier
    <2> QED BY <2>1, <2>6, <2>7 DEF c
  <1> QED BY <1>5, <1>6

(* The part of the buffer that is the line *)
LEMMA LineOf ==
  ASSUME NEW s \in Seq(Char), NEW n \in 0 .. Len(s)
  PROVE  SubSeq(s, 1, n) \in Seq(Char) /\ Len(SubSeq(s, 1, n)) = n
  <1>1. \A i \in 1 .. n : s[i] \in Char
    OBVIOUS
  <1> QED BY <1>1, SubSeqProperties

(* What follows the line *)
LEMMA RestOf ==
  ASSUME NEW s \in Seq(Char), NEW n \in 0 .. Len(s)
  PROVE  SubSeq(s, n + 1, Len(s)) \in Seq(Char) /\ Len(SubSeq(s, n + 1, Len(s))) = Len(s) - n
  <1>1. \A i \in n + 1 .. Len(s) : s[i] \in Char
    OBVIOUS
  <1> QED BY <1>1, SubSeqProperties

(* The command that a header finds is one of the table. *)
LEMMA CommandMatched ==
  ASSUME NEW header, Matching(header) # {}
  PROVE  Min(Matching(header)) \in DOMAIN Commands
  <1>1. DOMAIN Commands = 1 .. Len(Commands) /\ Len(Commands) \in Nat
    BY CommandsAssumption
  <1>2. Matching(header) \in SUBSET Nat /\ Matching(header) \subseteq DOMAIN Commands
    BY <1>1 DEF Matching
  <1> HIDE DEF Matching
  <1> QED BY <1>2, MinLeast

(* What that command has *)
LEMMA CommandFound ==
  ASSUME NEW header, Matching(header) # {}
  PROVE  LET c == Commands[Min(Matching(header))]
         IN  /\ c.reads \in Nat /\ c.more \in Nat /\ c.writes \in Seq(Seq(Nat))
             /\ c.res \in {"OK", "ERR"}
  <1>2. Min(Matching(header)) \in DOMAIN Commands
    BY CommandMatched
  <1> DEFINE c == Commands[Min(Matching(header))]
  <1>3. c \in [names : SUBSET Seq(Char), reads : Nat, more : Nat, writes : Seq(Seq(Nat)), res : {"OK", "ERR"}]
    <2> DEFINE m == Min(Matching(header))
               R == [names : SUBSET Seq(Char), reads : Nat, more : Nat,
                     writes : Seq(Seq(Nat)), res : {"OK", "ERR"}]
    <2>1. Commands \in Seq(R)
      BY CommandsAssumption
    <2> HIDE DEF R
    <2>2. m \in DOMAIN Commands
      BY <1>2
    <2> HIDE DEF m
    <2>3. Commands[m] \in R
      BY <2>1, <2>2
    <2> QED BY <2>3 DEF R, m
  <1> HIDE DEF c
  <1>4. c.reads \in Nat /\ c.more \in Nat /\ c.writes \in Seq(Seq(Nat)) /\ c.res \in {"OK", "ERR"}
    BY <1>3
  <1> QED BY <1>4 DEF c

-----------------------------------------------------------------------------
(* The invariant *)

(* What a unit leaves for the one after it, and for the caller: an error for
   each callback that failed, and a result that tells whether there was an
   error in the line. *)
Reports ==
  /\ output_count \in Nat /\ cmd_error \in BOOLEAN /\ result \in BOOLEAN
  /\ errors \in Seq(Int)
  /\ pc = "parse" => (result <=> errors = <<>>)
  /\ unit.failed => unit.errors > 0

(* processCommand: a failing callback, unread parameters and missing block
   data each push an error, and the unit has failed then. *)
LEMMA FinishReports ==
  ASSUME Reports, pc = "parse", pc' = pc, NEW c, NEW d, NEW r \in Got(d), NEW w \in Writing,
         NEW count, Finish(c, d, r, w, count)
  PROVE  Reports'
  <1> DEFINE read == IF r.error # 0 THEN <<r.error>> ELSE <<>>
             own == read \o w.errors
             failed == ~ r.ok \/ c.res = "ERR"
             quiet == own = <<>> /\ ~ ErrorAtStart
             unread == Unread(d, r.pos)
             codes == CASE failed /\ quiet -> <<EXECUTION_ERROR>>
                        [] ~ failed /\ quiet /\ unread -> <<PARAMETER_NOT_ALLOWED>>
                        [] OTHER -> own
  <1>1. /\ output_count' = w.count
        /\ errors' = errors \o codes
        /\ cmd_error' = (ErrorAtStart \/ codes # <<>>)
        /\ result' = (result /\ ~ failed /\ codes = <<>>)
        /\ unit' = [failed |-> failed, errors |-> Len(codes), unread |-> count - r.count]
    BY DEF Finish, Accumulate
  <1>2. w.count \in Nat /\ w.errors \in Seq(Int) /\ r.error \in Int
    BY DEF Got, Writing
  <1>3. own \in Seq(Int)
    <2>1. read \in Seq(Int)
      BY <1>2, Singleton, EmptySeq
    <2> HIDE DEF read
    <2> QED BY <1>2, <2>1, ConcatProperties
  <1>4. <<EXECUTION_ERROR>> \in Seq(Int) /\ <<PARAMETER_NOT_ALLOWED>> \in Seq(Int)
    BY Singleton DEF EXECUTION_ERROR, PARAMETER_NOT_ALLOWED
  <1>5. <<EXECUTION_ERROR>> # <<>> /\ <<PARAMETER_NOT_ALLOWED>> # <<>>
    OBVIOUS
  <1> HIDE DEF own, unread
  <1>6. codes \in Seq(Int) /\ (failed => codes # <<>>)
    <2>1. CASE failed /\ quiet
      <3>1. codes = <<EXECUTION_ERROR>>
        BY <2>1
      <3> QED BY <1>4, <1>5, <3>1
    <2>2. CASE ~ failed /\ quiet /\ unread
      <3>1. codes = <<PARAMETER_NOT_ALLOWED>>
        BY <2>2
      <3> QED BY <1>4, <2>2, <3>1
    <2>3. CASE ~ quiet \/ (~ failed /\ ~ unread)
      <3>1. codes = own
        BY <2>3
      <3> QED BY <1>3, <2>3, <3>1 DEF ErrorAtStart
    <2> QED BY <2>1, <2>2, <2>3
  <1> HIDE DEF codes, failed
  <1>7. errors \in Seq(Int) /\ (result <=> errors = <<>>) /\ result \in BOOLEAN
    BY DEF Reports
  <1>8. errors' \in Seq(Int) /\ (errors' = <<>> <=> errors = <<>> /\ codes = <<>>)
    BY <1>1, <1>6, <1>7, ConcatProperties, ConcatEqualIffEmpty
  <1>9. result' <=> errors' = <<>>
    BY <1>1, <1>6, <1>7, <1>8
  <1>10. failed => Len(codes) > 0
    BY <1>6
  <1>11. unit'.failed = failed /\ unit'.errors = Len(codes)
    BY <1>1
  <1>12. cmd_error' \in BOOLEAN /\ result' \in BOOLEAN
    BY <1>1
  <1> QED BY <1>1, <1>2, <1>8, <1>9, <1>10, <1>11, <1>12 DEF Reports

(* A unit without a command pushes the errors of findCommandHeader. *)
LEMMA NoCommandReports ==
  ASSUME Reports, pc = "parse", pc' = pc, NEW codes \in Seq(Int), NoCommand(codes)
  PROVE  Reports'
  <1>1. /\ errors' = errors \o codes
        /\ cmd_error' = (cmd_error \/ codes # <<>>)
        /\ result' = (result /\ codes = <<>>)
        /\ unit' = [failed |-> FALSE, errors |-> Len(codes), unread |-> 0]
        /\ output_count' = output_count
    BY DEF NoCommand, Accumulate
  <1>2. errors \in Seq(Int) /\ (result <=> errors = <<>>) /\ result \in BOOLEAN /\ cmd_error \in BOOLEAN
    BY DEF Reports
  <1>3. errors' \in Seq(Int) /\ (errors' = <<>> <=> errors = <<>> /\ codes = <<>>)
    BY <1>1, <1>2, ConcatProperties, ConcatEqualIffEmpty
  <1>4. result' <=> errors' = <<>>
    BY <1>1, <1>2, <1>3
  <1>5. cmd_error' \in BOOLEAN /\ result' \in BOOLEAN
    BY <1>1
  <1> QED BY <1>1, <1>3, <1>4, <1>5 DEF Reports

(* A command that was found, on parameters of the line *)
LEMMA CommandReports ==
  ASSUME Reports, pc = "parse", pc' = pc, NEW header, Matching(header) # {},
         NEW d \in Seq(Char), NEW first \in Pos(d), NEW count,
         processCommand(Commands[Min(Matching(header))], d, first, count)
  PROVE  Reports'
  <1> DEFINE c == Commands[Min(Matching(header))]
             r == Callback(c, d, first)
             writes == IF r.ok THEN c.writes ELSE <<>>
             w == Results(writes)
  <1>1. c.reads \in Nat /\ c.more \in Nat /\ c.writes \in Seq(Seq(Nat))
    BY CommandFound
  <1>2. r \in Got(d)
    <2> HIDE DEF c
    <2> QED BY <1>1, CallbackGot
  <1>3. w \in Writing
    <2>1. writes \in Seq(Seq(Nat))
      <3> HIDE DEF c, r
      <3> QED BY <1>1, EmptySeq
    <2> HIDE DEF writes
    <2> QED BY <2>1, ResultsWriting
  <1>4. Finish(c, d, r, w, count)
    BY DEF processCommand
  <1> HIDE DEF c, r, w
  <1> QED BY <1>2, <1>3, <1>4, FinishReports

(* The buffer and the positions in it *)
JobShape == job = [end |-> job.end, at |-> job.at, prev |-> job.prev, last |-> job.last]

Buffered ==
  /\ TypeOK
  /\ JobShape
  /\ Earlier(job.prev, job.at)
  /\ pc # "parse" => job = NoJob
  /\ pc = "idle" => totcmdlen = 0
  /\ pc = "scan" => totcmdlen < Len(buffer) \/ buffer = <<>>

InputInv == Buffered /\ Reports

(* One unit is executed or refused: the line keeps its length, the position
   moves on, and the header that the next unit may be relative to lies before
   it. *)
UnitDone ==
  /\ buffer' \in Seq(Char) /\ Len(buffer') = Len(buffer)
  /\ JobShape' /\ job'.end = job.end
  /\ job'.at \in job.at + 1 .. job.end + 1
  /\ Earlier(job'.prev, job'.at)
  /\ Reports'

(* A unit that is not executed leaves the parser behind it. *)
LEMMA SkipUnitDone ==
  ASSUME InputInv, pc = "parse", pc' = pc, NEW u, u.next \in job.at + 1 .. job.end + 1,
         NEW codes \in Seq(Int), SkipUnit(u, codes)
  PROVE  UnitDone
  <1>1. Reports'
    BY NoCommandReports DEF SkipUnit, InputInv
  <1>2. job' = [job EXCEPT !.at = u.next] /\ buffer' = buffer
    BY DEF SkipUnit
  <1>3. JobShape /\ Earlier(job.prev, job.at) /\ buffer \in Seq(Char) /\ job.at \in Nat /\ job.end \in Nat
    BY DEF InputInv, Buffered, TypeOK
  <1>4. JobShape' /\ job'.end = job.end /\ job'.at = u.next /\ job'.prev = job.prev
    BY <1>2, <1>3 DEF JobShape
  <1>5. Earlier(job'.prev, job'.at)
    BY <1>3, <1>4 DEF Earlier
  <1> QED BY <1>1, <1>2, <1>3, <1>4, <1>5 DEF UnitDone

(* A unit that is executed leaves the parser behind it, and the previous
   header is a header in the part of the line that was parsed. *)
LEMMA ExecuteUnitDone ==
  ASSUME InputInv, pc = "parse", pc' = pc, NEW u, u.next \in job.at + 1 .. job.end + 1,
         Within(u.header, SubSeq(buffer, 1, job.end), job.at), u.header.len > 0,
         u.header.next <= u.next,
         u.data.first \in u.header.next .. u.next, u.data.len \in Nat, u.data.first + u.data.len <= u.next,
         NEW h, h = composeCompoundCommand(SubSeq(buffer, 1, job.end), job.prev, u.header),
         NEW header, ExecuteUnit(u, h, Matching(header))
  PROVE  UnitDone
  <1> DEFINE s == SubSeq(buffer, 1, job.end)
             found == Matching(header)
             m == u.data.first + u.data.len - 1
             d == SubSeq(h.line, 1, m)
             rest == SubSeq(buffer, job.end + 1, Len(buffer))
             ends == u.header.first + u.header.len
  <1>1. /\ JobShape /\ Earlier(job.prev, job.at) /\ buffer \in Seq(Char)
        /\ job.end \in 0 .. Len(buffer) /\ job.at \in 1 .. job.end + 1 /\ Reports
    BY DEF InputInv, Buffered, TypeOK
  <1>2. s \in Seq(Char) /\ Len(s) = job.end
    BY <1>1, LineOf
  <1>3. rest \in Seq(Char) /\ Len(rest) = Len(buffer) - job.end
    BY <1>1, RestOf
  <1>4. job.at \in Pos(s)
    <2> HIDE DEF s
    <2> QED BY <1>1, <1>2 DEF Pos
  <1>5. h.line \in Seq(Char) /\ Len(h.line) = Len(s) /\ Earlier(h.header, ends)
    <2> HIDE DEF s
    <2>1. h = composeCompoundCommand(s, job.prev, u.header) /\ Within(u.header, s, job.at)
      BY DEF s
    <2> QED BY <1>1, <1>2, <1>4, <2>1, ComposedWithin
  <1>6. ends <= u.next /\ ends \in Nat /\ u.header.next \in Nat /\ u.header.next > 0
    <2> HIDE DEF s
    <2>1. Within(u.header, s, job.at)
      BY DEF s
    <2>2. /\ u.header.next \in job.at .. Len(s) + 1 /\ u.header.first \in job.at .. u.header.next
          /\ u.header.len \in Nat /\ ends <= u.header.next
      BY <2>1 DEF Within
    <2>3. job.at \in Nat /\ job.at > 0 /\ Len(s) \in Nat /\ u.next \in Nat /\ u.next <= Len(s) + 1
      BY <1>1, <1>2
    <2> HIDE DEF ends
    <2>4. u.header.next \in Nat /\ u.header.next > 0 /\ u.header.next <= u.next
      BY <2>2, <2>3
    <2>5. ends \in Nat
      BY <2>2, <2>3, SMTT(30) DEF ends
    <2> QED BY <2>2, <2>3, <2>4, <2>5
  <1>7. m \in 0 .. Len(h.line)
    <2> HIDE DEF s
    <2>1. u.next \in Nat /\ u.next <= Len(h.line) + 1 /\ Len(h.line) \in Nat
      BY <1>1, <1>2, <1>5
    <2>2. u.data.first \in Nat /\ u.data.first > 0
      BY <1>6, <2>1
    <2> QED BY <2>1, <2>2, SMTT(30)
  <1>8. d \in Seq(Char) /\ Len(d) = m
    <2> HIDE DEF m, s
    <2> QED BY <1>5, <1>7, LineOf
  <1>9. u.data.first \in Pos(d)
    <2> HIDE DEF d
    <2> QED BY <1>6, <1>8 DEF Pos
  <1> HIDE DEF s, d, rest, ends
  <1>10. /\ found = {} => NoCommand(<<UNDEFINED_HEADER>>)
         /\ found # {} => processCommand(Commands[Min(found)], d, u.data.first, u.count)
         /\ buffer' = h.line \o rest
         /\ job' = [job EXCEPT !.at = u.next, !.prev = IF found # {} THEN h.header ELSE job.prev]
    <2> HIDE DEF found
    <2> QED BY DEF ExecuteUnit, d, rest, found
  <1>11. Reports'
    <2>1. CASE found = {}
      <3>1. <<UNDEFINED_HEADER>> \in Seq(Int)
        BY Singleton DEF UNDEFINED_HEADER
      <3> QED BY <1>1, <1>10, <2>1, <3>1, NoCommandReports
    <2>2. CASE found # {}
      BY <1>1, <1>8, <1>9, <1>10, <2>2, CommandReports
    <2> QED BY <2>1, <2>2
  <1>12. buffer' \in Seq(Char) /\ Len(buffer') = Len(buffer)
    <2>1. buffer' \in Seq(Char) /\ Len(buffer') = Len(h.line) + Len(rest)
      <3>1. h.line \in Seq(Char) /\ rest \in Seq(Char) /\ buffer' = h.line \o rest
        BY <1>3, <1>5, <1>10
      <3> QED BY <3>1, ConcatProperties, Zenon
    <2>2. Len(h.line) = job.end /\ Len(rest) = Len(buffer) - job.end
      BY <1>2, <1>3, <1>5
    <2>3. job.end \in Nat /\ Len(buffer) \in Nat
      BY <1>1
    <2> QED BY <2>1, <2>2, <2>3
  <1> HIDE DEF found
  <1>13. JobShape' /\ job'.end = job.end /\ job'.at = u.next
         /\ job'.prev = IF found # {} THEN h.header ELSE job.prev
    BY <1>1, <1>10 DEF JobShape
  <1>14. Earlier(job'.prev, job'.at)
    <2>1. Earlier(h.header, u.next)
      <3>1. u.next \in Nat /\ ends <= u.next /\ ends \in Nat
        BY <1>1, <1>6
      <3> QED BY <1>5, <3>1 DEF Earlier
    <2>2. Earlier(job.prev, u.next)
      BY <1>1, SMTT(30) DEF Earlier
    <2> QED BY <1>13, <2>1, <2>2
  <1> QED BY <1>11, <1>12, <1>13, <1>14 DEF UnitDone

(* So every turn of the loop of SCPI_Parse takes at least a byte. *)
LEMMA ParseUnitDone ==
  ASSUME InputInv, ParseUnit
  PROVE  UnitDone /\ pc = "parse" /\ UNCHANGED <<pc, totcmdlen>> /\ job.at <= job.end
  <1> DEFINE s == SubSeq(buffer, 1, job.end)
             u == detectProgramMessageUnit(s, job.at)
             h == composeCompoundCommand(s, job.prev, u.header)
             empty == u.header.type # "INVALID" /\ u.header.len = 0
  <1>1. pc = "parse" /\ UNCHANGED <<pc, totcmdlen>> /\ job.at <= job.end /\ HandleUnit(s, u)
    BY DEF ParseUnit
  <1>2. job.end \in 0 .. Len(buffer) /\ job.at \in 1 .. job.end + 1 /\ buffer \in Seq(Char)
    BY DEF InputInv, Buffered, TypeOK
  <1>3. s \in Seq(Char) /\ Len(s) = job.end
    BY <1>2, LineOf
  <1>4. job.at \in Pos(s)
    <2> HIDE DEF s
    <2> QED BY <1>2, <1>3 DEF Pos
  <1>5. /\ u.next \in job.at + 1 .. job.end + 1
        /\ u.header.type # "INVALID" =>
             /\ Within(u.header, s, job.at) /\ u.header.next <= u.next
             /\ u.data.first \in u.header.next .. u.next /\ u.data.len \in Nat
             /\ u.data.first + u.data.len <= u.next
    <2> HIDE DEF s
    <2>1. /\ u.next \in job.at .. Len(s) + 1 /\ (job.at <= Len(s) => u.next > job.at)
          /\ u.header.type # "INVALID" =>
             /\ Within(u.header, s, job.at) /\ u.header.next <= u.next
             /\ u.data.first \in u.header.next .. u.next /\ u.data.len \in Nat
             /\ u.data.first + u.data.len <= u.next
      BY <1>3, <1>4, UnitAdvances
    <2> HIDE DEF u
    <2> QED BY <1>1, <1>2, <1>3, <2>1
  <1> HIDE DEF u
  <1>6. \/ u.header.type = "INVALID" /\ SkipUnit(u, <<INVALID_CHARACTER>>)
        \/ SkipUnit(u, <<>>)
        \/ u.header.type # "INVALID" /\ ~ empty /\ ExecuteUnit(u, h, Matching(Text(h.line, h.header)))
    <2> HIDE DEF s
    <2> QED BY <1>1 DEF HandleUnit
  <1>7. CASE u.header.type = "INVALID" /\ SkipUnit(u, <<INVALID_CHARACTER>>)
    <2>1. <<INVALID_CHARACTER>> \in Seq(Int)
      BY Singleton DEF INVALID_CHARACTER
    <2> QED BY <1>1, <1>5, <1>7, <2>1, SkipUnitDone
  <1>8. CASE SkipUnit(u, <<>>)
    <2>1. <<>> \in Seq(Int)
      BY EmptySeq
    <2> QED BY <1>1, <1>5, <1>8, <2>1, SkipUnitDone
  <1>9. CASE u.header.type # "INVALID" /\ ~ empty /\ ExecuteUnit(u, h, Matching(Text(h.line, h.header)))
    <2>1. u.header.len > 0
      <3> HIDE DEF s
      <3> QED BY <1>5, <1>9 DEF Within
    <2> DEFINE header == Text(h.line, h.header)
    <2>2. ExecuteUnit(u, h, Matching(header))
      BY <1>9
    <2>3. UnitDone
      <3> HIDE DEF header
      <3> QED BY <1>1, <1>5, <1>9, <2>1, <2>2, ExecuteUnitDone
    <2> QED BY <1>1, <2>3
  <1> QED BY <1>6, <1>7, <1>8, <1>9

(* A unit that the scan finds lies in the buffer, behind what was scanned. *)
LEMMA UnitScanned ==
  ASSUME InputInv, pc = "scan"
  PROVE  LET u == detectProgramMessageUnit(buffer, totcmdlen + 1)
         IN  /\ u.next - 1 \in totcmdlen .. Len(buffer)
             /\ u.termination # "NONE" \/ buffer # <<>> => u.next - 1 > totcmdlen
  <1> DEFINE u == detectProgramMessageUnit(buffer, totcmdlen + 1)
  <1>1. /\ buffer \in Seq(Char) /\ totcmdlen \in 0 .. Len(buffer) /\ Len(buffer) \in Nat
        /\ totcmdlen < Len(buffer) \/ buffer = <<>>
    BY DEF InputInv, Buffered, TypeOK
  <1>2. totcmdlen + 1 \in Pos(buffer)
    BY <1>1 DEF Pos
  <1>3. /\ u.next \in totcmdlen + 1 .. Len(buffer) + 1
        /\ totcmdlen + 1 <= Len(buffer) => u.next > totcmdlen + 1
        /\ u.termination # "NONE" => u.next > totcmdlen + 1
    BY <1>1, <1>2, UnitAdvances
  <1> HIDE DEF u
  <1>4. /\ u.next - 1 \in totcmdlen .. Len(buffer)
        /\ u.termination # "NONE" \/ buffer # <<>> => u.next - 1 > totcmdlen
    BY <1>1, <1>3
  <1> QED BY <1>4 DEF u

(* SCPI_Parse begins without a previous header. *)
LEMMA NewJob ==
  ASSUME NEW end \in Nat, NEW last
  PROVE  LET j == [end |-> end, at |-> 1, prev |-> NoToken, last |-> last]
         IN  /\ j = [end |-> j.end, at |-> j.at, prev |-> j.prev, last |-> j.last]
             /\ Earlier(j.prev, j.at)
  BY DEF Earlier, NoToken

(* An empty buffer between two calls *)
LEMMA Emptied ==
  /\ <<>> \in Seq(Char) /\ Len(<<>>) = 0 /\ 0 < BufferLength
  /\ NoJob.end = 0 /\ NoJob.at = 1 /\ NoJob.prev.first = 0 /\ NoJob.prev.len = 0
  <1>1. <<>> \in Seq(Char) /\ Len(<<>>) = 0
    BY EmptySeq
  <1>2. 0 < BufferLength
    BY BoundAssumption
  <1> QED BY <1>1, <1>2 DEF NoJob, NoToken

(* The inductive invariant holds before the first call, *)
LEMMA InputInvInit ==
  ASSUME Init
  PROVE  InputInv
  <1>1. TypeOK
    <2>1. buffer \in Seq(Char) /\ Len(buffer) = 0 /\ Len(buffer) < BufferLength
      BY Emptied DEF Init
    <2>2. job.end = 0 /\ job.at = 1 /\ job.prev.first = 0 /\ job.prev.len = 0
      BY Emptied DEF Init
    <2>3. /\ pc \in {"idle", "scan", "parse"} /\ totcmdlen = 0 /\ output_count = 0
          /\ cmd_error \in BOOLEAN /\ result \in BOOLEAN
      BY DEF Init
    <2> QED BY <2>1, <2>2, <2>3 DEF TypeOK
  <1>2. JobShape /\ Earlier(job.prev, job.at)
    BY NewJob DEF Init, NoJob, JobShape
  <1>3. Reports
    BY EmptySeq DEF Init, Reports, NoUnit
  <1> QED BY <1>1, <1>2, <1>3 DEF Init, InputInv, Buffered

(* it holds when SCPI_Input hands a line to SCPI_Parse, *)
LEMMA StartParseInv ==
  ASSUME NEW end \in 0 .. Len(buffer), NEW last, StartParse(end, last),
         buffer' = buffer, buffer \in Seq(Char), Len(buffer) < BufferLength,
         totcmdlen' \in 0 .. Len(buffer), cmd_error' \in BOOLEAN
  PROVE  InputInv'
  <1>1. /\ pc' = "parse" /\ output_count' = 0 /\ errors' = <<>> /\ result' = TRUE /\ unit' = NoUnit
        /\ job' = [end |-> end, at |-> 1, prev |-> NoToken, last |-> last]
    BY DEF StartParse
  <1>2. JobShape' /\ Earlier(job'.prev, job'.at) /\ job'.end = end /\ job'.at = 1
    BY <1>1, NewJob DEF JobShape
  <1>3. TypeOK'
    BY <1>1, <1>2 DEF TypeOK, Earlier
  <1>4. Reports'
    BY <1>1, EmptySeq DEF Reports, NoUnit
  <1> QED BY <1>1, <1>2, <1>3, <1>4 DEF InputInv, Buffered

(* and every other step keeps it. *)
LEMMA InputInvNext ==
  ASSUME InputInv, [Next]_vars
  PROVE  InputInv'
  <1>0. /\ TypeOK /\ JobShape /\ Earlier(job.prev, job.at) /\ Reports
        /\ pc # "parse" => job = NoJob
        /\ pc = "idle" => totcmdlen = 0
        /\ pc = "scan" => totcmdlen < Len(buffer) \/ buffer = <<>>
    BY DEF InputInv, Buffered
  <1>1. ASSUME NEW data \in Chunks, Input(data)
        PROVE  InputInv'
    <2>1. data \in Seq(Char) /\ data # <<>> /\ buffer \in Seq(Char)
      BY <1>0, ChunksAssumption DEF TypeOK
    <2>2. buffer' \in Seq(Char) /\ Len(buffer') = Len(buffer) + Len(data)
      BY <1>1, <2>1, ConcatProperties DEF Input
    <2>3. Len(data) \in Nat /\ Len(data) > 0 /\ Len(buffer) \in Nat
      BY <2>1
    <2>4. Len(buffer') < BufferLength
      BY <1>1, <2>2, <2>3, BoundAssumption DEF Input, Overrun
    <2>5. /\ pc' = "scan" /\ totcmdlen' = 0 /\ job' = job /\ job = NoJob
          /\ result' = TRUE /\ errors' = <<>> /\ unit' = NoUnit
          /\ output_count' = output_count /\ cmd_error' = cmd_error
      BY <1>0, <1>1 DEF Input, ScanFrom
    <2>6. TypeOK'
      BY <1>0, <2>2, <2>3, <2>4, <2>5 DEF TypeOK, NoJob, NoToken
    <2>7. Reports'
      BY <1>0, <2>5, EmptySeq DEF Reports, NoUnit
    <2>8. JobShape' /\ Earlier(job'.prev, job'.at)
      BY <1>0, <2>5 DEF JobShape
    <2> QED BY <2>2, <2>3, <2>5, <2>6, <2>7, <2>8 DEF InputInv, Buffered
  <1>2. ASSUME NEW data \in Chunks, InputOverrun(data)
        PROVE  InputInv'
    <2>1. /\ pc' = "idle" /\ buffer' = <<>> /\ totcmdlen' = 0 /\ job' = job /\ job = NoJob
          /\ errors' = <<INPUT_BUFFER_OVERRUN>> /\ cmd_error' = TRUE /\ result' = FALSE
          /\ unit' = NoUnit /\ output_count' = output_count
      BY <1>0, <1>2 DEF InputOverrun
    <2>2. errors' \in Seq(Int)
      BY <2>1, Singleton DEF INPUT_BUFFER_OVERRUN
    <2>3. TypeOK'
      <3>1. buffer' \in Seq(Char) /\ Len(buffer') = 0 /\ Len(buffer') < BufferLength
        BY <2>1, Emptied
      <3>2. job'.end = 0 /\ job'.at = 1 /\ job'.prev.first = 0 /\ job'.prev.len = 0
        BY <2>1, Emptied
      <3>3. output_count \in Nat /\ cmd_error' \in BOOLEAN /\ result' \in BOOLEAN
        BY <1>0, <2>1 DEF TypeOK
      <3> QED BY <2>1, <3>1, <3>2, <3>3 DEF TypeOK
    <2>4. Reports'
      BY <1>0, <2>1, <2>2 DEF Reports, NoUnit
    <2>5. JobShape' /\ Earlier(job'.prev, job'.at)
      BY <1>0, <2>1 DEF JobShape
    <2> QED BY <2>1, <2>3, <2>4, <2>5 DEF InputInv, Buffered
  <1>3. CASE InputEnd
    <2>1. buffer \in Seq(Char) /\ Len(buffer) < BufferLength /\ Len(buffer) \in 0 .. Len(buffer)
          /\ totcmdlen' \in 0 .. Len(buffer) /\ cmd_error' \in BOOLEAN /\ buffer' = buffer
      BY <1>0, <1>3 DEF InputEnd, TypeOK
    <2> QED BY <1>3, <2>1, StartParseInv DEF InputEnd
  <1>4. CASE ScanUnit
    <2> DEFINE u == detectProgramMessageUnit(buffer, totcmdlen + 1)
               tot == u.next - 1
               done == \/ u.header.type = "UNKNOWN" /\ u.termination = "NONE"
                       \/ tot >= Len(buffer)
    <2>1. pc = "scan" /\ Scanned(u) /\ UNCHANGED <<buffer, cmd_error, stream, log>>
      BY <1>4 DEF ScanUnit
    <2>2. tot \in totcmdlen .. Len(buffer)
      BY <2>1, UnitScanned
    <2>3. buffer \in Seq(Char) /\ Len(buffer) < BufferLength /\ Len(buffer) \in Nat
          /\ totcmdlen \in Nat /\ cmd_error' \in BOOLEAN
      BY <1>0, <2>1 DEF TypeOK
    <2>4. \/ u.termination = "NL" /\ StartParse(tot, FALSE) /\ totcmdlen' = tot
          \/ /\ pc' = IF done THEN "idle" ELSE "scan"
             /\ totcmdlen' = IF done THEN 0 ELSE tot
             /\ UNCHANGED <<job, output_count, output, errors, result, unit>>
      BY <2>1 DEF Scanned
    <2> HIDE DEF u
    <2>5. CASE u.termination = "NL" /\ StartParse(tot, FALSE) /\ totcmdlen' = tot
      <3>1. tot \in 0 .. Len(buffer)
        BY <2>2, <2>3
      <3> HIDE DEF tot
      <3> QED BY <2>1, <2>3, <2>5, <3>1, StartParseInv
    <2>6. CASE /\ pc' = IF done THEN "idle" ELSE "scan"
               /\ totcmdlen' = IF done THEN 0 ELSE tot
               /\ UNCHANGED <<job, output_count, output, errors, result, unit>>
      <3>1. totcmdlen' \in 0 .. Len(buffer) /\ (~ done => totcmdlen' < Len(buffer))
        BY <2>2, <2>3, <2>6
      <3> HIDE DEF tot
      <3>2. pc' \in {"idle", "scan"} /\ (pc' = "idle" => totcmdlen' = 0)
            /\ (pc' = "scan" => totcmdlen' < Len(buffer))
        BY <2>6, <3>1
      <3>3. job' = job /\ job = NoJob
        BY <1>0, <2>1, <2>6
      <3>4. TypeOK'
        BY <1>0, <2>1, <2>3, <2>6, <3>1, <3>2, <3>3 DEF TypeOK
      <3>5. Reports'
        BY <1>0, <2>1, <2>3, <2>6, <3>2 DEF Reports
      <3>6. JobShape' /\ Earlier(job'.prev, job'.at)
        BY <1>0, <3>3 DEF JobShape
      <3> QED BY <2>1, <3>2, <3>3, <3>4, <3>5, <3>6 DEF InputInv, Buffered
    <2> QED BY <2>4, <2>5, <2>6
  <1>5. CASE ParseUnit
    <2>1. UnitDone /\ pc = "parse" /\ pc' = pc /\ totcmdlen' = totcmdlen
      BY <1>5, ParseUnitDone
    <2>2. /\ buffer' \in Seq(Char) /\ Len(buffer') = Len(buffer) /\ JobShape' /\ Reports'
          /\ job'.end = job.end /\ job'.at \in job.at + 1 .. job.end + 1 /\ Earlier(job'.prev, job'.at)
      BY <2>1 DEF UnitDone
    <2>3. TypeOK'
      <3>1. /\ Len(buffer') < BufferLength /\ totcmdlen' \in 0 .. Len(buffer')
            /\ job'.end \in 0 .. Len(buffer')
        BY <1>0, <2>1, <2>2 DEF TypeOK
      <3>2. job'.at \in 1 .. job'.end + 1
        BY <1>0, <2>2 DEF TypeOK
      <3>3. job'.prev.first >= 0 /\ job'.prev.first + job'.prev.len <= job'.at
        BY <2>2 DEF Earlier
      <3>4. output_count' \in Nat /\ cmd_error' \in BOOLEAN /\ result' \in BOOLEAN
        BY <2>2 DEF Reports
      <3> QED BY <2>1, <2>2, <3>1, <3>2, <3>3, <3>4 DEF TypeOK
    <2> QED BY <2>1, <2>2, <2>3 DEF InputInv, Buffered
  <1>6. CASE ParseEnd
    <2>1. /\ pc = "parse" /\ job' = NoJob /\ totcmdlen' = 0
          /\ UNCHANGED <<output_count, cmd_error, result, errors, unit>>
          /\ \/ buffer' = <<>> /\ pc' = "idle"
             \/ buffer' = AfterLine /\ pc' = "scan"
      BY <1>6 DEF ParseEnd
    <2>2. AfterLine \in Seq(Char) /\ Len(AfterLine) = Len(buffer) - job.end
      BY <1>0, RestOf DEF AfterLine, TypeOK
    <2>3. buffer' \in Seq(Char) /\ Len(buffer') < BufferLength
      <3>1. CASE buffer' = <<>>
        BY <3>1, EmptySeq, BoundAssumption
      <3>2. CASE buffer' = AfterLine
        <4>1. Len(buffer) < BufferLength /\ Len(buffer) \in Nat /\ job.end \in Nat
          BY <1>0 DEF TypeOK
        <4>2. Len(AfterLine) < BufferLength
          BY <2>2, <4>1, BoundAssumption
        <4> QED BY <2>2, <3>2, <4>2
      <3> QED BY <2>1, <3>1, <3>2
    <2>4. Len(buffer') \in Nat /\ (buffer' # <<>> => Len(buffer') > 0)
      BY <2>3
    <2>5. JobShape' /\ Earlier(job'.prev, job'.at)
      BY <2>1, NewJob DEF JobShape, NoJob
    <2>6. TypeOK'
      BY <1>0, <2>1, <2>3, <2>4 DEF TypeOK, NoJob, NoToken
    <2>7. Reports'
      BY <1>0, <2>1 DEF Reports
    <2> QED BY <2>1, <2>4, <2>5, <2>6, <2>7 DEF InputInv, Buffered
  <1>7. CASE UNCHANGED vars
    <2>1. TypeOK' /\ Reports' /\ JobShape' /\ Earlier(job'.prev, job'.at)
      BY <1>0, <1>7 DEF vars, TypeOK, Reports, JobShape
    <2> QED BY <1>0, <1>7, <2>1 DEF vars, InputInv, Buffered
  <1> QED BY <1>1, <1>2, <1>3, <1>4, <1>5, <1>6, <1>7 DEF Next

-----------------------------------------------------------------------------
(* Whatever arrives, in whatever pieces, and whatever commands there are: the
   bytes and their final 0 fit into the buffer of SCPI_Init, and every
   position of SCPI_Input and SCPI_Parse, that of the previous header too,
   stays in it. *)
THEOREM InputTypeOK == Spec => []TypeOK
  <1>1. Init => InputInv
    BY InputInvInit
  <1>2. InputInv /\ [Next]_vars => InputInv'
    BY InputInvNext
  <1>3. InputInv => TypeOK
    BY DEF InputInv, Buffered
  <1> QED BY <1>1, <1>2, <1>3, PTL DEF Spec

(* SCPI_Parse returns FALSE if and only if one of the units of the line gave
   an error (parser.c:186), for every command table. *)
THEOREM ParseTellsErrors == Spec => ResultTellsErrors
  <1>1. Init => InputInv
    BY InputInvInit
  <1>2. InputInv /\ [Next]_vars => InputInv'
    BY InputInvNext
  <1>3. InputInv /\ [Next]_vars => [pc = "parse" /\ pc' # "parse" => (result' <=> errors' = <<>>)]_vars
    <2> SUFFICES ASSUME InputInv, Next, pc = "parse", pc' # "parse"
                 PROVE  result' <=> errors' = <<>>
      OBVIOUS
    <2>1. result <=> errors = <<>>
      BY DEF InputInv, Reports
    <2>2. ParseEnd
      <3>1. ~ ParseUnit
        BY ParseUnitDone
      <3> QED BY <3>1 DEF Next, Input, InputOverrun, InputEnd, ScanUnit
    <2>3. result' = result /\ errors' = errors
      BY <2>2 DEF ParseEnd
    <2> QED BY <2>1, <2>3
  <1> QED BY <1>1, <1>2, <1>3, PTL DEF Spec, ResultTellsErrors

(* A callback that fails is never silent: processCommand pushes an error for
   it, its own or that of the first parameter it could not read. *)
THEOREM FailuresReported == Spec => [](unit.failed => unit.errors > 0)
  <1>1. Init => InputInv
    BY InputInvInit
  <1>2. InputInv /\ [Next]_vars => InputInv'
    BY InputInvNext
  <1>3. InputInv => (unit.failed => unit.errors > 0)
    BY DEF InputInv, Reports
  <1> QED BY <1>1, <1>2, <1>3, PTL DEF Spec

(* Each step of a call of SCPI_Input leaves less to do than it found. *)
LEMMA WorkShrinks ==
  ASSUME InputInv, Next, pc # "idle", pc' # "idle"
  PROVE  Work' < Work
  <1>0. /\ Len(buffer) \in Nat /\ totcmdlen \in 0 .. Len(buffer)
        /\ job.end \in 0 .. Len(buffer) /\ job.at \in 1 .. job.end + 1
        /\ buffer \in Seq(Char) /\ pc \in {"idle", "scan", "parse"}
    BY DEF InputInv, Buffered, TypeOK
  <1>1. CASE ScanUnit
    <2> DEFINE u == detectProgramMessageUnit(buffer, totcmdlen + 1)
               tot == u.next - 1
               done == \/ u.header.type = "UNKNOWN" /\ u.termination = "NONE"
                       \/ tot >= Len(buffer)
    <2>1. pc = "scan" /\ buffer' = buffer /\ Scanned(u)
      BY <1>1 DEF ScanUnit
    <2>2. tot \in totcmdlen .. Len(buffer) /\ (u.termination # "NONE" \/ buffer # <<>> => tot > totcmdlen)
      BY <2>1, UnitScanned
    <2>3. \/ u.termination = "NL" /\ StartParse(tot, FALSE)
          \/ pc' = (IF done THEN "idle" ELSE "scan") /\ totcmdlen' = (IF done THEN 0 ELSE tot)
      BY <2>1 DEF Scanned
    <2>4. Work = 3 * Len(buffer) - totcmdlen
      BY <2>1 DEF Work
    <2> HIDE DEF u
    <2>5. CASE u.termination = "NL" /\ StartParse(tot, FALSE)
      <3>1. pc' = "parse" /\ job'.end = tot /\ job'.at = 1
        BY <2>5 DEF StartParse
      <3>2. Work' = 3 * (Len(buffer) - tot) + (tot - 1) + 2
        BY <2>1, <3>1 DEF Work
      <3>3. tot > totcmdlen
        BY <2>2, <2>5
      <3> QED BY <1>0, <2>2, <2>4, <3>2, <3>3
    <2>6. CASE pc' = (IF done THEN "idle" ELSE "scan") /\ totcmdlen' = (IF done THEN 0 ELSE tot)
      <3>1. ~ done /\ pc' = "scan" /\ totcmdlen' = tot
        BY <2>6
      <3>2. tot < Len(buffer)
        BY <1>0, <2>2, <3>1
      <3>3. Work' = 3 * Len(buffer) - tot
        BY <2>1, <3>1 DEF Work
      <3>4. buffer # <<>>
        BY <1>0, <2>2, <3>2
      <3>5. tot > totcmdlen
        BY <2>2, <3>4
      <3> QED BY <1>0, <2>2, <2>4, <3>3, <3>5
    <2> QED BY <2>3, <2>5, <2>6
  <1>2. CASE ParseUnit
    <2>1. UnitDone /\ pc = "parse" /\ pc' = pc
      BY <1>2, ParseUnitDone
    <2>2. Len(buffer') = Len(buffer) /\ job'.end = job.end /\ job'.at \in job.at + 1 .. job.end + 1
      BY <2>1 DEF UnitDone
    <2>3. Work = 3 * (Len(buffer) - job.end) + (job.end - job.at) + 2
      BY <2>1 DEF Work
    <2>4. Work' = 3 * (Len(buffer) - job.end) + (job.end - job'.at) + 2
      BY <2>1, <2>2 DEF Work
    <2>5. job.end \in Nat /\ job.at \in Nat /\ job'.at \in Nat /\ job.at < job'.at /\ Len(buffer) \in Nat
      BY <1>0, <2>2
    <2> QED BY <2>3, <2>4, <2>5, SMTT(30)
  <1>3. CASE ParseEnd
    <2>1. pc = "parse" /\ job.at > job.end /\ pc' = "scan" /\ buffer' = AfterLine /\ totcmdlen' = 0
      BY <1>3 DEF ParseEnd
    <2>2. Len(AfterLine) = Len(buffer) - job.end
      BY <1>0, RestOf DEF AfterLine
    <2>3. Work = 3 * (Len(buffer) - job.end) + (job.end - job.at) + 2
      BY <2>1 DEF Work
    <2>4. Work' = 3 * (Len(buffer) - job.end) - 0
      BY <2>1, <2>2 DEF Work
    <2> QED BY <1>0, <2>1, <2>3, <2>4, SMTT(30)
  <1> QED BY <1>1, <1>2, <1>3 DEF Next, Input, InputOverrun, InputEnd

(* What is left to do is never less than nothing. *)
LEMMA WorkLeft ==
  ASSUME NEW n \in Nat, NEW tot \in 0 .. n, NEW end \in 0 .. n, NEW at \in 1 .. end + 1
  PROVE  3 * n - tot \in Nat /\ 3 * (n - end) + (end - at) + 2 \in Nat
  <1>1. 3 * n - tot \in Nat
    OBVIOUS
  <1>2. 3 * (n - end) + (end - at) + 2 \in Nat
    OBVIOUS
  <1> QED BY <1>1, <1>2

(* Every call of SCPI_Input comes to its end: the scan (parser.c:333) and the
   loop over the units (parser.c:200) take at least a byte each time round,
   whatever the bytes are. *)
THEOREM InputEnds == Spec => CallsEnd
  <1>1. Init => InputInv
    BY InputInvInit
  <1>2. InputInv /\ [Next]_vars => InputInv'
    BY InputInvNext
  <1>3. InputInv => Work \in Nat
    <2>1. SUFFICES ASSUME InputInv PROVE Work \in Nat
      OBVIOUS
    <2>2. /\ Len(buffer) \in Nat /\ totcmdlen \in 0 .. Len(buffer)
          /\ job.end \in 0 .. Len(buffer) /\ job.at \in 1 .. job.end + 1
      BY <2>1 DEF InputInv, Buffered, TypeOK
    <2> QED BY <2>2, WorkLeft DEF Work
  <1>4. InputInv' => Work' \in Nat
    <2>1. SUFFICES ASSUME InputInv' PROVE Work' \in Nat
      OBVIOUS
    <2>2. /\ Len(buffer') \in Nat /\ totcmdlen' \in 0 .. Len(buffer')
          /\ job'.end \in 0 .. Len(buffer') /\ job'.at \in 1 .. job'.end + 1
      BY <2>1 DEF InputInv, Buffered, TypeOK
    <2> QED BY <2>2, WorkLeft DEF Work
  <1>5. InputInv /\ InputInv' /\ [Next]_vars => [pc # "idle" /\ pc' # "idle" => Work' \in 0 .. Work - 1]_vars
    <2>1. SUFFICES ASSUME InputInv, InputInv', Next, pc # "idle", pc' # "idle"
                   PROVE  Work' \in 0 .. Work - 1
      OBVIOUS
    <2>2. Work' < Work
      BY <2>1, WorkShrinks
    <2>3. Work \in Nat /\ Work' \in Nat
      BY <2>1, <1>3, <1>4
    <2> QED BY <2>2, <2>3
  <1> QED BY <1>1, <1>2, <1>5, PTL DEF Spec, CallsEnd

-----------------------------------------------------------------------------
(* The errors of a unit *)

(* A reader that got what it wanted has no error to report. *)
Quiet(r) == r.ok => r.error = 0

(* An integer that was read *)
LEMMA IntegerQuiet ==
  ASSUME NEW d, NEW p
  PROVE  Quiet(ParamSignUInt(d, p, Width, TRUE))
  <1> DEFINE x == ParamSignUInt(d, p, Width, TRUE)
             e == NumberError(p.param)
             n == ParamSignToUInt(d, p.param, Width, TRUE)
  <1>1. Quiet(Failed(p, p.error)) /\ Quiet(Failed(p, e)) /\ Quiet(Failed(p, 0)) /\ Quiet(Read(p, n.val))
    <2> HIDE DEF e, n
    <2> QED BY DEF Quiet, Failed, Read
  <1>2. CASE ~ p.ok
    <2>1. x = Failed(p, p.error)
      BY <1>2 DEF ParamSignUInt
    <2> HIDE DEF x
    <2> QED BY <1>1, <2>1 DEF x
  <1>3. CASE p.ok /\ e # 0
    <2>1. x = Failed(p, e)
      BY <1>3 DEF ParamSignUInt
    <2> HIDE DEF x, e
    <2> QED BY <1>1, <2>1 DEF x
  <1>4. CASE p.ok /\ e = 0
    <2>1. x = IF n.ok THEN Read(p, n.val) ELSE Failed(p, 0)
      BY <1>4 DEF ParamSignUInt
    <2> HIDE DEF x, n
    <2> QED BY <1>1, <2>1 DEF x
  <1> QED BY <1>2, <1>3, <1>4

(* After each parameter the callback either goes on, and all is well so far,
   or it has failed. *)
LEMMA ReadNextQuiet ==
  ASSUME NEW d, NEW r, Quiet(r), NEW mandatory
  PROVE  Quiet(ReadNext(d, r, mandatory))
  <1> DEFINE p == Parameter(d, r.pos, r.count, mandatory)
             x == ParamSignUInt(d, p, Width, TRUE)
  <1>1. Quiet(x)
    <2> HIDE DEF p
    <2> QED BY IntegerQuiet
  <1>2. ReadNext(d, r, mandatory) =
          IF r.ok THEN [ok |-> x.ok, pos |-> x.pos, error |-> x.error,
                        count |-> r.count + (IF p.ok THEN 1 ELSE 0)]
          ELSE r
    BY DEF ReadNext
  <1> HIDE DEF p, x
  <1> QED BY <1>1, <1>2 DEF Quiet

(* What a callback reads, parameter by parameter, stays quiet as long as it is
   successful. *)
LEMMA ReadsQuiet ==
  ASSUME NEW d \in Seq(Char), NEW pos \in Pos(d), NEW c, c.reads \in Nat, c.more \in Nat
  PROVE  \A k \in 0 .. c.reads + c.more : Quiet(readOf(c, d, pos)[k])
  <1> DEFINE n == c.reads + c.more
             F == readOf(c, d, pos)
             first == [ok |-> TRUE, pos |-> pos, error |-> 0, count |-> 0]
             T == {k \in 0 .. n : Quiet(F[k])}
  <1>1. n \in Nat /\ Quiet(first)
    BY DEF Quiet
  <1>2. \A k \in 0 .. n : F[k] = IF k = 0 THEN first ELSE ReadNext(d, F[k - 1], k <= c.reads)
    BY ReadsStep
  <1> HIDE DEF F, n, first
  <1>3. 0 \in T
    BY <1>1, <1>2
  <1>4. ASSUME NEW k \in 1 .. n, k - 1 \in T PROVE k \in T
    <2> DEFINE v == F[k - 1]
               mandatory == k <= c.reads
    <2>1. F[k] = ReadNext(d, v, mandatory) /\ Quiet(v) /\ k \in 0 .. n
      BY <1>1, <1>2, <1>4
    <2> HIDE DEF v, mandatory
    <2>2. Quiet(ReadNext(d, v, mandatory))
      BY <2>1, ReadNextQuiet
    <2> QED BY <2>1, <2>2
  <1>5. 0 .. n \subseteq T
    <2> HIDE DEF T
    <2> QED BY <1>1, <1>3, <1>4, Induction
  <1> QED BY <1>5 DEF F, n

(* A callback that got all it needs has an error of its reading only from a
   parameter that it could do without. *)
LEMMA CallbackQuiet ==
  ASSUME NEW d \in Seq(Char), NEW pos \in Pos(d), NEW c, c.reads \in Nat, c.more = 0
  PROVE  Quiet(Callback(c, d, pos))
  <1> DEFINE all == readOf(c, d, pos)[c.reads]
  <1>1. c.reads + c.more = c.reads /\ c.reads \in 0 .. c.reads + c.more
    OBVIOUS
  <1>2. all \in Got(d)
    BY <1>1, ReadsGot
  <1>3. Callback(c, d, pos) = [all EXCEPT !.ok = all.ok]
    BY <1>1 DEF Callback
  <1>4. Quiet(all)
    BY <1>1, ReadsQuiet
  <1> HIDE DEF all
  <1>5. [all EXCEPT !.ok = all.ok] = all
    BY <1>2 DEF Got
  <1> QED BY <1>3, <1>4, <1>5

-----------------------------------------------------------------------------
(* One error for a unit *)

OneError == unit.errors \in 0 .. 1

(* A command gives one error at most: its own, or the one that processCommand
   adds if there is none. *)
LEMMA FinishOneError ==
  ASSUME NEW c, NEW d, NEW r \in Got(d), NEW w \in Writing, NEW count,
         Len(w.errors) <= 1, Len(w.errors) = 1 => r.error = 0, Finish(c, d, r, w, count)
  PROVE  OneError'
  <1> DEFINE read == IF r.error # 0 THEN <<r.error>> ELSE <<>>
             own == read \o w.errors
             failed == ~ r.ok \/ c.res = "ERR"
             quiet == own = <<>> /\ ~ ErrorAtStart
             unread == Unread(d, r.pos)
             codes == CASE failed /\ quiet -> <<EXECUTION_ERROR>>
                        [] ~ failed /\ quiet /\ unread -> <<PARAMETER_NOT_ALLOWED>>
                        [] OTHER -> own
  <1>1. unit' = [failed |-> failed, errors |-> Len(codes), unread |-> count - r.count]
    BY DEF Finish
  <1>2. w.errors \in Seq(Int) /\ r.error \in Int
    BY DEF Got, Writing
  <1>3. Len(own) \in 0 .. 1
    <2>1. read \in Seq(Int) /\ Len(read) <= 1 /\ (r.error = 0 => Len(read) = 0)
      BY <1>2, Singleton, EmptySeq
    <2> HIDE DEF read
    <2>2. Len(own) = Len(read) + Len(w.errors)
      BY <1>2, <2>1, ConcatProperties
    <2>3. Len(w.errors) \in Nat /\ Len(read) \in Nat
      BY <1>2, <2>1
    <2> HIDE DEF own
    <2>4. Len(w.errors) = 0 \/ Len(w.errors) = 1
      <3> DEFINE n == Len(w.errors)
      <3>1. n <= 1 /\ n \in Nat
        BY <2>3
      <3> HIDE DEF n
      <3>2. n = 0 \/ n = 1
        BY <3>1
      <3> QED BY <3>2 DEF n
    <2>5. CASE Len(w.errors) = 0
      BY <2>1, <2>2, <2>3, <2>5
    <2>6. CASE Len(w.errors) = 1
      BY <2>1, <2>2, <2>3, <2>6
    <2> QED BY <2>4, <2>5, <2>6
  <1> HIDE DEF own, unread, failed
  <1>4. Len(codes) \in 0 .. 1
    <2>1. CASE failed /\ quiet
      <3>1. codes = <<EXECUTION_ERROR>>
        BY <2>1
      <3>2. Len(<<EXECUTION_ERROR>>) = 1
        OBVIOUS
      <3> HIDE DEF codes, quiet
      <3> QED BY <3>1, <3>2
    <2>2. CASE ~ failed /\ quiet /\ unread
      <3>1. codes = <<PARAMETER_NOT_ALLOWED>>
        BY <2>2
      <3>2. Len(<<PARAMETER_NOT_ALLOWED>>) = 1
        OBVIOUS
      <3> HIDE DEF codes, quiet
      <3> QED BY <3>1, <3>2
    <2>3. CASE ~ quiet \/ (~ failed /\ ~ unread)
      <3>1. codes = own
        BY <2>3
      <3> QED BY <1>3, <3>1
    <2> QED BY <2>1, <2>2, <2>3
  <1> HIDE DEF codes
  <1> QED BY <1>1, <1>4 DEF OneError

(* Nothing is written, and no error pushed, where there are no results. *)
LEMMA NoResults == Results(<<>>).errors = <<>>
  <1>1. <<>> \in Seq(Seq(Nat)) /\ Len(<<>>) = 0
    BY EmptySeq
  <1>2. writtenOf(<<>>)[0] = NoResult
    <2>1. \A k \in 0 .. 0 : writtenOf(<<>>)[k] = IF k = 0 THEN NoResult
                                   ELSE WriteResult(writtenOf(<<>>)[k - 1], <<>>[k])
      BY <1>1, WrittenStep
    <2> QED BY <2>1
  <1> QED BY <1>1, <1>2 DEF Results, NoResult

(* A unit whose header has a command has one error at most, and one if its
   callback failed. *)
LEMMA CommandOneError ==
  ASSUME AtMostOneOwn, NEW header, Matching(header) # {},
         NEW d \in Seq(Char), NEW first \in Pos(d), NEW count,
         processCommand(Commands[Min(Matching(header))], d, first, count)
  PROVE  OneError'
  <1> DEFINE k == Min(Matching(header))
             c == Commands[k]
             r == Callback(c, d, first)
             writes == IF r.ok THEN c.writes ELSE <<>>
             w == Results(writes)
  <1>1. c.reads \in Nat /\ c.more \in Nat /\ c.writes \in Seq(Seq(Nat))
    BY CommandFound
  <1>2. k \in DOMAIN Commands
    BY CommandMatched
  <1>3. Finish(c, d, r, w, count)
    BY DEF processCommand
  <1>4. LET own == Len(Results(c.writes).errors) IN own <= 1 /\ (own = 1 => c.more = 0)
    BY <1>2 DEF AtMostOneOwn
  <1> HIDE DEF c
  <1>5. r \in Got(d)
    BY <1>1, CallbackGot
  <1>6. w \in Writing
    <2>1. writes \in Seq(Seq(Nat))
      <3> HIDE DEF r
      <3> QED BY <1>1, EmptySeq
    <2> HIDE DEF writes
    <2> QED BY <2>1, ResultsWriting
  <1>7. Len(w.errors) <= 1 /\ (Len(w.errors) = 1 => r.error = 0)
    <2>1. CASE r.ok
      <3>1. w = Results(c.writes)
        BY <2>1
      <3>2. Len(w.errors) = 1 => Quiet(r)
        BY <1>1, <1>4, <3>1, CallbackQuiet
      <3> HIDE DEF w, r
      <3> QED BY <1>4, <2>1, <3>1, <3>2 DEF Quiet
    <2>2. CASE ~ r.ok
      <3>1. w = Results(<<>>)
        BY <2>2
      <3> HIDE DEF w, r
      <3>2. Len(w.errors) = 0
        BY <3>1, NoResults
      <3> QED BY <3>2
    <2> QED BY <2>1, <2>2
  <1> HIDE DEF r, w
  <1> QED BY <1>3, <1>5, <1>6, <1>7, FinishOneError

(* A unit without a command has no more errors than it is given. *)
LEMMA NoCommandOneError ==
  ASSUME NEW codes \in Seq(Int), Len(codes) <= 1, NoCommand(codes)
  PROVE  OneError'
  <1>1. unit' = [failed |-> FALSE, errors |-> Len(codes), unread |-> 0]
    BY DEF NoCommand
  <1> QED BY <1>1 DEF OneError

(* The parameters of a command are a part of the line, and its data is in it. *)
LEMMA CommandParameters ==
  ASSUME InputInv, pc = "parse", NEW u, u.next \in job.at + 1 .. job.end + 1,
         Within(u.header, SubSeq(buffer, 1, job.end), job.at), u.header.len > 0,
         u.header.next <= u.next,
         u.data.first \in u.header.next .. u.next, u.data.len \in Nat, u.data.first + u.data.len <= u.next,
         NEW h, h = composeCompoundCommand(SubSeq(buffer, 1, job.end), job.prev, u.header)
  PROVE  LET d == SubSeq(h.line, 1, u.data.first + u.data.len - 1)
         IN  d \in Seq(Char) /\ u.data.first \in Pos(d)
  <1> DEFINE s == SubSeq(buffer, 1, job.end)
             m == u.data.first + u.data.len - 1
             d == SubSeq(h.line, 1, m)
             ends == u.header.first + u.header.len
  <1>1. /\ JobShape /\ Earlier(job.prev, job.at) /\ buffer \in Seq(Char)
        /\ job.end \in 0 .. Len(buffer) /\ job.at \in 1 .. job.end + 1 /\ Reports
    BY DEF InputInv, Buffered, TypeOK
  <1>2. s \in Seq(Char) /\ Len(s) = job.end
    BY <1>1, LineOf
  <1>4. job.at \in Pos(s)
    <2> HIDE DEF s
    <2> QED BY <1>1, <1>2 DEF Pos
  <1>5. h.line \in Seq(Char) /\ Len(h.line) = Len(s) /\ Earlier(h.header, ends)
    <2> HIDE DEF s
    <2>1. h = composeCompoundCommand(s, job.prev, u.header) /\ Within(u.header, s, job.at)
      BY DEF s
    <2> QED BY <1>1, <1>2, <1>4, <2>1, ComposedWithin
  <1>6. ends <= u.next /\ ends \in Nat /\ u.header.next \in Nat /\ u.header.next > 0
    <2> HIDE DEF s
    <2>1. Within(u.header, s, job.at)
      BY DEF s
    <2>2. /\ u.header.next \in job.at .. Len(s) + 1 /\ u.header.first \in job.at .. u.header.next
          /\ u.header.len \in Nat /\ ends <= u.header.next
      BY <2>1 DEF Within
    <2>3. job.at \in Nat /\ job.at > 0 /\ Len(s) \in Nat /\ u.next \in Nat /\ u.next <= Len(s) + 1
      BY <1>1, <1>2
    <2> HIDE DEF ends
    <2>4. u.header.next \in Nat /\ u.header.next > 0 /\ u.header.next <= u.next
      BY <2>2, <2>3
    <2>5. ends \in Nat
      BY <2>2, <2>3, SMTT(30) DEF ends
    <2> QED BY <2>2, <2>3, <2>4, <2>5
  <1>7. m \in 0 .. Len(h.line)
    <2> HIDE DEF s
    <2>1. u.next \in Nat /\ u.next <= Len(h.line) + 1 /\ Len(h.line) \in Nat
      BY <1>1, <1>2, <1>5
    <2>2. u.data.first \in Nat /\ u.data.first > 0
      BY <1>6, <2>1
    <2> QED BY <2>1, <2>2, SMTT(60)
  <1>8. d \in Seq(Char) /\ Len(d) = m
    <2> HIDE DEF m, s
    <2> QED BY <1>5, <1>7, LineOf
  <1>9. u.data.first \in Pos(d)
    <2> HIDE DEF d
    <2> QED BY <1>6, <1>8 DEF Pos
  <1> HIDE DEF d
  <1> QED BY <1>8, <1>9 DEF d

(* A unit of the line that has a header *)
LEMMA HeaderOfUnit ==
  ASSUME InputInv, pc = "parse", job.at <= job.end
  PROVE  LET s == SubSeq(buffer, 1, job.end)
             u == detectProgramMessageUnit(s, job.at)
         IN  /\ u.next \in job.at + 1 .. job.end + 1
             /\ u.header.type # "INVALID" =>
                  /\ Within(u.header, s, job.at) /\ u.header.next <= u.next
                  /\ u.data.first \in u.header.next .. u.next /\ u.data.len \in Nat
                  /\ u.data.first + u.data.len <= u.next
  <1> DEFINE s == SubSeq(buffer, 1, job.end)
             u == detectProgramMessageUnit(s, job.at)
  <1>2. job.end \in 0 .. Len(buffer) /\ job.at \in 1 .. job.end + 1 /\ buffer \in Seq(Char)
    BY DEF InputInv, Buffered, TypeOK
  <1>3. s \in Seq(Char) /\ Len(s) = job.end
    BY <1>2, LineOf
  <1>4. job.at \in Pos(s)
    <2> HIDE DEF s
    <2> QED BY <1>2, <1>3 DEF Pos
  <1> HIDE DEF s
  <1>5. /\ u.next \in job.at .. Len(s) + 1 /\ (job.at <= Len(s) => u.next > job.at)
        /\ u.header.type # "INVALID" =>
           /\ Within(u.header, s, job.at) /\ u.header.next <= u.next
           /\ u.data.first \in u.header.next .. u.next /\ u.data.len \in Nat
           /\ u.data.first + u.data.len <= u.next
    BY <1>3, <1>4, UnitAdvances
  <1> HIDE DEF u
  <1>6. u.next \in job.at + 1 .. job.end + 1
    BY <1>2, <1>3, <1>5
  <1> QED BY <1>5, <1>6 DEF s, u

(* A unit, whether it is a command or not *)
LEMMA ParseUnitOneError ==
  ASSUME AtMostOneOwn, InputInv, ParseUnit
  PROVE  OneError'
  <1> DEFINE s == SubSeq(buffer, 1, job.end)
             u == detectProgramMessageUnit(s, job.at)
             h == composeCompoundCommand(s, job.prev, u.header)
             empty == u.header.type # "INVALID" /\ u.header.len = 0
             header == Text(h.line, h.header)
             found == Matching(header)
             d == SubSeq(h.line, 1, u.data.first + u.data.len - 1)
  <1>1. \/ u.header.type = "INVALID" /\ SkipUnit(u, <<INVALID_CHARACTER>>)
        \/ SkipUnit(u, <<>>)
        \/ u.header.type # "INVALID" /\ ~ empty /\ ExecuteUnit(u, h, found)
    <2>1. HandleUnit(s, u)
      BY DEF ParseUnit
    <2> HIDE DEF s, u
    <2> QED BY <2>1 DEF HandleUnit
  <1>2. CASE SkipUnit(u, <<INVALID_CHARACTER>>) \/ SkipUnit(u, <<>>)
    <2>1. /\ <<INVALID_CHARACTER>> \in Seq(Int) /\ Len(<<INVALID_CHARACTER>>) = 1
          /\ <<>> \in Seq(Int) /\ Len(<<>>) = 0
      BY Singleton, EmptySeq DEF INVALID_CHARACTER
    <2>2. NoCommand(<<INVALID_CHARACTER>>) \/ NoCommand(<<>>)
      BY <1>2 DEF SkipUnit
    <2>3. CASE NoCommand(<<INVALID_CHARACTER>>)
      <3> DEFINE codes == <<INVALID_CHARACTER>>
      <3>1. codes \in Seq(Int) /\ Len(codes) <= 1 /\ NoCommand(codes)
        BY <2>1, <2>3
      <3> HIDE DEF codes
      <3> QED BY <3>1, NoCommandOneError
    <2>4. CASE NoCommand(<<>>)
      <3> DEFINE codes == <<>>
      <3>1. codes \in Seq(Int) /\ Len(codes) <= 1 /\ NoCommand(codes)
        BY <2>1, <2>4
      <3> HIDE DEF codes
      <3> QED BY <3>1, NoCommandOneError
    <2> QED BY <2>2, <2>3, <2>4
  <1>3. CASE u.header.type # "INVALID" /\ ~ empty /\ ExecuteUnit(u, h, found)
    <2>1. /\ found = {} => NoCommand(<<UNDEFINED_HEADER>>)
          /\ found # {} => processCommand(Commands[Min(found)], d, u.data.first, u.count)
      <3> HIDE DEF s, u, h, found
      <3> QED BY <1>3 DEF ExecuteUnit
    <2>2. CASE found = {}
      <3>1. <<UNDEFINED_HEADER>> \in Seq(Int) /\ Len(<<UNDEFINED_HEADER>>) = 1
        BY Singleton DEF UNDEFINED_HEADER
      <3> DEFINE codes == <<UNDEFINED_HEADER>>
      <3>2. codes \in Seq(Int) /\ Len(codes) <= 1 /\ NoCommand(codes)
        BY <2>1, <2>2, <3>1
      <3> HIDE DEF codes
      <3> QED BY <3>2, NoCommandOneError
    <2>3. CASE found # {}
      <3>1. d \in Seq(Char) /\ u.data.first \in Pos(d)
        <4>1. pc = "parse" /\ job.at <= job.end
          BY DEF ParseUnit
        <4>2. /\ u.next \in job.at + 1 .. job.end + 1
              /\ Within(u.header, SubSeq(buffer, 1, job.end), job.at) /\ u.header.next <= u.next
              /\ u.data.first \in u.header.next .. u.next /\ u.data.len \in Nat
              /\ u.data.first + u.data.len <= u.next
          BY <1>3, <4>1, HeaderOfUnit
        <4>3. u.header.len > 0
          BY <1>3, <4>2 DEF Within
        <4>4. h = composeCompoundCommand(SubSeq(buffer, 1, job.end), job.prev, u.header)
          OBVIOUS
        <4> HIDE DEF u, h, s
        <4> QED BY <4>1, <4>2, <4>3, <4>4, CommandParameters
      <3> HIDE DEF s, u, h, header, d
      <3> QED BY <2>1, <2>3, <3>1, CommandOneError
    <2> QED BY <2>2, <2>3
  <1> QED BY <1>1, <1>2, <1>3

(* However many errors the callbacks of other units had, a unit has one at
   most, and has one if its callback failed: for every command table in which
   no callback pushes two by itself (parser.c:147, processCommand). *)
THEOREM AtMostOneError == ASSUME AtMostOneOwn PROVE Spec => []OneErrorPerUnit
  <1>1. Init => InputInv /\ OneError
    <2>1. Init => OneError
      BY DEF Init, NoUnit, OneError
    <2> QED BY <2>1, InputInvInit
  <1>2. InputInv /\ OneError /\ [Next]_vars => InputInv' /\ OneError'
    <2> SUFFICES ASSUME InputInv, OneError, [Next]_vars PROVE OneError'
      BY InputInvNext
    <2>1. ASSUME NEW data \in Chunks, Input(data) \/ InputOverrun(data)
          PROVE  OneError'
      BY <2>1 DEF Input, InputOverrun, OneError, NoUnit
    <2>2. CASE InputEnd
      BY <2>2 DEF InputEnd, StartParse, OneError, NoUnit
    <2>3. CASE ScanUnit
      <3>1. unit' = NoUnit \/ unit' = unit
        <4> DEFINE u == detectProgramMessageUnit(buffer, totcmdlen + 1)
        <4>1. Scanned(u)
          BY <2>3 DEF ScanUnit
        <4> HIDE DEF u
        <4> QED BY <4>1 DEF Scanned, StartParse
      <3> QED BY <3>1 DEF OneError, NoUnit
    <2>4. CASE ParseUnit
      BY <2>4, ParseUnitOneError
    <2>5. CASE ParseEnd \/ UNCHANGED vars
      BY <2>5 DEF ParseEnd, OneError, vars
    <2> QED BY <2>1, <2>2, <2>3, <2>4, <2>5 DEF Next
  <1>3. InputInv /\ OneError => OneErrorPerUnit
    <2> SUFFICES ASSUME InputInv, OneError PROVE OneErrorPerUnit
      OBVIOUS
    <2>1. unit.errors \in 0 .. 1
      BY DEF OneError
    <2> QED BY <2>1 DEF InputInv, Reports, OneErrorPerUnit
  <1> QED BY <1>1, <1>2, <1>3, PTL DEF Spec

-----------------------------------------------------------------------------
(* Texts that are alike *)

(* The texts s and d have the same characters from i of d, which is i + o of
   s, up to q, and there each of them is at its end or has a character of T:
   the lexer cannot tell them apart as long as it does not look behind q. *)
Edge(s, q, T) == q = Len(s) + 1 \/ (q \in 1 .. Len(s) /\ s[q] \in T)

Alike(s, d, o, i, q, T) ==
  /\ s \in Seq(Char) /\ d \in Seq(Char) /\ o \in Int
  /\ i \in Nat /\ i >= 1 /\ i + o >= 1 /\ q \in Nat /\ i <= q
  /\ q <= Len(d) + 1 /\ q + o <= Len(s) + 1
  /\ \A k \in i .. q - 1 : s[k + o] = d[k]
  /\ Edge(d, q, T) /\ Edge(s, q + o, T)

(* The positions of texts that are alike *)
LEMMA AlikePos ==
  ASSUME NEW s, NEW d, NEW o, NEW i, NEW q, NEW T, Alike(s, d, o, i, q, T), NEW j \in i .. q
  PROVE  /\ j \in Pos(d) /\ j + o \in Pos(s) /\ j \in Nat /\ j >= 1 /\ j <= q /\ i <= j
         /\ s \in Seq(Char) /\ d \in Seq(Char) /\ o \in Int /\ Len(s) \in Nat /\ Len(d) \in Nat
         /\ q \in Nat /\ i \in Nat
  BY DEF Alike, Pos

(* A character that can be seen in one is in the other. *)
LEMMA AtAlike ==
  ASSUME NEW s, NEW d, NEW o, NEW i, NEW q, NEW T, Alike(s, d, o, i, q, T), NEW j \in i .. q,
         NEW C, C \cap T = {}
  PROVE  /\ At(s, j + o, C) <=> At(d, j, C)
         /\ At(d, j, C) => j + 1 \in i .. q
  <1>1. /\ s \in Seq(Char) /\ d \in Seq(Char) /\ o \in Int /\ i \in Nat /\ i >= 1 /\ i + o >= 1
        /\ q \in Nat /\ q <= Len(d) + 1 /\ q + o <= Len(s) + 1 /\ Len(s) \in Nat /\ Len(d) \in Nat
        /\ \A k \in i .. q - 1 : s[k + o] = d[k]
        /\ Edge(d, q, T) /\ Edge(s, q + o, T)
    BY DEF Alike
  <1>2. CASE j = q
    <2>1. ~ At(d, j, C) /\ ~ At(s, j + o, C)
      BY <1>1, <1>2 DEF At, Edge
    <2> QED BY <2>1
  <1>3. CASE j # q
    <2>1. j \in i .. q - 1 /\ j + 1 \in i .. q /\ j <= Len(d) /\ j + o <= Len(s)
      BY <1>1, <1>3
    <2>2. s[j + o] = d[j]
      BY <1>1, <2>1
    <2> QED BY <2>1, <2>2 DEF At
  <1> QED BY <1>2, <1>3

(* A span ends at the first position that does not belong to it. *)
LEMMA SpanIs ==
  ASSUME NEW s \in Seq(Char), NEW i \in Pos(s), NEW C, NEW m \in i .. Len(s) + 1,
         \A k \in i .. m - 1 : s[k] \in C, ~ At(s, m, C)
  PROVE  Span(s, i, C) = m - i
  <1> DEFINE stop == {j \in i .. Len(s) : s[j] \notin C}
  <1>1. Len(s) \in Nat /\ i \in 1 .. Len(s) + 1 /\ m \in Nat
    BY DEF Pos
  <1>2. stop \in SUBSET Nat
    BY <1>1
  <1>3. Span(s, i, C) = (IF stop = {} THEN Len(s) + 1 ELSE Min(stop)) - i
    BY DEF Span
  <1>4. \A j \in stop : m <= j
    BY <1>1
  <1>5. CASE m = Len(s) + 1
    <2>1. stop = {}
      BY <1>1, <1>4, <1>5
    <2> HIDE DEF stop
    <2> QED BY <1>3, <1>5, <2>1
  <1>6. CASE m # Len(s) + 1
    <2>1. m \in stop
      BY <1>1, <1>6 DEF At
    <2> HIDE DEF stop
    <2>2. Min(stop) \in stop /\ \A j \in stop : Min(stop) <= j
      BY <1>2, <2>1, MinLeast
    <2>3. Min(stop) = m
      <3>1. Min(stop) \in Nat
        BY <1>2, <2>2
      <3> QED BY <1>1, <1>4, <2>1, <2>2, <3>1
    <2> QED BY <1>3, <2>1, <2>3
  <1> QED BY <1>5, <1>6

(* Where a span ends there is no character of it. *)
LEMMA SpanEnds ==
  ASSUME NEW s \in Seq(Char), NEW i \in Pos(s), NEW C
  PROVE  ~ At(s, i + Span(s, i, C), C)
  <1> DEFINE stop == {j \in i .. Len(s) : s[j] \notin C}
  <1>1. Len(s) \in Nat /\ i \in 1 .. Len(s) + 1
    BY DEF Pos
  <1>2. stop \in SUBSET Nat
    BY <1>1
  <1>3. Span(s, i, C) = (IF stop = {} THEN Len(s) + 1 ELSE Min(stop)) - i
    BY DEF Span
  <1>4. CASE stop = {}
    <2>1. i + Span(s, i, C) = Len(s) + 1
      BY <1>1, <1>3, <1>4
    <2> QED BY <1>1, <2>1 DEF At
  <1>5. CASE stop # {}
    <2>1. Min(stop) \in stop
      <3> HIDE DEF stop
      <3> QED BY <1>2, <1>5, MinLeast
    <2>2. Min(stop) \in i .. Len(s) /\ s[Min(stop)] \notin C
      BY <2>1
    <2> HIDE DEF stop
    <2>3. i + Span(s, i, C) = Min(stop)
      BY <1>1, <1>3, <1>5, <2>2
    <2> QED BY <2>2, <2>3 DEF At
  <1> QED BY <1>4, <1>5

(* Where texts are alike, a span of characters that do not end it is as long in
   both. *)
LEMMA SpanAlike ==
  ASSUME NEW s, NEW d, NEW o, NEW i, NEW q, NEW T, Alike(s, d, o, i, q, T), NEW j \in i .. q,
         NEW C, C \cap T = {}
  PROVE  /\ Span(s, j + o, C) = Span(d, j, C)
         /\ Span(d, j, C) \in Nat /\ j + Span(d, j, C) \in i .. q
  <1> DEFINE n == Span(d, j, C)
             m == j + n
  <1>1. /\ j \in Pos(d) /\ j + o \in Pos(s) /\ j \in Nat /\ j >= 1 /\ j <= q /\ i <= j
        /\ s \in Seq(Char) /\ d \in Seq(Char) /\ o \in Int /\ Len(s) \in Nat /\ Len(d) \in Nat
        /\ q \in Nat /\ i \in Nat
    BY AlikePos
  <1>2. n \in 0 .. Len(d) + 1 - j /\ \A k \in j .. j + n - 1 : d[k] \in C
    BY <1>1, SpanBounds, SpanMembers
  <1>3. ~ At(d, m, C)
    BY <1>1, SpanEnds
  <1> HIDE DEF n
  <1>4. n \in Nat /\ m \in j .. Len(d) + 1
    BY <1>1, <1>2
  <1>5. \A k \in j .. m - 1 : d[k] \in C
    BY <1>2
  <1> HIDE DEF m
  <1>6. m <= q
    <2> SUFFICES ASSUME m > q PROVE FALSE
      BY <1>1, <1>4
    <2>1. q \in j .. m - 1 /\ q <= Len(d) /\ q \in i .. q
      BY <1>1, <1>4
    <2>2. d[q] \in C
      BY <1>5, <2>1
    <2>3. At(d, q, C)
      BY <2>1, <2>2 DEF At
    <2>4. q + 1 \in i .. q
      BY <2>1, <2>3, AtAlike
    <2> QED BY <1>1, <2>4
  <1>7. m + o \in j + o .. Len(s) + 1 /\ m \in i .. q
    BY <1>1, <1>4, <1>6 DEF Alike
  <1>8. ~ At(s, m + o, C)
    BY <1>3, <1>7, AtAlike
  <1>9. \A k \in j + o .. m + o - 1 : s[k] \in C
    <2> TAKE k \in j + o .. m + o - 1
    <2>1. k - o \in j .. m - 1 /\ k - o \in i .. q - 1 /\ (k - o) + o = k
      BY <1>1, <1>4, <1>6
    <2>2. s[(k - o) + o] = d[k - o]
      BY <2>1 DEF Alike
    <2> QED BY <1>5, <2>1, <2>2
  <1>10. Span(s, j + o, C) = (m + o) - (j + o)
    BY <1>1, <1>7, <1>8, <1>9, SpanIs
  <1> QED BY <1>1, <1>4, <1>7, <1>10 DEF n, m

(* An optional character is skipped in both or in none. *)
LEMMA OptAlike ==
  ASSUME NEW s, NEW d, NEW o, NEW i, NEW q, NEW T, Alike(s, d, o, i, q, T), NEW j \in i .. q,
         NEW C, C \cap T = {}
  PROVE  /\ Opt(s, j + o, C) = Opt(d, j, C) + o
         /\ Opt(d, j, C) \in i .. q /\ Opt(d, j, C) >= j
  <1>1. /\ At(s, j + o, C) <=> At(d, j, C)
        /\ At(d, j, C) => j + 1 \in i .. q
    BY AtAlike
  <1>2. j \in Nat /\ o \in Int /\ q \in Nat /\ i \in Nat
    BY AlikePos
  <1> QED BY <1>1, <1>2 DEF Opt

-----------------------------------------------------------------------------
(* Where a unit can end *)

(* The characters that can end the data of a unit, but for its comma, and
   those that end a line *)
Ends == {" ", ";", "cr", "nl"}
Lines == {"cr", "nl"}

(* A digit is none of them, *)
LEMMA DigitsFree == \A k \in 1 .. 16 : digits[k] \notin Ends
  <1>1. \A k \in 1 .. 16 : \/ k = 1 \/ k = 2 \/ k = 3 \/ k = 4 \/ k = 5 \/ k = 6 \/ k = 7 \/ k = 8
                           \/ k = 9 \/ k = 10 \/ k = 11 \/ k = 12 \/ k = 13 \/ k = 14 \/ k = 15 \/ k = 16
    OBVIOUS
  <1>2. /\ digits[1] \notin Ends /\ digits[2] \notin Ends /\ digits[3] \notin Ends /\ digits[4] \notin Ends
        /\ digits[5] \notin Ends /\ digits[6] \notin Ends /\ digits[7] \notin Ends /\ digits[8] \notin Ends
        /\ digits[9] \notin Ends /\ digits[10] \notin Ends /\ digits[11] \notin Ends /\ digits[12] \notin Ends
        /\ digits[13] \notin Ends /\ digits[14] \notin Ends /\ digits[15] \notin Ends /\ digits[16] \notin Ends
    BY DEF digits, Ends
  <1> QED BY <1>1, <1>2

(* nor is what a name, a number or a suffix is made of. *)
LEMMA CharsFree ==
  /\ Alpha \cap Ends = {} /\ Digit \cap Ends = {} /\ HexDigit \cap Ends = {} /\ OctDigit \cap Ends = {}
  /\ BinDigit \cap Ends = {} /\ NameChar \cap Ends = {} /\ (Digit \ {"0"}) \cap Ends = {}
  <1>1. Alpha \cap Ends = {}
    BY DEF Alpha, Ends
  <1>2. ASSUME NEW n \in 1 .. 16 PROVE BaseDigit(n) \cap Ends = {}
    BY DigitsFree DEF BaseDigit
  <1>3. /\ Digit \cap Ends = {} /\ HexDigit \cap Ends = {} /\ OctDigit \cap Ends = {} /\ BinDigit \cap Ends = {}
    BY <1>2 DEF Digit, HexDigit, OctDigit, BinDigit
  <1>4. {"_"} \cap Ends = {}
    BY DEF Ends
  <1> QED BY <1>1, <1>3, <1>4 DEF NameChar

(* No mark, sign, quote or letter that the lexer asks for can end the data of a
   unit. *)
LEMMA MarksFree ==
  /\ {"*"} \cap Ends = {} /\ {":"} \cap Ends = {} /\ {"?"} \cap Ends = {} /\ {"#"} \cap Ends = {}
  /\ {"+", "-"} \cap Ends = {} /\ {"-"} \cap Ends = {} /\ {"."} \cap Ends = {} /\ {"E"} \cap Ends = {}
  /\ {"/"} \cap Ends = {} /\ {"/", "."} \cap Ends = {} /\ {"("} \cap Ends = {} /\ {")"} \cap Ends = {}
  /\ {","} \cap Ends = {} /\ {"H"} \cap Ends = {} /\ {"Q"} \cap Ends = {} /\ {"B"} \cap Ends = {}
  /\ Quote \cap Ends = {}
  BY DEF Ends, Quote

(* Neither a blank, nor a semicolon, nor a character of an expression ends a
   line. *)
LEMMA LinesFree ==
  /\ Lines \subseteq Ends
  /\ Blank \cap Lines = {} /\ {";"} \cap Lines = {} /\ (Char \ NoExpression) \cap Lines = {}
  BY DEF Lines, Ends, Blank, NoExpression

(* A token that stands o characters further on *)
Shifted(t, o) == Token(t.type, t.first + o, t.len, t.ret, t.next + o)

(* A token that was found further on is that token, shifted. *)
LEMMA ShiftedFound ==
  ASSUME NEW i \in Int, NEW j \in Int, NEW o \in Int, NEW type
  PROVE  /\ FoundOrNone(type, i + o, j + o) = Shifted(FoundOrNone(type, i, j), o)
         /\ Found(type, i + o, j + o) = Shifted(Found(type, i, j), o)
         /\ None(i + o) = Shifted(None(i), o)
  <1>1. None(i + o) = Shifted(None(i), o)
    BY DEF None, Shifted, Token
  <1>2. Found(type, i + o, j + o) = Shifted(Found(type, i, j), o)
    <2>1. (j + o) - (i + o) = j - i
      OBVIOUS
    <2> QED BY <2>1 DEF Found, Shifted, Token
  <1>3. j + o > i + o <=> j > i
    OBVIOUS
  <1> QED BY <1>1, <1>2, <1>3 DEF FoundOrNone

(* A token that was found, *)
LEMMA FoundShifted ==
  ASSUME NEW i \in Int, NEW j \in Int, NEW o \in Int, NEW type
  PROVE  Found(type, i + o, j + o) = Shifted(Found(type, i, j), o)
  <1>1. (j + o) - (i + o) = j - i
    OBVIOUS
  <1> QED BY <1>1 DEF Found, Shifted, Token

(* and one that was not. *)
LEMMA NoneShifted ==
  ASSUME NEW i \in Int, NEW o \in Int
  PROVE  None(i + o) = Shifted(None(i), o)
  BY DEF None, Shifted, Token

(* A mnemonic ends at the same character. *)
LEMMA MnemonicAlike ==
  ASSUME NEW s, NEW d, NEW o, NEW i, NEW q, NEW T, T \subseteq Ends, Alike(s, d, o, i, q, T), NEW j \in i .. q
  PROVE  /\ skipProgramMnemonic(s, j + o) = skipProgramMnemonic(d, j) + o
         /\ skipProgramMnemonic(d, j) \in i .. q /\ skipProgramMnemonic(d, j) >= j
  <1>1. /\ At(s, j + o, Alpha) <=> At(d, j, Alpha)
        /\ At(d, j, Alpha) => j + 1 \in i .. q
    BY AtAlike, CharsFree
  <1>2. j \in Nat /\ o \in Int /\ q \in Nat /\ i \in Nat
    BY AlikePos
  <1>3. CASE ~ At(d, j, Alpha)
    BY <1>1, <1>2, <1>3 DEF skipProgramMnemonic
  <1>4. CASE At(d, j, Alpha)
    <2> DEFINE k == j + 1
    <2>1. k \in i .. q
      BY <1>1, <1>4
    <2> HIDE DEF k
    <2>2. /\ Span(s, k + o, NameChar) = Span(d, k, NameChar)
          /\ Span(d, k, NameChar) \in Nat /\ k + Span(d, k, NameChar) \in i .. q
      BY <2>1, SpanAlike, CharsFree
    <2>3. k = j + 1 /\ k + o = j + o + 1
      BY <1>2 DEF k
    <2> QED BY <1>1, <1>2, <1>4, <2>2, <2>3 DEF skipProgramMnemonic
  <1> QED BY <1>3, <1>4

-----------------------------------------------------------------------------
(* The loops of the lexer, a step at a time *)

(* How the loop over mnemonics goes on *)
LEMMA MoreMnemonicsStep ==
  ASSUME NEW s \in Seq(Char)
  PROVE  \A j \in Pos(s) :
           moreMnemonics(s)[j] =
             IF ~ At(s, j, {":"}) THEN [res |-> "OK", next |-> j]
             ELSE IF skipProgramMnemonic(s, j + 1) = j + 1 THEN [res |-> "INCOMPLETE", next |-> j + 1]
             ELSE moreMnemonics(s)[skipProgramMnemonic(s, j + 1)]
  <1> DEFINE n == Len(s) + 1
             S == Stop(s, 1)
             body(g, j) ==
               IF ~ At(s, j, {":"}) THEN [res |-> "OK", next |-> j]
               ELSE IF skipProgramMnemonic(s, j + 1) = j + 1 THEN [res |-> "INCOMPLETE", next |-> j + 1]
               ELSE g[skipProgramMnemonic(s, j + 1)]
             step == [p \in (1 .. n) \X [1 .. n -> S] |-> body(p[2], p[1])]
  <1>1. n \in Nat /\ S # {}
    <2>1. [res |-> "OK", next |-> 1] \in S
      BY DEF Stop
    <2> QED BY <2>1
  <1>2. ASSUME NEW j \in 1 .. n, At(s, j, {":"})
        PROVE  j + 1 \in 1 .. n /\ skipProgramMnemonic(s, j + 1) \in j + 1 .. n
    BY <1>2, MnemonicBounds DEF At, Pos
  <1>3. \A j \in 1 .. n, g \in [1 .. n -> S] : step[<<j, g>>] = body(g, j)
    OBVIOUS
  <1>4. \A j \in 1 .. n, g \in [1 .. n -> S] : body(g, j) \in S
    BY <1>2 DEF Stop
  <1>5. ASSUME NEW j \in 1 .. n, NEW g \in [1 .. n -> S], NEW h \in [1 .. n -> S],
               \A k \in j + 1 .. n : g[k] = h[k]
        PROVE  body(g, j) = body(h, j)
    BY <1>2, <1>5
  <1>6. PICK f \in [1 .. n -> S] : SolvesDown(f, step, n)
    <2>1. StepDown(step, n, S)
      <3> HIDE DEF step, S, n, body
      <3>1. \A j \in 1 .. n, g \in [1 .. n -> S] : step[<<j, g>>] \in S
        BY <1>3, <1>4
      <3>2. ASSUME NEW j \in 1 .. n, NEW g \in [1 .. n -> S], NEW h \in [1 .. n -> S],
                   \A k \in j + 1 .. n : g[k] = h[k]
            PROVE  step[<<j, g>>] = step[<<j, h>>]
        <4>1. body(g, j) = body(h, j)
          BY <1>5, <3>2
        <4> QED BY <1>3, <4>1
      <3> QED BY <3>1, <3>2 DEF StepDown
    <2> HIDE DEF step, S, n, body
    <2> QED BY <1>1, <2>1, RecursionDown
  <1>7. f = [j \in 1 .. n |-> body(f, j)]
    <2> HIDE DEF step, body
    <2> QED BY <1>3, <1>6 DEF SolvesDown
  <1>8. moreMnemonics(s) = [j \in 1 .. n |-> body(moreMnemonics(s), j)]
    BY <1>7 DEF moreMnemonics
  <1> DEFINE F == moreMnemonics(s)
  <1> HIDE DEF F
  <1>9. ASSUME NEW j \in 1 .. n
        PROVE  F[j] = body(F, j)
    <2> HIDE DEF body, n
    <2> QED BY <1>8 DEF F
  <1> QED BY <1>9 DEF F, Pos

(* How the loop over the units of a suffix goes on *)
LEMMA MoreUnitsStep ==
  ASSUME NEW s \in Seq(Char)
  PROVE  \A j \in Pos(s) :
           moreUnits(s)[j] = IF At(s, j, {"/", "."}) THEN moreUnits(s)[skipPower(s, skipUnit(s, j + 1))] ELSE j
  <1> DEFINE n == Len(s) + 1
             S == 1 .. n
             body(g, j) ==
               IF At(s, j, {"/", "."}) THEN g[skipPower(s, skipUnit(s, j + 1))] ELSE j
             step == [p \in (1 .. n) \X [1 .. n -> S] |-> body(p[2], p[1])]
  <1>1. n \in Nat /\ S # {}
    <2>1. 1 \in S
      OBVIOUS
    <2> QED BY <2>1
  <1>2. ASSUME NEW j \in 1 .. n, At(s, j, {"/", "."})
        PROVE  skipPower(s, skipUnit(s, j + 1)) \in j + 1 .. n
    <2>1. j + 1 \in Pos(s)
      BY <1>2 DEF At, Pos
    <2>2. skipUnit(s, j + 1) \in j + 1 .. n /\ skipUnit(s, j + 1) \in Pos(s)
      BY <2>1, UnitBounds
    <2>3. skipPower(s, skipUnit(s, j + 1)) \in skipUnit(s, j + 1) .. n
      BY <2>2, UnitBounds
    <2> QED BY <2>2, <2>3
  <1>3. \A j \in 1 .. n, g \in [1 .. n -> S] : step[<<j, g>>] = body(g, j)
    OBVIOUS
  <1>4. \A j \in 1 .. n, g \in [1 .. n -> S] : body(g, j) \in S
    BY <1>2
  <1>5. ASSUME NEW j \in 1 .. n, NEW g \in [1 .. n -> S], NEW h \in [1 .. n -> S],
               \A k \in j + 1 .. n : g[k] = h[k]
        PROVE  body(g, j) = body(h, j)
    BY <1>2, <1>5
  <1>6. PICK f \in [1 .. n -> S] : SolvesDown(f, step, n)
    <2>1. StepDown(step, n, S)
      <3> HIDE DEF step, S, n, body
      <3>1. \A j \in 1 .. n, g \in [1 .. n -> S] : step[<<j, g>>] \in S
        BY <1>3, <1>4
      <3>2. ASSUME NEW j \in 1 .. n, NEW g \in [1 .. n -> S], NEW h \in [1 .. n -> S],
                   \A k \in j + 1 .. n : g[k] = h[k]
            PROVE  step[<<j, g>>] = step[<<j, h>>]
        <4>1. body(g, j) = body(h, j)
          BY <1>5, <3>2
        <4> QED BY <1>3, <4>1
      <3> QED BY <3>1, <3>2 DEF StepDown
    <2> HIDE DEF step, S, n, body
    <2> QED BY <1>1, <2>1, RecursionDown
  <1>7. f = [j \in 1 .. n |-> body(f, j)]
    <2> HIDE DEF step, body
    <2> QED BY <1>3, <1>6 DEF SolvesDown
  <1>8. moreUnits(s) = [j \in 1 .. n |-> body(moreUnits(s), j)]
    BY <1>7 DEF moreUnits
  <1> DEFINE F == moreUnits(s)
  <1> HIDE DEF F
  <1>9. ASSUME NEW j \in 1 .. n
        PROVE  F[j] = body(F, j)
    <2> HIDE DEF body, n
    <2> QED BY <1>8 DEF F
  <1> QED BY <1>9 DEF F, Pos

(* How the loop over the parameters goes on *)
LEMMA DataFromStep ==
  ASSUME NEW s \in Seq(Char)
  PROVE  \A j \in Pos(s) :
           LET p == parseProgramData(s, j)
               c == Comma(s, p.next)
           IN  dataFrom(s)[j] = CASE p.type = "UNKNOWN" -> MissingData(p.next)
                                  [] p.type # "UNKNOWN" /\ c.ret = 0 ->
                                       [ok |-> TRUE, len |-> p.ret, next |-> p.next, count |-> 1]
                                  [] OTHER -> Onto(p, c, dataFrom(s)[c.next])
  <1> DEFINE n == Len(s) + 1
             P(j) == parseProgramData(s, j)
             C(j) == Comma(s, P(j).next)
             S == Data(s, 1)
             body(g, j) ==
               CASE P(j).type = "UNKNOWN" -> MissingData(P(j).next)
                 [] P(j).type # "UNKNOWN" /\ C(j).ret = 0 ->
                      [ok |-> TRUE, len |-> P(j).ret, next |-> P(j).next, count |-> 1]
                 [] OTHER -> Onto(P(j), C(j), g[C(j).next])
             step == [p \in (1 .. n) \X [1 .. n -> S] |-> body(p[2], p[1])]
  <1>1. n \in Nat /\ S # {}
    <2>1. MissingData(1) \in S
      BY DEF Data, MissingData
    <2> QED BY <2>1
  <1>2. ASSUME NEW j \in 1 .. n
        PROVE  /\ P(j).next \in j .. n /\ P(j).ret \in Nat /\ P(j).ret <= P(j).next - j
               /\ C(j).next \in j .. n /\ C(j).ret \in Nat
               /\ P(j).ret + C(j).ret <= C(j).next - j
               /\ C(j).ret # 0 => C(j).next \in j + 1 .. n
    <2>1. j \in Pos(s)
      BY DEF Pos
    <2>2. Within(P(j), s, j)
      BY <2>1, ParameterWithin
    <2>3. P(j).next \in Pos(s)
      <3> HIDE DEF P
      <3> QED BY <2>1, <2>2, WithinPos
    <2>4. Within(C(j), s, P(j).next)
      <3> HIDE DEF P
      <3> QED BY <2>3, SeparatorsWithin
    <2> HIDE DEF P, C
    <2>5. P(j).next \in j .. n /\ P(j).ret \in 0 .. P(j).next - j
      BY <2>1, <2>2 DEF Within
    <2>6. C(j).next \in P(j).next .. n /\ C(j).ret \in 0 .. C(j).next - P(j).next
      BY <2>4 DEF Within
    <2>7. n \in Nat /\ j \in Nat /\ P(j).next \in Nat /\ C(j).next \in Nat
      BY <1>1, <2>5, <2>6
    <2> HIDE DEF n
    <2> QED BY <2>5, <2>6, <2>7, SMTT(30)
  <1>3. \A j \in 1 .. n, g \in [1 .. n -> S] : step[<<j, g>>] = body(g, j)
    OBVIOUS
  <1>4. \A j \in 1 .. n, g \in [1 .. n -> S] : body(g, j) \in S
    <2> SUFFICES ASSUME NEW j \in 1 .. n, NEW g \in [1 .. n -> S] PROVE body(g, j) \in S
      OBVIOUS
    <2>1. g[C(j).next] \in S
      BY <1>2
    <2> HIDE DEF P, C
    <2>2. CASE P(j).type = "UNKNOWN"
      <3>1. body(g, j) = MissingData(P(j).next)
        BY <2>2
      <3> HIDE DEF body
      <3> QED BY <1>2, <3>1 DEF Data, MissingData
    <2>3. CASE P(j).type # "UNKNOWN" /\ C(j).ret = 0
      <3>1. body(g, j) = [ok |-> TRUE, len |-> P(j).ret, next |-> P(j).next, count |-> 1]
        BY <2>3
      <3> HIDE DEF body
      <3> QED BY <1>2, <3>1 DEF Data
    <2>4. CASE P(j).type # "UNKNOWN" /\ C(j).ret # 0
      <3>1. body(g, j) = Onto(P(j), C(j), g[C(j).next])
        BY <2>4
      <3>2. Onto(P(j), C(j), g[C(j).next]) \in S
        <4> HIDE DEF body
        <4> QED BY <1>2, <2>1, OntoData
      <3> QED BY <3>1, <3>2
    <2> QED BY <2>2, <2>3, <2>4
  <1>5. ASSUME NEW j \in 1 .. n, NEW g \in [1 .. n -> S], NEW h \in [1 .. n -> S],
               \A k \in j + 1 .. n : g[k] = h[k]
        PROVE  body(g, j) = body(h, j)
    <2> HIDE DEF P, C
    <2> QED BY <1>2, <1>5
  <1>6. PICK f \in [1 .. n -> S] : SolvesDown(f, step, n)
    <2>1. StepDown(step, n, S)
      <3> HIDE DEF step, S, n, body
      <3>1. \A j \in 1 .. n, g \in [1 .. n -> S] : step[<<j, g>>] \in S
        BY <1>3, <1>4
      <3>2. ASSUME NEW j \in 1 .. n, NEW g \in [1 .. n -> S], NEW h \in [1 .. n -> S],
                   \A k \in j + 1 .. n : g[k] = h[k]
            PROVE  step[<<j, g>>] = step[<<j, h>>]
        <4>1. body(g, j) = body(h, j)
          BY <1>5, <3>2
        <4> QED BY <1>3, <4>1
      <3> QED BY <3>1, <3>2 DEF StepDown
    <2> HIDE DEF step, S, n, body
    <2> QED BY <1>1, <2>1, RecursionDown
  <1>7. f = [j \in 1 .. n |-> body(f, j)]
    <2> HIDE DEF step, body
    <2> QED BY <1>3, <1>6 DEF SolvesDown
  <1>8. dataFrom(s) = [j \in 1 .. n |-> body(dataFrom(s), j)]
    BY <1>7 DEF dataFrom
  <1> DEFINE F == dataFrom(s)
  <1> HIDE DEF F
  <1>9. ASSUME NEW j \in 1 .. n
        PROVE  F[j] = body(F, j)
    <2> HIDE DEF body, n
    <2> QED BY <1>8 DEF F
  <1> HIDE DEF n
  <1> QED BY <1>9 DEF F, Pos, n

-----------------------------------------------------------------------------
(* Suffixes in texts that are alike *)

(* A unit of measurement and its power end at the same characters, *)
LEMMA UnitsAlike ==
  ASSUME NEW s, NEW d, NEW o, NEW i, NEW q, NEW T, T \subseteq Ends, Alike(s, d, o, i, q, T), NEW j \in i .. q
  PROVE  /\ skipUnit(s, j + o) = skipUnit(d, j) + o
         /\ skipUnit(d, j) \in i .. q /\ skipUnit(d, j) >= j
         /\ skipPower(s, j + o) = skipPower(d, j) + o
         /\ skipPower(d, j) \in i .. q /\ skipPower(d, j) >= j
  <1>1. j \in Nat /\ o \in Int /\ q \in Nat /\ i \in Nat
    BY AlikePos
  <1>2. /\ Span(s, j + o, Alpha) = Span(d, j, Alpha)
        /\ Span(d, j, Alpha) \in Nat /\ j + Span(d, j, Alpha) \in i .. q
    BY SpanAlike, CharsFree
  <1>3. skipUnit(s, j + o) = skipUnit(d, j) + o /\ skipUnit(d, j) \in i .. q /\ skipUnit(d, j) >= j
    BY <1>1, <1>2 DEF skipUnit
  <1> DEFINE k == Opt(d, j, {"-"})
  <1>4. Opt(s, j + o, {"-"}) = k + o /\ k \in i .. q /\ k >= j
    <2>1. {"-"} \cap T = {}
      BY MarksFree
    <2> QED BY <2>1, OptAlike
  <1> HIDE DEF k
  <1>5. Opt(s, k + o, Digit) = Opt(d, k, Digit) + o /\ Opt(d, k, Digit) \in i .. q /\ Opt(d, k, Digit) >= k
    BY <1>4, OptAlike, CharsFree
  <1>6. skipPower(d, j) = Opt(d, k, Digit) /\ skipPower(s, j + o) = Opt(s, k + o, Digit)
    BY <1>4 DEF skipPower, k
  <1> QED BY <1>1, <1>3, <1>4, <1>5, <1>6

(* and so do the units that are multiplied or divided with it, *)
LEMMA MoreUnitsAlike ==
  ASSUME NEW s, NEW d, NEW o, NEW i, NEW q, NEW T, T \subseteq Ends, Alike(s, d, o, i, q, T)
  PROVE  \A j \in i .. q : /\ moreUnits(s)[j + o] = moreUnits(d)[j] + o
                           /\ moreUnits(d)[j] \in j .. q
  <1> DEFINE F == moreUnits(d)
             G == moreUnits(s)
             I == {j \in 1 .. q : j \in i .. q => G[j + o] = F[j] + o /\ F[j] \in j .. q}
  <1>1. i \in Nat /\ i >= 1 /\ q \in Nat /\ o \in Int /\ s \in Seq(Char) /\ d \in Seq(Char)
    BY DEF Alike
  <1>2. ASSUME NEW j \in i .. q, \A k \in j + 1 .. q : G[k + o] = F[k] + o /\ F[k] \in k .. q
        PROVE  G[j + o] = F[j] + o /\ F[j] \in j .. q
    <2>1. j \in Pos(d) /\ j + o \in Pos(s) /\ j \in Nat
      BY AlikePos
    <2>2. F[j] = IF At(d, j, {"/", "."}) THEN F[skipPower(d, skipUnit(d, j + 1))] ELSE j
      BY <1>1, <2>1, MoreUnitsStep
    <2>3. G[j + o] = IF At(s, j + o, {"/", "."}) THEN G[skipPower(s, skipUnit(s, j + o + 1))] ELSE j + o
      BY <1>1, <2>1, MoreUnitsStep
    <2>4. /\ At(s, j + o, {"/", "."}) <=> At(d, j, {"/", "."})
          /\ At(d, j, {"/", "."}) => j + 1 \in i .. q
      <3>1. {"/", "."} \cap T = {}
        BY MarksFree
      <3> QED BY <3>1, AtAlike
    <2> HIDE DEF F, G
    <2>5. CASE ~ At(d, j, {"/", "."})
      BY <1>1, <2>1, <2>2, <2>3, <2>4, <2>5
    <2>6. CASE At(d, j, {"/", "."})
      <3> DEFINE a == j + 1
                 b == skipUnit(d, a)
                 c == skipPower(d, b)
      <3>1. a \in i .. q /\ j + o + 1 = a + o
        BY <1>1, <2>1, <2>4, <2>6
      <3> HIDE DEF a
      <3>2. skipUnit(s, a + o) = b + o /\ b \in i .. q /\ b >= a
        BY <3>1, UnitsAlike
      <3> HIDE DEF b
      <3>3. skipPower(s, b + o) = c + o /\ c \in i .. q /\ c >= b
        BY <3>2, UnitsAlike
      <3>4. F[j] = F[c] /\ G[j + o] = G[c + o]
        BY <2>2, <2>3, <2>4, <2>6, <3>1, <3>2, <3>3 DEF a, b
      <3> HIDE DEF c
      <3>5. c \in j + 1 .. q
        BY <1>1, <2>1, <3>1, <3>2, <3>3 DEF a
      <3>6. G[c + o] = F[c] + o /\ F[c] \in c .. q
        BY <1>2, <3>5
      <3> QED BY <1>1, <2>1, <3>4, <3>5, <3>6
    <2> QED BY <2>5, <2>6
  <1>3. \A j \in 1 .. q : (\A k \in j + 1 .. q : k \in I) => j \in I
    <2> HIDE DEF F, G
    <2> SUFFICES ASSUME NEW j \in 1 .. q, \A k \in j + 1 .. q : k \in I PROVE j \in I
      OBVIOUS
    <2>1. CASE j \in i .. q
      <3>1. \A k \in j + 1 .. q : G[k + o] = F[k] + o /\ F[k] \in k .. q
        <4> TAKE k \in j + 1 .. q
        <4>1. k \in i .. q /\ k \in I
          BY <1>1, <2>1
        <4> QED BY <4>1
      <3> QED BY <1>2, <2>1, <3>1
    <2>2. CASE j \notin i .. q
      BY <2>2
    <2> QED BY <2>1, <2>2
  <1>4. \A j \in 1 .. q : j \in I
    <2> HIDE DEF I
    <2> QED BY <1>1, <1>3, InductionDown
  <1>5. ASSUME NEW j \in i .. q PROVE j \in I
    BY <1>1, <1>4
  <1> QED BY <1>5

(* and the whole suffix. *)
LEMMA SuffixAlike ==
  ASSUME NEW s, NEW d, NEW o, NEW i, NEW q, NEW T, T \subseteq Ends, Alike(s, d, o, i, q, T), NEW j \in i .. q
  PROVE  /\ SuffixProgramData(s, j + o) = Shifted(SuffixProgramData(d, j), o)
         /\ SuffixProgramData(d, j).next \in j .. q
  <1> DEFINE a == Opt(d, j, {"/"})
             b == skipUnit(d, a)
             c == skipPower(d, b)
             e == IF b > a THEN moreUnits(d)[c] ELSE a
             e2 == IF b + o > a + o THEN moreUnits(s)[c + o] ELSE a + o
  <1>1. j \in Nat /\ o \in Int /\ q \in Nat /\ i \in Nat
    BY AlikePos
  <1>2. Opt(s, j + o, {"/"}) = a + o /\ a \in i .. q /\ a >= j
    <2>1. {"/"} \cap T = {}
      BY MarksFree
    <2> QED BY <2>1, OptAlike
  <1> HIDE DEF a
  <1>3. skipUnit(s, a + o) = b + o /\ b \in i .. q /\ b >= a
    BY <1>2, UnitsAlike
  <1> HIDE DEF b
  <1>4. skipPower(s, b + o) = c + o /\ c \in i .. q /\ c >= b
    BY <1>3, UnitsAlike
  <1> HIDE DEF c
  <1>5. moreUnits(s)[c + o] = moreUnits(d)[c] + o /\ moreUnits(d)[c] \in c .. q
    BY <1>4, MoreUnitsAlike
  <1>6. SuffixProgramData(d, j) = FoundOrNone("SUFFIX", j, e)
    BY DEF SuffixProgramData, a, b, c
  <1>7. SuffixProgramData(s, j + o) = FoundOrNone("SUFFIX", j + o, e2)
    BY <1>2, <1>3, <1>4 DEF SuffixProgramData
  <1>8. e2 = e + o /\ e \in j .. q
    BY <1>1, <1>2, <1>3, <1>4, <1>5
  <1> HIDE DEF e, e2
  <1>9. FoundOrNone("SUFFIX", j + o, e + o) = Shifted(FoundOrNone("SUFFIX", j, e), o) /\ e \in Int
    BY <1>1, <1>8, ShiftedFound
  <1>10. FoundOrNone("SUFFIX", j, e).next \in j .. q
    BY <1>1, <1>8 DEF FoundOrNone, Found, None, Token
  <1> QED BY <1>6, <1>7, <1>8, <1>9, <1>10

(* The result of a skip function, o characters further on *)
Moved(h, o) == [res |-> h.res, next |-> h.next + o]

(* The mnemonics of a compound header are the same, with the same outcome. *)
LEMMA MoreMnemonicsAlike ==
  ASSUME NEW s, NEW d, NEW o, NEW i, NEW q, NEW T, T \subseteq Ends, Alike(s, d, o, i, q, T)
  PROVE  \A j \in i .. q : /\ moreMnemonics(s)[j + o] = Moved(moreMnemonics(d)[j], o)
                           /\ moreMnemonics(d)[j].next \in j .. q
  <1> DEFINE F == moreMnemonics(d)
             G == moreMnemonics(s)
             I == {j \in 1 .. q : j \in i .. q => G[j + o] = Moved(F[j], o) /\ F[j].next \in j .. q}
  <1>1. i \in Nat /\ i >= 1 /\ q \in Nat /\ o \in Int /\ s \in Seq(Char) /\ d \in Seq(Char)
    BY DEF Alike
  <1>2. ASSUME NEW j \in i .. q, \A k \in j + 1 .. q : G[k + o] = Moved(F[k], o) /\ F[k].next \in k .. q
        PROVE  G[j + o] = Moved(F[j], o) /\ F[j].next \in j .. q
    <2>1. j \in Pos(d) /\ j + o \in Pos(s) /\ j \in Nat
      BY AlikePos
    <2> DEFINE a == j + 1
               c == skipProgramMnemonic(d, a)
               c2 == skipProgramMnemonic(s, j + o + 1)
    <2>2. F[j] = IF ~ At(d, j, {":"}) THEN [res |-> "OK", next |-> j]
                 ELSE IF c = a THEN [res |-> "INCOMPLETE", next |-> a]
                 ELSE F[c]
      BY <1>1, <2>1, MoreMnemonicsStep
    <2>3. G[j + o] = IF ~ At(s, j + o, {":"}) THEN [res |-> "OK", next |-> j + o]
                     ELSE IF c2 = j + o + 1 THEN [res |-> "INCOMPLETE", next |-> j + o + 1]
                     ELSE G[c2]
      BY <1>1, <2>1, MoreMnemonicsStep
    <2>4. /\ At(s, j + o, {":"}) <=> At(d, j, {":"})
          /\ At(d, j, {":"}) => j + 1 \in i .. q
      <3>1. {":"} \cap T = {}
        BY MarksFree
      <3> QED BY <3>1, AtAlike
    <2> HIDE DEF F, G
    <2>5. CASE ~ At(d, j, {":"})
      BY <1>1, <2>1, <2>2, <2>3, <2>4, <2>5 DEF Moved
    <2>6. CASE At(d, j, {":"})
      <3>1. a \in i .. q /\ j + o + 1 = a + o /\ a \in j + 1 .. q
        BY <1>1, <2>1, <2>4, <2>6
      <3>2. c2 = skipProgramMnemonic(s, a + o)
        BY <3>1
      <3> HIDE DEF a, c, c2
      <3>3. skipProgramMnemonic(s, a + o) = c + o /\ c \in i .. q /\ c >= a
        BY <3>1, MnemonicAlike DEF c
      <3>4. c2 = c + o /\ c \in a .. q
        BY <1>1, <3>1, <3>2, <3>3
      <3>5. CASE c = a
        <4>1. F[j] = [res |-> "INCOMPLETE", next |-> a]
          BY <2>2, <2>6, <3>5
        <4>2. G[j + o] = [res |-> "INCOMPLETE", next |-> a + o]
          BY <2>3, <2>4, <2>6, <3>1, <3>4, <3>5
        <4> QED BY <1>1, <2>1, <3>1, <4>1, <4>2 DEF Moved
      <3>6. CASE c # a
        <4>1. F[j] = F[c] /\ G[j + o] = G[c + o]
          <5>1. c + o # a + o
            BY <1>1, <3>1, <3>4, <3>6
          <5> QED BY <2>2, <2>3, <2>4, <2>6, <3>1, <3>4, <3>6, <5>1
        <4>2. c \in j + 1 .. q
          BY <1>1, <2>1, <3>1, <3>4
        <4>3. G[c + o] = Moved(F[c], o) /\ F[c].next \in c .. q
          BY <1>2, <4>2
        <4> QED BY <1>1, <2>1, <4>1, <4>2, <4>3
      <3> QED BY <3>5, <3>6
    <2> QED BY <2>5, <2>6
  <1>3. \A j \in 1 .. q : (\A k \in j + 1 .. q : k \in I) => j \in I
    <2> HIDE DEF F, G
    <2> SUFFICES ASSUME NEW j \in 1 .. q, \A k \in j + 1 .. q : k \in I PROVE j \in I
      OBVIOUS
    <2>1. CASE j \in i .. q
      <3>1. \A k \in j + 1 .. q : G[k + o] = Moved(F[k], o) /\ F[k].next \in k .. q
        <4> TAKE k \in j + 1 .. q
        <4>1. k \in i .. q /\ k \in I
          BY <1>1, <2>1
        <4> QED BY <4>1
      <3> QED BY <1>2, <2>1, <3>1
    <2>2. CASE j \notin i .. q
      BY <2>2
    <2> QED BY <2>1, <2>2
  <1>4. \A j \in 1 .. q : j \in I
    <2> HIDE DEF I
    <2> QED BY <1>1, <1>3, InductionDown
  <1>5. ASSUME NEW j \in i .. q PROVE j \in I
    BY <1>1, <1>4
  <1> QED BY <1>5

-----------------------------------------------------------------------------
(* Headers in texts that are alike *)

(* A common header, with its outcome, *)
LEMMA CommonAlike ==
  ASSUME NEW s, NEW d, NEW o, NEW i, NEW q, NEW T, T \subseteq Ends, Alike(s, d, o, i, q, T), NEW j \in i .. q
  PROVE  /\ skipCommonProgramHeader(s, j + o) = Moved(skipCommonProgramHeader(d, j), o)
         /\ skipCommonProgramHeader(d, j).next \in j .. q
         /\ skipCommonProgramHeader(d, j).res \in {"OK", "INCOMPLETE", "NONE"}
  <1> DEFINE a == j + 1
             k == skipProgramMnemonic(d, a)
             k2 == skipProgramMnemonic(s, j + o + 1)
             x == skipCommonProgramHeader(d, j)
             y == skipCommonProgramHeader(s, j + o)
  <1>1. j \in Nat /\ o \in Int /\ q \in Nat /\ i \in Nat /\ j <= q
    BY AlikePos
  <1>2. /\ At(s, j + o, {"*"}) <=> At(d, j, {"*"})
        /\ At(d, j, {"*"}) => j + 1 \in i .. q
    <2>1. {"*"} \cap T = {}
      BY MarksFree
    <2> QED BY <2>1, AtAlike
  <1>3. x = IF ~ At(d, j, {"*"}) THEN [res |-> "NONE", next |-> j]
            ELSE [res |-> IF k > a THEN "OK" ELSE "INCOMPLETE", next |-> k]
    BY DEF skipCommonProgramHeader
  <1>4. y = IF ~ At(s, j + o, {"*"}) THEN [res |-> "NONE", next |-> j + o]
            ELSE [res |-> IF k2 > j + o + 1 THEN "OK" ELSE "INCOMPLETE", next |-> k2]
    BY DEF skipCommonProgramHeader
  <1> HIDE DEF x, y
  <1>5. CASE ~ At(d, j, {"*"})
    <2>1. x = [res |-> "NONE", next |-> j] /\ y = [res |-> "NONE", next |-> j + o]
      BY <1>2, <1>3, <1>4, <1>5
    <2> QED BY <1>1, <2>1 DEF Moved, x, y
  <1>6. CASE At(d, j, {"*"})
    <2>1. a \in i .. q /\ j + o + 1 = a + o
      BY <1>1, <1>2, <1>6
    <2>2. k2 = skipProgramMnemonic(s, a + o)
      BY <2>1
    <2> HIDE DEF a, k, k2
    <2>3. k2 = k + o /\ k \in i .. q /\ k >= a
      BY <2>1, <2>2, MnemonicAlike DEF k
    <2>4. k2 > j + o + 1 <=> k > a
      BY <1>1, <2>1, <2>3
    <2>5. k \in j .. q
      BY <1>1, <2>1, <2>3 DEF a
    <2> DEFINE res == IF k > a THEN "OK" ELSE "INCOMPLETE"
    <2>6. x = [res |-> res, next |-> k] /\ y = [res |-> res, next |-> k + o]
      BY <1>2, <1>3, <1>4, <1>6, <2>3, <2>4
    <2>7. res \in {"OK", "INCOMPLETE", "NONE"}
      OBVIOUS
    <2> HIDE DEF res
    <2> QED BY <2>5, <2>6, <2>7 DEF Moved, x, y
  <1> QED BY <1>5, <1>6

(* (the outcomes there are) *)
LEMMA MoreMnemonicsRes ==
  ASSUME NEW d \in Seq(Char), NEW j \in Pos(d)
  PROVE  moreMnemonics(d)[j].res \in {"OK", "INCOMPLETE", "NONE"}
  BY MoreMnemonics DEF Stop

(* a compound one, *)
LEMMA CompoundAlike ==
  ASSUME NEW s, NEW d, NEW o, NEW i, NEW q, NEW T, T \subseteq Ends, Alike(s, d, o, i, q, T), NEW j \in i .. q
  PROVE  /\ skipCompoundProgramHeader(s, j + o) = Moved(skipCompoundProgramHeader(d, j), o)
         /\ skipCompoundProgramHeader(d, j).next \in j .. q
         /\ skipCompoundProgramHeader(d, j).res \in {"OK", "INCOMPLETE", "NONE"}
  <1> DEFINE a == Opt(d, j, {":"})
             a2 == Opt(s, j + o, {":"})
             k == skipProgramMnemonic(d, a)
             k2 == skipProgramMnemonic(s, a2)
             x == skipCompoundProgramHeader(d, j)
             y == skipCompoundProgramHeader(s, j + o)
  <1>1. j \in Nat /\ o \in Int /\ q \in Nat /\ i \in Nat /\ j <= q /\ i <= j /\ d \in Seq(Char)
    BY AlikePos
  <1>2. a2 = a + o /\ a \in i .. q /\ a >= j
    <2>1. {":"} \cap T = {}
      BY MarksFree
    <2> QED BY <2>1, OptAlike
  <1> HIDE DEF a, a2
  <1>3. k2 = k + o /\ k \in i .. q /\ k >= a
    BY <1>2, MnemonicAlike
  <1>4. x = CASE k > a -> moreMnemonics(d)[k]
              [] k = a /\ a > j -> [res |-> "INCOMPLETE", next |-> k]
              [] OTHER -> [res |-> "NONE", next |-> j]
    BY DEF skipCompoundProgramHeader, a
  <1>5. y = CASE k2 > a2 -> moreMnemonics(s)[k2]
              [] k2 = a2 /\ a2 > j + o -> [res |-> "INCOMPLETE", next |-> k2]
              [] OTHER -> [res |-> "NONE", next |-> j + o]
    BY DEF skipCompoundProgramHeader, a2
  <1>6. moreMnemonics(s)[k + o] = Moved(moreMnemonics(d)[k], o) /\ moreMnemonics(d)[k].next \in k .. q
    <2> HIDE DEF k
    <2> QED BY <1>3, MoreMnemonicsAlike
  <1>7. moreMnemonics(d)[k].res \in {"OK", "INCOMPLETE", "NONE"}
    <2> HIDE DEF k
    <2>1. k \in Pos(d)
      BY <1>3, AlikePos
    <2> QED BY <1>1, <2>1, MoreMnemonicsRes
  <1> HIDE DEF x, y, k, k2
  <1>8. (k2 > a2 <=> k > a) /\ (k2 = a2 <=> k = a) /\ (a2 > j + o <=> a > j)
    BY <1>1, <1>2, <1>3
  <1>9. CASE k > a
    <2>1. x = moreMnemonics(d)[k] /\ y = moreMnemonics(s)[k2]
      <3>1. k # a /\ k2 # a2
        BY <1>2, <1>3, <1>8, <1>9
      <3> QED BY <1>4, <1>5, <1>8, <1>9, <3>1
    <2>2. k \in j .. q
      BY <1>1, <1>2, <1>3
    <2> QED BY <1>1, <1>3, <1>6, <1>7, <2>1, <2>2 DEF x, y
  <1>10. CASE ~ (k > a) /\ k = a /\ a > j
    <2>1. x = [res |-> "INCOMPLETE", next |-> k] /\ y = [res |-> "INCOMPLETE", next |-> k2]
      BY <1>4, <1>5, <1>8, <1>10
    <2>2. k \in j .. q
      BY <1>1, <1>2, <1>3
    <2> QED BY <1>3, <2>1, <2>2 DEF x, y, Moved
  <1>11. CASE ~ (k > a) /\ ~ (k = a /\ a > j)
    <2>1. x = [res |-> "NONE", next |-> j] /\ y = [res |-> "NONE", next |-> j + o]
      BY <1>4, <1>5, <1>8, <1>11
    <2> QED BY <1>1, <2>1 DEF x, y, Moved
  <1> QED BY <1>9, <1>10, <1>11

(* the token of either, *)
LEMMA HeaderTokenAlike ==
  ASSUME NEW s, NEW d, NEW o, NEW i, NEW q, NEW T, T \subseteq Ends, Alike(s, d, o, i, q, T), NEW j \in i .. q,
         NEW kind, NEW h, h.next \in j .. q, h.res \in {"OK", "INCOMPLETE", "NONE"}
  PROVE  /\ HeaderToken(s, j + o, kind, Moved(h, o)) = Shifted(HeaderToken(d, j, kind, h), o)
         /\ HeaderToken(d, j, kind, h).next \in j .. q
  <1> DEFINE a == Opt(d, h.next, {"?"})
             a2 == Opt(s, h.next + o, {"?"})
             type == IF a > h.next THEN kind \o "_QUERY" ELSE kind
             type2 == IF a2 > h.next + o THEN kind \o "_QUERY" ELSE kind
             x == HeaderToken(d, j, kind, h)
             y == HeaderToken(s, j + o, kind, Moved(h, o))
  <1>1. j \in Nat /\ o \in Int /\ q \in Nat /\ i \in Nat /\ j <= q /\ i <= j /\ h.next \in Nat /\ h.next \in i .. q
    BY AlikePos
  <1>2. a2 = a + o /\ a \in i .. q /\ a >= h.next
    <2>1. {"?"} \cap T = {}
      BY MarksFree
    <2> QED BY <1>1, <2>1, OptAlike
  <1>3. x = CASE h.res = "OK" -> Found(type, j, a)
              [] h.res = "INCOMPLETE" -> Found("INCOMPLETE_" \o kind, j, h.next)
              [] h.res = "NONE" -> None(j)
    BY DEF HeaderToken
  <1>4. y = CASE h.res = "OK" -> Found(type2, j + o, a2)
              [] h.res = "INCOMPLETE" -> Found("INCOMPLETE_" \o kind, j + o, h.next + o)
              [] h.res = "NONE" -> None(j + o)
    BY DEF HeaderToken, Moved
  <1> HIDE DEF a, a2
  <1>5. type2 = type
    BY <1>1, <1>2
  <1>6. \A t : /\ Found(t, j + o, a + o) = Shifted(Found(t, j, a), o)
               /\ Found(t, j + o, h.next + o) = Shifted(Found(t, j, h.next), o)
               /\ None(j + o) = Shifted(None(j), o)
    <2>1. a \in Int /\ h.next \in Int /\ j \in Int /\ o \in Int
      BY <1>1, <1>2
    <2> DEFINE n == h.next
    <2>2. n \in Int
      BY <2>1
    <2> HIDE DEF n
    <2>3. \A t : /\ Found(t, j + o, a + o) = Shifted(Found(t, j, a), o)
                 /\ Found(t, j + o, n + o) = Shifted(Found(t, j, n), o)
                 /\ None(j + o) = Shifted(None(j), o)
      <3> TAKE t
      <3>1. Found(t, j + o, a + o) = Shifted(Found(t, j, a), o)
        BY <2>1, FoundShifted
      <3>2. Found(t, j + o, n + o) = Shifted(Found(t, j, n), o)
        BY <2>1, <2>2, FoundShifted
      <3>3. None(j + o) = Shifted(None(j), o)
        BY <2>1, ShiftedFound, Zenon
      <3> QED BY <3>1, <3>2, <3>3
    <2> QED BY <2>3 DEF n
  <1> DEFINE inc == "INCOMPLETE_" \o kind
  <1> HIDE DEF x, y, type, type2, inc
  <1>7. CASE h.res = "OK"
    <2>1. x = Found(type, j, a) /\ y = Found(type, j + o, a + o)
      BY <1>2, <1>3, <1>4, <1>5, <1>7
    <2>2. Found(type, j, a).next = a
      BY DEF Found, Token
    <2> QED BY <1>1, <1>2, <1>6, <2>1, <2>2 DEF x, y
  <1>8. CASE h.res = "INCOMPLETE"
    <2>1. x = Found(inc, j, h.next) /\ y = Found(inc, j + o, h.next + o)
      BY <1>3, <1>4, <1>8 DEF inc
    <2>2. Found(inc, j, h.next).next = h.next
      BY DEF Found, Token
    <2> QED BY <1>1, <1>6, <2>1, <2>2 DEF x, y
  <1>9. CASE h.res = "NONE"
    <2>1. x = None(j) /\ y = None(j + o)
      BY <1>3, <1>4, <1>9
    <2>2. None(j).next = j
      BY DEF None, Token
    <2> QED BY <1>1, <1>6, <2>1, <2>2 DEF x, y
  <1> QED BY <1>7, <1>8, <1>9

(* and so the header of a unit are the same. *)
LEMMA HeaderAlike ==
  ASSUME NEW s, NEW d, NEW o, NEW i, NEW q, NEW T, T \subseteq Ends, Alike(s, d, o, i, q, T), NEW j \in i .. q
  PROVE  /\ ProgramHeader(s, j + o) = Shifted(ProgramHeader(d, j), o)
         /\ ProgramHeader(d, j).next \in j .. q
  <1> DEFINE c == skipCommonProgramHeader(d, j)
             m == skipCompoundProgramHeader(d, j)
  <1>1. /\ skipCommonProgramHeader(s, j + o) = Moved(c, o) /\ c.next \in j .. q
        /\ c.res \in {"OK", "INCOMPLETE", "NONE"}
    BY CommonAlike
  <1>2. /\ skipCompoundProgramHeader(s, j + o) = Moved(m, o) /\ m.next \in j .. q
        /\ m.res \in {"OK", "INCOMPLETE", "NONE"}
    BY CompoundAlike
  <1> HIDE DEF c, m
  <1>3. \A kind : /\ HeaderToken(s, j + o, kind, Moved(c, o)) = Shifted(HeaderToken(d, j, kind, c), o)
                  /\ HeaderToken(d, j, kind, c).next \in j .. q
    BY <1>1, HeaderTokenAlike
  <1>4. \A kind : /\ HeaderToken(s, j + o, kind, Moved(m, o)) = Shifted(HeaderToken(d, j, kind, m), o)
                  /\ HeaderToken(d, j, kind, m).next \in j .. q
    BY <1>2, HeaderTokenAlike
  <1>5. ProgramHeader(d, j) = IF c.res # "NONE" THEN HeaderToken(d, j, "COMMON", c)
                              ELSE HeaderToken(d, j, "COMPOUND", m)
    BY DEF ProgramHeader, c, m
  <1>6. ProgramHeader(s, j + o) = IF c.res # "NONE" THEN HeaderToken(s, j + o, "COMMON", Moved(c, o))
                                  ELSE HeaderToken(s, j + o, "COMPOUND", Moved(m, o))
    BY <1>1, <1>2 DEF ProgramHeader, Moved
  <1> QED BY <1>3, <1>4, <1>5, <1>6

-----------------------------------------------------------------------------
(* Lines in common, and the numbers in them *)

(* Texts that are alike up to a line end, this included, without a quote
   before it *)
Lined(s, d, o, i, q) ==
  /\ Alike(s, d, o, i, q, Lines) /\ q <= Len(d) /\ q + o <= Len(s) /\ s[q + o] = d[q]
  /\ \A k \in i .. q : d[k] \notin Quote

(* Texts that have a line in common are alike up to its end. *)
LEMMA LinedAlike ==
  ASSUME NEW s, NEW d, NEW o, NEW i, NEW q, Lined(s, d, o, i, q)
  PROVE  Alike(s, d, o, i, q, Lines) /\ Lines \subseteq Ends
  BY LinesFree DEF Lined

(* The positions of a common line are positions of both texts. *)
LEMMA LinedPos ==
  ASSUME NEW s, NEW d, NEW o, NEW i, NEW q, Lined(s, d, o, i, q), NEW j \in i .. q
  PROVE  /\ j \in Pos(d) /\ j + o \in Pos(s) /\ j \in Nat /\ j >= 1 /\ j <= q /\ i <= j
         /\ s \in Seq(Char) /\ d \in Seq(Char) /\ o \in Int /\ Len(s) \in Nat /\ Len(d) \in Nat
         /\ q \in Nat /\ i \in Nat /\ q <= Len(d) /\ q + o <= Len(s)
  BY LinedAlike, AlikePos DEF Lined

(* White space ends at the same character, *)
LEMMA WsLined ==
  ASSUME NEW s, NEW d, NEW o, NEW i, NEW q, Lined(s, d, o, i, q), NEW j \in i .. q
  PROVE  skipWs(s, j + o) = skipWs(d, j) + o /\ skipWs(d, j) \in j .. q
  <1>1. /\ Span(s, j + o, Blank) = Span(d, j, Blank)
        /\ Span(d, j, Blank) \in Nat /\ j + Span(d, j, Blank) \in i .. q
    <2>1. Alike(s, d, o, i, q, Lines) /\ Blank \cap Lines = {}
      BY LinedAlike, LinesFree
    <2> QED BY <2>1, SpanAlike
  <1>2. j \in Nat /\ o \in Int /\ q \in Nat /\ i \in Nat
    BY LinedPos
  <1> QED BY <1>1, <1>2 DEF skipWs

(* an exponent too, *)
LEMMA ExponentLined ==
  ASSUME NEW s, NEW d, NEW o, NEW i, NEW q, Lined(s, d, o, i, q), NEW j \in i .. q
  PROVE  skipExponent(s, j + o) = skipExponent(d, j) + o /\ skipExponent(d, j) \in j .. q
  <1> DEFINE e == skipWs(d, j)
             a == e + 1
             b == skipWs(d, a)
             c == Opt(d, b, {"+", "-"})
             n == Span(d, c, Digit)
             e2 == skipWs(s, j + o)
             c2 == Opt(s, skipWs(s, e2 + 1), {"+", "-"})
             n2 == Span(s, c2, Digit)
  <1>1. j \in Nat /\ o \in Int /\ q \in Nat /\ i \in Nat /\ i <= j /\ j <= q
    BY LinedPos
  <1>2. e2 = e + o /\ e \in j .. q /\ e \in i .. q
    BY <1>1, WsLined
  <1>3. Alike(s, d, o, i, q, Lines) /\ Lines \subseteq Ends
    BY LinedAlike
  <1>4. skipExponent(d, j) = IF At(d, e, {"E"}) /\ n > 0 THEN c + n ELSE j
    BY DEF skipExponent
  <1>5. skipExponent(s, j + o) = IF At(s, e2, {"E"}) /\ n2 > 0 THEN c2 + n2 ELSE j + o
    BY DEF skipExponent
  <1> HIDE DEF e, e2
  <1>6. /\ At(s, e + o, {"E"}) <=> At(d, e, {"E"})
        /\ At(d, e, {"E"}) => e + 1 \in i .. q
    <2>1. {"E"} \cap Lines = {}
      BY <1>3, MarksFree
    <2> QED BY <1>2, <1>3, <2>1, AtAlike
  <1>7. CASE ~ At(d, e, {"E"})
    BY <1>1, <1>2, <1>4, <1>5, <1>6, <1>7
  <1>8. CASE At(d, e, {"E"})
    <2>1. a \in i .. q /\ e2 + 1 = a + o
      BY <1>1, <1>2, <1>6, <1>8
    <2>2. c2 = Opt(s, skipWs(s, a + o), {"+", "-"})
      BY <2>1
    <2> HIDE DEF a
    <2>3. skipWs(s, a + o) = b + o /\ b \in a .. q /\ b \in i .. q
      <3>1. skipWs(s, a + o) = b + o /\ b \in a .. q
        BY <2>1, WsLined
      <3> QED BY <1>1, <2>1, <3>1
    <2> HIDE DEF b, c2
    <2>4. Opt(s, b + o, {"+", "-"}) = c + o /\ c \in i .. q /\ c >= b
      <3>1. {"+", "-"} \cap Lines = {}
        BY <1>3, MarksFree
      <3> QED BY <1>3, <2>3, <3>1, OptAlike
    <2>5. c2 = c + o
      BY <2>2, <2>3, <2>4
    <2> HIDE DEF c
    <2>6. n2 = n /\ n \in Nat /\ c + n \in i .. q
      <3>1. Digit \cap Lines = {}
        BY <1>3, CharsFree
      <3> QED BY <1>3, <2>4, <2>5, <3>1, SpanAlike
    <2> HIDE DEF n, n2
    <2>7. c + n \in j .. q /\ c2 + n2 = (c + n) + o
      BY <1>1, <1>2, <2>1, <2>3, <2>4, <2>5, <2>6 DEF a
    <2> QED BY <1>1, <1>2, <1>4, <1>5, <1>6, <1>8, <2>6, <2>7
  <1> QED BY <1>7, <1>8

(* and a decimal number. *)
LEMMA DecimalLined ==
  ASSUME NEW s, NEW d, NEW o, NEW i, NEW q, Lined(s, d, o, i, q), NEW j \in i .. q
  PROVE  /\ DecimalNumericProgramData(s, j + o) = Shifted(DecimalNumericProgramData(d, j), o)
         /\ DecimalNumericProgramData(d, j).next \in j .. q
  <1> DEFINE a == Opt(d, j, {"+", "-"})
             m == Span(d, a, Digit)
             b == a + m
             p == Opt(d, b, {"."})
             f == IF p > a + m THEN Span(d, p, Digit) ELSE 0
             g == p + f
             x == skipExponent(d, g)
             a2 == Opt(s, j + o, {"+", "-"})
             m2 == Span(s, a2, Digit)
             p2 == Opt(s, a2 + m2, {"."})
             f2 == IF p2 > a2 + m2 THEN Span(s, p2, Digit) ELSE 0
             x2 == skipExponent(s, p2 + f2)
  <1>1. j \in Nat /\ o \in Int /\ q \in Nat /\ i \in Nat /\ i <= j /\ j <= q
    BY LinedPos
  <1>2. Alike(s, d, o, i, q, Lines) /\ Lines \subseteq Ends
    BY LinedAlike
  <1>3. DecimalNumericProgramData(d, j) = IF m + f = 0 THEN None(j) ELSE Found("DECIMAL", j, x)
    BY DEF DecimalNumericProgramData
  <1>4. DecimalNumericProgramData(s, j + o) = IF m2 + f2 = 0 THEN None(j + o) ELSE Found("DECIMAL", j + o, x2)
    BY DEF DecimalNumericProgramData
  <1>5. Digit \cap Lines = {} /\ {"+", "-"} \cap Lines = {} /\ {"."} \cap Lines = {}
    BY <1>2, MarksFree, CharsFree
  <1>6. a2 = a + o /\ a \in i .. q /\ a >= j
    <2>1. {"+", "-"} \cap Lines = {}
      BY <1>5
    <2> QED BY <1>2, <2>1, OptAlike
  <1> HIDE DEF a, a2
  <1>7. m2 = m /\ m \in Nat /\ a + m \in i .. q
    BY <1>2, <1>5, <1>6, SpanAlike
  <1> HIDE DEF m, m2
  <1>8. a2 + m2 = b + o /\ b \in i .. q /\ b >= a
    BY <1>1, <1>6, <1>7
  <1>9. p2 = p + o /\ p \in i .. q /\ p >= b
    <2>1. {"."} \cap Lines = {}
      BY <1>5
    <2> HIDE DEF b
    <2>2. Opt(s, b + o, {"."}) = p + o /\ p \in i .. q /\ p >= b
      BY <1>2, <1>8, <2>1, OptAlike
    <2> QED BY <1>8, <2>2
  <1> HIDE DEF p, p2
  <1>10. Span(s, p + o, Digit) = Span(d, p, Digit) /\ Span(d, p, Digit) \in Nat /\ p + Span(d, p, Digit) \in i .. q
    BY <1>2, <1>5, <1>9, SpanAlike
  <1>11. f2 = f /\ f \in Nat /\ g \in i .. q /\ p2 + f2 = g + o /\ g >= p
    BY <1>1, <1>6, <1>7, <1>8, <1>9, <1>10
  <1> HIDE DEF f, f2, g
  <1>12. x2 = x + o /\ x \in g .. q
    BY <1>11, ExponentLined
  <1> HIDE DEF x, x2
  <1>13. x \in j .. q /\ (m2 + f2 = 0 <=> m + f = 0)
    BY <1>1, <1>6, <1>7, <1>8, <1>9, <1>11, <1>12
  <1>14. /\ Found("DECIMAL", j + o, x + o) = Shifted(Found("DECIMAL", j, x), o)
         /\ None(j + o) = Shifted(None(j), o)
    <2>1. x \in Int /\ j \in Int /\ o \in Int
      BY <1>1, <1>13
    <2>2. \A type : Found(type, j + o, x + o) = Shifted(Found(type, j, x), o)
      BY <2>1, FoundShifted
    <2> QED BY <2>1, <2>2, NoneShifted
  <1>15. Found("DECIMAL", j, x).next = x /\ None(j).next = j
    BY DEF Found, None, Token
  <1> QED BY <1>1, <1>3, <1>4, <1>12, <1>13, <1>14, <1>15

(* How the length of a block is made of its digits *)
LEMMA LengthSteps ==
  ASSUME NEW s \in Seq(Char), NEW i \in Nat, NEW n \in Nat,
         \A j \in 1 .. n : s[i + 1 + j] \in Digit
  PROVE  \E f : /\ lengthOfBlock(s, i, n) = f[n] /\ f[0] = 0
               /\ \A j \in 1 .. n : f[j] = 10 * f[j - 1] + Numeral[s[i + 1 + j]]
  <1> DEFINE d(j) == Numeral[s[i + 1 + j]]
             body(f, j) == IF j = 0 THEN 0 ELSE 10 * f[j - 1] + d(j)
             step == [p \in (1 .. n) \X Nat |-> 10 * p[2] + d(p[1])]
             F == CHOOSE g : g = [j \in 0 .. n |-> body(g, j)]
  <1>1. \A j \in 1 .. n : d(j) \in Nat
    BY NumeralNat
  <1>2. lengthOfBlock(s, i, n) = F[n]
    BY DEF lengthOfBlock
  <1> HIDE DEF d
  <1>3. \A j \in 1 .. n, v \in Nat : step[<<j, v>>] = 10 * v + d(j)
    OBVIOUS
  <1>4. StepUp(step, n, Nat)
    <2> HIDE DEF step
    <2>1. ASSUME NEW j \in 1 .. n, NEW v \in Nat PROVE step[<<j, v>>] \in Nat
      <3>1. d(j) \in Nat /\ step[<<j, v>>] = 10 * v + d(j)
        BY <1>1, <1>3
      <3> QED BY <3>1
    <2> QED BY <2>1 DEF StepUp
  <1>5. PICK f \in [0 .. n -> Nat] : SolvesUp(f, step, n, 0)
    <2> HIDE DEF step
    <2> QED BY <1>4, RecursionUp
  <1>6. f = [j \in 0 .. n |-> body(f, j)]
    <2> HIDE DEF step
    <2>1. f = [j \in 0 .. n |-> IF j = 0 THEN 0 ELSE step[<<j, f[j - 1]>>]]
      BY <1>5 DEF SolvesUp
    <2>2. ASSUME NEW j \in 1 .. n PROVE step[<<j, f[j - 1]>>] = 10 * f[j - 1] + d(j)
      <3>1. f[j - 1] \in Nat
        OBVIOUS
      <3> QED BY <1>3, <3>1
    <2>3. ASSUME NEW j \in 0 .. n PROVE f[j] = body(f, j)
      <3>1. f[j] = IF j = 0 THEN 0 ELSE step[<<j, f[j - 1]>>]
        BY <2>1, Zenon
      <3>2. CASE j = 0
        BY <3>1, <3>2
      <3>3. CASE j # 0
        <4>1. j \in 1 .. n
          BY <3>3
        <4> QED BY <2>2, <3>1, <3>3, <4>1
      <3> QED BY <3>2, <3>3
    <2> QED BY <2>1, <2>3
  <1>7. F = [j \in 0 .. n |-> body(F, j)]
    BY <1>6
  <1> HIDE DEF F
  <1>8. F[0] = 0 /\ \A j \in 1 .. n : F[j] = 10 * F[j - 1] + d(j)
    <2> HIDE DEF d
    <2>1. F[0] = 0
      BY <1>7
    <2>2. ASSUME NEW j \in 1 .. n PROVE F[j] = 10 * F[j - 1] + d(j)
      <3>1. j \in 0 .. n /\ j # 0
        OBVIOUS
      <3>2. F[j] = body(F, j)
        <4> HIDE DEF body
        <4> QED BY <1>7, <3>1
      <3> QED BY <3>1, <3>2
    <2> QED BY <2>1, <2>2
  <1> QED BY <1>2, <1>8 DEF d

(* The length of a block is read from the same digits. *)
LEMMA LengthAlike ==
  ASSUME NEW s \in Seq(Char), NEW d \in Seq(Char), NEW i \in Nat, NEW o \in Int, i + o \in Nat, NEW n \in Nat,
         \A j \in 1 .. n : d[i + 1 + j] \in Digit /\ s[i + o + 1 + j] = d[i + 1 + j]
  PROVE  lengthOfBlock(s, i + o, n) = lengthOfBlock(d, i, n)
  <1>1. PICK f : /\ lengthOfBlock(d, i, n) = f[n] /\ f[0] = 0
                 /\ \A j \in 1 .. n : f[j] = 10 * f[j - 1] + Numeral[d[i + 1 + j]]
    BY LengthSteps
  <1>2. PICK g : /\ lengthOfBlock(s, i + o, n) = g[n] /\ g[0] = 0
                 /\ \A j \in 1 .. n : g[j] = 10 * g[j - 1] + Numeral[s[i + o + 1 + j]]
    <2> DEFINE k == i + o
    <2>1. k \in Nat /\ \A j \in 1 .. n : s[k + 1 + j] \in Digit
      OBVIOUS
    <2> HIDE DEF k
    <2>2. \E g : /\ lengthOfBlock(s, k, n) = g[n] /\ g[0] = 0
                 /\ \A j \in 1 .. n : g[j] = 10 * g[j - 1] + Numeral[s[k + 1 + j]]
      BY <2>1, LengthSteps
    <2> QED BY <2>2 DEF k
  <1> DEFINE T == {j \in 0 .. n : f[j] = g[j]}
  <1>3. 0 \in T
    BY <1>1, <1>2
  <1>4. ASSUME NEW j \in 1 .. n, j - 1 \in T PROVE j \in T
    <2>1. f[j - 1] = g[j - 1]
      BY <1>4
    <2>2. f[j] = g[j]
      BY <1>1, <1>2, <2>1
    <2> QED BY <2>2
  <1> HIDE DEF T
  <1>5. 0 .. n \subseteq T
    BY <1>3, <1>4, Induction
  <1>6. n \in T
    BY <1>5
  <1> QED BY <1>1, <1>2, <1>6 DEF T

-----------------------------------------------------------------------------
(* Numbers with suffixes, nondecimal numbers, strings, expressions *)

(* A number with its suffix is the same token, or in both texts none is added. *)
LEMMA NumberLined ==
  ASSUME NEW s, NEW d, NEW o, NEW i, NEW q, Lined(s, d, o, i, q), NEW j \in i .. q,
         NEW dec, dec.first \in Int, dec.next \in j .. q
  PROVE  /\ NumberOrNone(s, Shifted(dec, o)).ret = NumberOrNone(d, dec).ret
         /\ dec = Token(dec.type, dec.first, dec.len, dec.ret, dec.next) =>
              NumberOrNone(s, Shifted(dec, o)) = Shifted(NumberOrNone(d, dec), o)
         /\ NumberOrNone(d, dec).next \in dec.next .. q
  <1> DEFINE b == skipWs(d, dec.next)
             t == SuffixProgramData(d, b)
             e == Shifted(dec, o)
             b2 == skipWs(s, e.next)
             t2 == SuffixProgramData(s, b2)
             n == NumberOrNone(d, dec)
             n2 == NumberOrNone(s, e)
  <1>1. j \in Nat /\ o \in Int /\ q \in Nat /\ i \in Nat /\ i <= j /\ j <= q
    BY LinedPos
  <1>2. /\ e.type = dec.type /\ e.first = dec.first + o /\ e.len = dec.len
        /\ e.ret = dec.ret /\ e.next = dec.next + o
    BY DEF Shifted, Token
  <1>3. b2 = b + o /\ b \in dec.next .. q /\ b \in i .. q
    <2>1. dec.next \in i .. q
      BY <1>1
    <2>2. skipWs(s, dec.next + o) = b + o /\ b \in dec.next .. q
      BY <2>1, WsLined
    <2> QED BY <1>1, <1>2, <2>2
  <1>4. t2 = Shifted(t, o) /\ t.next \in b .. q
    <2> HIDE DEF b, b2
    <2>1. Alike(s, d, o, i, q, Lines) /\ Lines \subseteq Ends
      BY LinedAlike
    <2>2. SuffixProgramData(s, b + o) = Shifted(t, o) /\ t.next \in b .. q
      BY <1>3, <2>1, SuffixAlike
    <2> QED BY <1>3, <2>2
  <1>5. n = IF dec.ret > 0
            THEN IF t.ret > 0 THEN Found("DECIMAL_WITH_SUFFIX", dec.first, t.next)
                 ELSE Token("DECIMAL", dec.first, dec.len, dec.len, b)
            ELSE dec
    BY DEF NumberOrNone, Number
  <1>6. n2 = IF e.ret > 0
             THEN IF t2.ret > 0 THEN Found("DECIMAL_WITH_SUFFIX", e.first, t2.next)
                  ELSE Token("DECIMAL", e.first, e.len, e.len, b2)
             ELSE e
    <2> HIDE DEF e
    <2> QED BY DEF NumberOrNone, Number
  <1> HIDE DEF b, t, e, b2, t2, n, n2
  <1>7. t2.ret = t.ret /\ t2.next = t.next + o
    BY <1>4 DEF Shifted, Token
  <1>8. CASE dec.ret > 0 /\ t.ret > 0
    <2> DEFINE type == "DECIMAL_WITH_SUFFIX"
    <2>1. n = Found(type, dec.first, t.next) /\ n2 = Found(type, dec.first + o, t.next + o)
      BY <1>2, <1>5, <1>6, <1>7, <1>8
    <2> HIDE DEF type
    <2>2. t.next \in Int /\ dec.first \in Int /\ o \in Int /\ t.next \in dec.next .. q
      BY <1>1, <1>3, <1>4
    <2>3. n2 = Shifted(n, o)
      BY <2>1, <2>2, FoundShifted
    <2>4. n.next = t.next
      BY <2>1 DEF Found, Token
    <2> QED BY <2>2, <2>3, <2>4 DEF n, n2, e, Shifted, Token
  <1>9. CASE dec.ret > 0 /\ ~ (t.ret > 0)
    <2> DEFINE type == "DECIMAL"
    <2>1. /\ n = Token(type, dec.first, dec.len, dec.len, b)
          /\ n2 = Token(type, dec.first + o, dec.len, dec.len, b + o)
      BY <1>2, <1>3, <1>5, <1>6, <1>7, <1>9
    <2> HIDE DEF type
    <2>2. n2 = Shifted(n, o) /\ n.next = b
      BY <2>1 DEF Shifted, Token
    <2> QED BY <1>3, <2>2 DEF n, n2, e, Shifted, Token
  <1>10. CASE ~ (dec.ret > 0)
    <2>1. n = dec /\ n2 = e
      BY <1>2, <1>5, <1>6, <1>10
    <2> QED BY <1>1, <1>2, <2>1 DEF n, n2, e
  <1> QED BY <1>8, <1>9, <1>10

(* The digits of a nondecimal number are the same, *)
LEMMA BasedAlike ==
  ASSUME NEW s, NEW d, NEW o, NEW i, NEW q, NEW T, Alike(s, d, o, i, q, T), NEW j \in i .. q,
         j + 2 \in i .. q, NEW C, C \cap T = {}, NEW type
  PROVE  /\ BasedNumber(s, j + o, type, C) = Shifted(BasedNumber(d, j, type, C), o)
         /\ BasedNumber(d, j, type, C).next \in j .. q
  <1> DEFINE a == j + 2
             n == Span(d, a, C)
             n2 == Span(s, j + o + 2, C)
  <1>1. j \in Nat /\ o \in Int /\ q \in Nat /\ i \in Nat /\ i <= j /\ j <= q
    BY AlikePos
  <1>2. a \in i .. q /\ j + o + 2 = a + o
    BY <1>1
  <1>3. n2 = Span(s, a + o, C)
    BY <1>2
  <1>4. BasedNumber(d, j, type, C) = IF n > 0 THEN Token(type, a, n, n + 2, a + n) ELSE None(j)
    BY DEF BasedNumber
  <1>5. BasedNumber(s, j + o, type, C) =
          IF n2 > 0 THEN Token(type, j + o + 2, n2, n2 + 2, (j + o + 2) + n2) ELSE None(j + o)
    BY DEF BasedNumber
  <1> HIDE DEF a, n2
  <1>6. n2 = n /\ n \in Nat /\ a + n \in i .. q
    BY <1>2, <1>3, SpanAlike
  <1> HIDE DEF n
  <1>7. CASE n > 0
    <2>1. /\ BasedNumber(d, j, type, C) = Token(type, a, n, n + 2, a + n)
          /\ BasedNumber(s, j + o, type, C) = Token(type, a + o, n, n + 2, (a + n) + o)
      <3>1. (a + o) + n = (a + n) + o
        BY <1>1, <1>2, <1>6
      <3> QED BY <1>2, <1>4, <1>5, <1>6, <1>7, <3>1
    <2>2. a + n \in j .. q
      BY <1>1, <1>6, <1>7 DEF a
    <2> QED BY <2>1, <2>2 DEF Shifted, Token
  <1>8. CASE ~ (n > 0)
    <2>1. BasedNumber(d, j, type, C) = None(j) /\ BasedNumber(s, j + o, type, C) = None(j + o)
      BY <1>4, <1>5, <1>6, <1>8
    <2>2. None(j).next = j
      BY DEF None, Token
    <2> QED BY <1>1, <2>1, <2>2, NoneShifted
  <1> QED BY <1>7, <1>8

(* and so is the number. *)
LEMMA NondecimalAlike ==
  ASSUME NEW s, NEW d, NEW o, NEW i, NEW q, NEW T, T \subseteq Ends, Alike(s, d, o, i, q, T), NEW j \in i .. q
  PROVE  /\ NondecimalNumericData(s, j + o) = Shifted(NondecimalNumericData(d, j), o)
         /\ NondecimalNumericData(d, j).next \in j .. q
  <1> DEFINE x == NondecimalNumericData(d, j)
             y == NondecimalNumericData(s, j + o)
             a == j + 1
  <1>1. j \in Nat /\ o \in Int /\ q \in Nat /\ i \in Nat /\ i <= j /\ j <= q
    BY AlikePos
  <1>2. /\ At(s, j + o, {"#"}) <=> At(d, j, {"#"})
        /\ At(d, j, {"#"}) => j + 1 \in i .. q
    <2>1. {"#"} \cap T = {}
      BY MarksFree
    <2> QED BY <2>1, AtAlike
  <1>3. None(j).next = j /\ None(j + o) = Shifted(None(j), o)
    BY <1>1, NoneShifted DEF None, Token
  <1>4. CASE ~ At(d, j, {"#"})
    <2>1. x = None(j) /\ y = None(j + o)
      BY <1>2, <1>4 DEF NondecimalNumericData
    <2> HIDE DEF x, y
    <2> QED BY <1>1, <1>3, <2>1 DEF x, y
  <1>5. CASE At(d, j, {"#"})
    <2>1. a \in i .. q /\ j + o + 1 = a + o
      BY <1>1, <1>2, <1>5
    <2> HIDE DEF a
    <2>2. ASSUME NEW c, {c} \cap T = {}
          PROVE  /\ At(s, a + o, {c}) <=> At(d, a, {c})
                 /\ At(d, a, {c}) => j + 2 \in i .. q
      <3>1. /\ At(s, a + o, {c}) <=> At(d, a, {c})
            /\ At(d, a, {c}) => a + 1 \in i .. q
        BY <2>1, <2>2, AtAlike
      <3> QED BY <1>1, <3>1 DEF a
    <2>3. {"H"} \cap T = {} /\ {"Q"} \cap T = {} /\ {"B"} \cap T = {}
      BY MarksFree
    <2>4. /\ At(s, a + o, {"H"}) <=> At(d, a, {"H"})
          /\ At(d, a, {"H"}) => j + 2 \in i .. q
      BY <2>2, <2>3
    <2>5. /\ At(s, a + o, {"Q"}) <=> At(d, a, {"Q"})
          /\ At(d, a, {"Q"}) => j + 2 \in i .. q
      BY <2>2, <2>3
    <2>6. /\ At(s, a + o, {"B"}) <=> At(d, a, {"B"})
          /\ At(d, a, {"B"}) => j + 2 \in i .. q
      BY <2>2, <2>3
    <2>7. x = CASE At(d, a, {"H"}) -> BasedNumber(d, j, "HEXNUM", HexDigit)
                [] At(d, a, {"Q"}) -> BasedNumber(d, j, "OCTNUM", OctDigit)
                [] At(d, a, {"B"}) -> BasedNumber(d, j, "BINNUM", BinDigit)
                [] OTHER -> None(j)
      BY <1>5 DEF NondecimalNumericData, a
    <2>8. y = CASE At(s, a + o, {"H"}) -> BasedNumber(s, j + o, "HEXNUM", HexDigit)
                [] At(s, a + o, {"Q"}) -> BasedNumber(s, j + o, "OCTNUM", OctDigit)
                [] At(s, a + o, {"B"}) -> BasedNumber(s, j + o, "BINNUM", BinDigit)
                [] OTHER -> None(j + o)
      BY <1>2, <1>5, <2>1 DEF NondecimalNumericData
    <2>9. ~ (At(d, a, {"H"}) /\ At(d, a, {"Q"})) /\ ~ (At(d, a, {"H"}) /\ At(d, a, {"B"}))
          /\ ~ (At(d, a, {"Q"}) /\ At(d, a, {"B"}))
      BY DEF At
    <2> HIDE DEF x, y
    <2>10. HexDigit \cap T = {} /\ OctDigit \cap T = {} /\ BinDigit \cap T = {}
      BY CharsFree
    <2>11. ASSUME NEW C, NEW type, C \cap T = {}, j + 2 \in i .. q,
                  x = BasedNumber(d, j, type, C), y = BasedNumber(s, j + o, type, C)
           PROVE  y = Shifted(x, o) /\ x.next \in j .. q
      <3>1. /\ BasedNumber(s, j + o, type, C) = Shifted(BasedNumber(d, j, type, C), o)
            /\ BasedNumber(d, j, type, C).next \in j .. q
        BY <2>11, BasedAlike
      <3> QED BY <2>11, <3>1
    <2>12. CASE At(d, a, {"H"})
      <3>1. x = BasedNumber(d, j, "HEXNUM", HexDigit) /\ y = BasedNumber(s, j + o, "HEXNUM", HexDigit)
        BY <2>4, <2>5, <2>6, <2>7, <2>8, <2>9, <2>12
      <3> QED BY <2>4, <2>10, <2>11, <2>12, <3>1 DEF x, y
    <2>13. CASE At(d, a, {"Q"})
      <3>1. x = BasedNumber(d, j, "OCTNUM", OctDigit) /\ y = BasedNumber(s, j + o, "OCTNUM", OctDigit)
        BY <2>4, <2>5, <2>6, <2>7, <2>8, <2>9, <2>13
      <3> QED BY <2>5, <2>10, <2>11, <2>13, <3>1 DEF x, y
    <2>14. CASE At(d, a, {"B"})
      <3>1. x = BasedNumber(d, j, "BINNUM", BinDigit) /\ y = BasedNumber(s, j + o, "BINNUM", BinDigit)
        BY <2>4, <2>5, <2>6, <2>7, <2>8, <2>9, <2>14
      <3> QED BY <2>6, <2>10, <2>11, <2>14, <3>1 DEF x, y
    <2>15. CASE ~ At(d, a, {"H"}) /\ ~ At(d, a, {"Q"}) /\ ~ At(d, a, {"B"})
      <3>1. x = None(j) /\ y = None(j + o)
        BY <2>4, <2>5, <2>6, <2>7, <2>8, <2>15
      <3> QED BY <1>1, <1>3, <3>1 DEF x, y
    <2> QED BY <2>12, <2>13, <2>14, <2>15
  <1> QED BY <1>4, <1>5

(* Where there is no quote there is no string. *)
LEMMA NoStringLined ==
  ASSUME NEW s, NEW d, NEW o, NEW i, NEW q, Lined(s, d, o, i, q), NEW j \in i .. q
  PROVE  StringProgramData(d, j) = None(j) /\ StringProgramData(s, j + o) = None(j + o)
  <1>1. j \in Nat /\ o \in Int /\ q \in Nat /\ i \in Nat /\ i <= j /\ j <= q
    BY LinedPos
  <1>2. ~ At(d, j, Quote)
    BY DEF Lined, At
  <1>3. ~ At(s, j + o, Quote)
    <2>1. Alike(s, d, o, i, q, Lines) /\ Quote \cap Lines = {}
      BY LinedAlike, MarksFree
    <2> QED BY <1>2, <2>1, AtAlike
  <1> QED BY <1>2, <1>3 DEF StringProgramData

(* An expression is the same, closed or not. *)
LEMMA ExpressionLined ==
  ASSUME NEW s, NEW d, NEW o, NEW i, NEW q, Lined(s, d, o, i, q), NEW j \in i .. q
  PROVE  /\ ProgramExpression(s, j + o) = Shifted(ProgramExpression(d, j), o)
         /\ ProgramExpression(d, j).next \in j .. q
  <1> DEFINE C == Char \ NoExpression
             a == j + 1
             b == a + Span(d, a, C)
             b2 == j + o + 1 + Span(s, j + o + 1, C)
             x == ProgramExpression(d, j)
             y == ProgramExpression(s, j + o)
  <1>1. j \in Nat /\ o \in Int /\ q \in Nat /\ i \in Nat /\ i <= j /\ j <= q
    BY LinedPos
  <1>2. Alike(s, d, o, i, q, Lines) /\ Lines \subseteq Ends /\ C \cap Lines = {}
    BY LinedAlike, LinesFree
  <1>3. x = IF At(d, j, {"("}) /\ At(d, b, {")"}) THEN Found("EXPRESSION", j, b + 1) ELSE None(j)
    BY DEF ProgramExpression
  <1>4. y = IF At(s, j + o, {"("}) /\ At(s, b2, {")"}) THEN Found("EXPRESSION", j + o, b2 + 1) ELSE None(j + o)
    BY DEF ProgramExpression
  <1>5. {"("} \cap Lines = {} /\ {")"} \cap Lines = {}
    BY <1>2, MarksFree
  <1> HIDE DEF C
  <1>6. /\ At(s, j + o, {"("}) <=> At(d, j, {"("})
        /\ At(d, j, {"("}) => j + 1 \in i .. q
    BY <1>2, <1>5, AtAlike
  <1>7. None(j).next = j /\ None(j + o) = Shifted(None(j), o)
    BY <1>1, NoneShifted DEF None, Token
  <1> HIDE DEF x, y
  <1>8. CASE ~ At(d, j, {"("})
    <2>1. x = None(j) /\ y = None(j + o)
      BY <1>3, <1>4, <1>6, <1>8
    <2> QED BY <1>1, <1>7, <2>1 DEF x, y
  <1>9. CASE At(d, j, {"("})
    <2>1. a \in i .. q /\ j + o + 1 = a + o
      BY <1>1, <1>6, <1>9
    <2>2. b2 = (a + o) + Span(s, a + o, C)
      BY <2>1
    <2> HIDE DEF a, b2
    <2>3. Span(s, a + o, C) = Span(d, a, C) /\ Span(d, a, C) \in Nat /\ b \in i .. q
      BY <1>2, <2>1, SpanAlike
    <2>4. b2 = b + o /\ b \in i .. q /\ b >= j
      BY <1>1, <2>1, <2>2, <2>3 DEF a
    <2> HIDE DEF b
    <2>5. /\ At(s, b + o, {")"}) <=> At(d, b, {")"})
          /\ At(d, b, {")"}) => b + 1 \in i .. q
      BY <1>2, <1>5, <2>4, AtAlike
    <2>6. CASE At(d, b, {")"})
      <3> DEFINE c == b + 1
      <3>1. c \in j .. q /\ b2 + 1 = c + o /\ c \in Int
        BY <1>1, <2>4, <2>5, <2>6
      <3> DEFINE type == "EXPRESSION"
      <3>2. x = Found(type, j, c) /\ y = Found(type, j + o, c + o)
        BY <1>3, <1>4, <1>6, <1>9, <2>4, <2>5, <2>6, <3>1
      <3> HIDE DEF c, type
      <3>3. Found(type, j, c).next = c
        BY DEF Found, Token
      <3> QED BY <1>1, <3>1, <3>2, <3>3, FoundShifted DEF x, y
    <2>7. CASE ~ At(d, b, {")"})
      <3>1. x = None(j) /\ y = None(j + o)
        BY <1>3, <1>4, <2>4, <2>5, <2>7
      <3> QED BY <1>1, <1>7, <3>1 DEF x, y
    <2> QED BY <2>6, <2>7
  <1> QED BY <1>8, <1>9

-----------------------------------------------------------------------------
(* Characters and character data *)

(* In lines that are alike every character is. *)
LEMMA AtLined ==
  ASSUME NEW s, NEW d, NEW o, NEW i, NEW q, Lined(s, d, o, i, q), NEW j \in i .. q, NEW C
  PROVE  At(s, j + o, C) <=> At(d, j, C)
  <1>1. /\ j \in Nat /\ o \in Int /\ q \in Nat /\ i \in Nat /\ i <= j /\ j <= q
        /\ q <= Len(d) /\ q + o <= Len(s) /\ Len(s) \in Nat /\ Len(d) \in Nat
    BY LinedPos
  <1>2. s[j + o] = d[j]
    <2>1. /\ \A k \in i .. q - 1 : s[k + o] = d[k]
          /\ s[q + o] = d[q]
      BY DEF Lined, Alike
    <2>2. CASE j = q
      BY <2>1, <2>2
    <2>3. CASE j # q
      BY <1>1, <2>1, <2>3
    <2> QED BY <2>2, <2>3
  <1> QED BY <1>1, <1>2 DEF At

(* The line end itself *)
LEMMA LineEndLined ==
  ASSUME NEW s, NEW d, NEW o, NEW i, NEW q, Lined(s, d, o, i, q)
  PROVE  /\ s[q + o] = d[q] /\ d[q] \in Lines /\ q \in i .. q /\ q \in 1 .. Len(d) /\ q + o \in 1 .. Len(s)
         /\ i \in i .. q
  BY DEF Lined, Alike, Edge

(* A token that is there or not, further on *)
LEMMA FoundOrNoneShifted ==
  ASSUME NEW i \in Int, NEW j \in Int, NEW o \in Int, NEW type
  PROVE  FoundOrNone(type, i + o, j + o) = Shifted(FoundOrNone(type, i, j), o)
  BY ShiftedFound

(* Character data are the same. *)
LEMMA CharacterLined ==
  ASSUME NEW s, NEW d, NEW o, NEW i, NEW q, Lined(s, d, o, i, q), NEW j \in i .. q
  PROVE  /\ CharacterProgramData(s, j + o) = Shifted(CharacterProgramData(d, j), o)
         /\ CharacterProgramData(d, j).next \in j .. q
  <1> DEFINE k == skipProgramMnemonic(d, j)
             k2 == skipProgramMnemonic(s, j + o)
  <1>1. j \in Nat /\ o \in Int /\ q \in Nat /\ i \in Nat /\ i <= j /\ j <= q
    BY LinedPos
  <1>2. k2 = k + o /\ k \in j .. q /\ k \in Int
    <2>1. Alike(s, d, o, i, q, Lines) /\ Lines \subseteq Ends
      BY LinedAlike
    <2>2. k2 = k + o /\ k \in i .. q /\ k >= j
      BY <2>1, MnemonicAlike
    <2> HIDE DEF k, k2
    <2> QED BY <1>1, <2>2
  <1>3. /\ CharacterProgramData(s, j + o) = FoundOrNone("MNEMONIC", j + o, k2)
        /\ CharacterProgramData(d, j) = FoundOrNone("MNEMONIC", j, k)
    BY DEF CharacterProgramData
  <1> HIDE DEF k, k2
  <1>4. ASSUME NEW type
        PROVE  /\ FoundOrNone(type, j + o, k + o) = Shifted(FoundOrNone(type, j, k), o)
               /\ FoundOrNone(type, j, k).next \in j .. q
    <2>1. FoundOrNone(type, j + o, k + o) = Shifted(FoundOrNone(type, j, k), o)
      BY <1>1, <1>2, FoundOrNoneShifted
    <2>2. FoundOrNone(type, j, k).next \in j .. q
      BY <1>1, <1>2 DEF FoundOrNone, Found, None, Token
    <2> QED BY <2>1, <2>2
  <1> QED BY <1>2, <1>3, <1>4

(* One character between two positions of a line, as the separators are *)
LEMMA MarkLined ==
  ASSUME NEW s, NEW d, NEW o, NEW i, NEW q, Lined(s, d, o, i, q), NEW j \in i .. q, NEW C,
         C \cap Lines = {}, NEW type
  PROVE  /\ FoundOrNone(type, j + o, Opt(s, j + o, C)) = Shifted(FoundOrNone(type, j, Opt(d, j, C)), o)
         /\ FoundOrNone(type, j, Opt(d, j, C)).next \in j .. q
  <1> DEFINE k == Opt(d, j, C)
             k2 == Opt(s, j + o, C)
  <1>1. j \in Nat /\ o \in Int /\ q \in Nat /\ i \in Nat /\ i <= j /\ j <= q
    BY LinedPos
  <1>2. k2 = k + o /\ k \in j .. q /\ k \in Int
    <2>1. Alike(s, d, o, i, q, Lines)
      BY LinedAlike
    <2>2. k2 = k + o /\ k \in i .. q /\ k >= j
      BY <2>1, OptAlike
    <2> HIDE DEF k, k2
    <2> QED BY <1>1, <2>2
  <1> HIDE DEF k, k2
  <1>3. FoundOrNone(type, j + o, k + o) = Shifted(FoundOrNone(type, j, k), o)
    BY <1>1, <1>2, FoundOrNoneShifted
  <1>4. FoundOrNone(type, j, k).next \in j .. q
    BY <1>1, <1>2 DEF FoundOrNone, Found, None, Token
  <1> QED BY <1>2, <1>3, <1>4 DEF k, k2

(* So are a comma and a semicolon. *)
LEMMA CommaLined ==
  ASSUME NEW s, NEW d, NEW o, NEW i, NEW q, Lined(s, d, o, i, q), NEW j \in i .. q
  PROVE  /\ Comma(s, j + o) = Shifted(Comma(d, j), o) /\ Comma(d, j).next \in j .. q
         /\ Semicolon(s, j + o) = Shifted(Semicolon(d, j), o) /\ Semicolon(d, j).next \in j .. q
  <1>1. {","} \cap Lines = {} /\ {";"} \cap Lines = {}
    BY LinesFree, MarksFree
  <1>2. /\ Comma(s, j + o) = Shifted(Comma(d, j), o) /\ Comma(d, j).next \in j .. q
    BY <1>1, MarkLined DEF Comma
  <1>3. /\ Semicolon(s, j + o) = Shifted(Semicolon(d, j), o) /\ Semicolon(d, j).next \in j .. q
    BY <1>1, MarkLined DEF Semicolon
  <1> QED BY <1>2, <1>3

-----------------------------------------------------------------------------
(* Blocks of given length *)

(* How many digits the length of a block has *)
BlockDigits(s, j) == IF At(s, j + 1, Digit \ {"0"}) THEN Numeral[s[j + 1]] ELSE 0

BlockToken(j, n, length) == Token("BLOCK", j + 2 + n, length, 2 + n + length, j + 2 + n + length)

(* A block by the digits of its length, where something follows the # *)
LEMMA BlockIs ==
  ASSUME NEW s \in Seq(Char), NEW j \in Pos(s), At(s, j, {"#"}), ~ iseos(s, j + 1),
         NEW k \in Nat, k = BlockDigits(s, j), NEW m \in Nat, m = Span(s, j + 2, Digit),
         NEW length \in Nat, 0 < k /\ k <= m => length = lengthOfBlock(s, j, k)
  PROVE  ArbitraryBlockProgramData(s, j) =
           IF k = 0 \/ (k > m /\ ~ iseos(s, j + 2 + m)) THEN None(j)
           ELSE IF k <= m /\ j + 2 + k + length <= Len(s) + 1 THEN BlockToken(j, k, length)
           ELSE Token("UNKNOWN", j, 0, 0, Len(s) + 1)
  <1> DEFINE n == IF m > k THEN k ELSE m
             data == j + 2 + n
             len == lengthOfBlock(s, j, n)
             valid == k > 0 /\ n = k /\ data + len <= Len(s) + 1
             incomplete == \/ iseos(s, j + 1)
                           \/ k > 0 /\ n = k /\ data + len > Len(s) + 1
                           \/ k > 0 /\ n < k /\ iseos(s, data)
             x == ArbitraryBlockProgramData(s, j)
  <1>1. j \in Nat /\ Len(s) \in Nat
    BY DEF Pos
  <1>2. x = CASE valid -> Token("BLOCK", data, len, 2 + n + len, data + len)
              [] incomplete -> Token("UNKNOWN", j, 0, 0, Len(s) + 1)
              [] OTHER -> None(j)
    BY DEF ArbitraryBlockProgramData, BlockDigits
  <1> HIDE DEF x
  <1>3. CASE k = 0
    <2>1. ~ valid /\ ~ incomplete
      BY <1>3
    <2> HIDE DEF valid, incomplete
    <2> QED BY <1>2, <1>3, <2>1 DEF x
  <1>4. CASE k > 0 /\ k > m
    <2>1. n = m /\ n < k
      BY <1>4
    <2>2. ~ valid /\ (incomplete <=> iseos(s, j + 2 + m))
      BY <1>4, <2>1
    <2> HIDE DEF valid, incomplete
    <2>3. x = IF iseos(s, j + 2 + m) THEN Token("UNKNOWN", j, 0, 0, Len(s) + 1) ELSE None(j)
      BY <1>2, <2>2
    <2> QED BY <1>4, <2>3 DEF x
  <1>5. CASE k > 0 /\ k <= m
    <2>1. n = k /\ len = length
      BY <1>5
    <2>2. /\ valid <=> j + 2 + k + length <= Len(s) + 1
          /\ incomplete <=> j + 2 + k + length > Len(s) + 1
      BY <1>5, <2>1
    <2>3. Token("BLOCK", data, len, 2 + n + len, data + len) = BlockToken(j, k, length)
      BY <2>1 DEF BlockToken
    <2> HIDE DEF valid, incomplete, n, data, len
    <2>4. ~ (valid /\ incomplete) /\ (valid \/ incomplete)
      BY <1>1, <2>2
    <2>5. x = IF valid THEN BlockToken(j, k, length) ELSE Token("UNKNOWN", j, 0, 0, Len(s) + 1)
      BY <1>2, <2>3, <2>4
    <2> QED BY <1>5, <2>2, <2>5 DEF x
  <1> QED BY <1>3, <1>4, <1>5

(* No block without a digit that tells how long its length is *)
LEMMA NoBlock ==
  ASSUME NEW s \in Seq(Char), NEW j \in Pos(s), At(s, j, {"#"}), ~ iseos(s, j + 1), BlockDigits(s, j) = 0,
         Span(s, j + 2, Digit) \in Nat
  PROVE  ArbitraryBlockProgramData(s, j) = None(j)
  <1> DEFINE k == BlockDigits(s, j)
             m == Span(s, j + 2, Digit)
             length == 0
  <1>1. k \in Nat /\ m \in Nat /\ k = 0 /\ length \in Nat /\ (0 < k /\ k <= m => length = lengthOfBlock(s, j, k))
    OBVIOUS
  <1>2. k = BlockDigits(s, j) /\ m = Span(s, j + 2, Digit)
    OBVIOUS
  <1> HIDE DEF k, m, length
  <1> QED BY <1>1, <1>2, BlockIs

(* A block that ends before the line does is the same in a line that is
   alike. *)
LEMMA BlockLined ==
  ASSUME NEW s, NEW d, NEW o, NEW i, NEW q, Lined(s, d, o, i, q), NEW j \in i .. q,
         ArbitraryBlockProgramData(d, j).next <= q
  PROVE  /\ ArbitraryBlockProgramData(s, j + o) = Shifted(ArbitraryBlockProgramData(d, j), o)
         /\ ArbitraryBlockProgramData(d, j).next \in j .. q
  <1> DEFINE x == ArbitraryBlockProgramData(d, j)
             y == ArbitraryBlockProgramData(s, j + o)
             a == j + 1
  <1>1. /\ j \in Pos(d) /\ j + o \in Pos(s) /\ j \in Nat /\ j >= 1 /\ j <= q /\ i <= j
        /\ s \in Seq(Char) /\ d \in Seq(Char) /\ o \in Int /\ Len(s) \in Nat /\ Len(d) \in Nat
        /\ q \in Nat /\ i \in Nat /\ q <= Len(d) /\ q + o <= Len(s)
    BY LinedPos
  <1>2. Alike(s, d, o, i, q, Lines) /\ Lines \subseteq Ends
    BY LinedAlike
  <1>3. /\ At(s, j + o, {"#"}) <=> At(d, j, {"#"})
        /\ At(d, j, {"#"}) => j + 1 \in i .. q
    <2>1. {"#"} \cap Lines = {}
      BY <1>2, MarksFree
    <2> QED BY <1>2, <2>1, AtAlike
  <1>4. None(j).next = j /\ None(j + o) = Shifted(None(j), o)
    BY <1>1, NoneShifted DEF None, Token
  <1>5. CASE ~ At(d, j, {"#"})
    <2>1. x = None(j) /\ y = None(j + o)
      BY <1>3, <1>5 DEF ArbitraryBlockProgramData
    <2> HIDE DEF x, y
    <2> QED BY <1>1, <1>4, <2>1 DEF x, y
  <1>6. CASE At(d, j, {"#"})
    <2> DEFINE k == BlockDigits(d, j)
               m == Span(d, j + 2, Digit)
               b == j + 2
    <2>1. a \in i .. q /\ j + o + 1 = a + o /\ a = j + 1 /\ a >= 1 /\ a <= Len(d) /\ a + o <= Len(s)
      BY <1>1, <1>3, <1>6
    <2>2. ~ iseos(d, j + 1) /\ ~ iseos(s, j + o + 1)
      BY <1>1, <2>1 DEF iseos
    <2>3. /\ At(s, a + o, Digit \ {"0"}) <=> At(d, a, Digit \ {"0"})
          /\ At(d, a, Digit \ {"0"}) => a + 1 \in i .. q
      <3> HIDE DEF a
      <3>1. (Digit \ {"0"}) \cap Lines = {}
        BY <1>2, CharsFree
      <3> QED BY <1>2, <2>1, <3>1, AtAlike
    <2>4. BlockDigits(s, j + o) = k /\ k \in Nat
      <3>1. CASE ~ At(d, a, Digit \ {"0"})
        BY <2>1, <2>3, <3>1 DEF BlockDigits
      <3>2. CASE At(d, a, Digit \ {"0"})
        <4>1. a # q
          BY <1>1, <2>1, <2>3, <3>2
        <4>2. s[a + o] = d[a]
          <5>1. a \in i .. q - 1
            BY <1>1, <2>1, <4>1
          <5> QED BY <1>2, <5>1 DEF Alike
        <4>3. d[a] \in Digit
          BY <3>2 DEF At
        <4>4. BlockDigits(d, j) = Numeral[d[a]] /\ BlockDigits(s, j + o) = Numeral[s[a + o]]
          <5>1. At(s, (j + o) + 1, Digit \ {"0"}) /\ s[(j + o) + 1] = s[a + o]
            BY <2>1, <2>3, <3>2
          <5>2. At(d, j + 1, Digit \ {"0"})
            BY <3>2
          <5> QED BY <5>1, <5>2 DEF BlockDigits
        <4> QED BY <4>2, <4>3, <4>4, NumeralNat
      <3> QED BY <3>1, <3>2
    <2>5. b \in Pos(d)
      BY <1>1, <2>1 DEF Pos
    <2>6. m \in Nat
      BY <1>1, <2>5, SpanBounds
    <2>7. (j + o) + 2 \in Pos(s) /\ (j + o) + 2 = b + o
      BY <1>1, <2>1 DEF Pos
    <2>8. Span(s, (j + o) + 2, Digit) \in Nat
      BY <1>1, <2>7, SpanBounds
    <2>9. CASE k = 0
      <3>1. x = None(j)
        <4> HIDE DEF k, m
        <4> QED BY <1>1, <1>6, <2>2, <2>6, <2>9, NoBlock DEF k, m
      <3>2. y = None(j + o)
        <4> HIDE DEF k
        <4> QED BY <1>1, <1>3, <1>6, <2>2, <2>4, <2>8, <2>9, NoBlock
      <3> HIDE DEF x, y
      <3> QED BY <1>1, <1>4, <3>1, <3>2 DEF x, y
    <2>10. CASE k # 0
      <3>1. At(d, a, Digit \ {"0"})
        BY <2>10 DEF BlockDigits
      <3>2. b \in i .. q
        BY <1>1, <2>1, <2>3, <3>1
      <3>3. Span(s, b + o, Digit) = m /\ b + m \in i .. q
        <4> HIDE DEF b
        <4>1. Digit \cap Lines = {}
          BY <1>2, CharsFree
        <4>2. Span(s, b + o, Digit) = Span(d, b, Digit) /\ b + Span(d, b, Digit) \in i .. q
          BY <1>2, <3>2, <4>1, SpanAlike
        <4> QED BY <4>2 DEF b
      <3>4. m = Span(s, (j + o) + 2, Digit)
        BY <2>7, <3>3
      <3>5. CASE k > m
        <4>1. ~ iseos(d, j + 2 + m) /\ ~ iseos(s, (j + o) + 2 + m)
          BY <1>1, <2>6, <3>3 DEF iseos
        <4> HIDE DEF k, m
        <4>2. x = None(j)
          BY <1>1, <1>6, <2>2, <2>4, <2>6, <3>5, <4>1, BlockIs DEF k, m
        <4>3. y = None(j + o)
          BY <1>1, <1>3, <1>6, <2>2, <2>4, <2>6, <3>4, <3>5, <4>1, BlockIs, SMTT(30)
        <4> HIDE DEF x, y
        <4> QED BY <1>1, <1>4, <4>2, <4>3 DEF x, y
      <3>6. CASE k <= m
        <4> DEFINE len == lengthOfBlock(d, j, k)
        <4>1. \A c \in b .. b + m - 1 : d[c] \in Digit
          BY <1>1, <2>5, SpanMembers
        <4>2. \A c \in 1 .. k : d[j + 1 + c] \in Digit /\ s[j + o + 1 + c] = d[j + 1 + c]
          <5> HIDE DEF k, m
          <5> SUFFICES ASSUME NEW c \in 1 .. k
                       PROVE  d[j + 1 + c] \in Digit /\ s[j + o + 1 + c] = d[j + 1 + c]
            OBVIOUS
          <5>1. j + 1 + c \in b .. b + m - 1 /\ j + 1 + c \in i .. q - 1 /\ (j + 1 + c) + o = j + o + 1 + c
            BY <1>1, <2>4, <2>6, <3>3, <3>6
          <5>2. s[(j + 1 + c) + o] = d[j + 1 + c]
            BY <1>2, <5>1 DEF Alike
          <5> QED BY <4>1, <5>1, <5>2
        <4> HIDE DEF k, m
        <4>3. len \in Nat
          BY <1>1, <2>4, <4>2, BlockLength
        <4>4. lengthOfBlock(s, j + o, k) = len
          <5>1. j + o \in Nat
            BY <1>1 DEF Pos
          <5>2. lengthOfBlock(s, j + o, k) = lengthOfBlock(d, j, k)
            <6>1. /\ s \in Seq(Char) /\ d \in Seq(Char) /\ j \in Nat /\ o \in Int /\ j + o \in Nat /\ k \in Nat
                  /\ \A c \in 1 .. k : d[j + 1 + c] \in Digit /\ s[j + o + 1 + c] = d[j + 1 + c]
              BY <1>1, <2>4, <4>2, <5>1
            <6> QED BY <6>1, LengthAlike, ZenonT(40)
          <5> QED BY <5>2 DEF len
        <4> HIDE DEF len
        <4>5. x = IF j + 2 + k + len <= Len(d) + 1 THEN BlockToken(j, k, len) ELSE Token("UNKNOWN", j, 0, 0, Len(d) + 1)
          BY <1>1, <1>6, <2>2, <2>4, <2>6, <2>10, <3>6, <4>3, BlockIs, SMTT(30) DEF k, m, len
        <4>6. y = IF (j + o) + 2 + k + len <= Len(s) + 1 THEN BlockToken(j + o, k, len)
                  ELSE Token("UNKNOWN", j + o, 0, 0, Len(s) + 1)
          BY <1>1, <1>3, <1>6, <2>2, <2>4, <2>6, <2>10, <3>4, <3>6, <4>3, <4>4, BlockIs, SMTT(30)
        <4>7. x.next <= q
          OBVIOUS
        <4> HIDE DEF x, y
        <4>8. j + 2 + k + len <= Len(d) + 1
          <5> SUFFICES ASSUME ~ (j + 2 + k + len <= Len(d) + 1) PROVE FALSE
            OBVIOUS
          <5>1. x.next = Len(d) + 1
            BY <4>5 DEF Token
          <5> QED BY <1>1, <4>7, <5>1
        <4>9. x = BlockToken(j, k, len)
          BY <4>5, <4>8
        <4>10. x.next = j + 2 + k + len
          BY <4>9 DEF BlockToken, Token
        <4>11. (j + o) + 2 + k + len <= Len(s) + 1
          BY <1>1, <2>4, <4>3, <4>7, <4>10
        <4>12. y = BlockToken(j + o, k, len)
          BY <4>6, <4>11
        <4>13. BlockToken(j + o, k, len) = Shifted(BlockToken(j, k, len), o)
          <5>1. /\ (j + o) + 2 + k = (j + 2 + k) + o
                /\ (j + o) + 2 + k + len = (j + 2 + k + len) + o
            BY <1>1, <2>4, <4>3
          <5> QED BY <5>1 DEF BlockToken, Shifted, Token
        <4>14. x.next \in j .. q
          BY <1>1, <2>4, <4>3, <4>7, <4>10
        <4> QED BY <4>9, <4>12, <4>13, <4>14 DEF x, y
      <3> QED BY <2>4, <2>6, <3>5, <3>6
    <2> QED BY <2>9, <2>10
  <1> QED BY <1>5, <1>6

-----------------------------------------------------------------------------
(* Program data *)

(* A block or an expression *)
LEMMA BlockOrExpressionLined ==
  ASSUME NEW s, NEW d, NEW o, NEW i, NEW q, Lined(s, d, o, i, q), NEW j \in i .. q,
         BlockOrExpression(d, ArbitraryBlockProgramData(d, j)).next <= q
  PROVE  /\ BlockOrExpression(s, ArbitraryBlockProgramData(s, j + o))
              = Shifted(BlockOrExpression(d, ArbitraryBlockProgramData(d, j)), o)
         /\ BlockOrExpression(d, ArbitraryBlockProgramData(d, j)).next \in j .. q
  <1> DEFINE x == ArbitraryBlockProgramData(d, j)
             y == ArbitraryBlockProgramData(s, j + o)
             e == ProgramExpression(d, x.next)
             b == BlockOrExpression(d, x)
  <1>1. /\ j \in Pos(d) /\ j \in Nat /\ j >= 1 /\ j <= q /\ i <= j
        /\ d \in Seq(Char) /\ o \in Int /\ Len(d) \in Nat /\ q \in Nat /\ i \in Nat
    BY LinedPos
  <1>2. Within(x, d, j) /\ x.next \in Pos(d) /\ x.next >= j
    <2>1. Within(x, d, j)
      BY <1>1, BlockWithin
    <2> HIDE DEF x
    <2> QED BY <1>1, <2>1, WithinPos
  <1>3. e.next \in Pos(d) /\ e.next >= x.next
    <2> HIDE DEF x
    <2>1. Within(e, d, x.next)
      BY <1>1, <1>2, ExpressionWithin
    <2> HIDE DEF e
    <2> QED BY <1>1, <1>2, <2>1, WithinPos
  <1>4. b = IF x.ret > 0 THEN x ELSE e
    BY DEF BlockOrExpression
  <1>5. BlockOrExpression(s, y) = IF y.ret > 0 THEN y ELSE ProgramExpression(s, y.next)
    BY DEF BlockOrExpression
  <1>6. b.next <= q
    OBVIOUS
  <1>7. x.next <= q /\ x.next \in i .. q
    <2> HIDE DEF x, e, b
    <2> QED BY <1>1, <1>2, <1>3, <1>4, <1>6 DEF Pos
  <1>8. y = Shifted(x, o)
    BY <1>7, BlockLined
  <1> HIDE DEF x, y, b
  <1>9. y.ret = x.ret /\ y.next = x.next + o
    BY <1>8 DEF Shifted, Token
  <1>10. ProgramExpression(s, x.next + o) = Shifted(e, o) /\ e.next \in x.next .. q
    BY <1>7, ExpressionLined
  <1> HIDE DEF e
  <1>11. CASE x.ret > 0
    <2>1. b = x /\ BlockOrExpression(s, y) = y
      BY <1>4, <1>5, <1>9, <1>11
    <2> QED BY <1>1, <1>2, <1>7, <1>8, <2>1 DEF x, y, b
  <1>12. CASE ~ (x.ret > 0)
    <2>1. b = e /\ BlockOrExpression(s, y) = Shifted(e, o)
      BY <1>4, <1>5, <1>9, <1>10, <1>12
    <2>2. e.next \in j .. q
      BY <1>1, <1>2, <1>7, <1>10
    <2> QED BY <2>1, <2>2 DEF x, y, b
  <1> QED BY <1>11, <1>12

(* One parameter of any type that ends before the line does *)
LEMMA ProgramDataLined ==
  ASSUME NEW s, NEW d, NEW o, NEW i, NEW q, Lined(s, d, o, i, q), NEW j \in i .. q,
         ProgramData(d, j).next <= q
  PROVE  /\ ProgramData(s, j + o) = Shifted(ProgramData(d, j), o)
         /\ ProgramData(d, j).next \in j .. q
  <1> DEFINE n == NondecimalNumericData(d, j)
             c == CharacterProgramData(d, j)
             m == DecimalNumericProgramData(d, j)
             v == NumberOrNone(d, m)
             b == BlockOrExpression(d, ArbitraryBlockProgramData(d, j))
             n2 == NondecimalNumericData(s, j + o)
             c2 == CharacterProgramData(s, j + o)
             m2 == DecimalNumericProgramData(s, j + o)
             v2 == NumberOrNone(s, m2)
             b2 == BlockOrExpression(s, ArbitraryBlockProgramData(s, j + o))
             x == ProgramData(d, j)
             y == ProgramData(s, j + o)
             Same(t, t2) == t2 = Shifted(t, o) /\ t.next \in j .. q /\ t2.ret = t.ret
  <1>1. ASSUME NEW t, NEW t2, t2 = Shifted(t, o) PROVE t2.ret = t.ret
    BY <1>1 DEF Shifted, Token
  <1>2. /\ j \in Pos(d) /\ j \in Nat /\ j >= 1 /\ j <= q /\ i <= j
        /\ d \in Seq(Char) /\ o \in Int /\ Len(d) \in Nat /\ q \in Nat /\ i \in Nat
    BY LinedPos
  <1>3. Same(n, n2)
    <2>1. Alike(s, d, o, i, q, Lines) /\ Lines \subseteq Ends
      BY LinedAlike
    <2>2. n2 = Shifted(n, o) /\ n.next \in j .. q
      BY <2>1, NondecimalAlike
    <2> HIDE DEF n, n2
    <2> QED BY <1>1, <2>2
  <1>4. Same(c, c2)
    <2>1. c2 = Shifted(c, o) /\ c.next \in j .. q
      BY CharacterLined
    <2> HIDE DEF c, c2
    <2> QED BY <1>1, <2>1
  <1>5. Same(m, m2) /\ m = Token(m.type, m.first, m.len, m.ret, m.next) /\ m.first \in Int
    <2>1. m2 = Shifted(m, o) /\ m.next \in j .. q
      BY DecimalLined
    <2>2. Within(m, d, j)
      BY <1>2, NumberWithin
    <2> HIDE DEF m, m2
    <2> QED BY <1>1, <1>2, <2>1, <2>2 DEF Within
  <1>6. Same(v, v2)
    <2> HIDE DEF m, m2
    <2>1. m2 = Shifted(m, o) /\ m.next \in j .. q /\ m.first \in Int
      BY <1>5
    <2>2. NumberOrNone(s, Shifted(m, o)) = Shifted(NumberOrNone(d, m), o) /\ v.next \in m.next .. q
      BY <1>5, <2>1, NumberLined
    <2>3. v2 = Shifted(v, o) /\ v.next \in j .. q
      <3> HIDE DEF v
      <3>1. v.next \in j .. q
        BY <1>2, <2>1, <2>2
      <3> QED BY <2>1, <2>2, <3>1 DEF v
    <2> HIDE DEF v, v2
    <2> QED BY <1>1, <2>3
  <1>7. StringProgramData(d, j).ret = 0 /\ StringProgramData(s, j + o).ret = 0
    <2>1. StringProgramData(d, j) = None(j) /\ StringProgramData(s, j + o) = None(j + o)
      BY NoStringLined
    <2>2. None(j).ret = 0 /\ None(j + o).ret = 0
      BY DEF None, Token
    <2> QED BY <2>1, <2>2
  <1>8. x = IF n.ret > 0 THEN n ELSE IF c.ret > 0 THEN c ELSE IF m.ret > 0 THEN v ELSE b
    <2> HIDE DEF n, c, m, v, b
    <2> QED BY <1>7 DEF ProgramData, n, c, m, v, b
  <1>9. y = IF n2.ret > 0 THEN n2 ELSE IF c2.ret > 0 THEN c2 ELSE IF m2.ret > 0 THEN v2 ELSE b2
    <2> HIDE DEF n2, c2, m2, v2, b2
    <2> QED BY <1>7 DEF ProgramData, n2, c2, m2, v2, b2
  <1>10. x.next <= q
    OBVIOUS
  <1>11. b.next <= q => Same(b, b2)
    <2>1. ASSUME b.next <= q PROVE b2 = Shifted(b, o) /\ b.next \in j .. q
      BY <2>1, BlockOrExpressionLined
    <2> HIDE DEF b, b2
    <2> QED BY <1>1, <2>1
  <1> HIDE DEF n, c, m, v, b, n2, c2, m2, v2, b2, x, y
  <1>12. CASE n.ret > 0
    BY <1>3, <1>8, <1>9, <1>12 DEF x, y
  <1>13. CASE ~ (n.ret > 0) /\ c.ret > 0
    BY <1>3, <1>4, <1>8, <1>9, <1>13 DEF x, y
  <1>14. CASE ~ (n.ret > 0) /\ ~ (c.ret > 0) /\ m.ret > 0
    BY <1>3, <1>4, <1>5, <1>6, <1>8, <1>9, <1>14 DEF x, y
  <1>15. CASE ~ (n.ret > 0) /\ ~ (c.ret > 0) /\ ~ (m.ret > 0)
    <2>1. x = b /\ y = b2
      BY <1>3, <1>4, <1>5, <1>8, <1>9, <1>15
    <2> QED BY <1>10, <1>11, <2>1 DEF x, y
  <1> QED BY <1>12, <1>13, <1>14, <1>15

(* The same with the blanks around it *)
LEMMA ParameterLined ==
  ASSUME NEW s, NEW d, NEW o, NEW i, NEW q, Lined(s, d, o, i, q), NEW j \in i .. q,
         parseProgramData(d, j).next <= q
  PROVE  /\ parseProgramData(s, j + o) = Shifted(parseProgramData(d, j), o)
         /\ parseProgramData(d, j).next \in j .. q
  <1> DEFINE b == skipWs(d, j)
             t == ProgramData(d, b)
             e == skipWs(d, t.next)
             b2 == skipWs(s, j + o)
             t2 == ProgramData(s, b2)
             e2 == skipWs(s, t2.next)
             x == parseProgramData(d, j)
             y == parseProgramData(s, j + o)
  <1>1. /\ j \in Pos(d) /\ j \in Nat /\ j >= 1 /\ j <= q /\ i <= j
        /\ d \in Seq(Char) /\ o \in Int /\ Len(d) \in Nat /\ q \in Nat /\ i \in Nat
    BY LinedPos
  <1>2. x = Token(t.type, t.first, t.len, (b - j) + t.ret + (e - t.next), e)
    BY DEF parseProgramData, Padded
  <1>3. y = Token(t2.type, t2.first, t2.len, (b2 - (j + o)) + t2.ret + (e2 - t2.next), e2)
    BY DEF parseProgramData, Padded
  <1>4. x.next <= q
    OBVIOUS
  <1> HIDE DEF x, y
  <1>5. b2 = b + o /\ b \in j .. q /\ b \in i .. q /\ b \in Pos(d)
    <2>1. b2 = b + o /\ b \in j .. q
      BY WsLined
    <2> HIDE DEF b, b2
    <2>2. b \in i .. q
      BY <1>1, <2>1
    <2>3. b \in Pos(d)
      BY <2>2, LinedPos
    <2> QED BY <2>1, <2>2, <2>3
  <1> HIDE DEF b, b2
  <1>6. Within(t, d, b)
    BY <1>1, <1>5, ProgramDataWithin
  <1>7. t.next \in Pos(d) /\ t.next >= b /\ t.ret \in Int /\ t.first \in Int
    <2> HIDE DEF t
    <2>1. t.next \in Pos(d) /\ t.next >= b
      BY <1>1, <1>5, <1>6, WithinPos
    <2> QED BY <1>1, <1>5, <1>6, <2>1 DEF Within, Pos
  <1>8. e \in t.next .. Len(d) + 1
    <2> HIDE DEF t
    <2> QED BY <1>1, <1>7, WsBounds
  <1>9. x.next = e
    BY <1>2 DEF Token
  <1>10. t.next <= q
    <2> HIDE DEF t, e
    <2> QED BY <1>1, <1>4, <1>7, <1>8, <1>9 DEF Pos
  <1>11. t2 = Shifted(t, o)
    <2>1. ProgramData(s, b + o) = Shifted(ProgramData(d, b), o)
      BY <1>5, <1>10, ProgramDataLined
    <2> QED BY <1>5, <2>1
  <1> HIDE DEF t, t2
  <1>12. t2.type = t.type /\ t2.first = t.first + o /\ t2.len = t.len /\ t2.ret = t.ret /\ t2.next = t.next + o
    BY <1>11 DEF Shifted, Token
  <1>13. t.next \in i .. q
    BY <1>1, <1>5, <1>7, <1>10 DEF Pos
  <1>14. e2 = e + o /\ e \in t.next .. q
    BY <1>12, <1>13, WsLined
  <1> HIDE DEF e, e2
  <1>15. b2 - (j + o) = b - j /\ e2 - t2.next = e - t.next
    BY <1>1, <1>5, <1>7, <1>12, <1>14 DEF Pos
  <1>16. y = Token(t.type, t.first + o, t.len, (b - j) + t.ret + (e - t.next), e + o)
    BY <1>3, <1>12, <1>14, <1>15
  <1>17. y = Shifted(x, o)
    BY <1>2, <1>16 DEF Shifted, Token
  <1>18. x.next \in j .. q
    BY <1>1, <1>5, <1>7, <1>9, <1>14 DEF Pos
  <1> QED BY <1>17, <1>18 DEF x, y

-----------------------------------------------------------------------------
(* The list of the parameters *)

(* Data that stand o characters further on *)
DataMoved(r, o) == [ok |-> r.ok, len |-> r.len, next |-> r.next + o, count |-> r.count]

(* A parameter and its comma, in front of data that stand further on *)
LEMMA OntoMoved ==
  ASSUME NEW d \in Seq(Char), NEW j, NEW r \in Data(d, j), NEW o \in Int, NEW p, NEW c
  PROVE  Onto(Shifted(p, o), Shifted(c, o), DataMoved(r, o)) = DataMoved(Onto(p, c, r), o)
  <1>1. r = [ok |-> r.ok, len |-> r.len, next |-> r.next, count |-> r.count]
    BY DEF Data
  <1>2. Shifted(p, o).ret = p.ret /\ Shifted(c, o).ret = c.ret
    BY DEF Shifted, Token
  <1>3. CASE r.ok
    <2>1. Onto(p, c, r) = [ok |-> r.ok, len |-> r.len + p.ret + c.ret, next |-> r.next, count |-> r.count + 1]
      BY <1>1, <1>3 DEF Onto
    <2>2. Onto(Shifted(p, o), Shifted(c, o), DataMoved(r, o))
            = [ok |-> r.ok, len |-> r.len + p.ret + c.ret, next |-> r.next + o, count |-> r.count + 1]
      BY <1>2, <1>3 DEF Onto, DataMoved
    <2> QED BY <2>1, <2>2 DEF DataMoved
  <1>4. CASE ~ r.ok
    BY <1>4 DEF Onto, DataMoved
  <1> QED BY <1>3, <1>4

(* All parameters from a position on, if they end before the line does *)
LEMMA DataFromLined ==
  ASSUME NEW s, NEW d, NEW o, NEW i, NEW q, Lined(s, d, o, i, q)
  PROVE  \A j \in i .. q :
           dataFrom(d)[j].next <= q => /\ dataFrom(s)[j + o] = DataMoved(dataFrom(d)[j], o)
                                       /\ dataFrom(d)[j].next \in j .. q
  <1> DEFINE F == dataFrom(d)
             G == dataFrom(s)
             Same(j) == F[j].next <= q => G[j + o] = DataMoved(F[j], o) /\ F[j].next \in j .. q
             I == {j \in 1 .. q : j \in i .. q => Same(j)}
  <1>1. /\ s \in Seq(Char) /\ d \in Seq(Char) /\ o \in Int /\ Len(s) \in Nat /\ Len(d) \in Nat
        /\ q \in Nat /\ i \in Nat /\ i >= 1
    BY DEF Lined, Alike
  <1>2. ASSUME NEW j \in 1 .. q, \A k \in j + 1 .. q : k \in I
        PROVE  j \in I
    <2> SUFFICES ASSUME j \in i .. q, F[j].next <= q
                 PROVE  G[j + o] = DataMoved(F[j], o) /\ F[j].next \in j .. q
      OBVIOUS
    <2> DEFINE p == parseProgramData(d, j)
               c == Comma(d, p.next)
               p2 == parseProgramData(s, j + o)
               c2 == Comma(s, p2.next)
    <2>1. j \in Pos(d) /\ j + o \in Pos(s) /\ j \in Nat
      BY LinedPos
    <2>2. F[j] = CASE p.type = "UNKNOWN" -> MissingData(p.next)
                   [] p.type # "UNKNOWN" /\ c.ret = 0 ->
                        [ok |-> TRUE, len |-> p.ret, next |-> p.next, count |-> 1]
                   [] OTHER -> Onto(p, c, F[c.next])
      BY <1>1, <2>1, DataFromStep
    <2>3. G[j + o] = CASE p2.type = "UNKNOWN" -> MissingData(p2.next)
                       [] p2.type # "UNKNOWN" /\ c2.ret = 0 ->
                            [ok |-> TRUE, len |-> p2.ret, next |-> p2.next, count |-> 1]
                       [] OTHER -> Onto(p2, c2, G[c2.next])
      BY <1>1, <2>1, DataFromStep
    <2>4. Within(p, d, j)
      BY <1>1, <2>1, ParameterWithin
    <2> HIDE DEF F, G
    <2>5. p.next \in Pos(d) /\ p.next >= j
      <3> HIDE DEF p
      <3> QED BY <1>1, <2>1, <2>4, WithinPos
    <2>6. Within(c, d, p.next)
      <3> HIDE DEF p
      <3> QED BY <1>1, <2>5, SeparatorsWithin
    <2>7. c.next \in Pos(d) /\ c.next >= p.next /\ (c.ret # 0 => c.next > p.next) /\ c.ret \in Nat /\ p.ret \in Nat
      <3> HIDE DEF p, c
      <3>1. c.next \in Pos(d) /\ c.next >= p.next
        BY <1>1, <2>5, <2>6, WithinPos
      <3>2. c.ret \in 0 .. c.next - p.next /\ p.ret \in 0 .. p.next - j
        BY <2>4, <2>6 DEF Within
      <3> QED BY <1>1, <2>1, <2>5, <3>1, <3>2, SMTT(30) DEF Pos
    <2>8. F[c.next] \in Data(d, c.next)
      <3> HIDE DEF p, c
      <3> QED BY <1>1, <2>7, DataFrom DEF F
    <2> DEFINE r == F[c.next]
    <2>9. r.next \in c.next .. Len(d) + 1 /\ Onto(p, c, r).next = r.next
      <3> HIDE DEF p, c, r
      <3>1. r \in Data(d, c.next)
        BY <2>8 DEF r
      <3>2. r.next \in c.next .. Len(d) + 1
        BY <3>1 DEF Data
      <3>3. c.next \in Nat
        BY <1>1, <2>7 DEF Pos
      <3> QED BY <1>1, <2>7, <3>1, <3>2, <3>3, OntoData
    <2> HIDE DEF r
    <2>10. p.next <= q
      <3> HIDE DEF p, c
      <3>1. CASE p.type = "UNKNOWN"
        <4>1. F[j] = MissingData(p.next)
          BY <2>2, <3>1
        <4> QED BY <4>1 DEF MissingData
      <3>2. CASE p.type # "UNKNOWN" /\ c.ret = 0
        <4>1. F[j].next = p.next
          BY <2>2, <3>2
        <4> QED BY <4>1
      <3>3. CASE p.type # "UNKNOWN" /\ c.ret # 0
        <4>1. F[j].next = r.next
          BY <2>2, <2>9, <3>3 DEF r
        <4> QED BY <1>1, <2>5, <2>7, <2>9, <4>1 DEF Pos
      <3> QED BY <3>1, <3>2, <3>3
    <2>11. p2 = Shifted(p, o) /\ p.next \in i .. q
      <3>1. p2 = Shifted(p, o) /\ p.next \in j .. q
        BY <2>10, ParameterLined
      <3> HIDE DEF p, p2
      <3> QED BY <1>1, <2>1, <3>1
    <2>12. c2 = Shifted(c, o) /\ c.next \in p.next .. q
      <3>1. p2.next = p.next + o
        <4> HIDE DEF p, p2
        <4> QED BY <2>11 DEF Shifted, Token
      <3> HIDE DEF p, p2
      <3> QED BY <2>11, <3>1, CommaLined
    <2> HIDE DEF p, c, p2, c2
    <2>13. /\ p2.type = p.type /\ p2.ret = p.ret /\ p2.next = p.next + o
           /\ c2.ret = c.ret /\ c2.next = c.next + o
      BY <2>11, <2>12 DEF Shifted, Token
    <2>14. CASE p.type = "UNKNOWN"
      <3>1. F[j] = MissingData(p.next) /\ G[j + o] = MissingData(p.next + o)
        BY <2>2, <2>3, <2>13, <2>14
      <3> QED BY <1>1, <2>1, <2>5, <2>11, <3>1 DEF MissingData, DataMoved
    <2>15. CASE p.type # "UNKNOWN" /\ c.ret = 0
      <3>1. /\ F[j] = [ok |-> TRUE, len |-> p.ret, next |-> p.next, count |-> 1]
            /\ G[j + o] = [ok |-> TRUE, len |-> p.ret, next |-> p.next + o, count |-> 1]
        BY <2>2, <2>3, <2>13, <2>15
      <3> QED BY <1>1, <2>1, <2>5, <2>11, <3>1 DEF DataMoved
    <2>16. CASE p.type # "UNKNOWN" /\ c.ret # 0
      <3>1. F[j] = Onto(p, c, r) /\ G[j + o] = Onto(p2, c2, G[c.next + o])
        BY <2>2, <2>3, <2>13, <2>16 DEF r
      <3>2. c.next \in j + 1 .. q /\ c.next \in i .. q
        BY <1>1, <2>1, <2>5, <2>7, <2>11, <2>12, <2>16 DEF Pos
      <3>3. r.next <= q
        BY <2>9, <3>1
      <3>4. G[c.next + o] = DataMoved(r, o) /\ r.next \in c.next .. q
        <4>1. c.next \in I
          BY <1>2, <3>2
        <4> QED BY <3>2, <3>3, <4>1 DEF r
      <3>5. G[j + o] = DataMoved(F[j], o)
        BY <1>1, <2>8, <2>11, <2>12, <3>1, <3>4, OntoMoved DEF r
      <3>6. F[j].next \in j .. q
        BY <1>1, <2>1, <2>9, <3>1, <3>2, <3>4
      <3> QED BY <3>5, <3>6
    <2> QED BY <2>14, <2>15, <2>16
  <1> HIDE DEF I
  <1>3. \A j \in 1 .. q : j \in I
    BY <1>1, <1>2, InductionDown
  <1>4. \A j \in i .. q : j \in 1 .. q
    BY <1>1
  <1> QED BY <1>3, <1>4 DEF I

-----------------------------------------------------------------------------
(* A unit in a common line *)

(* The data of a unit that end before the line does *)
LEMMA UnitDataLined ==
  ASSUME NEW s, NEW d, NEW o, NEW i, NEW q, Lined(s, d, o, i, q), NEW h, h.next \in i .. q,
         UnitData(d, h).next <= q
  PROVE  /\ UnitData(s, Shifted(h, o)) = Shifted(UnitData(d, h), o)
         /\ UnitData(d, h).next \in h.next .. q
  <1> DEFINE a == skipWs(d, h.next)
             F == dataFrom(d)[a]
             G == dataFrom(s)[a + o]
             type == IF F.ok THEN "ALL" ELSE "UNKNOWN"
             all == parseAllProgramData(d, a)
             g == Shifted(h, o)
             x == UnitData(d, h)
             y == UnitData(s, g)
  <1>1. q \in Nat /\ i \in Nat /\ o \in Int /\ h.next \in Nat /\ d \in Seq(Char)
    <2>1. q \in Nat /\ i \in Nat /\ o \in Int /\ d \in Seq(Char)
      BY LinedPos
    <2> QED BY <2>1
  <1>2. g.next = h.next + o
    BY DEF Shifted, Token
  <1> HIDE DEF g
  <1>3. skipWs(s, h.next + o) = a + o /\ a \in h.next .. q
    BY WsLined
  <1>4. x = IF a > h.next THEN all ELSE NoData(h.next)
    BY DEF UnitData
  <1>5. y = IF a + o > h.next + o THEN parseAllProgramData(s, a + o) ELSE NoData(h.next + o)
    BY <1>2, <1>3 DEF UnitData
  <1>6. x.next <= q
    OBVIOUS
  <1> HIDE DEF a, x, y
  <1>7. CASE a > h.next
    <2>1. x = all /\ y = parseAllProgramData(s, a + o)
      BY <1>1, <1>3, <1>4, <1>5, <1>7
    <2>2. all = Token(type, a, F.len, F.count, F.next)
      BY DEF parseAllProgramData
    <2>3. parseAllProgramData(s, a + o) = Token(IF G.ok THEN "ALL" ELSE "UNKNOWN", a + o, G.len, G.count, G.next)
      BY DEF parseAllProgramData
    <2>4. F.next <= q
      <3> HIDE DEF F, type
      <3> QED BY <1>6, <2>1, <2>2 DEF Token
    <2>5. a \in i .. q
      BY <1>1, <1>3
    <2>6. G = DataMoved(F, o) /\ F.next \in a .. q
      BY <2>4, <2>5, DataFromLined
    <2> HIDE DEF F, G, all
    <2>7. G.ok = F.ok /\ G.len = F.len /\ G.next = F.next + o /\ G.count = F.count
      BY <2>6 DEF DataMoved
    <2>8. y = Token(type, a + o, F.len, F.count, F.next + o)
      BY <2>1, <2>3, <2>7
    <2> HIDE DEF type
    <2>9. y = Shifted(x, o)
      BY <2>1, <2>2, <2>8 DEF Shifted, Token
    <2>10. x.next = F.next
      BY <2>1, <2>2 DEF Token
    <2>11. x.next \in h.next .. q
      BY <1>1, <1>3, <2>6, <2>10
    <2> QED BY <2>9, <2>11 DEF x, y, g
  <1>8. CASE ~ (a > h.next)
    <2>1. x = NoData(h.next) /\ y = NoData(h.next + o)
      BY <1>1, <1>3, <1>4, <1>5, <1>8
    <2>2. y = Shifted(x, o) /\ x.next = h.next
      BY <2>1 DEF NoData, Shifted, Token
    <2>3. h.next \in h.next .. q
      BY <1>1
    <2> QED BY <2>2, <2>3 DEF x, y, g
  <1> QED BY <1>7, <1>8

(* The line end ends the unit that reaches it, in both; only what follows it
   can be different. *)
LEMMA NewLineLined ==
  ASSUME NEW s, NEW d, NEW o, NEW i, NEW q, Lined(s, d, o, i, q), NEW j \in i .. q
  PROVE  /\ NewLine(s, j + o).type = NewLine(d, j).type
         /\ NewLine(s, j + o).ret > 0 <=> NewLine(d, j).ret > 0
         /\ j # q => NewLine(s, j + o) = Shifted(NewLine(d, j), o)
         /\ NewLine(d, j).ret > 0 => NewLine(d, j).type = "NL"
         /\ j = q => NewLine(d, j).ret > 0
  <1> DEFINE a == Opt(d, j, {"cr"})
             k == Opt(d, a, {"nl"})
             a2 == Opt(s, j + o, {"cr"})
             k2 == Opt(s, a2, {"nl"})
             x == NewLine(d, j)
             y == NewLine(s, j + o)
             type == "NL"
  <1>1. /\ j \in Nat /\ o \in Int /\ q \in Nat /\ i \in Nat /\ i <= j /\ j <= q
        /\ q <= Len(d) /\ q + o <= Len(s) /\ Len(s) \in Nat /\ Len(d) \in Nat
    BY LinedPos
  <1>2. x = FoundOrNone(type, j, k) /\ y = FoundOrNone(type, j + o, k2)
    BY DEF NewLine
  <1>3. ASSUME NEW c \in i .. q, NEW C
        PROVE  Opt(s, c + o, C) = Opt(d, c, C) + o /\ (Opt(d, c, C) = c \/ Opt(d, c, C) = c + 1)
    <2>1. At(s, c + o, C) <=> At(d, c, C)
      BY AtLined
    <2>2. c \in Nat
      BY <1>1
    <2> QED BY <1>1, <2>1, <2>2 DEF Opt
  <1>4. a2 = a + o /\ (a = j \/ a = j + 1)
    BY <1>3
  <1>5. j = q => k > j /\ k2 > j + o
    <2>1. ASSUME j = q PROVE At(d, j, {"cr"}) \/ At(d, j, {"nl"})
      <3>1. d[q] \in Lines
        BY LineEndLined
      <3> QED BY <1>1, <2>1, <3>1 DEF At, Lines
    <2>2. (At(s, j + o, {"cr"}) <=> At(d, j, {"cr"})) /\ (At(s, j + o, {"nl"}) <=> At(d, j, {"nl"}))
      BY AtLined
    <2>3. (k = a \/ k = a + 1) /\ (k2 = a2 \/ k2 = a2 + 1)
      BY DEF Opt
    <2>4. At(d, j, {"cr"}) => a = j + 1
      BY DEF Opt
    <2>5. ~ At(d, j, {"cr"}) => a = j /\ a2 = j + o
      BY <1>4, <2>2 DEF Opt
    <2>6. a = j /\ a2 = j + o /\ At(d, j, {"nl"}) => k = j + 1 /\ k2 = j + o + 1
      <3> HIDE DEF a, a2
      <3> QED BY <2>2 DEF Opt
    <2> HIDE DEF a, a2, k, k2
    <2> QED BY <1>1, <1>4, <2>1, <2>3, <2>4, <2>5, <2>6
  <1>6. a \in i .. q => k2 = k + o /\ (k = a \/ k = a + 1)
    <2> HIDE DEF a, a2
    <2> QED BY <1>3, <1>4
  <1>7. k2 > j + o <=> k > j
    <2>1. (k = a \/ k = a + 1) /\ (k2 = a2 \/ k2 = a2 + 1)
      BY DEF Opt
    <2> HIDE DEF a, a2, k, k2
    <2>2. CASE a \in i .. q
      BY <1>1, <1>4, <1>6, <2>2
    <2>3. CASE a \notin i .. q
      <3>1. j = q
        BY <1>1, <1>4, <2>3
      <3> QED BY <1>5, <3>1
    <2> QED BY <2>2, <2>3
  <1>8. j # q => k2 = k + o
    <2> HIDE DEF a, a2, k, k2
    <2> QED BY <1>1, <1>4, <1>6
  <1>9. k \in Int /\ k2 \in Int
    <2>1. (k = a \/ k = a + 1) /\ (k2 = a2 \/ k2 = a2 + 1)
      BY DEF Opt
    <2> HIDE DEF a, a2, k, k2
    <2> QED BY <1>1, <1>4, <2>1
  <1> HIDE DEF a, k, a2, k2, x, y, type
  <1>10. /\ k > j => x = Found(type, j, k) /\ y = Found(type, j + o, k2)
         /\ ~ (k > j) => x = None(j) /\ y = None(j + o)
    BY <1>2, <1>7 DEF FoundOrNone
  <1>11. CASE k > j
    <2>1. x = Found(type, j, k) /\ y = Found(type, j + o, k2) /\ k2 > j + o
      BY <1>7, <1>10, <1>11
    <2>2. x.type = type /\ y.type = type /\ x.ret = k - j /\ y.ret = k2 - (j + o)
      BY <2>1 DEF Found, Token
    <2>3. x.ret > 0 /\ y.ret > 0
      BY <1>1, <1>9, <1>11, <2>1, <2>2
    <2>4. j # q => y = Shifted(x, o)
      <3> SUFFICES ASSUME j # q PROVE y = Shifted(x, o)
        OBVIOUS
      <3>1. k2 = k + o
        BY <1>8
      <3> QED BY <1>1, <1>9, <2>1, <3>1, FoundShifted
    <2> QED BY <2>2, <2>3, <2>4 DEF x, y, type
  <1>12. CASE ~ (k > j)
    <2>1. x = None(j) /\ y = None(j + o)
      BY <1>10, <1>12
    <2>2. y = Shifted(x, o) /\ x.ret = 0 /\ y.ret = 0 /\ x.type = y.type
      <3>1. y = Shifted(x, o)
        BY <1>1, <2>1, NoneShifted
      <3> QED BY <2>1, <3>1 DEF None, Token
    <2>3. j # q
      BY <1>5, <1>12
    <2> QED BY <2>2, <2>3 DEF x, y
  <1> QED BY <1>11, <1>12

(* What ends a unit is the same in both texts; at the line end it is a line
   end, though it may take CR LF in one and CR in the other. *)
LEMMA UnitEndLined ==
  ASSUME NEW s, NEW d, NEW o, NEW i, NEW q, Lined(s, d, o, i, q), NEW j \in i .. q
  PROVE  /\ UnitEnd(s, j + o).type = UnitEnd(d, j).type
         /\ UnitEnd(s, j + o).ret > 0 <=> UnitEnd(d, j).ret > 0
         /\ j # q => UnitEnd(s, j + o) = Shifted(UnitEnd(d, j), o)
         /\ j = q => UnitEnd(d, j).ret > 0 /\ UnitEnd(d, j).type = "NL"
  <1> DEFINE n == NewLine(d, j)
             n2 == NewLine(s, j + o)
             c == Semicolon(d, j)
             c2 == Semicolon(s, j + o)
             e == UnitEnd(d, j)
             e2 == UnitEnd(s, j + o)
  <1>1. /\ n2.type = n.type /\ (n2.ret > 0 <=> n.ret > 0) /\ (j # q => n2 = Shifted(n, o))
        /\ n.ret > 0 => n.type = "NL"
        /\ j = q => n.ret > 0
    BY NewLineLined
  <1>2. c2 = Shifted(c, o)
    BY CommaLined
  <1>3. e = (IF n.ret > 0 THEN n ELSE c) /\ e2 = (IF n2.ret > 0 THEN n2 ELSE c2)
    BY DEF UnitEnd
  <1> HIDE DEF n, n2, c, c2, e, e2
  <1>4. c2.type = c.type /\ c2.ret = c.ret
    BY <1>2 DEF Shifted, Token
  <1>5. CASE n.ret > 0
    <2>1. e = n /\ e2 = n2
      BY <1>1, <1>3, <1>5
    <2> QED BY <1>1, <1>5, <2>1 DEF e, e2
  <1>6. CASE ~ (n.ret > 0)
    <2>1. e = c /\ e2 = c2 /\ j # q
      BY <1>1, <1>3, <1>6
    <2> QED BY <1>2, <1>4, <2>1 DEF e, e2
  <1> QED BY <1>5, <1>6

-----------------------------------------------------------------------------
(* What UnitLined says of a whole unit *)

(* The unit u ends with the line that ends at q, *)
EndsAt(u, q) == u.termination = "NL" /\ u.stop = q

(* or before it. *)
EndsBefore(u, q) == ~ EndsAt(u, q) /\ u.next <= q

(* What a line without quotes means does not depend on what stands before and
   behind it: a unit that ends with it, or before it, is cut in the same way
   in any text that has this line, with the same header and the same
   terminator.  So it does not matter in how many pieces the line came, nor
   what the buffer holds behind it. *)
THEOREM UnitLined ==
  ASSUME NEW s, NEW d, NEW o, NEW i, NEW q, Lined(s, d, o, i, q),
         LET u == detectProgramMessageUnit(d, i) IN EndsAt(u, q) \/ EndsBefore(u, q)
  PROVE  LET u == detectProgramMessageUnit(d, i)
             v == detectProgramMessageUnit(s, i + o)
         IN  /\ v.termination = u.termination
             /\ v.header.type = u.header.type /\ v.header.len = u.header.len
             /\ u.stop \in i .. q /\ v.stop = u.stop + o
             /\ EndsAt(u, q) <=> EndsAt(v, q + o)
             /\ EndsBefore(u, q) => v.next = u.next + o
  <1> DEFINE b == skipWs(d, i)
             h == ProgramHeader(d, b)
             x == UnitData(d, h)
             e == UnitEnd(d, x.next)
             b2 == skipWs(s, i + o)
             h2 == ProgramHeader(s, b2)
             x2 == UnitData(s, h2)
             e2 == UnitEnd(s, x2.next)
             u == detectProgramMessageUnit(d, i)
             v == detectProgramMessageUnit(s, i + o)
             junk == e.ret = 0 /\ ~ iseos(d, x.next)
             junk2 == e2.ret = 0 /\ ~ iseos(s, x2.next)
  <1>1. u = UnitOf(d, i, h, x, e) /\ v = UnitOf(s, i + o, h2, x2, e2)
    BY DEF detectProgramMessageUnit
  <1>2. EndsAt(u, q) \/ EndsBefore(u, q)
    OBVIOUS
  <1> HIDE DEF u, v
  <1>3. /\ d \in Seq(Char) /\ s \in Seq(Char) /\ o \in Int /\ Len(d) \in Nat /\ Len(s) \in Nat
        /\ q \in Nat /\ i \in Nat /\ i \in i .. q /\ q <= Len(d) /\ q + o <= Len(s) /\ i <= q
    <2>1. i \in i .. q
      BY LineEndLined
    <2> QED BY <2>1, LinedPos
  <1>4. b2 = b + o /\ b \in i .. q
    BY <1>3, WsLined
  <1> HIDE DEF b, b2
  <1>5. h2 = Shifted(h, o) /\ h.next \in i .. q
    <2>1. Alike(s, d, o, i, q, Lines) /\ Lines \subseteq Ends
      BY LinedAlike
    <2>2. ProgramHeader(s, b + o) = Shifted(h, o) /\ h.next \in b .. q
      BY <1>4, <2>1, HeaderAlike
    <2> HIDE DEF h
    <2>3. h.next \in i .. q
      BY <1>3, <1>4, <2>2
    <2> QED BY <1>4, <2>2, <2>3
  <1> HIDE DEF h
  <1>6. x.next \in Pos(d) /\ x.next >= h.next
    <2> DEFINE a == skipWs(d, h.next)
               all == parseAllProgramData(d, a)
    <2>1. h.next \in Pos(d)
      BY <1>5, LinedPos
    <2>2. a \in h.next .. Len(d) + 1 /\ a \in Pos(d)
      BY <1>3, <2>1, WsBounds
    <2>3. all.next \in a .. Len(d) + 1
      <3> HIDE DEF a
      <3> QED BY <1>3, <2>2, AllDataWithin
    <2>4. x = IF a > h.next THEN all ELSE NoData(h.next)
      BY DEF UnitData
    <2>5. NoData(h.next).next = h.next
      BY DEF NoData, Token
    <2> HIDE DEF a, all, x
    <2> QED BY <1>3, <2>1, <2>2, <2>3, <2>4, <2>5 DEF Pos
  <1>7. e.next >= x.next /\ e.next \in Int /\ e.ret \in Nat
    <2> HIDE DEF x
    <2>1. Within(e, d, x.next)
      BY <1>3, <1>6, SeparatorsWithin DEF UnitEnd
    <2> HIDE DEF e
    <2> QED BY <1>3, <1>6, <2>1 DEF Within, Pos
  <1>8. /\ u.termination = (IF e.ret > 0 THEN e.type ELSE "NONE")
        /\ u.stop = (IF junk THEN x.next + 1 ELSE x.next)
        /\ u.next = (IF junk THEN x.next + 1 ELSE e.next)
        /\ u.header = (IF junk THEN [h EXCEPT !.type = "INVALID", !.len = 1] ELSE h)
    <2> HIDE DEF x, e
    <2> QED BY <1>1 DEF UnitOf
  <1>9. x.next <= q
    <2> HIDE DEF x, e
    <2>1. CASE EndsAt(u, q)
      <3>1. ~ junk
        <4>1. junk => u.termination = "NONE"
          BY <1>7, <1>8
        <4> QED BY <2>1, <4>1 DEF EndsAt
      <3> QED BY <1>3, <1>8, <2>1, <3>1 DEF EndsAt
    <2>2. CASE EndsBefore(u, q)
      BY <1>3, <1>6, <1>7, <1>8, <2>2 DEF EndsBefore, Pos
    <2> QED BY <1>2, <2>1, <2>2
  <1>10. x2 = Shifted(x, o) /\ x.next \in i .. q
    <2>1. UnitData(s, Shifted(h, o)) = Shifted(x, o) /\ x.next \in h.next .. q
      BY <1>5, <1>9, UnitDataLined
    <2> HIDE DEF x
    <2> QED BY <1>3, <1>5, <2>1
  <1> HIDE DEF x, x2
  <1>11. x2.next = x.next + o
    BY <1>10 DEF Shifted, Token
  <1>12. /\ e2.type = e.type /\ (e2.ret > 0 <=> e.ret > 0)
         /\ x.next # q => e2 = Shifted(e, o)
         /\ x.next = q => e.ret > 0 /\ e.type = "NL"
    BY <1>10, <1>11, UnitEndLined
  <1>13. e2.ret \in Nat
    <2>1. x2.next \in Pos(s)
      BY <1>10, <1>11, LinedPos
    <2>2. Within(e2, s, x2.next)
      BY <1>3, <2>1, SeparatorsWithin DEF UnitEnd
    <2> HIDE DEF e2
    <2> QED BY <1>3, <2>1, <2>2 DEF Within, Pos
  <1>14. /\ v.termination = (IF e2.ret > 0 THEN e2.type ELSE "NONE")
         /\ v.stop = (IF junk2 THEN x2.next + 1 ELSE x2.next)
         /\ v.next = (IF junk2 THEN x2.next + 1 ELSE e2.next)
         /\ v.header = (IF junk2 THEN [h2 EXCEPT !.type = "INVALID", !.len = 1] ELSE h2)
    <2> HIDE DEF e2, h2
    <2> QED BY <1>1 DEF UnitOf
  <1> HIDE DEF e, e2, h2
  <1>15. (junk <=> e.ret = 0) /\ (junk2 <=> e.ret = 0)
    <2>1. ~ iseos(d, x.next) /\ ~ iseos(s, x2.next)
      BY <1>3, <1>10, <1>11 DEF iseos
    <2>2. e2.ret = 0 <=> e.ret = 0
      BY <1>7, <1>12, <1>13
    <2> QED BY <2>1, <2>2
  <1> HIDE DEF junk, junk2
  <1>16. v.termination = u.termination
    BY <1>8, <1>12, <1>14
  <1>17. v.header.type = u.header.type /\ v.header.len = u.header.len
    <2>1. h2.type = h.type /\ h2.len = h.len
      BY <1>5 DEF Shifted, Token
    <2>2. /\ h2 = Token(h2.type, h2.first, h2.len, h2.ret, h2.next)
          /\ [h2 EXCEPT !.type = "INVALID", !.len = 1].type = "INVALID"
          /\ [h2 EXCEPT !.type = "INVALID", !.len = 1].len = 1
      BY <1>5 DEF Shifted, Token
    <2>3. Within(h, d, b)
      <3>1. b \in Pos(d)
        BY <1>4, LinedPos
      <3> QED BY <1>3, <3>1, HeaderWithin DEF h
    <2>4. /\ [h EXCEPT !.type = "INVALID", !.len = 1].type = "INVALID"
          /\ [h EXCEPT !.type = "INVALID", !.len = 1].len = 1
      <3>1. h = Token(h.type, h.first, h.len, h.ret, h.next)
        BY <2>3 DEF Within
      <3> QED BY <3>1 DEF Token
    <2> QED BY <1>8, <1>14, <1>15, <2>1, <2>2, <2>4
  <1>18. u.stop \in i .. q /\ v.stop = u.stop + o
    <2>1. CASE junk
      <3>1. x.next # q
        BY <1>12, <1>15, <2>1
      <3> QED BY <1>3, <1>8, <1>10, <1>11, <1>14, <1>15, <2>1, <3>1
    <2>2. CASE ~ junk
      BY <1>3, <1>8, <1>10, <1>11, <1>14, <1>15, <2>2
    <2> QED BY <2>1, <2>2
  <1>19. EndsAt(u, q) <=> EndsAt(v, q + o)
    <2>1. u.stop \in Int
      BY <1>3, <1>18
    <2> QED BY <1>3, <1>16, <1>18, <2>1 DEF EndsAt
  <1>20. EndsBefore(u, q) => v.next = u.next + o
    <2> SUFFICES ASSUME EndsBefore(u, q) PROVE v.next = u.next + o
      OBVIOUS
    <2>1. CASE junk
      BY <1>3, <1>8, <1>10, <1>11, <1>14, <1>15, <2>1
    <2>2. CASE ~ junk
      <3>1. x.next # q
        <4> SUFFICES ASSUME x.next = q PROVE FALSE
          OBVIOUS
        <4>1. u.termination = "NL" /\ u.stop = q
          BY <1>8, <1>12, <2>2
        <4> QED BY <4>1 DEF EndsBefore, EndsAt
      <3>2. e2.next = e.next + o
        BY <1>12, <3>1 DEF Shifted, Token
      <3> QED BY <1>8, <1>14, <1>15, <2>2, <3>2
    <2> QED BY <2>1, <2>2
  <1> QED BY <1>16, <1>17, <1>18, <1>19, <1>20 DEF u, v

-----------------------------------------------------------------------------
(* Where a unit stops *)

(* Where a unit stops: a line end ends it at one of its characters, and
   without any terminator it goes to the end of the text. *)
LEMMA UnitStops ==
  ASSUME NEW s \in Seq(Char), NEW i \in Pos(s)
  PROVE  LET u == detectProgramMessageUnit(s, i)
         IN  /\ u.stop \in i .. u.next /\ u.next \in Pos(s) /\ u.next >= i /\ (i <= Len(s) => u.next > i)
             /\ u.termination = "NL" =>
                  u.stop \in 1 .. Len(s) /\ s[u.stop] \in Lines /\ u.next = NewLine(s, u.stop).next
             /\ u.termination = "NONE" /\ u.header.type # "INVALID" => u.next = Len(s) + 1
  <1> DEFINE b == skipWs(s, i)
             h == ProgramHeader(s, b)
             d == UnitData(s, h)
             n == NewLine(s, d.next)
             c == Semicolon(s, d.next)
             e == UnitEnd(s, d.next)
             junk == e.ret = 0 /\ ~ iseos(s, d.next)
             u == detectProgramMessageUnit(s, i)
  <1>1. u = UnitOf(s, i, h, d, e)
    BY DEF detectProgramMessageUnit
  <1>2. u.next \in i .. Len(s) + 1 /\ (i <= Len(s) => u.next > i)
    BY UnitAdvances
  <1> HIDE DEF u
  <1>3. i \in Nat /\ i >= 1 /\ i <= Len(s) + 1 /\ Len(s) \in Nat
    BY DEF Pos
  <1>4. b \in Pos(s) /\ b >= i
    <2>1. b \in i .. Len(s) + 1 /\ b \in Pos(s)
      BY WsBounds
    <2> HIDE DEF b
    <2> QED BY <1>3, <2>1
  <1> HIDE DEF b
  <1>5. Within(h, s, b)
    BY <1>4, HeaderWithin
  <1>6. h.next \in Pos(s) /\ h.next >= b /\ h = Token(h.type, h.first, h.len, h.ret, h.next)
    <2> HIDE DEF h
    <2> QED BY <1>4, <1>5, WithinPos DEF Within
  <1> HIDE DEF h
  <1>7. d.next \in Pos(s) /\ d.next >= h.next
    <2> DEFINE a == skipWs(s, h.next)
               all == parseAllProgramData(s, a)
    <2>1. a \in h.next .. Len(s) + 1 /\ a \in Pos(s)
      BY <1>6, WsBounds
    <2>2. all.next \in a .. Len(s) + 1
      <3> HIDE DEF a
      <3> QED BY <2>1, AllDataWithin
    <2>3. d = IF a > h.next THEN all ELSE NoData(h.next)
      BY DEF UnitData
    <2>4. NoData(h.next).next = h.next
      BY DEF NoData, Token
    <2> HIDE DEF a, all, d
    <2> QED BY <1>3, <1>6, <2>1, <2>2, <2>3, <2>4 DEF Pos
  <1> HIDE DEF d
  <1>8. Within(n, s, d.next) /\ Within(c, s, d.next)
    BY <1>7, SeparatorsWithin
  <1>9. e = IF n.ret > 0 THEN n ELSE c
    BY DEF UnitEnd
  <1>10. n.ret > 0 => n.type = "NL" /\ (At(s, d.next, {"cr"}) \/ At(s, d.next, {"nl"}))
    <2> DEFINE a == Opt(s, d.next, {"cr"})
               k == Opt(s, a, {"nl"})
    <2>1. n = FoundOrNone("NL", d.next, k)
      BY DEF NewLine
    <2>2. n.ret > 0 => n.type = "NL" /\ k > d.next
      <3> HIDE DEF a, k, n
      <3> QED BY <2>1 DEF FoundOrNone, Found, None, Token
    <2>3. ~ At(s, d.next, {"cr"}) /\ ~ At(s, d.next, {"nl"}) => k = d.next
      BY DEF Opt
    <2>4. d.next \in Nat
      BY <1>7 DEF Pos
    <2> HIDE DEF a, k, n
    <2> QED BY <2>2, <2>3, <2>4
  <1>11. c.type # "NL"
    BY DEF Semicolon, FoundOrNone, Found, None, Token
  <1>12. Within(e, s, d.next)
    <2> HIDE DEF n, c, e
    <2> QED BY <1>8, <1>9
  <1> HIDE DEF n, c, e
  <1>13. e.next \in Nat /\ e.next >= d.next /\ e.next <= Len(s) + 1 /\ e.ret \in Nat
         /\ e.ret <= e.next - d.next /\ d.next \in Nat /\ d.next >= i
    BY <1>3, <1>4, <1>6, <1>7, <1>12 DEF Within, Pos
  <1>14. /\ u.termination = (IF e.ret > 0 THEN e.type ELSE "NONE")
         /\ u.stop = (IF junk THEN d.next + 1 ELSE d.next)
         /\ u.next = (IF junk THEN d.next + 1 ELSE e.next)
         /\ u.header = (IF junk THEN [h EXCEPT !.type = "INVALID", !.len = 1] ELSE h)
    BY <1>1 DEF UnitOf
  <1>15. u.stop \in i .. u.next
    BY <1>3, <1>13, <1>14
  <1>16. ASSUME u.termination = "NL"
         PROVE  u.stop \in 1 .. Len(s) /\ s[u.stop] \in Lines /\ u.next = NewLine(s, u.stop).next
    <2>1. e.ret > 0 /\ e.type = "NL"
      BY <1>14, <1>16
    <2>2. e = n /\ n.ret > 0
      BY <1>9, <1>11, <2>1
    <2>3. u.stop = d.next /\ u.next = n.next
      BY <1>14, <2>1, <2>2
    <2>4. At(s, d.next, {"cr"}) \/ At(s, d.next, {"nl"})
      BY <1>10, <2>2
    <2>5. d.next \in 1 .. Len(s) /\ s[d.next] \in Lines
      BY <1>3, <1>13, <2>4 DEF At, Lines
    <2> QED BY <2>3, <2>5 DEF n
  <1>17. ASSUME u.termination = "NONE", u.header.type # "INVALID"
         PROVE  u.next = Len(s) + 1
    <2>1. ~ junk
      <3> SUFFICES ASSUME junk PROVE FALSE
        OBVIOUS
      <3>1. u.header = [h EXCEPT !.type = "INVALID", !.len = 1]
        BY <1>14
      <3>2. u.header.type = "INVALID"
        BY <1>6, <3>1 DEF Token
      <3> QED BY <1>17, <3>2
    <2>2. e.ret = 0 \/ e.type = "NONE"
      BY <1>13, <1>14, <1>17
    <2>3. e.type # "NONE"
      <3>1. n.type # "NONE" /\ c.type # "NONE"
        BY DEF n, c, NewLine, Semicolon, FoundOrNone, Found, None, Token
      <3> QED BY <1>9, <3>1
    <2>4. iseos(s, d.next)
      BY <2>1, <2>2, <2>3
    <2>5. u.next = e.next
      BY <1>14, <2>1
    <2> QED BY <1>3, <1>13, <2>4, <2>5 DEF iseos
  <1>18. u.next \in Pos(s) /\ u.next >= i /\ (i <= Len(s) => u.next > i)
    BY <1>2, <1>3 DEF Pos
  <1> QED BY <1>15, <1>16, <1>17, <1>18 DEF u

-----------------------------------------------------------------------------
(* Line ends *)

(* The position of the line end that ends the line which i belongs to; 0 if
   that line is not complete *)
lineStop(s) ==
  LET from[i \in 1 .. Len(s) + 1] ==
        LET stop(u) == IF u.termination = "NL" THEN u.stop ELSE from[u.next]
        IN  IF i > Len(s) THEN 0 ELSE stop(detectProgramMessageUnit(s, i))
  IN  from

(* How the search for the line end goes on *)
LEMMA LineStopStep ==
  ASSUME NEW s \in Seq(Char)
  PROVE  \A i \in Pos(s) :
           LET u == detectProgramMessageUnit(s, i)
           IN  lineStop(s)[i] = IF i > Len(s) THEN 0
                                ELSE IF u.termination = "NL" THEN u.stop ELSE lineStop(s)[u.next]
  <1> DEFINE n == Len(s) + 1
             U(j) == detectProgramMessageUnit(s, j)
             S == {0} \cup {U(j).stop : j \in 1 .. n}
             body(g, j) == IF j > Len(s) THEN 0
                           ELSE IF U(j).termination = "NL" THEN U(j).stop ELSE g[U(j).next]
             step == [p \in (1 .. n) \X [1 .. n -> S] |-> body(p[2], p[1])]
  <1>1. n \in Nat /\ S # {} /\ Len(s) \in Nat
    OBVIOUS
  <1>2. ASSUME NEW j \in 1 .. n, j <= Len(s)
        PROVE  U(j).next \in j + 1 .. n
    <2>1. j \in Pos(s)
      BY DEF Pos
    <2>2. U(j).next \in Pos(s) /\ U(j).next > j
      BY <1>2, <2>1, UnitStops
    <2> HIDE DEF U
    <2> QED BY <1>1, <2>2 DEF Pos
  <1>3. \A j \in 1 .. n, g \in [1 .. n -> S] : step[<<j, g>>] = body(g, j)
    OBVIOUS
  <1>4. \A j \in 1 .. n, g \in [1 .. n -> S] : body(g, j) \in S
    <2> SUFFICES ASSUME NEW j \in 1 .. n, NEW g \in [1 .. n -> S] PROVE body(g, j) \in S
      OBVIOUS
    <2>1. j <= Len(s) => g[U(j).next] \in S
      <3>1. j <= Len(s) => U(j).next \in 1 .. n
        <4> SUFFICES ASSUME j <= Len(s) PROVE U(j).next \in 1 .. n
          OBVIOUS
        <4>1. U(j).next \in j + 1 .. n
          BY <1>2
        <4> HIDE DEF U
        <4> QED BY <1>1, <4>1
      <3> HIDE DEF U, S, n
      <3> QED BY <3>1
    <2>2. U(j).stop \in S /\ 0 \in S
      OBVIOUS
    <2> HIDE DEF S, U
    <2> QED BY <1>1, <2>1, <2>2
  <1>5. ASSUME NEW j \in 1 .. n, NEW g \in [1 .. n -> S], NEW h \in [1 .. n -> S],
               \A k \in j + 1 .. n : g[k] = h[k]
        PROVE  body(g, j) = body(h, j)
    <2>1. j <= Len(s) => U(j).next \in j + 1 .. n
      BY <1>2
    <2> HIDE DEF U, S
    <2> QED BY <1>1, <1>5, <2>1
  <1>6. PICK f \in [1 .. n -> S] : SolvesDown(f, step, n)
    <2>1. StepDown(step, n, S)
      <3> HIDE DEF step, S, n, body
      <3>1. \A j \in 1 .. n, g \in [1 .. n -> S] : step[<<j, g>>] \in S
        BY <1>3, <1>4
      <3>2. ASSUME NEW j \in 1 .. n, NEW g \in [1 .. n -> S], NEW h \in [1 .. n -> S],
                   \A k \in j + 1 .. n : g[k] = h[k]
            PROVE  step[<<j, g>>] = step[<<j, h>>]
        <4>1. body(g, j) = body(h, j)
          BY <1>5, <3>2
        <4> QED BY <1>3, <4>1
      <3> QED BY <3>1, <3>2 DEF StepDown
    <2> HIDE DEF step, S, n, body
    <2> QED BY <1>1, <2>1, RecursionDown
  <1>7. f = [j \in 1 .. n |-> body(f, j)]
    <2> HIDE DEF step, body
    <2> QED BY <1>3, <1>6 DEF SolvesDown
  <1>8. lineStop(s) = [j \in 1 .. n |-> body(lineStop(s), j)]
    BY <1>7 DEF lineStop
  <1> DEFINE F == lineStop(s)
  <1> HIDE DEF F
  <1>9. ASSUME NEW j \in 1 .. n
        PROVE  F[j] = body(F, j)
    <2> HIDE DEF body, n
    <2> QED BY <1>8 DEF F
  <1> HIDE DEF n
  <1> QED BY <1>9 DEF F, Pos, n

-----------------------------------------------------------------------------
(* Line ends stay where they are when more bytes come *)

(* A line ends behind where it begins, at CR or LF. *)
LEMMA LineStopAhead ==
  ASSUME NEW s \in Seq(Char)
  PROVE  \A i \in Pos(s) : lineStop(s)[i] # 0 => lineStop(s)[i] \in i .. Len(s) /\ s[lineStop(s)[i]] \in Lines
  <1> DEFINE n == Len(s) + 1
             F == lineStop(s)
             T == {i \in 1 .. n : F[i] # 0 => F[i] \in i .. Len(s) /\ s[F[i]] \in Lines}
  <1>1. n \in Nat /\ Len(s) \in Nat
    OBVIOUS
  <1>2. ASSUME NEW i \in 1 .. n, \A k \in i + 1 .. n : k \in T
        PROVE  i \in T
    <2> SUFFICES ASSUME F[i] # 0 PROVE F[i] \in i .. Len(s) /\ s[F[i]] \in Lines
      OBVIOUS
    <2> DEFINE u == detectProgramMessageUnit(s, i)
    <2>1. i \in Pos(s)
      BY DEF Pos
    <2>2. F[i] = IF i > Len(s) THEN 0 ELSE IF u.termination = "NL" THEN u.stop ELSE F[u.next]
      BY <2>1, LineStopStep
    <2>3. /\ u.stop \in i .. u.next /\ u.next \in Pos(s) /\ (i <= Len(s) => u.next > i)
          /\ u.termination = "NL" => u.stop \in 1 .. Len(s) /\ s[u.stop] \in Lines
      BY <2>1, UnitStops
    <2> HIDE DEF u, F
    <2>4. CASE u.termination = "NL"
      BY <1>1, <2>2, <2>3, <2>4
    <2>5. CASE u.termination # "NL"
      <3>1. F[i] = F[u.next] /\ u.next \in i + 1 .. n
        BY <1>1, <2>2, <2>3, <2>5 DEF Pos
      <3>2. u.next \in T
        BY <1>2, <3>1
      <3>3. F[i] \in u.next .. Len(s) /\ s[F[i]] \in Lines
        BY <3>1, <3>2
      <3> QED BY <1>1, <3>1, <3>3
    <2> QED BY <2>4, <2>5
  <1> HIDE DEF T, n
  <1>3. \A i \in 1 .. n : i \in T
    BY <1>1, <1>2, InductionDown
  <1> QED BY <1>3 DEF T, n, Pos

(* The first unit of a line ends with it or before it. *)
LEMMA LineUnits ==
  ASSUME NEW s \in Seq(Char), NEW i \in Pos(s), lineStop(s)[i] # 0
  PROVE  LET u == detectProgramMessageUnit(s, i)
             q == lineStop(s)[i]
         IN  /\ q \in i .. Len(s) /\ s[q] \in Lines /\ i <= Len(s)
             /\ \/ u.termination = "NL" /\ EndsAt(u, q) /\ u.next = NewLine(s, q).next
                \/ /\ u.termination # "NL" /\ EndsBefore(u, q)
                   /\ u.next \in i + 1 .. q /\ lineStop(s)[u.next] = q
  <1> DEFINE u == detectProgramMessageUnit(s, i)
             q == lineStop(s)[i]
  <1>1. q = IF i > Len(s) THEN 0 ELSE IF u.termination = "NL" THEN u.stop ELSE lineStop(s)[u.next]
    BY LineStopStep
  <1>2. /\ u.stop \in i .. u.next /\ u.next \in Pos(s) /\ (i <= Len(s) => u.next > i)
        /\ u.termination = "NL" => u.stop \in 1 .. Len(s) /\ u.next = NewLine(s, u.stop).next
    BY UnitStops
  <1>3. q # 0 /\ q \in i .. Len(s) /\ s[q] \in Lines
    BY LineStopAhead
  <1> HIDE DEF u, q
  <1>4. i <= Len(s) /\ i \in Nat /\ Len(s) \in Nat /\ u.next \in Nat
    BY <1>1, <1>2, <1>3 DEF Pos
  <1>5. CASE u.termination = "NL"
    <2>1. EndsAt(u, q) /\ u.next = NewLine(s, q).next
      BY <1>1, <1>2, <1>4, <1>5 DEF EndsAt
    <2> QED BY <1>3, <1>4, <1>5, <2>1 DEF u, q
  <1>6. CASE u.termination # "NL"
    <2>1. q = lineStop(s)[u.next]
      BY <1>1, <1>4, <1>6
    <2>2. q \in u.next .. Len(s)
      BY <1>2, <1>3, <2>1, LineStopAhead
    <2>3. EndsBefore(u, q) /\ u.next \in i + 1 .. q
      BY <1>2, <1>4, <1>6, <2>2 DEF EndsBefore, EndsAt
    <2> QED BY <1>3, <1>4, <1>6, <2>1, <2>3 DEF u, q
  <1> QED BY <1>5, <1>6

(* The rest of a line that is alike is alike, *)
LEMMA LinedRest ==
  ASSUME NEW s, NEW d, NEW o, NEW i, NEW q, Lined(s, d, o, i, q), NEW j \in i .. q
  PROVE  Lined(s, d, o, j, q)
  BY DEF Lined, Alike

(* and so are the same lines the other way round. *)
LEMMA LinedBack ==
  ASSUME NEW s, NEW d, NEW o, NEW i, NEW q, Lined(s, d, o, i, q)
  PROVE  Lined(d, s, 0 - o, i + o, q + o)
  <1>1. /\ s \in Seq(Char) /\ d \in Seq(Char) /\ o \in Int /\ i \in Nat /\ i >= 1 /\ i + o >= 1 /\ q \in Nat
        /\ i <= q /\ q <= Len(d) /\ q + o <= Len(s) /\ Len(s) \in Nat /\ Len(d) \in Nat
        /\ \A k \in i .. q - 1 : s[k + o] = d[k]
        /\ s[q + o] = d[q] /\ \A k \in i .. q : d[k] \notin Quote
        /\ Edge(d, q, Lines) /\ Edge(s, q + o, Lines)
    BY DEF Lined, Alike
  <1>2. 0 - o \in Int /\ i + o \in Nat /\ q + o \in Nat /\ (i + o) + (0 - o) = i /\ (q + o) + (0 - o) = q
    BY <1>1
  <1>3. \A k \in i + o .. q + o - 1 : d[k + (0 - o)] = s[k]
    <2> TAKE k \in i + o .. q + o - 1
    <2>1. k + (0 - o) \in i .. q - 1 /\ (k + (0 - o)) + o = k
      BY <1>1
    <2> QED BY <1>1, <2>1
  <1>4. \A k \in i + o .. q + o : s[k] \notin Quote
    <2> TAKE k \in i + o .. q + o
    <2>1. k + (0 - o) \in i .. q /\ (k + (0 - o)) + o = k
      BY <1>1
    <2>2. CASE k + (0 - o) = q
      <3>1. k = q + o
        BY <2>1, <2>2
      <3> QED BY <1>1, <2>1, <2>2, <3>1
    <2>3. CASE k + (0 - o) # q
      <3>1. k + (0 - o) \in i .. q - 1
        BY <1>1, <2>1, <2>3
      <3>2. s[(k + (0 - o)) + o] = d[k + (0 - o)]
        BY <1>1, <3>1
      <3> QED BY <1>1, <2>1, <3>2
    <2> QED BY <2>2, <2>3
  <1>5. /\ i + o >= 1 /\ (i + o) + (0 - o) >= 1 /\ i + o <= q + o /\ q + o <= Len(s) + 1
        /\ (q + o) + (0 - o) <= Len(d) + 1 /\ Edge(d, (q + o) + (0 - o), Lines)
        /\ q + o <= Len(s) /\ (q + o) + (0 - o) <= Len(d) /\ d[(q + o) + (0 - o)] = s[q + o]
    BY <1>1, <1>2
  <1> QED BY <1>1, <1>2, <1>3, <1>4, <1>5 DEF Lined, Alike

(* A line ends at the same place in texts in which it is alike. *)
LEMMA LineStopLined ==
  ASSUME NEW s, NEW d, NEW o, NEW i, NEW q, Lined(s, d, o, i, q), lineStop(d)[i] = q
  PROVE  lineStop(s)[i + o] = q + o
  <1> DEFINE I == {j \in 1 .. q : j >= i /\ lineStop(d)[j] = q => lineStop(s)[j + o] = q + o}
  <1>1. /\ s \in Seq(Char) /\ d \in Seq(Char) /\ o \in Int /\ Len(s) \in Nat /\ Len(d) \in Nat
        /\ q \in Nat /\ i \in Nat /\ i >= 1 /\ i <= q /\ i + o >= 1 /\ q <= Len(d) /\ q + o <= Len(s)
    BY DEF Lined, Alike
  <1>2. ASSUME NEW j \in 1 .. q, \A k \in j + 1 .. q : k \in I
        PROVE  j \in I
    <2> SUFFICES ASSUME j >= i, lineStop(d)[j] = q PROVE lineStop(s)[j + o] = q + o
      OBVIOUS
    <2> DEFINE u == detectProgramMessageUnit(d, j)
               v == detectProgramMessageUnit(s, j + o)
    <2>1. j \in i .. q /\ q # 0
      BY <1>1
    <2>2. Lined(s, d, o, j, q)
      BY <2>1, LinedRest
    <2>3. j \in Pos(d) /\ j + o \in Pos(s) /\ j + o <= Len(s)
      <3>1. j \in Pos(d) /\ j + o \in Pos(s)
        BY <2>1, LinedPos
      <3> QED BY <1>1, <2>1, <3>1
    <2>4. \/ u.termination = "NL" /\ EndsAt(u, q)
          \/ u.termination # "NL" /\ EndsBefore(u, q) /\ u.next \in j + 1 .. q /\ lineStop(d)[u.next] = q
      BY <1>1, <2>1, <2>3, LineUnits
    <2>5. /\ v.termination = u.termination /\ v.stop = u.stop + o
          /\ EndsBefore(u, q) => v.next = u.next + o
      BY <2>2, <2>4, UnitLined
    <2>6. lineStop(s)[j + o] = IF v.termination = "NL" THEN v.stop ELSE lineStop(s)[v.next]
      <3>1. lineStop(s)[j + o] = IF j + o > Len(s) THEN 0
                                 ELSE IF v.termination = "NL" THEN v.stop ELSE lineStop(s)[v.next]
        BY <1>1, <2>3, LineStopStep
      <3> HIDE DEF v
      <3> QED BY <1>1, <2>3, <3>1
    <2> HIDE DEF u, v
    <2>7. CASE u.termination = "NL" /\ EndsAt(u, q)
      BY <2>5, <2>6, <2>7 DEF EndsAt
    <2>8. CASE u.termination # "NL" /\ EndsBefore(u, q) /\ u.next \in j + 1 .. q /\ lineStop(d)[u.next] = q
      <3>1. u.next \in I /\ u.next >= i
        BY <1>1, <1>2, <2>8
      <3>2. lineStop(s)[u.next + o] = q + o
        BY <2>8, <3>1
      <3> QED BY <2>5, <2>6, <2>8, <3>2
    <2> QED BY <2>4, <2>7, <2>8
  <1> HIDE DEF I
  <1>3. \A j \in 1 .. q : j \in I
    BY <1>1, <1>2, InductionDown
  <1>4. i \in I
    BY <1>1, <1>3
  <1> QED BY <1>1, <1>4 DEF I

-----------------------------------------------------------------------------
(* The complete lines of a text *)

(* The complete lines from a position on *)
Handled(s) == [texts : Seq(Seq(Char)), next : 0 .. Len(s) + 1]

(* What it is to put texts before lines *)
LEMMA BeforeIs ==
  ASSUME NEW s, NEW r \in Handled(s), NEW texts \in Seq(Seq(Char)), NEW next \in 1 .. Len(s) + 1
  PROVE  /\ Before(texts, next, r) = IF r.next = 0 THEN [texts |-> texts, next |-> next]
                                     ELSE [texts |-> texts \o r.texts, next |-> r.next]
         /\ Before(texts, next, r) \in Handled(s) /\ Before(texts, next, r).next # 0
  <1>1. r = [texts |-> r.texts, next |-> r.next] /\ r.texts \in Seq(Seq(Char)) /\ r.next \in 0 .. Len(s) + 1
    BY DEF Handled
  <1>2. texts \o r.texts \in Seq(Seq(Char))
    BY <1>1, ConcatProperties
  <1>3. [r EXCEPT !.texts = texts \o @] = [texts |-> texts \o r.texts, next |-> r.next]
    <2> DEFINE x == r.texts
               y == r.next
    <2>1. r = [texts |-> x, next |-> y]
      BY <1>1
    <2> HIDE DEF x, y
    <2>2. r.texts = x /\ r.next = y
      BY <2>1
    <2> DEFINE t == texts \o x
    <2> HIDE DEF t
    <2>3. [[texts |-> x, next |-> y] EXCEPT !.texts = t] = [texts |-> t, next |-> y]
      OBVIOUS
    <2> QED BY <2>1, <2>2, <2>3 DEF t
  <1>4. Before(texts, next, r) = IF r.next = 0 THEN [texts |-> texts, next |-> next]
                                 ELSE [texts |-> texts \o r.texts, next |-> r.next]
    BY <1>3 DEF Before
  <1>5. next \in 0 .. Len(s) + 1 /\ next # 0
    BY <1>1
  <1> QED BY <1>1, <1>2, <1>4, <1>5 DEF Handled

(* Texts are joined in any order. *)
LEMMA TextsJoined ==
  \A x, y, z \in Seq(Seq(Char)) : (x \o y) \o z = x \o (y \o z)
  <1> DEFINE S == Seq(Char)
  <1> HIDE DEF S
  <1>1. \A x, y, z \in Seq(S) : (x \o y) \o z = x \o (y \o z)
    BY ConcatAssociative
  <1> QED BY <1>1 DEF S

(* Lines behind lines behind texts *)
LEMMA BeforeBefore ==
  ASSUME NEW s, NEW r \in Handled(s), NEW a \in Seq(Seq(Char)), NEW b \in Seq(Seq(Char)),
         NEW k \in 1 .. Len(s) + 1, NEW m \in 1 .. Len(s) + 1
  PROVE  Before(a, k, Before(b, m, r)) = Before(a \o b, m, r)
  <1>0. \A e \in Handled(s), texts \in Seq(Seq(Char)), next \in 1 .. Len(s) + 1 :
           Before(texts, next, e) = IF e.next = 0 THEN [texts |-> texts, next |-> next]
                                    ELSE [texts |-> texts \o e.texts, next |-> e.next]
    BY BeforeIs
  <1> DEFINE x == Before(b, m, r)
  <1>1. a \o b \in Seq(Seq(Char)) /\ r.texts \in Seq(Seq(Char))
    BY ConcatProperties DEF Handled
  <1>2. /\ x = IF r.next = 0 THEN [texts |-> b, next |-> m] ELSE [texts |-> b \o r.texts, next |-> r.next]
        /\ x \in Handled(s) /\ x.next # 0
    BY BeforeIs
  <1> HIDE DEF x
  <1>3. Before(a, k, x) = [texts |-> a \o x.texts, next |-> x.next]
    BY <1>0, <1>2
  <1>4. Before(a \o b, m, r) = IF r.next = 0 THEN [texts |-> a \o b, next |-> m]
                               ELSE [texts |-> (a \o b) \o r.texts, next |-> r.next]
    BY <1>0, <1>1
  <1>5. (a \o b) \o r.texts = a \o (b \o r.texts)
    BY <1>1, TextsJoined, Zenon
  <1>6. CASE r.next = 0
    <2>1. x = [texts |-> b, next |-> m]
      BY <1>2, <1>6
    <2>2. x.texts = b /\ x.next = m
      BY <2>1
    <2> QED BY <1>3, <1>4, <1>6, <2>2 DEF x
  <1>7. CASE r.next # 0
    <2>1. x = [texts |-> b \o r.texts, next |-> r.next]
      BY <1>2, <1>7
    <2>2. x.texts = b \o r.texts /\ x.next = r.next
      BY <2>1
    <2> QED BY <1>3, <1>4, <1>5, <1>7, <2>2 DEF x
  <1> QED BY <1>6, <1>7

(* The text of a unit is a text. *)
LEMMA UnitTextIs ==
  ASSUME NEW s \in Seq(Char), NEW i \in Pos(s), NEW u, u.stop \in i .. Len(s) + 1
  PROVE  UnitText(s, i, u) \in Seq(Seq(Char))
  <1>1. \A k \in i .. u.stop - 1 : s[k] \in Char
    BY DEF Pos
  <1>2. SubSeq(s, i, u.stop - 1) \in Seq(Char)
    <2>1. i \in Int /\ u.stop - 1 \in Int
      BY DEF Pos
    <2> QED BY <1>1, <2>1, SubSeqProperties
  <1>3. <<SubSeq(s, i, u.stop - 1)>> \in Seq(Seq(Char)) /\ <<>> \in Seq(Seq(Char))
    BY <1>2, Singleton, EmptySeq
  <1> QED BY <1>3 DEF UnitText

(* How the collection of the lines goes on *)
LEMMA CompleteFromStep ==
  ASSUME NEW s \in Seq(Char)
  PROVE  \A i \in Pos(s) :
           LET u == detectProgramMessageUnit(s, i)
           IN  /\ completeFrom(s)[i] \in Handled(s)
               /\ completeFrom(s)[i] = IF i > Len(s) THEN NoLine ELSE LineUnit(s, i, u, completeFrom(s)[u.next])
  <1> DEFINE n == Len(s) + 1
             U(j) == detectProgramMessageUnit(s, j)
             S == Handled(s)
             body(g, j) == IF j > Len(s) THEN NoLine ELSE LineUnit(s, j, U(j), g[U(j).next])
             step == [p \in (1 .. n) \X [1 .. n -> S] |-> body(p[2], p[1])]
  <1>1. n \in Nat /\ Len(s) \in Nat /\ NoLine \in S
    <2>1. <<>> \in Seq(Seq(Char))
      BY EmptySeq
    <2>2. n \in Nat /\ Len(s) \in Nat /\ 0 \in 0 .. Len(s) + 1
      OBVIOUS
    <2> QED BY <2>1, <2>2 DEF Handled, NoLine
  <1>2. ASSUME NEW j \in 1 .. n, j <= Len(s)
        PROVE  U(j).next \in j + 1 .. n
    <2>1. j \in Pos(s)
      BY DEF Pos
    <2>2. U(j).next \in Pos(s) /\ U(j).next > j
      BY <1>2, <2>1, UnitStops
    <2> HIDE DEF U
    <2> QED BY <1>1, <2>2 DEF Pos
  <1>3. \A j \in 1 .. n, g \in [1 .. n -> S] : step[<<j, g>>] = body(g, j)
    OBVIOUS
  <1>4. \A j \in 1 .. n, g \in [1 .. n -> S] : body(g, j) \in S
    <2> SUFFICES ASSUME NEW j \in 1 .. n, NEW g \in [1 .. n -> S] PROVE body(g, j) \in S
      OBVIOUS
    <2>1. CASE j > Len(s)
      BY <1>1, <2>1
    <2>2. CASE ~ (j > Len(s))
      <3> DEFINE u == U(j)
                 r == g[u.next]
      <3>1. j <= Len(s) /\ j \in Pos(s)
        BY <1>1, <2>2 DEF Pos
      <3>2. u.next \in 1 .. n
        <4>1. u.next \in j + 1 .. n
          BY <1>2, <3>1
        <4> HIDE DEF u
        <4> QED BY <1>1, <4>1
      <3>3. r \in S
        <4> HIDE DEF u, S, n
        <4> QED BY <3>2
      <3>4. UnitText(s, j, u) \in Seq(Seq(Char))
        <4>1. u.stop \in j .. u.next
          BY <3>1, UnitStops
        <4> HIDE DEF u
        <4>2. u.stop \in j .. Len(s) + 1
          BY <1>1, <3>2, <4>1
        <4> QED BY <3>1, <4>2, UnitTextIs
      <3> HIDE DEF u, r
      <3>5. Before(UnitText(s, j, u), u.next, r) \in S
        BY <3>2, <3>3, <3>4, BeforeIs
      <3>6. LineUnit(s, j, u, r) \in S
        <4> HIDE DEF S
        <4> QED BY <1>1, <3>5 DEF LineUnit
      <3> QED BY <2>2, <3>6 DEF u, r
    <2> QED BY <2>1, <2>2
  <1>5. ASSUME NEW j \in 1 .. n, NEW g \in [1 .. n -> S], NEW h \in [1 .. n -> S],
               \A k \in j + 1 .. n : g[k] = h[k]
        PROVE  body(g, j) = body(h, j)
    <2>1. j <= Len(s) => U(j).next \in j + 1 .. n
      BY <1>2
    <2> HIDE DEF U, S
    <2> QED BY <1>1, <1>5, <2>1
  <1>6. PICK f \in [1 .. n -> S] : SolvesDown(f, step, n)
    <2>1. StepDown(step, n, S)
      <3> HIDE DEF step, S, n, body
      <3>1. \A j \in 1 .. n, g \in [1 .. n -> S] : step[<<j, g>>] \in S
        BY <1>3, <1>4
      <3>2. ASSUME NEW j \in 1 .. n, NEW g \in [1 .. n -> S], NEW h \in [1 .. n -> S],
                   \A k \in j + 1 .. n : g[k] = h[k]
            PROVE  step[<<j, g>>] = step[<<j, h>>]
        <4>1. body(g, j) = body(h, j)
          BY <1>5, <3>2
        <4> QED BY <1>3, <4>1
      <3> QED BY <3>1, <3>2 DEF StepDown
    <2> HIDE DEF step, S, n, body
    <2>2. S # {}
      BY <1>1
    <2> QED BY <1>1, <2>1, <2>2, RecursionDown
  <1>7. f = [j \in 1 .. n |-> body(f, j)]
    <2> HIDE DEF step, body
    <2> QED BY <1>3, <1>6 DEF SolvesDown
  <1>8. completeFrom(s) = [j \in 1 .. n |-> body(completeFrom(s), j)]
    BY <1>7 DEF completeFrom
  <1> DEFINE F == completeFrom(s)
  <1> HIDE DEF F
  <1>9. ASSUME NEW j \in 1 .. n
        PROVE  F[j] = body(F, j)
    <2> HIDE DEF body, n
    <2> QED BY <1>8 DEF F
  <1>10. ASSUME NEW j \in 1 .. n
         PROVE  F[j] \in S
    <2> DEFINE T == {k \in 1 .. n : F[k] \in S}
    <2>1. ASSUME NEW k \in 1 .. n, \A m \in k + 1 .. n : m \in T
          PROVE  k \in T
      <3> DEFINE g == [m \in 1 .. n |-> IF F[m] \in S THEN F[m] ELSE NoLine]
      <3>1. g \in [1 .. n -> S]
        <4> HIDE DEF S, n
        <4> QED BY <1>1
      <3>2. body(F, k) = body(g, k)
        <4>1. k <= Len(s) => U(k).next \in k + 1 .. n
          BY <1>2
        <4>2. k <= Len(s) => F[U(k).next] = g[U(k).next]
          <5> SUFFICES ASSUME k <= Len(s) PROVE F[U(k).next] = g[U(k).next]
            OBVIOUS
          <5>1. U(k).next \in k + 1 .. n
            BY <4>1
          <5> HIDE DEF U, S, n
          <5> QED BY <2>1, <5>1
        <4> HIDE DEF g, U
        <4> QED BY <1>1, <4>2
      <3>3. body(g, k) \in S
        <4> HIDE DEF g, body, S
        <4> QED BY <1>4, <3>1
      <3>4. F[k] = body(F, k)
        BY <1>9
      <3> HIDE DEF body, g, S
      <3> QED BY <3>2, <3>3, <3>4
    <2> HIDE DEF T, n
    <2>2. \A k \in 1 .. n : k \in T
      BY <1>1, <2>1, InductionDown
    <2> QED BY <2>2 DEF T
  <1> HIDE DEF n
  <1> QED BY <1>9, <1>10 DEF F, Pos, n

-----------------------------------------------------------------------------
(* Lines without quotes *)

(* A text without a quote *)
QuoteFree(s) == \A k \in DOMAIN s : s[k] \notin Quote

(* What it takes for texts to have a line in common *)
LEMMA LinedOf ==
  ASSUME NEW s \in Seq(Char), NEW d \in Seq(Char), NEW o \in Int, NEW i \in Nat, NEW q \in Nat,
         i >= 1, i + o >= 1, i <= q, q <= Len(d), q + o <= Len(s),
         \A k \in i .. q : s[k + o] = d[k] /\ d[k] \notin Quote, d[q] \in Lines
  PROVE  Lined(s, d, o, i, q)
  <1>1. \A k \in i .. q : d[k] \notin Quote
    OBVIOUS
  <1>2. s[q + o] = d[q] /\ Len(s) \in Nat /\ Len(d) \in Nat
    OBVIOUS
  <1>3. Edge(d, q, Lines) /\ Edge(s, q + o, Lines)
    BY <1>2 DEF Edge
  <1>4. \A k \in i .. q - 1 : s[k + o] = d[k]
    OBVIOUS
  <1>5. q <= Len(d) + 1 /\ q + o <= Len(s) + 1
    BY <1>2
  <1> QED BY <1>1, <1>2, <1>3, <1>4, <1>5 DEF Lined, Alike

(* The units have the same text. *)
LEMMA UnitTextLined ==
  ASSUME NEW s, NEW d, NEW o, NEW i, NEW q, Lined(s, d, o, i, q),
         LET u == detectProgramMessageUnit(d, i) IN EndsAt(u, q) \/ EndsBefore(u, q)
  PROVE  /\ SubSeq(s, i + o, detectProgramMessageUnit(s, i + o).stop - 1)
              = SubSeq(d, i, detectProgramMessageUnit(d, i).stop - 1)
         /\ UnitText(s, i + o, detectProgramMessageUnit(s, i + o))
              = UnitText(d, i, detectProgramMessageUnit(d, i))
  <1> DEFINE u == detectProgramMessageUnit(d, i)
             v == detectProgramMessageUnit(s, i + o)
             x == SubSeq(s, i + o, v.stop - 1)
             y == SubSeq(d, i, u.stop - 1)
  <1>1. u.stop \in i .. q /\ v.stop = u.stop + o 
    BY UnitLined
  <1>10. v.header.len = u.header.len /\ v.header.type = u.header.type
    BY UnitLined
  <1> HIDE DEF u, v
  <1>2. /\ i \in Nat /\ i >= 1 /\ i + o >= 1 /\ q \in Nat /\ o \in Int /\ q <= Len(d) /\ q + o <= Len(s)
        /\ s \in Seq(Char) /\ d \in Seq(Char) /\ Len(s) \in Nat /\ Len(d) \in Nat /\ u.stop \in Nat
        /\ \A k \in i .. q - 1 : s[k + o] = d[k]
    <2>1. /\ i \in Nat /\ i >= 1 /\ i + o >= 1 /\ q \in Nat /\ o \in Int /\ q <= Len(d) /\ q + o <= Len(s)
          /\ s \in Seq(Char) /\ d \in Seq(Char)
          /\ \A k \in i .. q - 1 : s[k + o] = d[k]
      BY DEF Lined, Alike
    <2>2. u.stop \in Nat
      BY <1>1, <2>1
    <2>3. Len(s) \in Nat /\ Len(d) \in Nat
      BY <2>1
    <2> QED BY <2>1, <2>2, <2>3, Zenon
  <1>3. /\ i + o \in Int /\ v.stop - 1 \in Int /\ u.stop - 1 \in Int /\ i \in Int
        /\ \A k \in i + o .. v.stop - 1 : s[k] \in Char
        /\ \A k \in i .. u.stop - 1 : d[k] \in Char
    <2>1. i + o \in Int /\ v.stop - 1 \in Int /\ u.stop - 1 \in Int /\ i \in Int
      BY <1>1, <1>2
    <2>2. ASSUME NEW k \in i + o .. v.stop - 1 PROVE s[k] \in Char
      <3>1. k \in 1 .. Len(s)
        BY <1>1, <1>2
      <3> QED BY <1>2, <3>1
    <2>3. ASSUME NEW k \in i .. u.stop - 1 PROVE d[k] \in Char
      <3>1. k \in 1 .. Len(d)
        BY <1>1, <1>2
      <3> QED BY <1>2, <3>1
    <2> QED BY <2>1, <2>2, <2>3
  <1>4. /\ y \in Seq(Char) /\ Len(y) = IF i <= u.stop - 1 THEN u.stop - i ELSE 0
        /\ \A k \in 1 .. u.stop - i : y[k] = d[i + k - 1]
    <2>1. /\ y \in Seq(Char) /\ Len(y) = IF i <= u.stop - 1 THEN (u.stop - 1) - i + 1 ELSE 0
          /\ \A k \in 1 .. (u.stop - 1) - i + 1 : y[k] = d[i + k - 1]
      BY <1>3, SubSeqProperties
    <2> QED BY <1>2, <2>1
  <1>5. /\ x \in Seq(Char) /\ Len(x) = IF i <= u.stop - 1 THEN u.stop - i ELSE 0
        /\ \A k \in 1 .. u.stop - i : x[k] = s[i + o + k - 1]
    <2>1. /\ x \in Seq(Char) /\ Len(x) = IF i + o <= v.stop - 1 THEN (v.stop - 1) - (i + o) + 1 ELSE 0
          /\ \A k \in 1 .. (v.stop - 1) - (i + o) + 1 : x[k] = s[i + o + k - 1]
      BY <1>3, SubSeqProperties
    <2>2. (v.stop - 1) - (i + o) + 1 = u.stop - i /\ (i + o <= v.stop - 1 <=> i <= u.stop - 1)
      BY <1>1, <1>2
    <2> QED BY <2>1, <2>2
  <1> HIDE DEF x, y
  <1>6. \A k \in 1 .. u.stop - i : x[k] = y[k]
    <2> TAKE k \in 1 .. u.stop - i
    <2>1. i + k - 1 \in i .. q - 1 /\ (i + k - 1) + o = i + o + k - 1
      BY <1>1, <1>2, SMTT(30)
    <2>2. s[(i + k - 1) + o] = d[i + k - 1]
      BY <1>2, <2>1
    <2> QED BY <1>4, <1>5, <2>1, <2>2
  <1>7. Len(x) = Len(y) /\ \A k \in 1 .. Len(x) : x[k] = y[k]
    BY <1>1, <1>2, <1>4, <1>5, <1>6
  <1>8. x = y
    BY <1>4, <1>5, <1>7, SeqEqual
  <1>9. UnitText(s, i + o, v) = UnitText(d, i, u)
    BY <1>8, <1>10 DEF UnitText, x, y
  <1> QED BY <1>8, <1>9 DEF x, y, u, v

(* A line is complete if it has an end. *)
LEMMA CompleteNext ==
  ASSUME NEW s \in Seq(Char)
  PROVE  \A i \in Pos(s) : completeFrom(s)[i].next # 0 <=> lineStop(s)[i] # 0
  <1> DEFINE n == Len(s) + 1
             F == completeFrom(s)
             G == lineStop(s)
             T == {i \in 1 .. n : F[i].next # 0 <=> G[i] # 0}
  <1>1. n \in Nat /\ Len(s) \in Nat
    OBVIOUS
  <1>2. ASSUME NEW i \in 1 .. n, \A k \in i + 1 .. n : k \in T
        PROVE  i \in T
    <2> DEFINE u == detectProgramMessageUnit(s, i)
    <2>1. i \in Pos(s)
      BY DEF Pos
    <2>2. G[i] = IF i > Len(s) THEN 0 ELSE IF u.termination = "NL" THEN u.stop ELSE G[u.next]
      BY <2>1, LineStopStep
    <2>3. F[i] = IF i > Len(s) THEN NoLine ELSE LineUnit(s, i, u, F[u.next])
      BY <2>1, CompleteFromStep
    <2>4. /\ u.stop \in i .. u.next /\ u.next \in Pos(s) /\ (i <= Len(s) => u.next > i)
          /\ u.termination = "NL" => u.stop \in 1 .. Len(s)
      BY <2>1, UnitStops
    <2> HIDE DEF u
    <2>5. F[u.next] \in Handled(s)
      BY <2>4, CompleteFromStep
    <2>6. UnitText(s, i, u) \in Seq(Seq(Char)) /\ u.next \in 1 .. Len(s) + 1
      <3>1. u.stop \in i .. Len(s) + 1 /\ u.next \in 1 .. Len(s) + 1
        BY <1>1, <2>1, <2>4 DEF Pos
      <3> QED BY <2>1, <3>1, UnitTextIs
    <2>7. Before(UnitText(s, i, u), u.next, F[u.next]).next # 0
      BY <2>5, <2>6, BeforeIs
    <2> HIDE DEF F, G
    <2>8. CASE i > Len(s)
      BY <2>2, <2>3, <2>8 DEF NoLine
    <2>9. CASE i <= Len(s) /\ u.termination = "NL"
      <3>1. F[i] = Before(UnitText(s, i, u), u.next, F[u.next])
        BY <1>1, <2>3, <2>9 DEF LineUnit
      <3> QED BY <1>1, <2>2, <2>4, <2>7, <2>9, <3>1
    <2>10. CASE i <= Len(s) /\ u.termination # "NL"
      <3>1. F[u.next].next # 0 <=> G[u.next] # 0
        <4>1. u.next \in T
          BY <1>1, <1>2, <2>4, <2>10 DEF Pos
        <4> QED BY <4>1
      <3>2. G[i] = G[u.next]
        BY <1>1, <2>2, <2>10
      <3>3. CASE F[u.next].next = 0
        <4>1. F[i] = NoLine
          BY <1>1, <2>3, <2>10, <3>3 DEF LineUnit
        <4> QED BY <3>1, <3>2, <3>3, <4>1 DEF NoLine
      <3>4. CASE F[u.next].next # 0
        <4>1. F[i] = Before(UnitText(s, i, u), u.next, F[u.next])
          BY <1>1, <2>3, <2>10, <3>4 DEF LineUnit
        <4> QED BY <2>7, <3>1, <3>2, <3>4, <4>1
      <3> QED BY <3>3, <3>4
    <2> QED BY <1>1, <2>8, <2>9, <2>10
  <1> HIDE DEF T, n
  <1>3. \A i \in 1 .. n : i \in T
    BY <1>1, <1>2, InductionDown
  <1> QED BY <1>3 DEF T, n, Pos

(* The text of a unit, and what is known of its position *)
LEMMA UnitTextHandled ==
  ASSUME NEW s \in Seq(Char), NEW i \in Pos(s)
  PROVE  LET u == detectProgramMessageUnit(s, i)
         IN  /\ UnitText(s, i, u) \in Seq(Seq(Char)) /\ u.next \in 1 .. Len(s) + 1
             /\ completeFrom(s)[u.next] \in Handled(s) /\ (i <= Len(s) => u.next > i)
  <1> DEFINE u == detectProgramMessageUnit(s, i)
  <1>1. u.stop \in i .. u.next /\ u.next \in Pos(s) /\ (i <= Len(s) => u.next > i)
    BY UnitStops
  <1> HIDE DEF u
  <1>2. completeFrom(s)[u.next] \in Handled(s)
    BY <1>1, CompleteFromStep
  <1>3. u.stop \in i .. Len(s) + 1 /\ u.next \in 1 .. Len(s) + 1
    BY <1>1 DEF Pos
  <1>4. UnitText(s, i, u) \in Seq(Seq(Char))
    BY <1>3, UnitTextIs
  <1> QED BY <1>1, <1>2, <1>3, <1>4 DEF u

(* The lines from a unit on are this unit and those behind it. *)
LEMMA CompleteUnit ==
  ASSUME NEW s \in Seq(Char), NEW i \in Pos(s), lineStop(s)[i] # 0
  PROVE  LET u == detectProgramMessageUnit(s, i)
             r == completeFrom(s)[u.next]
         IN  /\ completeFrom(s)[i] = Before(UnitText(s, i, u), u.next, r)
             /\ u.termination # "NL" => r.next # 0
  <1> DEFINE u == detectProgramMessageUnit(s, i)
             r == completeFrom(s)[u.next]
             q == lineStop(s)[i]
  <1>1. i <= Len(s) /\ (u.termination # "NL" => lineStop(s)[u.next] = q /\ u.next \in i + 1 .. q /\ q \in i .. Len(s))
    BY LineUnits
  <1>2. completeFrom(s)[i] = LineUnit(s, i, u, r)
    <2>1. completeFrom(s)[i] = IF i > Len(s) THEN NoLine ELSE LineUnit(s, i, u, r)
      BY CompleteFromStep
    <2> HIDE DEF u, r
    <2>2. i \in Nat /\ Len(s) \in Nat
      BY DEF Pos
    <2> QED BY <1>1, <2>1, <2>2
  <1>3. u.termination # "NL" => r.next # 0
    <2> SUFFICES ASSUME u.termination # "NL" PROVE r.next # 0
      OBVIOUS
    <2>1. lineStop(s)[u.next] # 0
      BY <1>1
    <2>2. u.next \in Pos(s)
      <3> HIDE DEF u, q
      <3> QED BY <1>1 DEF Pos
    <2> QED BY <2>1, <2>2, CompleteNext
  <1> HIDE DEF u, r
  <1>4. completeFrom(s)[i] = Before(UnitText(s, i, u), u.next, r)
    BY <1>2, <1>3 DEF LineUnit
  <1> QED BY <1>3, <1>4 DEF u, r

-----------------------------------------------------------------------------
(* Line ends of two characters *)

(* A line feed where a unit begins is an empty line. *)
LEMMA EmptyLine ==
  ASSUME NEW s \in Seq(Char), QuoteFree(s), NEW p \in 1 .. Len(s), s[p] = "nl"
  PROVE  /\ LET u == detectProgramMessageUnit(s, p)
            IN  u.header = None(p) /\ u.termination = "NL" /\ u.next = p + 1
         /\ completeFrom(s)[p] = Before(<<>>, p + 1, completeFrom(s)[p + 1])
  <1> DEFINE b == skipWs(s, p)
             h == ProgramHeader(s, p)
             x == UnitData(s, h)
             n == NewLine(s, p)
             u == detectProgramMessageUnit(s, p)
             type == "NL"
  <1>1. p \in Nat /\ p >= 1 /\ p <= Len(s) /\ Len(s) \in Nat /\ p \in Pos(s) /\ p + 0 = p
    BY DEF Pos
  <1>2. Lined(s, s, 0, p, p)
    <2>1. s[p] \in Lines
      BY DEF Lines
    <2>2. /\ 0 \in Int /\ p \in Nat /\ p >= 1 /\ p + 0 >= 1 /\ p <= p /\ p <= Len(s) /\ p + 0 <= Len(s)
          /\ \A k \in p .. p : s[k + 0] = s[k] /\ s[k] \notin Quote
      BY <1>1 DEF QuoteFree
    <2> QED BY <2>1, <2>2, LinedOf
  <1>3. p \in p .. p
    BY <1>1
  <1>4. b = p
    <2>1. b \in p .. p
      BY <1>2, <1>3, WsLined
    <2> HIDE DEF b
    <2> QED BY <1>1, <2>1
  <1>5. h = None(p) /\ h.next = p /\ h.len = 0 /\ h.type # "INVALID"
    <2> DEFINE c == skipCommonProgramHeader(s, p)
               m == skipCompoundProgramHeader(s, p)
    <2>1. s[p] \notin Alpha /\ s[p] # "*" /\ s[p] # ":"
      BY DEF Alpha
    <2>2. ~ At(s, p, {"*"}) /\ ~ At(s, p, {":"}) /\ ~ At(s, p, Alpha)
      BY <2>1 DEF At
    <2>3. c.res = "NONE"
      BY <2>2 DEF skipCommonProgramHeader
    <2>4. m = [res |-> "NONE", next |-> p]
      <3>1. Opt(s, p, {":"}) = p /\ skipProgramMnemonic(s, p) = p /\ ~ (p > p)
        BY <1>1, <2>2 DEF Opt, skipProgramMnemonic
      <3> QED BY <3>1 DEF skipCompoundProgramHeader
    <2>5. m.res = "NONE" /\ m.next = p
      BY <2>4
    <2>6. h = HeaderToken(s, p, "COMPOUND", m)
      <3> HIDE DEF c, m
      <3> QED BY <2>3 DEF ProgramHeader, c, m
    <2> HIDE DEF c, m, h
    <2>7. h = None(p)
      BY <2>5, <2>6 DEF HeaderToken
    <2> QED BY <2>7 DEF None, Token
  <1>6. n = Found(type, p, p + 1)
    <2>1. ~ At(s, p, {"cr"}) /\ At(s, p, {"nl"})
      BY <1>1 DEF At
    <2>2. Opt(s, p, {"cr"}) = p
      BY <2>1 DEF Opt
    <2>3. Opt(s, p, {"nl"}) = p + 1
      BY <2>1 DEF Opt
    <2>4. n = FoundOrNone(type, p, p + 1)
      BY <2>2, <2>3 DEF NewLine
    <2> HIDE DEF type, n
    <2> QED BY <1>1, <2>4 DEF FoundOrNone
  <1>7. x = NoData(p) /\ x.next = p
    <2>1. x = NoData(p)
      <3> HIDE DEF h
      <3>1. skipWs(s, h.next) = p
        BY <1>4, <1>5
      <3>2. ~ (p > p)
        BY <1>1
      <3> QED BY <1>5, <3>1, <3>2 DEF UnitData
    <2> QED BY <2>1 DEF NoData, Token
  <1>8. u = UnitOf(s, p, h, x, UnitEnd(s, x.next))
    BY <1>4 DEF detectProgramMessageUnit
  <1>9. n.ret = 1 /\ n.next = p + 1 /\ n.type = type
    BY <1>1, <1>6 DEF Found, Token
  <1>10. u = UnitOf(s, p, h, x, n)
    BY <1>7, <1>8, <1>9 DEF UnitEnd
  <1> HIDE DEF u, n, x, h, b
  <1>11. u.header = h /\ u.termination = type /\ u.next = p + 1
    BY <1>9, <1>10 DEF UnitOf
  <1>12. completeFrom(s)[p] = LineUnit(s, p, u, completeFrom(s)[u.next])
    <2>1. completeFrom(s)[p] = IF p > Len(s) THEN NoLine ELSE LineUnit(s, p, u, completeFrom(s)[u.next])
      BY <1>1, CompleteFromStep DEF u
    <2> QED BY <1>1, <2>1
  <1>13. UnitText(s, p, u) = <<>>
    BY <1>5, <1>11 DEF UnitText
  <1>14. completeFrom(s)[p] = Before(<<>>, p + 1, completeFrom(s)[p + 1])
    BY <1>11, <1>12, <1>13 DEF LineUnit
  <1> QED BY <1>5, <1>11, <1>14 DEF u

(* CR, LF or CR LF ends a line. *)
LEMMA NewLineIs ==
  ASSUME NEW w, Len(w) \in Nat, NEW q \in Nat, q <= Len(w), w[q] \in Lines
  PROVE  NewLine(w, q).next = IF w[q] = "cr" /\ q + 1 <= Len(w) /\ w[q + 1] = "nl" THEN q + 2 ELSE q + 1
  <1> DEFINE type == "NL"
             end == Opt(w, Opt(w, q, {"cr"}), {"nl"})
  <1>1. NewLine(w, q) = FoundOrNone(type, q, end)
    BY DEF NewLine
  <1>2. ASSUME end > q PROVE NewLine(w, q).next = end
    <2> HIDE DEF type, end
    <2> QED BY <1>1, <1>2 DEF FoundOrNone, Found, Token
  <1>3. (w[q] = "cr" \/ w[q] = "nl") /\ "cr" # "nl"
    BY DEF Lines
  <1>4. CASE w[q] = "cr"
    <2>1. Opt(w, q, {"cr"}) = q + 1
      BY <1>4 DEF Opt, At
    <2>2. end = IF q + 1 <= Len(w) /\ w[q + 1] = "nl" THEN q + 1 + 1 ELSE q + 1
      BY <2>1 DEF Opt, At
    <2> HIDE DEF end
    <2> QED BY <1>2, <1>4, <2>2
  <1>5. CASE w[q] = "nl"
    <2>1. Opt(w, q, {"cr"}) = q /\ Opt(w, q, {"nl"}) = q + 1
      BY <1>5 DEF Opt, At
    <2>2. end = q + 1
      BY <2>1
    <2> HIDE DEF end
    <2> QED BY <1>2, <1>3, <1>5, <2>2
  <1> QED BY <1>3, <1>4, <1>5

(* What more bytes behind it change about the line end at q: if it was the
   last byte and CR, a LF that comes next belongs to it; that LF alone would
   be an empty line. *)
LEMMA NewLineExtended ==
  ASSUME NEW s \in Seq(Char), NEW t \in Seq(Char), Len(s) <= Len(t), QuoteFree(t),
         \A k \in 1 .. Len(s) : t[k] = s[k],
         NEW q \in 1 .. Len(s), s[q] \in Lines,
         NEW texts \in Seq(Seq(Char))
  PROVE  LET n == NewLine(s, q).next
             m == NewLine(t, q).next
         IN  Before(texts, m, completeFrom(t)[m]) = Before(texts, n, completeFrom(t)[n])
  <1> DEFINE n == NewLine(s, q).next
             m == NewLine(t, q).next
             R == completeFrom(t)
  <1>1. q \in Nat /\ q <= Len(s) /\ Len(s) \in Nat /\ Len(t) \in Nat /\ q >= 1 /\ t[q] = s[q] /\ q <= Len(t)
    OBVIOUS
  <1>2. n = IF s[q] = "cr" /\ q + 1 <= Len(s) /\ s[q + 1] = "nl" THEN q + 2 ELSE q + 1
    BY <1>1, NewLineIs
  <1>3. m = IF t[q] = "cr" /\ q + 1 <= Len(t) /\ t[q + 1] = "nl" THEN q + 2 ELSE q + 1
    BY <1>1, NewLineIs
  <1> HIDE DEF n, m
  <1>4. n = m \/ (n = Len(s) + 1 /\ m = n + 1 /\ n <= Len(t) /\ t[n] = "nl")
    <2>1. CASE q + 1 <= Len(s)
      <3>1. t[q + 1] = s[q + 1] /\ q + 1 <= Len(t)
        BY <1>1, <2>1
      <3> QED BY <1>1, <1>2, <1>3, <2>1, <3>1
    <2>2. CASE ~ (q + 1 <= Len(s))
      BY <1>1, <1>2, <1>3, <2>2
    <2> QED BY <2>1, <2>2
  <1>5. CASE n = m
    BY <1>5 DEF n, m
  <1>6. CASE n = Len(s) + 1 /\ m = n + 1 /\ n <= Len(t) /\ t[n] = "nl"
    <2>1. n \in 1 .. Len(t) /\ m \in 1 .. Len(t) + 1 /\ n \in 1 .. Len(t) + 1 /\ m \in Pos(t)
      BY <1>1, <1>6 DEF Pos
    <2>2. R[n] = Before(<<>>, m, R[m])
      BY <1>6, <2>1, EmptyLine
    <2>3. R[m] \in Handled(t)
      BY <2>1, CompleteFromStep
    <2>4. <<>> \in Seq(Seq(Char)) /\ texts \o <<>> = texts
      BY EmptySeq, ConcatEmptySeq
    <2> HIDE DEF R
    <2> DEFINE none == <<>>
               r == R[m]
    <2>5. none \in Seq(Seq(Char)) /\ r \in Handled(t)
      BY <2>3, <2>4
    <2> HIDE DEF none, r
    <2>6. Before(texts, n, Before(none, m, r)) = Before(texts \o none, m, r)
      BY <2>1, <2>5, BeforeBefore
    <2> QED BY <2>2, <2>4, <2>6 DEF n, m, R, none, r
  <1> QED BY <1>4, <1>5, <1>6

-----------------------------------------------------------------------------
(* The lines of more bytes *)

(* The complete lines of a text stay what they are when more bytes come. *)
THEOREM CompleteExtended ==
  ASSUME NEW s \in Seq(Char), NEW t \in Seq(Char), Len(s) <= Len(t), QuoteFree(t),
         \A k \in 1 .. Len(s) : t[k] = s[k]
  PROVE  \A i \in Pos(s) :
           completeFrom(s)[i].next # 0 =>
             completeFrom(t)[i] = Before(completeFrom(s)[i].texts, completeFrom(s)[i].next,
                                         completeFrom(t)[completeFrom(s)[i].next])
  <1> DEFINE n == Len(s) + 1
             F == completeFrom(s)
             G == completeFrom(t)
             E(i) == F[i].next # 0 => G[i] = Before(F[i].texts, F[i].next, G[F[i].next])
             T == {i \in 1 .. n : E(i)}
  <1>1. n \in Nat /\ Len(s) \in Nat /\ Len(t) \in Nat
    OBVIOUS
  <1>2. QuoteFree(s)
    BY <1>1 DEF QuoteFree
  <1>3. ASSUME NEW i \in 1 .. n, \A k \in i + 1 .. n : k \in T
        PROVE  i \in T
    <2> SUFFICES ASSUME F[i].next # 0 PROVE G[i] = Before(F[i].texts, F[i].next, G[F[i].next])
      OBVIOUS
    <2> DEFINE u == detectProgramMessageUnit(s, i)
               v == detectProgramMessageUnit(t, i)
               q == lineStop(s)[i]
               x == UnitText(s, i, u)
               r == F[u.next]
    <2>1. i \in Pos(s) /\ i \in Pos(t) /\ i \in Nat /\ i >= 1 /\ i + 0 = i
      BY <1>1 DEF Pos
    <2>2. q # 0
      BY <2>1, CompleteNext
    <2>3. /\ q \in i .. Len(s) /\ s[q] \in Lines /\ i <= Len(s)
          /\ \/ u.termination = "NL" /\ EndsAt(u, q) /\ u.next = NewLine(s, q).next
             \/ u.termination # "NL" /\ EndsBefore(u, q) /\ u.next \in i + 1 .. q
      BY <2>1, <2>2, LineUnits
    <2>5. G[i] = LineUnit(t, i, v, G[v.next])
      <3>1. G[i] = IF i > Len(t) THEN NoLine ELSE LineUnit(t, i, v, G[v.next])
        BY <2>1, CompleteFromStep
      <3> HIDE DEF v, q, u
      <3> QED BY <1>1, <2>1, <2>3, <3>1
    <2>6. x \in Seq(Seq(Char)) /\ u.next \in 1 .. n /\ r \in Handled(s) /\ u.next > i
      BY <2>1, <2>3, UnitTextHandled
    <2>7. Lined(t, s, 0, i, q)
      <3> HIDE DEF q, u
      <3>1. /\ 0 \in Int /\ i \in Nat /\ q \in Nat /\ i + 0 >= 1 /\ i <= q /\ q <= Len(s) /\ q + 0 <= Len(t)
            /\ \A k \in i .. q : t[k + 0] = s[k] /\ s[k] \notin Quote
        BY <1>1, <1>2, <2>1, <2>3 DEF QuoteFree
      <3> QED BY <2>1, <2>3, <3>1, LinedOf
    <2>8. /\ v.termination = u.termination
          /\ EndsBefore(u, q) => v.next = u.next
          /\ UnitText(t, i, v) = x
          /\ EndsAt(u, q) => v.stop = q /\ v.termination = "NL"
      <3>1. LET w == detectProgramMessageUnit(t, i + 0)
            IN  /\ w.termination = u.termination /\ w.stop = u.stop + 0 /\ u.stop \in i .. q
                /\ (EndsBefore(u, q) => w.next = u.next + 0)
                /\ UnitText(t, i + 0, w) = x
        BY <2>3, <2>7, UnitLined, UnitTextLined
      <3>2. /\ v.termination = u.termination /\ v.stop = u.stop + 0 /\ u.stop \in i .. q
            /\ (EndsBefore(u, q) => v.next = u.next + 0)
            /\ UnitText(t, i, v) = x
        BY <2>1, <3>1
      <3> HIDE DEF v, u, x, q
      <3>3. u.stop + 0 = u.stop /\ u.next + 0 = u.next
        BY <1>1, <2>1, <2>3, <2>6, <3>2
      <3> QED BY <3>2, <3>3 DEF EndsAt
    <2>9. Before(x, v.next, G[v.next]) = Before(x, u.next, G[u.next])
      <3>1. CASE EndsBefore(u, q)
        BY <2>8, <3>1
      <3>2. CASE EndsAt(u, q) /\ u.next = NewLine(s, q).next
        <4> DEFINE w == NewLine(t, q).next
        <4>1. v.next = w
          <5>1. v.next = NewLine(t, v.stop).next
            BY <2>1, <2>8, <3>2, UnitStops
          <5> QED BY <2>8, <3>2, <5>1
        <4>2. q \in 1 .. Len(s)
          <5> HIDE DEF q
          <5> QED BY <1>1, <2>1, <2>3
        <4>3. Before(x, w, G[w]) = Before(x, NewLine(s, q).next, G[NewLine(s, q).next])
          <5> HIDE DEF x, q
          <5> QED BY <2>3, <2>6, <4>2, NewLineExtended
        <4> HIDE DEF v, u, x, q, w, G
        <4> QED BY <3>2, <4>1, <4>3
      <3> QED BY <2>3, <3>1, <3>2
    <2>10. G[u.next] \in Handled(t) /\ u.next \in 1 .. Len(t) + 1
      <3> HIDE DEF u
      <3>1. u.next \in 1 .. Len(t) + 1 /\ u.next \in Pos(t)
        BY <1>1, <2>6 DEF Pos
      <3> QED BY <3>1, CompleteFromStep
    <2>11. r.next # 0 => /\ G[u.next] = Before(r.texts, r.next, G[r.next])
                         /\ r.next \in 1 .. Len(t) + 1 /\ r.next \in 1 .. Len(s) + 1
                         /\ r.texts \in Seq(Seq(Char))
                         /\ G[r.next] \in Handled(t)
      <3> SUFFICES ASSUME r.next # 0
                   PROVE  /\ G[u.next] = Before(r.texts, r.next, G[r.next])
                          /\ r.next \in 1 .. Len(t) + 1 /\ r.next \in 1 .. Len(s) + 1
                          /\ r.texts \in Seq(Seq(Char))
                          /\ G[r.next] \in Handled(t)
        OBVIOUS
      <3>1. u.next \in T
        <4> HIDE DEF u, T
        <4>1. u.next \in i + 1 .. n
          BY <1>1, <2>1, <2>6
        <4> QED BY <1>3, <4>1
      <3>2. G[u.next] = Before(r.texts, r.next, G[r.next])
        BY <3>1
      <3> HIDE DEF r, u
      <3>3. r.next \in 0 .. Len(s) + 1 /\ r.texts \in Seq(Seq(Char))
        BY <2>6 DEF Handled
      <3>4. r.next \in 1 .. Len(t) + 1 /\ r.next \in 1 .. Len(s) + 1 /\ r.next \in Pos(t)
        BY <1>1, <3>3 DEF Pos
      <3>5. G[r.next] \in Handled(t)
        BY <3>4, CompleteFromStep
      <3> QED BY <3>2, <3>3, <3>4, <3>5
    <2>12. F[i] = Before(x, u.next, r) /\ (u.termination # "NL" => r.next # 0)
      BY <2>1, <2>2, CompleteUnit
    <2>13. G[i] = Before(x, u.next, G[u.next])
      <3> HIDE DEF u, v, x, r, F, G, q
      <3>1. G[i] = Before(x, v.next, G[v.next])
        <4>1. CASE u.termination = "NL"
          BY <2>5, <2>8, <4>1 DEF LineUnit
        <4>2. CASE u.termination # "NL"
          <5>1. EndsBefore(u, q) /\ v.next = u.next
            BY <2>3, <2>8, <4>2
          <5>2. G[u.next] = Before(r.texts, r.next, G[r.next])
            BY <2>11, <2>12, <4>2
          <5>3. Before(r.texts, r.next, G[r.next]).next # 0
            BY <2>11, <2>12, <4>2, BeforeIs
          <5> QED BY <2>5, <2>8, <5>1, <5>2, <5>3 DEF LineUnit
        <4> QED BY <4>1, <4>2
      <3> QED BY <2>9, <3>1
    <2> HIDE DEF u, v, x, r, F, G, q
    <2>14. F[i] = IF r.next = 0 THEN [texts |-> x, next |-> u.next] ELSE [texts |-> x \o r.texts, next |-> r.next]
      BY <2>6, <2>12, BeforeIs
    <2>15. CASE r.next = 0
      <3>1. F[i].texts = x /\ F[i].next = u.next
        BY <2>14, <2>15
      <3> QED BY <2>13, <3>1
    <2>16. CASE r.next # 0
      <3>1. F[i].texts = x \o r.texts /\ F[i].next = r.next
        BY <2>14, <2>16
      <3>2. G[i] = Before(x, u.next, Before(r.texts, r.next, G[r.next]))
        BY <2>11, <2>13, <2>16
      <3> DEFINE g == G[r.next]
                 texts == r.texts
                 m == r.next
      <3>3. texts \in Seq(Seq(Char)) /\ g \in Handled(t) /\ m \in 1 .. Len(t) + 1
        BY <2>11, <2>16
      <3> HIDE DEF g, texts, m
      <3>4. Before(x, u.next, Before(texts, m, g)) = Before(x \o texts, m, g)
        BY <2>6, <2>10, <3>3, BeforeBefore
      <3> QED BY <3>1, <3>2, <3>4 DEF g, texts, m
    <2> QED BY <2>15, <2>16
  <1> HIDE DEF T, n
  <1>4. \A i \in 1 .. n : i \in T
    BY <1>1, <1>3, InductionDown
  <1> QED BY <1>4 DEF T, n, Pos

-----------------------------------------------------------------------------
(* What is left of the buffer *)

(* d is what s has behind its first o characters, from i on. *)
Behind(s, d, o, i) ==
  /\ s \in Seq(Char) /\ d \in Seq(Char) /\ o \in Nat /\ Len(s) = Len(d) + o /\ i \in Pos(d)
  /\ \A k \in i .. Len(d) : d[k] = s[o + k]

(* A line ends where it ends in what was received, *)
LEMMA LineBehind ==
  ASSUME NEW s, NEW d, NEW o, NEW i, Behind(s, d, o, i), QuoteFree(s), lineStop(d)[i] # 0
  PROVE  /\ lineStop(s)[o + i] = lineStop(d)[i] + o /\ lineStop(s)[o + i] # 0
         /\ NewLine(s, lineStop(s)[o + i]).next = o + NewLine(d, lineStop(d)[i]).next
  <1> DEFINE q == lineStop(d)[i]
  <1>1. /\ s \in Seq(Char) /\ d \in Seq(Char) /\ o \in Nat /\ Len(d) \in Nat /\ Len(s) = Len(d) + o
        /\ i \in Nat /\ i >= 1 /\ i \in Pos(d) /\ \A k \in i .. Len(d) : d[k] = s[o + k]
    BY DEF Behind, Pos
  <1>2. q \in i .. Len(d) /\ d[q] \in Lines
    BY <1>1, LineStopAhead
  <1>3. Lined(s, d, o, i, q)
    <2> HIDE DEF q
    <2>1. /\ o \in Int /\ i \in Nat /\ q \in Nat /\ i >= 1 /\ i + o >= 1 /\ i <= q /\ q <= Len(d) /\ q + o <= Len(s)
      BY <1>1, <1>2
    <2>2. \A k \in i .. q : s[k + o] = d[k] /\ d[k] \notin Quote
      <3> TAKE k \in i .. q
      <3>1. k \in i .. Len(d) /\ k + o = o + k /\ o + k \in 1 .. Len(s)
        BY <1>1, <1>2
      <3> QED BY <1>1, <3>1 DEF QuoteFree
    <2> QED BY <1>1, <1>2, <2>1, <2>2, LinedOf
  <1>4. lineStop(s)[i + o] = q + o
    BY <1>3, LineStopLined
  <1> HIDE DEF q
  <1>5. o + i = i + o /\ q + o # 0
    BY <1>1, <1>2
  <1>6. NewLine(d, q).next = IF d[q] = "cr" /\ q + 1 <= Len(d) /\ d[q + 1] = "nl" THEN q + 2 ELSE q + 1
    BY <1>1, <1>2, NewLineIs
  <1>7. s[q + o] = d[q] /\ q + o \in Nat /\ q + o <= Len(s) /\ Len(s) \in Nat
    BY <1>1, <1>2 DEF Behind
  <1>8. NewLine(s, q + o).next = IF s[q + o] = "cr" /\ q + o + 1 <= Len(s) /\ s[q + o + 1] = "nl"
                                 THEN q + o + 2 ELSE q + o + 1
    BY <1>2, <1>7, NewLineIs
  <1>9. /\ q + o + 1 <= Len(s) <=> q + 1 <= Len(d)
        /\ q + 1 <= Len(d) => s[q + o + 1] = d[q + 1]
    <2>1. q + o + 1 <= Len(s) <=> q + 1 <= Len(d)
      BY <1>1, <1>2
    <2>2. q + 1 <= Len(d) => q + 1 \in i .. Len(d) /\ o + (q + 1) = q + o + 1
      BY <1>1, <1>2
    <2> QED BY <1>1, <2>1, <2>2
  <1>10. NewLine(s, q + o).next = o + NewLine(d, q).next
    BY <1>1, <1>2, <1>6, <1>7, <1>8, <1>9
  <1> QED BY <1>4, <1>5, <1>10 DEF q

(* and what has no line end in it has none in what was received. *)
LEMMA NoLineBehind ==
  ASSUME NEW s, NEW d, NEW o, NEW i, Behind(s, d, o, i), QuoteFree(s), lineStop(d)[i] = 0
  PROVE  lineStop(s)[o + i] = 0
  <1> DEFINE q == lineStop(s)[o + i]
  <1>1. /\ s \in Seq(Char) /\ d \in Seq(Char) /\ o \in Nat /\ Len(d) \in Nat /\ Len(s) = Len(d) + o
        /\ i \in Nat /\ i >= 1 /\ i <= Len(d) + 1 /\ \A k \in i .. Len(d) : d[k] = s[o + k]
    BY DEF Behind, Pos
  <1>2. o + i \in Pos(s) /\ (o + i) + (0 - o) = i
    BY <1>1 DEF Pos
  <1> SUFFICES ASSUME q # 0 PROVE FALSE
    OBVIOUS
  <1>3. q \in o + i .. Len(s) /\ s[q] \in Lines
    BY <1>1, <1>2, LineStopAhead
  <1> HIDE DEF q
  <1>4. Lined(d, s, 0 - o, o + i, q)
    <2> DEFINE m == 0 - o
    <2>1. /\ m \in Int /\ o + i \in Nat /\ q \in Nat /\ o + i >= 1 /\ o + i + m >= 1 /\ o + i <= q
          /\ q <= Len(s) /\ q + m <= Len(d)
      BY <1>1, <1>3
    <2>2. \A k \in o + i .. q : d[k + m] = s[k] /\ s[k] \notin Quote
      <3> TAKE k \in o + i .. q
      <3>1. k + m \in i .. Len(d) /\ o + (k + m) = k /\ k \in 1 .. Len(s)
        BY <1>1, <1>3
      <3> QED BY <1>1, <3>1 DEF QuoteFree
    <2> HIDE DEF m
    <2>3. Lined(d, s, m, o + i, q)
      BY <1>1, <1>3, <2>1, <2>2, LinedOf
    <2> QED BY <2>3 DEF m
  <1>5. lineStop(d)[(o + i) + (0 - o)] = q + (0 - o)
    BY <1>4, LineStopLined DEF q
  <1> QED BY <1>1, <1>2, <1>3, <1>5

(* d is a line of s that ends there where s has the line end, with the end of
   the line. *)
Cut(s, d, o, i) ==
  /\ s \in Seq(Char) /\ d \in Seq(Char) /\ o \in Nat /\ o + Len(d) <= Len(s) /\ i \in 1 .. Len(d)
  /\ \A k \in i .. Len(d) : d[k] = s[o + k]
  /\ lineStop(s)[o + i] # 0 /\ NewLine(s, lineStop(s)[o + i]).next = o + Len(d) + 1

(* The units of a line are those of what was received. *)
LEMMA UnitCut ==
  ASSUME NEW s, NEW d, NEW o, NEW i, Cut(s, d, o, i), QuoteFree(s)
  PROVE  LET u == detectProgramMessageUnit(d, i)
         IN  /\ completeFrom(s)[o + i] = Before(UnitText(d, i, u), o + u.next, completeFrom(s)[o + u.next])
             /\ u.next <= Len(d) => lineStop(s)[o + u.next] = lineStop(s)[o + i]
  <1> DEFINE q == lineStop(s)[o + i]
             m == 0 - o
             u == detectProgramMessageUnit(d, i)
             v == detectProgramMessageUnit(s, o + i)
  <1>1. /\ s \in Seq(Char) /\ d \in Seq(Char) /\ o \in Nat /\ Len(d) \in Nat /\ Len(s) \in Nat
        /\ o + Len(d) <= Len(s)
        /\ i \in Nat /\ i >= 1 /\ i <= Len(d) /\ \A k \in i .. Len(d) : d[k] = s[o + k]
        /\ q # 0 /\ NewLine(s, q).next = o + Len(d) + 1
    BY DEF Cut
  <1>2. o + i \in Pos(s) /\ (o + i) + m = i /\ o + i \in Nat
    BY <1>1 DEF Pos
  <1>3. /\ q \in o + i .. Len(s) /\ s[q] \in Lines
        /\ \/ v.termination = "NL" /\ EndsAt(v, q) /\ v.next = NewLine(s, q).next
           \/ v.termination # "NL" /\ EndsBefore(v, q) /\ v.next \in o + i + 1 .. q /\ lineStop(s)[v.next] = q
    BY <1>1, <1>2, LineUnits
  <1>4. completeFrom(s)[o + i] = Before(UnitText(s, o + i, v), v.next, completeFrom(s)[v.next])
    BY <1>1, <1>2, CompleteUnit
  <1> HIDE DEF v, q
  <1>5. NewLine(s, q).next = IF s[q] = "cr" /\ q + 1 <= Len(s) /\ s[q + 1] = "nl" THEN q + 2 ELSE q + 1
    BY <1>1, <1>2, <1>3, NewLineIs
  <1>6. /\ m \in Int /\ q \in Nat /\ o + i >= 1 /\ o + i + m >= 1 /\ o + i <= q
        /\ q <= Len(s) /\ q + m <= Len(d) /\ q + m \in i .. Len(d) /\ d[q + m] = s[q]
    <2>1. q \in Nat /\ q + 1 <= o + Len(d) + 1
      BY <1>1, <1>2, <1>3, <1>5
    <2>2. /\ m \in Int /\ o + i >= 1 /\ o + i + m >= 1 /\ o + i <= q /\ q <= Len(s) /\ q + m <= Len(d)
          /\ q + m \in i .. Len(d) /\ o + (q + m) = q
      BY <1>1, <1>2, <1>3, <2>1
    <2> HIDE DEF m
    <2> QED BY <1>1, <2>1, <2>2
  <1>7. Lined(d, s, m, o + i, q)
    <2>1. \A k \in o + i .. q : d[k + m] = s[k] /\ s[k] \notin Quote
      <3> TAKE k \in o + i .. q
      <3>1. k + m \in i .. Len(d) /\ o + (k + m) = k /\ k \in 1 .. Len(s)
        BY <1>1, <1>3, <1>6
      <3> QED BY <1>1, <3>1 DEF QuoteFree
    <2> HIDE DEF m
    <2> QED BY <1>1, <1>2, <1>3, <1>6, <2>1, LinedOf
  <1>8. /\ u.termination = v.termination /\ v.stop \in o + i .. q /\ u.stop = v.stop + m
        /\ EndsBefore(v, q) => u.next = v.next + m
        /\ UnitText(d, i, u) = UnitText(s, o + i, v)
    <2> HIDE DEF m
    <2>1. EndsAt(v, q) \/ EndsBefore(v, q)
      BY <1>3
    <2>2. LET w == detectProgramMessageUnit(d, (o + i) + m)
          IN  /\ w.termination = v.termination /\ v.stop \in o + i .. q /\ w.stop = v.stop + m
              /\ EndsBefore(v, q) => w.next = v.next + m
              /\ UnitText(d, (o + i) + m, w) = UnitText(s, o + i, v)
      BY <1>7, <2>1, UnitLined, UnitTextLined DEF v
    <2> QED BY <1>2, <2>2
  <1>9. i \in Pos(d)
    BY <1>1 DEF Pos
  <1>10. u.next \in Pos(d) /\ (u.termination = "NL" => u.next = NewLine(d, u.stop).next)
    BY <1>1, <1>9, UnitStops
  <1> HIDE DEF u
  <1>11. CASE v.termination # "NL" /\ EndsBefore(v, q) /\ v.next \in o + i + 1 .. q /\ lineStop(s)[v.next] = q
    <2>1. o + u.next = v.next
      BY <1>1, <1>8, <1>11
    <2> QED BY <1>4, <1>8, <1>11, <2>1 DEF u, q
  <1>12. CASE v.termination = "NL" /\ EndsAt(v, q) /\ v.next = NewLine(s, q).next
    <2>1. u.next = NewLine(d, q + m).next
      BY <1>8, <1>10, <1>12 DEF EndsAt
    <2>2. NewLine(d, q + m).next = IF d[q + m] = "cr" /\ q + m + 1 <= Len(d) /\ d[q + m + 1] = "nl"
                                   THEN q + m + 2 ELSE q + m + 1
      <3>1. q + m \in Nat /\ q + m <= Len(d) /\ d[q + m] \in Lines
        BY <1>1, <1>3, <1>6
      <3> HIDE DEF m
      <3> QED BY <1>1, <3>1, NewLineIs
    <2>3. q + m + 1 <= Len(d) => d[q + m + 1] = s[q + 1]
      <3>1. q + m + 1 <= Len(d) => q + m + 1 \in i .. Len(d) /\ o + (q + m + 1) = q + 1
        BY <1>1, <1>6, SMTT(30)
      <3> HIDE DEF m
      <3> QED BY <1>1, <3>1
    <2>4. NewLine(d, q + m).next = Len(d) + 1
      <3>1. CASE s[q] = "cr" /\ q + 1 <= Len(s) /\ s[q + 1] = "nl"
        <4>1. q + m + 1 = Len(d)
          BY <1>1, <1>5, <1>6, <3>1
        <4> QED BY <1>6, <2>2, <2>3, <3>1, <4>1
      <3>2. CASE ~ (s[q] = "cr" /\ q + 1 <= Len(s) /\ s[q + 1] = "nl")
        <4>1. q + m = Len(d)
          BY <1>1, <1>5, <1>6, <3>2
        <4>2. q + m + 1 = Len(d) + 1 /\ ~ (q + m + 1 <= Len(d))
          <5>1. q + m + 1 = (q + m) + 1
            BY <1>6
          <5> HIDE DEF m
          <5> QED BY <1>1, <4>1, <5>1
        <4> QED BY <2>2, <4>2
      <3> QED BY <3>1, <3>2
    <2>5. o + u.next = v.next /\ ~ (u.next <= Len(d))
      <3> HIDE DEF m
      <3> QED BY <1>1, <1>12, <2>1, <2>4
    <2> QED BY <1>4, <1>8, <2>5 DEF u
  <1> QED BY <1>3, <1>11, <1>12

-----------------------------------------------------------------------------
(* The invariant of the pieces *)

(* The bytes that were taken out of the buffer *)
Start == Len(stream) - Len(buffer)

(* What is claimed of: no quotes, and no line that was ended by a call of
   SCPI_Input without bytes *)
Plain == QuoteFree(stream) /\ (pc = "parse" => ~ job.last)

(* From the next unit on the buffer is what was received last. *)
Kept == /\ Start \in Nat
        /\ \A k \in job.at .. Len(buffer) : buffer[k] = stream[Start + k]

(* What was handled, and the complete lines from there on, are all lines. *)
HandledInOrder ==
  Complete(stream) = Before(log, Start + job.at, completeFrom(stream)[Start + job.at])

(* The line that is parsed ends where a line ends in what was received. *)
LineReceived ==
  /\ lineStop(stream)[Start + job.at] # 0
  /\ NewLine(stream, lineStop(stream)[Start + job.at]).next = Start + job.end + 1

ChunkInv ==
  /\ stream \in Seq(Char) /\ log \in Seq(Seq(Char))
  /\ Plain => /\ Kept
              /\ HandledInOrder
              /\ pc = "idle" => lineStop(buffer)[1] = 0
              /\ pc = "scan" => lineStop(buffer)[1] = lineStop(buffer)[totcmdlen + 1]
              /\ pc = "parse" /\ job.at <= job.end => LineReceived

(* No line of no bytes is complete. *)
LEMMA NoLineInNothing == lineStop(<<>>)[1] = 0
  <1> DEFINE s == <<>>
  <1>1. s \in Seq(Char) /\ Len(s) = 0
    BY EmptySeq
  <1> HIDE DEF s
  <1>2. 1 \in Pos(s) /\ 1 > Len(s)
    BY <1>1 DEF Pos
  <1>3. lineStop(s)[1] = 0
    <2> DEFINE u == detectProgramMessageUnit(s, 1)
    <2>1. lineStop(s)[1] = IF 1 > Len(s) THEN 0
                           ELSE IF u.termination = "NL" THEN u.stop ELSE lineStop(s)[u.next]
      BY <1>1, <1>2, LineStopStep
    <2> HIDE DEF u
    <2> QED BY <1>2, <2>1
  <1> QED BY <1>3 DEF s

(* Before the first call *)
LEMMA ChunkInit ==
  ASSUME Init
  PROVE  ChunkInv
  <1>1. /\ buffer = <<>> /\ stream = <<>> /\ log = <<>> /\ pc = "idle" /\ job.at = 1
        /\ Len(buffer) = 0 /\ Len(stream) = 0
    BY Emptied DEF Init
  <1>2. stream \in Seq(Char) /\ log \in Seq(Seq(Char))
    BY <1>1, EmptySeq
  <1>3. Start = 0 /\ Start + job.at = 1
    BY <1>1 DEF Start
  <1>4. Kept
    BY <1>1, <1>3 DEF Kept
  <1>5. HandledInOrder
    BY <1>1, <1>3 DEF HandledInOrder, Complete
  <1>6. lineStop(buffer)[1] = 0
    BY <1>1, NoLineInNothing
  <1> QED BY <1>1, <1>2, <1>4, <1>5, <1>6 DEF ChunkInv

(* and whenever the buffer is emptied *)
LEMMA ChunkReset ==
  ASSUME buffer' = <<>>, stream' = <<>>, log' = <<>>, pc' = "idle", job' = NoJob
  PROVE  ChunkInv'
  <1>1. job'.at = 1 /\ Len(buffer') = 0 /\ Len(stream') = 0
    BY Emptied
  <1>2. stream' \in Seq(Char) /\ log' \in Seq(Seq(Char))
    BY EmptySeq
  <1>3. Start' = 0 /\ Start' + job'.at = 1
    BY <1>1 DEF Start
  <1>4. Kept'
    BY <1>1, <1>3 DEF Kept
  <1>5. HandledInOrder'
    BY <1>3 DEF HandledInOrder, Complete
  <1>6. lineStop(buffer')[1] = 0
    BY NoLineInNothing
  <1> QED BY <1>2, <1>4, <1>5, <1>6 DEF ChunkInv

(* Between two calls and while SCPI_Input scans, the buffer is what was
   received last. *)
LEMMA BufferBehind ==
  ASSUME InputInv, ChunkInv, Plain, pc # "parse"
  PROVE  Behind(stream, buffer, Start, 1) /\ job = NoJob /\ job.at = 1 /\ Start \in Nat
  <1>1. job = NoJob /\ job.at = 1 /\ buffer \in Seq(Char) /\ stream \in Seq(Char)
    BY Emptied DEF InputInv, Buffered, TypeOK, ChunkInv
  <1>2. Kept
    BY DEF ChunkInv
  <1>3. Len(stream) = Len(buffer) + Start /\ 1 \in Pos(buffer)
    BY <1>1 DEF Start, Pos
  <1> QED BY <1>1, <1>2, <1>3 DEF Behind, Kept

(* Bytes arrive. *)
LEMMA ChunkInput ==
  ASSUME InputInv, ChunkInv, NEW data \in Chunks, Input(data)
  PROVE  ChunkInv'
  <1>1. /\ pc = "idle" /\ buffer' = buffer \o data /\ stream' = stream \o data /\ totcmdlen' = 0
        /\ pc' = "scan" /\ job' = job /\ log' = log
    BY DEF Input, ScanFrom
  <1>2. /\ data \in Seq(Char) /\ buffer \in Seq(Char) /\ stream \in Seq(Char) /\ log \in Seq(Seq(Char))
        /\ Len(data) \in Nat /\ Len(buffer) \in Nat /\ Len(stream) \in Nat
    BY ChunksAssumption DEF InputInv, Buffered, TypeOK, ChunkInv
  <1>3. /\ stream' \in Seq(Char) /\ Len(stream') = Len(stream) + Len(data)
        /\ \A k \in 1 .. Len(stream) + Len(data) :
             stream'[k] = IF k <= Len(stream) THEN stream[k] ELSE data[k - Len(stream)]
    BY <1>1, <1>2, ConcatProperties
  <1>4. /\ buffer' \in Seq(Char) /\ Len(buffer') = Len(buffer) + Len(data)
        /\ \A k \in 1 .. Len(buffer) + Len(data) :
             buffer'[k] = IF k <= Len(buffer) THEN buffer[k] ELSE data[k - Len(buffer)]
    BY <1>1, <1>2, ConcatProperties
  <1>5. ASSUME Plain'
        PROVE  Kept' /\ HandledInOrder'
    <2>1. QuoteFree(stream')
      BY <1>5 DEF Plain
    <2>2. QuoteFree(stream)
      <3> SUFFICES ASSUME NEW k \in DOMAIN stream PROVE stream[k] \notin Quote
        BY DEF QuoteFree
      <3>1. k \in 1 .. Len(stream) /\ k \in DOMAIN stream' /\ stream'[k] = stream[k]
        BY <1>2, <1>3
      <3> QED BY <2>1, <3>1 DEF QuoteFree
    <2>3. Plain
      BY <1>1, <2>2 DEF Plain
    <2>4. Behind(stream, buffer, Start, 1) /\ job = NoJob /\ job.at = 1 /\ Start \in Nat
      BY <1>1, <2>3, BufferBehind
    <2>5. Start' = Start /\ job'.at = 1
      BY <1>1, <1>2, <1>3, <1>4, <2>4 DEF Start
    <2>6. Kept'
      <3>1. ASSUME NEW k \in 1 .. Len(buffer')
            PROVE  buffer'[k] = stream'[Start + k]
        <4>1. Len(stream) = Len(buffer) + Start
          BY <1>2 DEF Start
        <4>2. CASE k <= Len(buffer)
          <5>1. buffer[k] = stream[Start + k]
            BY <1>2, <2>4, <4>2 DEF Behind
          <5>2. Start + k \in 1 .. Len(stream) + Len(data) /\ Start + k <= Len(stream)
            BY <1>2, <2>4, <4>1, <4>2
          <5> QED BY <1>3, <1>4, <4>2, <5>1, <5>2
        <4>3. CASE ~ (k <= Len(buffer))
          <5>1. /\ Start + k \in 1 .. Len(stream) + Len(data) /\ ~ (Start + k <= Len(stream))
                /\ (Start + k) - Len(stream) = k - Len(buffer)
            BY <1>2, <1>4, <2>4, <4>1, <4>3
          <5> QED BY <1>3, <1>4, <4>3, <5>1
        <4> QED BY <4>2, <4>3
      <3> QED BY <2>4, <2>5, <3>1 DEF Kept
    <2>7. HandledInOrder'
      <3> DEFINE s == stream
                 t == stream'
                 p == Start + 1
                 F == completeFrom(s)
                 G == completeFrom(t)
      <3>1. p \in Pos(s) /\ 1 \in Pos(s) /\ p \in 1 .. Len(t) + 1 /\ 1 \in Pos(t) /\ p \in Pos(t)
        BY <1>2, <1>3, <2>4 DEF Pos, Start
      <3>2. lineStop(s)[p] = 0
        <4>1. lineStop(buffer)[1] = 0
          BY <1>1, <2>3 DEF ChunkInv
        <4> QED BY <2>2, <2>4, <4>1, NoLineBehind
      <3>3. F[p].next = 0
        BY <1>2, <3>1, <3>2, CompleteNext
      <3>4. Before(<<>>, 1, F[1]) = Before(log, p, F[p])
        BY <2>3, <2>4 DEF ChunkInv, HandledInOrder, Complete
      <3>5. F[1] \in Handled(s) /\ F[p] \in Handled(s) /\ G[p] \in Handled(t) /\ G[1] \in Handled(t)
        BY <1>2, <1>3, <3>1, CompleteFromStep
      <3>6. Before(log, p, F[p]) = [texts |-> log, next |-> p]
        BY <3>3 DEF Before
      <3>7. F[1].next # 0 => G[1] = Before(F[1].texts, F[1].next, G[F[1].next])
        <4>1. Len(s) <= Len(t) /\ \A k \in 1 .. Len(s) : t[k] = s[k]
          BY <1>2, <1>3
        <4> QED BY <1>2, <1>3, <2>1, <3>1, <4>1, CompleteExtended
      <3> HIDE DEF s, t, p, F, G
      <3> DEFINE none == <<>>
      <3>8. none \in Seq(Seq(Char)) /\ none \o log = log /\ 1 \in 1 .. Len(t) + 1
        BY <1>2, <1>3, EmptySeq, ConcatEmptySeq DEF t
      <3>9. Before(none, 1, F[1]) = [texts |-> log, next |-> p]
        BY <3>4, <3>6
      <3> HIDE DEF none
      <3>10. CASE F[1].next = 0
        <4>1. [texts |-> none, next |-> 1] = [texts |-> log, next |-> p]
          BY <3>9, <3>10 DEF Before
        <4>2. none = log /\ p = 1
          <5>1. [texts |-> none, next |-> 1].texts = [texts |-> log, next |-> p].texts
            BY <4>1
          <5>2. [texts |-> none, next |-> 1].next = [texts |-> log, next |-> p].next
            BY <4>1
          <5> QED BY <5>1, <5>2
        <4>3. Before(none, 1, G[1]) = Before(log, p, G[p])
          BY <4>2
        <4> QED BY <1>1, <2>5, <4>3 DEF HandledInOrder, Complete, none, G, t, p
      <3>11. CASE F[1].next # 0
        <4> DEFINE r == F[1]
                   texts == r.texts
                   m == r.next
        <4>1. r = [texts |-> texts, next |-> m] /\ texts \in Seq(Seq(Char))
          BY <3>5 DEF Handled
        <4>2. Before(none, 1, r) = [texts |-> none \o texts, next |-> m]
          <5>1. r.next # 0
            BY <3>11
          <5> HIDE DEF r, texts, m, none
          <5>2. Before(none, 1, r) = [r EXCEPT !.texts = none \o @]
            BY <5>1 DEF Before
          <5> QED BY <4>1, <5>2
        <4>3. none \o texts = texts
          <5> HIDE DEF texts
          <5> QED BY <4>1, ConcatEmptySeq DEF none
        <4> HIDE DEF r, texts, m
        <4>4. [texts |-> texts, next |-> m] = [texts |-> log, next |-> p]
          BY <3>9, <4>2, <4>3 DEF r
        <4>5. texts = log /\ m = p
          <5>1. [texts |-> texts, next |-> m].texts = [texts |-> log, next |-> p].texts
            BY <4>4
          <5>2. [texts |-> texts, next |-> m].next = [texts |-> log, next |-> p].next
            BY <4>4
          <5> QED BY <5>1, <5>2
        <4>6. G[1] = Before(log, p, G[p])
          BY <3>7, <3>11, <4>5 DEF r, texts, m
        <4> DEFINE g == G[p]
        <4>7. g \in Handled(t)
          BY <3>5
        <4> HIDE DEF g
        <4>8. Before(none, 1, Before(log, p, g)) = Before(none \o log, p, g)
          <5>1. /\ g \in Handled(t) /\ none \in Seq(Seq(Char)) /\ log \in Seq(Seq(Char))
                /\ 1 \in 1 .. Len(t) + 1 /\ p \in 1 .. Len(t) + 1
            BY <1>2, <3>1, <3>8, <4>7
          <5> QED BY <5>1, BeforeBefore
        <4>9. Before(none, 1, G[1]) = Before(log, p, G[p])
          BY <3>8, <4>6, <4>8 DEF g
        <4> QED BY <1>1, <2>5, <4>9 DEF HandledInOrder, Complete, none, G, t, p
      <3> QED BY <3>10, <3>11
    <2> QED BY <2>6, <2>7
  <1>6. pc' = "scan" /\ lineStop(buffer')[1] = lineStop(buffer')[totcmdlen' + 1]
    BY <1>1
  <1> QED BY <1>1, <1>2, <1>3, <1>5, <1>6 DEF ChunkInv

-----------------------------------------------------------------------------
(* What a scan finds is complete *)

(* The scan finds a unit. *)
LEMMA ChunkScan ==
  ASSUME InputInv, ChunkInv, ScanUnit
  PROVE  ChunkInv'
  <1> DEFINE c == totcmdlen + 1
             u == detectProgramMessageUnit(buffer, c)
             tot == u.next - 1
             done == \/ u.header.type = "UNKNOWN" /\ u.termination = "NONE"
                     \/ tot >= Len(buffer)
  <1>1. pc = "scan" /\ Scanned(u) /\ UNCHANGED <<buffer, cmd_error, stream, log>>
    BY DEF ScanUnit
  <1>2. /\ buffer \in Seq(Char) /\ Len(buffer) \in Nat /\ totcmdlen \in 0 .. Len(buffer)
        /\ stream \in Seq(Char) /\ log \in Seq(Seq(Char)) /\ c \in Pos(buffer) /\ c \in Nat /\ job = NoJob
    BY <1>1 DEF InputInv, Buffered, TypeOK, ChunkInv, Pos
  <1>3. lineStop(buffer)[c] = IF c > Len(buffer) THEN 0
                              ELSE IF u.termination = "NL" THEN u.stop ELSE lineStop(buffer)[u.next]
    BY <1>2, LineStopStep
  <1>4. /\ u.stop \in c .. u.next /\ u.next \in Pos(buffer) /\ (c <= Len(buffer) => u.next > c)
        /\ u.termination = "NL" => u.stop \in 1 .. Len(buffer) /\ u.next = NewLine(buffer, u.stop).next
        /\ u.termination = "NONE" /\ u.header.type # "INVALID" => u.next = Len(buffer) + 1
    BY <1>2, UnitStops
  <1>5. lineStop(buffer)[Len(buffer) + 1] = 0
    <2> DEFINE n == Len(buffer) + 1
               w == detectProgramMessageUnit(buffer, n)
    <2>1. n \in Pos(buffer) /\ n > Len(buffer)
      BY <1>2 DEF Pos
    <2>2. lineStop(buffer)[n] = IF n > Len(buffer) THEN 0
                                ELSE IF w.termination = "NL" THEN w.stop ELSE lineStop(buffer)[w.next]
      BY <1>2, <2>1, LineStopStep
    <2> HIDE DEF w, n
    <2> QED BY <2>1, <2>2 DEF n
  <1>6. \/ u.termination = "NL" /\ StartParse(tot, FALSE)
        \/ /\ u.termination # "NL"
           /\ pc' = IF done THEN "idle" ELSE "scan"
           /\ totcmdlen' = IF done THEN 0 ELSE tot
           /\ job' = job
    <2> HIDE DEF u
    <2> QED BY <1>1 DEF Scanned
  <1> HIDE DEF u
  <1>7. u.next \in Nat /\ u.stop \in Nat /\ u.next <= Len(buffer) + 1
    BY <1>2, <1>4 DEF Pos
  <1>8. SUFFICES ASSUME Plain'
                 PROVE  /\ Kept' /\ HandledInOrder'
                        /\ pc' = "idle" => lineStop(buffer')[1] = 0
                        /\ pc' = "scan" => lineStop(buffer')[1] = lineStop(buffer')[totcmdlen' + 1]
                        /\ pc' = "parse" /\ job'.at <= job'.end => LineReceived'
    BY <1>1, <1>2 DEF ChunkInv
  <1>9. Plain /\ QuoteFree(stream)
    BY <1>1, <1>8 DEF Plain
  <1>10. Kept /\ HandledInOrder /\ lineStop(buffer)[1] = lineStop(buffer)[c]
    BY <1>1, <1>9 DEF ChunkInv
  <1>11. Behind(stream, buffer, Start, 1) /\ job.at = 1 /\ Start \in Nat /\ Start' = Start
    BY <1>1, <1>9, BufferBehind DEF Start
  <1>12. CASE u.termination = "NL" /\ StartParse(tot, FALSE)
    <2>1. pc' = "parse" /\ job' = [end |-> tot, at |-> 1, prev |-> NoToken, last |-> FALSE]
      BY <1>12 DEF StartParse
    <2>2. job'.at = 1 /\ job'.end = tot
      BY <2>1
    <2>3. Kept' /\ HandledInOrder'
      BY <1>1, <1>10, <1>11, <2>2 DEF Kept, HandledInOrder
    <2>4. lineStop(buffer)[1] = u.stop /\ u.stop # 0
      BY <1>2, <1>3, <1>4, <1>7, <1>10, <1>12
    <2>5. /\ lineStop(stream)[Start + 1] # 0
          /\ NewLine(stream, lineStop(stream)[Start + 1]).next = Start + NewLine(buffer, u.stop).next
      BY <1>9, <1>11, <2>4, LineBehind
    <2>6. Start + NewLine(buffer, u.stop).next = Start + tot + 1
      BY <1>4, <1>7, <1>11, <1>12
    <2>7. LineReceived'
      BY <1>1, <1>11, <2>2, <2>5, <2>6 DEF LineReceived
    <2> QED BY <2>1, <2>3, <2>7
  <1>13. CASE /\ u.termination # "NL"
              /\ pc' = IF done THEN "idle" ELSE "scan"
              /\ totcmdlen' = IF done THEN 0 ELSE tot
              /\ job' = job
    <2>1. Kept' /\ HandledInOrder'
      BY <1>1, <1>10, <1>11, <1>13 DEF Kept, HandledInOrder
    <2>2. ASSUME done PROVE lineStop(buffer)[1] = 0
      <3>1. u.next = Len(buffer) + 1
        <4>1. CASE u.header.type = "UNKNOWN" /\ u.termination = "NONE"
          BY <1>4, <4>1
        <4>2. CASE tot >= Len(buffer)
          BY <1>2, <1>7, <4>2
        <4> QED BY <2>2, <4>1, <4>2
      <3> QED BY <1>3, <1>5, <1>10, <1>13, <3>1
    <2>3. ASSUME ~ done PROVE lineStop(buffer)[1] = lineStop(buffer)[tot + 1]
      <3>1. ~ (c > Len(buffer)) /\ tot + 1 = u.next
        BY <1>2, <1>4, <1>7, <2>3
      <3> QED BY <1>3, <1>10, <1>13, <3>1
    <2>4. done => pc' = "idle" /\ totcmdlen' = 0
      BY <1>13
    <2>5. ~ done => pc' = "scan" /\ totcmdlen' = tot
      BY <1>13
    <2> HIDE DEF done
    <2> QED BY <1>1, <2>1, <2>2, <2>3, <2>4, <2>5
  <1> QED BY <1>6, <1>12, <1>13

(* What follows the first n characters *)
LEMMA RestIs ==
  ASSUME NEW s \in Seq(Char), NEW n \in 0 .. Len(s)
  PROVE  /\ SubSeq(s, n + 1, Len(s)) \in Seq(Char) /\ Len(SubSeq(s, n + 1, Len(s))) = Len(s) - n
         /\ \A k \in 1 .. Len(s) - n : SubSeq(s, n + 1, Len(s))[k] = s[n + k]
  <1> DEFINE x == SubSeq(s, n + 1, Len(s))
  <1>1. \A k \in n + 1 .. Len(s) : s[k] \in Char
    OBVIOUS
  <1>2. /\ x \in Seq(Char) /\ Len(x) = IF n + 1 <= Len(s) THEN Len(s) - (n + 1) + 1 ELSE 0
        /\ \A k \in 1 .. Len(s) - (n + 1) + 1 : x[k] = s[n + 1 + k - 1]
    BY <1>1, SubSeqProperties
  <1> HIDE DEF x
  <1>3. Len(x) = Len(s) - n
    BY <1>2
  <1>4. ASSUME NEW k \in 1 .. Len(s) - n PROVE x[k] = s[n + k]
    <2>1. k \in 1 .. Len(s) - (n + 1) + 1 /\ n + 1 + k - 1 = n + k
      OBVIOUS
    <2> QED BY <1>2, <2>1
  <1> QED BY <1>2, <1>3, <1>4 DEF x

(* The first n characters, and a part of them *)
LEMMA PartIs ==
  ASSUME NEW s \in Seq(Char), NEW n \in 0 .. Len(s), NEW i \in Nat, i >= 1, NEW j \in Nat, j <= n
  PROVE  SubSeq(SubSeq(s, 1, n), i, j) = SubSeq(s, i, j) /\ SubSeq(s, i, j) \in Seq(Char)
  <1> DEFINE d == SubSeq(s, 1, n)
             x == SubSeq(s, i, j)
             y == SubSeq(d, i, j)
  <1>1. d \in Seq(Char) /\ Len(d) = n
    BY LineOf
  <1>2. \A k \in 1 .. n : d[k] = s[k]
    OBVIOUS
  <1> HIDE DEF d
  <1>3. \A k \in i .. j : s[k] \in Char /\ d[k] \in Char /\ s[k] = d[k]
    BY <1>1, <1>2
  <1>4. /\ x \in Seq(Char) /\ Len(x) = IF i <= j THEN j - i + 1 ELSE 0
        /\ \A k \in 1 .. j - i + 1 : x[k] = s[i + k - 1]
    BY <1>3, SubSeqProperties
  <1>5. /\ y \in Seq(Char) /\ Len(y) = IF i <= j THEN j - i + 1 ELSE 0
        /\ \A k \in 1 .. j - i + 1 : y[k] = d[i + k - 1]
    BY <1>3, SubSeqProperties
  <1> HIDE DEF x, y
  <1>6. Len(x) = Len(y)
    BY <1>4, <1>5
  <1>7. ASSUME NEW k \in 1 .. Len(x) PROVE x[k] = y[k]
    <2>1. k \in 1 .. j - i + 1 /\ i + k - 1 \in i .. j
      BY <1>4
    <2> QED BY <1>3, <1>4, <1>5, <2>1
  <1>8. x = y
    BY <1>4, <1>5, <1>6, <1>7, SeqEqual
  <1> QED BY <1>4, <1>8 DEF x, y, d

(* What composeCompoundCommand changes lies in front of the header. *)
LEMMA ComposedKeeps ==
  ASSUME NEW s \in Seq(Char), NEW prev, NEW current, NEW k \in 1 .. Len(s),
         current.first \in Nat, k >= current.first
  PROVE  composeCompoundCommand(s, prev, current).line[k] = s[k]
  <1> DEFINE colons == {j \in 1 .. prev.len : s[prev.first + j - 1] = ":"}
             n == IF colons = {} THEN 0 ELSE Max(colons)
             first == current.first - n
             alone == \/ prev.len = 0
                      \/ s[current.first] \in {"*", ":"}
                      \/ s[prev.first] = "*"
             line == [j \in 1 .. Len(s) |-> IF j \in first .. current.first - 1
                                            THEN s[prev.first + (j - first)] ELSE s[j]]
             header == [current EXCEPT !.first = first, !.len = @ + n]
             c == composeCompoundCommand(s, prev, current)
  <1>1. c = IF alone \/ n = 0 THEN [line |-> s, header |-> current] ELSE [line |-> line, header |-> header]
    BY DEF composeCompoundCommand
  <1>2. line[k] = s[k]
    <2> HIDE DEF n, first
    <2>1. k \notin first .. current.first - 1
      OBVIOUS
    <2> QED BY <2>1
  <1> HIDE DEF n, c, alone, line, header
  <1>3. c.line = s \/ c.line = line
    BY <1>1
  <1> QED BY <1>2, <1>3 DEF c

(* A unit of the line is handled: what follows it stays, and it is noted. *)
LEMMA UnitHandled ==
  ASSUME InputInv, ParseUnit, log \in Seq(Seq(Char))
  PROVE  LET s == SubSeq(buffer, 1, job.end)
             u == detectProgramMessageUnit(s, job.at)
         IN  /\ job'.at = u.next /\ job'.end = job.end /\ job'.last = job.last
             /\ log' = log \o UnitText(s, job.at, u)
             /\ u.next \in job.at + 1 .. job.end + 1 /\ Len(buffer') = Len(buffer)
             /\ \A k \in u.next .. Len(buffer) : buffer'[k] = buffer[k]
  <1> DEFINE s == SubSeq(buffer, 1, job.end)
             u == detectProgramMessageUnit(s, job.at)
             h == composeCompoundCommand(s, job.prev, u.header)
             empty == u.header.type # "INVALID" /\ u.header.len = 0
             header == Text(h.line, h.header)
             rest == SubSeq(buffer, job.end + 1, Len(buffer))
  <1>1. pc = "parse" /\ job.at <= job.end /\ HandleUnit(s, u)
    BY DEF ParseUnit
  <1>2. /\ job.end \in 0 .. Len(buffer) /\ job.at \in 1 .. job.end + 1 /\ buffer \in Seq(Char) /\ JobShape
        /\ Len(buffer) \in Nat /\ job.end \in Nat /\ job.at \in Nat
    BY DEF InputInv, Buffered, TypeOK
  <1>3. /\ s \in Seq(Char) /\ Len(s) = job.end /\ \A k \in 1 .. job.end : s[k] = buffer[k]
    <2>1. /\ s \in Seq(Char) /\ Len(s) = job.end
      BY <1>2, LineOf
    <2>2. \A k \in 1 .. job.end : s[k] = buffer[k]
      BY <1>2
    <2> QED BY <2>1, <2>2
  <1>4. job.at \in Pos(s)
    <2> HIDE DEF s
    <2> QED BY <1>1, <1>2, <1>3 DEF Pos
  <1>5. /\ u.next \in job.at + 1 .. job.end + 1
        /\ u.header.type # "INVALID" =>
             Within(u.header, s, job.at) /\ u.header.next <= u.next
    BY <1>1, HeaderOfUnit
  <1>6. u.stop \in job.at .. u.next
    <2> HIDE DEF s
    <2> QED BY <1>3, <1>4, UnitStops
  <1>7. /\ \/ u.header.type = "INVALID" /\ SkipUnit(u, <<INVALID_CHARACTER>>)
           \/ empty /\ SkipUnit(u, <<>>)
           \/ u.header.type # "INVALID" /\ ~ empty /\ ExecuteUnit(u, h, Matching(header))
        /\ log' = IF empty THEN log ELSE Append(log, SubSeq(buffer, job.at, u.stop - 1))
    <2> HIDE DEF s, u
    <2> QED BY <1>1 DEF HandleUnit
  <1>8. /\ SubSeq(buffer, job.at, u.stop - 1) = SubSeq(s, job.at, u.stop - 1)
        /\ SubSeq(buffer, job.at, u.stop - 1) \in Seq(Char)
    <2>1. u.stop - 1 \in Nat /\ u.stop - 1 <= job.end /\ job.at >= 1
      <3> HIDE DEF s, u
      <3> QED BY <1>2, <1>5, <1>6
    <2> HIDE DEF u
    <2> QED BY <1>2, <2>1, PartIs
  <1>9. log' = log \o UnitText(s, job.at, u)
    <2> DEFINE text == SubSeq(s, job.at, u.stop - 1)
    <2>1. text \in Seq(Char)
      BY <1>8
    <2>2. CASE empty
      <3>1. UnitText(s, job.at, u) = <<>>
        BY <2>2 DEF UnitText
      <3>2. log \o <<>> = log
        BY ConcatEmptySeq
      <3> HIDE DEF s, u, text, empty
      <3> QED BY <1>7, <2>2, <3>1, <3>2
    <2>3. CASE ~ empty
      <3>1. UnitText(s, job.at, u) = <<text>>
        BY <2>3 DEF UnitText
      <3>2. log' = Append(log, text)
        BY <1>7, <1>8, <2>3
      <3> HIDE DEF s, u, text, empty
      <3>3. Append(log, text) = log \o <<text>>
        BY <2>1
      <3> QED BY <3>1, <3>2, <3>3
    <2> QED BY <2>2, <2>3
  <1> HIDE DEF u, s
  <1>10. CASE SkipUnit(u, <<INVALID_CHARACTER>>) \/ SkipUnit(u, <<>>)
    <2>1. job' = [job EXCEPT !.at = u.next] /\ buffer' = buffer
      BY <1>10 DEF SkipUnit
    <2>2. job'.at = u.next /\ job'.end = job.end /\ job'.last = job.last
      BY <1>2, <2>1 DEF JobShape
    <2> QED BY <1>5, <1>9, <2>1, <2>2 DEF u, s
  <1>11. CASE u.header.type # "INVALID" /\ ~ empty /\ ExecuteUnit(u, h, Matching(header))
    <2> HIDE DEF header
    <2> DEFINE found == Matching(header)
               prev == IF found # {} THEN h.header ELSE job.prev
    <2>1. job' = [job EXCEPT !.at = u.next, !.prev = prev] /\ buffer' = h.line \o rest
      BY <1>11 DEF ExecuteUnit
    <2> HIDE DEF prev
    <2>2. job'.at = u.next /\ job'.end = job.end /\ job'.last = job.last
      BY <1>2, <2>1 DEF JobShape
    <2>3. Within(u.header, s, job.at) /\ u.header.next <= u.next /\ u.header.len > 0
      BY <1>5, <1>11 DEF Within
    <2>4. h.line \in Seq(Char) /\ Len(h.line) = job.end
      <3>1. Earlier(job.prev, job.at)
        BY DEF InputInv, Buffered
      <3>2. s \in Seq(Char) /\ Len(s) = job.end
        BY <1>3
      <3>3. u.header.len > 0 /\ Within(u.header, s, job.at)
        BY <2>3
      <3> HIDE DEF h
      <3>4. h = composeCompoundCommand(s, job.prev, u.header)
        BY DEF h
      <3>5. LET c == composeCompoundCommand(s, job.prev, u.header) IN c.line \in Seq(Char) /\ Len(c.line) = Len(s)
        BY <1>4, <3>1, <3>2, <3>3, ComposedWithin
      <3> QED BY <3>2, <3>4, <3>5
    <2>5. u.header.first \in Nat /\ u.header.first <= u.next
      <3>1. /\ u.header.next \in job.at .. Len(s) + 1 /\ u.header.first \in job.at .. u.header.next
            /\ u.header.next <= u.next
        BY <2>3 DEF Within
      <3>2. job.at \in Nat /\ Len(s) \in Nat /\ u.next \in job.at + 1 .. job.end + 1 /\ job.end \in Nat
        BY <1>2, <1>3, <1>5
      <3> QED BY <3>1, <3>2
    <2>6. ASSUME NEW k \in 1 .. job.end, k >= u.next
          PROVE  h.line[k] = buffer[k]
      <3>1. k \in 1 .. Len(s) /\ k >= u.header.first
        BY <1>3, <1>5, <2>5, <2>6
      <3>2. h.line[k] = s[k]
        BY <1>3, <2>5, <3>1, ComposedKeeps
      <3> QED BY <1>3, <3>2
    <2> HIDE DEF h
    <2>7. /\ rest \in Seq(Char) /\ Len(rest) = Len(buffer) - job.end
          /\ \A k \in 1 .. Len(buffer) - job.end : rest[k] = buffer[job.end + k]
      BY <1>2, RestIs
    <2> HIDE DEF rest
    <2>8. /\ Len(buffer') = job.end + (Len(buffer) - job.end)
          /\ \A k \in 1 .. job.end + (Len(buffer) - job.end) :
               buffer'[k] = IF k <= job.end THEN h.line[k] ELSE rest[k - job.end]
      BY <2>1, <2>4, <2>7, ConcatProperties
    <2>9. Len(buffer') = Len(buffer)
      BY <1>2, <2>8
    <2>10. ASSUME NEW k \in u.next .. Len(buffer)
           PROVE  buffer'[k] = buffer[k]
      <3>1. k \in 1 .. job.end + (Len(buffer) - job.end)
        BY <1>2, <1>5
      <3>2. CASE k <= job.end
        BY <1>2, <1>5, <2>6, <2>8, <3>1, <3>2
      <3>3. CASE ~ (k <= job.end)
        <4>1. k - job.end \in 1 .. Len(buffer) - job.end /\ job.end + (k - job.end) = k
          BY <1>2, <1>5, <3>3
        <4> QED BY <2>7, <2>8, <3>1, <3>3, <4>1
      <3> QED BY <3>2, <3>3
    <2> QED BY <1>5, <1>9, <2>2, <2>9, <2>10 DEF u, s
  <1> QED BY <1>7, <1>10, <1>11

-----------------------------------------------------------------------------
(* What is parsed is next *)

(* A unit is handled. *)
LEMMA ChunkParse ==
  ASSUME InputInv, ChunkInv, ParseUnit
  PROVE  ChunkInv'
  <1> DEFINE s == stream
             d == SubSeq(buffer, 1, job.end)
             i == job.at
             o == Start
             F == completeFrom(s)
             u == detectProgramMessageUnit(d, i)
             x == UnitText(d, i, u)
  <1>1. pc = "parse" /\ pc' = pc /\ job.at <= job.end /\ stream' = stream
    BY DEF ParseUnit
  <1>2. /\ job.end \in 0 .. Len(buffer) /\ i \in 1 .. job.end + 1 /\ buffer \in Seq(Char)
        /\ Len(buffer) \in Nat /\ job.end \in Nat /\ i \in Nat /\ i >= 1
        /\ s \in Seq(Char) /\ Len(s) \in Nat /\ log \in Seq(Seq(Char))
    BY DEF InputInv, Buffered, TypeOK, ChunkInv
  <1>3. d \in Seq(Char) /\ Len(d) = job.end /\ \A k \in 1 .. job.end : d[k] = buffer[k]
    <2>1. d \in Seq(Char) /\ Len(d) = job.end
      BY <1>2, LineOf
    <2>2. \A k \in 1 .. job.end : d[k] = buffer[k]
      BY <1>2
    <2> QED BY <2>1, <2>2
  <1>4. i \in Pos(d)
    <2> HIDE DEF d
    <2> QED BY <1>1, <1>2, <1>3 DEF Pos
  <1>5. /\ job'.at = u.next /\ job'.end = job.end /\ job'.last = job.last
        /\ log' = log \o x
        /\ u.next \in i + 1 .. job.end + 1 /\ Len(buffer') = Len(buffer)
        /\ \A k \in u.next .. Len(buffer) : buffer'[k] = buffer[k]
    BY <1>2, UnitHandled
  <1>6. x \in Seq(Seq(Char))
    BY <1>3, <1>4, UnitTextHandled
  <1>7. stream' \in Seq(Char) /\ log' \in Seq(Seq(Char))
    <2> HIDE DEF x
    <2> QED BY <1>1, <1>2, <1>5, <1>6, ConcatProperties
  <1>8. SUFFICES ASSUME Plain'
                 PROVE  Kept' /\ HandledInOrder' /\ (job'.at <= job'.end => LineReceived')
    BY <1>1, <1>7 DEF ChunkInv
  <1>9. Plain /\ QuoteFree(s)
    BY <1>1, <1>5, <1>8 DEF Plain
  <1>10. Kept /\ HandledInOrder /\ LineReceived
    BY <1>1, <1>9 DEF ChunkInv
  <1>11. o \in Nat /\ Len(s) = o + Len(buffer) /\ Start' = o
    BY <1>1, <1>2, <1>5, <1>10 DEF Kept, Start
  <1>12. Cut(s, d, o, i)
    <2>1. o + Len(d) <= Len(s) /\ i \in 1 .. Len(d)
      BY <1>1, <1>2, <1>3, <1>11
    <2>2. \A k \in i .. Len(d) : d[k] = s[o + k]
      BY <1>2, <1>3, <1>10 DEF Kept
    <2> HIDE DEF d, s, o
    <2> QED BY <1>2, <1>3, <1>10, <1>11, <2>1, <2>2 DEF Cut, LineReceived, s, o
  <1>13. /\ F[o + i] = Before(x, o + u.next, F[o + u.next])
         /\ u.next <= Len(d) => lineStop(s)[o + u.next] = lineStop(s)[o + i]
    <2> HIDE DEF s, d, o
    <2> QED BY <1>9, <1>12, UnitCut
  <1> HIDE DEF u, x, d
  <1>14. Kept'
    <2>1. ASSUME NEW k \in u.next .. Len(buffer) PROVE buffer'[k] = s[o + k]
      <3>1. k \in i .. Len(buffer)
        BY <1>2, <1>5
      <3>2. buffer[k] = s[o + k]
        BY <1>10, <3>1 DEF Kept
      <3> QED BY <1>5, <3>2
    <2> QED BY <1>1, <1>5, <1>11, <2>1 DEF Kept
  <1>15. HandledInOrder'
    <2> DEFINE m == o + u.next
               r == F[m]
    <2>1. o + i \in 1 .. Len(s) + 1 /\ m \in 1 .. Len(s) + 1 /\ m \in Pos(s)
      <3> HIDE DEF s, o
      <3>1. o + i \in 1 .. Len(s) + 1
        BY <1>2, <1>11
      <3>2. m \in 1 .. Len(s) + 1
        BY <1>2, <1>5, <1>11, SMTT(30)
      <3> QED BY <3>1, <3>2 DEF Pos
    <2>2. r \in Handled(s)
      BY <1>2, <2>1, CompleteFromStep
    <2> HIDE DEF m, r, o, s, F
    <2>3. Before(log, o + i, Before(x, m, r)) = Before(log \o x, m, r)
      BY <1>2, <1>6, <2>1, <2>2, BeforeBefore
    <2>4. Complete(s) = Before(log, o + i, F[o + i])
      BY <1>10 DEF HandledInOrder, s, o, F
    <2>5. F[o + i] = Before(x, m, r)
      BY <1>13 DEF m, r
    <2>6. Complete(s) = Before(log', m, r)
      BY <1>5, <2>3, <2>4, <2>5
    <2> QED BY <1>1, <1>5, <1>11, <2>6 DEF HandledInOrder, m, r, F, s
  <1>16. job'.at <= job'.end => LineReceived'
    <2> SUFFICES ASSUME u.next <= job.end PROVE LineReceived'
      BY <1>5
    <2>1. lineStop(s)[o + u.next] = lineStop(s)[o + i]
      BY <1>3, <1>13
    <2> QED BY <1>1, <1>5, <1>10, <1>11, <2>1 DEF LineReceived
  <1> QED BY <1>14, <1>15, <1>16

(* The line is done. *)
LEMMA ChunkEnd ==
  ASSUME InputInv, ChunkInv, ParseEnd
  PROVE  ChunkInv'
  <1>1. /\ pc = "parse" /\ job.at > job.end /\ job' = NoJob /\ totcmdlen' = 0
        /\ IF job.last THEN buffer' = <<>> /\ pc' = "idle" /\ stream' = <<>> /\ log' = <<>>
           ELSE /\ buffer' = AfterLine /\ pc' = "scan" /\ stream' = stream /\ log' = log
    BY DEF ParseEnd
  <1>2. CASE job.last
    BY <1>1, <1>2, ChunkReset
  <1>3. CASE ~ job.last
    <2>1. buffer' = AfterLine /\ pc' = "scan" /\ stream' = stream /\ log' = log /\ job'.at = 1
      BY <1>1, <1>3, Emptied
    <2>2. /\ job.end \in 0 .. Len(buffer) /\ job.at \in 1 .. job.end + 1 /\ buffer \in Seq(Char)
          /\ Len(buffer) \in Nat /\ job.end \in Nat /\ job.at = job.end + 1
          /\ stream \in Seq(Char) /\ Len(stream) \in Nat /\ log \in Seq(Seq(Char))
      BY <1>1 DEF InputInv, Buffered, TypeOK, ChunkInv
    <2>3. /\ Len(buffer') = Len(buffer) - job.end
          /\ \A k \in 1 .. Len(buffer) - job.end : buffer'[k] = buffer[job.end + k]
      BY <2>1, <2>2, RestIs DEF AfterLine
    <2>4. SUFFICES ASSUME Plain' PROVE Kept' /\ HandledInOrder'
      BY <1>1, <2>1, <2>2 DEF ChunkInv
    <2>5. Plain
      BY <1>3, <2>1, <2>4 DEF Plain
    <2>6. Kept /\ HandledInOrder
      BY <2>5 DEF ChunkInv
    <2>7. Start' = Start + job.end /\ Start \in Nat /\ Start' \in Nat
      BY <2>1, <2>2, <2>3, <2>6 DEF Start, Kept
    <2>8. Start + job.at = Start' + job'.at
      BY <2>1, <2>2, <2>7
    <2>9. HandledInOrder'
      BY <2>1, <2>6, <2>8 DEF HandledInOrder
    <2>10. ASSUME NEW k \in 1 .. Len(buffer') PROVE buffer'[k] = stream[Start' + k]
      <3>1. /\ k \in 1 .. Len(buffer) - job.end /\ job.end + k \in job.at .. Len(buffer)
            /\ Start + (job.end + k) = Start' + k
        BY <2>2, <2>3, <2>7, SMTT(30)
      <3>2. buffer[job.end + k] = stream[Start + (job.end + k)]
        BY <2>6, <3>1 DEF Kept
      <3> QED BY <2>3, <3>1, <3>2
    <2>11. Kept'
      BY <2>1, <2>7, <2>10 DEF Kept
    <2> QED BY <2>9, <2>11
  <1> QED BY <1>2, <1>3

(* Every step preserves it. *)
LEMMA ChunkInvNext ==
  ASSUME InputInv, ChunkInv, [Next]_vars
  PROVE  ChunkInv'
  <1>1. ASSUME NEW data \in Chunks, Input(data)
        PROVE  ChunkInv'
    BY <1>1, ChunkInput
  <1>2. ASSUME NEW data \in Chunks, InputOverrun(data)
        PROVE  ChunkInv'
    <2>1. buffer' = <<>> /\ stream' = <<>> /\ log' = <<>> /\ pc' = "idle" /\ job' = NoJob
      BY <1>2 DEF InputOverrun, InputInv, Buffered
    <2> QED BY <2>1, ChunkReset
  <1>3. CASE InputEnd
    <2>1. pc' = "parse" /\ job' = [end |-> Len(buffer), at |-> 1, prev |-> NoToken, last |-> TRUE]
          /\ stream' = stream /\ log' = log
      BY <1>3 DEF InputEnd, StartParse
    <2>2. ~ Plain'
      BY <2>1 DEF Plain
    <2> QED BY <2>1, <2>2 DEF ChunkInv
  <1>4. CASE ScanUnit
    BY <1>4, ChunkScan
  <1>5. CASE ParseUnit
    BY <1>5, ChunkParse
  <1>6. CASE ParseEnd
    BY <1>6, ChunkEnd
  <1>7. CASE UNCHANGED vars
    BY <1>7 DEF vars, ChunkInv, Plain, Kept, HandledInOrder, LineReceived, Start
  <1> QED BY <1>1, <1>2, <1>3, <1>4, <1>5, <1>6, <1>7 DEF Next

(* Between two calls the log is the texts of the complete lines of all that
   was received, and the buffer what is behind them. *)
LEMMA ChunkInvIdle ==
  ASSUME InputInv, ChunkInv
  PROVE  ChunkIndependence
  <1> SUFFICES ASSUME pc = "idle", QuoteFree(stream)
               PROVE  log = Complete(stream).texts /\ buffer = SubSeq(stream, Complete(stream).next, Len(stream))
    BY DEF ChunkIndependence, QuoteFree
  <1> DEFINE p == Start + 1
             F == completeFrom(stream)
  <1>1. Plain
    BY DEF Plain
  <1>2. Behind(stream, buffer, Start, 1) /\ job.at = 1 /\ Start \in Nat
    BY <1>1, BufferBehind
  <1>3. HandledInOrder /\ lineStop(buffer)[1] = 0
    BY <1>1 DEF ChunkInv
  <1>4. /\ buffer \in Seq(Char) /\ stream \in Seq(Char) /\ Len(stream) = Len(buffer) + Start
        /\ Len(buffer) \in Nat /\ p \in Pos(stream)
        /\ \A k \in 1 .. Len(buffer) : buffer[k] = stream[Start + k]
    BY <1>2 DEF Behind, Pos
  <1>5. lineStop(stream)[p] = 0
    BY <1>2, <1>3, NoLineBehind
  <1>6. F[p].next = 0
    BY <1>4, <1>5, CompleteNext
  <1>7. Complete(stream) = [texts |-> log, next |-> p]
    <2>1. Complete(stream) = Before(log, p, F[p])
      BY <1>2, <1>3 DEF HandledInOrder
    <2> HIDE DEF F, p
    <2> QED BY <1>6, <2>1 DEF Before
  <1>8. Complete(stream).texts = log /\ Complete(stream).next = p
    BY <1>7
  <1>9. buffer = SubSeq(stream, p, Len(stream))
    <2> DEFINE x == SubSeq(stream, Start + 1, Len(stream))
    <2>1. Start \in 0 .. Len(stream)
      BY <1>2, <1>4
    <2>2. x \in Seq(Char) /\ Len(x) = Len(stream) - Start /\ \A k \in 1 .. Len(stream) - Start : x[k] = stream[Start + k]
      BY <1>4, <2>1, RestIs
    <2> HIDE DEF x
    <2>3. Len(x) = Len(buffer) /\ \A k \in 1 .. Len(buffer) : buffer[k] = x[k]
      BY <1>2, <1>4, <2>2
    <2>4. buffer = x
      BY <1>4, <2>2, <2>3, SeqEqual
    <2> QED BY <2>4 DEF x
  <1> QED BY <1>8, <1>9

(* However the bytes of a host are cut into pieces, and whatever commands
   there are, exactly the units of the complete lines are handled, each once
   and in order, and what is behind them is kept (parser.c:308, SCPI_Input),
   if there are no quotes. *)
THEOREM ChunksDoNotMatter == Spec => []ChunkIndependence
  <1>1. Init => InputInv /\ ChunkInv
    BY InputInvInit, ChunkInit
  <1>2. InputInv /\ ChunkInv /\ [Next]_vars => InputInv' /\ ChunkInv'
    BY InputInvNext, ChunkInvNext
  <1>3. InputInv /\ ChunkInv => ChunkIndependence
    BY ChunkInvIdle
  <1> QED BY <1>1, <1>2, <1>3, PTL DEF Spec

-----------------------------------------------------------------------------
(* Answers that can be told apart *)

(* What is owed after all of out *)
Owed(out) == owedOf(out)[Len(out)]

(* The item x may follow out. *)
Fits(out, x) ==
  /\ x.what = "data" => x.n <= Owed(out)
  /\ Separates(x) => Owed(out) = 0
  /\ Begins(x) /\ out # <<>> => Separates(out[Len(out)]) \/ out[Len(out)].what = "block"

(* What is owed is a number. *)
LEMMA OwingInt ==
  ASSUME NEW x \in Writes, NEW before \in Int
  PROVE  Owing(x, before) \in Int
  <1> DEFINE W == {"res", ",", "block", "data", ";", "nl"}
  <1>0. x \in [what : W, n : Nat]
    BY DEF Writes
  <1> HIDE DEF W
  <1>1. x.n \in Int
    BY <1>0
  <1>2. CASE x.what = "block"
    BY <1>1, <1>2 DEF Owing
  <1>3. CASE x.what = "data"
    BY <1>1, <1>3 DEF Owing
  <1>4. CASE x.what # "block" /\ x.what # "data"
    BY <1>4 DEF Owing
  <1> QED BY <1>2, <1>3, <1>4

(* What is owed, an item at a time *)
LEMMA OwedStep ==
  ASSUME NEW out \in Seq(Writes)
  PROVE  \A k \in 0 .. Len(out) :
           /\ owedOf(out)[k] = IF k = 0 THEN 0 ELSE Owing(out[k], owedOf(out)[k - 1])
           /\ owedOf(out)[k] \in Int
  <1> DEFINE n == Len(out)
             S == Int
             F == owedOf(out)
             next(k, v) == Owing(out[k], v)
             body(g, k) == IF k = 0 THEN 0 ELSE next(k, g[k - 1])
             step == [p \in (1 .. n) \X S |-> next(p[1], p[2])]
  <1>1. n \in Nat
    OBVIOUS
  <1>2. 0 \in S
    OBVIOUS
  <1>3. ASSUME NEW k \in 1 .. n, NEW v \in S
        PROVE  next(k, v) \in S
    <2>1. out[k] \in Writes
      BY <1>3
    <2> QED BY <2>1, OwingInt
  <1>4. \A k \in 1 .. n, v \in S : step[<<k, v>>] = next(k, v)
    <2> HIDE DEF next, S, n
    <2> QED OBVIOUS
  <1>5. StepUp(step, n, S)
    <2> HIDE DEF step, next, S, n
    <2> QED BY <1>3, <1>4 DEF StepUp
  <1>6. PICK f \in [0 .. n -> S] : SolvesUp(f, step, n, 0)
    <2> HIDE DEF step, next, S, n
    <2> QED BY <1>1, <1>2, <1>5, RecursionUp
  <1>7. f = [k \in 0 .. n |-> body(f, k)]
    <2> HIDE DEF step, next, S, n
    <2>1. f = [k \in 0 .. n |-> IF k = 0 THEN 0 ELSE step[<<k, f[k - 1]>>]]
      BY <1>6 DEF SolvesUp
    <2>2. ASSUME NEW k \in 0 .. n PROVE f[k] = body(f, k)
      <3>1. f[k] = IF k = 0 THEN 0 ELSE step[<<k, f[k - 1]>>]
        BY <2>1, Zenon
      <3>2. CASE k = 0
        BY <3>1, <3>2
      <3>3. CASE k # 0
        <4>1. k \in 1 .. n /\ f[k - 1] \in S
          BY <1>1, <3>3
        <4> QED BY <1>4, <3>1, <3>3, <4>1
      <3> QED BY <3>2, <3>3
    <2> HIDE DEF body
    <2> QED BY <2>1, <2>2
  <1>8. F = [k \in 0 .. n |-> body(F, k)]
    BY <1>7 DEF owedOf
  <1> DEFINE T == {k \in 0 .. n : F[k] \in S}
  <1> HIDE DEF F
  <1>9. ASSUME NEW k \in 0 .. n
        PROVE  F[k] = body(F, k)
    <2> HIDE DEF body, n
    <2> QED BY <1>8
  <1>10. 0 \in T
    <2> HIDE DEF n
    <2>1. 0 \in 0 .. n
      BY <1>1
    <2> QED BY <1>9, <2>1
  <1>11. ASSUME NEW k \in 1 .. n, k - 1 \in T PROVE k \in T
    <2> HIDE DEF next, n
    <2>1. F[k] = next(k, F[k - 1]) /\ F[k - 1] \in S
      BY <1>1, <1>9, <1>11
    <2>2. F[k] \in S
      BY <1>3, <2>1
    <2> QED BY <1>1, <2>2
  <1>12. 0 .. n \subseteq T
    <2> HIDE DEF T, n
    <2> QED BY <1>1, <1>10, <1>11, Induction
  <1> QED BY <1>9, <1>12 DEF F

(* What is owed depends on the items since the last block only: it is the same
   in b, where a stands behind p items, unless a begins with data. *)
LEMMA OwedShared ==
  ASSUME NEW a \in Seq(Writes), NEW b \in Seq(Writes), NEW p \in Nat, NEW m \in Nat,
         m <= Len(a), p + m <= Len(b), \A j \in 1 .. m : b[p + j] = a[j],
         p # 0 /\ m # 0 => a[1].what # "data"
  PROVE  \A j \in 1 .. m : owedOf(b)[p + j] = owedOf(a)[j]
  <1> DEFINE F == owedOf(a)
             G == owedOf(b)
             T == {j \in 0 .. m : j > 0 => G[p + j] = F[j]}
  <1>1. /\ Len(a) \in Nat /\ Len(b) \in Nat
        /\ \A k \in 0 .. Len(a) : F[k] = IF k = 0 THEN 0 ELSE Owing(a[k], F[k - 1])
        /\ \A k \in 0 .. Len(b) : G[k] = IF k = 0 THEN 0 ELSE Owing(b[k], G[k - 1])
    BY OwedStep
  <1> HIDE DEF F, G
  <1>2. 0 \in T
    OBVIOUS
  <1>3. ASSUME NEW j \in 1 .. m, j - 1 \in T PROVE j \in T
    <2>1. F[j] = Owing(a[j], F[j - 1]) /\ G[p + j] = Owing(a[j], G[(p + j) - 1])
      <3>1. j \in 0 .. Len(a) /\ p + j \in 0 .. Len(b) /\ j # 0 /\ p + j # 0
        BY <1>1
      <3>2. b[p + j] = a[j]
        OBVIOUS
      <3> QED BY <1>1, <3>1, <3>2
    <2>2. CASE j # 1
      <3>1. j - 1 > 0 /\ (p + j) - 1 = p + (j - 1)
        BY <2>2
      <3>2. G[p + (j - 1)] = F[j - 1]
        BY <1>3, <3>1
      <3>3. G[p + j] = F[j]
        BY <2>1, <3>1, <3>2
      <3> QED BY <3>3
    <2>3. CASE j = 1 /\ p = 0
      <3>1. F[j - 1] = 0 /\ G[(p + j) - 1] = 0
        BY <1>1, <2>3
      <3>2. G[p + j] = F[j]
        BY <2>1, <3>1
      <3> QED BY <3>2
    <2>4. CASE j = 1 /\ p # 0
      <3>1. a[j].what # "data"
        BY <2>4
      <3>2. Owing(a[j], F[j - 1]) = Owing(a[j], G[(p + j) - 1])
        BY <3>1 DEF Owing
      <3>3. G[p + j] = F[j]
        BY <2>1, <3>2
      <3> QED BY <3>3
    <2> QED BY <2>2, <2>3, <2>4
  <1>4. 0 .. m \subseteq T
    <2> HIDE DEF T
    <2> QED BY <1>2, <1>3, Induction
  <1>5. ASSUME NEW j \in 1 .. m PROVE G[p + j] = F[j]
    <2>1. j \in T /\ j > 0
      BY <1>4
    <2> QED BY <2>1
  <1> QED BY <1>5 DEF F, G

(* Answers behind answers *)
LEMMA ApartJoined ==
  ASSUME NEW a \in Seq(Writes), NEW b \in Seq(Writes), b # <<>>, Apart(a), Apart(b),
         Fits(a, b[1]), b[1].what # "data"
  PROVE  a \o b \in Seq(Writes) /\ Apart(a \o b) /\ Owed(a \o b) = Owed(b) /\ a \o b # <<>>
         /\ (a \o b)[Len(a \o b)] = b[Len(b)]
  <1> DEFINE c == a \o b
             n == Len(a)
             m == Len(b)
  <1>1. /\ c \in Seq(Writes) /\ Len(c) = n + m /\ n \in Nat /\ m \in Nat /\ m # 0
        /\ \A i \in 1 .. n + m : c[i] = IF i <= n THEN a[i] ELSE b[i - n]
    <2>1. /\ c \in Seq(Writes) /\ Len(c) = n + m
          /\ \A i \in 1 .. n + m : c[i] = IF i <= n THEN a[i] ELSE b[i - n]
      BY ConcatProperties
    <2> QED BY <2>1, EmptySeq
  <1>2. /\ \A i \in 1 .. n : c[i] = a[i]
        /\ \A j \in 1 .. m : c[n + j] = b[j]
    <2> HIDE DEF c
    <2>1. ASSUME NEW j \in 1 .. m PROVE c[n + j] = b[j]
      <3>1. n + j \in 1 .. n + m /\ ~ (n + j <= n) /\ (n + j) - n = j
        BY <1>1
      <3> QED BY <1>1, <3>1
    <2>2. ASSUME NEW i \in 1 .. n PROVE c[i] = a[i]
      BY <1>1
    <2> QED BY <2>1, <2>2
  <1> HIDE DEF c
  <1>3. \A i \in 0 .. n : owedOf(c)[i] = owedOf(a)[i]
    <2>1. \A i \in 1 .. n : c[0 + i] = a[i]
      BY <1>2
    <2>2. /\ 0 \in Nat /\ n \in Nat /\ n <= Len(a) /\ 0 + n <= Len(c) /\ c \in Seq(Writes)
          /\ 0 # 0 /\ n # 0 => a[1].what # "data"
      BY <1>1
    <2>3. \A i \in 1 .. n : owedOf(c)[0 + i] = owedOf(a)[i]
      <3> HIDE DEF n
      <3> QED BY <2>1, <2>2, OwedShared
    <2>4. owedOf(c)[0] = 0 /\ owedOf(a)[0] = 0
      <3>1. 0 \in 0 .. Len(c) /\ 0 \in 0 .. Len(a)
        BY <1>1
      <3> QED BY <1>1, <3>1, OwedStep
    <2> QED BY <1>1, <2>3, <2>4
  <1>4. \A j \in 1 .. m : owedOf(c)[n + j] = owedOf(b)[j]
    <2>1. m \in Nat /\ n \in Nat /\ m <= Len(b) /\ n + m <= Len(c) /\ c \in Seq(Writes)
      BY <1>1
    <2> HIDE DEF n, m
    <2> QED BY <1>2, <2>1, OwedShared
  <1>5. Owed(c) = Owed(b)
    BY <1>1, <1>4 DEF Owed
  <1>6. c # <<>> /\ c[Len(c)] = b[Len(b)]
    <2>1. Len(c) # 0 /\ m \in 1 .. m /\ Len(c) = n + m
      BY <1>1
    <2> QED BY <1>1, <1>2, <2>1
  <1>7. ASSUME NEW k \in 1 .. n + m
        PROVE  /\ c[k].what = "data" => c[k].n <= owedOf(c)[k - 1]
               /\ Separates(c[k]) => owedOf(c)[k - 1] = 0
               /\ Begins(c[k]) /\ k > 1 => Separates(c[k - 1]) \/ c[k - 1].what = "block"
    <2>1. CASE k <= n
      <3>1. c[k] = a[k] /\ owedOf(c)[k - 1] = owedOf(a)[k - 1] /\ (k > 1 => c[k - 1] = a[k - 1]) /\ k \in DOMAIN a
        BY <1>1, <1>2, <1>3, <2>1
      <3> QED BY <3>1 DEF Apart
    <2>2. CASE k = n + 1
      <3>1. c[k] = b[1] /\ owedOf(c)[k - 1] = Owed(a) /\ (k > 1 => c[k - 1] = a[Len(a)] /\ a # <<>>)
        BY <1>1, <1>2, <1>3, <2>2, EmptySeq DEF Owed
      <3> QED BY <3>1 DEF Fits
    <2>3. CASE k > n + 1
      <3> DEFINE j == k - n
      <3>1. j \in 1 .. m /\ j - 1 \in 1 .. m /\ k = n + j /\ k - 1 = n + (j - 1) /\ j > 1
        BY <1>1, <2>3
      <3>2. c[k] = b[j] /\ c[k - 1] = b[j - 1] /\ owedOf(c)[k - 1] = owedOf(b)[j - 1] /\ j \in DOMAIN b
        BY <1>2, <1>4, <3>1
      <3> HIDE DEF j
      <3> QED BY <3>1, <3>2 DEF Apart
    <2> QED BY <1>1, <2>1, <2>2, <2>3
  <1>8. Apart(c)
    <2>1. DOMAIN c = 1 .. n + m
      BY <1>1
    <2> QED BY <1>7, <2>1 DEF Apart
  <1> QED BY <1>1, <1>5, <1>6, <1>8 DEF c

-----------------------------------------------------------------------------
(* An item behind answers *)
LEMMA ItemFollows ==
  ASSUME NEW out \in Seq(Writes), Apart(out), NEW x \in Writes, Fits(out, x)
  PROVE  LET c == out \o <<x>>
         IN  /\ c \in Seq(Writes) /\ Apart(c) /\ Owed(c) = Owing(x, Owed(out))
             /\ c # <<>> /\ Len(c) = Len(out) + 1 /\ c[Len(c)] = x
             /\ c[1] = IF out = <<>> THEN x ELSE out[1]
  <1> DEFINE c == out \o <<x>>
             n == Len(out)
  <1>1. /\ c \in Seq(Writes) /\ Len(c) = n + 1 /\ n \in Nat
        /\ \A i \in 1 .. n : c[i] = out[i]
        /\ c[n + 1] = x
    <2>1. c = Append(out, x)
      OBVIOUS
    <2> HIDE DEF c
    <2> QED BY <2>1
  <1> HIDE DEF c
  <1>2. \A i \in 0 .. n : owedOf(c)[i] = owedOf(out)[i]
    <2>1. \A i \in 1 .. n : c[0 + i] = out[i]
      BY <1>1
    <2>2. /\ 0 \in Nat /\ n \in Nat /\ n <= Len(out) /\ 0 + n <= Len(c) /\ c \in Seq(Writes)
          /\ 0 # 0 /\ n # 0 => out[1].what # "data"
      BY <1>1
    <2>3. \A i \in 1 .. n : owedOf(c)[0 + i] = owedOf(out)[i]
      <3> HIDE DEF n
      <3> QED BY <2>1, <2>2, OwedShared
    <2>4. owedOf(c)[0] = 0 /\ owedOf(out)[0] = 0
      <3>1. 0 \in 0 .. Len(c) /\ 0 \in 0 .. Len(out)
        BY <1>1
      <3> QED BY <1>1, <3>1, OwedStep
    <2> QED BY <1>1, <2>3, <2>4
  <1>3. owedOf(c)[n] = Owed(out) /\ Owed(c) = Owing(x, Owed(out))
    <2>1. owedOf(c)[n] = Owed(out)
      BY <1>1, <1>2 DEF Owed
    <2>2. n + 1 \in 0 .. Len(c) /\ n + 1 # 0 /\ (n + 1) - 1 = n
      BY <1>1
    <2>3. owedOf(c)[n + 1] = Owing(c[n + 1], owedOf(c)[(n + 1) - 1])
      BY <1>1, <2>2, OwedStep
    <2> QED BY <1>1, <2>1, <2>2, <2>3 DEF Owed
  <1>4. ASSUME NEW k \in 1 .. n + 1
        PROVE  /\ c[k].what = "data" => c[k].n <= owedOf(c)[k - 1]
               /\ Separates(c[k]) => owedOf(c)[k - 1] = 0
               /\ Begins(c[k]) /\ k > 1 => Separates(c[k - 1]) \/ c[k - 1].what = "block"
    <2>1. CASE k <= n
      <3>1. c[k] = out[k] /\ owedOf(c)[k - 1] = owedOf(out)[k - 1] /\ (k > 1 => c[k - 1] = out[k - 1])
            /\ k \in DOMAIN out
        BY <1>1, <1>2, <2>1
      <3> QED BY <3>1 DEF Apart
    <2>2. CASE k = n + 1
      <3>1. c[k] = x /\ owedOf(c)[k - 1] = Owed(out) /\ (k > 1 => c[k - 1] = out[Len(out)] /\ out # <<>>)
        BY <1>1, <1>3, <2>2, EmptySeq
      <3> QED BY <3>1 DEF Fits
    <2> QED BY <1>1, <2>1, <2>2
  <1>5. Apart(c)
    <2>1. DOMAIN c = 1 .. n + 1
      BY <1>1
    <2> QED BY <1>4, <2>1 DEF Apart
  <1>6. c # <<>> /\ c[1] = IF out = <<>> THEN x ELSE out[1]
    <2>1. Len(c) # 0
      BY <1>1
    <2>2. CASE out = <<>>
      <3>1. n = 0
        BY <2>2, EmptySeq
      <3>2. c[1] = x
        BY <1>1, <3>1
      <3>3. c # <<>>
        BY <2>1
      <3> HIDE DEF c
      <3> QED BY <2>2, <3>2, <3>3
    <2>3. CASE out # <<>>
      <3>1. 1 \in 1 .. n
        BY <1>1, <2>3, EmptySeq
      <3> QED BY <1>1, <2>1, <2>3, <3>1
    <2> QED BY <2>2, <2>3
  <1>7. /\ c \in Seq(Writes) /\ Apart(c) /\ Owed(c) = Owing(x, Owed(out))
        /\ c # <<>> /\ Len(c) = Len(out) + 1 /\ c[Len(c)] = x
        /\ c[1] = IF out = <<>> THEN x ELSE out[1]
    BY <1>1, <1>3, <1>5, <1>6
  <1> QED BY <1>7 DEF c

(* What a command has written so far, if its answers are apart: it begins with
   a result, and what may follow is known by the count. *)
Answered(w) ==
  /\ Apart(w.text)
  /\ w.text # <<>> => Begins(w.text[1])
  /\ w.count > 0 => w.text # <<>> /\ Owed(w.text) = 0
  /\ w.count = 0 => w.text = <<>> \/ w.text[Len(w.text)].what = "block"

(* Items are items. *)
LEMMA ItemWrites ==
  ASSUME NEW n \in Nat
  PROVE  /\ [what |-> "res", n |-> n] \in Writes /\ [what |-> ",", n |-> n] \in Writes
         /\ [what |-> "block", n |-> n] \in Writes /\ [what |-> "data", n |-> n] \in Writes
         /\ [what |-> ";", n |-> n] \in Writes /\ [what |-> "nl", n |-> n] \in Writes
  BY DEF Writes

(* Nothing has been written. *)
LEMMA NothingAnswered == Answered(NoResult) /\ Apart(<<>>) /\ Owed(<<>>) = 0
  <1>1. Apart(<<>>)
    BY DEF Apart
  <1>2. NoResult.text = <<>> /\ NoResult.count = 0
    BY DEF NoResult
  <1>3. Owed(<<>>) = 0
    <2> DEFINE none == <<>>
    <2>1. none \in Seq(Writes) /\ Len(none) = 0
      OBVIOUS
    <2> HIDE DEF none
    <2>2. owedOf(none)[0] = 0
      <3>1. 0 \in 0 .. Len(none)
        BY <2>1
      <3> QED BY <2>1, <3>1, OwedStep
    <2>3. Owed(none) = 0
      BY <2>1, <2>2 DEF Owed
    <2> QED BY <2>3 DEF none
  <1> QED BY <1>1, <1>2, <1>3 DEF Answered

(* A value behind what was written *)
LEMMA ValueAnswered ==
  ASSUME NEW w \in Writing, Answered(w)
  PROVE  Answered(WriteResult(w, Value))
  <1> DEFINE r == [what |-> "res", n |-> 0]
             s == [what |-> ",", n |-> 0]
             t == w.text \o writeDelimiter(w.count)
             u == t \o <<r>>
  <1>1. /\ w.text \in Seq(Writes) /\ w.count \in Nat
        /\ w = [text |-> w.text, count |-> w.count, reminding |-> w.reminding, errors |-> w.errors]
    BY DEF Writing
  <1>2. /\ r \in Writes /\ s \in Writes /\ Begins(r) /\ ~ Separates(r) /\ Separates(s) /\ ~ Begins(s)
        /\ r.what # "data" /\ s.what # "data" /\ \A before : Owing(r, before) = 0 /\ Owing(s, before) = 0
    <2>1. r \in Writes /\ s \in Writes
      BY ItemWrites
    <2>2. Begins(r) /\ ~ Separates(r) /\ Separates(s) /\ ~ Begins(s) /\ r.what # "data" /\ s.what # "data"
      BY DEF Begins, Separates
    <2>3. \A before : Owing(r, before) = 0 /\ Owing(s, before) = 0
      BY DEF Owing
    <2> QED BY <2>1, <2>2, <2>3
  <1>3. WriteResult(w, Value) = [text |-> u, count |-> w.count + 1, reminding |-> w.reminding, errors |-> w.errors]
    <2>1. Written("res", 0) = <<r>>
      BY DEF Written
    <2>2. WriteResult(w, Value) = [w EXCEPT !.text = u, !.count = w.count + 1]
      BY <2>1 DEF WriteResult, Value
    <2> HIDE DEF u
    <2> QED BY <1>1, <2>2
  <1>4. t \in Seq(Writes) /\ Apart(t) /\ (t # <<>> => Begins(t[1])) /\ Fits(t, r)
    <2>1. CASE w.count = 0
      <3>1. t = w.text
        <4>1. t = w.text \o <<>>
          BY <2>1 DEF writeDelimiter
        <4> QED BY <1>1, <4>1, ConcatEmptySeq
      <3> HIDE DEF t, r
      <3> QED BY <1>1, <1>2, <2>1, <3>1 DEF Answered, Fits
    <2>2. CASE w.count # 0
      <3>1. t = w.text \o <<s>>
        <4>1. w.count > 0
          BY <1>1, <2>2
        <4> QED BY <4>1 DEF writeDelimiter, Written
      <3> HIDE DEF t, r, s
      <3>2. Apart(w.text) /\ w.text # <<>> /\ Begins(w.text[1]) /\ Owed(w.text) = 0
        BY <1>1, <2>2 DEF Answered
      <3>3. Fits(w.text, s)
        BY <1>2, <3>2 DEF Fits
      <3>4. /\ t \in Seq(Writes) /\ Apart(t) /\ t # <<>> /\ t[Len(t)] = s
            /\ t[1] = IF w.text = <<>> THEN s ELSE w.text[1]
        BY <1>1, <1>2, <3>1, <3>2, <3>3, ItemFollows
      <3> QED BY <1>2, <3>2, <3>4 DEF Fits
    <2> QED BY <2>1, <2>2
  <1> HIDE DEF t
  <1>5. /\ u \in Seq(Writes) /\ Apart(u) /\ Owed(u) = 0 /\ u # <<>>
        /\ u[1] = IF t = <<>> THEN r ELSE t[1]
    <2> HIDE DEF r
    <2>1. Owing(r, Owed(t)) = 0
      BY <1>2
    <2> QED BY <1>2, <1>4, <2>1, ItemFollows
  <1>6. Begins(u[1])
    <2> HIDE DEF u, r
    <2> QED BY <1>2, <1>4, <1>5
  <1> HIDE DEF u, r, s
  <1>7. w.count + 1 > 0 /\ w.count + 1 # 0
    BY <1>1
  <1> QED BY <1>3, <1>5, <1>6, <1>7 DEF Answered

(* A block that is being written as the first result of its command: what it
   still lacks is arbitrary_reminding, and it counts when it lacks nothing. *)
Blocked(w) ==
  /\ Apart(w.text) /\ w.text # <<>> /\ w.text[1].what = "block"
  /\ Owed(w.text) = w.reminding
  /\ w.count > 0 => w.reminding = 0

(* The header *)
LEMMA HeaderBlocked ==
  ASSUME NEW n \in Nat
  PROVE  Blocked(BlockHeader(NoResult, n))
  <1> DEFINE b == [what |-> "block", n |-> n]
             none == <<>>
             c == none \o <<b>>
  <1>1. b \in Writes /\ b.what = "block" /\ ~ Separates(b) /\ \A before : Owing(b, before) = n
    <2>1. b \in Writes
      BY ItemWrites
    <2> QED BY <2>1 DEF Separates, Owing
  <1>2. none \in Seq(Writes) /\ Apart(none)
    BY NothingAnswered
  <1>3. BlockHeader(NoResult, n) = [text |-> c, count |-> 0, reminding |-> n, errors |-> <<>>]
    <2>1. NoResult = [text |-> none, count |-> 0, reminding |-> 0, errors |-> none]
      BY DEF NoResult
    <2>2. Written("block", n) = <<b>>
      BY DEF Written
    <2>3. BlockHeader(NoResult, n) = [NoResult EXCEPT !.text = c, !.reminding = n]
      <3>1. NoResult.text = none
        BY <2>1
      <3> QED BY <2>2, <3>1, Zenon DEF BlockHeader
    <2> HIDE DEF c, b
    <2> QED BY <2>1, <2>3
  <1> HIDE DEF b
  <1>4. Fits(none, b)
    BY <1>1 DEF Fits
  <1>5. /\ c \in Seq(Writes) /\ Apart(c) /\ Owed(c) = n /\ c # <<>> /\ c[1] = b
    <2>1. none = <<>>
      OBVIOUS
    <2> HIDE DEF none
    <2> QED BY <1>1, <1>2, <1>4, <2>1, ItemFollows
  <1> HIDE DEF c
  <1> QED BY <1>1, <1>3, <1>5 DEF Blocked

(* A part of the data, accepted or not *)
LEMMA DataBlocked ==
  ASSUME NEW w \in Writing, Blocked(w), NEW n \in Nat
  PROVE  Blocked(BlockData(w, n))
  <1> DEFINE x == [what |-> "data", n |-> n]
             c == w.text \o <<x>>
             count == IF w.reminding = n THEN w.count + 1 ELSE w.count
  <1>0. /\ w.text \in Seq(Writes) /\ w.count \in Nat /\ w.reminding \in Nat /\ w.errors \in Seq(Int)
        /\ w = [text |-> w.text, count |-> w.count, reminding |-> w.reminding, errors |-> w.errors]
    BY DEF Writing
  <1>1. CASE Accepts(w, n)
    <2>1. /\ x \in Writes /\ ~ Separates(x) /\ ~ Begins(x) /\ x.what = "data" /\ x.n = n
          /\ \A before : Owing(x, before) = before - n
      <3>1. x \in Writes
        BY ItemWrites
      <3> QED BY <3>1 DEF Separates, Begins, Owing
    <2>2. BlockData(w, n) = [text |-> c, count |-> count, reminding |-> w.reminding - n, errors |-> w.errors]
      BY <1>0, <1>1 DEF BlockData, Written
    <2>3. Apart(w.text) /\ w.text # <<>> /\ w.text[1].what = "block" /\ Owed(w.text) = w.reminding
          /\ (w.count > 0 => w.reminding = 0) /\ n <= w.reminding
      BY <1>1 DEF Blocked, Accepts
    <2> HIDE DEF x
    <2>4. Fits(w.text, x)
      BY <2>1, <2>3 DEF Fits
    <2>5. /\ c \in Seq(Writes) /\ Apart(c) /\ Owed(c) = Owing(x, Owed(w.text)) /\ c # <<>>
          /\ c[1] = IF w.text = <<>> THEN x ELSE w.text[1]
      BY <1>0, <2>1, <2>3, <2>4, ItemFollows
    <2>6. Owed(c) = w.reminding - n /\ c[1].what = "block"
      BY <2>1, <2>3, <2>5
    <2> HIDE DEF c
    <2>7. count > 0 => w.reminding - n = 0
      BY <1>0, <2>3
    <2> HIDE DEF count
    <2> QED BY <2>2, <2>5, <2>6, <2>7 DEF Blocked
  <1>2. CASE ~ Accepts(w, n)
    <2>1. BlockData(w, n) = [text |-> w.text, count |-> w.count, reminding |-> w.reminding,
                             errors |-> Append(w.errors, SYSTEM_ERROR)]
      BY <1>0, <1>2 DEF BlockData
    <2> QED BY <2>1 DEF Blocked
  <1> QED BY <1>1, <1>2

(* A block that is complete, or has no data at all *)
LEMMA BlockAnswered ==
  ASSUME NEW item \in Seq(Nat), item # Value,
         WriteResult(NoResult, item).count > 0 \/ Len(WriteResult(NoResult, item).text) = 1
  PROVE  Answered(WriteResult(NoResult, item))
  <1> DEFINE n == Len(item) - 1
             F == givenOf(NoResult, item)
             T == {k \in 0 .. n : Blocked(F[k])}
  <1>1. NoResult \in Writing /\ item # <<>>
    <2>1. <<>> \in Seq(Writes) /\ <<>> \in Seq(Int)
      OBVIOUS
    <2> QED BY <2>1 DEF NoResult, Writing, Value
  <1>2. /\ n \in Nat
        /\ \A k \in 0 .. n : F[k] = IF k = 0 THEN BlockHeader(NoResult, item[1]) ELSE BlockData(F[k - 1], item[k + 1])
        /\ \A k \in 0 .. n : F[k] \in Writing /\ item[k + 1] \in Nat
    <2>1. Len(item) \in Nat \ {0}
      BY <1>1, EmptySeq
    <2> QED BY <1>1, <2>1, GivenStep, GivenWriting
  <1>3. WriteResult(NoResult, item) = F[n]
    BY DEF WriteResult
  <1> HIDE DEF F, n
  <1>4. 0 \in T
    <2>1. 0 \in 0 .. n /\ item[1] \in Nat
      BY <1>2
    <2> QED BY <1>2, <2>1, HeaderBlocked
  <1>5. ASSUME NEW k \in 1 .. n, k - 1 \in T PROVE k \in T
    <2>1. F[k] = BlockData(F[k - 1], item[k + 1]) /\ F[k - 1] \in Writing /\ Blocked(F[k - 1]) /\ item[k + 1] \in Nat
      BY <1>2, <1>5
    <2> QED BY <2>1, DataBlocked
  <1>6. n \in T
    <2>1. 0 .. n \subseteq T
      <3> HIDE DEF T
      <3> QED BY <1>2, <1>4, <1>5, Induction
    <2> QED BY <1>2, <2>1
  <1>7. Blocked(F[n]) /\ F[n] \in Writing /\ (F[n].count > 0 \/ Len(F[n].text) = 1)
    BY <1>2, <1>3, <1>6
  <1>8. Begins(F[n].text[1])
    BY <1>7 DEF Blocked, Begins
  <1>9. F[n].count \in Nat /\ (F[n].count = 0 => Len(F[n].text) = 1)
    BY <1>7 DEF Writing
  <1> QED BY <1>3, <1>7, <1>8, <1>9 DEF Blocked, Answered

-----------------------------------------------------------------------------
(* One result by itself *)
LEMMA AloneResult ==
  ASSUME NEW item \in Seq(Nat)
  PROVE  Results(<<item>>) = WriteResult(NoResult, item)
  <1> DEFINE one == <<item>>
             W == writtenOf(one)
  <1>1. one \in Seq(Seq(Nat)) /\ Len(one) = 1 /\ one[1] = item
    OBVIOUS
  <1> HIDE DEF one
  <1>2. \A k \in 0 .. 1 : W[k] = IF k = 0 THEN NoResult ELSE WriteResult(W[k - 1], one[k])
    BY <1>1, WrittenStep
  <1> HIDE DEF W
  <1>3. W[0] = NoResult /\ W[1] = WriteResult(W[1 - 1], item)
    BY <1>1, <1>2
  <1>4. W[1] = WriteResult(NoResult, item)
    BY <1>3
  <1>5. Results(one) = W[1]
    BY <1>1 DEF Results, W
  <1> QED BY <1>4, <1>5 DEF one

(* What a callback writes, the results in turn *)
LEMMA ResultsAnswered ==
  ASSUME NEW results \in Seq(Seq(Nat)), BlockFirst(results)
  PROVE  Answered(Results(results))
  <1> DEFINE n == Len(results)
             F == writtenOf(results)
             T == {k \in 0 .. n : Answered(F[k])}
  <1>1. /\ n \in Nat
        /\ \A k \in 0 .. n : F[k] = IF k = 0 THEN NoResult ELSE WriteResult(F[k - 1], results[k])
        /\ \A k \in 0 .. n : F[k] \in Writing
    BY WrittenStep, WrittenWriting
  <1>2. \A k \in 1 .. n : /\ results[k] \in Seq(Nat)
                          /\ results[k] # Value =>
                               /\ k = 1
                               /\ \/ Results(<<results[k]>>).count > 0
                                  \/ Len(Results(<<results[k]>>).text) = 1
    BY DEF BlockFirst
  <1> HIDE DEF F, n
  <1>3. 0 \in T
    <2>1. F[0] = NoResult /\ 0 \in 0 .. n
      BY <1>1
    <2> QED BY <2>1, NothingAnswered
  <1>4. ASSUME NEW k \in 1 .. n, k - 1 \in T PROVE k \in T
    <2>1. F[k] = WriteResult(F[k - 1], results[k]) /\ F[k - 1] \in Writing /\ Answered(F[k - 1]) /\ k \in 0 .. n
      BY <1>1, <1>4
    <2>2. CASE results[k] = Value
      BY <2>1, <2>2, ValueAnswered
    <2>3. CASE results[k] # Value
      <3> DEFINE item == results[k]
      <3>1. /\ item \in Seq(Nat) /\ item # Value /\ k = 1
            /\ Results(<<item>>).count > 0 \/ Len(Results(<<item>>).text) = 1
        BY <1>2, <2>3
      <3>2. F[k] = WriteResult(NoResult, item)
        <4>1. F[0] = NoResult
          BY <1>1
        <4> QED BY <2>1, <3>1, <4>1
      <3> HIDE DEF item
      <3>3. WriteResult(NoResult, item).count > 0 \/ Len(WriteResult(NoResult, item).text) = 1
        <4>1. Results(<<item>>) = WriteResult(NoResult, item)
          BY <3>1, AloneResult
        <4> QED BY <3>1, <4>1
      <3> QED BY <2>1, <3>1, <3>2, <3>3, BlockAnswered
    <2> QED BY <2>2, <2>3
  <1>5. n \in T
    <2>1. 0 .. n \subseteq T
      <3> HIDE DEF T
      <3> QED BY <1>1, <1>3, <1>4, Induction
    <2> QED BY <1>1, <2>1
  <1> QED BY <1>5 DEF Results, F, n

-----------------------------------------------------------------------------
(* The answers of a line *)

(* What was written of the line is apart; while it is parsed, output_count
   tells what the next command may write. *)
AnswersInv ==
  /\ output \in Seq(Writes) /\ Apart(output)
  /\ pc = "parse" =>
       /\ output_count > 0 => output # <<>> /\ Owed(output) = 0
       /\ output_count = 0 =>
            output = <<>> \/ Separates(output[Len(output)]) \/ output[Len(output)].what = "block"

(* Nothing has been written of a line that has not been begun. *)
LEMMA OutputCleared ==
  ASSUME output' = <<>>, pc' = "parse" => output_count' = 0
  PROVE  AnswersInv'
  <1>1. output' \in Seq(Writes)
    OBVIOUS
  <1>2. Apart(output')
    BY NothingAnswered
  <1> QED BY <1>1, <1>2 DEF AnswersInv

(* A semicolon, if there was a result *)
LEMMA SemicolonApart ==
  ASSUME AnswersInv, pc = "parse", output_count \in Nat
  PROVE  LET t == output \o writeSemicolon
         IN  /\ t \in Seq(Writes) /\ Apart(t)
             /\ t = <<>> \/ Separates(t[Len(t)]) \/ t[Len(t)].what = "block"
  <1> DEFINE s == [what |-> ";", n |-> 0]
             t == output \o writeSemicolon
  <1>1. output \in Seq(Writes) /\ Apart(output)
    BY DEF AnswersInv
  <1>2. CASE output_count = 0
    <2>1. t = output
      <3>1. t = output \o <<>>
        BY <1>2 DEF writeSemicolon
      <3> QED BY <1>1, <3>1, ConcatEmptySeq
    <2>2. output = <<>> \/ Separates(output[Len(output)]) \/ output[Len(output)].what = "block"
      BY <1>2 DEF AnswersInv
    <2> HIDE DEF t
    <2> QED BY <1>1, <2>1, <2>2 DEF t
  <1>3. CASE output_count # 0
    <2>1. t = output \o <<s>> /\ output # <<>> /\ Owed(output) = 0
      <3>1. output_count > 0
        BY <1>3
      <3>2. writeSemicolon = <<s>>
        BY <3>1 DEF writeSemicolon, Written
      <3> QED BY <3>1, <3>2 DEF AnswersInv
    <2>2. s \in Writes /\ Separates(s) /\ ~ Begins(s) /\ s.what # "data"
      <3>1. s \in Writes
        BY ItemWrites
      <3> QED BY <3>1 DEF Separates, Begins
    <2> HIDE DEF s
    <2>3. Fits(output, s)
      BY <2>1, <2>2 DEF Fits
    <2> HIDE DEF t
    <2>4. t \in Seq(Writes) /\ Apart(t) /\ t[Len(t)] = s
      BY <1>1, <2>1, <2>2, <2>3, ItemFollows
    <2> QED BY <2>2, <2>4 DEF t
  <1> QED BY <1>2, <1>3

(* The answer of a command behind those of the others *)
LEMMA AnswerFollows ==
  ASSUME AnswersInv, pc = "parse", output_count \in Nat, NEW w \in Writing, Answered(w),
         output' = output \o writeSemicolon \o w.text, output_count' = w.count
  PROVE  AnswersInv'
  <1> DEFINE t == output \o writeSemicolon
             c == t \o w.text
  <1>1. /\ t \in Seq(Writes) /\ Apart(t)
        /\ t = <<>> \/ Separates(t[Len(t)]) \/ t[Len(t)].what = "block"
    BY SemicolonApart
  <1>2. output' = c
    OBVIOUS
  <1> HIDE DEF t
  <1>3. /\ w.text \in Seq(Writes) /\ w.count \in Nat
        /\ Apart(w.text)
        /\ w.text # <<>> => Begins(w.text[1])
        /\ w.count > 0 => w.text # <<>> /\ Owed(w.text) = 0
        /\ w.count = 0 => w.text = <<>> \/ w.text[Len(w.text)].what = "block"
    BY DEF Answered, Writing
  <1>4. CASE w.text = <<>>
    <2>1. c = t
      BY <1>1, <1>4, ConcatEmptySeq
    <2>2. w.count = 0
      BY <1>3, <1>4
    <2> HIDE DEF c
    <2> QED BY <1>1, <1>2, <2>1, <2>2 DEF AnswersInv
  <1>5. CASE w.text # <<>>
    <2>1. Begins(w.text[1])
      BY <1>3, <1>5
    <2>2. w.text[1].what # "data" /\ ~ Separates(w.text[1])
      BY <2>1 DEF Begins, Separates
    <2>3. Fits(t, w.text[1])
      BY <1>1, <2>2 DEF Fits
    <2>4. /\ c \in Seq(Writes) /\ Apart(c) /\ Owed(c) = Owed(w.text) /\ c # <<>>
          /\ c[Len(c)] = w.text[Len(w.text)]
      BY <1>1, <1>3, <1>5, <2>2, <2>3, ApartJoined
    <2> HIDE DEF c
    <2> QED BY <1>2, <1>3, <1>5, <2>4 DEF AnswersInv
  <1> QED BY <1>4, <1>5

(* What a command of the table writes *)
LEMMA CommandAnswers ==
  ASSUME BlocksFirst, AnswersInv, pc = "parse", output_count \in Nat,
         NEW header, Matching(header) # {}, NEW d, NEW first, NEW count,
         processCommand(Commands[Min(Matching(header))], d, first, count)
  PROVE  AnswersInv'
  <1> DEFINE k == Min(Matching(header))
             c == Commands[k]
             r == Callback(c, d, first)
             writes == IF r.ok THEN c.writes ELSE <<>>
             w == Results(writes)
  <1>1. c.writes \in Seq(Seq(Nat)) /\ BlockFirst(c.writes)
    <2>1. k \in DOMAIN Commands
      BY CommandMatched
    <2>2. c.writes \in Seq(Seq(Nat))
      BY CommandFound
    <2> QED BY <2>1, <2>2 DEF BlocksFirst
  <1>2. Finish(c, d, r, w, count)
    BY DEF processCommand
  <1>3. output' = output \o writeSemicolon \o w.text /\ output_count' = w.count
    <2> HIDE DEF c, r, w
    <2> QED BY <1>2 DEF Finish
  <1>4. writes \in Seq(Seq(Nat)) /\ BlockFirst(writes)
    <2>1. <<>> \in Seq(Seq(Nat)) /\ BlockFirst(<<>>)
      BY EmptySeq DEF BlockFirst
    <2> HIDE DEF r, c
    <2> QED BY <1>1, <2>1
  <1> HIDE DEF writes
  <1>5. w \in Writing /\ Answered(w)
    BY <1>4, ResultsWriting, ResultsAnswered
  <1> HIDE DEF w
  <1> QED BY <1>3, <1>5, AnswerFollows

(* A unit, whether it is a command or not *)
LEMMA UnitAnswers ==
  ASSUME BlocksFirst, InputInv, AnswersInv, ParseUnit
  PROVE  AnswersInv'
  <1> DEFINE s == SubSeq(buffer, 1, job.end)
             u == detectProgramMessageUnit(s, job.at)
             h == composeCompoundCommand(s, job.prev, u.header)
             header == Text(h.line, h.header)
             found == Matching(header)
             d == SubSeq(h.line, 1, u.data.first + u.data.len - 1)
  <1>1. pc = "parse" /\ pc' = pc /\ output_count \in Nat
    BY DEF ParseUnit, InputInv, Buffered, TypeOK
  <1>2. UNCHANGED <<output, output_count>> \/ ExecuteUnit(u, h, found)
    <2>1. HandleUnit(s, u)
      BY DEF ParseUnit
    <2> HIDE DEF s, u
    <2> QED BY <2>1 DEF HandleUnit, SkipUnit, NoCommand
  <1>3. CASE UNCHANGED <<output, output_count>>
    BY <1>1, <1>3 DEF AnswersInv
  <1>4. CASE ExecuteUnit(u, h, found)
    <2>1. \/ UNCHANGED <<output, output_count>>
          \/ found # {} /\ processCommand(Commands[Min(found)], d, u.data.first, u.count)
      <3> HIDE DEF s, u, h, found
      <3> QED BY <1>4 DEF ExecuteUnit, NoCommand
    <2>2. CASE found # {} /\ processCommand(Commands[Min(found)], d, u.data.first, u.count)
      <3> HIDE DEF s, u, h, header, d
      <3> QED BY <1>1, <2>2, CommandAnswers
    <2> QED BY <1>3, <2>1, <2>2
  <1> QED BY <1>2, <1>3, <1>4

(* The newline behind the last result *)
LEMMA EndAnswers ==
  ASSUME InputInv, AnswersInv, ParseEnd
  PROVE  AnswersInv'
  <1> DEFINE s == [what |-> "nl", n |-> 0]
             c == output \o <<s>>
  <1>1. pc = "parse" /\ pc' # "parse" /\ output' = (IF output_count > 0 THEN output \o Written("nl", 0) ELSE output)
    BY DEF ParseEnd
  <1>2. output \in Seq(Writes) /\ Apart(output)
    BY DEF AnswersInv
  <1>3. CASE output_count > 0
    <2>1. output' = c
      BY <1>1, <1>3 DEF Written
    <2>2. s \in Writes /\ ~ Begins(s) /\ s.what # "data"
      <3>1. s \in Writes
        BY ItemWrites
      <3> QED BY <3>1 DEF Begins
    <2>3. Owed(output) = 0
      BY <1>1, <1>3 DEF AnswersInv
    <2> HIDE DEF s
    <2>4. Fits(output, s)
      BY <2>2, <2>3 DEF Fits
    <2>5. c \in Seq(Writes) /\ Apart(c)
      BY <1>2, <2>2, <2>4, ItemFollows
    <2> HIDE DEF c
    <2> QED BY <1>1, <2>1, <2>5 DEF AnswersInv
  <1>4. CASE ~ (output_count > 0)
    BY <1>1, <1>2, <1>4 DEF AnswersInv
  <1> QED BY <1>3, <1>4

(* However the values, blocks and parts of blocks of the commands of a line
   follow each other, each is told from the next: by a delimiter, or by the
   length that its block announced, which is never exceeded, and is reached
   where a delimiter follows (parser.c:114, writeSemicolon; parser.c:628,
   SCPI_ResultArbitraryBlockData).  So for every command table in which a block
   is the first result of its command and is complete, or has no data. *)
THEOREM AnswersApart == ASSUME BlocksFirst PROVE Spec => []AnswersSeparated
  <1>1. Init => InputInv /\ AnswersInv
    <2>1. ASSUME Init PROVE AnswersInv
      <3>1. output = <<>> /\ pc # "parse"
        BY <2>1 DEF Init
      <3>2. output \in Seq(Writes) /\ Apart(output)
        BY <3>1, NothingAnswered
      <3> QED BY <3>1, <3>2 DEF AnswersInv
    <2> QED BY <2>1, InputInvInit
  <1>2. InputInv /\ AnswersInv /\ [Next]_vars => InputInv' /\ AnswersInv'
    <2> SUFFICES ASSUME InputInv, AnswersInv, [Next]_vars PROVE AnswersInv'
      BY InputInvNext
    <2>1. ASSUME NEW data \in Chunks, Input(data) \/ InputOverrun(data)
          PROVE  AnswersInv'
      <3>1. output' = <<>> /\ pc' # "parse"
        BY <2>1 DEF Input, InputOverrun
      <3> QED BY <3>1, OutputCleared
    <2>2. CASE InputEnd
      BY <2>2, OutputCleared DEF InputEnd, StartParse
    <2>3. CASE ScanUnit
      <3>1. \/ output' = <<>> /\ output_count' = 0
            \/ UNCHANGED output /\ pc' # "parse"
        <4> DEFINE u == detectProgramMessageUnit(buffer, totcmdlen + 1)
        <4>1. Scanned(u)
          BY <2>3 DEF ScanUnit
        <4> HIDE DEF u
        <4> QED BY <4>1 DEF Scanned, StartParse
      <3>2. CASE output' = <<>> /\ output_count' = 0
        BY <3>2, OutputCleared
      <3>3. CASE UNCHANGED output /\ pc' # "parse"
        BY <3>3 DEF AnswersInv
      <3> QED BY <3>1, <3>2, <3>3
    <2>4. CASE ParseUnit
      BY <2>4, UnitAnswers
    <2>5. CASE ParseEnd
      BY <2>5, EndAnswers
    <2>6. CASE UNCHANGED vars
      BY <2>6 DEF vars, AnswersInv
    <2> QED BY <2>1, <2>2, <2>3, <2>4, <2>5, <2>6 DEF Next
  <1>3. InputInv /\ AnswersInv => AnswersSeparated
    BY DEF AnswersInv, AnswersSeparated
  <1> QED BY <1>1, <1>2, <1>3, PTL DEF Spec
=============================================================================
