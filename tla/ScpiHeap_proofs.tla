--------------------------- MODULE ScpiHeap_proofs ---------------------------
(***************************************************************************)
(* The ring of texts for every size of the heap and of the error queue.     *)
(* The invariant says where every text stands: the texts of the queue one   *)
(* behind the other, in the order of the queue, and behind the last of them *)
(* wr and what is free.  All positions are below twice the size, so that a  *)
(* place in the ring is found by one subtraction (Wrap).                     *)
(***************************************************************************)
EXTENDS ScpiHeap, Recursion_proofs, SequenceTheorems

Wrap(x) == IF x < Size THEN x ELSE x - Size

(* The cell k behind position a *)
Spot(a, k) == Wrap(Wrap(a) + k)

Position == 0 .. 2 * Size - 1

Heap == [data : [Cell -> Letter \cup {Nul}], wr : Cell, count : 0 .. Size]

Entries == [text : Seq(Letter), ptr : Cell \cup {NULL}]

(* The text t and its final Nul stand in d from the cell p on. *)
Stands(d, p, t) ==
  \A k \in 0 .. Len(t) : d[Wrap(p + k)] = IF k < Len(t) THEN t[k + 1] ELSE Nul

-----------------------------------------------------------------------------
(* Positions of the ring *)

(* % Size is one subtraction at most. *)
LEMMA WrapMod ==
  ASSUME NEW x \in Position
  PROVE  x % Size = Wrap(x) /\ Wrap(x) \in Cell
  <1>1. Size \in Nat \ {0}
    BY HeapAssumption
  <1>2. CASE x < Size
    BY <1>1, <1>2 DEF Wrap, Cell, Position
  <1>3. CASE x >= Size
    <2>1. x = 1 * Size + (x - Size) /\ x - Size \in 0 .. Size - 1
      BY <1>1, <1>3 DEF Position
    <2>2. x % Size = x - Size
      BY <1>1, <2>1
    <2> QED BY <1>1, <1>3, <2>1, <2>2 DEF Wrap, Cell
  <1> QED BY <1>1, <1>2, <1>3 DEF Position

(* Different positions, less than a round apart, are different cells, *)
LEMMA SpotApart ==
  ASSUME NEW a \in Position, NEW b \in Position, NEW k \in Cell, NEW j \in Cell,
         b + j < a + k, a + k < b + j + Size
  PROVE  Spot(a, k) # Spot(b, j)
  BY HeapAssumption DEF Spot, Wrap, Position, Cell

(* and a round further is the same cell. *)
LEMMA SpotSame ==
  ASSUME NEW a \in Position, NEW b \in Position, NEW k \in Cell, NEW j \in Cell,
         a + k = b + j \/ a + k = b + j + Size
  PROVE  Spot(a, k) = Spot(b, j)
  BY HeapAssumption DEF Spot, Wrap, Position, Cell

(* A spot is a cell. *)
LEMMA SpotCell ==
  ASSUME NEW a \in Position, NEW k \in Cell
  PROVE  Spot(a, k) \in Cell /\ Wrap(a) \in Cell /\ Spot(a, 0) = Wrap(a)
  BY HeapAssumption DEF Spot, Wrap, Position, Cell

-----------------------------------------------------------------------------
(* The parts of a text *)

(* strnlen counts up to the first Nul, or to the end of the buffer. *)
LEMMA StrnlenAt ==
  ASSUME NEW h \in Heap, NEW i \in Cell, NEW n \in 0 .. Size - i,
         \A j \in i .. i + n - 1 : h.data[j] # Nul,
         i + n = Size \/ h.data[i + n] = Nul
  PROVE  strnlen(h, i) = n
  <1> DEFINE ends == {j \in i .. Size - 1 : h.data[j] = Nul}
  <1>1. Size \in Nat \ {0} /\ i \in 0 .. Size - 1
    BY HeapAssumption DEF Cell
  <1>2. strnlen(h, i) = IF ends = {} THEN Size - i ELSE Min(ends) - i
    BY DEF strnlen
  <1>3. \A j \in ends : j >= i + n
    BY <1>1
  <1>4. CASE i + n = Size
    <2>1. ends = {}
      BY <1>1, <1>3, <1>4
    <2> HIDE DEF ends
    <2> QED BY <1>1, <1>2, <1>4, <2>1
  <1>5. CASE i + n # Size
    <2>1. i + n \in ends /\ ends \in SUBSET Nat
      BY <1>1, <1>5
    <2>2. Min(ends) \in ends /\ \A m \in ends : Min(ends) <= m
      <3> HIDE DEF ends
      <3> QED BY <2>1, MinLeast
    <2> HIDE DEF ends
    <2>3. Min(ends) = i + n
      <3> DEFINE m == Min(ends)
      <3>1. m \in Nat /\ m >= i + n /\ m <= i + n
        BY <1>3, <2>1, <2>2
      <3> HIDE DEF m
      <3>2. m = i + n
        BY <1>1, <3>1
      <3> QED BY <3>2 DEF m
    <2> QED BY <1>1, <1>2, <2>1, <2>3
  <1> QED BY <1>4, <1>5

(* The heap h holds the text t at p. *)
Holds(h, p, t) == /\ h \in Heap /\ p \in Cell /\ t \in Seq(Letter)
                  /\ Len(t) \in 1 .. Size - 1 /\ Stands(h.data, p, t)

(* The cells of a text up to the end of the buffer *)
LEMMA FirstCells ==
  ASSUME NEW h, NEW p, NEW t, Holds(h, p, t), NEW j \in p .. Size - 1, j < p + Len(t)
  PROVE  h.data[j] = t[j - p + 1] /\ h.data[j] # Nul
  <1>1. /\ Size \in Nat \ {0} /\ p \in 0 .. Size - 1 /\ Len(t) \in Nat
        /\ \A k \in 1 .. Len(t) : t[k] # Nul
    BY HeapAssumption, LetterAssumption DEF Cell, Holds
  <1>2. j - p \in 0 .. Len(t) /\ j - p < Len(t) /\ p + (j - p) = j /\ Wrap(j) = j
        /\ j - p + 1 \in 1 .. Len(t)
    BY <1>1 DEF Wrap
  <1>3. h.data[Wrap(p + (j - p))] = t[j - p + 1]
    BY <1>2 DEF Stands, Holds
  <1>4. h.data[j] = t[j - p + 1]
    BY <1>2, <1>3
  <1> QED BY <1>1, <1>2, <1>4

(* and those at its beginning *)
LEMMA SecondCells ==
  ASSUME NEW h, NEW p, NEW t, Holds(h, p, t), NEW j \in 0 .. p + Len(t) - Size - 1
  PROVE  h.data[j] = t[j + Size - p + 1] /\ h.data[j] # Nul
  <1>1. /\ Size \in Nat \ {0} /\ p \in 0 .. Size - 1 /\ Len(t) \in Nat
        /\ \A k \in 1 .. Len(t) : t[k] # Nul
    BY HeapAssumption, LetterAssumption DEF Cell, Holds
  <1>2. /\ j + Size - p \in 0 .. Len(t) /\ j + Size - p < Len(t)
        /\ Wrap(p + (j + Size - p)) = j /\ j + Size - p + 1 \in 1 .. Len(t)
    BY <1>1 DEF Wrap
  <1>3. h.data[Wrap(p + (j + Size - p))] = t[j + Size - p + 1]
    BY <1>2 DEF Stands, Holds
  <1>4. h.data[j] = t[j + Size - p + 1]
    BY <1>2, <1>3
  <1> QED BY <1>1, <1>2, <1>4

(* The Nul behind it *)
LEMMA NulCell ==
  ASSUME NEW h, NEW p, NEW t, Holds(h, p, t)
  PROVE  h.data[Wrap(p + Len(t))] = Nul
  <1>1. /\ Size \in Nat \ {0} /\ p \in 0 .. Size - 1 /\ Len(t) \in 1 .. Size - 1
        /\ Len(t) \in 0 .. Len(t) /\ ~ (Len(t) < Len(t))
    BY HeapAssumption DEF Cell, Holds
  <1> QED BY <1>1 DEF Holds, Stands

(* scpiheap_get_parts finds the parts of a text, also where only its Nul is
   behind the end. *)
LEMMA OnePart ==
  ASSUME NEW h, NEW p, NEW t, Holds(h, p, t), p + Len(t) < Size
  PROVE  LET parts == scpiheap_get_parts(h, p)
         IN  parts.len1 = Len(t) /\ ~ parts.two /\ parts.len2 = 0
  <1>1. /\ Size \in Nat \ {0} /\ p \in 0 .. Size - 1 /\ Len(t) \in Nat /\ p \in Cell /\ h \in Heap
    BY HeapAssumption DEF Cell, Holds
  <1>2. Len(t) \in 0 .. Size - p
    BY <1>1
  <1>3. \A j \in p .. p + Len(t) - 1 : h.data[j] # Nul
    BY <1>1, FirstCells
  <1>4. h.data[p + Len(t)] = Nul
    <2>1. Wrap(p + Len(t)) = p + Len(t)
      BY DEF Wrap
    <2> QED BY <2>1, NulCell
  <1>5. strnlen(h, p) = Len(t)
    BY <1>1, <1>2, <1>3, <1>4, StrnlenAt
  <1>6. p + strnlen(h, p) # Size
    BY <1>1, <1>5
  <1> QED BY <1>5, <1>6 DEF scpiheap_get_parts

(* The same for a text that reaches the end of the buffer *)
LEMMA TwoParts ==
  ASSUME NEW h, NEW p, NEW t, Holds(h, p, t), p + Len(t) >= Size
  PROVE  LET parts == scpiheap_get_parts(h, p)
         IN  parts.len1 = Size - p /\ parts.two /\ parts.len2 = p + Len(t) - Size
  <1>1. /\ Size \in Nat \ {0} /\ p \in 0 .. Size - 1 /\ Len(t) \in 1 .. Size - 1 /\ p \in Cell /\ 0 \in Cell
        /\ h \in Heap
    BY HeapAssumption DEF Cell, Holds
  <1>2. Size - p \in 0 .. Size - p /\ p + (Size - p) = Size
    BY <1>1
  <1>3. \A j \in p .. p + (Size - p) - 1 : h.data[j] # Nul
    <2>1. ASSUME NEW j \in p .. p + (Size - p) - 1 PROVE h.data[j] # Nul
      <3>1. j \in p .. Size - 1 /\ j < p + Len(t)
        BY <1>1
      <3> QED BY <3>1, FirstCells
    <2> QED BY <2>1
  <1>4. strnlen(h, p) = Size - p
    BY <1>1, <1>2, <1>3, StrnlenAt
  <1>5. p + Len(t) - Size \in 0 .. Size - 0
    BY <1>1
  <1>6. \A j \in 0 .. 0 + (p + Len(t) - Size) - 1 : h.data[j] # Nul
    <2>1. ASSUME NEW j \in 0 .. 0 + (p + Len(t) - Size) - 1 PROVE h.data[j] # Nul
      <3>1. j \in 0 .. p + Len(t) - Size - 1
        BY <1>1
      <3> QED BY <3>1, SecondCells
    <2> QED BY <2>1
  <1>7. h.data[0 + (p + Len(t) - Size)] = Nul
    <2>1. Wrap(p + Len(t)) = 0 + (p + Len(t) - Size)
      BY <1>1 DEF Wrap
    <2> QED BY <2>1, NulCell
  <1>8. strnlen(h, 0) = p + Len(t) - Size
    BY <1>1, <1>5, <1>6, <1>7, StrnlenAt
  <1>9. p + strnlen(h, p) = Size
    BY <1>2, <1>4
  <1> QED BY <1>4, <1>8, <1>9 DEF scpiheap_get_parts

(* Sequences of the same length and elements are the same. *)
LEMMA SameSequence ==
  ASSUME NEW S, NEW T, NEW s \in Seq(S), NEW t \in Seq(T), Len(s) = Len(t),
         \A i \in 1 .. Len(t) : s[i] = t[i]
  PROVE  s = t
  OBVIOUS

(* What its parts give together is the text. *)
LEMMA TextRead ==
  ASSUME NEW h, NEW p, NEW t, Holds(h, p, t)
  PROVE  TextAt(h, p) = t
  <1> DEFINE data == [i \in 1 .. Size |-> h.data[i - 1]]
             C == Letter \cup {Nul}
  <1>1. /\ Size \in Nat \ {0} /\ p \in 0 .. Size - 1 /\ h.data \in [0 .. Size - 1 -> C]
        /\ t \in Seq(Letter) /\ Len(t) \in 1 .. Size - 1
    BY HeapAssumption DEF Cell, Heap, Holds
  <1>2. data \in Seq(C) /\ Len(data) = Size /\ \A i \in 1 .. Size : data[i] = h.data[i - 1]
    BY <1>1
  <1>3. CASE p + Len(t) < Size
    <2> DEFINE one == SubSeq(data, p + 1, p + Len(t))
    <2>1. Parts(h, p) = <<one>>
      BY <1>3, OnePart DEF Parts
    <2> HIDE DEF data, C
    <2>2. p + 1 \in 1 .. Len(data) + 1 /\ p + Len(t) \in p .. Len(data)
      BY <1>1, <1>2, <1>3
    <2>3. one \in Seq(C) /\ Len(one) = Len(t) /\ \A i \in 1 .. Len(t) : one[i] = data[p + i]
      BY <1>1, <1>2, <2>2, SubSeqProperties
    <2> HIDE DEF one
    <2>4. ASSUME NEW i \in 1 .. Len(t) PROVE one[i] = t[i]
      <3> DEFINE j == p + i - 1
      <3>1. p + i \in 1 .. Size /\ j \in p .. Size - 1 /\ j < p + Len(t) /\ j - p + 1 = i
        BY <1>1, <1>3
      <3>2. one[i] = h.data[j]
        BY <1>1, <1>2, <2>3, <3>1
      <3> HIDE DEF j
      <3>3. h.data[j] = t[j - p + 1]
        BY <3>1, FirstCells
      <3> QED BY <3>1, <3>2, <3>3
    <2>5. TextAt(h, p) = one
      BY <2>1 DEF TextAt
    <2>6. one = t
      BY <1>1, <2>3, <2>4, SameSequence
    <2> QED BY <2>5, <2>6
  <1>4. CASE p + Len(t) >= Size
    <2> DEFINE n == Size - p
               m == p + Len(t) - Size
               one == SubSeq(data, p + 1, p + n)
               two == SubSeq(data, 1, m)
    <2>1. Parts(h, p) = <<one, two>>
      BY <1>4, TwoParts DEF Parts
    <2> HIDE DEF data, C
    <2>2. n \in 1 .. Size /\ p + n = Size /\ m \in 0 .. Size /\ n + m = Len(t)
      BY <1>1, <1>4, SMTT(30)
    <2>3. one \in Seq(C) /\ Len(one) = n /\ \A i \in 1 .. n : one[i] = data[p + i]
      <3> HIDE DEF n
      <3>1. p + 1 \in 1 .. Len(data) + 1 /\ p + n \in p .. Len(data)
        BY <1>1, <1>2, <2>2
      <3> QED BY <1>1, <1>2, <2>2, <3>1, SubSeqProperties
    <2>4. two \in Seq(C) /\ Len(two) = m /\ \A i \in 1 .. m : two[i] = data[i]
      <3> HIDE DEF m
      <3> QED BY <1>1, <1>2, <2>2, SubSeqProperties
    <2> HIDE DEF one, two
    <2>5. ASSUME NEW i \in 1 .. n PROVE one[i] = t[i]
      <3> DEFINE j == p + i - 1
      <3>1. p + i \in 1 .. Size /\ j \in p .. Size - 1 /\ j < p + Len(t) /\ j - p + 1 = i
        BY <1>1, <1>4
      <3>2. one[i] = h.data[j]
        BY <1>1, <1>2, <2>3, <3>1, SMTT(30)
      <3> HIDE DEF j
      <3>3. h.data[j] = t[j - p + 1]
        BY <3>1, FirstCells
      <3> QED BY <3>1, <3>2, <3>3
    <2>6. ASSUME NEW i \in 1 .. m PROVE two[i] = t[n + i]
      <3>1. i \in 1 .. Size /\ i - 1 \in 0 .. p + Len(t) - Size - 1
            /\ (i - 1) + Size - p + 1 = n + i
        BY <1>1, <1>4
      <3>2. h.data[i - 1] = t[(i - 1) + Size - p + 1]
        BY <3>1, SecondCells
      <3> QED BY <1>2, <2>4, <3>1, <3>2
    <2> HIDE DEF n, m
    <2>7. /\ one \o two \in Seq(C) /\ Len(one \o two) = n + m
          /\ \A i \in 1 .. n + m : (one \o two)[i] = IF i <= n THEN one[i] ELSE two[i - n]
      <3>1. one \in Seq(C) /\ two \in Seq(C) /\ Len(one) = n /\ Len(two) = m
        BY <2>3, <2>4
      <3> QED BY <3>1, ConcatProperties
    <2>8. ASSUME NEW i \in 1 .. n + m PROVE (one \o two)[i] = t[i]
      <3>1. CASE i <= n
        BY <2>2, <2>5, <2>7, <3>1
      <3>2. CASE i > n
        <4> DEFINE k == i - n
        <4>1. k \in 1 .. m /\ n + k = i /\ ~ (i <= n)
          BY <2>2, <3>2
        <4>2. (one \o two)[i] = two[k]
          BY <2>7, <4>1
        <4> HIDE DEF k
        <4>3. two[k] = t[n + k]
          BY <2>6, <4>1
        <4> QED BY <4>1, <4>2, <4>3
      <3>3. i <= n \/ i > n
        BY <1>1, <2>2
      <3> QED BY <3>1, <3>2, <3>3
    <2>9. one \o two = t
      BY <1>1, <2>2, <2>7, <2>8, SameSequence
    <2> QED BY <2>1, <2>9 DEF TextAt
  <1> QED BY <1>1, <1>3, <1>4

-----------------------------------------------------------------------------
(* scpiheap_free *)

(* The cells of n characters from p on *)
Taking(p, n) == {Wrap(p + k) : k \in 0 .. n - 1}

Cleared(d, C) == [i \in Cell |-> IF i \in C THEN Nul ELSE d[i]]

(* scpiheap_free clears the text and its Nul, and no other cell, and counts
   them as free, whether they go over the end or not. *)
LEMMA TextFreed ==
  ASSUME NEW h, NEW p, NEW t, Holds(h, p, t), NEW rollback
  PROVE  scpiheap_free(h, p, rollback) =
           [data  |-> Cleared(h.data, Taking(p, Len(t) + 1)),
            wr    |-> WriteAt(h, Len(t) + 1, rollback),
            count |-> h.count + (Len(t) + 1)]
  <1> DEFINE parts  == scpiheap_get_parts(h, p)
             first  == p .. p + parts.len1 - (IF parts.two THEN 1 ELSE 0)
             second == IF parts.two THEN 0 .. parts.len2 ELSE {}
             freed  == parts.len1 + parts.len2 + 1
  <1>1. /\ Size \in Nat \ {0} /\ p \in 0 .. Size - 1 /\ Len(t) \in 1 .. Size - 1 /\ p \in Cell
    BY HeapAssumption DEF Cell, Holds
  <1>2. p # NULL /\ h.data[p] # Nul
    <2>1. p \in p .. Size - 1 /\ p < p + Len(t)
      BY <1>1
    <2> QED BY <1>1, <2>1, FirstCells DEF NULL
  <1>3. scpiheap_free(h, p, rollback) =
           [data  |-> [i \in Cell |-> IF i \in first \cup second THEN Nul ELSE h.data[i]],
            wr    |-> WriteAt(h, freed, rollback),
            count |-> h.count + freed]
    BY <1>2 DEF scpiheap_free
  <1>4. freed = Len(t) + 1 /\ \A i \in Cell : i \in first \cup second <=> i \in Taking(p, Len(t) + 1)
    <2>1. CASE p + Len(t) < Size
      <3>1. parts.len1 = Len(t) /\ ~ parts.two /\ parts.len2 = 0
        BY <2>1, OnePart
      <3>2. first = p .. p + Len(t) /\ second = {} /\ freed = Len(t) + 1
        BY <1>1, <3>1
      <3>3. ASSUME NEW i \in Cell PROVE i \in p .. p + Len(t) <=> i \in Taking(p, Len(t) + 1)
        <4>1. ASSUME i \in p .. p + Len(t) PROVE i \in Taking(p, Len(t) + 1)
          <5>1. i - p \in 0 .. (Len(t) + 1) - 1 /\ Wrap(p + (i - p)) = i
            BY <1>1, <2>1, <4>1 DEF Wrap
          <5> QED BY <5>1 DEF Taking
        <4>2. ASSUME i \in Taking(p, Len(t) + 1) PROVE i \in p .. p + Len(t)
          BY <1>1, <2>1, <4>2 DEF Taking, Wrap
        <4> QED BY <4>1, <4>2
      <3> QED BY <3>2, <3>3
    <2>2. CASE p + Len(t) >= Size
      <3>1. parts.len1 = Size - p /\ parts.two /\ parts.len2 = p + Len(t) - Size
        BY <2>2, TwoParts
      <3>2. first = p .. Size - 1 /\ second = 0 .. p + Len(t) - Size /\ freed = Len(t) + 1
        BY <1>1, <3>1
      <3>3. ASSUME NEW i \in Cell
            PROVE  i \in p .. Size - 1 \/ i \in 0 .. p + Len(t) - Size <=> i \in Taking(p, Len(t) + 1)
        <4>1. ASSUME i \in p .. Size - 1 PROVE i \in Taking(p, Len(t) + 1)
          <5>1. i - p \in 0 .. (Len(t) + 1) - 1 /\ Wrap(p + (i - p)) = i
            BY <1>1, <2>2, <4>1 DEF Wrap
          <5> QED BY <5>1 DEF Taking
        <4>2. ASSUME i \in 0 .. p + Len(t) - Size PROVE i \in Taking(p, Len(t) + 1)
          <5>1. i + Size - p \in 0 .. (Len(t) + 1) - 1 /\ Wrap(p + (i + Size - p)) = i
            BY <1>1, <2>2, <4>2 DEF Wrap
          <5> QED BY <5>1 DEF Taking
        <4>3. ASSUME i \in Taking(p, Len(t) + 1)
              PROVE  i \in p .. Size - 1 \/ i \in 0 .. p + Len(t) - Size
          BY <1>1, <2>2, <4>3 DEF Taking, Wrap
        <4> QED BY <4>1, <4>2, <4>3
      <3> HIDE DEF first, second
      <3> QED BY <3>2, <3>3
    <2> QED BY <1>1, <2>1, <2>2
  <1> HIDE DEF first, second, freed
  <1>5. [i \in Cell |-> IF i \in first \cup second THEN Nul ELSE h.data[i]] = Cleared(h.data, Taking(p, Len(t) + 1))
    BY <1>4 DEF Cleared
  <1> QED BY <1>3, <1>4, <1>5

-----------------------------------------------------------------------------
(* Where the texts of a queue stand *)

(* The entry e stands in the data d at position a, unless it has no text. *)
EntryAt(d, e, a) ==
  e.ptr # NULL => /\ e.ptr = Wrap(a) /\ e.text # <<>>
                  /\ Stands(d, Wrap(a), e.text)

(* The entries of q stand one behind the other at the positions at, and
   behind the last of them is wr, and what is free. *)
Layout(h, q, at) ==
  /\ h \in Heap /\ q \in Seq(Entries)
  /\ at \in [1 .. Len(q) + 1 -> Position] /\ at[1] \in Cell
  /\ \A i, j \in 1 .. Len(q) + 1 : i <= j => at[i] <= at[j]
  /\ \A i \in 1 .. Len(q) : at[i + 1] = at[i] + Used(q[i]) /\ EntryAt(h.data, q[i], at[i])
  /\ at[Len(q) + 1] + h.count = at[1] + Size
  /\ h.wr = Wrap(at[Len(q) + 1])
  /\ \A k \in 0 .. h.count - 1 : h.data[Wrap(h.wr + k)] = Nul

Arranged(h, q) == \E at : Layout(h, q, at)

(* An entry takes a number of characters. *)
LEMMA UsedNat ==
  ASSUME NEW e \in Entries
  PROVE  Used(e) \in Nat
  BY DEF Used, Entries

(* An entry with a text has it whole, and takes a character more than that. *)
LEMMA EntryHolds ==
  ASSUME NEW h, NEW q, NEW at, Layout(h, q, at), NEW i \in 1 .. Len(q), q[i].ptr # NULL
  PROVE  /\ Holds(h, q[i].ptr, q[i].text) /\ q[i].ptr = Wrap(at[i])
         /\ at[i] \in Position /\ at[i + 1] = at[i] + Len(q[i].text) + 1
         /\ at[i + 1] \in Position
         /\ Len(q[i].text) + 1 <= Size - h.count
         /\ Stands(h.data, Wrap(at[i]), q[i].text)
         /\ q[i].text \in Seq(Letter) /\ Len(q[i].text) \in 1 .. Size - 1
  <1> DEFINE n == Len(q)
             t == q[i].text
  <1>1. /\ q \in Seq(Entries) /\ n \in Nat /\ q[i] \in Entries /\ h \in Heap /\ Size \in Nat \ {0}
        /\ i \in 1 .. n + 1 /\ i + 1 \in 1 .. n + 1 /\ 1 \in 1 .. n + 1 /\ n + 1 \in 1 .. n + 1
    BY HeapAssumption DEF Layout
  <1>2. t \in Seq(Letter) /\ Len(t) \in Nat /\ t # <<>> /\ q[i].ptr = Wrap(at[i])
        /\ Stands(h.data, Wrap(at[i]), t)
    <2>1. EntryAt(h.data, q[i], at[i])
      BY DEF Layout
    <2>2. q[i].text \in Seq(Letter)
      BY <1>1 DEF Entries
    <2> QED BY <2>1, <2>2 DEF EntryAt
  <1>3. Len(t) \in Nat /\ Len(t) >= 1
    BY <1>2
  <1>4. /\ at[i] \in Position /\ at[i + 1] \in Position /\ at[1] \in Position /\ at[n + 1] \in Position
        /\ at[1] <= at[i] /\ at[i + 1] <= at[n + 1] /\ at[n + 1] + h.count = at[1] + Size
        /\ h.count \in 0 .. Size
    BY <1>1, SMTT(30) DEF Layout, Heap
  <1>5. at[i + 1] = at[i] + (Len(t) + 1)
    BY DEF Layout, Used
  <1> DEFINE a == at[i]
             b == at[i + 1]
             first == at[1]
             last == at[n + 1]
  <1>6. /\ Size \in Nat /\ h.count \in 0 .. Size /\ Len(t) \in Nat /\ Len(t) >= 1
        /\ a \in 0 .. 2 * Size - 1 /\ b \in 0 .. 2 * Size - 1
        /\ first \in 0 .. 2 * Size - 1 /\ last \in 0 .. 2 * Size - 1
        /\ first <= a /\ b <= last /\ last + h.count = first + Size /\ b = a + (Len(t) + 1)
    BY <1>1, <1>3, <1>4, <1>5 DEF Position
  <1> HIDE DEF t, n, a, b, first, last
  <1>7. Len(t) + 1 <= Size - h.count /\ Len(t) \in 1 .. Size - 1 /\ b = a + Len(t) + 1
    BY <1>6
  <1>8. Wrap(at[i]) \in Cell
    BY <1>4, WrapMod
  <1>9. Holds(h, q[i].ptr, t)
    BY <1>1, <1>2, <1>7, <1>8 DEF Holds
  <1>10. at[i + 1] = at[i] + Len(t) + 1
    BY <1>7 DEF a, b
  <1> QED BY <1>2, <1>4, <1>7, <1>9, <1>10 DEF t

(* A text stays when the cells change that it does not take. *)
LEMMA StandsStill ==
  ASSUME NEW d, NEW a \in Position, NEW t \in Seq(Letter), Len(t) \in 1 .. Size - 1,
         Stands(d, Wrap(a), t), NEW c, \A k \in 0 .. Len(t) : c[Spot(a, k)] = d[Spot(a, k)]
  PROVE  Stands(c, Wrap(a), t)
  BY DEF Stands, Spot

-----------------------------------------------------------------------------
(* What freeing a text leaves *)

(* Facts about the positions of a layout *)
LEMMA LayoutPositions ==
  ASSUME NEW h, NEW q, NEW at, Layout(h, q, at)
  PROVE  /\ Len(q) \in Nat /\ Size \in Nat \ {0} /\ h.count \in 0 .. Size /\ h.wr \in Cell
         /\ \A i \in 1 .. Len(q) + 1 : at[i] \in 0 .. 2 * Size - 1 /\ at[1] <= at[i] /\ at[i] <= at[Len(q) + 1]
         /\ at[1] \in 0 .. Size - 1 /\ at[Len(q) + 1] \in 0 .. 2 * Size - 1
         /\ at[Len(q) + 1] + h.count = at[1] + Size
         /\ h.data \in [Cell -> Letter \cup {Nul}]
  BY HeapAssumption DEF Layout, Heap, Position, Cell

(* Characters of a text and of one behind it are less than a round apart. *)
LEMMA Between ==
  ASSUME NEW S \in Nat, NEW a \in Nat, NEW b \in Nat, NEW k \in Nat, NEW j \in Nat,
         NEW m \in Nat, NEW n \in Nat, NEW first \in Nat, NEW last \in Nat,
         k <= m, j <= n, first <= a, b + n + 1 <= last, last <= first + S, a + m + 1 <= b
  PROVE  a + k < b + j /\ b + j < a + k + S
  OBVIOUS

(* A text keeps its place when another of the queue is freed. *)
LEMMA OthersStand ==
  ASSUME NEW h, NEW q, NEW at, Layout(h, q, at),
         NEW i \in 1 .. Len(q), NEW m \in 1 .. Len(q), i # m, q[i].ptr # NULL, q[m].ptr # NULL
  PROVE  EntryAt(Cleared(h.data, Taking(q[m].ptr, Len(q[m].text) + 1)), q[i], at[i])
  <1> DEFINE C == Taking(q[m].ptr, Len(q[m].text) + 1)
             t == q[i].text
             u == q[m].text
             a == at[i]
             b == at[m]
             last == at[Len(q) + 1]
             first == at[1]
             a1 == at[i + 1]
             b1 == at[m + 1]
  <1>1. /\ a \in Position /\ a1 \in Position /\ a1 = a + Len(t) + 1 /\ t \in Seq(Letter)
        /\ Len(t) \in 1 .. Size - 1 /\ Stands(h.data, Wrap(a), t)
    BY EntryHolds
  <1>2. /\ b \in Position /\ b1 \in Position /\ b1 = b + Len(u) + 1 /\ q[m].ptr = Wrap(b)
        /\ Len(u) \in 1 .. Size - 1
    BY EntryHolds
  <1>3. first <= a /\ a1 <= last /\ first <= b /\ b1 <= last /\ last <= first + Size
        /\ first \in 0 .. 2 * Size - 1 /\ last \in 0 .. 2 * Size - 1
    <2>1. i \in 1 .. Len(q) + 1 /\ i + 1 \in 1 .. Len(q) + 1 /\ m \in 1 .. Len(q) + 1 /\ m + 1 \in 1 .. Len(q) + 1
          /\ 1 \in 1 .. Len(q) + 1
      BY LayoutPositions
    <2>2. first <= a /\ a1 <= last
      BY <2>1, LayoutPositions
    <2>3. first <= b /\ b1 <= last
      BY <2>1, LayoutPositions
    <2>4. last \in 0 .. 2 * Size - 1 /\ first \in 0 .. Size - 1 /\ last + h.count = first + Size
          /\ h.count \in 0 .. Size /\ Size \in Nat \ {0}
      BY LayoutPositions
    <2> HIDE DEF first, last, a, b, a1, b1
    <2>5. last <= first + Size /\ first \in 0 .. 2 * Size - 1
      BY <2>4
    <2> QED BY <2>2, <2>3, <2>4, <2>5
  <1>4. a1 <= b \/ b1 <= a
    <2>1. i + 1 <= m \/ m + 1 <= i
      BY LayoutPositions
    <2>2. i + 1 \in 1 .. Len(q) + 1 /\ m + 1 \in 1 .. Len(q) + 1 /\ i \in 1 .. Len(q) + 1 /\ m \in 1 .. Len(q) + 1
      BY LayoutPositions
    <2> QED BY <2>1, <2>2 DEF Layout
  <1>5. q[i].ptr = Wrap(a) /\ q[i].text # <<>>
    BY EntryHolds DEF Layout, EntryAt
  <1> HIDE DEF t, u, a, b, last, first, a1, b1
  <1>6. ASSUME NEW k \in 0 .. Len(t) PROVE Spot(a, k) \notin C /\ Spot(a, k) \in Cell
    <2>1. Size \in Nat \ {0}
      BY HeapAssumption
    <2>2. k \in Cell
      BY <1>1, <2>1 DEF Cell
    <2>3. ASSUME NEW j \in 0 .. Len(u) PROVE Spot(a, k) # Spot(b, j)
      <3>1. j \in Cell
        BY <1>2, <2>1 DEF Cell
      <3>2. /\ a \in 0 .. 2 * Size - 1 /\ b \in 0 .. 2 * Size - 1 /\ a1 \in 0 .. 2 * Size - 1
            /\ b1 \in 0 .. 2 * Size - 1 /\ Len(t) \in Nat /\ Len(u) \in Nat
        BY <1>1, <1>2, <2>1, SMTT(30) DEF Position
      <3>3. /\ a \in Nat /\ b \in Nat /\ k \in Nat /\ j \in Nat /\ first \in Nat /\ last \in Nat
            /\ k <= Len(t) /\ j <= Len(u) /\ Size \in Nat
        BY <1>1, <1>2, <1>3, <2>1, <3>2
      <3>4. CASE a1 <= b
        <4>1. a + Len(t) + 1 <= b /\ b + Len(u) + 1 <= last
          BY <1>1, <1>2, <1>3, <3>4
        <4>2. a + k < b + j /\ b + j < a + k + Size
          BY <1>3, <3>2, <3>3, <4>1, Between
        <4> QED BY <1>1, <1>2, <2>2, <3>1, <4>2, SpotApart
      <3>5. CASE b1 <= a
        <4>1. b + Len(u) + 1 <= a /\ a + Len(t) + 1 <= last
          BY <1>1, <1>2, <1>3, <3>5
        <4>2. b + j < a + k /\ a + k < b + j + Size
          BY <1>3, <3>2, <3>3, <4>1, Between
        <4> QED BY <1>1, <1>2, <2>2, <3>1, <4>2, SpotApart
      <3> QED BY <1>4, <3>4, <3>5
    <2>4. C = {Spot(b, j) : j \in 0 .. Len(u)}
      <3>1. 0 .. (Len(u) + 1) - 1 = 0 .. Len(u)
        BY <1>2
      <3> QED BY <1>2, <3>1 DEF Taking, Spot, u
    <2>5. Spot(a, k) \in Cell
      BY <1>1, <2>2, SpotCell
    <2> QED BY <2>3, <2>4, <2>5
  <1> HIDE DEF C
  <1>7. Stands(Cleared(h.data, C), Wrap(a), t)
    <2>1. \A k \in 0 .. Len(t) : Cleared(h.data, C)[Spot(a, k)] = h.data[Spot(a, k)]
      BY <1>6 DEF Cleared
    <2> QED BY <1>1, <2>1, StandsStill
  <1> QED BY <1>5, <1>7 DEF EntryAt, t, a, C

(* When nothing is taken, wr goes back to the beginning. *)
LEMMA WrReset ==
  ASSUME NEW h, NEW q, NEW at, Layout(h, q, at), h.count = Size
  PROVE  Arranged([h EXCEPT !.wr = 0], q)
  <1> DEFINE n == Len(q)
             g == [h EXCEPT !.wr = 0]
             z == [i \in 1 .. n + 1 |-> 0]
  <1>1. /\ n \in Nat /\ Size \in Nat \ {0} /\ h \in Heap /\ q \in Seq(Entries) /\ h.wr \in 0 .. Size - 1
        /\ \A i \in 1 .. n + 1 : at[i] = at[1] /\ at[i] \in Nat
    <2>1. ASSUME NEW i \in 1 .. n + 1 PROVE at[i] = at[1] /\ at[i] \in Nat
      <3> DEFINE a == at[i]
                 first == at[1]
                 last == at[n + 1]
      <3>1. a \in 0 .. 2 * Size - 1 /\ first <= a /\ a <= last
        BY LayoutPositions
      <3>2. first \in 0 .. Size - 1 /\ last \in 0 .. 2 * Size - 1 /\ last + Size = first + Size
            /\ Size \in Nat \ {0}
        BY LayoutPositions
      <3> HIDE DEF a, first, last
      <3>3. a = first /\ a \in Nat
        BY <3>1, <3>2
      <3> QED BY <3>3 DEF a, first
    <2> QED BY <2>1, LayoutPositions DEF Layout, Cell
  <1>2. \A i \in 1 .. n : Used(q[i]) = 0 /\ q[i].ptr = NULL
    <2>1. ASSUME NEW i \in 1 .. n PROVE Used(q[i]) = 0
      <3> DEFINE u == Used(q[i])
      <3>1. i \in 1 .. n + 1 /\ i + 1 \in 1 .. n + 1 /\ q[i] \in Entries
        BY <1>1
      <3>2. at[i + 1] = at[i] + u /\ at[i + 1] = at[1] /\ at[i] = at[1] /\ at[1] \in Nat /\ u \in Nat
        BY <1>1, <3>1, UsedNat DEF Layout
      <3>3. at[1] = at[1] + u
        BY <3>2
      <3> HIDE DEF u
      <3>4. u = 0
        BY <3>2, <3>3
      <3> QED BY <3>4 DEF u
    <2>2. ASSUME NEW i \in 1 .. n, q[i].ptr # NULL PROVE FALSE
      <3>1. q[i].text \in Seq(Letter)
        <4>1. q[i] \in Entries
          BY <1>1
        <4> QED BY <4>1 DEF Entries
      <3>2. Used(q[i]) = Len(q[i].text) + 1 /\ Len(q[i].text) \in Nat
        BY <2>2, <3>1 DEF Used
      <3> QED BY <2>1, <3>2
    <2> QED BY <2>1, <2>2
  <1>3. g = [data |-> h.data, wr |-> 0, count |-> Size] /\ g \in Heap
    BY <1>1 DEF Heap, Cell
  <1>4. \A k \in 0 .. Size - 1 : h.data[Wrap(0 + k)] = Nul
    <2>1. ASSUME NEW k \in 0 .. Size - 1 PROVE h.data[Wrap(0 + k)] = Nul
      <3> DEFINE j == IF k >= h.wr THEN k - h.wr ELSE k - h.wr + Size
      <3>1. j \in 0 .. h.count - 1 /\ Wrap(h.wr + j) = Wrap(0 + k)
        BY <1>1 DEF Wrap
      <3> QED BY <3>1 DEF Layout
    <2> QED BY <2>1
  <1>5. z \in [1 .. n + 1 -> Position] /\ \A i \in 1 .. n + 1 : z[i] = 0
    BY <1>1 DEF Position
  <1>6. Wrap(0) = 0 /\ 0 \in Cell
    BY <1>1 DEF Wrap, Cell
  <1>7. 1 \in 1 .. n + 1 /\ n + 1 \in 1 .. n + 1 /\ \A i \in 1 .. n : i \in 1 .. n + 1 /\ i + 1 \in 1 .. n + 1
    BY <1>1
  <1> HIDE DEF z, g
  <1>8. Layout(g, q, z)
    <2>1. \A i \in 1 .. n : z[i + 1] = z[i] + Used(q[i]) /\ EntryAt(g.data, q[i], z[i])
      BY <1>2, <1>5, <1>7 DEF EntryAt
    <2>2. z[n + 1] + g.count = z[1] + Size /\ g.wr = Wrap(z[n + 1])
      BY <1>1, <1>3, <1>5, <1>6, <1>7
    <2>3. \A k \in 0 .. g.count - 1 : g.data[Wrap(g.wr + k)] = Nul
      BY <1>3, <1>4
    <2>4. \A i, j \in 1 .. n + 1 : i <= j => z[i] <= z[j]
      BY <1>5
    <2> QED BY <1>1, <1>3, <1>5, <1>6, <1>7, <2>1, <2>2, <2>3, <2>4 DEF Layout
  <1> QED BY <1>8 DEF Arranged, g

(* Front is one element shorter, *)
LEMMA FrontOf ==
  ASSUME NEW S, NEW q \in Seq(S), q # <<>>
  PROVE  /\ Len(q) \in Nat \ {0} /\ Front(q) \in Seq(S) /\ Len(Front(q)) = Len(q) - 1
         /\ \A i \in 1 .. Len(q) - 1 : Front(q)[i] = q[i]
         /\ Last(q) = q[Len(q)]
  <1> DEFINE m == Len(q) - 1
  <1>1. Len(q) \in Nat \ {0} /\ 1 \in 1 .. Len(q) + 1 /\ m \in 1 - 1 .. Len(q)
    OBVIOUS
  <1>2. Front(q) = SubSeq(q, 1, m) /\ Last(q) = q[Len(q)]
    BY DEF Front, Last
  <1> HIDE DEF m
  <1>3. /\ SubSeq(q, 1, m) \in Seq(S)
        /\ Len(SubSeq(q, 1, m)) = m
        /\ \A i \in 1 .. m : SubSeq(q, 1, m)[i] = q[i]
    BY <1>1
  <1> QED BY <1>1, <1>2, <1>3 DEF m

(* and the same for Tail *)
LEMMA TailOf ==
  ASSUME NEW S, NEW q \in Seq(S), q # <<>>
  PROVE  /\ Len(q) \in Nat \ {0} /\ Tail(q) \in Seq(S) /\ Len(Tail(q)) = Len(q) - 1
         /\ \A i \in 1 .. Len(q) - 1 : Tail(q)[i] = q[i + 1]
         /\ Head(q) = q[1]
  OBVIOUS

(* Two positions of the same cell *)
LEMMA EntryMoved ==
  ASSUME NEW d, NEW e, NEW a, NEW b, EntryAt(d, e, a), Wrap(a) = Wrap(b)
  PROVE  EntryAt(d, e, b)
  BY DEF EntryAt

(* The heap when the text of the entry e is freed, with wr at w *)
WithoutText(h, e, w) ==
  [data |-> Cleared(h.data, Taking(e.ptr, Len(e.text) + 1)), wr |-> w, count |-> h.count + (Len(e.text) + 1)]

(* It is a heap, with the characters of the text counted as free, and the
   other entries are where they were. *)
LEMMA WithoutTextHeap ==
  ASSUME NEW h, NEW q, NEW at, Layout(h, q, at), NEW m \in 1 .. Len(q), q[m].ptr # NULL, NEW w \in Cell
  PROVE  LET g == WithoutText(h, q[m], w)
         IN  /\ g \in Heap /\ g.wr = w /\ g.count = h.count + (Len(q[m].text) + 1)
             /\ g.data = Cleared(h.data, Taking(q[m].ptr, Len(q[m].text) + 1))
             /\ \A i \in 1 .. Len(q) : i # m => EntryAt(g.data, q[i], at[i])
  <1> DEFINE C == Taking(q[m].ptr, Len(q[m].text) + 1)
             n == Len(q[m].text) + 1
             g == WithoutText(h, q[m], w)
  <1>1. g.wr = w /\ g.count = h.count + n /\ g.data = Cleared(h.data, C)
    BY DEF WithoutText
  <1>2. h.data \in [Cell -> Letter \cup {Nul}]
    BY LayoutPositions
  <1>3. h.count + n \in 0 .. Size
    <2>1. Len(q[m].text) \in 1 .. Size - 1 /\ Len(q[m].text) + 1 <= Size - h.count
      BY EntryHolds
    <2> QED BY <2>1, LayoutPositions, SMTT(30)
  <1>4. Cleared(h.data, C) \in [Cell -> Letter \cup {Nul}]
    <2> HIDE DEF C
    <2> QED BY <1>2 DEF Cleared
  <1>5. g \in Heap
    <2> HIDE DEF C, n
    <2>1. g = [data |-> Cleared(h.data, C), wr |-> w, count |-> h.count + n]
      BY DEF WithoutText, C, n
    <2> HIDE DEF g
    <2> QED BY <1>3, <1>4, <2>1 DEF Heap
  <1>6. \A i \in 1 .. Len(q) : i # m => EntryAt(Cleared(h.data, C), q[i], at[i])
    <2>1. ASSUME NEW i \in 1 .. Len(q), i # m, q[i].ptr # NULL
          PROVE  EntryAt(Cleared(h.data, C), q[i], at[i])
      BY <2>1, OthersStand
    <2>2. ASSUME NEW i \in 1 .. Len(q), q[i].ptr = NULL
          PROVE  EntryAt(Cleared(h.data, C), q[i], at[i])
      BY <2>2 DEF EntryAt
    <2> QED BY <2>1, <2>2
  <1> HIDE DEF C, n
  <1>7. \A i \in 1 .. Len(q) : i # m => EntryAt(g.data, q[i], at[i])
    BY <1>1, <1>6
  <1> HIDE DEF g
  <1> QED BY <1>1, <1>5, <1>7 DEF C, n, g

(* The text of the newest entry is freed, and wr goes back over it. *)
LEMMA LastFreed ==
  ASSUME NEW h, NEW q, NEW at, Layout(h, q, at), q # <<>>, q[Len(q)].ptr # NULL
  PROVE  Arranged(WithoutText(h, q[Len(q)], Wrap(at[Len(q)])), Front(q))
  <1> DEFINE n == Len(q)
             g == WithoutText(h, q[n], Wrap(at[n]))
             L == Len(q[n].text)
             last == at[n + 1]
             C == Taking(q[n].ptr, L + 1)
             z == [i \in 1 .. n |-> at[i]]
  <1>1. /\ q \in Seq(Entries) /\ n \in Nat \ {0} /\ n \in 1 .. n /\ n \in 1 .. n + 1 /\ 1 \in 1 .. n
        /\ at \in [1 .. n + 1 -> Position] /\ at[1] \in Cell /\ Size \in Nat \ {0}
    BY HeapAssumption DEF Layout
  <1>2. /\ Front(q) \in Seq(Entries) /\ Len(Front(q)) = n - 1
        /\ \A i \in 1 .. n - 1 : Front(q)[i] = q[i]
    BY <1>1, FrontOf
  <1>3. /\ at[n] \in Position /\ last = at[n] + L + 1 /\ last \in Position /\ L \in 1 .. Size - 1
        /\ q[n].ptr = Wrap(at[n])
    BY <1>1, EntryHolds
  <1>4. Wrap(at[n]) \in Cell
    BY <1>3, WrapMod
  <1>5. /\ g \in Heap /\ g.wr = Wrap(at[n]) /\ g.count = h.count + (L + 1) /\ g.data = Cleared(h.data, C)
        /\ \A i \in 1 .. n : i # n => EntryAt(g.data, q[i], at[i])
    BY <1>1, <1>4, WithoutTextHeap
  <1>6. z \in [1 .. n -> Position] /\ \A i \in 1 .. n : z[i] = at[i]
    BY <1>1
  <1>7. ASSUME NEW k \in 0 .. g.count - 1 PROVE g.data[Wrap(g.wr + k)] = Nul
    <2>1. h.count \in 0 .. Size /\ h.wr = Wrap(last) /\ \A j \in 0 .. h.count - 1 : h.data[Wrap(h.wr + j)] = Nul
      BY LayoutPositions DEF Layout
    <2>2. k \in 0 .. h.count + L /\ k \in Cell /\ g.count <= Size
      BY <1>1, <1>3, <1>5, <2>1 DEF Heap, Cell
    <2>3. Wrap(g.wr + k) = Spot(at[n], k) /\ Spot(at[n], k) \in Cell
      BY <1>3, <1>5, <2>2, SpotCell DEF Spot
    <2>4. CASE k <= L
      <3>1. Spot(at[n], k) \in C
        <4>1. k \in 0 .. (L + 1) - 1
          BY <1>3, <2>2, <2>4
        <4> QED BY <1>3, <4>1 DEF Taking, Spot
      <3> HIDE DEF C
      <3> QED BY <1>5, <2>3, <3>1 DEF Cleared
    <2>5. CASE k > L
      <3> DEFINE j == k - (L + 1)
      <3>1. j \in 0 .. h.count - 1 /\ j \in Cell
        BY <1>1, <1>3, <2>1, <2>2, <2>5, SMTT(30) DEF Cell
      <3>2. at[n] + k = last + j
        BY <1>1, <1>3, <2>2 DEF Position
      <3> HIDE DEF j
      <3>3. Spot(at[n], k) = Spot(last, j)
        BY <1>3, <2>2, <3>1, <3>2, SpotSame
      <3>4. h.data[Spot(last, j)] = Nul
        BY <2>1, <3>1 DEF Spot
      <3> HIDE DEF C
      <3> QED BY <1>5, <2>3, <3>3, <3>4 DEF Cleared
    <2> QED BY <1>3, <2>2, <2>4, <2>5
  <1>8. at[n] + g.count = at[1] + Size
    <2> DEFINE x == at[n]
               first == at[1]
    <2>1. /\ last + h.count = first + Size /\ h.count \in 0 .. Size /\ last = x + L + 1 /\ L \in 1 .. Size - 1
          /\ first \in 0 .. Size - 1 /\ x \in 0 .. 2 * Size - 1 /\ Size \in Nat \ {0}
      BY <1>3, LayoutPositions DEF Position
    <2> HIDE DEF x, first, last, L
    <2>2. x + (h.count + (L + 1)) = first + Size
      BY <2>1
    <2> QED BY <1>5, <2>2 DEF x, first
  <1>9. /\ \A i \in 1 .. n - 1 : i \in 1 .. n /\ i + 1 \in 1 .. n /\ i # n
        /\ (n - 1) + 1 = n
        /\ \A i \in 1 .. n : i \in 1 .. n + 1
    BY <1>1
  <1> HIDE DEF g, z
  <1>10. \A i \in 1 .. n - 1 : z[i + 1] = z[i] + Used(Front(q)[i]) /\ EntryAt(g.data, Front(q)[i], z[i])
    BY <1>2, <1>5, <1>6, <1>9 DEF Layout
  <1>11. \A i, j \in 1 .. n : i <= j => z[i] <= z[j]
    BY <1>6, <1>9 DEF Layout
  <1>12. Layout(g, Front(q), z)
    BY <1>1, <1>2, <1>5, <1>6, <1>7, <1>8, <1>9, <1>10, <1>11 DEF Layout
  <1> QED BY <1>12 DEF Arranged, g

(* The text of the oldest entry is freed, and wr stays where it is. *)
LEMMA HeadFreed ==
  ASSUME NEW h, NEW q, NEW at, Layout(h, q, at), q # <<>>, q[1].ptr # NULL
  PROVE  Arranged(WithoutText(h, q[1], h.wr), Tail(q))
  <1> DEFINE n == Len(q)
             g == WithoutText(h, q[1], h.wr)
             L == Len(q[1].text)
             first == at[1]
             last == at[n + 1]
             C == Taking(q[1].ptr, L + 1)
             c == IF at[2] >= Size THEN Size ELSE 0
             z == [i \in 1 .. n |-> at[i + 1] - c]
  <1>1. /\ q \in Seq(Entries) /\ n \in Nat \ {0} /\ Size \in Nat \ {0}
        /\ 1 \in 1 .. n /\ n \in 1 .. n /\ 1 \in 1 .. n + 1 /\ 2 \in 1 .. n + 1 /\ n + 1 \in 1 .. n + 1
        /\ at \in [1 .. n + 1 -> Position] /\ first \in Cell /\ h.wr \in Cell
        /\ \A i \in 1 .. n : i + 1 \in 1 .. n + 1
    BY HeapAssumption DEF Layout, Heap
  <1>2. /\ Tail(q) \in Seq(Entries) /\ Len(Tail(q)) = n - 1
        /\ \A i \in 1 .. n - 1 : Tail(q)[i] = q[i + 1]
    BY <1>1, TailOf
  <1>3. /\ first \in Position /\ at[2] = first + L + 1 /\ L \in 1 .. Size - 1 /\ q[1].ptr = Wrap(first)
        /\ at[2] \in Position
    <2>1. at[1 + 1] = at[2]
      OBVIOUS
    <2> QED BY <1>1, <2>1, EntryHolds
  <1>4. /\ g \in Heap /\ g.wr = h.wr /\ g.count = h.count + (L + 1) /\ g.data = Cleared(h.data, C)
        /\ \A i \in 1 .. n : i # 1 => EntryAt(g.data, q[i], at[i])
    BY <1>1, WithoutTextHeap
  <1>5. /\ h.count \in 0 .. Size /\ h.wr = Wrap(last) /\ last \in Position
        /\ last + h.count = first + Size
        /\ \A j \in 0 .. h.count - 1 : h.data[Wrap(h.wr + j)] = Nul
    BY <1>1, LayoutPositions DEF Layout, Position
  <1>6. ASSUME NEW i \in 1 .. n
        PROVE  z[i] = at[i + 1] - c /\ z[i] \in Position /\ Wrap(z[i]) = Wrap(at[i + 1])
    <2> DEFINE a == at[i + 1]
    <2>1. a \in 0 .. 2 * Size - 1 /\ at[2] <= a /\ at[2] \in 0 .. 2 * Size - 1
      <3>1. 2 <= i + 1 /\ i + 1 \in 1 .. n + 1
        BY <1>1
      <3> QED BY <1>1, <1>3, <3>1 DEF Layout, Position
    <2>2. z[i] = a - c
      OBVIOUS
    <2> HIDE DEF a, z
    <2>3. a - c \in 0 .. 2 * Size - 1 /\ Wrap(a - c) = Wrap(a)
      BY <1>1, <2>1 DEF Wrap
    <2> QED BY <2>2, <2>3 DEF a, Position
  <1>7. ASSUME NEW k \in 0 .. g.count - 1 PROVE g.data[Wrap(g.wr + k)] = Nul
    <2> DEFINE m == h.count
    <2>0. /\ m \in 0 .. Size /\ L \in 1 .. Size - 1 /\ Size \in Nat \ {0} /\ m + (L + 1) \in 0 .. Size
          /\ k \in 0 .. m + (L + 1) - 1 /\ last + m = first + Size
          /\ first \in 0 .. 2 * Size - 1 /\ last \in 0 .. 2 * Size - 1
      BY <1>1, <1>3, <1>4, <1>5, SMTT(30) DEF Heap, Position
    <2>1. k \in 0 .. m + L /\ k \in Cell
      <3> HIDE DEF m, L, first, last
      <3> QED BY <2>0 DEF Cell
    <2>2. Wrap(g.wr + k) = Spot(last, k) /\ Spot(last, k) \in Cell
      BY <1>4, <1>5, <2>1, SpotCell DEF Spot
    <2>3. CASE k < m
      <3>1. k \in 0 .. m - 1
        <4> HIDE DEF m, L, first, last
        <4> QED BY <2>0, <2>1, <2>3
      <3>2. h.data[Spot(last, k)] = Nul
        BY <1>5, <3>1 DEF Spot
      <3> HIDE DEF C
      <3> QED BY <1>4, <2>2, <3>2 DEF Cleared
    <2>4. CASE k >= m
      <3> DEFINE j == k - m
      <3>1. j \in 0 .. (L + 1) - 1 /\ j \in Cell /\ last + k = first + j + Size
        <4> HIDE DEF m, L, first, last
        <4> QED BY <2>0, <2>4 DEF Cell
      <3> HIDE DEF j
      <3>3. Spot(last, k) = Spot(first, j)
        BY <1>3, <1>5, <2>1, <3>1, SpotSame
      <3>4. Spot(first, j) \in C
        BY <1>3, <3>1 DEF Taking, Spot
      <3> HIDE DEF C
      <3> QED BY <1>4, <2>2, <3>3, <3>4 DEF Cleared
    <2> QED BY <2>0, <2>3, <2>4
  <1>8. z[1] = at[2] - c /\ z[n] = last - c /\ z[1] \in Cell
    <2>1. z[1] = at[1 + 1] - c /\ z[n] = last - c
      BY <1>1
    <2>2. 1 + 1 = 2
      OBVIOUS
    <2>3. at[2] \in 0 .. 2 * Size - 1
      BY <1>3 DEF Position
    <2>4. at[2] - c \in 0 .. Size - 1
      BY <1>1, <2>3
    <2> QED BY <2>1, <2>2, <2>4 DEF Cell
  <1>9. z[n] + g.count = z[1] + Size /\ g.wr = Wrap(z[n])
    <2> DEFINE x == at[2]
    <2>1. /\ last + h.count = first + Size /\ h.count \in 0 .. Size /\ x = first + L + 1 /\ L \in 1 .. Size - 1
          /\ last \in 0 .. 2 * Size - 1 /\ first \in 0 .. 2 * Size - 1 /\ c \in 0 .. Size /\ Size \in Nat \ {0}
      BY <1>1, <1>3, <1>5 DEF Position
    <2>2. z[n] = last - c /\ z[1] = x - c /\ g.count = h.count + (L + 1)
      BY <1>4, <1>8
    <2>3. Wrap(z[n]) = Wrap(last)
      BY <1>1, <1>6
    <2> HIDE DEF x, first, last, L, c, z
    <2> DEFINE m == h.count
    <2>4. (last - c) + (m + (L + 1)) = (x - c) + Size
      <3>1. /\ last + m = first + Size /\ m \in 0 .. Size /\ x = first + L + 1 /\ L \in Nat
            /\ last \in Nat /\ first \in Nat /\ c \in Nat /\ Size \in Nat
        BY <2>1
      <3> HIDE DEF m
      <3>2. m \in Nat /\ x \in Nat
        BY <3>1
      <3>3. (last - c) + (m + (L + 1)) = (last + m) + (L + 1) - c
        BY <3>1, <3>2
      <3>4. (x - c) + Size = (first + Size) + (L + 1) - c
        BY <3>1, <3>2
      <3> QED BY <3>1, <3>3, <3>4
    <2> QED BY <1>4, <1>5, <2>2, <2>3, <2>4
  <1>10. \A i, j \in 1 .. n : i <= j => z[i] <= z[j]
    <2>1. ASSUME NEW i \in 1 .. n, NEW j \in 1 .. n, i <= j PROVE z[i] <= z[j]
      <3> DEFINE x == at[i + 1]
                 y == at[j + 1]
      <3>1. i + 1 \in 1 .. n + 1 /\ j + 1 \in 1 .. n + 1 /\ i + 1 <= j + 1
        BY <1>1, <2>1
      <3>2. x <= y /\ x \in 0 .. 2 * Size - 1 /\ y \in 0 .. 2 * Size - 1
        BY <1>1, <3>1 DEF Layout, Position
      <3>3. z[i] = x - c /\ z[j] = y - c /\ c \in 0 .. Size
        BY <1>1
      <3> HIDE DEF x, y, z, c
      <3> QED BY <1>1, <3>2, <3>3
    <2> QED BY <2>1
  <1>11. ASSUME NEW i \in 1 .. n - 1
         PROVE  z[i + 1] = z[i] + Used(Tail(q)[i]) /\ EntryAt(g.data, Tail(q)[i], z[i])
    <2> DEFINE m == i + 1
               e == q[m]
               x == at[m]
               y == at[m + 1]
    <2>1. i \in 1 .. n /\ m \in 1 .. n /\ m # 1 /\ m \in 1 .. n + 1 /\ m + 1 \in 1 .. n + 1
      BY <1>1
    <2>2. Tail(q)[i] = e /\ e \in Entries
      BY <1>1, <1>2, <2>1
    <2>3. y = x + Used(e) /\ Used(e) \in Nat /\ x \in 0 .. 2 * Size - 1 /\ y \in 0 .. 2 * Size - 1
      BY <1>1, <2>1, <2>2, UsedNat DEF Layout, Position
    <2>4. z[m] = y - c /\ z[i] = x - c /\ c \in 0 .. Size /\ Wrap(z[i]) = Wrap(x)
      <3>1. c \in 0 .. Size
        BY <1>1
      <3> HIDE DEF z, c
      <3> QED BY <1>6, <2>1, <3>1
    <2>5. EntryAt(g.data, e, x)
      BY <1>4, <2>1
    <2> HIDE DEF e, x, y, z, c, g
    <2>6. z[m] = z[i] + Used(e)
      BY <1>1, <2>3, <2>4
    <2>7. EntryAt(g.data, e, z[i])
      BY <2>4, <2>5, EntryMoved
    <2> QED BY <2>2, <2>6, <2>7
  <1>12. z \in [1 .. n -> Position]
    BY <1>1, <1>6
  <1>13. (n - 1) + 1 = n
    BY <1>1
  <1> HIDE DEF g, z, c
  <1>14. Layout(g, Tail(q), z)
    BY <1>1, <1>2, <1>4, <1>7, <1>8, <1>9, <1>10, <1>11, <1>12, <1>13 DEF Layout
  <1> QED BY <1>14 DEF Arranged, g

(* An entry without a text leaves the ring as it is. *)
LEMMA LastDropped ==
  ASSUME NEW h, NEW q, NEW at, Layout(h, q, at), q # <<>>, q[Len(q)].ptr = NULL
  PROVE  Arranged(h, Front(q))
  <1> DEFINE n == Len(q)
             z == [i \in 1 .. n |-> at[i]]
  <1>1. /\ q \in Seq(Entries) /\ n \in Nat \ {0} /\ n \in 1 .. n /\ 1 \in 1 .. n
        /\ at \in [1 .. n + 1 -> Position] /\ at[1] \in Cell
        /\ \A i \in 1 .. n - 1 : i \in 1 .. n /\ i + 1 \in 1 .. n
        /\ \A i \in 1 .. n : i \in 1 .. n + 1
        /\ (n - 1) + 1 = n
    BY DEF Layout
  <1>2. /\ Front(q) \in Seq(Entries) /\ Len(Front(q)) = n - 1
        /\ \A i \in 1 .. n - 1 : Front(q)[i] = q[i]
    BY <1>1, FrontOf
  <1>3. z \in [1 .. n -> Position] /\ \A i \in 1 .. n : z[i] = at[i]
    BY <1>1
  <1>4. at[n + 1] = at[n]
    <2>1. at[n + 1] = at[n] + 0 /\ at[n] \in Position
      BY <1>1 DEF Layout, Used
    <2> QED BY <2>1, HeapAssumption DEF Position
  <1> HIDE DEF z
  <1>5. \A i \in 1 .. n - 1 : z[i + 1] = z[i] + Used(Front(q)[i]) /\ EntryAt(h.data, Front(q)[i], z[i])
    BY <1>1, <1>2, <1>3 DEF Layout
  <1>6. \A i, j \in 1 .. n : i <= j => z[i] <= z[j]
    BY <1>1, <1>3 DEF Layout
  <1>7. Layout(h, Front(q), z)
    BY <1>1, <1>2, <1>3, <1>4, <1>5, <1>6 DEF Layout
  <1> QED BY <1>7 DEF Arranged

(* The same at the other end of the queue *)
LEMMA HeadDropped ==
  ASSUME NEW h, NEW q, NEW at, Layout(h, q, at), q # <<>>, q[1].ptr = NULL
  PROVE  Arranged(h, Tail(q))
  <1> DEFINE n == Len(q)
             z == [i \in 1 .. n |-> at[i + 1]]
  <1>1. /\ q \in Seq(Entries) /\ n \in Nat \ {0} /\ n \in 1 .. n /\ 1 \in 1 .. n /\ 2 \in 1 .. n + 1
        /\ at \in [1 .. n + 1 -> Position] /\ at[1] \in Cell
        /\ \A i \in 1 .. n - 1 : i \in 1 .. n /\ i + 1 \in 1 .. n
        /\ \A i \in 1 .. n : i \in 1 .. n + 1 /\ i + 1 \in 1 .. n + 1
        /\ (n - 1) + 1 = n /\ 1 + 1 = 2
    BY DEF Layout
  <1>2. /\ Tail(q) \in Seq(Entries) /\ Len(Tail(q)) = n - 1
        /\ \A i \in 1 .. n - 1 : Tail(q)[i] = q[i + 1]
    BY <1>1, TailOf
  <1>3. z \in [1 .. n -> Position] /\ \A i \in 1 .. n : z[i] = at[i + 1]
    BY <1>1
  <1>4. at[2] = at[1] /\ z[1] = at[1]
    <2>1. at[1 + 1] = at[1] + 0 /\ at[1] \in Position
      BY <1>1 DEF Layout, Used
    <2>2. at[2] = at[1]
      BY <1>1, <2>1, HeapAssumption DEF Position
    <2> QED BY <1>1, <1>3, <2>2
  <1> HIDE DEF z
  <1>5. \A i \in 1 .. n - 1 : z[i + 1] = z[i] + Used(Tail(q)[i]) /\ EntryAt(h.data, Tail(q)[i], z[i])
    BY <1>1, <1>2, <1>3 DEF Layout
  <1>6. \A i, j \in 1 .. n : i <= j => z[i] <= z[j]
    <2>1. ASSUME NEW i \in 1 .. n, NEW j \in 1 .. n, i <= j PROVE z[i] <= z[j]
      <3>1. i + 1 \in 1 .. n + 1 /\ j + 1 \in 1 .. n + 1 /\ i + 1 <= j + 1
        BY <1>1, <2>1
      <3>2. at[i + 1] <= at[j + 1]
        BY <3>1 DEF Layout
      <3> QED BY <1>3, <3>2
    <2> QED BY <2>1
  <1>7. Layout(h, Tail(q), z)
    BY <1>1, <1>2, <1>3, <1>4, <1>5, <1>6 DEF Layout
  <1> QED BY <1>7 DEF Arranged

(* NULL is no place of the ring. *)
LEMMA FreeNothing ==
  ASSUME NEW h, NEW rollback
  PROVE  scpiheap_free(h, NULL, rollback) = h
  BY DEF scpiheap_free

(* The heap that is free of texts may begin at 0 again. *)
LEMMA WithoutTextReset ==
  ASSUME NEW h, NEW e, NEW w, NEW q, Arranged(WithoutText(h, e, w), q),
         h.count + (Len(e.text) + 1) = Size
  PROVE  Arranged(WithoutText(h, e, 0), q)
  <1>1. PICK at : Layout(WithoutText(h, e, w), q, at)
    BY DEF Arranged
  <1>2. WithoutText(h, e, w).count = Size
    BY DEF WithoutText
  <1>3. [WithoutText(h, e, w) EXCEPT !.wr = 0] = WithoutText(h, e, 0)
    BY DEF WithoutText
  <1> QED BY <1>1, <1>2, <1>3, WrReset

(* scpiheap_free of the newest entry, as on an overflow of the queue *)
LEMMA FreeLast ==
  ASSUME NEW h, NEW q, Arranged(h, q), q # <<>>
  PROVE  Arranged(scpiheap_free(h, Last(q).ptr, TRUE), Front(q))
  <1>1. PICK at : Layout(h, q, at)
    BY DEF Arranged
  <1> DEFINE n == Len(q)
             e == q[n]
             L == Len(e.text)
             a == at[n]
             last == at[n + 1]
             g == scpiheap_free(h, e.ptr, TRUE)
  <1>2. Last(q) = e /\ n \in 1 .. n
    <2>1. q \in Seq(Entries)
      BY <1>1 DEF Layout
    <2>2. n \in Nat \ {0} /\ Last(q) = e
      BY <2>1, FrontOf
    <2> QED BY <2>2
  <1>3. CASE e.ptr = NULL
    BY <1>1, <1>2, <1>3, FreeNothing, LastDropped
  <1>4. CASE e.ptr # NULL
    <2>1. /\ Holds(h, e.ptr, e.text) /\ L \in 1 .. Size - 1 /\ a \in Position /\ last \in Position
          /\ last = a + L + 1
      BY <1>1, <1>2, <1>4, EntryHolds
    <2>2. g = WithoutText(h, e, WriteAt(h, L + 1, TRUE))
      BY <2>1, TextFreed DEF WithoutText
    <2>3. Arranged(WithoutText(h, e, Wrap(a)), Front(q))
      BY <1>1, <1>4, LastFreed
    <2>4. CASE h.count + (L + 1) = Size
      <3>1. WriteAt(h, L + 1, TRUE) = 0
        BY <2>4 DEF WriteAt
      <3> HIDE DEF g, e
      <3> QED BY <1>2, <2>2, <2>3, <2>4, <3>1, WithoutTextReset DEF g
    <2>5. CASE h.count + (L + 1) # Size
      <3>1. h.wr = Wrap(last) /\ Size \in Nat \ {0}
        BY <1>1, HeapAssumption DEF Layout
      <3>2. WriteAt(h, L + 1, TRUE) = (h.wr + Size - (L + 1)) % Size
        BY <2>5 DEF WriteAt
      <3> HIDE DEF a, last, L, g, e
      <3>3. h.wr + Size - (L + 1) \in Position /\ Wrap(h.wr + Size - (L + 1)) = Wrap(a)
        BY <2>1, <3>1 DEF Wrap, Position
      <3>4. WriteAt(h, L + 1, TRUE) = Wrap(a)
        BY <3>2, <3>3, WrapMod
      <3> QED BY <1>2, <2>2, <2>3, <3>4 DEF g
    <2> QED BY <2>4, <2>5
  <1> QED BY <1>3, <1>4

(* and of the oldest, as SCPI_SystemErrorNextQ and SCPI_ErrorClear do *)
LEMMA FreeFirst ==
  ASSUME NEW h, NEW q, Arranged(h, q), q # <<>>
  PROVE  Arranged(scpiheap_free(h, q[1].ptr, FALSE), Tail(q))
  <1>1. PICK at : Layout(h, q, at)
    BY DEF Arranged
  <1> DEFINE e == q[1]
             L == Len(e.text)
             g == scpiheap_free(h, e.ptr, FALSE)
  <1>2. 1 \in 1 .. Len(q)
    <2>1. q \in Seq(Entries)
      BY <1>1 DEF Layout
    <2> QED BY <2>1, TailOf
  <1>3. CASE e.ptr = NULL
    BY <1>1, <1>3, FreeNothing, HeadDropped
  <1>4. CASE e.ptr # NULL
    <2>1. Holds(h, e.ptr, e.text)
      BY <1>1, <1>2, <1>4, EntryHolds
    <2>2. g = WithoutText(h, e, WriteAt(h, L + 1, FALSE))
      BY <2>1, TextFreed DEF WithoutText
    <2>3. Arranged(WithoutText(h, e, h.wr), Tail(q))
      BY <1>1, <1>4, HeadFreed
    <2>4. CASE h.count + (L + 1) = Size
      <3>1. WriteAt(h, L + 1, FALSE) = 0
        BY <2>4 DEF WriteAt
      <3> HIDE DEF g, e
      <3> QED BY <2>2, <2>3, <2>4, <3>1, WithoutTextReset DEF g, e
    <2>5. CASE h.count + (L + 1) # Size
      <3>1. WriteAt(h, L + 1, FALSE) = h.wr
        BY <2>5 DEF WriteAt
      <3> HIDE DEF g, e
      <3> QED BY <2>2, <2>3, <3>1 DEF g, e
    <2> QED BY <2>4, <2>5
  <1> QED BY <1>3, <1>4

-----------------------------------------------------------------------------
(* scpiheap_strndup *)

(* The cell k behind wr is the one with offset k. *)
LEMMA OffsetAt ==
  ASSUME NEW w \in Cell, NEW k \in Cell
  PROVE  Wrap(w + k) \in Cell /\ (Wrap(w + k) + Size - w) % Size = k
  <1>1. Size \in Nat \ {0}
    BY HeapAssumption
  <1>2. Wrap(w + k) \in Cell
    BY <1>1 DEF Wrap, Cell
  <1>3. Wrap(w + k) + Size - w \in Position /\ Wrap(Wrap(w + k) + Size - w) = k
    BY <1>1 DEF Wrap, Cell, Position
  <1> QED BY <1>2, <1>3, WrapMod

(* The cells of the new text, and those that stay *)
LEMMA TextStored ==
  ASSUME NEW h \in Heap, NEW s \in Seq(Letter), ~ Refuses(h, s), NEW k \in Cell
  PROVE  scpiheap_strndup(h, s).data[Wrap(h.wr + k)] =
           IF k < Len(s) THEN s[k + 1]
           ELSE IF k = Len(s) THEN Nul ELSE h.data[Wrap(h.wr + k)]
  <1> DEFINE i == Wrap(h.wr + k)
             o == (i + Size - h.wr) % Size
  <1>1. h.wr \in Cell /\ Len(s) \in Nat /\ k \in Int
    BY HeapAssumption DEF Heap, Cell
  <1>2. i \in Cell /\ o = k
    BY <1>1, OffsetAt
  <1>3. scpiheap_strndup(h, s).data[i] =
          CASE o < Len(s) -> s[o + 1] [] o = Len(s) -> Nul [] OTHER -> h.data[i]
    <2> HIDE DEF i
    <2> QED BY <1>2 DEF scpiheap_strndup
  <1> HIDE DEF i, o
  <1>4. scpiheap_strndup(h, s).data[i] =
          CASE k < Len(s) -> s[k + 1] [] k = Len(s) -> Nul [] OTHER -> h.data[i]
    BY <1>2, <1>3
  <1>5. CASE k < Len(s)
    BY <1>1, <1>4, <1>5 DEF i
  <1>6. CASE k = Len(s)
    BY <1>1, <1>4, <1>6 DEF i
  <1>7. CASE k > Len(s)
    BY <1>1, <1>4, <1>7 DEF i
  <1> QED BY <1>1, <1>5, <1>6, <1>7

(* Every cell is some number of cells behind wr. *)
LEMMA CellBehind ==
  ASSUME NEW w \in Cell, NEW i \in Cell
  PROVE  \E k \in Cell : i = Wrap(w + k)
  <1> DEFINE k == IF i >= w THEN i - w ELSE i - w + Size
  <1>1. k \in Cell /\ i = Wrap(w + k)
    BY HeapAssumption DEF Cell, Wrap
  <1> QED BY <1>1

(* What is left is less by the text and its Nul, and wr is behind them. *)
LEMMA StoredHeap ==
  ASSUME NEW h \in Heap, NEW s \in Seq(Letter), ~ Refuses(h, s)
  PROVE  LET g == scpiheap_strndup(h, s)
         IN  /\ g \in Heap /\ g.wr = Wrap(h.wr + (Len(s) + 1)) /\ g.count = h.count - (Len(s) + 1)
             /\ Len(s) \in 1 .. Size - 1 /\ Len(s) + 1 <= h.count
  <1> DEFINE g == scpiheap_strndup(h, s)
             L == Len(s)
             D == [i \in Cell |-> CASE ((i + Size - h.wr) % Size) < Len(s) -> s[((i + Size - h.wr) % Size) + 1]
                                    [] ((i + Size - h.wr) % Size) = Len(s) -> Nul
                                    [] OTHER -> h.data[i]]
  <1>1. Size \in Nat \ {0} /\ h.wr \in 0 .. Size - 1 /\ h.count \in 0 .. Size
        /\ h.data \in [Cell -> Letter \cup {Nul}]
    BY HeapAssumption DEF Heap, Cell
  <1>2. s # <<>> /\ ~ (L + 1 > h.count) /\ L \in Nat
    BY DEF Refuses
  <1>3. L >= 1
    BY <1>2
  <1>4. L \in 1 .. Size - 1 /\ L + 1 <= h.count
    <2> HIDE DEF L
    <2> QED BY <1>1, <1>2, <1>3
  <1>5. g = [data |-> D, wr |-> (h.wr + (L + 1)) % Size, count |-> h.count - (L + 1)]
    BY DEF scpiheap_strndup
  <1> HIDE DEF D
  <1>6. (h.wr + (L + 1)) % Size = Wrap(h.wr + (L + 1)) /\ Wrap(h.wr + (L + 1)) \in Cell
    <2>1. h.wr + (L + 1) \in Position
      <3> HIDE DEF L
      <3> QED BY <1>1, <1>4 DEF Position
    <2> QED BY <2>1, WrapMod
  <1>7. D = g.data
    BY <1>5
  <1>8. D \in [Cell -> Letter \cup {Nul}]
    <2>1. ASSUME NEW i \in Cell PROVE D[i] \in Letter \cup {Nul}
      <3>1. PICK k \in Cell : i = Wrap(h.wr + k)
        BY <1>1, CellBehind DEF Cell
      <3>2. D[i] = IF k < L THEN s[k + 1] ELSE IF k = L THEN Nul ELSE h.data[i]
        BY <1>7, <3>1, TextStored
      <3>3. CASE k < L
        <4>1. k + 1 \in 1 .. Len(s)
          BY <1>1, <3>3 DEF Cell
        <4> QED BY <3>2, <3>3, <4>1
      <3> HIDE DEF L
      <3> QED BY <1>1, <3>2, <3>3
    <2>2. D = [i \in Cell |-> D[i]]
      BY DEF D
    <2> QED BY <2>1, <2>2
  <1>9. h.count - (L + 1) \in 0 .. Size
    <2> HIDE DEF L
    <2> QED BY <1>1, <1>4
  <1>10. g \in Heap
    <2> HIDE DEF g, L
    <2> QED BY <1>5, <1>6, <1>8, <1>9 DEF Heap
  <1> HIDE DEF g
  <1>11. g.wr = Wrap(h.wr + (L + 1)) /\ g.count = h.count - (L + 1)
    BY <1>5, <1>6
  <1> QED BY <1>4, <1>10, <1>11 DEF g

(* A text of the queue keeps its place when another is stored behind it. *)
LEMMA StoredBehind ==
  ASSUME NEW h, NEW q, NEW at, Layout(h, q, at), NEW s \in Seq(Letter), ~ Refuses(h, s),
         NEW i \in 1 .. Len(q)
  PROVE  EntryAt(scpiheap_strndup(h, s).data, q[i], at[i])
  <1> DEFINE g == scpiheap_strndup(h, s)
             t == q[i].text
             a == at[i]
             a1 == at[i + 1]
             last == at[Len(q) + 1]
             first == at[1]
             L == Len(s)
  <1>1. EntryAt(h.data, q[i], a)
    BY DEF Layout
  <1>2. CASE q[i].ptr = NULL
    BY <1>2 DEF EntryAt
  <1>3. CASE q[i].ptr # NULL
    <2>1. /\ a \in Position /\ a1 \in Position /\ a1 = a + Len(t) + 1 /\ t \in Seq(Letter)
          /\ Len(t) \in 1 .. Size - 1 /\ Stands(h.data, Wrap(a), t)
      BY <1>3, EntryHolds
    <2>2. /\ first \in 0 .. Size - 1 /\ last \in 0 .. 2 * Size - 1 /\ last + h.count = first + Size
          /\ h.count \in 0 .. Size /\ Size \in Nat \ {0} /\ first <= a /\ a1 <= last /\ h.wr = Wrap(last)
          /\ h \in Heap
      <3>1. i \in 1 .. Len(q) + 1 /\ i + 1 \in 1 .. Len(q) + 1
        BY LayoutPositions
      <3> QED BY <3>1, LayoutPositions DEF Layout
    <2>3. L \in 1 .. Size - 1 /\ L + 1 <= h.count
      BY <2>2, StoredHeap
    <2> DEFINE m == Len(t)
               c == h.count
    <2>4. /\ first \in Nat /\ last \in Nat /\ last <= 2 * Size - 1 /\ last + c = first + Size
          /\ c \in Nat /\ Size \in Nat /\ L \in Nat /\ L + 1 <= c /\ m \in Nat /\ m <= Size - 1 /\ a \in Nat
          /\ first <= a /\ a + m + 1 <= last
      <3>1. a \in 0 .. 2 * Size - 1 /\ m \in 1 .. Size - 1 /\ a1 = a + m + 1
        BY <2>1 DEF Position
      <3>2. /\ first \in 0 .. Size - 1 /\ last \in 0 .. 2 * Size - 1 /\ last + c = first + Size
            /\ c \in 0 .. Size /\ Size \in Nat \ {0} /\ first <= a /\ a1 <= last
        BY <2>2
      <3> HIDE DEF t, a, a1, last, first, L, g, m, c
      <3>3. L \in 1 .. Size - 1 /\ L + 1 <= c
        BY <2>3 DEF c
      <3> QED BY <3>1, <3>2, <3>3
    <2> HIDE DEF t, a, a1, last, first, L, g
    <2>5. ASSUME NEW k \in 0 .. Len(t) PROVE g.data[Spot(a, k)] = h.data[Spot(a, k)]
      <3>1. k \in Cell /\ k \in 0 .. m
        BY <2>1, <2>2 DEF Cell
      <3>2. Spot(a, k) \in Cell /\ h.wr \in Cell
        BY <2>1, <2>2, <3>1, SpotCell DEF Heap
      <3>3. PICK j \in Cell : Spot(a, k) = Wrap(h.wr + j)
        BY <3>2, CellBehind
      <3>4. last \in Position /\ Spot(a, k) = Spot(last, j)
        BY <2>2, <3>3 DEF Position, Spot
      <3>5. ~ (j <= L)
        <4>1. SUFFICES ASSUME j <= L PROVE FALSE
          OBVIOUS
        <4> HIDE DEF m, c
        <4>2. k \in Nat /\ j \in Nat
          BY <2>4, <3>1 DEF Cell
        <4>3. a + k < last + j /\ last + j < a + k + Size
          BY <2>4, <3>1, <4>1, <4>2
        <4> QED BY <2>1, <3>1, <3>4, <4>3, SpotApart
      <3>6. g.data[Wrap(h.wr + j)] = IF j < L THEN s[j + 1] ELSE IF j = L THEN Nul ELSE h.data[Wrap(h.wr + j)]
        BY <2>2, TextStored DEF g, L
      <3>7. ~ (j < L) /\ j # L
        BY <2>4, <3>5 DEF Cell
      <3> QED BY <3>3, <3>6, <3>7
    <2>6. Stands(g.data, Wrap(a), t)
      BY <2>1, <2>5, StandsStill
    <2> QED BY <1>1, <1>3, <2>6 DEF EntryAt, g, a, t
  <1> QED BY <1>2, <1>3

(* A sequence with one more element *)
LEMMA AppendOf ==
  ASSUME NEW S, NEW q \in Seq(S), NEW e \in S
  PROVE  /\ Append(q, e) \in Seq(S) /\ Len(Append(q, e)) = Len(q) + 1 /\ Len(q) \in Nat
         /\ \A i \in 1 .. Len(q) : Append(q, e)[i] = q[i]
         /\ Append(q, e)[Len(q) + 1] = e
  OBVIOUS

(* The positions of a queue with one more entry *)
LEMMA PositionsOf ==
  ASSUME NEW n \in Nat, NEW at \in [1 .. n + 1 -> Position], NEW p \in Position,
         \A i, j \in 1 .. n + 1 : i <= j => at[i] <= at[j], at[n + 1] <= p
  PROVE  LET z == [i \in 1 .. (n + 1) + 1 |-> IF i = (n + 1) + 1 THEN p ELSE at[i]]
         IN  /\ z \in [1 .. (n + 1) + 1 -> Position]
             /\ \A i \in 1 .. n + 1 : z[i] = at[i]
             /\ z[(n + 1) + 1] = p
             /\ \A i, j \in 1 .. (n + 1) + 1 : i <= j => z[i] <= z[j]
  <1> DEFINE z == [i \in 1 .. (n + 1) + 1 |-> IF i = (n + 1) + 1 THEN p ELSE at[i]]
  <1>1. \A i \in 1 .. n + 1 : i \in 1 .. (n + 1) + 1 /\ i # (n + 1) + 1
    OBVIOUS
  <1>2. \A i \in 1 .. (n + 1) + 1 : i = (n + 1) + 1 \/ i \in 1 .. n + 1
    OBVIOUS
  <1>3. z \in [1 .. (n + 1) + 1 -> Position]
    BY <1>2
  <1>4. (\A i \in 1 .. n + 1 : z[i] = at[i]) /\ z[(n + 1) + 1] = p
    BY <1>1
  <1> HIDE DEF z
  <1>5. ASSUME NEW i \in 1 .. (n + 1) + 1, NEW j \in 1 .. (n + 1) + 1, i <= j PROVE z[i] <= z[j]
    <2>1. CASE j \in 1 .. n + 1
      <3>1. i \in 1 .. n + 1
        BY <1>5, <2>1
      <3> QED BY <1>4, <1>5, <2>1, <3>1
    <2>2. CASE j = (n + 1) + 1 /\ i \in 1 .. n + 1
      <3> DEFINE x == at[i]
                 y == at[n + 1]
      <3>1. x <= y /\ y <= p /\ x \in 0 .. 2 * Size - 1 /\ y \in 0 .. 2 * Size - 1 /\ p \in 0 .. 2 * Size - 1
        BY <2>2 DEF Position
      <3>2. z[i] = x /\ z[j] = p
        BY <1>4, <2>2
      <3> HIDE DEF x, y
      <3>3. x <= p
        BY <3>1, HeapAssumption
      <3> QED BY <3>2, <3>3
    <2>3. CASE j = (n + 1) + 1 /\ i = (n + 1) + 1
      <3>1. p <= p
        BY HeapAssumption DEF Position
      <3> QED BY <1>4, <2>3, <3>1
    <2> QED BY <1>2, <2>1, <2>2, <2>3
  <1> QED BY <1>3, <1>4, <1>5 DEF z

(* An entry without a text takes nothing of the ring. *)
LEMMA NoTextAdded ==
  ASSUME NEW h, NEW q, Arranged(h, q), NEW e \in Entries, e.ptr = NULL
  PROVE  Arranged(h, Append(q, e))
  <1>1. PICK at : Layout(h, q, at)
    BY DEF Arranged
  <1> DEFINE n == Len(q)
             p == at[n + 1]
             r == Append(q, e)
             z == [i \in 1 .. (n + 1) + 1 |-> IF i = (n + 1) + 1 THEN p ELSE at[i]]
  <1>2. /\ r \in Seq(Entries) /\ Len(r) = n + 1 /\ n \in Nat /\ (\A i \in 1 .. n : r[i] = q[i]) /\ r[n + 1] = e
    BY <1>1, AppendOf DEF Layout
  <1>3. p \in Position /\ at[n + 1] <= p /\ Size \in Nat \ {0} /\ p \in Int
    BY <1>1, LayoutPositions DEF Position
  <1>4. /\ z \in [1 .. (n + 1) + 1 -> Position] /\ (\A i \in 1 .. n + 1 : z[i] = at[i]) /\ z[(n + 1) + 1] = p
        /\ \A i, j \in 1 .. (n + 1) + 1 : i <= j => z[i] <= z[j]
    <2>1. at \in [1 .. n + 1 -> Position] /\ \A i, j \in 1 .. n + 1 : i <= j => at[i] <= at[j]
      BY <1>1 DEF Layout
    <2> HIDE DEF n, p
    <2> QED BY <1>2, <1>3, <2>1, PositionsOf, SMTT(30)
  <1> HIDE DEF z
  <1>5. ASSUME NEW i \in 1 .. n + 1 PROVE z[i + 1] = z[i] + Used(r[i]) /\ EntryAt(h.data, r[i], z[i])
    <2>1. CASE i \in 1 .. n
      <3>1. i + 1 \in 1 .. n + 1
        BY <1>2, <2>1
      <3> QED BY <1>1, <1>2, <1>4, <2>1, <3>1 DEF Layout
    <2>2. CASE i = n + 1
      <3>1. Used(e) = 0 /\ EntryAt(h.data, e, p)
        BY DEF Used, EntryAt
      <3>2. z[i + 1] = p /\ z[i] = p
        BY <1>4, <2>2
      <3> QED BY <1>2, <1>3, <2>2, <3>1, <3>2
    <2> QED BY <1>2, <2>1, <2>2
  <1>6. 1 \in 1 .. n + 1 /\ n + 1 \in 1 .. n + 1
    BY <1>2
  <1> HIDE DEF r, p
  <1>7. Layout(h, r, z)
    BY <1>1, <1>2, <1>4, <1>5, <1>6 DEF Layout, p
  <1> QED BY <1>7 DEF Arranged, r

(* A text that is not refused stands behind those of the queue. *)
LEMMA TextAdded ==
  ASSUME NEW h, NEW q, Arranged(h, q), NEW s \in Seq(Letter), ~ Refuses(h, s)
  PROVE  Arranged(scpiheap_strndup(h, s), Append(q, Entry(h, s)))
  <1>1. PICK at : Layout(h, q, at)
    BY DEF Arranged
  <1> DEFINE n == Len(q)
             L == Len(s)
             first == at[1]
             last == at[n + 1]
             p == last + (L + 1)
             e == Entry(h, s)
             g == scpiheap_strndup(h, s)
             r == Append(q, e)
             z == [i \in 1 .. (n + 1) + 1 |-> IF i = (n + 1) + 1 THEN p ELSE at[i]]
  <1>2. /\ first \in 0 .. Size - 1 /\ last \in 0 .. 2 * Size - 1 /\ last + h.count = first + Size
        /\ h.count \in 0 .. Size /\ Size \in Nat \ {0} /\ h.wr = Wrap(last) /\ h \in Heap /\ h.wr \in Cell
        /\ \A k \in 0 .. h.count - 1 : h.data[Wrap(h.wr + k)] = Nul
    BY <1>1, LayoutPositions DEF Layout
  <1>3. /\ g \in Heap /\ g.wr = Wrap(h.wr + (L + 1)) /\ g.count = h.count - (L + 1)
        /\ L \in 1 .. Size - 1 /\ L + 1 <= h.count
    BY <1>2, StoredHeap
  <1>4. e = [text |-> s, ptr |-> h.wr] /\ e \in Entries /\ e.ptr = h.wr /\ e.text = s /\ e.ptr # NULL
    <2>1. h.wr # NULL
      BY <1>2 DEF Cell, NULL
    <2> QED BY <1>2, <2>1 DEF Entry, Place, Entries
  <1> HIDE DEF e
  <1>5. /\ r \in Seq(Entries) /\ Len(r) = n + 1 /\ n \in Nat /\ (\A i \in 1 .. n : r[i] = q[i]) /\ r[n + 1] = e
    BY <1>1, <1>4, AppendOf DEF Layout
  <1>6. /\ p \in Position /\ last <= p /\ last \in Position /\ g.wr = Wrap(p) /\ p + g.count = first + Size
    <2> DEFINE c == h.count
    <2>1. c \in 0 .. Size /\ last + c = first + Size /\ L + 1 <= c
      BY <1>2, <1>3
    <2>2. g.count = c - (L + 1) /\ g.wr = Wrap(Wrap(last) + (L + 1))
      BY <1>2, <1>3
    <2>3. /\ first \in 0 .. Size - 1 /\ last \in 0 .. 2 * Size - 1 /\ Size \in Nat \ {0}
          /\ L \in 1 .. Size - 1
      BY <1>2, <1>3
    <2> HIDE DEF c, L, first, last, g
    <2>4. p \in Position /\ last <= p /\ last \in Position
      BY <2>1, <2>3 DEF Position
    <2>5. Wrap(Wrap(last) + (L + 1)) = Wrap(p)
      BY <2>1, <2>3 DEF Wrap
    <2>6. p + (c - (L + 1)) = first + Size
      BY <2>1, <2>3
    <2> QED BY <2>2, <2>4, <2>5, <2>6
  <1>7. /\ z \in [1 .. (n + 1) + 1 -> Position] /\ (\A i \in 1 .. n + 1 : z[i] = at[i]) /\ z[(n + 1) + 1] = p
        /\ \A i, j \in 1 .. (n + 1) + 1 : i <= j => z[i] <= z[j]
    <2>1. at \in [1 .. n + 1 -> Position] /\ \A i, j \in 1 .. n + 1 : i <= j => at[i] <= at[j]
      BY <1>1 DEF Layout
    <2> HIDE DEF n, p, L
    <2> QED BY <1>5, <1>6, <2>1, PositionsOf, SMTT(30)
  <1> HIDE DEF z, g
  <1>8. Stands(g.data, Wrap(last), s)
    <2>1. ASSUME NEW k \in 0 .. Len(s)
          PROVE  g.data[Wrap(Wrap(last) + k)] = IF k < Len(s) THEN s[k + 1] ELSE Nul
      <3>1. k \in Cell /\ (k < L \/ k = L)
        BY <1>2, <1>3 DEF Cell
      <3>2. g.data[Wrap(h.wr + k)] = IF k < L THEN s[k + 1] ELSE IF k = L THEN Nul ELSE h.data[Wrap(h.wr + k)]
        BY <1>2, <3>1, TextStored DEF g
      <3> QED BY <1>2, <3>1, <3>2
    <2> QED BY <2>1 DEF Stands
  <1>9. ASSUME NEW i \in 1 .. n + 1 PROVE z[i + 1] = z[i] + Used(r[i]) /\ EntryAt(g.data, r[i], z[i])
    <2>1. CASE i \in 1 .. n
      <3>1. i + 1 \in 1 .. n + 1
        BY <1>5, <2>1
      <3>2. EntryAt(g.data, q[i], at[i])
        BY <1>1, <2>1, StoredBehind DEF g
      <3> QED BY <1>1, <1>5, <1>7, <2>1, <3>1, <3>2 DEF Layout
    <2>2. CASE i = n + 1
      <3>1. Used(e) = L + 1
        BY <1>4 DEF Used
      <3>2. s # <<>>
        BY DEF Refuses
      <3>3. EntryAt(g.data, e, last)
        BY <1>2, <1>4, <1>8, <3>2 DEF EntryAt
      <3>4. z[i + 1] = last + (L + 1) /\ z[i] = last
        BY <1>7, <2>2
      <3> QED BY <1>5, <2>2, <3>1, <3>3, <3>4
    <2> QED BY <1>5, <2>1, <2>2
  <1>10. ASSUME NEW k \in 0 .. g.count - 1 PROVE g.data[Wrap(g.wr + k)] = Nul
    <2> DEFINE j == (L + 1) + k
               c == h.count
               d == g.count
    <2>1. d = c - (L + 1) /\ c \in 0 .. Size /\ k \in 0 .. d - 1 /\ L \in 1 .. Size - 1 /\ Size \in Nat \ {0} /\ L + 1 <= c
      BY <1>2, <1>3
    <2>2. j \in 0 .. c - 1 /\ j \in Cell /\ k \in Cell /\ ~ (j < L) /\ j # L /\ last + j = p + k
      <3>1. last \in 0 .. 2 * Size - 1 /\ p = last + (L + 1)
        BY <1>2
      <3> HIDE DEF c, d, L, p, last
      <3> QED BY <2>1, <3>1 DEF Cell
    <2> HIDE DEF j
    <2>3. Spot(p, k) = Spot(last, j)
      <3> HIDE DEF p, last
      <3> QED BY <1>6, <2>2, SpotSame
    <2>4. Wrap(g.wr + k) = Wrap(h.wr + j)
      BY <1>2, <1>6, <2>3 DEF Spot
    <2>5. g.data[Wrap(h.wr + j)] = IF j < L THEN s[j + 1] ELSE IF j = L THEN Nul ELSE h.data[Wrap(h.wr + j)]
      BY <1>2, <2>2, TextStored DEF g
    <2>6. h.data[Wrap(h.wr + j)] = Nul
      BY <1>2, <2>2
    <2> QED BY <2>2, <2>4, <2>5, <2>6
  <1>11. 1 \in 1 .. n + 1 /\ n + 1 \in 1 .. n + 1 /\ z[1] = first /\ first \in Cell
    <2>1. 1 \in 1 .. n + 1 /\ n + 1 \in 1 .. n + 1
      BY <1>5
    <2> QED BY <1>1, <1>7, <2>1 DEF Layout
  <1> HIDE DEF r, p, first
  <1>12. Layout(g, r, z)
    BY <1>3, <1>5, <1>6, <1>7, <1>9, <1>10, <1>11 DEF Layout
  <1> QED BY <1>12 DEF Arranged, r, e, g

-----------------------------------------------------------------------------
(* The invariant: every text of the queue has its place in the ring. *)
HeapInv == Arranged(heap, queue)

(* The empty ring: no entry, and all of it is free. *)
LEMMA HeapInit == Init => HeapInv
  <1> DEFINE at == [i \in 1 .. 1 |-> 0]
  <1>1. SUFFICES ASSUME Init PROVE Layout(heap, queue, at)
    BY DEF HeapInv, Arranged
  <1>2. queue = <<>> /\ heap = scpiheap_init /\ Len(queue) = 0 /\ queue \in Seq(Entries)
    BY <1>1 DEF Init
  <1>3. Size \in Nat \ {0} /\ 0 \in Cell /\ 0 \in Position /\ Wrap(0) = 0
    BY HeapAssumption DEF Cell, Position, Wrap
  <1>4. heap.data = [i \in Cell |-> Nul] /\ heap.wr = 0 /\ heap.count = Size /\ heap \in Heap
    BY <1>2, <1>3 DEF scpiheap_init, Heap
  <1>5. at \in [1 .. 0 + 1 -> Position] /\ at[1] = 0 /\ at[0 + 1] = 0
    BY <1>3
  <1>6. \A k \in 0 .. heap.count - 1 : heap.data[Wrap(heap.wr + k)] = Nul
    <2>1. ASSUME NEW k \in 0 .. Size - 1 PROVE Wrap(0 + k) \in Cell
      BY <1>3 DEF Wrap, Cell
    <2> QED BY <1>4, <2>1
  <1>7. \A i, j \in 1 .. 0 + 1 : i <= j => at[i] <= at[j]
    BY <1>3
  <1> HIDE DEF at
  <1> QED BY <1>2, <1>3, <1>4, <1>5, <1>6, <1>7 DEF Layout

(* SCPI_ErrorAddInternal with room in the queue *)
LEMMA AddWithRoomArranged ==
  ASSUME HeapInv, NEW s \in Texts, AddWithRoom(s)
  PROVE  HeapInv'
  <1>1. s \in Seq(Letter)
    BY HeapAssumption
  <1>2. Arranged(heap, queue) /\ heap' = scpiheap_strndup(heap, s) /\ queue' = Append(queue, Entry(heap, s))
    BY DEF HeapInv, AddWithRoom
  <1>3. CASE Refuses(heap, s)
    <2>1. Entry(heap, s) \in Entries /\ Entry(heap, s).ptr = NULL
      <3>1. <<>> \in Seq(Letter)
        OBVIOUS
      <3> QED BY <1>3, <3>1 DEF Entry, Place, Entries
    <2>2. scpiheap_strndup(heap, s) = heap
      BY <1>3 DEF scpiheap_strndup
    <2>3. Arranged(heap, Append(queue, Entry(heap, s)))
      BY <1>2, <2>1, NoTextAdded
    <2> QED BY <1>2, <2>2, <2>3 DEF HeapInv
  <1>4. CASE ~ Refuses(heap, s)
    <2>1. Arranged(scpiheap_strndup(heap, s), Append(queue, Entry(heap, s)))
      BY <1>1, <1>2, <1>4, TextAdded
    <2> QED BY <1>2, <2>1 DEF HeapInv
  <1> QED BY <1>3, <1>4

(* and with the queue full, when the new text is freed again *)
LEMMA AddOnFullArranged ==
  ASSUME HeapInv, NEW s \in Texts, AddOnFull(s)
  PROVE  HeapInv'
  <1> DEFINE g == scpiheap_strndup(heap, s)
             e == Entry(heap, s)
             h == scpiheap_free(g, Place(heap, s), TRUE)
  <1>1. s \in Seq(Letter) /\ Arranged(heap, queue)
    BY HeapAssumption DEF HeapInv
  <1>2. /\ heap' = scpiheap_free(h, Last(queue).ptr, TRUE)
        /\ queue' = Append(Front(queue), NoInfo) /\ Len(queue) = QueueSize
    BY DEF AddOnFull
  <1>3. queue # <<>> /\ queue \in Seq(Entries) /\ heap \in Heap
    <2>1. queue \in Seq(Entries) /\ heap \in Heap
      BY <1>1 DEF Arranged, Layout
    <2> QED BY <1>2, <2>1, HeapAssumption
  <1>4. Arranged(h, queue)
    <2>1. CASE Refuses(heap, s)
      <3>1. g = heap /\ Place(heap, s) = NULL
        BY <2>1 DEF scpiheap_strndup, Place
      <3>2. h = heap
        BY <3>1, FreeNothing
      <3> QED BY <1>1, <3>2
    <2>2. CASE ~ Refuses(heap, s)
      <3> DEFINE r == Append(queue, e)
      <3>1. Arranged(g, r)
        BY <1>1, <2>2, TextAdded
      <3>2. e \in Entries /\ e.ptr = Place(heap, s)
        BY <1>1, <1>3, <2>2 DEF Entry, Place, Entries, Heap
      <3>3. /\ r \in Seq(Entries) /\ r # <<>> /\ Last(r) = e
            /\ Front(r) = queue
        <4> HIDE DEF e
        <4>1. /\ r \in Seq(Entries) /\ Len(r) = Len(queue) + 1 /\ Len(queue) \in Nat
              /\ (\A i \in 1 .. Len(queue) : r[i] = queue[i]) /\ r[Len(queue) + 1] = e
          BY <1>3, <3>2, AppendOf
        <4>2. r # <<>>
          BY <4>1
        <4> HIDE DEF r
        <4>3. /\ Front(r) \in Seq(Entries) /\ Len(Front(r)) = Len(r) - 1
              /\ \A i \in 1 .. Len(r) - 1 : Front(r)[i] = r[i]
              /\ Last(r) = r[Len(r)]
          BY <4>1, <4>2, FrontOf
        <4>4. Len(Front(r)) = Len(queue) /\ \A i \in 1 .. Len(queue) : Front(r)[i] = queue[i]
          BY <4>1, <4>3
        <4>5. Front(r) = queue
          BY <1>3, <4>3, <4>4
        <4> QED BY <4>1, <4>2, <4>3, <4>5
      <3>4. Arranged(scpiheap_free(g, Last(r).ptr, TRUE), Front(r))
        <4> HIDE DEF r, g
        <4> QED BY <3>1, <3>3, FreeLast
      <3> HIDE DEF r, g, e
      <3> QED BY <3>2, <3>3, <3>4
    <2> QED BY <2>1, <2>2
  <1> HIDE DEF h
  <1>5. Arranged(heap', Front(queue))
    BY <1>2, <1>3, <1>4, FreeLast
  <1>6. NoInfo \in Entries /\ NoInfo.ptr = NULL
    BY DEF NoInfo, Entries
  <1>7. Arranged(heap', Append(Front(queue), NoInfo))
    BY <1>5, <1>6, NoTextAdded
  <1> QED BY <1>2, <1>7 DEF HeapInv

(* SCPI_SystemErrorNextQ *)
LEMMA ErrorNextQArranged ==
  ASSUME HeapInv, ErrorNextQ
  PROVE  HeapInv'
  <1>1. /\ queue # <<>> /\ heap' = scpiheap_free(heap, Head(queue).ptr, FALSE) /\ queue' = Tail(queue)
        /\ Arranged(heap, queue)
    BY DEF ErrorNextQ, HeapInv
  <1>2. queue \in Seq(Entries)
    BY <1>1 DEF Arranged, Layout
  <1>3. Head(queue) = queue[1]
    BY <1>1, <1>2, TailOf
  <1>4. Arranged(scpiheap_free(heap, queue[1].ptr, FALSE), Tail(queue))
    BY <1>1, FreeFirst
  <1> QED BY <1>1, <1>3, <1>4 DEF HeapInv

(* What is behind the first k entries *)
LEMMA BehindOf ==
  ASSUME NEW S, NEW q \in Seq(S), NEW k \in 1 .. Len(q)
  PROVE  /\ SubSeq(q, (k - 1) + 1, Len(q)) # <<>> /\ SubSeq(q, (k - 1) + 1, Len(q))[1] = q[k]
         /\ Tail(SubSeq(q, (k - 1) + 1, Len(q))) = SubSeq(q, k + 1, Len(q))
  <1> DEFINE n == Len(q)
             r == SubSeq(q, (k - 1) + 1, n)
             t == SubSeq(q, k + 1, n)
  <1>1. n \in Nat /\ k \in 1 .. n /\ (k - 1) + 1 = k /\ q \in Seq(S)
    OBVIOUS
  <1> HIDE DEF n
  <1>2. r \in Seq(S) /\ Len(r) = n - k + 1 /\ \A i \in 1 .. n - k + 1 : r[i] = q[k + i - 1]
    <2>1. k \in 1 .. Len(q) + 1 /\ n \in k - 1 .. Len(q)
      BY <1>1 DEF n
    <2> QED BY <1>1, <2>1, SubSeqProperties
  <1>3. t \in Seq(S) /\ Len(t) = n - k /\ \A i \in 1 .. n - k : t[i] = q[k + i]
    <2>1. k + 1 \in 1 .. Len(q) + 1 /\ n \in (k + 1) - 1 .. Len(q)
      BY <1>1 DEF n
    <2> QED BY <1>1, <2>1, SubSeqProperties
  <1> HIDE DEF r, t
  <1>4. r # <<>> /\ r[1] = q[k]
    <2>1. 1 \in 1 .. n - k + 1 /\ k + 1 - 1 = k
      BY <1>1
    <2> QED BY <1>1, <1>2, <2>1
  <1>5. /\ Tail(r) \in Seq(S) /\ Len(Tail(r)) = n - k
        /\ \A i \in 1 .. n - k : Tail(r)[i] = r[i + 1]
    <2>1. Len(r) - 1 = n - k
      BY <1>1, <1>2
    <2> QED BY <1>2, <1>4, <2>1, TailOf
  <1>6. ASSUME NEW i \in 1 .. n - k PROVE Tail(r)[i] = t[i]
    <2>1. i + 1 \in 1 .. n - k + 1 /\ k + (i + 1) - 1 = k + i
      BY <1>1
    <2> QED BY <1>2, <1>3, <1>5, <2>1
  <1>7. Tail(r) = t
    BY <1>3, <1>5, <1>6
  <1> QED BY <1>4, <1>7 DEF r, t, n

(* SCPI_ErrorClear frees one text after the other. *)
LEMMA ErrorClearArranged ==
  ASSUME HeapInv, ErrorClear
  PROVE  HeapInv'
  <1> DEFINE n == Len(queue)
             q == queue
             next(k, v) == scpiheap_free(v, q[k].ptr, FALSE)
             step == [p \in (1 .. n) \X Heap |-> IF next(p[1], p[2]) \in Heap THEN next(p[1], p[2]) ELSE p[2]]
             body(f, k) == IF k = 0 THEN heap ELSE next(k, f[k - 1])
             F == freedOf(heap, queue)
             rest(k) == SubSeq(q, k + 1, n)
  <1>1. q \in Seq(Entries) /\ n \in Nat /\ heap \in Heap /\ Arranged(heap, q)
    BY DEF HeapInv, Arranged, Layout
  <1>2. \A v, r : Arranged(v, r) => v \in Heap
    BY DEF Arranged, Layout
  <1>3. \A k \in 1 .. n : \A v : Arranged(v, rest(k - 1)) => Arranged(next(k, v), rest(k))
    <2>1. ASSUME NEW k \in 1 .. n, NEW v, Arranged(v, rest(k - 1)) PROVE Arranged(next(k, v), rest(k))
      <3>1. rest(k - 1) # <<>> /\ rest(k - 1)[1] = q[k] /\ Tail(rest(k - 1)) = rest(k)
        BY <1>1, BehindOf
      <3>2. Arranged(scpiheap_free(v, rest(k - 1)[1].ptr, FALSE), Tail(rest(k - 1)))
        <4> HIDE DEF rest
        <4> QED BY <2>1, <3>1, FreeFirst
      <3> QED BY <3>1, <3>2
    <2> QED BY <2>1
  <1>4. rest(0) = q /\ rest(n) = <<>>
    <2>1. SubSeq(q, 0 + 1, n) = q /\ SubSeq(q, n + 1, n) = <<>>
      BY <1>1
    <2> QED BY <2>1
  <1> HIDE DEF rest
  <1>5. StepUp(step, n, Heap)
    <2> HIDE DEF next, n
    <2>1. ASSUME NEW k \in 1 .. n, NEW v \in Heap PROVE step[<<k, v>>] \in Heap
      <3>1. step[<<k, v>>] = IF next(k, v) \in Heap THEN next(k, v) ELSE v
        OBVIOUS
      <3> QED BY <3>1
    <2> HIDE DEF step
    <2> QED BY <2>1 DEF StepUp
  <1>6. PICK f \in [0 .. n -> Heap] : SolvesUp(f, step, n, heap)
    <2> HIDE DEF step, n
    <2> QED BY <1>1, <1>5, RecursionUp
  <1>7. /\ f[0] = heap
        /\ \A k \in 1 .. n : f[k] = IF next(k, f[k - 1]) \in Heap THEN next(k, f[k - 1]) ELSE f[k - 1]
    <2> HIDE DEF next, n
    <2>1. \A k \in 0 .. n : f[k] = IF k = 0 THEN heap ELSE step[<<k, f[k - 1]>>]
      <3> HIDE DEF step
      <3> QED BY <1>6, Zenon DEF SolvesUp
    <2>2. ASSUME NEW k \in 1 .. n
          PROVE  f[k] = IF next(k, f[k - 1]) \in Heap THEN next(k, f[k - 1]) ELSE f[k - 1]
      <3>1. k \in 0 .. n /\ k # 0 /\ k - 1 \in 0 .. n /\ f[k - 1] \in Heap
        BY <1>1
      <3>2. step[<<k, f[k - 1]>>] = IF next(k, f[k - 1]) \in Heap THEN next(k, f[k - 1]) ELSE f[k - 1]
        BY <3>1
      <3> HIDE DEF step
      <3> QED BY <2>1, <3>1, <3>2
    <2>3. 0 \in 0 .. n
      BY <1>1
    <2> HIDE DEF step
    <2> QED BY <2>1, <2>2, <2>3
  <1> HIDE DEF next, n, step
  <1> DEFINE T == {k \in 0 .. n : Arranged(f[k], rest(k))}
  <1>8. 0 .. n \subseteq T
    <2>1. 0 \in T
      BY <1>1, <1>4, <1>7
    <2>2. ASSUME NEW k \in 1 .. n, k - 1 \in T PROVE k \in T
      <3>1. Arranged(next(k, f[k - 1]), rest(k)) /\ k \in 0 .. n
        BY <1>1, <1>3, <2>2
      <3>2. f[k] = next(k, f[k - 1])
        BY <1>2, <1>7, <3>1
      <3> QED BY <3>1, <3>2
    <2> HIDE DEF T
    <2> QED BY <1>1, <2>1, <2>2, Induction
  <1>9. f = [k \in 0 .. n |-> body(f, k)]
    <2>1. ASSUME NEW k \in 0 .. n PROVE f[k] = body(f, k)
      <3>1. CASE k = 0
        BY <1>7, <3>1
      <3>2. CASE k # 0
        <4>1. k \in 1 .. n /\ k - 1 \in 0 .. n
          BY <1>1, <3>2
        <4>2. Arranged(next(k, f[k - 1]), rest(k))
          BY <1>3, <1>8, <4>1
        <4>3. f[k] = next(k, f[k - 1])
          BY <1>2, <1>7, <4>1, <4>2
        <4> QED BY <3>2, <4>3
      <3> QED BY <3>1, <3>2
    <2> HIDE DEF body
    <2> QED BY <2>1
  <1>10. F = [k \in 0 .. n |-> body(F, k)]
    BY <1>9 DEF freedOf, next, n
  <1> HIDE DEF F
  <1> DEFINE U == {k \in 0 .. n : Arranged(F[k], rest(k))}
  <1>11. 0 .. n \subseteq U
    <2>1. 0 \in U
      <3>1. 0 \in 0 .. n
        BY <1>1
      <3>2. F[0] = heap
        BY <1>10, <3>1
      <3> QED BY <1>1, <1>4, <3>1, <3>2
    <2>2. ASSUME NEW k \in 1 .. n, k - 1 \in U PROVE k \in U
      <3>1. Arranged(next(k, F[k - 1]), rest(k)) /\ k \in 0 .. n /\ k # 0
        BY <1>1, <1>3, <2>2
      <3>2. F[k] = next(k, F[k - 1])
        BY <1>10, <3>1
      <3> QED BY <3>1, <3>2
    <2> HIDE DEF U
    <2> QED BY <1>1, <2>1, <2>2, Induction
  <1>12. Arranged(F[n], <<>>)
    BY <1>1, <1>4, <1>11
  <1> QED BY <1>12 DEF ErrorClear, HeapInv, F, n

(* Every operation keeps the texts arranged. *)
LEMMA HeapStep == HeapInv /\ [Next]_vars => HeapInv'
  <1> SUFFICES ASSUME HeapInv, [Next]_vars PROVE HeapInv'
    OBVIOUS
  <1>1. ASSUME NEW s \in Texts, AddWithRoom(s) PROVE HeapInv'
    BY <1>1, AddWithRoomArranged
  <1>2. ASSUME NEW s \in Texts, AddOnFull(s) PROVE HeapInv'
    BY <1>2, AddOnFullArranged
  <1>3. CASE ErrorNextQ
    BY <1>3, ErrorNextQArranged
  <1>4. CASE ErrorClear
    BY <1>4, ErrorClearArranged
  <1>5. CASE UNCHANGED vars
    BY <1>5 DEF vars, HeapInv
  <1> QED BY <1>1, <1>2, <1>3, <1>4, <1>5 DEF Next

-----------------------------------------------------------------------------
(* What the invariant says of the texts and of the room *)

(* Every text stands in its place, whole. *)
LEMMA ArrangedTexts ==
  ASSUME HeapInv
  PROVE  TextsIntact
  <1>1. PICK at : Layout(heap, queue, at)
    BY DEF HeapInv, Arranged
  <1>2. DOMAIN queue = 1 .. Len(queue)
    BY <1>1 DEF Layout
  <1>3. ASSUME NEW i \in 1 .. Len(queue), queue[i].ptr # NULL
        PROVE  TextAt(heap, queue[i].ptr) = queue[i].text
    <2>1. Holds(heap, queue[i].ptr, queue[i].text)
      BY <1>1, <1>3, EntryHolds
    <2> QED BY <2>1, TextRead
  <1> QED BY <1>2, <1>3 DEF TextsIntact

(* The entries take what lies between the first position and the last. *)
LEMMA UsedPositions ==
  ASSUME NEW h, NEW q, NEW at, Layout(h, q, at)
  PROVE  usedBy(q)[Len(q)] = at[Len(q) + 1] - at[1]
  <1> DEFINE n == Len(q)
             F == usedBy(q)
             step == [p \in (1 .. n) \X Nat |-> p[2] + Used(q[p[1]])]
             body(f, k) == IF k = 0 THEN 0 ELSE f[k - 1] + Used(q[k])
  <1>1. n \in Nat /\ q \in Seq(Entries) /\ \A k \in 1 .. n : Used(q[k]) \in Nat
    <2>1. n \in Nat /\ q \in Seq(Entries)
      BY DEF Layout
    <2> QED BY <2>1, UsedNat
  <1>2. StepUp(step, n, Nat)
    <2> HIDE DEF n
    <2>1. ASSUME NEW k \in 1 .. n, NEW v \in Nat PROVE step[<<k, v>>] \in Nat
      <3>1. step[<<k, v>>] = v + Used(q[k]) /\ Used(q[k]) \in Nat
        BY <1>1
      <3> QED BY <3>1
    <2> HIDE DEF step
    <2> QED BY <2>1 DEF StepUp
  <1>3. PICK f \in [0 .. n -> Nat] : SolvesUp(f, step, n, 0)
    <2> HIDE DEF step, n
    <2> QED BY <1>1, <1>2, RecursionUp
  <1>4. f = [k \in 0 .. n |-> body(f, k)]
    <2> HIDE DEF n
    <2>1. f = [k \in 0 .. n |-> IF k = 0 THEN 0 ELSE step[<<k, f[k - 1]>>]]
      <3> HIDE DEF step
      <3> QED BY <1>3 DEF SolvesUp
    <2>2. ASSUME NEW k \in 0 .. n PROVE f[k] = body(f, k)
      <3>1. f[k] = IF k = 0 THEN 0 ELSE step[<<k, f[k - 1]>>]
        <4> HIDE DEF step
        <4> QED BY <2>1, Zenon
      <3>2. CASE k = 0
        <4> HIDE DEF step
        <4> QED BY <3>1, <3>2
      <3>3. CASE k # 0
        <4>1. k \in 1 .. n /\ k - 1 \in 0 .. n /\ f[k - 1] \in Nat
          BY <1>1, <3>3
        <4>2. step[<<k, f[k - 1]>>] = f[k - 1] + Used(q[k])
          BY <4>1
        <4> HIDE DEF step
        <4> QED BY <3>1, <3>3, <4>2
      <3> QED BY <3>2, <3>3
    <2> HIDE DEF body, step
    <2> QED BY <2>1, <2>2
  <1>5. F = [k \in 0 .. n |-> body(F, k)]
    BY <1>4 DEF usedBy
  <1> HIDE DEF F
  <1> DEFINE T == {k \in 0 .. n : F[k] = at[k + 1] - at[1]}
  <1>6. 0 .. n \subseteq T
    <2> HIDE DEF n, step
    <2>1. 0 \in T
      <3>1. 0 \in 0 .. n /\ at[0 + 1] = at[1] /\ at[1] \in Int
        BY <1>1, LayoutPositions DEF n
      <3>2. F[0] = 0
        BY <1>5, <3>1
      <3> QED BY <3>1, <3>2
    <2>2. ASSUME NEW k \in 1 .. n, k - 1 \in T PROVE k \in T
      <3> DEFINE u == Used(q[k])
                 x == at[1]
                 y == at[k]
                 z == at[k + 1]
                 v == F[k - 1]
      <3>1. k \in 0 .. n /\ k # 0 /\ (k - 1) + 1 = k /\ k \in 1 .. n + 1 /\ u \in Nat
        BY <1>1
      <3>2. F[k] = v + u
        BY <1>5, <3>1
      <3>3. v = y - x
        BY <2>2, <3>1
      <3>4. z = y + u
        BY DEF Layout, n
      <3>5. x \in 0 .. Size - 1 /\ y \in 0 .. 2 * Size - 1 /\ Size \in Nat \ {0}
        BY <3>1, LayoutPositions DEF n
      <3> HIDE DEF u, x, y, z, v
      <3>6. v + u = z - x
        BY <3>1, <3>3, <3>4, <3>5
      <3> QED BY <3>1, <3>2, <3>6 DEF x, z
    <2> HIDE DEF T
    <2> QED BY <1>1, <2>1, <2>2, Induction
  <1>7. n \in 0 .. n
    BY <1>1
  <1> QED BY <1>6, <1>7 DEF F

(* What they do not take is free, from wr on. *)
LEMMA ArrangedSpace ==
  ASSUME HeapInv
  PROVE  SpaceAccounted
  <1>1. PICK at : Layout(heap, queue, at)
    BY DEF HeapInv, Arranged
  <1> DEFINE c == heap.count
             first == at[1]
             last == at[Len(queue) + 1]
             u == usedBy(queue)[Len(queue)]
  <1>2. u = last - first
    BY <1>1, UsedPositions
  <1>3. /\ first \in 0 .. Size - 1 /\ last \in 0 .. 2 * Size - 1 /\ last + c = first + Size
        /\ c \in 0 .. Size /\ Size \in Nat \ {0} /\ heap.wr \in 0 .. Size - 1
    BY <1>1, LayoutPositions DEF Cell
  <1>4. c = Size - u
    <2> HIDE DEF c, first, last, u
    <2> QED BY <1>2, <1>3
  <1>5. ASSUME NEW k \in 0 .. heap.count - 1 PROVE heap.data[(heap.wr + k) % Size] = Nul
    <2>1. heap.wr + k \in Position
      <3> HIDE DEF first, last, u
      <3> QED BY <1>3 DEF Position
    <2>2. (heap.wr + k) % Size = Wrap(heap.wr + k)
      BY <2>1, WrapMod
    <2> QED BY <1>1, <2>2 DEF Layout
  <1> QED BY <1>4, <1>5 DEF SpaceAccounted

-----------------------------------------------------------------------------
(* A text with its quotes doubled, character by character *)

(* What is written: the characters of texts and those of the code *)
Chars == Letter \cup {Nul, ";", Double}

(* A doubled character is one or two characters. *)
LEMMA DoubledChars ==
  ASSUME NEW c \in Chars
  PROVE  /\ Doubled(c) \in Seq(Chars) /\ Len(Doubled(c)) \in {1, 2}
         /\ c = Double => Len(Doubled(c)) = 2 /\ Doubled(c) = <<Double, Double>>
         /\ c # Double => Doubled(c) = <<c>>
  <1>1. Double \in Chars
    BY DEF Chars
  <1>2. c = Double \/ c # Double
    OBVIOUS
  <1>3. CASE c = Double
    <2>1. Doubled(c) = <<Double, Double>>
      BY <1>3 DEF Doubled
    <2> QED BY <1>1, <1>3, <2>1
  <1>4. CASE c # Double
    <2>1. Doubled(c) = <<c>>
      BY <1>4 DEF Doubled
    <2> QED BY <1>4, <2>1
  <1> QED BY <1>2, <1>3, <1>4

(* escapedOf, character by character *)
LEMMA EscapedSteps ==
  ASSUME NEW t \in Seq(Chars)
  PROVE  /\ escapedOf(t) \in [0 .. Len(t) -> Seq(Chars)]
         /\ escapedOf(t)[0] = <<>>
         /\ \A k \in 1 .. Len(t) : escapedOf(t)[k] = escapedOf(t)[k - 1] \o Doubled(t[k])
  <1> DEFINE n == Len(t)
             E == escapedOf(t)
             S == Seq(Chars)
             step == [p \in (1 .. n) \X S |-> p[2] \o Doubled(t[p[1]])]
             body(f, k) == IF k = 0 THEN <<>> ELSE f[k - 1] \o Doubled(t[k])
  <1>1. n \in Nat /\ <<>> \in S /\ \A k \in 1 .. n : Doubled(t[k]) \in S
    BY DoubledChars
  <1>2. ASSUME NEW v \in S, NEW k \in 1 .. n PROVE v \o Doubled(t[k]) \in S
    BY <1>1, ConcatProperties
  <1>3. StepUp(step, n, S)
    <2> HIDE DEF n, S
    <2>1. ASSUME NEW k \in 1 .. n, NEW v \in S PROVE step[<<k, v>>] \in S
      <3>1. step[<<k, v>>] = v \o Doubled(t[k])
        OBVIOUS
      <3> QED BY <1>2, <3>1
    <2> HIDE DEF step
    <2> QED BY <2>1 DEF StepUp
  <1>4. PICK f \in [0 .. n -> S] : SolvesUp(f, step, n, <<>>)
    <2> HIDE DEF step, n, S
    <2> QED BY <1>1, <1>3, RecursionUp
  <1>5. f = [k \in 0 .. n |-> body(f, k)]
    <2> HIDE DEF n, S
    <2>1. f = [k \in 0 .. n |-> IF k = 0 THEN <<>> ELSE step[<<k, f[k - 1]>>]]
      <3> HIDE DEF step
      <3> QED BY <1>4 DEF SolvesUp
    <2>2. ASSUME NEW k \in 0 .. n PROVE f[k] = body(f, k)
      <3>1. f[k] = IF k = 0 THEN <<>> ELSE step[<<k, f[k - 1]>>]
        <4> HIDE DEF step
        <4> QED BY <2>1, Zenon
      <3>2. CASE k = 0
        <4> HIDE DEF step
        <4> QED BY <3>1, <3>2
      <3>3. CASE k # 0
        <4>1. k \in 1 .. n /\ k - 1 \in 0 .. n /\ f[k - 1] \in S
          BY <1>1, <3>3
        <4>2. step[<<k, f[k - 1]>>] = f[k - 1] \o Doubled(t[k])
          BY <4>1
        <4> HIDE DEF step
        <4> QED BY <3>1, <3>3, <4>2
      <3> QED BY <3>2, <3>3
    <2> HIDE DEF body, step
    <2> QED BY <2>1, <2>2
  <1>6. E = [k \in 0 .. n |-> body(E, k)]
    BY <1>5 DEF escapedOf
  <1> HIDE DEF E
  <1> DEFINE T == {k \in 0 .. n : E[k] \in S}
  <1>7. E[0] = <<>> /\ \A k \in 1 .. n : E[k] = E[k - 1] \o Doubled(t[k])
    <2> HIDE DEF n, S, step
    <2>1. 0 \in 0 .. n /\ \A k \in 1 .. n : k \in 0 .. n /\ k # 0
      BY <1>1
    <2> QED BY <1>6, <2>1
  <1>8. 0 .. n \subseteq T
    <2> HIDE DEF n, S, step, body
    <2>1. 0 \in T
      BY <1>1, <1>7
    <2>2. ASSUME NEW k \in 1 .. n, k - 1 \in T PROVE k \in T
      <3>1. E[k - 1] \in S
        BY <2>2
      <3>2. E[k] = E[k - 1] \o Doubled(t[k])
        BY <1>7
      <3>3. E[k] \in S
        <4> DEFINE v == E[k - 1]
        <4> HIDE DEF v
        <4>1. v \in S
          BY <3>1 DEF v
        <4>2. v \o Doubled(t[k]) \in S
          BY <1>2, <4>1
        <4> QED BY <3>2, <4>2 DEF v
      <3>4. k \in 0 .. n
        BY <1>1
      <3> QED BY <3>3, <3>4
    <2> HIDE DEF T
    <2> QED BY <1>1, <2>1, <2>2, Induction
  <1>9. E \in [0 .. n -> S]
    <2> HIDE DEF n, S, step, body
    <2> QED BY <1>6, <1>8
  <1> QED BY <1>7, <1>9 DEF E

(* Each character makes it longer, a quote by two. *)
LEMMA EscapedLonger ==
  ASSUME NEW t \in Seq(Chars), NEW k \in 1 .. Len(t)
  PROVE  LET E == escapedOf(t)
         IN  /\ E[k] \in Seq(Chars) /\ E[k - 1] \in Seq(Chars)
             /\ Len(E[k]) \in Nat /\ Len(E[k - 1]) \in Nat /\ Len(E[k]) > Len(E[k - 1])
             /\ t[k] = Double => Len(E[k]) = Len(E[k - 1]) + 2
  <1> DEFINE E == escapedOf(t)
             a == E[k - 1]
             d == Doubled(t[k])
  <1>1. k \in 0 .. Len(t) /\ k - 1 \in 0 .. Len(t) /\ t[k] \in Chars
    OBVIOUS
  <1>2. a \in Seq(Chars) /\ E[k] \in Seq(Chars) /\ E[k] = a \o d
    BY <1>1, EscapedSteps
  <1>3. d \in Seq(Chars) /\ Len(d) \in {1, 2} /\ (t[k] = Double => Len(d) = 2)
    BY <1>1, DoubledChars
  <1> HIDE DEF E, a, d
  <1>4. Len(a \o d) = Len(a) + Len(d) /\ Len(a) \in Nat
    BY <1>2, <1>3, ConcatProperties
  <1>5. /\ Len(E[k]) \in Nat /\ Len(E[k]) > Len(a)
        /\ t[k] = Double => Len(E[k]) = Len(a) + 2
    <2>1. Len(E[k]) = Len(a) + Len(d) /\ Len(d) \in Nat
      BY <1>2, <1>3, <1>4
    <2>2. (t[k] = Double) => Len(d) = 2
      BY <1>3, Zenon
    <2>3. Len(d) = 1 \/ Len(d) = 2
      BY <1>3
    <2> DEFINE x == Len(E[k])
               y == Len(a)
               z == Len(d)
               quote == t[k] = Double
    <2>4. y \in Nat /\ x = y + z /\ (z = 1 \/ z = 2) /\ (quote => z = 2)
      BY <1>4, <2>1, <2>2, <2>3, Zenon
    <2> HIDE DEF x, y, z, quote
    <2>5. x \in Nat /\ x > y
      BY <2>4
    <2>6. quote => x = y + 2
      BY <2>4
    <2> QED BY <2>5, <2>6, Zenon DEF x, y, quote
  <1> QED BY <1>2, <1>4, <1>5 DEF E, a

(* Characters that are not quotes are written as they are. *)
LEMMA EscapedPlain ==
  ASSUME NEW t \in Seq(Chars), NEW a \in 0 .. Len(t), NEW b \in a .. Len(t),
         \A k \in a + 1 .. b : t[k] # Double
  PROVE  escapedOf(t)[b] = escapedOf(t)[a] \o SubSeq(t, a + 1, b)
  <1> DEFINE E == escapedOf(t)
             n == b - a
             T == {m \in 0 .. n : E[a + m] = E[a] \o SubSeq(t, a + 1, a + m)}
  <1>1. /\ n \in Nat /\ Len(t) \in Nat /\ a + n = b
        /\ \A m \in 0 .. n : a + m \in 0 .. Len(t)
        /\ \A m \in 1 .. n : a + m \in 1 .. Len(t) /\ a + m \in a + 1 .. Len(t) /\ a + m \in a + 1 .. b /\ a + 1 \in 1 .. Len(t)
    OBVIOUS
  <1>2. E \in [0 .. Len(t) -> Seq(Chars)] /\ \A k \in 1 .. Len(t) : E[k] = E[k - 1] \o Doubled(t[k])
    BY EscapedSteps
  <1> HIDE DEF E, n
  <1>3. 0 \in T
    <2>1. SubSeq(t, a + 1, a) = <<>>
      BY SubSeqEmpty
    <2>2. E[a] \in Seq(Chars)
      BY <1>2
    <2>3. E[a] \o <<>> = E[a]
      BY <2>2, ConcatEmptySeq
    <2>4. 0 \in 0 .. n /\ a + 0 = a
      BY <1>1
    <2> QED BY <2>1, <2>3, <2>4
  <1>4. ASSUME NEW m \in 1 .. n, m - 1 \in T PROVE m \in T
    <2> DEFINE c == t[a + m]
               p == SubSeq(t, a + 1, a + m - 1)
    <2>1. m - 1 \in 0 .. n /\ m \in 0 .. n /\ a + (m - 1) = a + m - 1 /\ c \in Chars /\ c # Double
      BY <1>1
    <2>2. E[a + m] = E[a + m - 1] \o <<c>>
      <3>1. Doubled(c) = <<c>>
        BY <2>1, DoubledChars
      <3>2. a + m \in 1 .. Len(t)
        BY <1>1
      <3>3. E[a + m] = E[(a + m) - 1] \o Doubled(t[a + m])
        <4> DEFINE k == a + m
        <4>1. k \in 1 .. Len(t)
          BY <3>2
        <4> HIDE DEF c, T, p, k
        <4>2. E[k] = E[k - 1] \o Doubled(t[k])
          BY <1>2, <4>1
        <4> QED BY <4>2, Zenon DEF k
      <3>4. (a + m) - 1 = a + m - 1
        BY <1>1
      <3> QED BY <3>1, <3>3, <3>4, Zenon
    <2>3. E[a + m - 1] = E[a] \o p
      BY <1>4, <2>1
    <2>4. SubSeq(t, a + 1, a + m) = p \o <<c>>
      BY <1>1, SubSeqRecursiveSecond
    <2>5. E[a] \in Seq(Chars) /\ p \in Seq(Chars) /\ <<c>> \in Seq(Chars)
      <3>1. \A k \in a + 1 .. a + m - 1 : t[k] \in Chars
        BY <1>1
      <3>2. a + 1 \in Int /\ a + m - 1 \in Int
        OBVIOUS
      <3>3. p \in Seq(Chars)
        BY <3>1, <3>2, SubSeqProperties
      <3> QED BY <1>2, <2>1, <3>3
    <2>6. (E[a] \o p) \o <<c>> = E[a] \o (p \o <<c>>)
      <3> DEFINE x == E[a]
                 y == <<c>>
      <3>1. x \in Seq(Chars) /\ p \in Seq(Chars) /\ y \in Seq(Chars)
        BY <2>5
      <3> HIDE DEF p, c, x, y
      <3>2. (x \o p) \o y = x \o (p \o y)
        BY <3>1, ConcatAssociative, SMTT(30)
      <3> QED BY <3>2 DEF x, y
    <2> HIDE DEF p, c
    <2> QED BY <2>1, <2>2, <2>3, <2>4, <2>6
  <1>5. n \in T
    <2> HIDE DEF T
    <2>1. 0 .. n \subseteq T
      BY <1>1, <1>3, <1>4, Induction
    <2> QED BY <1>1, <2>1
  <1> QED BY <1>1, <1>5 DEF E

-----------------------------------------------------------------------------
(* What SCPI_ResultError writes from a character of a part on (parser.c:565-598) *)

(* The smaller of two numbers *)
LEMMA MinOfTwo ==
  ASSUME NEW a \in Nat, NEW b \in Nat
  PROVE  Min({a, b}) = IF a <= b THEN a ELSE b
  <1>1. {a, b} \in SUBSET Nat /\ {a, b} # {}
    OBVIOUS
  <1>2. Min({a, b}) \in {a, b} /\ \A m \in {a, b} : Min({a, b}) <= m
    BY <1>1, MinLeast
  <1> QED BY <1>2

(* No quote from i to b *)
Plain(part, i, b) == \A j \in i .. b : part[j] # Double

(* The three ways of WriteFrom: no quote up to end, where the part or the
   limit ends; *)
WholeTo(part, i, left, end, w) ==
  /\ Plain(part, i, end)
  /\ w = [text |-> SubSeq(part, i, end), left |-> left - (end - i + 1)]
  /\ end - i + 1 <= left /\ (end < Len(part) => end - i + 1 = left)

(* a quote just there, which is left out; *)
QuoteAtLimit(part, i, left, end, w) ==
  /\ part[end] = Double /\ Plain(part, i, end - 1)
  /\ w = [text |-> SubSeq(part, i, end - 1), left |-> 0]
  /\ left = end - i + 1

(* a quote before it, which is doubled. *)
QuoteDoubled(part, i, left, quote, rest, w) ==
  /\ part[quote] = Double /\ Plain(part, i, quote - 1)
  /\ quote - i + 1 < left
  /\ w = [text |-> (SubSeq(part, i, quote) \o <<Double>>) \o rest.text, left |-> rest.left]

(* WriteFrom goes one of them. *)
LEMMA WriteWays ==
  ASSUME NEW part \in Seq(Chars), NEW i \in 1 .. Len(part) + 1, NEW left \in Nat, NEW behind
  PROVE  LET w == WriteFrom(part, i, left, behind)
         IN  \/ \E end \in i - 1 .. Len(part) : WholeTo(part, i, left, end, w)
             \/ \E end \in i .. Len(part) : QuoteAtLimit(part, i, left, end, w)
             \/ \E quote \in i .. Len(part) :
                  QuoteDoubled(part, i, left, quote, behind[quote + 1][left - (quote - i + 2)], w)
  <1> DEFINE n == Len(part)
             x == i + left - 1
             end == Min({n, x})
             quotes == {j \in i .. end : part[j] = Double}
             quote == Min(quotes)
             step == quote - i + 1
             rest == behind[quote + 1][left - Taken(step)]
             w == WriteFrom(part, i, left, behind)
  <1>1. n \in Nat /\ i \in Nat /\ x \in Nat /\ i - 1 <= x
    OBVIOUS
  <1>2. end = IF n <= x THEN n ELSE x
    <2> HIDE DEF n, x
    <2> QED BY <1>1, MinOfTwo
  <1>3. /\ end \in i - 1 .. n /\ end \in Int /\ end - i + 1 <= left /\ (end < n => end - i + 1 = left)
        /\ left \in Nat
    <2> HIDE DEF end, n
    <2> QED BY <1>1, <1>2 DEF n
  <1>4. w = CASE quotes = {} -> [text |-> SubSeq(part, i, end), left |-> left - (end - i + 1)]
              [] quotes # {} /\ step >= left -> [text |-> SubSeq(part, i, end - 1), left |-> left - (end - i + 1)]
              [] OTHER -> [text |-> (SubSeq(part, i, quote) \o <<Double>>) \o rest.text, left |-> rest.left]
    BY DEF WriteFrom
  <1> HIDE DEF end, w, n, x
  <1>5. CASE quotes = {}
    <2>1. \A j \in i .. end : part[j] # Double
      BY <1>5
    <2>2. w = [text |-> SubSeq(part, i, end), left |-> left - (end - i + 1)]
      <3> HIDE DEF quotes, step, rest
      <3> QED BY <1>4, <1>5
    <2> QED BY <1>3, <2>1, <2>2 DEF w, n, WholeTo, Plain
  <1>6. CASE quotes # {}
    <2>1. quote \in quotes /\ \A j \in quotes : quote <= j
      <3>1. quotes \in SUBSET Nat
        BY <1>1, <1>3
      <3> HIDE DEF quotes
      <3> QED BY <1>6, <3>1, MinLeast
    <2> HIDE DEF quote
    <2>2. quote \in i .. end /\ part[quote] = Double
      BY <2>1
    <2>3. quote \in i .. n
      BY <1>1, <1>3, <2>2
    <2>4. ASSUME NEW j \in i .. quote - 1 PROVE part[j] # Double
      <3>1. j \in i .. end /\ ~ (quote <= j)
        BY <1>1, <1>3, <2>2
      <3> QED BY <2>1, <3>1
    <2> HIDE DEF quotes
    <2>5. CASE step >= left
      <3>1. quote = end /\ left = end - i + 1 /\ left - (end - i + 1) = 0
        BY <1>1, <1>3, <2>2, <2>5
      <3>2. w = [text |-> SubSeq(part, i, end - 1), left |-> left - (end - i + 1)]
        <4> HIDE DEF step, rest
        <4> QED BY <1>4, <1>6, <2>5
      <3> QED BY <2>2, <2>3, <2>4, <3>1, <3>2 DEF w, n, QuoteAtLimit, Plain
    <2>6. CASE ~ (step >= left)
      <3>1. w = [text |-> (SubSeq(part, i, quote) \o <<Double>>) \o rest.text, left |-> rest.left]
        <4> HIDE DEF step, rest
        <4> QED BY <1>4, <1>6, <2>6
      <3>2. quote - i + 1 < left /\ left - Taken(step) = left - (quote - i + 2)
        BY <1>1, <1>3, <2>2, <2>6 DEF Taken
      <3> QED BY <2>2, <2>3, <2>4, <3>1, <3>2 DEF w, n, QuoteDoubled, Plain
    <2> QED BY <2>5, <2>6
  <1> QED BY <1>5, <1>6

(* Quotes, and two of them *)
LEMMA QuoteChars == <<Double>> \in Seq(Chars) /\ <<Double, Double>> \in Seq(Chars)
  <1>1. Double \in Chars
    BY DEF Chars
  <1> QED BY <1>1

(* What is written, and what is left of the limit *)
Writings == [text : Seq(Chars), left : Int]

(* What WriteFrom writes is made of characters, *)
LEMMA WriteFromWritings ==
  ASSUME NEW part \in Seq(Chars), NEW i \in 1 .. Len(part) + 1, NEW limit \in Nat, NEW left \in 0 .. limit,
         NEW behind \in [1 .. Len(part) + 1 -> [0 .. limit -> Writings]]
  PROVE  WriteFrom(part, i, left, behind) \in Writings
  <1> DEFINE w == WriteFrom(part, i, left, behind)
             n == Len(part)
             rest(quote) == behind[quote + 1][left - (quote - i + 2)]
  <1>1. n \in Nat /\ i \in 1 .. n + 1 /\ left \in Nat /\ limit \in Nat /\ left <= limit
    OBVIOUS
  <1>2. \/ \E end \in i - 1 .. n : WholeTo(part, i, left, end, w)
        \/ \E end \in i .. n : QuoteAtLimit(part, i, left, end, w)
        \/ \E quote \in i .. n : QuoteDoubled(part, i, left, quote, rest(quote), w)
    BY <1>1, WriteWays
  <1>3. ASSUME NEW b \in Int, b <= n PROVE SubSeq(part, i, b) \in Seq(Chars)
    <2>1. \A j \in i .. b : part[j] \in Chars
      BY <1>1, <1>3
    <2> QED BY <1>1, <2>1, SubSeqProperties
  <1> HIDE DEF w, n
  <1>4. ASSUME NEW end \in i - 1 .. n, WholeTo(part, i, left, end, w) PROVE w \in Writings
    <2>1. end \in Int /\ end <= n /\ left - (end - i + 1) \in Int
      BY <1>1
    <2>2. SubSeq(part, i, end) \in Seq(Chars)
      BY <1>3, <2>1
    <2> QED BY <1>4, <2>1, <2>2 DEF Writings, WholeTo
  <1>5. ASSUME NEW end \in i .. n, QuoteAtLimit(part, i, left, end, w) PROVE w \in Writings
    <2>1. end - 1 \in Int /\ end - 1 <= n /\ 0 \in Int
      BY <1>1
    <2>2. SubSeq(part, i, end - 1) \in Seq(Chars)
      BY <1>3, <2>1
    <2> QED BY <1>5, <2>1, <2>2 DEF Writings, QuoteAtLimit
  <1>6. ASSUME NEW quote \in i .. n, QuoteDoubled(part, i, left, quote, rest(quote), w) PROVE w \in Writings
    <2> DEFINE a == SubSeq(part, i, quote)
               b == <<Double>>
               c == rest(quote)
    <2>1. quote + 1 \in 1 .. Len(part) + 1 /\ left - (quote - i + 2) \in 0 .. limit
      BY <1>1, <1>6 DEF n, QuoteDoubled
    <2>2. c \in Writings
      BY <2>1
    <2>3. a \in Seq(Chars)
      BY <1>1, <1>3
    <2>4. b \in Seq(Chars)
      BY QuoteChars
    <2>5. w = [text |-> (a \o b) \o c.text, left |-> c.left]
      BY <1>6 DEF QuoteDoubled
    <2> HIDE DEF a, b, c
    <2>6. c.text \in Seq(Chars) /\ c.left \in Int
      BY <2>2 DEF Writings
    <2>7. (a \o b) \o c.text \in Seq(Chars)
      <3> DEFINE d == a \o b
                 e == c.text
      <3>1. d \in Seq(Chars)
        BY <2>3, <2>4, ConcatProperties
      <3>2. e \in Seq(Chars)
        BY <2>6
      <3> HIDE DEF d, e
      <3>3. d \o e \in Seq(Chars)
        BY <3>1, <3>2, ConcatProperties
      <3> QED BY <3>3 DEF d, e
    <2> QED BY <2>5, <2>6, <2>7 DEF Writings
  <1> QED BY <1>2, <1>4, <1>5, <1>6 DEF w

(* and depends on what is written behind a quote only. *)
LEMMA WriteFromBehind ==
  ASSUME NEW part \in Seq(Chars), NEW i \in 1 .. Len(part) + 1, NEW left \in Nat, NEW g, NEW h,
         \A k \in i + 1 .. Len(part) + 1 : g[k] = h[k]
  PROVE  WriteFrom(part, i, left, g) = WriteFrom(part, i, left, h)
  <1> DEFINE n == Len(part)
             x == i + left - 1
             end == Min({n, x})
             quotes == {j \in i .. end : part[j] = Double}
             quote == Min(quotes)
  <1>1. n \in Nat /\ i \in Nat /\ x \in Nat /\ i - 1 <= x
    OBVIOUS
  <1>2. end = IF n <= x THEN n ELSE x
    <2> HIDE DEF n, x
    <2> QED BY <1>1, MinOfTwo
  <1>3. end <= n /\ end \in Nat
    <2> HIDE DEF end, n, x
    <2> QED BY <1>1, <1>2
  <1>4. CASE quotes = {}
    BY <1>4 DEF WriteFrom
  <1>5. CASE quotes # {}
    <2>1. quote \in quotes
      <3>1. quotes \in SUBSET Nat
        <4> HIDE DEF end
        <4> QED BY <1>1, <1>3
      <3> HIDE DEF quotes
      <3> QED BY <1>5, <3>1, MinLeast
    <2>2. quote + 1 \in i + 1 .. Len(part) + 1
      <3> HIDE DEF end, quote
      <3>1. quote \in i .. end
        BY <2>1
      <3> QED BY <1>1, <1>3, <3>1
    <2>3. g[quote + 1] = h[quote + 1]
      <3> HIDE DEF quote
      <3> QED BY <2>2
    <2> QED BY <2>3, Zenon DEF WriteFrom
  <1> QED BY <1>4, <1>5

(* writtenOf, position by position *)
LEMMA WrittenSteps ==
  ASSUME NEW part \in Seq(Chars), NEW limit \in Nat
  PROVE  \A i \in 1 .. Len(part) + 1, left \in 0 .. limit :
           /\ writtenOf(part, limit)[i][left] = WriteFrom(part, i, left, writtenOf(part, limit))
           /\ writtenOf(part, limit)[i][left] \in Writings
  <1> DEFINE n == Len(part) + 1
             S == [0 .. limit -> Writings]
             body(g, j) == [left \in 0 .. limit |-> WriteFrom(part, j, left, g)]
             step == [p \in (1 .. n) \X [1 .. n -> S] |-> body(p[2], p[1])]
  <1>1. n \in Nat /\ S # {}
    <2>1. [text |-> <<>>, left |-> 0] \in Writings
      BY DEF Writings
    <2>2. [left \in 0 .. limit |-> [text |-> <<>>, left |-> 0]] \in S
      BY <2>1
    <2>3. n \in Nat
      OBVIOUS
    <2> HIDE DEF S, n
    <2> QED BY <2>2, <2>3, Zenon
  <1>2. \A j \in 1 .. n, g \in [1 .. n -> S] : step[<<j, g>>] = body(g, j)
    OBVIOUS
  <1>3. \A j \in 1 .. n, g \in [1 .. n -> S] : body(g, j) \in S
    BY WriteFromWritings
  <1>4. ASSUME NEW j \in 1 .. n, NEW g \in [1 .. n -> S], NEW h \in [1 .. n -> S],
               \A k \in j + 1 .. n : g[k] = h[k]
        PROVE  body(g, j) = body(h, j)
    <2>1. ASSUME NEW left \in 0 .. limit PROVE WriteFrom(part, j, left, g) = WriteFrom(part, j, left, h)
      <3>1. left \in Nat
        OBVIOUS
      <3> QED BY <1>4, <3>1, WriteFromBehind
    <2> QED BY <2>1
  <1>5. PICK f \in [1 .. n -> S] : SolvesDown(f, step, n)
    <2>1. StepDown(step, n, S)
      <3> HIDE DEF step, S, n, body
      <3>1. \A j \in 1 .. n, g \in [1 .. n -> S] : step[<<j, g>>] \in S
        BY <1>2, <1>3
      <3>2. ASSUME NEW j \in 1 .. n, NEW g \in [1 .. n -> S], NEW h \in [1 .. n -> S],
                   \A k \in j + 1 .. n : g[k] = h[k]
            PROVE  step[<<j, g>>] = step[<<j, h>>]
        <4>1. body(g, j) = body(h, j)
          BY <1>4, <3>2
        <4> QED BY <1>2, <4>1
      <3> QED BY <3>1, <3>2 DEF StepDown
    <2> HIDE DEF step, S, n, body
    <2> QED BY <1>1, <2>1, RecursionDown
  <1>6. f = [j \in 1 .. n |-> body(f, j)]
    <2> HIDE DEF step, body
    <2> QED BY <1>2, <1>5 DEF SolvesDown
  <1> DEFINE F == writtenOf(part, limit)
  <1>7. F = [j \in 1 .. n |-> body(F, j)]
    BY <1>6, Zenon DEF writtenOf
  <1>8. \A j \in 1 .. n : F[j] = f[j]
    <2> DEFINE T == {j \in 1 .. n : F[j] = f[j]}
    <2>1. ASSUME NEW j \in 1 .. n, \A k \in j + 1 .. n : k \in T PROVE j \in T
      <3>1. \A k \in j + 1 .. n : F[k] = f[k]
        BY <2>1
      <3> HIDE DEF F
      <3>2. ASSUME NEW left \in 0 .. limit PROVE WriteFrom(part, j, left, F) = WriteFrom(part, j, left, f)
        <4>1. left \in Nat
          OBVIOUS
        <4> QED BY <3>1, <4>1, WriteFromBehind
      <3>3. body(F, j) = body(f, j)
        BY <3>2
      <3>4. F[j] = body(F, j) /\ f[j] = body(f, j)
        <4> HIDE DEF body
        <4> QED BY <1>6, <1>7
      <3> QED BY <3>3, <3>4
    <2> HIDE DEF T, F, n
    <2>2. \A j \in 1 .. n : j \in T
      BY <1>1, <2>1, InductionDown
    <2> QED BY <2>2 DEF T
  <1>9. ASSUME NEW i \in 1 .. n, NEW left \in 0 .. limit
        PROVE  F[i][left] = WriteFrom(part, i, left, F) /\ F[i][left] \in Writings
    <2>1. F[i] = body(F, i)
      <3> HIDE DEF body, F
      <3> QED BY <1>7
    <2>2. F[i] \in S
      <3> HIDE DEF S, F
      <3> QED BY <1>8
    <2> HIDE DEF F
    <2> QED BY <2>1, <2>2
  <1> QED BY <1>9 DEF F, n

-----------------------------------------------------------------------------
(* That is as much of the text as the limit lets through. *)

(* Texts put together *)
LEMMA CharsAssociative ==
  ASSUME NEW a \in Seq(Chars), NEW b \in Seq(Chars), NEW c \in Seq(Chars)
  PROVE  (a \o b) \o c = a \o (b \o c)
  BY ConcatAssociative

(* One character behind another *)
LEMMA TwoOf ==
  ASSUME NEW c
  PROVE  <<c>> \o <<c>> = <<c, c>>
  <1> DEFINE a == <<c>>
             b == <<c, c>>
             S == {c}
  <1>1. a \in Seq(S) /\ Len(a) = 1 /\ a[1] = c /\ b \in Seq(S) /\ Len(b) = 2 /\ b[1] = c /\ b[2] = c
    OBVIOUS
  <1> HIDE DEF a, b, S
  <1>2. /\ a \o a \in Seq(S) /\ Len(a \o a) = 2
        /\ \A i \in 1 .. 2 : (a \o a)[i] = IF i <= 1 THEN a[i] ELSE a[i - 1]
    <2>1. /\ a \o a \in Seq(S) /\ Len(a \o a) = Len(a) + Len(a)
          /\ \A i \in 1 .. Len(a) + Len(a) : (a \o a)[i] = IF i <= Len(a) THEN a[i] ELSE a[i - Len(a)]
      <3>1. a \in Seq(S)
        BY <1>1
      <3> QED BY <3>1, ConcatProperties
    <2> QED BY <1>1, <2>1
  <1>3. \A i \in 1 .. Len(b) : (a \o a)[i] = b[i]
    BY <1>1, <1>2
  <1>4. a \o a = b
    BY <1>1, <1>2, <1>3, SameSequence
  <1> QED BY <1>4 DEF a, b

(* A part is what t has behind its first o characters. *)
PartOf(part, t, o) ==
  /\ part \in Seq(Chars) /\ t \in Seq(Chars) /\ o \in Nat
  /\ o + Len(part) <= Len(t)
  /\ \A j \in 1 .. Len(part) : part[j] = t[o + j]

(* r is what is written of a text between two of its positions, all of it or
   as much as left lets through: E is the text with its quotes doubled. *)
Written(E, from, to, left, r) ==
  /\ r.left \in 0 .. left
  /\ \E k \in from .. to :
       /\ E[k] = E[from] \o r.text
       /\ \/ k = to /\ Len(r.text) = left - r.left
          \/ k < to /\ r.left = 0 /\ Len(r.text) <= left /\ Len(E[k + 1]) > Len(E[from]) + left

(* From x to y the text is s, of length m, as it is. *)
Copied(E, x, y, s, m) ==
  /\ E[x] \in Seq(Chars) /\ E[y] \in Seq(Chars) /\ s \in Seq(Chars) /\ Len(s) = m
  /\ E[y] = E[x] \o s /\ Len(E[x]) \in Nat /\ Len(E[y]) = Len(E[x]) + m

(* Characters of a part that are not quotes *)
LEMMA PlainPart ==
  ASSUME NEW part, NEW t, NEW o, PartOf(part, t, o),
         NEW i \in 1 .. Len(part) + 1, NEW b \in i - 1 .. Len(part),
         Plain(part, i, b)
  PROVE  Copied(escapedOf(t), o + (i - 1), o + b, SubSeq(part, i, b), b - i + 1)
  <1> DEFINE E == escapedOf(t)
             s == SubSeq(part, i, b)
             n == Len(part)
             x == o + (i - 1)
             y == o + b
             u == SubSeq(t, x + 1, y)
  <1>1. /\ part \in Seq(Chars) /\ t \in Seq(Chars) /\ o \in Nat /\ o + n <= Len(t)
        /\ \A j \in 1 .. n : part[j] = t[o + j]
    BY DEF PartOf
  <1>2. n \in Nat /\ Len(t) \in Nat /\ i \in 1 .. n + 1 /\ b \in i - 1 .. n
    BY <1>1
  <1>3. x \in 0 .. Len(t) /\ y \in x .. Len(t) /\ x + 1 = o + i /\ y - x = b - i + 1
    <2> HIDE DEF n
    <2> QED BY <1>1, <1>2
  <1>4. s \in Seq(Chars) /\ Len(s) = b - i + 1 /\ \A j \in 1 .. b - i + 1 : s[j] = part[i + j - 1]
    <2>1. \A j \in i .. b : part[j] \in Chars
      BY <1>1, <1>2
    <2>2. i \in Int /\ b \in Int
      BY <1>2
    <2>3. IF i <= b THEN b - i + 1 = b - i + 1 ELSE 0 = b - i + 1
      BY <1>2
    <2> QED BY <2>1, <2>2, <2>3, SubSeqProperties
  <1>5. u \in Seq(Chars) /\ Len(u) = y - x /\ \A j \in 1 .. y - x : u[j] = t[x + j]
    <2> HIDE DEF x, y
    <2>1. \A j \in x + 1 .. y : t[j] \in Chars
      BY <1>1, <1>3
    <2>2. x + 1 \in Int /\ y \in Int
      BY <1>3
    <2>3. Len(u) = y - x
      <3>1. Len(u) = IF x + 1 <= y THEN y - (x + 1) + 1 ELSE 0
        BY <2>1, <2>2, SubSeqProperties
      <3> HIDE DEF u
      <3> QED BY <1>3, <3>1
    <2>4. u \in Seq(Chars)
      BY <2>1, <2>2, SubSeqProperties
    <2>5. ASSUME NEW j \in 1 .. y - x PROVE u[j] = t[x + j]
      <3>1. j \in 1 .. y - (x + 1) + 1 /\ (x + 1) + j - 1 = x + j
        BY <1>3
      <3>2. u[j] = t[(x + 1) + j - 1]
        BY <2>1, <2>2, <3>1, SubSeqProperties
      <3> QED BY <3>1, <3>2
    <2> QED BY <2>3, <2>4, <2>5
  <1>6. s = u
    <2> HIDE DEF s, u
    <2>1. ASSUME NEW j \in 1 .. y - x PROVE s[j] = u[j]
      <3>1. i + j - 1 \in 1 .. n /\ o + (i + j - 1) = x + j /\ j \in 1 .. b - i + 1
        <4> HIDE DEF n
        <4> QED BY <1>1, <1>2
      <3> QED BY <1>1, <1>4, <1>5, <3>1
    <2>2. Len(s) = y - x /\ Len(u) = y - x
      <3> HIDE DEF x, y
      <3> QED BY <1>3, <1>4, <1>5
    <2>3. \A j \in 1 .. Len(u) : s[j] = u[j]
      <3> HIDE DEF x, y
      <3> QED BY <2>1, <2>2
    <2> HIDE DEF x, y
    <2> QED BY <1>4, <1>5, <2>2, <2>3, SameSequence
  <1>7. \A k \in x + 1 .. y : t[k] # Double
    <2>1. ASSUME NEW k \in x + 1 .. y PROVE t[k] # Double
      <3> DEFINE j == k - o
      <3>1. j \in i .. b /\ j \in 1 .. n /\ o + j = k
        <4> HIDE DEF n
        <4> QED BY <1>1, <1>2
      <3> HIDE DEF j, n
      <3>2. part[j] # Double /\ part[j] = t[o + j]
        BY <1>1, <3>1 DEF Plain
      <3> QED BY <3>1, <3>2
    <2> QED BY <2>1
  <1> HIDE DEF s, u, x, y, E
  <1>8. E[y] = E[x] \o u
    BY <1>1, <1>3, <1>7, EscapedPlain DEF E, u
  <1>9. E[x] \in Seq(Chars) /\ E[y] \in Seq(Chars)
    <2>1. E \in [0 .. Len(t) -> Seq(Chars)]
      BY <1>1, EscapedSteps DEF E
    <2>2. x \in 0 .. Len(t) /\ y \in 0 .. Len(t)
      BY <1>3
    <2> QED BY <2>1, <2>2
  <1>10. Len(E[y]) = Len(E[x]) + (b - i + 1)
    <2> DEFINE a == E[x]
    <2> HIDE DEF a
    <2>1. a \in Seq(Chars)
      BY <1>9 DEF a
    <2>2. Len(a \o s) = Len(a) + Len(s)
      BY <1>4, <2>1, ConcatProperties
    <2> QED BY <1>4, <1>6, <1>8, <2>2 DEF a
  <1>11. Len(E[x]) \in Nat
    BY <1>9, LenProperties
  <1> QED BY <1>4, <1>6, <1>8, <1>9, <1>10, <1>11 DEF E, s, x, y, Copied

(* A part without a quote is written up to its end or the limit, *)
LEMMA WholeWritten ==
  ASSUME NEW part, NEW t, NEW o, PartOf(part, t, o),
         NEW i \in 1 .. Len(part) + 1, NEW left \in Nat,
         NEW end \in i - 1 .. Len(part), NEW w, WholeTo(part, i, left, end, w)
  PROVE  Written(escapedOf(t), o + (i - 1), o + Len(part), left, w)
  <1> DEFINE E == escapedOf(t)
             n == Len(part)
             s == SubSeq(part, i, end)
             x == o + (i - 1)
             k == o + end
             m == end - i + 1
             a == Len(E[x])
             c == Len(E[k + 1])
  <1>1. /\ part \in Seq(Chars) /\ t \in Seq(Chars) /\ o \in Nat /\ o + n <= Len(t)
        /\ n \in Nat /\ Len(t) \in Nat /\ i \in 1 .. n + 1 /\ end \in i - 1 .. n /\ left \in Nat
    BY DEF PartOf
  <1>2. w = [text |-> s, left |-> left - m] /\ m <= left /\ (end < n => m = left)
    BY DEF WholeTo
  <1>3. E[k] = E[x] \o s /\ Len(s) = m /\ E[k] \in Seq(Chars) /\ Len(E[k]) = a + m /\ a \in Nat
    <2>1. Plain(part, i, end)
      BY DEF WholeTo
    <2>2. PartOf(part, t, o) /\ i \in 1 .. Len(part) + 1 /\ end \in i - 1 .. Len(part)
      OBVIOUS
    <2>3. Copied(E, x, k, s, m)
      BY <2>1, <2>2, PlainPart, Zenon
    <2> HIDE DEF E, x, k, s, m
    <2> QED BY <2>3 DEF Copied
  <1>4. m \in Nat /\ left - m \in 0 .. left /\ k \in x .. o + n
    <2> HIDE DEF n
    <2> QED BY <1>1, <1>2
  <1> HIDE DEF E, s, k, m, x
  <1>5. w.text = s /\ w.left = left - m /\ w.left \in 0 .. left
    BY <1>2, <1>4
  <1>6. CASE end = n
    <2>1. k = o + n /\ Len(w.text) = left - w.left
      <3>1. k = o + n
        BY <1>6 DEF k
      <3>2. left - (left - m) = m
        BY <1>1, <1>4
      <3> QED BY <1>3, <1>5, <3>1, <3>2
    <2> QED BY <1>3, <1>4, <1>5, <2>1 DEF Written, E, x, n
  <1>7. CASE end # n
    <2>1. end < n /\ k + 1 \in 1 .. Len(t) /\ (k + 1) - 1 = k /\ k < o + n
      BY <1>1, <1>7 DEF k
    <2>2. c > Len(E[k]) /\ c \in Nat
      BY <1>1, <2>1, EscapedLonger DEF E
    <2>3. m = left
      BY <1>2, <2>1
    <2>4. left - m = 0 /\ m <= left /\ c > a + left
      <3>1. Len(E[k]) = a + m
        BY <1>3
      <3> HIDE DEF c, a
      <3> QED BY <1>1, <1>3, <2>2, <2>3, <3>1
    <2>5. w.left = 0 /\ Len(w.text) <= left
      BY <1>3, <1>5, <2>4
    <2> QED BY <1>3, <1>4, <1>5, <2>1, <2>4, <2>5 DEF Written, E, x, n
  <1> QED BY <1>6, <1>7

(* up to the quote that is just there, *)
LEMMA LimitWritten ==
  ASSUME NEW part, NEW t, NEW o, PartOf(part, t, o),
         NEW i \in 1 .. Len(part) + 1, NEW left \in Nat,
         NEW end \in i .. Len(part), NEW w, QuoteAtLimit(part, i, left, end, w)
  PROVE  Written(escapedOf(t), o + (i - 1), o + Len(part), left, w)
  <1> DEFINE E == escapedOf(t)
             n == Len(part)
             s == SubSeq(part, i, end - 1)
             x == o + (i - 1)
             k == o + (end - 1)
             m == (end - 1) - i + 1
             a == Len(E[x])
             c == Len(E[k + 1])
  <1>1. /\ part \in Seq(Chars) /\ t \in Seq(Chars) /\ o \in Nat /\ o + n <= Len(t)
        /\ n \in Nat /\ Len(t) \in Nat /\ i \in 1 .. n + 1 /\ end \in i .. n /\ left \in Nat
    BY DEF PartOf
  <1>2. w = [text |-> s, left |-> 0] /\ left = end - i + 1
    BY DEF QuoteAtLimit
  <1>3. E[k] = E[x] \o s /\ Len(s) = m /\ E[k] \in Seq(Chars) /\ Len(E[k]) = a + m /\ a \in Nat
    <2>1. Plain(part, i, end - 1)
      BY DEF QuoteAtLimit
    <2>2. end - 1 \in i - 1 .. Len(part)
      BY <1>1
    <2>3. PartOf(part, t, o) /\ i \in 1 .. Len(part) + 1
      OBVIOUS
    <2>4. Copied(E, x, k, s, m)
      BY <2>1, <2>2, <2>3, PlainPart, Zenon
    <2> HIDE DEF E, x, k, s, m
    <2> QED BY <2>4 DEF Copied
  <1>4. t[k + 1] = Double
    <2>1. part[end] = Double /\ o + end = k + 1 /\ end \in 1 .. n
      BY <1>1 DEF QuoteAtLimit
    <2>2. part[end] = t[o + end]
      BY <2>1 DEF PartOf
    <2> QED BY <2>1, <2>2
  <1>5. /\ m \in Nat /\ m + 1 = left /\ k \in x .. o + n /\ k < o + n
        /\ k + 1 \in 1 .. Len(t) /\ (k + 1) - 1 = k /\ 0 \in 0 .. left
    <2> HIDE DEF n
    <2> QED BY <1>1, <1>2
  <1>6. c = Len(E[k]) + 2
    <2> HIDE DEF k
    <2> QED BY <1>1, <1>4, <1>5, EscapedLonger
  <1> HIDE DEF E, s, k, m, x
  <1>7. w.text = s /\ w.left = 0
    BY <1>2
  <1>8. m <= left /\ c > a + left
    <2> HIDE DEF c, a
    <2>1. c = (a + m) + 2
      BY <1>3, <1>6
    <2> QED BY <1>1, <1>3, <1>5, <2>1
  <1> QED BY <1>3, <1>5, <1>7, <1>8 DEF Written, E, x, n

(* or over a doubled quote to what is written behind it. *)
LEMMA DoubledWritten ==
  ASSUME NEW part, NEW t, NEW o, PartOf(part, t, o),
         NEW i \in 1 .. Len(part) + 1, NEW left \in Nat,
         NEW quote \in i .. Len(part), NEW rest, NEW w, QuoteDoubled(part, i, left, quote, rest, w),
         rest \in Writings,
         Written(escapedOf(t), o + quote, o + Len(part), left - (quote - i + 2), rest)
  PROVE  Written(escapedOf(t), o + (i - 1), o + Len(part), left, w)
  <1> DEFINE E == escapedOf(t)
             n == Len(part)
             s == SubSeq(part, i, quote - 1)
             q == <<Double>>
             p == SubSeq(part, i, quote) \o q
             x == o + (i - 1)
             y == o + quote
             m == quote - i + 2
             a == Len(E[x])
  <1>1. /\ part \in Seq(Chars) /\ t \in Seq(Chars) /\ o \in Nat /\ o + n <= Len(t)
        /\ n \in Nat /\ Len(t) \in Nat /\ i \in 1 .. n + 1 /\ quote \in i .. n /\ left \in Nat
        /\ i \in 1 .. Len(part) /\ quote \in i .. Len(part)
    BY DEF PartOf
  <1>2. w = [text |-> p \o rest.text, left |-> rest.left] /\ quote - i + 1 < left
    BY DEF QuoteDoubled
  <1>3. rest.text \in Seq(Chars)
    BY DEF Writings
  <1>4. /\ E[y - 1] = E[x] \o s /\ s \in Seq(Chars) /\ Len(s) = m - 2 /\ E[x] \in Seq(Chars)
        /\ a \in Nat
    <2>1. Plain(part, i, quote - 1)
      BY DEF QuoteDoubled
    <2>2. quote - 1 \in i - 1 .. Len(part) /\ o + (quote - 1) = y - 1 /\ (quote - 1) - i + 1 = m - 2
      BY <1>1
    <2> HIDE DEF y, m, x
    <2>3. E[o + (quote - 1)] = E[x] \o s /\ s \in Seq(Chars) /\ Len(s) = (quote - 1) - i + 1
          /\ E[x] \in Seq(Chars) /\ a \in Nat
      <3>1. PartOf(part, t, o) /\ i \in 1 .. Len(part) + 1
        OBVIOUS
      <3>2. Copied(E, x, o + (quote - 1), s, (quote - 1) - i + 1)
        BY <2>1, <2>2, <3>1, PlainPart, Zenon DEF x
      <3> HIDE DEF E, s
      <3> QED BY <3>2 DEF Copied
    <2> QED BY <2>2, <2>3
  <1>5. y \in 1 .. Len(t) /\ t[y] = Double /\ x <= y /\ m \in Nat /\ m <= left /\ y <= o + n /\ m - 2 + 2 = m
    <2>1. quote \in 1 .. n /\ part[quote] = Double
      BY <1>1 DEF QuoteDoubled
    <2>2. part[quote] = t[y]
      BY <2>1 DEF PartOf
    <2>3. y \in 1 .. Len(t) /\ x <= y /\ m \in Nat /\ m <= left /\ y <= o + n /\ m - 2 + 2 = m
      <3> HIDE DEF n
      <3> QED BY <1>1, <1>2
    <2> QED BY <2>1, <2>2, <2>3
  <1>6. E[y] = E[y - 1] \o <<Double, Double>>
    <2>1. Doubled(t[y]) = <<Double, Double>>
      BY <1>5 DEF Doubled
    <2> HIDE DEF y
    <2> QED BY <1>1, <1>5, <2>1, EscapedSteps
  <1>7. p = s \o <<Double, Double>>
    <2>1. SubSeq(part, i, quote) = s \o q
      <3>1. part[quote] = Double
        BY DEF QuoteDoubled
      <3> QED BY <1>1, <3>1, SubSeqRecursiveSecond
    <2>2. q \in Seq(Chars) /\ q \o q = <<Double, Double>>
      <3>1. q \in Seq(Chars)
        BY QuoteChars
      <3> QED BY <3>1, TwoOf, Zenon
    <2> HIDE DEF q, s
    <2>3. (s \o q) \o q = s \o (q \o q)
      <3>1. s \in Seq(Chars) /\ q \in Seq(Chars)
        BY <1>4, <2>2
      <3> QED BY <3>1, CharsAssociative, Zenon
    <2> QED BY <2>1, <2>2, <2>3
  <1> HIDE DEF E, s, p, q, x, y, m
  <1>8. E[y] = E[x] \o p /\ p \in Seq(Chars) /\ Len(p) = m
    <2> DEFINE z == E[x]
               d == <<Double, Double>>
    <2>1. z \in Seq(Chars) /\ s \in Seq(Chars) /\ d \in Seq(Chars) /\ Len(d) = 2 /\ p = s \o d
      BY <1>4, <1>7, QuoteChars
    <2>2. E[y] = (z \o s) \o d
      BY <1>4, <1>6
    <2> HIDE DEF z, d
    <2>3. (z \o s) \o d = z \o (s \o d)
      BY <2>1, CharsAssociative, Zenon
    <2>4. s \o d \in Seq(Chars) /\ Len(s \o d) = Len(s) + Len(d)
      BY <2>1, ConcatProperties
    <2> QED BY <1>4, <1>5, <2>1, <2>2, <2>3, <2>4 DEF z
  <1> DEFINE r == rest.text
             v == p \o r
             b == Len(E[y])
  <1>9. b = a + m /\ Len(v) = m + Len(r) /\ Len(r) \in Nat /\ v \in Seq(Chars)
    <2> DEFINE z == E[x]
    <2>1. z \in Seq(Chars) /\ r \in Seq(Chars)
      BY <1>3, <1>4
    <2>2. E[y] = z \o p
      BY <1>8
    <2> HIDE DEF z, r
    <2>3. Len(z \o p) = Len(z) + Len(p) /\ Len(p \o r) = Len(p) + Len(r) /\ p \o r \in Seq(Chars)
      BY <1>8, <2>1, ConcatProperties
    <2>4. Len(r) \in Nat
      BY <2>1, LenProperties
    <2> QED BY <1>8, <2>2, <2>3, <2>4 DEF z
  <1>10. rest.left \in 0 .. left - m
    BY DEF Written, m
  <1>11. PICK k \in y .. o + n :
           /\ E[k] = E[y] \o r
           /\ \/ k = o + n /\ Len(r) = (left - m) - rest.left
              \/ k < o + n /\ rest.left = 0 /\ Len(r) <= left - m /\ Len(E[k + 1]) > b + (left - m)
    BY DEF Written, E, y, n, m
  <1>12. E[k] = E[x] \o v
    <2> DEFINE z == E[x]
    <2>1. z \in Seq(Chars) /\ r \in Seq(Chars) /\ p \in Seq(Chars)
      BY <1>3, <1>4, <1>8
    <2>2. E[k] = (z \o p) \o r
      BY <1>8, <1>11
    <2> HIDE DEF z, r
    <2>3. (z \o p) \o r = z \o (p \o r)
      BY <2>1, CharsAssociative, Zenon
    <2> QED BY <2>2, <2>3 DEF z
  <1>13. w.text = v /\ w.left = rest.left
    BY <1>2
  <1>14. k \in x .. o + n /\ rest.left \in 0 .. left
    <2>1. x \in Int /\ y \in Int
      BY <1>1 DEF x, y
    <2> HIDE DEF n
    <2> QED BY <1>1, <1>5, <1>10, <2>1
  <1>15. \/ k = o + n /\ Len(v) = left - rest.left
         \/ k < o + n /\ rest.left = 0 /\ Len(v) <= left /\ Len(E[k + 1]) > a + left
    <2> DEFINE f == rest.left
               g == Len(E[k + 1])
               l == Len(r)
               h == Len(v)
    <2>1. a \in Nat /\ b = a + m /\ m \in Nat /\ left \in Nat /\ m <= left /\ l \in Nat /\ h = m + l
          /\ f \in 0 .. left - m
      BY <1>1, <1>4, <1>5, <1>9, <1>10
    <2>2. CASE k = o + n /\ l = (left - m) - f
      <3> HIDE DEF f, g, l, h, v, r, a, b
      <3>1. h = left - f
        BY <2>1, <2>2
      <3> QED BY <2>2, <3>1 DEF h, f
    <2>3. CASE k < o + n /\ f = 0 /\ l <= left - m /\ g > b + (left - m)
      <3> HIDE DEF f, g, l, h, v, r, a, b
      <3>1. h <= left
        BY <2>1, <2>3
      <3>2. b + (left - m) = a + left
        BY <2>1
      <3> QED BY <2>3, <3>1, <3>2 DEF h, f, g
    <2> QED BY <1>11, <2>2, <2>3
  <1> QED BY <1>12, <1>13, <1>14, <1>15 DEF Written, E, x, n, a

(* So a part is written from any of its characters on. *)
LEMMA PartWritten ==
  ASSUME NEW part, NEW t, NEW o, PartOf(part, t, o), NEW limit \in Nat
  PROVE  \A i \in 1 .. Len(part) + 1, left \in 0 .. limit :
           Written(escapedOf(t), o + (i - 1), o + Len(part), left, writtenOf(part, limit)[i][left])
  <1> DEFINE E == escapedOf(t)
             F == writtenOf(part, limit)
             n == Len(part)
             T == {i \in 1 .. n + 1 : \A left \in 0 .. limit : Written(E, o + (i - 1), o + n, left, F[i][left])}
  <1>1. part \in Seq(Chars) /\ n \in Nat
    BY DEF PartOf
  <1> HIDE DEF E
  <1>2. ASSUME NEW i \in 1 .. n + 1, \A k \in i + 1 .. n + 1 : k \in T, NEW left \in 0 .. limit
        PROVE  Written(E, o + (i - 1), o + n, left, F[i][left])
    <2> DEFINE w == F[i][left]
               rest(quote) == F[quote + 1][left - (quote - i + 2)]
    <2>1. left \in Nat /\ left <= limit
      OBVIOUS
    <2>2. \/ \E end \in i - 1 .. n : WholeTo(part, i, left, end, w)
          \/ \E end \in i .. n : QuoteAtLimit(part, i, left, end, w)
          \/ \E quote \in i .. n : QuoteDoubled(part, i, left, quote, rest(quote), w)
      <3>1. w = WriteFrom(part, i, left, F)
        BY <1>1, WrittenSteps
      <3> HIDE DEF w, F
      <3> QED BY <1>1, <2>1, <3>1, WriteWays
    <2> HIDE DEF w
    <2>3. ASSUME NEW end \in i - 1 .. n, WholeTo(part, i, left, end, w)
          PROVE  Written(E, o + (i - 1), o + n, left, w)
      BY <2>1, <2>3, WholeWritten DEF E
    <2>4. ASSUME NEW end \in i .. n, QuoteAtLimit(part, i, left, end, w)
          PROVE  Written(E, o + (i - 1), o + n, left, w)
      BY <2>1, <2>4, LimitWritten DEF E
    <2>5. ASSUME NEW quote \in i .. n, QuoteDoubled(part, i, left, quote, rest(quote), w)
          PROVE  Written(E, o + (i - 1), o + n, left, w)
      <3> DEFINE l == left - (quote - i + 2)
      <3>1. quote + 1 \in 1 .. n + 1 /\ quote + 1 \in i + 1 .. n + 1 /\ l \in 0 .. limit /\ (quote + 1) - 1 = quote
        BY <1>1, <2>1, <2>5 DEF QuoteDoubled
      <3>2. rest(quote) \in Writings
        BY <1>1, <3>1, WrittenSteps
      <3> HIDE DEF l, F
      <3>3. Written(E, o + ((quote + 1) - 1), o + n, l, F[quote + 1][l])
        BY <1>2, <3>1
      <3>4. Written(E, o + quote, o + n, l, rest(quote))
        BY <3>1, <3>3 DEF l
      <3> HIDE DEF rest
      <3> QED BY <2>1, <2>5, <3>2, <3>4, DoubledWritten DEF E, l
    <2> QED BY <2>2, <2>3, <2>4, <2>5 DEF w
  <1>3. \A i \in 1 .. n + 1 : i \in T
    <2>1. \A i \in 1 .. n + 1 : (\A k \in i + 1 .. n + 1 : k \in T) => i \in T
      BY <1>2
    <2>2. n + 1 \in Nat
      BY <1>1
    <2> HIDE DEF T, n
    <2> QED BY <2>1, <2>2, InductionDown
  <1> QED BY <1>3 DEF E

-----------------------------------------------------------------------------
(* The answer, one part behind the other *)

(* w is what fits of the first characters of the text, and what is left of
   the limit. *)
Done(E, to, w) ==
  /\ w.left \in 0 .. OutputLimit
  /\ \E k \in 0 .. to :
       /\ w.text = E[k]
       /\ \/ k = to /\ Len(E[k]) = OutputLimit - w.left
          \/ k < to /\ w.left = 0 /\ Len(E[k]) <= OutputLimit /\ Len(E[k + 1]) > OutputLimit

(* The limit is reached: what comes behind is left out. *)
LEMMA NothingAdded ==
  ASSUME NEW t \in Seq(Chars), NEW from \in 0 .. Len(t), NEW to \in from .. Len(t), NEW w,
         Done(escapedOf(t), from, w), w.left = 0
  PROVE  Done(escapedOf(t), to, w)
  <1> DEFINE E == escapedOf(t)
  <1>1. PICK k \in 0 .. from :
          /\ w.text = E[k]
          /\ \/ k = from /\ Len(E[k]) = OutputLimit - 0
             \/ k < from /\ Len(E[k]) <= OutputLimit /\ Len(E[k + 1]) > OutputLimit
    BY DEF Done
  <1>2. OutputLimit \in Nat /\ Len(t) \in Nat /\ k \in 0 .. to /\ OutputLimit - 0 = OutputLimit
    BY HeapAssumption
  <1>3. CASE k = to
    <2>1. k = from
      BY <1>1, <1>3
    <2> QED BY <1>1, <1>2, <1>3, <2>1 DEF Done
  <1>4. CASE k < to
    <2>1. Len(E[k]) <= OutputLimit /\ Len(E[k + 1]) > OutputLimit
      <3>1. CASE k < from /\ Len(E[k]) <= OutputLimit /\ Len(E[k + 1]) > OutputLimit
        BY <3>1
      <3>2. CASE k = from /\ Len(E[k]) = OutputLimit
        <4>1. k + 1 \in 1 .. Len(t) /\ (k + 1) - 1 = k
          BY <1>4
        <4>2. Len(E[k + 1]) > Len(E[k]) /\ Len(E[k + 1]) \in Nat
          <5>1. Len(E[k + 1]) > Len(E[(k + 1) - 1]) /\ Len(E[k + 1]) \in Nat
            <6> HIDE DEF E
            <6> QED BY <4>1, EscapedLonger DEF E
          <5> QED BY <4>1, <5>1
        <4> HIDE DEF E
        <4> QED BY <1>2, <3>2, <4>2
      <3> HIDE DEF E
      <3> QED BY <1>1, <1>2, <3>1, <3>2
    <2> QED BY <1>1, <1>2, <1>4, <2>1, HeapAssumption DEF Done
  <1>5. k = to \/ k < to
    BY <1>2
  <1> QED BY <1>3, <1>4, <1>5

(* What is between two parts is a semicolon or nothing. *)
Joint(t, from, s) == s = <<>> \/ (s = <<";">> /\ t[from + 1] = ";")

(* A semicolon is one character. *)
LEMMA Semicolon == <<";">> \in Seq(Chars) /\ Len(<<";">>) = 1 /\ <<";">>[1] = ";"
  <1>1. ";" \in Chars
    BY DEF Chars
  <1>2. \A c \in Chars : <<c>> \in Seq(Chars) /\ Len(<<c>>) = 1 /\ <<c>>[1] = c
    OBVIOUS
  <1> QED BY <1>1, <1>2, Zenon

(* What is between two parts is at most one character long, *)
LEMMA BetweenLength ==
  ASSUME NEW t, NEW from, NEW s, Joint(t, from, s)
  PROVE  s \in Seq(Chars) /\ Len(s) \in {0, 1} /\ Len(s) \in Nat
  <1>1. CASE s = <<>>
    <2>1. <<>> \in Seq(Chars) /\ Len(<<>>) = 0
      OBVIOUS
    <2> QED BY <1>1, <2>1
  <1>2. CASE s = <<";">>
    BY <1>2, Semicolon
  <1> QED BY <1>1, <1>2 DEF Joint

(* and written as it is. *)
LEMMA BetweenWritten ==
  ASSUME NEW t \in Seq(Chars), NEW from \in Nat, NEW between, Joint(t, from, between),
         from + Len(between) <= Len(t)
  PROVE  Copied(escapedOf(t), from, from + Len(between), between, Len(between))
  <1> DEFINE E == escapedOf(t)
             a == E[from]
             b == Len(between)
             to == from + b
  <1>1. b \in {0, 1} /\ between \in Seq(Chars)
    BY BetweenLength
  <1>2. from \in 0 .. Len(t) /\ to \in 0 .. Len(t) /\ Len(t) \in Nat /\ (b = 1 => from + 1 \in 1 .. Len(t))
    <2>1. from + b <= Len(t)
      OBVIOUS
    <2> HIDE DEF b
    <2> QED BY <1>1, <2>1
  <1>3. E[from] \in Seq(Chars) /\ E[to] \in Seq(Chars)
    <2> HIDE DEF to
    <2> QED BY <1>2, EscapedSteps
  <1>4. E[to] = E[from] \o between
    <2>1. CASE between = <<>>
      <3>1. to = from
        BY <2>1
      <3>2. a \o <<>> = a
        BY <1>3, ConcatEmptySeq
      <3> QED BY <2>1, <3>1, <3>2
    <2>2. CASE between = <<";">> /\ t[from + 1] = ";"
      <3>1. Len(between) = 1
        BY <2>2
      <3>2. to = from + 1
        BY <3>1
      <3>3. from + 1 \in 1 .. Len(t) /\ (from + 1) - 1 = from
        <4> HIDE DEF b
        <4> QED BY <1>2, <3>1 DEF b
      <3>4. E[from + 1] = E[(from + 1) - 1] \o Doubled(t[from + 1])
        BY <3>3, EscapedSteps
      <3>5. ";" # Double
        BY DEF Double
      <3>6. Doubled(t[from + 1]) = <<";">>
        BY <2>2, <3>5 DEF Doubled
      <3> HIDE DEF E, to
      <3> QED BY <2>2, <3>2, <3>3, <3>4, <3>6
    <2> QED BY <2>1, <2>2 DEF Joint
  <1>5. Len(a) \in Nat /\ Len(a \o between) = Len(a) + Len(between)
    <2>1. a \in Seq(Chars)
      BY <1>3
    <2>2. between \in Seq(Chars)
      BY <1>1
    <2> HIDE DEF a, b
    <2> QED BY <2>1, <2>2, ConcatProperties, LenProperties
  <1>6. Len(E[to]) = Len(a) + b
    BY <1>4, <1>5
  <1> HIDE DEF E, to, b
  <1> QED BY <1>1, <1>3, <1>4, <1>5, <1>6 DEF Copied, E, to, b

(* WritePart goes on with a part where w ends. *)
LEMMA PartAdded ==
  ASSUME NEW t \in Seq(Chars), NEW from \in Nat, NEW w, Done(escapedOf(t), from, w),
         NEW between, Joint(t, from, between), NEW part, PartOf(part, t, from + Len(between))
  PROVE  Done(escapedOf(t), (from + Len(between)) + Len(part), WritePart(w, between, part))
  <1> DEFINE E == escapedOf(t)
             b == Len(between)
             o == from + b
             n == Len(part)
             to == o + n
             limit == w.left - b
             more == writtenOf(part, limit)[1][limit]
  <1>1. /\ part \in Seq(Chars) /\ o \in Nat /\ n \in Nat /\ to <= Len(t) /\ Len(t) \in Nat
        /\ to \in from .. Len(t) /\ o <= Len(t) /\ from \in 0 .. Len(t)
    <2>1. part \in Seq(Chars) /\ t \in Seq(Chars) /\ to <= Len(t)
      BY DEF PartOf
    <2>2. b \in Nat
      BY BetweenLength
    <2>3. n \in Nat /\ Len(t) \in Nat
      BY <2>1, LenProperties
    <2> HIDE DEF n, b
    <2> QED BY <2>1, <2>2, <2>3
  <1>2. w.left \in 0 .. OutputLimit /\ OutputLimit \in Nat
    BY HeapAssumption DEF Done
  <1>3. CASE w.left = 0
    <2>1. WritePart(w, between, part) = w
      BY <1>3 DEF WritePart
    <2>2. Done(E, to, w)
      <3> HIDE DEF E, to
      <3> QED BY <1>1, <1>3, NothingAdded DEF E
    <2> QED BY <2>1, <2>2
  <1>4. CASE w.left # 0
    <2> DEFINE a == E[from]
               r == more.text
               l == Len(r)
               x == w.left
               y == OutputLimit
               f == more.left
    <2>1. w.text = a /\ Len(a) = y - x
      BY <1>4 DEF Done
    <2>2. E[o] = a \o between /\ a \in Seq(Chars) /\ between \in Seq(Chars) /\ Len(a) \in Nat
          /\ b \in {0, 1} /\ Len(E[o]) = Len(a) + b
      <3>1. b \in {0, 1}
        BY BetweenLength
      <3>2. Copied(E, from, o, between, b)
        <4>1. from \in Nat /\ from + Len(between) <= Len(t) /\ Joint(t, from, between) /\ t \in Seq(Chars)
          BY <1>1
        <4> QED BY <4>1, BetweenWritten, Zenon
      <3> HIDE DEF E, o, b
      <3> QED BY <3>1, <3>2 DEF Copied
    <2>3. limit \in Nat /\ limit = x - b
      <3>1. x \in Nat /\ x # 0
        BY <1>2, <1>4
      <3> HIDE DEF x, b
      <3> QED BY <2>2, <3>1 DEF x
    <2>4. WritePart(w, between, part) = [text |-> (w.text \o between) \o r, left |-> f]
      BY <1>4 DEF WritePart
    <2>5. Written(E, o, to, limit, more) /\ more \in Writings
      <3>1. 1 \in 1 .. n + 1 /\ limit \in 0 .. limit /\ o + (1 - 1) = o
        <4> HIDE DEF limit, o, n
        <4> QED BY <1>1, <2>3
      <3> HIDE DEF limit, o, n
      <3>2. Written(escapedOf(t), o + (1 - 1), o + Len(part), limit, more)
        BY <2>3, <3>1, PartWritten DEF o, n
      <3>3. more \in Writings
        BY <1>1, <2>3, <3>1, WrittenSteps DEF n
      <3> QED BY <3>1, <3>2, <3>3 DEF n
    <2> HIDE DEF E, o, b, n, to, limit, more
    <2>6. PICK k \in o .. to :
            /\ E[k] = E[o] \o r
            /\ \/ k = to /\ l = limit - f
               \/ k < to /\ f = 0 /\ l <= limit /\ Len(E[k + 1]) > Len(E[o]) + limit
      BY <2>5 DEF Written
    <2>7. f \in 0 .. limit
      BY <2>5 DEF Written
    <2>8. Len(E[k]) = (y - x) + b + l /\ l \in Nat
      <3> DEFINE c == E[o]
      <3>1. r \in Seq(Chars)
        BY <2>5 DEF Writings
      <3>2. c \in Seq(Chars)
        BY <2>2, ConcatProperties
      <3>3. Len(c) = (y - x) + b
        BY <2>1, <2>2
      <3> HIDE DEF c, r
      <3>4. Len(c \o r) = Len(c) + l /\ l \in Nat
        BY <3>1, <3>2, ConcatProperties, LenProperties
      <3>5. E[k] = c \o r
        BY <2>6 DEF c
      <3> HIDE DEF x, y, b, l
      <3> QED BY <3>3, <3>4, <3>5
    <2>9. WritePart(w, between, part) = [text |-> E[k], left |-> f]
      BY <2>1, <2>2, <2>4, <2>6
    <2>10. k \in 0 .. to /\ f \in 0 .. y
      <3>1. to \in Nat
        <4> HIDE DEF x, y, f
        <4> QED BY <1>1
      <3> HIDE DEF x, y, b, f
      <3>2. x \in 0 .. y /\ y \in Nat /\ b \in {0, 1} /\ limit = x - b
        BY <1>2, <2>2, <2>3 DEF x, y
      <3> QED BY <1>1, <2>7, <3>1, <3>2
    <2>11. \/ k = to /\ Len(E[k]) = y - f
           \/ k < to /\ f = 0 /\ Len(E[k]) <= y /\ Len(E[k + 1]) > y
      <3> DEFINE g == Len(E[k + 1])
                 h == Len(E[k])
                 m == Len(E[o])
      <3>1. x \in 0 .. y /\ y \in Nat /\ b \in {0, 1} /\ limit = x - b /\ limit \in Nat /\ f \in 0 .. limit
        BY <1>2, <2>2, <2>3, <2>7
      <3>2. h = (y - x) + b + l /\ l \in Nat /\ m = (y - x) + b
        BY <2>1, <2>2, <2>8
      <3>3. CASE k = to /\ l = limit - f
        <4> HIDE DEF x, y, b, l, f, g, h, m
        <4>1. h = y - f
          BY <3>1, <3>2, <3>3
        <4> QED BY <3>3, <4>1 DEF h
      <3>4. CASE k < to /\ f = 0 /\ l <= limit /\ g > m + limit
        <4> HIDE DEF x, y, b, l, f, g, h, m
        <4>1. h <= y /\ m + limit = y
          BY <3>1, <3>2, <3>4
        <4> QED BY <3>4, <4>1 DEF h, g
      <3> QED BY <2>6, <3>3, <3>4
    <2>12. Done(E, to, [text |-> E[k], left |-> f])
      <3> HIDE DEF f
      <3> QED BY <2>10, <2>11 DEF Done
    <2> HIDE DEF f
    <2> QED BY <2>9, <2>12 DEF E, to, o, n, b
  <1> QED BY <1>3, <1>4

(* Nothing is written yet. *)
LEMMA NothingDone ==
  ASSUME NEW t \in Seq(Chars)
  PROVE  Done(escapedOf(t), 0, [text |-> <<>>, left |-> OutputLimit])
  <1> DEFINE E == escapedOf(t)
             w == [text |-> <<>>, left |-> OutputLimit]
  <1>1. E[0] = <<>> /\ Len(E[0]) = OutputLimit - OutputLimit /\ OutputLimit \in 0 .. OutputLimit /\ 0 \in 0 .. 0
    <2>1. E[0] = <<>>
      BY EscapedSteps
    <2>2. Len(<<>>) = 0
      OBVIOUS
    <2>3. OutputLimit \in Nat
      BY HeapAssumption
    <2> HIDE DEF E
    <2> QED BY <2>1, <2>2, <2>3
  <1>2. w.text = <<>> /\ w.left = OutputLimit
    OBVIOUS
  <1> HIDE DEF E, w
  <1> QED BY <1>1, <1>2 DEF Done, E, w

(* All parts are written, or the limit is reached: the answer is as much of
   the text as fits. *)
LEMMA AllDone ==
  ASSUME NEW t \in Seq(Chars), NEW w, Done(escapedOf(t), Len(t), w)
  PROVE  Longest(t, w.text)
  <1> DEFINE E == escapedOf(t)
             n == Len(t)
  <1>1. PICK k \in 0 .. n :
          /\ w.text = E[k]
          /\ \/ k = n /\ Len(E[k]) = OutputLimit - w.left
             \/ k < n /\ w.left = 0 /\ Len(E[k]) <= OutputLimit /\ Len(E[k + 1]) > OutputLimit
    BY DEF Done
  <1>2. w.left \in 0 .. OutputLimit /\ OutputLimit \in Nat /\ n \in Nat
    BY HeapAssumption DEF Done
  <1>3. Len(E[k]) <= OutputLimit /\ (k < n => Len(E[k + 1]) > OutputLimit)
    <2> HIDE DEF E, n
    <2> QED BY <1>1, <1>2
  <1> HIDE DEF E, n
  <1> QED BY <1>1, <1>3 DEF Longest, E, n

(* A text put together of three is made of its parts. *)
LEMMA PartThere ==
  ASSUME NEW a \in Seq(Chars), NEW b \in Seq(Chars), NEW c \in Seq(Chars)
  PROVE  /\ (a \o b) \o c \in Seq(Chars)
         /\ Len((a \o b) \o c) = Len(a) + Len(b) + Len(c)
         /\ PartOf(b, (a \o b) \o c, Len(a))
  <1> DEFINE x == Len(a)
             y == Len(b)
             z == Len(c)
             u == a \o b
             t == u \o c
  <1>1. x \in Nat /\ y \in Nat /\ z \in Nat
    OBVIOUS
  <1>2. u \in Seq(Chars) /\ Len(u) = x + y /\ \A i \in 1 .. x + y : u[i] = IF i <= x THEN a[i] ELSE b[i - x]
    BY ConcatProperties
  <1> HIDE DEF u
  <1>4. /\ t \in Seq(Chars) /\ Len(t) = Len(u) + z
        /\ \A i \in 1 .. Len(u) + z : t[i] = IF i <= Len(u) THEN u[i] ELSE c[i - Len(u)]
    <2>1. u \in Seq(Chars) /\ c \in Seq(Chars)
      BY <1>2
    <2> QED BY <2>1, ConcatProperties
  <1> HIDE DEF x, y, z, t
  <1>5. Len(t) = x + y + z
    BY <1>1, <1>2, <1>4
  <1>6. ASSUME NEW j \in 1 .. y PROVE b[j] = t[x + j]
    <2> DEFINE i == x + j
    <2>1. i \in 1 .. x + y /\ i \in 1 .. Len(u) + z /\ i <= Len(u) /\ ~ (i <= x) /\ i - x = j
      BY <1>1, <1>2
    <2> HIDE DEF i
    <2>2. t[i] = u[i] /\ u[i] = b[i - x]
      BY <1>2, <1>4, <2>1
    <2> QED BY <2>1, <2>2 DEF i
  <1>7. x + y <= Len(t)
    BY <1>1, <1>5
  <1> QED BY <1>1, <1>4, <1>5, <1>6, <1>7 DEF PartOf, x, y, z, t, u

-----------------------------------------------------------------------------
(* The parts of a text that stands in the ring *)

(* The description, a semicolon and the two parts of a text *)
Piece(t, d, one, two) ==
  /\ t \in Seq(Chars) /\ Len(t) = (Len(d) + 1 + Len(one)) + Len(two)
  /\ t[Len(d) + 1] = ";"
  /\ PartOf(d, t, 0) /\ PartOf(one, t, Len(d) + 1) /\ PartOf(two, t, Len(d) + 1 + Len(one))

(* They are where they should be. *)
LEMMA Pieces ==
  ASSUME NEW d \in Seq(Chars), NEW one \in Seq(Chars), NEW two \in Seq(Chars)
  PROVE  Piece((d \o <<";">>) \o (one \o two), d, one, two)
  <1> DEFINE s == <<";">>
             u == one \o two
             v == d \o s
             t == v \o u
             e == <<>>
  <1>1. s \in Seq(Chars) /\ Len(s) = 1
    BY Semicolon
  <1>2. e \in Seq(Chars) /\ Len(e) = 0
    OBVIOUS
  <1>3. u \in Seq(Chars) /\ Len(u) = Len(one) + Len(two)
    BY ConcatProperties
  <1> HIDE DEF s, e, t
  <1>4. v \in Seq(Chars) /\ Len(v) = Len(d) + 1
    <2>1. v \in Seq(Chars) /\ Len(v) = Len(d) + Len(s)
      BY <1>1, ConcatProperties
    <2> HIDE DEF v
    <2> QED BY <1>1, <2>1
  <1>5. t = v \o u
    BY DEF t
  <1> HIDE DEF u
  <1>6. t \in Seq(Chars) /\ PartOf(s, t, Len(d)) /\ Len(t) = Len(d) + Len(s) + Len(u)
    <2> DEFINE r == (d \o s) \o u
    <2>0. s \in Seq(Chars) /\ u \in Seq(Chars)
      BY <1>1, <1>3
    <2>1. r \in Seq(Chars) /\ Len(r) = Len(d) + Len(s) + Len(u) /\ PartOf(s, r, Len(d))
      BY <2>0, PartThere, Zenon
    <2>2. t = r
      BY <1>5
    <2> HIDE DEF r
    <2> QED BY <2>1, <2>2
  <1>7. PartOf(d, t, 0)
    <2>1. e \o d = d
      BY ConcatEmptySeq DEF e
    <2>2. t = (e \o d) \o (s \o u)
      <3>1. (d \o s) \o u = d \o (s \o u)
        BY <1>1, <1>3, CharsAssociative, SMTT(30)
      <3> QED BY <1>5, <2>1, <3>1
    <2>3. s \o u \in Seq(Chars)
      BY <1>1, <1>3, ConcatProperties
    <2>4. PartOf(d, t, Len(e))
      <3> DEFINE c == s \o u
      <3> HIDE DEF c
      <3>1. c \in Seq(Chars) /\ t = (e \o d) \o c
        BY <2>2, <2>3 DEF c
      <3>2. PartOf(d, (e \o d) \o c, Len(e))
        BY <1>2, <3>1, PartThere
      <3> QED BY <3>1, <3>2
    <2> QED BY <1>2, <2>4
  <1> HIDE DEF v
  <1>8. t = (v \o one) \o two
    BY <1>4, <1>5, CharsAssociative DEF u
  <1>9. PartOf(one, t, Len(d) + 1)
    <2>1. PartOf(one, t, Len(v))
      BY <1>4, <1>8, PartThere
    <2> QED BY <1>4, <2>1
  <1>10. PartOf(two, t, Len(d) + 1 + Len(one))
    <2> DEFINE a == v \o one
    <2>1. a \in Seq(Chars) /\ Len(a) = Len(v) + Len(one)
      BY <1>4, ConcatProperties
    <2>2. t = a \o two
      BY <1>8
    <2> HIDE DEF a
    <2>3. a \o two \in Seq(Chars) /\ (a \o two) \o e = a \o two
      <3>1. a \o two \in Seq(Chars)
        BY <2>1, ConcatProperties
      <3> DEFINE c == a \o two
      <3> HIDE DEF c
      <3>2. c \in Seq(Chars)
        BY <3>1 DEF c
      <3>3. c \o e = c
        BY <3>2, ConcatEmptySeq DEF e
      <3> QED BY <3>1, <3>3 DEF c
    <2>4. t = (a \o two) \o e
      BY <2>2, <2>3
    <2>5. PartOf(two, t, Len(a))
      BY <1>2, <2>1, <2>4, PartThere
    <2> QED BY <1>4, <2>1, <2>5
  <1>11. t[Len(d) + 1] = ";"
    <2>1. 1 \in 1 .. Len(s)
      BY <1>1
    <2>2. s[1] = t[Len(d) + 1]
      BY <1>6, <2>1 DEF PartOf
    <2>3. s[1] = ";"
      BY Semicolon DEF s
    <2> QED BY <2>2, <2>3
  <1>12. Len(t) = (Len(d) + 1 + Len(one)) + Len(two)
    <2> DEFINE x == Len(d)
               y == Len(one)
               z == Len(two)
    <2>1. x \in Nat /\ y \in Nat /\ z \in Nat
      BY LenProperties
    <2>2. Len(t) = x + 1 + (y + z)
      BY <1>1, <1>3, <1>6
    <2> HIDE DEF x, y, z
    <2>3. Len(t) = (x + 1 + y) + z
      BY <2>1, <2>2
    <2> QED BY <2>3 DEF x, y, z
  <1> QED BY <1>6, <1>7, <1>9, <1>10, <1>11, <1>12 DEF Piece, t, v, u, s

(* The parts of a text that stands in the ring give the text. *)
LEMMA HeldParts ==
  ASSUME NEW h, NEW p, NEW t, Holds(h, p, t)
  PROVE  \/ Parts(h, p) = <<t>>
         \/ \E one \in Seq(Chars), two \in Seq(Chars) : Parts(h, p) = <<one, two>> /\ one \o two = t
  <1> DEFINE data == [i \in 1 .. Size |-> h.data[i - 1]]
             C == Letter \cup {Nul}
  <1>1. /\ Size \in Nat \ {0} /\ p \in 0 .. Size - 1 /\ h.data \in [0 .. Size - 1 -> C]
        /\ t \in Seq(Letter) /\ Len(t) \in 1 .. Size - 1
    BY HeapAssumption DEF Cell, Heap, Holds
  <1>2. data \in Seq(C) /\ Len(data) = Size /\ C \subseteq Chars
    <2>1. C \subseteq Chars
      BY DEF Chars
    <2>2. \A i \in 1 .. Size : i - 1 \in 0 .. Size - 1
      BY <1>1
    <2> HIDE DEF C
    <2>3. \A i \in 1 .. Size : h.data[i - 1] \in C
      BY <1>1, <2>2
    <2> DEFINE cell(i) == h.data[i - 1]
    <2>4. \A i \in 1 .. Size : cell(i) \in C
      BY <2>3
    <2> HIDE DEF cell
    <2>5. [i \in 1 .. Size |-> cell(i)] \in [1 .. Size -> C]
      BY <2>4
    <2> USE DEF cell
    <2>6. data \in [1 .. Size -> C]
      BY <2>5
    <2>7. Size \in Nat
      BY <1>1
    <2> HIDE DEF data
    <2>8. data \in Seq(C) /\ Len(data) = Size
      BY <2>6, <2>7
    <2> QED BY <2>1, <2>8
  <1>3. TextAt(h, p) = t
    BY TextRead
  <1>4. CASE p + Len(t) < Size
    <2> DEFINE one == SubSeq(data, p + 1, p + Len(t))
    <2>1. Parts(h, p) = <<one>>
      BY <1>4, OnePart DEF Parts
    <2> HIDE DEF one
    <2>2. TextAt(h, p) = one
      BY <2>1 DEF TextAt
    <2> QED BY <1>3, <2>1, <2>2
  <1>5. CASE p + Len(t) >= Size
    <2> DEFINE n == Size - p
               m == p + Len(t) - Size
               one == SubSeq(data, p + 1, p + n)
               two == SubSeq(data, 1, m)
    <2>1. Parts(h, p) = <<one, two>>
      BY <1>5, TwoParts DEF Parts
    <2> HIDE DEF data, C
    <2>2. n \in 1 .. Size /\ p + n = Size /\ m \in 0 .. Size
      BY <1>1, <1>5, SMTT(30)
    <2>3. one \in Seq(Chars)
      <3> HIDE DEF n
      <3>1. \A i \in p + 1 .. p + n : data[i] \in Chars
        BY <1>1, <1>2, <2>2
      <3>2. p + 1 \in Int /\ p + n \in Int
        BY <1>1, <2>2
      <3> QED BY <3>1, <3>2, SubSeqProperties
    <2>4. two \in Seq(Chars)
      <3> HIDE DEF m
      <3>1. \A i \in 1 .. m : data[i] \in Chars
        BY <1>1, <1>2, <2>2
      <3>2. 1 \in Int /\ m \in Int
        BY <1>1, <2>2
      <3> QED BY <3>1, <3>2, SubSeqProperties
    <2> HIDE DEF one, two
    <2>5. TextAt(h, p) = one \o two
      BY <2>1 DEF TextAt
    <2> QED BY <1>3, <2>1, <2>3, <2>4, <2>5
  <1>6. p + Len(t) < Size \/ p + Len(t) >= Size
    BY <1>1
  <1> QED BY <1>4, <1>5, <1>6

(* What is written of the description, *)
DescriptionPart == WritePart([text |-> <<>>, left |-> OutputLimit], <<>>, Description)

(* and of the first part of the text behind it *)
FirstPart(part) == WritePart(DescriptionPart, <<";">>, part)

(* SCPI_ResultError by the number of parts *)
LEMMA ResultError ==
  ASSUME NEW parts
  PROVE  /\ Len(parts) = 0 => SCPI_ResultError(parts) = DescriptionPart.text
         /\ Len(parts) = 1 => SCPI_ResultError(parts) = FirstPart(parts[1]).text
         /\ Len(parts) = 2 => SCPI_ResultError(parts) = WritePart(FirstPart(parts[1]), <<>>, parts[2]).text
  <1> DEFINE a == DescriptionPart.text
             b == FirstPart(parts[1]).text
             c == WritePart(FirstPart(parts[1]), <<>>, parts[2]).text
             n == Len(parts)
  <1>1. SCPI_ResultError(parts) = CASE n = 0 -> a [] n = 1 -> b [] n = 2 -> c
    BY Zenon DEF SCPI_ResultError, DescriptionPart, FirstPart
  <1> HIDE DEF a, b, c, n
  <1>2. /\ n = 0 => SCPI_ResultError(parts) = a
        /\ n = 1 => SCPI_ResultError(parts) = b
        /\ n = 2 => SCPI_ResultError(parts) = c
    BY <1>1
  <1> QED BY <1>2 DEF a, b, c, n

(* The description is written first. *)
LEMMA DescriptionDone ==
  ASSUME NEW t, PartOf(Description, t, 0)
  PROVE  Done(escapedOf(t), Len(Description), DescriptionPart)
  <1> DEFINE w == [text |-> <<>>, left |-> OutputLimit]
             d == Len(Description)
             e == <<>>
  <1>1. t \in Seq(Chars) /\ d \in Nat
    <2>1. t \in Seq(Chars) /\ Description \in Seq(Chars)
      BY DEF PartOf
    <2> QED BY <2>1, LenProperties
  <1>2. Done(escapedOf(t), 0, w)
    BY <1>1, NothingDone
  <1>3. Joint(t, 0, e)
    BY DEF Joint
  <1>4. 0 + Len(e) = 0
    OBVIOUS
  <1> HIDE DEF w, e, d
  <1>5. Done(escapedOf(t), (0 + Len(e)) + Len(Description), WritePart(w, e, Description))
    <2>1. 0 \in Nat /\ PartOf(Description, t, 0 + Len(e))
      BY <1>4
    <2> QED BY <1>1, <1>2, <1>3, <2>1, PartAdded
  <1>6. (0 + Len(e)) + Len(Description) = d
    BY <1>1, <1>4 DEF d
  <1> QED BY <1>5, <1>6 DEF DescriptionPart, w, e, d

(* The answer for a text in two parts *)
LEMMA PiecesWritten ==
  ASSUME NEW one \in Seq(Chars), NEW two \in Seq(Chars), NEW t, Piece(t, Description, one, two)
  PROVE  /\ Done(escapedOf(t), Len(Description) + 1 + Len(one), FirstPart(one))
         /\ Done(escapedOf(t), Len(t), WritePart(FirstPart(one), <<>>, two))
  <1> DEFINE d == Len(Description)
             s == <<";">>
             e == <<>>
             E == escapedOf(t)
             m == d + 1 + Len(one)
  <1>1. /\ PartOf(Description, t, 0) /\ PartOf(one, t, d + 1) /\ PartOf(two, t, m)
        /\ t[d + 1] = ";" /\ t \in Seq(Chars) /\ Len(t) = m + Len(two)
    BY DEF Piece
  <1>2. d \in Nat /\ Len(one) \in Nat /\ Len(two) \in Nat /\ m \in Nat
    <2>1. Description \in Seq(Chars)
      BY <1>1 DEF PartOf
    <2>2. d \in Nat /\ Len(one) \in Nat /\ Len(two) \in Nat
      BY <2>1, LenProperties
    <2> HIDE DEF d
    <2> QED BY <2>2
  <1>3. Len(s) = 1 /\ Len(e) = 0
    <2>1. Len(e) = 0
      OBVIOUS
    <2> QED BY <2>1, Semicolon
  <1>4. Joint(t, d, s) /\ Joint(t, m, e)
    BY <1>1 DEF Joint
  <1>5. Done(E, d, DescriptionPart)
    BY <1>1, DescriptionDone
  <1>6. FirstPart(one) = WritePart(DescriptionPart, s, one)
    BY DEF FirstPart
  <1> HIDE DEF d, s, e, E, m
  <1>7. Done(E, m, FirstPart(one))
    <2>1. PartOf(one, t, d + Len(s))
      BY <1>1, <1>3
    <2>2. Done(E, (d + Len(s)) + Len(one), WritePart(DescriptionPart, s, one))
      BY <1>1, <1>2, <1>4, <1>5, <2>1, PartAdded DEF E
    <2>3. (d + Len(s)) + Len(one) = m
      BY <1>2, <1>3 DEF m
    <2> QED BY <1>6, <2>2, <2>3
  <1>8. Done(E, Len(t), WritePart(FirstPart(one), e, two))
    <2>0. m + Len(e) = m
      BY <1>2, <1>3
    <2>1. PartOf(two, t, m + Len(e)) /\ m + Len(e) = m
      <3>1. PartOf(two, t, m)
        BY <1>1
      <3> QED BY <3>1, <2>0
    <2>2. Done(E, (m + Len(e)) + Len(two), WritePart(FirstPart(one), e, two))
      BY <1>1, <1>2, <1>4, <1>7, <2>1, PartAdded DEF E
    <2> QED BY <1>1, <2>1, <2>2
  <1> QED BY <1>7, <1>8 DEF E, m, d, e

(* The answer for each error is as much of its description and text as
   fits. *)
LEMMA ArrangedAnswers ==
  ASSUME HeapInv
  PROVE  AnswerWithinLimit
  <1>1. PICK at : Layout(heap, queue, at)
    BY DEF HeapInv, Arranged
  <1>2. DOMAIN queue = 1 .. Len(queue)
    BY <1>1 DEF Layout
  <1> DEFINE d == Description
             full(i) == (d \o <<";">>) \o queue[i].text
  <1>3. d \in Seq(Chars) /\ Seq(Letter) \subseteq Seq(Chars)
    <2>1. Letter \subseteq Chars
      BY DEF Chars
    <2>2. \A u \in Seq(Letter) : u \in Seq(Chars)
      BY <2>1, SeqMonotonic
    <2>3. d \in Seq(Letter)
      BY HeapAssumption
    <2> QED BY <2>2, <2>3
  <1>4. Longest(d, SCPI_ResultError(<<>>))
    <2>1. PartOf(d, d, 0)
      <3>1. Len(d) \in Nat
        BY <1>3, LenProperties
      <3> HIDE DEF d
      <3>2. 0 + Len(d) <= Len(d) /\ \A j \in 1 .. Len(d) : 0 + j = j
        BY <3>1
      <3> QED BY <1>3, <3>2 DEF PartOf
    <2>2. Done(escapedOf(d), Len(d), DescriptionPart)
      BY <2>1, DescriptionDone
    <2>3. Longest(d, DescriptionPart.text)
      BY <1>3, <2>2, AllDone
    <2>4. Len(<<>>) = 0
      OBVIOUS
    <2>5. SCPI_ResultError(<<>>) = DescriptionPart.text
      BY <2>4, ResultError
    <2> QED BY <2>3, <2>5
  <1>5. ASSUME NEW i \in 1 .. Len(queue), queue[i].ptr # NULL
        PROVE  Longest(full(i), SCPI_ResultError(Parts(heap, queue[i].ptr)))
    <2> DEFINE s == queue[i].text
               parts == Parts(heap, queue[i].ptr)
    <2>1. Holds(heap, queue[i].ptr, s)
      BY <1>1, <1>5, EntryHolds
    <2>2. s \in Seq(Chars)
      BY <1>3, <2>1 DEF Holds
    <2>3. \/ parts = <<s>>
          \/ \E one \in Seq(Chars), two \in Seq(Chars) : parts = <<one, two>> /\ one \o two = s
      <3> HIDE DEF s
      <3> QED BY <2>1, HeldParts
    <2> HIDE DEF s, parts, d
    <2>4. CASE parts = <<s>>
      <3> DEFINE e == <<>>
                 t == (d \o <<";">>) \o (s \o e)
      <3>1. e \in Seq(Chars) /\ s \o e = s /\ Len(e) = 0
        <4>1. e \in Seq(Chars) /\ Len(e) = 0
          OBVIOUS
        <4> QED BY <2>2, <4>1, ConcatEmptySeq
      <3>2. t = full(i)
        BY <3>1 DEF s
      <3> HIDE DEF e
      <3>3. Piece(t, d, s, e)
        BY <1>3, <2>2, <3>1, Pieces
      <3> HIDE DEF t
      <3>4. Done(escapedOf(t), Len(d) + 1 + Len(s), FirstPart(s))
        BY <2>2, <3>1, <3>3, PiecesWritten DEF d
      <3>5. t \in Seq(Chars) /\ Len(t) = Len(d) + 1 + Len(s)
        <4>1. t \in Seq(Chars) /\ Len(t) = (Len(d) + 1 + Len(s)) + Len(e)
          BY <3>3 DEF Piece
        <4>2. Len(d) \in Nat /\ Len(s) \in Nat
          BY <1>3, <2>2, LenProperties
        <4> QED BY <3>1, <4>1, <4>2
      <3>6. Longest(t, FirstPart(s).text)
        BY <3>4, <3>5, AllDone
      <3>7. Len(parts) = 1 /\ parts[1] = s
        BY <2>4
      <3>8. SCPI_ResultError(parts) = FirstPart(s).text
        BY <3>7, ResultError
      <3> QED BY <3>2, <3>6, <3>8 DEF parts
    <2>5. ASSUME NEW one \in Seq(Chars), NEW two \in Seq(Chars), parts = <<one, two>> /\ one \o two = s
          PROVE  Longest(full(i), SCPI_ResultError(Parts(heap, queue[i].ptr)))
      <3> DEFINE t == (d \o <<";">>) \o (one \o two)
                 w == WritePart(FirstPart(one), <<>>, two)
      <3>1. t = full(i)
        BY <2>5 DEF s
      <3>2. Piece(t, d, one, two)
        BY <1>3, Pieces
      <3> HIDE DEF t, w
      <3>3. Done(escapedOf(t), Len(t), w)
        BY <3>2, PiecesWritten DEF d, w
      <3>4. t \in Seq(Chars)
        BY <3>2 DEF Piece
      <3>5. Longest(t, w.text)
        BY <3>3, <3>4, AllDone
      <3>6. Len(parts) = 2 /\ parts[1] = one /\ parts[2] = two
        BY <2>5
      <3>7. SCPI_ResultError(parts) = w.text
        BY <3>6, ResultError DEF w
      <3> QED BY <3>1, <3>5, <3>7 DEF parts
    <2> QED BY <2>3, <2>4, <2>5
  <1> QED BY <1>2, <1>4, <1>5 DEF AnswerWithinLimit

-----------------------------------------------------------------------------
(* Theorems of the specification *)

(* Each text of the error queue has its own place in the ring, in the order
   of the queue and without a gap, for every length of buffer and queue. *)
THEOREM TextsArranged == Spec => []HeapInv
  BY HeapInit, HeapStep, PTL DEF Spec

(* A queued error keeps the text it was pushed with until it is read, also
   where the text goes over the end of the buffer (utils.c:785-900). *)
THEOREM TextsStayIntact == Spec => []TextsIntact
  BY HeapInit, HeapStep, ArrangedTexts, PTL DEF Spec

(* No character is lost or counted twice by scpiheap_strndup and
   scpiheap_free, and what is free is in one piece that begins at wr. *)
THEOREM NoSpaceLost == Spec => []SpaceAccounted
  BY HeapInit, HeapStep, ArrangedSpace, PTL DEF Spec

(* SCPI_ResultError answers as much of the description and the text of an
   error as fits the limit, every quote doubled and none of them halved,
   wherever the text stands in the ring (parser.c:543-601). *)
THEOREM AnswersFit == Spec => []AnswerWithinLimit
  BY HeapInit, HeapStep, ArrangedAnswers, PTL DEF Spec

==============================================================================
