-------------------------- MODULE ErrorFifo_proofs --------------------------
(***************************************************************************)
(* Proofs about ErrorFifo, for every set of sizes, codes, texts and blocks.*)
(* The ring operations are characterised once, by what they do to the      *)
(* sequence Nth(f, 0), ..., Nth(f, count - 1); everything else uses only   *)
(* that.                                                                   *)
(***************************************************************************)
EXTENDS ErrorFifo, Integers, TLAPS

(* A ring in a legal position, of whatever contents. *)
RingOK(f) ==
  /\ f.size \in Nat \ {0}
  /\ f \in [wr : 0 .. f.size - 1, rd : 0 .. f.size - 1, count : 0 .. f.size,
            size : {f.size}, data : [0 .. f.size - 1 -> Slot \cup {Uninit}]]
  /\ f.wr = (f.rd + f.count) % f.size

-----------------------------------------------------------------------------
(* The record each operation leaves, field by field. *)
LEMMA AddFields ==
  ASSUME NEW f, RingOK(f), NEW v
  PROVE  fifo_add(f, v) =
           [wr |-> (f.wr + 1) % f.size, rd |-> f.rd, count |-> f.count + 1,
            size |-> f.size, data |-> [f.data EXCEPT ![f.wr] = v]]
  <1> DEFINE P == 0 .. f.size - 1
             C == 0 .. f.size
             D == [0 .. f.size - 1 -> Slot \cup {Uninit}]
             w == (f.wr + 1) % f.size
             c == f.count + 1
             d == [f.data EXCEPT ![f.wr] = v]
  <1>1. f \in [wr : P, rd : P, count : C, size : {f.size}, data : D]
    BY DEF RingOK
  <1>2. fifo_add(f, v) = [f EXCEPT !.data = d, !.wr = w, !.count = c]
    BY DEF fifo_add
  <1> HIDE DEF P, C, D, w, c, d
  <1>3. fifo_add(f, v) = [wr |-> w, rd |-> f.rd, count |-> c, size |-> f.size, data |-> d]
    BY <1>1, <1>2
  <1> QED BY <1>3 DEF w, c, d

(* What fifo_remove changes of the ring. *)
LEMMA RemoveFields ==
  ASSUME NEW f, RingOK(f)
  PROVE  /\ fifo_remove(f) =
              [wr |-> f.wr, rd |-> (f.rd + 1) % f.size, count |-> f.count - 1,
               size |-> f.size, data |-> f.data]
         /\ fifo_remove_last(f) =
              [wr |-> (f.wr + f.size - 1) % f.size, rd |-> f.rd,
               count |-> f.count - 1, size |-> f.size, data |-> f.data]
         /\ fifo_clear(f) =
              [wr |-> 0, rd |-> 0, count |-> 0, size |-> f.size, data |-> f.data]
  <1> DEFINE P == 0 .. f.size - 1
             C == 0 .. f.size
             D == [0 .. f.size - 1 -> Slot \cup {Uninit}]
             r == (f.rd + 1) % f.size
             w == (f.wr + f.size - 1) % f.size
             c == f.count - 1
  <1>1. f \in [wr : P, rd : P, count : C, size : {f.size}, data : D]
    BY DEF RingOK
  <1>2. /\ fifo_remove(f) = [f EXCEPT !.rd = r, !.count = c]
        /\ fifo_remove_last(f) = [f EXCEPT !.wr = w, !.count = c]
        /\ fifo_clear(f) = [f EXCEPT !.wr = 0, !.rd = 0, !.count = 0]
    BY DEF fifo_remove, fifo_remove_last, fifo_clear
  <1> HIDE DEF P, C, D, r, w, c
  <1>3. /\ fifo_remove(f) =
             [wr |-> f.wr, rd |-> r, count |-> c, size |-> f.size, data |-> f.data]
        /\ fifo_remove_last(f) =
             [wr |-> w, rd |-> f.rd, count |-> c, size |-> f.size, data |-> f.data]
        /\ fifo_clear(f) =
             [wr |-> 0, rd |-> 0, count |-> 0, size |-> f.size, data |-> f.data]
    BY <1>1, <1>2
  <1> QED BY <1>3 DEF r, w, c

(* A record with legal fields is a legal ring. *)
LEMMA MakeRing ==
  ASSUME NEW n \in Nat \ {0}, NEW w \in 0 .. n - 1, NEW r \in 0 .. n - 1,
         NEW c \in 0 .. n, NEW d \in [0 .. n - 1 -> Slot \cup {Uninit}],
         w = (r + c) % n
  PROVE  RingOK([wr |-> w, rd |-> r, count |-> c, size |-> n, data |-> d])
  BY DEF RingOK

-----------------------------------------------------------------------------
(* fifo_add puts its value behind the entries already there and moves none. *)
LEMMA AddNth ==
  ASSUME NEW f, RingOK(f), f.count < f.size, NEW v \in Slot
  PROVE  LET g == fifo_add(f, v)
         IN  /\ RingOK(g) /\ g.size = f.size /\ g.count = f.count + 1
             /\ \A i \in 0 .. f.count - 1 : Nth(g, i) = Nth(f, i)
             /\ Nth(g, f.count) = v
  <1> DEFINE g == fifo_add(f, v)
             n == f.size
             r == f.rd
             c == f.count
             w == f.wr
             d == [f.data EXCEPT ![w] = v]
             w1 == (w + 1) % n
  <1>1. /\ n \in Nat \ {0} /\ r \in 0 .. n - 1 /\ w \in 0 .. n - 1
        /\ c \in 0 .. n - 1 /\ w = (r + c) % n
    BY DEF RingOK
  <1>2. f.data \in [0 .. n - 1 -> Slot \cup {Uninit}]
    BY DEF RingOK
  <1>3. g = [wr |-> w1, rd |-> r, count |-> c + 1, size |-> n, data |-> d]
    BY AddFields
  <1> HIDE DEF g, n, r, c, w
  <1>4. /\ (w + 1) % n = (r + (c + 1)) % n
        /\ (w + 1) % n \in 0 .. n - 1
        /\ \A i \in 0 .. c - 1 : (r + i) % n \in 0 .. n - 1 /\ (r + i) % n # w
    BY <1>1
  <1>5. d \in [0 .. n - 1 -> Slot \cup {Uninit}] /\ d[w] = v
        /\ \A j \in 0 .. n - 1 : j # w => d[j] = f.data[j]
    BY <1>1, <1>2
  <1> HIDE DEF d, w1
  <1>6. RingOK(g)
    <2>1. w1 \in 0 .. n - 1 /\ w1 = (r + (c + 1)) % n
      BY <1>4 DEF w1
    <2>2. c + 1 \in 0 .. n
      BY <1>1
    <2> QED BY <1>1, <1>3, <1>5, <2>1, <2>2, MakeRing
  <1>7. g.size = n /\ g.count = c + 1 /\ g.rd = r /\ g.data = d
    BY <1>3
  <1>8. \A i \in 0 .. c - 1 : Nth(g, i) = Nth(f, i)
    BY <1>4, <1>5, <1>7 DEF Nth, n, r
  <1>9. Nth(g, c) = v
    BY <1>1, <1>5, <1>7 DEF Nth
  <1> QED BY <1>6, <1>7, <1>8, <1>9 DEF g, n, c

(* fifo_remove hands back the oldest entry and moves the others up by one. *)
LEMMA RemoveNth ==
  ASSUME NEW f, RingOK(f), f.count # 0
  PROVE  LET g == fifo_remove(f)
         IN  /\ RingOK(g) /\ g.size = f.size /\ g.count = f.count - 1
             /\ \A i \in 0 .. f.count - 2 : Nth(g, i) = Nth(f, i + 1)
             /\ fifo_remove_value(f) = Nth(f, 0)
  <1> DEFINE g == fifo_remove(f)
             n == f.size
             r == f.rd
             c == f.count
             w == f.wr
             d == f.data
             r1 == (r + 1) % n
  <1>1. /\ n \in Nat \ {0} /\ r \in 0 .. n - 1 /\ w \in 0 .. n - 1
        /\ c \in 1 .. n /\ w = (r + c) % n
    BY DEF RingOK
  <1>2. d \in [0 .. n - 1 -> Slot \cup {Uninit}]
    BY DEF RingOK
  <1>3. g = [wr |-> w, rd |-> r1, count |-> c - 1, size |-> n, data |-> d]
    BY RemoveFields
  <1> HIDE DEF g, n, r, c, w, d
  <1>4. /\ (r + 0) % n = r
        /\ r1 \in 0 .. n - 1
        /\ w = (r1 + (c - 1)) % n
    BY <1>1
  <1>5. \A i \in 0 .. c - 2 : (r1 + i) % n = (r + (i + 1)) % n
    BY <1>1
  <1> HIDE DEF r1
  <1>6. RingOK(g)
    <2>1. c - 1 \in 0 .. n
      BY <1>1
    <2> QED BY <1>1, <1>2, <1>3, <1>4, <2>1, MakeRing
  <1>7. g.size = n /\ g.count = c - 1 /\ g.rd = r1 /\ g.data = d
    BY <1>3
  <1>8. \A i \in 0 .. c - 2 : Nth(g, i) = Nth(f, i + 1)
    BY <1>5, <1>7 DEF Nth, n, r, d
  <1>9. fifo_remove_value(f) = Nth(f, 0)
    BY <1>4 DEF fifo_remove_value, Nth, n, r
  <1> QED BY <1>6, <1>7, <1>8, <1>9 DEF g, n, c

(* fifo_remove_last hands back the newest entry and moves none. *)
LEMMA RemoveLastNth ==
  ASSUME NEW f, RingOK(f), f.count # 0
  PROVE  LET g == fifo_remove_last(f)
         IN  /\ RingOK(g) /\ g.size = f.size /\ g.count = f.count - 1
             /\ \A i \in 0 .. f.count - 2 : Nth(g, i) = Nth(f, i)
             /\ fifo_remove_last_value(f) = Nth(f, f.count - 1)
  <1> DEFINE g == fifo_remove_last(f)
             n == f.size
             r == f.rd
             c == f.count
             w == f.wr
             d == f.data
             w1 == (w + n - 1) % n
  <1>1. /\ n \in Nat \ {0} /\ r \in 0 .. n - 1 /\ w \in 0 .. n - 1
        /\ c \in 1 .. n /\ w = (r + c) % n
    BY DEF RingOK
  <1>2. d \in [0 .. n - 1 -> Slot \cup {Uninit}]
    BY DEF RingOK
  <1>3. g = [wr |-> w1, rd |-> r, count |-> c - 1, size |-> n, data |-> d]
    BY RemoveFields
  <1>4. fifo_remove_last_value(f) = d[w1]
    BY DEF fifo_remove_last_value
  <1> HIDE DEF g, n, r, c, w, d
  <1>5. w1 = (r + (c - 1)) % n /\ w1 \in 0 .. n - 1
    BY <1>1
  <1> HIDE DEF w1
  <1>6. RingOK(g)
    <2>1. c - 1 \in 0 .. n
      BY <1>1
    <2> QED BY <1>1, <1>2, <1>3, <1>5, <2>1, MakeRing
  <1>7. g.size = n /\ g.count = c - 1 /\ g.rd = r /\ g.data = d
    BY <1>3
  <1>8. \A i \in 0 .. c - 2 : Nth(g, i) = Nth(f, i)
    BY <1>7 DEF Nth, n, r, d
  <1>9. fifo_remove_last_value(f) = Nth(f, c - 1)
    BY <1>4, <1>5 DEF Nth, n, r, d
  <1> QED BY <1>6, <1>7, <1>8, <1>9 DEF g, n, c

(* fifo_clear leaves an empty ring. *)
LEMMA ClearNth ==
  ASSUME NEW f, RingOK(f)
  PROVE  LET g == fifo_clear(f)
         IN  RingOK(g) /\ g.size = f.size /\ g.count = 0
  <1> DEFINE n == f.size
             d == f.data
  <1>1. n \in Nat \ {0} /\ d \in [0 .. n - 1 -> Slot \cup {Uninit}]
    BY DEF RingOK
  <1>2. fifo_clear(f) = [wr |-> 0, rd |-> 0, count |-> 0, size |-> n, data |-> d]
    BY RemoveFields
  <1> HIDE DEF n, d
  <1>3. 0 \in 0 .. n - 1 /\ 0 \in 0 .. n /\ 0 = (0 + 0) % n
    BY <1>1
  <1>4. RingOK(fifo_clear(f))
    BY <1>1, <1>2, <1>3, MakeRing
  <1> QED BY <1>2, <1>4 DEF n

-----------------------------------------------------------------------------
(* Who owns the blocks of heap h: the entries of ring f, one block each. *)
Written(f) == \A i \in 0 .. f.count - 1 : Nth(f, i) \in Slot

Ptr(f, i) == Nth(f, i).ptr

Owns(f, h) ==
  /\ \A b \in Block : h[b] # Free <=> \E i \in 0 .. f.count - 1 : Ptr(f, i) = b
  /\ \A i, j \in 0 .. f.count - 1 : i # j /\ Ptr(f, i) = Ptr(f, j) => Ptr(f, i) = NULL

(* The inductive invariant.  TypeOK alone does not say which slots have been
   written, RingInv needs the type of the indices, and InfoOwnership is what
   makes every free legal. *)
IInv ==
  /\ fifo.size \in Sizes
  /\ RingOK(fifo)
  /\ Written(fifo)
  /\ heap \in [Block -> Text \cup {Free}]
  /\ Owns(fifo, heap)
  /\ badFree = FALSE

(* Adding an entry with a fresh block, or with none. *)
LEMMA OwnsAdd ==
  ASSUME NEW f, RingOK(f), f.count < f.size, Written(f),
         NEW h \in [Block -> Text \cup {Free}], Owns(f, h),
         NEW c \in Code \cup {OverflowCode}, NEW p \in Block \cup {NULL},
         p \in Block => h[p] = Free, NEW t, p \in Block => t \in Text
  PROVE  LET g == fifo_add(f, [code |-> c, ptr |-> p])
         IN  /\ RingOK(g) /\ g.size = f.size /\ Written(g)
             /\ Stored(h, p, t) \in [Block -> Text \cup {Free}]
             /\ Owns(g, Stored(h, p, t))
  <1> DEFINE e == [code |-> c, ptr |-> p]
             g == fifo_add(f, e)
             h1 == Stored(h, p, t)
  <1>1. e \in Slot /\ e.ptr = p
    BY DEF Slot
  <1>2. f.count \in Nat
    BY DEF RingOK
  <1> HIDE DEF e
  <1>3. /\ RingOK(g) /\ g.size = f.size /\ g.count = f.count + 1
        /\ \A i \in 0 .. f.count - 1 : Nth(g, i) = Nth(f, i)
        /\ Nth(g, f.count) = e
    BY <1>1, AddNth
  <1> HIDE DEF g
  <1>4. Written(g)
    BY <1>1, <1>2, <1>3 DEF Written
  <1>5. /\ h1 \in [Block -> Text \cup {Free}]
        /\ \A b \in Block : h1[b] = IF b = p THEN t ELSE h[b]
    BY DEF Stored
  <1> HIDE DEF h1
  <1>6. /\ \A i \in 0 .. f.count - 1 : Ptr(g, i) = Ptr(f, i)
        /\ Ptr(g, f.count) = p
    BY <1>1, <1>3 DEF Ptr
  <1>7. ASSUME NEW b \in Block
        PROVE  h1[b] # Free <=> \E i \in 0 .. g.count - 1 : Ptr(g, i) = b
    <2>1. CASE b = p
      BY <2>1, <1>2, <1>3, <1>5, <1>6, FreeAssumption
    <2>2. CASE b # p
      <3>1. h1[b] = h[b]
        BY <2>2, <1>5
      <3>2. (\E i \in 0 .. g.count - 1 : Ptr(g, i) = b)
              <=> (\E i \in 0 .. f.count - 1 : Ptr(f, i) = b)
        BY <2>2, <1>2, <1>3, <1>6
      <3> QED BY <3>1, <3>2 DEF Owns
    <2> QED BY <2>1, <2>2
  <1>8. ASSUME NEW i \in 0 .. f.count - 1, Ptr(f, i) = p
        PROVE  p = NULL
    BY <1>8 DEF Owns
  <1>9. ASSUME NEW i \in 0 .. g.count - 1, NEW j \in 0 .. g.count - 1,
               i # j, Ptr(g, i) = Ptr(g, j)
        PROVE  Ptr(g, i) = NULL
    <2>1. CASE i = f.count
      BY <2>1, <1>2, <1>3, <1>6, <1>8, <1>9
    <2>2. CASE j = f.count
      BY <2>2, <1>2, <1>3, <1>6, <1>8, <1>9
    <2>3. CASE i # f.count /\ j # f.count
      BY <2>3, <1>2, <1>3, <1>6, <1>9 DEF Owns
    <2> QED BY <2>1, <2>2, <2>3
  <1>10. Owns(g, h1)
    BY <1>7, <1>9 DEF Owns
  <1> QED BY <1>3, <1>4, <1>5, <1>10 DEF g, h1, e

(* Taking out the oldest entry and freeing its block. *)
LEMMA OwnsRemove ==
  ASSUME NEW f, RingOK(f), f.count # 0, Written(f),
         NEW h \in [Block -> Text \cup {Free}], Owns(f, h)
  PROVE  LET g == fifo_remove(f)
             p == fifo_remove_value(f).ptr
         IN  /\ RingOK(g) /\ g.size = f.size /\ Written(g)
             /\ Freed(h, p) \in [Block -> Text \cup {Free}]
             /\ Owns(g, Freed(h, p))
             /\ ~ IsBadFree(h, p)
  <1> DEFINE g == fifo_remove(f)
             p == fifo_remove_value(f).ptr
             h1 == Freed(h, p)
  <1>1. f.count \in Nat \ {0}
    BY DEF RingOK
  <1>2. /\ RingOK(g) /\ g.size = f.size /\ g.count = f.count - 1
        /\ \A i \in 0 .. f.count - 2 : Nth(g, i) = Nth(f, i + 1)
        /\ fifo_remove_value(f) = Nth(f, 0)
    BY RemoveNth
  <1>3. p = Ptr(f, 0) /\ p \in Block \cup {NULL}
    BY <1>1, <1>2 DEF Ptr, Written, Slot
  <1> HIDE DEF g, p
  <1>4. Written(g)
    BY <1>1, <1>2 DEF Written
  <1>5. /\ h1 \in [Block -> Text \cup {Free}]
        /\ \A b \in Block : h1[b] = IF b = p THEN Free ELSE h[b]
    BY DEF Freed
  <1> HIDE DEF h1
  <1>6. \A i \in 0 .. f.count - 2 : Ptr(g, i) = Ptr(f, i + 1)
    BY <1>2 DEF Ptr
  <1>7. ASSUME NEW b \in Block
        PROVE  h1[b] # Free <=> \E i \in 0 .. g.count - 1 : Ptr(g, i) = b
    <2>1. CASE b = p
      <3>1. \A i \in 0 .. f.count - 2 : Ptr(f, i + 1) # b
        BY <2>1, <1>1, <1>3, NullAssumption DEF Owns
      <3> QED BY <2>1, <3>1, <1>1, <1>2, <1>5, <1>6
    <2>2. CASE b # p
      <3>1. h1[b] = h[b]
        BY <2>2, <1>5
      <3>2. ASSUME NEW i \in 0 .. f.count - 1, Ptr(f, i) = b
            PROVE  \E j \in 0 .. g.count - 1 : Ptr(g, j) = b
        <4>1. i - 1 \in 0 .. f.count - 2 /\ (i - 1) + 1 = i
          BY <2>2, <3>2, <1>1, <1>3
        <4>2. Ptr(g, i - 1) = b
          BY <4>1, <3>2, <1>6
        <4> QED BY <4>1, <4>2, <1>1, <1>2
      <3>3. ASSUME NEW j \in 0 .. g.count - 1, Ptr(g, j) = b
            PROVE  \E i \in 0 .. f.count - 1 : Ptr(f, i) = b
        <4>1. j \in 0 .. f.count - 2 /\ j + 1 \in 0 .. f.count - 1
          BY <1>1, <1>2
        <4> QED BY <4>1, <3>3, <1>6
      <3> QED BY <3>1, <3>2, <3>3 DEF Owns
    <2> QED BY <2>1, <2>2
  <1>8. ASSUME NEW i \in 0 .. g.count - 1, NEW j \in 0 .. g.count - 1,
               i # j, Ptr(g, i) = Ptr(g, j)
        PROVE  Ptr(g, i) = NULL
    <2>1. /\ i \in 0 .. f.count - 2 /\ j \in 0 .. f.count - 2
          /\ i + 1 \in 0 .. f.count - 1 /\ j + 1 \in 0 .. f.count - 1 /\ i + 1 # j + 1
      BY <1>1, <1>2, <1>8
    <2> QED BY <2>1, <1>6, <1>8 DEF Owns
  <1>9. Owns(g, h1)
    BY <1>7, <1>8 DEF Owns
  <1>10. ~ IsBadFree(h, p)
    BY <1>1, <1>3 DEF IsBadFree, Owns
  <1> QED BY <1>2, <1>4, <1>5, <1>9, <1>10 DEF g, p, h1

(* Taking out the newest entry and freeing its block. *)
LEMMA OwnsRemoveLast ==
  ASSUME NEW f, RingOK(f), f.count # 0, Written(f),
         NEW h \in [Block -> Text \cup {Free}], Owns(f, h)
  PROVE  LET g == fifo_remove_last(f)
             p == fifo_remove_last_value(f).ptr
         IN  /\ RingOK(g) /\ g.size = f.size /\ Written(g)
             /\ Freed(h, p) \in [Block -> Text \cup {Free}]
             /\ Owns(g, Freed(h, p))
             /\ ~ IsBadFree(h, p)
  <1> DEFINE g == fifo_remove_last(f)
             p == fifo_remove_last_value(f).ptr
             h1 == Freed(h, p)
  <1>1. f.count \in Nat \ {0}
    BY DEF RingOK
  <1>2. /\ RingOK(g) /\ g.size = f.size /\ g.count = f.count - 1
        /\ \A i \in 0 .. f.count - 2 : Nth(g, i) = Nth(f, i)
        /\ fifo_remove_last_value(f) = Nth(f, f.count - 1)
    BY RemoveLastNth
  <1>3. p = Ptr(f, f.count - 1) /\ p \in Block \cup {NULL}
    BY <1>1, <1>2 DEF Ptr, Written, Slot
  <1> HIDE DEF g, p
  <1>4. Written(g)
    BY <1>1, <1>2 DEF Written
  <1>5. /\ h1 \in [Block -> Text \cup {Free}]
        /\ \A b \in Block : h1[b] = IF b = p THEN Free ELSE h[b]
    BY DEF Freed
  <1> HIDE DEF h1
  <1>6. \A i \in 0 .. f.count - 2 : Ptr(g, i) = Ptr(f, i)
    BY <1>2 DEF Ptr
  <1>7. ASSUME NEW b \in Block
        PROVE  h1[b] # Free <=> \E i \in 0 .. g.count - 1 : Ptr(g, i) = b
    <2>1. CASE b = p
      <3>1. \A i \in 0 .. f.count - 2 : Ptr(f, i) # b
        BY <2>1, <1>1, <1>3, NullAssumption DEF Owns
      <3> QED BY <2>1, <3>1, <1>1, <1>2, <1>5, <1>6
    <2>2. CASE b # p
      <3>1. h1[b] = h[b]
        BY <2>2, <1>5
      <3>2. ASSUME NEW i \in 0 .. f.count - 1, Ptr(f, i) = b
            PROVE  \E j \in 0 .. g.count - 1 : Ptr(g, j) = b
        BY <2>2, <3>2, <1>1, <1>2, <1>3, <1>6
      <3>3. ASSUME NEW j \in 0 .. g.count - 1, Ptr(g, j) = b
            PROVE  \E i \in 0 .. f.count - 1 : Ptr(f, i) = b
        BY <3>3, <1>1, <1>2, <1>6
      <3> QED BY <3>1, <3>2, <3>3 DEF Owns
    <2> QED BY <2>1, <2>2
  <1>8. ASSUME NEW i \in 0 .. g.count - 1, NEW j \in 0 .. g.count - 1,
               i # j, Ptr(g, i) = Ptr(g, j)
        PROVE  Ptr(g, i) = NULL
    BY <1>1, <1>2, <1>6, <1>8 DEF Owns
  <1>9. Owns(g, h1)
    BY <1>7, <1>8 DEF Owns
  <1>10. ~ IsBadFree(h, p)
    BY <1>1, <1>3 DEF IsBadFree, Owns
  <1> QED BY <1>2, <1>4, <1>5, <1>9, <1>10 DEF g, p, h1

(* What strndup may return, and what freeing it again at once leaves. *)
LEMMA FreshBlock ==
  ASSUME IInv, NEW t \in Text \cup {NoText}, NEW p \in StrndupResults(t)
  PROVE  /\ p \in Block \cup {NULL}
         /\ p \in Block => heap[p] = Free /\ t \in Text
         /\ Freed(Stored(heap, p, t), p) = heap
         /\ ~ IsBadFree(Stored(heap, p, t), p)
  <1>1. p \in Block \cup {NULL} /\ (p \in Block => heap[p] = Free /\ t \in Text)
    BY NullAssumption DEF StrndupResults, Allocated
  <1>2. heap \in [Block -> Text \cup {Free}]
    BY DEF IInv
  <1>3. Freed(Stored(heap, p, t), p) = [b \in Block |-> heap[b]]
    BY <1>1, NullAssumption DEF Freed, Stored
  <1>4. ~ IsBadFree(Stored(heap, p, t), p)
    BY <1>1, FreeAssumption DEF IsBadFree, Stored
  <1> QED BY <1>1, <1>2, <1>3, <1>4

-----------------------------------------------------------------------------
(* The inductive invariant. *)

(* An empty ring owns nothing. *)
LEMMA OwnsNothing ==
  ASSUME NEW f, f.count = 0, NEW h, \A b \in Block : h[b] = Free
  PROVE  Written(f) /\ Owns(f, h)
  BY DEF Written, Owns

(* scpi_error init: the empty ring of an empty heap satisfies the invariant. *)
LEMMA InitIInv == Init => IInv
  <1> SUFFICES ASSUME Init PROVE IInv
    OBVIOUS
  <1>1. PICK n \in Sizes : fifo = fifo_init(n)
    BY DEF Init
  <1>2. n \in Nat \ {0}
    BY SizesAssumption
  <1> DEFINE d == [i \in 0 .. n - 1 |-> Uninit]
  <1>3. fifo = [wr |-> 0, rd |-> 0, count |-> 0, size |-> n, data |-> d]
    BY <1>1 DEF fifo_init
  <1>4. /\ d \in [0 .. n - 1 -> Slot \cup {Uninit}]
        /\ 0 \in 0 .. n - 1 /\ 0 \in 0 .. n /\ 0 = (0 + 0) % n
    BY <1>2
  <1> HIDE DEF d
  <1>5. RingOK(fifo) /\ fifo.size = n /\ fifo.count = 0
    BY <1>2, <1>3, <1>4, MakeRing
  <1>6. heap = [b \in Block |-> Free] /\ badFree = FALSE
    BY DEF Init
  <1> QED BY <1>5, <1>6, OwnsNothing DEF IInv

(* Every operation on the error queue preserves the inductive invariant. *)
LEMMA NextIInv == IInv /\ [Next]_vars => IInv'
  <1> SUFFICES ASSUME IInv, [Next]_vars PROVE IInv'
    OBVIOUS
  <1>0. /\ fifo.size \in Sizes /\ RingOK(fifo) /\ Written(fifo)
        /\ heap \in [Block -> Text \cup {Free}] /\ Owns(fifo, heap) /\ badFree = FALSE
    BY DEF IInv
  <1>c. fifo.count \in 0 .. fifo.size /\ fifo.size \in Nat \ {0}
    BY <1>0 DEF RingOK
  <1>1. ASSUME NEW c \in Code, NEW t \in Text \cup {NoText}, AddWithRoom(c, t)
        PROVE  IInv'
    <2>1. PICK p \in StrndupResults(t) :
             /\ fifo' = fifo_add(fifo, [code |-> c, ptr |-> p])
             /\ heap' = Stored(heap, p, t)
      BY <1>1 DEF AddWithRoom
    <2>2. fifo.count < fifo.size
      BY <1>1, <1>c DEF AddWithRoom, fifo_is_full
    <2>3. /\ p \in Block \cup {NULL}
          /\ p \in Block => heap[p] = Free
          /\ p \in Block => t \in Text
      BY FreshBlock
    <2>4. /\ RingOK(fifo') /\ fifo'.size = fifo.size /\ Written(fifo')
          /\ heap' \in [Block -> Text \cup {Free}] /\ Owns(fifo', heap')
      BY <1>0, <2>1, <2>2, <2>3, OwnsAdd
    <2> QED BY <1>0, <1>1, <2>4 DEF IInv, AddWithRoom, Written, Owns, Ptr
  <1>2. ASSUME NEW c \in Code, NEW t \in Text \cup {NoText}, AddOnFull(c, t)
        PROVE  IInv'
    <2> DEFINE q == fifo_remove_last_value(fifo).ptr
               f1 == fifo_remove_last(fifo)
               h1 == Freed(heap, q)
    <2>1. PICK p \in StrndupResults(t) :
             /\ heap' = Freed(Freed(Stored(heap, p, t), p), q)
             /\ badFree' = (badFree \/ IsBadFree(Stored(heap, p, t), p)
                                    \/ IsBadFree(Freed(Stored(heap, p, t), p), q))
             /\ fifo' = fifo_add(f1, [code |-> OverflowCode, ptr |-> NULL])
      BY <1>2 DEF AddOnFull
    <2>2. /\ heap' = h1
          /\ badFree' = (badFree \/ IsBadFree(heap, q))
      BY <2>1, FreshBlock
    <2>3. fifo.count # 0
      BY <1>2, <1>c DEF AddOnFull, fifo_is_full
    <2>4. /\ RingOK(f1) /\ f1.size = fifo.size /\ Written(f1)
          /\ h1 \in [Block -> Text \cup {Free}] /\ Owns(f1, h1) /\ ~ IsBadFree(heap, q)
      BY <1>0, <2>3, OwnsRemoveLast
    <2>5. f1.count < f1.size
      <3>1. f1.count = fifo.count - 1
        BY <1>0, <2>3, RemoveLastNth
      <3> QED BY <1>c, <2>4, <3>1
    <2> HIDE DEF f1, h1, q
    <2>6. h1 = Stored(h1, NULL, t)
      <3>1. Stored(h1, NULL, t) = [b \in Block |-> h1[b]]
        BY NullAssumption DEF Stored
      <3> QED BY <2>4, <3>1
    <2>7. /\ RingOK(fifo') /\ fifo'.size = f1.size /\ Written(fifo')
          /\ Stored(h1, NULL, t) \in [Block -> Text \cup {Free}]
          /\ Owns(fifo', Stored(h1, NULL, t))
      BY <2>1, <2>4, <2>5, NullAssumption, OwnsAdd
    <2> QED BY <1>0, <2>2, <2>4, <2>6, <2>7 DEF IInv, Written, Owns, Ptr
  <1>3. ASSUME ErrorNextQ
        PROVE  IInv'
    <2> DEFINE q == fifo_remove_value(fifo).ptr
    <2>1. /\ fifo.count # 0
          /\ heap' = Freed(heap, q)
          /\ badFree' = (badFree \/ IsBadFree(heap, q))
          /\ fifo' = fifo_remove(fifo)
      BY <1>3 DEF ErrorNextQ, fifo_is_empty
    <2>2. /\ RingOK(fifo') /\ fifo'.size = fifo.size /\ Written(fifo')
          /\ heap' \in [Block -> Text \cup {Free}] /\ Owns(fifo', heap')
          /\ ~ IsBadFree(heap, q)
      BY <1>0, <2>1, OwnsRemove
    <2> QED BY <1>0, <2>1, <2>2 DEF IInv, Written, Owns, Ptr
  <1>4. ASSUME ErrorClear
        PROVE  IInv'
    <2> DEFINE queued == {Nth(fifo, i).ptr : i \in 0 .. fifo.count - 1} \ {NULL}
    <2>1. /\ heap' = [b \in Block |-> IF b \in queued THEN Free ELSE heap[b]]
          /\ badFree' = \/ badFree
                        \/ \E b \in queued : heap[b] = Free
                        \/ \E i, j \in 0 .. fifo.count - 1 :
                              /\ i # j
                              /\ Nth(fifo, i).ptr = Nth(fifo, j).ptr
                              /\ Nth(fifo, i).ptr # NULL
          /\ fifo' = fifo_clear(fifo)
      BY <1>4 DEF ErrorClear
    <2>2. RingOK(fifo') /\ fifo'.size = fifo.size /\ fifo'.count = 0
      BY <1>0, <2>1, ClearNth
    <2>3. \A b \in Block : heap[b] # Free <=> b \in queued
      BY <1>0, NullAssumption DEF Owns, Ptr
    <2>4. \A b \in Block : heap'[b] = Free
      BY <2>1, <2>3
    <2>5. queued \subseteq Block
      BY <1>0 DEF Written, Slot
    <2>6. ~ \E i, j \in 0 .. fifo.count - 1 :
              /\ i # j
              /\ Nth(fifo, i).ptr = Nth(fifo, j).ptr
              /\ Nth(fifo, i).ptr # NULL
      BY <1>0 DEF Owns, Ptr
    <2>7. badFree' = FALSE
      BY <1>0, <2>1, <2>3, <2>5, <2>6
    <2>8. heap' \in [Block -> Text \cup {Free}]
      BY <1>0, <2>1
    <2>9. Written(fifo') /\ Owns(fifo', heap')
      BY <2>2, <2>4, OwnsNothing
    <2> QED BY <1>0, <2>2, <2>7, <2>8, <2>9 DEF IInv, Written, Owns, Ptr
  <1>5. CASE ErrorNextQEmpty \/ ErrorCountQ \/ UNCHANGED vars
    <2>1. UNCHANGED <<fifo, heap, badFree>>
      BY <1>5 DEF ErrorNextQEmpty, ErrorCountQ, vars
    <2> QED BY <1>0, <2>1 DEF IInv, RingOK, Written, Owns, Ptr, Nth
  <1> QED BY <1>1, <1>2, <1>3, <1>4, <1>5 DEF Next

(* What the invariant says of the properties the runs check. *)
LEMMA IInvImplies == IInv => TypeOK /\ RingInv /\ InfoOwnership /\ NoBadFree
  <1> SUFFICES ASSUME IInv PROVE TypeOK /\ RingInv /\ InfoOwnership /\ NoBadFree
    OBVIOUS
  <1>1. TypeOK
    BY DEF IInv, RingOK, TypeOK
  <1>2. RingInv
    BY DEF IInv, RingOK, RingInv, Written
  <1>3. InfoOwnership
    <2>1. \A i \in 0 .. fifo.count - 1 : Ptr(fifo, i) \in Block \cup {NULL}
      BY DEF IInv, Written, Slot, Ptr
    <2>2. Owns(fifo, heap)
      BY DEF IInv
    <2>3. Allocated = {Ptr(fifo, i) : i \in 0 .. fifo.count - 1} \ {NULL}
      BY <2>1, <2>2, NullAssumption DEF Allocated, Owns
    <2> QED BY <2>2, <2>3 DEF InfoOwnership, Owns, Ptr
  <1>4. NoBadFree
    BY DEF IInv, NoBadFree
  <1> QED BY <1>1, <1>2, <1>3, <1>4

(* So the inductive invariant holds in every reachable state. *)
LEMMA SpecIInv == Spec => []IInv
  BY InitIInv, NextIInv, PTL DEF Spec

(* Every variable of the error queue keeps its type, for every set of queue
   sizes: in particular rd and wr stay inside the array of fifo.c. *)
THEOREM ErrorFifoTypeOK == Spec => []TypeOK
  BY SpecIInv, IInvImplies, PTL

(* The write index and the count never drift apart, and no entry that counts
   as queued is an uninitialised slot. *)
THEOREM ErrorFifoRing == Spec => []RingInv
  BY SpecIInv, IInvImplies, PTL

(* Texts of errors neither leak nor are shared by two entries. *)
THEOREM ErrorFifoOwnership == Spec => []InfoOwnership
  BY SpecIInv, IInvImplies, PTL

(* No text is freed twice, whatever the order of overflows, queries, clears. *)
THEOREM ErrorFifoNoBadFree == Spec => []NoBadFree
  BY SpecIInv, IInvImplies, PTL

-----------------------------------------------------------------------------
(* Refinement: the ring with its heap implements ErrorQueue. *)

(* The ring read from rd to wr is a sequence of count entries, in order. *)
LEMMA QueueShape ==
  ASSUME IInv
  PROVE  /\ fifo.count \in 0 .. fifo.size /\ fifo.size \in Nat \ {0}
         /\ AbstractQueue \in Seq([code : Code \cup {OverflowCode},
                                   info : Text \cup {Free, NoText}])
         /\ Len(AbstractQueue) = fifo.count
         /\ \A i \in 1 .. fifo.count :
               /\ AbstractQueue[i] = [code |-> Nth(fifo, i - 1).code,
                                      info |-> TextAt(Nth(fifo, i - 1).ptr)]
  <1>1. fifo.count \in 0 .. fifo.size /\ fifo.size \in Nat \ {0}
    BY DEF IInv, RingOK
  <1>2. ASSUME NEW i \in 1 .. fifo.count
        PROVE  [code |-> Nth(fifo, i - 1).code, info |-> TextAt(Nth(fifo, i - 1).ptr)]
                 \in [code : Code \cup {OverflowCode}, info : Text \cup {Free, NoText}]
    <2>1. Nth(fifo, i - 1) \in Slot
      BY <1>1 DEF IInv, Written
    <2>2. TextAt(Nth(fifo, i - 1).ptr) \in Text \cup {Free, NoText}
      BY <2>1 DEF IInv, TextAt, Slot
    <2> QED BY <2>1, <2>2 DEF Slot
  <1> DEFINE n == fifo.count
             S == [code : Code \cup {OverflowCode}, info : Text \cup {Free, NoText}]
             E(i) == [code |-> Nth(fifo, i - 1).code,
                      info |-> TextAt(Nth(fifo, i - 1).ptr)]
  <1>3. n \in Nat /\ \A i \in 1 .. n : E(i) \in S
    BY <1>1, <1>2
  <1>4. AbstractQueue = [i \in 1 .. n |-> E(i)]
    BY DEF AbstractQueue
  <1> HIDE DEF n, S, E
  <1>5. /\ AbstractQueue \in Seq(S) /\ Len(AbstractQueue) = n
        /\ \A i \in 1 .. n : AbstractQueue[i] = E(i)
    BY <1>3, <1>4
  <1> QED BY <1>1, <1>5 DEF n, S, E

(* Two queues of the same length with the same entries are the same. *)
LEMMA QueueExt ==
  ASSUME IInv', NEW S, NEW q \in Seq(S), Len(q) = fifo'.count,
         \A i \in 1 .. Len(q) :
            q[i] = [code |-> Nth(fifo', i - 1).code,
                    info |-> TextAt(Nth(fifo, i - 1).ptr)']
  PROVE  AbstractQueue' = q
  <1>1. q = [i \in 1 .. Len(q) |-> q[i]]
    OBVIOUS
  <1> QED BY <1>1 DEF AbstractQueue

(* SCPI_ErrorAddInternal with room is a Push of the abstract queue. *)
LEMMA RefineAdd ==
  ASSUME IInv, IInv', NEW c \in Code, NEW t \in Text \cup {NoText}, AddWithRoom(c, t)
  PROVE  AQ!Push(c, t)
  <1>1. PICK p \in StrndupResults(t) :
           /\ fifo' = fifo_add(fifo, [code |-> c, ptr |-> p])
           /\ heap' = Stored(heap, p, t)
    BY DEF AddWithRoom
  <1>2. /\ fifo.count \in 0 .. fifo.size - 1 /\ fifo.size \in Nat \ {0} /\ RingOK(fifo)
        /\ reply' = <<>>
    BY DEF AddWithRoom, fifo_is_full, IInv, RingOK
  <1>3. p \in Block \cup {NULL} /\ (p \in Block => heap[p] = Free)
    BY FreshBlock
  <1> DEFINE e == [code |-> c, ptr |-> p]
             x == [code |-> c, info |-> IF p = NULL THEN NoText ELSE t]
             q == Append(AbstractQueue, x)
             S == [code : Code \cup {OverflowCode}, info : Text \cup {Free, NoText}]
  <1>4. e \in Slot /\ e.code = c /\ e.ptr = p /\ x \in S
    BY <1>3 DEF Slot
  <1> HIDE DEF e, S
  <1>5. /\ fifo'.size = fifo.size /\ fifo'.count = fifo.count + 1
        /\ \A i \in 0 .. fifo.count - 1 : Nth(fifo', i) = Nth(fifo, i)
        /\ Nth(fifo', fifo.count) = e
    BY <1>1, <1>2, <1>4, AddNth DEF e
  <1>6. /\ AbstractQueue \in Seq(S) /\ Len(AbstractQueue) = fifo.count
        /\ \A i \in 1 .. fifo.count :
              AbstractQueue[i] = [code |-> Nth(fifo, i - 1).code,
                                  info |-> TextAt(Nth(fifo, i - 1).ptr)]
    BY QueueShape DEF S
  <1>7. q \in Seq(S) /\ Len(q) = fifo'.count
    BY <1>2, <1>4, <1>5, <1>6
  <1>8. ASSUME NEW i \in 1 .. fifo'.count
        PROVE  q[i] = [code |-> Nth(fifo', i - 1).code,
                       info |-> TextAt(Nth(fifo, i - 1).ptr)']
    <2>1. CASE i = fifo.count + 1
      <3>1. Nth(fifo', i - 1) = e
        BY <2>1, <1>2, <1>5
      <3>2. TextAt(Nth(fifo, i - 1).ptr)' = IF p = NULL THEN NoText ELSE t
        BY <3>1, <1>1, <1>3, <1>4 DEF TextAt, Stored
      <3>3. q[i] = x
        BY <2>1, <1>2, <1>6
      <3> QED BY <3>1, <3>2, <3>3, <1>4
    <2>2. CASE i \in 1 .. fifo.count
      <3>1. q[i] = AbstractQueue[i]
        BY <2>2, <1>2, <1>6
      <3>2. Nth(fifo', i - 1) = Nth(fifo, i - 1)
        BY <2>2, <1>2, <1>5
      <3>3. Nth(fifo, i - 1) \in Slot
        BY <2>2, <1>2 DEF IInv, Written
      <3>4. TextAt(Nth(fifo, i - 1).ptr)' = TextAt(Nth(fifo, i - 1).ptr)
        <4>1. Nth(fifo, i - 1).ptr = NULL \/ heap[Nth(fifo, i - 1).ptr] # Free
          BY <2>2, <3>3, <1>2 DEF IInv, Owns, Ptr, Slot
        <4>2. Nth(fifo, i - 1).ptr \in Block => heap'[Nth(fifo, i - 1).ptr]
                                                  = heap[Nth(fifo, i - 1).ptr]
          BY <4>1, <1>1, <1>3, NullAssumption DEF Stored
        <4> QED BY <3>2, <3>3, <4>2 DEF TextAt, Slot
      <3>5. AbstractQueue[i] = [code |-> Nth(fifo, i - 1).code,
                                info |-> TextAt(Nth(fifo, i - 1).ptr)]
        BY <2>2, <1>6
      <3> QED BY <3>1, <3>2, <3>4, <3>5
    <2>3. i = fifo.count + 1 \/ i \in 1 .. fifo.count
      BY <1>2, <1>5
    <2> HIDE DEF q, x
    <2> QED BY <2>1, <2>2, <2>3
  <1>9. AbstractQueue' = q
    BY <1>7, <1>8, QueueExt
  <1> QED BY <1>2, <1>3, <1>5, <1>6, <1>9 DEF AQ!Push

(* On a full ring it replaces the newest entry: a PushFull of the abstract queue. *)
LEMMA RefineFull ==
  ASSUME IInv, IInv', NEW c \in Code, NEW t \in Text \cup {NoText}, AddOnFull(c, t)
  PROVE  AQ!PushFull
  <1> DEFINE q == fifo_remove_last_value(fifo).ptr
             f1 == fifo_remove_last(fifo)
             e == [code |-> OverflowCode, ptr |-> NULL]
             x == [code |-> OverflowCode, info |-> NoText]
             n == fifo.count
             s == [AbstractQueue EXCEPT ![Len(AbstractQueue)] = x]
             S == [code : Code \cup {OverflowCode}, info : Text \cup {Free, NoText}]
  <1>1. PICK p \in StrndupResults(t) :
           /\ heap' = Freed(Freed(Stored(heap, p, t), p), q)
           /\ fifo' = fifo_add(f1, e)
    BY DEF AddOnFull
  <1>2. /\ n = fifo.size /\ n \in Nat \ {0} /\ RingOK(fifo) /\ reply' = <<>>
    BY DEF AddOnFull, fifo_is_full, IInv, RingOK
  <1>3. heap' = Freed(heap, q)
    BY <1>1, FreshBlock
  <1>4. /\ RingOK(f1) /\ f1.size = fifo.size /\ f1.count = n - 1
        /\ \A i \in 0 .. n - 2 : Nth(f1, i) = Nth(fifo, i)
        /\ q = Nth(fifo, n - 1).ptr
    BY <1>2, RemoveLastNth
  <1>5. e \in Slot /\ e.code = OverflowCode /\ e.ptr = NULL /\ x \in S
    BY DEF Slot
  <1>6. /\ AbstractQueue \in Seq(S) /\ Len(AbstractQueue) = n
        /\ \A i \in 1 .. n :
              AbstractQueue[i] = [code |-> Nth(fifo, i - 1).code,
                                  info |-> TextAt(Nth(fifo, i - 1).ptr)]
    BY QueueShape
  <1> HIDE DEF e, S, f1, q, n
  <1>7. /\ fifo'.size = fifo.size /\ fifo'.count = n
        /\ \A i \in 0 .. n - 2 : Nth(fifo', i) = Nth(fifo, i)
        /\ Nth(fifo', n - 1) = e
    <2>1. f1.count < f1.size
      BY <1>2, <1>4
    <2>2. /\ fifo'.size = f1.size /\ fifo'.count = f1.count + 1
          /\ \A i \in 0 .. f1.count - 1 : Nth(fifo', i) = Nth(f1, i)
          /\ Nth(fifo', f1.count) = e
      BY <1>1, <1>4, <1>5, <2>1, AddNth
    <2> QED BY <1>2, <1>4, <2>2
  <1>8. /\ s \in Seq(S) /\ Len(s) = n /\ s[n] = x
        /\ \A i \in 1 .. n - 1 : s[i] = AbstractQueue[i]
    BY <1>2, <1>5, <1>6
  <1> HIDE DEF s
  <1>9. ASSUME NEW i \in 1 .. n
        PROVE  s[i] = [code |-> Nth(fifo', i - 1).code,
                       info |-> TextAt(Nth(fifo, i - 1).ptr)']
    <2>1. CASE i = n
      <3>1. Nth(fifo', i - 1) = e
        BY <2>1, <1>7
      <3>2. TextAt(Nth(fifo, i - 1).ptr)' = NoText
        BY <3>1, <1>5 DEF TextAt
      <3> QED BY <3>1, <3>2, <2>1, <1>5, <1>8 DEF x
    <2>2. CASE i \in 1 .. n - 1
      <3>1. s[i] = [code |-> Nth(fifo, i - 1).code, info |-> TextAt(Nth(fifo, i - 1).ptr)]
        BY <2>2, <1>2, <1>6, <1>8
      <3>2. Nth(fifo', i - 1) = Nth(fifo, i - 1)
        BY <2>2, <1>2, <1>7
      <3>3. Nth(fifo, i - 1) \in Slot
        BY <2>2, <1>2 DEF IInv, Written, n
      <3>4. Nth(fifo, i - 1).ptr = NULL \/ Nth(fifo, i - 1).ptr # q
        <4>1. i - 1 \in 0 .. fifo.count - 1 /\ n - 1 \in 0 .. fifo.count - 1 /\ i - 1 # n - 1
          BY <2>2, <1>2 DEF n
        <4> QED BY <4>1, <1>4 DEF IInv, Owns, Ptr
      <3>5. TextAt(Nth(fifo, i - 1).ptr)' = TextAt(Nth(fifo, i - 1).ptr)
        <4>1. Nth(fifo, i - 1).ptr # NULL => heap'[Nth(fifo, i - 1).ptr]
                                              = heap[Nth(fifo, i - 1).ptr]
          BY <3>3, <3>4, <1>3 DEF Freed, Slot
        <4> QED BY <3>2, <4>1 DEF TextAt
      <3> QED BY <3>1, <3>2, <3>5
    <2>3. i = n \/ i \in 1 .. n - 1
      BY <1>2
    <2> QED BY <2>1, <2>2, <2>3
  <1>10. AbstractQueue' = s
    BY <1>7, <1>8, <1>9, QueueExt
  <1> QED BY <1>2, <1>6, <1>7, <1>10 DEF AQ!PushFull, AQ!OverflowEntry, s, x, n

(* SYSTem:ERRor? takes out the oldest entry: a Pop of the abstract queue. *)
LEMMA RefinePop ==
  ASSUME IInv, IInv', ErrorNextQ
  PROVE  AQ!Pop
  <1> DEFINE q == fifo_remove_value(fifo).ptr
             n == fifo.count
             s == Tail(AbstractQueue)
             S == [code : Code \cup {OverflowCode}, info : Text \cup {Free, NoText}]
  <1>1. /\ heap' = Freed(heap, q)
        /\ fifo' = fifo_remove(fifo)
        /\ n # 0
        /\ reply' = <<fifo_remove_value(fifo).code, TextAt(q)>>
    BY DEF ErrorNextQ, fifo_is_empty
  <1>2. n \in Nat \ {0} /\ RingOK(fifo)
    BY <1>1 DEF IInv, RingOK
  <1>3. /\ fifo'.size = fifo.size /\ fifo'.count = n - 1
        /\ \A i \in 0 .. n - 2 : Nth(fifo', i) = Nth(fifo, i + 1)
        /\ fifo_remove_value(fifo) = Nth(fifo, 0)
    BY <1>1, <1>2, RemoveNth
  <1>4. /\ AbstractQueue \in Seq(S) /\ Len(AbstractQueue) = n
        /\ \A i \in 1 .. n :
              AbstractQueue[i] = [code |-> Nth(fifo, i - 1).code,
                                  info |-> TextAt(Nth(fifo, i - 1).ptr)]
    BY QueueShape
  <1>5. q = Nth(fifo, 0).ptr
    BY <1>3
  <1> HIDE DEF S, q, n
  <1>6. AbstractQueue # <<>> /\ Head(AbstractQueue) = AbstractQueue[1]
    BY <1>2, <1>4
  <1>7. reply' = <<Head(AbstractQueue).code, Head(AbstractQueue).info>>
    <2>1. AbstractQueue[1] = [code |-> Nth(fifo, 0).code, info |-> TextAt(Nth(fifo, 0).ptr)]
      BY <1>2, <1>4
    <2> QED BY <2>1, <1>1, <1>3, <1>5, <1>6
  <1>8. /\ s \in Seq(S) /\ Len(s) = n - 1
        /\ \A i \in 1 .. n - 1 : s[i] = AbstractQueue[i + 1]
    BY <1>2, <1>4
  <1> HIDE DEF s
  <1>9. ASSUME NEW i \in 1 .. n - 1
        PROVE  s[i] = [code |-> Nth(fifo', i - 1).code,
                       info |-> TextAt(Nth(fifo, i - 1).ptr)']
    <2>1. s[i] = [code |-> Nth(fifo, i).code, info |-> TextAt(Nth(fifo, i).ptr)]
      <3>1. i + 1 \in 1 .. n /\ (i + 1) - 1 = i
        BY <1>2
      <3>2. AbstractQueue[i + 1] = [code |-> Nth(fifo, (i + 1) - 1).code,
                                    info |-> TextAt(Nth(fifo, (i + 1) - 1).ptr)]
        BY <3>1, <1>4
      <3> QED BY <3>1, <3>2, <1>8
    <2>2. Nth(fifo', i - 1) = Nth(fifo, i)
      <3>1. i - 1 \in 0 .. n - 2 /\ (i - 1) + 1 = i
        BY <1>2
      <3> QED BY <3>1, <1>3
    <2>3. Nth(fifo, i) \in Slot /\ (Nth(fifo, i).ptr = NULL \/ Nth(fifo, i).ptr # q)
      <3>1. i \in 0 .. fifo.count - 1 /\ 0 \in 0 .. fifo.count - 1 /\ i # 0
        BY <1>2 DEF n
      <3> QED BY <3>1, <1>5 DEF IInv, Written, Owns, Ptr
    <2>4. TextAt(Nth(fifo, i - 1).ptr)' = TextAt(Nth(fifo, i).ptr)
      <3>1. Nth(fifo, i).ptr # NULL => heap'[Nth(fifo, i).ptr] = heap[Nth(fifo, i).ptr]
        BY <2>3, <1>1 DEF Freed, Slot
      <3> QED BY <2>2, <3>1 DEF TextAt
    <2> QED BY <2>1, <2>2, <2>4
  <1>10. AbstractQueue' = s
    BY <1>3, <1>8, <1>9, QueueExt
  <1> QED BY <1>3, <1>6, <1>7, <1>10 DEF AQ!Pop, s

(* The ring of fifo.c with the texts of error.c implements the bounded queue
   of ErrorQueue, for every queue size and any number of heap blocks. *)
THEOREM ErrorFifoImplementsQueue == Spec => ImplementsQueue
  <1>1. Init => AQ!Init
    <2> SUFFICES ASSUME Init PROVE AQ!Init
      OBVIOUS
    <2>1. PICK n \in Sizes : fifo = fifo_init(n)
      BY DEF Init
    <2>2. fifo.count = 0 /\ fifo.size = n
      BY <2>1 DEF fifo_init
    <2>3. AbstractQueue = <<>>
      BY <2>2 DEF AbstractQueue
    <2> QED BY <2>2, <2>3 DEF AQ!Init, Init
  <1>2. IInv /\ IInv' /\ [Next]_vars => [AQ!Next]_(AQ!vars)
    <2> SUFFICES ASSUME IInv, IInv', [Next]_vars PROVE [AQ!Next]_(AQ!vars)
      OBVIOUS
    <2>1. ASSUME NEW c \in Code, NEW t \in Text \cup {NoText}, AddWithRoom(c, t)
          PROVE  AQ!Next
      BY <2>1, RefineAdd DEF AQ!Next
    <2>2. ASSUME NEW c \in Code, NEW t \in Text \cup {NoText}, AddOnFull(c, t)
          PROVE  AQ!Next
      BY <2>2, RefineFull DEF AQ!Next
    <2>3. CASE ErrorNextQ
      BY <2>3, RefinePop DEF AQ!Next
    <2>4. ASSUME UNCHANGED <<fifo, heap>>
          PROVE  AbstractQueue' = AbstractQueue
      BY <2>4 DEF AbstractQueue, TextAt, Nth
    <2>5. CASE ErrorNextQEmpty
      <3>1. fifo.count = 0 /\ UNCHANGED <<fifo, heap>>
        BY <2>5 DEF ErrorNextQEmpty, fifo_is_empty
      <3>2. AbstractQueue = <<>>
        BY <3>1 DEF AbstractQueue
      <3> QED BY <3>1, <3>2, <2>4, <2>5 DEF ErrorNextQEmpty, AQ!PopEmpty, AQ!Next
    <2>6. CASE ErrorCountQ
      BY <2>4, <2>6, QueueShape DEF ErrorCountQ, AQ!Count, AQ!Next
    <2>7. CASE ErrorClear
      <3>1. fifo' = fifo_clear(fifo) /\ reply' = <<>>
        BY <2>7 DEF ErrorClear
      <3>2. fifo'.count = 0 /\ fifo'.size = fifo.size
        BY <3>1, ClearNth DEF IInv
      <3>3. AbstractQueue' = <<>>
        BY <3>2 DEF AbstractQueue
      <3> QED BY <3>1, <3>2, <3>3 DEF AQ!Clear, AQ!Next
    <2>8. CASE UNCHANGED vars
      BY <2>4, <2>8 DEF vars, AQ!vars
    <2> QED BY <2>1, <2>2, <2>3, <2>5, <2>6, <2>7, <2>8 DEF Next
  <1> QED BY <1>1, <1>2, SpecIInv, PTL DEF Spec, ImplementsQueue, AQ!Spec
=============================================================================
