----------------------------- MODULE ErrorFifo ------------------------------
(***************************************************************************)
(* The error queue as fifo.c and error.c build it: a ring of slots with    *)
(* rd, wr and count, whose entries own heap copies of their device         *)
(* dependent text (USE_DEVICE_DEPENDENT_ERROR_INFORMATION with malloc, the *)
(* default of config.h on a hosted system).  Slots keep their stale        *)
(* contents after a removal, and a freed block may be handed out again.    *)
(***************************************************************************)
EXTENDS Naturals, Sequences

CONSTANTS Code, OverflowCode, NoErrorCode, Text, NoText, Sizes,
          Block,    \* heap blocks SCPIDEFINE_strndup can return
          NULL,     \* the null pointer
          Free,     \* contents of a block that is not allocated
          Uninit    \* contents of a slot that was never written

ASSUME SizesAssumption == Sizes \subseteq Nat \ {0}
ASSUME NullAssumption == NULL \notin Block
ASSUME FreeAssumption == Free \notin Text \cup {NoText}

VARIABLES fifo,     \* scpi_fifo_t: [wr, rd, count, size, data]
          heap,     \* Block -> the text it holds, or Free
          badFree,  \* a block was freed that was not allocated
          reply     \* what the last query wrote

vars == <<fifo, heap, badFree, reply>>

Slot == [code : Code \cup {OverflowCode}, ptr : Block \cup {NULL}]

-----------------------------------------------------------------------------
(* fifo.c *)

(* Seeded fault: the write index stays where it was. *)
fifo_clear_KeepsWr(f) == [f EXCEPT !.rd = 0, !.count = 0]

fifo_init(n) ==
  [wr |-> 0, rd |-> 0, count |-> 0, size |-> n, data |-> [i \in 0 .. n - 1 |-> Uninit]]

fifo_clear(f) == [f EXCEPT !.wr = 0, !.rd = 0, !.count = 0]

fifo_is_empty(f) == f.count = 0

fifo_is_full(f) == f.count = f.size

(* fifo_add on a ring with room *)
fifo_add(f, v) == [f EXCEPT !.data = [f.data EXCEPT ![f.wr] = v],
                            !.wr = (f.wr + 1) % f.size,
                            !.count = f.count + 1]

(* fifo_remove and fifo_remove_last on a ring that holds something: the
   value they hand back, then the ring they leave *)
fifo_remove_value(f) == f.data[f.rd]

fifo_remove(f) == [f EXCEPT !.rd = (f.rd + 1) % f.size, !.count = f.count - 1]

fifo_remove_last_value(f) == f.data[(f.wr + f.size - 1) % f.size]

fifo_remove_last(f) == [f EXCEPT !.wr = (f.wr + f.size - 1) % f.size,
                                 !.count = f.count - 1]

(* The i-th oldest entry, for i in 0 .. count - 1. *)
Nth(f, i) == f.data[(f.rd + i) % f.size]

-----------------------------------------------------------------------------
(* The heap behind SCPIDEFINE_strndup and SCPIDEFINE_free. *)

Allocated == {b \in Block : heap[b] # Free}

(* The pointers strndup can return for text t: NULL when t is NULL, else a
   block that is not in use, or NULL when there is no memory. *)
StrndupResults(t) == IF t = NoText THEN {NULL} ELSE {NULL} \cup (Block \ Allocated)

Stored(h, p, t) == [b \in Block |-> IF b = p THEN t ELSE h[b]]

Freed(h, p) == [b \in Block |-> IF b = p THEN Free ELSE h[b]]

IsBadFree(h, p) == p # NULL /\ h[p] = Free

TextAt(p) == IF p = NULL THEN NoText ELSE heap[p]

-----------------------------------------------------------------------------
(* error.c *)

Init == /\ \E n \in Sizes : fifo = fifo_init(n)
        /\ heap = [b \in Block |-> Free]
        /\ badFree = FALSE
        /\ reply = <<>>

(* SCPI_ErrorAddInternal when fifo_add succeeds. *)
AddWithRoom(c, t) ==
  /\ ~ fifo_is_full(fifo)
  /\ \E p \in StrndupResults(t) :
        /\ fifo' = fifo_add(fifo, [code |-> c, ptr |-> p])
        /\ heap' = Stored(heap, p, t)
  /\ reply' = <<>>
  /\ UNCHANGED badFree

(* Seeded faults: the copy of the new text is not freed on overflow; the
   marker keeps the pointer of the entry that gave way. *)
AddOnFull_NoRollback(c, t) ==
  /\ fifo_is_full(fifo)
  /\ \E p \in StrndupResults(t) :
        LET last == fifo_remove_last_value(fifo)
            h    == Stored(heap, p, t)
        IN  /\ heap' = Freed(h, last.ptr)
            /\ badFree' = (badFree \/ IsBadFree(h, last.ptr))
            /\ fifo' = fifo_add(fifo_remove_last(fifo),
                                [code |-> OverflowCode, ptr |-> NULL])
  /\ reply' = <<>>

AddOnFull_KeepsInfo(c, t) ==
  /\ fifo_is_full(fifo)
  /\ \E p \in StrndupResults(t) :
        LET last == fifo_remove_last_value(fifo)
            h1   == Freed(Stored(heap, p, t), p)
        IN  /\ heap' = Freed(h1, last.ptr)
            /\ badFree' = (badFree \/ IsBadFree(h1, last.ptr))
            /\ fifo' = fifo_add(fifo_remove_last(fifo),
                                [code |-> OverflowCode, ptr |-> last.ptr])
  /\ reply' = <<>>

(* SCPI_ErrorAddInternal when fifo_add returns FALSE: the copy of the new
   text is freed, the newest entry is taken out and its text freed, and the
   overflow marker goes in. *)
AddOnFull(c, t) ==
  /\ fifo_is_full(fifo)
  /\ \E p \in StrndupResults(t) :
        LET last == fifo_remove_last_value(fifo)
            h0   == Stored(heap, p, t)
            h1   == Freed(h0, p)
        IN  /\ heap' = Freed(h1, last.ptr)
            /\ badFree' = (badFree \/ IsBadFree(h0, p) \/ IsBadFree(h1, last.ptr))
            /\ fifo' = fifo_add(fifo_remove_last(fifo),
                                [code |-> OverflowCode, ptr |-> NULL])
  /\ reply' = <<>>

(* Seeded fault: the text is freed before it is written. *)
ErrorNextQ_FreesFirst ==
  /\ ~ fifo_is_empty(fifo)
  /\ LET e == fifo_remove_value(fifo)
     IN  /\ heap' = Freed(heap, e.ptr)
         /\ reply' = <<e.code, IF e.ptr = NULL THEN NoText ELSE Free>>
         /\ badFree' = (badFree \/ IsBadFree(heap, e.ptr))
         /\ fifo' = fifo_remove(fifo)

(* SCPI_SystemErrorNextQ on SCPI_ErrorPop: the entry is written to the host
   and its text freed after that. *)
ErrorNextQ ==
  /\ ~ fifo_is_empty(fifo)
  /\ LET e == fifo_remove_value(fifo)
     IN  /\ reply' = <<e.code, TextAt(e.ptr)>>
         /\ heap' = Freed(heap, e.ptr)
         /\ badFree' = (badFree \/ IsBadFree(heap, e.ptr))
         /\ fifo' = fifo_remove(fifo)

(* The same on an empty queue: SCPI_ErrorPop preset (0, NULL). *)
ErrorNextQEmpty ==
  /\ fifo_is_empty(fifo)
  /\ reply' = <<NoErrorCode, NoText>>
  /\ UNCHANGED <<fifo, heap, badFree>>

(* SCPI_SystemErrorCountQ *)
ErrorCountQ == /\ reply' = <<fifo.count>>
               /\ UNCHANGED <<fifo, heap, badFree>>

(* SCPI_ErrorClear: fifo_remove and a free until the ring is empty, then
   fifo_clear. *)
ErrorClear ==
  LET queued == {Nth(fifo, i).ptr : i \in 0 .. fifo.count - 1} \ {NULL}
  IN  /\ heap' = [b \in Block |-> IF b \in queued THEN Free ELSE heap[b]]
      /\ badFree' = \/ badFree
                    \/ \E b \in queued : heap[b] = Free
                    \/ \E i, j \in 0 .. fifo.count - 1 :
                          /\ i # j
                          /\ Nth(fifo, i).ptr = Nth(fifo, j).ptr
                          /\ Nth(fifo, i).ptr # NULL
      /\ fifo' = fifo_clear(fifo)
      /\ reply' = <<>>

Next == \/ \E c \in Code, t \in Text \cup {NoText} :
              AddWithRoom(c, t) \/ AddOnFull(c, t)
        \/ ErrorNextQ
        \/ ErrorNextQEmpty
        \/ ErrorCountQ
        \/ ErrorClear

Spec == Init /\ [][Next]_vars

-----------------------------------------------------------------------------
(* Properties *)

(* Every variable stays in its type; slots may still be uninitialised. *)
TypeOK ==
  /\ fifo.size \in Sizes
  /\ fifo \in [wr : 0 .. fifo.size - 1, rd : 0 .. fifo.size - 1,
               count : 0 .. fifo.size, size : {fifo.size},
               data : [0 .. fifo.size - 1 -> Slot \cup {Uninit}]]
  /\ heap \in [Block -> Text \cup {Free}]
  /\ badFree \in BOOLEAN

(* wr stands count slots after rd around the ring (fifo.c keeps the three
   separately and changes two of them in each operation), and the slots in
   between have been written. *)
RingInv ==
  /\ fifo.wr = (fifo.rd + fifo.count) % fifo.size
  /\ \A i \in 0 .. fifo.count - 1 : Nth(fifo, i) \in Slot

(* The text copies form no leak and no alias: the allocated blocks are
   exactly those the queued entries point to, each by one entry. *)
InfoOwnership ==
  /\ Allocated = {Nth(fifo, i).ptr : i \in 0 .. fifo.count - 1} \ {NULL}
  /\ \A i, j \in 0 .. fifo.count - 1 :
        i # j /\ Nth(fifo, i).ptr = Nth(fifo, j).ptr => Nth(fifo, i).ptr = NULL

(* No block is freed twice or while unallocated, over any sequence of
   pushes, overflows, queries and clears. *)
NoBadFree == ~ badFree

(* The queue as the host sees it. *)
AbstractQueue ==
  [i \in 1 .. fifo.count |->
     [code |-> Nth(fifo, i - 1).code, info |-> TextAt(Nth(fifo, i - 1).ptr)]]

AQ == INSTANCE ErrorQueue WITH queue <- AbstractQueue, size <- fifo.size

(* The ring with its heap implements the bounded queue of ErrorQueue: what
   SYSTem:ERRor? and SYSTem:ERRor:COUNt? write is what that queue holds. *)
ImplementsQueue == AQ!Spec
=============================================================================
