----------------------------- MODULE ErrorQueue -----------------------------
(***************************************************************************)
(* What the error queue of the SCPI parser promises to the host that reads *)
(* it with SYSTem:ERRor[:NEXT]? and SYSTem:ERRor:COUNt?: a bounded queue   *)
(* of (error code, device dependent text) pairs.  A push onto a full queue *)
(* gives up the newest entry and leaves the overflow marker in its place,  *)
(* so that the oldest errors and the fact that something was lost survive. *)
(* Rings, indices and heap blocks are not visible here: ErrorFifo shows    *)
(* that fifo.c and error.c implement this specification.                   *)
(***************************************************************************)
EXTENDS Naturals, Sequences

CONSTANTS Code,          \* the error codes an application or the parser pushes
          OverflowCode,  \* SCPI_ERROR_QUEUE_OVERFLOW
          NoErrorCode,   \* the 0 of "No error"
          Text,          \* device dependent texts
          NoText,        \* a NULL text
          Sizes          \* queue sizes an application passes to SCPI_Init

VARIABLES queue,   \* the entries, oldest first
          size,    \* the capacity, fixed at SCPI_Init
          reply    \* what the last query wrote: <<>>, <<count>> or <<code, text>>

vars == <<queue, size, reply>>

Entry == [code : Code \cup {OverflowCode}, info : Text \cup {NoText}]

OverflowEntry == [code |-> OverflowCode, info |-> NoText]

Init == /\ queue = <<>>
        /\ size \in Sizes
        /\ reply = <<>>

(* The text may be dropped (no memory for a copy); the code never is. *)
Push(c, t) == /\ Len(queue) < size
              /\ \E i \in {t, NoText} :
                    queue' = Append(queue, [code |-> c, info |-> i])
              /\ reply' = <<>>
              /\ UNCHANGED size

PushFull == /\ Len(queue) = size
            /\ queue' = [queue EXCEPT ![Len(queue)] = OverflowEntry]
            /\ reply' = <<>>
            /\ UNCHANGED size

Pop == /\ queue # <<>>
       /\ reply' = <<Head(queue).code, Head(queue).info>>
       /\ queue' = Tail(queue)
       /\ UNCHANGED size

PopEmpty == /\ queue = <<>>
            /\ reply' = <<NoErrorCode, NoText>>
            /\ UNCHANGED <<queue, size>>

Count == /\ reply' = <<Len(queue)>>
         /\ UNCHANGED <<queue, size>>

Clear == /\ queue' = <<>>
         /\ reply' = <<>>
         /\ UNCHANGED size

Next == \/ \E c \in Code, t \in Text \cup {NoText} : Push(c, t)
        \/ PushFull
        \/ Pop
        \/ PopEmpty
        \/ Count
        \/ Clear

Spec == Init /\ [][Next]_vars
=============================================================================
