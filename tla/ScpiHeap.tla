------------------------------ MODULE ScpiHeap -------------------------------
(***************************************************************************)
(* The device dependent texts of the error queue in a build of scpi-parser *)
(* without malloc (USE_MEMORY_ALLOCATION_FREE is 0): scpiheap_strndup and  *)
(* scpiheap_free of utils.c keep them in a ring of characters, where a     *)
(* text may go over the end of the buffer.  Error numbers and the ring of  *)
(* entries are the subject of ErrorFifo; here an entry is the text that    *)
(* was pushed and the place where the heap put it.                         *)
(***************************************************************************)
EXTENDS Integers, FiniteSetsExt, SequencesExt

CONSTANTS Size,       \* error_info_heap_length of SCPI_InitHeap
          QueueSize,  \* error_queue_size of SCPI_Init
          Letter,     \* characters of texts
          Texts,      \* texts, cut to the length given with them
          Description,  \* what SCPI_ErrorTranslate says of an error
          OutputLimit   \* SCPI_STD_ERROR_DESC_MAX_STRING_LENGTH

ASSUME HeapAssumption == /\ Size \in Nat \ {0} /\ QueueSize \in Nat \ {0}
                         /\ Texts \subseteq Seq(Letter)
                         /\ Description \in Seq(Letter) /\ OutputLimit \in Nat

VARIABLES heap,  \* data, wr and count, the number of characters left
          queue  \* the entries: the text, <<>> for none, and its place

vars == <<heap, queue>>

Nul == "nul"
NULL == 0 - 1

ASSUME LetterAssumption == Nul \notin Letter

Cell == 0 .. Size - 1

scpiheap_init == [data |-> [i \in Cell |-> Nul], wr |-> 0, count |-> Size]

Refuses(h, s) == h.data[h.wr] # Nul \/ s = <<>> \/ Len(s) + 1 > h.count

(* scpiheap_strndup stores s and a Nul from wr on, in two parts if need be. *)
scpiheap_strndup(h, s) ==
  IF Refuses(h, s) THEN h
  ELSE LET len == Len(s) + 1
           offset(i) == (i + Size - h.wr) % Size
       IN  [data  |-> [i \in Cell |-> CASE offset(i) < Len(s) -> s[offset(i) + 1]
                                        [] offset(i) = Len(s) -> Nul
                                        [] OTHER -> h.data[i]],
            wr    |-> (h.wr + len) % Size,
            count |-> h.count - len]

(* The pointer it returns *)
Place(h, s) == IF Refuses(h, s) THEN NULL ELSE h.wr

(* strnlen from i to the end of the buffer *)
strnlen(h, i) == LET ends == {j \in i .. Size - 1 : h.data[j] = Nul}
                 IN  IF ends = {} THEN Size - i ELSE Min(ends) - i

(* Seeded fault: the part at the beginning of the buffer is forgotten. *)
scpiheap_get_parts_One(h, p) == [len1 |-> strnlen(h, p), two |-> FALSE, len2 |-> 0]

(* scpiheap_get_parts: a text that reaches the end of the buffer goes on at
   its beginning, if only with its Nul. *)
scpiheap_get_parts(h, p) ==
  LET len1 == strnlen(h, p)
      two  == p + len1 = Size
  IN  [len1 |-> len1, two |-> two, len2 |-> IF two THEN strnlen(h, 0) ELSE 0]

(* The parts of the text at p: one, or two if it reaches the end *)
Parts(h, p) ==
  LET parts == scpiheap_get_parts(h, p)
      data  == [i \in 1 .. Size |-> h.data[i - 1]]
      one   == SubSeq(data, p + 1, p + parts.len1)
  IN  IF parts.two THEN <<one, SubSeq(data, 1, parts.len2)>> ELSE <<one>>

(* The text at p, as the parts give it one after the other *)
TextAt(h, p) == IF Len(Parts(h, p)) = 2 THEN Parts(h, p)[1] \o Parts(h, p)[2] ELSE Parts(h, p)[1]

(* Seeded fault: wr goes back whoever frees. *)
WriteAt_Back(h, freed, rollback) ==
  IF h.count + freed = Size THEN 0 ELSE (h.wr + Size - freed) % Size

(* wr after freed characters: back over them if the newest text is freed. *)
WriteAt(h, freed, rollback) ==
  CASE h.count + freed = Size -> 0
    [] h.count + freed # Size /\ rollback -> (h.wr + Size - freed) % Size
    [] OTHER -> h.wr

scpiheap_free(h, p, rollback) ==
  IF p = NULL \/ (p # NULL /\ h.data[p] = Nul) THEN h
  ELSE LET parts  == scpiheap_get_parts(h, p)
           first  == p .. p + parts.len1 - (IF parts.two THEN 1 ELSE 0)
           second == IF parts.two THEN 0 .. parts.len2 ELSE {}
           freed  == parts.len1 + parts.len2 + 1
       IN  [data  |-> [i \in Cell |-> IF i \in first \cup second THEN Nul ELSE h.data[i]],
            wr    |-> WriteAt(h, freed, rollback),
            count |-> h.count + freed]

-----------------------------------------------------------------------------
(* SCPI_ResultError *)

Double == "\""

(* Seeded fault: the quote that doubles another is not counted. *)
Taken_Once(q) == q

(* Of the limit, for the text up to its q-th character, a quote *)
Taken(q) == q + 1

(* A part from its character i on, with its quotes doubled, as much of it as
   is left of the limit; behind[j][n] is the same from j on, with n left.  The
   text ends at its end or where the limit is, before a quote there. *)
WriteFrom(part, i, left, behind) ==
  LET end    == Min({Len(part), i + left - 1})
      quotes == {j \in i .. end : part[j] = Double}
      quote  == Min(quotes)
      step   == quote - i + 1
      rest   == behind[quote + 1][left - Taken(step)]
  IN  CASE quotes = {} -> [text |-> SubSeq(part, i, end), left |-> left - (end - i + 1)]
        [] quotes # {} /\ step >= left -> [text |-> SubSeq(part, i, end - 1), left |-> left - (end - i + 1)]
        [] OTHER -> [text |-> (SubSeq(part, i, quote) \o <<Double>>) \o rest.text, left |-> rest.left]

writtenOf(part, limit) ==
  LET written[i \in 1 .. Len(part) + 1] ==
        [left \in 0 .. limit |-> WriteFrom(part, i, left, written)]
  IN  written

(* w with a part behind it, and what is between them, while the limit is not
   reached *)
WritePart(w, between, part) ==
  LET limit == w.left - Len(between)
      more  == writtenOf(part, limit)[1][limit]
  IN  IF w.left = 0 THEN w
      ELSE [text |-> (w.text \o between) \o more.text, left |-> more.left]

(* The description, a semicolon and the parts of the information, each only
   while the limit is not reached; without the quotes around them. *)
SCPI_ResultError(parts) ==
  LET description == WritePart([text |-> <<>>, left |-> OutputLimit], <<>>, Description)
      first       == WritePart(description, <<";">>, parts[1])
  IN  CASE Len(parts) = 0 -> description.text
        [] Len(parts) = 1 -> first.text
        [] Len(parts) = 2 -> WritePart(first, <<>>, parts[2]).text

-----------------------------------------------------------------------------
(* error.c *)

NoInfo == [text |-> <<>>, ptr |-> NULL]

Entry(h, s) == [text |-> IF Refuses(h, s) THEN <<>> ELSE s, ptr |-> Place(h, s)]

Init == heap = scpiheap_init /\ queue = <<>>

(* SCPI_ErrorAddInternal: with room in the queue; without, the new text is
   freed, then that of the newest entry, which becomes the overflow marker. *)
AddWithRoom(s) ==
  /\ Len(queue) < QueueSize
  /\ heap' = scpiheap_strndup(heap, s)
  /\ queue' = Append(queue, Entry(heap, s))

AddOnFull(s) ==
  /\ Len(queue) = QueueSize
  /\ LET h == scpiheap_free(scpiheap_strndup(heap, s), Place(heap, s), TRUE)
     IN  heap' = scpiheap_free(h, Last(queue).ptr, TRUE)
  /\ queue' = Append(Front(queue), NoInfo)

(* SCPI_SystemErrorNextQ *)
ErrorNextQ ==
  /\ queue # <<>>
  /\ heap' = scpiheap_free(heap, Head(queue).ptr, FALSE)
  /\ queue' = Tail(queue)

(* The heap when the first k of the entries q are freed, the oldest first *)
freedOf(h, q) ==
  LET freed[k \in 0 .. Len(q)] ==
        IF k = 0 THEN h ELSE scpiheap_free(freed[k - 1], q[k].ptr, FALSE)
  IN  freed

(* SCPI_ErrorClear *)
ErrorClear ==
  /\ heap' = freedOf(heap, queue)[Len(queue)]
  /\ queue' = <<>>

Next == \/ \E s \in Texts : AddWithRoom(s) \/ AddOnFull(s)
        \/ ErrorNextQ
        \/ ErrorClear

Spec == Init /\ [][Next]_vars

-----------------------------------------------------------------------------
(* The characters that an entry takes, and the first k entries together *)
Used(e) == IF e.ptr = NULL THEN 0 ELSE Len(e.text) + 1

usedBy(q) ==
  LET used[k \in 0 .. Len(q)] == IF k = 0 THEN 0 ELSE used[k - 1] + Used(q[k])
  IN  used

(* A queued error keeps the text it was pushed with until it is read, also
   where the text goes over the end of the buffer, through overflows of the
   queue and texts that found no room (utils.c:785-900). *)
TextsIntact ==
  \A i \in DOMAIN queue : queue[i].ptr # NULL => TextAt(heap, queue[i].ptr) = queue[i].text

Doubled(c) == IF c = Double THEN <<Double, Double>> ELSE <<c>>

(* The first k characters of a text with their quotes doubled *)
escapedOf(t) ==
  LET escaped[k \in 0 .. Len(t)] == IF k = 0 THEN <<>> ELSE escaped[k - 1] \o Doubled(t[k])
  IN  escaped

(* The answer is as much of the text as fits, no less and no more. *)
Longest(text, answer) ==
  LET escaped == escapedOf(text)
  IN  \E k \in 0 .. Len(text) :
        /\ answer = escaped[k] /\ Len(escaped[k]) <= OutputLimit
        /\ k < Len(text) => Len(escaped[k + 1]) > OutputLimit

(* "The maximum string length of <Error/event_description> plus
   <Device-dependent_info> is SCPI_STD_ERROR_DESC_MAX_STRING_LENGTH"
   (parser.c:536): the answer for a queued error is as much of both as fits,
   and never one half of a doubled quote, wherever the text is in the ring. *)
AnswerWithinLimit ==
  \A i \in DOMAIN queue :
    IF queue[i].ptr = NULL THEN Longest(Description, SCPI_ResultError(<<>>))
    ELSE Longest((Description \o <<";">>) \o queue[i].text,
                 SCPI_ResultError(Parts(heap, queue[i].ptr)))

(* No character is lost or counted twice: what the queued texts do not take
   is free, in one piece that begins at wr, so that a text is refused only if
   there is no room for it. *)
SpaceAccounted ==
  /\ heap.count = Size - usedBy(queue)[Len(queue)]
  /\ \A k \in 0 .. heap.count - 1 : heap.data[(heap.wr + k) % Size] = Nul
==============================================================================
