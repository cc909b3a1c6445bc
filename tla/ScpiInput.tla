----------------------------- MODULE ScpiInput ------------------------------
(***************************************************************************)
(* SCPI_Input and SCPI_Parse of scpi-parser: bytes arrive in pieces, are   *)
(* kept until a line is complete, and the units of a line are executed one *)
(* after the other.  pc is where the code is between two units:            *)
(*   idle   between two calls of SCPI_Input                                *)
(*   scan   in the loop of SCPI_Input that looks for a terminator          *)
(*   parse  in the loop of SCPI_Parse                                      *)
(*                                                                         *)
(* A command is a record of the headers its pattern matches (names) and of *)
(* what its callback does.  It reads integers: as many as it needs         *)
(* (reads), and stops with SCPI_RES_ERR at the first it cannot get; then   *)
(* more as long as there are any (more), as SCPI_ParamArrayInt32 does.     *)
(* Then it writes its results and returns res.  A result is a value, or a  *)
(* block that is announced with a length and given in parts.               *)
(***************************************************************************)
EXTENDS ScpiNumber

CONSTANTS Chunks,       \* the pieces in which bytes arrive
          Commands,     \* the command table, in its order
          BufferLength, \* input_buffer_length of SCPI_Init
          MaxStream     \* bound on the bytes accepted without a reset

ASSUME ChunksAssumption == Chunks \subseteq Seq(Char) \ {<<>>}
ASSUME CommandsAssumption ==
  Commands \in Seq([names : SUBSET Seq(Char), reads : Nat, more : Nat,
                    writes : Seq(Seq(Nat)), res : {"OK", "ERR"}])
ASSUME BoundAssumption == BufferLength \in Nat \ {0} /\ MaxStream \in Nat

VARIABLES
  buffer,        \* buffer.data up to buffer.position
  pc,
  totcmdlen,     \* of SCPI_Input
  job,           \* of SCPI_Parse: end of the line, position, cmd_prev; and
                 \* whether it was called for SCPI_Input with no bytes
  output_count,
  cmd_error,
  result,        \* of SCPI_Parse, or of SCPI_Input when it is idle
  (* seen from outside *)
  output,        \* what was written to the host for the last line
  errors,        \* error numbers pushed for the last line
  unit,          \* the last unit: did its callback fail, its errors, its
                 \* parameters that were not read
  stream,        \* bytes accepted since the buffer was last reset
  log            \* the units handled since then, but for empty ones

vars == <<buffer, pc, totcmdlen, job, output_count, cmd_error, result,
          output, errors, unit, stream, log>>

INVALID_CHARACTER == 0 - 101
PARAMETER_NOT_ALLOWED == 0 - 108
UNDEFINED_HEADER == 0 - 113
EXECUTION_ERROR == 0 - 200
SYSTEM_ERROR == 0 - 310
INPUT_BUFFER_OVERRUN == 0 - 363

NoToken == [first |-> 0, len |-> 0]
NoJob == [end |-> 0, at |-> 1, prev |-> NoToken, last |-> FALSE]
NoUnit == [failed |-> FALSE, errors |-> 0, unread |-> 0]

-----------------------------------------------------------------------------
(* The callback of command c on the parameters d from pos on.  What it has
   read so far: ok, the position and error of the last reader (0 for none),
   and how many parameters it got (input_count). *)
ReadNext(d, r, mandatory) ==
  LET counted(p, x) == [ok |-> x.ok, pos |-> x.pos, error |-> x.error,
                        count |-> r.count + (IF p.ok THEN 1 ELSE 0)]
      one(p) == counted(p, ParamSignUInt(d, p, Width, TRUE))
  IN  IF r.ok THEN one(Parameter(d, r.pos, r.count, mandatory)) ELSE r

(* What is optional does not fail, and ends with the first that is not read. *)
readOf(c, d, pos) ==
  LET read[k \in 0 .. c.reads + c.more] ==
        IF k = 0 THEN [ok |-> TRUE, pos |-> pos, error |-> 0, count |-> 0]
        ELSE ReadNext(d, read[k - 1], k <= c.reads)
  IN  read

Callback(c, d, pos) ==
  [readOf(c, d, pos)[c.reads + c.more] EXCEPT !.ok = readOf(c, d, pos)[c.reads].ok]

(* Something written to the host, n bytes of it where that matters *)
Written(what, n) == <<[what |-> what, n |-> n]>>

(* A delimiter behind the results that were written already. *)
writeDelimiter(count) == IF count > 0 THEN Written(",", 0) ELSE <<>>

(* A result is <<>> for a value, or the announced length of a block and the
   lengths of the parts in which its data is written. *)
Value == <<>>
Block(length, parts) == <<length>> \o parts

Accepts(w, n) == n <= w.reminding

(* SCPI_ResultArbitraryBlockData: the block counts as a result when it is
   complete. *)
BlockData(w, n) ==
  IF Accepts(w, n)
  THEN [w EXCEPT !.text = @ \o Written("data", n),
                 !.reminding = @ - n,
                 !.count = IF w.reminding = n THEN @ + 1 ELSE @]
  ELSE [w EXCEPT !.errors = Append(@, SYSTEM_ERROR)]

(* SCPI_ResultArbitraryBlockHeader: no delimiter before it *)
BlockHeader(w, n) == [w EXCEPT !.text = @ \o Written("block", n), !.reminding = n]

(* The data of a block from its parts, which follow the length in item *)
givenOf(w, item) ==
  LET given[k \in 0 .. Len(item) - 1] ==
        IF k = 0 THEN BlockHeader(w, item[1]) ELSE BlockData(given[k - 1], item[k + 1])
  IN  given

WriteResult(w, item) ==
  IF item = Value
  THEN [w EXCEPT !.text = @ \o writeDelimiter(w.count) \o Written("res", 0), !.count = @ + 1]
  ELSE givenOf(w, item)[Len(item) - 1]

(* The results in turn: what is written, output_count, arbitrary_reminding
   and the errors pushed *)
NoResult == [text |-> <<>>, count |-> 0, reminding |-> 0, errors |-> <<>>]

writtenOf(results) ==
  LET written[k \in 0 .. Len(results)] ==
        IF k = 0 THEN NoResult ELSE WriteResult(written[k - 1], results[k])
  IN  written

Results(results) == writtenOf(results)[Len(results)]

(* Seeded fault: whatever was written is taken for a result. *)
writeSemicolon_AnyOutput == IF output # <<>> THEN Written(";", 0) ELSE <<>>

writeSemicolon == IF output_count > 0 THEN Written(";", 0) ELSE <<>>

(* Seeded fault: an error of the previous command still counts. *)
ErrorAtStart_Kept == cmd_error

(* processCommand resets cmd_error. *)
ErrorAtStart == FALSE

(* Seeded fault: nobody looks for them. *)
Unread_Ignored(d, pos) == FALSE

(* The callback did not read all parameters. *)
Unread(d, pos) == ~ iseos(d, pos)

(* Seeded fault: the last command decides. *)
Accumulate_Last(ok) == ok

(* result &= ... *)
Accumulate(ok) == result /\ ok

(* What is left of processCommand when the callback of c has read r and
   written w.  SCPI_ErrorPush sets cmd_error. *)
Finish(c, d, r, w, count) ==
  LET own     == (IF r.error # 0 THEN <<r.error>> ELSE <<>>) \o w.errors
      failed  == ~ r.ok \/ c.res = "ERR"
      quiet   == own = <<>> /\ ~ ErrorAtStart
      codes   == CASE failed /\ quiet -> <<EXECUTION_ERROR>>
                   [] ~ failed /\ quiet /\ Unread(d, r.pos) -> <<PARAMETER_NOT_ALLOWED>>
                   [] OTHER -> own
  IN  /\ output' = output \o writeSemicolon \o w.text
      /\ output_count' = w.count
      /\ errors' = errors \o codes
      /\ cmd_error' = (ErrorAtStart \/ codes # <<>>)
      /\ result' = Accumulate(~ failed /\ codes = <<>>)
      /\ unit' = [failed |-> failed, errors |-> Len(codes), unread |-> count - r.count]

(* processCommand: command c with the parameters d from first on, of which
   the parser has counted count *)
processCommand(c, d, first, count) ==
  LET finish(r) == Finish(c, d, r, Results(IF r.ok THEN c.writes ELSE <<>>), count)
  IN  finish(Callback(c, d, first))

(* A unit that does not reach a callback: an error, or nothing at all *)
NoCommand(codes) ==
  /\ errors' = errors \o codes
  /\ cmd_error' = (cmd_error \/ codes # <<>>)
  /\ result' = Accumulate(codes = <<>>)
  /\ unit' = [failed |-> FALSE, errors |-> Len(codes), unread |-> 0]
  /\ UNCHANGED <<output, output_count>>

-----------------------------------------------------------------------------
(* SCPI_Parse *)

StartParse(end, last) ==
  /\ pc' = "parse"
  /\ job' = [end |-> end, at |-> 1, prev |-> NoToken, last |-> last]
  /\ output_count' = 0
  /\ output' = <<>>
  /\ errors' = <<>>
  /\ result' = TRUE
  /\ unit' = NoUnit

(* findCommandHeader: the places in the table of the commands that match the
   header; the first of them is taken. *)
Matching(header) == {k \in DOMAIN Commands : header \in Commands[k].names}

(* A unit u with a header, which stands in h.line as h.header, and the
   commands that it matches *)
ExecuteUnit(u, h, found) ==
  /\ IF found = {} THEN NoCommand(<<UNDEFINED_HEADER>>)
     ELSE processCommand(Commands[Min(found)], SubSeq(h.line, 1, u.data.first + u.data.len - 1),
                         u.data.first, u.count)
  /\ buffer' = h.line \o SubSeq(buffer, job.end + 1, Len(buffer))
  /\ job' = [job EXCEPT !.at = u.next, !.prev = IF found # {} THEN h.header ELSE @]

(* A unit that is no command *)
SkipUnit(u, codes) ==
  /\ NoCommand(codes)
  /\ job' = [job EXCEPT !.at = u.next]
  /\ UNCHANGED buffer

HandleUnit(s, u) ==
  LET empty == u.header.type # "INVALID" /\ u.header.len = 0
      execute(h) == ExecuteUnit(u, h, Matching(Text(h.line, h.header)))
  IN  /\ \/ u.header.type = "INVALID" /\ SkipUnit(u, <<INVALID_CHARACTER>>)
         \/ empty /\ SkipUnit(u, <<>>)
         \/ /\ u.header.type # "INVALID" /\ ~ empty
            /\ execute(composeCompoundCommand(s, job.prev, u.header))
      /\ log' = IF empty THEN log ELSE Append(log, SubSeq(buffer, job.at, u.stop - 1))

(* One unit of the line; the callback runs to its end. *)
ParseUnit ==
  LET s == SubSeq(buffer, 1, job.end)
  IN  /\ pc = "parse"
      /\ job.at <= job.end
      /\ HandleUnit(s, detectProgramMessageUnit(s, job.at))
      /\ UNCHANGED <<pc, totcmdlen, stream>>

(* memmove of what follows the line *)
AfterLine == SubSeq(buffer, job.end + 1, Len(buffer))

(* The newline, and SCPI_Input after the call. *)
ParseEnd ==
  /\ pc = "parse"
  /\ job.at > job.end
  /\ output' = IF output_count > 0 THEN output \o Written("nl", 0) ELSE output
  /\ job' = NoJob
  /\ IF job.last
     THEN buffer' = <<>> /\ pc' = "idle" /\ stream' = <<>> /\ log' = <<>>
     ELSE /\ buffer' = AfterLine
          /\ pc' = "scan"
          /\ UNCHANGED <<stream, log>>
  /\ totcmdlen' = 0
  /\ UNCHANGED <<output_count, cmd_error, result, errors, unit>>

-----------------------------------------------------------------------------
(* SCPI_Input *)

(* Seeded fault: the byte for the final 0 is forgotten. *)
Overrun_NoNul(data) == Len(data) > BufferLength - Len(buffer)

Overrun(data) == Len(data) > (BufferLength - Len(buffer)) - 1

InputOverrun(data) ==
  /\ pc = "idle"
  /\ Overrun(data)
  /\ buffer' = <<>>
  /\ errors' = <<INPUT_BUFFER_OVERRUN>>
  /\ cmd_error' = TRUE
  /\ result' = FALSE
  /\ unit' = NoUnit
  /\ output' = <<>>
  /\ stream' = <<>>
  /\ log' = <<>>
  /\ UNCHANGED <<pc, totcmdlen, job, output_count>>

(* Seeded fault: the scan goes on behind the bytes that were there. *)
ScanFrom_New == Len(buffer)

(* Each call looks at the whole buffer again. *)
ScanFrom == 0

Input(data) ==
  /\ pc = "idle"
  /\ ~ Overrun(data)
  /\ Len(stream) + Len(data) <= MaxStream
  /\ buffer' = buffer \o data
  /\ stream' = stream \o data
  /\ totcmdlen' = ScanFrom
  /\ pc' = "scan"
  /\ result' = TRUE
  /\ output' = <<>>
  /\ errors' = <<>>
  /\ unit' = NoUnit
  /\ UNCHANGED <<job, output_count, cmd_error, log>>

(* SCPI_Input with no bytes executes what is there. *)
InputEnd ==
  /\ pc = "idle"
  /\ StartParse(Len(buffer), TRUE)
  /\ UNCHANGED <<buffer, totcmdlen, cmd_error, stream, log>>

(* The scan found the unit u *)
Scanned(u) ==
  LET tot  == u.next - 1
      done == \/ u.header.type = "UNKNOWN" /\ u.termination = "NONE"
              \/ tot >= Len(buffer)
  IN  IF u.termination = "NL"
      THEN StartParse(tot, FALSE) /\ totcmdlen' = tot
      ELSE /\ pc' = IF done THEN "idle" ELSE "scan"
           /\ totcmdlen' = IF done THEN 0 ELSE tot
           /\ UNCHANGED <<job, output_count, output, errors, result, unit>>

ScanUnit ==
  /\ pc = "scan"
  /\ Scanned(detectProgramMessageUnit(buffer, totcmdlen + 1))
  /\ UNCHANGED <<buffer, cmd_error, stream, log>>

-----------------------------------------------------------------------------
Init == /\ buffer = <<>>
        /\ pc = "idle"
        /\ totcmdlen = 0
        /\ job = NoJob
        /\ output_count = 0
        /\ cmd_error = FALSE
        /\ result = TRUE
        /\ output = <<>>
        /\ errors = <<>>
        /\ unit = NoUnit
        /\ stream = <<>>
        /\ log = <<>>

Next == \/ \E data \in Chunks : Input(data) \/ InputOverrun(data)
        \/ InputEnd
        \/ ScanUnit
        \/ ParseUnit
        \/ ParseEnd

Spec == Init /\ [][Next]_vars

-----------------------------------------------------------------------------
(* Properties *)

(* The input, its terminating 0 and every position stay in the buffer. *)
TypeOK == /\ buffer \in Seq(Char) /\ Len(buffer) < BufferLength
          /\ pc \in {"idle", "scan", "parse"}
          /\ totcmdlen \in 0 .. Len(buffer)
          /\ job.end \in 0 .. Len(buffer)
          /\ job.at \in 1 .. job.end + 1
          /\ job.prev.first >= 0 /\ job.prev.first + job.prev.len <= job.at
          /\ output_count \in Nat
          /\ cmd_error \in BOOLEAN /\ result \in BOOLEAN

(* The lines of a stream of bytes that comes in one piece: the texts of the
   units of its complete lines, but for empty ones, and the position behind
   the last of these lines, 0 where no line is complete. *)
NoLine == [texts |-> <<>>, next |-> 0]

(* Texts up to the position next, with the lines r behind them *)
Before(texts, next, r) ==
  IF r.next = 0 THEN [texts |-> texts, next |-> next] ELSE [r EXCEPT !.texts = texts \o @]

UnitText(s, i, u) ==
  IF u.header.type # "INVALID" /\ u.header.len = 0 THEN <<>> ELSE <<SubSeq(s, i, u.stop - 1)>>

(* A unit u at i belongs to a complete line if it ends the line or a line
   ends behind it. *)
LineUnit(s, i, u, r) ==
  IF u.termination # "NL" /\ r.next = 0 THEN NoLine ELSE Before(UnitText(s, i, u), u.next, r)

completeFrom(s) ==
  LET from[i \in 1 .. Len(s) + 1] ==
        LET add(u) == LineUnit(s, i, u, from[u.next])
        IN  IF i > Len(s) THEN NoLine ELSE add(detectProgramMessageUnit(s, i))
  IN  from

Complete(s) == Before(<<>>, 1, completeFrom(s)[1])

(* Between two calls, exactly the units of the complete lines received have
   been handled, each once and in order, and the rest is kept, however the
   bytes were cut into pieces.  (Not for a newline in a string: there the
   code does depend on the pieces.) *)
ChunkIndependence ==
  pc = "idle" /\ (\A k \in DOMAIN stream : stream[k] \notin Quote) =>
    LET holds(whole) == log = whole.texts /\ buffer = SubSeq(stream, whole.next, Len(stream))
    IN  holds(Complete(stream))

(* SCPI_Parse: "@return FALSE if there was some error during evaluation of
   commands" (parser.c:186), of any command of the line and only then. *)
ResultTellsErrors ==
  [][pc = "parse" /\ pc' # "parse" => (result' <=> errors' = <<>>)]_vars

(* A unit gives at most one error, and gives one if its callback failed,
   whatever happened to the unit before it. *)
OneErrorPerUnit == unit.errors <= 1 /\ (unit.failed => unit.errors = 1)

(* What a command table must do for a unit to have one error: no callback
   pushes two errors by writing to a block what was not announced, and one
   that pushes such an error has no optional parameter, whose error would be
   another. *)
AtMostOneOwn ==
  \A k \in DOMAIN Commands :
    LET own == Len(Results(Commands[k].writes).errors)
    IN  own <= 1 /\ (own = 1 => Commands[k].more = 0)

(* What the block that was announced last still lacks, after an item and
   after each item of what was written to the host *)
Owing(item, before) == CASE item.what = "block" -> item.n
                         [] item.what = "data" -> before - item.n
                         [] OTHER -> 0

owedOf(out) ==
  LET owed[k \in 0 .. Len(out)] ==
        IF k = 0 THEN 0 ELSE Owing(out[k], owed[k - 1])
  IN  owed

(* The host can tell the answers of a line apart: between two results there
   is a delimiter or a semicolon, and a block has never more data than it
   announces, and as much as it announces before the next delimiter, semicolon
   or line end (parser.c:83, 113, 640).  Not so for a result behind a block
   whose data was refused, nor for a block that is not the first result of
   its command: that one gets no delimiter. *)
Separates(item) == item.what \in {",", ";", "nl"}
Begins(item) == item.what \in {"res", "block"}

Apart(out) ==
  \A k \in DOMAIN out :
    /\ out[k].what = "data" => out[k].n <= owedOf(out)[k - 1]
    /\ Separates(out[k]) => owedOf(out)[k - 1] = 0
    /\ Begins(out[k]) /\ k > 1 => Separates(out[k - 1]) \/ out[k - 1].what = "block"

AnswersSeparated == Apart(output)

(* What a command table must do for its answers to be separated: a block is
   the first result of its command, and it is written in full or has no data
   at all. *)
BlockFirst(writes) ==
  \A j \in DOMAIN writes :
    writes[j] # Value =>
      LET w == Results(<<writes[j]>>) IN j = 1 /\ (w.count > 0 \/ Len(w.text) = 1)

BlocksFirst == \A k \in DOMAIN Commands : BlockFirst(Commands[k].writes)

(* A unit whose callback leaves parameters is an error ("set error if
   command callback did not read all parameters", parser.c:153), if no blank
   precedes a comma in what was received. *)
BlankBeforeComma == \E k \in 1 .. Len(stream) - 1 : stream[k] \in Blank /\ stream[k + 1] = ","

UnreadReported == pc = "parse" /\ unit.unread > 0 /\ ~ BlankBeforeComma => unit.errors > 0

(* The same, for every input. *)
AllParametersRead == unit.unread > 0 => unit.errors > 0

(* What a call has left to do: bytes to scan, and bytes of the line that is
   being parsed; a byte that is scanned counts again until it is parsed. *)
Work == IF pc = "scan" THEN 3 * Len(buffer) - totcmdlen
        ELSE 3 * (Len(buffer) - job.end) + (job.end - job.at) + 2

(* Every call of SCPI_Input comes to its end: none of its steps leaves as
   much to do as it found, and none goes on when nothing is left, so the two
   loops (parser.c:200, 333) do not spin on any input, whole or in pieces. *)
CallsEnd == [][pc # "idle" /\ pc' # "idle" => Work' \in 0 .. Work - 1]_vars
=============================================================================
