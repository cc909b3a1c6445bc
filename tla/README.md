# Verification of PdevUtils

TLA+ models, TLC runs and TLAPS proofs for PdevUtils: the vendored-and-adapted
library `scpi-parser` (a SCPI instrument in C), the older OIC parser with its
environment commands and TCP server, and the programs that talk to devices over
sockets and serial lines.  Paths below are relative to `src/`.

1. [The system](#1-the-system)
2. [Modules](#2-modules)
3. [Runs](#3-runs)
4. [Proofs](#4-proofs)
5. [Findings](#5-findings)
6. [What is not modelled](#6-what-is-not-modelled)
7. [Plan](#7-plan)

## 1. The system

| component | source | state it keeps | operations | what makes it correct |
|---|---|---|---|---|
| error ring and texts | `scpi-parser/src/fifo.c`, `error.c` | indices `wr`, `rd`, `count` of a ring of entries; one heap text per entry | add, remove, remove last, clear, count; push, pop, overflow | a bounded queue whose newest entry becomes the overflow marker; each text has one owner and is freed once |
| text heap | `utils.c` (`scpiheap_*`), `parser.c` (`SCPI_ResultError`) | ring of characters, `wr`, `count` | strndup, get_parts, free with or without rollback; writing a text in its parts | queued texts stay whole, space comes back, an answer stays within its limit |
| status reporting | `ieee488.c`, `minimal.c`, `error.c` | ten 16-bit registers, the error queue | register set/clear with summary and service request, common commands, STATus and SYSTem commands | the status byte says what the other registers and the queue say; service is requested when, and only when, something changed |
| lexer | `lexer.c` | a position | one function per IEEE 488.2 token | the longest token, given back as a whole if it is incomplete |
| message parser | `parser.c`, `utils.c` | input buffer, position in the line, previous header, `output_count`, `cmd_error`, what is left of a block | `SCPI_Input`, `SCPI_Parse`, `SCPI_Parameter`, arrays, results and blocks | units are executed once, in order, however the bytes arrive |
| command patterns | `utils.c` | none | `matchPattern`, `matchCommand`, `SCPI_CommandNumbers` | a header matches the patterns it is a form of |
| number conversion | `utils.c`, typed readers of `parser.c` | none | integers, fractions, choices, texts and blocks from and to text | what is written reads back; a reader gives a value or one error |
| expressions, units | `expression.c`, `units.c` | none | entries of numeric and channel lists; suffixes, special numbers | a list is read entry by entry as what it is; the unit and factor of a suffix |
| OIC parser | `scpitest/lib/scpiparser.cpp` | command tree, error list, the static string `Serial` | register, find, execute, read a number | the command that was meant is executed, on its own message |
| environment commands | `scpitest/lib/env_scpiparser.cpp` | none | one callback per reading | the answer that belongs to the channel |
| `scpi_server` | `scpi_server/src/scpi_server.cpp` | listening socket, one connection | accept, read, execute, send | who asks is answered; it stops on request |
| `scpi_client` | `scpi_client/src/scpi_client.cpp` | one connection at a time | connect, send, read, close | |
| serial gateway | `scpi_client/src/scpi_client_serBI.cpp`, `serr_BI_cmd.cpp` | the serial line, one connection, the log line | measure, accept, switch the high voltage | values in the columns of their requests; measuring goes on |
| serial test client | `scpi_client/src/scpi_client_ser.cpp` | the serial line | ask, print | as the gateway, without its socket |
| `recover_serial` | `recover_serial/src/recover_serial.cpp` | file descriptor, count of empty reads | read, check, close, open | a dead descriptor is given up, a device that stays is heard again |
| test program, build | `scpitest/src/scpitest.cpp`, `cmake` | | | |

How they interact.  Bytes go into `SCPI_Input`, which looks for a line end with
the lexer and calls `SCPI_Parse`; that matches each header with the patterns of
the command table and calls the callback, which reads parameters, writes
results and pushes errors.  An error goes to the ring, to the event status
register and so to the status byte, which may call the application's control
function (service request).  `scpi_server` does not use this parser but the OIC
one, through `scpi_execute_command`; both sides of its socket are in the
repository.  The gateway talks to a device on a serial line (a SCPI instrument
of another repository) and takes commands of `serr_BI_cmd` on a socket.

What is hard: bytes cut anywhere; state left behind by one unit for the next;
nested register updates with old values in locals; ownership of texts through
overflow; processes that vanish, are silent or are answered late; descriptors
that are never closed.  The list of hazards in `PROJECT.json` gives the line
where each bites and the properties that watch it.

## 2. Modules

### Errors: `ErrorQueue`, `ErrorFifo`, `ScpiHeap`

`ErrorQueue` is the abstract promise: a bounded queue of (code, text) where an
error too many replaces the newest one by the overflow marker, and a text may
be lost for want of memory.  `ErrorFifo` is the code: the ring of `fifo.c`
(`fifo_add`, `fifo_remove`, `fifo_remove_last`, `fifo_clear`, one operator each,
on the record `fifo`), the malloc heap behind `strndup`/`free` (`heap`: which
block holds which text; allocation may fail at any time), and one action per
caller: `SCPI_ErrorAddInternal` with room (`AddWithRoom`) and without
(`AddOnFull`), `SCPI_SystemErrorNextQ`, `SCPI_ErrorClear`, the count query.
`badFree` becomes true if a block is freed that is not allocated.
`ImplementsQueue` is the refinement, the queue being `Nth(fifo, 0..count-1)`
with the pointers followed.

`ScpiHeap` is the build without malloc: `scpiheap_strndup`, `scpiheap_get_parts`
and `scpiheap_free` on a ring of characters, driven by the same callers, and
`SCPI_ResultError`, which writes description and text in up to three parts,
doubles their quotes and cuts them to the limit of the standard.  The entries are
a plain sequence here: the ring of entries is ErrorFifo's subject.

### Status: `ScpiStatus`

`ctx` holds the registers as sets of bit numbers (so `SetBits` is union and a
value of 32 bits is cut to 16 by `ToRegVal`), the queue of error codes, and what
the last call gave to the outside (`sent` service requests, `events` of the
error callback, `reply`).  `SCPI_RegSet` is written out per kind of register
(`RegSetStb`, `RegSetSre`, `RegSetEvent`, `RegSetEnable`, `RegSetCond`), with
`regUpdateSTB` as `UpdateStb`; a handler is one action that composes them, nested
updates included.  Callbacks of the application observe and do not call back.

### Lexing and parsing: `ScpiLexer`, `ScpiUnit`, `ScpiNumber`, `ScpiUnits`, `ScpiList`, `ScpiInput`

`ScpiLexer` has one operator per lexer function; a line is a sequence of
characters, a position is 1-based, and the result is the record of
`scpi_token_t` with the return value (`ret`) and the position after it (`next`).
Reading behind the end is what `iseos` prevents, so positions stop at
`Len(s) + 1`.  `ScpiUnit` has `scpiParser_parseProgramData`,
`..._parseAllProgramData`, `..._detectProgramMessageUnit`, `SCPI_Parameter` and
`composeCompoundCommand`.

`ScpiNumber` is what the parser makes of a parameter: `strBaseTo(U)Int32/64` and
`UInt32/64ToStrBaseSign` in four bases (the pairs of functions are one operator
with the width `w`; an integer is its bit pattern in `0 .. 2^w - 1`),
`SCPI_ParamDouble` with a fraction kept exactly as mantissa and exponent, and
`SCPI_ParamBool`, `...Choice`, `...CopyText`, `...ArbitraryBlock`,
`...Characters`, each with the error it pushes.  `ScpiUnits` has the two tables of
`units.c` (factors are names: they are floating point), `SCPI_ParamNumber` and
the names `SCPI_NumberToStr` writes.  `ScpiList` has the entries of numeric and
channel lists of `expression.c`: an entry is found by reading from the start.
These modules are pure; `MCScpiUnit` compares them with a grammar of words and
with writers that are stated independently of the code.

`ScpiInput` is the state machine.  `pc` is between the units: `idle` (no call is
active), `scan` (the loop of `SCPI_Input`), `parse` (the loop of `SCPI_Parse`).
`Input`, `InputOverrun` and `InputEnd` are the three ways into `SCPI_Input`;
`ScanUnit` and `ParseUnit` take one turn of a loop; `ParseEnd` is the end of
`SCPI_Parse`, with the rest of the buffer moved to the front.  A callback reads
`reads` integers, then up to `more` as `SCPI_ParamArrayInt32` does, writes
`writes` (values, and blocks that are announced with a length and given in
parts) and returns `res`: this is all the parser can see of it.
`output`, `errors`, `unit`, `stream` and `log` record what an observer sees; the code
has no such variables.

`ScpiMatch` has `matchCommand` over keywords and words instead of characters: a
keyword is known by its spellings, a word by its spelling and the number at its
end.  `MatchFrom` is the loop, `RestIsOptional` the loop over what is left of
the pattern, `AfterMatch` and `AfterMismatch` the tables of separators of its
branches.  The patterns checked have different keywords, each in brackets of
its own: the search never goes back, so it does not find `A:B` in `A[:B]:B`, and
brackets around several keywords are not what it is written for.  `ScpiInput`
takes the headers a pattern matches (`names`) as given.

### Server and clients: `OicNumeric`, `OicParser`, `OicServer`

`OicNumeric` is `scpi_parse_numeric`: one operator per state of its loop, a value
as sign, mantissa and exponent, and the conversion of a channel to
`unsigned char`, which may give any of its values where C leaves it undefined.
`OicParser` has pure operators: `scpi_parse_string`, the command tree in its
order of registration (`scpi_init`, `scpi_setup`, with the lengths the code gives
for each name), `scpi_find_command` and what each callback prints.  Messages are
sequences of syllables, fine enough for every name length in the code.
`OicServer` is the loop of `scpi_server.cpp` (`Accept`, `AcceptFails`, `Read`,
`Answer`, `AnswerEmpty`) and that of the clients (`Connect`, `SendMessage`,
`Close`, `GiveUp`), with TCP between them: a read returns any non-empty beginning
of what was sent, or nothing when the client is gone.

### The gateway: `SerialGateway`

`scpi_client_serBI.cpp` with its device, its serial line and its clients.
`get_info` is `Ask` (flush, write) and, after the line, one of `StartUp`,
`Measure`, `SwitchHV` for its three callers.  The line is `out` (written, not
transmitted), `device` (not sent yet) and `inbox` (can be read): `tcflush` empties
the first and the last, not the middle one.  `Settle` is the 50 ms sleep: an
assumption that what is under way arrives in that time (`Quiet`).  Answers are
named after their requests, so a value in a wrong column shows.

### `RecoverSerial`

`recover_serial.cpp` and its device.  `pc` is the place in the loop of `main`: the
read (`ReadLine`, `ReadNothing`), `fstat` and the count (`CheckFails`,
`CheckCounts`), `Close` and `Open`.  A descriptor is `none` (-1), `live` or `dead`:
opened before the device went, which neither `read` nor `fstat` tells.  The device
is unplugged and plugged at any time, the port may fail to open although the
device is there, and a live descriptor may give empty reads.

## 3. Runs

Every property has a seeded fault in the module it is about (the operators
commented "Seeded fault"); with it in place of the original TLC finds the property
violated.  None of them is used by a specification.

| run | instance | what it shows |
|---|---|---|
| `error_fifo` | rings of 1, 2, 3 entries, 4 blocks, 2 codes, 2 texts; blocks are symmetric | indices, ownership, no bad free, and the refinement of `ErrorQueue` |
| `heap` | 7 characters, 3 entries, texts of length 0, 1, 2, 3, 4, 6 and 7, most with quotes; output limit 6 | texts intact over the end of the buffer; space accounted for, in one piece; answers within the limit, with their quotes in pairs |
| `status` | queue of 2, one command error and one positive error, enable masks with and without bits above 15, masks with and without SRQ itself | the status byte after every sequence of calls; requests announced; events latched |
| `status_der` | the same | finding 1 |
| `unit` | 13 families: a beginning and up to 3 to 9 characters behind it; all unit suffixes and special numbers; 5 and 7 bits for 32 and 64 | tokens are the longest words of the grammar; no unit swallows a terminator; parameters, numbers, texts and lists read back |
| `input` | 10 pieces in every order, up to 9 bytes between resets, buffer of 9 (8 and the final 0); 5 commands that read, fail, announce blocks | independence of the pieces, errors and answers per unit, every call ends |
| `input_blank` | pieces with blanks before a comma | finding 2 |
| `match` | all patterns of 1 to 3 keywords (78, with and without `?`, and `*IDN`), headers of up to 6 tokens | headers and numbers found |
| `server` | 2 clients, backlog 2, 3 descriptors, 8 messages and all their beginnings, two of them with numbers | answers, stops, and everybody answered |
| `server_up` | the same | finding 3 |
| `gateway` | 2 requests in a round, 2 clients, 2 descriptors, with and without empty lines | log and answers, switching, measuring goes on, commands answered |
| `recover` | 30 empty reads as in the code, 2 lines waiting, 32 stray empty reads | dead descriptors given up, devices heard again |

Why the bounds suffice.  Rings of 1 to 3 entries have every relation of `rd`,
`wr` and `count`, with the marker in each place; for other sizes there is the
proof.  Seven characters hold three texts that cross the end at each offset, and
a limit of 6 is reached in the description, in the first and in the second part
of a text, at a quote and beside one.  In `status` a queue of 2 overflows, empties
and refills, and every register has states with and without enabled bits.

In `unit` each family goes on from one form of data: headers, decimal numbers,
compound headers, blocks, numeric and channel lists (two entries with a range, or
two dimensions on either side of one), numbers in each base, strings with either
quote and with characters that are not ASCII.  `Width` 5 and `LongWidth` 7 are wide
enough for two digits in every base and for the three wraps that the code can
meet: the most negative number, a number cut from the long to the short width, and
one that overflows both; nine binary digits overflow seven bits.  With the widths
of the code TLC would need lines of more than ten digits.

`input` has two whole lines or one with three units in 9 bytes; its buffer overruns
with one byte and with several to spare.  Three keywords have every neighbourhood of
brackets.  Two clients are enough to wait for each other and to see the other's
answer; a round of two requests has a first and a last one (for others there is the
proof).  `MaxStray` is more than `MaxEmpty`, so that a live port is reopened, too.
`MaxStream` (bytes between resets), `Families` (typed characters), `MaxTokens`,
`MaxSockets` (RLIMIT_NOFILE), `MaxLines` and `MaxStray` are the only caps.

Fairness.  `ScpiInput` has none: that each call of `SCPI_Input` ends is the
step property `CallsEnd` (a variant goes down with each turn of the loops), which
is stronger.  `OicServer`: the server does not pause (weak fairness of its
actions together), and a client sends at once after it has connected
(`scpi_client.cpp:75`) unless it is killed; connecting, closing and dying are free.
`SerialGateway`: the program waits for the line and for timeouts only (weak
fairness of its actions together: `SO_RCVTIMEO`, which Linux hands on from the
listening socket, ends both accept and read), and the line delivers; nothing is
asked of clients.  `RecoverSerial`: the loop runs on (weak fairness of its actions
together; a read waits for a line of a device that is there and returns at once
from one that is gone), a device that is there can be opened sooner or later
(strong fairness: each attempt may fail) and it sends lines when it is heard; it is unplugged and plugged as it likes, and `HeardAgain` is about a device
that stays in the end.

Deadlock is off where the system may stop: the server after `*STOP`, the gateway
after a wrong flavor, and the runs that type a bounded line or stream.  It is on for
`recover`, where the program may end only at its start, while the device goes on.

## 4. Proofs

The proof modules hold for every value of the constants under the named
assumptions of the modules: `SizesAssumption`, `NullAssumption`, `FreeAssumption`
(`ErrorFifo`); `QueueAssumption`, `CodesAssumption`, `ValuesAssumption`
(`ScpiStatus`); `HeapAssumption`, `LetterAssumption` (`ScpiHeap`: sizes are positive,
and a text does not contain the Nul that ends it); `ChunksAssumption`,
`CommandsAssumption`, `BoundAssumption` (`ScpiInput`), `WidthAssumption`
(`ScpiNumber`: 32 and 64 bits, or any other pair); `ServerAssumption` (`OicServer`: a
message is not empty, a client is not the mark for none); `GatewayAssumption`,
`ClientsAssumption` (`SerialGateway`: finitely many clients); `BoundsAssumption`
(`RecoverSerial`).  TLC evaluates each of them on the instances.

*Recursion_proofs.*  The library states induction and recursive definitions with an
operator as parameter, which the provers cannot instantiate.  Here they are stated
with sets and functions instead: `Induction` and `InductionDown` about a set of
numbers that is closed under the step (from `LeastElement`: a set without a least
element is empty), `RecursionUp` and `RecursionDown` about a function `f` given by
`f[n] = g[n][f[n - 1]]` or from above.  A recursive function of a model is then known
to exist and to have the values its equation says, and a fact about all its values
is the set of arguments for which it holds.

*ErrorFifo.*  The ring operations are described once by what they do to the
sequence `Nth(f, 0), ..., Nth(f, count - 1)` (`AddNth`, `RemoveNth`,
`RemoveLastNth`, `ClearNth`, with the arithmetic modulo the size), ownership once
by what they do to the map from entries to blocks (`OwnsAdd`, `OwnsRemove`,
`OwnsRemoveLast`).  The inductive invariant `IInv` is the ring in a legal position,
every slot between `rd` and `wr` initialised, ownership a bijection between the
pointers of queued entries and the allocated blocks, and no bad free so far:
without the bijection nothing says that the block of the newest entry is still
allocated when the overflow frees it.  From it follow `TypeOK`, `RingInv`,
`InfoOwnership`, `NoBadFree` (`THEOREM ErrorFifoTypeOK`, `...Ring`, `...Ownership`,
`...NoBadFree`) and, with one lemma per kind of step, `ErrorFifoImplementsQueue`.

*ScpiHeap.*  Neither `wr` and `count` nor the characters say where one text ends and
the next one begins; a free of the wrong one would show much later.  The invariant
`HeapInv` says it with positions: there are numbers `at[1] <= at[2] <= ...` below
twice the size such that the text of entry `i` with its Nul stands from `at[i]` to
`at[i + 1] - 1` (of the ring: a position is a cell or a cell and one round), `wr` is
behind the last of them, and every cell from `wr` on for `count` cells is Nul.  Texts
go away at either end only, the oldest (`FreeFirst`) or the newest
(`FreeLast`, with `rollback`), and the free that finds the heap empty moves `wr` to 0
(`WithoutTextReset`).  `SCPI_ErrorClear` frees from the front, by induction on the number
of entries (`ErrorClearArranged`).  `TextRead` and `TextFreed` say what
`scpiheap_get_parts` finds and what `scpiheap_free` clears, in one part or two, for any
text at any cell.  From the layout follow `TextsStayIntact` and, since
`usedBy(queue)[k]` is `at[k + 1] - at[1]`, `NoSpaceLost`.

`AnswersFit` is about `SCPI_ResultError`, which writes such a text in its parts.
`escapedOf(t)[k]` is what the first `k` characters of `t` give when quotes are doubled.
`Written(E, from, to, left, r)` says of `r` that it is all of that between two positions, or
what fits in `left` and not one character less.  The code's loop over the quotes of a
part satisfies it from each position of the part (`PartWritten`, downwards over the
positions by `InductionDown`; the three ways out of the loop are the cases), and `Done`
composes the parts: the description, the semicolon, and what `HeldParts` finds at the
text's place in the ring, one part or two.  A quote that would be halved by the limit
is left out, in the first part as well as in the second.

*ScpiStatus.*  `Good(c)` says of a context that it is well-formed and that the three
relations hold: each summary bit with its event and enable register, SRQ with the
status byte and `*SRE`, the queue bit with the queue.  They have to be proved
together, since each update of the status byte recomputes SRQ and may only touch
its own summary bit.  Each operation gets a lemma that says what it changes and
that it restores `Good`; a handler is a chain of these.  `THEOREM ScpiStatusTypeOK`,
`...Summary`, `...Service`, `...QueueBit` are the invariants of the run.

*ScpiStatus, step by step.*  The second part of `ScpiStatus_proofs` is about what one
call gives to the outside.  A call writes the status byte several times, each write may
request service, and only the last value counts.  The argument is that the writes of one
call all go the same way: they only add bits (an error is pushed: queue bit, then
ESR and its summary) or only remove them (`*CLS`, reading the queue empty).
`Announced(c, d)` says that from `c` to `d` a request was sent with the last value
that asks for service, and none if the byte stayed as it was; `Chain` composes it
along writes in one direction, which it would not do across a rise and a fall.
`THEOREM ScpiStatusServiceAnnounced` and `ScpiStatusEventsLatched` follow with one
lemma per operation and one (`NextCall`) per handler.

*Lexer and units.*  The first part of `ScpiInput_proofs` is about every text and every
position in it.  `SpanBounds` and `ClosingQuote` bound the three ways a token is found:
the characters of a class in a row, the end of a quoted string, the length that a
block announces.  There is one lemma per token of the lexer (`HeaderWithin` to
`SeparatorsWithin`: the token lies between where it was looked for and the position
after it, and not behind the end), one for the parameter and the list of them
(`ProgramDataWithin`, `DataFrom`, `AllDataWithin`), and `THEOREM UnitAdvances`: a unit
takes at least one character, none behind the end, and a valid one has its header and
its data in order within.  What the tokens are (that they are the longest) is the
subject of the run `unit`.

*ScpiInput.*  `THEOREM InputTypeOK` is a fact about buffers: whatever arrives, the bytes
and the final 0 fit into the buffer, and no position leaves it.  Its invariant
`Buffered` has to say that the line that is being parsed is a beginning of the buffer
and that the previous header, which `composeCompoundCommand` copies in front of the
next one, lies within the part of the line already done (`JobShape`, `ComposedWithin`).
`Reports` relates what a unit did to what is remembered of it: `cmd_error` is set
exactly if the unit at hand pushed an error, and the result of the line is false
exactly if one of its units did.  For this each reader of a parameter, each way a
command may go (`SkipUnitDone`, `ExecuteUnitDone`) and the array readers have a lemma
that says which errors they push.  From it follow `ParseTellsErrors` and, not stated by
a run, `FailuresReported`: a callback that fails was never silent.
`THEOREM InputEnds` is `CallsEnd`: `Work` counts what is left to do (the bytes of the piece
not yet taken, the rest of the line, the place in the loops) and every step inside of
a call makes it smaller (`WorkShrinks`) and leaves it a natural number (`WorkLeft`), so
no call turns for ever.  It is a statement about steps, and needs no fairness.
`THEOREM AtMostOneError` is `OneErrorPerUnit`.  Its lower half is in `Reports`.  Its
upper half depends on the command table, since a callback may push what it likes;
the hypothesis `AtMostOneOwn` says what a table must do: no callback pushes two
errors of its own, and one that pushes an error reads no optional parameter, whose
error would be another.  (TLC evaluates it on the instance as `OneOwnAssumption`.)  The
rest is the parser's: a reader that succeeds has no error (`ReadsQuiet`), the first one
that fails ends the callback's reading with one (`ReadsStep`, by induction over the
readers), `processCommand` adds its own only where there is none
(`CommandOneError`), and the errors of a unit start from none.

*ScpiInput, the answers.*  `THEOREM AnswersApart` is `AnswersSeparated`: what a line
writes can be taken apart again, by delimiters and by the lengths its blocks announce.
`owedOf` says what the block announced last still lacks after each item; `Apart(out)`,
that data never exceeds it, that nothing is owed where a delimiter stands, and that a
result or block stands first, behind a delimiter or behind an announcement.  The
inductive invariant `AnswersInv` adds what the output looks like where the next command
writes: with `output_count > 0` something was written and nothing is owed, so that a
`;` may follow; with `output_count = 0`, where none follows, the output is empty or ends
with a delimiter or an announcement.  The same is followed through one command
(`Answered`, result by result), through one block (`Blocked`: what is owed is
`arbitrary_reminding`, part by part), and put together by a lemma about one answer
behind another (`ApartJoined`), where what is owed depends on the items since the last
announcement only (`OwedShared`).  The hypothesis `BlocksFirst` says what a table must
do: a block is the first result of its command (`SCPI_ResultArbitraryBlockHeader` writes
no delimiter), and it is complete or has no data (a block left in the middle does not
count, and the next answer would stand in its data).  TLC evaluates it on the instance
as `BlocksFirstAssumption`; one block of the instance is complete, and one announces less
than its only part, which is refused.

*ScpiInput, in pieces.*  `THEOREM ChunksDoNotMatter` is `ChunkIndependence`: between
calls, exactly the units of the complete lines received have been handled, each once and
in order, and the buffer holds the rest, wherever the stream was cut.  `SCPI_Input`
looks for units in what it has so far, which may end in the middle of a token, and does
so again from the start of the line when more has come; the property speaks of the units
of the whole stream.  So the proof has to compare what the lexer finds in two texts
of which one goes on where the other ends.

- `Alike(s, d, o, i, q, T)`: the texts `s` and `d` have the same characters from `i` of `d` (which is
  `i + o` of `s`) up to `q`, and at `q` each is at its end or has a character of `T`, one
  that no token in question goes across.  Mnemonics, headers, suffixes and numbers
  of a base are the same in texts that are alike (`MnemonicAlike` to
  `HeaderAlike`; the loops by induction over the positions, downwards).
- `Lined(s, d, o, i, q)`: the texts have a line up to its end at `q` in common, and no
  quote in it.  A decimal number may try an exponent across blanks, a block of given
  length may go across a line end, an expression may stay open: each of these is the
  same in both texts unless it goes behind `q` (`DecimalLined`, `BlockLined`,
  `ExpressionLined`).  A line end of two characters may be cut between them: then one
  text has CR LF and the other CR, so `UnitEndLined` and everything above it leave the
  position behind the line end open.
- `THEOREM UnitLined` puts this together for `scpiParser_detectProgramMessageUnit`: a unit
  that ends with the common line or before it is in both texts the same unit.

`lineStop(s)[i]` is where the line of `i` ends in `s`, and `THEOREM CompleteExtended` says
that the lines complete in a text stay what they are when more bytes come.  The
inductive invariant `ChunkInv` is then about three things: `Kept` (the buffer is the
end of the stream from `Start` on), `HandledInOrder` (the units in `log`, followed by the
complete lines from where the program stands, are the complete lines of the stream)
and where lines end (`LineReceived`: the line that is parsed ends where one ends in the
stream; while the buffer is scanned, no line ends in what was scanned; between calls the
buffer has no complete line).  `ChunkInput`, `ChunkScan`,
`ChunkParse` and `ChunkEnd` are its steps.  It claims nothing of streams with quotes
(`Plain`), for which the property is not stated (see 5), nor of a line that a call of
`SCPI_Input` with no bytes has ended, which is followed by a reset in the model.

*SerialGateway.*  Neither the log nor the answers say what is under way on the line.
The invariant of `SerialGateway_proofs` does (`OnLine`): while a measurement is read
the first line to come is its answer (`Fresh`, in the three places it can be in);
behind the last measurement only empty lines are left (`Measured`); then the command
of a client and its answer may be among them (`Switching`), and before the client is
told, the line is empty and the switch done (`Switched`, from the sleep).  With it go
where the program is in its round (`Round`: the length of the row is `at - 1`), that
the clients who wait differ from each other and from the one who is served
(`Connections`), and what they sent (`Sent`).  There is one lemma per action.  From
it follow `THEOREM SerialGatewayAnswersAreOwn` and
`SerialGatewaySwitchedWhenAnswered`.  `THEOREM SerialGatewayTypeOK` counts descriptors:
those open are the connection served and those given up after a timeout, which needs
the set of clients to be finite and each step to open or drop at most one.

*OicServer.*  The server has one buffer and prints every answer into one static string;
that neither carries anything from one client to the next is what `ServerInv` has to
say.  `Queued`: a client that is in the queue of the kernel is there once, is not the
one served and has no answer; `InService`: what is in the buffer is a beginning of
what the client served has sent; `AnswersOwn`: an answer is a response to what was
read of the client's own message; `EndsByMessage`: the loop has ended only by
`STOP done`.  `THEOREM OicServerTypeOK`, `OicServerAnswersOwn` and
`OicServerEndsByMessage` are parts of it.  What is left are the tables: `Determined` (a
message has one response, wherever C leaves nothing undefined), `KeepsPromise` (it is
the one promised) and `OnlyStopStops` (no message but `*STOP` and its beginnings prints
`STOP done`) say what the tree and its callbacks do with one message that is executed
first.  From these follow `THEOREM OicServerStateless`, `OicServerAnswersAsPromised` and
`OicServerStoppedOnRequest`: the same after any messages of any clients.  TLC evaluates
the three on the messages of the instance (`TreeAssumption`); of other messages they
need not be true (`*ST` with blanks behind it stops the server, too).

*RecoverSerial.*  `DeadGivenUp` bounds reads by a count that may stand anywhere when
the device goes: the reads of a dead descriptor are at most `cnt` in the loop, one
more while the last is checked, and nothing is open outside of it
(`THEOREM RecoverSerialDeadGivenUp`, for every `MaxEmpty`).

Only model-checked, because this prover cannot: liveness under fairness
(`EveryoneAnswered`, `MeasuringGoesOn`, `EveryCommandAnswered`, `HeardAgain`).

Only model-checked, because the property is about the words or the patterns of an
instance: those of `MCScpiUnit` (a grammar of words, and writers in bounded bases) and
those of `MCScpiMatch` (all patterns of a size).

Only model-checked, because the proof would be about what a parameter list still
holds after any reader: `UnreadReported`.  It is stated of the time while a line is
parsed.  Afterwards it would be about the buffer as it was before it was moved:
`unit` is then the last unit of a line that is gone.

## 5. Findings

1. `status_der`: the row `{1, 32767, ESR_DER}` of `errs[]` (`error.c:161`) is written
   in the wrong order for `err <= from && err >= to` (`error.c:185`): a device
   designer's positive error never sets the device dependent error bit.
2. `input_blank`: blanks between a number and a comma are skipped but not counted
   by `scpiParser_parseProgramData`, so the parameters seem shorter than they are,
   and one that the callback leaves is not reported.
3. `server_up`: `scpi_server` never closes `new_socket` and exits when it has no
   descriptor left.

Met while modelling, but contradicting nothing the repository says:

- after `Q?;B`, where `B` writes nothing, the answer ends in `;` without a newline,
  and is not flushed: `writeNewLine` looks at the last unit's `output_count`;
- a comma with nothing behind it makes the parser drop all parameters of the unit
  (`parseAllProgramData`);
- after an overrun the rest of the line, when it comes, is executed as a line;
- a line end inside a quoted string ends the line or not, depending on whether the
  closing quote is in the same piece (`ChunkIndependence` leaves strings out);
- `SCPI_Input` returns the result of the last line of a piece only;
- optional numeric keywords behind the last keyword of a header leave their
  numbers unwritten, while those before it get the default value;
- the lengths given for `*STP` and `CHANNEL#` are not those of the names
  (`env_scpiparser.cpp:86`, `:92`), so `*ST` stops the server and `*STP` does not;
- `get_temperature_ch` without a parameter goes through a null pointer and the
  server dies (`crashed`); the tokens of a message that is not found leak;
- a block that is not the first result of its command gets no delimiter before it;
  an array in swapped format with no elements writes `#10`, which is not counted;
- an array of parameters that ends with an error is returned as `TRUE`, with the
  elements before it (the error is in the result of the line all the same);
- an integer is read up to its `.` or `E`: `1E3` is 1; `.5` read as an integer fails
  without an error, and ends an array silently; a `-` in front of an unsigned number
  and a number too large for its type wrap;
- `SCPI_ParamNumber` of a string, a block or an expression fails without an error;
  `SCPI_ParamBool` of a multiple of 2^32 is `FALSE`;
- `SCPI_ParamCopyText` counts positions in the token against the size of the buffer, so
  that doubled quotes make the copy shorter than it could be;
- the last `strncat` of `SCPI_NumberToStr` gets the whole length that is left, without
  the final 0;
- the list readers report nothing for `(a)`, `(1,)` and `(1,,2)`, which end the numeric
  list; `(@1E2)` is channel 1;
- the lexer lets blanks into an exponent (`1 E 3`), `strtod` does not;
- in `scpi_parse_numeric` the SI prefix is added to the exponent before that gets its
  sign, so `1e-3k` is 1e-6; only `e` begins an exponent (`1E3` is 1 with the prefix
  exa), `.5` is 0, and a channel that does not fit into `unsigned char` is undefined;
- `recover_serial` counts empty reads over the whole run, so that a live port is
  reopened now and then and the lines that wait in the driver are lost; a line of 500
  bytes or more loses a character where it is cut;
- in the gateway, the line a client gets may be the empty line behind the last
  measurement; the switch is done all the same (`SwitchedWhenAnswered`).

## 6. What is not modelled

- Floating point: the text of a result (`SCPI_dtostre`, `snprintf`), the product of a
  number and the factor of its unit.  TLC has no such numbers; fractions are exact
  here, and factors are names.
- The bytes of binary arrays: swapping them is its own inverse by its shape.
- The error list of the OIC parser: nothing in the repository queues an error in it,
  so it is always empty; the heap of its tokens, which leaks where a command is not
  found (in `PROJECT.json` as a hazard without a property).
- The bytes around buffers: a read that returns -1 or the whole buffer makes the
  programs write outside of it; messages are names or sequences of name parts here.
- Callbacks that re-enter the parser: no code of the repository has one.
- `SCPI_IsCmd`, `SCPI_CmdTag`: they look up what the parser found.  `*IDN?`, `*TST?`,
  `*WAI`, `*OPC?` and `SYST:VERS?` change no state.
- Opening ports, log files and options of the programs, the serial test client (the
  gateway's exchange in one loop, without a socket), the test program, the build and
  the configuration headers but for the types and bits the modules use.

## 7. Plan

Done, in this order: errors, status, lexer and units, input, server, patterns,
gateway, text heap; numbers, quantities, texts and lists; `recover_serial`; numbers of
the OIC parser; error texts on output; proofs of the status calls, of the gateway's
answers and of the recovery; proofs of the lexer's bounds, of the input's invariants
and its end, of the text heap, and of the server; proof that a unit has one error, that
the pieces of the stream do not matter, and that the answers of a line can be told
apart; proof that the server keeps the promises of its tables.  Left:

1. Proofs: `UnreadReported`, with an invariant of the parameter readers.
2. A composition of `ScpiInput` with `ScpiStatus`: errors of units in the status byte,
   with the abstract promise that every error pushed is read or overflows.
3. The heap of the OIC parser's tokens: who frees them, in each way a message can go.
