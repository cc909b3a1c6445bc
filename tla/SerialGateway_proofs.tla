------------------------ MODULE SerialGateway_proofs -------------------------
(***************************************************************************)
(* Proofs about SerialGateway, for every list of requests, every set of    *)
(* clients and every limit of descriptors: whose answer a line is, and     *)
(* what the device has done when a client is told.                         *)
(***************************************************************************)
EXTENDS SerialGateway, SequenceTheorems, FiniteSetTheorems, TLAPS

States == {"idle", "connected", "sent", "gone", "answered"}
Commands == {On, Off, "other", None}

(* Whatever is said on the line or to a client *)
Words == {Requests[k] : k \in 1 .. Len(Requests)}
         \cup {"*IDN?", "*HWVer?", Flavor, ":GET:STATUS?", On, Off, "other", Empty, Zero, NotOK, None}

Client == [state : States, command : Commands, reply : Words, left : BOOLEAN]

(* The clients whose connection the program may still have to serve *)
Open == {"connected", "sent", "gone"}

(* A sequence with elements of S and no others *)
Only(s, S) == \A k \in 1 .. Len(s) : s[k] \in S

ProgramTypes ==
  /\ pc \in {"settle", "ask", "read", "accept", "serve", "answer", "exit"}
  /\ phase \in {"start", "measure", "switch"}
  /\ at \in Nat \ {0} /\ row \in Seq(Words) /\ buffer \in Words

SerialTypes ==
  /\ line \in {"up", "gone"} /\ twoLines \in BOOLEAN
  /\ out \in Seq(Words) /\ device \in Seq(Words) /\ inbox \in Seq(Words)

ClientTypes == waiting \in Seq(Clients) /\ client \in [Clients -> Client]

(* Where the program is in its round, and what it has logged so far *)
Round ==
  /\ phase = "start" => pc \in {"ask", "read", "exit"} /\ at <= 5 /\ row = <<>>
  /\ phase = "measure" => pc # "exit" /\ at <= Len(Requests)
  /\ phase = "switch" => pc \in {"ask", "read", "settle", "answer"}
  /\ phase = "measure" /\ pc \in {"settle", "ask", "read"} => Len(row) = at - 1
  /\ Len(row) <= Len(Requests)

(* Connections wait once, and are not served while they wait. *)
Connections ==
  /\ \A i \in 1 .. Len(waiting) : client[waiting[i]].state \in Open
  /\ \A i, j \in 1 .. Len(waiting) : waiting[i] = waiting[j] => i = j
  /\ pc \in {"serve", "answer"} \/ phase = "switch" =>
       /\ served \in Clients
       /\ client[served].state \in Open
       /\ \A i \in 1 .. Len(waiting) : waiting[i] # served

(* Who has sent no command has none; what is switched is a switch command;
   other commands are not passed on. *)
Sent ==
  /\ \A c \in Clients : client[c].state \in {"idle", "connected"} => client[c].command = None
  /\ phase = "switch" => client[served].command \in Switch
  /\ phase = "measure" /\ pc = "answer" => client[served].command = "other"

(* The lines behind an answer *)
Rest == IF twoLines THEN {Empty} ELSE {}

(* The line that is read first is the answer to the request. *)
Fresh(request) ==
  \/ out = <<request>> /\ device = <<>> /\ inbox = <<>>
  \/ out = <<>> /\ device = Lines(request) /\ inbox = <<>>
  \/ /\ out = <<>> /\ Only(device, Rest)
     /\ inbox # <<>> /\ Head(inbox) = request /\ Only(Tail(inbox), Rest)

(* A line that is gone is empty. *)
Gone == line = "gone" => out = <<>> /\ device = <<>> /\ inbox = <<>>

(* Nothing is under way when a measurement is asked for, and then only what
   belongs to it. *)
Measuring ==
  /\ phase = "measure" /\ pc = "ask" => out = <<>> /\ device = <<>>
  /\ phase = "measure" /\ pc = "read" /\ line = "up" => Fresh(Requests[at])

(* Behind the last measurement there are only empty lines. *)
Measured ==
  pc \in {"accept", "serve"} \/ (phase = "switch" /\ pc = "ask") =>
    out = <<>> /\ Only(device, Rest) /\ Only(inbox, Rest)

(* Then a command of a client may be on the line, and its answer. *)
Switching ==
  phase = "switch" /\ pc \in {"read", "settle"} =>
    /\ out = <<>> \/ out = <<client[served].command>>
    /\ Only(device, Rest \cup {client[served].command})
    /\ Only(inbox, Rest \cup {client[served].command})
    /\ out = <<>> => hv = client[served].command \/ line = "gone"

Switched ==
  phase = "switch" /\ pc = "answer" => out = <<>> /\ (hv = client[served].command \/ line = "gone")

(* The answer to a client's command *)
Own(command, text) ==
  IF command \in Switch
  THEN \/ text = command
       \/ text = Empty /\ twoLines
       \/ text = Zero /\ line = "gone"
  ELSE text = NotOK

Replies ==
  /\ pc = "answer" \/ (phase = "switch" /\ pc = "settle") => Own(client[served].command, buffer)
  /\ \A c \in Clients : client[c].state = "answered" => Own(client[c].command, client[c].reply)

Types == ProgramTypes /\ SerialTypes /\ ClientTypes
OnLine == Gone /\ Measuring /\ Measured /\ Switching /\ Switched

IInv == Types /\ Round /\ Connections /\ Sent /\ OnLine /\ LogMatches /\ Replies

-----------------------------------------------------------------------------
(* The texts of the program are words. *)
LEMMA Texts ==
  /\ {On, Off, "other", Empty, Zero, NotOK, None} \subseteq Words
  /\ Startup \in Seq(Words) /\ Len(Startup) = 5
  /\ Requests \in Seq(Words) /\ Requests # <<>>
  <1>1. {"*IDN?", "*HWVer?", Flavor, ":GET:STATUS?", On, Off, "other", Empty, Zero, NotOK, None} \subseteq Words
    BY DEF Words
  <1>2. Startup \in Seq(Words) /\ Len(Startup) = 5
    BY <1>1 DEF Startup
  <1>3. Requests \in Seq(Words)
    BY GatewayAssumption DEF Words
  <1> QED BY <1>1, <1>2, <1>3, GatewayAssumption

(* What is left of a sequence over S is over S. *)
LEMMA OnlyTail ==
  ASSUME NEW T, NEW S, NEW s \in Seq(T), Only(s, S), s # <<>>
  PROVE  Head(s) \in S /\ Only(Tail(s), S)
  BY HeadTailProperties DEF Only

(* So is a sequence with another element of S, *)
LEMMA OnlyAppend ==
  ASSUME NEW T, NEW S, NEW s \in Seq(T), NEW e \in T, Only(s, S), e \in S
  PROVE  Only(Append(s, e), S)
  BY AppendProperties DEF Only

(* and two of them behind each other. *)
LEMMA OnlyConcat ==
  ASSUME NEW T, NEW S, NEW s \in Seq(T), NEW t \in Seq(T), Only(s, S), Only(t, S)
  PROVE  Only(s \o t, S)
  <1> SUFFICES ASSUME NEW k \in 1 .. Len(s \o t) PROVE (s \o t)[k] \in S
    BY DEF Only
  <1> QED BY ConcatProperties DEF Only

(* What get_info sends is a request of its caller. *)
LEMMA RequestTyped ==
  ASSUME IInv, pc = "ask"
  PROVE  Request \in Words
  <1>1. CASE phase = "start"
    <2>1. at \in 1 .. 5
      BY <1>1 DEF IInv, Types, ProgramTypes, Round
    <2>2. Startup[at] \in Words
      BY <2>1, Texts, ElementOfSeq
    <2> QED BY <1>1, <2>2 DEF Request
  <1>2. CASE phase = "measure"
    <2>1. at \in 1 .. Len(Requests)
      BY <1>2, Texts DEF IInv, Types, ProgramTypes, Round
    <2> QED BY <1>2, <2>1, Texts DEF Request
  <1>3. CASE phase = "switch"
    BY <1>3, Texts DEF Request, IInv, Sent, Switch
  <1> QED BY <1>1, <1>2, <1>3 DEF IInv, Types, ProgramTypes

(* What read gives is a word, and the line keeps its type. *)
LEMMA ReceiveTyped ==
  ASSUME SerialTypes, NEW text, Receive(text)
  PROVE  text \in Words /\ SerialTypes'
  <1>1. CASE inbox # <<>> /\ text = Head(inbox) /\ inbox' = Tail(inbox)
    <2>1. Head(inbox) \in Words /\ Tail(inbox) \in Seq(Words)
      BY <1>1, HeadTailProperties DEF SerialTypes
    <2> QED BY <1>1, <2>1 DEF Receive, SerialTypes
  <1>2. CASE text = Zero /\ UNCHANGED inbox
    BY <1>2, Texts DEF Receive, SerialTypes
  <1> QED BY <1>1, <1>2 DEF Receive

(* The lines of an answer are the answer and what may follow it. *)
LEMMA LinesTyped ==
  ASSUME SerialTypes, NEW request \in Words
  PROVE  Lines(request) \in Seq(Words) /\ Only(Lines(request), Rest \cup {request})
  <1>1. CASE twoLines
    BY <1>1, Texts DEF Lines, Only, Rest
  <1>2. CASE ~ twoLines
    BY <1>2 DEF Lines, Only, Rest
  <1> QED BY <1>1, <1>2

(* Delivering a line brings no other kind of lines. *)
LEMMA OnlyDeliver ==
  ASSUME SerialTypes, Deliver, NEW S, Only(device, S), Only(inbox, S)
  PROVE  Only(device', S) /\ Only(inbox', S)
  <1>1. Head(device) \in S /\ Only(Tail(device), S)
    BY OnlyTail DEF SerialTypes, Deliver
  <1>2. Head(device) \in Words
    BY HeadTailProperties DEF SerialTypes, Deliver
  <1>3. Only(Append(inbox, Head(device)), S)
    BY <1>1, <1>2, OnlyAppend DEF SerialTypes
  <1> QED BY <1>1, <1>3 DEF Deliver

-----------------------------------------------------------------------------
(* One lemma per action: the invariant is kept. *)

(* The sleep: nothing is under way when the next request is written, and the
   device has done what a client asked. *)
LEMMA SettleStep ==
  ASSUME IInv, Settle
  PROVE  IInv'
  <1>1. ProgramTypes' /\ SerialTypes' /\ ClientTypes' /\ Round' /\ Connections' /\ Sent'
    BY DEF IInv, Types, ProgramTypes, Settle, SerialTypes, serial, ClientTypes, Round,
            Connections, Sent
  <1>2. Gone' /\ Measuring' /\ Measured' /\ Switching' /\ LogMatches'
    BY DEF IInv, Gone, OnLine, Settle, serial, Measuring, Quiet, Measured, Switching, LogMatches
  <1>3. Replies'
    BY DEF IInv, Replies, Own, Settle, serial
  <1>4. Switched'
    BY DEF IInv, Switched, Switching, OnLine, Settle, Quiet, serial
  <1> QED BY <1>1, <1>2, <1>3, <1>4 DEF IInv, Types, OnLine

(* A request alone on the line: what was to be read is flushed, and for a
   measurement nothing else was under way; behind the command of a client there
   may be empty lines. *)
LEMMA AskStep ==
  ASSUME IInv, Ask
  PROVE  IInv'
  <1>1. ProgramTypes' /\ ClientTypes' /\ Round' /\ Connections' /\ Sent' /\ Gone'
    BY DEF IInv, Types, ProgramTypes, Ask, ClientTypes, Round, Connections, Sent, Gone, OnLine
  <1>2. Measured' /\ Switched' /\ LogMatches' /\ Replies'
    BY DEF IInv, Measured, Ask, Switched, LogMatches, Replies, Own
  <1>3. SerialTypes'
    <2>1. Request \in Words
      BY RequestTyped DEF Ask
    <2> QED BY <2>1 DEF IInv, Types, SerialTypes, Ask
  <1>4. Measuring'
    BY DEF IInv, OnLine, Measuring, Fresh, Ask, Request
  <1>5. Switching'
    <2> SUFFICES ASSUME phase = "switch"
                 PROVE  Switching'
      BY DEF Switching, Ask
    <2>1. out = <<>> /\ Only(device, Rest)
      BY DEF IInv, OnLine, Measured, Ask
    <2>2. Only(device, Rest \cup {client[served].command}) /\ Only(<<>>, Rest \cup {client[served].command})
      BY <2>1 DEF Only
    <2> QED BY <2>2 DEF IInv, OnLine, Gone, Switching, Ask, Request, Rest, Types, SerialTypes
  <1> QED BY <1>1, <1>2, <1>3, <1>4, <1>5 DEF IInv, Types, OnLine

(* Startup promises nothing about the line: its answers are not kept. *)
LEMMA StartUpStep ==
  ASSUME IInv, StartUp
  PROVE  IInv'
  <1>1. ClientTypes' /\ Connections' /\ Sent' /\ Gone'
    BY DEF IInv, Types, ClientTypes, StartUp, Receive, Connections, NextRound, Sent, Gone, OnLine
  <1>2. Measuring' /\ Measured' /\ Switching' /\ Switched' /\ LogMatches'
    BY DEF IInv, Measuring, StartUp, NextRound, Measured, Switching, Switched, LogMatches, Receive
  <1>3. Replies'
    BY DEF IInv, Replies, Own, StartUp, Receive, NextRound
  <1>4. ProgramTypes'
    <2>1. CASE pc' = "exit" /\ UNCHANGED <<phase, at, row>>
      BY <2>1 DEF IInv, Types, ProgramTypes, StartUp
    <2>2. CASE pc' = "ask" /\ at' = at + 1 /\ UNCHANGED <<phase, row>>
      BY <2>2 DEF IInv, Types, ProgramTypes, StartUp
    <2>3. CASE NextRound
      BY <2>3 DEF IInv, Types, ProgramTypes, StartUp, NextRound
    <2> QED BY <2>1, <2>2, <2>3 DEF StartUp
  <1>5. SerialTypes'
    BY ReceiveTyped DEF IInv, Types, StartUp
  <1>6. Round'
    BY Texts DEF IInv, Round, Types, ProgramTypes, StartUp, NextRound
  <1> QED BY <1>1, <1>2, <1>3, <1>4, <1>5, <1>6 DEF IInv, Types, OnLine

(* The value that is logged is the answer to the request, since that line is
   the first one. *)
LEMMA MeasureStep ==
  ASSUME IInv, Measure
  PROVE  IInv'
  <1>1. ClientTypes' /\ Round' /\ Connections' /\ Sent'
    BY DEF IInv, Types, ClientTypes, Measure, Receive, Round, ProgramTypes, Connections, Sent
  <1>2. Gone' /\ Measuring' /\ Switching' /\ Switched' /\ Replies'
    BY DEF IInv, Gone, OnLine, Measure, Receive, Measuring, Switching, Switched, Replies, Own
  <1>3. ProgramTypes'
    <2>1. PICK text \in Text : Receive(text) /\ row' = Append(row, text)
      BY DEF Measure
    <2>2. row' \in Seq(Words)
      BY <2>1, ReceiveTyped, AppendProperties DEF IInv, Types, ProgramTypes
    <2> QED BY <2>2 DEF IInv, Types, ProgramTypes, Measure
  <1>4. SerialTypes'
    BY ReceiveTyped DEF IInv, Types, Measure
  <1>5. Measured'
    <2> SUFFICES ASSUME at = Len(Requests)
                 PROVE  out = <<>> /\ Only(device, Rest) /\ Only(inbox', Rest)
      BY DEF IInv, Types, ProgramTypes, Round, Measured, Measure, Receive, Rest
    <2>1. CASE line = "up"
      <3>1. inbox # <<>> /\ inbox' = Tail(inbox)
        BY <2>1 DEF Measure, Receive
      <3> QED BY <2>1, <3>1 DEF IInv, OnLine, Measuring, Fresh, Measure, Receive
    <2>2. CASE line = "gone"
      BY <2>2 DEF IInv, OnLine, Gone, Only, Measure, Receive
    <2> QED BY <2>1, <2>2 DEF IInv, Types, SerialTypes
  <1>6. LogMatches'
    <2>1. PICK text \in Text : Receive(text) /\ row' = Append(row, text)
      BY DEF Measure
    <2>2. text = Requests[at] \/ (text = Zero /\ line = "gone")
      <3>1. CASE line = "up"
        BY <2>1, <3>1 DEF IInv, OnLine, Measuring, Fresh, Measure, Receive
      <3>2. CASE line = "gone"
        BY <2>1, <3>2 DEF IInv, OnLine, Gone, Receive
      <3> QED BY <3>1, <3>2 DEF IInv, Types, SerialTypes
    <2>3. row \in Seq(Words) /\ Len(row) = at - 1 /\ text \in Words /\ line' = line /\ at \in Nat \ {0}
      BY <2>1, ReceiveTyped DEF IInv, Types, ProgramTypes, Round, Measure, Receive
    <2>4. /\ Len(row') = at /\ row' \in Seq(Words) /\ row'[at] = text
          /\ \A i \in 1 .. at - 1 : row'[i] = row[i]
      BY <2>1, <2>3, AppendProperties
    <2> SUFFICES ASSUME NEW i \in 1 .. at
                 PROVE  row'[i] = Requests[i] \/ (row'[i] = Zero /\ line' = "gone")
      BY <2>4 DEF LogMatches
    <2>5. CASE i = at
      BY <2>2, <2>3, <2>4, <2>5
    <2>6. CASE i \in 1 .. at - 1
      BY <2>3, <2>4, <2>6 DEF IInv, LogMatches
    <2> QED BY <2>5, <2>6 DEF IInv, Types, ProgramTypes
  <1> QED BY <1>1, <1>2, <1>3, <1>4, <1>5, <1>6 DEF IInv, Types, OnLine

(* The line for the client is its own answer, an empty line that was still
   under way, or nothing because the device is gone. *)
LEMMA SwitchHVStep ==
  ASSUME IInv, SwitchHV
  PROVE  IInv'
  <1>1. ClientTypes' /\ Round' /\ Connections' /\ Sent'
    BY DEF IInv, Types, ClientTypes, SwitchHV, Receive, Round, AfterSwitch, Connections, Sent
  <1>2. Gone' /\ Measuring' /\ Measured' /\ Switched' /\ LogMatches'
    BY DEF IInv, Gone, OnLine, SwitchHV, Receive, Measuring, Measured, AfterSwitch, Switched,
            LogMatches
  <1>3. ProgramTypes'
    <2>1. buffer' \in Words
      BY ReceiveTyped DEF IInv, Types, SwitchHV
    <2> QED BY <2>1 DEF IInv, Types, ProgramTypes, SwitchHV, AfterSwitch
  <1>4. SerialTypes'
    BY ReceiveTyped DEF IInv, Types, SwitchHV
  <1>5. Switching'
    <2> DEFINE S == Rest \cup {client[served].command}
    <2>1. Only(inbox, S) /\ phase = "switch" /\ pc = "read"
      BY DEF IInv, OnLine, Switching, SwitchHV, Receive
    <2>2. Only(inbox', S)
      BY <2>1, OnlyTail DEF IInv, Types, SerialTypes, SwitchHV, Receive
    <2> QED BY <2>1, <2>2 DEF IInv, OnLine, Switching, SwitchHV, Receive, Rest
  <1>6. Replies'
    <2>1. PICK text \in Text : Receive(text) /\ buffer' = text
      BY DEF SwitchHV
    <2>2. Only(inbox, Rest \cup {client[served].command}) /\ client[served].command \in Switch
      BY <2>1 DEF IInv, OnLine, Switching, Sent, SwitchHV, Receive
    <2>3. text \in Rest \cup {client[served].command} \/ (text = Zero /\ line = "gone")
      BY <2>1, <2>2, OnlyTail DEF IInv, Types, SerialTypes, Receive
    <2>4. Own(client[served].command, buffer)'
      BY <2>1, <2>2, <2>3 DEF Own, Rest, SwitchHV, Receive
    <2> QED BY <2>1, <2>4 DEF IInv, Replies, Own, SwitchHV, AfterSwitch, Receive
  <1> QED BY <1>1, <1>2, <1>3, <1>4, <1>5, <1>6 DEF IInv, Types, OnLine

(* The client that is served does not wait any longer. *)
LEMMA AcceptStep ==
  ASSUME IInv, Accept
  PROVE  IInv'
  <1>1. ProgramTypes' /\ SerialTypes' /\ ClientTypes' /\ Round' /\ Connections' /\ Sent'
    BY DEF IInv, Types, ProgramTypes, Accept, SerialTypes, serial, ClientTypes, Round,
            Connections, Sent
  <1>2. Gone' /\ Measuring' /\ Measured' /\ Switching' /\ Switched'
    BY DEF IInv, Gone, OnLine, Accept, serial, Measuring, Measured, Rest, Switching, Switched
  <1>3. LogMatches' /\ Replies'
    BY DEF IInv, LogMatches, Accept, serial, Replies, Own
  <1> QED BY <1>1, <1>2, <1>3 DEF IInv, Types, OnLine

(* A new round begins where nobody is served. *)
LEMMA NotAcceptedStep ==
  ASSUME IInv, NotAccepted
  PROVE  IInv'
  <1>1. ProgramTypes' /\ SerialTypes' /\ ClientTypes' /\ Round' /\ Connections'
    BY DEF IInv, Types, ProgramTypes, NotAccepted, NextRound, SerialTypes, serial, ClientTypes,
            Round, Connections
  <1>2. Sent' /\ Gone' /\ Measuring' /\ Measured' /\ Switching'
    BY DEF IInv, Sent, NotAccepted, NextRound, Gone, OnLine, serial, Measuring, Measured, Switching
  <1>3. Switched' /\ LogMatches' /\ Replies'
    BY DEF IInv, Switched, NotAccepted, NextRound, LogMatches, Replies, Own, serial
  <1> QED BY <1>1, <1>2, <1>3 DEF IInv, Types, OnLine

(* A switch command goes to the device, any other gets NotOK. *)
LEMMA ReadMessageStep ==
  ASSUME IInv, ReadMessage
  PROVE  IInv'
  <1>1. ProgramTypes' /\ SerialTypes' /\ ClientTypes' /\ Round'
    BY Texts DEF IInv, Types, ProgramTypes, ReadMessage, Interpret, SerialTypes, serial,
            ClientTypes, Round
  <1>2. Connections' /\ Gone' /\ Measuring' /\ Measured'
    BY DEF IInv, Connections, ReadMessage, Interpret, Gone, OnLine, serial, Measuring,
            Measured, Rest
  <1>3. Switching' /\ Switched' /\ LogMatches' /\ Replies'
    BY DEF IInv, Switching, ReadMessage, Interpret, Switched, Round, LogMatches, serial,
            Replies, Own
  <1>4. Sent'
    BY DEF IInv, Sent, Types, ClientTypes, Client, Connections, Round, Commands, Switch,
            ReadMessage, Interpret
  <1> QED BY <1>1, <1>2, <1>3, <1>4 DEF IInv, Types, OnLine

(* A client that is gone is not served. *)
LEMMA ReadHangupStep ==
  ASSUME IInv, ReadHangup
  PROVE  IInv'
  <1>1. ProgramTypes' /\ SerialTypes' /\ Round' /\ Sent'
    BY DEF IInv, Types, ProgramTypes, ReadHangup, NextRound, SerialTypes, serial, Round, Sent
  <1>2. Gone' /\ Measuring' /\ Measured' /\ Switching' /\ Switched'
    BY DEF IInv, Gone, OnLine, ReadHangup, serial, Measuring, NextRound, Measured, Switching,
            Switched
  <1>3. LogMatches' /\ Replies'
    BY DEF IInv, LogMatches, ReadHangup, NextRound, Replies, Own, serial
  <1>4. ClientTypes'
    BY DEF IInv, Types, ClientTypes, ReadHangup
  <1>5. Connections'
    BY DEF IInv, Connections, ReadHangup, NextRound
  <1> QED BY <1>1, <1>2, <1>3, <1>4, <1>5 DEF IInv, Types, OnLine

(* A client that says nothing is left where it is. *)
LEMMA ReadTimeoutStep ==
  ASSUME IInv, ReadTimeout
  PROVE  IInv'
  <1>1. ProgramTypes' /\ SerialTypes' /\ Round' /\ Connections' /\ Sent'
    BY DEF IInv, Types, ProgramTypes, ReadTimeout, NextRound, SerialTypes, serial, Round,
            Connections, Sent
  <1>2. Gone' /\ Measuring' /\ Measured' /\ Switching' /\ Switched'
    BY DEF IInv, Gone, OnLine, ReadTimeout, serial, Measuring, NextRound, Measured, Switching,
            Switched
  <1>3. LogMatches' /\ Replies'
    BY DEF IInv, LogMatches, ReadTimeout, NextRound, Replies, Own, serial
  <1>4. ClientTypes'
    BY DEF IInv, Types, ClientTypes, Client, ReadTimeout
  <1> QED BY <1>1, <1>2, <1>3, <1>4 DEF IInv, Types, OnLine

(* The client is told the line that was read for it. *)
LEMMA AnswerStep ==
  ASSUME IInv, Answer
  PROVE  IInv'
  <1>1. ProgramTypes' /\ SerialTypes' /\ Round' /\ Connections'
    BY Texts DEF IInv, Types, ProgramTypes, Answer, NextRound, SerialTypes, serial, Round,
            Connections
  <1>2. Gone' /\ Measuring' /\ Measured' /\ Switching' /\ Switched'
    BY DEF IInv, Gone, OnLine, Answer, serial, Measuring, NextRound, Measured, Switching, Switched
  <1>3. LogMatches' /\ Replies'
    BY DEF IInv, LogMatches, Answer, NextRound, Replies, Own, serial
  <1>4. ClientTypes'
    <2>1. served \in Clients /\ client[served] \in Client /\ buffer \in Words
      BY DEF IInv, Types, ProgramTypes, ClientTypes, Connections, Answer
    <2>2. [client[served] EXCEPT !.state = "answered", !.reply = buffer] \in Client
      BY <2>1 DEF Client, States
    <2> QED BY <2>1, <2>2 DEF IInv, Types, ClientTypes, Answer
  <1>5. Sent'
    BY DEF IInv, Sent, Types, ClientTypes, Client, Answer, NextRound
  <1> QED BY <1>1, <1>2, <1>3, <1>4, <1>5 DEF IInv, Types, OnLine

(* The device receives a request: its answer is under way, and what a client
   asked is done. *)
LEMMA TransmitStep ==
  ASSUME IInv, Transmit
  PROVE  IInv'
  <1>1. ProgramTypes' /\ ClientTypes' /\ Round' /\ Connections' /\ Sent' /\ Gone'
    BY DEF IInv, Types, ProgramTypes, Transmit, program, ClientTypes, Round, Connections, Sent, Gone
  <1>2. Measured' /\ Switched' /\ LogMatches' /\ Replies'
    BY DEF IInv, Measured, OnLine, Transmit, program, Switched, LogMatches, Replies, Own
  <1>3. SerialTypes'
    <2>1. Head(out) \in Words /\ Tail(out) \in Seq(Words)
      BY HeadTailProperties DEF IInv, Types, SerialTypes, Transmit
    <2>2. device \o Lines(Head(out)) \in Seq(Words)
      BY <2>1, LinesTyped, ConcatProperties DEF IInv, Types, SerialTypes
    <2> QED BY <2>1, <2>2 DEF IInv, Types, SerialTypes, Transmit
  <1>4. Measuring'
    <2>1. CASE phase = "measure" /\ pc = "read"
      <3>1. out = <<Requests[at]>> /\ device = <<>> /\ inbox = <<>>
        BY <2>1 DEF IInv, OnLine, Measuring, Fresh, Transmit
      <3>2. Lines(Requests[at]) = device'
        BY <3>1 DEF Lines, Transmit
      <3> QED BY <2>1, <3>1, <3>2 DEF Measuring, Fresh, Lines, Transmit, program
    <2> QED BY <2>1 DEF IInv, OnLine, Measuring, Transmit, program
  <1>5. Switching'
    <2> SUFFICES ASSUME phase = "switch", pc \in {"read", "settle"}
                 PROVE  Switching'
      BY DEF Switching, Transmit, program
    <2> DEFINE m == client[served].command
    <2>1. out = <<m>> /\ Only(device, Rest \cup {m}) /\ Only(inbox, Rest \cup {m}) /\ m \in Switch
      BY DEF IInv, OnLine, Switching, Sent, Transmit
    <2>2. Head(out) = m /\ Tail(out) = <<>> /\ m \in Words
      BY <2>1, Texts DEF Switch
    <2>3. Only(device \o Lines(m), Rest \cup {m})
      BY <2>1, <2>2, LinesTyped, OnlyConcat DEF IInv, Types, SerialTypes
    <2> QED BY <2>1, <2>2, <2>3 DEF Switching, Transmit, program, Rest
  <1> QED BY <1>1, <1>2, <1>3, <1>4, <1>5 DEF IInv, Types, OnLine

(* Lines keep their order on the way. *)
LEMMA DeliverStep ==
  ASSUME IInv, Deliver
  PROVE  IInv'
  <1>1. ProgramTypes' /\ ClientTypes' /\ Round' /\ Connections' /\ Sent'
    BY DEF IInv, Types, ProgramTypes, Deliver, program, ClientTypes, Round, Connections, Sent
  <1>2. Gone' /\ Switched' /\ LogMatches' /\ Replies'
    BY DEF IInv, Gone, OnLine, Deliver, Switched, program, LogMatches, Replies, Own
  <1>3. SerialTypes'
    <2>1. Head(device) \in Words /\ Tail(device) \in Seq(Words)
      BY HeadTailProperties DEF IInv, Types, SerialTypes, Deliver
    <2> QED BY <2>1 DEF IInv, Types, SerialTypes, Deliver
  <1>4. Measuring'
    <2> SUFFICES ASSUME phase = "measure", pc = "read", line = "up"
                 PROVE  Fresh(Requests[at])'
      BY DEF IInv, OnLine, Measuring, Deliver, program
    <2> DEFINE r == Requests[at]
    <2>1. CASE device = Lines(r) /\ inbox = <<>> /\ out = <<>>
      <3>1. Head(device) = r /\ Tail(device) \in {<<>>, <<Empty>>} /\ (Tail(device) = <<Empty>> => twoLines)
        BY <2>1 DEF Lines
      <3>2. Only(Tail(device), Rest)
        <4>1. Only(<<>>, Rest) /\ (twoLines => Only(<<Empty>>, Rest))
          BY DEF Only, Rest
        <4> QED BY <3>1, <4>1
      <3>3. inbox' = <<r>> /\ Tail(inbox') = <<>> /\ Only(<<>>, Rest)
        BY <2>1, <3>1 DEF Deliver, Only
      <3> QED BY <2>1, <3>2, <3>3 DEF Fresh, Deliver, program, Rest
    <2>2. CASE /\ out = <<>> /\ Only(device, Rest)
               /\ inbox # <<>> /\ Head(inbox) = r /\ Only(Tail(inbox), Rest)
      <3> DEFINE e == Head(device)
      <3>1. e \in Rest /\ Only(Tail(device), Rest)
        BY <2>2, OnlyTail DEF IInv, Types, SerialTypes, Deliver
      <3>2. e \in Words /\ Tail(inbox) \in Seq(Words)
        BY <2>2, HeadTailProperties DEF IInv, Types, SerialTypes, Deliver
      <3>3. Head(Append(inbox, e)) = r /\ Tail(Append(inbox, e)) = Append(Tail(inbox), e)
        BY <2>2, HeadTailAppend DEF IInv, Types, SerialTypes
      <3>4. Only(Append(Tail(inbox), e), Rest)
        BY <2>2, <3>1, <3>2, OnlyAppend
      <3>5. Append(inbox, e) # <<>>
        BY <3>2, AppendProperties DEF IInv, Types, SerialTypes
      <3> QED BY <2>2, <3>1, <3>3, <3>4, <3>5 DEF Fresh, Deliver, program, Rest
    <2> QED BY <2>1, <2>2 DEF IInv, OnLine, Measuring, Fresh, Deliver
  <1>5. Measured'
    <2> SUFFICES ASSUME Only(device, Rest), Only(inbox, Rest), out = <<>>
                 PROVE  Only(device', Rest) /\ Only(inbox', Rest)
      BY DEF IInv, OnLine, Measured, Deliver, program, Rest
    <2> QED BY OnlyDeliver DEF IInv, Types
  <1>6. Switching'
    <2> DEFINE S == Rest \cup {client[served].command}
    <2> SUFFICES ASSUME Only(device, S), Only(inbox, S)
                 PROVE  Only(device', S) /\ Only(inbox', S)
      BY DEF IInv, OnLine, Switching, Deliver, program, Rest
    <2> QED BY OnlyDeliver DEF IInv, Types
  <1> QED BY <1>1, <1>2, <1>3, <1>4, <1>5, <1>6 DEF IInv, Types, OnLine

(* Nothing remains on a line that is gone. *)
LEMMA UnplugStep ==
  ASSUME IInv, Unplug
  PROVE  IInv'
  <1>1. ProgramTypes' /\ SerialTypes' /\ ClientTypes' /\ Round' /\ Connections' /\ Sent'
    BY DEF IInv, Types, ProgramTypes, Unplug, program, SerialTypes, ClientTypes, Round,
            Connections, Sent
  <1>2. Gone' /\ Measuring' /\ Measured' /\ Switched' /\ LogMatches'
    BY DEF IInv, Gone, Unplug, Measuring, Measured, Only, Switched, LogMatches, program
  <1>3. Replies'
    BY DEF IInv, Replies, Own, Unplug, program
  <1>4. Switching'
    BY DEF Switching, Only, Unplug
  <1> QED BY <1>1, <1>2, <1>3, <1>4 DEF IInv, Types, OnLine

(* Who connects was not waiting and was not served: its state was idle. *)
LEMMA ConnectStep ==
  ASSUME IInv, NEW c \in Clients, Connect(c)
  PROVE  IInv'
  <1>1. ProgramTypes' /\ SerialTypes' /\ Round' /\ Gone'
    BY DEF IInv, Types, ProgramTypes, Connect, program, SerialTypes, serial, Round, Gone, OnLine
  <1>2. Switched' /\ LogMatches' /\ Replies'
    BY DEF IInv, Switched, OnLine, Connect, program, serial, LogMatches, Replies, Own
  <1>3. ClientTypes'
    BY GatewayAssumption DEF IInv, Types, ClientTypes, Client, States, Connect
  <1>4. Connections'
    <2>1. /\ client[c].state = "idle" /\ client'[c].state = "connected"
          /\ \A d \in Clients \ {c} : client'[d] = client[d]
      BY DEF IInv, Types, ClientTypes, Connect
    <2>2. /\ waiting \in Seq(Clients) /\ waiting' \in Seq(Clients)
          /\ Len(waiting') = Len(waiting) + 1 /\ waiting'[Len(waiting) + 1] = c
          /\ \A i \in 1 .. Len(waiting) : waiting'[i] = waiting[i]
      BY AppendProperties DEF IInv, Types, ClientTypes, Connect
    <2>3. \A i \in 1 .. Len(waiting) : waiting[i] \in Clients \ {c} /\ client[waiting[i]].state \in Open
      BY <2>1, <2>2 DEF IInv, Connections, Open
    <2>4. \A i \in 1 .. Len(waiting') : client'[waiting'[i]].state \in Open
      BY <2>1, <2>2, <2>3 DEF Open
    <2>5. \A i, j \in 1 .. Len(waiting') : waiting'[i] = waiting'[j] => i = j
      BY <2>2, <2>3 DEF IInv, Connections
    <2>6. pc \in {"serve", "answer"} \/ phase = "switch" =>
            /\ served \in Clients \ {c} /\ client'[served].state \in Open
            /\ \A i \in 1 .. Len(waiting') : waiting'[i] # served
      BY <2>1, <2>2 DEF IInv, Connections, Open
    <2> QED BY <2>4, <2>5, <2>6 DEF Connections, Connect, program
  <1>5. Sent'
    BY DEF IInv, Sent, Types, ClientTypes, Client, Connections, Connect, program
  <1>6. Measuring'
    BY DEF IInv, OnLine, Measuring, Fresh, Rest, Lines, Connect, program, serial
  <1>7. Measured'
    BY DEF IInv, Measured, OnLine, Rest, Connect, program, serial
  <1>8. Switching'
    BY DEF IInv, Switching, OnLine, Types, ClientTypes, Open, Rest, Connections, Connect,
            program, serial
  <1> QED BY <1>1, <1>2, <1>3, <1>4, <1>5, <1>6, <1>7, <1>8 DEF IInv, Types, OnLine

(* The command of the client that is served for it is fixed: it has sent one. *)
LEMMA SendCommandStep ==
  ASSUME IInv, NEW c \in Clients, SendCommand(c)
  PROVE  IInv'
  <1>1. ProgramTypes' /\ SerialTypes' /\ Round' /\ Gone'
    BY DEF IInv, Types, ProgramTypes, SendCommand, program, SerialTypes, serial, Round, Gone, OnLine
  <1>2. LogMatches'
    BY DEF IInv, LogMatches, SendCommand, program, serial
  <1>3. ClientTypes'
    <2>1. PICK m \in Switch \cup {"other"} :
            client' = [client EXCEPT ![c] = [@ EXCEPT !.state = "sent", !.command = m]]
      BY DEF SendCommand
    <2>2. [client[c] EXCEPT !.state = "sent", !.command = m] \in Client
      BY DEF IInv, Types, ClientTypes, Client, States, Commands, Switch
    <2> QED BY <2>1, <2>2 DEF IInv, Types, ClientTypes, SendCommand
  <1>4. Connections'
    BY DEF IInv, Connections, Types, ClientTypes, Open, SendCommand, program
  <1>5. Sent'
    <2>1. /\ \A d \in Clients \ {c} : client'[d] = client[d]
          /\ client'[c].state = "sent" /\ client[c].state = "connected"
      BY DEF IInv, Types, ClientTypes, Client, SendCommand
    <2>2. phase = "switch" \/ pc = "answer" => served \in Clients \ {c}
      BY <2>1 DEF IInv, Types, ProgramTypes, Round, Connections, Sent, Switch, None, On, Off
    <2> QED BY <2>1, <2>2 DEF IInv, Sent, SendCommand, program
  <1>6. Measuring'
    BY DEF IInv, OnLine, Measuring, Fresh, Rest, Lines, SendCommand, program, serial
  <1>7. Measured'
    BY DEF IInv, Measured, OnLine, Rest, SendCommand, program, serial
  <1>8. Switching'
    <2> SUFFICES ASSUME phase = "switch" PROVE client'[served] = client[served]
      BY DEF IInv, OnLine, Switching, Rest, SendCommand, program, serial
    <2> QED BY DEF IInv, Sent, Connections, Types, ClientTypes, Switch, None, On, Off, SendCommand
  <1>9. Switched'
    BY DEF IInv, Switched, OnLine, Types, ClientTypes, Client, Connections, SendCommand,
            program, serial
  <1>10. Replies'
    <2>1. /\ \A d \in Clients \ {c} : client'[d] = client[d]
          /\ client'[c].state = "sent" /\ client[c].state = "connected"
      BY DEF IInv, Types, ClientTypes, Client, SendCommand
    <2>2. phase = "switch" \/ pc = "answer" => served \in Clients \ {c}
      BY <2>1 DEF IInv, Types, ProgramTypes, Round, Connections, Sent, Switch, None, On, Off
    <2> QED BY <2>1, <2>2 DEF IInv, Replies, Own, SendCommand, program, serial
  <1> QED BY <1>1, <1>2, <1>3, <1>4, <1>5, <1>6, <1>7, <1>8, <1>9, <1>10 DEF IInv, Types, OnLine

(* A client that is killed leaves its command behind. *)
LEMMA VanishStep ==
  ASSUME IInv, NEW c \in Clients, Vanish(c)
  PROVE  IInv'
  <1>1. ProgramTypes' /\ SerialTypes' /\ ClientTypes'
    BY DEF IInv, Types, ProgramTypes, Vanish, program, SerialTypes, serial, ClientTypes,
            Client, States
  <1>2. Round' /\ Connections' /\ Gone' /\ Switched'
    BY DEF IInv, Round, Vanish, program, Connections, Open, Gone, OnLine, serial, Switched
  <1>3. LogMatches' /\ Replies'
    BY DEF IInv, LogMatches, Vanish, program, serial, Replies, Own
  <1>4. Sent'
    BY DEF IInv, Sent, Types, ClientTypes, Client, Connections, Vanish, program
  <1>5. Measuring'
    BY DEF IInv, OnLine, Measuring, Fresh, Rest, Lines, Vanish, program, serial
  <1>6. Measured'
    BY DEF IInv, Measured, OnLine, Rest, Vanish, program, serial
  <1>7. Switching'
    BY DEF IInv, Switching, OnLine, Types, ClientTypes, Client, Rest, Connections, Vanish,
            program, serial
  <1> QED BY <1>1, <1>2, <1>3, <1>4, <1>5, <1>6, <1>7 DEF IInv, Types, OnLine

(* A client whose connection is still to be served does not come back. *)
LEMMA RestartStep ==
  ASSUME IInv, NEW c \in Clients, Restart(c)
  PROVE  IInv'
  <1>1. ProgramTypes' /\ SerialTypes' /\ Round' /\ Connections'
    BY DEF IInv, Types, ProgramTypes, Restart, program, SerialTypes, serial, Round,
            Connections, Open
  <1>2. Gone' /\ LogMatches'
    BY DEF IInv, Gone, OnLine, Restart, serial, LogMatches, program
  <1>3. ClientTypes'
    BY Texts DEF IInv, Types, ClientTypes, Client, States, Commands, Idle, Restart
  <1>4. Sent'
    BY DEF IInv, Sent, Types, ClientTypes, Connections, Open, Idle, Restart, program
  <1>5. Measuring'
    BY DEF IInv, OnLine, Measuring, Fresh, Rest, Lines, Restart, program, serial
  <1>6. Measured'
    BY DEF IInv, Measured, OnLine, Rest, Restart, program, serial
  <1>7. Switching'
    BY DEF IInv, Switching, OnLine, Types, ClientTypes, Open, Rest, Connections, Restart,
            program, serial
  <1>8. Switched'
    BY DEF IInv, Switched, OnLine, Connections, Open, Restart, program, serial
  <1>9. Replies'
    <2>1. /\ \A d \in Clients \ {c} : client'[d] = client[d]
          /\ client'[c].state = "idle"
      BY DEF IInv, Types, ClientTypes, Restart, Idle
    <2>2. phase = "switch" \/ pc = "answer" => served \in Clients \ {c}
      BY DEF IInv, Connections, Restart, Open
    <2> QED BY <2>1, <2>2 DEF IInv, Replies, Own, Restart, program, serial
  <1> QED BY <1>1, <1>2, <1>3, <1>4, <1>5, <1>6, <1>7, <1>8, <1>9 DEF IInv, Types, OnLine

-----------------------------------------------------------------------------
(* The program begins with an empty line and no client. *)
LEMMA InitIInv == Init => IInv
  <1> SUFFICES ASSUME Init PROVE IInv
    OBVIOUS
  <1>1. ProgramTypes /\ SerialTypes
    BY Texts DEF Init, ProgramTypes, SerialTypes
  <1>2. ClientTypes
    BY Texts DEF Init, ClientTypes, Client, Idle, States, Commands
  <1>3. Round /\ Connections /\ LogMatches
    BY Texts DEF Init, Round, Connections, LogMatches
  <1>4. Sent /\ Replies
    BY DEF Init, Sent, Replies, Idle
  <1>5. OnLine
    BY DEF Init, OnLine, Gone, Measuring, Measured, Switching, Switched
  <1> QED BY <1>1, <1>2, <1>3, <1>4, <1>5 DEF IInv, Types

(* Every step of the program, the line and the clients keeps the invariant. *)
LEMMA NextIInv == IInv /\ [Next]_vars => IInv'
  <1> SUFFICES ASSUME IInv, [Next]_vars PROVE IInv'
    OBVIOUS
  <1>1. CASE Program
    BY <1>1, SettleStep, AskStep, StartUpStep, MeasureStep, SwitchHVStep, AcceptStep, NotAcceptedStep,
       ReadMessageStep, ReadHangupStep, ReadTimeoutStep, AnswerStep DEF Program
  <1>2. CASE Transmit \/ Deliver \/ Unplug
    BY <1>2, TransmitStep, DeliverStep, UnplugStep
  <1>3. CASE \E c \in Clients : Connect(c) \/ SendCommand(c) \/ Vanish(c) \/ Restart(c)
    BY <1>3, ConnectStep, SendCommandStep, VanishStep, RestartStep
  <1>4. CASE UNCHANGED vars
    BY <1>4 DEF vars, program, serial, IInv, Types, ProgramTypes, SerialTypes, ClientTypes, Round,
       Connections, Sent, OnLine, Gone, Measuring, Measured, Switching, Switched, Fresh, Rest, Lines,
       LogMatches, Replies, Own
  <1> QED BY <1>1, <1>2, <1>3, <1>4 DEF Next

(* The invariant holds in every state of every behaviour. *)
THEOREM SerialGatewayIInv == Spec => []IInv
  <1>1. Init => IInv
    BY InitIInv
  <1>2. IInv /\ [Next]_vars => IInv'
    BY NextIInv
  <1> QED BY <1>1, <1>2, PTL DEF Spec

(* The values of the log stand in the columns of their requests, and a client
   is told the device's answer to its own command, for every round of requests
   and any number of clients (get_info, scpi_client_serBI.cpp:117). *)
THEOREM SerialGatewayAnswersAreOwn == Spec => []AnswersAreOwn
  <1>1. IInv => AnswersAreOwn
    <2>1. IInv => LogMatches
      BY DEF IInv
    <2>2. IInv => ReplyIsOwn
      BY DEF IInv, Replies, Own, ReplyIsOwn
    <2> QED BY <2>1, <2>2 DEF AnswersAreOwn
  <1> QED BY <1>1, SerialGatewayIInv, PTL

(* When a client is told, the device has done what it asked for, or is gone. *)
THEOREM SerialGatewaySwitchedWhenAnswered == Spec => SwitchedWhenAnswered
  <1> DEFINE Told == \A c \in Clients :
                       /\ client[c].state = "sent" /\ client'[c].state = "answered"
                       /\ client[c].command \in Switch
                       => hv = client[c].command \/ line = "gone"
  <1>1. IInv /\ Next => Told
    <2> SUFFICES ASSUME IInv, Next, NEW c \in Clients,
                        client[c].state = "sent", client'[c].state = "answered",
                        client[c].command \in Switch
                 PROVE  hv = client[c].command \/ line = "gone"
      OBVIOUS
    <2>1. CASE Answer
      <3>1. c = served
        BY <2>1 DEF IInv, Types, ClientTypes, Answer
      <3>2. phase = "switch"
        BY <2>1, <3>1 DEF IInv, Types, ProgramTypes, Round, Sent, Switch, On, Off, Answer
      <3> QED BY <2>1, <3>1, <3>2 DEF IInv, OnLine, Switched, Answer
    <2>2. CASE ReadTimeout
      BY <2>2 DEF IInv, Types, ClientTypes, Client, ReadTimeout
    <2>3. CASE \E d \in Clients : Connect(d) \/ SendCommand(d) \/ Vanish(d) \/ Restart(d)
      BY <2>3 DEF IInv, Types, ClientTypes, Client, Connect, SendCommand, Vanish, Restart, Idle
    <2>4. CASE UNCHANGED client
      BY <2>4
    <2> QED
      BY <2>1, <2>2, <2>3, <2>4
      DEF Next, Program, Settle, Ask, StartUp, Measure, SwitchHV, Receive, Accept, NotAccepted,
          ReadMessage, ReadHangup, Transmit, Deliver, Unplug
  <1>2. IInv /\ [Next]_vars => [Told]_vars
    BY <1>1
  <1> QED BY <1>2, SerialGatewayIInv, PTL DEF Spec, SwitchedWhenAnswered

-----------------------------------------------------------------------------
(* Descriptors *)

(* A connection that was given up is neither served nor waiting, and its
   client does not come back. *)
GivenUp ==
  /\ \A c \in Clients : client[c].left => client[c].state \in Open
  /\ served # None => ~ client[served].left
  /\ \A i \in 1 .. Len(waiting) : ~ client[waiting[i]].left

ServedWhen == /\ served = None <=> pc \notin {"serve", "answer"} /\ phase # "switch"
              /\ served # None => served \in Clients

Descriptors == /\ sockets = Cardinality(Left) + (IF served = None THEN 0 ELSE 1)
               /\ sockets <= MaxSockets

SInv == GivenUp /\ ServedWhen /\ Descriptors /\ Len(out) <= 1

(* There are finitely many clients, so those given up can be counted. *)
LEMMA LeftFinite == IsFiniteSet(Left) /\ Cardinality(Left) \in Nat
  <1>1. Left \subseteq Clients
    BY DEF Left
  <1>2. IsFiniteSet(Left)
    BY <1>1, ClientsAssumption, FS_Subset
  <1> QED BY <1>2, FS_CardinalityType

(* At the start no connection is open. *)
LEMMA InitSInv == Init => SInv
  <1> SUFFICES ASSUME Init PROVE SInv
    OBVIOUS
  <1>1. GivenUp /\ ServedWhen
    BY DEF Init, GivenUp, ServedWhen, Idle
  <1>2. Left = {}
    BY DEF Init, Left, Idle
  <1>3. Descriptors
    BY <1>2, FS_EmptySet, GatewayAssumption DEF Init, Descriptors
  <1> QED BY <1>1, <1>3 DEF Init, SInv

(* While nobody is given up, and whoever is served is served as before *)
LEMMA SameDescriptors ==
  ASSUME SInv, UNCHANGED <<served, sockets>>, \A c \in Clients : client'[c].left = client[c].left
  PROVE  Descriptors'
  <1>1. Left' = Left
    BY DEF Left
  <1> QED BY <1>1 DEF SInv, Descriptors

(* Whatever the program, the line or a client does next, the descriptors are
   still those of the client served and of the clients given up. *)
LEMMA NextSInv == IInv /\ SInv /\ [Next]_vars => SInv'
  <1> SUFFICES ASSUME IInv, SInv, [Next]_vars PROVE SInv'
    OBVIOUS
  <1>1. /\ GivenUp /\ ServedWhen /\ Descriptors /\ Len(out) <= 1
        /\ Types /\ Round /\ Connections
    BY DEF SInv, IInv
  <1>2. client \in [Clients -> Client] /\ waiting \in Seq(Clients) /\ out \in Seq(Words)
    BY <1>1 DEF Types, ClientTypes, SerialTypes
  <1>3. CASE Settle \/ SwitchHV \/ ReadMessage \/ StartUp \/ Measure \/ NotAccepted
    <2>1. GivenUp' /\ ServedWhen' /\ Len(out') <= 1
      BY <1>1, <1>3 DEF Settle, StartUp, Measure, SwitchHV, NotAccepted, ReadMessage, Interpret, Receive,
         NextRound, AfterSwitch, GivenUp, ServedWhen, serial, Round
    <2>2. Descriptors'
      BY <1>3, SameDescriptors DEF Settle, StartUp, Measure, SwitchHV, NotAccepted, ReadMessage, Interpret, Receive
    <2> QED BY <2>1, <2>2 DEF SInv
  <1>4. CASE Ask
    <2>1. GivenUp' /\ ServedWhen' /\ Len(out') <= 1
      BY <1>1, <1>4 DEF Ask, GivenUp, ServedWhen
    <2>2. Descriptors'
      BY <1>4, SameDescriptors DEF Ask
    <2> QED BY <2>1, <2>2 DEF SInv
  <1>5. CASE Accept
    <2>1. served' \in Clients /\ served' # None /\ ~ client[served'].left /\ waiting # <<>>
      <3>1. Head(waiting) = waiting[1] /\ 1 \in 1 .. Len(waiting)
        BY <1>2, <1>5 DEF Accept
      <3> QED BY <1>1, <1>2, <1>5, <3>1, ClientsAssumption DEF Accept, GivenUp
    <2>2. \A i \in 1 .. Len(Tail(waiting)) : ~ client[Tail(waiting)[i]].left
      BY <1>1, <1>2, <2>1 DEF GivenUp
    <2>3. GivenUp' /\ ServedWhen'
      BY <1>1, <1>5, <2>1, <2>2 DEF Accept, GivenUp, ServedWhen
    <2>4. served = None
      BY <1>1, <1>5 DEF Accept, ServedWhen, Round
    <2>5. Left' = Left
      BY <1>5 DEF Accept, Left
    <2>6. Descriptors'
      BY <1>1, <1>5, <2>1, <2>4, <2>5, LeftFinite, GatewayAssumption DEF Accept, Descriptors
    <2> QED BY <1>1, <1>5, <2>3, <2>6 DEF SInv, Accept, serial
  <1>6. CASE ReadHangup \/ Answer
    <2>1. served # None /\ served' = None /\ sockets' = sockets - 1 /\ out' = out /\ waiting' = waiting
      BY <1>1, <1>6 DEF ReadHangup, Answer, ServedWhen, AfterHangup, serial
    <2>2. \A c \in Clients : client'[c].left = client[c].left
      <3>1. CASE ReadHangup
        BY <3>1 DEF ReadHangup
      <3>2. CASE Answer
        <4>1. PICK r : client' = [client EXCEPT ![served] = r] /\ r.left = client[served].left
          <5>1. client[served].left = [client[served] EXCEPT !.state = "answered", !.reply = buffer].left
            BY <1>1, <1>2, <2>1 DEF Client, ServedWhen
          <5> QED BY <3>2, <5>1 DEF Answer
        <4> QED BY <1>2, <4>1
      <3> QED BY <1>6, <3>1, <3>2
    <2>3. Left' = Left
      BY <2>2 DEF Left
    <2>4. Descriptors'
      BY <1>1, <2>1, <2>3, LeftFinite, GatewayAssumption DEF Descriptors
    <2>5. ServedWhen'
      BY <1>6, <2>1 DEF ServedWhen, ReadHangup, Answer, NextRound
    <2>6. GivenUp'
      <3>1. \A c \in Clients : client[c].left => client'[c].state = client[c].state
        BY <1>1, <1>2, <1>6, <2>1 DEF GivenUp, ReadHangup, Answer, ServedWhen, Client
      <3> QED BY <1>1, <1>2, <2>1, <2>2, <3>1 DEF GivenUp
    <2> QED BY <1>1, <2>1, <2>4, <2>5, <2>6 DEF SInv
  <1>7. CASE ReadTimeout
    <2>1. /\ served \in Clients /\ served # None /\ ~ client[served].left /\ client[served].state \in Open
          /\ \A i \in 1 .. Len(waiting) : waiting[i] # served
      BY <1>1, <1>7 DEF ReadTimeout, ServedWhen, GivenUp, Connections
    <2>2. /\ client'[served].left /\ client'[served].state = client[served].state
          /\ \A c \in Clients \ {served} : client'[c] = client[c]
      BY <1>2, <1>7, <2>1 DEF ReadTimeout, Client
    <2>3. Left' = Left \cup {served} /\ served \notin Left
      BY <2>1, <2>2 DEF Left
    <2>4. Cardinality(Left') = Cardinality(Left) + 1
      BY <2>3, LeftFinite, FS_AddElement
    <2>5. served' = None /\ sockets' = sockets /\ waiting' = waiting /\ out' = out
      BY <1>7 DEF ReadTimeout, serial
    <2>6. Descriptors'
      BY <1>1, <2>1, <2>4, <2>5, LeftFinite DEF Descriptors
    <2>7. ServedWhen'
      BY <1>7, <2>5 DEF ServedWhen, ReadTimeout, NextRound
    <2>8. GivenUp'
      BY <1>1, <1>2, <2>1, <2>2, <2>5 DEF GivenUp
    <2> QED BY <1>1, <2>5, <2>6, <2>7, <2>8 DEF SInv
  <1>8. CASE Transmit \/ Deliver \/ Unplug
    <2>1. Len(out') <= 1
      BY <1>1, <1>2, <1>8 DEF Transmit, Deliver, Unplug
    <2>2. GivenUp' /\ ServedWhen'
      BY <1>1, <1>8 DEF Transmit, Deliver, Unplug, program, GivenUp, ServedWhen
    <2>3. Descriptors'
      BY <1>8, SameDescriptors DEF Transmit, Deliver, Unplug, program
    <2> QED BY <2>1, <2>2, <2>3 DEF SInv
  <1>9. ASSUME NEW c \in Clients, Connect(c) \/ SendCommand(c) \/ Vanish(c) \/ Restart(c)
        PROVE  SInv'
    <2>1. UNCHANGED <<program, serial>>
      BY <1>9 DEF Connect, SendCommand, Vanish, Restart
    <2>2. \A d \in Clients : client'[d].left = client[d].left
      <3>1. CASE Connect(c) \/ SendCommand(c) \/ Vanish(c)
        <4>1. PICK r : client' = [client EXCEPT ![c] = r] /\ r.left = client[c].left
          BY <1>2, <3>1 DEF Connect, SendCommand, Vanish, Client
        <4> QED BY <1>2, <4>1
      <3>2. CASE Restart(c)
        <4>1. ~ client[c].left
          BY <1>1, <3>2 DEF Restart, GivenUp, Open
        <4>2. client[c].left = FALSE
          BY <1>2, <4>1 DEF Client
        <4>3. client' = [client EXCEPT ![c] = Idle] /\ Idle.left = FALSE
          BY <3>2 DEF Restart, Idle
        <4> QED BY <1>2, <4>2, <4>3
      <3> QED BY <1>9, <3>1, <3>2
    <2>3. \A d \in Clients : client'[d].left => client'[d].state \in Open
      BY <1>1, <1>2, <1>9, SMTT(30) DEF Connect, SendCommand, Vanish, Restart, Client, Idle, GivenUp, Open
    <2>4. \A i \in 1 .. Len(waiting') : ~ client'[waiting'[i]].left
      <3>1. CASE Connect(c)
        <4>1. ~ client[c].left
          BY <1>1, <3>1 DEF Connect, GivenUp, Open
        <4>2. waiting' = Append(waiting, c)
          BY <3>1 DEF Connect
        <4> QED BY <1>1, <1>2, <2>2, <4>1, <4>2, AppendProperties DEF GivenUp
      <3>2. CASE SendCommand(c) \/ Vanish(c) \/ Restart(c)
        <4>1. waiting' = waiting
          BY <3>2 DEF SendCommand, Vanish, Restart
        <4> QED BY <1>1, <1>2, <2>2, <4>1 DEF GivenUp
      <3> QED BY <1>9, <3>1, <3>2
    <2>5. GivenUp' /\ ServedWhen'
      BY <1>1, <2>1, <2>2, <2>3, <2>4 DEF GivenUp, ServedWhen, program
    <2>6. Descriptors'
      BY <2>1, <2>2, SameDescriptors DEF program
    <2> QED BY <1>1, <2>1, <2>5, <2>6 DEF SInv, serial
  <1>10. CASE UNCHANGED vars
    <2>1. Descriptors'
      BY <1>10, SameDescriptors DEF vars, program
    <2> QED BY <1>1, <1>10, <2>1 DEF vars, program, serial, SInv, GivenUp, ServedWhen
  <1> QED BY <1>3, <1>4, <1>5, <1>6, <1>7, <1>8, <1>9, <1>10 DEF Next, Program

(* The connections that are open are the one that is served and those given
   up after a timeout, whatever the clients do: none is lost on any other
   path (get_socket_message, scpi_client_serBI.cpp), and there are never
   more than the process may have. *)
THEOREM SerialGatewayTypeOK == Spec => []TypeOK
  <1>1. Init => SInv
    BY InitSInv
  <1>2. IInv /\ SInv /\ [Next]_vars => SInv'
    BY NextSInv
  <1>3. IInv /\ SInv => TypeOK
    BY DEF IInv, Types, ProgramTypes, SInv, ServedWhen, Descriptors, TypeOK
  <1> QED BY <1>1, <1>2, <1>3, SerialGatewayIInv, PTL DEF Spec
==============================================================================
