---------------------------- MODULE SerialGateway ---------------------------
(***************************************************************************)
(* scpi_client_serBI.cpp: a program that asks a device on a serial line    *)
(* for one measurement after the other, writes them to a log, and after    *)
(* each round waits for a client on a socket that switches the high        *)
(* voltage; serr_BI_cmd.cpp is that client.                                *)
(*                                                                         *)
(* An answer is named after its request.  The line gives the program whole *)
(* lines (ICANON).  A device ends its answers with a newline, or with a    *)
(* carriage return before it, which the line makes a newline too (ICRNL,   *)
(* which serialportsetup leaves as it was): an empty line then follows     *)
(* every answer.  The device answers all it receives, in any time, until   *)
(* it is unplugged.                                                        *)
(***************************************************************************)
EXTENDS Naturals, Sequences, FiniteSets

CONSTANTS Clients,     \* processes that run serr_BI_cmd, or anything else
          Requests,    \* line_buffer: the requests of a round
          MaxSockets   \* connections the process may hold (RLIMIT_NOFILE)

ASSUME GatewayAssumption == /\ Requests \in Seq(STRING) \ {<<>>}
                            /\ MaxSockets \in Nat \ {0}

VARIABLES
  (* the program *)
  pc,       \* settle, ask, read: in get_info and the sleep around it;
            \* accept, serve, answer: at the socket; exit
  phase,    \* the caller of get_info: start, measure or switch
  at,       \* lc, the request in the round
  row,      \* ss, the values of this round
  buffer,   \* the answer for the client
  served,   \* the client of new_socket
  sockets,  \* descriptors of connections
  (* the serial line and the device *)
  line,     \* up, or gone when the device is unplugged
  twoLines, \* an empty line follows each answer
  out,      \* written, not yet transmitted
  device,   \* lines the device still has to send
  inbox,    \* lines that can be read
  hv,       \* the last switch command the device has executed
  (* the clients *)
  waiting,  \* connections not accepted yet, in order
  client    \* client[c]: its state, its command, its reply; left, when the
            \* program has given up a connection without closing it

program == <<pc, phase, at, row, buffer, served, sockets>>
serial == <<line, twoLines, out, device, inbox, hv>>
vars == <<program, serial, waiting, client>>

On == ":SET:IO:CH 1 1"
Off == ":SET:IO:CH 1 0"
Flavor == "*HWFlavor?"
Startup == <<"*IDN?", "*HWVer?", Flavor, ":GET:STATUS?", Off>>
Switch == {On, Off}

Empty == ""
Zero == "resp message is zerr"
NotOK == "NotOK"
None == "none"

ASSUME ClientsAssumption == IsFiniteSet(Clients) /\ None \notin Clients

Idle == [state |-> "idle", command |-> None, reply |-> None, left |-> FALSE]

Init ==
  /\ pc = "ask" /\ phase = "start" /\ at = 1 /\ row = <<>> /\ buffer = None
  /\ served = None /\ sockets = 0
  /\ line = "up" /\ twoLines \in BOOLEAN /\ hv = None
  /\ out = <<>> /\ device = <<>> /\ inbox = <<>>
  /\ waiting = <<>> /\ client = [c \in Clients |-> Idle]

-----------------------------------------------------------------------------
(* The serial line and the device *)

Lines(request) == IF twoLines THEN <<request, Empty>> ELSE <<request>>

Transmit ==
  /\ line = "up" /\ out # <<>>
  /\ device' = device \o Lines(Head(out))
  /\ hv' = IF Head(out) \in Switch THEN Head(out) ELSE hv
  /\ out' = Tail(out)
  /\ UNCHANGED <<program, line, twoLines, inbox, waiting, client>>

Deliver ==
  /\ device # <<>>
  /\ inbox' = Append(inbox, Head(device)) /\ device' = Tail(device)
  /\ UNCHANGED <<program, line, twoLines, out, hv, waiting, client>>

Unplug ==
  /\ line = "up" /\ line' = "gone"
  /\ out' = <<>> /\ device' = <<>> /\ inbox' = <<>>
  /\ UNCHANGED <<program, twoLines, hv, waiting, client>>

-----------------------------------------------------------------------------
(* get_info, and the sleep before or after it *)

(* Seeded fault: no sleep. *)
Quiet_Never == TRUE

(* usleep(50 ms): what is under way on the line arrives meanwhile.  This is
   what the sleep is for, and an assumption on the device. *)
Quiet == out = <<>> /\ device = <<>>

Settle ==
  /\ pc = "settle" /\ Quiet
  /\ pc' = IF phase = "switch" THEN "answer" ELSE "ask"
  /\ UNCHANGED <<phase, at, row, buffer, served, sockets, serial, waiting, client>>

Request == CASE phase = "start" -> Startup[at]
             [] phase = "measure" -> Requests[at]
             [] phase = "switch" -> client[served].command

(* tcflush in both directions, write *)
Ask ==
  /\ pc = "ask" /\ pc' = "read"
  /\ inbox' = <<>>
  /\ out' = IF line = "up" THEN <<Request>> ELSE <<>>
  /\ UNCHANGED <<phase, at, row, buffer, served, sockets, line, twoLines, device, hv,
                 waiting, client>>

(* read waits for a line; there are none, and 0 bytes, on a line that is
   gone. *)
Receive(text) ==
  /\ pc = "read"
  /\ \/ inbox # <<>> /\ text = Head(inbox) /\ inbox' = Tail(inbox)
     \/ line = "gone" /\ inbox = <<>> /\ text = Zero /\ UNCHANGED inbox
  /\ UNCHANGED <<line, twoLines, out, device, hv, waiting, client, served, sockets>>

Text == {Head(inbox) : i \in {1} \cap DOMAIN inbox} \cup {Zero}

(* The next turn of the loop of main *)
NextRound == pc' = "settle" /\ phase' = "measure" /\ at' = 1 /\ row' = <<>>

StartUp ==
  /\ phase = "start"
  /\ \E text \in Text :
       /\ Receive(text)
       /\ CASE Startup[at] = Flavor /\ text # Flavor ->
                 pc' = "exit" /\ UNCHANGED <<phase, at, row>>
            [] ~ (Startup[at] = Flavor /\ text # Flavor) /\ at < Len(Startup) ->
                 pc' = "ask" /\ at' = at + 1 /\ UNCHANGED <<phase, row>>
            [] OTHER -> NextRound
  /\ UNCHANGED buffer

Measure ==
  /\ phase = "measure"
  /\ \E text \in Text : Receive(text) /\ row' = Append(row, text)
  /\ IF at < Len(Requests) THEN pc' = "settle" /\ at' = at + 1
                           ELSE pc' = "accept" /\ UNCHANGED at
  /\ UNCHANGED <<phase, buffer>>

(* Seeded fault: the answer is sent without a pause. *)
AfterSwitch_NoSleep == "answer"

AfterSwitch == "settle"

SwitchHV ==
  /\ phase = "switch"
  /\ \E text \in Text : Receive(text) /\ buffer' = text
  /\ pc' = AfterSwitch
  /\ UNCHANGED <<phase, at, row>>

-----------------------------------------------------------------------------
(* get_socket_message, interprete_socket_message *)

Accept ==
  /\ pc = "accept" /\ sockets < MaxSockets /\ waiting # <<>>
  /\ served' = Head(waiting) /\ waiting' = Tail(waiting)
  /\ sockets' = sockets + 1 /\ pc' = "serve"
  /\ UNCHANGED <<phase, at, row, buffer, serial, client>>

(* Nobody came within the waiting time, or there is no descriptor left. *)
NotAccepted ==
  /\ pc = "accept" /\ (waiting = <<>> \/ sockets >= MaxSockets)
  /\ NextRound
  /\ UNCHANGED <<buffer, served, sockets, serial, waiting, client>>

(* Seeded fault: an unknown command is left without an answer. *)
Interpret_HVOnly == IF client[served].command \in Switch
                    THEN pc' = "ask" /\ phase' = "switch" /\ UNCHANGED <<at, row, buffer, served>>
                    ELSE NextRound /\ served' = None /\ UNCHANGED buffer

Interpret == /\ IF client[served].command \in Switch
                THEN pc' = "ask" /\ phase' = "switch" /\ UNCHANGED buffer
                ELSE pc' = "answer" /\ buffer' = NotOK /\ UNCHANGED phase
             /\ UNCHANGED <<at, row, served>>

ReadMessage ==
  /\ pc = "serve" /\ client[served].command # None
  /\ Interpret
  /\ UNCHANGED <<sockets, serial, waiting, client>>

(* Seeded fault: close is forgotten where the client has closed. *)
AfterHangup_Open == sockets

AfterHangup == sockets - 1

ReadHangup ==
  /\ pc = "serve" /\ client[served].command = None /\ client[served].state = "gone"
  /\ served' = None /\ sockets' = AfterHangup
  /\ NextRound
  /\ UNCHANGED <<buffer, serial, waiting, client>>

(* Seeded fault: the read has no timeout. *)
TimesOut_Never(c) == FALSE

(* The timeout of the listening socket (SO_RCVTIMEO) is handed on to the
   connections it accepts. *)
TimesOut(c) == client[c].command = None /\ client[c].state # "gone"

(* read returns -1: the connection stays open, and nobody reads it again. *)
ReadTimeout ==
  /\ pc = "serve" /\ TimesOut(served)
  /\ client' = [client EXCEPT ![served].left = TRUE]
  /\ served' = None
  /\ NextRound
  /\ UNCHANGED <<buffer, sockets, serial, waiting>>

Answer ==
  /\ pc = "answer"
  /\ client' = [client EXCEPT ![served] =
       IF @.state = "sent" THEN [@ EXCEPT !.state = "answered", !.reply = buffer] ELSE @]
  /\ served' = None /\ sockets' = sockets - 1
  /\ NextRound
  /\ UNCHANGED <<buffer, serial, waiting>>

-----------------------------------------------------------------------------
(* The clients *)

Connect(c) ==
  /\ client[c].state = "idle" /\ pc # "exit"
  /\ client' = [client EXCEPT ![c].state = "connected"]
  /\ waiting' = Append(waiting, c)
  /\ UNCHANGED <<program, serial>>

SendCommand(c) ==
  /\ client[c].state = "connected"
  /\ \E m \in Switch \cup {"other"} :
       client' = [client EXCEPT ![c].state = "sent", ![c].command = m]
  /\ UNCHANGED <<program, serial, waiting>>

(* A client is killed; what it has sent can still be read. *)
Vanish(c) ==
  /\ client[c].state \in {"connected", "sent"}
  /\ client' = [client EXCEPT ![c].state = "gone"]
  /\ UNCHANGED <<program, serial, waiting>>

(* The next client process, when the connection of the last one is closed *)
Restart(c) ==
  /\ \/ client[c].state = "answered"
     \/ /\ client[c].state = "gone" /\ ~ client[c].left
        /\ served # c /\ \A i \in DOMAIN waiting : waiting[i] # c
  /\ client' = [client EXCEPT ![c] = Idle]
  /\ UNCHANGED <<program, serial, waiting>>

-----------------------------------------------------------------------------
Program == \/ Settle \/ Ask \/ StartUp \/ Measure \/ SwitchHV
           \/ Accept \/ NotAccepted \/ ReadMessage \/ ReadHangup \/ ReadTimeout \/ Answer

Next == \/ Program \/ Transmit \/ Deliver \/ Unplug
        \/ \E c \in Clients : Connect(c) \/ SendCommand(c) \/ Vanish(c) \/ Restart(c)

(* The program waits for the line, for the timeouts of the socket and for
   nothing else; the device answers what it receives.  Nothing is asked of
   the clients. *)
Spec == Init /\ [][Next]_vars /\ WF_vars(Program) /\ WF_vars(Transmit) /\ WF_vars(Deliver)

-----------------------------------------------------------------------------
Left == {c \in Clients : client[c].left}

(* The connections that are open are the one that is served and those that
   were given up after a timeout: no other is ever lost. *)
TypeOK ==
  /\ pc \in {"settle", "ask", "read", "accept", "serve", "answer", "exit"}
  /\ phase \in {"start", "measure", "switch"}
  /\ sockets = Cardinality(Left) + (IF served = None THEN 0 ELSE 1)
  /\ sockets <= MaxSockets
  /\ served = None <=> pc \notin {"serve", "answer"} /\ phase # "switch"
  /\ Len(out) <= 1

(* Every value of the log stands in the column of its request, whatever the
   program sent before: at startup, where it does not sleep between requests,
   or for a client just now; or the device is gone and the log says so. *)
LogMatches ==
  \A i \in DOMAIN row : row[i] = Requests[i] \/ (row[i] = Zero /\ line = "gone")

(* A client gets the device's answer to its own command, never to another
   request; at worst it is the empty line behind the last measurement. *)
ReplyIsOwn ==
  \A c \in Clients : client[c].state = "answered" =>
    IF client[c].command \in Switch
    THEN \/ client[c].reply = client[c].command
         \/ client[c].reply = Empty /\ twoLines
         \/ client[c].reply = Zero /\ line = "gone"
    ELSE client[c].reply = NotOK

(* The line a request is answered with is the device's answer to that request,
   whoever made it: the measuring loop, whose answers are logged, or a client. *)
AnswersAreOwn == LogMatches /\ ReplyIsOwn

(* When a client gets its answer the device has done what the client asked,
   even if the line the client is sent was not the answer to that; unless the
   device is gone. *)
SwitchedWhenAnswered ==
  [][\A c \in Clients :
       /\ client[c].state = "sent" /\ client'[c].state = "answered"
       /\ client[c].command \in Switch
       => hv = client[c].command \/ line = "gone"]_vars

(* Rounds of measurements go on whatever the clients do, among them one that
   connects and says nothing. *)
MeasuringGoesOn == []<>(pc = "accept" \/ pc = "exit")

(* Whoever has sent a command before the program gave its connection up is
   answered, as long as the program can open connections at all. *)
EveryCommandAnswered ==
  \A c \in Clients :
    client[c].state = "sent" /\ ~ client[c].left
    ~> client[c].state # "sent" \/ pc = "exit" \/ Cardinality(Left) >= MaxSockets
=============================================================================
