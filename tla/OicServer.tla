------------------------------ MODULE OicServer ------------------------------
(***************************************************************************)
(* scpi_server and its clients: the loop of scpi_server.cpp, one connection *)
(* at a time, one read, one command and one answer for each, and clients    *)
(* that connect, send one message, wait for the answer and close, as        *)
(* scpi_client.cpp does over and over.                                      *)
(*                                                                         *)
(* The network is TCP: connections wait in the order they were made, and a  *)
(* read returns any non-empty beginning of what the client has sent, or     *)
(* nothing at all once the client is gone.                                  *)
(***************************************************************************)
EXTENDS OicParser, FiniteSets

CONSTANTS Clients,     \* the programs that connect to the server
          Messages,    \* what they send
          Backlog,     \* connections the kernel keeps waiting: listen(.., 3)
          MaxSockets,  \* connections the process may hold (RLIMIT_NOFILE)
          Promise      \* Promise[m]: what the comments on the command tree
                       \* say is answered to m

ASSUME ServerAssumption == /\ Messages \subseteq Seq(STRING) \ {<<>>}
                           /\ Backlog \in Nat \ {0}
                           /\ MaxSockets \in Nat

VARIABLES server,   \* where the loop is, or how the process ended
          waiting,  \* connected clients that are not accepted yet, in order
          served,   \* the client of new_socket
          buffer,   \* the message read from it
          serial,   \* the string class Serial prints into, piece by piece
          sockets,  \* open connections: none is ever closed
          client    \* client[c]: the state of c, its message, the part of the
                    \* message that was read, and the answer c received
vars == <<server, waiting, served, buffer, serial, sockets, client>>

NoClient == "no client"
NoAnswer == <<"no answer">>
WrongCommand == <<"wrong SCPI cmd">>
EmptyMessage == <<"message is zerro">>
StopDone == <<"STOP done">>

Idle == [state |-> "idle", message |-> <<>>, got |-> <<>>, answer |-> NoAnswer]

Init == /\ server = "accept" /\ waiting = <<>> /\ served = NoClient
        /\ buffer = <<>> /\ serial = <<>> /\ sockets = 0
        /\ client = [c \in Clients |-> Idle]

Up == server \notin {"stopped", "failed", "crashed"}

-----------------------------------------------------------------------------
(* The server *)

(* listen, accept: fails when the process has no descriptor left *)
Accept ==
  /\ server = "accept" /\ waiting # <<>> /\ sockets < MaxSockets
  /\ served' = Head(waiting) /\ waiting' = Tail(waiting)
  /\ sockets' = sockets + 1
  /\ server' = "read"
  /\ UNCHANGED <<buffer, serial, client>>

AcceptFails ==
  /\ server = "accept" /\ sockets >= MaxSockets
  /\ server' = "failed"
  /\ UNCHANGED <<waiting, served, buffer, serial, sockets, client>>

(* Seeded fault: only data ends the wait, the end of the connection does not. *)
Readable_DataOnly(c) == client[c].state = "sent"

(* read returns once there is data, or the client has closed *)
Readable(c) == client[c].state \in {"sent", "gone"}

Read ==
  /\ server = "read" /\ Readable(served)
  /\ \E n \in 0 .. Len(client[served].message) :
       /\ n = 0 <=> client[served].message = <<>>
       /\ buffer' = SubSeq(client[served].message, 1, n)
       /\ client' = [client EXCEPT ![served].got = buffer']
  /\ server' = "answer"
  /\ UNCHANGED <<waiting, served, serial, sockets>>

(* Every message that a read may return *)
Readings == UNION {{SubSeq(m, 1, n) : n \in 1 .. Len(m)} : m \in Messages}

(* What each of them makes the parser print: one without a command, or whose
   command has no callback, prints nothing. *)
Printed ==
  [str \in Readings |->
     LET n == scpi_find_command(scpi_setup, str)
     IN  IF n = 0 THEN {<<>>}
         ELSE IF scpi_setup[n].callback = NoCallback THEN {<<>>}
         ELSE {<<s>> : s \in Prints(scpi_setup, n, str)}]

(* Seeded fault: what the previous command printed is still there. *)
scpi_execute_command_NoClr(printed, str) == {printed \o p : p \in Printed[str]}

(* scpi_execute_command clears Serial first. *)
scpi_execute_command(printed, str) == Printed[str]

(* Seeded fault: any answer to a common command stops the loop. *)
Stops_Common(printed) == printed # <<>> /\ buffer[1] = "*"

Stops(printed) == printed = StopDone

(* Seeded fault: the next message is read from the same connection. *)
AfterAnswer_SameSocket(printed) == IF Stops(printed) THEN "stopped" ELSE "read"

AfterAnswer(printed) == IF Stops(printed) THEN "stopped" ELSE "accept"

(* The answer goes to the client if it is still there. *)
Send(resp) ==
  client' = [client EXCEPT ![served] =
    IF @.state = "sent" THEN [@ EXCEPT !.state = "answered", !.answer = resp] ELSE @]

Answer ==
  /\ server = "answer" /\ buffer # <<>>
  /\ \E printed \in scpi_execute_command(serial, buffer) :
       /\ serial' = printed
       /\ IF printed = <<"crash">>
          THEN server' = "crashed" /\ UNCHANGED client
          ELSE /\ server' = AfterAnswer(printed)
               /\ Send(IF printed = <<>> THEN WrongCommand ELSE printed)
  /\ UNCHANGED <<waiting, served, buffer, sockets>>

AnswerEmpty ==
  /\ server = "answer" /\ buffer = <<>>
  /\ Send(EmptyMessage)
  /\ server' = "accept"
  /\ UNCHANGED <<waiting, served, buffer, serial, sockets>>

-----------------------------------------------------------------------------
(* The clients *)

Connect(c) ==
  /\ client[c].state = "idle" /\ Up /\ Len(waiting) < Backlog
  /\ waiting' = Append(waiting, c)
  /\ client' = [client EXCEPT ![c].state = "connected"]
  /\ UNCHANGED <<server, served, buffer, serial, sockets>>

SendMessage(c) ==
  /\ client[c].state = "connected"
  /\ \E m \in Messages :
       client' = [client EXCEPT ![c].state = "sent", ![c].message = m]
  /\ UNCHANGED <<server, waiting, served, buffer, serial, sockets>>

(* A client is killed; what it had sent can still be read. *)
Vanish(c) ==
  /\ client[c].state \in {"connected", "sent"}
  /\ client' = [client EXCEPT ![c].state = "gone"]
  /\ UNCHANGED <<server, waiting, served, buffer, serial, sockets>>

(* read returned the answer, close, and the next turn of the loop *)
Close(c) ==
  /\ client[c].state = "answered"
  /\ client' = [client EXCEPT ![c] = Idle]
  /\ UNCHANGED <<server, waiting, served, buffer, serial, sockets>>

(* The process has ended: connect is refused, read returns nothing. *)
GiveUp(c) ==
  /\ ~Up /\ client[c].state \in {"idle", "connected", "sent"}
  /\ client' = [client EXCEPT ![c].state = "gone"]
  /\ UNCHANGED <<server, waiting, served, buffer, serial, sockets>>

-----------------------------------------------------------------------------
Server == Accept \/ AcceptFails \/ Read \/ Answer \/ AnswerEmpty
Client(c) == Connect(c) \/ SendMessage(c) \/ Vanish(c) \/ Close(c) \/ GiveUp(c)

Next == Server \/ \E c \in Clients : Client(c)

(* The server does not pause, and a client that has connected sends its
   message at once, unless it is killed: neither waits for anything else. *)
Fairness == WF_vars(Server) /\ \A c \in Clients : WF_vars(SendMessage(c))

Spec == Init /\ [][Next]_vars /\ Fairness

-----------------------------------------------------------------------------
(* The kernel's view and the loop's agree: a client is waiting, served or
   neither, and is waiting at most once; a client whose connection is not
   accepted has not been answered. *)
TypeOK ==
  /\ server \in {"accept", "read", "answer", "stopped", "failed", "crashed"}
  /\ served \in Clients \cup {NoClient} /\ sockets \in 0 .. MaxSockets
  /\ Len(waiting) <= Backlog /\ \A i \in DOMAIN waiting : waiting[i] \in Clients
  /\ \A i, j \in DOMAIN waiting : waiting[i] = waiting[j] => i = j
  /\ server \in {"read", "answer"} => \A i \in DOMAIN waiting : waiting[i] # served
  /\ \A c \in Clients : client[c].state \in {"idle", "connected", "sent", "answered", "gone"}
  /\ \A i \in DOMAIN waiting : client[waiting[i]].state # "answered"

(* What a command prints does not depend on the commands before it: two
   clients whose messages were read alike get the same answer, whatever the
   server did in between.  (All commands print into one string, class Serial;
   buffer and resp are shared by all connections too.) *)
AnswersAreStateless ==
  \A c, d \in Clients :
    /\ client[c].state = "answered" /\ client[d].state = "answered"
    /\ client[c].got = client[d].got
    => client[c].answer = client[d].answer

(* The comments on the command tree (env_scpiparser.cpp:69-82): a message that
   was read as a whole gets the answer promised there, and one that was read in
   part the same answer whenever that part is read, whichever messages, or
   parts of messages, the server executed before it. *)
AnswersAsPromised ==
  /\ AnswersAreStateless
  /\ \A c \in Clients :
       client[c].state = "answered" /\ client[c].got \in DOMAIN Promise
       => client[c].answer = <<Promise[client[c].got]>>

(* What a read may give, and what the server may answer to it when it has done
   nothing before *)
Got == Readings \cup {<<>>}

Responses(m) ==
  IF m = <<>> THEN {EmptyMessage}
  ELSE {IF p = <<>> THEN WrongCommand ELSE p : p \in Printed[m] \ {<<"crash">>}}

(* What the command tree and its callbacks must do by themselves for this: each
   message has one response, and it is the one promised. *)
Determined == \A m \in Got : \A p, q \in Responses(m) : p = q

KeepsPromise == \A m \in Got \cap DOMAIN Promise : Responses(m) \subseteq {<<Promise[m]>>}

(* The loop ends on request only: the server has stopped after it read *STOP
   (or "*ST", a beginning of it that is registered as its short form), never
   because of what another message, or an earlier one, printed. *)
StoppedOnRequest ==
  server = "stopped" => /\ IsPrefix(buffer, <<"*", "ST", "OP">>)
                        /\ serial = StopDone

(* What the tree must do for that: no message but *STOP and the beginnings of
   it print STOP done. *)
OnlyStopStops ==
  \A m \in Readings : StopDone \in Printed[m] => IsPrefix(m, <<"*", "ST", "OP">>)

(* Every client that has sent its message is answered, or sees the server
   end, or does not live to see either; no other client can keep the server
   from it, not one that connects and dies without a word. *)
EveryoneAnswered ==
  \A c \in Clients : client[c].state = "sent" ~> client[c].state # "sent" \/ ~Up

(* README.md:22: the server listens, interprets the commands and responds:
   it goes on until it is told to stop. *)
KeepsListening == server # "failed"
==============================================================================
