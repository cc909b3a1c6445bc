-------------------------- MODULE OicServer_proofs --------------------------
(***************************************************************************)
(* Proofs about OicServer, for any clients, messages, backlog and number   *)
(* of descriptors.                                                         *)
(***************************************************************************)
EXTENDS OicServer, SequenceTheorems, TLAPS

Pending == {"connected", "sent", "gone"}

ClientState == [state   : Pending \cup {"idle", "answered"},
                message : Messages \cup {<<>>},
                got     : Got,
                answer  : {NoAnswer} \cup UNION {Responses(m) : m \in Got}]

(* Who waits has not been answered, and waits once. *)
Queued ==
  /\ waiting \in Seq(Clients) /\ Len(waiting) <= Backlog
  /\ \A i, j \in 1 .. Len(waiting) : waiting[i] = waiting[j] => i = j
  /\ \A i \in 1 .. Len(waiting) : client[waiting[i]].state \in Pending

(* Who is served has not been answered either, and waits no more; what was
   read is his. *)
InService ==
  server \in {"read", "answer"} =>
    /\ served \in Clients /\ client[served].state \in Pending
    /\ \A i \in 1 .. Len(waiting) : waiting[i] # served
    /\ server = "answer" => buffer = client[served].got

(* A client that is answered has an answer to what was read from him. *)
AnswersOwn == \A c \in Clients : client[c].state = "answered" => client[c].answer \in Responses(client[c].got)

(* The loop has ended because of what the last message printed. *)
EndsByMessage == server = "stopped" => buffer \in Readings /\ serial = StopDone /\ serial \in Printed[buffer]

Typed ==
  /\ server \in {"accept", "read", "answer", "stopped", "failed", "crashed"}
  /\ served \in Clients \cup {NoClient} /\ sockets \in 0 .. MaxSockets
  /\ client \in [Clients -> ClientState]

ServerInv == Typed /\ Queued /\ InService /\ AnswersOwn /\ EndsByMessage

-----------------------------------------------------------------------------
(* Two clients are different from the one served, or from each other: what
   changes of one leaves the others. *)
LEMMA ClientChanged ==
  ASSUME client \in [Clients -> ClientState], NEW c \in Clients, NEW r \in ClientState,
         client' = [client EXCEPT ![c] = r]
  PROVE  /\ client' \in [Clients -> ClientState] /\ client'[c] = r
         /\ \A d \in Clients : d # c => client'[d] = client[d]
  OBVIOUS

(* The next states of a client *)
LEMMA WithState ==
  ASSUME NEW r \in ClientState, NEW s \in Pending \cup {"idle", "answered"}
  PROVE  /\ [r EXCEPT !.state = s] \in ClientState /\ [r EXCEPT !.state = s].state = s
         /\ [r EXCEPT !.state = s].got = r.got
  BY DEF ClientState

(* Nobody waits, nobody is served. *)
LEMMA ServerInit == Init => ServerInv
  <1> SUFFICES ASSUME Init PROVE ServerInv
    OBVIOUS
  <1>1. /\ server = "accept" /\ waiting = <<>> /\ served = NoClient /\ sockets = 0
        /\ client = [c \in Clients |-> Idle]
    BY DEF Init
  <1>2. Idle \in ClientState /\ Idle.state = "idle"
    BY DEF Idle, ClientState, Got
  <1>3. Typed
    BY <1>1, <1>2, ServerAssumption DEF Typed
  <1>4. Queued
    BY <1>1, ServerAssumption DEF Queued
  <1>5. InService /\ EndsByMessage
    BY <1>1 DEF InService, EndsByMessage
  <1>6. AnswersOwn
    BY <1>1, <1>2 DEF AnswersOwn
  <1> QED BY <1>3, <1>4, <1>5, <1>6 DEF ServerInv

(* Tail, one element shorter *)
LEMMA TailShorter ==
  ASSUME NEW S, NEW q \in Seq(S), q # <<>>
  PROVE  /\ Len(q) \in Nat \ {0} /\ Tail(q) \in Seq(S) /\ Len(Tail(q)) = Len(q) - 1
         /\ \A i \in 1 .. Len(q) - 1 : Tail(q)[i] = q[i + 1]
         /\ Head(q) = q[1] /\ Head(q) \in S
  OBVIOUS

(* accept takes the first of those who wait. *)
LEMMA AcceptInv ==
  ASSUME ServerInv, Accept
  PROVE  ServerInv'
  <1>1. /\ server = "accept" /\ waiting # <<>> /\ sockets < MaxSockets
        /\ served' = Head(waiting) /\ waiting' = Tail(waiting) /\ sockets' = sockets + 1
        /\ server' = "read" /\ buffer' = buffer /\ serial' = serial /\ client' = client
    BY DEF Accept
  <1>2. Typed /\ Queued /\ AnswersOwn
    BY DEF ServerInv
  <1> DEFINE n == Len(waiting)
  <1>3. /\ waiting \in Seq(Clients) /\ n \in Nat \ {0} /\ waiting' \in Seq(Clients) /\ Len(waiting') = n - 1
        /\ \A i \in 1 .. n - 1 : waiting'[i] = waiting[i + 1]
        /\ served' = waiting[1] /\ served' \in Clients
    BY <1>1, <1>2, TailShorter DEF Queued
  <1>4. Typed'
    BY <1>1, <1>2, <1>3, ServerAssumption DEF Typed
  <1>5. \A i \in 1 .. n - 1 : i + 1 \in 1 .. n /\ i + 1 # 1
    BY <1>3
  <1>6. 1 \in 1 .. n
    BY <1>3
  <1>7. Queued'
    <2>1. Len(waiting') <= Backlog
      BY <1>2, <1>3, ServerAssumption DEF Queued
    <2>2. ASSUME NEW i \in 1 .. n - 1, NEW j \in 1 .. n - 1, waiting'[i] = waiting'[j] PROVE i = j
      <3>1. i + 1 = j + 1
        BY <1>2, <1>3, <1>5, <2>2 DEF Queued
      <3> QED BY <3>1
    <2>3. \A i \in 1 .. n - 1 : client'[waiting'[i]].state \in Pending
      BY <1>1, <1>2, <1>3, <1>5 DEF Queued
    <2> QED BY <1>3, <2>1, <2>2, <2>3 DEF Queued
  <1>8. InService'
    <2>1. client'[served'].state \in Pending
      BY <1>1, <1>2, <1>3, <1>6 DEF Queued
    <2>2. ASSUME NEW i \in 1 .. n - 1 PROVE waiting'[i] # served'
      BY <1>2, <1>3, <1>5, <1>6 DEF Queued
    <2> QED BY <1>1, <1>3, <2>1, <2>2 DEF InService
  <1>9. AnswersOwn' /\ EndsByMessage'
    BY <1>1, <1>2 DEF AnswersOwn, EndsByMessage
  <1> QED BY <1>4, <1>7, <1>8, <1>9 DEF ServerInv

(* Without a descriptor the loop ends, and nothing else changes. *)
LEMMA AcceptFailsInv ==
  ASSUME ServerInv, AcceptFails
  PROVE  ServerInv'
  BY DEF AcceptFails, ServerInv, Typed, Queued, InService, AnswersOwn, EndsByMessage

(* The server changes the state of the client it serves and of no other. *)
LEMMA OthersWait ==
  ASSUME Queued, InService, server \in {"read", "answer"}, UNCHANGED waiting,
         \A d \in Clients : d # served => client'[d] = client[d]
  PROVE  Queued'
  <1>1. \A i \in 1 .. Len(waiting) : waiting[i] \in Clients /\ waiting[i] # served
    BY DEF Queued, InService
  <1> QED BY <1>1 DEF Queued

(* What a read returns of a message is one of the readings. *)
LEMMA ReadingOf ==
  ASSUME NEW m \in Messages \cup {<<>>}, NEW n \in 0 .. Len(m), n = 0 <=> m = <<>>
  PROVE  SubSeq(m, 1, n) \in Got
  <1>1. CASE m = <<>>
    <2>1. SubSeq(m, 1, n) = <<>>
      BY <1>1
    <2> QED BY <2>1 DEF Got
  <1>2. CASE m # <<>>
    <2>1. m \in Messages /\ n # 0
      BY <1>2
    <2>2. m \in Seq(STRING)
      BY <2>1, ServerAssumption
    <2>3. n \in 1 .. Len(m)
      BY <2>1, <2>2
    <2> QED BY <2>1, <2>3 DEF Readings, Got
  <1> QED BY <1>1, <1>2

(* read gives the served client's message or a part of it. *)
LEMMA ReadInv ==
  ASSUME ServerInv, Read
  PROVE  ServerInv'
  <1>1. PICK n \in 0 .. Len(client[served].message) :
          /\ n = 0 <=> client[served].message = <<>>
          /\ buffer' = SubSeq(client[served].message, 1, n)
          /\ client' = [client EXCEPT ![served].got = buffer']
    BY DEF Read
  <1>2. /\ server = "read" /\ server' = "answer" /\ waiting' = waiting /\ served' = served
        /\ serial' = serial /\ sockets' = sockets
    BY DEF Read
  <1>3. /\ Typed /\ Queued /\ InService /\ AnswersOwn /\ served \in Clients /\ client[served] \in ClientState
        /\ client[served].state \in Pending /\ client \in [Clients -> ClientState]
    BY <1>2 DEF ServerInv, InService, Typed
  <1> DEFINE r == [client[served] EXCEPT !.got = buffer']
  <1>4. buffer' \in Got
    <2>1. client[served].message \in Messages \cup {<<>>}
      BY <1>3 DEF ClientState
    <2> QED BY <1>1, <2>1, ReadingOf
  <1>5. r \in ClientState /\ r.got = buffer' /\ r.state = client[served].state
    BY <1>3, <1>4 DEF ClientState
  <1>6. client' = [client EXCEPT ![served] = r]
    BY <1>1
  <1> HIDE DEF r
  <1>7. /\ client' \in [Clients -> ClientState] /\ client'[served] = r
        /\ \A d \in Clients : d # served => client'[d] = client[d]
    BY <1>3, <1>5, <1>6, ClientChanged
  <1>8. Typed'
    BY <1>2, <1>3, <1>7 DEF Typed
  <1>9. Queued'
    BY <1>2, <1>3, <1>7, OthersWait
  <1>10. InService'
    BY <1>2, <1>3, <1>5, <1>7 DEF InService
  <1>11. AnswersOwn'
    <2>1. r.state # "answered"
      BY <1>3, <1>5 DEF Pending
    <2> QED BY <1>3, <1>7, <2>1 DEF AnswersOwn
  <1>12. EndsByMessage'
    BY <1>2 DEF EndsByMessage
  <1> QED BY <1>8, <1>9, <1>10, <1>11, <1>12 DEF ServerInv

(* An answer goes to the client that is served, if it is a response to what
   was read from it. *)
LEMMA SendInv ==
  ASSUME ServerInv, server = "answer", NEW resp \in Responses(buffer), Send(resp),
         UNCHANGED <<waiting, served, buffer, sockets>>,
         server' \in {"accept", "stopped"}, EndsByMessage'
  PROVE  ServerInv'
  <1>1. /\ Typed /\ Queued /\ InService /\ AnswersOwn /\ served \in Clients /\ client[served] \in ClientState
        /\ client[served].state \in Pending /\ client \in [Clients -> ClientState]
        /\ buffer = client[served].got
    BY DEF ServerInv, InService, Typed
  <1> DEFINE was == client[served]
             r == IF was.state = "sent" THEN [was EXCEPT !.state = "answered", !.answer = resp] ELSE was
  <1>2. client' = [client EXCEPT ![served] = r]
    BY DEF Send
  <1>3. /\ r \in ClientState /\ r.got = buffer
        /\ r.state = "answered" => r.answer \in Responses(r.got)
    <2>1. buffer \in Got
      BY <1>1 DEF ClientState
    <2>2. resp \in {NoAnswer} \cup UNION {Responses(m) : m \in Got}
      BY <2>1
    <2>3. CASE was.state = "sent"
      BY <1>1, <2>2, <2>3 DEF ClientState
    <2>4. CASE was.state # "sent"
      BY <1>1, <2>4 DEF Pending
    <2> QED BY <2>3, <2>4
  <1> HIDE DEF r, was
  <1>4. /\ client' \in [Clients -> ClientState] /\ client'[served] = r
        /\ \A d \in Clients : d # served => client'[d] = client[d]
    BY <1>1, <1>2, <1>3, ClientChanged
  <1>5. Typed'
    BY <1>1, <1>4 DEF Typed
  <1>6. Queued'
    BY <1>1, <1>4, OthersWait
  <1>7. InService'
    BY DEF InService
  <1>8. AnswersOwn'
    BY <1>1, <1>3, <1>4 DEF AnswersOwn
  <1> QED BY <1>5, <1>6, <1>7, <1>8 DEF ServerInv

(* The command prints, and its client is told what it printed. *)
LEMMA AnswerInv ==
  ASSUME ServerInv, Answer
  PROVE  ServerInv'
  <1>1. /\ server = "answer" /\ buffer # <<>>
        /\ waiting' = waiting /\ served' = served /\ buffer' = buffer /\ sockets' = sockets
    BY DEF Answer
  <1>2. PICK printed \in scpi_execute_command(serial, buffer) :
          /\ serial' = printed
          /\ IF printed = <<"crash">>
             THEN server' = "crashed" /\ UNCHANGED client
             ELSE /\ server' = AfterAnswer(printed)
                  /\ Send(IF printed = <<>> THEN WrongCommand ELSE printed)
    BY DEF Answer
  <1>3. printed \in Printed[buffer] /\ buffer \in Readings
    <2>1. buffer \in Got
      BY <1>1 DEF ServerInv, InService, Typed, ClientState
    <2> QED BY <1>1, <1>2, <2>1 DEF scpi_execute_command, Got
  <1>4. CASE printed = <<"crash">>
    BY <1>1, <1>2, <1>4 DEF ServerInv, Typed, Queued, InService, AnswersOwn, EndsByMessage
  <1>5. CASE printed # <<"crash">>
    <2> DEFINE resp == IF printed = <<>> THEN WrongCommand ELSE printed
    <2>1. resp \in Responses(buffer)
      BY <1>1, <1>3, <1>5 DEF Responses
    <2>2. server' = AfterAnswer(printed) /\ Send(resp)
      BY <1>2, <1>5
    <2>3. server' \in {"accept", "stopped"} /\ (server' = "stopped" => printed = StopDone)
      BY <2>2 DEF AfterAnswer, Stops
    <2>4. EndsByMessage'
      BY <1>1, <1>2, <1>3, <2>3 DEF EndsByMessage
    <2> HIDE DEF resp
    <2> QED BY <1>1, <2>1, <2>2, <2>3, <2>4, SendInv
  <1> QED BY <1>4, <1>5

(* The connection ended without a message. *)
LEMMA AnswerEmptyInv ==
  ASSUME ServerInv, AnswerEmpty
  PROVE  ServerInv'
  <1>1. /\ server = "answer" /\ buffer = <<>> /\ Send(EmptyMessage) /\ server' = "accept"
        /\ waiting' = waiting /\ served' = served /\ buffer' = buffer /\ sockets' = sockets
    BY DEF AnswerEmpty
  <1>2. EmptyMessage \in Responses(buffer)
    BY <1>1 DEF Responses
  <1>3. EndsByMessage'
    BY <1>1 DEF EndsByMessage
  <1> QED BY <1>1, <1>2, <1>3, SendInv

(* A client goes on by itself: from idle or answered nobody waits for it,
   and it is not served; from the other states it stays pending. *)
LEMMA ClientStep ==
  ASSUME ServerInv, NEW c \in Clients, NEW r \in ClientState,
         client' = [client EXCEPT ![c] = r],
         UNCHANGED <<server, waiting, served, buffer, serial, sockets>>,
         r.got = client[c].got \/ client[c].state \notin Pending,
         r.state \in Pending \/ client[c].state \notin Pending,
         r.state # "answered"
  PROVE  ServerInv'
  <1>1. Typed /\ Queued /\ InService /\ AnswersOwn /\ EndsByMessage /\ client \in [Clients -> ClientState]
    BY DEF ServerInv, Typed
  <1>2. /\ client' \in [Clients -> ClientState] /\ client'[c] = r
        /\ \A d \in Clients : d # c => client'[d] = client[d]
    BY <1>1, ClientChanged
  <1>3. \A d \in Clients : client[d].state \in Pending => client'[d].state \in Pending /\ client'[d].got = client[d].got
    BY <1>2
  <1>4. Typed' /\ EndsByMessage'
    BY <1>1, <1>2 DEF Typed, EndsByMessage
  <1>5. Queued'
    <2>1. \A i \in 1 .. Len(waiting) : waiting[i] \in Clients
      BY <1>1 DEF Queued
    <2> QED BY <1>1, <1>3, <2>1 DEF Queued
  <1>6. InService'
    BY <1>1, <1>3 DEF InService
  <1>7. AnswersOwn'
    BY <1>1, <1>2 DEF AnswersOwn
  <1> QED BY <1>4, <1>5, <1>6, <1>7 DEF ServerInv

(* A client that connects was not waiting, and was not served. *)
LEMMA ConnectInv ==
  ASSUME ServerInv, NEW c \in Clients, Connect(c)
  PROVE  ServerInv'
  <1>1. /\ client[c].state = "idle" /\ Len(waiting) < Backlog /\ waiting' = Append(waiting, c)
        /\ client' = [client EXCEPT ![c].state = "connected"]
        /\ server' = server /\ served' = served /\ buffer' = buffer /\ serial' = serial /\ sockets' = sockets
    BY DEF Connect
  <1> DEFINE r == [client[c] EXCEPT !.state = "connected"]
             n == Len(waiting)
  <1>2. Typed /\ Queued /\ InService /\ AnswersOwn /\ EndsByMessage /\ client \in [Clients -> ClientState]
    BY DEF ServerInv, Typed
  <1>3. r \in ClientState /\ r.state = "connected"
    BY <1>2, WithState DEF Pending
  <1>4. client' = [client EXCEPT ![c] = r]
    BY <1>1
  <1> HIDE DEF r
  <1>5. /\ client' \in [Clients -> ClientState] /\ client'[c] = r
        /\ \A d \in Clients : d # c => client'[d] = client[d]
    BY <1>2, <1>3, <1>4, ClientChanged
  <1>6. /\ waiting \in Seq(Clients) /\ n \in Nat /\ waiting' \in Seq(Clients) /\ Len(waiting') = n + 1
        /\ (\A i \in 1 .. n : waiting'[i] = waiting[i] /\ waiting[i] \in Clients) /\ waiting'[n + 1] = c
    BY <1>1, <1>2 DEF Queued
  <1>7. \A i \in 1 .. n : waiting[i] # c
    BY <1>1, <1>2 DEF Queued, Pending
  <1>8. \A i \in 1 .. n + 1 : i \in 1 .. n \/ i = n + 1
    BY <1>6
  <1>9. Typed' /\ EndsByMessage'
    BY <1>1, <1>2, <1>5 DEF Typed, EndsByMessage
  <1>10. Queued'
    <2>1. Len(waiting') <= Backlog
      BY <1>1, <1>6, ServerAssumption
    <2>2. \A i, j \in 1 .. n + 1 : waiting'[i] = waiting'[j] => i = j
      BY <1>2, <1>6, <1>7, <1>8 DEF Queued
    <2>3. \A i \in 1 .. n + 1 : client'[waiting'[i]].state \in Pending
      BY <1>2, <1>3, <1>5, <1>6, <1>7, <1>8 DEF Queued, Pending
    <2> QED BY <1>6, <2>1, <2>2, <2>3 DEF Queued
  <1>11. InService'
    <2>1. ASSUME server \in {"read", "answer"}
          PROVE  /\ served \in Clients /\ served # c /\ client'[served] = client[served]
                 /\ \A i \in 1 .. n + 1 : waiting'[i] # served
      <3>1. served \in Clients /\ served # c
        BY <1>1, <1>2, <2>1 DEF InService, Pending
      <3> QED BY <1>2, <1>5, <1>6, <1>8, <2>1, <3>1 DEF InService
    <2> QED BY <1>1, <1>2, <1>6, <2>1 DEF InService
  <1>12. AnswersOwn'
    BY <1>2, <1>3, <1>5 DEF AnswersOwn
  <1> QED BY <1>9, <1>10, <1>11, <1>12 DEF ServerInv

(* Every step of a client *)
LEMMA ClientInv ==
  ASSUME ServerInv, NEW c \in Clients, Client(c)
  PROVE  ServerInv'
  <1>1. client \in [Clients -> ClientState] /\ client[c] \in ClientState
    BY DEF ServerInv, Typed
  <1>2. CASE Connect(c)
    BY <1>2, ConnectInv
  <1>3. CASE SendMessage(c)
    <2>1. PICK m \in Messages : client' = [client EXCEPT ![c].state = "sent", ![c].message = m]
      BY <1>3 DEF SendMessage
    <2> DEFINE r == [client[c] EXCEPT !.state = "sent", !.message = m]
    <2>2. client' = [client EXCEPT ![c] = r]
      BY <1>1, <2>1
    <2>3. r \in ClientState /\ r.state = "sent" /\ r.got = client[c].got
      BY <1>1 DEF ClientState, Pending
    <2>4. UNCHANGED <<server, waiting, served, buffer, serial, sockets>>
      BY <1>3 DEF SendMessage
    <2> HIDE DEF r
    <2> QED BY <2>2, <2>3, <2>4, ClientStep DEF Pending
  <1>4. ASSUME Vanish(c) \/ GiveUp(c) PROVE ServerInv'
    <2> DEFINE r == [client[c] EXCEPT !.state = "gone"]
    <2>1. /\ client' = [client EXCEPT ![c].state = "gone"]
          /\ UNCHANGED <<server, waiting, served, buffer, serial, sockets>>
      BY <1>4 DEF Vanish, GiveUp
    <2>2. client' = [client EXCEPT ![c] = r]
      BY <1>1, <2>1
    <2>3. r \in ClientState /\ r.state = "gone" /\ r.got = client[c].got
      BY <1>1, WithState DEF Pending
    <2> HIDE DEF r
    <2> QED BY <2>1, <2>2, <2>3, ClientStep DEF Pending
  <1>5. CASE Close(c)
    <2>1. /\ client[c].state = "answered" /\ client' = [client EXCEPT ![c] = Idle]
          /\ UNCHANGED <<server, waiting, served, buffer, serial, sockets>>
      BY <1>5 DEF Close
    <2>2. Idle \in ClientState /\ Idle.state = "idle"
      BY DEF Idle, ClientState, Got
    <2> QED BY <2>1, <2>2, ClientStep DEF Pending
  <1> QED BY <1>2, <1>3, <1>4, <1>5 DEF Client

(* Every step of the server and of the clients keeps the invariant. *)
LEMMA ServerStep == ServerInv /\ [Next]_vars => ServerInv'
  <1> SUFFICES ASSUME ServerInv, [Next]_vars PROVE ServerInv'
    OBVIOUS
  <1>1. CASE Accept
    BY <1>1, AcceptInv
  <1>2. CASE AcceptFails
    BY <1>2, AcceptFailsInv
  <1>3. CASE Read
    BY <1>3, ReadInv
  <1>4. CASE Answer
    BY <1>4, AnswerInv
  <1>5. CASE AnswerEmpty
    BY <1>5, AnswerEmptyInv
  <1>6. ASSUME NEW c \in Clients, Client(c) PROVE ServerInv'
    BY <1>6, ClientInv
  <1>7. CASE UNCHANGED vars
    BY <1>7 DEF vars, ServerInv, Typed, Queued, InService, AnswersOwn, EndsByMessage
  <1> QED BY <1>1, <1>2, <1>3, <1>4, <1>5, <1>6, <1>7 DEF Next, Server

-----------------------------------------------------------------------------
(* What the invariant says *)

(* Who waits or is served has not been answered, and waits once. *)
LEMMA ServerTypes == ServerInv => TypeOK
  BY DEF ServerInv, Typed, Queued, InService, TypeOK, ClientState, Pending

(* With one response to each message, alike messages have alike answers. *)
LEMMA ServerStateless ==
  ASSUME Determined
  PROVE  ServerInv => AnswersAreStateless
  <1> SUFFICES ASSUME ServerInv, NEW c \in Clients, NEW d \in Clients,
                      client[c].state = "answered", client[d].state = "answered",
                      client[c].got = client[d].got
               PROVE  client[c].answer = client[d].answer
    BY DEF AnswersAreStateless
  <1>1. client[c].answer \in Responses(client[c].got) /\ client[d].answer \in Responses(client[c].got)
    BY DEF ServerInv, AnswersOwn
  <1>2. client[c].got \in Got
    BY DEF ServerInv, Typed, ClientState
  <1> QED BY <1>1, <1>2 DEF Determined

(* The kernel's view of the connections and the loop's agree: a client that
   waits or is served waits once and has not been answered, for any clients,
   messages, backlog and number of descriptors. *)
THEOREM OicServerTypeOK == Spec => []TypeOK
  BY ServerInit, ServerStep, ServerTypes, PTL DEF Spec

(* What a client is told is an answer to what was read from that client:
   neither the buffer nor the string that all commands print into carries
   anything over from one client to the next. *)
THEOREM OicServerAnswersOwn == Spec => []AnswersOwn
  <1>1. ServerInv => AnswersOwn
    BY DEF ServerInv
  <1> QED BY <1>1, ServerInit, ServerStep, PTL DEF Spec

(* If every message has one response, clients whose messages were read alike
   get the same answer, whatever the server did in between. *)
THEOREM OicServerStateless ==
  ASSUME Determined
  PROVE  Spec => []AnswersAreStateless
  <1>1. ServerInv => AnswersAreStateless
    BY ServerStateless
  <1> QED BY <1>1, ServerInit, ServerStep, PTL DEF Spec

(* The loop ends only because of what the message it read last printed. *)
THEOREM OicServerEndsByMessage == Spec => []EndsByMessage
  <1>1. ServerInv => EndsByMessage
    BY DEF ServerInv
  <1> QED BY <1>1, ServerInit, ServerStep, PTL DEF Spec

(* If the command tree answers each message as promised when it is the first,
   every client whose message was read as a whole is answered as promised, after
   any messages of any clients. *)
THEOREM OicServerAnswersAsPromised ==
  ASSUME Determined, KeepsPromise
  PROVE  Spec => []AnswersAsPromised
  <1>1. ServerInv => AnswersAsPromised
    <2> SUFFICES ASSUME ServerInv PROVE AnswersAsPromised
      OBVIOUS
    <2>1. ASSUME NEW c \in Clients, client[c].state = "answered", client[c].got \in DOMAIN Promise
          PROVE  client[c].answer = <<Promise[client[c].got]>>
      <3>1. client[c].answer \in Responses(client[c].got)
        BY <2>1 DEF ServerInv, AnswersOwn
      <3>2. client[c].got \in Got \cap DOMAIN Promise
        BY <2>1 DEF ServerInv, Typed, ClientState
      <3> QED BY <3>1, <3>2 DEF KeepsPromise
    <2> QED BY <2>1, ServerStateless DEF AnswersAsPromised
  <1> QED BY <1>1, ServerInit, ServerStep, PTL DEF Spec

(* If no message but *STOP prints what ends the loop, the loop ends only when
   that is the message that was read last, whatever was printed before it. *)
THEOREM OicServerStoppedOnRequest ==
  ASSUME OnlyStopStops
  PROVE  Spec => []StoppedOnRequest
  <1>1. ServerInv => StoppedOnRequest
    BY DEF ServerInv, EndsByMessage, OnlyStopStops, StoppedOnRequest
  <1> QED BY <1>1, ServerInit, ServerStep, PTL DEF Spec
=============================================================================
