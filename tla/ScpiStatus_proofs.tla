------------------------- MODULE ScpiStatus_proofs --------------------------
(***************************************************************************)
(* Proofs about ScpiStatus, for every queue size, set of error codes and   *)
(* set of register values.  Each operation on contexts is described once:  *)
(* which registers it changes and what it re-establishes; a handler is     *)
(* then a chain of such facts.                                             *)
(***************************************************************************)
EXTENDS ScpiStatus, SequenceTheorems, TLAPS

(* A well-formed context. *)
Shape(c) ==
  /\ c = [reg |-> c.reg, queue |-> c.queue, sent |-> c.sent, events |-> c.events,
          reply |-> c.reply]
  /\ c.reg \in [RegName -> SUBSET Bit]
  /\ c.queue \in Seq(Codes)
  /\ Len(c.queue) <= QueueSize
  /\ c.sent \in Seq(SUBSET Bit)

(* The three relations between registers and queue, of a context. *)
Summary(c, r) ==
  SummaryBit[r] \in c.reg["STB"] <=> c.reg[r] \cap c.reg[EnableOf[r]] # {}

Service(c) ==
  STB_SRQ \in c.reg["STB"] <=> c.reg["STB"] \cap (c.reg["SRE"] \ {STB_SRQ}) # {}

QueueBit(c) == STB_QMA \in c.reg["STB"] <=> c.queue # <<>>

Good(c) == Shape(c) /\ (\A r \in EventReg : Summary(c, r)) /\ Service(c) /\ QueueBit(c)

(* d differs from c in the status byte only, there only in the bits of B,
   and in what was sent. *)
StbOnly(c, d, B) ==
  /\ Shape(d)
  /\ d.queue = c.queue
  /\ \A r \in RegName \ {"STB"} : d.reg[r] = c.reg[r]
  /\ \A b \in Bit \ B : b \in d.reg["STB"] <=> b \in c.reg["STB"]

-----------------------------------------------------------------------------
(* The rows of scpi_reg_details and scpi_reg_group_details: groups do not share
   registers, and no summary bit is one the service request or the queue uses. *)
LEMMA Tables ==
  /\ \A r \in EventReg : /\ EnableOf[r] \in EnableReg /\ EventOf[EnableOf[r]] = r
                         /\ SummaryBit[r] \in Bit \ {STB_SRQ, STB_QMA, STB_MAV}
  /\ \A r \in EnableReg : EventOf[r] \in EventReg /\ EnableOf[EventOf[r]] = r
  /\ \A r \in CondReg : EventOf[r] \in EventReg
  /\ \A r, q \in EventReg : r # q => SummaryBit[r] # SummaryBit[q] /\ EnableOf[r] # EnableOf[q]
  /\ EventReg \subseteq RegName /\ EnableReg \subseteq RegName /\ CondReg \subseteq RegName
  /\ {"STB", "SRE"} \subseteq RegName /\ {"STB", "SRE"} \cap (EventReg \cup EnableReg \cup CondReg) = {}
  /\ EventReg \cap EnableReg = {} /\ EventReg \cap CondReg = {} /\ EnableReg \cap CondReg = {}
  /\ {STB_SRQ, STB_QMA, STB_MAV} \subseteq Bit
  /\ STB_SRQ # STB_QMA /\ STB_SRQ # STB_MAV /\ STB_QMA # STB_MAV
  BY DEF EnableOf, EventOf, SummaryBit, EventReg, EnableReg, CondReg, RegName, Bit,
         STB_SRQ, STB_QMA, STB_MAV, STB_ESR, STB_OPS, STB_QES

(* Storing a register value. *)
LEMMA StoreShape ==
  ASSUME NEW c, Shape(c), NEW r \in RegName, NEW v \in SUBSET Bit
  PROVE  LET d == Store(c, r, v)
         IN  /\ Shape(d) /\ d.queue = c.queue /\ d.sent = c.sent
             /\ d.reg[r] = v
             /\ \A q \in RegName \ {r} : d.reg[q] = c.reg[q]
  <1> DEFINE g == [c.reg EXCEPT ![r] = v]
             d == Store(c, r, v)
  <1>1. /\ g \in [RegName -> SUBSET Bit] /\ g[r] = v
        /\ \A q \in RegName \ {r} : g[q] = c.reg[q]
    BY DEF Shape
  <1> HIDE DEF g
  <1>2. d = [reg |-> g, queue |-> c.queue, sent |-> c.sent, events |-> c.events,
             reply |-> c.reply]
    <2>1. c = [reg |-> c.reg, queue |-> c.queue, sent |-> c.sent, events |-> c.events,
               reply |-> c.reply]
      BY DEF Shape
    <2>2. d = [c EXCEPT !.reg = g]
      BY DEF Store, g
    <2>3. [c EXCEPT !.reg = g] = [reg |-> g, queue |-> c.queue, sent |-> c.sent,
                                  events |-> c.events, reply |-> c.reply]
      BY <2>1
    <2> QED BY <2>2, <2>3
  <1> HIDE DEF d
  <1>3. QED BY <1>1, <1>2 DEF Shape, d

(* Writing the status byte re-establishes the service request bit. *)
LEMMA SetStb ==
  ASSUME NEW c, Shape(c), NEW v \in SUBSET Bit
  PROVE  LET d == RegSetStb(c, v)
         IN  /\ Shape(d) /\ d.queue = c.queue
             /\ \A r \in RegName \ {"STB"} : d.reg[r] = c.reg[r]
             /\ \A b \in Bit \ {STB_SRQ} : b \in d.reg["STB"] <=> b \in v
             /\ Service(d)
  <1> DEFINE cause == v \cap (c.reg["SRE"] \ {STB_SRQ})
             new   == IF cause # {} THEN v \cup {STB_SRQ} ELSE v \ {STB_SRQ}
             s     == Store(c, "STB", new)
             t     == [s EXCEPT !.sent = Append(c.sent, new)]
             d     == RegSetStb(c, v)
  <1>1. new \in SUBSET Bit
    BY Tables
  <1>2. /\ \A b \in Bit \ {STB_SRQ} : b \in new <=> b \in v
        /\ STB_SRQ \in new <=> new \cap (c.reg["SRE"] \ {STB_SRQ}) # {}
    OBVIOUS
  <1>3. d = t \/ d = s
    BY DEF RegSetStb
  <1> HIDE DEF new, d
  <1>4. /\ Shape(s) /\ s.queue = c.queue /\ s.sent = c.sent /\ s.reg["STB"] = new
        /\ \A r \in RegName \ {"STB"} : s.reg[r] = c.reg[r]
    BY <1>1, Tables, StoreShape
  <1>5. Append(c.sent, new) \in Seq(SUBSET Bit)
    BY <1>1 DEF Shape
  <1> HIDE DEF s
  <1>6. t = [reg |-> s.reg, queue |-> s.queue, sent |-> Append(c.sent, new),
             events |-> s.events, reply |-> s.reply]
    <2> DEFINE a == Append(c.sent, new)
    <2>1. s = [reg |-> s.reg, queue |-> s.queue, sent |-> s.sent, events |-> s.events,
               reply |-> s.reply]
      BY <1>4 DEF Shape
    <2> HIDE DEF a
    <2>2. [s EXCEPT !.sent = a] = [reg |-> s.reg, queue |-> s.queue, sent |-> a,
                                   events |-> s.events, reply |-> s.reply]
      BY <2>1
    <2> QED BY <2>2 DEF a
  <1> HIDE DEF t
  <1>7. Shape(t) /\ t.queue = c.queue /\ t.reg = s.reg
    BY <1>4, <1>5, <1>6 DEF Shape
  <1>8. Shape(d) /\ d.queue = c.queue /\ d.reg = s.reg
    BY <1>3, <1>4, <1>7
  <1>9. d.reg["STB"] = new /\ \A r \in RegName \ {"STB"} : d.reg[r] = c.reg[r]
    BY <1>4, <1>8
  <1>10. Service(d)
    <2>1. d.reg["SRE"] = c.reg["SRE"]
      BY <1>9 DEF RegName
    <2> QED BY <1>2, <1>9, <2>1 DEF Service
  <1> QED BY <1>2, <1>8, <1>9, <1>10 DEF d

(* Setting or clearing one bit of the status byte, other than SRQ. *)
LEMMA SetStbBit ==
  ASSUME NEW c, Shape(c), NEW b \in Bit \ {STB_SRQ}
  PROVE  /\ StbOnly(c, RegSetStbBits(c, {b}), {b, STB_SRQ})
         /\ b \in RegSetStbBits(c, {b}).reg["STB"] /\ Service(RegSetStbBits(c, {b}))
         /\ StbOnly(c, RegClearStbBits(c, {b}), {b, STB_SRQ})
         /\ b \notin RegClearStbBits(c, {b}).reg["STB"] /\ Service(RegClearStbBits(c, {b}))
  <1>1. c.reg["STB"] \in SUBSET Bit
    BY DEF Shape, RegName
  <1> DEFINE v == c.reg["STB"] \cup {b}
             w == c.reg["STB"] \ {b}
             d == RegSetStb(c, v)
             e == RegSetStb(c, w)
  <1>2. v \in SUBSET Bit /\ w \in SUBSET Bit
    BY <1>1
  <1>3. /\ \A x \in Bit \ {b} : (x \in v <=> x \in c.reg["STB"]) /\ (x \in w <=> x \in c.reg["STB"])
        /\ b \in v /\ b \notin w
    OBVIOUS
  <1> HIDE DEF v, w
  <1>4. /\ Shape(d) /\ d.queue = c.queue
        /\ \A r \in RegName \ {"STB"} : d.reg[r] = c.reg[r]
        /\ \A x \in Bit \ {STB_SRQ} : x \in d.reg["STB"] <=> x \in v
        /\ Service(d)
    BY <1>2, SetStb
  <1>5. /\ Shape(e) /\ e.queue = c.queue
        /\ \A r \in RegName \ {"STB"} : e.reg[r] = c.reg[r]
        /\ \A x \in Bit \ {STB_SRQ} : x \in e.reg["STB"] <=> x \in w
        /\ Service(e)
    BY <1>2, SetStb
  <1>6. RegSetStbBits(c, {b}) = d /\ RegClearStbBits(c, {b}) = e
    BY DEF RegSetStbBits, RegClearStbBits, v, w
  <1> HIDE DEF d, e
  <1> QED BY <1>3, <1>4, <1>5, <1>6 DEF StbOnly

(* SCPI_RegSet of an event register: its own summary bit and the service
   request follow, the other summary bits and the queue bit stay. *)
LEMMA SetEvent ==
  ASSUME NEW c, Shape(c), NEW r \in EventReg, NEW v \in SUBSET Bit
  PROVE  LET d == RegSetEvent(c, r, v)
         IN  /\ Shape(d) /\ d.queue = c.queue
             /\ d.reg[r] = v
             /\ \A q \in RegName \ {r, "STB"} : d.reg[q] = c.reg[q]
             /\ \A x \in Bit \ {SummaryBit[r], STB_SRQ} : x \in d.reg["STB"] <=> x \in c.reg["STB"]
             /\ Summary(d, r)
             /\ Service(d)
  <1> DEFINE s == Store(c, r, v)
             b == SummaryBit[r]
             m == EnableOf[r]
             d == RegSetEvent(c, r, v)
  <1>1. /\ r \in RegName /\ r # "STB" /\ m \in RegName \ {"STB", r}
        /\ b \in Bit \ {STB_SRQ}
    BY Tables
  <1>2. /\ Shape(s) /\ s.queue = c.queue /\ s.reg[r] = v
        /\ \A q \in RegName \ {r} : s.reg[q] = c.reg[q]
    BY <1>1, StoreShape
  <1>3. d = IF v \cap s.reg[m] # {} THEN RegSetStbBits(s, {b}) ELSE RegClearStbBits(s, {b})
    BY DEF RegSetEvent, UpdateStb
  <1> HIDE DEF s, b, m, d
  <1>4. /\ StbOnly(s, d, {b, STB_SRQ}) /\ Service(d)
        /\ b \in d.reg["STB"] <=> v \cap s.reg[m] # {}
    BY <1>1, <1>2, <1>3, SetStbBit
  <1>5. /\ Shape(d) /\ d.queue = c.queue /\ d.reg[r] = v /\ d.reg[m] = s.reg[m]
        /\ \A q \in RegName \ {r, "STB"} : d.reg[q] = c.reg[q]
    BY <1>1, <1>2, <1>4 DEF StbOnly
  <1>6. \A x \in Bit \ {b, STB_SRQ} : x \in d.reg["STB"] <=> x \in c.reg["STB"]
    <2>1. "STB" \in RegName \ {r}
      BY <1>1 DEF RegName
    <2> QED BY <2>1, <1>2, <1>4 DEF StbOnly
  <1>7. Summary(d, r)
    BY <1>4, <1>5 DEF Summary, b, m
  <1> QED BY <1>4, <1>5, <1>6, <1>7 DEF d, b

(* So an event register can be set where only its own summary bit, or the
   service request, is out of date; *)
LEMMA SetEventSums ==
  ASSUME NEW c, Shape(c), NEW r \in EventReg, NEW v \in SUBSET Bit,
         \A q \in EventReg \ {r} : Summary(c, q)
  PROVE  LET d == RegSetEvent(c, r, v)
         IN  /\ Shape(d) /\ d.queue = c.queue /\ Service(d)
             /\ \A q \in EventReg : Summary(d, q)
             /\ STB_QMA \in d.reg["STB"] <=> STB_QMA \in c.reg["STB"]
  <1> DEFINE d == RegSetEvent(c, r, v)
  <1>1. /\ Shape(d) /\ d.queue = c.queue
        /\ \A q \in RegName \ {r, "STB"} : d.reg[q] = c.reg[q]
        /\ \A x \in Bit \ {SummaryBit[r], STB_SRQ} : x \in d.reg["STB"] <=> x \in c.reg["STB"]
        /\ Summary(d, r) /\ Service(d)
    BY SetEvent
  <1> HIDE DEF d
  <1>2. STB_QMA \in Bit \ {SummaryBit[r], STB_SRQ}
    BY Tables
  <1>3. ASSUME NEW q \in EventReg \ {r}
        PROVE  Summary(d, q)
    <2>1. /\ SummaryBit[q] \in Bit \ {SummaryBit[r], STB_SRQ}
          /\ q \in RegName \ {r, "STB"} /\ EnableOf[q] \in RegName \ {r, "STB"}
      BY Tables
    <2> QED BY <2>1, <1>1 DEF Summary
  <1>4. \A q \in EventReg : Summary(d, q)
    BY <1>1, <1>3
  <1> QED BY <1>1, <1>2, <1>4 DEF d

(* and where the queue bit is right as well, everything is. *)
LEMMA SetEventGood ==
  ASSUME NEW c, Shape(c), QueueBit(c), NEW r \in EventReg, NEW v \in SUBSET Bit,
         \A q \in EventReg \ {r} : Summary(c, q)
  PROVE  /\ Good(RegSetEvent(c, r, v))
         /\ RegSetEvent(c, r, v).queue = c.queue
  <1> DEFINE d == RegSetEvent(c, r, v)
  <1>1. /\ Shape(d) /\ d.queue = c.queue /\ Service(d)
        /\ \A q \in EventReg : Summary(d, q)
        /\ STB_QMA \in d.reg["STB"] <=> STB_QMA \in c.reg["STB"]
    BY SetEventSums
  <1> HIDE DEF d
  <1> QED BY <1>1 DEF Good, QueueBit, d

(* SCPI_RegSet of an enable register brings its summary bit up to date. *)
LEMMA SetEnableGood ==
  ASSUME NEW c, Good(c), NEW r \in EnableReg, NEW v \in SUBSET Bit
  PROVE  Good(RegSetEnable(c, r, v))
  <1> DEFINE s == Store(c, r, v)
             e == EventOf[r]
  <1>1. r \in RegName /\ r # "STB" /\ e \in EventReg /\ EnableOf[e] = r /\ e # r /\ e \in RegName
    BY Tables
  <1>2. /\ Shape(s) /\ s.queue = c.queue
        /\ \A q \in RegName \ {r} : s.reg[q] = c.reg[q]
    BY <1>1, StoreShape DEF Good
  <1>3. RegSetEnable(c, r, v) = RegSetEvent(s, e, s.reg[e])
    BY DEF RegSetEnable
  <1> HIDE DEF s, e
  <1>4. "STB" \in RegName \ {r}
    BY <1>1 DEF RegName
  <1>5. QueueBit(s)
    BY <1>2, <1>4 DEF Good, QueueBit
  <1>6. ASSUME NEW q \in EventReg \ {e}
        PROVE  Summary(s, q)
    <2>1. q \in RegName \ {r} /\ EnableOf[q] \in RegName \ {r}
      BY <1>1, Tables
    <2> QED BY <2>1, <1>2, <1>4 DEF Good, Summary
  <1>7. s.reg[e] \in SUBSET Bit
    BY <1>1, <1>2 DEF Shape
  <1> QED BY <1>1, <1>2, <1>3, <1>5, <1>6, <1>7, SetEventGood

(* SCPI_RegSet of a condition register latches the rising bits as events. *)
LEMMA SetCondGood ==
  ASSUME NEW c, Good(c), NEW r \in CondReg, NEW v \in SUBSET Bit
  PROVE  Good(RegSetCond(c, r, v))
  <1> DEFINE s == Store(c, r, v)
             e == EventOf[r]
             w == (v \ c.reg[r]) \cup c.reg[EventOf[r]]
  <1>1. r \in RegName /\ r # "STB" /\ e \in EventReg /\ e # r /\ e \in RegName
    BY Tables
  <1>2. /\ Shape(s) /\ s.queue = c.queue
        /\ \A q \in RegName \ {r} : s.reg[q] = c.reg[q]
    BY <1>1, StoreShape DEF Good
  <1>3. RegSetCond(c, r, v) = RegSetEvent(s, e, w)
    BY DEF RegSetCond
  <1>4. w \in SUBSET Bit
    BY <1>1 DEF Good, Shape
  <1> HIDE DEF s, e, w
  <1>5. "STB" \in RegName \ {r}
    BY <1>1 DEF RegName
  <1>6. QueueBit(s)
    BY <1>2, <1>5 DEF Good, QueueBit
  <1>7. ASSUME NEW q \in EventReg
        PROVE  Summary(s, q)
    <2>1. q \in RegName \ {r} /\ EnableOf[q] \in RegName \ {r}
      BY Tables
    <2> QED BY <2>1, <1>2, <1>5 DEF Good, Summary
  <1> QED BY <1>1, <1>2, <1>3, <1>4, <1>6, <1>7, SetEventGood

(* SCPI_RegSet of SRE brings the service request bit up to date. *)
LEMMA SetSreGood ==
  ASSUME NEW c, Good(c), NEW v \in SUBSET Bit
  PROVE  Good(RegSetSre(c, v))
  <1> DEFINE s == Store(c, "SRE", v)
             d == RegSetStb(s, s.reg["STB"])
  <1>1. /\ Shape(s) /\ s.queue = c.queue
        /\ \A q \in RegName \ {"SRE"} : s.reg[q] = c.reg[q]
    BY StoreShape DEF Good, RegName
  <1>2. RegSetSre(c, v) = d
    BY DEF RegSetSre
  <1> HIDE DEF s
  <1>3. s.reg["STB"] \in SUBSET Bit /\ s.reg["STB"] = c.reg["STB"]
    BY <1>1 DEF Shape, RegName
  <1>4. /\ Shape(d) /\ d.queue = c.queue /\ Service(d)
        /\ \A q \in RegName \ {"STB", "SRE"} : d.reg[q] = c.reg[q]
        /\ \A b \in Bit \ {STB_SRQ} : b \in d.reg["STB"] <=> b \in c.reg["STB"]
    BY <1>1, <1>3, SetStb
  <1> HIDE DEF d
  <1>5. QueueBit(d)
    BY <1>4, Tables DEF Good, QueueBit
  <1>6. ASSUME NEW q \in EventReg
        PROVE  Summary(d, q)
    <2>1. /\ q \in RegName \ {"STB", "SRE"} /\ EnableOf[q] \in RegName \ {"STB", "SRE"}
          /\ SummaryBit[q] \in Bit \ {STB_SRQ}
      BY Tables
    <2> QED BY <2>1, <1>4 DEF Good, Summary
  <1> QED BY <1>2, <1>4, <1>5, <1>6 DEF Good

-----------------------------------------------------------------------------
(* error.c *)

(* Changing the queue alone keeps everything but the queue bit. *)
LEMMA QueueShape ==
  ASSUME NEW c, Shape(c), NEW q \in Seq(Codes), Len(q) <= QueueSize
  PROVE  LET d == [c EXCEPT !.queue = q]
         IN  Shape(d) /\ d.queue = q /\ d.reg = c.reg
  <1> DEFINE d == [c EXCEPT !.queue = q]
  <1>1. c = [reg |-> c.reg, queue |-> c.queue, sent |-> c.sent, events |-> c.events,
             reply |-> c.reply]
    BY DEF Shape
  <1>2. d = [reg |-> c.reg, queue |-> q, sent |-> c.sent, events |-> c.events,
             reply |-> c.reply]
    BY <1>1
  <1> HIDE DEF d
  <1>3. Shape(d) /\ d.queue = q /\ d.reg = c.reg
    BY <1>2 DEF Shape
  <1> QED BY <1>3 DEF d

(* The same for the outputs of a call. *)
LEMMA OutputShape ==
  ASSUME NEW c, Shape(c), NEW e
  PROVE  LET d == [c EXCEPT !.events = e]
             f == [c EXCEPT !.reply = e]
         IN  /\ Shape(d) /\ d.queue = c.queue /\ d.reg = c.reg
             /\ Shape(f) /\ f.queue = c.queue /\ f.reg = c.reg
  <1> DEFINE d == [c EXCEPT !.events = e]
             f == [c EXCEPT !.reply = e]
  <1>1. c = [reg |-> c.reg, queue |-> c.queue, sent |-> c.sent, events |-> c.events,
             reply |-> c.reply]
    BY DEF Shape
  <1>2. /\ d = [reg |-> c.reg, queue |-> c.queue, sent |-> c.sent, events |-> e,
                reply |-> c.reply]
        /\ f = [reg |-> c.reg, queue |-> c.queue, sent |-> c.sent, events |-> c.events,
                reply |-> e]
    BY <1>1
  <1> HIDE DEF d, f
  <1>3. /\ Shape(d) /\ d.queue = c.queue /\ d.reg = c.reg
        /\ Shape(f) /\ f.queue = c.queue /\ f.reg = c.reg
    BY <1>2 DEF Shape
  <1> QED BY <1>3 DEF d, f

(* Starting a call, or answering, touches neither the registers nor the queue. *)
LEMMA CalledGood ==
  ASSUME NEW c, Good(c)
  PROVE  /\ Good(Called(c)) /\ Called(c).reg = c.reg /\ Called(c).queue = c.queue
         /\ \A v : Good(Reply(c, v)) /\ Reply(c, v).reg = c.reg /\ Reply(c, v).queue = c.queue
  <1> DEFINE d == Called(c)
  <1>1. c = [reg |-> c.reg, queue |-> c.queue, sent |-> c.sent, events |-> c.events,
             reply |-> c.reply]
    BY DEF Good, Shape
  <1>2. d = [reg |-> c.reg, queue |-> c.queue, sent |-> <<>>, events |-> <<>>, reply |-> <<>>]
    <2>1. PICK g, q, s, e, p :
            c = [reg |-> g, queue |-> q, sent |-> s, events |-> e, reply |-> p]
      BY <1>1
    <2>2. c.reg = g /\ c.queue = q
      BY <2>1
    <2> DEFINE n == <<>>
    <2>3. d = [c EXCEPT !.sent = n, !.events = n, !.reply = n]
      BY DEF Called
    <2> HIDE DEF n, d
    <2>4. d = [reg |-> g, queue |-> q, sent |-> n, events |-> n, reply |-> n]
      BY <2>1, <2>3
    <2> QED BY <2>2, <2>4 DEF n
  <1> HIDE DEF d
  <1>3. d.reg = c.reg /\ d.queue = c.queue
    BY <1>2
  <1>4. Shape(d)
    BY <1>2 DEF Good, Shape
  <1>5. Good(d)
    BY <1>3, <1>4 DEF Good, Summary, Service, QueueBit
  <1>6. ASSUME NEW v
        PROVE  Good(Reply(c, v)) /\ Reply(c, v).reg = c.reg /\ Reply(c, v).queue = c.queue
    <2>1. Shape(Reply(c, v)) /\ Reply(c, v).reg = c.reg /\ Reply(c, v).queue = c.queue
      BY OutputShape DEF Good, Reply
    <2> QED BY <2>1 DEF Good, Summary, Service, QueueBit
  <1> QED BY <1>3, <1>5, <1>6 DEF d

(* Error codes are numbers. *)
LEMMA CodesFacts == /\ Codes \subseteq Int
                    /\ MISSING_PARAMETER \in Codes /\ QUEUE_OVERFLOW \in Codes
  BY CodesAssumption DEF Codes, MISSING_PARAMETER, QUEUE_OVERFLOW

(* The ESR bits of an error are bits of a register. *)
LEMMA EsrBitsType == \A err \in Int : EsrBits(err) \in SUBSET Bit
  BY DEF EsrBits, errs, Bit, ESR_OPC, ESR_REQ, ESR_QER, ESR_DER, ESR_EER, ESR_CER, ESR_URQ, ESR_PON

(* Emitting an error puts the queue bit right, if there is an entry. *)
LEMMA EmitGood ==
  ASSUME NEW c, Shape(c), Service(c), \A r \in EventReg : Summary(c, r), c.queue # <<>>, NEW err
  PROVE  Good(ErrorEmit(c, err)) /\ ErrorEmit(c, err).queue = c.queue
  <1> DEFINE s == RegSetStbBits(c, {STB_QMA})
             d == ErrorEmit(c, err)
  <1>1. /\ StbOnly(c, s, {STB_QMA, STB_SRQ}) /\ STB_QMA \in s.reg["STB"] /\ Service(s)
    BY Tables, SetStbBit
  <1>2. d = [s EXCEPT !.events = Append(c.events, err)]
    BY DEF ErrorEmit
  <1> HIDE DEF s, d
  <1>3. /\ Shape(d) /\ d.reg = s.reg /\ d.queue = s.queue
    BY <1>1, <1>2, OutputShape DEF StbOnly
  <1>4. ASSUME NEW r \in EventReg
        PROVE  Summary(d, r)
    <2>1. /\ r \in RegName \ {"STB"} /\ EnableOf[r] \in RegName \ {"STB"}
          /\ SummaryBit[r] \in Bit \ {STB_QMA, STB_SRQ}
      BY Tables
    <2>2. Summary(c, r)
      OBVIOUS
    <2> QED BY <2>1, <2>2, <1>1, <1>3 DEF StbOnly, Summary
  <1>5. Service(d) /\ QueueBit(d) /\ d.queue = c.queue
    BY <1>1, <1>3 DEF StbOnly, Service, QueueBit
  <1> QED BY <1>3, <1>4, <1>5 DEF Good, d

(* So does clearing it, if the queue is empty, and else it was right. *)
LEMMA EmitEmptyGood ==
  ASSUME NEW c, Shape(c), Service(c), \A r \in EventReg : Summary(c, r),
         c.queue # <<>> => QueueBit(c)
  PROVE  Good(ErrorEmitEmpty(c)) /\ ErrorEmitEmpty(c).queue = c.queue
  <1>1. CASE ~ (c.queue = <<>> /\ STB_QMA \in c.reg["STB"])
    BY <1>1 DEF ErrorEmitEmpty, Good, QueueBit
  <1>2. CASE c.queue = <<>> /\ STB_QMA \in c.reg["STB"]
    <2> DEFINE s == RegClearStbBits(c, {STB_QMA})
               d == [s EXCEPT !.events = Append(c.events, 0)]
    <2>1. /\ StbOnly(c, s, {STB_QMA, STB_SRQ}) /\ STB_QMA \notin s.reg["STB"] /\ Service(s)
      BY Tables, SetStbBit
    <2> HIDE DEF s
    <2>2. /\ Shape(d) /\ d.reg = s.reg /\ d.queue = s.queue
      BY <2>1, OutputShape DEF StbOnly
    <2>3. ErrorEmitEmpty(c) = d
      BY <1>2 DEF ErrorEmitEmpty, s
    <2> HIDE DEF d
    <2>4. ASSUME NEW r \in EventReg
          PROVE  Summary(d, r)
      <3>1. /\ r \in RegName \ {"STB"} /\ EnableOf[r] \in RegName \ {"STB"}
            /\ SummaryBit[r] \in Bit \ {STB_QMA, STB_SRQ}
        BY Tables
      <3>2. Summary(c, r)
        OBVIOUS
      <3> QED BY <3>1, <3>2, <2>1, <2>2 DEF StbOnly, Summary
    <2>5. Service(d) /\ QueueBit(d) /\ d.queue = c.queue
      BY <1>2, <2>1, <2>2 DEF StbOnly, Service, QueueBit
    <2> QED BY <2>2, <2>3, <2>4, <2>5 DEF Good
  <1> QED BY <1>1, <1>2

(* SCPI_ErrorAddInternal leaves a queue that is not empty, and no register changed. *)
LEMMA AddShape ==
  ASSUME NEW c, Shape(c), NEW err \in Codes
  PROVE  LET d == ErrorAdd(c, err)
         IN  Shape(d) /\ d.queue # <<>> /\ d.reg = c.reg
  <1> DEFINE q == IF IsFull(c)
                  THEN [c.queue EXCEPT ![QueueSize] = QUEUE_OVERFLOW]
                  ELSE Append(c.queue, err)
  <1>1. c.queue \in Seq(Codes) /\ Len(c.queue) <= QueueSize /\ QueueSize \in Nat \ {0}
    BY QueueAssumption DEF Shape
  <1>2. q \in Seq(Codes) /\ Len(q) <= QueueSize /\ q # <<>>
    <2>1. CASE IsFull(c)
      <3>1. [c.queue EXCEPT ![QueueSize] = QUEUE_OVERFLOW] \in Seq(Codes)
        BY <1>1, <2>1, CodesFacts, ExceptSeq DEF IsFull
      <3>2. Len([c.queue EXCEPT ![QueueSize] = QUEUE_OVERFLOW]) = Len(c.queue)
        BY <1>1, <2>1, CodesFacts, ExceptSeq DEF IsFull
      <3>3. QueueSize > 0
        BY <1>1
      <3> HIDE DEF Codes
      <3>4. Len(q) = QueueSize /\ q \in Seq(Codes)
        BY <3>1, <3>2, <2>1 DEF IsFull
      <3> HIDE DEF q
      <3> QED BY <3>3, <3>4, EmptySeq, <1>1
    <2>2. CASE ~ IsFull(c)
      BY <1>1, <2>2 DEF IsFull
    <2> QED BY <2>1, <2>2
  <1>3. ErrorAdd(c, err) = [c EXCEPT !.queue = q]
    BY DEF ErrorAdd
  <1> HIDE DEF q
  <1> QED BY <1>2, <1>3, QueueShape

(* SCPI_ErrorPushEx keeps registers, summary bits and the queue bit in step. *)
LEMMA PushGood ==
  ASSUME NEW c, Good(c), NEW err \in Codes
  PROVE  Good(ErrorPush(c, err))
  <1> DEFINE c1 == ErrorAdd(c, err)
             c2 == IF EsrBits(err) # {}
                   THEN RegSetEvent(c1, "ESR", c1.reg["ESR"] \cup EsrBits(err))
                   ELSE c1
             c3 == ErrorEmit(c2, err)
  <1>1. ErrorPush(c, err) = IF IsFull(c) THEN ErrorEmit(c3, QUEUE_OVERFLOW) ELSE c3
    BY DEF ErrorPush
  <1>2. Shape(c1) /\ c1.queue # <<>> /\ c1.reg = c.reg
    BY AddShape DEF Good
  <1> HIDE DEF c1
  <1>3. Service(c1) /\ \A r \in EventReg : Summary(c1, r)
    BY <1>2 DEF Good, Service, Summary
  <1>4. /\ Shape(c2) /\ c2.queue # <<>> /\ Service(c2)
        /\ \A r \in EventReg : Summary(c2, r)
    <2> DEFINE v == c1.reg["ESR"] \cup EsrBits(err)
    <2>1. "ESR" \in EventReg /\ "ESR" \in RegName
      BY DEF EventReg, RegName
    <2>2. v \in SUBSET Bit
      BY <2>1, <1>2, EsrBitsType, CodesFacts DEF Shape
    <2> HIDE DEF v
    <2>3. LET d == RegSetEvent(c1, "ESR", v)
          IN  Shape(d) /\ d.queue = c1.queue /\ Service(d) /\ \A q \in EventReg : Summary(d, q)
      BY <1>2, <1>3, <2>1, <2>2, SetEventSums
    <2> QED BY <1>2, <1>3, <2>3 DEF v
  <1> HIDE DEF c2
  <1>5. Good(c3) /\ c3.queue # <<>>
    BY <1>4, EmitGood
  <1> HIDE DEF c3
  <1>6. Good(ErrorEmit(c3, QUEUE_OVERFLOW))
    BY <1>5, EmitGood DEF Good
  <1> QED BY <1>1, <1>5, <1>6

(* Taking entries out, then the empty callback. *)
LEMMA ShrinkGood ==
  ASSUME NEW c, Good(c), NEW q \in Seq(Codes), Len(q) <= QueueSize, c.queue = <<>> => q = <<>>
  PROVE  Good(ErrorEmitEmpty([c EXCEPT !.queue = q]))
  <1> DEFINE d == [c EXCEPT !.queue = q]
  <1>1. Shape(d) /\ d.queue = q /\ d.reg = c.reg
    BY QueueShape DEF Good
  <1> HIDE DEF d
  <1>2. /\ Service(d) /\ \A r \in EventReg : Summary(d, r)
        /\ d.queue # <<>> => QueueBit(d)
    BY <1>1 DEF Good, Service, Summary, QueueBit
  <1> QED BY <1>1, <1>2, EmitEmptyGood DEF d

(* SCPI_ErrorPop does too, also when it takes out the last entry. *)
LEMMA PopGood ==
  ASSUME NEW c, Good(c)
  PROVE  Good(ErrorPop(c))
  <1> DEFINE q == IF c.queue = <<>> THEN <<>> ELSE Tail(c.queue)
  <1>1. c.queue \in Seq(Codes) /\ Len(c.queue) <= QueueSize /\ QueueSize \in Nat
    BY QueueAssumption DEF Good, Shape
  <1>2. q \in Seq(Codes) /\ Len(q) <= QueueSize /\ (c.queue = <<>> => q = <<>>)
    BY <1>1, EmptySeq, HeadTailProperties
  <1>3. ErrorPop(c) = ErrorEmitEmpty([c EXCEPT !.queue = q])
    BY DEF ErrorPop
  <1> HIDE DEF q
  <1> QED BY <1>2, <1>3, ShrinkGood

(* So does SCPI_ErrorClear. *)
LEMMA ClearGood ==
  ASSUME NEW c, Good(c)
  PROVE  Good(ErrorClear(c))
  <1> DEFINE q == <<>>
  <1>1. q \in Seq(Codes) /\ Len(q) <= QueueSize
    BY QueueAssumption
  <1>2. ErrorClear(c) = ErrorEmitEmpty([c EXCEPT !.queue = q])
    BY DEF ErrorClear
  <1> QED BY <1>1, <1>2, ShrinkGood

-----------------------------------------------------------------------------
(* The handlers *)

(* A register of a good context holds bits of a register. *)
LEMMA RegType == ASSUME NEW c, Good(c), NEW r \in RegName PROVE c.reg[r] \in SUBSET Bit
  BY DEF Good, Shape

(* The cast to scpi_reg_val_t gives bits of a register. *)
LEMMA ToRegValType == ASSUME NEW v PROVE ToRegVal(v) \in SUBSET Bit
  BY DEF ToRegVal

(* An event register set in a good context. *)
LEMMA GoodEvent ==
  ASSUME NEW c, Good(c), NEW r \in EventReg, NEW v \in SUBSET Bit
  PROVE  Good(RegSetEvent(c, r, v))
  BY SetEventGood DEF Good

(* The context set up by SCPI_Init is good. *)
LEMMA InitGood == Init => Good(ctx)
  <1> SUFFICES ASSUME Init
               PROVE  Good(ctx)
    OBVIOUS
  <1> DEFINE g == [r \in RegName |-> {}]
             n == <<>>
  <1>1. g \in [RegName -> SUBSET Bit] /\ \A r \in RegName : g[r] = {}
    OBVIOUS
  <1>2. n \in Seq(Codes) /\ n \in Seq(SUBSET Bit) /\ Len(n) <= QueueSize /\ n = <<>>
    BY QueueAssumption
  <1>3. ctx = [reg |-> g, queue |-> n, sent |-> n, events |-> n, reply |-> n]
    BY DEF Init
  <1> HIDE DEF g, n
  <1>4. Shape(ctx) /\ ctx.reg = g /\ ctx.queue = <<>>
    BY <1>1, <1>2, <1>3 DEF Shape
  <1>5. "STB" \in RegName /\ "SRE" \in RegName
    BY DEF RegName
  <1>6. \A r \in EventReg : r \in RegName
    BY DEF RegName
  <1> QED BY <1>1, <1>4, <1>5, <1>6 DEF Good, Summary, Service, QueueBit

(* Every call of the library and every command of the status system keeps it good. *)
LEMMA NextGood ==
  ASSUME Good(ctx), [Next]_vars
  PROVE  Good(ctx')
  <1> DEFINE c == Called(ctx)
  <1>1. Good(c) /\ c.reg = ctx.reg /\ c.queue = ctx.queue
    BY CalledGood
  <1>2. ASSUME NEW v
        PROVE  Good(Reply(c, v)) /\ Reply(c, v).reg = c.reg
    BY <1>1, CalledGood
  <1>3. ASSUME NEW err \in AppCodes, AppPush(err)
        PROVE  Good(ctx')
    BY <1>1, <1>3, PushGood DEF AppPush, Codes
  <1>4. ASSUME NEW r \in CondReg, NEW v \in CondValues, AppSetCond(r, v)
        PROVE  Good(ctx')
    BY <1>1, <1>4, SetCondGood, ValuesAssumption DEF AppSetCond, Bit
  <1>5. CASE AppSetMav \/ AppClearMav
    <2> DEFINE d == RegSetStbBits(c, {STB_MAV})
               e == RegClearStbBits(c, {STB_MAV})
    <2>1. STB_MAV \in Bit \ {STB_SRQ} /\ STB_QMA \in Bit \ {STB_MAV, STB_SRQ}
      BY Tables
    <2>2. /\ StbOnly(c, d, {STB_MAV, STB_SRQ}) /\ Service(d)
          /\ StbOnly(c, e, {STB_MAV, STB_SRQ}) /\ Service(e)
      BY <1>1, <2>1, SetStbBit DEF Good
    <2>3. ctx' = d \/ ctx' = e
      BY <1>5 DEF AppSetMav, AppClearMav
    <2> HIDE DEF c, d, e
    <2>4. ASSUME NEW r \in EventReg
          PROVE  Summary(d, r) /\ Summary(e, r)
      <3>1. /\ r \in RegName \ {"STB"} /\ EnableOf[r] \in RegName \ {"STB"}
            /\ SummaryBit[r] \in Bit \ {STB_MAV, STB_SRQ}
        BY Tables
      <3> QED BY <3>1, <1>1, <2>2 DEF StbOnly, Summary, Good
    <2>5. QueueBit(d) /\ QueueBit(e)
      BY <1>1, <2>1, <2>2 DEF StbOnly, QueueBit, Good
    <2>6. Shape(d) /\ Shape(e)
      BY <2>2 DEF StbOnly
    <2> QED BY <2>2, <2>3, <2>4, <2>5, <2>6 DEF Good
  <1>6. CASE CoreCls
    <2>1. "ESR" \in EventReg /\ "OPER" \in EventReg /\ "QUES" \in EventReg /\ {} \in SUBSET Bit
      BY DEF EventReg
    <2> DEFINE c1 == RegSetEvent(c, "ESR", {})
               c2 == ErrorClear(c1)
               c3 == RegSetEvent(c2, "OPER", {})
    <2>2. Good(c1)
      BY <1>1, <2>1, GoodEvent
    <2>3. Good(c2)
      BY <2>2, ClearGood
    <2>4. Good(c3)
      BY <2>1, <2>3, GoodEvent
    <2>5. Good(RegSetEvent(c3, "QUES", {}))
      BY <2>1, <2>4, GoodEvent
    <2> QED BY <2>5, <1>6 DEF CoreCls
  <1>7. ASSUME NEW r \in EnableReg, NEW v \in EnableValues, SetEnable(r, v)
        PROVE  Good(ctx')
    BY <1>1, <1>7, ToRegValType, SetEnableGood DEF SetEnable
  <1>8. ASSUME NEW v \in SreValues, CoreSre(v)
        PROVE  Good(ctx')
    BY <1>1, <1>8, ToRegValType, SetSreGood DEF CoreSre
  <1>9. CASE EnableNoParam
    BY <1>1, <1>9, PushGood, CodesFacts DEF EnableNoParam
  <1>10. ASSUME NEW r \in EventReg, EventQ(r)
         PROVE  Good(ctx')
    <2>1. {} \in SUBSET Bit
      OBVIOUS
    <2> QED BY <1>2, <1>10, <2>1, GoodEvent DEF EventQ
  <1>11. ASSUME NEW r \in EnableReg \cup CondReg \cup {"STB", "SRE"}, RegisterQ(r)
         PROVE  Good(ctx')
    BY <1>2, <1>11 DEF RegisterQ
  <1>12. CASE CoreOpc
    <2>1. "ESR" \in EventReg /\ "ESR" \in RegName /\ {ESR_OPC} \subseteq Bit
      BY DEF EventReg, RegName, ESR_OPC, Bit
    <2>2. ctx.reg["ESR"] \cup {ESR_OPC} \in SUBSET Bit
      BY <2>1, RegType
    <2> QED BY <1>1, <1>12, <2>1, <2>2, GoodEvent DEF CoreOpc
  <1>13. CASE StatusPreset
    <2>1. "QUES" \in EventReg /\ {} \in SUBSET Bit
      BY DEF EventReg
    <2> QED BY <1>1, <1>13, <2>1, GoodEvent DEF StatusPreset
  <1>14. CASE SystemErrorNextQ
    <2>1. Good(ErrorPop(c))
      BY <1>1, PopGood
    <2> QED BY <2>1, <1>14, CalledGood DEF SystemErrorNextQ
  <1>15. CASE SystemErrorCountQ
    BY <1>2, <1>15 DEF SystemErrorCountQ
  <1>16. CASE UNCHANGED vars
    BY <1>16 DEF vars
  <1> HIDE DEF c
  <1> QED
    BY <1>3, <1>4, <1>5, <1>6, <1>7, <1>8, <1>9, <1>10, <1>11, <1>12, <1>13, <1>14,
       <1>15, <1>16 DEF Next

(* Registers, summary bits, service request and queue bit agree after every call,
   for every queue size and set of codes: the invariant the theorems below unfold. *)
THEOREM ScpiStatusGood == Spec => []Good(ctx)
  <1>1. Init => Good(ctx)
    BY InitGood
  <1>2. Good(ctx) /\ [Next]_vars => Good(ctx)'
    BY NextGood
  <1> QED BY <1>1, <1>2, PTL DEF Spec

(* A register never exceeds 16 bits and the queue never its size. *)
THEOREM ScpiStatusTypeOK == Spec => []TypeOK
  <1>1. Good(ctx) => TypeOK
    BY DEF Good, Shape, TypeOK, reg
  <1> QED BY <1>1, ScpiStatusGood, PTL

(* The summary bits of the status byte are always up to date. *)
THEOREM ScpiStatusSummary == Spec => []SummaryInv
  <1>1. Good(ctx) => SummaryInv
    BY DEF Good, Summary, SummaryInv, reg
  <1> QED BY <1>1, ScpiStatusGood, PTL

(* The service request bit is set exactly while an enabled bit is. *)
THEOREM ScpiStatusService == Spec => []ServiceInv
  <1>1. Good(ctx) => ServiceInv
    BY DEF Good, Service, ServiceInv, reg
  <1> QED BY <1>1, ScpiStatusGood, PTL

(* The queue message bit tells exactly whether the error queue has entries. *)
THEOREM ScpiStatusQueueBit == Spec => []QueueBitInv
  <1>1. Good(ctx) => QueueBitInv
    BY DEF Good, QueueBit, QueueBitInv, reg
  <1> QED BY <1>1, ScpiStatusGood, PTL

-----------------------------------------------------------------------------
(* What one call does, from its beginning to its end: the requests for
   service that it sends and the events that it keeps.  A call writes the
   status byte up to three times.  The writes of one call all add bits or
   all take bits away, so if the status byte is the same after the call it
   was never another. *)

(* The status byte of d has all bits of that of c. *)
Rises(c, d) == c.reg["STB"] \subseteq d.reg["STB"]

(* From c to d nothing was sent unless the status byte changed, and if it
   changed to one that asks for service, that one was sent last. *)
Announced(c, d) ==
  /\ d.reg["STB"] = c.reg["STB"] => d.sent = c.sent
  /\ d.reg["STB"] # c.reg["STB"] /\ STB_SRQ \in d.reg["STB"]
       => d.sent # <<>> /\ d.sent[Len(d.sent)] = d.reg["STB"]

(* The registers outside of R, the status byte apart, are those of c. *)
Keeps(c, d, R) == \A q \in RegName \ (R \cup {"STB"}) : d.reg[q] = c.reg[q]

(* Conditions that rise are latched, and event bits go all at once. *)
Latched(c, d) ==
  /\ \A r \in CondReg : d.reg[r] # c.reg[r] =>
        c.reg[EventOf[r]] \cup (d.reg[r] \ c.reg[r]) \subseteq d.reg[EventOf[r]]
  /\ \A r \in EventReg : c.reg[r] \subseteq d.reg[r] \/ d.reg[r] = {}

-----------------------------------------------------------------------------
(* Announcing composes along writes in the same direction. *)
LEMMA Chain ==
  ASSUME NEW c, NEW d, NEW e, Announced(c, d), Announced(d, e),
         (Rises(c, d) /\ Rises(d, e)) \/ (Rises(d, c) /\ Rises(e, d))
  PROVE  Announced(c, e)
  <1>1. CASE e.reg["STB"] = c.reg["STB"]
    <2>1. d.reg["STB"] = c.reg["STB"]
      BY <1>1 DEF Rises
    <2> QED BY <1>1, <2>1 DEF Announced
  <1>2. CASE e.reg["STB"] # c.reg["STB"] /\ e.reg["STB"] = d.reg["STB"]
    BY <1>2 DEF Announced
  <1>3. CASE e.reg["STB"] # c.reg["STB"] /\ e.reg["STB"] # d.reg["STB"]
    BY <1>3 DEF Announced
  <1> QED BY <1>1, <1>2, <1>3

(* One write of the status byte: it goes up with a value that has all its
   bits, and down with one that has no others, service request included. *)
LEMMA StbAnnounced ==
  ASSUME NEW c, Shape(c), NEW v \in SUBSET Bit
  PROVE  LET d == RegSetStb(c, v)
         IN  /\ Announced(c, d)
             /\ Service(c) /\ c.reg["STB"] \subseteq v => Rises(c, d)
             /\ Service(c) /\ v \subseteq c.reg["STB"] => Rises(d, c)
  <1> DEFINE cause == v \cap (c.reg["SRE"] \ {STB_SRQ})
             new   == IF cause # {} THEN v \cup {STB_SRQ} ELSE v \ {STB_SRQ}
             s     == Store(c, "STB", new)
             a     == Append(c.sent, new)
             t     == [s EXCEPT !.sent = a]
             d     == RegSetStb(c, v)
  <1>1. /\ new \in SUBSET Bit
        /\ STB_SRQ \in new => cause # {}
    BY Tables
  <1>2. d = IF cause # {} /\ new # c.reg["STB"] THEN t ELSE s
    BY DEF RegSetStb
  <1>3. /\ Service(c) /\ c.reg["STB"] \subseteq v => c.reg["STB"] \subseteq new
        /\ Service(c) /\ v \subseteq c.reg["STB"] => new \subseteq c.reg["STB"]
    BY DEF Service
  <1> HIDE DEF new, d
  <1>4. Shape(s) /\ s.sent = c.sent /\ s.reg["STB"] = new
    BY <1>1, Tables, StoreShape
  <1>5. a # <<>> /\ a[Len(a)] = new
    BY <1>1 DEF Shape
  <1> HIDE DEF s, a, cause
  <1>6. t.sent = a /\ t.reg["STB"] = new
    <2>1. s = [reg |-> s.reg, queue |-> s.queue, sent |-> s.sent, events |-> s.events,
               reply |-> s.reply]
      BY <1>4 DEF Shape
    <2>2. t = [reg |-> s.reg, queue |-> s.queue, sent |-> a, events |-> s.events,
               reply |-> s.reply]
      BY <2>1
    <2> QED BY <1>4, <2>2
  <1> HIDE DEF t
  <1>7. d.reg["STB"] = new
    BY <1>2, <1>4, <1>6
  <1>8. Announced(c, d)
    BY <1>1, <1>2, <1>4, <1>5, <1>6, <1>7 DEF Announced
  <1> QED BY <1>3, <1>7, <1>8 DEF Rises, d

(* A context with the status byte, SRE and the requests of another. *)
LEMMA SameStb ==
  ASSUME NEW c, NEW d, d.reg["STB"] = c.reg["STB"], d.sent = c.sent
  PROVE  /\ Announced(c, d) /\ Rises(c, d) /\ Rises(d, c)
         /\ d.reg["SRE"] = c.reg["SRE"] => (Service(c) => Service(d))
  BY DEF Announced, Rises, Service

(* Changing the queue or the outputs sends nothing. *)
LEMMA SameSent ==
  ASSUME NEW c, Shape(c), NEW e
  PROVE  /\ [c EXCEPT !.queue = e].sent = c.sent
         /\ [c EXCEPT !.events = e].sent = c.sent
         /\ [c EXCEPT !.reply = e].sent = c.sent
  <1>1. c = [reg |-> c.reg, queue |-> c.queue, sent |-> c.sent, events |-> c.events,
             reply |-> c.reply]
    BY DEF Shape
  <1>2. /\ [c EXCEPT !.queue = e] = [reg |-> c.reg, queue |-> e, sent |-> c.sent,
                                     events |-> c.events, reply |-> c.reply]
        /\ [c EXCEPT !.events = e] = [reg |-> c.reg, queue |-> c.queue, sent |-> c.sent,
                                      events |-> e, reply |-> c.reply]
        /\ [c EXCEPT !.reply = e] = [reg |-> c.reg, queue |-> c.queue, sent |-> c.sent,
                                     events |-> c.events, reply |-> e]
    BY <1>1
  <1> QED BY <1>2

(* Setting one bit goes up and clearing it goes down; neither goes anywhere
   when the bit is there, or not there, already. *)
LEMMA BitAnnounced ==
  ASSUME NEW c, Shape(c), Service(c), NEW b \in Bit \ {STB_SRQ}
  PROVE  /\ Announced(c, RegSetStbBits(c, {b})) /\ Rises(c, RegSetStbBits(c, {b}))
         /\ Announced(c, RegClearStbBits(c, {b})) /\ Rises(RegClearStbBits(c, {b}), c)
         /\ b \notin c.reg["STB"] => Rises(c, RegClearStbBits(c, {b}))
  <1> DEFINE v == c.reg["STB"] \cup {b}
             w == c.reg["STB"] \ {b}
  <1>1. v \in SUBSET Bit /\ w \in SUBSET Bit
    BY DEF Shape, RegName
  <1>2. /\ c.reg["STB"] \subseteq v /\ w \subseteq c.reg["STB"]
        /\ b \notin c.reg["STB"] => c.reg["STB"] \subseteq w
    OBVIOUS
  <1>3. RegSetStbBits(c, {b}) = RegSetStb(c, v) /\ RegClearStbBits(c, {b}) = RegSetStb(c, w)
    BY DEF RegSetStbBits, RegClearStbBits
  <1> HIDE DEF v, w
  <1>4. /\ Announced(c, RegSetStb(c, v)) /\ Rises(c, RegSetStb(c, v))
        /\ Announced(c, RegSetStb(c, w)) /\ Rises(RegSetStb(c, w), c)
        /\ b \notin c.reg["STB"] => Rises(c, RegSetStb(c, w))
    BY <1>1, <1>2, StbAnnounced
  <1> QED BY <1>3, <1>4

-----------------------------------------------------------------------------
(* SCPI_RegSet of an event register goes up with new events and down when
   they are all cleared. *)
LEMMA EventAnnounced ==
  ASSUME NEW c, Shape(c), Service(c), NEW r \in EventReg, Summary(c, r), NEW v \in SUBSET Bit
  PROVE  LET d == RegSetEvent(c, r, v)
         IN  /\ Announced(c, d)
             /\ c.reg[r] \subseteq v => Rises(c, d)
             /\ v = {} => Rises(d, c)
  <1> DEFINE s == Store(c, r, v)
             b == SummaryBit[r]
             m == EnableOf[r]
             d == RegSetEvent(c, r, v)
  <1>1. /\ r \in RegName /\ r \notin {"STB", "SRE"} /\ m \in RegName \ {"STB", r}
        /\ b \in Bit \ {STB_SRQ} /\ {"STB", "SRE"} \subseteq RegName \ {r}
    BY Tables
  <1>2. /\ Shape(s) /\ s.sent = c.sent
        /\ \A q \in RegName \ {r} : s.reg[q] = c.reg[q]
    BY <1>1, StoreShape
  <1>3. d = IF v \cap s.reg[m] # {} THEN RegSetStbBits(s, {b}) ELSE RegClearStbBits(s, {b})
    BY DEF RegSetEvent, UpdateStb
  <1>4. b \in c.reg["STB"] <=> c.reg[r] \cap c.reg[m] # {}
    BY DEF Summary
  <1> HIDE DEF s, b, m, d
  <1>5. s.reg["STB"] = c.reg["STB"] /\ s.reg["SRE"] = c.reg["SRE"] /\ s.reg[m] = c.reg[m]
    BY <1>1, <1>2
  <1>6. Announced(c, s) /\ Rises(c, s) /\ Rises(s, c) /\ Service(s)
    BY <1>2, <1>5, SameStb
  <1>7. CASE v \cap s.reg[m] # {}
    <2>1. Announced(s, d) /\ Rises(s, d)
      BY <1>1, <1>2, <1>3, <1>6, <1>7, BitAnnounced
    <2>2. Announced(c, d)
      BY <1>6, <2>1, Chain
    <2>3. Rises(c, d) /\ v # {}
      BY <1>5, <1>7, <2>1 DEF Rises
    <2> QED BY <2>2, <2>3 DEF d
  <1>8. CASE v \cap s.reg[m] = {}
    <2>1. /\ Announced(s, d) /\ Rises(d, s)
          /\ b \notin s.reg["STB"] => Rises(s, d)
      BY <1>1, <1>2, <1>3, <1>6, <1>8, BitAnnounced
    <2>2. Announced(c, d)
      BY <1>6, <2>1, Chain
    <2>3. c.reg[r] \subseteq v => b \notin s.reg["STB"]
      BY <1>4, <1>5, <1>8
    <2>4. Rises(d, c) /\ (c.reg[r] \subseteq v => Rises(c, d))
      BY <1>5, <2>1, <2>3 DEF Rises
    <2> QED BY <2>2, <2>4 DEF d
  <1> QED BY <1>7, <1>8

(* SCPI_ErrorEmit goes up. *)
LEMMA EmitAnnounced ==
  ASSUME NEW c, Shape(c), Service(c), NEW err
  PROVE  LET d == ErrorEmit(c, err)
         IN  Announced(c, d) /\ Rises(c, d) /\ Keeps(c, d, {})
  <1> DEFINE s == RegSetStbBits(c, {STB_QMA})
             e == Append(c.events, err)
             d == ErrorEmit(c, err)
  <1>1. Announced(c, s) /\ Rises(c, s) /\ StbOnly(c, s, {STB_QMA, STB_SRQ})
    BY Tables, BitAnnounced, SetStbBit
  <1>2. d = [s EXCEPT !.events = e]
    BY DEF ErrorEmit
  <1> HIDE DEF s, d, e
  <1>3. d.reg = s.reg /\ d.sent = s.sent
    BY <1>1, <1>2, OutputShape, SameSent DEF StbOnly
  <1>4. Announced(c, d) /\ Rises(c, d) /\ Keeps(c, d, {})
    BY <1>1, <1>3 DEF Announced, Rises, Keeps, StbOnly
  <1> QED BY <1>4 DEF d

(* It leaves a context with the service request bit up to date. *)
LEMMA EmitShape ==
  ASSUME NEW c, Shape(c), NEW err
  PROVE  Shape(ErrorEmit(c, err)) /\ Service(ErrorEmit(c, err))
  <1> DEFINE s == RegSetStbBits(c, {STB_QMA})
             e == Append(c.events, err)
             d == ErrorEmit(c, err)
  <1>1. Shape(s) /\ Service(s)
    BY Tables, SetStbBit DEF StbOnly
  <1>2. d = [s EXCEPT !.events = e]
    BY DEF ErrorEmit
  <1> HIDE DEF s, d, e
  <1>3. Shape(d) /\ d.reg = s.reg
    BY <1>1, <1>2, OutputShape
  <1>4. Shape(d) /\ Service(d)
    BY <1>1, <1>3 DEF Service
  <1> QED BY <1>4 DEF d

(* SCPI_ErrorEmitEmpty goes down, or does nothing. *)
LEMMA EmitEmptyAnnounced ==
  ASSUME NEW c, Shape(c), Service(c)
  PROVE  LET d == ErrorEmitEmpty(c)
         IN  Announced(c, d) /\ Rises(d, c) /\ Keeps(c, d, {})
  <1> DEFINE d == ErrorEmitEmpty(c)
  <1>1. CASE d = c
    BY <1>1 DEF Announced, Rises, Keeps
  <1>2. CASE d # c
    <2> DEFINE s == RegClearStbBits(c, {STB_QMA})
               e == Append(c.events, 0)
    <2>1. Announced(c, s) /\ Rises(s, c) /\ StbOnly(c, s, {STB_QMA, STB_SRQ})
      BY Tables, BitAnnounced, SetStbBit
    <2>2. d = [s EXCEPT !.events = e]
      BY <1>2 DEF ErrorEmitEmpty
    <2> HIDE DEF s, d, e
    <2>3. d.reg = s.reg /\ d.sent = s.sent
      BY <2>1, <2>2, OutputShape, SameSent DEF StbOnly
    <2>4. Announced(c, d) /\ Rises(d, c) /\ Keeps(c, d, {})
      BY <2>1, <2>3 DEF Announced, Rises, Keeps, StbOnly
    <2> QED BY <2>4 DEF d
  <1> QED BY <1>1, <1>2

(* SCPI_ErrorAddInternal touches no register. *)
LEMMA AddAnnounced ==
  ASSUME NEW c, Shape(c), NEW err \in Codes
  PROVE  LET d == ErrorAdd(c, err) IN Shape(d) /\ d.reg = c.reg /\ d.sent = c.sent
  <1> DEFINE q == IF IsFull(c)
                  THEN [c.queue EXCEPT ![QueueSize] = QUEUE_OVERFLOW]
                  ELSE Append(c.queue, err)
  <1>1. ErrorAdd(c, err) = [c EXCEPT !.queue = q]
    BY DEF ErrorAdd
  <1> HIDE DEF q
  <1>2. ErrorAdd(c, err).sent = c.sent
    BY <1>1, SameSent
  <1> QED BY <1>2, AddShape

(* SCPI_ErrorPushEx: the status byte goes up, once or three times, and the
   only other register that changes is ESR, which loses nothing. *)
LEMMA PushAnnounced ==
  ASSUME NEW c, Good(c), NEW err \in Codes
  PROVE  LET d == ErrorPush(c, err)
         IN  Announced(c, d) /\ Keeps(c, d, {"ESR"}) /\ c.reg["ESR"] \subseteq d.reg["ESR"]
  <1> DEFINE c1 == ErrorAdd(c, err)
             v  == c1.reg["ESR"] \cup EsrBits(err)
             c2 == IF EsrBits(err) # {} THEN RegSetEvent(c1, "ESR", v) ELSE c1
             c3 == ErrorEmit(c2, err)
             c4 == IF IsFull(c) THEN ErrorEmit(c3, QUEUE_OVERFLOW) ELSE c3
  <1>1. ErrorPush(c, err) = c4
    BY DEF ErrorPush
  <1>2. Shape(c1) /\ c1.reg = c.reg /\ c1.sent = c.sent
    BY AddAnnounced DEF Good
  <1> HIDE DEF c1
  <1>3. /\ Service(c1) /\ \A r \in EventReg : Summary(c1, r)
        /\ Announced(c, c1) /\ Rises(c, c1)
    BY <1>2, SameStb DEF Good, Summary
  <1>4. "ESR" \in EventReg /\ "ESR" \in RegName
    BY DEF EventReg, RegName
  <1>5. v \in SUBSET Bit /\ c1.reg["ESR"] \subseteq v
    BY <1>2, <1>4, EsrBitsType, CodesFacts DEF Shape
  <1> HIDE DEF v
  <1>6. /\ Shape(c2) /\ Service(c2) /\ Announced(c, c2) /\ Rises(c, c2)
        /\ Keeps(c, c2, {"ESR"}) /\ c.reg["ESR"] \subseteq c2.reg["ESR"]
    <2>1. CASE c2 = c1
      BY <2>1, <1>2, <1>3 DEF Keeps
    <2>2. CASE c2 = RegSetEvent(c1, "ESR", v)
      <3>1. /\ Shape(c2) /\ Service(c2) /\ c2.reg["ESR"] = v
            /\ \A q \in RegName \ {"ESR", "STB"} : c2.reg[q] = c1.reg[q]
        BY <2>2, <1>2, <1>4, <1>5, SetEvent
      <3>2. Announced(c1, c2) /\ Rises(c1, c2)
        BY <2>2, <1>2, <1>3, <1>4, <1>5, EventAnnounced
      <3> HIDE DEF c2
      <3>3. Announced(c, c2)
        BY <3>2, <1>3, Chain
      <3>4. Rises(c, c2) /\ Keeps(c, c2, {"ESR"})
        BY <3>1, <3>2, <1>2, <1>3 DEF Rises, Keeps
      <3> QED BY <3>1, <3>3, <3>4, <1>2, <1>5
    <2> QED BY <2>1, <2>2
  <1> HIDE DEF c2
  <1>7. /\ Shape(c3) /\ Service(c3) /\ Announced(c2, c3) /\ Rises(c2, c3) /\ Keeps(c2, c3, {})
    <2>1. Announced(c2, c3) /\ Rises(c2, c3) /\ Keeps(c2, c3, {})
      BY <1>6, EmitAnnounced
    <2>2. Shape(c3) /\ Service(c3)
      BY <1>6, EmitShape
    <2> QED BY <2>1, <2>2
  <1> HIDE DEF c3
  <1>8. Announced(c3, c4) /\ Rises(c3, c4) /\ Keeps(c3, c4, {})
    <2>1. CASE IsFull(c)
      BY <2>1, <1>7, EmitAnnounced
    <2>2. CASE ~ IsFull(c)
      BY <2>2 DEF Announced, Rises, Keeps
    <2> QED BY <2>1, <2>2
  <1> HIDE DEF c4
  <1>9. Announced(c, c3) /\ Rises(c, c3)
    <2>1. Announced(c, c3)
      BY <1>6, <1>7, Chain
    <2> QED BY <2>1, <1>6, <1>7 DEF Rises
  <1>10. Announced(c, c4)
    BY <1>8, <1>9, Chain
  <1>11. Keeps(c, c4, {"ESR"}) /\ c.reg["ESR"] \subseteq c4.reg["ESR"]
    BY <1>4, <1>6, <1>7, <1>8 DEF Keeps
  <1> QED BY <1>1, <1>10, <1>11

(* Taking entries out of the queue: down, and no other register. *)
LEMMA ShrinkAnnounced ==
  ASSUME NEW c, Good(c), NEW q \in Seq(Codes), Len(q) <= QueueSize
  PROVE  LET d == ErrorEmitEmpty([c EXCEPT !.queue = q])
         IN  Announced(c, d) /\ Rises(d, c) /\ Keeps(c, d, {})
  <1> DEFINE s == [c EXCEPT !.queue = q]
             d == ErrorEmitEmpty(s)
  <1>1. Shape(s) /\ s.reg = c.reg /\ s.sent = c.sent
    BY QueueShape, SameSent DEF Good
  <1> HIDE DEF s
  <1>2. Service(s) /\ Announced(c, s) /\ Rises(s, c)
    BY <1>1, SameStb DEF Good
  <1>3. Announced(s, d) /\ Rises(d, s) /\ Keeps(s, d, {})
    BY <1>1, <1>2, EmitEmptyAnnounced
  <1> HIDE DEF d
  <1>4. Announced(c, d)
    BY <1>2, <1>3, Chain
  <1>5. Rises(d, c) /\ Keeps(c, d, {})
    BY <1>1, <1>3 DEF Rises, Keeps
  <1> QED BY <1>4, <1>5 DEF d, s

(* SCPI_ErrorPop *)
LEMMA PopAnnounced ==
  ASSUME NEW c, Good(c)
  PROVE  Announced(c, ErrorPop(c)) /\ Keeps(c, ErrorPop(c), {})
  <1> DEFINE q == IF c.queue = <<>> THEN <<>> ELSE Tail(c.queue)
  <1>1. c.queue \in Seq(Codes) /\ Len(c.queue) <= QueueSize /\ QueueSize \in Nat
    BY QueueAssumption DEF Good, Shape
  <1>2. q \in Seq(Codes) /\ Len(q) <= QueueSize
    BY <1>1, EmptySeq, HeadTailProperties
  <1>3. ErrorPop(c) = ErrorEmitEmpty([c EXCEPT !.queue = q])
    BY DEF ErrorPop
  <1> HIDE DEF q
  <1> QED BY <1>2, <1>3, ShrinkAnnounced

(* SCPI_ErrorClear *)
LEMMA ClearAnnounced ==
  ASSUME NEW c, Good(c)
  PROVE  Announced(c, ErrorClear(c)) /\ Rises(ErrorClear(c), c) /\ Keeps(c, ErrorClear(c), {})
  <1> DEFINE q == <<>>
  <1>1. q \in Seq(Codes) /\ Len(q) <= QueueSize
    BY QueueAssumption
  <1>2. ErrorClear(c) = ErrorEmitEmpty([c EXCEPT !.queue = q])
    BY DEF ErrorClear
  <1> HIDE DEF q
  <1> QED BY <1>1, <1>2, ShrinkAnnounced

-----------------------------------------------------------------------------
(* The handlers *)

(* An event register that gets more events, or loses them all. *)
LEMMA EventCall ==
  ASSUME NEW c, Good(c), NEW r \in EventReg, NEW v \in SUBSET Bit
  PROVE  LET d == RegSetEvent(c, r, v)
         IN  /\ Announced(c, d) /\ Keeps(c, d, {r})
             /\ v = {} => Rises(d, c)
             /\ c.reg[r] \subseteq v \/ v = {} => Latched(c, d)
  <1> DEFINE d == RegSetEvent(c, r, v)
  <1>1. /\ Announced(c, d) /\ d.reg[r] = v
        /\ v = {} => Rises(d, c)
        /\ \A q \in RegName \ {r, "STB"} : d.reg[q] = c.reg[q]
    BY SetEvent, EventAnnounced DEF Good
  <1> HIDE DEF d
  <1>2. Keeps(c, d, {r})
    BY <1>1 DEF Keeps
  <1>3. ASSUME c.reg[r] \subseteq v \/ v = {}
        PROVE  Latched(c, d)
    <2>1. \A q \in CondReg : q \in RegName \ {r, "STB"}
      BY Tables
    <2>2. \A q \in EventReg \ {r} : q \in RegName \ {r, "STB"}
      BY Tables
    <2> QED BY <1>1, <1>3, <2>1, <2>2 DEF Latched
  <1> QED BY <1>1, <1>2, <1>3 DEF d

(* Where no condition and no event changes, nothing is to be latched. *)
LEMMA KeepsLatched ==
  ASSUME NEW c, NEW d, NEW R, Keeps(c, d, R), R \cap (EventReg \cup CondReg) = {}
  PROVE  Latched(c, d)
  <1>1. \A q \in EventReg \cup CondReg : q \in RegName \ (R \cup {"STB"})
    BY Tables
  <1> QED BY <1>1 DEF Keeps, Latched

(* One update of the status byte announces, in whatever direction it goes. *)
LEMMA UpdateAnnounced ==
  ASSUME NEW c, Shape(c), NEW r \in EventReg, NEW v \in SUBSET Bit
  PROVE  Announced(c, RegSetEvent(c, r, v))
  <1> DEFINE s == Store(c, r, v)
             b == SummaryBit[r]
             m == EnableOf[r]
             x == s.reg["STB"] \cup {b}
             y == s.reg["STB"] \ {b}
  <1>1. r \in RegName /\ r # "STB" /\ "STB" \in RegName /\ b \in Bit
    BY Tables
  <1>2. Shape(s) /\ s.sent = c.sent /\ s.reg["STB"] = c.reg["STB"]
    BY <1>1, StoreShape
  <1>3. RegSetEvent(c, r, v) = RegSetStb(s, x) \/ RegSetEvent(c, r, v) = RegSetStb(s, y)
    BY DEF RegSetEvent, UpdateStb, RegSetStbBits, RegClearStbBits
  <1>4. x \in SUBSET Bit /\ y \in SUBSET Bit
    BY <1>1, <1>2 DEF Shape
  <1> HIDE DEF s, x, y
  <1>5. Announced(s, RegSetStb(s, x)) /\ Announced(s, RegSetStb(s, y))
    BY <1>2, <1>4, StbAnnounced
  <1> QED BY <1>2, <1>3, <1>5 DEF Announced

(* SCPI_RegSet of an enable register *)
LEMMA EnableCall ==
  ASSUME NEW c, Good(c), NEW r \in EnableReg, NEW v \in SUBSET Bit
  PROVE  LET d == RegSetEnable(c, r, v) IN Announced(c, d) /\ Latched(c, d)
  <1> DEFINE s == Store(c, r, v)
             e == EventOf[r]
             d == RegSetEvent(s, e, s.reg[e])
  <1>1. /\ r \in RegName /\ r \notin {"STB", "SRE"} /\ e \in EventReg /\ e # r /\ e \in RegName
        /\ "STB" \in RegName /\ r \notin EventReg \cup CondReg
    BY Tables
  <1>2. /\ Shape(s) /\ s.sent = c.sent
        /\ \A q \in RegName \ {r} : s.reg[q] = c.reg[q]
    BY <1>1, StoreShape DEF Good
  <1>3. RegSetEnable(c, r, v) = d
    BY DEF RegSetEnable
  <1>4. s.reg[e] \in SUBSET Bit /\ s.reg["STB"] = c.reg["STB"]
    BY <1>1, <1>2 DEF Shape
  <1> HIDE DEF s, e
  <1>5. d.reg[e] = s.reg[e] /\ \A q \in RegName \ {e, "STB"} : d.reg[q] = s.reg[q]
    BY <1>1, <1>2, <1>4, SetEvent
  <1>6. Announced(s, d)
    BY <1>1, <1>2, <1>4, UpdateAnnounced
  <1> HIDE DEF d
  <1>7. Announced(c, d)
    BY <1>2, <1>4, <1>6 DEF Announced
  <1>8. Keeps(c, d, {r})
    BY <1>1, <1>2, <1>5 DEF Keeps
  <1>9. Latched(c, d)
    BY <1>1, <1>8, KeepsLatched
  <1> QED BY <1>3, <1>7, <1>9

(* SCPI_RegSet of SRE *)
LEMMA SreCall ==
  ASSUME NEW c, Good(c), NEW v \in SUBSET Bit
  PROVE  LET d == RegSetSre(c, v) IN Announced(c, d) /\ Latched(c, d)
  <1> DEFINE s == Store(c, "SRE", v)
             d == RegSetStb(s, s.reg["STB"])
  <1>1. "SRE" \in RegName /\ "STB" \in RegName \ {"SRE"}
    BY DEF RegName
  <1>2. /\ Shape(s) /\ s.sent = c.sent
        /\ \A q \in RegName \ {"SRE"} : s.reg[q] = c.reg[q]
    BY <1>1, StoreShape DEF Good
  <1>3. RegSetSre(c, v) = d
    BY DEF RegSetSre
  <1> HIDE DEF s
  <1>4. s.reg["STB"] \in SUBSET Bit /\ s.reg["STB"] = c.reg["STB"]
    BY <1>1, <1>2 DEF Shape
  <1>5. Announced(s, d) /\ \A q \in RegName \ {"STB"} : d.reg[q] = s.reg[q]
    BY <1>2, <1>4, StbAnnounced, SetStb
  <1> HIDE DEF d
  <1>6. Announced(c, d)
    BY <1>2, <1>4, <1>5 DEF Announced
  <1>7. Keeps(c, d, {"SRE"})
    BY <1>2, <1>5 DEF Keeps
  <1>8. Latched(c, d)
    BY <1>7, Tables, KeepsLatched
  <1> QED BY <1>3, <1>6, <1>8

(* SCPI_RegSet of a condition register *)
LEMMA CondCall ==
  ASSUME NEW c, Good(c), NEW r \in CondReg, NEW v \in SUBSET Bit
  PROVE  LET d == RegSetCond(c, r, v) IN Announced(c, d) /\ Latched(c, d)
  <1> DEFINE s == Store(c, r, v)
             e == EventOf[r]
             w == (v \ c.reg[r]) \cup c.reg[EventOf[r]]
             d == RegSetEvent(s, e, w)
  <1>1. /\ r \in RegName /\ r \notin {"STB", "SRE"} /\ e \in EventReg /\ e # r /\ e \in RegName
        /\ e # "STB" /\ "STB" \in RegName
    BY Tables
  <1>2. /\ Shape(s) /\ s.sent = c.sent /\ s.reg[r] = v
        /\ \A q \in RegName \ {r} : s.reg[q] = c.reg[q]
    BY <1>1, StoreShape DEF Good
  <1>3. RegSetCond(c, r, v) = d
    BY DEF RegSetCond
  <1>4. w \in SUBSET Bit /\ s.reg["STB"] = c.reg["STB"]
    BY <1>1, <1>2 DEF Good, Shape
  <1>5. w = (v \ c.reg[r]) \cup c.reg[e] /\ e = EventOf[r]
    OBVIOUS
  <1> HIDE DEF s, e, w
  <1>6. d.reg[e] = w /\ \A q \in RegName \ {e, "STB"} : d.reg[q] = s.reg[q]
    BY <1>1, <1>2, <1>4, SetEvent
  <1>7. Announced(s, d)
    BY <1>1, <1>2, <1>4, UpdateAnnounced
  <1> HIDE DEF d
  <1>8. Announced(c, d)
    BY <1>2, <1>4, <1>7 DEF Announced
  <1>9. /\ d.reg[r] = v
        /\ \A q \in CondReg \ {r} : d.reg[q] = c.reg[q]
        /\ \A q \in EventReg \ {e} : d.reg[q] = c.reg[q]
    <2>1. r \in RegName \ {e, "STB"}
      BY <1>1
    <2>2. ASSUME NEW q \in (CondReg \ {r}) \cup (EventReg \ {e})
          PROVE  d.reg[q] = c.reg[q]
      <3>1. q \in RegName \ {e, "STB"} /\ q \in RegName \ {r}
        BY <1>1, Tables
      <3> QED BY <3>1, <1>2, <1>6
    <2> QED BY <2>1, <2>2, <1>2, <1>6
  <1>10. Latched(c, d)
    BY <1>5, <1>6, <1>9 DEF Latched
  <1> QED BY <1>3, <1>8, <1>10

(* *CLS: four steps down. *)
LEMMA ClsCall ==
  ASSUME NEW c, Good(c)
  PROVE  LET c1 == RegSetEvent(c, "ESR", {})
             c2 == ErrorClear(c1)
             c3 == RegSetEvent(c2, "OPER", {})
             c4 == RegSetEvent(c3, "QUES", {})
         IN  Announced(c, c4) /\ Latched(c, c4)
  <1> DEFINE c1 == RegSetEvent(c, "ESR", {})
             c2 == ErrorClear(c1)
             c3 == RegSetEvent(c2, "OPER", {})
             c4 == RegSetEvent(c3, "QUES", {})
  <1>1. EventReg = {"ESR", "OPER", "QUES"} /\ {} \in SUBSET Bit
    BY DEF EventReg
  <1>2. Good(c1) /\ Announced(c, c1) /\ Rises(c1, c) /\ Keeps(c, c1, {"ESR"}) /\ c1.reg["ESR"] = {}
    BY <1>1, GoodEvent, EventCall, SetEvent DEF Good
  <1> HIDE DEF c1
  <1>3. Good(c2) /\ Announced(c1, c2) /\ Rises(c2, c1) /\ Keeps(c1, c2, {})
    BY <1>2, ClearGood, ClearAnnounced
  <1> HIDE DEF c2
  <1>4. Good(c3) /\ Announced(c2, c3) /\ Rises(c3, c2) /\ Keeps(c2, c3, {"OPER"}) /\ c3.reg["OPER"] = {}
    BY <1>1, <1>3, GoodEvent, EventCall, SetEvent DEF Good
  <1> HIDE DEF c3
  <1>5. Announced(c3, c4) /\ Rises(c4, c3) /\ Keeps(c3, c4, {"QUES"}) /\ c4.reg["QUES"] = {}
    BY <1>1, <1>4, EventCall, SetEvent DEF Good
  <1> HIDE DEF c4
  <1>6. Announced(c, c2) /\ Rises(c2, c)
    BY <1>2, <1>3, Chain DEF Rises
  <1>7. Announced(c, c3) /\ Rises(c3, c)
    BY <1>4, <1>6, Chain DEF Rises
  <1>8. Announced(c, c4)
    BY <1>5, <1>7, Chain
  <1>9. /\ \A q \in CondReg : c4.reg[q] = c.reg[q]
        /\ c4.reg["ESR"] = {} /\ c4.reg["OPER"] = {} /\ c4.reg["QUES"] = {}
    BY <1>2, <1>3, <1>4, <1>5 DEF Keeps, RegName, CondReg, EventReg
  <1>10. Latched(c, c4)
    BY <1>1, <1>9 DEF Latched
  <1> QED BY <1>8, <1>10 DEF c1, c2, c3, c4

(* Answering sends nothing and changes no register. *)
LEMMA ReplySame ==
  ASSUME NEW c, Shape(c), NEW v
  PROVE  Reply(c, v).reg = c.reg /\ Reply(c, v).sent = c.sent
  BY OutputShape, SameSent DEF Reply

(* What was said of a context holds of the same with an answer. *)
LEMMA WithReply ==
  ASSUME NEW c, NEW d, Shape(d), NEW v, Announced(c, d), Latched(c, d)
  PROVE  Announced(c, Reply(d, v)) /\ Latched(c, Reply(d, v))
  BY ReplySame DEF Announced, Latched

(* Nothing was sent in the call that begins. *)
LEMMA CalledSent ==
  ASSUME NEW c, Good(c)
  PROVE  Called(c).sent = <<>>
  <1>1. c = [reg |-> c.reg, queue |-> c.queue, sent |-> c.sent, events |-> c.events,
             reply |-> c.reply]
    BY DEF Good, Shape
  <1>2. PICK g, q, s, e, p :
          c = [reg |-> g, queue |-> q, sent |-> s, events |-> e, reply |-> p]
    BY <1>1
  <1> DEFINE n == <<>>
  <1>3. Called(c) = [c EXCEPT !.sent = n, !.events = n, !.reply = n]
    BY DEF Called
  <1> HIDE DEF n
  <1>4. Called(c).sent = n
    BY <1>2, <1>3
  <1> QED BY <1>4 DEF n

(* What a call does between its beginning and its end. *)
LEMMA NextCall ==
  ASSUME Good(ctx), Next
  PROVE  Announced(Called(ctx), ctx') /\ Latched(Called(ctx), ctx')
  <1> DEFINE c == Called(ctx)
             Call == Announced(c, ctx') /\ Latched(c, ctx')
  <1>1. Good(c) /\ c.reg = ctx.reg /\ c.queue = ctx.queue
    BY CalledGood
  <1>2. Shape(c)
    BY <1>1 DEF Good
  <1>3. Announced(c, c) /\ Latched(c, c)
    BY DEF Announced, Latched
  <1>4. ASSUME NEW err \in Codes, ctx' = ErrorPush(c, err)
        PROVE  Call
    <2>1. Announced(c, ctx') /\ Keeps(c, ctx', {"ESR"}) /\ c.reg["ESR"] \subseteq ctx'.reg["ESR"]
      BY <1>1, <1>4, PushAnnounced
    <2>2. Latched(c, ctx')
      BY <2>1 DEF Keeps, Latched, RegName, EventReg, CondReg
    <2> QED BY <2>1, <2>2
  <1>5. CASE AppSetMav \/ AppClearMav
    <2>1. STB_MAV \in Bit \ {STB_SRQ} /\ Service(c)
      BY <1>1, Tables DEF Good
    <2>2. ctx' = RegSetStbBits(c, {STB_MAV}) \/ ctx' = RegClearStbBits(c, {STB_MAV})
      BY <1>5 DEF AppSetMav, AppClearMav
    <2>3. Announced(c, ctx') /\ StbOnly(c, ctx', {STB_MAV, STB_SRQ})
      BY <1>2, <2>1, <2>2, BitAnnounced, SetStbBit
    <2>4. Keeps(c, ctx', {})
      BY <2>3 DEF StbOnly, Keeps
    <2> QED BY <2>3, <2>4, KeepsLatched
  <1>6. CASE \E err \in AppCodes : AppPush(err)
    BY <1>4, <1>6 DEF AppPush, Codes
  <1>7. CASE EnableNoParam
    BY <1>4, <1>7, CodesFacts DEF EnableNoParam
  <1>8. CASE \E r \in CondReg, v \in CondValues : AppSetCond(r, v)
    BY <1>1, <1>8, CondCall, ValuesAssumption DEF AppSetCond, Bit
  <1>9. CASE CoreCls
    BY <1>1, <1>9, ClsCall DEF CoreCls
  <1>10. CASE \E r \in EnableReg, v \in EnableValues : SetEnable(r, v)
    BY <1>1, <1>10, ToRegValType, EnableCall DEF SetEnable
  <1>11. CASE \E v \in SreValues : CoreSre(v)
    BY <1>1, <1>11, ToRegValType, SreCall DEF CoreSre
  <1>12. ASSUME NEW r \in EventReg, EventQ(r)
         PROVE  Call
    <2> DEFINE b == Reply(c, ctx.reg[r])
    <2>1. Good(b) /\ b.reg = c.reg /\ b.sent = c.sent
      BY <1>1, <1>2, CalledGood, ReplySame
    <2>2. ctx' = RegSetEvent(b, r, {})
      BY <1>12 DEF EventQ
    <2> HIDE DEF b
    <2>3. Announced(b, ctx') /\ Latched(b, ctx')
      BY <2>1, <2>2, EventCall
    <2> QED BY <2>1, <2>3 DEF Announced, Latched
  <1>13. CASE \E r \in EnableReg \cup CondReg \cup {"STB", "SRE"} : RegisterQ(r)
    BY <1>2, <1>3, <1>13, WithReply DEF RegisterQ
  <1>14. CASE SystemErrorCountQ
    BY <1>2, <1>3, <1>14, WithReply DEF SystemErrorCountQ
  <1>15. CASE CoreOpc
    <2>1. "ESR" \in EventReg /\ "ESR" \in RegName /\ {ESR_OPC} \subseteq Bit
      BY DEF EventReg, RegName, ESR_OPC, Bit
    <2>2. ctx.reg["ESR"] \cup {ESR_OPC} \in SUBSET Bit
      BY <2>1, RegType
    <2>3. ctx' = RegSetEvent(c, "ESR", ctx.reg["ESR"] \cup {ESR_OPC})
      BY <1>15 DEF CoreOpc
    <2>4. c.reg["ESR"] \subseteq ctx.reg["ESR"] \cup {ESR_OPC}
      BY <1>1
    <2> QED BY <1>1, <2>1, <2>2, <2>3, <2>4, EventCall
  <1>16. CASE StatusPreset
    <2>1. "QUES" \in EventReg /\ {} \in SUBSET Bit
      BY DEF EventReg
    <2> QED BY <1>1, <1>16, <2>1, EventCall DEF StatusPreset
  <1>17. CASE SystemErrorNextQ
    <2> DEFINE d == ErrorPop(c)
               v == IF ctx.queue = <<>> THEN 0 ELSE Head(ctx.queue)
    <2>1. Announced(c, d) /\ Keeps(c, d, {}) /\ Good(d)
      BY <1>1, PopAnnounced, PopGood
    <2>2. ctx' = Reply(d, v)
      BY <1>17 DEF SystemErrorNextQ
    <2> HIDE DEF d, v
    <2>3. Latched(c, d)
      BY <2>1, KeepsLatched
    <2> QED BY <2>1, <2>2, <2>3, WithReply DEF Good
  <1> HIDE DEF c, Call
  <1>18. QED
    BY <1>5, <1>6, <1>7, <1>8, <1>9, <1>10, <1>11, <1>12, <1>13, <1>14, <1>15, <1>16, <1>17
    DEF Next, Call, c

-----------------------------------------------------------------------------
(* A call that leaves the status byte changed and asking for service has
   given that status byte to the controller as its last request, and one that
   leaves it as it was sends none: for every queue size and set of codes. *)
THEOREM ScpiStatusServiceAnnounced == Spec => ServiceAnnounced
  <1> DEFINE Step == /\ reg'["STB"] # reg["STB"] /\ STB_SRQ \in reg'["STB"]
                          => /\ ctx'.sent # <<>>
                             /\ ctx'.sent[Len(ctx'.sent)] = reg'["STB"]
                     /\ reg'["STB"] = reg["STB"] => ctx'.sent = <<>>
  <1>1. Good(ctx) /\ [Next]_vars => [Step]_vars
    <2>1. ASSUME Good(ctx), Next
          PROVE  Step
      <3>1. Announced(Called(ctx), ctx')
        BY <2>1, NextCall
      <3>2. Called(ctx).reg = ctx.reg /\ Called(ctx).sent = <<>>
        BY <2>1, CalledGood, CalledSent
      <3> QED BY <3>1, <3>2 DEF Announced, reg
    <2> HIDE DEF Step
    <2> QED BY <2>1
  <1>2. ServiceAnnounced <=> [][Step]_vars
    BY DEF ServiceAnnounced
  <1> HIDE DEF Step
  <1> QED BY <1>1, <1>2, ScpiStatusGood, PTL DEF Spec

(* Rising conditions are latched, and events are cleared all at once. *)
THEOREM ScpiStatusEventsLatched == Spec => EventsLatched
  <1> DEFINE Step == /\ \A r \in CondReg : reg'[r] # reg[r] =>
                           reg[EventOf[r]] \cup (reg'[r] \ reg[r]) \subseteq reg'[EventOf[r]]
                     /\ \A r \in EventReg : reg[r] \subseteq reg'[r] \/ reg'[r] = {}
  <1>1. Good(ctx) /\ [Next]_vars => [Step]_vars
    <2>1. ASSUME Good(ctx), Next
          PROVE  Step
      <3>1. Latched(Called(ctx), ctx')
        BY <2>1, NextCall
      <3>2. Called(ctx).reg = ctx.reg
        BY <2>1, CalledGood
      <3> QED BY <3>1, <3>2 DEF Latched, reg
    <2> HIDE DEF Step
    <2> QED BY <2>1
  <1>2. EventsLatched <=> [][Step]_vars
    BY DEF EventsLatched
  <1> HIDE DEF Step
  <1> QED BY <1>1, <1>2, ScpiStatusGood, PTL DEF Spec
=============================================================================
