----------------------------- MODULE ScpiStatus -----------------------------
(***************************************************************************)
(* The IEEE 488.2 / SCPI status model of scpi-parser: the ten registers of *)
(* ieee488.c with the summary bits of the status byte, the error queue as  *)
(* error.c ties it to them (as a sequence: ErrorFifo shows that the ring   *)
(* is one), and the handlers of ieee488.c and minimal.c that use them.     *)
(*                                                                         *)
(* A register value is the set of the positions of its 1 bits.  Setting    *)
(* one register cascades into others and may call the application's        *)
(* control callback in the middle; an operation below is a function from   *)
(* contexts to contexts, in the order of the calls of the code.            *)
(***************************************************************************)
EXTENDS Integers, Sequences

CONSTANTS AppCodes,     \* error codes the application or the parser pushes
          QueueSize,    \* error_queue_size of SCPI_Init
          EnableValues, \* 32-bit parameter values of *ESE and STATus:...:ENABle
          SreValues,    \* the same for *SRE
          CondValues    \* values of the condition registers

ASSUME QueueAssumption == QueueSize \in Nat \ {0}
ASSUME CodesAssumption == AppCodes \subseteq Int
ASSUME ValuesAssumption == /\ EnableValues \subseteq SUBSET (0 .. 31)
                           /\ SreValues \subseteq SUBSET (0 .. 31)
                           /\ CondValues \subseteq SUBSET (0 .. 15)

VARIABLE ctx  \* the parts of scpi_t that matter, and what the last call did

vars == <<ctx>>

Bit == 0 .. 15  \* scpi_reg_val_t is a uint16_t

(* Bits of STB and ESR, by position. *)
STB_QMA == 2
STB_QES == 3
STB_MAV == 4
STB_ESR == 5
STB_SRQ == 6
STB_OPS == 7

ESR_OPC == 0
ESR_REQ == 1
ESR_QER == 2
ESR_DER == 3
ESR_EER == 4
ESR_CER == 5
ESR_URQ == 6
ESR_PON == 7

MISSING_PARAMETER == 0 - 109
QUEUE_OVERFLOW == 0 - 350

Codes == AppCodes \cup {MISSING_PARAMETER, QUEUE_OVERFLOW}

EventReg == {"ESR", "OPER", "QUES"}
EnableReg == {"ESE", "OPERE", "QUESE"}
CondReg == {"OPERC", "QUESC"}
RegName == EventReg \cup EnableReg \cup CondReg \cup {"STB", "SRE"}

EnableOf == [r \in EventReg |-> CASE r = "ESR" -> "ESE"
                                  [] r = "OPER" -> "OPERE"
                                  [] r = "QUES" -> "QUESE"]

SummaryBit == [r \in EventReg |-> CASE r = "ESR" -> STB_ESR
                                    [] r = "OPER" -> STB_OPS
                                    [] r = "QUES" -> STB_QES]

EventOf == [r \in EnableReg \cup CondReg |->
              CASE r = "ESE" -> "ESR"
                [] r \in {"OPERE", "OPERC"} -> "OPER"
                [] r \in {"QUESE", "QUESC"} -> "QUES"]

(* Seeded fault: the value is not cut. *)
ToRegVal_Whole(v) == v

(* The cast of an int32_t to scpi_reg_val_t *)
ToRegVal(v) == v \cap Bit

-----------------------------------------------------------------------------
(* The context: reg, the registers; queue, the error queue; and the outputs
   of the call in progress: sent, the status bytes given to the control
   callback with SCPI_CTRL_SRQ; events, the arguments of the error callback;
   reply, what a query wrote. *)

Store(c, r, v) == [c EXCEPT !.reg = [c.reg EXCEPT ![r] = v]]

Called(c) == [c EXCEPT !.sent = <<>>, !.events = <<>>, !.reply = <<>>]

Reply(c, v) == [c EXCEPT !.reply = <<v>>]

(* Seeded faults of the status byte: a service request that is not dropped
   with its cause; one that is sent for the first cause only. *)
RegSetStb_KeepsSrq(c, v) ==
  LET cause == v \cap (c.reg["SRE"] \ {STB_SRQ})
      new   == IF cause # {} THEN v \cup {STB_SRQ} ELSE v
  IN  IF cause # {} /\ new # c.reg["STB"]
      THEN [Store(c, "STB", new) EXCEPT !.sent = Append(c.sent, new)]
      ELSE Store(c, "STB", new)

RegSetStb_OnlyRising(c, v) ==
  LET cause == v \cap (c.reg["SRE"] \ {STB_SRQ})
      new   == IF cause # {} THEN v \cup {STB_SRQ} ELSE v \ {STB_SRQ}
  IN  IF cause # {} /\ STB_SRQ \notin c.reg["STB"]
      THEN [Store(c, "STB", new) EXCEPT !.sent = Append(c.sent, new)]
      ELSE Store(c, "STB", new)

(* SCPI_RegSet(SCPI_REG_STB, v): SRQ follows the enabled bits, and a changed
   status byte that asks for service goes to the control callback. *)
RegSetStb(c, v) ==
  LET cause == v \cap (c.reg["SRE"] \ {STB_SRQ})
      new   == IF cause # {} THEN v \cup {STB_SRQ} ELSE v \ {STB_SRQ}
  IN  IF cause # {} /\ new # c.reg["STB"]
      THEN [Store(c, "STB", new) EXCEPT !.sent = Append(c.sent, new)]
      ELSE Store(c, "STB", new)

RegSetStbBits(c, b) == RegSetStb(c, c.reg["STB"] \cup b)

RegClearStbBits(c, b) == RegSetStb(c, c.reg["STB"] \ b)

(* SCPI_RegSet(SCPI_REG_SRE, v) *)
RegSetSre(c, v) == LET d == Store(c, "SRE", v) IN RegSetStb(d, d.reg["STB"])

(* regUpdateSTB *)
UpdateStb(c, v, mask, bit) == IF v \cap c.reg[mask] # {}
                              THEN RegSetStbBits(c, {bit})
                              ELSE RegClearStbBits(c, {bit})

(* SCPI_RegSet of an event register: ESR, OPER or QUES *)
RegSetEvent(c, r, v) == UpdateStb(Store(c, r, v), v, EnableOf[r], SummaryBit[r])

(* Seeded fault: the summary bit waits for the next event. *)
RegSetEnable_NoUpdate(c, r, v) == Store(c, r, v)

(* SCPI_RegSet of an enable register: ESE, OPERE or QUESE *)
RegSetEnable(c, r, v) == LET d == Store(c, r, v)
                         IN  RegSetEvent(d, EventOf[r], d.reg[EventOf[r]])

(* Seeded fault: the event register follows the condition. *)
RegSetCond_NoLatch(c, r, v) == RegSetEvent(Store(c, r, v), EventOf[r], v)

(* SCPI_RegSet of a condition register: the bits that rise are latched
   (regUpdateEvent) *)
RegSetCond(c, r, v) == RegSetEvent(Store(c, r, v), EventOf[r],
                                   (v \ c.reg[r]) \cup c.reg[EventOf[r]])

-----------------------------------------------------------------------------
(* error.c *)

(* The rows of errs[]. *)
errs == {[from |-> 0 - 100, to |-> 0 - 199, esrBit |-> ESR_CER],
         [from |-> 0 - 200, to |-> 0 - 299, esrBit |-> ESR_EER],
         [from |-> 0 - 300, to |-> 0 - 399, esrBit |-> ESR_DER],
         [from |-> 1,       to |-> 32767,   esrBit |-> ESR_DER],
         [from |-> 0 - 400, to |-> 0 - 499, esrBit |-> ESR_QER],
         [from |-> 0 - 500, to |-> 0 - 599, esrBit |-> ESR_PON],
         [from |-> 0 - 600, to |-> 0 - 699, esrBit |-> ESR_URQ],
         [from |-> 0 - 700, to |-> 0 - 799, esrBit |-> ESR_REQ],
         [from |-> 0 - 800, to |-> 0 - 899, esrBit |-> ESR_OPC]}

(* What SCPI_ErrorPushEx sets in ESR for error err. *)
EsrBits(err) == {e.esrBit : e \in {x \in errs : err <= x.from /\ err >= x.to}}

ErrorEmit(c, err) == [RegSetStbBits(c, {STB_QMA}) EXCEPT !.events = Append(c.events, err)]

(* Seeded fault: the bit goes with every entry that is read. *)
ErrorEmitEmpty_Always(c) ==
  [RegClearStbBits(c, {STB_QMA}) EXCEPT !.events = Append(c.events, 0)]

ErrorEmitEmpty(c) ==
  IF c.queue = <<>> /\ STB_QMA \in c.reg["STB"]
  THEN [RegClearStbBits(c, {STB_QMA}) EXCEPT !.events = Append(c.events, 0)]
  ELSE c

ErrorClear(c) == ErrorEmitEmpty([c EXCEPT !.queue = <<>>])

(* SCPI_ErrorAddInternal; ErrorFifo has the ring and the texts. *)
IsFull(c) == Len(c.queue) = QueueSize

ErrorAdd(c, err) ==
  [c EXCEPT !.queue = IF IsFull(c)
                      THEN [c.queue EXCEPT ![QueueSize] = QUEUE_OVERFLOW]
                      ELSE Append(c.queue, err)]

(* SCPI_ErrorPushEx; its cmd_error flag is read by the parser only. *)
ErrorPush(c, err) ==
  LET c1 == ErrorAdd(c, err)
      c2 == IF EsrBits(err) # {}
            THEN RegSetEvent(c1, "ESR", c1.reg["ESR"] \cup EsrBits(err))
            ELSE c1
      c3 == ErrorEmit(c2, err)
  IN  IF IsFull(c) THEN ErrorEmit(c3, QUEUE_OVERFLOW) ELSE c3

ErrorPop(c) ==
  ErrorEmitEmpty([c EXCEPT !.queue = IF c.queue = <<>> THEN <<>> ELSE Tail(c.queue)])

-----------------------------------------------------------------------------
(* The application: errors, conditions and the message available bit. *)

AppPush(err) == ctx' = ErrorPush(Called(ctx), err)

AppSetCond(r, v) == ctx' = RegSetCond(Called(ctx), r, v)

AppSetMav == ctx' = RegSetStbBits(Called(ctx), {STB_MAV})

AppClearMav == ctx' = RegClearStbBits(Called(ctx), {STB_MAV})

(* The host's commands (ieee488.c, minimal.c). *)

(* *CLS *)
CoreCls ==
  LET c1 == RegSetEvent(Called(ctx), "ESR", {})
      c2 == ErrorClear(c1)
      c3 == RegSetEvent(c2, "OPER", {})
  IN  ctx' = RegSetEvent(c3, "QUES", {})

(* *ESE, STATus:OPERation:ENABle, STATus:QUEStionable:ENABle *)
SetEnable(r, v) == ctx' = RegSetEnable(Called(ctx), r, ToRegVal(v))

(* *SRE *)
CoreSre(v) == ctx' = RegSetSre(Called(ctx), ToRegVal(v))

(* Either without its parameter: SCPI_ParamInt32 pushes the error and no
   register is set. *)
EnableNoParam == ctx' = ErrorPush(Called(ctx), MISSING_PARAMETER)

(* *ESR?, STATus:OPERation[:EVENt]?, STATus:QUEStionable[:EVENt]?: the
   register is written to the host and cleared. *)
EventQ(r) == ctx' = RegSetEvent(Reply(Called(ctx), ctx.reg[r]), r, {})

(* *STB?, *SRE?, *ESE?, ...:ENABle?, ...:CONDition? *)
RegisterQ(r) == ctx' = Reply(Called(ctx), ctx.reg[r])

(* *OPC *)
CoreOpc == ctx' = RegSetEvent(Called(ctx), "ESR", ctx.reg["ESR"] \cup {ESR_OPC})

(* STATus:PRESet *)
StatusPreset == ctx' = RegSetEvent(Called(ctx), "QUES", {})

(* SYSTem:ERRor[:NEXT]?, 0 on an empty queue *)
SystemErrorNextQ ==
  ctx' = Reply(ErrorPop(Called(ctx)), IF ctx.queue = <<>> THEN 0 ELSE Head(ctx.queue))

(* SYSTem:ERRor:COUNt? *)
SystemErrorCountQ == ctx' = Reply(Called(ctx), Len(ctx.queue))

-----------------------------------------------------------------------------
(* SCPI_Init clears the whole context. *)
Init == ctx = [reg    |-> [r \in RegName |-> {}],
               queue  |-> <<>>,
               sent   |-> <<>>,
               events |-> <<>>,
               reply  |-> <<>>]

Next == \/ \E err \in AppCodes : AppPush(err)
        \/ \E r \in CondReg, v \in CondValues : AppSetCond(r, v)
        \/ AppSetMav
        \/ AppClearMav
        \/ CoreCls
        \/ \E r \in EnableReg, v \in EnableValues : SetEnable(r, v)
        \/ \E v \in SreValues : CoreSre(v)
        \/ EnableNoParam
        \/ \E r \in EventReg : EventQ(r)
        \/ \E r \in EnableReg \cup CondReg \cup {"STB", "SRE"} : RegisterQ(r)
        \/ CoreOpc
        \/ StatusPreset
        \/ SystemErrorNextQ
        \/ SystemErrorCountQ

Spec == Init /\ [][Next]_vars

-----------------------------------------------------------------------------
(* Properties *)

reg == ctx.reg

(* Registers hold 16 bits whatever 32-bit value a command gives, and the
   error queue stays within its size. *)
TypeOK == /\ reg \in [RegName -> SUBSET Bit]
          /\ ctx.queue \in Seq(Codes)
          /\ Len(ctx.queue) <= QueueSize
          /\ ctx.sent \in Seq(SUBSET Bit)

(* The summary bits of the status byte are those of the event registers
   under their enable masks, whichever of the three was changed last. *)
SummaryInv == \A r \in EventReg :
                SummaryBit[r] \in reg["STB"] <=> reg[r] \cap reg[EnableOf[r]] # {}

(* The status byte asks for service exactly while an enabled bit is set. *)
ServiceInv == STB_SRQ \in reg["STB"] <=> reg["STB"] \cap (reg["SRE"] \ {STB_SRQ}) # {}

(* A host that polls *STB? knows when SYSTem:ERRor? has something for it:
   the queue message available bit and the queue agree. *)
QueueBitInv == STB_QMA \in reg["STB"] <=> ctx.queue # <<>>

(* A call that leaves the status byte changed and asking for service has
   given exactly that status byte to the controller as its last request; the
   controller is not interrupted when the status byte stays as it was ("avoid
   sending SRQ if nothing has changed", ieee488.c:134), even where a call sets
   and clears it several times. *)
ServiceAnnounced ==
  [][ /\ reg'["STB"] # reg["STB"] /\ STB_SRQ \in reg'["STB"]
         => /\ ctx'.sent # <<>>
            /\ ctx'.sent[Len(ctx'.sent)] = reg'["STB"]
      /\ reg'["STB"] = reg["STB"] => ctx'.sent = <<>> ]_vars

(* A condition that rises is latched in its event register, where no change
   of the condition removes an event; event bits go only all at once, with a
   query, a preset or *CLS, never one by one. *)
EventsLatched ==
  [][ /\ \A r \in CondReg : reg'[r] # reg[r] =>
            reg[EventOf[r]] \cup (reg'[r] \ reg[r]) \subseteq reg'[EventOf[r]]
      /\ \A r \in EventReg : reg[r] \subseteq reg'[r] \/ reg'[r] = {} ]_vars

(* error.c:161: a "Device designer provided specific error 1, 32767" sets
   the device dependent error bit of ESR. *)
PositiveErrorsSetDer ==
  [][\A err \in AppCodes \cap (1 .. 32767) :
       AppPush(err) => ESR_DER \in reg'["ESR"]]_vars
=============================================================================
