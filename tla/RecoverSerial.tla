---------------------------- MODULE RecoverSerial ----------------------------
(***************************************************************************)
(* recover_serial: a program that prints the lines of a serial device and  *)
(* reopens the port when the device has been away (a USB device that       *)
(* reboots).  The kernel does not tell: a descriptor of a device that is   *)
(* gone can be read, and gives nothing, and fstat finds nothing wrong with *)
(* it.  So the program counts reads that gave nothing, and takes a new     *)
(* descriptor after MaxEmpty of them.                                      *)
(***************************************************************************)
EXTENDS Naturals

CONSTANTS MaxEmpty,  \* 30 in the code
          MaxLines,  \* bound on the lines that wait in the driver
          MaxStray   \* bound on empty reads of a device that is there

ASSUME BoundsAssumption == MaxEmpty \in Nat /\ MaxLines \in Nat \ {0} /\ MaxStray \in Nat

VARIABLES
  pc,       \* where main is: start, read, check, close, open, exit
  fd,       \* none (-1), live, or dead: opened on a device that is gone
  cnt,
  (* the world *)
  plugged,
  inbox,    \* the number of lines that can be read
  stray,    \* the empty reads of a live descriptor so far
  deadReads \* the reads of the dead descriptor so far

vars == <<pc, fd, cnt, plugged, inbox, stray, deadReads>>

(* open(2) on the name of the port: it fails without a device, and may fail
   with one (its name is there before anybody may use it). *)
Opens(success, failure) ==
  /\ \/ plugged /\ fd' = "live" /\ pc' = success
     \/ fd' = "none" /\ pc' = failure
  /\ inbox' = 0
  /\ deadReads' = 0
  /\ UNCHANGED <<cnt, plugged, stray>>

(* The first serialportsetup; without a port the program ends. *)
Start == pc = "start" /\ Opens("read", "exit")

(* read(2) gives a line, which is printed. *)
ReadLine ==
  /\ pc = "read"
  /\ fd = "live" /\ inbox > 0
  /\ inbox' = inbox - 1
  /\ UNCHANGED <<pc, fd, cnt, plugged, stray, deadReads>>

(* read(2) gives 0 or -1: always on a descriptor that is none or dead, and
   now and then on a live one (an end-of-file character, a signal). *)
ReadNothing ==
  /\ pc = "read"
  /\ \/ fd = "live" /\ stray < MaxStray /\ stray' = stray + 1 /\ UNCHANGED deadReads
     \/ fd = "dead" /\ deadReads' = deadReads + 1 /\ UNCHANGED stray
     \/ fd = "none" /\ UNCHANGED <<stray, deadReads>>
  /\ pc' = "check"
  /\ UNCHANGED <<fd, cnt, plugged, inbox>>

(* fstat fails only on -1: there is nothing but to try again. *)
CheckFails ==
  /\ pc = "check"
  /\ fd = "none"
  /\ pc' = "close"
  /\ UNCHANGED <<fd, cnt, plugged, inbox, stray, deadReads>>

(* Seeded fault: one read too many. *)
Enough_Late(n) == n > MaxEmpty + 1

Enough(n) == n > MaxEmpty

(* fstat finds nothing: count, and reopen when it has been enough. *)
CheckCounts ==
  /\ pc = "check"
  /\ fd # "none"
  /\ IF Enough(cnt + 1) THEN cnt' = 0 /\ pc' = "close" ELSE cnt' = cnt + 1 /\ pc' = "read"
  /\ UNCHANGED <<fd, plugged, inbox, stray, deadReads>>

Close ==
  /\ pc = "close"
  /\ fd' = "none"
  /\ inbox' = 0
  /\ deadReads' = 0
  /\ pc' = "open"
  /\ UNCHANGED <<cnt, plugged, stray>>

(* Seeded fault: without a port the program gives up, as at its start. *)
Open_OrExit == pc = "open" /\ Opens("read", "exit")

(* serialportsetup in the loop; a failure is found by the next read. *)
Open == pc = "open" /\ Opens("read", "read")

Program == Start \/ ReadLine \/ ReadNothing \/ CheckFails \/ CheckCounts \/ Close \/ Open

-----------------------------------------------------------------------------
(* The device *)

(* A line for a port that nobody has open is lost. *)
SendLine ==
  /\ plugged
  /\ fd = "live" /\ inbox < MaxLines
  /\ inbox' = inbox + 1
  /\ UNCHANGED <<pc, fd, cnt, plugged, stray, deadReads>>

Unplug ==
  /\ plugged
  /\ plugged' = FALSE
  /\ fd' = IF fd = "live" THEN "dead" ELSE fd
  /\ inbox' = 0
  /\ deadReads' = 0
  /\ UNCHANGED <<pc, cnt, stray>>

Plug ==
  /\ ~ plugged
  /\ plugged' = TRUE
  /\ UNCHANGED <<pc, fd, cnt, inbox, stray, deadReads>>

-----------------------------------------------------------------------------
Init == /\ pc = "start"
        /\ fd = "none"
        /\ cnt = 0
        /\ plugged \in BOOLEAN
        /\ inbox = 0
        /\ stray = 0
        /\ deadReads = 0

Next == Program \/ SendLine \/ Unplug \/ Plug

(* The loop runs on; a device that is there can be opened sooner or later,
   however often that fails, and sends its lines whenever it is heard. *)
Spec == /\ Init /\ [][Next]_vars
        /\ WF_vars(Program)
        /\ SF_vars(Open /\ fd' = "live")
        /\ SF_vars(SendLine)

-----------------------------------------------------------------------------
(* Properties *)

TypeOK == /\ pc \in {"start", "read", "check", "close", "open", "exit"}
          /\ fd \in {"none", "live", "dead"}
          /\ cnt \in 0 .. MaxEmpty
          /\ plugged \in BOOLEAN
          /\ inbox \in 0 .. MaxLines
          /\ stray \in 0 .. MaxStray
          /\ deadReads \in Nat

(* The descriptor of a device that is gone is soon given up, so that the
   kernel can give its name to the device that comes back: after at most
   MaxEmpty + 1 reads, whatever cnt was left at before the device went
   (recover_serial.cpp:141). *)
DeadGivenUp == fd = "dead" => deadReads <= MaxEmpty + 1

(* After every outage, and after ports that could not be opened, lines are
   read again: once the program has come up, a device that stays is heard for
   ever (the loop of main, recover_serial.cpp:117). *)
HeardAgain == <>[]plugged /\ <>(pc = "read") => []<><<ReadLine>>_vars
=============================================================================
