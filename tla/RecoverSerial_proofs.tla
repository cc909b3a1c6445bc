------------------------- MODULE RecoverSerial_proofs -------------------------
(***************************************************************************)
(* How long a dead descriptor is kept, for every MaxEmpty.  deadReads      *)
(* alone says nothing about the reads to come; what bounds them is cnt,    *)
(* which each empty read raises and which is never ahead of its limit.     *)
(***************************************************************************)
EXTENDS RecoverSerial, TLAPS

(* While a dead descriptor is read, cnt has counted every read of it but the
   one that is being checked; a descriptor about to be closed may have had
   one more. *)
Counted ==
  fd = "dead" => /\ pc = "read"  => deadReads <= cnt
                 /\ pc = "check" => deadReads <= cnt + 1
                 /\ pc = "close" => deadReads <= MaxEmpty + 1

(* Outside of the loop's read and check nothing is open. *)
Closed == pc \in {"start", "open", "exit"} => fd = "none"

IInv == TypeOK /\ Counted /\ Closed

(* The inductive invariant holds when main begins, *)
LEMMA InitIInv == Init => IInv
BY BoundsAssumption DEF Init, IInv, TypeOK, Counted, Closed

(* Opening leaves no dead descriptor, so Counted has nothing to say. *)
LEMMA OpensIInv ==
  ASSUME IInv, NEW failure \in {"read", "exit"}, Opens("read", failure)
  PROVE  IInv'
BY BoundsAssumption DEF Opens, IInv, TypeOK, Counted, Closed

(* and no step of main, of the device or of a signal breaks it. *)
LEMMA NextIInv == IInv /\ [Next]_vars => IInv'
<1> SUFFICES ASSUME IInv, [Next]_vars PROVE IInv'
  OBVIOUS
<1> USE BoundsAssumption DEF IInv, TypeOK, Counted, Closed
<1>1. CASE Start
  BY <1>1, OpensIInv DEF Start
<1>2. CASE ReadLine
  BY <1>2 DEF ReadLine
<1>3. CASE ReadNothing
  <2>1. CASE fd = "live"
    BY <1>3, <2>1 DEF ReadNothing
  <2>2. CASE fd = "dead"
    BY <1>3, <2>2 DEF ReadNothing
  <2>3. CASE fd = "none"
    BY <1>3, <2>3 DEF ReadNothing
  <2> QED BY <2>1, <2>2, <2>3
<1>4. CASE CheckFails
  BY <1>4 DEF CheckFails
<1>5. CASE CheckCounts
  <2>1. CASE cnt + 1 > MaxEmpty
    BY <1>5, <2>1 DEF CheckCounts, Enough
  <2>2. CASE ~ (cnt + 1 > MaxEmpty)
    BY <1>5, <2>2 DEF CheckCounts, Enough
  <2> QED BY <2>1, <2>2
<1>6. CASE Close
  BY <1>6 DEF Close
<1>7. CASE Open
  BY <1>7, OpensIInv DEF Open
<1>8. CASE SendLine
  BY <1>8 DEF SendLine
<1>9. CASE Unplug
  <2>1. TypeOK'
    <3>1. plugged' \in BOOLEAN
      BY <1>9, Zenon DEF Unplug
    <3>2. fd' \in {"none", "live", "dead"}
      BY <1>9 DEF Unplug
    <3>3. inbox' \in 0 .. MaxLines /\ deadReads' \in Nat
      BY <1>9 DEF Unplug
    <3> QED BY <1>9, <3>1, <3>2, <3>3 DEF Unplug
  <2>2. Counted'
    BY <1>9 DEF Unplug
  <2>3. Closed'
    BY <1>9 DEF Unplug
  <2> QED BY <2>1, <2>2, <2>3
<1>10. CASE Plug
  BY <1>10 DEF Plug
<1>11. CASE UNCHANGED vars
  BY <1>11 DEF vars
<1> QED BY <1>1, <1>2, <1>3, <1>4, <1>5, <1>6, <1>7, <1>8, <1>9, <1>10, <1>11 DEF Next, Program

(* The program gives a dead descriptor up after at most MaxEmpty + 1 reads,
   whatever cnt was left at before the device went (recover_serial.cpp:141). *)
THEOREM RecoverSerialDeadGivenUp == Spec => []DeadGivenUp
<1>1. IInv => DeadGivenUp
  BY BoundsAssumption DEF IInv, TypeOK, Counted, Closed, DeadGivenUp
<1> QED BY <1>1, InitIInv, NextIInv, PTL DEF Spec
=============================================================================
