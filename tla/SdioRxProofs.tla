---------------------------- MODULE SdioRxProofs ----------------------------
(***************************************************************************)
(* Proofs about the receive side, for queues of any length and any number  *)
(* of interrupts.                                                          *)
(***************************************************************************)
EXTENDS SdioRx, TLAPS

\* The blocks are numbered in the order of their arrival: those in the queue are
\* younger than the one in the thread's hands, which is younger than the last one
\* handled.
Numbered ==
    /\ \A i, j \in DOMAIN rxq : i < j => rxq[i] < rxq[j]
    /\ \A i \in DOMAIN rxq : rxq[i] <= arrived /\ rxq[i] > handled
    /\ handled <= arrived
    /\ rx = "handle" => /\ skb > handled /\ skb <= arrived
                        /\ \A i \in DOMAIN rxq : rxq[i] > skb

\* Whatever fails, the counter does not fall below what there is to do.
Floor == rx # "gone" => rx_cnt >= Len(rxq) + Handling - Uncounted

IInv == TypeOK /\ Floor /\ CountRight /\ NoBlockLeft /\ Numbered

\* Appending a block that is younger than all the others keeps the numbering.
LEMMA IrqReadStep == ASSUME IInv, IrqRead PROVE IInv'
<1> USE SdioRxAssumption DEF IInv, IrqRead
<1>1. CASE rxq' = Append(rxq, arrived') /\ irq' = "count"
  <2> USE <1>1
  <2>1. TypeOK'
    BY DEF TypeOK
  <2>2. Len(rxq') = Len(rxq) + 1 /\ DOMAIN rxq' = 1 .. Len(rxq) + 1
    BY DEF TypeOK
  <2>3. \A i \in 1 .. Len(rxq) : rxq'[i] = rxq[i]
    BY DEF TypeOK
  <2>4. rxq'[Len(rxq) + 1] = arrived + 1
    BY DEF TypeOK
  <2>5. CountRight' /\ Floor'
    BY <2>2 DEF CountRight, Floor, Handling, Uncounted, TypeOK
  <2>6. NoBlockLeft'
    BY <2>2 DEF NoBlockLeft, TypeOK
  <2>7. Numbered'
    BY <2>2, <2>3, <2>4 DEF Numbered, TypeOK
  <2>8. QED  BY <2>1, <2>5, <2>6, <2>7
<1>2. CASE irq' = "check" /\ UNCHANGED rxq
  BY <1>2 DEF TypeOK, Floor, CountRight, NoBlockLeft, Numbered, Handling, Uncounted
<1>3. QED  BY <1>1, <1>2

\* Counting the block catches up with the queue.
LEMMA IrqCountStep == ASSUME IInv, IrqCount PROVE IInv'
BY DEF IInv, IrqCount, TypeOK, Floor, CountRight, NoBlockLeft, Numbered, Handling,
       Uncounted

\* If the thread sleeps over the only block, the counter is 1 and it is triggered.
LEMMA IrqCheckStep == ASSUME IInv, IrqCheck PROVE IInv'
<1> USE DEF IInv, IrqCheck
<1>1. TypeOK' /\ Floor' /\ Numbered' /\ CountRight'
  BY DEF TypeOK, Floor, Numbered, CountRight, Handling, Uncounted
<1>2. NoBlockLeft'
  <2> SUFFICES ASSUME ~failed, rx = "idle", rx_trgg' = 0, rxq # <<>>, bus = "UP"
               PROVE  FALSE
    BY DEF NoBlockLeft
  <2>1. rx_trgg = 0 /\ rx_cnt # 1
    BY DEF TypeOK
  <2>2. Len(rxq) = 1
    BY <2>1 DEF NoBlockLeft
  <2>3. rx_cnt = 1
    BY <2>2 DEF CountRight, Handling, Uncounted
  <2>4. QED  BY <2>1, <2>3
<1>3. QED  BY <1>1, <1>2

\* The thread takes the trigger over.
LEMMA RxWakeStep == ASSUME IInv, RxWake PROVE IInv'
BY DEF IInv, RxWake, TypeOK, Floor, CountRight, NoBlockLeft, Numbered, Handling,
       Uncounted

\* The thread goes to sleep over an empty queue, or takes the oldest block.
LEMMA RxTakeStep == ASSUME IInv, RxTake PROVE IInv'
<1> USE DEF IInv, RxTake
<1>1. CASE rxq = <<>>
  BY <1>1 DEF TypeOK, Floor, CountRight, NoBlockLeft, Numbered, Handling, Uncounted
<1>2. CASE rxq # <<>>
  <2> USE <1>2
  <2>1. rxq \in Seq(Nat \ {0}) /\ skb' = Head(rxq) /\ rxq' = Tail(rxq) /\ rx' = "handle"
    BY DEF TypeOK
  <2>2. /\ Len(rxq) \in Nat /\ Len(rxq) > 0 /\ rxq' \in Seq(Nat \ {0})
        /\ Len(rxq') = Len(rxq) - 1 /\ DOMAIN rxq' = 1 .. Len(rxq) - 1
        /\ skb' = rxq[1] /\ skb' \in Nat
        /\ \A i \in 1 .. Len(rxq) - 1 : rxq'[i] = rxq[i + 1] /\ i + 1 \in DOMAIN rxq
    BY ONLY <2>1, <1>2
  <2>3. TypeOK'
    BY <2>2 DEF TypeOK
  <2>4. CountRight' /\ Floor'
    BY <2>2 DEF TypeOK, CountRight, Floor, Handling, Uncounted
  <2>5. NoBlockLeft'
    BY DEF NoBlockLeft
  <2>6. Numbered'
    <3>0. DOMAIN rxq = 1 .. Len(rxq) /\ \A i \in DOMAIN rxq : rxq[i] \in Nat
      BY ONLY <2>1
    <3>1. \A i, j \in DOMAIN rxq : i < j => rxq[i] < rxq[j]
      BY DEF Numbered
    <3>2. \A i \in 1 .. Len(rxq) : rxq[i] <= arrived /\ rxq[i] > handled
      BY <3>0 DEF Numbered
    <3>3. ASSUME NEW i \in DOMAIN rxq', NEW j \in DOMAIN rxq', i < j
          PROVE  rxq'[i] < rxq'[j]
      <4>0. i \in 1 .. Len(rxq) - 1 /\ j \in 1 .. Len(rxq) - 1
        BY <2>2
      <4>1. i + 1 \in DOMAIN rxq /\ j + 1 \in DOMAIN rxq /\ i + 1 < j + 1
        <5>1. i + 1 \in DOMAIN rxq /\ j + 1 \in DOMAIN rxq
          BY ONLY <3>0, <4>0, <2>2
        <5>2. i + 1 < j + 1
          BY <3>3, <4>0
        <5>3. QED  BY <5>1, <5>2
      <4>2. rxq[i + 1] < rxq[j + 1]
        BY ONLY <4>1, <3>1
      <4>3. QED  BY <4>2, <2>2
    <3>4. \A i \in DOMAIN rxq' : rxq'[i] <= arrived /\ rxq'[i] > handled
      BY ONLY <2>2, <3>2
    <3>5. \A i \in DOMAIN rxq' : rxq'[i] > skb'
      <4>1. \A i \in DOMAIN rxq' : 1 \in DOMAIN rxq /\ i + 1 \in DOMAIN rxq /\ 1 < i + 1
        BY ONLY <2>2, <3>0
      <4>2. \A i \in DOMAIN rxq' : rxq[1] < rxq[i + 1]
        BY ONLY <4>1, <3>1
      <4>3. QED  BY ONLY <4>2, <2>2, <3>0, <4>1
    <3>6. skb' > handled /\ skb' <= arrived
      BY ONLY <2>2, <3>2
    <3>7. QED  BY <3>3, <3>4, <3>5, <3>6 DEF TypeOK, Numbered
  <2>7. QED  BY <2>3, <2>4, <2>5, <2>6
<1>3. QED  BY <1>1, <1>2

\* The block is counted off when it has been handled.
LEMMA RxHandleStep == ASSUME IInv, RxHandle PROVE IInv'
BY DEF IInv, RxHandle, TypeOK, Floor, CountRight, NoBlockLeft, Numbered, Handling,
       Uncounted

\* A block without memory stays counted.
LEMMA RxNoMemStep == ASSUME IInv, RxNoMem PROVE IInv'
BY DEF IInv, RxNoMem, TypeOK, Floor, CountRight, NoBlockLeft, Numbered, Handling,
       Uncounted

\* A removed device has no obligations.
LEMMA StopStep == ASSUME IInv, Release \/ RxDeinit PROVE IInv'
<1>1. CASE Release
  BY <1>1 DEF IInv, Release, TypeOK, Floor, CountRight, NoBlockLeft, Numbered, Handling,
              Uncounted
<1>2. CASE RxDeinit
  BY <1>2 DEF IInv, RxDeinit, TypeOK, Floor, CountRight, NoBlockLeft, Numbered,
              Handling, Uncounted
<1>3. QED  BY <1>1, <1>2

\* The invariant holds always.
LEMMA SpecIInv == Spec => []IInv
<1>1. Init => IInv
  <2> SUFFICES ASSUME Init PROVE IInv
    OBVIOUS
  <2>1. TypeOK
    <3>1. failed \in BOOLEAN
      BY DEF Init
    <3>2. QED  BY <3>1 DEF Init, TypeOK
  <2>2. Floor /\ CountRight /\ NoBlockLeft /\ Numbered
    BY DEF Init, Floor, CountRight, NoBlockLeft, Numbered, Handling, Uncounted
  <2>3. QED  BY <2>1, <2>2 DEF IInv
<1>2. IInv /\ [Next]_vars => IInv'
  <2> SUFFICES ASSUME IInv, [Next]_vars PROVE IInv'
    OBVIOUS
  <2>1. CASE Next
    BY <2>1, IrqReadStep, IrqCountStep, IrqCheckStep, RxWakeStep, RxTakeStep,
       RxHandleStep, RxNoMemStep, StopStep DEF Next, Irq, Rx
  <2>2. CASE UNCHANGED vars
    BY <2>2 DEF vars, IInv, TypeOK, Floor, CountRight, NoBlockLeft, Numbered, Handling,
                Uncounted
  <2>3. QED  BY <2>1, <2>2
<1>3. QED  BY <1>1, <1>2, PTL DEF Spec

\* The variables of the receive side keep their types; rx_cnt, which the handler
\* increments too late, never falls below -1.
THEOREM RxTypeCorrect == Spec => []TypeOK
<1>1. IInv => TypeOK
  BY DEF IInv
<1>2. QED  BY <1>1, SpecIInv, PTL

\* Until memory is refused rx_cnt counts what the thread still has to do.
THEOREM CounterExact == Spec => []CountRight
<1>1. IInv => CountRight
  BY DEF IInv
<1>2. QED  BY <1>1, SpecIInv, PTL

\* Until memory is refused the thread never sleeps over a block that nobody is going
\* to wake it for, although the handler triggers it only on a count of exactly 1.
THEOREM TriggerNeverLost == Spec => []NoBlockLeft
<1>1. IInv => NoBlockLeft
  BY DEF IInv
<1>2. QED  BY <1>1, SpecIInv, PTL

\* Blocks are handled in the order of their arrival and none twice, failures or not.
THEOREM HandledInOrder == Spec => InOrder
<1>1. IInv /\ [Next]_vars => [handled' > handled]_handled
  <2> SUFFICES ASSUME IInv, [Next]_vars, handled' # handled PROVE handled' > handled
    OBVIOUS
  <2>1. RxHandle
    BY DEF Next, Irq, Rx, IrqRead, IrqCount, IrqCheck, RxWake, RxTake, RxNoMem, Release,
           RxDeinit, vars
  <2>2. QED  BY <2>1 DEF RxHandle, IInv, Numbered
<1>2. QED  BY <1>1, SpecIInv, PTL DEF Spec, InOrder
=============================================================================
