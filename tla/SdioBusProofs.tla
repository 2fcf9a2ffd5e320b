--------------------------- MODULE SdioBusProofs ---------------------------
(***************************************************************************)
(* Proofs about the SDIO bus, for any amount of work, with and without     *)
(* failing accesses and for a device that may be removed at any time.      *)
(***************************************************************************)
EXTENDS SdioBus, TLAPS

-----------------------------------------------------------------------------
(* The inductive invariant. *)

\* Where each process can be.
InStctl == {"stctl", "sema", "reg", "set", "arm"}

PcOK ==
    /\ pc["tx"] \in {"idle", "look", "process", "cmd", "cmdlock", "txmsg",
                     "datalock", "loop"} \cup InStctl
    /\ pc["pwr"] \in {"idle", "look", "readcmd", "readrx"} \cup InStctl
    /\ pc["rx"] \in {"idle", "process"} \cup InStctl
    /\ pc["suspend"] \in {"idle", "lock", "unlock", "suspended"} \cup InStctl
    /\ pc["resume"] \in {"idle"} \cup InStctl
    /\ pc["stop"] \in {"idle", "timer", "lock", "flush", "done"}
    /\ pc["cmd"] \in {"idle", "trigger"} /\ pc["data"] \in {"idle", "trigger"}
    /\ pc["stop"] # "idle" => bus = "DOWN"

\* pwrctl_wakeup_sema is held by whoever is changing the power state, and it is
\* this that makes state say what that process is about to undo or has done.
SemaHeld ==
    \A p \in Callers :
        /\ wakeup_sema = p <=> pc[p] \in {"reg", "set", "arm"}
        /\ pc[p] \in {"reg", "set"} => state # Target(p)
        /\ pc[p] = "arm" => state = Target(p)

\* The counters never fall behind the queues.
Counted == txq <= tx_pktcnt /\ rxq <= rx_cnt

\* Between the write of a register and that of state the chip is ahead of it.
ChipAhead ==
    ~MayFail /\ bus = "UP" =>
        /\ state = "ACTIVE" =>
             chip = "awake" \/ \E p \in Callers : Target(p) = "SLEEP" /\ pc[p] = "set"
        /\ \A p \in Callers :
             Target(p) = "ACTIVE" /\ pc[p] = "set" => chip = "awake"

\* While scanning or P2P is on nobody puts the chip to sleep, and the transmit
\* thread is past aicwf_sdio_pwr_stctl() only with an active chip.
NeverAsleep ==
    ~PowerSave =>
        /\ busy
        /\ \A p \in Callers : Target(p) = "SLEEP" => pc[p] \notin {"set", "arm"}
        /\ bus = "UP" /\ pc["tx"] \in {"cmd", "cmdlock", "txmsg", "datalock",
          "loop"}
             => state = "ACTIVE"

\* Nothing posted is forgotten in that case.
WorkKept == ~PowerSave /\ ~MayFail => NoLostWork

\* Where the transmit thread has pwrctl_wakeup_sema, and where it is past it.
Having == {"reg", "set", "arm"}
Past   == {"cmd", "cmdlock", "txmsg", "datalock", "loop"}

\* If scanning or P2P has been on since the transmit thread got the semaphore, it
\* still is, nobody is on the way to sleep with the sleep register written, and the
\* thread goes on with an active chip. (Kept apart from the invariant below, on
\* which it rests.)
HeldActive ==
    bus = "UP" /\ held =>
        /\ busy
        /\ pc["tx"] \in Having \cup Past =>
             \A p \in Callers : Target(p) = "SLEEP" => pc[p] \notin {"set", "arm"}
        /\ pc["tx"] \in Past => state = "ACTIVE"

IInv ==
    /\ TypeOK /\ PcOK /\ SemaHeld /\ Counted /\ SleepsAgain /\ ChipAhead
    /\ NeverAsleep /\ WorkKept
-----------------------------------------------------------------------------
(* Every action preserves the invariant. *)

\* A posted message is not forgotten: its sender is about to trigger the thread.
LEMMA PostCmdStep == ASSUME IInv, PostCmd PROVE IInv'
<1> USE DEF IInv, PostCmd, At, Goto, powerUnchanged, rxVars, powerVars
<1>1. TypeOK'
  BY DEF TypeOK, Procs, Labels, Callers
<1>2. WorkKept'
  BY DEF TypeOK, PcOK, Counted, NeverAsleep, WorkKept, NoLostWork, CmdPending,
     FramePending, Callers, Procs, InStctl
<1>3. PcOK' /\ SemaHeld' /\ Counted' /\ SleepsAgain' /\ ChipAhead' /\ NeverAsleep'
  BY DEF TypeOK, PcOK, InStctl, Procs, SemaHeld, Callers, Target, Counted,
     SleepsAgain, ChipAhead, NeverAsleep
<1>4. QED  BY <1>1, <1>2, <1>3

\* The trigger of a message takes over from its sender.
LEMMA PostCmdTriggerStep == ASSUME IInv, PostCmdTrigger PROVE IInv'
<1> USE DEF IInv, PostCmdTrigger, At, Goto, powerUnchanged, workVars, bounds,
  powerVars, rxVars
<1>1. TypeOK'
  BY DEF TypeOK, Procs, Labels, Callers
<1>2. WorkKept'
  BY DEF TypeOK, PcOK, Counted, NeverAsleep, WorkKept, NoLostWork, CmdPending,
     FramePending, Callers, Procs, InStctl
<1>3. PcOK' /\ SemaHeld' /\ Counted' /\ SleepsAgain' /\ ChipAhead' /\ NeverAsleep'
  BY DEF TypeOK, PcOK, InStctl, Procs, SemaHeld, Callers, Target, Counted,
     SleepsAgain, ChipAhead, NeverAsleep
<1>4. QED  BY <1>1, <1>2, <1>3

\* A posted frame is counted, and its sender is about to trigger the thread.
LEMMA PostFrameStep == ASSUME IInv, PostFrame PROVE IInv'
<1> USE DEF IInv, PostFrame, At, Goto, powerUnchanged, rxVars, powerVars
<1>1. TypeOK'
  BY DEF TypeOK, Procs, Labels, Callers
<1>2. Counted'
  BY DEF TypeOK, Counted
<1>3. WorkKept'
  BY DEF TypeOK, PcOK, Counted, NeverAsleep, WorkKept, NoLostWork, CmdPending,
     FramePending, Callers, Procs, InStctl
<1>4. PcOK' /\ SemaHeld' /\ SleepsAgain' /\ ChipAhead' /\ NeverAsleep'
  BY DEF TypeOK, PcOK, InStctl, Procs, SemaHeld, Callers, Target, SleepsAgain,
     ChipAhead, NeverAsleep
<1>5. QED  BY <1>1, <1>2, <1>3, <1>4

\* The trigger of a frame takes over from its sender.
LEMMA PostFrameTriggerStep == ASSUME IInv, PostFrameTrigger PROVE IInv'
<1> USE DEF IInv, PostFrameTrigger, At, Goto, powerUnchanged, workVars, bounds,
  powerVars, rxVars
<1>1. TypeOK'
  BY DEF TypeOK, Procs, Labels, Callers
<1>2. WorkKept'
  BY DEF TypeOK, PcOK, Counted, NeverAsleep, WorkKept, NoLostWork, CmdPending,
     FramePending, Callers, Procs, InStctl
<1>3. PcOK' /\ SemaHeld' /\ Counted' /\ SleepsAgain' /\ ChipAhead' /\ NeverAsleep'
  BY DEF TypeOK, PcOK, InStctl, Procs, SemaHeld, Callers, Target, Counted,
     SleepsAgain, ChipAhead, NeverAsleep
<1>4. QED  BY <1>1, <1>2, <1>3

\* The transmit thread takes a trigger over.
LEMMA TxWakeStep == ASSUME IInv, TxWake PROVE IInv'
<1> USE DEF IInv, TxWake, At, Goto, powerUnchanged, workVars, bounds, powerVars,
  rxVars
<1>1. TypeOK'
  BY DEF TypeOK, Procs, Labels, Callers
<1>2. PcOK'
  BY DEF TypeOK, PcOK, InStctl, Procs
<1>3. WorkKept'
  BY DEF TypeOK, PcOK, Counted, NeverAsleep, WorkKept, NoLostWork, CmdPending,
     FramePending, Callers, Procs, InStctl
<1>4. SemaHeld' /\ Counted' /\ SleepsAgain' /\ ChipAhead' /\ NeverAsleep'
  BY DEF TypeOK, PcOK, SemaHeld, Callers, InStctl, Procs, Target, Counted,
     SleepsAgain, ChipAhead, NeverAsleep
<1>5. QED  BY <1>1, <1>2, <1>3, <1>4

\* The thread goes back to sleep only without a message and without frames.
LEMMA TxLookStep == ASSUME IInv, TxLook PROVE IInv'
<1> USE DEF IInv, TxLook, At, Goto, powerUnchanged, workVars, bounds, powerVars,
  rxVars
<1>1. PcOK'
  BY DEF TypeOK, PcOK, InStctl, Procs
<1>2. NeverAsleep'
  BY DEF TypeOK, PcOK, NeverAsleep, SemaHeld, Callers, Target, Procs, InStctl
<1>3. WorkKept'
  BY DEF TypeOK, PcOK, Counted, NeverAsleep, WorkKept, NoLostWork, CmdPending,
     FramePending, Callers, Procs, InStctl
<1>4. TypeOK' /\ SemaHeld' /\ Counted' /\ SleepsAgain' /\ ChipAhead'
  BY DEF TypeOK, Procs, Labels, Callers, PcOK, SemaHeld, InStctl, Target, Counted,
     SleepsAgain, ChipAhead
<1>5. QED  BY <1>1, <1>2, <1>3, <1>4

\* A bus that is down ends the pass before the power state is touched.
LEMMA TxProcessStep == ASSUME IInv, TxProcess PROVE IInv'
<1> USE DEF IInv, TxProcess, At, Goto, powerUnchanged, workVars, bounds,
  powerVars, rxVars
<1>1. PcOK'
  BY DEF TypeOK, PcOK, InStctl, Procs
<1>2. NeverAsleep'
  BY DEF TypeOK, PcOK, NeverAsleep, SemaHeld, Callers, Target, Procs, InStctl
<1>3. WorkKept'
  BY DEF TypeOK, PcOK, Counted, NeverAsleep, WorkKept, NoLostWork, CmdPending,
     FramePending, Callers, Procs, InStctl
<1>4. TypeOK' /\ SemaHeld' /\ Counted' /\ SleepsAgain' /\ ChipAhead'
  BY DEF TypeOK, Procs, Labels, Callers, PcOK, SemaHeld, InStctl, Target, Counted,
     SleepsAgain, ChipAhead
<1>5. QED  BY <1>1, <1>2, <1>3, <1>4

\* A message that is not there yet comes with a trigger of its own.
LEMMA TxCmdStep == ASSUME IInv, TxCmd PROVE IInv'
<1> USE DEF IInv, TxCmd, At, Goto, powerUnchanged, workVars, bounds, powerVars,
  rxVars
<1>1. PcOK'
  BY DEF TypeOK, PcOK, InStctl, Procs
<1>2. NeverAsleep'
  BY DEF TypeOK, PcOK, NeverAsleep, SemaHeld, Callers, Target, Procs, InStctl
<1>3. WorkKept'
  BY DEF TypeOK, PcOK, Counted, NeverAsleep, WorkKept, NoLostWork, CmdPending,
     FramePending, Callers, Procs, InStctl
<1>4. TypeOK' /\ SemaHeld' /\ Counted' /\ SleepsAgain' /\ ChipAhead'
  BY DEF TypeOK, Procs, Labels, Callers, PcOK, SemaHeld, InStctl, Target, Counted,
     SleepsAgain, ChipAhead
<1>5. QED  BY <1>1, <1>2, <1>3, <1>4

\* "state err" happens only to a chip that may sleep, or on a bus that is down.
LEMMA TxCmdLockStep == ASSUME IInv, TxCmdLock PROVE IInv'
<1> USE DEF IInv, TxCmdLock, At, Goto, powerUnchanged, workVars, bounds,
  powerVars, rxVars
<1>1. PcOK'
  BY DEF TypeOK, PcOK, InStctl, Procs
<1>2. NeverAsleep'
  BY DEF TypeOK, PcOK, NeverAsleep, SemaHeld, Callers, Target, Procs, InStctl
<1>3. WorkKept'
  BY DEF TypeOK, PcOK, Counted, NeverAsleep, WorkKept, NoLostWork, CmdPending,
     FramePending, Callers, Procs, InStctl
<1>4. TypeOK' /\ SemaHeld' /\ Counted' /\ SleepsAgain' /\ ChipAhead'
  BY DEF TypeOK, Procs, Labels, Callers, PcOK, SemaHeld, InStctl, Target, Counted,
     SleepsAgain, ChipAhead
<1>5. QED  BY <1>1, <1>2, <1>3, <1>4

\* The mailbox is empty when the thread goes on to the frames.
LEMMA TxMsgStep == ASSUME IInv, TxMsg PROVE IInv'
<1> USE DEF IInv, TxMsg, At, Goto, powerUnchanged, rxVars, bounds, powerVars
<1>1. PcOK'
  BY DEF TypeOK, PcOK, InStctl, Procs
<1>2. NeverAsleep'
  BY DEF TypeOK, PcOK, NeverAsleep, SemaHeld, Callers, Target, Procs, InStctl
<1>3. WorkKept'
  BY DEF TypeOK, PcOK, Counted, NeverAsleep, WorkKept, NoLostWork, CmdPending,
     FramePending, Callers, Procs, InStctl
<1>4. TypeOK'
  BY DEF TypeOK, Procs, Labels, Callers
<1>5. SemaHeld' /\ Counted' /\ SleepsAgain' /\ ChipAhead'
  BY DEF TypeOK, PcOK, SemaHeld, Callers, InStctl, Procs, Target, Counted,
     SleepsAgain, ChipAhead
<1>6. QED  BY <1>1, <1>2, <1>3, <1>4, <1>5

\* "sdio state err" happens only to a chip that may sleep, or on a bus that is down.
LEMMA TxDataLockStep == ASSUME IInv, TxDataLock PROVE IInv'
<1> USE DEF IInv, TxDataLock, At, Goto, powerUnchanged, workVars, bounds,
  powerVars, rxVars
<1>1. PcOK'
  BY DEF TypeOK, PcOK, InStctl, Procs
<1>2. NeverAsleep'
  BY DEF TypeOK, PcOK, NeverAsleep, SemaHeld, Callers, Target, Procs, InStctl
<1>3. WorkKept'
  BY DEF TypeOK, PcOK, Counted, NeverAsleep, WorkKept, NoLostWork, CmdPending,
     FramePending, Callers, Procs, InStctl
<1>4. TypeOK' /\ SemaHeld' /\ Counted' /\ SleepsAgain' /\ ChipAhead'
  BY DEF TypeOK, Procs, Labels, Callers, PcOK, SemaHeld, InStctl, Target, Counted,
     SleepsAgain, ChipAhead
<1>5. QED  BY <1>1, <1>2, <1>3, <1>4

\* The loop is left with frames only for a message that has its own trigger.
LEMMA TxLeaveStep == ASSUME IInv, TxLeave PROVE IInv'
<1> USE DEF IInv, TxLeave, At, Goto, powerUnchanged, workVars, bounds, powerVars,
  rxVars
<1>1. PcOK'
  BY DEF TypeOK, PcOK, InStctl, Procs
<1>2. NeverAsleep'
  BY DEF TypeOK, PcOK, NeverAsleep, SemaHeld, Callers, Target, Procs, InStctl
<1>3. WorkKept'
  BY DEF TypeOK, PcOK, Counted, NeverAsleep, WorkKept, NoLostWork, CmdPending,
     FramePending, Callers, Procs, InStctl
<1>4. TypeOK' /\ SemaHeld' /\ Counted' /\ SleepsAgain' /\ ChipAhead'
  BY DEF TypeOK, Procs, Labels, Callers, PcOK, SemaHeld, InStctl, Target, Counted,
     SleepsAgain, ChipAhead
<1>5. QED  BY <1>1, <1>2, <1>3, <1>4

\* A frame leaves the queue and the counter together.
LEMMA TxFrameStep == ASSUME IInv, TxFrame PROVE IInv'
<1> USE DEF IInv, TxFrame, At, Goto, powerUnchanged, rxVars, bounds, powerVars
<1>1. TypeOK'
  BY DEF TypeOK, Procs, Labels, Callers, Counted
<1>2. Counted'
  BY DEF TypeOK, Counted
<1>3. WorkKept'
  BY DEF TypeOK, PcOK, Counted, NeverAsleep, WorkKept, NoLostWork, CmdPending,
     FramePending, Callers, Procs, InStctl
<1>4. PcOK' /\ SemaHeld' /\ SleepsAgain' /\ ChipAhead' /\ NeverAsleep'
  BY DEF TypeOK, PcOK, InStctl, Procs, SemaHeld, Callers, Target, SleepsAgain,
     ChipAhead, NeverAsleep
<1>5. QED  BY <1>1, <1>2, <1>3, <1>4

\* The trigger of the power control thread takes over from the timer.
LEMMA TimerFireStep == ASSUME IInv, TimerFire PROVE IInv'
<1> USE DEF IInv, TimerFire, workVars, bounds, rxVars
<1>1. TypeOK'
  <2>1. timer' \in BOOLEAN
    BY DEF TypeOK
  <2>2. pwr_trgg' \in Nat
    BY DEF TypeOK
  <2>3. pc' \in [Procs -> Labels]
    BY DEF TypeOK, Procs, Labels, Callers
  <2>4. QED  BY <2>1, <2>2, <2>3 DEF TypeOK, Procs, Labels, Callers
<1>2. SleepsAgain'
  BY DEF TypeOK, PcOK, SleepsAgain, SemaHeld, Callers, Target, Procs, InStctl
<1>3. PcOK' /\ SemaHeld' /\ Counted'
  BY DEF TypeOK, PcOK, InStctl, Procs, SemaHeld, Callers, Target, Counted
<1>4. ChipAhead'
  BY DEF ChipAhead
<1>5. NeverAsleep'
  BY DEF NeverAsleep
<1>6. WorkKept'
  BY DEF WorkKept, NoLostWork, CmdPending, FramePending, At
<1>7. QED  BY <1>1, <1>2, <1>3, <1>4, <1>5, <1>6

\* The power control thread takes the trigger over.
LEMMA PwrWakeStep == ASSUME IInv, PwrWake PROVE IInv'
<1> USE DEF IInv, PwrWake, At, Goto, pwrUnchanged, workVars, bounds, rxVars
<1>1. TypeOK'
  BY DEF TypeOK, Procs, Labels, Callers
<1>2. PcOK'
  BY DEF TypeOK, PcOK, InStctl, Procs
<1>3. SleepsAgain'
  BY DEF TypeOK, PcOK, SleepsAgain, SemaHeld, Callers, Target, Procs, InStctl
<1>4. SemaHeld' /\ Counted' /\ ChipAhead' /\ NeverAsleep' /\ WorkKept'
  BY DEF TypeOK, PcOK, SemaHeld, Callers, InStctl, Procs, Target, Counted,
     ChipAhead, NeverAsleep, WorkKept, NoLostWork, CmdPending, FramePending
<1>5. QED  BY <1>1, <1>2, <1>3, <1>4

\* Frames start the timer again.
LEMMA PwrLookStep == ASSUME IInv, PwrLook PROVE IInv'
<1> USE DEF IInv, PwrLook, PwrStep, At, Goto, ArmTimer, pwrUnchanged, workVars,
  bounds, rxVars
<1>1. TypeOK'
  <2>1. timer' \in BOOLEAN
    BY DEF TypeOK
  <2>2. pwr_trgg' \in Nat
    BY DEF TypeOK
  <2>3. pc' \in [Procs -> Labels]
    BY DEF TypeOK, Procs, Labels, Callers
  <2>4. QED  BY <2>1, <2>2, <2>3 DEF TypeOK, Procs, Labels, Callers
<1>2. PcOK'
  BY DEF TypeOK, PcOK, InStctl, Procs
<1>3. SleepsAgain'
  BY DEF TypeOK, PcOK, SleepsAgain, SemaHeld, Callers, Target, Procs, InStctl
<1>4. SemaHeld' /\ Counted' /\ ChipAhead' /\ NeverAsleep' /\ WorkKept'
  BY DEF TypeOK, PcOK, SemaHeld, Callers, InStctl, Procs, Target, Counted,
     ChipAhead, NeverAsleep, WorkKept, NoLostWork, CmdPending, FramePending
<1>5. QED  BY <1>1, <1>2, <1>3, <1>4

\* A message starts the timer again.
LEMMA PwrReadCmdStep == ASSUME IInv, PwrReadCmd PROVE IInv'
<1> USE DEF IInv, PwrReadCmd, PwrStep, At, Goto, ArmTimer, pwrUnchanged, workVars,
  bounds, rxVars
<1>1. TypeOK'
  BY DEF TypeOK, Procs, Labels, Callers
<1>2. PcOK'
  BY DEF TypeOK, PcOK, InStctl, Procs
<1>3. SleepsAgain'
  BY DEF TypeOK, PcOK, SleepsAgain, SemaHeld, Callers, Target, Procs, InStctl
<1>4. SemaHeld' /\ Counted' /\ ChipAhead' /\ NeverAsleep' /\ WorkKept'
  BY DEF TypeOK, PcOK, SemaHeld, Callers, InStctl, Procs, Target, Counted,
     ChipAhead, NeverAsleep, WorkKept, NoLostWork, CmdPending, FramePending
<1>5. QED  BY <1>1, <1>2, <1>3, <1>4

\* A received block starts the timer again.
LEMMA PwrReadRxStep == ASSUME IInv, PwrReadRx PROVE IInv'
<1> USE DEF IInv, PwrReadRx, PwrStep, At, Goto, ArmTimer, pwrUnchanged, workVars,
  bounds, rxVars
<1>1. TypeOK'
  <2>1. timer' \in BOOLEAN
    BY DEF TypeOK
  <2>2. pwr_trgg' \in Nat
    BY DEF TypeOK
  <2>3. pc' \in [Procs -> Labels]
    BY DEF TypeOK, Procs, Labels, Callers
  <2>4. QED  BY <2>1, <2>2, <2>3 DEF TypeOK, Procs, Labels, Callers
<1>2. PcOK'
  BY DEF TypeOK, PcOK, InStctl, Procs
<1>3. SleepsAgain'
  BY DEF TypeOK, PcOK, SleepsAgain, SemaHeld, Callers, Target, Procs, InStctl
<1>4. SemaHeld' /\ Counted' /\ ChipAhead' /\ NeverAsleep' /\ WorkKept'
  BY DEF TypeOK, PcOK, SemaHeld, Callers, InStctl, Procs, Target, Counted,
     ChipAhead, NeverAsleep, WorkKept, NoLostWork, CmdPending, FramePending
<1>5. QED  BY <1>1, <1>2, <1>3, <1>4

\* An interrupt comes from a chip that is awake.
LEMMA RxIrqStep == ASSUME IInv, RxIrq PROVE IInv'
<1> USE DEF IInv, RxIrq
<1>1. TypeOK'
  BY DEF TypeOK, Procs, Labels, Callers
<1>2. Counted'
  BY DEF TypeOK, Counted
<1>3. ChipAhead'
  BY DEF TypeOK, PcOK, ChipAhead, SemaHeld, Callers, Target, Procs, InStctl
<1>4. PcOK' /\ SemaHeld'
  BY DEF TypeOK, PcOK, InStctl, Procs, SemaHeld, Callers, Target
<1>5. SleepsAgain'
  BY DEF SleepsAgain, At
<1>6. NeverAsleep'
  BY DEF NeverAsleep
<1>7. WorkKept'
  BY DEF WorkKept, NoLostWork, CmdPending, FramePending, At
<1>8. QED  BY <1>1, <1>2, <1>3, <1>4, <1>5, <1>6, <1>7

\* The receive thread starts.
LEMMA RxWakeStep == ASSUME IInv, RxWake PROVE IInv'
<1> USE DEF IInv, RxWake, At, Goto, powerUnchanged, bounds, powerVars
<1>1. TypeOK'
  BY DEF TypeOK, Procs, Labels, Callers
<1>2. PcOK'
  BY DEF TypeOK, PcOK, InStctl, Procs
<1>3. SemaHeld' /\ Counted' /\ SleepsAgain' /\ ChipAhead' /\ NeverAsleep' /\ WorkKept'
  BY DEF TypeOK, PcOK, SemaHeld, Callers, InStctl, Procs, Target, Counted,
     SleepsAgain, ChipAhead, NeverAsleep, WorkKept, NoLostWork, CmdPending,
       FramePending
<1>4. QED  BY <1>1, <1>2, <1>3

\* The receive thread counts a block down or turns to the power state.
LEMMA RxProcessStep == ASSUME IInv, RxProcess PROVE IInv'
<1> USE DEF IInv, RxProcess, At, Goto, powerUnchanged, bounds, powerVars
<1>1. TypeOK'
  BY DEF TypeOK, Procs, Labels, Callers, Counted
<1>2. PcOK'
  BY DEF TypeOK, PcOK, InStctl, Procs
<1>3. Counted'
  BY DEF TypeOK, Counted
<1>4. SemaHeld' /\ SleepsAgain' /\ ChipAhead' /\ NeverAsleep' /\ WorkKept'
  BY DEF TypeOK, PcOK, SemaHeld, Callers, InStctl, Procs, Target, SleepsAgain,
     ChipAhead, NeverAsleep, Counted, WorkKept, NoLostWork, CmdPending, FramePending
<1>5. QED  BY <1>1, <1>2, <1>3, <1>4

\* A block that stays counted keeps the counter above the queue.
LEMMA RxNoMemStep == ASSUME IInv, RxNoMem PROVE IInv'
<1> USE DEF IInv, RxNoMem, At, Goto, powerUnchanged, bounds, powerVars
<1>1. TypeOK'
  BY DEF TypeOK, Procs, Labels, Callers
<1>2. PcOK'
  BY DEF TypeOK, PcOK, InStctl, Procs
<1>3. Counted'
  BY DEF TypeOK, Counted
<1>4. SemaHeld' /\ SleepsAgain' /\ ChipAhead' /\ NeverAsleep' /\ WorkKept'
  BY DEF TypeOK, PcOK, SemaHeld, Callers, InStctl, Procs, Target, SleepsAgain,
     ChipAhead, NeverAsleep, Counted, WorkKept, NoLostWork, CmdPending, FramePending
<1>5. QED  BY <1>1, <1>2, <1>3, <1>4

\* A suspend starts.
LEMMA SuspendStep == ASSUME IInv, Suspend PROVE IInv'
<1> USE DEF IInv, Suspend, At, Goto, powerUnchanged, workVars, powerVars, rxVars
<1>1. TypeOK'
  BY DEF TypeOK, Procs, Labels, Callers
<1>2. PcOK'
  BY DEF TypeOK, PcOK, InStctl, Procs
<1>3. SemaHeld' /\ Counted' /\ SleepsAgain' /\ ChipAhead' /\ NeverAsleep' /\ WorkKept'
  BY DEF TypeOK, PcOK, SemaHeld, Callers, InStctl, Procs, Target, Counted,
     SleepsAgain, ChipAhead, NeverAsleep, WorkKept, NoLostWork, CmdPending,
       FramePending
<1>4. QED  BY <1>1, <1>2, <1>3

\* The suspend takes txctl_sema.
LEMMA SuspendLockStep == ASSUME IInv, SuspendLock PROVE IInv'
<1> USE DEF IInv, SuspendLock, At, Goto, powerUnchanged, workVars, bounds,
  powerVars, rxVars
<1>1. PcOK'
  BY DEF TypeOK, PcOK, InStctl, Procs
<1>2. TypeOK' /\ SemaHeld' /\ Counted' /\ SleepsAgain' /\ ChipAhead' /\ NeverAsleep' /\ WorkKept'
  BY DEF TypeOK, Procs, Labels, Callers, PcOK, SemaHeld, InStctl, Target, Counted,
     SleepsAgain, ChipAhead, NeverAsleep, WorkKept, NoLostWork, CmdPending,
       FramePending
<1>3. QED  BY <1>1, <1>2

\* The suspend gives txctl_sema back.
LEMMA SuspendUnlockStep == ASSUME IInv, SuspendUnlock PROVE IInv'
<1> USE DEF IInv, SuspendUnlock, At, Goto, powerUnchanged, workVars, bounds,
  powerVars, rxVars
<1>1. PcOK'
  BY DEF TypeOK, PcOK, InStctl, Procs
<1>2. TypeOK' /\ SemaHeld' /\ Counted' /\ SleepsAgain' /\ ChipAhead' /\ NeverAsleep' /\ WorkKept'
  BY DEF TypeOK, Procs, Labels, Callers, PcOK, SemaHeld, InStctl, Target, Counted,
     SleepsAgain, ChipAhead, NeverAsleep, WorkKept, NoLostWork, CmdPending,
       FramePending
<1>3. QED  BY <1>1, <1>2

\* A resume starts.
LEMMA ResumeStep == ASSUME IInv, Resume PROVE IInv'
<1> USE DEF IInv, Resume, At, powerUnchanged, workVars, bounds, powerVars, rxVars
<1>1. TypeOK'
  BY DEF TypeOK, Procs, Labels, Callers
<1>2. PcOK'
  BY DEF TypeOK, PcOK, InStctl, Procs
<1>3. SemaHeld' /\ Counted' /\ SleepsAgain' /\ ChipAhead' /\ NeverAsleep' /\ WorkKept'
  BY DEF TypeOK, PcOK, SemaHeld, Callers, InStctl, Procs, Target, Counted,
     SleepsAgain, ChipAhead, NeverAsleep, WorkKept, NoLostWork, CmdPending,
       FramePending
<1>4. QED  BY <1>1, <1>2, <1>3

\* A bus that is down has no obligations.
LEMMA StopDownStep == ASSUME IInv, StopDown PROVE IInv'
<1> USE DEF IInv, StopDown, At, Goto, powerVars, workVars, bounds, rxVars
<1>1. TypeOK'
  BY DEF TypeOK, Procs, Labels, Callers
<1>2. PcOK'
  BY DEF TypeOK, PcOK, InStctl, Procs
<1>3. SemaHeld' /\ Counted' /\ SleepsAgain' /\ ChipAhead' /\ NeverAsleep' /\ WorkKept'
  BY DEF TypeOK, PcOK, SemaHeld, Callers, InStctl, Procs, Target, Counted,
     SleepsAgain, ChipAhead, NeverAsleep, WorkKept, NoLostWork, CmdPending,
       FramePending
<1>4. QED  BY <1>1, <1>2, <1>3

\* The timer of a removed device is deleted after the bus went down.
LEMMA StopTimerStep == ASSUME IInv, StopTimer PROVE IInv'
<1> USE DEF IInv, StopTimer, At, Goto, workVars, bounds, rxVars
<1>1. TypeOK'
  BY DEF TypeOK, Procs, Labels, Callers
<1>2. PcOK'
  BY DEF TypeOK, PcOK, InStctl, Procs
<1>3. SleepsAgain'
  BY DEF TypeOK, PcOK, SleepsAgain, SemaHeld, Callers, Target, Procs, InStctl
<1>4. SemaHeld' /\ Counted' /\ ChipAhead' /\ NeverAsleep' /\ WorkKept'
  BY DEF TypeOK, PcOK, SemaHeld, Callers, InStctl, Procs, Target, Counted,
     ChipAhead, NeverAsleep, WorkKept, NoLostWork, CmdPending, FramePending
<1>5. QED  BY <1>1, <1>2, <1>3, <1>4

\* The removal waits for a transfer.
LEMMA StopLockStep == ASSUME IInv, StopLock PROVE IInv'
<1> USE DEF IInv, StopLock, At, Goto, powerUnchanged, workVars, bounds, powerVars,
  rxVars
<1>1. PcOK'
  BY DEF TypeOK, PcOK, InStctl, Procs
<1>2. TypeOK' /\ SemaHeld' /\ Counted' /\ SleepsAgain' /\ ChipAhead' /\ NeverAsleep' /\ WorkKept'
  BY DEF TypeOK, Procs, Labels, Callers, PcOK, SemaHeld, InStctl, Target, Counted,
     SleepsAgain, ChipAhead, NeverAsleep, WorkKept, NoLostWork, CmdPending,
       FramePending
<1>3. QED  BY <1>1, <1>2

\* The queue is flushed; its counter stays behind, above the queue.
LEMMA StopFlushStep == ASSUME IInv, StopFlush PROVE IInv'
<1> USE DEF IInv, StopFlush, At, Goto, powerUnchanged, rxVars, bounds, powerVars
<1>1. TypeOK'
  BY DEF TypeOK, Procs, Labels, Callers
<1>2. PcOK'
  BY DEF TypeOK, PcOK, InStctl, Procs
<1>3. Counted'
  BY DEF TypeOK, Counted
<1>4. SemaHeld' /\ SleepsAgain' /\ ChipAhead' /\ NeverAsleep' /\ WorkKept'
  BY DEF TypeOK, PcOK, SemaHeld, Callers, InStctl, Procs, Target, SleepsAgain,
     ChipAhead, NeverAsleep, Counted, WorkKept, NoLostWork, CmdPending, FramePending
<1>5. QED  BY <1>1, <1>2, <1>3, <1>4

\* Scanning comes and goes only where sleep is allowed at all.
LEMMA ToggleBusyStep == ASSUME IInv, ToggleBusy PROVE IInv'
<1> USE DEF IInv, ToggleBusy, powerVars, workVars, bounds, rxVars
<1>1. TypeOK'
  BY DEF TypeOK, Procs, Labels, Callers
<1>2. NeverAsleep'
  BY DEF TypeOK, PcOK, NeverAsleep, SemaHeld, Callers, Target, Procs, InStctl
<1>3. PcOK' /\ SemaHeld' /\ Counted'
  BY DEF TypeOK, PcOK, InStctl, Procs, SemaHeld, Callers, Target, Counted
<1>4. SleepsAgain'
  BY DEF SleepsAgain, At
<1>5. ChipAhead'
  BY DEF ChipAhead
<1>6. WorkKept'
  BY DEF WorkKept, NoLostWork, CmdPending, FramePending, At
<1>7. QED  BY <1>1, <1>2, <1>3, <1>4, <1>5, <1>6

\* A caller passes the first check of the bus.
LEMMA StctlEnterStep == ASSUME NEW p \in Callers, IInv, StctlEnter(p) PROVE IInv'
<1> USE DEF IInv, StctlEnter, At, Goto, Return, powerVars, workVars, bounds, rxVars
<1>1. TypeOK'
  BY DEF TypeOK, Procs, Labels, Callers, Target
<1>2. PcOK'
  BY DEF TypeOK, PcOK, InStctl, Procs, Target, Callers
<1>3. SemaHeld'
  BY DEF TypeOK, PcOK, SemaHeld, Callers, InStctl, Procs, Target
<1>4. Counted'
  BY DEF TypeOK, Counted, Target, Callers
<1>5. SleepsAgain'
  BY DEF TypeOK, PcOK, SleepsAgain, SemaHeld, Callers, Target, Procs, InStctl
<1>6. ChipAhead'
  BY DEF TypeOK, PcOK, ChipAhead, SemaHeld, Callers, Target, Procs, InStctl
<1>7. NeverAsleep'
  BY DEF TypeOK, PcOK, NeverAsleep, SemaHeld, Callers, Target, Procs, InStctl
<1>8. WorkKept'
  BY DEF TypeOK, PcOK, Counted, NeverAsleep, WorkKept, NoLostWork, CmdPending,
     FramePending, Callers, Procs, InStctl, Target
<1>9. QED  BY <1>1, <1>2, <1>3, <1>4, <1>5, <1>6, <1>7, <1>8

\* One caller at a time gets past pwrctl_wakeup_sema, against its target state.
LEMMA StctlSemaStep == ASSUME NEW p \in Callers, IInv, StctlSema(p) PROVE IInv'
<1> USE DEF IInv, StctlSema, At, ArmTimer, Goto, Return, workVars, bounds, rxVars
<1>1. TypeOK'
  <2>1. timer' \in BOOLEAN
    BY DEF TypeOK
  <2>2. pwr_trgg' \in Nat
    BY DEF TypeOK
  <2>3. pc' \in [Procs -> Labels]
    BY DEF TypeOK, Procs, Labels, Callers
  <2>4. QED  BY <2>1, <2>2, <2>3 DEF TypeOK, Procs, Labels, Callers, Target
<1>2. PcOK'
  BY DEF TypeOK, PcOK, InStctl, Procs, Target, Callers
<1>3. SemaHeld'
  <2> SUFFICES ASSUME NEW q \in Callers
               PROVE  /\ wakeup_sema' = q <=> pc'[q] \in {"reg", "set", "arm"}
                      /\ pc'[q] \in {"reg", "set"} => state' # Target(q)
                      /\ pc'[q] = "arm" => state' = Target(q)
    BY DEF SemaHeld
  <2>1. CASE q = p
    BY <2>1 DEF TypeOK, PcOK, SemaHeld, Callers, InStctl, Procs, Target, None
  <2>2. CASE q # p
    BY <2>2 DEF TypeOK, PcOK, SemaHeld, Callers, InStctl, Procs, Target, None
  <2>3. QED  BY <2>1, <2>2
<1>4. Counted'
  BY DEF TypeOK, Counted, Target, Callers
<1>5. SleepsAgain'
  BY DEF TypeOK, PcOK, SleepsAgain, SemaHeld, Callers, Target, Procs, InStctl
<1>6. ChipAhead'
  BY DEF TypeOK, PcOK, ChipAhead, SemaHeld, Callers, Target, Procs, InStctl
<1>7. NeverAsleep'
  BY DEF TypeOK, PcOK, NeverAsleep, SemaHeld, Callers, Target, Procs, InStctl
<1>8. WorkKept'
  BY DEF TypeOK, PcOK, Counted, NeverAsleep, WorkKept, NoLostWork, CmdPending,
     FramePending, Callers, Procs, InStctl, Target
<1>9. QED  BY <1>1, <1>2, <1>3, <1>4, <1>5, <1>6, <1>7, <1>8

\* The wakeup register is written before the state is set.
LEMMA WakeupStep == ASSUME NEW p \in Callers, IInv, Wakeup(p) PROVE IInv'
<1> USE DEF IInv, Wakeup, At, Goto, workVars, bounds, rxVars
<1>1. TypeOK'
  BY DEF TypeOK, Procs, Labels, Callers, Target
<1>2. PcOK'
  BY DEF TypeOK, PcOK, InStctl, Procs, Target, Callers
<1>3. SemaHeld'
  BY DEF TypeOK, PcOK, SemaHeld, Callers, InStctl, Procs, Target
<1>4. Counted'
  BY DEF TypeOK, Counted, Target, Callers
<1>5. SleepsAgain'
  BY DEF TypeOK, PcOK, SleepsAgain, SemaHeld, Callers, Target, Procs, InStctl
<1>6. ChipAhead'
  BY DEF TypeOK, PcOK, ChipAhead, SemaHeld, Callers, Target, Procs, InStctl
<1>7. NeverAsleep'
  BY DEF TypeOK, PcOK, NeverAsleep, SemaHeld, Callers, Target, Procs, InStctl
<1>8. WorkKept'
  BY DEF TypeOK, PcOK, Counted, NeverAsleep, WorkKept, NoLostWork, CmdPending,
     FramePending, Callers, Procs, InStctl, Target
<1>9. QED  BY <1>1, <1>2, <1>3, <1>4, <1>5, <1>6, <1>7, <1>8

\* The chip stays active and the timer runs on, or the sleep register is written.
LEMMA SleepAllowStep == ASSUME NEW p \in Callers, IInv, SleepAllow(p) PROVE IInv'
<1> USE DEF IInv, SleepAllow, At, WriteSleep, Goto, Return, HeldAwake, StayActive,
  workVars, bounds, ArmTimer, rxVars
<1>1. TypeOK'
  <2>1. timer' \in BOOLEAN
    BY DEF TypeOK
  <2>2. pwr_trgg' \in Nat
    BY DEF TypeOK
  <2>3. pc' \in [Procs -> Labels]
    BY DEF TypeOK, Procs, Labels, Callers
  <2>4. QED  BY <2>1, <2>2, <2>3 DEF TypeOK, Procs, Labels, Callers, Target
<1>2. PcOK'
  BY DEF TypeOK, PcOK, InStctl, Procs, Target, Callers
<1>3. SemaHeld'
  <2> SUFFICES ASSUME NEW q \in Callers
               PROVE  /\ wakeup_sema' = q <=> pc'[q] \in {"reg", "set", "arm"}
                      /\ pc'[q] \in {"reg", "set"} => state' # Target(q)
                      /\ pc'[q] = "arm" => state' = Target(q)
    BY DEF SemaHeld
  <2>1. CASE q = p
    BY <2>1 DEF TypeOK, PcOK, SemaHeld, Callers, InStctl, Procs, Target, None
  <2>2. CASE q # p
    BY <2>2 DEF TypeOK, PcOK, SemaHeld, Callers, InStctl, Procs, Target, None
  <2>3. QED  BY <2>1, <2>2
<1>4. Counted'
  BY DEF TypeOK, Counted, Target, Callers
<1>5. SleepsAgain'
  BY DEF TypeOK, PcOK, SleepsAgain, SemaHeld, Callers, Target, Procs, InStctl
<1>6. ChipAhead'
  BY DEF TypeOK, PcOK, ChipAhead, SemaHeld, Callers, Target, Procs, InStctl
<1>7. NeverAsleep'
  BY DEF TypeOK, PcOK, NeverAsleep, SemaHeld, Callers, Target, Procs, InStctl
<1>8. WorkKept'
  BY DEF TypeOK, PcOK, Counted, NeverAsleep, WorkKept, NoLostWork, CmdPending,
     FramePending, Callers, Procs, InStctl, Target
<1>9. QED  BY <1>1, <1>2, <1>3, <1>4, <1>5, <1>6, <1>7, <1>8

\* The caller that holds the semaphore reaches its target.
LEMMA SetStateStep == ASSUME NEW p \in Callers, IInv, SetState(p) PROVE IInv'
<1> USE DEF IInv, SetState, At, Goto, workVars, bounds, rxVars
<1>1. TypeOK'
  BY DEF TypeOK, Procs, Labels, Callers, Target
<1>2. PcOK'
  BY DEF TypeOK, PcOK, InStctl, Procs, Target, Callers
<1>3. SemaHeld'
  BY DEF TypeOK, PcOK, SemaHeld, Callers, InStctl, Procs, Target
<1>4. Counted'
  BY DEF TypeOK, Counted, Target, Callers
<1>5. SleepsAgain'
  BY DEF TypeOK, PcOK, SleepsAgain, SemaHeld, Callers, Target, Procs, InStctl
<1>6. ChipAhead'
  BY DEF TypeOK, PcOK, ChipAhead, SemaHeld, Callers, Target, Procs, InStctl
<1>7. NeverAsleep'
  BY DEF TypeOK, PcOK, NeverAsleep, SemaHeld, Callers, Target, Procs, InStctl
<1>8. WorkKept'
  BY DEF TypeOK, PcOK, Counted, NeverAsleep, WorkKept, NoLostWork, CmdPending,
     FramePending, Callers, Procs, InStctl, Target
<1>9. QED  BY <1>1, <1>2, <1>3, <1>4, <1>5, <1>6, <1>7, <1>8

\* The timer runs for an active chip; the semaphore is given back.
LEMMA SetTimerStep == ASSUME NEW p \in Callers, IInv, SetTimer(p) PROVE IInv'
<1> USE DEF IInv, SetTimer, At, ArmTimer, Goto, Return, workVars, bounds, rxVars
<1>1. TypeOK'
  BY DEF TypeOK, Procs, Labels, Callers, Target
<1>2. PcOK'
  BY DEF TypeOK, PcOK, InStctl, Procs, Target, Callers
<1>3. SemaHeld'
  <2> SUFFICES ASSUME NEW q \in Callers
               PROVE  /\ wakeup_sema' = q <=> pc'[q] \in {"reg", "set", "arm"}
                      /\ pc'[q] \in {"reg", "set"} => state' # Target(q)
                      /\ pc'[q] = "arm" => state' = Target(q)
    BY DEF SemaHeld
  <2>1. CASE q = p
    BY <2>1 DEF TypeOK, PcOK, SemaHeld, Callers, InStctl, Procs, Target, None
  <2>2. CASE q # p
    BY <2>2 DEF TypeOK, PcOK, SemaHeld, Callers, InStctl, Procs, Target, None
  <2>3. QED  BY <2>1, <2>2
<1>4. Counted'
  BY DEF TypeOK, Counted, Target, Callers
<1>5. SleepsAgain'
  BY DEF TypeOK, PcOK, SleepsAgain, SemaHeld, Callers, Target, Procs, InStctl
<1>6. ChipAhead'
  BY DEF TypeOK, PcOK, ChipAhead, SemaHeld, Callers, Target, Procs, InStctl
<1>7. NeverAsleep'
  BY DEF TypeOK, PcOK, NeverAsleep, SemaHeld, Callers, Target, Procs, InStctl
<1>8. WorkKept'
  BY DEF TypeOK, PcOK, Counted, NeverAsleep, WorkKept, NoLostWork, CmdPending,
     FramePending, Callers, Procs, InStctl, Target
<1>9. QED  BY <1>1, <1>2, <1>3, <1>4, <1>5, <1>6, <1>7, <1>8

-----------------------------------------------------------------------------
(* The theorems. *)

\* The driver starts with nothing to do.
LEMMA InitIInv == Init => IInv
<1> SUFFICES ASSUME Init PROVE IInv
  OBVIOUS
<1> USE SdioBusAssumption DEF Init, Procs, Callers, None
<1>1. TypeOK
  BY DEF TypeOK, Labels
<1>2. PcOK /\ SemaHeld /\ Counted
  BY DEF PcOK, SemaHeld, Counted
<1>3. SleepsAgain /\ ChipAhead /\ NeverAsleep
  BY DEF SleepsAgain, ChipAhead, NeverAsleep
<1>4. WorkKept
  BY DEF WorkKept, NoLostWork
<1>5. QED  BY <1>1, <1>2, <1>3, <1>4 DEF IInv

\* A call of aicwf_sdio_pwr_stctl() preserves the invariant, whoever makes it.
LEMMA StctlStep == ASSUME NEW p \in Callers, IInv, Stctl(p) PROVE IInv'
BY StctlEnterStep, StctlSemaStep, WakeupStep, SleepAllowStep, SetStateStep,
   SetTimerStep DEF Stctl

\* Every step preserves the invariant.
LEMMA NextIInv == IInv /\ [Next]_vars => IInv'
<1> SUFFICES ASSUME IInv, [Next]_vars PROVE IInv'
  OBVIOUS
<1> USE DEF Callers
<1>1. CASE Tx
  BY <1>1, TxWakeStep, TxLookStep, TxProcessStep, StctlStep, TxCmdStep,
     TxCmdLockStep, TxMsgStep, TxDataLockStep, TxLeaveStep, TxFrameStep DEF Tx
<1>2. CASE Pwr
  BY <1>2, PwrWakeStep, PwrLookStep, PwrReadCmdStep, PwrReadRxStep, StctlStep
     DEF Pwr
<1>3. CASE Rx
  BY <1>3, RxWakeStep, RxProcessStep, RxNoMemStep, StctlStep DEF Rx
<1>4. CASE Pm
  BY <1>4, SuspendLockStep, SuspendUnlockStep, ResumeStep, StctlStep DEF Pm
<1>5. CASE Stop
  BY <1>5, StopDownStep, StopTimerStep, StopLockStep, StopFlushStep DEF Stop
<1>6. CASE PostCmd \/ PostCmdTrigger \/ PostFrame \/ PostFrameTrigger
  BY <1>6, PostCmdStep, PostCmdTriggerStep, PostFrameStep, PostFrameTriggerStep
<1>7. CASE TimerFire \/ RxIrq \/ Suspend \/ ToggleBusy
  BY <1>7, TimerFireStep, RxIrqStep, SuspendStep, ToggleBusyStep
<1>8. CASE UNCHANGED vars
  <2> USE <1>8 DEF IInv, vars, powerVars, workVars, rxVars, bounds, At
  <2>1. TypeOK' /\ PcOK' /\ SemaHeld' /\ Counted'
    BY DEF TypeOK, PcOK, SemaHeld, Counted
  <2>2. SleepsAgain' /\ ChipAhead' /\ NeverAsleep'
    BY DEF SleepsAgain, ChipAhead, NeverAsleep
  <2>3. WorkKept'
    BY DEF WorkKept, NoLostWork, CmdPending, FramePending
  <2>4. QED  BY <2>1, <2>2, <2>3
<1>9. QED  BY <1>1, <1>2, <1>3, <1>4, <1>5, <1>6, <1>7, <1>8 DEF Next

\* The invariant holds always.
LEMMA SpecIInv == Spec => []IInv
BY InitIInv, NextIInv, PTL DEF Spec

\* The variables of the bus keep their types: no completion is taken twice and no
\* counter underflows, under every interleaving.
THEOREM BusTypeCorrect == Spec => []TypeOK
<1>1. IInv => TypeOK
  BY DEF IInv
<1>2. QED  BY <1>1, SpecIInv, PTL

\* An active chip is always looked at again by the power control, so that it can
\* sleep again: no race of the five callers of aicwf_sdio_pwr_stctl(), of the
\* timer and of the power control thread loses the timer.
THEOREM TimerNeverLost == Spec => []SleepsAgain
<1>1. IInv => SleepsAgain
  BY DEF IInv
<1>2. QED  BY <1>1, SpecIInv, PTL

\* Outside pwrctl_wakeup_sema, and if no access fails, sdiodev->state is right
\* about an active chip.
THEOREM StateTellsChip == Spec => []ActiveIsAwake
<1>1. IInv => ActiveIsAwake
  BY DEF IInv, ActiveIsAwake, ChipAhead, SemaHeld, Callers, None
<1>2. QED  BY <1>1, SpecIInv, PTL

\* If scanning or P2P keeps the chip awake and no access fails, the trigger
\* protocol of the transmit thread forgets no message and no frame.
THEOREM NothingForgotten == ~PowerSave /\ ~MayFail /\ Spec => []NoLostWork
<1> SUFFICES ASSUME ~PowerSave, ~MayFail PROVE Spec => []NoLostWork
  OBVIOUS
<1>1. IInv => NoLostWork
  BY DEF IInv, WorkKept
<1>2. QED  BY <1>1, SpecIInv, PTL

-----------------------------------------------------------------------------
(* Scanning that comes and goes. *)

\* A step that leaves the power state alone and takes nobody past a register.
LEMMA HeldQuiet ==
    ASSUME HeldActive, UNCHANGED <<bus, state, busy, held>>,
           \A p \in Callers : pc'[p] = pc[p] \/ pc'[p] \notin {"set", "arm"},
           pc'["tx"] \in Past => pc["tx"] \in Past,
           pc'["tx"] \in Having => pc["tx"] \in Having
    PROVE  HeldActive'
BY DEF HeldActive

\* The steps of aicwf_sdio_pwr_stctl(). The transmit thread finds the semaphore
\* free, so that nobody is between a register and state, and from then on the
\* sleep register is not written.
LEMMA HeldStctl ==
    ASSUME NEW p \in Callers, IInv, HeldActive, Stctl(p), bus = "UP"
    PROVE  HeldActive'
<1> USE DEF IInv, At, Goto, Callers, Procs, Target
<1>1. CASE StctlEnter(p)
  <2>1. UNCHANGED <<bus, state, busy, held>> /\ pc' = [pc EXCEPT ![p] = "sema"]
    BY <1>1 DEF StctlEnter, powerVars
  <2>2. QED  BY <2>1, HeldQuiet DEF TypeOK, Having, Past
<1>2. CASE StctlSema(p)
  <2>1. CASE p = "tx"
    <3>1. \A q \in Callers : pc[q] \notin {"reg", "set", "arm"}
      BY <1>2 DEF StctlSema, SemaHeld, None
    <3>2. /\ UNCHANGED <<bus, state, busy>> /\ held' = busy
          /\ \/ pc' = [pc EXCEPT !["tx"] = "cmd"] /\ state = "ACTIVE"
             \/ pc' = [pc EXCEPT !["tx"] = "reg"]
      BY <1>2, <2>1 DEF StctlSema, Return
    <3>3. QED  BY <3>1, <3>2 DEF HeldActive, TypeOK, Having, Past
  <2>2. CASE p # "tx"
    <3>1. /\ UNCHANGED <<bus, state, busy, held>>
          /\ pc' = [pc EXCEPT ![p] = "reg"] \/ pc' = [pc EXCEPT ![p] = Return(p)]
      BY <1>2, <2>2 DEF StctlSema
    <3>2. Return(p) \in {"unlock", "idle"}
      BY <2>2 DEF Return
    <3>3. QED  BY <2>2, <3>1, <3>2, HeldQuiet DEF TypeOK
  <2>3. QED  BY <2>1, <2>2
<1>3. CASE Wakeup(p)
  <2>1. /\ UNCHANGED <<bus, state, busy, held>> /\ pc' = [pc EXCEPT ![p] = "set"]
        /\ pc[p] = "reg" /\ p \in {"tx", "rx", "resume"}
    BY <1>3 DEF Wakeup
  <2>2. QED  BY <2>1 DEF HeldActive, TypeOK, Having, Past
<1>4. CASE SleepAllow(p)
  <2>1. /\ UNCHANGED <<bus, state, busy, held>> /\ p \in {"pwr", "suspend"}
        /\ \/ busy /\ pc' = [pc EXCEPT ![p] = Return(p)]
           \/ ~busy /\ pc' = [pc EXCEPT ![p] = "set"]
    BY <1>4 DEF SleepAllow, HeldAwake, StayActive
  <2>2. Return(p) \in {"unlock", "idle"}
    BY <2>1 DEF Return
  <2>3. QED  BY <2>1, <2>2 DEF HeldActive, TypeOK
<1>5. CASE SetState(p)
  <2>1. /\ UNCHANGED <<bus, busy, held>> /\ pc' = [pc EXCEPT ![p] = "arm"]
        /\ state' = Target(p) /\ pc[p] = "set"
    BY <1>5 DEF SetState
  <2>2. p \notin {"tx", "rx", "resume"} => ~(held /\ pc["tx"] \in Having \cup Past)
    BY <2>1 DEF HeldActive
  <2>3. QED  BY <2>1, <2>2 DEF HeldActive, TypeOK, Having, Past
<1>6. CASE SetTimer(p)
  <2>1. /\ UNCHANGED <<bus, state, busy, held>> /\ pc[p] = "arm"
        /\ pc' = [pc EXCEPT ![p] = Return(p)]
    BY <1>6 DEF SetTimer
  <2>2. state = Target(p)
    BY <2>1 DEF SemaHeld
  <2>3. Return(p) = IF p = "tx" THEN "cmd" ELSE IF p = "suspend" THEN "unlock" ELSE "idle"
    BY DEF Return
  <2>4. QED  BY <2>1, <2>2, <2>3 DEF HeldActive, TypeOK, Having, Past
<1>7. QED  BY <1>1, <1>2, <1>3, <1>4, <1>5, <1>6 DEF Stctl

\* No other step of the transmit thread takes the semaphore or passes it.
LEMMA HeldTx ==
    ASSUME IInv, HeldActive,
           \/ TxWake \/ TxLook \/ TxProcess \/ TxCmd \/ TxCmdLock \/ TxMsg
           \/ TxDataLock \/ TxLeave \/ TxFrame
    PROVE  HeldActive'
<1>1. UNCHANGED <<bus, state, busy, held>>
  BY DEF TxWake, TxLook, TxProcess, TxCmd, TxCmdLock, TxMsg, TxDataLock, TxLeave,
     TxFrame, powerUnchanged, powerVars
<1>2. \/ pc' = pc
      \/ \E l \in {"idle", "look", "process", "stctl"} : pc' = [pc EXCEPT !["tx"] = l]
      \/ pc["tx"] \in Past /\ \E l \in Past : pc' = [pc EXCEPT !["tx"] = l]
  BY DEF TxWake, TxLook, TxProcess, TxCmd, TxCmdLock, TxMsg, TxDataLock, TxLeave,
     TxFrame, At, Goto, Past
<1>3. pc \in [Procs -> Labels]
  BY DEF IInv, TypeOK
<1>4. QED  BY <1>1, <1>2, <1>3, HeldQuiet DEF Past, Having, Callers, Procs

\* Nor does one of the other threads and callbacks.
LEMMA HeldOthers ==
    ASSUME IInv, HeldActive,
           \/ PwrWake \/ PwrLook \/ PwrReadCmd \/ PwrReadRx
           \/ RxWake \/ RxProcess \/ RxNoMem
           \/ SuspendLock \/ SuspendUnlock \/ Resume \/ Suspend
           \/ StopTimer \/ StopLock \/ StopFlush
           \/ PostCmd \/ PostCmdTrigger \/ PostFrame \/ PostFrameTrigger
           \/ TimerFire \/ RxIrq
    PROVE  HeldActive'
<1>1. UNCHANGED <<bus, state, busy, held>>
  BY DEF PwrWake, PwrLook, PwrReadCmd, PwrReadRx, PwrStep, pwrUnchanged, RxWake,
     RxProcess, RxNoMem, SuspendLock, SuspendUnlock, Resume, Suspend, StopTimer,
     StopLock, StopFlush, PostCmd, PostCmdTrigger, PostFrame, PostFrameTrigger,
     TimerFire, RxIrq, powerUnchanged, powerVars
<1>2. \/ pc' = pc
      \/ \E q \in Procs \ {"tx"}, l \in Labels \ {"set", "arm"} : pc' = [pc EXCEPT ![q] = l]
      \/ pc' = [pc EXCEPT !["suspend"] = "idle", !["resume"] = "stctl"]
  BY DEF PwrWake, PwrLook, PwrReadCmd, PwrReadRx, PwrStep, RxWake,
     RxProcess, RxNoMem, SuspendLock, SuspendUnlock, Resume, Suspend, StopTimer,
     StopLock, StopFlush, PostCmd, PostCmdTrigger, PostFrame, PostFrameTrigger,
     TimerFire, RxIrq, At, Goto, Procs, Labels
<1>3. pc \in [Procs -> Labels]
  BY DEF IInv, TypeOK
<1>4. pc'["tx"] = pc["tx"]
  BY <1>2, <1>3 DEF Procs
<1>5. \A p \in Callers : pc'[p] = pc[p] \/ pc'[p] \notin {"set", "arm"}
  BY <1>2, <1>3 DEF Procs, Callers
<1>6. QED  BY <1>1, <1>4, <1>5, HeldQuiet

\* Every step preserves it; on a bus that is down it says nothing.
LEMMA NextHeld == IInv /\ HeldActive /\ [Next]_vars => HeldActive'
<1> SUFFICES ASSUME IInv, HeldActive, [Next]_vars PROVE HeldActive'
  OBVIOUS
<1>1. CASE bus' # "UP"
  BY <1>1 DEF HeldActive
<1>2. CASE ToggleBusy
  BY <1>2 DEF HeldActive, ToggleBusy
<1>3. CASE UNCHANGED vars
  BY <1>3, HeldQuiet DEF vars, powerVars
<1>4. ASSUME NEW p \in Callers, Stctl(p) PROVE HeldActive'
  <2>1. bus' = bus
    BY <1>4 DEF Stctl, StctlEnter, StctlSema, Wakeup, SleepAllow, SetState, SetTimer
  <2>2. bus' = "UP" => bus = "UP"
    BY <2>1
  <2>3. QED  BY <1>1, <1>4, <2>2, HeldStctl
<1>5. CASE StopDown
  BY <1>5, <1>1 DEF StopDown
<1>6. CASE Tx
  BY <1>6, <1>4, HeldTx DEF Tx, Callers
<1>7. CASE Pwr \/ Rx \/ Pm \/ Stop
  BY <1>7, <1>4, <1>5, HeldOthers DEF Pwr, Rx, Pm, Stop, Callers
<1>8. CASE PostCmd \/ PostCmdTrigger \/ PostFrame \/ PostFrameTrigger
           \/ TimerFire \/ RxIrq \/ Suspend
  BY <1>8, HeldOthers
<1>9. QED  BY <1>2, <1>3, <1>6, <1>7, <1>8 DEF Next

\* Scanning and P2P hold the chip for the transmit thread, with all callers of
\* aicwf_sdio_pwr_stctl(), scanning that comes and goes, failing accesses, suspend,
\* resume and removal: as long as they have been on since the thread had
\* pwrctl_wakeup_sema, no late look of the power control at the queues and no
\* suspend puts the chip to sleep before the end of its pass.
THEOREM TransfersMeetAwakeChip == Spec => []TransferAwake
<1>1. Init => HeldActive
  BY DEF Init, HeldActive
<1>2. IInv /\ HeldActive => TransferAwake
  BY DEF IInv, TransferAwake, HeldActive, ChipAhead, Past
<1>3. QED  BY <1>1, <1>2, SpecIInv, NextHeld, PTL DEF Spec

=============================================================================
