------------------------------ MODULE SdioBus ------------------------------
(***************************************************************************)
(* The SDIO bus of the aic8800_fdrv driver (aicwf_sdio.c): the transmit    *)
(* thread and its trigger, the single command mailbox, and the power       *)
(* control that puts the chip to sleep when a timer finds the bus idle.    *)
(*                                                                         *)
(* Threads and callbacks are processes with a program counter. They share  *)
(* two semaphores: pwrctl_wakeup_sema around a change of the power state,  *)
(* and txctl_sema around a transfer. Frames and blocks are counted, not    *)
(* told apart.                                                             *)
(***************************************************************************)
EXTENDS Integers

CONSTANTS
    MaxCmds,      \* bound: messages posted with aicwf_sdio_bus_txmsg()
    MaxFrames,    \* bound: frames posted with aicwf_sdio_bus_txdata()
    MaxRx,        \* bound: received blocks
    MaxSuspends,  \* bound: system suspends
    PowerSave,    \* whether scanning and P2P are ever off, so that sleep is allowed
    MayFail,      \* whether register accesses and transfers may fail
    MayStop       \* whether the device may be removed

ASSUME SdioBusAssumption ==
    /\ MaxCmds \in Nat /\ MaxFrames \in Nat /\ MaxRx \in Nat
    /\ MaxSuspends \in Nat
    /\ {PowerSave, MayFail, MayStop} \subseteq BOOLEAN

VARIABLES
    bus,           \* bus_if->state: "UP" or "DOWN"
    state,         \* sdiodev->state: "ACTIVE" or "SLEEP"
    chip,          \* what the chip really does: "awake" or "asleep"
    timer,         \* the power control timer is pending
    pwr_trgg,      \* completions: pwrctrl_trgg, bustx_trgg and busrx_trgg
    tx_trgg,
    rx_trgg,
    wakeup_sema,   \* holder of pwrctl_wakeup_sema, or None
    txctl_sema,    \* holder of txctl_sema, or None
    cmd_txstate,   \* a message is in the mailbox
    txq,           \* frames in tx_priv->txq
    tx_pktcnt,     \* the counter that is kept beside it
    rxq,           \* received blocks in rx_priv->rxq
    rx_cnt,        \* the counter that is kept beside it
    busy,          \* scanning, is_p2p_alive or is_p2p_connected
    held,          \* ghost: busy without a break since the transmit thread last had
                   \* pwrctl_wakeup_sema; no action reads it
    pc,            \* where each process is
    cmds, frames, rxs, suspends    \* what the bounds count

None  == "none"
Procs == {"tx", "pwr", "rx", "suspend", "resume", "stop", "cmd", "data"}

powerVars == <<state, chip, timer, wakeup_sema>>
rxVars    == <<rx_trgg, rxq, rx_cnt>>
workVars  == <<cmd_txstate, txq, tx_pktcnt, rxVars>>
bounds    == <<cmds, frames, rxs, suspends>>
vars      == <<bus, powerVars, pwr_trgg, tx_trgg, txctl_sema, workVars, busy, held,
               pc, bounds>>

Labels == {"idle", "look", "process", "stctl", "sema", "reg", "set", "arm",
           "cmd", "cmdlock", "txmsg", "datalock", "loop", "readcmd", "readrx",
           "trigger", "unlock", "suspended", "timer", "lock", "flush", "done"}

\* After aicwf_sdio_bus_start(): the driver believes that the chip sleeps.
Init ==
    /\ bus = "UP" /\ state = "SLEEP" /\ chip \in {"awake", "asleep"}
    /\ timer = FALSE /\ pwr_trgg = 0 /\ tx_trgg = 0
    /\ wakeup_sema = None /\ txctl_sema = None
    /\ cmd_txstate = FALSE /\ txq = 0 /\ tx_pktcnt = 0
    /\ rx_trgg = 0 /\ rxq = 0 /\ rx_cnt = 0
    /\ busy \in BOOLEAN /\ (~PowerSave => busy) /\ held = FALSE
    /\ pc = [p \in Procs |-> "idle"]
    /\ cmds = 0 /\ frames = 0 /\ rxs = 0 /\ suspends = 0

At(p, l)   == pc[p] = l
Goto(p, l) == pc' = [pc EXCEPT ![p] = l]

-----------------------------------------------------------------------------
(* aicwf_sdio_pwr_stctl(), called by five of the processes. *)

Target(p) == IF p \in {"tx", "rx", "resume"} THEN "ACTIVE" ELSE "SLEEP"

\* Where the caller goes on.
Return(p) ==
    CASE p = "tx"      -> "cmd"
      [] p = "suspend" -> "unlock"
      [] OTHER         -> "idle"

Callers == {"tx", "pwr", "rx", "suspend", "resume"}

\* aicwf_sdio_pwrctl_timer(active_duration): not armed when the bus is down.
ArmTimer == timer' = (timer \/ bus = "UP")

\* A bus that is down is left alone.
StctlEnter(p) ==
    /\ At(p, "stctl")
    /\ Goto(p, IF bus = "DOWN" THEN Return(p) ELSE "sema")
    /\ UNCHANGED <<bus, powerVars, pwr_trgg, tx_trgg, txctl_sema, workVars, busy,
                   held, bounds>>

\* Mutant: the semaphore is not waited for.
StctlSemaNoWait(p) ==
    /\ At(p, "sema")
    /\ IF state = Target(p)
       THEN /\ IF state = "ACTIVE" THEN ArmTimer ELSE UNCHANGED timer
            /\ Goto(p, Return(p))
            /\ UNCHANGED wakeup_sema
       ELSE wakeup_sema' = p /\ Goto(p, "reg") /\ UNCHANGED timer
    /\ held' = IF p = "tx" THEN busy ELSE held
    /\ UNCHANGED <<bus, state, chip, pwr_trgg, tx_trgg, txctl_sema, workVars, busy,
                   bounds>>

\* Under pwrctl_wakeup_sema: nothing to do but to prolong the active time, or on
\* to aicwf_sdio_wakeup() or aicwf_sdio_sleep_allow().
StctlSema(p) ==
    /\ At(p, "sema") /\ wakeup_sema = None
    /\ IF state = Target(p)
       THEN /\ IF state = "ACTIVE" THEN ArmTimer ELSE UNCHANGED timer
            /\ Goto(p, Return(p))
            /\ UNCHANGED wakeup_sema
       ELSE wakeup_sema' = p /\ Goto(p, "reg") /\ UNCHANGED timer
    /\ held' = IF p = "tx" THEN busy ELSE held
    /\ UNCHANGED <<bus, state, chip, pwr_trgg, tx_trgg, txctl_sema, workVars, busy,
                   bounds>>

\* aicwf_sdio_wakeup(): the wakeup register is written until the chip answers; all
\* retries may fail, and nobody looks at the result.
Wakeup(p) ==
    /\ At(p, "reg") /\ Target(p) = "ACTIVE"
    /\ \/ chip' = "awake"
       \/ MayFail /\ UNCHANGED chip
    /\ Goto(p, "set")
    /\ UNCHANGED <<bus, state, timer, wakeup_sema, pwr_trgg, tx_trgg, txctl_sema,
                   workVars, busy, held, bounds>>

\* Mutant: scanning and P2P do not keep the chip awake.
HeldAwakeNever == FALSE

\* What aicwf_sdio_sleep_allow() refuses to sleep for.
HeldAwake == busy

WriteSleep == chip' = "asleep" \/ (MayFail /\ UNCHANGED chip)

\* Mutant: a chip that may not sleep yet is not looked at again.
StayActiveForget(p) ==
    /\ UNCHANGED <<timer, chip>> /\ wakeup_sema' = None
    /\ Goto(p, Return(p))

\* A chip that may not sleep yet is active for another period.
StayActive(p) ==
    /\ ArmTimer /\ wakeup_sema' = None
    /\ Goto(p, Return(p))
    /\ UNCHANGED chip

\* aicwf_sdio_sleep_allow(): on a bus that went down meanwhile the chip is put to
\* sleep behind the back of sdiodev->state; otherwise it stays active, or the sleep
\* register is written.
SleepAllow(p) ==
    /\ At(p, "reg") /\ Target(p) = "SLEEP"
    /\ \/ /\ bus = "DOWN"
          /\ WriteSleep
          /\ timer' = FALSE /\ wakeup_sema' = None
          /\ Goto(p, Return(p))
       \/ bus = "UP" /\ HeldAwake /\ StayActive(p)
       \/ /\ bus = "UP" /\ ~HeldAwake
          /\ WriteSleep
          /\ Goto(p, "set")
          /\ UNCHANGED <<timer, wakeup_sema>>
    /\ UNCHANGED <<bus, state, pwr_trgg, tx_trgg, txctl_sema, workVars, busy, held, bounds>>

SetState(p) ==
    /\ At(p, "set")
    /\ state' = Target(p)
    /\ Goto(p, "arm")
    /\ UNCHANGED <<bus, chip, timer, wakeup_sema, pwr_trgg, tx_trgg, txctl_sema,
                   workVars, busy, held, bounds>>

\* The timer is armed for an active chip and deleted for a sleeping one.
SetTimer(p) ==
    /\ At(p, "arm")
    /\ IF Target(p) = "ACTIVE" THEN ArmTimer ELSE timer' = FALSE
    /\ wakeup_sema' = None
    /\ Goto(p, Return(p))
    /\ UNCHANGED <<bus, state, chip, pwr_trgg, tx_trgg, txctl_sema, workVars, busy,
                   held, bounds>>

Stctl(p) ==
    \/ StctlEnter(p) \/ StctlSema(p) \/ Wakeup(p) \/ SleepAllow(p) \/ SetState(p)
    \/ SetTimer(p)

-----------------------------------------------------------------------------
(* Posting work: aicwf_sdio_bus_txmsg() and aicwf_sdio_bus_txdata(). *)

powerUnchanged == UNCHANGED <<bus, powerVars, pwr_trgg, busy, held>>

\* The mailbox is overwritten whatever it holds, before the bus is looked at ...
PostCmd ==
    /\ At("cmd", "idle") /\ cmds < MaxCmds
    /\ cmds' = cmds + 1
    /\ cmd_txstate' = TRUE
    /\ Goto("cmd", "trigger")
    /\ powerUnchanged
    /\ UNCHANGED <<tx_trgg, txctl_sema, txq, tx_pktcnt, rxVars, frames, rxs, suspends>>

\* ... and the thread is triggered if it is up.
PostCmdTrigger ==
    /\ At("cmd", "trigger")
    /\ tx_trgg' = IF bus = "UP" THEN tx_trgg + 1 ELSE tx_trgg
    /\ Goto("cmd", "idle")
    /\ powerUnchanged
    /\ UNCHANGED <<txctl_sema, workVars, bounds>>

PostFrame ==
    /\ At("data", "idle") /\ frames < MaxFrames /\ bus = "UP"
    /\ frames' = frames + 1
    /\ txq' = txq + 1 /\ tx_pktcnt' = tx_pktcnt + 1
    /\ Goto("data", "trigger")
    /\ powerUnchanged
    /\ UNCHANGED <<tx_trgg, txctl_sema, cmd_txstate, rxVars, cmds, rxs, suspends>>

PostFrameTrigger ==
    /\ At("data", "trigger")
    /\ tx_trgg' = tx_trgg + 1
    /\ Goto("data", "idle")
    /\ powerUnchanged
    /\ UNCHANGED <<txctl_sema, workVars, bounds>>

-----------------------------------------------------------------------------
(* sdio_bustx_thread() and aicwf_sdio_tx_process(). *)

\* Mutant: the thread does not wait for a trigger.
TxWakeSpurious ==
    /\ At("tx", "idle")
    /\ tx_trgg' = tx_trgg - 1
    /\ Goto("tx", IF bus = "DOWN" THEN "idle" ELSE "look")
    /\ powerUnchanged
    /\ UNCHANGED <<txctl_sema, workVars, bounds>>

TxWake ==
    /\ At("tx", "idle") /\ tx_trgg > 0
    /\ tx_trgg' = tx_trgg - 1
    /\ Goto("tx", IF bus = "DOWN" THEN "idle" ELSE "look")
    /\ powerUnchanged
    /\ UNCHANGED <<txctl_sema, workVars, bounds>>

TxLook ==
    /\ At("tx", "look")
    /\ Goto("tx", IF tx_pktcnt > 0 \/ cmd_txstate THEN "process" ELSE "idle")
    /\ powerUnchanged
    /\ UNCHANGED <<tx_trgg, txctl_sema, workVars, bounds>>

TxProcess ==
    /\ At("tx", "process")
    /\ Goto("tx", IF bus = "DOWN" THEN "idle" ELSE "stctl")
    /\ powerUnchanged
    /\ UNCHANGED <<tx_trgg, txctl_sema, workVars, bounds>>

TxCmd ==
    /\ At("tx", "cmd")
    /\ Goto("tx", IF cmd_txstate THEN "cmdlock" ELSE "datalock")
    /\ powerUnchanged
    /\ UNCHANGED <<tx_trgg, txctl_sema, workVars, bounds>>

\* Under txctl_sema: "state err" ends the pass, and the trigger is used up.
TxCmdLock ==
    /\ At("tx", "cmdlock") /\ txctl_sema = None
    /\ IF state = "ACTIVE"
       THEN txctl_sema' = "tx" /\ Goto("tx", "txmsg")
       ELSE Goto("tx", "idle") /\ UNCHANGED txctl_sema
    /\ powerUnchanged
    /\ UNCHANGED <<tx_trgg, workVars, bounds>>

\* Mutant: the pass ends after the message.
TxMsgThenIdle ==
    /\ At("tx", "txmsg")
    /\ \/ cmd_txstate' = FALSE
       \/ MayFail /\ UNCHANGED cmd_txstate
    /\ txctl_sema' = None
    /\ Goto("tx", "idle")
    /\ powerUnchanged
    /\ UNCHANGED <<tx_trgg, txq, tx_pktcnt, rxVars, bounds>>

\* aicwf_sdio_tx_msg(): a transfer, good or bad, empties the mailbox; without
\* buffers in the firmware the message stays there. The result is not looked at.
TxMsg ==
    /\ At("tx", "txmsg")
    /\ \/ cmd_txstate' = FALSE
       \/ MayFail /\ UNCHANGED cmd_txstate
    /\ txctl_sema' = None
    /\ Goto("tx", "datalock")
    /\ powerUnchanged
    /\ UNCHANGED <<tx_trgg, txq, tx_pktcnt, rxVars, bounds>>

TxDataLock ==
    /\ At("tx", "datalock") /\ txctl_sema = None
    /\ IF state = "ACTIVE"
       THEN txctl_sema' = "tx" /\ Goto("tx", "loop")
       ELSE Goto("tx", "idle") /\ UNCHANGED txctl_sema
    /\ powerUnchanged
    /\ UNCHANGED <<tx_trgg, workVars, bounds>>

\* The loop over the frames ends when there are none, when the bus goes down and,
\* with or without buffers in the firmware, when a message has been posted.
TxLeave ==
    /\ At("tx", "loop")
    /\ txq = 0 \/ bus = "DOWN" \/ cmd_txstate
    /\ txctl_sema' = None
    /\ Goto("tx", "idle")
    /\ powerUnchanged
    /\ UNCHANGED <<tx_trgg, workVars, bounds>>

\* aicwf_sdio_send() takes one frame; it is the last one of the pass if a message
\* has been posted.
TxFrame ==
    /\ At("tx", "loop") /\ txq > 0 /\ bus = "UP"
    /\ txq' = txq - 1 /\ tx_pktcnt' = tx_pktcnt - 1
    /\ IF cmd_txstate THEN Goto("tx", "idle") /\ txctl_sema' = None
                      ELSE UNCHANGED <<pc, txctl_sema>>
    /\ powerUnchanged
    /\ UNCHANGED <<tx_trgg, cmd_txstate, rxVars, bounds>>

Tx ==
    \/ TxWake \/ TxLook \/ TxProcess \/ Stctl("tx") \/ TxCmd \/ TxCmdLock \/ TxMsg
    \/ TxDataLock \/ TxLeave \/ TxFrame

-----------------------------------------------------------------------------
(* aicwf_sdio_bus_pwrctl(), the timer, and aicwf_sdio_pwrctl_thread(). *)

TimerFire ==
    /\ timer
    /\ timer' = FALSE
    /\ pwr_trgg' = IF bus = "UP" THEN pwr_trgg + 1 ELSE pwr_trgg
    /\ UNCHANGED <<bus, state, chip, wakeup_sema, tx_trgg, txctl_sema, workVars, busy,
                   held, pc, bounds>>

pwrUnchanged == UNCHANGED <<bus, state, chip, wakeup_sema, tx_trgg, txctl_sema,
                            workVars, busy, held, bounds>>

PwrWake ==
    /\ At("pwr", "idle") /\ pwr_trgg > 0
    /\ pwr_trgg' = pwr_trgg - 1
    /\ Goto("pwr", IF bus = "DOWN" THEN "idle" ELSE "look")
    /\ pwrUnchanged /\ UNCHANGED timer

\* Idle is read off three variables, one after the other and without a lock; the
\* first sign of work prolongs the active time.
PwrStep(l, idle, next) ==
    /\ At("pwr", l)
    /\ IF idle THEN Goto("pwr", next) /\ UNCHANGED timer
               ELSE Goto("pwr", "idle") /\ ArmTimer
    /\ pwrUnchanged /\ UNCHANGED pwr_trgg

PwrLook    == PwrStep("look", tx_pktcnt <= 0, "readcmd")
PwrReadCmd == PwrStep("readcmd", ~cmd_txstate, "readrx")
PwrReadRx  == PwrStep("readrx", rx_cnt = 0, "stctl")

Pwr == PwrWake \/ PwrLook \/ PwrReadCmd \/ PwrReadRx \/ Stctl("pwr")

-----------------------------------------------------------------------------
(* Received blocks, system suspend and resume, removal. *)

\* aicwf_sdio_hal_irqhandler() queues a block, or has nothing to read, and triggers
\* the receive thread if it then counts one block (SdioRx takes this apart); to
\* interrupt the host the chip has woken up by itself.
RxIrq ==
    /\ bus = "UP" /\ rxs < MaxRx
    /\ rxs' = rxs + 1
    /\ chip' = "awake"
    /\ \/ rxq' = rxq + 1 /\ rx_cnt' = rx_cnt + 1
       \/ UNCHANGED <<rxq, rx_cnt>>
    /\ rx_trgg' = IF rx_cnt' = 1 THEN rx_trgg + 1 ELSE rx_trgg
    /\ UNCHANGED <<bus, state, timer, wakeup_sema, pwr_trgg, tx_trgg, txctl_sema,
                   cmd_txstate, txq, tx_pktcnt, busy, held, pc, cmds, frames,
                   suspends>>

\* sdio_busrx_thread().
RxWake ==
    /\ At("rx", "idle") /\ rx_trgg > 0
    /\ rx_trgg' = rx_trgg - 1
    /\ Goto("rx", IF bus = "DOWN" THEN "idle" ELSE "process")
    /\ powerUnchanged
    /\ UNCHANGED <<tx_trgg, txctl_sema, cmd_txstate, txq, tx_pktcnt, rxq, rx_cnt, bounds>>

\* aicwf_process_rxframes() handles all blocks, then holds the chip active.
RxProcess ==
    /\ At("rx", "process")
    /\ IF rxq > 0 THEN rxq' = rxq - 1 /\ rx_cnt' = rx_cnt - 1 /\ UNCHANGED pc
                  ELSE Goto("rx", "stctl") /\ UNCHANGED <<rxq, rx_cnt>>
    /\ powerUnchanged
    /\ UNCHANGED <<tx_trgg, txctl_sema, cmd_txstate, txq, tx_pktcnt, rx_trgg, bounds>>

\* Without memory for a message it returns early: the block stays counted, and the
\* power state is not touched.
RxNoMem ==
    /\ MayFail
    /\ At("rx", "process") /\ rxq > 0
    /\ rxq' = rxq - 1
    /\ Goto("rx", "idle")
    /\ powerUnchanged
    /\ UNCHANGED <<tx_trgg, txctl_sema, cmd_txstate, txq, tx_pktcnt, rx_trgg, rx_cnt,
                   bounds>>

Rx == RxWake \/ RxProcess \/ RxNoMem \/ Stctl("rx")

\* aicwf_sdio_suspend(): an active chip is put to sleep under txctl_sema.
Suspend ==
    /\ At("suspend", "idle") /\ At("resume", "idle") /\ suspends < MaxSuspends
    /\ suspends' = suspends + 1
    /\ Goto("suspend", IF state = "ACTIVE" THEN "lock" ELSE "suspended")
    /\ powerUnchanged
    /\ UNCHANGED <<tx_trgg, txctl_sema, workVars, cmds, frames, rxs>>

SuspendLock ==
    /\ At("suspend", "lock") /\ txctl_sema = None
    /\ txctl_sema' = "suspend"
    /\ Goto("suspend", "stctl")
    /\ powerUnchanged
    /\ UNCHANGED <<tx_trgg, workVars, bounds>>

SuspendUnlock ==
    /\ At("suspend", "unlock")
    /\ txctl_sema' = None
    /\ Goto("suspend", "suspended")
    /\ powerUnchanged
    /\ UNCHANGED <<tx_trgg, workVars, bounds>>

Resume ==
    /\ At("suspend", "suspended") /\ At("resume", "idle")
    /\ pc' = [pc EXCEPT !["suspend"] = "idle", !["resume"] = "stctl"]
    /\ powerUnchanged
    /\ UNCHANGED <<tx_trgg, txctl_sema, workVars, bounds>>

Pm == SuspendLock \/ Stctl("suspend") \/ SuspendUnlock \/ Resume \/ Stctl("resume")

\* aicwf_sdio_release() takes the bus down, then aicwf_sdio_bus_stop() deletes the
\* timer, waits for a transfer to end, does not reach the chip any more, and
\* flushes the queue but not its counter.
StopDown ==
    /\ At("stop", "idle") /\ MayStop
    /\ bus' = "DOWN"
    /\ Goto("stop", "timer")
    /\ UNCHANGED <<powerVars, pwr_trgg, tx_trgg, txctl_sema, workVars, busy, held, bounds>>

StopTimer ==
    /\ At("stop", "timer")
    /\ timer' = FALSE
    /\ Goto("stop", "lock")
    /\ UNCHANGED <<bus, state, chip, wakeup_sema, pwr_trgg, tx_trgg, txctl_sema,
                   workVars, busy, held, bounds>>

StopLock ==
    /\ At("stop", "lock") /\ txctl_sema = None
    /\ Goto("stop", "flush")
    /\ powerUnchanged
    /\ UNCHANGED <<tx_trgg, txctl_sema, workVars, bounds>>

StopFlush ==
    /\ At("stop", "flush")
    /\ txq' = 0
    /\ Goto("stop", "done")
    /\ powerUnchanged
    /\ UNCHANGED <<tx_trgg, txctl_sema, cmd_txstate, tx_pktcnt, rxVars, bounds>>

Stop == StopDown \/ StopTimer \/ StopLock \/ StopFlush

\* Scanning and P2P come and go.
ToggleBusy ==
    /\ PowerSave
    /\ busy' = ~busy /\ held' = FALSE
    /\ UNCHANGED <<bus, powerVars, pwr_trgg, tx_trgg, txctl_sema, workVars, pc, bounds>>

-----------------------------------------------------------------------------
Next ==
    \/ Tx \/ Pwr \/ Rx \/ Pm \/ Stop
    \/ PostCmd \/ PostCmdTrigger \/ PostFrame \/ PostFrameTrigger
    \/ TimerFire \/ RxIrq \/ Suspend \/ ToggleBusy

Spec == Init /\ [][Next]_vars

\* Fairness: the kernel schedules the threads, finishes a call that posts work,
\* runs a pending timer, and resumes a suspended system; the firmware frees
\* buffers again. Nothing else has to happen.
FairSpec ==
    /\ Spec
    /\ WF_vars(Tx) /\ WF_vars(Pwr) /\ WF_vars(Rx) /\ WF_vars(Pm)
    /\ WF_vars(PostCmdTrigger) /\ WF_vars(PostFrameTrigger) /\ WF_vars(TimerFire)

-----------------------------------------------------------------------------
(* Properties. *)

\* Every variable has its type; in particular no completion is taken that was not
\* given, and no counter goes below zero.
TypeOK ==
    /\ bus \in {"UP", "DOWN"} /\ state \in {"ACTIVE", "SLEEP"}
    /\ chip \in {"awake", "asleep"} /\ timer \in BOOLEAN
    /\ pwr_trgg \in Nat /\ tx_trgg \in Nat
    /\ wakeup_sema \in Callers \cup {None} /\ txctl_sema \in {"tx", "suspend", None}
    /\ cmd_txstate \in BOOLEAN /\ txq \in Nat /\ tx_pktcnt \in Nat
    /\ rx_trgg \in Nat /\ rxq \in Nat /\ rx_cnt \in Nat
    /\ busy \in BOOLEAN /\ held \in BOOLEAN /\ pc \in [Procs -> Labels]
    /\ cmds \in Nat /\ frames \in Nat /\ rxs \in Nat /\ suspends \in Nat

\* An active chip is looked at again: as long as the bus is up, the timer runs, or
\* its trigger is on its way to the power control thread, or that thread is on its
\* way to the sleep decision, or somebody is about to start the timer. Otherwise
\* the chip would never sleep again.
SleepsAgain ==
    bus = "UP" /\ state = "ACTIVE" =>
        \/ timer \/ pwr_trgg > 0
        \/ pc["pwr"] \in {"look", "readcmd", "readrx", "stctl", "sema", "reg", "set"}
        \/ \E p \in Callers : At(p, "arm")

\* The driver's idea of an active chip is right whenever nobody is just changing
\* it, as long as the accesses to the chip succeed.
ActiveIsAwake ==
    ~MayFail /\ bus = "UP" /\ state = "ACTIVE" /\ wakeup_sema = None => chip = "awake"

\* A message or frame that waits is not forgotten: there is a trigger for the
\* transmit thread, or its sender is about to give it, or the thread is at a place
\* from which it still comes to it in this pass.
CmdPending ==
    \/ tx_trgg > 0 \/ At("cmd", "trigger")
    \/ pc["tx"] \in {"look", "process", "stctl", "sema", "reg", "set", "arm", "cmd",
                     "cmdlock", "txmsg"}

FramePending ==
    \/ tx_trgg > 0 \/ At("data", "trigger") \/ At("cmd", "trigger")
    \/ pc["tx"] \notin {"idle"}

NoLostWork ==
    bus = "UP" => (cmd_txstate => CmdPending) /\ (txq > 0 => FramePending)

\* Scanning and P2P hold the chip for the transmit thread: if they stay on from the
\* moment the thread has pwrctl_wakeup_sema, then up to the end of its pass the
\* state is active, so that no "state err" breaks the pass off, and no transfer
\* meets a sleeping chip. Whatever the power control, the receive thread, suspend
\* and resume had decided before, and scanning that began while the chip was asleep
\* or going to sleep, does not matter. Scanning that begins later, or that stops in
\* between, does not protect the pass.
TransferAwake ==
    bus = "UP" /\ held /\ pc["tx"] \in {"cmd", "cmdlock", "txmsg", "datalock", "loop"}
        => state = "ACTIVE" /\ (~MayFail => chip = "awake")

\* Whatever is posted is sent, or the bus goes down.
WorkDone ==
    (cmd_txstate \/ txq > 0) ~> ((~cmd_txstate /\ txq = 0) \/ bus = "DOWN")

\* A chip that is idle from some time on sleeps in the end.
IdleSleeps ==
    <>[](bus = "UP" /\ ~busy /\ ~cmd_txstate /\ tx_pktcnt = 0) => []<>(state = "SLEEP")
=============================================================================
