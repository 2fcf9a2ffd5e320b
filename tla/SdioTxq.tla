------------------------------ MODULE SdioTxq ------------------------------
(***************************************************************************)
(* The transmit path of the aic8800_fdrv driver from the frame queue to    *)
(* the chip: the priority queue and its two counters (aicwf_txrxif.c), the *)
(* buffer that aggregates frames, and the flow control by the number of    *)
(* free buffers that the firmware reports (aicwf_sdio.c). The chip is      *)
(* awake here; SdioBus has the power states.                               *)
(***************************************************************************)
EXTENDS Integers, Sequences, FiniteSetsExt

CONSTANTS
    NumPrio,      \* num_prio of the frame queue
    QMax,         \* qmax of the frame queue: TXQLEN
    AggrCounter,  \* tx_aggr_counter
    Thresh,       \* DATA_FLOW_CTRL_THRESH
    Buffers,      \* buffers of the firmware
    MaxFrames,    \* bound: frames posted
    MaxCmds,      \* bound: messages posted
    MayFail,      \* whether register accesses and transfers may fail
    MayStop       \* whether the device may be removed

ASSUME SdioTxqAssumption ==
    /\ NumPrio \in Nat \ {0} /\ QMax \in Nat \ {0} /\ Thresh \in Nat
    /\ AggrCounter \in Nat /\ AggrCounter > Thresh
    /\ Buffers \in Nat /\ Buffers > Thresh
    /\ MaxFrames \in Nat /\ MaxCmds \in Nat
    /\ MayFail \in BOOLEAN /\ MayStop \in BOOLEAN

Prios == 0 .. NumPrio - 1

VARIABLES
    bus,          \* "UP" or "DOWN"
    queuelist,    \* the queued frames of each priority, numbered as they are posted
    qcnt,         \* their number
    hi_prio,      \* no frame has a higher priority
    tx_pktcnt,
    cmd_txstate,  \* a message is in the mailbox
    posting,      \* posters that have not yet triggered the thread
    trgg,         \* bustx_trgg
    pc,           \* where the transmit thread is
    avail,        \* fw_avail_bufcnt
    aggr,         \* the frames of each priority in the aggregation buffer
    aggr_count,   \* their number
    txnow,        \* the argument of aicwf_sdio_send()
    fwfree,       \* external: buffers that are free in the firmware
    fresh,        \* ghost: avail has been read in this pass
    last,         \* ghost: the last frame of each priority given to the chip
    failed,       \* ghost: a register access or a transfer has failed
    posted, cmds  \* what the bounds count

queueVars == <<queuelist, qcnt, hi_prio, tx_pktcnt>>
aggrVars  == <<avail, aggr, aggr_count, fwfree, last, failed>>
postVars  == <<cmd_txstate, posting, posted, cmds>>
vars      == <<bus, queueVars, trgg, pc, txnow, fresh, aggrVars, postVars>>

Nothing == [p \in Prios |-> <<>>]

Init ==
    /\ bus = "UP"
    /\ queuelist = Nothing /\ qcnt = 0 /\ hi_prio = 0 /\ tx_pktcnt = 0
    /\ cmd_txstate = FALSE /\ posting = 0 /\ trgg = 0
    /\ pc = "idle" /\ txnow = FALSE /\ fresh = FALSE
    /\ avail = 0 /\ aggr = Nothing /\ aggr_count = 0
    /\ fwfree = Buffers /\ last = [p \in Prios |-> 0] /\ failed = FALSE
    /\ posted = 0 /\ cmds = 0

-----------------------------------------------------------------------------
(* Posting. *)

\* Mutant: the frame is put in front.
PenqFront(p, f) ==
    /\ queuelist' = [queuelist EXCEPT ![p] = <<f>> \o @]
    /\ qcnt' = qcnt + 1
    /\ hi_prio' = IF hi_prio < p THEN p ELSE hi_prio

\* aicwf_frame_queue_penq().
Penq(p, f) ==
    /\ queuelist' = [queuelist EXCEPT ![p] = Append(@, f)]
    /\ qcnt' = qcnt + 1
    /\ hi_prio' = IF hi_prio < p THEN p ELSE hi_prio

\* Mutant: the limit is one too high.
RoomOffByOne(p) == Len(queuelist[p]) <= QMax /\ qcnt <= QMax

Room(p) == Len(queuelist[p]) < QMax /\ qcnt < QMax

\* aicwf_sdio_bus_txdata(), up to the end of txqlock: a full queue drops the frame.
Post(p) ==
    /\ bus = "UP" /\ posted < MaxFrames
    /\ posted' = posted + 1
    /\ \/ /\ Room(p)
          /\ Penq(p, posted')
          /\ tx_pktcnt' = tx_pktcnt + 1 /\ posting' = posting + 1
       \/ ~Room(p) /\ UNCHANGED <<queueVars, posting>>
    /\ UNCHANGED <<bus, trgg, pc, txnow, fresh, aggrVars, cmd_txstate, cmds>>

\* aicwf_sdio_bus_txmsg(), up to the look at the bus.
PostCmd ==
    /\ cmds < MaxCmds
    /\ cmds' = cmds + 1
    /\ cmd_txstate' = TRUE
    /\ posting' = IF bus = "UP" THEN posting + 1 ELSE posting
    /\ UNCHANGED <<bus, queueVars, trgg, pc, txnow, fresh, aggrVars, posted>>

PostTrigger ==
    /\ posting > 0
    /\ posting' = posting - 1 /\ trgg' = trgg + 1
    /\ UNCHANGED <<bus, queueVars, pc, txnow, fresh, aggrVars, cmd_txstate, posted, cmds>>

-----------------------------------------------------------------------------
(* sdio_bustx_thread() and aicwf_sdio_tx_process(). *)

\* aicwf_is_framequeue_empty() looks no further than hi_prio.
QueueEmpty == \A p \in 0 .. hi_prio : queuelist[p] = <<>>

Goto(l) == pc' = l

\* Mutant: the thread does not wait for a trigger.
WakeSpurious ==
    /\ pc = "idle"
    /\ trgg' = trgg - 1
    /\ Goto(IF bus = "UP" /\ (tx_pktcnt > 0 \/ cmd_txstate) THEN "cmd" ELSE "idle")
    /\ fresh' = FALSE
    /\ UNCHANGED <<bus, queueVars, txnow, aggrVars, postVars>>

\* Mutant: only frames are a reason to begin a pass.
WakeFramesOnly ==
    /\ pc = "idle" /\ trgg > 0
    /\ trgg' = trgg - 1
    /\ Goto(IF bus = "UP" /\ tx_pktcnt > 0 THEN "cmd" ELSE "idle")
    /\ fresh' = FALSE
    /\ UNCHANGED <<bus, queueVars, txnow, aggrVars, postVars>>

Wake ==
    /\ pc = "idle" /\ trgg > 0
    /\ trgg' = trgg - 1
    /\ Goto(IF bus = "UP" /\ (tx_pktcnt > 0 \/ cmd_txstate) THEN "cmd" ELSE "idle")
    /\ fresh' = FALSE
    /\ UNCHANGED <<bus, queueVars, txnow, aggrVars, postVars>>

\* aicwf_sdio_tx_msg(): a message waits until the firmware has a buffer for it. A
\* transfer that fails loses it, a wait that fails leaves it in the mailbox.
TxMsg ==
    /\ pc = "cmd"
    /\ \/ ~cmd_txstate /\ UNCHANGED <<cmd_txstate, fwfree, failed>>
       \/ /\ cmd_txstate /\ fwfree > 0
          /\ fwfree' = fwfree - 1 /\ cmd_txstate' = FALSE /\ UNCHANGED failed
       \/ /\ MayFail /\ cmd_txstate
          /\ cmd_txstate' \in BOOLEAN /\ failed' = TRUE /\ UNCHANGED fwfree
    /\ Goto("data")
    /\ UNCHANGED <<bus, queueVars, trgg, txnow, fresh, avail, aggr, aggr_count, last,
                   posting, posted, cmds>>

\* Only a queue that has frames makes the thread ask for buffers.
TxData ==
    /\ pc = "data"
    /\ Goto(IF QueueEmpty THEN "loop" ELSE "flow")
    /\ UNCHANGED <<bus, queueVars, trgg, txnow, fresh, aggrVars, postVars>>

\* Mutant: the number of frames in one transfer is not limited.
FlowCtrlUncapped ==
    \/ fwfree > Thresh /\ avail' = fwfree /\ UNCHANGED failed
    \/ fwfree <= Thresh /\ avail' = -fwfree /\ UNCHANGED failed
    \/ MayFail /\ avail' = -1 /\ failed' = TRUE

\* aicwf_sdio_flow_ctrl(): what the firmware reports, capped; its negative after
\* many retries without enough; -1 if the register cannot be read.
FlowCtrl ==
    \/ /\ fwfree > Thresh /\ UNCHANGED failed
       /\ avail' = IF fwfree > AggrCounter THEN AggrCounter ELSE fwfree
    \/ fwfree <= Thresh /\ avail' = -fwfree /\ UNCHANGED failed
    \/ MayFail /\ avail' = -1 /\ failed' = TRUE

Flow ==
    /\ pc = "flow"
    /\ FlowCtrl
    /\ fresh' = TRUE
    /\ Goto("loop")
    /\ UNCHANGED <<bus, queueVars, trgg, txnow, aggr, aggr_count, fwfree, last, postVars>>

LoopSend ==
    /\ pc = "loop" /\ ~QueueEmpty /\ bus = "UP" /\ avail > Thresh
    /\ txnow' = cmd_txstate
    /\ Goto("send")
    /\ UNCHANGED <<bus, queueVars, trgg, fresh, aggrVars, postVars>>

LoopFlow ==
    /\ pc = "loop" /\ ~QueueEmpty /\ bus = "UP" /\ avail <= Thresh /\ ~cmd_txstate
    /\ Goto("flow")
    /\ UNCHANGED <<bus, queueVars, trgg, txnow, fresh, aggrVars, postVars>>

\* A message takes precedence over frames that wait for buffers.
LoopLeave ==
    /\ pc = "loop"
    /\ QueueEmpty \/ bus = "DOWN" \/ (avail <= Thresh /\ cmd_txstate)
    /\ Goto("idle")
    /\ UNCHANGED <<bus, queueVars, trgg, txnow, fresh, aggrVars, postVars>>

-----------------------------------------------------------------------------
(* aicwf_sdio_send() and what it calls. *)

Full == aggr_count = avail - Thresh

\* After a frame was sent for the sake of a message the pass ends.
AfterSend == IF txnow THEN "idle" ELSE "loop"

Delivered == [p \in Prios |-> IF aggr[p] = <<>> THEN last[p] ELSE aggr[p][Len(aggr[p])]]

\* The chip has fewer buffers left: none, if a count that was read too long ago has let
\* the driver send more than there were.
TakeBuffers(n) == fwfree' = IF n < fwfree THEN fwfree - n ELSE 0

\* Mutant: the buffers that a transfer uses up are not counted.
AggrSendUncounted ==
    /\ avail' = avail
    /\ aggr' = Nothing /\ aggr_count' = 0
    /\ \/ /\ bus = "UP" /\ TakeBuffers(aggr_count) /\ last' = Delivered
          /\ UNCHANGED failed
       \/ (bus = "DOWN" \/ MayFail) /\ failed' = TRUE /\ UNCHANGED <<fwfree, last>>

\* aicwf_sdio_aggr_send(): whatever comes of the transfer, the buffer is reset.
AggrSend ==
    /\ avail' = avail - aggr_count
    /\ aggr' = Nothing /\ aggr_count' = 0
    /\ \/ /\ bus = "UP" /\ TakeBuffers(aggr_count) /\ last' = Delivered
          /\ UNCHANGED failed
       \/ (bus = "DOWN" \/ MayFail) /\ failed' = TRUE /\ UNCHANGED <<fwfree, last>>

\* The priority at which the search of aicwf_frame_dequeue() ends.
Highest == Max({0} \cup {p \in 0 .. hi_prio : queuelist[p] # <<>>})

\* A full buffer is sent; otherwise a frame is taken from the queue and appended
\* (aicwf_frame_dequeue() and the counter under txqlock, aicwf_sdio_aggr()).
Send ==
    /\ pc = "send"
    /\ IF Full
       THEN /\ IF aggr_count > 0 THEN AggrSend ELSE UNCHANGED aggrVars
            /\ Goto(AfterSend)
            /\ UNCHANGED queueVars
       ELSE /\ hi_prio' = Highest
            /\ aggr' = [aggr EXCEPT ![Highest] = Append(@, Head(queuelist[Highest]))]
            /\ aggr_count' = aggr_count + 1
            /\ queuelist' = [queuelist EXCEPT ![Highest] = Tail(@)]
            /\ qcnt' = qcnt - 1 /\ tx_pktcnt' = tx_pktcnt - 1
            /\ Goto("check")
            /\ UNCHANGED <<avail, fwfree, last, failed>>
    /\ UNCHANGED <<bus, trgg, txnow, fresh, postVars>>

\* Mutant: the end of the queue is not a reason to send.
CheckFullOnly ==
    /\ pc = "check"
    /\ IF txnow \/ Full THEN AggrSend ELSE UNCHANGED aggrVars
    /\ Goto(AfterSend)
    /\ UNCHANGED <<bus, queueVars, trgg, txnow, fresh, postVars>>

\* Without the lock: the last frame, a waiting message and a full buffer are
\* reasons to send what has been collected.
Check ==
    /\ pc = "check"
    /\ IF tx_pktcnt = 0 \/ txnow \/ Full THEN AggrSend ELSE UNCHANGED aggrVars
    /\ Goto(AfterSend)
    /\ UNCHANGED <<bus, queueVars, trgg, txnow, fresh, postVars>>

Tx ==
    \/ Wake \/ TxMsg \/ TxData \/ Flow \/ LoopSend \/ LoopFlow \/ LoopLeave
    \/ Send \/ Check

-----------------------------------------------------------------------------
(* The firmware frees buffers; the device is removed. *)

FwFree ==
    /\ fwfree < Buffers
    /\ fwfree' = fwfree + 1
    /\ UNCHANGED <<bus, queueVars, trgg, pc, txnow, fresh, avail, aggr, aggr_count, last, failed,
                   postVars>>

StopDown ==
    /\ MayStop /\ bus = "UP"
    /\ bus' = "DOWN"
    /\ UNCHANGED <<queueVars, trgg, pc, txnow, fresh, aggrVars, postVars>>

\* aicwf_sdio_bus_stop() waits for txctl_sema, then aicwf_frame_queue_flush()
\* empties the lists and their counter, and leaves tx_pktcnt and hi_prio alone.
StopFlush ==
    /\ bus = "DOWN" /\ pc \in {"idle", "cmd", "data"} /\ qcnt > 0
    /\ queuelist' = Nothing /\ qcnt' = 0
    /\ UNCHANGED <<bus, hi_prio, tx_pktcnt, trgg, pc, txnow, fresh, aggrVars, postVars>>

Next ==
    \/ Tx \/ \E p \in Prios : Post(p)
    \/ PostCmd \/ PostTrigger \/ FwFree \/ StopDown \/ StopFlush

Spec == Init /\ [][Next]_vars

\* Fairness: the kernel schedules the thread and finishes a call that posts; the
\* firmware frees its buffers.
FairSpec == Spec /\ WF_vars(Tx) /\ WF_vars(PostTrigger) /\ WF_vars(FwFree)

-----------------------------------------------------------------------------
(* Properties. *)

\* Every variable has its type.
TypeOK ==
    /\ bus \in {"UP", "DOWN"}
    /\ queuelist \in [Prios -> Seq(Nat)] /\ qcnt \in Nat /\ hi_prio \in Prios
    /\ tx_pktcnt \in Nat /\ cmd_txstate \in BOOLEAN /\ posting \in Nat /\ trgg \in Nat
    /\ pc \in {"idle", "cmd", "data", "flow", "loop", "send", "check"}
    /\ avail \in Int /\ aggr \in [Prios -> Seq(Nat)] /\ aggr_count \in Nat
    /\ txnow \in BOOLEAN
    /\ fwfree \in 0 .. Buffers /\ fresh \in BOOLEAN /\ failed \in BOOLEAN
    /\ last \in [Prios -> Nat]
    /\ posted \in Nat /\ cmds \in Nat

\* How many frames the lists q hold.
Count(q) == Cardinality(UNION {{p} \X DOMAIN q[p] : p \in Prios})

\* The queue is intact: both counters count it, it stays within its limit, and
\* hi_prio, which the search and the test for emptiness start from, is never below
\* a priority that has frames.
QueueIntact ==
    /\ qcnt = Count(queuelist)
    /\ qcnt <= QMax
    /\ bus = "UP" => tx_pktcnt = qcnt
    /\ \A p \in Prios : p > hi_prio => queuelist[p] = <<>>

\* The transmit path is a channel that is first-in first-out for each priority and
\* loses frames only if a transfer fails or the bus goes down: what has been taken
\* from the queue and waits in the aggregation buffer comes before what is queued.
Path == [p \in Prios |-> IF bus = "UP" THEN aggr[p] \o queuelist[p] ELSE <<>>]

Channel == INSTANCE FrameChannel WITH chan <- Path, MayLose <- MayFail \/ MayStop

IsChannel == Channel!Spec

\* aggr_count counts the aggregation buffer, which never has more frames than the
\* flow control allows, so that it never has more than fit (tx_aggr_counter), and
\* the thread never comes back to aicwf_sdio_send() with a buffer that is full.
AggrFits ==
    /\ aggr_count = Count(aggr)
    /\ aggr_count <= AggrCounter - Thresh
    /\ pc = "send" => aggr_count < avail - Thresh

\* Frames leave the last DATA_FLOW_CTRL_THRESH buffers of the firmware to the
\* messages, in every pass that has asked for the number of buffers.
LeavesRoom == [][fresh /\ pc = "check" /\ fwfree' < fwfree => fwfree' >= Thresh]_fwfree

\* Whatever is queued goes to the chip in the end, or the bus goes down or fails.
FramesLeave == (qcnt > 0) ~> ((qcnt = 0 /\ aggr_count = 0) \/ bus = "DOWN" \/ failed)

\* A message in the mailbox is sent although frames fill the firmware's buffers and the
\* loop over the frames runs on, or the bus goes down or fails. (A wait for buffers that
\* fails leaves it there without a trigger.)
MessagesLeave == cmd_txstate ~> (~cmd_txstate \/ bus = "DOWN" \/ failed)
=============================================================================
