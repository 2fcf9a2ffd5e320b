------------------------------- MODULE SdioRx -------------------------------
(***************************************************************************)
(* The receive side of the SDIO bus of the aic8800_fdrv driver: the        *)
(* interrupt handler that reads a block and queues it (aicwf_sdio.c), and  *)
(* the receive thread that takes the queue apart (aicwf_txrxif.c). The     *)
(* handler triggers the thread only if rx_cnt, which it increments after   *)
(* it has let go of the queue, is then exactly 1.                          *)
(***************************************************************************)
EXTENDS Integers, Sequences

CONSTANTS
    QueueLen,   \* MAX_RXQLEN
    MaxBlocks,  \* bound: interrupts
    MayFail,    \* whether memory for a message may be refused
    MayStop     \* whether the device may be removed

ASSUME SdioRxAssumption ==
    /\ QueueLen \in Nat \ {0} /\ MaxBlocks \in Nat
    /\ MayFail \in BOOLEAN /\ MayStop \in BOOLEAN

VARIABLES
    bus,        \* "UP" or "DOWN"
    rxq,        \* rx_priv->rxq: the queued blocks, numbered as they arrive
    rx_cnt,
    rx_trgg,    \* busrx_trgg
    irq,        \* the handler: "idle", "count" or "check"
    rx,         \* the thread: "idle", "loop", "handle" or "gone"
    skb,        \* the block the thread handles, or 0
    arrived,    \* interrupts so far
    handled,    \* ghost: the number of the last block handled to the end
    failed      \* ghost: memory has been refused

vars == <<bus, rxq, rx_cnt, rx_trgg, irq, rx, skb, arrived, handled, failed>>

Init ==
    /\ bus = "UP" /\ rxq = <<>> /\ rx_cnt = 0 /\ rx_trgg = 0
    /\ irq = "idle" /\ rx = "idle" /\ skb = 0
    /\ arrived = 0 /\ handled = 0 /\ failed = FALSE

-----------------------------------------------------------------------------
(* aicwf_sdio_hal_irqhandler() and aicwf_sdio_enq_rxpkt(). *)

\* A block is read and queued under rxqlock; one that cannot be read, or that finds
\* the queue full, is gone. A bus that is down reads nothing.
IrqRead ==
    /\ irq = "idle" /\ bus = "UP" /\ arrived < MaxBlocks
    /\ arrived' = arrived + 1
    /\ \/ /\ Len(rxq) < QueueLen
          /\ rxq' = Append(rxq, arrived')
          /\ irq' = "count"
       \/ irq' = "check" /\ UNCHANGED rxq
    /\ UNCHANGED <<bus, rx_cnt, rx_trgg, rx, skb, handled, failed>>

\* The counter follows after the unlock.
IrqCount ==
    /\ irq = "count"
    /\ rx_cnt' = rx_cnt + 1
    /\ irq' = "check"
    /\ UNCHANGED <<bus, rxq, rx_trgg, rx, skb, arrived, handled, failed>>

\* Mutant: only an uncounted queue triggers the thread.
IrqCheckZero ==
    /\ irq = "check"
    /\ rx_trgg' = IF rx_cnt = 0 THEN rx_trgg + 1 ELSE rx_trgg
    /\ irq' = "idle"
    /\ UNCHANGED <<bus, rxq, rx_cnt, rx, skb, arrived, handled, failed>>

IrqCheck ==
    /\ irq = "check"
    /\ rx_trgg' = IF rx_cnt = 1 THEN rx_trgg + 1 ELSE rx_trgg
    /\ irq' = "idle"
    /\ UNCHANGED <<bus, rxq, rx_cnt, rx, skb, arrived, handled, failed>>

Irq == IrqRead \/ IrqCount \/ IrqCheck

-----------------------------------------------------------------------------
(* sdio_busrx_thread() and aicwf_process_rxframes(). *)

\* Mutant: the thread does not wait for a trigger.
RxWakeSpurious ==
    /\ rx = "idle"
    /\ rx_trgg' = rx_trgg - 1
    /\ rx' = IF bus = "DOWN" THEN "idle" ELSE "loop"
    /\ UNCHANGED <<bus, rxq, rx_cnt, irq, skb, arrived, handled, failed>>

RxWake ==
    /\ rx = "idle" /\ rx_trgg > 0
    /\ rx_trgg' = rx_trgg - 1
    /\ rx' = IF bus = "DOWN" THEN "idle" ELSE "loop"
    /\ UNCHANGED <<bus, rxq, rx_cnt, irq, skb, arrived, handled, failed>>

\* Mutant: the newest block is taken first.
RxTakeLast ==
    /\ rx = "loop"
    /\ IF rxq = <<>>
       THEN rx' = "idle" /\ UNCHANGED <<rxq, skb>>
       ELSE /\ skb' = rxq[Len(rxq)]
            /\ rxq' = SubSeq(rxq, 1, Len(rxq) - 1)
            /\ rx' = "handle"
    /\ UNCHANGED <<bus, rx_cnt, rx_trgg, irq, arrived, handled, failed>>

\* Under rxqlock: the oldest block, or back to the wait.
RxTake ==
    /\ rx = "loop"
    /\ IF rxq = <<>>
       THEN rx' = "idle" /\ UNCHANGED <<rxq, skb>>
       ELSE skb' = Head(rxq) /\ rxq' = Tail(rxq) /\ rx' = "handle"
    /\ UNCHANGED <<bus, rx_cnt, rx_trgg, irq, arrived, handled, failed>>

\* Mutant: a block that has been handled is not counted off.
RxHandleUncounted ==
    /\ rx = "handle"
    /\ rx_cnt' = rx_cnt
    /\ handled' = skb /\ skb' = 0
    /\ rx' = "loop"
    /\ UNCHANGED <<bus, rxq, rx_trgg, irq, arrived, failed>>

\* The packets of the block have been passed on; only now it is counted off.
RxHandle ==
    /\ rx = "handle"
    /\ rx_cnt' = rx_cnt - 1
    /\ handled' = skb /\ skb' = 0
    /\ rx' = "loop"
    /\ UNCHANGED <<bus, rxq, rx_trgg, irq, arrived, failed>>

\* No memory for a message: the block is freed and the thread waits again, without
\* counting the block off and without looking at the rest of the queue.
RxNoMem ==
    /\ MayFail
    /\ rx = "handle"
    /\ skb' = 0
    /\ rx' = "idle" /\ failed' = TRUE
    /\ UNCHANGED <<bus, rxq, rx_cnt, rx_trgg, irq, arrived, handled>>

Rx == RxWake \/ RxTake \/ RxHandle \/ RxNoMem

-----------------------------------------------------------------------------
(* aicwf_sdio_release() and aicwf_rx_deinit(). *)

Release ==
    /\ MayStop /\ bus = "UP"
    /\ bus' = "DOWN"
    /\ UNCHANGED <<rxq, rx_cnt, rx_trgg, irq, rx, skb, arrived, handled, failed>>

\* The interrupt has been released, the thread is stopped, the queue is flushed.
RxDeinit ==
    /\ bus = "DOWN" /\ irq = "idle" /\ rx = "idle"
    /\ rx' = "gone" /\ rxq' = <<>>
    /\ UNCHANGED <<bus, rx_cnt, rx_trgg, irq, skb, arrived, handled, failed>>

Next == Irq \/ Rx \/ Release \/ RxDeinit

Spec == Init /\ [][Next]_vars

\* Fairness: the kernel schedules the thread and finishes a handler it has begun.
FairSpec == Spec /\ WF_vars(Rx) /\ WF_vars(IrqCount \/ IrqCheck)

-----------------------------------------------------------------------------
(* Properties. *)

\* Every variable has its type; the counter may run one behind the queue.
TypeOK ==
    /\ bus \in {"UP", "DOWN"} /\ rxq \in Seq(Nat \ {0})
    /\ rx_cnt \in Int /\ rx_cnt >= -1 /\ rx_trgg \in Nat
    /\ irq \in {"idle", "count", "check"} /\ rx \in {"idle", "loop", "handle", "gone"}
    /\ skb \in Nat /\ arrived \in Nat /\ handled \in Nat /\ failed \in BOOLEAN

Handling  == IF rx = "handle" THEN 1 ELSE 0
Uncounted == IF irq = "count" THEN 1 ELSE 0

\* Until memory is refused, rx_cnt is the number of blocks queued or in the thread's
\* hands, less the one the handler has queued and not yet counted: the power
\* control, which takes 0 for idle, and the handler, which takes 1 for the first
\* block, rely on it.
CountRight ==
    ~failed /\ rx # "gone" => rx_cnt = Len(rxq) + Handling - Uncounted

\* No block is left in the queue of a thread that sleeps: there is a trigger, or
\* the thread is running, or the handler has just queued the only block and will
\* see the counter at 1. This too is so until memory is refused.
NoBlockLeft ==
    ~failed /\ rx = "idle" /\ rx_trgg = 0 /\ rxq # <<>> /\ bus = "UP" =>
        Len(rxq) = 1 /\ irq \in {"count", "check"}

\* Blocks are handled in the order in which they arrived, none twice, also after
\* memory has been refused.
InOrder == [][handled' > handled]_handled

\* The queue is always emptied again, unless memory is refused or the device is
\* removed.
QueueDrains == (rxq # <<>>) ~> (rxq = <<>> \/ failed \/ bus = "DOWN")
=============================================================================
