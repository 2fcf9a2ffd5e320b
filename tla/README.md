# Verification of the AIC8800 Wi-Fi driver in T113S3-PRO_TinaSDK5

The repository is a board SDK: boot loader stages, kernel configuration, board
descriptions, and the AIC8800 SDIO Wi-Fi/Bluetooth driver. The driver
(`src/kernel/linux-5.4/drivers/net/wireless/aic8800/`, below `aic8800/`) is the part
with concurrent logic of its own, and it is what this project models. The build is the
one of its Makefile: SDIO (not USB), power control on, out-of-band interrupt off,
receive reordering on.

The project consists of TLA+ modules translated from that source, TLC runs on small
instances, and TLAPS proofs for all values of the constants. `PROJECT.json` maps every
definition to its lines.

## 1. Inventory

| Component | State | Operations | Interacts with | Module |
|---|---|---|---|---|
| Command manager (`rwnx_cmds.c`, `rwnx_msg_tx.c`) | static command array, command list with `queue_sz`, tokens, manager state, flags per command | send (direct, deferred, force-deferred, without confirmation), worker, confirmation, timeout, drain, deinit | SDIO bus through the one buffer `bus->cmd_buf`; firmware; `aicwf_sdio_release()` | `CmdMgr` |
| SDIO bus, transmit trigger and power (`aicwf_sdio.c`) | bus and power state, timer, three completions, two semaphores, mailbox flag, counters | post message / frame, transmit thread, power thread, timer, receive interrupt and thread, suspend, resume, stop | every other part of the driver | `SdioBus` |
| SDIO bus, receive queue (`aicwf_sdio.c`, `aicwf_txrxif.c`) | `rxq`, `rx_cnt`, `busrx_trgg` | interrupt handler, receive thread, tear-down | defragmentation, reordering, command manager (confirmations) | `SdioRx` |
| SDIO bus, transmit queue (same files) | priority lists with `hi_prio`, `qcnt`, `tx_pktcnt`; aggregation buffer; `fw_avail_bufcnt` | enqueue, dequeue, aggregate, send, flow control, flush | network stack, firmware buffers | `SdioTxq`, `FrameChannel` |
| Receive reordering (`rwnx_rx.c`) | window (`enable`, `ind_sn`, `reord_list`), timer and work item per peer and TID; list of peers; pool of frames | receive, timeout handler and worker, flush, station deleted, disconnection, removal | receive thread, cfg80211 threads, network stack | `Reorder` |
| Defragmentation (`rwnx_rx.c`) | `defrag_list` of incomplete frames with timers | fragment, timeout, removal | receive queue, network stack | `Defrag`, composed with `SdioRx` in `RxPath` |
| Transmit queues (`rwnx_txq.c`, `rwnx_tx.c`) | per-station queues, stop reasons, hardware queue lists | start/stop, enqueue, push, confirm | transmit queue of the bus | not modelled |
| Bluetooth low power (`aic8800_btlpm/lpm.c`) | two wake lines, flag bits, timers, UART power | outgoing data, host wake, sleep work, timers, enable/disable, suspend/resume | UART driver | not modelled |
| BSP (`aic8800_bsp/`) | subsystem power references, a smaller command manager, firmware download | set subsystem, probe, load | power regulators, SDIO core | not modelled |
| Radar (`rwnx_radar.c`) | pulse pools per detector | pulse, timeout | cfg80211 | not modelled |
| cfg80211 operations, messages, TDLS, vendor, debugfs, platform, regulatory data | translation of structures | | | not modelled |
| Boot stages, board files, scripts | sequential set-up | | | not modelled |

What is hard here is what several contexts do to shared state without a common lock:
callers of `rwnx_send_msg()` against a workqueue and the receive path, the transmit
thread against a power control thread that does not take its semaphore, counters kept
beside a queue and changed after its lock is released, and triggers that are consumed
before the work they announce is certain to be done, and timers and tear-downs that free
what another thread still points at. The `hazards` in `PROJECT.json`
list each such place with its line and the properties that watch it.

What makes each component correct:

* command manager: the list is never corrupted, each command has one owner, requests
  are serialised and confirmed correctly, every call returns;
* bus: posted work is not forgotten, an active chip is put to sleep again, the driver's
  idea of the power state is right, no transfer meets a sleeping chip;
* receive queue: exact counter, no block left behind, order;
* transmit queue: intact queue, bounded aggregation, order per priority, every frame and
  message sent, buffers left for messages;
* reordering: frames released in order and once, no frame waits for ever, no frame of the
  pool unaccounted for, no window used after it is gone;
* defragmentation: a frame goes up whole or not at all, and incomplete ones are thrown
  away.

## 2. Modules

`MCCmdMgr`, `MCSdioBus`, `MCSdioTxq`, `MCRxPath` and `MCReorder` instantiate the
specifications for TLC; the eight modules whose names end in `Proofs` hold the
proofs (section 5).

### CmdMgr

One action per critical section of `cmd_mgr->lock`, and one per unlocked access between
them: the read of `queue_sz` after the unlock (`DeferWake`), the look at the list after
a wait (`Kick`), and the load and the store of `next->flags &= ~WAIT_PUSH`
(`WorkerLoad`, `WorkerStore`). A sender's program counter `pc[t]` is where
`rwnx_send_msg()` stands, `scmd[t]` its slot; `wpc`, `wcmd` are the worker's. Slots keep
their flags when they are reused, as in the code. `"oops"` is a thread that has followed
a NULL or a poisoned pointer. The reply buffer of a command is `"live"` while its sender
is inside the call and `"orphan"` afterwards. The bus is one buffer that `SetCmdTx`
overwrites without a lock; when a transfer is under way the buffer's new contents may go
out in its place. The firmware may confirm each request it has received, once, or never.
Removal is `Release`, `Drain`, `Deinit` in the order of `aicwf_sdio_release()`; whoever
then needs the workqueue of the zeroed manager (`DeferWake`, `Kick`) oopses.

`cmd_mgr_msgind()` completes nothing if the handler of the message returns something else
than 0. Among the handlers in `rwnx_msg_rx.c` only those of `MM_PS_CHANGE_IND` and of three
`MESH_*_UPDATE_IND` can, and no command waits for one of these, so `MsgInd` has no such
branch.

The constants name message classes instead of message ids: plain requests, the two that
are always deferred, `MM_REMOVE_IF_REQ`, which is force-deferred, and messages without
confirmation.

### SdioBus

Eight processes with a program counter each. `aicwf_sdio_pwr_stctl()` and what it calls
is a procedure (`StctlEnter` ... `SetTimer`) that five of them run; `Target` and `Return`
are its parameters. `chip` is what the hardware does, `state` what the driver believes.
`pwrctl_wakeup_sema` and `txctl_sema` record their holder. The three reads of the idle
test in `aicwf_sdio_pwrctl_thread()` are three actions. Frames, blocks and triggers are
counted. `busy` stands for scanning and P2P, which `aicwf_sdio_sleep_allow()` looks at;
`PowerSave = FALSE` fixes it at true, and otherwise it changes at any time. `held` is a
ghost: `busy` has been on without a break since the transmit thread last got
`pwrctl_wakeup_sema`. `TransferAwake` is stated with it, because scanning that starts
after the thread has passed `aicwf_sdio_pwr_stctl()`, or stops before its pass ends, comes
too late or goes too soon to keep the chip awake.

Left out: the outcome of a register access and of flow control is a choice (`MayFail`);
the early error return of `aicwf_sdio_suspend()`; what is freed after the threads have
been stopped. `PostFrame` looks at the bus and queues in one step, since the lock of the
queue does not cover the bus state and a frame queued a moment after the bus goes down is
flushed or kept exactly as one queued a moment before.

### SdioRx

The receive path of `SdioBus` in detail: the queue with numbered blocks, the counter
that the handler increments after it has released `rxqlock`, the test `rx_cnt == 1`, the
thread that counts a block off only after handling it, and the early return when
`kmalloc()` fails. `SdioBus` uses the interrupt handler as one step; `CountRight` and
`NoBlockLeft` here are what justifies this as long as memory suffices.

### Defrag and RxPath

`Defrag` has one action per outcome of a fragment in `rwnx_rxdataind_aicwf()`: it opens an
entry, is appended, completes the frame, is discarded, goes up as it is, or is lost for
want of memory or of an interface. An entry is a record with its key, `next_fn`, the
fragments copied so far and the state of its timer; a fragment knows the frame it belongs
to, which the code does not. The timer is started after the unlock (`Arm`), its callback
begins (`CbBegin`) and takes the lock (`CbExpire`) in two steps.

`RxPath` composes it with `SdioRx`: block `n` carries the fragment `Stream[n]`, the
interrupt handler may lose it, the receive thread passes it on between taking and counting
off its block. The removal follows `aicwf_sdio_exit()`: `rwnx_cfg80211_deinit()` frees the
entries and `rwnx_hw` while the bus is still up and the receive thread runs.

`doomed` marks a state in which freed memory has been used: the completion of an entry
whose callback has begun, a callback that looks for its lock in the entry it has freed, the
walk over freed entries in the removal. What the code does afterwards is undefined, and
every property stops there.

### Reorder

One window per interface, with one peer and one TID each. A frame is the number its sender
gave it; the code sees `Sn(f)`, the number modulo `SeqSpace`, and the 0xFFFF of an unset
window. `NeedCheck`, `Place`, `Process` and `Passed` are the functions on the window
and the list; `Process` is a recursive function, one `Visit` for each frame of the walk. `reord_process_unit()` is two steps, the look-up under `stas_reord_lock`
(`RxLookup`) and the rest under `reord_list_lock` (`RxLate`, `RxDuplicate`, `RxBuffer`),
because the pointer to the window is kept in between. `reord_flush_tid()` is four steps.
The timer handler begins (`TimerFires`) and schedules the work (`TimerHandler`) in two,
since `del_timer_sync()` is only called for a pending timer and does not wait for a handler
otherwise. `reord_deinit_sta()` is three steps of whichever thread runs it: a user thread
that deletes a station and the removal hold `stas_reord_lock`, the disconnection does not.
As in `Defrag`, a window that is freed while a thread, a handler or a timer still uses it
dooms the state. `cancel_work_sync()` is atomic with `list_del()` and `kfree()`.

### SdioTxq and FrameChannel

The queue lists hold frame numbers; `qcnt`, `hi_prio` and `tx_pktcnt` are kept beside
them as the code does. `aggr[p]` are the frames of priority `p` in the aggregation
buffer, `aggr_count` the counter. `Flow` is `aicwf_sdio_flow_ctrl()`: the capped number
of free buffers, the negative of a number too small, or -1. What a transfer takes from
the firmware's buffers stops at zero (`TakeBuffers`). The chip is awake; the sizes
of messages and frames are not modelled; the emptiness test is one step, which is sound
because only the transmit thread removes frames.

`FrameChannel` is the promise to the network stack: a channel, first-in first-out for
each priority, that accepts or refuses a frame, delivers the oldest ones, and loses
frames only if `MayLose`. `SdioTxq` implements it (`IsChannel`) under the mapping in
which the aggregation buffer comes before the queue and the channel of a bus that is
down is empty.

## 3. Runs

| Run | Shows |
|---|---|
| `cmd_safety` | list, slots, serialisation, order and confirmation with deferred, force-deferred and direct requests, timeouts and removal |
| `cmd_live` | every call returns whatever the firmware does, if no sender defers; messages without confirmation included |
| `cmd_lostwake` (violation) | with sender-deferred commands the worker can miss its wakeup and a caller polls for ever |
| `cmd_reply` (violation) | a command with a reply buffer can be deferred after its sender saw an empty list |
| `bus_safety` | the chain timer - trigger - thread - timer is never broken, whatever fails |
| `bus_scan` | while sleep is forbidden for good, no posted work is forgotten and all work is done, across suspend and resume |
| `bus_sleep` | with scanning that starts and stops: `SDIO_ACTIVE_ST` means an awake chip whenever `pwrctl_wakeup_sema` is free, scanning that lasts keeps the chip awake for the whole pass of the transmit thread, and an idle bus sleeps again and again |
| `bus_lostwork` (violation) | when sleep is allowed, a stale idle decision makes the transmit thread drop its trigger |
| `rx_all` | the receive path of `RxPath` with losses, failing memory, timeouts and removal: counter, trigger, order, the queue drains, frames go up whole or as a lone last fragment, all of them if nothing was lost, and incomplete ones expire |
| `txq_all` | queue and aggregation invariants, refinement of `FrameChannel`, every frame and message leaves, a pass that has read the flow control leaves room for messages |
| `reorder_all` | window and list, order of release, pool, timeouts, flush and the three tear-downs; a buffer drains when its sender falls silent |
| `reorder_vif` (violation) | the timeout worker hands frames to the device of another interface |

`cmd_safety` has no messages without confirmation: such a message may overwrite a request
in `bus->cmd_buf`, and then `ConfirmMatchesHead` fails. The theorems of `CmdMgrProofs` and
`PushedHasWaiter` cover such messages.

Bounds. Two senders and three calls are the fewest with which a sender waits, another
defers and a slot is reused; `MaxQueued = 2` makes the limit of the list reachable;
with four slots and three calls the array is never full, so what this run shows with
`NoOops` is that no command is unlinked twice; that the array suffices is left to the
theorem `NobodyOopses`, since an instance of two senders that can fill it (five slots, six
calls) is beyond what TLC finishes in minutes; as many timeouts as can be waited for in the live runs, so
that no wait lasts for ever because of a bound. On the bus one item of each kind, one
suspend and a removal interleave all processes; two messages and two frames where
triggers are counted. Two slots and six blocks let the receive queue fill and lose blocks
anywhere in a frame of three fragments that is interleaved with a complete frame and with
fragments of another station under the same key. Two priorities, a queue of two, three
frames in one transfer and buffers above and below the threshold make every branch of flow
control happen. For the reordering: a sequence space of ten that is entered at five, so
that four frames with gaps of up to two wrap it; a window of three, which a frame can
overshoot; a pool of three, which runs out. A frame may come again, or late by two. The
assumptions `2 * (WinSize + Reach) <= SeqSpace` and `4 * Reach <= SeqSpace` are what 802.11
asks of a sender, and with 4096 and 64 they leave ample room. `CHECK_DEADLOCK FALSE` is there because the bounded work
runs out: a driver with nothing to do waits.

Fairness. Weak fairness of each thread and of a handler or a posting call that has begun
(the kernel schedules them), of a pending timer, of resume after suspend, and of the
firmware freeing buffers where flow control waits for them; in `RxPath` and `Reorder` also
of the timer callbacks and the worker. The firmware is never assumed
to confirm anything: `CallsReturn` rests on the timeouts.

## 4. What the checks found

* `cmd_lostwake`: `cmd_mgr_queue()` reads `queue_sz` after the unlock to decide whether
  to wake the worker (`rwnx_cmds.c:200`). Two deferring senders can both read 2.
* `cmd_reply`: looking at the list and queueing are separate critical sections
  (`rwnx_msg_tx.c:374`).
* `bus_lostwork`: `aicwf_sdio_tx_process()` returns on "state err" with its trigger used.
* `reorder_vif`: `reord_single_frame_ind()` (`rwnx_rx.c:1428`) uses the interface of the
  frame received last; the timeout worker releases frames of other interfaces through it.

More observations restrict properties without contradicting a document.
`LeavesRoom` is stated for passes that have read the buffer count: a frame queued between
the emptiness test (`aicwf_sdio.c:1268`) and the loop (1271) is sent against the count of
an earlier pass. `NoOops` needs `ArraySize >= MaxQueued + 2 * n` for `n` senders at work at a time (section
5): with 20 slots and 16 queued commands, two. With one slot less TLC finds an exhausted array (one
sender, 2 slots, 1 queued command; two senders, 4 slots, 1 queued command): the slots of a
full list, of the worker and of the waiting senders are all lost to timeouts, while the
calls that are about to be refused hold one each. The driver has no limit on the number of
threads in `rwnx_send_msg()`. `WaiterUntilCrash` ends with the first timeout: the command array
replaced `kzalloc()`, nothing clears the flags of a reused slot, and with a stale DONE an
expired wait leaves its command on the list. `CountRight`, `NoBlockLeft` and
`QueueDrains` are stated until memory is refused: the early return of
`aicwf_process_rxframes()` (`aicwf_txrxif.c:407`) leaves `rx_cnt` too high for good.
`MessagesLeave` and `FramesLeave` end with the first failed access: flow control that fails
leaves the message in the mailbox without a trigger (`aicwf_sdio.c:1194`).
`WholeOrTail` and `NothingLost` speak of frames with a key of their own: the key has the
destination's station index (`rwnx_rx.c:2109`), so behind an access point two stations may
share one. A last fragment whose entry is gone goes up as if it were a frame.
`ConfirmMatchesHead` is for drivers without messages that have no confirmation, and
`NoOops` ends when the removal begins. `PoolConserved` counts the frames that a failing `reord_init_sta()` forgets
(`rwnx_rx.c:1684`). `GapTimed` and `QuietTeardown` leave out a window that a frame touched
while it was torn down. The hazards behind these restrictions are listed in
`PROJECT.json` without a property: each is in the model, and what is said of it is that
the properties next to it do not reach so far.

Seen while reading, and not the subject of a property:

* a refused command is reported as success and its message leaks (`rwnx_msg_tx.c:400`);
* a message exactly as long as the free buffers leaves the retry loop and is then refused
  (`aicwf_sdio.c:1180`, 1189);
* the bus is taken down before it asks for the sleep state, which then does nothing
  (`aicwf_sdio.c:1070`);
* `cmd_buf` and `tx_priv` are freed while the transmit and the power control thread run
  (`aicwf_txrxif.c:160`, `aicwf_sdio.c:2069`);
* `cancel_work_sync()` is called under a spinlock (`rwnx_rx.c:1418`), and the disconnection
  walks the list of peers without its lock (`rwnx_msg_rx.c:935`);
* `rwnx_cfg80211_deinit()` goes on from entries it has freed (`rwnx_main.c:7047`);
* a defragmentation buffer has 2000 bytes and nothing adds up the fragments
  (`rwnx_rx.c:2152`);
* the Bluetooth sleep work turns the UART off without `rw_lock`, and `uport` is set to NULL
  under `hsuart_power()` (`lpm.c:204`, 347).

## 5. Proofs

The assumptions are those on the constants (`CmdMgrAssumption`, `SdioBusAssumption`,
`SdioRxAssumption`, `StreamAssumption`, `SdioTxqAssumption`, `ReorderAssumption`) and
`NoMsgAssumption`, that the mark for "no message" is not a message; the numbers of senders,
slots, calls, items, timeouts, fragments and interfaces are arbitrary.

**CmdMgrProofs.** `TypeCorrect`, `ListAlwaysIntact`, `SlotsAlwaysOwned` and
`RequestsSerialised` follow from one inductive invariant, because each needs the others:
`cmd_complete()` keeps `queue_sz` right only if the command is on the list once, a slot
on the list stays allocated only if whoever frees it owns it and has seen its
completion, and the worker's unlocked store of the flags is harmless only if it works on
the head. The parts added to the four properties say: a command that its sender has not
queued yet is not on the list (`FreshUnlinked`); a command on the list still waits for
its confirmation and has not been completed (`LinkedWaits`); `WAIT_PUSH` is never left
behind in a free slot or in one that a sender works on, although reused slots keep their
flags (`NoStalePush`); and the worker's command is the head of the list as long as it is
linked (`WorkerAtHead`). The step is proved action by action; `ListDel` has a lemma of
its own.

**CmdMgrOrderProofs.** Three further invariants on top of that one. `SInv` says what is known
of a command that somebody works on: until the device is removed it is on the list or its
completion has been signalled (`OnListOrDone`). `PushedHasWaiter` (`WaiterUntilCrash`) is
one of its parts. `QInv` follows a
request through `bus->cmd_buf`, the chip and the confirmation; `ConfirmsMatchHead` and
`AlwaysPushedInOrder` are proved of drivers without messages that have no confirmation
(`IndIds = {}`), since such a message overwrites a request in the buffer and then both
statements are false.

`SlotInv` keeps account of the command array, for any number of calls and timeouts. Until
the first timeout every slot in use is on the list or in the hands of the worker or of a
sender (`QInv` is needed for this: a confirmation unlinks the head, which has a waiter that
gives the slot back), and if all senders wait for commands of their own the list holds
nothing else, because a sender pushes its own command only if it finds the list empty. So
`MaxQueued + 1 + (n - 1)` slots can be taken when one of `n` senders asks for another
(`SlotsSufficeUntilCrash`; with 20 and 16 enough for three senders). The first timeout
crashes the manager: from then on nothing is queued, and the slots that expired waits keep
are among those of that moment, at most `MaxQueued + n`; every other slot belongs to a call
that is about to be refused. `NobodyOopses` (`NoOops`) follows under
`ArraySize >= MaxQueued + 2 * n`, which cannot be weakened (section 4), together with
`OnListOrDone`, which keeps an expired wait from unlinking twice. It, too, assumes
`IndIds = {}`: a confirmation that meets the wrong command unlinks one that nobody waits
for, and its slot is lost before any timeout.

**SdioBusProofs.** All five theorems rest on one invariant. `SemaHeld`: whoever is between
`"reg"` and `"arm"` holds `pwrctl_wakeup_sema`, so there is at most one, and `state`
tells what it is about to change. `ChipAhead`: between the write of the register and that
of `state` the chip is ahead of the driver. `Counted`: the counters never fall behind the
queues. `NeverAsleep`: while scanning or P2P is on for good, nobody gets past the refusal in
`aicwf_sdio_sleep_allow()`. `NothingForgotten` proves `NoLostWork` in that case for any
amount of work; that it needs the case is what `bus_lostwork` shows.
`TransfersMeetAwakeChip` (`TransferAwake`) is about scanning that comes and goes. It needs
`HeldActive`: once the transmit thread had the semaphore with scanning on, nobody else can
be between writing the sleep register and setting `state`, whoever asks for sleep later is
refused as long as scanning lasts, and the thread itself has made the chip active. Whoever
had already written the register did so before the thread got the semaphore, and the
thread then woke the chip again.

**SdioRxProofs.** `CountRight` and `NoBlockLeft` are inductive together with the type and
`Floor` (with failing memory the counter can only be too high). `HandledInOrder` adds
`Numbered`: the block in hand and the queue are ascending and lie between the last handled
block and the number of arrivals.

**RxPathProofs.** `PathImplementsBus` shows that every step of the path is a step or a
stutter of `SdioRx`, so its theorems hold of the path too. `NeverJoinedAcrossAHole`
(`WholeOrTail`) needs to know what an entry can be: `ToCome` are the blocks not yet passed
on, in the queue or ahead of it; an entry's fragments come before all those of the same
frame in `ToCome` (`Collected`); and it is either a gapless prefix that `next_fn` counts, or
it was opened by a later fragment and can never be completed, because `next_fn` is 1 and
what is to come has greater numbers (`Sound`). That the first case survives losses is the
point: a hole makes `Wanted` false for good. Keys are unique (`OneEntry`), and every entry
has a timeout coming (`EntriesTimed`), which is what `EntriesExpire` rests on.
`NothingIsLost` (`NothingLost`) adds `LInv`, which says nothing once a block, memory or an
entry was lost: the blocks handled, in hand and queued are all that arrived, without a gap
(`Gapless`); every fragment passed on of an unfinished frame is in an entry that waits for a
later one (`Kept`); and what went up are the frames whose last fragment was passed on, each
once (`Sent`). So a first fragment finds no entry and every other one the entry that waits
for it (`Expected`), whatever comes in between under other keys. The hypothesis `Complete`
says that the chip delivers a frame from fragment 0 on; without it the last fragment of a
frame whose beginning was never sent goes up alone. `MCRxPath` evaluates it for its stream.

**ReorderProofs.** `WindowStaysEnabled` shows that the branch of `reord_process_unit()` that
locks one lock and unlocks another is dead: only the receive thread disables a window, and
it re-enables it at every look-up. `NoWindowAfterRemoval` shows that the bus state, which
goes down before the windows are freed, is enough to keep the receive thread from making
new ones although it is stopped last. The invariant adds that a window with frames is
listed (`Listed`) and that the removal is past its first step only on a bus that is down
(`DownFirst`).

**SdioTxqProofs.** `TypeCorrect`, `AlwaysQueueIntact` and `AlwaysAggrFits` rest on `TInv`.
The counters `qcnt` and `tx_pktcnt` are sums over the priorities; `Counted` keeps them as
cardinalities of the set of places, which change by one with each enqueue and dequeue.
`HasFrame` says that the thread which is about to dequeue finds a frame, because only it
removes any, `PassFits` and `BuffersLeft` relate the aggregation buffer to what the flow
control of this pass allowed, so that `AlwaysLeavesRoom` follows. `PathIsChannel` proves the
refinement of `FrameChannel`, action by action: an enqueue is an acceptance, the move of a
frame from the queue to the aggregation buffer is a stutter of the channel, a transfer
delivers the oldest frames of each priority, and a flush is a loss.

**ReorderWindowProofs.** What the windows compute, for any sequence space, window size,
pool, number of interfaces and traffic. The invariant `WInv` gives each window a number
`w` of the sender's own counting of which `ind_sn` is the remainder (`Span`): what waits lies
in `w + 1 .. w + WinSize - 1`, what was released lies below `w`, and the newest frame is at
most `Behind` ahead, except while that very frame is being judged. From it the comparisons
that the code makes modulo `SeqSpace` are those of the numbers (`SnLess`), so each walk
stops where it should: `PlaceIs` for `reord_rxframe_enqueue()`, `WalkEnds` for
`reord_rxframes_process()`, `PassedIs` for `reord_rxframes_ind()`. `WalkEnds` is an
induction along the list; since the library's induction theorems cannot be used, `Induction`
is proved from the least element of a set of positions, and an invariant of the walk is
given to it as the set of positions at which it holds. `AlwaysReleasedInOrder`,
`AlwaysWindowAhead` and `AlwaysGapTimed` follow from `WInv`, `AlwaysPoolConserved` from its
count of places, and `TeardownIsQuiet` from `Emptied`: a window that is torn down is empty
and then untimed unless a frame was filed in it, because the worker restarts the timer of a
non-empty buffer only.

The proof found that `2 * (WinSize + Reach) <= SeqSpace` alone is too weak. A session may
begin, after a flush, with the oldest frame that still arrives, so the newest one can be
almost twice the reach ahead of the window. With a window of 3, a reach of 4 and a
sequence space of 14, seven arrivals around one flush release frames out of order: frames
4 and 8, a flush, 4 again, 7, then 12 and 16, both of which are taken for late ones, and
20. `4 * Reach <= SeqSpace` is now part of `ReorderAssumption`; 4096 and any block
acknowledgement window satisfy it.

Only model-checked: the liveness properties, since fairness is out of the prover's reach.
Every invariant and action property of the passing runs is a theorem, some of them under the
hypotheses named above.

## 6. Not modelled

The repository is mostly data and set-up code: of its implementation lines the greater part
are firmware images in C arrays, generated clock and register tables of the boot loader,
copies of third-party headers, the regulatory database, and one function per firmware
message that fills in a structure. None of it has states or interleavings that a model
could say something about, so the modules cover a small share of the lines; they cover the
code in which threads, timers and queues of the driver meet. Left out of that part:

* `rwnx_txq.c` and `rwnx_tx.c`, the layer above `SdioTxq`: all its changes are made under
  `tx_lock`, and the credits are compiled out, so what is left is the sequential bookkeeping
  of stop reasons and power save periods. It is the first candidate for a further module.
* `aic8800_btlpm`: correctness depends on two wake lines and on a UART driver that is not in
  the repository.
* `aic8800_bsp`: a reduced copy of the command manager with one sender at a time, and two
  power references behind one mutex.
* radar detection: sequential pattern matching under one lock.
* lengths of messages, frames and fragments; the memory that is freed after the bus is down;
  the outcome of register accesses, which is a choice.
* the USB and PCI variants, which the Makefile does not build.
