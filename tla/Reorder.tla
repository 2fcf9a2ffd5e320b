------------------------------ MODULE Reorder ------------------------------
(***************************************************************************)
(* Receive reordering in the aic8800_fdrv driver (rwnx_rx.c): one window   *)
(* per peer and TID, fed by the receive thread, pushed on by a timer and   *)
(* its work item, and torn down by three different threads. Every          *)
(* interface has one peer and one TID here. A frame is the number its      *)
(* sender gave it, of which the code sees the sequence number only.        *)
(***************************************************************************)
EXTENDS Integers, Sequences, FiniteSets, SequencesExt

CONSTANTS
    Ifaces,      \* the interfaces whose windows are followed
    Others,      \* interfaces whose frames need no window
    SeqSpace,    \* 4096
    WinSize,     \* AICWF_REORDER_WINSIZE
    PoolSize,    \* MAX_REORD_RXFRAME
    Reach,       \* how far from the newest frame a frame may arrive
    First,       \* the sender's number before its first frame
    MaxArrivals  \* bound: frames to be reordered

\* A sender stays so close to its window that the order of numbers is that of the
\* sequence numbers: twice its reach counts because a session may begin with the
\* oldest frame that still arrives.
ASSUME ReorderAssumption ==
    /\ Ifaces \cap Others = {}
    /\ SeqSpace \in Nat /\ WinSize \in Nat \ {0} /\ PoolSize \in Nat \ {0}
    /\ Reach \in Nat /\ First \in Nat /\ MaxArrivals \in Nat
    /\ SeqSpace % 2 = 0 /\ 2 * (WinSize + Reach) <= SeqSpace /\ 4 * Reach <= SeqSpace

VARIABLES
    sta,       \* the interface's peer is in stas_reord_list
    enable, ind_sn, reord_list,       \* of its preorder_ctrl
    timer,     \* reord_timer is pending
    handler,   \* reord_timeout_handler() has begun and not yet ended
    work,      \* reord_timer_work is queued
    free,      \* how many frames rxframes_freequeue holds
    iftype,    \* wdev.iftype: "STATION" or "AP"
    vif,       \* rx_priv->rwnx_vif: the interface of the frame received last
    stas_lock, \* the owner of stas_reord_lock between two steps, or "none"
    pc, at,    \* where each thread is, and the interface it works on
    pframe,    \* the frame the receive thread holds
    bus,       \* "UP" or "DOWN"
    top,       \* the newest number each sender has used
    arrivals,  \* frames to be reordered so far
    doomed,    \* ghost: a window was freed that a thread or its timer still uses
    lost,      \* ghost: frames that will never return to the pool
    torn,      \* ghost: a window was used while it was torn down
    last,      \* ghost: the frame the buffer has released last in this session
    disorder,  \* ghost: a buffer has released a frame before an older one, or twice
    misrouted  \* ghost: a frame was handed to another interface's device

ctrl    == <<enable, ind_sn, reord_list>>
timers  == <<timer, handler, work>>
threads == <<stas_lock, pc, at, pframe, bus>>
ghosts  == <<doomed, lost, torn, last, disorder, misrouted>>
senders == <<iftype, top, arrivals>>
vars    == <<sta, ctrl, timers, free, vif, threads, senders, ghosts>>

Threads == {"rx", "user", "rmmod"}

NoSn == 16 * SeqSpace - 1   \* 0xffff: no frame seen yet

NoFrame == -1

NoIface == "none"

Sn(f) == f % SeqSpace   \* seq_num

Init ==
    /\ sta = [i \in Ifaces |-> FALSE]
    /\ enable = [i \in Ifaces |-> FALSE]
    /\ ind_sn = [i \in Ifaces |-> NoSn]
    /\ reord_list = [i \in Ifaces |-> <<>>]
    /\ timer = [i \in Ifaces |-> FALSE]
    /\ handler = [i \in Ifaces |-> FALSE]
    /\ work = [i \in Ifaces |-> FALSE]
    /\ free = PoolSize
    /\ iftype \in [Ifaces -> {"STATION", "AP"}]
    /\ vif \in Ifaces \cup Others
    /\ stas_lock = "none"
    /\ pc = [t \in Threads |-> "idle"]
    /\ at = [t \in Threads |-> NoIface]
    /\ pframe = NoFrame
    /\ bus = "UP"
    /\ top = [i \in Ifaces |-> First]
    /\ arrivals = 0
    /\ doomed = FALSE /\ lost = 0
    /\ torn = [i \in Ifaces |-> FALSE]
    /\ last = [i \in Ifaces |-> First] /\ disorder = FALSE
    /\ misrouted = FALSE

-----------------------------------------------------------------------------
(* The window's arithmetic: sequence numbers modulo SeqSpace. *)

SN_LESS(a, b) == 2 * ((a - b) % SeqSpace) >= SeqSpace

\* Mutant: the sequence number does not wrap.
SuccNoWrap(sn) == sn + 1

Succ(sn) == (sn + 1) % SeqSpace

\* ind_sn when reord_need_check() compares: an unset window begins with this frame.
Begin(ind, sn) == IF ind = NoSn THEN sn ELSE ind

\* reord_need_check() # 0: the window has passed the frame.
Late(ind, sn) == SN_LESS(sn, Begin(ind, sn))

\* Mutant: the window's end is one further.
NeedCheckWide(ind, sn) ==
    LET wend == (ind + WinSize) % SeqSpace IN
    CASE sn = Begin(ind, sn) -> Succ(sn)
      [] sn # Begin(ind, sn) /\ SN_LESS(wend, sn) ->
           IF sn >= WinSize - 1 THEN sn - (WinSize - 1)
                                ELSE SeqSpace - 1 - (WinSize - (sn + 1)) + 1
      [] OTHER -> ind

\* The ind_sn reord_need_check() leaves. The end of the window is taken before an
\* unset window begins.
NeedCheck(ind, sn) ==
    LET wend == (ind + WinSize - 1) % SeqSpace IN
    CASE sn = Begin(ind, sn) -> Succ(sn)
      [] sn # Begin(ind, sn) /\ SN_LESS(wend, sn) ->
           IF sn >= WinSize - 1 THEN sn - (WinSize - 1)
                                ELSE SeqSpace - 1 - (WinSize - (sn + 1)) + 1
      [] OTHER -> ind

\* Where reord_rxframe_enqueue()'s walk stops: at the first frame not before sn.
Place(list, sn) ==
    LET stop == {k \in 1 .. Len(list) : ~ SN_LESS(Sn(list[k]), sn)} IN
    IF stop = {} THEN Len(list) + 1 ELSE Min(stop)

Duplicate(list, sn) ==
    Place(list, sn) <= Len(list) /\ Sn(list[Place(list, sn)]) = sn

\* Mutant: the walk is left out and the frame goes to the tail.
EnqueueTail(list, f) == Append(list, f)

Enqueue(list, f) == InsertAt(list, Place(list, Sn(f)), f)

\* The walk of reord_rxframes_process(): ind_sn passes every frame that is next, and
\* the first frame ahead of it is a gap, bPktInBuf, which ends the walk.
Visit(w, f) ==
    CASE w.gap \/ SN_LESS(w.ind, Sn(f)) -> [w EXCEPT !.gap = TRUE]
      [] ~ w.gap /\ w.ind = Sn(f) -> [w EXCEPT !.ind = Succ(@)]
      [] OTHER -> w

Process(ind, list) ==
    LET walk[k \in 0 .. Len(list)] ==
            IF k = 0 THEN [ind |-> ind, gap |-> FALSE] ELSE Visit(walk[k - 1], list[k])
    IN  walk[Len(list)]

\* How many frames reord_rxframes_ind() takes from the head of the list.
Passed(ind, list) ==
    LET ahead == {k \in 1 .. Len(list) : SN_LESS(ind, Sn(list[k]))} IN
    IF ahead = {} THEN Len(list) ELSE Min(ahead) - 1

-----------------------------------------------------------------------------
(* Handing frames up: reord_single_frame_ind() takes the device from       *)
(* rx_priv->rwnx_vif, whatever interface the frame came in on. A frame that *)
(* is not to be forwarded is freed at the same place.                      *)

Indicate(i, frames) ==
    misrouted' = (misrouted \/ (vif # i /\ frames # <<>>))

\* The buffer of interface i gives up frames, in this order.
Record(i, frames) ==
    LET all == <<last[i]>> \o frames IN
    /\ last' = [last EXCEPT ![i] = all[Len(all)]]
    /\ disorder' = (disorder \/ \E k \in 1 .. Len(frames) : all[k] >= all[k + 1])

\* reord_rxframes_ind(): release what ind has passed, free the frames.
Release(i, ind, list) ==
    LET k == Passed(ind, list)
        frames == SubSeq(list, 1, k)
    IN  /\ Indicate(i, frames)
        /\ reord_list' = [reord_list EXCEPT ![i] = SubSeq(list, k + 1, Len(list))]
        /\ Record(i, frames)
        /\ free' = free + k

-----------------------------------------------------------------------------
(* The receive thread: rwnx_rxdataind_aicwf() and what it calls. *)

Go(t, place) == pc' = [pc EXCEPT ![t] = place]

\* Threads other than t that are tearing interface i's window down.
Tearing(t, i) == \E u \in Threads \ {t} : pc[u] \in {"de_timer", "de_free"} /\ at[u] = i

\* A frame arrives for interface i, whose device it is handed to.
Arrive(i) ==
    /\ ~ doomed /\ pc["rx"] = "idle"
    /\ vif' = i

\* reord_process_unit() finds no frame in the pool, or takes one only to hand an EAPOL
\* or multicast frame straight up.
RxDirect(i) ==
    /\ Arrive(i)
    /\ UNCHANGED <<sta, ctrl, timers, free, threads, senders, ghosts>>

\* Mutant: a disabled window stays disabled.
RxLookupDisabled(i, n) ==
    /\ Arrive(i) /\ free > 0
    /\ arrivals < MaxArrivals /\ arrivals' = arrivals + 1
    /\ n \in top[i] - Reach .. top[i] + Reach /\ n > First
    /\ top' = [top EXCEPT ![i] = IF n > @ THEN n ELSE @]
    /\ stas_lock = "none"
    /\ sta[i] \/ bus = "UP"
    /\ sta' = [sta EXCEPT ![i] = TRUE]
    /\ enable' = [enable EXCEPT ![i] = ~ sta[i] \/ @]
    /\ IF sta[i] /\ enable[i]
       THEN UNCHANGED <<ind_sn, last>>
       ELSE /\ ind_sn' = [ind_sn EXCEPT ![i] = NoSn]
            /\ last' = [last EXCEPT ![i] = First]
    /\ torn' = IF sta[i] THEN torn ELSE [torn EXCEPT ![i] = FALSE]
    /\ pframe' = n
    /\ free' = free - 1
    /\ Go("rx", "found") /\ at' = [at EXCEPT !["rx"] = i]
    /\ UNCHANGED <<iftype, reord_list, timers, stas_lock, bus, doomed, lost,
                   disorder, misrouted>>

\* Mutant: reord_init_sta() does not look at the bus.
RxLookupDown(i, n) ==
    /\ Arrive(i) /\ free > 0
    /\ arrivals < MaxArrivals /\ arrivals' = arrivals + 1
    /\ n \in top[i] - Reach .. top[i] + Reach /\ n > First
    /\ top' = [top EXCEPT ![i] = IF n > @ THEN n ELSE @]
    /\ stas_lock = "none"
    /\ sta' = [sta EXCEPT ![i] = TRUE]
    /\ enable' = [enable EXCEPT ![i] = TRUE]
    /\ IF sta[i] /\ enable[i]
       THEN UNCHANGED <<ind_sn, last>>
       ELSE /\ ind_sn' = [ind_sn EXCEPT ![i] = NoSn]
            /\ last' = [last EXCEPT ![i] = First]
    /\ torn' = IF sta[i] THEN torn ELSE [torn EXCEPT ![i] = FALSE]
    /\ pframe' = n
    /\ free' = free - 1
    /\ Go("rx", "found") /\ at' = [at EXCEPT !["rx"] = i]
    /\ UNCHANGED <<iftype, reord_list, timers, stas_lock, bus, doomed, lost,
                   disorder, misrouted>>

\* The window is looked up under stas_reord_lock: a new peer gets one and a disabled
\* one starts afresh.
RxLookup(i, n) ==
    /\ Arrive(i) /\ free > 0
    /\ arrivals < MaxArrivals /\ arrivals' = arrivals + 1
    /\ n \in top[i] - Reach .. top[i] + Reach /\ n > First
    /\ top' = [top EXCEPT ![i] = IF n > @ THEN n ELSE @]
    /\ stas_lock = "none"
    /\ sta[i] \/ bus = "UP"
    /\ sta' = [sta EXCEPT ![i] = TRUE]
    /\ enable' = [enable EXCEPT ![i] = TRUE]
    /\ IF sta[i] /\ enable[i]
       THEN UNCHANGED <<ind_sn, last>>
       ELSE /\ ind_sn' = [ind_sn EXCEPT ![i] = NoSn]
            /\ last' = [last EXCEPT ![i] = First]
    /\ torn' = IF sta[i] THEN torn ELSE [torn EXCEPT ![i] = FALSE]
    /\ pframe' = n
    /\ free' = free - 1
    /\ Go("rx", "found") /\ at' = [at EXCEPT !["rx"] = i]
    /\ UNCHANGED <<iftype, reord_list, timers, stas_lock, bus, doomed, lost,
                   disorder, misrouted>>

\* reord_init_sta() fails, for want of memory or because the bus is down: the frame
\* taken from the pool is not given back.
RxNoWindow(i) ==
    /\ Arrive(i) /\ free > 0
    /\ stas_lock = "none" /\ ~ sta[i]
    /\ free' = free - 1 /\ lost' = lost + 1
    /\ UNCHANGED <<sta, ctrl, timers, threads, senders, doomed, torn, last, disorder, misrouted>>

\* The second half, under reord_list_lock. The window is enabled here (EnabledWhenHeld):
\* the branch for a disabled one is never taken.
Holds(place) == ~ doomed /\ pc["rx"] = place

Return(t) == Go(t, "idle") /\ at' = [at EXCEPT ![t] = NoIface]

Drop == pframe' = NoFrame /\ Return("rx") /\ UNCHANGED <<stas_lock, bus>>

\* A late frame is handed up out of order, or dropped if it is RTP.
RxLate ==
    LET i == at["rx"] IN
    /\ Holds("found") /\ Late(ind_sn[i], Sn(pframe))
    /\ Indicate(i, <<pframe>>) \/ UNCHANGED misrouted
    /\ free' = free + 1 /\ Drop
    /\ UNCHANGED <<sta, ctrl, timers, vif, senders,
                   doomed, lost, torn, last, disorder>>

\* Mutant: the duplicate is not given back to the pool.
RxDuplicateLeak ==
    LET i == at["rx"] IN
    /\ Holds("found") /\ ~ Late(ind_sn[i], Sn(pframe))
    /\ Duplicate(reord_list[i], Sn(pframe))
    /\ ind_sn' = [ind_sn EXCEPT ![i] = NeedCheck(@, Sn(pframe))]
    /\ UNCHANGED free /\ Drop
    /\ UNCHANGED <<sta, enable, reord_list, timers, vif, senders, ghosts>>

\* A frame the list already holds; ind_sn has been moved all the same.
RxDuplicate ==
    LET i == at["rx"] IN
    /\ Holds("found") /\ ~ Late(ind_sn[i], Sn(pframe))
    /\ Duplicate(reord_list[i], Sn(pframe))
    /\ ind_sn' = [ind_sn EXCEPT ![i] = NeedCheck(@, Sn(pframe))]
    /\ free' = free + 1 /\ Drop
    /\ UNCHANGED <<sta, enable, reord_list, timers, vif, senders, ghosts>>

\* Mutant: a gap does not start the timer.
RxBufferUntimed ==
    LET i == at["rx"]
        list == Enqueue(reord_list[i], pframe)
        walk == Process(NeedCheck(ind_sn[i], Sn(pframe)), list)
    IN  /\ Holds("found") /\ ~ Late(ind_sn[i], Sn(pframe))
        /\ ~ Duplicate(reord_list[i], Sn(pframe))
        /\ ind_sn' = [ind_sn EXCEPT ![i] = walk.ind]
        /\ timer' = [timer EXCEPT ![i] = @ /\ walk.gap]
        /\ Release(i, walk.ind, list)
        /\ torn' = [torn EXCEPT ![i] = @ \/ Tearing("rx", i)]
        /\ Drop
        /\ UNCHANGED <<sta, enable, handler, work, vif, senders,
                       doomed, lost>>

\* The frame is filed and the window moved: a gap behind it starts the timer, none
\* stops it.
RxBuffer ==
    LET i == at["rx"]
        list == Enqueue(reord_list[i], pframe)
        walk == Process(NeedCheck(ind_sn[i], Sn(pframe)), list)
    IN  /\ Holds("found") /\ ~ Late(ind_sn[i], Sn(pframe))
        /\ ~ Duplicate(reord_list[i], Sn(pframe))
        /\ ind_sn' = [ind_sn EXCEPT ![i] = walk.ind]
        /\ timer' = [timer EXCEPT ![i] = walk.gap]
        /\ Release(i, walk.ind, list)
        /\ torn' = [torn EXCEPT ![i] = @ \/ Tearing("rx", i)]
        /\ Drop
        /\ UNCHANGED <<sta, enable, handler, work, vif, senders,
                       doomed, lost>>

\* reord_flush_tid(), for a QoS frame that needs no reordering: it finds no window, or
\* a disabled one.
RxPlain(i) ==
    /\ Arrive(i)
    /\ stas_lock = "none" /\ ~ (sta[i] /\ enable[i])
    /\ UNCHANGED <<sta, ctrl, timers, free, threads, senders, ghosts>>

RxFlush(i) ==
    /\ Arrive(i)
    /\ stas_lock = "none" /\ sta[i] /\ enable[i]
    /\ Go("rx", "fl_list") /\ at' = [at EXCEPT !["rx"] = i]
    /\ UNCHANGED <<sta, ctrl, timers, free, stas_lock, pframe, bus, senders, ghosts>>

FlushList ==
    LET i == at["rx"] IN
    /\ Holds("fl_list")
    /\ Indicate(i, reord_list[i])
    /\ free' = free + Len(reord_list[i])
    /\ Record(i, reord_list[i])
    /\ reord_list' = [reord_list EXCEPT ![i] = <<>>]
    /\ enable' = [enable EXCEPT ![i] = FALSE]
    /\ torn' = [torn EXCEPT ![i] = @ \/ Tearing("rx", i)]
    /\ Go("rx", "fl_timer")
    /\ UNCHANGED <<sta, ind_sn, timers, vif, stas_lock, at, pframe, bus, senders,
                   doomed, lost>>

\* del_timer_sync(), only for a pending timer, waits for a handler that is running.
StopTimer(i) ==
    /\ timer[i] => ~ handler[i]
    /\ timer' = [timer EXCEPT ![i] = FALSE]
    /\ UNCHANGED <<handler, work>>

FlushTimer ==
    /\ Holds("fl_timer")
    /\ StopTimer(at["rx"])
    /\ Go("rx", "fl_work")
    /\ UNCHANGED <<sta, ctrl, free, vif, stas_lock, at, pframe, bus, senders, ghosts>>

\* cancel_work_sync(); then the frame itself goes up.
FlushWork ==
    /\ Holds("fl_work")
    /\ work' = [work EXCEPT ![at["rx"]] = FALSE]
    /\ Return("rx")
    /\ UNCHANGED <<sta, ctrl, timer, handler, free, vif, stas_lock, pframe, bus,
                   senders, ghosts>>

-----------------------------------------------------------------------------
(* reord_timeout_handler() and reord_timeout_worker(). *)

TimerFires(i) ==
    /\ ~ doomed /\ timer[i] /\ ~ handler[i]
    /\ timer' = [timer EXCEPT ![i] = FALSE]
    /\ handler' = [handler EXCEPT ![i] = TRUE]
    /\ UNCHANGED <<sta, ctrl, work, free, vif, threads, senders, ghosts>>

TimerHandler(i) ==
    /\ ~ doomed /\ handler[i]
    /\ handler' = [handler EXCEPT ![i] = FALSE]
    /\ work' = [work EXCEPT ![i] = TRUE]
    /\ UNCHANGED <<sta, ctrl, timer, free, vif, threads, senders, ghosts>>

\* Mutant: the worker does not skip the gap.
WorkerUnforced(i) ==
    LET list == reord_list[i]
        walk == Process(ind_sn[i], list)
    IN  /\ ~ doomed /\ work[i]
        /\ work' = [work EXCEPT ![i] = FALSE]
        /\ ind_sn' = [ind_sn EXCEPT ![i] = walk.ind]
        /\ timer' = [timer EXCEPT ![i] = @ \/ walk.gap]
        /\ Release(i, walk.ind, list)
        /\ UNCHANGED <<sta, enable, handler, vif, threads, senders,
                       doomed, lost, torn>>

\* The gap before the first frame is given up; another one starts the timer again.
Worker(i) ==
    LET list == reord_list[i]
        walk == Process(IF list = <<>> THEN ind_sn[i] ELSE Sn(list[1]), list)
    IN  /\ ~ doomed /\ work[i]
        /\ work' = [work EXCEPT ![i] = FALSE]
        /\ ind_sn' = [ind_sn EXCEPT ![i] = walk.ind]
        /\ timer' = [timer EXCEPT ![i] = @ \/ walk.gap]
        /\ Release(i, walk.ind, list)
        /\ UNCHANGED <<sta, enable, handler, vif, threads, senders,
                       doomed, lost, torn>>

-----------------------------------------------------------------------------
(* reord_deinit_sta(), by a user's thread that deletes a station or by      *)
(* aicwf_rx_deinit(), both under stas_reord_lock, or by the receive thread  *)
(* in rwnx_rx_sm_disconnect_ind(), without it.                              *)

\* The buffered frames are freed.
DeinitList(t, i) ==
    /\ free' = free + Len(reord_list[i])
    /\ reord_list' = [reord_list EXCEPT ![i] = <<>>]
    /\ Go(t, "de_timer") /\ at' = [at EXCEPT ![t] = i]
    /\ UNCHANGED <<sta, enable, ind_sn, timers, vif, pframe, bus, senders, ghosts>>

DelStation(i) ==
    /\ iftype[i] = "AP"
    /\ ~ doomed /\ pc["user"] = "idle" /\ stas_lock = "none" /\ sta[i]
    /\ stas_lock' = "user"
    /\ DeinitList("user", i)

Disconnect(i) ==
    /\ iftype[i] = "STATION"
    /\ ~ doomed /\ pc["rx"] = "idle" /\ sta[i]
    /\ DeinitList("rx", i) /\ UNCHANGED stas_lock

\* Mutant: the timer is left alone.
DeinitTimerSkipped(t) ==
    /\ ~ doomed /\ pc[t] = "de_timer"
    /\ Go(t, "de_free")
    /\ UNCHANGED <<sta, ctrl, timers, free, vif, stas_lock, at, pframe, bus, senders, ghosts>>

DeinitTimer(t) ==
    /\ ~ doomed /\ pc[t] = "de_timer"
    /\ StopTimer(at[t])
    /\ Go(t, "de_free")
    /\ UNCHANGED <<sta, ctrl, free, vif, stas_lock, at, pframe, bus, senders, ghosts>>

\* cancel_work_sync(), list_del() and kfree(): whatever still points at the window, or
\* waits in it, goes on with freed memory, and nothing is said of what follows.
DeinitFree(t) ==
    LET i == at[t] IN
    /\ ~ doomed /\ pc[t] = "de_free"
    /\ sta' = [sta EXCEPT ![i] = FALSE]
    /\ doomed' = (timer[i] \/ handler[i] \/ \E u \in Threads \ {t} : at[u] = i)
    /\ timer' = [timer EXCEPT ![i] = FALSE]
    /\ handler' = [handler EXCEPT ![i] = FALSE]
    /\ work' = [work EXCEPT ![i] = FALSE]
    /\ lost' = lost + Len(reord_list[i])
    /\ reord_list' = [reord_list EXCEPT ![i] = <<>>]
    /\ Go(t, IF t = "rmmod" THEN "next" ELSE "idle") /\ at' = [at EXCEPT ![t] = NoIface]
    /\ stas_lock' = IF t = "user" THEN "none" ELSE stas_lock
    /\ UNCHANGED <<enable, ind_sn, free, vif, pframe, bus, senders,
                   torn, last, disorder, misrouted>>

\* aicwf_sdio_release(): the bus goes down first, then aicwf_rx_deinit() frees every
\* window and only then stops the receive thread.
BusDown ==
    /\ ~ doomed /\ pc["rmmod"] = "idle"
    /\ bus' = "DOWN"
    /\ Go("rmmod", "down")
    /\ UNCHANGED <<sta, ctrl, timers, free, vif, stas_lock, at, pframe, senders, ghosts>>

RmmodLock ==
    /\ ~ doomed /\ pc["rmmod"] = "down" /\ stas_lock = "none"
    /\ stas_lock' = "rmmod"
    /\ Go("rmmod", "next")
    /\ UNCHANGED <<sta, ctrl, timers, free, vif, at, pframe, bus, senders, ghosts>>

RmmodNext(i) ==
    /\ ~ doomed /\ pc["rmmod"] = "next" /\ sta[i]
    /\ DeinitList("rmmod", i) /\ UNCHANGED stas_lock

RmmodUnlock ==
    /\ ~ doomed /\ pc["rmmod"] = "next" /\ \A i \in Ifaces : ~ sta[i]
    /\ stas_lock' = "none"
    /\ Go("rmmod", "stop")
    /\ UNCHANGED <<sta, ctrl, timers, free, vif, at, pframe, bus, senders, ghosts>>

RmmodStop ==
    /\ ~ doomed /\ pc["rmmod"] = "stop" /\ pc["rx"] = "idle"
    /\ pc' = [pc EXCEPT !["rmmod"] = "gone", !["rx"] = "gone"]
    /\ UNCHANGED <<sta, ctrl, timers, free, vif, stas_lock, at, pframe, bus, senders, ghosts>>

-----------------------------------------------------------------------------
Rx ==
    \/ \E i \in Ifaces \cup Others : RxDirect(i)
    \/ \E i \in Ifaces :
        \/ RxNoWindow(i) \/ RxPlain(i) \/ RxFlush(i)
        \/ \E n \in First + 1 .. First + MaxArrivals * Reach : RxLookup(i, n)

RxSteps == RxLate \/ RxDuplicate \/ RxBuffer \/ FlushList \/ FlushTimer \/ FlushWork

Timeout(i) == TimerFires(i) \/ TimerHandler(i) \/ Worker(i)

Teardown ==
    \/ \E i \in Ifaces : DelStation(i) \/ Disconnect(i) \/ RmmodNext(i)
    \/ BusDown \/ RmmodLock \/ RmmodUnlock \/ RmmodStop

Deinit(t) == DeinitTimer(t) \/ DeinitFree(t)

Next ==
    \/ Rx \/ RxSteps \/ Teardown
    \/ \E i \in Ifaces : Timeout(i)
    \/ \E t \in Threads : Deinit(t)

Spec == Init /\ [][Next]_vars

\* The kernel runs its timers, its workers and every runnable thread.
Fairness ==
    /\ \A i \in Ifaces : /\ WF_vars(TimerFires(i))
                         /\ WF_vars(TimerHandler(i))
                         /\ WF_vars(Worker(i))
    /\ WF_vars(RxSteps)
    /\ \A t \in Threads : WF_vars(Deinit(t))

FairSpec == Spec /\ Fairness

-----------------------------------------------------------------------------
(* Properties. *)

\* Every variable has its type; the pool never holds more than PoolSize frames and
\* ind_sn stays below SeqSpace.
TypeOK ==
    /\ sta \in [Ifaces -> BOOLEAN] /\ enable \in [Ifaces -> BOOLEAN]
    /\ ind_sn \in [Ifaces -> (0 .. SeqSpace - 1) \cup {NoSn}]
    /\ reord_list \in [Ifaces -> Seq(Nat)]
    /\ timer \in [Ifaces -> BOOLEAN] /\ handler \in [Ifaces -> BOOLEAN]
    /\ work \in [Ifaces -> BOOLEAN]
    /\ free \in 0 .. PoolSize /\ lost \in 0 .. PoolSize
    /\ iftype \in [Ifaces -> {"STATION", "AP"}]
    /\ vif \in Ifaces \cup Others /\ at \in [Threads -> Ifaces \cup {NoIface}]
    /\ stas_lock \in {"none", "user", "rmmod"}
    /\ pc \in [Threads -> {"idle", "found", "fl_list", "fl_timer", "fl_work", "de_timer",
                           "de_free", "down", "next", "stop", "gone"}]
    /\ pframe \in Nat \cup {NoFrame}
    /\ bus \in {"UP", "DOWN"}
    /\ top \in [Ifaces -> Nat] /\ arrivals \in 0 .. MaxArrivals
    /\ doomed \in BOOLEAN
    /\ torn \in [Ifaces -> BOOLEAN] /\ last \in [Ifaces -> Nat] /\ disorder \in BOOLEAN
    /\ misrouted \in BOOLEAN

\* What waits in the list lies strictly ahead of ind_sn and inside the window, in
\* ascending order, across the wrap of the sequence numbers: this is what makes the
\* walks of reord_rxframe_enqueue() and reord_rxframes_ind() stop at the right frame.
WindowAhead ==
    \A i \in Ifaces :
        LET ahead(k) == (Sn(reord_list[i][k]) - ind_sn[i]) % SeqSpace IN
        /\ \A k \in DOMAIN reord_list[i] : ahead(k) \in 1 .. WinSize - 1
        /\ \A k \in 1 .. Len(reord_list[i]) - 1 : ahead(k) < ahead(k + 1)

\* A buffer releases its frames in the order they were sent and none twice, whatever
\* mixture of arrivals, timeouts and flushes releases them.
ReleasedInOrder == ~ disorder

\* A frame that waits has a timeout coming: its timer is pending, or its handler or
\* worker is about to run.
GapTimed ==
    \A i \in Ifaces : reord_list[i] # <<>> /\ ~ torn[i] => timer[i] \/ handler[i] \/ work[i]

\* The places of the lists.
Places(lists) == UNION {{i} \X DOMAIN lists[i] : i \in Ifaces}

\* Every frame is in the pool, in a list, in the receive thread's hands or lost on a
\* path that forgets it; none is in two places.
PoolConserved ==
    free + lost + Cardinality(Places(reord_list)) + (IF pframe = NoFrame THEN 0 ELSE 1)
        = PoolSize

\* The branch of reord_process_unit() that unlocks the wrong lock is never taken: the
\* window a frame was looked up in is still enabled when its lock is taken.
EnabledWhenHeld ==
    Holds("found") => enable[at["rx"]]

\* A window that no frame touched while it was torn down is freed with an empty buffer
\* and no pending timer: the worker cannot have started it again.
QuietTeardown ==
    [][\A i \in Ifaces : sta[i] /\ ~ sta'[i] /\ ~ torn[i] => ~ timer[i] /\ reord_list[i] = <<>>]_vars

\* Once the module is gone no window is left, and none can come back.
GoneForGood ==
    pc["rmmod"] \in {"stop", "gone"} => \A i \in Ifaces : ~ sta[i] /\ reord_list[i] = <<>>

\* What rwnx_rx_get_vif() is for: the interface the chip names for a frame is the one
\* that gets it. The worker releases to whatever interface received last.
RightDevice == ~ misrouted

\* A buffer whose sender falls silent is emptied: no frame waits for ever for the one
\* before it. MaxArrivals makes every sender fall silent.
BufferDrains ==
    \A i \in Ifaces : reord_list[i] # <<>> ~> (doomed \/ reord_list[i] = <<>>)

=============================================================================
