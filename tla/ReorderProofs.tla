---------------------------- MODULE ReorderProofs ----------------------------
(***************************************************************************)
(* Proofs about the reordering windows, for any number of interfaces, any   *)
(* window and any traffic. They concern the threads that use and free the   *)
(* windows; ReorderWindowProofs adds what the walks over a buffer compute.  *)
(***************************************************************************)
EXTENDS Reorder, TLAPS

\* Where a thread has an interface in its hands.
Working == {"found", "fl_list", "fl_timer", "fl_work", "de_timer", "de_free"}

\* Which functions there are, and where each thread can be.
Shape ==
    /\ DOMAIN sta = Ifaces /\ DOMAIN enable = Ifaces /\ DOMAIN reord_list = Ifaces
    /\ DOMAIN pc = Threads /\ DOMAIN at = Threads
    /\ \A t \in Threads : pc[t] \in Working => at[t] \in Ifaces
    /\ pc["rmmod"] \in {"idle", "down", "next", "de_timer", "de_free", "stop", "gone"}
    /\ \A t \in {"rx", "user"} : pc[t] \notin {"down", "next", "stop"}

\* A window that holds frames is in stas_reord_list, and so is the one the receive
\* thread looked up, as long as nobody has freed it in between.
Listed ==
    /\ \A i \in Ifaces : reord_list[i] # <<>> => sta[i]
    /\ ~doomed /\ pc["rx"] = "found" => sta[at["rx"]]

\* The removal is past its first step only on a bus that is down.
DownFirst == pc["rmmod"] # "idle" => bus = "DOWN"

\* The inductive invariant.
RInv == Shape /\ Listed /\ DownFirst /\ EnabledWhenHeld /\ GoneForGood

\* Releasing from an empty buffer leaves it empty.
LEMMA NothingToRelease ==
    ASSUME NEW ind PROVE SubSeq(<<>>, Passed(ind, <<>>) + 1, Len(<<>>)) = <<>>
<1>1. Passed(ind, <<>>) = 0
  BY DEF Passed
<1> QED
  BY <1>1

\* It holds of a driver that has just been loaded.
LEMMA InitRInv == Init => RInv
BY DEF Init, RInv, Shape, Listed, DownFirst, EnabledWhenHeld, GoneForGood, Holds, Threads, Working

\* The look-up lists and enables the window it finds.
LEMMA LookupStep ==
    ASSUME RInv, NEW i \in Ifaces, NEW n, RxLookup(i, n) PROVE RInv'
<1> USE DEF RInv, RxLookup, Arrive, Go, Threads
<1>1. Shape'
  BY DEF Shape, Working
<1>2. Listed' /\ EnabledWhenHeld'
  BY DEF Shape, Listed, EnabledWhenHeld, Holds
<1>3. DownFirst' /\ GoneForGood'
  BY DEF Shape, Listed, DownFirst, GoneForGood
<1> QED
  BY <1>1, <1>2, <1>3

\* The receive thread gives its frame up.
LEMMA DropStep == ASSUME RInv, RxLate \/ RxDuplicate PROVE RInv'
<1>1. /\ UNCHANGED <<sta, enable, reord_list, bus>>
      /\ pc["rx"] = "found"
      /\ pc' = [pc EXCEPT !["rx"] = "idle"] /\ at' = [at EXCEPT !["rx"] = NoIface]
  BY DEF RxLate, RxDuplicate, Drop, Return, Go, Holds, ctrl
<1>2. Shape'
  BY <1>1 DEF RInv, Shape, Working, Threads
<1>3. Listed' /\ EnabledWhenHeld' /\ DownFirst' /\ GoneForGood'
  BY <1>1 DEF RInv, Shape, Listed, EnabledWhenHeld, Holds, DownFirst, GoneForGood, Threads
<1> QED
  BY <1>2, <1>3 DEF RInv

\* Only a listed window gets frames.
LEMMA BufferStep == ASSUME RInv, RxBuffer PROVE RInv'
<1> DEFINE i == at["rx"]
<1>1. /\ UNCHANGED <<sta, enable, bus>>
      /\ pc["rx"] = "found" /\ ~doomed /\ sta[i] /\ i \in Ifaces
      /\ pc' = [pc EXCEPT !["rx"] = "idle"] /\ at' = [at EXCEPT !["rx"] = NoIface]
  BY DEF RInv, Shape, Listed, RxBuffer, Drop, Return, Go, Holds, Working, Threads
<1>2. DOMAIN reord_list' = Ifaces /\ \A j \in Ifaces \ {i} : reord_list'[j] = reord_list[j]
  BY <1>1 DEF RInv, Shape, RxBuffer, Release
<1>3. Shape'
  BY <1>1, <1>2 DEF RInv, Shape, Working, Threads
<1>4. Listed' /\ EnabledWhenHeld' /\ DownFirst'
  BY <1>1, <1>2 DEF RInv, Shape, Listed, EnabledWhenHeld, Holds, DownFirst, Threads
<1>5. GoneForGood'
  BY <1>1, <1>2 DEF RInv, Shape, GoneForGood, Threads
<1> QED
  BY <1>3, <1>4, <1>5 DEF RInv

\* The worker cannot fill an empty buffer.
LEMMA WorkerStep == ASSUME RInv, NEW i \in Ifaces, Worker(i) PROVE RInv'
<1>1. UNCHANGED <<sta, enable, bus, pc, at, doomed>>
  BY DEF Worker, threads
<1>2. DOMAIN reord_list' = Ifaces /\ \A j \in Ifaces \ {i} : reord_list'[j] = reord_list[j]
  BY DEF RInv, Shape, Worker, Release
<1>3. reord_list[i] = <<>> => reord_list'[i] = <<>>
  <2> SUFFICES ASSUME reord_list[i] = <<>> PROVE reord_list'[i] = <<>>
    OBVIOUS
  <2>1. PICK ind : reord_list'[i] = SubSeq(reord_list[i], Passed(ind, reord_list[i]) + 1,
                                           Len(reord_list[i]))
    BY DEF Worker, Release, RInv, Shape
  <2> QED
    BY <2>1, NothingToRelease
<1>4. Shape' /\ Listed' /\ EnabledWhenHeld' /\ DownFirst'
  BY <1>1, <1>2, <1>3 DEF RInv, Shape, Listed, EnabledWhenHeld, Holds, DownFirst
<1>5. GoneForGood'
  BY <1>1, <1>2, <1>3 DEF RInv, GoneForGood
<1> QED
  BY <1>4, <1>5 DEF RInv

\* reord_flush_tid() and the steps that only stop timers.
LEMMA FlushStep ==
    ASSUME RInv, (\E i \in Ifaces : RxFlush(i)) \/ FlushList \/ FlushTimer \/ FlushWork
    PROVE  RInv'
<1>1. /\ UNCHANGED <<sta, bus, doomed>>
      /\ pc["rx"] \in {"idle", "fl_list", "fl_timer", "fl_work"}
      /\ \/ /\ pc' = [pc EXCEPT !["rx"] = "fl_list"]
            /\ \E i \in Ifaces : at' = [at EXCEPT !["rx"] = i]
         \/ /\ \E p \in {"fl_timer", "fl_work"} : pc' = [pc EXCEPT !["rx"] = p]
            /\ at' = at /\ pc["rx"] \in Working
         \/ pc' = [pc EXCEPT !["rx"] = "idle"] /\ at' = [at EXCEPT !["rx"] = NoIface]
  <2>1. CASE \E i \in Ifaces : RxFlush(i)
    BY <2>1 DEF RxFlush, Arrive, Go, ghosts
  <2>2. CASE FlushList \/ FlushTimer
    BY <2>2 DEF FlushList, FlushTimer, Holds, Go, ghosts, Working
  <2>3. CASE FlushWork
    BY <2>3 DEF FlushWork, Holds, Go, Return, ghosts
  <2> QED
    BY <2>1, <2>2, <2>3
<1>2. /\ DOMAIN reord_list' = Ifaces /\ DOMAIN enable' = Ifaces
      /\ \A j \in Ifaces : reord_list'[j] = reord_list[j] \/ reord_list'[j] = <<>>
  BY DEF RInv, Shape, Working, Threads, RxFlush, FlushList, FlushTimer, FlushWork, Holds, ctrl
<1>3. Shape'
  BY <1>1, <1>2 DEF RInv, Shape, Working, Threads
<1>4. Listed' /\ EnabledWhenHeld' /\ DownFirst' /\ GoneForGood'
  BY <1>1, <1>2 DEF RInv, Shape, Listed, EnabledWhenHeld, Holds, DownFirst, GoneForGood, Threads
<1> QED
  BY <1>3, <1>4 DEF RInv

\* A frame that touches no window, and the timer.
LEMMA IdleStep ==
    ASSUME RInv, UNCHANGED <<sta, enable, reord_list, bus, pc, at, doomed>> PROVE RInv'
BY DEF RInv, Shape, Listed, DownFirst, EnabledWhenHeld, GoneForGood, Holds

\* reord_deinit_sta() begins, in any of its three threads.
LEMMA DeinitListStep ==
    ASSUME RInv, NEW i \in Ifaces, DelStation(i) \/ Disconnect(i) \/ RmmodNext(i) PROVE RInv'
<1>1. PICK t \in Threads :
        /\ ~doomed /\ UNCHANGED <<sta, enable, bus, doomed>>
        /\ reord_list' = [reord_list EXCEPT ![i] = <<>>]
        /\ pc' = [pc EXCEPT ![t] = "de_timer"] /\ at' = [at EXCEPT ![t] = i]
        /\ pc[t] = IF t = "rmmod" THEN "next" ELSE "idle"
  BY DEF DelStation, Disconnect, RmmodNext, DeinitList, Go, Threads, ghosts
<1>2. Shape'
  BY <1>1 DEF RInv, Shape, Working, Threads
<1>3. Listed' /\ EnabledWhenHeld'
  BY <1>1 DEF RInv, Shape, Listed, EnabledWhenHeld, Holds, Threads
<1>4. DownFirst' /\ GoneForGood'
  BY <1>1 DEF RInv, Shape, DownFirst, GoneForGood, Threads
<1> QED
  BY <1>2, <1>3, <1>4 DEF RInv

\* reord_deinit_sta() goes on.
LEMMA DeinitStep == ASSUME RInv, NEW t \in Threads, Deinit(t) PROVE RInv'
<1>1. CASE DeinitTimer(t)
  <2>1. /\ UNCHANGED <<sta, enable, reord_list, bus, doomed, at>>
        /\ pc[t] = "de_timer" /\ pc' = [pc EXCEPT ![t] = "de_free"]
    BY <1>1 DEF DeinitTimer, Go, ctrl, ghosts
  <2>2. Shape'
    BY <2>1 DEF RInv, Shape, Working, Threads
  <2>3. Listed' /\ EnabledWhenHeld' /\ DownFirst' /\ GoneForGood'
    BY <2>1 DEF RInv, Shape, Listed, EnabledWhenHeld, Holds, DownFirst, GoneForGood, Threads
  <2> QED
    BY <2>2, <2>3 DEF RInv
<1>2. CASE DeinitFree(t)
  <2> DEFINE i == at[t]
  <2>1. /\ UNCHANGED <<enable, bus>> /\ i \in Ifaces
        /\ sta' = [sta EXCEPT ![i] = FALSE] /\ reord_list' = [reord_list EXCEPT ![i] = <<>>]
        /\ (\E u \in Threads \ {t} : at[u] = i) => doomed'
        /\ pc[t] = "de_free" /\ at' = [at EXCEPT ![t] = NoIface]
        /\ pc' = [pc EXCEPT ![t] = IF t = "rmmod" THEN "next" ELSE "idle"]
    BY <1>2 DEF RInv, Shape, Working, DeinitFree, Go
  <2>2. ~doomed
    BY <1>2 DEF DeinitFree
  <2>3. Shape'
    BY <2>1 DEF RInv, Shape, Working, Threads
  <2>4. Listed' /\ EnabledWhenHeld'
    BY <2>1, <2>2 DEF RInv, Shape, Listed, EnabledWhenHeld, Holds, Threads, Working
  <2>5. DownFirst' /\ GoneForGood'
    BY <2>1 DEF RInv, Shape, DownFirst, GoneForGood, Threads
  <2> QED
    BY <2>3, <2>4, <2>5 DEF RInv
<1> QED
  BY <1>1, <1>2 DEF Deinit

\* The other steps of the removal.
LEMMA RmmodStep == ASSUME RInv, BusDown \/ RmmodLock \/ RmmodUnlock \/ RmmodStop PROVE RInv'
<1>1. CASE BusDown \/ RmmodLock
  <2>1. /\ UNCHANGED <<sta, enable, reord_list, doomed, at>> /\ bus' = "DOWN"
        /\ \E p \in {"down", "next"} : pc' = [pc EXCEPT !["rmmod"] = p]
    BY <1>1 DEF BusDown, RmmodLock, Go, ctrl, ghosts, RInv, DownFirst
  <2>2. Shape'
    BY <2>1 DEF RInv, Shape, Working, Threads
  <2> QED
    BY <2>1, <2>2 DEF RInv, Shape, Listed, DownFirst, EnabledWhenHeld, GoneForGood, Holds, Threads
<1>2. CASE RmmodUnlock
  <2>1. /\ UNCHANGED <<sta, enable, reord_list, doomed, at, bus>> /\ pc["rmmod"] = "next"
        /\ pc' = [pc EXCEPT !["rmmod"] = "stop"] /\ \A i \in Ifaces : ~sta[i]
    BY <1>2 DEF RmmodUnlock, Go, ctrl, ghosts
  <2>2. Shape'
    BY <2>1 DEF RInv, Shape, Working, Threads
  <2> QED
    BY <2>1, <2>2 DEF RInv, Shape, Listed, DownFirst, EnabledWhenHeld, GoneForGood, Holds, Threads
<1>3. CASE RmmodStop
  <2>1. /\ UNCHANGED <<sta, enable, reord_list, doomed, at, bus>> /\ pc["rmmod"] = "stop"
        /\ pc' = [pc EXCEPT !["rmmod"] = "gone", !["rx"] = "gone"]
    BY <1>3 DEF RmmodStop, ctrl, ghosts
  <2>2. Shape'
    BY <2>1 DEF RInv, Shape, Working, Threads
  <2> QED
    BY <2>1, <2>2 DEF RInv, Shape, Listed, DownFirst, EnabledWhenHeld, GoneForGood, Holds, Threads
<1> QED
  BY <1>1, <1>2, <1>3

\* Every step keeps the invariant.
LEMMA NextRInv == RInv /\ [Next]_vars => RInv'
<1> SUFFICES ASSUME RInv, [Next]_vars PROVE RInv'
  OBVIOUS
<1>1. CASE Rx
  <2>1. CASE \E i \in Ifaces \cup Others : RxDirect(i)
    BY <2>1, IdleStep DEF RxDirect, ctrl, threads, ghosts
  <2>2. CASE \E i \in Ifaces : RxNoWindow(i) \/ RxPlain(i)
    BY <2>2, IdleStep DEF RxNoWindow, RxPlain, ctrl, threads, ghosts
  <2>3. CASE \E i \in Ifaces : RxFlush(i)
    BY <2>3, FlushStep
  <2>4. CASE \E i \in Ifaces : \E n \in First + 1 .. First + MaxArrivals * Reach : RxLookup(i, n)
    BY <2>4, LookupStep
  <2> QED
    BY <1>1, <2>1, <2>2, <2>3, <2>4 DEF Rx
<1>2. CASE RxSteps
  BY <1>2, DropStep, BufferStep, FlushStep DEF RxSteps
<1>3. CASE Teardown
  BY <1>3, DeinitListStep, RmmodStep DEF Teardown
<1>4. CASE \E i \in Ifaces : Timeout(i)
  <2>1. CASE \E i \in Ifaces : TimerFires(i) \/ TimerHandler(i)
    BY <2>1, IdleStep DEF TimerFires, TimerHandler, ctrl, threads, ghosts
  <2> QED
    BY <1>4, <2>1, WorkerStep DEF Timeout
<1>5. CASE \E t \in Threads : Deinit(t)
  BY <1>5, DeinitStep
<1>6. CASE UNCHANGED vars
  BY <1>6, IdleStep DEF vars, ctrl, threads, ghosts
<1> QED
  BY <1>1, <1>2, <1>3, <1>4, <1>5, <1>6 DEF Next

\* It holds for ever.
LEMMA SpecRInv == Spec => []RInv
BY InitRInv, NextRInv, PTL DEF Spec

\* For any number of interfaces: the branch of reord_process_unit() for a window that
\* was disabled between its two locks, the one that unlocks the wrong lock, is dead
\* code, because only the receive thread itself disables windows.
THEOREM WindowStaysEnabled == Spec => []EnabledWhenHeld
<1>1. RInv => EnabledWhenHeld
  BY DEF RInv
<1> QED
  BY <1>1, SpecRInv, PTL

\* For any number of interfaces: although aicwf_rx_deinit() frees the windows before it
\* stops the receive thread, that thread cannot create one again.
THEOREM NoWindowAfterRemoval == Spec => []GoneForGood
<1>1. RInv => GoneForGood
  BY DEF RInv
<1> QED
  BY <1>1, SpecRInv, PTL

=============================================================================
