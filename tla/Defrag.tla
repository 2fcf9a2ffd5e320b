------------------------------- MODULE Defrag -------------------------------
(***************************************************************************)
(* Defragmentation in the aic8800_fdrv driver (rwnx_rx.c): the receive      *)
(* thread collects the fragments of a frame in an entry of defrag_list,     *)
(* which the entry's timer throws away if the rest does not come. The       *)
(* actions here are what rwnx_rxdataind_aicwf() does with one fragment and  *)
(* what the timer does; RxPath drives them with the blocks of the bus.      *)
(*                                                                          *)
(* A fragment is a record: the frame it belongs to (of), the tuple of       *)
(* sequence number, TID and sta_idx that the code tells frames apart by     *)
(* (key), its fragment number (fn) and MAC_FCTRL_MOREFRAG (more).           *)
(***************************************************************************)
EXTENDS Integers, Sequences

VARIABLES
    defrag_list, \* entries: key, next_fn, the collected fragments, the timer
    arming,      \* the key of the entry whose timer is about to be started
    rwnx_hw,     \* "live" or "freed"
    up,          \* what was handed up: each the fragments it is made of
    lossy,       \* ghost: a fragment was lost or an entry has expired
    doomed       \* ghost: freed memory was used, nothing is said of what follows

defrag == <<defrag_list, arming, rwnx_hw, up, lossy, doomed>>

NoKey == "none"

DefragInit ==
    /\ defrag_list = {} /\ arming = NoKey /\ rwnx_hw = "live"
    /\ up = <<>> /\ lossy = FALSE /\ doomed = FALSE

-----------------------------------------------------------------------------
(* rwnx_rxdataind_aicwf(): one fragment, under defrag_lock. *)

Found(f) == {e \in defrag_list : e.key = f.key}

Wanted(e, f) == e.next_fn = f.fn

Handed(frags) == up' = Append(up, frags)

\* Mutant: the entry begins with the number of its first fragment.
OpenAt(f) == f.fn + 1

\* next_fn of a new entry, whatever fragment it begins with.
Open(f) == 1

\* The first fragment to come opens an entry, if there is memory; its timer is started
\* after the unlock.
FragOpen(f) ==
    /\ f.more /\ Found(f) = {}
    /\ \/ /\ defrag_list' = defrag_list \cup
                 {[key |-> f.key, next_fn |-> Open(f), frags |-> <<f>>, timer |-> "setup"]}
          /\ arming' = f.key
          /\ UNCHANGED lossy
       \/ lossy' = TRUE /\ UNCHANGED <<defrag_list, arming>>
    /\ UNCHANGED <<rwnx_hw, up, doomed>>

\* A fragment that is not the one the entry waits for is dropped.
FragDiscard(f) ==
    /\ f.more \/ f.fn > 0
    /\ \E e \in Found(f) : ~ Wanted(e, f)
    /\ UNCHANGED defrag

\* Mutant: the entry does not count the fragment.
FragAppendUncounted(f) ==
    \E e \in Found(f) :
        /\ f.more /\ Wanted(e, f)
        /\ defrag_list' = (defrag_list \ {e}) \cup {[e EXCEPT !.frags = Append(@, f)]}
        /\ UNCHANGED <<arming, rwnx_hw, up, lossy, doomed>>

\* The next fragment, not yet the last, is copied behind the others.
FragAppend(f) ==
    \E e \in Found(f) :
        /\ f.more /\ Wanted(e, f)
        /\ defrag_list' = (defrag_list \ {e}) \cup
               {[e EXCEPT !.next_fn = @ + 1, !.frags = Append(@, f)]}
        /\ UNCHANGED <<arming, rwnx_hw, up, lossy, doomed>>

\* The last fragment completes the frame. del_timer() does not wait for a callback that
\* has begun, and that one then frees the entry and its data a second time.
FragComplete(f) ==
    \E e \in Found(f) :
        /\ ~ f.more /\ f.fn > 0 /\ Wanted(e, f)
        /\ defrag_list' = defrag_list \ {e}
        /\ Handed(Append(e.frags, f))
        /\ doomed' = (e.timer = "running")
        /\ UNCHANGED <<arming, rwnx_hw, lossy>>

\* The last fragment was copied, but its interface is not up: the entry stays, longer
\* by what next_fn does not count.
FragNoVif(f) ==
    \E e \in Found(f) :
        /\ ~ f.more /\ f.fn > 0 /\ Wanted(e, f)
        /\ defrag_list' = (defrag_list \ {e}) \cup {[e EXCEPT !.frags = Append(@, f)]}
        /\ lossy' = TRUE
        /\ UNCHANGED <<arming, rwnx_hw, up, doomed>>

\* A frame in one piece, and also a last fragment for which there is no entry, goes up
\* as it is, or is dropped if its interface is not up.
FragPlain(f) ==
    /\ ~ f.more /\ (f.fn = 0 \/ Found(f) = {})
    /\ \/ Handed(<<f>>) /\ UNCHANGED lossy
       \/ lossy' = TRUE /\ UNCHANGED up
    /\ UNCHANGED <<defrag_list, arming, rwnx_hw, doomed>>

\* Memory for the packet's own buffer is refused: it is skipped.
FragSkip(f) ==
    /\ lossy' = TRUE
    /\ UNCHANGED <<defrag_list, arming, rwnx_hw, up, doomed>>

\* The driver's main structure, with defrag_lock and the list in it, is gone.
FragFreed(f) ==
    /\ doomed' = TRUE
    /\ UNCHANGED <<defrag_list, arming, rwnx_hw, up, lossy>>

Frag(f) ==
    /\ ~ doomed
    /\ IF rwnx_hw = "freed" THEN FragFreed(f)
       ELSE \/ FragOpen(f) \/ FragDiscard(f) \/ FragAppend(f) \/ FragComplete(f)
            \/ FragNoVif(f) \/ FragPlain(f) \/ FragSkip(f)

SetTimer(e, t) == defrag_list' = (defrag_list \ {e}) \cup {[e EXCEPT !.timer = t]}

\* Mutant: the timer is set up and not started.
ArmSkipped ==
    /\ ~ doomed /\ arming # NoKey
    /\ arming' = NoKey
    /\ UNCHANGED <<defrag_list, rwnx_hw, up, lossy, doomed>>

\* timer_setup() and mod_timer(), after the unlock.
Arm ==
    /\ ~ doomed /\ arming # NoKey
    /\ \E e \in defrag_list : e.key = arming /\ SetTimer(e, "pending")
    /\ arming' = NoKey
    /\ UNCHANGED <<rwnx_hw, up, lossy, doomed>>

-----------------------------------------------------------------------------
(* defrag_timeout_cb(), and the removal. *)

CbBegin ==
    /\ ~ doomed
    /\ \E e \in defrag_list : e.timer = "pending" /\ SetTimer(e, "running")
    /\ UNCHANGED <<arming, rwnx_hw, up, lossy, doomed>>

\* The entry is unlinked and freed. The lock is then found through the freed entry,
\* where it may no longer be.
CbExpire ==
    /\ ~ doomed
    /\ \E e \in defrag_list : e.timer = "running" /\ defrag_list' = defrag_list \ {e}
    /\ lossy' = TRUE
    /\ doomed' \in BOOLEAN
    /\ UNCHANGED <<arming, rwnx_hw, up>>

\* rwnx_cfg80211_deinit() frees every entry and goes to the next one from the one it has
\* freed; then it frees rwnx_hw, while the receive thread runs.
PlatformDeinit(inuse) ==
    /\ rwnx_hw = "live"
    /\ rwnx_hw' = "freed"
    /\ doomed' = (doomed \/ defrag_list # {} \/ inuse)
    /\ UNCHANGED <<defrag_list, arming, up, lossy>>

-----------------------------------------------------------------------------
(* Properties. *)

\* A frame handed up is in one piece, or the last piece of one.
Whole(frags) ==
    /\ \A k \in DOMAIN frags : frags[k].of = frags[1].of /\ frags[k].fn = k - 1
    /\ \A k \in DOMAIN frags : frags[k].more <=> k < Len(frags)

Tail1(frags) == Len(frags) = 1 /\ ~ frags[1].more

=============================================================================
