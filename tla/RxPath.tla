------------------------------- MODULE RxPath -------------------------------
(***************************************************************************)
(* The path of received data through the aic8800_fdrv driver: the queue of  *)
(* SdioRx hands its blocks to the defragmentation of Defrag. Block n        *)
(* carries the fragment Stream[n]; which fragments are lost is decided by   *)
(* the bus, in what order they come by its queue, and what becomes of the   *)
(* entry of an incomplete frame by its timer.                               *)
(***************************************************************************)
EXTENDS SdioRx, Defrag, FiniteSets

CONSTANT Stream   \* the fragments, in the order in which the chip delivers them

Blocks == 1 .. MaxBlocks

\* The fragments of a frame come in the order of their numbers, and the last one is
\* marked.
ASSUME StreamAssumption ==
    /\ Blocks \subseteq DOMAIN Stream
    /\ \A n \in Blocks : /\ Stream[n].fn \in Nat /\ Stream[n].more \in BOOLEAN
                         /\ Stream[n].key # NoKey
    /\ \A m, n \in Blocks :
          m < n /\ Stream[m].of = Stream[n].of =>
              /\ Stream[m].key = Stream[n].key
              /\ Stream[m].fn < Stream[n].fn /\ Stream[m].more

VARIABLE passed   \* the thread's block has been passed on

path == <<vars, defrag, passed>>

PathInit == Init /\ DefragInit /\ passed = FALSE

-----------------------------------------------------------------------------
(* The steps of the bus, none of which touches the fragments. *)

\* A block that is not queued is a fragment lost.
PathIrqRead ==
    /\ IrqRead
    /\ lossy' = (lossy \/ rxq' = rxq)
    /\ UNCHANGED <<defrag_list, arming, rwnx_hw, up, doomed, passed>>

PathIrq == (IrqCount \/ IrqCheck) /\ UNCHANGED <<defrag, passed>>

PathTake == (RxWake \/ RxTake) /\ UNCHANGED <<defrag, passed>>

\* rwnx_rxdataind_aicwf(), for the packet of the block.
PathPass ==
    /\ rx = "handle" /\ ~ passed
    /\ Frag(Stream[skb]) \/ (doomed /\ UNCHANGED defrag)
    /\ passed' = TRUE
    /\ UNCHANGED vars

PathArm == Arm /\ UNCHANGED <<vars, passed>>

PathHandle ==
    /\ RxHandle /\ passed /\ (arming = NoKey \/ doomed)
    /\ passed' = FALSE
    /\ UNCHANGED defrag

\* A message in the same block finds no memory, before or after the fragment.
PathNoMem ==
    /\ RxNoMem /\ (arming = NoKey \/ doomed)
    /\ passed' = FALSE
    /\ lossy' = TRUE
    /\ UNCHANGED <<defrag_list, arming, rwnx_hw, up, doomed>>

PathTimeout == (CbBegin \/ CbExpire) /\ UNCHANGED <<vars, passed>>

\* The removal: rwnx_platform_deinit() comes before aicwf_rx_deinit() stops the thread.
PathRelease == Release /\ UNCHANGED <<defrag, passed>>

PathPlatformDeinit ==
    /\ MayStop
    /\ PlatformDeinit(rx = "handle")
    /\ UNCHANGED <<vars, passed>>

PathRxDeinit ==
    /\ rwnx_hw = "freed"
    /\ RxDeinit
    /\ UNCHANGED <<defrag, passed>>

PathRx == PathTake \/ PathPass \/ PathArm \/ PathHandle \/ PathNoMem

PathNext ==
    \/ PathIrqRead \/ PathIrq \/ PathRx \/ PathTimeout
    \/ PathRelease \/ PathPlatformDeinit \/ PathRxDeinit

PathSpec == PathInit /\ [][PathNext]_path

\* Fairness: that of the bus, and the kernel runs its timers.
PathFairSpec ==
    /\ PathSpec
    /\ WF_path(PathRx) /\ WF_path(PathIrq) /\ WF_path(PathTimeout)

-----------------------------------------------------------------------------
(* Properties. *)

\* The frames whose key no other frame has. The key is made of the destination, not the
\* sender: an access point may hold fragments of two stations under one key.
Alone ==
    {f \in {Stream[n].of : n \in Blocks} :
        \A m, n \in Blocks :
            Stream[m].of = f /\ Stream[n].key = Stream[m].key => Stream[n].of = f}

\* Whatever the bus loses and whenever timers expire: what goes up of a frame is all of
\* it, in order, or its last fragment alone. Nothing is joined across a hole.
WholeOrTail ==
    \A k \in DOMAIN up :
        up[k][1].of \in Alone => Whole(up[k]) \/ Tail1(up[k])

\* The last fragments among the first n blocks that belong to frames in Alone.
Finished(n) == {m \in 1 .. n : ~ Stream[m].more /\ Stream[m].of \in Alone}

\* The chip delivers every frame from its first fragment on and leaves none out.
Complete ==
    \A n \in Blocks :
        \/ Stream[n].fn = 0
        \/ \E m \in 1 .. n - 1 : Stream[m].of = Stream[n].of /\ Stream[m].fn = Stream[n].fn - 1

\* If nothing is lost on the way, every frame goes up once and whole, when its last
\* fragment has been handled: the entry is there although frames of several senders
\* come interleaved.
NothingLost ==
    ~ lossy /\ ~ doomed =>
        LET mine == {k \in DOMAIN up : up[k][1].of \in Alone} IN
        /\ \A k \in mine : Whole(up[k])
        /\ Cardinality(mine) = Cardinality({up[k][1].of : k \in mine})
        /\ {up[k][1].of : k \in mine} =
               {Stream[m].of : m \in Finished(IF passed THEN skb ELSE handled)}

\* An entry does not stay for ever: its frame is completed or its timer throws it away.
EntriesExpire == defrag_list # {} ~> (defrag_list = {} \/ doomed)

=============================================================================
