---------------------------- MODULE SdioTxqProofs ----------------------------
(***************************************************************************)
(* Proofs about the transmit queue and its flow control, for any number of  *)
(* priorities, frames, buffers and messages, with failing transfers and a   *)
(* device that may be removed at any time.                                  *)
(***************************************************************************)
EXTENDS SdioTxq, FiniteSetTheorems, SequenceTheorems, TLAPS

-----------------------------------------------------------------------------
(* Counting the frames of a family of lists. *)

Lists == [Prios -> Seq(Nat)]

Places(q) == UNION {{p} \X DOMAIN q[p] : p \in Prios}

\* The places are pairs of a priority and a position.
LEMMA PlacesAre ==
    ASSUME NEW q
    PROVE  \A x : x \in Places(q) <=> \E p \in Prios : \E k \in DOMAIN q[p] : x = <<p, k>>
BY DEF Places

\* A frame at the end of a list is one more.
LEMMA CountAppend ==
    ASSUME NEW q \in Lists, NEW p \in Prios, NEW f \in Nat, IsFiniteSet(Places(q)),
           NEW r \in Lists, r[p] = Append(q[p], f), \A o \in Prios \ {p} : r[o] = q[o]
    PROVE  IsFiniteSet(Places(r)) /\ Count(r) = Count(q) + 1
<1>2. q[p] \in Seq(Nat)
  BY DEF Lists
<1> DEFINE n == Len(q[p]) + 1
<1>3. DOMAIN q[p] = 1 .. n - 1 /\ DOMAIN r[p] = 1 .. n /\ n \in Nat
  BY <1>2
<1> HIDE DEF n
<1>4. Places(r) = Places(q) \cup {<<p, n>>}
  <2>1. ASSUME NEW x, x \in Places(r) PROVE x \in Places(q) \cup {<<p, n>>}
    <3>0. PICK o \in Prios : \E k \in DOMAIN r[o] : x = <<o, k>>
      BY <2>1, PlacesAre
    <3>1. PICK k \in DOMAIN r[o] : x = <<o, k>>
      BY <3>0
    <3>2. CASE o = p /\ k # n
      <4>1. k \in DOMAIN q[p]
        BY <1>3, <3>1, <3>2
      <4> QED
        BY <3>1, <3>2, <4>1, PlacesAre
    <3>3. CASE o # p
      BY <3>1, <3>3, PlacesAre
    <3> QED
      BY <3>1, <3>2, <3>3
  <2>2. ASSUME NEW x, x \in Places(q) PROVE x \in Places(r)
    <3>0. PICK o \in Prios : \E k \in DOMAIN q[o] : x = <<o, k>>
      BY <2>2, PlacesAre
    <3>1. PICK k \in DOMAIN q[o] : x = <<o, k>>
      BY <3>0
    <3>2. k \in DOMAIN r[o]
      BY <1>3, <3>1
    <3> QED
      BY <3>1, <3>2, PlacesAre
  <2>3. <<p, n>> \in Places(r)
    BY <1>3, PlacesAre
  <2> QED
    BY <2>1, <2>2, <2>3
<1>5. <<p, n>> \notin Places(q)
  <2> SUFFICES ASSUME <<p, n>> \in Places(q) PROVE FALSE
    OBVIOUS
  <2>0. PICK o \in Prios : \E k \in DOMAIN q[o] : <<p, n>> = <<o, k>>
    BY PlacesAre
  <2>1. PICK k \in DOMAIN q[o] : <<p, n>> = <<o, k>>
    BY <2>0
  <2> QED
    BY <1>3, <2>1
<1>6. /\ IsFiniteSet(Places(q) \cup {<<p, n>>})
      /\ Cardinality(Places(q) \cup {<<p, n>>}) = Cardinality(Places(q)) + 1
  BY <1>5, FS_AddElement
<1> QED
  BY <1>4, <1>6 DEF Count, Places

\* A list without its head has one frame less.
LEMMA CountTail ==
    ASSUME NEW q \in Lists, NEW p \in Prios, q[p] # <<>>, IsFiniteSet(Places(q)),
           NEW r \in Lists, r[p] = Tail(q[p]), \A o \in Prios \ {p} : r[o] = q[o]
    PROVE  IsFiniteSet(Places(r)) /\ Count(r) = Count(q) - 1 /\ Count(r) \in Nat
<1>2. q[p] \in Seq(Nat)
  BY DEF Lists
<1> DEFINE n == Len(q[p])
<1>3. DOMAIN q[p] = 1 .. n /\ DOMAIN r[p] = 1 .. n - 1 /\ n \in Nat /\ n > 0
  BY <1>2
<1> HIDE DEF n
<1>4. Places(r) = Places(q) \ {<<p, n>>}
  <2>1. ASSUME NEW x, x \in Places(r) PROVE x \in Places(q) \ {<<p, n>>}
    <3>0. PICK o \in Prios : \E k \in DOMAIN r[o] : x = <<o, k>>
      BY <2>1, PlacesAre
    <3>1. PICK k \in DOMAIN r[o] : x = <<o, k>>
      BY <3>0
    <3>2. k \in DOMAIN q[o] /\ (o = p => k # n)
      <4>1. CASE o = p
        <5>1. k \in 1 .. n - 1
          BY <1>3, <3>1, <4>1
        <5> QED
          BY <1>3, <4>1, <5>1
      <4>2. CASE o # p
        BY <3>1, <4>2
      <4> QED
        BY <4>1, <4>2
    <3> QED
      BY <3>1, <3>2, PlacesAre
  <2>2. ASSUME NEW x, x \in Places(q), x # <<p, n>> PROVE x \in Places(r)
    <3>0. PICK o \in Prios : \E k \in DOMAIN q[o] : x = <<o, k>>
      BY <2>2, PlacesAre
    <3>1. PICK k \in DOMAIN q[o] : x = <<o, k>>
      BY <3>0
    <3>2. k \in DOMAIN r[o]
      <4>1. CASE o = p
        <5>1. k \in 1 .. n /\ k # n
          BY <1>3, <2>2, <3>1, <4>1
        <5>2. k \in 1 .. n - 1
          BY <1>3, <5>1
        <5> QED
          BY <1>3, <4>1, <5>2
      <4>2. CASE o # p
        BY <3>1, <4>2
      <4> QED
        BY <4>1, <4>2
    <3> QED
      BY <3>1, <3>2, PlacesAre
  <2> QED
    BY <2>1, <2>2
<1>5. <<p, n>> \in Places(q)
  BY <1>3, PlacesAre
<1>6. /\ IsFiniteSet(Places(q) \ {<<p, n>>})
      /\ Cardinality(Places(q) \ {<<p, n>>}) = Cardinality(Places(q)) - 1
  BY <1>5, FS_RemoveElement
<1>7. Cardinality(Places(r)) \in Nat
  BY <1>4, <1>6, FS_CardinalityType
<1> QED
  BY <1>4, <1>6, <1>7 DEF Count, Places

\* Empty lists hold nothing, and only they do.
LEMMA CountNothing ==
    /\ Nothing \in Lists /\ IsFiniteSet(Places(Nothing)) /\ Count(Nothing) = 0
    /\ \A q \in Lists : IsFiniteSet(Places(q)) /\ (\A p \in Prios : q[p] = <<>>) => Count(q) = 0
    /\ \A q \in Lists : IsFiniteSet(Places(q)) /\ Count(q) = 0 => \A p \in Prios : q[p] = <<>>
<1>1. Nothing \in Lists /\ \A p \in Prios : Nothing[p] = <<>>
  BY DEF Nothing, Lists
<1>2. ASSUME NEW q \in Lists, \A p \in Prios : q[p] = <<>> PROVE Places(q) = {}
  <2>1. \A p \in Prios : DOMAIN q[p] = {}
    BY <1>2
  <2> QED
    BY <2>1, PlacesAre
<1>3. ASSUME NEW q \in Lists, IsFiniteSet(Places(q)), Count(q) = 0, NEW p \in Prios
      PROVE  q[p] = <<>>
  <2>1. Places(q) = {}
    BY <1>3, FS_EmptySet DEF Count, Places
  <2>2. DOMAIN q[p] = {}
    BY <2>1, PlacesAre
  <2>3. q[p] \in Seq(Nat)
    BY DEF Lists
  <2>4. DOMAIN q[p] = 1 .. Len(q[p]) /\ Len(q[p]) \in Nat
    BY <2>3
  <2>5. 1 \notin 1 .. Len(q[p])
    BY <2>2, <2>4
  <2>6. Len(q[p]) = 0
    BY <2>4, <2>5
  <2> QED
    BY <2>3, <2>6
<1> QED
  BY <1>1, <1>2, <1>3, FS_EmptySet DEF Count, Places

\* The search of aicwf_frame_dequeue() ends at the highest priority that has frames.
LEMMA HighestFacts ==
    ASSUME hi_prio \in Prios, NumPrio \in Nat,
           \E p \in 0 .. hi_prio : queuelist[p] # <<>>
    PROVE  /\ Highest \in 0 .. hi_prio /\ queuelist[Highest] # <<>>
           /\ \A p \in 0 .. hi_prio : p > Highest => queuelist[p] = <<>>
<1> DEFINE S == {p \in 0 .. hi_prio : queuelist[p] # <<>>}
           T == {n \in Nat : \E p \in S : n = hi_prio - p}
           R == OpToRel(<, Nat)
<1>0. hi_prio \in Nat
  BY DEF Prios
<1>1. T \subseteq Nat /\ T # {}
  <2>1. PICK p \in 0 .. hi_prio : queuelist[p] # <<>>
    OBVIOUS
  <2>2. hi_prio - p \in Nat
    BY <1>0
  <2> QED
    BY <2>1, <2>2
<1>2. PICK m \in T : \A y \in T : ~(<<y, m>> \in R)
  <2>1. IsWellFoundedOn(R, Nat)
    BY NatLessThanWellFounded
  <2> HIDE DEF T, R
  <2> QED
    BY <1>1, <2>1, WFMin
<1>3. \A y \in T : y >= m
  <2> SUFFICES ASSUME NEW y \in T, ~(y >= m) PROVE FALSE
    OBVIOUS
  <2>1. y \in Nat /\ m \in Nat /\ y < m
    BY <1>1
  <2>2. <<y, m>> \in R
    BY <2>1 DEF OpToRel
  <2> QED
    BY <1>2, <2>2
<1>4. PICK h \in S : m = hi_prio - h
  OBVIOUS
<1>5. \A p \in S : h >= p
  <2> TAKE p \in S
  <2>1. hi_prio - p \in T
    BY <1>0
  <2>2. hi_prio - p >= hi_prio - h
    BY <1>3, <1>4, <2>1
  <2> QED
    BY <1>0, <2>2
<1>6. h \in {0} \cup S /\ \A p \in {0} \cup S : h >= p
  BY <1>0, <1>5
<1>7. Highest \in {0} \cup S /\ \A p \in {0} \cup S : Highest >= p
  BY <1>6 DEF Highest, Max
<1>8. Highest = h
  <2>1. Highest >= h /\ h >= Highest /\ Highest \in Nat /\ h \in Nat
    BY <1>0, <1>6, <1>7
  <2> QED
    BY <2>1
<1> QED
  BY <1>0, <1>5, <1>8

-----------------------------------------------------------------------------
(* The inductive invariant. *)

\* The counters cannot go below zero: the lists are finite, and tx_pktcnt, which
\* aicwf_frame_queue_flush() forgets, is never behind qcnt.
Counted ==
    /\ IsFiniteSet(Places(queuelist)) /\ IsFiniteSet(Places(aggr))
    /\ tx_pktcnt >= qcnt

\* Between the look at the queue and aicwf_frame_dequeue() no frame disappears.
HasFrame == pc = "send" => ~QueueEmpty

\* What has been aggregated is within what flow control allowed, except that the frame
\* just taken may fill the buffer; a pass begins, and asks for buffers, with an empty
\* buffer, because a pass ends with a full one only if the bus is down.
PassFits ==
    /\ avail <= AggrCounter
    /\ aggr_count > 0 => aggr_count < avail - Thresh + (IF pc = "check" THEN 1 ELSE 0)
    /\ pc \in {"cmd", "data", "flow"} => aggr_count = 0
    /\ bus = "UP" /\ pc = "idle" => aggr_count = 0
    /\ bus = "UP" /\ pc = "loop" /\ aggr_count > 0 => ~QueueEmpty

\* In a pass that has asked, the firmware has at least the buffers it reported.
BuffersLeft ==
    /\ pc \in {"cmd", "data"} => ~fresh
    /\ fresh /\ avail > Thresh => fwfree >= avail

\* No list is longer than the number of frames posted.
Bounded == \A p \in Prios : Len(aggr[p]) + Len(queuelist[p]) <= posted

TInv ==
    /\ TypeOK /\ QueueIntact /\ AggrFits
    /\ Counted /\ HasFrame /\ PassFits /\ BuffersLeft /\ Bounded

\* TypeOK in two parts: the flags, and everything else.
Flags ==
    cmd_txstate \in BOOLEAN /\ txnow \in BOOLEAN /\ fresh \in BOOLEAN /\ failed \in BOOLEAN

Rest ==
    /\ bus \in {"UP", "DOWN"}
    /\ queuelist \in Lists /\ qcnt \in Nat /\ hi_prio \in Prios /\ tx_pktcnt \in Nat
    /\ posting \in Nat /\ trgg \in Nat
    /\ pc \in {"idle", "cmd", "data", "flow", "loop", "send", "check"}
    /\ avail \in Int /\ aggr \in Lists /\ aggr_count \in Nat
    /\ fwfree \in Nat /\ fwfree <= Buffers /\ last \in [Prios -> Nat]
    /\ posted \in Nat /\ cmds \in Nat

\* The two parts are the type invariant.
LEMMA TypeParts == (TypeOK <=> Flags /\ Rest) /\ (TypeOK' <=> Flags' /\ Rest')
<1>1. \A n : n \in 0 .. Buffers <=> n \in Nat /\ n <= Buffers
  BY SdioTxqAssumption
<1>2. TypeOK <=> Flags /\ Rest
  BY <1>1, Zenon DEF TypeOK, Flags, Rest, Lists
<1>3. TypeOK' <=> Flags' /\ Rest'
  BY <1>1, Zenon DEF TypeOK, Flags, Rest, Lists
<1> QED
  BY <1>2, <1>3

\* The steps that leave the frames where they are.
LEMMA FramesStay ==
    ASSUME TInv, UNCHANGED <<queueVars, aggr, aggr_count, posted>>,
           bus' = "UP" => bus = "UP"
    PROVE  /\ QueueIntact' /\ Counted' /\ Bounded'
           /\ aggr_count' = Count(aggr)' /\ aggr_count' <= AggrCounter - Thresh
           /\ QueueEmpty' = QueueEmpty
<1> USE DEF queueVars
<1>1. QueueIntact'
  BY DEF TInv, QueueIntact, Count
<1>2. Counted' /\ Bounded'
  BY DEF TInv, Counted, Places, Bounded
<1>3. aggr_count' = Count(aggr)' /\ aggr_count' <= AggrCounter - Thresh
  BY DEF TInv, AggrFits, Count
<1>4. QueueEmpty' = QueueEmpty
  BY DEF QueueEmpty
<1> QED
  BY <1>1, <1>2, <1>3, <1>4

\* What posts a message or a trigger, frees a buffer or takes the bus down does not
\* disturb the transmit thread.
LEMMA OutsideStep ==
    ASSUME TInv, PostCmd \/ PostTrigger \/ FwFree \/ StopDown
    PROVE  TInv'
<1>1. /\ UNCHANGED <<queueVars, aggr, aggr_count, posted, pc, avail, fresh>>
      /\ bus' = "UP" => bus = "UP"
      /\ fwfree' >= fwfree
  BY DEF PostCmd, PostTrigger, FwFree, StopDown, aggrVars, postVars, TInv, TypeOK
<1>2. TypeOK'
  <2>0. Flags /\ Rest /\ Buffers \in Nat
    BY TypeParts, SdioTxqAssumption DEF TInv
  <2>1. CASE PostCmd
    <3>1. Flags'
      BY <2>0, <2>1, Zenon DEF PostCmd, Flags, aggrVars
    <3>2. Rest'
      BY <2>0, <2>1 DEF PostCmd, Rest, queueVars, aggrVars
    <3> QED
      BY <3>1, <3>2, TypeParts
  <2>2. CASE PostTrigger
    <3>1. Flags'
      BY <2>0, <2>2, Zenon DEF PostTrigger, Flags, aggrVars
    <3>2. Rest'
      BY <2>0, <2>2 DEF PostTrigger, Rest, queueVars, aggrVars
    <3> QED
      BY <3>1, <3>2, TypeParts
  <2>3. CASE FwFree
    <3>1. Flags'
      BY <2>0, <2>3, Zenon DEF FwFree, Flags, postVars
    <3>2. Rest'
      BY <2>0, <2>3 DEF FwFree, Rest, queueVars, postVars
    <3> QED
      BY <3>1, <3>2, TypeParts
  <2>4. CASE StopDown
    <3>1. Flags'
      BY <2>0, <2>4, Zenon DEF StopDown, Flags, aggrVars, postVars
    <3>2. Rest'
      BY <2>0, <2>4 DEF StopDown, Rest, queueVars, aggrVars, postVars
    <3> QED
      BY <3>1, <3>2, TypeParts
  <2> QED
    BY <2>1, <2>2, <2>3, <2>4
<1>3. /\ QueueIntact' /\ Counted' /\ Bounded'
      /\ aggr_count' = Count(aggr)' /\ aggr_count' <= AggrCounter - Thresh
      /\ QueueEmpty' = QueueEmpty
  BY <1>1, FramesStay
<1>4. AggrFits'
  BY <1>1, <1>3 DEF TInv, AggrFits
<1>5. HasFrame' /\ PassFits'
  BY <1>1, <1>3 DEF TInv, HasFrame, PassFits
<1>6. BuffersLeft'
  <2>1. /\ fwfree \in Int /\ fwfree' \in Int /\ avail \in Int /\ Thresh \in Int
        /\ avail > Thresh => (fresh => fwfree >= avail)
    BY <1>2, SdioTxqAssumption DEF TInv, TypeOK, BuffersLeft
  <2>2. avail > Thresh => (fresh => fwfree' >= avail)
    BY <1>1, <2>1
  <2> QED
    BY <1>1, <2>2 DEF TInv, BuffersLeft
<1> QED
  BY <1>2, <1>3, <1>4, <1>5, <1>6 DEF TInv

\* A pass begins while the bus is up: the aggregation buffer is empty.
LEMMA WakeStep == ASSUME TInv, Wake PROVE TInv'
<1>1. /\ UNCHANGED <<queueVars, aggr, aggr_count, posted, avail, fwfree, bus>>
      /\ pc = "idle" /\ ~fresh' /\ (pc' = "idle" \/ (pc' = "cmd" /\ bus = "UP"))
  BY DEF Wake, Goto, aggrVars, postVars
<1>2. TypeOK'
  <2>0. Flags /\ Rest
    BY TypeParts DEF TInv
  <2>1. Flags'
    BY <2>0, Zenon DEF Wake, Flags, aggrVars, postVars
  <2>2. Rest'
    BY <2>0, <1>1 DEF Wake, Rest, queueVars, aggrVars, postVars
  <2> QED
    BY <2>1, <2>2, TypeParts
<1>3. /\ QueueIntact' /\ Counted' /\ Bounded'
      /\ aggr_count' = Count(aggr)' /\ aggr_count' <= AggrCounter - Thresh
      /\ QueueEmpty' = QueueEmpty
  BY <1>1, FramesStay
<1>4. AggrFits' /\ HasFrame' /\ BuffersLeft'
  BY <1>1, <1>3 DEF AggrFits, HasFrame, BuffersLeft
<1>5. PassFits'
  BY <1>1, <1>3 DEF TInv, PassFits
<1> QED
  BY <1>2, <1>3, <1>4, <1>5 DEF TInv

\* The message and the look at the queue come before flow control is asked.
LEMMA TxMsgStep == ASSUME TInv, TxMsg \/ TxData PROVE TInv'
<1>1. /\ UNCHANGED <<queueVars, aggr, aggr_count, posted, avail, fresh, bus>>
      /\ \/ pc = "cmd" /\ pc' = "data"
         \/ pc = "data" /\ pc' \in {"loop", "flow"}
  BY DEF TxMsg, TxData, Goto, aggrVars, postVars
<1>2. TypeOK'
  <2>1. CASE TxMsg
    <3>0. Flags /\ Rest
      BY TypeParts DEF TInv
    <3>1. Flags'
      BY <2>1, <3>0, Zenon DEF TxMsg, Flags
    <3>2. fwfree' \in Nat /\ fwfree' <= Buffers
      <4>1. fwfree' = fwfree \/ (fwfree > 0 /\ fwfree' = fwfree - 1)
        BY <2>1, Zenon DEF TxMsg
      <4> QED
        BY <3>0, <4>1, SdioTxqAssumption DEF Rest
    <3>3. Rest'
      BY <1>1, <2>1, <3>0, <3>2 DEF TxMsg, Rest, queueVars
    <3> QED
      BY <3>1, <3>3, TypeParts
  <2>2. CASE TxData
    BY <2>2 DEF TxData, Goto, queueVars, aggrVars, postVars, TInv, TypeOK
  <2> QED
    BY <2>1, <2>2
<1>3. /\ QueueIntact' /\ Counted' /\ Bounded'
      /\ aggr_count' = Count(aggr)' /\ aggr_count' <= AggrCounter - Thresh
      /\ QueueEmpty' = QueueEmpty
  BY <1>1, FramesStay
<1>4. AggrFits' /\ HasFrame'
  BY <1>1, <1>3 DEF AggrFits, HasFrame
<1>5. PassFits' /\ BuffersLeft'
  BY <1>1, <1>3 DEF TInv, PassFits, BuffersLeft
<1> QED
  BY <1>2, <1>3, <1>4, <1>5 DEF TInv

\* Flow control is asked with an empty aggregation buffer, and its answer is capped.
LEMMA FlowStep == ASSUME TInv, Flow PROVE TInv'
<1>1. /\ UNCHANGED <<queueVars, aggr, aggr_count, posted, fwfree, bus>>
      /\ pc = "flow" /\ pc' = "loop"
  BY DEF Flow, Goto, postVars
<1>2. /\ avail' \in Int /\ avail' <= AggrCounter /\ failed' \in BOOLEAN
      /\ avail' > Thresh => fwfree >= avail'
  <2>1. failed' \in BOOLEAN
    BY Zenon DEF Flow, FlowCtrl, TInv, TypeOK
  <2>2. \/ fwfree > Thresh /\ avail' = IF fwfree > AggrCounter THEN AggrCounter ELSE fwfree
        \/ avail' = -fwfree
        \/ avail' = -1
    BY Zenon DEF Flow, FlowCtrl
  <2>3. fwfree \in Nat /\ AggrCounter \in Nat /\ Thresh \in Nat
    BY TypeParts, SdioTxqAssumption DEF TInv, Rest
  <2> QED
    BY <2>1, <2>2, <2>3
<1>3. TypeOK'
  BY <1>2 DEF Flow, Goto, queueVars, postVars, TInv, TypeOK
<1>4. /\ QueueIntact' /\ Counted' /\ Bounded'
      /\ aggr_count' = Count(aggr)' /\ aggr_count' <= AggrCounter - Thresh
      /\ QueueEmpty' = QueueEmpty
  BY <1>1, FramesStay
<1>5. AggrFits' /\ HasFrame'
  BY <1>1, <1>4 DEF AggrFits, HasFrame
<1>6. PassFits'
  BY <1>1, <1>2 DEF TInv, PassFits
<1>7. BuffersLeft'
  BY <1>1, <1>2 DEF BuffersLeft
<1> QED
  BY <1>3, <1>4, <1>5, <1>6, <1>7 DEF TInv

\* The head of the loop: to send there is a frame and room for it; to ask for buffers, or to
\* leave, nothing may be waiting in the aggregation buffer while the bus is up.
LEMMA LoopStep == ASSUME TInv, LoopSend \/ LoopFlow \/ LoopLeave PROVE TInv'
<1>1. /\ UNCHANGED <<queueVars, aggr, aggr_count, posted, fwfree, bus, avail, fresh>>
      /\ pc = "loop"
      /\ \/ pc' = "send" /\ ~QueueEmpty /\ avail > Thresh
         \/ pc' = "flow" /\ avail <= Thresh
         \/ pc' = "idle" /\ (QueueEmpty \/ bus = "DOWN" \/ avail <= Thresh)
  BY DEF LoopSend, LoopFlow, LoopLeave, Goto, aggrVars, postVars
<1>2. TypeOK'
  BY DEF LoopSend, LoopFlow, LoopLeave, Goto, queueVars, aggrVars, postVars, TInv, TypeOK
<1>3. /\ QueueIntact' /\ Counted' /\ Bounded'
      /\ aggr_count' = Count(aggr)' /\ aggr_count' <= AggrCounter - Thresh
      /\ QueueEmpty' = QueueEmpty
  BY <1>1, FramesStay
<1>4. avail \in Int /\ aggr_count \in Nat /\ Thresh \in Nat /\ (bus = "DOWN" <=> bus # "UP")
  BY SdioTxqAssumption DEF TInv, TypeOK
<1>5. aggr_count = 0 \/ aggr_count < avail - Thresh
  BY <1>1, <1>4 DEF TInv, PassFits
<1>6. AggrFits' /\ HasFrame'
  BY <1>1, <1>3, <1>4, <1>5 DEF AggrFits, HasFrame
<1>7. PassFits'
  BY <1>1, <1>3, <1>4, <1>5 DEF TInv, PassFits
<1>8. BuffersLeft'
  BY <1>1 DEF TInv, BuffersLeft
<1> QED
  BY <1>2, <1>3, <1>6, <1>7, <1>8 DEF TInv

\* aicwf_sdio_aggr_send() empties the buffer whatever becomes of the transfer.
LEMMA CheckStep == ASSUME TInv, Check PROVE TInv'
<1>1. /\ UNCHANGED <<queueVars, posted, fresh, bus, txnow, trgg, cmd_txstate, posting, cmds>>
      /\ pc = "check" /\ pc' = IF txnow THEN "idle" ELSE "loop"
  BY DEF Check, Goto, AfterSend, postVars
<1>2. /\ avail \in Int /\ aggr_count \in Nat /\ Thresh \in Nat /\ fwfree \in Nat
      /\ Buffers \in Nat /\ fwfree <= Buffers /\ AggrCounter \in Nat /\ AggrCounter > Thresh
      /\ avail <= AggrCounter
  BY SdioTxqAssumption DEF TInv, TypeOK, PassFits
<1>3. CASE AggrSend
  <2>1. /\ aggr' = Nothing /\ aggr_count' = 0 /\ avail' = avail - aggr_count
        /\ \/ fwfree' = fwfree
           \/ fwfree' = IF aggr_count < fwfree THEN fwfree - aggr_count ELSE 0
        /\ failed' \in BOOLEAN
    BY <1>3 DEF AggrSend, TakeBuffers, TInv, TypeOK
  <2>2. last' \in [Prios -> Nat]
    <3>1. Delivered \in [Prios -> Nat]
      <4> SUFFICES ASSUME NEW p \in Prios, aggr[p] # <<>> PROVE aggr[p][Len(aggr[p])] \in Nat
        BY DEF Delivered, TInv, TypeOK
      <4>1. aggr[p] \in Seq(Nat)
        BY DEF TInv, TypeOK
      <4> QED
        BY <4>1
    <3> QED
      BY <1>3, <3>1 DEF AggrSend, TInv, TypeOK
  <2>3. Nothing \in Lists /\ IsFiniteSet(Places(Nothing)) /\ Count(Nothing) = 0
    BY CountNothing
  <2>4. TypeOK'
    <3>1. fwfree' \in 0 .. Buffers /\ avail' \in Int
      BY <1>2, <2>1
    <3> QED
      BY <1>1, <2>1, <2>2, <2>3, <3>1 DEF TInv, TypeOK, queueVars, Lists
  <2>5. QueueIntact' /\ HasFrame'
    BY <1>1 DEF TInv, QueueIntact, Count, HasFrame, queueVars
  <2>6. Counted' /\ AggrFits'
    BY <1>1, <1>2, <2>1, <2>3 DEF TInv, Counted, AggrFits, Places, Count, queueVars
  <2>7. PassFits'
    BY <1>1, <1>2, <2>1 DEF PassFits
  <2>8. BuffersLeft'
    <3>1. aggr_count > 0 => aggr_count <= avail - Thresh
      BY <1>1, <1>2 DEF TInv, PassFits
    <3>2. fresh /\ avail > Thresh => fwfree >= avail
      BY DEF TInv, BuffersLeft
    <3> QED
      BY <1>1, <1>2, <2>1, <3>1, <3>2 DEF BuffersLeft
  <2>9. Bounded'
    <3>1. \A p \in Prios : /\ Len(Nothing[p]) = 0 /\ Len(aggr[p]) \in Nat
                           /\ Len(queuelist[p]) \in Nat
      BY DEF Nothing, TInv, TypeOK
    <3>2. \A p \in Prios : Len(aggr[p]) + Len(queuelist[p]) <= posted
      BY DEF TInv, Bounded
    <3>3. posted \in Nat
      BY DEF TInv, TypeOK
    <3>4. \A p \in Prios : Len(Nothing[p]) + Len(queuelist[p]) <= posted
      <4> TAKE p \in Prios
      <4>1. Len(Nothing[p]) = 0 /\ Len(aggr[p]) \in Nat /\ Len(queuelist[p]) \in Nat
        BY <3>1
      <4>2. Len(aggr[p]) + Len(queuelist[p]) <= posted
        BY <3>2
      <4>3. \A a, b, c, n \in Nat : a = 0 /\ b + c <= n => a + c <= n
        OBVIOUS
      <4>4. Len(Nothing[p]) \in Nat
        BY <4>1
      <4> QED
        BY <3>3, <4>1, <4>2, <4>3, <4>4, Zenon
    <3> QED
      BY <1>1, <2>1, <3>4 DEF Bounded, queueVars
  <2> QED
    BY <2>4, <2>5, <2>6, <2>7, <2>8, <2>9 DEF TInv
<1>4. CASE UNCHANGED aggrVars /\ tx_pktcnt # 0 /\ ~txnow /\ ~Full
  <2>1. UNCHANGED <<avail, aggr, aggr_count, fwfree, last, failed>>
    BY <1>4 DEF aggrVars
  <2>2. /\ QueueIntact' /\ Counted' /\ Bounded'
        /\ aggr_count' = Count(aggr)' /\ aggr_count' <= AggrCounter - Thresh
        /\ QueueEmpty' = QueueEmpty
    BY <1>1, <2>1, FramesStay
  <2>3. TypeOK'
    BY <1>1, <2>1 DEF TInv, TypeOK, queueVars
  <2>4. AggrFits' /\ HasFrame' /\ BuffersLeft'
    BY <1>1, <2>1, <2>2 DEF TInv, AggrFits, HasFrame, BuffersLeft
  <2>5. bus = "UP" => ~QueueEmpty
    <3> SUFFICES ASSUME bus = "UP", QueueEmpty PROVE FALSE
      OBVIOUS
    <3>1. Count(queuelist) # 0
      BY <1>4 DEF TInv, QueueIntact
    <3>2. queuelist \in Lists /\ IsFiniteSet(Places(queuelist))
      BY DEF TInv, TypeOK, Lists, Counted
    <3>3. PICK p \in Prios : queuelist[p] # <<>>
      BY <3>1, <3>2, CountNothing
    <3>4. p \in 0 .. hi_prio
      BY <3>3, SdioTxqAssumption DEF TInv, TypeOK, QueueIntact, Prios
    <3> QED
      BY <3>3, <3>4 DEF QueueEmpty
  <2>6. aggr_count > 0 => aggr_count < avail - Thresh
    BY <1>1, <1>2, <1>4 DEF TInv, PassFits, Full
  <2>7. PassFits'
    BY <1>1, <1>2, <1>4, <2>1, <2>2, <2>5, <2>6 DEF PassFits
  <2> QED
    BY <2>2, <2>3, <2>4, <2>7 DEF TInv
<1> QED
  BY <1>3, <1>4 DEF Check

\* A queue that is not empty stays so if no list becomes empty.
LEMMA StillFrames ==
    ASSUME hi_prio \in Prios, hi_prio' \in Prios, hi_prio' >= hi_prio, NumPrio \in Nat,
           \A p \in Prios : queuelist[p] # <<>> => queuelist'[p] # <<>>, ~QueueEmpty
    PROVE  ~QueueEmpty'
<1>1. PICK p \in 0 .. hi_prio : queuelist[p] # <<>>
  BY DEF QueueEmpty
<1>2. p \in Prios /\ p \in 0 .. hi_prio'
  BY <1>1 DEF Prios
<1> QED
  BY <1>1, <1>2 DEF QueueEmpty

\* A frame is counted by both counters and hi_prio rises to it; a full queue drops it.
LEMMA PostStep == ASSUME TInv, NEW p \in Prios, Post(p) PROVE TInv'
<1> USE DEF postVars
<1>0. Flags /\ Rest
  BY TypeParts DEF TInv
<1>1. /\ UNCHANGED <<bus, trgg, pc, txnow, fresh, avail, aggr, aggr_count, fwfree, last, failed>>
      /\ UNCHANGED <<cmd_txstate, cmds>>
      /\ posted' = posted + 1 /\ bus = "UP"
  BY DEF Post, aggrVars
<1>2. Flags'
  BY <1>0, <1>1, Zenon DEF Flags
<1>3. aggr_count = Count(aggr) /\ aggr_count <= AggrCounter - Thresh /\ AggrFits'
  BY <1>1 DEF TInv, AggrFits, Count
<1>4. BuffersLeft'
  BY <1>1 DEF TInv, BuffersLeft
<1>5. CASE ~Room(p)
  <2>1. UNCHANGED <<queuelist, qcnt, hi_prio, tx_pktcnt, posting>>
    BY <1>5 DEF Post, queueVars
  <2>2. QueueEmpty' = QueueEmpty
    BY <2>1 DEF QueueEmpty
  <2>3. Rest'
    BY <1>0, <1>1, <2>1 DEF Rest
  <2>4. QueueIntact' /\ Counted'
    BY <1>1, <2>1 DEF TInv, QueueIntact, Counted, Count, Places
  <2>5. HasFrame' /\ PassFits'
    BY <1>1, <2>1, <2>2 DEF TInv, HasFrame, PassFits
  <2>6. Bounded'
    <3> SUFFICES ASSUME NEW o \in Prios PROVE Len(aggr[o]) + Len(queuelist[o]) <= posted + 1
      BY <1>1, <2>1 DEF Bounded
    <3>1. /\ Len(aggr[o]) \in Nat /\ Len(queuelist[o]) \in Nat /\ posted \in Nat
          /\ Len(aggr[o]) + Len(queuelist[o]) <= posted
      BY <1>0 DEF Rest, Lists, TInv, Bounded
    <3>2. \A a, b, n \in Nat : a + b <= n => a + b <= n + 1
      OBVIOUS
    <3> QED
      BY <3>1, <3>2, Zenon
  <2> QED
    BY <1>2, <1>3, <1>4, <2>3, <2>4, <2>5, <2>6, TypeParts DEF TInv
<1>6. CASE Room(p)
  <2>1. /\ queuelist' = [queuelist EXCEPT ![p] = Append(@, posted + 1)]
        /\ qcnt' = qcnt + 1 /\ hi_prio' = IF hi_prio < p THEN p ELSE hi_prio
        /\ tx_pktcnt' = tx_pktcnt + 1 /\ posting' = posting + 1
    BY <1>1, <1>6 DEF Post, Penq
  <2>2. /\ queuelist \in Lists /\ queuelist' \in Lists
        /\ queuelist'[p] = Append(queuelist[p], posted + 1)
        /\ \A o \in Prios \ {p} : queuelist'[o] = queuelist[o]
        /\ posted + 1 \in Nat
    BY <1>0, <2>1 DEF Rest, Lists
  <2>3. IsFiniteSet(Places(queuelist)') /\ Count(queuelist)' = Count(queuelist) + 1
    <3>1. IsFiniteSet(Places(queuelist))
      BY DEF TInv, Counted
    <3>2. IsFiniteSet(Places(queuelist')) /\ Count(queuelist') = Count(queuelist) + 1
      BY <2>2, <3>1, CountAppend
    <3> QED
      BY <3>2 DEF Places, Count
  <2>4. hi_prio' \in Prios /\ hi_prio' >= hi_prio /\ hi_prio' >= p /\ NumPrio \in Nat
    BY <1>0, <2>1, SdioTxqAssumption DEF Rest, Prios
  <2>5. Rest'
    BY <1>0, <1>1, <2>1, <2>2, <2>4 DEF Rest
  <2>6. QueueIntact'
    <3>1. qcnt' = Count(queuelist)' /\ (bus' = "UP" => tx_pktcnt' = qcnt')
      BY <1>1, <2>1, <2>3 DEF TInv, QueueIntact
    <3>2. qcnt' <= QMax
      BY <1>0, <1>6, <2>1, SdioTxqAssumption DEF Room, Rest
    <3>3. ASSUME NEW o \in Prios, o > hi_prio' PROVE queuelist'[o] = <<>>
      <4>1. o # p /\ o > hi_prio
        BY <1>0, <2>4, <3>3 DEF Prios, Rest
      <4> QED
        BY <2>2, <4>1 DEF TInv, QueueIntact
    <3> QED
      BY <3>1, <3>2, <3>3 DEF QueueIntact
  <2>7. Counted'
    <3>1. tx_pktcnt' >= qcnt' /\ tx_pktcnt >= qcnt
      BY <1>0, <2>1 DEF TInv, Counted, Rest
    <3>2. IsFiniteSet(Places(aggr)')
      BY <1>1 DEF TInv, Counted, Places
    <3> QED
      BY <2>3, <3>1, <3>2 DEF Counted
  <2>8. ~QueueEmpty => ~QueueEmpty'
    <3>1. ASSUME NEW o \in Prios, queuelist[o] # <<>> PROVE queuelist'[o] # <<>>
      <4>1. CASE o = p
        <5>1. queuelist[p] \in Seq(Nat)
          BY <2>2 DEF Lists
        <5>2. Append(queuelist[p], posted + 1) # <<>>
          BY <2>2, <5>1
        <5> QED
          BY <2>2, <4>1, <5>2
      <4> QED
        BY <2>2, <3>1, <4>1
    <3>2. hi_prio \in Prios
      BY <1>0 DEF Rest
    <3> QED
      BY <2>4, <3>1, <3>2, StillFrames
  <2>9. HasFrame' /\ PassFits'
    BY <1>1, <2>8 DEF TInv, HasFrame, PassFits
  <2>10. Bounded'
    <3> SUFFICES ASSUME NEW o \in Prios PROVE Len(aggr[o]) + Len(queuelist'[o]) <= posted + 1
      BY <1>1 DEF Bounded
    <3>1. /\ Len(aggr[o]) \in Nat /\ Len(queuelist[o]) \in Nat /\ posted \in Nat
          /\ Len(aggr[o]) + Len(queuelist[o]) <= posted
      BY <1>0 DEF Rest, Lists, TInv, Bounded
    <3>2. Len(queuelist'[o]) = Len(queuelist[o]) \/ Len(queuelist'[o]) = Len(queuelist[o]) + 1
      <4>1. CASE o = p
        <5>1. queuelist[p] \in Seq(Nat)
          BY <2>2 DEF Lists
        <5>2. Len(Append(queuelist[p], posted + 1)) = Len(queuelist[p]) + 1
          BY <2>2, <5>1
        <5> QED
          BY <2>2, <4>1, <5>2
      <4> QED
        BY <2>2, <4>1
    <3>3. \A a, b, n \in Nat : a + b <= n => a + b <= n + 1 /\ a + (b + 1) <= n + 1
      OBVIOUS
    <3> QED
      BY <3>1, <3>2, <3>3, Zenon
  <2> QED
    BY <1>2, <1>3, <1>4, <2>5, <2>6, <2>7, <2>9, <2>10, TypeParts DEF TInv
<1> QED
  BY <1>5, <1>6

\* aicwf_sdio_send() never finds the buffer full, and moves the first frame of the highest
\* priority from the queue to the buffer.
LEMMA SendMoves ==
    ASSUME TInv, Send
    PROVE  /\ pc = "send" /\ pc' = "check" /\ Highest \in Prios /\ Highest <= hi_prio
           /\ queuelist[Highest] \in Seq(Nat) /\ queuelist[Highest] # <<>>
           /\ \A p \in Prios : p > Highest => queuelist[p] = <<>>
           /\ queuelist' = [queuelist EXCEPT ![Highest] = Tail(@)]
           /\ aggr' = [aggr EXCEPT ![Highest] = Append(@, Head(queuelist[Highest]))]
           /\ aggr_count' = aggr_count + 1 /\ hi_prio' = Highest
           /\ qcnt' = qcnt - 1 /\ tx_pktcnt' = tx_pktcnt - 1
           /\ UNCHANGED <<avail, fwfree, last, failed, bus, trgg, txnow, fresh>>
           /\ UNCHANGED <<cmd_txstate, posting, posted, cmds>>
<1>1. Rest /\ NumPrio \in Nat /\ Thresh \in Nat
  BY TypeParts, SdioTxqAssumption DEF TInv
<1>2. pc = "send"
  BY DEF Send
<1>3. ~Full
  BY <1>1, <1>2 DEF TInv, AggrFits, Full, Rest
<1>4. \E p \in 0 .. hi_prio : queuelist[p] # <<>>
  BY <1>2 DEF TInv, HasFrame, QueueEmpty
<1>5. /\ Highest \in 0 .. hi_prio /\ queuelist[Highest] # <<>>
      /\ \A p \in 0 .. hi_prio : p > Highest => queuelist[p] = <<>>
  BY <1>1, <1>4, HighestFacts DEF Rest
<1>6. Highest \in Prios /\ Highest <= hi_prio /\ queuelist[Highest] \in Seq(Nat)
  BY <1>1, <1>5 DEF Prios, Rest, Lists
<1>7. ASSUME NEW p \in Prios, p > Highest PROVE queuelist[p] = <<>>
  <2>1. CASE p > hi_prio
    BY <2>1 DEF TInv, QueueIntact
  <2>2. CASE p <= hi_prio
    BY <1>1, <1>5, <1>7, <2>2 DEF Prios, Rest
  <2> QED
    BY <1>1, <2>1, <2>2 DEF Prios, Rest
<1>8. /\ queuelist' = [queuelist EXCEPT ![Highest] = Tail(@)]
      /\ aggr' = [aggr EXCEPT ![Highest] = Append(@, Head(queuelist[Highest]))]
      /\ aggr_count' = aggr_count + 1 /\ hi_prio' = Highest /\ pc' = "check"
      /\ qcnt' = qcnt - 1 /\ tx_pktcnt' = tx_pktcnt - 1
      /\ UNCHANGED <<avail, fwfree, last, failed, bus, trgg, txnow, fresh>>
      /\ UNCHANGED <<cmd_txstate, posting, posted, cmds>>
  BY <1>3 DEF Send, Goto, postVars
<1> QED
  BY <1>2, <1>5, <1>6, <1>7, <1>8

\* The frame that aicwf_frame_dequeue() takes leaves both counters of the queue right.
LEMMA SendStep == ASSUME TInv, Send PROVE TInv'
<1> DEFINE h == Highest
           f == Head(queuelist[h])
<1>0. Flags /\ Rest
  BY TypeParts DEF TInv
<1>1. /\ pc = "send" /\ pc' = "check" /\ h \in Prios /\ h <= hi_prio
      /\ queuelist[h] \in Seq(Nat) /\ queuelist[h] # <<>>
      /\ \A p \in Prios : p > h => queuelist[p] = <<>>
      /\ queuelist' = [queuelist EXCEPT ![h] = Tail(@)]
      /\ aggr' = [aggr EXCEPT ![h] = Append(@, f)]
      /\ aggr_count' = aggr_count + 1 /\ hi_prio' = h
      /\ qcnt' = qcnt - 1 /\ tx_pktcnt' = tx_pktcnt - 1
      /\ UNCHANGED <<avail, fwfree, last, failed, bus, trgg, txnow, fresh>>
      /\ UNCHANGED <<cmd_txstate, posting, posted, cmds>>
  BY SendMoves
<1>2. f \in Nat /\ Tail(queuelist[h]) \in Seq(Nat)
  BY <1>1
<1> HIDE DEF h, f
<1>3. /\ queuelist \in Lists /\ queuelist' \in Lists /\ queuelist'[h] = Tail(queuelist[h])
      /\ \A o \in Prios \ {h} : queuelist'[o] = queuelist[o]
  BY <1>0, <1>1, <1>2 DEF Rest, Lists
<1>4. /\ aggr \in Lists /\ aggr' \in Lists /\ aggr'[h] = Append(aggr[h], f)
      /\ \A o \in Prios \ {h} : aggr'[o] = aggr[o]
  BY <1>0, <1>1, <1>2 DEF Rest, Lists
<1>5. /\ IsFiniteSet(Places(queuelist)') /\ Count(queuelist)' = Count(queuelist) - 1
      /\ Count(queuelist)' \in Nat
  <2>1. IsFiniteSet(Places(queuelist))
    BY DEF TInv, Counted
  <2>2. /\ IsFiniteSet(Places(queuelist')) /\ Count(queuelist') = Count(queuelist) - 1
        /\ Count(queuelist') \in Nat
    BY <1>1, <1>3, <2>1, CountTail
  <2> QED
    BY <2>2 DEF Places, Count
<1>6. IsFiniteSet(Places(aggr)') /\ Count(aggr)' = Count(aggr) + 1
  <2>1. IsFiniteSet(Places(aggr))
    BY DEF TInv, Counted
  <2>2. IsFiniteSet(Places(aggr')) /\ Count(aggr') = Count(aggr) + 1
    <3>1. h \in Prios /\ f \in Nat
      BY <1>1, <1>2
    <3> QED
      BY <1>4, <2>1, <3>1, CountAppend
  <2> QED
    BY <2>2 DEF Places, Count
<1>7. /\ qcnt' = Count(queuelist)' /\ qcnt' \in Nat /\ tx_pktcnt' \in Nat
      /\ tx_pktcnt' >= qcnt' /\ (bus' = "UP" => tx_pktcnt' = qcnt') /\ qcnt' <= QMax
  BY <1>0, <1>1, <1>5, SdioTxqAssumption DEF TInv, QueueIntact, Counted, Rest
<1>8. TypeOK'
  <2>1. Flags'
    BY <1>0, <1>1, Zenon DEF Flags
  <2>2. Rest'
    BY <1>0, <1>1, <1>3, <1>4, <1>7 DEF Rest
  <2> QED
    BY <2>1, <2>2, TypeParts
<1>9. QueueIntact' /\ Counted'
  <2>1. \A p \in Prios : p > h => queuelist'[p] = <<>>
    BY <1>1, <1>3 DEF Prios
  <2> QED
    BY <1>1, <1>5, <1>6, <1>7, <2>1 DEF QueueIntact, Counted
<1>10. /\ aggr_count < avail - Thresh /\ aggr_count = Count(aggr) /\ avail <= AggrCounter
       /\ aggr_count \in Nat /\ avail \in Int /\ Thresh \in Nat /\ AggrCounter \in Nat
  BY <1>0, <1>1, SdioTxqAssumption DEF TInv, AggrFits, PassFits, Rest
<1>11. AggrFits' /\ HasFrame'
  BY <1>1, <1>6, <1>10 DEF AggrFits, HasFrame
<1>12. PassFits'
  BY <1>1, <1>10 DEF PassFits
<1>13. BuffersLeft'
  BY <1>1 DEF TInv, BuffersLeft
<1>14. Bounded'
  <2> SUFFICES ASSUME NEW o \in Prios PROVE Len(aggr'[o]) + Len(queuelist'[o]) <= posted
    BY <1>1 DEF Bounded
  <2>1. Len(aggr[o]) + Len(queuelist[o]) <= posted
    BY DEF TInv, Bounded
  <2>2. CASE o = h
    <3>1. aggr[h] \in Seq(Nat)
      BY <1>1, <1>4 DEF Lists
    <3>2. /\ Len(Append(aggr[h], f)) = Len(aggr[h]) + 1 /\ Len(aggr[h]) \in Nat
          /\ Len(Tail(queuelist[h])) = Len(queuelist[h]) - 1 /\ Len(queuelist[h]) \in Nat
      BY <1>1, <1>2, <3>1
    <3>3. \A a, b, n \in Nat : a + b <= n => (a + 1) + (b - 1) <= n
      OBVIOUS
    <3>4. posted \in Nat
      BY <1>0 DEF Rest
    <3>5. (Len(aggr[h]) + 1) + (Len(queuelist[h]) - 1) <= posted
      BY <2>1, <2>2, <3>2, <3>3, <3>4, Zenon
    <3> QED
      BY <1>3, <1>4, <2>2, <3>2, <3>5, Zenon
  <2> QED
    BY <1>3, <1>4, <2>1, <2>2
<1> QED
  BY <1>8, <1>9, <1>11, <1>12, <1>13, <1>14 DEF TInv

\* aicwf_frame_queue_flush() empties the queue of a bus that is down.
LEMMA FlushStep == ASSUME TInv, StopFlush PROVE TInv'
<1>0. Flags /\ Rest
  BY TypeParts DEF TInv
<1>1. /\ bus = "DOWN" /\ pc \in {"idle", "cmd", "data"}
      /\ queuelist' = Nothing /\ qcnt' = 0
      /\ UNCHANGED <<bus, hi_prio, tx_pktcnt, trgg, pc, txnow, fresh, avail, aggr, aggr_count>>
      /\ UNCHANGED <<fwfree, last, failed, cmd_txstate, posting, posted, cmds>>
  BY DEF StopFlush, aggrVars, postVars
<1>2. Nothing \in Lists /\ IsFiniteSet(Places(Nothing)) /\ Count(Nothing) = 0
  BY CountNothing
<1>3. TypeOK'
  <2>1. Flags'
    BY <1>0, <1>1, Zenon DEF Flags
  <2>2. Rest'
    BY <1>0, <1>1, <1>2 DEF Rest
  <2> QED
    BY <2>1, <2>2, TypeParts
<1>4. QueueIntact'
  <2>1. Count(queuelist)' = 0
    BY <1>1, <1>2 DEF Count
  <2>2. \A p \in Prios : Nothing[p] = <<>>
    BY DEF Nothing
  <2> QED
    BY <1>1, <2>1, <2>2, SdioTxqAssumption DEF QueueIntact
<1>5. Counted'
  <2>1. IsFiniteSet(Places(queuelist)') /\ IsFiniteSet(Places(aggr)')
    BY <1>1, <1>2 DEF TInv, Counted, Places
  <2> QED
    BY <1>0, <1>1, <2>1 DEF Counted, Rest
<1>6. AggrFits' /\ HasFrame' /\ BuffersLeft'
  BY <1>1 DEF TInv, AggrFits, HasFrame, BuffersLeft, Count
<1>7. PassFits'
  BY <1>1 DEF TInv, PassFits
<1>8. Bounded'
  <2> SUFFICES ASSUME NEW o \in Prios PROVE Len(aggr[o]) + Len(queuelist'[o]) <= posted
    BY <1>1 DEF Bounded
  <2>1. /\ Len(aggr[o]) + Len(queuelist[o]) <= posted
        /\ Len(aggr[o]) \in Nat /\ Len(queuelist[o]) \in Nat /\ posted \in Nat
    BY <1>0 DEF TInv, Bounded, Rest, Lists
  <2>2. Len(queuelist'[o]) = 0
    BY <1>1 DEF Nothing
  <2>3. \A a, b, n \in Nat : a + b <= n => a + 0 <= n
    OBVIOUS
  <2> QED
    BY <2>1, <2>2, <2>3, Zenon
<1> QED
  BY <1>3, <1>4, <1>5, <1>6, <1>7, <1>8 DEF TInv

\* It holds at first.
LEMMA InitTInv == Init => TInv
<1> SUFFICES ASSUME Init PROVE TInv
  OBVIOUS
<1> USE SdioTxqAssumption DEF Init
<1>1. Nothing \in Lists /\ IsFiniteSet(Places(Nothing)) /\ Count(Nothing) = 0
  BY CountNothing
<1>2. \A p \in Prios : Nothing[p] = <<>> /\ Len(Nothing[p]) = 0
  BY DEF Nothing
<1>3. TypeOK
  <2>1. Flags
    BY DEF Flags
  <2>2. [p \in Prios |-> 0] \in [Prios -> Nat] /\ 0 \in Prios
    BY DEF Prios
  <2>3. Rest
    BY <1>1, <2>2 DEF Rest
  <2> QED
    BY <2>1, <2>3, TypeParts
<1>4. QueueIntact /\ Counted
  BY <1>1, <1>2 DEF QueueIntact, Counted
<1>5. AggrFits /\ HasFrame /\ PassFits /\ BuffersLeft
  BY <1>1 DEF AggrFits, HasFrame, PassFits, BuffersLeft
<1>6. Bounded
  BY <1>2 DEF Bounded
<1> QED
  BY <1>3, <1>4, <1>5, <1>6 DEF TInv

\* Every step preserves it.
LEMMA NextTInv == TInv /\ [Next]_vars => TInv'
<1> SUFFICES ASSUME TInv, [Next]_vars PROVE TInv'
  OBVIOUS
<1>1. CASE Tx
  BY <1>1, WakeStep, TxMsgStep, FlowStep, LoopStep, SendStep, CheckStep DEF Tx
<1>2. CASE \E p \in Prios : Post(p)
  BY <1>2, PostStep
<1>3. CASE PostCmd \/ PostTrigger \/ FwFree \/ StopDown
  BY <1>3, OutsideStep
<1>4. CASE StopFlush
  BY <1>4, FlushStep
<1>5. CASE UNCHANGED vars
  <2>1. /\ UNCHANGED <<bus, queueVars, trgg, pc, txnow, fresh, avail, aggr, aggr_count, fwfree>>
        /\ UNCHANGED <<last, failed, cmd_txstate, posting, posted, cmds>>
    BY <1>5 DEF vars, aggrVars, postVars
  <2>2. /\ QueueIntact' /\ Counted' /\ Bounded'
        /\ aggr_count' = Count(aggr)' /\ aggr_count' <= AggrCounter - Thresh
        /\ QueueEmpty' = QueueEmpty
    BY <2>1, FramesStay
  <2>3. TypeOK'
    BY <2>1 DEF TInv, TypeOK, queueVars
  <2>4. AggrFits' /\ HasFrame' /\ BuffersLeft'
    BY <2>1, <2>2 DEF TInv, AggrFits, HasFrame, BuffersLeft
  <2>5. PassFits'
    BY <2>1, <2>2 DEF TInv, PassFits
  <2> QED
    BY <2>2, <2>3, <2>4, <2>5 DEF TInv
<1> QED
  BY <1>1, <1>2, <1>3, <1>4, <1>5 DEF Next

\* The invariant holds throughout.
LEMMA SpecTInv == Spec => []TInv
BY InitTInv, NextTInv, PTL DEF Spec

-----------------------------------------------------------------------------
(* The results. *)

\* Every variable of the transmit path keeps its type; in particular qcnt and tx_pktcnt,
\* which the C code decrements without looking, never go below zero.
THEOREM TypeCorrect == Spec => []TypeOK
<1>1. TInv => TypeOK
  BY DEF TInv
<1> QED
  BY <1>1, SpecTInv, PTL

\* The two counters and hi_prio describe the frame queue whatever the posters, the thread
\* and the removal do (aicwf_frame_queue_penq(), aicwf_frame_dequeue(), aicwf_frame_queue_flush()).
THEOREM AlwaysQueueIntact == Spec => []QueueIntact
<1>1. TInv => QueueIntact
  BY DEF TInv
<1> QED
  BY <1>1, SpecTInv, PTL

\* The aggregation buffer never has more frames than flow control allowed, and the thread never
\* finds it full when it comes to aicwf_sdio_send().
THEOREM AlwaysAggrFits == Spec => []AggrFits
<1>1. TInv => AggrFits
  BY DEF TInv
<1> QED
  BY <1>1, SpecTInv, PTL

\* In a pass that has asked for the number of buffers, aicwf_sdio_aggr_send() leaves
\* DATA_FLOW_CTRL_THRESH of them to the messages: since the question the firmware has only
\* gained buffers, and no transfer has more frames than the answer less the threshold.
THEOREM AlwaysLeavesRoom == Spec => LeavesRoom
<1>1. ASSUME TInv, [Next]_vars
      PROVE  [fresh /\ pc = "check" /\ fwfree' < fwfree => fwfree' >= Thresh]_fwfree
  <2> SUFFICES ASSUME fresh, pc = "check", fwfree' < fwfree PROVE fwfree' >= Thresh
    OBVIOUS
  <2>0. Rest /\ Thresh \in Nat
    BY <1>1, TypeParts, SdioTxqAssumption DEF TInv
  <2>1. Check
    <3>1. CASE Tx
      BY <3>1, Zenon DEF Tx, Wake, TxMsg, TxData, Flow, LoopSend, LoopFlow, LoopLeave, Send
    <3>2. CASE \E p \in Prios : Post(p)
      <4>1. fwfree' = fwfree
        BY <3>2 DEF Post, aggrVars
      <4> QED
        BY <2>0, <4>1 DEF Rest
    <3>3. CASE PostCmd \/ PostTrigger \/ StopDown \/ StopFlush \/ UNCHANGED vars
      <4>1. fwfree' = fwfree
        BY <3>3 DEF PostCmd, PostTrigger, StopDown, StopFlush, vars, aggrVars
      <4> QED
        BY <2>0, <4>1 DEF Rest
    <3>4. CASE FwFree
      <4>1. fwfree' = fwfree + 1
        BY <3>4 DEF FwFree
      <4> QED
        BY <2>0, <4>1 DEF Rest
    <3> QED
      BY <1>1, <3>1, <3>2, <3>3, <3>4 DEF Next
  <2>2. fwfree' = IF aggr_count < fwfree THEN fwfree - aggr_count ELSE 0
    <3>1. fwfree' # fwfree
      BY <2>0 DEF Rest
    <3> QED
      BY <2>1, <3>1, Zenon DEF Check, AggrSend, TakeBuffers, aggrVars
  <2>3. aggr_count > 0
    BY <2>0, <2>2 DEF Rest
  <2>4. aggr_count < avail - Thresh + 1
    BY <1>1, <2>3 DEF TInv, PassFits
  <2>5. avail > Thresh
    BY <2>0, <2>3, <2>4 DEF Rest
  <2>6. fwfree >= avail
    BY <1>1, <2>5, Zenon DEF TInv, BuffersLeft
  <2> QED
    BY <2>0, <2>2, <2>3, <2>4, <2>6 DEF Rest
<1> QED
  BY <1>1, SpecTInv, PTL DEF Spec, LeavesRoom

-----------------------------------------------------------------------------
(* The transmit path is a channel. *)

\* Two lists one behind the other: a frame at the end, a frame that moves from the second to
\* the first, the first taken away, and its last frame.
LEMMA OneBehindTheOther ==
    ASSUME NEW a \in Seq(Nat), NEW q \in Seq(Nat), NEW f \in Nat
    PROVE  /\ a \o Append(q, f) = Append(a \o q, f)
           /\ q # <<>> => Append(a, Head(q)) \o Tail(q) = a \o q
           /\ SubSeq(a \o q, Len(a) + 1, Len(a \o q)) = q
           /\ a # <<>> => (a \o q)[Len(a)] = a[Len(a)]
<1>1. a \o Append(q, f) = Append(a \o q, f)
  <2>1. Append(q, f) = q \o <<f>> /\ <<f>> \in Seq(Nat)
    BY AppendIsConcat
  <2>2. a \o q \in Seq(Nat)
    BY ConcatProperties
  <2>3. Append(a \o q, f) = (a \o q) \o <<f>>
    BY <2>2, AppendIsConcat
  <2> QED
    BY <2>1, <2>3, ConcatAssociative
<1>2. ASSUME q # <<>> PROVE Append(a, Head(q)) \o Tail(q) = a \o q
  <2>1. Head(q) \in Nat /\ Tail(q) \in Seq(Nat)
    BY <1>2, HeadTailProperties
  <2>2. Append(a, Head(q)) = a \o <<Head(q)>> /\ <<Head(q)>> \in Seq(Nat)
    BY <2>1, AppendIsConcat
  <2>3. <<Head(q)>> \o Tail(q) = q
    BY <1>2
  <2> QED
    BY <2>1, <2>2, <2>3, ConcatAssociative
<1>3. SubSeq(a \o q, Len(a) + 1, Len(a \o q)) = q
  <2>1. CASE q = <<>>
    BY <2>1
  <2>2. CASE q # <<>>
    <3>1. Len(a \o q) = Len(a) + Len(q) /\ Len(a) \in Nat /\ Len(q) \in Nat /\ Len(q) > 0
      BY <2>2
    <3>2. SubSeq(a \o q, Len(a) + 1, Len(a) + Len(q))
              = SubSeq(q, Len(a) + 1 - Len(a), Len(a) + Len(q) - Len(a))
      BY <3>1, SubSeqOfConcat2
    <3>3. Len(a) + 1 - Len(a) = 1 /\ Len(a) + Len(q) - Len(a) = Len(q)
      BY <3>1
    <3> QED
      BY <3>1, <3>2, <3>3, SubSeqFull
  <2> QED
    BY <2>1, <2>2
<1>4. a # <<>> => (a \o q)[Len(a)] = a[Len(a)]
  OBVIOUS
<1> QED
  BY <1>1, <1>2, <1>3, <1>4

\* For each priority what is aggregated comes before what is queued.
LEMMA PathParts ==
    ASSUME TInv, bus = "UP", NEW p \in Prios
    PROVE  /\ Path[p] = aggr[p] \o queuelist[p] /\ aggr[p] \in Seq(Nat)
           /\ queuelist[p] \in Seq(Nat)
           /\ Len(Path[p]) = Len(aggr[p]) + Len(queuelist[p]) /\ Len(Path[p]) <= posted
<1>1. aggr[p] \in Seq(Nat) /\ queuelist[p] \in Seq(Nat)
  BY DEF TInv, TypeOK
<1>2. Path[p] = aggr[p] \o queuelist[p]
  BY DEF Path
<1>3. Len(aggr[p] \o queuelist[p]) = Len(aggr[p]) + Len(queuelist[p])
  BY <1>1
<1>4. Len(aggr[p]) + Len(queuelist[p]) <= posted
  BY DEF TInv, Bounded
<1> QED
  BY <1>1, <1>2, <1>3, <1>4

\* The steps that move no frame and count none are no steps of the channel.
LEMMA PathStays ==
    ASSUME UNCHANGED <<bus, aggr, queuelist, last, posted>>
    PROVE  UNCHANGED Channel!vars
<1>1. Path' = Path
  BY DEF Path
<1> QED
  BY <1>1 DEF Channel!vars

\* Once the bus is down the channel is empty for good.
LEMMA PathDown ==
    ASSUME bus = "DOWN", bus' = "DOWN", UNCHANGED <<last, posted>>
    PROVE  UNCHANGED Channel!vars
<1>1. Path' = Path
  BY DEF Path
<1> QED
  BY <1>1 DEF Channel!vars

\* A frame that is queued is offered and taken, a frame that is dropped is refused.
LEMMA PostOffers == ASSUME TInv, NEW p \in Prios, Post(p) PROVE Channel!Offer(p)
<1>1. /\ bus = "UP" /\ bus' = "UP" /\ aggr' = aggr /\ last' = last /\ posted' = posted + 1
  BY DEF Post, aggrVars
<1>2. CASE ~Room(p)
  <2>1. queuelist' = queuelist
    BY <1>2 DEF Post, queueVars
  <2>2. Path' = Path
    BY <1>1, <2>1 DEF Path
  <2> QED
    BY <1>1, <2>2 DEF Channel!Offer
<1>3. CASE Room(p)
  <2>1. queuelist' = [queuelist EXCEPT ![p] = Append(@, posted + 1)]
    BY <1>1, <1>3 DEF Post, Penq
  <2>2. queuelist \in Lists /\ aggr \in Lists /\ posted + 1 \in Nat
    BY TypeParts DEF TInv, Rest
  <2>3. Path' = [o \in Prios |-> aggr[o] \o queuelist'[o]]
    BY <1>1 DEF Path
  <2>4. Path = [o \in Prios |-> aggr[o] \o queuelist[o]]
    BY <1>1 DEF Path
  <2>5. aggr[p] \o queuelist'[p] = Append(aggr[p] \o queuelist[p], posted + 1)
    <3>1. aggr[p] \in Seq(Nat) /\ queuelist[p] \in Seq(Nat)
      BY <2>2 DEF Lists
    <3>2. queuelist'[p] = Append(queuelist[p], posted + 1)
      BY <2>1, <2>2 DEF Lists
    <3>3. aggr[p] \o Append(queuelist[p], posted + 1) = Append(aggr[p] \o queuelist[p], posted + 1)
      BY <2>2, <3>1, OneBehindTheOther
    <3> QED
      BY <3>2, <3>3
  <2>6. \A o \in Prios \ {p} : queuelist'[o] = queuelist[o]
    BY <2>1, <2>2 DEF Lists
  <2>7. Path' = [Path EXCEPT ![p] = Append(@, posted + 1)]
    <3>1. \A o \in Prios : Path'[o] = IF o = p THEN Append(Path[p], posted + 1) ELSE Path[o]
      BY <2>3, <2>4, <2>5, <2>6
    <3> QED
      BY <2>3, <2>4, <3>1
  <2> QED
    BY <1>1, <2>7 DEF Channel!Offer
<1> QED
  BY <1>2, <1>3

\* A frame that goes from the queue to the aggregation buffer keeps its place.
LEMMA SendKeepsPath == ASSUME TInv, Send PROVE UNCHANGED Channel!vars
<1> DEFINE h == Highest
           f == Head(queuelist[h])
<1>1. /\ h \in Prios /\ queuelist[h] \in Seq(Nat) /\ queuelist[h] # <<>>
      /\ queuelist' = [queuelist EXCEPT ![h] = Tail(@)]
      /\ aggr' = [aggr EXCEPT ![h] = Append(@, f)]
      /\ UNCHANGED <<bus, last, posted>>
  BY SendMoves
<1>2. aggr[h] \in Seq(Nat) /\ f \in Nat
  BY <1>1 DEF TInv, TypeOK
<1>3. Append(aggr[h], f) \o Tail(queuelist[h]) = aggr[h] \o queuelist[h]
  BY <1>1, <1>2, OneBehindTheOther
<1> HIDE DEF h, f
<1>4. /\ queuelist'[h] = Tail(queuelist[h]) /\ aggr'[h] = Append(aggr[h], f)
      /\ \A o \in Prios \ {h} : queuelist'[o] = queuelist[o] /\ aggr'[o] = aggr[o]
  BY <1>1 DEF TInv, TypeOK
<1>5. \A o \in Prios : aggr'[o] \o queuelist'[o] = aggr[o] \o queuelist[o]
  BY <1>3, <1>4
<1>6. Path' = Path
  BY <1>1, <1>5 DEF Path
<1> QED
  BY <1>1, <1>6 DEF Channel!vars

\* What the aggregation buffer held goes, to the chip or nowhere; what is queued stays.
LEMMA BufferGoes ==
    ASSUME TInv, bus = "UP", bus' = "UP", aggr' = Nothing, UNCHANGED <<queuelist, posted>>
    PROVE  /\ [p \in Prios |-> Len(aggr[p])] \in Channel!Counts
           /\ Channel!Drop([p \in Prios |-> Len(aggr[p])])
<1> DEFINE n == [p \in Prios |-> Len(aggr[p])]
<1>1. ASSUME NEW p \in Prios
      PROVE  n[p] \in 0 .. posted /\ n[p] <= Len(Path[p])
  <2>1. /\ Len(Path[p]) = Len(aggr[p]) + Len(queuelist[p]) /\ Len(Path[p]) <= posted
        /\ aggr[p] \in Seq(Nat) /\ queuelist[p] \in Seq(Nat)
    BY PathParts
  <2>2. Len(aggr[p]) \in Nat /\ Len(queuelist[p]) \in Nat
    BY <2>1
  <2>3. posted \in Nat
    BY DEF TInv, TypeOK
  <2>4. \A a, b, c \in Nat : a + b <= c => a \in 0 .. c /\ a <= a + b
    OBVIOUS
  <2> QED
    BY <2>1, <2>2, <2>3, <2>4
<1>2. n \in Channel!Counts
  BY <1>1 DEF Channel!Counts
<1>3. ASSUME NEW p \in Prios
      PROVE  Path'[p] = SubSeq(Path[p], n[p] + 1, Len(Path[p]))
  <2>1. /\ Path[p] = aggr[p] \o queuelist[p]
        /\ aggr[p] \in Seq(Nat) /\ queuelist[p] \in Seq(Nat)
    BY PathParts
  <2>2. SubSeq(aggr[p] \o queuelist[p], Len(aggr[p]) + 1, Len(aggr[p] \o queuelist[p])) = queuelist[p]
    BY <2>1, OneBehindTheOther
  <2>3. Path'[p] = Nothing[p] \o queuelist[p]
    BY DEF Path
  <2>4. Nothing[p] \o queuelist[p] = queuelist[p]
    BY <2>1 DEF Nothing
  <2> QED
    BY <2>1, <2>2, <2>3, <2>4
<1>4. Path' = [p \in Prios |-> Path'[p]]
  BY DEF Path
<1> QED
  BY <1>2, <1>3, <1>4 DEF Channel!Drop

\* A transfer delivers the aggregation buffer, or it fails and loses it.
LEMMA CheckDelivers == ASSUME TInv, Check PROVE Channel!Next \/ UNCHANGED Channel!vars
<1> DEFINE n == [p \in Prios |-> Len(aggr[p])]
<1>1. UNCHANGED <<bus, queuelist, posted>>
  BY DEF Check, queueVars, postVars
<1>2. bus = "UP" \/ bus = "DOWN"
  BY DEF TInv, TypeOK
<1>3. CASE UNCHANGED aggrVars
  BY <1>1, <1>3, PathStays DEF aggrVars
<1>4. CASE AggrSend /\ bus = "UP" /\ last' = Delivered
  <2>1. n \in Channel!Counts /\ Channel!Drop(n)
    BY <1>1, <1>4, BufferGoes DEF AggrSend
  <2>2. last' = [p \in Prios |-> IF n[p] = 0 THEN last[p] ELSE Path[p][n[p]]]
    <3>1. ASSUME NEW p \in Prios
          PROVE  (IF aggr[p] = <<>> THEN last[p] ELSE aggr[p][Len(aggr[p])])
                     = IF n[p] = 0 THEN last[p] ELSE Path[p][n[p]]
      <4>1. /\ Path[p] = aggr[p] \o queuelist[p]
            /\ aggr[p] \in Seq(Nat) /\ queuelist[p] \in Seq(Nat)
        BY <1>4, PathParts
      <4>2. aggr[p] = <<>> <=> Len(aggr[p]) = 0
        BY <4>1
      <4>3. aggr[p] # <<>> => (aggr[p] \o queuelist[p])[Len(aggr[p])] = aggr[p][Len(aggr[p])]
        BY <4>1, OneBehindTheOther
      <4> QED
        BY <4>1, <4>2, <4>3
    <3> QED
      BY <1>4, <3>1 DEF Delivered
  <2>3. posted' = posted
    BY <1>1
  <2> HIDE DEF n
  <2>4. Channel!Deliver
    BY <2>1, <2>2, <2>3 DEF Channel!Deliver
  <2> QED
    BY <2>4 DEF Channel!Next
<1>5. CASE AggrSend /\ bus = "UP" /\ MayFail /\ last' = last
  <2>1. n \in Channel!Counts /\ Channel!Drop(n)
    BY <1>1, <1>5, BufferGoes DEF AggrSend
  <2> HIDE DEF n
  <2>2. Channel!Lose
    BY <1>1, <1>5, <2>1 DEF Channel!Lose
  <2> QED
    BY <2>2 DEF Channel!Next
<1>6. CASE AggrSend /\ bus = "DOWN"
  <2>1. last' = last
    BY <1>6 DEF AggrSend
  <2> QED
    BY <1>1, <1>6, <2>1, PathDown
<1> QED
  BY <1>2, <1>3, <1>4, <1>5, <1>6 DEF Check, AggrSend

\* The bus that goes down loses all that the channel holds.
LEMMA DownLoses == ASSUME TInv, StopDown PROVE Channel!Lose
<1> DEFINE n == [p \in Prios |-> Len(Path[p])]
<1>1. bus = "UP" /\ bus' = "DOWN" /\ MayStop /\ UNCHANGED <<last, posted>>
  BY DEF StopDown, aggrVars, postVars
<1>2. ASSUME NEW p \in Prios
      PROVE  n[p] \in 0 .. posted /\ SubSeq(Path[p], n[p] + 1, Len(Path[p])) = <<>>
  <2>1. /\ Path[p] = aggr[p] \o queuelist[p] /\ Len(Path[p]) <= posted
        /\ aggr[p] \in Seq(Nat) /\ queuelist[p] \in Seq(Nat)
    BY <1>1, PathParts
  <2>2. Path[p] \in Seq(Nat)
    BY <2>1
  <2>3. Len(Path[p]) \in Nat /\ SubSeq(Path[p], Len(Path[p]) + 1, Len(Path[p])) = <<>>
    BY <2>2
  <2>4. posted \in Nat
    BY DEF TInv, TypeOK
  <2>5. \A a, c \in Nat : a <= c => a \in 0 .. c
    OBVIOUS
  <2>6. Len(Path[p]) \in 0 .. posted
    BY <2>1, <2>3, <2>4, <2>5, Zenon
  <2> QED
    BY <2>3, <2>6
<1>3. n \in Channel!Counts
  <2>1. \A p \in Prios : n[p] <= Len(Path[p])
    <3> TAKE p \in Prios
    <3>1. Len(Path[p]) \in Nat
      BY <1>2
    <3> QED
      BY <3>1
  <2> QED
    BY <1>2, <2>1 DEF Channel!Counts
<1>4. Path' = [p \in Prios |-> <<>>]
  BY <1>1 DEF Path
<1>5. Channel!Drop(n)
  BY <1>2, <1>4 DEF Channel!Drop
<1> HIDE DEF n
<1> QED
  BY <1>1, <1>3, <1>5 DEF Channel!Lose

\* For any number of priorities and frames, with transfers that fail and a device that may be
\* removed: the queue, the aggregation buffer and flow control together are a channel that is
\* first-in first-out for each priority and loses frames only if a transfer fails or the bus
\* goes down.
THEOREM PathIsChannel == Spec => IsChannel
<1>1. Init => Channel!Init
  <2> SUFFICES ASSUME Init PROVE Channel!Init
    OBVIOUS
  <2>1. \A p \in Prios : Nothing[p] \o Nothing[p] = <<>>
    BY DEF Nothing
  <2>2. Path = [p \in Prios |-> <<>>]
    BY <2>1 DEF Init, Path
  <2> QED
    BY <2>2 DEF Init, Channel!Init
<1>2. ASSUME TInv, [Next]_vars PROVE [Channel!Next]_(Channel!vars)
  <2>1. CASE \E p \in Prios : Post(p)
    BY <1>2, <2>1, PostOffers DEF Channel!Next
  <2>2. CASE Check
    BY <1>2, <2>2, CheckDelivers
  <2>3. CASE Send
    BY <1>2, <2>3, SendKeepsPath
  <2>4. CASE StopDown
    BY <1>2, <2>4, DownLoses DEF Channel!Next
  <2>5. CASE StopFlush
    <3>1. bus = "DOWN" /\ bus' = "DOWN" /\ UNCHANGED <<last, posted>>
      BY <2>5 DEF StopFlush, aggrVars, postVars
    <3> QED
      BY <3>1, PathDown
  <2>6. CASE Wake \/ TxMsg \/ TxData \/ Flow \/ LoopSend \/ LoopFlow \/ LoopLeave
    <3>1. UNCHANGED <<bus, aggr, queuelist, last, posted>>
      BY <2>6 DEF Wake, TxMsg, TxData, Flow, LoopSend, LoopFlow, LoopLeave, queueVars, aggrVars,
                  postVars
    <3> QED
      BY <3>1, PathStays
  <2>7. CASE PostCmd \/ PostTrigger \/ FwFree \/ UNCHANGED vars
    <3>1. UNCHANGED <<bus, aggr, queuelist, last, posted>>
      BY <2>7 DEF PostCmd, PostTrigger, FwFree, vars, queueVars, aggrVars, postVars
    <3> QED
      BY <3>1, PathStays
  <2> QED
    BY <1>2, <2>1, <2>2, <2>3, <2>4, <2>5, <2>6, <2>7 DEF Next, Tx
<1> QED
  BY <1>1, <1>2, SpecTInv, PTL DEF Spec, IsChannel, Channel!Spec

=============================================================================
