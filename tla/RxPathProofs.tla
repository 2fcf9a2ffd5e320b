---------------------------- MODULE RxPathProofs ----------------------------
(***************************************************************************)
(* Proofs about the receive path: for every stream of fragments, whatever   *)
(* is lost of it, what goes up of a frame is all of it or its last          *)
(* fragment; and if nothing is lost, every frame goes up. The argument      *)
(* needs the order of the blocks, which SdioRxProofs gives: the path        *)
(* implements the bus.                                                      *)
(***************************************************************************)
EXTENDS RxPath, SdioRxProofs, FiniteSetTheorems

Pieces == {Stream[n] : n \in Blocks}

Entries == [key : {Stream[n].key : n \in Blocks}, next_fn : Nat,
            frags : Seq(Pieces), timer : {"setup", "pending", "running"}]

\* The blocks that the receive thread has not passed on yet and still may.
ToCome ==
    {n \in Blocks : \/ n > arrived
                    \/ \E i \in DOMAIN rxq : rxq[i] = n
                    \/ rx = "handle" /\ ~passed /\ n = skb}

PathType ==
    /\ arrived <= MaxBlocks /\ passed \in BOOLEAN /\ doomed \in BOOLEAN
    /\ defrag_list \subseteq Entries
    /\ up \in Seq(Seq(Pieces))
    /\ passed => rx = "handle"
    /\ ~passed => arming = NoKey \/ doomed

\* What an entry holds has its key, and comes before all that is to come of its frame.
Collected(e) ==
    /\ Len(e.frags) >= 1
    /\ \A k \in DOMAIN e.frags : e.frags[k].key = e.key
    /\ \A k \in DOMAIN e.frags, n \in ToCome :
          Stream[n].of = e.frags[k].of =>
              e.frags[k].fn < Stream[n].fn /\ e.frags[k].more

\* All the fragments from 0 on, and next_fn counts them unless the last one is there.
Prefix(e) ==
    /\ \A k \in DOMAIN e.frags : e.frags[k].fn = k - 1
    /\ \A k \in 1 .. Len(e.frags) - 1 : e.frags[k].more
    /\ e.next_fn = Len(e.frags) \/ ~e.frags[Len(e.frags)].more

\* An entry that was opened by a later fragment, and can never be completed.
Stuck(e) == Len(e.frags) = 1 /\ e.frags[1].fn > 0 /\ e.next_fn = 1

Sound(e) ==
    e.frags[1].of \in Alone =>
        /\ \A k \in DOMAIN e.frags : e.frags[k].of = e.frags[1].of
        /\ Prefix(e) \/ Stuck(e)

OneEntry == \A d, e \in defrag_list : d.key = e.key => d = e

\* An entry has a timeout coming: its timer is pending, or its callback has begun, or
\* the receive thread is about to start the timer.
EntryTimed ==
    \A e \in defrag_list : e.timer = "setup" => doomed \/ arming = e.key

PInv ==
    /\ PathType /\ OneEntry /\ EntryTimed /\ WholeOrTail
    /\ \A e \in defrag_list : Collected(e) /\ Sound(e)

-----------------------------------------------------------------------------
(* The path is the bus with more detail. *)

\* Every step of the path is a step of the bus, or leaves the bus alone.
LEMMA PathStepIsBusStep == ASSUME [PathNext]_path PROVE [Next]_vars
BY DEF PathNext, PathIrqRead, PathIrq, PathRx, PathTake, PathPass, PathArm, PathHandle,
       PathNoMem, PathTimeout, PathRelease, PathPlatformDeinit, PathRxDeinit, path,
       Next, Irq, Rx

\* The composition with the defragmentation leaves the bus what it is: every step of the
\* path is one of the bus or none, so all that is proved of SdioRx holds of the path.
THEOREM PathImplementsBus == PathSpec => Spec
<1>1. PathInit => Init
  BY DEF PathInit
<1> QED
  BY <1>1, PathStepIsBusStep, PTL DEF PathSpec, Spec

-----------------------------------------------------------------------------
(* What is to come only gets less. *)

\* A block that arrives, is queued or is taken was to come before.
LEMMA Shrinks ==
    ASSUME TypeOK, PathType, PathIrqRead \/ PathIrq \/ PathTake
    PROVE  ToCome' \subseteq ToCome /\ arrived' <= MaxBlocks /\ (passed => rx' = "handle")
<1> USE SdioRxAssumption
<1>1. CASE PathIrqRead
  <2>1. arrived' = arrived + 1 /\ arrived' <= MaxBlocks /\ rx' = rx /\ skb' = skb
        /\ passed' = passed
    BY <1>1 DEF PathIrqRead, IrqRead, TypeOK
  <2>2. \A i \in DOMAIN rxq' : rxq'[i] = arrived + 1 \/ \E j \in DOMAIN rxq : rxq[j] = rxq'[i]
    <3>1. PICK q : q = rxq'
      OBVIOUS
    <3>2. PICK a \in Nat : a = arrived + 1
      BY DEF TypeOK
    <3>3. rxq \in Seq(Nat) /\ (q = rxq \/ q = Append(rxq, a))
      BY <1>1, <2>1, <3>1, <3>2 DEF PathIrqRead, IrqRead, TypeOK
    <3>4. \A i \in DOMAIN q : q[i] = a \/ \E j \in DOMAIN rxq : rxq[j] = q[i]
      <4>1. CASE q = rxq
        BY <4>1
      <4>2. CASE q = Append(rxq, a)
        <5>1. /\ DOMAIN q = 1 .. Len(rxq) + 1 /\ DOMAIN rxq = 1 .. Len(rxq) /\ Len(rxq) \in Nat
              /\ q[Len(rxq) + 1] = a /\ \A i \in 1 .. Len(rxq) : q[i] = rxq[i]
          BY <3>2, <3>3, <4>2
        <5>2. \A i \in 1 .. Len(rxq) + 1 : i \in 1 .. Len(rxq) \/ i = Len(rxq) + 1
          BY <5>1
        <5> QED
          BY <5>1, <5>2
      <4> QED
        BY <3>3, <4>1, <4>2
    <3> QED
      BY <3>1, <3>2, <3>4
  <2> QED
    BY <2>1, <2>2 DEF ToCome, PathType, TypeOK, Blocks
<1>2. CASE PathIrq \/ (PathTake /\ RxWake)
  <2>1. UNCHANGED <<arrived, rxq, skb, passed>> /\ (rx' = "handle" <=> rx = "handle")
    BY <1>2 DEF PathIrq, IrqCount, IrqCheck, PathTake, RxWake
  <2> QED
    BY <2>1 DEF ToCome, PathType, TypeOK
<1>3. CASE PathTake /\ RxTake
  <2>1. arrived' = arrived /\ passed' = passed /\ rx = "loop"
    BY <1>3 DEF PathTake, RxTake
  <2>2. CASE rxq = <<>>
    BY <1>3, <2>1, <2>2 DEF RxTake, ToCome, PathType, TypeOK
  <2>3. CASE rxq # <<>>
    <3>1. rxq' = Tail(rxq) /\ skb' = Head(rxq)
      BY <1>3, <2>3 DEF RxTake
    <3>2. \A i \in DOMAIN rxq' : \E j \in DOMAIN rxq : rxq[j] = rxq'[i]
      BY <3>1, <2>3 DEF TypeOK
    <3>3. \E j \in DOMAIN rxq : rxq[j] = skb'
      BY <3>1, <2>3 DEF TypeOK
    <3> QED
      BY <2>1, <3>2, <3>3 DEF ToCome, PathType, TypeOK
  <2> QED
    BY <2>2, <2>3
<1> QED
  BY <1>1, <1>2, <1>3 DEF PathTake

\* The entries stay sound while nothing is added to them.
LEMMA KeepCollected ==
    ASSUME NEW e, Collected(e), ToCome' \subseteq ToCome PROVE Collected(e)'
BY DEF Collected

\* If neither the entries nor what went up change, only the control can be disturbed.
LEMMA QuietStep ==
    ASSUME PInv, UNCHANGED <<defrag_list, up>>, ToCome' \subseteq ToCome, PathType', EntryTimed'
    PROVE  PInv'
<1>1. OneEntry' /\ WholeOrTail'
  BY DEF PInv, OneEntry, WholeOrTail
<1>2. ASSUME NEW e \in defrag_list PROVE Collected(e)' /\ Sound(e)
  BY <1>2, KeepCollected DEF PInv
<1> QED
  BY <1>1, <1>2 DEF PInv, Sound

\* The steps of the bus before a block is passed on.
LEMMA BusStep == ASSUME IInv, PInv, PathIrqRead \/ PathIrq \/ PathTake PROVE PInv'
<1>1. UNCHANGED <<defrag_list, arming, up, doomed, passed>>
  BY DEF PathIrqRead, PathIrq, PathTake, defrag
<1>2. ToCome' \subseteq ToCome /\ arrived' <= MaxBlocks /\ (passed => rx' = "handle")
  BY Shrinks DEF IInv, PInv
<1>3. PathType'
  BY <1>1, <1>2 DEF PInv, PathType
<1>4. EntryTimed'
  BY <1>1 DEF PInv, EntryTimed
<1> QED
  BY <1>1, <1>2, <1>3, <1>4, QuietStep

\* The end of a block, which was passed on or given up.
LEMMA HandleStep == ASSUME PInv, PathHandle \/ PathNoMem PROVE PInv'
<1>1. /\ UNCHANGED <<defrag_list, arming, up, doomed, arrived, rxq>>
      /\ passed' = FALSE /\ rx' # "handle" /\ (arming = NoKey \/ doomed)
  BY DEF PathHandle, PathNoMem, RxHandle, RxNoMem, defrag
<1>2. ToCome' \subseteq ToCome
  BY <1>1 DEF ToCome
<1>3. PathType'
  BY <1>1 DEF PInv, PathType
<1>4. EntryTimed'
  BY <1>1 DEF PInv, EntryTimed
<1> QED
  BY <1>1, <1>2, <1>3, <1>4, QuietStep

\* The removal of the driver.
LEMMA RemovalStep ==
    ASSUME PInv, PathRelease \/ PathPlatformDeinit \/ PathRxDeinit PROVE PInv'
<1>1. UNCHANGED <<defrag_list, arming, up, arrived, passed, skb>>
      /\ (doomed => doomed') /\ doomed' \in BOOLEAN
  BY DEF PathRelease, PathPlatformDeinit, PathRxDeinit, PlatformDeinit, Release, RxDeinit,
         defrag, vars, PInv, PathType
<1>2. (rx = "handle" <=> rx' = "handle") /\ (rxq' = rxq \/ rxq' = <<>>)
  BY DEF PathRelease, PathPlatformDeinit, PathRxDeinit, Release, RxDeinit, vars
<1>3. ToCome' \subseteq ToCome
  BY <1>1, <1>2 DEF ToCome
<1>4. PathType'
  BY <1>1, <1>2 DEF PInv, PathType
<1>5. EntryTimed'
  BY <1>1 DEF PInv, EntryTimed
<1> QED
  BY <1>1, <1>3, <1>4, <1>5, QuietStep

\* A timer that is started, fires or throws its entry away.
LEMMA TimerStep == ASSUME PInv, PathArm \/ PathTimeout PROVE PInv'
<1>0. UNCHANGED <<arrived, rxq, rx, skb, passed, up>> /\ ToCome' = ToCome /\ ~doomed
      /\ doomed' \in BOOLEAN
  BY DEF PathArm, PathTimeout, Arm, CbBegin, CbExpire, vars, ToCome, PInv, PathType
<1>1. PICK e \in defrag_list :
        /\ \/ defrag_list' = defrag_list \ {e} /\ e.timer = "running"
           \/ \E t \in {"pending", "running"} :
                defrag_list' = (defrag_list \ {e}) \cup {[e EXCEPT !.timer = t]}
        /\ \/ arming' = arming /\ e.timer # "setup"
           \/ arming' = NoKey /\ e.key = arming /\ arming # NoKey
  BY DEF PathArm, PathTimeout, Arm, CbBegin, CbExpire, SetTimer
<1>2. \A t \in {"pending", "running"} :
        LET d == [e EXCEPT !.timer = t] IN
        d \in Entries /\ d.timer = t /\ d.key = e.key /\ d.frags = e.frags
        /\ d.next_fn = e.next_fn
  BY <1>1 DEF PInv, PathType, Entries
<1>3. ASSUME NEW d \in defrag_list'
      PROVE  \E c \in defrag_list : /\ d.key = c.key /\ d.frags = c.frags /\ d.next_fn = c.next_fn
                                    /\ (d = c /\ c # e) \/ (c = e /\ d.timer # "setup")
                                    /\ d \in Entries
  BY <1>1, <1>2, <1>3 DEF PInv, PathType
<1>4. PathType'
  BY <1>0, <1>1, <1>3 DEF PInv, PathType
<1>5. OneEntry'
  <2>1. CASE defrag_list' = defrag_list \ {e}
    BY <2>1 DEF PInv, OneEntry
  <2>2. ASSUME NEW t \in {"pending", "running"},
               defrag_list' = (defrag_list \ {e}) \cup {[e EXCEPT !.timer = t]}
        PROVE  OneEntry'
    <3> DEFINE n == [e EXCEPT !.timer = t]
    <3>1. n.key = e.key
      BY <1>2, <2>2
    <3>2. defrag_list' = (defrag_list \ {e}) \cup {n}
      BY <2>2
    <3> HIDE DEF n
    <3> QED
      BY <3>1, <3>2 DEF PInv, OneEntry
  <2> QED
    BY <1>1, <2>1, <2>2
<1>6. EntryTimed'
  BY <1>0, <1>1, <1>3 DEF PInv, EntryTimed, OneEntry
<1>7. ASSUME NEW d \in defrag_list' PROVE Collected(d)' /\ Sound(d)'
  <2>1. PICK c \in defrag_list : d.key = c.key /\ d.frags = c.frags /\ d.next_fn = c.next_fn
    BY <1>3, <1>7
  <2>2. Collected(c) /\ Sound(c)
    BY DEF PInv
  <2>3. Collected(d)'
    BY <1>0, <2>1, <2>2 DEF Collected
  <2>4. Sound(d)'
    BY <2>1, <2>2 DEF Sound, Prefix, Stuck
  <2> QED
    BY <2>3, <2>4
<1>8. WholeOrTail'
  BY <1>0 DEF PInv, WholeOrTail
<1> QED
  BY <1>4, <1>5, <1>6, <1>7, <1>8 DEF PInv

-----------------------------------------------------------------------------
(* One fragment. *)

\* The block in the thread's hands comes before all that is then to come.
LEMMA ThisIsNext ==
    ASSUME IInv, PathType, rx = "handle", ~passed, passed' = TRUE, UNCHANGED vars
    PROVE  /\ skb \in Blocks /\ skb \in ToCome /\ ToCome' \subseteq ToCome
           /\ \A n \in ToCome' : Stream[n].of = Stream[skb].of =>
                  /\ Stream[skb].fn < Stream[n].fn /\ Stream[skb].more
                  /\ Stream[skb].key = Stream[n].key
<1> USE SdioRxAssumption
<1>1. UNCHANGED <<rxq, arrived, rx, skb>>
  BY DEF vars
<1>2. skb \in Blocks /\ skb \in ToCome
  BY DEF IInv, TypeOK, Numbered, PathType, ToCome, Blocks
<1>3. \A n \in ToCome' : n \in ToCome /\ n > skb /\ n \in Blocks
  BY <1>1 DEF IInv, TypeOK, Numbered, ToCome, Blocks
<1> QED
  BY <1>2, <1>3, StreamAssumption

\* Fragments that share the key of a frame in Alone belong to it.
LEMMA AloneKey ==
    ASSUME NEW p \in Pieces, NEW q \in Pieces, p.key = q.key
    PROVE  p.of \in Alone \/ q.of \in Alone => p.of = q.of
BY DEF Pieces, Alone

\* An entry grows: it stays the only one with its key, with the timer it has.
LEMMA Grows ==
    ASSUME PInv, NEW e \in defrag_list, NEW d \in Entries,
           d.key = e.key, d.timer = e.timer, Collected(d)', Sound(d),
           defrag_list' = (defrag_list \ {e}) \cup {d},
           ToCome' \subseteq ToCome, UNCHANGED <<arrived, rx, up, arming, doomed>>,
           rx = "handle", passed' = TRUE
    PROVE  PInv'
<1>1. PathType'
  BY DEF PInv, PathType
<1>2. OneEntry'
  BY DEF PInv, OneEntry
<1>3. EntryTimed'
  BY DEF PInv, EntryTimed
<1>4. ASSUME NEW c \in defrag_list' PROVE Collected(c)' /\ Sound(c)'
  <2>1. CASE c = d
    BY <2>1 DEF Sound, Prefix, Stuck
  <2>2. CASE c # d
    <3>1. c \in defrag_list
      BY <1>4, <2>2
    <3>2. Collected(c)' /\ Sound(c)
      BY <3>1, KeepCollected DEF PInv
    <3> QED
      BY <3>2 DEF Sound, Prefix, Stuck
  <2> QED
    BY <2>1, <2>2
<1>5. WholeOrTail'
  BY DEF PInv, WholeOrTail
<1> QED
  BY <1>1, <1>2, <1>3, <1>4, <1>5 DEF PInv

\* What an entry becomes with the fragment it waits for: if the frame is alone, the
\* fragments from 0 on, one more of them.
LEMMA Extended ==
    ASSUME PInv, NEW e \in defrag_list, NEW n \in ToCome, Stream[n].key = e.key,
           Wanted(e, Stream[n]), Stream[n] \in Pieces
    PROVE  LET g == Append(e.frags, Stream[n]) IN
           /\ g \in Seq(Pieces) /\ Len(g) = Len(e.frags) + 1
           /\ \A k \in 1 .. Len(e.frags) : g[k] = e.frags[k]
           /\ g[Len(g)] = Stream[n]
           /\ \A k \in DOMAIN g : g[k].key = e.key
           /\ g[1].of \in Alone =>
                 /\ \A k \in DOMAIN g : g[k].of = g[1].of /\ g[k].fn = k - 1
                 /\ \A k \in 1 .. Len(e.frags) : g[k].more
                 /\ Stream[n].fn = Len(e.frags) /\ e.next_fn = Len(e.frags)
<1> DEFINE f == Stream[n]
           g == Append(e.frags, f)
<1>1. e.frags \in Seq(Pieces) /\ e.next_fn \in Nat /\ Len(e.frags) >= 1
      /\ \A k \in DOMAIN e.frags : e.frags[k] \in Pieces
  BY DEF PInv, PathType, Entries, Collected
<1>2. g \in Seq(Pieces) /\ Len(g) = Len(e.frags) + 1 /\ DOMAIN g = 1 .. Len(e.frags) + 1
      /\ (\A k \in 1 .. Len(e.frags) : g[k] = e.frags[k]) /\ g[Len(g)] = f
  BY <1>1
<1>3. \A k \in DOMAIN g : g[k].key = e.key
  BY <1>1, <1>2 DEF PInv, Collected
<1>4. ASSUME g[1].of \in Alone
      PROVE  /\ \A k \in DOMAIN g : g[k].of = g[1].of /\ g[k].fn = k - 1
             /\ \A k \in 1 .. Len(e.frags) : g[k].more
             /\ f.fn = Len(e.frags) /\ e.next_fn = Len(e.frags)
  <2>1. g[1] = e.frags[1] /\ e.frags[1] \in Pieces /\ e.frags[1].key = e.key
    BY <1>1, <1>2 DEF PInv, Collected
  <2>2. f.of = e.frags[1].of
    BY <1>4, <2>1, AloneKey
  <2>3. \A k \in 1 .. Len(e.frags) : e.frags[k].of = f.of
    BY <1>1, <1>4, <2>1, <2>2 DEF PInv, Sound
  <2>4. \A k \in 1 .. Len(e.frags) : e.frags[k].more /\ e.frags[k].fn < f.fn
    BY <1>1, <2>3 DEF PInv, Collected
  <2>5. f.fn = e.next_fn
    BY DEF Wanted
  <2>6. f.fn \in Nat /\ \A k \in 1 .. Len(e.frags) : e.frags[k].fn \in Nat
    BY <1>1, StreamAssumption DEF Pieces, ToCome
  <2>7. Prefix(e)
    BY <1>1, <1>4, <2>1, <2>4, <2>5, <2>6 DEF PInv, Sound, Stuck
  <2>8. e.next_fn = Len(e.frags)
    BY <1>1, <2>4, <2>7 DEF Prefix
  <2>9. \A k \in 1 .. Len(e.frags) : e.frags[k].fn = k - 1
    BY <1>1, <2>7 DEF Prefix
  <2>10. \A k \in 1 .. Len(e.frags) : g[k].of = g[1].of /\ g[k].fn = k - 1 /\ g[k].more
    <3> HIDE DEF g, f
    <3> QED
      BY <1>2, <2>1, <2>2, <2>3, <2>4, <2>9
  <2>11. g[Len(e.frags) + 1] = f /\ f.fn = Len(e.frags) /\ f.of = g[1].of
    <3> HIDE DEF g, f
    <3> QED
      BY <1>2, <2>1, <2>2, <2>5, <2>8
  <2>12. \A k \in DOMAIN g : k \in 1 .. Len(e.frags) \/ k = Len(e.frags) + 1
    BY <1>1, <1>2
  <2>13. Len(e.frags) + 1 - 1 = Len(e.frags)
    BY <1>1
  <2> HIDE DEF g, f
  <2>14. \A k \in DOMAIN g : g[k].of = g[1].of /\ g[k].fn = k - 1
    BY <2>10, <2>11, <2>12, <2>13
  <2> QED
    BY <2>8, <2>10, <2>11, <2>14
<1> QED
  BY <1>2, <1>3, <1>4

\* The frame of a fragment that is taken joins what its frame already has, and all that
\* is then to come of it comes later.
LEMMA Later ==
    ASSUME PInv, NEW e \in defrag_list, NEW d, NEW f, d.key = e.key, f.key = e.key,
           Len(d.frags) >= 1, ToCome' \subseteq ToCome,
           \A k \in DOMAIN d.frags : d.frags[k] = f \/ \E j \in DOMAIN e.frags : d.frags[k] = e.frags[j],
           \A n \in ToCome' : Stream[n].of = f.of => f.fn < Stream[n].fn /\ f.more
    PROVE  Collected(d)'
<1>1. Collected(e)
  BY DEF PInv
<1> QED
  BY <1>1 DEF Collected

\* The fragment that an entry waits for is copied into it.
LEMMA AppendStep ==
    ASSUME IInv, PInv, rx = "handle", ~passed, passed' = TRUE, UNCHANGED vars,
           FragAppend(Stream[skb]) \/ FragNoVif(Stream[skb])
    PROVE  PInv'
<1> DEFINE f == Stream[skb]
<1>1. /\ skb \in Blocks /\ skb \in ToCome /\ ToCome' \subseteq ToCome
      /\ \A n \in ToCome' : Stream[n].of = f.of => f.fn < Stream[n].fn /\ f.more
  BY ThisIsNext DEF PInv
<1>2. f \in Pieces
  BY <1>1 DEF Pieces
<1>3. PICK e \in defrag_list :
        /\ e.key = f.key /\ Wanted(e, f)
        /\ \/ /\ f.more
              /\ defrag_list' = (defrag_list \ {e}) \cup
                     {[e EXCEPT !.next_fn = @ + 1, !.frags = Append(@, f)]}
           \/ /\ ~f.more
              /\ defrag_list' = (defrag_list \ {e}) \cup {[e EXCEPT !.frags = Append(@, f)]}
        /\ UNCHANGED <<arming, up, doomed>>
  BY DEF FragAppend, FragNoVif, Found
<1> DEFINE g == Append(e.frags, f)
<1>4. /\ g \in Seq(Pieces) /\ Len(g) = Len(e.frags) + 1
      /\ \A k \in 1 .. Len(e.frags) : g[k] = e.frags[k]
      /\ g[Len(g)] = f
      /\ g[1].of \in Alone =>
            /\ \A k \in DOMAIN g : g[k].of = g[1].of /\ g[k].fn = k - 1
            /\ \A k \in 1 .. Len(e.frags) : g[k].more
            /\ f.fn = Len(e.frags) /\ e.next_fn = Len(e.frags)
  BY <1>1, <1>2, <1>3, Extended
<1>5. PICK d \in Entries :
        /\ d.key = e.key /\ d.timer = e.timer /\ d.frags = g
        /\ d.next_fn = e.next_fn + 1 \/ ~f.more
        /\ defrag_list' = (defrag_list \ {e}) \cup {d}
  <2>1. e \in Entries
    BY DEF PInv, PathType
  <2>2. CASE f.more
    <3> DEFINE d == [e EXCEPT !.next_fn = @ + 1, !.frags = g]
    <3>0. e.next_fn + 1 \in Nat /\ g \in Seq(Pieces)
      BY <1>4, <2>1 DEF Entries
    <3>1. d \in Entries /\ d.key = e.key /\ d.timer = e.timer /\ d.frags = g
          /\ d.next_fn = e.next_fn + 1
      <4> HIDE DEF g
      <4> DEFINE m == e.next_fn + 1
      <4>1. d = [e EXCEPT !.next_fn = m, !.frags = g] /\ m \in Nat
        BY <3>0
      <4> HIDE DEF m
      <4>2. d \in Entries /\ d.key = e.key /\ d.timer = e.timer /\ d.frags = g /\ d.next_fn = m
        BY <2>1, <3>0, <4>1 DEF Entries
      <4> QED
        BY <4>2 DEF m
    <3>2. defrag_list' = (defrag_list \ {e}) \cup {d}
      BY <1>3, <2>2
    <3> QED
      BY <3>1, <3>2
  <2>3. CASE ~f.more
    <3> DEFINE d == [e EXCEPT !.frags = g]
    <3>1. d \in Entries /\ d.key = e.key /\ d.timer = e.timer /\ d.frags = g
      <4> HIDE DEF g
      <4> QED BY <1>4, <2>1 DEF Entries
    <3>2. defrag_list' = (defrag_list \ {e}) \cup {d}
      BY <1>3, <2>3
    <3> QED
      BY <2>3, <3>1, <3>2
  <2> QED
    BY <2>2, <2>3
<1>6. Len(e.frags) \in Nat /\ Len(e.frags) >= 1 /\ DOMAIN e.frags = 1 .. Len(e.frags)
      /\ DOMAIN g = 1 .. Len(e.frags) + 1
  BY <1>2 DEF PInv, PathType, Entries, Collected
<1> HIDE DEF g
<1>7. Collected(d)'
  <2>1. \A k \in DOMAIN d.frags :
          d.frags[k] = f \/ \E j \in DOMAIN e.frags : d.frags[k] = e.frags[j]
    BY <1>4, <1>5, <1>6
  <2>2. Len(d.frags) >= 1
    BY <1>4, <1>5, <1>6
  <2> HIDE DEF f
  <2> QED
    BY <1>1, <1>3, <1>5, <2>1, <2>2, Later
<1>8. Sound(d)
  <2>1. ASSUME g[1].of \in Alone PROVE Prefix(d)
    BY <1>4, <1>5, <1>6, <2>1 DEF Prefix
  <2> QED
    BY <1>4, <1>5, <2>1 DEF Sound
<1>9. UNCHANGED <<arrived, rx>>
  BY DEF vars
<1> QED
  BY <1>1, <1>3, <1>5, <1>7, <1>8, <1>9, Grows

\* A new entry: no other has its key, and it is the only one that has no timer yet.
LEMMA OpenStep ==
    ASSUME IInv, PInv, rx = "handle", ~passed, passed' = TRUE, UNCHANGED vars, ~doomed,
           FragOpen(Stream[skb]), defrag_list' # defrag_list
    PROVE  PInv'
<1>0. /\ skb \in Blocks /\ skb \in ToCome /\ ToCome' \subseteq ToCome
      /\ \A n \in ToCome' : Stream[n].of = Stream[skb].of =>
             Stream[skb].fn < Stream[n].fn /\ Stream[skb].more
  BY ThisIsNext DEF PInv
<1>1. PICK f \in Pieces : f = Stream[skb]
  BY <1>0 DEF Pieces
<1>2. /\ f.fn \in Nat /\ f.key # NoKey /\ f.more
      /\ f.key \in {Stream[n].key : n \in Blocks}
      /\ \A n \in ToCome' : Stream[n].of = f.of => f.fn < Stream[n].fn /\ f.more
  BY <1>0, <1>1, StreamAssumption DEF FragOpen
<1>c. PICK d : d = [key |-> f.key, next_fn |-> 1, frags |-> <<f>>, timer |-> "setup"]
  OBVIOUS
<1>3. /\ defrag_list' = defrag_list \cup {d} /\ arming' = f.key
      /\ UNCHANGED <<up, doomed, arrived, rx>>
      /\ \A e \in defrag_list : e.key # f.key
  BY <1>1, <1>c DEF FragOpen, Open, Found, vars
<1>4. d \in Entries /\ d.key = f.key /\ d.next_fn = 1 /\ d.timer = "setup"
  BY <1>2, <1>c DEF Entries
<1>5. PathType'
  BY <1>3, <1>4 DEF PInv, PathType
<1>6. OneEntry'
  BY <1>3, <1>4 DEF PInv, OneEntry
<1>7. \A e \in defrag_list : e.timer # "setup"
  <2>1. arming = NoKey /\ \A e \in defrag_list : e.key # NoKey
    BY StreamAssumption DEF PInv, PathType, Entries
  <2> QED
    BY <2>1 DEF PInv, EntryTimed
<1>8. EntryTimed'
  BY <1>3, <1>4, <1>7 DEF EntryTimed
<1>9. Len(d.frags) = 1 /\ DOMAIN d.frags = {1} /\ d.frags[1] = f
  BY <1>c
<1>10. Collected(d)'
  BY <1>2, <1>4, <1>9 DEF Collected
<1>11. Sound(d)
  <2>1. CASE f.fn = 0
    BY <1>4, <1>9, <2>1 DEF Sound, Prefix
  <2>2. CASE f.fn > 0
    BY <1>4, <1>9, <2>2 DEF Sound, Stuck
  <2> QED
    BY <1>2, <2>1, <2>2
<1>12. ASSUME NEW c \in defrag_list' PROVE Collected(c)' /\ Sound(c)'
  <2>1. CASE c = d
    BY <2>1, <1>10, <1>11 DEF Sound, Prefix, Stuck
  <2>2. CASE c \in defrag_list
    <3>1. Collected(c)' /\ Sound(c)
      BY <1>0, <2>2, KeepCollected DEF PInv
    <3> QED
      BY <3>1 DEF Sound, Prefix, Stuck
  <2> QED
    BY <1>3, <1>12, <2>1, <2>2
<1>13. WholeOrTail'
  BY <1>3 DEF PInv, WholeOrTail
<1> QED
  BY <1>5, <1>6, <1>8, <1>12, <1>13 DEF PInv

\* What goes up, from an entry or as it is, with entries only taken away.
LEMMA UpStep ==
    ASSUME PInv, NEW g \in Seq(Pieces), up' = Append(up, g), g # <<>>,
           g[1].of \in Alone => Whole(g) \/ Tail1(g),
           defrag_list' \subseteq defrag_list, ToCome' \subseteq ToCome,
           UNCHANGED <<arrived, rx, arming>>, rx = "handle", passed' = TRUE,
           ~doomed, doomed' \in BOOLEAN
    PROVE  PInv'
<1>1. up' \in Seq(Seq(Pieces))
  BY DEF PInv, PathType
<1>2. PathType'
  BY <1>1 DEF PInv, PathType
<1>3. OneEntry' /\ EntryTimed'
  BY DEF PInv, OneEntry, EntryTimed
<1>4. ASSUME NEW c \in defrag_list' PROVE Collected(c)' /\ Sound(c)'
  <2>1. Collected(c)' /\ Sound(c)
    BY <1>4, KeepCollected DEF PInv
  <2> QED
    BY <2>1 DEF Sound, Prefix, Stuck
<1>5. \A k \in DOMAIN up' : (k \in DOMAIN up /\ up'[k] = up[k]) \/ up'[k] = g
  BY DEF PInv, PathType
<1>6. WholeOrTail'
  <2>1. ASSUME NEW k \in DOMAIN up', up'[k][1].of \in Alone
        PROVE  Whole(up'[k]) \/ Tail1(up'[k])
    BY <1>5, <2>1 DEF PInv, WholeOrTail
  <2> QED
    BY <2>1 DEF WholeOrTail, Whole, Tail1
<1> QED
  BY <1>2, <1>3, <1>4, <1>6 DEF PInv

\* The last fragment: the entry goes up, in one piece if its frame is alone.
LEMMA CompleteStep ==
    ASSUME IInv, PInv, rx = "handle", ~passed, passed' = TRUE, UNCHANGED vars, ~doomed,
           FragComplete(Stream[skb])
    PROVE  PInv'
<1> DEFINE f == Stream[skb]
<1>1. skb \in Blocks /\ skb \in ToCome /\ ToCome' \subseteq ToCome
  BY ThisIsNext DEF PInv
<1>2. f \in Pieces
  BY <1>1 DEF Pieces
<1>3. PICK e \in defrag_list :
        /\ e.key = f.key /\ Wanted(e, f) /\ ~f.more
        /\ defrag_list' = defrag_list \ {e}
        /\ up' = Append(up, Append(e.frags, f))
        /\ doomed' \in BOOLEAN /\ arming' = arming
  BY DEF FragComplete, Found, Handed
<1> DEFINE g == Append(e.frags, f)
<1>4. /\ g \in Seq(Pieces) /\ Len(g) = Len(e.frags) + 1
      /\ g[Len(g)] = f
      /\ g[1].of \in Alone =>
            /\ \A k \in DOMAIN g : g[k].of = g[1].of /\ g[k].fn = k - 1
            /\ \A k \in 1 .. Len(e.frags) : g[k].more
  BY <1>1, <1>2, <1>3, Extended
<1>5. Len(e.frags) \in Nat /\ Len(e.frags) >= 1 /\ DOMAIN g = 1 .. Len(e.frags) + 1
  BY <1>2 DEF PInv, PathType, Entries, Collected
<1> HIDE DEF g
<1>6. g # <<>> /\ \A k \in DOMAIN g : k \in 1 .. Len(e.frags) \/ k = Len(g)
  BY <1>4, <1>5
<1>7. g[1].of \in Alone => Whole(g)
  BY <1>3, <1>4, <1>5, <1>6 DEF Whole
<1>8. UNCHANGED <<arrived, rx>>
  BY DEF vars
<1>9. up' = Append(up, g) /\ defrag_list' \subseteq defrag_list
  BY <1>3 DEF g
<1> QED
  BY <1>1, <1>3, <1>4, <1>6, <1>7, <1>8, <1>9, UpStep

\* rwnx_rxdataind_aicwf(), whatever it does with the fragment.
LEMMA PassStep == ASSUME IInv, PInv, PathPass PROVE PInv'
<1> DEFINE f == Stream[skb]
<1>0. rx = "handle" /\ ~passed /\ passed' = TRUE /\ UNCHANGED vars /\ UNCHANGED <<arrived, rx>>
  BY DEF PathPass, vars
<1>1. skb \in Blocks /\ ToCome' \subseteq ToCome
  BY <1>0, ThisIsNext DEF PInv
<1>2. f \in Pieces
  BY <1>1 DEF Pieces
<1>3. ASSUME UNCHANGED <<defrag_list, up, arming>>, doomed' \in BOOLEAN, doomed => doomed'
      PROVE  PInv'
  <2>1. PathType' /\ EntryTimed'
    BY <1>0, <1>3 DEF PInv, PathType, EntryTimed
  <2> QED
    BY <1>1, <1>3, <2>1, QuietStep
<1>4. CASE doomed /\ UNCHANGED defrag
  BY <1>3, <1>4 DEF defrag, PInv, PathType
<1>5. CASE ~doomed /\ (FragFreed(f) \/ FragDiscard(f) \/ FragSkip(f))
  BY <1>3, <1>5 DEF defrag, FragFreed, FragDiscard, FragSkip, PInv, PathType
<1>6. CASE ~doomed /\ FragOpen(f)
  <2>1. CASE defrag_list' # defrag_list
    BY <1>0, <1>6, <2>1, OpenStep
  <2>2. CASE defrag_list' = defrag_list
    <3> DEFINE d == [key |-> f.key, next_fn |-> 1, frags |-> <<f>>, timer |-> "setup"]
    <3>0. d \notin defrag_list
      <4>1. d.key = f.key
        OBVIOUS
      <4> QED
        BY <1>6, <4>1 DEF FragOpen, Found
    <3>1. UNCHANGED <<up, arming, doomed>>
      BY <1>6, <2>2, <3>0 DEF FragOpen, Open
    <3> QED
      BY <1>3, <2>2, <3>1 DEF PInv, PathType
  <2> QED
    BY <2>1, <2>2
<1>7. CASE FragAppend(f) \/ FragNoVif(f)
  BY <1>0, <1>7, AppendStep
<1>8. CASE ~doomed /\ FragComplete(f)
  BY <1>0, <1>8, CompleteStep
<1>9. CASE ~doomed /\ FragPlain(f)
  <2>1. CASE up' = up
    BY <1>3, <1>9, <2>1 DEF FragPlain, PInv, PathType
  <2>2. CASE up' = Append(up, <<f>>)
    <3>1. <<f>> \in Seq(Pieces) /\ <<f>> # <<>> /\ Tail1(<<f>>)
      BY <1>2, <1>9 DEF FragPlain, Tail1
    <3> QED
      BY <1>0, <1>1, <1>9, <2>2, <3>1, UpStep DEF FragPlain, PInv, PathType
  <2> QED
    BY <1>9, <2>1, <2>2 DEF FragPlain, Handed
<1> QED
  BY <1>4, <1>5, <1>6, <1>7, <1>8, <1>9 DEF PathPass, Frag

-----------------------------------------------------------------------------
(* The theorems. *)

\* PInv holds of the path.
LEMMA PathInvariant == PathSpec => []PInv
<1>1. PathInit => PInv
  <2> SUFFICES ASSUME PathInit PROVE PInv
    OBVIOUS
  <2>0. up \in Seq(Seq(Pieces)) /\ 0 <= MaxBlocks
    BY SdioRxAssumption DEF PathInit, DefragInit
  <2>1. PathType
    BY <2>0 DEF PathInit, Init, DefragInit, PathType
  <2> QED
    BY <2>1 DEF PathInit, DefragInit, PInv, OneEntry, EntryTimed, WholeOrTail
<1>2. IInv /\ PInv /\ [PathNext]_path => PInv'
  <2> SUFFICES ASSUME IInv, PInv, [PathNext]_path PROVE PInv'
    OBVIOUS
  <2>1. CASE UNCHANGED path
    <3>1. UNCHANGED <<defrag_list, up, arming, doomed, passed, arrived, rxq, rx, skb>>
      BY <2>1 DEF path, defrag, vars
    <3>2. ToCome' \subseteq ToCome /\ PathType' /\ EntryTimed'
      BY <3>1 DEF PInv, ToCome, PathType, EntryTimed
    <3> QED
      BY <3>1, <3>2, QuietStep
  <2>2. CASE PathIrqRead \/ PathIrq \/ PathTake
    BY <2>2, BusStep
  <2>3. CASE PathPass
    BY <2>3, PassStep
  <2>4. CASE PathArm \/ PathTimeout
    BY <2>4, TimerStep
  <2>5. CASE PathHandle \/ PathNoMem
    BY <2>5, HandleStep
  <2>6. CASE PathRelease \/ PathPlatformDeinit \/ PathRxDeinit
    BY <2>6, RemovalStep
  <2> QED
    BY <2>1, <2>2, <2>3, <2>4, <2>5, <2>6 DEF PathNext, PathRx
<1>3. PathSpec => []IInv
  BY PathImplementsBus, SpecIInv, PTL
<1> QED
  BY <1>1, <1>2, <1>3, PTL DEF PathSpec

\* For every stream of fragments and every queue length: whatever the bus loses and
\* whenever timers expire, a frame that has its key to itself goes up whole, or its last
\* fragment does. The order of the blocks, proved of the bus, and next_fn, which is 1
\* whatever fragment comes first, are what it rests on.
THEOREM NeverJoinedAcrossAHole == PathSpec => []WholeOrTail
<1>1. PInv => WholeOrTail
  BY DEF PInv
<1> QED
  BY <1>1, PathInvariant, PTL

\* Every entry of defrag_list has a timeout coming, although its timer is started after
\* the lock is released.
THEOREM EntriesTimed == PathSpec => []EntryTimed
<1>1. PInv => EntryTimed
  BY DEF PInv
<1> QED
  BY <1>1, PathInvariant, PTL

-----------------------------------------------------------------------------
(* Without losses. *)

\* The last block that has been passed on.
Upto == IF passed THEN skb ELSE handled

\* The blocks that were handled, the one in hand and the queue are all that have arrived.
Gapless ==
    rx # "gone" =>
        /\ rx = "handle" => skb = handled + 1
        /\ \A i \in DOMAIN rxq : rxq[i] = handled + Handling + i
        /\ arrived = handled + Handling + Len(rxq)

\* What was passed on of an unfinished frame is in an entry.
Kept ==
    \A m \in 1 .. Upto :
        Stream[m].of \in Alone /\ Stream[m].more =>
            \/ \E l \in 1 .. Upto : Stream[l].of = Stream[m].of /\ ~Stream[l].more
            \/ \E e \in defrag_list : e.key = Stream[m].key /\ e.next_fn > Stream[m].fn

\* An entry begins with the first fragment and counts what it holds.
FromStart(e) == e.frags[1].of \in Alone => e.frags[1].fn = 0 /\ e.next_fn = Len(e.frags)

\* What went up of the frames that have their key to themselves.
Mine == {k \in DOMAIN up : up[k][1].of \in Alone}

\* With the first n blocks, each of their frames went up whole, once, when its last
\* fragment came.
SentWith(n, u, mine) ==
    /\ \A k \in mine : Whole(u[k]) /\ \E m \in Finished(n) : Stream[m].of = u[k][1].of
    /\ \A k, l \in mine : u[k][1].of = u[l][1].of => k = l
    /\ \A m \in Finished(n) : \E k \in mine : u[k][1].of = Stream[m].of

Sent == SentWith(Upto, up, Mine)

Lossless == Gapless /\ Kept /\ (\A e \in defrag_list : FromStart(e)) /\ Sent

\* The invariant of a path that has lost nothing.
LInv == ~lossy /\ ~doomed => Lossless

\* Blocks that have been passed on are blocks of the stream.
LEMMA UptoIs == ASSUME IInv, PathType PROVE Upto \in Nat /\ 1 .. Upto \subseteq Blocks
<1> USE SdioRxAssumption
<1>1. Upto \in Nat /\ Upto <= MaxBlocks /\ MaxBlocks \in Nat
  BY DEF IInv, TypeOK, Numbered, PathType, Upto
<1> HIDE DEF Upto
<1> QED
  BY <1>1 DEF Blocks

\* A step that passes nothing on and leaves the entries alone.
LEMMA QuietLoss ==
    ASSUME LInv, lossy => lossy', doomed => doomed', UNCHANGED <<defrag_list, up, Upto>>,
           lossy' \/ doomed' \/ (Gapless => Gapless')
    PROVE  LInv'
<1> SUFFICES ASSUME ~lossy, ~doomed, Lossless, Gapless' PROVE Lossless'
  BY DEF LInv, Lossless
<1>1. Kept' /\ \A e \in defrag_list' : FromStart(e)'
  BY DEF Lossless, Kept, FromStart
<1>2. Sent'
  BY DEF Lossless, Sent, SentWith, Mine
<1> QED
  BY <1>1, <1>2 DEF Lossless

\* The interrupt handler queues the next block, or it is lost.
LEMMA ReadLoss == ASSUME IInv, PInv, LInv, PathIrqRead PROVE LInv'
<1>1. /\ UNCHANGED <<defrag_list, up, doomed, passed, skb, handled, rx>>
      /\ arrived' = arrived + 1 /\ lossy' = (lossy \/ rxq' = rxq)
      /\ rxq' = rxq \/ rxq' = Append(rxq, arrived + 1)
  BY DEF PathIrqRead, IrqRead
<1>2. ASSUME Gapless, rxq' # rxq PROVE Gapless'
  <2>1. rxq \in Seq(Nat \ {0}) /\ handled \in Nat /\ arrived \in Nat /\ Handling \in Nat
        /\ Handling' = Handling
    BY <1>1 DEF IInv, TypeOK, Handling
  <2>2. PICK q \in Seq(Nat) : q = rxq'
    BY <1>1, <1>2, <2>1
  <2>3. /\ Len(q) = Len(rxq) + 1 /\ DOMAIN q = 1 .. Len(rxq) + 1 /\ DOMAIN rxq = 1 .. Len(rxq)
        /\ q[Len(rxq) + 1] = arrived + 1 /\ \A i \in 1 .. Len(rxq) : q[i] = rxq[i]
        /\ Len(rxq) \in Nat
    <3>1. q = Append(rxq, arrived + 1)
      BY <1>1, <1>2, <2>2
    <3>2. PICK a \in Nat : a = arrived + 1
      BY <2>1
    <3>3. q = Append(rxq, a) /\ rxq \in Seq(Nat)
      BY <2>1, <3>1, <3>2
    <3>4. /\ Len(q) = Len(rxq) + 1 /\ DOMAIN q = 1 .. Len(rxq) + 1 /\ DOMAIN rxq = 1 .. Len(rxq)
          /\ q[Len(rxq) + 1] = a /\ \A i \in 1 .. Len(rxq) : q[i] = rxq[i]
          /\ Len(rxq) \in Nat
      BY <3>3
    <3> QED
      BY <3>2, <3>4
  <2>4. ASSUME rx # "gone"
        PROVE  /\ \A i \in DOMAIN q : q[i] = handled + Handling + i
               /\ arrived + 1 = handled + Handling + Len(q)
    <3> DEFINE h == handled + Handling
    <3>1. h \in Nat /\ arrived = h + Len(rxq) /\ \A i \in DOMAIN rxq : rxq[i] = h + i
      BY <1>2, <2>1, <2>4 DEF Gapless
    <3> HIDE DEF h
    <3>2. \A i \in DOMAIN q : q[i] = h + i
      <4> TAKE i \in DOMAIN q
      <4>1. CASE i = Len(rxq) + 1
        BY <2>1, <2>3, <3>1, <4>1
      <4>2. CASE i \in 1 .. Len(rxq)
        BY <2>3, <3>1, <4>2
      <4> QED
        BY <2>3, <4>1, <4>2
    <3>3. arrived + 1 = h + Len(q)
      BY <2>1, <2>3, <3>1
    <3> QED
      BY <3>2, <3>3 DEF h
  <2> QED
    BY <1>1, <1>2, <2>1, <2>2, <2>4 DEF Gapless
<1>3. Upto' = Upto
  BY <1>1 DEF Upto
<1> QED
  BY <1>1, <1>2, <1>3, QuietLoss

\* The receive thread takes the next block.
LEMMA TakeLoss == ASSUME IInv, PInv, LInv, PathTake PROVE LInv'
<1>1. /\ UNCHANGED <<defrag_list, up, lossy, doomed, passed, handled, arrived>>
      /\ rx \in {"idle", "loop"}
  BY DEF PathTake, RxWake, RxTake, defrag
<1>2. ~passed
  BY <1>1 DEF PInv, PathType
<1>3. Upto' = Upto
  BY <1>1, <1>2 DEF Upto
<1>4. ASSUME Gapless PROVE Gapless'
  <2>1. CASE rx' \in {"idle", "loop"} /\ rxq' = rxq
    <3>1. Handling' = Handling
      BY <1>1, <2>1 DEF Handling
    <3> QED
      BY <1>1, <1>4, <2>1, <3>1 DEF Gapless
  <2>2. CASE rx = "loop" /\ rxq # <<>> /\ skb' = Head(rxq) /\ rxq' = Tail(rxq) /\ rx' = "handle"
    <3>1. /\ rxq \in Seq(Nat \ {0}) /\ handled \in Nat /\ arrived \in Nat
          /\ Handling = 0 /\ Handling' = 1
      BY <2>2 DEF IInv, TypeOK, Handling
    <3>2. PICK q \in Seq(Nat) : q = rxq'
      BY <2>2, <3>1
    <3>3. /\ Len(rxq) = Len(q) + 1 /\ DOMAIN q = 1 .. Len(q) /\ DOMAIN rxq = 1 .. Len(q) + 1
          /\ skb' = rxq[1] /\ \A i \in 1 .. Len(q) : q[i] = rxq[i + 1]
          /\ Len(q) \in Nat
      BY <2>2, <3>1, <3>2
    <3>4. /\ \A i \in DOMAIN rxq : rxq[i] = handled + 0 + i
          /\ arrived = handled + 0 + Len(rxq)
      BY <1>4, <2>2, <3>1 DEF Gapless
    <3>5. \A i \in DOMAIN q : q[i] = handled + 1 + i
      <4> TAKE i \in DOMAIN q
      <4>1. i \in Nat /\ i + 1 \in DOMAIN rxq /\ q[i] = rxq[i + 1]
        BY <3>3
      <4>2. q[i] = handled + 0 + (i + 1)
        BY <3>4, <4>1
      <4> QED
        BY <3>1, <4>1, <4>2
    <3>6. skb' = handled + 1
      <4>1. 1 \in DOMAIN rxq
        BY <3>3
      <4>2. skb' = handled + 0 + 1
        BY <3>3, <3>4, <4>1
      <4> QED
        BY <3>1, <4>2
    <3>7. arrived = handled + 1 + Len(q)
      BY <3>1, <3>3, <3>4
    <3> QED
      BY <1>1, <2>2, <3>1, <3>2, <3>5, <3>6, <3>7 DEF Gapless
  <2> QED
    BY <1>1, <2>1, <2>2 DEF PathTake, RxWake, RxTake
<1> QED
  BY <1>1, <1>3, <1>4, QuietLoss

\* The block in hand has been handled, or given up for want of memory.
LEMMA HandleLoss == ASSUME IInv, PInv, LInv, PathHandle \/ PathNoMem PROVE LInv'
<1>1. CASE PathNoMem
  BY <1>1 DEF PathNoMem, LInv
<1>2. CASE PathHandle
  <2>1. /\ UNCHANGED <<defrag_list, up, lossy, doomed, arrived, rxq>>
        /\ rx = "handle" /\ rx' = "loop" /\ passed /\ passed' = FALSE /\ handled' = skb
    BY <1>2 DEF PathHandle, RxHandle, defrag
  <2>2. Upto' = Upto
    BY <2>1 DEF Upto
  <2>3. ASSUME Gapless PROVE Gapless'
    <3>1. handled \in Nat /\ Handling = 1 /\ Handling' = 0 /\ handled' = handled + 1
      BY <2>1, <2>3 DEF IInv, TypeOK, Handling, Gapless
    <3>2. /\ \A i \in DOMAIN rxq : rxq[i] = handled + 1 + i
          /\ arrived = handled + 1 + Len(rxq)
      BY <2>1, <2>3, <3>1 DEF Gapless
    <3>3. handled + 1 + 0 = handled + 1
      BY <3>1
    <3> QED
      BY <2>1, <3>1, <3>2, <3>3 DEF Gapless
  <2> QED
    BY <2>1, <2>2, <2>3, QuietLoss
<1> QED
  BY <1>1, <1>2

\* The other steps of the bus, and the removal.
LEMMA RemovalLoss ==
    ASSUME IInv, PInv, LInv, PathIrq \/ PathRelease \/ PathPlatformDeinit \/ PathRxDeinit
    PROVE  LInv'
<1>1. /\ UNCHANGED <<defrag_list, up, lossy, passed, skb, handled, arrived>>
      /\ doomed => doomed'
      /\ (rx' = rx /\ rxq' = rxq) \/ rx' = "gone"
  <2>1. CASE PathIrq
    BY <2>1 DEF PathIrq, IrqCount, IrqCheck, defrag
  <2>2. CASE PathRelease
    BY <2>2 DEF PathRelease, Release, defrag
  <2>3. CASE PathPlatformDeinit
    BY <2>3 DEF PathPlatformDeinit, PlatformDeinit, vars
  <2>4. CASE PathRxDeinit
    BY <2>4 DEF PathRxDeinit, RxDeinit, defrag
  <2> QED
    BY <2>1, <2>2, <2>3, <2>4
<1>2. Upto' = Upto
  BY <1>1 DEF Upto
<1>3. Gapless => Gapless'
  BY <1>1 DEF Gapless, Handling
<1> QED
  BY <1>1, <1>2, <1>3, QuietLoss

\* A timer leaves what its entry holds alone, or throws it away, which is a loss.
LEMMA TimerLoss == ASSUME PInv, LInv, PathArm \/ PathTimeout PROVE LInv'
<1>0. CASE CbExpire
  BY <1>0 DEF CbExpire, LInv
<1>1. CASE ~CbExpire
  <2>1. PICK e \in defrag_list, t \in {"pending", "running"} :
          /\ defrag_list' = (defrag_list \ {e}) \cup {[e EXCEPT !.timer = t]}
          /\ UNCHANGED <<up, lossy, doomed, passed, vars>>
    BY <1>1 DEF PathArm, PathTimeout, Arm, CbBegin, SetTimer
  <2>2. PICK d : d = [e EXCEPT !.timer = t]
    OBVIOUS
  <2>3. d.key = e.key /\ d.frags = e.frags /\ d.next_fn = e.next_fn
    BY <2>2 DEF PInv, PathType, Entries
  <2>4. Upto' = Upto /\ (Gapless => Gapless')
    BY <2>1 DEF Upto, Gapless, Handling, vars
  <2>5. Kept => Kept'
    <3> SUFFICES ASSUME Kept PROVE Kept'
      OBVIOUS
    <3>1. PICK L, n : L = defrag_list' /\ n = Upto'
      OBVIOUS
    <3>2. n = Upto /\ L = (defrag_list \ {e}) \cup {d}
      BY <2>1, <2>2, <2>4, <3>1
    <3>3. ASSUME NEW m \in 1 .. n, Stream[m].of \in Alone, Stream[m].more
          PROVE  \/ \E l \in 1 .. n : Stream[l].of = Stream[m].of /\ ~Stream[l].more
                 \/ \E c \in L : c.key = Stream[m].key /\ c.next_fn > Stream[m].fn
      <4>1. \/ \E l \in 1 .. n : Stream[l].of = Stream[m].of /\ ~Stream[l].more
            \/ \E c \in defrag_list : c.key = Stream[m].key /\ c.next_fn > Stream[m].fn
        BY <3>2, <3>3 DEF Kept
      <4>2. ASSUME NEW c \in defrag_list, c.key = Stream[m].key, c.next_fn > Stream[m].fn
            PROVE  \E b \in L : b.key = Stream[m].key /\ b.next_fn > Stream[m].fn
        <5>1. CASE c = e
          BY <2>3, <3>2, <4>2, <5>1
        <5>2. CASE c # e
          BY <3>2, <4>2, <5>2
        <5> QED
          BY <5>1, <5>2
      <4> QED
        BY <4>1, <4>2
    <3> QED
      BY <3>1, <3>3 DEF Kept
  <2>6. (\A c \in defrag_list : FromStart(c)) => (\A c \in defrag_list' : FromStart(c)')
    BY <2>1, <2>2, <2>3 DEF FromStart
  <2>7. Sent => Sent'
    BY <2>1, <2>4 DEF Sent, SentWith, Mine
  <2> QED
    BY <2>1, <2>4, <2>5, <2>6, <2>7 DEF LInv, Lossless
<1> QED
  BY <1>0, <1>1

-----------------------------------------------------------------------------
(* One fragment of a path that has lost nothing. *)

\* The thread passes on the block after those that were passed on.
Passing ==
    /\ IInv /\ PInv /\ Lossless
    /\ rx = "handle" /\ ~passed /\ passed' = TRUE /\ UNCHANGED vars

\* Where that block stands in the stream.
LEMMA PassingFacts ==
    ASSUME Passing
    PROVE  /\ Upto \in Nat /\ skb = Upto + 1 /\ Upto' = Upto + 1 /\ Gapless'
           /\ skb \in ToCome /\ 1 .. skb \subseteq Blocks /\ skb \in Blocks
           /\ Stream[skb] \in Pieces
           /\ Stream[skb].fn \in Nat /\ Stream[skb].more \in BOOLEAN
<1>1. skb \in Blocks /\ skb \in ToCome
  BY ThisIsNext DEF Passing, PInv
<1>2. Upto = handled /\ skb = handled + 1 /\ handled \in Nat
  BY DEF Passing, Upto, Lossless, Gapless, IInv, TypeOK
<1>3. Upto' = skb
  BY DEF Passing, Upto, vars
<1>4. Gapless'
  BY DEF Passing, Gapless, Lossless, Handling, vars
<1>5. 1 .. skb \subseteq Blocks
  BY <1>1, SdioRxAssumption DEF Blocks
<1>6. Stream[skb].fn \in Nat /\ Stream[skb].more \in BOOLEAN
  BY <1>1, StreamAssumption
<1> QED
  BY <1>1, <1>2, <1>3, <1>4, <1>5, <1>6 DEF Pieces

\* The earlier blocks of its frame.
LEMMA Earlier ==
    ASSUME Passing, NEW m \in 1 .. Upto, Stream[m].of = Stream[skb].of
    PROVE  Stream[m].fn \in Nat /\ Stream[m].fn < Stream[skb].fn /\ Stream[m].more
<1>1. m \in Blocks /\ skb \in Blocks /\ m < skb
  BY PassingFacts
<1> QED
  BY <1>1, StreamAssumption

\* The entry of a frame that has its key to itself waits for the fragment in hand.
LEMMA EntryOf ==
    ASSUME Passing, Stream[skb].of \in Alone, NEW e \in defrag_list, e.key = Stream[skb].key
    PROVE  /\ e.frags[1].of = Stream[skb].of /\ Stream[skb].fn > 0
           /\ Found(Stream[skb]) = {e}
           /\ e.next_fn \in Nat /\ e.next_fn = Len(e.frags) /\ e.next_fn <= Stream[skb].fn
<1>0. PICK f : f = Stream[skb]
  OBVIOUS
<1>1. f \in Pieces /\ skb \in ToCome /\ f.fn \in Nat
  BY <1>0, PassingFacts
<1>2. /\ e.frags \in Seq(Pieces) /\ Len(e.frags) >= 1 /\ e.next_fn \in Nat
      /\ Collected(e) /\ Sound(e) /\ FromStart(e)
  BY DEF Passing, PInv, PathType, Entries, Lossless, Collected
<1>3. PICK s \in Seq(Pieces) : s = e.frags
  BY <1>2
<1>4. Len(s) \in Nat /\ Len(s) >= 1 /\ DOMAIN s = 1 .. Len(s)
  BY <1>2, <1>3
<1>5. 1 \in DOMAIN s /\ Len(s) \in DOMAIN s /\ \A k \in DOMAIN s : s[k] \in Pieces
  BY <1>3, <1>4
<1>6. \A k \in DOMAIN s : s[k].key = f.key
  BY <1>0, <1>2, <1>3 DEF Collected
<1>7. \A k \in DOMAIN s : s[k].of = f.of
  BY <1>0, <1>1, <1>5, <1>6, AloneKey
<1>8. \A k \in DOMAIN s : s[k].fn < f.fn /\ s[k].more
  BY <1>0, <1>1, <1>2, <1>3, <1>7 DEF Collected
<1>9. s[1].fn = 0 /\ e.next_fn = Len(s)
  BY <1>0, <1>2, <1>3, <1>5, <1>7 DEF FromStart
<1>10. f.fn > 0
  BY <1>1, <1>5, <1>8, <1>9
<1>11. ~Stuck(e)
  BY <1>3, <1>9 DEF Stuck
<1>12. Prefix(e)
  BY <1>0, <1>2, <1>3, <1>5, <1>7, <1>11 DEF Sound
<1>13. s[Len(s)].fn = Len(s) - 1
  BY <1>3, <1>5, <1>12 DEF Prefix
<1>14. Len(s) - 1 < f.fn
  BY <1>5, <1>8, <1>13
<1>15. Len(s) <= f.fn
  BY <1>1, <1>4, <1>14
<1>16. Found(f) = {e}
  BY <1>0 DEF Found, Passing, PInv, OneEntry
<1> QED
  BY <1>0, <1>2, <1>3, <1>5, <1>7, <1>9, <1>10, <1>15, <1>16

\* A first fragment finds no entry, and a later one the entry that waits for it.
LEMMA Expected ==
    ASSUME Complete, Passing, Stream[skb].of \in Alone
    PROVE  /\ Stream[skb].fn = 0 => Found(Stream[skb]) = {}
           /\ Stream[skb].fn > 0 => \E e \in defrag_list :
                  /\ Found(Stream[skb]) = {e} /\ e.key = Stream[skb].key
                  /\ Wanted(e, Stream[skb]) /\ e.next_fn \in Nat
                  /\ e.next_fn = Len(e.frags) /\ e.frags[1].of = Stream[skb].of
<1>0. PICK f : f = Stream[skb]
  OBVIOUS
<1>1. f.fn \in Nat /\ Upto \in Nat /\ skb = Upto + 1 /\ skb \in Blocks
  BY <1>0, PassingFacts
<1>2. ASSUME f.fn = 0 PROVE Found(f) = {}
  BY <1>0, <1>1, <1>2, EntryOf DEF Found
<1>3. ASSUME f.fn > 0
      PROVE  \E e \in defrag_list : /\ Found(f) = {e} /\ e.key = f.key /\ Wanted(e, f)
                                    /\ e.next_fn \in Nat
                                    /\ e.next_fn = Len(e.frags) /\ e.frags[1].of = f.of
  <2>1. PICK m \in 1 .. skb - 1 : Stream[m].of = f.of /\ Stream[m].fn = f.fn - 1
    BY <1>0, <1>1, <1>3 DEF Complete
  <2>2. m \in 1 .. Upto /\ Stream[m].more
    <3>1. m \in 1 .. Upto
      BY <1>1, <2>1
    <3> QED
      BY <1>0, <2>1, <3>1, Earlier
  <2>3. ~\E l \in 1 .. Upto : Stream[l].of = Stream[m].of /\ ~Stream[l].more
    BY <1>0, <2>1, Earlier
  <2>4. PICK e \in defrag_list : e.key = Stream[m].key /\ e.next_fn > Stream[m].fn
    BY <1>0, <2>1, <2>2, <2>3 DEF Passing, Lossless, Kept
  <2>5. Stream[m].key = f.key
    <3>1. m \in Blocks /\ m < skb
      BY <1>1, <2>1, PassingFacts
    <3> QED
      BY <1>0, <1>1, <2>1, <3>1, StreamAssumption
  <2>6. /\ Found(f) = {e} /\ e.frags[1].of = f.of
        /\ e.next_fn \in Nat /\ e.next_fn = Len(e.frags) /\ e.next_fn <= f.fn
    BY <1>0, <2>4, <2>5, EntryOf
  <2>7. e.next_fn = f.fn
    BY <1>1, <2>1, <2>4, <2>6
  <2> QED
    BY <2>4, <2>5, <2>6, <2>7 DEF Wanted
<1> QED
  BY <1>0, <1>2, <1>3

\* What is under another key than that of a frame in Alone belongs to another frame.
LEMMA KeyTells ==
    ASSUME Passing, NEW m \in 1 .. Upto, Stream[m].of \in Alone \/ Stream[skb].of \in Alone,
           Stream[m].key = Stream[skb].key
    PROVE  Stream[m].of = Stream[skb].of
<1>1. m \in Blocks /\ skb \in Blocks
  BY PassingFacts
<1> QED
  BY <1>1, AloneKey DEF Pieces

\* What went up, with one more at its end.
LEMMA OneMore ==
    ASSUME NEW s \in Seq(Seq(Pieces)), NEW g \in Seq(Pieces), NEW u, u = Append(s, g)
    PROVE  \E j : /\ j \notin DOMAIN s /\ u[j] = g /\ DOMAIN u = DOMAIN s \cup {j}
                  /\ \A k \in DOMAIN s : u[k] = s[k]
<1>1. PICK j \in Nat : j = Len(s) + 1
  OBVIOUS
<1>2. DOMAIN s = 1 .. Len(s) /\ Len(s) \in Nat /\ DOMAIN u = 1 .. j
  BY <1>1
<1>3. j \notin DOMAIN s /\ DOMAIN u = DOMAIN s \cup {j}
  BY <1>1, <1>2
<1>4. u[j] = g /\ \A k \in DOMAIN s : u[k] = s[k]
  BY <1>1, <1>2
<1> QED
  BY <1>3, <1>4

\* What the step makes of the frames that went up.
LEMMA SentIs ==
    ASSUME NEW n, NEW u, NEW mine, n = Upto', u = up', mine = Mine', SentWith(n, u, mine)
    PROVE  Sent'
BY DEF Sent, SentWith, Whole

\* A fragment of a frame that shares its key leaves the frames in Alone what they are.
LEMMA OtherLoss ==
    ASSUME Passing, Stream[skb].of \notin Alone,
           \A e \in defrag_list : e.key # Stream[skb].key => e \in defrag_list',
           \A c \in defrag_list' : c \in defrag_list \/ c.frags[1].of \notin Alone,
           up' = up \/ \E g \in Seq(Pieces) : up' = Append(up, g) /\ g[1].of \notin Alone
    PROVE  Lossless'
<1>1. /\ Upto \in Nat /\ Upto' = Upto + 1 /\ skb = Upto + 1 /\ Gapless'
      /\ Lossless /\ up \in Seq(Seq(Pieces))
  BY PassingFacts DEF Passing, PInv, PathType
<1>2. PICK n \in Nat : n = Upto'
  BY <1>1
<1>3. \A m \in 1 .. n : m \in 1 .. Upto \/ m = skb
  BY <1>1, <1>2
<1>4. 1 .. Upto \subseteq 1 .. n
  BY <1>1, <1>2
<1>5. Kept'
  <2>1. ASSUME NEW m \in 1 .. n, Stream[m].of \in Alone, Stream[m].more
        PROVE  \/ \E l \in 1 .. n : Stream[l].of = Stream[m].of /\ ~Stream[l].more
               \/ \E e \in defrag_list' : e.key = Stream[m].key /\ e.next_fn > Stream[m].fn
    <3>1. m \in 1 .. Upto
      BY <1>3, <2>1
    <3>2. Stream[m].key # Stream[skb].key
      BY <2>1, <3>1, KeyTells
    <3> QED
      BY <1>1, <1>4, <2>1, <3>1, <3>2 DEF Lossless, Kept
  <2> QED
    BY <1>2, <2>1 DEF Kept
<1>6. \A c \in defrag_list' : FromStart(c)'
  BY <1>1 DEF Lossless, FromStart
<1>7. Finished(n) = Finished(Upto)
  BY <1>3, <1>4 DEF Finished
<1>8. PICK u : u = up'
  OBVIOUS
<1>9. {k \in DOMAIN u : u[k][1].of \in Alone} = Mine /\ \A k \in Mine : u[k] = up[k]
  <2>1. CASE u = up
    BY <2>1 DEF Mine
  <2>2. ASSUME NEW g \in Seq(Pieces), u = Append(up, g), g[1].of \notin Alone
        PROVE  {k \in DOMAIN u : u[k][1].of \in Alone} = Mine /\ \A k \in Mine : u[k] = up[k]
    <3>1. PICK j : /\ j \notin DOMAIN up /\ u[j] = g /\ DOMAIN u = DOMAIN up \cup {j}
                   /\ \A k \in DOMAIN up : u[k] = up[k]
      <4>1. up \in Seq(Seq(Pieces))
        BY <1>1
      <4> QED
        BY ONLY <2>2, <4>1, OneMore
    <3> QED
      BY <2>2, <3>1 DEF Mine
  <2> QED
    BY <1>8, <2>1, <2>2
<1>10. Sent'
  <2>1. Sent
    BY <1>1 DEF Lossless
  <2>2. Mine' = Mine
    BY <1>8, <1>9 DEF Mine
  <2>3. SentWith(n, u, Mine)
    BY <1>7, <1>9, <2>1 DEF Sent, SentWith
  <2> QED
    BY <1>2, <1>8, <2>2, <2>3, SentIs
<1> QED
  BY <1>1, <1>5, <1>6, <1>10 DEF Lossless

\* A fragment with more to come: the entry of its frame now waits for the next one.
LEMMA MoreLoss ==
    ASSUME Passing, Stream[skb].of \in Alone, Stream[skb].more, up' = up,
           NEW d, d.key = Stream[skb].key, d.next_fn \in Nat, d.next_fn > Stream[skb].fn,
           FromStart(d),
           defrag_list' = (defrag_list \ Found(Stream[skb])) \cup {d}
    PROVE  Lossless'
<1>1. /\ Upto \in Nat /\ Upto' = Upto + 1 /\ skb = Upto + 1 /\ Gapless' /\ Lossless
      /\ Stream[skb].fn \in Nat
  BY PassingFacts DEF Passing
<1>2. PICK n \in Nat : n = Upto'
  BY <1>1
<1>3. \A m \in 1 .. n : m \in 1 .. Upto \/ m = skb
  BY <1>1, <1>2
<1>4. 1 .. Upto \subseteq 1 .. n
  BY <1>1, <1>2
<1>5. Kept'
  <2>1. ASSUME NEW m \in 1 .. n, Stream[m].of \in Alone, Stream[m].more
        PROVE  \/ \E l \in 1 .. n : Stream[l].of = Stream[m].of /\ ~Stream[l].more
               \/ \E e \in defrag_list' : e.key = Stream[m].key /\ e.next_fn > Stream[m].fn
    <3>1. CASE m = skb
      BY <3>1
    <3>2. CASE m \in 1 .. Upto /\ Stream[m].key = Stream[skb].key
      <4>1. Stream[m].fn \in Nat /\ Stream[m].fn < Stream[skb].fn
        BY <3>2, KeyTells, Earlier
      <4>2. d.next_fn > Stream[m].fn
        BY <1>1, <4>1
      <4> QED
        BY <3>2, <4>2
    <3>3. CASE m \in 1 .. Upto /\ Stream[m].key # Stream[skb].key
      BY <1>1, <1>4, <2>1, <3>3 DEF Lossless, Kept, Found
    <3> QED
      BY <1>3, <2>1, <3>1, <3>2, <3>3
  <2> QED
    BY <1>2, <2>1 DEF Kept
<1>6. \A c \in defrag_list' : FromStart(c)'
  BY <1>1 DEF Lossless, FromStart
<1>7. Finished(n) = Finished(Upto)
  BY <1>3, <1>4 DEF Finished
<1>8. Sent'
  <2>1. SentWith(n, up, Mine) /\ Mine' = Mine
    BY <1>1, <1>7 DEF Lossless, Sent, SentWith, Mine
  <2> QED
    BY <1>2, <2>1, SentIs
<1> QED
  BY <1>1, <1>5, <1>6, <1>8 DEF Lossless

\* The last fragment: the frame goes up, whole and for the first time.
LEMMA LastLoss ==
    ASSUME Passing, Stream[skb].of \in Alone, ~Stream[skb].more,
           NEW g \in Seq(Pieces), up' = Append(up, g), Whole(g), g[1].of = Stream[skb].of,
           defrag_list' = defrag_list \ Found(Stream[skb])
    PROVE  Lossless'
<1>1. /\ Upto \in Nat /\ Upto' = Upto + 1 /\ skb = Upto + 1 /\ Gapless' /\ Lossless
      /\ up \in Seq(Seq(Pieces))
  BY PassingFacts DEF Passing, PInv, PathType
<1>2. PICK n \in Nat : n = Upto'
  BY <1>1
<1>3. (\A m \in 1 .. n : m \in 1 .. Upto \/ m = skb) /\ skb \in 1 .. n
  BY <1>1, <1>2
<1>4. 1 .. Upto \subseteq 1 .. n
  BY <1>1, <1>2
<1>5. Kept'
  <2>1. ASSUME NEW m \in 1 .. n, Stream[m].of \in Alone, Stream[m].more
        PROVE  \/ \E l \in 1 .. n : Stream[l].of = Stream[m].of /\ ~Stream[l].more
               \/ \E e \in defrag_list' : e.key = Stream[m].key /\ e.next_fn > Stream[m].fn
    <3>1. m \in 1 .. Upto
      BY <1>3, <2>1
    <3>2. CASE Stream[m].key = Stream[skb].key
      BY <1>3, <3>1, <3>2, KeyTells
    <3>3. CASE Stream[m].key # Stream[skb].key
      BY <1>1, <1>4, <2>1, <3>1, <3>3 DEF Lossless, Kept, Found
    <3> QED
      BY <3>2, <3>3
  <2> QED
    BY <1>2, <2>1 DEF Kept
<1>6. \A c \in defrag_list' : FromStart(c)'
  BY <1>1 DEF Lossless, FromStart
<1>7. Finished(n) = Finished(Upto) \cup {skb}
  BY <1>3, <1>4 DEF Finished
<1>8. \A m \in Finished(Upto) : Stream[m].of # Stream[skb].of
  BY Earlier DEF Finished
<1>9. PICK u, j : /\ u = up' /\ j \notin DOMAIN up /\ u[j] = g /\ DOMAIN u = DOMAIN up \cup {j}
                  /\ \A k \in DOMAIN up : u[k] = up[k]
  <2>1. PICK u : u = up' /\ u = Append(up, g)
    OBVIOUS
  <2>2. \E j : /\ j \notin DOMAIN up /\ u[j] = g /\ DOMAIN u = DOMAIN up \cup {j}
               /\ \A k \in DOMAIN up : u[k] = up[k]
    <3>1. up \in Seq(Seq(Pieces)) /\ g \in Seq(Pieces)
      BY <1>1
    <3> QED
      BY ONLY <2>1, <3>1, OneMore
  <2> QED
    BY <2>1, <2>2
<1>10. Mine' = Mine \cup {j} /\ j \notin Mine
  BY <1>9 DEF Mine
<1>11. Sent'
  <2>1. Sent
    BY <1>1 DEF Lossless
  <2>2. PICK mine : mine = Mine \cup {j}
    OBVIOUS
  <2>3. \A k \in Mine : u[k] = up[k] /\ up[k][1].of # Stream[skb].of
    BY <1>8, <1>9, <2>1 DEF Sent, SentWith, Mine
  <2>4. ASSUME NEW k \in mine PROVE Whole(u[k]) /\ \E m \in Finished(n) : Stream[m].of = u[k][1].of
    <3>1. CASE k \in Mine
      <4>1. PICK m \in Finished(Upto) : Stream[m].of = up[k][1].of
        BY <2>1, <3>1 DEF Sent, SentWith
      <4>2. Whole(up[k])
        BY <2>1, <3>1 DEF Sent, SentWith
      <4> QED
        BY <1>7, <2>3, <3>1, <4>1, <4>2
    <3>2. CASE k = j
      BY <1>7, <1>9, <3>2
    <3> QED
      BY <2>2, <2>4, <3>1, <3>2
  <2>5. ASSUME NEW k \in mine, NEW l \in mine, u[k][1].of = u[l][1].of PROVE k = l
    <3>1. u[j][1].of = Stream[skb].of
      BY <1>9
    <3>2. CASE k \in Mine /\ l \in Mine
      <4>1. up[k][1].of = up[l][1].of
        BY <2>3, <2>5, <3>2
      <4> QED
        BY <2>1, <3>2, <4>1 DEF Sent, SentWith
    <3>3. CASE k \in Mine /\ l = j
      BY <2>3, <2>5, <3>1, <3>3
    <3>4. CASE k = j /\ l \in Mine
      BY <2>3, <2>5, <3>1, <3>4
    <3> QED
      BY <2>2, <2>5, <3>2, <3>3, <3>4
  <2>6. ASSUME NEW m \in Finished(n) PROVE \E k \in mine : u[k][1].of = Stream[m].of
    <3>1. CASE m \in Finished(Upto)
      <4>1. PICK k \in Mine : up[k][1].of = Stream[m].of
        BY <2>1, <3>1 DEF Sent, SentWith
      <4> QED
        BY <2>2, <2>3, <4>1
    <3>2. CASE m = skb
      BY <1>9, <2>2, <3>2
    <3> QED
      BY <1>7, <2>6, <3>1, <3>2
  <2>7. SentWith(n, u, mine) /\ Mine' = mine
    BY <1>10, <2>2, <2>4, <2>5, <2>6 DEF SentWith
  <2> QED
    BY <1>2, <1>9, <2>7, SentIs
<1> QED
  BY <1>1, <1>5, <1>6, <1>11 DEF Lossless

\* Passing one fragment on: an entry is opened, grows, or gives its frame up to the stack.
LEMMA PassLoss == ASSUME Complete, IInv, PInv, LInv, PathPass PROVE LInv'
<1> SUFFICES ASSUME ~lossy', ~doomed' PROVE Lossless'
  BY DEF LInv
<1>0. PICK f : f = Stream[skb]
  OBVIOUS
<1>1. /\ rx = "handle" /\ ~passed /\ passed' = TRUE /\ UNCHANGED vars
      /\ \/ FragOpen(f) \/ FragDiscard(f) \/ FragAppend(f) \/ FragComplete(f) \/ FragPlain(f)
  BY <1>0 DEF PathPass, Frag, FragFreed, FragNoVif, FragSkip, defrag
<1>2. ~lossy /\ ~doomed
  <2>1. ~doomed
    BY DEF PathPass, Frag, defrag
  <2>2. ~lossy
    BY <1>1 DEF FragOpen, FragDiscard, FragAppend, FragComplete, FragPlain, defrag
  <2> QED
    BY <2>1, <2>2
<1>3. Passing
  BY <1>1, <1>2 DEF Passing, LInv
<1>4. f \in Pieces /\ f.fn \in Nat /\ f.more \in BOOLEAN /\ skb \in ToCome
  BY <1>0, <1>3, PassingFacts
<1>5. \A e \in defrag_list : /\ e \in Entries /\ Collected(e)
                             /\ e.frags[1] \in Pieces /\ e.frags[1].key = e.key
  <2> TAKE e \in defrag_list
  <2>1. e \in Entries /\ Collected(e)
    BY DEF PInv, PathType
  <2>2. PICK s \in Seq(Pieces) : s = e.frags
    BY <2>1 DEF Entries
  <2>3. 1 \in DOMAIN s
    BY <2>1, <2>2 DEF Collected
  <2> QED
    BY <2>1, <2>2, <2>3 DEF Collected
<1>6. CASE FragOpen(f)
  <2>1. PICK d : d = [key |-> f.key, next_fn |-> 1, frags |-> <<f>>, timer |-> "setup"]
    OBVIOUS
  <2>2. /\ d.key = f.key /\ d.next_fn = 1 /\ d.frags[1] = f /\ Len(d.frags) = 1
    BY <2>1
  <2>3. /\ f.more /\ Found(f) = {} /\ up' = up /\ defrag_list' = defrag_list \cup {d}
    BY <1>6, <2>1 DEF FragOpen, Open
  <2>4. CASE f.of \notin Alone
    BY <1>0, <1>3, <2>2, <2>3, <2>4, OtherLoss
  <2>5. CASE f.of \in Alone
    <3>1. f.fn = 0
      BY <1>0, <1>3, <1>4, <2>3, <2>5, Expected
    <3>2. FromStart(d) /\ d.next_fn > f.fn /\ d.next_fn \in Nat
      BY <2>2, <3>1 DEF FromStart
    <3> QED
      BY <1>0, <1>3, <2>2, <2>3, <2>5, <3>2, MoreLoss
  <2> QED
    BY <2>4, <2>5
<1>7. CASE FragDiscard(f)
  <2>1. UNCHANGED <<defrag_list, up>> /\ \E e \in Found(f) : ~Wanted(e, f)
    BY <1>7 DEF FragDiscard, defrag
  <2>2. f.of \notin Alone
    BY <1>0, <1>3, <1>4, <2>1, Expected
  <2> QED
    BY <1>0, <1>3, <2>1, <2>2, OtherLoss
<1>8. CASE FragAppend(f)
  <2>1. PICK e \in defrag_list :
          /\ e.key = f.key /\ Wanted(e, f) /\ f.more /\ up' = up
          /\ defrag_list' = (defrag_list \ {e}) \cup
                 {[e EXCEPT !.next_fn = @ + 1, !.frags = Append(@, f)]}
    BY <1>8 DEF FragAppend, Found
  <2>2. PICK s \in Seq(Pieces) : s = e.frags /\ Len(s) >= 1
    BY <1>5 DEF Entries, Collected
  <2>3. PICK g \in Seq(Pieces) : g = Append(s, f)
    <3>1. Append(s, f) \in Seq(Pieces)
      BY <1>4, <2>2
    <3> QED
      BY <3>1
  <2>4. g[1] = s[1] /\ Len(g) = Len(s) + 1 /\ Len(s) \in Nat
    BY <1>4, <2>2, <2>3
  <2>5. e.next_fn = f.fn /\ e.next_fn \in Nat
    BY <1>5, <2>1 DEF Entries, Wanted
  <2>6. PICK p \in Nat : p = e.next_fn + 1
    BY <2>5
  <2>7. PICK d : d = [e EXCEPT !.next_fn = p, !.frags = g]
    OBVIOUS
  <2>8. d.key = e.key /\ d.next_fn = p /\ d.frags = g
    BY <1>5, <2>7 DEF Entries
  <2>9. defrag_list' = (defrag_list \ {e}) \cup {d}
    BY <2>1, <2>2, <2>3, <2>6, <2>7
  <2>10. CASE f.of \notin Alone
    <3>1. g[1].of \notin Alone
      BY <1>4, <1>5, <2>1, <2>2, <2>4, <2>10, AloneKey
    <3> QED
      BY <1>0, <1>3, <2>1, <2>8, <2>9, <2>10, <3>1, OtherLoss
  <2>11. CASE f.of \in Alone
    <3>1. Found(f) = {e} /\ e.next_fn = Len(s)
      BY <1>0, <1>3, <2>1, <2>2, <2>11, EntryOf
    <3>2. FromStart(e)
      BY <1>3 DEF Passing, Lossless
    <3>3. FromStart(d)
      BY <2>2, <2>4, <2>5, <2>6, <2>8, <3>1, <3>2 DEF FromStart
    <3>4. d.next_fn > f.fn /\ d.next_fn \in Nat
      BY <2>5, <2>6, <2>8
    <3> QED
      BY <1>0, <1>3, <2>1, <2>8, <2>9, <2>11, <3>1, <3>3, <3>4, MoreLoss
  <2> QED
    BY <2>10, <2>11
<1>9. CASE FragComplete(f)
  <2>1. PICK e \in defrag_list :
          /\ e.key = f.key /\ Wanted(e, f) /\ ~f.more
          /\ defrag_list' = defrag_list \ {e} /\ up' = Append(up, Append(e.frags, f))
    BY <1>9 DEF FragComplete, Found, Handed
  <2>2. PICK g : g = Append(e.frags, f)
    OBVIOUS
  <2>3. /\ g \in Seq(Pieces) /\ Len(g) = Len(e.frags) + 1 /\ g[Len(g)] = f
        /\ \A k \in 1 .. Len(e.frags) : g[k] = e.frags[k]
        /\ g[1].of \in Alone =>
              /\ \A k \in DOMAIN g : g[k].of = g[1].of /\ g[k].fn = k - 1
              /\ \A k \in 1 .. Len(e.frags) : g[k].more
    BY <1>0, <1>4, <2>1, <2>2, Extended
  <2>4. Len(e.frags) \in Nat /\ Len(e.frags) >= 1
    BY <1>5 DEF Collected, Entries
  <2>5. g[1] = e.frags[1] /\ DOMAIN g = 1 .. Len(e.frags) + 1
    BY <2>3, <2>4
  <2>6. CASE f.of \notin Alone
    <3>1. g[1].of \notin Alone
      BY <1>4, <1>5, <2>1, <2>5, <2>6, AloneKey
    <3> QED
      BY <1>0, <1>3, <2>1, <2>2, <2>3, <2>6, <3>1, OtherLoss
  <2>7. CASE f.of \in Alone
    <3>1. Found(f) = {e} /\ g[1].of = f.of
      BY <1>0, <1>3, <2>1, <2>5, <2>7, EntryOf
    <3>2. \A k \in DOMAIN g : g[k].more <=> k < Len(g)
      <4> TAKE k \in DOMAIN g
      <4>1. CASE k \in 1 .. Len(e.frags)
        BY <2>3, <2>4, <2>7, <3>1, <4>1
      <4>2. CASE k = Len(g)
        BY <2>1, <2>3, <2>4, <4>2
      <4> QED
        BY <2>3, <2>4, <2>5, <4>1, <4>2
    <3>3. Whole(g)
      BY <2>3, <2>7, <3>1, <3>2 DEF Whole
    <3> QED
      BY <1>0, <1>3, <2>1, <2>2, <2>3, <2>7, <3>1, <3>3, LastLoss
  <2> QED
    BY <2>6, <2>7
<1>10. CASE FragPlain(f)
  <2>1. PICK g : g = <<f>>
    OBVIOUS
  <2>2. /\ ~f.more /\ (f.fn = 0 \/ Found(f) = {})
        /\ up' = Append(up, g) /\ defrag_list' = defrag_list
    BY <1>10, <2>1 DEF FragPlain, Handed
  <2>3. g \in Seq(Pieces) /\ g[1] = f /\ Len(g) = 1 /\ DOMAIN g = {1}
    BY <1>4, <2>1
  <2>4. CASE f.of \notin Alone
    BY <1>0, <1>3, <2>2, <2>3, <2>4, OtherLoss
  <2>5. CASE f.of \in Alone
    <3>1. f.fn = 0 /\ Found(f) = {}
      <4>1. f.fn > 0 => Found(f) # {}
        BY <1>0, <1>3, <2>5, Expected
      <4>2. f.fn = 0 \/ f.fn > 0
        BY <1>4
      <4> QED
        BY <1>0, <1>3, <2>2, <2>5, <4>1, <4>2, Expected
    <3>2. Whole(g)
      BY <2>2, <2>3, <3>1 DEF Whole
    <3>3. defrag_list' = defrag_list \ Found(f)
      BY <2>2, <3>1
    <3> QED
      BY <1>0, <1>3, <2>2, <2>3, <2>5, <3>2, <3>3, LastLoss
  <2> QED
    BY <2>4, <2>5
<1> QED
  BY <1>1, <1>6, <1>7, <1>8, <1>9, <1>10

\* A frame that was sent from its first fragment on goes up: the entries are where the
\* next fragment looks for them.
LEMMA LossInvariant == ASSUME Complete PROVE PathSpec => []LInv
<1>1. PathInit => LInv
  <2> SUFFICES ASSUME PathInit PROVE Lossless
    BY DEF LInv
  <2>1. /\ rx # "handle" /\ rxq = <<>> /\ arrived = 0 /\ handled = 0 /\ passed = FALSE
        /\ defrag_list = {} /\ up = <<>>
    BY DEF PathInit, Init, DefragInit
  <2>2. Upto = 0 /\ Handling = 0 /\ 1 .. 0 = {} /\ DOMAIN up = {}
    BY <2>1 DEF Upto, Handling
  <2>3. Gapless
    BY <2>1, <2>2 DEF Gapless
  <2>4. Kept /\ Finished(Upto) = {} /\ Mine = {}
    BY <2>2 DEF Kept, Finished, Mine
  <2>5. Sent
    BY <2>4 DEF Sent, SentWith
  <2> QED
    BY <2>1, <2>3, <2>4, <2>5 DEF Lossless
<1>2. IInv /\ PInv /\ LInv /\ [PathNext]_path => LInv'
  <2> SUFFICES ASSUME IInv, PInv, LInv, [PathNext]_path PROVE LInv'
    OBVIOUS
  <2>1. CASE UNCHANGED path
    <3>1. UNCHANGED <<defrag_list, up, lossy, doomed, passed, arrived, handled, rxq, rx, skb>>
      BY <2>1 DEF path, defrag, vars
    <3>2. Upto' = Upto /\ (Gapless => Gapless')
      BY <3>1 DEF Upto, Gapless, Handling
    <3> QED
      BY <3>1, <3>2, QuietLoss
  <2>2. CASE PathIrqRead
    BY <2>2, ReadLoss
  <2>3. CASE PathTake
    BY <2>3, TakeLoss
  <2>4. CASE PathPass
    BY <2>4, PassLoss
  <2>5. CASE PathArm \/ PathTimeout
    BY <2>5, TimerLoss
  <2>6. CASE PathHandle \/ PathNoMem
    BY <2>6, HandleLoss
  <2>7. CASE PathIrq \/ PathRelease \/ PathPlatformDeinit \/ PathRxDeinit
    BY <2>7, RemovalLoss
  <2> QED
    BY <2>1, <2>2, <2>3, <2>4, <2>5, <2>6, <2>7 DEF PathNext, PathRx
<1>3. PathSpec => []IInv
  BY PathImplementsBus, SpecIInv, PTL
<1> QED
  BY <1>1, <1>2, <1>3, PathInvariant, PTL DEF PathSpec

\* No two of the frames that went up are the same: they are as many as there are frames.
LEMMA SentOnce ==
    ASSUME PathType, Sent
    PROVE  Cardinality(Mine) = Cardinality({up[k][1].of : k \in Mine})
<1>1. PICK S, T, b : S = Mine /\ T = {up[k][1].of : k \in Mine} /\ b = [k \in S |-> up[k][1].of]
  OBVIOUS
<1>2. IsFiniteSet(S)
  <2>1. up \in Seq(Seq(Pieces)) /\ Len(up) \in Nat /\ DOMAIN up = 1 .. Len(up)
    BY DEF PathType
  <2>2. IsFiniteSet(1 .. Len(up))
    BY <2>1, FS_Interval
  <2>3. S \in SUBSET (1 .. Len(up))
    BY <1>1, <2>1 DEF Mine
  <2> QED
    BY <2>2, <2>3, FS_Subset
<1>3. b \in [S -> T]
  BY <1>1
<1>4. \A k, l \in S : b[k] = b[l] => k = l
  BY <1>1 DEF Sent, SentWith
<1>5. \A t \in T : \E k \in S : b[k] = t
  BY <1>1
<1>6. ExistsBijection(S, T)
  <2>1. b \in Injection(S, T)
    BY <1>3, <1>4 DEF Injection, IsInjective
  <2>2. b \in Surjection(S, T)
    BY <1>3, <1>5 DEF Surjection
  <2> QED
    BY <2>1, <2>2 DEF ExistsBijection, Bijection
<1>7. Cardinality(T) = Cardinality(S)
  BY <1>2, <1>6, FS_Bijection
<1> QED
  BY <1>1, <1>7

\* For every stream whose frames are sent from their first fragment on, and every queue
\* length: as long as nothing is lost, each frame that has its key to itself goes up
\* whole and once, with its last fragment, however the frames are interleaved.
THEOREM NothingIsLost == ASSUME Complete PROVE PathSpec => []NothingLost
<1>1. PInv /\ LInv => NothingLost
  <2> SUFFICES ASSUME PInv, ~lossy, ~doomed, Sent PROVE NothingLost
    BY DEF LInv, Lossless, NothingLost
  <2>1. Cardinality(Mine) = Cardinality({up[k][1].of : k \in Mine})
    BY SentOnce DEF PInv
  <2>2. \A k \in Mine : Whole(up[k])
    BY DEF Sent, SentWith
  <2>3. {up[k][1].of : k \in Mine} = {Stream[m].of : m \in Finished(Upto)}
    <3>1. ASSUME NEW k \in Mine PROVE \E m \in Finished(Upto) : Stream[m].of = up[k][1].of
      BY <3>1 DEF Sent, SentWith
    <3>2. ASSUME NEW m \in Finished(Upto) PROVE \E k \in Mine : up[k][1].of = Stream[m].of
      BY <3>2 DEF Sent, SentWith
    <3> QED
      BY <3>1, <3>2
  <2> QED
    BY <2>1, <2>2, <2>3 DEF NothingLost, Mine, Upto
<1> QED
  BY <1>1, PathInvariant, LossInvariant, PTL

=============================================================================
