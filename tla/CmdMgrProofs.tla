---------------------------- MODULE CmdMgrProofs ----------------------------
(***************************************************************************)
(* Proofs about the command manager, for every number of senders, slots,   *)
(* requests, timeouts and for a device that may be removed at any time.    *)
(***************************************************************************)
EXTENDS CmdMgr, TLAPS

-----------------------------------------------------------------------------
(* The inductive invariant. *)

\* A command its sender has not queued yet is not on the list.
Fresh(t) == pc[t] \in {"poll", "queue", "defer", "send"}

FreshUnlinked == \A t \in Senders : Fresh(t) => ~InList(scmd[t])

\* A command on the list still waits for its confirmation and has not been
\* completed: whoever sees the completion may free the slot.
LinkedWaits ==
    \A i \in DOMAIN cmds : cmds[i] \notin complete /\ "WAIT_CFM" \in flags[cmds[i]]

\* WAIT_PUSH is never left behind in a slot: free slots and slots a sender works
\* on are without it, so the worker picks only commands nobody else owns.
NoStalePush ==
    /\ \A s \in Slots \ used : "WAIT_PUSH" \notin flags[s]
    /\ \A t \in Senders : Owner(t) => "WAIT_PUSH" \notin flags[scmd[t]]
    /\ wpc \in {"push", "wait", "expired"} => "WAIT_PUSH" \notin flags[wcmd]
    /\ wpc = "store" => "WAIT_PUSH" \notin wflags

\* The command the worker is pushing, if still on the list, is its head, and the
\* flags the worker is about to store back keep WAIT_CFM.
WorkerAtHead ==
    WOwner => \A i \in DOMAIN cmds :
        cmds[i] = wcmd => i = 1 /\ (wpc = "store" => "WAIT_CFM" \in wflags)

IInv ==
    /\ TypeOK /\ ListIntact /\ SlotOwned /\ OnlyHeadPushed
    /\ FreshUnlinked /\ LinkedWaits /\ NoStalePush /\ WorkerAtHead

-----------------------------------------------------------------------------
(* Facts about list_del(). *)

NoDup(q) == \A i, j \in DOMAIN q : q[i] = q[j] => i = j

\* Unlinking an entry of a list without duplicates leaves a list that is one
\* shorter, has no duplicates, keeps the order, and no longer holds the entry.
LEMMA ListDelFacts ==
    ASSUME NEW S, NEW q \in Seq(S), NEW s, NoDup(q),
           \E i \in DOMAIN q : q[i] = s
    PROVE  /\ ListDel(q, s) \in Seq(S)
           /\ Len(ListDel(q, s)) = Len(q) - 1
           /\ DOMAIN ListDel(q, s) = 1 .. Len(q) - 1
           /\ NoDup(ListDel(q, s))
           /\ \A j \in DOMAIN ListDel(q, s) :
                /\ ListDel(q, s)[j] # s
                /\ \E k \in DOMAIN q : ListDel(q, s)[j] = q[k] /\ j <= k
                /\ j = 1 \/ \E k \in DOMAIN q : k > 1 /\ ListDel(q, s)[j] = q[k]
           /\ \A k \in DOMAIN q :
                q[k] # s => \E j \in DOMAIN ListDel(q, s) : ListDel(q, s)[j] = q[k]
<1> DEFINE i == CHOOSE i \in DOMAIN q : q[i] = s
           d == ListDel(q, s)
<1>1. i \in DOMAIN q /\ q[i] = s
  OBVIOUS
<1>2. DOMAIN q = 1 .. Len(q) /\ Len(q) \in Nat /\ i \in 1 .. Len(q)
  BY <1>1
<1>3. d = [j \in 1 .. Len(q) - 1 |-> IF j < i THEN q[j] ELSE q[j + 1]]
  BY DEF ListDel
<1> HIDE DEF i, d
<1>4. \A j \in 1 .. Len(q) - 1 : j \in DOMAIN q /\ j + 1 \in DOMAIN q
  BY <1>2
<1>5. d \in Seq(S) /\ Len(d) = Len(q) - 1 /\ DOMAIN d = 1 .. Len(q) - 1
  BY <1>2, <1>3, <1>4
<1>6. NoDup(d)
  <2> SUFFICES ASSUME NEW a \in DOMAIN d, NEW b \in DOMAIN d, d[a] = d[b]
               PROVE  a = b
    BY DEF NoDup
  <2> DEFINE up(j) == IF j < i THEN j ELSE j + 1
  <2>1. d[a] = q[up(a)] /\ d[b] = q[up(b)] /\ up(a) \in DOMAIN q /\ up(b) \in DOMAIN q
    BY <1>3, <1>4, <1>5
  <2>2. up(a) = up(b)
    BY <2>1 DEF NoDup
  <2>3. QED  BY <2>2, <1>2, <1>5
<1>7. ASSUME NEW j \in DOMAIN d
      PROVE  /\ d[j] # s
             /\ \E k \in DOMAIN q : d[j] = q[k] /\ j <= k
             /\ j = 1 \/ \E k \in DOMAIN q : k > 1 /\ d[j] = q[k]
  <2>1. CASE j < i
    <3>1. d[j] = q[j] /\ j \in DOMAIN q
      BY <2>1, <1>3, <1>4, <1>5
    <3>2. d[j] # s
      BY <3>1, <1>1, <1>2, <2>1 DEF NoDup
    <3>3. QED  BY <3>1, <3>2, <1>2
  <2>2. CASE ~(j < i)
    <3>1. d[j] = q[j + 1] /\ j + 1 \in DOMAIN q
      BY <2>2, <1>3, <1>4, <1>5
    <3>2. d[j] # s
      BY <3>1, <1>1, <1>2, <2>2, <1>5 DEF NoDup
    <3>3. j + 1 > 1 /\ j <= j + 1
      BY <1>5, <1>2
    <3>4. QED  BY <3>1, <3>2, <3>3
  <2>3. QED  BY <2>1, <2>2
<1>8. ASSUME NEW k \in DOMAIN q, q[k] # s
      PROVE  \E j \in DOMAIN d : d[j] = q[k]
  <2>1. k # i
    BY <1>1, <1>8
  <2>2. CASE k < i
    <3>1. k \in DOMAIN d /\ d[k] = q[k]
      BY <2>2, <1>2, <1>3, <1>5
    <3>2. QED  BY <3>1
  <2>3. CASE k > i
    <3>1. k - 1 \in DOMAIN d /\ d[k - 1] = q[k]
      BY <2>3, <1>2, <1>3, <1>5
    <3>2. QED  BY <3>1
  <2>4. QED  BY <2>1, <2>2, <2>3, <1>2
<1>9. QED
  BY <1>5, <1>6, <1>7, <1>8 DEF d

-----------------------------------------------------------------------------
(* The steps that leave the list alone. *)

\* Overwriting the command buffer keeps the types of the bus variables.
LEMMA SetCmdTxType ==
    ASSUME TypeOK, NEW s \in Slots, SetCmdTx(s)
    PROVE  /\ cmd_buf' \in Ids \cup {NoMsg}
           /\ fw' \in [ReqIds -> Nat]
           /\ bus' = bus /\ release' = release
<1>1. fw \in [ReqIds -> Nat] /\ reqid[s] \in Ids \cup {NoMsg}
  BY DEF TypeOK
<1>2. CASE fw' = fw
  BY <1>1, <1>2 DEF SetCmdTx
<1>3. CASE reqid[s] \in ReqIds /\ fw' = [fw EXCEPT ![reqid[s]] = @ + 1]
  <2>1. fw' = [r \in ReqIds |-> IF r = reqid[s] THEN fw[r] + 1 ELSE fw[r]]
    BY <1>1, <1>3
  <2>2. \A r \in ReqIds : fw[r] + 1 \in Nat /\ fw[r] \in Nat
    BY <1>1
  <2>3. QED  BY <2>1, <2>2, <1>1 DEF SetCmdTx
<1>4. QED  BY <1>2, <1>3 DEF SetCmdTx

\* The look at the list changes nothing that others see.
LEMMA PollStep == ASSUME NEW t \in Senders, IInv, Poll(t) PROVE IInv'
<1> USE CmdMgrAssumption DEF IInv, Poll, Goto, mgrVars, wVars, busVars, bounds
<1>1. TypeOK'
  BY DEF TypeOK, SenderPC
<1>2. ListIntact'
  BY DEF ListIntact
<1>3. SlotOwned'
  BY DEF SlotOwned, Owner, WOwner
<1>4. OnlyHeadPushed'
  BY DEF OnlyHeadPushed
<1>5. FreshUnlinked'
  BY DEF FreshUnlinked, Owner, Fresh, InList
<1>6. LinkedWaits'
  BY DEF LinkedWaits
<1>7. NoStalePush'
  BY DEF NoStalePush, Owner, WOwner
<1>8. WorkerAtHead'
  BY DEF WorkerAtHead, WOwner
<1>9. QED  BY <1>1, <1>2, <1>3, <1>4, <1>5, <1>6, <1>7, <1>8 DEF IInv

\* A message without confirmation frees a slot that was never linked.
LEMMA SendIndStep == ASSUME NEW t \in Senders, IInv, SendInd(t) PROVE IInv'
<1> USE CmdMgrAssumption DEF IInv, SendInd, Leave, CmdFree, mgrVars, wVars, bounds
<1> scmd[t] \in Slots /\ SetCmdTx(scmd[t])
  BY DEF TypeOK, SlotOwned, Owner, WOwner
<1>1. TypeOK'
  BY SetCmdTxType DEF TypeOK, SenderPC
<1>2. ListIntact'
  BY DEF TypeOK, ListIntact, SlotOwned, LinkedWaits, FreshUnlinked, InList, Owner,
     WOwner, Fresh
<1>3. SlotOwned'
  BY DEF TypeOK, SlotOwned, Owner, WOwner
<1>4. OnlyHeadPushed'
  BY DEF OnlyHeadPushed
<1>5. FreshUnlinked'
  BY DEF TypeOK, FreshUnlinked, Owner, Fresh, InList
<1>6. LinkedWaits'
  BY DEF LinkedWaits
<1>7. NoStalePush'
  BY DEF TypeOK, NoStalePush, Owner, WOwner
<1>8. WorkerAtHead'
  BY DEF WorkerAtHead, WOwner
<1>9. QED  BY <1>1, <1>2, <1>3, <1>4, <1>5, <1>6, <1>7, <1>8 DEF IInv

\* A refused command frees a slot that was never linked.
LEMMA QueueRefuseStep == ASSUME NEW t \in Senders, IInv, QueueRefuse(t) PROVE IInv'
<1> USE CmdMgrAssumption DEF IInv, QueueRefuse, Leave, CmdFree, mgrVars, wVars,
   busVars, bounds
<1>1. TypeOK'
  BY DEF TypeOK, SenderPC
<1>2. ListIntact'
  BY DEF TypeOK, ListIntact, SlotOwned, LinkedWaits, FreshUnlinked, InList, Owner,
     WOwner, Fresh
<1>3. SlotOwned'
  BY DEF TypeOK, SlotOwned, Owner, WOwner
<1>4. OnlyHeadPushed'
  BY DEF OnlyHeadPushed
<1>5. FreshUnlinked'
  BY DEF TypeOK, FreshUnlinked, Owner, Fresh, InList
<1>6. LinkedWaits'
  BY DEF LinkedWaits
<1>7. NoStalePush'
  BY DEF TypeOK, NoStalePush, Owner, WOwner
<1>8. WorkerAtHead'
  BY DEF WorkerAtHead, WOwner
<1>9. QED  BY <1>1, <1>2, <1>3, <1>4, <1>5, <1>6, <1>7, <1>8 DEF IInv

\* Waking the worker leaves commands and slots alone.
LEMMA DeferWakeStep == ASSUME NEW t \in Senders, IInv, DeferWake(t) PROVE IInv'
<1> USE CmdMgrAssumption DEF IInv, DeferWake, Goto, mgrVars, wVars, busVars, bounds
<1>0. \E l \in {"idle", "oops"} : pc' = [pc EXCEPT ![t] = l]
  OBVIOUS
<1>00. work' \in {"idle", "pending"}
  BY DEF TypeOK
<1>1. TypeOK'
  BY <1>0, <1>00 DEF TypeOK, SenderPC
<1>2. ListIntact'
  BY DEF ListIntact
<1>3. SlotOwned'
  BY <1>0 DEF SlotOwned, Owner, WOwner
<1>4. OnlyHeadPushed'
  BY DEF OnlyHeadPushed
<1>5. FreshUnlinked'
  BY <1>0 DEF FreshUnlinked, Fresh, InList
<1>6. LinkedWaits'
  BY DEF LinkedWaits
<1>7. NoStalePush'
  BY <1>0 DEF NoStalePush, Owner
<1>8. WorkerAtHead'
  BY DEF WorkerAtHead, WOwner
<1>9. QED  BY <1>1, <1>2, <1>3, <1>4, <1>5, <1>6, <1>7, <1>8 DEF IInv

\* Only the bus and the message change when a sender pushes its command.
LEMMA PushStep == ASSUME NEW t \in Senders, IInv, Push(t) PROVE IInv'
<1> USE CmdMgrAssumption DEF IInv, Push, Goto, mgrVars, wVars, bounds
<1> scmd[t] \in Slots /\ SetCmdTx(scmd[t])
  BY DEF TypeOK, SlotOwned, Owner, WOwner
<1>1. TypeOK'
  BY SetCmdTxType DEF TypeOK, SenderPC
<1>2. ListIntact'
  BY DEF ListIntact
<1>3. SlotOwned'
  BY DEF SlotOwned, Owner, WOwner
<1>4. OnlyHeadPushed'
  BY DEF OnlyHeadPushed
<1>5. FreshUnlinked'
  BY DEF FreshUnlinked, Owner, Fresh, InList
<1>6. LinkedWaits'
  BY DEF LinkedWaits
<1>7. NoStalePush'
  BY DEF NoStalePush, Owner, WOwner
<1>8. WorkerAtHead'
  BY DEF WorkerAtHead, WOwner
<1>9. QED  BY <1>1, <1>2, <1>3, <1>4, <1>5, <1>6, <1>7, <1>8 DEF IInv

\* A completed command is off the list, so its slot may be freed.
LEMMA WaitDoneStep == ASSUME NEW t \in Senders, IInv, WaitDone(t) PROVE IInv'
<1> USE CmdMgrAssumption DEF IInv, WaitDone, Leave, CmdFree, mgrVars, wVars,
   busVars, bounds
<1>1. TypeOK'
  BY DEF TypeOK, SenderPC
<1>2. ListIntact'
  BY DEF TypeOK, ListIntact, SlotOwned, LinkedWaits, FreshUnlinked, InList, Owner,
     WOwner, Fresh
<1>3. SlotOwned'
  BY DEF TypeOK, SlotOwned, Owner, WOwner
<1>4. OnlyHeadPushed'
  BY DEF OnlyHeadPushed
<1>5. FreshUnlinked'
  BY DEF FreshUnlinked, Owner, Fresh, InList
<1>6. LinkedWaits'
  BY DEF LinkedWaits
<1>7. NoStalePush'
  BY DEF TypeOK, NoStalePush, Owner, WOwner
<1>8. WorkerAtHead'
  BY DEF WorkerAtHead, WOwner
<1>9. QED  BY <1>1, <1>2, <1>3, <1>4, <1>5, <1>6, <1>7, <1>8 DEF IInv

\* An expired wait still owns its command.
LEMMA WaitExpireStep == ASSUME NEW t \in Senders, IInv, WaitExpire(t) PROVE IInv'
<1> USE CmdMgrAssumption DEF IInv, WaitExpire, Goto, mgrVars, wVars, busVars
<1>1. TypeOK'
  BY DEF TypeOK, SenderPC
<1>2. ListIntact'
  BY DEF ListIntact
<1>3. SlotOwned'
  BY DEF SlotOwned, Owner, WOwner
<1>4. OnlyHeadPushed'
  BY DEF OnlyHeadPushed
<1>5. FreshUnlinked'
  BY DEF FreshUnlinked, Owner, Fresh, InList
<1>6. LinkedWaits'
  BY DEF LinkedWaits
<1>7. NoStalePush'
  BY DEF NoStalePush, Owner, WOwner
<1>8. WorkerAtHead'
  BY DEF WorkerAtHead, WOwner
<1>9. QED  BY <1>1, <1>2, <1>3, <1>4, <1>5, <1>6, <1>7, <1>8 DEF IInv

\* The worker begins without a command.
LEMMA WorkerStartStep == ASSUME IInv, WorkerStart PROVE IInv'
<1> USE CmdMgrAssumption DEF IInv, WorkerStart, busVars, bounds, WorkerUnchanged
<1>1. TypeOK'
  BY DEF TypeOK, WorkerPC
<1>2. ListIntact'
  BY DEF ListIntact
<1>3. SlotOwned'
  BY DEF SlotOwned, Owner, WOwner
<1>4. OnlyHeadPushed'
  BY DEF OnlyHeadPushed
<1>5. FreshUnlinked'
  BY DEF FreshUnlinked, Owner, Fresh, InList
<1>6. LinkedWaits'
  BY DEF LinkedWaits
<1>7. NoStalePush'
  BY DEF NoStalePush, Owner, WOwner
<1>8. WorkerAtHead'
  BY DEF WorkerAtHead, WOwner
<1>9. QED  BY <1>1, <1>2, <1>3, <1>4, <1>5, <1>6, <1>7, <1>8 DEF IInv

\* The flags that the worker loads keep WAIT_CFM if the command is linked.
LEMMA WorkerLoadStep == ASSUME IInv, WorkerLoad PROVE IInv'
<1> USE CmdMgrAssumption DEF IInv, WorkerLoad, busVars, bounds, WorkerUnchanged
<1>1. TypeOK'
  BY DEF TypeOK, ListIntact, SlotOwned, Owner, WOwner, SenderPC, WorkerPC, Flags,
     Ids, ReqIds
<1>2. ListIntact'
  BY DEF ListIntact
<1>3. SlotOwned'
  BY DEF SlotOwned, Owner, WOwner
<1>4. OnlyHeadPushed'
  BY DEF OnlyHeadPushed
<1>5. FreshUnlinked'
  BY DEF FreshUnlinked, Owner, Fresh, InList
<1>6. LinkedWaits'
  BY DEF LinkedWaits
<1>7. NoStalePush'
  BY DEF NoStalePush, Owner, WOwner
<1>8. WorkerAtHead'
  BY DEF TypeOK, WorkerAtHead, LinkedWaits, ListIntact, SlotOwned, WOwner, Owner
<1>9. QED  BY <1>1, <1>2, <1>3, <1>4, <1>5, <1>6, <1>7, <1>8 DEF IInv

\* What the worker stores back outside the lock loses nothing but WAIT_PUSH.
LEMMA WorkerStoreStep == ASSUME IInv, WorkerStore PROVE IInv'
<1> USE CmdMgrAssumption DEF IInv, WorkerStore, busVars, bounds, WorkerUnchanged
<1>1. TypeOK'
  BY DEF TypeOK, WorkerPC
<1>2. ListIntact'
  BY DEF ListIntact
<1>3. SlotOwned'
  BY DEF SlotOwned, Owner, WOwner
<1>4. OnlyHeadPushed'
  BY DEF TypeOK, ListIntact, OnlyHeadPushed, WorkerAtHead, WOwner
<1>5. FreshUnlinked'
  BY DEF FreshUnlinked, Owner, Fresh, InList
<1>6. LinkedWaits'
  BY DEF TypeOK, LinkedWaits, FreshUnlinked, ListIntact, WorkerAtHead, WOwner,
     Fresh, InList
<1>7. NoStalePush'
  BY DEF TypeOK, NoStalePush, SlotOwned, Owner, WOwner
<1>8. WorkerAtHead'
  BY DEF WorkerAtHead, WOwner
<1>9. QED  BY <1>1, <1>2, <1>3, <1>4, <1>5, <1>6, <1>7, <1>8 DEF IInv

\* Only the bus and the message change when the worker pushes a command.
LEMMA WorkerPushStep == ASSUME IInv, WorkerPush PROVE IInv'
<1> USE CmdMgrAssumption DEF IInv, WorkerPush, bounds, WorkerUnchanged
<1> wcmd \in Slots /\ SetCmdTx(wcmd)
  BY DEF TypeOK, SlotOwned, Owner, WOwner
<1>1. TypeOK'
  <2>1. cmd_buf' \in Ids \cup {NoMsg} /\ fw' \in [ReqIds -> Nat] /\ bus' = bus /\ release' = release
    BY SetCmdTxType
  <2>2. pushed' \in Int
    BY DEF TypeOK
  <2>3. QED  BY <2>1, <2>2 DEF TypeOK, WorkerPC
<1>2. ListIntact'
  BY DEF ListIntact
<1>3. SlotOwned'
  BY DEF SlotOwned, Owner, WOwner
<1>4. OnlyHeadPushed'
  BY DEF OnlyHeadPushed
<1>5. FreshUnlinked'
  BY DEF FreshUnlinked, Owner, Fresh, InList
<1>6. LinkedWaits'
  BY DEF LinkedWaits
<1>7. NoStalePush'
  BY DEF NoStalePush, Owner, WOwner
<1>8. WorkerAtHead'
  BY DEF WorkerAtHead, WOwner
<1>9. QED  BY <1>1, <1>2, <1>3, <1>4, <1>5, <1>6, <1>7, <1>8 DEF IInv

\* A completed command is off the list, so the worker may free its slot.
LEMMA WorkerDoneStep == ASSUME IInv, WorkerDone PROVE IInv'
<1> USE CmdMgrAssumption DEF IInv, WorkerDone, CmdFree, busVars, bounds,
   WorkerUnchanged
<1>1. TypeOK'
  BY DEF TypeOK, WorkerPC
<1>2. ListIntact'
  BY DEF TypeOK, ListIntact, SlotOwned, LinkedWaits, FreshUnlinked, InList, Owner,
     WOwner, Fresh
<1>3. SlotOwned'
  BY DEF SlotOwned, Owner, WOwner
<1>4. OnlyHeadPushed'
  BY DEF OnlyHeadPushed
<1>5. FreshUnlinked'
  BY DEF FreshUnlinked, Owner, Fresh, InList
<1>6. LinkedWaits'
  BY DEF LinkedWaits
<1>7. NoStalePush'
  BY DEF NoStalePush, Owner, WOwner
<1>8. WorkerAtHead'
  BY DEF WorkerAtHead, WOwner
<1>9. QED  BY <1>1, <1>2, <1>3, <1>4, <1>5, <1>6, <1>7, <1>8 DEF IInv

\* An expired wait of the worker still owns its command.
LEMMA WorkerExpireStep == ASSUME IInv, WorkerExpire PROVE IInv'
<1> USE CmdMgrAssumption DEF IInv, WorkerExpire, busVars, WorkerUnchanged
<1>1. TypeOK'
  BY DEF TypeOK, WorkerPC
<1>2. ListIntact'
  BY DEF ListIntact
<1>3. SlotOwned'
  BY DEF SlotOwned, Owner, WOwner
<1>4. OnlyHeadPushed'
  BY DEF OnlyHeadPushed
<1>5. FreshUnlinked'
  BY DEF FreshUnlinked, Owner, Fresh, InList
<1>6. LinkedWaits'
  BY DEF LinkedWaits
<1>7. NoStalePush'
  BY DEF NoStalePush, Owner, WOwner
<1>8. WorkerAtHead'
  BY DEF WorkerAtHead, WOwner
<1>9. QED  BY <1>1, <1>2, <1>3, <1>4, <1>5, <1>6, <1>7, <1>8 DEF IInv

\* Taking the bus down leaves the manager alone.
LEMMA ReleaseStep == ASSUME IInv, Release PROVE IInv'
<1> USE CmdMgrAssumption DEF IInv, Release, mgrVars, slotVars, wVars, bounds
<1>1. TypeOK'
  BY DEF TypeOK
<1>2. ListIntact'
  BY DEF ListIntact
<1>3. SlotOwned'
  BY DEF SlotOwned, Owner, WOwner
<1>4. OnlyHeadPushed'
  BY DEF OnlyHeadPushed
<1>5. FreshUnlinked'
  BY DEF FreshUnlinked, Owner, Fresh, InList
<1>6. LinkedWaits'
  BY DEF LinkedWaits
<1>7. NoStalePush'
  BY DEF NoStalePush, Owner, WOwner
<1>8. WorkerAtHead'
  BY DEF WorkerAtHead, WOwner
<1>9. QED  BY <1>1, <1>2, <1>3, <1>4, <1>5, <1>6, <1>7, <1>8 DEF IInv

\* The look at the list after a wait changes no command.
LEMMA KickStep == ASSUME NEW t \in Senders, IInv, Kick(t) PROVE IInv'
<1> USE CmdMgrAssumption DEF IInv, Kick, Goto, mgrVars, wVars, busVars, bounds
<1>0. \E l \in {"idle", "oops"} : pc' = [pc EXCEPT ![t] = l]
  OBVIOUS
<1>00. work' \in {"idle", "pending"}
  BY DEF TypeOK
<1>1. TypeOK'
  BY <1>0, <1>00 DEF TypeOK, SenderPC
<1>2. ListIntact'
  BY DEF ListIntact
<1>3. SlotOwned'
  BY <1>0 DEF SlotOwned, Owner, WOwner
<1>4. OnlyHeadPushed'
  BY DEF OnlyHeadPushed
<1>5. FreshUnlinked'
  BY <1>0 DEF FreshUnlinked, Fresh, InList
<1>6. LinkedWaits'
  BY DEF LinkedWaits
<1>7. NoStalePush'
  BY <1>0 DEF NoStalePush, Owner
<1>8. WorkerAtHead'
  BY DEF WorkerAtHead, WOwner
<1>9. QED  BY <1>1, <1>2, <1>3, <1>4, <1>5, <1>6, <1>7, <1>8 DEF IInv

\* A manager that has been zeroed has an empty list.
LEMMA QueueAfterDeinitStep ==
    ASSUME NEW t \in Senders, IInv, QueueAfterDeinit(t) PROVE IInv'
<1> USE CmdMgrAssumption DEF IInv, Goto, Leave, CmdFree, mgrVars, wVars, busVars,
   bounds
<1>1. CASE pc[t] = "queue" /\ Goto(t, "oops") /\ UNCHANGED used
  <2> USE <1>1 DEF QueueAfterDeinit
  <2>1. TypeOK'
    BY DEF TypeOK, SenderPC
  <2>2. ListIntact'
    BY DEF ListIntact
  <2>3. SlotOwned'
    BY DEF SlotOwned, Owner, WOwner
  <2>4. OnlyHeadPushed'
    BY DEF OnlyHeadPushed
  <2>5. FreshUnlinked'
    BY DEF FreshUnlinked, Owner, Fresh, InList
  <2>6. LinkedWaits'
    BY DEF LinkedWaits
  <2>7. NoStalePush'
    BY DEF NoStalePush, Owner, WOwner
  <2>8. WorkerAtHead'
    BY DEF WorkerAtHead, WOwner
  <2>9. QED  BY <2>1, <2>2, <2>3, <2>4, <2>5, <2>6, <2>7, <2>8 DEF IInv
<1>2. CASE pc[t] = "defer" /\ Leave(t, "idle") /\ CmdFree(scmd[t])
  <2> USE <1>2 DEF QueueAfterDeinit
  <2>1. TypeOK'
    BY DEF TypeOK, SenderPC
  <2>2. ListIntact'
    BY DEF TypeOK, ListIntact, SlotOwned, LinkedWaits, FreshUnlinked, InList, Owner,
       WOwner, Fresh
  <2>3. SlotOwned'
    BY DEF TypeOK, SlotOwned, Owner, WOwner
  <2>4. OnlyHeadPushed'
    BY DEF OnlyHeadPushed
  <2>5. FreshUnlinked'
    BY DEF TypeOK, FreshUnlinked, Owner, Fresh, InList
  <2>6. LinkedWaits'
    BY DEF LinkedWaits
  <2>7. NoStalePush'
    BY DEF TypeOK, NoStalePush, Owner, WOwner
  <2>8. WorkerAtHead'
    BY DEF WorkerAtHead, WOwner
  <2>9. QED  BY <2>1, <2>2, <2>3, <2>4, <2>5, <2>6, <2>7, <2>8 DEF IInv
<1>3. QED  BY <1>1, <1>2 DEF QueueAfterDeinit

\* The worker picks the head, which nobody owns because it waits for its push.
LEMMA WorkerScanStep == ASSUME IInv, WorkerScan PROVE IInv'
<1> USE CmdMgrAssumption DEF IInv, busVars, bounds, WorkerUnchanged
<1>1. CASE cmds # <<>> /\ "WAIT_PUSH" \in flags[cmds[1]]
  <2>0. wpc' = "load" /\ wcmd' = cmds[1] /\ 1 \in DOMAIN cmds
    BY <1>1 DEF WorkerScan, TypeOK
  <2> USE <1>1, <2>0 DEF WorkerScan
  <2>1. TypeOK'
    BY DEF TypeOK, WorkerPC
  <2>2. ListIntact'
    BY DEF ListIntact
  <2>3. SlotOwned'
    BY DEF TypeOK, ListIntact, SlotOwned, NoStalePush, Owner, WOwner
  <2>4. OnlyHeadPushed'
    BY DEF OnlyHeadPushed
  <2>5. FreshUnlinked'
    BY DEF FreshUnlinked, Owner, Fresh, InList
  <2>6. LinkedWaits'
    BY DEF LinkedWaits
  <2>7. NoStalePush'
    BY DEF NoStalePush, Owner, WOwner
  <2>8. WorkerAtHead'
    BY DEF TypeOK, WorkerAtHead, ListIntact
  <2>9. QED  BY <2>1, <2>2, <2>3, <2>4, <2>5, <2>6, <2>7, <2>8 DEF IInv
<1>2. CASE ~(cmds # <<>> /\ "WAIT_PUSH" \in flags[cmds[1]])
  <2> USE <1>2 DEF WorkerScan
  <2>1. TypeOK'
    BY DEF TypeOK, WorkerPC
  <2>2. ListIntact'
    BY DEF ListIntact
  <2>3. SlotOwned'
    BY DEF SlotOwned, Owner, WOwner
  <2>4. OnlyHeadPushed'
    BY DEF OnlyHeadPushed
  <2>5. FreshUnlinked'
    BY DEF FreshUnlinked, Owner, Fresh, InList
  <2>6. LinkedWaits'
    BY DEF LinkedWaits
  <2>7. NoStalePush'
    BY DEF NoStalePush, Owner, WOwner
  <2>8. WorkerAtHead'
    BY DEF WorkerAtHead, WOwner
  <2>9. QED  BY <2>1, <2>2, <2>3, <2>4, <2>5, <2>6, <2>7, <2>8 DEF IInv
<1>3. QED  BY <1>1, <1>2 DEF WorkerScan

-----------------------------------------------------------------------------
(* The steps that change the list. *)

\* What cmd_complete() does to the list, in the terms the invariant uses.
LEMMA CmdCompleteFacts ==
    ASSUME IInv, NEW s \in Slots, NEW fl, InList(s), CmdComplete(s, fl)
    PROVE  /\ cmds' \in Seq(Slots) /\ queue_sz' = Len(cmds') /\ queue_sz' \in Nat
           /\ NoDup(cmds') /\ Len(cmds') <= MaxQueued
           /\ \A i \in DOMAIN cmds' :
                /\ cmds'[i] # s
                /\ \E k \in DOMAIN cmds : cmds'[i] = cmds[k] /\ i <= k
<1>1. cmds \in Seq(Slots) /\ NoDup(cmds) /\ \E i \in DOMAIN cmds : cmds[i] = s
  BY DEF IInv, TypeOK, ListIntact, NoDup, InList
<1>2. cmds' = ListDel(cmds, s) /\ queue_sz' = queue_sz - 1
  BY DEF CmdComplete
<1>3. Len(cmds') = Len(cmds) - 1 /\ cmds' \in Seq(Slots) /\ NoDup(cmds')
  BY <1>1, <1>2, ListDelFacts
<1>4. \A i \in DOMAIN cmds' : /\ cmds'[i] # s
                              /\ \E k \in DOMAIN cmds : cmds'[i] = cmds[k] /\ i <= k
  BY <1>1, <1>2, ListDelFacts
<1>5. queue_sz' = Len(cmds') /\ Len(cmds') <= MaxQueued /\ queue_sz' \in Nat
  BY <1>1, <1>2, <1>3, CmdMgrAssumption DEF IInv, ListIntact
<1>6. QED  BY <1>3, <1>4, <1>5

\* cmd_complete() preserves every part of the invariant that does not speak of
\* the program counters; fl are the flags it is called with.
LEMMA CmdCompleteKeeps ==
    ASSUME IInv, NEW s \in Slots, NEW fl \in SUBSET Flags, InList(s),
           "WAIT_PUSH" \in fl => "WAIT_PUSH" \in flags[s],
           CmdComplete(s, fl), used' = used
    PROVE  /\ ListIntact' /\ OnlyHeadPushed' /\ LinkedWaits'
           /\ flags' \in [Slots -> SUBSET Flags] /\ complete' \subseteq Slots
           /\ \A r \in Slots : "WAIT_PUSH" \in flags'[r] => "WAIT_PUSH" \in flags[r]
<1>1. /\ flags' = [flags EXCEPT ![s] = fl \cup {"DONE"}]
      /\ complete' \subseteq complete \cup {s}
      /\ flags \in [Slots -> SUBSET Flags] /\ complete \subseteq Slots
  BY DEF CmdComplete, IInv, TypeOK
<1>2. flags' \in [Slots -> SUBSET Flags] /\ complete' \subseteq Slots
  BY <1>1 DEF Flags
<1>3. \A r \in Slots : "WAIT_PUSH" \in flags'[r] => "WAIT_PUSH" \in flags[r]
  BY <1>1
<1>4. ListIntact'
  BY CmdCompleteFacts DEF IInv, ListIntact, NoDup
<1>5. OnlyHeadPushed'
  <2> SUFFICES ASSUME NEW i \in DOMAIN cmds', i > 1
               PROVE  "WAIT_PUSH" \in flags'[cmds'[i]]
    BY DEF OnlyHeadPushed
  <2>1. PICK k \in DOMAIN cmds : cmds'[i] = cmds[k] /\ i <= k
    BY CmdCompleteFacts
  <2>2. k > 1 /\ cmds'[i] # s
    BY <2>1, CmdCompleteFacts DEF IInv, TypeOK
  <2>3. QED  BY <2>1, <2>2, <1>1 DEF IInv, TypeOK, OnlyHeadPushed
<1>6. LinkedWaits'
  <2> SUFFICES ASSUME NEW i \in DOMAIN cmds'
               PROVE  cmds'[i] \notin complete' /\ "WAIT_CFM" \in flags'[cmds'[i]]
    BY DEF LinkedWaits
  <2>1. PICK k \in DOMAIN cmds : cmds'[i] = cmds[k] /\ i <= k
    BY CmdCompleteFacts
  <2>2. cmds'[i] # s
    BY CmdCompleteFacts
  <2>3. QED  BY <2>1, <2>2, <1>1 DEF IInv, TypeOK, LinkedWaits
<1>7. QED  BY <1>2, <1>3, <1>4, <1>5, <1>6

\* Queueing a command that is off the list, as both queue functions do.
LEMMA EnqueueFacts ==
    ASSUME IInv, NEW s \in used, ~InList(s), ~Refused, state # "CRASHED",
           NEW waits \in SUBSET Flags, "WAIT_CFM" \in waits,
           cmds # <<>> => "WAIT_PUSH" \in waits,
           Enqueue(s, waits), used' = used
    PROVE  /\ ListIntact' /\ OnlyHeadPushed' /\ LinkedWaits'
           /\ cmds' \in Seq(Slots) /\ queue_sz' \in Nat /\ next_tkn' \in Nat
           /\ flags' \in [Slots -> SUBSET Flags] /\ complete' \subseteq Slots
           /\ tkn' \in [Slots -> Nat]
           /\ flags' = [flags EXCEPT ![s] = @ \cup waits]
           /\ DOMAIN cmds' = 1 .. Len(cmds) + 1 /\ DOMAIN cmds = 1 .. Len(cmds)
           /\ Len(cmds) \in Nat
           /\ \A i \in DOMAIN cmds : cmds'[i] = cmds[i]
           /\ cmds'[Len(cmds) + 1] = s
<1> USE CmdMgrAssumption
<1>1. /\ s \in Slots /\ cmds \in Seq(Slots) /\ queue_sz = Len(cmds)
      /\ queue_sz \in Nat /\ next_tkn \in Nat
      /\ flags \in [Slots -> SUBSET Flags] /\ complete \subseteq Slots
      /\ tkn \in [Slots -> Nat]
  BY DEF IInv, TypeOK, ListIntact
<1>2. /\ cmds' = Append(cmds, s) /\ queue_sz' = queue_sz + 1
      /\ next_tkn' = next_tkn + 1 /\ tkn' = [tkn EXCEPT ![s] = next_tkn]
      /\ flags' = [flags EXCEPT ![s] = @ \cup waits] /\ complete' = complete \ {s}
  BY DEF Enqueue
<1>3. /\ cmds' \in Seq(Slots) /\ Len(cmds') = Len(cmds) + 1
      /\ DOMAIN cmds' = 1 .. Len(cmds) + 1 /\ DOMAIN cmds = 1 .. Len(cmds)
      /\ \A i \in DOMAIN cmds : cmds'[i] = cmds[i]
      /\ cmds'[Len(cmds) + 1] = s
  BY <1>1, <1>2
<1>4. /\ flags' \in [Slots -> SUBSET Flags] /\ tkn' \in [Slots -> Nat]
      /\ complete' \subseteq Slots /\ next_tkn' \in Nat /\ queue_sz' \in Nat
  BY <1>1, <1>2
<1>5. Len(cmds) + 1 <= MaxQueued
  <2>1. CASE cmds = <<>>
    BY <2>1
  <2>2. CASE cmds # <<>>
    BY <2>2, <1>1 DEF IInv, ListIntact, Refused
  <2>3. QED  BY <2>1, <2>2
<1>6. \A i \in DOMAIN cmds : cmds[i] # s
  BY DEF InList
<1>7. ListIntact'
  BY <1>1, <1>2, <1>3, <1>5, <1>6 DEF IInv, ListIntact
<1>8. OnlyHeadPushed'
  <2> SUFFICES ASSUME NEW i \in DOMAIN cmds', i > 1
               PROVE  "WAIT_PUSH" \in flags'[cmds'[i]]
    BY DEF OnlyHeadPushed
  <2>1. CASE i \in DOMAIN cmds
    BY <2>1, <1>1, <1>2, <1>3, <1>6 DEF IInv, OnlyHeadPushed
  <2>2. CASE i \notin DOMAIN cmds
    <3>1. i = Len(cmds) + 1 /\ cmds # <<>>
      BY <2>2, <1>1, <1>3
    <3>2. QED  BY <3>1, <1>1, <1>2, <1>3
  <2>3. QED  BY <2>1, <2>2
<1>9. LinkedWaits'
  <2> SUFFICES ASSUME NEW i \in DOMAIN cmds'
               PROVE  cmds'[i] \notin complete' /\ "WAIT_CFM" \in flags'[cmds'[i]]
    BY DEF LinkedWaits
  <2>1. CASE i \in DOMAIN cmds
    BY <2>1, <1>1, <1>2, <1>3, <1>6 DEF IInv, LinkedWaits
  <2>2. CASE i \notin DOMAIN cmds
    <3>1. cmds'[i] = s
      BY <2>2, <1>1, <1>3
    <3>2. QED  BY <3>1, <1>1, <1>2
  <2>3. QED  BY <2>1, <2>2
<1>10. QED
  BY <1>1, <1>2, <1>3, <1>4, <1>7, <1>8, <1>9


\* A sender queues its fresh command with the flags waits and goes on to l; it
\* keeps the command only if it is going to push it itself.
LEMMA QueuedKeeps ==
    ASSUME NEW t \in Senders, IInv, pc[t] \in {"queue", "defer"},
           ~Refused, state # "CRASHED",
           NEW waits \in SUBSET Flags, "WAIT_CFM" \in waits,
           cmds # <<>> => "WAIT_PUSH" \in waits,
           Enqueue(scmd[t], waits),
           NEW l \in {"idle", "wake", "push"},
           pc' = [pc EXCEPT ![t] = l],
           IF l = "push" THEN scmd' = scmd /\ "WAIT_PUSH" \notin waits
                         ELSE scmd' = [scmd EXCEPT ![t] = 0],
           e2a_msg' \in [Slots -> {"null", "live", "orphan"}],
           work' \in {"idle", "pending"},
           UNCHANGED <<state, used, reqid, a2e_msg, wVars, busVars, bounds>>
    PROVE  IInv'
<1> USE CmdMgrAssumption DEF IInv
<1> DEFINE s == scmd[t]
<1>0. s \in used /\ s \in Slots /\ ~InList(s) /\ "WAIT_PUSH" \notin flags[s]
  BY DEF FreshUnlinked, Fresh, SlotOwned, NoStalePush, Owner, TypeOK
<1>a. /\ ListIntact' /\ OnlyHeadPushed' /\ LinkedWaits'
      /\ cmds' \in Seq(Slots) /\ queue_sz' \in Nat /\ next_tkn' \in Nat
      /\ flags' \in [Slots -> SUBSET Flags] /\ complete' \subseteq Slots
      /\ tkn' \in [Slots -> Nat]
      /\ flags' = [flags EXCEPT ![s] = @ \cup waits]
      /\ DOMAIN cmds' = 1 .. Len(cmds) + 1 /\ DOMAIN cmds = 1 .. Len(cmds)
      /\ Len(cmds) \in Nat
      /\ \A i \in DOMAIN cmds : cmds'[i] = cmds[i]
      /\ cmds'[Len(cmds) + 1] = s
  BY <1>0, EnqueueFacts
<1>c. \A u \in Senders : Owner(u)' => Owner(u) /\ scmd'[u] = scmd[u]
  BY DEF Owner, TypeOK
<1>d. \A u \in Senders : Owner(u) /\ u # t => scmd[u] # s
  BY DEF SlotOwned, Owner
<1>e. WOwner' = WOwner /\ wcmd' = wcmd /\ wpc' = wpc /\ wflags' = wflags
  BY DEF WOwner, wVars
<1>f. WOwner => wcmd # s
  BY DEF SlotOwned, Owner
<1>g. Owner(t)' => l = "push"
  BY DEF Owner, TypeOK
<1> HIDE DEF s
<1>1. TypeOK'
  <2>1. pc' \in [Senders -> SenderPC]
    BY DEF TypeOK, SenderPC
  <2>2. scmd' \in [Senders -> Slots \cup {0}]
    BY DEF TypeOK
  <2>3. QED  BY <1>a, <2>1, <2>2 DEF TypeOK, wVars, busVars, bounds
<1>2. SlotOwned'
  BY <1>c, <1>e DEF SlotOwned
<1>3. FreshUnlinked'
  <2> SUFFICES ASSUME NEW u \in Senders, Fresh(u)', NEW i \in DOMAIN cmds',
                      cmds'[i] = scmd'[u]
               PROVE  FALSE
    BY DEF FreshUnlinked, InList
  <2>1. Fresh(u) /\ Owner(u) /\ u # t /\ scmd'[u] = scmd[u]
    BY DEF Fresh, Owner, TypeOK
  <2>2. scmd[u] # s /\ ~InList(scmd[u])
    BY <2>1, <1>d DEF FreshUnlinked
  <2>3. QED  BY <2>1, <2>2, <1>a DEF InList
<1>4. NoStalePush'
  <2>1. \A r \in Slots \ used' : "WAIT_PUSH" \notin flags'[r]
    BY <1>0, <1>a DEF NoStalePush, TypeOK
  <2>2. ASSUME NEW u \in Senders, Owner(u)'
        PROVE  "WAIT_PUSH" \notin flags'[scmd'[u]]
    <3>1. Owner(u) /\ scmd'[u] = scmd[u] /\ scmd[u] \in Slots
      BY <2>2, <1>c DEF SlotOwned, TypeOK
    <3>2. CASE u # t
      BY <3>1, <3>2, <1>a, <1>d DEF NoStalePush, TypeOK
    <3>3. CASE u = t
      BY <2>2, <3>1, <3>3, <1>0, <1>a, <1>g DEF s, TypeOK
    <3>4. QED  BY <3>2, <3>3
  <2>3. wpc' \in {"push", "wait", "expired"} => "WAIT_PUSH" \notin flags'[wcmd']
    BY <1>a, <1>e, <1>f DEF NoStalePush, SlotOwned, WOwner, TypeOK
  <2>4. QED  BY <2>1, <2>2, <2>3, <1>e DEF NoStalePush
<1>5. WorkerAtHead'
  <2> SUFFICES ASSUME WOwner', NEW i \in DOMAIN cmds', cmds'[i] = wcmd'
               PROVE  i = 1 /\ (wpc' = "store" => "WAIT_CFM" \in wflags')
    BY DEF WorkerAtHead
  <2>1. i \in DOMAIN cmds /\ cmds[i] = wcmd
    BY <1>a, <1>e, <1>f
  <2>2. QED  BY <2>1, <1>e DEF WorkerAtHead
<1>6. QED  BY <1>a, <1>1, <1>2, <1>3, <1>4, <1>5 DEF IInv

\* A sender that leaves its command keeps the types of what it changes.
LEMMA LeaveType ==
    ASSUME NEW t \in Senders, IInv, Owner(t), NEW l, Leave(t, l)
    PROVE  e2a_msg' \in [Slots -> {"null", "live", "orphan"}]
<1>1. scmd[t] \in Slots /\ e2a_msg \in [Slots -> {"null", "live", "orphan"}]
  BY DEF IInv, TypeOK, SlotOwned
<1>2. e2a_msg' = [e2a_msg EXCEPT
                     ![scmd[t]] = IF e2a_msg[scmd[t]] = "live" THEN "orphan"
                                  ELSE e2a_msg[scmd[t]]]
  BY DEF Leave
<1>3. QED  BY <1>1, <1>2

\* A force-deferred command is appended and left to the worker.
LEMMA QueueForceDeferStep ==
    ASSUME NEW t \in Senders, IInv, QueueForceDefer(t) PROVE IInv'
<1> DEFINE waits == {"WAIT_PUSH", "WAIT_CFM"}
<1>1. e2a_msg' \in [Slots -> {"null", "live", "orphan"}]
  BY LeaveType DEF QueueForceDefer, Owner
<1>2. /\ pc[t] \in {"queue", "defer"} /\ ~Refused /\ state # "CRASHED"
      /\ Enqueue(scmd[t], waits) /\ pc' = [pc EXCEPT ![t] = "idle"]
      /\ scmd' = [scmd EXCEPT ![t] = 0] /\ work' \in {"idle", "pending"}
      /\ UNCHANGED <<state, used, reqid, a2e_msg, wVars, busVars, bounds>>
  BY DEF QueueForceDefer, Leave
<1>3. waits \in SUBSET Flags /\ "WAIT_CFM" \in waits /\ "WAIT_PUSH" \in waits
  BY DEF Flags
<1> HIDE DEF waits
<1>4. QED  BY <1>1, <1>2, <1>3, QueuedKeeps

\* A command is appended and left to the worker, or pushed at once as the only one.
LEMMA QueueStep == ASSUME NEW t \in Senders, IInv, Queue(t) PROVE IInv'
<1>0. work' \in {"idle", "pending"}
  BY DEF Queue, IInv, TypeOK
<1>1. CASE Deferred(scmd[t])
  <2> DEFINE waits == {"WAIT_PUSH", "WAIT_CFM"}
  <2>1. Leave(t, "wake")
    BY <1>1 DEF Queue
  <2>2. e2a_msg' \in [Slots -> {"null", "live", "orphan"}]
    BY <2>1, LeaveType DEF Queue, Owner
  <2>3. /\ pc[t] \in {"queue", "defer"} /\ ~Refused /\ state # "CRASHED"
        /\ Enqueue(scmd[t], waits) /\ pc' = [pc EXCEPT ![t] = "wake"]
        /\ scmd' = [scmd EXCEPT ![t] = 0]
        /\ UNCHANGED <<state, used, reqid, a2e_msg, wVars, busVars, bounds>>
    BY <1>1, <2>1 DEF Queue, Leave
  <2>4. waits \in SUBSET Flags /\ "WAIT_CFM" \in waits /\ "WAIT_PUSH" \in waits
    BY DEF Flags
  <2> HIDE DEF waits
  <2>5. QED  BY <1>0, <2>2, <2>3, <2>4, QueuedKeeps
<1>2. CASE ~Deferred(scmd[t])
  <2> DEFINE waits == {"WAIT_CFM"}
  <2>1. e2a_msg' \in [Slots -> {"null", "live", "orphan"}]
    BY <1>2 DEF Queue, Goto, IInv, TypeOK
  <2>2. /\ pc[t] \in {"queue", "defer"} /\ ~Refused /\ state # "CRASHED"
        /\ Enqueue(scmd[t], waits) /\ pc' = [pc EXCEPT ![t] = "push"]
        /\ scmd' = scmd
        /\ UNCHANGED <<state, used, reqid, a2e_msg, wVars, busVars, bounds>>
    BY <1>2 DEF Queue, Goto
  <2>3. waits \in SUBSET Flags /\ "WAIT_CFM" \in waits /\ "WAIT_PUSH" \notin waits
    BY DEF Flags
  <2>4. cmds = <<>>
    <3>1. cmds # <<>> => Len(cmds) \in DOMAIN cmds
      BY DEF IInv, TypeOK
    <3>2. QED  BY <1>2, <3>1 DEF Deferred, IInv, LinkedWaits
  <2> HIDE DEF waits
  <2>5. QED  BY <1>0, <2>1, <2>2, <2>3, <2>4, QueuedKeeps
<1>3. QED  BY <1>1, <1>2

\* A step that only takes commands off the list (in the senses that
\* CmdCompleteFacts states) and at most lets senders go keeps the invariant.
LEMMA CompletedKeeps ==
    ASSUME IInv, TypeOK', ListIntact', OnlyHeadPushed', LinkedWaits',
           \A x \in Slots : "WAIT_PUSH" \in flags'[x] => "WAIT_PUSH" \in flags[x],
           \A j \in DOMAIN cmds' :
              \E k \in DOMAIN cmds : cmds'[j] = cmds[k] /\ j <= k,
           UNCHANGED <<used, wpc, wcmd, wflags>>,
           \/ UNCHANGED <<pc, scmd>>
           \/ \A u \in Senders : /\ Owner(u)' => Owner(u) /\ scmd'[u] = scmd[u]
                                 /\ Fresh(u)' => Fresh(u) /\ scmd'[u] = scmd[u]
    PROVE  IInv'
<1> USE DEF IInv
<1>1. \A u \in Senders : /\ Owner(u)' => Owner(u) /\ scmd'[u] = scmd[u]
                         /\ Fresh(u)' => Fresh(u) /\ scmd'[u] = scmd[u]
  BY DEF Owner, Fresh
<1>2. SlotOwned'
  BY <1>1 DEF SlotOwned, WOwner
<1>3. FreshUnlinked'
  BY <1>1 DEF FreshUnlinked, InList
<1>4. NoStalePush'
  BY <1>1 DEF NoStalePush, SlotOwned, WOwner, TypeOK
<1>5. WorkerAtHead'
  <2> SUFFICES ASSUME WOwner', NEW j \in DOMAIN cmds', cmds'[j] = wcmd'
               PROVE  j = 1 /\ (wpc' = "store" => "WAIT_CFM" \in wflags')
    BY DEF WorkerAtHead
  <2>1. PICK k \in DOMAIN cmds : cmds'[j] = cmds[k] /\ j <= k
    OBVIOUS
  <2>2. k = 1 /\ (wpc = "store" => "WAIT_CFM" \in wflags)
    BY <2>1 DEF WorkerAtHead, WOwner
  <2>3. cmds' \in Seq(Slots)
    BY DEF TypeOK
  <2>4. j \in Nat \ {0}
    BY <2>3
  <2>5. QED  BY <2>1, <2>2, <2>4
<1>6. QED  BY <1>2, <1>3, <1>4, <1>5

\* A slot that is handed out was free, so it is neither owned nor linked.
LEMMA SendMsgStep ==
    ASSUME NEW t \in Senders, NEW id \in Ids, NEW cfm \in BOOLEAN, IInv,
           SendMsg(t, id, cfm)
    PROVE  IInv'
<1> USE CmdMgrAssumption DEF IInv, mgrVars, wVars, busVars
<1>1. CASE Goto(t, "oops") /\ UNCHANGED slotVars
  <2> USE <1>1 DEF SendMsg, Goto, slotVars
  <2>1. TypeOK'
    BY DEF TypeOK, SenderPC
  <2>2. ListIntact'
    BY DEF ListIntact
  <2>3. SlotOwned'
    BY DEF SlotOwned, Owner, WOwner
  <2>4. OnlyHeadPushed'
    BY DEF OnlyHeadPushed
  <2>5. FreshUnlinked'
    BY DEF FreshUnlinked, Owner, Fresh, InList
  <2>6. LinkedWaits'
    BY DEF LinkedWaits
  <2>7. NoStalePush'
    BY DEF NoStalePush, Owner, WOwner
  <2>8. WorkerAtHead'
    BY DEF WorkerAtHead, WOwner
  <2>9. QED  BY <2>1, <2>2, <2>3, <2>4, <2>5, <2>6, <2>7, <2>8 DEF IInv
<1>2. ASSUME NEW s \in Slots \ used, CmdMalloc(s),
             reqid' = [reqid EXCEPT ![s] = id],
             a2e_msg' = a2e_msg \cup {s},
             e2a_msg' = [e2a_msg EXCEPT ![s] = IF cfm THEN "live" ELSE "null"],
             scmd' = [scmd EXCEPT ![t] = s],
             NEW l \in {"poll", "send", "defer", "queue"},
             pc' = [pc EXCEPT ![t] = l],
             UNCHANGED <<flags, tkn, complete>>
      PROVE  IInv'
  <2> USE <1>2 DEF SendMsg, CmdMalloc
  <2>0. calls' \in Nat /\ timeouts' \in Nat
    BY DEF TypeOK
  <2> HIDE DEF SendMsg
  <2>00. UNCHANGED <<state, cmds, queue_sz, next_tkn, work, wpc, wcmd, wflags, bus,
                     release, cmd_buf, fw, pushed>>
    BY DEF SendMsg
  <2>1. TypeOK'
    <3>1. /\ pc' \in [Senders -> SenderPC] /\ scmd' \in [Senders -> Slots \cup {0}]
          /\ reqid' \in [Slots -> Ids \cup {NoMsg}]
      BY DEF TypeOK, SenderPC
    <3>2. e2a_msg' \in [Slots -> {"null", "live", "orphan"}]
      BY DEF TypeOK
    <3>3. QED  BY <2>0, <2>00, <3>1, <3>2 DEF TypeOK
  <2>2. ListIntact'
    BY <2>00 DEF ListIntact
  <2>3. SlotOwned'
    BY <2>00 DEF SlotOwned, Owner, WOwner, TypeOK
  <2>4. OnlyHeadPushed'
    BY <2>00 DEF OnlyHeadPushed
  <2>5. FreshUnlinked'
    BY <2>00 DEF FreshUnlinked, InList, Fresh, ListIntact, TypeOK
  <2>6. LinkedWaits'
    BY <2>00 DEF LinkedWaits
  <2>7. NoStalePush'
    BY <2>00 DEF NoStalePush, Owner, TypeOK
  <2>8. WorkerAtHead'
    BY <2>00 DEF WorkerAtHead, WOwner
  <2>9. QED  BY <2>1, <2>2, <2>3, <2>4, <2>5, <2>6, <2>7, <2>8
<1>3. QED  BY <1>1, <1>2 DEF SendMsg

\* The transfer of a message leaves the manager alone.
LEMMA BusTxStep == ASSUME NEW ok \in BOOLEAN, IInv, BusTx(ok) PROVE IInv'
<1> USE CmdMgrAssumption DEF IInv, BusTx, mgrVars, slotVars, wVars, bounds
<1>0. fw' \in [ReqIds -> Nat]
  BY DEF TypeOK
<1>1. TypeOK'
  BY <1>0 DEF TypeOK
<1>2. ListIntact' /\ OnlyHeadPushed' /\ LinkedWaits'
  BY DEF ListIntact, OnlyHeadPushed, LinkedWaits
<1>3. SlotOwned' /\ FreshUnlinked'
  BY DEF SlotOwned, Owner, WOwner, FreshUnlinked, InList, Fresh
<1>4. NoStalePush' /\ WorkerAtHead'
  BY DEF NoStalePush, WorkerAtHead, Owner, WOwner
<1>5. QED  BY <1>1, <1>2, <1>3, <1>4

\* A confirmation completes one command of the list, or none.
LEMMA MsgIndStep == ASSUME NEW r \in ReqIds, IInv, MsgInd(r) PROVE IInv'
<1> USE CmdMgrAssumption DEF IInv, wVars, bounds
<1>0. fw' \in [ReqIds -> Nat]
  BY DEF MsgInd, TypeOK
<1>00. UNCHANGED <<state, next_tkn, work, used, reqid, tkn, e2a_msg, a2e_msg, pc,
                   scmd, wpc, wcmd, wflags, bus, release, cmd_buf, pushed, calls,
                   timeouts>>
  BY DEF MsgInd
<1>1. CASE UNCHANGED <<cmds, queue_sz, flags, complete>>
  <2>1. TypeOK'
    BY <1>0, <1>00, <1>1 DEF TypeOK
  <2>2. ListIntact' /\ OnlyHeadPushed' /\ LinkedWaits'
    BY <1>00, <1>1 DEF ListIntact, OnlyHeadPushed, LinkedWaits
  <2>3. SlotOwned' /\ FreshUnlinked'
    BY <1>00, <1>1 DEF SlotOwned, Owner, WOwner, FreshUnlinked, InList, Fresh
  <2>4. NoStalePush' /\ WorkerAtHead'
    BY <1>00, <1>1 DEF NoStalePush, WorkerAtHead, Owner, WOwner
  <2>5. QED  BY <2>1, <2>2, <2>3, <2>4
<1>2. ASSUME NEW i \in DOMAIN cmds,
             CmdComplete(cmds[i], flags[cmds[i]] \ {"WAIT_CFM"})
      PROVE  IInv'
  <2> DEFINE s  == cmds[i]
             fl == flags[s] \ {"WAIT_CFM"}
  <2>1. /\ s \in Slots /\ InList(s) /\ fl \in SUBSET Flags
        /\ "WAIT_PUSH" \in fl => "WAIT_PUSH" \in flags[s]
    BY DEF TypeOK, InList
  <2>2. CmdComplete(s, fl)
    BY <1>2
  <2> HIDE DEF s, fl
  <2>3. /\ ListIntact' /\ OnlyHeadPushed' /\ LinkedWaits'
        /\ flags' \in [Slots -> SUBSET Flags] /\ complete' \subseteq Slots
        /\ \A x \in Slots : "WAIT_PUSH" \in flags'[x] => "WAIT_PUSH" \in flags[x]
    BY <2>1, <2>2, <1>00, CmdCompleteKeeps
  <2>4. /\ cmds' \in Seq(Slots) /\ queue_sz' \in Nat
        /\ \A j \in DOMAIN cmds' :
              \E k \in DOMAIN cmds : cmds'[j] = cmds[k] /\ j <= k
    BY <2>1, <2>2, CmdCompleteFacts
  <2>5. TypeOK'
    BY <1>0, <1>00, <2>3, <2>4 DEF TypeOK
  <2>6. QED  BY <1>00, <2>3, <2>4, <2>5, CompletedKeeps
<1>3. QED  BY <1>1, <1>2 DEF MsgInd

\* The part of a timeout that senders and worker share.
LEMMA ExpiredFacts ==
    ASSUME IInv, NEW s \in Slots, Expired(s), ~BadDel(s), used' = used
    PROVE  /\ ListIntact' /\ OnlyHeadPushed' /\ LinkedWaits'
           /\ flags' \in [Slots -> SUBSET Flags] /\ complete' \subseteq Slots
           /\ \A x \in Slots : "WAIT_PUSH" \in flags'[x] => "WAIT_PUSH" \in flags[x]
           /\ cmds' \in Seq(Slots) /\ queue_sz' \in Nat
           /\ \A j \in DOMAIN cmds' :
                 \E k \in DOMAIN cmds : cmds'[j] = cmds[k] /\ j <= k
           /\ state' = "CRASHED"
<1>0. state' = "CRASHED"
  BY DEF Expired
<1>1. CASE "DONE" \in flags[s]
  <2>1. UNCHANGED <<cmds, queue_sz, flags, complete>>
    BY <1>1 DEF Expired
  <2>2. \A j \in DOMAIN cmds : j <= j
    BY DEF IInv, TypeOK
  <2>3. ListIntact' /\ OnlyHeadPushed' /\ LinkedWaits'
    BY <2>1 DEF IInv, ListIntact, OnlyHeadPushed, LinkedWaits
  <2>4. QED  BY <1>0, <2>1, <2>2, <2>3 DEF IInv, TypeOK
<1>2. CASE "DONE" \notin flags[s]
  <2>1. InList(s) /\ CmdComplete(s, flags[s]) /\ flags[s] \in SUBSET Flags
    BY <1>2 DEF Expired, BadDel, IInv, TypeOK
  <2>2. QED  BY <1>0, <2>1, CmdCompleteKeeps, CmdCompleteFacts
<1>3. QED  BY <1>1, <1>2

\* A timeout of a sender takes its command off the list, if it is there.
LEMMA TimedOutStep == ASSUME NEW t \in Senders, IInv, TimedOut(t) PROVE IInv'
<1> USE CmdMgrAssumption DEF IInv, wVars, busVars, bounds
<1>0. pc[t] = "expired" /\ Owner(t) /\ scmd[t] \in Slots
  BY DEF TimedOut, Owner, SlotOwned, TypeOK
<1>00. UNCHANGED <<next_tkn, work, used, reqid, tkn, a2e_msg, wpc, wcmd, wflags, bus,
                   release, cmd_buf, fw, pushed, calls, timeouts>>
  BY DEF TimedOut
<1>1. CASE BadDel(scmd[t])
  <2>1. /\ pc' = [pc EXCEPT ![t] = "oops"] /\ UNCHANGED <<scmd, e2a_msg>>
        /\ UNCHANGED <<state, cmds, queue_sz, flags, complete>>
    BY <1>1 DEF TimedOut, Goto
  <2>2. TypeOK'
    BY <1>00, <2>1 DEF TypeOK, SenderPC
  <2>3. ListIntact' /\ OnlyHeadPushed' /\ LinkedWaits'
    BY <1>00, <2>1 DEF ListIntact, OnlyHeadPushed, LinkedWaits
  <2>4. SlotOwned' /\ FreshUnlinked'
    BY <1>00, <2>1 DEF SlotOwned, Owner, WOwner, FreshUnlinked, InList, Fresh, TypeOK
  <2>5. NoStalePush' /\ WorkerAtHead'
    BY <1>00, <2>1 DEF NoStalePush, WorkerAtHead, Owner, WOwner, TypeOK
  <2>6. QED  BY <2>2, <2>3, <2>4, <2>5
<1>2. CASE ~BadDel(scmd[t])
  <2>1. Expired(scmd[t]) /\ Leave(t, "idle")
    BY <1>2 DEF TimedOut
  <2>2. /\ ListIntact' /\ OnlyHeadPushed' /\ LinkedWaits'
        /\ flags' \in [Slots -> SUBSET Flags] /\ complete' \subseteq Slots
        /\ \A x \in Slots : "WAIT_PUSH" \in flags'[x] => "WAIT_PUSH" \in flags[x]
        /\ cmds' \in Seq(Slots) /\ queue_sz' \in Nat
        /\ \A j \in DOMAIN cmds' :
              \E k \in DOMAIN cmds : cmds'[j] = cmds[k] /\ j <= k
        /\ state' = "CRASHED"
    BY <1>0, <1>00, <1>2, <2>1, ExpiredFacts
  <2>3. e2a_msg' \in [Slots -> {"null", "live", "orphan"}]
    BY <1>0, <2>1, LeaveType
  <2>4. pc' = [pc EXCEPT ![t] = "idle"] /\ scmd' = [scmd EXCEPT ![t] = 0]
    BY <2>1 DEF Leave
  <2>5. TypeOK'
    BY <1>00, <2>2, <2>3, <2>4 DEF TypeOK, SenderPC
  <2>6. \A u \in Senders : /\ Owner(u)' => Owner(u) /\ scmd'[u] = scmd[u]
                           /\ Fresh(u)' => Fresh(u) /\ scmd'[u] = scmd[u]
    BY <2>4 DEF Owner, Fresh, TypeOK
  <2>7. QED  BY <1>00, <2>2, <2>5, <2>6, CompletedKeeps
<1>3. QED  BY <1>1, <1>2

\* A timeout of the worker takes its command off the list, if it is there.
LEMMA WorkerTimedOutStep == ASSUME IInv, WorkerTimedOut PROVE IInv'
<1> USE CmdMgrAssumption DEF IInv, busVars, bounds, WorkerUnchanged
<1>0. wpc = "expired" /\ WOwner /\ wcmd \in Slots /\ wcmd' = 0
  BY DEF WorkerTimedOut, WOwner, SlotOwned, TypeOK
<1>00. UNCHANGED <<pc, scmd, e2a_msg, next_tkn, work, used, reqid, tkn, a2e_msg,
                   wflags, bus, release, cmd_buf, fw, pushed, calls, timeouts>>
  BY DEF WorkerTimedOut
<1>01. wpc' \in {"oops", "scan"} /\ ~WOwner'
  BY DEF WorkerTimedOut, WOwner
<1>1. CASE BadDel(wcmd)
  <2>1. UNCHANGED <<state, cmds, queue_sz, flags, complete>>
    BY <1>1 DEF WorkerTimedOut
  <2>2. TypeOK'
    BY <1>0, <1>00, <1>01, <2>1 DEF TypeOK, WorkerPC
  <2>3. ListIntact' /\ OnlyHeadPushed' /\ LinkedWaits'
    BY <1>00, <2>1 DEF ListIntact, OnlyHeadPushed, LinkedWaits
  <2>4. SlotOwned' /\ FreshUnlinked'
    BY <1>00, <1>01, <2>1 DEF SlotOwned, Owner, FreshUnlinked, InList, Fresh
  <2>5. NoStalePush' /\ WorkerAtHead'
    BY <1>00, <1>01, <2>1 DEF NoStalePush, WorkerAtHead, Owner
  <2>6. QED  BY <2>2, <2>3, <2>4, <2>5
<1>2. CASE ~BadDel(wcmd)
  <2>1. Expired(wcmd)
    BY <1>2 DEF WorkerTimedOut
  <2>2. /\ ListIntact' /\ OnlyHeadPushed' /\ LinkedWaits'
        /\ flags' \in [Slots -> SUBSET Flags] /\ complete' \subseteq Slots
        /\ \A x \in Slots : "WAIT_PUSH" \in flags'[x] => "WAIT_PUSH" \in flags[x]
        /\ cmds' \in Seq(Slots) /\ queue_sz' \in Nat
        /\ \A j \in DOMAIN cmds' :
              \E k \in DOMAIN cmds : cmds'[j] = cmds[k] /\ j <= k
        /\ state' = "CRASHED"
    BY <1>0, <1>00, <1>2, <2>1, ExpiredFacts
  <2>3. TypeOK'
    BY <1>0, <1>00, <1>01, <2>2 DEF TypeOK, WorkerPC
  <2>4. SlotOwned'
    BY <1>00, <1>01 DEF SlotOwned, Owner
  <2>5. FreshUnlinked'
    BY <1>00, <2>2 DEF FreshUnlinked, Fresh, InList
  <2>6. NoStalePush'
    BY <1>00, <1>01, <2>2 DEF NoStalePush, SlotOwned, Owner, TypeOK
  <2>7. WorkerAtHead'
    BY <1>01 DEF WorkerAtHead
  <2>8. QED  BY <2>2, <2>3, <2>4, <2>5, <2>6, <2>7
<1>3. QED  BY <1>1, <1>2

\* Draining empties the list and its counter.
LEMMA DrainStep == ASSUME IInv, Drain PROVE IInv'
<1> USE CmdMgrAssumption DEF IInv, Drain, wVars, bounds
<1>1. cmds' = <<>> /\ queue_sz' = 0 /\ complete' \subseteq Slots
  BY DEF ListIntact, TypeOK
<1>2. cmds' \in Seq(Slots) /\ Len(cmds') = 0 /\ DOMAIN cmds' = {}
  BY <1>1
<1>3. TypeOK'
  BY <1>1, <1>2 DEF TypeOK
<1>4. ListIntact' /\ OnlyHeadPushed' /\ LinkedWaits' /\ WorkerAtHead' /\ FreshUnlinked'
  BY <1>1, <1>2 DEF ListIntact, OnlyHeadPushed, LinkedWaits, WorkerAtHead,
                    FreshUnlinked, InList
<1>5. SlotOwned' /\ NoStalePush'
  BY DEF SlotOwned, NoStalePush, Owner, WOwner
<1>6. QED  BY <1>3, <1>4, <1>5

\* Zeroing the manager leaves an empty list.
LEMMA DeinitStep == ASSUME IInv, Deinit PROVE IInv'
<1> USE CmdMgrAssumption DEF IInv, Deinit, wVars, bounds, slotVars
<1>1. cmds' = <<>> /\ queue_sz' = 0
  OBVIOUS
<1>2. cmds' \in Seq(Slots) /\ Len(cmds') = 0 /\ DOMAIN cmds' = {}
  BY <1>1
<1>3. TypeOK'
  BY <1>1, <1>2 DEF TypeOK
<1>4. ListIntact' /\ OnlyHeadPushed' /\ LinkedWaits' /\ WorkerAtHead' /\ FreshUnlinked'
  BY <1>1, <1>2 DEF ListIntact, OnlyHeadPushed, LinkedWaits, WorkerAtHead,
                    FreshUnlinked, InList
<1>5. SlotOwned' /\ NoStalePush'
  BY DEF SlotOwned, NoStalePush, Owner, WOwner
<1>6. QED  BY <1>3, <1>4, <1>5

-----------------------------------------------------------------------------
(* The theorems. *)

\* The invariant holds initially.
LEMMA InitIInv == Init => IInv
<1> SUFFICES ASSUME Init PROVE IInv
  OBVIOUS
<1>1. cmds = <<>> /\ DOMAIN cmds = {} /\ Len(cmds) = 0 /\ cmds \in Seq(Slots)
  BY DEF Init
<1>2. TypeOK
  BY <1>1, CmdMgrAssumption DEF Init, TypeOK, SenderPC, WorkerPC, Flags
<1>3. ListIntact /\ OnlyHeadPushed /\ LinkedWaits
  BY <1>1, CmdMgrAssumption DEF Init, ListIntact, OnlyHeadPushed, LinkedWaits
<1>4. SlotOwned /\ FreshUnlinked /\ NoStalePush /\ WorkerAtHead
  BY <1>1 DEF Init, SlotOwned, FreshUnlinked, NoStalePush, WorkerAtHead, Owner,
              WOwner, Fresh
<1>5. QED  BY <1>2, <1>3, <1>4 DEF IInv

\* Every step preserves the invariant.
LEMMA NextIInv == IInv /\ [Next]_vars => IInv'
<1> SUFFICES ASSUME IInv, [Next]_vars PROVE IInv'
  OBVIOUS
<1>1. CASE \E t \in Senders, id \in Ids, cfm \in BOOLEAN : SendMsg(t, id, cfm)
  BY <1>1, SendMsgStep
<1>2. CASE \E t \in Senders : SenderStep(t)
  BY <1>2, PollStep, SendIndStep, QueueRefuseStep, QueueStep, QueueForceDeferStep,
     DeferWakeStep, PushStep, WaitDoneStep, KickStep, WaitExpireStep, TimedOutStep,
     QueueAfterDeinitStep DEF SenderStep
<1>3. CASE Worker
  BY <1>3, WorkerStartStep, WorkerScanStep, WorkerLoadStep, WorkerStoreStep,
     WorkerPushStep, WorkerDoneStep, WorkerExpireStep, WorkerTimedOutStep DEF Worker
<1>4. CASE \E ok \in BOOLEAN : BusTx(ok)
  BY <1>4, BusTxStep
<1>5. CASE \E r \in ReqIds : MsgInd(r)
  BY <1>5, MsgIndStep
<1>6. CASE Release \/ Drain \/ Deinit
  BY <1>6, ReleaseStep, DrainStep, DeinitStep
<1>7. CASE UNCHANGED vars
  <2> USE <1>7 DEF vars, mgrVars, slotVars, wVars, busVars, bounds, IInv
  <2>1. TypeOK'
    BY DEF TypeOK
  <2>2. ListIntact' /\ OnlyHeadPushed' /\ LinkedWaits'
    BY DEF ListIntact, OnlyHeadPushed, LinkedWaits
  <2>3. SlotOwned' /\ FreshUnlinked'
    BY DEF SlotOwned, Owner, WOwner, FreshUnlinked, InList, Fresh
  <2>4. NoStalePush' /\ WorkerAtHead'
    BY DEF NoStalePush, WorkerAtHead, Owner, WOwner
  <2>5. QED  BY <2>1, <2>2, <2>3, <2>4
<1>8. QED
  BY <1>1, <1>2, <1>3, <1>4, <1>5, <1>6, <1>7 DEF Next

\* The invariant holds always.
LEMMA SpecIInv == Spec => []IInv
  BY InitIInv, NextIInv, PTL DEF Spec

\* Every variable keeps its type; in particular queue_sz never goes below zero,
\* although it is decremented in cmd_complete() and in cmd_mgr_drain().
THEOREM TypeCorrect == Spec => []TypeOK
<1>1. IInv => TypeOK
  BY DEF IInv
<1>2. QED  BY <1>1, SpecIInv, PTL

\* The command list of cmd_mgr_queue(), cmd_complete() and cmd_mgr_drain() stays
\* intact: counted, without duplicates, bounded, and made of allocated slots only.
THEOREM ListAlwaysIntact == Spec => []ListIntact
<1>1. IInv => ListIntact
  BY DEF IInv
<1>2. QED  BY <1>1, SpecIInv, PTL

\* Each slot of the command array has one owner, the sender in cmd_mgr_queue() or
\* the worker in cmd_mgr_task_process(), and is allocated while it has one.
THEOREM SlotsAlwaysOwned == Spec => []SlotOwned
<1>1. IInv => SlotOwned
  BY DEF IInv
<1>2. QED  BY <1>1, SpecIInv, PTL

\* cmd_mgr_queue() and cmd_mgr_task_process() serialise the requests: whatever is
\* on the list behind its head has not been handed to the bus.
THEOREM RequestsSerialised == Spec => []OnlyHeadPushed
<1>1. IInv => OnlyHeadPushed
  BY DEF IInv
<1>2. QED  BY <1>1, SpecIInv, PTL

=============================================================================
