-------------------------- MODULE CmdMgrOrderProofs --------------------------
(***************************************************************************)
(* More proofs about the command manager, on top of the invariant of        *)
(* CmdMgrProofs: no thread oopses, a pushed command has a waiter, requests  *)
(* and confirmations match, and commands reach the bus in order.            *)
(***************************************************************************)
EXTENDS CmdMgrProofs, FiniteSetTheorems

-----------------------------------------------------------------------------
(* Who works on a command, and what has become of it. *)

\* Until the device is removed, a command that somebody works on after it was queued is
\* on the list or its completion has been signalled; once its wait has expired, it is on
\* the list or marked done.
OnListOrDone ==
    release = "no" =>
        /\ \A t \in Senders :
             /\ pc[t] \in {"push", "wait"} => InList(scmd[t]) \/ scmd[t] \in complete
             /\ pc[t] = "expired" => InList(scmd[t]) \/ "DONE" \in flags[scmd[t]]
        /\ wpc \in {"load", "store", "push", "wait"} => InList(wcmd) \/ wcmd \in complete
        /\ wpc = "expired" => InList(wcmd) \/ "DONE" \in flags[wcmd]

\* The bus goes down first when the device is removed, and the manager is zeroed last.
RemovalOrder ==
    /\ bus = "UP" <=> release = "no"
    /\ state = "DEINIT" => release = "done"

\* The first invariant on top of IInv.
SInv == OnListOrDone /\ RemovalOrder /\ WaiterUntilCrash

\* The steps of a sender that leave the list, the flags and the completions alone.
LEMMA SenderQuietStep ==
    ASSUME IInv, SInv, NEW t \in Senders,
           \/ Poll(t) \/ SendInd(t) \/ QueueRefuse(t) \/ DeferWake(t) \/ Push(t)
           \/ WaitDone(t) \/ Kick(t) \/ WaitExpire(t) \/ QueueAfterDeinit(t)
    PROVE  SInv'
<1>1. /\ UNCHANGED <<state, cmds, flags, complete, wpc, wcmd, calls, release, bus>>
      /\ used' \subseteq used
  <2>1. CASE Poll(t) \/ QueueRefuse(t) \/ WaitDone(t)
    BY <2>1 DEF Poll, QueueRefuse, WaitDone, CmdFree, mgrVars, wVars, busVars, bounds
  <2>2. CASE SendInd(t) \/ Push(t)
    BY <2>2 DEF SendInd, Push, SetCmdTx, CmdFree, mgrVars, wVars, bounds
  <2>3. CASE DeferWake(t) \/ Kick(t) \/ WaitExpire(t) \/ QueueAfterDeinit(t)
    BY <2>3 DEF DeferWake, Kick, WaitExpire, QueueAfterDeinit, CmdFree, mgrVars, wVars,
                busVars, bounds
  <2> QED
    BY <2>1, <2>2, <2>3
<1>2. /\ \A u \in Senders \ {t} : pc'[u] = pc[u] /\ scmd'[u] = scmd[u]
      /\ \/ /\ pc'[t] \notin {"push", "wait", "expired"}
            /\ Owner(t) => Owner(t)' /\ scmd'[t] = scmd[t]
         \/ pc[t] = "push" /\ pc'[t] = "wait" /\ scmd'[t] = scmd[t]
         \/ /\ pc[t] = "wait" /\ pc'[t] = "expired" /\ scmd'[t] = scmd[t]
            /\ scmd[t] \notin complete
         \/ /\ pc'[t] \notin {"push", "wait", "expired"}
            /\ ~InList(scmd[t])
         \/ state = "DEINIT"
  <2> pc \in [Senders -> SenderPC] /\ scmd \in [Senders -> Slots \cup {0}]
    BY DEF IInv, TypeOK
  <2>1. CASE Poll(t) \/ DeferWake(t) \/ Kick(t)
    BY <2>1 DEF Poll, DeferWake, Kick, Goto, Owner
  <2>2. CASE SendInd(t) \/ QueueRefuse(t)
    BY <2>2 DEF SendInd, QueueRefuse, Leave, IInv, FreshUnlinked, Fresh
  <2>3. CASE Push(t)
    BY <2>3 DEF Push, Goto
  <2>4. CASE WaitExpire(t)
    BY <2>4 DEF WaitExpire, Goto
  <2>5. CASE WaitDone(t)
    BY <2>5 DEF WaitDone, Leave, IInv, LinkedWaits, InList
  <2>6. CASE QueueAfterDeinit(t)
    BY <2>6 DEF QueueAfterDeinit, Goto, Leave
  <2> QED
    BY <2>1, <2>2, <2>3, <2>4, <2>5, <2>6
<1>3. RemovalOrder'
  BY <1>1 DEF SInv, RemovalOrder
<1>4. OnListOrDone'
  <2> SUFFICES ASSUME release = "no" PROVE OnListOrDone'
    BY <1>1 DEF OnListOrDone
  <2>1. state # "DEINIT"
    BY DEF SInv, RemovalOrder
  <2> QED
    BY <1>1, <1>2, <2>1 DEF SInv, OnListOrDone, InList
<1>5. WaiterUntilCrash'
  <2> SUFFICES ASSUME state = "INITED", NEW i \in DOMAIN cmds,
                      "WAIT_PUSH" \notin flags[cmds[i]]
               PROVE  \/ \E u \in Senders : Owner(u)' /\ scmd'[u] = cmds[i]
                      \/ WOwner' /\ wcmd' = cmds[i]
    BY <1>1 DEF WaiterUntilCrash
  <2>1. CASE WOwner /\ wcmd = cmds[i]
    BY <1>1, <2>1 DEF WOwner
  <2>2. CASE \E u \in Senders : Owner(u) /\ scmd[u] = cmds[i]
    <3>1. PICK u \in Senders : Owner(u) /\ scmd[u] = cmds[i]
      BY <2>2
    <3>2. CASE u # t
      BY <1>2, <3>1, <3>2 DEF Owner
    <3>3. CASE u = t
      BY <1>2, <3>1, <3>3 DEF Owner, InList
    <3> QED
      BY <3>2, <3>3
  <2> QED
    BY <2>1, <2>2 DEF SInv, WaiterUntilCrash
<1> QED
  BY <1>3, <1>4, <1>5 DEF SInv

\* The steps of the worker that leave the list and the completions alone.
LEMMA WorkerQuietStep ==
    ASSUME IInv, SInv,
           \/ WorkerStart \/ WorkerScan \/ WorkerLoad \/ WorkerStore \/ WorkerPush
           \/ WorkerDone \/ WorkerExpire
    PROVE  SInv'
<1>1. /\ UNCHANGED <<state, cmds, complete, pc, scmd, calls, release, bus>>
      /\ used' \subseteq used
  <2>1. CASE WorkerStart \/ WorkerScan \/ WorkerLoad \/ WorkerStore
    BY <2>1 DEF WorkerStart, WorkerScan, WorkerLoad, WorkerStore, WorkerUnchanged, busVars,
                bounds
  <2>2. CASE WorkerPush \/ WorkerDone \/ WorkerExpire
    BY <2>2 DEF WorkerPush, WorkerDone, WorkerExpire, SetCmdTx, CmdFree, WorkerUnchanged,
                busVars, bounds
  <2> QED
    BY <2>1, <2>2
<1>2. /\ \A s \in Slots \ {wcmd} : flags'[s] = flags[s]
      /\ wpc # "store" => flags' = flags
  BY DEF WorkerStart, WorkerScan, WorkerLoad, WorkerStore, WorkerPush, WorkerDone,
         WorkerExpire, IInv, TypeOK
<1>3. \/ /\ ~WOwner /\ ~WOwner'
      \/ ~WOwner /\ wpc' = "load" /\ InList(wcmd')
      \/ /\ wpc \in {"load", "store", "push"} /\ wpc' \in {"store", "push", "wait"}
         /\ wcmd' = wcmd
      \/ wpc = "wait" /\ wpc' = "expired" /\ wcmd' = wcmd /\ wcmd \notin complete
      \/ wpc = "wait" /\ ~WOwner' /\ wcmd \in complete
  <2>1. CASE WorkerScan
    <3>1. cmds # <<>> => 1 \in DOMAIN cmds
      BY DEF IInv, TypeOK
    <3> QED
      BY <2>1, <3>1 DEF WorkerScan, WOwner, InList
  <2>2. CASE WorkerStart \/ WorkerLoad \/ WorkerStore \/ WorkerPush \/ WorkerDone \/ WorkerExpire
    BY <2>2 DEF WorkerStart, WorkerLoad, WorkerStore, WorkerPush, WorkerDone, WorkerExpire,
                WOwner
  <2> QED
    BY <2>1, <2>2
<1>4. RemovalOrder'
  BY <1>1 DEF SInv, RemovalOrder
<1>5. OnListOrDone'
  <2> SUFFICES ASSUME release = "no" PROVE OnListOrDone'
    BY <1>1 DEF OnListOrDone
  <2>1. \A t \in Senders :
           /\ pc'[t] \in {"push", "wait"} => InList(scmd[t])' \/ scmd'[t] \in complete'
           /\ pc'[t] = "expired" => InList(scmd[t])' \/ "DONE" \in flags'[scmd'[t]]
    <3> SUFFICES ASSUME NEW t \in Senders, pc[t] = "expired"
                 PROVE  flags'[scmd[t]] = flags[scmd[t]]
      BY <1>1 DEF SInv, OnListOrDone, InList
    <3> QED
      BY <1>2 DEF IInv, TypeOK, SlotOwned, Owner, WOwner
  <2>2. wpc' \in {"load", "store", "push", "wait"} => InList(wcmd)' \/ wcmd' \in complete'
    BY <1>1, <1>3 DEF SInv, OnListOrDone, InList, WOwner
  <2>3. wpc' = "expired" => InList(wcmd)' \/ "DONE" \in flags'[wcmd']
    BY <1>1, <1>2, <1>3 DEF SInv, OnListOrDone, InList, WOwner
  <2> QED
    BY <1>1, <2>1, <2>2, <2>3 DEF OnListOrDone
<1>6. WaiterUntilCrash'
  <2> SUFFICES ASSUME state = "INITED", NEW i \in DOMAIN cmds,
                      "WAIT_PUSH" \notin flags'[cmds[i]]
               PROVE  \/ \E u \in Senders : Owner(u)' /\ scmd'[u] = cmds[i]
                      \/ WOwner' /\ wcmd' = cmds[i]
    BY <1>1 DEF WaiterUntilCrash
  <2>1. cmds[i] \in Slots /\ cmds[i] \notin complete
    BY DEF IInv, TypeOK, LinkedWaits
  <2>2. CASE cmds[i] = wcmd /\ wpc = "store"
    BY <1>3, <2>2 DEF WOwner
  <2>3. CASE cmds[i] # wcmd \/ wpc # "store"
    <3>1. "WAIT_PUSH" \notin flags[cmds[i]]
      BY <1>2, <2>1, <2>3
    <3>2. CASE \E u \in Senders : Owner(u) /\ scmd[u] = cmds[i]
      BY <1>1, <3>2 DEF Owner
    <3>3. CASE WOwner /\ wcmd = cmds[i]
      BY <1>3, <2>1, <3>3 DEF WOwner
    <3> QED
      BY <3>1, <3>2, <3>3 DEF SInv, WaiterUntilCrash
  <2> QED
    BY <2>2, <2>3
<1> QED
  BY <1>4, <1>5, <1>6 DEF SInv

\* A call does not touch the commands of others.
LEMMA SendMsgKeeps ==
    ASSUME IInv, SInv, NEW t \in Senders, NEW id \in Ids, NEW cfm \in BOOLEAN,
           SendMsg(t, id, cfm)
    PROVE  SInv'
<1>1. UNCHANGED <<state, cmds, flags, complete, wpc, wcmd, release, bus>>
  BY DEF SendMsg, Goto, slotVars, mgrVars, wVars, busVars
<1>3. /\ \A u \in Senders \ {t} : pc'[u] = pc[u] /\ scmd'[u] = scmd[u]
      /\ pc[t] = "idle" /\ pc'[t] \notin {"push", "wait", "expired"}
  <2> pc \in [Senders -> SenderPC] /\ scmd \in [Senders -> Slots \cup {0}]
    BY DEF IInv, TypeOK
  <2> QED
    BY DEF SendMsg, Goto
<1>5. RemovalOrder' /\ OnListOrDone'
  BY <1>1, <1>3 DEF SInv, RemovalOrder, OnListOrDone, InList
<1>6. WaiterUntilCrash'
  <2>1. \A u \in Senders : Owner(u) => Owner(u)' /\ scmd'[u] = scmd[u]
    BY <1>3 DEF Owner
  <2>2. WOwner' = WOwner
    BY <1>1 DEF WOwner
  <2> QED
    BY <1>1, <2>1, <2>2 DEF SInv, WaiterUntilCrash
<1> QED
  BY <1>5, <1>6 DEF SInv

\* What a queue function has done when it lets go of the lock.
LEMMA QueuedFacts ==
    ASSUME IInv, NEW t \in Senders, Queue(t) \/ QueueForceDefer(t)
    PROVE  /\ scmd[t] \in used /\ scmd[t] \in Slots /\ ~InList(scmd[t]) /\ Owner(t)
           /\ state = "INITED" /\ pc[t] \in {"queue", "defer"}
           /\ UNCHANGED <<state, used, reqid, wpc, wcmd, wflags, calls, release, bus,
                          cmd_buf, fw, pushed>>
           /\ \E waits \in SUBSET Flags :
                /\ "WAIT_CFM" \in waits
                /\ flags' = [flags EXCEPT ![scmd[t]] = @ \cup waits]
                /\ \/ /\ "WAIT_PUSH" \in waits /\ pc'[t] \in {"idle", "wake"}
                      /\ scmd' = [scmd EXCEPT ![t] = 0]
                   \/ pc'[t] = "push" /\ cmds = <<>> /\ scmd' = scmd
           /\ cmds' = Append(cmds, scmd[t]) /\ next_tkn' = next_tkn + 1
           /\ tkn' = [tkn EXCEPT ![scmd[t]] = next_tkn]
           /\ complete' = complete \ {scmd[t]}
           /\ \A u \in Senders \ {t} : pc'[u] = pc[u] /\ scmd'[u] = scmd[u]
<1> pc \in [Senders -> SenderPC] /\ scmd \in [Senders -> Slots \cup {0}]
  BY DEF IInv, TypeOK
<1>1. pc[t] \in {"queue", "defer"} /\ state = "INITED"
  BY DEF Queue, QueueForceDefer
<1>2. scmd[t] \in used /\ scmd[t] \in Slots /\ ~InList(scmd[t]) /\ Owner(t)
  BY <1>1 DEF IInv, TypeOK, SlotOwned, Owner, FreshUnlinked, Fresh
<1>3. UNCHANGED <<state, used, reqid, wpc, wcmd, wflags, calls, release, bus, cmd_buf, fw,
                  pushed>>
  BY DEF Queue, QueueForceDefer, wVars, busVars, bounds
<1>4. CASE Queue(t)
  <2>1. CASE Deferred(scmd[t])
    <3>1. Enqueue(scmd[t], {"WAIT_PUSH", "WAIT_CFM"}) /\ Leave(t, "wake")
      BY <1>4, <2>1 DEF Queue
    <3>2. {"WAIT_PUSH", "WAIT_CFM"} \in SUBSET Flags
      BY DEF Flags
    <3> QED
      BY <1>1, <1>2, <1>3, <3>1, <3>2 DEF Enqueue, Leave
  <2>2. CASE ~Deferred(scmd[t])
    <3>1. Enqueue(scmd[t], {"WAIT_CFM"}) /\ Goto(t, "push")
      BY <1>4, <2>2 DEF Queue
    <3>2. cmds = <<>>
      <4>1. cmds # <<>> => Len(cmds) \in DOMAIN cmds
        BY DEF IInv, TypeOK
      <4> QED
        BY <2>2, <4>1 DEF Deferred, IInv, LinkedWaits
    <3>3. {"WAIT_CFM"} \in SUBSET Flags
      BY DEF Flags
    <3> QED
      BY <1>1, <1>2, <1>3, <3>1, <3>2, <3>3 DEF Enqueue, Goto
  <2> QED
    BY <2>1, <2>2
<1>5. CASE QueueForceDefer(t)
  <2>1. Enqueue(scmd[t], {"WAIT_PUSH", "WAIT_CFM"}) /\ Leave(t, "idle")
    BY <1>5 DEF QueueForceDefer
  <2>2. {"WAIT_PUSH", "WAIT_CFM"} \in SUBSET Flags
    BY DEF Flags
  <2> QED
    BY <1>1, <1>2, <1>3, <2>1, <2>2 DEF Enqueue, Leave
<1> QED
  BY <1>4, <1>5

\* The list after a command was appended to it.
LEMMA AppendFacts ==
    ASSUME NEW q \in Seq(Slots), NEW s \in Slots
    PROVE  /\ Append(q, s) # <<>> /\ DOMAIN Append(q, s) = 1 .. Len(q) + 1
           /\ DOMAIN q = 1 .. Len(q) /\ Len(q) \in Nat
           /\ \A i \in DOMAIN q : i \in DOMAIN Append(q, s) /\ Append(q, s)[i] = q[i]
           /\ Append(q, s)[Len(q) + 1] = s
           /\ \A i \in DOMAIN Append(q, s) : i \in DOMAIN q \/ i = Len(q) + 1
OBVIOUS

\* A command that is queued is on the list, with its sender or with WAIT_PUSH.
LEMMA QueuedStep ==
    ASSUME IInv, SInv, NEW t \in Senders, Queue(t) \/ QueueForceDefer(t)
    PROVE  SInv'
<1> DEFINE s == scmd[t]
<1>0. cmds \in Seq(Slots) /\ flags \in [Slots -> SUBSET Flags]
  BY DEF IInv, TypeOK
<1>1. /\ s \in Slots /\ ~InList(s) /\ Owner(t) /\ state = "INITED"
      /\ UNCHANGED <<state, used, wpc, wcmd, calls, release, bus>>
      /\ cmds' = Append(cmds, s) /\ complete' = complete \ {s}
      /\ \A u \in Senders \ {t} : pc'[u] = pc[u] /\ scmd'[u] = scmd[u]
  BY QueuedFacts
<1>2. PICK waits \in SUBSET Flags :
        /\ "WAIT_CFM" \in waits
        /\ flags' = [flags EXCEPT ![s] = @ \cup waits]
        /\ \/ "WAIT_PUSH" \in waits /\ pc'[t] \in {"idle", "wake"}
           \/ pc'[t] = "push" /\ cmds = <<>> /\ scmd' = scmd
  BY QueuedFacts
<1>3. /\ DOMAIN cmds' = 1 .. Len(cmds) + 1 /\ DOMAIN cmds = 1 .. Len(cmds)
      /\ Len(cmds) \in Nat
      /\ \A i \in DOMAIN cmds : i \in DOMAIN cmds' /\ cmds'[i] = cmds[i]
      /\ cmds'[Len(cmds) + 1] = s
      /\ \A i \in DOMAIN cmds' : i \in DOMAIN cmds \/ i = Len(cmds) + 1
  BY <1>0, <1>1, AppendFacts
<1>5. \E j \in DOMAIN cmds' : cmds'[j] = s
  BY <1>3
<1>6. /\ \A u \in Senders \ {t} : Owner(u) => scmd[u] # s /\ scmd[u] \in Slots
      /\ WOwner => wcmd # s /\ wcmd \in Slots
  BY <1>1 DEF IInv, TypeOK, SlotOwned
<1> HIDE DEF s
<1>7. RemovalOrder'
  BY <1>1 DEF SInv, RemovalOrder
<1>8. OnListOrDone'
  <2> SUFFICES ASSUME release = "no" PROVE OnListOrDone'
    BY <1>1 DEF OnListOrDone
  <2>1. ASSUME NEW u \in Senders
        PROVE  /\ pc'[u] \in {"push", "wait"} => InList(scmd[u])' \/ scmd'[u] \in complete'
               /\ pc'[u] = "expired" => InList(scmd[u])' \/ "DONE" \in flags'[scmd'[u]]
    <3>1. CASE u = t
      BY <1>2, <1>5, <3>1 DEF s, InList
    <3>2. CASE u # t
      <4>1. pc'[u] = pc[u] /\ scmd'[u] = scmd[u]
        BY <1>1, <3>2
      <4>2. pc[u] \in {"push", "wait", "expired"} => scmd[u] # s /\ scmd[u] \in Slots
        BY <1>6, <3>2 DEF Owner
      <4>3. pc[u] \in {"push", "wait", "expired"} /\ InList(scmd[u]) => InList(scmd[u])'
        BY <1>3, <4>1 DEF InList
      <4> QED
        BY <1>0, <1>1, <1>2, <4>1, <4>2, <4>3 DEF SInv, OnListOrDone
    <3> QED
      BY <3>1, <3>2
  <2>2. InList(wcmd) => InList(wcmd)'
    BY <1>1, <1>3 DEF InList
  <2>3. /\ wpc' \in {"load", "store", "push", "wait"} => InList(wcmd)' \/ wcmd' \in complete'
        /\ wpc' = "expired" => InList(wcmd)' \/ "DONE" \in flags'[wcmd']
    BY <1>0, <1>1, <1>2, <1>6, <2>2 DEF SInv, OnListOrDone, WOwner
  <2> QED
    BY <1>1, <2>1, <2>3 DEF OnListOrDone
<1>9. WaiterUntilCrash'
  <2> SUFFICES ASSUME NEW i \in DOMAIN cmds', "WAIT_PUSH" \notin flags'[cmds'[i]]
               PROVE  \/ \E u \in Senders : Owner(u)' /\ scmd'[u] = cmds'[i]
                      \/ WOwner' /\ wcmd' = cmds'[i]
    BY DEF WaiterUntilCrash
  <2>1. CASE i \in DOMAIN cmds
    <3>1. cmds'[i] = cmds[i] /\ cmds[i] # s /\ cmds[i] \in Slots
      BY <1>0, <1>1, <1>3, <2>1 DEF InList
    <3>2. "WAIT_PUSH" \notin flags[cmds[i]]
      BY <1>0, <1>2, <3>1
    <3>3. \/ \E u \in Senders : Owner(u) /\ scmd[u] = cmds[i]
          \/ WOwner /\ wcmd = cmds[i]
      BY <1>1, <2>1, <3>2 DEF SInv, WaiterUntilCrash
    <3>4. \A u \in Senders : Owner(u) /\ scmd[u] = cmds[i] => u # t
      BY <3>1 DEF s
    <3> QED
      BY <1>1, <3>1, <3>3, <3>4 DEF Owner, WOwner
  <2>2. CASE i = Len(cmds) + 1
    <3>1. cmds'[i] = s /\ "WAIT_PUSH" \notin waits
      BY <1>0, <1>1, <1>2, <1>3, <2>2
    <3>2. pc'[t] = "push" /\ scmd'[t] = s
      BY <1>2, <3>1 DEF s
    <3> QED
      BY <3>1, <3>2 DEF Owner
  <2> QED
    BY <1>3, <2>1, <2>2
<1> QED
  BY <1>7, <1>8, <1>9 DEF SInv

\* list_del() keeps the other commands in their order.
LEMMA UnlinkFacts ==
    ASSUME IInv, NEW s \in Slots, NEW fl, InList(s), CmdComplete(s, fl)
    PROVE  /\ \A i \in DOMAIN cmds' : cmds'[i] # s /\ \E k \in DOMAIN cmds : cmds'[i] = cmds[k]
           /\ \A k \in DOMAIN cmds : cmds[k] # s => \E j \in DOMAIN cmds' : cmds'[j] = cmds[k]
           /\ \A i, j \in DOMAIN cmds' : i < j =>
                \E k, l \in DOMAIN cmds : k < l /\ cmds'[i] = cmds[k] /\ cmds'[j] = cmds[l]
           /\ flags' = [flags EXCEPT ![s] = fl \cup {"DONE"}]
           /\ complete' = IF "WAIT_CFM" \in fl THEN complete ELSE complete \cup {s}
<1>1. cmds \in Seq(Slots) /\ NoDup(cmds) /\ \E i \in DOMAIN cmds : cmds[i] = s
  BY DEF IInv, TypeOK, ListIntact, NoDup, InList
<1>2. /\ cmds' = ListDel(cmds, s) /\ flags' = [flags EXCEPT ![s] = fl \cup {"DONE"}]
      /\ complete' = IF "WAIT_CFM" \in fl THEN complete ELSE complete \cup {s}
  BY DEF CmdComplete
<1>3. /\ \A i \in DOMAIN cmds' : cmds'[i] # s /\ \E k \in DOMAIN cmds : cmds'[i] = cmds[k]
      /\ \A k \in DOMAIN cmds : cmds[k] # s => \E j \in DOMAIN cmds' : cmds'[j] = cmds[k]
  BY <1>1, <1>2, ListDelFacts
<1>4. PICK d \in DOMAIN cmds :
        cmds' = [j \in 1 .. Len(cmds) - 1 |-> IF j < d THEN cmds[j] ELSE cmds[j + 1]]
  <2>1. (CHOOSE i \in DOMAIN cmds : cmds[i] = s) \in DOMAIN cmds
    BY <1>1
  <2> QED
    BY <1>2, <2>1 DEF ListDel
<1>5. ASSUME NEW i \in DOMAIN cmds', NEW j \in DOMAIN cmds', i < j
      PROVE  \E k, l \in DOMAIN cmds : k < l /\ cmds'[i] = cmds[k] /\ cmds'[j] = cmds[l]
  <2> DEFINE up(n) == IF n < d THEN n ELSE n + 1
  <2>1. DOMAIN cmds = 1 .. Len(cmds) /\ Len(cmds) \in Nat /\ DOMAIN cmds' = 1 .. Len(cmds) - 1
    BY <1>1, <1>4
  <2>2. up(i) \in DOMAIN cmds /\ up(j) \in DOMAIN cmds /\ up(i) < up(j)
    BY <1>5, <2>1
  <2>3. cmds'[i] = cmds[up(i)] /\ cmds'[j] = cmds[up(j)]
    BY <1>4, <2>1
  <2> QED
    BY <2>2, <2>3
<1> QED
  BY <1>2, <1>3, <1>5

\* A command that is completed leaves the list, marked done; the others stay.
LEMMA CompletedStep ==
    ASSUME IInv, SInv, NEW s \in Slots, NEW fl \in SUBSET Flags, InList(s),
           "WAIT_CFM" \notin fl, CmdComplete(s, fl),
           UNCHANGED <<state, used, pc, scmd, wpc, wcmd, calls, release, bus>>
    PROVE  SInv'
<1>1. /\ \A i \in DOMAIN cmds' : cmds'[i] # s /\ \E k \in DOMAIN cmds : cmds'[i] = cmds[k]
      /\ \A k \in DOMAIN cmds : cmds[k] # s => \E j \in DOMAIN cmds' : cmds'[j] = cmds[k]
      /\ flags' = [flags EXCEPT ![s] = fl \cup {"DONE"}] /\ complete' = complete \cup {s}
      /\ flags \in [Slots -> SUBSET Flags] /\ cmds \in Seq(Slots)
  BY UnlinkFacts DEF IInv, TypeOK
<1>2. RemovalOrder'
  BY DEF SInv, RemovalOrder
<1>3. \A x \in Slots : InList(x) => x \in complete' \/ \E j \in DOMAIN cmds' : cmds'[j] = x
  BY <1>1 DEF InList
<1>4. \A x \in Slots : InList(x) => "DONE" \in flags'[x] \/ \E j \in DOMAIN cmds' : cmds'[j] = x
  BY <1>1 DEF InList
<1>5. \A x \in Slots : /\ x \in complete => x \in complete'
                       /\ "DONE" \in flags[x] => "DONE" \in flags'[x]
  BY <1>1
<1>6. /\ \A t \in Senders : Owner(t) => scmd[t] \in Slots
      /\ WOwner => wcmd \in Slots
  BY DEF IInv, TypeOK, SlotOwned
<1>7. OnListOrDone'
  <2> SUFFICES ASSUME release = "no" PROVE OnListOrDone'
    BY DEF OnListOrDone
  <2>1. \A t \in Senders :
          /\ pc[t] \in {"push", "wait"} => InList(scmd[t])' \/ scmd[t] \in complete'
          /\ pc[t] = "expired" => InList(scmd[t])' \/ "DONE" \in flags'[scmd[t]]
    BY <1>3, <1>4, <1>5, <1>6 DEF SInv, OnListOrDone, Owner, InList
  <2>2. /\ wpc \in {"load", "store", "push", "wait"} => InList(wcmd)' \/ wcmd \in complete'
        /\ wpc = "expired" => InList(wcmd)' \/ "DONE" \in flags'[wcmd]
    BY <1>3, <1>4, <1>5, <1>6 DEF SInv, OnListOrDone, WOwner, InList
  <2> QED
    BY <2>1, <2>2 DEF OnListOrDone
<1>8. WaiterUntilCrash'
  <2>1. \A i \in DOMAIN cmds' : \E k \in DOMAIN cmds :
           cmds'[i] = cmds[k] /\ flags'[cmds'[i]] = flags[cmds[k]]
    BY <1>1
  <2>2. WOwner' = WOwner /\ \A t \in Senders : Owner(t)' = Owner(t)
    BY DEF Owner, WOwner
  <2> QED
    BY <2>1, <2>2 DEF SInv, WaiterUntilCrash
<1> QED
  BY <1>2, <1>7, <1>8 DEF SInv

\* A confirmation completes one command of the list, or none.
LEMMA MsgIndKeeps == ASSUME IInv, SInv, NEW r \in ReqIds, MsgInd(r) PROVE SInv'
<1>0. UNCHANGED <<state, used, pc, scmd, wpc, wcmd, calls, release, bus>>
  BY DEF MsgInd, wVars, bounds
<1>1. CASE UNCHANGED <<cmds, flags, complete>>
  <2>1. RemovalOrder' /\ OnListOrDone'
    BY <1>0, <1>1 DEF SInv, RemovalOrder, OnListOrDone, InList
  <2>2. WaiterUntilCrash'
    BY <1>0, <1>1 DEF SInv, WaiterUntilCrash, Owner, WOwner
  <2> QED
    BY <2>1, <2>2 DEF SInv
<1>2. ASSUME NEW i \in DOMAIN cmds, CmdComplete(cmds[i], flags[cmds[i]] \ {"WAIT_CFM"})
      PROVE  SInv'
  <2>1. /\ cmds[i] \in Slots /\ InList(cmds[i])
        /\ flags[cmds[i]] \ {"WAIT_CFM"} \in SUBSET Flags
    BY DEF IInv, TypeOK, InList
  <2> QED
    BY <1>0, <1>2, <2>1, CompletedStep
<1> QED
  BY <1>1, <1>2 DEF MsgInd

\* A timeout crashes the manager, so that nothing is promised of waiters any more; the
\* commands of others stay where they are.
LEMMA ExpiredKeeps ==
    ASSUME IInv, SInv, NEW s \in Slots, ~BadDel(s), Expired(s),
           NEW x \in Slots, x # s
    PROVE  /\ InList(x) => \E j \in DOMAIN cmds' : cmds'[j] = x
           /\ x \in complete => x \in complete'
           /\ "DONE" \in flags[x] => "DONE" \in flags'[x]
           /\ state' = "CRASHED"
<1>1. CASE "DONE" \in flags[s]
  BY <1>1 DEF Expired, InList
<1>2. CASE "DONE" \notin flags[s]
  <2>1. InList(s) /\ CmdComplete(s, flags[s]) /\ state' = "CRASHED"
    BY <1>2 DEF Expired, BadDel
  <2>2. flags \in [Slots -> SUBSET Flags]
    BY DEF IInv, TypeOK
  <2>3. /\ \A k \in DOMAIN cmds : cmds[k] # s => \E j \in DOMAIN cmds' : cmds'[j] = cmds[k]
        /\ flags' = [flags EXCEPT ![s] = flags[s] \cup {"DONE"}]
        /\ complete \subseteq complete'
    BY <2>1, UnlinkFacts
  <2> QED
    BY <2>1, <2>2, <2>3 DEF InList
<1> QED
  BY <1>1, <1>2

\* The sender whose wait expired gives up its own command only.
LEMMA TimedOutKeeps == ASSUME IInv, SInv, NEW t \in Senders, TimedOut(t) PROVE SInv'
<1>0. pc \in [Senders -> SenderPC] /\ scmd \in [Senders -> Slots \cup {0}]
  BY DEF IInv, TypeOK
<1>1. /\ UNCHANGED <<used, wpc, wcmd, calls, release, bus>>
      /\ \A u \in Senders \ {t} : pc'[u] = pc[u] /\ scmd'[u] = scmd[u]
      /\ pc'[t] \in {"oops", "idle"} /\ pc[t] = "expired"
  BY <1>0 DEF TimedOut, Goto, Leave, wVars, busVars, bounds
<1>2. scmd[t] \in Slots /\ Owner(t)
  BY <1>1 DEF IInv, TypeOK, SlotOwned, Owner
<1>3. CASE BadDel(scmd[t])
  <2>1. UNCHANGED <<state, cmds, flags, complete>>
    BY <1>3 DEF TimedOut
  <2>2. RemovalOrder' /\ OnListOrDone'
    BY <1>1, <2>1 DEF SInv, RemovalOrder, OnListOrDone, InList
  <2>3. WaiterUntilCrash'
    <3>1. \A u \in Senders \ {t} : Owner(u)' = Owner(u)
      BY <1>1 DEF Owner
    <3>2. \A i \in DOMAIN cmds : cmds[i] # scmd[t]
      BY <1>3 DEF BadDel, InList
    <3> QED
      BY <1>1, <2>1, <3>1, <3>2 DEF SInv, WaiterUntilCrash, WOwner
  <2> QED
    BY <2>2, <2>3 DEF SInv
<1>4. CASE ~BadDel(scmd[t])
  <2>1. Expired(scmd[t]) /\ state' = "CRASHED"
    BY <1>4 DEF TimedOut, Expired
  <2>2. RemovalOrder' /\ WaiterUntilCrash'
    BY <1>1, <2>1 DEF SInv, RemovalOrder, WaiterUntilCrash
  <2>3. OnListOrDone'
    <3> SUFFICES ASSUME release = "no" PROVE OnListOrDone'
      BY <1>1 DEF OnListOrDone
    <3>1. \A x \in Slots \ {scmd[t]} :
             /\ InList(x) => \E j \in DOMAIN cmds' : cmds'[j] = x
             /\ x \in complete => x \in complete'
             /\ "DONE" \in flags[x] => "DONE" \in flags'[x]
      BY <1>2, <1>4, <2>1, ExpiredKeeps
    <3>2. /\ \A u \in Senders \ {t} : Owner(u) => scmd[u] \in Slots \ {scmd[t]}
          /\ WOwner => wcmd \in Slots \ {scmd[t]}
      BY <1>2 DEF IInv, TypeOK, SlotOwned
    <3>3. \A u \in Senders :
            /\ pc'[u] \in {"push", "wait"} => InList(scmd[u])' \/ scmd'[u] \in complete'
            /\ pc'[u] = "expired" => InList(scmd[u])' \/ "DONE" \in flags'[scmd'[u]]
      BY <1>1, <3>1, <3>2 DEF SInv, OnListOrDone, Owner, InList
    <3>4. /\ wpc' \in {"load", "store", "push", "wait"} => InList(wcmd)' \/ wcmd' \in complete'
          /\ wpc' = "expired" => InList(wcmd)' \/ "DONE" \in flags'[wcmd']
      BY <1>1, <3>1, <3>2 DEF SInv, OnListOrDone, WOwner, InList
    <3> QED
      BY <1>1, <3>3, <3>4 DEF OnListOrDone
  <2> QED
    BY <2>2, <2>3 DEF SInv
<1> QED
  BY <1>3, <1>4

\* The worker, too, gives up its own command only.
LEMMA WorkerTimedOutKeeps == ASSUME IInv, SInv, WorkerTimedOut PROVE SInv'
<1>1. /\ UNCHANGED <<pc, scmd, used, calls, release, bus>>
      /\ wpc' \in {"oops", "scan"} /\ wpc = "expired"
  BY DEF WorkerTimedOut, WorkerUnchanged, busVars, bounds
<1>2. wcmd \in Slots /\ WOwner /\ ~WOwner'
  BY <1>1 DEF IInv, TypeOK, SlotOwned, WOwner
<1>3. CASE BadDel(wcmd)
  <2>1. UNCHANGED <<state, cmds, flags, complete>>
    BY <1>3 DEF WorkerTimedOut
  <2>2. RemovalOrder' /\ OnListOrDone'
    BY <1>1, <2>1 DEF SInv, RemovalOrder, OnListOrDone, InList
  <2>3. WaiterUntilCrash'
    <3>1. \A i \in DOMAIN cmds : cmds[i] # wcmd
      BY <1>3 DEF BadDel, InList
    <3> QED
      BY <1>1, <2>1, <3>1 DEF SInv, WaiterUntilCrash, Owner
  <2> QED
    BY <2>2, <2>3 DEF SInv
<1>4. CASE ~BadDel(wcmd)
  <2>1. Expired(wcmd) /\ state' = "CRASHED"
    BY <1>4 DEF WorkerTimedOut, Expired
  <2>2. RemovalOrder' /\ WaiterUntilCrash'
    BY <1>1, <2>1 DEF SInv, RemovalOrder, WaiterUntilCrash
  <2>3. OnListOrDone'
    <3> SUFFICES ASSUME release = "no" PROVE OnListOrDone'
      BY <1>1 DEF OnListOrDone
    <3>1. \A x \in Slots \ {wcmd} :
             /\ InList(x) => \E j \in DOMAIN cmds' : cmds'[j] = x
             /\ x \in complete => x \in complete'
             /\ "DONE" \in flags[x] => "DONE" \in flags'[x]
      BY <1>2, <1>4, <2>1, ExpiredKeeps
    <3>2. \A u \in Senders : Owner(u) => scmd[u] \in Slots \ {wcmd}
      BY <1>2 DEF IInv, TypeOK, SlotOwned
    <3>3. \A u \in Senders :
            /\ pc'[u] \in {"push", "wait"} => InList(scmd[u])' \/ scmd'[u] \in complete'
            /\ pc'[u] = "expired" => InList(scmd[u])' \/ "DONE" \in flags'[scmd'[u]]
      BY <1>1, <3>1, <3>2 DEF SInv, OnListOrDone, Owner, InList
    <3> QED
      BY <1>1, <3>3 DEF OnListOrDone
  <2> QED
    BY <2>2, <2>3 DEF SInv
<1> QED
  BY <1>3, <1>4

\* The bus thread, and the removal of the device.
LEMMA BusStep ==
    ASSUME IInv, SInv, (\E ok \in BOOLEAN : BusTx(ok)) \/ Release \/ Drain \/ Deinit
    PROVE  SInv'
<1>1. CASE (\E ok \in BOOLEAN : BusTx(ok)) \/ Release
  <2>1. /\ UNCHANGED <<state, cmds, flags, complete, used, pc, scmd, wpc, wcmd, calls>>
        /\ \/ release' = release /\ bus' = bus
           \/ release' = "down" /\ bus' = "DOWN" /\ release = "no"
    <3>1. CASE \E ok \in BOOLEAN : BusTx(ok)
      BY <3>1 DEF BusTx, mgrVars, slotVars, wVars, bounds
    <3>2. CASE Release
      BY <3>2 DEF Release, mgrVars, slotVars, wVars, bounds
    <3> QED
      BY <1>1, <3>1, <3>2
  <2>2. RemovalOrder' /\ OnListOrDone'
    BY <2>1 DEF SInv, RemovalOrder, OnListOrDone, InList
  <2>3. WaiterUntilCrash'
    BY <2>1 DEF SInv, WaiterUntilCrash, Owner, WOwner
  <2> QED
    BY <2>2, <2>3 DEF SInv
<1>2. CASE Drain \/ Deinit
  <2>1. /\ UNCHANGED <<flags, used, pc, scmd, wpc, wcmd, calls, bus>>
        /\ cmds' = <<>> /\ release # "no" /\ release' # "no"
        /\ state' = "DEINIT" => release' = "done"
    BY <1>2 DEF Drain, Deinit, slotVars, wVars, bounds, SInv, RemovalOrder
  <2>2. RemovalOrder' /\ OnListOrDone'
    BY <2>1 DEF SInv, RemovalOrder, OnListOrDone
  <2>3. WaiterUntilCrash'
    <3>1. DOMAIN cmds' = {}
      BY <2>1
    <3> QED
      BY <3>1 DEF WaiterUntilCrash
  <2> QED
    BY <2>2, <2>3 DEF SInv
<1> QED
  BY <1>1, <1>2

\* Every step keeps track of who works on which command.
LEMMA NextSInv == IInv /\ SInv /\ [Next]_vars => SInv'
<1> SUFFICES ASSUME IInv, SInv, [Next]_vars PROVE SInv'
  OBVIOUS
<1>1. CASE \E t \in Senders, id \in Ids, cfm \in BOOLEAN : SendMsg(t, id, cfm)
  BY <1>1, SendMsgKeeps
<1>2. CASE \E t \in Senders : SenderStep(t)
  BY <1>2, SenderQuietStep, QueuedStep, TimedOutKeeps DEF SenderStep
<1>3. CASE Worker
  BY <1>3, WorkerQuietStep, WorkerTimedOutKeeps DEF Worker
<1>4. CASE (\E ok \in BOOLEAN : BusTx(ok)) \/ Release \/ Drain \/ Deinit
  BY <1>4, BusStep
<1>5. CASE \E r \in ReqIds : MsgInd(r)
  BY <1>5, MsgIndKeeps
<1>6. CASE UNCHANGED vars
  <2> USE <1>6 DEF vars, mgrVars, slotVars, wVars, busVars, bounds, SInv
  <2>1. RemovalOrder' /\ OnListOrDone'
    BY DEF RemovalOrder, OnListOrDone, InList
  <2>2. WaiterUntilCrash'
    BY DEF WaiterUntilCrash, Owner, WOwner
  <2> QED
    BY <2>1, <2>2
<1> QED
  BY <1>1, <1>2, <1>3, <1>4, <1>5, <1>6 DEF Next

\* Nobody works on anything initially.
LEMMA InitSInv == Init => SInv
BY CmdMgrAssumption DEF Init, SInv, RemovalOrder, OnListOrDone, WaiterUntilCrash,
   Owner, WOwner

\* Both invariants hold always.
LEMMA SpecSInv == Spec => [](IInv /\ SInv)
BY InitSInv, NextSInv, SpecIInv, PTL DEF Spec

\* For any number of senders, requests and timeouts: until the manager crashes, a pushed
\* command on the list has its sender in cmd_mgr_queue() or the worker in
\* cmd_mgr_task_process() waiting for it, so that a timeout takes it off the list.
THEOREM PushedHasWaiter == Spec => []WaiterUntilCrash
<1>1. SInv => WaiterUntilCrash
  BY DEF SInv
<1> QED
  BY <1>1, SpecSInv, PTL

-----------------------------------------------------------------------------
(* What is on its way to the firmware. *)

\* Nothing is in the command buffer and the firmware owes no confirmation.
Quiet == cmd_buf = NoMsg /\ \A r \in ReqIds : fw[r] = 0

\* The worker has picked a command and not yet handed it to the bus.
Pushing == wpc \in {"load", "store", "push"}

\* While the bus is up, whoever is about to push, a sender or the worker, has the head of
\* the list, is alone, and finds the bus quiet. A crashed manager does not stop the worker,
\* so of the worker this holds only until then.
OnePusher ==
    bus = "UP" =>
        /\ \A t \in Senders :
             /\ pc[t] # "send"
             /\ pc[t] = "push" => cmds # <<>> /\ scmd[t] = cmds[1] /\ Quiet /\ ~Pushing
        /\ state = "INITED" /\ Pushing => cmds # <<>> /\ wcmd = cmds[1] /\ Quiet

\* While the bus is up, the list is in the order of its tokens, and what has not been
\* pushed has a token above the last one pushed.
TokensInOrder ==
    bus = "UP" =>
        /\ pushed < next_tkn
        /\ \A i \in DOMAIN cmds : tkn[cmds[i]] < next_tkn
        /\ \A i, j \in DOMAIN cmds : i < j => tkn[cmds[i]] < tkn[cmds[j]]
        /\ \A i \in DOMAIN cmds : "WAIT_PUSH" \in flags[cmds[i]] => tkn[cmds[i]] > pushed
        /\ \A t \in Senders : pc[t] = "push" => tkn[scmd[t]] > pushed
        /\ Pushing => /\ tkn[wcmd] > pushed /\ tkn[wcmd] < next_tkn
                      /\ \A i \in DOMAIN cmds : cmds[i] # wcmd => tkn[cmds[i]] > tkn[wcmd]

\* The second one, about what is on its way to the firmware.
QInv == OnePusher /\ TokensInOrder /\ ConfirmMatchesHead

\* A head that waits for its turn, or an empty list, means that the bus is quiet.
LEMMA QuietUnlessPushed ==
    ASSUME IndIds = {}, IInv, ConfirmMatchesHead, state = "INITED", bus = "UP",
           cmds = <<>> \/ "WAIT_PUSH" \in flags[cmds[1]]
    PROVE  Quiet
<1>1. \A r \in ReqIds : ~(fw[r] > 0 \/ cmd_buf = r)
  BY DEF ConfirmMatchesHead
<1>2. \A r \in ReqIds : fw[r] \in Nat
  BY DEF IInv, TypeOK
<1>3. cmd_buf \in ReqIds \cup {NoMsg}
  BY DEF IInv, TypeOK, Ids
<1> QED
  BY <1>1, <1>2, <1>3 DEF Quiet

\* A command that its sender or the worker works on is at the head if it is on the list.
LEMMA OwnedAtHead ==
    ASSUME IInv
    PROVE  /\ \A t \in Senders : Owner(t) /\ InList(scmd[t]) => cmds # <<>> /\ scmd[t] = cmds[1]
           /\ WOwner /\ InList(wcmd) => cmds # <<>> /\ wcmd = cmds[1]
<1>1. \A i \in DOMAIN cmds : i \in Nat /\ i >= 1 /\ cmds # <<>>
  BY DEF IInv, TypeOK
<1>2. ASSUME NEW t \in Senders, Owner(t), InList(scmd[t])
      PROVE  cmds # <<>> /\ scmd[t] = cmds[1]
  <2>1. PICK i \in DOMAIN cmds : cmds[i] = scmd[t]
    BY <1>2 DEF InList
  <2>2. ~(i > 1)
    BY <1>2, <2>1 DEF IInv, OnlyHeadPushed, NoStalePush
  <2>3. i = 1
    BY <1>1, <2>2
  <2> QED
    BY <1>1, <2>1, <2>3
<1>3. ASSUME WOwner, InList(wcmd) PROVE cmds # <<>> /\ wcmd = cmds[1]
  BY <1>1, <1>3 DEF IInv, InList, WorkerAtHead
<1> QED
  BY <1>2, <1>3

\* Steps that take no new command in hand, and at most remove commands from the list or
\* let a command's turn come, keep the order of the tokens.
LEMMA TokensKept ==
    ASSUME TokensInOrder, UNCHANGED <<tkn, next_tkn, pushed, bus>>,
           \A t \in Senders : pc'[t] = "push" => pc[t] = "push" /\ scmd'[t] = scmd[t],
           Pushing' => Pushing /\ wcmd' = wcmd,
           \A i \in DOMAIN cmds' : \E k \in DOMAIN cmds :
              /\ cmds'[i] = cmds[k]
              /\ "WAIT_PUSH" \in flags'[cmds'[i]] => "WAIT_PUSH" \in flags[cmds[k]],
           \A i, j \in DOMAIN cmds' : i < j =>
              \E k, l \in DOMAIN cmds : k < l /\ cmds'[i] = cmds[k] /\ cmds'[j] = cmds[l]
    PROVE  TokensInOrder'
<1> SUFFICES ASSUME bus = "UP" PROVE TokensInOrder'
  BY DEF TokensInOrder
<1>1. \A i \in DOMAIN cmds' : tkn[cmds'[i]] < next_tkn
  BY DEF TokensInOrder
<1>2. \A i, j \in DOMAIN cmds' : i < j => tkn[cmds'[i]] < tkn[cmds'[j]]
  BY DEF TokensInOrder
<1>3. \A i \in DOMAIN cmds' : "WAIT_PUSH" \in flags'[cmds'[i]] => tkn[cmds'[i]] > pushed
  BY DEF TokensInOrder
<1>4. \A t \in Senders : pc'[t] = "push" => tkn[scmd'[t]] > pushed
  BY DEF TokensInOrder
<1>5. Pushing' => /\ tkn[wcmd'] > pushed /\ tkn[wcmd'] < next_tkn
                  /\ \A i \in DOMAIN cmds' : cmds'[i] # wcmd' => tkn[cmds'[i]] > tkn[wcmd']
  BY DEF TokensInOrder
<1> QED
  BY <1>1, <1>2, <1>3, <1>4, <1>5 DEF TokensInOrder

\* Steps that leave the list and the bus alone and take no command in hand.
LEMMA Idle ==
    ASSUME IInv, QInv,
           UNCHANGED <<state, cmds, tkn, next_tkn, cmd_buf, fw, pushed, bus>>,
           \A i \in DOMAIN cmds : /\ flags'[cmds[i]] = flags[cmds[i]]
                                  /\ reqid'[cmds[i]] = reqid[cmds[i]],
           bus = "UP" => \A t \in Senders : pc'[t] # "send",
           \A t \in Senders : pc'[t] = "push" => pc[t] = "push" /\ scmd'[t] = scmd[t],
           Pushing' => Pushing /\ wcmd' = wcmd
    PROVE  QInv'
<1>1. TokensInOrder'
  BY TokensKept DEF QInv
<1>2. cmds # <<>> => 1 \in DOMAIN cmds
  BY DEF IInv, TypeOK
<1>3. Quiet' = Quiet
  BY DEF Quiet
<1>4. OnePusher'
  BY <1>3 DEF QInv, OnePusher
<1>5. ConfirmMatchesHead'
  BY <1>2 DEF QInv, ConfirmMatchesHead, Matches
<1> QED
  BY <1>1, <1>4, <1>5 DEF QInv

\* A new call takes a slot that is not on the list.
LEMMA SendMsgOrder ==
    ASSUME IndIds = {}, IInv, QInv, NEW t \in Senders, NEW id \in Ids, NEW cfm \in BOOLEAN,
           SendMsg(t, id, cfm)
    PROVE  QInv'
<1> pc \in [Senders -> SenderPC] /\ reqid \in [Slots -> Ids \cup {NoMsg}]
  BY DEF IInv, TypeOK
<1>1. UNCHANGED <<state, cmds, flags, tkn, next_tkn, cmd_buf, fw, pushed, bus, wpc, wcmd>>
  BY DEF SendMsg, Goto, slotVars, mgrVars, wVars, busVars
<1>2. \A u \in Senders \ {t} : pc'[u] = pc[u] /\ scmd'[u] = scmd[u]
  <2> scmd \in [Senders -> Slots \cup {0}]
    BY DEF IInv, TypeOK
  <2> QED
    BY DEF SendMsg, Goto
<1>3. pc'[t] \notin {"push", "send"}
  BY DEF SendMsg, Goto
<1>4. \A i \in DOMAIN cmds : reqid'[cmds[i]] = reqid[cmds[i]]
  <2>1. \A i \in DOMAIN cmds : cmds[i] \in used /\ cmds[i] \in Slots
    BY DEF IInv, TypeOK, ListIntact
  <2> QED
    BY <2>1 DEF SendMsg, slotVars
<1>5. bus = "UP" => \A u \in Senders : pc'[u] # "send"
  BY <1>2, <1>3 DEF QInv, OnePusher
<1>6. \A u \in Senders : pc'[u] = "push" => pc[u] = "push" /\ scmd'[u] = scmd[u]
  BY <1>2, <1>3
<1>7. Pushing' => Pushing /\ wcmd' = wcmd
  BY <1>1 DEF Pushing
<1> QED
  BY <1>1, <1>4, <1>5, <1>6, <1>7, Idle

\* The steps of a sender that touch neither the list nor the bus.
LEMMA SenderIdle ==
    ASSUME IInv, QInv, NEW t \in Senders,
           \/ Poll(t) \/ QueueRefuse(t) \/ DeferWake(t) \/ WaitDone(t) \/ Kick(t)
           \/ WaitExpire(t) \/ QueueAfterDeinit(t)
    PROVE  QInv'
<1> pc \in [Senders -> SenderPC] /\ scmd \in [Senders -> Slots \cup {0}]
  BY DEF IInv, TypeOK
<1>1. /\ UNCHANGED <<state, cmds, flags, reqid, tkn, next_tkn, cmd_buf, fw, pushed, bus, wpc,
                     wcmd>>
      /\ pc'[t] \notin {"push", "send"}
      /\ \A u \in Senders \ {t} : pc'[u] = pc[u] /\ scmd'[u] = scmd[u]
  <2>1. CASE Poll(t) \/ QueueRefuse(t) \/ DeferWake(t)
    BY <2>1 DEF Poll, QueueRefuse, DeferWake, Goto, Leave, mgrVars, wVars, busVars
  <2>2. CASE WaitDone(t) \/ Kick(t) \/ WaitExpire(t)
    BY <2>2 DEF WaitDone, Kick, WaitExpire, Goto, Leave, mgrVars, wVars, busVars
  <2>3. CASE QueueAfterDeinit(t)
    BY <2>3 DEF QueueAfterDeinit, Goto, Leave, mgrVars, wVars, busVars
  <2> QED
    BY <2>1, <2>2, <2>3
<1>2. bus = "UP" => \A u \in Senders : pc'[u] # "send"
  BY <1>1 DEF QInv, OnePusher
<1>3. \A u \in Senders : pc'[u] = "push" => pc[u] = "push" /\ scmd'[u] = scmd[u]
  BY <1>1
<1>4. Pushing' => Pushing /\ wcmd' = wcmd
  BY <1>1 DEF Pushing
<1> QED
  BY <1>1, <1>2, <1>3, <1>4, Idle

\* A command that is queued goes to the tail, with the largest token; its sender pushes it
\* only if the list was empty, when nothing is on its way.
LEMMA QueuedOrder ==
    ASSUME IndIds = {}, IInv, QInv, NEW t \in Senders, Queue(t) \/ QueueForceDefer(t)
    PROVE  QInv'
<1> DEFINE s == scmd[t]
<1>0. /\ cmds \in Seq(Slots) /\ flags \in [Slots -> SUBSET Flags] /\ tkn \in [Slots -> Nat]
      /\ next_tkn \in Nat /\ pushed \in Int
  BY DEF IInv, TypeOK
<1>1. /\ s \in Slots /\ ~InList(s) /\ Owner(t) /\ state = "INITED"
      /\ UNCHANGED <<state, reqid, wpc, wcmd, bus, cmd_buf, fw, pushed>>
      /\ cmds' = Append(cmds, s) /\ next_tkn' = next_tkn + 1
      /\ tkn' = [tkn EXCEPT ![s] = next_tkn]
      /\ \A u \in Senders \ {t} : pc'[u] = pc[u] /\ scmd'[u] = scmd[u]
  BY QueuedFacts
<1>2. PICK waits \in SUBSET Flags :
        /\ flags' = [flags EXCEPT ![s] = @ \cup waits]
        /\ \/ "WAIT_PUSH" \in waits /\ pc'[t] \in {"idle", "wake"}
           \/ pc'[t] = "push" /\ cmds = <<>> /\ scmd' = scmd
  BY QueuedFacts
<1>3. /\ DOMAIN cmds' = 1 .. Len(cmds) + 1 /\ DOMAIN cmds = 1 .. Len(cmds)
      /\ Len(cmds) \in Nat /\ cmds' # <<>>
      /\ \A i \in DOMAIN cmds : i \in DOMAIN cmds' /\ cmds'[i] = cmds[i]
      /\ cmds'[Len(cmds) + 1] = s
      /\ \A i \in DOMAIN cmds' : i \in DOMAIN cmds \/ i = Len(cmds) + 1
  BY <1>0, <1>1, AppendFacts
<1>4. /\ \A u \in Senders \ {t} : Owner(u) => scmd[u] # s /\ scmd[u] \in Slots
      /\ WOwner => wcmd # s /\ wcmd \in Slots
      /\ \A i \in DOMAIN cmds : cmds[i] # s /\ cmds[i] \in Slots
  BY <1>0, <1>1 DEF IInv, TypeOK, SlotOwned, InList
<1>5. /\ \A i \in DOMAIN cmds : /\ flags'[cmds[i]] = flags[cmds[i]]
                                /\ tkn'[cmds[i]] = tkn[cmds[i]]
      /\ tkn'[s] = next_tkn
  BY <1>0, <1>1, <1>2, <1>4
<1>6. /\ cmds # <<>> => 1 \in DOMAIN cmds /\ cmds'[1] = cmds[1]
      /\ cmds = <<>> => Len(cmds) = 0 /\ cmds'[1] = s
  BY <1>0, <1>3
<1>7. Quiet' = Quiet /\ Pushing' = Pushing
  BY <1>1 DEF Quiet, Pushing
<1> SUFFICES ASSUME bus = "UP" PROVE QInv'
  BY <1>1 DEF QInv, OnePusher, TokensInOrder, ConfirmMatchesHead
<1>8. cmds = <<>> => Quiet /\ ~Pushing /\ \A u \in Senders : pc[u] # "push"
  BY <1>1, QuietUnlessPushed DEF QInv, OnePusher
<1>9. Pushing => WOwner
  BY DEF Pushing, WOwner
<1> HIDE DEF s
<1>10. OnePusher'
  <2>1. ASSUME NEW u \in Senders
        PROVE  /\ pc'[u] # "send"
               /\ pc'[u] = "push" => cmds' # <<>> /\ scmd'[u] = cmds'[1] /\ Quiet' /\ ~Pushing'
    <3>1. CASE u = t
      BY <1>2, <1>3, <1>6, <1>7, <1>8, <3>1 DEF s
    <3>2. CASE u # t
      BY <1>1, <1>3, <1>6, <1>7, <3>2 DEF QInv, OnePusher
    <3> QED
      BY <3>1, <3>2
  <2>2. Pushing' => cmds' # <<>> /\ wcmd' = cmds'[1] /\ Quiet'
    BY <1>1, <1>3, <1>6, <1>7 DEF QInv, OnePusher
  <2> QED
    BY <2>1, <2>2 DEF OnePusher
<1>11. TokensInOrder'
  <2>1. /\ pushed < next_tkn
        /\ \A i \in DOMAIN cmds : tkn[cmds[i]] < next_tkn /\ tkn[cmds[i]] \in Nat
    BY <1>0, <1>4 DEF QInv, TokensInOrder
  <2>2. pushed' < next_tkn' /\ \A i \in DOMAIN cmds' : tkn'[cmds'[i]] < next_tkn'
    BY <1>0, <1>1, <1>3, <1>5, <2>1
  <2>3. ASSUME NEW i \in DOMAIN cmds', NEW j \in DOMAIN cmds', i < j
        PROVE  tkn'[cmds'[i]] < tkn'[cmds'[j]]
    <3>1. i \in DOMAIN cmds
      BY <1>3, <2>3
    <3>2. CASE j \in DOMAIN cmds
      BY <1>3, <1>5, <2>3, <3>1, <3>2 DEF QInv, TokensInOrder
    <3>3. CASE j = Len(cmds) + 1
      BY <1>3, <1>5, <2>1, <3>1, <3>3
    <3> QED
      BY <1>3, <3>2, <3>3
  <2>4. \A i \in DOMAIN cmds' : "WAIT_PUSH" \in flags'[cmds'[i]] => tkn'[cmds'[i]] > pushed'
    <3>1. \A i \in DOMAIN cmds : "WAIT_PUSH" \in flags[cmds[i]] => tkn[cmds[i]] > pushed
      BY DEF QInv, TokensInOrder
    <3> QED
      BY <1>0, <1>1, <1>3, <1>5, <2>1, <3>1
  <2>5. ASSUME NEW u \in Senders, pc'[u] = "push" PROVE tkn'[scmd'[u]] > pushed'
    <3>1. CASE u = t
      BY <1>0, <1>1, <1>2, <1>5, <2>1, <2>5, <3>1 DEF s
    <3>2. CASE u # t
      <4>1. scmd[u] # s /\ scmd[u] \in Slots /\ pc[u] = "push" /\ scmd'[u] = scmd[u]
        BY <1>1, <1>4, <2>5, <3>2 DEF Owner
      <4> QED
        BY <1>0, <1>1, <4>1 DEF QInv, TokensInOrder
    <3> QED
      BY <3>1, <3>2
  <2>6. ASSUME Pushing'
        PROVE  /\ tkn'[wcmd'] > pushed' /\ tkn'[wcmd'] < next_tkn'
               /\ \A i \in DOMAIN cmds' : cmds'[i] # wcmd' => tkn'[cmds'[i]] > tkn'[wcmd']
    <3>1. /\ tkn[wcmd] > pushed /\ tkn[wcmd] < next_tkn /\ wcmd # s /\ wcmd \in Slots
          /\ \A i \in DOMAIN cmds : cmds[i] # wcmd => tkn[cmds[i]] > tkn[wcmd]
      BY <1>4, <1>7, <1>9, <2>6 DEF QInv, TokensInOrder
    <3>2. tkn'[wcmd] = tkn[wcmd] /\ tkn[wcmd] \in Nat
      BY <1>0, <1>1, <3>1
    <3> QED
      BY <1>0, <1>1, <1>3, <1>5, <3>1, <3>2
  <2> QED
    BY <2>2, <2>3, <2>4, <2>5, <2>6 DEF TokensInOrder
<1>12. ConfirmMatchesHead'
  <2>1. CASE cmds = <<>>
    <3>1. \A r \in ReqIds : fw'[r] = 0 /\ cmd_buf' # r
      BY <1>1, <1>8, <2>1, NoMsgAssumption DEF Quiet, Ids
    <3> QED
      BY <3>1 DEF ConfirmMatchesHead
  <2>2. CASE cmds # <<>>
    BY <1>1, <1>3, <1>5, <1>6, <2>2 DEF QInv, ConfirmMatchesHead, Matches
  <2> QED
    BY <2>1, <2>2
<1> QED
  BY <1>10, <1>11, <1>12 DEF QInv

\* The head of the list is handed to a quiet bus.
LEMMA PushOrder ==
    ASSUME IInv, QInv, NEW s \in Slots, SetCmdTx(s), bus = "UP", Quiet, cmds # <<>>,
           s = cmds[1], "WAIT_PUSH" \notin flags[s], UNCHANGED <<cmds, flags, reqid>>
    PROVE  ConfirmMatchesHead' /\ fw' = fw
<1>1. cmd_buf' = reqid[s] /\ fw' = fw /\ \A r \in ReqIds : fw[r] = 0
  BY DEF SetCmdTx, Quiet
<1>2. 1 \in DOMAIN cmds
  BY DEF IInv, TypeOK
<1>3. "WAIT_CFM" \in flags[s]
  BY <1>2 DEF IInv, LinkedWaits
<1> QED
  BY <1>1, <1>3 DEF ConfirmMatchesHead, Matches

\* A direct command is handed to the bus by its sender.
LEMMA SenderPushOrder == ASSUME IInv, QInv, NEW t \in Senders, Push(t) PROVE QInv'
<1> pc \in [Senders -> SenderPC]
  BY DEF IInv, TypeOK
<1>1. /\ UNCHANGED <<state, cmds, flags, reqid, tkn, next_tkn, scmd, wpc, wcmd, bus>>
      /\ pc' = [pc EXCEPT ![t] = "wait"] /\ pc[t] = "push" /\ pushed' = tkn[scmd[t]]
      /\ SetCmdTx(scmd[t])
  BY DEF Push, Goto, SetCmdTx, mgrVars, wVars
<1> SUFFICES ASSUME bus = "UP" PROVE QInv'
  BY <1>1 DEF QInv, OnePusher, TokensInOrder, ConfirmMatchesHead
<1>2. cmds # <<>> /\ scmd[t] = cmds[1] /\ Quiet /\ ~Pushing /\ Owner(t)
  BY <1>1 DEF QInv, OnePusher, Owner
<1>3. scmd[t] \in Slots /\ "WAIT_PUSH" \notin flags[scmd[t]] /\ 1 \in DOMAIN cmds
  BY <1>2 DEF IInv, TypeOK, SlotOwned, NoStalePush
<1>4. \A u \in Senders \ {t} : pc[u] # "push"
  BY <1>1, <1>2 DEF QInv, OnePusher, IInv, SlotOwned, Owner
<1>5. \A u \in Senders : pc'[u] # "push" /\ pc'[u] # "send"
  BY <1>1, <1>4 DEF QInv, OnePusher
<1>6. ~Pushing'
  BY <1>1, <1>2 DEF Pushing
<1>7. ConfirmMatchesHead'
  BY <1>1, <1>2, <1>3, PushOrder
<1>8. OnePusher'
  BY <1>5, <1>6 DEF OnePusher
<1>9. TokensInOrder'
  <2>1. pushed' < next_tkn
    BY <1>1, <1>2, <1>3 DEF QInv, TokensInOrder
  <2>2. \A i \in DOMAIN cmds : "WAIT_PUSH" \in flags[cmds[i]] => tkn[cmds[i]] > pushed'
    <3>1. \A i \in DOMAIN cmds : i \in Nat /\ i >= 1 /\ (cmds[i] # cmds[1] => i > 1)
      BY DEF IInv, TypeOK
    <3>2. \A i \in DOMAIN cmds : cmds[i] \in Slots
      BY DEF IInv, TypeOK
    <3>3. tkn \in [Slots -> Nat]
      BY DEF IInv, TypeOK
    <3> QED
      BY <1>1, <1>2, <1>3, <3>1, <3>2, <3>3 DEF QInv, TokensInOrder
  <2> QED
    BY <1>1, <1>5, <1>6, <2>1, <2>2 DEF QInv, TokensInOrder
<1> QED
  BY <1>7, <1>8, <1>9 DEF QInv

\* A sender whose wait expired takes its command, the head, off the list: then nobody is
\* about to push.
LEMMA TimedOutOrder == ASSUME IInv, QInv, NEW t \in Senders, TimedOut(t) PROVE QInv'
<1>0. /\ pc \in [Senders -> SenderPC] /\ scmd \in [Senders -> Slots \cup {0}]
      /\ flags \in [Slots -> SUBSET Flags]
  BY DEF IInv, TypeOK
<1>1. /\ UNCHANGED <<reqid, tkn, next_tkn, cmd_buf, fw, pushed, bus, wpc, wcmd>>
      /\ \A u \in Senders \ {t} : pc'[u] = pc[u] /\ scmd'[u] = scmd[u]
      /\ pc'[t] \in {"oops", "idle"} /\ pc[t] = "expired"
  BY <1>0 DEF TimedOut, Goto, Leave, wVars, busVars
<1>2. scmd[t] \in Slots /\ Owner(t)
  BY <1>1 DEF IInv, TypeOK, SlotOwned, Owner
<1>3. bus = "UP" => \A u \in Senders : pc'[u] # "send"
  BY <1>1 DEF QInv, OnePusher
<1>4. \A u \in Senders : pc'[u] = "push" => pc[u] = "push" /\ scmd'[u] = scmd[u]
  BY <1>1
<1>5. Pushing' = Pushing /\ Quiet' = Quiet
  BY <1>1 DEF Pushing, Quiet
<1>6. CASE BadDel(scmd[t])
  <2>1. UNCHANGED <<state, cmds, flags>>
    BY <1>6 DEF TimedOut
  <2> QED
    BY <1>1, <1>3, <1>4, <1>5, <2>1, Idle
<1>7. CASE ~BadDel(scmd[t]) /\ "DONE" \in flags[scmd[t]]
  <2>1. UNCHANGED <<cmds, flags>> /\ state' = "CRASHED"
    BY <1>7 DEF TimedOut, Expired
  <2>2. TokensInOrder'
    BY <1>1, <1>4, <1>5, <2>1, TokensKept DEF QInv
  <2>3. OnePusher'
    BY <1>1, <1>3, <1>4, <1>5, <2>1 DEF QInv, OnePusher
  <2>4. ConfirmMatchesHead'
    BY <2>1 DEF ConfirmMatchesHead
  <2> QED
    BY <2>2, <2>3, <2>4 DEF QInv
<1>8. CASE ~BadDel(scmd[t]) /\ "DONE" \notin flags[scmd[t]]
  <2>1. InList(scmd[t]) /\ CmdComplete(scmd[t], flags[scmd[t]]) /\ state' = "CRASHED"
    BY <1>8 DEF TimedOut, Expired, BadDel
  <2>2. cmds # <<>> /\ scmd[t] = cmds[1]
    BY <1>2, <2>1, OwnedAtHead
  <2>3. bus = "UP" => \A u \in Senders : pc[u] # "push"
    BY <1>1, <1>2, <2>2 DEF QInv, OnePusher, IInv, SlotOwned, Owner
  <2>4. /\ \A i \in DOMAIN cmds' : cmds'[i] # scmd[t] /\ \E k \in DOMAIN cmds : cmds'[i] = cmds[k]
        /\ \A i, j \in DOMAIN cmds' : i < j =>
             \E k, l \in DOMAIN cmds : k < l /\ cmds'[i] = cmds[k] /\ cmds'[j] = cmds[l]
        /\ flags' = [flags EXCEPT ![scmd[t]] = flags[scmd[t]] \cup {"DONE"}]
    BY <1>2, <2>1, UnlinkFacts
  <2>5. \A i \in DOMAIN cmds' : \E k \in DOMAIN cmds :
          /\ cmds'[i] = cmds[k]
          /\ "WAIT_PUSH" \in flags'[cmds'[i]] => "WAIT_PUSH" \in flags[cmds[k]]
    BY <1>0, <2>4 DEF IInv, TypeOK
  <2>6. TokensInOrder'
    BY <1>1, <1>4, <1>5, <2>4, <2>5, TokensKept DEF QInv
  <2>7. OnePusher'
    BY <1>1, <1>3, <1>4, <2>1, <2>3 DEF OnePusher
  <2>8. ConfirmMatchesHead'
    BY <2>1 DEF ConfirmMatchesHead
  <2> QED
    BY <2>6, <2>7, <2>8 DEF QInv
<1> QED
  BY <1>6, <1>7, <1>8

\* The same for the worker.
LEMMA WorkerTimedOutOrder == ASSUME IInv, QInv, WorkerTimedOut PROVE QInv'
<1>0. flags \in [Slots -> SUBSET Flags]
  BY DEF IInv, TypeOK
<1>1. /\ UNCHANGED <<pc, scmd, reqid, tkn, next_tkn, cmd_buf, fw, pushed, bus>>
      /\ wpc' \in {"oops", "scan"} /\ wpc = "expired"
  BY DEF WorkerTimedOut, WorkerUnchanged, busVars
<1>2. wcmd \in Slots /\ WOwner /\ ~Pushing' /\ Quiet' = Quiet
  BY <1>1 DEF IInv, TypeOK, SlotOwned, WOwner, Pushing, Quiet
<1>3. bus = "UP" => \A u \in Senders : pc'[u] # "send"
  BY <1>1 DEF QInv, OnePusher
<1>4. CASE BadDel(wcmd)
  <2>1. UNCHANGED <<state, cmds, flags>>
    BY <1>4 DEF WorkerTimedOut
  <2> QED
    BY <1>1, <1>2, <1>3, <2>1, Idle
<1>5. CASE ~BadDel(wcmd) /\ "DONE" \in flags[wcmd]
  <2>1. UNCHANGED <<cmds, flags>> /\ state' = "CRASHED"
    BY <1>5 DEF WorkerTimedOut, Expired
  <2>2. TokensInOrder'
    BY <1>1, <1>2, <2>1, TokensKept DEF QInv
  <2>3. OnePusher'
    BY <1>1, <1>2, <1>3, <2>1 DEF QInv, OnePusher
  <2>4. ConfirmMatchesHead'
    BY <2>1 DEF ConfirmMatchesHead
  <2> QED
    BY <2>2, <2>3, <2>4 DEF QInv
<1>6. CASE ~BadDel(wcmd) /\ "DONE" \notin flags[wcmd]
  <2>1. InList(wcmd) /\ CmdComplete(wcmd, flags[wcmd]) /\ state' = "CRASHED"
    BY <1>6 DEF WorkerTimedOut, Expired, BadDel
  <2>2. cmds # <<>> /\ wcmd = cmds[1]
    BY <1>2, <2>1, OwnedAtHead
  <2>3. bus = "UP" => \A u \in Senders : pc[u] # "push"
    BY <1>1, <1>2, <2>2 DEF QInv, OnePusher, IInv, SlotOwned, Owner
  <2>4. /\ \A i \in DOMAIN cmds' : cmds'[i] # wcmd /\ \E k \in DOMAIN cmds : cmds'[i] = cmds[k]
        /\ \A i, j \in DOMAIN cmds' : i < j =>
             \E k, l \in DOMAIN cmds : k < l /\ cmds'[i] = cmds[k] /\ cmds'[j] = cmds[l]
        /\ flags' = [flags EXCEPT ![wcmd] = flags[wcmd] \cup {"DONE"}]
    BY <1>2, <2>1, UnlinkFacts
  <2>5. \A i \in DOMAIN cmds' : \E k \in DOMAIN cmds :
          /\ cmds'[i] = cmds[k]
          /\ "WAIT_PUSH" \in flags'[cmds'[i]] => "WAIT_PUSH" \in flags[cmds[k]]
    BY <1>0, <2>4 DEF IInv, TypeOK
  <2>6. TokensInOrder'
    BY <1>1, <1>2, <2>4, <2>5, TokensKept DEF QInv
  <2>7. OnePusher'
    BY <1>1, <1>2, <1>3, <2>1, <2>3 DEF OnePusher
  <2>8. ConfirmMatchesHead'
    BY <2>1 DEF ConfirmMatchesHead
  <2> QED
    BY <2>6, <2>7, <2>8 DEF QInv
<1> QED
  BY <1>4, <1>5, <1>6

\* The worker picks the head, whose turn it is: the bus is quiet and no sender pushes.
LEMMA WorkerScanOrder == ASSUME IndIds = {}, IInv, QInv, WorkerScan PROVE QInv'
<1>1. UNCHANGED <<state, cmds, flags, reqid, pc, scmd, tkn, next_tkn, cmd_buf, fw, pushed, bus>>
  BY DEF WorkerScan, WorkerUnchanged, busVars
<1>2. wpc = "scan" /\ Quiet' = Quiet
  BY <1>1 DEF WorkerScan, Quiet
<1> SUFFICES ASSUME bus = "UP" PROVE QInv'
  BY <1>1 DEF QInv, OnePusher, TokensInOrder, ConfirmMatchesHead
<1>3. CASE cmds # <<>> /\ "WAIT_PUSH" \in flags[cmds[1]]
  <2>1. wpc' = "load" /\ wcmd' = cmds[1] /\ 1 \in DOMAIN cmds
    BY <1>3 DEF WorkerScan, IInv, TypeOK
  <2>2. \A t \in Senders : pc[t] # "push"
    BY <1>3 DEF QInv, OnePusher, IInv, NoStalePush, Owner
  <2>3. state = "INITED" => Quiet
    BY <1>3, QuietUnlessPushed DEF QInv
  <2>4. OnePusher'
    BY <1>1, <1>2, <1>3, <2>1, <2>2, <2>3 DEF QInv, OnePusher
  <2>5. ConfirmMatchesHead'
    BY <1>1 DEF QInv, ConfirmMatchesHead, Matches
  <2>6. TokensInOrder'
    <3>1. \A i \in DOMAIN cmds : cmds[i] # cmds[1] => i > 1
      BY DEF IInv, TypeOK
    <3>2. /\ tkn[wcmd'] > pushed /\ tkn[wcmd'] < next_tkn
          /\ \A i \in DOMAIN cmds : cmds[i] # wcmd' => tkn[cmds[i]] > tkn[wcmd']
      <4>1. \A i \in DOMAIN cmds : tkn[cmds[i]] \in Nat
        BY DEF IInv, TypeOK
      <4> QED
        BY <1>3, <2>1, <3>1, <4>1 DEF QInv, TokensInOrder
    <3> QED
      BY <1>1, <2>2, <3>2 DEF QInv, TokensInOrder
  <2> QED
    BY <2>4, <2>5, <2>6 DEF QInv
<1>4. CASE ~(cmds # <<>> /\ "WAIT_PUSH" \in flags[cmds[1]])
  <2>1. ~Pushing'
    BY <1>4 DEF WorkerScan, Pushing
  <2>2. \A t \in Senders : pc'[t] # "send"
    BY <1>1 DEF QInv, OnePusher
  <2> QED
    BY <1>1, <2>1, <2>2, Idle
<1> QED
  BY <1>3, <1>4

\* The other steps of the worker before it pushes, and after.
LEMMA WorkerIdleOrder ==
    ASSUME IInv, QInv, WorkerStart \/ WorkerLoad \/ WorkerStore \/ WorkerDone \/ WorkerExpire
    PROVE  QInv'
<1>1. /\ UNCHANGED <<state, cmds, reqid, pc, scmd, tkn, next_tkn, cmd_buf, fw, pushed, bus>>
      /\ Pushing' => Pushing /\ wcmd' = wcmd
  BY DEF WorkerStart, WorkerLoad, WorkerStore, WorkerDone, WorkerExpire, WorkerUnchanged,
         busVars, Pushing
<1>2. bus = "UP" => \A t \in Senders : pc'[t] # "send"
  BY <1>1 DEF QInv, OnePusher
<1>3. CASE WorkerStart \/ WorkerLoad \/ WorkerDone \/ WorkerExpire
  <2>1. flags' = flags
    BY <1>3 DEF WorkerStart, WorkerLoad, WorkerDone, WorkerExpire
  <2> QED
    BY <1>1, <1>2, <2>1, Idle
<1>4. CASE WorkerStore
  <2>1. flags' = [flags EXCEPT ![wcmd] = wflags] /\ wpc = "store" /\ wpc' = "push"
    BY <1>4 DEF WorkerStore
  <2>2. Pushing /\ "WAIT_PUSH" \notin wflags /\ flags \in [Slots -> SUBSET Flags]
    BY <2>1 DEF Pushing, IInv, TypeOK, NoStalePush
  <2>3. \A i \in DOMAIN cmds :
           cmds[i] \in Slots /\ ("WAIT_PUSH" \in flags'[cmds[i]] => "WAIT_PUSH" \in flags[cmds[i]])
    BY <2>1, <2>2 DEF IInv, TypeOK
  <2>4. TokensInOrder'
    BY <1>1, <2>3, TokensKept DEF QInv
  <2>5. Quiet' = Quiet /\ Pushing'
    BY <1>1, <2>1 DEF Quiet, Pushing
  <2>6. OnePusher'
    BY <1>1, <2>2, <2>5 DEF QInv, OnePusher
  <2>7. ConfirmMatchesHead'
    <3> SUFFICES ASSUME state = "INITED", bus = "UP" PROVE ConfirmMatchesHead'
      BY <1>1 DEF ConfirmMatchesHead
    <3>1. \A r \in ReqIds : fw'[r] = 0 /\ cmd_buf' # r
      BY <1>1, <2>2, NoMsgAssumption DEF QInv, OnePusher, Quiet, Ids
    <3> QED
      BY <3>1 DEF ConfirmMatchesHead
  <2> QED
    BY <2>4, <2>6, <2>7 DEF QInv
<1> QED
  BY <1>3, <1>4

\* The worker hands its command to the bus.
LEMMA WorkerPushOrder == ASSUME IInv, QInv, WorkerPush PROVE QInv'
<1>1. /\ UNCHANGED <<state, cmds, flags, reqid, pc, scmd, tkn, next_tkn, wcmd, bus>>
      /\ wpc = "push" /\ wpc' = "wait" /\ pushed' = tkn[wcmd] /\ SetCmdTx(wcmd)
  BY DEF WorkerPush, WorkerUnchanged, SetCmdTx
<1> SUFFICES ASSUME bus = "UP" PROVE QInv'
  BY <1>1 DEF QInv, OnePusher, TokensInOrder, ConfirmMatchesHead
<1>2. Pushing /\ ~Pushing' /\ wcmd \in Slots /\ "WAIT_PUSH" \notin flags[wcmd]
  BY <1>1 DEF Pushing, IInv, TypeOK, SlotOwned, WOwner, NoStalePush
<1>3. \A u \in Senders : pc'[u] # "push" /\ pc'[u] # "send"
  BY <1>1, <1>2 DEF QInv, OnePusher
<1>4. OnePusher'
  BY <1>2, <1>3 DEF OnePusher
<1>5. TokensInOrder'
  <2>1. /\ pushed' < next_tkn
        /\ \A i \in DOMAIN cmds : "WAIT_PUSH" \in flags[cmds[i]] => tkn[cmds[i]] > pushed'
    BY <1>1, <1>2 DEF QInv, TokensInOrder
  <2> QED
    BY <1>1, <1>2, <1>3, <2>1 DEF QInv, TokensInOrder
<1>6. ConfirmMatchesHead'
  <2> SUFFICES ASSUME state = "INITED" PROVE ConfirmMatchesHead'
    BY <1>1 DEF ConfirmMatchesHead
  <2>1. cmds # <<>> /\ wcmd = cmds[1] /\ Quiet
    BY <1>2 DEF QInv, OnePusher
  <2> QED
    BY <1>1, <1>2, <2>1, PushOrder
<1> QED
  BY <1>4, <1>5, <1>6 DEF QInv

\* The transfer of the one message on its way, which is not followed by another.
LEMMA BusTxOrder == ASSUME IInv, QInv, NEW ok \in BOOLEAN, BusTx(ok) PROVE QInv'
<1>1. /\ UNCHANGED <<state, cmds, flags, reqid, pc, scmd, tkn, next_tkn, wpc, wcmd, bus, pushed>>
      /\ bus = "UP" /\ cmd_buf # NoMsg /\ cmd_buf' = NoMsg
      /\ fw' = IF ok /\ cmd_buf \in ReqIds THEN [fw EXCEPT ![cmd_buf] = @ + 1] ELSE fw
  BY DEF BusTx, mgrVars, slotVars, wVars
<1>2. ~Quiet /\ Pushing' = Pushing
  BY <1>1 DEF Quiet, Pushing
<1>3. \A u \in Senders : pc'[u] # "push" /\ pc'[u] # "send"
  BY <1>1, <1>2 DEF QInv, OnePusher
<1>4. OnePusher'
  BY <1>1, <1>2, <1>3 DEF QInv, OnePusher
<1>5. TokensInOrder'
  BY <1>1, <1>2, TokensKept DEF QInv
<1>6. ConfirmMatchesHead'
  <2> SUFFICES ASSUME state = "INITED", NEW r \in ReqIds
               PROVE  /\ fw'[r] + (IF cmd_buf' = r THEN 1 ELSE 0) <= 1
                      /\ fw'[r] > 0 \/ cmd_buf' = r =>
                           /\ cmds # <<>> /\ Matches(cmds[1], r)
                           /\ "WAIT_PUSH" \notin flags[cmds[1]]
    BY <1>1 DEF ConfirmMatchesHead, Matches
  <2>1. /\ fw \in [ReqIds -> Nat] /\ fw[r] \in Nat
        /\ fw[r] + (IF cmd_buf = r THEN 1 ELSE 0) <= 1
        /\ fw[r] > 0 \/ cmd_buf = r =>
             /\ cmds # <<>> /\ Matches(cmds[1], r)
             /\ "WAIT_PUSH" \notin flags[cmds[1]]
    BY <1>1 DEF QInv, ConfirmMatchesHead, IInv, TypeOK
  <2>2. cmd_buf' # r
    BY <1>1, NoMsgAssumption DEF Ids
  <2>3. fw'[r] = fw[r] \/ (cmd_buf = r /\ fw'[r] = fw[r] + 1)
    BY <1>1, <2>1
  <2> QED
    BY <2>1, <2>2, <2>3
<1> QED
  BY <1>4, <1>5, <1>6 DEF QInv

\* A confirmation completes the head, which is the command it belongs to; after a crash it
\* may complete any, or none.
LEMMA MsgIndOrder == ASSUME IInv, QInv, NEW r \in ReqIds, MsgInd(r) PROVE QInv'
<1>1. /\ UNCHANGED <<state, reqid, pc, scmd, tkn, next_tkn, wpc, wcmd, bus, cmd_buf, pushed>>
      /\ bus = "UP" /\ fw[r] > 0 /\ fw' = [fw EXCEPT ![r] = @ - 1]
  BY DEF MsgInd, wVars
<1>2. ~Quiet /\ Pushing' = Pushing /\ fw \in [ReqIds -> Nat]
  BY <1>1 DEF Quiet, Pushing, IInv, TypeOK
<1>3. \A u \in Senders : pc'[u] # "push" /\ pc'[u] # "send"
  BY <1>1, <1>2 DEF QInv, OnePusher
<1>4. OnePusher'
  BY <1>1, <1>2, <1>3 DEF QInv, OnePusher
<1>5. TokensInOrder'
  <2>1. CASE UNCHANGED <<cmds, flags>>
    BY <1>1, <1>2, <2>1, TokensKept DEF QInv
  <2>2. ASSUME NEW i \in DOMAIN cmds, CmdComplete(cmds[i], flags[cmds[i]] \ {"WAIT_CFM"})
        PROVE  TokensInOrder'
    <3> DEFINE s  == cmds[i]
               fl == flags[s] \ {"WAIT_CFM"}
    <3>1. s \in Slots /\ InList(s) /\ CmdComplete(s, fl)
      BY <2>2 DEF IInv, TypeOK, InList
    <3> HIDE DEF s, fl
    <3>2. /\ \A j \in DOMAIN cmds' : cmds'[j] # s /\ \E k \in DOMAIN cmds : cmds'[j] = cmds[k]
          /\ \A j, k \in DOMAIN cmds' : j < k =>
               \E m, l \in DOMAIN cmds : m < l /\ cmds'[j] = cmds[m] /\ cmds'[k] = cmds[l]
          /\ flags' = [flags EXCEPT ![s] = fl \cup {"DONE"}]
      BY <3>1, UnlinkFacts
    <3>3. \A j \in DOMAIN cmds' : \E k \in DOMAIN cmds :
            /\ cmds'[j] = cmds[k]
            /\ "WAIT_PUSH" \in flags'[cmds'[j]] => "WAIT_PUSH" \in flags[cmds[k]]
      BY <3>1, <3>2 DEF IInv, TypeOK
    <3> QED
      BY <1>1, <1>2, <3>2, <3>3, TokensKept DEF QInv
  <2> QED
    BY <2>1, <2>2 DEF MsgInd
<1>6. ConfirmMatchesHead'
  <2> SUFFICES ASSUME state = "INITED" PROVE ConfirmMatchesHead'
    BY <1>1 DEF ConfirmMatchesHead
  <2>1. /\ cmds # <<>> /\ Matches(cmds[1], r) /\ 1 \in DOMAIN cmds
        /\ fw[r] = 1 /\ cmd_buf # r
    BY <1>1, <1>2 DEF QInv, ConfirmMatchesHead, IInv, TypeOK
  <2>2. \A x \in ReqIds \ {r} : fw[x] = 0 /\ cmd_buf # x
    <3>1. \A x \in ReqIds \ {r} : ~Matches(cmds[1], x)
      BY <2>1 DEF Matches
    <3> QED
      BY <1>1, <1>2, <3>1 DEF QInv, ConfirmMatchesHead
  <2>3. \A x \in ReqIds : fw'[x] = 0 /\ cmd_buf' # x
    BY <1>1, <1>2, <2>1, <2>2
  <2> QED
    BY <2>3 DEF ConfirmMatchesHead
<1> QED
  BY <1>4, <1>5, <1>6 DEF QInv

\* Every step keeps what is on its way in order.
LEMMA NextQInv == ASSUME IndIds = {}, IInv, SInv, QInv, [Next]_vars PROVE QInv'
<1>1. CASE \E t \in Senders, id \in Ids, cfm \in BOOLEAN : SendMsg(t, id, cfm)
  BY <1>1, SendMsgOrder
<1>2. ASSUME NEW t \in Senders, SenderStep(t) PROVE QInv'
  <2>1. CASE SendInd(t)
    <3>1. bus # "UP" /\ bus' = bus
      BY <2>1 DEF SendInd, SetCmdTx, QInv, OnePusher
    <3> QED
      BY <3>1 DEF QInv, OnePusher, TokensInOrder, ConfirmMatchesHead
  <2> QED
    BY <1>2, <2>1, SenderIdle, QueuedOrder, SenderPushOrder, TimedOutOrder DEF SenderStep
<1>3. CASE Worker
  BY <1>3, WorkerIdleOrder, WorkerScanOrder, WorkerPushOrder, WorkerTimedOutOrder DEF Worker
<1>4. CASE \E ok \in BOOLEAN : BusTx(ok)
  BY <1>4, BusTxOrder
<1>5. CASE \E r \in ReqIds : MsgInd(r)
  BY <1>5, MsgIndOrder
<1>6. CASE Release \/ Drain \/ Deinit
  <2>1. bus' # "UP"
    BY <1>6 DEF Release, Drain, Deinit, SInv, RemovalOrder
  <2> QED
    BY <2>1 DEF QInv, OnePusher, TokensInOrder, ConfirmMatchesHead
<1>7. CASE UNCHANGED vars
  <2> USE <1>7 DEF vars, mgrVars, slotVars, wVars, busVars
  <2>1. Pushing' => Pushing /\ wcmd' = wcmd
    BY DEF Pushing
  <2>2. bus = "UP" => \A t \in Senders : pc'[t] # "send"
    BY DEF QInv, OnePusher
  <2> QED
    BY <2>1, <2>2, Idle
<1> QED
  BY <1>1, <1>2, <1>3, <1>4, <1>5, <1>6, <1>7 DEF Next

\* Nothing is on its way initially.
LEMMA InitQInv == Init => QInv
<1> SUFFICES ASSUME Init PROVE QInv
  OBVIOUS
<1>1. \A r \in ReqIds : cmd_buf # r /\ fw[r] = 0
  BY NoMsgAssumption DEF Init, Ids
<1>2. ConfirmMatchesHead
  BY <1>1 DEF ConfirmMatchesHead
<1>3. OnePusher /\ TokensInOrder
  BY DEF Init, OnePusher, TokensInOrder, Pushing
<1> QED
  BY <1>2, <1>3 DEF QInv

\* What is on its way is always in order.
LEMMA SpecQInv == ASSUME IndIds = {} PROVE Spec => []QInv
<1>1. IInv /\ SInv /\ QInv /\ [Next]_vars => QInv'
  BY NextQInv
<1> QED
  BY <1>1, InitQInv, SpecSInv, PTL DEF Spec

\* As long as every message is a request, the bus carries one request at a time and until
\* the first timeout it is the head of the list: cmd_mgr_msgind(), which looks for the
\* message id only, completes the command that the confirmation belongs to.
THEOREM ConfirmsMatchHead == ASSUME IndIds = {} PROVE Spec => []ConfirmMatchesHead
<1>1. QInv => ConfirmMatchesHead
  BY DEF QInv
<1> QED
  BY <1>1, SpecQInv, PTL

\* The token of a command that is pushed is larger than that of any pushed before.
LEMMA PushAdvances ==
    ASSUME IInv, QInv, [Next]_vars, bus = "UP", pushed' # pushed
    PROVE  pushed' > pushed
<1>1. CASE \E t \in Senders : Push(t)
  BY <1>1 DEF Push, QInv, TokensInOrder
<1>2. CASE WorkerPush
  BY <1>2 DEF WorkerPush, QInv, TokensInOrder, Pushing
<1>3. CASE \E t \in Senders, id \in Ids, cfm \in BOOLEAN : SendMsg(t, id, cfm)
  BY <1>3 DEF SendMsg, busVars
<1>4. CASE \E t \in Senders : Queue(t) \/ QueueForceDefer(t)
  BY <1>4, QueuedFacts
<1>5. CASE \E t \in Senders : \/ Poll(t) \/ SendInd(t) \/ QueueRefuse(t) \/ DeferWake(t)
                              \/ WaitDone(t) \/ Kick(t)
  BY <1>5 DEF Poll, SendInd, QueueRefuse, DeferWake, WaitDone, Kick, busVars
<1>6. CASE \E t \in Senders : WaitExpire(t) \/ TimedOut(t) \/ QueueAfterDeinit(t)
  BY <1>6 DEF WaitExpire, TimedOut, QueueAfterDeinit, busVars
<1>7. CASE Worker /\ ~WorkerPush
  BY <1>7 DEF Worker, WorkerStart, WorkerScan, WorkerLoad, WorkerStore, WorkerDone,
              WorkerExpire, WorkerTimedOut, busVars
<1>8. CASE \/ (\E ok \in BOOLEAN : BusTx(ok)) \/ (\E r \in ReqIds : MsgInd(r))
           \/ Release \/ Drain \/ Deinit \/ UNCHANGED vars
  BY <1>8 DEF BusTx, MsgInd, Release, Drain, Deinit, vars, busVars
<1> QED
  BY <1>1, <1>2, <1>3, <1>4, <1>5, <1>6, <1>7, <1>8 DEF Next, SenderStep

\* Commands reach the bus in the order in which cmd_mgr_queue() accepted them, whether
\* their sender pushes them or the worker, and whatever times out in between.
THEOREM AlwaysPushedInOrder == ASSUME IndIds = {} PROVE Spec => PushedInOrder
<1>1. IInv /\ QInv /\ [Next]_vars => [bus = "UP" => pushed' > pushed]_pushed
  BY PushAdvances
<1> QED
  BY <1>1, SpecIInv, SpecQInv, PTL DEF Spec, PushedInOrder

-----------------------------------------------------------------------------
(* The slots of the command array. *)

\* A sender that has queued its command itself and not left it yet.
Kept(t) == pc[t] \in {"push", "wait", "expired"}

\* Somebody works on the slot, or its command is on the list.
AccountedFor(s) ==
    \/ InList(s) \/ (WOwner /\ wcmd = s)
    \/ \E t \in Senders : Owner(t) /\ scmd[t] = s

\* While the device stays: until the first timeout no slot is lost, and if every sender
\* waits for a command of its own there is no other on the list, as a command is pushed
\* by its sender only if it finds the list empty. After that no command is queued any
\* more: what can be lost, and is lost when its wait expires, is among the commands of the
\* moment of the crash, and everything else belongs to a call that is about to be refused.
SlotInv ==
    bus = "UP" =>
        /\ state = "INITED" =>
             /\ \A s \in used : AccountedFor(s)
             /\ (\A t \in Senders : Kept(t)) =>
                   \A i \in DOMAIN cmds : \E t \in Senders : scmd[t] = cmds[i]
        /\ state = "CRASHED" =>
             \E K \in SUBSET Slots :
                /\ Cardinality(K) <= MaxQueued + Cardinality(Senders)
                /\ \A s \in used : s \in K \/ \E t \in Senders : Fresh(t) /\ scmd[t] = s

\* A set whose elements a function f reaches from a finite set is not larger than that.
LEMMA ImageBound ==
    ASSUME NEW S, IsFiniteSet(S), NEW f, NEW T, \A y \in T : \E x \in S : f[x] = y
    PROVE  IsFiniteSet(T) /\ Cardinality(T) <= Cardinality(S)
<1> DEFINE D == {x \in S : f[x] \in T}
           g == [x \in D |-> f[x]]
<1>1. IsFiniteSet(D) /\ Cardinality(D) <= Cardinality(S)
  BY FS_Subset
<1>2. g \in Surjection(D, T)
  BY DEF Surjection
<1>3. IsFiniteSet(T) /\ Cardinality(T) <= Cardinality(D)
  BY <1>1, <1>2, FS_Surjection
<1>4. Cardinality(S) \in Nat /\ Cardinality(D) \in Nat /\ Cardinality(T) \in Nat
  BY <1>1, <1>3, FS_CardinalityType
<1> HIDE DEF D, g
<1> QED
  BY <1>1, <1>3, <1>4

\* There are n numbers from 1 to n.
LEMMA CardUpTo ==
    ASSUME NEW n \in Nat PROVE IsFiniteSet(1 .. n) /\ Cardinality(1 .. n) = n
<1>1. 1 \in Int /\ n \in Int
  OBVIOUS
<1>2. IsFiniteSet(1 .. n) /\ Cardinality(1 .. n) = IF 1 > n THEN 0 ELSE n - 1 + 1
  BY <1>1, FS_Interval, Zenon
<1> QED
  BY <1>2

\* The union of three sets is not larger than the three together.
LEMMA ThreeUnion ==
    ASSUME NEW A, NEW B, NEW C, NEW U \in SUBSET (A \cup B \cup C),
           IsFiniteSet(A), IsFiniteSet(B), IsFiniteSet(C)
    PROVE  /\ Cardinality(U) <= Cardinality(A) + Cardinality(B) + Cardinality(C)
           /\ Cardinality(U) \in Nat
<1>1. /\ IsFiniteSet(A \cup B) /\ IsFiniteSet(A \cap B)
      /\ Cardinality(A \cup B) = Cardinality(A) + Cardinality(B) - Cardinality(A \cap B)
  BY FS_Union, FS_Intersection
<1>2. /\ IsFiniteSet((A \cup B) \cup C) /\ IsFiniteSet((A \cup B) \cap C)
      /\ Cardinality((A \cup B) \cup C) =
           Cardinality(A \cup B) + Cardinality(C) - Cardinality((A \cup B) \cap C)
  BY <1>1, FS_Union, FS_Intersection
<1>3. IsFiniteSet(U) /\ Cardinality(U) <= Cardinality((A \cup B) \cup C)
  BY <1>2, FS_Subset
<1>4. /\ Cardinality(A) \in Nat /\ Cardinality(B) \in Nat /\ Cardinality(C) \in Nat
      /\ Cardinality(A \cap B) \in Nat /\ Cardinality((A \cup B) \cap C) \in Nat
      /\ Cardinality(A \cup B) \in Nat /\ Cardinality((A \cup B) \cup C) \in Nat
      /\ Cardinality(U) \in Nat
  BY <1>1, <1>2, <1>3, FS_CardinalityType
<1> QED
  BY <1>1, <1>2, <1>3, <1>4

\* The commands on the list, the one of the worker, and those of all senders but one.
LEMMA HeldCounts ==
    ASSUME IInv, IsFiniteSet(Senders)
    PROVE  /\ IsFiniteSet({s \in Slots : InList(s)})
           /\ Cardinality({s \in Slots : InList(s)}) <= MaxQueued
           /\ Cardinality({s \in Slots : InList(s)}) \in Nat
           /\ IsFiniteSet({wcmd}) /\ Cardinality({wcmd}) = 1
           /\ IsFiniteSet({s \in Slots : \E t \in Senders : scmd[t] = s})
           /\ Cardinality({s \in Slots : \E t \in Senders : scmd[t] = s})
                <= Cardinality(Senders)
           /\ Cardinality({s \in Slots : \E t \in Senders : scmd[t] = s}) \in Nat
           /\ \A t0 \in Senders :
                /\ IsFiniteSet({s \in Slots : \E t \in Senders \ {t0} : scmd[t] = s})
                /\ Cardinality({s \in Slots : \E t \in Senders \ {t0} : scmd[t] = s})
                     <= Cardinality(Senders) - 1
                /\ Cardinality({s \in Slots : \E t \in Senders \ {t0} : scmd[t] = s}) \in Nat
           /\ Cardinality(Senders) \in Nat
<1>1. Cardinality(Senders) \in Nat
  BY FS_CardinalityType
<1>2. /\ IsFiniteSet({s \in Slots : InList(s)})
      /\ Cardinality({s \in Slots : InList(s)}) <= MaxQueued
      /\ Cardinality({s \in Slots : InList(s)}) \in Nat
  <2> DEFINE L == {s \in Slots : InList(s)}
  <2>1. DOMAIN cmds = 1 .. Len(cmds) /\ Len(cmds) \in Nat /\ Len(cmds) <= MaxQueued
    BY DEF IInv, TypeOK, ListIntact
  <2>2. IsFiniteSet(1 .. Len(cmds)) /\ Cardinality(1 .. Len(cmds)) = Len(cmds)
    BY <2>1, CardUpTo
  <2>3. \A y \in L : \E x \in 1 .. Len(cmds) : cmds[x] = y
    BY <2>1 DEF InList
  <2> HIDE DEF L
  <2>4. IsFiniteSet(L) /\ Cardinality(L) <= Cardinality(1 .. Len(cmds))
    BY <2>2, <2>3, ImageBound
  <2>5. Cardinality(L) \in Nat
    BY <2>4, FS_CardinalityType
  <2>6. Cardinality(L) <= MaxQueued
    BY <2>1, <2>2, <2>4, <2>5, CmdMgrAssumption
  <2> QED
    BY <2>4, <2>5, <2>6 DEF L
<1>3. IsFiniteSet({wcmd}) /\ Cardinality({wcmd}) = 1
  BY FS_Singleton
<1>4. /\ IsFiniteSet({s \in Slots : \E t \in Senders : scmd[t] = s})
      /\ Cardinality({s \in Slots : \E t \in Senders : scmd[t] = s}) <= Cardinality(Senders)
      /\ Cardinality({s \in Slots : \E t \in Senders : scmd[t] = s}) \in Nat
  BY ImageBound, FS_CardinalityType
<1>5. ASSUME NEW t0 \in Senders
      PROVE  /\ IsFiniteSet({s \in Slots : \E t \in Senders \ {t0} : scmd[t] = s})
             /\ Cardinality({s \in Slots : \E t \in Senders \ {t0} : scmd[t] = s})
                  <= Cardinality(Senders) - 1
             /\ Cardinality({s \in Slots : \E t \in Senders \ {t0} : scmd[t] = s}) \in Nat
  <2> DEFINE R == Senders \ {t0}
             T == {s \in Slots : \E t \in R : scmd[t] = s}
  <2>1. IsFiniteSet(R) /\ Cardinality(R) = Cardinality(Senders) - 1
    BY FS_RemoveElement
  <2>2. \A y \in T : \E x \in R : scmd[x] = y
    OBVIOUS
  <2> HIDE DEF R, T
  <2>3. IsFiniteSet(T) /\ Cardinality(T) <= Cardinality(R)
    BY <2>1, <2>2, ImageBound
  <2>4. Cardinality(T) \in Nat
    BY <2>3, FS_CardinalityType
  <2> QED
    BY <2>1, <2>3, <2>4 DEF R, T
<1> QED
  BY <1>1, <1>2, <1>3, <1>4, <1>5

\* At the moment of the crash: what can be lost later is bounded.
LEMMA CrashCount ==
    ASSUME IInv, SlotInv, bus = "UP", state = "INITED", IsFiniteSet(Senders)
    PROVE  \E K \in SUBSET Slots :
              /\ Cardinality(K) <= MaxQueued + Cardinality(Senders)
              /\ \A s \in used : s \in K \/ \E t \in Senders : Fresh(t) /\ scmd[t] = s
<1> DEFINE K == {s \in Slots : \/ InList(s) \/ (WOwner /\ wcmd = s)
                               \/ \E t \in Senders : Kept(t) /\ scmd[t] = s}
           L == {s \in Slots : InList(s)}
           W == {wcmd}
<1>1. \A s \in used : s \in K \/ \E t \in Senders : Fresh(t) /\ scmd[t] = s
  <2>1. \A t \in Senders : Owner(t) => Kept(t) \/ Fresh(t)
    BY DEF Owner, Kept, Fresh
  <2>2. used \subseteq Slots
    BY DEF IInv, TypeOK
  <2> QED
    BY <2>1, <2>2 DEF SlotInv, AccountedFor
<1>2. Cardinality(K) <= MaxQueued + Cardinality(Senders)
  <2>1. CASE \A t \in Senders : Kept(t)
    <3> DEFINE A == {s \in Slots : \E t \in Senders : scmd[t] = s}
    <3>1. K \subseteq A \cup W \cup {}
      BY <2>1 DEF SlotInv, InList
    <3>2. /\ IsFiniteSet(A) /\ Cardinality(A) <= Cardinality(Senders)
          /\ IsFiniteSet(W) /\ Cardinality(W) = 1 /\ Cardinality(A) \in Nat
          /\ Cardinality(Senders) \in Nat
      BY HeldCounts
    <3>3. IsFiniteSet({}) /\ Cardinality({}) = 0
      BY FS_EmptySet
    <3> HIDE DEF A, K, W
    <3>4. /\ Cardinality(K) <= Cardinality(A) + Cardinality(W) + Cardinality({})
          /\ Cardinality(K) \in Nat
      BY <3>1, <3>2, <3>3, ThreeUnion
    <3> QED
      BY <3>2, <3>3, <3>4, CmdMgrAssumption
  <2>2. CASE ~\A t \in Senders : Kept(t)
    <3>1. PICK t0 \in Senders : ~Kept(t0)
      BY <2>2
    <3> DEFINE B == {s \in Slots : \E t \in Senders \ {t0} : scmd[t] = s}
    <3>2. K \subseteq L \cup B \cup W
      BY <3>1
    <3>3. /\ IsFiniteSet(B) /\ Cardinality(B) <= Cardinality(Senders) - 1
          /\ IsFiniteSet(W) /\ Cardinality(W) = 1 /\ Cardinality(B) \in Nat
          /\ IsFiniteSet(L) /\ Cardinality(L) <= MaxQueued /\ Cardinality(L) \in Nat
          /\ Cardinality(Senders) \in Nat
      BY HeldCounts
    <3> HIDE DEF B, K, L, W
    <3>4. /\ Cardinality(K) <= Cardinality(L) + Cardinality(B) + Cardinality(W)
          /\ Cardinality(K) \in Nat
      BY <3>2, <3>3, ThreeUnion
    <3> QED
      BY <3>3, <3>4, CmdMgrAssumption
  <2> QED
    BY <2>1, <2>2
<1> QED
  BY <1>1, <1>2

\* A step that takes no slot and loses none.
LEMMA SlotsKept ==
    ASSUME SlotInv, UNCHANGED <<state, bus>>, used' \subseteq used,
           \A t \in Senders : Fresh(t) /\ scmd[t] \in used' => Fresh(t)' /\ scmd'[t] = scmd[t],
           bus = "UP" /\ state = "INITED" =>
              /\ \A s \in used' : AccountedFor(s) => AccountedFor(s)'
              /\ (\A t \in Senders : Kept(t)') =>
                    /\ \A t \in Senders : Kept(t) /\ scmd'[t] = scmd[t]
                    /\ \A i \in DOMAIN cmds' : \E k \in DOMAIN cmds : cmds'[i] = cmds[k]
    PROVE  SlotInv'
<1> SUFFICES ASSUME bus = "UP" PROVE SlotInv'
  BY DEF SlotInv
<1>1. CASE state = "INITED"
  <2>1. \A s \in used' : AccountedFor(s)'
    BY <1>1 DEF SlotInv
  <2>2. ASSUME \A t \in Senders : Kept(t)', NEW i \in DOMAIN cmds'
        PROVE  \E t \in Senders : scmd'[t] = cmds'[i]
    <3>1. /\ \A t \in Senders : Kept(t) /\ scmd'[t] = scmd[t]
          /\ \E k \in DOMAIN cmds : cmds'[i] = cmds[k]
      BY <1>1, <2>2
    <3> QED
      BY <1>1, <3>1 DEF SlotInv
  <2> QED
    BY <1>1, <2>1, <2>2 DEF SlotInv
<1>2. CASE state = "CRASHED"
  <2>1. PICK K \in SUBSET Slots :
          /\ Cardinality(K) <= MaxQueued + Cardinality(Senders)
          /\ \A s \in used : s \in K \/ \E t \in Senders : Fresh(t) /\ scmd[t] = s
    BY <1>2 DEF SlotInv
  <2>2. \A s \in used' : s \in K \/ \E t \in Senders : Fresh(t)' /\ scmd'[t] = s
    BY <2>1
  <2> QED
    BY <1>2, <2>1, <2>2 DEF SlotInv
<1>3. CASE state \notin {"INITED", "CRASHED"}
  BY <1>3 DEF SlotInv
<1> QED
  BY <1>1, <1>2, <1>3

\* The steps of a sender that leave the list, the flags and the completions alone.
LEMMA SenderQuietSlots ==
    ASSUME IInv, SInv, SlotInv, NEW t \in Senders,
           \/ Poll(t) \/ SendInd(t) \/ QueueRefuse(t) \/ DeferWake(t) \/ Push(t)
           \/ WaitDone(t) \/ Kick(t) \/ WaitExpire(t) \/ QueueAfterDeinit(t)
    PROVE  SlotInv'
<1>0. pc \in [Senders -> SenderPC] /\ scmd \in [Senders -> Slots \cup {0}]
  BY DEF IInv, TypeOK
<1>1. UNCHANGED <<state, cmds, wpc, wcmd, bus>>
  <2>1. CASE Poll(t) \/ QueueRefuse(t) \/ WaitDone(t)
    BY <2>1 DEF Poll, QueueRefuse, WaitDone, mgrVars, wVars, busVars
  <2>2. CASE SendInd(t) \/ Push(t)
    BY <2>2 DEF SendInd, Push, SetCmdTx, mgrVars, wVars
  <2>3. CASE DeferWake(t) \/ Kick(t) \/ WaitExpire(t) \/ QueueAfterDeinit(t)
    BY <2>3 DEF DeferWake, Kick, WaitExpire, QueueAfterDeinit, mgrVars, wVars, busVars
  <2> QED
    BY <2>1, <2>2, <2>3
<1>2. CASE bus # "UP"
  BY <1>1, <1>2 DEF SlotInv
<1>3. CASE bus = "UP"
  <2>0. state # "DEINIT"
    BY <1>3 DEF SInv, RemovalOrder
  <2>1. /\ \A u \in Senders \ {t} : pc'[u] = pc[u] /\ scmd'[u] = scmd[u]
        /\ \/ /\ used' = used /\ scmd'[t] = scmd[t]
              /\ Owner(t)' = Owner(t) /\ Fresh(t)' = Fresh(t) /\ Kept(t)' = Kept(t)
           \/ /\ used' = used \ {scmd[t]} /\ ~Kept(t)'
    <3>1. CASE Poll(t) \/ DeferWake(t) \/ Kick(t)
      BY <1>0, <2>0, <3>1 DEF Poll, DeferWake, Kick, Goto, Owner, Fresh, Kept
    <3>2. CASE Push(t) \/ WaitExpire(t)
      BY <1>0, <3>2 DEF Push, WaitExpire, Goto, Owner, Fresh, Kept
    <3>3. CASE SendInd(t) \/ QueueRefuse(t) \/ WaitDone(t)
      BY <1>0, <3>3 DEF SendInd, QueueRefuse, WaitDone, Leave, CmdFree, Kept
    <3>4. ~QueueAfterDeinit(t)
      BY <2>0 DEF QueueAfterDeinit
    <3> QED
      BY <3>1, <3>2, <3>3, <3>4
  <2>2. \A u \in Senders \ {t} :
           Owner(u)' = Owner(u) /\ Fresh(u)' = Fresh(u) /\ Kept(u)' = Kept(u)
    BY <2>1 DEF Owner, Fresh, Kept
  <2>3. \A u \in Senders : Fresh(u) /\ scmd[u] \in used' => Fresh(u)' /\ scmd'[u] = scmd[u]
    BY <2>1, <2>2
  <2>4. ASSUME NEW s \in used', AccountedFor(s) PROVE AccountedFor(s)'
    <3>1. CASE InList(s) \/ (WOwner /\ wcmd = s)
      BY <1>1, <3>1 DEF AccountedFor, InList, WOwner
    <3>2. CASE \E u \in Senders : Owner(u) /\ scmd[u] = s
      <4>1. PICK u \in Senders : Owner(u) /\ scmd[u] = s
        BY <3>2
      <4>2. Owner(u)' /\ scmd'[u] = s
        BY <2>1, <2>2, <4>1
      <4> QED
        BY <4>2 DEF AccountedFor
    <3> QED
      BY <2>4, <3>1, <3>2 DEF AccountedFor
  <2>5. (\A u \in Senders : Kept(u)') =>
           /\ \A u \in Senders : Kept(u) /\ scmd'[u] = scmd[u]
           /\ \A i \in DOMAIN cmds' : \E k \in DOMAIN cmds : cmds'[i] = cmds[k]
    BY <1>1, <2>1, <2>2
  <2>6. used' \subseteq used
    BY <2>1
  <2> QED
    BY <1>1, <2>3, <2>4, <2>5, <2>6, SlotsKept
<1> QED
  BY <1>2, <1>3

\* The steps of the worker that leave the list and the completions alone.
LEMMA WorkerQuietSlots ==
    ASSUME IInv, SInv, SlotInv,
           \/ WorkerStart \/ WorkerScan \/ WorkerLoad \/ WorkerStore \/ WorkerPush
           \/ WorkerDone \/ WorkerExpire
    PROVE  SlotInv'
<1>1. UNCHANGED <<state, cmds, pc, scmd, bus>>
  <2>1. CASE WorkerStart \/ WorkerScan \/ WorkerLoad \/ WorkerStore
    BY <2>1 DEF WorkerStart, WorkerScan, WorkerLoad, WorkerStore, WorkerUnchanged, busVars
  <2>2. CASE WorkerPush \/ WorkerDone \/ WorkerExpire
    BY <2>2 DEF WorkerPush, WorkerDone, WorkerExpire, SetCmdTx, WorkerUnchanged, busVars
  <2> QED
    BY <2>1, <2>2
<1>2. \/ used' = used /\ ~WOwner
      \/ used' = used /\ WOwner' = WOwner /\ wcmd' = wcmd
      \/ used' = used \ {wcmd}
  <2>1. CASE WorkerStart \/ WorkerScan
    BY <2>1 DEF WorkerStart, WorkerScan, WOwner
  <2>2. CASE WorkerLoad \/ WorkerStore \/ WorkerPush \/ WorkerExpire
    BY <2>2 DEF WorkerLoad, WorkerStore, WorkerPush, WorkerExpire, WOwner
  <2>3. CASE WorkerDone
    BY <2>3 DEF WorkerDone, CmdFree
  <2> QED
    BY <2>1, <2>2, <2>3
<1>3. \A u \in Senders :
         Owner(u)' = Owner(u) /\ Fresh(u)' = Fresh(u) /\ Kept(u)' = Kept(u)
  BY <1>1 DEF Owner, Fresh, Kept
<1>4. ASSUME NEW s \in used', AccountedFor(s) PROVE AccountedFor(s)'
  <2>1. CASE InList(s) \/ \E u \in Senders : Owner(u) /\ scmd[u] = s
    BY <1>1, <1>3, <2>1 DEF AccountedFor, InList
  <2>2. CASE WOwner /\ wcmd = s
    BY <1>2, <2>2 DEF AccountedFor
  <2> QED
    BY <1>4, <2>1, <2>2 DEF AccountedFor
<1>5. used' \subseteq used
  BY <1>2
<1> QED
  BY <1>1, <1>3, <1>4, <1>5, SlotsKept

\* A call takes a slot for a command that it has not queued yet.
LEMMA SendMsgSlots ==
    ASSUME IInv, SInv, SlotInv, NEW t \in Senders, NEW id \in Ids, NEW cfm \in BOOLEAN,
           SendMsg(t, id, cfm)
    PROVE  SlotInv'
<1>0. pc \in [Senders -> SenderPC] /\ scmd \in [Senders -> Slots \cup {0}]
  BY DEF IInv, TypeOK
<1>1. /\ UNCHANGED <<state, cmds, wpc, wcmd, bus>> /\ pc[t] = "idle"
      /\ \A u \in Senders \ {t} : pc'[u] = pc[u] /\ scmd'[u] = scmd[u]
      /\ \/ used' = used /\ pc'[t] = "oops"
         \/ Fresh(t)' /\ used' = used \cup {scmd'[t]}
  <2>1. UNCHANGED <<state, cmds, wpc, wcmd, bus>> /\ pc[t] = "idle"
    BY DEF SendMsg, mgrVars, wVars, busVars
  <2>2. CASE Goto(t, "oops") /\ UNCHANGED slotVars
    BY <1>0, <2>1, <2>2 DEF Goto, slotVars
  <2>3. ASSUME NEW s \in Slots \ used, CmdMalloc(s), scmd' = [scmd EXCEPT ![t] = s],
               NEW l \in {"poll", "send", "defer", "queue"}, pc' = [pc EXCEPT ![t] = l]
        PROVE  /\ \A u \in Senders \ {t} : pc'[u] = pc[u] /\ scmd'[u] = scmd[u]
               /\ Fresh(t)' /\ used' = used \cup {scmd'[t]}
    BY <1>0, <2>3 DEF CmdMalloc, Fresh
  <2> QED
    BY <2>1, <2>2, <2>3 DEF SendMsg
<1>2. /\ \A u \in Senders \ {t} : Owner(u)' = Owner(u) /\ Fresh(u)' = Fresh(u)
      /\ ~Owner(t) /\ ~Fresh(t) /\ ~Kept(t)' /\ (Fresh(t)' => Owner(t)')
  BY <1>1 DEF Owner, Fresh, Kept
<1> SUFFICES ASSUME bus = "UP" PROVE SlotInv'
  BY <1>1 DEF SlotInv
<1>3. CASE state = "INITED"
  <2>1. ASSUME NEW s \in used' PROVE AccountedFor(s)'
    <3>1. CASE s \in used
      <4>1. AccountedFor(s)
        BY <1>3, <3>1 DEF SlotInv
      <4>2. CASE InList(s) \/ (WOwner /\ wcmd = s)
        BY <1>1, <4>2 DEF AccountedFor, InList, WOwner
      <4>3. CASE \E u \in Senders : Owner(u) /\ scmd[u] = s
        BY <1>1, <1>2, <4>3 DEF AccountedFor
      <4> QED
        BY <4>1, <4>2, <4>3 DEF AccountedFor
    <3>2. CASE s \notin used
      BY <1>1, <1>2, <3>2 DEF AccountedFor
    <3> QED
      BY <3>1, <3>2
  <2> QED
    BY <1>1, <1>2, <1>3, <2>1 DEF SlotInv
<1>4. CASE state = "CRASHED"
  <2>1. PICK K \in SUBSET Slots :
          /\ Cardinality(K) <= MaxQueued + Cardinality(Senders)
          /\ \A s \in used : s \in K \/ \E u \in Senders : Fresh(u) /\ scmd[u] = s
    BY <1>4 DEF SlotInv
  <2>2. \A s \in used' : s \in K \/ \E u \in Senders : Fresh(u)' /\ scmd'[u] = s
    BY <1>1, <1>2, <2>1
  <2> QED
    BY <1>1, <1>4, <2>1, <2>2 DEF SlotInv
<1>5. CASE state \notin {"INITED", "CRASHED"}
  BY <1>1, <1>5 DEF SlotInv
<1> QED
  BY <1>3, <1>4, <1>5

\* A command that is queued is on the list; its sender stays with it only if the list was
\* empty.
LEMMA QueuedSlots ==
    ASSUME IInv, SlotInv, NEW t \in Senders, Queue(t) \/ QueueForceDefer(t)
    PROVE  SlotInv'
<1>0. cmds \in Seq(Slots)
  BY DEF IInv, TypeOK
<1>1. /\ scmd[t] \in Slots /\ state = "INITED" /\ UNCHANGED <<state, used, wpc, wcmd, bus>>
      /\ cmds' = Append(cmds, scmd[t])
      /\ \A u \in Senders \ {t} : pc'[u] = pc[u] /\ scmd'[u] = scmd[u]
      /\ \/ pc'[t] \in {"idle", "wake"}
         \/ pc'[t] = "push" /\ cmds = <<>> /\ scmd' = scmd
  BY QueuedFacts
<1>2. /\ DOMAIN cmds' = 1 .. Len(cmds) + 1 /\ DOMAIN cmds = 1 .. Len(cmds)
      /\ Len(cmds) \in Nat
      /\ \A i \in DOMAIN cmds : i \in DOMAIN cmds' /\ cmds'[i] = cmds[i]
      /\ cmds'[Len(cmds) + 1] = scmd[t]
      /\ \A i \in DOMAIN cmds' : i \in DOMAIN cmds \/ i = Len(cmds) + 1
  BY <1>0, <1>1, AppendFacts
<1>3. Len(cmds) + 1 \in DOMAIN cmds'
  BY <1>2
<1> SUFFICES ASSUME bus = "UP" PROVE SlotInv'
  BY <1>1 DEF SlotInv
<1>4. ASSUME NEW s \in used PROVE AccountedFor(s)'
  <2>1. AccountedFor(s)
    BY <1>1 DEF SlotInv
  <2>2. CASE InList(s)
    BY <1>2, <2>2 DEF AccountedFor, InList
  <2>3. CASE WOwner /\ wcmd = s
    BY <1>1, <2>3 DEF AccountedFor, WOwner
  <2>4. ASSUME NEW u \in Senders, Owner(u), scmd[u] = s PROVE AccountedFor(s)'
    <3>1. CASE u = t
      BY <1>2, <1>3, <2>4, <3>1 DEF AccountedFor, InList
    <3>2. CASE u # t
      BY <1>1, <2>4, <3>2 DEF AccountedFor, Owner
    <3> QED
      BY <3>1, <3>2
  <2> QED
    BY <2>1, <2>2, <2>3, <2>4 DEF AccountedFor
<1>5. ASSUME \A u \in Senders : Kept(u)', NEW i \in DOMAIN cmds'
      PROVE  \E u \in Senders : scmd'[u] = cmds'[i]
  <2>1. cmds = <<>> /\ scmd' = scmd
    BY <1>1, <1>5 DEF Kept
  <2>2. DOMAIN cmds = {}
    BY <2>1
  <2>3. i = Len(cmds) + 1
    BY <1>2, <2>2
  <2> QED
    BY <1>2, <2>1, <2>3
<1> QED
  BY <1>1, <1>4, <1>5 DEF SlotInv

\* A sender or the worker whose wait expires crashes the manager and never gives its slot
\* back; the others are where they were.
LEMMA TimedOutSlots ==
    ASSUME IInv, SInv, SlotInv, IsFiniteSet(Senders),
           WorkerTimedOut \/ \E t \in Senders : TimedOut(t)
    PROVE  SlotInv'
<1>0. pc \in [Senders -> SenderPC] /\ scmd \in [Senders -> Slots \cup {0}]
  BY DEF IInv, TypeOK
<1>1. UNCHANGED <<used, bus>>
  BY DEF TimedOut, WorkerTimedOut, busVars
<1> SUFFICES ASSUME bus = "UP" PROVE SlotInv'
  BY <1>1 DEF SlotInv
<1>2. release = "no" /\ state # "DEINIT" /\ state \in {"INITED", "CRASHED", "DEINIT"}
  BY DEF SInv, RemovalOrder, IInv, TypeOK
<1>3. state' = "CRASHED" /\ \A u \in Senders : Fresh(u) => Fresh(u)' /\ scmd'[u] = scmd[u]
  <2>1. CASE WorkerTimedOut
    <3>1. ~BadDel(wcmd)
      BY <1>2, <2>1 DEF WorkerTimedOut, BadDel, SInv, OnListOrDone
    <3> QED
      BY <2>1, <3>1 DEF WorkerTimedOut, Expired, WorkerUnchanged, Fresh
  <2>2. ASSUME NEW t \in Senders, TimedOut(t)
        PROVE  state' = "CRASHED" /\ \A u \in Senders : Fresh(u) => Fresh(u)' /\ scmd'[u] = scmd[u]
    <3>1. ~BadDel(scmd[t])
      BY <1>2, <2>2 DEF TimedOut, BadDel, SInv, OnListOrDone
    <3> QED
      BY <1>0, <2>2, <3>1 DEF TimedOut, Expired, Leave, Fresh
  <2> QED
    BY <2>1, <2>2
<1>4. PICK K \in SUBSET Slots :
        /\ Cardinality(K) <= MaxQueued + Cardinality(Senders)
        /\ \A s \in used : s \in K \/ \E t \in Senders : Fresh(t) /\ scmd[t] = s
  <2>1. CASE state = "INITED"
    BY <2>1, CrashCount
  <2>2. CASE state = "CRASHED"
    BY <2>2 DEF SlotInv
  <2> QED
    BY <1>2, <2>1, <2>2
<1>5. \A s \in used' : s \in K \/ \E t \in Senders : Fresh(t)' /\ scmd'[t] = s
  BY <1>1, <1>3, <1>4
<1> QED
  BY <1>3, <1>4, <1>5 DEF SlotInv

\* Until the first timeout, a confirmation unlinks a command that somebody waits for, and
\* who is going to give the slot back.
LEMMA MsgIndSlots ==
    ASSUME IInv, SInv, QInv, SlotInv, NEW r \in ReqIds, MsgInd(r)
    PROVE  SlotInv'
<1>1. /\ UNCHANGED <<state, used, pc, scmd, wpc, wcmd, bus>>
      /\ bus = "UP" /\ fw[r] > 0
  BY DEF MsgInd, wVars
<1>2. /\ WOwner' = WOwner
      /\ \A u \in Senders : Owner(u)' = Owner(u) /\ Fresh(u)' = Fresh(u) /\ Kept(u)' = Kept(u)
  BY <1>1 DEF WOwner, Owner, Fresh, Kept
<1>3. CASE cmds' = cmds
  <2>1. \A s : AccountedFor(s) => AccountedFor(s)'
    BY <1>1, <1>2, <1>3 DEF AccountedFor, InList
  <2> QED
    BY <1>1, <1>2, <1>3, <2>1, SlotsKept
<1>4. ASSUME NEW i \in DOMAIN cmds, \A j \in 1 .. i - 1 : ~Matches(cmds[j], r),
             CmdComplete(cmds[i], flags[cmds[i]] \ {"WAIT_CFM"})
      PROVE  SlotInv'
  <2> DEFINE x == cmds[i]
  <2>1. x \in Slots /\ InList(x)
    BY DEF IInv, TypeOK, InList
  <2>2. /\ \A j \in DOMAIN cmds' : \E k \in DOMAIN cmds : cmds'[j] = cmds[k]
        /\ \A k \in DOMAIN cmds : cmds[k] # x => \E j \in DOMAIN cmds' : cmds'[j] = cmds[k]
    BY <1>4, <2>1, UnlinkFacts
  <2>3. ASSUME state = "INITED"
        PROVE  \/ WOwner /\ wcmd = x
               \/ \E u \in Senders : Owner(u) /\ scmd[u] = x
    <3>1. /\ cmds # <<>> /\ Matches(cmds[1], r) /\ "WAIT_PUSH" \notin flags[cmds[1]]
      BY <1>1, <2>3 DEF QInv, ConfirmMatchesHead
    <3>2. i = 1
      <4>1. DOMAIN cmds = 1 .. Len(cmds) /\ i \in Nat /\ i >= 1
        BY DEF IInv, TypeOK
      <4>2. i > 1 => 1 \in 1 .. i - 1
        BY <4>1
      <4> QED
        BY <1>4, <3>1, <4>1, <4>2
    <3> QED
      BY <2>3, <3>1, <3>2 DEF SInv, WaiterUntilCrash
  <2> HIDE DEF x
  <2>4. ASSUME state = "INITED", NEW s \in used', AccountedFor(s) PROVE AccountedFor(s)'
    <3>1. CASE s = x
      BY <1>1, <1>2, <2>3, <2>4, <3>1 DEF AccountedFor
    <3>2. CASE s # x /\ InList(s)
      BY <2>2, <3>2 DEF AccountedFor, InList
    <3>3. CASE ~InList(s)
      BY <1>1, <1>2, <2>4, <3>3 DEF AccountedFor
    <3> QED
      BY <3>1, <3>2, <3>3
  <2> QED
    BY <1>1, <1>2, <2>2, <2>4, SlotsKept
<1> QED
  BY <1>3, <1>4 DEF MsgInd

\* Every step keeps account of the slots.
LEMMA NextSlots ==
    ASSUME IsFiniteSet(Senders), IInv, SInv, QInv, SlotInv, [Next]_vars
    PROVE  SlotInv'
<1>1. CASE \E t \in Senders, id \in Ids, cfm \in BOOLEAN : SendMsg(t, id, cfm)
  BY <1>1, SendMsgSlots
<1>2. CASE \E t \in Senders : SenderStep(t)
  BY <1>2, SenderQuietSlots, QueuedSlots, TimedOutSlots DEF SenderStep
<1>3. CASE Worker
  BY <1>3, WorkerQuietSlots, TimedOutSlots DEF Worker
<1>4. CASE \E r \in ReqIds : MsgInd(r)
  BY <1>4, MsgIndSlots
<1>5. CASE Release \/ Drain \/ Deinit
  <2>1. bus' # "UP"
    BY <1>5 DEF Release, Drain, Deinit, SInv, RemovalOrder
  <2> QED
    BY <2>1 DEF SlotInv
<1>6. CASE (\E ok \in BOOLEAN : BusTx(ok)) \/ UNCHANGED vars
  <2>1. UNCHANGED <<state, cmds, used, pc, scmd, wpc, wcmd, bus>>
    BY <1>6 DEF BusTx, vars, mgrVars, slotVars, wVars, busVars
  <2>2. /\ WOwner' = WOwner
        /\ \A u \in Senders : Owner(u)' = Owner(u) /\ Fresh(u)' = Fresh(u) /\ Kept(u)' = Kept(u)
    BY <2>1 DEF WOwner, Owner, Fresh, Kept
  <2>3. \A s : AccountedFor(s) => AccountedFor(s)'
    BY <2>1, <2>2 DEF AccountedFor, InList
  <2> QED
    BY <2>1, <2>2, <2>3, SlotsKept
<1> QED
  BY <1>1, <1>2, <1>3, <1>4, <1>5, <1>6 DEF Next

\* The account of the slots holds always.
LEMMA SpecSlots ==
    ASSUME IndIds = {}, IsFiniteSet(Senders) PROVE Spec => []SlotInv
<1>1. Init => SlotInv
  <2> SUFFICES ASSUME Init PROVE SlotInv
    OBVIOUS
  <2>1. used = {} /\ DOMAIN cmds = {} /\ state = "INITED"
    BY DEF Init
  <2> QED
    BY <2>1 DEF SlotInv
<1>2. IInv /\ SInv /\ QInv /\ SlotInv /\ [Next]_vars => SlotInv'
  BY NextSlots
<1> QED
  BY <1>1, <1>2, SpecSInv, SpecQInv, PTL DEF Spec

\* A call finds a free slot: until the first timeout if there is one for every command of a
\* full list, for the worker and for every other sender, and after it if there is one for
\* each command that can be lost and for every other sender.
LEMMA SlotLeft ==
    ASSUME IInv, SInv, SlotInv, bus = "UP", IsFiniteSet(Senders),
           NEW t \in Senders, pc[t] = "idle",
           \/ ArraySize > MaxQueued + Cardinality(Senders) /\ state = "INITED"
           \/ ArraySize >= MaxQueued + 2 * Cardinality(Senders)
    PROVE  ~(Slots \subseteq used)
<1> SUFFICES ASSUME Slots \subseteq used PROVE FALSE
  OBVIOUS
<1> DEFINE B == {s \in Slots : \E u \in Senders \ {t} : scmd[u] = s}
           L == {s \in Slots : InList(s)}
           W == {wcmd}
<1>1. /\ IsFiniteSet(B) /\ Cardinality(B) <= Cardinality(Senders) - 1
      /\ IsFiniteSet(W) /\ Cardinality(W) = 1 /\ Cardinality(B) \in Nat
      /\ IsFiniteSet(L) /\ Cardinality(L) <= MaxQueued /\ Cardinality(L) \in Nat
      /\ Cardinality(Senders) \in Nat
  BY HeldCounts
<1>2. /\ ArraySize \in Nat /\ MaxQueued \in Nat
      /\ IsFiniteSet(Slots) /\ Cardinality(Slots) = ArraySize
  BY CmdMgrAssumption, CardUpTo DEF Slots
<1>3. ~Owner(t) /\ ~Fresh(t) /\ state \in {"INITED", "CRASHED"}
  BY DEF Owner, Fresh, SInv, RemovalOrder, IInv, TypeOK
<1>4. Cardinality(Senders) >= 1
  BY <1>1
<1>5. CASE state = "INITED"
  <2>1. Slots \subseteq L \cup B \cup W
    BY <1>3, <1>5 DEF SlotInv, AccountedFor
  <2> HIDE DEF B, L, W
  <2>2. Cardinality(Slots) <= Cardinality(L) + Cardinality(B) + Cardinality(W)
    BY <1>1, <2>1, ThreeUnion
  <2> QED
    BY <1>1, <1>2, <1>4, <2>2
<1>6. CASE state = "CRASHED"
  <2>1. PICK K \in SUBSET Slots :
          /\ Cardinality(K) <= MaxQueued + Cardinality(Senders)
          /\ \A s \in used : s \in K \/ \E u \in Senders : Fresh(u) /\ scmd[u] = s
    BY <1>6 DEF SlotInv
  <2>2. IsFiniteSet(K) /\ Cardinality(K) \in Nat /\ IsFiniteSet({}) /\ Cardinality({}) = 0
    BY <1>2, FS_Subset, FS_CardinalityType, FS_EmptySet
  <2>3. Slots \subseteq K \cup B \cup {}
    BY <1>3, <2>1
  <2> HIDE DEF B, L, W
  <2>4. Cardinality(Slots) <= Cardinality(K) + Cardinality(B) + Cardinality({})
    BY <1>1, <2>2, <2>3, ThreeUnion
  <2> QED
    BY <1>1, <1>2, <1>4, <1>6, <2>1, <2>2, <2>4
<1> QED
  BY <1>3, <1>5, <1>6

-----------------------------------------------------------------------------
(* No thread oopses. *)

\* A sender leaves the normal path only when the array is exhausted, when list_del() would
\* follow poison, or when the manager has been zeroed: none of which happens.
LEMMA SenderNeverOopses ==
    ASSUME IInv, SInv, release = "no", NEW t \in Senders,
           pc[t] = "idle" => ~(Slots \subseteq used),
           SenderStep(t) \/ \E id \in Ids, cfm \in BOOLEAN : SendMsg(t, id, cfm)
    PROVE  /\ wpc' = wpc /\ pc'[t] # "oops"
           /\ \A u \in Senders \ {t} : pc'[u] = pc[u]
<1> pc \in [Senders -> SenderPC]
  BY DEF IInv, TypeOK
<1>1. state # "DEINIT"
  BY DEF SInv, RemovalOrder
<1>2. ASSUME NEW id \in Ids, NEW cfm \in BOOLEAN, SendMsg(t, id, cfm)
      PROVE  /\ wpc' = wpc /\ pc'[t] # "oops"
             /\ \A u \in Senders \ {t} : pc'[u] = pc[u]
  <2>1. ~(Slots \subseteq used)
    BY <1>2 DEF SendMsg
  <2> QED
    BY <1>2, <2>1 DEF SendMsg, wVars
<1>3. CASE TimedOut(t)
  <2>1. ~BadDel(scmd[t])
    BY <1>3 DEF TimedOut, BadDel, SInv, OnListOrDone
  <2> QED
    BY <1>3, <2>1 DEF TimedOut, Leave, wVars
<1>4. CASE Poll(t) \/ SendInd(t) \/ QueueRefuse(t) \/ DeferWake(t) \/ Push(t)
  BY <1>1, <1>4 DEF Poll, SendInd, QueueRefuse, DeferWake, Push, Goto, Leave, wVars
<1>5. CASE WaitDone(t) \/ Kick(t) \/ WaitExpire(t) \/ QueueAfterDeinit(t)
  BY <1>1, <1>5 DEF WaitDone, Kick, WaitExpire, QueueAfterDeinit, Goto, Leave, wVars
<1>6. CASE Queue(t) \/ QueueForceDefer(t)
  BY <1>6, QueuedFacts
<1> QED
  BY <1>2, <1>3, <1>4, <1>5, <1>6 DEF SenderStep

\* The worker does so only when list_del() would follow poison.
LEMMA WorkerNeverOopses ==
    ASSUME IInv, SInv, release = "no", Worker
    PROVE  pc' = pc /\ wpc' # "oops"
<1>1. CASE WorkerTimedOut
  <2>1. ~BadDel(wcmd)
    BY <1>1 DEF WorkerTimedOut, BadDel, SInv, OnListOrDone
  <2> QED
    BY <1>1, <2>1 DEF WorkerTimedOut, WorkerUnchanged
<1>2. CASE WorkerStart \/ WorkerScan \/ WorkerLoad \/ WorkerStore
  BY <1>2 DEF WorkerStart, WorkerScan, WorkerLoad, WorkerStore, WorkerUnchanged
<1>3. CASE WorkerPush \/ WorkerDone \/ WorkerExpire
  BY <1>3 DEF WorkerPush, WorkerDone, WorkerExpire, WorkerUnchanged
<1> QED
  BY <1>1, <1>2, <1>3 DEF Worker

\* No step of any actor oopses, if a call finds a free slot.
LEMMA NextNoOops ==
    ASSUME IInv, SInv, NoOops, [Next]_vars,
           \A t \in Senders : bus = "UP" /\ pc[t] = "idle" => ~(Slots \subseteq used)
    PROVE  NoOops'
<1> SUFFICES ASSUME release' = "no"
             PROVE  wpc' # "oops" /\ \A t \in Senders : pc'[t] # "oops"
  BY DEF NoOops
<1>1. release = "no" /\ (Release \/ Drain \/ Deinit => FALSE)
  <2>1. ~(Release \/ Drain \/ Deinit)
    BY DEF Release, Drain, Deinit
  <2>2. release' = release
    <3>1. CASE \E t \in Senders, id \in Ids, cfm \in BOOLEAN : SendMsg(t, id, cfm)
      BY <3>1 DEF SendMsg, busVars
    <3>2. CASE \E t \in Senders : Queue(t) \/ QueueForceDefer(t)
      BY <3>2, QueuedFacts
    <3>3. CASE \E t \in Senders : Poll(t) \/ SendInd(t) \/ QueueRefuse(t) \/ DeferWake(t) \/ Push(t)
      BY <3>3 DEF Poll, SendInd, QueueRefuse, DeferWake, Push, SetCmdTx, busVars
    <3>4. CASE \E t \in Senders : \/ WaitDone(t) \/ Kick(t) \/ WaitExpire(t) \/ TimedOut(t)
                                  \/ QueueAfterDeinit(t)
      BY <3>4 DEF WaitDone, Kick, WaitExpire, TimedOut, QueueAfterDeinit, busVars
    <3>5. CASE Worker
      BY <3>5 DEF Worker, WorkerStart, WorkerScan, WorkerLoad, WorkerStore, WorkerPush,
                  WorkerDone, WorkerExpire, WorkerTimedOut, SetCmdTx, busVars
    <3>6. CASE (\E ok \in BOOLEAN : BusTx(ok)) \/ \E r \in ReqIds : MsgInd(r)
      BY <3>6 DEF BusTx, MsgInd
    <3>7. CASE UNCHANGED vars
      BY <3>7 DEF vars, busVars
    <3> QED
      BY <2>1, <3>1, <3>2, <3>3, <3>4, <3>5, <3>6, <3>7 DEF Next, SenderStep
  <2> QED
    BY <2>1, <2>2
<1>2. wpc # "oops" /\ \A t \in Senders : pc[t] # "oops"
  BY <1>1 DEF NoOops
<1>3. CASE \E t \in Senders : \/ SenderStep(t)
                              \/ \E id \in Ids, cfm \in BOOLEAN : SendMsg(t, id, cfm)
  <2>1. PICK t \in Senders :
          SenderStep(t) \/ \E id \in Ids, cfm \in BOOLEAN : SendMsg(t, id, cfm)
    BY <1>3
  <2>2. wpc' = wpc /\ pc'[t] # "oops" /\ \A u \in Senders \ {t} : pc'[u] = pc[u]
    BY <1>1, <2>1, SenderNeverOopses DEF SInv, RemovalOrder
  <2> QED
    BY <1>2, <2>2
<1>4. CASE Worker
  BY <1>1, <1>2, <1>4, WorkerNeverOopses
<1>5. CASE (\E ok \in BOOLEAN : BusTx(ok)) \/ (\E r \in ReqIds : MsgInd(r)) \/ UNCHANGED vars
  BY <1>2, <1>5 DEF BusTx, MsgInd, vars, wVars
<1> QED
  BY <1>1, <1>3, <1>4, <1>5 DEF Next

\* As long as the device stays, no thread oopses, however many calls and timeouts there are,
\* if the array has room for a full list and two commands of every sender that runs at a
\* time: rwnx_cmd_malloc(), whose NULL nobody checks, finds a slot although a slot whose wait
\* expired is never given back, and cmd_complete() never unlinks a command twice. The array
\* of 20 slots and the list of at most 16 commands are enough for two such senders.
THEOREM NobodyOopses ==
    ASSUME IndIds = {}, IsFiniteSet(Senders),
           ArraySize >= MaxQueued + 2 * Cardinality(Senders)
    PROVE  Spec => []NoOops
<1>1. Init => NoOops
  BY DEF Init, NoOops
<1>2. IInv /\ SInv /\ SlotInv /\ NoOops /\ [Next]_vars => NoOops'
  BY SlotLeft, NextNoOops
<1> QED
  BY <1>1, <1>2, SpecSInv, SpecSlots, PTL DEF Spec

\* As long as the device stays and until the first timeout, rwnx_cmd_malloc() finds a slot
\* for a call that begins, however many calls are made, if the array has room for a full list
\* and more than one command of every sender: the driver's 20 slots are enough for three
\* senders at a time.
FreeSlotUntilCrash ==
    bus = "UP" /\ state = "INITED" =>
        \A t \in Senders : pc[t] = "idle" => ~(Slots \subseteq used)

THEOREM SlotsSufficeUntilCrash ==
    ASSUME IndIds = {}, IsFiniteSet(Senders), ArraySize > MaxQueued + Cardinality(Senders)
    PROVE  Spec => []FreeSlotUntilCrash
<1>1. IInv /\ SInv /\ SlotInv => FreeSlotUntilCrash
  BY SlotLeft DEF FreeSlotUntilCrash
<1> QED
  BY <1>1, SpecSInv, SpecSlots, PTL

==============================================================================
