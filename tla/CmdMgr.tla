------------------------------- MODULE CmdMgr -------------------------------
(***************************************************************************)
(* The command manager of the aic8800_fdrv Wi-Fi driver: the path that a   *)
(* request to the firmware takes from rwnx_send_msg() (rwnx_msg_tx.c)      *)
(* through the static command array and the command list (rwnx_cmds.c) to  *)
(* the single command buffer of the SDIO bus, and the path that the        *)
(* firmware's confirmation takes back through cmd_mgr_msgind().            *)
(*                                                                         *)
(* Every section under cmd_mgr->lock is one action; reads and writes that  *)
(* the code does outside the lock are actions of their own.                *)
(***************************************************************************)
EXTENDS Integers, Sequences, FiniteSets

CONSTANTS
    Senders,      \* threads that call rwnx_send_msg() / rwnx_send_msg1()
    PlainIds,     \* ordinary requests that want a confirmation (reqcfm = 1)
    DeferIds,     \* ME_TRAFFIC_IND_REQ, MM_SET_ARPOFFLOAD_REQ
    ForceIds,     \* MM_REMOVE_IF_REQ, sent with rwnx_send_msg1(defer)
    IndIds,       \* messages sent with reqcfm = 0
    ArraySize,    \* RWNX_CMD_ARRAY_SIZE
    MaxQueued,    \* RWNX_CMD_MAX_QUEUED
    MaxCalls,     \* bound: calls made by all senders together
    MaxTimeouts,  \* bound: expiries of wait_for_completion_timeout()
    MayRelease    \* whether the device may be removed

ASSUME CmdMgrAssumption ==
    /\ ArraySize \in Nat \ {0}
    /\ MaxQueued \in Nat \ {0}
    /\ MaxCalls \in Nat /\ MaxTimeouts \in Nat
    /\ MayRelease \in BOOLEAN
    /\ PlainIds \cap DeferIds = {}
    /\ (PlainIds \cup DeferIds) \cap (ForceIds \cup IndIds) = {}
    /\ ForceIds \cap IndIds = {}

ReqIds == PlainIds \cup DeferIds \cup ForceIds
Ids    == ReqIds \cup IndIds
Slots  == 1 .. ArraySize
Flags  == {"WAIT_PUSH", "WAIT_CFM", "DONE"}

VARIABLES
    \* struct rwnx_cmd_mgr
    state,      \* "INITED", "CRASHED" or "DEINIT"
    cmds,       \* the list, oldest command first
    queue_sz,
    next_tkn,
    work,       \* cmdWork on cmd_wq: "idle" or "pending"
    \* cmd_array[]: struct rwnx_cmd, indexed by slot
    used,       \* slots whose used field is 1
    flags,
    reqid,
    tkn,
    e2a_msg,    \* reply buffer: "null", "live", or "orphan": nobody waits for it
    a2e_msg,    \* slots whose request message is still allocated
    complete,   \* slots whose completion has been signalled
    \* the callers and the worker, with the command each one works on
    pc, scmd,
    wpc, wcmd, wflags,
    \* the bus and the firmware
    bus,        \* "UP" or "DOWN"
    release,    \* how far aicwf_sdio_release() has come
    cmd_buf,    \* the message waiting in bus->cmd_buf, or NoMsg
    fw,         \* requests the firmware has received and not yet confirmed
    \* ghosts: what the bounds count and the last token handed to the bus
    calls, timeouts, pushed

NoMsg == "none"

\* An empty command buffer is told from one that holds a message.
ASSUME NoMsgAssumption == NoMsg \notin Ids

mgrVars  == <<state, cmds, queue_sz, next_tkn>>
slotVars == <<used, flags, reqid, tkn, e2a_msg, a2e_msg, complete>>
wVars    == <<wpc, wcmd, wflags>>
busVars  == <<bus, release, cmd_buf, fw, pushed>>
bounds   == <<calls, timeouts>>
vars     == <<mgrVars, work, slotVars, pc, scmd, wVars, busVars, bounds>>

SenderPC == {"idle", "poll", "queue", "defer", "send", "wake", "push", "wait",
             "expired", "kick", "oops"}
WorkerPC == {"idle", "scan", "load", "store", "push", "wait", "expired", "oops"}

Init ==
    /\ state = "INITED" /\ cmds = <<>> /\ queue_sz = 0 /\ next_tkn = 0
    /\ work = "idle"
    /\ used = {} /\ a2e_msg = {} /\ complete = {}
    /\ flags = [s \in Slots |-> {}]
    /\ reqid = [s \in Slots |-> NoMsg]
    /\ tkn = [s \in Slots |-> 0]
    /\ e2a_msg = [s \in Slots |-> "null"]
    /\ pc = [t \in Senders |-> "idle"] /\ scmd = [t \in Senders |-> 0]
    /\ wpc = "idle" /\ wcmd = 0 /\ wflags = {}
    /\ bus = "UP" /\ cmd_buf = NoMsg /\ fw = [r \in ReqIds |-> 0]
    /\ release = "no" /\ calls = 0 /\ timeouts = 0 /\ pushed = -1

-----------------------------------------------------------------------------
(* Helpers shared by the actions. *)

InList(s) == \E i \in DOMAIN cmds : cmds[i] = s

\* list_del(): the list q without its entry s.
ListDel(q, s) ==
    LET i == CHOOSE i \in DOMAIN q : q[i] = s
    IN  [j \in 1 .. Len(q) - 1 |-> IF j < i THEN q[j] ELSE q[j + 1]]

\* Mutant: the command is not marked done.
CmdCompleteUnmarked(s, fl) ==
    /\ cmds' = ListDel(cmds, s)
    /\ queue_sz' = queue_sz - 1
    /\ flags' = [flags EXCEPT ![s] = fl]
    /\ complete' = IF "WAIT_CFM" \in fl THEN complete ELSE complete \cup {s}

\* cmd_complete(): unlink the command, whose flags are fl, and mark it done; the
\* waiter is woken only when no confirmation is awaited any more.
CmdComplete(s, fl) ==
    /\ cmds' = ListDel(cmds, s)
    /\ queue_sz' = queue_sz - 1
    /\ flags' = [flags EXCEPT ![s] = fl \cup {"DONE"}]
    /\ complete' = IF "WAIT_CFM" \in fl THEN complete ELSE complete \cup {s}

Goto(t, l) == pc' = [pc EXCEPT ![t] = l] /\ UNCHANGED <<scmd, e2a_msg>>

\* The sender stops working on its command: the reply buffer, which is on the
\* stack of its caller, is no longer waited for.
Leave(t, l) ==
    /\ pc' = [pc EXCEPT ![t] = l]
    /\ scmd' = [scmd EXCEPT ![t] = 0]
    /\ e2a_msg' = [e2a_msg EXCEPT
                     ![scmd[t]] = IF @ = "live" THEN "orphan" ELSE @]

\* Mutant: the slot that is handed out is not marked used.
CmdMallocUnmarked(s) ==
    /\ \A r \in Slots \ used : s <= r
    /\ used' = used

\* rwnx_cmd_malloc() and rwnx_cmd_free(): the first free slot of the array.
CmdMalloc(s) ==
    /\ \A r \in Slots \ used : s <= r
    /\ used' = used \cup {s}

CmdFree(s) == used' = used \ {s}

\* aicwf_set_cmd_tx(): the one command buffer of the bus is overwritten, without
\* a lock. If the buffer still holds an older message, that message is lost, or
\* its transfer is under way and carries the new message, which is then sent
\* once more when its own turn comes.
SetCmdTx(s) ==
    /\ cmd_buf' = reqid[s]
    /\ \/ fw' = fw
       \/ /\ bus = "UP" /\ cmd_buf # NoMsg /\ reqid[s] \in ReqIds
          /\ fw' = [fw EXCEPT ![reqid[s]] = @ + 1]
    /\ UNCHANGED <<bus, release>>

-----------------------------------------------------------------------------
(* rwnx_send_msg() and rwnx_send_msg1(), step by step. *)

\* Entry: a bus that is down ends the call (rwnx_send_msg only), otherwise
\* rwnx_cmd_malloc() hands out the first free slot and its fields are filled;
\* the flags are not reset. An exhausted array yields a NULL that is used.
SendMsg(t, id, cfm) ==
    /\ pc[t] = "idle" /\ calls < MaxCalls
    /\ id \in ForceIds \/ bus = "UP"
    /\ cfm => id \in PlainIds
    /\ calls' = calls + 1
    /\ \/ /\ Slots \subseteq used
          /\ Goto(t, "oops")
          /\ UNCHANGED slotVars
       \/ \E s \in Slots \ used :
            /\ CmdMalloc(s)
            /\ reqid' = [reqid EXCEPT ![s] = id]
            /\ a2e_msg' = a2e_msg \cup {s}
            /\ e2a_msg' = [e2a_msg EXCEPT ![s] = IF cfm THEN "live" ELSE "null"]
            /\ scmd' = [scmd EXCEPT ![t] = s]
            /\ pc' = [pc EXCEPT ![t] = IF cfm THEN "poll"
                                       ELSE IF id \in IndIds THEN "send"
                                       ELSE IF id \in ForceIds THEN "defer"
                                       ELSE "queue"]
            /\ UNCHANGED <<flags, tkn, complete>>
    /\ UNCHANGED <<mgrVars, work, wVars, busVars, timeouts>>

\* A caller that wants the confirmation's contents polls until the list is
\* empty or the manager has crashed.
Poll(t) ==
    /\ pc[t] = "poll"
    /\ state = "CRASHED" \/ (state = "INITED" /\ cmds = <<>>)
    /\ Goto(t, "queue")
    /\ UNCHANGED <<mgrVars, work, used, flags, reqid, tkn, a2e_msg, complete,
                   wVars, busVars, bounds>>

\* reqcfm = 0: straight to the bus, then the slot is freed, the message is not.
SendInd(t) ==
    /\ pc[t] = "send"
    /\ SetCmdTx(scmd[t])
    /\ CmdFree(scmd[t])
    /\ Leave(t, "idle")
    /\ UNCHANGED <<mgrVars, work, flags, reqid, tkn, a2e_msg, complete, wVars,
                   pushed, bounds>>

\* The queue refuses: crashed (-EPIPE) or full (-ENOMEM). The slot is freed, the
\* message is not, and the call returns 0.
Refused == state = "CRASHED" \/ (cmds # <<>> /\ queue_sz = MaxQueued)

QueueRefuse(t) ==
    /\ pc[t] \in {"queue", "defer"}
    /\ state # "DEINIT" /\ Refused
    /\ CmdFree(scmd[t])
    /\ Leave(t, "idle")
    /\ UNCHANGED <<mgrVars, work, flags, reqid, tkn, a2e_msg, complete, wVars,
                   busVars, bounds>>

\* Mutant: the new command is not counted.
EnqueueUncounted(s, waits) ==
    /\ flags' = [flags EXCEPT ![s] = @ \cup waits]
    /\ tkn' = [tkn EXCEPT ![s] = next_tkn]
    /\ next_tkn' = next_tkn + 1
    /\ complete' = complete \ {s}
    /\ cmds' = Append(cmds, s)
    /\ queue_sz' = queue_sz

\* Common tail of both queue functions: token, completion, list_add_tail.
Enqueue(s, waits) ==
    /\ flags' = [flags EXCEPT ![s] = @ \cup waits]
    /\ tkn' = [tkn EXCEPT ![s] = next_tkn]
    /\ next_tkn' = next_tkn + 1
    /\ complete' = complete \ {s}
    /\ cmds' = Append(cmds, s)
    /\ queue_sz' = queue_sz + 1

\* Mutant: a list with work on it does not defer.
DeferredByIdOnly(s) == reqid[s] \in DeferIds

\* The command must wait for its turn: the list's last command is still waiting
\* for something, or the message is one of the two that are always deferred.
Deferred(s) ==
    \/ cmds # <<>> /\ flags[cmds[Len(cmds)]] \cap {"WAIT_PUSH", "WAIT_CFM"} # {}
    \/ reqid[s] \in DeferIds

\* cmd_mgr_queue(), the section under the lock.
Queue(t) ==
    /\ pc[t] = "queue"
    /\ state = "INITED" /\ ~Refused
    /\ LET s == scmd[t] IN
         /\ Enqueue(s, IF Deferred(s) THEN {"WAIT_PUSH", "WAIT_CFM"}
                                      ELSE {"WAIT_CFM"})
         /\ IF Deferred(s) THEN Leave(t, "wake") ELSE Goto(t, "push")
    /\ UNCHANGED <<state, work, used, reqid, a2e_msg, wVars, busVars, bounds>>

\* cmd_mgr_queue_force_defer(): always deferred, the worker is always woken.
QueueForceDefer(t) ==
    /\ pc[t] = "defer"
    /\ state = "INITED" /\ ~Refused
    /\ Enqueue(scmd[t], {"WAIT_PUSH", "WAIT_CFM"})
    /\ work' = "pending"
    /\ Leave(t, "idle")
    /\ UNCHANGED <<state, used, reqid, a2e_msg, wVars, busVars, bounds>>

\* A deferred command: queue_sz is read after the unlock, the worker is woken
\* only if it is at most 1, and the call returns without waiting. A zeroed manager
\* reads as 0 commands with no workqueue.
DeferWake(t) ==
    /\ pc[t] = "wake"
    /\ IF state = "DEINIT"
       THEN Goto(t, "oops") /\ UNCHANGED work
       ELSE Goto(t, "idle") /\ work' = IF queue_sz <= 1 THEN "pending" ELSE work
    /\ UNCHANGED <<mgrVars, used, flags, reqid, tkn, a2e_msg, complete, wVars,
                   busVars, bounds>>

\* A direct command: handed to the bus by its sender, the message is freed.
Push(t) ==
    /\ pc[t] = "push"
    /\ SetCmdTx(scmd[t])
    /\ pushed' = tkn[scmd[t]]
    /\ a2e_msg' = a2e_msg \ {scmd[t]}
    /\ Goto(t, "wait")
    /\ UNCHANGED <<mgrVars, work, used, flags, reqid, tkn, complete, wVars,
                   bounds>>

\* Mutant: the waiter frees the slot without having seen the completion.
WaitDoneEarly(t) ==
    /\ pc[t] = "wait"
    /\ CmdFree(scmd[t])
    /\ Leave(t, "kick")
    /\ UNCHANGED <<mgrVars, work, flags, reqid, tkn, a2e_msg, complete, wVars,
                   busVars, bounds>>

\* wait_for_completion_timeout() sees the completion: the slot is freed.
WaitDone(t) ==
    /\ pc[t] = "wait" /\ scmd[t] \in complete
    /\ CmdFree(scmd[t])
    /\ Leave(t, "kick")
    /\ UNCHANGED <<mgrVars, work, flags, reqid, tkn, a2e_msg, complete, wVars,
                   busVars, bounds>>

\* Mutant: the sender leaves without waking the worker.
KickSilent(t) ==
    /\ pc[t] = "kick"
    /\ Goto(t, "idle")
    /\ UNCHANGED <<mgrVars, work, used, flags, reqid, tkn, a2e_msg, complete,
                   wVars, busVars, bounds>>

\* ... and the worker is woken if the list, read without the lock, holds more.
\* A zeroed manager reads as a non-empty list with no workqueue.
Kick(t) ==
    /\ pc[t] = "kick"
    /\ IF state = "DEINIT"
       THEN Goto(t, "oops") /\ UNCHANGED work
       ELSE Goto(t, "idle") /\ work' = IF cmds # <<>> THEN "pending" ELSE work
    /\ UNCHANGED <<mgrVars, used, flags, reqid, tkn, a2e_msg, complete, wVars,
                   busVars, bounds>>

\* wait_for_completion_timeout() expires.
WaitExpire(t) ==
    /\ pc[t] = "wait" /\ scmd[t] \notin complete
    /\ timeouts < MaxTimeouts
    /\ timeouts' = timeouts + 1
    /\ Goto(t, "expired")
    /\ UNCHANGED <<mgrVars, work, used, flags, reqid, tkn, a2e_msg, complete,
                   wVars, busVars, calls>>

\* Mutant: a timeout does not crash the manager.
ExpiredQuietly(s) ==
    /\ UNCHANGED state
    /\ IF "DONE" \in flags[s]
       THEN UNCHANGED <<cmds, queue_sz, flags, complete>>
       ELSE CmdComplete(s, flags[s])

\* The section under the lock after an expiry on slot s: the manager is crashed
\* and the command completed unless it is marked done. The slot is not freed.
Expired(s) ==
    /\ state' = "CRASHED"
    /\ IF "DONE" \in flags[s]
       THEN UNCHANGED <<cmds, queue_sz, flags, complete>>
       ELSE CmdComplete(s, flags[s])

\* list_del() of an entry that is no longer on the list follows poison.
BadDel(s) == "DONE" \notin flags[s] /\ ~InList(s)

TimedOut(t) ==
    /\ pc[t] = "expired"
    /\ IF BadDel(scmd[t])
       THEN Goto(t, "oops") /\ UNCHANGED <<state, cmds, queue_sz, flags, complete>>
       ELSE Expired(scmd[t]) /\ Leave(t, "idle")
    /\ UNCHANGED <<next_tkn, work, used, reqid, tkn, a2e_msg, wVars, busVars,
                   bounds>>

\* cmd_mgr->queue is NULL in a manager that has been zeroed; force_defer, called
\* by name, finds a list that is not empty and 0 = 0 commands and refuses.
QueueAfterDeinit(t) ==
    /\ state = "DEINIT"
    /\ \/ pc[t] = "queue" /\ Goto(t, "oops") /\ UNCHANGED used
       \/ pc[t] = "defer" /\ Leave(t, "idle") /\ CmdFree(scmd[t])
    /\ UNCHANGED <<mgrVars, work, flags, reqid, tkn, a2e_msg, complete, wVars,
                   busVars, bounds>>

-----------------------------------------------------------------------------
(* cmd_mgr_task_process(), the worker on cmd_wq. *)

WorkerUnchanged == UNCHANGED <<pc, scmd, e2a_msg, next_tkn, reqid, tkn>>

WorkerStart ==
    /\ work = "pending" /\ wpc = "idle"
    /\ work' = "idle" /\ wpc' = "scan"
    /\ WorkerUnchanged
    /\ UNCHANGED <<state, cmds, queue_sz, used, flags, a2e_msg, complete, wcmd,
                   wflags, busVars, bounds>>

\* Mutant: the worker takes the youngest command instead of the oldest.
WorkerScanLast ==
    /\ wpc = "scan"
    /\ IF cmds # <<>> /\ "WAIT_PUSH" \in flags[cmds[Len(cmds)]]
       THEN wpc' = "load" /\ wcmd' = cmds[Len(cmds)]
       ELSE wpc' = "idle" /\ wcmd' = 0
    /\ WorkerUnchanged
    /\ UNCHANGED <<state, cmds, queue_sz, work, used, flags, a2e_msg, complete,
                   wflags, busVars, bounds>>

\* Under the lock, look at the first command only.
WorkerScan ==
    /\ wpc = "scan"
    /\ IF cmds # <<>> /\ "WAIT_PUSH" \in flags[cmds[1]]
       THEN wpc' = "load" /\ wcmd' = cmds[1]
       ELSE wpc' = "idle" /\ wcmd' = 0
    /\ WorkerUnchanged
    /\ UNCHANGED <<state, cmds, queue_sz, work, used, flags, a2e_msg, complete,
                   wflags, busVars, bounds>>

\* next->flags &= ~WAIT_PUSH is a load and a store outside the lock.
WorkerLoad ==
    /\ wpc = "load"
    /\ wpc' = "store" /\ wflags' = flags[wcmd] \ {"WAIT_PUSH"}
    /\ WorkerUnchanged
    /\ UNCHANGED <<state, cmds, queue_sz, work, used, flags, a2e_msg, complete,
                   wcmd, busVars, bounds>>

WorkerStore ==
    /\ wpc = "store"
    /\ wpc' = "push" /\ wflags' = {}
    /\ flags' = [flags EXCEPT ![wcmd] = wflags]
    /\ WorkerUnchanged
    /\ UNCHANGED <<state, cmds, queue_sz, work, used, a2e_msg, complete, wcmd,
                   busVars, bounds>>

\* Mutant: the worker does not wait for the command it has pushed.
WorkerPushNoWait ==
    /\ wpc = "push"
    /\ wpc' = "scan" /\ wcmd' = 0
    /\ SetCmdTx(wcmd)
    /\ pushed' = tkn[wcmd]
    /\ a2e_msg' = a2e_msg \ {wcmd}
    /\ WorkerUnchanged
    /\ UNCHANGED <<state, cmds, queue_sz, work, used, flags, complete, wflags,
                   bounds>>

WorkerPush ==
    /\ wpc = "push"
    /\ wpc' = "wait"
    /\ SetCmdTx(wcmd)
    /\ pushed' = tkn[wcmd]
    /\ a2e_msg' = a2e_msg \ {wcmd}
    /\ WorkerUnchanged
    /\ UNCHANGED <<state, cmds, queue_sz, work, used, flags, complete, wcmd,
                   wflags, bounds>>

WorkerDone ==
    /\ wpc = "wait" /\ wcmd \in complete
    /\ wpc' = "scan" /\ wcmd' = 0
    /\ CmdFree(wcmd)
    /\ WorkerUnchanged
    /\ UNCHANGED <<state, cmds, queue_sz, work, flags, a2e_msg, complete, wflags,
                   busVars, bounds>>

WorkerExpire ==
    /\ wpc = "wait" /\ wcmd \notin complete
    /\ timeouts < MaxTimeouts
    /\ timeouts' = timeouts + 1
    /\ wpc' = "expired"
    /\ WorkerUnchanged
    /\ UNCHANGED <<state, cmds, queue_sz, work, used, flags, a2e_msg, complete,
                   wcmd, wflags, busVars, calls>>

WorkerTimedOut ==
    /\ wpc = "expired"
    /\ wcmd' = 0
    /\ IF BadDel(wcmd)
       THEN wpc' = "oops" /\ UNCHANGED <<state, cmds, queue_sz, flags, complete>>
       ELSE wpc' = "scan" /\ Expired(wcmd)
    /\ WorkerUnchanged
    /\ UNCHANGED <<work, used, a2e_msg, wflags, busVars, bounds>>

-----------------------------------------------------------------------------
(* The bus and the firmware. *)

\* The bus thread sends what is in the command buffer; the transfer may fail, and
\* then the command is gone. Only requests are confirmed.
BusTx(ok) ==
    /\ bus = "UP" /\ cmd_buf # NoMsg
    /\ cmd_buf' = NoMsg
    /\ fw' = IF ok /\ cmd_buf \in ReqIds THEN [fw EXCEPT ![cmd_buf] = @ + 1] ELSE fw
    /\ UNCHANGED <<mgrVars, work, slotVars, pc, scmd, wVars, bus, release, pushed,
                   bounds>>

Matches(s, r) == reqid[s] = r /\ "WAIT_CFM" \in flags[s]

\* The firmware confirms r: cmd_mgr_msgind() completes the first command on the
\* list that waits for r, and writes through its reply buffer if it has one. (The
\* handler of the message runs first and could refuse; of the handlers in
\* rwnx_msg_rx.c only those of MM_PS_CHANGE_IND and of three MESH_*_UPDATE_IND return
\* something else than 0, and no request waits for one of these.)
MsgInd(r) ==
    /\ bus = "UP" /\ fw[r] > 0
    /\ fw' = [fw EXCEPT ![r] = @ - 1]
    /\ \/ /\ \A i \in DOMAIN cmds : ~Matches(cmds[i], r)
          /\ UNCHANGED <<cmds, queue_sz, flags, complete>>
       \/ \E i \in DOMAIN cmds :
            /\ Matches(cmds[i], r)
            /\ \A j \in 1 .. i - 1 : ~Matches(cmds[j], r)
            /\ CmdComplete(cmds[i], flags[cmds[i]] \ {"WAIT_CFM"})
    /\ UNCHANGED <<state, next_tkn, work, used, reqid, tkn, e2a_msg, a2e_msg, pc,
                   scmd, wVars, bus, release, cmd_buf, pushed, bounds>>

-----------------------------------------------------------------------------
(* Removal of the device: aicwf_sdio_release(). *)

Release ==
    /\ MayRelease /\ release = "no"
    /\ bus' = "DOWN" /\ release' = "down"
    /\ UNCHANGED <<mgrVars, work, slotVars, pc, scmd, wVars, cmd_buf, fw, pushed,
                   bounds>>

\* rwnx_cmd_mgr_deinit(), called only if the manager is not crashed:
\* cmd_mgr_drain() unlinks every command and wakes every waiter ...
Drain ==
    /\ release = "down" /\ state = "INITED"
    /\ release' = "drained"
    /\ cmds' = <<>>
    /\ queue_sz' = queue_sz - Len(cmds)
    /\ complete' = complete \cup {cmds[i] : i \in DOMAIN cmds}
    /\ UNCHANGED <<state, next_tkn, work, used, flags, reqid, tkn, e2a_msg,
                   a2e_msg, pc, scmd, wVars, bus, cmd_buf, fw, pushed, bounds>>

\* ... the work is flushed, the workqueue destroyed and the manager zeroed.
Deinit ==
    /\ release = "drained" /\ work = "idle" /\ wpc = "idle"
    /\ release' = "done"
    /\ state' = "DEINIT" /\ cmds' = <<>> /\ queue_sz' = 0 /\ next_tkn' = 0
    /\ UNCHANGED <<work, slotVars, pc, scmd, wVars, bus, cmd_buf, fw, pushed,
                   bounds>>

-----------------------------------------------------------------------------
SenderStep(t) ==
    \/ Poll(t) \/ SendInd(t) \/ QueueRefuse(t) \/ Queue(t) \/ QueueForceDefer(t)
    \/ DeferWake(t) \/ Push(t) \/ WaitDone(t) \/ Kick(t) \/ WaitExpire(t)
    \/ TimedOut(t) \/ QueueAfterDeinit(t)

Worker ==
    \/ WorkerStart \/ WorkerScan \/ WorkerLoad \/ WorkerStore \/ WorkerPush
    \/ WorkerDone \/ WorkerExpire \/ WorkerTimedOut

Next ==
    \/ \E t \in Senders, id \in Ids, cfm \in BOOLEAN : SendMsg(t, id, cfm)
    \/ \E t \in Senders : SenderStep(t)
    \/ Worker
    \/ \E ok \in BOOLEAN : BusTx(ok)
    \/ \E r \in ReqIds : MsgInd(r)
    \/ Release \/ Drain \/ Deinit

Spec == Init /\ [][Next]_vars

\* Fairness: the kernel schedules every sender and the worker, and a wait ends at
\* the latest when its timer expires. Nothing is assumed of the firmware or the
\* bus: a request may be lost or stay in the buffer, and MsgInd may never happen.
FairSpec ==
    /\ Spec
    /\ \A t \in Senders : WF_vars(SenderStep(t))
    /\ WF_vars(Worker)

-----------------------------------------------------------------------------
(* Properties. *)

\* Every variable has its type.
TypeOK ==
    /\ state \in {"INITED", "CRASHED", "DEINIT"}
    /\ cmds \in Seq(Slots) /\ queue_sz \in Nat /\ next_tkn \in Nat
    /\ work \in {"idle", "pending"}
    /\ used \subseteq Slots /\ a2e_msg \subseteq Slots /\ complete \subseteq Slots
    /\ flags \in [Slots -> SUBSET Flags]
    /\ reqid \in [Slots -> Ids \cup {NoMsg}]
    /\ tkn \in [Slots -> Nat]
    /\ e2a_msg \in [Slots -> {"null", "live", "orphan"}]
    /\ pc \in [Senders -> SenderPC] /\ scmd \in [Senders -> Slots \cup {0}]
    /\ wpc \in WorkerPC /\ wcmd \in Slots \cup {0} /\ wflags \subseteq Flags
    /\ bus \in {"UP", "DOWN"} /\ release \in {"no", "down", "drained", "done"}
    /\ cmd_buf \in Ids \cup {NoMsg} /\ fw \in [ReqIds -> Nat]
    /\ calls \in Nat /\ timeouts \in Nat /\ pushed \in Int

\* The two ways a command is held: by the sender that allocated it and by the
\* worker that pushes it.
Owner(t) == pc[t] \in {"poll", "queue", "defer", "send", "push", "wait", "expired"}
WOwner   == wpc \in {"load", "store", "push", "wait", "expired"}

\* The list is intact under every interleaving of senders, worker, timeouts and
\* confirmations: queue_sz counts it, no command is linked twice, it never grows
\* past RWNX_CMD_MAX_QUEUED, and only allocated slots are on it (a slot that is
\* freed or reused while linked would corrupt the list).
ListIntact ==
    /\ queue_sz = Len(cmds)
    /\ \A i, j \in DOMAIN cmds : cmds[i] = cmds[j] => i = j
    /\ Len(cmds) <= MaxQueued
    /\ \A i \in DOMAIN cmds : cmds[i] \in used

\* Slots have one owner: a command is worked on by at most one sender or by the
\* worker, never by both, and only while it is allocated, so rwnx_cmd_free() is
\* called once per allocation and never under somebody who still waits.
SlotOwned ==
    /\ \A t \in Senders : Owner(t) => scmd[t] \in used
    /\ WOwner => wcmd \in used
    /\ \A t, u \in Senders : Owner(t) /\ Owner(u) /\ scmd[t] = scmd[u] => t = u
    /\ \A t \in Senders : Owner(t) /\ WOwner => scmd[t] # wcmd

\* Requests are serialised: only the head of the list can have been pushed, all
\* others still wait for their turn.
OnlyHeadPushed ==
    \A i \in DOMAIN cmds : i > 1 => "WAIT_PUSH" \in flags[cmds[i]]

\* Until something times out, and as long as only requests use the bus, a request
\* that is on its way to the firmware, or that the firmware is working on, is the
\* one at the head of the list, so that cmd_mgr_msgind(), which matches by message
\* id, completes the right command.
ConfirmMatchesHead ==
    state = "INITED" /\ bus = "UP" =>
        \A r \in ReqIds :
            /\ fw[r] + (IF cmd_buf = r THEN 1 ELSE 0) <= 1
            /\ fw[r] > 0 \/ cmd_buf = r =>
                 /\ cmds # <<>> /\ Matches(cmds[1], r)
                 /\ "WAIT_PUSH" \notin flags[cmds[1]]

\* As long as the device stays, no thread oopses: a confirmation that races with the
\* expiry of its own wait never makes cmd_complete() and the expired wait unlink the
\* same command twice, and rwnx_cmd_malloc(), whose NULL nobody checks, finds a slot,
\* however many calls are made and although a slot whose wait timed out is never
\* given back. The latter is a matter of numbers: ArraySize >= MaxQueued + 2 * n is
\* enough for n senders, and one slot less is not.
NoOops ==
    release = "no" => wpc # "oops" /\ \A t \in Senders : pc[t] # "oops"

\* Commands reach the bus in the order of their tokens, whether they are pushed
\* by their sender or by the worker, as long as the bus carries anything.
PushedInOrder == [][bus = "UP" => pushed' > pushed]_pushed

\* Every call returns, whatever the firmware does.
CallsReturn == \A t \in Senders : (pc[t] # "idle") ~> (pc[t] = "idle")

\* Until the first timeout, a pushed command that is still on the list has somebody
\* waiting for it, its sender or the worker, so that a timeout takes it off the
\* list. After one, a slot may be reused with the DONE flag of its last command.
WaiterUntilCrash ==
    state = "INITED" =>
        \A i \in DOMAIN cmds :
            "WAIT_PUSH" \notin flags[cmds[i]] =>
                \/ \E t \in Senders : Owner(t) /\ scmd[t] = cmds[i]
                \/ WOwner /\ wcmd = cmds[i]

\* rwnx_send_msg() waits for the queue to be empty before it queues a command
\* with a reply buffer, so such a command is never deferred behind another.
ReplyNeverOrphaned ==
    \A i \in DOMAIN cmds : e2a_msg[cmds[i]] # "orphan"
=============================================================================
