------------------------------- MODULE Engine -------------------------------
(***************************************************************************)
(* The engine of shim/src/engine.rs: start, stop and network_changed as    *)
(* several threads call them, under the LIFECYCLE lock, with the ENGINE    *)
(* slot, the node thread of every start, the responder port [::1]:5354 the *)
(* nodes bind and the dups of the tunnel fd.                               *)
(*                                                                         *)
(* The pump is modelled in Pump; here a swap or a join is one step with    *)
(* the outcomes Pump gives it.                                             *)
(***************************************************************************)
EXTENDS Integers, FiniteSets

CONSTANTS
    Procs,      \* threads that call the engine
    Cfgs,       \* configurations
    MaxCalls,   \* bound: calls made
    None,       \* no engine, no holder
    Failures    \* which of "config", "node", "rx", "timeout", "dup", "threads", "swap", "abandon" happen

ASSUME BoundsAssumption == MaxCalls \in Nat
ASSUME CfgsAssumption == Cfgs # {}
ASSUME NoneAssumption ==
    None \notin Procs \cup [id : Nat, cfg : Cfgs, tun : Nat] \cup [cfg : Cfgs, tun : Nat]
ASSUME FailuresAssumption ==
    Failures \subseteq {"config", "node", "rx", "timeout", "dup", "threads", "swap", "abandon"}

\* The start made by the n-th call, and the tunnel and dup it brings, are numbered n.
Ids == 1..MaxCalls

VARIABLES
    lifecycle,  \* holder of LIFECYCLE
    slot,       \* ENGINE: None or the installed engine
    starting,   \* STARTING
    rebinding,  \* REBINDING
    pc, call,   \* per thread: where it is, and its operation, configuration and tunnel
    taken,      \* per thread: the engine stop_locked took out of the slot
    ret,        \* per thread: its result so far
    count,      \* calls made
    node,       \* per start: its node thread
    told,       \* per start: its stop_tx was used or dropped
    port,       \* the node that holds the responder port, or 0
    degraded,   \* history: nodes that came up without the port
    broken,     \* history: nodes that came up and ended by an error of their rx loop
    unjoined,   \* history: starts given up on without joining their node thread
    pump,       \* per start: its pump's threads
    dups        \* open dups of tunnel fds

lock == <<lifecycle, starting, rebinding>>
procs == <<pc, call, taken, ret, count>>
nodes == <<node, told, port, degraded, broken, unjoined>>
vars == <<lock, slot, procs, nodes, pump, dups>>

Ops == {"start", "stop", "rebind"}

\* What a thread outside the engine holds; stop takes no configuration.
AnyCfg == CHOOSE c \in Cfgs : TRUE
NoCall == [op |-> "stop", cfg |-> AnyCfg, tun |-> 0]

\* Where a thread is.  enter, look, swap, swapping, leave: network_changed; lock:
\* waits for LIFECYCLE; check .. finish: start_locked (joinFailed: start_inner joins
\* a node thread on an error path); take .. close: stop_locked; unlock, return: out.
\* threadsUndo, swapUndo: spawn_io joins a reader that got no writer, unbounded.
Starting == {"check", "spawn", "ready", "joinFailed", "dup", "threads", "threadsUndo", "install", "finish"}
Stopping == {"joinPump", "joinNode", "close"}
Pc == {"idle", "enter", "lock", "take", "look", "swap", "swapping", "swapUndo",
       "unlock", "leave", "return"} \cup Starting \cup Stopping

Init ==
    /\ lifecycle = None /\ slot = None /\ starting = FALSE /\ rebinding = FALSE
    /\ pc = [p \in Procs |-> "idle"]
    /\ call = [p \in Procs |-> NoCall]
    /\ taken = [p \in Procs |-> None]
    /\ ret = [p \in Procs |-> "none"]
    /\ count = 0
    /\ node = [i \in Ids |-> "none"] /\ told = [i \in Ids |-> FALSE]
    /\ port = 0 /\ degraded = {} /\ broken = {} /\ unjoined = {}
    /\ pump = [i \in Ids |-> "none"] /\ dups = {}

Goes(p, l) == pc' = [pc EXCEPT ![p] = l]
Id(p) == call[p].tun

-----------------------------------------------------------------------------
(* Entering and leaving a call.                                            *)

\* A thread calls start, stop or network_changed; network_changed first swaps
\* REBINDING and returns Ok at once when a rebuild is running.
Invoke(p, o, c) ==
    /\ pc[p] = "idle" /\ count < MaxCalls
    /\ o = "stop" => c = AnyCfg
    /\ count' = count + 1
    /\ call' = [call EXCEPT ![p] = [op |-> o, cfg |-> c, tun |-> count + 1]]
    /\ ret' = [ret EXCEPT ![p] = "none"]
    /\ Goes(p, IF o = "rebind" THEN "enter" ELSE "lock")
    /\ UNCHANGED <<lock, slot, taken, nodes, pump, dups>>

EnterRebind(p) ==
    /\ pc[p] = "enter"
    /\ IF rebinding
       THEN ret' = [ret EXCEPT ![p] = "ok"] /\ Goes(p, "return") /\ UNCHANGED rebinding
       ELSE rebinding' = TRUE /\ Goes(p, "lock") /\ UNCHANGED ret
    /\ UNCHANGED <<lifecycle, starting, slot, call, taken, count, nodes, pump, dups>>

Body(o) == CASE o = "start" -> "check" [] o = "stop" -> "take" [] o = "rebind" -> "look"

\* A mutant of Lock: no LIFECYCLE.
NoLock(p) ==
    /\ pc[p] = "lock"
    /\ lifecycle' = p
    /\ Goes(p, Body(call[p].op))
    /\ UNCHANGED <<starting, rebinding, slot, call, taken, ret, count, nodes, pump, dups>>

Lock(p) ==
    /\ pc[p] = "lock" /\ lifecycle = None
    /\ lifecycle' = p
    /\ Goes(p, Body(call[p].op))
    /\ UNCHANGED <<starting, rebinding, slot, call, taken, ret, count, nodes, pump, dups>>

\* The thread is out of the engine, with its result.
Leaves(p) ==
    /\ Goes(p, "idle")
    /\ call' = [call EXCEPT ![p] = NoCall] /\ ret' = [ret EXCEPT ![p] = "none"]

\* The guard is dropped and the call returns; network_changed first clears REBINDING.
Unlock(p) ==
    /\ pc[p] = "unlock"
    /\ lifecycle' = None
    /\ IF call[p].op = "rebind" THEN Goes(p, "leave") /\ UNCHANGED <<call, ret>> ELSE Leaves(p)
    /\ UNCHANGED <<starting, rebinding, slot, taken, count, nodes, pump, dups>>

LeaveRebind(p) ==
    /\ pc[p] = "leave"
    /\ rebinding' = FALSE
    /\ Leaves(p)
    /\ UNCHANGED <<lifecycle, starting, slot, taken, count, nodes, pump, dups>>

\* A coalesced network_changed returns.
Return(p) ==
    /\ pc[p] = "return"
    /\ Leaves(p)
    /\ UNCHANGED <<lock, slot, taken, count, nodes, pump, dups>>

-----------------------------------------------------------------------------
(* start_locked and start_inner.                                           *)

\* One thread-local step of p that leaves everything else alone.
Only(p, l) == Goes(p, l) /\ UNCHANGED <<call, taken, count>>

StartCheck(p) ==
    /\ pc[p] = "check"
    /\ IF slot # None \/ starting
       THEN ret' = [ret EXCEPT ![p] = "err"] /\ Only(p, "unlock") /\ UNCHANGED starting
       ELSE starting' = TRUE /\ Only(p, "spawn") /\ UNCHANGED ret
    /\ UNCHANGED <<lifecycle, rebinding, slot, nodes, pump, dups>>

\* The config is parsed, the node built and its thread spawned, or one of them fails.
StartSpawn(p) ==
    /\ pc[p] = "spawn"
    /\ \/ node' = [node EXCEPT ![Id(p)] = "starting"] /\ Only(p, "ready")
       \/ "config" \in Failures /\ Only(p, "finish") /\ UNCHANGED node
    /\ UNCHANGED <<lock, slot, ret, told, port, degraded, broken, unjoined, pump, dups>>

\* What the node's thread sent on the ready channel stays there if the node then
\* breaks; a node that ended without it failed to start.
Ready(i) == node[i] = "up" \/ i \in broken
Failed(i) == node[i] = "gone" /\ i \notin broken

\* A mutant of StartReady: the wait has no timeout.
StartReadyUnbounded(p) ==
    /\ pc[p] = "ready"
    /\ \/ Ready(Id(p)) /\ Only(p, "dup")
       \/ Failed(Id(p)) /\ Only(p, "finish")
    /\ UNCHANGED <<lock, slot, ret, nodes, pump, dups>>

\* recv_timeout on the ready channel: the node is up; it failed and its thread is
\* joined; or START_TIMEOUT passes and start_inner returns, dropping stop_tx.
StartReady(p) ==
    /\ pc[p] = "ready"
    /\ \/ Ready(Id(p)) /\ Only(p, "dup") /\ UNCHANGED <<told, unjoined>>
       \/ Failed(Id(p)) /\ Only(p, "finish") /\ UNCHANGED <<told, unjoined>>
       \/ /\ node[Id(p)] = "starting" /\ "timeout" \in Failures
          /\ told' = [told EXCEPT ![Id(p)] = TRUE]
          /\ unjoined' = unjoined \cup {Id(p)}
          /\ Only(p, "finish")
    /\ UNCHANGED <<lock, slot, ret, node, port, degraded, broken, pump, dups>>

\* The tunnel fd is dup'd; if that fails the node is told and joined.
StartDup(p) ==
    /\ pc[p] = "dup"
    /\ \/ dups' = dups \cup {Id(p)} /\ Only(p, "threads") /\ UNCHANGED told
       \/ /\ "dup" \in Failures
          /\ told' = [told EXCEPT ![Id(p)] = TRUE]
          /\ Only(p, "joinFailed") /\ UNCHANGED dups
    /\ UNCHANGED <<lock, slot, ret, node, port, degraded, broken, unjoined, pump>>

StartJoinFailed(p) ==
    /\ pc[p] = "joinFailed" /\ node[Id(p)] = "gone"
    /\ Only(p, "finish")
    /\ UNCHANGED <<lock, slot, ret, nodes, pump, dups>>

\* start_inner returns after the forwarder or the pump failed: the dup is closed,
\* stop_tx dropped, the node thread not joined, and the pump is as l says.
ThreadsFail(p, l) ==
    /\ pump' = [pump EXCEPT ![Id(p)] = l]
    /\ told' = [told EXCEPT ![Id(p)] = TRUE]
    /\ unjoined' = unjoined \cup {Id(p)}
    /\ dups' = dups \ {Id(p)}
    /\ Only(p, "finish")

\* The forwarder and the pump are spawned, or one of them fails.  A pump whose bridge
\* could not be spawned leaves its reader and writer behind; one whose writer could
\* not be spawned has a reader to join.
StartThreads(p) ==
    /\ pc[p] = "threads"
    /\ \/ pump' = [pump EXCEPT ![Id(p)] = "up"] /\ Only(p, "install")
          /\ UNCHANGED <<told, unjoined, dups>>
       \/ "threads" \in Failures /\ \E l \in {"none", "left"} : ThreadsFail(p, l)
       \/ "threads" \in Failures /\ Only(p, "threadsUndo") /\ UNCHANGED <<told, unjoined, pump, dups>>
    /\ UNCHANGED <<lock, slot, ret, node, port, degraded, broken>>

\* reader.join in spawn_io returns: the start fails.  It may never return (Pump).
StartUndo(p) ==
    /\ pc[p] = "threadsUndo"
    /\ ThreadsFail(p, "none")
    /\ UNCHANGED <<lock, slot, ret, node, port, degraded, broken>>

\* The engine is put in the slot with its dup and its config.
StartInstall(p) ==
    /\ pc[p] = "install"
    /\ slot' = [id |-> Id(p), cfg |-> call[p].cfg, tun |-> Id(p)]
    /\ ret' = [ret EXCEPT ![p] = "ok"]
    /\ Only(p, "finish")
    /\ UNCHANGED <<lock, nodes, pump, dups>>

StartFinish(p) ==
    /\ pc[p] = "finish"
    /\ starting' = FALSE
    /\ ret' = [ret EXCEPT ![p] = IF @ = "none" THEN "err" ELSE @]
    /\ Only(p, "unlock")
    /\ UNCHANGED <<lifecycle, rebinding, slot, nodes, pump, dups>>

-----------------------------------------------------------------------------
(* stop_locked.                                                            *)

\* The engine is taken out of the slot, the node told, running cleared.
StopTake(p) ==
    /\ pc[p] = "take"
    /\ ret' = [ret EXCEPT ![p] = IF call[p].op = "stop" THEN "ok" ELSE @]
    /\ slot' = None
    /\ taken' = [taken EXCEPT ![p] = slot]
    /\ IF slot = None
       THEN Goes(p, "unlock") /\ UNCHANGED told
       ELSE Goes(p, "joinPump") /\ told' = [told EXCEPT ![slot.id] = TRUE]
    /\ UNCHANGED <<lock, call, count, node, port, degraded, broken, unjoined, pump, dups>>

\* pump.join and forwarder.join, bounded: threads that do not end are left.
StopJoinPump(p) ==
    /\ pc[p] = "joinPump"
    /\ \E l \in {"ended"} \cup (IF "abandon" \in Failures THEN {"left"} ELSE {}) :
         pump' = [pump EXCEPT ![taken[p].id] = IF @ = "up" THEN l ELSE @]
    /\ Only(p, "joinNode")
    /\ UNCHANGED <<lock, slot, ret, nodes, dups>>

\* A mutant of StopJoinNode: the node thread is told and not joined.
StopNoJoinNode(p) ==
    /\ pc[p] = "joinNode"
    /\ Only(p, "close")
    /\ UNCHANGED <<lock, slot, ret, nodes, pump, dups>>

\* node_thread.join, unbounded.
StopJoinNode(p) ==
    /\ pc[p] = "joinNode" /\ node[taken[p].id] = "gone"
    /\ Only(p, "close")
    /\ UNCHANGED <<lock, slot, ret, nodes, pump, dups>>

StopClose(p) ==
    /\ pc[p] = "close"
    /\ dups' = dups \ {taken[p].tun}
    /\ taken' = [taken EXCEPT ![p] = None]
    /\ Goes(p, IF call[p].op = "stop" THEN "unlock" ELSE "check")
    /\ UNCHANGED <<lock, slot, call, ret, count, nodes, pump>>

-----------------------------------------------------------------------------
(* network_changed and swap_tun_locked.                                    *)

\* Not running: nothing to do.  The same config: swap the tunnel.  A changed
\* config: stop and start.
RebindLook(p) ==
    /\ pc[p] = "look"
    /\ \/ slot = None /\ ret' = [ret EXCEPT ![p] = "ok"] /\ Only(p, "unlock")
       \/ slot # None /\ slot.cfg = call[p].cfg /\ Only(p, "swap") /\ UNCHANGED ret
       \/ slot # None /\ slot.cfg # call[p].cfg /\ Only(p, "take") /\ UNCHANGED ret
    /\ UNCHANGED <<lock, slot, nodes, pump, dups>>

SwapDup(p) ==
    /\ pc[p] = "swap"
    /\ \/ dups' = dups \cup {Id(p)} /\ Only(p, "swapping")
       \/ "dup" \in Failures /\ Only(p, "take") /\ UNCHANGED dups
    /\ UNCHANGED <<lock, slot, ret, nodes, pump>>

\* A mutant of SwapTun: a failed swap keeps the new dup.
SwapTunKeepsDup(p) ==
    /\ pc[p] = "swapping"
    /\ \/ /\ slot' = [slot EXCEPT !.tun = Id(p)]
          /\ dups' = dups \ {slot.tun}
          /\ ret' = [ret EXCEPT ![p] = "ok"]
          /\ Only(p, "unlock") /\ UNCHANGED pump
       \/ /\ "swap" \in Failures
          /\ \E l \in {"ended", "left"} : pump' = [pump EXCEPT ![slot.id] = l]
          /\ Only(p, "take") /\ UNCHANGED <<slot, ret, dups>>
    /\ UNCHANGED <<lock, nodes>>

\* swap_tun_locked closes the new dup and the caller restarts the engine.
SwapFails(p, l) ==
    /\ pump' = [pump EXCEPT ![slot.id] = l]
    /\ dups' = dups \ {Id(p)}
    /\ Only(p, "take") /\ UNCHANGED <<slot, ret>>

\* Pump::swap_fd moves the reader and writer, and the old dup is closed; or it
\* fails, with the old threads abandoned or the new ones not spawned; or the new
\* reader got no writer and is to be joined.
SwapTun(p) ==
    /\ pc[p] = "swapping"
    /\ \/ /\ slot' = [slot EXCEPT !.tun = Id(p)]
          /\ dups' = dups \ {slot.tun}
          /\ ret' = [ret EXCEPT ![p] = "ok"]
          /\ Only(p, "unlock") /\ UNCHANGED pump
       \/ "swap" \in Failures /\ \E l \in {"ended", "left"} : SwapFails(p, l)
       \/ "swap" \in Failures /\ Only(p, "swapUndo") /\ UNCHANGED <<slot, ret, pump, dups>>
    /\ UNCHANGED <<lock, nodes>>

\* reader.join in spawn_io returns: the swap fails.  It may never return (Pump).
SwapUndo(p) ==
    /\ pc[p] = "swapUndo"
    /\ SwapFails(p, "ended")
    /\ UNCHANGED <<lock, nodes>>

-----------------------------------------------------------------------------
(* The node threads.                                                       *)

\* node.start succeeds; without the responder port the node is degraded.
NodeUp(i) ==
    /\ node[i] = "starting"
    /\ node' = [node EXCEPT ![i] = "up"]
    /\ IF port = 0
       THEN port' = i /\ UNCHANGED degraded
       ELSE degraded' = degraded \cup {i} /\ UNCHANGED port
    /\ UNCHANGED <<lock, slot, procs, told, broken, unjoined, pump, dups>>

\* node.start fails (or the runtime cannot be built): the thread ends.
NodeFails(i) ==
    /\ node[i] = "starting" /\ "node" \in Failures
    /\ node' = [node EXCEPT ![i] = "gone"]
    /\ UNCHANGED <<lock, slot, procs, told, port, degraded, broken, unjoined, pump, dups>>

\* stop_rx resolves: the node drains, releases the port and its thread ends.
NodeStops(i) ==
    /\ node[i] = "up" /\ told[i]
    /\ node' = [node EXCEPT ![i] = "gone"]
    /\ port' = IF port = i THEN 0 ELSE port
    /\ UNCHANGED <<lock, slot, procs, told, degraded, broken, unjoined, pump, dups>>

\* The rx loop of a node nobody told to stop returns an error: it drains and its
\* thread ends the same way, with its engine left in the slot.
NodeBreaks(i) ==
    /\ node[i] = "up" /\ ~told[i] /\ "rx" \in Failures
    /\ node' = [node EXCEPT ![i] = "gone"]
    /\ broken' = broken \cup {i}
    /\ port' = IF port = i THEN 0 ELSE port
    /\ UNCHANGED <<lock, slot, procs, told, degraded, unjoined, pump, dups>>

-----------------------------------------------------------------------------
Step(p) ==
    \/ EnterRebind(p) \/ Lock(p) \/ Unlock(p) \/ LeaveRebind(p) \/ Return(p)
    \/ StartCheck(p) \/ StartSpawn(p) \/ StartReady(p) \/ StartDup(p) \/ StartJoinFailed(p)
    \/ StartThreads(p) \/ StartInstall(p) \/ StartFinish(p)
    \/ StopTake(p) \/ StopJoinPump(p) \/ StopJoinNode(p) \/ StopClose(p)
    \/ RebindLook(p) \/ SwapDup(p) \/ SwapTun(p)

Undo(p) == StartUndo(p) \/ SwapUndo(p)

Next ==
    \/ \E p \in Procs : Step(p) \/ Undo(p) \/ \E o \in Ops, c \in Cfgs : Invoke(p, o, c)
    \/ \E i \in Ids : NodeUp(i) \/ NodeFails(i) \/ NodeStops(i) \/ NodeBreaks(i)

Spec == Init /\ [][Next]_vars

\* Calls, once made, are scheduled, and nodes that came up stop when told (the
\* drain and the runtime's shutdown are bounded); node.start may hang for good, and
\* so may a reader that spawn_io joins (Undo).
Fairness ==
    /\ \A p \in Procs : WF_vars(Step(p))
    /\ \A i \in Ids : WF_vars(NodeStops(i))

FairSpec == Spec /\ Fairness

-----------------------------------------------------------------------------
(* Properties.                                                             *)

EngineRec == [id : Ids, cfg : Cfgs, tun : Ids]

\* An installed or taken engine names a start and its tunnel; the rest is of its type.
TypeOK ==
    /\ lifecycle \in Procs \cup {None} /\ slot \in EngineRec \cup {None}
    /\ starting \in BOOLEAN /\ rebinding \in BOOLEAN
    /\ pc \in [Procs -> Pc] /\ ret \in [Procs -> {"none", "ok", "err"}]
    /\ call \in [Procs -> [op : Ops, cfg : Cfgs, tun : 0..MaxCalls]]
    /\ taken \in [Procs -> EngineRec \cup {None}] /\ count \in 0..MaxCalls
    /\ node \in [Ids -> {"none", "starting", "up", "gone"}] /\ told \in [Ids -> BOOLEAN]
    /\ port \in 0..MaxCalls /\ degraded \subseteq Ids /\ broken \subseteq Ids /\ unjoined \subseteq Ids
    /\ pump \in [Ids -> {"none", "up", "ended", "left"}] /\ dups \subseteq Ids

\* LIFECYCLE's purpose (engine.rs:66-71): two nodes are alive at once, and a node
\* comes up without the responder port, only after a start that gave up on its
\* node thread without joining it (a timed-out start, a failed thread spawn).
NodesSerialized ==
    /\ \A i, j \in Ids : i # j /\ {node[i], node[j]} \subseteq {"starting", "up"} =>
                         {i, j} \cap unjoined # {}
    /\ degraded # {} => unjoined # {}

Quiescent == \A p \in Procs : pc[p] = "idle"

\* Between calls nothing is left over, whichever steps of the calls failed: the
\* only open dup is the installed engine's, its node has not been told to stop, its
\* pump is up, and its node is up unless an error of the rx loop ended it (which
\* nothing in engine.rs notices, engine.rs:239-245); no other start has pump threads
\* except ones that were abandoned; the flags and the lock are clear.
QuiescentIsClean ==
    Quiescent =>
        /\ lifecycle = None /\ ~starting /\ ~rebinding
        /\ dups = IF slot = None THEN {} ELSE {slot.tun}
        /\ slot # None => Ready(slot.id) /\ ~told[slot.id] /\ pump[slot.id] = "up"
        /\ \A i \in Ids : (slot = None \/ slot.id # i) => pump[i] # "up" /\ (told[i] \/ node[i] \in {"none", "gone"})

\* A thread of a call waits in spawn_io for a reader that got no writer.
Undoing == \E p \in Procs : pc[p] \in {"threadsUndo", "swapUndo"}

\* Every call returns, whatever fails, even when a node hangs in node.start
\* (START_TIMEOUT, engine.rs:257-268), provided no call is stuck for good in the one
\* join without a bound (pump.rs:335), which would keep LIFECYCLE for ever.
CallsReturn == []<>~Undoing => \A p \in Procs : pc[p] # "idle" ~> pc[p] = "idle"

\* The engine keeps the promise of EngineApi: the slot is the session, and a call
\* has taken effect once its result is fixed.
Api == INSTANCE EngineApi WITH
    NoSession <- None,
    session <- IF slot = None THEN None ELSE [cfg |-> slot.cfg, tun |-> slot.tun],
    phase <- [p \in Procs |->
                IF pc[p] = "idle" THEN "idle"
                ELSE IF ret[p] # "none" THEN "done"
                ELSE IF call[p].op = "rebind" /\ pc[p] \in Starting \cup Stopping THEN "mid"
                ELSE "called"]

\* start, stop and network_changed take effect atomically for their callers, and
\* nothing takes effect between a restart's stop and its start.
ImplementsApi == Api!Spec
=============================================================================
