---------------------------- MODULE EngineProofs ----------------------------
(***************************************************************************)
(* Proofs about Engine: nodes are serialized, nothing is left over between *)
(* calls, and the engine implements EngineApi, for any threads,            *)
(* configurations, failures and number of calls.                           *)
(***************************************************************************)
EXTENDS Engine, TLAPS

-----------------------------------------------------------------------------
(* The inductive invariant.                                                *)

\* Where a thread holds LIFECYCLE, and where it does not.
Locked == {"take", "look", "swap", "swapping", "swapUndo", "unlock"} \cup Starting \cup Stopping
Outside == {"idle", "enter", "lock", "leave", "return"}
\* Where STARTING is set.
Building == Starting \ {"check"}
\* Where the node of the thread's own start lives or may live.
Living == {"ready", "dup", "joinFailed", "threads", "threadsUndo", "install"}
\* Where the number of the call has not been used for a start yet.
Unborn == {"enter", "lock", "look", "swap", "swapping", "swapUndo", "take", "check", "spawn"} \cup Stopping

\* TypeOK in two parts: the Booleans are for another prover than the rest.
Flags == starting \in BOOLEAN /\ rebinding \in BOOLEAN /\ told \in [Ids -> BOOLEAN]
Types ==
    /\ lifecycle \in Procs \cup {None} /\ slot \in EngineRec \cup {None}
    /\ pc \in [Procs -> Pc] /\ ret \in [Procs -> {"none", "ok", "err"}]
    /\ call \in [Procs -> [op : Ops, cfg : Cfgs, tun : 0..MaxCalls]]
    /\ taken \in [Procs -> EngineRec \cup {None}] /\ count \in 0..MaxCalls
    /\ node \in [Ids -> {"none", "starting", "up", "gone"}]
    /\ port \in 0..MaxCalls /\ degraded \subseteq Ids /\ broken \subseteq Ids /\ unjoined \subseteq Ids
    /\ pump \in [Ids -> {"none", "up", "ended", "left"}] /\ dups \subseteq Ids

\* LIFECYCLE is held by the one thread that is inside it.
Exclusive == \A p \in Procs : pc[p] \in Locked <=> lifecycle = p

\* STARTING is set just while the holder starts.
StartingFlag ==
    /\ \A p \in Procs : pc[p] \in Building => starting
    /\ starting => lifecycle \in Procs /\ pc[lifecycle] \in Building

\* REBINDING is set just while one network_changed is past its entry.
Rebinder(p) == call[p].op = "rebind" /\ pc[p] \notin {"idle", "enter", "return"}
RebindingFlag ==
    /\ \A p \in Procs : Rebinder(p) => rebinding
    /\ \A p, q \in Procs : Rebinder(p) /\ Rebinder(q) => p = q
    /\ rebinding => \E p \in Procs : Rebinder(p)

\* Calls that run have different numbers.
Numbers ==
    /\ \A p \in Procs : pc[p] # "idle" => Id(p) \in 1..count
    /\ \A p, q \in Procs : p # q /\ pc[p] # "idle" /\ pc[q] # "idle" => Id(p) # Id(q)

\* Which operation can be where.
Operations ==
    \A p \in Procs :
        /\ pc[p] \in {"enter", "look", "swap", "swapping", "swapUndo", "leave", "return"} => call[p].op = "rebind"
        /\ pc[p] \in Starting => call[p].op \in {"start", "rebind"}
        /\ pc[p] \in {"take"} \cup Stopping => call[p].op \in {"stop", "rebind"}

\* Where the result is fixed, and where not.
Results ==
    \A p \in Procs :
        /\ pc[p] \in {"idle", "enter", "lock", "look", "swap", "swapping", "swapUndo", "take"} => ret[p] = "none"
        /\ pc[p] \in Starting \ {"finish"} => ret[p] = "none"
        /\ pc[p] \in {"unlock", "leave", "return"} => ret[p] # "none"
        /\ pc[p] \in Stopping => ret[p] = IF call[p].op = "stop" THEN "ok" ELSE "none"

\* Numbers not given out, and numbers of calls that have not started anything, have no node,
\* no pump and (but for a tunnel being swapped in) no dup.
Untouched(i) == node[i] = "none" /\ ~told[i] /\ i \notin unjoined /\ pump[i] = "none"
Unused == \A i \in Ids : i > count => Untouched(i) /\ i \notin dups
Fresh ==
    \A p \in Procs : pc[p] \in Unborn => Untouched(Id(p)) /\ (pc[p] \notin {"swapping", "swapUndo"} => Id(p) \notin dups)

\* The installed engine has a node that came up and was not told, and a pump, except when a swap
\* failed and the engine is about to be stopped; where the slot is empty, and where it is not.
Installed ==
    /\ slot # None => /\ slot.id <= count /\ Ready(slot.id) /\ ~told[slot.id] /\ slot.id \notin unjoined
                      /\ \/ pump[slot.id] = "up"
                         \/ lifecycle \in Procs /\ pc[lifecycle] = "take"
    /\ \A p \in Procs :
        /\ pc[p] \in {"spawn"} \cup Living \cup Stopping => slot = None
        /\ pc[p] = "check" /\ call[p].op = "rebind" => slot = None
        /\ pc[p] \in {"swap", "swapping", "swapUndo"} => slot # None /\ slot.cfg = call[p].cfg
        /\ pc[p] = "take" /\ call[p].op = "rebind" => slot # None

\* A start in progress owns its node and, once spawned, its pump.
Begun ==
    \A p \in Procs :
        /\ pc[p] \in Living => node[Id(p)] # "none" /\ Id(p) \notin unjoined
        /\ pc[p] \in {"dup", "threads", "threadsUndo", "install"} => Ready(Id(p))
        /\ pc[p] \in Living => (told[Id(p)] <=> pc[p] = "joinFailed")
        /\ pc[p] \in Living => (pump[Id(p)] = IF pc[p] = "install" THEN "up" ELSE "none")

\* A stop in progress owns the engine it took, whose node was told, and is gone once joined.
Ending ==
    \A p \in Procs :
        /\ pc[p] \in Stopping <=> taken[p] # None
        /\ pc[p] \in Stopping => /\ taken[p].id <= count /\ told[taken[p].id] /\ taken[p].id \notin unjoined
                                 /\ node[taken[p].id] \in {"up", "gone"}
        /\ pc[p] = "close" => node[taken[p].id] = "gone"

\* The open dups are the installed engine's and the one the holder of LIFECYCLE will install,
\* swap in or close.
Own(p) ==
    IF pc[p] \in {"threads", "threadsUndo", "install", "swapping", "swapUndo"} THEN {Id(p)}
    ELSE IF pc[p] \in Stopping THEN {taken[p].tun} ELSE {}
Dups ==
    /\ \A i \in dups : i <= count
    /\ \A i \in Ids :
        i \in dups <=> (slot # None /\ i = slot.tun) \/ (lifecycle \in Procs /\ i \in Own(lifecycle))
    /\ \A p \in Procs : pc[p] \in {"swapping", "swapUndo"} => slot.tun # Id(p)

\* A pump that runs is the installed engine's, or one about to be installed or joined.
Pumps ==
    \A i \in Ids : pump[i] = "up" =>
        \/ slot # None /\ i = slot.id
        \/ /\ lifecycle \in Procs
           /\ \/ pc[lifecycle] = "install" /\ i = Id(lifecycle)
              \/ pc[lifecycle] = "joinPump" /\ i = taken[lifecycle].id

\* A node that lives is the installed engine's or the holder's, unless it was given up on; a
\* node that broke is gone.
Holds(p, i) ==
    \/ pc[p] \in Living /\ i = Id(p)
    \/ pc[p] \in Stopping /\ i = taken[p].id
Current(i) == (slot # None /\ i = slot.id) \/ (lifecycle \in Procs /\ Holds(lifecycle, i))
Nodes ==
    /\ \A i \in Ids : node[i] \in {"starting", "up"} => i \in unjoined \/ Current(i)
    /\ \A i \in unjoined : told[i]
    /\ \A i \in Ids : told[i] => node[i] # "none"
    /\ \A i \in broken : node[i] = "gone"

\* The port is held by a node that is up; one that came up without it had to share.
Port ==
    /\ port # 0 => node[port] = "up"
    /\ degraded # {} => unjoined # {}

IInv ==
    /\ Flags /\ Types /\ Exclusive /\ StartingFlag /\ RebindingFlag /\ Numbers /\ Operations /\ Results
    /\ Unused /\ Fresh /\ Installed /\ Begun /\ Ending /\ Dups /\ Pumps /\ Nodes /\ Port

USE BoundsAssumption, CfgsAssumption, NoneAssumption DEF Ready

\* The holder of LIFECYCLE is the only thread inside it, and its number is its own.
LEMMA Holder ==
    ASSUME IInv, NEW p \in Procs, pc[p] \in Locked
    PROVE  /\ lifecycle = p /\ Id(p) \in Ids /\ Id(p) <= count
           /\ \A q \in Procs : q # p => /\ pc[q] \in Outside
                                        /\ pc[q] # "idle" => Id(q) \in Ids /\ Id(q) # Id(p)
<1> USE DEF IInv
<1>1. pc[p] # "idle" BY DEF Locked, Starting, Stopping
<1>2. lifecycle = p BY DEF Exclusive
<1>3. \A q \in Procs : q # p => pc[q] \in Outside
    BY <1>2 DEF Exclusive, Outside, Locked, Starting, Stopping, Types, Pc
<1>4. \A q \in Procs : pc[q] # "idle" => Id(q) \in Ids /\ Id(q) <= count
    BY DEF Numbers, Types, Ids, Id
<1>5. \A q \in Procs : q # p => (pc[q] # "idle" => Id(q) # Id(p))
    BY <1>1 DEF Numbers
<1>6. QED BY <1>1, <1>2, <1>3, <1>4, <1>5

\* A step within network_changed, or outside it, leaves the one that is running alone.
LEMMA SameRebinders ==
    ASSUME RebindingFlag, UNCHANGED <<rebinding, call>>,
           \A q \in Procs : pc'[q] \in {"idle", "enter", "return"} <=> pc[q] \in {"idle", "enter", "return"}
    PROVE  RebindingFlag'
<1>1. \A q \in Procs : Rebinder(q)' <=> Rebinder(q) BY DEF Rebinder
<1>2. QED BY <1>1 DEF RebindingFlag

-----------------------------------------------------------------------------
(* Entering and leaving a call.                                            *)

\* NoCall is a call.
LEMMA NoCallTyped == NoCall \in [op : Ops, cfg : Cfgs, tun : 0..MaxCalls] /\ NoCall.op = "stop"
<1>1. AnyCfg \in Cfgs BY DEF AnyCfg
<1>2. QED BY <1>1 DEF NoCall, Ops

\* What a call starts at.
LEMMA Bodies ==
    Body("start") = "check" /\ Body("stop") = "take" /\ Body("rebind") = "look"
BY DEF Body

\* A new call has a number nobody used.
LEMMA InvokeInv ==
    ASSUME IInv, NEW p \in Procs, NEW o \in Ops, NEW c \in Cfgs, Invoke(p, o, c)
    PROVE  IInv'
<1> USE DEF IInv
<1>1. pc[p] = "idle" /\ count < MaxCalls /\ count' = count + 1 /\ count' \in Ids /\ count \in Nat
    BY DEF Invoke, Types, Ids
<1>2. /\ pc' \in [Procs -> Pc] /\ pc'[p] = (IF o = "rebind" THEN "enter" ELSE "lock")
      /\ \A q \in Procs : q # p => pc'[q] = pc[q]
    BY DEF Invoke, Goes, Types, Pc, Starting, Stopping
<1>3. call' = [call EXCEPT ![p] = [op |-> o, cfg |-> c, tun |-> count + 1]]
    BY DEF Invoke
<1>4. /\ call' \in [Procs -> [op : Ops, cfg : Cfgs, tun : 0..MaxCalls]]
      /\ call'[p].op = o /\ Id(p)' = count + 1 /\ \A q \in Procs : q # p => call'[q] = call[q]
    BY <1>1, <1>3 DEF Types, Id
<1>5. /\ ret' \in [Procs -> {"none", "ok", "err"}] /\ ret'[p] = "none"
      /\ \A q \in Procs : q # p => ret'[q] = ret[q]
    BY DEF Invoke, Types
<1>6. UNCHANGED <<lifecycle, starting, rebinding, slot, taken, node, told, port, degraded, broken, unjoined,
          pump, dups>>
    BY DEF Invoke, lock, nodes
<1>7. Flags' BY <1>6 DEF Flags
<1>8. Types' BY <1>1, <1>2, <1>4, <1>5, <1>6 DEF Types, Ids
<1>9. lifecycle # p BY <1>1 DEF Exclusive, Locked, Starting, Stopping
<1>10. Exclusive' BY <1>1, <1>2, <1>6 DEF Exclusive, Locked, Starting, Stopping
<1>11. StartingFlag' BY <1>2, <1>6, <1>9 DEF StartingFlag, Building, Starting
<1>12. RebindingFlag'
    <2>1. ~Rebinder(p) /\ ~Rebinder(p)' BY <1>1, <1>2, <1>4 DEF Rebinder
    <2>2. \A q \in Procs : Rebinder(q)' <=> Rebinder(q) BY <2>1, <1>2, <1>4 DEF Rebinder
    <2>3. QED BY <2>2, <1>6 DEF RebindingFlag
<1>13. Numbers'
    <2>1. \A q \in Procs : q # p => Id(q)' = Id(q) BY <1>4 DEF Id
    <2>2. \A q \in Procs : q # p /\ pc'[q] # "idle" => Id(q)' \in 1..count
        BY <2>1, <1>2 DEF Numbers
    <2>3. QED BY <2>1, <2>2, <1>1, <1>2, <1>4 DEF Numbers
<1>14. Operations' BY <1>2, <1>4 DEF Operations, Starting, Stopping
<1>15. Results' BY <1>2, <1>4, <1>5 DEF Results, Starting, Stopping
<1>16. Unused' BY <1>1, <1>6 DEF Unused, Untouched, Types, Ids
<1>17. Fresh'
    <2>1. Untouched(count + 1) /\ count + 1 \notin dups BY <1>1 DEF Unused, Ids
    <2>2. QED BY <2>1, <1>2, <1>4, <1>6 DEF Fresh, Untouched, Unborn, Stopping, Id
<1>18. Installed'
    <2>1. slot # None => slot.id <= count' BY <1>1 DEF Installed, Types, EngineRec, Ids
    <2>2. QED BY <2>1, <1>2, <1>4, <1>6, <1>9 DEF Installed, Living, Stopping
<1>19. Begun' BY <1>2, <1>4, <1>6 DEF Begun, Living, Id
<1>20. Ending' BY <1>1, <1>2, <1>6 DEF Ending, Stopping, Types, EngineRec, Ids
<1>21. Dups'
    <2>1. \A q \in Procs : q # p => Own(q)' = Own(q) BY <1>2, <1>4, <1>6 DEF Own, Id
    <2>2. dups \subseteq Ids /\ Ids \subseteq Nat BY DEF Types, Ids
    <2>3. \A i \in dups : i <= count' BY <1>1, <2>2 DEF Dups
    <2>4. QED BY <2>1, <2>3, <1>2, <1>4, <1>6, <1>9 DEF Dups, Id
<1>22. Pumps' BY <1>2, <1>4, <1>6, <1>9 DEF Pumps, Id
<1>23. Nodes' BY <1>2, <1>4, <1>6, <1>9 DEF Nodes, Current, Holds, Id
<1>24. Port' BY <1>6 DEF Port
<1>25. QED
    BY <1>7, <1>8, <1>10, <1>11, <1>12, <1>13, <1>14, <1>15, <1>16, <1>17, <1>18, <1>19, <1>20, <1>21,
       <1>22, <1>23, <1>24

\* A thread outside LIFECYCLE that moves to another place outside disturbs nothing of the engine.
LEMMA OutsideMoves ==
    ASSUME IInv, NEW p \in Procs, pc[p] \in {"enter", "leave", "return", "unlock"},
           NEW l \in {"idle", "lock", "leave", "return"}, l = "lock" => pc[p] = "enter", pc' = [pc
               EXCEPT ![p] = l],
           lifecycle' = IF pc[p] = "unlock" THEN None ELSE lifecycle,
           call' = IF l = "idle" THEN [call EXCEPT ![p] = NoCall] ELSE call,
           UNCHANGED <<starting, slot, taken, count, node, told, port, degraded, broken, unjoined, pump, dups>>
    PROVE  /\ pc' \in [Procs -> Pc] /\ call' \in [Procs -> [op : Ops, cfg : Cfgs, tun : 0..MaxCalls]]
           /\ Exclusive' /\ StartingFlag' /\ Numbers' /\ Unused' /\ Fresh' /\ Installed' /\ Begun' /\ Ending'
           /\ Dups' /\ Pumps' /\ Nodes' /\ Port'
<1> USE DEF IInv
<1>1. /\ pc' \in [Procs -> Pc] /\ pc'[p] = l /\ \A q \in Procs : q # p => pc'[q] = pc[q]
    BY DEF Types, Pc
<1>2. /\ call' \in [Procs -> [op : Ops, cfg : Cfgs, tun : 0..MaxCalls]]
      /\ l # "idle" => call' = call
      /\ \A q \in Procs : q # p => call'[q] = call[q]
    BY NoCallTyped DEF Types
<1>3. lifecycle = p <=> pc[p] = "unlock" BY DEF Exclusive, Locked, Outside, Starting, Stopping
<1>4. lifecycle' \in Procs => lifecycle' = lifecycle /\ lifecycle # p BY <1>3
<1>5. lifecycle = p => \A q \in Procs : q # p => pc[q] \in Outside BY <1>3, Holder DEF Locked
<1>6. Exclusive' BY <1>1, <1>3 DEF Exclusive, Locked, Outside, Starting, Stopping
<1>7. StartingFlag' BY <1>1, <1>3, <1>4 DEF StartingFlag, Building, Starting, Outside
<1>8. Numbers' BY <1>1, <1>2 DEF Numbers, Id, Outside
<1>9. Unused' BY DEF Unused, Untouched
<1>10. Fresh' BY <1>1, <1>2 DEF Fresh, Untouched, Unborn, Stopping, Outside, Id
<1>11. Installed' BY <1>1, <1>2, <1>3, <1>4, <1>5 DEF Installed, Living, Stopping, Outside
<1>12. Begun' BY <1>1, <1>2 DEF Begun, Living, Outside, Id
<1>13. Ending' BY <1>1 DEF Ending, Stopping, Outside
<1>14. Dups'
    <2>1. \A q \in Procs : q # p => Own(q)' = Own(q) BY <1>1, <1>2 DEF Own, Id
    <2>2. lifecycle = p => Own(p) = {} BY <1>3 DEF Own, Stopping
    <2>3. QED BY <2>1, <2>2, <1>1, <1>2, <1>3, <1>4 DEF Dups, Id, Outside
<1>15. Pumps' BY <1>1, <1>2, <1>3, <1>4 DEF Pumps, Id
<1>16. Nodes' BY <1>1, <1>2, <1>3, <1>4 DEF Nodes, Current, Holds, Id, Living, Stopping
<1>17. Port' BY DEF Port
<1>18. QED BY <1>1, <1>2, <1>6, <1>7, <1>8, <1>9, <1>10, <1>11, <1>12, <1>13, <1>14, <1>15, <1>16, <1>17

\* network_changed is coalesced, or is the one rebind that is running.
LEMMA EnterRebindInv ==
    ASSUME IInv, NEW p \in Procs, EnterRebind(p)
    PROVE  IInv'
<1> USE DEF IInv
<1>1. /\ pc[p] = "enter"
      /\ UNCHANGED <<lifecycle, starting, slot, call, taken, count, node, told, port, degraded, broken,
             unjoined, pump, dups>>
      /\ \/ /\ rebinding /\ rebinding' = rebinding
            /\ ret' = [ret EXCEPT ![p] = "ok"] /\ pc' = [pc EXCEPT ![p] = "return"]
         \/ ~rebinding /\ rebinding' = TRUE /\ pc' = [pc EXCEPT ![p] = "lock"] /\ ret' = ret
    BY DEF EnterRebind, Goes, nodes
<1>2. \A q \in Procs : q # p => pc'[q] = pc[q] BY <1>1 DEF Types
<1>3. /\ pc' \in [Procs -> Pc] /\ call' \in [Procs -> [op : Ops, cfg : Cfgs, tun : 0..MaxCalls]]
      /\ Exclusive' /\ StartingFlag' /\ Numbers' /\ Unused' /\ Fresh' /\ Installed' /\ Begun' /\ Ending'
      /\ Dups' /\ Pumps' /\ Nodes' /\ Port'
    <2>1. /\ pc[p] \in {"enter", "leave", "return", "unlock"}
          /\ lifecycle' = IF pc[p] = "unlock" THEN None ELSE lifecycle
        BY <1>1 DEF Outside
    <2>2. PICK l \in {"return", "lock"} : pc' = [pc EXCEPT ![p] = l] BY <1>1
    <2>3. call' = IF l = "idle" THEN [call EXCEPT ![p] = NoCall] ELSE call BY <1>1
    <2>4. QED BY <1>1, <2>1, <2>2, <2>3, OutsideMoves
<1>4. Flags' BY Zenon DEF EnterRebind, Flags, nodes
<1>5. ret' \in [Procs -> {"none", "ok", "err"}] BY <1>1 DEF Types
<1>6. Types' BY <1>1, <1>3, <1>5 DEF Types
<1>7. call[p].op = "rebind" BY <1>1 DEF Operations
<1>8. RebindingFlag'
    <2>1. CASE ~rebinding
        <3>1. Rebinder(p)' BY <2>1, <1>1, <1>7 DEF Rebinder, Types
        <3>2. \A q \in Procs : q # p => ~Rebinder(q)' BY <2>1, <1>1, <1>2 DEF RebindingFlag, Rebinder
        <3>3. rebinding' BY <2>1, <1>1
        <3>4. QED BY <3>1, <3>2, <3>3 DEF RebindingFlag
    <2>2. CASE rebinding
        <3>1. pc'[p] = "return" /\ UNCHANGED <<rebinding, call>> BY <2>2, <1>1 DEF Types
        <3>2. \A q \in Procs :
                pc'[q] \in {"idle", "enter", "return"} <=> pc[q] \in {"idle", "enter", "return"}
            BY <3>1, <1>1, <1>2
        <3>3. QED BY <3>1, <3>2, SameRebinders
    <2>3. QED BY <2>1, <2>2
<1>9. Operations' BY <1>1, <1>7 DEF Operations, Types, Starting, Stopping
<1>10. Results' BY <1>1 DEF Results, Types, Starting, Stopping
<1>11. QED BY <1>3, <1>4, <1>6, <1>8, <1>9, <1>10

\* LIFECYCLE is taken when nobody has it.
LEMMA LockInv ==
    ASSUME IInv, NEW p \in Procs, Lock(p)
    PROVE  IInv'
<1> USE DEF IInv
<1>1. /\ pc' = [pc EXCEPT ![p] = Body(call[p].op)] /\ pc[p] = "lock" /\ call[p].op \in Ops
      /\ lifecycle = None /\ lifecycle' = p
    BY DEF Lock, Goes, Types
<1>2. \/ call[p].op = "start" /\ pc' = [pc EXCEPT ![p] = "check"]
      \/ call[p].op = "stop" /\ pc' = [pc EXCEPT ![p] = "take"]
      \/ call[p].op = "rebind" /\ pc' = [pc EXCEPT ![p] = "look"]
    BY <1>1, Bodies DEF Ops
<1>3. pc' \in [Procs -> Pc] BY <1>2 DEF Types, Pc, Starting, Stopping
<1>4. /\ \/ call[p].op = "start" /\ pc'[p] = "check"
         \/ call[p].op = "stop" /\ pc'[p] = "take"
         \/ call[p].op = "rebind" /\ pc'[p] = "look"
      /\ \A q \in Procs : q # p => pc'[q] = pc[q]
    BY <1>2 DEF Types
<1>5. UNCHANGED <<starting, rebinding, slot, call, taken, ret, count, node, told, port, degraded, broken,
          unjoined, pump, dups>>
    BY DEF Lock, nodes
<1>6. \A q \in Procs : pc[q] \in Outside
    BY <1>1 DEF Exclusive, Types, Outside, Locked, Pc, Starting, Stopping
<1>7. Flags' BY <1>5 DEF Flags
<1>8. Types' BY <1>1, <1>3, <1>5 DEF Types
<1>9. Exclusive' BY <1>1, <1>4, <1>6 DEF Exclusive, Outside, Locked, Starting, Stopping
<1>10. StartingFlag' BY <1>1, <1>4, <1>5, <1>6 DEF StartingFlag, Building, Starting, Outside
<1>11. RebindingFlag' BY <1>1, <1>4, <1>5, SameRebinders
<1>12. Numbers' BY <1>1, <1>4, <1>5 DEF Numbers, Id
<1>13. Operations' BY <1>4, <1>5, <1>6 DEF Operations, Outside, Starting, Stopping
<1>14. Results' BY <1>1, <1>4, <1>5, <1>6 DEF Results, Outside, Starting, Stopping
<1>15. Unused' BY <1>5 DEF Unused, Untouched
<1>16. Fresh' BY <1>1, <1>4, <1>5, <1>6 DEF Fresh, Unborn, Untouched, Stopping, Outside, Id
<1>17. Installed' BY <1>1, <1>4, <1>5, <1>6 DEF Installed, Outside, Living, Stopping
<1>18. Begun' BY <1>1, <1>4, <1>5, <1>6 DEF Begun, Outside, Living
<1>19. Ending' BY <1>1, <1>4, <1>5, <1>6 DEF Ending, Outside, Stopping
<1>20. Dups' BY <1>1, <1>4, <1>5, <1>6 DEF Dups, Outside, Own, Stopping
<1>21. Pumps' BY <1>1, <1>4, <1>5 DEF Pumps
<1>22. Nodes' BY <1>1, <1>4, <1>5 DEF Nodes, Current
<1>23. Port' BY <1>5 DEF Port
<1>24. QED
    BY <1>7, <1>8, <1>9, <1>10, <1>11, <1>12, <1>13, <1>14, <1>15, <1>16, <1>17, <1>18, <1>19, <1>20,
       <1>21, <1>22, <1>23

\* The guard is dropped.
LEMMA UnlockInv ==
    ASSUME IInv, NEW p \in Procs, Unlock(p)
    PROVE  IInv'
<1> USE DEF IInv
<1>1. /\ pc[p] = "unlock" /\ lifecycle' = None
      /\ UNCHANGED <<starting, rebinding, slot, taken, count, node, told, port, degraded, broken, unjoined,
             pump, dups>>
      /\ \/ call[p].op = "rebind" /\ pc' = [pc EXCEPT ![p] = "leave"] /\ UNCHANGED <<call, ret>>
         \/ /\ call[p].op # "rebind" /\ pc' = [pc EXCEPT ![p] = "idle"]
            /\ call' = [call EXCEPT ![p] = NoCall] /\ ret' = [ret EXCEPT ![p] = "none"]
    BY DEF Unlock, Leaves, Goes, nodes
<1>2. /\ pc' \in [Procs -> Pc] /\ call' \in [Procs -> [op : Ops, cfg : Cfgs, tun : 0..MaxCalls]]
      /\ Exclusive' /\ StartingFlag' /\ Numbers' /\ Unused' /\ Fresh' /\ Installed' /\ Begun' /\ Ending'
      /\ Dups' /\ Pumps' /\ Nodes' /\ Port'
    <2>1. /\ pc[p] \in {"enter", "leave", "return", "unlock"}
          /\ lifecycle' = IF pc[p] = "unlock" THEN None ELSE lifecycle
        BY <1>1
    <2>2. PICK l \in {"idle", "leave"} :
             pc' = [pc EXCEPT ![p] = l] /\ call' = IF l = "idle" THEN [call EXCEPT ![p] = NoCall] ELSE call
        BY <1>1
    <2>3. QED BY <1>1, <2>1, <2>2, OutsideMoves
<1>3. Flags' BY <1>1 DEF Flags
<1>4. ret' \in [Procs -> {"none", "ok", "err"}] BY <1>1 DEF Types
<1>5. Types' BY <1>1, <1>2, <1>4 DEF Types
<1>6. RebindingFlag'
    <2>1. CASE call[p].op = "rebind"
        BY <1>1, <2>1, SameRebinders DEF Types
    <2>2. CASE call[p].op # "rebind"
        <3>1. ~Rebinder(p) /\ ~Rebinder(p)' BY <2>2, <1>1 DEF Rebinder, Types
        <3>2. \A q \in Procs : q # p => (Rebinder(q)' <=> Rebinder(q)) BY <2>2, <1>1 DEF Rebinder, Types
        <3>3. QED BY <3>1, <3>2, <1>1 DEF RebindingFlag
    <2>3. QED BY <2>1, <2>2
<1>7. Operations' BY <1>1 DEF Operations, Types, Starting, Stopping
<1>8. Results' BY <1>1 DEF Results, Types, Starting, Stopping
<1>9. QED BY <1>2, <1>3, <1>5, <1>6, <1>7, <1>8

\* A rebind is over, or a coalesced one returns.
LEMMA RebindReturnsInv ==
    ASSUME IInv, NEW p \in Procs, LeaveRebind(p) \/ Return(p)
    PROVE  IInv'
<1> USE DEF IInv
<1>1. /\ (pc[p] = "leave" /\ rebinding' = FALSE) \/ (pc[p] = "return" /\ rebinding' = rebinding)
      /\ UNCHANGED <<lifecycle, starting, slot, taken, count, node, told, port, degraded, broken, unjoined,
             pump, dups>>
      /\ pc' = [pc EXCEPT ![p] = "idle"]
      /\ call' = [call EXCEPT ![p] = NoCall] /\ ret' = [ret EXCEPT ![p] = "none"]
    <2>1. CASE LeaveRebind(p) BY <2>1 DEF LeaveRebind, Leaves, Goes, nodes
    <2>2. CASE Return(p) BY <2>2 DEF Return, Leaves, Goes, nodes, lock
    <2>3. QED BY <2>1, <2>2
<1>2. /\ pc' \in [Procs -> Pc] /\ call' \in [Procs -> [op : Ops, cfg : Cfgs, tun : 0..MaxCalls]]
      /\ Exclusive' /\ StartingFlag' /\ Numbers' /\ Unused' /\ Fresh' /\ Installed' /\ Begun' /\ Ending'
      /\ Dups' /\ Pumps' /\ Nodes' /\ Port'
    <2>1. /\ pc[p] \in {"enter", "leave", "return", "unlock"}
          /\ lifecycle' = IF pc[p] = "unlock" THEN None ELSE lifecycle
        BY <1>1 DEF Outside
    <2>2. QED BY <1>1, <2>1, OutsideMoves
<1>3. Flags' BY Zenon DEF LeaveRebind, Return, Flags, nodes, lock
<1>4. ret' \in [Procs -> {"none", "ok", "err"}] BY <1>1 DEF Types
<1>5. Types' BY <1>1, <1>2, <1>4 DEF Types
<1>6. RebindingFlag'
    <2>1. ~Rebinder(p)' /\ \A q \in Procs : q # p => (Rebinder(q)' <=> Rebinder(q))
        BY <1>1 DEF Rebinder, Types
    <2>2. CASE pc[p] = "return"
        <3>1. ~Rebinder(p) BY <2>2 DEF Rebinder
        <3>2. rebinding' = rebinding BY <2>2, <1>1
        <3>3. QED BY <2>1, <3>1, <3>2 DEF RebindingFlag
    <2>3. CASE pc[p] = "leave"
        <3>1. Rebinder(p) BY <2>3 DEF Rebinder, Operations
        <3>2. \A q \in Procs : ~Rebinder(q)' BY <2>1, <3>1 DEF RebindingFlag
        <3>3. ~rebinding' BY <2>3, <1>1
        <3>4. QED BY <3>2, <3>3 DEF RebindingFlag
    <2>4. QED BY <1>1, <2>2, <2>3
<1>7. Operations' BY <1>1 DEF Operations, Types, Starting, Stopping
<1>8. Results' BY <1>1 DEF Results, Types, Starting, Stopping
<1>9. QED BY <1>2, <1>3, <1>5, <1>6, <1>7, <1>8

-----------------------------------------------------------------------------
(* start_locked, stop_locked and network_changed, under LIFECYCLE.          *)

\* StartCheck refuses beside an engine or a start, or raises STARTING.
LEMMA StartCheckInv ==
    ASSUME IInv, NEW p \in Procs, StartCheck(p)
    PROVE  IInv'
<1> USE DEF IInv
<1>1. /\ lifecycle = p /\ Id(p) \in Ids /\ Id(p) <= count
      /\ \A q \in Procs : q # p => /\ pc[q] \in Outside
                                   /\ pc[q] # "idle" => Id(q) \in Ids /\ Id(q) # Id(p)
    BY Holder DEF StartCheck, Locked, Starting, Stopping
<1>2. pc[p] = "check" /\ (pc' = [pc EXCEPT ![p] = "unlock"] \/ pc' = [pc EXCEPT ![p] = "spawn"])
    BY DEF StartCheck, Only, Goes
<1>3. /\ pc' \in [Procs -> Pc] /\ pc'[p] \in {"unlock", "spawn"}
      /\ \A q \in Procs : q # p => pc'[q] = pc[q]
    BY <1>2 DEF Types, Pc, Starting, Stopping
<1>4. UNCHANGED <<lifecycle, rebinding, slot, call, taken, count, node, told, port, degraded, broken,
   unjoined, pump, dups>>
    BY DEF StartCheck, Only, lock, procs, nodes
<1>5. \/ /\ slot # None \/ starting
         /\ pc' = [pc EXCEPT ![p] = "unlock"] /\ starting' = starting /\ ret' = [ret EXCEPT ![p] = "err"]
      \/ slot = None /\ ~starting /\ pc' = [pc EXCEPT ![p] = "spawn"] /\ starting' = TRUE /\ ret' = ret
    BY <1>1, <1>2 DEF StartCheck, Only, Goes
<1>6. /\ pc'[p] = "unlock" => (slot # None \/ starting) /\ starting' = starting /\ ret'[p] = "err"
      /\ pc'[p] = "spawn" => slot = None /\ ~starting /\ starting' /\ ret' = ret
    BY <1>1, <1>2, <1>5 DEF Types
<1>7. /\ ret' \in [Procs -> {"none", "ok", "err"}]
      /\ \A q \in Procs : q # p => ret'[q] = ret[q]
    BY <1>1, <1>2, <1>5 DEF Types
<1>8. Flags' BY <1>1, Zenon DEF Flags, StartCheck, Only, lock, procs, nodes
<1>9. Types' BY <1>1, <1>2, <1>3, <1>4, <1>5, <1>6, <1>7 DEF Types
<1>10. Exclusive' BY <1>1, <1>2, <1>3, <1>4 DEF Exclusive, Types, Outside, Locked, Starting,
   Stopping
<1>11. StartingFlag' BY <1>1, <1>2, <1>3, <1>4, <1>5, <1>6, <1>7 DEF StartingFlag, Types, Outside,
   Building, Starting
<1>12. RebindingFlag' BY <1>1, <1>2, <1>3, <1>4, SameRebinders DEF Outside
<1>13. Numbers' BY <1>1, <1>2, <1>3, <1>4 DEF Numbers, Types, Id
<1>14. Operations' BY <1>1, <1>2, <1>3, <1>4 DEF Operations, Types, Outside, Starting, Stopping
<1>15. Results' BY <1>1, <1>2, <1>3, <1>4, <1>5, <1>6, <1>7 DEF Results, Types, Outside, Starting,
   Stopping
<1>16. Unused' BY <1>1, <1>2, <1>3, <1>4, <1>5, <1>6, <1>7 DEF Unused, Flags, Types, Untouched,
   Ids, Installed, Ending
<1>17. Fresh' BY <1>1, <1>2, <1>3, <1>4, <1>5, <1>6, <1>7 DEF Fresh, Flags, Types, Outside, Id,
   Unborn, Untouched, Stopping, Installed, Ending
<1>18. Installed' BY <1>1, <1>2, <1>3, <1>4, <1>5, <1>6, <1>7 DEF Installed, Types, Outside, Id,
   Living, Stopping
<1>19. Begun' BY <1>1, <1>2, <1>3, <1>4, <1>5, <1>6, <1>7 DEF Begun, Flags, Types, Outside, Id,
   Living, Fresh, Unborn, Untouched
<1>20. Ending' BY <1>1, <1>2, <1>3, <1>4, <1>5, <1>6, <1>7 DEF Ending, Types, Outside, Stopping
<1>21. Dups' BY <1>1, <1>2, <1>3, <1>4, <1>5, <1>6, <1>7 DEF Dups, Types, Outside, Id, Own,
   Stopping, Installed, Fresh, Unborn, Living, Ending
<1>22. Pumps' BY <1>1, <1>2, <1>3, <1>4, <1>5, <1>6, <1>7 DEF Pumps, Types, Outside, Id,
   Installed, Living, Ending, Stopping, Begun
<1>23. Nodes' BY <1>1, <1>2, <1>3, <1>4, <1>5, <1>6, <1>7 DEF Nodes, Flags, Types, Outside, Id,
   Current, Holds, Living, Stopping, Installed, Begun, Ending, Fresh, Unborn, Untouched
<1>24. Port' BY <1>1, <1>2, <1>3, <1>4, <1>5, <1>6, <1>7 DEF Port, Fresh, Unborn, Untouched, Ids,
   Types
<1>25. QED BY <1>8, <1>9, <1>10, <1>11, <1>12, <1>13, <1>14, <1>15, <1>16, <1>17, <1>18, <1>19,
   <1>20, <1>21, <1>22, <1>23, <1>24

\* The node thread is spawned under a number nothing used before.
LEMMA StartSpawnInv ==
    ASSUME IInv, NEW p \in Procs, StartSpawn(p)
    PROVE  IInv'
<1> USE DEF IInv
<1>1. /\ lifecycle = p /\ Id(p) \in Ids /\ Id(p) <= count
      /\ \A q \in Procs : q # p => /\ pc[q] \in Outside
                                   /\ pc[q] # "idle" => Id(q) \in Ids /\ Id(q) # Id(p)
    BY Holder DEF StartSpawn, Locked, Starting, Stopping
<1>2. pc[p] = "spawn" /\ (pc' = [pc EXCEPT ![p] = "ready"] \/ pc' = [pc EXCEPT ![p] = "finish"])
    BY DEF StartSpawn, Only, Goes
<1>3. /\ pc' \in [Procs -> Pc] /\ pc'[p] \in {"ready", "finish"}
      /\ \A q \in Procs : q # p => pc'[q] = pc[q]
    BY <1>2 DEF Types, Pc, Starting, Stopping
<1>4. UNCHANGED <<lifecycle, starting, rebinding, slot, call, taken, ret, count, told, port,
   degraded, broken, unjoined, pump, dups>>
    BY DEF StartSpawn, Only, lock, procs, nodes
<1>5. \/ node' = node /\ pc'[p] = "finish"
      \/ node' = [node EXCEPT ![Id(p)] = "starting"] /\ pc'[p] = "ready"
    BY <1>1, <1>2 DEF StartSpawn, Only, Goes, Types
<1>6. node' \in [Ids -> {"none", "starting", "up", "gone"}]
    BY <1>1, <1>2, <1>5 DEF Types
<1>7. /\ pc'[p] = "ready" => node'[Id(p)] = "starting" /\ \A i \in Ids : i # Id(p) => node'[i] = node[i]
      /\ pc'[p] = "finish" => node' = node
    BY <1>1, <1>2, <1>5 DEF Types
<1>8. Flags' BY <1>1, Zenon DEF Flags, StartSpawn, Only, lock, procs, nodes
<1>9. Types' BY <1>1, <1>2, <1>3, <1>4, <1>5, <1>6, <1>7 DEF Types
<1>10. Exclusive' BY <1>1, <1>2, <1>3, <1>4 DEF Exclusive, Types, Outside, Locked, Starting,
   Stopping
<1>11. StartingFlag' BY <1>1, <1>2, <1>3, <1>4, <1>5, <1>6, <1>7 DEF StartingFlag, Types, Outside,
   Building, Starting
<1>12. RebindingFlag' BY <1>1, <1>2, <1>3, <1>4, SameRebinders DEF Outside
<1>13. Numbers' BY <1>1, <1>2, <1>3, <1>4 DEF Numbers, Types, Id
<1>14. Operations' BY <1>1, <1>2, <1>3, <1>4 DEF Operations, Types, Outside, Starting, Stopping
<1>15. Results' BY <1>1, <1>2, <1>3, <1>4, <1>5, <1>6, <1>7 DEF Results, Types, Outside, Starting,
   Stopping
<1>16. Unused' BY <1>1, <1>2, <1>3, <1>4, <1>5, <1>6, <1>7 DEF Unused, Flags, Types, Untouched,
   Ids, Installed, Ending
<1>17. Fresh' BY <1>1, <1>2, <1>3, <1>4, <1>5, <1>6, <1>7 DEF Fresh, Flags, Types, Outside, Id,
   Unborn, Untouched, Stopping, Installed, Ending
<1>18. Installed' BY <1>1, <1>2, <1>3, <1>4, <1>5, <1>6, <1>7 DEF Installed, Types, Outside, Id,
   Living, Stopping
<1>19. Begun' BY <1>1, <1>2, <1>3, <1>4, <1>5, <1>6, <1>7 DEF Begun, Flags, Types, Outside, Id,
   Living, Fresh, Unborn, Untouched
<1>20. Ending' BY <1>1, <1>2, <1>3, <1>4, <1>5, <1>6, <1>7 DEF Ending, Types, Outside, Stopping
<1>21. Dups' BY <1>1, <1>2, <1>3, <1>4, <1>5, <1>6, <1>7 DEF Dups, Types, Outside, Id, Own,
   Stopping, Installed, Fresh, Unborn, Living, Ending
<1>22. Pumps' BY <1>1, <1>2, <1>3, <1>4, <1>5, <1>6, <1>7 DEF Pumps, Types, Outside, Id,
   Installed, Living, Ending, Stopping, Begun
<1>23. Nodes' BY <1>1, <1>2, <1>3, <1>4, <1>5, <1>6, <1>7 DEF Nodes, Flags, Types, Outside, Id,
   Current, Holds, Living, Stopping, Installed, Begun, Ending, Fresh, Unborn, Untouched
<1>24. Port' BY <1>1, <1>2, <1>3, <1>4, <1>5, <1>6, <1>7 DEF Port, Fresh, Unborn, Untouched, Ids,
   Types
<1>25. QED BY <1>8, <1>9, <1>10, <1>11, <1>12, <1>13, <1>14, <1>15, <1>16, <1>17, <1>18, <1>19,
   <1>20, <1>21, <1>22, <1>23, <1>24

\* The node is up, its thread is joined, or it is given up on.
LEMMA StartReadyInv ==
    ASSUME IInv, NEW p \in Procs, StartReady(p)
    PROVE  IInv'
<1> USE DEF IInv
<1>1. /\ lifecycle = p /\ Id(p) \in Ids /\ Id(p) <= count
      /\ \A q \in Procs : q # p => /\ pc[q] \in Outside
                                   /\ pc[q] # "idle" => Id(q) \in Ids /\ Id(q) # Id(p)
    BY Holder DEF StartReady, Locked, Starting, Stopping
<1>2. pc[p] = "ready" /\ (pc' = [pc EXCEPT ![p] = "dup"] \/ pc' = [pc EXCEPT ![p] = "finish"])
    BY DEF StartReady, Only, Goes
<1>3. /\ pc' \in [Procs -> Pc] /\ pc'[p] \in {"dup", "finish"}
      /\ \A q \in Procs : q # p => pc'[q] = pc[q]
    BY <1>2 DEF Types, Pc, Starting, Stopping
<1>4. UNCHANGED <<lifecycle, starting, rebinding, slot, call, taken, ret, count, node, port,
   degraded, broken, pump, dups>>
    BY DEF StartReady, Only, lock, procs, nodes
<1>5. \/ UNCHANGED <<told, unjoined>> /\ (pc'[p] = "dup" => Ready(Id(p))) /\ (pc'[p] = "finish" => node[Id(p)] = "gone")
      \/ pc'[p] = "finish" /\ told' = [told EXCEPT ![Id(p)] = TRUE] /\ unjoined' = unjoined \cup {Id(p)}
    BY <1>1, <1>2 DEF StartReady, Failed, Only, Goes, Types
<1>6. \/ UNCHANGED <<told, unjoined>> /\ (pc'[p] = "dup" => Ready(Id(p))) /\ (pc'[p] = "finish" => node[Id(p)] = "gone")
      \/ pc'[p] = "finish" /\ told'[Id(p)] /\ Id(p) \in unjoined' 
    BY <1>1, <1>2, <1>5 DEF Flags
<1>7. \A i \in Ids : i # Id(p) => told'[i] = told[i]
    BY <1>1, <1>2, <1>5 DEF Flags
<1>8. unjoined' \subseteq Ids /\ \A i \in Ids : i # Id(p) => (i \in unjoined' <=> i \in unjoined)
    BY <1>1, <1>2, <1>5 DEF Types
<1>9. Flags' BY <1>1, Zenon DEF Flags, StartReady, Only, lock, procs, nodes
<1>10. Types' BY <1>1, <1>2, <1>3, <1>4, <1>5, <1>6, <1>7, <1>8 DEF Types
<1>11. Exclusive' BY <1>1, <1>2, <1>3, <1>4 DEF Exclusive, Types, Outside, Locked, Starting,
   Stopping
<1>12. StartingFlag' BY <1>1, <1>2, <1>3, <1>4, <1>5, <1>6, <1>7, <1>8 DEF StartingFlag, Types,
   Outside, Building, Starting
<1>13. RebindingFlag' BY <1>1, <1>2, <1>3, <1>4, SameRebinders DEF Outside
<1>14. Numbers' BY <1>1, <1>2, <1>3, <1>4 DEF Numbers, Types, Id
<1>15. Operations' BY <1>1, <1>2, <1>3, <1>4 DEF Operations, Types, Outside, Starting, Stopping
<1>16. Results' BY <1>1, <1>2, <1>3, <1>4, <1>5, <1>6, <1>7, <1>8 DEF Results, Types, Outside,
   Starting, Stopping
<1>17. Unused' BY <1>1, <1>2, <1>3, <1>4, <1>5, <1>6, <1>7, <1>8 DEF Unused, Flags, Types,
   Untouched, Ids, Installed, Ending
<1>18. Fresh' BY <1>1, <1>2, <1>3, <1>4, <1>5, <1>6, <1>7, <1>8 DEF Fresh, Flags, Types, Outside,
   Id, Unborn, Untouched, Stopping, Installed, Ending
<1>19. Installed' BY <1>1, <1>2, <1>3, <1>4, <1>5, <1>6, <1>7, <1>8 DEF Installed, Types, Outside,
   Id, Living, Stopping
<1>20. Begun' BY <1>1, <1>2, <1>3, <1>4, <1>5, <1>6, <1>7, <1>8 DEF Begun, Flags, Types, Outside,
   Id, Living, Fresh, Unborn, Untouched
<1>21. Ending' BY <1>1, <1>2, <1>3, <1>4, <1>5, <1>6, <1>7, <1>8 DEF Ending, Types, Outside,
   Stopping
<1>22. Dups' BY <1>1, <1>2, <1>3, <1>4, <1>5, <1>6, <1>7, <1>8 DEF Dups, Types, Outside, Id, Own,
   Stopping, Installed, Fresh, Unborn, Living, Ending
<1>23. Pumps' BY <1>1, <1>2, <1>3, <1>4, <1>5, <1>6, <1>7, <1>8 DEF Pumps, Types, Outside, Id,
   Installed, Living, Ending, Stopping, Begun
<1>24. Nodes'
    <2>1. CASE UNCHANGED <<told, unjoined>> /\ (pc'[p] = "dup" => Ready(Id(p))) /\ (pc'[p] = "finish" => node[Id(p)] = "gone")
        BY <2>1, <1>1, <1>2, <1>3, <1>4
           DEF Nodes, Types, Outside, Id, Current, Holds, Living, Stopping, Installed
    <2>2. CASE pc'[p] = "finish" /\ told'[Id(p)] /\ Id(p) \in unjoined'
        <3>1. \A i \in Ids : node'[i] \in {"starting", "up"} => i \in unjoined' \/ Current(i)'
            BY <2>2, <1>1, <1>2, <1>3, <1>4, <1>8 DEF Nodes, Types, Current, Holds, Living, Stopping, Id
        <3>2. \A i \in unjoined' : told'[i]
            BY <2>2, <1>7, <1>8 DEF Nodes
        <3>3. \A i \in Ids : told'[i] => node'[i] # "none"
            BY <1>1, <1>2, <1>4, <1>7 DEF Nodes, Begun, Living, Id
        <3>4. \A i \in broken' : node'[i] = "gone" BY <1>4 DEF Nodes
        <3>5. QED BY <3>1, <3>2, <3>3, <3>4 DEF Nodes
    <2>3. QED BY <1>6, <2>1, <2>2
<1>25. Port' BY <1>1, <1>2, <1>3, <1>4, <1>5, <1>6, <1>7, <1>8 DEF Port, Fresh, Unborn, Untouched,
   Ids, Types
<1>26. QED BY <1>9, <1>10, <1>11, <1>12, <1>13, <1>14, <1>15, <1>16, <1>17, <1>18, <1>19, <1>20,
   <1>21, <1>22, <1>23, <1>24, <1>25

\* The dup is opened, or the node told.
LEMMA StartDupInv ==
    ASSUME IInv, NEW p \in Procs, StartDup(p)
    PROVE  IInv'
<1> USE DEF IInv
<1>1. /\ lifecycle = p /\ Id(p) \in Ids /\ Id(p) <= count
      /\ \A q \in Procs : q # p => /\ pc[q] \in Outside
                                   /\ pc[q] # "idle" => Id(q) \in Ids /\ Id(q) # Id(p)
    BY Holder DEF StartDup, Locked, Starting, Stopping
<1>2. pc[p] = "dup" /\ (pc' = [pc EXCEPT ![p] = "threads"] \/ pc' = [pc EXCEPT ![p] = "joinFailed"])
    BY DEF StartDup, Only, Goes
<1>3. /\ pc' \in [Procs -> Pc] /\ pc'[p] \in {"threads", "joinFailed"}
      /\ \A q \in Procs : q # p => pc'[q] = pc[q]
    BY <1>2 DEF Types, Pc, Starting, Stopping
<1>4. UNCHANGED <<lifecycle, starting, rebinding, slot, call, taken, ret, count, node, port,
   degraded, broken, unjoined, pump>>
    BY DEF StartDup, Only, lock, procs, nodes
<1>5. \/ pc'[p] = "threads" /\ dups' = dups \cup {Id(p)} /\ told' = told
      \/ pc'[p] = "joinFailed" /\ dups' = dups /\ told' = [told EXCEPT ![Id(p)] = TRUE]
    BY <1>1, <1>2 DEF StartDup, Only, Goes, Types
<1>6. \/ pc'[p] = "threads" /\ dups' = dups \cup {Id(p)} /\ told' = told
      \/ pc'[p] = "joinFailed" /\ dups' = dups /\ told'[Id(p)]
    BY <1>1, <1>2, <1>5 DEF Flags
<1>7. \A i \in Ids : i # Id(p) => told'[i] = told[i]
    BY <1>1, <1>2, <1>5 DEF Flags
<1>8. Flags' BY <1>1, Zenon DEF Flags, StartDup, Only, lock, procs, nodes
<1>9. Types' BY <1>1, <1>2, <1>3, <1>4, <1>5, <1>6, <1>7 DEF Types
<1>10. Exclusive' BY <1>1, <1>2, <1>3, <1>4 DEF Exclusive, Types, Outside, Locked, Starting,
   Stopping
<1>11. StartingFlag' BY <1>1, <1>2, <1>3, <1>4, <1>5, <1>6, <1>7 DEF StartingFlag, Types, Outside,
   Building, Starting
<1>12. RebindingFlag' BY <1>1, <1>2, <1>3, <1>4, SameRebinders DEF Outside
<1>13. Numbers' BY <1>1, <1>2, <1>3, <1>4 DEF Numbers, Types, Id
<1>14. Operations' BY <1>1, <1>2, <1>3, <1>4 DEF Operations, Types, Outside, Starting, Stopping
<1>15. Results' BY <1>1, <1>2, <1>3, <1>4, <1>5, <1>6, <1>7 DEF Results, Types, Outside, Starting,
   Stopping
<1>16. Unused'
    BY <1>1, <1>4, <1>6, <1>7 DEF Unused, Untouched, Types, Ids
<1>17. Fresh' BY <1>1, <1>2, <1>3, <1>4, <1>5, <1>6, <1>7 DEF Fresh, Flags, Types, Outside, Id,
   Unborn, Untouched, Stopping, Installed, Ending
<1>18. Installed' BY <1>1, <1>2, <1>3, <1>4, <1>5, <1>6, <1>7 DEF Installed, Types, Outside, Id,
   Living, Stopping
<1>19. Begun' BY <1>1, <1>2, <1>3, <1>4, <1>5, <1>6, <1>7 DEF Begun, Flags, Types, Outside, Id,
   Living, Fresh, Unborn, Untouched
<1>20. Ending' BY <1>1, <1>2, <1>3, <1>4, <1>5, <1>6, <1>7 DEF Ending, Types, Outside, Stopping
<1>21. Dups' BY <1>1, <1>2, <1>3, <1>4, <1>5, <1>6, <1>7 DEF Dups, Types, Outside, Id, Own,
   Stopping, Installed, Fresh, Unborn, Living, Ending
<1>22. Pumps' BY <1>1, <1>2, <1>3, <1>4, <1>5, <1>6, <1>7 DEF Pumps, Types, Outside, Id,
   Installed, Living, Ending, Stopping, Begun
<1>23. Nodes' BY <1>1, <1>2, <1>3, <1>4, <1>5, <1>6, <1>7 DEF Nodes, Flags, Types, Outside, Id,
   Current, Holds, Living, Stopping, Installed, Begun, Ending, Fresh, Unborn, Untouched
<1>24. Port' BY <1>1, <1>2, <1>3, <1>4, <1>5, <1>6, <1>7 DEF Port, Fresh, Unborn, Untouched, Ids,
   Types
<1>25. QED BY <1>8, <1>9, <1>10, <1>11, <1>12, <1>13, <1>14, <1>15, <1>16, <1>17, <1>18, <1>19,
   <1>20, <1>21, <1>22, <1>23, <1>24

\* The pump is up, or a reader is to be joined, or the start is given up on and its dup closed.
LEMMA StartThreadsInv ==
    ASSUME IInv, NEW p \in Procs, StartThreads(p) \/ StartUndo(p)
    PROVE  IInv'
<1> USE DEF IInv
<1>1. /\ lifecycle = p /\ Id(p) \in Ids /\ Id(p) <= count
      /\ \A q \in Procs : q # p => /\ pc[q] \in Outside
                                   /\ pc[q] # "idle" => Id(q) \in Ids /\ Id(q) # Id(p)
    BY Holder DEF StartThreads, StartUndo, Locked, Starting, Stopping
<1>2. /\ pc[p] \in {"threads", "threadsUndo"}
      /\ \E l \in {"install", "finish", "threadsUndo"} : pc' = [pc EXCEPT ![p] = l]
    BY DEF StartThreads, StartUndo, ThreadsFail, Only, Goes
<1>3. /\ pc' \in [Procs -> Pc] /\ pc'[p] \in {"install", "finish", "threadsUndo"}
      /\ \A q \in Procs : q # p => pc'[q] = pc[q]
    BY <1>2 DEF Types, Pc, Starting, Stopping
<1>4. UNCHANGED <<lifecycle, starting, rebinding, slot, call, taken, ret, count, node, port,
   degraded, broken>>
    BY DEF StartThreads, StartUndo, ThreadsFail, Only, lock, procs, nodes
<1>5. \/ pc'[p] = "install" /\ pump' = [pump EXCEPT ![Id(p)] = "up"] /\ UNCHANGED <<told, unjoined, dups>>
      \/ /\ pc'[p] = "finish" /\ \E l \in {"none", "left"} : pump' = [pump EXCEPT ![Id(p)] = l]
         /\ told' = [told EXCEPT ![Id(p)] = TRUE]
         /\ unjoined' = unjoined \cup {Id(p)} /\ dups' = dups \ {Id(p)}
      \/ pc'[p] = "threadsUndo" /\ UNCHANGED <<pump, told, unjoined, dups>>
    BY <1>1, <1>2 DEF StartThreads, StartUndo, ThreadsFail, Only, Goes, Types
<1>6. \/ pc'[p] = "install" /\ pump'[Id(p)] = "up" /\ UNCHANGED <<told, unjoined, dups>>
      \/ /\ pc'[p] = "finish" /\ pump'[Id(p)] # "up" /\ told'[Id(p)]
         /\ unjoined' = unjoined \cup {Id(p)} /\ dups' = dups \ {Id(p)}
      \/ pc'[p] = "threadsUndo" /\ UNCHANGED <<pump, told, unjoined, dups>>
    BY <1>1, <1>2, <1>5 DEF Flags, Types
<1>7. \A i \in Ids : i # Id(p) => told'[i] = told[i]
    BY <1>1, <1>2, <1>5 DEF Flags
<1>8. /\ pump' \in [Ids -> {"none", "up", "ended", "left"}]
      /\ \A i \in Ids : i # Id(p) => pump'[i] = pump[i]
    BY <1>1, <1>2, <1>5 DEF Types
<1>9. Flags' BY <1>1, Zenon DEF Flags, StartThreads, StartUndo, ThreadsFail, Only, lock, procs, nodes
<1>10. Types' BY <1>1, <1>2, <1>3, <1>4, <1>5, <1>6, <1>7, <1>8 DEF Types
<1>11. Exclusive' BY <1>1, <1>2, <1>3, <1>4 DEF Exclusive, Types, Outside, Locked, Starting,
   Stopping
<1>12. StartingFlag' BY <1>1, <1>2, <1>3, <1>4, <1>5, <1>6, <1>7, <1>8 DEF StartingFlag, Types,
   Outside, Building, Starting
<1>13. RebindingFlag' BY <1>1, <1>2, <1>3, <1>4, SameRebinders DEF Outside
<1>14. Numbers' BY <1>1, <1>2, <1>3, <1>4 DEF Numbers, Types, Id
<1>15. Operations' BY <1>1, <1>2, <1>3, <1>4 DEF Operations, Types, Outside, Starting, Stopping
<1>16. Results' BY <1>1, <1>2, <1>3, <1>4, <1>5, <1>6, <1>7, <1>8 DEF Results, Types, Outside,
   Starting, Stopping
<1>17. Unused' BY <1>1, <1>2, <1>3, <1>4, <1>5, <1>6, <1>7, <1>8 DEF Unused, Flags, Types,
   Untouched, Ids, Installed, Ending
<1>18. Fresh' BY <1>1, <1>2, <1>3, <1>4, <1>5, <1>6, <1>7, <1>8 DEF Fresh, Flags, Types, Outside,
   Id, Unborn, Untouched, Stopping, Installed, Ending
<1>19. Installed' BY <1>1, <1>2, <1>3, <1>4, <1>5, <1>6, <1>7, <1>8 DEF Installed, Types, Outside,
   Id, Living, Stopping
<1>20. Begun' BY <1>1, <1>2, <1>3, <1>4, <1>5, <1>6, <1>7, <1>8 DEF Begun, Flags, Types, Outside,
   Id, Living, Fresh, Unborn, Untouched
<1>21. Ending' BY <1>1, <1>2, <1>3, <1>4, <1>5, <1>6, <1>7, <1>8 DEF Ending, Types, Outside,
   Stopping
<1>22. Dups' BY <1>1, <1>2, <1>3, <1>4, <1>5, <1>6, <1>7, <1>8 DEF Dups, Types, Outside, Id, Own,
   Stopping, Installed, Fresh, Unborn, Living, Ending
<1>23. Pumps' BY <1>1, <1>2, <1>3, <1>4, <1>5, <1>6, <1>7, <1>8 DEF Pumps, Types, Outside, Id,
   Installed, Living, Ending, Stopping, Begun
<1>24. Nodes' BY <1>1, <1>2, <1>3, <1>4, <1>5, <1>6, <1>7, <1>8 DEF Nodes, Flags, Types, Outside,
   Id, Current, Holds, Living, Stopping, Installed, Begun, Ending, Fresh, Unborn, Untouched
<1>25. Port' BY <1>1, <1>2, <1>3, <1>4, <1>5, <1>6, <1>7, <1>8 DEF Port, Fresh, Unborn, Untouched,
   Ids, Types
<1>26. QED BY <1>9, <1>10, <1>11, <1>12, <1>13, <1>14, <1>15, <1>16, <1>17, <1>18, <1>19, <1>20,
   <1>21, <1>22, <1>23, <1>24, <1>25

\* The engine is put in the slot: its node is up, not told, and its pump is up.
LEMMA StartInstallInv ==
    ASSUME IInv, NEW p \in Procs, StartInstall(p)
    PROVE  IInv'
<1> USE DEF IInv
<1>1. /\ lifecycle = p /\ Id(p) \in Ids /\ Id(p) <= count
      /\ \A q \in Procs : q # p => /\ pc[q] \in Outside
                                   /\ pc[q] # "idle" => Id(q) \in Ids /\ Id(q) # Id(p)
    BY Holder DEF StartInstall, Locked, Starting, Stopping
<1>2. pc[p] = "install" /\ (pc' = [pc EXCEPT ![p] = "finish"])
    BY DEF StartInstall, Only, Goes
<1>3. /\ pc' \in [Procs -> Pc] /\ pc'[p] = "finish"
      /\ \A q \in Procs : q # p => pc'[q] = pc[q]
    BY <1>2 DEF Types, Pc, Starting, Stopping
<1>4. UNCHANGED <<lifecycle, starting, rebinding, call, taken, count, node, told, port, degraded, broken,
   unjoined, pump, dups>>
    BY DEF StartInstall, Only, lock, procs, nodes
<1>5. slot' \in EngineRec /\ slot' # None /\ slot'.id = Id(p) /\ slot'.tun = Id(p) /\ slot'.cfg = call[p].cfg
    BY <1>1, <1>2 DEF StartInstall, Types, EngineRec, Ids, Id
<1>6. /\ ret' \in [Procs -> {"none", "ok", "err"}] /\ ret'[p] = "ok"
      /\ \A q \in Procs : q # p => ret'[q] = ret[q]
    BY <1>1, <1>2 DEF StartInstall, Types
<1>7. Flags' BY <1>1, Zenon DEF Flags, StartInstall, Only, lock, procs, nodes
<1>8. Types' BY <1>1, <1>2, <1>3, <1>4, <1>5, <1>6 DEF Types
<1>9. Exclusive' BY <1>1, <1>2, <1>3, <1>4 DEF Exclusive, Types, Outside, Locked, Starting,
   Stopping
<1>10. StartingFlag' BY <1>1, <1>2, <1>3, <1>4, <1>5, <1>6 DEF StartingFlag, Types, Outside,
   Building, Starting
<1>11. RebindingFlag' BY <1>1, <1>2, <1>3, <1>4, SameRebinders DEF Outside
<1>12. Numbers' BY <1>1, <1>2, <1>3, <1>4 DEF Numbers, Types, Id
<1>13. Operations' BY <1>1, <1>2, <1>3, <1>4 DEF Operations, Types, Outside, Starting, Stopping
<1>14. Results' BY <1>1, <1>2, <1>3, <1>4, <1>5, <1>6 DEF Results, Types, Outside, Starting,
   Stopping
<1>15. Unused' BY <1>1, <1>2, <1>3, <1>4, <1>5, <1>6 DEF Unused, Flags, Types, Untouched, Ids,
   Installed, Ending
<1>16. Fresh' BY <1>1, <1>2, <1>3, <1>4, <1>5, <1>6 DEF Fresh, Flags, Types, Outside, Id, Unborn,
   Untouched, Stopping, Installed, Ending
<1>17. Installed'
    <2>1. /\ Id(p) \notin unjoined /\ Ready(Id(p)) /\ ~told[Id(p)] /\ pump[Id(p)] = "up"
        BY <1>2 DEF Begun, Living
    <2>2. slot' # None =>
            /\ slot'.id <= count' /\ Ready(slot.id)' /\ ~told'[slot'.id] /\ slot'.id \notin unjoined'
            /\ pump'[slot'.id] = "up"
        BY <2>1, <1>1, <1>4, <1>5
    <2>3. QED BY <2>2, <1>1, <1>3 DEF Installed, Outside, Living, Stopping
<1>18. Begun' BY <1>1, <1>2, <1>3, <1>4, <1>5, <1>6 DEF Begun, Flags, Types, Outside, Id, Living,
   Fresh, Unborn, Untouched
<1>19. Ending' BY <1>1, <1>2, <1>3, <1>4, <1>5, <1>6 DEF Ending, Types, Outside, Stopping
<1>20. Dups' BY <1>1, <1>2, <1>3, <1>4, <1>5, <1>6 DEF Dups, Types, Outside, Id, Own, Stopping,
   Installed, Fresh, Unborn, Living, Ending
<1>21. Pumps' BY <1>1, <1>2, <1>3, <1>4, <1>5, <1>6 DEF Pumps, Types, Outside, Id, Installed,
   Living, Ending, Stopping, Begun
<1>22. Nodes' BY <1>1, <1>2, <1>3, <1>4, <1>5, <1>6 DEF Nodes, Flags, Types, Outside, Id, Current,
   Holds, Living, Stopping, Installed, Begun, Ending, Fresh, Unborn, Untouched
<1>23. Port' BY <1>1, <1>2, <1>3, <1>4, <1>5, <1>6 DEF Port, Fresh, Unborn, Untouched, Ids, Types
<1>24. QED BY <1>7, <1>8, <1>9, <1>10, <1>11, <1>12, <1>13, <1>14, <1>15, <1>16, <1>17, <1>18,
   <1>19, <1>20, <1>21, <1>22, <1>23

\* The start ends: STARTING is cleared and the result fixed.
LEMMA StartFinishInv ==
    ASSUME IInv, NEW p \in Procs, StartFinish(p)
    PROVE  IInv'
<1> USE DEF IInv
<1>1. /\ lifecycle = p /\ Id(p) \in Ids /\ Id(p) <= count
      /\ \A q \in Procs : q # p => /\ pc[q] \in Outside
                                   /\ pc[q] # "idle" => Id(q) \in Ids /\ Id(q) # Id(p)
    BY Holder DEF StartFinish, Locked, Starting, Stopping
<1>2. pc[p] = "finish" /\ (pc' = [pc EXCEPT ![p] = "unlock"])
    BY DEF StartFinish, Only, Goes
<1>3. /\ pc' \in [Procs -> Pc] /\ pc'[p] = "unlock"
      /\ \A q \in Procs : q # p => pc'[q] = pc[q]
    BY <1>2 DEF Types, Pc, Starting, Stopping
<1>4. UNCHANGED <<lifecycle, rebinding, slot, call, taken, count, node, told, port, degraded, broken,
   unjoined, pump, dups>>
    BY DEF StartFinish, Only, lock, procs, nodes
<1>5. ~starting' /\ ret' = [ret EXCEPT ![p] = IF @ = "none" THEN "err" ELSE @]
    BY <1>1, <1>2, Zenon DEF StartFinish
<1>6. /\ ret' \in [Procs -> {"none", "ok", "err"}] /\ ret'[p] # "none"
      /\ \A q \in Procs : q # p => ret'[q] = ret[q]
    BY <1>1, <1>2, <1>5 DEF Types
<1>7. Flags' BY <1>1, Zenon DEF Flags, StartFinish, Only, lock, procs, nodes
<1>8. Types' BY <1>1, <1>2, <1>3, <1>4, <1>5, <1>6 DEF Types
<1>9. Exclusive' BY <1>1, <1>2, <1>3, <1>4 DEF Exclusive, Types, Outside, Locked, Starting,
   Stopping
<1>10. StartingFlag' BY <1>1, <1>2, <1>3, <1>4, <1>5, <1>6 DEF StartingFlag, Types, Outside,
   Building, Starting
<1>11. RebindingFlag' BY <1>1, <1>2, <1>3, <1>4, SameRebinders DEF Outside
<1>12. Numbers' BY <1>1, <1>2, <1>3, <1>4 DEF Numbers, Types, Id
<1>13. Operations' BY <1>1, <1>2, <1>3, <1>4 DEF Operations, Types, Outside, Starting, Stopping
<1>14. Results' BY <1>1, <1>2, <1>3, <1>4, <1>5, <1>6 DEF Results, Types, Outside, Starting,
   Stopping
<1>15. Unused' BY <1>1, <1>2, <1>3, <1>4, <1>5, <1>6 DEF Unused, Flags, Types, Untouched, Ids,
   Installed, Ending
<1>16. Fresh' BY <1>1, <1>2, <1>3, <1>4, <1>5, <1>6 DEF Fresh, Flags, Types, Outside, Id, Unborn,
   Untouched, Stopping, Installed, Ending
<1>17. Installed' BY <1>1, <1>2, <1>3, <1>4, <1>5, <1>6 DEF Installed, Types, Outside, Id, Living,
   Stopping
<1>18. Begun' BY <1>1, <1>2, <1>3, <1>4, <1>5, <1>6 DEF Begun, Flags, Types, Outside, Id, Living,
   Fresh, Unborn, Untouched
<1>19. Ending' BY <1>1, <1>2, <1>3, <1>4, <1>5, <1>6 DEF Ending, Types, Outside, Stopping
<1>20. Dups' BY <1>1, <1>2, <1>3, <1>4, <1>5, <1>6 DEF Dups, Types, Outside, Id, Own, Stopping,
   Installed, Fresh, Unborn, Living, Ending
<1>21. Pumps' BY <1>1, <1>2, <1>3, <1>4, <1>5, <1>6 DEF Pumps, Types, Outside, Id, Installed,
   Living, Ending, Stopping, Begun
<1>22. Nodes' BY <1>1, <1>2, <1>3, <1>4, <1>5, <1>6 DEF Nodes, Flags, Types, Outside, Id, Current,
   Holds, Living, Stopping, Installed, Begun, Ending, Fresh, Unborn, Untouched
<1>23. Port' BY <1>1, <1>2, <1>3, <1>4, <1>5, <1>6 DEF Port, Fresh, Unborn, Untouched, Ids, Types
<1>24. QED BY <1>7, <1>8, <1>9, <1>10, <1>11, <1>12, <1>13, <1>14, <1>15, <1>16, <1>17, <1>18,
   <1>19, <1>20, <1>21, <1>22, <1>23

\* The node that was told is joined.
LEMMA StartJoinFailedInv ==
    ASSUME IInv, NEW p \in Procs, StartJoinFailed(p)
    PROVE  IInv'
<1> USE DEF IInv
<1>1. /\ lifecycle = p /\ Id(p) \in Ids /\ Id(p) <= count
      /\ \A q \in Procs : q # p => /\ pc[q] \in Outside
                                   /\ pc[q] # "idle" => Id(q) \in Ids /\ Id(q) # Id(p)
    BY Holder DEF StartJoinFailed, Locked, Starting, Stopping
<1>2. pc[p] = "joinFailed" /\ (pc' = [pc EXCEPT ![p] = "finish"])
    BY DEF StartJoinFailed, Only, Goes
<1>3. /\ pc' \in [Procs -> Pc] /\ pc'[p] = "finish"
      /\ \A q \in Procs : q # p => pc'[q] = pc[q]
    BY <1>2 DEF Types, Pc, Starting, Stopping
<1>4. UNCHANGED <<lifecycle, starting, rebinding, slot, call, taken, ret, count, node, told, port,
   degraded, broken, unjoined, pump, dups>>
    BY DEF StartJoinFailed, Only, lock, procs, nodes
<1>5. node[Id(p)] = "gone"
    BY <1>1, <1>2 DEF StartJoinFailed
<1>6. Flags' BY <1>1, Zenon DEF Flags, StartJoinFailed, Only, lock, procs, nodes
<1>7. Types' BY <1>1, <1>2, <1>3, <1>4, <1>5 DEF Types
<1>8. Exclusive' BY <1>1, <1>2, <1>3, <1>4 DEF Exclusive, Types, Outside, Locked, Starting,
   Stopping
<1>9. StartingFlag' BY <1>1, <1>2, <1>3, <1>4, <1>5 DEF StartingFlag, Types, Outside, Building,
   Starting
<1>10. RebindingFlag' BY <1>1, <1>2, <1>3, <1>4, SameRebinders DEF Outside
<1>11. Numbers' BY <1>1, <1>2, <1>3, <1>4 DEF Numbers, Types, Id
<1>12. Operations' BY <1>1, <1>2, <1>3, <1>4 DEF Operations, Types, Outside, Starting, Stopping
<1>13. Results' BY <1>1, <1>2, <1>3, <1>4, <1>5 DEF Results, Types, Outside, Starting, Stopping
<1>14. Unused' BY <1>1, <1>2, <1>3, <1>4, <1>5 DEF Unused, Flags, Types, Untouched, Ids,
   Installed, Ending
<1>15. Fresh' BY <1>1, <1>2, <1>3, <1>4, <1>5 DEF Fresh, Flags, Types, Outside, Id, Unborn,
   Untouched, Stopping, Installed, Ending
<1>16. Installed' BY <1>1, <1>2, <1>3, <1>4, <1>5 DEF Installed, Types, Outside, Id, Living,
   Stopping
<1>17. Begun' BY <1>1, <1>2, <1>3, <1>4, <1>5 DEF Begun, Flags, Types, Outside, Id, Living, Fresh,
   Unborn, Untouched
<1>18. Ending' BY <1>1, <1>2, <1>3, <1>4, <1>5 DEF Ending, Types, Outside, Stopping
<1>19. Dups' BY <1>1, <1>2, <1>3, <1>4, <1>5 DEF Dups, Types, Outside, Id, Own, Stopping,
   Installed, Fresh, Unborn, Living, Ending
<1>20. Pumps' BY <1>1, <1>2, <1>3, <1>4, <1>5 DEF Pumps, Types, Outside, Id, Installed, Living,
   Ending, Stopping, Begun
<1>21. Nodes' BY <1>1, <1>2, <1>3, <1>4, <1>5 DEF Nodes, Flags, Types, Outside, Id, Current,
   Holds, Living, Stopping, Installed, Begun, Ending, Fresh, Unborn, Untouched
<1>22. Port' BY <1>1, <1>2, <1>3, <1>4, <1>5 DEF Port, Fresh, Unborn, Untouched, Ids, Types
<1>23. QED BY <1>6, <1>7, <1>8, <1>9, <1>10, <1>11, <1>12, <1>13, <1>14, <1>15, <1>16, <1>17,
   <1>18, <1>19, <1>20, <1>21, <1>22

\* The engine leaves the slot for the hands of the thread that stops it.
LEMMA StopTakeInv ==
    ASSUME IInv, NEW p \in Procs, StopTake(p)
    PROVE  IInv'
<1> USE DEF IInv
<1>1. /\ lifecycle = p /\ Id(p) \in Ids /\ Id(p) <= count
      /\ \A q \in Procs : q # p => /\ pc[q] \in Outside
                                   /\ pc[q] # "idle" => Id(q) \in Ids /\ Id(q) # Id(p)
    BY Holder DEF StopTake, Locked, Starting, Stopping
<1>2. pc[p] = "take" /\ (pc' = [pc EXCEPT ![p] = "unlock"] \/ pc' = [pc EXCEPT ![p] = "joinPump"])
    BY DEF StopTake, Only, Goes
<1>3. /\ pc' \in [Procs -> Pc] /\ pc'[p] \in {"unlock", "joinPump"}
      /\ \A q \in Procs : q # p => pc'[q] = pc[q]
    BY <1>2 DEF Types, Pc, Starting, Stopping
<1>4. UNCHANGED <<lifecycle, starting, rebinding, call, count, node, port, degraded, broken, unjoined,
   pump, dups>>
    BY DEF StopTake, Only, lock, procs, nodes
<1>5. slot' = None /\ taken' = [taken EXCEPT ![p] = slot]
      /\ ret' = [ret EXCEPT ![p] = IF call[p].op = "stop" THEN "ok" ELSE @]
    BY <1>1, <1>2 DEF StopTake
<1>6. \/ slot = None /\ pc'[p] = "unlock" /\ told' = told
      \/ slot # None /\ pc'[p] = "joinPump" /\ told' = [told EXCEPT ![slot.id] = TRUE]
    BY <1>1, <1>2 DEF StopTake, Goes, Types
<1>7. slot # None => /\ slot \in EngineRec /\ slot.id \in Ids /\ slot.tun \in Ids
                     /\ slot.id <= count /\ slot.id \notin unjoined /\ node[slot.id] \in {"up", "gone"}
    BY <1>1, <1>2 DEF Types, EngineRec, Installed, Nodes
<1>8. /\ taken' \in [Procs -> EngineRec \cup {None}] /\ taken'[p] = slot
      /\ \A q \in Procs : q # p => taken'[q] = taken[q]
    BY <1>1, <1>2, <1>5 DEF Types
<1>9. /\ ret' \in [Procs -> {"none", "ok", "err"}] /\ ret'[p] = (IF call[p].op = "stop" THEN "ok" ELSE ret[p])
      /\ \A q \in Procs : q # p => ret'[q] = ret[q]
    BY <1>1, <1>2, <1>5 DEF Types
<1>10. slot # None => told'[slot.id] /\ \A i \in Ids : i # slot.id => told'[i] = told[i]
    BY <1>1, <1>2, <1>6, <1>7 DEF Flags
<1>11. Flags' BY <1>1, Zenon DEF Flags, StopTake, Only, lock, procs, nodes
<1>12. Types' BY <1>1, <1>2, <1>3, <1>4, <1>5, <1>6, <1>7, <1>8, <1>9, <1>10 DEF Types
<1>13. Exclusive' BY <1>1, <1>2, <1>3, <1>4 DEF Exclusive, Types, Outside, Locked, Starting,
   Stopping
<1>14. StartingFlag' BY <1>1, <1>2, <1>3, <1>4, <1>5, <1>6, <1>7, <1>8, <1>9, <1>10 DEF
   StartingFlag, Types, Outside, Building, Starting
<1>15. RebindingFlag' BY <1>1, <1>2, <1>3, <1>4, SameRebinders DEF Outside
<1>16. Numbers' BY <1>1, <1>2, <1>3, <1>4 DEF Numbers, Types, Id
<1>17. Operations' BY <1>1, <1>2, <1>3, <1>4 DEF Operations, Types, Outside, Starting, Stopping
<1>18. Results'
    BY <1>1, <1>2, <1>3, <1>4, <1>5, <1>6, <1>7, <1>8, <1>9, <1>10 DEF Results, Installed, Operations,
        Types, Outside, Starting, Stopping, Ops
<1>19. Unused'
    <2>1. CASE slot = None BY <2>1, <1>4, <1>6 DEF Unused, Untouched
    <2>2. CASE slot # None
        <3>1. \A i \in Ids : i > count => i # slot.id BY <2>2, <1>7 DEF Installed, Types, Ids
        <3>2. QED BY <3>1, <2>2, <1>4, <1>10 DEF Unused, Untouched
    <2>3. QED BY <2>1, <2>2
<1>20. Fresh'
    <2>1. CASE slot = None
        BY <2>1, <1>1, <1>2, <1>3, <1>4, <1>6 DEF Fresh, Outside, Id, Unborn, Untouched, Stopping
    <2>2. CASE slot # None
        BY <2>2, <1>1, <1>2, <1>3, <1>4, <1>6, <1>7, <1>10
           DEF Fresh, Outside, Id, Unborn, Untouched, Stopping, Installed
    <2>3. QED BY <2>1, <2>2
<1>21. Installed' BY <1>1, <1>2, <1>3, <1>4, <1>5, <1>6, <1>7, <1>8, <1>9, <1>10 DEF Installed,
   Types, Outside, Id, Living, Stopping
<1>22. Begun' BY <1>1, <1>2, <1>3, <1>4, <1>5, <1>6, <1>7, <1>8, <1>9, <1>10 DEF Begun, Flags,
   Types, Outside, Id, Living, Fresh, Unborn, Untouched
<1>23. Ending'
    <2>1. CASE slot = None
        BY <2>1, <1>1, <1>2, <1>3, <1>4, <1>6, <1>8 DEF Ending, Outside, Stopping
    <2>2. CASE slot # None
        BY <2>2, <1>1, <1>2, <1>3, <1>4, <1>6, <1>7, <1>8, <1>10
           DEF Ending, Outside, Stopping, Installed
    <2>3. QED BY <2>1, <2>2
<1>24. Dups'
    <2>1. Own(p) = {} BY <1>2 DEF Own, Stopping
    <2>2. Own(p)' = IF slot = None THEN {} ELSE {slot.tun} BY <1>6, <1>8 DEF Own, Stopping
    <2>3. \A q \in Procs : pc'[q] \notin {"swapping", "swapUndo"} BY <1>1, <1>3 DEF Outside
    <2>4. QED BY <2>1, <2>2, <2>3, <1>1, <1>4, <1>5 DEF Dups
<1>25. Pumps' BY <1>1, <1>2, <1>3, <1>4, <1>5, <1>6, <1>7, <1>8, <1>9, <1>10 DEF Pumps, Types,
   Outside, Id, Installed, Living, Ending, Stopping, Begun
<1>26. Nodes'
    <2>1. \A i \in Ids : Current(i) => Current(i)'
        BY <1>1, <1>2, <1>3, <1>4, <1>5, <1>6, <1>8 DEF Current, Holds, Living, Stopping
    <2>2. \A i \in Ids : told[i] => told'[i] BY <1>6, <1>7, <1>10
    <2>3. \A i \in Ids : told'[i] => node[i] # "none" BY <1>6, <1>7, <1>10 DEF Nodes
    <2>4. QED BY <2>1, <2>2, <2>3, <1>4 DEF Nodes, Types
<1>27. Port' BY <1>1, <1>2, <1>3, <1>4, <1>5, <1>6, <1>7, <1>8, <1>9, <1>10 DEF Port, Fresh,
   Unborn, Untouched, Ids, Types
<1>28. QED BY <1>11, <1>12, <1>13, <1>14, <1>15, <1>16, <1>17, <1>18, <1>19, <1>20, <1>21, <1>22,
   <1>23, <1>24, <1>25, <1>26, <1>27

\* The pump of the engine that is being stopped is joined or left.
LEMMA StopJoinPumpInv ==
    ASSUME IInv, NEW p \in Procs, StopJoinPump(p)
    PROVE  IInv'
<1> USE DEF IInv
<1>1. /\ lifecycle = p /\ Id(p) \in Ids /\ Id(p) <= count
      /\ \A q \in Procs : q # p => /\ pc[q] \in Outside
                                   /\ pc[q] # "idle" => Id(q) \in Ids /\ Id(q) # Id(p)
    BY Holder DEF StopJoinPump, Locked, Starting, Stopping
<1>2. pc[p] = "joinPump" /\ (pc' = [pc EXCEPT ![p] = "joinNode"])
    BY DEF StopJoinPump, Only, Goes
<1>3. /\ pc' \in [Procs -> Pc] /\ pc'[p] = "joinNode"
      /\ \A q \in Procs : q # p => pc'[q] = pc[q]
    BY <1>2 DEF Types, Pc, Starting, Stopping
<1>4. UNCHANGED <<lifecycle, starting, rebinding, slot, call, taken, ret, count, node, told, port,
   degraded, broken, unjoined, dups>>
    BY DEF StopJoinPump, Only, lock, procs, nodes
<1>5. taken[p] \in EngineRec /\ taken[p].id \in Ids
    BY <1>1, <1>2 DEF Ending, Types, EngineRec, Stopping
<1>6. \/ pump' = pump
      \/ pump[taken[p].id] = "up" /\ \E l \in {"ended", "left"} : pump' = [pump EXCEPT ![taken[p].id] = l]
    BY <1>1, <1>2, <1>5 DEF StopJoinPump, Types
<1>7. /\ pump' \in [Ids -> {"none", "up", "ended", "left"}]
      /\ \A i \in Ids : i # taken[p].id => pump'[i] = pump[i]
    BY <1>1, <1>2, <1>5, <1>6 DEF Types
<1>8. pump'[taken[p].id] # "up" /\ (pump[taken[p].id] = "none" => pump'[taken[p].id] = "none")
    BY <1>1, <1>2, <1>5 DEF StopJoinPump, Types
<1>9. Flags' BY <1>1, Zenon DEF Flags, StopJoinPump, Only, lock, procs, nodes
<1>10. Types' BY <1>1, <1>2, <1>3, <1>4, <1>5, <1>6, <1>7, <1>8 DEF Types
<1>11. Exclusive' BY <1>1, <1>2, <1>3, <1>4 DEF Exclusive, Types, Outside, Locked, Starting,
   Stopping
<1>12. StartingFlag' BY <1>1, <1>2, <1>3, <1>4, <1>5, <1>6, <1>7, <1>8 DEF StartingFlag, Types,
   Outside, Building, Starting
<1>13. RebindingFlag' BY <1>1, <1>2, <1>3, <1>4, SameRebinders DEF Outside
<1>14. Numbers' BY <1>1, <1>2, <1>3, <1>4 DEF Numbers, Types, Id
<1>15. Operations' BY <1>1, <1>2, <1>3, <1>4 DEF Operations, Types, Outside, Starting, Stopping
<1>16. Results' BY <1>1, <1>2, <1>3, <1>4, <1>5, <1>6, <1>7, <1>8 DEF Results, Types, Outside,
   Starting, Stopping
<1>17. Unused' BY <1>1, <1>2, <1>3, <1>4, <1>5, <1>6, <1>7, <1>8 DEF Unused, Flags, Types,
   Untouched, Ids, Installed, Ending
<1>18. Fresh' BY <1>1, <1>2, <1>3, <1>4, <1>5, <1>6, <1>7, <1>8 DEF Fresh, Flags, Types, Outside,
   Id, Unborn, Untouched, Stopping, Installed, Ending
<1>19. Installed' BY <1>1, <1>2, <1>3, <1>4, <1>5, <1>6, <1>7, <1>8 DEF Installed, Types, Outside,
   Id, Living, Stopping
<1>20. Begun' BY <1>1, <1>2, <1>3, <1>4, <1>5, <1>6, <1>7, <1>8 DEF Begun, Flags, Types, Outside,
   Id, Living, Fresh, Unborn, Untouched
<1>21. Ending' BY <1>1, <1>2, <1>3, <1>4, <1>5, <1>6, <1>7, <1>8 DEF Ending, Types, Outside,
   Stopping
<1>22. Dups' BY <1>1, <1>2, <1>3, <1>4, <1>5, <1>6, <1>7, <1>8 DEF Dups, Types, Outside, Id, Own,
   Stopping, Installed, Fresh, Unborn, Living, Ending
<1>23. Pumps' BY <1>1, <1>2, <1>3, <1>4, <1>5, <1>6, <1>7, <1>8 DEF Pumps, Types, Outside, Id,
   Installed, Living, Ending, Stopping, Begun
<1>24. Nodes' BY <1>1, <1>2, <1>3, <1>4, <1>5, <1>6, <1>7, <1>8 DEF Nodes, Flags, Types, Outside,
   Id, Current, Holds, Living, Stopping, Installed, Begun, Ending, Fresh, Unborn, Untouched
<1>25. Port' BY <1>1, <1>2, <1>3, <1>4, <1>5, <1>6, <1>7, <1>8 DEF Port, Fresh, Unborn, Untouched,
   Ids, Types
<1>26. QED BY <1>9, <1>10, <1>11, <1>12, <1>13, <1>14, <1>15, <1>16, <1>17, <1>18, <1>19, <1>20,
   <1>21, <1>22, <1>23, <1>24, <1>25

\* The node thread of the engine that is being stopped is joined.
LEMMA StopJoinNodeInv ==
    ASSUME IInv, NEW p \in Procs, StopJoinNode(p)
    PROVE  IInv'
<1> USE DEF IInv
<1>1. /\ lifecycle = p /\ Id(p) \in Ids /\ Id(p) <= count
      /\ \A q \in Procs : q # p => /\ pc[q] \in Outside
                                   /\ pc[q] # "idle" => Id(q) \in Ids /\ Id(q) # Id(p)
    BY Holder DEF StopJoinNode, Locked, Starting, Stopping
<1>2. pc[p] = "joinNode" /\ (pc' = [pc EXCEPT ![p] = "close"])
    BY DEF StopJoinNode, Only, Goes
<1>3. /\ pc' \in [Procs -> Pc] /\ pc'[p] = "close"
      /\ \A q \in Procs : q # p => pc'[q] = pc[q]
    BY <1>2 DEF Types, Pc, Starting, Stopping
<1>4. UNCHANGED <<lifecycle, starting, rebinding, slot, call, taken, ret, count, node, told, port,
   degraded, broken, unjoined, pump, dups>>
    BY DEF StopJoinNode, Only, lock, procs, nodes
<1>5. node[taken[p].id] = "gone"
    BY <1>1, <1>2 DEF StopJoinNode
<1>6. Flags' BY <1>1, Zenon DEF Flags, StopJoinNode, Only, lock, procs, nodes
<1>7. Types' BY <1>1, <1>2, <1>3, <1>4, <1>5 DEF Types
<1>8. Exclusive' BY <1>1, <1>2, <1>3, <1>4 DEF Exclusive, Types, Outside, Locked, Starting,
   Stopping
<1>9. StartingFlag' BY <1>1, <1>2, <1>3, <1>4, <1>5 DEF StartingFlag, Types, Outside, Building,
   Starting
<1>10. RebindingFlag' BY <1>1, <1>2, <1>3, <1>4, SameRebinders DEF Outside
<1>11. Numbers' BY <1>1, <1>2, <1>3, <1>4 DEF Numbers, Types, Id
<1>12. Operations' BY <1>1, <1>2, <1>3, <1>4 DEF Operations, Types, Outside, Starting, Stopping
<1>13. Results' BY <1>1, <1>2, <1>3, <1>4, <1>5 DEF Results, Types, Outside, Starting, Stopping
<1>14. Unused' BY <1>1, <1>2, <1>3, <1>4, <1>5 DEF Unused, Flags, Types, Untouched, Ids,
   Installed, Ending
<1>15. Fresh' BY <1>1, <1>2, <1>3, <1>4, <1>5 DEF Fresh, Flags, Types, Outside, Id, Unborn,
   Untouched, Stopping, Installed, Ending
<1>16. Installed' BY <1>1, <1>2, <1>3, <1>4, <1>5 DEF Installed, Types, Outside, Id, Living,
   Stopping
<1>17. Begun' BY <1>1, <1>2, <1>3, <1>4, <1>5 DEF Begun, Flags, Types, Outside, Id, Living, Fresh,
   Unborn, Untouched
<1>18. Ending' BY <1>1, <1>2, <1>3, <1>4, <1>5 DEF Ending, Types, Outside, Stopping
<1>19. Dups' BY <1>1, <1>2, <1>3, <1>4, <1>5 DEF Dups, Types, Outside, Id, Own, Stopping,
   Installed, Fresh, Unborn, Living, Ending
<1>20. Pumps' BY <1>1, <1>2, <1>3, <1>4, <1>5 DEF Pumps, Types, Outside, Id, Installed, Living,
   Ending, Stopping, Begun
<1>21. Nodes' BY <1>1, <1>2, <1>3, <1>4, <1>5 DEF Nodes, Flags, Types, Outside, Id, Current,
   Holds, Living, Stopping, Installed, Begun, Ending, Fresh, Unborn, Untouched
<1>22. Port' BY <1>1, <1>2, <1>3, <1>4, <1>5 DEF Port, Fresh, Unborn, Untouched, Ids, Types
<1>23. QED BY <1>6, <1>7, <1>8, <1>9, <1>10, <1>11, <1>12, <1>13, <1>14, <1>15, <1>16, <1>17,
   <1>18, <1>19, <1>20, <1>21, <1>22

\* The dup of the engine that was stopped is closed.
LEMMA StopCloseInv ==
    ASSUME IInv, NEW p \in Procs, StopClose(p)
    PROVE  IInv'
<1> USE DEF IInv
<1>1. /\ lifecycle = p /\ Id(p) \in Ids /\ Id(p) <= count
      /\ \A q \in Procs : q # p => /\ pc[q] \in Outside
                                   /\ pc[q] # "idle" => Id(q) \in Ids /\ Id(q) # Id(p)
    BY Holder DEF StopClose, Locked, Starting, Stopping
<1>2. pc[p] = "close" /\ (pc' = [pc EXCEPT ![p] = "unlock"] \/ pc' = [pc EXCEPT ![p] = "check"])
    BY DEF StopClose, Only, Goes
<1>3. /\ pc' \in [Procs -> Pc] /\ pc'[p] \in {"unlock", "check"}
      /\ \A q \in Procs : q # p => pc'[q] = pc[q]
    BY <1>2 DEF Types, Pc, Starting, Stopping
<1>4. UNCHANGED <<lifecycle, starting, rebinding, slot, call, ret, count, node, told, port,
   degraded, broken, unjoined, pump>>
    BY DEF StopClose, Only, lock, procs, nodes
<1>5. taken[p] \in EngineRec /\ taken[p].id \in Ids /\ taken[p].tun \in Ids
    BY <1>1, <1>2 DEF Ending, Types, EngineRec, Stopping
<1>6. pc'[p] = (IF call[p].op = "stop" THEN "unlock" ELSE "check") /\ dups' = dups \ {taken[p].tun}
    BY <1>1, <1>2 DEF StopClose, Goes, Types
<1>7. /\ taken' \in [Procs -> EngineRec \cup {None}] /\ taken'[p] = None
      /\ \A q \in Procs : q # p => taken'[q] = taken[q]
    BY <1>1, <1>2 DEF StopClose, Types
<1>8. Flags' BY <1>1, Zenon DEF Flags, StopClose, Only, lock, procs, nodes
<1>9. Types' BY <1>1, <1>2, <1>3, <1>4, <1>5, <1>6, <1>7 DEF Types
<1>10. Exclusive' BY <1>1, <1>2, <1>3, <1>4 DEF Exclusive, Types, Outside, Locked, Starting,
   Stopping
<1>11. StartingFlag' BY <1>1, <1>2, <1>3, <1>4, <1>5, <1>6, <1>7 DEF StartingFlag, Types, Outside,
   Building, Starting
<1>12. RebindingFlag' BY <1>1, <1>2, <1>3, <1>4, SameRebinders DEF Outside
<1>13. Numbers' BY <1>1, <1>2, <1>3, <1>4 DEF Numbers, Types, Id
<1>14. Operations'
    BY <1>1, <1>2, <1>3, <1>4, <1>6 DEF Operations, Types, Outside, Starting, Stopping
<1>15. Results' BY <1>1, <1>2, <1>3, <1>4, <1>5, <1>6, <1>7 DEF Results, Types, Outside, Starting,
   Stopping
<1>16. Unused' BY <1>1, <1>2, <1>3, <1>4, <1>5, <1>6, <1>7 DEF Unused, Flags, Types, Untouched,
   Ids, Installed, Ending
<1>17. Fresh' BY <1>1, <1>2, <1>3, <1>4, <1>5, <1>6, <1>7 DEF Fresh, Flags, Types, Outside, Id,
   Unborn, Untouched, Stopping, Installed, Ending
<1>18. Installed' BY <1>1, <1>2, <1>3, <1>4, <1>5, <1>6, <1>7 DEF Installed, Types, Outside, Id,
   Living, Stopping
<1>19. Begun' BY <1>1, <1>2, <1>3, <1>4, <1>5, <1>6, <1>7 DEF Begun, Flags, Types, Outside, Id,
   Living, Fresh, Unborn, Untouched
<1>20. Ending' BY <1>1, <1>2, <1>3, <1>4, <1>5, <1>6, <1>7 DEF Ending, Types, Outside, Stopping
<1>21. Dups' BY <1>1, <1>2, <1>3, <1>4, <1>5, <1>6, <1>7 DEF Dups, Types, Outside, Id, Own,
   Stopping, Installed, Fresh, Unborn, Living, Ending
<1>22. Pumps' BY <1>1, <1>2, <1>3, <1>4, <1>5, <1>6, <1>7 DEF Pumps, Types, Outside, Id,
   Installed, Living, Ending, Stopping, Begun
<1>23. Nodes' BY <1>1, <1>2, <1>3, <1>4, <1>5, <1>6, <1>7 DEF Nodes, Flags, Types, Outside, Id,
   Current, Holds, Living, Stopping, Installed, Begun, Ending, Fresh, Unborn, Untouched
<1>24. Port' BY <1>1, <1>2, <1>3, <1>4, <1>5, <1>6, <1>7 DEF Port, Fresh, Unborn, Untouched, Ids,
   Types
<1>25. QED BY <1>8, <1>9, <1>10, <1>11, <1>12, <1>13, <1>14, <1>15, <1>16, <1>17, <1>18, <1>19,
   <1>20, <1>21, <1>22, <1>23, <1>24

\* network_changed has nothing to do, swaps, or restarts.
LEMMA RebindLookInv ==
    ASSUME IInv, NEW p \in Procs, RebindLook(p)
    PROVE  IInv'
<1> USE DEF IInv
<1>1. /\ lifecycle = p /\ Id(p) \in Ids /\ Id(p) <= count
      /\ \A q \in Procs : q # p => /\ pc[q] \in Outside
                                   /\ pc[q] # "idle" => Id(q) \in Ids /\ Id(q) # Id(p)
    BY Holder DEF RebindLook, Locked, Starting, Stopping
<1>2. /\ pc[p] = "look"
      /\ \/ pc' = [pc EXCEPT ![p] = "unlock"]
         \/ pc' = [pc EXCEPT ![p] = "swap"]
         \/ pc' = [pc EXCEPT ![p] = "take"]
    BY DEF RebindLook, Only, Goes
<1>3. /\ pc' \in [Procs -> Pc] /\ pc'[p] \in {"unlock", "swap", "take"}
      /\ \A q \in Procs : q # p => pc'[q] = pc[q]
    BY <1>2 DEF Types, Pc, Starting, Stopping
<1>4. UNCHANGED <<lifecycle, starting, rebinding, slot, call, taken, count, node, told, port,
   degraded, broken, unjoined, pump, dups>>
    BY DEF RebindLook, Only, lock, procs, nodes
<1>5. \/ pc'[p] = "unlock" /\ slot = None /\ ret' = [ret EXCEPT ![p] = "ok"]
      \/ pc'[p] = "swap" /\ slot # None /\ slot.cfg = call[p].cfg /\ ret' = ret
      \/ pc'[p] = "take" /\ slot # None /\ ret' = ret
    BY <1>1, <1>2 DEF RebindLook, Only, Goes, Types
<1>6. /\ ret' \in [Procs -> {"none", "ok", "err"}] /\ (pc'[p] = "unlock" => ret'[p] = "ok")
      /\ \A q \in Procs : q # p => ret'[q] = ret[q]
    BY <1>1, <1>2, <1>5 DEF Types
<1>7. Flags' BY <1>1, Zenon DEF Flags, RebindLook, Only, lock, procs, nodes
<1>8. Types' BY <1>1, <1>2, <1>3, <1>4, <1>5, <1>6 DEF Types
<1>9. Exclusive' BY <1>1, <1>2, <1>3, <1>4 DEF Exclusive, Types, Outside, Locked, Starting,
   Stopping
<1>10. StartingFlag' BY <1>1, <1>2, <1>3, <1>4, <1>5, <1>6 DEF StartingFlag, Types, Outside,
   Building, Starting
<1>11. RebindingFlag' BY <1>1, <1>2, <1>3, <1>4, SameRebinders DEF Outside
<1>12. Numbers' BY <1>1, <1>2, <1>3, <1>4 DEF Numbers, Types, Id
<1>13. Operations' BY <1>1, <1>2, <1>3, <1>4 DEF Operations, Types, Outside, Starting, Stopping
<1>14. Results' BY <1>1, <1>2, <1>3, <1>4, <1>5, <1>6 DEF Results, Types, Outside, Starting,
   Stopping
<1>15. Unused' BY <1>1, <1>2, <1>3, <1>4, <1>5, <1>6 DEF Unused, Flags, Types, Untouched, Ids,
   Installed, Ending
<1>16. Fresh' BY <1>1, <1>2, <1>3, <1>4, <1>5, <1>6 DEF Fresh, Flags, Types, Outside, Id, Unborn,
   Untouched, Stopping, Installed, Ending
<1>17. Installed' BY <1>1, <1>2, <1>3, <1>4, <1>5, <1>6 DEF Installed, Types, Outside, Id, Living,
   Stopping
<1>18. Begun' BY <1>1, <1>2, <1>3, <1>4, <1>5, <1>6 DEF Begun, Flags, Types, Outside, Id, Living,
   Fresh, Unborn, Untouched
<1>19. Ending' BY <1>1, <1>2, <1>3, <1>4, <1>5, <1>6 DEF Ending, Types, Outside, Stopping
<1>20. Dups' BY <1>1, <1>2, <1>3, <1>4, <1>5, <1>6 DEF Dups, Types, Outside, Id, Own, Stopping,
   Installed, Fresh, Unborn, Living, Ending
<1>21. Pumps' BY <1>1, <1>2, <1>3, <1>4, <1>5, <1>6 DEF Pumps, Types, Outside, Id, Installed,
   Living, Ending, Stopping, Begun
<1>22. Nodes' BY <1>1, <1>2, <1>3, <1>4, <1>5, <1>6 DEF Nodes, Flags, Types, Outside, Id, Current,
   Holds, Living, Stopping, Installed, Begun, Ending, Fresh, Unborn, Untouched
<1>23. Port' BY <1>1, <1>2, <1>3, <1>4, <1>5, <1>6 DEF Port, Fresh, Unborn, Untouched, Ids, Types
<1>24. QED BY <1>7, <1>8, <1>9, <1>10, <1>11, <1>12, <1>13, <1>14, <1>15, <1>16, <1>17, <1>18,
   <1>19, <1>20, <1>21, <1>22, <1>23

\* The new tunnel is dup'd beside the old one.
LEMMA SwapDupInv ==
    ASSUME IInv, NEW p \in Procs, SwapDup(p)
    PROVE  IInv'
<1> USE DEF IInv
<1>1. /\ lifecycle = p /\ Id(p) \in Ids /\ Id(p) <= count
      /\ \A q \in Procs : q # p => /\ pc[q] \in Outside
                                   /\ pc[q] # "idle" => Id(q) \in Ids /\ Id(q) # Id(p)
    BY Holder DEF SwapDup, Locked, Starting, Stopping
<1>2. pc[p] = "swap" /\ (pc' = [pc EXCEPT ![p] = "swapping"] \/ pc' = [pc EXCEPT ![p] = "take"])
    BY DEF SwapDup, Only, Goes
<1>3. /\ pc' \in [Procs -> Pc] /\ pc'[p] \in {"swapping", "take"}
      /\ \A q \in Procs : q # p => pc'[q] = pc[q]
    BY <1>2 DEF Types, Pc, Starting, Stopping
<1>4. UNCHANGED <<lifecycle, starting, rebinding, slot, call, taken, ret, count, node, told, port,
   degraded, broken, unjoined, pump>>
    BY DEF SwapDup, Only, lock, procs, nodes
<1>5. \/ pc'[p] = "swapping" /\ dups' = dups \cup {Id(p)}
      \/ pc'[p] = "take" /\ dups' = dups
    BY <1>1, <1>2 DEF SwapDup, Only, Goes, Types
<1>6. slot \in EngineRec /\ slot # None /\ slot.tun \in Ids
    BY <1>1, <1>2 DEF Installed, Types, EngineRec
<1>7. Flags' BY <1>1, Zenon DEF Flags, SwapDup, Only, lock, procs, nodes
<1>8. Types' BY <1>1, <1>2, <1>3, <1>4, <1>5, <1>6 DEF Types
<1>9. Exclusive' BY <1>1, <1>2, <1>3, <1>4 DEF Exclusive, Types, Outside, Locked, Starting,
   Stopping
<1>10. StartingFlag' BY <1>1, <1>2, <1>3, <1>4, <1>5, <1>6 DEF StartingFlag, Types, Outside,
   Building, Starting
<1>11. RebindingFlag' BY <1>1, <1>2, <1>3, <1>4, SameRebinders DEF Outside
<1>12. Numbers' BY <1>1, <1>2, <1>3, <1>4 DEF Numbers, Types, Id
<1>13. Operations' BY <1>1, <1>2, <1>3, <1>4 DEF Operations, Types, Outside, Starting, Stopping
<1>14. Results' BY <1>1, <1>2, <1>3, <1>4, <1>5, <1>6 DEF Results, Types, Outside, Starting,
   Stopping
<1>15. Unused' BY <1>1, <1>2, <1>3, <1>4, <1>5, <1>6 DEF Unused, Flags, Types, Untouched, Ids,
   Installed, Ending
<1>16. Fresh' BY <1>1, <1>2, <1>3, <1>4, <1>5, <1>6 DEF Fresh, Flags, Types, Outside, Id, Unborn,
   Untouched, Stopping, Installed, Ending
<1>17. Installed' BY <1>1, <1>2, <1>3, <1>4, <1>5, <1>6 DEF Installed, Types, Outside, Id, Living,
   Stopping
<1>18. Begun' BY <1>1, <1>2, <1>3, <1>4, <1>5, <1>6 DEF Begun, Flags, Types, Outside, Id, Living,
   Fresh, Unborn, Untouched
<1>19. Ending' BY <1>1, <1>2, <1>3, <1>4, <1>5, <1>6 DEF Ending, Types, Outside, Stopping
<1>20. Dups' BY <1>1, <1>2, <1>3, <1>4, <1>5, <1>6 DEF Dups, Types, Outside, Id, Own, Stopping,
   Installed, Fresh, Unborn, Living, Ending
<1>21. Pumps' BY <1>1, <1>2, <1>3, <1>4, <1>5, <1>6 DEF Pumps, Types, Outside, Id, Installed,
   Living, Ending, Stopping, Begun
<1>22. Nodes' BY <1>1, <1>2, <1>3, <1>4, <1>5, <1>6 DEF Nodes, Flags, Types, Outside, Id, Current,
   Holds, Living, Stopping, Installed, Begun, Ending, Fresh, Unborn, Untouched
<1>23. Port' BY <1>1, <1>2, <1>3, <1>4, <1>5, <1>6 DEF Port, Fresh, Unborn, Untouched, Ids, Types
<1>24. QED BY <1>7, <1>8, <1>9, <1>10, <1>11, <1>12, <1>13, <1>14, <1>15, <1>16, <1>17, <1>18,
   <1>19, <1>20, <1>21, <1>22, <1>23

\* One of the two dups is closed, the one the engine does not use; or a reader is to be joined.
LEMMA SwapTunInv ==
    ASSUME IInv, NEW p \in Procs, SwapTun(p) \/ SwapUndo(p)
    PROVE  IInv'
<1> USE DEF IInv
<1>1. /\ lifecycle = p /\ Id(p) \in Ids /\ Id(p) <= count
      /\ \A q \in Procs : q # p => /\ pc[q] \in Outside
                                   /\ pc[q] # "idle" => Id(q) \in Ids /\ Id(q) # Id(p)
    BY Holder DEF SwapTun, SwapUndo, Locked, Starting, Stopping
<1>2. /\ pc[p] \in {"swapping", "swapUndo"}
      /\ \E l \in {"unlock", "take", "swapUndo"} : pc' = [pc EXCEPT ![p] = l]
    BY DEF SwapTun, SwapUndo, SwapFails, Only, Goes
<1>3. /\ pc' \in [Procs -> Pc] /\ pc'[p] \in {"unlock", "take", "swapUndo"}
      /\ \A q \in Procs : q # p => pc'[q] = pc[q]
    BY <1>2 DEF Types, Pc, Starting, Stopping
<1>4. UNCHANGED <<lifecycle, starting, rebinding, call, taken, count, node, told, port, degraded, broken,
   unjoined>>
    BY DEF SwapTun, SwapUndo, SwapFails, Only, lock, procs, nodes
<1>5. slot \in EngineRec /\ slot # None /\ slot.id \in Ids /\ slot.tun \in Ids
    BY <1>1, <1>2 DEF Installed, Types, EngineRec
<1>6. \/ /\ pc'[p] = "unlock" /\ slot' = [slot EXCEPT !.tun = Id(p)] /\ dups' = dups \ {slot.tun}
         /\ ret' = [ret EXCEPT ![p] = "ok"] /\ pump' = pump
      \/ /\ pc'[p] = "take" /\ \E l \in {"ended", "left"} : pump' = [pump EXCEPT ![slot.id] = l]
         /\ dups' = dups \ {Id(p)} /\ slot' = slot /\ ret' = ret
      \/ pc'[p] = "swapUndo" /\ UNCHANGED <<slot, dups, ret, pump>>
    BY <1>1, <1>2 DEF SwapTun, SwapUndo, SwapFails, Only, Goes, Types
<1>7. slot' \in EngineRec /\ slot'.id = slot.id /\ slot'.cfg = slot.cfg
    BY <1>1, <1>2, <1>5, <1>6 DEF EngineRec
<1>8. slot' # None
    BY <1>1, <1>2, <1>7 DEF EngineRec, Ids
<1>9. /\ pump' \in [Ids -> {"none", "up", "ended", "left"}]
      /\ \A i \in Ids : i # slot.id => pump'[i] = pump[i]
    BY <1>1, <1>2, <1>5, <1>6 DEF Types
<1>10. /\ ret' \in [Procs -> {"none", "ok", "err"}] /\ (pc'[p] = "unlock" => ret'[p] = "ok")
      /\ \A q \in Procs : q # p => ret'[q] = ret[q]
    BY <1>1, <1>2, <1>6 DEF Types
<1>11. pc'[p] = "unlock" => slot'.tun = Id(p)
    BY <1>1, <1>2, <1>5, <1>6 DEF EngineRec
<1>12. pc'[p] = "take" => pump'[slot.id] # "up"
    BY <1>1, <1>2, <1>5, <1>6 DEF Types
<1>13. Flags' BY <1>1, Zenon DEF Flags, SwapTun, SwapUndo, SwapFails, Only, lock, procs, nodes
<1>14. Types' BY <1>1, <1>2, <1>3, <1>4, <1>5, <1>6, <1>7, <1>8, <1>9, <1>10, <1>11, <1>12 DEF
   Types
<1>15. Exclusive' BY <1>1, <1>2, <1>3, <1>4 DEF Exclusive, Types, Outside, Locked, Starting,
   Stopping
<1>16. StartingFlag' BY <1>1, <1>2, <1>3, <1>4, <1>5, <1>6, <1>7, <1>8, <1>9, <1>10, <1>11, <1>12
   DEF StartingFlag, Types, Outside, Building, Starting
<1>17. RebindingFlag' BY <1>1, <1>2, <1>3, <1>4, SameRebinders DEF Outside
<1>18. Numbers' BY <1>1, <1>2, <1>3, <1>4 DEF Numbers, Types, Id
<1>19. Operations' BY <1>1, <1>2, <1>3, <1>4 DEF Operations, Types, Outside, Starting, Stopping
<1>20. Results' BY <1>1, <1>2, <1>3, <1>4, <1>5, <1>6, <1>7, <1>8, <1>9, <1>10, <1>11, <1>12 DEF
   Results, Types, Outside, Starting, Stopping
<1>21. Unused' BY <1>1, <1>2, <1>3, <1>4, <1>5, <1>6, <1>7, <1>8, <1>9, <1>10, <1>11, <1>12 DEF
   Unused, Flags, Types, Untouched, Ids, Installed, Ending
<1>22. Fresh' BY <1>1, <1>2, <1>3, <1>4, <1>5, <1>6, <1>7, <1>8, <1>9, <1>10, <1>11, <1>12 DEF
   Fresh, Flags, Types, Outside, Id, Unborn, Untouched, Stopping, Installed, Ending
<1>23. Installed' BY <1>1, <1>2, <1>3, <1>4, <1>5, <1>6, <1>7, <1>8, <1>9, <1>10, <1>11, <1>12 DEF
   Installed, Types, Outside, Id, Living, Stopping
<1>24. Begun' BY <1>1, <1>2, <1>3, <1>4, <1>5, <1>6, <1>7, <1>8, <1>9, <1>10, <1>11, <1>12 DEF
   Begun, Flags, Types, Outside, Id, Living, Fresh, Unborn, Untouched
<1>25. Ending' BY <1>1, <1>2, <1>3, <1>4, <1>5, <1>6, <1>7, <1>8, <1>9, <1>10, <1>11, <1>12 DEF
   Ending, Types, Outside, Stopping
<1>26. Dups'
    <2>1. CASE pc'[p] = "unlock"
        BY <2>1, <1>1, <1>2, <1>3, <1>4, <1>5, <1>6, <1>7, <1>8, <1>9, <1>10, <1>11, <1>12 DEF Dups,
            Outside, Own, Stopping, Types, Id
    <2>2. CASE pc'[p] = "take"
        BY <2>2, <1>1, <1>2, <1>3, <1>4, <1>5, <1>6, <1>7, <1>8, <1>9, <1>10, <1>11, <1>12 DEF Dups,
            Outside, Own, Stopping, Types, Id
    <2>3. CASE pc'[p] = "swapUndo"
        BY <2>3, <1>1, <1>2, <1>3, <1>4, <1>5, <1>6 DEF Dups, Outside, Own, Stopping, Types, Id
    <2>4. QED BY <2>1, <2>2, <2>3, <1>3
<1>27. Pumps' BY <1>1, <1>2, <1>3, <1>4, <1>5, <1>6, <1>7, <1>8, <1>9, <1>10, <1>11, <1>12 DEF
   Pumps, Types, Outside, Id, Installed, Living, Ending, Stopping, Begun
<1>28. Nodes' BY <1>1, <1>2, <1>3, <1>4, <1>5, <1>6, <1>7, <1>8, <1>9, <1>10, <1>11, <1>12 DEF
   Nodes, Flags, Types, Outside, Id, Current, Holds, Living, Stopping, Installed, Begun, Ending,
   Fresh, Unborn, Untouched
<1>29. Port' BY <1>1, <1>2, <1>3, <1>4, <1>5, <1>6, <1>7, <1>8, <1>9, <1>10, <1>11, <1>12 DEF
   Port, Fresh, Unborn, Untouched, Ids, Types
<1>30. QED BY <1>13, <1>14, <1>15, <1>16, <1>17, <1>18, <1>19, <1>20, <1>21, <1>22, <1>23, <1>24,
   <1>25, <1>26, <1>27, <1>28, <1>29

-----------------------------------------------------------------------------
(* The node threads.                                                       *)

\* Two nodes that live have one that was given up on between them.
LEMMA OneCurrent ==
    ASSUME IInv, NEW i \in Ids, NEW j \in Ids, i # j,
           node[i] \in {"starting", "up"}, node[j] \in {"starting", "up"}
    PROVE  i \in unjoined \/ j \in unjoined
<1> USE DEF IInv
<1>1. SUFFICES ASSUME Current(i), Current(j) PROVE FALSE BY DEF Nodes
<1>2. CASE slot # None
    <2>1. \A p \in Procs : pc[p] \notin Living \cup Stopping BY <1>2 DEF Installed
    <2>2. QED BY <1>1, <1>2, <2>1 DEF Current, Holds
<1>3. CASE slot = None BY <1>1, <1>3 DEF Current, Holds, Living, Stopping
<1>4. QED BY <1>2, <1>3

\* A node comes up, fails, ends or breaks: only its own thread and the port change.
LEMMA NodeInv ==
    ASSUME IInv, NEW i \in Ids, NodeUp(i) \/ NodeFails(i) \/ NodeStops(i) \/ NodeBreaks(i)
    PROVE  IInv'
<1> USE DEF IInv
<1>1. UNCHANGED <<lifecycle, starting, rebinding, slot, pc, call, taken, ret, count, told, unjoined,
          pump, dups>>
    BY DEF NodeUp, NodeFails, NodeStops, NodeBreaks, lock, procs
<1>2. \/ node[i] = "starting" /\ node' = [node EXCEPT ![i] = "up"] /\ broken' = broken
      \/ node[i] = "starting" /\ node' = [node EXCEPT ![i] = "gone"] /\ broken' = broken
      \/ node[i] = "up" /\ told[i] /\ node' = [node EXCEPT ![i] = "gone"] /\ broken' = broken
      \/ node[i] = "up" /\ node' = [node EXCEPT ![i] = "gone"] /\ broken' = broken \cup {i}
    BY DEF NodeUp, NodeFails, NodeStops, NodeBreaks
<1>3. /\ \/ node[i] = "starting" /\ node'[i] \in {"up", "gone"} /\ broken' = broken
         \/ node[i] = "up" /\ told[i] /\ node'[i] = "gone" /\ broken' = broken
         \/ node[i] = "up" /\ node'[i] = "gone" /\ broken' = broken \cup {i}
      /\ \A j \in Ids : j # i => node'[j] = node[j]
    BY <1>2 DEF Types
<1>4. node' \in [Ids -> {"none", "starting", "up", "gone"}] BY <1>2 DEF Types
<1>5. port' \in 0..MaxCalls /\ degraded' \subseteq Ids
    <2>1. CASE NodeUp(i)
        <3>1. port' \in {port, i} /\ degraded' \in {degraded, degraded \cup {i}} BY <2>1 DEF NodeUp
        <3>2. QED BY <3>1 DEF Types, Ids
    <2>2. CASE NodeFails(i) \/ NodeStops(i) \/ NodeBreaks(i)
        BY <2>2 DEF NodeFails, NodeStops, NodeBreaks, Types
    <2>3. QED BY <2>1, <2>2
<1>6. Flags' BY <1>1 DEF Flags
<1>7. Types' BY <1>1, <1>3, <1>4, <1>5 DEF Types
<1>8. Exclusive' /\ StartingFlag' /\ RebindingFlag' /\ Numbers' /\ Operations' /\ Results' /\ Dups' /\ Pumps'
    BY <1>1 DEF Exclusive, StartingFlag, RebindingFlag, Rebinder, Numbers, Operations, Results, Dups,
        Own, Pumps, Id
<1>9. Unused' BY <1>1, <1>3 DEF Unused, Untouched
<1>10. Fresh'
    <2>1. \A p \in Procs : pc[p] \in Unborn => Id(p) \in Ids
        BY DEF Numbers, Unborn, Stopping, Types, Ids, Id
    <2>2. QED BY <2>1, <1>1, <1>3 DEF Fresh, Untouched, Id
<1>11. Installed' BY <1>1, <1>3 DEF Installed, Types, EngineRec
<1>12. Begun'
    <2>1. \A p \in Procs : pc[p] \in Living => Id(p) \in Ids
        BY DEF Numbers, Living, Types, Ids, Id
    <2>2. QED BY <2>1, <1>1, <1>3 DEF Begun, Id, Living
<1>13. Ending'
    <2>1. \A p \in Procs : pc[p] \in Stopping => taken[p].id \in Ids
        BY DEF Ending, Types, EngineRec
    <2>2. \A p \in Procs : pc[p] = "close" => pc[p] \in Stopping BY DEF Stopping
    <2>3. QED BY <2>1, <2>2, <1>1, <1>3 DEF Ending
<1>14. Nodes'
    <2>1. \A j \in Ids : Current(j)' <=> Current(j) BY <1>1 DEF Current, Holds, Id
    <2>2. i \notin broken BY <1>3 DEF Nodes
    <2>3. broken \subseteq Ids BY DEF Types
    <2>4. \A j \in broken' : node'[j] = "gone" BY <1>3, <2>2, <2>3 DEF Nodes
    <2>5. \A j \in Ids : node'[j] \in {"starting", "up"} => node[j] \in {"starting", "up"} BY <1>3
    <2>6. \A j \in Ids : told'[j] => node'[j] # "none" BY <1>1, <1>3 DEF Nodes
    <2>7. QED BY <2>1, <2>4, <2>5, <2>6, <1>1 DEF Nodes
<1>15. Port'
    <2>1. CASE NodeUp(i)
        <3>1. CASE port = 0
            BY <2>1, <3>1, <1>3 DEF NodeUp, Port, Types
        <3>2. CASE port # 0
            <4>1. port \in Ids /\ node[port] = "up" /\ port # i
                BY <2>1, <3>2 DEF NodeUp, Port, Types, Ids
            <4>2. unjoined # {} BY <2>1, <4>1, OneCurrent DEF NodeUp
            <4>3. port' = port BY <2>1, <3>2 DEF NodeUp
            <4>4. QED BY <4>1, <4>2, <4>3, <1>1, <1>3 DEF Port
        <3>3. QED BY <3>1, <3>2
    <2>2. CASE NodeFails(i)
        BY <2>2, <1>1, <1>3 DEF NodeFails, Port, Types, Ids
    <2>3. CASE NodeStops(i) \/ NodeBreaks(i)
        BY <2>3, <1>1, <1>3 DEF NodeStops, NodeBreaks, Port, Types, Ids
    <2>4. QED BY <2>1, <2>2, <2>3
<1>16. QED BY <1>6, <1>7, <1>8, <1>9, <1>10, <1>11, <1>12, <1>13, <1>14, <1>15

-----------------------------------------------------------------------------
(* The theorems.                                                           *)

\* The engine starts clean.
LEMMA InitInv == Init => IInv
<1> SUFFICES ASSUME Init PROVE IInv OBVIOUS
<1> USE DEF Init
<1>1. \A i \in Ids : Untouched(i) BY DEF Untouched
<1>2. Flags BY Zenon DEF Flags
<1>3. Types BY NoCallTyped DEF Types, Pc
<1>4. Exclusive BY DEF Exclusive, Locked, Starting, Stopping
<1>5. StartingFlag BY DEF StartingFlag, Building, Starting
<1>6. RebindingFlag BY DEF RebindingFlag, Rebinder
<1>7. Numbers /\ Operations /\ Results BY DEF Numbers, Operations, Results, Starting, Stopping
<1>8. Unused BY <1>1 DEF Unused
<1>9. Fresh /\ Begun BY DEF Fresh, Begun, Unborn, Living, Stopping
<1>10. Installed /\ Ending BY DEF Installed, Ending, Living, Stopping
<1>11. Dups /\ Pumps /\ Nodes /\ Port BY DEF Dups, Pumps, Nodes, Port
<1>12. QED BY <1>2, <1>3, <1>4, <1>5, <1>6, <1>7, <1>8, <1>9, <1>10, <1>11 DEF IInv

\* Every step keeps the invariant.
LEMMA NextInv == IInv /\ [Next]_vars => IInv'
<1> SUFFICES ASSUME IInv, [Next]_vars PROVE IInv' OBVIOUS
<1>1. ASSUME NEW p \in Procs, Step(p) PROVE IInv'
    BY <1>1, EnterRebindInv, LockInv, UnlockInv, RebindReturnsInv, StartCheckInv, StartSpawnInv,
        StartReadyInv,
       StartDupInv, StartJoinFailedInv, StartThreadsInv, StartInstallInv, StartFinishInv, StopTakeInv,
       StopJoinPumpInv, StopJoinNodeInv, StopCloseInv, RebindLookInv, SwapDupInv, SwapTunInv DEF Step
<1>2. ASSUME NEW p \in Procs, Undo(p) PROVE IInv'
    BY <1>2, StartThreadsInv, SwapTunInv DEF Undo
<1>3. ASSUME NEW p \in Procs, NEW o \in Ops, NEW c \in Cfgs, Invoke(p, o, c) PROVE IInv'
    BY <1>3, InvokeInv
<1>4. ASSUME NEW i \in Ids, NodeUp(i) \/ NodeFails(i) \/ NodeStops(i) \/ NodeBreaks(i) PROVE IInv'
    BY <1>4, NodeInv
<1>5. CASE UNCHANGED vars
    BY <1>5 DEF vars, lock, procs, nodes, IInv, Flags, Types, Exclusive, StartingFlag, RebindingFlag,
        Rebinder,
       Numbers, Operations, Results, Unused, Fresh, Untouched, Installed, Begun, Ending, Dups, Own,
           Pumps, Nodes,
       Current, Holds, Port, Id
<1>6. QED BY <1>1, <1>2, <1>3, <1>4, <1>5 DEF Next

\* The invariant holds for any threads, configurations, failures and number of calls.
THEOREM Invariance == Spec => []IInv
BY InitInv, NextInv, PTL DEF Spec

\* Every reachable state of the engine is of its type.
THEOREM TypeCorrect == Spec => []TypeOK
<1>1. IInv => TypeOK BY DEF IInv, Flags, Types, TypeOK
<1>2. QED BY <1>1, Invariance, PTL

\* Two nodes live at once, or one comes up without the responder port, only after a start that
\* gave up on its node thread without joining it: LIFECYCLE does what engine.rs:66-71 wants of it.
THEOREM NodesAreSerialized == Spec => []NodesSerialized
<1>1. ASSUME IInv PROVE NodesSerialized
    <2>1. ASSUME NEW i \in Ids, NEW j \in Ids, i # j, {node[i], node[j]} \subseteq {"starting", "up"}
          PROVE  {i, j} \cap unjoined # {}
        BY <1>1, <2>1, OneCurrent
    <2>2. degraded # {} => unjoined # {} BY <1>1 DEF IInv, Port
    <2>3. QED BY <2>1, <2>2 DEF NodesSerialized
<1>2. QED BY <1>1, Invariance, PTL

\* Whatever steps of the calls failed, between calls nothing is left over: no dup but the
\* engine's, no pump that runs without an engine, no node without one that was not told, no
\* flag, no lock; and the engine that is left has a node that came up, up unless it broke.
THEOREM NothingLeftOver == Spec => []QuiescentIsClean
<1>1. ASSUME IInv, Quiescent PROVE
        /\ lifecycle = None /\ ~starting /\ ~rebinding
        /\ dups = IF slot = None THEN {} ELSE {slot.tun}
        /\ slot # None => Ready(slot.id) /\ ~told[slot.id] /\ pump[slot.id] = "up"
        /\ \A i \in Ids : (slot = None \/ slot.id # i) => pump[i] # "up" /\ (told[i] \/ node[i] \in
               {"none", "gone"})
    <2> USE <1>1 DEF IInv, Quiescent
    <2>1. lifecycle = None
        BY DEF Exclusive, Types, Locked, Starting, Stopping
    <2>2. ~starting BY <2>1 DEF StartingFlag
    <2>3. ~rebinding BY DEF RebindingFlag, Rebinder
    <2>4. dups = IF slot = None THEN {} ELSE {slot.tun}
        <3>1. \A i \in Ids : i \in dups <=> slot # None /\ i = slot.tun BY <2>1 DEF Dups
        <3>2. slot # None => slot.tun \in Ids BY DEF Types, EngineRec
        <3>3. QED BY <3>1, <3>2 DEF Types
    <2>5. slot # None => Ready(slot.id) /\ ~told[slot.id] /\ pump[slot.id] = "up"
        BY <2>1 DEF Installed
    <2>6. ASSUME NEW i \in Ids, slot = None \/ slot.id # i
          PROVE  pump[i] # "up" /\ (told[i] \/ node[i] \in {"none", "gone"})
        BY <2>1, <2>6 DEF Pumps, Nodes, Current, Types
    <2>7. QED BY <2>1, <2>2, <2>3, <2>4, <2>5, <2>6
<1>2. IInv => QuiescentIsClean BY <1>1 DEF QuiescentIsClean
<1>3. QED BY <1>2, Invariance, PTL

-----------------------------------------------------------------------------
(* The engine implements EngineApi: every step is a step of the abstract   *)
(* engine or leaves it alone.                                              *)

\* What the refinement makes of the engine's state: the session, and where a call is.
ApiSession == IF slot = None THEN None ELSE [cfg |-> slot.cfg, tun |-> slot.tun]
PhaseAt(p) ==
    IF pc[p] = "idle" THEN "idle"
    ELSE IF ret[p] # "none" THEN "done"
    ELSE IF call[p].op = "rebind" /\ pc[p] \in Starting \cup Stopping THEN "mid"
    ELSE "called"
ApiPhase == [p \in Procs |-> PhaseAt(p)]

\* There is a session just when the slot is taken.
LEMMA SessionInSlot ==
    ASSUME IInv
    PROVE  /\ ApiSession = None <=> slot = None
           /\ slot # None => ApiSession = [cfg |-> slot.cfg, tun |-> slot.tun] /\ ApiSession.cfg = slot.cfg
<1>1. slot # None => slot.cfg \in Cfgs /\ slot.tun \in Nat
    BY DEF IInv, Types, EngineRec, Ids
<1>2. slot # None => [cfg |-> slot.cfg, tun |-> slot.tun] \in [cfg : Cfgs, tun : Nat] BY <1>1
<1>3. QED BY <1>2 DEF ApiSession

\* Only the thread that moves changes its phase.
LEMMA PhaseMoves ==
    ASSUME NEW p \in Procs, \A q \in Procs : q # p => pc'[q] = pc[q] /\ ret'[q] = ret[q] /\ call'[q] = call[q]
    PROVE  ApiPhase' = [ApiPhase EXCEPT ![p] = PhaseAt(p)']
<1>1. \A q \in Procs : q # p => PhaseAt(q)' = PhaseAt(q) BY DEF PhaseAt
<1>2. QED BY <1>1 DEF ApiPhase

\* While a thread holds LIFECYCLE no other is between the two halves of a restart.
LEMMA NobodyElseMid ==
    ASSUME IInv, NEW p \in Procs, pc[p] \in Locked, NEW q \in Procs, q # p
    PROVE  PhaseAt(q) # "mid"
BY Holder DEF PhaseAt, Outside, Starting, Stopping

\* A step that moves a thread within its phase is none of the abstract engine's.
LEMMA Unseen ==
    ASSUME NEW p \in Procs, \A q \in Procs : q # p => pc'[q] = pc[q], UNCHANGED <<slot, call, ret, count>>,
           PhaseAt(p)' = PhaseAt(p)
    PROVE  UNCHANGED Api!apiVars
<1>1. \A q \in Procs : PhaseAt(q)' = PhaseAt(q) BY DEF PhaseAt
<1>2. ApiPhase' = ApiPhase BY <1>1 DEF ApiPhase
<1>3. ApiSession' = ApiSession BY DEF ApiSession
<1>4. QED BY <1>2, <1>3 DEF Api!apiVars, ApiPhase, PhaseAt, ApiSession

\* The call of thread p takes effect with result r, and the session becomes s.
Decides(p, s, r) ==
    /\ ApiSession' = s
    /\ ApiPhase' = [ApiPhase EXCEPT ![p] = "done"]
    /\ ret' = [ret EXCEPT ![p] = r]
    /\ UNCHANGED <<call, count>>

\* The steps of the abstract engine, in terms of this one.  A start fails or takes effect.
LEMMA ApiStart ==
    ASSUME NEW p \in Procs, ApiPhase[p] = "called", call[p].op = "start",
           \/ Decides(p, ApiSession, "err")
           \/ /\ ApiSession = None /\ \A q \in Procs : ApiPhase[q] # "mid"
              /\ Decides(p, [cfg |-> call[p].cfg, tun |-> call[p].tun], "ok")
    PROVE  Api!Next
<1>1. CASE Decides(p, ApiSession, "err")
    <2>1. Api!StartErr(p)
        BY <1>1 DEF Api!StartErr, Api!Decide, Decides, ApiPhase, ApiSession, PhaseAt
    <2>2. QED BY <2>1 DEF Api!Next
<1>2. CASE /\ ApiSession = None /\ \A q \in Procs : ApiPhase[q] # "mid"
           /\ Decides(p, [cfg |-> call[p].cfg, tun |-> call[p].tun], "ok")
    <2>1. Api!StartOk(p)
        BY <1>2 DEF Api!StartOk, Api!NobodyMid, Api!Wanted, Api!Decide, Decides, ApiPhase, ApiSession, PhaseAt
    <2>2. QED BY <2>1 DEF Api!Next
<1>3. QED BY <1>1, <1>2

\* A stop leaves no session.
LEMMA ApiStop ==
    ASSUME NEW p \in Procs, ApiPhase[p] = "called", call[p].op = "stop",
           \A q \in Procs : ApiPhase[q] # "mid", Decides(p, None, "ok")
    PROVE  Api!Next
<1>1. Api!Stop(p)
    BY DEF Api!Stop, Api!NobodyMid, Api!Decide, Decides, ApiPhase, ApiSession, PhaseAt
<1>2. QED BY <1>1 DEF Api!Next

\* A rebind has nothing to do, or is coalesced.
LEMMA ApiNothing ==
    ASSUME NEW p \in Procs, ApiPhase[p] = "called", call[p].op = "rebind", Decides(p, ApiSession, "ok"),
           \/ ApiSession = None /\ \A q \in Procs : ApiPhase[q] # "mid"
           \/ \E q \in Procs \ {p} : call[q].op = "rebind" /\ ApiPhase[q] # "idle"
    PROVE  Api!Next
<1>1. Api!RebindNothing(p)
    BY DEF Api!RebindNothing, Api!NobodyMid, Api!Decide, Decides, ApiPhase, ApiSession, PhaseAt
<1>2. QED BY <1>1 DEF Api!Next

\* A rebind moves the session.
LEMMA ApiMove ==
    ASSUME NEW p \in Procs, ApiPhase[p] = "called", call[p].op = "rebind",
           \A q \in Procs : ApiPhase[q] # "mid", ApiSession # None, ApiSession.cfg = call[p].cfg,
           Decides(p, [cfg |-> call[p].cfg, tun |-> call[p].tun], "ok")
    PROVE  Api!Next
<1>1. Api!RebindMove(p)
    BY DEF Api!RebindMove, Api!NobodyMid, Api!Wanted, Api!Decide, Decides, ApiPhase, ApiSession, PhaseAt
<1>2. QED BY <1>1 DEF Api!Next

\* A restart goes down.
LEMMA ApiDown ==
    ASSUME NEW p \in Procs, ApiPhase[p] = "called", call[p].op = "rebind",
           \A q \in Procs : ApiPhase[q] # "mid", ApiSession # None, ApiSession' = None,
           ApiPhase' = [ApiPhase EXCEPT ![p] = "mid"], UNCHANGED <<call, ret, count>>
    PROVE  Api!Next
<1>1. Api!RebindDown(p)
    BY DEF Api!RebindDown, Api!NobodyMid, ApiPhase, ApiSession, PhaseAt
<1>2. QED BY <1>1 DEF Api!Next

\* A restart comes up or fails.
LEMMA ApiUp ==
    ASSUME NEW p \in Procs, ApiPhase[p] = "mid",
           \/ Decides(p, ApiSession, "err")
           \/ Decides(p, [cfg |-> call[p].cfg, tun |-> call[p].tun], "ok")
    PROVE  Api!Next
<1>1. CASE Decides(p, ApiSession, "err")
    <2>1. Api!RebindFailed(p)
        BY <1>1 DEF Api!RebindFailed, Api!Decide, Decides, ApiPhase, ApiSession, PhaseAt
    <2>2. QED BY <2>1 DEF Api!Next
<1>2. CASE Decides(p, [cfg |-> call[p].cfg, tun |-> call[p].tun], "ok")
    <2>1. Api!RebindUp(p)
        BY <1>2 DEF Api!RebindUp, Api!Wanted, Api!Decide, Decides, ApiPhase, ApiSession, PhaseAt
    <2>2. QED BY <2>1 DEF Api!Next
<1>3. QED BY <1>1, <1>2

\* A call returns.
LEMMA ApiReturn ==
    ASSUME NEW p \in Procs, ApiPhase[p] = "done", ApiPhase' = [ApiPhase EXCEPT ![p] = "idle"],
           call' = [call EXCEPT ![p] = NoCall], ret' = [ret EXCEPT ![p] = "none"],
           ApiSession' = ApiSession, count' = count
    PROVE  Api!Next
<1>1. Api!Return(p)
    BY DEF Api!Return, Api!NoCall, NoCall, AnyCfg, ApiPhase, ApiSession, PhaseAt
<1>2. QED BY <1>1 DEF Api!Next

\* A call is made.
LEMMA ApiInvoke ==
    ASSUME NEW p \in Procs, NEW c \in [op : Ops, cfg : Cfgs, tun : 0..MaxCalls],
           ApiPhase[p] = "idle", count < MaxCalls, c.tun = count + 1, count' = count + 1,
           call' = [call EXCEPT ![p] = c], ret' = [ret EXCEPT ![p] = "none"],
           ApiPhase' = [ApiPhase EXCEPT ![p] = "called"], ApiSession' = ApiSession
    PROVE  Api!Next
<1>1. Api!Invoke(p, c)
    BY DEF Api!Invoke, ApiPhase, ApiSession, PhaseAt
<1>2. c \in Api!Call BY DEF Api!Call, Api!Ops, Ops
<1>3. QED BY <1>1, <1>2 DEF Api!Next

\* The steps that are none of the abstract engine's: the call has not taken effect, or has already.
LEMMA QuietSteps ==
    ASSUME IInv, NEW p \in Procs,
           \/ Lock(p) \/ StartSpawn(p) \/ StartReady(p) \/ StartDup(p) \/ StartJoinFailed(p)
           \/ StartThreads(p) \/ StartUndo(p)
           \/ StopJoinPump(p) \/ StopJoinNode(p) \/ StopClose(p) \/ SwapDup(p)
    PROVE  UNCHANGED Api!apiVars
<1> USE DEF IInv
<1>1. UNCHANGED <<slot, call, ret, count>>
    BY DEF Lock, StartSpawn, StartReady, StartDup, StartJoinFailed, StartThreads, StartUndo, ThreadsFail,
       StopJoinPump, StopJoinNode, StopClose, SwapDup, Only, procs
<1>2. PICK l : pc' = [pc EXCEPT ![p] = l]
    BY DEF Lock, StartSpawn, StartReady, StartDup, StartJoinFailed, StartThreads, StartUndo, ThreadsFail,
       StopJoinPump, StopJoinNode, StopClose, SwapDup, Only, Goes
<1>3. pc'[p] = l /\ \A q \in Procs : q # p => pc'[q] = pc[q] BY <1>2 DEF Types
<1>4. PhaseAt(p)' = PhaseAt(p)
    <2>1. CASE Lock(p)
        <3>1. call[p].op \in Ops /\ pc[p] = "lock" /\ pc'[p] = Body(call[p].op)
            BY <2>1 DEF Lock, Goes, Types
        <3>2. \/ call[p].op = "start" /\ pc'[p] = "check"
              \/ call[p].op = "stop" /\ pc'[p] = "take"
              \/ call[p].op = "rebind" /\ pc'[p] = "look"
            BY <3>1, Bodies DEF Ops
        <3>3. QED BY <3>1, <3>2, <1>1 DEF PhaseAt, Starting, Stopping
    <2>2. CASE StartSpawn(p) \/ StartReady(p) \/ StartDup(p) \/ StartJoinFailed(p) \/ StartThreads(p) \/ StartUndo(p)
        <3>1. pc[p] \in Starting /\ pc'[p] \in Starting
            BY <2>2 DEF StartSpawn, StartReady, StartDup, StartJoinFailed, StartThreads, StartUndo, ThreadsFail,
                Only, Goes, Types, Starting
        <3>2. QED BY <3>1, <1>1 DEF PhaseAt, Starting
    <2>3. CASE StopJoinPump(p) \/ StopJoinNode(p)
        <3>1. pc[p] \in Stopping /\ pc'[p] \in Stopping
            BY <2>3 DEF StopJoinPump, StopJoinNode, Only, Goes, Types, Stopping
        <3>2. QED BY <3>1, <1>1 DEF PhaseAt, Stopping
    <2>4. CASE StopClose(p)
        <3>1. pc[p] = "close" /\ pc'[p] = (IF call[p].op = "stop" THEN "unlock" ELSE "check")
            BY <2>4 DEF StopClose, Goes, Types
        <3>2. QED BY <3>1, <1>1 DEF PhaseAt, Results, Operations, Starting, Stopping
    <2>5. CASE SwapDup(p)
        <3>1. pc[p] = "swap" /\ pc'[p] \in {"swapping", "take"} BY <2>5 DEF SwapDup, Only, Goes, Types
        <3>2. QED BY <3>1, <1>1 DEF PhaseAt, Starting, Stopping
    <2>6. QED BY <2>1, <2>2, <2>3, <2>4, <2>5
<1>5. QED BY <1>1, <1>3, <1>4, Unseen

\* A call is made.
LEMMA InvokeSim ==
    ASSUME IInv, NEW p \in Procs, NEW o \in Ops, NEW c \in Cfgs, Invoke(p, o, c)
    PROVE  Api!Next
<1> USE DEF IInv
<1> DEFINE call1 == [op |-> o, cfg |-> c, tun |-> count + 1]
<1>1. /\ count < MaxCalls /\ count' = count + 1 /\ call' = [call EXCEPT ![p] = call1]
      /\ ret' = [ret EXCEPT ![p] = "none"] /\ slot' = slot
    BY DEF Invoke
<1>2. call1 \in [op : Ops, cfg : Cfgs, tun : 0..MaxCalls] /\ call1.tun = count + 1
    BY <1>1 DEF Types
<1>3. /\ pc[p] = "idle" /\ pc'[p] \in {"enter", "lock"} /\ ret'[p] = "none"
      /\ \A q \in Procs : q # p => pc'[q] = pc[q] /\ ret'[q] = ret[q] /\ call'[q] = call[q]
    BY <1>1 DEF Invoke, Goes, Types
<1>4. PhaseAt(p)' = "called" BY <1>3 DEF PhaseAt, Starting, Stopping
<1>5. ApiPhase' = [ApiPhase EXCEPT ![p] = "called"] BY <1>3, <1>4, PhaseMoves
<1>6. ApiPhase[p] = "idle" BY <1>3 DEF ApiPhase, PhaseAt
<1>7. ApiSession' = ApiSession BY <1>1 DEF ApiSession
<1> HIDE DEF call1
<1>8. QED BY <1>1, <1>2, <1>5, <1>6, <1>7, ApiInvoke

\* A thread leaves the engine with its result.
LEMMA LeavesSim ==
    ASSUME IInv, NEW p \in Procs, pc[p] \in {"unlock", "leave", "return"}, Leaves(p), UNCHANGED <<slot,
        count>>
    PROVE  Api!Next
<1> USE DEF IInv
<1>1. /\ call' = [call EXCEPT ![p] = NoCall] /\ ret' = [ret EXCEPT ![p] = "none"] /\ pc'[p] = "idle"
      /\ \A q \in Procs : q # p => pc'[q] = pc[q] /\ ret'[q] = ret[q] /\ call'[q] = call[q]
    BY DEF Leaves, Goes, Types
<1>2. PhaseAt(p)' = "idle" BY <1>1 DEF PhaseAt
<1>3. ApiPhase' = [ApiPhase EXCEPT ![p] = "idle"] BY <1>1, <1>2, PhaseMoves
<1>4. ApiPhase[p] = "done" BY DEF ApiPhase, PhaseAt, Results
<1>5. ApiSession' = ApiSession BY DEF ApiSession
<1>6. QED BY <1>1, <1>3, <1>4, <1>5, ApiReturn

\* A call returns; a rebind still has REBINDING to clear.
LEMMA ReturnsSim ==
    ASSUME IInv, NEW p \in Procs, Unlock(p) \/ LeaveRebind(p) \/ Return(p)
    PROVE  Api!Next \/ UNCHANGED Api!apiVars
<1> USE DEF IInv
<1>1. CASE LeaveRebind(p) \/ Return(p)
    BY <1>1, LeavesSim DEF LeaveRebind, Return
<1>2. CASE Unlock(p) /\ call[p].op # "rebind"
    BY <1>2, LeavesSim DEF Unlock
<1>3. CASE Unlock(p) /\ call[p].op = "rebind"
    <2>1. /\ UNCHANGED <<slot, call, ret, count>> /\ pc[p] = "unlock" /\ pc'[p] = "leave"
          /\ \A q \in Procs : q # p => pc'[q] = pc[q]
        BY <1>3 DEF Unlock, Goes, Types
    <2>2. PhaseAt(p)' = PhaseAt(p) BY <2>1 DEF PhaseAt, Starting, Stopping
    <2>3. QED BY <2>1, <2>2, Unseen
<1>4. QED BY <1>1, <1>2, <1>3

\* The call of a thread takes effect: its result is fixed and no other thread's phase changes.
LEMMA DecidesSim ==
    ASSUME IInv, NEW p \in Procs, NEW l \in Pc \ {"idle"}, NEW r \in {"ok", "err"},
           pc' = [pc EXCEPT ![p] = l], ret' = [ret EXCEPT ![p] = r], UNCHANGED <<call, count>>
    PROVE  Decides(p, ApiSession', r)
<1>1. /\ pc'[p] = l /\ ret'[p] = r
      /\ \A q \in Procs : q # p => pc'[q] = pc[q] /\ ret'[q] = ret[q] /\ call'[q] = call[q]
    BY DEF IInv, Types
<1>2. PhaseAt(p)' = "done" BY <1>1 DEF PhaseAt
<1>3. ApiPhase' = [ApiPhase EXCEPT ![p] = "done"] BY <1>1, <1>2, PhaseMoves
<1>4. QED BY <1>3 DEF Decides

\* network_changed finds another one running, and only then returns without the lock.
LEMMA EnterRebindSim ==
    ASSUME IInv, NEW p \in Procs, EnterRebind(p)
    PROVE  Api!Next \/ UNCHANGED Api!apiVars
<1> USE DEF IInv
<1>1. pc[p] = "enter" /\ UNCHANGED <<slot, call, count>> /\ call[p].op = "rebind" /\ ret[p] = "none"
    BY DEF EnterRebind, Operations, Results
<1>2. ApiPhase[p] = "called" BY <1>1 DEF ApiPhase, PhaseAt, Starting, Stopping
<1>3. CASE rebinding
    <2>1. pc' = [pc EXCEPT ![p] = "return"] /\ ret' = [ret EXCEPT ![p] = "ok"]
        BY <1>3 DEF EnterRebind, Goes
    <2>2. ApiSession' = ApiSession BY <1>1 DEF ApiSession
    <2>3. Decides(p, ApiSession, "ok") BY <1>1, <2>1, <2>2, DecidesSim DEF Pc
    <2>4. PICK q \in Procs : Rebinder(q) BY <1>3 DEF RebindingFlag
    <2>5. q # p /\ call[q].op = "rebind" /\ ApiPhase[q] # "idle" BY <2>4, <1>1 DEF Rebinder, ApiPhase, PhaseAt
    <2>6. QED BY <1>1, <1>2, <2>3, <2>5, ApiNothing
<1>4. CASE ~rebinding
    <2>1. ret' = ret /\ pc'[p] = "lock" /\ \A q \in Procs : q # p => pc'[q] = pc[q]
        BY <1>4 DEF EnterRebind, Goes, Types
    <2>2. PhaseAt(p)' = PhaseAt(p) BY <2>1, <1>1 DEF PhaseAt, Starting, Stopping
    <2>3. QED BY <2>1, <2>2, <1>1, Unseen
<1>5. QED BY <1>3, <1>4

\* The thread that holds LIFECYCLE and has no result: no other call is in the middle of a restart.
LEMMA HolderPhase ==
    ASSUME IInv, NEW p \in Procs, pc[p] \in Locked, ret[p] = "none"
    PROVE  /\ ApiPhase[p] = IF call[p].op = "rebind" /\ pc[p] \in Starting \cup Stopping
                            THEN "mid" ELSE "called"
           /\ ApiPhase[p] = "called" => \A q \in Procs : ApiPhase[q] # "mid"
<1>1. pc[p] # "idle" BY DEF Locked, Starting, Stopping
<1>2. ApiPhase[p] = IF call[p].op = "rebind" /\ pc[p] \in Starting \cup Stopping THEN "mid" ELSE "called"
    BY <1>1 DEF ApiPhase, PhaseAt
<1>3. \A q \in Procs : q # p => ApiPhase[q] # "mid" BY NobodyElseMid DEF ApiPhase
<1>4. QED BY <1>2, <1>3

\* A start fails, finds an engine running (a rebind never does: it has just stopped it), or goes on.
LEMMA StartCheckSim ==
    ASSUME IInv, NEW p \in Procs, StartCheck(p)
    PROVE  Api!Next \/ UNCHANGED Api!apiVars
<1> USE DEF IInv
<1>1. /\ pc[p] = "check" /\ pc[p] \in Locked /\ pc[p] \in Starting /\ UNCHANGED <<slot, call, count>>
      /\ call[p].op \in {"start", "rebind"} /\ ret[p] = "none"
    BY DEF StartCheck, Only, Operations, Results, Locked, Starting
<1>2. CASE slot # None \/ starting
    <2>1. pc' = [pc EXCEPT ![p] = "unlock"] /\ ret' = [ret EXCEPT ![p] = "err"]
        BY <1>2 DEF StartCheck, Only, Goes
    <2>2. ApiSession' = ApiSession BY <1>1 DEF ApiSession
    <2>3. Decides(p, ApiSession, "err") BY <1>1, <2>1, <2>2, DecidesSim DEF Pc
    <2>4. ~starting
        <3>1. lifecycle = p BY <1>1 DEF Exclusive
        <3>2. QED BY <3>1, <1>1 DEF StartingFlag, Building
    <2>5. call[p].op = "start" BY <1>1, <1>2, <2>4 DEF Installed
    <2>6. ApiPhase[p] = "called" BY <1>1, <2>5, HolderPhase
    <2>7. QED BY <2>3, <2>5, <2>6, ApiStart
<1>3. CASE ~(slot # None \/ starting)
    <2>1. ret' = ret /\ pc'[p] = "spawn" /\ \A q \in Procs : q # p => pc'[q] = pc[q]
        BY <1>3 DEF StartCheck, Only, Goes, Types
    <2>2. PhaseAt(p)' = PhaseAt(p) BY <2>1, <1>1 DEF PhaseAt, Starting
    <2>3. QED BY <2>1, <2>2, <1>1, Unseen
<1>4. QED BY <1>2, <1>3

\* The engine is installed: a start, or the second half of a restart, takes effect.
LEMMA StartInstallSim ==
    ASSUME IInv, NEW p \in Procs, StartInstall(p)
    PROVE  Api!Next
<1> USE DEF IInv
<1>1. /\ pc[p] = "install" /\ pc[p] \in Locked /\ pc[p] \in Starting /\ UNCHANGED <<call, count>>
      /\ call[p].op \in {"start", "rebind"} /\ ret[p] = "none" /\ slot = None
    BY DEF StartInstall, Only, Operations, Results, Installed, Living, Locked, Starting
<1>2. pc' = [pc EXCEPT ![p] = "finish"] /\ ret' = [ret EXCEPT ![p] = "ok"]
    BY DEF StartInstall, Only, Goes
<1>3. slot' = [id |-> Id(p), cfg |-> call[p].cfg, tun |-> Id(p)] BY DEF StartInstall
<1>4. IInv' BY StartInstallInv
<1>5. slot' # None
    <2>1. Id(p) \in Nat /\ call[p].cfg \in Cfgs BY DEF Types, Id
    <2>2. slot' \in [id : Nat, cfg : Cfgs, tun : Nat] BY <1>3, <2>1
    <2>3. QED BY <2>2
<1>6. ApiSession' = [cfg |-> call[p].cfg, tun |-> call[p].tun] BY <1>3, <1>5 DEF ApiSession, Id
<1>7. Decides(p, [cfg |-> call[p].cfg, tun |-> call[p].tun], "ok")
    BY <1>1, <1>2, <1>6, DecidesSim DEF Pc, Starting
<1>8. ApiSession = None BY <1>1 DEF ApiSession
<1>9. CASE call[p].op = "start" BY <1>1, <1>7, <1>8, <1>9, HolderPhase, ApiStart
<1>10. CASE call[p].op = "rebind" BY <1>1, <1>7, <1>10, HolderPhase, ApiUp
<1>11. QED BY <1>1, <1>9, <1>10

\* A start that did not install fails.
LEMMA StartFinishSim ==
    ASSUME IInv, NEW p \in Procs, StartFinish(p)
    PROVE  Api!Next \/ UNCHANGED Api!apiVars
<1> USE DEF IInv
<1>1. /\ pc[p] = "finish" /\ pc[p] \in Locked /\ pc[p] \in Starting /\ UNCHANGED <<slot, call, count>>
      /\ call[p].op \in {"start", "rebind"} /\ pc' = [pc EXCEPT ![p] = "unlock"]
    BY DEF StartFinish, Only, Goes, Operations, Locked, Starting
<1>2. CASE ret[p] = "none"
    <2>1. ret' = [ret EXCEPT ![p] = "err"] BY <1>2 DEF StartFinish, Types
    <2>2. ApiSession' = ApiSession BY <1>1 DEF ApiSession
    <2>3. Decides(p, ApiSession, "err") BY <1>1, <2>1, <2>2, DecidesSim DEF Pc
    <2>4. CASE call[p].op = "start" BY <1>1, <1>2, <2>3, <2>4, HolderPhase, ApiStart
    <2>5. CASE call[p].op = "rebind" BY <1>1, <1>2, <2>3, <2>5, HolderPhase, ApiUp
    <2>6. QED BY <1>1, <2>4, <2>5
<1>3. CASE ret[p] # "none"
    <2>1. ret' = ret BY <1>3 DEF StartFinish, Types
    <2>2. pc'[p] = "unlock" /\ \A q \in Procs : q # p => pc'[q] = pc[q] BY <1>1 DEF Types
    <2>3. PhaseAt(p)' = PhaseAt(p) BY <2>1, <2>2, <1>1, <1>3 DEF PhaseAt
    <2>4. QED BY <2>1, <2>2, <2>3, <1>1, Unseen
<1>4. QED BY <1>2, <1>3

\* A stop, or the first half of a restart, takes effect when the engine is taken out of the slot.
LEMMA StopTakeSim ==
    ASSUME IInv, NEW p \in Procs, StopTake(p)
    PROVE  Api!Next
<1> USE DEF IInv
<1>1. /\ pc[p] = "take" /\ pc[p] \in Locked /\ pc[p] \notin Starting \cup Stopping /\ UNCHANGED <<call,
             count>>
      /\ call[p].op \in {"stop", "rebind"} /\ ret[p] = "none" /\ slot' = None
    BY DEF StopTake, Operations, Results, Locked, Starting, Stopping
<1>2. ApiPhase[p] = "called" /\ \A q \in Procs : ApiPhase[q] # "mid" BY <1>1, HolderPhase
<1>3. ApiSession' = None BY <1>1 DEF ApiSession
<1>4. CASE call[p].op = "stop"
    <2>1. ret' = [ret EXCEPT ![p] = "ok"] BY <1>4 DEF StopTake, Types
    <2>2. PICK l \in {"unlock", "joinPump"} : pc' = [pc EXCEPT ![p] = l] BY DEF StopTake, Goes
    <2>3. Decides(p, None, "ok") BY <1>1, <1>3, <2>1, <2>2, DecidesSim DEF Pc, Stopping
    <2>4. QED BY <1>2, <1>4, <2>3, ApiStop
<1>5. CASE call[p].op = "rebind"
    <2>1. slot # None BY <1>1, <1>5 DEF Installed
    <2>2. ret' = ret BY <1>5 DEF StopTake, Types
    <2>3. pc'[p] = "joinPump" /\ \A q \in Procs : q # p => pc'[q] = pc[q] BY <2>1 DEF StopTake, Goes, Types
    <2>4. PhaseAt(p)' = "mid" BY <1>1, <1>5, <2>2, <2>3 DEF PhaseAt, Stopping
    <2>5. ApiPhase' = [ApiPhase EXCEPT ![p] = "mid"] BY <1>1, <2>2, <2>3, <2>4, PhaseMoves
    <2>6. ApiSession # None BY <2>1, SessionInSlot
    <2>7. QED BY <1>1, <1>2, <1>3, <1>5, <2>2, <2>5, <2>6, ApiDown
<1>6. QED BY <1>1, <1>4, <1>5

\* network_changed finds nothing running, or goes on.
LEMMA RebindLookSim ==
    ASSUME IInv, NEW p \in Procs, RebindLook(p)
    PROVE  Api!Next \/ UNCHANGED Api!apiVars
<1> USE DEF IInv
<1>1. /\ pc[p] = "look" /\ pc[p] \in Locked /\ pc[p] \notin Starting \cup Stopping
      /\ UNCHANGED <<slot, call, count>> /\ call[p].op = "rebind" /\ ret[p] = "none"
    BY DEF RebindLook, Only, Operations, Results, Locked, Starting, Stopping
<1>2. CASE slot = None
    <2>1. pc' = [pc EXCEPT ![p] = "unlock"] /\ ret' = [ret EXCEPT ![p] = "ok"]
        BY <1>2 DEF RebindLook, Only, Goes
    <2>2. ApiSession' = ApiSession /\ ApiSession = None BY <1>1, <1>2 DEF ApiSession
    <2>3. Decides(p, ApiSession, "ok") BY <1>1, <2>1, <2>2, DecidesSim DEF Pc
    <2>4. QED BY <1>1, <2>2, <2>3, HolderPhase, ApiNothing
<1>3. CASE slot # None
    <2>1. ret' = ret /\ pc'[p] \in {"swap", "take"} /\ \A q \in Procs : q # p => pc'[q] = pc[q]
        BY <1>3 DEF RebindLook, Only, Goes, Types
    <2>2. PhaseAt(p)' = PhaseAt(p) BY <2>1, <1>1 DEF PhaseAt, Starting, Stopping
    <2>3. QED BY <2>1, <2>2, <1>1, Unseen
<1>4. QED BY <1>2, <1>3

\* The session moves to the new tunnel, or the swap fails and the node is going to be restarted.
LEMMA SwapTunSim ==
    ASSUME IInv, NEW p \in Procs, SwapTun(p) \/ SwapUndo(p)
    PROVE  Api!Next \/ UNCHANGED Api!apiVars
<1> USE DEF IInv
<1>1. /\ pc[p] \in {"swapping", "swapUndo"} /\ pc[p] \in Locked /\ pc[p] \notin Starting \cup Stopping
      /\ UNCHANGED <<call, count>> /\ call[p].op = "rebind" /\ ret[p] = "none"
      /\ slot # None /\ slot.cfg = call[p].cfg
    BY DEF SwapTun, SwapUndo, SwapFails, Only, Operations, Results, Installed, Locked, Starting, Stopping
<1>2. CASE /\ slot' = [slot EXCEPT !.tun = Id(p)] /\ ret' = [ret EXCEPT ![p] = "ok"]
           /\ pc' = [pc EXCEPT ![p] = "unlock"]
    <2>1. slot \in EngineRec BY <1>1 DEF Types
    <2>2. slot' = [id |-> slot.id, cfg |-> slot.cfg, tun |-> Id(p)] BY <1>2, <2>1 DEF EngineRec
    <2>3. slot' # None
        <3>1. Id(p) \in Nat /\ slot.id \in Nat /\ slot.cfg \in Cfgs BY <2>1 DEF Types, Id, EngineRec, Ids
        <3>2. slot' \in [id : Nat, cfg : Cfgs, tun : Nat] BY <2>2, <3>1
        <3>3. QED BY <3>2
    <2>4. ApiSession' = [cfg |-> call[p].cfg, tun |-> call[p].tun] BY <1>1, <2>2, <2>3 DEF ApiSession, Id
    <2>5. Decides(p, [cfg |-> call[p].cfg, tun |-> call[p].tun], "ok")
        BY <1>1, <1>2, <2>4, DecidesSim DEF Pc
    <2>6. QED BY <1>1, <2>5, SessionInSlot, HolderPhase, ApiMove
<1>3. CASE UNCHANGED <<slot, ret>> /\ \E l \in {"take", "swapUndo"} : pc' = [pc EXCEPT ![p] = l]
    <2>1. pc'[p] \in {"take", "swapUndo"} /\ \A q \in Procs : q # p => pc'[q] = pc[q] BY <1>3 DEF Types
    <2>2. PhaseAt(p)' = PhaseAt(p) BY <2>1, <1>1, <1>3 DEF PhaseAt, Starting, Stopping
    <2>3. QED BY <2>1, <2>2, <1>1, <1>3, Unseen
<1>4. QED BY <1>2, <1>3 DEF SwapTun, SwapUndo, SwapFails, Only, Goes

\* start, stop and network_changed take effect as EngineApi says, for any threads, configurations
\* and failures: the slot is the session, and a restart is a pair of steps nothing comes between.
THEOREM RefinesApi == Spec => ImplementsApi
<1>1. Init => Api!Init
    <2> SUFFICES ASSUME Init PROVE Api!Init OBVIOUS
    <2>1. ApiPhase = [p \in Procs |-> "idle"] BY DEF Init, ApiPhase, PhaseAt
    <2>2. QED BY <2>1 DEF Init, Api!Init, Api!NoCall, NoCall, AnyCfg, ApiPhase, PhaseAt
<1>2. IInv /\ [Next]_vars => [Api!Next]_(Api!apiVars)
    <2> SUFFICES ASSUME IInv, [Next]_vars PROVE Api!Next \/ UNCHANGED Api!apiVars OBVIOUS
    <2>1. ASSUME NEW p \in Procs, Step(p) PROVE Api!Next \/ UNCHANGED Api!apiVars
        BY <2>1, QuietSteps, EnterRebindSim, ReturnsSim, StartCheckSim, StartInstallSim, StartFinishSim,
           StopTakeSim, RebindLookSim, SwapTunSim DEF Step
    <2>2. ASSUME NEW p \in Procs, Undo(p) PROVE Api!Next \/ UNCHANGED Api!apiVars
        BY <2>2, QuietSteps, SwapTunSim DEF Undo
    <2>3. ASSUME NEW p \in Procs, NEW o \in Ops, NEW c \in Cfgs, Invoke(p, o, c) PROVE Api!Next
        BY <2>3, InvokeSim
    <2>4. ASSUME UNCHANGED <<slot, pc, call, ret, count>> PROVE UNCHANGED Api!apiVars
        BY <2>4 DEF Api!apiVars
    <2>5. ASSUME NEW i \in Ids, NodeUp(i) \/ NodeFails(i) \/ NodeStops(i) \/ NodeBreaks(i)
          PROVE  UNCHANGED <<slot, pc, call, ret, count>>
        BY <2>5 DEF NodeUp, NodeFails, NodeStops, NodeBreaks, procs
    <2>6. CASE UNCHANGED vars
        <3>1. UNCHANGED <<slot, pc, call, ret, count>> BY <2>6 DEF vars, procs
        <3>2. QED BY <3>1, <2>4
    <2>7. QED BY <2>1, <2>2, <2>3, <2>4, <2>5, <2>6 DEF Next
<1>3. QED BY <1>1, <1>2, Invariance, PTL DEF Spec, ImplementsApi, Api!Spec
=============================================================================
