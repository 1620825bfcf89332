----------------------------- MODULE VpnService -----------------------------
(***************************************************************************)
(* The Android service of FipsVpnService.kt: its main thread (intents,     *)
(* network callbacks, finishShutdown, onDestroy), the fips-connect thread  *)
(* of each attempt, the fips-disconnect thread and the fips-rebind worker, *)
(* over the engine as EngineApi describes it: start, stop and a tunnel     *)
(* swap take effect at once; a restart by onNetworkChanged has the engine  *)
(* down for a while, seen by isRunning(), with every other call waiting.   *)
(*                                                                         *)
(* Tunnels are numbered as establish() makes them; 0 is null or none.      *)
(***************************************************************************)
EXTENDS Integers, RebindFlags

CONSTANTS
    MaxAttempts,    \* bound: attempt numbers, enough for every scenario
    Scenarios       \* what the environment does: a set of records with a name, how many
                    \* CONNECT and DISCONNECT intents, changes of the network's IPv6 (flips)
                    \* and CONFIG_CHANGED intents (settings) there are, and which of
                    \* "establish", "start" and "identity" may fail

ASSUME ScenariosAssumption ==
    /\ MaxAttempts \in Nat
    /\ Scenarios \subseteq [name : STRING, connects : Nat, disconnects : Nat, flips : Nat, settings : Nat,
                            failures : SUBSET {"establish", "start", "identity"}]
    /\ \A s \in Scenarios : 2 * s.connects + s.disconnects <= MaxAttempts

\* What the named scenarios stand for: a session that nobody disconnects and in which
\* nothing fails; one connect, cancelled or not, with nothing to rebind for.
ASSUME ScenarioNames ==
    \A s \in Scenarios :
        /\ s.name = "steady" => s.disconnects = 0 /\ s.failures = {}
        /\ s.name = "cancelled" => s.connects <= 1 /\ s.flips = 0 /\ s.settings = 0

\* Every connect and every shutdown takes a number; a connect shuts down at most once.
Attempts == 1..MaxAttempts

VARIABLES
    service,        \* "up", "stopSelf" (onDestroy is due or running), "dead";
                    \* "crashed" when an exception ended the process
    main,           \* the main thread: "free", or in the middle of a handler
    tunnelActive, connectQueued, connectAttempt, stopping, rebindAfterConnect,
    late,           \* history: rebindAfterConnect was set when no connect was left to read it
    dropped,        \* history: open tunnels that were nulled in the field without being read
    tunFd,          \* the tunFd field
    hasV6,          \* tunnelHasIpv6Clearnet
    appsStale,      \* tunnelMeshApps differs from the stored selection
    engine,         \* the tunnel the engine runs on
    open,           \* tunnels whose ParcelFileDescriptor is open
    made,           \* tunnels established
    netV6,          \* the underlying network has IPv6 internet
    baseline,       \* currentUnderlying is set
    monitored,      \* networkCallback is registered
    notify,         \* a network callback is due
    conn,           \* per attempt: its connect thread
    disc,           \* the teardown: the end of shutdown(), then the disconnect thread
    posted,         \* finishShutdown is posted to the main thread
    worker,         \* the rebind worker
    env             \* the scenario, with what is left of its intents and flips

fields == <<tunnelActive, connectQueued, connectAttempt, stopping, rebindAfterConnect, late, dropped>>
tunnels == <<tunFd, hasV6, appsStale, open, made>>
network == <<netV6, baseline, monitored, notify>>
rebind == <<rebindRequested, rebinding, worker>>
vars == <<service, main, fields, tunnels, engine, network, conn, disc, posted, rebind, env>>

NoConn == [pc |-> "none", fd |-> 0, v6 |-> FALSE]
NoDisc == [pc |-> "none", fd |-> 0]
NoWork == [pc |-> "none", fd |-> 0, old |-> 0, v6 |-> FALSE]

Init ==
    /\ service = "up" /\ main = "free" /\ late = FALSE /\ dropped = {}
    /\ tunnelActive = FALSE /\ connectQueued = FALSE /\ connectAttempt = 0
    /\ stopping = FALSE /\ rebindAfterConnect = FALSE
    /\ tunFd = 0 /\ hasV6 = FALSE /\ appsStale = FALSE /\ open = {} /\ made = 0
    /\ engine = 0
    /\ netV6 \in BOOLEAN /\ baseline = FALSE /\ monitored = FALSE /\ notify = FALSE
    /\ conn = [a \in Attempts |-> NoConn] /\ disc = NoDisc /\ posted = FALSE
    /\ rebindRequested = FALSE /\ rebinding = FALSE /\ worker = NoWork
    /\ env \in Scenarios

Close(f) == open' = open \ {f}

\* establishTunnel: Android makes a new tunnel; the app selection is read here.
Establish ==
    /\ made' = made + 1
    /\ open' = open \cup {made + 1}
    /\ appsStale' = FALSE

-----------------------------------------------------------------------------
(* Pieces several threads share.                                           *)

\* rebindNode: the request is recorded; the worker is started unless it runs.
RebindNode ==
    /\ rebindRequested' = TRUE
    /\ rebinding' = TRUE
    /\ worker' = IF rebinding THEN worker ELSE [NoWork EXCEPT !.pc = "loop"]

\* beginConnect.
BeginConnect ==
    /\ tunnelActive' = TRUE /\ rebindAfterConnect' = FALSE /\ late' = FALSE
    /\ connectAttempt' = connectAttempt + 1
    /\ conn' = [conn EXCEPT ![connectAttempt + 1] = [NoConn EXCEPT !.pc = "check"]]

stillWanted(a) == tunnelActive /\ connectAttempt = a

\* shutdown cancels what is queued and in flight.
Cancel ==
    /\ connectQueued' = FALSE /\ rebindAfterConnect' = FALSE
    /\ connectAttempt' = connectAttempt + 1

\* One teardown at a time; a second request is served by the first.
Teardown ==
    /\ stopping' = TRUE
    /\ IF stopping
       THEN UNCHANGED <<disc, baseline, monitored, notify>>
       ELSE disc' = [NoDisc EXCEPT !.pc = "read"] /\ baseline' = FALSE /\ monitored' = FALSE /\ notify' = FALSE

\* LIFECYCLE is free: no restart is between its stop and its start.
EngineFree == worker.pc # "restart"

-----------------------------------------------------------------------------
(* The main thread.                                                        *)

\* ACTION_CONNECT when no tunnel is active: queued behind a teardown, or begun.
ConnectIntent ==
    /\ service = "up" /\ main = "free" /\ ~tunnelActive /\ env.connects > 0
    /\ env' = [env EXCEPT !.connects = @ - 1]
    /\ IF stopping
       THEN /\ tunnelActive' = TRUE /\ connectQueued' = TRUE
            /\ UNCHANGED <<connectAttempt, rebindAfterConnect, late, conn>>
       ELSE BeginConnect /\ UNCHANGED connectQueued
    /\ UNCHANGED <<service, main, stopping, dropped, tunnels, engine, network, disc, posted, rebind>>

\* ACTION_DISCONNECT and onRevoke: shutdown on the main thread, which has the tunnel
\* to take yet unless a teardown runs already.
DisconnectIntent ==
    /\ service = "up" /\ main = "free" /\ env.disconnects > 0
    /\ env' = [env EXCEPT !.disconnects = @ - 1]
    /\ tunnelActive' = FALSE
    /\ Cancel /\ Teardown
    /\ main' = IF stopping THEN "free" ELSE "take"
    /\ UNCHANGED <<service, late, dropped, tunnels, engine, netV6, conn, posted, rebind>>

\* ACTION_CONFIG_CHANGED after the user changed a setting or the app selection: with
\* no tunnel or no engine at this moment the rebind is going to be deferred.
ConfigChanged ==
    /\ service = "up" /\ main = "free" /\ env.settings > 0
    /\ env' = [env EXCEPT !.settings = @ - 1]
    /\ appsStale' \in {appsStale, TRUE}
    /\ \/ /\ ~tunnelActive
          /\ service' = "stopSelf"
          /\ UNCHANGED <<main, rebind>>
       \/ /\ tunnelActive /\ (tunFd = 0 \/ engine = 0)
          /\ main' = "defer"
          /\ UNCHANGED <<service, rebind>>
       \/ /\ tunnelActive /\ tunFd # 0 /\ engine # 0
          /\ RebindNode
          /\ UNCHANGED <<service, main>>
    /\ UNCHANGED <<fields, tunFd, hasV6, open, made, engine, network, conn, disc, posted>>

\* A connect thread here has yet to look at rebindAfterConnect.
Looking == {"check", "establish", "wanted", "adopt", "assign", "fd", "start", "after", "register", "deferred"}

\* rebindAfterConnect.set(true), whatever happened since the main thread looked.
ConfigDefer ==
    /\ main = "defer" /\ main' = "free"
    /\ rebindAfterConnect' = TRUE
    /\ late' = (late \/ \A a \in Attempts : conn[a].pc \notin Looking)
    /\ UNCHANGED <<service, tunnelActive, connectQueued, connectAttempt, stopping, dropped, tunnels,
                   engine, network, conn, disc, posted, rebind, env>>

\* The underlying network gains or loses IPv6; registered callbacks are due.
NetworkFlips ==
    /\ env.flips > 0
    /\ env' = [env EXCEPT !.flips = @ - 1] /\ netV6' = ~netV6
    /\ notify' = monitored
    /\ UNCHANGED <<service, main, fields, tunnels, engine, baseline, monitored, conn, disc, posted, rebind>>

\* updateUnderlying and onUnderlyingNetwork: the route decision is looked at again.
NetworkCallback ==
    /\ monitored /\ notify
    /\ notify' = FALSE /\ baseline' = TRUE
    /\ IF netV6 # hasV6 THEN RebindNode ELSE UNCHANGED rebind
    /\ UNCHANGED <<service, main, fields, tunnels, engine, netV6, monitored, conn, disc, posted, env>>

\* finishShutdown: serve the queued connect, or stop the service.
FinishShutdown ==
    /\ posted /\ main = "free"
    /\ posted' = FALSE /\ stopping' = FALSE /\ connectQueued' = FALSE
    /\ \/ connectQueued /\ BeginConnect /\ UNCHANGED service
       \/ /\ connectQueued => "identity" \in env.failures
          /\ tunnelActive' = (tunnelActive /\ ~connectQueued)
          /\ service' = IF service = "up" THEN "stopSelf" ELSE service
          /\ UNCHANGED <<rebindAfterConnect, late, connectAttempt, conn>>
    /\ UNCHANGED <<main, dropped, tunnels, engine, network, disc, rebind, env>>

\* onDestroy: monitoring down; the engine stopped; the tunnel in the field closed; the
\* field nulled.
OnDestroy ==
    /\ service = "stopSelf" /\ main = "free"
    /\ main' = "stop"
    /\ tunnelActive' = FALSE
    /\ baseline' = FALSE /\ monitored' = FALSE /\ notify' = FALSE
    /\ UNCHANGED <<service, connectQueued, connectAttempt, stopping, rebindAfterConnect, late, dropped,
                   tunnels, engine, netV6, conn, disc, posted, rebind, env>>

OnDestroyStop ==
    /\ main = "stop" /\ EngineFree
    /\ main' = "close" /\ engine' = 0
    /\ UNCHANGED <<service, fields, tunnels, network, conn, disc, posted, rebind, env>>

OnDestroyClose ==
    /\ main = "close" /\ main' = "clear"
    /\ Close(tunFd)
    /\ UNCHANGED <<service, fields, tunFd, hasV6, appsStale, made, engine, network, conn, disc, posted,
                   rebind, env>>

OnDestroyClear ==
    /\ main = "clear" /\ main' = "free"
    /\ service' = "dead"
    /\ tunFd' = 0 /\ dropped' = dropped \cup ({tunFd} \cap open)
    /\ UNCHANGED <<tunnelActive, connectQueued, connectAttempt, stopping, rebindAfterConnect, late,
                   hasV6, appsStale, open, made, engine, network, conn, disc, posted, rebind, env>>

DestroyStep == OnDestroy \/ OnDestroyStop \/ OnDestroyClose \/ OnDestroyClear

-----------------------------------------------------------------------------
(* The connect thread of attempt a.                                        *)

ConnGoes(a, l) == conn' = [conn EXCEPT ![a].pc = l]
ConnRest == <<service, main, posted, env, rebindRequested, rebinding, worker>>
ConnOnly == <<ConnRest, fields, engine, network, disc>>

\* isRunning(): an engine is up already, leave it alone.
ConnCheck(a) ==
    /\ conn[a].pc = "check"
    /\ ConnGoes(a, IF engine # 0 THEN "done" ELSE "establish")
    /\ UNCHANGED <<ConnOnly, tunnels>>

ConnEstablish(a) ==
    /\ conn[a].pc = "establish"
    /\ Establish
    /\ conn' = [conn EXCEPT ![a] = [pc |-> "wanted", fd |-> made + 1, v6 |-> netV6]]
    /\ UNCHANGED <<ConnOnly, tunFd, hasV6>>

ConnEstablishFails(a) ==
    /\ conn[a].pc = "establish" /\ "establish" \in env.failures
    /\ ConnGoes(a, "error")
    /\ UNCHANGED <<ConnOnly, tunnels>>

\* Cancelled while establishing: the tunnel is closed.
ConnWanted(a) ==
    /\ conn[a].pc = "wanted"
    /\ IF stillWanted(a)
       THEN ConnGoes(a, "adopt") /\ UNCHANGED open
       ELSE ConnGoes(a, "done") /\ Close(conn[a].fd)
    /\ UNCHANGED <<ConnOnly, tunFd, hasV6, appsStale, made>>

\* The field's old tunnel is closed, then the field is assigned.
ConnAdopt(a) ==
    /\ conn[a].pc = "adopt"
    /\ Close(tunFd)
    /\ ConnGoes(a, "assign")
    /\ UNCHANGED <<ConnOnly, tunFd, hasV6, appsStale, made>>

ConnAssign(a) ==
    /\ conn[a].pc = "assign"
    /\ tunFd' = conn[a].fd /\ hasV6' = conn[a].v6
    /\ ConnGoes(a, "fd")
    /\ UNCHANGED <<ConnOnly, appsStale, open, made>>

\* Nothing of the process is left, its descriptors included.
ProcessDies ==
    /\ service' = "crashed" /\ main' = "free"
    /\ tunnelActive' = FALSE /\ connectQueued' = FALSE /\ stopping' = FALSE
    /\ tunFd' = 0 /\ open' = {} /\ engine' = 0 /\ monitored' = FALSE /\ notify' = FALSE
    /\ conn' = [b \in Attempts |-> NoConn] /\ disc' = NoDisc /\ posted' = FALSE
    /\ rebindRequested' = FALSE /\ rebinding' = FALSE /\ worker' = NoWork
    /\ UNCHANGED <<connectAttempt, rebindAfterConnect, late, dropped, hasV6, appsStale, made, netV6,
                   baseline, env>>

\* pfd.fd: reading a closed descriptor throws, and nothing catches it.
ConnFd(a) ==
    /\ conn[a].pc = "fd"
    /\ \/ conn[a].fd \in open /\ ConnGoes(a, "start") /\ UNCHANGED <<ConnOnly, tunnels>>
       \/ conn[a].fd \notin open /\ ProcessDies

\* FipsNative.start; it fails when an engine runs or the descriptor was closed.
ConnStart(a) ==
    /\ conn[a].pc = "start" /\ EngineFree
    /\ \/ /\ engine = 0 /\ conn[a].fd \in open
          /\ engine' = conn[a].fd
          /\ ConnGoes(a, "after")
       \/ /\ "start" \in env.failures \/ engine # 0 \/ conn[a].fd \notin open
          /\ ConnGoes(a, "error")
          /\ UNCHANGED engine
    /\ UNCHANGED <<ConnRest, fields, network, disc, tunnels>>

\* shutdown on the connect thread, which no handler of the main thread waits for.
ConnError(a) ==
    /\ conn[a].pc = "error"
    /\ tunnelActive' = FALSE
    /\ ConnGoes(a, "cancel")
    /\ UNCHANGED <<ConnRest, connectQueued, connectAttempt, stopping, rebindAfterConnect, late, dropped,
                   engine, network, disc, tunnels>>

ConnCancel(a) ==
    /\ conn[a].pc = "cancel"
    /\ Cancel
    /\ ConnGoes(a, "teardown")
    /\ UNCHANGED <<ConnRest, tunnelActive, stopping, late, dropped, engine, network, disc, tunnels>>

ConnTeardown(a) ==
    /\ conn[a].pc = "teardown"
    /\ Teardown
    /\ ConnGoes(a, "done")
    /\ UNCHANGED <<ConnRest, tunnelActive, connectQueued, connectAttempt, rebindAfterConnect, late, dropped,
                   engine, netV6, tunnels>>

\* A mutant of ConnAfter: the second stillWanted check is missing.
ConnAfterUnchecked(a) ==
    /\ conn[a].pc = "after"
    /\ ConnGoes(a, "register")
    /\ UNCHANGED <<ConnOnly, tunnels>>

\* Cancelled while the engine started: stop it, clear the field, close.
ConnAfter(a) ==
    /\ conn[a].pc = "after"
    /\ ConnGoes(a, IF stillWanted(a) THEN "register" ELSE "stop")
    /\ UNCHANGED <<ConnOnly, tunnels>>

ConnStop(a) ==
    /\ conn[a].pc = "stop" /\ EngineFree
    /\ engine' = 0
    /\ ConnGoes(a, "drop")
    /\ UNCHANGED <<ConnRest, fields, network, disc, tunnels>>

ConnDrop(a) ==
    /\ conn[a].pc = "drop"
    /\ tunFd' = IF tunFd = conn[a].fd THEN 0 ELSE tunFd
    /\ Close(conn[a].fd)
    /\ ConnGoes(a, "done")
    /\ UNCHANGED <<ConnOnly, hasV6, appsStale, made>>

\* registerNetworkMonitoring: the first callback is due.
ConnRegister(a) ==
    /\ conn[a].pc = "register"
    /\ monitored' = TRUE /\ notify' = TRUE
    /\ ConnGoes(a, "deferred")
    /\ UNCHANGED <<ConnRest, fields, engine, netV6, baseline, disc, tunnels>>

\* A mutant of ConnDeferred: settings changed during the connect are not looked at.
ConnNotDeferred(a) ==
    /\ conn[a].pc = "deferred"
    /\ ConnGoes(a, "done")
    /\ UNCHANGED <<ConnOnly, tunnels>>

\* A settings change that came during the connect is served now.
ConnDeferred(a) ==
    /\ conn[a].pc = "deferred"
    /\ rebindAfterConnect' = FALSE
    /\ IF rebindAfterConnect THEN RebindNode ELSE UNCHANGED rebind
    /\ ConnGoes(a, "done")
    /\ UNCHANGED <<service, main, posted, env, tunnelActive, connectQueued, connectAttempt, stopping,
                   late, dropped, engine, network, disc, tunnels>>

ConnStep(a) ==
    \/ ConnCheck(a) \/ ConnEstablish(a) \/ ConnEstablishFails(a) \/ ConnWanted(a) \/ ConnAdopt(a)
    \/ ConnAssign(a) \/ ConnFd(a) \/ ConnStart(a) \/ ConnError(a) \/ ConnCancel(a) \/ ConnTeardown(a)
    \/ ConnAfter(a) \/ ConnStop(a) \/ ConnDrop(a) \/ ConnRegister(a) \/ ConnDeferred(a)

-----------------------------------------------------------------------------
(* The teardown.                                                           *)

\* val fd = tunFd, on the thread that called shutdown.
TakeRead ==
    /\ disc.pc = "read"
    /\ disc' = [pc |-> "clear", fd |-> tunFd]
    /\ UNCHANGED <<service, main, fields, tunnels, engine, network, conn, posted, rebind, env>>

\* tunFd = null, and the disconnect thread is started.
TakeClear ==
    /\ disc.pc = "clear"
    /\ disc' = [disc EXCEPT !.pc = "stop"]
    /\ tunFd' = 0 /\ dropped' = dropped \cup ({tunFd} \ {0, disc.fd})
    /\ main' = IF main = "take" THEN "free" ELSE main
    /\ UNCHANGED <<service, tunnelActive, connectQueued, connectAttempt, stopping, rebindAfterConnect, late,
                   hasV6, appsStale, open, made, engine, network, conn, posted, rebind, env>>

DiscStop ==
    /\ disc.pc = "stop" /\ EngineFree
    /\ engine' = 0
    /\ disc' = [disc EXCEPT !.pc = "close"]
    /\ UNCHANGED <<service, main, fields, tunnels, network, conn, posted, rebind, env>>

\* A mutant of DiscClose: finishShutdown is not posted.
DiscCloseSilent ==
    /\ disc.pc = "close"
    /\ Close(disc.fd)
    /\ disc' = NoDisc
    /\ UNCHANGED <<service, main, fields, tunFd, hasV6, appsStale, made, engine, network, conn, posted, rebind, env>>

\* A mutant of DiscClose: the tunnel is read from the field at the end.
DiscCloseField ==
    /\ disc.pc = "close"
    /\ Close(tunFd) /\ tunFd' = 0
    /\ disc' = NoDisc /\ posted' = TRUE
    /\ UNCHANGED <<service, main, fields, hasV6, appsStale, made, engine, network, conn, rebind, env>>

\* The session's tunnel is closed and finishShutdown posted.
DiscClose ==
    /\ disc.pc = "close"
    /\ Close(disc.fd)
    /\ disc' = NoDisc /\ posted' = TRUE
    /\ UNCHANGED <<service, main, fields, tunFd, hasV6, appsStale, made, engine, network, conn, rebind, env>>

DiscStep == TakeRead \/ TakeClear \/ DiscStop \/ DiscClose

-----------------------------------------------------------------------------
(* The rebind worker.                                                      *)

WorkRest == <<service, main, fields, network, conn, disc, posted, env>>
WorkGoes(l) == worker' = [worker EXCEPT !.pc = l]

\* The loop: settle, then clear the request and make a pass; with no request the
\* worker ends.  Giving up the slot and looking once more for a request are one
\* step here; RebindQueue has them apart.
WorkLoop ==
    /\ worker.pc = "loop"
    /\ IF rebindRequested
       THEN WorkGoes("settle") /\ UNCHANGED rebinding
       ELSE worker' = NoWork /\ rebinding' = FALSE
    /\ UNCHANGED <<WorkRest, rebindRequested, tunnels, engine>>

WorkSettled ==
    /\ worker.pc = "settle"
    /\ rebindRequested' = FALSE
    /\ WorkGoes("gate")
    /\ UNCHANGED <<WorkRest, rebinding, tunnels, engine>>

Wanted == baseline /\ netV6
NeedsTunnel == Wanted # hasV6 \/ (tunFd # 0 /\ appsStale)

\* An exception ends the worker; a request that came meanwhile stays unserved.
WorkDies == worker' = NoWork /\ rebinding' = FALSE

\* rebindOnce up to establish(): nothing when inactive; a replacement tunnel when
\* routes or apps changed; otherwise the engine is told about the same tunnel.
WorkGate ==
    /\ worker.pc = "gate"
    /\ \/ /\ ~tunnelActive \/ (~NeedsTunnel /\ tunFd = 0)
          /\ WorkGoes("loop") /\ UNCHANGED rebinding
       \/ /\ tunnelActive /\ NeedsTunnel
          /\ worker' = [worker EXCEPT !.pc = "establish", !.v6 = Wanted]
          /\ UNCHANGED rebinding
       \/ /\ tunnelActive /\ ~NeedsTunnel /\ tunFd \in open
          /\ worker' = [worker EXCEPT !.pc = "tell", !.fd = tunFd, !.old = 0]
          /\ UNCHANGED rebinding
       \/ /\ tunnelActive /\ ~NeedsTunnel /\ tunFd # 0 /\ tunFd \notin open
          /\ WorkDies
    /\ UNCHANGED <<WorkRest, rebindRequested, tunnels, engine>>

WorkEstablish ==
    /\ worker.pc = "establish"
    /\ \/ Establish /\ worker' = [worker EXCEPT !.pc = "active", !.fd = made + 1]
       \/ "establish" \in env.failures /\ WorkGoes("loop") /\ UNCHANGED <<open, made, appsStale>>
    /\ UNCHANGED <<WorkRest, rebindRequested, rebinding, tunFd, hasV6, engine>>

\* Disconnected while establish() ran: the fresh tunnel is closed.
WorkActive ==
    /\ worker.pc = "active"
    /\ IF tunnelActive
       THEN WorkGoes("adopt") /\ UNCHANGED open
       ELSE WorkGoes("loop") /\ Close(worker.fd)
    /\ UNCHANGED <<WorkRest, rebindRequested, rebinding, tunFd, hasV6, appsStale, made, engine>>

WorkAdopt ==
    /\ worker.pc = "adopt"
    /\ worker' = [worker EXCEPT !.pc = "fd", !.old = tunFd]
    /\ tunFd' = worker.fd /\ hasV6' = worker.v6
    /\ UNCHANGED <<WorkRest, rebindRequested, rebinding, appsStale, open, made, engine>>

\* fresh.fd, which throws when a disconnect has closed the new tunnel by now.
WorkFd ==
    /\ worker.pc = "fd"
    /\ IF worker.fd \in open THEN WorkGoes("tell") /\ UNCHANGED rebinding ELSE WorkDies
    /\ UNCHANGED <<WorkRest, rebindRequested, tunnels, engine>>

\* FipsNative.onNetworkChanged: nothing when it is not running; the engine moves to
\* the tunnel; or, its config changed or the swap failed, it is stopped to restart.
WorkTell ==
    /\ worker.pc = "tell"
    /\ \/ engine = 0 /\ WorkGoes("closeOld") /\ UNCHANGED engine
       \/ engine # 0 /\ worker.fd \in open /\ WorkGoes("closeOld") /\ engine' = worker.fd
       \/ engine # 0 /\ WorkGoes("restart") /\ engine' = 0
    /\ UNCHANGED <<WorkRest, rebindRequested, rebinding, tunnels>>

\* The second half of a restart: the engine is up on the tunnel, or stays down.
WorkRestart ==
    /\ worker.pc = "restart"
    /\ \/ worker.fd \in open /\ engine' = worker.fd
       \/ (worker.fd \notin open \/ "start" \in env.failures) /\ UNCHANGED engine
    /\ WorkGoes("closeOld")
    /\ UNCHANGED <<WorkRest, rebindRequested, rebinding, tunnels>>

\* A mutant of WorkCloseOld: the replaced tunnel stays open.
WorkKeepsOld ==
    /\ worker.pc = "closeOld"
    /\ worker' = [NoWork EXCEPT !.pc = "loop"]
    /\ UNCHANGED <<WorkRest, rebindRequested, rebinding, tunnels, engine>>

WorkCloseOld ==
    /\ worker.pc = "closeOld"
    /\ Close(worker.old)
    /\ worker' = [NoWork EXCEPT !.pc = "loop"]
    /\ UNCHANGED <<WorkRest, rebindRequested, rebinding, tunFd, hasV6, appsStale, made, engine>>

WorkStep ==
    \/ WorkLoop \/ WorkSettled \/ WorkGate \/ WorkEstablish \/ WorkActive \/ WorkAdopt
    \/ WorkFd \/ WorkTell \/ WorkRestart \/ WorkCloseOld

-----------------------------------------------------------------------------
Next ==
    \/ ConnectIntent \/ DisconnectIntent \/ ConfigChanged \/ ConfigDefer
    \/ NetworkFlips \/ NetworkCallback \/ FinishShutdown \/ DestroyStep
    \/ \E a \in Attempts : ConnStep(a)
    \/ DiscStep
    \/ WorkStep

Spec == Init /\ [][Next]_vars

\* Android runs every thread and delivers what is posted; what the user and the
\* network do is not owed.
Fairness ==
    /\ WF_vars(ConfigDefer) /\ WF_vars(NetworkCallback) /\ WF_vars(FinishShutdown)
    /\ WF_vars(DestroyStep)
    /\ \A a \in Attempts : WF_vars(ConnStep(a))
    /\ WF_vars(DiscStep)
    /\ WF_vars(WorkStep)
FairSpec == Spec /\ Fairness

-----------------------------------------------------------------------------
\* Fields and threads are of their types, every descriptor is one establish() made, and
\* the worker slot is taken just while there is a worker, however the last one ended.
TypeOK ==
    /\ service \in {"up", "stopSelf", "dead", "crashed"}
    /\ main \in {"free", "take", "defer", "stop", "close", "clear"}
    /\ {tunnelActive, connectQueued, stopping, rebindAfterConnect, late, hasV6, appsStale, netV6,
        baseline, monitored, notify, posted, rebindRequested, rebinding} \subseteq BOOLEAN
    /\ connectAttempt \in {0} \cup Attempts /\ made \in Nat
    /\ {tunFd, engine, disc.fd, worker.fd, worker.old} \subseteq 0..made
    /\ open \subseteq 1..made /\ dropped \subseteq 1..made
    /\ \A a \in Attempts : conn[a].fd \in 0..made
    /\ rebinding <=> worker # NoWork

\* No thread of the service has anything left to do.
Quiescent ==
    /\ service \in {"up", "dead"} /\ main = "free" /\ ~posted /\ ~notify
    /\ \A a \in Attempts : conn[a].pc \in {"none", "done"}
    /\ disc = NoDisc /\ worker = NoWork

\* A session that nobody disconnects and in which nothing fails (the "steady" scenario)
\* settles on one tunnel: once every callback is
\* served and the rebind worker is gone, the engine runs on the only open tunnel, the
\* last one established, whose apps match the selection - whatever settings changes and
\* network callbacks came while it was connecting or rebinding (onStartCommand,
\* connect, rebindNode, rebindOnce) - unless onStartCommand put a change in
\* rebindAfterConnect too late (late): a restart had the engine down, or the
\* connect thread looked between the check and the set (kt:257-259, kt:394).
SettledSession ==
    env.name = "steady" /\ Quiescent /\ tunnelActive =>
        engine = tunFd /\ tunFd = made /\ open = {tunFd} /\ (appsStale => late)

\* "The last callback in a burst always results in a rebind against final network
\* state" (rebindNode): a settled session claims ::/0 just when the network has IPv6.
SettledRoutes == Quiescent /\ tunnelActive => hasV6 = netV6

\* "A tunnel and node left up in a stopped service" (the comment on stillWanted):
\* when the service is destroyed and its threads have ended, no engine runs and no
\* tunnel is open, however connects, cancels and failures interleaved, except one the
\* connect thread put in the field between shutdown's (or onDestroy's) reading it and
\* nulling it (dropped; kt:371, kt:1164-1165), which stays open if the start then
\* fails.  (In the "cancelled" scenario: a rebind that outlives the teardown is a case
\* of its own.)
StoppedIsDown ==
    env.name = "cancelled" /\ Quiescent /\ service = "dead" => engine = 0 /\ open \subseteq dropped

\* The disconnect thread closes the tunnel of the session it was started for, never
\* one that the field came to hold while it was stopping the engine (shutdown).
TeardownSparesNewTunnel ==
    [][disc.pc = "close" /\ disc' = NoDisc /\ service' # "crashed" /\ tunFd \in open
        => tunFd' = tunFd /\ tunFd \in open']_vars

\* A changed app selection reaches the live tunnel, or the session ends (nothing fails in
\* the "steady" scenario): the request is not lost between connect, the deferred flag and
\* the worker, unless it was deferred too late for connect to see it (late).
SelectionApplied ==
    env.name = "steady" /\ appsStale /\ tunnelActive ~> ~appsStale \/ ~tunnelActive \/ late

\* A teardown ends, and the connect queued behind it begins or is given up.
TeardownEnds == stopping \/ connectQueued ~> ~stopping /\ ~connectQueued

\* "Serve it now, on the same service instance, with nothing of the old session left
\* to race it" (finishShutdown): a session that is up and settled has its engine.
ReconnectedRuns == Quiescent /\ tunnelActive => engine # 0
=============================================================================
