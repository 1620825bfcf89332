------------------------------ MODULE Forwarder ------------------------------
(***************************************************************************)
(* The clearnet forwarder (forward.rs): a thread with its own runtime that *)
(* accepts the flows ipstack makes of the tunnel's non-mesh packets and    *)
(* runs a task for each, dialling the destination on a protected socket.   *)
(* Its owner, the engine, joins it when it stops or drops it when the rest *)
(* of a start fails.                                                       *)
(*                                                                         *)
(* External: tokio (a select takes any ready branch; a Notify keeps one    *)
(* permit; shutting the runtime down cancels its tasks), ipstack, and the  *)
(* servers.  A thread may be wedged for good inside them, as seen on       *)
(* devices.  Payload is abstracted; a flow is up, failed or over.          *)
(***************************************************************************)
EXTENDS Naturals

CONSTANTS
    Flows,       \* flows ipstack may offer
    Failures     \* of "spawn", "build", "socket", "wedge"

VARIABLES
    owner,       \* the engine: what it does with the Forwarder
    running,     \* the engine's flag
    sender,      \* the pump's reader holds forward_tx
    permit,      \* the shutdown Notify has a permit
    signal,      \* the done channel: "open", "sent" or "closed"
    thread,      \* the forwarder thread's statement
    wedged,      \* it is stuck in library code for good
    task,        \* flow -> its task's statement
    app,         \* flow -> the application's connection: "idle", "busy", "closed", or
                 \* forgotten without a word ("silent")
    server       \* flow -> its server side: "ok", or "lost" to a failed dial or network

vars == <<owner, running, sender, permit, signal, thread, wedged, task, app, server>>
flow == <<task, app, server>>

Live == {"dial", "copy", "close", "udp"}

Init ==
    /\ owner = "start" /\ running = TRUE /\ sender = TRUE
    /\ permit = FALSE /\ signal = "open" /\ thread = "none" /\ wedged = FALSE
    /\ task = [f \in Flows |-> "none"] /\ app = [f \in Flows |-> "none"]
    /\ server = [f \in Flows |-> "ok"]

-----------------------------------------------------------------------------
(* The owner.                                                              *)

Spawn ==
    /\ owner = "start"
    /\ \/ owner' = "up" /\ thread' = "build"
       \/ "spawn" \in Failures /\ owner' = "failed" /\ UNCHANGED thread
    /\ UNCHANGED <<running, sender, permit, signal, wedged, flow>>

\* A mutant of DropForwarder: only the handle is dropped.
DropSilently ==
    /\ owner = "up"
    /\ owner' = "dropped"
    /\ UNCHANGED <<running, sender, permit, signal, thread, wedged, flow>>

\* The rest of the engine's start failed: Drop signals, nobody waits.  forward_tx goes
\* with the pump that was not started, or with its reader.
DropForwarder ==
    /\ owner = "up"
    /\ owner' = "dropped" /\ permit' = TRUE
    /\ UNCHANGED <<running, sender, signal, thread, wedged, flow>>

\* stop_locked clears the flag and joins the pump, whose reader drops forward_tx unless it
\* had to be abandoned, before it joins the forwarder.
StopBegins ==
    /\ owner = "up"
    /\ owner' = "stopping" /\ running' = FALSE
    /\ UNCHANGED <<sender, permit, signal, thread, wedged, flow>>

ReaderEnds ==
    /\ sender /\ owner \in {"stopping", "dropped"}
    /\ sender' = FALSE
    /\ UNCHANGED <<owner, running, permit, signal, thread, wedged, flow>>

JoinNotify ==
    /\ owner = "stopping"
    /\ owner' = "recv" /\ permit' = TRUE
    /\ UNCHANGED <<running, sender, signal, thread, wedged, flow>>

\* The thread reached its last line or died before it.
JoinSignalled ==
    /\ owner = "recv" /\ signal # "open"
    /\ owner' = "join"
    /\ UNCHANGED <<running, sender, permit, signal, thread, wedged, flow>>

\* A mutant of JoinTimeout: the wait has no bound.
JoinNoTimeout == FALSE /\ UNCHANGED vars

\* Three seconds without a signal: the thread is abandoned (and signalled once more by
\* the drop, as in JoinThread).
JoinTimeout ==
    /\ owner = "recv" /\ signal = "open"
    /\ owner' = "abandoned" /\ permit' = TRUE
    /\ UNCHANGED <<running, sender, signal, thread, wedged, flow>>

\* The join itself; consuming the Forwarder drops it, which signals once more.
JoinThread ==
    /\ owner = "join" /\ thread = "ended"
    /\ owner' = "joined" /\ permit' = TRUE
    /\ UNCHANGED <<running, sender, signal, thread, wedged, flow>>

-----------------------------------------------------------------------------
(* The thread.                                                             *)

\* A runtime that cannot be built ends the thread, and with it the done channel.
Build ==
    /\ thread = "build" /\ ~wedged
    /\ \/ thread' = "loop" /\ UNCHANGED signal
       \/ "build" \in Failures /\ thread' = "ended" /\ signal' = "closed"
    /\ UNCHANGED <<owner, running, sender, permit, wedged, flow>>

LoopHead ==
    /\ thread = "loop" /\ ~wedged
    /\ thread' = IF running THEN "select" ELSE "shutdown"
    /\ UNCHANGED <<owner, running, sender, permit, signal, wedged, flow>>

\* accept() is ready with a flow (ICMP and the like are not forwarded): a task is
\* spawned.  ipstack has accepted the application's connection by now.
Accept ==
    /\ thread = "select" /\ ~wedged
    /\ \/ \E f \in Flows, kind \in {"dial", "udp"} :
            /\ task[f] = "none"
            /\ task' = [task EXCEPT ![f] = kind]
            /\ app' = [app EXCEPT ![f] = "idle"]
       \/ UNCHANGED <<task, app>>
    /\ thread' = "loop" /\ UNCHANGED server
    /\ UNCHANGED <<owner, running, sender, permit, signal, wedged>>

\* accept() fails once the device is closed; it may stay pending while ipstack drains.
AcceptFails ==
    /\ thread = "select" /\ ~sender /\ ~wedged
    /\ thread' = "shutdown"
    /\ UNCHANGED <<owner, running, sender, permit, signal, wedged, flow>>

\* The permit is taken, whenever it was given.
Notified ==
    /\ thread = "select" /\ permit /\ ~wedged
    /\ permit' = FALSE /\ thread' = "shutdown"
    /\ UNCHANGED <<owner, running, sender, signal, wedged, flow>>

\* A mutant of Shutdown: the runtime is left behind with its tasks.
ShutdownDetaches ==
    /\ thread = "shutdown" /\ ~wedged
    /\ thread' = "signal"
    /\ UNCHANGED <<owner, running, sender, permit, signal, wedged, flow>>

\* shutdown_timeout cancels the flows' tasks and waits two seconds at most for the
\* blocking pool.
Shutdown ==
    /\ thread = "shutdown" /\ ~wedged
    /\ thread' = "signal"
    /\ task' = [f \in Flows |-> IF task[f] \in Live THEN "cancelled" ELSE task[f]]
    /\ app' = [f \in Flows |-> IF task[f] \in Live THEN "silent" ELSE app[f]]
    /\ UNCHANGED <<owner, running, sender, permit, signal, wedged, server>>

Signal ==
    /\ thread = "signal" /\ ~wedged
    /\ thread' = "exit" /\ signal' = "sent"
    /\ UNCHANGED <<owner, running, sender, permit, wedged, flow>>

Exit ==
    /\ thread = "exit"
    /\ thread' = "ended"
    /\ UNCHANGED <<owner, running, sender, permit, signal, wedged, flow>>

\* ipstack or tokio never comes back.
Wedge ==
    /\ "wedge" \in Failures /\ ~wedged /\ thread \notin {"none", "exit", "ended"}
    /\ wedged' = TRUE
    /\ UNCHANGED <<owner, running, sender, permit, signal, thread, flow>>

-----------------------------------------------------------------------------
(* The flows' tasks, which run while the thread polls its runtime.         *)

Runs == thread \in {"loop", "select"} /\ ~wedged

TaskGoes(f, label, conn) ==
    /\ task' = [task EXCEPT ![f] = label]
    /\ app' = [app EXCEPT ![f] = conn]
    /\ UNCHANGED <<owner, running, sender, permit, signal, thread, wedged, server>>

\* forward_tcp: a socket that cannot be made ends the task; a dial that fails or takes too
\* long goes on to tell the application.
Dial(f) ==
    /\ Runs /\ task[f] = "dial"
    /\ \/ server[f] = "ok" /\ TaskGoes(f, "copy", app[f])
       \/ server[f] = "lost" /\ TaskGoes(f, "close", app[f])
       \/ "socket" \in Failures /\ TaskGoes(f, "over", "silent")

\* A mutant of CopyFails: the stream is only dropped.
CopyDrops(f) ==
    /\ Runs /\ task[f] = "copy" /\ server[f] = "lost"
    /\ TaskGoes(f, "over", "silent")

CopyFails(f) ==
    /\ Runs /\ task[f] = "copy" /\ server[f] = "lost"
    /\ TaskGoes(f, "close", app[f])

\* Both sides are done.
CopyEnds(f) ==
    /\ Runs /\ task[f] = "copy" /\ server[f] = "ok"
    /\ TaskGoes(f, "over", "closed")

\* close_app_side: ipstack sends the FIN of an idle connection; otherwise the timeout
\* passes and the connection is forgotten.
CloseAppSide(f) ==
    /\ Runs /\ task[f] = "close"
    /\ TaskGoes(f, "over", IF app[f] = "idle" THEN "closed" ELSE "silent")

\* forward_udp: idle at ipstack's side, or a socket error.
UdpEnds(f) ==
    /\ Runs /\ task[f] = "udp"
    /\ TaskGoes(f, "over", "closed")

\* The application has segments in flight, or not.
AppTalks(f) ==
    /\ task[f] \in {"dial", "copy"} /\ server[f] = "ok"
    /\ app' = [app EXCEPT ![f] = IF @ = "idle" THEN "busy" ELSE "idle"]
    /\ UNCHANGED <<owner, running, sender, permit, signal, thread, wedged, task, server>>

\* The dial fails, or the network the server was dialled on goes away.
ServerLost(f) ==
    /\ task[f] \in {"dial", "copy"} /\ server[f] = "ok"
    /\ server' = [server EXCEPT ![f] = "lost"]
    /\ UNCHANGED <<owner, running, sender, permit, signal, thread, wedged, task, app>>

Task(f) == Dial(f) \/ CopyFails(f) \/ CloseAppSide(f)
Owner == JoinNotify \/ JoinSignalled \/ JoinTimeout \/ JoinThread
Thread == Build \/ LoopHead \/ Shutdown \/ Signal \/ Exit

Next ==
    \/ Spawn \/ DropForwarder \/ StopBegins \/ ReaderEnds \/ Owner
    \/ Thread \/ Accept \/ AcceptFails \/ Notified \/ Wedge
    \/ \E f \in Flows : Task(f) \/ CopyEnds(f) \/ UdpEnds(f) \/ AppTalks(f) \/ ServerLost(f)

\* The engine's thread and the forwarder's are scheduled, and so are the tasks.  A select
\* tries its branches in random order, so a permit that stays is taken however many flows
\* are ready; flows need not come and the device need not close.
Fairness ==
    /\ WF_vars(Owner) /\ WF_vars(Thread) /\ SF_vars(Notified)
    /\ \A f \in Flows : WF_vars(Task(f))
Spec == Init /\ [][Next]_vars /\ Fairness

-----------------------------------------------------------------------------
(* Properties.                                                             *)

\* Values are of their types; the done channel says whether and how the thread ended.
TypeOK ==
    /\ owner \in {"start", "up", "stopping", "recv", "join", "joined", "abandoned", "dropped", "failed"}
    /\ thread \in {"none", "build", "loop", "select", "shutdown", "signal", "exit", "ended"}
    /\ running \in BOOLEAN /\ sender \in BOOLEAN /\ permit \in BOOLEAN /\ wedged \in BOOLEAN
    /\ task \in [Flows -> Live \cup {"none", "over", "cancelled"}]
    /\ app \in [Flows -> {"none", "idle", "busy", "closed", "silent"}]
    /\ server \in [Flows -> {"ok", "lost"}]
    /\ signal \in {"open", "sent", "closed"} /\ (signal # "open" <=> thread \in {"exit", "ended"})

\* A signal is never lost (forward.rs:184-185, 216-217):
\* once the forwarder is dropped or joined its thread ends, whichever statement it was
\* at, even when the device stays open, unless a library call is stuck for good.
SignalledEnds ==
    owner \in {"recv", "join", "abandoned", "dropped"} ~> thread = "ended" \/ wedged

\* join returns although the thread is stuck ("a leaked parked thread is strictly better
\* than a hung stop()", forward.rs:162-164).
JoinReturns == owner = "stopping" ~> owner \in {"joined", "abandoned"}

\* A join that did not have to abandon the thread leaves nothing of the forwarder behind:
\* no thread and no task that could still write to the tunnel.
JoinedIsQuiet == owner = "joined" => thread = "ended" /\ \A f \in Flows : task[f] \notin Live

\* "A FIN ends the connection on the app's side now" (close_app_side): an application that
\* waits idle is told that its server is gone, unless the forwarder itself ends.  (A
\* socket that cannot even be made is dropped silently.)
ServerLossTold ==
    \A f \in Flows :
        server[f] = "lost" /\ task[f] = "copy" /\ app[f] = "idle"
            ~> app[f] = "closed" \/ ~Runs
=============================================================================
