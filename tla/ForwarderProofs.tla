--------------------------- MODULE ForwarderProofs ---------------------------
(***************************************************************************)
(* Proofs about the clearnet forwarder, for any set of flows and any       *)
(* failures: types, and that a join which did not abandon the thread       *)
(* leaves neither the thread nor a live task behind.                       *)
(***************************************************************************)
EXTENDS Forwarder, TLAPS

\* Before Forwarder::spawn returned there is no thread.
NoThreadYet == owner \in {"start", "failed"} => thread = "none"

\* Tasks live in the runtime: between its construction and shutdown_timeout.
TasksNeedRuntime ==
    thread \notin {"loop", "select", "shutdown"} => \A f \in Flows : task[f] \notin Live

\* The owner joins the thread only once the done channel spoke, and the join returns only
\* once the thread is gone.
JoinAfterSignal ==
    /\ owner = "join" => signal # "open"
    /\ owner = "joined" => thread = "ended"

IInv == TypeOK /\ NoThreadYet /\ TasksNeedRuntime /\ JoinAfterSignal

-----------------------------------------------------------------------------
\* Start: no thread, no task (the engine is about to spawn the forwarder).
LEMMA InitIInv == Init => IInv
BY DEF Init, IInv, TypeOK, NoThreadYet, TasksNeedRuntime, JoinAfterSignal, Live

\* The owner's steps: spawn, drop, stop_locked's flag and pump join, and Forwarder::join.
LEMMA OwnerSteps ==
    ASSUME IInv, Spawn \/ DropForwarder \/ StopBegins \/ ReaderEnds \/ Owner
    PROVE  IInv'
<1> USE DEF IInv, TypeOK, NoThreadYet, TasksNeedRuntime, JoinAfterSignal, flow
<1>1. CASE Spawn BY <1>1 DEF Spawn
<1>2. CASE DropForwarder BY <1>2 DEF DropForwarder
<1>3. CASE StopBegins BY <1>3 DEF StopBegins
<1>4. CASE ReaderEnds BY <1>4 DEF ReaderEnds
<1>5. CASE JoinNotify BY <1>5 DEF JoinNotify
<1>6. CASE JoinSignalled BY <1>6 DEF JoinSignalled
<1>7. CASE JoinTimeout BY <1>7 DEF JoinTimeout
<1>8. CASE JoinThread BY <1>8 DEF JoinThread
<1>9. QED BY <1>1, <1>2, <1>3, <1>4, <1>5, <1>6, <1>7, <1>8 DEF Owner

\* The thread's steps, from the runtime's construction to its last line.
LEMMA ThreadSteps ==
    ASSUME IInv, Thread \/ Accept \/ AcceptFails \/ Notified \/ Wedge
    PROVE  IInv'
<1> USE DEF IInv, TypeOK, NoThreadYet, TasksNeedRuntime, JoinAfterSignal, flow
<1>1. CASE Build BY <1>1 DEF Build
<1>2. CASE LoopHead BY <1>2 DEF LoopHead
<1>3. CASE Shutdown BY <1>3 DEF Shutdown, Live
<1>4. CASE Signal BY <1>4 DEF Signal
<1>5. CASE Exit BY <1>5 DEF Exit
<1>6. CASE Accept BY <1>6 DEF Accept, Live
<1>7. CASE AcceptFails BY <1>7 DEF AcceptFails
<1>8. CASE Notified BY <1>8 DEF Notified
<1>9. CASE Wedge BY <1>9 DEF Wedge
<1>10. QED BY <1>1, <1>2, <1>3, <1>4, <1>5, <1>6, <1>7, <1>8, <1>9 DEF Thread

\* A flow's task steps only while the thread polls its runtime; the application and the
\* network leave the tasks alone.
LEMMA FlowSteps ==
    ASSUME IInv, NEW f \in Flows,
           Task(f) \/ CopyEnds(f) \/ UdpEnds(f) \/ AppTalks(f) \/ ServerLost(f)
    PROVE  IInv'
<1> USE DEF IInv, TypeOK, NoThreadYet, TasksNeedRuntime, JoinAfterSignal
<1>1. CASE \E label \in Live \cup {"over"}, conn \in {app[f], "closed", "silent"} :
               Runs /\ TaskGoes(f, label, conn)
    BY <1>1 DEF Runs, TaskGoes, Live
<1>2. CASE AppTalks(f) BY <1>2 DEF AppTalks
<1>3. CASE ServerLost(f) BY <1>3 DEF ServerLost
<1>4. CASE Dial(f) BY <1>1, <1>4 DEF Dial, Live
<1>5. CASE CopyFails(f) BY <1>1, <1>5 DEF CopyFails, Live
<1>6. CASE CloseAppSide(f) BY <1>1, <1>6 DEF CloseAppSide
<1>7. CASE CopyEnds(f) BY <1>1, <1>7 DEF CopyEnds
<1>8. CASE UdpEnds(f) BY <1>1, <1>8 DEF UdpEnds
<1>9. QED BY <1>2, <1>3, <1>4, <1>5, <1>6, <1>7, <1>8 DEF Task

\* Every step keeps the inductive invariant.
LEMMA NextIInv == IInv /\ [Next]_vars => IInv'
<1> SUFFICES ASSUME IInv, [Next]_vars PROVE IInv'
    OBVIOUS
<1>1. CASE Spawn \/ DropForwarder \/ StopBegins \/ ReaderEnds \/ Owner
    BY <1>1, OwnerSteps
<1>2. CASE Thread \/ Accept \/ AcceptFails \/ Notified \/ Wedge
    BY <1>2, ThreadSteps
<1>3. CASE \E f \in Flows :
               Task(f) \/ CopyEnds(f) \/ UdpEnds(f) \/ AppTalks(f) \/ ServerLost(f)
    BY <1>3, FlowSteps
<1>4. CASE UNCHANGED vars
    BY <1>4 DEF vars, IInv, TypeOK, NoThreadYet, TasksNeedRuntime, JoinAfterSignal
<1>5. QED BY <1>1, <1>2, <1>3, <1>4 DEF Next

\* The inductive invariant holds in every reachable state.
THEOREM Invariance == Spec => []IInv
BY InitIInv, NextIInv, PTL DEF Spec

\* Types; in particular the done channel is open exactly as long as the thread has not
\* reached its last line (forward.rs: the sender moves into the thread).
THEOREM TypeCorrect == Spec => []TypeOK
<1>1. IInv => TypeOK BY DEF IInv
<1>2. QED BY <1>1, Invariance, PTL

\* A join that returned with the thread leaves nothing that could write to the tunnel.
THEOREM JoinLeavesQuiet == Spec => []JoinedIsQuiet
<1>1. IInv => JoinedIsQuiet
    BY DEF IInv, JoinAfterSignal, TasksNeedRuntime, JoinedIsQuiet
<1>2. QED BY <1>1, Invariance, PTL
=============================================================================
