----------------------------- MODULE VpnProofs -----------------------------
(***************************************************************************)
(* Proofs about the VPN service.  First the session, for any scenarios and *)
(* any number of attempts: the descriptors its threads hold stay apart, a  *)
(* teardown never closes a newer session's tunnel, a stopped service has   *)
(* nothing open but a tunnel that shutdown or onDestroy dropped, a session *)
(* nobody disturbs settles on one tunnel, and the bound on attempt numbers *)
(* is never met.  Then rebindNode on its own, with any number of callers   *)
(* and workers: passes never overlap, and no request is lost unless a pass *)
(* throws.                                                                 *)
(***************************************************************************)
EXTENDS VpnService, RebindQueue, FiniteSets, FiniteSetTheorems, TLAPS

USE ScenariosAssumption

-----------------------------------------------------------------------------
(* The session's records and descriptors.                                  *)

ConnPc == {"none", "check", "establish", "wanted", "adopt", "assign", "fd", "start", "error",
           "cancel", "teardown", "after", "stop", "drop", "register", "deferred", "done"}
WorkPc == {"none", "loop", "settle", "gate", "establish", "active", "adopt", "fd", "tell", "restart",
           "closeOld"}
ConnRec == [pc : ConnPc, fd : Nat, v6 : BOOLEAN]
DiscRec == [pc : {"none", "read", "clear", "stop", "close"}, fd : Nat]
WorkRec == [pc : WorkPc, fd : Nat, old : Nat, v6 : BOOLEAN]
EnvRec == [name : STRING, connects : Nat, disconnects : Nat, flips : Nat, settings : Nat,
           failures : SUBSET {"establish", "start", "identity"}]

\* The threads are records of their types.
Types ==
    /\ conn \in [Attempts -> ConnRec] /\ disc \in DiscRec /\ worker \in WorkRec /\ env \in EnvRec
    /\ made \in Nat /\ connectAttempt \in Nat /\ netV6 \in BOOLEAN

\* Every descriptor is one establish() made.
Bounded ==
    /\ tunFd \in 0..made /\ disc.fd \in 0..made /\ worker.fd \in 0..made /\ open \subseteq 1..made
    /\ \A a \in Attempts : conn[a].fd \in 0..made

\* A tunnel that a connect thread or the worker made and has not put into the field is its
\* own: neither in the field, nor with the teardown, nor another thread's.  The tunnel in
\* the field is not the one that is being torn down, except while it is being taken out.
Pending(a) == conn[a].pc \in {"wanted", "adopt", "assign"}
WorkerPending == worker.pc \in {"active", "adopt"}
Apart ==
    /\ tunFd # 0 /\ disc.pc # "clear" => tunFd # disc.fd
    /\ \A a \in Attempts : Pending(a) => conn[a].fd \notin {0, tunFd, disc.fd}
    /\ \A a, b \in Attempts : Pending(a) /\ Pending(b) /\ conn[a].fd = conn[b].fd => a = b
    /\ WorkerPending => worker.fd \notin {0, tunFd, disc.fd}
    /\ \A a \in Attempts : Pending(a) /\ WorkerPending => conn[a].fd # worker.fd

\* The first layer of every invariant below.
IInv == Types /\ Bounded /\ Apart

\* The records of threads that do not run.
LEMMA NothingRecs ==
    /\ NoConn \in ConnRec /\ NoConn.pc = "none" /\ NoConn.fd = 0
    /\ NoDisc \in DiscRec /\ NoDisc.pc = "none" /\ NoDisc.fd = 0
    /\ NoWork \in WorkRec /\ NoWork.pc = "none" /\ NoWork.fd = 0 /\ NoWork.old = 0
BY DEF NoConn, NoDisc, NoWork, ConnRec, DiscRec, WorkRec, ConnPc, WorkPc

\* A connect thread's step, one attempt at a time.
Moved(a, l) ==
    /\ conn' \in [Attempts -> ConnRec]
    /\ conn'[a].pc = l /\ conn'[a].fd = conn[a].fd /\ conn'[a].v6 = conn[a].v6
    /\ \A b \in Attempts : b # a => conn'[b] = conn[b]

\* A connect thread that goes on to another statement keeps its descriptor and what it knows of IPv6.
LEMMA MovedBy ==
    ASSUME conn \in [Attempts -> ConnRec], NEW a \in Attempts, NEW l \in ConnPc, ConnGoes(a, l)
    PROVE  Moved(a, l)
<1>1. conn' = [conn EXCEPT ![a] = [conn[a] EXCEPT !.pc = l]] BY DEF ConnGoes
<1>2. [conn[a] EXCEPT !.pc = l] \in ConnRec /\ conn[a] \in ConnRec BY DEF ConnRec
<1>3. /\ [conn[a] EXCEPT !.pc = l].pc = l /\ [conn[a] EXCEPT !.pc = l].fd = conn[a].fd
      /\ [conn[a] EXCEPT !.pc = l].v6 = conn[a].v6
    BY <1>2 DEF ConnRec
<1>4. QED BY <1>1, <1>2, <1>3 DEF Moved

\* beginConnect starts one thread; an attempt that is not counted starts none.
Begun ==
    /\ conn' \in [Attempts -> ConnRec]
    /\ \A b \in Attempts : b # connectAttempt + 1 => conn'[b] = conn[b]
    /\ connectAttempt + 1 \in Attempts =>
        conn'[connectAttempt + 1].pc = "check" /\ conn'[connectAttempt + 1].fd = 0

\* beginConnect starts one thread, for the attempt it numbers, and touches no other.
LEMMA BegunBy ==
    ASSUME conn \in [Attempts -> ConnRec], BeginConnect
    PROVE  Begun
<1> DEFINE r == [NoConn EXCEPT !.pc = "check"]
<1>2. r \in ConnRec /\ r.pc = "check" /\ r.fd = 0 BY NothingRecs DEF ConnRec, ConnPc
<1>3. conn' = [conn EXCEPT ![connectAttempt + 1] = r] BY DEF BeginConnect
<1> HIDE DEF r
<1>4. QED BY <1>2, <1>3 DEF Begun

\* rebindNode, seen from the worker's record.
Asked ==
    /\ rebindRequested' = TRUE /\ rebinding' = TRUE /\ worker' \in WorkRec
    /\ rebinding => worker' = worker
    /\ ~rebinding => worker'.pc = "loop" /\ worker'.fd = 0 /\ worker'.old = 0

\* rebindNode touches the worker only to start one where none runs.
LEMMA AskedBy ==
    ASSUME worker \in WorkRec, RebindNode
    PROVE  Asked
<1> DEFINE r == [NoWork EXCEPT !.pc = "loop"]
<1>2. r \in WorkRec /\ r.pc = "loop" /\ r.fd = 0 /\ r.old = 0 BY NothingRecs DEF WorkRec, WorkPc
<1>3. worker' = (IF rebinding THEN worker ELSE r) /\ rebindRequested' = TRUE /\ rebinding' = TRUE BY DEF RebindNode
<1> HIDE DEF r
<1>4. QED BY <1>2, <1>3 DEF Asked

\* The worker's step.
WorkMoved(l) ==
    /\ worker' \in WorkRec
    /\ worker'.pc = l /\ worker'.fd = worker.fd /\ worker'.old = worker.old /\ worker'.v6 = worker.v6

\* The worker that goes on to another statement keeps its descriptors.
LEMMA WorkMovedBy ==
    ASSUME worker \in WorkRec, NEW l \in WorkPc, WorkGoes(l)
    PROVE  WorkMoved(l)
BY DEF WorkGoes, WorkMoved, WorkRec

\* The worker's record, several fields at a time.
LEMMA WorkTells ==
    ASSUME worker \in WorkRec, NEW f \in Nat, worker' = [worker EXCEPT !.pc = "tell", !.fd = f, !.old = 0]
    PROVE  worker' \in WorkRec /\ worker'.pc = "tell" /\ worker'.fd = f /\ worker'.old = 0
BY DEF WorkRec, WorkPc

\* Establish leaves the tunnel it made in the worker's own hands.
LEMMA WorkMakes ==
    ASSUME worker \in WorkRec, NEW f \in Nat, worker' = [worker EXCEPT !.pc = "active", !.fd = f]
    PROVE  worker' \in WorkRec /\ worker'.pc = "active" /\ worker'.fd = f
BY DEF WorkRec, WorkPc

\* Adopting a tunnel, the worker keeps the one it replaces to close it later.
LEMMA WorkAdopts ==
    ASSUME worker \in WorkRec, NEW o \in Nat, worker' = [worker EXCEPT !.pc = "fd", !.old = o]
    PROVE  worker' \in WorkRec /\ worker'.pc = "fd" /\ worker'.fd = worker.fd /\ worker'.old = o
BY DEF WorkRec, WorkPc

\* The teardown that shutdown starts, unless one is under way.
TornDown ==
    /\ disc' \in DiscRec
    /\ stopping => UNCHANGED <<disc, baseline, monitored, notify>>
    /\ ~stopping => /\ disc'.pc = "read" /\ disc'.fd = 0
                    /\ baseline' = FALSE /\ monitored' = FALSE /\ notify' = FALSE

\* shutdown starts a teardown that has no tunnel yet.
LEMMA TornDownBy ==
    ASSUME disc \in DiscRec, Teardown
    PROVE  TornDown
<1> DEFINE r == [NoDisc EXCEPT !.pc = "read"]
<1>1. r \in DiscRec /\ r.pc = "read" /\ r.fd = 0 BY NothingRecs DEF DiscRec
<1>2. CASE stopping BY <1>2 DEF Teardown, TornDown
<1>3. CASE ~stopping
    <2>1. disc' = r /\ baseline' = FALSE /\ monitored' = FALSE /\ notify' = FALSE BY <1>3 DEF Teardown
    <2> HIDE DEF r
    <2>2. QED BY <1>1, <1>3, <2>1 DEF TornDown
<1>4. QED BY <1>2, <1>3

\* A step in which no thread comes to hold a tunnel it did not hold.
NothingNew ==
    /\ made' = made /\ open' \subseteq open
    /\ tunFd' \in {0, tunFd} /\ disc'.fd \in {0, disc.fd, tunFd}
    /\ \/ tunFd' = 0 \/ disc'.fd = 0 \/ disc'.pc = "clear"
       \/ disc'.fd = disc.fd /\ disc.pc # "clear"
    /\ \A b \in Attempts : /\ conn'[b].fd \in {0, conn[b].fd}
                           /\ Pending(b)' => Pending(b) /\ conn'[b].fd = conn[b].fd
    /\ worker'.fd \in {0, worker.fd, tunFd}
    /\ WorkerPending' => WorkerPending /\ worker'.fd = worker.fd

\* A step that makes no tunnel and brings none into a thread's hands keeps the descriptors apart.
LEMMA NothingNewKeeps ==
    ASSUME Types, Bounded, Apart, NothingNew
    PROVE  Bounded' /\ Apart'
<1>1. Bounded'
    <2>1. made' = made /\ open' \subseteq open /\ tunFd' \in {0, tunFd} /\ disc'.fd \in {0, disc.fd, tunFd}
          /\ worker'.fd \in {0, worker.fd, tunFd} /\ \A b \in Attempts : conn'[b].fd \in {0, conn[b].fd}
        BY DEF NothingNew
    <2>2. QED BY <2>1 DEF Bounded, Types
<1>2. (tunFd # 0 /\ disc.pc # "clear" => tunFd # disc.fd)' BY DEF NothingNew, Apart
<1>3. (\A a \in Attempts : Pending(a) => conn[a].fd \notin {0, tunFd, disc.fd})'
    BY DEF NothingNew, Apart
<1>4. (\A a, b \in Attempts : Pending(a) /\ Pending(b) /\ conn[a].fd = conn[b].fd => a = b)'
    BY DEF NothingNew, Apart
<1>5. (WorkerPending => worker.fd \notin {0, tunFd, disc.fd})' BY DEF NothingNew, Apart
<1>6. (\A a \in Attempts : Pending(a) /\ WorkerPending => conn[a].fd # worker.fd)' BY DEF NothingNew, Apart
<1>7. QED BY <1>1, <1>2, <1>3, <1>4, <1>5, <1>6 DEF Apart

-----------------------------------------------------------------------------
(* Every step keeps the descriptors apart.                                 *)

\* Nothing runs and nothing is open at the start.
LEMMA InitApart == Init => IInv
<1> SUFFICES ASSUME Init PROVE IInv OBVIOUS
<1>1. env \in EnvRec BY DEF Init, EnvRec
<1>2. conn \in [Attempts -> ConnRec] /\ \A a \in Attempts : conn[a] = NoConn BY NothingRecs DEF Init
<1>3. Types BY <1>1, <1>2, NothingRecs DEF Init, Types
<1>4. Bounded BY <1>2, NothingRecs DEF Init, Bounded
<1>5. Apart BY <1>2, NothingRecs DEF Init, Apart, Pending, WorkerPending
<1>6. QED BY <1>3, <1>4, <1>5 DEF IInv

\* What the environment has left is a record of the same kind.
LEMMA EnvSpent ==
    ASSUME env \in EnvRec
    PROVE  /\ env.connects > 0 /\ env' = [env EXCEPT !.connects = @ - 1] =>
                /\ env' \in EnvRec /\ env'.connects = env.connects - 1 /\ env'.disconnects = env.disconnects
                /\ env'.name = env.name /\ env'.flips = env.flips /\ env'.settings = env.settings
                /\ env'.failures = env.failures
           /\ env.disconnects > 0 /\ env' = [env EXCEPT !.disconnects = @ - 1] =>
                /\ env' \in EnvRec /\ env'.disconnects = env.disconnects - 1 /\ env'.connects = env.connects
                /\ env'.name = env.name /\ env'.flips = env.flips /\ env'.settings = env.settings
                /\ env'.failures = env.failures
           /\ env.flips > 0 /\ env' = [env EXCEPT !.flips = @ - 1] =>
                /\ env' \in EnvRec /\ env'.flips = env.flips - 1 /\ env'.connects = env.connects
                /\ env'.name = env.name /\ env'.disconnects = env.disconnects /\ env'.settings = env.settings
                /\ env'.failures = env.failures
           /\ env.settings > 0 /\ env' = [env EXCEPT !.settings = @ - 1] =>
                /\ env' \in EnvRec /\ env'.settings = env.settings - 1 /\ env'.connects = env.connects
                /\ env'.name = env.name /\ env'.disconnects = env.disconnects /\ env'.flips = env.flips
                /\ env'.failures = env.failures
BY DEF EnvRec

\* The main thread.
LEMMA MainApart ==
    ASSUME IInv,
           \/ ConnectIntent \/ DisconnectIntent \/ ConfigChanged \/ ConfigDefer \/ NetworkFlips
           \/ NetworkCallback \/ FinishShutdown \/ DestroyStep
    PROVE  IInv'
<1> USE DEF IInv, fields, tunnels, network, rebind
<1>1. CASE ConnectIntent
    <2>1. env' \in EnvRec BY <1>1, EnvSpent DEF ConnectIntent, Types
    <2>2. CASE stopping
        <3>1. UNCHANGED <<conn, connectAttempt, disc, worker, made, netV6, open, tunFd>>
            BY <1>1, <2>2 DEF ConnectIntent
        <3>2. Types' /\ NothingNew BY <2>1, <3>1 DEF Types, NothingNew, Pending, WorkerPending
        <3>3. QED BY <3>2, NothingNewKeeps
    <2>3. CASE ~stopping
        <3>1. /\ UNCHANGED <<disc, worker, made, netV6, open, tunFd>> /\ BeginConnect
              /\ connectAttempt' = connectAttempt + 1
            BY <1>1, <2>3 DEF ConnectIntent, BeginConnect
        <3>2. Begun BY <3>1, BegunBy DEF Types
        <3>3. Types' BY <2>1, <3>1, <3>2 DEF Types, Begun
        <3>4. NothingNew BY <3>1, <3>2 DEF Types, NothingNew, Begun, Pending, WorkerPending
        <3>5. QED BY <3>3, <3>4, NothingNewKeeps
    <2>4. QED BY <2>2, <2>3
<1>2. CASE DisconnectIntent
    <2>1. env' \in EnvRec BY <1>2, EnvSpent DEF DisconnectIntent, Types
    <2>2. /\ UNCHANGED <<conn, worker, made, netV6, open, tunFd>> /\ connectAttempt' = connectAttempt + 1
          /\ Teardown
        BY <1>2 DEF DisconnectIntent, Cancel
    <2>3. TornDown BY <2>2, TornDownBy DEF Types
    <2>4. Types' BY <2>1, <2>2, <2>3 DEF Types, TornDown
    <2>5. NothingNew BY <2>2, <2>3 DEF NothingNew, TornDown, Pending, WorkerPending
    <2>6. QED BY <2>4, <2>5, NothingNewKeeps
<1>3. CASE ConfigChanged
    <2>1. env' \in EnvRec BY <1>3, EnvSpent DEF ConfigChanged, Types
    <2>2. UNCHANGED <<conn, connectAttempt, disc, made, netV6, open, tunFd>> /\ (RebindNode \/ worker' = worker)
        BY <1>3 DEF ConfigChanged
    <2>3. Asked \/ worker' = worker BY <2>2, AskedBy DEF Types
    <2>4. Types' BY <2>1, <2>2, <2>3 DEF Types, Asked
    <2>5. NothingNew BY <2>2, <2>3 DEF NothingNew, Asked, Pending, WorkerPending
    <2>6. QED BY <2>4, <2>5, NothingNewKeeps
<1>4. CASE NetworkFlips
    <2>1. env' \in EnvRec BY <1>4, EnvSpent DEF NetworkFlips, Types
    <2>2. UNCHANGED <<conn, connectAttempt, disc, worker, made, open, tunFd>> /\ netV6' \in BOOLEAN
        BY <1>4 DEF NetworkFlips, Types
    <2>3. Types' /\ NothingNew BY <2>1, <2>2 DEF Types, NothingNew, Pending, WorkerPending
    <2>4. QED BY <2>3, NothingNewKeeps
<1>5. CASE NetworkCallback
    <2>1. /\ UNCHANGED <<conn, connectAttempt, disc, made, netV6, open, tunFd, env>>
          /\ RebindNode \/ worker' = worker
        BY <1>5 DEF NetworkCallback
    <2>2. Asked \/ worker' = worker BY <2>1, AskedBy DEF Types
    <2>3. Types' BY <2>1, <2>2 DEF Types, Asked
    <2>4. NothingNew BY <2>1, <2>2 DEF NothingNew, Asked, Pending, WorkerPending
    <2>5. QED BY <2>3, <2>4, NothingNewKeeps
<1>6. CASE FinishShutdown
    <2>1. UNCHANGED <<disc, worker, made, netV6, open, tunFd, env>>
        BY <1>6 DEF FinishShutdown
    <2>2. CASE BeginConnect
        <3>1. Begun /\ connectAttempt' = connectAttempt + 1 BY <2>2, BegunBy DEF Types, BeginConnect
        <3>2. Types' BY <2>1, <3>1 DEF Types, Begun
        <3>3. NothingNew BY <2>1, <3>1 DEF Types, NothingNew, Begun, Pending, WorkerPending
        <3>4. QED BY <3>2, <3>3, NothingNewKeeps
    <2>3. CASE UNCHANGED <<conn, connectAttempt>>
        <3>1. Types' /\ NothingNew BY <2>1, <2>3 DEF Types, NothingNew, Pending, WorkerPending
        <3>2. QED BY <3>1, NothingNewKeeps
    <2>4. QED BY <1>6, <2>2, <2>3 DEF FinishShutdown
<1>7. CASE ConfigDefer \/ DestroyStep
    <2>1. /\ UNCHANGED <<conn, connectAttempt, disc, worker, made, netV6, env>>
          /\ open' \subseteq open /\ tunFd' \in {0, tunFd}
        BY <1>7 DEF ConfigDefer, DestroyStep, OnDestroy, OnDestroyStop, OnDestroyClose, OnDestroyClear, Close
    <2>2. Types' /\ NothingNew BY <2>1 DEF Types, NothingNew, Pending, WorkerPending
    <2>3. QED BY <2>2, NothingNewKeeps
<1>8. QED BY <1>1, <1>2, <1>3, <1>4, <1>5, <1>6, <1>7

\* establish() makes a descriptor that nothing refers to.
LEMMA FreshFd ==
    ASSUME IInv, made' = made + 1, open' = open \cup {made + 1}, UNCHANGED <<tunFd, disc>>,
           \A b \in Attempts : \/ conn'[b] = conn[b]
                               \/ conn'[b].fd = made + 1 /\ \A c \in Attempts : c # b => conn'[c] = conn[c],
           worker' = worker \/ (worker'.fd = made + 1 /\ conn' = conn)
    PROVE  Bounded' /\ Apart'
<1> USE DEF IInv
<1>1. /\ made \in Nat /\ tunFd \in 0..made /\ disc.fd \in 0..made /\ worker.fd \in 0..made /\ open \subseteq 1..made
      /\ \A b \in Attempts : conn[b].fd \in 0..made
    BY DEF Types, Bounded
<1>2. /\ made + 1 \notin {0, tunFd, disc.fd, worker.fd} /\ \A b \in Attempts : conn[b].fd # made + 1
    BY <1>1
<1>3. Bounded'
    <2>1. \A b \in Attempts : conn'[b].fd \in 0..(made + 1) BY <1>1
    <2>2. worker'.fd \in 0..(made + 1) BY <1>1
    <2>3. QED BY <1>1, <2>1, <2>2 DEF Bounded
<1>4. (\A a \in Attempts : Pending(a) => conn[a].fd \notin {0, tunFd, disc.fd})'
    BY <1>2 DEF Apart, Pending
<1>5. (\A a, b \in Attempts : Pending(a) /\ Pending(b) /\ conn[a].fd = conn[b].fd => a = b)'
    BY <1>2 DEF Apart, Pending
<1>6. (WorkerPending => worker.fd \notin {0, tunFd, disc.fd})' BY <1>2 DEF Apart, WorkerPending
<1>7. (\A a \in Attempts : Pending(a) /\ WorkerPending => conn[a].fd # worker.fd)'
    BY <1>2 DEF Apart, Pending, WorkerPending
<1>8. (tunFd # 0 /\ disc.pc # "clear" => tunFd # disc.fd)' BY DEF Apart
<1>9. QED BY <1>3, <1>4, <1>5, <1>6, <1>7, <1>8 DEF Apart

\* A connect thread that only moves on, to a statement at which it holds no new tunnel.
LEMMA ConnKeeps ==
    ASSUME IInv, NEW a \in Attempts, NEW l \in ConnPc, ConnGoes(a, l), l \in {"adopt", "assign"} => Pending(a),
           l # "wanted", UNCHANGED <<made, netV6, env>>, worker' = worker \/ Asked, open' \subseteq open,
           \/ UNCHANGED <<tunFd, disc, connectAttempt>>
           \/ tunFd' = 0 /\ UNCHANGED <<disc, connectAttempt>>
           \/ UNCHANGED <<tunFd, disc>> /\ connectAttempt' = connectAttempt + 1
           \/ TornDown /\ UNCHANGED <<tunFd, connectAttempt>>
    PROVE  IInv'
<1> USE DEF IInv
<1>1. Moved(a, l) BY MovedBy DEF Types
<1>2. Types' BY <1>1 DEF Types, Moved, TornDown, Asked
<1>3. \A b \in Attempts : /\ conn'[b].fd \in {0, conn[b].fd}
                          /\ Pending(b)' => Pending(b) /\ conn'[b].fd = conn[b].fd
    BY <1>1 DEF Moved, Pending
<1>4. worker'.fd \in {0, worker.fd, tunFd} /\ (WorkerPending' => WorkerPending /\ worker'.fd = worker.fd)
    BY DEF Asked, WorkerPending
<1>5. /\ tunFd' \in {0, tunFd} /\ disc'.fd \in {0, disc.fd}
      /\ \/ tunFd' = 0 \/ disc'.fd = 0 \/ disc'.pc = "clear"
         \/ disc'.fd = disc.fd /\ disc.pc # "clear"
    BY DEF TornDown
<1>6. NothingNew BY <1>3, <1>4, <1>5 DEF NothingNew
<1>7. QED BY <1>2, <1>6, NothingNewKeeps

\* The connect threads.
LEMMA ConnApart ==
    ASSUME IInv, NEW a \in Attempts, ConnStep(a)
    PROVE  IInv'
<1> USE DEF IInv, fields, tunnels, network, rebind, ConnRest, ConnOnly
<1>1. CASE ConnCheck(a) \/ ConnAfter(a)
    <2>1. PICK l \in {"done", "establish", "register", "stop"} : ConnGoes(a, l)
        BY <1>1 DEF ConnCheck, ConnAfter
    <2>2. UNCHANGED <<made, netV6, env, worker, open, tunFd, disc, connectAttempt>>
        BY <1>1 DEF ConnCheck, ConnAfter
    <2>3. QED BY <2>1, <2>2, ConnKeeps DEF ConnPc
<1>2. CASE ConnEstablish(a)
    <2> DEFINE r == [pc |-> "wanted", fd |-> made + 1, v6 |-> netV6]
    <2>1. r \in ConnRec /\ r.fd = made + 1 BY DEF ConnRec, ConnPc, Types
    <2>2. /\ conn' = [conn EXCEPT ![a] = r] /\ made' = made + 1 /\ open' = open \cup {made + 1}
          /\ UNCHANGED <<netV6, env, worker, tunFd, disc, connectAttempt>>
        BY <1>2 DEF ConnEstablish, Establish
    <2> HIDE DEF r
    <2>3. /\ conn' \in [Attempts -> ConnRec] /\ conn'[a].fd = made + 1
          /\ \A b \in Attempts : b # a => conn'[b] = conn[b]
        BY <2>1, <2>2 DEF Types
    <2>4. Types' BY <2>2, <2>3 DEF Types
    <2>5. QED BY <2>2, <2>3, <2>4, FreshFd
<1>3. CASE ConnEstablishFails(a) \/ ConnError(a) \/ ConnCancel(a)
    <2>1. PICK l \in {"error", "cancel", "teardown"} : ConnGoes(a, l)
        BY <1>3 DEF ConnEstablishFails, ConnError, ConnCancel
    <2>2. /\ UNCHANGED <<made, netV6, env, worker, open, tunFd, disc>>
          /\ connectAttempt' \in {connectAttempt, connectAttempt + 1}
        BY <1>3 DEF ConnEstablishFails, ConnError, ConnCancel, Cancel
    <2>3. QED BY <2>1, <2>2, ConnKeeps DEF ConnPc
<1>4. CASE ConnWanted(a) \/ ConnAdopt(a)
    <2>1. PICK l \in {"adopt", "done", "assign"} : ConnGoes(a, l)
        BY <1>4 DEF ConnWanted, ConnAdopt
    <2>2. UNCHANGED <<made, netV6, env, worker, tunFd, disc, connectAttempt>> /\ open' \subseteq open /\ Pending(a)
        BY <1>4 DEF ConnWanted, ConnAdopt, Close, Pending
    <2>3. QED BY <2>1, <2>2, ConnKeeps DEF ConnPc
<1>5. CASE ConnAssign(a)
    <2>1. /\ ConnGoes(a, "fd") /\ tunFd' = conn[a].fd /\ Pending(a)
          /\ UNCHANGED <<made, netV6, env, worker, open, disc, connectAttempt>>
        BY <1>5 DEF ConnAssign, Pending
    <2>2. Moved(a, "fd") BY <2>1, MovedBy DEF Types, ConnPc
    <2>3. Types' BY <2>1, <2>2 DEF Types, Moved
    <2>4. Bounded' BY <2>1, <2>2 DEF Bounded, Moved
    <2>5. \A b \in Attempts : /\ Pending(b)' => b # a /\ Pending(b)
                              /\ conn'[b].fd = conn[b].fd
        BY <2>2 DEF Moved, Pending
    <2>6. Apart'
        <3>1. WorkerPending' = WorkerPending BY <2>1 DEF WorkerPending
        <3>2. QED BY <2>1, <2>5, <3>1 DEF Apart
    <2>7. QED BY <2>3, <2>4, <2>6
<1>6. CASE ConnFd(a) /\ ProcessDies
    <2>1. /\ UNCHANGED <<made, netV6, env, connectAttempt>> /\ tunFd' = 0 /\ open' = {}
          /\ disc' = NoDisc /\ worker' = NoWork /\ conn' = [b \in Attempts |-> NoConn]
        BY <1>6 DEF ProcessDies
    <2>2. conn' \in [Attempts -> ConnRec] /\ \A b \in Attempts : conn'[b] = NoConn BY <2>1, NothingRecs
    <2>3. Types' BY <2>1, <2>2, NothingRecs DEF Types
    <2>4. NothingNew BY <2>1, <2>2, NothingRecs DEF NothingNew, Pending, WorkerPending
    <2>5. QED BY <2>3, <2>4, NothingNewKeeps
<1>7. CASE ConnFd(a) /\ ~ProcessDies
    <2>1. ConnGoes(a, "start") /\ UNCHANGED <<made, netV6, env, worker, open, tunFd, disc, connectAttempt>>
        BY <1>7 DEF ConnFd
    <2>2. "start" \in ConnPc BY DEF ConnPc
    <2>3. QED BY <2>1, <2>2, ConnKeeps
<1>8. CASE ConnStart(a) \/ ConnStop(a) \/ ConnRegister(a)
    <2>1. PICK l \in {"after", "error", "drop", "deferred"} : ConnGoes(a, l)
        BY <1>8 DEF ConnStart, ConnStop, ConnRegister
    <2>2. UNCHANGED <<made, netV6, env, worker, open, tunFd, disc, connectAttempt>>
        BY <1>8 DEF ConnStart, ConnStop, ConnRegister
    <2>3. QED BY <2>1, <2>2, ConnKeeps DEF ConnPc
<1>9. CASE ConnDrop(a)
    <2>1. /\ ConnGoes(a, "done") /\ UNCHANGED <<made, netV6, env, worker, disc, connectAttempt>>
          /\ open' \subseteq open /\ (tunFd' = 0 \/ tunFd' = tunFd)
        BY <1>9 DEF ConnDrop, Close
    <2>2. "done" \in ConnPc BY DEF ConnPc
    <2>3. QED BY <2>1, <2>2, ConnKeeps
<1>10. CASE ConnDeferred(a)
    <2>1. /\ ConnGoes(a, "done") /\ UNCHANGED <<made, netV6, env, disc, open, tunFd, connectAttempt>>
          /\ RebindNode \/ worker' = worker
        BY <1>10 DEF ConnDeferred
    <2>2. Asked \/ worker' = worker BY <2>1, AskedBy DEF Types
    <2>3. "done" \in ConnPc BY DEF ConnPc
    <2>4. QED BY <2>1, <2>2, <2>3, ConnKeeps
<1>11. CASE ConnTeardown(a)
    <2>1. /\ ConnGoes(a, "done") /\ UNCHANGED <<made, netV6, env, worker, open, tunFd, connectAttempt>>
          /\ TornDown
        BY <1>11, TornDownBy DEF ConnTeardown, Types
    <2>2. "done" \in ConnPc BY DEF ConnPc
    <2>3. QED BY <2>1, <2>2, ConnKeeps
<1>12. QED BY <1>1, <1>2, <1>3, <1>4, <1>5, <1>6, <1>7, <1>8, <1>9, <1>10, <1>11 DEF ConnStep

\* A step of the worker that gives it no new tunnel of its own.
LEMMA WorkKeeps ==
    ASSUME IInv, worker' \in WorkRec, worker'.fd \in {0, worker.fd, tunFd},
           WorkerPending' => WorkerPending /\ worker'.fd = worker.fd,
           UNCHANGED <<made, netV6, env, conn, tunFd, disc, connectAttempt>>, open' \subseteq open
    PROVE  IInv'
<1> USE DEF IInv
<1>1. Types' BY DEF Types
<1>2. NothingNew BY DEF NothingNew, Pending
<1>3. QED BY <1>1, <1>2, NothingNewKeeps

\* The teardown and the rebind worker.
LEMMA WorkApart ==
    ASSUME IInv, DiscStep \/ WorkStep
    PROVE  IInv'
<1> USE DEF IInv, fields, tunnels, network, rebind, WorkRest
<1>1. CASE DiscStep
    <2>1. /\ UNCHANGED <<made, netV6, env, worker, conn, connectAttempt>> /\ open' \subseteq open
          /\ \/ disc' = [pc |-> "clear", fd |-> tunFd] /\ tunFd' = tunFd
             \/ disc' = [disc EXCEPT !.pc = "stop"] /\ tunFd' = 0
             \/ disc.pc = "stop" /\ disc' = [disc EXCEPT !.pc = "close"] /\ tunFd' = tunFd
             \/ disc' = NoDisc /\ tunFd' = tunFd
        BY <1>1 DEF DiscStep, TakeRead, TakeClear, DiscStop, DiscClose, Close
    <2>2. tunFd \in Nat BY DEF Types, Bounded
    <2>3. /\ disc' \in DiscRec /\ disc'.fd \in {0, disc.fd, tunFd} /\ tunFd' \in {0, tunFd}
          /\ \/ tunFd' = 0 \/ disc'.fd = 0 \/ disc'.pc = "clear"
             \/ disc'.fd = disc.fd /\ disc.pc # "clear"
        BY <2>1, <2>2, NothingRecs DEF DiscRec, Types
    <2>4. Types' BY <2>1, <2>3 DEF Types
    <2>5. NothingNew BY <2>1, <2>3 DEF NothingNew, Pending, WorkerPending
    <2>6. QED BY <2>4, <2>5, NothingNewKeeps
<1>2. CASE WorkLoop \/ WorkSettled \/ WorkFd \/ WorkTell \/ WorkRestart
    <2>1. /\ UNCHANGED <<made, netV6, env, conn, open, tunFd, disc, connectAttempt>>
          /\ \/ worker' = NoWork \/ WorkGoes("settle") \/ WorkGoes("gate") \/ WorkGoes("tell")
             \/ WorkGoes("restart") \/ WorkGoes("closeOld")
        BY <1>2 DEF WorkLoop, WorkSettled, WorkFd, WorkTell, WorkRestart, WorkDies
    <2>2. {"settle", "gate", "tell", "restart", "closeOld"} \subseteq WorkPc BY DEF WorkPc
    <2>3. \/ worker' = NoWork
          \/ \E l \in {"settle", "gate", "tell", "restart", "closeOld"} : WorkMoved(l)
        BY <2>1, <2>2, WorkMovedBy DEF Types
    <2>4. worker' \in WorkRec /\ worker'.fd \in {0, worker.fd} /\ ~WorkerPending'
        BY <2>3, NothingRecs DEF WorkMoved, WorkerPending
    <2>5. QED BY <2>1, <2>4, WorkKeeps
<1>3. CASE WorkGate
    <2>1. /\ UNCHANGED <<made, netV6, env, conn, open, tunFd, disc, connectAttempt>>
          /\ \/ WorkGoes("loop")
             \/ worker' = [worker EXCEPT !.pc = "establish", !.v6 = Wanted]
             \/ worker' = [worker EXCEPT !.pc = "tell", !.fd = tunFd, !.old = 0]
             \/ worker' = NoWork
        BY <1>3 DEF WorkGate, WorkDies
    <2>2. CASE WorkGoes("loop") BY <2>1, <2>2, WorkMovedBy, WorkKeeps DEF WorkPc, WorkMoved, WorkerPending, Types
    <2>3. CASE worker' = [worker EXCEPT !.pc = "establish", !.v6 = Wanted]
        <3>1. Wanted \in BOOLEAN BY DEF Wanted
        <3>2. worker' \in WorkRec /\ worker'.fd = worker.fd /\ worker'.pc = "establish"
            BY <2>3, <3>1 DEF WorkRec, WorkPc, Types
        <3>3. QED BY <2>1, <3>2, WorkKeeps DEF WorkerPending
    <2>4. CASE worker' = [worker EXCEPT !.pc = "tell", !.fd = tunFd, !.old = 0]
        <3>1. worker' \in WorkRec /\ worker'.fd = tunFd /\ worker'.pc = "tell"
            <4>1. worker \in WorkRec /\ "tell" \in WorkPc /\ tunFd \in Nat BY DEF Types, Bounded, WorkPc
            <4>2. QED BY <2>4, <4>1, WorkTells
        <3>2. QED BY <2>1, <3>1, WorkKeeps DEF WorkerPending
    <2>5. CASE worker' = NoWork BY <2>1, <2>5, NothingRecs, WorkKeeps DEF WorkerPending
    <2>6. QED BY <2>1, <2>2, <2>3, <2>4, <2>5
<1>4. CASE WorkEstablish
    <2>1. UNCHANGED <<netV6, env, conn, tunFd, disc, connectAttempt>> BY <1>4 DEF WorkEstablish
    <2>2. CASE Establish /\ worker' = [worker EXCEPT !.pc = "active", !.fd = made + 1]
        <3>1. made' = made + 1 /\ open' = open \cup {made + 1} BY <2>2 DEF Establish
        <3>2. worker' \in WorkRec /\ worker'.fd = made + 1
            <4>1. worker \in WorkRec /\ "active" \in WorkPc /\ made + 1 \in Nat BY DEF Types, WorkPc
            <4>2. QED BY <2>2, <4>1, WorkMakes
        <3>3. Types' BY <2>1, <3>1, <3>2 DEF Types
        <3>4. QED BY <2>1, <3>1, <3>2, <3>3, FreshFd
    <2>3. CASE WorkGoes("loop") /\ UNCHANGED <<open, made>>
        BY <2>1, <2>3, WorkMovedBy, WorkKeeps DEF WorkPc, WorkMoved, WorkerPending, Types
    <2>4. QED BY <1>4, <2>2, <2>3 DEF WorkEstablish
<1>5. CASE WorkActive
    <2>1. /\ UNCHANGED <<made, netV6, env, conn, tunFd, disc, connectAttempt>> /\ open' \subseteq open
          /\ WorkerPending /\ (WorkGoes("adopt") \/ WorkGoes("loop"))
        BY <1>5 DEF WorkActive, Close, WorkerPending
    <2>2. WorkMoved("adopt") \/ WorkMoved("loop") BY <2>1, WorkMovedBy DEF WorkPc, Types
    <2>3. QED BY <2>1, <2>2, WorkKeeps DEF WorkMoved, WorkerPending
<1>6. CASE WorkAdopt
    <2>1. /\ worker' = [worker EXCEPT !.pc = "fd", !.old = tunFd] /\ tunFd' = worker.fd /\ WorkerPending
          /\ UNCHANGED <<made, netV6, env, conn, open, disc, connectAttempt>>
        BY <1>6 DEF WorkAdopt, WorkerPending
    <2>2. worker' \in WorkRec /\ worker'.pc = "fd" /\ worker'.fd = worker.fd
        <3>1. worker \in WorkRec /\ "fd" \in WorkPc /\ tunFd \in Nat BY DEF Types, Bounded, WorkPc
        <3>2. QED BY <2>1, <3>1, WorkAdopts
    <2>3. Types' BY <2>1, <2>2 DEF Types
    <2>4. Bounded' BY <2>1, <2>2 DEF Bounded
    <2>5. Apart' BY <2>1, <2>2 DEF Apart, WorkerPending, Pending
    <2>6. QED BY <2>3, <2>4, <2>5
<1>7. CASE WorkCloseOld
    <2>1. /\ UNCHANGED <<made, netV6, env, conn, tunFd, disc, connectAttempt>> /\ open' \subseteq open
          /\ worker' = [NoWork EXCEPT !.pc = "loop"]
        BY <1>7 DEF WorkCloseOld, Close
    <2>2. worker' \in WorkRec /\ worker'.pc = "loop" /\ worker'.fd = 0 BY <2>1, NothingRecs DEF WorkRec, WorkPc
    <2>3. QED BY <2>1, <2>2, WorkKeeps DEF WorkerPending
<1>8. QED BY <1>1, <1>2, <1>3, <1>4, <1>5, <1>6, <1>7 DEF WorkStep

\* The descriptors of the session stay apart in every reachable state.
LEMMA NextApart == IInv /\ [Next]_vars => IInv'
<1> SUFFICES ASSUME IInv, [Next]_vars PROVE IInv' OBVIOUS
<1>1. CASE UNCHANGED vars
    <2>1. UNCHANGED <<conn, disc, worker, env, made, connectAttempt, netV6, tunFd, open>>
        BY <1>1 DEF vars, fields, tunnels, network, rebind
    <2>2. Types' /\ NothingNew BY <2>1 DEF IInv, Types, NothingNew, Pending, WorkerPending
    <2>3. QED BY <2>2, NothingNewKeeps DEF IInv
<1>2. CASE Next BY <1>2, MainApart, ConnApart, WorkApart DEF Next
<1>3. QED BY <1>1, <1>2

\* In every reachable state the descriptors that the service's threads hold are apart.
THEOREM DescriptorsApart == Spec => []IInv
<1>1. QED BY InitApart, NextApart, PTL DEF Spec

\* The step that ends a teardown is the disconnect thread's, or the process dies.
LEMMA TeardownStep ==
    ASSUME IInv, [Next]_vars, disc.pc = "close", disc' = NoDisc, service' # "crashed"
    PROVE  DiscClose
<1> USE DEF fields, tunnels, network, rebind, ConnRest, ConnOnly, WorkRest
<1>1. disc' # disc /\ disc'.pc = "none" BY NothingRecs
<1>2. ~Teardown
    <2>1. disc' \in DiscRec /\ disc'.pc \notin {"read", disc.pc} BY <1>1, NothingRecs
    <2>2. QED BY <1>1, <2>1, TornDownBy DEF IInv, Types, TornDown
<1>3. ~(UNCHANGED vars) BY <1>1 DEF vars
<1>4. ~(ConnectIntent \/ DisconnectIntent \/ ConfigChanged \/ ConfigDefer \/ NetworkFlips \/ NetworkCallback
        \/ FinishShutdown \/ DestroyStep)
    BY <1>1, <1>2 DEF ConnectIntent, DisconnectIntent, ConfigChanged, ConfigDefer, NetworkFlips, NetworkCallback,
       FinishShutdown, DestroyStep, OnDestroy, OnDestroyStop, OnDestroyClose, OnDestroyClear
<1>5. ASSUME NEW a \in Attempts PROVE ~ConnStep(a)
    BY <1>1, <1>2 DEF ConnStep, ConnCheck, ConnEstablish, ConnEstablishFails, ConnWanted, ConnAdopt, ConnAssign, ConnFd,
       ConnStart, ConnError, ConnCancel, ConnTeardown, ConnAfter, ConnStop, ConnDrop, ConnRegister, ConnDeferred,
       ProcessDies
<1>6. ~WorkStep
    BY <1>1 DEF WorkStep, WorkLoop, WorkSettled, WorkGate, WorkEstablish, WorkActive, WorkAdopt, WorkFd, WorkTell,
       WorkRestart, WorkCloseOld
<1>7. ~TakeRead /\ ~TakeClear /\ ~DiscStop BY DEF TakeRead, TakeClear, DiscStop
<1>8. QED BY <1>3, <1>4, <1>5, <1>6, <1>7 DEF Next, DiscStep

\* However connects, disconnects and rebinds interleave, the disconnect thread never closes
\* the tunnel that the field holds when it ends: shutdown handed it the old session's.
THEOREM NewTunnelSpared == Spec => TeardownSparesNewTunnel
<1> DEFINE Spares == disc.pc = "close" /\ disc' = NoDisc /\ service' # "crashed" /\ tunFd \in open
                        => tunFd' = tunFd /\ tunFd \in open'
<1>1. ASSUME IInv, [Next]_vars PROVE Spares
    <2> SUFFICES ASSUME disc.pc = "close", disc' = NoDisc, service' # "crashed", tunFd \in open
                 PROVE  tunFd' = tunFd /\ tunFd \in open'
        OBVIOUS
    <2>1. DiscClose BY <1>1, TeardownStep
    <2>2. tunFd' = tunFd /\ open' = open \ {disc.fd} BY <2>1 DEF DiscClose, Close
    <2>3. tunFd # disc.fd BY <1>1 DEF IInv, Bounded, Apart
    <2>4. QED BY <2>2, <2>3
<1>2. IInv /\ [Next]_vars => [Spares]_vars BY <1>1
<1>3. QED BY <1>2, DescriptorsApart, PTL DEF Spec, TeardownSparesNewTunnel

-----------------------------------------------------------------------------
(* The cancelled connect.                                                  *)

\* Nothing asks for a rebind: the routes of the one tunnel fit the network.
NoRebind ==
    /\ worker = NoWork /\ ~rebinding /\ ~rebindRequested /\ ~rebindAfterConnect /\ main # "defer"
    /\ env.connects <= 1 /\ env.flips = 0 /\ env.settings = 0
    /\ monitored => hasV6 = netV6
    /\ \A a \in Attempts : /\ Pending(a) => conn[a].v6 = netV6
                           /\ conn[a].pc \in {"fd", "start", "after", "register"} => hasV6 = netV6

\* There is one connect thread, and no connect is queued behind it.
Running(a) == conn[a].pc # "none"
Sole ==
    /\ \A a, b \in Attempts : Running(a) /\ Running(b) => a = b
    /\ (\E a \in Attempts : Running(a)) \/ service = "crashed" => env.connects = 0 /\ ~connectQueued
    /\ connectQueued => env.connects = 0

\* One teardown at a time, and the service goes down only after one.
OneTeardown ==
    /\ disc.pc # "none" => stopping /\ ~posted
    /\ disc.pc \in {"none", "read"} => disc.fd = 0
    /\ posted \/ connectQueued => stopping
    /\ tunnelActive /\ stopping => connectQueued
    /\ service # "up" => ~tunnelActive /\ ~connectQueued
    /\ main \in {"stop", "close", "clear"} => service = "stopSelf"

\* How far attempt a is, and where its engine and its tunnel are: the engine is up only for a
\* thread that will look whether it is still wanted, for a session that is, or until the
\* teardown stops it; an open tunnel is with a thread that closes it, in the field - and then
\* not when the service is dead and the thread has ended, unless a teardown takes it out yet -
\* or was nulled in the field by a thread that had read the field before (dropped).
Unfinished(a) == conn[a].pc \notin {"none", "done"}
Settled(a) == conn[a].pc \in {"register", "deferred", "done"}
Idle == open = {} /\ engine = 0 /\ tunFd = 0 /\ disc.fd = 0 /\ ~monitored
Stage(a) ==
    /\ conn[a].pc \in {"check", "establish"} => Idle
    /\ Pending(a) => engine = 0 /\ tunFd = 0 /\ disc.fd = 0
    /\ conn[a].pc \in {"fd", "start", "error", "cancel", "teardown", "drop"} => engine = 0
    /\ conn[a].pc \in {"cancel", "teardown"} => ~tunnelActive
    /\ Running(a) => open \subseteq {conn[a].fd} /\ tunFd \in {0, conn[a].fd}
    /\ Running(a) /\ open # {} =>
        Pending(a) \/ tunFd = conn[a].fd \/ disc.fd = conn[a].fd \/ conn[a].fd \in dropped
    /\ Unfinished(a) /\ stopping => service = "up"
    /\ Settled(a) /\ engine # 0 =>
        (tunnelActive /\ ~stopping /\ service = "up") \/ (stopping /\ disc.pc \in {"read", "clear", "stop"})
    /\ Settled(a) /\ service = "dead" => open = {} \/ tunFd = 0 \/ disc.pc \in {"read", "clear"}
Stages ==
    /\ (\A a \in Attempts : ~Running(a)) => Idle
    /\ \A a \in Attempts : Stage(a)

Cancelling == NoRebind /\ Sole /\ OneTeardown /\ Stages
CancelInv == env.name = "cancelled" => Cancelling

\* At the start of a cancelled session nothing runs, so each part holds of it.
LEMMA InitCancel == Init => CancelInv
<1> SUFFICES ASSUME Init, env.name = "cancelled" PROVE Cancelling BY DEF CancelInv
<1>1. \A a \in Attempts : conn[a] = NoConn BY DEF Init
<1>2. \A a \in Attempts : ~Running(a) /\ ~Pending(a) /\ ~Settled(a) /\ ~Unfinished(a)
                          /\ conn[a].pc = "none"
    BY <1>1, NothingRecs DEF Running, Pending, Settled, Unfinished
<1>3. env.connects <= 1 /\ env.flips = 0 /\ env.settings = 0 BY ScenarioNames DEF Init
<1>4. NoRebind BY <1>2, <1>3 DEF Init, NoRebind
<1>5. Sole BY <1>2 DEF Init, Sole
<1>6. OneTeardown BY NothingRecs DEF Init, OneTeardown
<1>7. Idle BY NothingRecs DEF Init, Idle
<1>8. Stages BY <1>2, <1>7 DEF Stages, Stage
<1>9. QED BY <1>4, <1>5, <1>6, <1>8 DEF Cancelling

\* The one connect thread moves on; the rest of the threads never ran.
LEMMA OneMoves ==
    ASSUME Sole, NEW a \in Attempts, Running(a), Running(a)', \A b \in Attempts : b # a => conn'[b] = conn[b],
           env'.connects = env.connects, connectQueued' => connectQueued
    PROVE  /\ Sole'
           /\ Stage(a)' => Stages'
           /\ \A b \in Attempts : b # a => ~Running(b)' /\ ~Pending(b)' /\ conn'[b].pc = "none"
<1>1. Running(a)' /\ \A b \in Attempts : b # a => conn'[b].pc = "none" BY DEF Sole, Running
<1>2. \A b \in Attempts : b # a => ~Running(b)' /\ ~Pending(b)' /\ ~Unfinished(b)' /\ ~Settled(b)'
    BY <1>1 DEF Running, Pending, Unfinished, Settled
<1>3. Sole'
    <2>1. env.connects = 0 /\ ~connectQueued BY DEF Sole
    <2>2. (\A c, d \in Attempts : Running(c) /\ Running(d) => c = d)' BY <1>2
    <2>3. QED BY <2>1, <2>2 DEF Sole
<1>4. Stage(a)' => Stages' BY <1>1, <1>2 DEF Stages, Stage
<1>5. QED BY <1>1, <1>2, <1>3, <1>4

\* The main thread leaves the connect threads alone.
LEMMA NoneMoves ==
    ASSUME conn' = conn, Sole, env'.connects = env.connects, connectQueued' => connectQueued,
           service' = "crashed" => service = "crashed"
    PROVE  Sole'
<1>1. \A a \in Attempts : Running(a)' = Running(a) BY DEF Running
<1>2. QED BY <1>1 DEF Sole

\* Nothing of the routes changes.
LEMMA RoutesKept ==
    ASSUME NoRebind, conn' = conn, UNCHANGED <<worker, rebinding, rebindRequested, hasV6, netV6>>,
           rebindAfterConnect' => rebindAfterConnect, monitored' => monitored, main' # "defer",
           env'.connects <= env.connects, env' \in EnvRec, env \in EnvRec, env'.flips = env.flips, env'.settings = env.settings
    PROVE  NoRebind'
<1>1. env'.connects <= 1 /\ env'.flips = 0 /\ env'.settings = 0 BY DEF NoRebind, EnvRec
<1>2. QED BY <1>1 DEF NoRebind, Pending

\* The step touches nothing the invariant speaks of.
LEMMA CancelStutter ==
    ASSUME IInv, Cancelling,
           UNCHANGED <<service, main, tunnelActive, connectQueued, stopping, rebindAfterConnect, dropped, tunFd, hasV6,
                       open, engine, netV6, monitored, conn, disc, posted, worker, rebinding, rebindRequested, env>>
    PROVE  Cancelling'
<1>1. NoRebind' BY RoutesKept DEF Cancelling, IInv, Types, NoRebind, EnvRec
<1>2. Sole' BY NoneMoves DEF Cancelling
<1>3. OneTeardown' BY DEF Cancelling, OneTeardown
<1>4. Idle' = Idle BY DEF Idle
<1>5. \A b \in Attempts : /\ Running(b)' = Running(b) /\ Pending(b)' = Pending(b)
                          /\ Unfinished(b)' = Unfinished(b) /\ Settled(b)' = Settled(b)
    BY DEF Running, Pending, Unfinished, Settled
<1>6. Stages' BY <1>4, <1>5 DEF Cancelling, Stages, Stage
<1>7. QED BY <1>1, <1>2, <1>3, <1>6 DEF Cancelling

\* beginConnect, when no connect thread ever ran and the last connect is used up.
LEMMA CancelBegins ==
    ASSUME IInv, Cancelling, BeginConnect, Idle, service = "up", \A b \in Attempts : ~Running(b),
           env'.connects = 0, env'.flips = env.flips, env'.settings = env.settings,
           ~stopping', ~posted', ~connectQueued', disc.pc = "none",
           UNCHANGED <<service, main, dropped, tunFd, hasV6, open, engine, netV6, monitored, disc, worker, rebinding,
                       rebindRequested>>
    PROVE  Cancelling'
<1> USE DEF IInv, Cancelling
<1>1. Begun /\ tunnelActive' = TRUE /\ rebindAfterConnect' = FALSE BY BegunBy DEF Types, BeginConnect
<1>2. Idle' BY DEF Idle
<1>3. \A b \in Attempts : conn'[b].pc = "check" \/ conn'[b].pc = "none"
    BY <1>1 DEF Running, Begun
<1>4. \A b \in Attempts : ~Pending(b)' /\ ~Settled(b)' /\ conn'[b].pc \notin {"fd", "start", "error", "cancel", "teardown",
                                                                              "drop", "after", "register"}
    BY <1>3 DEF Pending, Settled
<1>5. \A b \in Attempts : Running(b)' => b = connectAttempt + 1
    BY <1>1 DEF Running, Begun
<1>6. NoRebind' BY <1>1, <1>2, <1>4 DEF NoRebind, Idle
<1>7. Sole' BY <1>5 DEF Sole
<1>8. OneTeardown' BY DEF OneTeardown, Idle
<1>9. Stages'
    <2>1. \A b \in Attempts : Stage(b)' BY <1>2, <1>4 DEF Stage, Idle
    <2>2. QED BY <1>2, <2>1 DEF Stages
<1>10. QED BY <1>6, <1>7, <1>8, <1>9

\* The main thread.
LEMMA CancelMain ==
    ASSUME IInv, Cancelling,
           \/ ConnectIntent \/ DisconnectIntent \/ ConfigChanged \/ ConfigDefer \/ NetworkFlips
           \/ NetworkCallback \/ FinishShutdown \/ DestroyStep
    PROVE  Cancelling'
<1> USE DEF IInv, Cancelling, fields, tunnels, network, rebind
<1>1. CASE ConnectIntent
    <2>1. /\ env' \in EnvRec /\ env'.connects = env.connects - 1 /\ env'.flips = env.flips
          /\ env'.settings = env.settings
        BY <1>1, EnvSpent DEF ConnectIntent, Types
    <2>2. env.connects = 1 /\ env'.connects = 0 BY <1>1, <2>1 DEF ConnectIntent, NoRebind, Types, EnvRec
    <2>3. \A b \in Attempts : ~Running(b) BY <2>2 DEF Sole
    <2>4. Idle /\ service = "up" BY <1>1, <2>3 DEF Stages, ConnectIntent
    <2>5. UNCHANGED <<service, main, stopping, dropped, tunFd, hasV6, open, engine, netV6, monitored, disc, posted,
                      worker, rebinding, rebindRequested>> /\ tunnelActive' = TRUE
        BY <1>1 DEF ConnectIntent, BeginConnect
    <2>6. Idle' BY <2>4, <2>5 DEF Idle
    <2>7. CASE stopping
        <3>1. UNCHANGED <<rebindAfterConnect, conn>> /\ connectQueued' = TRUE
            BY <1>1, <2>7 DEF ConnectIntent
        <3>2. \A b \in Attempts : ~Running(b)' /\ ~Pending(b)' /\ ~Unfinished(b)' /\ ~Settled(b)' /\ conn'[b].pc = "none"
            BY <2>3, <3>1 DEF Running, Pending, Unfinished, Settled
        <3>3. main' # "defer" BY <2>5 DEF NoRebind
        <3>8. NoRebind' BY <2>1, <2>2, <2>5, <3>1, <3>3, RoutesKept DEF Types
        <3>4. Sole' BY <2>2, <2>4, <2>5, <3>2 DEF Sole
        <3>5. OneTeardown' BY <2>4, <2>5, <2>7, <3>1 DEF OneTeardown
        <3>6. Stages' BY <2>6, <3>2 DEF Stages, Stage
        <3>7. QED BY <3>8, <3>4, <3>5, <3>6
    <2>8. CASE ~stopping
        <3>1. BeginConnect /\ connectQueued' = connectQueued /\ rebindAfterConnect' = FALSE
            BY <1>1, <2>8 DEF ConnectIntent, BeginConnect
        <3>2. ~connectQueued /\ ~posted BY <2>8 DEF OneTeardown
        <3>3. disc.pc = "none" BY <2>8 DEF OneTeardown, Types, DiscRec
        <3>4. QED BY <2>1, <2>2, <2>3, <2>4, <2>5, <2>8, <3>1, <3>2, <3>3, CancelBegins
    <2>9. QED BY <2>7, <2>8
<1>2. CASE DisconnectIntent
    <2>1. /\ env' \in EnvRec /\ env'.connects = env.connects /\ env'.flips = env.flips
          /\ env'.settings = env.settings
        BY <1>2, EnvSpent DEF DisconnectIntent, Types
    <2>2. /\ service = "up" /\ tunnelActive' = FALSE /\ connectQueued' = FALSE /\ stopping' = TRUE
          /\ rebindAfterConnect' = FALSE /\ main' \in {"free", "take"}
          /\ UNCHANGED <<service, dropped, tunFd, open, engine, conn, posted, worker, rebinding, rebindRequested, hasV6,
                         netV6>>
        BY <1>2 DEF DisconnectIntent, Cancel, Teardown
    <2>3. TornDown BY <1>2, TornDownBy DEF DisconnectIntent, Types
    <2>4. NoRebind'
        <3>1. (monitored' => monitored) /\ main' # "defer" BY <2>2, <2>3 DEF TornDown
        <3>2. rebindAfterConnect' => rebindAfterConnect BY <2>2
        <3>3. env \in EnvRec /\ env'.connects <= env.connects BY <2>1 DEF Types, EnvRec
        <3>4. QED BY <2>1, <2>2, <3>1, <3>2, <3>3, RoutesKept
    <2>5. Sole' BY <2>1, <2>2, NoneMoves
    <2>6. OneTeardown' BY <2>2, <2>3 DEF OneTeardown, TornDown
    <2>7. Stages'
        <3>1. \A b \in Attempts : /\ Running(b)' = Running(b) /\ Pending(b)' = Pending(b)
                                  /\ Unfinished(b)' = Unfinished(b) /\ Settled(b)' = Settled(b)
            BY <2>2 DEF Running, Pending, Unfinished, Settled
        <3>2. 0 \notin open BY DEF Bounded
        <3>3. Idle => Idle' BY <2>2, <2>3 DEF Idle, TornDown
        <3>4. ~stopping => disc.fd = 0 BY DEF OneTeardown, Types, DiscRec
        <3>5. ASSUME NEW b \in Attempts PROVE Stage(b)'
            <4>1. Stage(b) BY DEF Stages
            <4>2. CASE stopping
                <5>1. UNCHANGED disc BY <4>2, <2>3 DEF TornDown
                <5>2. QED BY <2>2, <3>1, <3>3, <4>1, <4>2, <5>1 DEF Stage
            <4>3. CASE ~stopping
                <5>1. disc'.pc = "read" /\ disc'.fd = 0 BY <4>3, <2>3 DEF TornDown
                <5>2. QED BY <2>2, <3>1, <3>2, <3>3, <3>4, <4>1, <4>3, <5>1 DEF Stage
            <4>4. QED BY <4>2, <4>3
        <3>6. QED BY <3>1, <3>3, <3>5 DEF Stages
    <2>8. QED BY <2>4, <2>5, <2>6, <2>7
<1>3. CASE ConfigChanged \/ ConfigDefer \/ NetworkFlips BY <1>3 DEF ConfigChanged, ConfigDefer, NetworkFlips, NoRebind
<1>4. CASE NetworkCallback
    <2>1. UNCHANGED <<worker, rebinding, rebindRequested>> BY <1>4 DEF NetworkCallback, NoRebind
    <2>2. UNCHANGED <<service, main, tunnelActive, connectQueued, stopping, rebindAfterConnect, dropped, tunFd, hasV6,
                      open, engine, netV6, monitored, conn, disc, posted, env>>
        BY <1>4 DEF NetworkCallback
    <2>3. QED BY <2>1, <2>2, CancelStutter
<1>5. CASE FinishShutdown
    <2>1. /\ posted /\ posted' = FALSE /\ stopping' = FALSE /\ connectQueued' = FALSE
          /\ UNCHANGED <<main, dropped, tunFd, hasV6, open, engine, netV6, monitored, disc, worker, rebinding,
                         rebindRequested, env>>
          /\ main = "free"
        BY <1>5 DEF FinishShutdown
    <2>2. stopping /\ disc.pc = "none" /\ disc.fd = 0 BY <2>1 DEF OneTeardown
    <2>3. CASE connectQueued /\ BeginConnect /\ UNCHANGED service
        <3>1. \A b \in Attempts : ~Running(b) BY <2>3 DEF Sole
        <3>2. Idle /\ env.connects = 0 /\ service = "up" BY <2>3, <3>1 DEF Stages, Sole, OneTeardown
        <3>3. tunnelActive' = TRUE /\ rebindAfterConnect' = FALSE BY <2>3 DEF BeginConnect
        <3>4. ~stopping' /\ ~posted' /\ ~connectQueued' BY <2>1
        <3>5. env'.connects = 0 /\ env'.flips = env.flips /\ env'.settings = env.settings BY <2>1, <3>2
        <3>6. QED BY <2>1, <2>2, <2>3, <3>1, <3>2, <3>4, <3>5, CancelBegins
    <2>4. CASE ~(connectQueued /\ BeginConnect /\ UNCHANGED service)
        <3>1. /\ tunnelActive' = (tunnelActive /\ ~connectQueued)
              /\ service' = (IF service = "up" THEN "stopSelf" ELSE service)
              /\ UNCHANGED <<rebindAfterConnect, conn>>
            BY <1>5, <2>4 DEF FinishShutdown
        <3>2. ~tunnelActive' /\ service' # "up" BY <2>2, <3>1 DEF OneTeardown
        <3>3. NoRebind' BY <2>1, <3>1, RoutesKept DEF Types, NoRebind, EnvRec
        <3>4. Sole' BY <2>1, <3>1, NoneMoves
        <3>5. OneTeardown' BY <2>1, <2>2, <3>2 DEF OneTeardown
        <3>6. Stages'
            <4>1. \A b \in Attempts : /\ Running(b)' = Running(b) /\ Pending(b)' = Pending(b)
                                      /\ Unfinished(b)' = Unfinished(b) /\ Settled(b)' = Settled(b)
                BY <3>1 DEF Running, Pending, Unfinished, Settled
            <4>2. Idle' = Idle BY <2>1 DEF Idle
            <4>3. service' = "dead" => service = "dead" BY <3>1
            <4>4. ASSUME NEW b \in Attempts PROVE Stage(b)'
                <5>1. Stage(b) BY DEF Stages
                <5>2. QED BY <2>1, <2>2, <3>1, <4>1, <4>2, <4>3, <5>1 DEF Stage
            <4>5. QED BY <4>1, <4>2, <4>4 DEF Stages
        <3>7. QED BY <3>3, <3>4, <3>5, <3>6
    <2>5. QED BY <2>3, <2>4
<1>6. CASE DestroyStep
    <2>1. /\ service \notin {"up", "dead"} /\ service' # "crashed" /\ (tunnelActive' => tunnelActive)
          /\ service' # "up" /\ (service' = "dead" => tunFd' = 0)
          /\ main' \in {"stop", "close", "clear"} => service' = "stopSelf"
          /\ main' # "defer"
          /\ (monitored' => monitored) /\ engine' \in {0, engine}
          /\ UNCHANGED <<connectQueued, stopping, rebindAfterConnect, hasV6, netV6, conn, disc, posted,
                         worker, rebinding, rebindRequested, env>>
          /\ \/ tunFd' = tunFd /\ open' \subseteq open /\ dropped' = dropped
             \/ tunFd' = 0 /\ open' = open /\ dropped' = dropped \cup ({tunFd} \cap open)
        <3>1. CASE OnDestroy BY <3>1 DEF OnDestroy
        <3>2. CASE OnDestroyStop BY <3>2 DEF OnDestroyStop, OneTeardown
        <3>3. CASE OnDestroyClose BY <3>3 DEF OnDestroyClose, Close, OneTeardown
        <3>4. CASE OnDestroyClear BY <3>4 DEF OnDestroyClear, OneTeardown
        <3>5. QED BY <1>6, <3>1, <3>2, <3>3, <3>4 DEF DestroyStep
    <2>2. NoRebind' BY <2>1, RoutesKept DEF Types, NoRebind, EnvRec
    <2>3. Sole' BY <2>1, NoneMoves
    <2>4. OneTeardown' BY <2>1 DEF OneTeardown
    <2>5. Stages'
        <3>1. \A b \in Attempts : /\ Running(b)' = Running(b) /\ Pending(b)' = Pending(b)
                                  /\ Unfinished(b)' = Unfinished(b) /\ Settled(b)' = Settled(b)
            BY <2>1 DEF Running, Pending, Unfinished, Settled
        <3>2. Idle => Idle' BY <2>1 DEF Idle
        <3>3. ASSUME NEW b \in Attempts PROVE Stage(b)'
            <4>1. Stage(b) BY DEF Stages
            <4>2. Unfinished(b)' /\ stopping' => FALSE BY <2>1, <3>1, <4>1 DEF Stage
            <4>3. Running(b) => open' \subseteq {conn[b].fd} /\ tunFd' \in {0, conn[b].fd}
                BY <2>1, <4>1 DEF Stage
            <4>4. ASSUME Running(b), open' # {}
                  PROVE  Pending(b) \/ tunFd' = conn[b].fd \/ disc.fd = conn[b].fd \/ conn[b].fd \in dropped'
                <5>1. open # {} /\ open \subseteq {conn[b].fd} BY <2>1, <4>1, <4>4 DEF Stage
                <5>2. conn[b].fd \in open BY <5>1
                <5>3. Pending(b) \/ tunFd = conn[b].fd \/ disc.fd = conn[b].fd \/ conn[b].fd \in dropped
                    BY <4>1, <4>4, <5>1 DEF Stage
                <5>4. QED BY <2>1, <5>2, <5>3
            <4>5. Settled(b)' => engine' = 0 \/ (stopping' /\ disc'.pc \in {"read", "clear", "stop"})
                BY <2>1, <3>1, <4>1 DEF Stage
            <4>6. QED BY <2>1, <3>1, <3>2, <4>1, <4>2, <4>3, <4>4, <4>5 DEF Stage
        <3>4. QED BY <3>1, <3>2, <3>3 DEF Stages
    <2>6. QED BY <2>2, <2>3, <2>4, <2>5
<1>7. QED BY <1>1, <1>2, <1>3, <1>4, <1>5, <1>6

\* What a step of the connect thread does to the invariant, once its own stage is known.
LEMMA OneCancels ==
    ASSUME IInv, Cancelling, NEW a \in Attempts, Running(a), Running(a)',
           \A b \in Attempts : b # a => conn'[b] = conn[b],
           UNCHANGED <<worker, rebinding, rebindRequested, netV6, env>>,
           rebindAfterConnect' => rebindAfterConnect, connectQueued' => connectQueued, main' = main,
           monitored' => hasV6' = netV6, Pending(a)' => conn'[a].v6 = netV6,
           conn'[a].pc \in {"fd", "start", "after", "register"} => hasV6' = netV6
    PROVE  NoRebind' /\ Sole' /\ (Stage(a)' => Stages')
<1> USE DEF Cancelling
<1>1. /\ Sole' /\ (Stage(a)' => Stages')
      /\ \A b \in Attempts : b # a => ~Running(b)' /\ ~Pending(b)' /\ conn'[b].pc = "none"
    BY OneMoves
<1>2. \A b \in Attempts : /\ Pending(b)' => conn'[b].v6 = netV6'
                          /\ conn'[b].pc \in {"fd", "start", "after", "register"} => hasV6' = netV6'
    BY <1>1
<1>3. NoRebind' BY <1>2 DEF NoRebind
<1>4. QED BY <1>1, <1>3

\* A step of the connect thread that starts no teardown.
LEMMA OneGoes ==
    ASSUME IInv, Cancelling, NEW a \in Attempts, Running(a), NEW l \in ConnPc, l # "none", ConnGoes(a, l),
           UNCHANGED <<worker, rebinding, rebindRequested, netV6, env, service, main, stopping, disc, posted>>,
           tunnelActive' => tunnelActive, connectQueued' => connectQueued, rebindAfterConnect' => rebindAfterConnect,
           l \in {"wanted", "adopt", "assign"} => Pending(a), monitored' => hasV6' = netV6,
           l \in {"fd", "start", "after", "register"} => hasV6' = netV6
    PROVE  Moved(a, l) /\ (Stage(a)' => Cancelling')
<1> USE DEF Cancelling
<1>1. Moved(a, l) /\ Running(a)' BY MovedBy DEF IInv, Types, Moved, Running
<1>2. Pending(a)' => conn'[a].v6 = netV6 BY <1>1 DEF Moved, Pending, NoRebind
<1>3. conn'[a].pc \in {"fd", "start", "after", "register"} => hasV6' = netV6 BY <1>1 DEF Moved
<1>4. \A b \in Attempts : b # a => conn'[b] = conn[b] BY <1>1 DEF Moved
<1>5. NoRebind' /\ Sole' /\ (Stage(a)' => Stages') BY <1>1, <1>2, <1>3, <1>4, OneCancels
<1>6. OneTeardown' BY DEF OneTeardown, Sole
<1>7. QED BY <1>1, <1>5, <1>6

\* A connect that failed starts the teardown and ends its thread.
LEMMA OneFails ==
    ASSUME IInv, Cancelling, NEW a \in Attempts, ConnTeardown(a)
    PROVE  Cancelling'
<1> USE DEF IInv, Cancelling, tunnels, ConnRest
<1>1. TornDown BY TornDownBy DEF ConnTeardown, Types
<1>2. /\ stopping' /\ conn[a].pc = "teardown" /\ ConnGoes(a, "done")
      /\ UNCHANGED <<service, main, posted, env, rebindRequested, rebinding, worker, tunnelActive, connectQueued,
                     rebindAfterConnect, dropped, engine, netV6, hasV6, tunFd, open>>
    BY DEF ConnTeardown, Teardown
<1>3. Moved(a, "done") BY <1>2, MovedBy DEF Types, ConnPc
<1>4. Running(a) /\ Running(a)' /\ ~Pending(a) /\ ~Pending(a)' /\ Unfinished(a) /\ ~Unfinished(a)'
      /\ conn'[a].pc = "done" /\ conn'[a].fd = conn[a].fd
    BY <1>2, <1>3 DEF Running, Pending, Moved, Unfinished
<1>5. \A b \in Attempts : b # a => conn'[b] = conn[b] BY <1>3 DEF Moved
<1>6. monitored' => monitored BY <1>1 DEF TornDown
<1>7. Stage(a) BY DEF Stages
<1>8. engine = 0 /\ 0 \notin open /\ ~tunnelActive BY <1>2, <1>7 DEF Stage, Bounded
<1>9. open \subseteq {conn[a].fd} /\ tunFd \in {0, conn[a].fd}
      /\ (open # {} => tunFd = conn[a].fd \/ disc.fd = conn[a].fd \/ conn[a].fd \in dropped)
    BY <1>4, <1>7 DEF Stage
<1>10. Stage(a)'
    <2>1. CASE stopping
        <3>1. service = "up" /\ UNCHANGED disc BY <1>1, <1>4, <1>7, <2>1 DEF Stage, TornDown
        <3>2. QED BY <1>2, <1>4, <1>8, <1>9, <3>1 DEF Stage
    <2>2. CASE ~stopping
        <3>1. disc'.pc = "read" BY <1>1, <2>2 DEF TornDown
        <3>2. disc.fd = 0 BY <2>2 DEF OneTeardown, Types, DiscRec
        <3>3. open # {} => tunFd = conn[a].fd \/ conn[a].fd \in dropped BY <1>8, <1>9, <3>2
        <3>4. QED BY <1>2, <1>4, <1>8, <1>9, <3>1, <3>3 DEF Stage
    <2>3. QED BY <2>1, <2>2
<1>11. OneTeardown' BY <1>1, <1>2, <1>8 DEF OneTeardown, TornDown
<1>12. monitored' => hasV6' = netV6 BY <1>2, <1>6 DEF NoRebind
<1>13. NoRebind' /\ Sole' /\ Stages' BY <1>2, <1>4, <1>5, <1>10, <1>12, OneCancels
<1>14. QED BY <1>11, <1>13

\* Every statement of the connect thread keeps the stages of a cancelled session.
LEMMA CancelConn ==
    ASSUME IInv, Cancelling, NEW a \in Attempts, ConnStep(a)
    PROVE  Cancelling'
<1> USE DEF IInv, Cancelling, fields, tunnels, network, rebind, ConnRest, ConnOnly
<1>1. Stage(a) /\ (monitored => hasV6 = netV6) BY DEF Stages, NoRebind
<1>2. conn[a].pc \in {"fd", "start", "after", "register"} => hasV6 = netV6 BY DEF NoRebind
<1>3. CASE ConnCheck(a)
    <2>1. PICK l \in {"done", "establish"} : ConnGoes(a, l) BY <1>3 DEF ConnCheck
    <2>2. conn[a].pc = "check" /\ Running(a) BY <1>3 DEF ConnCheck, Running
    <2>3. UNCHANGED <<worker, rebinding, rebindRequested, rebindAfterConnect, netV6, env, service, main, tunnelActive,
                      connectQueued, stopping, dropped, disc, posted, monitored, hasV6, open, engine, tunFd>>
        BY <1>3 DEF ConnCheck
    <2>4. l \in ConnPc BY <2>1 DEF ConnPc
    <2>5. Moved(a, l) /\ (Stage(a)' => Cancelling') BY <1>1, <2>1, <2>2, <2>3, <2>4, OneGoes
    <2>6. conn'[a].pc = l /\ conn'[a].fd = conn[a].fd BY <2>5 DEF Moved
    <2>7. Idle /\ Idle' /\ Unfinished(a) BY <1>1, <2>2, <2>3 DEF Stage, Idle, Unfinished
    <2>8. Stage(a)' BY <1>1, <2>1, <2>3, <2>6, <2>7 DEF Stage, Idle, Pending, Settled
    <2>9. QED BY <2>5, <2>8
<1>4. CASE ConnEstablish(a)
    <2> DEFINE r == [pc |-> "wanted", fd |-> made + 1, v6 |-> netV6]
    <2>1. r.pc = "wanted" /\ r.fd = made + 1 /\ r.v6 = netV6 OBVIOUS
    <2>2. /\ conn' = [conn EXCEPT ![a] = r] /\ made' = made + 1 /\ open' = open \cup {made + 1}
          /\ conn[a].pc = "establish"
          /\ UNCHANGED <<worker, rebinding, rebindRequested, rebindAfterConnect, netV6, env, service, main, tunnelActive,
                         connectQueued, stopping, dropped, disc, posted, monitored, hasV6, engine, tunFd>>
        BY <1>4 DEF ConnEstablish, Establish
    <2> HIDE DEF r
    <2>3. /\ conn'[a].pc = "wanted" /\ conn'[a].fd = made + 1 /\ conn'[a].v6 = netV6
          /\ \A b \in Attempts : b # a => conn'[b] = conn[b]
        BY <2>1, <2>2 DEF Types
    <2>4. Running(a) /\ Running(a)' /\ Unfinished(a) BY <2>2, <2>3 DEF Running, Unfinished
    <2>5. Idle BY <1>1, <2>2 DEF Stage
    <2>6. Stage(a)' BY <1>1, <2>2, <2>3, <2>4, <2>5 DEF Stage, Idle, Pending, Settled
    <2>7. OneTeardown' BY <2>2 DEF OneTeardown
    <2>8. monitored' => hasV6' = netV6 BY <1>1, <2>2
    <2>9. NoRebind' /\ Sole' /\ Stages' BY <2>2, <2>3, <2>4, <2>6, <2>8, OneCancels
    <2>10. QED BY <2>7, <2>9
<1>5. CASE ConnEstablishFails(a) \/ ConnError(a) \/ ConnCancel(a)
    <2>1. PICK l \in {"error", "cancel", "teardown"} :
            /\ ConnGoes(a, l)
            /\ l = "error" => conn[a].pc = "establish"
            /\ l = "cancel" => conn[a].pc = "error" /\ ~tunnelActive'
            /\ l = "teardown" => conn[a].pc = "cancel" /\ tunnelActive' = tunnelActive
        BY <1>5 DEF ConnEstablishFails, ConnError, ConnCancel
    <2>2. /\ UNCHANGED <<worker, rebinding, rebindRequested, netV6, env, service, main, stopping, dropped, disc, posted,
                         monitored, hasV6, open, engine, tunFd>>
          /\ (tunnelActive' => tunnelActive) /\ (connectQueued' => connectQueued)
          /\ (rebindAfterConnect' => rebindAfterConnect)
        BY <1>5 DEF ConnEstablishFails, ConnError, ConnCancel, Cancel
    <2>3. ~Pending(a) /\ Running(a) /\ Unfinished(a) BY <2>1 DEF Pending, Running, Unfinished
    <2>4. l \in ConnPc BY <2>1 DEF ConnPc
    <2>5. Moved(a, l) /\ (Stage(a)' => Cancelling') BY <1>1, <2>1, <2>2, <2>3, <2>4, OneGoes
    <2>6. conn'[a].pc = l /\ conn'[a].fd = conn[a].fd BY <2>5 DEF Moved
    <2>7. engine = 0 /\ (l = "teardown" => ~tunnelActive) BY <1>1, <2>1 DEF Stage, Idle
    <2>8. conn'[a].pc \notin {"check", "establish", "none", "done", "register", "deferred"} /\ ~Pending(a)'
        BY <2>1, <2>6 DEF Pending
    <2>9. Stage(a)' BY <1>1, <2>1, <2>2, <2>3, <2>6, <2>7, <2>8 DEF Stage, Settled, Unfinished, Running
    <2>10. QED BY <2>5, <2>9
<1>6. CASE ConnWanted(a) \/ ConnAdopt(a)
    <2>1. PICK l \in {"adopt", "done", "assign"} :
            ConnGoes(a, l) /\ (l = "done" => open' = open \ {conn[a].fd})
        BY <1>6 DEF ConnWanted, ConnAdopt, Close
    <2>2. Pending(a) /\ Running(a) /\ Unfinished(a) BY <1>6 DEF ConnWanted, ConnAdopt, Pending, Running, Unfinished
    <2>3. /\ UNCHANGED <<worker, rebinding, rebindRequested, rebindAfterConnect, netV6, env, service, main, tunnelActive,
                         connectQueued, stopping, dropped, disc, posted, monitored, hasV6, engine, tunFd>>
          /\ open' \subseteq open
        BY <1>6 DEF ConnWanted, ConnAdopt, Close
    <2>4. l \in ConnPc BY <2>1 DEF ConnPc
    <2>5. Moved(a, l) /\ (Stage(a)' => Cancelling') BY <1>1, <2>1, <2>2, <2>3, <2>4, OneGoes
    <2>6. conn'[a].pc = l /\ conn'[a].fd = conn[a].fd BY <2>5 DEF Moved
    <2>7. engine = 0 /\ tunFd = 0 /\ disc.fd = 0 /\ open \subseteq {conn[a].fd}
        BY <1>1, <2>2 DEF Stage
    <2>8. l = "done" => open' = {} BY <2>1, <2>7
    <2>9. Stage(a)' BY <1>1, <2>1, <2>2, <2>3, <2>6, <2>7, <2>8 DEF Stage, Pending, Settled, Unfinished
    <2>10. QED BY <2>5, <2>9
<1>7. CASE ConnAssign(a)
    <2>1. /\ ConnGoes(a, "fd") /\ conn[a].pc = "assign" /\ tunFd' = conn[a].fd /\ hasV6' = conn[a].v6
          /\ UNCHANGED <<worker, rebinding, rebindRequested, rebindAfterConnect, netV6, env, service, main, tunnelActive,
                         connectQueued, stopping, dropped, disc, posted, monitored, engine, open>>
        BY <1>7 DEF ConnAssign
    <2>2. Pending(a) /\ Running(a) /\ Unfinished(a) BY <2>1 DEF Pending, Running, Unfinished
    <2>3. hasV6' = netV6 BY <2>1, <2>2 DEF NoRebind
    <2>4. "fd" \in ConnPc BY DEF ConnPc
    <2>5. Moved(a, "fd") /\ (Stage(a)' => Cancelling') BY <2>1, <2>2, <2>3, <2>4, OneGoes
    <2>6. conn'[a].pc = "fd" /\ conn'[a].fd = conn[a].fd BY <2>5 DEF Moved
    <2>7. Stage(a)' BY <1>1, <2>1, <2>2, <2>6 DEF Stage, Pending, Settled
    <2>8. QED BY <2>5, <2>7
<1>8. CASE ConnFd(a) /\ ProcessDies
    <2>1. /\ service' = "crashed" /\ main' = "free" /\ ~tunnelActive' /\ ~connectQueued' /\ ~stopping' /\ tunFd' = 0 /\ open' = {}
          /\ engine' = 0 /\ ~monitored' /\ conn' = [b \in Attempts |-> NoConn] /\ disc' = NoDisc /\ ~posted'
          /\ ~rebindRequested' /\ ~rebinding' /\ worker' = NoWork /\ UNCHANGED <<rebindAfterConnect, hasV6, netV6, env>>
        BY <1>8 DEF ProcessDies
    <2>2. \A b \in Attempts : conn'[b].pc = "none" BY <2>1, NothingRecs
    <2>3. \A b \in Attempts : ~Running(b)' /\ ~Pending(b)' /\ ~Settled(b)' /\ ~Unfinished(b)'
        BY <2>2 DEF Running, Pending, Settled, Unfinished
    <2>4. env.connects = 0
        <3>1. Running(a) BY <1>8 DEF ConnFd, Running
        <3>2. QED BY <3>1 DEF Sole
    <2>5. NoRebind' BY <2>1, <2>2, <2>3 DEF NoRebind
    <2>6. Sole' BY <2>1, <2>3, <2>4 DEF Sole
    <2>7. OneTeardown' BY <2>1, NothingRecs DEF OneTeardown
    <2>8. Stages' BY <2>1, <2>2, <2>3, NothingRecs DEF Stages, Stage, Idle
    <2>9. QED BY <2>5, <2>6, <2>7, <2>8
<1>9. CASE ConnFd(a) /\ ~ProcessDies
    <2>1. /\ ConnGoes(a, "start") /\ conn[a].pc = "fd"
          /\ UNCHANGED <<worker, rebinding, rebindRequested, rebindAfterConnect, netV6, env, service, main, tunnelActive,
                         connectQueued, stopping, dropped, disc, posted, monitored, hasV6, engine, open, tunFd>>
        BY <1>9 DEF ConnFd
    <2>2. ~Pending(a) /\ Running(a) /\ Unfinished(a) BY <2>1 DEF Pending, Running, Unfinished
    <2>3. "start" \in ConnPc BY DEF ConnPc
    <2>4. Moved(a, "start") /\ (Stage(a)' => Cancelling') BY <1>1, <1>2, <2>1, <2>2, <2>3, OneGoes
    <2>5. conn'[a].pc = "start" /\ conn'[a].fd = conn[a].fd BY <2>4 DEF Moved
    <2>6. Stage(a)' BY <1>1, <2>1, <2>2, <2>5 DEF Stage, Pending, Settled
    <2>7. QED BY <2>4, <2>6
<1>10. CASE ConnStart(a) \/ ConnStop(a)
    <2>1. PICK l \in {"after", "error", "drop"} :
            ConnGoes(a, l) /\ (l = "drop" => engine' = 0) /\ (l = "error" => engine' = engine /\ conn[a].pc = "start")
            /\ (l = "after" => conn[a].pc = "start")
        BY <1>10 DEF ConnStart, ConnStop
    <2>2. /\ conn[a].pc \in {"start", "stop"}
          /\ UNCHANGED <<worker, rebinding, rebindRequested, rebindAfterConnect, netV6, env, service, main, tunnelActive,
                         connectQueued, stopping, dropped, disc, posted, monitored, hasV6, open, tunFd>>
        BY <1>10 DEF ConnStart, ConnStop
    <2>3. ~Pending(a) /\ Running(a) /\ Unfinished(a) BY <2>2 DEF Pending, Running, Unfinished
    <2>4. l \in ConnPc BY <2>1 DEF ConnPc
    <2>5. Moved(a, l) /\ (Stage(a)' => Cancelling') BY <1>1, <1>2, <2>1, <2>2, <2>3, <2>4, OneGoes
    <2>6. conn'[a].pc = l /\ conn'[a].fd = conn[a].fd BY <2>5 DEF Moved
    <2>7. Stage(a)' BY <1>1, <2>1, <2>2, <2>3, <2>6 DEF Stage, Pending, Settled, Running
    <2>8. QED BY <2>5, <2>7
<1>11. CASE ConnAfter(a)
    <2>1. PICK l \in {"register", "stop"} : ConnGoes(a, l) /\ (l = "register" => tunnelActive)
        BY <1>11 DEF ConnAfter, stillWanted
    <2>2. /\ conn[a].pc = "after"
          /\ UNCHANGED <<worker, rebinding, rebindRequested, rebindAfterConnect, netV6, env, service, main, tunnelActive,
                         connectQueued, stopping, dropped, disc, posted, monitored, hasV6, open, tunFd, engine>>
        BY <1>11 DEF ConnAfter
    <2>3. ~Pending(a) /\ Running(a) /\ Unfinished(a) BY <2>2 DEF Pending, Running, Unfinished
    <2>4. l \in ConnPc BY <2>1 DEF ConnPc
    <2>5. Moved(a, l) /\ (Stage(a)' => Cancelling') BY <1>1, <1>2, <2>1, <2>2, <2>3, <2>4, OneGoes
    <2>6. conn'[a].pc = l /\ conn'[a].fd = conn[a].fd BY <2>5 DEF Moved
    <2>7. tunnelActive => service = "up" /\ ~stopping BY <2>3 DEF OneTeardown, Sole
    <2>8. Stage(a)' BY <1>1, <2>1, <2>2, <2>3, <2>6, <2>7 DEF Stage, Pending, Settled
    <2>9. QED BY <2>5, <2>8
<1>12. CASE ConnDrop(a)
    <2>1. /\ ConnGoes(a, "done") /\ conn[a].pc = "drop" /\ tunFd' \in {0, tunFd} /\ open' = open \ {conn[a].fd}
          /\ UNCHANGED <<worker, rebinding, rebindRequested, rebindAfterConnect, netV6, env, service, main, tunnelActive,
                         connectQueued, stopping, dropped, disc, posted, monitored, hasV6, engine>>
        BY <1>12 DEF ConnDrop, Close
    <2>2. ~Pending(a) /\ Running(a) BY <2>1 DEF Pending, Running
    <2>3. "done" \in ConnPc BY DEF ConnPc
    <2>4. Moved(a, "done") /\ (Stage(a)' => Cancelling') BY <1>1, <2>1, <2>2, <2>3, OneGoes
    <2>5. conn'[a].pc = "done" /\ conn'[a].fd = conn[a].fd BY <2>4 DEF Moved
    <2>6. open' = {} /\ engine = 0 /\ tunFd' \in {0, conn[a].fd} BY <1>1, <2>1, <2>2 DEF Stage
    <2>7. Stage(a)' BY <2>1, <2>5, <2>6 DEF Stage, Pending, Unfinished
    <2>8. QED BY <2>4, <2>7
<1>13. CASE ConnRegister(a) \/ ConnDeferred(a)
    <2>1. PICK l \in {"deferred", "done"} : ConnGoes(a, l) BY <1>13 DEF ConnRegister, ConnDeferred
    <2>2. /\ Settled(a) /\ Unfinished(a) /\ Running(a)
          /\ monitored' => monitored \/ conn[a].pc = "register"
          /\ UNCHANGED <<worker, rebinding, rebindRequested, netV6, env, service, main, tunnelActive,
                         connectQueued, stopping, dropped, disc, posted, hasV6, engine, open, tunFd>>
          /\ rebindAfterConnect' => rebindAfterConnect
        BY <1>13 DEF ConnRegister, ConnDeferred, NoRebind, Settled, Unfinished, Running
    <2>3. l \in ConnPc BY <2>1 DEF ConnPc
    <2>4. monitored' => hasV6' = netV6 BY <1>1, <1>2, <2>2
    <2>5. Moved(a, l) /\ (Stage(a)' => Cancelling') BY <2>1, <2>2, <2>3, <2>4, OneGoes
    <2>6. conn'[a].pc = l /\ conn'[a].fd = conn[a].fd BY <2>5 DEF Moved
    <2>7. ~Pending(a) /\ ~Pending(a)' /\ Settled(a)' BY <2>1, <2>2, <2>6 DEF Settled, Pending
    <2>8. Stage(a)' BY <1>1, <2>1, <2>2, <2>6, <2>7 DEF Stage
    <2>9. QED BY <2>5, <2>8
<1>14. CASE ConnTeardown(a) BY <1>14, OneFails
<1>15. QED BY <1>3, <1>4, <1>5, <1>6, <1>7, <1>8, <1>9, <1>10, <1>11, <1>12, <1>13, <1>14 DEF ConnStep

\* The teardown takes the tunnel out of the field, stops the engine and closes the tunnel.
LEMMA CancelDisc ==
    ASSUME IInv, Cancelling, DiscStep
    PROVE  Cancelling'
<1> USE DEF IInv, Cancelling, fields, tunnels, network, rebind
<1>1. /\ UNCHANGED <<service, tunnelActive, connectQueued, stopping, rebindAfterConnect, hasV6, netV6,
                     monitored, conn, worker, rebinding, rebindRequested, env>>
      /\ main' \in {main, "free"} /\ engine' \in {0, engine} /\ open' \subseteq open
      /\ \/ disc.pc = "read" /\ disc' = [pc |-> "clear", fd |-> tunFd] /\ UNCHANGED <<open, posted, tunFd, dropped>>
         \/ /\ disc.pc = "clear" /\ disc' = [disc EXCEPT !.pc = "stop"] /\ UNCHANGED <<open, posted>>
            /\ tunFd' = 0 /\ dropped' = dropped \cup ({tunFd} \ {0, disc.fd})
         \/ /\ disc.pc = "stop" /\ disc' = [disc EXCEPT !.pc = "close"] /\ engine' = 0
            /\ UNCHANGED <<open, posted, tunFd, dropped>>
         \/ /\ disc.pc = "close" /\ disc' = NoDisc /\ posted' = TRUE /\ open' = open \ {disc.fd}
            /\ UNCHANGED <<tunFd, dropped>>
    BY DEF DiscStep, TakeRead, TakeClear, DiscStop, DiscClose, Close
<1>2. /\ \/ disc.pc = "read" /\ disc'.pc = "clear" /\ disc'.fd = tunFd /\ UNCHANGED <<open, posted, tunFd, dropped>>
         \/ /\ disc.pc = "clear" /\ disc'.pc = "stop" /\ disc'.fd = disc.fd /\ UNCHANGED <<open, posted>>
            /\ tunFd' = 0 /\ dropped' = dropped \cup ({tunFd} \ {0, disc.fd})
         \/ /\ disc.pc = "stop" /\ disc'.pc = "close" /\ disc'.fd = disc.fd /\ engine' = 0
            /\ UNCHANGED <<open, posted, tunFd, dropped>>
         \/ /\ disc.pc = "close" /\ disc'.pc = "none" /\ disc'.fd = 0 /\ posted' = TRUE /\ open' = open \ {disc.fd}
            /\ UNCHANGED <<tunFd, dropped>>
      /\ stopping /\ ~posted
    <2>1. disc \in DiscRec /\ disc.pc # "none" BY <1>1 DEF Types
    <2>2. stopping /\ ~posted BY <2>1 DEF OneTeardown
    <2>3. QED BY <1>1, <2>1, <2>2, NothingRecs DEF DiscRec
<1>3. NoRebind' BY <1>1, RoutesKept DEF Types, NoRebind, EnvRec
<1>4. Sole' BY <1>1, NoneMoves
<1>5. OneTeardown' BY <1>1, <1>2 DEF OneTeardown
<1>6. Stages'
    <2>1. \A b \in Attempts : /\ Running(b)' = Running(b) /\ Pending(b)' = Pending(b)
                              /\ Unfinished(b)' = Unfinished(b) /\ Settled(b)' = Settled(b)
        BY <1>1 DEF Running, Pending, Unfinished, Settled
    <2>2. Idle => Idle' BY <1>1, <1>2 DEF Idle
    <2>3. ASSUME NEW b \in Attempts PROVE Stage(b)'
        <3>1. Stage(b) BY DEF Stages
        <3>2. Settled(b) => engine' = 0 \/ (stopping' /\ disc'.pc \in {"read", "clear", "stop"})
            BY <1>1, <1>2, <3>1 DEF Stage
        <3>3. ASSUME Running(b), open' # {}
              PROVE  Pending(b) \/ tunFd' = conn[b].fd \/ disc'.fd = conn[b].fd \/ conn[b].fd \in dropped'
            <4>1. open # {} /\ open \subseteq {conn[b].fd} /\ conn[b].fd # 0
                BY <1>1, <3>1, <3>3 DEF Stage, Bounded
            <4>2. Pending(b) \/ tunFd = conn[b].fd \/ disc.fd = conn[b].fd \/ conn[b].fd \in dropped
                BY <3>1, <3>3, <4>1 DEF Stage
            <4>3. CASE disc.pc = "read"
                <5>1. disc.fd = 0 BY <4>3 DEF OneTeardown
                <5>2. QED BY <1>2, <4>1, <4>2, <4>3, <5>1
            <4>4. CASE disc.pc \in {"clear", "stop"} BY <1>2, <4>1, <4>2, <4>4
            <4>5. CASE disc.pc = "close"
                <5>1. disc.fd # conn[b].fd BY <1>2, <3>3, <4>1, <4>5
                <5>2. QED BY <1>2, <4>2, <4>5, <5>1
            <4>6. QED BY <1>2, <4>3, <4>4, <4>5
        <3>4. Pending(b) => disc'.fd = 0 /\ tunFd' = 0 BY <1>2, <3>1 DEF Stage
        <3>5. Running(b) => open' \subseteq {conn[b].fd} /\ tunFd' \in {0, conn[b].fd} BY <1>1, <1>2, <3>1 DEF Stage
        <3>6. Settled(b) /\ service' = "dead" => open' = {} \/ tunFd' = 0 \/ disc'.pc \in {"read", "clear"}
            BY <1>1, <1>2, <3>1 DEF Stage
        <3>7. QED BY <1>1, <2>1, <2>2, <3>1, <3>2, <3>3, <3>4, <3>5, <3>6 DEF Stage
    <2>4. QED BY <2>1, <2>2, <2>3 DEF Stages
<1>7. QED BY <1>3, <1>4, <1>5, <1>6

\* No step changes which scenario it is.
LEMMA SameName == IInv /\ [Next]_vars => env'.name = env.name
<1> SUFFICES ASSUME IInv, [Next]_vars PROVE env'.name = env.name OBVIOUS
<1> USE DEF fields, tunnels, network, rebind, ConnRest, ConnOnly, WorkRest
<1>1. CASE ConnectIntent \/ DisconnectIntent \/ ConfigChanged \/ NetworkFlips
    BY <1>1, EnvSpent DEF ConnectIntent, DisconnectIntent, ConfigChanged, NetworkFlips, IInv, Types
<1>2. CASE ConfigDefer \/ NetworkCallback \/ FinishShutdown \/ DestroyStep \/ DiscStep
    BY <1>2 DEF ConfigDefer, NetworkCallback, FinishShutdown, DestroyStep, OnDestroy, OnDestroyStop, OnDestroyClose,
       OnDestroyClear, DiscStep, TakeRead, TakeClear, DiscStop, DiscClose
<1>3. ASSUME NEW a \in Attempts, ConnStep(a) PROVE env'.name = env.name
    BY <1>3 DEF ConnStep, ConnCheck, ConnEstablish, ConnEstablishFails, ConnWanted, ConnAdopt, ConnAssign, ConnFd,
       ConnStart, ConnError, ConnCancel, ConnTeardown, ConnAfter, ConnStop, ConnDrop, ConnRegister, ConnDeferred,
       ProcessDies
<1>4. CASE WorkStep
    BY <1>4 DEF WorkStep, WorkLoop, WorkSettled, WorkGate, WorkEstablish, WorkActive, WorkAdopt, WorkFd, WorkTell,
       WorkRestart, WorkCloseOld
<1>5. CASE UNCHANGED vars BY <1>5 DEF vars
<1>6. QED BY <1>1, <1>2, <1>3, <1>4, <1>5 DEF Next

\* The stages of a cancelled session survive every step.
LEMMA NextCancel == IInv /\ CancelInv /\ [Next]_vars => CancelInv'
<1> SUFFICES ASSUME IInv, CancelInv, [Next]_vars, env'.name = "cancelled" PROVE Cancelling'
    BY DEF CancelInv
<1>1. Cancelling BY SameName DEF CancelInv
<1>2. CASE UNCHANGED vars BY <1>1, <1>2, CancelStutter DEF vars, fields, tunnels, network, rebind
<1>3. ~WorkStep
    BY <1>1, NothingRecs DEF Cancelling, NoRebind, WorkStep, WorkLoop, WorkSettled, WorkGate, WorkEstablish, WorkActive,
       WorkAdopt, WorkFd, WorkTell, WorkRestart, WorkCloseOld
<1>4. CASE Next BY <1>1, <1>3, <1>4, CancelMain, CancelConn, CancelDisc DEF Next
<1>5. QED BY <1>2, <1>4

\* "A tunnel and node left up in a stopped service" (the comment on stillWanted): however
\* disconnects, failures and onDestroy interleave with the one connect, when the service is
\* dead and its threads have ended, no engine runs and no tunnel is open but one that was
\* put in the field between the reading and the nulling of it (shutdown, onDestroy).
THEOREM StoppedServiceIsDown == Spec => []StoppedIsDown
<1>1. IInv /\ CancelInv => StoppedIsDown
    <2> SUFFICES ASSUME IInv, Cancelling, Quiescent, service = "dead" PROVE engine = 0 /\ open \subseteq dropped
        BY DEF CancelInv, StoppedIsDown
    <2> USE DEF Cancelling
    <2>1. disc.pc = "none" /\ disc.fd = 0 BY NothingRecs DEF Quiescent
    <2>2. CASE \A a \in Attempts : ~Running(a) BY <2>2 DEF Stages, Idle
    <2>3. ASSUME NEW a \in Attempts, Running(a) PROVE engine = 0 /\ open \subseteq dropped
        <3>1. Stage(a) /\ Settled(a) /\ ~Pending(a) /\ conn[a].pc = "done"
            BY <2>3 DEF Stages, Quiescent, Running, Settled, Pending
        <3>2. engine = 0 BY <2>1, <3>1 DEF Stage
        <3>3. 0 \notin open BY DEF IInv, Bounded
        <3>4. open \subseteq {conn[a].fd} /\ (open = {} \/ tunFd = 0)
              /\ (open # {} => tunFd = conn[a].fd \/ disc.fd = conn[a].fd \/ conn[a].fd \in dropped)
            BY <2>1, <2>3, <3>1 DEF Stage
        <3>5. open \subseteq dropped BY <2>1, <3>3, <3>4
        <3>6. QED BY <3>2, <3>5
    <2>4. QED BY <2>2, <2>3
<1>2. Spec => []CancelInv
    <2>1. IInv /\ IInv' /\ CancelInv /\ [Next]_vars => CancelInv' BY NextCancel
    <2>2. QED BY <2>1, InitCancel, DescriptorsApart, PTL DEF Spec
<1>3. QED BY <1>1, <1>2, DescriptorsApart, PTL

-----------------------------------------------------------------------------
(* The steady session.                                                     *)

\* Nobody disconnects and nothing fails: there is at most one session, the first attempt's,
\* and before it nothing runs.
Early == {"check", "establish", "wanted", "adopt", "assign", "fd", "start"}
Late == {"after", "register", "deferred", "done"}
Quiet ==
    /\ env.disconnects = 0 /\ env.failures = {} /\ 2 * env.connects <= MaxAttempts
    /\ ~connectQueued /\ ~stopping /\ disc.pc = "none" /\ ~posted
    /\ \A a \in Attempts : a # 1 => conn[a].pc = "none"
    /\ rebinding <=> worker.pc # "none"
    /\ rebindRequested => rebinding
    /\ tunnelActive => /\ service = "up" /\ main \in {"free", "defer"} /\ connectAttempt = 1 /\ 1 \in Attempts
                       /\ conn[1].pc \in Early \cup Late
    /\ ~tunnelActive => /\ connectAttempt = 0 /\ made = 0 /\ open = {} /\ tunFd = 0 /\ engine = 0
                        /\ worker.pc = "none" /\ ~monitored
                        /\ \A a \in Attempts : conn[a].pc = "none"

\* Until the engine is up, the connect thread alone has the first tunnel.
Connecting ==
    tunnelActive =>
        /\ conn[1].pc \in {"check", "establish"} => open = {} /\ tunFd = 0
        /\ conn[1].pc \in {"wanted", "adopt", "assign"} =>
            conn[1].fd = made /\ made # 0 /\ open = {made} /\ tunFd = 0
        /\ conn[1].pc \in {"fd", "start"} => conn[1].fd = made /\ made # 0 /\ open = {made} /\ tunFd = made
        /\ conn[1].pc \in Early => engine = 0 /\ worker.pc = "none" /\ ~monitored
        /\ conn[1].pc \in Late => (engine # 0 \/ worker.pc = "restart") /\ tunFd # 0 /\ made # 0

\* From then on the worker takes the engine from one tunnel to the next.
OnOne == engine = made /\ tunFd = made /\ open = {made}
OnTwo(f) == open = {f, made} /\ f # made /\ worker.fd = made
Replacing == tunFd = made /\ ((open = {made} /\ worker.old = 0) \/ OnTwo(worker.old))
Rebinding ==
    tunnelActive /\ conn[1].pc \in Late =>
        /\ worker.pc \in {"none", "loop", "settle", "gate", "establish"} => OnOne
        /\ worker.pc \in {"active", "adopt"} => OnTwo(tunFd) /\ engine = tunFd
        /\ worker.pc = "fd" => OnTwo(worker.old) /\ engine = worker.old /\ tunFd = made
        /\ worker.pc \in {"tell", "restart"} => Replacing /\ worker.fd = made
        /\ worker.pc = "restart" => engine = 0
        /\ worker.pc = "closeOld" => Replacing /\ engine = made

\* A selection that the live tunnel does not have yet is owed to somebody, or came too late.
Deferral ==
    tunnelActive /\ appsStale =>
        \/ conn[1].pc \in {"check", "establish"}
        \/ main = "defer"
        \/ rebindAfterConnect /\ conn[1].pc # "done"
        \/ rebindRequested
        \/ worker.pc \in {"gate", "establish"}
        \/ late

Steady == Quiet /\ Connecting /\ Rebinding /\ Deferral
SteadyInv == env.name = "steady" => Steady

\* At the start of a steady session nothing runs, so each part holds of it.
LEMMA InitSteady == Init => SteadyInv
<1> SUFFICES ASSUME Init, env.name = "steady" PROVE Steady BY DEF SteadyInv
<1>1. \A a \in Attempts : conn[a].pc = "none" BY NothingRecs DEF Init
<1>2. env.disconnects = 0 /\ env.failures = {} BY ScenarioNames DEF Init
<1>3. 2 * env.connects <= MaxAttempts
    <2>1. env \in Scenarios /\ env.connects \in Nat /\ env.disconnects \in Nat BY DEF Init
    <2>2. 2 * env.connects + env.disconnects <= MaxAttempts BY <2>1
    <2>3. QED BY <2>1, <2>2
<1>4. Quiet BY <1>1, <1>2, <1>3, NothingRecs DEF Init, Quiet
<1>5. Connecting /\ Rebinding /\ Deferral BY DEF Init, Connecting, Rebinding, Deferral
<1>6. QED BY <1>4, <1>5 DEF Steady

\* The requests and the worker's start are all that a step of another thread changes.
LEMMA SteadyRests ==
    ASSUME Steady,
           env'.disconnects = env.disconnects, env'.failures = env.failures, env'.connects = env.connects,
           UNCHANGED <<tunnelActive, connectQueued, stopping, posted, connectAttempt, conn, disc, made, open, engine, tunFd>>,
           \/ UNCHANGED <<rebinding, rebindRequested, worker>>
           \/ tunnelActive /\ conn[1].pc \in Late /\ Asked,
           tunnelActive => service' = "up" /\ main' \in {"free", "defer"}, monitored' => monitored
    PROVE  Quiet' /\ Connecting' /\ Rebinding'
<1>1. CASE UNCHANGED <<rebinding, rebindRequested, worker>>
    <2>1. Quiet' BY <1>1 DEF Steady, Quiet
    <2>2. Connecting' BY <1>1 DEF Steady, Connecting
    <2>3. Rebinding' BY <1>1 DEF Steady, Rebinding, OnOne, OnTwo, Replacing
    <2>4. QED BY <2>1, <2>2, <2>3
<1>2. CASE tunnelActive /\ conn[1].pc \in Late /\ Asked
    <2>1. /\ rebinding'
          /\ (worker' = worker /\ worker.pc # "none") \/ (worker'.pc = "loop" /\ worker.pc = "none")
        <3>1. CASE rebinding BY <1>2, <3>1 DEF Steady, Quiet, Asked
        <3>2. CASE ~rebinding BY <1>2, <3>2 DEF Steady, Quiet, Asked
        <3>3. QED BY <3>1, <3>2
    <2>2. worker'.pc # "none" BY <2>1 DEF Steady, Quiet
    <2>3. conn[1].pc \notin Early BY <1>2 DEF Early, Late
    <2>4. Quiet' BY <1>2, <2>1, <2>2 DEF Steady, Quiet
    <2>5. Connecting' BY <1>2, <2>1, <2>3 DEF Steady, Connecting, Early, Late
    <2>6. Rebinding'
        <3>1. CASE worker' = worker BY <3>1 DEF Steady, Rebinding, OnOne, OnTwo, Replacing
        <3>2. CASE worker'.pc = "loop" /\ worker.pc = "none"
            <4>1. OnOne BY <1>2, <3>2 DEF Steady, Rebinding
            <4>2. OnOne' BY <4>1 DEF OnOne
            <4>3. QED BY <3>2, <4>2 DEF Rebinding
        <3>3. QED BY <2>1, <3>1, <3>2
    <2>7. QED BY <2>4, <2>5, <2>6
<1>3. QED BY <1>1, <1>2

\* The main thread.
LEMMA SteadyMain ==
    ASSUME IInv, Steady,
           \/ ConnectIntent \/ DisconnectIntent \/ ConfigChanged \/ ConfigDefer \/ NetworkFlips
           \/ NetworkCallback \/ FinishShutdown \/ DestroyStep
    PROVE  Steady'
<1> USE DEF IInv, fields, tunnels, network, rebind
<1>1. CASE ConnectIntent
    <2>1. /\ env' \in EnvRec /\ env'.connects = env.connects - 1 /\ env'.disconnects = env.disconnects
          /\ env'.failures = env.failures /\ env.connects \in Nat /\ env.connects > 0
        BY <1>1, EnvSpent DEF ConnectIntent, Types, EnvRec
    <2>2. ~stopping /\ ~tunnelActive /\ service = "up" /\ main = "free" /\ connectAttempt = 0
        BY <1>1 DEF ConnectIntent, Steady, Quiet
    <2>3. /\ BeginConnect /\ connectQueued' = connectQueued
          /\ UNCHANGED <<service, main, stopping, tunFd, hasV6, appsStale, open, made, engine, monitored, disc, posted,
                         rebindRequested, rebinding, worker>>
        BY <1>1, <2>2 DEF ConnectIntent
    <2>4. Begun /\ tunnelActive' = TRUE /\ connectAttempt' = 1
        <3>1. Begun BY <2>3, BegunBy DEF Types
        <3>2. tunnelActive' = TRUE /\ connectAttempt' = connectAttempt + 1 BY <2>3 DEF BeginConnect
        <3>3. QED BY <2>2, <3>1, <3>2
    <2>5. 1 \in Attempts /\ 2 * env'.connects <= MaxAttempts BY <2>1 DEF Steady, Quiet, Attempts
    <2>6. conn'[1].pc = "check" /\ \A a \in Attempts : a # 1 => conn'[a].pc = "none"
        BY <2>2, <2>4, <2>5 DEF Begun, Steady, Quiet
    <2>7. conn'[1].pc \in Early /\ conn'[1].pc \notin Late BY <2>6 DEF Early, Late
    <2>8. Quiet' BY <2>1, <2>2, <2>3, <2>4, <2>5, <2>6, <2>7 DEF Steady, Quiet
    <2>9. Connecting' BY <2>2, <2>3, <2>6, <2>7 DEF Steady, Quiet, Connecting
    <2>10. Rebinding' BY <2>7 DEF Rebinding
    <2>11. Deferral' BY <2>6 DEF Deferral
    <2>12. QED BY <2>8, <2>9, <2>10, <2>11 DEF Steady
<1>2. CASE DisconnectIntent \/ FinishShutdown BY <1>2 DEF DisconnectIntent, FinishShutdown, Steady, Quiet
<1>3. CASE ConfigChanged
    <2>1. /\ env'.disconnects = env.disconnects /\ env'.failures = env.failures /\ env'.connects = env.connects
        BY <1>3, EnvSpent DEF ConfigChanged, Types
    <2>2. /\ UNCHANGED <<tunnelActive, connectQueued, stopping, posted, connectAttempt, conn, disc, made, open, engine,
                         tunFd, monitored>>
          /\ service = "up" /\ main = "free" /\ main' \in {"free", "defer"}
        BY <1>3 DEF ConfigChanged
    <2>3. CASE ~tunnelActive
        <3>1. UNCHANGED <<rebinding, rebindRequested, worker>> BY <1>3, <2>3 DEF ConfigChanged
        <3>2. Quiet' /\ Connecting' /\ Rebinding' BY <2>1, <2>2, <2>3, <3>1, SteadyRests
        <3>3. Deferral' BY <2>2, <2>3 DEF Deferral
        <3>4. QED BY <3>2, <3>3 DEF Steady
    <2>4. CASE tunnelActive /\ (tunFd = 0 \/ engine = 0)
        <3>1. UNCHANGED <<rebinding, rebindRequested, worker, service>> /\ main' = "defer"
            BY <1>3, <2>4 DEF ConfigChanged
        <3>2. Quiet' /\ Connecting' /\ Rebinding' BY <2>1, <2>2, <3>1, SteadyRests
        <3>3. Deferral' BY <3>1 DEF Deferral
        <3>4. QED BY <3>2, <3>3 DEF Steady
    <2>5. CASE tunnelActive /\ tunFd # 0 /\ engine # 0
        <3>1. RebindNode /\ UNCHANGED service BY <1>3, <2>5 DEF ConfigChanged
        <3>2. Asked BY <3>1, AskedBy DEF Types
        <3>3. conn[1].pc \in Late BY <2>5 DEF Steady, Quiet, Connecting
        <3>4. Quiet' /\ Connecting' /\ Rebinding' BY <2>1, <2>2, <2>5, <3>1, <3>2, <3>3, SteadyRests
        <3>5. Deferral' BY <3>2 DEF Deferral, Asked
        <3>6. QED BY <3>4, <3>5 DEF Steady
    <2>6. QED BY <2>3, <2>4, <2>5
<1>4. CASE NetworkFlips
    <2>1. /\ env'.disconnects = env.disconnects /\ env'.failures = env.failures /\ env'.connects = env.connects
        BY <1>4, EnvSpent DEF NetworkFlips, Types
    <2>2. UNCHANGED <<service, tunnelActive, connectQueued, stopping, posted, connectAttempt, conn, disc, made, open, engine,
                      tunFd, monitored, rebinding, rebindRequested, worker, appsStale, rebindAfterConnect, late, main>>
        BY <1>4 DEF NetworkFlips
    <2>3. tunnelActive => service' = "up" /\ main' \in {"free", "defer"} BY <2>2 DEF Steady, Quiet
    <2>4. Quiet' /\ Connecting' /\ Rebinding' BY <2>1, <2>2, <2>3, SteadyRests
    <2>5. Deferral' BY <2>2 DEF Steady, Deferral
    <2>6. QED BY <2>4, <2>5 DEF Steady
<1>5. CASE NetworkCallback
    <2>1. /\ UNCHANGED <<service, tunnelActive, connectQueued, stopping, posted, connectAttempt, conn, disc, made, open, engine,
                         tunFd, monitored, appsStale, rebindAfterConnect, late, main, env>>
          /\ RebindNode \/ UNCHANGED <<rebinding, rebindRequested, worker>>
          /\ monitored
        BY <1>5 DEF NetworkCallback
    <2>2. Asked \/ UNCHANGED <<rebinding, rebindRequested, worker>> BY <2>1, AskedBy DEF Types
    <2>3. tunnelActive /\ service = "up" /\ main \in {"free", "defer"} /\ conn[1].pc \in Late
        BY <2>1 DEF Steady, Quiet, Connecting
    <2>4. Quiet' /\ Connecting' /\ Rebinding' BY <2>1, <2>2, <2>3, SteadyRests
    <2>5. Deferral' BY <2>1, <2>2 DEF Steady, Deferral, Asked
    <2>6. QED BY <2>4, <2>5 DEF Steady
<1>6. CASE DestroyStep
    <2>1. ~tunnelActive BY <1>6 DEF DestroyStep, OnDestroy, OnDestroyStop, OnDestroyClose, OnDestroyClear, Steady, Quiet
    <2>2. /\ ~tunnelActive' /\ ~monitored' /\ engine' = 0 /\ tunFd' = 0 /\ open' = {}
          /\ UNCHANGED <<connectQueued, connectAttempt, stopping, made, conn, disc, posted, rebindRequested, rebinding,
                         worker, env>>
        <3>1. tunFd = 0 /\ engine = 0 /\ open = {} /\ ~monitored BY <2>1 DEF Steady, Quiet
        <3>2. CASE OnDestroy BY <3>1, <3>2 DEF OnDestroy
        <3>3. CASE OnDestroyStop BY <2>1, <3>1, <3>3 DEF OnDestroyStop
        <3>4. CASE OnDestroyClose BY <2>1, <3>1, <3>4 DEF OnDestroyClose, Close
        <3>5. CASE OnDestroyClear BY <2>1, <3>1, <3>5 DEF OnDestroyClear
        <3>6. QED BY <1>6, <3>2, <3>3, <3>4, <3>5 DEF DestroyStep
    <2>3. Quiet' BY <2>1, <2>2 DEF Steady, Quiet
    <2>4. Connecting' /\ Rebinding' /\ Deferral' BY <2>2 DEF Connecting, Rebinding, Deferral
    <2>5. QED BY <2>3, <2>4 DEF Steady
<1>7. CASE ConfigDefer
    <2>1. /\ UNCHANGED <<service, tunnelActive, connectQueued, stopping, posted, connectAttempt, conn, disc, made, open,
                         engine, tunFd, monitored, appsStale, rebinding, rebindRequested, worker, env>>
          /\ main' = "free" /\ rebindAfterConnect' = TRUE
          /\ late' = (late \/ \A a \in Attempts : conn[a].pc \notin Looking)
        BY <1>7 DEF ConfigDefer
    <2>2. tunnelActive => service' = "up" /\ main' \in {"free", "defer"} BY <2>1 DEF Steady, Quiet
    <2>3. Quiet' /\ Connecting' /\ Rebinding' BY <2>1, <2>2, SteadyRests
    <2>4. ASSUME conn[1].pc = "done" PROVE late'
        <3>1. \A a \in Attempts : conn[a].pc \in {"none", "done"} BY <2>4 DEF Steady, Quiet
        <3>2. \A a \in Attempts : conn[a].pc \notin Looking BY <3>1 DEF Looking
        <3>3. QED BY <2>1, <3>2
    <2>5. Deferral' BY <2>1, <2>4 DEF Deferral
    <2>6. QED BY <2>3, <2>5 DEF Steady
<1>8. QED BY <1>1, <1>2, <1>3, <1>4, <1>5, <1>6, <1>7

\* A step of the one connect thread.
LEMMA SteadyGoes ==
    ASSUME IInv, Steady, tunnelActive, NEW l \in Early \cup Late, ConnGoes(1, l),
           UNCHANGED <<service, main, tunnelActive, connectQueued, connectAttempt, stopping, disc, posted, env>>,
           Asked \/ UNCHANGED <<rebinding, rebindRequested, worker>>
    PROVE  Moved(1, l) /\ Quiet'
<1>1. 1 \in Attempts /\ l \in ConnPc BY DEF Steady, Quiet, Early, Late, ConnPc
<1>2. Moved(1, l) BY <1>1, MovedBy DEF IInv, Types
<1>3. conn'[1].pc \in Early \cup Late /\ \A a \in Attempts : a # 1 => conn'[a].pc = "none"
    BY <1>2 DEF Moved, Steady, Quiet
<1>4. (rebinding <=> worker.pc # "none")' /\ (rebindRequested => rebinding)'
    <2>1. CASE UNCHANGED <<rebinding, rebindRequested, worker>> BY <2>1 DEF Steady, Quiet
    <2>2. CASE Asked
        <3>1. worker'.pc # "none"
            <4>1. CASE rebinding BY <2>2, <4>1 DEF Steady, Quiet, Asked
            <4>2. CASE ~rebinding BY <2>2, <4>2 DEF Asked
            <4>3. QED BY <4>1, <4>2
        <3>2. QED BY <2>2, <3>1 DEF Asked
    <2>3. QED BY <2>1, <2>2
<1>5. Quiet' BY <1>1, <1>3, <1>4 DEF Steady, Quiet
<1>6. QED BY <1>2, <1>5

\* The connect thread while it alone has the tunnel.
LEMMA SteadyEarly ==
    ASSUME IInv, Steady, tunnelActive, 1 \in Attempts,
           ConnCheck(1) \/ ConnWanted(1) \/ ConnAdopt(1) \/ ConnAssign(1) \/ ConnFd(1) \/ ConnStart(1)
    PROVE  Steady'
<1> USE DEF IInv, fields, tunnels, network, rebind, ConnRest, ConnOnly
<1>1. conn[1].pc \in Early /\ conn[1].pc \notin Late
    BY DEF ConnCheck, ConnWanted, ConnAdopt, ConnAssign, ConnFd, ConnStart, Early, Late
<1>2. engine = 0 /\ worker.pc = "none" /\ ~monitored /\ 0 \notin open BY <1>1 DEF Steady, Connecting, Bounded
<1>3. stillWanted(1) /\ env.failures = {} BY DEF stillWanted, Steady, Quiet
<1>4. conn[1].pc \in {"fd", "start"} => conn[1].fd \in open BY DEF Steady, Connecting
<1>5. /\ UNCHANGED <<service, main, tunnelActive, connectQueued, connectAttempt, stopping, rebindAfterConnect, late, disc,
                     posted, env, monitored, rebinding, rebindRequested, worker, appsStale, made>>
      /\ \/ conn[1].pc = "check" /\ ConnGoes(1, "establish") /\ UNCHANGED <<engine, open, tunFd>>
         \/ conn[1].pc = "wanted" /\ ConnGoes(1, "adopt") /\ UNCHANGED <<engine, open, tunFd>>
         \/ conn[1].pc = "adopt" /\ ConnGoes(1, "assign") /\ UNCHANGED <<engine, tunFd>> /\ open' = open \ {tunFd}
         \/ conn[1].pc = "assign" /\ ConnGoes(1, "fd") /\ UNCHANGED <<engine, open>> /\ tunFd' = conn[1].fd
         \/ conn[1].pc = "fd" /\ ConnGoes(1, "start") /\ UNCHANGED <<engine, open, tunFd>>
         \/ conn[1].pc = "start" /\ ConnGoes(1, "after") /\ UNCHANGED <<open, tunFd>> /\ engine' = conn[1].fd
    <2>1. CASE ConnCheck(1) BY <1>2, <2>1 DEF ConnCheck
    <2>2. CASE ConnWanted(1) BY <1>3, <2>2 DEF ConnWanted
    <2>3. CASE ConnAdopt(1) BY <2>3 DEF ConnAdopt, Close
    <2>4. CASE ConnAssign(1) BY <2>4 DEF ConnAssign
    <2>5. CASE ConnFd(1) BY <1>4, <2>5 DEF ConnFd
    <2>6. CASE ConnStart(1) BY <1>2, <1>3, <1>4, <2>6 DEF ConnStart
    <2>7. QED BY <2>1, <2>2, <2>3, <2>4, <2>5, <2>6
<1>6. PICK l \in {"establish", "adopt", "assign", "fd", "start", "after"} : ConnGoes(1, l)
    BY <1>5
<1>7. l \in Early \cup Late BY DEF Early, Late
<1>8. Moved(1, l) /\ Quiet' BY <1>5, <1>6, <1>7, SteadyGoes
<1>9. conn'[1].pc = l /\ conn'[1].fd = conn[1].fd BY <1>8 DEF Moved
<1>10. /\ \/ conn[1].pc = "check" /\ l = "establish" /\ UNCHANGED <<engine, open, tunFd>>
          \/ conn[1].pc = "wanted" /\ l = "adopt" /\ UNCHANGED <<engine, open, tunFd>>
          \/ conn[1].pc = "adopt" /\ l = "assign" /\ UNCHANGED <<engine, tunFd>> /\ open' = open \ {tunFd}
          \/ conn[1].pc = "assign" /\ l = "fd" /\ UNCHANGED <<engine, open>> /\ tunFd' = conn[1].fd
          \/ conn[1].pc = "fd" /\ l = "start" /\ UNCHANGED <<engine, open, tunFd>>
          \/ conn[1].pc = "start" /\ l = "after" /\ UNCHANGED <<open, tunFd>> /\ engine' = conn[1].fd
    <2>1. ASSUME NEW m \in {"establish", "adopt", "assign", "fd", "start", "after"}, ConnGoes(1, m) PROVE m = l
        <3>1. m \in ConnPc BY DEF ConnPc
        <3>2. Moved(1, m) BY <2>1, <3>1, MovedBy DEF Types
        <3>3. QED BY <1>9, <3>2 DEF Moved
    <2>2. QED BY <1>5, <2>1
<1>11. Connecting'
    <2>1. CASE l = "after"
        <3>1. conn'[1].pc \in Late /\ conn'[1].pc \notin Early /\ conn'[1].pc = "after" BY <1>9, <2>1 DEF Early, Late
        <3>2. engine' # 0 /\ tunFd' # 0 /\ made' # 0 BY <1>5, <1>10, <2>1 DEF Steady, Connecting
        <3>3. QED BY <3>1, <3>2 DEF Connecting
    <2>2. CASE l # "after"
        <3>1. conn'[1].pc \in Early /\ conn'[1].pc \notin Late BY <1>9, <2>2 DEF Early, Late
        <3>2. engine' = 0 /\ worker'.pc = "none" /\ ~monitored' BY <1>2, <1>5, <1>10, <2>2
        <3>3. l = "establish" => open' = {} /\ tunFd' = 0 BY <1>10 DEF Steady, Connecting
        <3>4. l \in {"adopt", "assign"} => conn'[1].fd = made' /\ made' # 0 /\ open' = {made'} /\ tunFd' = 0
            BY <1>2, <1>5, <1>9, <1>10 DEF Steady, Connecting
        <3>5. l \in {"fd", "start"} => conn'[1].fd = made' /\ made' # 0 /\ open' = {made'} /\ tunFd' = made'
            BY <1>5, <1>9, <1>10 DEF Steady, Connecting
        <3>6. QED BY <1>9, <2>2, <3>1, <3>2, <3>3, <3>4, <3>5 DEF Connecting
    <2>3. QED BY <2>1, <2>2
<1>12. Rebinding'
    <2>1. CASE l = "after"
        <3>1. OnOne' BY <1>5, <1>10, <2>1 DEF Steady, Connecting, OnOne
        <3>2. worker'.pc = "none" BY <1>2, <1>5
        <3>3. QED BY <3>1, <3>2 DEF Rebinding
    <2>2. CASE l # "after" BY <1>9, <2>2 DEF Rebinding, Late
    <2>3. QED BY <2>1, <2>2
<1>13. Deferral'
    <2>1. conn[1].pc = "check" => conn'[1].pc = "establish" BY <1>9, <1>10
    <2>2. conn[1].pc # "establish" /\ conn'[1].pc # "done" BY <1>9, <1>10
    <2>3. QED BY <1>5, <2>1, <2>2 DEF Steady, Deferral
<1>14. QED BY <1>8, <1>11, <1>12, <1>13 DEF Steady

\* The connect thread once the engine is up.
LEMMA SteadyLate ==
    ASSUME IInv, Steady, tunnelActive, 1 \in Attempts, ConnAfter(1) \/ ConnRegister(1) \/ ConnDeferred(1)
    PROVE  Steady'
<1> USE DEF IInv, fields, tunnels, network, rebind, ConnRest, ConnOnly
<1>1. conn[1].pc \in Late /\ stillWanted(1)
    BY DEF ConnAfter, ConnRegister, ConnDeferred, Late, stillWanted, Steady, Quiet
<1>2. PICK l \in {"register", "deferred", "done"} :
        /\ ConnGoes(1, l)
        /\ l = "done" => conn[1].pc = "deferred"
        /\ l # "done" => UNCHANGED rebindAfterConnect
    BY <1>1 DEF ConnAfter, ConnRegister, ConnDeferred
<1>3. UNCHANGED <<service, main, tunnelActive, connectQueued, connectAttempt, stopping, late, disc, posted, env, made,
                  open, tunFd, appsStale, engine>>
    BY DEF ConnAfter, ConnRegister, ConnDeferred
<1>4. /\ RebindNode \/ UNCHANGED <<rebinding, rebindRequested, worker>>
      /\ l = "done" /\ rebindAfterConnect => RebindNode
    <2>1. CASE ConnAfter(1) \/ ConnRegister(1)
        <3>1. UNCHANGED <<rebinding, rebindRequested, worker>> BY <2>1 DEF ConnAfter, ConnRegister
        <3>2. conn[1].pc # "deferred" BY <2>1 DEF ConnAfter, ConnRegister
        <3>3. QED BY <1>2, <3>1, <3>2
    <2>2. CASE ConnDeferred(1) BY <2>2 DEF ConnDeferred
    <2>3. QED BY <2>1, <2>2
<1>5. Asked \/ UNCHANGED <<rebinding, rebindRequested, worker>> BY <1>4, AskedBy DEF Types
<1>6. l \in Late /\ l \notin Early /\ l \in Early \cup Late BY DEF Early, Late
<1>7. Moved(1, l) /\ Quiet' BY <1>2, <1>3, <1>5, <1>6, SteadyGoes
<1>8. conn'[1].pc = l BY <1>7 DEF Moved
<1>9. Connecting'
    <2>1. (engine # 0 \/ worker.pc = "restart") /\ tunFd # 0 /\ made # 0 BY <1>1 DEF Steady, Connecting
    <2>2. conn'[1].pc \notin {"check", "establish", "wanted", "adopt", "assign", "fd", "start"} BY <1>8
    <2>3. worker.pc = "restart" => worker' = worker BY <1>5 DEF Asked, Steady, Quiet
    <2>4. QED BY <1>3, <1>6, <1>8, <2>1, <2>2, <2>3 DEF Connecting
<1>10. Rebinding'
    <2>1. CASE worker' = worker BY <1>1, <1>3, <2>1 DEF Steady, Rebinding, OnOne, OnTwo, Replacing
    <2>2. CASE worker' # worker
        <3>1. ~rebinding /\ worker'.pc = "loop" BY <1>5, <2>2 DEF Asked
        <3>2. OnOne BY <1>1, <3>1 DEF Steady, Quiet, Rebinding
        <3>3. OnOne' BY <1>3, <3>2 DEF OnOne
        <3>4. QED BY <3>1, <3>3 DEF Rebinding
    <2>3. QED BY <2>1, <2>2
<1>11. Deferral'
    <2>1. CASE Asked BY <2>1 DEF Asked, Deferral
    <2>2. CASE ~Asked
        <3>1. UNCHANGED <<rebinding, rebindRequested, worker>> /\ ~(l = "done" /\ rebindAfterConnect)
            BY <1>4, <1>5, <2>2, AskedBy DEF Types
        <3>2. conn[1].pc \notin {"check", "establish"} BY <1>1 DEF Late
        <3>3. QED BY <1>2, <1>3, <1>8, <3>1, <3>2 DEF Steady, Deferral
    <2>3. QED BY <2>1, <2>2
<1>12. QED BY <1>7, <1>9, <1>10, <1>11 DEF Steady

\* The connect threads.
LEMMA SteadyConn ==
    ASSUME IInv, Steady, NEW a \in Attempts, ConnStep(a)
    PROVE  Steady'
<1> USE DEF IInv, fields, tunnels, network, rebind, ConnRest, ConnOnly
<1>1. conn[a].pc # "none"
    BY DEF ConnStep, ConnCheck, ConnEstablish, ConnEstablishFails, ConnWanted, ConnAdopt, ConnAssign, ConnFd, ConnStart,
       ConnError, ConnCancel, ConnTeardown, ConnAfter, ConnStop, ConnDrop, ConnRegister, ConnDeferred
<1>2. a = 1 /\ tunnelActive /\ 1 \in Attempts BY <1>1 DEF Steady, Quiet
<1>3. conn[1].pc \in Early \cup Late /\ env.failures = {} BY <1>2 DEF Steady, Quiet
<1>4. ~(ConnEstablishFails(1) \/ ConnError(1) \/ ConnCancel(1) \/ ConnTeardown(1) \/ ConnStop(1) \/ ConnDrop(1))
    BY <1>3 DEF ConnEstablishFails, ConnError, ConnCancel, ConnTeardown, ConnStop, ConnDrop, Early, Late
<1>5. CASE ConnEstablish(1)
    <2> DEFINE r == [pc |-> "wanted", fd |-> made + 1, v6 |-> netV6]
    <2>1. r.pc = "wanted" /\ r.fd = made + 1 OBVIOUS
    <2>2. /\ conn' = [conn EXCEPT ![1] = r] /\ made' = made + 1 /\ open' = open \cup {made + 1} /\ appsStale' = FALSE
          /\ conn[1].pc = "establish"
          /\ UNCHANGED <<service, main, tunnelActive, connectQueued, connectAttempt, stopping, disc, posted, env, tunFd,
                         engine, monitored, rebinding, rebindRequested, worker>>
        BY <1>5 DEF ConnEstablish, Establish
    <2> HIDE DEF r
    <2>3. conn'[1].pc = "wanted" /\ conn'[1].fd = made + 1 /\ \A b \in Attempts : b # 1 => conn'[b] = conn[b]
        BY <1>2, <2>1, <2>2 DEF Types
    <2>4. conn[1].pc \in Early /\ conn'[1].pc \in Early /\ conn'[1].pc \notin Late BY <2>2, <2>3 DEF Early, Late
    <2>5. open = {} /\ tunFd = 0 /\ engine = 0 /\ worker.pc = "none" /\ ~monitored
        BY <1>2, <2>2, <2>4 DEF Steady, Connecting
    <2>6. made + 1 # 0 /\ open' = {made + 1} BY <2>2, <2>5 DEF Types
    <2>7. Quiet' BY <1>2, <2>2, <2>3, <2>4 DEF Steady, Quiet
    <2>8. Connecting' BY <2>2, <2>3, <2>4, <2>5, <2>6 DEF Connecting
    <2>9. Rebinding' /\ Deferral' BY <2>2, <2>4 DEF Rebinding, Deferral
    <2>10. QED BY <2>7, <2>8, <2>9 DEF Steady
<1>6. QED BY <1>2, <1>4, <1>5, SteadyEarly, SteadyLate DEF ConnStep

\* What a step of the worker leaves alone.
LEMMA WorkFrame ==
    ASSUME WorkStep
    PROVE  UNCHANGED <<service, main, tunnelActive, connectQueued, connectAttempt, stopping, rebindAfterConnect, late,
                       netV6, baseline, monitored, notify, conn, disc, posted, env>>
BY DEF WorkStep, WorkLoop, WorkSettled, WorkGate, WorkEstablish, WorkActive, WorkAdopt, WorkFd, WorkTell, WorkRestart,
       WorkCloseOld, WorkRest, fields, network

\* Once its tunnels and its requests are known, the worker keeps the rest.
LEMMA WorkSteady ==
    ASSUME Steady, tunnelActive, conn[1].pc \in Late, WorkStep,
           (rebinding <=> worker.pc # "none")', (rebindRequested => rebinding)',
           engine' # 0 \/ worker'.pc = "restart", tunFd' # 0, made' # 0
    PROVE  Quiet' /\ Connecting'
<1>1. Quiet' BY WorkFrame DEF Steady, Quiet
<1>2. conn'[1].pc \in Late /\ conn'[1].pc \notin Early
         /\ conn'[1].pc \notin {"check", "establish", "wanted", "adopt", "assign", "fd", "start"}
    BY WorkFrame DEF Late, Early
<1>3. Connecting' BY <1>2 DEF Connecting
<1>4. QED BY <1>1, <1>3

\* Every statement of the rebind worker keeps the stages of a steady session.
LEMMA SteadyWork ==
    ASSUME IInv, Steady, WorkStep
    PROVE  Steady'
<1> USE DEF IInv, tunnels
<1>1. worker.pc # "none"
    BY DEF WorkStep, WorkLoop, WorkSettled, WorkGate, WorkEstablish, WorkActive, WorkAdopt, WorkFd, WorkTell, WorkRestart,
       WorkCloseOld
<1>2. tunnelActive /\ conn[1].pc \in Late /\ rebinding BY <1>1 DEF Steady, Quiet, Connecting
<1>3. /\ UNCHANGED <<tunnelActive, conn, rebindAfterConnect, main, late>> /\ env.failures = {}
      /\ engine # 0 \/ worker.pc = "restart"
      /\ tunFd # 0 /\ made # 0 /\ made \in Nat
    BY <1>2, WorkFrame DEF Steady, Quiet, Connecting, Types
<1>4. conn[1].pc \notin {"check", "establish"} BY <1>2 DEF Late
<1>5. CASE WorkLoop
    <2>1. /\ UNCHANGED <<rebindRequested, engine, tunFd, made, open, appsStale>> /\ worker.pc = "loop"
          /\ rebindRequested => WorkGoes("settle") /\ rebinding' = rebinding
          /\ ~rebindRequested => worker' = NoWork /\ rebinding' = FALSE
        BY <1>5 DEF WorkLoop
    <2>2. "settle" \in WorkPc BY DEF WorkPc
    <2>3. \/ rebindRequested /\ worker'.pc = "settle" /\ rebinding'
          \/ ~rebindRequested /\ worker'.pc = "none" /\ ~rebinding'
        BY <1>2, <2>1, <2>2, WorkMovedBy, NothingRecs DEF WorkMoved, Types
    <2>4. OnOne /\ OnOne' BY <1>2, <2>1 DEF Steady, Rebinding, OnOne
    <2>5. Quiet' /\ Connecting' BY <1>2, <1>3, <2>1, <2>3, WorkSteady
    <2>6. Rebinding' BY <2>3, <2>4 DEF Rebinding
    <2>7. Deferral' BY <1>3, <2>1, <2>3 DEF Steady, Deferral
    <2>8. QED BY <2>5, <2>6, <2>7 DEF Steady
<1>6. CASE WorkSettled
    <2>1. /\ UNCHANGED <<rebinding, engine, tunFd, made, open, appsStale>> /\ worker.pc = "settle"
          /\ rebindRequested' = FALSE /\ WorkGoes("gate")
        BY <1>6 DEF WorkSettled
    <2>2. "gate" \in WorkPc BY DEF WorkPc
    <2>3. worker'.pc = "gate" BY <2>1, <2>2, WorkMovedBy DEF WorkMoved, Types
    <2>4. OnOne /\ OnOne' BY <1>2, <2>1 DEF Steady, Rebinding, OnOne
    <2>5. Quiet' /\ Connecting' BY <1>2, <1>3, <2>1, <2>3, WorkSteady
    <2>6. Rebinding' BY <2>3, <2>4 DEF Rebinding
    <2>7. Deferral' BY <2>3 DEF Deferral
    <2>8. QED BY <2>5, <2>6, <2>7 DEF Steady
<1>7. CASE WorkGate
    <2>1. UNCHANGED <<rebindRequested, engine, tunFd, made, open, appsStale>> /\ worker.pc = "gate" BY <1>7 DEF WorkGate
    <2>2. OnOne /\ OnOne' BY <1>2, <2>1 DEF Steady, Rebinding, OnOne
    <2>3. tunFd \in open BY <2>2 DEF OnOne
    <2>4. CASE NeedsTunnel
        <3>1. worker' = [worker EXCEPT !.pc = "establish", !.v6 = Wanted] /\ rebinding' = rebinding
            BY <1>2, <1>3, <1>7, <2>4 DEF WorkGate
        <3>2. worker'.pc = "establish" BY <3>1 DEF Types, WorkRec
        <3>3. Quiet' /\ Connecting' BY <1>2, <1>3, <2>1, <3>1, <3>2, WorkSteady DEF Steady, Quiet
        <3>4. Rebinding' BY <2>2, <3>2 DEF Rebinding
        <3>5. Deferral' BY <3>2 DEF Deferral
        <3>6. QED BY <3>3, <3>4, <3>5 DEF Steady
    <2>5. CASE ~NeedsTunnel
        <3>1. worker' = [worker EXCEPT !.pc = "tell", !.fd = tunFd, !.old = 0] /\ rebinding' = rebinding
            BY <1>2, <1>3, <1>7, <2>3, <2>5 DEF WorkGate
        <3>2. worker \in WorkRec /\ tunFd \in Nat BY DEF Types, Bounded
        <3>3. worker'.pc = "tell" /\ worker'.fd = tunFd /\ worker'.old = 0 BY <3>1, <3>2, WorkTells
        <3>4. ~appsStale BY <1>3, <2>5 DEF NeedsTunnel
        <3>5. Quiet' /\ Connecting' BY <1>2, <1>3, <2>1, <3>1, <3>3, WorkSteady DEF Steady, Quiet
        <3>6. Rebinding' BY <2>1, <2>2, <3>3 DEF Rebinding, OnOne, Replacing
        <3>7. Deferral' BY <2>1, <3>4 DEF Deferral
        <3>8. QED BY <3>5, <3>6, <3>7 DEF Steady
    <2>6. QED BY <2>4, <2>5
<1>8. CASE WorkEstablish
    <2>1. /\ Establish /\ worker' = [worker EXCEPT !.pc = "active", !.fd = made + 1] /\ worker.pc = "establish"
          /\ UNCHANGED <<rebindRequested, rebinding, tunFd, engine>>
        BY <1>3, <1>8 DEF WorkEstablish
    <2>2. made' = made + 1 /\ open' = open \cup {made + 1} /\ appsStale' = FALSE BY <2>1 DEF Establish
    <2>3. worker \in WorkRec /\ made + 1 \in Nat BY DEF Types
    <2>4. worker'.pc = "active" /\ worker'.fd = made + 1 BY <2>1, <2>3, WorkMakes
    <2>5. OnOne BY <1>2, <2>1 DEF Steady, Rebinding
    <2>6. open' = {tunFd', made'} /\ tunFd' # made' /\ worker'.fd = made' /\ engine' = tunFd' /\ made' # 0
        BY <1>3, <2>1, <2>2, <2>4, <2>5 DEF OnOne
    <2>7. Quiet' /\ Connecting' BY <1>2, <1>3, <2>1, <2>4, <2>6, WorkSteady DEF Steady, Quiet
    <2>8. Rebinding' BY <2>4, <2>6 DEF Rebinding, OnTwo
    <2>9. Deferral' BY <2>2 DEF Deferral
    <2>10. QED BY <2>7, <2>8, <2>9 DEF Steady
<1>9. CASE WorkActive \/ WorkFd
    <2>1. worker.pc = "fd" => worker.fd \in open BY <1>2 DEF Steady, Rebinding, OnTwo
    <2>2. PICK l \in {"adopt", "tell"} : WorkGoes(l) /\ (l = "adopt" => worker.pc = "active") /\ (l = "tell" => worker.pc = "fd")
        BY <1>2, <1>9, <2>1 DEF WorkActive, WorkFd
    <2>3. UNCHANGED <<rebindRequested, rebinding, tunFd, engine, made, open, appsStale>> /\ worker.pc \in {"active", "fd"}
        BY <1>2, <1>9, <2>1 DEF WorkActive, WorkFd
    <2>4. l \in WorkPc BY <2>2 DEF WorkPc
    <2>5. worker'.pc = l /\ worker'.fd = worker.fd /\ worker'.old = worker.old
        BY <2>2, <2>4, WorkMovedBy DEF WorkMoved, Types
    <2>6. Quiet' /\ Connecting' BY <1>2, <1>3, <2>3, <2>5, WorkSteady DEF Steady, Quiet
    <2>7. Rebinding' BY <1>2, <2>2, <2>3, <2>5 DEF Steady, Rebinding, OnTwo, Replacing
    <2>8. Deferral' BY <1>3, <2>3 DEF Steady, Deferral
    <2>9. QED BY <2>6, <2>7, <2>8 DEF Steady
<1>10. CASE WorkAdopt
    <2>1. /\ worker' = [worker EXCEPT !.pc = "fd", !.old = tunFd] /\ tunFd' = worker.fd /\ worker.pc = "adopt"
          /\ UNCHANGED <<rebindRequested, rebinding, engine, made, open, appsStale>>
        BY <1>10 DEF WorkAdopt
    <2>2. worker \in WorkRec /\ tunFd \in Nat BY DEF Types, Bounded
    <2>3. worker'.pc = "fd" /\ worker'.fd = worker.fd /\ worker'.old = tunFd BY <2>1, <2>2, WorkAdopts
    <2>4. OnTwo(tunFd) /\ engine = tunFd BY <1>2, <2>1 DEF Steady, Rebinding
    <2>5. tunFd' = made BY <2>1, <2>4 DEF OnTwo
    <2>6. Quiet' /\ Connecting' BY <1>2, <1>3, <2>1, <2>3, <2>5, WorkSteady DEF Steady, Quiet
    <2>7. Rebinding' BY <2>1, <2>3, <2>4, <2>5 DEF Rebinding, OnTwo
    <2>8. Deferral' BY <1>3, <2>1 DEF Steady, Deferral
    <2>9. QED BY <2>6, <2>7, <2>8 DEF Steady
<1>11. CASE WorkTell \/ WorkRestart
    <2>1. worker.pc \in {"tell", "restart"} /\ worker.fd = made /\ Replacing
        BY <1>2, <1>11 DEF WorkTell, WorkRestart, Steady, Rebinding
    <2>2. worker.fd \in open BY <2>1 DEF Replacing, OnTwo
    <2>3. UNCHANGED <<rebindRequested, rebinding, tunFd, made, open, appsStale>>
        BY <1>11 DEF WorkTell, WorkRestart
    <2>4. PICK l \in {"closeOld", "restart"} :
            /\ WorkGoes(l) /\ worker.pc \notin {"gate", "establish"}
            /\ l = "closeOld" => engine' = made
            /\ l = "restart" => engine' = 0
        BY <1>3, <1>11, <2>1, <2>2 DEF WorkTell, WorkRestart
    <2>5. l \in WorkPc BY <2>4 DEF WorkPc
    <2>6. worker'.pc = l /\ worker'.fd = worker.fd /\ worker'.old = worker.old
        BY <2>4, <2>5, WorkMovedBy DEF WorkMoved, Types
    <2>7. Quiet' /\ Connecting' BY <1>2, <1>3, <2>3, <2>4, <2>6, WorkSteady DEF Steady, Quiet
    <2>8. Replacing' BY <2>1, <2>3, <2>6 DEF Replacing, OnTwo
    <2>9. Rebinding' BY <2>1, <2>3, <2>4, <2>6, <2>8 DEF Rebinding
    <2>10. Deferral' BY <1>3, <2>3, <2>4 DEF Steady, Deferral
    <2>11. QED BY <2>7, <2>9, <2>10 DEF Steady
<1>12. CASE WorkCloseOld
    <2>1. worker.pc = "closeOld" /\ engine = made /\ Replacing
        BY <1>2, <1>12 DEF WorkCloseOld, Steady, Rebinding
    <2>2. /\ open' = open \ {worker.old} /\ worker' = [NoWork EXCEPT !.pc = "loop"]
          /\ UNCHANGED <<rebindRequested, rebinding, tunFd, made, engine, appsStale>>
        BY <1>12 DEF WorkCloseOld, Close
    <2>3. worker'.pc = "loop" BY <2>2, NothingRecs DEF WorkRec
    <2>4. open' = {made} BY <1>3, <2>1, <2>2 DEF Replacing, OnTwo
    <2>5. OnOne' BY <2>1, <2>2, <2>4 DEF OnOne, Replacing
    <2>6. Quiet' /\ Connecting' BY <1>2, <1>3, <2>1, <2>2, <2>3, WorkSteady DEF Steady, Quiet
    <2>7. Rebinding' BY <2>3, <2>5 DEF Rebinding
    <2>8. Deferral' BY <1>3, <2>1, <2>2 DEF Steady, Deferral
    <2>9. QED BY <2>6, <2>7, <2>8 DEF Steady
<1>13. QED BY <1>5, <1>6, <1>7, <1>8, <1>9, <1>10, <1>11, <1>12 DEF WorkStep

\* The stages of a steady session survive every step.
LEMMA NextSteady == IInv /\ SteadyInv /\ [Next]_vars => SteadyInv'
<1> SUFFICES ASSUME IInv, SteadyInv, [Next]_vars, env'.name = "steady" PROVE Steady'
    BY DEF SteadyInv
<1>1. Steady BY SameName DEF SteadyInv
<1>2. CASE UNCHANGED vars
    <2>1. UNCHANGED <<service, tunnelActive, connectQueued, stopping, posted, connectAttempt, conn, disc, made, open, engine,
                      tunFd, monitored, rebinding, rebindRequested, worker, appsStale, rebindAfterConnect, late, main,
                      env>>
        BY <1>2 DEF vars, fields, tunnels, network, rebind
    <2>2. tunnelActive => service' = "up" /\ main' \in {"free", "defer"} BY <1>1, <2>1 DEF Steady, Quiet
    <2>3. Quiet' /\ Connecting' /\ Rebinding' BY <1>1, <2>1, <2>2, SteadyRests
    <2>4. Deferral' BY <1>1, <2>1 DEF Steady, Deferral
    <2>5. QED BY <2>3, <2>4 DEF Steady
<1>3. ~DiscStep BY <1>1 DEF DiscStep, TakeRead, TakeClear, DiscStop, DiscClose, Steady, Quiet
<1>4. CASE Next BY <1>1, <1>3, <1>4, SteadyMain, SteadyConn, SteadyWork DEF Next
<1>5. QED BY <1>2, <1>4

\* A session that nobody disconnects settles on one tunnel, whatever settings changes and
\* network callbacks came while it was connecting or rebinding, however many, and on the
\* stored selection unless onStartCommand deferred a change that connect no longer looks at
\* (onStartCommand, connect, rebindNode, rebindOnce).
THEOREM SessionSettles == Spec => []SettledSession
<1>1. IInv /\ SteadyInv => SettledSession
    <2> SUFFICES ASSUME IInv, Steady, Quiescent, tunnelActive
                 PROVE  engine = tunFd /\ tunFd = made /\ open = {tunFd} /\ (appsStale => late)
        BY DEF SteadyInv, SettledSession
    <2>1. worker.pc = "none" /\ main = "free" BY NothingRecs DEF Quiescent
    <2>2. conn[1].pc = "done" BY DEF Steady, Quiet, Quiescent, Early, Late
    <2>3. OnOne BY <2>1, <2>2 DEF Steady, Rebinding, Late
    <2>4. ~rebindRequested BY <2>1 DEF Steady, Quiet
    <2>5. appsStale => late BY <2>1, <2>2, <2>4 DEF Steady, Deferral
    <2>6. QED BY <2>3, <2>5 DEF OnOne
<1>2. Spec => []SteadyInv
    <2>1. IInv /\ IInv' /\ SteadyInv /\ [Next]_vars => SteadyInv' BY NextSteady
    <2>2. QED BY <2>1, InitSteady, DescriptorsApart, PTL DEF Spec
<1>3. QED BY <1>1, <1>2, DescriptorsApart, PTL

-----------------------------------------------------------------------------
(* The types, and that the bound on attempt numbers is never met.          *)

\* The flags, by what they are about: the session, the tunnel, the network and the worker.
SessionFlags ==
    /\ tunnelActive \in BOOLEAN /\ connectQueued \in BOOLEAN /\ stopping \in BOOLEAN
    /\ rebindAfterConnect \in BOOLEAN /\ late \in BOOLEAN /\ posted \in BOOLEAN
    /\ service \in {"up", "stopSelf", "dead", "crashed"}
    /\ main \in {"free", "take", "defer", "stop", "close", "clear"}
TunnelFlags == hasV6 \in BOOLEAN /\ appsStale \in BOOLEAN
NetworkFlags == baseline \in BOOLEAN /\ monitored \in BOOLEAN /\ notify \in BOOLEAN
WorkerFlags == rebindRequested \in BOOLEAN /\ rebinding \in BOOLEAN
Flags == SessionFlags /\ TunnelFlags /\ NetworkFlags /\ WorkerFlags

\* The groups a step leaves alone.
SessionSame == UNCHANGED <<tunnelActive, connectQueued, stopping, rebindAfterConnect, late, posted, service, main>>
TunnelSame == UNCHANGED <<hasV6, appsStale>>
NetworkSame == UNCHANGED <<baseline, monitored, notify>>
WorkerSame == UNCHANGED <<rebindRequested, rebinding>>

\* A group of flags that a step leaves alone stays of its type.
LEMMA FlagsStay ==
    /\ SessionFlags /\ SessionSame => SessionFlags'
    /\ TunnelFlags /\ TunnelSame => TunnelFlags'
    /\ NetworkFlags /\ NetworkSame => NetworkFlags'
    /\ WorkerFlags /\ WorkerSame => WorkerFlags'
BY DEF SessionFlags, TunnelFlags, NetworkFlags, WorkerFlags, SessionSame, TunnelSame, NetworkSame, WorkerSame

\* Every step keeps the flags.
LEMMA NextFlags == IInv /\ Flags /\ [Next]_vars => Flags'
<1> SUFFICES ASSUME IInv, Flags, [Next]_vars PROVE Flags' OBVIOUS
<1> USE FlagsStay DEF Flags, fields, tunnels, network, rebind, ConnRest, ConnOnly, WorkRest
<1>0. netV6 \in BOOLEAN /\ (\A a \in Attempts : conn[a].v6 \in BOOLEAN) /\ worker.v6 \in BOOLEAN
    BY DEF IInv, Types, ConnRec, WorkRec
<1>1. CASE UNCHANGED vars
    <2>1. SessionSame /\ TunnelSame /\ NetworkSame /\ WorkerSame
        BY <1>1 DEF vars, SessionSame, TunnelSame, NetworkSame, WorkerSame
    <2>2. QED BY <2>1
<1>2. CASE ConnectIntent
    <2>1. TunnelSame /\ NetworkSame /\ WorkerSame
        BY <1>2 DEF ConnectIntent, BeginConnect, TunnelSame, NetworkSame, WorkerSame
    <2>2. SessionFlags' BY <1>0, <1>2 DEF ConnectIntent, BeginConnect, SessionFlags
    <2>3. QED BY <2>1, <2>2
<1>3. CASE DisconnectIntent
    <2>1. TunnelSame /\ WorkerSame BY <1>3 DEF DisconnectIntent, Cancel, Teardown, TunnelSame, WorkerSame
    <2>2. SessionFlags' BY <1>0, <1>3 DEF DisconnectIntent, Cancel, Teardown, SessionFlags
    <2>3. NetworkFlags' BY <1>0, <1>3 DEF DisconnectIntent, Cancel, Teardown, NetworkFlags
    <2>4. QED BY <2>1, <2>2, <2>3
<1>4. CASE ConfigChanged
    <2>1. NetworkSame BY <1>4 DEF ConfigChanged, RebindNode, NetworkSame
    <2>2. SessionFlags' BY <1>0, <1>4 DEF ConfigChanged, RebindNode, SessionFlags
    <2>3. TunnelFlags' BY <1>0, <1>4 DEF ConfigChanged, RebindNode, TunnelFlags
    <2>4. WorkerFlags' BY <1>0, <1>4 DEF ConfigChanged, RebindNode, WorkerFlags
    <2>5. QED BY <2>1, <2>2, <2>3, <2>4
<1>5. CASE ConfigDefer
    <2>1. TunnelSame /\ NetworkSame /\ WorkerSame BY <1>5 DEF ConfigDefer, TunnelSame, NetworkSame, WorkerSame
    <2>2. SessionFlags' BY <1>0, <1>5 DEF ConfigDefer, SessionFlags
    <2>3. QED BY <2>1, <2>2
<1>6. CASE NetworkFlips
    <2>1. SessionSame /\ TunnelSame /\ WorkerSame BY <1>6 DEF NetworkFlips, SessionSame, TunnelSame, WorkerSame
    <2>2. NetworkFlags' BY <1>0, <1>6 DEF NetworkFlips, NetworkFlags
    <2>3. QED BY <2>1, <2>2
<1>7. CASE NetworkCallback
    <2>1. SessionSame /\ TunnelSame BY <1>7 DEF NetworkCallback, RebindNode, SessionSame, TunnelSame
    <2>2. NetworkFlags' BY <1>0, <1>7 DEF NetworkCallback, RebindNode, NetworkFlags
    <2>3. WorkerFlags' BY <1>0, <1>7 DEF NetworkCallback, RebindNode, WorkerFlags
    <2>4. QED BY <2>1, <2>2, <2>3
<1>8. CASE FinishShutdown
    <2>1. TunnelSame /\ NetworkSame /\ WorkerSame
        BY <1>8 DEF FinishShutdown, BeginConnect, TunnelSame, NetworkSame, WorkerSame
    <2>2. SessionFlags' BY <1>0, <1>8 DEF FinishShutdown, BeginConnect, SessionFlags
    <2>3. QED BY <2>1, <2>2
<1>9. CASE DestroyStep
    <2>1. TunnelSame /\ WorkerSame
        BY <1>9 DEF DestroyStep, OnDestroy, OnDestroyStop, OnDestroyClose, OnDestroyClear, TunnelSame, WorkerSame
    <2>2. SessionFlags'
        BY <1>0, <1>9 DEF DestroyStep, OnDestroy, OnDestroyStop, OnDestroyClose, OnDestroyClear, SessionFlags
    <2>3. NetworkFlags'
        BY <1>0, <1>9 DEF DestroyStep, OnDestroy, OnDestroyStop, OnDestroyClose, OnDestroyClear, NetworkFlags
    <2>4. QED BY <2>1, <2>2, <2>3
<1>10. CASE DiscStep
    <2>1. TunnelSame /\ NetworkSame /\ WorkerSame
        BY <1>10 DEF DiscStep, TakeRead, TakeClear, DiscStop, DiscClose, TunnelSame, NetworkSame, WorkerSame
    <2>2. /\ UNCHANGED <<tunnelActive, connectQueued, stopping, rebindAfterConnect, late, service>>
          /\ posted' \in {posted, TRUE} /\ main' \in {main, "free"}
        <3>1. CASE TakeRead BY <3>1 DEF TakeRead
        <3>2. CASE TakeClear BY <3>2 DEF TakeClear
        <3>3. CASE DiscStop BY <3>3 DEF DiscStop
        <3>4. CASE DiscClose BY <3>4 DEF DiscClose
        <3>5. QED BY <1>10, <3>1, <3>2, <3>3, <3>4 DEF DiscStep
    <2>3. SessionFlags' BY <2>2 DEF SessionFlags
    <2>4. QED BY <2>1, <2>3
<1>11. ASSUME NEW a \in Attempts, ConnStep(a) PROVE Flags'
    <2>1. CASE ConnCheck(a) \/ ConnEstablishFails(a) \/ ConnWanted(a) \/ ConnAdopt(a) \/ ConnStart(a)
              \/ ConnAfter(a) \/ ConnStop(a) \/ ConnDrop(a)
        <3>1. SessionSame /\ TunnelSame /\ NetworkSame /\ WorkerSame
            BY <2>1 DEF ConnCheck, ConnEstablishFails, ConnWanted, ConnAdopt, ConnStart, ConnAfter, ConnStop,
               ConnDrop, SessionSame, TunnelSame, NetworkSame, WorkerSame
        <3>2. QED BY <3>1
    <2>2. CASE ConnEstablish(a)
        <3>1. SessionSame /\ NetworkSame /\ WorkerSame
            BY <2>2 DEF ConnEstablish, Establish, SessionSame, NetworkSame, WorkerSame
        <3>2. TunnelFlags' BY <1>0, <2>2 DEF ConnEstablish, Establish, TunnelFlags
        <3>3. QED BY <3>1, <3>2
    <2>3. CASE ConnAssign(a)
        <3>1. SessionSame /\ NetworkSame /\ WorkerSame BY <2>3 DEF ConnAssign, SessionSame, NetworkSame, WorkerSame
        <3>2. TunnelFlags' BY <1>0, <2>3 DEF ConnAssign, TunnelFlags
        <3>3. QED BY <3>1, <3>2
    <2>4. CASE ConnFd(a)
        <3>1. TunnelSame BY <2>4 DEF ConnFd, ProcessDies, TunnelSame
        <3>2. SessionFlags' BY <1>0, <2>4 DEF ConnFd, ProcessDies, SessionFlags
        <3>3. NetworkFlags' BY <1>0, <2>4 DEF ConnFd, ProcessDies, NetworkFlags
        <3>4. WorkerFlags' BY <1>0, <2>4 DEF ConnFd, ProcessDies, WorkerFlags
        <3>5. QED BY <3>1, <3>2, <3>3, <3>4
    <2>5. CASE ConnError(a) \/ ConnCancel(a)
        <3>1. TunnelSame /\ NetworkSame /\ WorkerSame
            BY <2>5 DEF ConnError, ConnCancel, Cancel, TunnelSame, NetworkSame, WorkerSame
        <3>2. SessionFlags' BY <1>0, <2>5 DEF ConnError, ConnCancel, Cancel, SessionFlags
        <3>3. QED BY <3>1, <3>2
    <2>6. CASE ConnTeardown(a)
        <3>1. TunnelSame /\ WorkerSame BY <2>6 DEF ConnTeardown, Teardown, TunnelSame, WorkerSame
        <3>2. SessionFlags' BY <1>0, <2>6 DEF ConnTeardown, Teardown, SessionFlags
        <3>3. NetworkFlags' BY <1>0, <2>6 DEF ConnTeardown, Teardown, NetworkFlags
        <3>4. QED BY <3>1, <3>2, <3>3
    <2>7. CASE ConnRegister(a)
        <3>1. SessionSame /\ TunnelSame /\ WorkerSame BY <2>7 DEF ConnRegister, SessionSame, TunnelSame, WorkerSame
        <3>2. NetworkFlags' BY <1>0, <2>7 DEF ConnRegister, NetworkFlags
        <3>3. QED BY <3>1, <3>2
    <2>8. CASE ConnDeferred(a)
        <3>1. TunnelSame /\ NetworkSame BY <2>8 DEF ConnDeferred, RebindNode, TunnelSame, NetworkSame
        <3>2. SessionFlags' BY <1>0, <2>8 DEF ConnDeferred, RebindNode, SessionFlags
        <3>3. WorkerFlags' BY <1>0, <2>8 DEF ConnDeferred, RebindNode, WorkerFlags
        <3>4. QED BY <3>1, <3>2, <3>3
    <2>9. QED BY <1>11, <2>1, <2>2, <2>3, <2>4, <2>5, <2>6, <2>7, <2>8 DEF ConnStep
<1>12. CASE WorkStep
    <2>1. CASE WorkLoop \/ WorkSettled \/ WorkGate \/ WorkFd
        <3>1. SessionSame /\ TunnelSame /\ NetworkSame
            BY <2>1 DEF WorkLoop, WorkSettled, WorkGate, WorkFd, WorkDies, SessionSame, TunnelSame, NetworkSame
        <3>2. WorkerFlags' BY <1>0, <2>1 DEF WorkLoop, WorkSettled, WorkGate, WorkFd, WorkDies, WorkerFlags
        <3>3. QED BY <3>1, <3>2
    <2>2. CASE WorkEstablish
        <3>1. SessionSame /\ NetworkSame /\ WorkerSame
            BY <2>2 DEF WorkEstablish, Establish, SessionSame, NetworkSame, WorkerSame
        <3>2. TunnelFlags' BY <1>0, <2>2 DEF WorkEstablish, Establish, TunnelFlags
        <3>3. QED BY <3>1, <3>2
    <2>3. CASE WorkAdopt
        <3>1. SessionSame /\ NetworkSame /\ WorkerSame BY <2>3 DEF WorkAdopt, SessionSame, NetworkSame, WorkerSame
        <3>2. TunnelFlags' BY <1>0, <2>3 DEF WorkAdopt, TunnelFlags
        <3>3. QED BY <3>1, <3>2
    <2>4. CASE WorkActive \/ WorkTell \/ WorkRestart \/ WorkCloseOld
        <3>1. SessionSame /\ TunnelSame /\ NetworkSame /\ WorkerSame
            BY <2>4 DEF WorkActive, WorkTell, WorkRestart, WorkCloseOld, SessionSame, TunnelSame, NetworkSame,
               WorkerSame
        <3>2. QED BY <3>1
    <2>5. QED BY <1>12, <2>1, <2>2, <2>3, <2>4 DEF WorkStep
<1>13. QED BY <1>1, <1>2, <1>3, <1>4, <1>5, <1>6, <1>7, <1>8, <1>9, <1>10, <1>11, <1>12 DEF Next

\* The engine's tunnel, the one the worker is to close and those that were dropped were made,
\* and the worker's slot is taken just while there is a worker.
Slots ==
    /\ engine \in 0..made /\ worker.old \in 0..made /\ dropped \subseteq 1..made
    /\ worker.pc = "none" => worker = NoWork
    /\ rebinding => worker.pc # "none"
    /\ worker.pc # "none" => rebinding

\* A step that may move the engine to a tunnel that was made, and may ask for a rebind.
LEMMA SlotsStay ==
    ASSUME IInv, IInv', Slots, made' \in {made, made + 1}, engine' \in 0..made, dropped' \subseteq 1..made,
           UNCHANGED <<rebinding, worker>> \/ Asked
    PROVE  Slots'
<1>1. made \in Nat /\ made' \in Nat /\ made <= made' BY DEF IInv, Types
<1>2. CASE UNCHANGED <<rebinding, worker>> BY <1>1, <1>2 DEF Slots
<1>3. CASE Asked BY <1>1, <1>3 DEF Slots, Asked
<1>4. QED BY <1>2, <1>3

\* A step of the worker that goes on.
LEMMA SlotsGoOn ==
    ASSUME IInv, IInv', Slots, made' \in {made, made + 1}, engine' \in 0..made, dropped' = dropped,
           worker.pc # "none", rebinding' = rebinding, worker'.pc # "none", worker'.old \in 0..made
    PROVE  Slots'
<1>1. made \in Nat /\ made' \in Nat /\ made <= made' BY DEF IInv, Types
<1>2. QED BY <1>1 DEF Slots

\* A step with which the worker ends.
LEMMA SlotsEnd ==
    ASSUME IInv, IInv', Slots, UNCHANGED <<made, engine, dropped>>, worker' = NoWork, rebinding' = FALSE
    PROVE  Slots'
<1>1. 0 \in 0..made BY DEF IInv, Types
<1>2. QED BY <1>1, NothingRecs DEF Slots

\* The main thread, the connect threads and the teardown.
LEMMA OthersSlots ==
    ASSUME IInv, IInv', Slots, [Next]_vars, ~WorkStep, ~\E a \in Attempts : ConnFd(a)
    PROVE  Slots'
<1> USE DEF fields, tunnels, network, rebind, ConnRest, ConnOnly
<1>0. /\ made \in Nat /\ engine \in 0..made /\ 0 \in 0..made /\ (\A a \in Attempts : conn[a].fd \in 0..made)
      /\ dropped \subseteq 1..made /\ tunFd \in 0..made /\ open \subseteq 1..made
    BY DEF IInv, Types, Bounded, Slots
<1>a. RebindNode => Asked BY AskedBy DEF IInv, Types
<1>1. CASE UNCHANGED vars BY <1>0, <1>1, SlotsStay DEF vars
<1>2. CASE ConnectIntent \/ DisconnectIntent \/ ConfigDefer \/ NetworkFlips \/ FinishShutdown
    <2>1. UNCHANGED <<made, engine, dropped, rebinding, worker>>
        BY <1>2 DEF ConnectIntent, DisconnectIntent, ConfigDefer, NetworkFlips, FinishShutdown
    <2>2. QED BY <1>0, <2>1, SlotsStay
<1>3. CASE ConfigChanged \/ NetworkCallback
    <2>1. UNCHANGED <<made, engine, dropped>> /\ (RebindNode \/ UNCHANGED <<rebinding, worker>>)
        BY <1>3 DEF ConfigChanged, NetworkCallback
    <2>2. QED BY <1>0, <1>a, <2>1, SlotsStay
<1>4. CASE DestroyStep \/ DiscStep
    <2>1. /\ UNCHANGED <<made, rebinding, worker>> /\ engine' \in {0, engine}
          /\ \/ dropped' = dropped
             \/ dropped' = dropped \cup ({tunFd} \cap open)
             \/ dropped' = dropped \cup ({tunFd} \ {0, disc.fd})
        BY <1>4 DEF DestroyStep, OnDestroy, OnDestroyStop, OnDestroyClose, OnDestroyClear,
                    DiscStep, TakeRead, TakeClear, DiscStop, DiscClose
    <2>2. tunFd = 0 \/ tunFd \in 1..made BY <1>0
    <2>3. ({tunFd} \cap open) \subseteq 1..made /\ ({tunFd} \ {0, disc.fd}) \subseteq 1..made BY <1>0, <2>2
    <2>4. dropped' \subseteq 1..made BY <1>0, <2>1, <2>3
    <2>5. QED BY <1>0, <2>1, <2>4, SlotsStay
<1>5. ASSUME NEW a \in Attempts, ConnStep(a), ~ConnFd(a) PROVE Slots'
    <2>1. CASE ConnCheck(a) \/ ConnEstablishFails(a) \/ ConnWanted(a) \/ ConnAdopt(a) \/ ConnAssign(a)
               \/ ConnError(a) \/ ConnCancel(a) \/ ConnTeardown(a) \/ ConnAfter(a) \/ ConnDrop(a) \/ ConnRegister(a)
        <3>1. UNCHANGED <<made, engine, dropped, rebinding, worker>>
            BY <2>1 DEF ConnCheck, ConnEstablishFails, ConnWanted, ConnAdopt, ConnAssign, ConnError,
                        ConnCancel, ConnTeardown, ConnAfter,
                        ConnDrop, ConnRegister
        <3>2. QED BY <1>0, <3>1, SlotsStay
    <2>2. CASE ConnEstablish(a)
        <3>1. UNCHANGED <<engine, dropped, rebinding, worker>> /\ made' = made + 1
            BY <2>2 DEF ConnEstablish, Establish
        <3>2. QED BY <1>0, <3>1, SlotsStay
    <2>3. CASE ConnStart(a) \/ ConnStop(a)
        <3>1. UNCHANGED <<made, dropped, rebinding, worker>> /\ engine' \in {0, engine, conn[a].fd}
            BY <2>3 DEF ConnStart, ConnStop
        <3>2. QED BY <1>0, <3>1, SlotsStay
    <2>4. CASE ConnDeferred(a)
        <3>1. UNCHANGED <<made, engine, dropped>> /\ (RebindNode \/ UNCHANGED <<rebinding, worker>>)
            BY <2>4 DEF ConnDeferred
        <3>2. QED BY <1>0, <1>a, <3>1, SlotsStay
    <2>5. QED BY <1>5, <2>1, <2>2, <2>3, <2>4 DEF ConnStep
<1>6. QED BY <1>1, <1>2, <1>3, <1>4, <1>5 DEF Next

\* Reading a closed descriptor ends the process, and the worker with it.
LEMMA ConnFdSlots ==
    ASSUME IInv, IInv', Slots, NEW a \in Attempts, ConnFd(a)
    PROVE  Slots'
<1>1. CASE UNCHANGED <<ConnOnly, tunnels>>
    <2>1. made \in Nat /\ engine \in 0..made /\ dropped \subseteq 1..made BY DEF IInv, Types, Slots
    <2>2. UNCHANGED <<made, engine, dropped, rebinding, worker>> BY <1>1 DEF ConnOnly, ConnRest, fields, tunnels
    <2>3. QED BY <2>1, <2>2, SlotsStay
<1>2. CASE ProcessDies
    <2>1. made \in Nat BY DEF IInv, Types
    <2>2. UNCHANGED <<made, dropped>> /\ engine' = 0 /\ worker' = NoWork /\ rebinding' = FALSE BY <1>2 DEF ProcessDies
    <2>3. QED BY <2>1, <2>2, NothingRecs DEF Slots
<1>3. QED BY <1>1, <1>2 DEF ConnFd

\* The rebind worker.
LEMMA WorkSlots ==
    ASSUME IInv, IInv', Slots, WorkStep
    PROVE  Slots'
<1> USE DEF fields, tunnels, WorkRest
<1>0. /\ made \in Nat /\ worker \in WorkRec /\ {engine, worker.old, worker.fd, tunFd, 0} \subseteq 0..made
      /\ tunFd \in Nat
    BY DEF IInv, Types, Bounded, Slots
<1>1. CASE WorkLoop \/ WorkSettled \/ WorkFd
    <2>1. UNCHANGED <<made, engine, dropped>> /\ worker.pc # "none"
        BY <1>1 DEF WorkLoop, WorkSettled, WorkFd
    <2>2. \/ worker' = NoWork /\ rebinding' = FALSE
          \/ rebinding' = rebinding /\ \E l \in {"settle", "gate", "tell"} : WorkGoes(l)
        BY <1>1 DEF WorkLoop, WorkSettled, WorkFd, WorkDies
    <2>3. CASE rebinding' = rebinding /\ \E l \in {"settle", "gate", "tell"} : WorkGoes(l)
        <3>1. \E l \in {"settle", "gate", "tell"} : WorkMoved(l) BY <1>0, <2>3, WorkMovedBy DEF WorkPc
        <3>2. worker'.pc # "none" /\ worker'.old = worker.old BY <3>1 DEF WorkMoved
        <3>3. QED BY <1>0, <2>1, <2>3, <3>2, SlotsGoOn
    <2>4. QED BY <2>1, <2>2, <2>3, SlotsEnd
<1>2. CASE WorkGate
    <2>1. UNCHANGED <<made, engine, dropped>> /\ worker.pc # "none" BY <1>2 DEF WorkGate
    <2>2. \/ worker' = NoWork /\ rebinding' = FALSE
          \/ /\ rebinding' = rebinding
             /\ \/ WorkGoes("loop")
                \/ worker' = [worker EXCEPT !.pc = "establish", !.v6 = Wanted]
                \/ worker' = [worker EXCEPT !.pc = "tell", !.fd = tunFd, !.old = 0]
        BY <1>2 DEF WorkGate, WorkDies
    <2>3. CASE rebinding' = rebinding /\ WorkGoes("loop")
        <3>1. WorkMoved("loop") BY <1>0, <2>3, WorkMovedBy DEF WorkPc
        <3>2. worker'.pc # "none" /\ worker'.old = worker.old BY <3>1 DEF WorkMoved
        <3>3. QED BY <1>0, <2>1, <2>3, <3>2, SlotsGoOn
    <2>4. CASE rebinding' = rebinding /\ worker' = [worker EXCEPT !.pc = "establish", !.v6 = Wanted]
        <3>1. worker'.pc # "none" /\ worker'.old = worker.old BY <1>0, <2>4 DEF WorkRec
        <3>2. QED BY <1>0, <2>1, <2>4, <3>1, SlotsGoOn
    <2>5. CASE rebinding' = rebinding /\ worker' = [worker EXCEPT !.pc = "tell", !.fd = tunFd, !.old = 0]
        <3>1. worker'.pc # "none" /\ worker'.old = 0 BY <1>0, <2>5, WorkTells
        <3>2. QED BY <1>0, <2>1, <2>5, <3>1, SlotsGoOn
    <2>6. QED BY <2>1, <2>2, <2>3, <2>4, <2>5, SlotsEnd
<1>3. CASE WorkEstablish
    <2>1. UNCHANGED <<engine, dropped, rebinding>> /\ worker.pc # "none" BY <1>3 DEF WorkEstablish
    <2>2. CASE Establish /\ worker' = [worker EXCEPT !.pc = "active", !.fd = made + 1]
        <3>1. made' = made + 1 BY <2>2 DEF Establish
        <3>2. worker'.pc # "none" /\ worker'.old = worker.old BY <1>0, <2>2 DEF WorkRec
        <3>3. QED BY <1>0, <2>1, <3>1, <3>2, SlotsGoOn
    <2>3. CASE WorkGoes("loop") /\ UNCHANGED <<open, made, appsStale>>
        <3>1. WorkMoved("loop") BY <1>0, <2>3, WorkMovedBy DEF WorkPc
        <3>2. worker'.pc # "none" /\ worker'.old = worker.old /\ made' = made BY <2>3, <3>1 DEF WorkMoved
        <3>3. QED BY <1>0, <2>1, <3>2, SlotsGoOn
    <2>4. QED BY <1>3, <2>2, <2>3 DEF WorkEstablish
<1>4. CASE WorkActive
    <2>1. UNCHANGED <<made, engine, dropped, rebinding>> /\ worker.pc # "none" /\ (WorkGoes("adopt") \/ WorkGoes("loop"))
        BY <1>4 DEF WorkActive
    <2>2. WorkMoved("adopt") \/ WorkMoved("loop") BY <1>0, <2>1, WorkMovedBy DEF WorkPc
    <2>3. worker'.pc # "none" /\ worker'.old = worker.old BY <2>2 DEF WorkMoved
    <2>4. QED BY <1>0, <2>1, <2>3, SlotsGoOn
<1>5. CASE WorkAdopt
    <2>1. UNCHANGED <<made, engine, dropped, rebinding>> /\ worker.pc # "none" BY <1>5 DEF WorkAdopt
    <2>2. worker' = [worker EXCEPT !.pc = "fd", !.old = tunFd] BY <1>5 DEF WorkAdopt
    <2>3. worker'.pc # "none" /\ worker'.old = tunFd BY <1>0, <2>2, WorkAdopts
    <2>4. QED BY <1>0, <2>1, <2>3, SlotsGoOn
<1>6. CASE WorkTell \/ WorkRestart
    <2>1. UNCHANGED <<made, dropped, rebinding>> /\ worker.pc # "none" /\ engine' \in {0, engine, worker.fd}
        BY <1>6 DEF WorkTell, WorkRestart
    <2>2. PICK l \in {"closeOld", "restart"} : WorkGoes(l) BY <1>6 DEF WorkTell, WorkRestart
    <2>3. WorkMoved(l) BY <1>0, <2>2, WorkMovedBy DEF WorkPc
    <2>4. worker'.pc # "none" /\ worker'.old = worker.old BY <2>3 DEF WorkMoved
    <2>5. QED BY <1>0, <2>1, <2>4, SlotsGoOn
<1>7. CASE WorkCloseOld
    <2>1. UNCHANGED <<made, engine, dropped, rebinding>> /\ worker.pc # "none" /\ worker' = [NoWork EXCEPT !.pc = "loop"]
        BY <1>7 DEF WorkCloseOld
    <2>2. worker'.pc # "none" /\ worker'.old = 0 BY <2>1 DEF NoWork
    <2>3. QED BY <1>0, <2>1, <2>2, SlotsGoOn
<1>8. QED BY <1>1, <1>2, <1>3, <1>4, <1>5, <1>6, <1>7 DEF WorkStep

\* Every connect still to come or queued takes a number and may shut down once, every
\* thread that has neither ended nor shut down may do so once, and so does every
\* disconnect to come.
Busy == {a \in Attempts : conn[a].pc \notin {"none", "done", "teardown"}}
Owed == 2 * env.connects + env.disconnects + (IF connectQueued THEN 2 ELSE 0) + Cardinality(Busy)
Numbers == connectAttempt + Owed <= MaxAttempts

\* How the number of unfinished threads follows the threads.
LEMMA BusyCounts ==
    /\ IsFiniteSet(Busy) /\ Cardinality(Busy) \in Nat
    /\ Busy' \subseteq Busy => Cardinality(Busy') \in Nat /\ Cardinality(Busy') <= Cardinality(Busy)
    /\ \A a : Busy' \subseteq Busy \cup {a} =>
            Cardinality(Busy') \in Nat /\ Cardinality(Busy') <= Cardinality(Busy) + 1
    /\ \A a \in Busy : Busy' \subseteq Busy \ {a} =>
            Cardinality(Busy') \in Nat /\ Cardinality(Busy') <= Cardinality(Busy) - 1
<1>1. IsFiniteSet(Attempts) BY FS_Interval DEF Attempts
<1>2. Busy \subseteq Attempts BY DEF Busy
<1>3. IsFiniteSet(Busy) /\ Cardinality(Busy) \in Nat BY <1>1, <1>2, FS_Subset, FS_CardinalityType
<1>4. ASSUME Busy' \subseteq Busy
      PROVE  Cardinality(Busy') \in Nat /\ Cardinality(Busy') <= Cardinality(Busy)
    BY <1>3, <1>4, FS_Subset, FS_CardinalityType
<1>5. ASSUME NEW a, Busy' \subseteq Busy \cup {a}
      PROVE  Cardinality(Busy') \in Nat /\ Cardinality(Busy') <= Cardinality(Busy) + 1
    <2>1. /\ IsFiniteSet(Busy \cup {a}) /\ Cardinality(Busy \cup {a}) \in Nat
          /\ Cardinality(Busy \cup {a}) <= Cardinality(Busy) + 1
        BY <1>3, FS_AddElement, FS_CardinalityType
    <2>2. Cardinality(Busy') \in Nat /\ Cardinality(Busy') <= Cardinality(Busy \cup {a})
        BY <1>5, <2>1, FS_Subset, FS_CardinalityType
    <2>3. QED BY <1>3, <2>1, <2>2
<1>6. ASSUME NEW a \in Busy, Busy' \subseteq Busy \ {a}
      PROVE  Cardinality(Busy') \in Nat /\ Cardinality(Busy') <= Cardinality(Busy) - 1
    <2>1. /\ IsFiniteSet(Busy \ {a}) /\ Cardinality(Busy \ {a}) = Cardinality(Busy) - 1
        BY <1>3, FS_RemoveElement
    <2>2. Cardinality(Busy') \in Nat /\ Cardinality(Busy') <= Cardinality(Busy \ {a})
        BY <1>6, <2>1, FS_Subset, FS_CardinalityType
    <2>3. QED BY <2>1, <2>2
<1>7. QED BY <1>3, <1>4, <1>5, <1>6

\* A step that begins no attempt and shuts nothing down.
LEMMA NumbersStay ==
    ASSUME IInv, IInv', Numbers, connectAttempt' = connectAttempt, connectQueued' => connectQueued,
           env'.connects <= env.connects, env'.disconnects <= env.disconnects, Busy' \subseteq Busy
    PROVE  Numbers'
<1>1. /\ MaxAttempts \in Nat /\ connectAttempt \in Nat /\ Cardinality(Busy) \in Nat
      /\ {env.connects, env.disconnects, env'.connects, env'.disconnects} \subseteq Nat
    BY BusyCounts DEF IInv, Types, EnvRec
<1>2. Cardinality(Busy)' \in Nat /\ Cardinality(Busy)' <= Cardinality(Busy) BY BusyCounts
<1>3. QED BY <1>1, <1>2 DEF Numbers, Owed

\* A disconnect, or a thread's shutdown.
LEMMA NumbersShutdown ==
    ASSUME IInv, IInv', Numbers, Cancel, env'.connects = env.connects,
           \/ env'.disconnects = env.disconnects - 1 /\ Busy' \subseteq Busy
           \/ env'.disconnects = env.disconnects /\ \E a \in Busy : Busy' \subseteq Busy \ {a}
    PROVE  Numbers'
<1>1. /\ MaxAttempts \in Nat /\ connectAttempt \in Nat /\ Cardinality(Busy) \in Nat
      /\ {env.connects, env.disconnects, env'.connects, env'.disconnects} \subseteq Nat
    BY BusyCounts DEF IInv, Types, EnvRec
<1>2. connectAttempt' = connectAttempt + 1 /\ ~connectQueued' BY DEF Cancel
<1>3. CASE env'.disconnects = env.disconnects - 1 /\ Busy' \subseteq Busy
    <2>1. Cardinality(Busy)' \in Nat /\ Cardinality(Busy)' <= Cardinality(Busy) BY <1>3, BusyCounts
    <2>2. QED BY <1>1, <1>2, <1>3, <2>1 DEF Numbers, Owed
<1>4. CASE env'.disconnects = env.disconnects /\ \E a \in Busy : Busy' \subseteq Busy \ {a}
    <2>1. Cardinality(Busy)' \in Nat /\ Cardinality(Busy)' <= Cardinality(Busy) - 1 BY <1>4, BusyCounts
    <2>2. QED BY <1>1, <1>2, <1>4, <2>1 DEF Numbers, Owed
<1>5. QED BY <1>3, <1>4

\* A connect that begins, out of the intents or out of the queue.
LEMMA NumbersBegin ==
    ASSUME IInv, IInv', Numbers, BeginConnect, env'.disconnects = env.disconnects,
           \/ env'.connects = env.connects - 1 /\ connectQueued' = connectQueued
           \/ env'.connects = env.connects /\ connectQueued /\ ~connectQueued'
    PROVE  Numbers'
<1>1. /\ MaxAttempts \in Nat /\ connectAttempt \in Nat /\ Cardinality(Busy) \in Nat
      /\ {env.connects, env.disconnects, env'.connects, env'.disconnects} \subseteq Nat
    BY BusyCounts DEF IInv, Types, EnvRec
<1>2. connectAttempt' = connectAttempt + 1 BY DEF BeginConnect
<1>3. Busy' \subseteq Busy \cup {connectAttempt + 1}
    <2>1. Begun BY BegunBy DEF IInv, Types
    <2>2. QED BY <2>1 DEF Begun, Busy
<1>4. Cardinality(Busy)' \in Nat /\ Cardinality(Busy)' <= Cardinality(Busy) + 1 BY <1>3, BusyCounts
<1>5. CASE env'.connects = env.connects - 1 /\ connectQueued' = connectQueued
    BY <1>1, <1>2, <1>4, <1>5 DEF Numbers, Owed
<1>6. CASE env'.connects = env.connects /\ connectQueued /\ ~connectQueued'
    BY <1>1, <1>2, <1>4, <1>6 DEF Numbers, Owed
<1>7. QED BY <1>5, <1>6

\* A connect that waits for the teardown to end.
LEMMA NumbersQueue ==
    ASSUME IInv, IInv', Numbers, connectAttempt' = connectAttempt, conn' = conn,
           env'.disconnects = env.disconnects, env'.connects = env.connects - 1
    PROVE  Numbers'
<1>1. /\ MaxAttempts \in Nat /\ connectAttempt \in Nat /\ Cardinality(Busy) \in Nat
      /\ {env.connects, env.disconnects, env'.connects, env'.disconnects} \subseteq Nat
    BY BusyCounts DEF IInv, Types, EnvRec
<1>2. Busy' \subseteq Busy BY DEF Busy
<1>3. Cardinality(Busy)' \in Nat /\ Cardinality(Busy)' <= Cardinality(Busy) BY <1>2, BusyCounts
<1>4. QED BY <1>1, <1>3 DEF Numbers, Owed

\* A connect thread's step: to another statement, or past its shutdown.
LEMMA BusyMoves ==
    ASSUME IInv, NEW a \in Attempts, NEW l \in ConnPc, ConnGoes(a, l), a \in Busy \/ l = "done"
    PROVE  Busy' \subseteq Busy /\ (l = "teardown" => Busy' \subseteq Busy \ {a})
<1>1. Moved(a, l) BY MovedBy DEF IInv, Types
<1>2. QED BY <1>1 DEF Moved, Busy

\* Every step pays for the attempt number it takes.
LEMMA NextNumbers == IInv /\ IInv' /\ Numbers /\ [Next]_vars => Numbers'
<1> SUFFICES ASSUME IInv, IInv', Numbers, [Next]_vars PROVE Numbers' OBVIOUS
<1> USE DEF fields, tunnels, network, rebind, ConnRest, ConnOnly, WorkRest
<1>0. env \in EnvRec /\ {env.connects, env.disconnects} \subseteq Nat BY DEF IInv, Types, EnvRec
<1>a. (conn' = conn => Busy' \subseteq Busy) BY DEF Busy
<1>1. CASE UNCHANGED vars
    <2>1. UNCHANGED <<connectAttempt, connectQueued, conn, env>> BY <1>1 DEF vars
    <2>2. QED BY <1>0, <1>a, <2>1, NumbersStay
<1>2. CASE ConnectIntent
    <2>1. env'.connects = env.connects - 1 /\ env'.disconnects = env.disconnects
        BY <1>0, <1>2, EnvSpent DEF ConnectIntent
    <2>2. CASE stopping
        <3>1. connectAttempt' = connectAttempt /\ conn' = conn BY <1>2, <2>2 DEF ConnectIntent
        <3>2. QED BY <2>1, <3>1, NumbersQueue
    <2>3. CASE ~stopping
        <3>1. BeginConnect /\ connectQueued' = connectQueued BY <1>2, <2>3 DEF ConnectIntent
        <3>2. QED BY <2>1, <3>1, NumbersBegin
    <2>4. QED BY <2>2, <2>3
<1>3. CASE DisconnectIntent
    <2>1. env'.disconnects = env.disconnects - 1 /\ env'.connects = env.connects
        BY <1>0, <1>3, EnvSpent DEF DisconnectIntent
    <2>2. Cancel /\ conn' = conn BY <1>3 DEF DisconnectIntent
    <2>3. QED BY <1>a, <2>1, <2>2, NumbersShutdown
<1>4. CASE ConfigChanged \/ NetworkFlips
    <2>1. env'.disconnects = env.disconnects /\ env'.connects = env.connects
        BY <1>0, <1>4, EnvSpent DEF ConfigChanged, NetworkFlips
    <2>2. UNCHANGED <<connectAttempt, connectQueued, conn>> BY <1>4 DEF ConfigChanged, NetworkFlips
    <2>3. QED BY <1>0, <1>a, <2>1, <2>2, NumbersStay
<1>5. CASE ConfigDefer \/ NetworkCallback \/ DestroyStep \/ DiscStep
    <2>1. UNCHANGED <<connectAttempt, connectQueued, conn, env>>
        BY <1>5 DEF ConfigDefer, NetworkCallback, DestroyStep, OnDestroy, OnDestroyStop, OnDestroyClose, OnDestroyClear,
                    DiscStep, TakeRead, TakeClear, DiscStop, DiscClose
    <2>2. QED BY <1>0, <1>a, <2>1, NumbersStay
<1>6. CASE FinishShutdown
    <2>1. env' = env /\ ~connectQueued' BY <1>6 DEF FinishShutdown
    <2>2. CASE connectQueued /\ BeginConnect BY <2>1, <2>2, NumbersBegin
    <2>3. CASE UNCHANGED <<connectAttempt, conn>> BY <1>0, <1>a, <2>1, <2>3, NumbersStay
    <2>4. QED BY <1>6, <2>2, <2>3 DEF FinishShutdown
<1>7. ASSUME NEW a \in Attempts, ConnStep(a) PROVE Numbers'
    <2>0. {"adopt", "assign", "fd", "start", "error", "cancel", "teardown", "after", "stop", "drop", "register",
           "deferred", "establish", "done"} \subseteq ConnPc
        BY DEF ConnPc
    <2>1. CASE ConnCancel(a)
        <3>1. env' = env /\ Cancel /\ ConnGoes(a, "teardown") /\ a \in Busy
            BY <2>1 DEF ConnCancel, Busy
        <3>2. Busy' \subseteq Busy \ {a} BY <2>0, <3>1, BusyMoves
        <3>3. QED BY <3>1, <3>2, NumbersShutdown
    <2>2. CASE ConnEstablish(a)
        <3>1. /\ UNCHANGED <<env, connectAttempt, connectQueued>> /\ conn[a].pc = "establish"
              /\ conn' = [conn EXCEPT ![a] = [pc |-> "wanted", fd |-> made + 1, v6 |-> netV6]]
            BY <2>2 DEF ConnEstablish
        <3>2. Busy' \subseteq Busy BY <3>1 DEF Busy, IInv, Types
        <3>3. QED BY <1>0, <3>1, <3>2, NumbersStay
    <2>3. CASE ConnFd(a) /\ ProcessDies
        <3>1. UNCHANGED <<env, connectAttempt>> /\ ~connectQueued' /\ conn' = [b \in Attempts |-> NoConn]
            BY <2>3 DEF ProcessDies
        <3>2. Busy' \subseteq Busy BY <3>1, NothingRecs DEF Busy
        <3>3. QED BY <1>0, <3>1, <3>2, NumbersStay
    <2>4. CASE \/ ConnCheck(a) \/ ConnWanted(a) \/ ConnAdopt(a) \/ ConnAssign(a) \/ (ConnFd(a) /\ ~ProcessDies)
               \/ ConnEstablishFails(a) \/ ConnError(a) \/ ConnTeardown(a)
               \/ ConnStart(a) \/ ConnAfter(a) \/ ConnStop(a) \/ ConnDrop(a) \/ ConnRegister(a) \/ ConnDeferred(a)
        <3>1. /\ UNCHANGED <<env, connectAttempt, connectQueued>>
              /\ \E l \in ConnPc : ConnGoes(a, l) /\ (a \in Busy \/ l = "done")
            BY <2>0, <2>4 DEF ConnCheck, ConnWanted, ConnAdopt, ConnAssign, ConnFd, ConnEstablishFails, ConnError,
                              ConnTeardown, ConnStart, ConnAfter, ConnStop, ConnDrop, ConnRegister, ConnDeferred, Busy
        <3>2. Busy' \subseteq Busy BY <3>1, BusyMoves
        <3>3. QED BY <1>0, <3>1, <3>2, NumbersStay
    <2>5. QED BY <1>7, <2>1, <2>2, <2>3, <2>4 DEF ConnStep
<1>8. CASE WorkStep
    <2>1. UNCHANGED <<connectAttempt, connectQueued, conn, env>>
        BY <1>8 DEF WorkStep, WorkLoop, WorkSettled, WorkGate, WorkEstablish, WorkActive, WorkAdopt, WorkFd, WorkTell,
                    WorkRestart, WorkCloseOld
    <2>2. QED BY <1>0, <1>a, <2>1, NumbersStay
<1>9. QED BY <1>1, <1>2, <1>3, <1>4, <1>5, <1>6, <1>7, <1>8 DEF Next

-----------------------------------------------------------------------------
\* Everything the types rest on.
TypeInv == IInv /\ Flags /\ Slots /\ Numbers

\* Nothing runs at the start, and the scenario's intents are within the bound.
LEMMA InitTypes == Init => TypeInv
<1> SUFFICES ASSUME Init PROVE TypeInv OBVIOUS
<1>1. IInv BY InitApart
<1>2. Flags BY DEF Init, Flags, SessionFlags, TunnelFlags, NetworkFlags, WorkerFlags
<1>3. Slots BY NothingRecs DEF Init, Slots
<1>4. Numbers
    <2>1. Busy = {} BY NothingRecs DEF Init, Busy
    <2>2. Cardinality(Busy) = 0 BY <2>1, FS_EmptySet
    <2>3. /\ {env.connects, env.disconnects} \subseteq Nat /\ 2 * env.connects + env.disconnects <= MaxAttempts
          /\ connectAttempt = 0 /\ ~connectQueued
        BY DEF Init
    <2>4. QED BY <2>2, <2>3 DEF Numbers, Owed
<1>5. QED BY <1>1, <1>2, <1>3, <1>4 DEF TypeInv

\* Every step keeps the types.
LEMMA NextTypes == TypeInv /\ [Next]_vars => TypeInv'
<1> SUFFICES ASSUME TypeInv, [Next]_vars PROVE TypeInv' OBVIOUS
<1>1. IInv /\ Flags /\ Slots /\ Numbers BY DEF TypeInv
<1>2. IInv' BY <1>1, NextApart
<1>3. Flags' BY <1>1, NextFlags
<1>4. Slots' BY <1>1, <1>2, OthersSlots, ConnFdSlots, WorkSlots
<1>5. Numbers' BY <1>1, <1>2, NextNumbers
<1>6. QED BY <1>2, <1>3, <1>4, <1>5 DEF TypeInv

\* What the invariant says of the fields' types.
LEMMA TypesOK == TypeInv => TypeOK
<1> SUFFICES ASSUME TypeInv PROVE TypeOK OBVIOUS
<1>1. connectAttempt \in {0} \cup Attempts
    <2>1. {env.connects, env.disconnects, connectAttempt, Cardinality(Busy)} \subseteq Nat
        BY BusyCounts DEF TypeInv, IInv, Types, EnvRec
    <2>2. Owed \in Nat BY <2>1 DEF Owed
    <2>3. connectAttempt + Owed <= MaxAttempts BY DEF TypeInv, Numbers
    <2>4. QED BY <2>1, <2>2, <2>3 DEF Attempts
<1>2. /\ service \in {"up", "stopSelf", "dead", "crashed"}
      /\ main \in {"free", "take", "defer", "stop", "close", "clear"}
      /\ {tunnelActive, connectQueued, stopping, rebindAfterConnect, late, hasV6, appsStale, netV6,
          baseline, monitored, notify, posted, rebindRequested, rebinding} \subseteq BOOLEAN
    BY DEF TypeInv, IInv, Types, Flags, SessionFlags, TunnelFlags, NetworkFlags, WorkerFlags
<1>3. /\ {tunFd, engine, disc.fd, worker.fd, worker.old} \subseteq 0..made /\ open \subseteq 1..made
      /\ dropped \subseteq 1..made /\ \A a \in Attempts : conn[a].fd \in 0..made
    BY DEF TypeInv, IInv, Bounded, Slots
<1>4. rebinding <=> worker # NoWork BY NothingRecs DEF TypeInv, Slots
<1>5. QED BY <1>1, <1>2, <1>3, <1>4 DEF TypeOK, TypeInv, IInv, Types

\* Fields and threads keep their types through every step, and the bound on attempt
\* numbers is never met: no scenario's connect is left without a thread by it.
THEOREM TypeCorrect == Spec => []TypeOK
<1>1. Spec => []TypeInv BY InitTypes, NextTypes, PTL DEF Spec
<1>2. QED BY <1>1, TypesOK, PTL

-----------------------------------------------------------------------------
(* rebindNode, statement by statement.                                     *)

\* The slot is taken exactly while one worker holds it.
SlotHeld ==
    /\ rebinding => \E w \in Workers : Holds(w)
    /\ \A w \in Workers : Holds(w) => rebinding
    /\ \A v, w \in Workers : Holds(v) /\ Holds(w) => v = w

\* A pending request has a caller about to take the slot or a worker yet to look.
PendingIsWatched ==
    rebindRequested /\ ~died =>
        (\E c \in Callers : cpc[c] = "take") \/ (\E w \in Workers : wpc[w] # "idle")

\* A request that is not pending was made before the newest pass began.
ClearedIsSeen == ~rebindRequested => seen = asked

\* The inductive invariant of rebindNode.
QueueIInv == QueueTypeOK /\ SlotHeld /\ PendingIsWatched /\ ClearedIsSeen

\* Nothing runs at the start, so each part of the invariant holds of it.
LEMMA QueueStarts == QueueInit => QueueIInv
<1> SUFFICES ASSUME QueueInit PROVE QueueIInv
  OBVIOUS
<1>1. QueueTypeOK
  <2>1. seen \in 0..asked
    BY DEF QueueInit
  <2> QED
    BY <2>1 DEF QueueInit, QueueTypeOK
<1>2. SlotHeld
  BY DEF QueueInit, SlotHeld, Holds
<1>3. PendingIsWatched /\ ClearedIsSeen
  BY DEF QueueInit, PendingIsWatched, ClearedIsSeen
<1> QED
  BY <1>1, <1>2, <1>3 DEF QueueIInv

\* Every statement of a caller or a worker keeps the flags and counts in their types.
LEMMA QueueTypes == QueueTypeOK /\ [QueueNext]_queueVars => QueueTypeOK'
<1> SUFFICES ASSUME QueueTypeOK, [QueueNext]_queueVars PROVE QueueTypeOK'
  OBVIOUS
<1> USE DEF QueueTypeOK
<1>1. CASE UNCHANGED queueVars
  BY <1>1 DEF queueVars
<1>2. ASSUME NEW c \in Callers, Request(c) PROVE QueueTypeOK'
  BY <1>2 DEF Request
<1>3. ASSUME NEW c \in Callers, Take(c) PROVE QueueTypeOK'
  BY <1>3 DEF Take
<1>4. ASSUME NEW w \in Workers, WorkerStep(w) PROVE QueueTypeOK'
  <2>1. CASE Check(w)
    BY <2>1 DEF Check, WorkerGoes
  <2>2. CASE Settle(w)
    <3>1. seen' \in 0..asked'
      BY <2>2 DEF Settle
    <3> QED
      BY <2>2, <3>1 DEF Settle, WorkerGoes
  <2>3. CASE PassEnds(w) \/ PassThrows(w)
    BY <2>3 DEF PassEnds, PassThrows, WorkerGoes
  <2>4. CASE Release(w)
    BY <2>4 DEF Release, WorkerGoes
  <2>5. CASE Recheck(w) \/ Retake(w)
    BY <2>5 DEF Recheck, Retake, WorkerGoes
  <2> QED
    BY <1>4, <2>1, <2>2, <2>3, <2>4, <2>5 DEF WorkerStep
<1> QED
  BY <1>1, <1>2, <1>3, <1>4 DEF QueueNext

\* The slot follows the worker that holds it: taken with a start or a retake, given
\* up at Release or when a pass throws, untouched by everything else.
LEMMA QueueSlotHeld == QueueTypeOK /\ SlotHeld /\ [QueueNext]_queueVars => SlotHeld'
<1> SUFFICES ASSUME QueueTypeOK, SlotHeld, [QueueNext]_queueVars PROVE SlotHeld'
  OBVIOUS
<1> USE DEF QueueTypeOK, SlotHeld, Holds
<1>1. CASE UNCHANGED queueVars
  BY <1>1 DEF queueVars
<1>2. ASSUME NEW c \in Callers, Request(c) PROVE SlotHeld'
  BY <1>2 DEF Request
<1>3. ASSUME NEW c \in Callers, Take(c) PROVE SlotHeld'
  BY <1>3 DEF Take
<1>4. ASSUME NEW w \in Workers, WorkerStep(w) PROVE SlotHeld'
  <2>1. CASE Check(w)
    BY <2>1 DEF Check, WorkerGoes
  <2>2. CASE Settle(w) \/ PassEnds(w)
    BY <2>2 DEF Settle, PassEnds, WorkerGoes
  <2>3. CASE PassThrows(w) \/ Release(w)
    BY <2>3 DEF PassThrows, Release, WorkerGoes
  <2>4. CASE Recheck(w)
    BY <2>4 DEF Recheck, WorkerGoes
  <2>5. CASE Retake(w)
    BY <2>5 DEF Retake, WorkerGoes
  <2> QED
    BY <1>4, <2>1, <2>2, <2>3, <2>4, <2>5 DEF WorkerStep
<1> QED
  BY <1>1, <1>2, <1>3, <1>4 DEF QueueNext

\* A worker that ends leaves no request behind: it looked after giving the slot up, or
\* the slot is another worker's, who is still to look.
LEMMA QueuePendingIsWatched ==
    QueueTypeOK /\ SlotHeld /\ PendingIsWatched /\ [QueueNext]_queueVars => PendingIsWatched'
<1> SUFFICES ASSUME QueueTypeOK, SlotHeld, PendingIsWatched, [QueueNext]_queueVars PROVE PendingIsWatched'
  OBVIOUS
<1> USE DEF QueueTypeOK, SlotHeld, PendingIsWatched, Holds
<1>1. CASE UNCHANGED queueVars
  BY <1>1 DEF queueVars
<1>2. ASSUME NEW c \in Callers, Request(c) PROVE PendingIsWatched'
  BY <1>2 DEF Request
<1>3. ASSUME NEW c \in Callers, Take(c) PROVE PendingIsWatched'
  BY <1>3 DEF Take
<1>4. ASSUME NEW w \in Workers, WorkerStep(w) PROVE PendingIsWatched'
  <2>1. CASE Check(w)
    BY <2>1 DEF Check, WorkerGoes
  <2>2. CASE Settle(w) \/ PassEnds(w) \/ PassThrows(w)
    BY <2>2 DEF Settle, PassEnds, PassThrows, WorkerGoes
  <2>3. CASE Release(w)
    BY <2>3 DEF Release, WorkerGoes
  <2>4. CASE Recheck(w)
    BY <2>4 DEF Recheck, WorkerGoes
  <2>5. CASE Retake(w)
    BY <2>5 DEF Retake, WorkerGoes
  <2> QED
    BY <1>4, <2>1, <2>2, <2>3, <2>4, <2>5 DEF WorkerStep
<1> QED
  BY <1>1, <1>2, <1>3, <1>4 DEF QueueNext

\* Only Settle clears the request, and it covers everything asked so far.
LEMMA QueueClearedIsSeen == ClearedIsSeen /\ [QueueNext]_queueVars => ClearedIsSeen'
  BY DEF ClearedIsSeen, QueueNext, queueVars, Request, Take, WorkerStep, Check, Settle, PassEnds,
         PassThrows, Release, Recheck, Retake

\* Every reachable state of rebindNode satisfies the inductive invariant.
THEOREM QueueInvariance == QueueSpec => []QueueIInv
<1>1. QueueIInv /\ [QueueNext]_queueVars => QueueIInv'
  BY QueueTypes, QueueSlotHeld, QueuePendingIsWatched, QueueClearedIsSeen DEF QueueIInv
<1> QED
  BY <1>1, QueueStarts, PTL DEF QueueSpec

\* However many workers are alive, at most one is inside rebindOnce.
THEOREM OnePassAtATime == QueueSpec => []PassesSerialized
<1>1. QueueIInv => PassesSerialized
  BY DEF QueueIInv, SlotHeld, Holds, PassesSerialized
<1> QED
  BY <1>1, QueueInvariance, PTL

\* With every thread gone and no pass thrown, a pass began after the last request.
THEOREM NoLostRequest == QueueSpec => []LastRequestServed
<1>1. QueueIInv => LastRequestServed
  BY DEF QueueIInv, QueueTypeOK, PendingIsWatched, ClearedIsSeen, LastRequestServed, AtRest
<1> QED
  BY <1>1, QueueInvariance, PTL
=============================================================================
