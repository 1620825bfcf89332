------------------------------ MODULE EngineApi ------------------------------
(***************************************************************************)
(* What engine.rs promises its callers (FipsNative.start, stop and         *)
(* onNetworkChanged): each call takes effect at one point between its call *)
(* and its return, except that a rebind which has to restart the node goes *)
(* down and comes up (or fails) with no other call taking effect between.  *)
(***************************************************************************)
EXTENDS Integers

CONSTANTS
    Procs,      \* threads that call the engine
    Cfgs,       \* configurations
    MaxCalls,   \* bound: calls made
    NoSession

VARIABLES
    session,    \* what isRunning/status see: NoSession, or the configuration and the tunnel
    call,       \* per thread: the call it is in
    phase,      \* per thread: "idle", "called", "mid" (restart, node down), "done"
    ret,        \* per thread: "none", "ok" or "err"
    count       \* calls made so far; the n-th call brings tunnel n

apiVars == <<session, call, phase, ret, count>>

Ops == {"start", "stop", "rebind"}
NoCall == [op |-> "stop", cfg |-> CHOOSE c \in Cfgs : TRUE, tun |-> 0]
Call == [op : Ops, cfg : Cfgs, tun : 0..MaxCalls]

Init ==
    /\ session = NoSession
    /\ call = [p \in Procs |-> NoCall]
    /\ phase = [p \in Procs |-> "idle"]
    /\ ret = [p \in Procs |-> "none"]
    /\ count = 0

Invoke(p, c) ==
    /\ phase[p] = "idle" /\ count < MaxCalls /\ c.tun = count + 1
    /\ count' = count + 1
    /\ call' = [call EXCEPT ![p] = c]
    /\ phase' = [phase EXCEPT ![p] = "called"]
    /\ ret' = [ret EXCEPT ![p] = "none"]
    /\ UNCHANGED session

Decide(p, r) ==
    /\ phase' = [phase EXCEPT ![p] = "done"]
    /\ ret' = [ret EXCEPT ![p] = r]
    /\ UNCHANGED <<call, count>>

\* No restart is between its two halves.
NobodyMid == \A q \in Procs : phase[q] # "mid"

Wanted(p) == [cfg |-> call[p].cfg, tun |-> call[p].tun]

StartOk(p) ==
    /\ phase[p] = "called" /\ call[p].op = "start"
    /\ session = NoSession /\ NobodyMid
    /\ session' = Wanted(p)
    /\ Decide(p, "ok")

\* A start that fails, or finds an engine running, changes nothing.
StartErr(p) ==
    /\ phase[p] = "called" /\ call[p].op = "start"
    /\ Decide(p, "err")
    /\ UNCHANGED session

Stop(p) ==
    /\ phase[p] = "called" /\ call[p].op = "stop" /\ NobodyMid
    /\ session' = NoSession
    /\ Decide(p, "ok")

\* A rebind that finds nothing running, or another rebind running.
RebindNothing(p) ==
    /\ phase[p] = "called" /\ call[p].op = "rebind"
    /\ \/ session = NoSession /\ NobodyMid
       \/ \E q \in Procs \ {p} : call[q].op = "rebind" /\ phase[q] # "idle"
    /\ Decide(p, "ok")
    /\ UNCHANGED session

\* Same configuration: the session moves to the new tunnel.
RebindMove(p) ==
    /\ phase[p] = "called" /\ call[p].op = "rebind" /\ NobodyMid
    /\ session # NoSession /\ session.cfg = call[p].cfg
    /\ session' = Wanted(p)
    /\ Decide(p, "ok")

RebindDown(p) ==
    /\ phase[p] = "called" /\ call[p].op = "rebind" /\ NobodyMid
    /\ session # NoSession
    /\ session' = NoSession
    /\ phase' = [phase EXCEPT ![p] = "mid"]
    /\ UNCHANGED <<call, ret, count>>

RebindUp(p) ==
    /\ phase[p] = "mid"
    /\ session' = Wanted(p)
    /\ Decide(p, "ok")

RebindFailed(p) ==
    /\ phase[p] = "mid"
    /\ Decide(p, "err")
    /\ UNCHANGED session

Return(p) ==
    /\ phase[p] = "done"
    /\ phase' = [phase EXCEPT ![p] = "idle"]
    /\ call' = [call EXCEPT ![p] = NoCall] /\ ret' = [ret EXCEPT ![p] = "none"]
    /\ UNCHANGED <<session, count>>

Next ==
    \E p \in Procs :
        \/ \E c \in Call : Invoke(p, c)
        \/ StartOk(p) \/ StartErr(p) \/ Stop(p)
        \/ RebindNothing(p) \/ RebindMove(p) \/ RebindDown(p) \/ RebindUp(p) \/ RebindFailed(p)
        \/ Return(p)

Spec == Init /\ [][Next]_apiVars
=============================================================================
