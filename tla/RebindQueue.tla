---------------------------- MODULE RebindQueue ----------------------------
(***************************************************************************)
(* rebindNode of FipsVpnService.kt, statement by statement: any number of  *)
(* callers (network callbacks, intents, connect threads) record a request  *)
(* on rebindRequested, and the one that wins the compareAndSet on          *)
(* rebinding starts a fips-rebind worker, which serves requests until it   *)
(* finds none, gives the slot up, and looks once more.  What a pass does   *)
(* is VpnService's business; here it may only end or throw.                *)
(***************************************************************************)
EXTENDS Integers, RebindFlags

CONSTANTS
    Callers,      \* threads that call rebindNode
    Workers,      \* fips-rebind threads that can exist at once
    MaxRequests   \* bound: calls of rebindNode

ASSUME MaxRequestsAssumption == MaxRequests \in Nat

VARIABLES
    cpc,      \* per caller: "idle", or "take" between the request and the compareAndSet
    wpc,      \* per worker: "idle" (not started or ended) or its statement
    asked,    \* requests made
    seen,     \* requests made when the newest pass began
    died      \* a pass has thrown

queueVars == <<rebindRequested, rebinding, cpc, wpc, asked, seen, died>>

QueueInit ==
    /\ rebindRequested = FALSE /\ rebinding = FALSE
    /\ cpc = [c \in Callers |-> "idle"]
    /\ wpc = [w \in Workers |-> "idle"]
    /\ asked = 0 /\ seen = 0 /\ died = FALSE

\* rebindRequested.set(true)
Request(c) ==
    /\ cpc[c] = "idle" /\ asked < MaxRequests
    /\ rebindRequested' = TRUE
    /\ asked' = asked + 1
    /\ cpc' = [cpc EXCEPT ![c] = "take"]
    /\ UNCHANGED <<rebinding, wpc, seen, died>>

\* rebinding.compareAndSet(false, true), and the worker's thread when it succeeds
Take(c) ==
    /\ cpc[c] = "take"
    /\ cpc' = [cpc EXCEPT ![c] = "idle"]
    /\ \/ rebinding /\ UNCHANGED <<rebinding, wpc>>
       \/ /\ ~rebinding
          /\ rebinding' = TRUE
          /\ \E w \in Workers : wpc[w] = "idle" /\ wpc' = [wpc EXCEPT ![w] = "check"]
    /\ UNCHANGED <<rebindRequested, asked, seen, died>>

WorkerGoes(w, l) == wpc' = [wpc EXCEPT ![w] = l]

Check(w) ==
    /\ wpc[w] = "check"
    /\ WorkerGoes(w, IF rebindRequested THEN "settle" ELSE "release")
    /\ UNCHANGED <<rebindRequested, rebinding, cpc, asked, seen, died>>

\* After the sleep: what was asked up to here is covered by this pass.
Settle(w) ==
    /\ wpc[w] = "settle"
    /\ rebindRequested' = FALSE
    /\ seen' = asked
    /\ WorkerGoes(w, "pass")
    /\ UNCHANGED <<rebinding, cpc, asked, died>>

\* A mutant of PassEnds: the request is cleared after the pass instead of before it.
PassEndsClears(w) ==
    /\ wpc[w] = "pass"
    /\ rebindRequested' = FALSE
    /\ WorkerGoes(w, "check")
    /\ UNCHANGED <<rebinding, cpc, asked, seen, died>>

PassEnds(w) ==
    /\ wpc[w] = "pass"
    /\ WorkerGoes(w, "check")
    /\ UNCHANGED <<rebindRequested, rebinding, cpc, asked, seen, died>>

\* catch (t: Throwable): the slot is given up with no second look.
PassThrows(w) ==
    /\ wpc[w] = "pass"
    /\ rebinding' = FALSE /\ died' = TRUE
    /\ WorkerGoes(w, "idle")
    /\ UNCHANGED <<rebindRequested, cpc, asked, seen>>

\* A mutant of Release: the worker ends without looking once more.
ReleaseEnds(w) ==
    /\ wpc[w] = "release"
    /\ rebinding' = FALSE
    /\ WorkerGoes(w, "idle")
    /\ UNCHANGED <<rebindRequested, cpc, asked, seen, died>>

\* rebinding.set(false)
Release(w) ==
    /\ wpc[w] = "release"
    /\ rebinding' = FALSE
    /\ WorkerGoes(w, "recheck")
    /\ UNCHANGED <<rebindRequested, cpc, asked, seen, died>>

Recheck(w) ==
    /\ wpc[w] = "recheck"
    /\ WorkerGoes(w, IF rebindRequested THEN "retake" ELSE "idle")
    /\ UNCHANGED <<rebindRequested, rebinding, cpc, asked, seen, died>>

\* A mutant of Retake: the slot is set, not compared and set.
RetakeSets(w) ==
    /\ wpc[w] = "retake"
    /\ rebinding' = TRUE
    /\ WorkerGoes(w, "check")
    /\ UNCHANGED <<rebindRequested, cpc, asked, seen, died>>

\* rebinding.compareAndSet(false, true) again: on, or another worker has it.
Retake(w) ==
    /\ wpc[w] = "retake"
    /\ rebinding' = TRUE
    /\ WorkerGoes(w, IF rebinding THEN "idle" ELSE "check")
    /\ UNCHANGED <<rebindRequested, cpc, asked, seen, died>>

WorkerStep(w) ==
    Check(w) \/ Settle(w) \/ PassEnds(w) \/ PassThrows(w) \/ Release(w) \/ Recheck(w) \/ Retake(w)

QueueNext ==
    \/ \E c \in Callers : Request(c) \/ Take(c)
    \/ \E w \in Workers : WorkerStep(w)

QueueSpec == QueueInit /\ [][QueueNext]_queueVars

\* Every thread that can run does; nobody owes a request.
FairQueueSpec ==
    /\ QueueSpec
    /\ \A c \in Callers : WF_queueVars(Take(c))
    /\ \A w \in Workers : WF_queueVars(WorkerStep(w))

-----------------------------------------------------------------------------
\* The flags, the program counters and the counts are of their types.
QueueTypeOK ==
    /\ rebindRequested \in BOOLEAN /\ rebinding \in BOOLEAN /\ died \in BOOLEAN
    /\ cpc \in [Callers -> {"idle", "take"}]
    /\ wpc \in [Workers -> {"idle", "check", "settle", "pass", "release", "recheck", "retake"}]
    /\ asked \in Nat /\ seen \in 0..asked

\* The statements a worker reaches only while the slot is its own.
Holds(w) == wpc[w] \in {"check", "settle", "pass", "release"}

\* Two passes never run at once, though the worker that gave the slot up and one that
\* a new request started may both be alive: rebindOnce is not written for two threads.
PassesSerialized ==
    \A v, w \in Workers : wpc[v] = "pass" /\ wpc[w] = "pass" => v = w

AtRest == (\A c \in Callers : cpc[c] = "idle") /\ (\A w \in Workers : wpc[w] = "idle")

\* No request is lost between the worker's last look and its giving the slot up: with
\* no thread left, a pass has begun after the last request (unless a pass threw).
LastRequestServed == AtRest /\ ~died => seen = asked

\* Every request is followed by a pass that begins after it, unless a pass throws.
RequestServed ==
    \A n \in 1..MaxRequests : asked >= n ~> seen >= n \/ died
=============================================================================
