------------------------------ MODULE HostsSync ------------------------------
(***************************************************************************)
(* Mesh names sync (HostsSync.kt): the main thread saves configurations,   *)
(* connects and disconnects; one worker thread runs what is scheduled,     *)
(* fetching the names of an upstream node into a block of the hosts file   *)
(* or, when the sync is off, removing the block.  At most one run is       *)
(* pending: every schedule() cancels the one before it, which does not     *)
(* stop a run that has begun.                                              *)
(*                                                                         *)
(* The names of an upstream are abstracted to whose they are.  Delays are  *)
(* not modelled: a pending run begins some time.                           *)
(***************************************************************************)
EXTENDS Naturals

CONSTANTS
    Upstreams,     \* nodes to sync from
    MaxSaves,      \* bound: configurations saved
    MaxConnects    \* bound: connects

VARIABLES
    cfg,           \* the preferences: on, and from whom
    generation,    \* bumped by every save
    main,          \* the main thread inside save(), with what it saves
    pending,       \* a run is scheduled and has not begun
    tunnelActive, engineUp,
    run,           \* the worker: its statement and locals
    block,         \* whose names the hosts file's block holds
    connects

vars == <<cfg, generation, main, pending, tunnelActive, engineUp, run, block, connects>>

None == "none"
Configs == [on : BOOLEAN, from : Upstreams]
NoRun == [pc |-> "idle", cfg |-> <<>>, gen |-> 0]
NoSave == [pc |-> "idle", cfg |-> <<>>]

Init ==
    /\ cfg \in {c \in Configs : ~c.on} /\ generation = 0 /\ main = NoSave
    /\ pending = FALSE /\ tunnelActive = FALSE /\ engineUp = FALSE
    /\ run = NoRun /\ block = None /\ connects = 0

-----------------------------------------------------------------------------
(* The main thread.                                                        *)

\* save: the generation first, then the preferences, then the run that applies them.
SaveBump ==
    /\ main.pc = "idle" /\ generation < MaxSaves
    /\ \E c \in Configs : main' = [pc |-> "prefs", cfg |-> c]
    /\ generation' = generation + 1
    /\ UNCHANGED <<cfg, pending, tunnelActive, engineUp, run, block, connects>>

SavePrefs ==
    /\ main.pc = "prefs"
    /\ cfg' = main.cfg /\ main' = [main EXCEPT !.pc = "schedule"]
    /\ UNCHANGED <<generation, pending, tunnelActive, engineUp, run, block, connects>>

SaveSchedule ==
    /\ main.pc = "schedule"
    /\ pending' = TRUE /\ main' = NoSave
    /\ UNCHANGED <<cfg, generation, tunnelActive, engineUp, run, block, connects>>

\* "Sync now".
SyncNow ==
    /\ main.pc = "idle" /\ tunnelActive
    /\ pending' = TRUE
    /\ UNCHANGED <<cfg, generation, main, tunnelActive, engineUp, run, block, connects>>

\* The engine is up: onConnected resumes the schedule of a sync that is on.
Connect ==
    /\ main.pc = "idle" /\ ~tunnelActive /\ connects < MaxConnects
    /\ connects' = connects + 1
    /\ tunnelActive' = TRUE /\ engineUp' = TRUE
    /\ pending' = (pending \/ cfg.on)
    /\ UNCHANGED <<cfg, generation, main, run, block>>

\* shutdown, with onDisconnected: what is pending is cancelled.
Disconnect ==
    /\ main.pc = "idle" /\ tunnelActive
    /\ tunnelActive' = FALSE /\ engineUp' = FALSE /\ pending' = FALSE
    /\ UNCHANGED <<cfg, generation, main, run, block, connects>>

\* A rebind restarts the engine.
Rebind ==
    /\ tunnelActive
    /\ engineUp' = ~engineUp
    /\ UNCHANGED <<cfg, generation, main, pending, tunnelActive, run, block, connects>>

-----------------------------------------------------------------------------
(* The worker.                                                             *)

Rest == <<cfg, generation, main, tunnelActive, engineUp, connects>>

\* A pending run begins by reading the configuration.
RunBegins ==
    /\ run.pc = "idle" /\ pending
    /\ pending' = FALSE
    /\ run' = [pc |-> IF cfg.on THEN "engine" ELSE "remove", cfg |-> cfg, gen |-> 0]
    /\ UNCHANGED <<Rest, block>>

\* removeBlock.
RunRemoves ==
    /\ run.pc = "remove"
    /\ block' = None /\ run' = NoRun
    /\ UNCHANGED <<Rest, pending>>

\* No engine: tried again shortly while there is a session, else on the next connect.
RunEngine ==
    /\ run.pc = "engine"
    /\ IF engineUp
       THEN run' = [run EXCEPT !.pc = "fetch", !.gen = generation]
       ELSE run' = [run EXCEPT !.pc = "again"]
    /\ UNCHANGED <<Rest, pending, block>>

\* The answer, or a failure, up to 20 s later.  A run of an older generation ends here.
RunFetched ==
    /\ run.pc = "fetch"
    /\ IF run.gen # generation THEN run' = NoRun
       ELSE \E next \in {"write", "again"} : run' = [run EXCEPT !.pc = next]
    /\ UNCHANGED <<Rest, pending, block>>

\* saveSynced.
RunWrites ==
    /\ run.pc = "write"
    /\ block' = run.cfg.from /\ run' = [run EXCEPT !.pc = "again"]
    /\ UNCHANGED <<Rest, pending>>

\* Another run follows while there is a session, in place of any pending one; this is
\* looked up before it is scheduled.
RunAgain ==
    /\ run.pc = "again"
    /\ run' = IF tunnelActive THEN [run EXCEPT !.pc = "arm"] ELSE NoRun
    /\ UNCHANGED <<Rest, pending, block>>

RunArms ==
    /\ run.pc = "arm"
    /\ pending' = TRUE /\ run' = NoRun
    /\ UNCHANGED <<Rest, block>>

Main == SavePrefs \/ SaveSchedule
Worker == RunBegins \/ RunRemoves \/ RunEngine \/ RunFetched \/ RunWrites
          \/ RunAgain \/ RunArms
Next == SaveBump \/ Main \/ SyncNow \/ Connect \/ Disconnect \/ Rebind \/ Worker

\* save() runs to its end and the worker runs what is due; nothing else is owed.
Spec == Init /\ [][Next]_vars /\ WF_vars(Main) /\ WF_vars(Worker)

-----------------------------------------------------------------------------
\* "Turning sync off removes the block" (HostsSync.kt:36), and save is to "remove the
\* synced names when off" (HostsSync.kt:117-118): once the sync is off the block
\* goes, or the sync is turned on again.
OffRemovesBlock == main.pc = "idle" /\ ~cfg.on ~> block = None \/ cfg.on
=============================================================================
