-------------------------------- MODULE MCPump --------------------------------
(* Pump with threads that may hang while everything fails, and with threads *)
(* that are scheduled, a tunnel that may hang up, threads that cannot be    *)
(* created and a node that ends by itself.                                  *)
EXTENDS Pump

PumpScenarios ==
    {[hung |-> TRUE, failures |-> {"write", "spawn", "timeout", "hangup", "node"}],
     [hung |-> FALSE, failures |-> {"hangup", "spawn", "node"}]}
=============================================================================
