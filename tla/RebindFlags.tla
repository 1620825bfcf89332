----------------------------- MODULE RebindFlags -----------------------------
(* The two flags of FipsVpnService.kt that rebindNode's callers and its worker *)
(* share; VpnService and RebindQueue look at them at different detail.         *)

VARIABLES
    rebindRequested,    \* a pass is asked for
    rebinding           \* the worker's slot is taken

=============================================================================
