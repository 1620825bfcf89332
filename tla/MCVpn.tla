-------------------------------- MODULE MCVpn --------------------------------
(* Small instances of VpnService.                                          *)
EXTENDS VpnService

AnyFailure == {"establish", "start", "identity"}
Scenario(name, c, d, f, s, failures) ==
    [name |-> name, connects |-> c, disconnects |-> d, flips |-> f, settings |-> s,
     failures |-> failures]

\* One session that nobody disconnects, through settings changes and network flips; a
\* connect that is cancelled or fails, with nothing to rebind for; and two sessions with
\* failures, one with a rebind and one with a second disconnect.
SessionScenarios ==
    {Scenario("steady", 1, 0, 2, 2, {}),
     Scenario("cancelled", 1, 2, 0, 0, AnyFailure),
     Scenario("mixed", 2, 1, 1, 0, AnyFailure),
     Scenario("mixed", 2, 2, 0, 0, {"start"})}

\* A disconnect and a reconnect; a burst of network callbacks.
ReconnectScenario == {Scenario("reconnect", 2, 1, 0, 0, {})}
BurstScenario == {Scenario("burst", 1, 0, 2, 0, {})}
=============================================================================
