---------------------------- MODULE MCCommandPaths ----------------------------
(* CommandPaths on small instances. *)
EXTENDS CommandPaths, TLC

CONSTANTS cmd, p1, p2, j1
OneTerminal == [r \in Requests |-> cmd]

With(commands, events) == [commands |-> commands, events |-> events]
Surroundings ==
    {With({p1, p2}, {"restart", "raise"}),
     With({j1}, {"restart"}),
     With({p1, j1}, {"restart"}),
     With({p1, j1}, {"discard"}),
     With({p1}, {"snapshot", "raise"}),
     With({p1}, {"force_stop", "session_loss"}),
     With({j1}, {"cancel", "snapshot"})}
BothPaths == {With({p1, j1}, {})}
=============================================================================
