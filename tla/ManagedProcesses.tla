-------------------------- MODULE ManagedProcesses --------------------------
(***************************************************************************)
(* The processes the bridge starts beside itself: the adapter and the MCP  *)
(* server (author_mcp_manager.py) and the tunnel client                    *)
(* (secure_tunnel_manager.py).  A bridge that crashed leaves them behind;  *)
(* the next one recycles what it can prove to be an orphan of its own, and *)
(* nothing else.  Another bridge may run in another Windows session.       *)
(*                                                                         *)
(* A process is a pid, which the system uses again, and a creation time.   *)
(***************************************************************************)
EXTENDS Naturals, FiniteSets

CONSTANTS
    Pids, MaxBirths,   \* processes ever created
    MaxBoots,          \* bridges ever started in this session
    OthersStart        \* the kinds that a bridge of another session starts meanwhile

VARIABLES
    table,        \* pid -> the process under it
    births,       \* creation times given out
    port,         \* kind -> pid that listens on its port, or NoPid
    boots,        \* bridges started
    other,        \* whether a bridge of another session is alive
    pc,           \* where this bridge is in BridgeRuntime.start
    found,        \* what it found out about the processes to recycle
    own,          \* kind -> the process it started
    managed,      \* managers that told they manage what runs
    stopped       \* what was recycled last, by which manager, and what it had seen of it

vars == <<table, births, port, boots, other, pc, found, own, managed, stopped>>

NoPid == 0
Stack == {"adapter", "mcp"}
Kinds == Stack \cup {"tunnel"}
Others == MaxBoots + 1               \* the owner in another session
Free == [kind |-> "none", owner |-> 0, created |-> 0, named |-> FALSE]

Alive(pid) == table[pid].kind # "none"
Online(kind) == port[kind] # NoPid
Live(owner) == (owner = boots /\ pc # "off") \/ (owner = Others /\ other)
\* Faulty variant: whatever runs under the pid.
IsAny(pid, created) == Alive(pid)
Is(pid, created) == Alive(pid) /\ table[pid].created = created

\* What was there before: nothing, or processes of a bridge of another session
\* or of an older version, whose tunnel was started with --profile.
Init ==
    /\ boots = 0 /\ pc = "off" /\ births = 1 /\ stopped = {}
    /\ found = {} /\ own = [k \in Kinds |-> [pid |-> NoPid, created |-> 0]] /\ managed = {}
    /\ \E kind \in {"adapter", "tunnel", "foreign"}, alive \in BOOLEAN, pid \in Pids :
          /\ pid = CHOOSE p \in Pids : TRUE
          /\ other = alive
          /\ table = [p \in Pids |-> IF p = pid
                THEN [kind |-> kind, owner |-> Others, created |-> 1, named |-> TRUE] ELSE Free]
          /\ \E k \in Kinds : /\ kind = "foreign" \/ k = kind
                              /\ port = [q \in Kinds |-> IF q = k THEN pid ELSE NoPid]

-----------------------------------------------------------------------------
\* What a manager remembers of a process, and whether it could read all there was
\* to read.  The tunnel's manager keeps only the pid: the rest is history there.
Seen(kind, pid, created, read) == [kind |-> kind, pid |-> pid, created |-> created, read |-> read]
\* pid is recycled, which was seen as f.
Stops(by, f) ==
    stopped' =
        {[by |-> by, process |-> table[f.pid], same |-> Is(f.pid, f.created), read |-> f.read]}

\* The system.
Processes == <<table, births, port>>
Bridge == <<boots, pc, found, own, managed, stopped>>

Freed(pids) == [p \in Pids |-> IF p \in pids THEN Free ELSE table[p]]
Closed(pids) == [k \in Kinds |-> IF port[k] \in pids THEN NoPid ELSE port[k]]
Ends(pids) == table' = Freed(pids) /\ port' = Closed(pids)

\* A process comes to listen; one that finds its port taken ends, as any may.
Listen(pid) ==
    /\ table[pid].kind \in Kinds /\ port[table[pid].kind] = NoPid
    /\ port' = [port EXCEPT ![table[pid].kind] = pid]
    /\ UNCHANGED <<table, births, other>> /\ UNCHANGED Bridge

Dies(pid) ==
    /\ Alive(pid) /\ Ends({pid})
    /\ UNCHANGED <<births, other>> /\ UNCHANGED Bridge

\* A process of somebody else gets a pid, or one that the other bridge starts.
Appears(pid) ==
    /\ ~Alive(pid) /\ births < MaxBirths /\ births' = births + 1
    /\ \E kind \in OthersStart \cup {"foreign"} :
          /\ kind # "foreign" => other
          /\ table' = [table EXCEPT ![pid] =
                [kind |-> kind, owner |-> IF kind = "foreign" THEN 0 ELSE Others,
                 created |-> births + 1, named |-> kind # "foreign"]]
    /\ UNCHANGED <<port, other>> /\ UNCHANGED Bridge

OtherEnds == other /\ other' = FALSE /\ UNCHANGED Processes /\ UNCHANGED Bridge

System == OtherEnds \/ \E pid \in Pids : Listen(pid) \/ Dies(pid) \/ Appears(pid)

-----------------------------------------------------------------------------
\* This bridge.
Still == UNCHANGED <<Processes, other, boots, own, managed, stopped>>
From(place) == pc = place
Goes(place) == pc' = place

Boot ==
    /\ From("off") /\ boots < MaxBoots /\ boots' = boots + 1
    /\ Goes("probe") /\ found' = {}
    /\ own' = [k \in Kinds |-> [pid |-> NoPid, created |-> 0]] /\ managed' = {}
    /\ UNCHANGED <<Processes, other, stopped>>

\* AuthorMCPManager.start: the probe of the ports.
Probe ==
    /\ From("probe")
    /\ IF \E k \in Stack : Online(k)
       THEN Goes("match") /\ found' = {Seen(k, NoPid, 0, FALSE) : k \in {q \in Stack : Online(q)}}
       ELSE Goes("spawn adapter") /\ UNCHANGED found
    /\ Still

\* _matching_stack_processes and the checks of _recycle_inherited_stack: every
\* port that answered has a process with our command line, and none of these
\* processes has an ancestor that is a live bridge, or one that cannot be read.
\* A process whose own command line cannot be read is passed over.
Match ==
    /\ From("match")
    /\ \E candidates \in SUBSET {p \in Pids : table[p].kind \in Stack} :
        \/ /\ \A f \in found : \E p \in candidates : table[p].kind = f.kind
           /\ \A p \in candidates : ~Live(table[p].owner)
           /\ found' = {Seen(table[p].kind, p, table[p].created, TRUE) : p \in candidates}
           /\ Goes("verify")
        \/ /\ \/ \E f \in found : \A p \in candidates : table[p].kind # f.kind
              \/ candidates # {}      \* a live owner, or an identity that is not verifiable
           /\ found' = {} /\ Goes("tunnel")
    /\ Still

\* _terminate_pids: all identities before any process is stopped.
Verify ==
    /\ From("verify")
    /\ IF \A f \in found : Is(f.pid, f.created)
       THEN Goes("recycle") /\ UNCHANGED found
       ELSE Goes("tunnel") /\ found' = {}
    /\ Still

\* psutil checks the identity once more; a process that is gone raises
\* NoSuchProcess, which nothing up to BridgeRuntime.start handles.
Recycle ==
    /\ From("recycle")
    /\ IF found = {} THEN Goes("await offline") /\ UNCHANGED <<table, port, found, stopped>>
       ELSE \E f \in found :
              IF Is(f.pid, f.created)
              THEN Ends({f.pid}) /\ Stops("stack", f) /\ found' = found \ {f} /\ UNCHANGED pc
              ELSE Goes("down") /\ found' = {} /\ UNCHANGED <<table, port, stopped>>
    /\ UNCHANGED <<births, other, boots, own, managed>>

AwaitOffline ==
    /\ From("await offline")
    /\ \/ ~(\E k \in Stack : Online(k)) /\ Goes("spawn adapter")
       \/ (\E k \in Stack : Online(k)) /\ Goes("tunnel")      \* after 6 seconds
    /\ UNCHANGED found /\ Still

\* Popen, in the order adapter, MCP server, tunnel.
Spawn(kind, place, next) ==
    /\ From(place) /\ births < MaxBirths /\ births' = births + 1
    /\ \E pid \in Pids :
          /\ ~Alive(pid)
          /\ table' = [table EXCEPT ![pid] =
                [kind |-> kind, owner |-> boots, created |-> births + 1, named |-> FALSE]]
          /\ own' = [own EXCEPT ![kind] = [pid |-> pid, created |-> births + 1]]
    /\ Goes(next)
    /\ UNCHANGED <<port, other, boots, found, managed, stopped>>

SpawnAdapter == Spawn("adapter", "spawn adapter", "await adapter")
SpawnMcp == Spawn("mcp", "spawn mcp", "await mcp")
SpawnTunnel == Spawn("tunnel", "spawn tunnel", "await tunnel")

Runs(kind) == own[kind].pid # NoPid /\ Is(own[kind].pid, own[kind].created)
Terminates(kinds) == Ends({own[k].pid : k \in {q \in kinds : Runs(q)}})
Forgotten(kinds) == [k \in Kinds |-> IF k \in kinds THEN [pid |-> NoPid, created |-> 0] ELSE own[k]]

\* The port answers, whoever listens on it, or the wait times out and what was
\* started is stopped.
Await(kinds, place, answers, told, next, otherwise) ==
    /\ From(place)
    /\ \/ /\ answers /\ Goes(next) /\ managed' = managed \cup told
          /\ UNCHANGED <<table, port, own>>
       \/ /\ Goes(otherwise) /\ managed' = managed \ {"stack", "tunnel"}
          /\ Terminates(kinds) /\ own' = Forgotten(kinds)
    /\ UNCHANGED <<births, other, boots, found, stopped>>

AwaitAdapter == Await(Stack, "await adapter", Online("adapter"), {}, "spawn mcp", "tunnel")
AwaitMcp == Await(Stack, "await mcp", Online("mcp"), {"stack"}, "tunnel", "tunnel")

\* SecureTunnelManager.start: the listener of the health port, then its command
\* line; only a client that was started with --profile is known as ours.
Tunnel ==
    /\ From("tunnel")
    /\ IF Online("tunnel")
       THEN Goes("inspect") /\ found' = {Seen("tunnel", port["tunnel"], 0, FALSE)}
       ELSE Goes("spawn tunnel") /\ found' = {}
    /\ Still

\* _existing_tunnel_info: a client that cannot be read is not recognised; an
\* ancestor that cannot be read ends the search as if no live bridge were above.
Inspect(read, above) ==
    /\ From("inspect")
    /\ \A f \in found :
          LET client == table[f.pid] IN
          IF read /\ client.kind = "tunnel" /\ client.named /\ ~(above /\ Live(client.owner))
          THEN Goes("recycle tunnel") /\ found' = {Seen("tunnel", f.pid, client.created, above)}
          ELSE Goes("up") /\ found' = {}
    /\ Still

\* _terminate_pid: whatever has the pid by now, unless the system refuses.
RecycleTunnel ==
    /\ From("recycle tunnel")
    /\ \A f \in found :
          \/ Alive(f.pid) /\ Ends({f.pid}) /\ Stops("tunnel", f) /\ Goes("await health")
          \/ UNCHANGED <<table, port, stopped>> /\ Goes("up")
    /\ found' = {}
    /\ UNCHANGED <<births, other, boots, own, managed>>

AwaitHealth ==
    /\ From("await health")
    /\ Goes(IF Online("tunnel") THEN "up" ELSE "spawn tunnel")
    /\ UNCHANGED found /\ Still

AwaitTunnel == Await({"tunnel"}, "await tunnel", Online("tunnel") /\ Runs("tunnel"), {"tunnel"}, "up", "up")

\* BridgeRuntime.stop, also after a start that raised.
Stop ==
    /\ pc \in {"up", "down"}
    /\ Terminates(Kinds) /\ own' = Forgotten(Kinds) /\ managed' = {} /\ Goes("off")
    /\ UNCHANGED <<births, other, boots, found, stopped>>

Crash ==
    /\ pc \notin {"off", "down"}
    /\ Goes("off") /\ found' = {} /\ own' = Forgotten(Kinds) /\ managed' = {}
    /\ UNCHANGED <<Processes, other, boots, stopped>>

Start ==
    \/ Probe \/ Match \/ Verify \/ Recycle \/ AwaitOffline
    \/ SpawnAdapter \/ AwaitAdapter \/ SpawnMcp \/ AwaitMcp
    \/ Tunnel \/ (\E read, above \in BOOLEAN : Inspect(read, above)) \/ RecycleTunnel \/ AwaitHealth \/ SpawnTunnel \/ AwaitTunnel

Next == System \/ Boot \/ Start \/ Stop \/ Crash

Spec == Init /\ [][Next]_vars

-----------------------------------------------------------------------------
TypeOK ==
    /\ \A p \in Pids : table[p].kind \in Kinds \cup {"none", "foreign"} /\ table[p].created \in 0..MaxBirths
    /\ \A k \in Kinds : port[k] = NoPid \/ (port[k] \in Pids /\ Alive(port[k]))
    /\ boots \in 0..MaxBoots /\ births \in 0..MaxBirths

\* What the manager of the stack stops is an adapter or MCP server that no living
\* bridge owns, though pids are used again while it looks.  That of the tunnel
\* stops nothing of its own bridge, and of another that lives only what it took
\* for an orphan because an ancestor could not be read, or what got the pid after
\* it looked (it keeps no creation time).  A running bridge knows every process
\* it started: no failed start leaves one.
OnlyOrphansAreStopped ==
    /\ \A s \in stopped : Live(s.process.owner) =>
          s.by = "tunnel" /\ s.process.owner = Others /\ ~(s.same /\ s.read)
    /\ \A s \in stopped :
          /\ s.by = "stack" => s.process.kind \in Stack
          /\ s.by = "tunnel" /\ s.same => s.process.kind = "tunnel" /\ s.process.named
    /\ \A p \in Pids : table[p].owner = boots /\ boots > 0 /\ pc # "off" =>
          own[table[p].kind] = [pid |-> p, created |-> table[p].created]

\* "test_orphan_tunnel_is_recycled": a tunnel client that a bridge of this
\* version left behind does not keep the next bridge from starting its own, if
\* it can be read.
OrphanTunnelIsRecycled ==
    [][Inspect(TRUE, TRUE) /\ Goes("up") => \A f \in found :
          table[f.pid].kind = "tunnel" => Live(table[f.pid].owner)]_vars

\* "test_live_codebridge_owner_is_never_killed": the tunnel of a bridge that lives
\* is not stopped, whatever the manager could read.
LiveOwnerIsNeverKilled == \A s \in stopped : ~Live(s.process.owner)
=============================================================================
