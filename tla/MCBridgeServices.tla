--------------------------- MODULE MCBridgeServices ---------------------------
(* The services around the runtime on small instances.  They share no state   *)
(* with each other: a behaviour is one of a single service, the part, while   *)
(* the others rest in an initial state.                                       *)
EXTENDS Naturals, Sequences, FiniteSets, TLC

CONSTANTS
    Readers, MaxPieces, UnitsOfPiece, ReadSize, MaxFinal, MaxFailures, MaxOthers,   \* CommandOutput
    Callers, Askers, Tabs, MaxTurns, MaxAsks, MaxEvents,                  \* TurnTimer
    Threads, MaxInstances, MaxRequests, MaxIdle,                          \* RuntimeConnection
    Pids, MaxBirths, MaxBoots, OthersStart,                               \* ManagedProcesses
    MaxCommands, MaxInterrupts                                            \* ControlChannel

ASSUME BoundsAssumption ==
    /\ UnitsOfPiece \in Nat \ {0} /\ ReadSize \in Nat \ {0} /\ MaxFinal \in Nat \ {0}
    /\ MaxTurns \in Nat
    /\ MaxInstances \in Nat \ {0} /\ MaxRequests \in Nat /\ MaxIdle \in Nat
    /\ Pids \subseteq Nat \ {0} /\ Pids # {} /\ MaxBirths \in Nat \ {0} /\ MaxBoots \in Nat
    /\ OthersStart \subseteq {"adapter", "mcp", "tunnel"}
    /\ MaxCommands \in Nat

VARIABLES
    part,      \* the service whose behaviour it is
    store, printed, chunks, row, generation, worker, failures, others, follower,
    turn, manual, turns, asks, notified, endings, caller, page, events, posted, lost,
    instance, alive, file, cached, loader, requests, connections, doubled, idle,
    table, births, port, boots, other, pc, found, own, managed, stopped,
    thread, pipe, toServer, toShell, got, handled, stop, ready, failed, shell, answer,
    sent, started, closer, begun, interrupts

Output     == INSTANCE CommandOutput
Turn       == INSTANCE TurnTimer
Connection == INSTANCE RuntimeConnection
Processes  == INSTANCE ManagedProcesses
Channel    == INSTANCE ControlChannel

output     == <<store, printed, chunks, row, generation, worker, failures, others, follower>>
timer      == <<turn, manual, turns, asks, notified, endings, caller, page, events, posted, lost>>
connection == <<instance, alive, file, cached, loader, requests, connections, doubled, idle>>
processes  == <<table, births, port, boots, other, pc, found, own, managed, stopped>>
channel    == <<thread, pipe, toServer, toShell, got, handled, stop, ready, failed, shell, answer,
                sent, started, closer, begun, interrupts>>
vars       == <<part, output, timer, connection, processes, channel>>

\* The parts that rest stay in one of their initial states.
Init ==
    /\ part \in {"output", "turn", "connection", "processes", "channel"}
    /\ Output!Init /\ Turn!Init /\ Connection!Init /\ Processes!Init /\ Channel!ChannelInit
    /\ part # "output" => store = "v2"
    /\ part # "processes" => port["tunnel"] # 0 /\ other /\ table[port["tunnel"]].kind # "foreign"

Next ==
    /\ UNCHANGED part
    /\ \/ /\ part = "output" /\ Output!Next
          /\ UNCHANGED <<timer, connection, processes, channel>>
       \/ /\ part = "turn" /\ Turn!Next
          /\ UNCHANGED <<output, connection, processes, channel>>
       \/ /\ part = "connection" /\ Connection!Next
          /\ UNCHANGED <<output, timer, processes, channel>>
       \/ /\ part = "processes" /\ Processes!Next
          /\ UNCHANGED <<output, timer, connection, channel>>
       \/ /\ part = "channel" /\ Channel!ChannelNext
          /\ UNCHANGED <<output, timer, connection, processes>>

\* The thread of a command and its readers go on, the content script of a page
\* looks again every second, a post arrives unless it is lost, and the thread
\* of the channel goes on.
Fairness ==
    /\ WF_output(part = "output" /\ Output!WorkerGoesOn)
    /\ \A r \in Readers : WF_output(part = "output" /\ Output!Follow(r))
    /\ \A t \in Tabs : WF_timer(part = "turn" /\ Turn!Extension(t))
    /\ \A a \in Turn!Actions : WF_timer(part = "turn" /\ Turn!Deliver(a))
    /\ WF_channel(part = "channel" /\ Channel!ThreadGoesOn)

FairSpec == Init /\ [][Next]_vars /\ Fairness

-----------------------------------------------------------------------------
\* Followers of a command's output read all of it that is stored and nothing
\* twice, although writes fail and the store changes between two reads, and what
\* FINISHED has stored it, but for what the external store caps.
NothingIsLost == part = "output" => Output!TypeOK /\ Output!NothingIsLost

\* New work is refused or admitted by what was true during the question, and a
\* turn ends once, however many pages and posts report an end.
GateIsTimely == part = "turn" => Turn!TypeOK /\ Turn!GateIsTimely

\* A client's request reaches the bridge that wrote runtime.json, over a
\* connection of its own, although bridges are replaced meanwhile.
CallsReachTheBridge == part = "connection" => Connection!TypeOK /\ Connection!CallsReachTheBridge

\* Recycling stops no process of a bridge that lives, except that the manager of
\* the tunnel may be misled about a bridge of another session by an ancestor it
\* cannot read or a pid that is used again, and a failed start leaves none behind.
OnlyOrphansAreStopped == part = "processes" => Processes!TypeOK /\ Processes!OnlyOrphansAreStopped

\* The control pipe hands on whole messages, and a command begins on the
\* channel's answer to its own announcement.
ChannelKeepsInStep ==
    part = "channel" =>
        Channel!ChannelTypeOK /\ Channel!StartsOnItsOwnAnswer /\ Channel!MessagesAreWhole

\* A follower that waits is woken when there is something to read; the turn ends
\* when the page it belongs to stops generating; and a closed session leaves no
\* thread of the control pipe behind.
ServicesGoOn == Output!WaitersAreServed /\ Turn!TurnEndsWithPage /\ Channel!ThreadEndsWithShell
=============================================================================
