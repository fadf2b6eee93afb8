-------------------------- MODULE RuntimeConnection --------------------------
(***************************************************************************)
(* How the processes of author_mcp reach the running bridge: they find its *)
(* host, port and token in runtime.json, through a cache that is keyed by  *)
(* the signature of the file (runtime_client.py), and talk to it over      *)
(* pooled connections (http_pool.py), while the bridge stops and another   *)
(* instance of it starts.                                                  *)
(*                                                                         *)
(* A replaced file has a new signature, so the number of the instance that *)
(* wrote it stands for both its content and its signature.                 *)
(***************************************************************************)
EXTENDS Naturals, Sequences, FiniteSets, SequencesExt

CONSTANTS
    Threads,        \* threads that call the bridge
    MaxInstances,   \* instances of the bridge, one after another
    MaxRequests,    \* requests ever made
    MaxIdle         \* max_idle_per_origin

VARIABLES
    instance,       \* the last instance that was started
    alive,          \* whether it runs
    file,           \* runtime.json: the instance that wrote it, 0 without a file
    cached,         \* _RUNTIME_CACHE_SIGNATURE and _RUNTIME_CACHE_VALUE, 0 for None
    loader,         \* thread -> where it is, what it read
    requests,       \* requests made
    connections,    \* connection -> its instance, the request on it, its answer
    doubled,        \* the file was replaced twice during one load
    idle            \* instance (the origin) -> the connections that wait, last one on top

vars == <<instance, alive, file, cached, loader, requests, connections, doubled, idle>>

Instances == 1..MaxInstances
Resting == [at |-> "rest", first |-> 0, value |-> 0, final |-> 0,
            files |-> {}, timely |-> TRUE, connection |-> 0, request |-> 0, got |-> 0]
Unused == [instance |-> 0, request |-> 0, answer |-> 0, open |-> FALSE]

Init ==
    /\ instance = 1 /\ alive = TRUE /\ file = 1
    /\ cached = [signature |-> 0, value |-> 0]
    /\ loader = [t \in Threads |-> Resting]
    /\ requests = 0 /\ doubled = FALSE
    /\ connections = [n \in 1..MaxRequests |-> Unused]
    /\ idle = [i \in Instances |-> <<>>]

-----------------------------------------------------------------------------
\* The bridge.  Its clients remember what the file was while they load.
Loading(t) == loader[t].at \in {"cache", "read", "compare", "again", "final", "store"}
Writes(content) ==
    /\ file' = content
    /\ loader' = [t \in Threads |->
          IF Loading(t) THEN [loader[t] EXCEPT !.files = @ \cup {content}] ELSE loader[t]]
    /\ doubled' = (doubled \/ \E t \in Threads : Cardinality(loader'[t].files \ {0}) > 2)

Closed == [n \in DOMAIN connections |->
              [connections[n] EXCEPT !.open = @ /\ connections[n].instance # instance]]

\* BridgeRuntime.stop, or a crash, which leaves the file.
Stop(crashes) ==
    /\ alive /\ alive' = FALSE
    /\ connections' = Closed
    /\ IF crashes THEN UNCHANGED <<file, loader, doubled>> ELSE Writes(0)
    /\ UNCHANGED <<instance, cached, requests, idle>>

\* BridgeRuntime.start and _write_runtime_file, which replaces the file.
Start ==
    /\ ~alive /\ instance < MaxInstances
    /\ alive' = TRUE /\ instance' = instance + 1
    /\ Writes(instance + 1)
    /\ UNCHANGED <<cached, requests, connections, idle>>

\* A request is answered; the server may close the connection after it.
Answer(n) ==
    /\ connections[n].request # 0 /\ connections[n].answer = 0 /\ connections[n].open
    /\ \E open \in BOOLEAN :
          connections' = [connections EXCEPT ![n].answer = connections[n].request, ![n].open = open]
    /\ UNCHANGED <<instance, alive, file, cached, loader, requests, doubled, idle>>

Bridge == (\E crashes \in BOOLEAN : Stop(crashes)) \/ Start \/ \E n \in 1..MaxRequests : Answer(n)

-----------------------------------------------------------------------------
\* _load_runtime.
Keeps == UNCHANGED <<instance, alive, file, requests, connections, doubled, idle>>
At(t, place) == loader[t].at = place
Becomes(t, next) == loader' = [loader EXCEPT ![t] = next]
NoFile(t) == loader' = [loader EXCEPT ![t] = Resting] /\ cached' = [signature |-> 0, value |-> 0]

Loaded(t, value) ==
    [loader[t] EXCEPT !.at = "loaded", !.value = value, !.timely = value \in loader[t].files,
                      !.first = 0, !.final = 0, !.files = {}]

Begin(t) ==
    /\ At(t, "rest") /\ requests < MaxRequests
    /\ IF file = 0 THEN NoFile(t)
       ELSE Becomes(t, [loader[t] EXCEPT !.at = "cache", !.first = file, !.files = {file}])
            /\ UNCHANGED cached
    /\ Keeps

LookUp(t) ==
    /\ At(t, "cache")
    /\ IF cached.value # 0 /\ cached.signature = loader[t].first
       THEN Becomes(t, Loaded(t, cached.value))
       ELSE Becomes(t, [loader[t] EXCEPT !.at = "read"])
    /\ UNCHANGED cached /\ Keeps

Read(t) ==
    /\ loader[t].at \in {"read", "again"}
    /\ IF file = 0 THEN NoFile(t)
       ELSE Becomes(t, [loader[t] EXCEPT !.at = IF @ = "read" THEN "compare" ELSE "final", !.value = file])
            /\ UNCHANGED cached
    /\ Keeps

\* Faulty variant: what was read is kept under whatever signature the file has by then.
ReplacedNever(t) == FALSE
\* The file is another one than the one whose signature was taken.
Replaced(t) == file # loader[t].first

Compare(t) ==
    /\ loader[t].at \in {"compare", "final"}
    /\ IF file = 0 THEN NoFile(t)
       ELSE /\ Becomes(t, [loader[t] EXCEPT !.at = IF @ = "compare" /\ Replaced(t) THEN "again" ELSE "store",
                                          !.final = file])
            /\ UNCHANGED cached
    /\ Keeps

Store(t) ==
    /\ At(t, "store")
    /\ cached' = [signature |-> loader[t].final, value |-> loader[t].value]
    /\ Becomes(t, Loaded(t, loader[t].value))
    /\ Keeps

-----------------------------------------------------------------------------
\* JSONHTTPConnectionPool.request_json.
Settled == UNCHANGED <<instance, alive, file, cached, doubled>>
Key(t) == loader[t].value
Usable(n) == connections[n].open /\ connections[n].answer = 0

\* _acquire: the last connection that was returned; one that is closed, has
\* something to read or has waited too long is closed and the next one tried.
Acquire(t) ==
    /\ At(t, "loaded") /\ idle[Key(t)] # <<>>
    /\ LET n == Last(idle[Key(t)]) IN
        /\ idle' = [idle EXCEPT ![Key(t)] = Front(@)]
        /\ \/ Usable(n) /\ Becomes(t, [loader[t] EXCEPT !.at = "send", !.connection = n]) /\ UNCHANGED connections
           \/ connections' = [connections EXCEPT ![n].open = FALSE] /\ UNCHANGED loader
    /\ UNCHANGED requests /\ Settled

Connect(t) ==
    /\ At(t, "loaded") /\ idle[Key(t)] = <<>> /\ requests < MaxRequests
    /\ requests' = requests + 1
    /\ connections' = [connections EXCEPT ![requests + 1] =
          [Unused EXCEPT !.instance = Key(t), !.open = alive /\ instance = Key(t)]]
    /\ Becomes(t, [loader[t] EXCEPT !.at = "send", !.connection = requests + 1])
    /\ UNCHANGED idle /\ Settled

\* A transport error: the connection is discarded and the error raised.
Fail(t) ==
    /\ loader[t].at \in {"send", "answer"}
    /\ connections' = [connections EXCEPT ![loader[t].connection].open = FALSE]
    /\ loader' = [loader EXCEPT ![t] = Resting]
    /\ UNCHANGED <<requests, idle>> /\ Settled

Send(t) ==
    /\ At(t, "send") /\ connections[loader[t].connection].open
    /\ requests < MaxRequests /\ requests' = requests + 1
    /\ connections' = [connections EXCEPT ![loader[t].connection].request = requests + 1]
    /\ Becomes(t, [loader[t] EXCEPT !.at = "answer", !.request = requests + 1])
    /\ UNCHANGED idle /\ Settled

\* The answer is read; _release keeps the connection unless it will close or
\* enough of them wait.
Receive(t) ==
    /\ At(t, "answer") /\ connections[loader[t].connection].answer # 0
    /\ LET n == loader[t].connection
           keeps == connections[n].open /\ Len(idle[Key(t)]) < MaxIdle IN
        /\ Becomes(t, [loader[t] EXCEPT !.at = "done", !.got = connections[n].answer])
        /\ idle' = IF keeps THEN [idle EXCEPT ![Key(t)] = Append(@, n)] ELSE idle
        /\ connections' = [connections EXCEPT ![n] = [@ EXCEPT !.request = 0, !.answer = 0, !.open = keeps]]
    /\ UNCHANGED requests /\ Settled

Done(t) ==
    /\ At(t, "done") /\ loader' = [loader EXCEPT ![t] = Resting]
    /\ UNCHANGED <<requests, connections, idle>> /\ Settled

Client(t) ==
    \/ Begin(t) \/ LookUp(t) \/ Read(t) \/ Compare(t) \/ Store(t)
    \/ Acquire(t) \/ Connect(t) \/ Fail(t) \/ Send(t) \/ Receive(t) \/ Done(t)

Next == Bridge \/ \E t \in Threads : Client(t)

Spec == Init /\ [][Next]_vars

-----------------------------------------------------------------------------
TypeOK ==
    /\ instance \in Instances /\ alive \in BOOLEAN /\ file \in 0..MaxInstances
    /\ cached.signature \in 0..MaxInstances /\ cached.value \in 0..MaxInstances
    /\ \A i \in Instances : \A k \in DOMAIN idle[i] : connections[idle[i][k]].instance = i

Busy == {t \in Threads : loader[t].at \in {"send", "answer"}}

\* A call reaches the instance that runtime.json named at some moment of its
\* load, whatever other threads left in the cache, unless the file was replaced
\* twice during the load; and what it receives is the answer to its own
\* request: a connection is in one place at a time, and waits with nothing on it.
CallsReachTheBridge ==
    /\ doubled \/ \A t \in Threads : loader[t].timely
    /\ \A t \in Threads : At(t, "done") => loader[t].got = loader[t].request
    /\ \A t, u \in Busy : loader[t].connection = loader[u].connection => t = u
    /\ \A i \in Instances :
          /\ Len(idle[i]) <= MaxIdle /\ IsInjective(idle[i])
          /\ \A k \in DOMAIN idle[i] :
                /\ connections[idle[i][k]].request = 0
                /\ \A t \in Busy : loader[t].connection # idle[i][k]
=============================================================================
