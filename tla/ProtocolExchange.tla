---------------------------- MODULE ProtocolExchange ----------------------------
(***************************************************************************)
(* The exchange protocol CBMCP/1 between the MCP server and the runtime:   *)
(* the client's three posts (author_mcp/http_client.py), the adapter and   *)
(* its handler threads (adapter_server.py), its persistent ledger          *)
(* (persistent_ledger.py), and what the runtime does with a call           *)
(* (runtime_client.py, app_rewrite/runtime.py).                            *)
(*                                                                         *)
(* The ledger survives a crash of the adapter; its handlers and the lock   *)
(* of a request do not.  A client that gives up leaves its handler behind, *)
(* and so does a handler whose call to the runtime times out: the call may *)
(* take effect later.  A content stands for an operation with its payload, *)
(* and for the hash of that.                                               *)
(***************************************************************************)
EXTENDS Naturals, FiniteSets

CONSTANTS
    Clients,    \* threads that run ProtocolHTTPClient.exchange
    Handlers,   \* threads of the adapter's HTTP server
    Requests,   \* request identifiers
    NewWork,    \* those blocked at the end of the turn: NEW_WORK_OPERATIONS
    Starts,     \* those among them that the runtime knows by their identifier
    Contents,
    Faults,     \* which failures can happen
    MaxFaults,  \* bound on how often they do
    None

FaultKinds == {"give_up", "crash", "control", "timeout"}

ASSUME HandlersAssumption == IsFiniteSet(Handlers)
ASSUME StartsAssumption == Starts \subseteq NewWork /\ NewWork \subseteq Requests
ASSUME FaultsAssumption == Faults \subseteq FaultKinds /\ MaxFaults \in Nat
ASSUME NoneAssumption ==
    None \notin Clients \cup Handlers \cup Requests \cup Contents \cup {"ok", "failed", "blocked"}

VARIABLES
    state,    \* request -> state of its row
    body,     \* request -> content of its row
    answer,   \* request -> the prepared response
    lock,     \* request -> handler that holds its lock
    hand,     \* handler -> where it stands
    hreq,     \* handler -> its request
    hbody,    \* handler -> the content it was posted
    hres,     \* handler -> the response it was posted, or is about to prepare
    waiter,   \* handler -> client that waits for it
    at,       \* client -> the post of the exchange it is at
    creq,     \* client -> its request
    cbody,    \* client -> its content
    got,      \* client -> response it received
    wrapup,   \* the end of the turn was requested
    stray,    \* request -> calls that reached the runtime, with nobody waiting
    effects,  \* request -> how often the runtime did it
    ran,      \* request -> contents the runtime did
    calls,    \* history: request -> how often a handler called the runtime
    crashes,  \* history: crashes of the adapter
    faults    \* failures so far

ledger   == <<state, body, answer>>
handlers == <<lock, hand, hreq, hbody, hres, waiter>>
clients  == <<at, creq, cbody, got>>
runtime  == <<stray, effects, ran>>
vars     == <<ledger, handlers, clients, wrapup, runtime, calls, crashes, faults>>

Answers == {"ok", "failed", "blocked"}
Posts   == {"request", "response", "ack"}
Working == {"control", "perform", "called", "applied", "prepare"}

\* The columns of a row, by its state.
RowShape(r) ==
    /\ (state[r] = "NONE") <=> (body[r] = None)
    /\ (state[r] \in {"RESPONSE_READY", "RESPONSE_ACKED"}) <=> (answer[r] # None)

TypeOK ==
    /\ \A r \in Requests : RowShape(r)
    /\ state \in [Requests -> {"NONE", "REQUEST_ACKED", "RESPONSE_READY", "RESPONSE_ACKED"}]
    /\ body \in [Requests -> Contents \cup {None}]
    /\ answer \in [Requests -> Answers \cup {None}]
    /\ lock \in [Requests -> Handlers \cup {None}]
    /\ hand \in [Handlers -> Posts \cup Working \cup {"free"}]
    /\ hreq \in [Handlers -> Requests \cup {None}]
    /\ hbody \in [Handlers -> Contents \cup {None}]
    /\ hres \in [Handlers -> Answers \cup {None}]
    /\ waiter \in [Handlers -> Clients \cup {None}]
    /\ at \in [Clients -> Posts \cup {"idle"}]
    /\ creq \in [Clients -> Requests \cup {None}]
    /\ cbody \in [Clients -> Contents \cup {None}]
    /\ got \in [Clients -> Answers \cup {None}]
    /\ wrapup \in BOOLEAN
    /\ stray \in [Requests -> Nat] /\ effects \in [Requests -> Nat]
    /\ ran \in [Requests -> SUBSET Contents]
    /\ calls \in [Requests -> Nat] /\ crashes \in Nat /\ faults \in Nat

Init ==
    /\ state = [r \in Requests |-> "NONE"]
    /\ body = [r \in Requests |-> None]
    /\ answer = [r \in Requests |-> None]
    /\ lock = [r \in Requests |-> None]
    /\ hand = [h \in Handlers |-> "free"]
    /\ hreq = [h \in Handlers |-> None]
    /\ hbody = [h \in Handlers |-> None]
    /\ hres = [h \in Handlers |-> None]
    /\ waiter = [h \in Handlers |-> None]
    /\ at = [c \in Clients |-> "idle"]
    /\ creq = [c \in Clients |-> None]
    /\ cbody = [c \in Clients |-> None]
    /\ got = [c \in Clients |-> None]
    /\ wrapup = FALSE
    /\ stray = [r \in Requests |-> 0] /\ effects = [r \in Requests |-> 0]
    /\ ran = [r \in Requests |-> {}]
    /\ calls = [r \in Requests |-> 0] /\ crashes = 0 /\ faults = 0

Waiting(c) == \E h \in Handlers : waiter[h] = c

\* The thread of a handler ends.
Free(h) ==
    /\ hand' = [hand EXCEPT ![h] = "free"]
    /\ hreq' = [hreq EXCEPT ![h] = None]
    /\ hbody' = [hbody EXCEPT ![h] = None]
    /\ hres' = [hres EXCEPT ![h] = None]
    /\ waiter' = [waiter EXCEPT ![h] = None]

\* The client, if it still waits, goes on to its next post.
Reply(h, next, response) ==
    /\ at' = [c \in Clients |-> IF c = waiter[h] THEN next ELSE at[c]]
    /\ got' = [c \in Clients |-> IF c = waiter[h] THEN response ELSE got[c]]
    /\ UNCHANGED <<creq, cbody>>

Error(h) == Reply(h, "idle", None)

-----------------------------------------------------------------------------
(* The client. *)

\* A new exchange, or one that is repeated; the identifier may have been used
\* for another content.
Begin(c, r, b) ==
    /\ at[c] = "idle"
    /\ at' = [at EXCEPT ![c] = "request"]
    /\ creq' = [creq EXCEPT ![c] = r]
    /\ cbody' = [cbody EXCEPT ![c] = b]
    /\ got' = [got EXCEPT ![c] = None]
    /\ UNCHANGED <<ledger, handlers, wrapup, runtime, calls, crashes, faults>>

\* A post arrives at the adapter, in a thread of its own.
Post(c, h) ==
    /\ at[c] \in Posts /\ ~Waiting(c)
    /\ hand[h] = "free"
    /\ hand' = [hand EXCEPT ![h] = at[c]]
    /\ hreq' = [hreq EXCEPT ![h] = creq[c]]
    /\ hbody' = [hbody EXCEPT ![h] = cbody[c]]
    /\ hres' = [hres EXCEPT ![h] = got[c]]
    /\ waiter' = [waiter EXCEPT ![h] = c]
    /\ UNCHANGED <<ledger, lock, clients, wrapup, runtime, calls, crashes, faults>>

-----------------------------------------------------------------------------
(* The adapter. *)

\* Faulty variant: the latest content counts.
ReceiveRequestLatest(h) ==
    /\ hand[h] = "request"
    /\ state' = [state EXCEPT ![hreq[h]] = IF @ = "NONE" THEN "REQUEST_ACKED" ELSE @]
    /\ body' = [body EXCEPT ![hreq[h]] = hbody[h]]
    /\ Reply(h, "response", None)
    /\ Free(h)
    /\ UNCHANGED <<answer, lock, wrapup, runtime, calls, crashes, faults>>

ReceiveRequest(h) ==
    /\ hand[h] = "request"
    /\ LET r == hreq[h] IN
         IF state[r] = "NONE"
           THEN /\ state' = [state EXCEPT ![r] = "REQUEST_ACKED"]
                /\ body' = [body EXCEPT ![r] = hbody[h]]
                /\ Reply(h, "response", None)
           ELSE /\ UNCHANGED <<state, body>>
                /\ IF body[r] = hbody[h] THEN Reply(h, "response", None) ELSE Error(h)
    /\ Free(h)
    /\ UNCHANGED <<answer, lock, wrapup, runtime, calls, crashes, faults>>

\* response_syn: under the lock of the request, an answer that is there already.
AnswerAgain(h) ==
    /\ hand[h] = "response"
    /\ LET r == hreq[h] IN
         /\ lock[r] = None
         /\ answer[r] # None
         /\ Reply(h, "ack", answer[r])
    /\ Free(h)
    /\ UNCHANGED <<ledger, lock, wrapup, runtime, calls, crashes, faults>>

\* Faulty variant: the lock of the request is not waited for.
TakeRequestUnlocked(h) ==
    /\ hand[h] = "response"
    /\ answer[hreq[h]] = None
    /\ lock' = [lock EXCEPT ![hreq[h]] = h]
    /\ hand' = [hand EXCEPT ![h] = "control"]
    /\ UNCHANGED <<ledger, hreq, hbody, hres, waiter, clients, wrapup, runtime, calls,
                   crashes, faults>>

TakeRequest(h) ==
    /\ hand[h] = "response"
    /\ lock[hreq[h]] = None
    /\ answer[hreq[h]] = None
    /\ lock' = [lock EXCEPT ![hreq[h]] = h]
    /\ hand' = [hand EXCEPT ![h] = "control"]
    /\ UNCHANGED <<ledger, hreq, hbody, hres, waiter, clients, wrapup, runtime, calls,
                   crashes, faults>>

Conclude(h, result) ==
    /\ hand' = [hand EXCEPT ![h] = "prepare"]
    /\ hres' = [hres EXCEPT ![h] = result]

\* Faulty variant: new work is blocked only after the runtime was called.
ReadControlLate(h) ==
    /\ hand[h] = "applied"
    /\ Conclude(h, IF wrapup /\ hreq[h] \in NewWork THEN "blocked" ELSE "ok")
    /\ UNCHANGED <<ledger, lock, hreq, hbody, waiter, clients, wrapup, runtime, calls,
                   crashes, faults>>

\* codebridge_turn_control: new work is blocked once the turn is to end.
ReadControl(h) ==
    /\ hand[h] = "control"
    /\ IF wrapup /\ hreq[h] \in NewWork
         THEN Conclude(h, "blocked")
         ELSE hand' = [hand EXCEPT ![h] = "perform"] /\ UNCHANGED hres
    /\ UNCHANGED <<ledger, lock, hreq, hbody, waiter, clients, wrapup, runtime, calls,
                   crashes, faults>>

\* The operation: a call to the runtime.
Perform(h) ==
    /\ hand[h] = "perform"
    /\ hand' = [hand EXCEPT ![h] = "called"]
    /\ calls' = [calls EXCEPT ![hreq[h]] = @ + 1]
    /\ UNCHANGED <<ledger, lock, hreq, hbody, hres, waiter, clients, wrapup, runtime,
                   crashes, faults>>

CallReturns(h) ==
    /\ hand[h] = "applied"
    /\ Conclude(h, "ok")
    /\ UNCHANGED <<ledger, lock, hreq, hbody, waiter, clients, wrapup, runtime, calls,
                   crashes, faults>>

\* Faulty variant: the lock is not released.
PrepareKeepsLock(h) ==
    /\ hand[h] = "prepare"
    /\ LET r == hreq[h] IN
         /\ state' = [state EXCEPT ![r] = "RESPONSE_READY"]
         /\ answer' = [answer EXCEPT ![r] = hres[h]]
    /\ Reply(h, "ack", hres[h])
    /\ Free(h)
    /\ UNCHANGED <<body, lock, wrapup, runtime, calls, crashes, faults>>

\* Faulty variant: the answer is not stored.
PrepareForgets(h) ==
    /\ hand[h] = "prepare"
    /\ state' = [state EXCEPT ![hreq[h]] = "RESPONSE_READY"]
    /\ lock' = [lock EXCEPT ![hreq[h]] = None]
    /\ Reply(h, "ack", hres[h])
    /\ Free(h)
    /\ UNCHANGED <<body, answer, wrapup, runtime, calls, crashes, faults>>

\* prepare_response, and the lock of the request is released.
PrepareResponse(h) ==
    /\ hand[h] = "prepare"
    /\ LET r == hreq[h] IN
         /\ IF answer[r] = None
              THEN /\ state' = [state EXCEPT ![r] = "RESPONSE_READY"]
                   /\ answer' = [answer EXCEPT ![r] = hres[h]]
                   /\ Reply(h, "ack", hres[h])
              ELSE /\ UNCHANGED <<state, answer>>
                   /\ IF answer[r] = hres[h] THEN Reply(h, "ack", hres[h]) ELSE Error(h)
         /\ lock' = [lock EXCEPT ![r] = None]
    /\ Free(h)
    /\ UNCHANGED <<body, wrapup, runtime, calls, crashes, faults>>

\* receive_response_ack: the answer that is acknowledged is the one prepared.
ReceiveAck(h) ==
    /\ hand[h] = "ack"
    /\ LET r == hreq[h] IN
         IF answer[r] # None /\ hres[h] = answer[r]
           THEN /\ state' = [state EXCEPT ![r] = "RESPONSE_ACKED"]
                /\ Reply(h, "idle", answer[r])
           ELSE UNCHANGED state /\ Error(h)
    /\ Free(h)
    /\ UNCHANGED <<body, answer, lock, wrapup, runtime, calls, crashes, faults>>

-----------------------------------------------------------------------------
(* The runtime. *)

\* Faulty variant: a start is not looked up by its request.
EffectAnew(r) ==
    /\ effects' = [effects EXCEPT ![r] = @ + 1]
    /\ ran' = [ran EXCEPT ![r] = @ \cup {body[r]}]

\* A start that is known already returns the execution there is.
Effect(r) ==
    IF r \in Starts /\ effects[r] > 0
      THEN UNCHANGED <<effects, ran>>
      ELSE /\ effects' = [effects EXCEPT ![r] = @ + 1]
           /\ ran' = [ran EXCEPT ![r] = @ \cup {body[r]}]

Apply(h) ==
    /\ hand[h] = "called"
    /\ Effect(hreq[h])
    /\ hand' = [hand EXCEPT ![h] = "applied"]
    /\ UNCHANGED <<ledger, lock, hreq, hbody, hres, waiter, clients, wrapup, stray, calls,
                   crashes, faults>>

\* The runtime raises: the terminal is busy, the command is not there.
Refuse(h) ==
    /\ hand[h] = "called"
    /\ Conclude(h, "failed")
    /\ UNCHANGED <<ledger, lock, hreq, hbody, waiter, clients, wrapup, runtime, calls,
                   crashes, faults>>

\* A call nobody waits for any more is done, or refused.
ApplyStray(r) ==
    /\ stray[r] > 0
    /\ stray' = [stray EXCEPT ![r] = @ - 1]
    /\ Effect(r) \/ UNCHANGED <<effects, ran>>
    /\ UNCHANGED <<ledger, handlers, clients, wrapup, calls, crashes, faults>>

RequestWrapUp ==
    /\ ~wrapup
    /\ wrapup' = TRUE
    /\ UNCHANGED <<ledger, handlers, clients, runtime, calls, crashes, faults>>

\* The turn ends, or the next one starts.
NewTurn ==
    /\ wrapup
    /\ wrapup' = FALSE
    /\ UNCHANGED <<ledger, handlers, clients, runtime, calls, crashes, faults>>

-----------------------------------------------------------------------------
(* Failures. *)

Fail(kind) ==
    /\ kind \in Faults /\ faults < MaxFaults
    /\ faults' = faults + 1

\* The client gives up, whether its post arrived or not.
GiveUp(c) ==
    /\ Fail("give_up")
    /\ at[c] \in Posts
    /\ at' = [at EXCEPT ![c] = "idle"]
    /\ got' = [got EXCEPT ![c] = None]
    /\ waiter' = [h \in Handlers |-> IF waiter[h] = c THEN None ELSE waiter[h]]
    /\ UNCHANGED <<ledger, lock, hand, hreq, hbody, hres, creq, cbody, wrapup, runtime, calls,
                   crashes>>

\* The turn control cannot be read; the operation goes on.
ReadControlFails(h) ==
    /\ Fail("control")
    /\ hand[h] = "control"
    /\ hand' = [hand EXCEPT ![h] = "perform"]
    /\ UNCHANGED <<ledger, lock, hreq, hbody, hres, waiter, clients, wrapup, runtime, calls,
                   crashes>>

CallTimesOut(h) ==
    /\ Fail("timeout")
    /\ hand[h] \in {"called", "applied"}
    /\ stray' = [stray EXCEPT ![hreq[h]] = IF hand[h] = "called" THEN @ + 1 ELSE @]
    /\ Conclude(h, "failed")
    /\ UNCHANGED <<ledger, lock, hreq, hbody, waiter, clients, wrapup, effects, ran, calls,
                   crashes>>

\* The adapter is killed and started again; calls in flight reach the runtime.
Crash ==
    /\ Fail("crash")
    /\ crashes' = crashes + 1
    /\ stray' = [r \in Requests |->
                    stray[r] + Cardinality({h \in Handlers : hreq[h] = r /\ hand[h] = "called"})]
    /\ lock' = [r \in Requests |-> None]
    /\ hand' = [h \in Handlers |-> "free"]
    /\ hreq' = [h \in Handlers |-> None]
    /\ hbody' = [h \in Handlers |-> None]
    /\ hres' = [h \in Handlers |-> None]
    /\ waiter' = [h \in Handlers |-> None]
    /\ at' = [c \in Clients |-> IF Waiting(c) THEN "idle" ELSE at[c]]
    /\ got' = [c \in Clients |-> IF Waiting(c) THEN None ELSE got[c]]
    /\ UNCHANGED <<ledger, creq, cbody, wrapup, effects, ran, calls>>

-----------------------------------------------------------------------------
Handle(h) ==
    \/ ReceiveRequest(h)
    \/ AnswerAgain(h)
    \/ TakeRequest(h)
    \/ ReadControl(h)
    \/ Perform(h)
    \/ CallReturns(h)
    \/ PrepareResponse(h)
    \/ ReceiveAck(h)

Next ==
    \/ \E c \in Clients, r \in Requests, b \in Contents : Begin(c, r, b)
    \/ \E c \in Clients, h \in Handlers : Post(c, h)
    \/ \E h \in Handlers : Handle(h) \/ Apply(h) \/ Refuse(h)
    \/ \E h \in Handlers : ReadControlFails(h) \/ CallTimesOut(h)
    \/ \E r \in Requests : ApplyStray(r)
    \/ \E c \in Clients : GiveUp(c)
    \/ RequestWrapUp \/ NewTurn
    \/ Crash

Spec == Init /\ [][Next]_vars

\* Threads go on, and the runtime answers every call.
Fairness == \A h \in Handlers : SF_vars(Handle(h)) /\ WF_vars(Apply(h) \/ Refuse(h))

FairSpec == Spec /\ Fairness

-----------------------------------------------------------------------------
\* Whatever is repeated, by however many clients at a time, the adapter calls
\* the runtime once for a request, and once more at most for each of its crashes.
NeverRepeatedUnlessCrashed == \A r \in Requests : calls[r] <= 1 + crashes

\* Two clients that were answered for a request were told the same, which is
\* what the ledger will tell the next one.
AnswersAgree ==
    \A c \in Clients : got[c] # None => got[c] = answer[creq[c]] /\ body[creq[c]] = cbody[c]

\* "Nova execucao bloqueada": a start that was answered as blocked was not done,
\* unless a crash of the adapter made it forget a call it had made before.
BlockedMeansNotStarted ==
    crashes = 0 => \A r \in Requests : answer[r] = "blocked" => effects[r] = 0

\* "Mesmo request_id + mesmo payload e replay idempotente": a request takes
\* effect once, however often it is posted.
ReplayIsIdempotent == \A r \in Requests : effects[r] <= 1

\* A client that waits is answered or gives up, be the adapter restarted or not.
WaitingIsAnswered == \A c \in Clients : Waiting(c) ~> ~Waiting(c)

\* The ledger and the runtime implement the promises of the protocol.
Service == INSTANCE ExchangeService
    WITH accepted  <- body,
         answered  <- answer,
         confirmed <- {r \in Requests : state[r] = "RESPONSE_ACKED"}

ImplementsExchange == Service!Spec
=============================================================================
