----------------------------- MODULE ExchangeService -----------------------------
(***************************************************************************)
(* What the exchange protocol CBMCP/1 promises about each request: it is   *)
(* accepted with one content, only that content takes effect, a start      *)
(* takes effect once at most, it is answered once and for all, with "ok"   *)
(* only after it took effect, and confirmed only after it was answered.    *)
(***************************************************************************)
EXTENDS Naturals

CONSTANTS
    Requests,  \* request identifiers
    Starts,    \* requests that start an execution
    Contents,  \* operations with their payload
    Answers,   \* response payloads
    None

VARIABLES
    accepted,   \* request -> content it was accepted with, or None
    effects,    \* request -> how often it took effect
    ran,        \* request -> contents that took effect
    answered,   \* request -> its answer, or None
    confirmed   \* requests whose answer was confirmed

exchange == <<accepted, effects, ran, answered, confirmed>>

Init ==
    /\ accepted = [r \in Requests |-> None]
    /\ effects = [r \in Requests |-> 0]
    /\ ran = [r \in Requests |-> {}]
    /\ answered = [r \in Requests |-> None]
    /\ confirmed = {}

Accept(r, c) ==
    /\ accepted[r] = None
    /\ accepted' = [accepted EXCEPT ![r] = c]
    /\ UNCHANGED <<effects, ran, answered, confirmed>>

TakeEffect(r) ==
    /\ accepted[r] # None
    /\ r \in Starts => effects[r] = 0
    /\ effects' = [effects EXCEPT ![r] = @ + 1]
    /\ ran' = [ran EXCEPT ![r] = {accepted[r]}]
    /\ UNCHANGED <<accepted, answered, confirmed>>

Answer(r, a) ==
    /\ accepted[r] # None /\ answered[r] = None
    /\ a = "ok" => effects[r] > 0
    /\ answered' = [answered EXCEPT ![r] = a]
    /\ UNCHANGED <<accepted, effects, ran, confirmed>>

Confirm(r) ==
    /\ answered[r] # None
    /\ confirmed' = confirmed \cup {r}
    /\ UNCHANGED <<accepted, effects, ran, answered>>

Next ==
    \E r \in Requests :
        \/ \E c \in Contents : Accept(r, c)
        \/ TakeEffect(r)
        \/ \E a \in Answers : Answer(r, a)
        \/ Confirm(r)

Spec == Init /\ [][Next]_exchange
=============================================================================
