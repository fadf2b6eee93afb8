---------------------------- MODULE CommandService ----------------------------
(***************************************************************************)
(* What the command service promises a client that submits a command and   *)
(* may repeat the request: the request is accepted once, its row only      *)
(* moves forward, and the text of the command is given to a shell at most  *)
(* once, never before it was accepted.  The row may end without the text   *)
(* having run, and may end before or after it does: the promise is "at     *)
(* most once", not "exactly once".                                         *)
(***************************************************************************)
EXTENDS Naturals

CONSTANT Requests

VARIABLES
    status,     \* request -> what its row says
    delivered   \* request -> how often a shell received its text

service == <<status, delivered>>

Init ==
    /\ status = [r \in Requests |-> "absent"]
    /\ delivered = [r \in Requests |-> 0]

Move(r, from, to) ==
    /\ status[r] = from
    /\ status' = [status EXCEPT ![r] = to]
    /\ UNCHANGED delivered

Accept(r) == Move(r, "absent", "accepted")
Begin(r)  == Move(r, "accepted", "running")

\* Several rows may end at once: the service went down with them.
End(S) ==
    /\ \A r \in S : status[r] \in {"accepted", "running"}
    /\ status' = [r \in Requests |-> IF r \in S THEN "ended" ELSE status[r]]
    /\ UNCHANGED delivered

\* One Enter gives the shell every text that stands on the prompt.
Deliver(S) ==
    /\ \A r \in S : status[r] # "absent" /\ delivered[r] = 0
    /\ delivered' = [r \in Requests |-> IF r \in S THEN 1 ELSE delivered[r]]
    /\ UNCHANGED status

Next ==
    \/ \E r \in Requests : Accept(r) \/ Begin(r)
    \/ \E S \in SUBSET Requests : End(S) \/ Deliver(S)

Spec == Init /\ [][Next]_service
=============================================================================
