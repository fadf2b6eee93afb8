--------------------------- MODULE GenerationService ---------------------------
(***************************************************************************)
(* What the switch of index generations promises the readers of the RAG    *)
(* index: either one generation is served, or none is; a generation is     *)
(* served only after it was proved and never again after it was retired;   *)
(* and what is served changes only while nobody reads.                     *)
(***************************************************************************)
CONSTANTS
    Candidates,  \* generations that may replace the legacy index
    Holders,     \* processes that read
    Legacy,      \* the index that was there first
    Nothing      \* no generation

VARIABLES
    served,   \* the generation a new reader is given, or Nothing
    proved,   \* candidates that were proved
    retired,  \* candidates that were taken back
    reads     \* holder -> the generation it reads, or Nothing

service == <<served, proved, retired, reads>>

Quiet == \A h \in Holders : reads[h] = Nothing

Init ==
    /\ served = Legacy
    /\ proved = {} /\ retired = {}
    /\ reads = [h \in Holders |-> Nothing]

Withdraw ==
    /\ Quiet
    /\ served' = Nothing
    /\ UNCHANGED <<proved, retired, reads>>

Prove(g) ==
    /\ served = Nothing
    /\ proved' = proved \cup {g}
    /\ UNCHANGED <<served, retired, reads>>

Retire(g) ==
    /\ served = Nothing
    /\ retired' = retired \cup {g}
    /\ UNCHANGED <<served, proved, reads>>

Serve(g) ==
    /\ served = Nothing
    /\ g = Legacy \/ (g \in proved /\ g \notin retired)
    /\ served' = g
    /\ UNCHANGED <<proved, retired, reads>>

\* A new reader is given what is served.
Read(h) ==
    /\ served # Nothing
    /\ reads' = [reads EXCEPT ![h] = served]
    /\ UNCHANGED <<served, proved, retired>>

\* Readers leave, several at once when their process dies.
Leave(H) ==
    /\ reads' = [h \in Holders |-> IF h \in H THEN Nothing ELSE reads[h]]
    /\ UNCHANGED <<served, proved, retired>>

Next ==
    \/ Withdraw
    \/ \E g \in Candidates : Prove(g) \/ Retire(g)
    \/ \E g \in Candidates \cup {Legacy} : Serve(g)
    \/ \E h \in Holders : Read(h)
    \/ \E H \in SUBSET Holders : Leave(H)

Spec == Init /\ [][Next]_service
=============================================================================
