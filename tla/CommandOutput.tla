---------------------------- MODULE CommandOutput ----------------------------
(***************************************************************************)
(* The output of one running command on its way to the clients that follow *)
(* it: the callback of the session appends what the command prints to      *)
(* execution_ledger.py (or external_execute_store.py), the worker fills in *)
(* and concludes the row, and readers poll or wait for more with a cursor. *)
(*                                                                         *)
(* A text is the sequence of the units a cursor counts: characters in the  *)
(* ledger, chunks in the external store, which may be of one character.    *)
(* Writes of the stores can fail (a locked or full database).              *)
(***************************************************************************)
EXTENDS Naturals, Sequences

CONSTANTS
    Readers,        \* clients that follow the output
    MaxPieces,      \* pieces the command may print
    UnitsOfPiece,   \* units of a piece
    ReadSize,       \* max_chars of a read
    MaxFinal,       \* MAX_FINAL_OUTPUT_CHARS of the external store
    MaxFailures,    \* writes that fail
    MaxOthers       \* signals of other executions

VARIABLES
    store,          \* "v2" (with signals) or "external"
    printed,        \* what the command printed
    chunks,         \* execution_output_chunks, put together
    row,            \* state and final output of the row
    generation,     \* _execution_signal_generation
    worker,         \* where the thread of the command is
    failures,       \* writes that failed
    others,
    follower        \* reader -> where it is, its cursor and text, what it knows

vars == <<store, printed, chunks, row, generation, worker, failures, others, follower>>

Concluded == {"FINISHED", "FAILED"}
Piece(n) == [i \in 1..UnitsOfPiece |-> UnitsOfPiece * (n - 1) + i]

Init ==
    /\ store \in {"v2", "external"}
    /\ printed = <<>> /\ chunks = <<>>
    /\ row = [state |-> "RUNNING", output |-> <<>>]
    /\ generation = 0 /\ worker = "running" /\ failures = 0 /\ others = 0
    /\ follower = [r \in Readers |->
          [at |-> "start", text |-> <<>>, generation |-> 0, state |-> "RUNNING", timedOut |-> FALSE]]

-----------------------------------------------------------------------------
\* The thread of the command.
Fails == failures < MaxFailures /\ failures' = failures + 1
Works == UNCHANGED failures
Quiet == UNCHANGED <<store, others, follower>>

\* The session hands a piece to on_output, which appends it.  An exception of
\* the callback is swallowed by the session.
Emit ==
    /\ worker = "running" /\ Len(printed) < MaxPieces * UnitsOfPiece
    /\ LET piece == Piece(Len(printed) \div UnitsOfPiece + 1) IN
        /\ printed' = printed \o piece
        /\ \/ Works /\ chunks' = chunks \o piece
              /\ worker' = IF store = "v2" THEN "signal" ELSE "running"
           \/ Fails /\ UNCHANGED <<chunks, worker>>
    /\ Quiet /\ UNCHANGED <<row, generation>>

\* _signal_execution_change, by the callback and after each conclusion.
Signal ==
    /\ worker \in {"signal", "announce"}
    /\ generation' = generation + 1
    /\ worker' = IF worker = "signal" THEN "running" ELSE "done"
    /\ Quiet /\ Works /\ UNCHANGED <<printed, chunks, row>>

\* execute_prepared returns or raises with the output of the command.
CommandEnds(ok) ==
    /\ worker = "running"
    /\ worker' = IF ok THEN "ok" ELSE "error"
    /\ Quiet /\ Works /\ UNCHANGED <<printed, chunks, row, generation>>

\* What is left of the output when the row is concluded: an exception of the
\* store carries none.
Carried == IF worker = "broken" THEN <<>> ELSE printed

\* sync_output fills in the output only if nothing was appended.
Synchronise ==
    /\ worker \in {"ok", "error", "broken"} /\ store = "v2"
    /\ \/ /\ Works
          /\ chunks' = IF chunks = <<>> THEN Carried ELSE chunks
          /\ worker' = CASE worker = "ok" -> "finish" [] worker = "error" -> "fail"
                         [] OTHER -> "failEmpty"
       \/ /\ Fails /\ UNCHANGED chunks
          /\ worker' = IF worker = "ok" THEN "broken" ELSE "gone"
    /\ Quiet /\ UNCHANGED <<printed, row, generation>>

\* _cap_output: the row of the external store keeps the end of a long output.
Capped(output) ==
    IF store = "external" /\ Len(output) > MaxFinal
    THEN SubSeq(output, Len(output) - MaxFinal + 1, Len(output)) ELSE output

Concludes(state, output) ==
    /\ row' = [state |-> state, output |-> Capped(output)]
    /\ worker' = IF store = "v2" THEN "announce" ELSE "done"

\* transition or mark_finished / mark_failed: a failure to write FINISHED is
\* handled as a failure of the command, another ends the thread.
Conclude ==
    /\ \/ worker \in {"finish", "fail", "failEmpty"}
       \/ worker \in {"ok", "error", "broken"} /\ store = "external"
    /\ LET finishes == worker \in {"finish", "ok"}
           output == IF worker \in {"failEmpty", "broken"} THEN <<>> ELSE printed
       IN \/ Works /\ Concludes(IF finishes THEN "FINISHED" ELSE "FAILED", output)
          \/ Fails /\ worker' = (IF finishes THEN "broken" ELSE "gone") /\ UNCHANGED row
    /\ Quiet /\ UNCHANGED <<printed, chunks, generation>>

Worker == Emit \/ Signal \/ (\E ok \in BOOLEAN : CommandEnds(ok)) \/ Synchronise \/ Conclude

\* Another execution appends or ends.
OtherSignal ==
    /\ others < MaxOthers /\ others' = others + 1
    /\ generation' = generation + 1
    /\ UNCHANGED <<store, printed, chunks, row, worker, failures, follower>>

-----------------------------------------------------------------------------
\* Readers.
Reads == UNCHANGED <<store, printed, chunks, row, generation, worker, failures, others>>
At(r, place) == follower[r].at = place
Moves(r, next) == follower' = [follower EXCEPT ![r] = next] /\ Reads
Goes(r, place) == Moves(r, [follower[r] EXCEPT !.at = place])

\* read_output: what follows the cursor; the final output stands in for chunks
\* that were never written.
Text == IF chunks = <<>> /\ store = "v2" THEN row.output ELSE chunks
\* Faulty variant: the cursor counts pieces, not their units.
CursorInPieces(r) == Len(follower[r].text) \div UnitsOfPiece
Cursor(r) == Len(follower[r].text)
Delta(r) == SubSeq(Text, Cursor(r) + 1,
                   IF Cursor(r) + ReadSize < Len(Text) THEN Cursor(r) + ReadSize ELSE Len(Text))
Received(r) == follower[r].text \o Delta(r)

\* What a call returns; a client goes on until it is told eof.
Returns(r, state, timedOut) ==
    Moves(r, [follower[r] EXCEPT !.text = Received(r), !.timedOut = timedOut,
                                 !.at = IF state \in Concluded /\ Len(Received(r)) >= Len(Text)
                                        THEN "eof" ELSE "start"])

HasEvent(r) == Delta(r) # <<>> \/ row.state \in Concluded

\* phase5f_wait_execution_output.
Snapshot(r) ==
    /\ At(r, "start") /\ store = "v2"
    /\ Moves(r, [follower[r] EXCEPT !.at = "read", !.generation = generation])

ReadOnce(r) ==
    /\ At(r, "read")
    /\ \/ HasEvent(r) /\ Returns(r, row.state, FALSE)
       \/ ~HasEvent(r) /\ Returns(r, row.state, TRUE)     \* the deadline has passed
       \/ ~HasEvent(r) /\ Goes(r, "check")

\* Faulty variant: the generation is taken after the read.
CheckLate(r) ==
    /\ At(r, "check")
    /\ Moves(r, [follower[r] EXCEPT !.at = "waiting", !.generation = generation])

\* _wait_for_execution_change: under the lock of the condition.
Check(r) ==
    /\ At(r, "check")
    /\ Goes(r, IF generation # follower[r].generation THEN "start" ELSE "waiting")

Wake(r) == At(r, "waiting") /\ generation # follower[r].generation /\ Goes(r, "start")
Timeout(r) == At(r, "waiting") /\ Goes(r, "last")
LastRead(r) == At(r, "last") /\ Returns(r, row.state, ~HasEvent(r))

\* execution_status_external: the row first, then the chunks.
ReadRow(r) ==
    /\ At(r, "start") /\ store = "external"
    /\ Moves(r, [follower[r] EXCEPT !.at = "chunks", !.state = row.state])

ReadChunks(r) == At(r, "chunks") /\ Returns(r, follower[r].state, FALSE)

Follow(r) ==
    \/ Snapshot(r) \/ ReadOnce(r) \/ Check(r) \/ Wake(r) \/ LastRead(r)
    \/ ReadRow(r) \/ ReadChunks(r)

Next == Worker \/ OtherSignal \/ \E r \in Readers : Follow(r) \/ Timeout(r)

Spec == Init /\ [][Next]_vars

\* The thread goes on; a command need not print or end.
WorkerGoesOn == worker # "running" /\ Worker

-----------------------------------------------------------------------------
TypeOK ==
    /\ printed \in Seq(Nat) /\ chunks \in Seq(Nat)
    /\ row.state \in {"RUNNING"} \cup Concluded
    /\ \A r \in Readers : follower[r].at \in
          {"start", "read", "check", "waiting", "last", "chunks", "eof"}

\* A reader has, at every moment, the beginning of the stored text and nothing
\* twice; one that was told eof has all of it, which is all the command printed
\* unless a write failed.  A command that FINISHED has its output in the row,
\* whatever was lost on the way; the store of external executions keeps the last of
\* it, as much as its cap allows and no less (append_output, sync_output,
\* read_output, _cap_output).
NothingIsLost ==
    /\ row.state = "FINISHED" => \E n \in 0..Len(printed) :
          /\ row.output = SubSeq(printed, n + 1, Len(printed))
          /\ n > 0 => store = "external" /\ Len(row.output) = MaxFinal
    /\ \A r \in Readers :
          /\ Cursor(r) <= Len(Text) /\ follower[r].text = SubSeq(Text, 1, Cursor(r))
          /\ At(r, "eof") => row.state \in Concluded /\ follower[r].text = Text
          /\ At(r, "eof") /\ failures = 0 => follower[r].text = printed

\* A waiting reader for whom there is something to read wakes without having to
\* wait for its timeout (the generation is taken before the read, and compared
\* under the lock of the condition), unless the thread that wrote it died.
WaitersAreServed ==
    \A r \in Readers :
        (At(r, "waiting") /\ HasEvent(r)) ~> (~At(r, "waiting") \/ worker = "gone")
=============================================================================
