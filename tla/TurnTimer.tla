------------------------------ MODULE TurnTimer ------------------------------
(***************************************************************************)
(* The timer of the assistant's turn (chatgpt_companion.py): every call of *)
(* the HTTP API begins a turn if none runs, the browser extension reports  *)
(* that the page stopped generating, the window asks for a graceful stop,  *)
(* and the adapter refuses new work when the turn has to wrap up.          *)
(*                                                                         *)
(* Time is the one bit the code tells apart where new work is concerned:   *)
(* whether the running turn has passed WRAP_UP_SECONDS.                    *)
(***************************************************************************)
EXTENDS Naturals, FiniteSets

CONSTANTS
    Callers,      \* API calls under way at once
    Askers,       \* those that an adapter makes to ask whether new work may begin
    Tabs,         \* pages with the content script
    MaxTurns, MaxAsks, MaxEvents

VARIABLES
    turn,         \* state, number (request_id), claimed and late
    manual,       \* _manual_wrap_up_requested
    turns,        \* turns ever started
    asks,
    notified,     \* turn -> how often its completion was announced
    endings,      \* how each turn ended
    caller,       \* API call -> where it is, its turn, what turn_control read
    page,         \* tab -> what it shows and what its content script remembers
    events,       \* posts of the extension on their way, a bag
    posted, lost

timerVars == <<turn, manual, turns, asks, notified, endings>>
vars == <<turn, manual, turns, asks, notified, endings, caller, page, events, posted, lost>>

Actions == {"finish", "cancel"}
Idle == [state |-> "IDLE", id |-> 0, claimed |-> FALSE, late |-> FALSE]
Resting == [at |-> "rest", id |-> 0, over |-> FALSE, wrapUp |-> FALSE, truths |-> {}]

Init ==
    /\ turn = Idle /\ manual = FALSE /\ turns = 0 /\ asks = 0
    /\ notified = [n \in 1..MaxTurns |-> 0]
    /\ endings = [n \in 1..MaxTurns |-> {}]
    /\ caller = [c \in Callers |-> Resting]
    /\ page = [t \in Tabs |-> [generating |-> FALSE, seen |-> FALSE, clicked |-> FALSE]]
    /\ events = [a \in Actions |-> 0] /\ posted = 0 /\ lost = 0

-----------------------------------------------------------------------------
\* The timer.
Over(t) == t.state = "RUNNING" /\ t.claimed /\ t.late
WrapUp == manual \/ Over(turn)

\* Faulty variant: a turn inherits the lateness of the last one.
StartLate(resume) ==
    /\ turn' = [state |-> "RUNNING", id |-> turns + 1, claimed |-> turn.claimed, late |-> turn.late]
    /\ turns' = turns + 1
    /\ manual' = (manual /\ ~resume)

\* start: a turn that runs under the same id is kept; ids are drawn anew.
Start(resume) ==
    /\ turn' = [state |-> "RUNNING", id |-> turns + 1, claimed |-> FALSE, late |-> FALSE]
    /\ turns' = turns + 1
    /\ manual' = (manual /\ ~resume)

Claim(id) ==
    turn' = IF turn.state = "RUNNING" /\ turn.id = id THEN [turn EXCEPT !.claimed = TRUE] ELSE turn

\* _finish with the null id of the extension: whatever turn runs.  A finished
\* turn is announced, a cancelled one is not.
Ends(action) ==
    IF turn.state = "RUNNING"
    THEN /\ turn' = [turn EXCEPT !.state = IF action = "finish" THEN "FINISHED" ELSE "CANCELLED"]
         /\ endings' = [endings EXCEPT ![turn.id] = @ \cup {action}]
         /\ notified' = IF action = "finish" THEN [notified EXCEPT ![turn.id] = @ + 1] ELSE notified
    ELSE UNCHANGED <<turn, endings, notified>>

\* The answers that are true while a call reads the state in two sections.
Witnessed(next) ==
    [c \in Callers |-> IF caller[c].at = "manual"
                       THEN [next[c] EXCEPT !.truths = @ \cup {WrapUp'}] ELSE next[c]]
CallersWait == caller' = Witnessed(caller)
Rest == UNCHANGED <<page, events, posted, lost>>

\* The limit passes.
TimePasses ==
    /\ turn.state = "RUNNING" /\ ~turn.late
    /\ turn' = [turn EXCEPT !.late = TRUE]
    /\ UNCHANGED <<manual, turns, asks, notified, endings>> /\ CallersWait /\ Rest

\* request_graceful_stop of the window, while a command is active.
AskToStop ==
    /\ asks < MaxAsks /\ asks' = asks + 1
    /\ manual' = TRUE
    /\ UNCHANGED <<turn, turns, notified, endings>> /\ CallersWait /\ Rest

\* POST /v1/chatgpt/timer/reset.
Reset ==
    /\ asks < MaxAsks /\ asks' = asks + 1
    /\ turn' = Idle /\ manual' = FALSE
    /\ UNCHANGED <<turns, notified, endings>> /\ CallersWait /\ Rest

-----------------------------------------------------------------------------
\* A call: ensure_chatgpt_turn in three sections, then turn_control in two.
Step(c, from, next) ==
    /\ caller[c].at = from
    /\ caller' = Witnessed([caller EXCEPT ![c] = next])
    /\ Rest

Served(c) == IF c \in Askers THEN "timer" ELSE "rest"

Call(c) ==
    /\ UNCHANGED timerVars
    /\ Step(c, "rest", [caller[c] EXCEPT !.at = IF turn.state = "RUNNING" THEN Served(c) ELSE "start"])

StartTurn(c) ==
    /\ turns < MaxTurns
    /\ Start(TRUE)
    /\ UNCHANGED <<asks, notified, endings>>
    /\ Step(c, "start", [caller[c] EXCEPT !.at = "claim", !.id = turns + 1])

ClaimTurn(c) ==
    /\ Claim(caller[c].id)
    /\ UNCHANGED <<manual, turns, asks, notified, endings>>
    /\ Step(c, "claim", [caller[c] EXCEPT !.at = Served(c), !.id = 0])

ReadTimer(c) ==
    /\ UNCHANGED timerVars
    /\ Step(c, "timer", [caller[c] EXCEPT !.at = "manual", !.over = Over(turn), !.truths = {WrapUp}])

ReadManual(c) ==
    /\ UNCHANGED timerVars
    /\ Step(c, "manual", [caller[c] EXCEPT !.at = "told", !.wrapUp = manual \/ caller[c].over])

\* AdapterState.response_syn: new work is refused or begins; it begins, too, if
\* the bridge could not be asked.
Gate(c, outcome) ==
    /\ \/ caller[c].at = "told" /\ outcome = IF caller[c].wrapUp THEN "refused" ELSE "admitted"
       \/ caller[c].at = "timer" /\ outcome = "unasked"
    /\ UNCHANGED timerVars
    /\ Step(c, caller[c].at, [caller[c] EXCEPT !.at = outcome, !.over = FALSE, !.wrapUp = FALSE])

Again(c) ==
    /\ caller[c].at \in {"refused", "admitted", "unasked"}
    /\ UNCHANGED timerVars
    /\ Step(c, caller[c].at, Resting)

-----------------------------------------------------------------------------
\* The page and its content script.
NoTimer == UNCHANGED timerVars /\ CallersWait

Generate(t) ==
    /\ ~page[t].generating /\ posted < MaxEvents
    /\ page' = [page EXCEPT ![t].generating = TRUE] /\ UNCHANGED <<events, posted, lost>> /\ NoTimer
Stops(t, byHand) ==
    /\ page[t].generating
    /\ page' = [page EXCEPT ![t].generating = FALSE, ![t].clicked = @ \/ byHand]
    /\ UNCHANGED <<events, posted, lost>> /\ NoTimer

\* checkGenerationState, by the observer and every 100 ms.
Sees(t) ==
    /\ page[t].generating /\ ~page[t].seen
    /\ page' = [page EXCEPT ![t].seen = TRUE] /\ UNCHANGED <<events, posted, lost>> /\ NoTimer
Reports(t) ==
    /\ ~page[t].generating /\ page[t].seen
    /\ page' = [page EXCEPT ![t].seen = FALSE, ![t].clicked = FALSE]
    /\ events' = [events EXCEPT ![IF page[t].clicked THEN "cancel" ELSE "finish"] = @ + 1]
    /\ posted' = posted + 1
    /\ UNCHANGED lost /\ NoTimer

\* sendTimerEvent: posts overtake each other; one that fails is not repeated.
Deliver(action) ==
    /\ events[action] > 0
    /\ events' = [events EXCEPT ![action] = @ - 1]
    /\ Ends(action)
    /\ UNCHANGED <<manual, turns, asks, page, posted, lost>> /\ CallersWait
Lose(action) ==
    /\ events[action] > 0
    /\ events' = [events EXCEPT ![action] = @ - 1] /\ lost' = lost + 1
    /\ UNCHANGED <<page, posted>> /\ NoTimer

Calls(c) ==
    \/ Call(c) \/ StartTurn(c) \/ ClaimTurn(c) \/ ReadTimer(c) \/ ReadManual(c)
    \/ \E outcome \in {"refused", "admitted", "unasked"} : Gate(c, outcome)
    \/ Again(c)

Extension(t) == Sees(t) \/ Reports(t)

Next ==
    \/ TimePasses \/ AskToStop \/ Reset
    \/ \E c \in Callers : Calls(c)
    \/ \E t \in Tabs : Generate(t) \/ Extension(t) \/ \E byHand \in BOOLEAN : Stops(t, byHand)
    \/ \E a \in Actions : Deliver(a) \/ Lose(a)

Spec == Init /\ [][Next]_vars

-----------------------------------------------------------------------------
TypeOK ==
    /\ turn.state \in {"IDLE", "RUNNING", "FINISHED", "CANCELLED"} /\ turn.id \in 0..MaxTurns
    /\ manual \in BOOLEAN /\ turns \in 0..MaxTurns
    /\ posted >= 0 /\ \A a \in Actions : events[a] \in Nat

\* The adapter refuses or admits new work by an answer that was true at some
\* moment of its question, though turn_control reads the timer and the request
\* of the window in two critical sections; and a turn ends in one way and is
\* announced at most once, only if it was not cancelled, however many tabs and
\* delayed posts report an end.
GateIsTimely ==
    /\ \A c \in Callers :
          /\ caller[c].at = "refused" => TRUE \in caller[c].truths
          /\ caller[c].at = "admitted" => FALSE \in caller[c].truths
    /\ \A n \in 1..MaxTurns :
          /\ Cardinality(endings[n]) <= 1
          /\ notified[n] = IF "finish" \in endings[n] THEN 1 ELSE 0

\* "test_repeated_call_does_not_restart": a call leaves a running turn alone.
RunningTurnIsKept ==
    [][turn.state = "RUNNING" /\ turn'.state = "RUNNING" => turn'.id = turn.id]_vars

\* When a page that was seen to generate stops, the turn that runs ends, unless
\* the post is lost or the page goes on before the content script looks.
TurnEndsWithPage ==
    \A t \in Tabs :
        page[t].seen /\ ~page[t].generating /\ lost = 0
            ~> turn.state # "RUNNING" \/ page[t].generating \/ lost > 0
=============================================================================
