------------------------- MODULE BridgeServicesProofs -------------------------
(* Proofs about the services around the runtime: each part of MCBridgeServices *)
(* has an inductive invariant of its own, and the parts that rest do not move; *)
(* and, last, about the switch of index generations that the bridge reads.     *)
EXTENDS MCBridgeServices, ProductionTransition, FiniteSetTheorems, SequenceTheorems, TLAPS

-----------------------------------------------------------------------------
(* The timer of the assistant's turn.                                        *)

Places == {"rest", "start", "claim", "timer", "manual", "told", "refused", "admitted", "unasked"}
CallerStates ==
    [at : Places, id : 0..MaxTurns, over : BOOLEAN, wrapUp : BOOLEAN, truths : SUBSET BOOLEAN]
TurnStates ==
    [state : {"IDLE", "RUNNING", "FINISHED", "CANCELLED"}, id : 0..MaxTurns,
     claimed : BOOLEAN, late : BOOLEAN]

TimerTyped ==
    /\ turn \in TurnStates /\ manual \in BOOLEAN /\ turns \in 0..MaxTurns
    /\ notified \in [1..MaxTurns -> Nat]
    /\ endings \in [1..MaxTurns -> SUBSET Turn!Actions]
CallersTyped == caller \in [Callers -> CallerStates]
PostsTyped == events \in [Turn!Actions -> Nat] /\ posted \in Nat

\* The turn that runs is the last one that was started, and none has ended it yet.
LastTurnRuns ==
    /\ turn.state = "RUNNING" => turn.id = turns /\ turns > 0 /\ endings[turns] = {}
    /\ \A n \in 1..MaxTurns : n > turns => endings[n] = {}

EndsOnce ==
    \A n \in 1..MaxTurns :
        /\ endings[n] = {} \/ \E a \in Turn!Actions : endings[n] = {a}
        /\ notified[n] = IF "finish" \in endings[n] THEN 1 ELSE 0

\* What a call k has read, and what was true since: if it has not seen the turn
\* over and nobody asks to stop now, there was a moment without a reason to.
Knows(k, now, asked) ==
    /\ k.at = "manual" =>
          /\ now \in k.truths
          /\ k.over => TRUE \in k.truths
          /\ ~k.over /\ ~asked => FALSE \in k.truths
    /\ k.at = "told" => k.wrapUp \in k.truths
    /\ k.at = "refused" => TRUE \in k.truths
    /\ k.at = "admitted" => FALSE \in k.truths

AnswerWasTrue == \A c \in Callers : Knows(caller[c], Turn!WrapUp, manual)

TimerInv == TimerTyped /\ LastTurnRuns /\ EndsOnce
CallersInv == CallersTyped /\ AnswerWasTrue
TurnInv == TimerInv /\ CallersInv /\ PostsTyped

\* WrapUp is a truth value.
LEMMA WrapUpIsBoolean ==
    /\ turn \in TurnStates /\ manual \in BOOLEAN => Turn!WrapUp \in BOOLEAN /\ Turn!Over(turn) \in BOOLEAN
    /\ turn' \in TurnStates /\ manual' \in BOOLEAN => Turn!WrapUp' \in BOOLEAN
  BY DEF TurnStates, Turn!WrapUp, Turn!Over

LEMMA TurnInit == Turn!Init => TurnInv
<1> SUFFICES ASSUME Turn!Init PROVE TurnInv
  OBVIOUS
<1> USE DEF Turn!Init, Turn!Idle, Turn!Resting, Turn!Actions
<1>1. turn = [state |-> "IDLE", id |-> 0, claimed |-> FALSE, late |-> FALSE]
  OBVIOUS
<1>8. MaxTurns \in Nat
  BY BoundsAssumption DEF BoundsAssumption
<1>9. turn \in TurnStates
  BY <1>1, <1>8 DEF TurnStates
<1>10. manual \in BOOLEAN
  OBVIOUS
<1>11. turns \in 0..MaxTurns
  BY <1>8
<1>7. notified \in [1..MaxTurns -> Nat]
  OBVIOUS
<1>2. endings \in [1..MaxTurns -> SUBSET Turn!Actions]
  OBVIOUS
<1>3. caller \in [Callers -> CallerStates]
  BY BoundsAssumption DEF BoundsAssumption, CallerStates, Places
<1>4. events \in [Turn!Actions -> Nat] /\ posted \in Nat
  OBVIOUS
<1>5. LastTurnRuns /\ EndsOnce
  BY BoundsAssumption DEF BoundsAssumption, LastTurnRuns, EndsOnce
<1>6. AnswerWasTrue
  BY DEF AnswerWasTrue, Knows
<1> QED BY <1>1, <1>2, <1>3, <1>4, <1>5, <1>6, <1>7, <1>9, <1>10, <1>11 DEF TurnInv, TimerInv, TimerTyped, CallersInv, CallersTyped, PostsTyped

\* What a call knows stays true while it waits, unless the request of the window
\* is taken back with the turn still over, which no step does.
LEMMA KnowledgeKept ==
    ASSUME NEW k \in CallerStates, NEW now, NEW asked \in BOOLEAN, NEW now2 \in BOOLEAN,
           NEW asked2 \in BOOLEAN, Knows(k, now, asked), asked /\ ~asked2 => ~now2,
           NEW next, next = IF k.at = "manual" THEN [k EXCEPT !.truths = @ \cup {now2}] ELSE k
    PROVE  next \in CallerStates /\ Knows(next, now2, asked2)
  BY DEF CallerStates, Knows

\* The calls that take no step only wait.
LEMMA CallersWaitKept ==
    ASSUME TurnInv, Turn!CallersWait, manual' \in BOOLEAN, Turn!WrapUp' \in BOOLEAN,
           manual /\ ~manual' => ~Turn!WrapUp'
    PROVE  CallersInv'
<1>1. caller' = [d \in Callers |-> IF caller[d].at = "manual"
                    THEN [caller[d] EXCEPT !.truths = @ \cup {Turn!WrapUp'}] ELSE caller[d]]
  BY DEF TurnInv, CallersInv, CallersTyped, Turn!CallersWait, Turn!Witnessed
<1>2. ASSUME NEW d \in Callers
      PROVE  caller'[d] \in CallerStates /\ Knows(caller'[d], Turn!WrapUp', manual')
  BY <1>1, KnowledgeKept DEF TurnInv, TimerInv, TimerTyped, CallersInv, CallersTyped, AnswerWasTrue
<1> QED BY <1>1, <1>2 DEF CallersInv, CallersTyped, AnswerWasTrue

\* A step of a call: the others wait, and it knows what it needs afterwards.
LEMMA StepKept ==
    ASSUME TurnInv, NEW c \in Callers, NEW from, NEW next \in CallerStates,
           Turn!Step(c, from, next),
           manual' \in BOOLEAN, Turn!WrapUp' \in BOOLEAN, manual /\ ~manual' => ~Turn!WrapUp',
           \A after \in CallerStates :
              after = (IF from = "manual" THEN [next EXCEPT !.truths = @ \cup {Turn!WrapUp'}] ELSE next)
                  => Knows(after, Turn!WrapUp', manual')
    PROVE  CallersInv'
<1>1. /\ caller[c].at = from
      /\ caller' = [d \in Callers |-> IF caller[d].at = "manual"
                    THEN [[caller EXCEPT ![c] = next][d] EXCEPT !.truths = @ \cup {Turn!WrapUp'}]
                    ELSE [caller EXCEPT ![c] = next][d]]
  BY DEF Turn!Step, Turn!Witnessed
<1>2. ASSUME NEW d \in Callers, d # c
      PROVE  caller'[d] \in CallerStates /\ Knows(caller'[d], Turn!WrapUp', manual')
  <2>1. caller'[d] = IF caller[d].at = "manual"
                     THEN [caller[d] EXCEPT !.truths = @ \cup {Turn!WrapUp'}] ELSE caller[d]
    BY <1>1, <1>2 DEF TurnInv, CallersInv, CallersTyped
  <2> QED BY <2>1, KnowledgeKept DEF TurnInv, TimerInv, TimerTyped, CallersInv, CallersTyped, AnswerWasTrue
<1>3. caller'[c] \in CallerStates /\ Knows(caller'[c], Turn!WrapUp', manual')
  <2>1. caller'[c] = IF from = "manual" THEN [next EXCEPT !.truths = @ \cup {Turn!WrapUp'}] ELSE next
    BY <1>1 DEF TurnInv, CallersInv, CallersTyped
  <2>2. caller'[c] \in CallerStates
    BY <2>1 DEF CallerStates
  <2> QED BY <2>1, <2>2
<1> QED BY <1>1, <1>2, <1>3 DEF CallersInv, CallersTyped, AnswerWasTrue

-----------------------------------------------------------------------------
\* A step that leaves the timer alone.
LEMMA TimerKept ==
    ASSUME TurnInv, UNCHANGED Turn!timerVars
    PROVE  TimerInv' /\ Turn!WrapUp' = Turn!WrapUp /\ Turn!WrapUp' \in BOOLEAN /\ manual' \in BOOLEAN
<1>1. TimerInv'
  BY DEF TurnInv, TimerInv, TimerTyped, LastTurnRuns, EndsOnce, Turn!timerVars
<1>2. Turn!WrapUp' = Turn!WrapUp
  BY DEF Turn!WrapUp, Turn!Over, Turn!timerVars
<1>3. manual' \in BOOLEAN /\ turn' \in TurnStates
  BY <1>1 DEF TimerInv, TimerTyped
<1> QED BY <1>1, <1>2, <1>3, WrapUpIsBoolean

LEMMA TimerAloneStep == ASSUME TurnInv, Turn!NoTimer PROVE TimerInv' /\ CallersInv'
  BY TimerKept, CallersWaitKept DEF Turn!NoTimer, Turn!timerVars

LEMMA TimePassesKeeps == ASSUME TurnInv, Turn!TimePasses PROVE TurnInv'
<1>1. turn' \in TurnStates /\ turn'.state = turn.state /\ turn'.id = turn.id
  BY DEF TurnInv, TimerInv, TimerTyped, TurnStates, Turn!TimePasses
<1>2. TimerInv'
  BY <1>1 DEF TurnInv, TimerInv, TimerTyped, LastTurnRuns, EndsOnce, Turn!TimePasses
<1>3. manual' \in BOOLEAN /\ Turn!WrapUp' \in BOOLEAN
  BY <1>1, WrapUpIsBoolean DEF TurnInv, TimerInv, TimerTyped, Turn!TimePasses
<1>4. CallersInv'
  BY <1>3, CallersWaitKept DEF Turn!TimePasses
<1> QED BY <1>2, <1>4 DEF TurnInv, PostsTyped, Turn!TimePasses, Turn!Rest

LEMMA AskToStopKeeps == ASSUME TurnInv, Turn!AskToStop PROVE TurnInv'
<1>1. TimerInv'
  BY DEF TurnInv, TimerInv, TimerTyped, LastTurnRuns, EndsOnce, Turn!AskToStop
<1>2. manual' = TRUE /\ Turn!WrapUp' \in BOOLEAN
  BY <1>1, WrapUpIsBoolean DEF TimerInv, TimerTyped, Turn!AskToStop
<1>3. CallersInv'
  BY <1>2, CallersWaitKept DEF Turn!AskToStop
<1> QED BY <1>1, <1>3 DEF TurnInv, PostsTyped, Turn!AskToStop, Turn!Rest

LEMMA ResetKeeps == ASSUME TurnInv, Turn!Reset PROVE TurnInv'
<1>1. turn' = [state |-> "IDLE", id |-> 0, claimed |-> FALSE, late |-> FALSE]
  BY DEF Turn!Reset, Turn!Idle
<1>2. turn' \in TurnStates
  BY <1>1, BoundsAssumption DEF BoundsAssumption, TurnStates
<1>6. manual' \in BOOLEAN
  BY DEF Turn!Reset
<1>3. TimerInv'
  BY <1>1, <1>2, <1>6 DEF TurnInv, TimerInv, TimerTyped, LastTurnRuns, EndsOnce, Turn!Reset
<1>4. manual' = FALSE /\ Turn!WrapUp' = FALSE
  BY <1>1 DEF Turn!Reset, Turn!WrapUp, Turn!Over
<1>5. CallersInv'
  BY <1>4, CallersWaitKept DEF Turn!Reset
<1> QED BY <1>3, <1>5 DEF TurnInv, PostsTyped, Turn!Reset, Turn!Rest

LEMMA DeliverKeeps == ASSUME TurnInv, NEW a \in Turn!Actions, Turn!Deliver(a) PROVE TurnInv'
<1> USE DEF TurnInv, TimerInv, TimerTyped, Turn!Deliver
<1>0. manual' \in BOOLEAN
  OBVIOUS
<1>1. ASSUME turn.state = "RUNNING" PROVE TimerInv'
  <2>1. /\ turn' = [turn EXCEPT !.state = IF a = "finish" THEN "FINISHED" ELSE "CANCELLED"]
        /\ endings' = [endings EXCEPT ![turns] = @ \cup {a}]
        /\ notified' = IF a = "finish" THEN [notified EXCEPT ![turns] = @ + 1] ELSE notified
        /\ turns \in 1..MaxTurns /\ endings[turns] = {} /\ turns' = turns
    BY <1>1 DEF Turn!Ends, LastTurnRuns
  <2>2. turn' \in TurnStates /\ turn'.state # "RUNNING"
    BY <2>1 DEF TurnStates
  <2>3. notified' \in [1..MaxTurns -> Nat] /\ endings' \in [1..MaxTurns -> SUBSET Turn!Actions]
    BY <2>1
  <2>4. LastTurnRuns'
    BY <2>1, <2>2 DEF LastTurnRuns
  <2>5. EndsOnce'
    BY <2>1 DEF EndsOnce, Turn!Actions
  <2> QED BY <1>0, <2>1, <2>2, <2>3, <2>4, <2>5
<1>2. ASSUME turn.state # "RUNNING" PROVE TimerInv'
  BY <1>0, <1>2 DEF Turn!Ends, LastTurnRuns, EndsOnce
<1>3. TimerInv' /\ manual' = manual
  BY <1>1, <1>2
<1>4. CallersInv'
  BY <1>3, WrapUpIsBoolean, CallersWaitKept
<1>5. PostsTyped'
  BY DEF PostsTyped, Turn!Actions
<1> QED BY <1>3, <1>4, <1>5

\* The steps of a call.
LEMMA CallKeeps == ASSUME TurnInv, NEW c \in Callers, Turn!Call(c) PROVE TurnInv'
<1> DEFINE next == [caller[c] EXCEPT !.at = IF turn.state = "RUNNING" THEN Turn!Served(c) ELSE "start"]
<1>1. next \in CallerStates /\ next.at \in {"rest", "timer", "start"}
  BY DEF TurnInv, CallersInv, CallersTyped, CallerStates, Places, Turn!Served
<1>2. TimerInv' /\ Turn!WrapUp' \in BOOLEAN /\ manual' \in BOOLEAN /\ manual' = manual
  BY TimerKept DEF Turn!Call, Turn!timerVars
<1>3. CallersInv'
  BY <1>1, <1>2, StepKept DEF Turn!Call, Knows
<1> QED BY <1>2, <1>3 DEF TurnInv, PostsTyped, Turn!Call, Turn!Step, Turn!Rest

LEMMA StartTurnKeeps == ASSUME TurnInv, NEW c \in Callers, Turn!StartTurn(c) PROVE TurnInv'
<1> DEFINE next == [caller[c] EXCEPT !.at = "claim", !.id = turns + 1]
<1> USE DEF TurnInv, TimerInv, TimerTyped
<1>1. MaxTurns \in Nat /\ turns + 1 \in 1..MaxTurns
  BY BoundsAssumption DEF BoundsAssumption, Turn!StartTurn
<1>2. next \in CallerStates /\ next.at = "claim"
  <2>1. caller[c] \in CallerStates /\ turns + 1 \in 0..MaxTurns /\ "claim" \in Places
    BY <1>1 DEF CallersInv, CallersTyped, Places
  <2> QED BY <2>1 DEF CallerStates
<1>3. /\ turn' = [state |-> "RUNNING", id |-> turns + 1, claimed |-> FALSE, late |-> FALSE]
      /\ turns' = turns + 1 /\ UNCHANGED <<notified, endings>>
  BY DEF Turn!StartTurn, Turn!Start
<1>4. manual' = FALSE /\ manual' \in BOOLEAN
  BY DEF Turn!StartTurn, Turn!Start
<1>5. turn' \in TurnStates
  BY <1>1, <1>3 DEF TurnStates
<1>6. TimerInv'
  <2>1. endings' = endings /\ notified' = notified /\ turn'.id = turns' /\ turns' = turns + 1
    BY <1>3
  <2>2. LastTurnRuns' /\ EndsOnce'
    BY <1>1, <2>1 DEF LastTurnRuns, EndsOnce
  <2> QED BY <1>1, <1>4, <1>5, <2>1, <2>2
<1>7. Turn!WrapUp' = FALSE
  BY <1>3, <1>4 DEF Turn!WrapUp, Turn!Over
<1>8. CallersInv'
  BY <1>2, <1>4, <1>7, StepKept DEF Turn!StartTurn, Knows
<1> QED BY <1>6, <1>8 DEF PostsTyped, Turn!StartTurn, Turn!Step, Turn!Rest

LEMMA ClaimTurnKeeps == ASSUME TurnInv, NEW c \in Callers, Turn!ClaimTurn(c) PROVE TurnInv'
<1> DEFINE next == [caller[c] EXCEPT !.at = Turn!Served(c), !.id = 0]
<1> USE DEF TurnInv, TimerInv, TimerTyped
<1>1. next \in CallerStates /\ next.at \in {"rest", "timer"}
  <2>1. /\ caller[c] \in CallerStates /\ 0 \in 0..MaxTurns
        /\ Turn!Served(c) \in {"rest", "timer"} /\ {"rest", "timer"} \subseteq Places
    BY BoundsAssumption DEF BoundsAssumption, CallersInv, CallersTyped, Places, Turn!Served
  <2> QED BY <2>1 DEF CallerStates
<1>2. turn' \in TurnStates /\ turn'.state = turn.state /\ turn'.id = turn.id
  BY DEF TurnStates, Turn!ClaimTurn, Turn!Claim
<1>3. manual' \in BOOLEAN /\ manual' = manual /\ UNCHANGED <<turns, notified, endings>>
  BY DEF Turn!ClaimTurn
<1>4. TimerInv'
  BY <1>2, <1>3 DEF LastTurnRuns, EndsOnce
<1>5. Turn!WrapUp' \in BOOLEAN
  BY <1>2, <1>3, WrapUpIsBoolean
<1>6. CallersInv'
  <2>1. Knows(next, Turn!WrapUp', manual')
    BY <1>1 DEF Knows
  <2> QED BY <1>1, <1>3, <1>5, <2>1, StepKept DEF Turn!ClaimTurn
<1> QED BY <1>4, <1>6 DEF PostsTyped, Turn!ClaimTurn, Turn!Step, Turn!Rest

LEMMA ReadTimerKeeps == ASSUME TurnInv, NEW c \in Callers, Turn!ReadTimer(c) PROVE TurnInv'
<1> DEFINE next == [caller[c] EXCEPT !.at = "manual", !.over = Turn!Over(turn), !.truths = {Turn!WrapUp}]
<1>0. TimerInv' /\ Turn!WrapUp' \in BOOLEAN /\ manual' \in BOOLEAN
  BY TimerKept DEF Turn!ReadTimer
<1>1. Turn!WrapUp' = Turn!WrapUp /\ manual' = manual
  BY TimerKept DEF Turn!ReadTimer, Turn!timerVars
<1>2. Turn!WrapUp \in BOOLEAN /\ Turn!Over(turn) \in BOOLEAN /\ Turn!WrapUp = (manual \/ Turn!Over(turn))
  BY WrapUpIsBoolean DEF TurnInv, TimerInv, TimerTyped, Turn!WrapUp
<1>3. /\ next \in CallerStates /\ next.at = "manual"
      /\ next.over = Turn!Over(turn) /\ next.truths = {Turn!WrapUp}
  BY <1>2 DEF TurnInv, CallersInv, CallersTyped, CallerStates, Places
<1>4. Knows(next, Turn!WrapUp', manual')
  BY <1>1, <1>2, <1>3 DEF Knows
<1>5. CallersInv'
  BY <1>0, <1>1, <1>3, <1>4, StepKept DEF Turn!ReadTimer
<1> QED BY <1>0, <1>5 DEF TurnInv, PostsTyped, Turn!ReadTimer, Turn!Step, Turn!Rest

LEMMA ReadManualKeeps == ASSUME TurnInv, NEW c \in Callers, Turn!ReadManual(c) PROVE TurnInv'
<1> DEFINE next == [caller[c] EXCEPT !.at = "told", !.wrapUp = manual \/ caller[c].over]
<1>0. TimerInv' /\ Turn!WrapUp' \in BOOLEAN /\ manual' \in BOOLEAN
  BY TimerKept DEF Turn!ReadManual
<1>1. Turn!WrapUp' = Turn!WrapUp /\ manual' = manual /\ manual \in BOOLEAN
  BY TimerKept DEF Turn!ReadManual, Turn!timerVars, TurnInv, TimerInv, TimerTyped
<1>2. caller[c] \in CallerStates /\ caller[c].at = "manual" /\ Knows(caller[c], Turn!WrapUp, manual)
  BY DEF TurnInv, CallersInv, CallersTyped, AnswerWasTrue, Turn!ReadManual, Turn!Step
<1>3. manual => Turn!WrapUp
  BY DEF Turn!WrapUp
<1>4. (manual \/ caller[c].over) \in BOOLEAN /\ (manual \/ caller[c].over) \in caller[c].truths
  <2>1. Turn!WrapUp \in BOOLEAN
    BY <1>0, <1>1
  <2>2. CASE manual
    BY <1>1, <1>2, <1>3, <2>1, <2>2 DEF Knows
  <2>3. CASE ~manual
    BY <1>1, <1>2, <2>3 DEF Knows, CallerStates
  <2> QED BY <2>2, <2>3
<1>5. next \in CallerStates /\ next.at = "told" /\ next.wrapUp \in next.truths
  BY <1>2, <1>4 DEF CallerStates, Places
<1>6. ASSUME NEW k \in CallerStates, k = [next EXCEPT !.truths = @ \cup {Turn!WrapUp'}]
      PROVE  Knows(k, Turn!WrapUp', manual')
  BY <1>5, <1>6 DEF Knows, CallerStates
<1>7. CallersInv'
  BY <1>0, <1>1, <1>5, <1>6, StepKept DEF Turn!ReadManual
<1> QED BY <1>0, <1>7 DEF TurnInv, PostsTyped, Turn!ReadManual, Turn!Step, Turn!Rest

LEMMA GateKeeps ==
    ASSUME TurnInv, NEW c \in Callers, NEW outcome \in {"refused", "admitted", "unasked"},
           Turn!Gate(c, outcome)
    PROVE  TurnInv'
<1> DEFINE next == [caller[c] EXCEPT !.at = outcome, !.over = FALSE, !.wrapUp = FALSE]
<1>0. TimerInv' /\ Turn!WrapUp' \in BOOLEAN /\ manual' \in BOOLEAN /\ manual' = manual
  BY TimerKept DEF Turn!Gate, Turn!timerVars
<1>1. caller[c] \in CallerStates /\ Knows(caller[c], Turn!WrapUp, manual) /\ caller[c].at # "manual"
  BY DEF TurnInv, CallersInv, CallersTyped, AnswerWasTrue, Turn!Gate
<1>2. next \in CallerStates /\ next.at = outcome /\ next.truths = caller[c].truths
  BY <1>1 DEF CallerStates, Places
<1>3. /\ outcome = "refused" => TRUE \in caller[c].truths
      /\ outcome = "admitted" => FALSE \in caller[c].truths
  BY <1>1 DEF Turn!Gate, Knows, CallerStates
<1>4. Knows(next, Turn!WrapUp', manual')
  BY <1>2, <1>3 DEF Knows
<1>5. CallersInv'
  BY <1>0, <1>1, <1>2, <1>4, StepKept DEF Turn!Gate
<1> QED BY <1>0, <1>5 DEF TurnInv, PostsTyped, Turn!Gate, Turn!Step, Turn!Rest

LEMMA AgainKeeps == ASSUME TurnInv, NEW c \in Callers, Turn!Again(c) PROVE TurnInv'
<1>0. TimerInv' /\ Turn!WrapUp' \in BOOLEAN /\ manual' \in BOOLEAN /\ manual' = manual
  BY TimerKept DEF Turn!Again, Turn!timerVars
<1>1. Turn!Resting \in CallerStates /\ Turn!Resting.at = "rest" /\ caller[c].at # "manual"
  BY BoundsAssumption DEF BoundsAssumption, Turn!Resting, CallerStates, Places, Turn!Again
<1>2. CallersInv'
  BY <1>0, <1>1, StepKept DEF Turn!Again, Knows
<1> QED BY <1>0, <1>2 DEF TurnInv, PostsTyped, Turn!Again, Turn!Step, Turn!Rest

\* Every step of the timer, its callers and the pages.
LEMMA TurnStep == ASSUME TurnInv, Turn!Next PROVE TurnInv'
<1>1. ASSUME NEW c \in Callers, Turn!Calls(c) PROVE TurnInv'
  BY <1>1, CallKeeps, StartTurnKeeps, ClaimTurnKeeps, ReadTimerKeeps, ReadManualKeeps, GateKeeps, AgainKeeps
  DEF Turn!Calls
<1>2. ASSUME NEW t \in Tabs, Turn!Generate(t) \/ Turn!Extension(t) \/ \E byHand \in BOOLEAN : Turn!Stops(t, byHand)
      PROVE  TurnInv'
  <2>1. TimerInv' /\ CallersInv'
    BY <1>2, TimerAloneStep DEF Turn!Generate, Turn!Extension, Turn!Stops, Turn!Sees, Turn!Reports
  <2>2. PostsTyped'
    BY <1>2 DEF TurnInv, PostsTyped, Turn!Generate, Turn!Extension, Turn!Stops, Turn!Sees, Turn!Reports, Turn!Actions
  <2> QED BY <2>1, <2>2 DEF TurnInv
<1>3. ASSUME NEW a \in Turn!Actions, Turn!Lose(a) PROVE TurnInv'
  <2>1. TimerInv' /\ CallersInv'
    BY <1>3, TimerAloneStep DEF Turn!Lose
  <2>2. PostsTyped'
    BY <1>3 DEF TurnInv, PostsTyped, Turn!Lose, Turn!Actions
  <2> QED BY <2>1, <2>2 DEF TurnInv
<1> QED BY <1>1, <1>2, <1>3, TimePassesKeeps, AskToStopKeeps, ResetKeeps, DeliverKeeps DEF Turn!Next

LEMMA TurnImplies == ASSUME TurnInv PROVE Turn!TypeOK /\ Turn!GateIsTimely
<1> USE DEF TurnInv, TimerInv, CallersInv
<1>1. Turn!TypeOK
  BY DEF TimerTyped, PostsTyped, TurnStates, Turn!TypeOK
<1>2. \A n \in 1..MaxTurns : Cardinality(endings[n]) <= 1
  <2> SUFFICES ASSUME NEW n \in 1..MaxTurns PROVE Cardinality(endings[n]) <= 1
    OBVIOUS
  <2>1. endings[n] = {} \/ \E a \in Turn!Actions : endings[n] = {a}
    BY DEF EndsOnce
  <2>2. Cardinality(endings[n]) = 0 \/ Cardinality(endings[n]) = 1
    BY <2>1, FS_EmptySet, FS_Singleton
  <2> QED BY <2>2
<1>3. \A c \in Callers : /\ caller[c].at = "refused" => TRUE \in caller[c].truths
                         /\ caller[c].at = "admitted" => FALSE \in caller[c].truths
  BY DEF AnswerWasTrue, Knows
<1>4. \A n \in 1..MaxTurns : notified[n] = IF "finish" \in endings[n] THEN 1 ELSE 0
  BY DEF EndsOnce
<1>5. \A n \in 1..MaxTurns : Turn!Cardinality(endings[n]) <= 1
  BY <1>2 DEF Cardinality, Turn!Cardinality
<1> QED BY <1>1, <1>3, <1>4, <1>5 DEF Turn!GateIsTimely

LEMMA TurnRests == ASSUME TurnInv, UNCHANGED timer PROVE TurnInv'
<1>1. UNCHANGED <<turn, turns, notified, endings, caller, events, posted>> /\ UNCHANGED manual
  BY DEF timer
<1>2. manual' \in BOOLEAN /\ manual' = manual
  BY <1>1 DEF TurnInv, TimerInv, TimerTyped
<1>3. Turn!WrapUp' = Turn!WrapUp
  BY <1>1 DEF Turn!WrapUp, Turn!Over
<1> QED BY <1>1, <1>2, <1>3
    DEF TurnInv, TimerInv, TimerTyped, LastTurnRuns, EndsOnce, CallersInv, CallersTyped, AnswerWasTrue, PostsTyped

-----------------------------------------------------------------------------
(* The runtime file and the connection pool.                                 *)

LoadPlaces == {"cache", "read", "compare", "again", "final", "store"}
CallPlaces == {"loaded", "send", "answer", "done"}
Instants == 0..MaxInstances
RequestNumbers == 0..MaxRequests
LoaderStates ==
    [at : {"rest"} \cup LoadPlaces \cup CallPlaces, first : Instants, value : Instants, final : Instants,
     files : SUBSET Instants, timely : BOOLEAN, connection : RequestNumbers, request : RequestNumbers, got : RequestNumbers]
ConnectionStates == [instance : Instants, request : RequestNumbers, answer : RequestNumbers, open : BOOLEAN]

FileTyped ==
    /\ instance \in Connection!Instances /\ file \in {0, instance}
    /\ cached \in [signature : Instants, value : Instants]
    /\ loader \in [Threads -> LoaderStates]
DoubtsTyped == alive \in BOOLEAN /\ doubled \in BOOLEAN
PoolTyped ==
    /\ requests \in RequestNumbers
    /\ connections \in [1..MaxRequests -> ConnectionStates]
    /\ idle \in [Connection!Instances -> Seq(1..MaxRequests)]

\* What a load k knows when the file is f, of instance i or none: the files it
\* could have read are among k.files, and only two replacements during one load
\* let it keep what it read under the signature of another file.
Loads(k, f, i, d) ==
    /\ IF k.at \in LoadPlaces
       THEN /\ k.first \in 1..i /\ k.first \in k.files /\ f \in k.files
            /\ Cardinality(k.files \ {0}) > 2 => d
       ELSE k.files = {}
    /\ k.at = "compare" => k.value \in k.files /\ k.value \in k.first..i
    /\ k.at = "again" => k.first < i
    /\ k.at = "final" => k.value \in k.files /\ k.first < k.value /\ k.value <= i
    /\ k.at = "store" => k.value \in k.files /\ k.value # 0 /\ (k.value = k.final \/ d)
    /\ d \/ k.timely
    /\ k.at \in CallPlaces => k.value \in Connection!Instances

FileInv ==
    /\ FileTyped /\ DoubtsTyped
    /\ \A t \in Threads : Loads(loader[t], file, instance, doubled)
    /\ doubled \/ cached.value = 0 \/ cached.signature = cached.value

\* A call k under way has a connection to its instance; its request is the one
\* on it, and an answer there is the answer to it.
Fits(k, c) ==
    /\ k.at \in {"send", "answer"} => c.instance = k.value
    /\ k.at = "send" => c.request = 0 /\ c.answer = 0
    /\ k.at = "answer" => c.request = k.request /\ c.answer \in {0, k.request}
    /\ k.at = "done" => k.got = k.request
Talks(k) ==
    /\ k.at \in {"send", "answer"} => k.connection \in 1..requests
    /\ Fits(k, connections[k.connection])

\* A connection that waits has nothing on it.
Waits(i) ==
    /\ Len(idle[i]) <= MaxIdle
    /\ \A a, b \in 1..Len(idle[i]) : idle[i][a] = idle[i][b] => a = b
    /\ \A a \in 1..Len(idle[i]) :
          /\ idle[i][a] \in 1..requests
          /\ connections[idle[i][a]].instance = i
          /\ connections[idle[i][a]].request = 0 /\ connections[idle[i][a]].answer = 0
          /\ \A t \in Threads : loader[t].at \in {"send", "answer"} => loader[t].connection # idle[i][a]

PoolInv ==
    /\ PoolTyped
    /\ \A t \in Threads : Talks(loader[t])
    /\ \A t, u \in Threads :
          loader[t].at \in {"send", "answer"} /\ loader[u].at \in {"send", "answer"}
             /\ loader[t].connection = loader[u].connection => t = u
    /\ \A i \in Connection!Instances : Waits(i)

ConnectionInv == FileInv /\ PoolInv

LEMMA ConnectionBounds ==
    /\ MaxInstances \in Nat /\ MaxInstances >= 1 /\ MaxRequests \in Nat /\ MaxIdle \in Nat
    /\ Connection!Instances = 1..MaxInstances
  BY BoundsAssumption DEF BoundsAssumption, Connection!Instances

LEMMA CardinalityIs == \A S : Connection!Cardinality(S) = Cardinality(S)
  BY DEF Cardinality, Connection!Cardinality

LEMMA ConnectionInit == Connection!Init => ConnectionInv
<1> SUFFICES ASSUME Connection!Init PROVE ConnectionInv
  OBVIOUS
<1> USE ConnectionBounds DEF Connection!Init, Connection!Resting, Connection!Unused
<1>1. FileTyped
  <2>1. \A t \in Threads : loader[t] \in LoaderStates
    BY DEF LoaderStates, LoadPlaces, CallPlaces, Instants, RequestNumbers
  <2>2. loader \in [Threads -> LoaderStates]
    BY <2>1
  <2>3. instance \in Connection!Instances /\ file \in {0, instance}
    OBVIOUS
  <2>4. cached \in [signature : Instants, value : Instants]
    BY DEF Instants
  <2> QED BY <2>2, <2>3, <2>4 DEF FileTyped
<1>2. doubled = FALSE /\ doubled \in BOOLEAN /\ alive \in BOOLEAN
  OBVIOUS
<1>3. FileInv
  BY <1>1, <1>2 DEF FileInv, DoubtsTyped, Loads, LoadPlaces, CallPlaces
<1>4. PoolTyped
  <2>1. \A n \in 1..MaxRequests : connections[n] \in ConnectionStates
    BY DEF ConnectionStates, Instants, RequestNumbers
  <2>2. \A i \in Connection!Instances : idle[i] \in Seq(1..MaxRequests)
    OBVIOUS
  <2>3. requests \in RequestNumbers
    BY DEF RequestNumbers
  <2>4. connections \in [1..MaxRequests -> ConnectionStates]
    BY <2>1
  <2>5. idle \in [Connection!Instances -> Seq(1..MaxRequests)]
    BY <2>2
  <2> QED BY <2>3, <2>4, <2>5 DEF PoolTyped
<1>5. PoolInv
  <2>1. \A t \in Threads : Talks(loader[t]) /\ loader[t].at = "rest"
    BY DEF Talks, Fits
  <2>2. \A i \in Connection!Instances : Len(idle[i]) = 0
    OBVIOUS
  <2>3. \A i \in Connection!Instances : Waits(i)
    BY <2>2 DEF Waits
  <2> QED BY <1>4, <2>1, <2>3 DEF PoolInv
<1> QED BY <1>3, <1>5 DEF ConnectionInv

-----------------------------------------------------------------------------
\* The sets of files stay small.
LEMMA FilesFinite == ASSUME NEW S \in SUBSET Instants PROVE IsFiniteSet(S) /\ IsFiniteSet(S \ {0})
<1>1. IsFiniteSet(Instants)
  BY ConnectionBounds, FS_Interval DEF Instants
<1>2. S \subseteq Instants /\ S \ {0} \subseteq Instants
  OBVIOUS
<1> QED BY <1>1, <1>2, FS_Subset

LEMMA OneMore ==
    ASSUME NEW S, IsFiniteSet(S), NEW x, x \notin S, NEW n \in Nat, Cardinality(S) = n
    PROVE  IsFiniteSet(S \cup {x}) /\ Cardinality(S \cup {x}) = n + 1
  BY FS_AddElement

LEMMA ThreeFiles ==
    ASSUME NEW S \in SUBSET Instants, NEW a \in S, NEW b \in S, NEW c \in S, 0 < a, a < b, b < c
    PROVE  Cardinality(S \ {0}) > 2
<1> DEFINE A == {a}
           B == A \cup {b}
           C == B \cup {c}
<1>1. a \in Nat /\ b \in Nat /\ c \in Nat /\ b \notin A /\ c \notin B
  BY ConnectionBounds DEF Instants
<1>2. IsFiniteSet(A) /\ Cardinality(A) = 1
  BY FS_Singleton
<1>3. IsFiniteSet(B) /\ Cardinality(B) = 2
  BY <1>1, <1>2, OneMore
<1>4. IsFiniteSet(C) /\ Cardinality(C) = 3
  BY <1>1, <1>3, OneMore
<1>5. C \subseteq S \ {0} /\ IsFiniteSet(S \ {0})
  BY <1>1, FilesFinite
<1>6. Cardinality(C) <= Cardinality(S \ {0}) /\ Cardinality(S \ {0}) \in Nat
  BY <1>5, FS_Subset, FS_CardinalityType
<1> QED BY <1>4, <1>6

LEMMA OneFile == ASSUME NEW f \in Instants PROVE ~(Cardinality({f} \ {0}) > 2)
<1>1. {f} \ {0} = {} \/ {f} \ {0} = {f}
  OBVIOUS
<1>2. Cardinality({f} \ {0}) = 0 \/ Cardinality({f} \ {0}) = 1
  BY <1>1, FS_EmptySet, FS_Singleton
<1> QED BY <1>2

-----------------------------------------------------------------------------
\* One thread goes on.
LEMMA OneThread ==
    ASSUME FileTyped, NEW t \in Threads, NEW next \in LoaderStates,
           loader' = [loader EXCEPT ![t] = next]
    PROVE  /\ loader' \in [Threads -> LoaderStates] /\ loader'[t] = next
           /\ \A u \in Threads \ {t} : loader'[u] = loader[u]
  BY DEF FileTyped

\* What the steps of the loads leave of the pool.
LEMMA PoolKept ==
    ASSUME PoolInv, UNCHANGED <<requests, connections, idle>>,
           \A t \in Threads : loader'[t].at \in {"send", "answer", "done"} =>
              /\ loader'[t].at = loader[t].at /\ loader'[t].connection = loader[t].connection
              /\ loader'[t].value = loader[t].value
              /\ loader'[t].request = loader[t].request /\ loader'[t].got = loader[t].got
    PROVE  PoolInv'
<1>1. PoolTyped'
  BY DEF PoolInv, PoolTyped, Connection!Instances
<1>2. \A t \in Threads : Talks(loader[t])'
  BY DEF PoolInv, Talks, Fits
<1>3. \A i \in Connection!Instances : Waits(i)'
  BY DEF PoolInv, Waits
<1> QED BY <1>1, <1>2, <1>3 DEF PoolInv

\* A request may be answered or a connection closed.
LEMMA ConnectionsKept ==
    ASSUME PoolInv, UNCHANGED <<requests, idle>>, connections' \in [1..MaxRequests -> ConnectionStates],
           \A t \in Threads :
              /\ loader'[t].at = loader[t].at /\ loader'[t].connection = loader[t].connection
              /\ loader'[t].value = loader[t].value
              /\ loader'[t].request = loader[t].request /\ loader'[t].got = loader[t].got,
           \A n \in 1..MaxRequests :
              /\ connections'[n].instance = connections[n].instance
              /\ connections'[n].request = connections[n].request
              /\ connections'[n].answer = connections[n].answer
                    \/ (connections[n].request # 0 /\ connections'[n].answer = connections[n].request)
    PROVE  PoolInv'
<1> USE ConnectionBounds
<1>1. \A n : n \in 1..requests => n \in 1..MaxRequests
  BY DEF PoolInv, PoolTyped, RequestNumbers
<1>2. PoolTyped'
  BY DEF PoolInv, PoolTyped, Connection!Instances
<1>3. ASSUME NEW t \in Threads PROVE Talks(loader[t])'
  <2>1. Talks(loader[t])
    BY DEF PoolInv
  <2> QED BY <1>1, <2>1 DEF Talks, Fits
<1>4. ASSUME NEW i \in Connection!Instances PROVE Waits(i)'
  <2>1. Waits(i)
    BY DEF PoolInv
  <2>2. ASSUME NEW a \in 1..Len(idle[i])
        PROVE  /\ connections'[idle[i][a]].instance = i
               /\ connections'[idle[i][a]].request = 0 /\ connections'[idle[i][a]].answer = 0
    <3> DEFINE n == idle[i][a]
    <3>1. /\ n \in 1..MaxRequests /\ connections[n].instance = i
          /\ connections[n].request = 0 /\ connections[n].answer = 0
      BY <1>1, <2>1 DEF Waits
    <3> QED BY <3>1
  <2> QED BY <2>1, <2>2 DEF Waits
<1> QED BY <1>2, <1>3, <1>4 DEF PoolInv, Connection!Instances

\* The bridge replaces or removes the file: whoever loads remembers it.
LEMMA WritesKeep ==
    ASSUME FileInv, NEW content \in {0, instance'}, Connection!Writes(content), alive' \in BOOLEAN,
           instance' \in Connection!Instances, instance <= instance', UNCHANGED cached
    PROVE  /\ FileInv'
           /\ \A t \in Threads :
                 /\ loader'[t].at = loader[t].at /\ loader'[t].connection = loader[t].connection
                 /\ loader'[t].value = loader[t].value
                 /\ loader'[t].request = loader[t].request /\ loader'[t].got = loader[t].got
<1> USE ConnectionBounds
<1>1. instance \in Nat /\ instance' \in Nat /\ content \in Instants
  BY DEF FileInv, FileTyped, Instants
<1>2. \A t \in Threads : Connection!Loading(t) <=> loader[t].at \in LoadPlaces
  BY DEF Connection!Loading, LoadPlaces
<1>3. \A t \in Threads : loader'[t] = IF loader[t].at \in LoadPlaces
                                    THEN [loader[t] EXCEPT !.files = @ \cup {content}] ELSE loader[t]
  BY <1>2 DEF Connection!Writes
<1>4. \A t \in Threads : loader'[t] \in LoaderStates /\ loader[t] \in LoaderStates
  <2> SUFFICES ASSUME NEW t \in Threads PROVE loader'[t] \in LoaderStates /\ loader[t] \in LoaderStates
    OBVIOUS
  <2>1. loader[t] \in LoaderStates
    BY DEF FileInv, FileTyped
  <2>2. loader[t].files \cup {content} \in SUBSET Instants
    BY <1>1, <2>1 DEF LoaderStates
  <2> QED BY <1>3, <2>1, <2>2 DEF LoaderStates
<1>5. loader' \in [Threads -> LoaderStates]
  BY <1>4 DEF Connection!Writes
<1>6. doubled' \in BOOLEAN /\ (doubled => doubled')
  BY DEF FileInv, DoubtsTyped, Connection!Writes
<1>7. \A t \in Threads : Cardinality(loader'[t].files \ {0}) > 2 => doubled'
  BY CardinalityIs DEF Connection!Writes
<1>8. file' = content
  BY DEF Connection!Writes
<1>9. \A t \in Threads : /\ loader'[t].at = loader[t].at /\ loader'[t].first = loader[t].first
                         /\ loader'[t].value = loader[t].value /\ loader'[t].final = loader[t].final
                         /\ loader'[t].timely = loader[t].timely
                         /\ loader'[t].connection = loader[t].connection
                         /\ loader'[t].request = loader[t].request /\ loader'[t].got = loader[t].got
                         /\ loader[t].at \notin LoadPlaces => loader'[t].files = loader[t].files
                         /\ loader[t].at \in LoadPlaces => loader'[t].files = loader[t].files \cup {content}
  BY <1>3, <1>4 DEF LoaderStates
<1>10. ASSUME NEW t \in Threads PROVE Loads(loader'[t], file', instance', doubled')
  <2>1. Loads(loader[t], file, instance, doubled) /\ loader[t] \in LoaderStates
    BY <1>4 DEF FileInv
  <2>2. CASE loader[t].at \in LoadPlaces
    <3>1. /\ loader[t].first \in 1..instance' /\ loader[t].first \in loader'[t].files
          /\ content \in loader'[t].files
      BY <1>1, <1>9, <2>1, <2>2 DEF Loads
    <3>2. /\ loader[t].at = "compare" => loader[t].value \in loader'[t].files /\ loader[t].value \in loader[t].first..instance'
          /\ loader[t].at = "again" => loader[t].first < instance'
          /\ loader[t].at = "final" => /\ loader[t].value \in loader'[t].files
                                       /\ loader[t].first < loader[t].value /\ loader[t].value <= instance'
          /\ loader[t].at = "store" => loader[t].value \in loader'[t].files /\ loader[t].value # 0
      BY <1>1, <1>9, <2>1, <2>2, <3>1 DEF Loads, LoaderStates, Instants
    <3> QED BY <1>6, <1>7, <1>8, <1>9, <2>1, <2>2, <3>1, <3>2 DEF Loads, LoadPlaces, CallPlaces
  <2>3. CASE loader[t].at \notin LoadPlaces
    BY <1>6, <1>9, <2>1, <2>3 DEF Loads, LoadPlaces, CallPlaces
  <2> QED BY <2>2, <2>3
<1>11. FileTyped'
  BY <1>5, <1>8 DEF FileInv, FileTyped, Connection!Instances
<1> QED BY <1>6, <1>9, <1>10, <1>11 DEF FileInv, DoubtsTyped

LEMMA BridgeStops ==
    ASSUME ConnectionInv, NEW crashes \in BOOLEAN, Connection!Stop(crashes) PROVE ConnectionInv'
<1> USE DEF ConnectionInv
<1>1. alive' \in BOOLEAN /\ UNCHANGED <<instance, cached>>
  BY DEF Connection!Stop
<1>2. instance \in Nat /\ instance \in Connection!Instances
  BY ConnectionBounds DEF FileInv, FileTyped
<1>3. /\ FileInv'
      /\ \A t \in Threads :
            /\ loader'[t].at = loader[t].at /\ loader'[t].connection = loader[t].connection
            /\ loader'[t].value = loader[t].value
            /\ loader'[t].request = loader[t].request /\ loader'[t].got = loader[t].got
  <2>1. CASE crashes
    <3>1. UNCHANGED <<file, loader, doubled>>
      BY <2>1 DEF Connection!Stop
    <3>2. doubled' \in BOOLEAN
      BY <3>1 DEF FileInv, DoubtsTyped
    <3> QED BY <1>1, <3>1, <3>2 DEF FileInv, FileTyped, DoubtsTyped, Connection!Instances
  <2>2. CASE ~crashes
    <3>1. Connection!Writes(0)
      BY <2>2 DEF Connection!Stop
    <3> QED BY <1>1, <1>2, <3>1, WritesKeep
  <2> QED BY <2>1, <2>2
<1>4. /\ UNCHANGED <<requests, idle>>
      /\ \A n \in 1..MaxRequests :
            /\ connections'[n].instance = connections[n].instance
            /\ connections'[n].request = connections[n].request
            /\ connections'[n].answer = connections[n].answer
      /\ connections' \in [1..MaxRequests -> ConnectionStates]
  <2>1. connections \in [1..MaxRequests -> ConnectionStates]
    BY DEF PoolInv, PoolTyped
  <2>2. connections' = [n \in 1..MaxRequests |->
              [connections[n] EXCEPT !.open = @ /\ connections[n].instance # instance]]
    BY <2>1 DEF Connection!Stop, Connection!Closed
  <2>3. \A n \in 1..MaxRequests : connections'[n] \in ConnectionStates
    BY <2>1, <2>2 DEF ConnectionStates
  <2> QED BY <2>1, <2>2, <2>3 DEF ConnectionStates, Connection!Stop
<1>5. /\ UNCHANGED <<requests, idle>> /\ connections' \in [1..MaxRequests -> ConnectionStates]
      /\ \A n \in 1..MaxRequests :
            /\ connections'[n].instance = connections[n].instance
            /\ connections'[n].request = connections[n].request
            /\ connections'[n].answer = connections[n].answer
                  \/ (connections[n].request # 0 /\ connections'[n].answer = connections[n].request)
  BY <1>4
<1>6. PoolInv'
  BY <1>3, <1>5, ConnectionsKept
<1> QED BY <1>3, <1>6

LEMMA ConnectionStartKeeps == ASSUME ConnectionInv, Connection!Start PROVE ConnectionInv'
<1> USE ConnectionBounds DEF ConnectionInv
<1>1. instance' \in Connection!Instances /\ instance <= instance' /\ instance + 1 = instance'
  BY DEF Connection!Start, FileInv, FileTyped
<1>2. alive' \in BOOLEAN /\ UNCHANGED cached /\ Connection!Writes(instance + 1)
  BY DEF Connection!Start
<1>3. FileInv'
  BY <1>1, <1>2, WritesKeep
<1>4. UNCHANGED <<requests, connections, idle>>
  BY DEF Connection!Start
<1>5. PoolInv'
  BY <1>1, <1>2, <1>4, WritesKeep, PoolKept
<1> QED BY <1>3, <1>5

LEMMA AnswerKeeps ==
    ASSUME ConnectionInv, NEW n \in 1..MaxRequests, Connection!Answer(n) PROVE ConnectionInv'
<1> USE ConnectionBounds DEF ConnectionInv
<1>1. UNCHANGED <<instance, file, cached, loader, requests, idle>>
  BY DEF Connection!Answer
<1>2. FileInv'
  <2>1. UNCHANGED alive /\ UNCHANGED doubled
    BY DEF Connection!Answer
  <2>2. alive' \in BOOLEAN /\ doubled' \in BOOLEAN
    BY <2>1 DEF FileInv, DoubtsTyped
  <2> QED BY <1>1, <2>1, <2>2 DEF FileInv, FileTyped, DoubtsTyped, Connection!Instances
<1>3. connections \in [1..MaxRequests -> ConnectionStates]
  BY DEF PoolInv, PoolTyped
<1>4. PICK open \in BOOLEAN :
        connections' = [connections EXCEPT ![n].answer = connections[n].request, ![n].open = open]
  BY DEF Connection!Answer
<1>5. connections' \in [1..MaxRequests -> ConnectionStates]
  BY <1>3, <1>4 DEF ConnectionStates
<1>6. /\ \A m \in 1..MaxRequests :
            /\ connections'[m].instance = connections[m].instance
            /\ connections'[m].request = connections[m].request
            /\ m # n => connections'[m].answer = connections[m].answer
      /\ connections'[n].answer = connections[n].request /\ connections[n].request # 0
  BY <1>3, <1>4 DEF ConnectionStates, Connection!Answer
<1>7. /\ UNCHANGED <<requests, idle>> /\ connections' \in [1..MaxRequests -> ConnectionStates]
      /\ \A m \in 1..MaxRequests :
            /\ connections'[m].instance = connections[m].instance
            /\ connections'[m].request = connections[m].request
            /\ connections'[m].answer = connections[m].answer
                  \/ (connections[m].request # 0 /\ connections'[m].answer = connections[m].request)
  BY <1>1, <1>5, <1>6
<1>8. \A t \in Threads :
        /\ loader'[t].at = loader[t].at /\ loader'[t].connection = loader[t].connection
        /\ loader'[t].value = loader[t].value
        /\ loader'[t].request = loader[t].request /\ loader'[t].got = loader[t].got
  BY <1>1
<1>9. PoolInv'
  BY <1>7, <1>8, ConnectionsKept
<1> QED BY <1>2, <1>9

-----------------------------------------------------------------------------
(* The steps of a load.                                                      *)

\* A step of thread t that changes what it knows and, perhaps, the cache.
LEMMA LoadStep ==
    ASSUME ConnectionInv, NEW t \in Threads, NEW next \in LoaderStates,
           loader' = [loader EXCEPT ![t] = next], Connection!Keeps,
           Loads(next, file, instance, doubled), next.at \notin {"send", "answer", "done"},
           cached' \in [signature : Instants, value : Instants],
           doubled \/ cached'.value = 0 \/ cached'.signature = cached'.value
    PROVE  ConnectionInv'
<1> USE DEF ConnectionInv, Connection!Keeps
<1>1. /\ loader' \in [Threads -> LoaderStates] /\ loader'[t] = next
      /\ \A u \in Threads \ {t} : loader'[u] = loader[u]
  BY OneThread DEF FileInv
<1>2. doubled' = doubled /\ doubled' \in BOOLEAN /\ alive' \in BOOLEAN
  BY DEF FileInv, DoubtsTyped
<1>3. FileTyped'
  BY <1>1 DEF FileInv, FileTyped, Connection!Instances
<1>4. \A u \in Threads : Loads(loader'[u], file', instance', doubled')
  BY <1>1, <1>2 DEF FileInv
<1>5. FileInv'
  BY <1>2, <1>3, <1>4 DEF FileInv, DoubtsTyped
<1>6. PoolInv'
  BY <1>1, PoolKept
<1> QED BY <1>5, <1>6

\* What a load is and knows.
LEMMA LoadFacts ==
    ASSUME ConnectionInv, NEW t \in Threads
    PROVE  /\ loader[t] \in LoaderStates /\ Loads(loader[t], file, instance, doubled)
           /\ instance \in 1..MaxInstances /\ file \in {0, instance} /\ file \in Instants
           /\ MaxInstances \in Nat /\ instance \in Nat /\ \A n \in Instants : n \in Nat
           /\ 1..MaxInstances \subseteq Instants /\ 0 \in Instants
           /\ cached \in [signature : Instants, value : Instants]
           /\ doubled \/ cached.value = 0 \/ cached.signature = cached.value
  BY ConnectionBounds DEF ConnectionInv, FileInv, FileTyped, Instants

LEMMA NoFileKeeps ==
    ASSUME ConnectionInv, NEW t \in Threads, Connection!NoFile(t), Connection!Keeps
    PROVE  ConnectionInv'
<1> DEFINE next == Connection!Resting
<1>1. next \in LoaderStates /\ Loads(next, file, instance, doubled) /\ next.at = "rest"
  BY ConnectionBounds, LoadFacts DEF Connection!Resting, LoaderStates, Instants, RequestNumbers, Loads, LoadPlaces, CallPlaces
<1>2. cached' \in [signature : Instants, value : Instants] /\ cached'.value = 0
  BY LoadFacts DEF Connection!NoFile
<1> QED BY <1>1, <1>2, LoadStep DEF Connection!NoFile

LEMMA BeginKeeps == ASSUME ConnectionInv, NEW t \in Threads, Connection!Begin(t) PROVE ConnectionInv'
<1>1. CASE file = 0
  BY <1>1, NoFileKeeps DEF Connection!Begin
<1>2. CASE file # 0
  <2> DEFINE next == [loader[t] EXCEPT !.at = "cache", !.first = file, !.files = {file}]
  <2>1. loader' = [loader EXCEPT ![t] = next] /\ Connection!Keeps /\ UNCHANGED cached
    BY <1>2 DEF Connection!Begin, Connection!Becomes
  <2>2. file \in 1..instance /\ file \in Instants /\ {file} \in SUBSET Instants
    BY <1>2, LoadFacts DEF Instants
  <2>3. next \in LoaderStates /\ next.at = "cache" /\ next.first = file /\ next.files = {file}
        /\ next.timely = loader[t].timely
    BY <2>2, LoadFacts DEF LoaderStates, LoadPlaces
  <2>4. Loads(next, file, instance, doubled)
    BY <2>2, <2>3, OneFile, LoadFacts DEF Loads, LoadPlaces, CallPlaces
  <2> QED BY <2>1, <2>3, <2>4, LoadFacts, LoadStep
<1> QED BY <1>1, <1>2

LEMMA LoadedIs ==
    ASSUME ConnectionInv, NEW t \in Threads, NEW v \in Connection!Instances,
           doubled \/ v \in loader[t].files
    PROVE  /\ Connection!Loaded(t, v) \in LoaderStates
           /\ Connection!Loaded(t, v).at = "loaded"
           /\ Loads(Connection!Loaded(t, v), file, instance, doubled)
<1> DEFINE next == Connection!Loaded(t, v)
<1>1. v \in Instants /\ 0 \in Instants /\ (v \in loader[t].files) \in BOOLEAN
  BY ConnectionBounds DEF Instants
<1>2. /\ next \in LoaderStates /\ next.at = "loaded" /\ next.value = v /\ next.files = {}
      /\ next.timely = (v \in loader[t].files)
  BY <1>1, LoadFacts DEF Connection!Loaded, LoaderStates, CallPlaces
<1> QED BY <1>2 DEF Loads, LoadPlaces, CallPlaces

LEMMA LookUpKeeps == ASSUME ConnectionInv, NEW t \in Threads, Connection!LookUp(t) PROVE ConnectionInv'
<1> USE DEF Connection!LookUp, Connection!Becomes, Connection!At
<1>1. CASE cached.value # 0 /\ cached.signature = loader[t].first
  <2>1. cached.value \in Connection!Instances
    BY <1>1, LoadFacts, ConnectionBounds DEF Instants
  <2>2. doubled \/ cached.value \in loader[t].files
    BY <1>1, LoadFacts DEF Loads, LoadPlaces
  <2>3. loader' = [loader EXCEPT ![t] = Connection!Loaded(t, cached.value)] /\ Connection!Keeps /\ UNCHANGED cached
    BY <1>1
  <2> QED BY <2>1, <2>2, <2>3, LoadedIs, LoadFacts, LoadStep
<1>2. CASE ~(cached.value # 0 /\ cached.signature = loader[t].first)
  <2> DEFINE next == [loader[t] EXCEPT !.at = "read"]
  <2>1. loader' = [loader EXCEPT ![t] = next] /\ Connection!Keeps /\ UNCHANGED cached
    BY <1>2
  <2>2. next \in LoaderStates /\ next.at = "read" /\ next.first = loader[t].first /\ next.files = loader[t].files
        /\ next.timely = loader[t].timely
    BY LoadFacts DEF LoaderStates, LoadPlaces
  <2>3. Loads(next, file, instance, doubled)
    BY <2>2, LoadFacts DEF Loads, LoadPlaces, CallPlaces
  <2> QED BY <2>1, <2>2, <2>3, LoadFacts, LoadStep
<1> QED BY <1>1, <1>2

LEMMA ReadKeeps == ASSUME ConnectionInv, NEW t \in Threads, Connection!Read(t) PROVE ConnectionInv'
<1>1. CASE file = 0
  BY <1>1, NoFileKeeps DEF Connection!Read
<1>2. CASE file # 0
  <2> DEFINE next == [loader[t] EXCEPT !.at = IF @ = "read" THEN "compare" ELSE "final", !.value = file]
  <2>1. /\ loader' = [loader EXCEPT ![t] = next] /\ Connection!Keeps /\ UNCHANGED cached
        /\ loader[t].at \in {"read", "again"}
    BY <1>2 DEF Connection!Read, Connection!Becomes
  <2>2. /\ next \in LoaderStates /\ next.at = (IF loader[t].at = "read" THEN "compare" ELSE "final")
        /\ next.first = loader[t].first /\ next.files = loader[t].files /\ next.value = file
        /\ next.timely = loader[t].timely
    BY LoadFacts DEF LoaderStates, LoadPlaces
  <2>3. file = instance /\ loader[t].first \in 1..instance /\ file \in loader[t].files
    BY <1>2, <2>1, LoadFacts DEF Loads, LoadPlaces
  <2>4. loader[t].at = "again" => loader[t].first < file
    BY <2>3, LoadFacts DEF Loads
  <2>5. Loads(next, file, instance, doubled)
    <3>1. /\ loader[t].first \in loader[t].files /\ (Cardinality(loader[t].files \ {0}) > 2 => doubled)
          /\ doubled \/ loader[t].timely
      BY <2>1, LoadFacts DEF Loads, LoadPlaces
    <3>2. file \in Nat /\ instance \in Nat
      BY LoadFacts
    <3>3. CASE loader[t].at = "read"
      <4>1. next.at = "compare"
        BY <2>2, <3>3
      <4>2. next.value \in next.first..instance
        BY <2>2, <2>3, <3>2
      <4> QED BY <2>2, <2>3, <3>1, <4>1, <4>2 DEF Loads, LoadPlaces, CallPlaces
    <3>4. CASE loader[t].at = "again"
      <4>1. next.at = "final"
        BY <2>2, <3>4
      <4>2. next.first < next.value /\ next.value <= instance
        BY <2>2, <2>3, <2>4, <3>2, <3>4
      <4> QED BY <2>2, <2>3, <3>1, <4>1, <4>2 DEF Loads, LoadPlaces, CallPlaces
    <3> QED BY <2>1, <3>3, <3>4
  <2>6. next.at \notin {"send", "answer", "done"}
    BY <2>2
  <2>7. cached' \in [signature : Instants, value : Instants] /\ (doubled \/ cached'.value = 0 \/ cached'.signature = cached'.value)
    BY <2>1, LoadFacts
  <2> HIDE DEF next
  <2> QED BY <2>1, <2>2, <2>5, <2>6, <2>7, LoadStep
<1> QED BY <1>1, <1>2

LEMMA CompareKeeps == ASSUME ConnectionInv, NEW t \in Threads, Connection!Compare(t) PROVE ConnectionInv'
<1>1. CASE file = 0
  BY <1>1, NoFileKeeps DEF Connection!Compare
<1>2. CASE file # 0
  <2> DEFINE again == loader[t].at = "compare" /\ file # loader[t].first
             next == [loader[t] EXCEPT !.at = IF @ = "compare" /\ Connection!Replaced(t) THEN "again" ELSE "store",
                                       !.final = file]
  <2>1. /\ loader' = [loader EXCEPT ![t] = next] /\ Connection!Keeps /\ UNCHANGED cached
        /\ loader[t].at \in {"compare", "final"}
    BY <1>2 DEF Connection!Compare, Connection!Becomes
  <2>2. /\ next \in LoaderStates /\ next.at = (IF again THEN "again" ELSE "store")
        /\ next.first = loader[t].first /\ next.files = loader[t].files /\ next.value = loader[t].value
        /\ next.timely = loader[t].timely /\ next.final = file
    BY LoadFacts DEF LoaderStates, LoadPlaces, Connection!Replaced
  <2>3. /\ file = instance /\ loader[t].first \in 1..instance /\ file \in loader[t].files
        /\ loader[t].value \in loader[t].files /\ loader[t].first \in loader[t].files
        /\ loader[t].files \in SUBSET Instants /\ loader[t].value \in loader[t].first..instance
        /\ Cardinality(loader[t].files \ {0}) > 2 => doubled
    BY <1>2, <2>1, LoadFacts DEF Loads, LoadPlaces, LoaderStates, Instants
  <2>4. loader[t].at = "compare" /\ ~again => loader[t].value = file
    BY <2>3
  <2>5. loader[t].at = "final" => loader[t].value = file \/ doubled
    <3>1. loader[t].at = "final" => loader[t].first < loader[t].value
      BY LoadFacts DEF Loads
    <3>2. loader[t].at = "final" /\ loader[t].value # file => Cardinality(loader[t].files \ {0}) > 2
      <4> SUFFICES ASSUME loader[t].first < loader[t].value, loader[t].value # file
                   PROVE  Cardinality(loader[t].files \ {0}) > 2
        BY <3>1
      <4>1. 0 < loader[t].first /\ loader[t].value < file
        BY <2>3, LoadFacts
      <4> QED BY <2>3, <4>1, ThreeFiles
    <3> QED BY <2>3, <3>2
  <2>6. loader[t].value # 0 /\ (again => loader[t].first < instance)
    BY <2>3, LoadFacts
  <2>7. Loads(next, file, instance, doubled)
    <3>1. loader[t].timely \/ doubled
      BY LoadFacts DEF Loads
    <3>2. again => next.at = "again"
      BY <2>2
    <3>3. ~again => next.at = "store" /\ (loader[t].value = file \/ doubled)
      BY <2>1, <2>2, <2>4, <2>5
    <3> HIDE DEF next, again
    <3> QED BY <2>2, <2>3, <2>6, <3>1, <3>2, <3>3 DEF Loads, LoadPlaces, CallPlaces
  <2>8. next.at \notin {"send", "answer", "done"}
    BY <2>2
  <2>9. cached' \in [signature : Instants, value : Instants] /\ (doubled \/ cached'.value = 0 \/ cached'.signature = cached'.value)
    BY <2>1, LoadFacts
  <2> HIDE DEF next
  <2> QED BY <2>1, <2>2, <2>7, <2>8, <2>9, LoadStep
<1> QED BY <1>1, <1>2

LEMMA StoreKeeps == ASSUME ConnectionInv, NEW t \in Threads, Connection!Store(t) PROVE ConnectionInv'
<1> DEFINE v == loader[t].value
<1>1. /\ loader' = [loader EXCEPT ![t] = Connection!Loaded(t, v)] /\ Connection!Keeps
      /\ cached' = [signature |-> loader[t].final, value |-> v] /\ loader[t].at = "store"
  BY DEF Connection!Store, Connection!Becomes, Connection!At
<1>2. v \in Connection!Instances /\ v \in loader[t].files /\ (v = loader[t].final \/ doubled)
  <2>1. v \in Instants /\ v # 0 /\ v \in loader[t].files /\ (v = loader[t].final \/ doubled)
    BY <1>1, LoadFacts DEF Loads, LoaderStates
  <2> QED BY <2>1, ConnectionBounds DEF Instants
<1>3. cached' \in [signature : Instants, value : Instants]
  BY <1>1, LoadFacts DEF LoaderStates
<1> QED BY <1>1, <1>2, <1>3, LoadedIs, LoadStep

-----------------------------------------------------------------------------
(* The steps of the pool.                                                    *)

\* A step of a call leaves the files and what other threads know of them alone.
LEMMA FileKept ==
    ASSUME ConnectionInv, NEW t \in Threads, NEW next \in LoaderStates, Connection!Settled,
           loader' = [loader EXCEPT ![t] = next], next.at \notin LoadPlaces, next.files = {},
           next.timely \/ doubled, next.at \in CallPlaces => next.value \in Connection!Instances
    PROVE  FileInv'
<1> USE DEF ConnectionInv, Connection!Settled
<1>1. /\ loader' \in [Threads -> LoaderStates] /\ loader'[t] = next
      /\ \A u \in Threads \ {t} : loader'[u] = loader[u]
  BY OneThread DEF FileInv
<1>2. UNCHANGED <<instance, file, cached>>
  OBVIOUS
<1>3. doubled' = doubled /\ doubled' \in BOOLEAN /\ alive' \in BOOLEAN
  BY DEF FileInv, DoubtsTyped
<1>4. FileTyped'
  BY <1>1, <1>2 DEF FileInv, FileTyped, Connection!Instances
<1>5. Loads(next, file, instance, doubled)
  BY DEF Loads, LoadPlaces
<1>6. \A u \in Threads : Loads(loader'[u], file', instance', doubled')
  BY <1>1, <1>2, <1>3, <1>5 DEF FileInv
<1> QED BY <1>2, <1>3, <1>4, <1>6 DEF FileInv, DoubtsTyped

\* A call under way is no load.
LEMMA CallFacts ==
    ASSUME ConnectionInv, NEW t \in Threads, loader[t].at \in CallPlaces
    PROVE  /\ loader[t] \in LoaderStates /\ loader[t].files = {} /\ (loader[t].timely \/ doubled)
           /\ loader[t].value \in Connection!Instances /\ Talks(loader[t])
  BY LoadFacts DEF Loads, LoadPlaces, CallPlaces, ConnectionInv, PoolInv

LEMMA PoolFacts ==
    ASSUME ConnectionInv
    PROVE  /\ MaxRequests \in Nat /\ requests \in Nat /\ requests <= MaxRequests
           /\ connections \in [1..MaxRequests -> ConnectionStates]
           /\ idle \in [Connection!Instances -> Seq(1..MaxRequests)]
           /\ \A i \in Connection!Instances : Waits(i)
           /\ \A n \in 1..requests : n \in 1..MaxRequests
  BY ConnectionBounds DEF ConnectionInv, PoolInv, PoolTyped, RequestNumbers

\* Connection n changes hands, used by none but thread t, which goes on with next.
MovesOn(t, next, n) ==
    /\ next \in LoaderStates /\ loader' = [loader EXCEPT ![t] = next]
    /\ requests' \in RequestNumbers /\ requests <= requests'
    /\ next.at \in {"send", "answer"} => next.connection = n /\ n \in 1..requests'
    /\ Fits(next, connections'[n])
    /\ connections' \in [1..MaxRequests -> ConnectionStates]
    /\ \A m \in 1..requests : m # n =>
          /\ connections'[m].instance = connections[m].instance
          /\ connections'[m].request = connections[m].request
          /\ connections'[m].answer = connections[m].answer
    /\ \A u \in Threads : u # t /\ loader[u].at \in {"send", "answer"} => loader[u].connection # n

Absent(n, i) == \A a \in 1..Len(idle[i]) : idle[i][a] # n
AllWait == \A i \in Connection!Instances : Waits(i)

\* A connection n that changes hands, used by none but thread t, disturbs no
\* other call and no list of connections without it.
LEMMA WaitsFrame ==
    ASSUME ConnectionInv, NEW t \in Threads, NEW next, NEW n, MovesOn(t, next, n),
           NEW i \in Connection!Instances, idle'[i] = idle[i], Absent(n, i)
    PROVE  Waits(i)'
<1> USE DEF MovesOn, Absent
<1>1. Waits(i) /\ requests \in Nat /\ requests' \in Nat
  BY PoolFacts DEF RequestNumbers
<1>2. /\ loader'[t] = next
      /\ \A u \in Threads \ {t} : loader'[u] = loader[u]
  BY OneThread DEF ConnectionInv, FileInv
<1>3. ASSUME NEW a \in 1..Len(idle[i])
      PROVE  /\ idle[i][a] \in 1..requests'
             /\ connections'[idle[i][a]].instance = i
             /\ connections'[idle[i][a]].request = 0 /\ connections'[idle[i][a]].answer = 0
  BY <1>1 DEF Waits
<1>4. ASSUME NEW a \in 1..Len(idle[i]), NEW u \in Threads, loader'[u].at \in {"send", "answer"}
      PROVE  loader'[u].connection # idle[i][a]
  <2>1. CASE u = t
    BY <1>2, <1>4, <2>1
  <2>2. CASE u # t
    BY <1>1, <1>2, <1>4, <2>2 DEF Waits
  <2> QED BY <2>1, <2>2
<1> QED BY <1>1, <1>3, <1>4 DEF Waits

LEMMA PoolFrame ==
    ASSUME ConnectionInv, NEW t \in Threads, NEW next, NEW n, MovesOn(t, next, n), AllWait',
           idle' \in [Connection!Instances -> Seq(1..MaxRequests)]
    PROVE  PoolInv'
<1> USE DEF MovesOn
<1>1. /\ loader'[t] = next
      /\ \A u \in Threads \ {t} : loader'[u] = loader[u]
  BY OneThread DEF ConnectionInv, FileInv
<1>2. requests \in Nat /\ requests' \in Nat
  BY PoolFacts DEF RequestNumbers
<1>3. ASSUME NEW u \in Threads, u # t PROVE Talks(loader[u])'
  <2>1. Talks(loader[u]) /\ loader'[u] = loader[u]
    BY <1>1, <1>3 DEF ConnectionInv, PoolInv
  <2>2. loader[u].at \in {"send", "answer"} => loader[u].connection # n
    BY <1>3
  <2> QED BY <1>2, <2>1, <2>2 DEF Talks, Fits
<1>4. \A u, w \in Threads :
          loader'[u].at \in {"send", "answer"} /\ loader'[w].at \in {"send", "answer"}
             /\ loader'[u].connection = loader'[w].connection => u = w
  BY <1>1 DEF ConnectionInv, PoolInv
<1>5. PoolTyped'
  BY DEF PoolTyped, Connection!Instances
<1>6. Talks(loader[t])'
  <2>1. next.at \in {"send", "answer"} => Fits(next, connections'[next.connection])
    OBVIOUS
  <2>2. ~(next.at \in {"send", "answer"}) => Fits(next, connections'[next.connection])
    BY DEF Fits
  <2> QED BY <1>1, <2>1, <2>2 DEF Talks
<1> QED BY <1>3, <1>4, <1>5, <1>6 DEF PoolInv, AllWait, Connection!Instances

LEMMA CloseIs ==
    ASSUME ConnectionInv, NEW n \in 1..MaxRequests, connections' = [connections EXCEPT ![n].open = FALSE]
    PROVE  /\ connections' \in [1..MaxRequests -> ConnectionStates]
           /\ \A m \in 1..MaxRequests :
                 /\ connections'[m].instance = connections[m].instance
                 /\ connections'[m].request = connections[m].request
                 /\ connections'[m].answer = connections[m].answer
  BY PoolFacts DEF ConnectionStates

LEMMA FrontIs ==
    ASSUME NEW S, NEW s \in Seq(S), s # <<>>
    PROVE  /\ Len(s) \in Nat \ {0} /\ s[Len(s)] \in S
           /\ SubSeq(s, 1, Len(s) - 1) \in Seq(S) /\ Len(SubSeq(s, 1, Len(s) - 1)) = Len(s) - 1
           /\ \A a \in 1..(Len(s) - 1) : SubSeq(s, 1, Len(s) - 1)[a] = s[a]
<1>1. Len(s) \in Nat \ {0}
  BY EmptySeq
<1>2. \A i \in 1..(Len(s) - 1) : s[i] \in S
  BY <1>1, ElementOfSeq
<1>3. 1 \in Int /\ Len(s) - 1 \in Int
  BY <1>1
<1>4. /\ SubSeq(s, 1, Len(s) - 1) \in Seq(S)
      /\ Len(SubSeq(s, 1, Len(s) - 1)) = IF 1 <= Len(s) - 1 THEN (Len(s) - 1) - 1 + 1 ELSE 0
      /\ \A i \in 1..((Len(s) - 1) - 1 + 1) : SubSeq(s, 1, Len(s) - 1)[i] = s[1 + i - 1]
  BY <1>2, <1>3, SubSeqProperties
<1>5. s[Len(s)] \in S
  <2>1. Len(s) \in 1..Len(s)
    BY <1>1
  <2> QED BY <2>1, ElementOfSeq
<1>6. Len(SubSeq(s, 1, Len(s) - 1)) = Len(s) - 1
  <2>1. PICK k, m : k = Len(s) /\ m = Len(SubSeq(s, 1, Len(s) - 1))
    OBVIOUS
  <2>2. m = (IF 1 <= k - 1 THEN (k - 1) - 1 + 1 ELSE 0) /\ k \in Nat \ {0}
    BY <1>1, <1>4, <2>1
  <2>3. m = k - 1
    BY <2>2
  <2> QED BY <2>1, <2>3
<1>7. ASSUME NEW a \in 1..(Len(s) - 1) PROVE SubSeq(s, 1, Len(s) - 1)[a] = s[a]
  <2>1. a \in 1..((Len(s) - 1) - 1 + 1) /\ 1 + a - 1 = a
    BY <1>1
  <2> QED BY <1>4, <2>1
<1> QED BY <1>1, <1>4, <1>5, <1>6, <1>7

LEMMA AcquireKeeps == ASSUME ConnectionInv, NEW t \in Threads, Connection!Acquire(t) PROVE ConnectionInv'
<1>0. PICK v, s, n, use : /\ v = loader[t].value /\ s = idle[v] /\ n = s[Len(s)]
                          /\ use = [loader[t] EXCEPT !.at = "send", !.connection = n]
  OBVIOUS
<1>1. /\ loader[t].at = "loaded" /\ s # <<>> /\ requests' = requests /\ Connection!Settled
      /\ idle' = [idle EXCEPT ![v] = SubSeq(s, 1, Len(s) - 1)]
      /\ \/ loader' = [loader EXCEPT ![t] = use] /\ UNCHANGED connections
         \/ connections' = [connections EXCEPT ![n].open = FALSE] /\ UNCHANGED loader
  BY <1>0 DEF Connection!Acquire, Connection!At, Connection!Key, Connection!Usable, Connection!Becomes,
         Connection!Last, Connection!Front
<1>2. /\ loader[t] \in LoaderStates /\ loader[t].files = {} /\ (loader[t].timely \/ doubled)
      /\ v \in Connection!Instances
  BY <1>0, <1>1, CallFacts DEF CallPlaces
<1>3. /\ s \in Seq(1..MaxRequests) /\ Waits(v) /\ requests \in Nat /\ MaxIdle \in Nat
  BY <1>0, <1>2, PoolFacts, ConnectionBounds
<1>4. Len(s) \in Nat \ {0} /\ n \in 1..MaxRequests /\ Len(s) \in 1..Len(s)
  <2>1. Len(s) \in Nat \ {0} /\ s[Len(s)] \in 1..MaxRequests
    BY <1>1, <1>3, FrontIs
  <2> QED BY <1>0, <2>1
<1>5. /\ n \in 1..requests /\ connections[n].instance = v
      /\ connections[n].request = 0 /\ connections[n].answer = 0
      /\ \A u \in Threads : loader[u].at \in {"send", "answer"} => loader[u].connection # n
  BY <1>0, <1>3, <1>4 DEF Waits
<1>6. /\ idle' \in [Connection!Instances -> Seq(1..MaxRequests)]
      /\ \A i \in Connection!Instances \ {v} : idle'[i] = idle[i]
      /\ Len(idle'[v]) = Len(s) - 1
      /\ \A a \in 1..(Len(s) - 1) : idle'[v][a] = s[a]
  <2>1. /\ SubSeq(s, 1, Len(s) - 1) \in Seq(1..MaxRequests) /\ Len(SubSeq(s, 1, Len(s) - 1)) = Len(s) - 1
        /\ \A a \in 1..(Len(s) - 1) : SubSeq(s, 1, Len(s) - 1)[a] = s[a]
    BY <1>1, <1>3, FrontIs
  <2>2. idle'[v] = SubSeq(s, 1, Len(s) - 1) /\ \A i \in Connection!Instances \ {v} : idle'[i] = idle[i]
    BY <1>1, <1>2, PoolFacts
  <2>3. idle' \in [Connection!Instances -> Seq(1..MaxRequests)]
    BY <1>1, <1>2, <2>1, PoolFacts
  <2> QED BY <2>1, <2>2, <2>3
<1>7. \A a \in 1..(Len(s) - 1) : a \in 1..Len(s) /\ s[a] # n
  <2>1. \A a, b \in 1..Len(s) : s[a] = s[b] => a = b
    BY <1>0, <1>3 DEF Waits
  <2> QED BY <1>0, <1>4, <2>1
<1>8. \A i \in Connection!Instances \ {v} : \A a \in 1..Len(idle[i]) : idle[i][a] # n
  BY <1>5, PoolFacts DEF Waits
<1>9. PICK next \in LoaderStates :
         /\ loader' = [loader EXCEPT ![t] = next]
         /\ next.at = "loaded" \/ (next.at = "send" /\ next.connection = n)
         /\ next.value = v /\ next.files = {} /\ (next.timely \/ doubled)
  <2>1. /\ use \in LoaderStates /\ use.at = "send" /\ use.connection = n
        /\ use.value = v /\ use.files = {} /\ use.timely = loader[t].timely
    <3>1. n \in RequestNumbers /\ "send" \in CallPlaces
      BY <1>4, ConnectionBounds DEF CallPlaces, RequestNumbers
    <3> QED BY <1>0, <1>2, <3>1 DEF LoaderStates
  <2>2. loader = [loader EXCEPT ![t] = loader[t]]
    BY DEF ConnectionInv, FileInv, FileTyped
  <2>3. CASE loader' = [loader EXCEPT ![t] = use]
    BY <1>2, <2>1, <2>3
  <2>4. CASE UNCHANGED loader
    BY <1>0, <1>1, <1>2, <2>2, <2>4
  <2> QED BY <1>1, <2>3, <2>4
<1>10. /\ connections' \in [1..MaxRequests -> ConnectionStates]
       /\ \A m \in 1..MaxRequests :
              /\ connections'[m].instance = connections[m].instance
              /\ connections'[m].request = connections[m].request
              /\ connections'[m].answer = connections[m].answer
  BY <1>1, <1>4, CloseIs, PoolFacts
<1>11. /\ loader'[t] = next /\ \A u \in Threads \ {t} : loader'[u] = loader[u]
  BY <1>9, OneThread DEF ConnectionInv, FileInv
<1>12. FileInv'
  BY <1>1, <1>2, <1>9, FileKept DEF LoadPlaces
<1>13. /\ next.at \in {"send", "answer"} => n \in 1..requests'
      /\ Fits(next, connections'[n])
  BY <1>1, <1>4, <1>5, <1>9, <1>10, <1>11 DEF Talks, Fits
<1>14. requests' \in RequestNumbers /\ requests' \in Nat /\ requests <= requests'
  BY <1>1, PoolFacts DEF RequestNumbers
<1>15. \A m \in 1..requests : m # n =>
              /\ connections'[m].instance = connections[m].instance
              /\ connections'[m].request = connections[m].request
              /\ connections'[m].answer = connections[m].answer
  BY <1>10, PoolFacts
<1>19. MovesOn(t, next, n)
  <2>1. \A u \in Threads : u # t /\ loader[u].at \in {"send", "answer"} => loader[u].connection # n
    BY <1>5
  <2> QED BY <1>9, <1>10, <1>13, <1>14, <1>15, <2>1 DEF MovesOn
<1>16. ASSUME NEW i \in Connection!Instances, i # v PROVE Waits(i)'
  <2>1. idle'[i] = idle[i] /\ Absent(n, i)
    BY <1>6, <1>8, <1>16 DEF Absent
  <2> QED BY <1>19, <2>1, WaitsFrame
<1>17. Waits(v)'
  <2>1. Len(idle'[v]) <= MaxIdle
    BY <1>0, <1>3, <1>4, <1>6 DEF Waits
  <2>2. \A a, b \in 1..Len(idle'[v]) : idle'[v][a] = idle'[v][b] => a = b
    BY <1>0, <1>3, <1>6, <1>7 DEF Waits
  <2>3. ASSUME NEW a \in 1..Len(idle'[v])
        PROVE  /\ idle'[v][a] \in 1..requests'
               /\ connections'[idle'[v][a]].instance = v
               /\ connections'[idle'[v][a]].request = 0 /\ connections'[idle'[v][a]].answer = 0
    <3>1. a \in 1..Len(s) /\ idle'[v][a] = s[a]
      BY <1>6, <1>7
    <3>2. s[a] \in 1..requests /\ s[a] \in 1..MaxRequests
      BY <1>0, <1>3, <3>1, PoolFacts DEF Waits
    <3>3. connections[s[a]].instance = v /\ connections[s[a]].request = 0 /\ connections[s[a]].answer = 0
      BY <1>0, <1>3, <3>1 DEF Waits
    <3> QED BY <1>1, <1>10, <3>1, <3>2, <3>3
  <2>4. ASSUME NEW a \in 1..Len(idle'[v]), NEW u \in Threads, loader'[u].at \in {"send", "answer"}
        PROVE  loader'[u].connection # idle'[v][a]
    <3>1. a \in 1..Len(s) /\ idle'[v][a] = s[a] /\ s[a] # n
      BY <1>6, <1>7
    <3>2. CASE u = t
      BY <1>9, <1>11, <2>4, <3>1, <3>2
    <3>3. CASE u # t
      BY <1>0, <1>3, <1>11, <2>4, <3>1, <3>3 DEF Waits
    <3> QED BY <3>2, <3>3
  <2> QED BY <2>1, <2>2, <2>3, <2>4 DEF Waits
<1>18. PoolInv'
  <2>1. AllWait'
    BY <1>16, <1>17 DEF AllWait, Connection!Instances
  <2> QED BY <1>6, <1>19, <2>1, PoolFrame
<1> QED BY <1>12, <1>18 DEF ConnectionInv

\* The same when the connection neither waited nor waits afterwards.
LEMMA PoolStep ==
    ASSUME ConnectionInv, NEW t \in Threads, NEW next, NEW n, MovesOn(t, next, n), idle' = idle,
           \A i \in Connection!Instances : Absent(n, i)
    PROVE  PoolInv'
<1>1. ASSUME NEW i \in Connection!Instances PROVE Waits(i)'
  <2>1. idle'[i] = idle[i] /\ Absent(n, i)
    OBVIOUS
  <2> QED BY <2>1, WaitsFrame
<1>2. AllWait'
  BY <1>1 DEF AllWait, Connection!Instances
<1>3. idle' \in [Connection!Instances -> Seq(1..MaxRequests)]
  BY PoolFacts
<1> QED BY <1>2, <1>3, PoolFrame

\* A call that has connection n alone: nobody else uses it and it does not wait.
LEMMA BusyAlone ==
    ASSUME ConnectionInv, NEW t \in Threads, loader[t].at \in {"send", "answer"}
    PROVE  /\ loader[t].connection \in 1..requests /\ loader[t].connection \in 1..MaxRequests
           /\ connections[loader[t].connection].instance = loader[t].value
           /\ \A u \in Threads : u # t /\ loader[u].at \in {"send", "answer"} =>
                 loader[u].connection # loader[t].connection
           /\ \A i \in Connection!Instances : Absent(loader[t].connection, i)
<1>1. Talks(loader[t])
  BY DEF ConnectionInv, PoolInv
<1>2. loader[t].connection \in 1..requests /\ connections[loader[t].connection].instance = loader[t].value
  BY <1>1 DEF Talks, Fits
<1>3. \A u \in Threads : u # t /\ loader[u].at \in {"send", "answer"} => loader[u].connection # loader[t].connection
  BY DEF ConnectionInv, PoolInv
<1>4. \A i \in Connection!Instances : Absent(loader[t].connection, i)
  BY PoolFacts DEF Waits, Absent
<1> QED BY <1>2, <1>3, <1>4, PoolFacts

LEMMA RestingIs ==
    /\ Connection!Resting \in LoaderStates /\ Connection!Resting.at = "rest"
    /\ Connection!Resting.files = {} /\ Connection!Resting.timely
  BY ConnectionBounds DEF Connection!Resting, LoaderStates, Instants, RequestNumbers

LEMMA FailKeeps == ASSUME ConnectionInv, NEW t \in Threads, Connection!Fail(t) PROVE ConnectionInv'
<1>0. PICK n, next : n = loader[t].connection /\ next = Connection!Resting
  OBVIOUS
<1>1. /\ loader[t].at \in {"send", "answer"} /\ Connection!Settled /\ UNCHANGED <<requests, idle>>
      /\ connections' = [connections EXCEPT ![n].open = FALSE] /\ loader' = [loader EXCEPT ![t] = next]
  BY <1>0 DEF Connection!Fail
<1>2. /\ n \in 1..requests /\ n \in 1..MaxRequests
      /\ \A u \in Threads : u # t /\ loader[u].at \in {"send", "answer"} => loader[u].connection # n
      /\ \A i \in Connection!Instances : Absent(n, i)
  BY <1>0, <1>1, BusyAlone
<1>3. next \in LoaderStates /\ next.at = "rest" /\ next.files = {} /\ next.timely
  BY <1>0, RestingIs
<1>4. FileInv'
  BY <1>1, <1>3, FileKept DEF LoadPlaces, CallPlaces
<1>5. /\ connections' \in [1..MaxRequests -> ConnectionStates]
      /\ \A m \in 1..requests : m # n =>
              /\ connections'[m].instance = connections[m].instance
              /\ connections'[m].request = connections[m].request
              /\ connections'[m].answer = connections[m].answer
  BY <1>1, <1>2, CloseIs, PoolFacts
<1>6. /\ requests' \in RequestNumbers /\ requests' \in Nat /\ requests <= requests'
      /\ idle' \in [Connection!Instances -> Seq(1..MaxRequests)] /\ idle' = idle
  BY <1>1, PoolFacts DEF RequestNumbers
<1>7. loader'[t] = next
  BY <1>1, <1>3, OneThread DEF ConnectionInv, FileInv
<1>8. /\ next.at \in {"send", "answer"} => n \in 1..requests'
      /\ Fits(next, connections'[n])
  BY <1>3, <1>7 DEF Talks, Fits
<1>9. next.at \in {"send", "answer"} => next.connection = n
  BY <1>3
<1>10. PoolInv'
  <2>1. loader' = [loader EXCEPT ![t] = next]
    BY <1>1
  <2>2. MovesOn(t, next, n)
    BY <1>2, <1>3, <1>5, <1>6, <1>8, <1>9, <2>1 DEF MovesOn
  <2> QED BY <1>2, <1>6, <2>2, PoolStep
<1> QED BY <1>4, <1>10 DEF ConnectionInv

LEMMA ConnectKeeps == ASSUME ConnectionInv, NEW t \in Threads, Connection!Connect(t) PROVE ConnectionInv'
<1>0. PICK n, v, fresh, next :
         /\ n = requests + 1 /\ v = loader[t].value
         /\ fresh = [Connection!Unused EXCEPT !.instance = v, !.open = alive /\ instance = v]
         /\ next = [loader[t] EXCEPT !.at = "send", !.connection = n]
  OBVIOUS
<1>1. /\ loader[t].at = "loaded" /\ Connection!Settled /\ requests < MaxRequests
      /\ requests' = n /\ idle' = idle
      /\ connections' = [connections EXCEPT ![n] = fresh] /\ loader' = [loader EXCEPT ![t] = next]
  BY <1>0 DEF Connection!Connect, Connection!At, Connection!Key, Connection!Becomes
<1>2. /\ loader[t] \in LoaderStates /\ loader[t].files = {} /\ (loader[t].timely \/ doubled)
      /\ v \in Connection!Instances
  BY <1>0, <1>1, CallFacts DEF CallPlaces
<1>3. n \in 1..MaxRequests /\ n \in RequestNumbers /\ requests < n /\ n \in Nat /\ requests \in Nat
  BY <1>0, <1>1, PoolFacts DEF RequestNumbers
<1>4. fresh \in ConnectionStates /\ fresh.instance = v /\ fresh.request = 0 /\ fresh.answer = 0
  <2>1. alive \in BOOLEAN /\ v \in Instants /\ 0 \in RequestNumbers
    BY <1>2, ConnectionBounds DEF ConnectionInv, FileInv, DoubtsTyped, Instants, RequestNumbers
  <2>2. (alive /\ instance = v) \in BOOLEAN
    OBVIOUS
  <2> QED BY <1>0, <2>1, <2>2 DEF ConnectionStates, Connection!Unused
<1>5. /\ next \in LoaderStates /\ next.at = "send" /\ next.connection = n
      /\ next.value = v /\ next.files = {} /\ next.timely = loader[t].timely
  <2>1. "send" \in CallPlaces
    BY DEF CallPlaces
  <2> QED BY <1>0, <1>2, <1>3, <2>1 DEF LoaderStates
<1>6. FileInv'
  BY <1>1, <1>2, <1>5, FileKept DEF LoadPlaces
<1>7. /\ connections' \in [1..MaxRequests -> ConnectionStates] /\ connections'[n] = fresh
      /\ \A m \in 1..requests : m # n =>
              /\ connections'[m].instance = connections[m].instance
              /\ connections'[m].request = connections[m].request
              /\ connections'[m].answer = connections[m].answer
  BY <1>1, <1>3, <1>4, PoolFacts
<1>8. loader'[t] = next
  BY <1>1, <1>5, OneThread DEF ConnectionInv, FileInv
<1>9. /\ next.at \in {"send", "answer"} => n \in 1..requests'
      /\ Fits(next, connections'[n])
  BY <1>1, <1>3, <1>4, <1>5, <1>7, <1>8 DEF Talks, Fits
<1>10. \A u \in Threads : u # t /\ loader[u].at \in {"send", "answer"} => loader[u].connection # n
  BY <1>3, BusyAlone
<1>11. /\ \A i \in Connection!Instances : Absent(n, i)
       /\ idle' = idle /\ requests' \in RequestNumbers /\ requests <= requests'
  <2>1. ASSUME NEW i \in Connection!Instances PROVE Absent(n, i)
    <3>1. Waits(i)
      BY PoolFacts
    <3> QED BY <1>3, <3>1 DEF Waits, Absent
  <2> QED BY <1>1, <1>3, <2>1
<1>12. PoolInv'
  <2>1. loader' = [loader EXCEPT ![t] = next] /\ next \in LoaderStates /\ next.connection = n
    BY <1>1, <1>5
  <2>2. MovesOn(t, next, n)
    BY <1>7, <1>9, <1>10, <1>11, <2>1 DEF MovesOn
  <2> QED BY <1>11, <2>2, PoolStep
<1> QED BY <1>6, <1>12 DEF ConnectionInv

LEMMA SendKeeps == ASSUME ConnectionInv, NEW t \in Threads, Connection!Send(t) PROVE ConnectionInv'
<1>0. PICK n, r, next :
         /\ n = loader[t].connection /\ r = requests + 1
         /\ next = [loader[t] EXCEPT !.at = "answer", !.request = r]
  OBVIOUS
<1>1. /\ loader[t].at = "send" /\ Connection!Settled /\ requests < MaxRequests
      /\ requests' = r /\ idle' = idle
      /\ connections' = [connections EXCEPT ![n].request = r] /\ loader' = [loader EXCEPT ![t] = next]
  BY <1>0 DEF Connection!Send, Connection!At, Connection!Becomes
<1>2. /\ loader[t] \in LoaderStates /\ loader[t].files = {} /\ (loader[t].timely \/ doubled)
      /\ loader[t].value \in Connection!Instances /\ Talks(loader[t])
  BY <1>1, CallFacts DEF CallPlaces
<1>3. r \in RequestNumbers /\ r \in Nat /\ requests < r /\ requests \in Nat
  BY <1>0, <1>1, PoolFacts DEF RequestNumbers
<1>4. /\ n \in 1..requests /\ n \in 1..MaxRequests /\ connections[n].instance = loader[t].value
      /\ \A u \in Threads : u # t /\ loader[u].at \in {"send", "answer"} => loader[u].connection # n
      /\ \A i \in Connection!Instances : Absent(n, i)
  BY <1>0, <1>1, BusyAlone
<1>5. connections[n].answer = 0
  BY <1>0, <1>1, <1>2 DEF Talks, Fits
<1>6. /\ next \in LoaderStates /\ next.at = "answer" /\ next.connection = n /\ next.request = r
      /\ next.value = loader[t].value /\ next.files = {} /\ next.timely = loader[t].timely
  <2>1. "answer" \in CallPlaces
    BY DEF CallPlaces
  <2> QED BY <1>0, <1>2, <1>3, <2>1 DEF LoaderStates
<1>7. FileInv'
  BY <1>1, <1>2, <1>6, FileKept DEF LoadPlaces
<1>8. /\ connections' \in [1..MaxRequests -> ConnectionStates]
      /\ connections'[n].request = r /\ connections'[n].answer = 0
      /\ connections'[n].instance = loader[t].value
      /\ \A m \in 1..requests : m # n =>
              /\ connections'[m].instance = connections[m].instance
              /\ connections'[m].request = connections[m].request
              /\ connections'[m].answer = connections[m].answer
  BY <1>1, <1>3, <1>4, <1>5, PoolFacts DEF ConnectionStates
<1>9. loader'[t] = next
  BY <1>1, <1>6, OneThread DEF ConnectionInv, FileInv
<1>10. /\ next.at \in {"send", "answer"} => n \in 1..requests'
      /\ Fits(next, connections'[n])
  BY <1>1, <1>3, <1>4, <1>6, <1>8, <1>9 DEF Talks, Fits
<1>11. /\ \A i \in Connection!Instances : Absent(n, i)
       /\ idle' = idle /\ requests' \in RequestNumbers /\ requests <= requests'
  BY <1>1, <1>3, <1>4
<1>12. PoolInv'
  <2>1. loader' = [loader EXCEPT ![t] = next] /\ next \in LoaderStates /\ next.connection = n
    BY <1>1, <1>6
  <2>2. MovesOn(t, next, n)
    BY <1>4, <1>8, <1>10, <1>11, <2>1 DEF MovesOn
  <2> QED BY <1>11, <2>2, PoolStep
<1> QED BY <1>7, <1>12 DEF ConnectionInv

LEMMA DoneKeeps == ASSUME ConnectionInv, NEW t \in Threads, Connection!Done(t) PROVE ConnectionInv'
<1>1. loader' = [loader EXCEPT ![t] = Connection!Resting] /\ UNCHANGED <<requests, connections, idle>>
      /\ Connection!Settled
  BY DEF Connection!Done
<1>2. FileInv'
  BY <1>1, RestingIs, FileKept DEF LoadPlaces, CallPlaces
<1>3. /\ loader'[t] = Connection!Resting /\ \A u \in Threads \ {t} : loader'[u] = loader[u]
  BY <1>1, RestingIs, OneThread DEF ConnectionInv, FileInv
<1>4. PoolInv'
  BY <1>1, <1>3, RestingIs, PoolKept DEF ConnectionInv
<1> QED BY <1>2, <1>4 DEF ConnectionInv

LEMMA ReceiveKeeps == ASSUME ConnectionInv, NEW t \in Threads, Connection!Receive(t) PROVE ConnectionInv'
<1>0. PICK n, v, s, keeps, next :
         /\ n = loader[t].connection /\ v = loader[t].value /\ s = idle[v]
         /\ keeps = (connections[n].open /\ Len(s) < MaxIdle)
         /\ next = [loader[t] EXCEPT !.at = "done", !.got = connections[n].answer]
  OBVIOUS
<1>1. /\ loader[t].at = "answer" /\ Connection!Settled /\ requests' = requests
      /\ connections[n].answer # 0 /\ loader' = [loader EXCEPT ![t] = next]
      /\ idle' = IF keeps THEN [idle EXCEPT ![v] = Append(s, n)] ELSE idle
      /\ connections' = [connections EXCEPT ![n] = [connections[n] EXCEPT !.request = 0, !.answer = 0, !.open = keeps]]
  BY <1>0 DEF Connection!Receive, Connection!At, Connection!Becomes, Connection!Key
<1>2. /\ loader[t] \in LoaderStates /\ loader[t].files = {} /\ (loader[t].timely \/ doubled)
      /\ v \in Connection!Instances /\ Talks(loader[t])
  BY <1>0, <1>1, CallFacts DEF CallPlaces
<1>3. /\ n \in 1..requests /\ n \in 1..MaxRequests /\ connections[n].instance = v
      /\ \A u \in Threads : u # t /\ loader[u].at \in {"send", "answer"} => loader[u].connection # n
      /\ \A i \in Connection!Instances : Absent(n, i)
  BY <1>0, <1>1, BusyAlone
<1>4. connections[n].answer = loader[t].request
  BY <1>0, <1>1, <1>2 DEF Talks, Fits
<1>5. /\ next \in LoaderStates /\ next.at = "done" /\ next.got = next.request
      /\ next.value = v /\ next.files = {} /\ next.timely = loader[t].timely
  <2>1. "done" \in CallPlaces /\ connections[n].answer \in RequestNumbers
    BY <1>3, PoolFacts DEF CallPlaces, ConnectionStates
  <2> QED BY <1>0, <1>2, <1>4, <2>1 DEF LoaderStates
<1>6. FileInv'
  BY <1>1, <1>2, <1>5, FileKept DEF LoadPlaces
<1>7. /\ connections' \in [1..MaxRequests -> ConnectionStates]
      /\ connections'[n].request = 0 /\ connections'[n].answer = 0 /\ connections'[n].instance = v
      /\ \A m \in 1..requests : m # n =>
              /\ connections'[m].instance = connections[m].instance
              /\ connections'[m].request = connections[m].request
              /\ connections'[m].answer = connections[m].answer
  <2>1. keeps \in BOOLEAN /\ 0 \in RequestNumbers
    BY <1>0, ConnectionBounds DEF RequestNumbers
  <2>2. [connections[n] EXCEPT !.request = 0, !.answer = 0, !.open = keeps] \in ConnectionStates
    BY <1>3, <2>1, PoolFacts DEF ConnectionStates
  <2> QED BY <1>1, <1>3, <2>2, PoolFacts DEF ConnectionStates
<1>8. MovesOn(t, next, n)
  <2>1. Fits(next, connections'[n])
    BY <1>5 DEF Fits
  <2>2. requests' \in RequestNumbers /\ requests <= requests'
    BY <1>1, PoolFacts DEF RequestNumbers
  <2> QED BY <1>1, <1>3, <1>5, <1>7, <2>1, <2>2 DEF MovesOn
<1>9. s \in Seq(1..MaxRequests) /\ Waits(v) /\ requests \in Nat /\ MaxIdle \in Nat /\ Len(s) \in Nat
  BY <1>0, <1>2, PoolFacts, ConnectionBounds
<1>10. CASE ~keeps
  <2>1. idle' = idle
    BY <1>1, <1>10
  <2> QED BY <1>3, <1>6, <1>8, <2>1, PoolStep DEF ConnectionInv
<1>11. CASE keeps
  <2>1. /\ Append(s, n) \in Seq(1..MaxRequests) /\ Len(Append(s, n)) = Len(s) + 1
        /\ Append(s, n)[Len(s) + 1] = n /\ \A a \in 1..Len(s) : Append(s, n)[a] = s[a]
    BY <1>3, <1>9, AppendProperties
  <2>2. /\ idle' \in [Connection!Instances -> Seq(1..MaxRequests)]
        /\ \A i \in Connection!Instances \ {v} : idle'[i] = idle[i]
        /\ idle'[v] = Append(s, n) /\ Len(s) < MaxIdle
    BY <1>0, <1>1, <1>2, <1>11, <2>1, PoolFacts
  <2>3. ASSUME NEW i \in Connection!Instances, i # v PROVE Waits(i)'
    <3>1. idle'[i] = idle[i] /\ Absent(n, i)
      BY <1>3, <2>2, <2>3
    <3> QED BY <1>8, <3>1, WaitsFrame
  <2>4. /\ \A a, b \in 1..Len(s) : s[a] = s[b] => a = b
        /\ \A a \in 1..Len(s) :
              /\ s[a] # n /\ s[a] \in 1..requests
              /\ connections[s[a]].instance = v
              /\ connections[s[a]].request = 0 /\ connections[s[a]].answer = 0
              /\ \A u \in Threads : loader[u].at \in {"send", "answer"} => loader[u].connection # s[a]
    BY <1>0, <1>2, <1>3, <1>9 DEF Waits, Absent
  <2>5. /\ loader'[t] = next /\ \A u \in Threads \ {t} : loader'[u] = loader[u]
    BY <1>1, <1>5, OneThread DEF ConnectionInv, FileInv
  <2>6. Waits(v)'
    <3>1. PICK q : q = idle'[v] /\ Len(q) = Len(s) + 1 /\ q[Len(s) + 1] = n /\ \A a \in 1..Len(s) : q[a] = s[a]
      BY <2>1, <2>2
    <3>2. Len(q) <= MaxIdle
      BY <1>9, <2>2, <3>1
    <3>3. ASSUME NEW a \in 1..Len(q), NEW b \in 1..Len(q), q[a] = q[b] PROVE a = b
      <4>1. /\ a = Len(s) + 1 \/ (a \in 1..Len(s) /\ q[a] = s[a] /\ s[a] # n)
            /\ b = Len(s) + 1 \/ (b \in 1..Len(s) /\ q[b] = s[b] /\ s[b] # n)
        BY <1>9, <2>4, <3>1
      <4> QED BY <2>4, <3>1, <3>3, <4>1
    <3>4. ASSUME NEW a \in 1..Len(q)
          PROVE  /\ q[a] \in 1..requests' /\ connections'[q[a]].instance = v
                 /\ connections'[q[a]].request = 0 /\ connections'[q[a]].answer = 0
                 /\ \A u \in Threads : loader'[u].at \in {"send", "answer"} => loader'[u].connection # q[a]
      <4>1. CASE a = Len(s) + 1
        BY <1>1, <1>3, <1>5, <1>7, <2>5, <3>1, <4>1
      <4>2. CASE a # Len(s) + 1
        <5>1. a \in 1..Len(s) /\ q[a] = s[a]
          BY <1>9, <3>1, <4>2
        <5> QED BY <1>1, <1>5, <1>7, <2>4, <2>5, <5>1
      <4> QED BY <4>1, <4>2
    <3> QED BY <3>1, <3>2, <3>3, <3>4 DEF Waits
  <2>7. AllWait'
    BY <2>3, <2>6 DEF AllWait, Connection!Instances
  <2>8. PoolInv'
    BY <1>8, <2>2, <2>7, PoolFrame
  <2> QED BY <1>6, <2>8 DEF ConnectionInv
<1> QED BY <1>10, <1>11

-----------------------------------------------------------------------------
LEMMA ConnectionStep == ASSUME ConnectionInv, Connection!Next PROVE ConnectionInv'
<1>1. ASSUME NEW t \in Threads, Connection!Client(t) PROVE ConnectionInv'
  BY <1>1, BeginKeeps, LookUpKeeps, ReadKeeps, CompareKeeps, StoreKeeps, AcquireKeeps, ConnectKeeps, FailKeeps,
     SendKeeps, ReceiveKeeps, DoneKeeps DEF Connection!Client
<1>2. ASSUME Connection!Bridge PROVE ConnectionInv'
  BY <1>2, BridgeStops, ConnectionStartKeeps, AnswerKeeps DEF Connection!Bridge
<1> QED BY <1>1, <1>2 DEF Connection!Next

LEMMA ConnectionImplies == ASSUME ConnectionInv PROVE Connection!TypeOK /\ Connection!CallsReachTheBridge
<1> USE DEF ConnectionInv
<1>1. ASSUME NEW i \in Connection!Instances
      PROVE  /\ Waits(i) /\ DOMAIN idle[i] = 1..Len(idle[i])
  BY PoolFacts, LenProperties
<1>2. Connection!TypeOK
  <2>1. instance \in Connection!Instances /\ file \in Instants /\ cached \in [signature : Instants, value : Instants]
    BY ConnectionBounds DEF FileInv, FileTyped, Instants
  <2>2. alive \in BOOLEAN
    BY DEF FileInv, DoubtsTyped
  <2> QED BY <1>1, <2>1, <2>2 DEF Waits, Instants, Connection!TypeOK
<1>3. doubled \/ \A t \in Threads : loader[t].timely
  BY DEF FileInv, Loads
<1>4. \A t \in Threads : Connection!At(t, "done") => loader[t].got = loader[t].request
  BY DEF PoolInv, Talks, Fits, Connection!At
<1>5. \A t, u \in Connection!Busy : loader[t].connection = loader[u].connection => t = u
  BY DEF PoolInv, Connection!Busy
<1>6. ASSUME NEW i \in Connection!Instances
      PROVE  /\ Len(idle[i]) <= MaxIdle /\ Connection!IsInjective(idle[i])
             /\ \A k \in DOMAIN idle[i] :
                  /\ connections[idle[i][k]].request = 0
                  /\ \A t \in Connection!Busy : loader[t].connection # idle[i][k]
  BY <1>1 DEF Waits, Connection!Busy, Connection!IsInjective
<1> QED BY <1>2, <1>3, <1>4, <1>5, <1>6 DEF Connection!CallsReachTheBridge

LEMMA ConnectionRests == ASSUME ConnectionInv, UNCHANGED connection PROVE ConnectionInv'
<1>1. /\ UNCHANGED <<instance, file, cached, loader, requests, connections, idle>>
      /\ UNCHANGED alive /\ UNCHANGED doubled
  BY DEF connection
<1>2. doubled' \in BOOLEAN /\ alive' \in BOOLEAN
  BY <1>1 DEF ConnectionInv, FileInv, DoubtsTyped
<1>3. FileInv'
  BY <1>1, <1>2 DEF ConnectionInv, FileInv, FileTyped, DoubtsTyped, Connection!Instances
<1>4. PoolInv'
  BY <1>1, PoolKept DEF ConnectionInv
<1> QED BY <1>3, <1>4 DEF ConnectionInv

-----------------------------------------------------------------------------
(* The processes beside the bridge.                                          *)

Before == {"probe", "match", "verify", "recycle", "await offline", "spawn adapter"}
Starting == {"await adapter", "spawn mcp"}
Tunneling == {"tunnel", "inspect", "recycle tunnel", "await health", "spawn tunnel"}
StartPlaces ==
    {"off", "up", "down", "await mcp", "await tunnel"} \cup Before \cup Starting \cup Tunneling
ProcessStates ==
    [kind : Processes!Kinds \cup {"none", "foreign"}, owner : 0..(MaxBoots + 1),
     created : 0..MaxBirths, named : BOOLEAN]
Owned == [pid : Pids \cup {0}, created : 0..MaxBirths]

TableTyped ==
    /\ table \in [Pids -> ProcessStates]
    /\ port \in [Processes!Kinds -> Pids \cup {0}]
    /\ births \in 0..MaxBirths
    /\ \A k \in Processes!Kinds : port[k] # 0 => table[port[k]].kind # "none"

BridgeTyped ==
    /\ boots \in 0..MaxBoots /\ pc \in StartPlaces
    /\ own \in [Processes!Kinds -> Owned]
    /\ pc # "off" => boots > 0

\* Owners are the bridges so far; creation times are given out in order.
TableSound ==
    \A p \in Pids : /\ table[p].owner <= boots \/ table[p].owner = MaxBoots + 1
                    /\ table[p].created <= births

Live(o, b, place, alive2) == (o = b /\ place # "off") \/ (o = MaxBoots + 1 /\ alive2)

\* A bridge that runs knows what it started, and starts each kind once.
OwnSound ==
    /\ pc # "off" => \A p \in Pids : table[p].owner = boots =>
          /\ table[p].kind \in Processes!Kinds
          /\ own[table[p].kind] = [pid |-> p, created |-> table[p].created]
    /\ pc \in Before => own["adapter"].pid = 0
    /\ pc \in Before \cup Starting => own["mcp"].pid = 0
    /\ pc \in Before \cup Starting \cup Tunneling \cup {"await mcp"} => own["tunnel"].pid = 0

\* Who has the pid of the tunnel to recycle is no child of this bridge; if it is
\* still the one that was seen, it is a tunnel, and that of a bridge that lives
\* only if an ancestor could not be read.
TunnelSeen(f, t, b, place, alive2) ==
    t.kind # "none" =>
        /\ t.owner # b
        /\ t.created = f.created =>
              t.kind = "tunnel" /\ t.named /\ (f.read => ~Live(t.owner, b, place, alive2))

\* What still has the identity it was found with is an orphan of the stack.
FoundSound ==
    /\ pc \in {"verify", "recycle"} => \A f \in found :
          /\ f.pid \in Pids /\ f.created \in 0..births
          /\ table[f.pid].kind # "none" /\ table[f.pid].created = f.created =>
                table[f.pid].kind \in Processes!Stack /\ ~Live(table[f.pid].owner, boots, pc, other)
    /\ pc \in {"inspect", "recycle tunnel"} => found # {} /\ \A f \in found : f.pid \in Pids
    /\ pc = "recycle tunnel" => \A f \in found :
          f.created \in 0..births /\ TunnelSeen(f, table[f.pid], boots, pc, other)

StoppedOne(s) ==
    /\ s.by = "stack" => s.process.kind \in {"adapter", "mcp"}
    /\ s.by = "tunnel" /\ s.same => s.process.kind = "tunnel" /\ s.process.named

Spared(s) == s.by = "tunnel" /\ s.process.owner = MaxBoots + 1 /\ ~(s.same /\ s.read)

StoppedSound ==
    \A s \in stopped :
        /\ s.process.owner \in 0..boots \/ s.process.owner = MaxBoots + 1
        /\ Live(s.process.owner, boots, pc, other) => Spared(s)
        /\ StoppedOne(s)

ProcessInv ==
    /\ TableTyped /\ BridgeTyped /\ other \in BOOLEAN
    /\ TableSound /\ OwnSound /\ FoundSound /\ StoppedSound

LEMMA ProcessBounds ==
    /\ MaxBirths \in Nat /\ MaxBirths >= 1 /\ MaxBoots \in Nat
    /\ \A p \in Pids : p \in Nat /\ p # 0
    /\ Processes!Kinds = {"adapter", "mcp", "tunnel"} /\ Processes!Stack = {"adapter", "mcp"}
    /\ Processes!NoPid = 0 /\ Processes!Others = MaxBoots + 1
  BY BoundsAssumption
  DEF BoundsAssumption, Processes!Kinds, Processes!Stack, Processes!NoPid, Processes!Others

LEMMA ProcessNumbers == MaxBirths \in Nat /\ MaxBirths >= 1 /\ MaxBoots \in Nat
  BY BoundsAssumption DEF BoundsAssumption

LEMMA PidsAreNoZero == \A p \in Pids : p # 0
  BY BoundsAssumption DEF BoundsAssumption

LEMMA FreeIs ==
    /\ Processes!Free \in ProcessStates /\ Processes!Free.kind = "none"
    /\ Processes!Free.owner = 0 /\ Processes!Free.created = 0
  BY ProcessBounds DEF Processes!Free, ProcessStates

LEMMA ProcessInit == Processes!Init => ProcessInv
<1> SUFFICES ASSUME Processes!Init PROVE ProcessInv
  OBVIOUS
<1>1. PICK kind \in {"adapter", "tunnel", "foreign"}, alive2 \in BOOLEAN, pid \in Pids :
          /\ other = alive2
          /\ table = [p \in Pids |-> IF p = pid
                THEN [kind |-> kind, owner |-> Processes!Others, created |-> 1, named |-> TRUE] ELSE Processes!Free]
          /\ \E k \in Processes!Kinds :
                port = [q \in Processes!Kinds |-> IF q = k THEN pid ELSE Processes!NoPid]
  BY DEF Processes!Init
<1>2. boots = 0 /\ pc = "off" /\ births = 1 /\ stopped = {} /\ found = {}
      /\ own = [k \in Processes!Kinds |-> [pid |-> 0, created |-> 0]]
  BY ProcessBounds DEF Processes!Init
<1>3. [kind |-> kind, owner |-> Processes!Others, created |-> 1, named |-> TRUE] \in ProcessStates
  BY ProcessBounds DEF ProcessStates
<1>4. \A p \in Pids : /\ table[p] \in ProcessStates
                      /\ table[p].owner <= 0 \/ table[p].owner = MaxBoots + 1
                      /\ table[p].created <= 1
  BY <1>1, <1>3, FreeIs, ProcessBounds
<1>5. TableTyped
  <2>1. table[pid].kind # "none"
    BY <1>1
  <2>2. table \in [Pids -> ProcessStates]
    BY <1>1, <1>4
  <2>3. /\ port \in [Processes!Kinds -> Pids \cup {0}]
        /\ \A k \in Processes!Kinds : port[k] # 0 => port[k] = pid
    BY <1>1, ProcessBounds
  <2> QED BY <1>2, <2>1, <2>2, <2>3, ProcessBounds DEF TableTyped
<1>6. own \in [Processes!Kinds -> Owned]
  BY <1>2, ProcessBounds DEF Owned
<1>7. /\ BridgeTyped /\ TableSound /\ FoundSound /\ StoppedSound
      /\ pc \notin Before \cup Starting \cup Tunneling \cup {"await mcp"}
  BY <1>2, <1>4, <1>6, ProcessBounds
  DEF BridgeTyped, StartPlaces, TableSound, Before, Starting, Tunneling, FoundSound, StoppedSound
<1>9. OwnSound
  BY <1>2, <1>7 DEF OwnSound
<1>8. other \in BOOLEAN
  BY <1>1
<1> QED BY <1>5, <1>7, <1>8, <1>9 DEF ProcessInv

-----------------------------------------------------------------------------
\* Processes end: their places are free, and no port is left to them.
LEMMA ProcessesEnd ==
    ASSUME ProcessInv, NEW pids, Processes!Ends(pids), UNCHANGED <<births, boots>>
    PROVE  /\ TableTyped' /\ TableSound'
           /\ \A p \in Pids : table'[p] = IF p \in pids THEN Processes!Free ELSE table[p]
<1>1. \A p \in Pids : table'[p] = IF p \in pids THEN Processes!Free ELSE table[p]
  BY DEF Processes!Ends, Processes!Freed
<1>2. \A k \in Processes!Kinds : port'[k] = IF port[k] \in pids THEN 0 ELSE port[k]
  BY ProcessBounds DEF Processes!Ends, Processes!Closed
<1>3. table' \in [Pids -> ProcessStates]
  BY <1>1, FreeIs DEF ProcessInv, TableTyped, Processes!Ends, Processes!Freed
<1>4. port' \in [Processes!Kinds -> Pids \cup {0}]
  BY <1>2, ProcessBounds DEF ProcessInv, TableTyped, Processes!Ends, Processes!Closed
<1>5. ASSUME NEW k \in Processes!Kinds, port'[k] # 0 PROVE table'[port'[k]].kind # "none"
  BY <1>1, <1>2, <1>5 DEF ProcessInv, TableTyped
<1>6. TableTyped'
  BY <1>3, <1>4, <1>5 DEF ProcessInv, TableTyped, Processes!Kinds, Processes!Stack
<1>7. TableSound'
  BY <1>1, FreeIs, ProcessBounds DEF ProcessInv, TableTyped, BridgeTyped, TableSound
<1> QED BY <1>1, <1>6, <1>7

\* The table gets one process more, which is fresh.
LEMMA ProcessAppears ==
    ASSUME ProcessInv, NEW pid \in Pids, NEW proc \in ProcessStates,
           births < MaxBirths, births' = births + 1, proc.created = births + 1, proc.kind # "none",
           proc.owner <= boots \/ proc.owner = MaxBoots + 1, table' = [table EXCEPT ![pid] = proc], UNCHANGED <<port, boots>>
    PROVE  TableTyped' /\ TableSound'
<1>1. births' \in 0..MaxBirths
  BY ProcessBounds DEF ProcessInv, TableTyped
<1>2. table' \in [Pids -> ProcessStates] /\ table'[pid] = proc /\ \A p \in Pids \ {pid} : table'[p] = table[p]
  BY DEF ProcessInv, TableTyped
<1>3. TableTyped'
  BY <1>1, <1>2 DEF ProcessInv, TableTyped, Processes!Kinds, Processes!Stack
<1>4. \A p \in Pids : table[p].created \in Nat /\ births \in Nat
  BY ProcessBounds DEF ProcessInv, TableTyped, ProcessStates
<1>5. TableSound'
  BY <1>2, <1>4 DEF ProcessInv, TableSound
<1> QED BY <1>3, <1>5

-----------------------------------------------------------------------------
\* What a bridge knows survives what the system does beside it: processes end,
\* ports are taken, others appear that nobody in here started.
LEMMA BridgeRests ==
    ASSUME ProcessInv, UNCHANGED Processes!Bridge, births' \in Nat, births <= births',
           other' \in BOOLEAN, other' => other,
           \A p \in Pids : \/ table'[p] = table[p]
                           \/ /\ table'[p].owner = 0 \/ table'[p].owner = MaxBoots + 1
                              /\ table'[p].kind = "none" \/ table'[p].created > births
    PROVE  BridgeTyped' /\ OwnSound' /\ FoundSound' /\ StoppedSound'
<1> USE DEF Processes!Bridge
<1>1. BridgeTyped'
  BY DEF ProcessInv, BridgeTyped, Processes!Kinds, Processes!Stack
<1>2. OwnSound'
  <2>1. boots \in Nat /\ (pc # "off" => boots > 0) /\ boots # MaxBoots + 1
    BY ProcessBounds DEF ProcessInv, BridgeTyped
  <2>2. ASSUME pc # "off", NEW p \in Pids, table'[p].owner = boots
        PROVE  /\ table'[p].kind \in Processes!Kinds
               /\ own[table'[p].kind] = [pid |-> p, created |-> table'[p].created]
    <3>1. table'[p] = table[p]
      BY <2>1, <2>2
    <3> QED BY <2>2, <3>1 DEF ProcessInv, OwnSound
  <2> QED BY <2>1, <2>2 DEF ProcessInv, OwnSound, Processes!Kinds, Processes!Stack
<1>3. ASSUME NEW o \in Nat, ~Live(o, boots, pc, other) PROVE ~Live(o, boots', pc', other')
  BY <1>3 DEF Live
<1>4. \A p \in Pids : table[p].owner \in Nat /\ table[p].created \in Nat
  BY ProcessBounds DEF ProcessInv, TableTyped, ProcessStates
<1>5. births \in Nat /\ boots \in Nat /\ boots # MaxBoots + 1 /\ (pc # "off" => boots # 0)
  BY ProcessBounds DEF ProcessInv, TableTyped, BridgeTyped
<1>6. FoundSound'
  <2>1. ASSUME pc \in {"verify", "recycle"}, NEW f \in found
        PROVE  /\ f.pid \in Pids /\ f.created \in 0..births'
               /\ table'[f.pid].kind # "none" /\ table'[f.pid].created = f.created =>
                     table'[f.pid].kind \in Processes!Stack /\ ~Live(table'[f.pid].owner, boots', pc', other')
    <3>1. /\ f.pid \in Pids /\ f.created \in 0..births
          /\ table[f.pid].kind # "none" /\ table[f.pid].created = f.created =>
                     table[f.pid].kind \in Processes!Stack /\ ~Live(table[f.pid].owner, boots, pc, other)
      BY <2>1 DEF ProcessInv, FoundSound
    <3> QED BY <1>3, <1>4, <1>5, <3>1
  <2>2. ASSUME pc = "recycle tunnel", NEW f \in found
        PROVE  f.created \in 0..births' /\ TunnelSeen(f, table'[f.pid], boots', pc', other')
    <3>1. f.pid \in Pids /\ f.created \in 0..births /\ TunnelSeen(f, table[f.pid], boots, pc, other)
      BY <2>2 DEF ProcessInv, FoundSound
    <3>2. f.created \in 0..births' /\ f.created <= births
      BY <1>5, <3>1
    <3>3. CASE table'[f.pid] = table[f.pid]
      BY <1>3, <1>4, <3>1, <3>2, <3>3 DEF TunnelSeen
    <3>4. CASE table'[f.pid] # table[f.pid] /\ table'[f.pid].kind # "none"
      <4>1. table'[f.pid].owner # boots'
        <5>1. table'[f.pid].owner = 0 \/ table'[f.pid].owner = MaxBoots + 1
          BY <3>1, <3>4
        <5>2. boots' = boots /\ boots # 0 /\ boots # MaxBoots + 1
          <6>1. boots # 0 /\ boots # MaxBoots + 1
            BY <1>5, <2>2
          <6>2. boots' = boots
            OBVIOUS
          <6> QED BY <6>1, <6>2
        <5> QED BY <5>1, <5>2
      <4>2. table'[f.pid].created # f.created
        BY <1>5, <3>1, <3>2, <3>4
      <4> QED BY <3>2, <4>1, <4>2 DEF TunnelSeen
    <3> QED BY <3>2, <3>3, <3>4 DEF TunnelSeen
  <2> QED BY <2>1, <2>2 DEF ProcessInv, FoundSound, Processes!Stack
<1>7. StoppedSound'
  BY DEF ProcessInv, StoppedSound, Live
<1> QED BY <1>1, <1>2, <1>6, <1>7

LEMMA SystemKeeps == ASSUME ProcessInv, Processes!System PROVE ProcessInv'
<1>0. births \in Nat /\ boots \in Nat /\ other \in BOOLEAN
  BY ProcessBounds DEF ProcessInv, TableTyped, BridgeTyped
<1>1. CASE Processes!OtherEnds
  <2>1. UNCHANGED <<table, births, port>> /\ UNCHANGED Processes!Bridge /\ other' = FALSE /\ other' \in BOOLEAN
    BY <1>1 DEF Processes!OtherEnds, Processes!Processes
  <2>2. TableTyped' /\ TableSound'
    BY <2>1 DEF ProcessInv, TableTyped, TableSound, Processes!Kinds, Processes!Stack, Processes!Bridge
  <2> QED BY <1>0, <2>1, <2>2, BridgeRests DEF ProcessInv
<1>2. ASSUME NEW pid \in Pids, Processes!Listen(pid) PROVE ProcessInv'
  <2>1. UNCHANGED <<table, births>> /\ UNCHANGED Processes!Bridge
    BY <1>2 DEF Processes!Listen
  <2>2. other' = other /\ other' \in BOOLEAN
    BY <1>0, <1>2 DEF Processes!Listen
  <2>3. port' = [port EXCEPT ![table[pid].kind] = pid] /\ table[pid].kind \in Processes!Kinds
    BY <1>2 DEF Processes!Listen
  <2>4. TableTyped'
    BY <2>1, <2>3, ProcessBounds DEF ProcessInv, TableTyped, Processes!Kinds, Processes!Stack
  <2>5. TableSound'
    BY <2>1 DEF ProcessInv, TableSound, Processes!Bridge
  <2> QED BY <1>0, <2>1, <2>2, <2>4, <2>5, BridgeRests DEF ProcessInv
<1>3. ASSUME NEW pid \in Pids, Processes!Dies(pid) PROVE ProcessInv'
  <2>1. UNCHANGED births /\ UNCHANGED Processes!Bridge /\ Processes!Ends({pid})
    BY <1>3 DEF Processes!Dies
  <2>2. other' = other /\ other' \in BOOLEAN
    BY <1>0, <1>3 DEF Processes!Dies
  <2>3. /\ TableTyped' /\ TableSound'
        /\ \A p \in Pids : table'[p] = IF p \in {pid} THEN Processes!Free ELSE table[p]
    BY <2>1, ProcessesEnd DEF Processes!Bridge
  <2>4. \A p \in Pids : table'[p] = table[p] \/ (table'[p].owner = 0 /\ table'[p].kind = "none")
    BY <2>3, FreeIs
  <2> QED BY <1>0, <2>1, <2>2, <2>3, <2>4, BridgeRests DEF ProcessInv
<1>4. ASSUME NEW pid \in Pids, Processes!Appears(pid) PROVE ProcessInv'
  <2>1. /\ births < MaxBirths /\ births' = births + 1
        /\ UNCHANGED port /\ UNCHANGED Processes!Bridge
    BY <1>4 DEF Processes!Appears
  <2>2. other' = other /\ other' \in BOOLEAN
    BY <1>0, <1>4 DEF Processes!Appears
  <2>3. PICK kind \in OthersStart \cup {"foreign"} :
          table' = [table EXCEPT ![pid] =
              [kind |-> kind, owner |-> IF kind = "foreign" THEN 0 ELSE Processes!Others,
               created |-> births + 1, named |-> kind # "foreign"]]
    BY <1>4 DEF Processes!Appears
  <2>4. PICK proc : proc =
              [kind |-> kind, owner |-> IF kind = "foreign" THEN 0 ELSE Processes!Others,
               created |-> births + 1, named |-> kind # "foreign"]
    OBVIOUS
  <2>5. /\ proc \in ProcessStates /\ proc.kind # "none" /\ proc.created = births + 1
        /\ proc.owner = 0 \/ proc.owner = MaxBoots + 1
    <3>1. births + 1 \in 0..MaxBirths
      BY <1>0, <2>1, ProcessBounds
    <3>2. kind \in Processes!Kinds \cup {"none", "foreign"} /\ kind # "none"
      BY ProcessBounds, BoundsAssumption DEF BoundsAssumption
    <3>3. 0 \in 0..(MaxBoots + 1) /\ MaxBoots + 1 \in 0..(MaxBoots + 1)
      BY ProcessNumbers
    <3>4. PICK owner : /\ owner = IF kind = "foreign" THEN 0 ELSE Processes!Others
                       /\ owner = 0 \/ owner = MaxBoots + 1
      BY ProcessBounds
    <3>5. PICK named \in BOOLEAN : named = (kind # "foreign")
      OBVIOUS
    <3>6. proc = [kind |-> kind, owner |-> owner, created |-> births + 1, named |-> named]
      BY <2>4, <3>4, <3>5
    <3> QED BY <3>1, <3>2, <3>3, <3>4, <3>6 DEF ProcessStates
  <2>6. table' = [table EXCEPT ![pid] = proc]
    BY <2>3, <2>4
  <2>7. TableTyped' /\ TableSound'
    <3>1. UNCHANGED boots /\ UNCHANGED port
      BY <2>1 DEF Processes!Bridge
    <3>2. proc.owner <= boots \/ proc.owner = MaxBoots + 1
      BY <1>0, <2>5
    <3> QED BY <2>1, <2>5, <2>6, <3>1, <3>2, ProcessAppears
  <2>8. \A p \in Pids : \/ table'[p] = table[p]
                        \/ /\ table'[p].owner = 0 \/ table'[p].owner = MaxBoots + 1
                           /\ table'[p].created > births
    <3>1. table'[pid] = proc /\ \A p \in Pids \ {pid} : table'[p] = table[p]
      BY <2>6 DEF ProcessInv, TableTyped
    <3>2. proc.created > births
      BY <1>0, <2>5
    <3> QED BY <2>5, <3>1, <3>2
  <2> QED BY <1>0, <2>1, <2>2, <2>7, <2>8, BridgeRests DEF ProcessInv
<1> QED BY <1>1, <1>2, <1>3, <1>4 DEF Processes!System

-----------------------------------------------------------------------------
\* The steps of the bridge itself.
Later ==
    /\ pc \notin Before => pc' \notin Before
    /\ pc \notin Before \cup Starting => pc' \notin Before \cup Starting
    /\ pc \notin Before \cup Starting \cup Tunneling \cup {"await mcp"} =>
          pc' \notin Before \cup Starting \cup Tunneling \cup {"await mcp"}

Frees == \A p \in Pids : table'[p] = table[p] \/ table'[p] = Processes!Free

LEMMA OwnKeeps ==
    ASSUME ProcessInv, boots' = boots, own' = own, pc # "off", Frees, Later
    PROVE  OwnSound'
<1>1. boots \in Nat /\ boots > 0
  BY ProcessBounds DEF ProcessInv, BridgeTyped
<1>2. ASSUME NEW p \in Pids, table'[p].owner = boots
      PROVE  /\ table'[p].kind \in Processes!Kinds
             /\ own[table'[p].kind] = [pid |-> p, created |-> table'[p].created]
  <2>1. table'[p] = table[p]
    BY <1>1, <1>2, FreeIs DEF Frees
  <2> QED BY <1>2, <2>1 DEF ProcessInv, OwnSound
<1>3. /\ pc' \in Before => own["adapter"].pid = 0
      /\ pc' \in Before \cup Starting => own["mcp"].pid = 0
      /\ pc' \in Before \cup Starting \cup Tunneling \cup {"await mcp"} => own["tunnel"].pid = 0
  BY DEF Later, ProcessInv, OwnSound
<1> QED BY <1>2, <1>3 DEF OwnSound, Processes!Kinds, Processes!Stack

LEMMA StoppedKeeps ==
    ASSUME ProcessInv, stopped' = stopped, boots' = boots, other' \in BOOLEAN, other' = other,
           pc' # "off" => pc # "off"
    PROVE  StoppedSound'
  BY DEF ProcessInv, StoppedSound, Live

LEMMA FoundIsMoot == ASSUME pc' \notin {"verify", "recycle", "inspect", "recycle tunnel"} PROVE FoundSound'
  BY DEF FoundSound

LEMMA StillKeeps ==
    ASSUME ProcessInv, Processes!Still, pc # "off", pc' \in StartPlaces, Later, FoundSound'
    PROVE  ProcessInv'
<1>1. UNCHANGED <<table, births, port, boots, own, stopped>>
  BY DEF Processes!Still, Processes!Processes
<1>2. other' = other /\ other' \in BOOLEAN
  BY DEF Processes!Still, ProcessInv
<1>3. TableTyped' /\ TableSound'
  BY <1>1 DEF ProcessInv, TableTyped, TableSound, Processes!Kinds, Processes!Stack
<1>4. BridgeTyped'
  BY <1>1 DEF ProcessInv, BridgeTyped, Processes!Kinds, Processes!Stack
<1>5. OwnSound'
  BY <1>1, OwnKeeps DEF Frees
<1>6. StoppedSound'
  BY <1>1, <1>2, StoppedKeeps
<1> QED BY <1>2, <1>3, <1>4, <1>5, <1>6 DEF ProcessInv

LEMMA LiveIs ==
    /\ \A o : Processes!Live(o) <=> Live(o, boots, pc, other)
    /\ \A p, c : Processes!Is(p, c) <=> (table[p].kind # "none" /\ table[p].created = c)
    /\ \A p : Processes!Alive(p) <=> table[p].kind # "none"
  BY DEF Processes!Live, Live, Processes!Others, Processes!Is, Processes!Alive

LEMMA BootKeeps == ASSUME ProcessInv, Processes!Boot PROVE ProcessInv'
<1>1. /\ pc = "off" /\ boots < MaxBoots /\ boots' = boots + 1 /\ pc' = "probe" /\ found' = {}
      /\ own' = [k \in Processes!Kinds |-> [pid |-> 0, created |-> 0]]
      /\ UNCHANGED <<table, births, port, stopped>>
  BY ProcessBounds
  DEF Processes!Boot, Processes!From, Processes!Goes, Processes!Processes
<1>2. other' = other /\ other' \in BOOLEAN
  BY DEF Processes!Boot, ProcessInv
<1>3. boots \in Nat /\ boots' \in 0..MaxBoots /\ boots' > 0
  BY <1>1, ProcessBounds DEF ProcessInv, BridgeTyped
<1>4. TableTyped'
  BY <1>1 DEF ProcessInv, TableTyped, Processes!Kinds, Processes!Stack
<1>5. \A p \in Pids : table[p].owner \in Nat /\ (table[p].owner <= boots \/ table[p].owner = MaxBoots + 1)
  BY ProcessBounds DEF ProcessInv, TableTyped, ProcessStates, TableSound
<1>6. TableSound'
  BY <1>1, <1>3, <1>5 DEF ProcessInv, TableSound
<1>7. BridgeTyped'
  <2>1. own' \in [Processes!Kinds -> Owned]
    BY <1>1, ProcessBounds DEF Owned
  <2> QED BY <1>1, <1>3, <2>1 DEF BridgeTyped, StartPlaces, Before, Processes!Kinds, Processes!Stack
<1>8. OwnSound'
  <2>1. \A p \in Pids : table'[p].owner # boots'
    BY <1>1, <1>3, <1>5, ProcessBounds
  <2>2. own'["adapter"].pid = 0 /\ own'["mcp"].pid = 0 /\ own'["tunnel"].pid = 0
    BY <1>1, ProcessBounds
  <2> QED BY <2>1, <2>2 DEF OwnSound
<1>9. FoundSound'
  BY <1>1, FoundIsMoot
<1>10. StoppedSound'
  BY <1>1, <1>2, <1>3, ProcessBounds DEF ProcessInv, StoppedSound, Live
<1> QED BY <1>2, <1>4, <1>6, <1>7, <1>8, <1>9, <1>10 DEF ProcessInv

LEMMA ProbeKeeps == ASSUME ProcessInv, Processes!Probe PROVE ProcessInv'
<1>1. pc = "probe" /\ pc' \in {"match", "spawn adapter"} /\ Processes!Still
  BY DEF Processes!Probe, Processes!From, Processes!Goes
<1>2. Later /\ pc' \in StartPlaces
  BY <1>1 DEF Later, StartPlaces, Before
<1> QED BY <1>1, <1>2, FoundIsMoot, StillKeeps

Suspects == {p \in Pids : table[p].kind \in Processes!Stack /\ ~Processes!Live(table[p].owner)}

LEMMA MatchKeeps == ASSUME ProcessInv, Processes!Match PROVE ProcessInv'
<1>0. PICK candidates \in SUBSET {p \in Pids : table[p].kind \in Processes!Stack} :
        \/ /\ \A p \in candidates : ~Processes!Live(table[p].owner)
           /\ found' = {Processes!Seen(table[p].kind, p, table[p].created, TRUE) : p \in candidates}
           /\ pc' = "verify"
        \/ pc' = "tunnel"
  BY DEF Processes!Match, Processes!Goes
<1>1. pc = "match" /\ pc' \in {"verify", "tunnel"} /\ Processes!Still
  BY <1>0 DEF Processes!Match, Processes!From
<1>2. Later /\ pc' \in StartPlaces
  BY <1>1 DEF Later, StartPlaces, Before, Starting, Tunneling
<1>3. ASSUME pc' = "verify" PROVE FoundSound'
  <2>1. \A f \in found' : \E p \in Suspects : f.pid = p /\ f.created = table[p].created
    BY <1>0, <1>3 DEF Processes!Seen, Suspects
  <2>2. UNCHANGED <<table, births, boots>>
    BY <1>1 DEF Processes!Still, Processes!Processes
  <2>3. other' = other
    BY <1>1 DEF Processes!Still
  <2>4. ASSUME NEW f \in found'
        PROVE  /\ f.pid \in Pids /\ f.created \in 0..births'
               /\ table'[f.pid].kind \in Processes!Stack /\ ~Live(table'[f.pid].owner, boots', pc', other')
    <3>1. PICK p \in Suspects : f.pid = p /\ f.created = table[p].created
      BY <2>1, <2>4
    <3>2. p \in Pids /\ table[p].kind \in Processes!Stack /\ ~Processes!Live(table[p].owner)
      BY DEF Suspects
    <3>3. table[p].created \in 0..births
      BY <3>2, ProcessBounds DEF ProcessInv, TableTyped, ProcessStates, TableSound
    <3>4. ~Live(table[p].owner, boots', pc', other')
      BY <1>1, <1>3, <2>2, <2>3, <3>2, LiveIs DEF Live
    <3> QED BY <2>2, <3>1, <3>2, <3>3, <3>4
  <2> QED BY <1>3, <2>4 DEF FoundSound, Processes!Stack
<1>4. FoundSound'
  BY <1>1, <1>3, FoundIsMoot
<1> QED BY <1>1, <1>2, <1>4, StillKeeps

LEMMA VerifyKeeps == ASSUME ProcessInv, Processes!Verify PROVE ProcessInv'
<1>1. pc = "verify" /\ ((pc' = "recycle" /\ found' = found) \/ pc' = "tunnel") /\ Processes!Still
  BY DEF Processes!Verify, Processes!From, Processes!Goes
<1>2. Later /\ pc' \in StartPlaces
  BY <1>1 DEF Later, StartPlaces, Before, Starting, Tunneling
<1>3. UNCHANGED <<table, births, boots>>
  BY <1>1 DEF Processes!Still, Processes!Processes
<1>4. other' = other
  BY <1>1 DEF Processes!Still
<1>5. FoundSound'
  BY <1>1, <1>3, <1>4 DEF ProcessInv, FoundSound, Live, Processes!Stack
<1> QED BY <1>1, <1>2, <1>5, StillKeeps

\* What is stopped is no orphan only where the manager of the tunnel was misled.
LEMMA StoppedGrows ==
    ASSUME ProcessInv, NEW by, NEW f, f.pid \in Pids, Processes!Stops(by, f),
           boots' = boots, other' \in BOOLEAN, other' = other, pc # "off", pc' # "off",
           \A s : /\ s.by = by /\ s.process = table[f.pid] /\ s.same = Processes!Is(f.pid, f.created)
                   /\ s.read = f.read
                  => StoppedOne(s) /\ (Live(table[f.pid].owner, boots, pc, other) => Spared(s))
    PROVE  StoppedSound'
<1>1. table[f.pid].owner \in 0..boots \/ table[f.pid].owner = MaxBoots + 1
  BY ProcessBounds DEF ProcessInv, TableTyped, BridgeTyped, TableSound, ProcessStates
<1>2. \A o : Live(o, boots', pc', other') <=> Live(o, boots, pc, other)
  BY DEF Live
<1>3. PICK one : one = [by |-> by, process |-> table[f.pid], same |-> Processes!Is(f.pid, f.created),
                        read |-> f.read]
  OBVIOUS
<1>4. stopped' = {one}
  BY <1>3 DEF Processes!Stops
<1>5. /\ one.by = by /\ one.process = table[f.pid] /\ one.same = Processes!Is(f.pid, f.created)
      /\ one.read = f.read
  BY <1>3
<1>6. StoppedOne(one) /\ (Live(one.process.owner, boots, pc, other) => Spared(one))
  BY <1>5
<1> QED BY <1>1, <1>2, <1>4, <1>5, <1>6 DEF StoppedSound

LEMMA RecycleKeeps == ASSUME ProcessInv, Processes!Recycle PROVE ProcessInv'
<1>1. pc = "recycle" /\ UNCHANGED <<births, boots, own>>
  BY DEF Processes!Recycle, Processes!From
<1>2. other' = other /\ other' \in BOOLEAN
  BY DEF Processes!Recycle, ProcessInv
<1>3. ASSUME pc' \in {"await offline", "down"}, UNCHANGED <<table, port, stopped>> PROVE ProcessInv'
  <2>1. Later /\ pc' \in StartPlaces
    BY <1>1, <1>3 DEF Later, StartPlaces, Before, Starting, Tunneling
  <2>2. TableTyped' /\ TableSound'
    BY <1>1, <1>3 DEF ProcessInv, TableTyped, TableSound, Processes!Kinds, Processes!Stack
  <2>3. BridgeTyped'
    BY <1>1, <2>1 DEF ProcessInv, BridgeTyped, Processes!Kinds, Processes!Stack
  <2>4. OwnSound'
    BY <1>1, <1>3, <2>1, OwnKeeps DEF Frees
  <2>5. StoppedSound' /\ FoundSound'
    BY <1>1, <1>2, <1>3, StoppedKeeps, FoundIsMoot
  <2> QED BY <1>2, <2>2, <2>3, <2>4, <2>5 DEF ProcessInv
<1>4. ASSUME NEW f \in found, Processes!Is(f.pid, f.created), Processes!Ends({f.pid}),
             Processes!Stops("stack", f), found' = found \ {f}, pc' = pc
      PROVE  ProcessInv'
  <2>1. /\ f.pid \in Pids /\ table[f.pid].kind \in Processes!Stack
        /\ ~Live(table[f.pid].owner, boots, pc, other)
    <3>1. table[f.pid].kind # "none" /\ table[f.pid].created = f.created
      BY <1>4, LiveIs
    <3> QED BY <1>1, <1>4, <3>1 DEF ProcessInv, FoundSound
  <2>2. /\ TableTyped' /\ TableSound'
        /\ \A p \in Pids : table'[p] = IF p \in {f.pid} THEN Processes!Free ELSE table[p]
    BY <1>1, <1>4, ProcessesEnd
  <2>3. BridgeTyped'
    BY <1>1, <1>4 DEF ProcessInv, BridgeTyped, Processes!Kinds, Processes!Stack
  <2>4. OwnSound'
    BY <1>1, <1>4, <2>2, OwnKeeps DEF Frees, Later
  <2>5. StoppedSound'
    <3>1. PICK by : by = "stack"
      OBVIOUS
    <3>2. Processes!Stops(by, f) /\ pc # "off" /\ pc' # "off"
      BY <1>1, <1>4, <3>1
    <3>3. ASSUME NEW s, s.by = by, s.process = table[f.pid]
          PROVE  StoppedOne(s) /\ (Live(table[f.pid].owner, boots, pc, other) => Spared(s))
      BY <2>1, <3>1, <3>3, ProcessBounds DEF StoppedOne
    <3> QED BY <1>1, <1>2, <2>1, <3>2, <3>3, StoppedGrows
  <2>6. ASSUME NEW g \in found'
        PROVE  /\ g.pid \in Pids /\ g.created \in 0..births'
               /\ table'[g.pid].kind # "none" /\ table'[g.pid].created = g.created =>
                     table'[g.pid].kind \in Processes!Stack /\ ~Live(table'[g.pid].owner, boots', pc', other')
    <3>1. /\ g.pid \in Pids /\ g.created \in 0..births
          /\ table[g.pid].kind # "none" /\ table[g.pid].created = g.created =>
                     table[g.pid].kind \in Processes!Stack /\ ~Live(table[g.pid].owner, boots, pc, other)
      BY <1>1, <1>4, <2>6 DEF ProcessInv, FoundSound
    <3> QED BY <1>1, <1>2, <1>4, <2>2, <3>1, FreeIs DEF Live
  <2>7. FoundSound'
    BY <1>1, <1>4, <2>6 DEF FoundSound, Processes!Stack
  <2> QED BY <1>2, <2>2, <2>3, <2>4, <2>5, <2>7 DEF ProcessInv
<1> QED BY <1>3, <1>4 DEF Processes!Recycle, Processes!Goes

LEMMA AwaitOfflineKeeps == ASSUME ProcessInv, Processes!AwaitOffline PROVE ProcessInv'
<1>1. pc = "await offline" /\ pc' \in {"spawn adapter", "tunnel"} /\ Processes!Still
  BY DEF Processes!AwaitOffline, Processes!From, Processes!Goes
<1>2. Later /\ pc' \in StartPlaces
  BY <1>1 DEF Later, StartPlaces, Before, Starting, Tunneling
<1> QED BY <1>1, <1>2, FoundIsMoot, StillKeeps

SpawnsAt(kind, place, next) ==
    \/ kind = "adapter" /\ place = "spawn adapter" /\ next = "await adapter"
    \/ kind = "mcp" /\ place = "spawn mcp" /\ next = "await mcp"
    \/ kind = "tunnel" /\ place = "spawn tunnel" /\ next = "await tunnel"

LEMMA SpawnKeeps ==
    ASSUME ProcessInv, NEW kind \in Processes!Kinds, NEW place, NEW next, Processes!Spawn(kind, place, next),
           SpawnsAt(kind, place, next)
    PROVE  ProcessInv'
<1>1. PICK pid \in Pids :
        /\ ~Processes!Alive(pid)
        /\ table' = [table EXCEPT ![pid] =
              [kind |-> kind, owner |-> boots, created |-> births + 1, named |-> FALSE]]
        /\ own' = [own EXCEPT ![kind] = [pid |-> pid, created |-> births + 1]]
  BY DEF Processes!Spawn
<1>2. /\ pc = place /\ pc' = next /\ births < MaxBirths /\ births' = births + 1
      /\ UNCHANGED <<port, boots, stopped>>
  BY DEF Processes!Spawn, Processes!From, Processes!Goes
<1>3. other' = other /\ other' \in BOOLEAN
  BY DEF Processes!Spawn, ProcessInv
<1>4. /\ pc # "off" /\ pc' \in {"await adapter", "await mcp", "await tunnel"}
      /\ own[kind].pid = 0 /\ Later
      /\ kind = "adapter" => pc' \notin Before
      /\ kind = "mcp" => pc' \notin Before \cup Starting
      /\ kind = "tunnel" => pc' \notin Before \cup Starting \cup Tunneling \cup {"await mcp"}
  BY <1>2 DEF ProcessInv, OwnSound, Later, Before, Starting, Tunneling, SpawnsAt
<1>5. boots \in 0..MaxBoots /\ births \in Nat /\ boots > 0 /\ births + 1 \in 0..MaxBirths
  <2>1. boots \in 0..MaxBoots /\ boots > 0
    BY <1>4 DEF ProcessInv, BridgeTyped
  <2>2. births \in 0..MaxBirths
    BY DEF ProcessInv, TableTyped
  <2>3. births + 1 \in 0..MaxBirths
    BY <1>2, <2>2, ProcessNumbers
  <2> QED BY <2>1, <2>2, <2>3
<1>6. PICK proc : proc = [kind |-> kind, owner |-> boots, created |-> births + 1, named |-> FALSE]
  OBVIOUS
<1>7. /\ proc \in ProcessStates /\ proc.kind = kind /\ proc.kind # "none" /\ proc.owner = boots
      /\ proc.created = births + 1
  <2>1. kind \in Processes!Kinds \cup {"none", "foreign"} /\ kind # "none"
    BY ProcessBounds
  <2>2. boots \in 0..(MaxBoots + 1)
    BY <1>5, ProcessNumbers
  <2> QED BY <1>5, <1>6, <2>1, <2>2 DEF ProcessStates
<1>8. TableTyped' /\ TableSound'
  <2>1. table' = [table EXCEPT ![pid] = proc] /\ proc.owner <= boots
    <3>1. boots \in Nat /\ boots <= boots
      BY <1>5, ProcessNumbers
    <3> QED BY <1>1, <1>6, <1>7, <3>1
  <2> QED BY <1>2, <1>7, <2>1, ProcessAppears
<1>9. own[kind] \in Owned /\ own' \in [Processes!Kinds -> Owned]
      /\ own'[kind] = [pid |-> pid, created |-> births + 1]
      /\ \A k \in Processes!Kinds \ {kind} : own'[k] = own[k]
  BY <1>1, <1>5 DEF ProcessInv, BridgeTyped, Owned
<1>10. BridgeTyped'
  BY <1>2, <1>4, <1>5, <1>9 DEF BridgeTyped, StartPlaces, Starting, Processes!Kinds, Processes!Stack
<1>11. OwnSound'
  <2>1. table'[pid] = proc /\ \A p \in Pids \ {pid} : table'[p] = table[p]
    BY <1>1, <1>6 DEF ProcessInv, TableTyped
  <2>2. ASSUME NEW p \in Pids, table'[p].owner = boots
        PROVE  /\ table'[p].kind \in Processes!Kinds
               /\ own'[table'[p].kind] = [pid |-> p, created |-> table'[p].created]
    <3>1. CASE p = pid
      BY <1>7, <1>9, <2>1, <3>1
    <3>2. CASE p # pid
      <4>1. /\ table'[p] = table[p] /\ table[p].kind \in Processes!Kinds
            /\ own[table[p].kind] = [pid |-> p, created |-> table[p].created]
        BY <1>4, <2>1, <2>2, <3>2 DEF ProcessInv, OwnSound
      <4>2. table[p].kind # kind
        <5>1. own[table[p].kind].pid = p /\ p # 0 /\ own[kind].pid = 0
          <6>1. own[kind].pid = 0
            BY <1>4
          <6>2. own[table[p].kind].pid = p
            BY <4>1
          <6> QED BY <6>1, <6>2, PidsAreNoZero
        <5> QED BY <5>1
      <4> QED BY <1>9, <4>1, <4>2
    <3> QED BY <3>1, <3>2
  <2>3. /\ pc' \in Before => own'["adapter"].pid = 0
        /\ pc' \in Before \cup Starting => own'["mcp"].pid = 0
        /\ pc' \in Before \cup Starting \cup Tunneling \cup {"await mcp"} => own'["tunnel"].pid = 0
    BY <1>4, <1>9, ProcessBounds DEF ProcessInv, OwnSound, Later
  <2> QED BY <1>2, <2>2, <2>3 DEF OwnSound, Processes!Kinds, Processes!Stack
<1>12. FoundSound' /\ StoppedSound'
  BY <1>2, <1>3, <1>4, FoundIsMoot, StoppedKeeps
<1> QED BY <1>3, <1>8, <1>10, <1>11, <1>12 DEF ProcessInv

\* A bridge that stops what it started has nothing of it left.
LEMMA TerminatesKeeps ==
    ASSUME ProcessInv, NEW kinds \in SUBSET Processes!Kinds, Processes!Terminates(kinds),
           own' = Processes!Forgotten(kinds), UNCHANGED <<births, boots>>, pc # "off", pc' \in StartPlaces, Later
    PROVE  TableTyped' /\ TableSound' /\ BridgeTyped' /\ OwnSound'
<1>1. PICK pids : pids = {own[k].pid : k \in {q \in kinds : Processes!Runs(q)}}
  OBVIOUS
<1>2. Processes!Ends(pids)
  BY <1>1 DEF Processes!Terminates
<1>3. /\ TableTyped' /\ TableSound'
      /\ \A p \in Pids : table'[p] = IF p \in pids THEN Processes!Free ELSE table[p]
  BY <1>2, ProcessesEnd
<1>4. \A k \in Processes!Kinds : own'[k] = IF k \in kinds THEN [pid |-> 0, created |-> 0] ELSE own[k]
  BY ProcessBounds DEF Processes!Forgotten
<1>5. own' \in [Processes!Kinds -> Owned]
  BY <1>4, ProcessBounds DEF Processes!Forgotten, ProcessInv, BridgeTyped, Owned
<1>6. BridgeTyped'
  BY <1>5 DEF ProcessInv, BridgeTyped, Processes!Kinds, Processes!Stack
<1>7. boots \in Nat /\ boots > 0
  BY ProcessBounds DEF ProcessInv, BridgeTyped
<1>8. ASSUME NEW p \in Pids, table'[p].owner = boots
      PROVE  /\ table'[p].kind \in Processes!Kinds
             /\ own'[table'[p].kind] = [pid |-> p, created |-> table'[p].created]
  <2>1. table'[p] = table[p] /\ p \notin pids
    BY <1>3, <1>7, <1>8, FreeIs
  <2>2. table[p].kind \in Processes!Kinds /\ own[table[p].kind] = [pid |-> p, created |-> table[p].created]
    BY <1>8, <2>1 DEF ProcessInv, OwnSound
  <2>3. table[p].kind \notin kinds
    <3>1. SUFFICES ASSUME table[p].kind \in kinds PROVE FALSE
      OBVIOUS
    <3>2. PICK k \in kinds : k = table[p].kind
      BY <3>1
    <3>3. own[k].pid = p /\ own[k].created = table[p].created /\ table[p].kind # "none" /\ p # 0
      BY <2>2, <3>2, ProcessBounds
    <3>4. Processes!Runs(k)
      BY <3>3, ProcessBounds DEF Processes!Runs, Processes!Is, Processes!Alive
    <3> QED BY <1>1, <2>1, <3>3, <3>4
  <2> QED BY <1>4, <2>1, <2>2, <2>3
<1>9. /\ pc' \in Before => own'["adapter"].pid = 0
      /\ pc' \in Before \cup Starting => own'["mcp"].pid = 0
      /\ pc' \in Before \cup Starting \cup Tunneling \cup {"await mcp"} => own'["tunnel"].pid = 0
  <2>1. \A k \in {"adapter", "mcp", "tunnel"} : own[k].pid = 0 => own'[k].pid = 0
    BY <1>4, ProcessBounds
  <2> QED BY <2>1 DEF ProcessInv, OwnSound, Later
<1> QED BY <1>3, <1>6, <1>8, <1>9 DEF OwnSound, Processes!Kinds, Processes!Stack

AwaitsAt(place, next, otherwise) ==
    \/ place = "await adapter" /\ next = "spawn mcp" /\ otherwise = "tunnel"
    \/ place = "await mcp" /\ next = "tunnel" /\ otherwise = "tunnel"
    \/ place = "await tunnel" /\ next = "up" /\ otherwise = "up"

LEMMA AwaitKeeps ==
    ASSUME ProcessInv, NEW kinds \in SUBSET Processes!Kinds, NEW place, NEW answers, NEW told, NEW next,
           NEW otherwise, Processes!Await(kinds, place, answers, told, next, otherwise),
           AwaitsAt(place, next, otherwise)
    PROVE  ProcessInv'
<1>1. pc = place /\ pc' \in {next, otherwise} /\ UNCHANGED <<births, boots, stopped>>
  BY DEF Processes!Await, Processes!From, Processes!Goes
<1>2. other' = other /\ other' \in BOOLEAN
  BY DEF Processes!Await, ProcessInv
<1>3. /\ pc # "off" /\ pc' \in StartPlaces /\ Later
      /\ pc' \notin {"verify", "recycle", "inspect", "recycle tunnel"}
  BY <1>1 DEF Later, StartPlaces, Before, Starting, Tunneling, AwaitsAt
<1>4. FoundSound' /\ StoppedSound'
  BY <1>1, <1>2, <1>3, FoundIsMoot, StoppedKeeps
<1>5. CASE UNCHANGED <<table, port, own>>
  <2>1. TableTyped' /\ TableSound' /\ BridgeTyped'
    BY <1>1, <1>3, <1>5 DEF ProcessInv, TableTyped, TableSound, BridgeTyped, Processes!Kinds, Processes!Stack
  <2>2. OwnSound'
    BY <1>1, <1>3, <1>5, OwnKeeps DEF Frees
  <2> QED BY <1>2, <1>4, <2>1, <2>2 DEF ProcessInv
<1>6. CASE Processes!Terminates(kinds) /\ own' = Processes!Forgotten(kinds)
  <2>1. TableTyped' /\ TableSound' /\ BridgeTyped' /\ OwnSound'
    BY <1>1, <1>3, <1>6, TerminatesKeeps
  <2> QED BY <1>2, <1>4, <2>1 DEF ProcessInv
<1> QED BY <1>5, <1>6 DEF Processes!Await

LEMMA TunnelKeeps == ASSUME ProcessInv, Processes!Tunnel PROVE ProcessInv'
<1>1. /\ pc = "tunnel" /\ Processes!Still
      /\ \/ /\ pc' = "inspect" /\ port["tunnel"] # 0
            /\ found' = {[kind |-> "tunnel", pid |-> port["tunnel"], created |-> 0, read |-> FALSE]}
         \/ pc' = "spawn tunnel"
  BY ProcessBounds DEF Processes!Tunnel, Processes!From, Processes!Goes, Processes!Online, Processes!Seen
<1>2. Later /\ pc' \in StartPlaces
  BY <1>1 DEF Later, StartPlaces, Before, Starting, Tunneling
<1>3. ASSUME pc' = "inspect" PROVE FoundSound'
  <2>1. port["tunnel"] \in Pids
    <3>1. port["tunnel"] # 0
      BY <1>3, ProcessBounds DEF Processes!Tunnel, Processes!From, Processes!Goes, Processes!Online
    <3>2. port \in [Processes!Kinds -> Pids \cup {0}]
      BY DEF ProcessInv, TableTyped
    <3>3. port["tunnel"] \in Pids \cup {0}
      <4>1. "tunnel" \in Processes!Kinds
        BY DEF Processes!Kinds
      <4> QED BY <3>2, <4>1
    <3> QED BY <3>1, <3>3
  <2>2. \E g : g.pid \in Pids /\ found' = {g}
    BY <1>1, <1>3, <2>1
  <2>3. found' # {} /\ \A f \in found' : f.pid \in Pids
    BY <2>2
  <2> QED BY <1>3, <2>3 DEF FoundSound
<1>4. FoundSound'
  BY <1>1, <1>3, FoundIsMoot
<1> QED BY <1>1, <1>2, <1>4, StillKeeps

LEMMA InspectKeeps ==
    ASSUME ProcessInv, NEW read \in BOOLEAN, NEW above \in BOOLEAN, Processes!Inspect(read, above)
    PROVE  ProcessInv'
<1>1. pc = "inspect" /\ Processes!Still
  BY DEF Processes!Inspect, Processes!From
<1>2. PICK f \in found : f.pid \in Pids
  BY <1>1 DEF ProcessInv, FoundSound
<1>3. PICK client : client = table[f.pid]
  OBVIOUS
<1>4. \/ /\ client.kind = "tunnel" /\ client.named /\ ~(above /\ Processes!Live(client.owner))
         /\ pc' = "recycle tunnel" /\ found' = {Processes!Seen("tunnel", f.pid, client.created, above)}
      \/ pc' = "up"
  BY <1>2, <1>3 DEF Processes!Inspect, Processes!Goes
<1>5. Later /\ pc' \in StartPlaces
  BY <1>1, <1>4 DEF Later, StartPlaces, Before, Starting, Tunneling
<1>6. UNCHANGED <<table, births, boots>>
  BY <1>1 DEF Processes!Still, Processes!Processes
<1>7. other' = other
  BY <1>1 DEF Processes!Still
<1>8. ASSUME pc' = "recycle tunnel" PROVE FoundSound'
  <2>1. client.kind = "tunnel" /\ client.named /\ ~(above /\ Live(client.owner, boots, pc, other))
    BY <1>4, <1>8, LiveIs
  <2>2. PICK g : g = [kind |-> "tunnel", pid |-> f.pid, created |-> client.created, read |-> above]
    OBVIOUS
  <2>3. found' = {g} /\ g.pid = f.pid /\ g.created = client.created /\ g.read = above
    BY <1>4, <1>8, <2>2 DEF Processes!Seen
  <2>4. client.owner # boots
    <3>1. own["tunnel"].pid = 0
      BY <1>1 DEF ProcessInv, OwnSound, Tunneling
    <3>2. ASSUME client.owner = boots PROVE own["tunnel"].pid = f.pid
      <4>1. pc # "off" /\ f.pid \in Pids /\ table[f.pid].owner = boots /\ table[f.pid].kind = "tunnel"
        BY <1>1, <1>2, <1>3, <2>1, <3>2
      <4>2. OwnSound
        BY DEF ProcessInv
      <4>3. own[table[f.pid].kind] = [pid |-> f.pid, created |-> table[f.pid].created]
        BY <4>1, <4>2 DEF OwnSound
      <4> QED BY <4>1, <4>3
    <3> QED BY <1>2, <3>1, <3>2, PidsAreNoZero
  <2>5. client.created \in 0..births
    BY <1>2, <1>3, ProcessBounds DEF ProcessInv, TableTyped, ProcessStates, TableSound
  <2>6. \A o : Live(o, boots', pc', other') <=> Live(o, boots, pc, other)
    BY <1>1, <1>6, <1>7, <1>8 DEF Live
  <2>7. TunnelSeen(g, table'[g.pid], boots', pc', other')
    BY <1>3, <1>6, <2>1, <2>3, <2>4, <2>6 DEF TunnelSeen
  <2>8. g.created \in 0..births'
    BY <1>6, <2>3, <2>5
  <2> QED BY <1>2, <1>8, <2>3, <2>7, <2>8 DEF FoundSound
<1>9. FoundSound'
  BY <1>4, <1>8, FoundIsMoot
<1> QED BY <1>1, <1>5, <1>9, StillKeeps

LEMMA RecycleTunnelKeeps == ASSUME ProcessInv, Processes!RecycleTunnel PROVE ProcessInv'
<1>1. pc = "recycle tunnel" /\ UNCHANGED <<births, boots, own>>
  BY DEF Processes!RecycleTunnel, Processes!From
<1>2. other' = other /\ other' \in BOOLEAN
  BY DEF Processes!RecycleTunnel, ProcessInv
<1>3. PICK f \in found : f.pid \in Pids /\ TunnelSeen(f, table[f.pid], boots, pc, other)
  BY <1>1 DEF ProcessInv, FoundSound
<1>4. \/ /\ Processes!Alive(f.pid) /\ pc' = "await health" /\ Processes!Ends({f.pid})
         /\ Processes!Stops("tunnel", f)
      \/ pc' = "up" /\ UNCHANGED <<table, port, stopped>>
  BY <1>3 DEF Processes!RecycleTunnel, Processes!Goes
<1>5. Later /\ pc' \in StartPlaces /\ pc # "off" /\ pc' # "off"
  BY <1>1, <1>4 DEF Later, StartPlaces, Before, Starting, Tunneling
<1>6. FoundSound' /\ BridgeTyped'
  <2>1. FoundSound'
    BY <1>4, FoundIsMoot
  <2> QED BY <1>1, <1>5, <2>1 DEF ProcessInv, BridgeTyped, Processes!Kinds, Processes!Stack
<1>7. CASE Processes!Alive(f.pid) /\ Processes!Ends({f.pid}) /\ Processes!Stops("tunnel", f)
  <2>1. /\ Live(table[f.pid].owner, boots, pc, other) => table[f.pid].owner = MaxBoots + 1
        /\ Processes!Is(f.pid, f.created) =>
              /\ table[f.pid].kind = "tunnel" /\ table[f.pid].named
              /\ f.read => ~Live(table[f.pid].owner, boots, pc, other)
    BY <1>3, <1>7, LiveIs DEF TunnelSeen, Live
  <2>2. /\ TableTyped' /\ TableSound'
        /\ \A p \in Pids : table'[p] = IF p \in {f.pid} THEN Processes!Free ELSE table[p]
    BY <1>1, <1>7, ProcessesEnd
  <2>3. OwnSound'
    BY <1>1, <1>5, <2>2, OwnKeeps DEF Frees
  <2>4. StoppedSound'
    <3>1. PICK by : by = "tunnel"
      OBVIOUS
    <3>2. Processes!Stops(by, f)
      BY <1>7, <3>1
    <3>3. ASSUME NEW s, s.by = by, s.process = table[f.pid], s.same = Processes!Is(f.pid, f.created),
                 s.read = f.read
          PROVE  StoppedOne(s) /\ (Live(table[f.pid].owner, boots, pc, other) => Spared(s))
      BY <2>1, <3>1, <3>3 DEF StoppedOne, Spared
    <3> QED BY <1>1, <1>2, <1>3, <1>5, <3>2, <3>3, StoppedGrows
  <2> QED BY <1>2, <1>6, <2>2, <2>3, <2>4 DEF ProcessInv
<1>8. CASE UNCHANGED <<table, port, stopped>>
  <2>1. TableTyped' /\ TableSound'
    BY <1>1, <1>8 DEF ProcessInv, TableTyped, TableSound, Processes!Kinds, Processes!Stack
  <2>2. OwnSound'
    BY <1>1, <1>5, <1>8, OwnKeeps DEF Frees
  <2>3. StoppedSound'
    BY <1>1, <1>2, <1>5, <1>8, StoppedKeeps
  <2> QED BY <1>2, <1>6, <2>1, <2>2, <2>3 DEF ProcessInv
<1> QED BY <1>4, <1>7, <1>8

LEMMA AwaitHealthKeeps == ASSUME ProcessInv, Processes!AwaitHealth PROVE ProcessInv'
<1>1. pc = "await health" /\ pc' \in {"up", "spawn tunnel"} /\ Processes!Still
  BY DEF Processes!AwaitHealth, Processes!From, Processes!Goes
<1>2. Later /\ pc' \in StartPlaces
  BY <1>1 DEF Later, StartPlaces, Before, Starting, Tunneling
<1> QED BY <1>1, <1>2, FoundIsMoot, StillKeeps

LEMMA StackStops == ASSUME ProcessInv, Processes!Stop PROVE ProcessInv'
<1>1. /\ pc \in {"up", "down"} /\ pc' = "off" /\ Processes!Terminates(Processes!Kinds)
      /\ own' = Processes!Forgotten(Processes!Kinds) /\ UNCHANGED <<births, boots, stopped>>
  BY DEF Processes!Stop, Processes!Goes
<1>2. other' = other /\ other' \in BOOLEAN
  BY DEF Processes!Stop, ProcessInv
<1>3. Later /\ pc' \in StartPlaces /\ pc # "off"
  BY <1>1 DEF Later, StartPlaces, Before, Starting, Tunneling
<1>4. TableTyped' /\ TableSound' /\ BridgeTyped' /\ OwnSound'
  BY <1>1, <1>3, TerminatesKeeps
<1>5. FoundSound' /\ StoppedSound'
  BY <1>1, <1>2, <1>3, FoundIsMoot, StoppedKeeps
<1> QED BY <1>2, <1>4, <1>5 DEF ProcessInv

LEMMA CrashKeeps == ASSUME ProcessInv, Processes!Crash PROVE ProcessInv'
<1>1. /\ pc # "off" /\ pc' = "off" /\ own' = Processes!Forgotten(Processes!Kinds)
      /\ UNCHANGED <<table, births, port, boots, stopped>>
  BY DEF Processes!Crash, Processes!Goes, Processes!Processes
<1>2. other' = other /\ other' \in BOOLEAN
  BY DEF Processes!Crash, ProcessInv
<1>3. TableTyped' /\ TableSound'
  BY <1>1 DEF ProcessInv, TableTyped, TableSound, Processes!Kinds, Processes!Stack
<1>4. BridgeTyped'
  <2>1. own' \in [Processes!Kinds -> Owned]
    BY <1>1, ProcessBounds DEF Processes!Forgotten, Owned
  <2> QED BY <1>1, <2>1 DEF ProcessInv, BridgeTyped, StartPlaces, Processes!Kinds, Processes!Stack
<1>5. OwnSound'
  BY <1>1 DEF OwnSound, Before, Starting, Tunneling
<1>6. FoundSound' /\ StoppedSound'
  BY <1>1, <1>2, FoundIsMoot, StoppedKeeps
<1> QED BY <1>2, <1>3, <1>4, <1>5, <1>6 DEF ProcessInv

LEMMA ProcessStep == ASSUME ProcessInv, Processes!Next PROVE ProcessInv'
<1>1. ASSUME Processes!Start PROVE ProcessInv'
  <2>1. Processes!SpawnAdapter => ProcessInv'
    BY SpawnKeeps, ProcessBounds DEF Processes!SpawnAdapter, SpawnsAt
  <2>2. Processes!SpawnMcp => ProcessInv'
    BY SpawnKeeps, ProcessBounds DEF Processes!SpawnMcp, SpawnsAt
  <2>3. Processes!SpawnTunnel => ProcessInv'
    BY SpawnKeeps, ProcessBounds DEF Processes!SpawnTunnel, SpawnsAt
  <2>4. Processes!AwaitAdapter => ProcessInv'
    BY AwaitKeeps DEF Processes!AwaitAdapter, Processes!Kinds, AwaitsAt
  <2>5. Processes!AwaitMcp => ProcessInv'
    BY AwaitKeeps DEF Processes!AwaitMcp, Processes!Kinds, AwaitsAt
  <2>6. Processes!AwaitTunnel => ProcessInv'
    BY AwaitKeeps DEF Processes!AwaitTunnel, Processes!Kinds, AwaitsAt
  <2> QED BY <1>1, <2>1, <2>2, <2>3, <2>4, <2>5, <2>6, ProbeKeeps, MatchKeeps, VerifyKeeps, RecycleKeeps,
             AwaitOfflineKeeps, TunnelKeeps, InspectKeeps, RecycleTunnelKeeps, AwaitHealthKeeps
          DEF Processes!Start
<1> QED BY <1>1, SystemKeeps, BootKeeps, StackStops, CrashKeeps DEF Processes!Next

LEMMA ProcessImplies == ProcessInv => Processes!TypeOK /\ Processes!OnlyOrphansAreStopped
<1> SUFFICES ASSUME ProcessInv PROVE Processes!TypeOK /\ Processes!OnlyOrphansAreStopped
  OBVIOUS
<1>1. Processes!TypeOK
  BY ProcessBounds, LiveIs
  DEF Processes!TypeOK, ProcessInv, TableTyped, BridgeTyped, ProcessStates
<1>2. \A s \in stopped :
          /\ Processes!Live(s.process.owner) =>
                s.by = "tunnel" /\ s.process.owner = Processes!Others /\ ~(s.same /\ s.read)
          /\ s.by = "stack" => s.process.kind \in Processes!Stack
          /\ s.by = "tunnel" /\ s.same => s.process.kind = "tunnel" /\ s.process.named
  BY LiveIs, ProcessBounds DEF ProcessInv, StoppedSound, StoppedOne, Spared
<1>3. \A p \in Pids : table[p].owner = boots /\ boots > 0 /\ pc # "off" =>
          own[table[p].kind] = [pid |-> p, created |-> table[p].created]
  BY DEF ProcessInv, OwnSound
<1> QED BY <1>1, <1>2, <1>3 DEF Processes!OnlyOrphansAreStopped

LEMMA ProcessRests == ASSUME ProcessInv, UNCHANGED processes PROVE ProcessInv'
<1>1. UNCHANGED <<table, births, port, boots, pc, found, own, stopped>>
  BY DEF processes
<1>2. other' = other /\ other' \in BOOLEAN
  BY DEF processes, ProcessInv
<1>3. TableTyped' /\ TableSound' /\ BridgeTyped'
  BY <1>1 DEF ProcessInv, TableTyped, TableSound, BridgeTyped, Processes!Kinds, Processes!Stack
<1>4. OwnSound' /\ FoundSound' /\ StoppedSound'
  BY <1>1, <1>2 DEF ProcessInv, OwnSound, FoundSound, StoppedSound, Live, TunnelSeen, Processes!Kinds, Processes!Stack
<1> QED BY <1>2, <1>3, <1>4 DEF ProcessInv

-----------------------------------------------------------------------------
(* The control pipe of a shell.                                              *)

MessageKinds == {"nothing", "READY", "PING", "BEGIN", "END", "garbage"}
Messages == MessageKinds \X (0..MaxCommands)
Bytes == Messages \X (0..2)

ServerTyped ==
    /\ thread \in {"start", "accept", "first", "receive", "sending", "answer", "ended"}
    /\ pipe \in {"none", "listening", "connected", "closed"} /\ (pipe = "closed" => thread = "ended")
    /\ toServer \in Seq(Bytes) /\ toShell \in Seq(Bytes) /\ got \in Seq(Bytes) /\ Len(got) <= 3
    /\ handled \in Seq(Messages)

ScriptsTyped ==
    /\ shell \in [at : {"absent", "write", "rest", "read", "run", "lost", "gone"}, asks : Messages]
    /\ shell.asks[1] = "PING" => begun >= 1
    /\ shell.asks[1] = "BEGIN" => shell.asks[2] >= 1
    /\ answer \in Seq(Bytes) /\ Len(answer) <= 3 /\ sent \in Seq(Messages)
    /\ started \subseteq 1..MaxCommands /\ begun \in 0..MaxCommands /\ interrupts \in Nat

FlagsTyped ==
    /\ stop \in BOOLEAN /\ ready \in BOOLEAN /\ failed \in BOOLEAN
    /\ closer \in [at : {"away", "stopping", "look", "join", "done"}, connected : BOOLEAN]

Items(s) == {s[i] : i \in 1..Len(s)}

\* What is on its way back answers what the channel has taken.
AnswersSound ==
    /\ \A b \in Items(toShell) : b[1] \in Items(handled)
    /\ \A b \in Items(answer) : b[1] \in Items(handled)
    /\ \A n \in started : <<"BEGIN", n>> \in Items(handled)

\* Until a script is interrupted there is at most one message or its answer in
\* the pipe: the script waits for it.
In == got \o toServer
Back == answer \o toShell
Begun(m) == <<<<m, 0>>>>
Asking(m, in) == sent = Append(handled, m) /\ In = in
Settled == sent = handled /\ In = <<>>

PipeSound ==
    /\ shell.at \in {"absent", "rest", "run"} => Settled /\ Back = <<>>
    /\ shell.at = "write" => Asking(shell.asks, Begun(shell.asks)) /\ Back = <<>>
    /\ shell.at = "read" => \/ Asking(shell.asks, Channel!Frame(shell.asks)) /\ Back = <<>>
                            \/ Settled /\ Back = Channel!Frame(shell.asks)
    /\ shell.at # "lost"
    /\ shell.at = "gone" => \/ Settled
                            \/ \E m \in Messages : Asking(m, Begun(m)) \/ Asking(m, Channel!Frame(m))

Whole == Len(handled) <= Len(sent) /\ handled = SubSeq(sent, 1, Len(handled))

ChannelInv ==
    /\ ServerTyped /\ ScriptsTyped /\ FlagsTyped /\ AnswersSound
    /\ interrupts = 0 => Whole /\ (thread # "ended" => PipeSound)

-----------------------------------------------------------------------------
\* Messages, bytes and frames.
LEMMA MessagesAre ==
    /\ MaxCommands \in Nat
    /\ \A k \in MessageKinds, n \in 0..MaxCommands : <<k, n>> \in Messages
    /\ \A m \in Messages : m = <<m[1], m[2]>> /\ m[1] \in MessageKinds /\ m[2] \in 0..MaxCommands
    /\ \A m \in Messages, i \in 0..2 : <<m, i>> \in Bytes
    /\ \A b \in Bytes : b[1] \in Messages
  BY BoundsAssumption DEF BoundsAssumption, Messages, Bytes

LEMMA FrameIs ==
    ASSUME NEW m \in Messages
    PROVE  /\ Channel!Frame(m) \in Seq(Bytes) /\ Len(Channel!Frame(m)) = 3
           /\ Channel!Frame(m)[1] = <<m, 0>> /\ \A i \in 1..3 : Channel!Frame(m)[i][1] = m
           /\ Channel!Header(Channel!Frame(m))
           /\ Tail(Channel!Frame(m)) \in Seq(Bytes)
           /\ Begun(m) \in Seq(Bytes) /\ Len(Begun(m)) = 1
           /\ Begun(m) \o Tail(Channel!Frame(m)) = Channel!Frame(m)
<1>1. <<m, 0>> \in Bytes /\ <<m, 1>> \in Bytes /\ <<m, 2>> \in Bytes
  BY MessagesAre
<1>2. PICK f, b : f = <<<<m, 0>>, <<m, 1>>, <<m, 2>>>> /\ b = <<<<m, 0>>>>
  OBVIOUS
<1>3. f \in Seq(Bytes) /\ Len(f) = 3 /\ f[1] = <<m, 0>> /\ f[2] = <<m, 1>> /\ f[3] = <<m, 2>>
  BY <1>1, <1>2
<1>4. b \in Seq(Bytes) /\ Len(b) = 1 /\ b[1] = <<m, 0>>
  BY <1>1, <1>2
<1>5. \A i \in 1..3 : f[i][1] = m
  BY <1>3
<1>6. Head(f)[2] = 0
  BY <1>3
<1>7. PICK t : t = Tail(f)
  OBVIOUS
<1>8. t \in Seq(Bytes) /\ b \o t = f
  <2>1. f # <<>>
    BY <1>3
  <2>2. /\ t \in Seq(Bytes) /\ Len(t) = Len(f) - 1
        /\ \A i \in 1..Len(t) : t[i] = f[i + 1]
    BY <1>3, <1>7, <2>1, HeadTailProperties
  <2>3. Len(t) = 2
    BY <1>3, <2>2
  <2>4. t[1] = f[2] /\ t[2] = f[3]
    <3>1. 1 \in 1..Len(t) /\ 2 \in 1..Len(t) /\ 1 + 1 = 2 /\ 2 + 1 = 3
      BY <2>3
    <3> QED BY <1>3, <2>2, <3>1
  <2>5. /\ b \o t \in Seq(Bytes) /\ Len(b \o t) = Len(b) + Len(t)
        /\ \A i \in 1..(Len(b) + Len(t)) : (b \o t)[i] = IF i <= Len(b) THEN b[i] ELSE t[i - Len(b)]
    <3>1. b \in Seq(Bytes) /\ t \in Seq(Bytes)
      BY <1>4, <2>2
    <3> QED BY <3>1, ConcatProperties, Zenon
  <2>6. \A i \in 1..3 : (b \o t)[i] = f[i]
    <3>1. 1 \in 1..(Len(b) + Len(t)) /\ 2 \in 1..(Len(b) + Len(t)) /\ 3 \in 1..(Len(b) + Len(t))
      BY <1>4, <2>3
    <3>2. (b \o t)[1] = b[1] /\ (b \o t)[2] = t[1] /\ (b \o t)[3] = t[2]
      BY <1>4, <2>5, <3>1
    <3>3. (b \o t)[1] = f[1] /\ (b \o t)[2] = f[2] /\ (b \o t)[3] = f[3]
      BY <1>3, <1>4, <2>4, <3>2
    <3>4. \A i \in 1..3 : i = 1 \/ i = 2 \/ i = 3
      OBVIOUS
    <3> QED BY <3>3, <3>4, Zenon
  <2> QED BY <1>3, <1>4, <2>2, <2>3, <2>5, <2>6, SeqEqual
<1> QED BY <1>2, <1>3, <1>4, <1>5, <1>6, <1>7, <1>8 DEF Channel!Frame, Channel!Header, Begun

LEMMA FrameItems == ASSUME NEW m \in Messages PROVE \A b \in Items(Channel!Frame(m)) : b[1] = m
<1>1. PICK f : f = Channel!Frame(m)
  OBVIOUS
<1>2. Len(f) = 3 /\ \A i \in 1..3 : f[i][1] = m
  BY <1>1, FrameIs
<1>3. \A b \in Items(f) : b[1] = m
  BY <1>2 DEF Items
<1> QED BY <1>1, <1>3

LEMMA Regroup ==
    ASSUME NEW S, NEW s \in Seq(S), NEW a \in Seq(S), NEW b \in Seq(S)
    PROVE  s \o a \in Seq(S) /\ Len(s \o a) = Len(s) + Len(a) /\ s \o (a \o b) = (s \o a) \o b
<1>1. s \o a \in Seq(S) /\ Len(s \o a) = Len(s) + Len(a)
  BY ConcatProperties
<1>2. s \o (a \o b) = (s \o a) \o b
  BY ConcatAssociative
<1> QED BY <1>1, <1>2

LEMMA SplitIs ==
    ASSUME NEW S, NEW t \in Seq(S), NEW n \in 1..Len(t)
    PROVE  /\ SubSeq(t, 1, n) \in Seq(S) /\ Len(SubSeq(t, 1, n)) = n
           /\ SubSeq(t, n + 1, Len(t)) \in Seq(S) /\ SubSeq(t, 1, n) \o SubSeq(t, n + 1, Len(t)) = t
<1>1. SubSeq(t, 1, n) \in Seq(S) /\ Len(SubSeq(t, 1, n)) = n
  OBVIOUS
<1>2. SubSeq(t, n + 1, Len(t)) \in Seq(S)
  OBVIOUS
<1>3. SubSeq(t, 1, n) \o SubSeq(t, n + 1, Len(t)) = SubSeq(t, 1, Len(t))
  <2>1. 1 \in 1..(Len(t) + 1) /\ n \in (1 - 1)..Len(t) /\ Len(t) \in n..Len(t)
    OBVIOUS
  <2> QED BY <2>1, ConcatAdjacentSubSeq
<1>4. SubSeq(t, 1, Len(t)) = t
  BY SubSeqFull
<1> QED BY <1>1, <1>2, <1>3, <1>4

First(t, n) == SubSeq(t, 1, n)
Rest(t, n) == SubSeq(t, n + 1, Len(t))

LEMMA SplitKeeps ==
    ASSUME NEW S, NEW s \in Seq(S), NEW t \in Seq(S), NEW n \in 1..Len(t)
    PROVE  /\ s \o First(t, n) \in Seq(S) /\ Rest(t, n) \in Seq(S)
           /\ Len(s \o First(t, n)) = Len(s) + n /\ (s \o First(t, n)) \o Rest(t, n) = s \o t
<1>1. /\ First(t, n) \in Seq(S) /\ Len(First(t, n)) = n
      /\ Rest(t, n) \in Seq(S) /\ First(t, n) \o Rest(t, n) = t
  BY SplitIs DEF First, Rest
<1>2. First(t, n) \in Seq(S) /\ Rest(t, n) \in Seq(S)
  BY <1>1
<1>3. /\ s \o First(t, n) \in Seq(S) /\ Len(s \o First(t, n)) = Len(s) + Len(First(t, n))
      /\ s \o (First(t, n) \o Rest(t, n)) = (s \o First(t, n)) \o Rest(t, n)
  <2>1. ASSUME NEW a \in Seq(S), NEW b \in Seq(S)
        PROVE  s \o a \in Seq(S) /\ Len(s \o a) = Len(s) + Len(a) /\ s \o (a \o b) = (s \o a) \o b
    BY Regroup
  <2> QED BY <1>2, <2>1, Zenon
<1> QED BY <1>1, <1>3

LEMMA BytesSplit ==
    \A s, t \in Seq(Bytes) : \A n \in 1..Len(t) :
        /\ s \o First(t, n) \in Seq(Bytes) /\ Rest(t, n) \in Seq(Bytes)
        /\ Len(s \o First(t, n)) = Len(s) + n /\ (s \o First(t, n)) \o Rest(t, n) = s \o t
<1> SUFFICES ASSUME NEW s \in Seq(Bytes), NEW t \in Seq(Bytes), NEW n \in 1..Len(t)
             PROVE  /\ s \o First(t, n) \in Seq(Bytes) /\ Rest(t, n) \in Seq(Bytes)
                    /\ Len(s \o First(t, n)) = Len(s) + n /\ (s \o First(t, n)) \o Rest(t, n) = s \o t
  OBVIOUS
<1> QED BY SplitKeeps

LEMMA EmptyParts ==
    ASSUME NEW S, NEW s \in Seq(S), NEW t \in Seq(S)
    PROVE  /\ s \o t = <<>> <=> s = <<>> /\ t = <<>>
           /\ Len(s \o t) = Len(s) + Len(t) /\ (s = <<>> => s \o t = t) /\ (t = <<>> => s \o t = s)
           /\ Len(s) = Len(s \o t) => t = <<>> /\ s = s \o t
           /\ s # <<>> => (s \o t)[1] = s[1]
  OBVIOUS

LEMMA PrefixGrows ==
    ASSUME NEW S, NEW s \in Seq(S), NEW t \in Seq(S), NEW m \in S,
           Len(s) <= Len(t), s = SubSeq(t, 1, Len(s))
    PROVE  Len(s) <= Len(Append(t, m)) /\ s = SubSeq(Append(t, m), 1, Len(s))
<1>1. Append(t, m) \in Seq(S) /\ Len(Append(t, m)) = Len(t) + 1 /\ \A i \in 1..Len(t) : Append(t, m)[i] = t[i]
  OBVIOUS
<1> QED BY <1>1

LEMMA PrefixIs ==
    ASSUME NEW S, NEW s \in Seq(S), NEW m \in S
    PROVE  /\ s = SubSeq(s, 1, Len(s)) /\ Len(s) <= Len(s)
           /\ Len(s) <= Len(Append(s, m)) /\ s = SubSeq(Append(s, m), 1, Len(s))
<1>1. s = SubSeq(s, 1, Len(s)) /\ Len(s) <= Len(s)
  OBVIOUS
<1> QED BY <1>1, PrefixGrows

LEMMA ItemsOf ==
    ASSUME NEW S, NEW s \in Seq(S), NEW t \in Seq(S), NEW m \in S
    PROVE  /\ Items(Append(s, m)) = Items(s) \cup {m} /\ Items(s \o t) = Items(s) \cup Items(t)
           /\ \A i, j \in Int : i >= 1 /\ j <= Len(s) => Items(SubSeq(s, i, j)) \subseteq Items(s)
           /\ Items(s) \subseteq S
<1>1. Items(Append(s, m)) = Items(s) \cup {m}
  BY DEF Items
<1>2. Items(s \o t) = Items(s) \cup Items(t)
  <2>1. ASSUME NEW i \in 1..Len(t) PROVE t[i] \in Items(s \o t)
    <3>1. Len(s) + i \in 1..Len(s \o t) /\ (s \o t)[Len(s) + i] = t[i]
      OBVIOUS
    <3> QED BY <3>1 DEF Items
  <2>2. ASSUME NEW i \in 1..Len(s) PROVE s[i] \in Items(s \o t)
    <3>1. i \in 1..Len(s \o t) /\ (s \o t)[i] = s[i]
      OBVIOUS
    <3> QED BY <3>1 DEF Items
  <2>3. ASSUME NEW i \in 1..Len(s \o t) PROVE (s \o t)[i] \in Items(s) \cup Items(t)
    BY DEF Items
  <2> QED BY <2>1, <2>2, <2>3 DEF Items
<1>3. ASSUME NEW i \in Int, NEW j \in Int, i >= 1, j <= Len(s) PROVE Items(SubSeq(s, i, j)) \subseteq Items(s)
  <2>1. SubSeq(s, i, j) \in Seq(S) /\ \A k \in 1..Len(SubSeq(s, i, j)) :
            SubSeq(s, i, j)[k] = s[i + k - 1] /\ i + k - 1 \in 1..Len(s)
    BY <1>3
  <2> QED BY <2>1 DEF Items
<1>4. Items(s) \subseteq S
  BY DEF Items
<1> QED BY <1>1, <1>2, <1>3, <1>4

-----------------------------------------------------------------------------
\* Steps that touch no message.
Piped == <<toServer, toShell, got, handled>>
Scripted == <<shell, answer, sent, started, begun, interrupts>>

Threaded ==
    /\ thread' \in {"start", "accept", "first", "receive", "sending", "answer", "ended"}
    /\ pipe' \in {"none", "listening", "connected", "closed"} /\ (pipe' = "closed" => thread' = "ended")
    /\ thread = "ended" => thread' = "ended"

LEMMA ChannelInit == Channel!ChannelInit => ChannelInv
<1> SUFFICES ASSUME Channel!ChannelInit PROVE ChannelInv
  OBVIOUS
<1> USE DEF Channel!ChannelInit
<1>1. <<>> \in Seq(Bytes) /\ <<>> \in Seq(Messages) /\ Len(<<>>) = 0 /\ <<>> \o <<>> = <<>>
  OBVIOUS
<1>2. ServerTyped
  BY <1>1 DEF ServerTyped
<1>3. ScriptsTyped
  <2>1. Channel!Nothing \in Messages /\ Channel!Nothing[1] = "nothing"
    BY MessagesAre DEF Channel!Nothing, MessageKinds
  <2> QED BY <1>1, <2>1, MessagesAre DEF ScriptsTyped
<1>4. FlagsTyped
  BY DEF FlagsTyped
<1>5. AnswersSound
  BY <1>1 DEF AnswersSound, Items
<1>6. Whole
  BY <1>1, PrefixIs DEF Whole
<1>7. PipeSound
  BY <1>1 DEF PipeSound, Settled, In, Back
<1> QED BY <1>2, <1>3, <1>4, <1>5, <1>6, <1>7 DEF ChannelInv

LEMMA PipeRests == ASSUME UNCHANGED Piped, UNCHANGED Scripted PROVE PipeSound' <=> PipeSound
  BY DEF Piped, Scripted, PipeSound, Settled, Asking, In, Back, Messages, Begun, Channel!Frame, MessageKinds

LEMMA ThreadKeeps ==
    ASSUME ChannelInv, UNCHANGED Piped, UNCHANGED Scripted, Threaded, FlagsTyped'
    PROVE  ChannelInv'
<1>1. ServerTyped'
  BY DEF ChannelInv, ServerTyped, Piped, Threaded, Bytes, Messages, MessageKinds
<1>2. ScriptsTyped'
  BY DEF ChannelInv, ScriptsTyped, Scripted, Bytes, Messages, MessageKinds
<1>3. AnswersSound' /\ Whole' = Whole
  BY DEF ChannelInv, AnswersSound, Whole, Items, Piped, Scripted
<1>4. interrupts' = 0 => Whole' /\ (thread' # "ended" => PipeSound')
  BY <1>3, PipeRests DEF ChannelInv, Scripted, Threaded
<1> QED BY <1>1, <1>2, <1>3, <1>4 DEF ChannelInv

LEMMA EndsFlags ==
    ASSUME FlagsTyped, NEW error \in BOOLEAN, Channel!Ends(error), stop' = stop,
           UNCHANGED closer \/ (\E where \in {"stopping", "look", "join", "done"} : Channel!CloserGoes(where))
    PROVE  FlagsTyped' /\ thread' = "ended" /\ pipe' = "closed"
<1>1. stop' \in BOOLEAN
  BY DEF FlagsTyped
<1>2. failed' \in BOOLEAN /\ ready' \in BOOLEAN
  BY DEF FlagsTyped, Channel!Ends
<1>3. closer' \in [at : {"away", "stopping", "look", "join", "done"}, connected : BOOLEAN]
  BY DEF FlagsTyped, Channel!CloserGoes
<1> QED BY <1>1, <1>2, <1>3 DEF FlagsTyped, Channel!Ends

LEMMA FlagsRest ==
    ASSUME FlagsTyped, UNCHANGED <<ready, failed>>, stop' \in BOOLEAN,
           UNCHANGED closer \/ (\E where \in {"stopping", "look", "join", "done"} : Channel!CloserGoes(where))
    PROVE  FlagsTyped'
<1>1. failed' \in BOOLEAN /\ ready' \in BOOLEAN
  BY DEF FlagsTyped
<1>3. closer' \in [at : {"away", "stopping", "look", "join", "done"}, connected : BOOLEAN]
  BY DEF FlagsTyped, Channel!CloserGoes
<1> QED BY <1>1, <1>3 DEF FlagsTyped

LEMMA ThreadMoves ==
    ASSUME ChannelInv,
           Channel!Create \/ Channel!Accepted \/ Channel!Continue \/ Channel!EndOfFile
    PROVE  ChannelInv'
<1> USE DEF Channel!Server, Channel!Scripts
<1>1. UNCHANGED Piped /\ UNCHANGED Scripted /\ UNCHANGED closer
  BY DEF Channel!Create, Channel!Accepted, Channel!Continue, Channel!EndOfFile, Piped, Scripted
<1>2. stop' = stop /\ stop' \in BOOLEAN
  <2>1. stop' = stop
    BY DEF Channel!Create, Channel!Accepted, Channel!Continue, Channel!EndOfFile
  <2> QED BY <2>1 DEF ChannelInv, FlagsTyped
<1>3. CASE Channel!Create \/ Channel!Accepted
  <2>1. Threaded
    BY <1>3 DEF Channel!Create, Channel!Accepted, Threaded
  <2>2. UNCHANGED <<ready, failed>>
    BY <1>3 DEF Channel!Create, Channel!Accepted
  <2> QED BY <1>1, <1>2, <2>1, <2>2, FlagsRest, ThreadKeeps DEF ChannelInv
<1>4. CASE Channel!Continue
  <2>1. Threaded
    BY <1>4 DEF Channel!Continue, Threaded, ChannelInv, ServerTyped
  <2>2. ready' \in BOOLEAN /\ failed' \in BOOLEAN
    BY <1>4 DEF Channel!Continue, ChannelInv, FlagsTyped
  <2>3. FlagsTyped'
    BY <1>1, <1>2, <2>2 DEF ChannelInv, FlagsTyped
  <2> QED BY <1>1, <2>1, <2>3, ThreadKeeps
<1>5. CASE Channel!EndOfFile
  <2>1. (thread = "first") \in BOOLEAN /\ Channel!Ends(thread = "first")
    BY <1>5 DEF Channel!EndOfFile
  <2>2. FlagsTyped' /\ thread' = "ended" /\ pipe' = "closed"
    BY <1>1, <1>2, <2>1, EndsFlags DEF ChannelInv
  <2>3. Threaded
    BY <2>2 DEF Threaded
  <2> QED BY <1>1, <2>2, <2>3, ThreadKeeps
<1> QED BY <1>3, <1>4, <1>5

LEMMA CloserMoves ==
    ASSUME ChannelInv,
           Channel!CloseBegins \/ Channel!CloseLooks \/ Channel!CancelPending \/ Channel!Joined
    PROVE  ChannelInv'
<1> USE DEF Channel!Server, Channel!Scripts
<1>1. UNCHANGED Piped /\ UNCHANGED Scripted
  BY DEF Channel!CloseBegins, Channel!CloseLooks, Channel!CancelPending, Channel!Joined, Piped, Scripted
<1>2. CASE Channel!CloseBegins \/ Channel!Joined
  <2>1. stop' \in BOOLEAN
    BY <1>2 DEF Channel!CloseBegins, Channel!Joined, ChannelInv, FlagsTyped
  <2>2. UNCHANGED <<ready, failed>> /\ \E where \in {"stopping", "look", "join", "done"} : Channel!CloserGoes(where)
    BY <1>2 DEF Channel!CloseBegins, Channel!Joined
  <2>3. Threaded
    BY <1>2 DEF Channel!CloseBegins, Channel!Joined, Threaded, ChannelInv, ServerTyped
  <2> QED BY <1>1, <2>1, <2>2, <2>3, FlagsRest, ThreadKeeps DEF ChannelInv
<1>3. CASE Channel!CloseLooks
  <2>1. stop' \in BOOLEAN /\ ready' \in BOOLEAN /\ failed' \in BOOLEAN
    BY <1>3 DEF Channel!CloseLooks, ChannelInv, FlagsTyped
  <2>2. closer' \in [at : {"away", "stopping", "look", "join", "done"}, connected : BOOLEAN]
    BY <1>3 DEF Channel!CloseLooks
  <2>3. Threaded
    BY <1>3 DEF Channel!CloseLooks, Threaded, ChannelInv, ServerTyped
  <2>4. FlagsTyped'
    BY <2>1, <2>2 DEF FlagsTyped
  <2> QED BY <1>1, <2>3, <2>4, ThreadKeeps
<1>4. CASE Channel!CancelPending
  <2>1. stop' = stop /\ stop' \in BOOLEAN /\ Channel!CloserGoes("join")
    BY <1>4 DEF Channel!CancelPending, ChannelInv, FlagsTyped
  <2>2. CASE Channel!Ends(TRUE)
    <3>1. FlagsTyped' /\ thread' = "ended" /\ pipe' = "closed"
      BY <2>1, <2>2, EndsFlags DEF ChannelInv
    <3>2. Threaded
      BY <3>1 DEF Threaded
    <3> QED BY <1>1, <3>1, <3>2, ThreadKeeps
  <2>3. CASE UNCHANGED <<thread, pipe, failed, ready>>
    <3>1. Threaded
      BY <2>3 DEF Threaded, ChannelInv, ServerTyped
    <3>2. FlagsTyped'
      BY <2>1, <2>3, FlagsRest DEF ChannelInv
    <3> QED BY <1>1, <3>1, <3>2, ThreadKeeps
  <2> QED BY <1>4, <2>2, <2>3 DEF Channel!CancelPending
<1> QED BY <1>2, <1>3, <1>4

-----------------------------------------------------------------------------
\* Steps of the thread that take bytes.
LEMMA PipeFollows ==
    ASSUME In' = In, Back' = Back, UNCHANGED <<shell, handled, sent>>
    PROVE  PipeSound' <=> PipeSound
  BY DEF PipeSound, Settled, Asking, Messages, Begun, Channel!Frame, MessageKinds

LEMMA ReadSomeKeeps == ASSUME ChannelInv, Channel!ReadSome PROVE ChannelInv'
<1> USE DEF Channel!Scripts
<1>1. PICK n \in 1..(IF got = <<>> THEN 1 ELSE 3 - Len(got)) :
          /\ n <= Len(toServer)
          /\ got' = got \o SubSeq(toServer, 1, n)
          /\ toServer' = SubSeq(toServer, n + 1, Len(toServer))
  BY DEF Channel!ReadSome, Channel!FrameSize
<1>2. /\ UNCHANGED <<thread, pipe, toShell, handled, ready, failed, closer>> /\ UNCHANGED Scripted
      /\ thread # "ended" /\ Len(got) < 3
  BY DEF Channel!ReadSome, Channel!FrameSize, Scripted
<1>3. stop' \in BOOLEAN
  BY DEF Channel!ReadSome, ChannelInv, FlagsTyped
<1>4. got \in Seq(Bytes) /\ toServer \in Seq(Bytes) /\ Len(got) \in Nat /\ Len(toServer) \in Nat
  BY DEF ChannelInv, ServerTyped
<1>5. n \in 1..Len(toServer) /\ (got = <<>> => n = 1) /\ (got # <<>> => n <= 3 - Len(got))
  BY <1>1, <1>2, <1>4
<1>6. got' \in Seq(Bytes) /\ toServer' \in Seq(Bytes) /\ Len(got') = Len(got) + n /\ In' = In
  <2>1. got' = got \o First(toServer, n) /\ toServer' = Rest(toServer, n)
    BY <1>1 DEF First, Rest
  <2>2. /\ got \o First(toServer, n) \in Seq(Bytes) /\ Rest(toServer, n) \in Seq(Bytes)
        /\ Len(got \o First(toServer, n)) = Len(got) + n
        /\ (got \o First(toServer, n)) \o Rest(toServer, n) = got \o toServer
    <3>1. got \in Seq(Bytes) /\ toServer \in Seq(Bytes) /\ n \in 1..Len(toServer)
      BY <1>4, <1>5
    <3> QED BY <3>1, BytesSplit, Zenon
  <2> QED BY <2>1, <2>2 DEF In
<1>7. Len(got') <= 3
  <2>1. got = <<>> => Len(got) = 0
    OBVIOUS
  <2> QED BY <1>2, <1>4, <1>5, <1>6, <2>1
<1>8. ServerTyped'
  BY <1>2, <1>6, <1>7 DEF ChannelInv, ServerTyped, Bytes, Messages, MessageKinds
<1>9. ScriptsTyped'
  BY <1>2 DEF ChannelInv, ScriptsTyped, Scripted, Bytes, Messages, MessageKinds
<1>10. FlagsTyped'
  BY <1>2, <1>3, FlagsRest DEF ChannelInv
<1>11. AnswersSound' /\ Whole' = Whole
  BY <1>2 DEF ChannelInv, AnswersSound, Whole, Items, Scripted
<1>12. PipeSound' <=> PipeSound
  <2>1. Back' = Back /\ UNCHANGED <<shell, handled, sent>>
    BY <1>2 DEF Back, Scripted
  <2> QED BY <1>6, <2>1, PipeFollows
<1> QED BY <1>2, <1>8, <1>9, <1>10, <1>11, <1>12 DEF ChannelInv, Scripted

LEMMA LengthIsRefusedKeeps == ASSUME ChannelInv, Channel!LengthIsRefused PROVE ChannelInv'
<1> USE DEF Channel!Scripts
<1>1. /\ Channel!Ends(TRUE) /\ got' = <<>> /\ UNCHANGED <<toServer, toShell, handled, closer>>
      /\ UNCHANGED Scripted
  BY DEF Channel!LengthIsRefused, Scripted
<1>2. stop' = stop
  BY DEF Channel!LengthIsRefused
<1>3. FlagsTyped' /\ thread' = "ended" /\ pipe' = "closed"
  BY <1>1, <1>2, EndsFlags DEF ChannelInv
<1>4. ServerTyped'
  <2>1. got' \in Seq(Bytes) /\ Len(got') = 0
    BY <1>1
  <2> QED BY <1>1, <1>3, <2>1 DEF ChannelInv, ServerTyped, Bytes, Messages, MessageKinds
<1>5. ScriptsTyped'
  BY <1>1 DEF ChannelInv, ScriptsTyped, Scripted, Bytes, Messages, MessageKinds
<1>6. AnswersSound' /\ Whole' = Whole
  BY <1>1 DEF ChannelInv, AnswersSound, Whole, Items, Scripted
<1> QED BY <1>1, <1>3, <1>4, <1>5, <1>6 DEF ChannelInv, Scripted

LEMMA MessageIs ==
    ASSUME ServerTyped, got # <<>>
    PROVE  /\ Channel!Message \in Messages
           /\ \A m \in Messages : got = Channel!Frame(m) => Channel!Message = m
<1>1. got[1] \in Bytes /\ got[1][1] \in Messages
  <2>1. got[1] \in Bytes
    BY DEF ServerTyped
  <2> QED BY <2>1, MessagesAre
<1>2. <<"garbage", 0>> \in Messages
  BY MessagesAre DEF MessageKinds
<1>3. ASSUME NEW m \in Messages, got = Channel!Frame(m) PROVE Channel!Message = m
  <2>1. got[1][1] = m
    BY <1>3, FrameIs
  <2> QED BY <1>3, <2>1 DEF Channel!Message
<1> QED BY <1>1, <1>2, <1>3 DEF Channel!Message

\* A whole frame in the pipe is the message the script waits for.
LEMMA TakenIs ==
    ASSUME ServerTyped, ScriptsTyped, PipeSound, Len(got) = 3
    PROVE  /\ Append(handled, Channel!Message) = sent /\ toServer = <<>>
           /\ shell.at \in {"read", "gone"}
           /\ shell.at = "read" => Channel!Message = shell.asks /\ Back = <<>>
<1>1. got \in Seq(Bytes) /\ toServer \in Seq(Bytes) /\ got # <<>> /\ shell.asks \in Messages
  <2>1. Len(<<>>) = 0
    OBVIOUS
  <2>2. got # <<>>
    BY <2>1
  <2> QED BY <2>2 DEF ServerTyped, ScriptsTyped
<1>2. Len(In) = 3 + Len(toServer) /\ Len(toServer) \in Nat /\ (Len(got) = Len(In) => toServer = <<>> /\ got = In)
  <2>1. /\ Len(got \o toServer) = Len(got) + Len(toServer)
        /\ Len(got) = Len(got \o toServer) => toServer = <<>> /\ got = got \o toServer
    <3>1. got \in Seq(Bytes) /\ toServer \in Seq(Bytes)
      BY <1>1
    <3> QED BY <3>1, EmptyParts, Zenon
  <2>2. Len(toServer) \in Nat
    BY <1>1
  <2> QED BY <2>1, <2>2 DEF In
<1>3. ~Settled
  <2>1. Len(<<>>) = 0
    OBVIOUS
  <2> QED BY <1>2, <2>1 DEF Settled
<1>4. ASSUME NEW m \in Messages PROVE ~Asking(m, Begun(m))
  BY <1>2, FrameIs DEF Asking
<1>5. ASSUME NEW m \in Messages, Asking(m, Channel!Frame(m))
      PROVE  Append(handled, Channel!Message) = sent /\ toServer = <<>> /\ Channel!Message = m
  <2>1. Len(In) = 3
    BY <1>5, FrameIs DEF Asking
  <2>2. got = Channel!Frame(m) /\ toServer = <<>>
    BY <1>2, <1>5, <2>1 DEF Asking
  <2> QED BY <1>1, <1>5, <2>2, MessageIs DEF Asking
<1>6. /\ shell.at \in {"absent", "write", "rest", "read", "run", "lost", "gone"}
      /\ shell.at \notin {"absent", "rest", "run", "write", "lost"}
  BY <1>1, <1>3, <1>4 DEF PipeSound, ScriptsTyped
<1>7. CASE shell.at = "read"
  <2>1. Asking(shell.asks, Channel!Frame(shell.asks)) /\ Back = <<>>
    BY <1>3, <1>7 DEF PipeSound
  <2> QED BY <1>1, <1>5, <1>7, <2>1
<1>8. CASE shell.at = "gone"
  BY <1>3, <1>4, <1>5, <1>8 DEF PipeSound
<1> QED BY <1>6, <1>7, <1>8

LEMMA TakeMessageKeeps == ASSUME ChannelInv, Channel!TakeMessage PROVE ChannelInv'
<1> USE DEF Channel!Scripts
<1>1. /\ got' = <<>> /\ handled' = Append(handled, Channel!Message) /\ UNCHANGED <<toServer, closer>>
      /\ UNCHANGED Scripted /\ Len(got) = 3 /\ thread \in {"first", "receive"}
      /\ \/ /\ thread' \in {"answer", "sending"} /\ toShell' = toShell \o Channel!Frame(Channel!Message)
            /\ UNCHANGED <<pipe, failed, ready>>
         \/ Channel!Ends(TRUE) /\ toShell' = toShell
  BY DEF Channel!TakeMessage, Channel!FrameSize, Scripted
<1>2. stop' = stop /\ stop' \in BOOLEAN
  BY DEF Channel!TakeMessage, ChannelInv, FlagsTyped
<1>3. PICK m : m = Channel!Message
  OBVIOUS
<1>4. m \in Messages /\ got # <<>>
  <2>1. Len(<<>>) = 0
    OBVIOUS
  <2>2. got # <<>>
    BY <1>1, <2>1
  <2> QED BY <1>3, <2>2, MessageIs DEF ChannelInv
<1>5. /\ toShell \in Seq(Bytes) /\ handled \in Seq(Messages) /\ Channel!Frame(m) \in Seq(Bytes)
      /\ handled' = Append(handled, m) /\ handled' \in Seq(Messages)
      /\ toShell' \in {toShell, toShell \o Channel!Frame(m)} /\ toShell' \in Seq(Bytes)
  <2>1. toShell \in Seq(Bytes) /\ handled \in Seq(Messages)
    BY DEF ChannelInv, ServerTyped
  <2>2. Channel!Frame(m) \in Seq(Bytes)
    BY <1>4, FrameIs
  <2>3. handled' = Append(handled, m) /\ toShell' \in {toShell, toShell \o Channel!Frame(m)}
    BY <1>1, <1>3
  <2>4. Append(handled, m) \in Seq(Messages) /\ toShell \o Channel!Frame(m) \in Seq(Bytes)
    BY <1>4, <2>1, <2>2
  <2> QED BY <2>1, <2>2, <2>3, <2>4
<1>6. FlagsTyped' /\ ((thread' = "ended" /\ pipe' = "closed") \/ (thread' \in {"answer", "sending"} /\ pipe' = pipe))
  <2>0. UNCHANGED closer
    BY <1>1
  <2>1. ASSUME Channel!Ends(TRUE) PROVE FlagsTyped' /\ thread' = "ended" /\ pipe' = "closed"
    BY <1>2, <2>0, <2>1, EndsFlags DEF ChannelInv
  <2>2. ASSUME UNCHANGED <<pipe, failed, ready>> PROVE FlagsTyped'
    BY <1>2, <2>0, <2>2, FlagsRest DEF ChannelInv
  <2>3. Channel!Ends(TRUE) \/ (thread' \in {"answer", "sending"} /\ UNCHANGED <<pipe, failed, ready>>)
    BY <1>1
  <2>4. CASE Channel!Ends(TRUE)
    BY <2>1, <2>4
  <2>5. CASE thread' \in {"answer", "sending"} /\ UNCHANGED <<pipe, failed, ready>>
    BY <2>2, <2>5
  <2> QED BY <2>3, <2>4, <2>5
<1>7. ServerTyped'
  <2>1. got' \in Seq(Bytes) /\ Len(got') = 0
    BY <1>1
  <2> QED BY <1>1, <1>5, <1>6, <2>1 DEF ChannelInv, ServerTyped, Bytes, Messages, MessageKinds
<1>8. ScriptsTyped'
  BY <1>1 DEF ChannelInv, ScriptsTyped, Scripted, Bytes, Messages, MessageKinds
<1>9. AnswersSound'
  <2>1. Items(handled') = Items(handled) \cup {m}
    BY <1>4, <1>5, ItemsOf
  <2>2. Items(toShell') \subseteq Items(toShell) \cup Items(Channel!Frame(m))
    <3>1. <<m, 0>> \in Bytes
      <4>1. 0 \in 0..2
        OBVIOUS
      <4> QED BY <1>4, <4>1, MessagesAre, Zenon
    <3>2. Items(toShell \o Channel!Frame(m)) = Items(toShell) \cup Items(Channel!Frame(m))
      <4>1. toShell \in Seq(Bytes) /\ Channel!Frame(m) \in Seq(Bytes)
        BY <1>5
      <4> QED BY <3>1, <4>1, ItemsOf
    <3> QED BY <1>5, <3>2
  <2>3. \A b \in Items(Channel!Frame(m)) : b[1] = m
    BY <1>4, FrameItems
  <2>4. UNCHANGED <<answer, started>>
    BY <1>1 DEF Scripted
  <2> QED BY <2>1, <2>2, <2>3, <2>4 DEF ChannelInv, AnswersSound
<1>10. ASSUME interrupts' = 0 PROVE Whole' /\ (thread' # "ended" => PipeSound')
  <2>1. /\ handled' = sent /\ toServer = <<>> /\ shell.at \in {"read", "gone"}
        /\ shell.at = "read" => m = shell.asks /\ Back = <<>>
    BY <1>1, <1>3, <1>10, TakenIs DEF ChannelInv, Scripted
  <2>2. UNCHANGED <<sent, shell, answer>>
    BY <1>1 DEF Scripted
  <2>3. Whole'
    BY <1>5, <2>1, <2>2, PrefixIs DEF Whole
  <2>4. Settled'
    <3>1. <<>> \o <<>> = <<>>
      OBVIOUS
    <3> QED BY <1>1, <2>1, <2>2, <3>1 DEF Settled, In
  <2>5. ASSUME thread' # "ended", shell.at = "read" PROVE Back' = Channel!Frame(m)
    <3>1. answer \in Seq(Bytes) /\ answer = <<>> /\ toShell = <<>>
      BY <1>5, <2>1, <2>5, EmptyParts DEF Back, ChannelInv, ScriptsTyped
    <3>2. toShell' = toShell \o Channel!Frame(m)
      BY <1>1, <1>3, <2>5 DEF Channel!Ends
    <3> QED BY <1>5, <2>2, <3>1, <3>2, EmptyParts DEF Back
  <2>6. thread' # "ended" => PipeSound'
    BY <2>1, <2>2, <2>4, <2>5 DEF PipeSound, Channel!Frame
  <2> QED BY <2>3, <2>6
<1> QED BY <1>6, <1>7, <1>8, <1>9, <1>10 DEF ChannelInv

-----------------------------------------------------------------------------
\* Steps of the scripts.
\* A script goes elsewhere and leaves the bytes where they are.
LEMMA ScriptGoes ==
    ASSUME ChannelInv, NEW place \in {"absent", "write", "rest", "read", "run", "lost", "gone"},
           NEW m \in Messages, shell' = [at |-> place, asks |-> m],
           m[1] = "PING" => begun >= 1, m[1] = "BEGIN" => m[2] >= 1,
           UNCHANGED <<toServer, toShell, got, handled, sent, begun>>,
           Threaded, thread' = thread, FlagsTyped', answer' = answer \/ answer' = <<>>,
           started' \subseteq 1..MaxCommands, \A n \in started' : <<"BEGIN", n>> \in Items(handled),
           interrupts' \in Nat, interrupts' = 0 => interrupts = 0,
           interrupts' = 0 /\ thread # "ended" /\ PipeSound => PipeSound'
    PROVE  ChannelInv'
<1>1. ServerTyped'
  BY DEF ChannelInv, ServerTyped, Threaded, Bytes, Messages, MessageKinds
<1>2. answer' \in Seq(Bytes) /\ Len(answer') <= 3 /\ Items(answer') \subseteq Items(answer)
  <2>1. CASE answer' = answer
    BY <2>1 DEF ChannelInv, ScriptsTyped
  <2>2. CASE answer' = <<>>
    <3>1. <<>> \in Seq(Bytes) /\ Len(<<>>) = 0
      OBVIOUS
    <3>2. Items(<<>>) = {}
      BY <3>1 DEF Items
    <3> QED BY <2>2, <3>1, <3>2
  <2> QED BY <2>1, <2>2
<1>3. shell' \in [at : {"absent", "write", "rest", "read", "run", "lost", "gone"}, asks : Messages]
      /\ shell'.asks = m
  OBVIOUS
<1>4. ScriptsTyped'
  BY <1>2, <1>3 DEF ChannelInv, ScriptsTyped, Bytes, Messages, MessageKinds
<1>5. AnswersSound'
  BY <1>2 DEF ChannelInv, AnswersSound, Items
<1>6. Whole' = Whole
  BY DEF Whole
<1> QED BY <1>1, <1>4, <1>5, <1>6 DEF ChannelInv

LEMMA NothingIs == Channel!Nothing \in Messages /\ Channel!Nothing[1] = "nothing"
  BY MessagesAre DEF Channel!Nothing, MessageKinds

LEMMA ServerStill ==
    ASSUME ChannelInv, UNCHANGED Channel!Server, stop' = stop, closer' = closer
    PROVE  Threaded /\ thread' = thread /\ FlagsTyped' /\ UNCHANGED <<pipe, got, handled>>
<1>1. Threaded /\ thread' = thread /\ UNCHANGED <<pipe, got, handled>>
  BY DEF Channel!Server, Threaded, ChannelInv, ServerTyped
<1>2. UNCHANGED <<ready, failed>> /\ stop' \in BOOLEAN
  BY DEF Channel!Server, ChannelInv, FlagsTyped
<1>3. FlagsTyped'
  BY <1>2, FlagsRest DEF ChannelInv
<1> QED BY <1>1, <1>3

\* From nowhere a script goes on; it is gone, whatever is on its way.
LEMMA GoneIsSound ==
    ASSUME ScriptsTyped, PipeSound, UNCHANGED <<toServer, got, handled, sent>>, shell'.at = "gone"
    PROVE  PipeSound'
<1>1. In' = In
  BY DEF In
<1>2. shell.asks \in Messages
  BY DEF ScriptsTyped
<1>3. Settled \/ (\E m \in Messages : Asking(m, Begun(m)) \/ Asking(m, Channel!Frame(m)))
  BY <1>2 DEF PipeSound, ScriptsTyped
<1>4. Settled' \/ (\E m \in Messages : Asking(m, Begun(m))' \/ Asking(m, Channel!Frame(m))')
  BY <1>1, <1>3 DEF Settled, Asking, Begun, Channel!Frame
<1> QED BY <1>4 DEF PipeSound, Asking, Begun, Channel!Frame, Messages, MessageKinds

LEMMA ShellDiesKeeps == ASSUME ChannelInv, Channel!ShellDies PROVE ChannelInv'
<1>1. /\ shell' = [at |-> "gone", asks |-> Channel!Nothing] /\ answer' = <<>>
      /\ UNCHANGED <<toServer, toShell, sent, started, begun, interrupts>>
  BY DEF Channel!ShellDies
<1>2. Threaded /\ thread' = thread /\ FlagsTyped' /\ UNCHANGED <<pipe, got, handled>>
  BY ServerStill DEF Channel!ShellDies
<1>3. PipeSound => PipeSound'
  BY <1>1, <1>2, GoneIsSound DEF ChannelInv
<1>4. started' \subseteq 1..MaxCommands /\ (\A n \in started' : <<"BEGIN", n>> \in Items(handled)) /\ interrupts' \in Nat
  BY <1>1 DEF ChannelInv, ScriptsTyped, AnswersSound
<1> QED BY <1>1, <1>2, <1>3, <1>4, NothingIs, ScriptGoes

LEMMA InterruptKeeps == ASSUME ChannelInv, Channel!Interrupt PROVE ChannelInv'
<1>1. /\ shell' = [at |-> "rest", asks |-> Channel!Nothing] /\ answer' = <<>>
      /\ UNCHANGED <<toServer, toShell, sent, started, begun>> /\ interrupts' = interrupts + 1
  BY DEF Channel!Interrupt
<1>2. Threaded /\ thread' = thread /\ FlagsTyped' /\ UNCHANGED <<pipe, got, handled>>
  BY ServerStill DEF Channel!Interrupt
<1>3. started' \subseteq 1..MaxCommands /\ (\A n \in started' : <<"BEGIN", n>> \in Items(handled))
  BY <1>1 DEF ChannelInv, ScriptsTyped, AnswersSound
<1>4. interrupts' \in Nat /\ interrupts' # 0
  BY <1>1 DEF ChannelInv, ScriptsTyped
<1> QED BY <1>1, <1>2, <1>3, <1>4, NothingIs, ScriptGoes

LEMMA ProbeKeepsPipe == ASSUME ChannelInv, Channel!Probe PROVE ChannelInv'
<1>1. /\ UNCHANGED <<thread, toServer, toShell, got, handled, ready, failed, answer, sent, started, begun, interrupts>>
      /\ Channel!CloserGoes("join")
      /\ \/ pipe' = "connected" /\ shell' = [shell EXCEPT !.at = "gone"]
         \/ UNCHANGED <<pipe, shell>>
  BY DEF Channel!Probe
<1>2. stop' \in BOOLEAN
  BY DEF Channel!Probe, ChannelInv, FlagsTyped
<1>3. FlagsTyped'
  BY <1>1, <1>2, FlagsRest DEF ChannelInv
<1>4. Threaded
  BY <1>1 DEF Threaded, ChannelInv, ServerTyped
<1>5. CASE UNCHANGED <<pipe, shell>>
  BY <1>1, <1>3, <1>4, <1>5, ThreadKeeps DEF Piped, Scripted
<1>6. CASE shell' = [shell EXCEPT !.at = "gone"]
  <2>1. shell \in [at : {"absent", "write", "rest", "read", "run", "lost", "gone"}, asks : Messages]
    BY DEF ChannelInv, ScriptsTyped
  <2>2. shell' = [at |-> "gone", asks |-> shell.asks] /\ shell.asks \in Messages
    BY <1>6, <2>1
  <2>3. PipeSound => PipeSound'
    BY <1>1, <2>2, GoneIsSound DEF ChannelInv
  <2>4. /\ started' \subseteq 1..MaxCommands /\ (\A n \in started' : <<"BEGIN", n>> \in Items(handled))
        /\ interrupts' \in Nat /\ (shell.asks[1] = "PING" => begun >= 1)
        /\ (shell.asks[1] = "BEGIN" => shell.asks[2] >= 1)
    BY <1>1 DEF ChannelInv, ScriptsTyped, AnswersSound
  <2> QED BY <1>1, <1>3, <1>4, <2>2, <2>3, <2>4, ScriptGoes
<1> QED BY <1>1, <1>5, <1>6

\* What has been read of an answer is the beginning of it.
LEMMA AnswerIs ==
    ASSUME ServerTyped, ScriptsTyped, PipeSound, shell.at = "read", answer # <<>>
    PROVE  /\ Settled /\ Back = Channel!Frame(shell.asks) /\ Channel!Header(answer)
           /\ Len(answer) = 3 => answer = Channel!Frame(shell.asks) /\ toShell = <<>>
<1>1. answer \in Seq(Bytes) /\ toShell \in Seq(Bytes) /\ shell.asks \in Messages
  BY DEF ServerTyped, ScriptsTyped
<1>2. /\ Back = <<>> => answer = <<>>
      /\ Back[1] = answer[1]
      /\ Len(answer) = Len(Back) => toShell = <<>> /\ answer = Back
  BY <1>1, EmptyParts DEF Back
<1>3. Settled /\ Back = Channel!Frame(shell.asks)
  BY <1>2 DEF PipeSound
<1>4. answer[1] = Channel!Frame(shell.asks)[1] /\ Channel!Frame(shell.asks)[1] = <<shell.asks, 0>>
  BY <1>1, <1>2, <1>3, FrameIs
<1>5. Channel!Header(answer)
  <2>1. Head(answer) = <<shell.asks, 0>>
    BY <1>1, <1>4
  <2> QED BY <2>1 DEF Channel!Header
<1>6. Len(answer) = 3 => answer = Channel!Frame(shell.asks) /\ toShell = <<>>
  BY <1>1, <1>2, <1>3, FrameIs
<1> QED BY <1>3, <1>5, <1>6

LEMMA AnswerIsNoFrameKeeps == ASSUME ChannelInv, Channel!AnswerIsNoFrame PROVE ChannelInv'
<1>1. /\ shell.at = "read" /\ answer # <<>> /\ ~Channel!Header(answer)
      /\ shell' = [shell EXCEPT !.at = "lost"]
      /\ UNCHANGED <<toServer, toShell, answer, sent, started, begun, interrupts>>
  BY DEF Channel!AnswerIsNoFrame
<1>2. Threaded /\ thread' = thread /\ FlagsTyped' /\ UNCHANGED <<pipe, got, handled>>
  BY ServerStill DEF Channel!AnswerIsNoFrame
<1>3. shell' = [at |-> "lost", asks |-> shell.asks] /\ shell.asks \in Messages
  <2>1. shell \in [at : {"absent", "write", "rest", "read", "run", "lost", "gone"}, asks : Messages]
    BY DEF ChannelInv, ScriptsTyped
  <2> QED BY <1>1, <2>1
<1>4. ~PipeSound
  BY <1>1, AnswerIs DEF ChannelInv
<1>5. /\ started' \subseteq 1..MaxCommands /\ (\A n \in started' : <<"BEGIN", n>> \in Items(handled))
      /\ interrupts' \in Nat /\ (shell.asks[1] = "PING" => begun >= 1)
      /\ (shell.asks[1] = "BEGIN" => shell.asks[2] >= 1)
  BY <1>1 DEF ChannelInv, ScriptsTyped, AnswersSound
<1> QED BY <1>1, <1>2, <1>3, <1>4, <1>5, ScriptGoes

LEMMA ScriptThrowsKeeps == ASSUME ChannelInv, Channel!ScriptThrows PROVE ChannelInv'
<1>1. /\ shell.at = "read" /\ shell' = [at |-> "rest", asks |-> Channel!Nothing] /\ answer' = <<>>
      /\ UNCHANGED <<toServer, toShell, sent, started, begun, interrupts>>
      /\ \/ Len(answer) = 3 /\ answer # Channel!Frame(shell.asks)
         \/ pipe = "closed"
  BY DEF Channel!ScriptThrows, Channel!FrameSize, Channel!AnswerOf
<1>2. Threaded /\ thread' = thread /\ FlagsTyped' /\ UNCHANGED <<pipe, got, handled>>
  BY ServerStill DEF Channel!ScriptThrows
<1>3. ~PipeSound \/ thread = "ended"
  <2>1. CASE Len(answer) = 3 /\ answer # Channel!Frame(shell.asks)
    <3>1. Len(<<>>) = 0
      OBVIOUS
    <3>2. answer # <<>>
      BY <2>1, <3>1
    <3> QED BY <1>1, <2>1, <3>2, AnswerIs DEF ChannelInv
  <2>2. CASE pipe = "closed"
    BY <2>2 DEF ChannelInv, ServerTyped
  <2> QED BY <1>1, <2>1, <2>2
<1>4. /\ started' \subseteq 1..MaxCommands /\ (\A n \in started' : <<"BEGIN", n>> \in Items(handled))
      /\ interrupts' \in Nat
  BY <1>1 DEF ChannelInv, ScriptsTyped, AnswersSound
<1> QED BY <1>1, <1>2, <1>3, <1>4, NothingIs, ScriptGoes

LEMMA WritePayloadKeeps == ASSUME ChannelInv, Channel!WritePayload PROVE ChannelInv'
<1>1. /\ shell.at = "write" /\ toServer' = toServer \o Tail(Channel!Frame(shell.asks))
      /\ shell' = [shell EXCEPT !.at = "read"] /\ answer' = <<>>
      /\ UNCHANGED <<toShell, sent, started, begun, interrupts>>
  BY DEF Channel!WritePayload
<1>2. Threaded /\ thread' = thread /\ FlagsTyped' /\ UNCHANGED <<pipe, got, handled>>
  BY ServerStill DEF Channel!WritePayload
<1>3. shell' = [at |-> "read", asks |-> shell.asks] /\ shell.asks \in Messages
  <2>1. shell \in [at : {"absent", "write", "rest", "read", "run", "lost", "gone"}, asks : Messages]
    BY DEF ChannelInv, ScriptsTyped
  <2> QED BY <1>1, <2>1
<1>4. PICK rest : rest = Tail(Channel!Frame(shell.asks))
  OBVIOUS
<1>5. /\ rest \in Seq(Bytes) /\ Begun(shell.asks) \o rest = Channel!Frame(shell.asks)
      /\ toServer' = toServer \o rest
  BY <1>1, <1>3, <1>4, FrameIs
<1>6. got \in Seq(Bytes) /\ toServer \in Seq(Bytes) /\ toShell \in Seq(Bytes)
  BY DEF ChannelInv, ServerTyped
<1>7. toServer' \in Seq(Bytes) /\ In' = In \o rest
  <2>1. toServer \o rest \in Seq(Bytes)
    BY <1>5, <1>6
  <2>2. got \o (toServer \o rest) = (got \o toServer) \o rest
    <3>1. got \in Seq(Bytes) /\ toServer \in Seq(Bytes) /\ rest \in Seq(Bytes)
      BY <1>5, <1>6
    <3> QED BY <3>1, Regroup
  <2> QED BY <1>2, <1>5, <2>1, <2>2 DEF In
<1>8. answer' \in Seq(Bytes) /\ Len(answer') = 0 /\ Back' = toShell /\ Items(answer') = {}
  <2>1. <<>> \in Seq(Bytes) /\ Len(<<>>) = 0 /\ <<>> \o toShell = toShell
    BY <1>6
  <2> QED BY <1>1, <2>1 DEF Back, Items
<1>9. ServerTyped'
  BY <1>1, <1>2, <1>7 DEF ChannelInv, ServerTyped, Bytes, Messages, MessageKinds
<1>10. ScriptsTyped'
  <2>1. /\ shell' \in [at : {"absent", "write", "rest", "read", "run", "lost", "gone"}, asks : Messages]
        /\ shell'.asks = shell.asks
    BY <1>3
  <2> QED BY <1>1, <1>8, <2>1 DEF ChannelInv, ScriptsTyped, Bytes, Messages, MessageKinds
<1>11. AnswersSound' /\ Whole' = Whole
  <2>1. UNCHANGED <<toShell, handled, started, sent>>
    BY <1>1, <1>2
  <2>2. /\ \A b \in Items(toShell') : b[1] \in Items(handled')
        /\ \A n \in started' : <<"BEGIN", n>> \in Items(handled')
    BY <2>1 DEF ChannelInv, AnswersSound
  <2>3. \A b \in Items(answer') : b[1] \in Items(handled')
    BY <1>8
  <2> QED BY <2>1, <2>2, <2>3 DEF AnswersSound, Whole
<1>12. PipeSound => PipeSound'
  <2>1. SUFFICES ASSUME PipeSound PROVE PipeSound'
    OBVIOUS
  <2>2. Asking(shell.asks, Begun(shell.asks)) /\ Back = <<>>
    BY <1>1, <2>1 DEF PipeSound
  <2>3. sent = Append(handled, shell.asks) /\ In' = Channel!Frame(shell.asks)
    BY <1>5, <1>7, <2>2 DEF Asking
  <2>4. Back' = <<>>
    <3>1. answer \in Seq(Bytes)
      BY DEF ChannelInv, ScriptsTyped
    <3> QED BY <1>6, <1>8, <2>2, <3>1, EmptyParts DEF Back
  <2>5. shell'.at = "read" /\ shell'.asks = shell.asks /\ sent' = sent /\ handled' = handled
    BY <1>1, <1>2, <1>3
  <2> QED BY <2>3, <2>4, <2>5 DEF PipeSound, Asking, Channel!Frame
<1> QED BY <1>1, <1>2, <1>9, <1>10, <1>11, <1>12 DEF ChannelInv

LEMMA ReadAnswerKeeps == ASSUME ChannelInv, Channel!ReadAnswer PROVE ChannelInv'
<1>1. PICK n \in 1..(IF answer = <<>> THEN 1 ELSE 3 - Len(answer)) :
          /\ n <= Len(toShell)
          /\ answer' = answer \o SubSeq(toShell, 1, n)
          /\ toShell' = SubSeq(toShell, n + 1, Len(toShell))
  BY DEF Channel!ReadAnswer, Channel!FrameSize
<1>2. UNCHANGED <<toServer, shell, sent, started, begun, interrupts>> /\ Len(answer) < 3
  BY DEF Channel!ReadAnswer, Channel!FrameSize
<1>3. Threaded /\ thread' = thread /\ FlagsTyped' /\ UNCHANGED <<pipe, got, handled>>
  BY ServerStill DEF Channel!ReadAnswer
<1>4. answer \in Seq(Bytes) /\ toShell \in Seq(Bytes) /\ Len(answer) \in Nat /\ Len(toShell) \in Nat
  BY DEF ChannelInv, ServerTyped, ScriptsTyped
<1>5. n \in 1..Len(toShell) /\ (answer = <<>> => n = 1) /\ (answer # <<>> => n <= 3 - Len(answer))
  BY <1>1, <1>2, <1>4
<1>6. answer' \in Seq(Bytes) /\ toShell' \in Seq(Bytes) /\ Len(answer') = Len(answer) + n /\ Back' = Back
  <2>1. answer' = answer \o First(toShell, n) /\ toShell' = Rest(toShell, n)
    BY <1>1 DEF First, Rest
  <2>2. /\ answer \o First(toShell, n) \in Seq(Bytes) /\ Rest(toShell, n) \in Seq(Bytes)
        /\ Len(answer \o First(toShell, n)) = Len(answer) + n
        /\ (answer \o First(toShell, n)) \o Rest(toShell, n) = answer \o toShell
    <3>1. answer \in Seq(Bytes) /\ toShell \in Seq(Bytes) /\ n \in 1..Len(toShell)
      BY <1>4, <1>5
    <3> QED BY <3>1, BytesSplit, Zenon
  <2> QED BY <2>1, <2>2 DEF Back
<1>7. Len(answer') <= 3
  <2>1. answer = <<>> => Len(answer) = 0
    OBVIOUS
  <2> QED BY <1>2, <1>4, <1>5, <1>6, <2>1
<1>8. ServerTyped'
  BY <1>2, <1>3, <1>6 DEF ChannelInv, ServerTyped, Bytes, Messages, MessageKinds
<1>9. ScriptsTyped'
  BY <1>2, <1>6, <1>7 DEF ChannelInv, ScriptsTyped, Bytes, Messages, MessageKinds
<1>10. Items(answer') \cup Items(toShell') = Items(answer) \cup Items(toShell)
  <2>1. \A s, t \in Seq(Bytes) : Items(s \o t) = Items(s) \cup Items(t)
    <3>1. <<Channel!Nothing, 0>> \in Bytes
      <4>1. 0 \in 0..2
        OBVIOUS
      <4> QED BY <4>1, NothingIs, MessagesAre, Zenon
    <3> QED BY <3>1, ItemsOf
  <2>2. answer' \o toShell' = answer \o toShell
    BY <1>6 DEF Back
  <2> QED BY <1>4, <1>6, <2>1, <2>2
<1>11. AnswersSound'
  BY <1>2, <1>3, <1>10 DEF ChannelInv, AnswersSound
<1>12. Whole' = Whole /\ (PipeSound' <=> PipeSound)
  <2>1. In' = In
    BY <1>2, <1>3 DEF In
  <2>2. Whole' = Whole
    BY <1>2, <1>3 DEF Whole
  <2> QED BY <1>2, <1>3, <1>6, <2>1, <2>2, PipeFollows
<1> QED BY <1>2, <1>3, <1>8, <1>9, <1>11, <1>12 DEF ChannelInv

\* A script begins a message when nothing is in the pipe.
LEMMA SaysKeeps ==
    ASSUME ChannelInv, NEW m \in Messages, Channel!Says(m),
           m[1] = "PING" => begun' >= 1, m[1] = "BEGIN" => m[2] >= 1, begun' \in 0..MaxCommands,
           UNCHANGED <<toShell, got, handled, started, interrupts>>, answer' = answer \/ answer' = <<>>,
           Threaded, thread' = thread, FlagsTyped',
           interrupts = 0 /\ thread # "ended" => Settled /\ Back' = <<>>
    PROVE  ChannelInv'
<1>1. /\ shell' = [at |-> "write", asks |-> m] /\ sent' = Append(sent, m)
      /\ toServer' = Append(toServer, <<m, 0>>)
  BY DEF Channel!Says
<1>2. /\ toServer \in Seq(Bytes) /\ got \in Seq(Bytes) /\ handled \in Seq(Messages)
      /\ sent \in Seq(Messages) /\ answer \in Seq(Bytes) /\ Len(answer) <= 3
  BY DEF ChannelInv, ServerTyped, ScriptsTyped
<1>3. toServer' \in Seq(Bytes) /\ sent' \in Seq(Messages)
  <2>1. 0 \in 0..2
    OBVIOUS
  <2>2. <<m, 0>> \in Bytes
    BY <2>1, MessagesAre, Zenon
  <2> QED BY <1>1, <1>2, <2>2
<1>4. answer' \in Seq(Bytes) /\ Len(answer') <= 3 /\ Items(answer') \subseteq Items(answer)
  <2>1. CASE answer' = answer
    BY <1>2, <2>1
  <2>2. CASE answer' = <<>>
    <3>1. <<>> \in Seq(Bytes) /\ Len(<<>>) = 0
      OBVIOUS
    <3>2. Items(<<>>) = {}
      BY <3>1 DEF Items
    <3> QED BY <2>2, <3>1, <3>2
  <2> QED BY <2>1, <2>2
<1>5. shell' \in [at : {"absent", "write", "rest", "read", "run", "lost", "gone"}, asks : Messages]
      /\ shell'.asks = m /\ shell'.at = "write"
  BY <1>1
<1>6. ServerTyped'
  BY <1>3 DEF ChannelInv, ServerTyped, Threaded, Bytes, Messages, MessageKinds
<1>7. ScriptsTyped'
  BY <1>3, <1>4, <1>5 DEF ChannelInv, ScriptsTyped, Bytes, Messages, MessageKinds
<1>8. AnswersSound'
  <2>1. /\ \A b \in Items(toShell') : b[1] \in Items(handled')
        /\ \A n \in started' : <<"BEGIN", n>> \in Items(handled')
    BY DEF ChannelInv, AnswersSound
  <2>2. \A b \in Items(answer') : b[1] \in Items(handled')
    BY <1>4 DEF ChannelInv, AnswersSound
  <2> QED BY <2>1, <2>2 DEF AnswersSound
<1>9. interrupts' = 0 => Whole'
  <2>1. SUFFICES ASSUME interrupts' = 0 PROVE Whole'
    OBVIOUS
  <2>2. Len(handled) <= Len(sent) /\ handled = SubSeq(sent, 1, Len(handled))
    BY <2>1 DEF ChannelInv, Whole
  <2>3. Len(handled) <= Len(Append(sent, m)) /\ handled = SubSeq(Append(sent, m), 1, Len(handled))
    BY <1>2, <2>2, PrefixGrows
  <2> QED BY <1>1, <2>3 DEF Whole
<1>10. interrupts' = 0 /\ thread' # "ended" => PipeSound'
  <2>1. SUFFICES ASSUME interrupts' = 0, thread' # "ended" PROVE PipeSound'
    OBVIOUS
  <2>2. sent = handled /\ got \o toServer = <<>> /\ Back' = <<>>
    BY <2>1 DEF Settled, In
  <2>3. got = <<>> /\ toServer = <<>>
    BY <1>2, <2>2, EmptyParts
  <2>4. got' \o toServer' = <<<<m, 0>>>>
    <3>1. <<>> \o Append(<<>>, <<m, 0>>) = <<<<m, 0>>>>
      OBVIOUS
    <3> QED BY <1>1, <2>3, <3>1
  <2>5. sent' = Append(handled', m)
    BY <1>1, <2>2
  <2> QED BY <1>5, <2>2, <2>4, <2>5 DEF PipeSound, Asking, In, Begun
<1> QED BY <1>6, <1>7, <1>8, <1>9, <1>10 DEF ChannelInv

LEMMA ConnectKeepsPipe == ASSUME ChannelInv, Channel!Connect PROVE ChannelInv'
<1>1. /\ shell.at = "absent" /\ pipe' = "connected" /\ Channel!Says(<<"READY", 0>>)
      /\ UNCHANGED <<thread, toShell, got, handled, ready, failed, answer, started, closer, begun, interrupts>>
  BY DEF Channel!Connect
<1>2. stop' \in BOOLEAN
  BY DEF Channel!Connect, ChannelInv, FlagsTyped
<1>3. FlagsTyped'
  BY <1>1, <1>2, FlagsRest DEF ChannelInv
<1>4. Threaded
  BY <1>1 DEF Threaded, ChannelInv, ServerTyped
<1>5. PICK m : m = <<"READY", 0>>
  OBVIOUS
<1>6. m \in Messages /\ m[1] = "READY"
  <2>1. 0 \in 0..MaxCommands /\ "READY" \in MessageKinds
    BY MessagesAre DEF MessageKinds
  <2> QED BY <1>5, <2>1, MessagesAre
<1>7. interrupts = 0 /\ thread # "ended" => Settled /\ Back' = <<>>
  BY <1>1 DEF ChannelInv, PipeSound, Back
<1>8. begun' \in 0..MaxCommands
  BY <1>1 DEF ChannelInv, ScriptsTyped
<1>9. Channel!Says(m)
  BY <1>1, <1>5
<1> QED BY <1>1, <1>3, <1>4, <1>6, <1>7, <1>8, <1>9, SaysKeeps

LEMMA PressF12Keeps == ASSUME ChannelInv, Channel!PressF12 PROVE ChannelInv'
<1>1. /\ shell.at = "rest" /\ begun < MaxCommands /\ begun' = begun + 1 /\ Channel!Says(<<"PING", 0>>)
      /\ UNCHANGED <<toShell, answer, started, interrupts>>
  BY DEF Channel!PressF12
<1>2. Threaded /\ thread' = thread /\ FlagsTyped' /\ UNCHANGED <<pipe, got, handled>>
  BY ServerStill DEF Channel!PressF12
<1>3. PICK m : m = <<"PING", 0>>
  OBVIOUS
<1>4. m \in Messages /\ m[1] = "PING"
  <2>1. 0 \in 0..MaxCommands /\ "PING" \in MessageKinds
    BY MessagesAre DEF MessageKinds
  <2> QED BY <1>3, <2>1, MessagesAre
<1>5. interrupts = 0 /\ thread # "ended" => Settled /\ Back' = <<>>
  BY <1>1 DEF ChannelInv, PipeSound, Back
<1>6. begun' \in 0..MaxCommands /\ begun' >= 1
  BY <1>1, MessagesAre DEF ChannelInv, ScriptsTyped
<1>7. Channel!Says(m)
  BY <1>1, <1>3
<1> QED BY <1>1, <1>2, <1>4, <1>5, <1>6, <1>7, SaysKeeps

LEMMA PromptReturnsKeeps == ASSUME ChannelInv, Channel!PromptReturns PROVE ChannelInv'
<1>1. /\ shell.at = "run" /\ Channel!Says(<<"END", shell.asks[2]>>)
      /\ UNCHANGED <<toShell, answer, started, begun, interrupts>>
  BY DEF Channel!PromptReturns
<1>2. Threaded /\ thread' = thread /\ FlagsTyped' /\ UNCHANGED <<pipe, got, handled>>
  BY ServerStill DEF Channel!PromptReturns
<1>3. PICK m : m = <<"END", shell.asks[2]>>
  OBVIOUS
<1>4. m \in Messages /\ m[1] = "END"
  <2>1. shell.asks[2] \in 0..MaxCommands /\ "END" \in MessageKinds
    BY MessagesAre DEF MessageKinds, ChannelInv, ScriptsTyped
  <2> QED BY <1>3, <2>1, MessagesAre
<1>5. interrupts = 0 /\ thread # "ended" => Settled /\ Back' = <<>>
  BY <1>1 DEF ChannelInv, PipeSound, Back
<1>6. begun' \in 0..MaxCommands
  BY <1>1 DEF ChannelInv, ScriptsTyped
<1>7. Channel!Says(m)
  BY <1>1, <1>3
<1> QED BY <1>1, <1>2, <1>4, <1>5, <1>6, <1>7, SaysKeeps

LEMMA TakeAnswerKeeps == ASSUME ChannelInv, Channel!TakeAnswer PROVE ChannelInv'
<1>1. /\ shell.at = "read" /\ Len(answer) = 3 /\ answer = Channel!Frame(shell.asks) /\ answer' = <<>>
      /\ UNCHANGED <<toShell, begun, interrupts>>
  BY DEF Channel!TakeAnswer, Channel!FrameSize, Channel!AnswerOf
<1>2. Threaded /\ thread' = thread /\ FlagsTyped' /\ UNCHANGED <<pipe, got, handled>>
  BY ServerStill DEF Channel!TakeAnswer
<1>3. PICK m : m = shell.asks
  OBVIOUS
<1>4. /\ m \in Messages /\ (m[1] = "PING" => begun >= 1) /\ (m[1] = "BEGIN" => m[2] >= 1)
      /\ begun \in 0..MaxCommands /\ started \subseteq 1..MaxCommands /\ interrupts \in Nat
      /\ toShell \in Seq(Bytes)
  BY <1>3 DEF ChannelInv, ScriptsTyped, ServerTyped
<1>5. interrupts = 0 /\ thread # "ended" => Settled /\ toShell = <<>> /\ Back' = <<>>
  <2>1. SUFFICES ASSUME interrupts = 0, thread # "ended" PROVE Settled /\ toShell = <<>> /\ Back' = <<>>
    OBVIOUS
  <2>2. answer # <<>>
    <3>1. Len(<<>>) = 0
      OBVIOUS
    <3> QED BY <1>1, <3>1
  <2>3. Settled /\ toShell = <<>>
    BY <1>1, <2>1, <2>2, AnswerIs DEF ChannelInv
  <2>4. <<>> \o <<>> = <<>>
    OBVIOUS
  <2> QED BY <1>1, <2>3, <2>4 DEF Back
<1>6. m \in Items(handled)
  <2>1. 1 \in 1..3 /\ 1 \in 1..Len(answer)
    BY <1>1
  <2>2. answer[1] \in Items(answer)
    BY <2>1 DEF Items
  <2>3. answer[1][1] = m
    BY <1>1, <1>3, <1>4, <2>1, FrameIs
  <2> QED BY <2>2, <2>3 DEF ChannelInv, AnswersSound
<1>7. CASE m[1] = "PING"
  <2>1. Channel!Says(<<"BEGIN", begun>>) /\ UNCHANGED started
    BY <1>3, <1>7 DEF Channel!TakeAnswer
  <2>2. PICK b : b = <<"BEGIN", begun>>
    OBVIOUS
  <2>3. b \in Messages /\ b[1] = "BEGIN" /\ b[2] >= 1
    <3>1. "BEGIN" \in MessageKinds
      BY DEF MessageKinds
    <3> QED BY <1>4, <1>7, <2>2, <3>1, MessagesAre
  <2>4. Channel!Says(b) /\ begun' \in 0..MaxCommands
    BY <1>1, <1>4, <2>1, <2>2
  <2> QED BY <1>1, <1>2, <1>5, <2>1, <2>3, <2>4, SaysKeeps
<1>8. CASE m[1] = "BEGIN"
  <2>1. /\ shell' = [at |-> "run", asks |-> m] /\ started' = started \cup {m[2]}
        /\ UNCHANGED <<sent, toServer>>
    BY <1>3, <1>8 DEF Channel!TakeAnswer
  <2>2. m = <<"BEGIN", m[2]>> /\ m[2] \in 1..MaxCommands
    BY <1>4, <1>8, MessagesAre
  <2>3. started' \subseteq 1..MaxCommands /\ \A n \in started' : <<"BEGIN", n>> \in Items(handled)
    BY <1>4, <1>6, <2>1, <2>2 DEF ChannelInv, AnswersSound
  <2>4. interrupts' = 0 /\ thread # "ended" /\ PipeSound => PipeSound'
    <3>1. SUFFICES ASSUME interrupts' = 0, thread # "ended" PROVE PipeSound'
      OBVIOUS
    <3>2. Settled' /\ Back' = <<>> /\ shell'.at = "run"
      BY <1>1, <1>2, <1>5, <2>1, <3>1 DEF Settled, In
    <3> QED BY <3>2 DEF PipeSound
  <2>5. interrupts' \in Nat /\ interrupts' = interrupts
    BY <1>1, <1>4
  <2> QED BY <1>1, <1>2, <1>4, <1>8, <2>1, <2>3, <2>4, <2>5, ScriptGoes
<1>9. CASE m[1] # "PING" /\ m[1] # "BEGIN"
  <2>1. /\ shell' = [at |-> "rest", asks |-> Channel!Nothing] /\ UNCHANGED <<sent, toServer, started>>
    BY <1>3, <1>9 DEF Channel!TakeAnswer
  <2>3. started' \subseteq 1..MaxCommands /\ \A n \in started' : <<"BEGIN", n>> \in Items(handled)
    BY <1>4, <2>1 DEF ChannelInv, AnswersSound
  <2>4. interrupts' = 0 /\ thread # "ended" /\ PipeSound => PipeSound'
    <3>1. SUFFICES ASSUME interrupts' = 0, thread # "ended" PROVE PipeSound'
      OBVIOUS
    <3>2. Settled' /\ Back' = <<>> /\ shell'.at = "rest"
      BY <1>1, <1>2, <1>5, <2>1, <3>1 DEF Settled, In
    <3> QED BY <3>2 DEF PipeSound
  <2>5. interrupts' \in Nat /\ interrupts' = interrupts
    BY <1>1, <1>4
  <2> QED BY <1>1, <1>2, <2>1, <2>3, <2>4, <2>5, NothingIs, ScriptGoes
<1> QED BY <1>7, <1>8, <1>9

LEMMA ChannelStep == ASSUME ChannelInv, Channel!ChannelNext PROVE ChannelInv'
<1>1. CASE Channel!ThreadGoesOn
  BY <1>1, ThreadMoves, ReadSomeKeeps, LengthIsRefusedKeeps, TakeMessageKeeps DEF Channel!ThreadGoesOn
<1>2. CASE Channel!ScriptGoesOn
  BY <1>2, WritePayloadKeeps, ReadAnswerKeeps, TakeAnswerKeeps, AnswerIsNoFrameKeeps, ScriptThrowsKeeps
  DEF Channel!ScriptGoesOn
<1>3. CASE Channel!Connect \/ Channel!PressF12 \/ Channel!PromptReturns \/ Channel!Interrupt \/ Channel!ShellDies
  BY <1>3, ConnectKeepsPipe, PressF12Keeps, PromptReturnsKeeps, InterruptKeeps, ShellDiesKeeps
<1>4. CASE Channel!CloseBegins \/ Channel!CloseLooks \/ Channel!CancelPending \/ Channel!Probe \/ Channel!Joined
  BY <1>4, CloserMoves, ProbeKeepsPipe
<1> QED BY <1>1, <1>2, <1>3, <1>4 DEF Channel!ChannelNext

LEMMA ChannelImplies ==
    ASSUME ChannelInv
    PROVE  Channel!ChannelTypeOK /\ Channel!StartsOnItsOwnAnswer /\ Channel!MessagesAreWhole
<1>1. Channel!ChannelTypeOK
  <2>1. stop \in BOOLEAN /\ ready \in BOOLEAN /\ failed \in BOOLEAN
    BY DEF ChannelInv, FlagsTyped
  <2>2. closer.at \in {"away", "stopping", "look", "join", "done"}
    BY DEF ChannelInv, FlagsTyped
  <2> QED BY <2>1, <2>2 DEF Channel!ChannelTypeOK, Channel!FrameSize, ChannelInv, ServerTyped, ScriptsTyped
<1>2. Channel!StartsOnItsOwnAnswer
  <2>1. ASSUME NEW n \in started PROVE \E i \in 1..Len(handled) : handled[i] = <<"BEGIN", n>>
    BY DEF ChannelInv, AnswersSound, Items
  <2> QED BY <2>1 DEF Channel!StartsOnItsOwnAnswer
<1>3. Channel!MessagesAreWhole
  BY DEF Channel!MessagesAreWhole, ChannelInv, Whole
<1> QED BY <1>1, <1>2, <1>3

LEMMA ChannelRests == ASSUME ChannelInv, UNCHANGED channel PROVE ChannelInv'
<1>1. UNCHANGED Piped /\ UNCHANGED Scripted
  BY DEF channel, Piped, Scripted
<1>2. Threaded
  BY DEF channel, Threaded, ChannelInv, ServerTyped
<1>3. FlagsTyped'
  <2>1. UNCHANGED <<ready, failed>> /\ stop' \in BOOLEAN /\ UNCHANGED closer
    BY DEF channel, ChannelInv, FlagsTyped
  <2> QED BY <2>1, FlagsRest DEF ChannelInv
<1> QED BY <1>1, <1>2, <1>3, ThreadKeeps

-----------------------------------------------------------------------------
(* The output of a command and its readers.                                  *)

Writing == {"running", "signal", "ok", "error", "finish", "fail", "failEmpty", "broken", "gone"}
RowStates == {"RUNNING", "FINISHED", "FAILED"}
FollowerStates ==
    [at : {"start", "read", "check", "waiting", "last", "chunks", "eof"}, text : Seq(Nat),
     generation : Nat, state : RowStates, timedOut : BOOLEAN]

OutputTyped ==
    /\ store \in {"v2", "external"} /\ printed \in Seq(Nat) /\ chunks \in Seq(Nat)
    /\ row \in [state : RowStates, output : Seq(Nat)]
    /\ generation \in Nat /\ worker \in Writing \cup {"announce", "done"} /\ failures \in Nat
FollowersTyped == follower \in [Readers -> FollowerStates]

\* The row is concluded when the thread has nothing more to write, and only a
\* failed write makes what is stored differ from what was printed.
Ended == row.state \in {"FINISHED", "FAILED"}
RowSound ==
    /\ row.state = "RUNNING" => row.output = <<>> /\ worker \in Writing
    /\ Ended => worker \in {"announce", "done"}
    /\ row.state = "FINISHED" => row.output = Output!Capped(printed)
    /\ failures = 0 => /\ chunks = printed /\ worker \notin {"failEmpty", "broken", "gone"}
                       /\ Ended => row.output = Output!Capped(printed)

FollowerSound(k, text, over) ==
    /\ Len(k.text) <= Len(text) /\ k.text = SubSeq(text, 1, Len(k.text))
    /\ k.at = "eof" => over /\ k.text = text
    /\ k.state \in {"FINISHED", "FAILED"} => over
FollowersSound == \A r \in Readers : FollowerSound(follower[r], Output!Text, Ended)

OutputInv == OutputTyped /\ FollowersTyped /\ RowSound /\ FollowersSound

-----------------------------------------------------------------------------
\* The stored text only grows, and not once the row is concluded.
Grows(text, new) == \E more \in Seq(Nat) : new = text \o more
TextKept == (Output!Text)' \in Seq(Nat) /\ Grows(Output!Text, (Output!Text)')
            /\ (Ended => Ended' /\ (Output!Text)' = Output!Text)

LEMMA PrefixKept ==
    ASSUME NEW t \in Seq(Nat), NEW new \in Seq(Nat), Grows(t, new), NEW n \in 0..Len(t)
    PROVE  SubSeq(new, 1, n) = SubSeq(t, 1, n) /\ Len(t) <= Len(new)
<1>1. PICK more \in Seq(Nat) : new = t \o more
  BY DEF Grows
<1>2. Len(new) = Len(t) + Len(more) /\ \A i \in 1..Len(t) : new[i] = t[i]
  BY <1>1
<1> QED BY <1>2

LEMMA GrowsIs ==
    ASSUME NEW t \in Seq(Nat)
    PROVE  /\ Grows(t, t) /\ \A more \in Seq(Nat) : Grows(t, t \o more) /\ t \o more \in Seq(Nat)
           /\ \A new \in Seq(Nat) : Grows(<<>>, new)
<1>1. \A more \in Seq(Nat) : Grows(t, t \o more) /\ t \o more \in Seq(Nat)
  BY DEF Grows
<1>2. Grows(t, t)
  <2>1. <<>> \in Seq(Nat) /\ t = t \o <<>>
    OBVIOUS
  <2> QED BY <2>1 DEF Grows
<1>3. ASSUME NEW new \in Seq(Nat) PROVE Grows(<<>>, new)
  <2>1. new = <<>> \o new
    OBVIOUS
  <2> QED BY <2>1 DEF Grows
<1> QED BY <1>1, <1>2, <1>3

\* The row keeps the whole output or its end.
LEMMA CappedIs ==
    ASSUME NEW t \in Seq(Nat)
    PROVE  /\ Output!Capped(t) \in Seq(Nat) /\ (store = "v2" => Output!Capped(t) = t)
           /\ \E n \in 0..Len(t) : /\ Output!Capped(t) = SubSeq(t, n + 1, Len(t))
                                   /\ n > 0 => store = "external" /\ Len(Output!Capped(t)) = MaxFinal
<1>1. MaxFinal \in Nat /\ Len(t) \in Nat
  BY BoundsAssumption DEF BoundsAssumption
<1>2. CASE store = "external" /\ Len(t) > MaxFinal
  <2>1. PICK n : n = Len(t) - MaxFinal
    OBVIOUS
  <2>2. n \in 0..Len(t) /\ Len(t) - n = MaxFinal
    BY <1>1, <1>2, <2>1
  <2>3. Output!Capped(t) = SubSeq(t, n + 1, Len(t))
    BY <1>2, <2>1 DEF Output!Capped
  <2>4. SubSeq(t, n + 1, Len(t)) \in Seq(Nat) /\ Len(SubSeq(t, n + 1, Len(t))) = Len(t) - n
    BY <1>1, <2>2
  <2> QED BY <1>2, <2>2, <2>3, <2>4
<1>3. CASE ~(store = "external" /\ Len(t) > MaxFinal)
  <2>1. Output!Capped(t) = t
    BY <1>3 DEF Output!Capped
  <2>2. t = SubSeq(t, 0 + 1, Len(t)) /\ 0 \in 0..Len(t)
    BY <1>1
  <2> QED BY <2>1, <2>2
<1> QED BY <1>2, <1>3

LEMMA TextIs ==
    ASSUME OutputTyped, RowSound
    PROVE  /\ Output!Text \in Seq(Nat) /\ (row.state = "RUNNING" => Output!Text = chunks)
           /\ failures = 0 /\ Ended => Output!Text = printed
<1>1. chunks \in Seq(Nat) /\ row.output \in Seq(Nat) /\ printed \in Seq(Nat)
  BY DEF OutputTyped
<1>2. store = "v2" => Output!Capped(printed) = printed
  BY <1>1, CappedIs
<1> QED BY <1>1, <1>2 DEF Output!Text, RowSound

LEMMA TextRuns == ASSUME OutputTyped', RowSound', row'.state = "RUNNING" PROVE (Output!Text)' = chunks'
<1>1. row'.output = <<>>
  BY DEF RowSound
<1> QED BY <1>1 DEF Output!Text

LEMMA FollowerKept ==
    ASSUME NEW k \in FollowerStates, NEW t \in Seq(Nat), NEW new \in Seq(Nat), NEW over, NEW now,
           FollowerSound(k, t, over), Grows(t, new), over => now /\ new = t
    PROVE  FollowerSound(k, new, now)
<1>1. k.text \in Seq(Nat) /\ Len(k.text) \in 0..Len(t)
  BY DEF FollowerStates, FollowerSound
<1>2. SubSeq(new, 1, Len(k.text)) = SubSeq(t, 1, Len(k.text)) /\ Len(t) <= Len(new)
  BY <1>1, PrefixKept
<1>3. Len(k.text) <= Len(new) /\ k.text = SubSeq(new, 1, Len(k.text))
  BY <1>1, <1>2 DEF FollowerSound
<1> QED BY <1>3 DEF FollowerSound

LEMMA OthersKept ==
    ASSUME OutputInv, OutputTyped', RowSound', TextKept, UNCHANGED follower
    PROVE  OutputInv'
<1>1. Output!Text \in Seq(Nat) /\ (Output!Text)' \in Seq(Nat)
  BY TextIs DEF OutputInv, TextKept
<1>2. PICK t, new : t = Output!Text /\ new = (Output!Text)'
  OBVIOUS
<1>3. t \in Seq(Nat) /\ new \in Seq(Nat) /\ Grows(t, new) /\ (Ended => Ended' /\ new = t)
  BY <1>1, <1>2 DEF TextKept
<1>4. ASSUME NEW r \in Readers PROVE FollowerSound(follower[r], new, Ended')
  <2>1. follower[r] \in FollowerStates /\ FollowerSound(follower[r], t, Ended)
    BY <1>2 DEF OutputInv, FollowersTyped, FollowersSound
  <2> QED BY <1>3, <2>1, FollowerKept
<1>5. FollowersSound'
  BY <1>2, <1>4 DEF FollowersSound
<1>6. FollowersTyped'
  BY DEF OutputInv, FollowersTyped, FollowerStates, RowStates
<1> QED BY <1>5, <1>6 DEF OutputInv

-----------------------------------------------------------------------------
\* Steps of the thread of the command.
LEMMA PieceIs == ASSUME NEW n \in Nat PROVE Output!Piece(n \div UnitsOfPiece + 1) \in Seq(Nat)
<1>1. UnitsOfPiece \in Nat /\ UnitsOfPiece > 0
  BY BoundsAssumption DEF BoundsAssumption
<1>2. PICK q : q = n \div UnitsOfPiece
  OBVIOUS
<1>3. q \in Nat
  BY <1>1, <1>2
<1>4. PICK base : base = UnitsOfPiece * ((q + 1) - 1)
  OBVIOUS
<1>5. base \in Nat
  BY <1>1, <1>3, <1>4
<1>6. [i \in 1..UnitsOfPiece |-> base + i] \in Seq(Nat)
  BY <1>1, <1>5
<1> QED BY <1>2, <1>4, <1>6 DEF Output!Piece

LEMMA EmitKeeps == ASSUME OutputInv, Output!Emit PROVE OutputInv'
<1>1. PICK piece : piece = Output!Piece(Len(printed) \div UnitsOfPiece + 1)
  OBVIOUS
<1>2. /\ worker = "running" /\ printed' = printed \o piece
      /\ UNCHANGED <<store, others, row, generation>>
      /\ \/ failures' = failures /\ chunks' = chunks \o piece /\ worker' \in {"signal", "running"}
         \/ failures' = failures + 1 /\ UNCHANGED <<chunks, worker>>
  BY <1>1 DEF Output!Emit, Output!Works, Output!Fails, Output!Quiet
<1>3. /\ printed \in Seq(Nat) /\ chunks \in Seq(Nat) /\ piece \in Seq(Nat) /\ failures \in Nat
      /\ row.state \in RowStates
  BY <1>1, PieceIs DEF OutputInv, OutputTyped
<1>4. row.state = "RUNNING" /\ ~Ended /\ row.output = <<>>
  BY <1>2, <1>3 DEF OutputInv, RowSound, RowStates, Ended
<1>5. /\ printed' \in Seq(Nat) /\ chunks' \in Seq(Nat) /\ Grows(chunks, chunks')
      /\ failures' \in Nat /\ (failures' = 0 => failures = 0 /\ chunks' = chunks \o piece)
  <2>1. printed \o piece \in Seq(Nat) /\ chunks \o piece \in Seq(Nat)
    BY <1>3
  <2>2. Grows(chunks, chunks \o piece) /\ Grows(chunks, chunks)
    BY <1>3, GrowsIs
  <2>3. failures' \in Nat /\ (failures' = 0 => failures = 0 /\ chunks' = chunks \o piece)
    BY <1>2, <1>3
  <2> QED BY <1>2, <1>3, <2>1, <2>2, <2>3
<1>6. OutputTyped'
  <2>1. worker' \in Writing
    BY <1>2 DEF Writing
  <2> QED BY <1>2, <1>5, <2>1 DEF OutputInv, OutputTyped, RowStates, Writing
<1>7. RowSound'
  BY <1>2, <1>4, <1>5 DEF OutputInv, RowSound, Writing, Ended
<1>8. TextKept
  <2>1. Output!Text = chunks /\ (Output!Text)' = chunks'
    <3>1. row'.state = "RUNNING"
      BY <1>2, <1>4
    <3>2. Output!Text = chunks
      BY <1>4, TextIs DEF OutputInv
    <3>3. (Output!Text)' = chunks'
      BY <1>6, <1>7, <3>1, TextRuns
    <3> QED BY <3>2, <3>3
  <2> QED BY <1>4, <1>5, <2>1 DEF TextKept
<1>9. UNCHANGED follower
  BY DEF Output!Emit, Output!Quiet
<1> QED BY <1>6, <1>7, <1>8, <1>9, OthersKept

\* Steps that write neither what is printed nor the row.
LEMMA QuietKeeps ==
    ASSUME OutputInv, UNCHANGED <<store, printed, chunks, row, follower>>, generation' \in Nat,
           failures' \in Nat, failures' = 0 => failures = 0,
           worker' \in Writing \cup {"announce", "done"},
           worker' \in Writing <=> worker \in Writing,
           failures' = 0 /\ worker' # worker => worker' \notin {"failEmpty", "broken", "gone"}
    PROVE  OutputInv'
<1>1. OutputTyped'
  BY DEF OutputInv, OutputTyped, RowStates, Writing
<1>2. RowSound'
  <2>1. {"announce", "done"} \cap Writing = {}
    BY DEF Writing
  <2>2. row.state = "RUNNING" => row.output = <<>> /\ worker \in Writing
    BY DEF OutputInv, RowSound
  <2>3. Ended => worker' \in {"announce", "done"}
    <3>1. Ended => worker \in {"announce", "done"}
      BY DEF OutputInv, RowSound
    <3> QED BY <2>1, <3>1
  <2>4. failures' = 0 => worker' \notin {"failEmpty", "broken", "gone"}
    BY DEF OutputInv, RowSound
  <2>5. (Output!Capped(printed))' = Output!Capped(printed)
    BY DEF Output!Capped
  <2> QED BY <2>2, <2>3, <2>4, <2>5 DEF OutputInv, RowSound, Ended, Writing
<1>3. TextKept
  <2>1. (Output!Text)' = Output!Text /\ Ended' = Ended
    BY DEF Output!Text, Ended
  <2>2. Output!Text \in Seq(Nat) /\ Grows(Output!Text, Output!Text)
    BY TextIs, GrowsIs DEF OutputInv
  <2> QED BY <2>1, <2>2 DEF TextKept
<1> QED BY <1>1, <1>2, <1>3, OthersKept

LEMMA SignalKeeps == ASSUME OutputInv, Output!Signal \/ Output!OtherSignal PROVE OutputInv'
<1>1. /\ UNCHANGED <<store, printed, chunks, row, follower, failures>> /\ generation' = generation + 1
      /\ \/ worker = "signal" /\ worker' = "running"
         \/ worker = "announce" /\ worker' = "done"
         \/ worker' = worker
  BY DEF Output!Signal, Output!OtherSignal, Output!Quiet, Output!Works
<1>2. generation' \in Nat /\ failures' \in Nat /\ worker \in Writing \cup {"announce", "done"}
  BY <1>1 DEF OutputInv, OutputTyped
<1> QED BY <1>1, <1>2, QuietKeeps DEF Writing

LEMMA CommandEndsKeeps == ASSUME OutputInv, NEW ok \in BOOLEAN, Output!CommandEnds(ok) PROVE OutputInv'
<1>1. /\ UNCHANGED <<store, printed, chunks, row, follower, failures, generation>>
      /\ worker = "running" /\ worker' \in {"ok", "error"}
  BY DEF Output!CommandEnds, Output!Quiet, Output!Works
<1>2. generation' \in Nat /\ failures' \in Nat
  BY <1>1 DEF OutputInv, OutputTyped
<1> QED BY <1>1, <1>2, QuietKeeps DEF Writing

LEMMA SynchroniseKeeps == ASSUME OutputInv, Output!Synchronise PROVE OutputInv'
<1>1. /\ worker \in {"ok", "error", "broken"} /\ UNCHANGED <<store, printed, row, generation, follower>>
      /\ \/ /\ failures' = failures /\ chunks' = IF chunks = <<>> THEN Output!Carried ELSE chunks
            /\ \/ worker = "ok" /\ worker' = "finish"
               \/ worker = "error" /\ worker' = "fail"
               \/ worker = "broken" /\ worker' = "failEmpty"
         \/ failures' = failures + 1 /\ chunks' = chunks /\ worker' \in {"broken", "gone"}
  BY DEF Output!Synchronise, Output!Works, Output!Fails, Output!Quiet
<1>2. /\ printed \in Seq(Nat) /\ chunks \in Seq(Nat) /\ failures \in Nat /\ row.state \in RowStates
  BY DEF OutputInv, OutputTyped
<1>3. row.state = "RUNNING" /\ ~Ended /\ row.output = <<>>
  BY <1>1, <1>2 DEF OutputInv, RowSound, RowStates, Ended
<1>4. Output!Carried \in Seq(Nat) /\ (worker # "broken" => Output!Carried = printed)
  BY <1>2 DEF Output!Carried
<1>5. chunks' \in Seq(Nat) /\ Grows(chunks, chunks')
  <2>1. Grows(chunks, chunks) /\ Grows(<<>>, Output!Carried)
    BY <1>2, <1>4, GrowsIs
  <2>2. chunks' = chunks \/ (chunks = <<>> /\ chunks' = Output!Carried)
    BY <1>1
  <2> QED BY <1>2, <1>4, <2>1, <2>2
<1>6. failures' \in Nat /\ worker' \in Writing
  BY <1>1, <1>2 DEF Writing
<1>7. failures' = 0 => chunks' = printed /\ worker' \notin {"failEmpty", "broken", "gone"}
  <2>1. failures' = 0 => failures = 0 /\ worker # "broken" /\ chunks = printed
    BY <1>1, <1>2 DEF OutputInv, RowSound
  <2> QED BY <1>1, <1>2, <1>4, <2>1
<1>8. OutputTyped'
  BY <1>1, <1>5, <1>6 DEF OutputInv, OutputTyped, RowStates, Writing
<1>9. RowSound'
  BY <1>1, <1>3, <1>6, <1>7 DEF RowSound, Ended, Writing
<1>10. TextKept
  <2>1. Output!Text = chunks
    BY <1>3, TextIs DEF OutputInv
  <2>2. (Output!Text)' = chunks'
    <3>1. row'.state = "RUNNING"
      BY <1>1, <1>3
    <3> QED BY <1>8, <1>9, <3>1, TextRuns
  <2> QED BY <1>3, <1>5, <2>1, <2>2 DEF TextKept
<1> QED BY <1>1, <1>8, <1>9, <1>10, OthersKept

LEMMA ConcludeKeeps == ASSUME OutputInv, Output!Conclude PROVE OutputInv'
<1>1. /\ worker \in {"finish", "fail", "failEmpty", "ok", "error", "broken"}
      /\ UNCHANGED <<store, printed, chunks, generation, follower>>
      /\ \/ /\ failures' = failures /\ worker' \in {"announce", "done"}
            /\ \E state \in {"FINISHED", "FAILED"}, output2 \in {<<>>, printed} :
                  /\ row' = [state |-> state, output |-> Output!Capped(output2)]
                  /\ state = "FINISHED" => output2 = printed
                  /\ worker \notin {"failEmpty", "broken"} => output2 = printed
         \/ failures' = failures + 1 /\ row' = row /\ worker' \in {"broken", "gone"}
  BY DEF Output!Conclude, Output!Concludes, Output!Works, Output!Fails, Output!Quiet
<1>2. /\ printed \in Seq(Nat) /\ chunks \in Seq(Nat) /\ failures \in Nat /\ row.state \in RowStates
      /\ generation \in Nat
  BY DEF OutputInv, OutputTyped
<1>3. row.state = "RUNNING" /\ ~Ended /\ row.output = <<>> /\ worker \in Writing
  BY <1>1, <1>2 DEF OutputInv, RowSound, RowStates, Ended, Writing
<1>4. CASE failures' = failures + 1 /\ row' = row /\ worker' \in {"broken", "gone"}
  <2>1. failures' \in Nat /\ failures' # 0 /\ worker' \in Writing
    BY <1>2, <1>4 DEF Writing
  <2> QED BY <1>1, <1>2, <1>3, <1>4, <2>1, QuietKeeps
<1>5. ASSUME NEW state \in {"FINISHED", "FAILED"}, NEW whole \in {<<>>, printed}, NEW text,
             text = Output!Capped(whole),
             row' = [state |-> state, output |-> text], state = "FINISHED" => whole = printed,
             worker \notin {"failEmpty", "broken"} => whole = printed,
             failures' = failures, worker' \in {"announce", "done"}
      PROVE  OutputInv'
  <2>1. text \in Seq(Nat) /\ row' \in [state : RowStates, output : Seq(Nat)]
        /\ row'.state = state /\ row'.output = text
    <3>1. <<>> \in Seq(Nat)
      OBVIOUS
    <3>2. whole \in Seq(Nat) /\ state \in RowStates
      BY <1>2, <3>1 DEF RowStates
    <3>3. text \in Seq(Nat)
      BY <1>5, <3>2, CappedIs
    <3> QED BY <1>5, <3>2, <3>3
  <2>2. OutputTyped'
    BY <1>1, <1>5, <2>1 DEF OutputInv, OutputTyped, RowStates, Writing
  <2>3. failures = 0 => chunks = printed /\ text = Output!Capped(printed)
    BY <1>5 DEF OutputInv, RowSound
  <2>9. (Output!Capped(printed))' = Output!Capped(printed)
    BY <1>1 DEF Output!Capped
  <2>4. RowSound'
    BY <1>1, <1>5, <2>1, <2>3, <2>9 DEF RowSound, Ended, Writing
  <2>5. (Output!Text)' \in {chunks, text} /\ ((Output!Text)' # chunks => chunks = <<>>)
    BY <1>1, <2>1 DEF Output!Text
  <2>6. Grows(chunks, chunks) /\ Grows(<<>>, text)
    BY <1>2, <2>1, GrowsIs
  <2>7. Output!Text = chunks
    BY <1>3, TextIs DEF OutputInv
  <2>8. TextKept
    <3>1. (Output!Text)' \in Seq(Nat) /\ Grows(chunks, (Output!Text)')
      BY <1>2, <2>1, <2>5, <2>6
    <3> QED BY <1>3, <2>7, <3>1 DEF TextKept
  <2> QED BY <1>1, <2>2, <2>4, <2>8, OthersKept
<1> QED BY <1>1, <1>4, <1>5

-----------------------------------------------------------------------------
\* Steps of the readers.
LEMMA MovesKeeps ==
    ASSUME OutputInv, NEW r \in Readers, NEW next \in FollowerStates,
           FollowerSound(next, Output!Text, Ended), Output!Moves(r, next)
    PROVE  OutputInv'
<1>1. UNCHANGED <<store, printed, chunks, row, generation, worker, failures>>
      /\ follower' = [follower EXCEPT ![r] = next]
  BY DEF Output!Moves, Output!Reads
<1>2. OutputTyped' /\ RowSound' /\ (Output!Text)' = Output!Text /\ Ended' = Ended
  <2>1. (Output!Text)' = Output!Text /\ Ended' = Ended
    BY <1>1 DEF Output!Text, Ended
  <2>2. OutputTyped'
    BY <1>1 DEF OutputInv, OutputTyped, RowStates, Writing
  <2>3. (Output!Capped(printed))' = Output!Capped(printed)
    BY <1>1 DEF Output!Capped
  <2>4. RowSound'
    BY <1>1, <2>1, <2>3 DEF OutputInv, RowSound, Writing
  <2> QED BY <2>1, <2>2, <2>4
<1>3. FollowersTyped'
  BY <1>1 DEF OutputInv, FollowersTyped, FollowerStates, RowStates
<1>4. FollowersSound'
  <2>1. PICK t, over : t = Output!Text /\ over = Ended
    OBVIOUS
  <2>2. ASSUME NEW q \in Readers PROVE FollowerSound(follower'[q], t, over)
    <3>1. CASE q = r
      <4>1. follower'[q] = next
        BY <1>1, <3>1 DEF OutputInv, FollowersTyped
      <4> QED BY <2>1, <4>1
    <3>2. CASE q # r
      <4>1. follower'[q] = follower[q]
        BY <1>1, <3>2 DEF OutputInv, FollowersTyped
      <4>2. FollowerSound(follower[q], t, over)
        BY <2>1 DEF OutputInv, FollowersSound
      <4> QED BY <4>1, <4>2
    <3> QED BY <3>1, <3>2
  <2>3. (Output!Text)' = t /\ Ended' = over
    BY <1>2, <2>1
  <2> QED BY <2>2, <2>3 DEF FollowersSound
<1> QED BY <1>2, <1>3, <1>4 DEF OutputInv

\* What is read is the part of the text that follows what the reader has.
LEMMA ReceivedIs ==
    ASSUME OutputInv, NEW r \in Readers
    PROVE  /\ Output!Received(r) \in Seq(Nat) /\ Len(Output!Received(r)) <= Len(Output!Text)
           /\ Output!Received(r) = SubSeq(Output!Text, 1, Len(Output!Received(r)))
           /\ Len(Output!Received(r)) >= Len(Output!Text) => Output!Received(r) = Output!Text
<1>1. PICK t, seen : t = Output!Text /\ seen = follower[r].text
  OBVIOUS
<1>2. /\ t \in Seq(Nat) /\ seen \in Seq(Nat) /\ Len(seen) <= Len(t) /\ seen = SubSeq(t, 1, Len(seen))
      /\ Len(seen) \in Nat /\ Len(t) \in Nat
  <2>1. t \in Seq(Nat)
    BY <1>1, TextIs DEF OutputInv
  <2>2. follower[r] \in FollowerStates /\ FollowerSound(follower[r], t, Ended)
    BY <1>1 DEF OutputInv, FollowersTyped, FollowersSound
  <2>3. seen \in Seq(Nat) /\ Len(seen) <= Len(t) /\ seen = SubSeq(t, 1, Len(seen))
    BY <1>1, <2>2 DEF FollowerStates, FollowerSound
  <2> QED BY <2>1, <2>3
<1>3. PICK k : k = IF Len(seen) + ReadSize < Len(t) THEN Len(seen) + ReadSize ELSE Len(t)
  OBVIOUS
<1>4. k \in Len(seen)..Len(t)
  BY <1>2, <1>3, BoundsAssumption DEF BoundsAssumption
<1>5. Output!Received(r) = seen \o SubSeq(t, Len(seen) + 1, k)
  BY <1>1, <1>3 DEF Output!Received, Output!Delta, Output!Cursor
<1>6. seen \o SubSeq(t, Len(seen) + 1, k) = SubSeq(t, 1, k)
  <2>1. 1 \in 1..(Len(t) + 1) /\ Len(seen) \in (1 - 1)..Len(t) /\ k \in Len(seen)..Len(t)
    BY <1>2, <1>4
  <2>2. SubSeq(t, 1, Len(seen)) \o SubSeq(t, Len(seen) + 1, k) = SubSeq(t, 1, k)
    BY <1>2, <2>1, ConcatAdjacentSubSeq
  <2> QED BY <1>2, <2>2
<1>7. SubSeq(t, 1, k) \in Seq(Nat) /\ Len(SubSeq(t, 1, k)) = k
  BY <1>2, <1>4
<1>8. SubSeq(t, 1, Len(t)) = t
  BY <1>2, SubSeqFull
<1>9. PICK part2 : part2 = SubSeq(t, 1, k)
  OBVIOUS
<1>10. /\ part2 \in Seq(Nat) /\ Len(part2) = k /\ k <= Len(t) /\ part2 = SubSeq(t, 1, Len(part2))
       /\ Len(part2) >= Len(t) => part2 = t
  <2>1. part2 \in Seq(Nat) /\ Len(part2) = k
    BY <1>7, <1>9
  <2>2. k <= Len(t) /\ (k >= Len(t) => k = Len(t))
    BY <1>2, <1>4
  <2>3. k = Len(t) => part2 = t
    BY <1>8, <1>9
  <2> QED BY <1>9, <2>1, <2>2, <2>3
<1>11. Output!Received(r) = part2
  BY <1>5, <1>6, <1>9
<1> QED BY <1>1, <1>10, <1>11

LEMMA ReturnsKeeps ==
    ASSUME OutputInv, NEW r \in Readers, NEW state, NEW timedOut \in BOOLEAN,
           state \in {"FINISHED", "FAILED"} => Ended, Output!Returns(r, state, timedOut)
    PROVE  OutputInv'
<1>1. PICK got2 : got2 = Output!Received(r)
  OBVIOUS
<1>2. PICK place : place = IF state \in Output!Concluded /\ Len(got2) >= Len(Output!Text) THEN "eof" ELSE "start"
  OBVIOUS
<1>3. PICK next : next = [follower[r] EXCEPT !.text = got2, !.timedOut = timedOut, !.at = place]
  OBVIOUS
<1>4. Output!Moves(r, next)
  BY <1>1, <1>2, <1>3 DEF Output!Returns
<1>5. follower[r] \in FollowerStates /\ FollowerSound(follower[r], Output!Text, Ended)
  BY DEF OutputInv, FollowersTyped, FollowersSound
<1>6. /\ got2 \in Seq(Nat) /\ Len(got2) <= Len(Output!Text) /\ got2 = SubSeq(Output!Text, 1, Len(got2))
      /\ Len(got2) >= Len(Output!Text) => got2 = Output!Text
  BY <1>1, ReceivedIs
<1>7. /\ next \in FollowerStates /\ next.text = got2 /\ next.at = place /\ next.state = follower[r].state
  <2>1. place \in {"eof", "start"}
    BY <1>2
  <2> QED BY <1>3, <1>5, <1>6, <2>1 DEF FollowerStates
<1>8. place = "eof" => Ended /\ got2 = Output!Text
  BY <1>2, <1>6 DEF Output!Concluded
<1>9. FollowerSound(next, Output!Text, Ended)
  BY <1>5, <1>6, <1>7, <1>8 DEF FollowerSound
<1> QED BY <1>4, <1>7, <1>9, MovesKeeps

\* A step that only changes where a reader is and what it knows of the row.
LEMMA PlaceKeeps ==
    ASSUME OutputInv, NEW r \in Readers,
           NEW place \in {"start", "read", "check", "waiting", "last", "chunks"},
           NEW n \in Nat, NEW state \in RowStates, state \in {"FINISHED", "FAILED"} => Ended,
           Output!Moves(r, [follower[r] EXCEPT !.at = place, !.generation = n, !.state = state])
    PROVE  OutputInv'
<1>1. PICK next : next = [follower[r] EXCEPT !.at = place, !.generation = n, !.state = state]
  OBVIOUS
<1>2. follower[r] \in FollowerStates /\ FollowerSound(follower[r], Output!Text, Ended)
  BY DEF OutputInv, FollowersTyped, FollowersSound
<1>3. /\ next \in FollowerStates /\ next.text = follower[r].text /\ next.at = place /\ next.state = state
  BY <1>1, <1>2 DEF FollowerStates
<1>4. FollowerSound(next, Output!Text, Ended)
  BY <1>2, <1>3 DEF FollowerSound
<1> QED BY <1>1, <1>3, <1>4, MovesKeeps

LEMMA GoesKeeps ==
    ASSUME OutputInv, NEW r \in Readers,
           NEW place \in {"start", "read", "check", "waiting", "last", "chunks"}, Output!Goes(r, place)
    PROVE  OutputInv'
<1>1. follower[r] \in FollowerStates /\ FollowerSound(follower[r], Output!Text, Ended)
  BY DEF OutputInv, FollowersTyped, FollowersSound
<1>2. PICK n, state : n = follower[r].generation /\ state = follower[r].state
  OBVIOUS
<1>3. n \in Nat /\ state \in RowStates /\ (state \in {"FINISHED", "FAILED"} => Ended)
  BY <1>1, <1>2 DEF FollowerStates, FollowerSound
<1>4. [follower[r] EXCEPT !.at = place] = [follower[r] EXCEPT !.at = place, !.generation = n, !.state = state]
  BY <1>1, <1>2 DEF FollowerStates
<1>5. Output!Moves(r, [follower[r] EXCEPT !.at = place, !.generation = n, !.state = state])
  BY <1>4 DEF Output!Goes
<1> QED BY <1>3, <1>5, PlaceKeeps

LEMMA FollowKeeps ==
    ASSUME OutputInv, NEW r \in Readers, Output!Follow(r) \/ Output!Timeout(r)
    PROVE  OutputInv'
<1>0. follower[r] \in FollowerStates /\ FollowerSound(follower[r], Output!Text, Ended) /\ generation \in Nat
      /\ row.state \in RowStates
  BY DEF OutputInv, FollowersTyped, FollowersSound, OutputTyped
<1>1. CASE Output!Snapshot(r)
  <2>1. PICK state : state = follower[r].state
    OBVIOUS
  <2>2. state \in RowStates /\ (state \in {"FINISHED", "FAILED"} => Ended)
    BY <1>0, <2>1 DEF FollowerStates, FollowerSound
  <2>3. [follower[r] EXCEPT !.at = "read", !.generation = generation]
            = [follower[r] EXCEPT !.at = "read", !.generation = generation, !.state = state]
    BY <1>0, <2>1 DEF FollowerStates
  <2>4. Output!Moves(r, [follower[r] EXCEPT !.at = "read", !.generation = generation, !.state = state])
    BY <1>1, <2>3 DEF Output!Snapshot
  <2> QED BY <1>0, <2>2, <2>4, PlaceKeeps
<1>2. CASE Output!ReadOnce(r)
  <2>1. Output!Returns(r, row.state, FALSE) \/ Output!Returns(r, row.state, TRUE) \/ Output!Goes(r, "check")
    BY <1>2 DEF Output!ReadOnce
  <2>2. row.state \in {"FINISHED", "FAILED"} => Ended
    BY DEF Ended
  <2> QED BY <2>1, <2>2, ReturnsKeeps, GoesKeeps
<1>3. CASE Output!Check(r)
  <2>1. Output!Goes(r, "start") \/ Output!Goes(r, "waiting")
    BY <1>3 DEF Output!Check
  <2> QED BY <2>1, GoesKeeps
<1>4. CASE Output!Wake(r) \/ Output!Timeout(r)
  <2>1. Output!Goes(r, "start") \/ Output!Goes(r, "last")
    BY <1>4 DEF Output!Wake, Output!Timeout
  <2> QED BY <2>1, GoesKeeps
<1>5. CASE Output!LastRead(r)
  <2>1. PICK late : late = ~Output!HasEvent(r)
    OBVIOUS
  <2>2. late \in BOOLEAN
    BY <2>1
  <2>3. Output!Returns(r, row.state, late)
    BY <1>5, <2>1 DEF Output!LastRead
  <2>4. row.state \in {"FINISHED", "FAILED"} => Ended
    BY DEF Ended
  <2> QED BY <2>2, <2>3, <2>4, ReturnsKeeps
<1>6. CASE Output!ReadRow(r)
  <2>1. PICK n : n = follower[r].generation
    OBVIOUS
  <2>2. n \in Nat
    BY <1>0, <2>1 DEF FollowerStates
  <2>3. [follower[r] EXCEPT !.at = "chunks", !.state = row.state]
            = [follower[r] EXCEPT !.at = "chunks", !.generation = n, !.state = row.state]
    BY <1>0, <2>1 DEF FollowerStates
  <2>4. Output!Moves(r, [follower[r] EXCEPT !.at = "chunks", !.generation = n, !.state = row.state])
    BY <1>6, <2>3 DEF Output!ReadRow
  <2>5. row.state \in {"FINISHED", "FAILED"} => Ended
    BY DEF Ended
  <2> QED BY <1>0, <2>2, <2>4, <2>5, PlaceKeeps
<1>7. CASE Output!ReadChunks(r)
  <2>1. Output!Returns(r, follower[r].state, FALSE)
    BY <1>7 DEF Output!ReadChunks
  <2>2. follower[r].state \in {"FINISHED", "FAILED"} => Ended
    BY <1>0 DEF FollowerSound
  <2> QED BY <2>1, <2>2, ReturnsKeeps
<1> QED BY <1>1, <1>2, <1>3, <1>4, <1>5, <1>6, <1>7 DEF Output!Follow

-----------------------------------------------------------------------------
LEMMA OutputInit == Output!Init => OutputInv
<1> SUFFICES ASSUME Output!Init PROVE OutputInv
  OBVIOUS
<1> USE DEF Output!Init
<1>1. <<>> \in Seq(Nat) /\ Len(<<>>) = 0 /\ SubSeq(<<>>, 1, 0) = <<>>
  OBVIOUS
<1>2. row \in [state : RowStates, output : Seq(Nat)] /\ row.state = "RUNNING" /\ row.output = <<>>
  BY <1>1 DEF RowStates
<1>3. OutputTyped
  BY <1>1, <1>2 DEF OutputTyped, Writing
<1>4. FollowersTyped
  BY <1>1 DEF FollowersTyped, FollowerStates, RowStates
<1>5. RowSound
  BY <1>2 DEF RowSound, Ended, Writing
<1>6. FollowersSound
  <2>1. Output!Text = <<>>
    BY <1>2 DEF Output!Text
  <2>2. ASSUME NEW r \in Readers PROVE FollowerSound(follower[r], <<>>, Ended)
    <3>1. follower[r].text = <<>> /\ follower[r].at = "start" /\ follower[r].state = "RUNNING"
      OBVIOUS
    <3>2. Len(follower[r].text) = 0
      BY <1>1, <3>1
    <3>3. follower[r].text = SubSeq(<<>>, 1, Len(follower[r].text))
      BY <1>1, <3>1, <3>2
    <3> QED BY <1>1, <3>1, <3>2, <3>3 DEF FollowerSound
  <2> QED BY <2>1, <2>2 DEF FollowersSound
<1> QED BY <1>3, <1>4, <1>5, <1>6 DEF OutputInv

LEMMA OutputStep == ASSUME OutputInv, Output!Next PROVE OutputInv'
<1>1. CASE Output!Worker
  BY <1>1, EmitKeeps, SignalKeeps, CommandEndsKeeps, SynchroniseKeeps, ConcludeKeeps DEF Output!Worker
<1>2. CASE Output!OtherSignal
  BY <1>2, SignalKeeps
<1>3. CASE \E r \in Readers : Output!Follow(r) \/ Output!Timeout(r)
  BY <1>3, FollowKeeps
<1> QED BY <1>1, <1>2, <1>3 DEF Output!Next

LEMMA OutputImplies == ASSUME OutputInv PROVE Output!TypeOK /\ Output!NothingIsLost
<1>1. Output!TypeOK
  <2>1. ASSUME NEW r \in Readers
        PROVE  follower[r].at \in {"start", "read", "check", "waiting", "last", "chunks", "eof"}
    BY DEF OutputInv, FollowersTyped, FollowerStates
  <2>2. printed \in Seq(Nat) /\ chunks \in Seq(Nat) /\ row.state \in RowStates
    BY DEF OutputInv, OutputTyped
  <2> QED BY <2>1, <2>2 DEF Output!TypeOK, Output!Concluded, RowStates
<1>2. Output!NothingIsLost
  <2>1. row.state = "FINISHED" => \E n \in 0..Len(printed) :
           /\ row.output = SubSeq(printed, n + 1, Len(printed))
           /\ n > 0 => store = "external" /\ Len(row.output) = MaxFinal
    <3>1. printed \in Seq(Nat) /\ (row.state = "FINISHED" => row.output = Output!Capped(printed))
      BY DEF OutputInv, OutputTyped, RowSound
    <3> QED BY <3>1, CappedIs
  <2>2. ASSUME NEW r \in Readers
        PROVE  /\ Output!Cursor(r) <= Len(Output!Text)
               /\ follower[r].text = SubSeq(Output!Text, 1, Output!Cursor(r))
               /\ Output!At(r, "eof") => Ended /\ follower[r].text = Output!Text
    BY DEF OutputInv, FollowersSound, FollowerSound, Output!Cursor, Output!At
  <2>3. ASSUME NEW r \in Readers, Output!At(r, "eof"), failures = 0 PROVE follower[r].text = printed
    BY <2>2, <2>3, TextIs DEF OutputInv
  <2> QED BY <2>1, <2>2, <2>3 DEF Output!NothingIsLost, Output!Concluded, Ended
<1> QED BY <1>1, <1>2

LEMMA OutputRests == ASSUME OutputInv, UNCHANGED output PROVE OutputInv'
<1>1. UNCHANGED <<store, printed, chunks, row, follower, generation, failures, worker>>
  BY DEF output
<1>2. generation' \in Nat /\ failures' \in Nat /\ worker \in Writing \cup {"announce", "done"}
  BY <1>1 DEF OutputInv, OutputTyped
<1> QED BY <1>1, <1>2, QuietKeeps

-----------------------------------------------------------------------------
(* The services together.                                                    *)

ServicesInv == OutputInv /\ TurnInv /\ ConnectionInv /\ ProcessInv /\ ChannelInv

\* Every service starts as its own initial condition says.
LEMMA ServicesInit == Init => ServicesInv
  BY OutputInit, TurnInit, ConnectionInit, ProcessInit, ChannelInit DEF Init, ServicesInv

\* A step is one of a single service, and the others rest.
LEMMA ServicesStep == ASSUME ServicesInv, [Next]_vars PROVE ServicesInv'
<1>1. OutputInv'
  <2>1. Output!Next \/ UNCHANGED output
    BY DEF Next, vars
  <2> QED BY <2>1, OutputStep, OutputRests DEF ServicesInv
<1>2. TurnInv'
  <2>1. Turn!Next \/ UNCHANGED timer
    BY DEF Next, vars
  <2> QED BY <2>1, TurnStep, TurnRests DEF ServicesInv
<1>3. ConnectionInv'
  <2>1. Connection!Next \/ UNCHANGED connection
    BY DEF Next, vars
  <2> QED BY <2>1, ConnectionStep, ConnectionRests DEF ServicesInv
<1>4. ProcessInv'
  <2>1. Processes!Next \/ UNCHANGED processes
    BY DEF Next, vars
  <2> QED BY <2>1, ProcessStep, ProcessRests DEF ServicesInv
<1>5. ChannelInv'
  <2>1. Channel!ChannelNext \/ UNCHANGED channel
    BY DEF Next, vars
  <2> QED BY <2>1, ChannelStep, ChannelRests DEF ServicesInv
<1> QED BY <1>1, <1>2, <1>3, <1>4, <1>5 DEF ServicesInv

LEMMA ServicesImply ==
    ASSUME ServicesInv
    PROVE  /\ NothingIsLost /\ GateIsTimely /\ CallsReachTheBridge /\ OnlyOrphansAreStopped
           /\ ChannelKeepsInStep
<1>1. NothingIsLost
  BY OutputImplies DEF ServicesInv, NothingIsLost
<1>2. GateIsTimely
  BY TurnImplies DEF ServicesInv, GateIsTimely
<1>3. CallsReachTheBridge
  BY ConnectionImplies DEF ServicesInv, CallsReachTheBridge
<1>4. OnlyOrphansAreStopped
  BY ProcessImplies DEF ServicesInv, OnlyOrphansAreStopped
<1>5. ChannelKeepsInStep
  BY ChannelImplies DEF ServicesInv, ChannelKeepsInStep
<1> QED BY <1>1, <1>2, <1>3, <1>4, <1>5

\* Every service keeps its inductive invariant, for any number of clients,
\* processes, commands, failures and restarts.
THEOREM ServicesAreSound == FairSpec => []ServicesInv
<1>1. Init => ServicesInv
  BY ServicesInit
<1>2. ServicesInv /\ [Next]_vars => ServicesInv'
  BY ServicesStep
<1> QED BY <1>1, <1>2, PTL DEF FairSpec

\* Readers of a command's output have its beginning at every moment and all that
\* is stored when they are told eof (append_output, sync_output, read_output and
\* phase5f_wait_execution_output), and a FINISHED row has what was printed, or the
\* last of it as long as the cap (_cap_output), for any number of readers, pieces
\* and failed writes, any size of a piece, any max_chars and any cap.
THEOREM OutputIsNotLost == FairSpec => []NothingIsLost
<1>1. ServicesInv => NothingIsLost
  BY ServicesImply
<1> QED BY <1>1, ServicesAreSound, PTL

\* New work is admitted or refused by what was true while it was asked, and a
\* turn ends once (TurnTimer and the companion server), for any number of
\* callers, questions, tabs and turns.
THEOREM GateAnswersInTime == FairSpec => []GateIsTimely
<1>1. ServicesInv => GateIsTimely
  BY ServicesImply
<1> QED BY <1>1, ServicesAreSound, PTL

\* A request reaches the bridge whose runtime.json was read, over a connection
\* no other thread uses (the runtime client and its pool), for any number of
\* threads, replaced bridges and requests and any size of the pool.
THEOREM CallsFindTheirBridge == FairSpec => []CallsReachTheBridge
<1>1. ServicesInv => CallsReachTheBridge
  BY ServicesImply
<1> QED BY <1>1, ServicesAreSound, PTL

\* The manager of the stack stops nothing a living bridge owns, that of the tunnel
\* nothing of its own bridge and of another's only behind an ancestor it could not
\* read or under a pid used again since (_terminate_pids, _existing_tunnel_info,
\* _terminate_pid), and a failed start leaves nothing behind, for any set of pids
\* and any number of restarts.
THEOREM OrphansAloneAreStopped == FairSpec => []OnlyOrphansAreStopped
<1>1. ServicesInv => OnlyOrphansAreStopped
  BY ServicesImply
<1> QED BY <1>1, ServicesAreSound, PTL

\* The control pipe hands on the messages of the scripts whole and in order
\* however its reads cut the bytes, and a command begins on the answer to its
\* own BEGIN whatever an interruption left in the pipe.
THEOREM ChannelStaysInStep == FairSpec => []ChannelKeepsInStep
<1>1. ServicesInv => ChannelKeepsInStep
  BY ServicesImply
<1> QED BY <1>1, ServicesAreSound, PTL

-----------------------------------------------------------------------------
(* The switch of generations is safe for any number of candidates, drivers    *)
(* and requests and any number of failures.  The lock is held by the driver    *)
(* that stands between two writes, and where it stands tells what the files    *)
(* say; readers exclude that driver; and with no transition pending the        *)
(* pointer names a generation that may be served.                              *)

HolderStandsInside == \A d \in Drivers : writer = d <=> step[d] \in Locked

FilesMatchStep ==
    \A d \in Drivers :
        /\ step[d] # "idle" => subject[d] \in Candidates
        /\ step[d] = "journal" => journal = None /\ pointer = Legacy
        /\ step[d] = "switch" => journal = subject[d] /\ pointer = Legacy
        /\ step[d] \in {"verify", "commit", "archive"} =>
              journal = subject[d] /\ pointer = subject[d]
        /\ step[d] = "rv_journal" => journal = None /\ pointer = subject[d]
        /\ step[d] = "unlink" => journal = subject[d] /\ pointer = Legacy
        /\ step[d] \in Locked \ {"unlink"} => subject[d] \notin archived
        /\ step[d] = "commit" => subject[d] \in verified

ReadersExcludeWriter ==
    \A r \in Requests :
        /\ pin[r] # None => writer = None /\ journal = None /\ pin[r] = pointer
        /\ wpin[r] # None => writer = None /\ journal = None /\ wpin[r] = pointer

ServableUnlessPending ==
    /\ journal = None /\ pointer # Legacy => pointer \in verified
    /\ pointer \notin archived

TransitionInv ==
    /\ TypeOK
    /\ HolderStandsInside
    /\ FilesMatchStep
    /\ ReadersExcludeWriter
    /\ ServableUnlessPending
    /\ PendingIsRecoverable

\* Nothing is journaled or active at first.
LEMMA TransitionInitInv == TransitionInit => TransitionInv
  BY NamesAssumption
  DEF TransitionInit, TransitionInv, TypeOK, HolderStandsInside, FilesMatchStep, ReadersExcludeWriter,
      ServableUnlessPending, PendingIsRecoverable, Generations, Locked, Unlocked

\* Every step of a driver on its way forward keeps the invariant.
LEMMA PublishInv ==
    ASSUME TransitionInv, NEW d \in Drivers, Publish(d)
    PROVE  TransitionInv'
<1> USE NamesAssumption, SoundAssumption
    DEF TransitionInv, TypeOK, HolderStandsInside, FilesMatchStep, ReadersExcludeWriter,
        ServableUnlessPending, PendingIsRecoverable, Generations, Locked, Unlocked,
        Goto, Release, Report, LockIsFree, files, readers
<1>1. CASE Admit(d)
  BY <1>1 DEF Admit
<1>2. CASE Refused(d) \/ CandidateDisproved(d)
  BY <1>2 DEF Refused, CandidateDisproved
<1>3. CASE WriteJournal(d)
  BY <1>3 DEF WriteJournal
<1>4. CASE SwitchPointer(d)
  BY <1>4 DEF SwitchPointer
<1>5. CASE VerifyTarget(d)
  BY <1>5 DEF VerifyTarget
<1>6. CASE VerificationFails(d)
  BY <1>6 DEF VerificationFails
<1>7. CASE Commit(d)
  BY <1>7 DEF Commit
<1>8. CASE ProveCandidate(d)
  BY <1>8 DEF ProveCandidate
<1> QED
  BY <1>1, <1>2, <1>3, <1>4, <1>5, <1>6, <1>7, <1>8 DEF Publish

\* So does every step of a driver on its way back.
LEMMA GoBackInv ==
    ASSUME TransitionInv, NEW d \in Drivers, GoBack(d)
    PROVE  TransitionInv'
<1> USE NamesAssumption
    DEF TransitionInv, TypeOK, HolderStandsInside, FilesMatchStep, ReadersExcludeWriter,
        ServableUnlessPending, PendingIsRecoverable, Generations, Locked, Unlocked,
        Goto, Release, Report, LockIsFree, files, readers
<1>1. CASE Decide(d) \/ Look(d)
  BY <1>1 DEF Decide, Look
<1>2. CASE Rollback(d)
  BY <1>2 DEF Rollback, MayRollback
<1>3. CASE RollbackRefused(d) \/ RevertRefused(d)
  BY <1>3 DEF RollbackRefused, RevertRefused
<1>4. CASE Revert(d)
  BY <1>4 DEF Revert, MayRevert
<1>5. CASE JournalRevert(d)
  BY <1>5 DEF JournalRevert
<1>6. CASE ArchivePointer(d)
  BY <1>6 DEF ArchivePointer
<1>7. CASE Unlink(d)
  BY <1>7 DEF Unlink
<1>8. CASE ProveLegacy(d) \/ LegacyDisproved(d)
  BY <1>8 DEF ProveLegacy, LegacyDisproved
<1> QED
  BY <1>1, <1>2, <1>3, <1>4, <1>5, <1>6, <1>7, <1>8 DEF GoBack

\* Starting and failing: what a driver leaves behind is a state to recover from.
LEMMA DriverInv ==
    ASSUME TransitionInv, NEW d \in Drivers,
           \/ \E g \in {"release", "trial"}, c \in Candidates : Prepare(d, g, c)
           \/ \E c \in Candidates : Reconcile(d, c)
           \/ Raise(d)
           \/ DriverDies(d)
    PROVE  TransitionInv'
<1> USE NamesAssumption
    DEF TransitionInv, TypeOK, HolderStandsInside, FilesMatchStep, ReadersExcludeWriter,
        ServableUnlessPending, PendingIsRecoverable, Generations, Locked, Unlocked,
        Goto, Release, Report, Fail, files, readers
<1>1. ASSUME NEW g \in {"release", "trial"}, NEW c \in Candidates, Prepare(d, g, c)
      PROVE  TransitionInv'
  BY <1>1 DEF Prepare
<1>2. ASSUME NEW c \in Candidates, Reconcile(d, c) PROVE TransitionInv'
  BY <1>2 DEF Reconcile
<1>3. CASE Raise(d)
  BY <1>3, FaultsAssumption DEF Raise
<1>4. CASE DriverDies(d)
  BY <1>4, FaultsAssumption DEF DriverDies
<1> QED
  BY <1>1, <1>2, <1>3, <1>4

\* Readers pin what is served, and leave.
LEMMA ReaderInv ==
    ASSUME TransitionInv,
           \/ \E r \in Requests : StartRead(r) \/ Reader(r)
           \/ ServerDies
           \/ UNCHANGED transition
    PROVE  TransitionInv'
<1> USE NamesAssumption, FaultsAssumption
    DEF TransitionInv, TypeOK, HolderStandsInside, FilesMatchStep, ReadersExcludeWriter,
        ServableUnlessPending, PendingIsRecoverable, Generations, Fail, MayRead,
        files, drivers, readers
<1>1. ASSUME NEW r \in Requests, StartRead(r) PROVE TransitionInv'
  BY <1>1 DEF StartRead
<1>2. ASSUME NEW r \in Requests, StartWorker(r) \/ WorkerPins(r) PROVE TransitionInv'
  BY <1>2 DEF StartWorker, WorkerPins
<1>3. ASSUME NEW r \in Requests, WorkerEnds(r) \/ CollectWorker(r) \/ FinishRead(r)
      PROVE  TransitionInv'
  BY <1>3 DEF WorkerEnds, CollectWorker, FinishRead
<1>4. CASE ServerDies
  BY <1>4 DEF ServerDies
<1>5. CASE UNCHANGED transition
  BY <1>5 DEF transition
<1> QED
  BY <1>1, <1>2, <1>3, <1>4, <1>5 DEF Reader

\* The invariant is inductive.
LEMMA TransitionStepInv == TransitionInv /\ [TransitionNext]_transition => TransitionInv'
<1> SUFFICES ASSUME TransitionInv, [TransitionNext]_transition PROVE TransitionInv'
  OBVIOUS
<1>1. ASSUME NEW d \in Drivers, NEW c \in Candidates,
             (\E g \in {"release", "trial"} : Prepare(d, g, c)) \/ Reconcile(d, c)
      PROVE  TransitionInv'
  BY <1>1, DriverInv
<1>2. ASSUME NEW d \in Drivers, Publish(d) \/ GoBack(d) \/ Raise(d) \/ DriverDies(d)
      PROVE  TransitionInv'
  BY <1>2, DriverInv, PublishInv, GoBackInv
<1>3. CASE \/ \E r \in Requests : StartRead(r) \/ Reader(r)
           \/ ServerDies
           \/ UNCHANGED transition
  BY <1>3, ReaderInv
<1> QED
  BY <1>1, <1>2, <1>3 DEF TransitionNext

\* The invariant holds in every state.
THEOREM TransitionInvariance == Transition => []TransitionInv
  BY TransitionInitInv, TransitionStepInv, PTL DEF Transition

\* Every variable keeps its type.
THEOREM TransitionTypeCorrect == Transition => []TypeOK
<1>1. TransitionInv => TypeOK
  BY DEF TransitionInv
<1> QED
  BY <1>1, TransitionInvariance, PTL

\* No reader sees a pending transition, a generation that is no longer the
\* active one, or one that was not verified.
THEOREM ReadersAreSafe == Transition => []ReadersSeeServedGeneration
<1>1. TransitionInv => ReadersSeeServedGeneration
  BY DEF TransitionInv, ReadersExcludeWriter, ServableUnlessPending, ReadersSeeServedGeneration
<1> QED
  BY <1>1, TransitionInvariance, PTL

\* Wherever a transition is interrupted, it can be rolled back.
THEOREM InterruptedIsRecoverable == Transition => []PendingIsRecoverable
<1>1. TransitionInv => PendingIsRecoverable
  BY DEF TransitionInv
<1> QED
  BY <1>1, TransitionInvariance, PTL

-----------------------------------------------------------------------------
(* Which steps touch the files: the rest of the section is about these.      *)

\* A step leaves the files alone or is one of the seven that write one.
LEMMA WhoWrites ==
    ASSUME TransitionInv, [TransitionNext]_transition
    PROVE  \/ UNCHANGED files
           \/ \E d \in Drivers :
                 \/ WriteJournal(d) \/ SwitchPointer(d) \/ VerifyTarget(d) \/ Commit(d)
                 \/ JournalRevert(d) \/ ArchivePointer(d) \/ Unlink(d)
<1>1. ASSUME NEW d \in Drivers, NEW c \in Candidates, NEW g \in {"release", "trial"},
             Prepare(d, g, c)
      PROVE  UNCHANGED files
  BY <1>1 DEF Prepare
<1>2. ASSUME NEW d \in Drivers, NEW c \in Candidates, Reconcile(d, c) PROVE UNCHANGED files
  BY <1>2 DEF Reconcile
<1>3. ASSUME NEW d \in Drivers, Publish(d)
      PROVE  \/ UNCHANGED files
             \/ WriteJournal(d) \/ SwitchPointer(d) \/ VerifyTarget(d) \/ Commit(d)
  BY <1>3 DEF Publish, Admit, Refused, VerificationFails, ProveCandidate, CandidateDisproved
<1>4. ASSUME NEW d \in Drivers, GoBack(d)
      PROVE  \/ UNCHANGED files
             \/ JournalRevert(d) \/ ArchivePointer(d) \/ Unlink(d)
  BY <1>4 DEF GoBack, Decide, Look, Rollback, RollbackRefused, Revert, RevertRefused,
      ProveLegacy, LegacyDisproved
<1>5. ASSUME NEW d \in Drivers, Raise(d) \/ DriverDies(d) PROVE UNCHANGED files
  BY <1>5 DEF Raise, DriverDies
<1>6. ASSUME NEW r \in Requests, StartRead(r) \/ Reader(r) PROVE UNCHANGED files
  BY <1>6 DEF Reader, StartRead, StartWorker, WorkerPins, WorkerEnds, CollectWorker, FinishRead
<1>7. CASE ServerDies
  BY <1>7 DEF ServerDies
<1>8. CASE UNCHANGED transition
  BY <1>8 DEF transition
<1> QED
  BY <1>1, <1>2, <1>3, <1>4, <1>5, <1>6, <1>7, <1>8 DEF TransitionNext

\* Only readers, or the death of their server, pin and unpin.
LEMMA OnlyReadersTouchReaders ==
    ASSUME [TransitionNext]_transition
    PROVE  \/ UNCHANGED readers
           \/ (\E r \in Requests : StartRead(r) \/ Reader(r)) \/ ServerDies
<1>1. ASSUME NEW d \in Drivers, NEW c \in Candidates, NEW g \in {"release", "trial"},
             Prepare(d, g, c)
      PROVE  UNCHANGED readers
  BY <1>1 DEF Prepare
<1>2. ASSUME NEW d \in Drivers, NEW c \in Candidates, Reconcile(d, c) PROVE UNCHANGED readers
  BY <1>2 DEF Reconcile
<1>3. ASSUME NEW d \in Drivers, Publish(d) PROVE UNCHANGED readers
  BY <1>3 DEF Publish, Admit, Refused, WriteJournal, SwitchPointer, VerifyTarget,
      VerificationFails, Commit, ProveCandidate, CandidateDisproved
<1>4. ASSUME NEW d \in Drivers, GoBack(d) PROVE UNCHANGED readers
  BY <1>4 DEF GoBack, Decide, Look, Rollback, RollbackRefused, Revert, RevertRefused,
      JournalRevert, ArchivePointer, Unlink, ProveLegacy, LegacyDisproved
<1>5. ASSUME NEW d \in Drivers, Raise(d) \/ DriverDies(d) PROVE UNCHANGED readers
  BY <1>5 DEF Raise, DriverDies
<1>6. UNCHANGED transition => UNCHANGED readers
  BY DEF transition
<1> QED
  BY <1>1, <1>2, <1>3, <1>4, <1>5, <1>6 DEF TransitionNext

\* A driver that writes holds the lock, so nobody reads.
LEMMA WriterIsAlone ==
    ASSUME TransitionInv, NEW d \in Drivers, step[d] \in Locked
    PROVE  writer = d /\ \A r \in Requests : pin[r] = None /\ wpin[r] = None
BY NamesAssumption DEF TransitionInv, TypeOK, HolderStandsInside, ReadersExcludeWriter

\* A candidate that was taken back never becomes active again.
THEOREM ConsumedCandidatesStayConsumed == Transition => ConsumedForGood
<1>1. ASSUME TransitionInv, [TransitionNext]_transition
      PROVE  archived \subseteq archived' /\ \A c \in archived : pointer' # c
  <2> USE DEF TransitionInv, TypeOK, FilesMatchStep, ServableUnlessPending
  <2>1. CASE UNCHANGED files
    BY <1>1, <2>1 DEF files
  <2>2. ASSUME NEW d \in Drivers, SwitchPointer(d)
        PROVE  archived \subseteq archived' /\ \A c \in archived : pointer' # c
    BY <1>1, <2>2 DEF SwitchPointer, Locked
  <2>3. ASSUME NEW d \in Drivers, ArchivePointer(d)
        PROVE  archived \subseteq archived' /\ \A c \in archived : pointer' # c
    BY <1>1, <2>3, NamesAssumption DEF ArchivePointer
  <2>4. ASSUME NEW d \in Drivers,
               WriteJournal(d) \/ VerifyTarget(d) \/ Commit(d) \/ JournalRevert(d) \/ Unlink(d)
        PROVE  archived \subseteq archived' /\ \A c \in archived : pointer' # c
    BY <1>1, <2>4 DEF WriteJournal, VerifyTarget, Commit, JournalRevert, Unlink
  <2> QED
    BY <1>1, <2>1, <2>2, <2>3, <2>4, WhoWrites
<1>2. TransitionInv /\ [TransitionNext]_transition =>
        [archived \subseteq archived' /\ \A c \in archived : pointer' # c]_transition
  BY <1>1
<1> QED
  BY <1>2, TransitionInvariance, PTL DEF Transition, ConsumedForGood

\* A candidate is taken back only by archiving its pointer.
THEOREM EverySwitchBackLeavesEvidence == Transition => NoSwitchWithoutEvidence
<1> DEFINE Kept == pointer # Legacy /\ pointer' # pointer =>
                      pointer' = Legacy /\ pointer \in archived'
<1>1. ASSUME TransitionInv, [TransitionNext]_transition PROVE Kept
  <2> USE DEF TransitionInv, TypeOK, FilesMatchStep
  <2>1. CASE UNCHANGED files
    BY <1>1, <2>1 DEF files
  <2>2. ASSUME NEW d \in Drivers, SwitchPointer(d) PROVE Kept
    BY <1>1, <2>2 DEF SwitchPointer
  <2>3. ASSUME NEW d \in Drivers, ArchivePointer(d) PROVE Kept
    BY <1>1, <2>3 DEF ArchivePointer
  <2>4. ASSUME NEW d \in Drivers,
               WriteJournal(d) \/ VerifyTarget(d) \/ Commit(d) \/ JournalRevert(d) \/ Unlink(d)
        PROVE  Kept
    BY <1>1, <2>4 DEF WriteJournal, VerifyTarget, Commit, JournalRevert, Unlink
  <2> QED
    BY <1>1, <2>1, <2>2, <2>3, <2>4, WhoWrites
<1>2. TransitionInv /\ [TransitionNext]_transition => [Kept]_transition
  BY <1>1
<1> QED
  BY <1>2, TransitionInvariance, PTL DEF Transition, NoSwitchWithoutEvidence

-----------------------------------------------------------------------------
(* Vector workers, and what drivers report.                                   *)

\* As long as the server lives, the request whose worker is about has the lock.
WorkersHaveLock ==
    \A r \in Requests : searcher[r] \in {"started", "searching", "ended"} => semantic = r

\* Two workers never search at a time unless the MCP server may die and leave
\* one behind (rag_bridge.py waits for the semantic lock and keeps it until the
\* worker is collected).
THEOREM VectorWorkersAreSerialized ==
    ASSUME "mcp_crash" \notin Faults
    PROVE  Transition => []OneVectorWorker
<1>1. TransitionInit => WorkersHaveLock
  BY DEF TransitionInit, WorkersHaveLock
<1>2. TransitionInv /\ WorkersHaveLock /\ [TransitionNext]_transition => WorkersHaveLock'
  <2> SUFFICES ASSUME TransitionInv, WorkersHaveLock, [TransitionNext]_transition PROVE WorkersHaveLock'
    OBVIOUS
  <2> USE NamesAssumption DEF WorkersHaveLock, TransitionInv, TypeOK
  <2>1. ~ServerDies
    BY DEF ServerDies, Fail
  <2>2. CASE UNCHANGED readers
    BY <2>2 DEF readers
  <2>3. ASSUME NEW r \in Requests, StartRead(r) \/ WorkerPins(r) \/ FinishRead(r)
        PROVE  WorkersHaveLock'
    BY <2>3 DEF StartRead, WorkerPins, FinishRead
  <2>4. ASSUME NEW r \in Requests, StartWorker(r) PROVE WorkersHaveLock'
    BY <2>4 DEF StartWorker
  <2>5. ASSUME NEW r \in Requests, WorkerEnds(r) \/ CollectWorker(r) PROVE WorkersHaveLock'
    BY <2>5 DEF WorkerEnds, CollectWorker
  <2> QED
    BY <2>1, <2>2, <2>3, <2>4, <2>5, OnlyReadersTouchReaders DEF Reader
<1>3. WorkersHaveLock => OneVectorWorker
  BY DEF WorkersHaveLock, OneVectorWorker
<1> QED
  BY <1>1, <1>2, <1>3, TransitionInvariance, PTL DEF Transition

\* A driver reports at the end: until then it has no verdict.
ReportsComeLast == \A d \in Drivers : step[d] # "idle" => verdict[d] = "none"

\* The only driver moves the files only while it has not reported.
LEMMA DriverKeepsReports ==
    ASSUME TransitionInv, ReportsComeLast, ReportsAreTrue, \A d, e \in Drivers : d = e,
           NEW d \in Drivers, Publish(d) \/ GoBack(d) \/ Raise(d) \/ DriverDies(d)
    PROVE  ReportsComeLast' /\ ReportsAreTrue'
<1> USE DEF ReportsComeLast, ReportsAreTrue, TransitionInv, TypeOK, Goto, Report, Unlocked, Locked
<1>1. CASE Publish(d)
  BY <1>1, NamesAssumption
  DEF Publish, Admit, Refused, WriteJournal, SwitchPointer, VerifyTarget, VerificationFails,
      Commit, ProveCandidate, CandidateDisproved, files
<1>2. CASE GoBack(d)
  BY <1>2, NamesAssumption
  DEF GoBack, Decide, Look, Rollback, RollbackRefused, Revert, RevertRefused, JournalRevert,
      ArchivePointer, Unlink, ProveLegacy, LegacyDisproved, files
<1>3. CASE Raise(d) \/ DriverDies(d)
  BY <1>3, NamesAssumption DEF Raise, DriverDies, files
<1> QED
  BY <1>1, <1>2, <1>3

\* What a driver reported last is still so, if no other driver runs beside it:
\* the release it called active is active, and after a rollback it proved the
\* legacy index is (v1_incremental_release.py).
THEOREM LoneDriverReportsTruth ==
    ASSUME \A d, e \in Drivers : d = e
    PROVE  Transition => []ReportsAreTrue
<1> DEFINE R == ReportsComeLast /\ ReportsAreTrue
<1>1. TransitionInit => R
  BY DEF TransitionInit, ReportsComeLast, ReportsAreTrue
<1>2. TransitionInv /\ R /\ [TransitionNext]_transition => R'
  <2> SUFFICES ASSUME TransitionInv, R, [TransitionNext]_transition PROVE R'
    OBVIOUS
  <2>1. ASSUME NEW d \in Drivers, Publish(d) \/ GoBack(d) \/ Raise(d) \/ DriverDies(d)
        PROVE  R'
    BY <2>1, DriverKeepsReports
  <2>2. ASSUME NEW d \in Drivers, NEW c \in Candidates,
               (\E g \in {"release", "trial"} : Prepare(d, g, c)) \/ Reconcile(d, c)
        PROVE  R'
    BY <2>2 DEF Prepare, Reconcile, Goto, ReportsComeLast, ReportsAreTrue, TransitionInv, TypeOK
  <2>3. CASE UNCHANGED <<files, drivers>>
    BY <2>3 DEF files, drivers, ReportsComeLast, ReportsAreTrue
  <2>4. ASSUME NEW r \in Requests, StartRead(r) \/ Reader(r) PROVE UNCHANGED <<files, drivers>>
    BY <2>4 DEF Reader, StartRead, StartWorker, WorkerPins, WorkerEnds, CollectWorker, FinishRead
  <2>5. ServerDies \/ UNCHANGED transition => UNCHANGED <<files, drivers>>
    BY DEF ServerDies, transition
  <2> QED
    BY <2>1, <2>2, <2>3, <2>4, <2>5 DEF TransitionNext
<1>3. R => ReportsAreTrue
  OBVIOUS
<1> QED
  BY <1>1, <1>2, <1>3, TransitionInvariance, PTL DEF Transition

-----------------------------------------------------------------------------
(* Refinement of GenerationService. *)

\* Nothing was proved or retired at first, and nobody reads.
LEMMA InitRefines == TransitionInit => Service!Init
BY NamesAssumption
   DEF TransitionInit, Service!Init, Holders

\* While a driver writes, the readers of the service are gone.
LEMMA WriterIsAloneInService ==
    ASSUME TransitionInv, NEW d \in Drivers, step[d] \in Locked
    PROVE  Service!Quiet
<1>1. \A r \in Requests : pin[r] = None /\ wpin[r] = None
  BY WriterIsAlone
<1> QED
  BY <1>1 DEF Service!Quiet, Holders

\* A step of a driver that writes a file is a step of the service, or none.
LEMMA WriteRefines ==
    ASSUME TransitionInv, NEW d \in Drivers,
           \/ WriteJournal(d) \/ SwitchPointer(d) \/ VerifyTarget(d) \/ Commit(d)
           \/ JournalRevert(d) \/ ArchivePointer(d) \/ Unlink(d)
    PROVE  [Service!Next]_(Service!service)
<1> USE NamesAssumption
    DEF TransitionInv, TypeOK, FilesMatchStep, Generations, readers, Service!service
<1>1. CASE WriteJournal(d) \/ JournalRevert(d)
  <2>1. Service!Quiet
    BY <1>1, WriterIsAloneInService DEF WriteJournal, JournalRevert, Locked
  <2>2. Service!Withdraw
    BY <1>1, <2>1 DEF WriteJournal, JournalRevert, Service!Withdraw
  <2> QED
    BY <2>2 DEF Service!Next
<1>2. CASE SwitchPointer(d)
  BY <1>2 DEF SwitchPointer
<1>3. CASE VerifyTarget(d)
  <2>1. Service!Prove(subject[d])
    BY <1>3 DEF VerifyTarget, Service!Prove
  <2> QED
    BY <1>3, <2>1 DEF VerifyTarget, Service!Next
<1>4. CASE Commit(d)
  <2>1. Service!Serve(pointer) /\ pointer \in Candidates
    BY <1>4 DEF Commit, Locked, Service!Serve
  <2> QED
    BY <2>1 DEF Service!Next
<1>5. CASE ArchivePointer(d)
  <2>1. Service!Retire(pointer) /\ pointer \in Candidates
    BY <1>5 DEF ArchivePointer, Service!Retire
  <2> QED
    BY <2>1 DEF Service!Next
<1>6. CASE Unlink(d)
  <2>1. Service!Serve(Legacy)
    BY <1>6 DEF Unlink, Service!Serve
  <2> QED
    BY <2>1 DEF Service!Next
<1> QED
  BY <1>1, <1>2, <1>3, <1>4, <1>5, <1>6

\* A reader that pins a generation reads what is served, one that ends leaves,
\* and a server that dies takes all its requests along.
LEMMA ReaderRefines ==
    ASSUME TransitionInv, (\E r \in Requests : StartRead(r) \/ Reader(r)) \/ ServerDies
    PROVE  [Service!Next]_(Service!service)
<1> USE NamesAssumption DEF TransitionInv, TypeOK, Generations, files, Service!service
<1>1. ASSUME NEW r \in Requests, StartRead(r) PROVE [Service!Next]_(Service!service)
  <2> DEFINE k == <<r, "request">>
  <2>1. k \in Holders /\ \A h \in Holders : h = k <=> h[1] = r /\ h[2] = "request"
    BY DEF Holders
  <2>2. /\ journal = None /\ pointer # None
        /\ pin' = [pin EXCEPT ![r] = pointer] /\ UNCHANGED <<files, wpin>>
    BY <1>1 DEF StartRead, MayRead
  <2> DEFINE Rd == [h \in Holders |-> IF h[2] = "request" THEN pin[h[1]] ELSE wpin[h[1]]]
  <2>3. \A h \in Holders : Rd'[h] = IF h = k THEN pointer ELSE Rd[h]
    <3> HIDE DEF k
    <3>1. \A h \in Holders : h[1] \in Requests
      BY DEF Holders
    <3> QED
      BY <2>1, <2>2, <3>1
  <2>4. Service!Read(k)
    <3> HIDE DEF k
    <3>1. Rd' = [Rd EXCEPT ![k] = pointer]
      BY <2>1, <2>3
    <3> QED
      BY <2>2, <3>1 DEF Service!Read
  <2> QED
    BY <2>1, <2>4 DEF Service!Next
<1>2. ASSUME NEW r \in Requests, WorkerPins(r) PROVE [Service!Next]_(Service!service)
  <2> DEFINE k == <<r, "worker">>
  <2>1. k \in Holders /\ \A h \in Holders : h = k <=> h[1] = r /\ h[2] = "worker"
    BY DEF Holders
  <2>2. /\ journal = None /\ pointer # None
        /\ wpin' = [wpin EXCEPT ![r] = pointer] /\ UNCHANGED <<files, pin>>
    BY <1>2 DEF WorkerPins, MayRead
  <2> DEFINE Rd == [h \in Holders |-> IF h[2] = "request" THEN pin[h[1]] ELSE wpin[h[1]]]
  <2>3. \A h \in Holders : Rd'[h] = IF h = k THEN pointer ELSE Rd[h]
    <3> HIDE DEF k
    <3> SUFFICES ASSUME NEW h \in Holders PROVE Rd'[h] = IF h = k THEN pointer ELSE Rd[h]
      OBVIOUS
    <3>1. h[1] \in Requests /\ h[2] \in {"request", "worker"}
      BY DEF Holders
    <3>2. h = k <=> h[1] = r /\ h[2] = "worker"
      BY <2>1
    <3>3. wpin'[h[1]] = IF h[1] = r THEN pointer ELSE wpin[h[1]]
      BY <2>2, <3>1
    <3> QED
      BY <2>2, <3>1, <3>2, <3>3
  <2>4. Service!Read(k)
    <3> HIDE DEF k
    <3>1. Rd' = [Rd EXCEPT ![k] = pointer]
      BY <2>1, <2>3
    <3> QED
      BY <2>2, <3>1 DEF Service!Read
  <2> QED
    BY <2>1, <2>4 DEF Service!Next
<1>3. ASSUME NEW r \in Requests, WorkerEnds(r) PROVE [Service!Next]_(Service!service)
  <2> DEFINE H == {<<r, "worker">>}
  <2>1. \A h \in Holders : h \in H <=> h[1] = r /\ h[2] = "worker"
    BY DEF Holders
  <2>2. wpin' = [wpin EXCEPT ![r] = None] /\ UNCHANGED <<files, pin>>
    BY <1>3 DEF WorkerEnds
  <2>3. Service!Leave(H)
    <3> HIDE DEF H
    <3> QED
      BY <2>1, <2>2 DEF Service!Leave, Holders
  <2>4. H \in SUBSET Holders
    BY DEF Holders
  <2> QED
    BY <2>3, <2>4 DEF Service!Next
<1>4. ASSUME NEW r \in Requests, FinishRead(r) PROVE [Service!Next]_(Service!service)
  <2> DEFINE H == {<<r, "request">>}
  <2>1. \A h \in Holders : h \in H <=> h[1] = r /\ h[2] = "request"
    BY DEF Holders
  <2>2. pin' = [pin EXCEPT ![r] = None] /\ UNCHANGED <<files, wpin>>
    BY <1>4 DEF FinishRead
  <2>3. Service!Leave(H)
    <3> HIDE DEF H
    <3> QED
      BY <2>1, <2>2 DEF Service!Leave, Holders
  <2>4. H \in SUBSET Holders
    BY DEF Holders
  <2> QED
    BY <2>3, <2>4 DEF Service!Next
<1>5. CASE ServerDies
  <2>1. Service!Leave(Requests \X {"request"})
    BY <1>5 DEF ServerDies, Service!Leave, Holders
  <2> QED
    BY <2>1 DEF Service!Next, Holders
<1>6. ASSUME NEW r \in Requests, StartWorker(r) \/ CollectWorker(r)
      PROVE  UNCHANGED Service!service
  BY <1>6 DEF StartWorker, CollectWorker
<1> QED
  BY <1>1, <1>2, <1>3, <1>4, <1>5, <1>6 DEF Reader

\* The files and locks implement the service.
THEOREM TransitionImplementsService == Transition => ImplementsService
<1>1. ASSUME TransitionInv, [TransitionNext]_transition PROVE [Service!Next]_(Service!service)
  <2>1. CASE (\E r \in Requests : StartRead(r) \/ Reader(r)) \/ ServerDies
    BY <1>1, <2>1, ReaderRefines
  <2>2. CASE \E d \in Drivers :
                \/ WriteJournal(d) \/ SwitchPointer(d) \/ VerifyTarget(d) \/ Commit(d)
                \/ JournalRevert(d) \/ ArchivePointer(d) \/ Unlink(d)
    BY <1>1, <2>2, WriteRefines
  <2>3. CASE UNCHANGED <<files, readers>>
    BY <2>3 DEF files, readers, Service!service
  <2> QED
    BY <1>1, <2>1, <2>2, <2>3, OnlyReadersTouchReaders, WhoWrites
<1>2. TransitionInv /\ [TransitionNext]_transition => [Service!Next]_(Service!service)
  BY <1>1
<1> QED
  BY <1>2, InitRefines, TransitionInvariance, PTL DEF Transition, ImplementsService, Service!Spec
=============================================================================
