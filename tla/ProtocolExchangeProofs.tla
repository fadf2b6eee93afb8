------------------------- MODULE ProtocolExchangeProofs -------------------------
(***************************************************************************)
(* Proofs about ProtocolExchange, for any number of clients, handlers,     *)
(* requests, contents and failures.                                        *)
(*                                                                         *)
(* The inductive invariant is what each thread may rely on: a client on    *)
(* what it was told, a handler on holding the lock of a request that is    *)
(* not answered yet, a row on what the runtime did for it.                 *)
(***************************************************************************)
EXTENDS ProtocolExchange, FiniteSetTheorems, TLAPS

\* What a client was told is what the ledger holds.
ClientKnows(c) ==
    /\ at[c] \in Posts => creq[c] \in Requests /\ cbody[c] \in Contents
    /\ at[c] \in {"response", "ack"} => body[creq[c]] = cbody[c]
    /\ at[c] = "ack" => got[c] # None
    /\ got[c] # None => /\ creq[c] \in Requests /\ cbody[c] \in Contents
                        /\ got[c] = answer[creq[c]] /\ body[creq[c]] = cbody[c]

\* The post a handler serves: its client, if it still waits, is at that post.
ServesPost(h) ==
    waiter[h] # None =>
        /\ hreq[h] = creq[waiter[h]] /\ hbody[h] = cbody[waiter[h]]
        /\ hand[h] = "request" => at[waiter[h]] = "request"
        /\ hand[h] \in Working \cup {"response"} => at[waiter[h]] = "response"
        /\ hand[h] = "ack" => at[waiter[h]] = "ack" /\ hres[h] = got[waiter[h]]

\* What a handler relies on for its request.
HandlerKnows(h) ==
    /\ hand[h] = "free" => waiter[h] = None
    /\ hand[h] # "free" => hreq[h] \in Requests /\ hbody[h] \in Contents
    /\ hand[h] \in Working \cup {"response", "ack"} => body[hreq[h]] # None
    /\ hand[h] \in Working => lock[hreq[h]] = h /\ answer[hreq[h]] = None
    /\ hand[h] = "applied" => effects[hreq[h]] > 0
    /\ hand[h] = "prepare" => hres[h] # None
    /\ hand[h] = "prepare" /\ hres[h] = "ok" => effects[hreq[h]] > 0

\* No two handlers serve the same client.
OneServes ==
    \A h, g \in Handlers : waiter[h] = waiter[g] /\ h # g => waiter[h] = None

\* A lock is held by a handler that works on that request.
LockHeld(r) ==
    lock[r] # None => hand[lock[r]] \in Working /\ hreq[lock[r]] = r

\* Only what was accepted reaches the runtime, and only that takes effect.
EffectsAccepted(r) ==
    /\ stray[r] > 0 => body[r] # None
    /\ effects[r] > 0 => body[r] # None
    /\ ran[r] = IF effects[r] = 0 THEN {} ELSE {body[r]}

\* The runtime was called for this request since the adapter last crashed.
Called(r) ==
    \/ answer[r] # None
    \/ lock[r] # None /\ hand[lock[r]] \in {"called", "applied", "prepare"}

CallsCounted(r) == calls[r] <= crashes + (IF Called(r) THEN 1 ELSE 0)

IInv ==
    /\ TypeOK
    /\ \A c \in Clients : ClientKnows(c)
    /\ \A h \in Handlers : ServesPost(h)
    /\ \A h \in Handlers : HandlerKnows(h)
    /\ OneServes
    /\ \A r \in Requests : LockHeld(r)
    /\ \A r \in Requests : EffectsAccepted(r)
    /\ \A r \in Requests : CallsCounted(r)

USE HandlersAssumption, FaultsAssumption, NoneAssumption
USE DEF Answers, Posts, Working

\* Initially nobody knows anything, and nothing was done.
LEMMA InitHolds == Init => IInv
<1> SUFFICES ASSUME Init PROVE IInv
    OBVIOUS
<1> USE DEF Init
<1>1. TypeOK
    BY DEF TypeOK, RowShape
<1>2. \A c \in Clients : ClientKnows(c)
    BY DEF ClientKnows
<1>3. \A h \in Handlers : ServesPost(h) /\ HandlerKnows(h)
    BY DEF ServesPost, HandlerKnows
<1>4. OneServes
    BY DEF OneServes
<1>5. \A r \in Requests : LockHeld(r) /\ EffectsAccepted(r)
    BY DEF LockHeld, EffectsAccepted
<1>6. \A r \in Requests : CallsCounted(r)
    BY DEF CallsCounted, Called
<1> QED
    BY <1>1, <1>2, <1>3, <1>4, <1>5, <1>6 DEF IInv

\* A client that begins anew relies on nothing yet.
LEMMA BeginKeeps ==
  ASSUME IInv, NEW c \in Clients, NEW r \in Requests, NEW b \in Contents, Begin(c, r, b)
  PROVE  IInv'
  BY DEF Begin, ledger, handlers, runtime, IInv, TypeOK, RowShape, ClientKnows, ServesPost,
         HandlerKnows, OneServes, LockHeld, EffectsAccepted, CallsCounted, Called, Waiting

\* A post carries what its client knows.
LEMMA PostKeeps ==
  ASSUME IInv, NEW c \in Clients, NEW h \in Handlers, Post(c, h)
  PROVE  IInv'
  BY DEF Post, ledger, clients, runtime, Waiting, IInv, TypeOK, RowShape, ClientKnows,
         ServesPost, HandlerKnows, OneServes, LockHeld, EffectsAccepted, CallsCounted, Called

\* The first content of a request stays; only a client that sent it goes on.
LEMMA ReceiveRequestKeeps ==
  ASSUME IInv, NEW h \in Handlers, ReceiveRequest(h)
  PROVE  IInv'
<1> USE DEF ReceiveRequest, Reply, Error, Free, runtime
<1>1. TypeOK'
    BY DEF IInv, TypeOK, RowShape, HandlerKnows, ServesPost
<1>2. \A x \in Clients : ClientKnows(x)'
    BY DEF IInv, TypeOK, RowShape, ClientKnows, ServesPost, HandlerKnows, OneServes
<1>3. \A x \in Handlers : ServesPost(x)'
    BY DEF IInv, TypeOK, ServesPost, HandlerKnows, OneServes
<1>4. \A x \in Handlers : HandlerKnows(x)'
    BY DEF IInv, TypeOK, RowShape, ClientKnows, ServesPost, HandlerKnows, LockHeld
<1>5. OneServes'
    BY DEF IInv, TypeOK, OneServes
<1>6. \A x \in Requests : LockHeld(x)'
    BY DEF IInv, TypeOK, LockHeld, HandlerKnows
<1>7. \A x \in Requests : EffectsAccepted(x)'
    BY DEF IInv, TypeOK, EffectsAccepted, HandlerKnows, RowShape
<1>8. \A x \in Requests : CallsCounted(x)'
    BY DEF IInv, TypeOK, CallsCounted, Called, LockHeld, HandlerKnows, RowShape
<1> QED
    BY <1>1, <1>2, <1>3, <1>4, <1>5, <1>6, <1>7, <1>8 DEF IInv

\* An answer that is prepared is told as it is.
LEMMA AnswerAgainKeeps ==
  ASSUME IInv, NEW h \in Handlers, AnswerAgain(h)
  PROVE  IInv'
  BY DEF AnswerAgain, ledger, Reply, Free, runtime, IInv, TypeOK, RowShape, ClientKnows,
         ServesPost, HandlerKnows, OneServes, LockHeld, EffectsAccepted, CallsCounted, Called

\* A lock is taken only where no handler works and no answer is prepared.
LEMMA TakeRequestKeeps ==
  ASSUME IInv, NEW h \in Handlers, TakeRequest(h)
  PROVE  IInv'
  BY DEF TakeRequest, ledger, clients, runtime, IInv, TypeOK, RowShape, ClientKnows,
         ServesPost, HandlerKnows, OneServes, LockHeld, EffectsAccepted, CallsCounted, Called

\* Blocked or not, the handler keeps its lock.
LEMMA ReadControlKeeps ==
  ASSUME IInv, NEW h \in Handlers, ReadControl(h)
  PROVE  IInv'
<1> USE DEF ReadControl, ledger, clients, runtime, Conclude
<1>1. TypeOK'
    BY DEF IInv, TypeOK, RowShape, HandlerKnows, ServesPost
<1>2. \A x \in Clients : ClientKnows(x)'
    BY DEF IInv, TypeOK, RowShape, ClientKnows, ServesPost, HandlerKnows, OneServes
<1>3. \A x \in Handlers : ServesPost(x)'
    BY DEF IInv, TypeOK, ServesPost, HandlerKnows, OneServes
<1>4. \A x \in Handlers : HandlerKnows(x)'
    BY DEF IInv, TypeOK, RowShape, ClientKnows, ServesPost, HandlerKnows, LockHeld
<1>5. OneServes'
    BY DEF IInv, TypeOK, OneServes
<1>6. \A x \in Requests : LockHeld(x)'
    BY DEF IInv, TypeOK, LockHeld, HandlerKnows
<1>7. \A x \in Requests : EffectsAccepted(x)'
    BY DEF IInv, TypeOK, EffectsAccepted, HandlerKnows, RowShape
<1>8. \A x \in Requests : CallsCounted(x)'
    BY DEF IInv, TypeOK, CallsCounted, Called, LockHeld, HandlerKnows, RowShape
<1> QED
    BY <1>1, <1>2, <1>3, <1>4, <1>5, <1>6, <1>7, <1>8 DEF IInv

\* The call that is counted is the first since the lock was taken.
LEMMA PerformKeeps ==
  ASSUME IInv, NEW h \in Handlers, Perform(h)
  PROVE  IInv'
  BY DEF Perform, ledger, clients, runtime, IInv, TypeOK, RowShape, ClientKnows,
         ServesPost, HandlerKnows, OneServes, LockHeld, EffectsAccepted, CallsCounted, Called

\* The runtime did what the handler is about to answer with "ok".
LEMMA CallReturnsKeeps ==
  ASSUME IInv, NEW h \in Handlers, CallReturns(h)
  PROVE  IInv'
  BY DEF CallReturns, ledger, clients, runtime, Conclude, IInv, TypeOK, RowShape, ClientKnows,
         ServesPost, HandlerKnows, OneServes, LockHeld, EffectsAccepted, CallsCounted, Called

\* The answer is stored before the lock is released and the client told.
LEMMA PrepareResponseKeeps ==
  ASSUME IInv, NEW h \in Handlers, PrepareResponse(h)
  PROVE  IInv'
<1> USE DEF PrepareResponse, Reply, Error, Free, runtime
<1>1. TypeOK'
  <2>1. hreq[h] \in Requests /\ hres[h] \in Answers
      BY DEF IInv, TypeOK, HandlerKnows
  <2>2. \A r \in Requests : RowShape(r)'
      BY <2>1 DEF IInv, TypeOK, RowShape, HandlerKnows
  <2> QED
      BY <2>1, <2>2 DEF IInv, TypeOK
<1>2. \A x \in Clients : ClientKnows(x)'
    BY DEF IInv, TypeOK, RowShape, ClientKnows, ServesPost, HandlerKnows, OneServes
<1>3. \A x \in Handlers : ServesPost(x)'
    BY DEF IInv, TypeOK, ServesPost, HandlerKnows, OneServes
<1>4. \A x \in Handlers : HandlerKnows(x)'
    BY DEF IInv, TypeOK, RowShape, ClientKnows, ServesPost, HandlerKnows, LockHeld
<1>5. OneServes'
    BY DEF IInv, TypeOK, OneServes
<1>6. \A x \in Requests : LockHeld(x)'
    BY DEF IInv, TypeOK, LockHeld, HandlerKnows
<1>7. \A x \in Requests : EffectsAccepted(x)'
    BY DEF IInv, TypeOK, EffectsAccepted, HandlerKnows, RowShape
<1>8. \A x \in Requests : CallsCounted(x)'
    BY DEF IInv, TypeOK, CallsCounted, Called, LockHeld, HandlerKnows, RowShape
<1> QED
    BY <1>1, <1>2, <1>3, <1>4, <1>5, <1>6, <1>7, <1>8 DEF IInv

\* A client is told its exchange ended with the answer it was given.
LEMMA ReceiveAckKeeps ==
  ASSUME IInv, NEW h \in Handlers, ReceiveAck(h)
  PROVE  IInv'
<1> USE DEF ReceiveAck, Reply, Error, Free, runtime
<1>1. TypeOK'
    BY DEF IInv, TypeOK, RowShape, HandlerKnows, ServesPost
<1>2. \A x \in Clients : ClientKnows(x)'
    BY DEF IInv, TypeOK, RowShape, ClientKnows, ServesPost, HandlerKnows, OneServes
<1>3. \A x \in Handlers : ServesPost(x)'
    BY DEF IInv, TypeOK, ServesPost, HandlerKnows, OneServes
<1>4. \A x \in Handlers : HandlerKnows(x)'
    BY DEF IInv, TypeOK, RowShape, ClientKnows, ServesPost, HandlerKnows, LockHeld
<1>5. OneServes'
    BY DEF IInv, TypeOK, OneServes
<1>6. \A x \in Requests : LockHeld(x)'
    BY DEF IInv, TypeOK, LockHeld, HandlerKnows
<1>7. \A x \in Requests : EffectsAccepted(x)'
    BY DEF IInv, TypeOK, EffectsAccepted, HandlerKnows, RowShape
<1>8. \A x \in Requests : CallsCounted(x)'
    BY DEF IInv, TypeOK, CallsCounted, Called, LockHeld, HandlerKnows, RowShape
<1> QED
    BY <1>1, <1>2, <1>3, <1>4, <1>5, <1>6, <1>7, <1>8 DEF IInv

\* What takes effect for a request is the content it was accepted with.
LEMMA EffectAccepted ==
  ASSUME IInv, NEW r \in Requests, body[r] # None, Effect(r)
  PROVE  /\ effects' \in [Requests -> Nat]
         /\ ran' \in [Requests -> SUBSET Contents]
         /\ effects'[r] > 0
         /\ \A x \in Requests :
               /\ effects[x] > 0 => effects'[x] > 0
               /\ effects'[x] > 0 => body[x] # None
               /\ ran'[x] = IF effects'[x] = 0 THEN {} ELSE {body[x]}
<1>1. CASE r \in Starts /\ effects[r] > 0
    BY <1>1 DEF Effect, IInv, TypeOK, EffectsAccepted
<1>2. CASE ~(r \in Starts /\ effects[r] > 0)
  <2>1. /\ effects' = [effects EXCEPT ![r] = @ + 1]
        /\ ran' = [ran EXCEPT ![r] = @ \cup {body[r]}]
      BY <1>2 DEF Effect
  <2>2. effects' \in [Requests -> Nat] /\ ran' \in [Requests -> SUBSET Contents]
      BY <2>1 DEF IInv, TypeOK
  <2>3. effects'[r] > 0 /\ effects'[r] # 0
      BY <2>1 DEF IInv, TypeOK
  <2>4. ran'[r] = {body[r]}
    <3>1. ran[r] \subseteq {body[r]}
        BY DEF IInv, EffectsAccepted
    <3> QED
        BY <2>1, <3>1 DEF IInv, TypeOK
  <2>5. \A x \in Requests : x # r => effects'[x] = effects[x] /\ ran'[x] = ran[x]
      BY <2>1 DEF IInv, TypeOK
  <2> QED
      BY <2>2, <2>3, <2>4, <2>5 DEF IInv, EffectsAccepted
<1> QED
    BY <1>1, <1>2

\* What takes effect was accepted.
LEMMA ApplyKeeps ==
  ASSUME IInv, NEW h \in Handlers, Apply(h)
  PROVE  IInv'
<1> USE DEF Apply, ledger, clients, Effect
<1>1. TypeOK'
    BY DEF IInv, TypeOK, RowShape, HandlerKnows, ServesPost
<1>2. \A x \in Clients : ClientKnows(x)'
    BY DEF IInv, TypeOK, RowShape, ClientKnows, ServesPost, HandlerKnows, OneServes
<1>3. \A x \in Handlers : ServesPost(x)'
    BY DEF IInv, TypeOK, ServesPost, HandlerKnows, OneServes
<1>4. \A x \in Handlers : HandlerKnows(x)'
    BY DEF IInv, TypeOK, RowShape, ClientKnows, ServesPost, HandlerKnows, LockHeld
<1>5. OneServes'
    BY DEF IInv, TypeOK, OneServes
<1>6. \A x \in Requests : LockHeld(x)'
    BY DEF IInv, TypeOK, LockHeld, HandlerKnows
<1>7. \A x \in Requests : EffectsAccepted(x)'
  <2>1. body[hreq[h]] # None /\ hreq[h] \in Requests
      BY DEF IInv, HandlerKnows
  <2> HIDE DEF Effect
  <2> QED
      BY <2>1, EffectAccepted DEF IInv, EffectsAccepted
<1>8. \A x \in Requests : CallsCounted(x)'
    BY DEF IInv, TypeOK, CallsCounted, Called, LockHeld, HandlerKnows, RowShape
<1> QED
    BY <1>1, <1>2, <1>3, <1>4, <1>5, <1>6, <1>7, <1>8 DEF IInv

\* A call that was refused is answered as failed.
LEMMA RefuseKeeps ==
  ASSUME IInv, NEW h \in Handlers, Refuse(h)
  PROVE  IInv'
  BY DEF Refuse, ledger, clients, runtime, Conclude, IInv, TypeOK, RowShape, ClientKnows,
         ServesPost, HandlerKnows, OneServes, LockHeld, EffectsAccepted, CallsCounted, Called

\* A stray call belongs to a request that was accepted.
LEMMA ApplyStrayKeeps ==
  ASSUME IInv, NEW r \in Requests, ApplyStray(r)
  PROVE  IInv'
<1> USE DEF ApplyStray, ledger, handlers, clients, Effect
<1>0. /\ body[r] # None
      /\ stray' = [stray EXCEPT ![r] = @ - 1]
      /\ stray' \in [Requests -> Nat]
      /\ \A x \in Requests : stray'[x] > 0 => stray[x] > 0
    BY DEF IInv, TypeOK, EffectsAccepted
<1>1. TypeOK'
  <2>1. CASE UNCHANGED <<effects, ran>>
      BY <2>1, <1>0 DEF IInv, TypeOK, RowShape
  <2>2. CASE Effect(r)
    <3> HIDE DEF Effect
    <3> QED
        BY <2>2, <1>0, EffectAccepted DEF IInv, TypeOK, RowShape
  <2> QED
      BY <2>1, <2>2
<1>2. \A x \in Clients : ClientKnows(x)'
    BY DEF IInv, TypeOK, RowShape, ClientKnows, ServesPost, HandlerKnows, OneServes
<1>3. \A x \in Handlers : ServesPost(x)'
    BY DEF IInv, TypeOK, ServesPost, HandlerKnows, OneServes
<1>4. \A x \in Handlers : HandlerKnows(x)'
    BY DEF IInv, TypeOK, RowShape, ClientKnows, ServesPost, HandlerKnows, LockHeld
<1>5. OneServes'
    BY DEF IInv, TypeOK, OneServes
<1>6. \A x \in Requests : LockHeld(x)'
    BY DEF IInv, TypeOK, LockHeld, HandlerKnows
<1>7. \A x \in Requests : EffectsAccepted(x)'
  <2>1. CASE UNCHANGED <<effects, ran>>
      BY <2>1, <1>0 DEF IInv, EffectsAccepted
  <2>2. CASE Effect(r)
    <3> HIDE DEF Effect
    <3> QED
        BY <2>2, <1>0, EffectAccepted DEF IInv, EffectsAccepted
  <2> QED
      BY <2>1, <2>2
<1>8. \A x \in Requests : CallsCounted(x)'
    BY DEF IInv, TypeOK, CallsCounted, Called, LockHeld, HandlerKnows, RowShape
<1> QED
    BY <1>1, <1>2, <1>3, <1>4, <1>5, <1>6, <1>7, <1>8 DEF IInv

\* Nobody relies on the turn going on, or on its end.
LEMMA TurnKeeps ==
  ASSUME IInv, RequestWrapUp \/ NewTurn
  PROVE  IInv'
<1>1. UNCHANGED <<ledger, handlers, clients, runtime, calls, crashes, faults>> /\ wrapup' \in BOOLEAN
    BY DEF RequestWrapUp, NewTurn
<1>2. TypeOK'
    BY <1>1 DEF ledger, handlers, clients, runtime, IInv, TypeOK, RowShape
<1> USE <1>1 DEF IInv, ledger, handlers, clients, runtime
<1>3. \A c \in Clients : ClientKnows(c)'
    BY DEF ClientKnows
<1>4. \A h \in Handlers : ServesPost(h)' /\ HandlerKnows(h)'
    BY DEF ServesPost, HandlerKnows
<1>5. OneServes'
    BY DEF OneServes
<1>6. \A r \in Requests : LockHeld(r)' /\ EffectsAccepted(r)'
    BY DEF LockHeld, EffectsAccepted
<1>7. \A r \in Requests : CallsCounted(r)'
    BY DEF CallsCounted, Called
<1> QED
    BY <1>2, <1>3, <1>4, <1>5, <1>6, <1>7

\* A handler whose client gave up goes on for nobody.
LEMMA GiveUpKeeps ==
  ASSUME IInv, NEW c \in Clients, GiveUp(c)
  PROVE  IInv'
  BY DEF GiveUp, ledger, runtime, Fail, FaultKinds, IInv, TypeOK, RowShape, ClientKnows,
         ServesPost, HandlerKnows, OneServes, LockHeld, EffectsAccepted, CallsCounted, Called

\* A handler that cannot read the turn control keeps its lock.
LEMMA ReadControlFailsKeeps ==
  ASSUME IInv, NEW h \in Handlers, ReadControlFails(h)
  PROVE  IInv'
  BY DEF ReadControlFails, ledger, clients, runtime, Fail, IInv, TypeOK, RowShape, ClientKnows,
         ServesPost, HandlerKnows, OneServes, LockHeld, EffectsAccepted, CallsCounted, Called

\* A handler whose call timed out answers as failed; its call is accounted for.
LEMMA CallTimesOutKeeps ==
  ASSUME IInv, NEW h \in Handlers, CallTimesOut(h)
  PROVE  IInv'
  BY DEF CallTimesOut, ledger, clients, Fail, Conclude, IInv, TypeOK, RowShape, ClientKnows,
         ServesPost, HandlerKnows, OneServes, LockHeld, EffectsAccepted, CallsCounted, Called

\* A crash frees every lock, and allows one more call for each request.
LEMMA CrashKeeps ==
  ASSUME IInv, Crash
  PROVE  IInv'
<1> USE DEF Crash, ledger, Fail, Waiting
<1> DEFINE Flying(r) == {h \in Handlers : hreq[h] = r /\ hand[h] = "called"}
<1>0. /\ stray' = [r \in Requests |-> stray[r] + Cardinality(Flying(r))]
      /\ \A r \in Requests : Cardinality(Flying(r)) \in Nat
      /\ \A r \in Requests : Cardinality(Flying(r)) > 0 => Flying(r) # {}
  <2>1. \A r \in Requests : IsFiniteSet(Flying(r))
      BY FS_Subset
  <2> QED
      BY <2>1, FS_CardinalityType, FS_EmptySet
<1> HIDE DEF Flying
<1>1. TypeOK'
  <2>1. stray' \in [Requests -> Nat]
      BY <1>0 DEF IInv, TypeOK
  <2> QED
      BY <2>1 DEF IInv, TypeOK, RowShape
<1>2. \A x \in Clients : ClientKnows(x)'
    BY DEF IInv, TypeOK, RowShape, ClientKnows, ServesPost, HandlerKnows, OneServes
<1>3. \A x \in Handlers : ServesPost(x)'
    BY DEF IInv, TypeOK, ServesPost, HandlerKnows, OneServes
<1>4. \A x \in Handlers : HandlerKnows(x)'
    BY DEF IInv, TypeOK, RowShape, ClientKnows, ServesPost, HandlerKnows, LockHeld
<1>5. OneServes'
    BY DEF IInv, TypeOK, OneServes
<1>6. \A x \in Requests : LockHeld(x)'
    BY DEF IInv, TypeOK, LockHeld, HandlerKnows
<1>7. \A x \in Requests : EffectsAccepted(x)'
  <2>1. ASSUME NEW x \in Requests, stray'[x] > 0
        PROVE  body[x] # None
    <3>1. CASE stray[x] > 0
        BY <3>1 DEF IInv, EffectsAccepted
    <3>2. CASE Flying(x) # {}
        BY <3>2 DEF Flying, IInv, HandlerKnows
    <3>3. stray'[x] = stray[x] + Cardinality(Flying(x)) /\ stray[x] \in Nat
        BY <1>0 DEF IInv, TypeOK
    <3> HIDE DEF Crash
    <3> QED
        BY <1>0, <2>1, <3>1, <3>2, <3>3
  <2>2. UNCHANGED <<body, effects, ran>>
      OBVIOUS
  <2>3. \A x \in Requests : EffectsAccepted(x)
      BY DEF IInv
  <2> HIDE DEF Crash
  <2> QED
      BY <2>1, <2>2, <2>3 DEF EffectsAccepted
<1>8. \A x \in Requests : CallsCounted(x)'
    BY DEF IInv, TypeOK, CallsCounted, Called, LockHeld, HandlerKnows, RowShape
<1> QED
    BY <1>1, <1>2, <1>3, <1>4, <1>5, <1>6, <1>7, <1>8 DEF IInv

\* The invariant holds in every reachable state.
THEOREM Invariance == Spec => []IInv
<1>1. Init => IInv
    BY InitHolds
<1>2. IInv /\ [Next]_vars => IInv'
  <2> SUFFICES ASSUME IInv, [Next]_vars PROVE IInv'
      OBVIOUS
  <2>1. CASE UNCHANGED vars
      BY <2>1 DEF vars, ledger, handlers, clients, runtime, IInv, TypeOK, RowShape, ClientKnows,
                  ServesPost, HandlerKnows, OneServes, LockHeld, EffectsAccepted,
                  CallsCounted, Called
  <2>2. ASSUME NEW c \in Clients, NEW r \in Requests, NEW b \in Contents, Begin(c, r, b)
        PROVE  IInv'
      BY <2>2, BeginKeeps
  <2>3. ASSUME NEW c \in Clients, NEW h \in Handlers, Post(c, h)
        PROVE  IInv'
      BY <2>3, PostKeeps
  <2>4. ASSUME NEW h \in Handlers, Handle(h)
        PROVE  IInv'
      BY <2>4, ReceiveRequestKeeps, AnswerAgainKeeps, TakeRequestKeeps, ReadControlKeeps,
         PerformKeeps, CallReturnsKeeps, PrepareResponseKeeps, ReceiveAckKeeps DEF Handle
  <2>5. ASSUME NEW h \in Handlers,
               Apply(h) \/ Refuse(h) \/ ReadControlFails(h) \/ CallTimesOut(h)
        PROVE  IInv'
      BY <2>5, ApplyKeeps, RefuseKeeps, ReadControlFailsKeeps, CallTimesOutKeeps
  <2>6. ASSUME NEW r \in Requests, ApplyStray(r)
        PROVE  IInv'
      BY <2>6, ApplyStrayKeeps
  <2>7. ASSUME NEW c \in Clients, GiveUp(c)
        PROVE  IInv'
      BY <2>7, GiveUpKeeps
  <2> QED
      BY <2>1, <2>2, <2>3, <2>4, <2>5, <2>6, <2>7, TurnKeeps, CrashKeeps DEF Next
<1> QED
    BY <1>1, <1>2, PTL DEF Spec

\* Rows keep their shape and every variable its type: an answer is stored
\* exactly when the row says so (persistent_ledger.py).
THEOREM TypeCorrect == Spec => []TypeOK
<1>1. IInv => TypeOK
    BY DEF IInv
<1> QED
    BY <1>1, Invariance, PTL

\* The lock of a request and its prepared answer keep the adapter from calling
\* the runtime again, but for one call after each crash (AdapterState.response_syn).
THEOREM CalledOnceUnlessCrashed == Spec => []NeverRepeatedUnlessCrashed
<1>1. IInv => NeverRepeatedUnlessCrashed
    BY DEF IInv, TypeOK, CallsCounted, NeverRepeatedUnlessCrashed
<1> QED
    BY <1>1, Invariance, PTL

\* Clients that repeat a request are told what the ledger holds for it, and
\* for the content they sent (PersistentProtocolLedger.prepare_response).
THEOREM ClientsAgree == Spec => []AnswersAgree
<1>1. IInv => AnswersAgree
    BY DEF IInv, ClientKnows, AnswersAgree
<1> QED
    BY <1>1, Invariance, PTL

-----------------------------------------------------------------------------
(* Blocked requests. *)

\* What the runtime was never called for has not been done, and is on nobody's way.
UncalledIsUndone(r) ==
    calls[r] = 0 => /\ effects[r] = 0 /\ stray[r] = 0
                    /\ \A h \in Handlers : hreq[h] = r => hand[h] \notin {"called", "applied"}

\* Before the first crash a request is blocked only if the runtime was never called.
BlockedIsUncalled(r) ==
    crashes = 0 =>
        /\ answer[r] = "blocked" => calls[r] = 0
        /\ \A h \in Handlers :
              hreq[h] = r /\ hand[h] = "prepare" /\ hres[h] = "blocked" => calls[r] = 0

BInv == \A r \in Requests : UncalledIsUndone(r) /\ BlockedIsUncalled(r)

\* A handler that has its request to itself and has not called finds it uncalled.
LEMMA NotCalledYet ==
  ASSUME IInv, crashes = 0, NEW h \in Handlers, hand[h] \in {"control", "perform"}
  PROVE  calls[hreq[h]] = 0
  BY DEF IInv, TypeOK, HandlerKnows, CallsCounted, Called

\* Clients and their posts move nothing the runtime or the ledger has.
LEMMA ClientsKeepBlocked ==
  ASSUME IInv, BInv, NEW c \in Clients,
         \/ \E r \in Requests, b \in Contents : Begin(c, r, b)
         \/ \E h \in Handlers : Post(c, h)
         \/ GiveUp(c)
  PROVE  BInv'
  BY DEF Begin, Post, GiveUp, ledger, handlers, clients, runtime, BInv, UncalledIsUndone,
         BlockedIsUncalled, IInv, TypeOK

\* A handler that ends, or has not called yet, leaves the request as it was done.
LEMMA AnswersKeepBlocked ==
  ASSUME IInv, BInv, NEW h \in Handlers,
         ReceiveRequest(h) \/ AnswerAgain(h) \/ TakeRequest(h) \/ ReceiveAck(h)
  PROVE  BInv'
  BY DEF ReceiveRequest, AnswerAgain, TakeRequest, ReceiveAck, Free, ledger, clients, runtime,
         BInv, UncalledIsUndone, BlockedIsUncalled, IInv, TypeOK

\* A request is found blocked before the runtime is called for it.
LEMMA ReadControlKeepsBlocked ==
  ASSUME IInv, BInv, NEW h \in Handlers, ReadControl(h) \/ ReadControlFails(h)
  PROVE  BInv'
  BY NotCalledYet DEF ReadControl, ReadControlFails, Conclude, Fail, ledger, clients, runtime,
         BInv, UncalledIsUndone, BlockedIsUncalled, IInv, TypeOK

\* A call is counted while the answer is open and the lock is held by the caller.
LEMMA PerformKeepsBlocked ==
  ASSUME IInv, BInv, NEW h \in Handlers, Perform(h)
  PROVE  BInv'
<1>1. /\ hreq[h] \in Requests /\ answer[hreq[h]] = None
      /\ \A g \in Handlers : hreq[g] = hreq[h] /\ hand[g] = "prepare" => g = h
    BY DEF Perform, IInv, HandlerKnows
<1>2. calls' = [calls EXCEPT ![hreq[h]] = @ + 1] /\ calls'[hreq[h]] > 0
    BY <1>1 DEF Perform, IInv, TypeOK
<1> QED
    BY <1>1, <1>2 DEF Perform, ledger, clients, runtime, BInv, UncalledIsUndone,
       BlockedIsUncalled, IInv, TypeOK

\* The end of a call is never a block.
LEMMA CallEndsKeepsBlocked ==
  ASSUME IInv, BInv, NEW h \in Handlers, CallReturns(h) \/ Refuse(h) \/ CallTimesOut(h)
  PROVE  BInv'
<1>1. hreq[h] \in Requests
    BY DEF CallReturns, Refuse, CallTimesOut, IInv, HandlerKnows
<1> QED
    BY <1>1 DEF CallReturns, Refuse, CallTimesOut, Conclude, Fail, ledger, clients, runtime,
       BInv, UncalledIsUndone, BlockedIsUncalled, IInv, TypeOK

\* The answer that is stored is the one the handler came with.
LEMMA PrepareKeepsBlocked ==
  ASSUME IInv, BInv, NEW h \in Handlers, PrepareResponse(h)
  PROVE  BInv'
<1>1. hreq[h] \in Requests /\ answer[hreq[h]] = None
    BY DEF PrepareResponse, IInv, HandlerKnows
<1> QED
    BY <1>1 DEF PrepareResponse, Free, runtime, BInv, UncalledIsUndone, BlockedIsUncalled,
       IInv, TypeOK

\* Only what was called for takes effect.
LEMMA ApplyKeepsBlocked ==
  ASSUME IInv, BInv, NEW h \in Handlers, Apply(h)
  PROVE  BInv'
<1>1. hreq[h] \in Requests /\ calls[hreq[h]] # 0
    BY DEF Apply, IInv, HandlerKnows, BInv, UncalledIsUndone
<1>2. \A r \in Requests : r # hreq[h] => effects'[r] = effects[r]
    BY <1>1 DEF Apply, Effect, IInv, TypeOK
<1> QED
    BY <1>1, <1>2 DEF Apply, ledger, clients, BInv, UncalledIsUndone, BlockedIsUncalled,
       IInv, TypeOK

\* Nor does a stray call.
LEMMA ApplyStrayKeepsBlocked ==
  ASSUME IInv, BInv, NEW q \in Requests, ApplyStray(q)
  PROVE  BInv'
<1>1. calls[q] # 0
    BY DEF ApplyStray, BInv, UncalledIsUndone
<1>2. \A r \in Requests : r # q => effects'[r] = effects[r] /\ stray'[r] = stray[r]
    BY DEF ApplyStray, Effect, IInv, TypeOK
<1> QED
    BY <1>1, <1>2 DEF ApplyStray, ledger, handlers, clients, BInv, UncalledIsUndone,
       BlockedIsUncalled, IInv, TypeOK

\* A crash leaves calls on their way only where there were some.
LEMMA CrashKeepsBlocked ==
  ASSUME IInv, BInv, Crash
  PROVE  BInv'
<1>1. crashes' # 0
    BY DEF Crash, IInv, TypeOK
<1>2. ASSUME NEW r \in Requests, calls[r] = 0
      PROVE  stray'[r] = 0
  <2> DEFINE Flying == {h \in Handlers : hreq[h] = r /\ hand[h] = "called"}
  <2>1. Flying = {} /\ stray[r] = 0
      BY <1>2 DEF BInv, UncalledIsUndone
  <2>2. stray'[r] = stray[r] + Cardinality(Flying)
      BY DEF Crash
  <2> HIDE DEF Flying
  <2>3. Cardinality(Flying) = 0
      BY <2>1, FS_EmptySet
  <2> QED
      BY <2>1, <2>2, <2>3
<1>3. /\ UNCHANGED <<effects, calls>>
      /\ \A h \in Handlers : hand'[h] = "free"
    BY DEF Crash
<1> QED
    BY <1>1, <1>2, <1>3 DEF BInv, UncalledIsUndone, BlockedIsUncalled

\* A start that is answered as blocked was not done and never will be for that
\* answer, unless the adapter crashed (AdapterState.response_syn reads the turn
\* control under the lock of the request, before it calls).
THEOREM BlockedIsNotStarted == Spec => []BlockedMeansNotStarted
<1>1. Init => BInv
    BY DEF Init, BInv, UncalledIsUndone, BlockedIsUncalled
<1>2. IInv /\ BInv /\ [Next]_vars => BInv'
  <2> SUFFICES ASSUME IInv, BInv, [Next]_vars PROVE BInv'
      OBVIOUS
  <2>1. CASE RequestWrapUp \/ NewTurn \/ UNCHANGED vars
      BY <2>1 DEF RequestWrapUp, NewTurn, vars, ledger, handlers, runtime, BInv,
         UncalledIsUndone, BlockedIsUncalled
  <2>2. ASSUME NEW h \in Handlers, Handle(h) \/ Apply(h) \/ Refuse(h)
        PROVE  BInv'
      BY <2>2, AnswersKeepBlocked, ReadControlKeepsBlocked, PerformKeepsBlocked,
         CallEndsKeepsBlocked, PrepareKeepsBlocked, ApplyKeepsBlocked DEF Handle
  <2>3. ASSUME NEW h \in Handlers, ReadControlFails(h) \/ CallTimesOut(h)
        PROVE  BInv'
      BY <2>3, ReadControlKeepsBlocked, CallEndsKeepsBlocked
  <2> QED
      BY <2>1, <2>2, <2>3, ClientsKeepBlocked, ApplyStrayKeepsBlocked, CrashKeepsBlocked DEF Next
<1>3. BInv => BlockedMeansNotStarted
    BY DEF BInv, UncalledIsUndone, BlockedIsUncalled, BlockedMeansNotStarted
<1> QED
    BY <1>1, <1>2, <1>3, Invariance, PTL DEF Spec

-----------------------------------------------------------------------------
(* The refinement of ExchangeService. *)

\* The service starts with nothing accepted.
LEMMA InitRefines == Init => Service!Init
  BY DEF Init, Service!Init

\* What takes effect in the runtime takes effect in the service, once for a start.
LEMMA EffectRefines ==
  ASSUME IInv, NEW r \in Requests, body[r] # None, Effect(r), UNCHANGED ledger
  PROVE  [Service!Next]_(Service!exchange)
<1> USE DEF ledger, Service!exchange
<1>1. CASE r \in Starts /\ effects[r] > 0
    BY <1>1 DEF Effect
<1>2. CASE ~(r \in Starts /\ effects[r] > 0)
  <2>1. /\ effects' = [effects EXCEPT ![r] = @ + 1]
        /\ ran' = [ran EXCEPT ![r] = @ \cup {body[r]}]
      BY <1>2 DEF Effect
  <2>2. ran[r] \cup {body[r]} = {body[r]}
    <3>1. ran[r] \subseteq {body[r]}
        BY DEF IInv, EffectsAccepted
    <3> QED
        BY <3>1
  <2>3. ran' = [ran EXCEPT ![r] = {body[r]}]
      BY <2>1, <2>2
  <2>4. r \in Starts => effects[r] = 0
      BY <1>2 DEF IInv, TypeOK
  <2>5. Service!TakeEffect(r)
      BY <2>1, <2>3, <2>4 DEF Service!TakeEffect
  <2> QED
      BY <2>5 DEF Service!Next
<1> QED
    BY <1>1, <1>2

\* A request is accepted with the content that arrived first.
LEMMA ReceiveRequestRefines ==
  ASSUME IInv, NEW h \in Handlers, ReceiveRequest(h)
  PROVE  [Service!Next]_(Service!exchange)
<1> DEFINE r == hreq[h]
<1>1. r \in Requests /\ hbody[h] \in Contents
    BY DEF IInv, HandlerKnows, ReceiveRequest
<1>2. CASE state[r] = "NONE"
  <2>1. {q \in Requests : state'[q] = "RESPONSE_ACKED"}
          = {q \in Requests : state[q] = "RESPONSE_ACKED"}
      BY <1>1, <1>2 DEF ReceiveRequest, IInv, TypeOK
  <2>2. Service!Accept(r, hbody[h])
      BY <1>1, <1>2, <2>1 DEF ReceiveRequest, Service!Accept, IInv, TypeOK, RowShape, runtime
  <2> QED
      BY <1>1, <2>2 DEF Service!Next
<1>3. CASE state[r] # "NONE"
    BY <1>3 DEF ReceiveRequest, Service!exchange, runtime
<1> QED
    BY <1>2, <1>3

\* Only a handler that holds the lock answers, and so once.
LEMMA PrepareResponseRefines ==
  ASSUME IInv, NEW h \in Handlers, PrepareResponse(h)
  PROVE  [Service!Next]_(Service!exchange)
<1> DEFINE r == hreq[h]
<1>1. /\ r \in Requests /\ answer[r] = None /\ body[r] # None
      /\ hres[h] \in Answers
      /\ hres[h] = "ok" => effects[r] > 0
    BY DEF IInv, TypeOK, HandlerKnows, PrepareResponse
<1>2. state[r] # "RESPONSE_ACKED"
    BY <1>1 DEF IInv, TypeOK, RowShape
<1>3. {q \in Requests : state'[q] = "RESPONSE_ACKED"}
        = {q \in Requests : state[q] = "RESPONSE_ACKED"}
    BY <1>1, <1>2 DEF PrepareResponse, IInv, TypeOK
<1>4. Service!Answer(r, hres[h])
    BY <1>1, <1>3 DEF PrepareResponse, Service!Answer, runtime
<1> QED
    BY <1>1, <1>4 DEF Service!Next

\* Only an answer that was prepared is confirmed.
LEMMA ReceiveAckRefines ==
  ASSUME IInv, NEW h \in Handlers, ReceiveAck(h)
  PROVE  [Service!Next]_(Service!exchange)
<1>1. PICK r \in Requests : r = hreq[h]
    BY DEF IInv, HandlerKnows, ReceiveAck
<1>2. CASE answer[r] # None /\ hres[h] = answer[r]
  <2>1. {q \in Requests : state'[q] = "RESPONSE_ACKED"}
          = {q \in Requests : state[q] = "RESPONSE_ACKED"} \cup {r}
      BY <1>1, <1>2 DEF ReceiveAck, IInv, TypeOK
  <2>2. Service!Confirm(r)
      BY <1>1, <1>2, <2>1 DEF ReceiveAck, Service!Confirm, runtime
  <2> QED
      BY <2>2 DEF Service!Next
<1>3. CASE ~(answer[r] # None /\ hres[h] = answer[r])
    BY <1>1, <1>3 DEF ReceiveAck, Service!exchange, runtime
<1> QED
    BY <1>2, <1>3

\* The ledger with its locks, and the runtime that knows its starts, keep the
\* promises of the protocol whatever crashes, times out or is repeated.
THEOREM ExchangeImplementsService == Spec => ImplementsExchange
<1>1. Init => Service!Init
    BY InitRefines
<1>2. IInv /\ [Next]_vars => [Service!Next]_(Service!exchange)
  <2> SUFFICES ASSUME IInv, [Next]_vars PROVE [Service!Next]_(Service!exchange)
      OBVIOUS
  <2>1. CASE UNCHANGED <<ledger, effects, ran>>
      BY <2>1 DEF ledger, Service!exchange
  <2>2. ASSUME NEW h \in Handlers, Handle(h)
        PROVE  [Service!Next]_(Service!exchange)
    <3>1. CASE AnswerAgain(h) \/ TakeRequest(h) \/ ReadControl(h) \/ Perform(h) \/ CallReturns(h)
        BY <3>1, <2>1 DEF AnswerAgain, TakeRequest, ReadControl, Perform, CallReturns, runtime
    <3> QED
        BY <2>2, <3>1, ReceiveRequestRefines, PrepareResponseRefines, ReceiveAckRefines DEF Handle
  <2>3. ASSUME NEW h \in Handlers, Apply(h)
        PROVE  [Service!Next]_(Service!exchange)
    <3>1. hreq[h] \in Requests /\ body[hreq[h]] # None
        BY <2>3 DEF Apply, IInv, HandlerKnows
    <3> QED
        BY <2>3, <3>1, EffectRefines DEF Apply
  <2>4. ASSUME NEW r \in Requests, ApplyStray(r)
        PROVE  [Service!Next]_(Service!exchange)
    <3>1. body[r] # None
        BY <2>4 DEF ApplyStray, IInv, EffectsAccepted
    <3>2. CASE Effect(r)
        BY <2>4, <3>1, <3>2, EffectRefines DEF ApplyStray
    <3> QED
        BY <2>1, <2>4, <3>2 DEF ApplyStray
  <2>5. ASSUME NEW h \in Handlers, Refuse(h) \/ ReadControlFails(h) \/ CallTimesOut(h)
        PROVE  UNCHANGED <<ledger, effects, ran>>
      BY <2>5 DEF Refuse, ReadControlFails, CallTimesOut, runtime
  <2>6. ASSUME NEW c \in Clients,
               \/ \E r \in Requests, b \in Contents : Begin(c, r, b)
               \/ \E h \in Handlers : Post(c, h)
               \/ GiveUp(c)
        PROVE  UNCHANGED <<ledger, effects, ran>>
      BY <2>6 DEF Begin, Post, GiveUp, runtime
  <2>7. ASSUME RequestWrapUp \/ NewTurn \/ Crash \/ UNCHANGED vars
        PROVE  UNCHANGED <<ledger, effects, ran>>
      BY <2>7 DEF RequestWrapUp, NewTurn, Crash, vars, runtime
  <2> QED
      BY <2>1, <2>2, <2>3, <2>4, <2>5, <2>6, <2>7 DEF Next
<1> QED
    BY <1>1, <1>2, Invariance, PTL DEF Spec, ImplementsExchange, Service!Spec
=============================================================================
