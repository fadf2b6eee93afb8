------------------------- MODULE IndexServicesProofs -------------------------
(* Proofs about the services that build, replace and search an index: seven   *)
(* parts of MCIndexServices have an inductive invariant of their own, and the *)
(* parts that rest do not move.  The queue that feeds the index, a system of  *)
(* its own, keeps its promises too (the last part).                           *)
EXTENDS MCIndexServices, IncrementalJobQueue, FiniteSetTheorems, WellFoundedInduction, TLAPS

-----------------------------------------------------------------------------
(* The test generations: pointer, journal, writers and readers.              *)

WriterPlaces == {"idle", "copy", "prepare", "publish", "switched", "restored", "recovered", "retire"}
ReaderPlaces == {"idle", "resolve", "lock", "again", "look", "read"}
Someone == Generations \cup {NoOne}
WriterStates == [at : WriterPlaces, previous : Someone, candidate : Someone]
ReaderStates == [at : ReaderPlaces, generation : Someone]

DiskTyped ==
    /\ pointer \in present /\ present \subseteq Generations /\ valid \subseteq present
    /\ transition = NoOne \/ transition \in [previous : Generations, candidate : Generations]
    /\ backups \subseteq Generations /\ retiring \subseteq Generations
    /\ publication \in Writers \cup {NoOne}
MeddledTyped == meddled \in BOOLEAN
WritersTyped == writer \in [Writers -> WriterStates]
ReadersTyped == reader \in [Readers -> ReaderStates]

\* Who is past the switch of the pointer, or removes a generation, has the lock;
\* what is removed is not in use, and a restore leaves its mark.
Holding == {"switched", "restored", "recovered", "retire"}
WritersSound ==
    \A w \in Writers :
        /\ writer[w].at \in Holding => publication = w
        /\ writer[w].at = "retire" => writer[w].candidate \in retiring /\ pointer # writer[w].candidate
        /\ writer[w].at = "restored" => meddled = TRUE

\* A reader has its generation locked before it looks whether it is there.
ReadersSound ==
    \A r \in Readers :
        /\ reader[r].at \in {"again", "look", "read"} => reader[r].generation \notin retiring
        /\ reader[r].at \in {"look", "read"} => reader[r].generation \in present

Decidable ==
    transition # NoOne /\ meddled = FALSE =>
        /\ transition.previous \in valid /\ transition.candidate \in valid
        /\ pointer \in {transition.previous, transition.candidate}

TestsInv ==
    /\ DiskTyped /\ MeddledTyped /\ WritersTyped /\ ReadersTyped
    /\ WritersSound /\ ReadersSound /\ Decidable

-----------------------------------------------------------------------------
LEMMA WritersAre == NoOne \notin Writers /\ First \subseteq Generations
  BY ServicesAssumption DEF ServicesAssumption

LEMMA TestsInit == ASSUME Tests!GenerationInit PROVE TestsInv
<1> USE DEF Tests!GenerationInit
<1>1. DiskTyped
  BY WritersAre DEF DiskTyped
<1>2. MeddledTyped
  BY DEF MeddledTyped
<1>3. WritersTyped
  <2>1. Tests!Resting \in WriterStates
    BY DEF Tests!Resting, WriterStates, WriterPlaces, Someone
  <2> QED BY <2>1 DEF WritersTyped
<1>4. ReadersTyped
  <2>1. Tests!Away \in ReaderStates
    BY DEF Tests!Away, ReaderStates, ReaderPlaces, Someone
  <2> QED BY <2>1 DEF ReadersTyped
<1>5. WritersSound
  BY DEF WritersSound, Tests!Resting, Holding
<1>6. ReadersSound
  BY DEF ReadersSound, Tests!Away
<1>7. Decidable
  BY DEF Decidable
<1> QED BY <1>1, <1>2, <1>3, <1>4, <1>5, <1>6, <1>7 DEF TestsInv

\* A writer goes on while it, or nobody, has the lock.
LEMMA WritersKeep ==
    ASSUME TestsInv, NEW w \in Writers, NEW next \in WriterStates,
           writer' = [writer EXCEPT ![w] = next],
           UNCHANGED <<publication, retiring, pointer, meddled>> \/ publication \in {NoOne, w},
           next.at \in Holding => publication' = w,
           next.at = "retire" => next.candidate \in retiring' /\ pointer' # next.candidate,
           next.at = "restored" => meddled' = TRUE
    PROVE  WritersTyped' /\ WritersSound'
<1>1. writer \in [Writers -> WriterStates]
  BY DEF TestsInv, WritersTyped
<1>2. WritersTyped'
  BY <1>1 DEF WritersTyped, WriterStates, WriterPlaces, Someone
<1>3. writer'[w] = next /\ \A x \in Writers : x # w => writer'[x] = writer[x]
  BY <1>1
<1>4. ASSUME NEW x \in Writers, x # w
      PROVE  /\ writer[x].at \in Holding => publication' = x
             /\ writer[x].at = "retire" => writer[x].candidate \in retiring' /\ pointer' # writer[x].candidate
             /\ writer[x].at = "restored" => meddled' = TRUE
  <2>1. CASE UNCHANGED <<publication, retiring, pointer, meddled>>
    BY <2>1 DEF TestsInv, WritersSound
  <2>2. CASE publication \in {NoOne, w}
    <3>1. writer[x].at \notin Holding
      BY <1>4, <2>2, WritersAre DEF TestsInv, WritersSound
    <3> QED BY <3>1 DEF Holding
  <2> QED BY <2>1, <2>2
<1>5. WritersSound'
  BY <1>3, <1>4 DEF WritersSound, Holding
<1> QED BY <1>2, <1>5

\* No writer goes on, and nobody has the lock if the pointer changes.
LEMMA WritersRest ==
    ASSUME TestsInv, UNCHANGED <<writer, publication, retiring, meddled>>,
           pointer' = pointer \/ publication = NoOne
    PROVE  WritersTyped' /\ WritersSound'
<1>1. WritersTyped'
  BY DEF TestsInv, WritersTyped, WriterStates, WriterPlaces, Someone
<1>2. ASSUME NEW x \in Writers
      PROVE  /\ writer[x].at \in Holding => publication' = x
             /\ writer[x].at = "retire" => writer[x].candidate \in retiring' /\ pointer' # writer[x].candidate
             /\ writer[x].at = "restored" => meddled' = TRUE
  <2>1. CASE pointer' = pointer
    BY <2>1 DEF TestsInv, WritersSound
  <2>2. CASE publication = NoOne
    <3>1. writer[x].at \notin Holding
      BY <2>2, WritersAre DEF TestsInv, WritersSound
    <3> QED BY <3>1 DEF Holding
  <2> QED BY <2>1, <2>2
<1>3. WritersSound'
  BY <1>2 DEF WritersSound, Holding
<1> QED BY <1>1, <1>3

\* The readers stay where they are, and none of them uses what goes.
LEMMA ReadersRest ==
    ASSUME TestsInv, UNCHANGED reader,
           \A r \in Readers : reader[r].at \in {"again", "look", "read"} => reader[r].generation \notin retiring',
           \A g \in present : g \notin present' => g \in retiring
    PROVE  ReadersTyped' /\ ReadersSound'
<1>1. ReadersTyped'
  BY DEF TestsInv, ReadersTyped, ReaderStates, ReaderPlaces, Someone
<1>2. ReadersSound'
  BY DEF TestsInv, ReadersSound
<1> QED BY <1>1, <1>2

LEMMA ReadersStay ==
    ASSUME TestsInv, UNCHANGED reader, retiring' \subseteq retiring, present \subseteq present'
    PROVE  ReadersTyped' /\ ReadersSound'
<1>1. \A r \in Readers : reader[r].at \in {"again", "look", "read"} => reader[r].generation \notin retiring'
  BY DEF TestsInv, ReadersSound
<1>2. \A g \in present : g \notin present' => g \in retiring
  OBVIOUS
<1> QED BY <1>1, <1>2, ReadersRest

-----------------------------------------------------------------------------
\* Publication.
Settled == UNCHANGED <<pointer, transition, present, valid, backups, meddled>>

LEMMA DiskStays ==
    ASSUME TestsInv, Settled, retiring' \subseteq Generations, publication' \in Writers \cup {NoOne}
    PROVE  DiskTyped' /\ MeddledTyped' /\ Decidable'
<1>1. DiskTyped'
  BY DEF TestsInv, DiskTyped, Settled
<1>2. meddled' = meddled
  BY DEF Settled
<1>3. MeddledTyped'
  BY <1>2 DEF TestsInv, MeddledTyped
<1>4. Decidable'
  BY <1>2 DEF TestsInv, Decidable, Settled
<1> QED BY <1>1, <1>3, <1>4

LEMMA WriterIs ==
    ASSUME TestsInv, NEW w \in Writers
    PROVE  /\ writer[w] \in WriterStates /\ writer[w].previous \in Someone /\ writer[w].candidate \in Someone
           /\ writer[w].at \in Holding => publication = w
           /\ Tests!Resting \in WriterStates /\ Tests!Resting.at = "idle"
           /\ \A spot \in WriterPlaces, p \in Someone, c \in Someone :
                 [at |-> spot, previous |-> p, candidate |-> c] \in WriterStates
  BY DEF TestsInv, WritersTyped, WritersSound, WriterStates, Tests!Resting, WriterPlaces, Someone

\* A writer moves, and the disk and the locks stay as they are.
LEMMA MovesAlone ==
    ASSUME TestsInv, NEW w \in Writers, NEW next \in WriterStates, next.at \notin Holding,
           writer' = [writer EXCEPT ![w] = next], Settled, UNCHANGED <<publication, retiring, reader>>
    PROVE  TestsInv'
<1>1. UNCHANGED <<publication, retiring, pointer, meddled>>
  BY DEF Settled
<1>2. WritersTyped' /\ WritersSound'
  <2>1. next.at # "retire" /\ next.at # "restored"
    BY DEF Holding
  <2> QED BY <1>1, <2>1, WritersKeep
<1>3. ReadersTyped' /\ ReadersSound'
  BY <1>1, ReadersStay DEF Settled
<1>4. DiskTyped' /\ MeddledTyped' /\ Decidable'
  BY <1>1, DiskStays DEF TestsInv, DiskTyped
<1> QED BY <1>2, <1>3, <1>4 DEF TestsInv

LEMMA PublishBeginsKeeps ==
    ASSUME TestsInv, NEW w \in Writers, NEW p \in Generations, NEW c \in Generations,
           Tests!PublishBegins(w, p, c)
    PROVE  TestsInv'
<1>1. /\ writer' = [writer EXCEPT ![w] = [at |-> "copy", previous |-> p, candidate |-> c]]
      /\ UNCHANGED <<publication, retiring, reader>>
  BY DEF Tests!PublishBegins, Tests!WriterAt
<1>2. Settled
  BY DEF Tests!PublishBegins, Tests!Files, Settled
<1>3. PICK next : next = [at |-> "copy", previous |-> p, candidate |-> c]
  OBVIOUS
<1>4. next \in WriterStates /\ next.at \notin Holding
  BY <1>3 DEF WriterStates, WriterPlaces, Someone, Holding
<1> QED BY <1>1, <1>2, <1>3, <1>4, MovesAlone

LEMMA BackupIsMadeKeeps == ASSUME TestsInv, NEW w \in Writers, Tests!BackupIsMade(w) PROVE TestsInv'
<1>1. PICK next : next = [at |-> "prepare", previous |-> writer[w].previous, candidate |-> writer[w].candidate]
  OBVIOUS
<1>2. /\ writer' = [writer EXCEPT ![w] = next] /\ writer[w].previous \in valid
      /\ backups' = backups \cup {writer[w].previous}
      /\ UNCHANGED <<pointer, transition, present, valid, publication, retiring, reader>> /\ meddled' = meddled
  BY <1>1 DEF Tests!BackupIsMade, Tests!WriterGoes, Tests!WriterAt
<1>3. next \in WriterStates /\ next.at = "prepare" /\ next.at \notin Holding
  BY <1>1, WriterIs DEF WriterPlaces, Holding
<1>4. WritersTyped' /\ WritersSound'
  <2>1. UNCHANGED <<publication, retiring, pointer, meddled>>
    BY <1>2
  <2> QED BY <1>2, <1>3, <2>1, WritersKeep
<1>5. ReadersTyped' /\ ReadersSound'
  BY <1>2, ReadersStay
<1>6. DiskTyped'
  BY <1>2 DEF TestsInv, DiskTyped
<1>7. MeddledTyped'
  BY <1>2 DEF TestsInv, MeddledTyped
<1>8. Decidable'
  BY <1>2 DEF TestsInv, Decidable
<1> QED BY <1>4, <1>5, <1>6, <1>7, <1>8 DEF TestsInv

LEMMA PrepareTransitionKeeps == ASSUME TestsInv, NEW w \in Writers, Tests!PrepareTransition(w) PROVE TestsInv'
<1>1. PICK p, c : p = writer[w].previous /\ c = writer[w].candidate
  OBVIOUS
<1>2. PICK next : next = [at |-> "publish", previous |-> p, candidate |-> c]
  OBVIOUS
<1>3. /\ publication = NoOne /\ pointer = p /\ p \in valid /\ c \in valid
      /\ transition' = [previous |-> p, candidate |-> c] /\ meddled' = FALSE
      /\ writer' = [writer EXCEPT ![w] = next]
      /\ UNCHANGED <<pointer, publication, retiring, reader, present, valid, backups>>
  BY <1>1, <1>2 DEF Tests!PrepareTransition, Tests!WriterGoes, Tests!WriterAt, Tests!Validated, Tests!Files
<1>4. next \in WriterStates /\ next.at = "publish" /\ next.at \notin Holding
  BY <1>1, <1>2, WriterIs DEF WriterPlaces, Holding
<1>5. WritersTyped' /\ WritersSound'
  BY <1>3, <1>4, WritersKeep
<1>6. ReadersTyped' /\ ReadersSound'
  BY <1>3, ReadersStay
<1>7. transition' \in [previous : Generations, candidate : Generations]
      /\ transition'.previous = p /\ transition'.candidate = c
  BY <1>3 DEF TestsInv, DiskTyped
<1>8. DiskTyped'
  BY <1>3, <1>7 DEF TestsInv, DiskTyped
<1>9. MeddledTyped'
  BY <1>3 DEF MeddledTyped
<1>10. Decidable'
  BY <1>3, <1>7 DEF Decidable
<1> QED BY <1>5, <1>6, <1>8, <1>9, <1>10 DEF TestsInv

LEMMA PublishSwitchesKeeps == ASSUME TestsInv, NEW w \in Writers, Tests!PublishSwitches(w) PROVE TestsInv'
<1>1. PICK p, c : p = writer[w].previous /\ c = writer[w].candidate
  OBVIOUS
<1>2. PICK next : next = [at |-> "switched", previous |-> p, candidate |-> c]
  OBVIOUS
<1>3. /\ publication = NoOne /\ publication' = w /\ pointer = p /\ c \in valid
      /\ transition.previous = p /\ transition.candidate = c /\ pointer' = c
      /\ writer' = [writer EXCEPT ![w] = next] /\ meddled' = meddled
      /\ UNCHANGED <<transition, retiring, reader, present, valid, backups>>
  BY <1>1, <1>2 DEF Tests!PublishSwitches, Tests!Takes, Tests!StillOurs, Tests!WriterGoes, Tests!WriterAt,
                    Tests!Validated, Tests!Files
<1>4. next \in WriterStates /\ next.at = "switched"
  BY <1>1, <1>2, WriterIs DEF WriterPlaces
<1>5. WritersTyped' /\ WritersSound'
  BY <1>3, <1>4, WritersKeep
<1>6. ReadersTyped' /\ ReadersSound'
  BY <1>3, ReadersStay
<1>7. DiskTyped'
  BY <1>3 DEF TestsInv, DiskTyped
<1>8. MeddledTyped'
  BY <1>3 DEF TestsInv, MeddledTyped
<1>9. Decidable'
  BY <1>3 DEF TestsInv, Decidable
<1> QED BY <1>5, <1>6, <1>7, <1>8, <1>9 DEF TestsInv

\* A writer that has the lock returns and clears the journal, or leaves it.
LEMMA EndsKeeps ==
    ASSUME TestsInv, NEW w \in Writers, publication = w, publication' = NoOne,
           writer' = [writer EXCEPT ![w] = Tests!Resting],
           transition' \in {transition, NoOne}, meddled' = meddled,
           UNCHANGED <<pointer, retiring, reader, present, valid, backups>>
    PROVE  TestsInv'
<1>1. Tests!Resting \in WriterStates /\ Tests!Resting.at = "idle"
  BY WriterIs
<1>2. WritersTyped' /\ WritersSound'
  <2>1. Tests!Resting.at \notin Holding /\ Tests!Resting.at # "retire" /\ Tests!Resting.at # "restored"
    BY <1>1 DEF Holding
  <2> QED BY <1>1, <2>1, WritersKeep
<1>3. ReadersTyped' /\ ReadersSound'
  BY ReadersStay
<1>4. DiskTyped'
  BY DEF TestsInv, DiskTyped
<1>5. MeddledTyped'
  BY DEF TestsInv, MeddledTyped
<1>6. Decidable'
  BY DEF TestsInv, Decidable
<1> QED BY <1>2, <1>3, <1>4, <1>5, <1>6 DEF TestsInv

LEMMA OperationEndsKeeps ==
    ASSUME TestsInv, NEW w \in Writers,
           Tests!PublishEnds(w) \/ Tests!RestoreEnds(w) \/ Tests!RecoverEnds(w)
    PROVE  TestsInv'
<1>1. /\ writer[w].at \in Holding /\ publication' = NoOne /\ writer' = [writer EXCEPT ![w] = Tests!Resting]
      /\ transition' \in {transition, NoOne}
      /\ UNCHANGED <<pointer, retiring, reader, present, valid, backups>>
  BY DEF Tests!PublishEnds, Tests!RestoreEnds, Tests!RecoverEnds, Tests!Release, Tests!Return, Tests!Files, Holding
<1>2. meddled' = meddled
  BY DEF Tests!PublishEnds, Tests!RestoreEnds, Tests!RecoverEnds
<1>3. publication = w
  BY <1>1, WriterIs
<1> QED BY <1>1, <1>2, <1>3, EndsKeeps

-----------------------------------------------------------------------------
\* The other operations.
LEMMA ActivateKeeps ==
    ASSUME TestsInv, NEW w \in Writers, NEW g \in Generations, Tests!Activate(w, g) PROVE TestsInv'
<1>1. /\ publication = NoOne /\ transition = NoOne /\ g \in present /\ pointer' = g
      /\ UNCHANGED <<transition, publication, retiring, writer, reader, present, valid, backups>>
  BY DEF Tests!Activate, Tests!Pending, Tests!Files
<1>2. meddled' = meddled
  BY DEF Tests!Activate
<1>3. WritersTyped' /\ WritersSound'
  BY <1>1, <1>2, WritersRest
<1>4. ReadersTyped' /\ ReadersSound'
  BY <1>1, ReadersStay
<1>5. DiskTyped' /\ MeddledTyped' /\ Decidable'
  BY <1>1, <1>2 DEF TestsInv, DiskTyped, MeddledTyped, Decidable
<1> QED BY <1>3, <1>4, <1>5 DEF TestsInv

LEMMA RestoreSwitchesKeeps ==
    ASSUME TestsInv, NEW w \in Writers, NEW g \in Generations, Tests!RestoreSwitches(w, g) PROVE TestsInv'
<1>1. PICK next : next = [at |-> "restored", previous |-> pointer, candidate |-> g]
  OBVIOUS
<1>2. /\ publication = NoOne /\ publication' = w /\ g \in valid /\ pointer' = g
      /\ writer' = [writer EXCEPT ![w] = next]
      /\ UNCHANGED <<transition, retiring, reader, present, valid, backups>>
  BY <1>1 DEF Tests!RestoreSwitches, Tests!Takes, Tests!WriterAt, Tests!Files
<1>3. meddled' = TRUE
  BY DEF Tests!RestoreSwitches
<1>4. next \in WriterStates /\ next.at = "restored"
  BY <1>1, WriterIs DEF WriterPlaces, Someone, TestsInv, DiskTyped
<1>5. WritersTyped' /\ WritersSound'
  BY <1>2, <1>3, <1>4, WritersKeep
<1>6. ReadersTyped' /\ ReadersSound'
  BY <1>2, ReadersStay
<1>7. DiskTyped'
  BY <1>2 DEF TestsInv, DiskTyped
<1>8. MeddledTyped' /\ Decidable'
  BY <1>3 DEF MeddledTyped, Decidable
<1> QED BY <1>5, <1>6, <1>7, <1>8 DEF TestsInv

LEMMA RestoreRollsBackKeeps ==
    ASSUME TestsInv, NEW w \in Writers, Tests!RestoreRollsBack(w) PROVE TestsInv'
<1>1. /\ writer[w].at = "restored" /\ writer[w].previous \in valid /\ pointer' = writer[w].previous
      /\ publication' = NoOne /\ writer' = [writer EXCEPT ![w] = Tests!Resting]
      /\ UNCHANGED <<transition, retiring, reader, present, valid, backups>>
  BY DEF Tests!RestoreRollsBack, Tests!Release, Tests!Return, Tests!Files
<1>2. meddled' = meddled
  BY DEF Tests!RestoreRollsBack
<1>3. meddled = TRUE /\ publication = w
  BY <1>1, WriterIs DEF TestsInv, WritersSound, Holding
<1>4. WritersTyped' /\ WritersSound'
  <2>1. Tests!Resting \in WriterStates /\ Tests!Resting.at = "idle"
    BY WriterIs
  <2>2. Tests!Resting.at \notin Holding /\ Tests!Resting.at # "retire" /\ Tests!Resting.at # "restored"
    BY <2>1 DEF Holding
  <2> QED BY <1>1, <1>3, <2>1, <2>2, WritersKeep
<1>5. ReadersTyped' /\ ReadersSound'
  BY <1>1, ReadersStay
<1>6. DiskTyped'
  BY <1>1 DEF TestsInv, DiskTyped
<1>7. MeddledTyped' /\ Decidable'
  BY <1>2, <1>3 DEF MeddledTyped, Decidable
<1> QED BY <1>4, <1>5, <1>6, <1>7 DEF TestsInv

LEMMA RecoverSwitchesKeeps == ASSUME TestsInv, NEW w \in Writers, Tests!RecoverSwitches(w) PROVE TestsInv'
<1>1. PICK next : next = [at |-> "recovered", previous |-> transition.previous, candidate |-> transition.candidate]
  OBVIOUS
<1>2. /\ publication = NoOne /\ publication' = w /\ transition # NoOne
      /\ transition.previous \in valid /\ transition.candidate \in valid /\ pointer' = transition.previous
      /\ writer' = [writer EXCEPT ![w] = next]
      /\ UNCHANGED <<transition, retiring, reader, present, valid, backups>>
  BY <1>1 DEF Tests!RecoverSwitches, Tests!Takes, Tests!WriterAt, Tests!Files, Tests!Pending, Tests!Recoverable
<1>3. meddled' = meddled
  BY DEF Tests!RecoverSwitches
<1>4. next \in WriterStates /\ next.at = "recovered"
  BY <1>1, <1>2, WriterIs DEF WriterPlaces, Someone, TestsInv, DiskTyped
<1>5. WritersTyped' /\ WritersSound'
  BY <1>2, <1>4, WritersKeep
<1>6. ReadersTyped' /\ ReadersSound'
  BY <1>2, ReadersStay
<1>7. DiskTyped'
  BY <1>2 DEF TestsInv, DiskTyped
<1>8. MeddledTyped'
  BY <1>3 DEF TestsInv, MeddledTyped
<1>9. Decidable'
  BY <1>2, <1>3 DEF TestsInv, Decidable
<1> QED BY <1>5, <1>6, <1>7, <1>8, <1>9 DEF TestsInv

LEMMA RetireBeginsKeeps ==
    ASSUME TestsInv, NEW w \in Writers, NEW g \in Generations, Tests!RetireBegins(w, g) PROVE TestsInv'
<1>1. PICK next : next = [at |-> "retire", previous |-> NoOne, candidate |-> g]
  OBVIOUS
<1>2. /\ publication = NoOne /\ publication' = w /\ pointer # g /\ retiring' = retiring \cup {g}
      /\ writer' = [writer EXCEPT ![w] = next] /\ ~Tests!SharedOn(g)
      /\ UNCHANGED <<pointer, transition, reader, present, valid, backups>>
  BY <1>1 DEF Tests!RetireBegins, Tests!Takes, Tests!WriterAt, Tests!Files
<1>3. meddled' = meddled
  BY DEF Tests!RetireBegins
<1>4. next \in WriterStates /\ next.at = "retire" /\ next.candidate = g
  BY <1>1, WriterIs DEF WriterPlaces, Someone
<1>5. WritersTyped' /\ WritersSound'
  BY <1>2, <1>4, WritersKeep
<1>6. ReadersTyped' /\ ReadersSound'
  <2>1. \A r \in Readers : reader[r].at \in {"again", "look", "read"} => reader[r].generation # g
    BY <1>2 DEF Tests!SharedOn
  <2>2. \A r \in Readers : reader[r].at \in {"again", "look", "read"} => reader[r].generation \notin retiring'
    BY <1>2, <2>1 DEF TestsInv, ReadersSound
  <2> QED BY <1>2, <2>2, ReadersRest
<1>7. DiskTyped'
  BY <1>2 DEF TestsInv, DiskTyped
<1>8. MeddledTyped'
  BY <1>3 DEF TestsInv, MeddledTyped
<1>9. Decidable'
  BY <1>2, <1>3 DEF TestsInv, Decidable
<1> QED BY <1>5, <1>6, <1>7, <1>8, <1>9 DEF TestsInv

LEMMA RetireRemovesKeeps == ASSUME TestsInv, NEW w \in Writers, Tests!RetireRemoves(w) PROVE TestsInv'
<1>1. PICK g : g = writer[w].candidate
  OBVIOUS
<1>2. /\ writer[w].at = "retire" /\ present' = present \ {g} /\ valid' = valid \ {g}
      /\ retiring' = retiring \ {g} /\ publication' = NoOne /\ writer' = [writer EXCEPT ![w] = Tests!Resting]
      /\ UNCHANGED <<pointer, transition, backups, reader>>
  BY <1>1 DEF Tests!RetireRemoves, Tests!Release, Tests!Return
<1>3. meddled' = TRUE
  BY DEF Tests!RetireRemoves
<1>4. publication = w /\ g \in retiring /\ pointer # g
  BY <1>1, <1>2 DEF TestsInv, WritersSound, Holding
<1>5. WritersTyped' /\ WritersSound'
  <2>1. Tests!Resting \in WriterStates /\ Tests!Resting.at = "idle"
    BY WriterIs
  <2>2. Tests!Resting.at \notin Holding /\ Tests!Resting.at # "retire" /\ Tests!Resting.at # "restored"
    BY <2>1 DEF Holding
  <2> QED BY <1>2, <1>4, <2>1, <2>2, WritersKeep
<1>6. ReadersTyped' /\ ReadersSound'
  <2>1. \A r \in Readers : reader[r].at \in {"again", "look", "read"} => reader[r].generation \notin retiring'
    BY <1>2 DEF TestsInv, ReadersSound
  <2> QED BY <1>2, <1>4, <2>1, ReadersRest
<1>7. DiskTyped'
  BY <1>2, <1>4 DEF TestsInv, DiskTyped
<1>8. MeddledTyped' /\ Decidable'
  BY <1>3 DEF MeddledTyped, Decidable
<1> QED BY <1>5, <1>6, <1>7, <1>8 DEF TestsInv

LEMMA AppearsKeeps ==
    ASSUME TestsInv, NEW w \in Writers, NEW g \in Generations,
           Tests!RestoreCopy(w, g) \/ \E sound \in BOOLEAN : Tests!PrepareGeneration(w, g, sound)
    PROVE  TestsInv'
<1>1. /\ present' = present \cup {g} /\ valid' \in {valid, valid \cup {g}}
      /\ UNCHANGED <<pointer, transition, backups, publication, retiring, writer, reader>>
  BY DEF Tests!RestoreCopy, Tests!PrepareGeneration
<1>2. meddled' = meddled
  BY DEF Tests!RestoreCopy, Tests!PrepareGeneration
<1>3. WritersTyped' /\ WritersSound'
  BY <1>1, <1>2, WritersRest
<1>4. ReadersTyped' /\ ReadersSound'
  BY <1>1, ReadersStay
<1>5. DiskTyped'
  BY <1>1 DEF TestsInv, DiskTyped
<1>6. MeddledTyped'
  BY <1>2 DEF TestsInv, MeddledTyped
<1>7. Decidable'
  BY <1>1, <1>2 DEF TestsInv, Decidable
<1> QED BY <1>3, <1>4, <1>5, <1>6, <1>7 DEF TestsInv

LEMMA StopsKeeps == ASSUME TestsInv, NEW w \in Writers, Tests!Stops(w) PROVE TestsInv'
<1>1. /\ writer' = [writer EXCEPT ![w] = Tests!Resting]
      /\ publication' = IF publication = w THEN NoOne ELSE publication
      /\ retiring' \subseteq retiring /\ (writer[w].at # "retire" => retiring' = retiring)
      /\ UNCHANGED reader
  BY DEF Tests!Stops, Tests!Return
<1>2. Settled
  BY DEF Tests!Stops, Tests!Files, Settled
<1>3. Tests!Resting \in WriterStates /\ Tests!Resting.at = "idle"
  BY WriterIs
<1>4. WritersTyped' /\ WritersSound'
  <2>1. UNCHANGED <<publication, retiring, pointer, meddled>> \/ publication \in {NoOne, w}
    <3>1. CASE publication = w
      BY <3>1
    <3>2. CASE publication # w
      <4>1. writer[w].at # "retire"
        BY <3>2, WriterIs DEF Holding
      <4> QED BY <1>1, <1>2, <3>2, <4>1 DEF Settled
    <3> QED BY <3>1, <3>2
  <2>2. Tests!Resting.at \notin Holding /\ Tests!Resting.at # "retire" /\ Tests!Resting.at # "restored"
    BY <1>3 DEF Holding
  <2> QED BY <1>1, <1>3, <2>1, <2>2, WritersKeep
<1>5. ReadersTyped' /\ ReadersSound'
  BY <1>1, <1>2, ReadersStay DEF Settled
<1>6. DiskTyped' /\ MeddledTyped' /\ Decidable'
  <2>1. retiring' \subseteq Generations /\ publication' \in Writers \cup {NoOne}
    BY <1>1 DEF TestsInv, DiskTyped
  <2> QED BY <1>2, <2>1, DiskStays
<1> QED BY <1>4, <1>5, <1>6 DEF TestsInv

LEMMA ReadKeepsTests == ASSUME TestsInv, NEW r \in Readers, Tests!Read(r) PROVE TestsInv'
<1>1. PICK spot \in ReaderPlaces, g \in Someone :
          /\ Tests!ReaderAt(r, spot, g)
          /\ spot \in {"again", "look", "read"} => g \notin retiring
          /\ spot \in {"look", "read"} => g \in present
  <2>1. /\ reader[r].generation \in Someone /\ pointer \in Someone /\ NoOne \in Someone /\ pointer \in present
        /\ reader[r].at \in {"again", "look", "read"} => reader[r].generation \notin retiring
        /\ reader[r].at \in {"look", "read"} => reader[r].generation \in present
    BY DEF TestsInv, DiskTyped, ReadersTyped, ReaderStates, ReadersSound, Someone
  <2>2. CASE Tests!ReaderBegins(r) \/ Tests!ReaderIsBusy(r)
    BY <2>1, <2>2 DEF Tests!ReaderBegins, Tests!ReaderIsBusy, ReaderPlaces
  <2>3. CASE Tests!Resolve(r) \/ Tests!ReaderLeaves(r)
    BY <2>1, <2>3 DEF Tests!Resolve, Tests!ReaderLeaves, ReaderPlaces
  <2>4. CASE Tests!ReaderLocks(r) \/ Tests!ReaderLooks(r)
    BY <2>1, <2>4 DEF Tests!ReaderLocks, Tests!ReaderLooks, ReaderPlaces
  <2>5. CASE Tests!ResolveAgain(r)
    BY <2>1, <2>5 DEF Tests!ResolveAgain, ReaderPlaces
  <2> QED BY <2>2, <2>3, <2>4, <2>5 DEF Tests!Read
<1>2. PICK next : next = [at |-> spot, generation |-> g]
  OBVIOUS
<1>3. next \in ReaderStates /\ next.at = spot /\ next.generation = g
  BY <1>1, <1>2 DEF ReaderStates
<1>4. reader' = [reader EXCEPT ![r] = next] /\ UNCHANGED <<publication, retiring, writer>>
  BY <1>1, <1>2 DEF Tests!ReaderAt
<1>5. Settled
  BY <1>1 DEF Tests!ReaderAt, Tests!Files, Settled
<1>6. reader \in [Readers -> ReaderStates]
  BY DEF TestsInv, ReadersTyped
<1>7. ReadersTyped'
  BY <1>3, <1>4, <1>6 DEF ReadersTyped, ReaderStates, ReaderPlaces, Someone
<1>8. ReadersSound'
  <2>1. retiring' = retiring /\ present' = present
    BY <1>4, <1>5 DEF Settled
  <2>2. ASSUME NEW x \in Readers
        PROVE  /\ reader'[x].at \in {"again", "look", "read"} => reader'[x].generation \notin retiring
               /\ reader'[x].at \in {"look", "read"} => reader'[x].generation \in present
    <3>1. CASE x = r
      BY <1>1, <1>3, <1>4, <1>6, <3>1
    <3>2. CASE x # r
      <4>1. reader'[x] = reader[x]
        BY <1>4, <1>6, <3>2
      <4> QED BY <4>1 DEF TestsInv, ReadersSound
    <3> QED BY <3>1, <3>2
  <2> QED BY <2>1, <2>2 DEF ReadersSound
<1>9. WritersTyped' /\ WritersSound'
  BY <1>4, <1>5, WritersRest DEF Settled
<1>10. DiskTyped' /\ MeddledTyped' /\ Decidable'
  BY <1>4, <1>5, DiskStays DEF TestsInv, DiskTyped
<1> QED BY <1>7, <1>8, <1>9, <1>10 DEF TestsInv

LEMMA TestsStep == ASSUME TestsInv, Tests!GenerationNext PROVE TestsInv'
<1>1. ASSUME NEW w \in Writers, Tests!Publish(w) PROVE TestsInv'
  BY <1>1, PublishBeginsKeeps, BackupIsMadeKeeps, PrepareTransitionKeeps, PublishSwitchesKeeps, OperationEndsKeeps
  DEF Tests!Publish
<1>2. ASSUME NEW w \in Writers, Tests!Operate(w) PROVE TestsInv'
  <2>1. CASE Tests!RestoreEnds(w) \/ Tests!RecoverEnds(w) \/ Tests!RestoreRollsBack(w) \/ Tests!RecoverSwitches(w)
    BY <2>1, OperationEndsKeeps, RestoreRollsBackKeeps, RecoverSwitchesKeeps
  <2>2. CASE Tests!RetireRemoves(w) \/ Tests!Stops(w)
    BY <2>2, RetireRemovesKeeps, StopsKeeps
  <2>3. ASSUME NEW g \in Generations,
               \/ Tests!Activate(w, g) \/ Tests!RestoreSwitches(w, g) \/ Tests!RetireBegins(w, g)
               \/ Tests!RestoreCopy(w, g) \/ \E sound \in BOOLEAN : Tests!PrepareGeneration(w, g, sound)
        PROVE TestsInv'
    BY <2>3, ActivateKeeps, RestoreSwitchesKeeps, RetireBeginsKeeps, AppearsKeeps
  <2> QED BY <1>2, <2>1, <2>2, <2>3 DEF Tests!Operate
<1> QED BY <1>1, <1>2, ReadKeepsTests DEF Tests!GenerationNext

LEMMA TestsImply ==
    ASSUME TestsInv
    PROVE  Tests!GenerationTypeOK /\ Tests!GenerationInUseExists /\ Tests!PendingIsDecidable
<1>1. Tests!GenerationTypeOK
  <2>1. meddled \in BOOLEAN
    BY DEF TestsInv, MeddledTyped
  <2>2. \A w \in Writers : writer[w].at \in WriterPlaces
    BY DEF TestsInv, WritersTyped, WriterStates
  <2>3. \A r \in Readers : reader[r].at \in ReaderPlaces
    BY DEF TestsInv, ReadersTyped, ReaderStates
  <2> QED BY <2>1, <2>2, <2>3 DEF Tests!GenerationTypeOK, TestsInv, DiskTyped, WriterPlaces, ReaderPlaces
<1>2. Tests!GenerationInUseExists
  BY DEF TestsInv, DiskTyped, ReadersSound, Tests!GenerationInUseExists
<1>3. Tests!PendingIsDecidable
  <2>1. meddled \in BOOLEAN
    BY DEF TestsInv, MeddledTyped
  <2>2. ~meddled => meddled = FALSE
    BY <2>1
  <2> QED BY <2>2 DEF TestsInv, Decidable, Tests!PendingIsDecidable, Tests!Pending, Tests!Recoverable
<1> QED BY <1>1, <1>2, <1>3

LEMMA TestsRest == ASSUME TestsInv, UNCHANGED tests PROVE TestsInv'
<1>1. Settled /\ UNCHANGED <<publication, retiring, reader, writer>>
  BY DEF tests, Settled
<1>2. DiskTyped' /\ MeddledTyped' /\ Decidable'
  BY <1>1, DiskStays DEF TestsInv, DiskTyped
<1>3. WritersTyped' /\ WritersSound'
  BY <1>1, WritersRest DEF Settled
<1>4. ReadersTyped' /\ ReadersSound'
  BY <1>1, ReadersStay DEF Settled
<1> QED BY <1>2, <1>3, <1>4 DEF TestsInv

-----------------------------------------------------------------------------
(* The recovery of the update: installation, journal, ledger and workers.    *)

WorkerPlaces == {"idle", "reserve", "open", "arm", "files", "replace", "filed", "read", "shellarm",
                 "shell", "written", "undo", "shown", "prove", "conclude", "finish", "mark"}
Whereabouts == [Targets \cup Items -> {"new", "old"}]
Recollections == [Items -> {"new", "old"}]
WorkerStates == [at : WorkerPlaces, own : Nat, resumed : BOOLEAN, left : SUBSET (Targets \cup Items),
                 prior : {<<>>} \cup Recollections]

PlaceTyped == place \in Whereabouts
JournalTyped == journal \in [is : {"absent", "open", "verified", "torn"}, count : Nat]
LedgerTyped ==
    /\ ledger \in [attempts : 0..MaxAttempts, is : {"ready", "review", "terminal"}]
    /\ holder \in Workers \cup {NoOne}
FlagsTyped == pending \in BOOLEAN /\ overlapped \in BOOLEAN
WorkersTyped == worker \in [Workers -> WorkerStates]

\* A worker that writes the ledger has its lock and an attempt left, one that
\* writes the shell has read what was there, and one that closes the ledger
\* closed the journal before.
Shelling == {"shellarm", "shell", "written", "undo"}
WorkersSound ==
    \A w \in Workers :
        /\ worker[w].at \in {"reserve", "mark"} => holder = w
        /\ worker[w].at = "reserve" => ledger.attempts < MaxAttempts
        /\ worker[w].at \in Shelling => worker[w].prior \in Recollections
        /\ worker[w].at \in {"finish", "mark"} => journal.is = "verified"

\* Unless workers overlapped, one is at work at a time, and from the final check
\* on everything is back and nobody is where it could be changed.
Afterwards == {"idle", "reserve", "open", "finish", "mark"}
NobodyOverlaps ==
    overlapped = FALSE =>
        /\ \A v, w \in Workers : worker[v].at # "idle" /\ worker[w].at # "idle" => v = w
        /\ \A w \in Workers : worker[w].at = "conclude" => Recovery!Whole
        /\ journal.is = "verified" =>
               Recovery!Whole /\ \A w \in Workers : worker[w].at \in Afterwards

Recorded ==
    /\ ledger.is = "terminal" => journal.is = "verified"
    /\ verifiers = 0 \/ (verifiers = 1 /\ journal.is = "verified")

RecoveryInv ==
    /\ PlaceTyped /\ JournalTyped /\ LedgerTyped /\ FlagsTyped /\ WorkersTyped
    /\ WorkersSound /\ NobodyOverlaps /\ Recorded
-----------------------------------------------------------------------------
LEMMA WorkersAre == NoOne \notin Workers /\ MaxAttempts \in Nat /\ 0 \in 0..MaxAttempts
  BY ServicesAssumption DEF ServicesAssumption

LEMMA RecoveryInit == ASSUME Recovery!RecoveryInit PROVE RecoveryInv
<1> USE DEF Recovery!RecoveryInit
<1>1. PlaceTyped
  BY DEF PlaceTyped, Whereabouts
<1>2. JournalTyped
  BY DEF JournalTyped
<1>3. LedgerTyped
  BY WorkersAre DEF LedgerTyped
<1>4. FlagsTyped
  BY DEF FlagsTyped
<1>5. WorkersTyped
  <2>1. Recovery!Resting \in WorkerStates
    BY DEF Recovery!Resting, WorkerStates, WorkerPlaces
  <2> QED BY <2>1 DEF WorkersTyped
<1>6. \A w \in Workers : worker[w].at = "idle"
  BY DEF Recovery!Resting
<1>7. WorkersSound
  BY <1>6 DEF WorkersSound, Shelling
<1>8. NobodyOverlaps
  BY <1>6 DEF NobodyOverlaps
<1>9. Recorded
  BY DEF Recorded
<1> QED BY <1>1, <1>2, <1>3, <1>4, <1>5, <1>7, <1>8, <1>9 DEF RecoveryInv

-----------------------------------------------------------------------------
\* A worker goes on; it writes the ledger alone.
LEMMA WorkersKeep ==
    ASSUME RecoveryInv, NEW w \in Workers, NEW next \in WorkerStates,
           worker' = [worker EXCEPT ![w] = next],
           holder' = holder \/ holder = NoOne \/ holder = w,
           ledger' = ledger \/ holder = w,
           journal.is = "verified" => journal'.is = "verified",
           next.at \in {"reserve", "mark"} => holder' = w,
           next.at = "reserve" => ledger'.attempts < MaxAttempts,
           next.at \in Shelling => next.prior \in Recollections,
           next.at \in {"finish", "mark"} => journal'.is = "verified"
    PROVE  WorkersTyped' /\ WorkersSound' /\ worker'[w] = next /\ \A x \in Workers : x # w => worker'[x] = worker[x]
<1>1. worker \in [Workers -> WorkerStates]
  BY DEF RecoveryInv, WorkersTyped
<1>2. worker' \in [Workers -> WorkerStates]
  BY <1>1
<1>3. WorkersTyped'
  BY <1>2 DEF WorkersTyped, WorkerStates, WorkerPlaces, Recollections
<1>4. worker'[w] = next /\ \A x \in Workers : x # w => worker'[x] = worker[x]
  BY <1>1
<1>5. ASSUME NEW x \in Workers, x # w
      PROVE  /\ worker[x].at \in {"reserve", "mark"} => holder' = x
             /\ worker[x].at = "reserve" => ledger'.attempts < MaxAttempts
             /\ worker[x].at \in Shelling => worker[x].prior \in Recollections
             /\ worker[x].at \in {"finish", "mark"} => journal'.is = "verified"
  <2>1. worker[x].at \in {"reserve", "mark"} => holder = x /\ holder' = x /\ ledger' = ledger
    BY <1>5, WorkersAre DEF RecoveryInv, WorkersSound
  <2> QED BY <2>1 DEF RecoveryInv, WorkersSound
<1>6. ASSUME NEW x \in Workers
      PROVE  /\ worker'[x].at \in {"reserve", "mark"} => holder' = x
             /\ worker'[x].at = "reserve" => ledger'.attempts < MaxAttempts
             /\ worker'[x].at \in Shelling => worker'[x].prior \in Recollections
             /\ worker'[x].at \in {"finish", "mark"} => journal'.is = "verified"
  BY <1>4, <1>5
<1>7. WorkersSound'
  BY <1>6 DEF WorkersSound, Shelling, Recollections
<1> QED BY <1>3, <1>4, <1>7

LEMMA WorkerIs ==
    ASSUME RecoveryInv, NEW w \in Workers
    PROVE  /\ worker[w] \in WorkerStates
           /\ worker[w].at \in WorkerPlaces /\ worker[w].own \in Nat /\ worker[w].resumed \in BOOLEAN
           /\ worker[w].left \subseteq Targets \cup Items /\ worker[w].prior \in {<<>>} \cup Recollections
           /\ Recovery!Resting \in WorkerStates /\ Recovery!Resting.at = "idle"
           /\ worker \in [Workers -> WorkerStates]
<1>1. worker[w] \in WorkerStates /\ worker \in [Workers -> WorkerStates]
  BY DEF RecoveryInv, WorkersTyped
<1>2. Recovery!Resting \in WorkerStates /\ Recovery!Resting.at = "idle"
  BY DEF Recovery!Resting, WorkerStates, WorkerPlaces
<1> QED BY <1>1, <1>2 DEF WorkerStates

LEMMA JournalIs ==
    ASSUME RecoveryInv
    PROVE  /\ journal.is \in {"absent", "open", "verified", "torn"} /\ journal.count \in Nat
           /\ journal = [is |-> journal.is, count |-> journal.count]
           /\ [journal EXCEPT !.count = @ + 1] = [is |-> journal.is, count |-> journal.count + 1]
  BY DEF RecoveryInv, JournalTyped

\* A stage of a worker that is at work: it may restore something, write a record
\* or tear it, and lose the lock it had.
LEMMA StageKeeps ==
    ASSUME RecoveryInv, NEW w \in Workers, NEW next \in WorkerStates,
           worker' = [worker EXCEPT ![w] = next], worker[w].at # "idle",
           next.at \notin {"reserve", "finish", "mark"},
           next.at \in Shelling => next.prior \in Recollections,
           next.at = "conclude" => Recovery!Whole,
           worker[w].at \in Afterwards /\ journal.is = "verified" => next.at \in Afterwards,
           place' \in Whereabouts,
           place' = place \/ (worker[w].at \notin Afterwards /\ next.at # "conclude"),
           journal' \in [is : {"absent", "open", "verified", "torn"}, count : Nat],
           (journal.is = "verified") <=> (journal'.is = "verified"),
           holder' = holder \/ (holder = w /\ holder' = NoOne),
           ledger' = ledger, pending' = pending, overlapped' = overlapped, verifiers' = verifiers
    PROVE  RecoveryInv'
<1>1. /\ WorkersTyped' /\ WorkersSound' /\ worker'[w] = next
      /\ \A x \in Workers : x # w => worker'[x] = worker[x]
  BY WorkersKeep
<1>2. PlaceTyped'
  BY DEF PlaceTyped, Whereabouts
<1>3. JournalTyped'
  BY DEF JournalTyped
<1>4. LedgerTyped'
  BY DEF RecoveryInv, LedgerTyped
<1>5. FlagsTyped'
  <2>1. pending' \in BOOLEAN
    BY DEF RecoveryInv, FlagsTyped
  <2>2. overlapped' \in BOOLEAN
    BY DEF RecoveryInv, FlagsTyped
  <2> QED BY <2>1, <2>2 DEF FlagsTyped
<1>6. NobodyOverlaps'
  <2>1. SUFFICES ASSUME overlapped' = FALSE
                 PROVE  /\ \A v, x \in Workers : worker'[v].at # "idle" /\ worker'[x].at # "idle" => v = x
                        /\ \A x \in Workers : worker'[x].at = "conclude" => Recovery!Whole'
                        /\ journal'.is = "verified" =>
                               Recovery!Whole' /\ \A x \in Workers : worker'[x].at \in Afterwards
    BY DEF NobodyOverlaps, Afterwards
  <2>2. overlapped = FALSE
    BY <2>1
  <2>3. \A x \in Workers : x # w => worker[x].at = "idle" /\ worker'[x].at = "idle"
    BY <1>1, <2>2 DEF RecoveryInv, NobodyOverlaps
  <2>4. place' = place => (Recovery!Whole <=> Recovery!Whole')
    BY DEF Recovery!Whole, Recovery!Restored
  <2>5. \A v, x \in Workers : worker'[v].at # "idle" /\ worker'[x].at # "idle" => v = x
    BY <2>3
  <2>6. ASSUME NEW x \in Workers, worker'[x].at = "conclude" PROVE Recovery!Whole'
    BY <1>1, <2>3, <2>4, <2>6 DEF Afterwards
  <2>7. ASSUME journal'.is = "verified"
        PROVE  Recovery!Whole' /\ \A x \in Workers : worker'[x].at \in Afterwards
    <3>1. Recovery!Whole /\ worker[w].at \in Afterwards
      BY <2>2, <2>7 DEF RecoveryInv, NobodyOverlaps
    <3>2. Recovery!Whole'
      BY <2>4, <3>1
    <3>3. \A x \in Workers : worker'[x].at \in Afterwards
      <4>1. "idle" \in Afterwards
        BY DEF Afterwards
      <4> QED BY <1>1, <2>3, <2>7, <3>1, <4>1
    <3> QED BY <3>2, <3>3
  <2> QED BY <2>5, <2>6, <2>7
<1>7. Recorded'
  BY DEF RecoveryInv, Recorded
<1> QED BY <1>1, <1>2, <1>3, <1>4, <1>5, <1>6, <1>7 DEF RecoveryInv

\* The record of a worker that goes to another step.
LEMMA WorkerGoes ==
    ASSUME NEW p \in WorkerStates, NEW spot \in WorkerPlaces
    PROVE  /\ [p EXCEPT !.at = spot] \in WorkerStates
           /\ [p EXCEPT !.at = spot].at = spot
<1>1. PICK r : r = {<<>>} \cup Recollections
  OBVIOUS
<1>2. WorkerStates = [at : WorkerPlaces, own : Nat, resumed : BOOLEAN, left : SUBSET (Targets \cup Items), prior : r]
  BY <1>1 DEF WorkerStates
<1> QED BY <1>2

LEMMA WorkerGoesOver ==
    ASSUME NEW p \in WorkerStates, NEW spot \in WorkerPlaces, NEW S \in SUBSET (Targets \cup Items)
    PROVE  /\ [p EXCEPT !.at = spot, !.left = S] \in WorkerStates
           /\ [p EXCEPT !.at = spot, !.left = S].at = spot
<1>1. PICK r : r = {<<>>} \cup Recollections
  OBVIOUS
<1>2. WorkerStates = [at : WorkerPlaces, own : Nat, resumed : BOOLEAN, left : SUBSET (Targets \cup Items), prior : r]
  BY <1>1 DEF WorkerStates
<1> QED BY <1>2

\* An append leads to the next stage.
LEMMA AppendsKeeps ==
    ASSUME RecoveryInv, NEW w \in Workers, NEW spot, NEW S, Recovery!Appends(w, spot, S),
           spot \in WorkerPlaces \ (Afterwards \cup {"conclude"}), S \subseteq Targets \cup Items,
           spot \in Shelling => worker[w].at \in Shelling,
           worker[w].at \notin Afterwards,
           UNCHANGED <<place, holder, ledger, pending, overlapped, verifiers>>
    PROVE  RecoveryInv'
<1>0. PICK p, n : p = worker[w] /\ n = worker[w].own + 1
  OBVIOUS
<1>1. PICK next : next = [p EXCEPT !.at = spot, !.own = n, !.left = S]
  OBVIOUS
<1>2. journal.is = "open" /\ journal' = [is |-> "open", count |-> journal.count + 1]
  BY JournalIs DEF Recovery!Appends, Recovery!MayAppend
<1>3. next \in WorkerStates /\ next.at = spot /\ next.prior = worker[w].prior
  <2>1. worker[w] \in WorkerStates /\ worker[w].own \in Nat
    BY WorkerIs
  <2>2. worker[w].own + 1 \in Nat
    BY <2>1
  <2>3. S \in SUBSET (Targets \cup Items) /\ spot \in WorkerPlaces
    OBVIOUS
  <2>4. p \in WorkerStates /\ n \in Nat
    BY <1>0, <2>1, <2>2
  <2>5. /\ [p EXCEPT !.at = spot, !.own = n, !.left = S] \in WorkerStates
        /\ [p EXCEPT !.at = spot, !.own = n, !.left = S].at = spot
        /\ [p EXCEPT !.at = spot, !.own = n, !.left = S].prior = p.prior
    <3>1. PICK r : r = {<<>>} \cup Recollections
      OBVIOUS
    <3>2. WorkerStates = [at : WorkerPlaces, own : Nat, resumed : BOOLEAN, left : SUBSET (Targets \cup Items), prior : r]
      BY <3>1 DEF WorkerStates
    <3> QED BY <2>3, <2>4, <3>2
  <2> QED BY <1>0, <1>1, <2>5
<1>4. worker' = [worker EXCEPT ![w] = next]
  BY <1>0, <1>1, WorkerIs DEF Recovery!Appends
<1>5. next.at \in Shelling => next.prior \in Recollections
  BY <1>3 DEF RecoveryInv, WorkersSound
<1>6. /\ worker[w].at # "idle" /\ next.at \notin {"reserve", "finish", "mark"} /\ next.at # "conclude"
  BY <1>3 DEF Afterwards
<1>7. journal' \in [is : {"absent", "open", "verified", "torn"}, count : Nat] /\ journal'.is = "open"
  BY <1>2, JournalIs
<1>8. place' \in Whereabouts
  BY DEF RecoveryInv, PlaceTyped
<1> QED BY <1>2, <1>3, <1>4, <1>5, <1>6, <1>7, <1>8, StageKeeps

\* A run ends, with or without a record of it.
Noted(w) == \/ journal' = journal
            \/ journal.is = "open" /\ journal' = [is |-> "open", count |-> journal.count + 1]

LEMMA RunEndsKeeps ==
    ASSUME RecoveryInv, NEW w \in Workers, worker[w].at # "idle",
           worker' = [worker EXCEPT ![w] = Recovery!Resting], Noted(w),
           UNCHANGED <<place, holder, ledger, pending, overlapped, verifiers>>
    PROVE  RecoveryInv'
<1>1. PICK next : next = Recovery!Resting
  OBVIOUS
<1>2. next \in WorkerStates /\ next.at = "idle" /\ worker' = [worker EXCEPT ![w] = next]
  BY <1>1, WorkerIs
<1>3. next.at \in Afterwards /\ next.at \notin Shelling /\ next.at \notin {"reserve", "finish", "mark"}
  BY <1>2 DEF Afterwards, Shelling
<1>4. /\ journal' \in [is : {"absent", "open", "verified", "torn"}, count : Nat]
      /\ (journal.is = "verified") <=> (journal'.is = "verified")
  BY JournalIs DEF Noted
<1>5. place' \in Whereabouts
  BY DEF RecoveryInv, PlaceTyped
<1> QED BY <1>2, <1>3, <1>4, <1>5, StageKeeps

LEMMA FailsAre ==
    ASSUME RecoveryInv, NEW w \in Workers, Recovery!Fails(w) \/ Recovery!AppendRaises(w)
    PROVE  worker' = [worker EXCEPT ![w] = Recovery!Resting] /\ Noted(w)
  BY JournalIs DEF Recovery!Fails, Recovery!AppendRaises, Recovery!Return, Recovery!MayAppend, Noted

-----------------------------------------------------------------------------
\* The ledger.
LEMMA StillSame ==
    ASSUME UNCHANGED place, UNCHANGED verifiers, UNCHANGED Recovery!Kept, UNCHANGED Recovery!Ledger
    PROVE  UNCHANGED <<place, holder, ledger, pending, overlapped, verifiers>>
  BY DEF Recovery!Kept, Recovery!Ledger

LEMMA RunBeginKeeps ==
    ASSUME RecoveryInv, NEW w \in Workers, Recovery!Begin(w) \/ Recovery!BeginDetached(w) PROVE RecoveryInv'
<1>1. PICK spot : spot = IF Recovery!Begin(w) THEN "reserve" ELSE "open"
  OBVIOUS
<1>2. PICK next : next = [worker[w] EXCEPT !.at = spot]
  OBVIOUS
<1>3. /\ UNCHANGED <<place, journal, ledger, verifiers>> /\ worker' = [worker EXCEPT ![w] = next]
      /\ overlapped' \in BOOLEAN /\ pending' \in BOOLEAN
      /\ overlapped' = FALSE => overlapped = FALSE /\ Recovery!AtWork = {}
  <2>1. overlapped \in BOOLEAN /\ pending \in BOOLEAN
    BY DEF RecoveryInv, FlagsTyped
  <2>2. worker' = [worker EXCEPT ![w] = next]
    BY <1>1, <1>2, WorkerIs DEF Recovery!Begin, Recovery!BeginDetached, Recovery!Goes
  <2>3. pending' \in BOOLEAN
    BY <2>1 DEF Recovery!Begin, Recovery!BeginDetached, Recovery!Ledger
  <2>4. UNCHANGED <<place, journal, ledger, verifiers>>
    BY DEF Recovery!Begin, Recovery!BeginDetached, Recovery!Ledger
  <2>5. overlapped' = (overlapped \/ Recovery!AtWork # {})
    BY DEF Recovery!Begin, Recovery!BeginDetached
  <2>6. overlapped' \in BOOLEAN
    BY <2>5
  <2> QED BY <2>1, <2>2, <2>3, <2>4, <2>5, <2>6
<1>4. next \in WorkerStates /\ next.at = spot
  <2>1. spot \in WorkerPlaces
    BY <1>1 DEF WorkerPlaces
  <2>2. worker[w] \in WorkerStates
    BY WorkerIs
  <2> QED BY <1>2, <2>1, <2>2, WorkerGoes
<1>5. spot = "reserve" \/ spot = "open"
  BY <1>1
<1>6. /\ spot = "reserve" => holder = NoOne /\ holder' = w /\ ledger.attempts < MaxAttempts
      /\ spot = "open" => holder' = holder
  BY <1>1 DEF Recovery!Begin, Recovery!BeginDetached, Recovery!Ledger
<1>7. /\ WorkersTyped' /\ WorkersSound' /\ worker'[w] = next
      /\ \A x \in Workers : x # w => worker'[x] = worker[x]
  <2>1. next.at \notin Shelling
    BY <1>4, <1>5 DEF Shelling
  <2> QED BY <1>3, <1>4, <1>5, <1>6, <2>1, WorkersKeep
<1>8. PlaceTyped' /\ JournalTyped' /\ FlagsTyped'
  BY <1>3 DEF RecoveryInv, PlaceTyped, Whereabouts, JournalTyped, FlagsTyped
<1>9. LedgerTyped'
  BY <1>3, <1>5, <1>6 DEF RecoveryInv, LedgerTyped
<1>10. NobodyOverlaps'
  <2>1. SUFFICES ASSUME overlapped' = FALSE
                 PROVE  /\ \A v, x \in Workers : worker'[v].at # "idle" /\ worker'[x].at # "idle" => v = x
                        /\ \A x \in Workers : worker'[x].at = "conclude" => Recovery!Whole'
                        /\ journal'.is = "verified" =>
                               Recovery!Whole' /\ \A x \in Workers : worker'[x].at \in Afterwards
    BY DEF NobodyOverlaps, Afterwards
  <2>2. overlapped = FALSE /\ \A x \in Workers : worker[x].at = "idle"
    BY <1>3, <2>1 DEF Recovery!AtWork
  <2>3. Recovery!Whole <=> Recovery!Whole'
    BY <1>3 DEF Recovery!Whole, Recovery!Restored
  <2>4. \A x \in Workers : worker'[x].at \in {"idle", spot} /\ (worker'[x].at # "idle" => x = w)
    BY <1>4, <1>7, <2>2
  <2> QED BY <1>3, <1>5, <2>2, <2>3, <2>4 DEF RecoveryInv, NobodyOverlaps, Afterwards
<1>11. Recorded'
  BY <1>3 DEF RecoveryInv, Recorded
<1> QED BY <1>7, <1>8, <1>9, <1>10, <1>11 DEF RecoveryInv

\* The ledger is written by its holder, and the installation stays as it is.
LEMMA LedgerKeeps ==
    ASSUME RecoveryInv, NEW w \in Workers, NEW next \in WorkerStates,
           worker' = [worker EXCEPT ![w] = next],
           worker[w].at \in {"reserve", "finish", "mark"}, next.at \in {"idle", "open", "mark"},
           next.at = "mark" => worker[w].at = "finish" /\ holder' = w,
           ledger' \in [attempts : 0..MaxAttempts, is : {"ready", "review", "terminal"}],
           ledger' = ledger \/ holder = w,
           holder' = holder \/ holder = NoOne \/ holder = w, holder' \in Workers \cup {NoOne},
           ledger'.is = "terminal" => journal.is = "verified",
           pending' \in BOOLEAN,
           UNCHANGED <<place, journal, verifiers>>, overlapped' = overlapped
    PROVE  RecoveryInv'
<1>1. /\ WorkersTyped' /\ WorkersSound' /\ worker'[w] = next
      /\ \A x \in Workers : x # w => worker'[x] = worker[x]
  <2>1. next.at \notin Shelling /\ next.at # "reserve" /\ next.at # "finish"
    BY DEF Shelling
  <2>2. next.at = "mark" => journal'.is = "verified"
    BY DEF RecoveryInv, WorkersSound
  <2> QED BY <2>1, <2>2, WorkersKeep
<1>2. PlaceTyped' /\ JournalTyped' /\ LedgerTyped'
  BY DEF RecoveryInv, PlaceTyped, Whereabouts, JournalTyped, LedgerTyped
<1>3. FlagsTyped'
  <2>1. overlapped' \in BOOLEAN
    BY DEF RecoveryInv, FlagsTyped
  <2> QED BY <2>1 DEF FlagsTyped
<1>4. NobodyOverlaps'
  <2>1. SUFFICES ASSUME overlapped' = FALSE
                 PROVE  /\ \A v, x \in Workers : worker'[v].at # "idle" /\ worker'[x].at # "idle" => v = x
                        /\ \A x \in Workers : worker'[x].at = "conclude" => Recovery!Whole'
                        /\ journal'.is = "verified" =>
                               Recovery!Whole' /\ \A x \in Workers : worker'[x].at \in Afterwards
    BY DEF NobodyOverlaps, Afterwards
  <2>2. overlapped = FALSE
    BY <2>1
  <2>3. \A x \in Workers : x # w => worker[x].at = "idle" /\ worker'[x].at = "idle"
    BY <1>1, <2>2 DEF RecoveryInv, NobodyOverlaps
  <2>4. Recovery!Whole <=> Recovery!Whole'
    BY DEF Recovery!Whole, Recovery!Restored
  <2>5. \A x \in Workers : worker'[x].at \in Afterwards /\ worker'[x].at # "conclude"
    BY <1>1, <2>3 DEF Afterwards
  <2>6. \A v, x \in Workers : worker'[v].at # "idle" /\ worker'[x].at # "idle" => v = x
    BY <2>3
  <2>7. journal'.is = "verified" => Recovery!Whole'
    BY <2>2, <2>4 DEF RecoveryInv, NobodyOverlaps
  <2> QED BY <2>5, <2>6, <2>7
<1>5. Recorded'
  BY DEF RecoveryInv, Recorded
<1> QED BY <1>1, <1>2, <1>3, <1>4, <1>5 DEF RecoveryInv

LEMMA ReserveKeeps == ASSUME RecoveryInv, NEW w \in Workers, Recovery!Reserve(w) PROVE RecoveryInv'
<1>1. PICK next : next = [worker[w] EXCEPT !.at = "open"]
  OBVIOUS
<1>2. /\ worker[w].at = "reserve" /\ worker' = [worker EXCEPT ![w] = next]
      /\ holder' = NoOne /\ pending' = FALSE /\ UNCHANGED <<place, journal, verifiers>>
  BY <1>1, WorkerIs DEF Recovery!Reserve, Recovery!Goes
<1>3. next \in WorkerStates /\ next.at = "open"
  <2>1. "open" \in WorkerPlaces
    BY DEF WorkerPlaces
  <2>2. worker[w] \in WorkerStates
    BY WorkerIs
  <2> QED BY <1>1, <2>1, <2>2, WorkerGoes
<1>4. holder = w /\ ledger.attempts < MaxAttempts /\ ledger.attempts \in 0..MaxAttempts
  BY <1>2 DEF RecoveryInv, WorkersSound, LedgerTyped
<1>5. /\ ledger' \in [attempts : 0..MaxAttempts, is : {"ready", "review", "terminal"}]
      /\ ledger'.is # "terminal"
  <2>1. ledger.attempts + 1 \in 0..MaxAttempts
    BY <1>4, WorkersAre
  <2> QED BY <2>1 DEF Recovery!Reserve
<1>6. overlapped' = overlapped
  BY DEF Recovery!Reserve, Recovery!Kept
<1> QED BY <1>2, <1>3, <1>4, <1>5, <1>6, LedgerKeeps

LEMMA MarkBeginsKeeps == ASSUME RecoveryInv, NEW w \in Workers, Recovery!MarkBegins(w) PROVE RecoveryInv'
<1>1. /\ worker[w].at = "finish" /\ holder = NoOne /\ UNCHANGED <<place, journal, ledger, verifiers>>
  BY DEF Recovery!MarkBegins
<1>2. overlapped' = overlapped
  BY DEF Recovery!MarkBegins, Recovery!Kept
<1>3. /\ ledger' \in [attempts : 0..MaxAttempts, is : {"ready", "review", "terminal"}]
      /\ ledger'.is = "terminal" => journal.is = "verified"
  BY <1>1 DEF RecoveryInv, LedgerTyped, Recorded
<1>4. CASE pending' = TRUE /\ holder' = w /\ Recovery!Goes(w, "mark")
  <2>1. PICK next : next = [worker[w] EXCEPT !.at = "mark"]
    OBVIOUS
  <2>2. next \in WorkerStates /\ next.at = "mark"
    <3>1. "mark" \in WorkerPlaces
      BY DEF WorkerPlaces
    <3>2. worker[w] \in WorkerStates
      BY WorkerIs
    <3> QED BY <2>1, <3>1, <3>2, WorkerGoes
  <2>3. worker' = [worker EXCEPT ![w] = next]
    BY <1>4, <2>1, WorkerIs DEF Recovery!Goes
  <2> QED BY <1>1, <1>2, <1>3, <1>4, <2>2, <2>3, LedgerKeeps
<1>5. CASE Recovery!Return(w) /\ UNCHANGED <<pending, holder>>
  <2>1. PICK next : next = Recovery!Resting
    OBVIOUS
  <2>2. next \in WorkerStates /\ next.at = "idle" /\ worker' = [worker EXCEPT ![w] = next]
    BY <1>5, <2>1, WorkerIs DEF Recovery!Return
  <2>3. pending' \in BOOLEAN /\ holder' = holder /\ holder' \in Workers \cup {NoOne}
    <3>1. pending \in BOOLEAN
      BY DEF RecoveryInv, FlagsTyped
    <3>2. pending' \in BOOLEAN
      BY <1>5, <3>1
    <3> QED BY <1>5, <3>2 DEF RecoveryInv, LedgerTyped
  <2> QED BY <1>1, <1>2, <1>3, <2>2, <2>3, LedgerKeeps
<1> QED BY <1>4, <1>5 DEF Recovery!MarkBegins

LEMMA RunMarkKeeps == ASSUME RecoveryInv, NEW w \in Workers, Recovery!Mark(w) PROVE RecoveryInv'
<1>1. PICK next : next = Recovery!Resting
  OBVIOUS
<1>2. /\ worker[w].at = "mark" /\ worker' = [worker EXCEPT ![w] = next]
      /\ holder' = NoOne /\ pending' = FALSE /\ UNCHANGED <<place, journal, verifiers>>
  BY <1>1, WorkerIs DEF Recovery!Mark, Recovery!Return
<1>3. next \in WorkerStates /\ next.at = "idle"
  BY <1>1, WorkerIs
<1>4. holder = w /\ journal.is = "verified"
  BY <1>2 DEF RecoveryInv, WorkersSound
<1>5. ledger' \in [attempts : 0..MaxAttempts, is : {"ready", "review", "terminal"}]
  BY DEF Recovery!Mark, RecoveryInv, LedgerTyped
<1>6. overlapped' = overlapped
  BY DEF Recovery!Mark, Recovery!Kept
<1> QED BY <1>2, <1>3, <1>4, <1>5, <1>6, LedgerKeeps

-----------------------------------------------------------------------------
\* The stages.
LEMMA StepsAppend ==
    ASSUME RecoveryInv, NEW w \in Workers,
           Recovery!Arm(w) \/ Recovery!BeforeReplace(w) \/ Recovery!FilesChecked(w)
             \/ Recovery!ShellArm(w) \/ Recovery!ShellChecked(w)
    PROVE  RecoveryInv'
<1>1. worker[w].at \in {"arm", "files", "shellarm", "shown"} /\ worker[w].left \subseteq Targets \cup Items
  BY WorkerIs DEF Recovery!Arm, Recovery!BeforeReplace, Recovery!FilesChecked, Recovery!ShellArm, Recovery!ShellChecked
<1>2. UNCHANGED <<place, holder, ledger, pending, overlapped, verifiers>>
  BY StillSame DEF Recovery!Arm, Recovery!BeforeReplace, Recovery!FilesChecked, Recovery!ShellArm, Recovery!ShellChecked
<1>3. worker[w].at \notin Afterwards /\ worker[w].at # "idle"
  BY <1>1 DEF Afterwards
<1>4. ASSUME NEW spot, spot \in {"files", "replace", "read", "shell", "prove"}, NEW S, S \subseteq Targets \cup Items,
             spot = "shell" => worker[w].at = "shellarm", Recovery!Appends(w, spot, S)
      PROVE  RecoveryInv'
  <2>1. spot \in WorkerPlaces \ (Afterwards \cup {"conclude"})
    BY <1>4 DEF WorkerPlaces, Afterwards
  <2>2. spot \in Shelling => worker[w].at \in Shelling
    BY <1>4 DEF Shelling
  <2> QED BY <1>2, <1>3, <1>4, <2>1, <2>2, AppendsKeeps
<1>5. CASE Recovery!Fails(w) \/ Recovery!AppendRaises(w)
  BY <1>2, <1>3, <1>5, FailsAre, RunEndsKeeps
<1>6. CASE Recovery!Arm(w)
  <2>1. Recovery!Appends(w, "files", Targets) \/ Recovery!AppendRaises(w)
    BY <1>6 DEF Recovery!Arm
  <2> QED BY <1>4, <1>5, <2>1
<1>7. CASE Recovery!BeforeReplace(w)
  <2>1. Recovery!Appends(w, "replace", worker[w].left) \/ Recovery!AppendRaises(w)
    BY <1>7 DEF Recovery!BeforeReplace
  <2> QED BY <1>1, <1>4, <1>5, <2>1
<1>8. CASE Recovery!FilesChecked(w)
  <2>1. Recovery!Appends(w, "read", {}) \/ Recovery!AppendRaises(w) \/ Recovery!Fails(w)
    BY <1>8 DEF Recovery!FilesChecked
  <2> QED BY <1>4, <1>5, <2>1
<1>9. CASE Recovery!ShellArm(w)
  <2>1. Recovery!Appends(w, "shell", Items) \/ Recovery!AppendRaises(w)
    BY <1>9 DEF Recovery!ShellArm
  <2>2. worker[w].at = "shellarm"
    BY <1>9 DEF Recovery!ShellArm
  <2> QED BY <1>4, <1>5, <2>1, <2>2
<1>10. CASE Recovery!ShellChecked(w)
  <2>1. Recovery!Appends(w, "prove", {}) \/ Recovery!AppendRaises(w) \/ Recovery!Fails(w)
    BY <1>10 DEF Recovery!ShellChecked
  <2> QED BY <1>4, <1>5, <2>1
<1> QED BY <1>6, <1>7, <1>8, <1>9, <1>10

LEMMA StepsFail ==
    ASSUME RecoveryInv, NEW w \in Workers,
           Recovery!GateCloses(w) \/ Recovery!ReplaceFails(w) \/ Recovery!UndoEnds(w)
    PROVE  RecoveryInv'
<1>1. worker[w].at # "idle"
  BY DEF Recovery!GateCloses, Recovery!ReplaceFails, Recovery!UndoEnds
<1>2. UNCHANGED <<place, holder, ledger, pending, overlapped, verifiers>>
  BY StillSame DEF Recovery!GateCloses, Recovery!ReplaceFails, Recovery!UndoEnds
<1>3. Recovery!Fails(w)
  BY DEF Recovery!GateCloses, Recovery!ReplaceFails, Recovery!UndoEnds
<1> QED BY <1>1, <1>2, <1>3, FailsAre, RunEndsKeeps

\* A worker goes on and writes no record, or the one that opens the journal or
\* tells of a failure.
LEMMA GoesKeeps ==
    ASSUME RecoveryInv, NEW w \in Workers, NEW next \in WorkerStates,
           worker' = [worker EXCEPT ![w] = next], worker[w].at \notin Afterwards,
           next.at \in WorkerPlaces \ Afterwards, next.at # "conclude",
           next.at \in Shelling => next.prior \in Recollections,
           place' \in Whereabouts, Noted(w),
           UNCHANGED <<holder, ledger, pending, overlapped, verifiers>>
    PROVE  RecoveryInv'
<1>1. worker[w].at # "idle" /\ next.at \notin {"reserve", "finish", "mark"}
  BY DEF Afterwards
<1>2. /\ journal' \in [is : {"absent", "open", "verified", "torn"}, count : Nat]
      /\ (journal.is = "verified") <=> (journal'.is = "verified")
  BY JournalIs DEF Noted
<1> QED BY <1>1, <1>2, StageKeeps

LEMMA PlaceIs ==
    ASSUME RecoveryInv, NEW x \in Targets \cup Items, NEW was \in {"new", "old"}
    PROVE  place \in Whereabouts /\ [place EXCEPT ![x] = was] \in Whereabouts
  BY DEF RecoveryInv, PlaceTyped, Whereabouts

LEMMA ReplaceFileKeeps ==
    ASSUME RecoveryInv, NEW w \in Workers, NEW x \in Targets, Recovery!ReplaceFile(w, x) PROVE RecoveryInv'
<1>1. PICK p, S : p = worker[w] /\ S = worker[w].left \ {x}
  OBVIOUS
<1>2. PICK next : next = [p EXCEPT !.at = "files", !.left = S]
  OBVIOUS
<1>3. worker[w].at \in {"replace", "files"} /\ worker' = [worker EXCEPT ![w] = next]
  BY <1>1, <1>2, WorkerIs DEF Recovery!ReplaceFile, Recovery!GoesOver
<1>4. next \in WorkerStates /\ next.at = "files"
  <2>1. "files" \in WorkerPlaces
    BY DEF WorkerPlaces
  <2>2. p \in WorkerStates /\ S \in SUBSET (Targets \cup Items)
    BY <1>1, WorkerIs
  <2> QED BY <1>2, <2>1, <2>2, WorkerGoesOver
<1>5. place' \in Whereabouts /\ journal' = journal
  BY PlaceIs DEF Recovery!ReplaceFile
<1>6. UNCHANGED <<holder, ledger, pending, overlapped, verifiers>>
  BY DEF Recovery!ReplaceFile, Recovery!Kept, Recovery!Ledger
<1>7. worker[w].at \notin Afterwards /\ next.at \in WorkerPlaces \ Afterwards /\ next.at \notin Shelling
  BY <1>3, <1>4 DEF Afterwards, WorkerPlaces, Shelling
<1> QED BY <1>3, <1>4, <1>5, <1>6, <1>7, GoesKeeps DEF Noted

LEMMA ReadPriorKeeps == ASSUME RecoveryInv, NEW w \in Workers, Recovery!ReadPrior(w) PROVE RecoveryInv'
<1>1. PICK p, was : p = worker[w] /\ was = [i \in Items |-> place[i]]
  OBVIOUS
<1>2. PICK next : next = [p EXCEPT !.at = "shellarm", !.prior = was]
  OBVIOUS
<1>3. worker[w].at = "read" /\ worker' = [worker EXCEPT ![w] = next] /\ journal' = journal /\ place' = place
  BY <1>1, <1>2, WorkerIs DEF Recovery!ReadPrior
<1>4. was \in Recollections
  BY <1>1 DEF RecoveryInv, PlaceTyped, Whereabouts, Recollections
<1>5. next \in WorkerStates /\ next.at = "shellarm" /\ next.prior = was
  <2>1. PICK r : r = {<<>>} \cup Recollections
    OBVIOUS
  <2>2. WorkerStates = [at : WorkerPlaces, own : Nat, resumed : BOOLEAN, left : SUBSET (Targets \cup Items), prior : r]
    BY <2>1 DEF WorkerStates
  <2>3. "shellarm" \in WorkerPlaces
    BY DEF WorkerPlaces
  <2>4. p \in WorkerStates /\ was \in r
    BY <1>1, <1>4, <2>1, WorkerIs
  <2> QED BY <1>2, <2>2, <2>3, <2>4
<1>6. UNCHANGED <<holder, ledger, pending, overlapped, verifiers>> /\ place' \in Whereabouts
  BY <1>3 DEF Recovery!ReadPrior, Recovery!Kept, Recovery!Ledger, RecoveryInv, PlaceTyped
<1>7. worker[w].at \notin Afterwards /\ next.at \in WorkerPlaces \ Afterwards
  BY <1>3, <1>5 DEF Afterwards, WorkerPlaces
<1> QED BY <1>3, <1>4, <1>5, <1>6, <1>7, GoesKeeps DEF Noted

LEMMA WriteItemKeeps ==
    ASSUME RecoveryInv, NEW w \in Workers, NEW i \in Items,
           Recovery!WriteItem(w, i) \/ Recovery!PutBack(w, i)
    PROVE  RecoveryInv'
<1>1. PICK p, S : p = worker[w] /\ S = worker[w].left \ {i}
  OBVIOUS
<1>2. PICK spot : spot = IF worker[w].at = "undo" THEN "undo" ELSE IF worker[w].left = {i} THEN "written" ELSE "shell"
  OBVIOUS
<1>3. PICK next : next = [p EXCEPT !.at = spot, !.left = S]
  OBVIOUS
<1>4. worker[w].at \in {"shell", "undo"} /\ worker' = [worker EXCEPT ![w] = next] /\ journal' = journal
  <2>1. Recovery!GoesOver(w, spot, S) /\ worker[w].at \in {"shell", "undo"} /\ journal' = journal
    BY <1>1, <1>2 DEF Recovery!WriteItem, Recovery!PutBack
  <2> QED BY <1>1, <1>3, <2>1, WorkerIs DEF Recovery!GoesOver
<1>5. spot \in {"shell", "written", "undo"}
  BY <1>2
<1>6. spot \in WorkerPlaces \ Afterwards /\ spot # "conclude"
  BY <1>5 DEF WorkerPlaces, Afterwards
<1>7. next \in WorkerStates /\ next.at = spot /\ next.prior = worker[w].prior
  <2>1. p \in WorkerStates /\ S \in SUBSET (Targets \cup Items)
    BY <1>1, WorkerIs
  <2>2. next \in WorkerStates /\ next.at = spot /\ next.prior = p.prior
    <3>1. spot \in WorkerPlaces
      BY <1>6
    <3>2. PICK r : r = {<<>>} \cup Recollections
      OBVIOUS
    <3>3. WorkerStates = [at : WorkerPlaces, own : Nat, resumed : BOOLEAN, left : SUBSET (Targets \cup Items), prior : r]
      BY <3>2 DEF WorkerStates
    <3> QED BY <1>3, <2>1, <3>1, <3>3
  <2> QED BY <1>1, <2>2
<1>8. next.prior \in Recollections
  BY <1>4, <1>7 DEF RecoveryInv, WorkersSound, Shelling
<1>9. place' \in Whereabouts
  <2>1. place' = place \/ place' = [place EXCEPT ![i] = "old"] \/ place' = [place EXCEPT ![i] = worker[w].prior[i]]
    BY DEF Recovery!WriteItem, Recovery!PutBack
  <2>2. worker[w].prior[i] \in {"new", "old"}
    BY <1>7, <1>8 DEF Recollections
  <2> QED BY <2>1, <2>2, PlaceIs
<1>10. UNCHANGED <<holder, ledger, pending, overlapped, verifiers>>
  BY DEF Recovery!WriteItem, Recovery!PutBack, Recovery!Kept, Recovery!Ledger
<1>11. worker[w].at \notin Afterwards
  BY <1>4 DEF Afterwards
<1> QED BY <1>4, <1>6, <1>7, <1>8, <1>9, <1>10, <1>11, GoesKeeps DEF Noted

LEMMA WriteFailsKeeps ==
    ASSUME RecoveryInv, NEW w \in Workers, NEW i \in Items, Recovery!WriteFails(w, i) PROVE RecoveryInv'
<1>1. PICK p, S, n : /\ p = worker[w] /\ S = (Items \ worker[w].left) \cup {i}
                     /\ n = IF Recovery!MayAppend(w) THEN worker[w].own + 1 ELSE worker[w].own
  OBVIOUS
<1>2. PICK next : next = [p EXCEPT !.at = "undo", !.left = S, !.own = n]
  OBVIOUS
<1>3. worker[w].at = "shell" /\ worker' = [worker EXCEPT ![w] = next] /\ place' = place
  BY <1>1, <1>2, WorkerIs DEF Recovery!WriteFails
<1>4. next \in WorkerStates /\ next.at = "undo" /\ next.prior = worker[w].prior
  <2>1. PICK r : r = {<<>>} \cup Recollections
    OBVIOUS
  <2>2. WorkerStates = [at : WorkerPlaces, own : Nat, resumed : BOOLEAN, left : SUBSET (Targets \cup Items), prior : r]
    BY <2>1 DEF WorkerStates
  <2>3. "undo" \in WorkerPlaces
    BY DEF WorkerPlaces
  <2>4. p \in WorkerStates /\ S \in SUBSET (Targets \cup Items)
    BY <1>1, WorkerIs
  <2>5. n \in Nat
    BY <1>1, WorkerIs
  <2> QED BY <1>1, <1>2, <2>2, <2>3, <2>4, <2>5
<1>5. next.prior \in Recollections
  BY <1>3, <1>4 DEF RecoveryInv, WorkersSound, Shelling
<1>6. Noted(w)
  BY JournalIs DEF Recovery!WriteFails, Recovery!MayAppend, Noted
<1>7. UNCHANGED <<holder, ledger, pending, overlapped, verifiers>> /\ place' \in Whereabouts
  BY <1>3 DEF Recovery!WriteFails, Recovery!Kept, Recovery!Ledger, RecoveryInv, PlaceTyped
<1>8. worker[w].at \notin Afterwards /\ next.at \in WorkerPlaces \ Afterwards
  BY <1>3, <1>4 DEF Afterwards, WorkerPlaces
<1> QED BY <1>3, <1>4, <1>5, <1>6, <1>7, <1>8, GoesKeeps

LEMMA WrittenKeeps == ASSUME RecoveryInv, NEW w \in Workers, Recovery!Written(w) PROVE RecoveryInv'
<1>1. worker[w].at = "written"
  BY DEF Recovery!Written
<1>2. UNCHANGED <<place, holder, ledger, pending, overlapped, verifiers>>
  BY StillSame DEF Recovery!Written
<1>3. worker[w].at \notin Afterwards /\ worker[w].at \in Shelling
  BY <1>1 DEF Afterwards, Shelling
<1>4. CASE Recovery!Appends(w, "shown", {})
  <2>1. "shown" \in WorkerPlaces \ (Afterwards \cup {"conclude"})
    BY DEF WorkerPlaces, Afterwards
  <2> QED BY <1>2, <1>3, <1>4, <2>1, AppendsKeeps
<1>5. CASE Recovery!GoesOver(w, "undo", Items) /\ UNCHANGED journal
  <2>1. PICK p, S : p = worker[w] /\ S = Items
    OBVIOUS
  <2>2. PICK next : next = [p EXCEPT !.at = "undo", !.left = S]
    OBVIOUS
  <2>3. worker' = [worker EXCEPT ![w] = next]
    BY <1>5, <2>1, <2>2, WorkerIs DEF Recovery!GoesOver
  <2>4. "undo" \in WorkerPlaces \ Afterwards
    BY DEF WorkerPlaces, Afterwards
  <2>5. p \in WorkerStates /\ S \in SUBSET (Targets \cup Items)
    BY <2>1, WorkerIs
  <2>6. next \in WorkerStates /\ next.at = "undo" /\ next.prior = worker[w].prior
    <3>1. "undo" \in WorkerPlaces
      BY <2>4
    <3>2. next \in WorkerStates /\ next.at = "undo" /\ next.prior = p.prior
      <4>1. PICK r : r = {<<>>} \cup Recollections
        OBVIOUS
      <4>2. WorkerStates = [at : WorkerPlaces, own : Nat, resumed : BOOLEAN, left : SUBSET (Targets \cup Items), prior : r]
        BY <4>1 DEF WorkerStates
      <4> QED BY <2>2, <2>5, <3>1, <4>2
    <3> QED BY <2>1, <3>2
  <2>7. next.prior \in Recollections /\ place' \in Whereabouts
    BY <1>2, <1>3, <2>6 DEF RecoveryInv, WorkersSound, PlaceTyped
  <2> QED BY <1>2, <1>3, <1>5, <2>3, <2>4, <2>6, <2>7, GoesKeeps DEF Noted
<1> QED BY <1>4, <1>5 DEF Recovery!Written

LEMMA OpenKeeps == ASSUME RecoveryInv, NEW w \in Workers, Recovery!Open(w) PROVE RecoveryInv'
<1>1. worker[w].at = "open" /\ worker[w].at # "idle" /\ "idle" \in Afterwards
  BY DEF Recovery!Open, Afterwards
<1>2. UNCHANGED <<place, holder, ledger, pending, overlapped, verifiers>>
  BY StillSame DEF Recovery!Open
<1>3. place' \in Whereabouts
  BY <1>2 DEF RecoveryInv, PlaceTyped
<1>4. CASE Recovery!Return(w) /\ UNCHANGED journal
  BY <1>1, <1>2, <1>4, RunEndsKeeps DEF Recovery!Return, Noted
<1>5. CASE journal.is = "absent" /\ journal' = [is |-> "open", count |-> 0] /\ Recovery!Goes(w, "arm")
  <2>1. PICK p : p = worker[w]
    OBVIOUS
  <2>2. PICK next : next = [p EXCEPT !.at = "arm"]
    OBVIOUS
  <2>3. worker' = [worker EXCEPT ![w] = next]
    BY <1>5, <2>1, <2>2, WorkerIs DEF Recovery!Goes
  <2>4. "arm" \in WorkerPlaces
    BY DEF WorkerPlaces
  <2>5. p \in WorkerStates
    BY <2>1, WorkerIs
  <2>6. next \in WorkerStates /\ next.at = "arm"
    BY <2>2, <2>4, <2>5, WorkerGoes
  <2>7. next.at \notin Shelling /\ next.at \notin {"reserve", "finish", "mark"} /\ next.at # "conclude"
    BY <2>6 DEF Shelling
  <2>8. journal' \in [is : {"absent", "open", "verified", "torn"}, count : Nat] /\ journal'.is = "open"
    BY <1>5
  <2> QED BY <1>1, <1>2, <1>3, <1>5, <2>3, <2>6, <2>7, <2>8, StageKeeps
<1>6. ASSUME NEW spot \in {"files", "arm"}, NEW S \in SUBSET (Targets \cup Items),
             journal.is = "open", UNCHANGED journal,
             worker' = [worker EXCEPT ![w].at = spot, ![w].own = journal.count, ![w].resumed = TRUE, ![w].left = S]
      PROVE  RecoveryInv'
  <2>1. PICK p, n : p = worker[w] /\ n = journal.count
    OBVIOUS
  <2>2. PICK next : next = [p EXCEPT !.at = spot, !.own = n, !.resumed = TRUE, !.left = S]
    OBVIOUS
  <2>3. worker' = [worker EXCEPT ![w] = next]
    BY <1>6, <2>1, <2>2, WorkerIs
  <2>4. spot \in WorkerPlaces
    BY DEF WorkerPlaces
  <2>5. p \in WorkerStates /\ n \in Nat
    BY <2>1, WorkerIs, JournalIs
  <2>6. next \in WorkerStates /\ next.at = spot
    <3>1. PICK r : r = {<<>>} \cup Recollections
      OBVIOUS
    <3>2. WorkerStates = [at : WorkerPlaces, own : Nat, resumed : BOOLEAN, left : SUBSET (Targets \cup Items), prior : r]
      BY <3>1 DEF WorkerStates
    <3> QED BY <2>2, <2>4, <2>5, <3>2
  <2>7. next.at \notin Shelling /\ next.at \notin {"reserve", "finish", "mark"} /\ next.at # "conclude"
    BY <2>6 DEF Shelling
  <2>8. journal' \in [is : {"absent", "open", "verified", "torn"}, count : Nat] /\ journal'.is = "open"
    BY <1>6, JournalIs DEF RecoveryInv, JournalTyped
  <2> QED BY <1>1, <1>2, <1>3, <1>6, <2>3, <2>6, <2>7, <2>8, StageKeeps
<1>7. CASE /\ journal.is = "open" /\ UNCHANGED journal
           /\ worker' = [worker EXCEPT ![w].at = IF detached THEN "files" ELSE "arm",
                                       ![w].own = journal.count, ![w].resumed = TRUE,
                                       ![w].left = IF detached THEN Targets ELSE {}]
  <2>1. PICK spot, S : spot = (IF detached THEN "files" ELSE "arm") /\ S = (IF detached THEN Targets ELSE {})
    OBVIOUS
  <2>2. spot \in {"files", "arm"} /\ S \in SUBSET (Targets \cup Items)
    BY <2>1
  <2>3. worker' = [worker EXCEPT ![w].at = spot, ![w].own = journal.count, ![w].resumed = TRUE, ![w].left = S]
    BY <1>7, <2>1
  <2> QED BY <1>6, <1>7, <2>2, <2>3
<1> QED BY <1>4, <1>5, <1>7 DEF Recovery!Open

LEMMA FinalVerifyKeeps == ASSUME RecoveryInv, NEW w \in Workers, Recovery!FinalVerify(w) PROVE RecoveryInv'
<1>1. worker[w].at = "prove" /\ worker[w].at # "idle"
  BY DEF Recovery!FinalVerify
<1>2. UNCHANGED <<place, holder, ledger, pending, overlapped, verifiers>>
  BY StillSame DEF Recovery!FinalVerify
<1>3. CASE Recovery!Fails(w)
  BY <1>1, <1>2, <1>3, FailsAre, RunEndsKeeps
<1>4. CASE Recovery!Whole /\ Recovery!Goes(w, "conclude") /\ UNCHANGED journal
  <2>1. PICK p : p = worker[w]
    OBVIOUS
  <2>2. PICK next : next = [p EXCEPT !.at = "conclude"]
    OBVIOUS
  <2>3. worker' = [worker EXCEPT ![w] = next]
    BY <1>4, <2>1, <2>2, WorkerIs DEF Recovery!Goes
  <2>4. "conclude" \in WorkerPlaces
    BY DEF WorkerPlaces
  <2>5. p \in WorkerStates
    BY <2>1, WorkerIs
  <2>6. next \in WorkerStates /\ next.at = "conclude"
    BY <2>2, <2>4, <2>5, WorkerGoes
  <2>7. next.at \notin Shelling /\ next.at \notin {"reserve", "finish", "mark"} /\ worker[w].at \notin Afterwards
    BY <1>1, <2>6 DEF Shelling, Afterwards
  <2>8. journal' \in [is : {"absent", "open", "verified", "torn"}, count : Nat] /\ place' \in Whereabouts
    BY <1>2, <1>4 DEF RecoveryInv, PlaceTyped, JournalTyped
  <2>9. (journal.is = "verified") <=> (journal'.is = "verified")
    BY <1>4
  <2> QED BY <1>1, <1>2, <1>4, <2>3, <2>6, <2>7, <2>8, <2>9, StageKeeps
<1> QED BY <1>3, <1>4 DEF Recovery!FinalVerify

LEMMA DiesKeeps == ASSUME RecoveryInv, NEW w \in Workers, Recovery!Dies(w) PROVE RecoveryInv'
<1>1. PICK next : next = Recovery!Resting
  OBVIOUS
<1>2. /\ worker[w].at # "idle" /\ worker' = [worker EXCEPT ![w] = next]
      /\ UNCHANGED <<place, ledger, pending, verifiers>> /\ holder' = IF holder = w THEN NoOne ELSE holder
  BY <1>1 DEF Recovery!Dies, Recovery!Return
<1>3. next \in WorkerStates /\ next.at = "idle"
  BY <1>1, WorkerIs
<1>4. /\ next.at \in Afterwards /\ next.at \notin Shelling /\ next.at \notin {"reserve", "finish", "mark"}
      /\ next.at # "conclude"
  BY <1>3 DEF Afterwards, Shelling
<1>5. overlapped' = overlapped /\ place' \in Whereabouts
  BY <1>2 DEF Recovery!Dies, Recovery!Kept, RecoveryInv, PlaceTyped
<1>6. /\ journal' \in [is : {"absent", "open", "verified", "torn"}, count : Nat]
      /\ (journal.is = "verified") <=> (journal'.is = "verified")
  <2>1. CASE UNCHANGED journal
    BY <2>1 DEF RecoveryInv, JournalTyped
  <2>2. CASE Recovery!MayAppend(w) /\ journal' = [journal EXCEPT !.is = "torn"]
    BY <2>2 DEF RecoveryInv, JournalTyped, Recovery!MayAppend
  <2> QED BY <2>1, <2>2 DEF Recovery!Dies
<1> QED BY <1>2, <1>3, <1>4, <1>5, <1>6, StageKeeps

\* The record that the recovery is verified: the only one, and of a whole installation.
LEMMA ConcludeKeeps == ASSUME RecoveryInv, NEW w \in Workers, Recovery!Conclude(w) PROVE RecoveryInv'
<1>1. worker[w].at = "conclude" /\ worker[w].at # "idle"
  BY DEF Recovery!Conclude
<1>2. UNCHANGED <<place, holder, ledger, pending, overlapped>>
  BY DEF Recovery!Conclude, Recovery!Kept, Recovery!Ledger
<1>3. CASE Recovery!AppendRaises(w) /\ UNCHANGED verifiers
  BY <1>1, <1>2, <1>3, FailsAre, RunEndsKeeps
<1>4. CASE /\ Recovery!MayAppend(w)
           /\ journal' = [is |-> "verified", count |-> journal.count + 1] /\ verifiers' = verifiers + 1
           /\ IF detached THEN Recovery!Return(w) ELSE Recovery!Goes(w, "finish")
  <2>1. PICK p : p = worker[w]
    OBVIOUS
  <2>2. PICK next : next = IF detached THEN Recovery!Resting ELSE [p EXCEPT !.at = "finish"]
    OBVIOUS
  <2>3. worker' = [worker EXCEPT ![w] = next]
    BY <1>4, <2>1, <2>2, WorkerIs DEF Recovery!Goes, Recovery!Return
  <2>4. "finish" \in WorkerPlaces
    BY DEF WorkerPlaces
  <2>5. next \in WorkerStates /\ next.at \in {"idle", "finish"}
    BY <2>1, <2>2, <2>4, WorkerIs, WorkerGoes
  <2>6. next.at \notin Shelling /\ next.at \notin {"reserve", "mark"} /\ next.at \in Afterwards /\ next.at # "conclude"
    BY <2>5 DEF Shelling, Afterwards
  <2>7. journal.is = "open" /\ journal'.is = "verified" /\ verifiers = 0 /\ verifiers' = 1
    BY <1>4 DEF Recovery!MayAppend, RecoveryInv, Recorded
  <2>8. /\ WorkersTyped' /\ WorkersSound' /\ worker'[w] = next
        /\ \A x \in Workers : x # w => worker'[x] = worker[x]
    BY <1>2, <2>3, <2>5, <2>6, <2>7, WorkersKeep
  <2>9. PlaceTyped' /\ LedgerTyped'
    BY <1>2 DEF RecoveryInv, PlaceTyped, Whereabouts, LedgerTyped
  <2>10. JournalTyped'
    BY <1>4, JournalIs DEF JournalTyped
  <2>11. FlagsTyped'
    <3>1. pending' \in BOOLEAN
      BY <1>2 DEF RecoveryInv, FlagsTyped
    <3>2. overlapped' \in BOOLEAN
      BY <1>2 DEF RecoveryInv, FlagsTyped
    <3> QED BY <3>1, <3>2 DEF FlagsTyped
  <2>12. NobodyOverlaps'
    <3>1. SUFFICES ASSUME overlapped' = FALSE
                   PROVE  /\ \A v, x \in Workers : worker'[v].at # "idle" /\ worker'[x].at # "idle" => v = x
                          /\ \A x \in Workers : worker'[x].at = "conclude" => Recovery!Whole'
                          /\ journal'.is = "verified" =>
                                 Recovery!Whole' /\ \A x \in Workers : worker'[x].at \in Afterwards
      BY DEF NobodyOverlaps, Afterwards
    <3>2. overlapped = FALSE
      BY <1>2, <3>1
    <3>3. \A x \in Workers : x # w => worker[x].at = "idle" /\ worker'[x].at = "idle"
      BY <1>1, <2>8, <3>2 DEF RecoveryInv, NobodyOverlaps
    <3>4. Recovery!Whole
      BY <1>1, <3>2 DEF RecoveryInv, NobodyOverlaps
    <3>5. Recovery!Whole'
      BY <1>2, <3>4 DEF Recovery!Whole, Recovery!Restored
    <3>6. "idle" \in Afterwards
      BY DEF Afterwards
    <3>7. \A v, x \in Workers : worker'[v].at # "idle" /\ worker'[x].at # "idle" => v = x
      BY <3>3
    <3>8. \A x \in Workers : worker'[x].at \in Afterwards
      BY <2>6, <2>8, <3>3, <3>6
    <3> QED BY <3>5, <3>7, <3>8
  <2>13. Recorded'
    BY <2>7 DEF Recorded
  <2> QED BY <2>8, <2>9, <2>10, <2>11, <2>12, <2>13 DEF RecoveryInv
<1> QED BY <1>3, <1>4 DEF Recovery!Conclude

-----------------------------------------------------------------------------
LEMMA RecoveryStep == ASSUME RecoveryInv, Recovery!RecoveryNext PROVE RecoveryInv'
<1>1. PICK w \in Workers :
         \/ Recovery!Begin(w) \/ Recovery!BeginDetached(w) \/ Recovery!Reserve(w) \/ Recovery!MarkBegins(w)
         \/ Recovery!Mark(w) \/ Recovery!Open(w) \/ Recovery!Arm(w) \/ Recovery!GateCloses(w)
         \/ Recovery!BeforeReplace(w) \/ Recovery!ReplaceFails(w) \/ Recovery!FilesChecked(w)
         \/ (\E x \in Targets : Recovery!ReplaceFile(w, x))
         \/ Recovery!ReadPrior(w) \/ Recovery!ShellArm(w) \/ Recovery!Written(w) \/ Recovery!UndoEnds(w)
         \/ Recovery!ShellChecked(w)
         \/ (\E i \in Items : Recovery!WriteItem(w, i) \/ Recovery!WriteFails(w, i) \/ Recovery!PutBack(w, i))
         \/ Recovery!FinalVerify(w) \/ Recovery!Conclude(w) \/ Recovery!Dies(w)
  BY DEF Recovery!RecoveryNext
<1>2. CASE Recovery!Begin(w) \/ Recovery!BeginDetached(w)
  BY <1>2, RunBeginKeeps
<1>3. CASE Recovery!Reserve(w) \/ Recovery!MarkBegins(w) \/ Recovery!Mark(w)
  BY <1>3, ReserveKeeps, MarkBeginsKeeps, RunMarkKeeps
<1>4. CASE Recovery!Open(w) \/ Recovery!FinalVerify(w) \/ Recovery!Conclude(w) \/ Recovery!Dies(w)
  BY <1>4, OpenKeeps, FinalVerifyKeeps, ConcludeKeeps, DiesKeeps
<1>5. CASE Recovery!GateCloses(w) \/ Recovery!ReplaceFails(w) \/ Recovery!UndoEnds(w)
  BY <1>5, StepsFail
<1>6. CASE \/ Recovery!Arm(w) \/ Recovery!BeforeReplace(w) \/ Recovery!FilesChecked(w)
           \/ Recovery!ShellArm(w) \/ Recovery!ShellChecked(w)
  BY <1>6, StepsAppend
<1>7. CASE \E x \in Targets : Recovery!ReplaceFile(w, x)
  BY <1>7, ReplaceFileKeeps
<1>8. CASE \E i \in Items : Recovery!WriteItem(w, i) \/ Recovery!WriteFails(w, i) \/ Recovery!PutBack(w, i)
  BY <1>8, WriteItemKeeps, WriteFailsKeeps
<1>9. CASE Recovery!ReadPrior(w) \/ Recovery!Written(w)
  BY <1>9, ReadPriorKeeps, WrittenKeeps
<1> QED BY <1>1, <1>2, <1>3, <1>4, <1>5, <1>6, <1>7, <1>8, <1>9

LEMMA RecoveryRest == ASSUME RecoveryInv, UNCHANGED recovery PROVE RecoveryInv'
<1> USE DEF recovery
<1>1. PlaceTyped' /\ JournalTyped' /\ LedgerTyped'
  BY DEF RecoveryInv, PlaceTyped, Whereabouts, JournalTyped, LedgerTyped
<1>2. pending' \in BOOLEAN
  BY DEF RecoveryInv, FlagsTyped
<1>3. overlapped' \in BOOLEAN
  BY DEF RecoveryInv, FlagsTyped
<1>4. WorkersTyped'
  BY DEF RecoveryInv, WorkersTyped, WorkerStates, WorkerPlaces, Recollections
<1>5. WorkersSound'
  BY DEF RecoveryInv, WorkersSound, Shelling, Recollections
<1>6. Recovery!Whole <=> Recovery!Whole'
  BY DEF Recovery!Whole, Recovery!Restored
<1>7. NobodyOverlaps'
  BY <1>6 DEF RecoveryInv, NobodyOverlaps, Afterwards
<1>8. Recorded'
  BY DEF RecoveryInv, Recorded
<1> QED BY <1>1, <1>2, <1>3, <1>4, <1>5, <1>7, <1>8 DEF RecoveryInv, FlagsTyped

LEMMA RecoveryImplies == RecoveryInv => RecoveryIsTrue
<1> SUFFICES ASSUME RecoveryInv PROVE RecoveryIsTrue
  OBVIOUS
<1>1. Recovery!RecoveryTypeOK
  <2>1. place \in [Targets \cup Items -> {"new", "old"}]
    BY DEF RecoveryInv, PlaceTyped, Whereabouts
  <2>2. journal.is \in {"absent", "open", "verified", "torn"} /\ journal.count \in Nat
    BY JournalIs
  <2>3. /\ ledger.attempts \in 0..MaxAttempts /\ ledger.is \in {"ready", "review", "terminal"}
        /\ holder \in Workers \cup {NoOne}
    BY DEF RecoveryInv, LedgerTyped
  <2>4. pending \in BOOLEAN
    BY DEF RecoveryInv, FlagsTyped
  <2>5. overlapped \in BOOLEAN
    BY DEF RecoveryInv, FlagsTyped
  <2>6. \A w \in Workers : worker[w].at \in WorkerPlaces /\ worker[w].left \subseteq Targets \cup Items
    BY WorkerIs
  <2> QED BY <2>1, <2>2, <2>3, <2>4, <2>5, <2>6 DEF Recovery!RecoveryTypeOK, WorkerPlaces
<1>2. Recovery!VerifiedIsRestored
  <2>1. overlapped = TRUE \/ overlapped = FALSE
    BY DEF RecoveryInv, FlagsTyped
  <2>2. journal.is = "verified" \/ ledger.is = "terminal" => Recovery!Whole \/ overlapped = TRUE
    BY <2>1 DEF RecoveryInv, NobodyOverlaps, Recorded
  <2> QED BY <2>2 DEF Recovery!VerifiedIsRestored
<1>3. Recovery!OneRunVerifies
  BY DEF RecoveryInv, Recorded, Recovery!OneRunVerifies
<1> QED BY <1>1, <1>2, <1>3 DEF RecoveryIsTrue

-----------------------------------------------------------------------------
(* The models: lifecycles, processes, the manager's call and the installer.  *)

LifeStates == [state : {"UNLOADED", "LOADING", "READY", "IDLE", "UNLOADING"}, proc : Nat,
               device : {"gpu", "cpu"}, known : BOOLEAN]
CallSteps == {"idle", "load", "health", "abandon", "unload"}
CallStates == [kind : {"none", "activate", "unload"}, model : Model!Models, safe : BOOLEAN, at : CallSteps,
               on : Model!Models, then : {"end", "load", "code", "report"}, errors : BOOLEAN]

LivesTyped == life \in [Model!Models -> LifeStates]
ProcessesTyped ==
    started \in Nat /\ started <= MaxStarts /\ alive \subseteq 1..started /\ stubborn \subseteq alive
CallTyped ==
    /\ call \in CallStates /\ activeModel \in Model!Models \cup {"none"}
    /\ modelAnswer \in {"none", "active", "released", "not_released"}

\* What a lifecycle remembers it can end, and no other one remembers it; one
\* that is not loaded, nor about to be, remembers nothing.
Watched(m) == call.at \in {"health", "abandon"} /\ call.on = m
LivesSound ==
    \A m \in Model!Models :
        /\ life[m].proc <= started /\ life[m].proc \notin stubborn
        /\ \A n \in Model!Models : m # n /\ life[m].proc # 0 => life[m].proc # life[n].proc
        /\ life[m].state \in {"READY", "IDLE"} \/ Watched(m) \/ life[m].proc = 0

\* A process that can be ended is remembered by the lifecycle an operation is on
\* or, between two operations, by the active one.
Responsible == IF call.at = "idle" THEN activeModel ELSE call.on
Remembered ==
    \A p \in alive \ stubborn : Responsible \in Model!Models /\ life[Responsible].proc = p

CallSound ==
    /\ call.at \in {"load", "health", "abandon"} => call.on = call.model
    /\ call.at # "idle" => modelAnswer = "none"
    /\ modelAnswer = "released" => alive \subseteq stubborn

Installed ==
    /\ target \in {"absent", "whole"} /\ partial \in {"absent", "whole", "wrong"}
    /\ install \in {"idle", "copy", "replace", "discard"}
    /\ install = "replace" => partial = "whole"
    /\ install # "idle" => target = "absent"
    /\ alive # {} => target = "whole"

ModelsInv ==
    /\ LivesTyped /\ ProcessesTyped /\ CallTyped
    /\ LivesSound /\ Remembered /\ CallSound /\ Installed

-----------------------------------------------------------------------------
LEMMA StartsAre == MaxStarts \in Nat
  BY ServicesAssumption DEF ServicesAssumption

LEMMA ModelsAre == Model!Models = {"TEXT", "CODE"}
  BY DEF Model!Models

LEMMA UnloadedIs ==
    ASSUME NEW m \in Model!Models
    PROVE  Model!Unloaded(m) \in LifeStates /\ Model!Unloaded(m).proc = 0
<1>1. (m = "CODE") \in BOOLEAN
  OBVIOUS
<1> QED BY <1>1 DEF Model!Unloaded, LifeStates

LEMMA NoCallIs == Model!NoCall \in CallStates /\ Model!NoCall.at = "idle"
<1>1. "TEXT" \in Model!Models
  BY ModelsAre
<1> QED BY <1>1 DEF Model!NoCall, CallStates, CallSteps

LEMMA ModelsInit == ASSUME Model!ModelInit PROVE ModelsInv
<1> USE DEF Model!ModelInit
<1>1. LivesTyped /\ \A m \in Model!Models : life[m].proc = 0
  BY UnloadedIs DEF LivesTyped
<1>2. ProcessesTyped
  BY StartsAre DEF ProcessesTyped
<1>3. CallTyped /\ call.at = "idle"
  BY NoCallIs DEF CallTyped
<1>4. LivesSound
  BY <1>1 DEF LivesSound
<1>5. Remembered
  BY DEF Remembered
<1>6. CallSound
  BY <1>3 DEF CallSound
<1>7. Installed
  BY DEF Installed
<1> QED BY <1>1, <1>2, <1>3, <1>4, <1>5, <1>6, <1>7 DEF ModelsInv

LEMMA CallIs ==
    ASSUME ModelsInv
    PROVE  /\ call \in CallStates /\ call.at \in CallSteps /\ call.on \in Model!Models /\ call.model \in Model!Models
           /\ call.kind \in {"none", "activate", "unload"} /\ call.then \in {"end", "load", "code", "report"}
           /\ call.safe \in BOOLEAN /\ call.errors \in BOOLEAN
  BY DEF ModelsInv, CallTyped, CallStates

-----------------------------------------------------------------------------
\* How an operation goes on.
Proceeds == /\ CallTyped' /\ call'.at \in {"idle", "load", "unload"}
            /\ call'.at = "load" => call'.on = call'.model
            /\ call'.at # "idle" => modelAnswer' = "none"

LEMMA RaiseProceeds ==
    ASSUME ModelsInv, call.at # "idle", Model!Raise PROVE Proceeds
<1>1. PICK c : c = call'
  OBVIOUS
<1>2. modelAnswer = "none" /\ activeModel \in Model!Models \cup {"none"}
  BY DEF ModelsInv, CallSound, CallTyped
<1>3. "TEXT" \in Model!Models /\ "CODE" \in Model!Models
  BY ModelsAre
<1>4. c \in CallStates /\ c.at \in {"idle", "unload"}
  <2>1. \/ call' = [call EXCEPT !.at = "unload", !.on = "TEXT", !.then = "code"]
        \/ call' = Model!NoCall
        \/ call' = [call EXCEPT !.at = "unload", !.on = "CODE", !.then = "report", !.errors = TRUE]
    BY DEF Model!Raise
  <2>2. call \in CallStates
    BY CallIs
  <2>3. CASE call' = Model!NoCall
    BY <1>1, <2>3, NoCallIs
  <2>4. CASE call' = [call EXCEPT !.at = "unload", !.on = "TEXT", !.then = "code"]
    BY <1>1, <1>3, <2>2, <2>4 DEF CallStates, CallSteps
  <2>5. CASE call' = [call EXCEPT !.at = "unload", !.on = "CODE", !.then = "report", !.errors = TRUE]
    BY <1>1, <1>3, <2>2, <2>5 DEF CallStates, CallSteps
  <2> QED BY <2>1, <2>3, <2>4, <2>5
<1>5. activeModel' \in Model!Models \cup {"none"}
  BY <1>2 DEF Model!Raise
<1>6. /\ modelAnswer' \in {"none", "active", "released", "not_released"}
      /\ modelAnswer' = "none" \/ c = Model!NoCall
  BY <1>1, <1>2 DEF Model!Raise
<1> QED BY <1>1, <1>4, <1>5, <1>6, NoCallIs DEF Proceeds, CallTyped, CallStates, CallSteps, Model!Models

LEMMA UnloadsProceeds ==
    ASSUME ModelsInv, call.at # "idle", Model!Unloads PROVE Proceeds
<1>1. PICK c : c = call'
  OBVIOUS
<1>2. modelAnswer = "none" /\ activeModel \in Model!Models \cup {"none"}
  BY DEF ModelsInv, CallSound, CallTyped
<1>3. "CODE" \in Model!Models /\ call.model \in Model!Models /\ call \in CallStates
  BY ModelsAre, CallIs
<1>4. \/ /\ call' = [call EXCEPT !.at = "load", !.on = call.model, !.then = "end"]
         /\ activeModel' = "none" /\ modelAnswer' = modelAnswer
      \/ call' = [call EXCEPT !.at = "unload", !.on = "CODE", !.then = "report"] /\ UNCHANGED <<activeModel, modelAnswer>>
      \/ call' = Model!NoCall /\ activeModel' = "none" /\ modelAnswer' \in {"not_released", "released", "none"}
  BY DEF Model!Unloads, Model!GoOn
<1>5. CASE /\ call' = [call EXCEPT !.at = "load", !.on = call.model, !.then = "end"]
           /\ activeModel' = "none" /\ modelAnswer' = modelAnswer
  <2>1. c \in CallStates /\ c.at = "load" /\ c.on = c.model
    BY <1>1, <1>3, <1>5 DEF CallStates, CallSteps
  <2> QED BY <1>1, <1>2, <1>5, <2>1 DEF Proceeds, CallTyped, CallStates, CallSteps, Model!Models
<1>6. CASE call' = [call EXCEPT !.at = "unload", !.on = "CODE", !.then = "report"] /\ UNCHANGED <<activeModel, modelAnswer>>
  <2>1. c \in CallStates /\ c.at = "unload"
    BY <1>1, <1>3, <1>6 DEF CallStates, CallSteps
  <2> QED BY <1>1, <1>2, <1>6, <2>1 DEF Proceeds, CallTyped, CallStates, CallSteps, Model!Models
<1>7. CASE call' = Model!NoCall /\ activeModel' = "none" /\ modelAnswer' \in {"not_released", "released", "none"}
  BY <1>7, NoCallIs DEF Proceeds, CallTyped, CallStates, CallSteps, Model!Models
<1> QED BY <1>4, <1>5, <1>6, <1>7

\* An operation goes on with nothing left that could be ended, its lifecycle
\* remembering no process.
LEMMA GoneKeeps ==
    ASSUME ModelsInv, call.at # "idle", Proceeds, NEW next \in LifeStates, next.proc = 0,
           life' = [life EXCEPT ![call.on] = next],
           alive' \subseteq alive, stubborn' \subseteq alive', alive' \subseteq stubborn',
           stubborn' \subseteq stubborn \cup {life[call.on].proc},
           UNCHANGED <<started, target, partial, install>>
    PROVE  ModelsInv'
<1>1. call.on \in Model!Models /\ life \in [Model!Models -> LifeStates]
  BY CallIs DEF ModelsInv, LivesTyped
<1>2. life' \in [Model!Models -> LifeStates] /\ life'[call.on] = next
      /\ \A m \in Model!Models : m # call.on => life'[m] = life[m]
  BY <1>1
<1>3. LivesTyped'
  BY <1>2 DEF LivesTyped, LifeStates, Model!Models
<1>4. ProcessesTyped'
  BY DEF ModelsInv, ProcessesTyped
<1>5. CallTyped'
  BY DEF Proceeds
<1>6. 0 \notin stubborn' /\ 0 <= started
  BY DEF ModelsInv, ProcessesTyped
<1>7. ASSUME NEW m \in Model!Models
      PROVE  /\ life'[m].proc <= started' /\ life'[m].proc \notin stubborn'
             /\ \A n \in Model!Models : m # n /\ life'[m].proc # 0 => life'[m].proc # life'[n].proc
             /\ life'[m].state \in {"READY", "IDLE"} \/ life'[m].proc = 0
  <2>1. CASE m = call.on
    BY <1>2, <1>6, <2>1
  <2>2. CASE m # call.on
    <3>1. life'[m] = life[m]
      BY <1>2, <2>2
    <3>2. /\ life[m].proc <= started /\ life[m].proc \notin stubborn
          /\ \A n \in Model!Models : m # n /\ life[m].proc # 0 => life[m].proc # life[n].proc
          /\ life[m].state \in {"READY", "IDLE"} \/ life[m].proc = 0
      BY <2>2 DEF ModelsInv, LivesSound, Watched
    <3>3. life[m].proc \notin stubborn'
      BY <1>1, <1>6, <2>2, <3>2
    <3>4. ASSUME NEW n \in Model!Models, m # n, life[m].proc # 0 PROVE life[m].proc # life'[n].proc
      BY <1>2, <3>2, <3>4
    <3> QED BY <3>1, <3>2, <3>3, <3>4
  <2> QED BY <2>1, <2>2
<1>8. LivesSound'
  BY <1>7 DEF LivesSound, Model!Models
<1>9. Remembered'
  BY DEF Remembered
<1>10. CallSound'
  BY DEF CallSound, Proceeds
<1>11. Installed'
  BY DEF ModelsInv, Installed
<1> QED BY <1>3, <1>4, <1>5, <1>8, <1>9, <1>10, <1>11 DEF ModelsInv

LEMMA AttemptFailsGoes ==
    ASSUME ModelsInv, call.at # "idle", Model!AttemptFails, call.on = call.model
    PROVE  Proceeds /\ \E next \in LifeStates : next.proc = 0 /\ life' = [life EXCEPT ![call.on] = next]
<1>1. PICK m, p : m = call.on /\ p = life[call.on]
  OBVIOUS
<1>2. m \in Model!Models /\ p \in LifeStates /\ call \in CallStates
  BY <1>1, CallIs DEF ModelsInv, LivesTyped
<1>3. Model!Unloaded(m) \in LifeStates /\ Model!Unloaded(m).proc = 0
  BY <1>2, UnloadedIs
<1>4. CASE /\ life' = [life EXCEPT ![call.on] = [Model!Unloaded(call.on) EXCEPT !.device = "cpu"]]
           /\ Model!Go("load") /\ UNCHANGED <<activeModel, modelAnswer>>
  <2>1. PICK next : next = [Model!Unloaded(m) EXCEPT !.device = "cpu"]
    OBVIOUS
  <2>2. next \in LifeStates /\ next.proc = 0
    BY <1>3, <2>1 DEF LifeStates
  <2>3. PICK c : c = call'
    OBVIOUS
  <2>4. c \in CallStates /\ c.at = "load" /\ c.on = c.model
    BY <1>2, <1>4, <2>3 DEF Model!Go, CallStates, CallSteps
  <2>5. modelAnswer = "none" /\ activeModel \in Model!Models \cup {"none"}
    BY DEF ModelsInv, CallSound, CallTyped
  <2>6. Proceeds
    BY <1>4, <2>3, <2>4, <2>5 DEF Proceeds, CallTyped, CallStates, CallSteps, Model!Models
  <2>7. life' = [life EXCEPT ![call.on] = next]
    BY <1>1, <1>4, <2>1
  <2> QED BY <2>2, <2>6, <2>7
<1>5. CASE /\ \/ life' = [life EXCEPT ![call.on] = [p EXCEPT !.state = "UNLOADED", !.proc = 0]]
              \/ life' = [life EXCEPT ![call.on] = Model!Unloaded(m)]
           /\ Model!Raise
  <2>1. Proceeds
    BY <1>5, RaiseProceeds
  <2>2. PICK next : /\ next = [p EXCEPT !.state = "UNLOADED", !.proc = 0] \/ next = Model!Unloaded(m)
                    /\ life' = [life EXCEPT ![call.on] = next]
    BY <1>5
  <2>3. next \in LifeStates /\ next.proc = 0
    <3>1. CASE next = [p EXCEPT !.state = "UNLOADED", !.proc = 0]
      BY <1>2, <3>1 DEF LifeStates
    <3>2. CASE next = Model!Unloaded(m)
      BY <1>3, <3>2
    <3> QED BY <2>2, <3>1, <3>2
  <2> QED BY <2>1, <2>2, <2>3
<1> QED BY <1>1, <1>4, <1>5 DEF Model!AttemptFails, Model!m0, ModelsInv, LivesTyped

-----------------------------------------------------------------------------
\* What is remembered while an operation is at work.
LEMMA WorkIs ==
    ASSUME ModelsInv, call.at # "idle"
    PROVE  /\ life[call.on] \in LifeStates /\ call.on \in Model!Models
           /\ \A p \in alive \ stubborn : life[call.on].proc = p
           /\ life[call.on].proc \notin stubborn /\ stubborn \subseteq alive /\ 0 \notin alive
           /\ call.at \in {"load", "health", "abandon"} => call.on = call.model
           /\ call.at \notin {"health", "abandon"} /\ life[call.on].state \notin {"READY", "IDLE"} =>
                  life[call.on].proc = 0
           /\ life[call.on].proc \notin alive => alive \subseteq stubborn
<1>1. call.on \in Model!Models
  BY CallIs
<1>2. life[call.on] \in LifeStates
  BY <1>1 DEF ModelsInv, LivesTyped
<1>3. \A p \in alive \ stubborn : life[call.on].proc = p
  BY DEF ModelsInv, Remembered, Responsible
<1>4. stubborn \subseteq alive /\ 0 \notin alive
  BY DEF ModelsInv, ProcessesTyped
<1>5. /\ life[call.on].proc \notin stubborn
      /\ call.at \notin {"health", "abandon"} /\ life[call.on].state \notin {"READY", "IDLE"} =>
             life[call.on].proc = 0
  BY <1>1 DEF ModelsInv, LivesSound, Watched
<1>6. call.at \in {"load", "health", "abandon"} => call.on = call.model
  BY DEF ModelsInv, CallSound
<1> QED BY <1>1, <1>2, <1>3, <1>4, <1>5, <1>6

\* The attempt fails and nothing is left of it.
LEMMA AttemptFailsKeeps ==
    ASSUME ModelsInv, call.at # "idle", call.on = call.model, Model!AttemptFails,
           alive' \subseteq alive, stubborn' \subseteq alive', alive' \subseteq stubborn',
           stubborn' \subseteq stubborn \cup {life[call.on].proc},
           UNCHANGED <<started, target, partial, install>>
    PROVE  ModelsInv'
<1>1. PICK next \in LifeStates : next.proc = 0 /\ life' = [life EXCEPT ![call.on] = next]
  BY AttemptFailsGoes
<1>2. Proceeds
  BY AttemptFailsGoes
<1> QED BY <1>1, <1>2, GoneKeeps

\* An exception with nothing left to end: the lifecycle may be forgotten.
LEMMA RaiseKeeps ==
    ASSUME ModelsInv, call.at # "idle", Model!Raise, life[call.on].proc = 0,
           NEW next \in LifeStates, next.proc = 0, life' = [life EXCEPT ![call.on] = next],
           UNCHANGED <<alive, stubborn, started, target, partial, install>>
    PROVE  ModelsInv'
<1>1. Proceeds
  BY RaiseProceeds
<1>2. alive \subseteq stubborn
  BY WorkIs
<1>3. stubborn \subseteq alive
  BY WorkIs
<1> QED BY <1>1, <1>2, <1>3, GoneKeeps

LEMMA LifeRests == ASSUME ModelsInv, call.at # "idle", UNCHANGED life
                   PROVE  life' = [life EXCEPT ![call.on] = life[call.on]]
  BY CallIs DEF ModelsInv, LivesTyped

LEMMA RefusedKeeps ==
    ASSUME ModelsInv, Model!LoadRefused \/ Model!UnloadRefused PROVE ModelsInv'
<1>1. /\ call.at \in {"load", "unload"} /\ life[call.on].state \in {"LOADING", "UNLOADING"} /\ Model!Raise
      /\ UNCHANGED <<alive, stubborn, started, target, partial, install>>
      /\ UNCHANGED life \/ life' = [life EXCEPT ![call.on] = Model!Unloaded(call.on)]
  <2>1. Model!m0 = call.on
    BY DEF Model!m0
  <2> QED BY <2>1 DEF Model!LoadRefused, Model!UnloadRefused, Model!At, Model!Forget, Model!Disk
<1>2. life[call.on].proc = 0 /\ life[call.on] \in LifeStates /\ call.on \in Model!Models
  BY <1>1, WorkIs
<1>3. CASE UNCHANGED life
  <2>1. PICK next : next = life[call.on]
    OBVIOUS
  <2>2. life' = [life EXCEPT ![call.on] = next]
    BY <1>1, <1>3, <2>1, LifeRests
  <2> QED BY <1>1, <1>2, <2>1, <2>2, RaiseKeeps
<1>4. CASE life' = [life EXCEPT ![call.on] = Model!Unloaded(call.on)]
  <2>1. PICK next : next = Model!Unloaded(call.on)
    OBVIOUS
  <2>2. next \in LifeStates /\ next.proc = 0
    BY <1>2, <2>1, UnloadedIs
  <2> QED BY <1>1, <1>2, <1>4, <2>1, <2>2, RaiseKeeps
<1> QED BY <1>1, <1>3, <1>4

LEMMA InvalidKeeps == ASSUME ModelsInv, Model!Invalid PROVE ModelsInv'
<1>1. /\ call.at = "load" /\ life[call.on].state = "UNLOADED" /\ Model!AttemptFails
      /\ UNCHANGED <<alive, stubborn, started, target, partial, install>>
  BY DEF Model!Invalid, Model!At, Model!m0, Model!Disk
<1>2. life[call.on].proc = 0 /\ call.on = call.model /\ alive \subseteq stubborn /\ stubborn \subseteq alive
  BY <1>1, WorkIs
<1> QED BY <1>1, <1>2, AttemptFailsKeeps

LEMMA LogFailsKeeps == ASSUME ModelsInv, Model!LogFails PROVE ModelsInv'
<1>1. PICK m, p : m = call.on /\ p = life[call.on]
  OBVIOUS
<1>2. /\ call.at = "load" /\ life[call.on].state = "UNLOADED" /\ Model!Raise
      /\ UNCHANGED <<alive, stubborn, started, target, partial, install>>
      /\ \/ life' = [life EXCEPT ![call.on] = [p EXCEPT !.state = "LOADING"]]
         \/ life' = [life EXCEPT ![call.on] = Model!Unloaded(m)]
  BY <1>1, CallIs DEF Model!LogFails, Model!At, Model!m0, Model!Disk, ModelsInv, LivesTyped
<1>3. life[call.on].proc = 0 /\ life[call.on] \in LifeStates /\ m \in Model!Models
  BY <1>1, <1>2, WorkIs
<1>4. PICK next : /\ next = [p EXCEPT !.state = "LOADING"] \/ next = Model!Unloaded(m)
                  /\ life' = [life EXCEPT ![call.on] = next]
  BY <1>2
<1>5. next \in LifeStates /\ next.proc = 0
  <2>1. CASE next = [p EXCEPT !.state = "LOADING"]
    BY <1>1, <1>3, <2>1 DEF LifeStates
  <2>2. CASE next = Model!Unloaded(m)
    BY <1>3, <2>2, UnloadedIs
  <2> QED BY <1>4, <2>1, <2>2
<1> QED BY <1>2, <1>3, <1>4, <1>5, RaiseKeeps

LEMMA AbandonKeeps == ASSUME ModelsInv, Model!Abandon PROVE ModelsInv'
<1>1. /\ call.at = "abandon" /\ Model!AttemptFails /\ UNCHANGED <<started, target, partial, install>>
      /\ \/ alive' = alive \ {life[call.on].proc} /\ stubborn' = stubborn
         \/ life[call.on].proc \in alive /\ stubborn' = stubborn \cup {life[call.on].proc} /\ alive' = alive
  BY DEF Model!Abandon, Model!At, Model!m0, Model!Disk, Model!Ends, Model!Outlives
<1>2. call.on = call.model /\ alive' \subseteq alive /\ stubborn' \subseteq alive' /\ alive' \subseteq stubborn'
  BY <1>1, WorkIs
<1> QED BY <1>1, <1>2, AttemptFailsKeeps

LEMMA UnloadKeeps == ASSUME ModelsInv, Model!Unload PROVE ModelsInv'
<1>1. PICK m, p : m = call.on /\ p = life[call.on]
  OBVIOUS
<1>2. /\ call.at = "unload" /\ UNCHANGED <<started, target, partial, install>>
      /\ \/ alive' = alive \ {life[call.on].proc} /\ stubborn' = stubborn
         \/ life[call.on].proc \in alive /\ stubborn' = stubborn \cup {life[call.on].proc} /\ alive' = alive
  BY DEF Model!Unload, Model!At, Model!m0, Model!Disk, Model!Ends, Model!Outlives
<1>3. alive' \subseteq alive /\ stubborn' \subseteq alive' /\ alive' \subseteq stubborn'
  BY <1>2, WorkIs
<1>4. m \in Model!Models /\ p \in LifeStates
  BY <1>1, <1>2, WorkIs
<1>5. PICK next : /\ next = Model!Unloaded(m) \/ next = [p EXCEPT !.state = "UNLOADING", !.proc = 0]
                  /\ life' = [life EXCEPT ![call.on] = next]
  <2>1. \/ life' = [life EXCEPT ![call.on] = Model!Unloaded(m)]
        \/ life' = [life EXCEPT ![call.on] = [p EXCEPT !.state = "UNLOADING", !.proc = 0]]
    BY <1>1, <1>4 DEF Model!Unload, Model!m0, Model!Forget, ModelsInv, LivesTyped
  <2> QED BY <2>1
<1>6. next \in LifeStates /\ next.proc = 0
  <2>1. CASE next = [p EXCEPT !.state = "UNLOADING", !.proc = 0]
    BY <1>4, <2>1 DEF LifeStates
  <2>2. CASE next = Model!Unloaded(m)
    BY <1>4, <2>2, UnloadedIs
  <2> QED BY <1>5, <2>1, <2>2
<1>7. Proceeds
  BY <1>2, RaiseProceeds, UnloadsProceeds DEF Model!Unload
<1> QED BY <1>2, <1>3, <1>5, <1>6, <1>7, GoneKeeps

-----------------------------------------------------------------------------
\* A lifecycle goes on with the process it had, or with none.
LEMMA LivesKeep ==
    ASSUME ModelsInv, NEW m \in Model!Models, NEW next \in LifeStates, life' = [life EXCEPT ![m] = next],
           next.proc \in {0, life[m].proc}, stubborn' \subseteq stubborn, started' = started,
           next.state \in {"READY", "IDLE"} \/ Watched(m)' \/ next.proc = 0,
           \A n \in Model!Models : n # m => ~Watched(n)
    PROVE  LivesTyped' /\ LivesSound' /\ life'[m] = next /\ \A n \in Model!Models : n # m => life'[n] = life[n]
<1>1. life' \in [Model!Models -> LifeStates] /\ life'[m] = next /\ \A n \in Model!Models : n # m => life'[n] = life[n]
  BY DEF ModelsInv, LivesTyped
<1>2. LivesTyped'
  BY <1>1 DEF LivesTyped, LifeStates, Model!Models
<1>3. 0 \notin stubborn' /\ 0 <= started
  BY DEF ModelsInv, ProcessesTyped
<1>4. ASSUME NEW n \in Model!Models
      PROVE  /\ life[n].proc <= started /\ life[n].proc \notin stubborn'
             /\ \A x \in Model!Models : n # x /\ life[n].proc # 0 => life[n].proc # life[x].proc
             /\ n # m => life[n].state \in {"READY", "IDLE"} \/ life[n].proc = 0
  BY DEF ModelsInv, LivesSound
<1>5. ASSUME NEW n \in Model!Models
      PROVE  /\ life'[n].proc <= started' /\ life'[n].proc \notin stubborn'
             /\ life'[n].state \in {"READY", "IDLE"} \/ Watched(n)' \/ life'[n].proc = 0
  <2>1. CASE n = m
    BY <1>1, <1>3, <1>4, <2>1
  <2>2. CASE n # m
    BY <1>1, <1>4, <2>2
  <2> QED BY <2>1, <2>2
<1>6. ASSUME NEW n \in Model!Models, NEW x \in Model!Models, n # x, life'[n].proc # 0
      PROVE  life'[n].proc # life'[x].proc
  BY <1>1, <1>4, <1>6
<1>7. LivesSound'
  BY <1>5, <1>6 DEF LivesSound, Model!Models
<1> QED BY <1>1, <1>2, <1>7

LEMMA LoadsKeeps ==
    ASSUME ModelsInv, call.at \in {"load", "health"}, life[call.on].proc \in alive, Model!Loads,
           NEW next \in LifeStates, next.proc = life[call.on].proc, next.state = "READY",
           life' = [life EXCEPT ![call.on] = next],
           UNCHANGED <<alive, stubborn, started, target, partial, install>>
    PROVE  ModelsInv'
<1>1. /\ call.on \in Model!Models /\ call.on = call.model /\ \A p \in alive \ stubborn : life[call.on].proc = p
      /\ \A n \in Model!Models : n # call.on => ~Watched(n)
  BY WorkIs DEF Watched
<1>2. LivesTyped' /\ LivesSound' /\ life'[call.on] = next
  BY <1>1, LivesKeep
<1>3. call' = Model!NoCall /\ activeModel' = call.model /\ modelAnswer' \in {"active", "none"}
  BY DEF Model!Loads
<1>4. CallTyped'
  BY <1>1, <1>3, NoCallIs DEF CallTyped, CallStates, CallSteps, Model!Models
<1>5. ProcessesTyped'
  BY DEF ModelsInv, ProcessesTyped
<1>6. Remembered'
  <2>1. call'.at = "idle"
    BY <1>3, NoCallIs
  <2>2. Responsible' = call.on
    BY <1>1, <1>3, <2>1 DEF Responsible
  <2>3. \A p \in alive' \ stubborn' : Responsible' \in Model!Models /\ life'[Responsible'].proc = p
    BY <1>1, <1>2, <2>2
  <2> QED BY <2>3 DEF Remembered, Model!Models
<1>7. CallSound'
  BY <1>3, NoCallIs DEF CallSound
<1>8. Installed'
  BY DEF ModelsInv, Installed
<1> QED BY <1>2, <1>4, <1>5, <1>6, <1>7, <1>8 DEF ModelsInv

LEMMA LoadAgainKeeps == ASSUME ModelsInv, Model!LoadAgain PROVE ModelsInv'
<1>1. PICK p : p = life[call.on]
  OBVIOUS
<1>2. call.at = "load" /\ UNCHANGED <<alive, stubborn, started, target, partial, install>>
  BY DEF Model!LoadAgain, Model!At, Model!Disk
<1>3. p \in LifeStates /\ call.on \in Model!Models /\ life \in [Model!Models -> LifeStates]
  BY <1>1, <1>2, WorkIs DEF ModelsInv, LivesTyped
<1>4. CASE life[call.on].proc \in alive /\ Model!Loads /\ life' = [life EXCEPT ![call.on].state = "READY"]
  <2>1. PICK next : next = [p EXCEPT !.state = "READY"]
    OBVIOUS
  <2>2. next \in LifeStates /\ next.proc = p.proc /\ next.state = "READY"
    BY <1>3, <2>1 DEF LifeStates
  <2>3. life' = [life EXCEPT ![call.on] = next]
    BY <1>1, <1>3, <1>4, <2>1
  <2> QED BY <1>1, <1>2, <1>4, <2>2, <2>3, LoadsKeeps
<1>5. CASE /\ life[call.on].proc \notin alive /\ Model!Raise
           /\ life' = [life EXCEPT ![call.on].state = "UNLOADED", ![call.on].proc = 0]
  <2>1. PICK next : next = [p EXCEPT !.state = "UNLOADED", !.proc = 0]
    OBVIOUS
  <2>2. next \in LifeStates /\ next.proc = 0
    BY <1>3, <2>1 DEF LifeStates
  <2>3. life' = [life EXCEPT ![call.on] = next]
    BY <1>1, <1>3, <1>5, <2>1
  <2>4. Proceeds /\ alive \subseteq stubborn /\ stubborn \subseteq alive
    BY <1>2, <1>5, RaiseProceeds, WorkIs
  <2> QED BY <1>2, <2>2, <2>3, <2>4, GoneKeeps
<1> QED BY <1>4, <1>5 DEF Model!LoadAgain, Model!m0

\* The call goes on to a step where its process is waited for.
LEMMA CallWatches ==
    ASSUME ModelsInv, call.at \in {"load", "health"}, NEW spot \in {"health", "abandon"}, Model!Go(spot),
           UNCHANGED <<activeModel, modelAnswer>>
    PROVE  /\ CallTyped' /\ CallSound' /\ call'.at = spot /\ call'.on = call.on
           /\ \A n \in Model!Models : n # call.on => ~Watched(n)
<1>1. PICK c : c = call'
  OBVIOUS
<1>2. call \in CallStates /\ spot \in CallSteps
  BY CallIs DEF CallSteps
<1>3. c \in CallStates /\ c.at = spot /\ c.on = call.on /\ c.model = call.model
  BY <1>1, <1>2 DEF Model!Go, CallStates
<1>4. CallTyped'
  BY <1>1, <1>3 DEF ModelsInv, CallTyped, CallStates, CallSteps, Model!Models
<1>5. modelAnswer' = "none" /\ call.on = call.model
  BY DEF ModelsInv, CallSound
<1>6. CallSound'
  BY <1>1, <1>3, <1>5 DEF CallSound
<1> QED BY <1>1, <1>3, <1>4, <1>6 DEF Watched

LEMMA HealthyKeeps == ASSUME ModelsInv, Model!Healthy PROVE ModelsInv'
<1>1. PICK p : p = life[call.on]
  OBVIOUS
<1>2. call.at = "health" /\ UNCHANGED <<alive, stubborn, started, target, partial, install>>
  BY DEF Model!Healthy, Model!At, Model!Disk
<1>3. /\ p \in LifeStates /\ call.on \in Model!Models /\ life \in [Model!Models -> LifeStates]
      /\ call.on = call.model
  BY <1>1, <1>2, WorkIs DEF ModelsInv, LivesTyped
<1>4. CASE /\ life[call.on].proc \in alive /\ Model!Loads
           /\ life' = [life EXCEPT ![call.on].state = "READY", ![call.on].known = TRUE]
  <2>1. PICK next : next = [p EXCEPT !.state = "READY", !.known = TRUE]
    OBVIOUS
  <2>2. next \in LifeStates /\ next.proc = p.proc /\ next.state = "READY"
    BY <1>3, <2>1 DEF LifeStates
  <2>3. life' = [life EXCEPT ![call.on] = next]
    BY <1>1, <1>3, <1>4, <2>1
  <2> QED BY <1>1, <1>2, <1>4, <2>2, <2>3, LoadsKeeps
<1>5. CASE life[call.on].proc \notin alive /\ Model!AttemptFails
  <2>1. alive \subseteq stubborn /\ stubborn \subseteq alive
    BY <1>2, <1>5, WorkIs
  <2> QED BY <1>2, <1>3, <1>5, <2>1, AttemptFailsKeeps
<1>6. CASE Model!Go("abandon") /\ UNCHANGED <<life, activeModel, modelAnswer>>
  <2>1. /\ CallTyped' /\ CallSound' /\ call'.at = "abandon" /\ call'.on = call.on
        /\ \A n \in Model!Models : n # call.on => ~Watched(n)
    BY <1>2, <1>6, CallWatches
  <2>2. life' = [life EXCEPT ![call.on] = p]
    BY <1>1, <1>3, <1>6
  <2>3. Watched(call.on)'
    BY <2>1 DEF Watched
  <2>4. LivesTyped' /\ LivesSound'
    BY <1>1, <1>2, <1>3, <2>1, <2>2, <2>3, LivesKeep
  <2>5. ProcessesTyped' /\ Installed'
    BY <1>2 DEF ModelsInv, ProcessesTyped, Installed
  <2>6. Responsible' = call.on /\ Responsible = call.on
    BY <1>2, <2>1 DEF Responsible
  <2>7. Remembered'
    BY <1>2, <1>3, <1>6, <2>6 DEF ModelsInv, Remembered, Model!Models
  <2> QED BY <2>1, <2>4, <2>5, <2>7 DEF ModelsInv
<1> QED BY <1>4, <1>5, <1>6 DEF Model!Healthy, Model!m0

LEMMA StartProcessKeeps == ASSUME ModelsInv, Model!StartProcess PROVE ModelsInv'
<1>1. /\ call.at = "load" /\ life[call.on].state = "UNLOADED" /\ target = "whole"
      /\ UNCHANGED <<stubborn, target, partial, install>>
  BY DEF Model!StartProcess, Model!At, Model!m0, Model!Disk
<1>2. /\ life[call.on] \in LifeStates /\ call.on \in Model!Models /\ call.on = call.model
      /\ life[call.on].proc = 0 /\ alive \subseteq stubborn /\ stubborn \subseteq alive
  BY <1>1, WorkIs
<1>3. CASE Model!AttemptFails /\ UNCHANGED <<alive, started>>
  BY <1>1, <1>2, <1>3, AttemptFailsKeeps
<1>4. CASE /\ started < MaxStarts /\ started' = started + 1 /\ alive' = alive \cup {started'}
           /\ life' = [life EXCEPT ![call.on].state = "LOADING", ![call.on].proc = started']
           /\ Model!Go("health") /\ UNCHANGED <<activeModel, modelAnswer>>
  <2>1. PICK p, q : p = life[call.on] /\ q = started + 1
    OBVIOUS
  <2>2. PICK next : next = [p EXCEPT !.state = "LOADING", !.proc = q]
    OBVIOUS
  <2>3. started \in Nat /\ q \in Nat /\ q > started /\ q <= MaxStarts /\ q \notin stubborn /\ q # 0
    BY <1>4, <2>1, StartsAre DEF ModelsInv, ProcessesTyped
  <2>4. next \in LifeStates /\ next.proc = q
    BY <1>2, <2>1, <2>2, <2>3 DEF LifeStates
  <2>5. life' = [life EXCEPT ![call.on] = next] /\ life \in [Model!Models -> LifeStates]
    BY <1>2, <1>4, <2>1, <2>2 DEF ModelsInv, LivesTyped
  <2>6. life' \in [Model!Models -> LifeStates] /\ life'[call.on] = next
        /\ \A m \in Model!Models : m # call.on => life'[m] = life[m]
    BY <1>2, <2>4, <2>5
  <2>7. LivesTyped'
    BY <2>6 DEF LivesTyped, LifeStates, Model!Models
  <2>8. /\ CallTyped' /\ CallSound' /\ call'.at = "health" /\ call'.on = call.on
        /\ \A n \in Model!Models : n # call.on => ~Watched(n)
    <3>1. CallTyped' /\ call'.at = "health" /\ call'.on = call.on /\ \A n \in Model!Models : n # call.on => ~Watched(n)
      BY <1>1, <1>4, CallWatches
    <3>2. CallSound'
      BY <1>1, <1>4, CallWatches
    <3> QED BY <3>1, <3>2
  <2>9. ProcessesTyped'
    BY <1>1, <1>4, <2>1, <2>3 DEF ModelsInv, ProcessesTyped
  <2>10. ASSUME NEW m \in Model!Models
         PROVE  /\ m # call.on => life[m].proc <= started /\ life[m].proc \notin stubborn
                /\ m # call.on => life[m].state \in {"READY", "IDLE"} \/ life[m].proc = 0
                /\ \A n \in Model!Models : m # n /\ life[m].proc # 0 => life[m].proc # life[n].proc
                /\ life[m].proc \in Nat
    BY <2>5, <2>8 DEF ModelsInv, LivesSound, LifeStates
  <2>11. ASSUME NEW m \in Model!Models
         PROVE  /\ life'[m].proc <= started' /\ life'[m].proc \notin stubborn'
                /\ life'[m].state \in {"READY", "IDLE"} \/ Watched(m)' \/ life'[m].proc = 0
    <3>1. CASE m = call.on
      BY <1>1, <1>4, <2>1, <2>3, <2>4, <2>6, <2>8, <3>1 DEF Watched
    <3>2. CASE m # call.on
      BY <1>1, <1>4, <2>1, <2>3, <2>6, <2>10, <3>2
    <3> QED BY <3>1, <3>2
  <2>12. ASSUME NEW m \in Model!Models, NEW n \in Model!Models, m # n, life'[m].proc # 0
         PROVE  life'[m].proc # life'[n].proc
    <3>1. CASE m = call.on
      BY <2>3, <2>4, <2>6, <2>10, <2>12, <3>1
    <3>2. CASE n = call.on
      BY <2>3, <2>4, <2>6, <2>10, <2>12, <3>2
    <3>3. CASE m # call.on /\ n # call.on
      BY <2>6, <2>10, <2>12, <3>3
    <3> QED BY <3>1, <3>2, <3>3
  <2>13. LivesSound'
    BY <2>11, <2>12 DEF LivesSound, Model!Models
  <2>14. Responsible' = call.on
    BY <2>8 DEF Responsible
  <2>15. \A x \in alive' \ stubborn' : Responsible' \in Model!Models /\ life'[Responsible'].proc = x
    BY <1>1, <1>2, <1>4, <2>1, <2>4, <2>6, <2>14
  <2>16. Remembered'
    BY <2>15 DEF Remembered, Model!Models
  <2>17. Installed'
    BY <1>1 DEF ModelsInv, Installed
  <2> QED BY <2>7, <2>8, <2>9, <2>13, <2>16, <2>17 DEF ModelsInv
<1> QED BY <1>3, <1>4 DEF Model!StartProcess, Model!m0

-----------------------------------------------------------------------------
\* Between two operations, and what happens at any time.
LEMMA BeginKeeps ==
    ASSUME ModelsInv, NEW kind \in {"activate", "unload"}, NEW m \in Model!Models, NEW safe \in BOOLEAN,
           Model!Begin(kind, m, safe)
    PROVE  ModelsInv'
<1>1. PICK c : c = call'
  OBVIOUS
<1>2. /\ call.at = "idle" /\ modelAnswer' = "none" /\ activeModel' = activeModel
      /\ UNCHANGED <<life, alive, stubborn, started, target, partial, install>>
  BY DEF Model!Begin, Model!At, Model!Disk
<1>3. activeModel \in Model!Models \cup {"none"}
  BY DEF ModelsInv, CallTyped
<1>4. \/ /\ activeModel \in {m, "none"}
         /\ call' = [Model!NoCall EXCEPT !.kind = kind, !.model = m, !.safe = safe, !.at = "load", !.on = m]
      \/ /\ activeModel \notin {m, "none"}
         /\ call' = [Model!NoCall EXCEPT !.kind = kind, !.model = m, !.safe = safe, !.at = "unload",
                                         !.on = activeModel, !.then = "load"]
      \/ /\ activeModel = m
         /\ call' = [Model!NoCall EXCEPT !.kind = kind, !.model = m, !.safe = safe, !.at = "unload", !.on = m]
  BY DEF Model!Begin
<1>5. /\ c \in CallStates /\ c.at \in {"load", "unload"} /\ c.on \in Model!Models
      /\ c.at = "load" => c.on = c.model
      /\ activeModel \in {c.on, "none"}
  <2>1. Model!NoCall \in CallStates
    BY NoCallIs
  <2>2. PICK n : n = Model!NoCall
    OBVIOUS
  <2>3. CASE /\ activeModel \in {m, "none"}
             /\ call' = [n EXCEPT !.kind = kind, !.model = m, !.safe = safe, !.at = "load", !.on = m]
    BY <1>1, <2>1, <2>2, <2>3 DEF CallStates, CallSteps
  <2>4. CASE /\ activeModel \notin {m, "none"}
             /\ call' = [n EXCEPT !.kind = kind, !.model = m, !.safe = safe, !.at = "unload",
                                  !.on = activeModel, !.then = "load"]
    <3>1. activeModel \in Model!Models
      BY <1>3, <2>4
    <3> QED BY <1>1, <2>1, <2>2, <2>4, <3>1 DEF CallStates, CallSteps
  <2>5. CASE /\ activeModel = m
             /\ call' = [n EXCEPT !.kind = kind, !.model = m, !.safe = safe, !.at = "unload", !.on = m]
    BY <1>1, <2>1, <2>2, <2>5 DEF CallStates, CallSteps
  <2> QED BY <1>4, <2>2, <2>3, <2>4, <2>5
<1>6. CallTyped'
  BY <1>1, <1>2, <1>3, <1>5 DEF CallTyped, CallStates, CallSteps, Model!Models
<1>7. LivesTyped' /\ ProcessesTyped' /\ Installed'
  BY <1>2 DEF ModelsInv, LivesTyped, LifeStates, Model!Models, ProcessesTyped, Installed
<1>8. LivesSound'
  <2>1. \A x \in Model!Models : ~Watched(x)
    BY <1>2 DEF Watched
  <2> QED BY <1>2, <2>1 DEF ModelsInv, LivesSound, Model!Models
<1>9. Remembered'
  <2>1. Responsible' = c.on /\ Responsible = activeModel
    BY <1>1, <1>2, <1>5 DEF Responsible
  <2>2. \A p \in alive \ stubborn : activeModel = c.on /\ life[c.on].proc = p
    BY <1>5, <2>1, ModelsAre DEF ModelsInv, Remembered
  <2> QED BY <1>2, <1>5, <2>1, <2>2 DEF Remembered, Model!Models
<1>10. CallSound'
  BY <1>1, <1>2, <1>5 DEF CallSound
<1> QED BY <1>6, <1>7, <1>8, <1>9, <1>10 DEF ModelsInv

LEMMA MarkKeeps == ASSUME ModelsInv, NEW m \in Model!Models, Model!Mark(m) PROVE ModelsInv'
<1>1. PICK p : p = life[m]
  OBVIOUS
<1>2. /\ call.at = "idle" /\ activeModel = m /\ life[m].state \in {"READY", "IDLE"}
      /\ UNCHANGED <<alive, stubborn, started, activeModel, call, modelAnswer, target, partial, install>>
  BY DEF Model!Mark, Model!At, Model!Disk
<1>3. p \in LifeStates /\ life \in [Model!Models -> LifeStates]
  BY <1>1 DEF ModelsInv, LivesTyped
<1>4. PICK spot : spot = IF p.state = "READY" THEN "IDLE" ELSE "READY"
  OBVIOUS
<1>0. PICK next : /\ \/ next = [p EXCEPT !.state = "UNLOADED", !.proc = 0] /\ p.proc \notin alive
                     \/ next = [p EXCEPT !.state = spot]
                  /\ life' = [life EXCEPT ![m] = next]
  <2>1. \/ life' = [life EXCEPT ![m] = [p EXCEPT !.state = "UNLOADED", !.proc = 0]] /\ p.proc \notin alive
        \/ life' = [life EXCEPT ![m] = [p EXCEPT !.state = spot]]
    <3>1. life' = [life EXCEPT ![m] = IF p.proc \notin alive THEN [p EXCEPT !.state = "UNLOADED", !.proc = 0]
                                      ELSE [p EXCEPT !.state = spot]]
      <4>1. life' = [life EXCEPT ![m] = IF p.proc \notin alive THEN [p EXCEPT !.state = "UNLOADED", !.proc = 0]
                                        ELSE [p EXCEPT !.state = IF p.state = "READY" THEN "IDLE" ELSE "READY"]]
        BY <1>1, <1>3 DEF Model!Mark
      <4> QED BY <1>4, <4>1
    <3> QED BY <3>1
  <2> QED BY <2>1
<1>5. /\ next \in LifeStates /\ next.proc \in {0, life[m].proc}
      /\ next.state \in {"READY", "IDLE"} \/ next.proc = 0
      /\ life[m].proc \in alive => next.proc = life[m].proc
  <2>1. CASE next = [p EXCEPT !.state = "UNLOADED", !.proc = 0] /\ p.proc \notin alive
    BY <1>1, <1>3, <2>1 DEF LifeStates
  <2>2. CASE next = [p EXCEPT !.state = spot]
    <3>1. spot \in {"IDLE", "READY"}
      BY <1>4
    <3> QED BY <1>1, <1>3, <2>2, <3>1 DEF LifeStates
  <2> QED BY <1>0, <2>1, <2>2
<1>6. LivesTyped' /\ LivesSound' /\ life'[m] = next
  <2>1. \A x \in Model!Models : x # m => ~Watched(x)
    BY <1>2 DEF Watched
  <2> QED BY <1>0, <1>2, <1>5, <2>1, LivesKeep
<1>7. ProcessesTyped' /\ CallTyped' /\ CallSound' /\ Installed'
  BY <1>2 DEF ModelsInv, ProcessesTyped, CallTyped, CallStates, CallSteps, Model!Models, CallSound, Installed
<1>8. Remembered'
  <2>1. Responsible = m /\ Responsible' = m
    BY <1>2 DEF Responsible
  <2>2. \A x \in alive' \ stubborn' : Responsible' \in Model!Models /\ life'[Responsible'].proc = x
    BY <1>2, <1>5, <1>6, <2>1 DEF ModelsInv, Remembered
  <2> QED BY <2>2 DEF Remembered, Model!Models
<1> QED BY <1>6, <1>7, <1>8 DEF ModelsInv

LEMMA ExitKeeps == ASSUME ModelsInv, NEW p, Model!Exit(p) PROVE ModelsInv'
<1>1. /\ alive' = alive \ {p} /\ stubborn' = stubborn \ {p}
      /\ UNCHANGED <<life, started, activeModel, call, modelAnswer, target, partial, install>>
  BY DEF Model!Exit, Model!Disk
<1>2. LivesTyped' /\ CallTyped'
  BY <1>1 DEF ModelsInv, LivesTyped, LifeStates, Model!Models, CallTyped, CallStates, CallSteps
<1>3. ProcessesTyped'
  BY <1>1 DEF ModelsInv, ProcessesTyped
<1>4. LivesSound'
  <2>1. \A m \in Model!Models : Watched(m)' <=> Watched(m)
    BY <1>1 DEF Watched
  <2> QED BY <1>1, <2>1 DEF ModelsInv, LivesSound, Model!Models
<1>5. Remembered'
  <2>1. Responsible' = Responsible
    BY <1>1 DEF Responsible
  <2> QED BY <1>1, <2>1 DEF ModelsInv, Remembered, Model!Models
<1>6. CallSound' /\ Installed'
  BY <1>1 DEF ModelsInv, CallSound, Installed
<1> QED BY <1>2, <1>3, <1>4, <1>5, <1>6 DEF ModelsInv

\* Nothing but the files and the installer changes.
LEMMA LivesRest ==
    ASSUME ModelsInv, UNCHANGED <<life, alive, stubborn, started, activeModel, call, modelAnswer>>, Installed'
    PROVE  ModelsInv'
<1>1. LivesTyped' /\ CallTyped' /\ ProcessesTyped' /\ CallSound'
  BY DEF ModelsInv, LivesTyped, LifeStates, Model!Models, CallTyped, CallStates, CallSteps, ProcessesTyped, CallSound
<1>2. LivesSound'
  <2>1. \A m \in Model!Models : Watched(m)' <=> Watched(m)
    BY DEF Watched
  <2> QED BY <2>1 DEF ModelsInv, LivesSound, Model!Models
<1>3. Remembered'
  <2>1. Responsible' = Responsible
    BY DEF Responsible
  <2> QED BY <2>1 DEF ModelsInv, Remembered, Model!Models
<1> QED BY <1>1, <1>2, <1>3 DEF ModelsInv

LEMMA InstallKeeps == ASSUME ModelsInv, Model!Install PROVE ModelsInv'
<1>1. UNCHANGED <<life, alive, stubborn, started, activeModel, call, modelAnswer>>
  BY DEF Model!Install
<1>2. Installed
  BY DEF ModelsInv
<1>3. ASSUME Model!BeginInstall PROVE Installed'
  BY <1>1, <1>2, <1>3 DEF Installed, Model!BeginInstall
<1>4. ASSUME Model!Copy PROVE Installed'
  BY <1>1, <1>2, <1>4 DEF Installed, Model!Copy, Model!Verified
<1>5. ASSUME Model!Publish PROVE Installed'
  BY <1>1, <1>2, <1>5 DEF Installed, Model!Publish
<1>6. ASSUME Model!DiscardPartial PROVE Installed'
  BY <1>1, <1>2, <1>6 DEF Installed, Model!DiscardPartial
<1>7. ASSUME Model!InstallerDies PROVE Installed'
  BY <1>1, <1>2, <1>7 DEF Installed, Model!InstallerDies
<1>8. Installed'
  BY <1>3, <1>4, <1>5, <1>6, <1>7 DEF Model!Install
<1> QED BY <1>1, <1>8, LivesRest

-----------------------------------------------------------------------------
LEMMA ModelsStep == ASSUME ModelsInv, Model!ModelNext PROVE ModelsInv'
<1>1. CASE \E kind \in {"activate", "unload"}, m \in Model!Models, safe \in BOOLEAN : Model!Begin(kind, m, safe)
  BY <1>1, BeginKeeps
<1>2. CASE Model!LoadAgain \/ Model!LoadRefused \/ Model!Invalid \/ Model!LogFails \/ Model!StartProcess
  BY <1>2, LoadAgainKeeps, RefusedKeeps, InvalidKeeps, LogFailsKeeps, StartProcessKeeps
<1>3. CASE Model!Healthy \/ Model!Abandon \/ Model!UnloadRefused \/ Model!Unload
  BY <1>3, HealthyKeeps, AbandonKeeps, RefusedKeeps, UnloadKeeps
<1>4. CASE \E m \in Model!Models : Model!Mark(m)
  BY <1>4, MarkKeeps
<1>5. CASE (\E p \in Model!Processes : Model!Exit(p)) \/ Model!Install
  BY <1>5, ExitKeeps, InstallKeeps
<1> QED BY <1>1, <1>2, <1>3, <1>4, <1>5 DEF Model!ModelNext

LEMMA ModelsRest == ASSUME ModelsInv, UNCHANGED models PROVE ModelsInv'
<1>1. UNCHANGED <<life, alive, stubborn, started, activeModel, call, modelAnswer, target, partial, install>>
  BY DEF models
<1>2. Installed'
  BY <1>1 DEF ModelsInv, Installed
<1> QED BY <1>1, <1>2, LivesRest

LEMMA ModelsImply == ModelsInv => ModelsAreExclusive
<1> SUFFICES ASSUME ModelsInv PROVE ModelsAreExclusive
  OBVIOUS
<1>1. started \in Nat /\ started <= MaxStarts /\ alive \subseteq 1..started /\ stubborn \subseteq alive
  BY DEF ModelsInv, ProcessesTyped
<1>2. Model!ModelTypeOK
  <2>1. ASSUME NEW m \in Model!Models
        PROVE  /\ life[m].state \in {"UNLOADED", "LOADING", "READY", "IDLE", "UNLOADING"}
               /\ life[m].proc \in Model!Processes \cup {0} /\ life[m].device \in {"gpu", "cpu"}
    <3>1. life[m] \in LifeStates /\ life[m].proc <= started
      BY DEF ModelsInv, LivesTyped, LivesSound
    <3>2. life[m].proc \in Nat
      BY <3>1 DEF LifeStates
    <3>3. life[m].proc \in Model!Processes \cup {0}
      BY <1>1, <3>1, <3>2, StartsAre DEF Model!Processes
    <3> QED BY <3>1, <3>3 DEF LifeStates
  <2>2. /\ activeModel \in Model!Models \cup {"none"}
        /\ modelAnswer \in {"none", "active", "released", "not_released"}
    BY DEF ModelsInv, CallTyped
  <2>3. {target, partial} \subseteq {"absent", "whole", "wrong"} /\ install \in {"idle", "copy", "replace", "discard"}
    BY DEF ModelsInv, Installed
  <2> QED BY <1>1, <2>1, <2>2, <2>3 DEF Model!ModelTypeOK
<1>3. Model!OneModelRuns
  <2>1. PICK p : \A x \in alive \ stubborn : x = p
    BY DEF ModelsInv, Remembered
  <2>2. alive \ stubborn = {} \/ alive \ stubborn = {p}
    BY <2>1
  <2>3. Cardinality(alive \ stubborn) <= 1
    <3>1. Cardinality({}) = 0
      BY FS_EmptySet
    <3>2. Cardinality({p}) = 1
      BY FS_Singleton
    <3> QED BY <2>2, <3>1, <3>2
  <2>4. ASSUME call.at = "idle", NEW x \in alive \ stubborn PROVE activeModel # "none" /\ life[activeModel].proc = x
    <3>1. activeModel \in Model!Models /\ life[activeModel].proc = x
      BY <2>4 DEF ModelsInv, Remembered, Responsible
    <3> QED BY <3>1, ModelsAre
  <2>5. Model!At("idle") => \A x \in alive \ stubborn : activeModel # "none" /\ life[activeModel].proc = x
    BY <2>4 DEF Model!At
  <2>6. Model!Cardinality(alive \ stubborn) = Cardinality(alive \ stubborn)
    BY DEF Cardinality, Model!Cardinality
  <2> QED BY <2>3, <2>5, <2>6 DEF Model!OneModelRuns
<1>4. Model!ReleasedMeansGone
  BY DEF ModelsInv, CallSound, Model!ReleasedMeansGone
<1>5. Model!OnlyWholeModels
  BY DEF ModelsInv, Installed, Model!OnlyWholeModels
<1> QED BY <1>2, <1>3, <1>4, <1>5 DEF ModelsAreExclusive

-----------------------------------------------------------------------------
(* The staged index: sources, staging, merge, publication and the index in   *)
(* use.                                                                      *)

StoredDocuments == [Docs -> Staging!Stored]
IndexStates == [has : SUBSET Staging!Stores, sqlite : StoredDocuments, vectors : StoredDocuments,
                manifest : StoredDocuments]

IndexesTyped ==
    /\ origin \in StoredDocuments
    /\ staged \in IndexStates /\ merged \in IndexStates /\ active \in IndexStates
    /\ aside \in IndexStates /\ incoming \in IndexStates
StepsTyped ==
    /\ build \in [at : {"idle", "read", "embed", "check", "staged"}, left : SUBSET Docs]
    /\ merge \in [at : {"idle", "sqlite", "manifest", "vectors", "validate", "merged"}, strict : BOOLEAN]
    /\ publish \in {"idle", "compare", "database", "vectors", "manifest", "undo", "published",
                    "set_aside", "activate", "prove", "restore", "died"}

\* The first publication and the rehearsed one.
Publishing == {"compare", "database", "vectors", "manifest", "undo"}
Rehearsing == {"set_aside", "activate", "prove", "restore"}
\* Its vectors are those of its documents.
Embedded(store) == store.vectors = Staging!VectorsOf(store.sqlite)

\* What was built has its vectors, and has a manifest only if an index is in use.
StagedSound ==
    /\ build.at \in {"read", "embed"} => "manifest" \notin staged.has
    /\ build.at \in {"check", "staged"} => Embedded(staged)
    /\ build.at = "check" \/ merge.at # "idle" \/ (build.at = "staged" /\ staged.has = Staging!Stores) =>
          publish \notin Publishing /\ (publish = "idle" => active.has # {})
    /\ publish \in Publishing => build.at = "staged"

MergeSound ==
    /\ merge.at # "idle" => build.at = "staged"
    /\ merge.at \in {"sqlite", "manifest", "vectors", "validate"} => publish = "idle"
    /\ merge.at = "merged" => Staging!Agrees(merged)
    /\ publish \in Rehearsing => merge.at = "merged"
    /\ merge.at \in {"manifest", "vectors", "validate", "merged"} /\ publish \in {"idle", "set_aside"} =>
          merged.sqlite = Staging!Upsert(active.sqlite, staged.sqlite)
    /\ publish \in {"activate", "prove", "restore"} =>
          merged.sqlite = Staging!Upsert(aside.sqlite, staged.sqlite)

\* A first publication puts the stores in place one by one, a manifest that agrees last.
PublishSound ==
    /\ publish \in {"compare", "database", "vectors", "manifest"} => Embedded(incoming)
    /\ publish = "compare" => \A d \in Docs \ build.left : incoming.manifest[d] = incoming.sqlite[d]
    /\ publish \in {"database", "vectors", "manifest"} => incoming.manifest = incoming.sqlite
    /\ publish \in {"compare", "database"} => active.has = {}
    /\ publish = "vectors" => active.has = {"sqlite"} /\ active.sqlite = incoming.sqlite
    /\ publish = "manifest" => /\ active.has = {"sqlite", "vectors"} /\ active.sqlite = incoming.sqlite
                               /\ active.vectors = incoming.vectors
    /\ publish = "undo" => "manifest" \notin active.has

\* A rehearsed one sets the index in use aside, and brings it back.
InUseSound ==
    /\ publish \in {"set_aside", "activate"} => Staging!Agrees(incoming)
    /\ publish = "set_aside" => Staging!Agrees(active)
    /\ publish \in {"activate", "prove", "restore"} => Staging!Agrees(aside)
    /\ publish \in Publishing \cup {"idle", "set_aside"} => aside.has = {}
    /\ publish \in {"idle", "published"} /\ active.has # {} => Staging!Agrees(active)
    /\ "manifest" \in active.has => Staging!Agrees(active)
    /\ publish = "died" => Staging!Agrees(active) \/ Staging!Agrees(aside) \/ aside.has = {}

StagingInv == IndexesTyped /\ StepsTyped /\ StagedSound /\ MergeSound /\ PublishSound /\ InUseSound
-----------------------------------------------------------------------------
LEMMA TextIs == Staging!SomeText \in Texture
<1>1. \E c \in Texture : c # Empty
  BY ServicesAssumption DEF ServicesAssumption
<1> QED BY <1>1 DEF Staging!SomeText

LEMMA StoresAre ==
    /\ Staging!Stores = {"sqlite", "vectors", "manifest"} /\ Staging!NoStore \in StoredDocuments
    /\ Staging!NoIndex \in IndexStates /\ Staging!NoIndex.has = {}
    /\ Staging!NoIndex.sqlite = Staging!NoStore /\ Staging!NoIndex.vectors = Staging!NoStore
    /\ Staging!NoIndex.manifest = Staging!NoStore
    /\ \A store \in StoredDocuments : Staging!VectorsOf(store) \in StoredDocuments
    /\ \A old, new \in StoredDocuments : Staging!Upsert(old, new) \in StoredDocuments
<1>1. Staging!Stores = {"sqlite", "vectors", "manifest"}
  BY DEF Staging!Stores
<1>2. Staging!NoStore \in StoredDocuments
  BY DEF Staging!NoStore, StoredDocuments, Staging!Stored
<1>3. /\ Staging!NoIndex \in IndexStates /\ Staging!NoIndex.has = {}
      /\ Staging!NoIndex.sqlite = Staging!NoStore /\ Staging!NoIndex.vectors = Staging!NoStore
      /\ Staging!NoIndex.manifest = Staging!NoStore
  BY <1>2 DEF Staging!NoIndex, IndexStates
<1>4. ASSUME NEW store \in StoredDocuments PROVE Staging!VectorsOf(store) \in StoredDocuments
  BY DEF Staging!VectorsOf, StoredDocuments, Staging!Stored
<1>5. ASSUME NEW old \in StoredDocuments, NEW new \in StoredDocuments PROVE Staging!Upsert(old, new) \in StoredDocuments
  BY DEF Staging!Upsert, StoredDocuments, Staging!Stored
<1> QED BY <1>1, <1>2, <1>3, <1>4, <1>5

LEMMA StagingInit == ASSUME Staging!IndexInit PROVE StagingInv
<1> USE DEF Staging!IndexInit
<1>1. /\ build = [at |-> "idle", left |-> {}] /\ merge = [at |-> "idle", strict |-> FALSE] /\ publish = "idle"
      /\ staged = Staging!NoIndex /\ merged = Staging!NoIndex /\ aside = Staging!NoIndex
      /\ incoming = Staging!NoIndex
  OBVIOUS
<1>2. origin \in StoredDocuments
  BY TextIs DEF StoredDocuments, Staging!Stored
<1>3. active \in IndexStates /\ (active = Staging!NoIndex \/ Staging!Agrees(active))
  <2>1. PICK store : store = [d \in Docs |-> IF d \in Baseline THEN Staging!SomeText ELSE Absent]
    OBVIOUS
  <2>2. store \in StoredDocuments
    BY <2>1, TextIs DEF StoredDocuments, Staging!Stored
  <2>3. Staging!Whole(store) \in IndexStates /\ Staging!Agrees(Staging!Whole(store))
    BY <2>2, StoresAre DEF Staging!Whole, IndexStates, Staging!Agrees
  <2> QED BY <2>1, <2>3, StoresAre
<1>4. IndexesTyped
  BY <1>1, <1>2, <1>3, StoresAre DEF IndexesTyped
<1>5. StepsTyped
  BY <1>1 DEF StepsTyped
<1>6. StagedSound
  BY <1>1 DEF StagedSound, Publishing
<1>7. MergeSound
  BY <1>1 DEF MergeSound, Rehearsing
<1>8. PublishSound
  BY <1>1 DEF PublishSound
<1>9. InUseSound
  BY <1>1, <1>3, StoresAre DEF InUseSound, Publishing
<1> QED BY <1>4, <1>5, <1>6, <1>7, <1>8, <1>9 DEF StagingInv

LEMMA IndexIs ==
    ASSUME NEW store \in IndexStates
    PROVE  /\ store.has \in SUBSET Staging!Stores /\ store.sqlite \in StoredDocuments
           /\ store.vectors \in StoredDocuments /\ store.manifest \in StoredDocuments
  BY DEF IndexStates

LEMMA BuildIs ==
    ASSUME StagingInv
    PROVE  /\ build.at \in {"idle", "read", "embed", "check", "staged"} /\ build.left \in SUBSET Docs
           /\ build = [at |-> build.at, left |-> build.left]
           /\ merge = [at |-> merge.at, strict |-> merge.strict]
  BY DEF StagingInv, StepsTyped

\* The sources change.
LEMMA EditKeeps ==
    ASSUME StagingInv, NEW d \in Docs, NEW content \in Staging!Stored, Staging!Edit(d, content) PROVE StagingInv'
<1>1. /\ UNCHANGED <<build, staged, merge, merged, publish, active, aside, incoming>>
      /\ origin' = [origin EXCEPT ![d] = content]
  BY DEF Staging!Edit, Staging!Staging, Staging!Merging, Staging!Places
<1>2. origin' \in StoredDocuments
  BY <1>1 DEF StagingInv, IndexesTyped, StoredDocuments
<1>3. IndexesTyped' /\ StepsTyped'
  BY <1>1, <1>2 DEF StagingInv, IndexesTyped, StepsTyped
<1>4. StagedSound' /\ MergeSound'
  BY <1>1 DEF StagingInv, StagedSound, MergeSound, Embedded
<1>5. PublishSound' /\ InUseSound'
  BY <1>1 DEF StagingInv, PublishSound, InUseSound, Embedded
<1> QED BY <1>3, <1>4, <1>5 DEF StagingInv

-----------------------------------------------------------------------------
\* The build: nothing is merged or published before it ends.
LEMMA BuildKeeps ==
    ASSUME StagingInv, build.at # "staged", staged' \in IndexStates,
           build' \in [at : {"idle", "read", "embed", "check", "staged"}, left : SUBSET Docs],
           build'.at \in {"read", "embed"} => "manifest" \notin staged'.has,
           build'.at \in {"check", "staged"} => Embedded(staged'),
           build'.at = "check" \/ (build'.at = "staged" /\ staged'.has = Staging!Stores) =>
               (publish = "idle" => active.has # {}),
           UNCHANGED <<origin, merge, merged, publish, active, aside, incoming>>
    PROVE  StagingInv'
<1>1. merge.at = "idle" /\ publish \notin Publishing /\ publish \notin Rehearsing
  BY DEF StagingInv, StagedSound, MergeSound
<1>2. publish \notin {"compare", "database", "vectors", "manifest", "undo", "set_aside", "activate", "prove", "restore"}
  BY <1>1 DEF Publishing, Rehearsing
<1>3. IndexesTyped' /\ StepsTyped'
  BY DEF StagingInv, IndexesTyped, StepsTyped
<1>4. StagedSound'
  BY <1>1 DEF StagedSound
<1>5. MergeSound'
  BY <1>1, <1>2 DEF MergeSound
<1>6. PublishSound'
  BY <1>2 DEF PublishSound
<1>7. InUseSound'
  BY DEF StagingInv, InUseSound
<1> QED BY <1>3, <1>4, <1>5, <1>6, <1>7 DEF StagingInv

LEMMA GiveUpKeeps ==
    ASSUME StagingInv, build.at # "staged", Staging!GiveUpBuild,
           UNCHANGED <<origin, merge, merged, publish, active, aside, incoming>>
    PROVE  StagingInv'
<1>1. build' = [at |-> "idle", left |-> {}] /\ staged' = Staging!NoIndex
  BY DEF Staging!GiveUpBuild
<1> QED BY <1>1, StoresAre, BuildKeeps

LEMMA BeginBuildKeeps ==
    ASSUME StagingInv, NEW plan \in SUBSET Docs, Staging!BeginBuild(plan) PROVE StagingInv'
<1>1. /\ build.at = "idle" /\ build' = [at |-> "read", left |-> plan] /\ staged' = Staging!NoIndex
      /\ UNCHANGED <<origin, merge, merged, publish, active, aside, incoming>>
  BY DEF Staging!BeginBuild, Staging!Merging, Staging!Places, Staging!Sources
<1> QED BY <1>1, StoresAre, BuildKeeps

LEMMA ReadCandidateKeeps == ASSUME StagingInv, NEW d \in Docs, Staging!ReadCandidate(d) PROVE StagingInv'
<1>1. /\ build.at = "read" /\ UNCHANGED <<origin, merge, merged, publish, active, aside, incoming>>
  BY DEF Staging!ReadCandidate, Staging!Merging, Staging!Places, Staging!Sources
<1>2. CASE Staging!GiveUpBuild
  BY <1>1, <1>2, GiveUpKeeps
<1>3. CASE /\ staged' = [staged EXCEPT !.sqlite[d] = origin[d], !.has = {"sqlite"}]
           /\ build' = [at |-> IF build.left = {d} THEN "embed" ELSE "read",
                        left |-> IF build.left = {d} THEN Docs ELSE build.left \ {d}]
  <2>1. PICK store : store = [staged.sqlite EXCEPT ![d] = origin[d]]
    OBVIOUS
  <2>2. staged.sqlite \in StoredDocuments /\ origin \in StoredDocuments /\ staged \in IndexStates
    BY IndexIs DEF StagingInv, IndexesTyped
  <2>3. store \in StoredDocuments
    BY <2>1, <2>2 DEF StoredDocuments
  <2>4. staged' = [staged EXCEPT !.sqlite = store, !.has = {"sqlite"}]
    BY <1>3, <2>1, <2>2 DEF IndexStates
  <2>5. staged' \in IndexStates /\ staged'.has = {"sqlite"}
    BY <2>2, <2>3, <2>4, StoresAre DEF IndexStates
  <2>6. build' \in [at : {"idle", "read", "embed", "check", "staged"}, left : SUBSET Docs] /\ build'.at \in {"read", "embed"}
    BY <1>3, BuildIs
  <2> QED BY <1>1, <2>5, <2>6, BuildKeeps
<1> QED BY <1>2, <1>3 DEF Staging!ReadCandidate

LEMMA EmbedChunksKeeps == ASSUME StagingInv, Staging!EmbedChunks PROVE StagingInv'
<1>1. /\ build.at = "embed" /\ UNCHANGED <<origin, merge, merged, publish, active, aside, incoming>>
      /\ staged' = [staged EXCEPT !.vectors = Staging!VectorsOf(staged.sqlite), !.has = staged.has \cup {"vectors"}]
      /\ build' = IF active.has = {} THEN [at |-> "staged", left |-> {}]
                  ELSE [at |-> "check", left |-> Staging!DocumentsIn(staged.sqlite)]
  BY DEF Staging!EmbedChunks, Staging!Merging, Staging!Places, Staging!Sources
<1>2. PICK store, made : store = Staging!VectorsOf(staged.sqlite) /\ made = staged.has \cup {"vectors"}
  OBVIOUS
<1>3. staged \in IndexStates /\ staged.sqlite \in StoredDocuments /\ staged.has \in SUBSET Staging!Stores
  BY IndexIs DEF StagingInv, IndexesTyped
<1>4. store \in StoredDocuments /\ made \in SUBSET Staging!Stores /\ "manifest" \notin made
  BY <1>1, <1>2, <1>3, StoresAre DEF StagingInv, StagedSound
<1>5. staged' = [staged EXCEPT !.vectors = store, !.has = made]
  BY <1>1, <1>2
<1>6. staged' \in IndexStates /\ staged'.vectors = store /\ staged'.sqlite = staged.sqlite /\ staged'.has = made
  BY <1>3, <1>4, <1>5 DEF IndexStates
<1>7. Embedded(staged') /\ staged'.has # Staging!Stores
  BY <1>2, <1>4, <1>6, StoresAre DEF Embedded
<1>8. Staging!DocumentsIn(staged.sqlite) \in SUBSET Docs
  BY DEF Staging!DocumentsIn
<1>9. /\ build' \in [at : {"idle", "read", "embed", "check", "staged"}, left : SUBSET Docs]
      /\ build'.at \in {"check", "staged"} /\ (build'.at = "check" => active.has # {})
  BY <1>1, <1>8
<1> QED BY <1>1, <1>6, <1>7, <1>9, BuildKeeps

LEMMA CheckSourceKeeps == ASSUME StagingInv, NEW d \in Docs, Staging!CheckSource(d) PROVE StagingInv'
<1>1. /\ build.at = "check" /\ UNCHANGED <<origin, merge, merged, publish, active, aside, incoming>>
  BY DEF Staging!CheckSource, Staging!Merging, Staging!Places, Staging!Sources
<1>2. CASE Staging!GiveUpBuild
  BY <1>1, <1>2, GiveUpKeeps
<1>3. CASE /\ staged' = [staged EXCEPT !.manifest[d] = origin[d],
                                       !.has = IF build.left = {d} THEN Staging!Stores ELSE @]
           /\ build' = [at |-> IF build.left = {d} THEN "staged" ELSE "check", left |-> build.left \ {d}]
  <2>1. PICK store, made : /\ store = [staged.manifest EXCEPT ![d] = origin[d]]
                           /\ made = IF build.left = {d} THEN Staging!Stores ELSE staged.has
    OBVIOUS
  <2>2. /\ staged.manifest \in StoredDocuments /\ origin \in StoredDocuments /\ staged \in IndexStates
        /\ staged.has \in SUBSET Staging!Stores
    BY IndexIs DEF StagingInv, IndexesTyped
  <2>3. store \in StoredDocuments /\ made \in SUBSET Staging!Stores
    BY <2>1, <2>2 DEF StoredDocuments
  <2>4. staged' = [staged EXCEPT !.manifest = store, !.has = made]
    BY <1>3, <2>1, <2>2 DEF IndexStates
  <2>5. staged' \in IndexStates /\ staged'.vectors = staged.vectors /\ staged'.sqlite = staged.sqlite
    BY <2>2, <2>3, <2>4 DEF IndexStates
  <2>6. Embedded(staged') /\ (publish = "idle" => active.has # {})
    <3>1. Embedded(staged)
      BY <1>1 DEF StagingInv, StagedSound
    <3>2. publish \notin Publishing /\ (publish = "idle" => active.has # {})
      BY <1>1 DEF StagingInv, StagedSound
    <3> QED BY <2>5, <3>1, <3>2 DEF Embedded
  <2>7. build' \in [at : {"idle", "read", "embed", "check", "staged"}, left : SUBSET Docs] /\ build'.at \in {"check", "staged"}
    BY <1>3, BuildIs
  <2> QED BY <1>1, <2>5, <2>6, <2>7, BuildKeeps
<1> QED BY <1>2, <1>3 DEF Staging!CheckSource

LEMMA BuildFailsKeeps == ASSUME StagingInv, Staging!BuildFails PROVE StagingInv'
<1>1. /\ build.at # "staged" /\ Staging!GiveUpBuild
      /\ UNCHANGED <<origin, merge, merged, publish, active, aside, incoming>>
  BY DEF Staging!BuildFails, Staging!Merging, Staging!Places, Staging!Failing
<1> QED BY <1>1, GiveUpKeeps

-----------------------------------------------------------------------------
\* The merge: the index in use and the staged one stay as they are meanwhile.
LEMMA MergeKeeps ==
    ASSUME StagingInv, build.at = "staged", publish = "idle", merged' \in IndexStates,
           merge' \in [at : {"idle", "sqlite", "manifest", "vectors", "validate", "merged"}, strict : BOOLEAN],
           merge'.at # "idle" => active.has # {},
           merge'.at = "merged" => Staging!Agrees(merged'),
           merge'.at \in {"manifest", "vectors", "validate", "merged"} =>
               merged'.sqlite = Staging!Upsert(active.sqlite, staged.sqlite),
           UNCHANGED <<origin, build, staged, publish, active, aside, incoming>>
    PROVE  StagingInv'
<1>1. IndexesTyped' /\ StepsTyped'
  BY DEF StagingInv, IndexesTyped, StepsTyped
<1>2. StagedSound'
  BY DEF StagingInv, StagedSound, Publishing, Embedded
<1>3. MergeSound'
  <2>1. (merge.at = "merged" => Staging!Agrees(merged))' /\ (merge.at # "idle" => build.at = "staged")'
    OBVIOUS
  <2>2. (merge.at \in {"manifest", "vectors", "validate", "merged"} =>
             merged.sqlite = Staging!Upsert(active.sqlite, staged.sqlite))'
    BY DEF Staging!Upsert
  <2> QED BY <2>1, <2>2 DEF MergeSound, Rehearsing
<1>4. PublishSound'
  BY DEF PublishSound
<1>5. InUseSound'
  BY DEF StagingInv, InUseSound
<1> QED BY <1>1, <1>2, <1>3, <1>4, <1>5 DEF StagingInv

\* While the documents are merged: where the merge is, and what it has.
LEMMA Merging ==
    ASSUME StagingInv, merge.at \in {"sqlite", "manifest", "vectors", "validate"}
    PROVE  /\ build.at = "staged" /\ publish = "idle" /\ active.has # {}
           /\ merged \in IndexStates /\ active \in IndexStates /\ staged \in IndexStates /\ merge.strict \in BOOLEAN
           /\ merge.at # "sqlite" => merged.sqlite = Staging!Upsert(active.sqlite, staged.sqlite)
  BY DEF StagingInv, IndexesTyped, StepsTyped, StagedSound, MergeSound

LEMMA GiveUpMergeKeeps ==
    ASSUME StagingInv, merge.at \in {"sqlite", "manifest", "vectors", "validate"}, Staging!GiveUpMerge,
           UNCHANGED <<origin, build, staged, publish, active, aside, incoming>>
    PROVE  StagingInv'
<1>1. merge' = [at |-> "idle", strict |-> merge.strict] /\ merged' = Staging!NoIndex
  BY BuildIs DEF Staging!GiveUpMerge
<1> QED BY <1>1, StoresAre, Merging, MergeKeeps

LEMMA BeginMergeKeeps == ASSUME StagingInv, NEW strict \in BOOLEAN, Staging!BeginMerge(strict) PROVE StagingInv'
<1>1. /\ build.at = "staged" /\ staged.has = Staging!Stores /\ publish = "idle"
      /\ merge' = [at |-> "sqlite", strict |-> strict] /\ merged' = Staging!NoIndex
      /\ UNCHANGED <<origin, build, staged, publish, active, aside, incoming>>
  BY DEF Staging!BeginMerge, Staging!Staging, Staging!Places, Staging!Sources
<1>2. active.has # {}
  BY <1>1 DEF StagingInv, StagedSound
<1> QED BY <1>1, <1>2, StoresAre, MergeKeeps

LEMMA MergeDocumentsKeeps == ASSUME StagingInv, Staging!MergeDocuments PROVE StagingInv'
<1>1. /\ merge.at = "sqlite" /\ merge' = [merge EXCEPT !.at = "manifest"]
      /\ merged' = [merged EXCEPT !.sqlite = Staging!Upsert(active.sqlite, staged.sqlite), !.has = {"sqlite"}]
      /\ UNCHANGED <<origin, build, staged, publish, active, aside, incoming>>
  BY DEF Staging!MergeDocuments, Staging!Staging, Staging!Places, Staging!Sources
<1>2. PICK store, made : store = Staging!Upsert(active.sqlite, staged.sqlite) /\ made = {"sqlite"}
  OBVIOUS
<1>3. store \in StoredDocuments /\ made \in SUBSET Staging!Stores
  BY <1>1, <1>2, Merging, StoresAre, IndexIs
<1>4. merged' = [merged EXCEPT !.sqlite = store, !.has = made]
  BY <1>1, <1>2
<1>5. merged' \in IndexStates /\ merged'.sqlite = store
  BY <1>1, <1>3, <1>4, Merging DEF IndexStates
<1>6. merge' = [at |-> "manifest", strict |-> merge.strict]
  BY <1>1, BuildIs
<1> QED BY <1>1, <1>2, <1>5, <1>6, Merging, MergeKeeps

LEMMA MergeManifestKeeps == ASSUME StagingInv, Staging!MergeManifest PROVE StagingInv'
<1>1. /\ merge.at = "manifest" /\ merge' = [merge EXCEPT !.at = "vectors"]
      /\ merged' = [merged EXCEPT !.manifest = Staging!Upsert(active.manifest, staged.manifest),
                                  !.has = merged.has \cup {"manifest"}]
      /\ UNCHANGED <<origin, build, staged, publish, active, aside, incoming>>
  BY DEF Staging!MergeManifest, Staging!Staging, Staging!Places, Staging!Sources
<1>2. PICK store, made : /\ store = Staging!Upsert(active.manifest, staged.manifest)
                         /\ made = merged.has \cup {"manifest"}
  OBVIOUS
<1>3. store \in StoredDocuments /\ made \in SUBSET Staging!Stores
  BY <1>1, <1>2, Merging, StoresAre, IndexIs
<1>4. merged' = [merged EXCEPT !.manifest = store, !.has = made]
  BY <1>1, <1>2
<1>5. merged' \in IndexStates /\ merged'.sqlite = merged.sqlite
  BY <1>1, <1>3, <1>4, Merging DEF IndexStates
<1>6. merge' = [at |-> "vectors", strict |-> merge.strict]
  BY <1>1, BuildIs
<1> QED BY <1>1, <1>5, <1>6, Merging, MergeKeeps

LEMMA MergeVectorsKeeps == ASSUME StagingInv, Staging!MergeVectors PROVE StagingInv'
<1>1. /\ merge.at = "vectors" /\ merge' = [merge EXCEPT !.at = "validate"]
      /\ merged' = [merged EXCEPT !.vectors = Staging!Upsert(active.vectors, staged.vectors), !.has = Staging!Stores]
      /\ UNCHANGED <<origin, build, staged, publish, active, aside, incoming>>
  BY DEF Staging!MergeVectors, Staging!Staging, Staging!Places, Staging!Sources
<1>2. PICK store : store = Staging!Upsert(active.vectors, staged.vectors)
  OBVIOUS
<1>3. store \in StoredDocuments
  BY <1>1, <1>2, Merging, StoresAre, IndexIs
<1>4. merged' = [merged EXCEPT !.vectors = store, !.has = Staging!Stores]
  BY <1>1, <1>2
<1>5. merged' \in IndexStates /\ merged'.sqlite = merged.sqlite
  BY <1>1, <1>3, <1>4, Merging DEF IndexStates
<1>6. merge' = [at |-> "validate", strict |-> merge.strict]
  BY <1>1, BuildIs
<1> QED BY <1>1, <1>5, <1>6, Merging, MergeKeeps

LEMMA ValidateMergeKeeps == ASSUME StagingInv, Staging!ValidateMerge PROVE StagingInv'
<1>1. /\ merge.at = "validate" /\ UNCHANGED <<origin, build, staged, publish, active, aside, incoming>>
  BY DEF Staging!ValidateMerge, Staging!Staging, Staging!Places, Staging!Sources
<1>2. CASE Staging!GiveUpMerge
  BY <1>1, <1>2, GiveUpMergeKeeps
<1>3. CASE Staging!Validates(merged) /\ merge' = [merge EXCEPT !.at = "merged"] /\ UNCHANGED merged
  <2>1. merge' = [at |-> "merged", strict |-> merge.strict] /\ Staging!Agrees(merged) /\ merged' = merged
    BY <1>3, BuildIs DEF Staging!Validates
  <2>2. Staging!Agrees(merged')
    BY <2>1 DEF Staging!Agrees
  <2> QED BY <1>1, <2>1, <2>2, Merging, MergeKeeps
<1> QED BY <1>2, <1>3 DEF Staging!ValidateMerge

LEMMA MergeFailsKeeps == ASSUME StagingInv, Staging!MergeFails PROVE StagingInv'
<1>1. /\ merge.at \in {"sqlite", "manifest", "vectors", "validate"} /\ Staging!GiveUpMerge
      /\ UNCHANGED <<origin, build, staged, publish, active, aside, incoming>>
  BY DEF Staging!MergeFails, Staging!Staging, Staging!Places, Staging!Failing
<1> QED BY <1>1, GiveUpMergeKeeps

-----------------------------------------------------------------------------
\* The first publication: nothing is merged, and no index is set aside.
LEMMA PublicationKeeps ==
    ASSUME StagingInv, merge.at = "idle", build.at = "staged", staged.has # Staging!Stores,
           publish \in Publishing \cup {"idle"}, publish' \in Publishing \cup {"idle", "published"},
           active' \in IndexStates, incoming' \in IndexStates,
           build' \in [at : {"staged", "idle"}, left : SUBSET Docs],
           publish' \in Publishing => build'.at = "staged", PublishSound',
           publish' \in {"idle", "published"} /\ active'.has # {} => Staging!Agrees(active'),
           "manifest" \in active'.has => Staging!Agrees(active'),
           UNCHANGED <<origin, staged, merge, merged, aside>>
    PROVE  StagingInv'
<1>1. IndexesTyped' /\ StepsTyped'
  BY DEF StagingInv, IndexesTyped, StepsTyped, Publishing
<1>2. StagedSound'
  BY DEF StagingInv, StagedSound, Embedded
<1>3. publish' \notin Rehearsing /\ publish' # "died"
  BY DEF Publishing, Rehearsing
<1>4. MergeSound'
  BY <1>3 DEF MergeSound, Rehearsing
<1>5. InUseSound'
  <2>1. aside.has = {}
    BY DEF StagingInv, InUseSound
  <2> QED BY <1>3, <2>1 DEF InUseSound, Rehearsing
<1> QED BY <1>1, <1>2, <1>4, <1>5 DEF StagingInv

\* While it goes on, what was staged has no manifest.
LEMMA Publication ==
    ASSUME StagingInv, publish \in {"compare", "database", "vectors", "manifest", "undo"}
    PROVE  /\ merge.at = "idle" /\ build.at = "staged" /\ staged.has # Staging!Stores
           /\ build = [at |-> "staged", left |-> build.left] /\ build.left \in SUBSET Docs
           /\ publish \in Publishing /\ "manifest" \notin active.has
           /\ active \in IndexStates /\ incoming \in IndexStates /\ origin \in StoredDocuments
<1>1. publish \in Publishing
  BY DEF Publishing
<1>2. merge.at = "idle" /\ build.at = "staged" /\ staged.has # Staging!Stores
  BY <1>1 DEF StagingInv, StagedSound
<1>3. "manifest" \notin active.has
  BY DEF StagingInv, PublishSound
<1> QED BY <1>1, <1>2, <1>3, BuildIs DEF StagingInv, IndexesTyped

LEMMA BeginPublishKeeps == ASSUME StagingInv, Staging!BeginPublish PROVE StagingInv'
<1>1. /\ publish = "idle" /\ build.at = "staged" /\ active.has = {} /\ publish' = "compare"
      /\ incoming' = [staged EXCEPT !.manifest = Staging!NoStore, !.has = {"sqlite", "vectors"}]
      /\ build' = [build EXCEPT !.left = Staging!DocumentsIn(staged.sqlite)]
      /\ UNCHANGED <<origin, staged, active, aside, merge, merged>>
  BY DEF Staging!BeginPublish, Staging!Merging, Staging!Sources, Staging!GoTo
<1>2. merge.at = "idle" /\ staged.has # Staging!Stores /\ Embedded(staged) /\ staged \in IndexStates /\ active \in IndexStates
  BY <1>1 DEF StagingInv, StagedSound, IndexesTyped
<1>3. PICK made, store : made = {"sqlite", "vectors"} /\ store = Staging!NoStore
  OBVIOUS
<1>4. made \in SUBSET Staging!Stores /\ store \in StoredDocuments
  BY <1>3, StoresAre
<1>5. incoming' = [staged EXCEPT !.manifest = store, !.has = made]
  BY <1>1, <1>3
<1>6. /\ incoming' \in IndexStates /\ incoming'.sqlite = staged.sqlite /\ incoming'.vectors = staged.vectors
      /\ incoming'.manifest = store
  BY <1>2, <1>4, <1>5 DEF IndexStates
<1>7. build' = [at |-> "staged", left |-> Staging!DocumentsIn(staged.sqlite)]
  BY <1>1, BuildIs
<1>8. Staging!DocumentsIn(staged.sqlite) \in SUBSET Docs
  BY DEF Staging!DocumentsIn
<1>9. \A d \in Docs \ build'.left : incoming'.manifest[d] = incoming'.sqlite[d]
  BY <1>3, <1>6, <1>7 DEF Staging!DocumentsIn, Staging!NoStore
<1>10. Embedded(incoming')
  BY <1>2, <1>6 DEF Embedded
<1>11. PublishSound'
  BY <1>1, <1>9, <1>10 DEF PublishSound
<1> QED BY <1>1, <1>2, <1>6, <1>7, <1>8, <1>11, PublicationKeeps DEF Publishing

LEMMA CompareSourceKeeps == ASSUME StagingInv, NEW d \in Docs, Staging!CompareSource(d) PROVE StagingInv'
<1>1. publish = "compare" /\ UNCHANGED <<origin, staged, active, aside, merge, merged>>
  BY DEF Staging!CompareSource, Staging!Merging, Staging!Sources
<1>2. active.has = {} /\ Embedded(incoming) /\ \A e \in Docs \ build.left : incoming.manifest[e] = incoming.sqlite[e]
  BY <1>1 DEF StagingInv, PublishSound
<1>3. CASE publish' = "idle" /\ incoming' = Staging!NoIndex /\ build' = [at |-> "idle", left |-> {}]
  <2>1. PublishSound'
    BY <1>3 DEF PublishSound
  <2> QED BY <1>1, <1>2, <1>3, <2>1, StoresAre, Publication, PublicationKeeps DEF Publishing
<1>4. CASE /\ ~Staging!Changed(d) /\ incoming' = [incoming EXCEPT !.manifest[d] = origin[d]]
           /\ build' = [build EXCEPT !.left = build.left \ {d}]
           /\ publish' = IF build.left = {d} THEN "database" ELSE "compare"
  <2>1. PICK store : store = [incoming.manifest EXCEPT ![d] = origin[d]]
    OBVIOUS
  <2>2. incoming \in IndexStates /\ incoming.manifest \in StoredDocuments /\ origin \in StoredDocuments
    BY <1>1, Publication, IndexIs
  <2>3. store \in StoredDocuments
    BY <2>1, <2>2 DEF StoredDocuments
  <2>4. incoming' = [incoming EXCEPT !.manifest = store]
    BY <1>4, <2>1, <2>2 DEF IndexStates
  <2>5. /\ incoming' \in IndexStates /\ incoming'.sqlite = incoming.sqlite /\ incoming'.vectors = incoming.vectors
        /\ incoming'.manifest = store
    BY <2>2, <2>3, <2>4 DEF IndexStates
  <2>6. build' = [at |-> "staged", left |-> build.left \ {d}] /\ build.left \ {d} \in SUBSET Docs
    BY <1>1, <1>4, Publication
  <2>7. origin[d] = incoming.sqlite[d]
    BY <1>4 DEF Staging!Changed
  <2>8. \A e \in Docs \ build'.left : incoming'.manifest[e] = incoming'.sqlite[e]
    BY <1>2, <2>1, <2>2, <2>5, <2>6, <2>7 DEF StoredDocuments
  <2>9. Embedded(incoming')
    BY <1>2, <2>5 DEF Embedded
  <2>10. publish' = "database" => incoming'.manifest = incoming'.sqlite
    <3> SUFFICES ASSUME publish' = "database" PROVE incoming'.manifest = incoming'.sqlite
      OBVIOUS
    <3>1. build'.left = {}
      BY <1>4, <2>6
    <3>2. incoming'.manifest \in StoredDocuments /\ incoming'.sqlite \in StoredDocuments
      BY <2>5, IndexIs
    <3> QED BY <2>8, <3>1, <3>2 DEF StoredDocuments
  <2>11. PublishSound'
    BY <1>1, <1>2, <1>4, <2>8, <2>9, <2>10 DEF PublishSound
  <2> QED BY <1>1, <1>2, <1>4, <2>5, <2>6, <2>11, Publication, PublicationKeeps DEF Publishing
<1> QED BY <1>1, <1>3, <1>4 DEF Staging!CompareSource, Staging!GoTo

\* A store of the copy is put in place.
LEMMA PlaceDatabaseKeeps == ASSUME StagingInv, Staging!PlaceDatabase PROVE StagingInv'
<1>1. /\ publish = "database" /\ publish' = "vectors"
      /\ active' = [active EXCEPT !["sqlite"] = incoming["sqlite"], !.has = active.has \cup {"sqlite"}]
      /\ UNCHANGED <<origin, build, staged, incoming, aside, merge, merged>>
  BY DEF Staging!PlaceDatabase, Staging!Place, Staging!Elsewhere, Staging!Staging, Staging!Merging, Staging!Sources,
         Staging!GoTo
<1>2. active.has = {} /\ Embedded(incoming) /\ incoming.manifest = incoming.sqlite
  BY <1>1 DEF StagingInv, PublishSound
<1>3. PICK store, made : store = incoming.sqlite /\ made = active.has \cup {"sqlite"}
  OBVIOUS
<1>4. store \in StoredDocuments /\ made \in SUBSET Staging!Stores /\ made = {"sqlite"}
  BY <1>1, <1>2, <1>3, StoresAre, Publication, IndexIs
<1>5. active' = [active EXCEPT !.sqlite = store, !.has = made]
  BY <1>1, <1>3
<1>6. active' \in IndexStates /\ active'.has = made /\ active'.sqlite = store
  BY <1>1, <1>4, <1>5, Publication DEF IndexStates
<1>7. PublishSound'
  <2>1. Embedded(incoming') /\ incoming' = incoming /\ publish' = "vectors"
    BY <1>1, <1>2 DEF Embedded
  <2>2. active'.has = {"sqlite"} /\ active'.sqlite = incoming'.sqlite
    BY <1>3, <1>4, <1>6, <2>1
  <2> QED BY <1>2, <2>1, <2>2 DEF PublishSound
<1>8. "manifest" \notin active'.has
  BY <1>4, <1>6
<1> QED BY <1>1, <1>6, <1>7, <1>8, Publication, PublicationKeeps DEF Publishing

LEMMA PlaceVectorsKeeps == ASSUME StagingInv, Staging!PlaceVectors PROVE StagingInv'
<1>1. /\ publish = "vectors" /\ publish' = "manifest"
      /\ active' = [active EXCEPT !["vectors"] = incoming["vectors"], !.has = active.has \cup {"vectors"}]
      /\ UNCHANGED <<origin, build, staged, incoming, aside, merge, merged>>
  BY DEF Staging!PlaceVectors, Staging!Place, Staging!Elsewhere, Staging!Staging, Staging!Merging, Staging!Sources,
         Staging!GoTo
<1>2. /\ active.has = {"sqlite"} /\ active.sqlite = incoming.sqlite
      /\ Embedded(incoming) /\ incoming.manifest = incoming.sqlite
  BY <1>1 DEF StagingInv, PublishSound
<1>3. PICK store, made : store = incoming.vectors /\ made = active.has \cup {"vectors"}
  OBVIOUS
<1>4. store \in StoredDocuments /\ made \in SUBSET Staging!Stores /\ made = {"sqlite", "vectors"}
  BY <1>1, <1>2, <1>3, StoresAre, Publication, IndexIs
<1>5. active' = [active EXCEPT !.vectors = store, !.has = made]
  BY <1>1, <1>3
<1>6. active' \in IndexStates /\ active'.has = made /\ active'.sqlite = active.sqlite /\ active'.vectors = store
  BY <1>1, <1>4, <1>5, Publication DEF IndexStates
<1>7. PublishSound'
  BY <1>1, <1>2, <1>3, <1>4, <1>6 DEF PublishSound, Embedded
<1>8. "manifest" \notin active'.has
  BY <1>4, <1>6
<1> QED BY <1>1, <1>6, <1>7, <1>8, Publication, PublicationKeeps DEF Publishing

LEMMA PlaceManifestKeeps == ASSUME StagingInv, Staging!PlaceManifest PROVE StagingInv'
<1>1. /\ publish = "manifest" /\ publish' = "published" /\ incoming' = Staging!NoIndex
      /\ active' = [active EXCEPT !["manifest"] = incoming["manifest"], !.has = active.has \cup {"manifest"}]
      /\ UNCHANGED <<origin, build, staged, aside, merge, merged>>
  BY DEF Staging!PlaceManifest, Staging!Place, Staging!Elsewhere, Staging!Staging, Staging!Merging, Staging!Sources,
         Staging!GoTo
<1>2. /\ active.has = {"sqlite", "vectors"} /\ active.sqlite = incoming.sqlite /\ active.vectors = incoming.vectors
      /\ Embedded(incoming) /\ incoming.manifest = incoming.sqlite
  BY <1>1 DEF StagingInv, PublishSound
<1>3. PICK store, made : store = incoming.manifest /\ made = active.has \cup {"manifest"}
  OBVIOUS
<1>4. store \in StoredDocuments /\ made = Staging!Stores
  BY <1>1, <1>2, <1>3, StoresAre, Publication, IndexIs
<1>5. active' = [active EXCEPT !.manifest = store, !.has = made]
  BY <1>1, <1>3
<1>6. /\ active' \in IndexStates /\ active'.has = made /\ active'.sqlite = active.sqlite
      /\ active'.vectors = active.vectors /\ active'.manifest = store
  BY <1>1, <1>4, <1>5, Publication DEF IndexStates
<1>7. Staging!Agrees(active')
  BY <1>2, <1>3, <1>4, <1>6 DEF Staging!Agrees, Embedded
<1>8. PublishSound'
  BY <1>1 DEF PublishSound
<1> QED BY <1>1, <1>6, <1>7, <1>8, StoresAre, Publication, PublicationKeeps DEF Publishing

LEMMA PublishFailsKeeps == ASSUME StagingInv, Staging!PublishFails PROVE StagingInv'
<1>1. /\ publish \in {"compare", "database", "vectors", "manifest"} /\ publish' = "undo"
      /\ UNCHANGED <<origin, build, staged, active, aside, incoming, merge, merged>>
  BY DEF Staging!PublishFails, Staging!Elsewhere, Staging!Staging, Staging!Merging, Staging!Failing, Staging!GoTo
<1>2. "manifest" \notin active.has
  BY <1>1, Publication
<1>3. PublishSound'
  BY <1>1, <1>2 DEF PublishSound
<1> QED BY <1>1, <1>2, <1>3, Publication, PublicationKeeps DEF Publishing

LEMMA UndoKeeps == ASSUME StagingInv, Staging!Undo PROVE StagingInv'
<1>1. publish = "undo" /\ UNCHANGED <<origin, build, staged, aside, merge, merged>>
  BY DEF Staging!Undo, Staging!Elsewhere, Staging!Staging, Staging!Merging, Staging!Sources
<1>2. CASE /\ active' = [active EXCEPT !.vectors = Staging!NoStore, !.has = active.has \ {"vectors"}]
           /\ UNCHANGED <<publish, incoming>>
  <2>1. PICK store, made : store = Staging!NoStore /\ made = active.has \ {"vectors"}
    OBVIOUS
  <2>2. store \in StoredDocuments /\ made \in SUBSET Staging!Stores /\ "manifest" \notin made
    BY <1>1, <2>1, StoresAre, Publication, IndexIs
  <2>3. active' = [active EXCEPT !.vectors = store, !.has = made]
    BY <1>2, <2>1
  <2>4. active' \in IndexStates /\ active'.has = made
    BY <1>1, <2>2, <2>3, Publication DEF IndexStates
  <2>5. PublishSound'
    BY <1>1, <1>2, <2>2, <2>4 DEF PublishSound
  <2> QED BY <1>1, <1>2, <2>2, <2>4, <2>5, Publication, PublicationKeeps DEF Publishing
<1>3. CASE active' = Staging!NoIndex /\ publish' = "idle" /\ incoming' = Staging!NoIndex
  <2>1. PublishSound'
    BY <1>3 DEF PublishSound
  <2> QED BY <1>1, <1>3, <2>1, StoresAre, Publication, PublicationKeeps DEF Publishing
<1> QED BY <1>2, <1>3 DEF Staging!Undo, Staging!GoTo

-----------------------------------------------------------------------------
\* The rehearsed publication: the merge stays as it was validated.
LEMMA RehearsalKeeps ==
    ASSUME StagingInv, merge.at = "merged", publish \in Rehearsing \cup {"idle"},
           publish' \in Rehearsing \cup {"idle", "published"},
           active' \in IndexStates, aside' \in IndexStates, incoming' \in IndexStates, InUseSound',
           publish' \in {"idle", "set_aside"} => merged.sqlite = Staging!Upsert(active'.sqlite, staged.sqlite),
           publish' \in {"activate", "prove", "restore"} =>
               merged.sqlite = Staging!Upsert(aside'.sqlite, staged.sqlite),
           publish' = "idle" => active'.has # {},
           UNCHANGED <<origin, build, staged, merge, merged>>
    PROVE  StagingInv'
<1>1. build.at = "staged" /\ Staging!Agrees(merged)
  BY DEF StagingInv, MergeSound
<1>2. IndexesTyped' /\ StepsTyped'
  BY DEF StagingInv, IndexesTyped, StepsTyped, Rehearsing
<1>3. publish' \notin Publishing
  BY DEF Publishing, Rehearsing
<1>4. StagedSound'
  BY <1>1, <1>3 DEF StagingInv, StagedSound, Embedded
<1>5. MergeSound'
  <2>1. Staging!Agrees(merged')
    BY <1>1 DEF Staging!Agrees
  <2>2. /\ (publish' \in {"idle", "set_aside"} => merged'.sqlite = Staging!Upsert(active'.sqlite, staged'.sqlite))
        /\ (publish' \in {"activate", "prove", "restore"} =>
               merged'.sqlite = Staging!Upsert(aside'.sqlite, staged'.sqlite))
    BY DEF Staging!Upsert
  <2> QED BY <1>1, <2>1, <2>2 DEF MergeSound, Rehearsing
<1>6. PublishSound'
  BY <1>3 DEF PublishSound, Publishing
<1> QED BY <1>2, <1>4, <1>5, <1>6 DEF StagingInv

\* While it goes on: the merge it publishes, and what it was merged with.
LEMMA Rehearsal ==
    ASSUME StagingInv, publish \in {"set_aside", "activate", "prove", "restore"}
    PROVE  /\ merge.at = "merged" /\ publish \in Rehearsing
           /\ active \in IndexStates /\ aside \in IndexStates /\ incoming \in IndexStates
           /\ publish = "set_aside" => /\ merged.sqlite = Staging!Upsert(active.sqlite, staged.sqlite)
                                       /\ Staging!Agrees(active) /\ Staging!Agrees(incoming) /\ aside.has = {}
           /\ publish # "set_aside" => /\ merged.sqlite = Staging!Upsert(aside.sqlite, staged.sqlite)
                                       /\ Staging!Agrees(aside)
           /\ publish = "activate" => Staging!Agrees(incoming)
           /\ "manifest" \in active.has => Staging!Agrees(active)
<1>1. publish \in Rehearsing
  BY DEF Rehearsing
<1> QED BY <1>1 DEF StagingInv, IndexesTyped, MergeSound, InUseSound

LEMMA AgreesIs ==
    ASSUME NEW store \in IndexStates, Staging!Agrees(store)
    PROVE  store.has # {} /\ "manifest" \in store.has
  BY StoresAre DEF Staging!Agrees

LEMMA BeginRehearsalKeeps == ASSUME StagingInv, Staging!BeginRehearsal PROVE StagingInv'
<1>1. /\ publish = "idle" /\ merge.at = "merged" /\ active.has = Staging!Stores /\ aside.has = {}
      /\ incoming' = merged /\ publish' = "set_aside"
      /\ UNCHANGED <<origin, build, staged, merge, merged, active, aside>>
  BY DEF Staging!BeginRehearsal, Staging!Elsewhere, Staging!Staging, Staging!Merging, Staging!Sources, Staging!GoTo
<1>2. active.has # {} /\ "manifest" \in active.has
  BY <1>1, StoresAre
<1>3. Staging!Agrees(active) /\ Staging!Agrees(merged) /\ merged.sqlite = Staging!Upsert(active.sqlite, staged.sqlite)
  BY <1>1, <1>2 DEF StagingInv, InUseSound, MergeSound
<1>4. Staging!Agrees(incoming') /\ Staging!Agrees(active')
  BY <1>1, <1>3 DEF Staging!Agrees
<1>5. active' \in IndexStates /\ aside' \in IndexStates /\ incoming' \in IndexStates
  BY <1>1 DEF StagingInv, IndexesTyped
<1>6. InUseSound'
  BY <1>1, <1>4 DEF InUseSound, Publishing
<1>7. merged.sqlite = Staging!Upsert(active'.sqlite, staged.sqlite)
  BY <1>1, <1>3
<1> QED BY <1>1, <1>5, <1>6, <1>7, RehearsalKeeps DEF Rehearsing

LEMMA SetAsideKeeps == ASSUME StagingInv, Staging!SetAside PROVE StagingInv'
<1>1. /\ publish = "set_aside" /\ aside' = active /\ active' = Staging!NoIndex /\ publish' = "activate"
      /\ UNCHANGED <<origin, build, staged, merge, merged, incoming>>
  BY DEF Staging!SetAside, Staging!Elsewhere, Staging!Staging, Staging!Merging, Staging!Sources, Staging!GoTo
<1>2. Staging!Agrees(aside') /\ Staging!Agrees(incoming')
  BY <1>1, Rehearsal DEF Staging!Agrees
<1>3. InUseSound'
  BY <1>1, <1>2, StoresAre DEF InUseSound, Publishing
<1> QED BY <1>1, <1>3, StoresAre, Rehearsal, RehearsalKeeps DEF Rehearsing

LEMMA ActivateCopyKeeps == ASSUME StagingInv, Staging!Activate PROVE StagingInv'
<1>1. /\ publish = "activate" /\ active' = incoming /\ incoming' = Staging!NoIndex /\ publish' = "prove"
      /\ UNCHANGED <<origin, build, staged, merge, merged, aside>>
  BY DEF Staging!Activate, Staging!Elsewhere, Staging!Staging, Staging!Merging, Staging!Sources, Staging!GoTo
<1>2. Staging!Agrees(aside') /\ Staging!Agrees(active')
  BY <1>1, Rehearsal DEF Staging!Agrees
<1>3. InUseSound'
  BY <1>1, <1>2 DEF InUseSound, Publishing
<1> QED BY <1>1, <1>3, StoresAre, Rehearsal, RehearsalKeeps DEF Rehearsing

LEMMA ProveKeeps == ASSUME StagingInv, Staging!Prove PROVE StagingInv'
<1>1. /\ publish = "prove" /\ publish' = IF Staging!Agrees(active) THEN "published" ELSE "restore"
      /\ UNCHANGED <<origin, build, staged, merge, merged, active, aside, incoming>>
  BY DEF Staging!Prove, Staging!Elsewhere, Staging!Staging, Staging!Merging, Staging!Sources, Staging!GoTo,
         Staging!Validates
<1>2. Staging!Agrees(aside') /\ (Staging!Agrees(active) <=> Staging!Agrees(active'))
  BY <1>1, Rehearsal DEF Staging!Agrees
<1>3. "manifest" \in active'.has => Staging!Agrees(active')
  BY <1>1, <1>2, Rehearsal
<1>4. InUseSound'
  BY <1>1, <1>2, <1>3 DEF InUseSound, Publishing
<1> QED BY <1>1, <1>4, Rehearsal, RehearsalKeeps DEF Rehearsing

LEMMA RehearsalFailsKeeps == ASSUME StagingInv, Staging!RehearsalFails PROVE StagingInv'
<1>1. /\ publish \in {"set_aside", "activate", "prove"}
      /\ \/ publish = "set_aside" /\ publish' = "idle" /\ incoming' = Staging!NoIndex
         \/ publish # "set_aside" /\ publish' = "restore" /\ UNCHANGED incoming
      /\ UNCHANGED <<origin, build, staged, merge, merged, active, aside>>
  BY DEF Staging!RehearsalFails, Staging!Elsewhere, Staging!Staging, Staging!Merging, Staging!Failing, Staging!GoTo
<1>2. /\ (Staging!Agrees(active) <=> Staging!Agrees(active')) /\ (Staging!Agrees(aside) <=> Staging!Agrees(aside'))
      /\ active' = active /\ aside' = aside
  BY <1>1 DEF Staging!Agrees
<1>3. InUseSound'
  BY <1>1, <1>2, Rehearsal DEF InUseSound, Publishing
<1>4. publish' = "idle" => active'.has # {}
  BY <1>1, <1>2, Rehearsal, AgreesIs
<1> QED BY <1>1, <1>3, <1>4, StoresAre, Rehearsal, RehearsalKeeps DEF Rehearsing

LEMMA RestoreKeeps == ASSUME StagingInv, Staging!Restore PROVE StagingInv'
<1>1. /\ publish = "restore" /\ active' = aside /\ aside' = Staging!NoIndex /\ incoming' = Staging!NoIndex
      /\ publish' = "idle" /\ UNCHANGED <<origin, build, staged, merge, merged>>
  BY DEF Staging!Restore, Staging!Elsewhere, Staging!Staging, Staging!Merging, Staging!Sources, Staging!GoTo
<1>2. Staging!Agrees(active') /\ active'.has # {}
  BY <1>1, Rehearsal, AgreesIs DEF Staging!Agrees
<1>3. InUseSound'
  BY <1>1, <1>2, StoresAre DEF InUseSound, Publishing
<1> QED BY <1>1, <1>2, <1>3, StoresAre, Rehearsal, RehearsalKeeps DEF Rehearsing

LEMMA PublisherDiesKeeps == ASSUME StagingInv, Staging!PublisherDies PROVE StagingInv'
<1>1. /\ publish \notin {"idle", "published", "died"} /\ publish' = "died"
      /\ UNCHANGED <<origin, build, staged, merge, merged, active, aside, incoming>>
  BY DEF Staging!PublisherDies, Staging!Elsewhere, Staging!Staging, Staging!Merging, Staging!Failing, Staging!GoTo
<1>2. IndexesTyped' /\ StepsTyped'
  BY <1>1 DEF StagingInv, IndexesTyped, StepsTyped
<1>3. StagedSound'
  BY <1>1 DEF StagingInv, StagedSound, Embedded, Publishing
<1>4. MergeSound'
  BY <1>1 DEF StagingInv, MergeSound, Rehearsing
<1>5. PublishSound'
  BY <1>1 DEF PublishSound
<1>6. InUseSound'
  <2>1. Staging!Agrees(aside) \/ aside.has = {}
    <3>1. CASE publish \in {"activate", "prove", "restore"}
      BY <3>1 DEF StagingInv, InUseSound
    <3>2. CASE publish \in {"compare", "database", "vectors", "manifest", "undo", "set_aside"}
      BY <3>2 DEF StagingInv, InUseSound, Publishing
    <3> QED BY <1>1, <3>1, <3>2 DEF StagingInv, StepsTyped
  <2>2. /\ (Staging!Agrees(aside) => Staging!Agrees(aside')) /\ (Staging!Agrees(active) => Staging!Agrees(active'))
        /\ active' = active /\ aside' = aside
    BY <1>1 DEF Staging!Agrees
  <2>3. "manifest" \in active.has => Staging!Agrees(active)
    BY DEF StagingInv, InUseSound
  <2> QED BY <1>1, <2>1, <2>2, <2>3 DEF InUseSound, Publishing
<1> QED BY <1>2, <1>3, <1>4, <1>5, <1>6 DEF StagingInv

-----------------------------------------------------------------------------
LEMMA StagingStep == ASSUME StagingInv, Staging!IndexNext PROVE StagingInv'
<1>1. CASE \E d \in Docs, content \in Staging!Stored : Staging!Edit(d, content)
  BY <1>1, EditKeeps
<1>2. CASE \E plan \in SUBSET Docs : Staging!BeginBuild(plan)
  BY <1>2, BeginBuildKeeps
<1>3. CASE \E d \in Docs : Staging!ReadCandidate(d) \/ Staging!CheckSource(d) \/ Staging!CompareSource(d)
  BY <1>3, ReadCandidateKeeps, CheckSourceKeeps, CompareSourceKeeps
<1>4. CASE Staging!EmbedChunks \/ Staging!BuildFails
  BY <1>4, EmbedChunksKeeps, BuildFailsKeeps
<1>5. CASE \E strict \in BOOLEAN : Staging!BeginMerge(strict)
  BY <1>5, BeginMergeKeeps
<1>6. CASE \/ Staging!MergeDocuments \/ Staging!MergeManifest \/ Staging!MergeVectors \/ Staging!ValidateMerge
           \/ Staging!MergeFails
  BY <1>6, MergeDocumentsKeeps, MergeManifestKeeps, MergeVectorsKeeps, ValidateMergeKeeps, MergeFailsKeeps
<1>7. CASE \/ Staging!BeginPublish \/ Staging!PlaceDatabase \/ Staging!PlaceVectors \/ Staging!PlaceManifest
           \/ Staging!PublishFails \/ Staging!Undo
  BY <1>7, BeginPublishKeeps, PlaceDatabaseKeeps, PlaceVectorsKeeps, PlaceManifestKeeps, PublishFailsKeeps, UndoKeeps
<1>8. CASE \/ Staging!BeginRehearsal \/ Staging!SetAside \/ Staging!Activate \/ Staging!Prove
           \/ Staging!RehearsalFails \/ Staging!Restore \/ Staging!PublisherDies
  BY <1>8, BeginRehearsalKeeps, SetAsideKeeps, ActivateCopyKeeps, ProveKeeps, RehearsalFailsKeeps, RestoreKeeps,
     PublisherDiesKeeps
<1> QED BY <1>1, <1>2, <1>3, <1>4, <1>5, <1>6, <1>7, <1>8 DEF Staging!IndexNext

LEMMA StagingRest == ASSUME StagingInv, UNCHANGED staging PROVE StagingInv'
<1> USE DEF staging
<1>1. IndexesTyped' /\ StepsTyped'
  BY DEF StagingInv, IndexesTyped, StepsTyped
<1>2. StagedSound' /\ MergeSound'
  BY DEF StagingInv, StagedSound, MergeSound, Embedded
<1>3. PublishSound' /\ InUseSound'
  BY DEF StagingInv, PublishSound, InUseSound, Embedded
<1> QED BY <1>1, <1>2, <1>3 DEF StagingInv

LEMMA StagingImplies ==
    ASSUME StagingInv
    PROVE  /\ Staging!IndexTypeOK /\ Staging!ManifestMeansWhole
           /\ Staging!IndexInUseSurvives /\ Staging!MergeKeepsTheRest
<1>1. Staging!IndexTypeOK
  <2>1. \A store \in {staged, merged, active, aside, incoming} :
          store.has \subseteq Staging!Stores /\ {store.sqlite, store.vectors, store.manifest} \subseteq [Docs -> Staging!Stored]
    <3>1. \A store \in {staged, merged, active, aside, incoming} : store \in IndexStates
      BY DEF StagingInv, IndexesTyped
    <3> QED BY <3>1, IndexIs DEF StoredDocuments
  <2> QED BY <2>1 DEF StagingInv, IndexesTyped, StepsTyped, StoredDocuments, Staging!IndexTypeOK
<1>2. Staging!ManifestMeansWhole /\ Staging!IndexInUseSurvives
  BY DEF StagingInv, InUseSound, Staging!ManifestMeansWhole, Staging!IndexInUseSurvives
<1>3. Staging!MergeKeepsTheRest
  BY DEF StagingInv, MergeSound, Staging!MergeKeepsTheRest, Staging!Upsert
<1> QED BY <1>1, <1>2, <1>3

-----------------------------------------------------------------------------
(* Incremental files: the manifest, the vectors and the operation that runs. *)

Entries == [digest : Contents, chunks : SUBSET Files!ChunkIds, version : Versions]
Rows == [piece : Files!Pieces, version : Versions]
Reconciling == {"rechunk", "reembed", "upsert", "retire"}
Removing == {"remove", "invalidate"}

FilesTyped ==
    /\ source \in [Paths -> Contents \cup {Absent}] /\ version \in Versions /\ torn \in SUBSET Paths
    /\ manifest \in [Paths -> {Absent} \cup Entries]
    /\ vectors \in [Files!ChunkIds -> {Absent, Files!Unusable} \cup Rows]
    /\ cache \in [Versions -> [Files!Pieces -> {Absent, "whole", "damaged"}]]
OperationTyped ==
    /\ work.at \in {"idle"} \cup Reconciling \cup Removing
    /\ work = [at |-> work.at, path |-> work.path, digest |-> work.digest, chunks |-> work.chunks,
               left |-> work.left, previous |-> work.previous]
    /\ work.at = "idle" => work.left = {}
    /\ work.at \in Removing => work.left \in SUBSET Paths
    /\ work.at \in Reconciling => /\ work.path \in Paths /\ work.digest \in Contents
                                  /\ work.chunks \in SUBSET Files!ChunkIds
                                  /\ work.previous \in SUBSET Files!ChunkIds

\* The chunks of a file are its own: no other entry names them.
ChunksAreOwn ==
    /\ \A p \in Files!Indexed : \A c \in manifest[p].chunks : c[1] = p
    /\ work.at \in Reconciling => \A c \in work.chunks \cup work.previous : c[1] = work.path

\* How far the chunks of a changed file are embedded, by the model of its entry.
EmbeddedSoFar ==
    /\ work.at \in {"rechunk", "reembed", "upsert"} =>
          (work.path \in Files!Indexed => manifest[work.path].version = version)
    /\ work.at = "reembed" => /\ work.left \in SUBSET work.chunks
                              /\ \A c \in work.chunks \ work.left : vectors[c] = Files!Vector(c, version)
    /\ work.at = "upsert" => \A c \in work.chunks : vectors[c] = Files!Vector(c, version)
    /\ work.at = "retire" => (work.path \in Files!Indexed => manifest[work.path].chunks = work.chunks)

\* The entries whose chunks may be gone.
Exempt == torn \cup (IF work.at \in Removing THEN work.left ELSE {})
NamedSound ==
    \A p \in Files!Indexed \ Exempt :
        \A c \in manifest[p].chunks : vectors[c] = Files!Vector(c, manifest[p].version)

FilesInv == FilesTyped /\ OperationTyped /\ ChunksAreOwn /\ EmbeddedSoFar /\ NamedSound

-----------------------------------------------------------------------------
LEMMA ChunksAre ==
    ASSUME NEW p \in Paths, NEW content \in Contents
    PROVE  Files!ChunksOf(p, content) \in SUBSET Files!ChunkIds /\ \A c \in Files!ChunksOf(p, content) : c[1] = p
<1>1. Len(content) \in Nat
  BY ServicesAssumption DEF ServicesAssumption
<1>2. Files!Longest \in Nat /\ \A c \in Contents : Len(c) <= Files!Longest
  <2>1. \E n \in {Len(c) : c \in Contents} : \A c \in Contents : Len(c) <= n
    BY ServicesAssumption DEF ServicesAssumption
  <2>2. \A c \in Contents : Len(c) \in Nat
    BY ServicesAssumption DEF ServicesAssumption
  <2>3. Files!Longest \in {Len(c) : c \in Contents} /\ \A c \in Contents : Len(c) <= Files!Longest
    BY <2>1 DEF Files!Longest
  <2> QED BY <2>2, <2>3
<1>3. ASSUME NEW i \in 1 .. Len(content)
      PROVE  <<p, i, content[i]>> \in Files!ChunkIds
  <2>1. i \in 1 .. Files!Longest
    BY <1>1, <1>2
  <2>2. content[i] \in Files!Pieces
    BY DEF Files!Pieces
  <2> QED BY <2>1, <2>2 DEF Files!ChunkIds
<1> QED BY <1>3 DEF Files!ChunksOf

LEMMA VectorIs ==
    ASSUME NEW c \in Files!ChunkIds, NEW v \in Versions
    PROVE  Files!Vector(c, v) \in Rows
<1>1. c[3] \in Files!Pieces
  BY DEF Files!ChunkIds
<1> QED BY <1>1 DEF Files!Vector, Rows

LEMMA OperationIs ==
    ASSUME FilesInv
    PROVE  work = [at |-> work.at, path |-> work.path, digest |-> work.digest, chunks |-> work.chunks,
                   left |-> work.left, previous |-> work.previous]
  BY DEF FilesInv, OperationTyped

LEMMA FilesInit == ASSUME Files!FilesInit PROVE FilesInv
<1> USE DEF Files!FilesInit
<1>1. /\ work = Files!Idle /\ torn = {} /\ version \in Versions /\ manifest = [p \in Paths |-> Absent]
      /\ vectors = [c \in Files!ChunkIds |-> Absent]
      /\ cache = [v \in Versions |-> [piece \in Files!Pieces |-> Absent]]
  OBVIOUS
<1>2. source \in [Paths -> Contents \cup {Absent}]
  OBVIOUS
<1>3. work.at = "idle" /\ work.left = {} /\ Files!Indexed = {}
  BY <1>1 DEF Files!Idle, Files!Indexed
<1>4. FilesTyped
  BY <1>1, <1>2 DEF FilesTyped
<1>5. OperationTyped
  BY <1>1, <1>3 DEF OperationTyped, Files!Idle, Reconciling, Removing
<1>6. ChunksAreOwn /\ EmbeddedSoFar
  BY <1>3 DEF ChunksAreOwn, EmbeddedSoFar, Reconciling
<1>7. NamedSound
  BY <1>3 DEF NamedSound
<1> QED BY <1>4, <1>5, <1>6, <1>7 DEF FilesInv

-----------------------------------------------------------------------------
\* A step of the operation, and of the world around it, that leaves the stores alone.
LEMMA StoresStay ==
    ASSUME FilesInv, UNCHANGED <<manifest, vectors>>, version' \in Versions,
           source' \in [Paths -> Contents \cup {Absent}], torn' \in SUBSET Paths,
           cache' \in [Versions -> [Files!Pieces -> {Absent, "whole", "damaged"}]],
           OperationTyped', Exempt \subseteq Exempt',
           work'.at \in Reconciling => \A c \in work'.chunks \cup work'.previous : c[1] = work'.path,
           EmbeddedSoFar'
    PROVE  FilesInv'
<1>1. FilesTyped'
  BY DEF FilesInv, FilesTyped
<1>2. Files!Indexed' = Files!Indexed
  BY DEF Files!Indexed
<1>3. ChunksAreOwn'
  BY <1>2 DEF FilesInv, ChunksAreOwn
<1>4. NamedSound'
  BY <1>2 DEF FilesInv, NamedSound, Files!Vector
<1> QED BY <1>1, <1>3, <1>4 DEF FilesInv

\* Nothing happens to the files.
LEMMA FilesRest == ASSUME FilesInv, UNCHANGED incremental PROVE FilesInv'
<1> USE DEF incremental
<1>1. FilesTyped' /\ OperationTyped'
  BY DEF FilesInv, FilesTyped, OperationTyped
<1>2. Files!Indexed' = Files!Indexed /\ Exempt' = Exempt
  BY DEF Files!Indexed, Exempt
<1>3. ChunksAreOwn'
  BY <1>2 DEF FilesInv, ChunksAreOwn
<1>4. EmbeddedSoFar' /\ NamedSound'
  BY <1>2 DEF FilesInv, EmbeddedSoFar, NamedSound, Files!Vector
<1> QED BY <1>1, <1>3, <1>4 DEF FilesInv

\* The file is read, then split; an operation breaks off; a file or a row of the cache changes.
LEMMA CaptureKeeps == ASSUME FilesInv, NEW p \in Paths, Files!Capture(p) PROVE FilesInv'
<1>1. /\ work.at = "idle" /\ source[p] # Absent /\ p \notin Files!Stale
      /\ UNCHANGED <<manifest, vectors, cache, source, version, torn>>
  BY DEF Files!Capture, Files!Stores, Files!World, Files!MayReconcile
<1>2. PICK previous : previous = IF p \in Files!Indexed THEN manifest[p].chunks ELSE {}
  OBVIOUS
<1>3. work' = [at |-> "rechunk", path |-> p, digest |-> source[p], chunks |-> {}, left |-> {}, previous |-> previous]
  BY <1>2 DEF Files!Capture, Files!Idle
<1>4. source[p] \in Contents
  BY <1>1 DEF FilesInv, FilesTyped
<1>5. previous \in SUBSET Files!ChunkIds /\ \A c \in previous : c[1] = p
  <2>1. CASE p \in Files!Indexed
    <3>1. manifest[p] \in Entries
      BY <2>1 DEF FilesInv, FilesTyped, Files!Indexed
    <3> QED BY <1>2, <2>1, <3>1 DEF FilesInv, ChunksAreOwn, Entries
  <2>2. CASE p \notin Files!Indexed
    BY <1>2, <2>2
  <2> QED BY <2>1, <2>2
<1>6. OperationTyped'
  BY <1>3, <1>4, <1>5 DEF OperationTyped, Reconciling, Removing
<1>7. EmbeddedSoFar'
  <2>1. p \in Files!Indexed' => manifest'[p].version = version'
    BY <1>1 DEF Files!Indexed, Files!Stale
  <2> QED BY <1>3, <2>1 DEF EmbeddedSoFar
<1>8. Exempt \subseteq Exempt' /\ torn' \in SUBSET Paths
  BY <1>1 DEF Exempt, FilesInv, FilesTyped, Removing
<1> QED BY <1>1, <1>3, <1>5, <1>6, <1>7, <1>8, StoresStay DEF FilesInv, FilesTyped

LEMMA RechunkKeeps == ASSUME FilesInv, Files!Rechunk PROVE FilesInv'
<1>1. /\ work.at = "rechunk" /\ source[work.path] # Absent
      /\ UNCHANGED <<manifest, vectors, cache, source, version, torn>>
  BY DEF Files!Rechunk, Files!Stores, Files!World
<1>2. PICK chunks1 : chunks1 = Files!ChunksOf(work.path, source[work.path])
  OBVIOUS
<1>3. work.path \in Paths /\ work.digest \in Contents /\ work.previous \in SUBSET Files!ChunkIds
  BY <1>1 DEF FilesInv, OperationTyped, Reconciling
<1>4. work' = [at |-> "reembed", path |-> work.path, digest |-> work.digest, chunks |-> chunks1, left |-> chunks1,
               previous |-> work.previous]
  <2>1. work' = [work EXCEPT !.at = "reembed", !.chunks = chunks1, !.left = chunks1]
    BY <1>2 DEF Files!Rechunk
  <2> QED BY <2>1, OperationIs
<1>5. source[work.path] \in Contents
  BY <1>1, <1>3 DEF FilesInv, FilesTyped
<1>6. chunks1 \in SUBSET Files!ChunkIds /\ \A c \in chunks1 : c[1] = work.path
  BY <1>2, <1>3, <1>5, ChunksAre
<1>7. OperationTyped'
  BY <1>3, <1>4, <1>6 DEF OperationTyped, Reconciling, Removing
<1>8. EmbeddedSoFar'
  <2>1. work.path \in Files!Indexed' => manifest'[work.path].version = version'
    BY <1>1 DEF FilesInv, EmbeddedSoFar, Files!Indexed
  <2> QED BY <1>4, <2>1 DEF EmbeddedSoFar
<1>9. \A c \in work.previous : c[1] = work.path
  BY <1>1 DEF FilesInv, ChunksAreOwn, Reconciling
<1>10. Exempt \subseteq Exempt' /\ torn' \in SUBSET Paths
  BY <1>1 DEF Exempt, FilesInv, FilesTyped, Removing
<1> QED BY <1>1, <1>4, <1>6, <1>7, <1>8, <1>9, <1>10, StoresStay DEF FilesInv, FilesTyped

LEMMA BreaksOffKeeps == ASSUME FilesInv, Files!BreaksOff PROVE FilesInv'
<1>1. /\ work.at # "idle" /\ work' = Files!Idle /\ UNCHANGED <<manifest, vectors, cache, source, version>>
      /\ torn' = IF work.at \in {"remove", "invalidate"} THEN torn \cup work.left ELSE torn
  BY DEF Files!BreaksOff, Files!Stores, Files!World, Files!Fault
<1>2. work'.at = "idle" /\ work'.left = {} /\ OperationTyped'
  BY <1>1 DEF Files!Idle, OperationTyped, Reconciling, Removing
<1>3. torn' \in SUBSET Paths
  BY <1>1 DEF FilesInv, FilesTyped, OperationTyped, Removing
<1>4. Exempt \subseteq Exempt'
  BY <1>1 DEF Exempt, Removing
<1>5. EmbeddedSoFar' /\ work'.at \notin Reconciling
  BY <1>2 DEF EmbeddedSoFar, Reconciling
<1> QED BY <1>1, <1>2, <1>3, <1>4, <1>5, StoresStay DEF FilesInv, FilesTyped

LEMMA AroundKeeps ==
    ASSUME FilesInv, UNCHANGED <<manifest, vectors, work, torn>>, version' \in Versions,
           source' \in [Paths -> Contents \cup {Absent}],
           cache' \in [Versions -> [Files!Pieces -> {Absent, "whole", "damaged"}]],
           work.at = "idle" \/ version' = version
    PROVE  FilesInv'
<1>1. OperationTyped' /\ torn' \in SUBSET Paths
  BY DEF FilesInv, FilesTyped, OperationTyped
<1>2. Exempt' = Exempt /\ Files!Indexed' = Files!Indexed
  BY DEF Exempt, Files!Indexed
<1>3. EmbeddedSoFar'
  BY <1>2 DEF FilesInv, EmbeddedSoFar, Files!Vector
<1>4. work'.at \in Reconciling => \A c \in work'.chunks \cup work'.previous : c[1] = work'.path
  BY DEF FilesInv, ChunksAreOwn
<1> QED BY <1>1, <1>2, <1>3, <1>4, StoresStay

LEMMA EditFileKeeps ==
    ASSUME FilesInv, NEW p \in Paths, NEW content \in Contents \cup {Absent}, Files!Edit(p, content) PROVE FilesInv'
<1>1. /\ UNCHANGED <<manifest, vectors, cache, version, work, torn>>
      /\ source' = [source EXCEPT ![p] = content]
  BY DEF Files!Edit, Files!Stores
<1> QED BY <1>1, AroundKeeps DEF FilesInv, FilesTyped

LEMMA OtherModelKeeps == ASSUME FilesInv, NEW v \in Versions, Files!OtherModel(v) PROVE FilesInv'
<1>1. work.at = "idle" /\ version' = v /\ UNCHANGED <<manifest, vectors, cache, source, work, torn>>
  BY DEF Files!OtherModel, Files!Stores
<1> QED BY <1>1, AroundKeeps DEF FilesInv, FilesTyped

LEMMA DamageKeeps ==
    ASSUME FilesInv, NEW v \in Versions, NEW piece \in Files!Pieces, Files!Damage(v, piece) PROVE FilesInv'
<1>1. /\ UNCHANGED <<manifest, vectors, work, torn, source, version>>
      /\ cache' = [cache EXCEPT ![v][piece] = "damaged"]
  BY DEF Files!Damage, Files!Fault
<1>2. cache' \in [Versions -> [Files!Pieces -> {Absent, "whole", "damaged"}]]
  BY <1>1 DEF FilesInv, FilesTyped
<1> QED BY <1>1, <1>2, AroundKeeps DEF FilesInv, FilesTyped

-----------------------------------------------------------------------------
\* A chunk of the file is embedded, by the model that is installed.
LEMMA UpsertKeeps ==
    ASSUME FilesInv, work.at = "reembed", NEW c \in work.left, Files!Upsert(c, Files!Vector(c, version)),
           cache' \in [Versions -> [Files!Pieces -> {Absent, "whole", "damaged"}]],
           UNCHANGED <<manifest, source, version, torn>>
    PROVE  FilesInv'
<1>1. /\ work.path \in Paths /\ work.digest \in Contents
      /\ work.chunks \in SUBSET Files!ChunkIds /\ work.previous \in SUBSET Files!ChunkIds
      /\ work.left \in SUBSET work.chunks
  BY DEF FilesInv, OperationTyped, EmbeddedSoFar, Reconciling
<1>2. c \in Files!ChunkIds /\ c[1] = work.path
  BY <1>1 DEF FilesInv, ChunksAreOwn, Reconciling
<1>3. PICK vector : vector = Files!Vector(c, version)
  OBVIOUS
<1>4. vector \in Rows
  BY <1>2, <1>3, VectorIs DEF FilesInv, FilesTyped
<1>5. vectors' = [vectors EXCEPT ![c] = vector]
  BY <1>3 DEF Files!Upsert
<1>6. PICK kept : kept = work.left \ {c}
  OBVIOUS
<1>7. work' = [at |-> IF work.left = {c} THEN "upsert" ELSE "reembed", path |-> work.path, digest |-> work.digest,
               chunks |-> work.chunks, left |-> kept, previous |-> work.previous]
  <2>1. work' = [work EXCEPT !.left = kept, !.at = IF work.left = {c} THEN "upsert" ELSE work.at]
    BY <1>6 DEF Files!Upsert
  <2> QED BY <2>1, OperationIs
<1>8. FilesTyped'
  <2>1. PICK rowset : rowset = {Absent, Files!Unusable} \cup Rows
    OBVIOUS
  <2>2. vectors \in [Files!ChunkIds -> rowset] /\ vector \in rowset
    BY <1>4, <2>1 DEF FilesInv, FilesTyped
  <2>3. vectors' \in [Files!ChunkIds -> rowset]
    BY <1>5, <2>2
  <2> QED BY <2>1, <2>3 DEF FilesInv, FilesTyped
<1>9. OperationTyped'
  BY <1>1, <1>6, <1>7 DEF OperationTyped, Reconciling, Removing
<1>10. Files!Indexed' = Files!Indexed
  BY DEF Files!Indexed
<1>11. ChunksAreOwn'
  BY <1>7, <1>10 DEF FilesInv, ChunksAreOwn, Reconciling
<1>12. \A e \in Files!ChunkIds : vectors'[e] = IF e = c THEN Files!Vector(c, version) ELSE vectors[e]
  BY <1>3, <1>5 DEF FilesInv, FilesTyped
<1>13. EmbeddedSoFar'
  <2>1. work.path \in Files!Indexed' => manifest'[work.path].version = version'
    BY <1>10 DEF FilesInv, EmbeddedSoFar
  <2>2. \A e \in work.chunks \ kept : vectors'[e] = Files!Vector(e, version')
    <3> SUFFICES ASSUME NEW e \in work.chunks, e \notin kept PROVE vectors'[e] = Files!Vector(e, version)
      BY DEF Files!Vector
    <3>1. CASE e = c
      BY <1>2, <1>12, <3>1
    <3>2. CASE e # c
      BY <1>1, <1>6, <1>12, <3>2 DEF FilesInv, EmbeddedSoFar
    <3> QED BY <3>1, <3>2
  <2>3. work'.at = "upsert" => kept = {}
    BY <1>6, <1>7
  <2>4. kept \in SUBSET work.chunks
    BY <1>1, <1>6
  <2> QED BY <1>7, <2>1, <2>2, <2>3, <2>4 DEF EmbeddedSoFar
<1>14. NamedSound'
  <2> SUFFICES ASSUME NEW p \in Files!Indexed, p \notin Exempt', NEW e \in manifest[p].chunks
               PROVE  vectors'[e] = Files!Vector(e, manifest[p].version)
    BY <1>10 DEF NamedSound, Files!Vector
  <2>1. p \notin Exempt
    BY <1>7 DEF Exempt, Removing
  <2>2. vectors[e] = Files!Vector(e, manifest[p].version) /\ e[1] = p
    BY <2>1 DEF FilesInv, NamedSound, ChunksAreOwn
  <2>3. e \in Files!ChunkIds
    BY DEF FilesInv, FilesTyped, Files!Indexed, Entries
  <2>4. e = c => manifest[p].version = version
    BY <1>2, <2>2 DEF FilesInv, EmbeddedSoFar
  <2> QED BY <1>12, <2>2, <2>3, <2>4
<1> QED BY <1>8, <1>9, <1>11, <1>13, <1>14 DEF FilesInv

LEMMA HitKeeps == ASSUME FilesInv, work.at = "reembed", NEW c \in work.left, Files!Hit(c) PROVE FilesInv'
<1>1. /\ Files!Cached(c[3]) # Absent /\ Files!Cached(c[3]) # "damaged" /\ Files!Upsert(c, Files!FromCache(c))
      /\ UNCHANGED <<manifest, cache, source, version, torn>>
  BY DEF Files!Hit, Files!Readable, Files!World
<1>2. c \in Files!ChunkIds
  BY DEF FilesInv, OperationTyped, EmbeddedSoFar, Reconciling
<1>3. c[3] \in Files!Pieces
  BY <1>2 DEF Files!ChunkIds
<1>4. Files!Cached(c[3]) \in {Absent, "whole", "damaged"}
  BY <1>3 DEF FilesInv, FilesTyped, Files!Cached, Files!Namespace
<1>5. Files!FromCache(c) = Files!Vector(c, version)
  BY <1>1, <1>4 DEF Files!FromCache, Files!Namespace
<1> QED BY <1>1, <1>5, UpsertKeeps DEF FilesInv, FilesTyped

LEMMA MissKeeps == ASSUME FilesInv, work.at = "reembed", NEW c \in work.left, Files!Miss(c) PROVE FilesInv'
<1>1. /\ cache' = [cache EXCEPT ![version][c[3]] = "whole"] /\ Files!Upsert(c, Files!Vector(c, version))
      /\ UNCHANGED <<manifest, source, version, torn>>
  BY DEF Files!Miss, Files!World, Files!Namespace
<1>2. cache' \in [Versions -> [Files!Pieces -> {Absent, "whole", "damaged"}]]
  BY <1>1 DEF FilesInv, FilesTyped
<1> QED BY <1>1, <1>2, UpsertKeeps

-----------------------------------------------------------------------------
\* The entry of a file is written: it names the chunks that were embedded.
LEMMA UpsertedKeeps == ASSUME FilesInv, Files!Upserted PROVE FilesInv'
<1>1. /\ work.at = "upsert" /\ torn' = torn \ {work.path} /\ UNCHANGED <<vectors, cache, source, version>>
  BY DEF Files!Upserted, Files!World
<1>2. /\ work.path \in Paths /\ work.digest \in Contents
      /\ work.chunks \in SUBSET Files!ChunkIds /\ work.previous \in SUBSET Files!ChunkIds
  BY <1>1 DEF FilesInv, OperationTyped, Reconciling
<1>3. PICK entry : entry = [digest |-> work.digest, chunks |-> work.chunks, version |-> version]
  OBVIOUS
<1>4. entry \in Entries /\ entry.chunks = work.chunks /\ entry.version = version
  BY <1>2, <1>3 DEF FilesInv, FilesTyped, Entries
<1>5. manifest' = [p \in Paths |-> IF p = work.path THEN entry ELSE manifest[p]]
  BY <1>3 DEF Files!Upserted, Files!Save
<1>6. work' = [at |-> "retire", path |-> work.path, digest |-> work.digest, chunks |-> work.chunks,
               left |-> work.left, previous |-> work.previous]
  <2>1. work' = [work EXCEPT !.at = "retire"]
    BY DEF Files!Upserted
  <2> QED BY <2>1, OperationIs
<1>7. FilesTyped'
  <2>1. PICK saved : saved = {Absent} \cup Entries
    OBVIOUS
  <2>2. manifest \in [Paths -> saved] /\ entry \in saved
    BY <1>4, <2>1 DEF FilesInv, FilesTyped
  <2>3. manifest' \in [Paths -> saved]
    BY <1>5, <2>2
  <2> QED BY <1>1, <2>1, <2>3 DEF FilesInv, FilesTyped
<1>8. OperationTyped'
  BY <1>2, <1>6 DEF OperationTyped, Reconciling, Removing
<1>9. \A p \in Files!Indexed' : (p # work.path => p \in Files!Indexed /\ manifest'[p] = manifest[p])
  BY <1>5 DEF Files!Indexed
<1>10. manifest'[work.path] = entry
  BY <1>2, <1>5
<1>11. \A c \in work.chunks \cup work.previous : c[1] = work.path
  BY <1>1 DEF FilesInv, ChunksAreOwn, Reconciling
<1>12. ChunksAreOwn'
  <2>1. ASSUME NEW p \in Files!Indexed', NEW c \in manifest'[p].chunks PROVE c[1] = p
    <3>1. CASE p = work.path
      BY <1>4, <1>10, <1>11, <3>1
    <3>2. CASE p # work.path
      BY <1>9, <3>2 DEF FilesInv, ChunksAreOwn
    <3> QED BY <3>1, <3>2
  <2> QED BY <1>6, <1>11, <2>1 DEF ChunksAreOwn
<1>13. EmbeddedSoFar'
  BY <1>4, <1>6, <1>10 DEF EmbeddedSoFar
<1>14. NamedSound'
  <2> SUFFICES ASSUME NEW p \in Files!Indexed', p \notin Exempt', NEW c \in manifest'[p].chunks
               PROVE  vectors[c] = Files!Vector(c, manifest'[p].version)
    BY <1>1 DEF NamedSound, Files!Vector
  <2>1. CASE p = work.path
    BY <1>1, <1>4, <1>10, <2>1 DEF FilesInv, EmbeddedSoFar
  <2>2. CASE p # work.path
    <3>1. p \notin Exempt
      BY <1>1, <1>6, <2>2 DEF Exempt, Removing
    <3> QED BY <1>9, <2>2, <3>1 DEF FilesInv, NamedSound
  <2> QED BY <2>1, <2>2
<1> QED BY <1>7, <1>8, <1>12, <1>13, <1>14 DEF FilesInv

-----------------------------------------------------------------------------
\* Chunks are deleted: no entry names them that is not exempt.
LEMMA DeleteKeeps ==
    ASSUME FilesInv, NEW gone, Files!Delete(gone), OperationTyped', work'.at \notin Reconciling,
           Exempt \subseteq Exempt', UNCHANGED <<manifest, cache, source, version, torn>>,
           \A p \in Files!Indexed \ Exempt' : \A c \in manifest[p].chunks : c \notin gone
    PROVE  FilesInv'
<1>1. vectors' = [c \in Files!ChunkIds |-> IF c \in gone THEN Absent ELSE vectors[c]]
  BY DEF Files!Delete
<1>2. FilesTyped'
  <2>1. PICK rowset : rowset = {Absent, Files!Unusable} \cup Rows
    OBVIOUS
  <2>2. vectors \in [Files!ChunkIds -> rowset] /\ Absent \in rowset
    BY <2>1 DEF FilesInv, FilesTyped
  <2>3. vectors' \in [Files!ChunkIds -> rowset]
    BY <1>1, <2>2
  <2> QED BY <2>1, <2>3 DEF FilesInv, FilesTyped
<1>3. Files!Indexed' = Files!Indexed
  BY DEF Files!Indexed
<1>4. ChunksAreOwn' /\ EmbeddedSoFar'
  BY <1>3 DEF FilesInv, ChunksAreOwn, EmbeddedSoFar, Reconciling
<1>5. NamedSound'
  <2> SUFFICES ASSUME NEW p \in Files!Indexed, p \notin Exempt', NEW c \in manifest[p].chunks
               PROVE  vectors'[c] = Files!Vector(c, manifest[p].version)
    BY <1>3 DEF NamedSound, Files!Vector
  <2>1. vectors[c] = Files!Vector(c, manifest[p].version) /\ c \notin gone
    BY DEF FilesInv, NamedSound
  <2>2. c \in Files!ChunkIds
    BY DEF FilesInv, FilesTyped, Files!Indexed, Entries
  <2> QED BY <1>1, <2>1, <2>2
<1> QED BY <1>2, <1>4, <1>5 DEF FilesInv

LEMMA RetireKeeps == ASSUME FilesInv, Files!Retire PROVE FilesInv'
<1>1. /\ work.at = "retire" /\ Files!Delete(Files!Retired) /\ work' = Files!Idle
      /\ UNCHANGED <<manifest, cache, source, version, torn>>
  BY DEF Files!Retire, Files!World
<1>2. work'.at = "idle" /\ work'.left = {} /\ OperationTyped'
  BY <1>1 DEF Files!Idle, OperationTyped, Reconciling, Removing
<1>3. ASSUME NEW p \in Files!Indexed, NEW c \in manifest[p].chunks PROVE c \notin Files!Retired
  <2>1. c[1] = p
    BY DEF FilesInv, ChunksAreOwn
  <2>2. \A e \in Files!Retired : e[1] = work.path /\ e \notin work.chunks
    BY <1>1 DEF FilesInv, ChunksAreOwn, Reconciling, Files!Retired
  <2>3. p = work.path => c \in work.chunks
    BY <1>1 DEF FilesInv, EmbeddedSoFar
  <2> QED BY <2>1, <2>2, <2>3
<1>4. Exempt \subseteq Exempt' /\ work'.at \notin Reconciling
  BY <1>1, <1>2 DEF Exempt, Removing, Reconciling
<1> QED BY <1>1, <1>2, <1>3, <1>4, DeleteKeeps

\* The chunks of an entry go before the entry.
LEMMA OwnChunksGo ==
    ASSUME FilesInv, NEW p \in Files!Indexed, NEW q \in Files!Indexed, p # q, NEW c \in manifest[q].chunks
    PROVE  c \notin manifest[p].chunks
  BY DEF FilesInv, ChunksAreOwn

LEMMA RemoveKeeps == ASSUME FilesInv, NEW p \in Paths, Files!Remove(p) PROVE FilesInv'
<1>1. /\ work.at = "idle" /\ p \in Files!Indexed /\ Files!Delete(manifest[p].chunks)
      /\ UNCHANGED <<manifest, cache, source, version, torn>>
  BY DEF Files!Remove, Files!World
<1>2. work' = [at |-> "remove", path |-> p, digest |-> Absent, chunks |-> {}, left |-> {p}, previous |-> {}]
  BY DEF Files!Remove, Files!Idle
<1>3. OperationTyped' /\ work'.at \notin Reconciling
  BY <1>2 DEF OperationTyped, Reconciling, Removing
<1>4. Exempt \subseteq Exempt' /\ p \in Exempt'
  BY <1>1, <1>2 DEF Exempt, Removing
<1> QED BY <1>1, <1>3, <1>4, OwnChunksGo, DeleteKeeps

LEMMA InvalidateKeeps == ASSUME FilesInv, NEW p \in Paths, Files!Invalidate(p) PROVE FilesInv'
<1>1. /\ work.at \in {"idle", "invalidate"} /\ p \in Files!Indexed /\ Files!Delete(manifest[p].chunks)
      /\ UNCHANGED <<manifest, cache, source, version, torn>>
  BY DEF Files!Invalidate, Files!World, Files!Stale
<1>2. PICK kept : kept = work.left \cup {p}
  OBVIOUS
<1>3. work' = [at |-> "invalidate", path |-> Absent, digest |-> Absent, chunks |-> {}, left |-> kept, previous |-> {}]
  BY <1>2 DEF Files!Invalidate, Files!Idle
<1>4. work.left \in SUBSET Paths
  BY <1>1 DEF FilesInv, OperationTyped, Removing
<1>5. OperationTyped' /\ work'.at \notin Reconciling
  BY <1>2, <1>3, <1>4 DEF OperationTyped, Reconciling, Removing
<1>6. Exempt \subseteq Exempt' /\ p \in Exempt'
  BY <1>1, <1>2, <1>3 DEF Exempt, Removing
<1> QED BY <1>1, <1>5, <1>6, OwnChunksGo, DeleteKeeps

LEMMA RemovedKeeps == ASSUME FilesInv, Files!Removed PROVE FilesInv'
<1>1. /\ work.at \in {"remove", "invalidate"} /\ torn' = torn \ work.left /\ work' = Files!Idle
      /\ manifest' = [p \in Paths |-> IF p \in work.left THEN Absent ELSE manifest[p]]
      /\ UNCHANGED <<vectors, cache, source, version>>
  BY DEF Files!Removed, Files!World, Files!Save
<1>2. work'.at = "idle" /\ work'.left = {} /\ OperationTyped'
  BY <1>1 DEF Files!Idle, OperationTyped, Reconciling, Removing
<1>3. FilesTyped'
  <2>1. PICK saved : saved = {Absent} \cup Entries
    OBVIOUS
  <2>2. manifest \in [Paths -> saved] /\ Absent \in saved
    BY <2>1 DEF FilesInv, FilesTyped
  <2>3. manifest' \in [Paths -> saved]
    BY <1>1, <2>2
  <2> QED BY <1>1, <2>1, <2>3 DEF FilesInv, FilesTyped
<1>4. \A p \in Files!Indexed' : p \in Files!Indexed /\ p \notin work.left /\ manifest'[p] = manifest[p]
  BY <1>1 DEF Files!Indexed
<1>5. ChunksAreOwn' /\ EmbeddedSoFar'
  BY <1>2, <1>4 DEF FilesInv, ChunksAreOwn, EmbeddedSoFar, Reconciling
<1>6. NamedSound'
  <2> SUFFICES ASSUME NEW p \in Files!Indexed', p \notin Exempt', NEW c \in manifest'[p].chunks
               PROVE  vectors[c] = Files!Vector(c, manifest'[p].version)
    BY <1>1 DEF NamedSound, Files!Vector
  <2>1. p \notin Exempt
    BY <1>1, <1>4 DEF Exempt
  <2> QED BY <1>4, <2>1 DEF FilesInv, NamedSound
<1> QED BY <1>2, <1>3, <1>5, <1>6 DEF FilesInv

-----------------------------------------------------------------------------
LEMMA FilesStep == ASSUME FilesInv, Files!FilesNext PROVE FilesInv'
<1>1. CASE \E p \in Paths : Files!Capture(p) \/ Files!Remove(p) \/ Files!Invalidate(p)
  BY <1>1, CaptureKeeps, RemoveKeeps, InvalidateKeeps
<1>2. CASE Files!Rechunk \/ Files!Upserted \/ Files!Retire \/ Files!Removed \/ Files!BreaksOff
  BY <1>2, RechunkKeeps, UpsertedKeeps, RetireKeeps, RemovedKeeps, BreaksOffKeeps
<1>3. CASE \E c \in work.left : work.at = "reembed" /\ (Files!Hit(c) \/ Files!Miss(c))
  BY <1>3, HitKeeps, MissKeeps
<1>4. CASE \E p \in Paths, content \in Contents \cup {Absent} : Files!Edit(p, content)
  BY <1>4, EditFileKeeps
<1>5. CASE \E v \in Versions : Files!OtherModel(v) \/ \E piece \in Files!Pieces : Files!Damage(v, piece)
  BY <1>5, OtherModelKeeps, DamageKeeps
<1> QED BY <1>1, <1>2, <1>3, <1>4, <1>5 DEF Files!FilesNext

LEMMA FilesImply == ASSUME FilesInv PROVE Files!FilesTypeOK /\ Files!NamedChunksAreEmbedded
<1>1. ASSUME NEW p \in Files!Indexed
      PROVE  /\ manifest[p].digest \in Contents /\ manifest[p].version \in Versions
             /\ manifest[p].chunks \subseteq Files!ChunkIds
  BY DEF FilesInv, FilesTyped, Files!Indexed, Entries
<1>2. \A c \in Files!ChunkIds : vectors[c] \in {Absent, Files!Unusable} \cup Rows
  BY DEF FilesInv, FilesTyped
<1>3. work.at \in {"idle", "rechunk", "reembed", "upsert", "retire", "remove", "invalidate"}
  BY DEF FilesInv, OperationTyped, Reconciling, Removing
<1>4. Files!FilesTypeOK
  BY <1>1, <1>2, <1>3 DEF FilesInv, FilesTyped, Files!FilesTypeOK, Rows
<1>5. Files!NamedChunksAreEmbedded
  BY DEF FilesInv, NamedSound, Exempt, Files!NamedChunksAreEmbedded
<1> QED BY <1>4, <1>5

-----------------------------------------------------------------------------
(* The lexical store: tables, projection and the deletion of a project.      *)

Chunks == [document : Documents, word : Words]

StoreTyped ==
    /\ documents \in SUBSET Documents /\ symbols \in SUBSET (Lexical!Rows \X Words) /\ projected \in BOOLEAN
    /\ chunks \in [Lexical!Rows -> SUBSET Chunks] /\ fts \in [Lexical!Rows -> SUBSET Words]
    /\ points \in [Lexical!Collections -> SUBSET Lexical!Projects] /\ entries \in SUBSET Lexical!Projects
    /\ purge = [project |-> purge.project, at |-> purge.at, tries |-> purge.tries]
    /\ purge.at \in {"idle", "text", "code", "sqlite", "manifest", "done"}

\* A row holds one chunk, of a document that is there; a symbol is of such a row.
RowsSound ==
    /\ \A r \in Lexical!Rows : \A c \in chunks[r] : chunks[r] = {c} /\ c.document \in documents
    /\ \A s \in symbols : chunks[s[1]] # {}

\* The projection holds the words of every row, and of nothing else.
ProjectionSound ==
    projected => \A r \in Lexical!Rows : fts[r] = Lexical!WordsOf(r, chunks, symbols)

\* What the deletion of a project has left behind it.
PurgeSound ==
    /\ purge.at \in {"code", "sqlite", "manifest"} => purge.project \notin points["text"]
    /\ purge.at \in {"sqlite", "manifest"} => purge.project \notin points["code"]
    /\ purge.at = "manifest" => \A d \in documents : ProjectOf[d] # purge.project

LexicalInv == StoreTyped /\ RowsSound /\ ProjectionSound /\ PurgeSound

-----------------------------------------------------------------------------
LEMMA WordsAre ==
    ASSUME NEW r, NEW table, table[r] \in SUBSET Chunks, NEW names
    PROVE  Lexical!WordsOf(r, table, names) \in SUBSET Words
<1>1. \A c \in table[r] : c.word \in Words
  BY DEF Chunks
<1> QED BY <1>1 DEF Lexical!WordsOf, Lexical!NoRow

LEMMA OfIs ==
    ASSUME LexicalInv, NEW r \in Lexical!Rows, chunks[r] # {}
    PROVE  /\ chunks[r] = {Lexical!Of(r)} /\ Lexical!Of(r).document \in documents
           /\ Lexical!Of(r) \in Chunks /\ Lexical!Of(r).word \in Words
<1>1. PICK c \in chunks[r] : TRUE
  OBVIOUS
<1>2. Lexical!Of(r) \in chunks[r]
  BY <1>1 DEF Lexical!Of
<1>3. chunks[r] \in SUBSET Chunks
  BY DEF LexicalInv, StoreTyped
<1> QED BY <1>2, <1>3 DEF LexicalInv, RowsSound, Chunks

LEMMA LexicalInit == ASSUME Lexical!StoreInit PROVE LexicalInv
<1> USE DEF Lexical!StoreInit
<1>1. /\ documents = {} /\ symbols = {} /\ projected = FALSE /\ chunks = [r \in Lexical!Rows |-> {}]
      /\ fts = [r \in Lexical!Rows |-> {}] /\ points = [c \in Lexical!Collections |-> {}] /\ entries = {}
  BY DEF Lexical!NoRow
<1>2. purge = [project |-> purge.project, at |-> "idle", tries |-> purge.tries] /\ purge.at = "idle"
  OBVIOUS
<1>3. StoreTyped
  BY <1>1, <1>2 DEF StoreTyped
<1>4. RowsSound /\ ProjectionSound
  BY <1>1 DEF RowsSound, ProjectionSound
<1>5. PurgeSound
  BY <1>2 DEF PurgeSound
<1> QED BY <1>3, <1>4, <1>5 DEF LexicalInv

LEMMA LexicalRest == ASSUME LexicalInv, UNCHANGED lexical PROVE LexicalInv'
<1> USE DEF lexical
<1>1. StoreTyped' /\ RowsSound' /\ PurgeSound'
  BY DEF LexicalInv, StoreTyped, RowsSound, PurgeSound
<1>2. ProjectionSound'
  BY DEF LexicalInv, ProjectionSound, Lexical!WordsOf
<1> QED BY <1>1, <1>2 DEF LexicalInv

-----------------------------------------------------------------------------
(* What is written to the tables                                             *)

\* The projection of the rows that are not touched stays true.
LEMMA ProjectionKeeps ==
    ASSUME LexicalInv, NEW touched, projected' => projected,
           projected' => \A r \in touched \cap Lexical!Rows : fts'[r] = Lexical!WordsOf(r, chunks', symbols'),
           \A r \in Lexical!Rows \ touched :
               /\ projected' => fts'[r] = fts[r]
               /\ chunks'[r] = chunks[r]
               /\ \A w \in Words : <<r, w>> \in symbols' <=> <<r, w>> \in symbols
    PROVE  ProjectionSound'
<1> SUFFICES ASSUME projected', NEW r \in Lexical!Rows PROVE fts'[r] = Lexical!WordsOf(r, chunks', symbols')
  BY DEF ProjectionSound
<1>1. CASE r \in touched
  BY <1>1
<1>2. CASE r \notin touched
  <2>1. fts'[r] = Lexical!WordsOf(r, chunks, symbols)
    BY <1>2 DEF LexicalInv, ProjectionSound
  <2>2. {w \in Words : <<r, w>> \in symbols'} = {w \in Words : <<r, w>> \in symbols}
    BY <1>2
  <2> QED BY <1>2, <2>1, <2>2 DEF Lexical!WordsOf
<1> QED BY <1>1, <1>2

\* A chunk is written to a row.
LEMMA ChunkWritten ==
    ASSUME LexicalInv, Lexical!Idle, NEW row, NEW d \in documents, NEW w \in Words,
           chunks' = [chunks EXCEPT ![row] = Lexical!Chunk(d, w)], fts' = Lexical!ChunkTrigger(row, chunks'),
           UNCHANGED <<documents, symbols, projected, points, entries, purge>>
    PROVE  LexicalInv'
<1>1. PICK c : c = [document |-> d, word |-> w]
  OBVIOUS
<1>2. c \in Chunks /\ c.document = d
  BY <1>1 DEF LexicalInv, StoreTyped, Chunks
<1>3. \A r \in Lexical!Rows : chunks'[r] = IF r = row THEN {c} ELSE chunks[r]
  BY <1>1 DEF LexicalInv, StoreTyped, Lexical!Chunk
<1>4. chunks' \in [Lexical!Rows -> SUBSET Chunks]
  BY <1>1, <1>2 DEF LexicalInv, StoreTyped, Lexical!Chunk
<1>5. fts' \in [Lexical!Rows -> SUBSET Words]
  <2>1. PICK found : found = Lexical!WordsOf(row, chunks', symbols)
    OBVIOUS
  <2>2. row \in Lexical!Rows => found \in SUBSET Words
    BY <1>4, <2>1, WordsAre
  <2>3. fts' = IF projected THEN [fts EXCEPT ![row] = found] ELSE fts
    BY <2>1 DEF Lexical!ChunkTrigger
  <2> QED BY <2>2, <2>3 DEF LexicalInv, StoreTyped
<1>6. StoreTyped'
  BY <1>4, <1>5 DEF LexicalInv, StoreTyped
<1>7. RowsSound'
  <2>1. \A r \in Lexical!Rows : \A e \in chunks'[r] : chunks'[r] = {e} /\ e.document \in documents
    BY <1>2, <1>3 DEF LexicalInv, RowsSound
  <2>2. \A s \in symbols : s[1] \in Lexical!Rows
    BY DEF LexicalInv, StoreTyped
  <2>3. \A s \in symbols : chunks'[s[1]] # {}
    BY <1>3, <2>2 DEF LexicalInv, RowsSound
  <2> QED BY <2>1, <2>3 DEF RowsSound
<1>8. ProjectionSound'
  <2>1. projected' => \A r \in {row} \cap Lexical!Rows : fts'[r] = Lexical!WordsOf(r, chunks', symbols')
    <3>1. PICK found : found = Lexical!WordsOf(row, chunks', symbols)
      OBVIOUS
    <3>2. fts' = IF projected THEN [fts EXCEPT ![row] = found] ELSE fts
      BY <3>1 DEF Lexical!ChunkTrigger
    <3>3. row \in Lexical!Rows /\ projected => fts'[row] = found
      BY <3>2 DEF LexicalInv, StoreTyped
    <3>4. found = Lexical!WordsOf(row, chunks', symbols')
      BY <3>1 DEF Lexical!WordsOf
    <3> QED BY <3>3, <3>4
  <2>2. \A r \in Lexical!Rows \ {row} : fts'[r] = fts[r]
    <3>1. PICK found : found = Lexical!WordsOf(row, chunks', symbols)
      OBVIOUS
    <3>2. fts' = fts \/ fts' = [fts EXCEPT ![row] = found]
      BY <3>1 DEF Lexical!ChunkTrigger
    <3>3. fts \in [Lexical!Rows -> SUBSET Words]
      BY DEF LexicalInv, StoreTyped
    <3> QED BY <3>2, <3>3
  <2>3. projected' => projected
    OBVIOUS
  <2>4. \A r \in Lexical!Rows \ {row} :
           /\ projected' => fts'[r] = fts[r]
           /\ chunks'[r] = chunks[r]
           /\ \A v \in Words : <<r, v>> \in symbols' <=> <<r, v>> \in symbols
    BY <1>3, <2>2
  <2> QED BY <2>1, <2>3, <2>4, ProjectionKeeps
<1>9. PurgeSound'
  BY DEF LexicalInv, PurgeSound, Lexical!Idle
<1> QED BY <1>6, <1>7, <1>8, <1>9 DEF LexicalInv

\* Symbols are written, moved or deleted, of the rows that are touched.
LEMMA SymbolsWritten ==
    ASSUME LexicalInv, Lexical!Idle, NEW touched \in SUBSET Lexical!Rows,
           symbols' \in SUBSET (Lexical!Rows \X Words), \A s \in symbols' : chunks[s[1]] # {},
           \A r \in Lexical!Rows \ touched, w \in Words : <<r, w>> \in symbols' <=> <<r, w>> \in symbols,
           fts' = Lexical!SymbolTrigger(touched, symbols'),
           UNCHANGED <<documents, chunks, projected, points, entries, purge>>
    PROVE  LexicalInv'
<1>1. \A r \in Lexical!Rows : Lexical!WordsOf(r, chunks, symbols') \in SUBSET Words
  BY WordsAre DEF LexicalInv, StoreTyped
<1>2. fts' \in [Lexical!Rows -> SUBSET Words]
  <2>1. CASE projected
    <3>1. fts' = [r \in Lexical!Rows |-> IF r \in touched THEN Lexical!WordsOf(r, chunks, symbols') ELSE fts[r]]
      BY <2>1 DEF Lexical!SymbolTrigger
    <3>2. \A r \in Lexical!Rows : fts[r] \in SUBSET Words
      BY DEF LexicalInv, StoreTyped
    <3> QED BY <1>1, <3>1, <3>2
  <2>2. CASE ~projected
    BY <2>2 DEF LexicalInv, StoreTyped, Lexical!SymbolTrigger
  <2> QED BY <2>1, <2>2
<1>3. StoreTyped'
  BY <1>2 DEF LexicalInv, StoreTyped
<1>4. RowsSound'
  BY DEF LexicalInv, RowsSound
<1>5. ProjectionSound'
  <2>1. projected' => \A r \in touched \cap Lexical!Rows : fts'[r] = Lexical!WordsOf(r, chunks', symbols')
    BY DEF Lexical!SymbolTrigger
  <2>2. \A r \in Lexical!Rows \ touched : fts'[r] = fts[r]
    BY DEF LexicalInv, StoreTyped, Lexical!SymbolTrigger
  <2> QED BY <2>1, <2>2, ProjectionKeeps
<1>6. PurgeSound'
  BY DEF LexicalInv, PurgeSound, Lexical!Idle
<1> QED BY <1>3, <1>4, <1>5, <1>6 DEF LexicalInv

\* Documents are deleted, with their chunks, symbols and words.
LEMMA DeleteRowsKeeps ==
    ASSUME LexicalInv, NEW ds, Lexical!DeleteRows(ds), UNCHANGED <<projected, points, entries>>,
           purge' = [project |-> purge'.project, at |-> purge'.at, tries |-> purge'.tries],
           purge'.at \in {"idle", "text", "code", "sqlite", "manifest", "done"}
    PROVE  StoreTyped' /\ RowsSound' /\ ProjectionSound'
<1>1. PICK rowset : rowset = Lexical!RowsOf(ds)
  OBVIOUS
<1>2. /\ documents' = documents \ ds
      /\ chunks' = [r \in Lexical!Rows |-> IF r \in rowset THEN {} ELSE chunks[r]]
      /\ symbols' = {s \in symbols : s[1] \notin rowset}
      /\ fts' = IF projected THEN [r \in Lexical!Rows |-> IF r \in rowset THEN {} ELSE fts[r]] ELSE fts
  BY <1>1 DEF Lexical!DeleteRows, Lexical!Without, Lexical!SymbolsWithout, Lexical!FtsWithout, Lexical!NoRow
<1>3. ASSUME NEW r \in Lexical!Rows, NEW c \in chunks[r], c.document \in ds PROVE r \in rowset
  <2>1. Lexical!Of(r) = c
    BY OfIs
  <2> QED BY <1>1, <1>3, <2>1 DEF Lexical!RowsOf, Lexical!Used, Lexical!NoRow
<1>4. StoreTyped'
  BY <1>2 DEF LexicalInv, StoreTyped
<1>5. RowsSound'
  <2>1. ASSUME NEW r \in Lexical!Rows, NEW c \in chunks'[r] PROVE chunks'[r] = {c} /\ c.document \in documents'
    <3>1. r \notin rowset /\ chunks'[r] = chunks[r]
      BY <1>2
    <3> QED BY <1>2, <1>3, <3>1 DEF LexicalInv, RowsSound
  <2>2. \A s \in symbols' : s[1] \in Lexical!Rows /\ s[1] \notin rowset /\ s \in symbols
    BY <1>2 DEF LexicalInv, StoreTyped
  <2>3. \A s \in symbols' : chunks'[s[1]] # {}
    BY <1>2, <2>2 DEF LexicalInv, RowsSound
  <2> QED BY <2>1, <2>3 DEF RowsSound
<1>6. ProjectionSound'
  <2>1. projected' => \A r \in rowset \cap Lexical!Rows : fts'[r] = Lexical!WordsOf(r, chunks', symbols')
    BY <1>2 DEF Lexical!WordsOf, Lexical!NoRow
  <2>2. \A r \in Lexical!Rows \ rowset : (projected' => fts'[r] = fts[r]) /\ chunks'[r] = chunks[r]
    BY <1>2
  <2>3. ASSUME NEW r \in Lexical!Rows \ rowset, NEW w \in Words PROVE <<r, w>> \in symbols' <=> <<r, w>> \in symbols
    <3>1. <<r, w>>[1] = r
      OBVIOUS
    <3> QED BY <1>2, <3>1
  <2> QED BY <2>1, <2>2, <2>3, ProjectionKeeps
<1> QED BY <1>4, <1>5, <1>6

-----------------------------------------------------------------------------
(* The operations                                                            *)

LEMMA InsertDocumentKeeps ==
    ASSUME LexicalInv, NEW d \in Documents, Lexical!InsertDocument(d) PROVE LexicalInv'
<1>1. /\ Lexical!Idle /\ documents' = documents \cup {d}
      /\ UNCHANGED <<chunks, symbols, fts, projected, points, entries, purge>>
  BY DEF Lexical!InsertDocument, Lexical!Kept
<1>2. StoreTyped' /\ RowsSound' /\ PurgeSound'
  BY <1>1 DEF LexicalInv, StoreTyped, RowsSound, PurgeSound, Lexical!Idle
<1>3. ProjectionSound'
  BY <1>1 DEF LexicalInv, ProjectionSound, Lexical!WordsOf
<1> QED BY <1>2, <1>3 DEF LexicalInv

LEMMA InsertChunkKeeps ==
    ASSUME LexicalInv, NEW d \in Documents, NEW w \in Words, Lexical!InsertChunk(d, w) PROVE LexicalInv'
<1>1. /\ Lexical!Idle /\ d \in documents
      /\ chunks' = [chunks EXCEPT ![Lexical!NextRow] = Lexical!Chunk(d, w)]
      /\ fts' = Lexical!ChunkTrigger(Lexical!NextRow, chunks')
      /\ UNCHANGED <<documents, symbols, projected, points, entries, purge>>
  BY DEF Lexical!InsertChunk, Lexical!Kept
<1> QED BY <1>1, ChunkWritten

LEMMA UpdateChunkKeeps ==
    ASSUME LexicalInv, NEW r \in Lexical!Rows, NEW w \in Words, Lexical!UpdateChunk(r, w) PROVE LexicalInv'
<1>1. /\ Lexical!Idle /\ chunks[r] # {}
      /\ chunks' = [chunks EXCEPT ![r] = Lexical!Chunk(Lexical!Of(r).document, w)]
      /\ fts' = Lexical!ChunkTrigger(r, chunks')
      /\ UNCHANGED <<documents, symbols, projected, points, entries, purge>>
  BY DEF Lexical!UpdateChunk, Lexical!Kept, Lexical!NoRow
<1>2. PICK d : d = Lexical!Of(r).document
  OBVIOUS
<1>3. d \in documents
  BY <1>1, <1>2, OfIs
<1>4. chunks' = [chunks EXCEPT ![r] = Lexical!Chunk(d, w)]
  BY <1>1, <1>2
<1> QED BY <1>1, <1>3, <1>4, ChunkWritten

LEMMA InsertSymbolKeeps ==
    ASSUME LexicalInv, NEW r \in Lexical!Rows, NEW w \in Words, Lexical!InsertSymbol(r, w) PROVE LexicalInv'
<1>1. /\ Lexical!Idle /\ chunks[r] # {} /\ symbols' = symbols \cup {<<r, w>>}
      /\ fts' = Lexical!SymbolTrigger({r}, symbols')
      /\ UNCHANGED <<documents, chunks, projected, points, entries, purge>>
  BY DEF Lexical!InsertSymbol, Lexical!Kept, Lexical!NoRow
<1>2. symbols' \in SUBSET (Lexical!Rows \X Words)
  BY <1>1 DEF LexicalInv, StoreTyped
<1>3. \A s \in symbols' : chunks[s[1]] # {}
  BY <1>1 DEF LexicalInv, RowsSound
<1>4. \A q \in Lexical!Rows \ {r}, v \in Words : <<q, v>> \in symbols' <=> <<q, v>> \in symbols
  BY <1>1
<1> QED BY <1>1, <1>2, <1>3, <1>4, SymbolsWritten

LEMMA MoveSymbolKeeps ==
    ASSUME LexicalInv, NEW r \in Lexical!Rows, NEW s \in Lexical!Rows, NEW w \in Words, Lexical!MoveSymbol(r, s, w)
    PROVE  LexicalInv'
<1>1. /\ Lexical!Idle /\ chunks[s] # {} /\ symbols' = (symbols \ {<<r, w>>}) \cup {<<s, w>>}
      /\ fts' = Lexical!SymbolTrigger({r, s}, symbols')
      /\ UNCHANGED <<documents, chunks, projected, points, entries, purge>>
  BY DEF Lexical!MoveSymbol, Lexical!Kept, Lexical!NoRow
<1>2. symbols' \in SUBSET (Lexical!Rows \X Words)
  BY <1>1 DEF LexicalInv, StoreTyped
<1>3. \A x \in symbols' : chunks[x[1]] # {}
  BY <1>1 DEF LexicalInv, RowsSound
<1>4. \A q \in Lexical!Rows \ {r, s}, v \in Words : <<q, v>> \in symbols' <=> <<q, v>> \in symbols
  BY <1>1
<1> QED BY <1>1, <1>2, <1>3, <1>4, SymbolsWritten

LEMMA DeleteSymbolsKeeps ==
    ASSUME LexicalInv, NEW d \in Documents, Lexical!DeleteSymbols(d) PROVE LexicalInv'
<1>1. /\ Lexical!Idle /\ symbols' = {s \in symbols : s[1] \notin Lexical!RowsOf({d})}
      /\ fts' = Lexical!SymbolTrigger(Lexical!RowsOf({d}), symbols')
      /\ UNCHANGED <<documents, chunks, projected, points, entries, purge>>
  BY DEF Lexical!DeleteSymbols, Lexical!Kept, Lexical!SymbolsWithout
<1>2. PICK touched : touched = Lexical!RowsOf({d})
  OBVIOUS
<1>3. touched \in SUBSET Lexical!Rows
  BY <1>2 DEF Lexical!RowsOf, Lexical!Used
<1>4. symbols' \in SUBSET (Lexical!Rows \X Words) /\ \A s \in symbols' : chunks[s[1]] # {}
  BY <1>1 DEF LexicalInv, StoreTyped, RowsSound
<1>5. ASSUME NEW q \in Lexical!Rows \ touched, NEW v \in Words PROVE <<q, v>> \in symbols' <=> <<q, v>> \in symbols
  <2>1. <<q, v>>[1] = q
    OBVIOUS
  <2> QED BY <1>1, <1>2, <2>1
<1> QED BY <1>1, <1>2, <1>3, <1>4, <1>5, SymbolsWritten

LEMMA DeleteDocumentKeeps ==
    ASSUME LexicalInv, NEW d \in Documents, Lexical!DeleteDocument(d) PROVE LexicalInv'
<1>1. Lexical!Idle /\ Lexical!DeleteRows({d}) /\ UNCHANGED <<projected, points, entries, purge>>
  BY DEF Lexical!DeleteDocument, Lexical!Kept
<1>2. StoreTyped' /\ RowsSound' /\ ProjectionSound'
  BY <1>1, DeleteRowsKeeps DEF LexicalInv, StoreTyped
<1>3. PurgeSound'
  BY <1>1 DEF LexicalInv, PurgeSound, Lexical!Idle
<1> QED BY <1>2, <1>3 DEF LexicalInv

LEMMA InitializeKeeps == ASSUME LexicalInv, Lexical!InitializeFts5 PROVE LexicalInv'
<1>1. /\ Lexical!Idle /\ projected' = TRUE
      /\ fts' = [r \in Lexical!Rows |-> Lexical!WordsOf(r, chunks, symbols)]
      /\ UNCHANGED <<documents, chunks, symbols, points, entries, purge>>
  BY DEF Lexical!InitializeFts5
<1>2. \A r \in Lexical!Rows : Lexical!WordsOf(r, chunks, symbols) \in SUBSET Words
  BY WordsAre DEF LexicalInv, StoreTyped
<1>3. StoreTyped'
  BY <1>1, <1>2 DEF LexicalInv, StoreTyped
<1>4. RowsSound' /\ PurgeSound'
  BY <1>1 DEF LexicalInv, RowsSound, PurgeSound
<1>5. ProjectionSound'
  BY <1>1 DEF ProjectionSound, Lexical!WordsOf
<1> QED BY <1>3, <1>4, <1>5 DEF LexicalInv

\* The points, the manifest and the purge change, the tables do not.
LEMMA TablesStay ==
    ASSUME LexicalInv, UNCHANGED <<documents, chunks, symbols, fts, projected>>,
           points' \in [Lexical!Collections -> SUBSET Lexical!Projects], entries' \in SUBSET Lexical!Projects,
           purge' = [project |-> purge'.project, at |-> purge'.at, tries |-> purge'.tries],
           purge'.at \in {"idle", "text", "code", "sqlite", "manifest", "done"}, PurgeSound'
    PROVE  LexicalInv'
<1>1. StoreTyped' /\ RowsSound'
  BY DEF LexicalInv, StoreTyped, RowsSound
<1>2. ProjectionSound'
  BY DEF LexicalInv, ProjectionSound, Lexical!WordsOf
<1> QED BY <1>1, <1>2 DEF LexicalInv

LEMMA PurgeIs ==
    ASSUME LexicalInv
    PROVE  /\ purge = [project |-> purge.project, at |-> purge.at, tries |-> purge.tries]
           /\ purge.at \in {"idle", "text", "code", "sqlite", "manifest", "done"}
           /\ points \in [Lexical!Collections -> SUBSET Lexical!Projects] /\ entries \in SUBSET Lexical!Projects
           /\ Lexical!Collections = {"text", "code"}
  BY DEF LexicalInv, StoreTyped, Lexical!Collections

LEMMA IndexProjectKeeps ==
    ASSUME LexicalInv, NEW p \in Lexical!Projects, Lexical!IndexProject(p) PROVE LexicalInv'
<1>1. /\ Lexical!Idle /\ UNCHANGED <<documents, chunks, symbols, fts, projected>>
      /\ points' = [c \in Lexical!Collections |-> points[c] \cup {p}] /\ entries' = entries \cup {p}
      /\ purge' = [purge EXCEPT !.at = IF purge.project = p THEN "idle" ELSE purge.at]
  BY DEF Lexical!IndexProject
<1>2. /\ points' \in [Lexical!Collections -> SUBSET Lexical!Projects] /\ entries' \in SUBSET Lexical!Projects
  BY <1>1, PurgeIs
<1>3. /\ purge' = [project |-> purge.project, at |-> purge'.at, tries |-> purge.tries]
      /\ purge'.at \in {"idle", "done"}
  BY <1>1, PurgeIs DEF Lexical!Idle
<1>4. PurgeSound'
  BY <1>3 DEF PurgeSound
<1> QED BY <1>1, <1>2, <1>3, <1>4, TablesStay

LEMMA BeginPurgeKeeps ==
    ASSUME LexicalInv, NEW p \in Lexical!Projects, Lexical!BeginPurge(p) PROVE LexicalInv'
<1>1. /\ purge' = [project |-> p, at |-> "text", tries |-> purge.tries + 1]
      /\ UNCHANGED <<documents, chunks, symbols, fts, projected, points, entries>>
  BY DEF Lexical!BeginPurge
<1>2. PurgeSound'
  BY <1>1 DEF PurgeSound
<1> QED BY <1>1, <1>2, PurgeIs, TablesStay

LEMMA PurgeRaisesKeeps == ASSUME LexicalInv, Lexical!PurgeRaises PROVE LexicalInv'
<1>1. /\ purge' = [project |-> purge.project, at |-> "idle", tries |-> purge.tries]
      /\ UNCHANGED <<documents, chunks, symbols, fts, projected, points, entries>>
  BY PurgeIs DEF Lexical!PurgeRaises
<1>2. PurgeSound'
  BY <1>1 DEF PurgeSound
<1> QED BY <1>1, <1>2, PurgeIs, TablesStay

LEMMA PurgeVectorsKeeps ==
    ASSUME LexicalInv, NEW c \in Lexical!Collections, Lexical!PurgeVectors(c) PROVE LexicalInv'
<1>1. /\ purge.at = c /\ points' = [points EXCEPT ![c] = points[c] \ {purge.project}]
      /\ purge' = [project |-> purge.project, at |-> IF c = "text" THEN "code" ELSE "sqlite", tries |-> purge.tries]
      /\ UNCHANGED <<documents, chunks, symbols, fts, projected, entries>>
  BY PurgeIs DEF Lexical!PurgeVectors
<1>2. points' \in [Lexical!Collections -> SUBSET Lexical!Projects]
  BY <1>1, PurgeIs
<1>3. PurgeSound'
  BY <1>1, PurgeIs DEF LexicalInv, PurgeSound
<1> QED BY <1>1, <1>2, <1>3, PurgeIs, TablesStay

LEMMA PurgeTablesKeeps == ASSUME LexicalInv, Lexical!PurgeTables PROVE LexicalInv'
<1>1. PICK ds : ds = {d \in documents : ProjectOf[d] = purge.project}
  OBVIOUS
<1>2. /\ purge.at = "sqlite" /\ Lexical!DeleteRows(ds) /\ UNCHANGED <<projected, points, entries>>
      /\ purge' = [project |-> purge.project, at |-> "manifest", tries |-> purge.tries]
  BY <1>1, PurgeIs DEF Lexical!PurgeTables
<1>3. StoreTyped' /\ RowsSound' /\ ProjectionSound'
  BY <1>2, DeleteRowsKeeps
<1>4. documents' = documents \ ds
  BY <1>2 DEF Lexical!DeleteRows
<1>5. PurgeSound'
  BY <1>1, <1>2, <1>4 DEF LexicalInv, PurgeSound
<1> QED BY <1>3, <1>5 DEF LexicalInv

LEMMA PurgeManifestKeeps == ASSUME LexicalInv, Lexical!PurgeManifest PROVE LexicalInv'
<1>1. /\ purge.at = "manifest" /\ entries' = entries \ {purge.project}
      /\ purge' = [project |-> purge.project, at |-> "done", tries |-> purge.tries]
      /\ UNCHANGED <<documents, chunks, symbols, fts, projected, points>>
  BY PurgeIs DEF Lexical!PurgeManifest
<1>2. PurgeSound'
  BY <1>1 DEF PurgeSound
<1> QED BY <1>1, <1>2, PurgeIs, TablesStay

LEMMA LexicalStep == ASSUME LexicalInv, Lexical!StoreNext PROVE LexicalInv'
<1>1. CASE \E d \in Documents : Lexical!InsertDocument(d) \/ Lexical!DeleteSymbols(d) \/ Lexical!DeleteDocument(d)
  BY <1>1, InsertDocumentKeeps, DeleteSymbolsKeeps, DeleteDocumentKeeps
<1>2. CASE \E d \in Documents, w \in Words : Lexical!InsertChunk(d, w)
  BY <1>2, InsertChunkKeeps
<1>3. CASE \E r \in Lexical!Rows, w \in Words : Lexical!UpdateChunk(r, w) \/ Lexical!InsertSymbol(r, w)
  BY <1>3, UpdateChunkKeeps, InsertSymbolKeeps
<1>4. CASE \E r, s \in Lexical!Rows, w \in Words : Lexical!MoveSymbol(r, s, w)
  BY <1>4, MoveSymbolKeeps
<1>5. CASE \/ Lexical!InitializeFts5 \/ Lexical!PurgeTables \/ Lexical!PurgeManifest \/ Lexical!PurgeRaises
  BY <1>5, InitializeKeeps, PurgeTablesKeeps, PurgeManifestKeeps, PurgeRaisesKeeps
<1>6. CASE \E p \in Lexical!Projects : Lexical!IndexProject(p) \/ Lexical!BeginPurge(p)
  BY <1>6, IndexProjectKeeps, BeginPurgeKeeps
<1>7. CASE \E c \in Lexical!Collections : Lexical!PurgeVectors(c)
  BY <1>7, PurgeVectorsKeeps
<1> QED BY <1>1, <1>2, <1>3, <1>4, <1>5, <1>6, <1>7 DEF Lexical!StoreNext

-----------------------------------------------------------------------------
(* What follows                                                              *)

LEMMA UsedIs ==
    ASSUME LexicalInv
    PROVE  \A r \in Lexical!Used(chunks) :
              /\ r \in Lexical!Rows /\ chunks[r] = {Lexical!Of(r)} /\ Lexical!Of(r).document \in documents
              /\ Lexical!Of(r).word \in Words
  BY OfIs DEF Lexical!Used, Lexical!NoRow

LEMMA StoreIsTyped == ASSUME LexicalInv PROVE Lexical!StoreTypeOK
<1>1. ASSUME NEW r \in Lexical!Used(chunks)
      PROVE  Lexical!Cardinality(chunks[r]) = 1 /\ Lexical!Of(r).document \in documents
  <2>1. chunks[r] = {Lexical!Of(r)} /\ Lexical!Of(r).document \in documents
    BY UsedIs
  <2>2. Cardinality(chunks[r]) = 1
    BY <2>1, FS_Singleton
  <2>3. Lexical!Cardinality(chunks[r]) = Cardinality(chunks[r])
    BY DEF Cardinality, Lexical!Cardinality
  <2> QED BY <2>1, <2>2, <2>3
<1> QED BY <1>1 DEF LexicalInv, StoreTyped, Lexical!StoreTypeOK

LEMMA SearchFinds == ASSUME LexicalInv PROVE Lexical!SearchIsExact
<1> SUFFICES ASSUME projected, NEW p \in Lexical!Projects, NEW w \in Words
             PROVE  Lexical!Search(p, w) = {r \in Lexical!Used(chunks) :
                                               /\ ProjectOf[Lexical!Of(r).document] = p
                                               /\ w = Lexical!Of(r).word \/ <<r, w>> \in symbols}
  BY DEF Lexical!SearchIsExact
<1>1. ASSUME NEW r \in Lexical!Rows
      PROVE  (w \in fts[r] /\ \E c \in chunks[r] : ProjectOf[c.document] = p) <=>
             (/\ r \in Lexical!Used(chunks) /\ ProjectOf[Lexical!Of(r).document] = p
              /\ w = Lexical!Of(r).word \/ <<r, w>> \in symbols)
  <2>1. fts[r] = Lexical!WordsOf(r, chunks, symbols)
    BY DEF LexicalInv, ProjectionSound
  <2>2. CASE chunks[r] = {}
    BY <2>2 DEF Lexical!Used, Lexical!NoRow
  <2>3. CASE chunks[r] # {}
    <3>1. PICK c : c = Lexical!Of(r)
      OBVIOUS
    <3>2. chunks[r] = {c} /\ r \in Lexical!Used(chunks)
      BY <2>3, <3>1, OfIs DEF Lexical!Used, Lexical!NoRow
    <3>3. fts[r] = {c.word} \cup {v \in Words : <<r, v>> \in symbols}
      BY <2>1, <2>3, <3>2 DEF Lexical!WordsOf, Lexical!NoRow
    <3> QED BY <3>1, <3>2, <3>3
  <2> QED BY <2>2, <2>3
<1>2. \A r \in Lexical!Used(chunks) : r \in Lexical!Rows
  BY DEF Lexical!Used
<1> QED BY <1>1, <1>2 DEF Lexical!Search

\* A purge that returns leaves nothing of its project behind.
LEMMA PurgeLeavesNothing ==
    ASSUME LexicalInv, LexicalInv', Lexical!StoreNext \/ UNCHANGED lexical, purge.at = "manifest", purge'.at = "done"
    PROVE  Lexical!Gone(purge.project)'
<1>1. Lexical!PurgeManifest
  BY PurgeIs DEF Lexical!StoreNext, lexical, Lexical!InsertDocument, Lexical!DeleteSymbols, Lexical!DeleteDocument,
     Lexical!InsertChunk, Lexical!UpdateChunk, Lexical!InsertSymbol, Lexical!MoveSymbol, Lexical!InitializeFts5,
     Lexical!IndexProject, Lexical!BeginPurge, Lexical!PurgeVectors, Lexical!PurgeTables, Lexical!PurgeRaises,
     Lexical!Idle, Lexical!Kept
<1>2. /\ purge'.project = purge.project /\ entries' = entries \ {purge.project}
      /\ UNCHANGED <<documents, chunks, points>>
  BY <1>1, PurgeIs DEF Lexical!PurgeManifest
<1>3. /\ \A d \in documents : ProjectOf[d] # purge.project
      /\ \A c \in Lexical!Collections : purge.project \notin points[c]
  BY PurgeIs DEF LexicalInv, PurgeSound
<1>4. \A r \in Lexical!Used(chunks) : Lexical!Of(r).document \in documents
  BY UsedIs
<1>5. /\ \A d \in documents' : ProjectOf[d] # purge'.project
      /\ \A c \in Lexical!Collections : purge'.project \notin points'[c]
      /\ purge'.project \notin entries'
  BY <1>2, <1>3
<1>6. \A r \in Lexical!Used(chunks') : ProjectOf[Lexical!Of(r)'.document] # purge'.project
  <2>1. \A r \in Lexical!Used(chunks) : Lexical!Of(r)' = Lexical!Of(r)
    BY <1>2 DEF Lexical!Of
  <2> QED BY <1>2, <1>3, <1>4, <2>1
<1> QED BY <1>5, <1>6 DEF Lexical!Gone

\* While a project is purged, what another has in a store stays there.
LEMMA SharesStay ==
    ASSUME LexicalInv, LexicalInv', Lexical!StoreNext \/ UNCHANGED lexical, ~Lexical!Idle,
           NEW p \in Lexical!Projects \ {purge.project}
    PROVE  Lexical!Share(p)' = Lexical!Share(p)
<1>1. Lexical!PurgeRaises \/ Lexical!PurgeTables \/ Lexical!PurgeManifest
      \/ (\E c \in Lexical!Collections : Lexical!PurgeVectors(c)) \/ UNCHANGED lexical
  BY DEF Lexical!StoreNext, Lexical!InsertDocument, Lexical!DeleteSymbols, Lexical!DeleteDocument,
     Lexical!InsertChunk, Lexical!UpdateChunk, Lexical!InsertSymbol, Lexical!MoveSymbol, Lexical!InitializeFts5,
     Lexical!IndexProject, Lexical!BeginPurge
<1>2. /\ \A d \in Documents : ProjectOf[d] = p => (d \in documents' <=> d \in documents)
      /\ \A r \in Lexical!Rows : \A c \in Chunks : ProjectOf[c.document] = p =>
             (chunks'[r] = {c} <=> chunks[r] = {c})
  <2>1. CASE Lexical!PurgeTables
    <3>1. PICK ds : ds = {d \in documents : ProjectOf[d] = purge.project}
      OBVIOUS
    <3>2. PICK rowset : rowset = Lexical!RowsOf(ds)
      OBVIOUS
    <3>3. /\ documents' = documents \ ds
          /\ chunks' = [r \in Lexical!Rows |-> IF r \in rowset THEN {} ELSE chunks[r]]
      BY <2>1, <3>1, <3>2 DEF Lexical!PurgeTables, Lexical!DeleteRows, Lexical!Without, Lexical!NoRow
    <3>4. ASSUME NEW r \in Lexical!Rows, NEW c \in Chunks, ProjectOf[c.document] = p, chunks[r] = {c} PROVE r \notin rowset
      <4>1. Lexical!Of(r) = c
        BY <3>4, OfIs
      <4> QED BY <3>1, <3>2, <3>4, <4>1 DEF Lexical!RowsOf
    <3> QED BY <3>1, <3>3, <3>4
  <2>2. CASE UNCHANGED <<documents, chunks>>
    BY <2>2
  <2> QED BY <1>1, <2>1, <2>2 DEF Lexical!PurgeRaises, Lexical!PurgeManifest, Lexical!PurgeVectors, lexical
<1>3. /\ \A c \in Lexical!Collections : p \in points'[c] <=> p \in points[c]
      /\ p \in entries' <=> p \in entries
  BY <1>1, PurgeIs DEF Lexical!PurgeRaises, Lexical!PurgeManifest, Lexical!PurgeVectors, Lexical!PurgeTables, lexical
<1>4. {d \in documents' : ProjectOf[d] = p} = {d \in documents : ProjectOf[d] = p}
  <2>1. documents \in SUBSET Documents /\ documents' \in SUBSET Documents
    BY DEF LexicalInv, StoreTyped
  <2> QED BY <1>2, <2>1
<1>5. ASSUME NEW r \in Lexical!Rows
      PROVE  (r \in Lexical!Used(chunks) /\ ProjectOf[Lexical!Of(r).document] = p) <=>
             \E c \in Chunks : ProjectOf[c.document] = p /\ chunks[r] = {c}
  BY OfIs DEF Lexical!Used, Lexical!NoRow
<1>6. ASSUME NEW r \in Lexical!Rows
      PROVE  (r \in Lexical!Used(chunks') /\ ProjectOf[Lexical!Of(r)'.document] = p) <=>
             \E c \in Chunks : ProjectOf[c.document] = p /\ chunks'[r] = {c}
  <2>1. chunks'[r] # {} => chunks'[r] = {Lexical!Of(r)'} /\ Lexical!Of(r)' \in Chunks
    <3> SUFFICES ASSUME chunks'[r] # {} PROVE chunks'[r] = {Lexical!Of(r)'} /\ Lexical!Of(r)' \in Chunks
      OBVIOUS
    <3>1. Lexical!Of(r)' \in chunks'[r]
      BY DEF Lexical!Of
    <3>2. chunks'[r] \in SUBSET Chunks /\ \A c \in chunks'[r] : chunks'[r] = {c}
      BY DEF LexicalInv, StoreTyped, RowsSound
    <3> QED BY <3>1, <3>2
  <2> QED BY <2>1 DEF Lexical!Used, Lexical!NoRow
<1>7. {r \in Lexical!Used(chunks') : ProjectOf[Lexical!Of(r)'.document] = p}
         = {r \in Lexical!Used(chunks) : ProjectOf[Lexical!Of(r).document] = p}
  <2>1. \A r \in Lexical!Rows :
           (r \in Lexical!Used(chunks') /\ ProjectOf[Lexical!Of(r)'.document] = p) <=>
           (r \in Lexical!Used(chunks) /\ ProjectOf[Lexical!Of(r).document] = p)
    BY <1>2, <1>5, <1>6
  <2>2. \A table : \A r \in Lexical!Used(table) : r \in Lexical!Rows
    BY DEF Lexical!Used
  <2> QED BY <2>1, <2>2
<1>8. {c \in Lexical!Collections : p \in points'[c]} = {c \in Lexical!Collections : p \in points[c]}
  BY <1>3
<1>9. (p \in entries') = (p \in entries)
  BY <1>3
<1> QED BY <1>4, <1>7, <1>8, <1>9 DEF Lexical!Share

-----------------------------------------------------------------------------
(* Sequences that are computed from left to right, sums, filters and orders.  *)

\* A set of numbers that is not empty has a least one.
LEMMA LeastOf ==
    ASSUME NEW T \in SUBSET Nat, T # {}
    PROVE  \E n \in T : \A m \in T : n <= m
<1> DEFINE F == {0..n - 1 : n \in T}
           R == StrictSubsetOrdering(Nat)
<1>1. F \subseteq FiniteSubsetsOf(Nat) /\ F # {}
  <2>1. \A n \in T : IsFiniteSet(0..n - 1) /\ 0..n - 1 \subseteq Nat
    BY FS_Interval
  <2> QED BY <2>1 DEF FiniteSubsetsOf
<1>2. IsWellFoundedOn(R, FiniteSubsetsOf(Nat))
  BY FS_StrictSubsetOrderingWellFounded
<1> HIDE DEF R
<1>3. PICK X \in F : \A Y \in F : <<Y, X>> \notin R
  BY <1>1, <1>2, WFMin
<1>4. PICK n \in T : X = 0..n - 1
  BY <1>3
<1>5. ASSUME NEW m \in T, ~(n <= m) PROVE FALSE
  <2>1. m \in Nat /\ n \in Nat /\ m < n
    BY <1>5
  <2>2. 0..m - 1 \subseteq 0..n - 1
    BY <2>1
  <2>3. n - 1 \in 0..n - 1 /\ n - 1 \notin 0..m - 1
    BY <2>1
  <2>4. 0..m - 1 # 0..n - 1
    BY <2>3
  <2>5. 0..m - 1 \in SUBSET Nat /\ 0..n - 1 \in SUBSET Nat
    BY <2>1
  <2>6. <<0..m - 1, X>> \in R
    BY <1>4, <2>2, <2>4, <2>5 DEF R, StrictSubsetOrdering
  <2> QED BY <1>3, <2>6
<1> QED BY <1>5

\* What holds of 0 and of the next of whatever it holds of holds up to n.
LEMMA Climb ==
    ASSUME NEW n \in Nat, NEW U, 0 \in U, \A i \in 0..n - 1 : i \in U => i + 1 \in U
    PROVE  0..n \subseteq U
<1> SUFFICES ASSUME NEW k \in 0..n, k \notin U PROVE FALSE
  OBVIOUS
<1> DEFINE T == {i \in 0..n : i \notin U}
<1>1. T \in SUBSET Nat /\ T # {}
  OBVIOUS
<1>2. PICK m \in T : \A i \in T : m <= i
  BY <1>1, LeastOf
<1>3. m # 0 /\ m \in 0..n /\ m \notin U
  BY <1>2
<1>4. m - 1 \in 0..n - 1 /\ ~(m <= m - 1) /\ m - 1 \in 0..n /\ (m - 1) + 1 = m
  BY <1>3
<1>5. m - 1 \in U
  BY <1>2, <1>4
<1> QED BY <1>3, <1>4, <1>5

\* h goes from a in n steps of g.
Computes(h, n, S, a, g) ==
    h \in [0..n -> S] /\ h[0] = a /\ \A i \in 1..n : h[i] = g[<<h[i - 1], i>>]

\* A function that is computed from left to right exists.
LEMMA StepsExist ==
    ASSUME NEW n \in Nat, NEW S, NEW a \in S, NEW g \in [S \X (1..n) -> S]
    PROVE  \E h : Computes(h, n, S, a, g)
<1> DEFINE P(k) == \E h \in [0..k -> S] : h[0] = a /\ \A i \in 1..k : h[i] = g[<<h[i - 1], i>>]
           U == {k \in 0..n : P(k)}
<1>1. P(0)
  <2>1. [i \in 0..0 |-> a] \in [0..0 -> S] /\ [i \in 0..0 |-> a][0] = a /\ \A i \in 1..0 : FALSE
    OBVIOUS
  <2> QED BY <2>1
<1>2. ASSUME NEW k \in 0..n - 1, P(k) PROVE P(k + 1)
  <2>1. PICK h \in [0..k -> S] : h[0] = a /\ \A i \in 1..k : h[i] = g[<<h[i - 1], i>>]
    BY <1>2
  <2>2. k \in Nat /\ k \in 0..k /\ k + 1 \in 1..n /\ h[k] \in S
    BY <2>1
  <2>3. PICK b : b = g[<<h[k], k + 1>>] /\ b \in S
    <3>1. <<h[k], k + 1>> \in S \X (1..n)
      BY <2>2
    <3> QED BY <3>1
  <2> DEFINE f == [i \in 0..k + 1 |-> IF i = k + 1 THEN b ELSE h[i]]
  <2>4. \A i \in 0..k : i \in 0..k + 1 /\ f[i] = h[i] /\ h[i] \in S
    BY <2>1, <2>2
  <2>5. f[k + 1] = b /\ f \in [0..k + 1 -> S]
    BY <2>1, <2>2, <2>3
  <2> HIDE DEF f
  <2>6. ASSUME NEW i \in 1..k + 1 PROVE f[i] = g[<<f[i - 1], i>>]
    <3>1. i - 1 \in 0..k
      BY <2>2
    <3>2. f[i - 1] = h[i - 1]
      BY <2>4, <3>1
    <3>3. CASE i = k + 1
      BY <2>2, <2>3, <2>5, <3>2, <3>3
    <3>4. CASE i # k + 1
      <4>1. i \in 1..k /\ i \in 0..k
        BY <2>2, <3>4
      <4> QED BY <2>1, <2>4, <3>2, <4>1
    <3> QED BY <3>3, <3>4
  <2>7. f[0] = a
    BY <2>1, <2>2, <2>4
  <2> QED BY <2>5, <2>6, <2>7
<1> HIDE DEF P
<1>3. 0 \in U
  BY <1>1
<1>4. \A i \in 0..n - 1 : i \in U => i + 1 \in U
  BY <1>2
<1> HIDE DEF U
<1>5. 0..n \subseteq U
  BY <1>3, <1>4, Climb
<1>6. n \in U
  BY <1>5
<1>7. P(n)
  BY <1>6 DEF U
<1> QED BY <1>7 DEF P, Computes

\* The filter of a sequence, step by step.
LEMMA OnlySteps ==
    ASSUME NEW T, NEW s \in Seq(T), NEW S
    PROVE  \E u \in [0..Len(s) -> Seq(T)] :
              /\ u[0] = <<>>
              /\ \A i \in 1..Len(s) : u[i] = IF s[i] \in S THEN Append(u[i - 1], s[i]) ELSE u[i - 1]
              /\ Search!Only(s, S) = u[Len(s)]
<1> DEFINE F(f) == [i \in 0..Len(s) |-> IF i = 0 THEN <<>> ELSE IF s[i] \in S THEN Append(f[i - 1], s[i]) ELSE f[i - 1]]
<1>1. Len(s) \in Nat /\ \A i \in 1..Len(s) : s[i] \in T
  OBVIOUS
<1>2. PICK Q : Q = Seq(T)
  OBVIOUS
<1>3. <<>> \in Q /\ \A x \in Q, e \in T : Append(x, e) \in Q
  BY <1>2
<1> DEFINE g == [p \in Q \X (1..Len(s)) |-> IF s[p[2]] \in S THEN Append(p[1], s[p[2]]) ELSE p[1]]
<1>15. \A x \in Q, i \in 1..Len(s) : g[<<x, i>>] = IF s[i] \in S THEN Append(x, s[i]) ELSE x
  OBVIOUS
<1> HIDE DEF g
<1>16. g \in [Q \X (1..Len(s)) -> Q]
  BY <1>1, <1>3 DEF g
<1>17. PICK n, e, k : n = Len(s) /\ e = <<>> /\ k = g
  OBVIOUS
<1>18. n \in Nat /\ e \in Q /\ k \in [Q \X (1..n) -> Q]
  BY <1>1, <1>3, <1>16, <1>17
<1>19. \E h : Computes(h, n, Q, e, k)
  BY <1>18, StepsExist
<1>4. PICK h \in [0..Len(s) -> Q] : h[0] = <<>> /\ \A i \in 1..Len(s) : h[i] = g[<<h[i - 1], i>>]
  BY <1>17, <1>19 DEF Computes
<1>5. ASSUME NEW i \in 0..Len(s)
      PROVE h[i] = IF i = 0 THEN <<>> ELSE IF s[i] \in S THEN Append(h[i - 1], s[i]) ELSE h[i - 1]
  <2>1. CASE i = 0
    BY <1>4, <2>1
  <2>2. CASE i # 0
    <3>1. i \in 1..Len(s) /\ i - 1 \in 0..Len(s)
      BY <1>1, <2>2
    <3>2. h[i - 1] \in Q
      BY <3>1
    <3> QED BY <1>15, <1>4, <2>2, <3>1, <3>2
  <2> QED BY <2>1, <2>2
<1>6. h = F(h)
  BY <1>5
<1>7. PICK u : u = CHOOSE f : f = F(f)
  OBVIOUS
<1>8. u = F(u)
  BY <1>6, <1>7
<1>9. Search!Only(s, S) = u[Len(s)]
  BY <1>7 DEF Search!Only
<1>10. u[0] = <<>>
  BY <1>1, <1>8
<1>11. \A i \in 1..Len(s) : u[i] = IF s[i] \in S THEN Append(u[i - 1], s[i]) ELSE u[i - 1]
  <2> SUFFICES ASSUME NEW i \in 1..Len(s) PROVE u[i] = IF s[i] \in S THEN Append(u[i - 1], s[i]) ELSE u[i - 1]
    OBVIOUS
  <2>1. i \in 0..Len(s) /\ i # 0
    BY <1>1
  <2> QED BY <1>8, <2>1
<1> DEFINE U == {i \in 0..Len(s) : u[i] \in Q}
<1>12. 0..Len(s) \subseteq U
  <2>1. 0 \in U
    BY <1>1, <1>3, <1>10
  <2>2. ASSUME NEW i \in 0..Len(s) - 1, i \in U PROVE i + 1 \in U
    <3>1. i + 1 \in 1..Len(s) /\ (i + 1) - 1 = i /\ u[i] \in Q /\ s[i + 1] \in T /\ i + 1 \in 0..Len(s)
      BY <1>1, <2>2
    <3>2. u[i + 1] \in Q
      BY <1>3, <1>11, <3>1
    <3> QED BY <3>1, <3>2
  <2> HIDE DEF U
  <2> QED BY <1>1, <2>1, <2>2, Climb
<1>13. DOMAIN u = 0..Len(s) /\ u = [i \in DOMAIN u |-> u[i]]
  BY <1>8
<1>14. u \in [0..Len(s) -> Seq(T)]
  BY <1>2, <1>12, <1>13
<1> QED BY <1>9, <1>10, <1>11, <1>14

\* A sum, step by step.
LEMMA TotalSteps ==
    ASSUME NEW s \in Seq(Nat)
    PROVE  \E u \in [0..Len(s) -> Nat] :
              /\ u[0] = 0
              /\ \A i \in 1..Len(s) : u[i] = u[i - 1] + s[i]
              /\ Search!Total(s) = u[Len(s)]
<1> DEFINE F(f) == [i \in 0..Len(s) |-> IF i = 0 THEN 0 ELSE f[i - 1] + s[i]]
           g == [p \in Nat \X (1..Len(s)) |-> p[1] + s[p[2]]]
<1>1. Len(s) \in Nat /\ \A i \in 1..Len(s) : s[i] \in Nat
  OBVIOUS
<1>2. \A x \in Nat, i \in 1..Len(s) : g[<<x, i>>] = x + s[i]
  OBVIOUS
<1>3. g \in [Nat \X (1..Len(s)) -> Nat]
  BY <1>1
<1> HIDE DEF g
<1>4. \E h : Computes(h, Len(s), Nat, 0, g)
  BY <1>1, <1>3, StepsExist
<1>5. PICK h \in [0..Len(s) -> Nat] : h[0] = 0 /\ \A i \in 1..Len(s) : h[i] = g[<<h[i - 1], i>>]
  BY <1>4 DEF Computes
<1>6. ASSUME NEW i \in 0..Len(s) PROVE h[i] = IF i = 0 THEN 0 ELSE h[i - 1] + s[i]
  <2>1. CASE i = 0
    BY <1>5, <2>1
  <2>2. CASE i # 0
    <3>1. i \in 1..Len(s) /\ i - 1 \in 0..Len(s)
      BY <1>1, <2>2
    <3>2. h[i - 1] \in Nat
      BY <3>1
    <3> QED BY <1>2, <1>5, <2>2, <3>1, <3>2
  <2> QED BY <2>1, <2>2
<1>7. h = F(h)
  BY <1>6
<1>8. PICK u : u = CHOOSE f : f = F(f)
  OBVIOUS
<1>9. u = F(u)
  BY <1>7, <1>8
<1>10. Search!Total(s) = u[Len(s)]
  BY <1>8 DEF Search!Total
<1>11. u[0] = 0
  BY <1>1, <1>9
<1>12. \A i \in 1..Len(s) : u[i] = u[i - 1] + s[i]
  <2> SUFFICES ASSUME NEW i \in 1..Len(s) PROVE u[i] = u[i - 1] + s[i]
    OBVIOUS
  <2>1. i \in 0..Len(s) /\ i # 0
    BY <1>1
  <2> QED BY <1>9, <2>1
<1> DEFINE U == {i \in 0..Len(s) : u[i] \in Nat}
<1>13. 0..Len(s) \subseteq U
  <2>1. 0 \in U
    BY <1>1, <1>11
  <2>2. ASSUME NEW i \in 0..Len(s) - 1, i \in U PROVE i + 1 \in U
    <3>1. i + 1 \in 1..Len(s) /\ (i + 1) - 1 = i /\ u[i] \in Nat /\ s[i + 1] \in Nat /\ i + 1 \in 0..Len(s)
      BY <1>1, <2>2
    <3>2. u[i + 1] \in Nat
      BY <1>12, <3>1
    <3> QED BY <3>1, <3>2
  <2> HIDE DEF U
  <2> QED BY <1>1, <2>1, <2>2, Climb
<1>14. DOMAIN u = 0..Len(s) /\ u = [i \in DOMAIN u |-> u[i]]
  BY <1>9
<1>15. u \in [0..Len(s) -> Nat]
  BY <1>13, <1>14
<1> QED BY <1>10, <1>11, <1>12, <1>15

\* A sum of numbers is a number.
LEMMA TotalIs == ASSUME NEW s \in Seq(Nat) PROVE Search!Total(s) \in Nat
  BY TotalSteps

\* The sum of greater numbers is no less.
LEMMA TotalGrows ==
    ASSUME NEW s \in Seq(Nat), NEW t \in Seq(Nat), Len(s) = Len(t), \A i \in 1..Len(s) : t[i] <= s[i]
    PROVE  Search!Total(t) <= Search!Total(s)
<1>1. PICK n \in Nat : n = Len(s)
  OBVIOUS
<1>2. PICK u \in [0..n -> Nat] : u[0] = 0 /\ (\A i \in 1..n : u[i] = u[i - 1] + s[i]) /\ Search!Total(s) = u[n]
  BY <1>1, TotalSteps
<1>3. PICK v \in [0..n -> Nat] : v[0] = 0 /\ (\A i \in 1..n : v[i] = v[i - 1] + t[i]) /\ Search!Total(t) = v[n]
  BY <1>1, TotalSteps
<1> DEFINE U == {i \in 0..n : v[i] <= u[i]}
<1>4. 0 \in U
  BY <1>2, <1>3
<1>5. ASSUME NEW i \in 0..n - 1, i \in U PROVE i + 1 \in U
  <2>1. i + 1 \in 1..n /\ (i + 1) - 1 = i /\ v[i] <= u[i] /\ i \in 0..n /\ i + 1 \in 0..n
    BY <1>5
  <2>2. u[i] \in Nat /\ v[i] \in Nat /\ s[i + 1] \in Nat /\ t[i + 1] \in Nat /\ t[i + 1] <= s[i + 1]
    BY <1>1, <2>1
  <2>3. u[i + 1] = u[i] + s[i + 1] /\ v[i + 1] = v[i] + t[i + 1]
    BY <1>2, <1>3, <2>1
  <2>4. v[i + 1] <= u[i + 1]
    <3>1. \A a, b, c, d \in Nat : a <= b /\ c <= d => a + c <= b + d
      OBVIOUS
    <3>2. v[i] + t[i + 1] <= u[i] + s[i + 1]
      BY <2>1, <2>2, <3>1
    <3> QED BY <2>3, <3>2
  <2> QED BY <2>1, <2>4
<1> HIDE DEF U
<1>6. 0..n \subseteq U
  BY <1>4, <1>5, Climb
<1>7. n \in U
  BY <1>6
<1> QED BY <1>2, <1>3, <1>7 DEF U

\* The filter keeps the members of the set and no others, and the whole of a
\* sequence of such members.
LEMMA OnlyIs ==
    ASSUME NEW T, NEW s \in Seq(T), NEW S
    PROVE  /\ Search!Only(s, S) \in Seq(T)
           /\ Search!Elements(Search!Only(s, S)) = Search!Elements(s) \cap S
           /\ (\A i \in 1..Len(s) : s[i] \in S) => Len(Search!Only(s, S)) = Len(s)
<1>1. PICK n \in Nat : n = Len(s) /\ \A i \in 1..n : s[i] \in T
  OBVIOUS
<1>10. PICK u \in [0..Len(s) -> Seq(T)] :
         /\ u[0] = <<>>
         /\ \A i \in 1..Len(s) : u[i] = IF s[i] \in S THEN Append(u[i - 1], s[i]) ELSE u[i - 1]
         /\ Search!Only(s, S) = u[Len(s)]
  BY OnlySteps
<1>2. /\ u \in [0..n -> Seq(T)] /\ u[0] = <<>>
      /\ \A i \in 1..n : u[i] = IF s[i] \in S THEN Append(u[i - 1], s[i]) ELSE u[i - 1]
      /\ Search!Only(s, S) = u[n]
  BY <1>1, <1>10
<1> DEFINE E(q) == {q[j] : j \in 1..Len(q)}
           P(i) == /\ E(u[i]) = {s[j] : j \in 1..i} \cap S
                   /\ (\A j \in 1..i : s[j] \in S) => Len(u[i]) = i
           U == {i \in 0..n : P(i)}
<1>3. \A x \in Seq(T), e \in T : E(Append(x, e)) = E(x) \cup {e} /\ Len(Append(x, e)) = Len(x) + 1
  <2> SUFFICES ASSUME NEW x \in Seq(T), NEW e \in T
               PROVE  E(Append(x, e)) = E(x) \cup {e} /\ Len(Append(x, e)) = Len(x) + 1
    OBVIOUS
  <2>1. PICK y : y = Append(x, e)
    OBVIOUS
  <2>2. Len(x) \in Nat /\ Len(y) = Len(x) + 1 /\ y[Len(x) + 1] = e /\ \A j \in 1..Len(x) : y[j] = x[j]
    BY <2>1
  <2>3. E(y) = E(x) \cup {e}
    <3>1. ASSUME NEW z \in E(y) PROVE z \in E(x) \cup {e}
      <4>1. PICK j \in 1..Len(y) : z = y[j]
        OBVIOUS
      <4>2. j \in 1..Len(x) \/ j = Len(x) + 1
        BY <2>2
      <4> QED BY <2>2, <4>1, <4>2
    <3>2. ASSUME NEW j \in 1..Len(x) PROVE x[j] \in E(y)
      <4>1. j \in 1..Len(y) /\ y[j] = x[j]
        BY <2>2
      <4> QED BY <4>1
    <3>3. e \in E(y)
      <4>1. Len(x) + 1 \in 1..Len(y)
        BY <2>2
      <4> QED BY <2>2, <4>1
    <3> QED BY <3>1, <3>2, <3>3
  <2> QED BY <2>1, <2>2, <2>3
<1>4. E(<<>>) = {} /\ Len(<<>>) = 0
  OBVIOUS
<1> HIDE DEF E
<1>5. 0 \in U
  BY <1>2, <1>4
<1>6. ASSUME NEW i \in 0..n - 1, i \in U PROVE i + 1 \in U
  <2>1. i + 1 \in 1..n /\ (i + 1) - 1 = i /\ i \in 0..n /\ i + 1 \in 0..n /\ u[i] \in Seq(T) /\ s[i + 1] \in T
    BY <1>1
  <2>2. PICK x, y, e : x = u[i] /\ y = u[i + 1] /\ e = s[i + 1]
    OBVIOUS
  <2>3. y = IF e \in S THEN Append(x, e) ELSE x
    BY <1>2, <2>1, <2>2
  <2>4. E(x) = {s[j] : j \in 1..i} \cap S /\ ((\A j \in 1..i : s[j] \in S) => Len(x) = i)
    BY <1>6, <2>2
  <2>5. {s[j] : j \in 1..i + 1} = {s[j] : j \in 1..i} \cup {e}
    <3>1. \A j \in 1..i + 1 : j \in 1..i \/ j = i + 1
      BY <2>1
    <3>2. i + 1 \in 1..i + 1 /\ \A j \in 1..i : j \in 1..i + 1
      BY <2>1
    <3> QED BY <2>2, <3>1, <3>2
  <2>6. E(y) = {s[j] : j \in 1..i + 1} \cap S
    BY <1>3, <2>1, <2>2, <2>3, <2>4, <2>5
  <2>7. ASSUME \A j \in 1..i + 1 : s[j] \in S PROVE Len(y) = i + 1
    <3>1. \A j \in 1..i : j \in 1..i + 1
      BY <2>1
    <3>2. i + 1 \in 1..i + 1
      BY <2>1
    <3> QED BY <1>3, <2>1, <2>2, <2>3, <2>4, <2>7, <3>1, <3>2
  <2>8. P(i + 1)
    BY <2>2, <2>6, <2>7
  <2> QED BY <2>1, <2>8
<1> HIDE DEF U, P
<1>7. 0..n \subseteq U
  BY <1>5, <1>6, Climb
<1>8. P(n)
  BY <1>7 DEF U
<1>9. Search!Elements(s) = {s[j] : j \in 1..n} /\ Search!Elements(u[n]) = E(u[n])
  BY <1>1 DEF Search!Elements, E
<1> QED BY <1>1, <1>2, <1>8, <1>9 DEF P

\* The first of a sequence.
LEMMA TopIs ==
    ASSUME NEW T, NEW s \in Seq(T), NEW n \in Nat
    PROVE  /\ Search!Top(s, n) \in Seq(T)
           /\ Len(Search!Top(s, n)) = IF Len(s) <= n THEN Len(s) ELSE n
           /\ Len(Search!Top(s, n)) <= Len(s)
           /\ \A i \in 1..Len(Search!Top(s, n)) : Search!Top(s, n)[i] = s[i]
           /\ Len(s) <= n => Search!Top(s, n) = s
           /\ Search!Elements(Search!Top(s, n)) \subseteq Search!Elements(s)
<1>1. Len(s) \in Nat
  OBVIOUS
<1>2. CASE Len(s) <= n
  BY <1>1, <1>2 DEF Search!Top
<1>3. CASE ~(Len(s) <= n)
  <2>1. PICK r : r = SubSeq(s, 1, n)
    OBVIOUS
  <2>2. r \in Seq(T) /\ Len(r) = n /\ \A i \in 1..n : r[i] = s[i]
    BY <1>1, <1>3, <2>1
  <2>3. \A i \in 1..n : i \in 1..Len(s)
    BY <1>1, <1>3
  <2>4. Search!Elements(r) \subseteq Search!Elements(s)
    BY <2>2, <2>3 DEF Search!Elements
  <2>5. Search!Top(s, n) = r /\ n <= Len(s)
    BY <1>1, <1>3, <2>1 DEF Search!Top
  <2> QED BY <1>3, <2>2, <2>4, <2>5
<1> QED BY <1>2, <1>3

\* The size of a set is the same to the module of the search.
LEMMA SameSize == \A S : Search!Cardinality(S) = Cardinality(S)
  BY DEF Search!Cardinality, Cardinality

Distinct(s) == \A i, j \in 1..Len(s) : s[i] = s[j] => i = j

\* Where an element of a sequence without repetitions stands.
LEMMA PositionIs ==
    ASSUME NEW s, Distinct(s), NEW i \in 1..Len(s)
    PROVE  Search!Place(s, s[i]) = i
<1>1. PICK p : p = Search!Place(s, s[i])
  OBVIOUS
<1>2. p = CHOOSE j \in 1..Len(s) : s[j] = s[i]
  BY <1>1 DEF Search!Place
<1>3. p \in 1..Len(s) /\ s[p] = s[i]
  BY <1>2
<1> QED BY <1>1, <1>3 DEF Distinct

\* An element of a sequence stands somewhere.
LEMMA PositionOf ==
    ASSUME NEW s, NEW c \in Search!Elements(s)
    PROVE  Search!Place(s, c) \in 1..Len(s) /\ s[Search!Place(s, c)] = c
<1>1. \E i \in 1..Len(s) : s[i] = c
  BY DEF Search!Elements
<1> QED BY <1>1 DEF Search!Place

\* An order of a finite set has all of its members.
LEMMA OrdersAre ==
    ASSUME NEW S, IsFiniteSet(S), NEW s \in Search!Orders(S)
    PROVE  s \in Seq(S) /\ Search!Elements(s) = S /\ Len(s) = Cardinality(S) /\ Cardinality(S) \in Nat
<1>1. Cardinality(S) \in Nat
  BY FS_CardinalityType
<1>2. PICK m \in 0..Cardinality(S) : s \in {q \in [1..m -> S] : \A i, j \in 1..m : q[i] = q[j] => i = j}
  BY SameSize DEF Search!Orders, Search!Lists
<1>3. m \in Nat /\ s \in [1..m -> S] /\ (\A i, j \in 1..m : s[i] = s[j] => i = j)
  BY <1>1, <1>2
<1>4. s \in Seq(S) /\ Len(s) = m
  BY <1>3
<1>5. m = Cardinality(S)
  BY <1>4, SameSize DEF Search!Orders
<1>6. s \in Injection(1..m, S)
  BY <1>3 DEF Injection, IsInjective
<1>7. Cardinality(1..m) = m
  BY <1>3, FS_Interval
<1>8. s \in Surjection(1..m, S)
  BY <1>5, <1>6, <1>7, FS_Injection
<1>9. Search!Elements(s) = S
  BY <1>3, <1>4, <1>8 DEF Surjection, Search!Elements
<1> QED BY <1>1, <1>4, <1>5, <1>9

\* A strict total order on a set.
IsOrder(order, S) ==
    /\ \A c \in S : <<c, c>> \notin order
    /\ \A c, d, e \in S : <<c, d>> \in order /\ <<d, e>> \in order => <<c, e>> \in order
    /\ \A c, d \in S : c = d \/ <<c, d>> \in order \/ <<d, c>> \in order

\* Sorting a finite set by one puts its members in that order, each once.
LEMMA SortedIs ==
    ASSUME NEW S, IsFiniteSet(S), NEW order, IsOrder(order, S)
    PROVE  /\ Search!Sorted(S, order) \in Seq(S)
           /\ Len(Search!Sorted(S, order)) = Cardinality(S)
           /\ Distinct(Search!Sorted(S, order))
           /\ Search!Elements(Search!Sorted(S, order)) = S
           /\ \A i, j \in 1..Len(Search!Sorted(S, order)) :
                 <<Search!Sorted(S, order)[i], Search!Sorted(S, order)[j]>> \in order => i < j
<1>1. PICK n \in Nat : n = Cardinality(S)
  BY FS_CardinalityType
<1> DEFINE B(c) == {d \in S : <<d, c>> \in order}
           r(c) == Cardinality(B(c))
<1>2. \A c \in S : IsFiniteSet(B(c)) /\ r(c) \in Nat
  <2> SUFFICES ASSUME NEW c \in S PROVE IsFiniteSet(B(c)) /\ r(c) \in Nat
    OBVIOUS
  <2>1. B(c) \in SUBSET S
    OBVIOUS
  <2> HIDE DEF B
  <2>2. IsFiniteSet(B(c))
    BY <2>1, FS_Subset
  <2> QED BY <2>2, FS_CardinalityType
<1>3. ASSUME NEW c \in S, NEW X, IsFiniteSet(X), B(c) \subseteq X, c \in X PROVE r(c) < Cardinality(X)
  <2>1. c \notin B(c)
    BY DEF IsOrder
  <2>2. B(c) \cup {c} \in SUBSET X
    BY <1>3
  <2> HIDE DEF B
  <2>3. Cardinality(B(c) \cup {c}) = r(c) + 1
    BY <1>2, <2>1, FS_AddElement
  <2>4. Cardinality(B(c) \cup {c}) <= Cardinality(X) /\ Cardinality(X) \in Nat
    BY <1>3, <2>2, FS_Subset, FS_CardinalityType
  <2> QED BY <1>2, <2>3, <2>4
<1>4. \A c \in S : r(c) \in 0..n - 1
  <2> SUFFICES ASSUME NEW c \in S PROVE r(c) \in 0..n - 1
    OBVIOUS
  <2>1. B(c) \subseteq S
    OBVIOUS
  <2>2. r(c) < n
    BY <1>1, <1>3, <2>1
  <2> QED BY <1>1, <1>2, <2>2
<1>5. ASSUME NEW c \in S, NEW d \in S, <<c, d>> \in order PROVE r(c) < r(d)
  <2>1. B(c) \subseteq B(d)
    BY <1>5 DEF IsOrder
  <2>2. c \in B(d)
    BY <1>5
  <2>3. IsFiniteSet(B(d))
    BY <1>2
  <2> HIDE DEF B
  <2> QED BY <1>3, <2>1, <2>2, <2>3
<1> DEFINE f == [c \in S |-> r(c)]
<1> HIDE DEF r
<1>6. f \in Injection(S, 0..n - 1)
  <2>1. f \in [S -> 0..n - 1]
    BY <1>4
  <2>2. \A c, d \in S : f[c] = f[d] => c = d
    <3> SUFFICES ASSUME NEW c \in S, NEW d \in S, r(c) = r(d), c # d PROVE FALSE
      OBVIOUS
    <3>1. <<c, d>> \in order \/ <<d, c>> \in order
      BY DEF IsOrder
    <3>2. r(c) \in Nat /\ r(d) \in Nat
      BY <1>4
    <3> QED BY <1>5, <3>1, <3>2
  <2> HIDE DEF f
  <2> QED BY <2>1, <2>2 DEF Injection, IsInjective
<1>7. f \in Surjection(S, 0..n - 1)
  <2>1. IsFiniteSet(0..n - 1) /\ Cardinality(0..n - 1) = n
    <3>1. 0 \in Int /\ n - 1 \in Int /\ (0 > n - 1 => n = 0) /\ n - 1 - 0 + 1 = n
      BY <1>1
    <3> QED BY <3>1, FS_Interval
  <2> HIDE DEF f
  <2> QED BY <1>1, <1>6, <2>1, FS_Injection
<1>8. \A i \in 1..n : \E c \in S : r(c) = i - 1
  <2> SUFFICES ASSUME NEW i \in 1..n PROVE \E c \in S : r(c) = i - 1
    OBVIOUS
  <2>1. i - 1 \in 0..n - 1
    OBVIOUS
  <2>2. \E c \in S : f[c] = i - 1
    BY <1>7, <2>1 DEF Surjection
  <2> QED BY <2>2
<1>9. PICK s : s = Search!Sorted(S, order)
  OBVIOUS
<1>10. s = [i \in 1..n |-> CHOOSE c \in S : Search!Cardinality({d \in S : <<d, c>> \in order}) = i - 1]
  BY <1>1, <1>9, SameSize DEF Search!Sorted
<1>19. \A c : Search!Cardinality({d \in S : <<d, c>> \in order}) = r(c)
  BY SameSize DEF r
<1>11. \A i \in 1..n : s[i] \in S /\ r(s[i]) = i - 1
  <2> SUFFICES ASSUME NEW i \in 1..n PROVE s[i] \in S /\ r(s[i]) = i - 1
    OBVIOUS
  <2>1. \E c \in S : Search!Cardinality({d \in S : <<d, c>> \in order}) = i - 1
    BY <1>8, <1>19
  <2>2. s[i] = CHOOSE c \in S : Search!Cardinality({d \in S : <<d, c>> \in order}) = i - 1
    BY <1>10
  <2>3. s[i] \in S /\ Search!Cardinality({d \in S : <<d, s[i]>> \in order}) = i - 1
    BY <2>1, <2>2
  <2> QED BY <1>19, <2>3
<1>12. s \in [1..n -> S]
  BY <1>10, <1>11
<1>13. s \in Seq(S) /\ Len(s) = n
  BY <1>1, <1>12
<1>14. ASSUME NEW i \in 1..n, NEW j \in 1..n, <<s[i], s[j]>> \in order PROVE i < j
  <2>1. r(s[i]) < r(s[j])
    BY <1>5, <1>11, <1>14
  <2> QED BY <1>11, <2>1
<1>15. ASSUME NEW i \in 1..n, NEW j \in 1..n, s[i] = s[j] PROVE i = j
  <2>1. i - 1 = j - 1
    BY <1>11, <1>15
  <2> QED BY <2>1
<1>16. ASSUME NEW c \in S PROVE \E i \in 1..n : s[i] = c
  <2>1. PICK k \in 0..n - 1 : k = r(c)
    BY <1>4
  <2>2. k + 1 \in 1..n /\ (k + 1) - 1 = k
    BY <1>1
  <2>3. s[k + 1] \in S /\ r(s[k + 1]) = r(c)
    BY <1>11, <2>1, <2>2
  <2>4. f[s[k + 1]] = f[c]
    BY <2>3
  <2>5. s[k + 1] = c
    BY <1>6, <2>3, <2>4 DEF Injection, IsInjective
  <2> QED BY <2>2, <2>5
<1>17. Search!Elements(s) = S
  BY <1>11, <1>13, <1>16 DEF Search!Elements
<1>18. Distinct(s)
  BY <1>13, <1>15 DEF Distinct
<1> QED BY <1>1, <1>9, <1>13, <1>14, <1>17, <1>18

\* The deduplication of a sequence, step by step.
LEMMA DeduplicatedSteps ==
    ASSUME NEW T, NEW s \in Seq(T)
    PROVE  \E u \in [0..Len(s) -> Seq(T)] :
              /\ u[0] = <<>>
              /\ \A i \in 1..Len(s) :
                    u[i] = IF Search!Duplicate(u[i - 1], s[i]) THEN u[i - 1] ELSE Append(u[i - 1], s[i])
              /\ Search!Deduplicated(s) = u[Len(s)]
<1> DEFINE F(f) == [i \in 0..Len(s) |->
                       IF i = 0 THEN <<>>
                       ELSE IF Search!Duplicate(f[i - 1], s[i]) THEN f[i - 1] ELSE Append(f[i - 1], s[i])]
<1>1. Len(s) \in Nat /\ \A i \in 1..Len(s) : s[i] \in T
  OBVIOUS
<1>2. PICK Q : Q = Seq(T)
  OBVIOUS
<1>3. <<>> \in Q /\ \A x \in Q, e \in T : Append(x, e) \in Q
  BY <1>2
<1> DEFINE g == [p \in Q \X (1..Len(s)) |->
                    IF Search!Duplicate(p[1], s[p[2]]) THEN p[1] ELSE Append(p[1], s[p[2]])]
<1>4. \A x \in Q, i \in 1..Len(s) : g[<<x, i>>] = IF Search!Duplicate(x, s[i]) THEN x ELSE Append(x, s[i])
  OBVIOUS
<1>5. g \in [Q \X (1..Len(s)) -> Q]
  BY <1>1, <1>3
<1> HIDE DEF g
<1>6. PICK n, e : n = Len(s) /\ e = <<>>
  OBVIOUS
<1>7. n \in Nat /\ e \in Q /\ g \in [Q \X (1..n) -> Q]
  BY <1>1, <1>3, <1>5, <1>6
<1>8. \E h : Computes(h, n, Q, e, g)
  BY <1>7, StepsExist
<1>9. PICK h \in [0..Len(s) -> Q] : h[0] = <<>> /\ \A i \in 1..Len(s) : h[i] = g[<<h[i - 1], i>>]
  BY <1>6, <1>8 DEF Computes
<1>10. ASSUME NEW i \in 0..Len(s)
       PROVE h[i] = IF i = 0 THEN <<>>
                    ELSE IF Search!Duplicate(h[i - 1], s[i]) THEN h[i - 1] ELSE Append(h[i - 1], s[i])
  <2>1. CASE i = 0
    BY <1>9, <2>1
  <2>2. CASE i # 0
    <3>1. i \in 1..Len(s) /\ i - 1 \in 0..Len(s)
      BY <1>1, <2>2
    <3>2. h[i - 1] \in Q
      BY <3>1
    <3> QED BY <1>4, <1>9, <2>2, <3>1, <3>2
  <2> QED BY <2>1, <2>2
<1>11. h = F(h)
  BY <1>10
<1>12. PICK u : u = CHOOSE f : f = F(f)
  OBVIOUS
<1>13. u = F(u)
  BY <1>11, <1>12
<1>14. Search!Deduplicated(s) = u[Len(s)]
  BY <1>12 DEF Search!Deduplicated
<1>15. u[0] = <<>>
  BY <1>1, <1>13
<1>16. \A i \in 1..Len(s) :
          u[i] = IF Search!Duplicate(u[i - 1], s[i]) THEN u[i - 1] ELSE Append(u[i - 1], s[i])
  <2> SUFFICES ASSUME NEW i \in 1..Len(s)
               PROVE u[i] = IF Search!Duplicate(u[i - 1], s[i]) THEN u[i - 1] ELSE Append(u[i - 1], s[i])
    OBVIOUS
  <2>1. i \in 0..Len(s) /\ i # 0
    BY <1>1
  <2> QED BY <1>13, <2>1
<1> DEFINE U == {i \in 0..Len(s) : u[i] \in Q}
<1>17. 0..Len(s) \subseteq U
  <2>1. 0 \in U
    BY <1>1, <1>3, <1>15
  <2>2. ASSUME NEW i \in 0..Len(s) - 1, i \in U PROVE i + 1 \in U
    <3>1. i + 1 \in 1..Len(s) /\ (i + 1) - 1 = i /\ u[i] \in Q /\ s[i + 1] \in T /\ i + 1 \in 0..Len(s)
      BY <1>1, <2>2
    <3>2. u[i + 1] \in Q
      BY <1>3, <1>16, <3>1
    <3> QED BY <3>1, <3>2
  <2> HIDE DEF U
  <2> QED BY <1>1, <2>1, <2>2, Climb
<1>18. DOMAIN u = 0..Len(s) /\ u = [i \in DOMAIN u |-> u[i]]
  BY <1>13
<1>19. u \in [0..Len(s) -> Seq(T)]
  BY <1>2, <1>17, <1>18
<1> QED BY <1>14, <1>15, <1>16, <1>19

\* x is what is kept of the first n of s: in their order, no two alike, and what is
\* dropped is like one before it that is kept.
Kept(x, s, n) ==
    /\ \A k \in 1..Len(x) : \E p \in 1..n : s[p] = x[k]
    /\ \A k, l \in 1..Len(x), p, q \in 1..n : k < l /\ s[p] = x[k] /\ s[q] = x[l] => p < q
    /\ \A k, l \in 1..Len(x) : k < l => <<x[k], x[l]>> \notin Alike
    /\ \A p \in 1..n :
          \/ \E k \in 1..Len(x) : x[k] = s[p]
          \/ \E k \in 1..Len(x), q \in 1..n : q < p /\ x[k] = s[q] /\ <<s[q], s[p]>> \in Alike

\* What makes a sequence the kept part of another.
LEMMA KeptIs ==
    ASSUME NEW x, NEW s, NEW m, NEW n, Len(x) = m,
           \A k \in 1..m : \E p \in 1..n : s[p] = x[k],
           \A k, l \in 1..m, p, q \in 1..n : k < l /\ s[p] = x[k] /\ s[q] = x[l] => p < q,
           \A k, l \in 1..m : k < l => <<x[k], x[l]>> \notin Alike,
           \A p \in 1..n :
              \/ \E k \in 1..m : x[k] = s[p]
              \/ \E k \in 1..m, q \in 1..n : q < p /\ x[k] = s[q] /\ <<s[q], s[p]>> \in Alike
    PROVE  Kept(x, s, n)
  BY DEF Kept

\* The next element keeps that so, whether it is kept or dropped.
LEMMA KeptNext ==
    ASSUME NEW T, NEW s \in Seq(T), Distinct(s), NEW i \in 0..Len(s) - 1, NEW x \in Seq(T), Kept(x, s, i),
           NEW y, y = IF Search!Duplicate(x, s[i + 1]) THEN x ELSE Append(x, s[i + 1])
    PROVE  Kept(y, s, i + 1)
<1>1. i \in Nat /\ i + 1 \in 1..Len(s) /\ i + 1 \in 1..i + 1 /\ Len(x) \in Nat
  OBVIOUS
<1>2. \A p \in 1..i + 1 : p \in 1..i \/ p = i + 1
  BY <1>1
<1>3. \A p \in 1..i : p \in 1..i + 1 /\ p < i + 1
  BY <1>1
<1>4. \A p, q \in 1..i + 1 : s[p] = s[q] => p = q
  <2>1. \A p \in 1..i + 1 : p \in 1..Len(s)
    BY <1>1
  <2> QED BY <2>1 DEF Distinct
<1>5. CASE Search!Duplicate(x, s[i + 1])
  <2>1. y = x
    BY <1>5
  <2>2. PICK k \in 1..Len(x) : <<x[k], s[i + 1]>> \in Alike
    BY <1>5 DEF Search!Duplicate
  <2>3. PICK q \in 1..i : s[q] = x[k]
    BY DEF Kept
  <2>4. \A j \in 1..Len(x) : \E p \in 1..i + 1 : s[p] = x[j]
    BY <1>3 DEF Kept
  <2>5. ASSUME NEW j \in 1..Len(x), NEW l \in 1..Len(x), NEW p \in 1..i + 1, NEW r \in 1..i + 1,
               j < l, s[p] = x[j], s[r] = x[l]
        PROVE  p < r
    <3>1. PICK a \in 1..i : s[a] = x[j]
      BY DEF Kept
    <3>2. PICK b \in 1..i : s[b] = x[l]
      BY DEF Kept
    <3>3. a = p /\ b = r
      BY <1>3, <1>4, <2>5, <3>1, <3>2
    <3>4. a < b
      BY <2>5, <3>1, <3>2 DEF Kept
    <3> QED BY <3>3, <3>4
  <2>6. ASSUME NEW p \in 1..i + 1
        PROVE  \/ \E j \in 1..Len(x) : x[j] = s[p]
               \/ \E j \in 1..Len(x), r \in 1..i + 1 : r < p /\ x[j] = s[r] /\ <<s[r], s[p]>> \in Alike
    <3>1. CASE p = i + 1
      BY <1>3, <2>2, <2>3, <3>1
    <3>2. CASE p \in 1..i
      BY <1>3, <3>2 DEF Kept
    <3> QED BY <1>2, <3>1, <3>2
  <2>7. \A j, l \in 1..Len(x) : j < l => <<x[j], x[l]>> \notin Alike
    BY DEF Kept
  <2>8. Kept(x, s, i + 1)
    <3>1. \A j, l \in 1..Len(x), p, r \in 1..i + 1 : j < l /\ s[p] = x[j] /\ s[r] = x[l] => p < r
      BY <2>5
    <3>2. \A p \in 1..i + 1 :
             \/ \E j \in 1..Len(x) : x[j] = s[p]
             \/ \E j \in 1..Len(x), r \in 1..i + 1 : r < p /\ x[j] = s[r] /\ <<s[r], s[p]>> \in Alike
      BY <2>6
    <3> QED BY ONLY <2>4, <2>7, <3>1, <3>2 DEF Kept
  <2> QED BY <2>1, <2>8
<1>6. CASE ~Search!Duplicate(x, s[i + 1])
  <2>1. PICK n \in Nat : n = Len(x)
    BY <1>1
  <2>2. s[i + 1] \in T /\ y = Append(x, s[i + 1])
    BY <1>1, <1>6
  <2>3. Len(y) = n + 1 /\ y[n + 1] = s[i + 1] /\ \A k \in 1..n : y[k] = x[k]
    BY <2>1, <2>2
  <2>4. \A k \in 1..n + 1 : k \in 1..n \/ k = n + 1
    BY <2>1
  <2>5. \A k \in 1..n : k \in 1..n + 1 /\ k < n + 1 /\ ~(n + 1 < k) /\ ~(n + 1 < n + 1)
    BY <2>1
  <2>6. n + 1 \in 1..n + 1
    BY <2>1
  <2>7. \A k \in 1..n : <<x[k], s[i + 1]>> \notin Alike
    BY <1>6, <2>1 DEF Search!Duplicate
  <2>8. \A k \in 1..n + 1 : \E p \in 1..i + 1 : s[p] = y[k]
    BY <1>1, <1>3, <2>1, <2>3, <2>4 DEF Kept
  <2>9. ASSUME NEW k \in 1..n + 1, NEW l \in 1..n + 1, NEW p \in 1..i + 1, NEW q \in 1..i + 1,
               k < l, s[p] = y[k], s[q] = y[l]
        PROVE  p < q
    <3>1. k \in 1..n /\ s[p] = x[k]
      BY <2>3, <2>4, <2>5, <2>9
    <3>2. PICK a \in 1..i : s[a] = x[k]
      BY <2>1, <3>1 DEF Kept
    <3>3. a = p
      BY <1>3, <1>4, <3>1, <3>2
    <3>4. CASE l = n + 1
      <4>1. s[q] = s[i + 1]
        BY <2>3, <2>9, <3>4
      <4>2. q = i + 1
        BY <1>1, <1>4, <4>1
      <4> QED BY <1>3, <3>3, <4>2
    <3>5. CASE l \in 1..n
      <4>1. PICK b \in 1..i : s[b] = x[l]
        BY <2>1, <3>5 DEF Kept
      <4>2. s[q] = x[l]
        BY <2>3, <2>9, <3>5
      <4>3. b = q
        BY <1>3, <1>4, <4>1, <4>2
      <4>4. a < b
        BY <2>1, <2>9, <3>1, <3>2, <3>5, <4>1 DEF Kept
      <4> QED BY <3>3, <4>3, <4>4
    <3> QED BY <2>4, <3>4, <3>5
  <2>10. ASSUME NEW k \in 1..n + 1, NEW l \in 1..n + 1, k < l PROVE <<y[k], y[l]>> \notin Alike
    <3>1. k \in 1..n
      BY <2>4, <2>5, <2>10
    <3>2. CASE l = n + 1
      BY <2>3, <2>7, <3>1, <3>2
    <3>3. CASE l \in 1..n
      BY <2>1, <2>3, <2>10, <3>1, <3>3 DEF Kept
    <3> QED BY <2>4, <3>2, <3>3
  <2>11. ASSUME NEW p \in 1..i + 1
         PROVE  \/ \E k \in 1..n + 1 : y[k] = s[p]
                \/ \E k \in 1..n + 1, q \in 1..i + 1 : q < p /\ y[k] = s[q] /\ <<s[q], s[p]>> \in Alike
    <3>1. CASE p = i + 1
      BY <2>3, <2>6, <3>1
    <3>2. CASE p \in 1..i
      <4>1. \/ \E k \in 1..n : x[k] = s[p]
            \/ \E k \in 1..n, q \in 1..i : q < p /\ x[k] = s[q] /\ <<s[q], s[p]>> \in Alike
        BY <2>1, <3>2 DEF Kept
      <4> QED BY <1>3, <2>3, <2>5, <4>1
    <3> QED BY <1>2, <3>1, <3>2
  <2>12. \A k, l \in 1..n + 1, p, q \in 1..i + 1 : k < l /\ s[p] = y[k] /\ s[q] = y[l] => p < q
    BY <2>9
  <2>13. \A k, l \in 1..n + 1 : k < l => <<y[k], y[l]>> \notin Alike
    BY <2>10
  <2>14. \A p \in 1..i + 1 :
            \/ \E k \in 1..n + 1 : y[k] = s[p]
            \/ \E k \in 1..n + 1, q \in 1..i + 1 : q < p /\ y[k] = s[q] /\ <<s[q], s[p]>> \in Alike
    BY <2>11
  <2> QED BY ONLY <2>3, <2>8, <2>12, <2>13, <2>14, KeptIs
<1> QED BY <1>5, <1>6

\* Deduplication (deduplicate_ranked_results) returns such a sequence.
LEMMA DeduplicatedIs ==
    ASSUME NEW T, NEW s \in Seq(T), Distinct(s)
    PROVE  Search!Deduplicated(s) \in Seq(T) /\ Kept(Search!Deduplicated(s), s, Len(s))
<1>1. PICK u \in [0..Len(s) -> Seq(T)] :
         /\ u[0] = <<>>
         /\ \A i \in 1..Len(s) :
               u[i] = IF Search!Duplicate(u[i - 1], s[i]) THEN u[i - 1] ELSE Append(u[i - 1], s[i])
         /\ Search!Deduplicated(s) = u[Len(s)]
  BY DeduplicatedSteps
<1> DEFINE U == {i \in 0..Len(s) : Kept(u[i], s, i)}
<1>2. Len(s) \in Nat
  OBVIOUS
<1>3. 0 \in U
  <2>1. Len(<<>>) = 0 /\ 1..0 = {}
    OBVIOUS
  <2>2. Kept(<<>>, s, 0)
    BY <2>1 DEF Kept
  <2> QED BY <1>1, <1>2, <2>2
<1>4. ASSUME NEW i \in 0..Len(s) - 1, i \in U PROVE i + 1 \in U
  <2>1. i + 1 \in 1..Len(s) /\ (i + 1) - 1 = i /\ i \in 0..Len(s) /\ i + 1 \in 0..Len(s) /\ u[i] \in Seq(T)
    BY <1>2
  <2>2. PICK x, y : x = u[i] /\ y = u[i + 1]
    OBVIOUS
  <2>3. y = IF Search!Duplicate(x, s[i + 1]) THEN x ELSE Append(x, s[i + 1])
    BY <1>1, <2>1, <2>2
  <2>4. x \in Seq(T) /\ Kept(x, s, i)
    BY <1>4, <2>1, <2>2
  <2>5. Kept(y, s, i + 1)
    BY <2>3, <2>4, KeptNext
  <2> QED BY <2>1, <2>2, <2>5
<1> HIDE DEF U
<1>5. 0..Len(s) \subseteq U
  BY <1>2, <1>3, <1>4, Climb
<1>6. Len(s) \in U /\ u[Len(s)] \in Seq(T)
  BY <1>2, <1>5
<1> QED BY <1>1, <1>6 DEF U

\* A share of more is no greater.
LEMMA ShareShrinks ==
    ASSUME NEW a \in Nat, NEW m \in Nat \ {0}, NEW n \in Nat \ {0}, m <= n
    PROVE  a \div n \in Nat /\ a \div m \in Nat /\ a \div n <= a \div m
<1>1. PICK x \in Nat : x = a \div n /\ n * x <= a
  OBVIOUS
<1>2. PICK y \in Nat : y = a \div m /\ a < m * y + m
  OBVIOUS
<1>3. ASSUME y + 1 <= x PROVE FALSE
  <2>1. m * (y + 1) <= m * x
    BY <1>3
  <2>2. m * x <= n * x
    OBVIOUS
  <2>3. m * (y + 1) = m * y + m
    OBVIOUS
  <2> QED BY <1>1, <1>2, <2>1, <2>2, <2>3
<1> QED BY <1>1, <1>2, <1>3

\* A share is a number.
LEMMA SharesAreNumbers == \A a \in Nat, n \in Nat \ {0} : a \div n \in Nat
  BY ShareShrinks

-----------------------------------------------------------------------------
(* The retrieval: the rankings, their fusion and the context that is served.  *)

SearchSteps == {"lexical", "vectors", "code", "fuse", "answered", "failed", "context", "served", "refused"}
Ranking == [version : 1..2, found : Seq(Search!Chunks)]

SearchTyped ==
    /\ query.route \in {"LEXICAL_ONLY", "HYBRID", "CODE", "TEXT"} /\ query.top \in TopKs
    /\ index \in 1..2 /\ edits \in 0..MaxEdits /\ at \in SearchSteps
    /\ lists \in Seq(Ranking) /\ fused \in Seq(Search!Chunks) /\ answer \in Seq(Search!Chunks)
    /\ context \in [left : Seq(Search!Chunks), served : SUBSET Search!Chunks, strict : BOOLEAN]
    /\ files \in [Search!Sources -> Search!FileStates] /\ late \subseteq Search!Sources

\* How many rankings there are, and that nothing is fused before the end.
RankingsMatchStep ==
    /\ at = "lexical" => lists = <<>>
    /\ at = "vectors" => Len(lists) = 1
    /\ at = "code" => Len(lists) \in 1..2
    /\ at \in {"lexical", "vectors", "code", "fuse"} => fused = <<>> /\ answer = <<>>

\* What is answered was found.
AnswerIsFound ==
    Search!Elements(answer) \subseteq
        Search!Elements(fused) \cup UNION {Search!Elements(lists[i].found) : i \in 1..Len(lists)}

\* Who is late has changed, and nothing of it has been served.
LateIsStale ==
    /\ \A d \in late : files[d] \in {"changed", "gone"}
    /\ context.strict => \A c \in context.served : DocumentOf[c] \notin late

RetrievalInv ==
    /\ SearchTyped /\ RankingsMatchStep /\ AnswerIsFound /\ LateIsStale
    /\ Search!FusionIsMonotone /\ Search!AnswerIsDeduplicated /\ Search!FilteredSearchIsComplete

\* Chunks, documents and limits are numbers, and the chunks are finitely many.
LEMMA ChunksAreNumbers ==
    /\ Search!Chunks \subseteq Nat /\ IsFiniteSet(Search!Chunks)
    /\ \A c \in Search!Chunks : DocumentOf[c] \in Nat /\ DocumentOf[c] \in Search!Sources
    /\ TopKs \subseteq Nat /\ Scale \in Nat
  BY ServicesAssumption, FS_Union DEF ServicesAssumption, Search!Chunks, Search!Sources

\* The least of a set of numbers.
LEMMA MinIs ==
    ASSUME NEW S \in SUBSET Nat, S # {}
    PROVE  Search!Min(S) \in S /\ \A n \in S : Search!Min(S) <= n
<1>1. \E n \in S : \A m \in S : n <= m
  BY LeastOf
<1> QED BY <1>1 DEF Search!Min

\* What the rankings say of a chunk.
LEMMA FoundIs ==
    ASSUME SearchTyped
    PROVE  /\ Len(lists) \in Nat
           /\ \A i \in 1..Len(lists) : lists[i].found \in Seq(Search!Chunks)
           /\ \A c : Search!Found(c) \subseteq 1..Len(lists)
           /\ \A c : \A i \in Search!Found(c) :
                 Search!PlaceIn(i, c) \in 1..Len(lists[i].found) /\ Search!PlaceIn(i, c) \in Nat \ {0}
           /\ Search!Candidates \subseteq Search!Chunks /\ IsFiniteSet(Search!Candidates)
<1>1. Len(lists) \in Nat /\ \A i \in 1..Len(lists) : lists[i].found \in Seq(Search!Chunks)
  <2>1. Len(lists) \in Nat /\ \A i \in 1..Len(lists) : lists[i] \in Ranking
    BY DEF SearchTyped
  <2> QED BY <2>1 DEF Ranking
<1>2. \A c : Search!Found(c) \subseteq 1..Len(lists)
  BY DEF Search!Found
<1>3. ASSUME NEW c, NEW i \in Search!Found(c)
      PROVE  Search!PlaceIn(i, c) \in 1..Len(lists[i].found) /\ Search!PlaceIn(i, c) \in Nat \ {0}
  <2>1. c \in Search!Elements(lists[i].found) /\ i \in 1..Len(lists)
    BY DEF Search!Found
  <2>2. Search!PlaceIn(i, c) \in 1..Len(lists[i].found)
    BY <2>1, PositionOf DEF Search!PlaceIn
  <2>3. Len(lists[i].found) \in Nat
    BY <1>1, <2>1
  <2> QED BY <2>2, <2>3
<1>4. Search!Candidates \in SUBSET Search!Chunks
  BY DEF Search!Candidates
<1>5. IsFiniteSet(Search!Candidates)
  BY <1>4, ChunksAreNumbers, FS_Subset
<1> QED BY <1>1, <1>2, <1>3, <1>4, <1>5

ScoreTerms(c) ==
    [i \in 1..Len(lists) |-> IF i \in Search!Found(c) THEN Scale \div (Search!K + Search!PlaceIn(i, c)) ELSE 0]

\* The score of a chunk is a sum of numbers.
LEMMA ScoreIs ==
    ASSUME SearchTyped, NEW c
    PROVE  /\ ScoreTerms(c) \in Seq(Nat) /\ Len(ScoreTerms(c)) = Len(lists)
           /\ Search!Score(c) = Search!Total(ScoreTerms(c)) /\ Search!Score(c) \in Nat
<1>1. Len(lists) \in Nat /\ Scale \in Nat /\ \A i \in Search!Found(c) : Search!PlaceIn(i, c) \in Nat \ {0}
  BY FoundIs, ChunksAreNumbers
<1>2. \A i \in Search!Found(c) : Scale \div (Search!K + Search!PlaceIn(i, c)) \in Nat
  <2> SUFFICES ASSUME NEW i \in Search!Found(c) PROVE Scale \div (Search!K + Search!PlaceIn(i, c)) \in Nat
    OBVIOUS
  <2>1. Search!K + Search!PlaceIn(i, c) \in Nat \ {0}
    BY <1>1 DEF Search!K
  <2> QED BY <1>1, <2>1, ShareShrinks
<1>3. ScoreTerms(c) \in [1..Len(lists) -> Nat]
  BY <1>2 DEF ScoreTerms
<1>4. ScoreTerms(c) \in Seq(Nat) /\ Len(ScoreTerms(c)) = Len(lists)
  BY <1>1, <1>3
<1>5. Search!Score(c) = Search!Total(ScoreTerms(c))
  BY DEF Search!Score, ScoreTerms
<1> QED BY <1>4, <1>5, TotalIs

\* The best place of a chunk is one of its places, and none is better.
LEMMA BestRankIs ==
    ASSUME SearchTyped, NEW c \in Search!Candidates
    PROVE  /\ Search!BestRank(c) \in Nat
           /\ \E i \in Search!Found(c) : Search!BestRank(c) = Search!PlaceIn(i, c)
           /\ \A i \in Search!Found(c) : Search!BestRank(c) <= Search!PlaceIn(i, c)
<1> DEFINE S == {Search!PlaceIn(i, c) : i \in Search!Found(c)}
<1>1. S \in SUBSET Nat
  BY FoundIs
<1>2. S # {}
  BY DEF Search!Candidates
<1>3. Search!BestRank(c) = Search!Min(S)
  BY DEF Search!BestRank
<1>4. Search!BestRank(c) \in S /\ \A n \in S : Search!BestRank(c) <= n
  BY <1>1, <1>2, <1>3, MinIs
<1> QED BY <1>1, <1>4

\* The fused order is one: by score, then by the best place, then by number.
LEMMA FusedOrderIs == ASSUME SearchTyped PROVE IsOrder(Search!FusedOrder, Search!Candidates)
<1>1. \A c \in Search!Candidates : Search!Score(c) \in Nat /\ Search!BestRank(c) \in Nat /\ c \in Nat
  BY ScoreIs, BestRankIs, FoundIs, ChunksAreNumbers
<1>2. \A c, d \in Search!Candidates :
         <<c, d>> \in Search!FusedOrder <=>
             \/ Search!Score(c) > Search!Score(d)
             \/ Search!Score(c) = Search!Score(d) /\ Search!BestRank(c) < Search!BestRank(d)
             \/ Search!Score(c) = Search!Score(d) /\ Search!BestRank(c) = Search!BestRank(d) /\ c < d
  BY DEF Search!FusedOrder, Search!FusedBefore
<1>3. \A c \in Search!Candidates : <<c, c>> \notin Search!FusedOrder
  BY <1>1, <1>2
<1>4. \A c, d \in Search!Candidates :
         c = d \/ <<c, d>> \in Search!FusedOrder \/ <<d, c>> \in Search!FusedOrder
  <2> SUFFICES ASSUME NEW c \in Search!Candidates, NEW d \in Search!Candidates, c # d
               PROVE  <<c, d>> \in Search!FusedOrder \/ <<d, c>> \in Search!FusedOrder
    OBVIOUS
  <2>1. PICK a, b \in Nat : a = Search!Score(c) /\ b = Search!Score(d)
    BY <1>1
  <2>2. PICK k, l \in Nat : k = Search!BestRank(c) /\ l = Search!BestRank(d)
    BY <1>1
  <2>3. a > b \/ b > a \/ (a = b /\ (k < l \/ l < k)) \/ (a = b /\ k = l /\ (c < d \/ d < c))
    BY <1>1
  <2> QED BY <1>2, <2>1, <2>2, <2>3
<1>5. ASSUME NEW c \in Search!Candidates, NEW d \in Search!Candidates, NEW e \in Search!Candidates,
             <<c, d>> \in Search!FusedOrder, <<d, e>> \in Search!FusedOrder
      PROVE  <<c, e>> \in Search!FusedOrder
  BY <1>1, <1>2, <1>5
<1> QED BY <1>3, <1>4, <1>5 DEF IsOrder

\* Who stands before another wherever the other was found is before it in that order.
LEMMA DominatesMeansBefore ==
    ASSUME SearchTyped, NEW c \in Search!Candidates, NEW d \in Search!Candidates, Search!Dominates(c, d)
    PROVE  <<c, d>> \in Search!FusedOrder
<1>1. \A i \in Search!Found(d) : i \in Search!Found(c) /\ Search!PlaceIn(i, c) < Search!PlaceIn(i, d)
  BY DEF Search!Dominates
<1>2. \A i \in 1..Len(lists) : ScoreTerms(d)[i] <= ScoreTerms(c)[i]
  <2> SUFFICES ASSUME NEW i \in 1..Len(lists) PROVE ScoreTerms(d)[i] <= ScoreTerms(c)[i]
    OBVIOUS
  <2>1. CASE i \notin Search!Found(d)
    <3>1. ScoreTerms(d)[i] = 0 /\ ScoreTerms(c)[i] \in Nat
      <4>1. ScoreTerms(c) \in Seq(Nat) /\ Len(ScoreTerms(c)) = Len(lists)
        BY ScoreIs
      <4> QED BY <2>1, <4>1 DEF ScoreTerms
    <3> QED BY <3>1
  <2>2. CASE i \in Search!Found(d)
    <3>1. PICK p, q : p = Search!PlaceIn(i, c) /\ q = Search!PlaceIn(i, d)
      OBVIOUS
    <3>2. i \in Search!Found(c) /\ p \in Nat \ {0} /\ q \in Nat \ {0} /\ p < q
      BY <1>1, <2>2, <3>1, FoundIs
    <3>3. Search!K + p \in Nat \ {0} /\ Search!K + q \in Nat \ {0} /\ Search!K + p <= Search!K + q
      BY <3>2 DEF Search!K
    <3>4. Scale \div (Search!K + q) <= Scale \div (Search!K + p)
      BY <3>3, ShareShrinks, ChunksAreNumbers
    <3>5. ScoreTerms(d)[i] = Scale \div (Search!K + q) /\ ScoreTerms(c)[i] = Scale \div (Search!K + p)
      BY <2>2, <3>1, <3>2 DEF ScoreTerms
    <3> QED BY <3>4, <3>5
  <2> QED BY <2>1, <2>2
<1>3. Search!Score(d) <= Search!Score(c)
  <2>1. PICK s \in Seq(Nat), t \in Seq(Nat) : s = ScoreTerms(c) /\ t = ScoreTerms(d)
    BY ScoreIs
  <2>2. Len(s) = Len(lists) /\ Len(t) = Len(lists) /\ \A i \in 1..Len(s) : t[i] <= s[i]
    BY <1>2, <2>1, ScoreIs
  <2>3. Search!Total(t) <= Search!Total(s)
    BY <2>2, TotalGrows
  <2> QED BY <2>1, <2>3, ScoreIs
<1>4. Search!BestRank(c) < Search!BestRank(d)
  <2>1. PICK i \in Search!Found(d) : Search!BestRank(d) = Search!PlaceIn(i, d)
    BY BestRankIs
  <2>2. i \in Search!Found(c) /\ Search!PlaceIn(i, c) < Search!PlaceIn(i, d) /\ Search!BestRank(c) <= Search!PlaceIn(i, c)
    BY <1>1, <2>1, BestRankIs
  <2>3. Search!BestRank(c) \in Nat /\ Search!PlaceIn(i, c) \in Nat /\ Search!PlaceIn(i, d) \in Nat
    BY <2>1, <2>2, BestRankIs, FoundIs
  <2> QED BY <2>1, <2>2, <2>3
<1>5. Search!Score(c) \in Nat /\ Search!Score(d) \in Nat
  BY ScoreIs
<1>6. Search!FusedBefore(c, d)
  BY <1>3, <1>4, <1>5 DEF Search!FusedBefore
<1> QED BY <1>6 DEF Search!FusedOrder

\* The limits of a search are numbers.
LEMMA LimitsAre ==
    ASSUME SearchTyped
    PROVE  query.top \in Nat /\ Search!Wanted \in Nat /\ Search!FuseLimit \in Nat
<1>1. query.top \in Nat /\ FuseFloor \in Nat
  BY ServicesAssumption DEF ServicesAssumption, SearchTyped
<1>2. Search!Wanted \in Nat
  BY <1>1 DEF Search!Wanted
<1>3. PICK a, b \in Nat : a = FuseFloor /\ b = 3 * query.top
  BY <1>1
<1>4. \E x \in {a, b} : \A y \in {a, b} : x >= y
  OBVIOUS
<1>5. Search!Max({a, b}) \in Nat
  BY <1>4 DEF Search!Max
<1> QED BY <1>1, <1>2, <1>3, <1>5 DEF Search!FuseLimit

\* What a search of the vectors answers: when it is short, all that is inside the filter.
LEMMA VectorSearchIs ==
    ASSUME SearchTyped, NEW S, IsFiniteSet(S), NEW order \in Search!Orders(S)
    PROVE  /\ Search!VectorSearch(order, S) \in Seq(S)
           /\ Len(Search!VectorSearch(order, S)) < Search!Wanted =>
                 Search!Elements(Search!VectorSearch(order, S)) = {c \in S : Search!PathMatches(c)}
<1> DEFINE M == {c \in S : Search!PathMatches(c)}
<1>1. order \in Seq(S) /\ Search!Elements(order) = S /\ Len(order) = Cardinality(S) /\ Cardinality(S) \in Nat
  BY OrdersAre
<1>2. PICK w, n \in Nat : w = Search!Wanted /\ n = Search!SearchLimit(S)
  BY <1>1, LimitsAre, SameSize DEF Search!SearchLimit
<1>3. PICK t : t = Search!Top(order, n)
  OBVIOUS
<1>4. /\ t \in Seq(S) /\ Len(t) = (IF Len(order) <= n THEN Len(order) ELSE n)
      /\ (Len(order) <= n => t = order)
  BY <1>1, <1>3, TopIs
<1>5. PICK r : r = Search!Only(t, M)
  OBVIOUS
<1>6. /\ r \in Seq(S) /\ Search!Elements(r) = Search!Elements(t) \cap M
      /\ ((\A i \in 1..Len(t) : t[i] \in M) => Len(r) = Len(t))
  <2> HIDE DEF M
  <2> QED BY <1>4, <1>5, OnlyIs
<1>7. PICK f : f = Search!Top(r, w)
  OBVIOUS
<1>8. f \in Seq(S) /\ Len(f) = (IF Len(r) <= w THEN Len(r) ELSE w) /\ (Len(r) <= w => f = r)
  BY <1>6, <1>7, TopIs
<1>9. Search!VectorSearch(order, S) = f
  BY <1>2, <1>3, <1>5, <1>7 DEF Search!VectorSearch
<1>10. Len(r) \in Nat /\ Len(t) \in Nat /\ Len(order) \in Nat
  BY <1>1, <1>4, <1>6
<1>11. ASSUME Len(f) < w PROVE Search!Elements(f) = M
  <2>1. f = r /\ Len(r) < w
    BY <1>8, <1>10, <1>11
  <2>2. t = order
    <3>1. CASE query.filter
      <4>1. n = Cardinality(S)
        BY <1>2, <3>1, SameSize DEF Search!SearchLimit
      <4> QED BY <1>1, <1>4, <4>1
    <3>2. CASE ~query.filter
      <4>1. n = w
        BY <1>2, <3>2 DEF Search!SearchLimit
      <4>2. M = S
        BY <3>2 DEF Search!PathMatches
      <4>3. \A i \in 1..Len(t) : t[i] \in M
        BY <1>4, <4>2
      <4>4. Len(r) = Len(t)
        BY <1>6, <4>3
      <4> QED BY <1>4, <1>10, <2>1, <4>1, <4>4
    <3> QED BY <3>1, <3>2
  <2> QED BY <1>1, <1>6, <2>1, <2>2
<1> QED BY <1>2, <1>8, <1>9, <1>11

\* An answer to a ranking: no two alike, and what is dropped is like a better one.
WellAnswered(a, f) ==
    /\ a \in Seq(Search!Chunks) /\ Search!Elements(a) \subseteq Search!Elements(f)
    /\ \A c, d \in Search!Elements(a) : c # d => <<c, d>> \notin Alike
    /\ \A i \in 1..Len(f) : \A c \in Search!Elements(a) :
          i < Search!Place(f, c) /\ f[i] \notin Search!Elements(a) =>
             \E d \in Search!Elements(a) : Search!Place(f, d) < i /\ <<d, f[i]>> \in Alike

\* The first of the deduplicated ranking are such an answer.
LEMMA AnswerOf ==
    ASSUME NEW f \in Seq(Search!Chunks), Distinct(f), NEW n \in Nat,
           NEW a, a = Search!Top(Search!Deduplicated(f), n)
    PROVE  WellAnswered(a, f)
<1>1. PICK x \in Seq(Search!Chunks) : x = Search!Deduplicated(f) /\ Kept(x, f, Len(f))
  BY DeduplicatedIs
<1>2. PICK m \in Nat : m = Len(a)
  BY <1>1, TopIs
<1>3. /\ a \in Seq(Search!Chunks) /\ m <= Len(x) /\ (\A k \in 1..m : a[k] = x[k])
      /\ Len(x) \in Nat /\ Len(f) \in Nat
  BY <1>1, <1>2, TopIs
<1>4. \A k \in 1..m : k \in 1..Len(x)
  BY <1>3
<1>5. \A k \in 1..m : a[k] \in Search!Elements(a)
  BY <1>2 DEF Search!Elements
<1>6. \A c \in Search!Elements(a) : \E k \in 1..m : c = x[k]
  BY <1>2, <1>3 DEF Search!Elements
<1>7. \A k \in 1..Len(x) : \E p \in 1..Len(f) : f[p] = x[k]
  BY <1>1 DEF Kept
<1>8. \A k \in 1..Len(x), p \in 1..Len(f) : f[p] = x[k] => Search!Place(f, x[k]) = p
  BY PositionIs
<1>9. Search!Elements(a) \subseteq Search!Elements(f)
  <2> SUFFICES ASSUME NEW c \in Search!Elements(a) PROVE c \in Search!Elements(f)
    OBVIOUS
  <2>1. PICK k \in 1..m : c = x[k]
    BY <1>6
  <2>2. PICK p \in 1..Len(f) : f[p] = c
    BY <1>4, <1>7, <2>1
  <2> QED BY <2>2 DEF Search!Elements
<1>10. ASSUME NEW c \in Search!Elements(a), NEW d \in Search!Elements(a), c # d PROVE <<c, d>> \notin Alike
  <2>1. PICK k \in 1..m : c = x[k]
    BY <1>6
  <2>2. PICK l \in 1..m : d = x[l]
    BY <1>6
  <2>3. k < l \/ l < k
    BY <1>10, <2>1, <2>2
  <2>4. <<c, d>> \notin Alike \/ <<d, c>> \notin Alike
    BY <1>1, <1>4, <2>1, <2>2, <2>3 DEF Kept
  <2>5. c \in Search!Chunks /\ d \in Search!Chunks
    BY <1>3, <1>4, <2>1, <2>2
  <2> QED BY <2>4, <2>5, ServicesAssumption DEF ServicesAssumption, Search!Chunks
<1>11. ASSUME NEW i \in 1..Len(f), NEW c \in Search!Elements(a), i < Search!Place(f, c),
              f[i] \notin Search!Elements(a)
       PROVE  \E d \in Search!Elements(a) : Search!Place(f, d) < i /\ <<d, f[i]>> \in Alike
  <2>1. PICK l \in 1..m : c = x[l]
    BY <1>6
  <2>2. PICK q \in 1..Len(f) : f[q] = x[l]
    BY <1>4, <1>7, <2>1
  <2>3. i < q
    BY <1>4, <1>8, <1>11, <2>1, <2>2
  <2>4. ASSUME NEW k \in 1..Len(x), NEW p \in 1..Len(f), f[p] = x[k], p <= i PROVE k \in 1..m
    <3>1. ASSUME l < k PROVE FALSE
      <4>1. q < p
        BY <1>1, <1>4, <2>2, <2>4, <3>1 DEF Kept
      <4> QED BY <2>3, <2>4, <4>1
    <3> QED BY <1>3, <3>1
  <2>5. CASE \E k \in 1..Len(x) : x[k] = f[i]
    <3>1. PICK k \in 1..Len(x) : x[k] = f[i]
      BY <2>5
    <3>2. k \in 1..m
      BY <2>4, <3>1
    <3> QED BY <1>3, <1>5, <1>11, <3>1, <3>2
  <2>6. CASE \E k \in 1..Len(x), p \in 1..Len(f) : p < i /\ x[k] = f[p] /\ <<f[p], f[i]>> \in Alike
    <3>1. PICK k \in 1..Len(x), p \in 1..Len(f) : p < i /\ x[k] = f[p] /\ <<f[p], f[i]>> \in Alike
      BY <2>6
    <3>2. k \in 1..m
      BY <2>4, <3>1
    <3>3. x[k] \in Search!Elements(a) /\ Search!Place(f, x[k]) = p
      BY <1>3, <1>5, <1>8, <3>1, <3>2
    <3> QED BY <3>1, <3>3
  <2> QED BY <1>1, <2>5, <2>6 DEF Kept
<1> QED BY <1>3, <1>9, <1>10, <1>11 DEF WellAnswered

\* Nothing is said of an empty fused ranking.
LEMMA NothingFused == ASSUME fused' = <<>> PROVE Search!FusionIsMonotone' /\ Search!AnswerIsDeduplicated'
<1>1. Search!Elements(<<>>) = {}
  BY DEF Search!Elements
<1> QED BY <1>1 DEF Search!FusionIsMonotone, Search!AnswerIsDeduplicated

\* The promise of the fusion is about the rankings and the fused one alone.
LEMMA FusionStays ==
    ASSUME Search!FusionIsMonotone, UNCHANGED <<lists, fused>> PROVE Search!FusionIsMonotone'
  BY DEF Search!FusionIsMonotone, Search!Dominates, Search!Found, Search!PlaceIn

\* That of the vector searches is about the request and the rankings alone.
LEMMA FiltersStay ==
    ASSUME Search!FilteredSearchIsComplete, UNCHANGED <<query, lists>> PROVE Search!FilteredSearchIsComplete'
<1>1. Search!Wanted' = Search!Wanted /\ \A c : Search!PathMatches(c)' = Search!PathMatches(c)
  BY DEF Search!Wanted, Search!PathMatches
<1> QED BY <1>1 DEF Search!FilteredSearchIsComplete

\* So is where the answers come from.
LEMMA FoundStays == ASSUME AnswerIsFound, UNCHANGED <<lists, fused, answer>> PROVE AnswerIsFound'
  BY DEF AnswerIsFound

\* One more ranking.
LEMMA Collected ==
    ASSUME RetrievalInv, NEW v \in 1..2, NEW found \in Seq(Search!Chunks), query' = query,
           lists' = Append(lists, [version |-> v, found |-> found]),
           Len(lists) >= 1 /\ Len(found) < Search!Wanted =>
               \E S \in {Texts, Codes} : Search!Elements(found) = {c \in S : Search!PathMatches(c)}
    PROVE  lists' \in Seq(Ranking) /\ Len(lists') = Len(lists) + 1 /\ Search!FilteredSearchIsComplete'
<1>1. lists \in Seq(Ranking) /\ Len(lists) \in Nat /\ [version |-> v, found |-> found] \in Ranking
  BY DEF RetrievalInv, SearchTyped, Ranking
<1>2. PICK n \in Nat : n = Len(lists)
  BY <1>1
<1>3. PICK r : r = [version |-> v, found |-> found]
  OBVIOUS
<1>4. lists' \in Seq(Ranking) /\ Len(lists') = n + 1 /\ lists'[n + 1] = r /\ \A i \in 1..n : lists'[i] = lists[i]
  BY <1>1, <1>2, <1>3
<1>5. Search!Wanted' = Search!Wanted /\ \A c : Search!PathMatches(c)' = Search!PathMatches(c)
  BY DEF Search!Wanted, Search!PathMatches
<1>6. ASSUME NEW i \in 2..n + 1, Len(lists'[i].found) < Search!Wanted
      PROVE  \E S \in {Texts, Codes} : Search!Elements(lists'[i].found) = {c \in S : Search!PathMatches(c)}
  <2>1. CASE i = n + 1
    <3>1. lists'[i].found = found /\ Len(lists) >= 1
      BY <1>2, <1>3, <1>4, <2>1
    <3> QED BY <1>6, <3>1
  <2>2. CASE i # n + 1
    <3>1. i \in 2..n /\ i \in 1..n
      BY <1>2, <2>2
    <3>2. lists'[i] = lists[i]
      BY <1>4, <3>1
    <3> QED BY <1>2, <1>6, <3>1, <3>2 DEF RetrievalInv, Search!FilteredSearchIsComplete
  <2> QED BY <2>1, <2>2
<1>7. Search!FilteredSearchIsComplete'
  BY <1>4, <1>5, <1>6 DEF Search!FilteredSearchIsComplete
<1> QED BY <1>2, <1>4, <1>7

\* The files, the context and who is late say together whether the context is current.
LEMMA LateStays == ASSUME LateIsStale, UNCHANGED <<files, late, context>> PROVE LateIsStale'
  BY DEF LateIsStale

\* The lexical ranking is typed; it may be the answer.
LEMMA LexicalKeeps == ASSUME RetrievalInv, Search!Lexical PROVE RetrievalInv'
<1> DEFINE m == Search!Min({Search!Wanted, Search!Cardinality(Search!LexicalScope)})
<1>1. PICK found \in Search!Lists(Search!LexicalScope, m) :
         /\ Search!Collect(index, found)
         /\ IF Search!Semantic THEN at' = "vectors" /\ UNCHANGED answer
            ELSE at' = "answered" /\ answer' = Search!Top(found, query.top)
  BY DEF Search!Lexical
<1>2. at = "lexical" /\ UNCHANGED <<index, query, fused, files, late, context, edits>>
  BY DEF Search!Lexical, Search!Reads
<1>3. lists = <<>> /\ fused = <<>> /\ answer = <<>>
  BY <1>2 DEF RetrievalInv, RankingsMatchStep
<1>4. found \in Seq(Search!Chunks)
  <2>1. PICK k \in 0..m : found \in [1..k -> Search!LexicalScope]
    BY DEF Search!Lists
  <2>2. Search!LexicalScope \subseteq Search!Chunks
    BY ServicesAssumption DEF ServicesAssumption, Search!LexicalScope, Search!Chunks
  <2>3. m \in Nat
    <3>1. Search!LexicalScope \in SUBSET Search!Chunks
      BY <2>2
    <3>2. IsFiniteSet(Search!LexicalScope)
      BY <3>1, ChunksAreNumbers, FS_Subset
    <3>3. Cardinality(Search!LexicalScope) \in Nat
      BY <3>2, FS_CardinalityType
    <3>4. Search!Wanted \in Nat
      BY LimitsAre DEF RetrievalInv
    <3>5. {Search!Wanted, Search!Cardinality(Search!LexicalScope)} \in SUBSET Nat
      BY <3>3, <3>4, SameSize
    <3> QED BY <3>5, MinIs
  <2> HIDE DEF m
  <2>4. k \in Nat
    BY <2>3
  <2> QED BY <2>1, <2>2, <2>4
<1>5. lists' = Append(lists, [version |-> index, found |-> found])
  BY <1>1 DEF Search!Collect
<1>6. ~(Len(lists) >= 1) /\ index \in 1..2
  BY <1>3 DEF RetrievalInv, SearchTyped
<1>7. lists' \in Seq(Ranking) /\ Len(lists') = Len(lists) + 1 /\ Search!FilteredSearchIsComplete'
  BY <1>2, <1>4, <1>5, <1>6, Collected
<1>8. Len(lists') = 1 /\ lists'[1] = [version |-> index, found |-> found]
  BY <1>3, <1>5
<1>9. query.top \in Nat
  BY LimitsAre DEF RetrievalInv
<1>10. /\ at' \in {"vectors", "answered"} /\ answer' \in Seq(Search!Chunks)
       /\ Search!Elements(answer') \subseteq Search!Elements(found) /\ (at' = "vectors" => answer' = <<>>)
  <2>1. CASE Search!Semantic
    <3>1. Search!Elements(<<>>) = {} /\ <<>> \in Seq(Search!Chunks)
      BY DEF Search!Elements
    <3> QED BY <1>1, <1>3, <2>1, <3>1
  <2>2. CASE ~Search!Semantic
    BY <1>1, <1>4, <1>9, <2>2, TopIs
  <2> QED BY <2>1, <2>2
<1>11. SearchTyped'
  BY <1>2, <1>7, <1>10 DEF RetrievalInv, SearchTyped, SearchSteps
<1>12. RankingsMatchStep'
  BY <1>2, <1>3, <1>8, <1>10 DEF RankingsMatchStep
<1>13. AnswerIsFound'
  <2>1. Search!Elements(found) \subseteq UNION {Search!Elements(lists'[i].found) : i \in 1..Len(lists')}
    BY <1>8
  <2> QED BY <1>10, <2>1 DEF AnswerIsFound
<1>14. LateIsStale'
  BY <1>2, LateStays DEF RetrievalInv
<1>15. Search!FusionIsMonotone' /\ Search!AnswerIsDeduplicated'
  BY <1>2, <1>3, NothingFused
<1> QED BY <1>7, <1>11, <1>12, <1>13, <1>14, <1>15 DEF RetrievalInv

\* The two searches of vectors.
LEMMA VectorsKeep ==
    ASSUME RetrievalInv, NEW S \in {Texts, Codes}, at \in {"vectors", "code"},
           at' = (IF at = "vectors" THEN "code" ELSE "fuse"),
           \/ \E order \in Search!Orders(S) : Search!Collect(Search!Opened, Search!VectorSearch(order, S))
           \/ UNCHANGED lists,
           UNCHANGED <<index, answer>>, Search!Reads
    PROVE  RetrievalInv'
<1>1. UNCHANGED <<index, answer, query, fused, files, late, context, edits>>
  BY DEF Search!Reads
<1>2. fused = <<>> /\ answer = <<>> /\ Len(lists) \in 1..2 /\ (at = "vectors" => Len(lists) = 1)
  BY DEF RetrievalInv, RankingsMatchStep
<1>3. lists' \in Seq(Ranking) /\ Len(lists') \in Len(lists)..Len(lists) + 1 /\ Search!FilteredSearchIsComplete'
  <2>1. CASE UNCHANGED lists
    <3>1. lists' \in Seq(Ranking) /\ Len(lists') = Len(lists) /\ Search!FilteredSearchIsComplete'
      BY <1>1, <2>1, FiltersStay DEF RetrievalInv, SearchTyped
    <3> QED BY <1>2, <3>1
  <2>2. CASE \E order \in Search!Orders(S) : Search!Collect(Search!Opened, Search!VectorSearch(order, S))
    <3>1. PICK order \in Search!Orders(S) : Search!Collect(Search!Opened, Search!VectorSearch(order, S))
      BY <2>2
    <3>2. IsFiniteSet(S) /\ S \subseteq Search!Chunks
      BY ServicesAssumption DEF ServicesAssumption, Search!Chunks
    <3>3. PICK f : f = Search!VectorSearch(order, S)
      OBVIOUS
    <3>4. f \in Seq(S) /\ (Len(f) < Search!Wanted => Search!Elements(f) = {c \in S : Search!PathMatches(c)})
      BY <3>2, <3>3, VectorSearchIs DEF RetrievalInv
    <3>5. f \in Seq(Search!Chunks)
      BY <3>2, <3>4
    <3>6. Search!Opened \in 1..2
      <4>1. index \in 1..2 /\ \A i \in 1..Len(lists) : lists[i] \in Ranking
        BY DEF RetrievalInv, SearchTyped
      <4>2. 1 \in 1..Len(lists) /\ (Len(lists) # 1 => 2 \in 1..Len(lists))
        BY <1>2
      <4> QED BY <4>1, <4>2 DEF Search!Opened, Ranking
    <3>7. lists' = Append(lists, [version |-> Search!Opened, found |-> f])
      BY <3>1, <3>3 DEF Search!Collect
    <3>8. PICK v \in 1..2 : v = Search!Opened
      BY <3>6
    <3>9. lists' \in Seq(Ranking) /\ Len(lists') = Len(lists) + 1 /\ Search!FilteredSearchIsComplete'
      BY <1>1, <3>4, <3>5, <3>7, <3>8, Collected
    <3> QED BY <1>2, <3>9
  <2> QED BY <2>1, <2>2
<1>4. SearchTyped'
  BY <1>1, <1>3 DEF RetrievalInv, SearchTyped, SearchSteps
<1>5. RankingsMatchStep'
  <2>1. at' = "code" => Len(lists) = 1
    BY <1>2
  <2>2. at' = "code" => Len(lists') \in 1..2
    <3>1. PICK k, m : k = Len(lists) /\ m = Len(lists') /\ m \in k..k + 1
      BY <1>3
    <3>2. k = 1 => m \in 1..2
      BY <3>1
    <3> QED BY <2>1, <3>1, <3>2
  <2>3. at' \in {"code", "fuse"} /\ fused' = <<>> /\ answer' = <<>>
    BY <1>1, <1>2
  <2> QED BY <2>2, <2>3 DEF RankingsMatchStep
<1>6. AnswerIsFound'
  <2>1. Search!Elements(<<>>) = {}
    BY DEF Search!Elements
  <2> QED BY <1>1, <1>2, <2>1 DEF AnswerIsFound
<1>7. LateIsStale'
  BY <1>1, LateStays DEF RetrievalInv
<1>8. Search!FusionIsMonotone' /\ Search!AnswerIsDeduplicated'
  BY <1>1, <1>2, NothingFused
<1> QED BY <1>3, <1>4, <1>5, <1>6, <1>7, <1>8 DEF RetrievalInv

\* The search of the texts keeps the invariant.
LEMMA TextVectorsKeeps == ASSUME RetrievalInv, Search!TextVectors PROVE RetrievalInv'
  BY VectorsKeep DEF Search!TextVectors

\* The search of the code keeps it.
LEMMA CodeVectorsKeeps == ASSUME RetrievalInv, Search!CodeVectors PROVE RetrievalInv'
  BY VectorsKeep DEF Search!CodeVectors

\* The fused ranking contradicts no unanimous verdict, and its answer is deduplicated.
LEMMA FuseKeeps == ASSUME RetrievalInv, Search!Fuse PROVE RetrievalInv'
<1>1. at = "fuse" /\ UNCHANGED <<query, index, lists, files, late, context, edits>>
  BY DEF Search!Fuse
<1>2. fused = <<>> /\ answer = <<>> /\ SearchTyped
  BY <1>1 DEF RetrievalInv, RankingsMatchStep
<1>3. Search!FilteredSearchIsComplete' /\ LateIsStale'
  BY <1>1, FiltersStay, LateStays DEF RetrievalInv
<1>4. CASE \E c \in Search!Candidates : Search!Conflicting(c)
  <2>1. at' = "failed" /\ UNCHANGED <<fused, answer>>
    BY <1>4 DEF Search!Fuse
  <2>2. SearchTyped'
    BY <1>1, <2>1 DEF RetrievalInv, SearchTyped, SearchSteps
  <2>3. RankingsMatchStep'
    BY <2>1 DEF RankingsMatchStep
  <2>4. AnswerIsFound'
    BY <1>1, <2>1, FoundStays DEF RetrievalInv
  <2> QED BY <1>2, <1>3, <2>1, <2>2, <2>3, <2>4, NothingFused DEF RetrievalInv
<1>5. CASE ~\E c \in Search!Candidates : Search!Conflicting(c)
  <2>1. PICK s : s = Search!Sorted(Search!Candidates, Search!FusedOrder)
    OBVIOUS
  <2>2. PICK n \in Nat : n = Search!FuseLimit
    BY <1>2, LimitsAre
  <2>3. /\ fused' = Search!Top(s, n) /\ at' = "answered"
        /\ answer' = Search!Top(Search!Deduplicated(fused'), query.top)
    BY <1>5, <2>1, <2>2 DEF Search!Fuse
  <2>4. Search!Candidates \subseteq Search!Chunks /\ IsFiniteSet(Search!Candidates)
    BY <1>2, FoundIs
  <2>5. /\ s \in Seq(Search!Candidates) /\ Distinct(s) /\ Search!Elements(s) = Search!Candidates
        /\ \A i, j \in 1..Len(s) : <<s[i], s[j]>> \in Search!FusedOrder => i < j
    BY <1>2, <2>1, <2>4, FusedOrderIs, SortedIs
  <2>6. PICK f : f = fused'
    OBVIOUS
  <2>7. /\ f \in Seq(Search!Candidates) /\ Len(f) <= Len(s) /\ (\A i \in 1..Len(f) : f[i] = s[i])
        /\ Search!Elements(f) \subseteq Search!Candidates
    BY <2>2, <2>3, <2>5, <2>6, TopIs
  <2>8. \A i \in 1..Len(f) : i \in 1..Len(s)
    BY <2>5, <2>7
  <2>9. Distinct(f)
    BY <2>5, <2>7, <2>8 DEF Distinct
  <2>10. f \in Seq(Search!Chunks)
    BY <2>4, <2>7
  <2>11. PICK m \in Nat : m = query.top
    BY <1>2, LimitsAre
  <2>12. PICK a : a = answer' /\ a = Search!Top(Search!Deduplicated(f), m)
    BY <2>3, <2>6, <2>11
  <2>13. WellAnswered(a, f)
    BY <2>9, <2>10, <2>12, AnswerOf
  <2>14. SearchTyped'
    BY <1>1, <2>3, <2>6, <2>10, <2>12, <2>13 DEF RetrievalInv, SearchTyped, SearchSteps, WellAnswered
  <2>15. RankingsMatchStep'
    BY <2>3 DEF RankingsMatchStep
  <2>16. AnswerIsFound'
    BY <2>6, <2>12, <2>13 DEF AnswerIsFound, WellAnswered
  <2>17. Search!AnswerIsDeduplicated'
    BY <2>6, <2>12, <2>13 DEF Search!AnswerIsDeduplicated, WellAnswered
  <2>18. ASSUME NEW c \in Search!Elements(f), NEW d \in Search!Elements(f), Search!Dominates(c, d)
         PROVE  Search!Place(f, c) < Search!Place(f, d)
    <3>1. <<c, d>> \in Search!FusedOrder
      BY <1>2, <2>7, <2>18, DominatesMeansBefore
    <3>2. PICK i \in 1..Len(f), j \in 1..Len(f) : i = Search!Place(f, c) /\ j = Search!Place(f, d) /\ f[i] = c /\ f[j] = d
      BY PositionOf
    <3>3. <<s[i], s[j]>> \in Search!FusedOrder
      BY <2>7, <3>1, <3>2
    <3> QED BY <2>5, <2>8, <3>2, <3>3
  <2>19. \A c, d : Search!Dominates(c, d)' = Search!Dominates(c, d)
    BY <1>1 DEF Search!Dominates, Search!Found, Search!PlaceIn
  <2>20. Search!FusionIsMonotone'
    BY <2>6, <2>18, <2>19 DEF Search!FusionIsMonotone
  <2> QED BY <1>3, <2>14, <2>15, <2>16, <2>17, <2>20 DEF RetrievalInv
<1> QED BY <1>4, <1>5

\* The share of a document in a ranking is a number, and so is its score.
LEMMA ShareIs ==
    ASSUME SearchTyped, NEW i \in 1..Len(lists), NEW c \in Search!Elements(lists[i].found)
    PROVE  Search!Share(i, c) \in Nat
<1>1. i \in Search!Found(c) /\ c \in Search!Chunks
  <2>1. lists[i].found \in Seq(Search!Chunks)
    BY FoundIs
  <2> QED BY <2>1 DEF Search!Found, Search!Elements
<1>2. Search!PlaceIn(i, c) \in Nat \ {0}
  BY <1>1, FoundIs
<1>3. Search!RerankK + Search!PlaceIn(i, c) \in Nat \ {0}
  BY <1>2 DEF Search!RerankK
<1>4. Scale \div (Search!RerankK + Search!PlaceIn(i, c)) \in Nat
  BY <1>3, SharesAreNumbers, ChunksAreNumbers
<1>5. c \in Search!Earlier(i, c)
  BY <1>2 DEF Search!Earlier
<1>6. Search!Earlier(i, c) \in SUBSET Search!Chunks
  <2>1. lists[i].found \in Seq(Search!Chunks)
    BY FoundIs
  <2>2. Search!Elements(lists[i].found) \subseteq Search!Chunks
    BY <2>1 DEF Search!Elements
  <2> QED BY <2>2 DEF Search!Earlier
<1>7. IsFiniteSet(Search!Earlier(i, c))
  BY <1>6, ChunksAreNumbers, FS_Subset
<1>8. Cardinality(Search!Earlier(i, c)) \in Nat \ {0}
  BY <1>5, <1>7, FS_CardinalityType, FS_EmptySet
<1>9. PICK k \in Nat \ {0} : k = Search!Cardinality(Search!Earlier(i, c))
  BY <1>8, SameSize
<1>10. (Scale \div (Search!RerankK + Search!PlaceIn(i, c))) \div k \in Nat
  BY <1>4, SharesAreNumbers
<1> QED BY <1>9, <1>10 DEF Search!Share

\* The score of a document is a number.
LEMMA DocumentScoreIs == ASSUME SearchTyped, NEW d PROVE Search!DocumentScore(d) \in Nat
<1>1. ASSUME NEW i \in 1..Len(lists) PROVE Search!ShareOf(d, i) \in Nat
  <2>1. PICK s : s = lists[i].found
    OBVIOUS
  <2>2. s \in Seq(Search!Chunks) /\ Len(s) \in Nat
    BY <2>1, FoundIs
  <2>3. \A k \in 1..Len(s) : Search!Share(i, s[k]) \in Nat
    BY <2>1, ShareIs DEF Search!Elements
  <2>4. PICK t : t = [k \in 1..Len(s) |-> IF DocumentOf[s[k]] = d THEN Search!Share(i, s[k]) ELSE 0]
    OBVIOUS
  <2>5. t \in [1..Len(s) -> Nat]
    BY <2>3, <2>4
  <2>6. t \in Seq(Nat)
    BY <2>2, <2>5
  <2>7. Search!ShareOf(d, i) = Search!Total(t)
    BY <2>1, <2>4 DEF Search!ShareOf
  <2> QED BY <2>6, <2>7, TotalIs
<1>2. PICK t : t = [i \in 1..Len(lists) |-> Search!ShareOf(d, i)]
  OBVIOUS
<1>3. t \in [1..Len(lists) -> Nat] /\ Len(lists) \in Nat
  BY <1>1, <1>2, FoundIs
<1>4. t \in Seq(Nat)
  BY <1>3
<1> QED BY <1>2, <1>4, TotalIs DEF Search!DocumentScore

\* The documents that were found, and their order: by score, then by number.
LEMMA DocumentsAre ==
    ASSUME SearchTyped
    PROVE  /\ IsFiniteSet(Search!FoundDocuments) /\ Search!FoundDocuments \subseteq Nat
           /\ IsOrder(Search!DocumentOrder, Search!FoundDocuments)
<1>1. Search!Candidates \subseteq Search!Chunks /\ IsFiniteSet(Search!Candidates)
  BY FoundIs
<1>2. PICK g : g = [c \in Search!Candidates |-> DocumentOf[c]]
  OBVIOUS
<1>3. g \in Surjection(Search!Candidates, Search!FoundDocuments)
  BY <1>2 DEF Surjection, Search!FoundDocuments
<1>4. IsFiniteSet(Search!FoundDocuments)
  BY <1>1, <1>3, FS_Surjection
<1>5. Search!FoundDocuments \subseteq Nat
  BY <1>1, ChunksAreNumbers DEF Search!FoundDocuments
<1>6. PICK D \in SUBSET Nat : D = Search!FoundDocuments
  BY <1>5
<1>7. \A d \in D : Search!DocumentScore(d) \in Nat
  BY DocumentScoreIs
<1>8. \A c, d \in D :
         <<c, d>> \in Search!DocumentOrder <=>
             \/ Search!DocumentScore(c) > Search!DocumentScore(d)
             \/ Search!DocumentScore(c) = Search!DocumentScore(d) /\ c < d
  BY <1>6 DEF Search!DocumentOrder, Search!DocumentBefore
<1>9. \A c \in D : <<c, c>> \notin Search!DocumentOrder
  BY <1>7, <1>8
<1>10. \A c, d \in D : c = d \/ <<c, d>> \in Search!DocumentOrder \/ <<d, c>> \in Search!DocumentOrder
  <2> SUFFICES ASSUME NEW c \in D, NEW d \in D, c # d
               PROVE  <<c, d>> \in Search!DocumentOrder \/ <<d, c>> \in Search!DocumentOrder
    OBVIOUS
  <2>1. PICK a, b \in Nat : a = Search!DocumentScore(c) /\ b = Search!DocumentScore(d)
    BY <1>7
  <2>2. c \in Nat /\ d \in Nat
    OBVIOUS
  <2>3. a > b \/ b > a \/ (a = b /\ (c < d \/ d < c))
    BY <2>2
  <2> QED BY <1>8, <2>1, <2>3
<1>11. ASSUME NEW c \in D, NEW d \in D, NEW e \in D,
              <<c, d>> \in Search!DocumentOrder, <<d, e>> \in Search!DocumentOrder
       PROVE  <<c, e>> \in Search!DocumentOrder
  BY <1>7, <1>8, <1>11
<1>12. IsOrder(Search!DocumentOrder, D)
  BY <1>9, <1>10, <1>11 DEF IsOrder
<1> QED BY <1>4, <1>5, <1>6, <1>12

\* Every document that was found has a chunk that stands for it.
LEMMA RepresentsIs ==
    ASSUME SearchTyped, NEW d \in Search!FoundDocuments
    PROVE  Search!Represents(d) \in Search!Candidates
<1> DEFINE C == {c \in Search!Candidates : DocumentOf[c] = d}
           B == {Search!BestRank(c) : c \in C}
<1>1. C # {}
  BY DEF Search!FoundDocuments
<1>2. B \in SUBSET Nat /\ B # {}
  BY <1>1, BestRankIs
<1>3. PICK b \in B : \A m \in B : b <= m
  BY <1>2, LeastOf
<1> DEFINE L == {c \in C : Search!BestRank(c) = b}
           F == {Search!FirstList(c) : c \in L}
<1>4. L # {}
  BY <1>3
<1>5. \A c \in L : Search!FirstList(c) \in Nat
  <2> SUFFICES ASSUME NEW c \in L PROVE Search!FirstList(c) \in Nat
    OBVIOUS
  <2> DEFINE S == {i \in Search!Found(c) : Search!PlaceIn(i, c) = Search!BestRank(c)}
  <2>1. S \in SUBSET Nat
    BY FoundIs
  <2>2. S # {}
    BY BestRankIs
  <2>3. Search!FirstList(c) = Search!Min(S)
    BY DEF Search!FirstList
  <2> HIDE DEF S
  <2> QED BY <2>1, <2>2, <2>3, MinIs
<1>6. F \in SUBSET Nat /\ F # {}
  BY <1>4, <1>5
<1>7. PICK n \in F : \A m \in F : n <= m
  BY <1>6, LeastOf
<1>8. PICK c \in L : Search!FirstList(c) = n
  BY <1>7
<1>9. ASSUME NEW o \in Search!Candidates, DocumentOf[o] = d
      PROVE  \/ Search!BestRank(c) < Search!BestRank(o)
             \/ Search!BestRank(c) = Search!BestRank(o) /\ Search!FirstList(c) <= Search!FirstList(o)
  <2>1. o \in C /\ Search!BestRank(o) \in B /\ Search!BestRank(c) = b
    BY <1>8, <1>9
  <2>2. b <= Search!BestRank(o) /\ b \in Nat /\ Search!BestRank(o) \in Nat
    BY <1>2, <1>3, <2>1
  <2>3. CASE Search!BestRank(o) = b
    <3>1. o \in L
      BY <2>1, <2>3
    <3>2. Search!FirstList(o) \in F
      BY <3>1
    <3> QED BY <1>7, <1>8, <2>1, <2>3, <3>2
  <2>4. CASE Search!BestRank(o) # b
    BY <2>1, <2>2, <2>4
  <2> QED BY <2>3, <2>4
<1>10. c \in Search!Candidates /\ DocumentOf[c] = d
  BY <1>8
<1> HIDE DEF C, B, L, F
<1> QED BY <1>9, <1>10 DEF Search!Represents

\* A document that is answered is stood for by a chunk that was found.
LEMMA RerankKeeps == ASSUME RetrievalInv, Search!Rerank PROVE RetrievalInv'
<1>1. /\ at = "fuse" /\ at' \in {"answered", "failed"}
      /\ UNCHANGED <<query, index, lists, fused, files, late, context, edits>>
  BY DEF Search!Rerank
<1>2. fused = <<>> /\ SearchTyped
  BY <1>1 DEF RetrievalInv, RankingsMatchStep
<1>3. PICK s : s = Search!Sorted(Search!FoundDocuments, Search!DocumentOrder)
  OBVIOUS
<1>4. s \in Seq(Search!FoundDocuments)
  BY <1>2, <1>3, DocumentsAre, SortedIs
<1>5. PICK r : r = [i \in 1..Len(s) |-> Search!Represents(s[i])]
  OBVIOUS
<1>6. \A i \in 1..Len(s) : Search!Represents(s[i]) \in Search!Candidates
  BY <1>2, <1>4, RepresentsIs
<1>7. r \in [1..Len(s) -> Search!Candidates] /\ Len(s) \in Nat
  BY <1>4, <1>5, <1>6
<1>8. r \in Seq(Search!Candidates)
  BY <1>7
<1>9. PICK m \in Nat : m = query.top
  BY <1>2, LimitsAre
<1>10. answer' = Search!Top(r, m) \/ answer' = <<>>
  <2>1. answer' = Search!Best \/ answer' = answer
    BY DEF Search!Rerank
  <2>2. Search!Best = Search!Top(r, m)
    BY <1>3, <1>5, <1>9 DEF Search!Best
  <2> QED BY <1>1, <2>1, <2>2 DEF RetrievalInv, RankingsMatchStep
<1>11. answer' \in Seq(Search!Candidates)
  <2>1. Search!Top(r, m) \in Seq(Search!Candidates)
    BY <1>8, <1>9, TopIs
  <2>2. <<>> \in Seq(Search!Candidates)
    OBVIOUS
  <2> QED BY <1>10, <2>1, <2>2
<1>12. Search!Candidates \subseteq Search!Chunks
  BY <1>2, FoundIs
<1>13. SearchTyped'
  <2>1. answer' \in Seq(Search!Chunks)
    BY <1>11, <1>12
  <2> QED BY <1>1, <1>2, <2>1 DEF SearchTyped, SearchSteps
<1>14. RankingsMatchStep'
  BY <1>1 DEF RankingsMatchStep
<1>15. AnswerIsFound'
  <2>1. \A c \in Search!Candidates : \E i \in 1..Len(lists) : c \in Search!Elements(lists[i].found)
    BY DEF Search!Candidates, Search!Found
  <2>2. Search!Elements(answer') \subseteq Search!Candidates
    BY <1>11 DEF Search!Elements
  <2>3. Search!Elements(answer') \subseteq UNION {Search!Elements(lists[i].found) : i \in 1..Len(lists)}
    BY <2>1, <2>2
  <2> QED BY <1>1, <2>3 DEF AnswerIsFound
<1> QED BY <1>1, <1>2, <1>13, <1>14, <1>15, NothingFused, FiltersStay, LateStays DEF RetrievalInv

\* A request for context starts with nothing served.
LEMMA AskContextKeeps ==
    ASSUME RetrievalInv, NEW root \in BOOLEAN, NEW allowStale \in BOOLEAN,
           Search!AskContext(answer, root, allowStale)
    PROVE  RetrievalInv'
<1>1. /\ at' = "context" /\ context' = [left |-> answer, served |-> {}, strict |-> root /\ ~allowStale]
      /\ files' \in [Search!Sources -> Search!FileStates]
      /\ late' = {d \in Search!Sources : files'[d] \in {"changed", "gone"}}
      /\ query' = Search!AnyQuery /\ lists' = <<>> /\ fused' = <<>> /\ answer' = <<>> /\ UNCHANGED <<index, edits>>
  BY DEF Search!AskContext
<1>2. query'.route = "TEXT" /\ query'.top \in TopKs
  <2>1. \E n \in TopKs : TRUE
    BY ServicesAssumption DEF ServicesAssumption
  <2> QED BY <1>1, <2>1 DEF Search!AnyQuery
<1>3. SearchTyped'
  <2>1. lists' \in Seq(Ranking) /\ fused' \in Seq(Search!Chunks) /\ answer' \in Seq(Search!Chunks)
    BY <1>1
  <2>2. context' \in [left : Seq(Search!Chunks), served : SUBSET Search!Chunks, strict : BOOLEAN]
    BY <1>1 DEF RetrievalInv, SearchTyped
  <2>3. late' \subseteq Search!Sources
    BY <1>1
  <2> QED BY <1>1, <1>2, <2>1, <2>2, <2>3 DEF RetrievalInv, SearchTyped, SearchSteps
<1>4. RankingsMatchStep'
  BY <1>1 DEF RankingsMatchStep
<1>5. AnswerIsFound'
  <2>1. Search!Elements(<<>>) = {}
    BY DEF Search!Elements
  <2> QED BY <1>1, <2>1 DEF AnswerIsFound
<1>6. LateIsStale'
  BY <1>1 DEF LateIsStale
<1>7. Search!FilteredSearchIsComplete'
  <2>1. \A i \in 2..Len(<<>>) : FALSE
    OBVIOUS
  <2> QED BY <1>1, <2>1 DEF Search!FilteredSearchIsComplete
<1> QED BY <1>1, <1>3, <1>4, <1>5, <1>6, <1>7, NothingFused DEF RetrievalInv

\* What leaves the search alone.
LEMMA SearchStays ==
    ASSUME RetrievalInv, UNCHANGED <<query, index, lists, fused, answer>>, at' = "answered" => at = "answered",
           at' \in {"lexical", "vectors", "code", "fuse"} => at' = at
    PROVE  /\ RankingsMatchStep' /\ AnswerIsFound' /\ Search!FusionIsMonotone'
           /\ Search!AnswerIsDeduplicated' /\ Search!FilteredSearchIsComplete'
<1>1. RankingsMatchStep'
  BY DEF RetrievalInv, RankingsMatchStep
<1>2. Search!AnswerIsDeduplicated'
  BY DEF RetrievalInv, Search!AnswerIsDeduplicated
<1> QED BY <1>1, <1>2, FoundStays, FusionStays, FiltersStay DEF RetrievalInv

\* What is served is not late.
LEMMA CheckSelectedKeeps == ASSUME RetrievalInv, Search!CheckSelected PROVE RetrievalInv'
<1>1. at = "context" /\ context.left # <<>> /\ UNCHANGED <<query, index, lists, fused, answer, files, late, edits>>
  BY DEF Search!CheckSelected, Search!Serves
<1>2. PICK q \in Seq(Search!Chunks), v \in SUBSET Search!Chunks, b \in BOOLEAN :
         context = [left |-> q, served |-> v, strict |-> b]
  BY DEF RetrievalInv, SearchTyped
<1>3. PICK c : c = Head(q)
  OBVIOUS
<1>4. q # <<>> /\ c \in Search!Chunks /\ Tail(q) \in Seq(Search!Chunks)
  BY <1>1, <1>2, <1>3
<1>5. \/ at' = "refused" /\ context' = context
      \/ /\ context' = [left |-> Tail(q), served |-> v \cup {c}, strict |-> b] /\ at' \in {"served", "context"}
         /\ ~Search!Stale(DocumentOf[c]) \/ ~b
  BY <1>1, <1>2, <1>3 DEF Search!CheckSelected
<1>6. context' \in [left : Seq(Search!Chunks), served : SUBSET Search!Chunks, strict : BOOLEAN]
  <2>1. CASE context' = context
    BY <2>1 DEF RetrievalInv, SearchTyped
  <2>2. CASE context' = [left |-> Tail(q), served |-> v \cup {c}, strict |-> b]
    BY <1>4, <2>2
  <2> QED BY <1>5, <2>1, <2>2
<1>7. SearchTyped'
  BY <1>1, <1>5, <1>6 DEF RetrievalInv, SearchTyped, SearchSteps
<1>8. LateIsStale'
  <2>1. CASE context' = context
    BY <1>1, <2>1, LateStays DEF RetrievalInv
  <2>2. CASE /\ context' = [left |-> Tail(q), served |-> v \cup {c}, strict |-> b]
             /\ ~Search!Stale(DocumentOf[c]) \/ ~b
    <3>1. context'.served = v \cup {c} /\ context'.strict = b /\ context.served = v /\ context.strict = b
      BY <1>2, <2>2
    <3>2. ~Search!Stale(DocumentOf[c]) => DocumentOf[c] \notin late
      BY DEF Search!Stale, RetrievalInv, LateIsStale
    <3> QED BY <1>1, <2>2, <3>1, <3>2 DEF RetrievalInv, LateIsStale
  <2> QED BY <1>5, <2>1, <2>2
<1> QED BY <1>1, <1>5, <1>7, <1>8, SearchStays DEF RetrievalInv

\* A publication changes what is read next, and nothing that was read.
LEMMA RepublishKeeps == ASSUME RetrievalInv, Search!Republish PROVE RetrievalInv'
<1>1. index' = 2 /\ UNCHANGED <<query, lists, fused, answer, at, files, late, context, edits>>
  BY DEF Search!Republish
<1>2. SearchTyped'
  BY <1>1 DEF RetrievalInv, SearchTyped
<1>3. RankingsMatchStep'
  BY <1>1 DEF RetrievalInv, RankingsMatchStep
<1>4. Search!AnswerIsDeduplicated'
  BY <1>1 DEF RetrievalInv, Search!AnswerIsDeduplicated
<1> QED BY <1>1, <1>2, <1>3, <1>4, FoundStays, FusionStays, FiltersStay, LateStays DEF RetrievalInv

\* An edit makes nobody late.
LEMMA EditSourceKeeps ==
    ASSUME RetrievalInv, NEW d \in Search!Sources, NEW now \in Search!FileStates, Search!EditFile(d, now)
    PROVE  RetrievalInv'
<1>1. /\ UNCHANGED <<query, index, lists, fused, answer, at, context>>
      /\ files' = [files EXCEPT ![d] = now] /\ edits < MaxEdits /\ edits' = edits + 1
      /\ late' = IF now \in {"same", "not_utf8"} THEN late \ {d} ELSE late
  BY DEF Search!EditFile
<1>2. late' \subseteq late /\ (now \in {"same", "not_utf8"} => d \notin late')
  BY <1>1
<1>3. SearchTyped'
  <2>1. files' \in [Search!Sources -> Search!FileStates] /\ late' \subseteq Search!Sources
    BY <1>1, <1>2 DEF RetrievalInv, SearchTyped
  <2>2. edits' \in 0..MaxEdits
    BY <1>1, ServicesAssumption DEF ServicesAssumption, RetrievalInv, SearchTyped
  <2> QED BY <1>1, <2>1, <2>2 DEF RetrievalInv, SearchTyped
<1>4. LateIsStale'
  <2>1. ASSUME NEW e \in late' PROVE files'[e] \in {"changed", "gone"}
    <3>1. e \in late /\ files[e] \in {"changed", "gone"} /\ e \in Search!Sources
      BY <1>2 DEF RetrievalInv, SearchTyped, LateIsStale
    <3>2. CASE e = d
      <4>1. files'[e] = now /\ now \notin {"same", "not_utf8"}
        BY <1>1, <1>2, <3>2 DEF RetrievalInv, SearchTyped
      <4> QED BY <4>1 DEF Search!FileStates
    <3>3. CASE e # d
      BY <1>1, <3>1, <3>3 DEF RetrievalInv, SearchTyped
    <3> QED BY <3>2, <3>3
  <2> QED BY <1>1, <1>2, <2>1 DEF RetrievalInv, LateIsStale
<1> QED BY <1>1, <1>3, <1>4, SearchStays DEF RetrievalInv

\* The search that rests keeps its invariant.
LEMMA RetrievalRest == ASSUME RetrievalInv, UNCHANGED retrieval PROVE RetrievalInv'
<1>1. UNCHANGED <<query, index, lists, fused, answer, at, files, late, context, edits>>
  BY DEF retrieval
<1>2. SearchTyped'
  BY <1>1 DEF RetrievalInv, SearchTyped
<1> QED BY <1>1, <1>2, SearchStays, LateStays DEF RetrievalInv

\* So does every step of a search.
LEMMA RetrievalStep == ASSUME RetrievalInv, Search!RetrievalNext PROVE RetrievalInv'
  BY LexicalKeeps, TextVectorsKeeps, CodeVectorsKeeps, FuseKeeps, RerankKeeps, CheckSelectedKeeps,
     RepublishKeeps, AskContextKeeps, EditSourceKeeps
  DEF Search!RetrievalNext

\* A search starts with nothing found and nothing served.
LEMMA RetrievalStarts == ASSUME Search!RetrievalInit PROVE RetrievalInv
<1>1. /\ index = 1 /\ lists = <<>> /\ fused = <<>> /\ answer = <<>> /\ at = "lexical"
      /\ files = [d \in Search!Sources |-> "same"] /\ late = {}
      /\ context = [left |-> <<>>, served |-> {}, strict |-> FALSE] /\ edits = 0 /\ query \in Search!Queries
  BY DEF Search!RetrievalInit
<1>2. query.route \in {"LEXICAL_ONLY", "HYBRID", "CODE", "TEXT"} /\ query.top \in TopKs
  <2>1. \A q : Search!Route(q) \in {"LEXICAL_ONLY", "HYBRID", "CODE", "TEXT"}
    BY DEF Search!Route, Search!Scoped
  <2> QED BY <1>1, <2>1 DEF Search!Queries
<1>3. Search!Elements(<<>>) = {}
  BY DEF Search!Elements
<1>4. SearchTyped
  <2>1. lists \in Seq(Ranking) /\ fused \in Seq(Search!Chunks) /\ answer \in Seq(Search!Chunks)
    BY <1>1
  <2>2. context \in [left : Seq(Search!Chunks), served : SUBSET Search!Chunks, strict : BOOLEAN]
    BY <1>1
  <2>3. files \in [Search!Sources -> Search!FileStates] /\ late \subseteq Search!Sources
    BY <1>1 DEF Search!FileStates
  <2>4. 0 \in 0..MaxEdits /\ 1 \in 1..2
    BY ServicesAssumption DEF ServicesAssumption
  <2> QED BY <1>1, <1>2, <2>1, <2>2, <2>3, <2>4 DEF SearchTyped, SearchSteps
<1>5. RankingsMatchStep /\ AnswerIsFound /\ LateIsStale
  BY <1>1, <1>3 DEF RankingsMatchStep, AnswerIsFound, LateIsStale
<1>6. Search!FusionIsMonotone /\ Search!AnswerIsDeduplicated
  BY <1>1, <1>3 DEF Search!FusionIsMonotone, Search!AnswerIsDeduplicated
<1>7. Search!FilteredSearchIsComplete
  <2>1. \A i \in 2..Len(<<>>) : FALSE
    OBVIOUS
  <2> QED BY <1>1, <2>1 DEF Search!FilteredSearchIsComplete
<1> QED BY <1>4, <1>5, <1>6, <1>7 DEF RetrievalInv

\* The invariant implies what a search promises.
LEMMA RetrievalImplies == ASSUME RetrievalInv PROVE RetrievalIsExact
<1>1. Search!RetrievalTypeOK
  <2>1. lists \in Seq(Ranking) /\ \A i \in 1..Len(lists) : lists[i] \in Ranking
    BY DEF RetrievalInv, SearchTyped
  <2>2. \A i \in 1..Len(lists) : lists[i].version \in 1..2 /\ lists[i].found \in Seq(Search!Chunks)
    BY <2>1 DEF Ranking
  <2>3. \A s \in Seq(Search!Chunks) : Search!Elements(s) \subseteq Search!Chunks
    BY DEF Search!Elements
  <2> QED BY <2>2, <2>3 DEF Search!RetrievalTypeOK, RetrievalInv, SearchTyped, SearchSteps, AnswerIsFound
<1>2. Search!ContextIsCurrent
  BY DEF Search!ContextIsCurrent, RetrievalInv, LateIsStale
<1> QED BY <1>1, <1>2 DEF RetrievalIsExact, RetrievalInv

-----------------------------------------------------------------------------
(* The services together.                                                    *)

IndexServicesInv ==
    TestsInv /\ RecoveryInv /\ ModelsInv /\ StagingInv /\ FilesInv /\ LexicalInv /\ RetrievalInv

\* Every service starts as its own initial condition says.
LEMMA IndexServicesInit == Init => IndexServicesInv
  BY TestsInit, RecoveryInit, ModelsInit, StagingInit, FilesInit, LexicalInit, RetrievalStarts DEF Init, IndexServicesInv

\* A step is one of a single service, and the others rest.
LEMMA IndexServicesStep == ASSUME IndexServicesInv, [Next]_vars PROVE IndexServicesInv'
<1>1. TestsInv'
  <2>1. Tests!GenerationNext \/ UNCHANGED tests
    BY DEF Next, vars
  <2> QED BY <2>1, TestsStep, TestsRest DEF IndexServicesInv
<1>2. RecoveryInv'
  <2>1. Recovery!RecoveryNext \/ UNCHANGED recovery
    BY DEF Next, vars
  <2> QED BY <2>1, RecoveryStep, RecoveryRest DEF IndexServicesInv
<1>3. ModelsInv'
  <2>1. Model!ModelNext \/ UNCHANGED models
    BY DEF Next, vars
  <2> QED BY <2>1, ModelsStep, ModelsRest DEF IndexServicesInv
<1>4. StagingInv'
  <2>1. Staging!IndexNext \/ UNCHANGED staging
    BY DEF Next, vars
  <2> QED BY <2>1, StagingStep, StagingRest DEF IndexServicesInv
<1>5. FilesInv'
  <2>1. Files!FilesNext \/ UNCHANGED incremental
    BY DEF Next, vars
  <2> QED BY <2>1, FilesStep, FilesRest DEF IndexServicesInv
<1>6. LexicalInv'
  <2>1. Lexical!StoreNext \/ UNCHANGED lexical
    BY DEF Next, vars
  <2> QED BY <2>1, LexicalStep, LexicalRest DEF IndexServicesInv
<1>7. RetrievalInv'
  <2>1. Search!RetrievalNext \/ UNCHANGED retrieval
    BY DEF Next, vars
  <2> QED BY <2>1, RetrievalStep, RetrievalRest DEF IndexServicesInv
<1> QED BY <1>1, <1>2, <1>3, <1>4, <1>5, <1>6, <1>7 DEF IndexServicesInv

\* Every service keeps its inductive invariant, for any documents, files, models,
\* generations, workers and bounds.
THEOREM IndexServicesAreSound == Spec => []IndexServicesInv
<1>1. Init => IndexServicesInv
  BY IndexServicesInit
<1>2. IndexServicesInv /\ [Next]_vars => IndexServicesInv'
  BY IndexServicesStep
<1> QED BY <1>1, <1>2, PTL DEF Spec

\* The generation a test reader searches exists, and an interrupted switch can be
\* decided (test_generation.py), for any number of writers, readers and
\* generations, however their steps interleave and wherever one dies.
THEOREM TestGenerationsStaySafe == Spec => []TestGenerationsAreSafe
<1>1. IndexServicesInv => TestGenerationsAreSafe
  BY TestsImply DEF IndexServicesInv, TestGenerationsAreSafe
<1> QED BY <1>1, IndexServicesAreSound, PTL

\* A recovery that is recorded as verified has put everything back, and one run
\* records it (the updater's recovery), for any number of workers, files, shell
\* items, attempts and deaths.
THEOREM RecoveryStaysTrue == Spec => []RecoveryIsTrue
<1>1. IndexServicesInv => RecoveryIsTrue
  BY RecoveryImplies DEF IndexServicesInv
<1> QED BY <1>1, IndexServicesAreSound, PTL

\* One model's process runs at a time, what was released is gone, and only a whole
\* file is taken for a model (ModelManager and the installer of models), for any
\* number of starts, calls, outages and installations.
THEOREM ModelsStayExclusive == Spec => []ModelsAreExclusive
<1>1. IndexServicesInv => ModelsAreExclusive
  BY ModelsImply DEF IndexServicesInv
<1> QED BY <1>1, IndexServicesAreSound, PTL

\* The stores of an index whose manifest is in place agree, the index in use is
\* never lost, a merge keeps the documents that were there, and what the
\* incremental manifest names is embedded, for any documents, contents, changes
\* and faults.
THEOREM IndexesStayWhole == Spec => []IndexesAreWhole
<1>1. IndexServicesInv => IndexesAreWhole
  BY StagingImplies, FilesImply DEF IndexServicesInv, IndexesAreWhole
<1> QED BY <1>1, IndexServicesAreSound, PTL

\* A search ranks, filters and deduplicates as promised, and a context that names
\* the project's root and allows nothing stale serves no stale chunk: what stands first in every ranking stands first in the fused one, no two answers
\* are alike and nothing else is dropped, a short filtered search found all there is
\* (src/rag/ranking, src/rag/retrieval, context_service.py), for any chunks, documents,
\* limits, orders of the stores, publications and edits.
THEOREM RetrievalStaysExact == Spec => []RetrievalIsExact
<1>1. IndexServicesInv => RetrievalIsExact
  BY RetrievalImplies DEF IndexServicesInv
<1> QED BY <1>1, IndexServicesAreSound, PTL

\* A lexical search finds the rows that hold a word and no others, and the deletion
\* of a project takes all of its own and nothing of another (sqlite_schema.py,
\* fts5.py, lexical_search.py and purge.py), for any documents, words and rows.
THEOREM LexicalStaysExact == Spec => LexicalIsExact
<1>1. IndexServicesInv => (part = "lexical" => Lexical!StoreTypeOK /\ Lexical!SearchIsExact)
  BY StoreIsTyped, SearchFinds DEF IndexServicesInv
<1>2. IndexServicesInv /\ IndexServicesInv' /\ [Next]_vars =>
         [/\ purge.at = "manifest" /\ purge'.at = "done" => Lexical!Gone(purge.project)'
          /\ ~Lexical!Idle => \A p \in Lexical!Projects \ {purge.project} :
                 Lexical!Share(p)' = Lexical!Share(p)]_(Lexical!storeVars)
  <2> SUFFICES ASSUME IndexServicesInv, IndexServicesInv', [Next]_vars
               PROVE  /\ purge.at = "manifest" /\ purge'.at = "done" => Lexical!Gone(purge.project)'
                      /\ ~Lexical!Idle => \A p \in Lexical!Projects \ {purge.project} :
                             Lexical!Share(p)' = Lexical!Share(p)
    OBVIOUS
  <2>1. Lexical!StoreNext \/ UNCHANGED lexical
    BY DEF Next, vars
  <2> QED BY <2>1, PurgeLeavesNothing, SharesStay DEF IndexServicesInv
<1>3. []IndexServicesInv /\ [][Next]_vars => Lexical!PurgeIsExact
  BY <1>2, PTL DEF Lexical!PurgeIsExact
<1> QED BY <1>1, <1>3, IndexServicesAreSound, PTL DEF Spec, LexicalIsExact

-----------------------------------------------------------------------------
(* The queue of index events, for any number of jobs, workers, attempts,      *)
(* failures and any lengths of lease and lag: its inductive invariant.         *)

\* What a row's state says about its attempts: one more is left in RETRY, and a
\* first one in PENDING.
AttemptsMatchState ==
    \A j \in Jobs :
        /\ attempts[j] <= MaxClaims
        /\ state[j] = "RETRY" => attempts[j] < MaxClaims
        /\ state[j] \in {"ABSENT", "PENDING"} => attempts[j] = 0

\* A worker past its claim has a job, and one about to commit a good bundle.
WorkersMatchStep ==
    \A w \in OfflineWorkers :
        /\ step[w] \notin {"idle", "claiming"} => job[w] \in Jobs
        /\ step[w] = "commit" => built[w] = "observed"

QueueInv ==
    /\ QueueTypeOK
    /\ AttemptsMatchState
    /\ WorkersMatchStep
    /\ StagedMatchesEvent

\* Nothing is queued at first.
LEMMA QueueStarts == QueueInit => QueueInv
BY BoundsAssumption
   DEF QueueInit, QueueInv, QueueTypeOK, AttemptsMatchState, WorkersMatchStep, StagedMatchesEvent,
       States, Concluded, Steps, InTransaction, Bundles

\* Returning leaves a worker typed and without a job.
LEMMA ReturnTyped ==
    ASSUME QueueInv, NEW w \in OfflineWorkers, Return(w)
    PROVE  /\ step' \in [OfflineWorkers -> Steps] /\ job' \in [OfflineWorkers -> Jobs \cup {0}]
           /\ token' \in [OfflineWorkers -> Nat] /\ lag' \in [OfflineWorkers -> 0..MaxLag]
           /\ built' \in [OfflineWorkers -> Bundles]
           /\ beat' \in [OfflineWorkers -> {"off", "waiting", "renewing"}]
           /\ beatlag' \in [OfflineWorkers -> 0..MaxLag] /\ lost' \in [OfflineWorkers -> BOOLEAN]
           /\ WorkersMatchStep'
BY BoundsAssumption
   DEF QueueInv, QueueTypeOK, WorkersMatchStep, Return, Goto, Steps, InTransaction, Bundles

\* A row that gives its lease up has a lease of no ticks.
LEMMA UnleaseTyped ==
    ASSUME QueueInv, NEW w \in OfflineWorkers, Unlease(w)
    PROVE  ttl' \in [Jobs -> (-MaxLag)..Lease]
<1>1. 0 \in (-MaxLag)..Lease
  BY BoundsAssumption
<1> QED
  BY <1>1 DEF Unlease, QueueInv, QueueTypeOK

\* What expires has its attempts counted; other rows stay.
LEMMA ExpireKeeps ==
    ASSUME QueueInv, NEW delay \in 0..MaxLag, NEW j \in Jobs
    PROVE  /\ Expire(delay)[j] \in States
           /\ Expire(delay)[j] \in {"PENDING", "RETRY"} => attempts[j] < MaxClaims
           /\ Expire(delay)[j] \in {"ABSENT", "PENDING"} => attempts[j] = 0
           /\ Expire(delay)[j] = "STAGED_OFFLINE_VALIDATED" <=>
                 state[j] = "STAGED_OFFLINE_VALIDATED"
           /\ state[j] \in Concluded => Expire(delay)[j] = state[j]
           /\ state[j] = "CLAIMED" /\ ttl[j] > 0 => Expire(delay)[j] = "CLAIMED"
<1> USE BoundsAssumption DEF QueueInv, QueueTypeOK, AttemptsMatchState, States, Concluded
<1>1. CASE j \notin Expired(delay)
  <2>1. Expire(delay)[j] = state[j]
    BY <1>1 DEF Expire
  <2>2. MaxClaims > 0
    OBVIOUS
  <2> QED
    BY <2>1, <2>2
<1>2. CASE j \in Expired(delay)
  <2>1. state[j] = "CLAIMED" /\ ~(ttl[j] > 0)
    BY <1>2 DEF Expired
  <2>2. Expire(delay)[j] = IF attempts[j] >= MaxClaims THEN "FAILED" ELSE "RETRY"
    BY <1>2 DEF Expire
  <2> QED
    BY <2>1, <2>2
<1> QED
  BY <1>1, <1>2

\* The rows a claim decides about, were waiting once leases expired.
LEMMA ScanSound ==
    ASSUME NEW rows1, NEW delay \in 0..MaxLag
    PROVE  /\ Reservable(rows1, delay) \subseteq Jobs
           /\ \A j \in Reservable(rows1, delay) \cup Rejected(rows1, delay) :
                 rows1[j] \in {"PENDING", "RETRY"}
           /\ \A j \in Reservable(rows1, delay) : j \notin Rejected(rows1, delay)
BY DEF Reservable, Rejected, Scanned, Due

\* A claim takes a job that had an attempt left, and concludes no other row.
LEMMA ClaimInv ==
    ASSUME QueueInv, NEW w \in OfflineWorkers, Claim(w)
    PROVE  QueueInv'
<1> DEFINE delay  == lag[w]
           after == Expire(delay)
           taken == Reservable(after, delay)
           gone  == Rejected(after, delay)
<1>1. delay \in 0..MaxLag
  BY DEF QueueInv, QueueTypeOK
<1>2. /\ state' = [j \in Jobs |-> IF j \in taken THEN "CLAIMED"
                               ELSE IF j \in gone THEN "REJECTED" ELSE after[j]]
      /\ attempts' = [j \in Jobs |-> IF j \in taken THEN attempts[j] + 1 ELSE attempts[j]]
      /\ ttl' = [j \in Jobs |-> IF j \in taken THEN Lease - delay
                               ELSE IF j \in Expired(delay) THEN 0 ELSE ttl[j]]
      /\ wait' = [j \in Jobs |-> IF j \in Expired(delay) THEN -delay ELSE wait[j]]
      /\ UNCHANGED <<receipt, sourceOf, failures>>
  BY DEF Claim
<1>3. taken \subseteq Jobs /\ \A j \in taken \cup gone : after[j] \in {"PENDING", "RETRY"}
  BY <1>1, ScanSound
<1> HIDE DEF delay, after, taken, gone
<1>4. \A j \in Jobs :
         /\ after[j] \in States
         /\ after[j] \in {"PENDING", "RETRY"} => attempts[j] < MaxClaims
         /\ after[j] \in {"ABSENT", "PENDING"} => attempts[j] = 0
         /\ after[j] = "STAGED_OFFLINE_VALIDATED" <=> state[j] = "STAGED_OFFLINE_VALIDATED"
  BY <1>1, ExpireKeeps DEF after
<1>5. /\ state' \in [Jobs -> States] /\ attempts' \in [Jobs -> Nat]
      /\ ttl' \in [Jobs -> (-MaxLag)..Lease] /\ wait' \in [Jobs -> Int]
      /\ receipt' \in [Jobs -> Bundles]
      /\ sourceOf' \in [Jobs -> {"committed", "superseded", "changed"}]
      /\ failures' \in Nat
  BY <1>1, <1>2, <1>4, BoundsAssumption DEF QueueInv, QueueTypeOK, States, Concluded
<1>6. AttemptsMatchState' /\ StagedMatchesEvent'
  <2> SUFFICES ASSUME NEW j \in Jobs
               PROVE  /\ attempts'[j] <= MaxClaims
                      /\ state'[j] = "RETRY" => attempts'[j] < MaxClaims
                      /\ state'[j] \in {"ABSENT", "PENDING"} => attempts'[j] = 0
                      /\ receipt'[j] # "none" <=> state'[j] = "STAGED_OFFLINE_VALIDATED"
                      /\ receipt'[j] # "other"
    BY DEF AttemptsMatchState, StagedMatchesEvent
  <2> QED
    BY <1>2, <1>3, <1>4, BoundsAssumption
       DEF QueueInv, QueueTypeOK, AttemptsMatchState, StagedMatchesEvent
<1>7. CASE Return(w)
  BY <1>5, <1>6, <1>7, ReturnTyped DEF QueueInv, QueueTypeOK
<1>8. CASE taken # {} /\ ~Return(w)
  <2>1. PICK j \in taken : job' = [job EXCEPT ![w] = j]
    BY <1>8 DEF Claim, delay, after, taken
  <2>2. /\ Goto(w, "building") /\ token' = [token EXCEPT ![w] = attempts'[job'[w]]]
        /\ beat' = [beat EXCEPT ![w] = "waiting"] /\ UNCHANGED <<built, beatlag, lost>>
    BY <1>8 DEF Claim, delay, after, taken
  <2>3. job'[w] \in Jobs
    BY <1>3, <2>1 DEF QueueInv, QueueTypeOK
  <2>4. attempts'[job'[w]] \in Nat
    BY <1>5, <2>3
  <2> QED
    BY <1>3, <1>5, <1>6, <2>1, <2>2, <2>3, <2>4, BoundsAssumption
       DEF QueueInv, QueueTypeOK, WorkersMatchStep, Goto, Steps, InTransaction
<1> QED
  BY <1>7, <1>8 DEF Claim, delay, after, taken

\* A renewal sets the lease to at most its full length.
LEMMA RenewInv ==
    ASSUME QueueInv, NEW w \in OfflineWorkers, Renew(w), Holds(w, beatlag[w])
    PROVE  QueueInv'
<1> DEFINE fresh == Lease - beatlag[w]
<1>1. fresh \in (-MaxLag)..Lease
  BY BoundsAssumption DEF QueueInv, QueueTypeOK
<1>2. /\ ttl' = [ttl EXCEPT ![job[w]] = fresh]
      /\ beat' = [beat EXCEPT ![w] = "waiting"]
      /\ beatlag' = [beatlag EXCEPT ![w] = 0]
      /\ UNCHANGED <<lost, state, attempts, wait, receipt, sourceOf, workers, failures>>
  BY DEF Renew
<1> HIDE DEF fresh
<1>3. ttl' \in [Jobs -> (-MaxLag)..Lease]
  BY <1>1, <1>2 DEF QueueInv, QueueTypeOK
<1>4. beatlag' \in [OfflineWorkers -> 0..MaxLag]
  BY <1>2, BoundsAssumption DEF QueueInv, QueueTypeOK
<1>5. beat' \in [OfflineWorkers -> {"off", "waiting", "renewing"}]
  BY <1>2 DEF QueueInv, QueueTypeOK
<1> QED
  BY <1>2, <1>3, <1>4, <1>5
     DEF QueueInv, QueueTypeOK, AttemptsMatchState, WorkersMatchStep, StagedMatchesEvent, workers

\* The acknowledgment stages a good bundle of a reservation that stands, or
\* leaves the rows alone.
LEMMA AckCommitsInv ==
    ASSUME QueueInv, NEW w \in OfflineWorkers, AckCommits(w)
    PROVE  QueueInv'
<1>1. CASE ~Holds(w, lag[w])
  <2>1. /\ step[w] = "commit" /\ Goto(w, "rejected")
        /\ UNCHANGED <<rows, job, token, built, beats, sourceOf, failures>>
    BY <1>1 DEF AckCommits, rows
  <2> QED
    BY <2>1, BoundsAssumption
    DEF Goto, QueueInv, QueueTypeOK, AttemptsMatchState, WorkersMatchStep, StagedMatchesEvent, Steps,
        InTransaction, rows, beats
<1>2. CASE Holds(w, lag[w])
  <2>1. Stage(w) /\ Return(w) /\ UNCHANGED <<attempts, wait, sourceOf, failures>>
    BY <1>2 DEF AckCommits
  <2>2. step[w] = "commit" /\ job[w] # 0 /\ state[job[w]] = "CLAIMED"
    BY <1>2 DEF AckCommits, Holds
  <2>3. built[w] = "observed" /\ job[w] \in Jobs
    BY <2>2 DEF QueueInv, QueueTypeOK, WorkersMatchStep
  <2>4. ttl' \in [Jobs -> (-MaxLag)..Lease]
    BY <2>1, UnleaseTyped DEF Stage
  <2>5. QueueTypeOK'
    BY <2>1, <2>3, <2>4, ReturnTyped DEF Stage, QueueInv, QueueTypeOK, States, Concluded, Bundles
  <2>6. AttemptsMatchState' /\ StagedMatchesEvent'
    BY <2>1, <2>2, <2>3 DEF Stage, QueueInv, QueueTypeOK, AttemptsMatchState, StagedMatchesEvent
  <2> QED
    BY <2>1, <2>5, <2>6, ReturnTyped DEF QueueInv
<1> QED
  BY <1>1, <1>2

\* A failure is recorded for the reservation that stands, or for none.
LEMMA ReportsInv ==
    ASSUME QueueInv, NEW w \in OfflineWorkers, Reports(w)
    PROVE  QueueInv'
<1>1. Return(w) /\ UNCHANGED <<attempts, receipt, sourceOf, failures>>
  BY DEF Reports
<1>2. ttl' \in [Jobs -> (-MaxLag)..Lease]
  BY UnleaseTyped DEF Reports, QueueInv, QueueTypeOK
<1>3. CASE ~Holds(w, lag[w])
  <2>1. UNCHANGED <<state, wait>>
    BY <1>3 DEF Reports
  <2> QED
    BY <1>1, <1>2, <2>1, ReturnTyped DEF QueueInv, QueueTypeOK, AttemptsMatchState, StagedMatchesEvent
<1>4. CASE Holds(w, lag[w])
  <2> DEFINE again == attempts[job[w]] < MaxClaims
  <2>1. /\ state' = [state EXCEPT ![job[w]] = IF again THEN "RETRY" ELSE "FAILED"]
        /\ wait' = [wait EXCEPT ![job[w]] = (IF again THEN RetryDelay ELSE 0) - lag[w]]
        /\ job[w] \in Jobs /\ state[job[w]] = "CLAIMED"
    BY <1>4 DEF Reports, Holds, QueueInv, QueueTypeOK
  <2>2. wait' \in [Jobs -> Int]
    BY <2>1, BoundsAssumption DEF QueueInv, QueueTypeOK
  <2>3. QueueTypeOK'
    BY <1>1, <1>2, <2>1, <2>2, ReturnTyped DEF QueueInv, QueueTypeOK, States, Concluded
  <2>4. AttemptsMatchState' /\ StagedMatchesEvent'
    BY <1>1, <2>1 DEF QueueInv, QueueTypeOK, AttemptsMatchState, StagedMatchesEvent
  <2> QED
    BY <2>3, <2>4, <1>1, ReturnTyped DEF QueueInv
<1> QED
  BY <1>3, <1>4

\* Every other step keeps the invariant.
LEMMA OtherInv ==
    ASSUME QueueInv, [QueueNext]_queueVars, ~\E w \in OfflineWorkers : Claim(w)
    PROVE  QueueInv'
<1>0. \A w \in OfflineWorkers : Renew(w) /\ Holds(w, beatlag[w]) => QueueInv'
  BY RenewInv
<1>a. \A w \in OfflineWorkers : AckCommits(w) \/ Reports(w) => QueueInv'
  BY AckCommitsInv, ReportsInv
<1> USE BoundsAssumption
    DEF QueueInv, QueueTypeOK, AttemptsMatchState, WorkersMatchStep, StagedMatchesEvent, States,
        Concluded, Steps, InTransaction, Bundles, rows, workers, beats, Goto
<1>1. ASSUME NEW j \in Jobs, NEW n \in 0..Debounce, Enqueue(j, n) PROVE QueueInv'
  BY <1>1 DEF Enqueue
<1>2. ASSUME NEW j \in Jobs, NEW s \in {"committed", "superseded", "changed"},
             SourceMoves(j, s)
      PROVE  QueueInv'
  BY <1>2 DEF SourceMoves
<1>3. ASSUME NEW w \in OfflineWorkers, Begin(w) \/ BuildFails(w) \/ AckLooks(w) \/ AckRefuses(w)
      PROVE  QueueInv'
  BY <1>3 DEF Begin, BuildFails, AckLooks, AckRefuses
<1>4. ASSUME NEW w \in OfflineWorkers, Build(w) PROVE QueueInv'
  BY <1>4 DEF Build
<1>5. ASSUME NEW w \in OfflineWorkers, AckValidates(w) PROVE QueueInv'
  BY <1>5 DEF AckValidates
<1>6. ASSUME NEW w \in OfflineWorkers, Beat(w) \/ (Renew(w) /\ ~Holds(w, beatlag[w])) PROVE QueueInv'
  <2>1. CASE Beat(w)
    BY <2>1 DEF Beat
  <2>3. CASE Renew(w) /\ ~Holds(w, beatlag[w])
    <3>1. BeatEnds(w) /\ UNCHANGED <<ttl, state, attempts, wait, receipt, sourceOf, workers, failures>>
      BY <2>3 DEF Renew
    <3> QED
      BY <3>1 DEF BeatEnds
  <2> QED
    BY <1>6, <2>1, <2>3
<1>7. ASSUME NEW w \in OfflineWorkers, Busy(w) \/ BeatBusy(w) \/ Crash(w) PROVE QueueInv'
  <2>1. failures' \in Nat
    BY <1>7 DEF Busy, BeatBusy, Crash, Fail
  <2>2. CASE Return(w) /\ UNCHANGED <<rows, sourceOf>>
    BY <2>1, <2>2, ReturnTyped
  <2>3. CASE BeatBusy(w)
    BY <2>1, <2>3 DEF BeatBusy, BeatEnds
  <2>4. CASE Busy(w) /\ ~Return(w)
    BY <2>1, <2>4 DEF Busy
  <2> QED
    BY <1>7, <2>2, <2>3, <2>4 DEF Busy, Crash
<1>8. CASE Tick
  BY <1>8 DEF Tick, Floor
<1>9. CASE UNCHANGED queueVars
  BY <1>9 DEF queueVars
<1> QED
  BY <1>0, <1>a, <1>1, <1>2, <1>3, <1>4, <1>5, <1>6, <1>7, <1>8, <1>9 DEF QueueNext, Work

\* The invariant holds in every state.
THEOREM QueueIsSound == QueueSpec => []QueueInv
<1>1. QueueInv /\ [QueueNext]_queueVars => QueueInv'
  BY ClaimInv, OtherInv
<1> QED
  BY <1>1, QueueStarts, PTL DEF QueueSpec

\* Every variable keeps its type.
THEOREM QueueIsTyped == QueueSpec => []QueueTypeOK
<1>1. QueueInv => QueueTypeOK
  BY DEF QueueInv
<1> QED
  BY <1>1, QueueIsSound, PTL

\* No job is reserved more often than MaxClaims.
THEOREM AttemptsBounded == QueueSpec => []AttemptsAreBounded
<1>1. QueueInv => AttemptsAreBounded
  BY DEF QueueInv, AttemptsMatchState, AttemptsAreBounded
<1> QED
  BY <1>1, QueueIsSound, PTL

\* Receipts and staged jobs correspond, and carry the observed content.
THEOREM ReceiptsMatch == QueueSpec => []StagedMatchesEvent
<1>1. QueueInv => StagedMatchesEvent
  BY DEF QueueInv
<1> QED
  BY <1>1, QueueIsSound, PTL

-----------------------------------------------------------------------------
(* What a step may do to a row. *)

\* Only Enqueue, a claim, an acknowledgment or a report changes the state, the
\* attempts or the receipt of a row.
LEMMA WhoWritesRows ==
    ASSUME [QueueNext]_queueVars
    PROVE  \/ UNCHANGED <<state, attempts, receipt>>
           \/ \E j \in Jobs, n \in 0..Debounce : Enqueue(j, n)
           \/ \E w \in OfflineWorkers : Claim(w) \/ AckCommits(w) \/ Reports(w)
<1>1. ASSUME NEW w \in OfflineWorkers,
             \/ Begin(w) \/ Build(w) \/ BuildFails(w) \/ AckLooks(w) \/ AckValidates(w)
             \/ AckRefuses(w) \/ Beat(w) \/ Renew(w) \/ Busy(w) \/ BeatBusy(w) \/ Crash(w)
      PROVE  UNCHANGED <<state, attempts, receipt>>
  BY <1>1 DEF Begin, Build, BuildFails, AckLooks, AckValidates, AckRefuses, Beat, Renew,
      Busy, BeatBusy, Crash, rows
<1>2. ASSUME NEW j \in Jobs, NEW s \in {"committed", "superseded", "changed"},
             SourceMoves(j, s)
      PROVE  UNCHANGED <<state, attempts, receipt>>
  BY <1>2 DEF SourceMoves, rows
<1>3. CASE Tick \/ UNCHANGED queueVars
  BY <1>3 DEF Tick, queueVars, rows
<1> QED
  BY <1>1, <1>2, <1>3 DEF QueueNext, Work

\* What a claim does to a single row.
LEMMA ClaimOfRow ==
    ASSUME QueueInv, NEW w \in OfflineWorkers, Claim(w), NEW j \in Jobs
    PROVE  /\ UNCHANGED receipt
           /\ state[j] \in Concluded => state'[j] = state[j] /\ attempts'[j] = attempts[j]
           /\ state[j] = "CLAIMED" /\ ttl[j] > 0 =>
                 state'[j] = "CLAIMED" /\ attempts'[j] = attempts[j]
<1> DEFINE delay  == lag[w]
           after == Expire(delay)
           taken == Reservable(after, delay)
           gone  == Rejected(after, delay)
<1>1. delay \in 0..MaxLag
  BY DEF QueueInv, QueueTypeOK
<1>2. /\ state'[j] = IF j \in taken THEN "CLAIMED"
                     ELSE IF j \in gone THEN "REJECTED" ELSE after[j]
      /\ attempts'[j] = IF j \in taken THEN attempts[j] + 1 ELSE attempts[j]
      /\ UNCHANGED receipt
  BY DEF Claim
<1>3. \A i \in taken \cup gone : after[i] \in {"PENDING", "RETRY"}
  BY <1>1, ScanSound
<1>4. /\ state[j] \in Concluded => after[j] = state[j]
      /\ state[j] = "CLAIMED" /\ ttl[j] > 0 => after[j] = "CLAIMED"
  BY <1>1, ExpireKeeps
<1> HIDE DEF delay, after, taken, gone
<1> QED
  BY <1>2, <1>3, <1>4 DEF Concluded

\* A concluded job never changes again.
THEOREM ConcludedForGood == QueueSpec => ConcludedIsFinal
<1> DEFINE Final == \A j \in Jobs : state[j] \in Concluded =>
              state'[j] = state[j] /\ receipt'[j] = receipt[j] /\ attempts'[j] = attempts[j]
<1>1. ASSUME QueueInv, [QueueNext]_queueVars PROVE Final
  <2> SUFFICES ASSUME NEW j \in Jobs, state[j] \in Concluded
               PROVE  /\ state'[j] = state[j] /\ receipt'[j] = receipt[j]
                      /\ attempts'[j] = attempts[j]
    OBVIOUS
  <2>1. CASE UNCHANGED <<state, attempts, receipt>>
    BY <2>1
  <2>2. ASSUME NEW i \in Jobs, NEW n \in 0..Debounce, Enqueue(i, n)
        PROVE  /\ state'[j] = state[j] /\ receipt'[j] = receipt[j]
               /\ attempts'[j] = attempts[j]
    BY <1>1, <2>2 DEF Enqueue, Concluded, QueueInv, QueueTypeOK
  <2>3. ASSUME NEW w \in OfflineWorkers, Claim(w)
        PROVE  /\ state'[j] = state[j] /\ receipt'[j] = receipt[j]
               /\ attempts'[j] = attempts[j]
    BY <1>1, <2>3, ClaimOfRow
  <2>4. ASSUME NEW w \in OfflineWorkers, AckCommits(w) \/ Reports(w)
        PROVE  /\ state'[j] = state[j] /\ receipt'[j] = receipt[j]
               /\ attempts'[j] = attempts[j]
    BY <1>1, <2>4 DEF AckCommits, Reports, Stage, Holds, Concluded, QueueInv, QueueTypeOK
  <2> QED
    BY <1>1, <2>1, <2>2, <2>3, <2>4, WhoWritesRows
<1>2. QueueInv /\ [QueueNext]_queueVars => [Final]_queueVars
  BY <1>1
<1> QED
  BY <1>2, QueueIsSound, PTL DEF QueueSpec, ConcludedIsFinal

\* While the lease runs, only the worker with the token ends a reservation.
THEOREM LiveReservations == QueueSpec => LiveReservationIsTheOwners
<1> DEFINE Owned == \A j \in Jobs :
              state[j] = "CLAIMED" /\ ttl[j] > 0
              /\ (state'[j] # "CLAIMED" \/ attempts'[j] # attempts[j]) =>
                  \E w \in OfflineWorkers : /\ job[w] = j /\ token[w] = attempts[j]
                                            /\ step[w] # "idle" /\ step'[w] = "idle"
<1>1. ASSUME QueueInv, [QueueNext]_queueVars PROVE Owned
  <2> SUFFICES ASSUME NEW j \in Jobs, state[j] = "CLAIMED", ttl[j] > 0,
                      state'[j] # "CLAIMED" \/ attempts'[j] # attempts[j]
               PROVE  \E w \in OfflineWorkers : /\ job[w] = j /\ token[w] = attempts[j]
                                                /\ step[w] # "idle" /\ step'[w] = "idle"
    OBVIOUS
  <2>1. ~UNCHANGED <<state, attempts, receipt>>
    OBVIOUS
  <2>2. ASSUME NEW i \in Jobs, NEW n \in 0..Debounce, Enqueue(i, n) PROVE FALSE
    BY <1>1, <2>2 DEF Enqueue, QueueInv, QueueTypeOK
  <2>3. ASSUME NEW w \in OfflineWorkers, Claim(w) PROVE FALSE
    BY <1>1, <2>3, ClaimOfRow
  <2>4. ASSUME NEW w \in OfflineWorkers, AckCommits(w) \/ Reports(w)
        PROVE  /\ job[w] = j /\ token[w] = attempts[j]
               /\ step[w] # "idle" /\ step'[w] = "idle"
    BY <1>1, <2>4 DEF AckCommits, Reports, Stage, Holds, Return, Goto, QueueInv, QueueTypeOK
  <2> QED
    BY <1>1, <2>1, <2>2, <2>3, <2>4, WhoWritesRows
<1>2. QueueInv /\ [QueueNext]_queueVars => [Owned]_queueVars
  BY <1>1
<1> QED
  BY <1>2, QueueIsSound, PTL DEF QueueSpec, LiveReservationIsTheOwners
=============================================================================
