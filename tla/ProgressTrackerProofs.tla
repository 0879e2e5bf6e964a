------------------------ MODULE ProgressTrackerProofs ------------------------
(***************************************************************************)
(* However many coroutines share a tracker, and however their reports      *)
(* interleave or fail, nobody is shown work that was not done; as long as  *)
(* they take turns, no item and no note is lost, and what is shown grows.  *)
(***************************************************************************)
EXTENDS ProgressTracker, TLAPS

(* x or 0 is a number for every field of a state. *)
LEMMA NumIsNat == ASSUME NEW x \in Counter PROVE Num(x) \in Nat
BY NoneIsNoNumber DEF Num, Counter

(* The object a tracker starts with. *)
LEMMA EmptyIsState == EmptyState \in State
BY DEF EmptyState, State, Counter

(* One item more in a counter is again a counter. *)
LEMMA NumPlusOne == ASSUME NEW x \in Counter PROVE Num(x) + 1 \in Counter
BY NumIsNat DEF Counter

(* Registering an item gives a state whose count is one more ... *)
LEMMA RegisteredIsState ==
  ASSUME NEW s \in State, NEW r \in Registered(s)
  PROVE  r \in State
<1>1. /\ Num(s.done) + 1 \in Counter /\ Num(s.success) + 1 \in Counter
      /\ Num(s.failed) + 1 \in Counter /\ Num(s.skipped) + 1 \in Counter
  BY NumPlusOne DEF State
<1>2. CASE r = RegisterSuccessful(s, 1)
  BY <1>1, <1>2 DEF RegisterSuccessful, State
<1>3. CASE r = RegisterFailedWithDetails(s)
  BY <1>1, <1>3 DEF RegisterFailedWithDetails, State
<1>4. CASE r = RegisterSkipped(s, 1)
  BY <1>1, <1>4 DEF RegisterSkipped, State
<1> QED
  BY <1>2, <1>3, <1>4 DEF Registered

(* ... and still has an outcome for each item that is done. *)
LEMMA RegisteredCounts ==
  ASSUME NEW s \in State, NEW r \in Registered(s)
  PROVE  /\ Num(r.done) = Num(s.done) + 1
         /\ Num(s.done) = Num(s.success) + Num(s.failed) + Num(s.skipped)
              => Num(r.done) = Num(r.success) + Num(r.failed) + Num(r.skipped)
<1>1. /\ Num(s.done) \in Nat /\ Num(s.success) \in Nat
      /\ Num(s.failed) \in Nat /\ Num(s.skipped) \in Nat
  BY NumIsNat DEF State
<1>2. \A m \in Nat : Num(m) = m /\ m + 1 \in Nat
  BY NoneIsNoNumber DEF Num
<1>3. CASE r = RegisterSuccessful(s, 1)
  <2>1. /\ r.done = Num(s.done) + 1 /\ r.success = Num(s.success) + 1
        /\ r.failed = s.failed /\ r.skipped = s.skipped
    BY <1>3 DEF RegisterSuccessful, State
  <2> QED
    BY <1>1, <1>2, <2>1
<1>4. CASE r = RegisterFailedWithDetails(s)
  <2>1. /\ r.done = Num(s.done) + 1 /\ r.failed = Num(s.failed) + 1
        /\ r.success = s.success /\ r.skipped = s.skipped
    BY <1>4 DEF RegisterFailedWithDetails, State
  <2> QED
    BY <1>1, <1>2, <2>1
<1>5. CASE r = RegisterSkipped(s, 1)
  <2>1. /\ r.done = Num(s.done) + 1 /\ r.skipped = Num(s.skipped) + 1
        /\ r.success = s.success /\ r.failed = s.failed
    BY <1>5 DEF RegisterSkipped, State
  <2> QED
    BY <1>1, <1>2, <2>1
<1> QED
  BY <1>3, <1>4, <1>5 DEF Registered

(* Rebuilding an object from what is stored loses no field. *)
LEMMA RebuiltIsSame == ASSUME NEW s \in State PROVE FromBackend(s) = s
BY DEF FromBackend, State

-----------------------------------------------------------------------------
(* The object a tracker is built with counts nothing. *)
LEMMA InitCount == Init => CountInv
<1> SUFFICES ASSUME Init PROVE CountInv
  OBVIOUS
<1>1. TypeOK
  <2>1. EmptyDoc \in Doc
    BY DEF EmptyDoc, Doc
  <2>2. "work" \in Phase
    BY DEF Phase
  <2>3. 0 \in 0..MaxItems
    BY TrackerAssumption
  <2> QED
    BY EmptyIsState, <2>1, <2>2, <2>3 DEF Init, TypeOK
<1>2. Plausible(EmptyState)
  BY DEF Init, Plausible, EmptyState, Num
<1> QED
  BY <1>1, <1>2 DEF Init, CountInv, NoOvercount, DocsPlausible, EmptyDoc, NoProgress

(* Each step keeps the invariant: an item is counted when it is processed, *)
(* and reports only copy states that are plausible already.                *)
LEMMA StepCount == CountInv /\ [Next]_vars => CountInv'
<1> SUFFICES ASSUME CountInv, [Next]_vars PROVE CountInv'
  OBVIOUS
<1> USE DEF CountInv, TypeOK, NoOvercount, DocsPlausible
<1>1. ASSUME NEW w \in Worker, Track(w) PROVE CountInv'
  <2>1. PICK s \in Registered(heap[state]) : heap' = [heap EXCEPT ![state] = s]
    BY <1>1 DEF Track
  <2>2. s \in State
    BY <2>1, RegisteredIsState
  <2>3. processed' = processed + 1 /\ processed \in Nat /\ processed < MaxItems
    BY <1>1, TrackerAssumption DEF Track
  <2>4. UNCHANGED <<state, stored, note, doc, notes>>
    BY <1>1 DEF Track
  <2>5. TypeOK'
    <3>1. untracked' \in Nat /\ unreported' \in Nat
      BY <1>1 DEF Track
    <3>2. pc' \in [Worker -> Phase] /\ held' \in [Worker -> Object]
      BY <1>1 DEF Track, Goto, Phase, Reporting, Reading
    <3>3. processed' \in 0..MaxItems
      BY <2>3, TrackerAssumption
    <3>4. overlapped' \in BOOLEAN
      BY <1>1 DEF Track, Enter
    <3> QED
      BY <2>1, <2>2, <2>4, <3>1, <3>2, <3>3, <3>4
  <2>6. \A x \in State : Plausible(x) => Plausible(x)'
    <3> TAKE x \in State
    <3>1. Num(x.done) \in Nat
      BY NumIsNat DEF State
    <3> QED
      BY <2>3, <3>1 DEF Plausible
  <2>7. Plausible(s)'
    <3>1. Num(heap[state].done) \in Nat
      BY NumIsNat DEF State
    <3>2. Plausible(heap[state])
      OBVIOUS
    <3>3. Num(s.done) = Num(heap[state].done) + 1
      BY <2>1, RegisteredCounts
    <3>4. Num(s.done) = Num(s.success) + Num(s.failed) + Num(s.skipped)
      BY <2>1, <3>2, RegisteredCounts DEF Plausible
    <3> QED
      BY <2>3, <3>1, <3>2, <3>3, <3>4 DEF Plausible
  <2>8. NoOvercount'
    <3>1. ASSUME NEW o \in Object PROVE Plausible(heap[o])'
      <4>1. CASE o = state
        BY <2>1, <2>7, <4>1
      <4>2. CASE o # state
        BY <2>1, <2>6, <4>2
      <4> QED
        BY <4>1, <4>2
    <3>2. (stored # NoProgress => Plausible(stored))'
      <4>1. stored' = stored
        BY <2>4
      <4>2. ASSUME stored # NoProgress PROVE Plausible(stored)'
        BY <2>6, <4>1, <4>2
      <4> QED
        BY <4>1, <4>2
    <3> QED
      BY <3>1, <3>2
  <2>9. DocsPlausible'
    <3>1. ASSUME NEW v \in Worker, doc[v].progress # NoProgress
          PROVE  Plausible(doc[v].progress)'
      <4>1. doc[v].progress \in State
        BY <3>1 DEF Doc
      <4>2. doc' = doc
        BY <2>4
      <4> QED
        BY <2>6, <3>1, <4>1, <4>2
    <3> QED
      BY <2>4, <3>1
  <2> QED
    BY <2>5, <2>8, <2>9
<1>2. ASSUME NEW w \in Worker, BackendReads(w) PROVE CountInv'
  <2>1. TypeOK'
    BY <1>2 DEF BackendReads, AsStored, Doc, Goto, Phase, Reporting, Reading, Fetching
  <2> QED
    BY <1>2, <2>1 DEF BackendReads, AsStored, Plausible
<1>3. ASSUME NEW w \in Worker, Serialise(w) PROVE CountInv'
  <2>1. WithObject(doc[w], heap[held[w]]) = [progress |-> heap[held[w]], note |-> doc[w].note]
    BY DEF WithObject, Doc
  <2>2. TypeOK'
    BY <1>3, <2>1 DEF Serialise, Doc, Goto, Phase, Reporting
  <2> QED
    BY <1>3, <2>1, <2>2 DEF Serialise, Plausible
<1>4. ASSUME NEW w \in Worker, WriteProgress(w) PROVE CountInv'
  <2>1. TypeOK'
    BY <1>4 DEF WriteProgress, EmptyDoc, Doc, Goto, Phase, Reporting, Fetching
  <2> QED
    BY <1>4, <2>1 DEF WriteProgress, EmptyDoc, Plausible
<1>5. ASSUME NEW w \in Worker, Adopt(w) PROVE CountInv'
  <2>1. ASSUME NEW o \in Object, doc[w].progress # NoProgress
        PROVE  FromBackend(doc[w].progress) = doc[w].progress /\ doc[w].progress \in State
    BY <2>1, RebuiltIsSame DEF Doc
  <2>2. TypeOK'
    BY <1>5, <2>1 DEF Adopt, EmptyDoc, Doc, Goto, Phase
  <2>3. NoOvercount'
    BY <1>5, <2>1 DEF Adopt, Plausible
  <2>4. DocsPlausible'
    BY <1>5 DEF Adopt, EmptyDoc, Plausible
  <2> QED
    BY <2>2, <2>3, <2>4
<1>6. ASSUME NEW w \in Worker, ReportFails(w) PROVE CountInv'
  <2>1. TypeOK'
    BY <1>6 DEF ReportFails, EmptyDoc, Doc, Goto, Phase
  <2> QED
    BY <1>6, <2>1 DEF ReportFails, EmptyDoc, Plausible
<1>7. ASSUME NEW w \in Worker, ReadForNote(w) PROVE CountInv'
  <2>1. TypeOK'
    <3>1. overlapped' \in BOOLEAN
      BY <1>7 DEF ReadForNote, Enter
    <3> QED
      BY <1>7, <3>1 DEF ReadForNote, Doc, Goto, Phase
  <2> QED
    BY <1>7, <2>1 DEF ReadForNote, Plausible
<1>8. ASSUME NEW w \in Worker, WriteNote(w) PROVE CountInv'
  <2>1. TypeOK'
    BY <1>8 DEF WriteNote, EmptyDoc, Doc, Goto, Phase
  <2> QED
    BY <1>8, <2>1 DEF WriteNote, EmptyDoc, Plausible
<1>9. CASE UNCHANGED vars
  BY <1>9 DEF vars, Plausible
<1> QED
  BY <1>1, <1>2, <1>3, <1>4, <1>5, <1>6, <1>7, <1>8, <1>9 DEF Next

-----------------------------------------------------------------------------
(* Every state of a shared tracker is well typed. *)
THEOREM TrackerTyped == Spec => []TypeOK
<1>1. CountInv => TypeOK
  BY DEF CountInv
<1> QED
  BY <1>1, InitCount, StepCount, PTL DEF Spec

(* Neither the tracker nor the backend ever shows more items than were     *)
(* processed, nor items without an outcome, for any number of coroutines,  *)
(* any items and any report_every_x_updates.                               *)
THEOREM NeverOvercounts == Spec => []NoOvercount
<1>1. CountInv => NoOvercount
  BY DEF CountInv
<1> QED
  BY <1>1, InitCount, StepCount, PTL DEF Spec

-----------------------------------------------------------------------------
(* Coroutines that take turns.                                             *)

(* Only one coroutine at a time is in the tracker or the reporter.         *)
OneAtATime == \A v, w \in Worker : pc[v] # "work" /\ pc[w] # "work" => v = w

(* Between two awaits of a report nothing has moved: the object it refers  *)
(* to is the tracker's, and what it has read is what is stored.            *)
ReportIsCurrent(w) ==
  /\ pc[w] \in Reporting => held[w] = state
  /\ pc[w] \in {"read", "writing"} => doc[w].note = note
  /\ pc[w] = "storing" => doc[w].progress = stored
  /\ pc[w] \in {"writing", "fetched"} =>
       doc[w].progress # NoProgress /\ Num(doc[w].progress.done) = processed
  /\ pc[w] = "fetching" => stored # NoProgress /\ Num(stored.done) = processed

AllCounted == Num(heap[state].done) = processed

TurnInv ==
  ~overlapped =>
    /\ OneAtATime
    /\ AllCounted
    /\ notes => note
    /\ \A w \in Worker : ReportIsCurrent(w)

LEMMA InitTurn == Init => TurnInv
<1> SUFFICES ASSUME Init PROVE TurnInv
  OBVIOUS
<1>1. AllCounted
  BY DEF Init, AllCounted, EmptyState, Num
<1>2. \A w \in Worker : ReportIsCurrent(w)
  BY DEF Init, ReportIsCurrent, Reporting, Reading, Fetching
<1> QED
  BY <1>1, <1>2 DEF Init, TurnInv, OneAtATime

(* Who enters while another is in there does not take turns. *)
LEMMA EntersAlone ==
  ASSUME NEW w \in Worker, Enter(w), ~overlapped'
  PROVE  ~overlapped /\ \A v \in Worker : v # w => pc[v] = "work"
BY DEF Enter

LEMMA StepTurn == CountInv /\ TurnInv /\ [Next]_vars => TurnInv'
<1> SUFFICES ASSUME CountInv, TurnInv, [Next]_vars, ~overlapped'
             PROVE  /\ OneAtATime'
                    /\ AllCounted'
                    /\ (notes => note)'
                    /\ \A w \in Worker : ReportIsCurrent(w)'
  BY DEF TurnInv
<1>0. ~overlapped /\ TypeOK
  BY DEF Next, vars, Track, BackendReads, Serialise, WriteProgress, Adopt, ReportFails,
         ReadForNote, WriteNote, Enter, CountInv, TypeOK
<1>1. /\ OneAtATime /\ AllCounted /\ (notes => note)
      /\ \A w \in Worker : ReportIsCurrent(w)
  BY <1>0 DEF TurnInv
<1> USE DEF Goto
<1>2. ASSUME NEW w \in Worker, Track(w)
      PROVE  /\ OneAtATime' /\ AllCounted' /\ (notes => note)'
             /\ \A v \in Worker : ReportIsCurrent(v)'
  <2>1. \A v \in Worker : pc[v] = "work"
    BY <1>2, EntersAlone DEF Track
  <2>2. PICK s \in Registered(heap[state]) : heap' = [heap EXCEPT ![state] = s]
    BY <1>2 DEF Track
  <2>3. /\ processed' = processed + 1
        /\ UNCHANGED <<state, stored, note, doc, notes>>
    BY <1>2 DEF Track
  <2>4. /\ pc' \in [Worker -> Phase] /\ pc'[w] \in {"work", "reading"}
        /\ pc'[w] # "work" => held'[w] = state
        /\ \A v \in Worker : v # w => pc'[v] = "work"
    BY <1>0, <1>2, <2>1 DEF Track, TypeOK, Phase, Reporting, Reading
  <2>5. AllCounted'
    <3>1. heap'[state] = s /\ heap[state] \in State
      BY <1>0, <2>2 DEF TypeOK
    <3> QED
      BY <1>1, <2>2, <2>3, <3>1, RegisteredCounts DEF AllCounted
  <2>6. OneAtATime'
    BY <2>4 DEF OneAtATime
  <2>7. \A v \in Worker : ReportIsCurrent(v)'
    BY <2>3, <2>4 DEF ReportIsCurrent, Reporting, Reading, Fetching
  <2> QED
    BY <1>1, <2>3, <2>5, <2>6, <2>7
<1>3. ASSUME NEW w \in Worker, ReadForNote(w)
      PROVE  /\ OneAtATime' /\ AllCounted' /\ (notes => note)'
             /\ \A v \in Worker : ReportIsCurrent(v)'
  <2>1. \A v \in Worker : pc[v] = "work"
    BY <1>3, EntersAlone DEF ReadForNote
  <2>2. /\ pc'[w] = "storing" /\ doc'[w].progress = stored
        /\ \A v \in Worker : v # w => pc'[v] = "work"
    BY <1>0, <1>3, <2>1 DEF ReadForNote, TypeOK
  <2>3. UNCHANGED <<heap, state, stored, note, processed, notes>>
    BY <1>3 DEF ReadForNote
  <2>4. \A v \in Worker : ReportIsCurrent(v)'
    BY <2>2, <2>3 DEF ReportIsCurrent, Reporting, Reading, Fetching
  <2> QED
    BY <1>1, <2>2, <2>3, <2>4 DEF OneAtATime, AllCounted
(* The other steps are those of a coroutine that is in there alone. *)
<1>4. ASSUME NEW w \in Worker, pc[w] # "work",
             pc' = [pc EXCEPT ![w] = pc'[w]], ReportIsCurrent(w)'
      PROVE  OneAtATime' /\ \A v \in Worker : ReportIsCurrent(v)'
  <2>1. \A v \in Worker : v # w => pc[v] = "work" /\ pc'[v] = "work"
    BY <1>0, <1>1, <1>4 DEF OneAtATime, TypeOK
  <2>2. \A v \in Worker : v # w => ReportIsCurrent(v)'
    BY <2>1 DEF ReportIsCurrent, Reporting, Reading, Fetching
  <2> QED
    BY <1>4, <2>1, <2>2 DEF OneAtATime
<1>5. ASSUME NEW w \in Worker, BackendReads(w)
      PROVE  /\ OneAtATime' /\ AllCounted' /\ (notes => note)'
             /\ \A v \in Worker : ReportIsCurrent(v)'
  <2>1. /\ pc[w] \in {"reading", "fetching"}
        /\ pc'[w] = IF pc[w] = "reading" THEN "read" ELSE "fetched"
        /\ pc' = [pc EXCEPT ![w] = pc'[w]]
        /\ doc'[w] = [progress |-> stored, note |-> note]
        /\ UNCHANGED <<heap, state, stored, note, held, processed, notes>>
    BY <1>0, <1>5 DEF BackendReads, AsStored, TypeOK
  <2>2. ReportIsCurrent(w)'
    BY <1>1, <2>1 DEF ReportIsCurrent, Reporting, Reading, Fetching
  <2> QED
    BY <1>1, <1>4, <2>1, <2>2 DEF AllCounted
<1>6. ASSUME NEW w \in Worker, Serialise(w)
      PROVE  /\ OneAtATime' /\ AllCounted' /\ (notes => note)'
             /\ \A v \in Worker : ReportIsCurrent(v)'
  <2>1. /\ pc[w] = "read" /\ pc'[w] = "writing"
        /\ pc' = [pc EXCEPT ![w] = pc'[w]]
        /\ UNCHANGED <<heap, state, stored, note, held, processed, notes>>
    BY <1>0, <1>6 DEF Serialise, TypeOK
  <2>2. held[w] = state /\ doc[w].note = note
    BY <1>1, <2>1 DEF ReportIsCurrent, Reporting, Reading
  <2>3. doc'[w].progress = heap[state] /\ doc'[w].note = note
    BY <1>0, <1>6, <2>2 DEF Serialise, WithObject, TypeOK, Doc
  <2>4. heap[state] # NoProgress
    BY <1>0, NoneIsNoState DEF TypeOK, NoProgress
  <2>5. ReportIsCurrent(w)'
    BY <1>1, <2>1, <2>2, <2>3, <2>4 DEF ReportIsCurrent, AllCounted, Reporting
  <2> QED
    BY <1>1, <1>4, <2>1, <2>5 DEF AllCounted
<1>7. ASSUME NEW w \in Worker, WriteProgress(w)
      PROVE  /\ OneAtATime' /\ AllCounted' /\ (notes => note)'
             /\ \A v \in Worker : ReportIsCurrent(v)'
  <2>1. /\ pc[w] = "writing" /\ pc'[w] = "fetching"
        /\ pc' = [pc EXCEPT ![w] = pc'[w]]
        /\ stored' = doc[w].progress /\ note' = doc[w].note /\ held'[w] = state
        /\ UNCHANGED <<heap, state, processed, notes>>
    BY <1>0, <1>7 DEF WriteProgress, TypeOK
  <2>2. note' = note /\ stored' # NoProgress /\ Num(stored'.done) = processed
    BY <1>1, <2>1 DEF ReportIsCurrent
  <2>3. ReportIsCurrent(w)'
    BY <2>1, <2>2 DEF ReportIsCurrent
  <2> QED
    BY <1>1, <1>4, <2>1, <2>2, <2>3 DEF AllCounted
<1>8. ASSUME NEW w \in Worker, Adopt(w)
      PROVE  /\ OneAtATime' /\ AllCounted' /\ (notes => note)'
             /\ \A v \in Worker : ReportIsCurrent(v)'
  <2>1. /\ pc[w] = "fetched" /\ pc'[w] = "work"
        /\ pc' = [pc EXCEPT ![w] = pc'[w]]
        /\ UNCHANGED <<stored, note, processed, notes>>
    BY <1>0, <1>8 DEF Adopt, TypeOK
  <2>2. doc[w].progress # NoProgress /\ Num(doc[w].progress.done) = processed
    BY <1>1, <2>1 DEF ReportIsCurrent
  <2>3. doc[w].progress \in State
    BY <1>0, <2>2 DEF TypeOK, Doc
  <2>4. PICK o \in Object : heap' = [heap EXCEPT ![o] = doc[w].progress] /\ state' = o
    BY <1>8, <2>2, <2>3, RebuiltIsSame DEF Adopt
  <2>5. AllCounted'
    BY <1>0, <2>1, <2>2, <2>4 DEF AllCounted, TypeOK
  <2>6. ReportIsCurrent(w)'
    BY <2>1 DEF ReportIsCurrent, Reporting, Reading, Fetching
  <2> QED
    BY <1>1, <1>4, <2>1, <2>5, <2>6
<1>9. ASSUME NEW w \in Worker, ReportFails(w)
      PROVE  /\ OneAtATime' /\ AllCounted' /\ (notes => note)'
             /\ \A v \in Worker : ReportIsCurrent(v)'
  <2>1. /\ pc[w] # "work" /\ pc'[w] = "work"
        /\ pc' = [pc EXCEPT ![w] = pc'[w]]
        /\ UNCHANGED <<heap, state, processed, notes>>
    BY <1>0, <1>9 DEF ReportFails, TypeOK, Reporting, Reading, Fetching
  <2>2. note' = note
    <3>1. pc[w] = "writing" => doc[w].note = note
      BY <1>1 DEF ReportIsCurrent
    <3> QED
      BY <1>9, <3>1, Zenon DEF ReportFails
  <2>3. ReportIsCurrent(w)'
    BY <2>1 DEF ReportIsCurrent, Reporting, Reading, Fetching
  <2> QED
    BY <1>1, <1>4, <2>1, <2>2, <2>3 DEF AllCounted
<1>10. ASSUME NEW w \in Worker, WriteNote(w)
       PROVE  /\ OneAtATime' /\ AllCounted' /\ (notes => note)'
              /\ \A v \in Worker : ReportIsCurrent(v)'
  <2>1. /\ pc[w] = "storing" /\ pc'[w] = "work"
        /\ pc' = [pc EXCEPT ![w] = pc'[w]]
        /\ note' = TRUE
        /\ UNCHANGED <<heap, state, processed>>
    BY <1>0, <1>10 DEF WriteNote, TypeOK
  <2>2. ReportIsCurrent(w)'
    BY <2>1 DEF ReportIsCurrent, Reporting, Reading, Fetching
  <2> QED
    BY <1>1, <1>4, <2>1, <2>2 DEF AllCounted
<1>11. CASE UNCHANGED vars
  BY <1>1, <1>11 DEF vars, OneAtATime, AllCounted, ReportIsCurrent
<1> QED
  BY <1>2, <1>3, <1>5, <1>6, <1>7, <1>8, <1>9, <1>10, <1>11 DEF Next

THEOREM TurnInvariance == Spec => [](CountInv /\ TurnInv)
BY InitCount, StepCount, InitTurn, StepTurn, PTL DEF Spec

(* Coroutines that take turns count every item they registered, also when  *)
(* reports fail and whether or not a failed write was executed, for any    *)
(* number of coroutines and any report_every_x_updates (atrack and         *)
(* afetch_state).                                                          *)
THEOREM NothingIsLost == Spec => []TurnsLoseNothing
<1>1. TurnInv => TurnsLoseNothing
  BY DEF TurnInv, AllCounted, TurnsLoseNothing, NothingLost
<1> QED
  BY <1>1, TurnInvariance, PTL

(* What another writer stored beside the progress outlives the reports of  *)
(* coroutines that take turns (set_object of TaskProgressReporter).        *)
THEOREM NotesAreKept == Spec => []NoteKept
<1>1. TurnInv => NoteKept
  BY DEF TurnInv, NoteKept
<1> QED
  BY <1>1, TurnInvariance, PTL

(* What callers see of the task grows while its coroutines take turns: a   *)
(* write stores all that was processed, or again what it read.             *)
THEOREM StoredGrows == Spec => StoredMonotone
<1>1. CountInv /\ TurnInv /\ [Next]_vars =>
        [stored # NoProgress /\ ~overlapped =>
           /\ stored' # NoProgress
           /\ Num(stored'.done) >= Num(stored.done)]_vars
  <2> SUFFICES ASSUME CountInv, TurnInv, Next, stored # NoProgress, ~overlapped,
                      stored' # stored
               PROVE  stored' # NoProgress /\ Num(stored'.done) >= Num(stored.done)
    <3>1. stored \in State => Num(stored.done) \in Nat
      BY NumIsNat DEF State
    <3> QED
      BY <3>1 DEF vars, CountInv, TypeOK
  <2>1. /\ TypeOK /\ Num(stored.done) <= processed
        /\ \A w \in Worker : ReportIsCurrent(w)
    BY DEF CountInv, TurnInv, NoOvercount, Plausible
  <2>2. PICK w \in Worker : /\ pc[w] = "writing" \/ pc[w] = "storing"
                            /\ stored' = doc[w].progress
    BY DEF Next, Track, BackendReads, Serialise, WriteProgress, Adopt, ReportFails,
           ReadForNote, WriteNote
  <2> QED
    BY <2>1, <2>2 DEF ReportIsCurrent, TypeOK
<1> QED
  BY <1>1, TurnInvariance, PTL DEF Spec, StoredMonotone

=============================================================================
