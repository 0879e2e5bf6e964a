----------------------- MODULE CompositeProgressProofs -----------------------
(***************************************************************************)
(* Proofs about CompositeProgress, for any subtasks and items: what the    *)
(* parent shows was done, it finishes only when its subtasks are complete, *)
(* and what one tracker shows does not fall while the backend answers.     *)
(***************************************************************************)
EXTENDS CompositeProgress, FiniteSetTheorems, TLAPS

(* What a read of subtask t would return as done, once it is answered.     *)
Known(t) == IF result[t] = "state" THEN Num(own[t].done)
            ELSE IF Ended(t) THEN Items[t]
            ELSE IF progress[t] = None THEN 0 ELSE Num(progress[t].done)

(* A subtask counts no item twice, and what others know of it is no more   *)
(* than what it did.                                                       *)
SubtaskInv(t) ==
  /\ Num(own[t].done) <= Processed(own[t])
  /\ Processed(own[t]) <= Items[t]
  /\ progress[t] # None => Num(progress[t].done) <= Num(own[t].done)
  /\ answer[t] # None => Num(answer[t].done) <= Known(t)
  /\ fetch[t] # "idle" => t \in subtasks

(* s.done is a sum of what is known of each subtask, g[t] of subtask t.    *)
Share == [Subtask -> Nat]
Backed(s, g) == Num(s.done) = Sum(g) /\ \A t \in Subtask : g[t] <= Known(t)
Registered(g) == \A t \in Subtask : g[t] # 0 => t \in subtasks

StateInv == \E g \in Share : /\ Backed(state, g)
                             /\ shown \/ pc = "reporting" => Registered(g)

StoredInv == stored # None => \E g \in Share : Backed(stored, g)

(* What was shown is found again by the fetches under way.                 *)
Found(g) == \A t \in Subtask : g[t] # 0 =>
              /\ fetch[t] # "idle"
              /\ fetch[t] = "progress" => progress[t] # None /\ g[t] <= Num(progress[t].done)
              /\ fetch[t] = "done" => answer[t] # None /\ g[t] <= Num(answer[t].done)

ShownInv ==
  shown /\ outages = 0 =>
    /\ stored # None
    /\ \E g \in Share : /\ Backed(stored, g) /\ Registered(g)
                        /\ pc = "fetching" => Found(g)
    /\ pc = "reporting" => Num(stored.done) <= Num(state.done)

FinishedInv == pc = "finished" => TotalOf(subtasks) <= Num(state.done)

IInv == /\ TypeOK
        /\ \A t \in Subtask : SubtaskInv(t)
        /\ StateInv /\ StoredInv /\ ShownInv /\ FinishedInv

-----------------------------------------------------------------------------
(* Sums. *)

LEMMA SumType ==
  ASSUME NEW f, IsFiniteSet(DOMAIN f), \A t \in DOMAIN f : f[t] \in Nat
  PROVE  IsFiniteSet(Units(f)) /\ Sum(f) \in Nat
  <1> DEFINE h == [t \in DOMAIN f |-> {t} \X (1..f[t])]
             S == {{t} \X (1..f[t]) : t \in DOMAIN f}
  <1>1. h \in Surjection(DOMAIN f, S)
    BY DEF Surjection
  <1>2. IsFiniteSet(S)
    BY <1>1, FS_Surjection
  <1>3. ASSUME NEW t \in DOMAIN f PROVE IsFiniteSet({t} \X (1..f[t]))
    <2>1. IsFiniteSet({t})
      BY FS_Singleton
    <2>2. IsFiniteSet(1..f[t])
      BY FS_Interval
    <2> QED BY <2>1, <2>2, FS_Product
  <1>4. \A T \in S : IsFiniteSet(T)
    BY <1>3
  <1>5. IsFiniteSet(UNION S)
    <2> HIDE DEF S
    <2> QED BY <1>2, <1>4, FS_UNION
  <1>6. IsFiniteSet(Units(f))
    BY <1>5 DEF Units
  <1> QED BY <1>6, FS_CardinalityType DEF Sum

(* A sum grows with its values, and is the same only if they are.          *)
LEMMA SumGrows ==
  ASSUME NEW f, NEW g, IsFiniteSet(DOMAIN g),
         \A t \in DOMAIN f : f[t] \in Nat, \A t \in DOMAIN g : g[t] \in Nat,
         \A t \in DOMAIN f : f[t] # 0 => t \in DOMAIN g /\ f[t] <= g[t]
  PROVE  /\ Sum(f) \in Nat /\ Sum(g) \in Nat /\ Sum(f) <= Sum(g)
         /\ Sum(f) = Sum(g) =>
              \A t \in DOMAIN g : g[t] # 0 => t \in DOMAIN f /\ f[t] = g[t]
  <1>1. \A x : x \in Units(f) <=> \E t \in DOMAIN f : \E i \in 1..f[t] : x = <<t, i>>
    BY DEF Units
  <1>2. \A x : x \in Units(g) <=> \E t \in DOMAIN g : \E i \in 1..g[t] : x = <<t, i>>
    BY DEF Units
  <1>3. Units(f) \subseteq Units(g)
    <2> SUFFICES ASSUME NEW t \in DOMAIN f, NEW i \in 1..f[t]
                 PROVE  <<t, i>> \in Units(g)
      BY <1>1
    <2>1. t \in DOMAIN g /\ i \in 1..g[t]
      OBVIOUS
    <2> QED BY <1>2, <2>1
  <1>4. IsFiniteSet(Units(g)) /\ Sum(g) \in Nat
    BY SumType
  <1>5. /\ IsFiniteSet(Units(f)) /\ Sum(f) <= Sum(g)
        /\ Sum(f) = Sum(g) => Units(f) = Units(g)
    BY <1>3, <1>4, FS_Subset DEF Sum
  <1>6. Sum(f) \in Nat
    BY <1>5, FS_CardinalityType DEF Sum
  <1>7. ASSUME Units(f) = Units(g), NEW t \in DOMAIN g, g[t] # 0
        PROVE  t \in DOMAIN f /\ f[t] = g[t]
    <2>1. <<t, g[t]>> \in Units(f)
      BY <1>2, <1>7
    <2>2. t \in DOMAIN f /\ g[t] \in 1..f[t]
      BY <1>1, <2>1
    <2> QED BY <2>2
  <1> QED BY <1>4, <1>5, <1>6, <1>7

LEMMA SumZero == Sum([t \in Subtask |-> 0]) = 0
  <1>1. Units([t \in Subtask |-> 0]) = {}
    BY DEF Units
  <1> QED BY <1>1, FS_EmptySet DEF Sum

-----------------------------------------------------------------------------
(* What is known of a subtask. *)

LEMMA NumType == \A x \in Counter : Num(x) \in Nat /\ (x \in Nat => Num(x) = x)
  BY NoneIsNoNumber DEF Counter, Num

LEMMA StateCounters ==
  ASSUME NEW s \in State
  PROVE  /\ s # None
         /\ Num(s.done) \in Nat /\ Num(s.success) \in Nat /\ Num(s.failed) \in Nat
         /\ Num(s.skipped) \in Nat /\ Processed(s) \in Nat
  <1>1. /\ s.done \in Counter /\ s.success \in Counter /\ s.failed \in Counter
        /\ s.skipped \in Counter
    BY DEF State
  <1> QED BY <1>1, NumType, NoneIsNoState DEF Processed

LEMMA ItemsType == \A t \in Subtask : Items[t] \in Nat /\ Items[t] > 0
  BY CompositeAssumption

LEMMA EmptyType == EmptyState \in State /\ EmptyState.done = None
  BY DEF EmptyState, State, Counter

(* Each item is processed once, and counts as done once at most.           *)
LEMMA AfterItemFacts ==
  ASSUME NEW s \in State, NEW r \in AfterItem(s)
  PROVE  /\ r.state \in State
         /\ Num(s.done) <= Num(r.state.done) /\ Num(r.state.done) <= Num(s.done) + 1
         /\ Processed(r.state) = Processed(s) + 1
  <1>1. /\ s.done \in Counter /\ s.success \in Counter /\ s.failed \in Counter
        /\ s.skipped \in Counter /\ 1 \in Nat
    BY DEF State
  <1>2. \A x \in Counter : Num(x) \in Nat /\ Num(x) \in Counter
                           /\ Num(x) + 1 \in Counter
                           /\ Num(Num(x)) = Num(x) /\ Num(Num(x) + 1) = Num(x) + 1
    BY NoneIsNoNumber DEF Counter, Num
  <1>3. CASE r.state = RegisterSuccessful(s, 1)
    <2>1. r.state = [s EXCEPT !.done = Num(s.done) + 1, !.success = Num(s.success) + 1]
      BY <1>3 DEF RegisterSuccessful
    <2>2. r.state \in State
      BY <1>1, <1>2, <2>1 DEF State
    <2>3. /\ r.state.done = Num(s.done) + 1 /\ r.state.success = Num(s.success) + 1
          /\ r.state.failed = s.failed /\ r.state.skipped = s.skipped
      BY <2>1 DEF State
    <2> QED BY <1>1, <1>2, <2>2, <2>3 DEF Processed
  <1>4. CASE r.state = RegisterFailed(s, 1)
    <2>1. r.state = [s EXCEPT !.done = Num(s.done), !.failed = Num(s.failed) + 1]
      BY <1>4 DEF RegisterFailed
    <2>2. r.state \in State
      BY <1>1, <1>2, <2>1 DEF State
    <2>3. /\ r.state.done = Num(s.done) /\ r.state.failed = Num(s.failed) + 1
          /\ r.state.success = s.success /\ r.state.skipped = s.skipped
      BY <2>1 DEF State
    <2> QED BY <1>1, <1>2, <2>2, <2>3 DEF Processed
  <1>5. CASE r.state = RegisterFailedWithDetails(s)
    <2>1. r.state = [s EXCEPT !.done = Num(s.done) + 1, !.failed = Num(s.failed) + 1]
      BY <1>5 DEF RegisterFailedWithDetails
    <2>2. r.state \in State
      BY <1>1, <1>2, <2>1 DEF State
    <2>3. /\ r.state.done = Num(s.done) + 1 /\ r.state.failed = Num(s.failed) + 1
          /\ r.state.success = s.success /\ r.state.skipped = s.skipped
      BY <2>1 DEF State
    <2> QED BY <1>1, <1>2, <2>2, <2>3 DEF Processed
  <1>6. CASE r.state = RegisterSkipped(s, 1)
    <2>1. r.state = [s EXCEPT !.done = Num(s.done) + 1, !.skipped = Num(s.skipped) + 1]
      BY <1>6 DEF RegisterSkipped
    <2>2. r.state \in State
      BY <1>1, <1>2, <2>1 DEF State
    <2>3. /\ r.state.done = Num(s.done) + 1 /\ r.state.skipped = Num(s.skipped) + 1
          /\ r.state.success = s.success /\ r.state.failed = s.failed
      BY <2>1 DEF State
    <2> QED BY <1>1, <1>2, <2>2, <2>3 DEF Processed
  <1> QED BY <1>3, <1>4, <1>5, <1>6 DEF AfterItem

LEMMA VerdictFacts ==
  ASSUME TypeOK, NEW t \in Subtask, Ended(t)
  PROVE  Verdict(t) \in State /\ Num(Verdict(t).done) = Known(t)
  <1>1. result[t] \in {"state", "plain", "error"} /\ own[t] \in State
    BY DEF TypeOK, Ended, Ending
  <1>2. CASE result[t] = "state"
    BY <1>1, <1>2 DEF Verdict, Known
  <1>3. CASE result[t] \in {"plain", "error"}
    <2>1. Items[t] \in Nat /\ Items[t] \in Counter /\ 0 \in Counter
      BY ItemsType DEF Counter
    <2>2. AllItems(t) \in State /\ AllItems(t).done = Items[t]
      BY <2>1, EmptyType DEF AllItems, EmptyState, State
    <2>3. /\ Verdict(t) \in State /\ Verdict(t).done = Items[t]
      BY <1>3, <2>1, <2>2 DEF Verdict, State
    <2>4. Known(t) = Items[t]
      BY <1>3 DEF Known, Ended
    <2> QED BY <2>1, <2>3, <2>4, NumType
  <1> QED BY <1>1, <1>2, <1>3

(* What is known was done, or the subtask has ended.                       *)
LEMMA KnownFacts ==
  ASSUME TypeOK, NEW t \in Subtask, SubtaskInv(t)
  PROVE  /\ Known(t) \in Nat /\ Credit(t) \in Nat
         /\ Known(t) <= Credit(t) /\ Known(t) <= Items[t]
         /\ Known(t) = Items[t] => Complete(t)
  <1>1. own[t] \in State /\ progress[t] \in State \cup {None}
        /\ result[t] \in {"state", "plain", "error", "none"}
    BY DEF TypeOK, Ending
  <1>2. Num(own[t].done) \in Nat /\ Processed(own[t]) \in Nat /\ Items[t] \in Nat
        /\ Num(own[t].done) <= Processed(own[t]) /\ Processed(own[t]) <= Items[t]
    BY <1>1, StateCounters, ItemsType DEF SubtaskInv
  <1>3. CASE Ended(t)
    BY <1>1, <1>2, <1>3 DEF Known, Credit, Complete, Ended
  <1>4. CASE ~Ended(t)
    <2>1. Known(t) \in Nat /\ Known(t) <= Num(own[t].done)
      BY <1>1, <1>2, <1>4, StateCounters DEF Known, Ended, SubtaskInv
    <2>2. Credit(t) = Num(own[t].done)
      BY <1>4 DEF Credit, Ended
    <2> QED BY <1>2, <2>1, <2>2 DEF Complete
  <1> QED BY <1>3, <1>4

-----------------------------------------------------------------------------
(* Initial states, and the steps of the subtasks. *)

LEMMA InitInv == Init => IInv
  <1> SUFFICES ASSUME Init PROVE IInv
    OBVIOUS
  <1>1. ASSUME NEW t \in Subtask
        PROVE  /\ own[t] \in State /\ own[t].done = 0
               /\ own[t].success = None /\ own[t].failed = None /\ own[t].skipped = None
    <2>1. CreateByItems(Items[t]) \in State
      BY ItemsType, EmptyType DEF CreateByItems, State, Counter
    <2>2. own[t] = CreateByItems(Items[t])
      BY DEF Init
    <2> QED BY <2>1, <2>2 DEF CreateByItems, EmptyState
  <1>2. TypeOK
    <2>1. own = [t \in Subtask |-> CreateByItems(Items[t])]
      BY DEF Init
    <2>2. own \in [Subtask -> State]
      BY <1>1, <2>1
    <2>3. outages \in 0..MaxOutages /\ trackers \in 1..MaxTrackers
      BY CompositeAssumption DEF Init
    <2> QED BY <2>2, <2>3, EmptyType DEF Init, TypeOK, Waiting
  <1>3. ASSUME NEW t \in Subtask PROVE SubtaskInv(t)
    <2>1. Num(0) = 0 /\ Num(None) = 0
      BY NoneIsNoNumber DEF Num
    <2>2. Num(own[t].done) = 0 /\ Processed(own[t]) = 0
      BY <1>1, <2>1 DEF Processed
    <2> QED BY <2>2, ItemsType DEF Init, SubtaskInv
  <1>4. StateInv
    <2> DEFINE g == [t \in Subtask |-> 0]
    <2>1. g \in Share /\ \A t \in Subtask : g[t] = 0
      BY DEF Share
    <2>2. Num(state.done) = Sum(g)
      BY SumZero, EmptyType DEF Init, Num
    <2>3. \A t \in Subtask : Known(t) = 0
      BY DEF Init, Known, Ended
    <2> HIDE DEF g
    <2>4. Backed(state, g)
      BY <2>1, <2>2, <2>3 DEF Backed
    <2> QED BY <2>1, <2>4 DEF Init, StateInv
  <1>5. StoredInv /\ ShownInv /\ FinishedInv
    BY DEF Init, StoredInv, ShownInv, FinishedInv
  <1> QED BY <1>2, <1>3, <1>4, <1>5 DEF IInv

(* What is known of a subtask only grows.                                  *)
Grows == \A t \in Subtask : Known(t)' \in Nat /\ Known(t) <= Known(t)'

LEMMA StillBacked ==
  ASSUME IInv, Grows, NEW g \in Share, \A t \in Subtask : g[t] <= Known(t)
  PROVE  \A t \in Subtask : g[t] <= Known(t)'
  <1>1. \A t \in Subtask : Known(t) \in Nat /\ g[t] \in Nat
    BY KnownFacts DEF IInv, Share
  <1> QED BY <1>1 DEF Grows

LEMMA SubtaskStep ==
  ASSUME IInv, TypeOK', Grows,
         UNCHANGED <<subtasks, fetch, answer, state, stored, pc, outages, trackers, shown>>,
         \A t \in Subtask :
           /\ Num(own'[t].done) <= Processed(own'[t]) /\ Processed(own'[t]) <= Items[t]
           /\ progress'[t] # None => Num(progress'[t].done) <= Num(own'[t].done),
         \A t \in Subtask : progress[t] # None =>
           progress'[t] # None /\ Num(progress[t].done) <= Num(progress'[t].done)
  PROVE  IInv'
  <1>1. TypeOK /\ (\A t \in Subtask : SubtaskInv(t) /\ Known(t) \in Nat)
    BY KnownFacts DEF IInv
  <1>2. \A t \in Subtask : answer[t] # None => Num(answer[t].done) \in Nat
    BY <1>1, StateCounters DEF TypeOK
  <1>3. \A t \in Subtask : SubtaskInv(t)'
    BY <1>1, <1>2 DEF SubtaskInv, Grows
  <1>4. \A t \in Subtask : progress[t] # None =>
          Num(progress[t].done) \in Nat /\ Num(progress'[t].done) \in Nat
    BY <1>1, StateCounters DEF TypeOK
  <1>5. ASSUME NEW s, NEW g \in Share, Backed(s, g)
        PROVE  Num(s.done) = Sum(g) /\ \A t \in Subtask : g[t] <= Known(t)'
    BY <1>5, StillBacked DEF Backed
  <1>6. StateInv'
    <2>1. PICK g \in Share : /\ Backed(state, g)
                             /\ shown \/ pc = "reporting" => Registered(g)
      BY DEF IInv, StateInv
    <2>2. Backed(state, g)' /\ (shown' \/ pc' = "reporting" => Registered(g)')
      BY <1>5, <2>1 DEF Backed, Registered
    <2> QED BY <2>2 DEF StateInv
  <1>7. StoredInv'
    <2> SUFFICES ASSUME stored # None PROVE \E g \in Share : Backed(stored, g)'
      BY DEF StoredInv
    <2>1. PICK g \in Share : Backed(stored, g)
      BY DEF IInv, StoredInv
    <2>2. Backed(stored, g)'
      BY <1>5, <2>1 DEF Backed
    <2> QED BY <2>2
  <1>8. ShownInv'
    <2> SUFFICES ASSUME shown, outages = 0
                 PROVE  /\ stored # None
                        /\ \E g \in Share : /\ Backed(stored, g)' /\ Registered(g)'
                                            /\ pc = "fetching" => Found(g)'
                        /\ pc = "reporting" => Num(stored.done) <= Num(state.done)
      BY DEF ShownInv
    <2>1. PICK g \in Share : /\ Backed(stored, g) /\ Registered(g)
                             /\ pc = "fetching" => Found(g)
      BY DEF IInv, ShownInv
    <2>2. Backed(stored, g)' /\ Registered(g)'
      BY <1>5, <2>1 DEF Backed, Registered
    <2>3. pc = "fetching" => Found(g)'
      <3>1. \A t \in Subtask : g[t] \in Nat
        BY DEF Share
      <3> QED BY <1>4, <2>1, <3>1 DEF Found
    <2> QED BY <2>2, <2>3 DEF IInv, ShownInv
  <1>9. FinishedInv'
    BY DEF IInv, FinishedInv
  <1> QED BY <1>3, <1>6, <1>7, <1>8, <1>9 DEF IInv

LEMMA WorkInv == ASSUME IInv, NEW t \in Subtask, Work(t) PROVE IInv'
  <1>1. TypeOK /\ (\A u \in Subtask : SubtaskInv(u) /\ Known(u) \in Nat)
    BY KnownFacts DEF IInv
  <1>2. PICK r \in AfterItem(own[t]) : own' = [own EXCEPT ![t] = r.state]
    BY DEF Work
  <1>3. /\ ~Ended(t) /\ Processed(own[t]) < Items[t]
        /\ UNCHANGED <<progress, result, subtasks, fetch, answer, state, stored, pc, outages,
                       trackers, shown>>
    BY DEF Work, trackerVars
  <1>4. /\ own[t] \in State /\ r.state \in State
        /\ Num(own[t].done) <= Num(r.state.done) /\ Num(r.state.done) <= Num(own[t].done) + 1
        /\ Processed(r.state) = Processed(own[t]) + 1
    BY <1>1, AfterItemFacts DEF TypeOK
  <1>5. own'[t] = r.state /\ \A u \in Subtask : u # t => own'[u] = own[u]
    BY <1>1, <1>2 DEF TypeOK
  <1>6. TypeOK'
    BY <1>1, <1>2, <1>3, <1>4 DEF TypeOK
  <1>7. ASSUME NEW u \in Subtask
        PROVE  /\ Num(own'[u].done) <= Processed(own'[u]) /\ Processed(own'[u]) <= Items[u]
               /\ progress'[u] # None => Num(progress'[u].done) <= Num(own'[u].done)
    <2>1. CASE u # t
      BY <1>1, <1>3, <1>5, <2>1 DEF SubtaskInv
    <2>2. CASE u = t
      <3>1. /\ Num(own[t].done) \in Nat /\ Num(r.state.done) \in Nat
            /\ Processed(own[t]) \in Nat /\ Items[t] \in Nat
        BY <1>4, StateCounters, ItemsType
      <3>2. progress[t] # None => Num(progress[t].done) \in Nat
        BY <1>1, StateCounters DEF TypeOK
      <3> QED BY <1>1, <1>3, <1>4, <1>5, <2>2, <3>1, <3>2 DEF SubtaskInv
    <2> QED BY <2>1, <2>2
  <1>8. Grows
    <2>1. \A u \in Subtask : Known(u)' = Known(u)
      BY <1>3, <1>5 DEF Known, Ended
    <2> QED BY <1>1, <2>1 DEF Grows
  <1>9. \A u \in Subtask : progress[u] # None =>
          progress'[u] # None /\ Num(progress[u].done) <= Num(progress'[u].done)
    BY <1>1, <1>3, StateCounters DEF TypeOK
  <1> QED BY <1>3, <1>6, <1>7, <1>8, <1>9, SubtaskStep

LEMMA ReportProgressInv == ASSUME IInv, NEW t \in Subtask, ReportProgress(t) PROVE IInv'
  <1>1. TypeOK /\ (\A u \in Subtask : SubtaskInv(u) /\ Known(u) \in Nat)
    BY KnownFacts DEF IInv
  <1>2. /\ ~Ended(t) /\ progress' = [progress EXCEPT ![t] = own[t]]
        /\ UNCHANGED <<own, result, subtasks, fetch, answer, state, stored, pc, outages,
                       trackers, shown>>
    BY DEF ReportProgress, trackerVars
  <1>3. progress'[t] = own[t] /\ \A u \in Subtask : u # t => progress'[u] = progress[u]
    BY <1>1, <1>2 DEF TypeOK
  <1>4. own[t] # None /\ Num(own[t].done) \in Nat
    BY <1>1, StateCounters DEF TypeOK
  <1>5. TypeOK'
    BY <1>1, <1>2 DEF TypeOK
  <1>6. \A u \in Subtask :
          /\ Num(own'[u].done) <= Processed(own'[u]) /\ Processed(own'[u]) <= Items[u]
          /\ progress'[u] # None => Num(progress'[u].done) <= Num(own'[u].done)
    BY <1>1, <1>2, <1>3, <1>4 DEF SubtaskInv
  <1>7. \A u \in Subtask : progress[u] # None =>
          progress'[u] # None /\ Num(progress[u].done) <= Num(progress'[u].done)
    <2>1. \A u \in Subtask : progress[u] # None => Num(progress[u].done) \in Nat
      BY <1>1, StateCounters DEF TypeOK
    <2> QED BY <1>1, <1>3, <1>4, <2>1 DEF SubtaskInv
  <1>8. Grows
    <2>1. \A u \in Subtask : u # t => Known(u)' = Known(u)
      BY <1>2, <1>3 DEF Known, Ended
    <2>2. Known(t)' = Num(own[t].done)
      BY <1>2, <1>3, <1>4 DEF Known, Ended
    <2>3. Known(t) <= Num(own[t].done)
      BY <1>1, <1>2, <1>4 DEF Known, Ended, SubtaskInv
    <2> QED BY <1>1, <1>4, <2>1, <2>2, <2>3 DEF Grows
  <1> QED BY <1>2, <1>5, <1>6, <1>7, <1>8, SubtaskStep

LEMMA EndInv == ASSUME IInv, NEW t \in Subtask, End(t) PROVE IInv'
  <1>1. TypeOK /\ (\A u \in Subtask : SubtaskInv(u) /\ Known(u) \in Nat)
    BY KnownFacts DEF IInv
  <1>2. PICK e \in Ending : result' = [result EXCEPT ![t] = e]
    BY DEF End
  <1>3. /\ ~Ended(t)
        /\ UNCHANGED <<own, progress, subtasks, fetch, answer, state, stored, pc, outages,
                       trackers, shown>>
    BY DEF End, trackerVars
  <1>4. result'[t] = e /\ \A u \in Subtask : u # t => result'[u] = result[u]
    BY <1>1, <1>2 DEF TypeOK
  <1>5. TypeOK'
    BY <1>1, <1>2, <1>3 DEF TypeOK
  <1>6. \A u \in Subtask :
          /\ Num(own'[u].done) <= Processed(own'[u]) /\ Processed(own'[u]) <= Items[u]
          /\ progress'[u] # None => Num(progress'[u].done) <= Num(own'[u].done)
    BY <1>1, <1>3 DEF SubtaskInv
  <1>7. \A u \in Subtask : progress[u] # None =>
          progress'[u] # None /\ Num(progress[u].done) <= Num(progress'[u].done)
    BY <1>1, <1>3, StateCounters DEF TypeOK
  <1>8. Grows
    <2>1. \A u \in Subtask : u # t => Known(u)' = Known(u)
      BY <1>3, <1>4 DEF Known, Ended
    <2>2. /\ Num(own[t].done) \in Nat /\ Processed(own[t]) \in Nat /\ Items[t] \in Nat
          /\ progress[t] # None => Num(progress[t].done) \in Nat
      BY <1>1, StateCounters, ItemsType DEF TypeOK
    <2>3. Known(t) <= Num(own[t].done) /\ Num(own[t].done) <= Items[t]
      BY <1>1, <1>3, <2>2 DEF Known, Ended, SubtaskInv
    <2>4. Ended(t)' /\ own'[t] = own[t]
      BY <1>3, <1>4 DEF Ended, Ending
    <2>5. CASE e = "state"
      <3>1. Known(t)' = Num(own[t].done)
        BY <1>4, <2>4, <2>5 DEF Known
      <3> QED BY <1>1, <2>1, <2>2, <2>3, <3>1 DEF Grows
    <2>6. CASE e # "state"
      <3>1. Known(t)' = Items[t]
        BY <1>4, <2>4, <2>6 DEF Known
      <3> QED BY <1>1, <2>1, <2>2, <2>3, <3>1 DEF Grows
    <2> QED BY <2>5, <2>6
  <1> QED BY <1>3, <1>5, <1>6, <1>7, <1>8, SubtaskStep

-----------------------------------------------------------------------------
(* What a step of the parent leaves as it is.                              *)

LEMMA KnownStays ==
  ASSUME UNCHANGED subtaskVars
  PROVE  \A t \in Subtask : Known(t)' = Known(t)
  BY DEF subtaskVars, Known, Ended

LEMMA SubtaskStays ==
  ASSUME IInv, UNCHANGED subtaskVars, NEW t \in Subtask,
         answer'[t] # None => Num(answer'[t].done) <= Known(t),
         fetch'[t] # "idle" => t \in subtasks'
  PROVE  SubtaskInv(t)'
  BY KnownStays DEF IInv, SubtaskInv, subtaskVars

LEMMA StateStays ==
  ASSUME IInv, UNCHANGED <<subtaskVars, state, shown>>, subtasks \subseteq subtasks',
         pc' = "reporting" => pc = "reporting"
  PROVE  StateInv'
  <1>1. PICK g \in Share : /\ Backed(state, g)
                           /\ shown \/ pc = "reporting" => Registered(g)
    BY DEF IInv, StateInv
  <1>2. Backed(state, g)' /\ (shown' \/ pc' = "reporting" => Registered(g)')
    BY <1>1, KnownStays DEF Backed, Registered
  <1> QED BY <1>2 DEF StateInv

LEMMA StoredStays ==
  ASSUME IInv, UNCHANGED <<subtaskVars, stored>>
  PROVE  StoredInv'
  <1> SUFFICES ASSUME stored # None PROVE \E g \in Share : Backed(stored, g)'
    BY DEF StoredInv
  <1>1. PICK g \in Share : Backed(stored, g)
    BY DEF IInv, StoredInv
  <1>2. Backed(stored, g)'
    BY <1>1, KnownStays DEF Backed
  <1> QED BY <1>2

(* ... where a share that was found has to be found again.                 *)
LEMMA ShownStays ==
  ASSUME IInv, UNCHANGED <<subtaskVars, state, stored, shown>>, subtasks \subseteq subtasks',
         outages \in Nat, outages' = outages \/ outages' = outages + 1,
         pc' = "reporting" => pc = "reporting",
         \A g \in Share : /\ outages' = 0 /\ pc' = "fetching"
                          /\ \A t \in Subtask : g[t] <= Known(t)
                          /\ Registered(g)
                          /\ pc = "fetching" => Found(g)
                          => Found(g)'
  PROVE  ShownInv'
  <1> SUFFICES ASSUME shown, outages' = 0
               PROVE  /\ stored # None
                      /\ \E g \in Share : /\ Backed(stored, g)' /\ Registered(g)'
                                          /\ pc' = "fetching" => Found(g)'
                      /\ pc' = "reporting" => Num(stored.done) <= Num(state.done)
    BY DEF ShownInv
  <1>1. outages = 0
    OBVIOUS
  <1>2. PICK g \in Share : /\ Backed(stored, g) /\ Registered(g)
                           /\ pc = "fetching" => Found(g)
    BY <1>1 DEF IInv, ShownInv
  <1>3. Backed(stored, g)' /\ Registered(g)'
    BY <1>2, KnownStays DEF Backed, Registered
  <1>4. pc' = "fetching" => Found(g)'
    BY <1>2 DEF Backed
  <1>5. stored # None /\ (pc = "reporting" => Num(stored.done) <= Num(state.done))
    BY <1>1 DEF IInv, ShownInv
  <1> QED BY <1>3, <1>4, <1>5

-----------------------------------------------------------------------------
(* The steps of the parent. *)

LEMMA RegisterSubtaskInv == ASSUME IInv, NEW t \in Subtask, RegisterSubtask(t) PROVE IInv'
  <1>1. /\ subtasks' = subtasks \cup {t} /\ pc' = IF pc = "finished" THEN "spawning" ELSE pc
        /\ UNCHANGED <<subtaskVars, own, progress, result, fetch, answer, state, stored,
                       outages, trackers, shown>>
    BY DEF RegisterSubtask, subtaskVars, trackerVars
  <1>2. TypeOK'
    BY <1>1 DEF IInv, TypeOK
  <1>3. \A u \in Subtask : SubtaskInv(u)'
    BY <1>1, SubtaskStays DEF IInv, SubtaskInv
  <1>4. StateInv'
    BY <1>1, StateStays
  <1>5. StoredInv'
    BY <1>1, StoredStays
  <1>6. ShownInv'
    <2>1. \A g \in Share : Found(g) => Found(g)'
      BY <1>1 DEF Found
    <2>2. outages \in Nat
      BY CompositeAssumption DEF IInv, TypeOK
    <2> QED BY <1>1, <2>1, <2>2, ShownStays
  <1>7. FinishedInv'
    BY <1>1 DEF FinishedInv
  <1> QED BY <1>2, <1>3, <1>4, <1>5, <1>6, <1>7 DEF IInv

LEMMA CreateTrackerInv == ASSUME IInv, CreateTracker PROVE IInv'
  <1>1. /\ trackers < MaxTrackers /\ trackers' = trackers + 1 /\ shown' = FALSE
        /\ state' = IF stored = None THEN EmptyState ELSE stored
        /\ subtasks' = {} /\ pc' = "spawning"
        /\ fetch' = [t \in Subtask |-> "idle"] /\ answer' = [t \in Subtask |-> None]
        /\ UNCHANGED <<subtaskVars, own, progress, result, stored, outages>>
    BY DEF CreateTracker, subtaskVars
  <1>2. TypeOK'
    <2>1. trackers' \in 1..MaxTrackers
      BY <1>1, CompositeAssumption DEF IInv, TypeOK
    <2> QED BY <1>1, <2>1, EmptyType DEF IInv, TypeOK
  <1>3. \A u \in Subtask : SubtaskInv(u)'
    BY <1>1, SubtaskStays
  <1>4. StateInv'
    <2>1. \E g \in Share : Num(state'.done) = Sum(g) /\ \A t \in Subtask : g[t] <= Known(t)
      <3>1. CASE stored = None
        <4> DEFINE g == [t \in Subtask |-> 0]
        <4>1. g \in Share /\ \A t \in Subtask : g[t] = 0
          BY DEF Share
        <4>2. Num(state'.done) = Sum(g)
          BY <1>1, <3>1, SumZero, EmptyType DEF Num
        <4>3. \A t \in Subtask : Known(t) \in Nat
          BY KnownFacts DEF IInv
        <4> HIDE DEF g
        <4> QED BY <4>1, <4>2, <4>3
      <3>2. CASE stored # None
        BY <1>1, <3>2 DEF IInv, StoredInv, Backed
      <3> QED BY <3>1, <3>2
    <2> QED BY <1>1, <2>1, KnownStays DEF StateInv, Backed
  <1>5. StoredInv'
    BY <1>1, StoredStays
  <1>6. ShownInv' /\ FinishedInv'
    BY <1>1 DEF ShownInv, FinishedInv
  <1> QED BY <1>2, <1>3, <1>4, <1>5, <1>6 DEF IInv

LEMMA WaitInv == ASSUME IInv, AwaitForSubtasks \/ Finish PROVE IInv'
  <1>1. /\ UNCHANGED <<subtaskVars, own, progress, result, subtasks, fetch, answer, state,
                       stored, outages, trackers, shown>>
        /\ pc' = "testing" \/ (pc' = "finished" /\ AllSubtasksComplete)
    BY DEF AwaitForSubtasks, Finish, subtaskVars, trackerVars
  <1>2. TypeOK'
    BY <1>1 DEF IInv, TypeOK, Waiting
  <1>3. \A u \in Subtask : SubtaskInv(u)'
    BY <1>1, SubtaskStays DEF IInv, SubtaskInv
  <1>4. StateInv'
    BY <1>1, StateStays
  <1>5. StoredInv'
    BY <1>1, StoredStays
  <1>6. ShownInv'
    <2>1. outages \in Nat
      BY CompositeAssumption DEF IInv, TypeOK
    <2> QED BY <1>1, <2>1, ShownStays
  <1>7. FinishedInv'
    <2>1. AllSubtasksComplete => TotalOf(subtasks) <= Num(state.done)
      BY DEF AllSubtasksComplete
    <2>2. TotalOf(subtasks)' = TotalOf(subtasks)
      BY <1>1 DEF TotalOf
    <2> QED BY <1>1, <2>1, <2>2 DEF FinishedInv
  <1> QED BY <1>2, <1>3, <1>4, <1>5, <1>6, <1>7 DEF IInv

LEMMA BeginAggregateInv == ASSUME IInv, BeginAggregate PROVE IInv'
  <1>1. /\ fetch' = [t \in Subtask |-> IF t \in subtasks THEN "queued" ELSE "idle"]
        /\ pc' = "fetching"
        /\ UNCHANGED <<subtaskVars, own, progress, result, subtasks, answer, state, stored,
                       outages, trackers, shown>>
    BY DEF BeginAggregate, subtaskVars, trackerVars
  <1>2. TypeOK'
    BY <1>1 DEF IInv, TypeOK, Waiting
  <1>3. \A u \in Subtask : SubtaskInv(u)'
    BY <1>1, SubtaskStays DEF IInv, SubtaskInv
  <1>4. StateInv'
    BY <1>1, StateStays
  <1>5. StoredInv'
    BY <1>1, StoredStays
  <1>6. ShownInv'
    <2>1. \A g \in Share : Registered(g) => Found(g)'
      BY <1>1 DEF Registered, Found
    <2>2. outages \in Nat
      BY CompositeAssumption DEF IInv, TypeOK
    <2> QED BY <1>1, <2>1, <2>2, ShownStays
  <1>7. FinishedInv'
    BY <1>1 DEF FinishedInv
  <1> QED BY <1>2, <1>3, <1>4, <1>5, <1>6, <1>7 DEF IInv

(* A read that answers no less than a share, and asks on only when the     *)
(* progress in the backend is no less.                                     *)
LEMMA FetchStep ==
  ASSUME IInv, NEW t \in Subtask, pc = "fetching", fetch[t] # "idle",
         UNCHANGED <<subtaskVars, subtasks, state, stored, pc, trackerVars>>,
         NEW a \in State \cup {None}, answer' = [answer EXCEPT ![t] = a],
         NEW f \in {"progress", "done"}, fetch' = [fetch EXCEPT ![t] = f],
         outages' = outages \/ outages' = outages + 1, outages' <= MaxOutages,
         a # None => Num(a.done) <= Known(t),
         \A n \in Nat \ {0} : n <= Known(t) /\ outages' = 0
                              /\ (fetch[t] = "progress" =>
                                    progress[t] # None /\ n <= Num(progress[t].done)) =>
           IF f = "done" THEN a # None /\ n <= Num(a.done)
                         ELSE progress[t] # None /\ n <= Num(progress[t].done)
  PROVE  IInv'
  <1>1. /\ UNCHANGED <<own, progress, result, trackers, shown>>
        /\ outages \in Nat
    BY CompositeAssumption DEF subtaskVars, trackerVars, IInv, TypeOK
  <1>2. /\ answer'[t] = a /\ fetch'[t] = f
        /\ \A u \in Subtask : u # t => answer'[u] = answer[u] /\ fetch'[u] = fetch[u]
    BY DEF IInv, TypeOK
  <1>3. TypeOK'
    <2>1. answer' \in [Subtask -> State \cup {None}]
          /\ fetch' \in [Subtask -> {"idle", "queued", "progress", "done"}]
      BY DEF IInv, TypeOK
    <2>2. outages' \in 0..MaxOutages
      BY <1>1, CompositeAssumption
    <2> QED BY <1>1, <2>1, <2>2 DEF IInv, TypeOK
  <1>4. \A u \in Subtask : SubtaskInv(u)'
    BY <1>2, SubtaskStays DEF IInv, SubtaskInv
  <1>5. StateInv'
    BY <1>1, StateStays
  <1>6. StoredInv'
    BY StoredStays
  <1>7. ShownInv'
    <2>1. ASSUME NEW g \in Share, outages' = 0, \A u \in Subtask : g[u] <= Known(u), Found(g)
          PROVE  Found(g)'
      <3>1. g[t] \in Nat /\ g[t] <= Known(t)
        BY <2>1 DEF Share
      <3>2. g[t] # 0 /\ fetch[t] = "progress" =>
              progress[t] # None /\ g[t] <= Num(progress[t].done)
        BY <2>1 DEF Found
      <3>3. g[t] # 0 => IF f = "done" THEN a # None /\ g[t] <= Num(a.done)
                        ELSE progress[t] # None /\ g[t] <= Num(progress[t].done)
        BY <2>1, <3>1, <3>2
      <3> QED BY <1>1, <1>2, <2>1, <3>3 DEF Found
    <2> QED BY <1>1, <2>1, ShownStays
  <1>8. FinishedInv'
    BY DEF FinishedInv
  <1> QED BY <1>3, <1>4, <1>5, <1>6, <1>7, <1>8 DEF IInv

LEMMA ReadResultInv == ASSUME IInv, NEW t \in Subtask, ReadResult(t) PROVE IInv'
  <1>1. /\ pc = "fetching" /\ fetch[t] = "queued"
        /\ UNCHANGED <<subtaskVars, subtasks, state, stored, pc, trackerVars>>
    BY DEF ReadResult
  <1>2. TypeOK /\ SubtaskInv(t) /\ outages \in Nat /\ outages <= MaxOutages
        /\ Known(t) \in Nat
    BY CompositeAssumption, KnownFacts DEF IInv, TypeOK
  <1>3. CASE /\ Ended(t) /\ answer' = [answer EXCEPT ![t] = Verdict(t)]
             /\ fetch' = [fetch EXCEPT ![t] = "done"] /\ UNCHANGED outages
    <2>1. Verdict(t) \in State /\ Verdict(t) # None /\ Num(Verdict(t).done) = Known(t)
      BY <1>2, <1>3, VerdictFacts, StateCounters
    <2>2. \A n \in Nat \ {0} : n <= Known(t) => n <= Num(Verdict(t).done)
      BY <2>1
    <2> DEFINE a == Verdict(t)
    <2>3. /\ a \in State /\ a # None /\ Num(a.done) <= Known(t)
          /\ answer' = [answer EXCEPT ![t] = a]
          /\ \A n \in Nat \ {0} : n <= Known(t) => n <= Num(a.done)
      BY <1>2, <1>3, <2>1, <2>2
    <2> HIDE DEF a
    <2> QED BY <1>1, <1>2, <1>3, <2>3, FetchStep
  <1>4. CASE /\ IF Ended(t) THEN Outage ELSE UNCHANGED outages
             /\ fetch' = [fetch EXCEPT ![t] = "progress"] /\ UNCHANGED answer
    <2> DEFINE a == answer[t]
    <2>1. /\ a \in State \cup {None} /\ answer' = [answer EXCEPT ![t] = a]
          /\ a # None => Num(a.done) <= Known(t)
      BY <1>2, <1>4 DEF TypeOK, SubtaskInv
    <2>2. /\ outages' = outages \/ outages' = outages + 1
          /\ outages' <= MaxOutages /\ (outages' = 0 => ~Ended(t))
      BY <1>2, <1>4, CompositeAssumption DEF Outage
    <2>3. \A n \in Nat \ {0} : n <= Known(t) /\ outages' = 0 =>
            progress[t] # None /\ n <= Num(progress[t].done)
      BY <1>2, <2>2 DEF Known, Ended
    <2> HIDE DEF a
    <2> QED BY <1>1, <1>2, <1>4, <2>1, <2>2, <2>3, FetchStep
  <1> QED BY <1>3, <1>4 DEF ReadResult

LEMMA ReadProgressInv == ASSUME IInv, NEW t \in Subtask, ReadProgress(t) PROVE IInv'
  <1>1. /\ pc = "fetching" /\ fetch[t] = "progress" /\ fetch' = [fetch EXCEPT ![t] = "done"]
        /\ UNCHANGED <<subtaskVars, subtasks, state, stored, pc, trackerVars>>
    BY DEF ReadProgress
  <1>2. TypeOK /\ SubtaskInv(t) /\ outages \in Nat /\ outages <= MaxOutages
    BY CompositeAssumption DEF IInv, TypeOK
  <1>3. CASE answer' = [answer EXCEPT ![t] = progress[t]] /\ UNCHANGED outages
    <2>1. progress[t] \in State \cup {None}
      BY <1>2 DEF TypeOK
    <2>2. /\ Num(own[t].done) \in Nat /\ Processed(own[t]) \in Nat /\ Items[t] \in Nat
          /\ progress[t] # None => Num(progress[t].done) \in Nat
      BY <1>2, StateCounters, ItemsType DEF TypeOK
    <2>3. progress[t] # None => Num(progress[t].done) <= Known(t)
      BY <1>2, <2>2 DEF SubtaskInv, Known
    <2> QED BY <1>1, <1>2, <1>3, <2>1, <2>3, FetchStep
  <1>4. CASE answer' = [answer EXCEPT ![t] = None] /\ Outage
    <2>1. outages' = outages + 1 /\ outages' <= MaxOutages /\ outages' # 0
      BY <1>2, <1>4, CompositeAssumption DEF Outage
    <2> QED BY <1>1, <1>2, <1>4, <2>1, FetchStep
  <1> QED BY <1>3, <1>4 DEF ReadProgress

LEMMA AnswersFacts ==
  ASSUME IInv, NEW c \in {"done", "success", "failed", "skipped"}
  PROVE  /\ IsFiniteSet(Asked) /\ DOMAIN Answers(c) = Asked
         /\ \A t \in Asked : Answers(c)[t] \in Nat
         /\ SumOf(c) \in Nat
  <1>1. IsFiniteSet(Asked)
    BY CompositeAssumption, FS_Subset DEF Asked
  <1>2. ASSUME NEW t \in Asked PROVE Answers(c)[t] \in Nat
    <2>1. answer[t] # None => answer[t][c] \in Counter
      BY DEF IInv, TypeOK, State, Asked
    <2>2. Answers(c)[t] = IF answer[t] = None THEN 0 ELSE Num(answer[t][c])
      BY DEF Answers
    <2> QED BY <2>1, <2>2, NumType
  <1>3. DOMAIN Answers(c) = Asked
    BY DEF Answers
  <1>4. SumOf(c) \in Nat
    BY <1>1, <1>2, <1>3, SumType DEF SumOf
  <1> QED BY <1>1, <1>2, <1>3, <1>4

LEMMA TotalType == ASSUME NEW S \in SUBSET Subtask PROVE TotalOf(S) \in Nat
  <1>1. IsFiniteSet(S)
    BY CompositeAssumption, FS_Subset
  <1> DEFINE f == [t \in S |-> Items[t]]
  <1>2. DOMAIN f = S /\ \A t \in S : f[t] \in Nat
    BY ItemsType
  <1> HIDE DEF f
  <1>3. Sum(f) \in Nat
    BY <1>1, <1>2, SumType
  <1> QED BY <1>3 DEF TotalOf, f

LEMMA AggregateInv == ASSUME IInv, Aggregate PROVE IInv'
  <1>1. /\ pc = "fetching" /\ \A t \in Asked : fetch[t] = "done"
        /\ state' = Aggregated /\ pc' = "reporting"
        /\ fetch' = [t \in Subtask |-> "idle"] /\ answer' = [t \in Subtask |-> None]
        /\ UNCHANGED <<subtaskVars, own, progress, result, subtasks, stored, outages,
                       trackers, shown>>
    BY DEF Aggregate, subtaskVars, trackerVars
  <1>2. /\ \A c \in {"done", "success", "failed", "skipped"} : SumOf(c) \in Nat
        /\ TotalOf(Asked) \in Nat
    BY AnswersFacts, TotalType DEF Asked
  <1>3. Aggregated \in State /\ Num(Aggregated.done) = SumOf("done")
    <2>1. Aggregated.done = SumOf("done") /\ Aggregated \in State
      BY <1>2, EmptyType DEF Aggregated, EmptyState, State, Counter
    <2> QED BY <1>2, <2>1, NumType DEF Counter
  <1>4. TypeOK'
    BY <1>1, <1>3 DEF IInv, TypeOK, Waiting
  <1>5. \A u \in Subtask : SubtaskInv(u)'
    BY <1>1, SubtaskStays
  <1> DEFINE A == Answers("done")
  <1>6. /\ IsFiniteSet(Subtask) /\ IsFiniteSet(Asked) /\ Asked \subseteq Subtask
        /\ DOMAIN A = Asked /\ \A t \in Asked : A[t] \in Nat
    BY CompositeAssumption, AnswersFacts DEF Asked
  <1>7. PICK h \in Share : /\ DOMAIN h = Subtask
                           /\ \A t \in Subtask : /\ h[t] \in Nat
                                                  /\ h[t] = IF t \in Asked THEN A[t] ELSE 0
    <2> DEFINE f == [t \in Subtask |-> IF t \in Asked THEN A[t] ELSE 0]
    <2>1. f \in Share
      BY <1>6 DEF Share
    <2> QED BY <1>6, <2>1
  <1>8. \A t \in Asked : A[t] = IF answer[t] = None THEN 0 ELSE Num(answer[t].done)
    BY DEF Answers
  <1> HIDE DEF A
  <1>9. Sum(h) = Sum(A)
    <2>1. Sum(h) <= Sum(A) /\ Sum(h) \in Nat /\ Sum(A) \in Nat
      BY <1>6, <1>7, SumGrows
    <2>2. Sum(A) <= Sum(h)
      BY <1>6, <1>7, SumGrows
    <2> QED BY <2>1, <2>2
  <1>10. Num(state'.done) = Sum(h)
    BY <1>1, <1>3, <1>9 DEF SumOf, A
  <1>11. ASSUME NEW t \in Subtask PROVE h[t] <= Known(t) /\ (h[t] # 0 => t \in subtasks)
    <2>1. Known(t) \in Nat
      BY KnownFacts DEF IInv
    <2>2. t \in Asked => t \in subtasks /\ (answer[t] # None => Num(answer[t].done) <= Known(t))
      BY DEF IInv, SubtaskInv, Asked
    <2> QED BY <1>7, <1>8, <2>1, <2>2
  <1>12. StateInv'
    <2>1. Backed(state, h)' /\ Registered(h)'
      BY <1>1, <1>10, <1>11, KnownStays DEF Backed, Registered
    <2> QED BY <1>7, <2>1 DEF StateInv
  <1>13. StoredInv'
    BY <1>1, StoredStays
  <1>14. ShownInv'
    <2> SUFFICES ASSUME shown, outages = 0
                 PROVE  /\ stored # None
                        /\ \E g \in Share : Backed(stored, g)' /\ Registered(g)'
                        /\ Num(stored.done) <= Num(state'.done)
      BY <1>1 DEF ShownInv
    <2>1. PICK g \in Share : Backed(stored, g) /\ Registered(g) /\ Found(g)
      BY <1>1 DEF IInv, ShownInv
    <2>2. Backed(stored, g)' /\ Registered(g)'
      BY <1>1, <2>1, KnownStays DEF Backed, Registered
    <2>3. DOMAIN g = Subtask /\ \A t \in Subtask : g[t] \in Nat
      BY DEF Share
    <2>4. \A t \in Subtask : g[t] # 0 => g[t] <= h[t]
      BY <1>1, <1>7, <1>8, <2>1 DEF Found, Asked
    <2>5. Sum(g) <= Sum(h)
      BY <1>6, <1>7, <2>3, <2>4, SumGrows
    <2>6. stored # None
      BY DEF IInv, ShownInv
    <2> QED BY <1>10, <2>1, <2>2, <2>5, <2>6 DEF Backed
  <1>15. FinishedInv'
    BY <1>1 DEF FinishedInv
  <1> QED BY <1>4, <1>5, <1>12, <1>13, <1>14, <1>15 DEF IInv

LEMMA ReportUpdateInv == ASSUME IInv, ReportUpdate PROVE IInv'
  <1>1. /\ pc = "reporting" /\ pc' \in {"testing", "raised"}
        /\ stored' = state \/ (stored' = stored /\ shown' = shown)
        /\ shown' \in BOOLEAN
        /\ UNCHANGED <<subtaskVars, own, progress, result, subtasks, fetch, answer, state,
                       outages, trackers>>
    BY DEF ReportUpdate, subtaskVars, IInv, TypeOK
  <1>2. TypeOK'
    BY <1>1 DEF IInv, TypeOK, Waiting
  <1>3. \A u \in Subtask : SubtaskInv(u)'
    BY <1>1, SubtaskStays DEF IInv, SubtaskInv
  <1>4. PICK g \in Share : Backed(state, g) /\ Registered(g)
    BY <1>1 DEF IInv, StateInv
  <1>5. Backed(state, g)' /\ Registered(g)'
    BY <1>1, <1>4, KnownStays DEF Backed, Registered
  <1>6. StateInv'
    BY <1>5 DEF StateInv
  <1>7. CASE stored' = state
    <2>1. Backed(stored, g)' /\ stored' # None
      BY <1>1, <1>5, <1>7, StateCounters DEF Backed, IInv, TypeOK
    <2>2. StoredInv' /\ ShownInv'
      BY <1>1, <1>5, <2>1 DEF StoredInv, ShownInv
    <2> QED BY <1>1, <1>2, <1>3, <1>6, <2>2 DEF IInv, FinishedInv
  <1>8. CASE stored' = stored /\ shown' = shown
    <2>1. StoredInv'
      BY <1>1, <1>8, StoredStays
    <2>2. ShownInv'
      <3>1. outages \in Nat
        BY CompositeAssumption DEF IInv, TypeOK
      <3> QED BY <1>1, <1>8, <3>1, ShownStays
    <2> QED BY <1>1, <1>2, <1>3, <1>6, <2>1, <2>2 DEF IInv, FinishedInv
  <1> QED BY <1>1, <1>7, <1>8

-----------------------------------------------------------------------------
(* The invariant, and what it says of what the parent shows. *)

LEMMA NextInv == IInv /\ [Next]_vars => IInv'
  <1> SUFFICES ASSUME IInv, [Next]_vars PROVE IInv'
    OBVIOUS
  <1>1. CASE UNCHANGED vars
    <2>1. UNCHANGED <<own, progress, result, subtasks, fetch, answer, state, stored, pc,
                      outages, trackers, shown, subtaskVars>>
      BY <1>1 DEF vars, subtaskVars
    <2>2. (\A u \in Subtask : SubtaskInv(u)') /\ TypeOK'
      BY <2>1, SubtaskStays DEF IInv, SubtaskInv, TypeOK
    <2>3. StateInv' /\ StoredInv'
      BY <2>1, StateStays, StoredStays
    <2>4. ShownInv'
      <3>1. \A g \in Share : Found(g) => Found(g)'
        BY <2>1 DEF Found
      <3>2. outages \in Nat
        BY CompositeAssumption DEF IInv, TypeOK
      <3> QED BY <2>1, <3>1, <3>2, ShownStays
    <2>5. FinishedInv'
      BY <2>1 DEF IInv, FinishedInv, TotalOf
    <2> QED BY <2>2, <2>3, <2>4, <2>5 DEF IInv
  <1>2. CASE AwaitForSubtasks \/ Finish
    BY <1>2, WaitInv
  <1>3. CASE BeginAggregate
    BY <1>3, BeginAggregateInv
  <1>4. CASE Aggregate
    BY <1>4, AggregateInv
  <1>5. CASE ReportUpdate
    BY <1>5, ReportUpdateInv
  <1>6. ASSUME NEW t \in Subtask, ReadResult(t) \/ ReadProgress(t) PROVE IInv'
    BY <1>6, ReadResultInv, ReadProgressInv
  <1>7. CASE CreateTracker
    BY <1>7, CreateTrackerInv
  <1>8. ASSUME NEW t \in Subtask, RegisterSubtask(t) \/ Work(t) \/ ReportProgress(t) \/ End(t)
        PROVE  IInv'
    BY <1>8, RegisterSubtaskInv, WorkInv, ReportProgressInv, EndInv
  <1> QED BY <1>1, <1>2, <1>3, <1>4, <1>5, <1>6, <1>7, <1>8 DEF Next, ParentStep

(* The shares: what the parent holds, has stored and has fetched of each   *)
(* subtask is backed by what that subtask did.                             *)
THEOREM Invariance == Spec => []IInv
  <1> QED BY InitInv, NextInv, PTL DEF Spec

(* Every variable of the parent and of its subtasks has its type.          *)
THEOREM TypeCorrect == Spec => []TypeOK
  <1>1. IInv => TypeOK
    BY DEF IInv
  <1> QED BY <1>1, Invariance, PTL

(* What is stored of the parent's progress was done by the subtasks, or is *)
(* credited to one that ended without saying how.                          *)
THEOREM NothingInvented == Spec => []ShownIsDone
  <1>1. IInv => ShownIsDone
    <2> SUFFICES ASSUME IInv, stored # None
                 PROVE  Num(stored.done) <= Sum([t \in Subtask |-> Credit(t)])
      BY DEF ShownIsDone
    <2>1. PICK g \in Share : Backed(stored, g)
      BY DEF IInv, StoredInv
    <2> DEFINE c == [t \in Subtask |-> Credit(t)]
    <2>2. \A t \in Subtask : /\ c[t] \in Nat /\ g[t] \in Nat /\ g[t] <= Known(t)
                             /\ Known(t) \in Nat /\ Known(t) <= c[t]
      BY <2>1, KnownFacts DEF IInv, Share, Backed
    <2>3. DOMAIN c = Subtask /\ DOMAIN g = Subtask /\ IsFiniteSet(Subtask)
      BY CompositeAssumption DEF Share
    <2> HIDE DEF c
    <2>4. \A t \in Subtask : g[t] <= c[t]
      BY <2>2
    <2>5. Sum(g) <= Sum(c)
      BY <2>2, <2>3, <2>4, SumGrows
    <2> QED BY <2>1, <2>5 DEF Backed, c
  <1> QED BY <1>1, Invariance, PTL

(* await_for_subtasks that returns after an aggregation found every        *)
(* registered subtask complete, whenever each of them was read: no share   *)
(* can make up for another that is short.                                  *)
THEOREM AllAreComplete == Spec => []CompleteWhenFinished
  <1>1. IInv => CompleteWhenFinished
    <2> SUFFICES ASSUME IInv, pc = "finished", shown, NEW t \in subtasks
                 PROVE  Complete(t)
      BY DEF CompleteWhenFinished
    <2>1. PICK g \in Share : Backed(state, g) /\ Registered(g)
      BY DEF IInv, StateInv
    <2> DEFINE i == [u \in subtasks |-> Items[u]]
    <2>2. subtasks \subseteq Subtask /\ IsFiniteSet(subtasks)
      BY CompositeAssumption, FS_Subset DEF IInv, TypeOK
    <2>3. \A u \in Subtask : g[u] \in Nat /\ g[u] <= Known(u) /\ Known(u) \in Nat
                             /\ Known(u) <= Items[u]
                             /\ (Known(u) = Items[u] => Complete(u))
      BY <2>1, KnownFacts DEF IInv, Share, Backed
    <2>4. /\ DOMAIN g = Subtask /\ DOMAIN i = subtasks
          /\ \A u \in subtasks : i[u] = Items[u] /\ i[u] \in Nat /\ i[u] # 0
      BY <2>2, ItemsType DEF Share
    <2>5. Sum(i) <= Sum(g)
      BY <2>1 DEF IInv, FinishedInv, TotalOf, Backed
    <2> HIDE DEF i
    <2>6. \A u \in Subtask : g[u] # 0 => u \in subtasks /\ g[u] <= i[u]
      BY <2>1, <2>3, <2>4, ItemsType DEF Registered
    <2>7. /\ Sum(g) \in Nat /\ Sum(i) \in Nat /\ Sum(g) <= Sum(i)
          /\ Sum(g) = Sum(i) => \A u \in subtasks : i[u] # 0 => g[u] = i[u]
      BY <2>2, <2>3, <2>4, <2>6, SumGrows
    <2>8. Sum(g) = Sum(i)
      BY <2>5, <2>7
    <2>9. g[t] = Items[t]
      BY <2>4, <2>7, <2>8
    <2> QED BY <2>2, <2>3, <2>9, ItemsType
  <1> QED BY <1>1, Invariance, PTL

(* While the backend answers, one tracker never shows less than before.    *)
THEOREM ProgressNeverFalls == Spec => ShownNeverFalls
  <1>1. IInv /\ [Next]_vars =>
          [shown /\ outages' = 0 => Num(stored'.done) >= Num(stored.done)]_vars
    <2> SUFFICES ASSUME IInv, Next, shown, outages' = 0
                 PROVE  Num(stored'.done) >= Num(stored.done)
      OBVIOUS
    <2>1. (stored # None /\ Num(stored.done) \in Nat) \/ outages # 0
      BY StateCounters DEF IInv, TypeOK, ShownInv
    <2>2. CASE ReportUpdate
      <3>1. outages = 0 /\ pc = "reporting" /\ stored' \in {state, stored}
        BY <2>2 DEF ReportUpdate
      <3> QED BY <2>1, <3>1 DEF IInv, ShownInv
    <2>3. CASE ~ReportUpdate
      <3>1. stored' = stored
        BY <2>3 DEF Next, ParentStep, AwaitForSubtasks, Finish, BeginAggregate, Aggregate,
             ReadResult, ReadProgress, CreateTracker, RegisterSubtask, Work, ReportProgress, End
      <3>2. outages = 0
        BY <2>3, CompositeAssumption DEF IInv, TypeOK, Outage, Next, ParentStep,
             AwaitForSubtasks, Finish, BeginAggregate, Aggregate, ReadResult, ReadProgress,
             CreateTracker, RegisterSubtask, Work, ReportProgress, End
      <3> QED BY <2>1, <3>1, <3>2
    <2> QED BY <2>2, <2>3
  <1> QED BY <1>1, Invariance, PTL DEF Spec, ShownNeverFalls

==============================================================================
