------------------------- MODULE ProgressCallsProofs -------------------------
(***************************************************************************)
(* What ProgressState counts, for batches and sequences of calls of any    *)
(* length, without the bounds of the runs.                                 *)
(***************************************************************************)
EXTENDS ProgressCalls, TLAPS

(* x or 0 is a number for every field of a state. *)
LEMMA NumIsNat == ASSUME NEW x \in Counter PROVE Num(x) \in Nat
BY NoneIsNoNumber DEF Num, Counter

(* Every method of ProgressState returns a ProgressState. *)
LEMMA MethodsReturnStates ==
  ASSUME NEW s \in State, NEW n \in Nat
  PROVE  /\ RegisterSuccessful(s, n) \in State
         /\ RegisterFailed(s, n) \in State
         /\ RegisterFailedWithDetails(s) \in State
         /\ RegisterSkipped(s, n) \in State
         /\ RegisterPercent(s, n) \in State
         /\ ResetBatchSize(s, n) \in State
         /\ CreateByItems(n) \in State
         /\ EmptyState \in State
<1>1. \A x \in Counter : Num(x) \in Nat
  BY NumIsNat
<1>2. \A m \in Nat : m \in Counter /\ m + n \in Counter /\ m + 1 \in Counter
  BY DEF Counter
<1>3. /\ Num(s.done) \in Nat /\ Num(s.success) \in Nat
      /\ Num(s.failed) \in Nat /\ Num(s.skipped) \in Nat
  BY <1>1 DEF State
<1>4. None \in Counter
  BY DEF Counter
<1>5. RegisterSuccessful(s, n) \in State /\ RegisterFailed(s, n) \in State
  BY <1>2, <1>3 DEF State, RegisterSuccessful, RegisterFailed
<1>6. RegisterFailedWithDetails(s) \in State /\ RegisterSkipped(s, n) \in State
  BY <1>2, <1>3 DEF State, RegisterFailedWithDetails, RegisterSkipped
<1>7. RegisterPercent(s, n) \in State /\ ResetBatchSize(s, n) \in State
  BY <1>2, <1>4 DEF State, RegisterPercent, ResetBatchSize, EmptyState
<1>8. CreateByItems(n) \in State /\ EmptyState \in State
  BY <1>2, <1>4 DEF State, CreateByItems, EmptyState
<1> QED
  BY <1>5, <1>6, <1>7, <1>8

(* register_progress is the three calls it chains. *)
LEMMA ProgressReturnsState ==
  ASSUME NEW s \in State, NEW a \in Nat, NEW b \in Nat, NEW c \in Nat
  PROVE  RegisterProgress(s, a, b, c) \in State
BY MethodsReturnStates DEF RegisterProgress

(* The type invariant survives every call. *)
LEMMA StepTypeOK == TypeOK /\ [Next]_vars => TypeOK'
<1> SUFFICES ASSUME TypeOK, [Next]_vars PROVE TypeOK'
  OBVIOUS
<1> USE CallsAssumption DEF TypeOK
<1>1. ASSUME NEW n \in Batch, Successful(n) PROVE TypeOK'
  BY <1>1, MethodsReturnStates DEF Successful
<1>2. ASSUME NEW n \in Batch, Failed(n) PROVE TypeOK'
  <2>1. RegisterFailed(state, n) \in State
    BY MethodsReturnStates
  <2>2. told' \in [success : Nat, failed : Nat, skipped : Nat, plain : Nat]
    <3>1. told.failed + n \in Nat /\ told.plain + n \in Nat
      OBVIOUS
    <3>2. told' = [success |-> told.success, failed |-> told.failed + n,
                   skipped |-> told.skipped, plain |-> told.plain + n]
      BY <1>2 DEF Failed
    <3> QED
      BY <3>1, <3>2
  <2> QED
    BY <1>2, <2>1, <2>2 DEF Failed
<1>3. CASE FailedWithDetails
  BY <1>3, MethodsReturnStates DEF FailedWithDetails
<1>4. ASSUME NEW n \in Batch, Skipped(n) PROVE TypeOK'
  BY <1>4, MethodsReturnStates DEF Skipped
<1>5. ASSUME NEW a \in Batch, NEW b \in Batch, NEW c \in Batch, Progress(a, b, c) PROVE TypeOK'
  <2>1. a \in Nat /\ b \in Nat /\ c \in Nat
    OBVIOUS
  <2>2. RegisterProgress(state, a, b, c) \in State
    BY <2>1, ProgressReturnsState
  <2> QED
    BY <1>5, <2>1, <2>2 DEF Progress
<1>6. ASSUME NEW n \in Sizes, Percent(n) PROVE TypeOK'
  <2>1. n \in Nat
    OBVIOUS
  <2>2. RegisterPercent(state, n) \in State
    BY <2>1, MethodsReturnStates
  <2> QED
    BY <1>6, <2>2 DEF Percent, Nothing
<1>7. ASSUME NEW n \in Sizes, Reset(n) PROVE TypeOK'
  BY <1>7, MethodsReturnStates DEF Reset, Nothing
<1>8. CASE UNCHANGED vars
  BY <1>8 DEF vars
<1> QED
  BY <1>1, <1>2, <1>3, <1>4, <1>5, <1>6, <1>7, <1>8 DEF Next

(* The object starts as a state without items, and with nothing told. *)
LEMMA Fresh ==
  ASSUME Init
  PROVE  /\ state \in State /\ told = Nothing
         /\ state.success = None /\ state.failed = None /\ state.skipped = None
         /\ state.done \in {0, None}
<1> USE CallsAssumption
<1>1. CASE state = EmptyState
  BY <1>1 DEF Init, EmptyState, State, Counter
<1>2. ASSUME NEW n \in Sizes, state = CreateByItems(n)
      PROVE  /\ state \in State
             /\ state.success = None /\ state.failed = None /\ state.skipped = None
             /\ state.done \in {0, None}
  BY <1>2 DEF EmptyState, CreateByItems, State, Counter
<1> QED
  BY <1>1, <1>2 DEF Init

(* Every state the calls reach is well typed. *)
THEOREM CallsTyped == Spec => []TypeOK
<1>1. Init => TypeOK
  BY Fresh DEF TypeOK, Nothing
<1> QED
  BY <1>1, StepTypeOK, PTL DEF Spec

-----------------------------------------------------------------------------
(* Each outcome is added to its own counter, by every method and in every  *)
(* order, and only a reset or a percentage forgets it.                     *)
THEOREM OutcomesAreCounted == Spec => []OutcomesCounted
<1>1. Init => OutcomesCounted
  BY Fresh DEF OutcomesCounted, Nothing, Num
<1>2. TypeOK /\ OutcomesCounted /\ [Next]_vars => OutcomesCounted'
  <2> SUFFICES ASSUME TypeOK, OutcomesCounted, [Next]_vars PROVE OutcomesCounted'
    OBVIOUS
  <2> USE CallsAssumption, NoneIsNoNumber DEF TypeOK, OutcomesCounted, Num, State, Counter
  <2>1. ASSUME NEW n \in Batch, Successful(n) PROVE OutcomesCounted'
    BY <2>1 DEF Successful, RegisterSuccessful
  <2>2. ASSUME NEW n \in Batch, Failed(n) PROVE OutcomesCounted'
    BY <2>2 DEF Failed, RegisterFailed
  <2>3. CASE FailedWithDetails
    BY <2>3 DEF FailedWithDetails, RegisterFailedWithDetails
  <2>4. ASSUME NEW n \in Batch, Skipped(n) PROVE OutcomesCounted'
    BY <2>4 DEF Skipped, RegisterSkipped
  <2>5. ASSUME NEW a \in Batch, NEW b \in Batch, NEW c \in Batch, Progress(a, b, c)
        PROVE  OutcomesCounted'
    BY <2>5 DEF Progress, RegisterProgress, RegisterSuccessful, RegisterFailed, RegisterSkipped
  <2>6. ASSUME NEW n \in Sizes, Percent(n) PROVE OutcomesCounted'
    BY <2>6 DEF Percent, RegisterPercent, EmptyState, Nothing
  <2>7. ASSUME NEW n \in Sizes, Reset(n) PROVE OutcomesCounted'
    BY <2>7 DEF Reset, ResetBatchSize, Nothing
  <2>8. CASE UNCHANGED vars
    BY <2>8 DEF vars
  <2> QED
    BY <2>1, <2>2, <2>3, <2>4, <2>5, <2>6, <2>7, <2>8 DEF Next
<1> QED
  BY <1>1, <1>2, CallsTyped, PTL DEF Spec

-----------------------------------------------------------------------------
(* What RegisterFailed does not add is what items_done lacks: inductive,   *)
(* where the properties about items_done are not.                          *)
DoneGap == Num(state.done) + told.plain = Outcomes(told)

LEMMA GapIsPlainFailures == Spec => []DoneGap
<1>1. Init => DoneGap
  BY Fresh DEF DoneGap, Nothing, Outcomes, Num
<1>2. TypeOK /\ DoneGap /\ [Next]_vars => DoneGap'
  <2> SUFFICES ASSUME TypeOK, DoneGap, [Next]_vars
               PROVE  DoneGap'
    OBVIOUS
  <2> USE CallsAssumption, NoneIsNoNumber
      DEF TypeOK, DoneGap, Outcomes, Num, State, Counter
  <2>1. ASSUME NEW n \in Batch, Successful(n) PROVE DoneGap'
    BY <2>1 DEF Successful, RegisterSuccessful
  <2>2. ASSUME NEW n \in Batch, Failed(n) PROVE DoneGap'
    BY <2>2 DEF Failed, RegisterFailed
  <2>3. CASE FailedWithDetails
    BY <2>3 DEF FailedWithDetails, RegisterFailedWithDetails
  <2>4. ASSUME NEW n \in Batch, Skipped(n) PROVE DoneGap'
    BY <2>4 DEF Skipped, RegisterSkipped
  <2>5. ASSUME NEW a \in Batch, NEW b \in Batch, NEW c \in Batch, Progress(a, b, c)
        PROVE  DoneGap'
    BY <2>5 DEF Progress, RegisterProgress, RegisterSuccessful, RegisterFailed, RegisterSkipped
  <2>6. ASSUME NEW n \in Sizes, Percent(n) PROVE DoneGap'
    BY <2>6 DEF Percent, RegisterPercent, EmptyState, Nothing
  <2>7. ASSUME NEW n \in Sizes, Reset(n) PROVE DoneGap'
    BY <2>7 DEF Reset, ResetBatchSize, Nothing
  <2>8. CASE UNCHANGED vars
    BY <2>8 DEF vars
  <2> QED
    BY <2>1, <2>2, <2>3, <2>4, <2>5, <2>6, <2>7, <2>8 DEF Next
<1> QED
  BY <1>1, <1>2, CallsTyped, PTL DEF Spec

(* For any batches and calls, items_done is the number of outcomes told    *)
(* since the last reset if none of them went through register_failed.      *)
THEOREM DoneCountsAllDetailed == Spec => []DoneCountsDetailed
<1>1. TypeOK /\ DoneGap => DoneCountsDetailed
  <2> SUFFICES ASSUME TypeOK, DoneGap, told.plain = 0
               PROVE  Num(state.done) = Outcomes(told)
    BY DEF DoneCountsDetailed, DoneCountsOutcomes
  <2>1. Num(state.done) \in Nat
    BY NumIsNat DEF TypeOK, State
  <2> QED
    BY <2>1 DEF DoneGap
<1> QED
  BY <1>1, CallsTyped, GapIsPlainFailures, PTL
=============================================================================
