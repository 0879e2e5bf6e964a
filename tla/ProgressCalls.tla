--------------------------- MODULE ProgressCalls ---------------------------
(***************************************************************************)
(* One ProgressState object and any sequence of calls of its methods, next *)
(* to a log of what the caller told it.                                    *)
(***************************************************************************)
EXTENDS ProgressState

CONSTANTS
  Batch,      (* numbers of items passed to a method, 0 included      *)
  MaxItems,   (* bound: items registered since the last reset         *)
  Sizes       (* batch sizes and percentages passed                   *)

ASSUME CallsAssumption ==
  Batch \subseteq Nat /\ MaxItems \in Nat /\ Sizes \subseteq Nat \ {0}

VARIABLES
  state,      (* the ProgressState object                                *)
  told        (* outcomes registered since the last reset or percentage, *)
              (* "plain" of the failures by register_failed              *)

vars == <<state, told>>

Nothing == [success |-> 0, failed |-> 0, skipped |-> 0, plain |-> 0]
Outcomes(t) == t.success + t.failed + t.skipped

TypeOK ==
  /\ state \in State
  /\ told \in [success : Nat, failed : Nat, skipped : Nat, plain : Nat]

Init ==
  /\ state \in {EmptyState} \cup {CreateByItems(n) : n \in Sizes}
  /\ told = Nothing

Room(n) == Outcomes(told) + n <= MaxItems

Successful(n) ==
  /\ Room(n)
  /\ state' = RegisterSuccessful(state, n)
  /\ told' = [told EXCEPT !.success = @ + n]

Failed(n) ==
  /\ Room(n)
  /\ state' = RegisterFailed(state, n)
  /\ told' = [told EXCEPT !.failed = @ + n, !.plain = @ + n]

FailedWithDetails ==
  /\ Room(1)
  /\ state' = RegisterFailedWithDetails(state)
  /\ told' = [told EXCEPT !.failed = @ + 1]

Skipped(n) ==
  /\ Room(n)
  /\ state' = RegisterSkipped(state, n)
  /\ told' = [told EXCEPT !.skipped = @ + n]

Progress(a, b, c) ==
  /\ Room(a + b + c)
  /\ state' = RegisterProgress(state, a, b, c)
  /\ told' = [success |-> told.success + a, failed |-> told.failed + b,
              skipped |-> told.skipped + c, plain |-> told.plain + b]

Percent(p) ==
  /\ state' = RegisterPercent(state, p)
  /\ told' = Nothing

Reset(n) ==
  /\ state' = ResetBatchSize(state, n)
  /\ told' = Nothing

Next ==
  \/ \E n \in Batch : Successful(n) \/ Failed(n) \/ Skipped(n)
  \/ FailedWithDetails
  \/ \E a, b, c \in Batch : Progress(a, b, c)
  \/ \E n \in Sizes : Percent(n) \/ Reset(n)

Spec == Init /\ [][Next]_vars

-----------------------------------------------------------------------------
(* Whatever the order of the calls, also across reset_batch_size and       *)
(* register_percent, each outcome is counted once and kept.                *)
OutcomesCounted ==
  /\ Num(state.success) = told.success
  /\ Num(state.failed) = told.failed
  /\ Num(state.skipped) = told.skipped

(* items_done is the "Number of items processed so far (regardless of the  *)
(* processing outcome)" (progress.py:26). RegisterFailed does not add to   *)
(* it, so that this is false once register_failed was told a failure, by   *)
(* itself or through register_progress.                                    *)
DoneCountsOutcomes == Num(state.done) = Outcomes(told)

(* For a caller that tells its failures by register_failed_with_details    *)
(* only, items_done is what its documentation says: each success, failure  *)
(* and skipped item is in it once, from the last reset on, also when calls *)
(* of register_failed came before that reset.                              *)
DoneCountsDetailed == told.plain = 0 => DoneCountsOutcomes
=============================================================================
