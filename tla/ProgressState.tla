--------------------------- MODULE ProgressState ---------------------------
(***************************************************************************)
(* The counters of unikit.progress.ProgressState and its methods, as       *)
(* operators from a state to the state after the call.  Times, messages    *)
(* and the dictionary of failed items are left out.                        *)
(***************************************************************************)
EXTENDS Naturals

CONSTANT None    (* Python's None: "not available" *)

ASSUME NoneIsNoNumber == None \notin Nat

Counter == Nat \cup {None}
State == [pct : Counter, done : Counter, success : Counter, failed : Counter,
          skipped : Counter, total : Counter]

ASSUME NoneIsNoState == None \notin State

(* x or 0 *)
Num(x) == IF x = None THEN 0 ELSE x

(* ProgressState() and create_by_items(n). *)
EmptyState == [pct |-> None, done |-> None, success |-> None, failed |-> None,
               skipped |-> None, total |-> None]
CreateByItems(n) == [EmptyState EXCEPT !.total = n, !.done = 0]

RegisterSuccessful_Twice(s, n) ==
  [s EXCEPT !.done = Num(@) + 2 * n, !.success = Num(@) + n]

RegisterSuccessful(s, n) ==
  [s EXCEPT !.done = Num(@) + n, !.success = Num(@) + n]

(* Initialises items_done but, unlike its siblings, does not add to it. *)
RegisterFailed(s, n) ==
  [s EXCEPT !.done = Num(@), !.failed = Num(@) + n]

RegisterFailedWithDetails_NotDone(s) ==
  [s EXCEPT !.done = Num(@), !.failed = Num(@) + 1]

RegisterFailedWithDetails(s) ==
  [s EXCEPT !.done = Num(@) + 1, !.failed = Num(@) + 1]

RegisterSkipped(s, n) ==
  [s EXCEPT !.done = Num(@) + n, !.skipped = Num(@) + n]

RegisterProgress(s, success, failed, skipped) ==
  RegisterSkipped(RegisterFailed(RegisterSuccessful(s, success), failed), skipped)

RegisterPercent(s, p) == [EmptyState EXCEPT !.pct = p]

(* items_total becomes n, the counters 0; a registered percentage stays. *)
ResetBatchSize_KeepsSkipped(s, n) ==
  [s EXCEPT !.total = n, !.done = 0, !.success = 0, !.failed = 0]

ResetBatchSize(s, n) ==
  [s EXCEPT !.total = n, !.done = 0, !.success = 0, !.failed = 0, !.skipped = 0]
=============================================================================
