------------------------- MODULE CompositeProgress -------------------------
(***************************************************************************)
(* A parent task that waits for its subtasks: CompositeProgressTracker and *)
(* TaskiqCompositeProgressTracker.  The subtasks run in other workers; the *)
(* parent knows of them what the result backend holds, and each of its two *)
(* reads per subtask sees the backend at a moment of its own.              *)
(***************************************************************************)
EXTENDS ProgressState, FiniteSets

CONSTANTS
  Subtask,          (* tasks that can be posted and registered              *)
  Items,            (* the items each of them works on; the parent          *)
                    (* registers it with this items_total                   *)
  Method,           (* the methods of ProgressState that subtasks use       *)
  MaxConcurrency,   (* max_concurrency of aaggregate                        *)
  MaxOutages,       (* bound: reads of the result backend that raise        *)
  MaxTrackers       (* bound: trackers that the parent creates              *)

ASSUME CompositeAssumption ==
  /\ IsFiniteSet(Subtask)
  /\ Items \in [Subtask -> Nat \ {0}]
  /\ MaxConcurrency \in Nat \ {0} /\ MaxOutages \in Nat /\ MaxTrackers \in Nat \ {0}

VARIABLES
  own,        (* Subtask -> the ProgressState in its worker                 *)
  progress,   (* Subtask -> what the backend has under progress_state       *)
  result,     (* Subtask -> how it ended, as the backend has it             *)
  subtasks,   (* subtasks that the parent has registered                    *)
  fetch,      (* Subtask -> where its fetch in aaggregate is                *)
  answer,     (* Subtask -> what its fetch returned                         *)
  state,      (* the parent's ProgressState                                 *)
  stored,     (* the parent's progress in the backend                       *)
  pc,         (* where the parent is                                        *)
  outages,    (* reads that raised so far                                   *)
  trackers,   (* trackers created so far                                    *)
  shown       (* history: the tracker in use has stored a report            *)

subtaskVars == <<own, progress, result>>
trackerVars == <<trackers, shown>>
vars == <<own, progress, result, subtasks, fetch, answer, state, stored, pc, outages, trackers, shown>>

(* A result with a progress state in it, another one, or an error. *)
Ending == {"state", "plain", "error"}
Ended(t) == result[t] # "none"

Waiting == {"testing", "fetching", "reporting"}

TypeOK ==
  /\ own \in [Subtask -> State]
  /\ progress \in [Subtask -> State \cup {None}]
  /\ result \in [Subtask -> Ending \cup {"none"}]
  /\ subtasks \subseteq Subtask
  /\ fetch \in [Subtask -> {"idle", "queued", "progress", "done"}]
  /\ answer \in [Subtask -> State \cup {None}]
  /\ state \in State
  /\ stored \in State \cup {None}
  /\ pc \in {"spawning", "finished", "raised"} \cup Waiting
  /\ outages \in 0..MaxOutages
  /\ trackers \in 1..MaxTrackers /\ shown \in BOOLEAN

Init ==
  /\ own = [t \in Subtask |-> CreateByItems(Items[t])]
  /\ progress = [t \in Subtask |-> None]
  /\ result = [t \in Subtask |-> "none"]
  /\ subtasks = {}
  /\ fetch = [t \in Subtask |-> "idle"]
  /\ answer = [t \in Subtask |-> None]
  /\ state = EmptyState
  /\ stored = None
  /\ pc = "spawning"
  /\ outages = 0
  /\ trackers = 1 /\ shown = FALSE

-----------------------------------------------------------------------------
(* The subtasks. *)

Processed(s) == Num(s.success) + Num(s.failed) + Num(s.skipped)

AfterItem(s) ==
  {r \in {[by |-> "successful", state |-> RegisterSuccessful(s, 1)],
          [by |-> "failed", state |-> RegisterFailed(s, 1)],
          [by |-> "failed_with_details", state |-> RegisterFailedWithDetails(s)],
          [by |-> "skipped", state |-> RegisterSkipped(s, 1)]} : r.by \in Method}

Work(t) ==
  /\ ~Ended(t)
  /\ Processed(own[t]) < Items[t]
  /\ \E r \in AfterItem(own[t]) : own' = [own EXCEPT ![t] = r.state]
  /\ UNCHANGED <<progress, result, subtasks, fetch, answer, state, stored, pc, outages, trackerVars>>

ReportProgress(t) ==
  /\ ~Ended(t)
  /\ progress' = [progress EXCEPT ![t] = own[t]]
  /\ UNCHANGED <<own, result, subtasks, fetch, answer, state, stored, pc, outages, trackerVars>>

(* It returns when all its items are processed, or raises at any time. *)
End(t) ==
  /\ ~Ended(t)
  /\ \E e \in Ending :
       /\ e # "error" => Processed(own[t]) = Items[t]
       /\ result' = [result EXCEPT ![t] = e]
  /\ UNCHANGED <<own, progress, subtasks, fetch, answer, state, stored, pc, outages, trackerVars>>

-----------------------------------------------------------------------------
(* The parent, which waits with await_for_subtasks or, in a thread, with   *)
(* wait_for_subtasks.                                                      *)

(* register_subtask: a coroutine of the parent may register more while     *)
(* another one waits, and the parent may wait again.                       *)
RegisterSubtask(t) ==
  /\ t \notin subtasks /\ pc # "raised"
  /\ subtasks' = subtasks \cup {t}
  /\ pc' = IF pc = "finished" THEN "spawning" ELSE pc
  /\ UNCHANGED <<subtaskVars, fetch, answer, state, stored, outages, trackerVars>>

(* create_composite_tracker with its ainit: the task creates another       *)
(* tracker, or runs again after it raised or died at any point.  The state *)
(* is what is stored under the task's id, the subtasks are not.            *)
CreateTracker ==
  /\ trackers < MaxTrackers
  /\ trackers' = trackers + 1 /\ shown' = FALSE
  /\ state' = IF stored = None THEN EmptyState ELSE stored
  /\ subtasks' = {}
  /\ fetch' = [t \in Subtask |-> "idle"]
  /\ answer' = [t \in Subtask |-> None]
  /\ pc' = "spawning"
  /\ UNCHANGED <<subtaskVars, stored, outages>>

AwaitForSubtasks ==
  /\ pc = "spawning"
  /\ pc' = "testing"
  /\ UNCHANGED <<subtaskVars, subtasks, fetch, answer, state, stored, outages, trackerVars>>

(* sum() over the values of f, as a number of units. *)
Units(f) == UNION {{t} \X (1..f[t]) : t \in DOMAIN f}
Sum(f) == Cardinality(Units(f))

TotalOf(ts) == Sum([t \in ts |-> Items[t]])

(* all_subtasks_complete: the sum at the last aggregation against the sum  *)
(* over the subtasks registered by now.                                    *)
AllSubtasksComplete_LastTotal == state.total # None /\ Num(state.done) >= state.total
AllSubtasksComplete == Num(state.done) >= TotalOf(subtasks)

Finish ==
  /\ pc = "testing"
  /\ AllSubtasksComplete
  /\ pc' = "finished"
  /\ UNCHANGED <<subtaskVars, subtasks, fetch, answer, state, stored, outages, trackerVars>>

BeginAggregate ==
  /\ pc = "testing"
  /\ ~AllSubtasksComplete
  /\ fetch' = [t \in Subtask |-> IF t \in subtasks THEN "queued" ELSE "idle"]
  /\ pc' = "fetching"
  /\ UNCHANGED <<subtaskVars, subtasks, answer, state, stored, outages, trackerVars>>

Asked == {t \in Subtask : fetch[t] # "idle"}
InFlight == {t \in Subtask : fetch[t] = "progress"}

(* _fetch_subtask_progress on a result: one without a progress state means *)
(* that all items succeeded, an error that all failed.                     *)
AllItems(t) == [EmptyState EXCEPT !.total = Items[t], !.done = Items[t], !.failed = 0,
                                  !.success = 0, !.skipped = 0]

Verdict_ErrorNotDone(t) ==
  CASE result[t] = "state" -> own[t]
    [] result[t] = "plain" -> [AllItems(t) EXCEPT !.success = Items[t]]
    [] result[t] = "error" -> [AllItems(t) EXCEPT !.done = 0, !.failed = Items[t]]

Verdict_PlainUnknown(t) ==
  CASE result[t] = "state" -> own[t]
    [] result[t] = "plain" -> None
    [] result[t] = "error" -> [AllItems(t) EXCEPT !.failed = Items[t]]

Verdict(t) ==
  CASE result[t] = "state" -> own[t]
    [] result[t] = "plain" -> [AllItems(t) EXCEPT !.success = Items[t]]
    [] result[t] = "error" -> [AllItems(t) EXCEPT !.failed = Items[t]]

Outage ==
  /\ outages < MaxOutages
  /\ outages' = outages + 1

(* get_result, once the semaphore lets the fetch begin; it raises as long  *)
(* as there is no result, and all that it raises means: still running.     *)
ReadResult(t) ==
  /\ pc = "fetching" /\ fetch[t] = "queued"
  /\ Cardinality(InFlight) < MaxConcurrency
  /\ \/ /\ Ended(t)
        /\ answer' = [answer EXCEPT ![t] = Verdict(t)]
        /\ fetch' = [fetch EXCEPT ![t] = "done"]
        /\ UNCHANGED outages
     \/ /\ IF Ended(t) THEN Outage ELSE UNCHANGED outages
        /\ fetch' = [fetch EXCEPT ![t] = "progress"]
        /\ UNCHANGED answer
  /\ UNCHANGED <<subtaskVars, subtasks, state, stored, pc, trackerVars>>

(* get_progress; an exception is logged and means: no progress known. *)
ReadProgress(t) ==
  /\ pc = "fetching" /\ fetch[t] = "progress"
  /\ \/ /\ answer' = [answer EXCEPT ![t] = progress[t]]
        /\ UNCHANGED outages
     \/ /\ answer' = [answer EXCEPT ![t] = None]
        /\ Outage
  /\ fetch' = [fetch EXCEPT ![t] = "done"]
  /\ UNCHANGED <<subtaskVars, subtasks, state, stored, pc, trackerVars>>

Answers(counter) ==
  [t \in Asked |-> IF answer[t] = None THEN 0 ELSE Num(answer[t][counter])]
SumOf(counter) == Sum(Answers(counter))

Aggregated_OnTop ==
  [EmptyState EXCEPT !.total = TotalOf(Asked), !.done = Num(state.done) + SumOf("done"),
     !.success = SumOf("success"), !.failed = SumOf("failed"), !.skipped = SumOf("skipped")]

Aggregated ==
  [EmptyState EXCEPT !.total = TotalOf(Asked), !.done = SumOf("done"),
     !.success = SumOf("success"), !.failed = SumOf("failed"), !.skipped = SumOf("skipped")]

Aggregate ==
  /\ pc = "fetching"
  /\ \A t \in Asked : fetch[t] = "done"
  /\ state' = Aggregated
  /\ fetch' = [t \in Subtask |-> "idle"]
  /\ answer' = [t \in Subtask |-> None]
  /\ pc' = "reporting"
  /\ UNCHANGED <<subtaskVars, subtasks, stored, outages, trackerVars>>

(* _ado_report_update; an exception leaves await_for_subtasks, the write   *)
(* executed or not.                                                        *)
ReportUpdate ==
  /\ pc = "reporting"
  /\ \/ stored' = state /\ pc' = "testing" /\ shown' = TRUE
     \/ stored' \in {state, stored} /\ pc' = "raised" /\ UNCHANGED shown
  /\ UNCHANGED <<subtaskVars, subtasks, fetch, answer, state, outages, trackers>>

-----------------------------------------------------------------------------
ParentStep ==
  \/ AwaitForSubtasks \/ Finish \/ BeginAggregate \/ Aggregate \/ ReportUpdate
  \/ \E t \in Subtask : ReadResult(t) \/ ReadProgress(t)

Next ==
  \/ ParentStep \/ CreateTracker
  \/ \E t \in Subtask : RegisterSubtask(t) \/ Work(t) \/ ReportProgress(t) \/ End(t)

Spec == Init /\ [][Next]_vars

(* The parent's event loop runs and the backend answers.  Nothing is       *)
(* assumed of the subtasks or of what the parent registers and creates.    *)
FairSpec == Spec /\ WF_vars(ParentStep)

-----------------------------------------------------------------------------
Complete(t) == Ended(t) \/ Processed(own[t]) = Items[t]

(* await_for_subtasks returns only when "all subtasks are complete"        *)
(* (progress.py:455), once it aggregated: each has ended or has no item    *)
(* left, although what is compared are sums of numbers read at different   *)
(* times.                                                                  *)
CompleteWhenFinished == pc = "finished" /\ shown => \A t \in subtasks : Complete(t)

(* all_subtasks_complete is "True if all subtasks have completed"          *)
(* (progress.py:447), in particular when await_for_subtasks returns.       *)
CompletedIsComplete == pc = "finished" => \A t \in subtasks : Complete(t)

(* What the parent's callers see as done was done: by the subtasks'        *)
(* workers, or by their end.                                               *)
Credit(t) == IF result[t] \in {"plain", "error"} THEN Items[t] ELSE Num(own[t].done)

ShownIsDone ==
  stored # None => Num(stored.done) <= Sum([t \in Subtask |-> Credit(t)])

(* await_for_subtasks polls "until all subtasks are complete"              *)
(* (progress.py:455): once every subtask it registered has ended, it       *)
(* returns. Not so when one ended with a state to which register_failed    *)
(* did not add: its items_done stay below its items for ever.              *)
WaitingEnds == []<>~(pc \in Waiting /\ \A t \in subtasks : Ended(t))

(* It does return when every subtask ended and its end counts for all its  *)
(* items: without a state, by an error, or with a state whose items_done   *)
(* has them all. No read that raised, no sum read while subtasks went on   *)
(* and nothing a former tracker stored keeps it polling.                   *)
CountedWaitingEnds ==
  []<>~(pc \in Waiting /\ \A t \in subtasks : Ended(t) /\ Credit(t) = Items[t])

(* As long as the backend answers, what one tracker shows never goes       *)
(* backwards, also when a subtask turns from its progress to its result.   *)
ShownNeverFalls ==
  [][shown /\ outages' = 0 => Num(stored'.done) >= Num(stored.done)]_vars
=============================================================================
