-------------------------- MODULE ProgressTracker --------------------------
(***************************************************************************)
(* ProgressTracker.track / atrack with the reporting of                    *)
(* TaskiqProgressTracker and TaskProgressReporter: the coroutines of one   *)
(* task share a tracker and interleave at every await.                     *)
(*                                                                         *)
(* tracker.state is an object that afetch_state replaces by a new one, so  *)
(* a coroutine that waits can hold one that is no longer the tracker's.    *)
(***************************************************************************)
EXTENDS ProgressState

CONSTANTS
  Worker,        (* coroutines of the task                                *)
  Object,        (* identities of ProgressState objects                   *)
  ReportEvery,   (* report_every_x_updates                                *)
  MaxItems       (* bound: items the task works on                        *)

ASSUME TrackerAssumption == ReportEvery \in Nat \ {0} /\ MaxItems \in Nat

VARIABLES
  heap,        (* Object -> counters                                      *)
  state,       (* tracker._state, an Object                               *)
  untracked,   (* tracker._untracked_updates                              *)
  stored,      (* what the result backend has under progress_state        *)
  note,        (* what it has under another key of the same TaskProgress  *)
  pc,          (* where each coroutine is                                 *)
  held,        (* the object a waiting coroutine refers to                *)
  doc,         (* the TaskProgress a coroutine has read or will write     *)
  processed,   (* items registered by all coroutines so far               *)
  unreported,  (* calls of track since a report last began                *)
  notes,       (* the writer of the note was told that it is stored       *)
  overlapped   (* two coroutines were in the tracker or reporter at once  *)

vars == <<heap, state, untracked, stored, note, pc, held, doc, processed, unreported, notes,
          overlapped>>

(* Nothing stored yet: get_progress returns None, or lacks the key. *)
NoProgress == None

Doc == [progress : State \cup {NoProgress}, note : BOOLEAN]

(* Two awaits of a report and its fetch: the backend has yet to answer     *)
(* ("reading", "fetching"), or has and the coroutine did not go on.        *)
Reading == {"reading", "read"}
Fetching == {"fetching", "fetched"}
Reporting == Reading \cup {"writing"} \cup Fetching
Phase == {"work", "storing"} \cup Reporting

TypeOK ==
  /\ heap \in [Object -> State]
  /\ state \in Object
  /\ untracked \in Nat
  /\ stored \in State \cup {NoProgress}
  /\ note \in BOOLEAN
  /\ pc \in [Worker -> Phase]
  /\ held \in [Worker -> Object]
  /\ doc \in [Worker -> Doc]
  /\ processed \in 0..MaxItems
  /\ unreported \in Nat
  /\ notes \in BOOLEAN
  /\ overlapped \in BOOLEAN

EmptyDoc == [progress |-> NoProgress, note |-> FALSE]

Init ==
  /\ heap = [o \in Object |-> EmptyState]
  /\ state \in Object
  /\ untracked = 0
  /\ stored = NoProgress
  /\ note = FALSE
  /\ pc = [w \in Worker |-> "work"]
  /\ held = [w \in Worker |-> state]
  /\ doc = [w \in Worker |-> EmptyDoc]
  /\ processed = 0
  /\ unreported = 0
  /\ notes = FALSE
  /\ overlapped = FALSE

-----------------------------------------------------------------------------
Goto(w, phase) == pc' = [pc EXCEPT ![w] = phase]

Enter(w) == overlapped' = (overlapped \/ \E v \in Worker \ {w} : pc[v] # "work")

Due(n) == n >= ReportEvery

(* Register an item on tracker.state and call atrack: no await before the  *)
(* report's first command, and none at all if no report is due.            *)
(* Methods that count what they register, see ProgressCalls for the other. *)
Registered(s) ==
  {RegisterSuccessful(s, 1), RegisterFailedWithDetails(s), RegisterSkipped(s, 1)}

Track(w) ==
  /\ pc[w] = "work" /\ processed < MaxItems
  /\ \E s \in Registered(heap[state]) : heap' = [heap EXCEPT ![state] = s]
  /\ processed' = processed + 1
  /\ \/ /\ Due(untracked + 1)
        /\ untracked' = untracked + 1
        /\ unreported' = 0
        /\ held' = [held EXCEPT ![w] = state]
        /\ Goto(w, "reading")
     \/ /\ ~Due(untracked + 1)
        /\ untracked' = 0                    \* the finally clause
        /\ unreported' = unreported + 1
        /\ UNCHANGED <<held, pc>>
  /\ Enter(w)
  /\ UNCHANGED <<state, stored, note, doc, notes>>

(* get_progress: what the backend holds when it executes the command. *)
AsStored == [progress |-> stored, note |-> note]

BackendReads(w) ==
  /\ pc[w] \in {"reading", "fetching"}
  /\ doc' = [doc EXCEPT ![w] = AsStored]
  /\ Goto(w, IF pc[w] = "reading" THEN "read" ELSE "fetched")
  /\ UNCHANGED <<heap, state, untracked, stored, note, held, processed, unreported, notes, overlapped>>

(* set_object goes on: the object, as it is now, is serialised into what   *)
(* was read; the other keys stay as read.                                  *)
WithObject_Alone(d, s) == [progress |-> s, note |-> FALSE]
WithObject(d, s) == [d EXCEPT !.progress = s]

Serialise(w) ==
  /\ pc[w] = "read"
  /\ doc' = [doc EXCEPT ![w] = WithObject(doc[w], heap[held[w]])]
  /\ Goto(w, "writing")
  /\ UNCHANGED <<heap, state, untracked, stored, note, held, processed, unreported, notes, overlapped>>

(* set_progress, then afetch_state is called: on_missing = self._state. *)
WriteProgress(w) ==
  /\ pc[w] = "writing"
  /\ stored' = doc[w].progress
  /\ note' = doc[w].note
  /\ held' = [held EXCEPT ![w] = state]
  /\ doc' = [doc EXCEPT ![w] = EmptyDoc]
  /\ Goto(w, "fetching")
  /\ UNCHANGED <<heap, state, untracked, processed, unreported, notes, overlapped>>

Unreferenced(o) == o # state /\ \A w \in Worker : pc[w] # "work" => held[w] # o

(* get_object builds a new object from those stored fields that the class  *)
(* has; it becomes tracker._state.  The finally clause of atrack resets    *)
(* the counter.                                                            *)
FromBackend_NoDone(s) == [s EXCEPT !.done = None]
FromBackend(s) ==
  [pct |-> s.pct, done |-> s.done, success |-> s.success, failed |-> s.failed,
   skipped |-> s.skipped, total |-> s.total]

Adopt(w) ==
  /\ pc[w] = "fetched"
  /\ \/ /\ doc[w].progress # NoProgress
        /\ \E o \in Object :
             /\ Unreferenced(o)
             /\ heap' = [heap EXCEPT ![o] = FromBackend(doc[w].progress)]
             /\ state' = o
     \/ /\ doc[w].progress = NoProgress
        /\ state' = held[w]
        /\ UNCHANGED heap
  /\ untracked' = 0
  /\ doc' = [doc EXCEPT ![w] = EmptyDoc]
  /\ Goto(w, "work")
  /\ UNCHANGED <<stored, note, held, processed, unreported, notes, overlapped>>

(* A command of the report raises; the backend may have executed it. *)
ReportFails(w) ==
  /\ pc[w] \in Reporting
  /\ \/ UNCHANGED <<stored, note>>
     \/ /\ pc[w] = "writing"
        /\ stored' = doc[w].progress
        /\ note' = doc[w].note
  /\ untracked' = 0
  /\ doc' = [doc EXCEPT ![w] = EmptyDoc]
  /\ Goto(w, "work")
  /\ UNCHANGED <<heap, state, held, processed, unreported, notes, overlapped>>

(* set_object of some other object under a key of its own. *)
ReadForNote(w) ==
  /\ pc[w] = "work"
  /\ ~notes
  /\ doc' = [doc EXCEPT ![w] = [progress |-> stored, note |-> TRUE]]
  /\ Enter(w)
  /\ Goto(w, "storing")
  /\ UNCHANGED <<heap, state, untracked, stored, note, held, processed, unreported, notes>>

WriteNote(w) ==
  /\ pc[w] = "storing"
  /\ stored' = doc[w].progress
  /\ note' = TRUE
  /\ notes' = TRUE
  /\ doc' = [doc EXCEPT ![w] = EmptyDoc]
  /\ Goto(w, "work")
  /\ UNCHANGED <<heap, state, untracked, held, processed, unreported, overlapped>>

Next ==
  \E w \in Worker :
    \/ Track(w) \/ BackendReads(w) \/ Serialise(w) \/ WriteProgress(w) \/ Adopt(w)
    \/ ReportFails(w) \/ ReadForNote(w) \/ WriteNote(w)

Spec == Init /\ [][Next]_vars

-----------------------------------------------------------------------------
AtRest == \A w \in Worker : pc[w] = "work"

(* Every item that a coroutine registered is counted by the tracker once   *)
(* the coroutines are back from atrack: items_done is the "number of items  *)
(* processed so far" (progress.py:26).                                     *)
NothingLost == AtRest => Num(heap[state].done) = processed

(* Coroutines that take turns lose nothing, also when a report fails and   *)
(* whether or not its write was executed.                                  *)
TurnsLoseNothing == ~overlapped => NothingLost

(* However the coroutines interleave, neither the tracker nor the backend  *)
(* ever shows more items than were processed, and all that is shown as     *)
(* done has an outcome.                                                    *)
Plausible(s) ==
  /\ Num(s.done) <= processed
  /\ Num(s.done) = Num(s.success) + Num(s.failed) + Num(s.skipped)

NoOvercount ==
  /\ \A o \in Object : Plausible(heap[o])
  /\ stored # NoProgress => Plausible(stored)

(* Nor is more on its way: what a coroutine has read or is about to write. *)
DocsPlausible ==
  \A w \in Worker : doc[w].progress # NoProgress => Plausible(doc[w].progress)

CountInv == TypeOK /\ NoOvercount /\ DocsPlausible

(* What a caller sees of the task never goes backwards, as long as the     *)
(* coroutines take turns.                                                  *)
StoredMonotone ==
  [][stored # NoProgress /\ ~overlapped =>
       /\ stored' # NoProgress
       /\ Num(stored'.done) >= Num(stored.done)]_vars

(* track "invokes storage backend to persist progres data"                 *)
(* (progress.py:237-238): at the latest every ReportEvery-th call does.    *)
ReportedInTime == unreported < ReportEvery

(* An object stored under another key survives the progress reports of     *)
(* coroutines that take turns.                                             *)
NoteKept == notes /\ ~overlapped => note
=============================================================================
