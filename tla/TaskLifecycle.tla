----------------------------- MODULE TaskLifecycle -----------------------------
(* Background tasks from the post to the answer: the registry of worker      *)
(* services that chooses where a task goes, the middlewares around its       *)
(* execution, the context its body sees, and the clients that ask for its    *)
(* result or wait for it. Queue, receiver and result backend are taskiq's.   *)
EXTENDS Integers, Sequences, FiniteSets

CONSTANTS Services,   \* worker services in the order they were registered
          Knows,      \* names of tasks the broker of a service knows
          Job,        \* calls of post_task
          NameOf,     \* name of the task a job posts
          PosterOf,   \* the job whose body posts it, or None
          PrincipalOf,\* principal of whoever began the chain of posts
          Client,     \* clients that ask and wait
          Watches,    \* the job a client asks about
          Timeout,    \* timeouts they give: [days, seconds, micros], or None
          Order,      \* execution middlewares in the order of the broker
          Holder,     \* the context holder the container and middleware got
          MaxFaults,  \* bound: crashes, failed calls and failed middlewares
          None

Holders == {"default", "custom"}
Middlewares == {"info", "report", "security", "otel"}
Name == {NameOf[j] : j \in Job}
Principal == {PrincipalOf[j] : j \in Job}

ASSUME TaskAssumption ==
    /\ Services # <<>>
    /\ \A i \in DOMAIN Services : Knows[Services[i]] \subseteq Name
    /\ \A t \in Timeout : t = None \/ t.seconds \in 0..86399

ASSUME PosterAssumption ==
    \A j \in Job : PosterOf[j] # None =>
        PosterOf[j] \in Job /\ PrincipalOf[j] = PrincipalOf[PosterOf[j]]
ASSUME ClientAssumption == Watches \in [Client -> Job]
ASSUME OrderAssumption == Order \in Seq(Middlewares) /\ Holder \in Holders
ASSUME BoundAssumption == MaxFaults \in Nat
ASSUME NoneAssumption == None \notin {"ok", "err"} \cup Job \cup Principal

VARIABLES msg,      \* message of each job: its state, service and labels
          run,      \* execution of each job: one callback of the receiver
          progress, \* jobs that have a progress in the result backend
          result,   \* result of each job in the result backend, or None
          client,   \* the call each client is in, and its last answer
          faults,   \* faults so far
          past      \* history: how executions ended, what was lost

vars == <<msg, run, progress, result, client, faults, past>>

-----------------------------------------------------------------------------
(* Where a task goes.                                                        *)

SupportsTask(s, name) == name \in Knows[s]

DefaultService == Services[1]

ServiceFor_Default(name) == DefaultService
ServiceFor(name) ==
    LET able == {i \in DOMAIN Services : SupportsTask(Services[i], name)}
    IN  IF able = {} THEN DefaultService
        ELSE Services[CHOOSE i \in able : \A k \in able : i <= k]

\* post_task of the registry falls back to the default service.
RoutedTo(j) == ServiceFor(NameOf[j])

-----------------------------------------------------------------------------
(* The context of a callback starts empty and ends with it.                  *)

Idle == [pc |-> "idle", next |-> 1, task |-> None,
         held |-> [h \in Holders |-> None], span |-> "none", out |-> "none"]

NoMsg == [st |-> "new", at |-> None, name |-> None, by |-> None]

\* A call of a client and an answer. had and failed are history: was there a
\* result when the call began, did a read of the backend fail in it?
Quiet == [op |-> "none", timeout |-> None, had |-> FALSE, failed |-> FALSE]
NoAnswer == [status |-> "none", had |-> FALSE, failed |-> FALSE]

Message == [st : {"new", "refused", "queued", "taken", "dropped", "acked"},
            at : {ServiceFor(n) : n \in Name} \cup {None},
            name : Name \cup {None}, by : Principal \cup {None}]
Execution == [pc : {"idle", "pre", "body", "post", "save", "ack"}, next : Nat,
              task : Job \cup {None}, held : [Holders -> Principal \cup {None}],
              span : {"none", "open", "ok", "error"}, out : {"none", "ok", "err"}]
Call == [op : {"none", "result", "progress", "wait"}, timeout : Timeout \cup {None},
         had : BOOLEAN, failed : BOOLEAN]
Reply == [status : {"none", "PENDING", "RUNNING", "SUCCESS", "FAILED"},
          had : BOOLEAN, failed : BOOLEAN]

TypeOK == /\ msg \in [Job -> Message]
          /\ run \in [Job -> Execution]
          /\ progress \subseteq Job
          /\ result \in [Job -> {None, "ok", "err"}]
          /\ client \in [Client -> [call : Call, last : Reply]]
          /\ faults \in 0..MaxFaults
          /\ past \in [ended : [Job -> SUBSET {"ok", "err"}], lost : SUBSET Job]

Init == /\ msg = [j \in Job |-> NoMsg]
        /\ run = [j \in Job |-> Idle]
        /\ progress = {}
        /\ result = [j \in Job |-> None]
        /\ client = [c \in Client |-> [call |-> Quiet, last |-> NoAnswer]]
        /\ faults = 0
        /\ past = [ended |-> [j \in Job |-> {}], lost |-> {}]

Fault == faults < MaxFaults /\ faults' = faults + 1

-----------------------------------------------------------------------------
(* Posting. The labels are attached by pre_send of the middlewares; without  *)
(* a security context in the container of the poster nothing is sent.        *)

\* What the security context of the container says in the callback of a job.
Visible(j) == run[j].held[Holder]
CurrentTask(j) == run[j].task

\* What pre_send finds in the container of the poster: outside of a task the
\* context of the request, for instance.
Attached(j) == IF PosterOf[j] = None THEN PrincipalOf[j] ELSE Visible(PosterOf[j])

Post(j) ==
    /\ msg[j].st = "new"
    /\ PosterOf[j] # None => run[PosterOf[j]].pc = "body"
    /\ msg' = [msg EXCEPT ![j] =
          IF Attached(j) = None THEN [@ EXCEPT !.st = "refused"]
          ELSE [st |-> "queued", at |-> RoutedTo(j),
                name |-> NameOf[j], by |-> Attached(j)]]
    /\ UNCHANGED <<run, progress, result, client, faults, past>>

-----------------------------------------------------------------------------
(* Execution: one callback of the receiver per message.                      *)

Known(j) == SupportsTask(msg[j].at, msg[j].name)

\* A message whose task the broker does not know is dropped.
Take(j) ==
    /\ msg[j].st = "queued"
    /\ msg' = [msg EXCEPT ![j].st = IF Known(j) THEN "taken" ELSE "dropped"]
    /\ run' = [run EXCEPT ![j] = IF Known(j) THEN [Idle EXCEPT !.pc = "pre"] ELSE @]
    /\ UNCHANGED <<progress, result, client, faults, past>>

AtMiddleware(j, m) ==
    run[j].pc = "pre" /\ run[j].next <= Len(Order) /\ Order[run[j].next] = m

Passed(j) == [run[j] EXCEPT !.next = @ + 1]

PreInfo(j) ==
    /\ AtMiddleware(j, "info")
    /\ run' = [run EXCEPT ![j] = [Passed(j) EXCEPT !.task = j]]
    /\ UNCHANGED <<msg, progress, result, client, faults, past>>

\* Whatever progress there was, also of an execution before a crash, is
\* written over; the reports of the body write over this one.
PreReport(j) ==
    /\ AtMiddleware(j, "report")
    /\ progress' = progress \cup {j}
    /\ run' = [run EXCEPT ![j] = Passed(j)]
    /\ UNCHANGED <<msg, result, client, faults, past>>

\* The holder given to the middleware is kept but the default one is set.
PreSecurity_Shared(j) ==
    /\ AtMiddleware(j, "security")
    /\ run' = [k \in Job |->
         [(IF k = j THEN Passed(j) ELSE run[k]) EXCEPT !.held["default"] = msg[j].by]]
    /\ UNCHANGED <<msg, progress, result, client, faults, past>>
PreSecurity(j) ==
    /\ AtMiddleware(j, "security")
    /\ run' = [run EXCEPT ![j] = [Passed(j) EXCEPT !.held["default"] = msg[j].by]]
    /\ UNCHANGED <<msg, progress, result, client, faults, past>>

PreOtel(j) ==
    /\ AtMiddleware(j, "otel")
    /\ run' = [run EXCEPT ![j] = [Passed(j) EXCEPT !.span = "open"]]
    /\ UNCHANGED <<msg, progress, result, client, faults, past>>

\* set_progress of the backend or afrom_dto raises: the callback ends here,
\* with no result and no acknowledgement, and nothing is cleaned up.
PreFails(j) ==
    /\ AtMiddleware(j, "report") \/ AtMiddleware(j, "security")
    /\ Fault
    /\ run' = [run EXCEPT ![j] = Idle]
    /\ UNCHANGED <<msg, progress, result, client, past>>

StartBody(j) ==
    /\ run[j].pc = "pre" /\ run[j].next > Len(Order)
    /\ run' = [run EXCEPT ![j].pc = "body"]
    /\ UNCHANGED <<msg, progress, result, client, faults, past>>

\* Cleanup of the middlewares; a span that has ended keeps its status.
Cleared(r) == [r EXCEPT !.task = None, !.held["default"] = None]
EndSpan(r, st) == [r EXCEPT !.span = IF @ = "open" THEN st ELSE @]

\* The body returns or raises; on_error runs when it raises.
EndBody_NoSpanEnd(j) ==
    /\ run[j].pc = "body"
    /\ \E out \in {"ok", "err"} :
         /\ run' = [run EXCEPT ![j] =
              LET r == [@ EXCEPT !.pc = "post", !.out = out]
              IN  IF out = "err" THEN Cleared(r) ELSE r]
         /\ past' = [past EXCEPT !.ended[j] = @ \cup {out}]
    /\ UNCHANGED <<msg, progress, result, client, faults>>
EndBody(j) ==
    /\ run[j].pc = "body"
    /\ \E out \in {"ok", "err"} :
         /\ run' = [run EXCEPT ![j] =
              LET r == [@ EXCEPT !.pc = "post", !.out = out]
              IN  IF out = "err" THEN EndSpan(Cleared(r), "error") ELSE r]
         /\ past' = [past EXCEPT !.ended[j] = @ \cup {out}]
    /\ UNCHANGED <<msg, progress, result, client, faults>>

PostExecute(j) ==
    /\ run[j].pc = "post"
    /\ run' = [run EXCEPT ![j] = EndSpan(Cleared([@ EXCEPT !.pc = "save"]), "ok")]
    /\ UNCHANGED <<msg, progress, result, client, faults, past>>

SaveResult(j) ==
    /\ run[j].pc = "save"
    /\ result' = [result EXCEPT ![j] = run[j].out]
    /\ run' = [run EXCEPT ![j].pc = "ack"]
    /\ UNCHANGED <<msg, progress, client, faults, past>>

\* A result that cannot be stored is logged, and the message acknowledged.
SaveFails(j) ==
    /\ run[j].pc = "save" /\ Fault
    /\ run' = [run EXCEPT ![j].pc = "ack"]
    /\ past' = [past EXCEPT !.lost = @ \cup {j}]
    /\ UNCHANGED <<msg, progress, result, client>>

Ack(j) ==
    /\ run[j].pc = "ack"
    /\ msg' = [msg EXCEPT ![j].st = "acked"]
    /\ run' = [run EXCEPT ![j] = Idle]
    /\ UNCHANGED <<progress, result, client, faults, past>>

\* The worker dies with the callback; the queue delivers the message again,
\* as it does when the callback ended without an acknowledgement.
Crash(j) ==
    /\ run[j].pc # "idle" /\ Fault
    /\ run' = [run EXCEPT ![j] = Idle]
    /\ UNCHANGED <<msg, progress, result, client, past>>

Redeliver(j) ==
    /\ msg[j].st = "taken" /\ run[j].pc = "idle"
    /\ msg' = [msg EXCEPT ![j].st = "queued"]
    /\ UNCHANGED <<run, progress, result, client, faults, past>>

-----------------------------------------------------------------------------
(* Clients. The registry asks its default service; the services share the    *)
(* result backend.                                                           *)

Posted(j) == msg[j].st \notin {"new", "refused"}

Ended(out) == IF out = "ok" THEN "SUCCESS" ELSE "FAILED"

Says(c, status) ==
    client' = [client EXCEPT ![c] =
                 [call |-> Quiet,
                  last |-> [status |-> status, had |-> @.call.had,
                            failed |-> @.call.failed]]]

Calls(c, op, timeout) ==
    /\ client[c].call.op = "none" /\ Posted(Watches[c])
    /\ client' = [client EXCEPT ![c].call =
                    [op |-> op, timeout |-> timeout, failed |-> FALSE,
                     had |-> result[Watches[c]] # None]]

\* aget_task_result.
Ask(c) ==
    /\ Calls(c, "result", None)
    /\ UNCHANGED <<msg, run, progress, result, faults, past>>

In(c, op) == client[c].call.op = op
JobOf(c) == Watches[c]

ReadResult_Consumes(c) ==
    /\ In(c, "result") /\ result[JobOf(c)] # None
    /\ Says(c, Ended(result[JobOf(c)]))
    /\ result' = [result EXCEPT ![JobOf(c)] = None]
    /\ UNCHANGED <<msg, run, progress, faults, past>>
ReadResult(c) ==
    /\ In(c, "result") /\ result[JobOf(c)] # None
    /\ Says(c, Ended(result[JobOf(c)]))
    /\ UNCHANGED <<msg, run, progress, result, faults, past>>

\* Any exception of get_result stands for "no result yet".
NoResult_ProgressFirst(c) ==
    /\ In(c, "result")
    /\ JobOf(c) \in progress \/ result[JobOf(c)] = None
    /\ client' = [client EXCEPT ![c].call.op = "progress"]
    /\ UNCHANGED <<msg, run, progress, result, faults, past>>
NoResult(c) ==
    /\ In(c, "result")
    /\ \/ /\ result[JobOf(c)] = None /\ UNCHANGED faults
          /\ client' = [client EXCEPT ![c].call.op = "progress"]
       \/ /\ Fault
          /\ client' = [client EXCEPT ![c].call.op = "progress",
                                      ![c].call.failed = TRUE]
    /\ UNCHANGED <<msg, run, progress, result, past>>

ReadProgress(c) ==
    /\ In(c, "progress")
    /\ Says(c, IF JobOf(c) \in progress THEN "RUNNING" ELSE "PENDING")
    /\ UNCHANGED <<msg, run, progress, result, faults, past>>

\* timeout.seconds if timeout else -1.0: days are not counted, a part of a
\* second is cut off, and a limit that is not positive is none.
Limit(t) == IF t = None THEN 0 - 1
            ELSE IF t.days = 0 /\ t.seconds = 0 /\ t.micros = 0 THEN 0 - 1
            ELSE t.seconds

Wait(c, t) ==
    /\ Calls(c, "wait", t)
    /\ UNCHANGED <<msg, run, progress, result, faults, past>>

\* wait_result polls until there is a result or the limit has passed.
Arrives(c) ==
    /\ In(c, "wait") /\ result[JobOf(c)] # None
    /\ Says(c, Ended(result[JobOf(c)]))
    /\ UNCHANGED <<msg, run, progress, result, faults, past>>

TimesOut(c) ==
    /\ In(c, "wait") /\ Limit(client[c].call.timeout) > 0
    /\ Says(c, "none")
    /\ UNCHANGED <<msg, run, progress, result, faults, past>>

-----------------------------------------------------------------------------
Executes(j) == \/ PreInfo(j) \/ PreReport(j) \/ PreSecurity(j) \/ PreOtel(j)
               \/ StartBody(j) \/ EndBody(j) \/ PostExecute(j)
               \/ SaveResult(j) \/ Ack(j)

Delivers(j) == Take(j) \/ Redeliver(j)

Answers(c) == ReadResult(c) \/ NoResult(c) \/ ReadProgress(c) \/ Arrives(c)
              \/ TimesOut(c)

Next == \/ \E j \in Job : \/ Post(j) \/ Delivers(j) \/ Executes(j)
                          \/ PreFails(j) \/ SaveFails(j) \/ Crash(j)
        \/ \E c \in Client : \/ Answers(c)
                             \/ Ask(c)
                             \/ \E t \in Timeout : Wait(c, t)

Spec == Init /\ [][Next]_vars

\* The queue delivers, a callback and a call of a client go on. Nobody has to
\* post or fail.
FairSpec == /\ Spec
            /\ \A j \in Job : WF_vars(Delivers(j)) /\ WF_vars(Executes(j))
            /\ \A c \in Client : WF_vars(Answers(c))

-----------------------------------------------------------------------------
(* Properties                                                                *)

\* A message carries the principal of whoever began the chain of posts it
\* comes from, and while its body runs a task sees that principal and itself as
\* the current task, not those of a task that runs at the same time
\* (SecurityContextMiddleware and TaskInfoDiMiddleware with their holders).
BodySeesPoster ==
    \A j \in Job :
        /\ Posted(j) => msg[j].by = PrincipalOf[j]
        /\ run[j].pc = "body" =>
             CurrentTask(j) = j /\ Visible(j) = PrincipalOf[j]

\* When a callback has cleaned up, its span has ended with the outcome of the
\* body and its context is empty: on_error and post_execute both run after a
\* body that raised, and the second must not undo the first.
CleanAfterBody ==
    \A j \in Job : run[j].pc \in {"save", "ack"} =>
        /\ run[j].span = (IF run[j].out = "ok" THEN "ok" ELSE "error")
        /\ CurrentTask(j) = None /\ Visible(j) = None

\* An answer of SUCCESS or FAILED is how an execution of the job ended, and
\* unless the backend failed PENDING or RUNNING mean that there was no result
\* when the call began (aget_task_result reads result and progress in turn).
AnswerTrue ==
    \A c \in Client : LET a == client[c].last IN
        /\ a.status = "SUCCESS" => "ok" \in past.ended[Watches[c]]
        /\ a.status = "FAILED" => "err" \in past.ended[Watches[c]]
        /\ a.status \in {"PENDING", "RUNNING"} => a.failed \/ ~a.had

\* The status that a client is told never goes back, also when
\* the job is executed again after a crash, unless a read of the backend failed.
Rank(status) == CASE status = "PENDING" -> 1 [] status = "RUNNING" -> 2
                  [] status \in {"SUCCESS", "FAILED"} -> 3 [] OTHER -> 0
StatusNeverFalls ==
    [][\A c \in Client : LET a == client[c].last
                             b == client'[c].last IN
         a # b /\ ~b.failed /\ b.status # "none" =>
            Rank(a.status) <= Rank(b.status)]_vars

\* A job whose task some service knows gets a result, whatever crashes and
\* failing middlewares come between, unless the result could not be stored
\* (the registry's choice of the service, acknowledged after the result).
JobGetsResult ==
    \A j \in Job :
        msg[j].st = "queued" /\ (\E i \in DOMAIN Services : NameOf[j] \in Knows[Services[i]])
            ~> result[j] # None \/ j \in past.lost

\* A client that gives a timeout is released, also when the job never has a
\* result: only without one does await_for_task ask for no limit. Not so with
\* whole days or less than a second, of which timeout.seconds leaves nothing.
TimeoutReleases ==
    \A c \in Client :
        In(c, "wait") /\ client[c].call.timeout # None ~> ~In(c, "wait")
=============================================================================
