------------------------- MODULE TaskLifecycleProofs -------------------------
(* Proofs about TaskLifecycle, for any services, jobs, clients and timeouts  *)
(* and any order of the middlewares: its type invariant, that the body of a  *)
(* task sees the principal of whoever posted it, that the middlewares clean  *)
(* up, and that clients are told the truth and never an earlier status.      *)
EXTENDS TaskLifecycle, TLAPS

\* The container and the middleware use the default holder, and the broker has
\* all four middlewares, in whatever order.
Deployed == /\ Holder = "default"
            /\ \A m \in Middlewares : \E k \in DOMAIN Order : Order[k] = m

\* What a middleware that was passed has left in the callback r of job j.
Did(m, r, j, by) == /\ m = "info" => r.task = j
                    /\ m = "security" => r.held["default"] = by
                    /\ m = "otel" => r.span = "open"

\* A callback r of job j, whose message is g, from its first middleware to the
\* acknowledgement; ended is how executions of the job ended.
Callback(r, j, g, ended) ==
    /\ r.pc = "pre" => \A k \in DOMAIN Order : k < r.next => Did(Order[k], r, j, g.by)
    /\ r.pc = "body" => \A m \in Middlewares : Did(m, r, j, g.by)
    /\ r.pc \in {"post", "save", "ack"} => r.out \in {"ok", "err"} \cap ended
    /\ r.pc = "post" => r.span = (IF r.out = "ok" THEN "open" ELSE "error")
    /\ r.pc \in {"save", "ack"} =>
         /\ r.span = (IF r.out = "ok" THEN "ok" ELSE "error")
         /\ r.task = None /\ r.held["default"] = None
    /\ r.pc # "idle" => g.st = "taken"

ExecInv == \A j \in Job : /\ Posted(j) => msg[j].by = PrincipalOf[j]
                          /\ Callback(run[j], j, msg[j], past.ended[j])

\* A call that reads the progress found no result, what a client was told
\* before is still in the backend, and results are how executions ended.
Reading(k, res, prog) ==
    /\ k.call.had => res # None
    /\ k.call.op = "progress" => k.call.failed \/ ~k.call.had
    /\ k.last.status \in {"SUCCESS", "FAILED"} =>
         res # None /\ (k.call.op # "none" => k.call.had)
    /\ k.last.status = "RUNNING" => prog

ClientInv == /\ \A j \in Job : result[j] # None => result[j] \in past.ended[j]
             /\ \A c \in Client :
                  Reading(client[c], result[Watches[c]], Watches[c] \in progress)
             /\ AnswerTrue

IInv == TypeOK /\ ExecInv /\ ClientInv

-----------------------------------------------------------------------------
(* Initial states.                                                           *)

\* A callback that has not begun is one of the type and bound by nothing.
LEMMA IdleType == /\ Idle \in Execution /\ Idle.pc = "idle" /\ Idle.next = 1
                  /\ [Idle EXCEPT !.pc = "pre"] \in Execution
  BY DEF Idle, Execution, Holders

\* The bound of the faults, and a list that is indexed from one.
LEMMA Bounds == MaxFaults \in Nat /\ DOMAIN Order \subseteq Nat \ {0}
                /\ Len(Order) \in Nat /\ DOMAIN Order = 1..Len(Order)
  BY BoundAssumption, OrderAssumption

LEMMA InitInv == Init => IInv
  <1> SUFFICES ASSUME Init PROVE IInv
    OBVIOUS
  <1>1. NoMsg \in Message /\ NoMsg.st = "new"
    BY DEF NoMsg, Message
  <1>2. Quiet \in Call /\ NoAnswer \in Reply
    BY DEF Quiet, NoAnswer, Call, Reply
  <1>3. TypeOK
    <2>1. faults \in 0..MaxFaults
      BY Bounds DEF Init
    <2>2. client \in [Client -> [call : Call, last : Reply]]
      BY <1>2 DEF Init
    <2>3. past \in [ended : [Job -> SUBSET {"ok", "err"}], lost : SUBSET Job]
      BY DEF Init
    <2> QED BY <1>1, <2>1, <2>2, <2>3, IdleType DEF Init, TypeOK
  <1>4. ExecInv
    BY <1>1, IdleType DEF Init, ExecInv, Posted, Callback
  <1>5. ClientInv
    <2>1. \A c \in Client : client[c] = [call |-> Quiet, last |-> NoAnswer]
      BY DEF Init
    <2>2. Quiet.op = "none" /\ ~Quiet.had /\ NoAnswer.status = "none"
      BY DEF Quiet, NoAnswer
    <2>3. AnswerTrue
      BY <2>1, <2>2 DEF AnswerTrue
    <2>4. \A c \in Client :
            Reading(client[c], result[Watches[c]], Watches[c] \in progress)
      BY <2>1, <2>2 DEF Reading
    <2>5. \A j \in Job : result[j] = None
      BY DEF Init
    <2> QED BY <2>3, <2>4, <2>5 DEF ClientInv
  <1> QED BY <1>3, <1>4, <1>5 DEF IInv

-----------------------------------------------------------------------------
(* Callbacks.                                                                *)

\* A step of one callback that leaves messages and the backend as they are.
LEMMA CallbackStep ==
    ASSUME IInv, NEW j \in Job, NEW r \in Execution,
           run' = [run EXCEPT ![j] = r],
           Callback(r, j, msg[j], past.ended[j]),
           faults' \in 0..MaxFaults,
           UNCHANGED <<msg, progress, result, client, past>>
    PROVE  IInv'
  <1>1. TypeOK /\ ExecInv /\ ClientInv
    BY DEF IInv
  <1>2. TypeOK'
    BY <1>1 DEF TypeOK
  <1>3. ExecInv'
    BY <1>1 DEF TypeOK, ExecInv, Posted
  <1>4. ClientInv'
    BY <1>1 DEF ClientInv, AnswerTrue
  <1> QED BY <1>2, <1>3, <1>4 DEF IInv

\* Faults are counted up to their bound.
LEMMA FaultType == ASSUME TypeOK, Fault PROVE faults' \in 0..MaxFaults
  BY Bounds DEF Fault, TypeOK

\* A middleware leaves what it does and what was done before it.
LEMMA PassedInv ==
    ASSUME IInv, NEW j \in Job, NEW m \in Middlewares, AtMiddleware(j, m),
           NEW r \in Execution,
           r.pc = "pre", r.next = run[j].next + 1,
           m = "info" \/ r.task = run[j].task,
           m = "security" \/ r.held = run[j].held,
           m = "otel" \/ r.span = run[j].span,
           Did(m, r, j, msg[j].by)
    PROVE  Callback(r, j, msg[j], past.ended[j])
  <1>1. /\ run[j] \in Execution /\ run[j].pc = "pre"
        /\ Callback(run[j], j, msg[j], past.ended[j])
    BY DEF IInv, TypeOK, ExecInv, AtMiddleware
  <1>2. run[j].next \in Nat
    BY <1>1 DEF Execution
  <1>3. DOMAIN Order \subseteq Nat
    BY Bounds
  <1>4. ASSUME NEW k \in DOMAIN Order, k < r.next
        PROVE  Did(Order[k], r, j, msg[j].by)
    <2>1. CASE k = run[j].next
      BY <2>1 DEF AtMiddleware
    <2>2. CASE k < run[j].next
      <3>1. Did(Order[k], run[j], j, msg[j].by)
        BY <1>1, <2>2 DEF Callback
      <3> QED BY <3>1 DEF Did
    <2> QED BY <1>2, <1>3, <1>4, <2>1, <2>2
  <1>5. msg[j].st = "taken"
    BY <1>1 DEF Callback
  <1> QED BY <1>4, <1>5 DEF Callback

LEMMA PreInv ==
    ASSUME IInv, NEW j \in Job,
           PreInfo(j) \/ PreSecurity(j) \/ PreOtel(j)
    PROVE  IInv'
  <1>1. run[j] \in Execution /\ msg[j] \in Message /\ faults' \in 0..MaxFaults
    BY DEF IInv, TypeOK, PreInfo, PreSecurity, PreOtel
  <1>2. Passed(j) \in Execution /\ Passed(j).next = run[j].next + 1
        /\ Passed(j).pc = run[j].pc /\ Passed(j).task = run[j].task
        /\ Passed(j).held = run[j].held /\ Passed(j).span = run[j].span
    BY <1>1 DEF Passed, Execution
  <1>3. CASE PreInfo(j)
    <2> DEFINE r == [Passed(j) EXCEPT !.task = j]
    <2>1. r \in Execution /\ r.next = Passed(j).next /\ r.pc = Passed(j).pc
          /\ r.task = j /\ r.held = Passed(j).held /\ r.span = Passed(j).span
      BY <1>2 DEF Execution
    <2>2. AtMiddleware(j, "info") /\ run' = [run EXCEPT ![j] = r]
          /\ UNCHANGED <<msg, progress, result, client, past>>
      BY <1>3 DEF PreInfo
    <2> HIDE DEF r
    <2>3. Did("info", r, j, msg[j].by) /\ r.pc = "pre" /\ "info" \in Middlewares
      BY <1>2, <2>1, <2>2 DEF Did, AtMiddleware, Middlewares
    <2>4. Callback(r, j, msg[j], past.ended[j])
      BY <1>2, <2>1, <2>2, <2>3, PassedInv
    <2> QED BY <1>1, <2>1, <2>2, <2>4, CallbackStep
  <1>4. CASE PreSecurity(j)
    <2> DEFINE r == [Passed(j) EXCEPT !.held["default"] = msg[j].by]
    <2>1. r \in Execution /\ r.next = Passed(j).next /\ r.pc = Passed(j).pc
          /\ r.task = Passed(j).task /\ r.span = Passed(j).span
          /\ r.held["default"] = msg[j].by
      BY <1>1, <1>2 DEF Execution, Message, Holders
    <2>2. AtMiddleware(j, "security") /\ run' = [run EXCEPT ![j] = r]
          /\ UNCHANGED <<msg, progress, result, client, past>>
      BY <1>4 DEF PreSecurity
    <2> HIDE DEF r
    <2>3. Did("security", r, j, msg[j].by) /\ r.pc = "pre" /\ "security" \in Middlewares
      BY <1>2, <2>1, <2>2 DEF Did, AtMiddleware, Middlewares
    <2>4. Callback(r, j, msg[j], past.ended[j])
      BY <1>2, <2>1, <2>2, <2>3, PassedInv
    <2> QED BY <1>1, <2>1, <2>2, <2>4, CallbackStep
  <1>5. CASE PreOtel(j)
    <2> DEFINE r == [Passed(j) EXCEPT !.span = "open"]
    <2>1. r \in Execution /\ r.next = Passed(j).next /\ r.pc = Passed(j).pc
          /\ r.task = Passed(j).task /\ r.held = Passed(j).held /\ r.span = "open"
      BY <1>2 DEF Execution
    <2>2. AtMiddleware(j, "otel") /\ run' = [run EXCEPT ![j] = r]
          /\ UNCHANGED <<msg, progress, result, client, past>>
      BY <1>5 DEF PreOtel
    <2> HIDE DEF r
    <2>3. Did("otel", r, j, msg[j].by) /\ r.pc = "pre" /\ "otel" \in Middlewares
      BY <1>2, <2>1, <2>2 DEF Did, AtMiddleware, Middlewares
    <2>4. Callback(r, j, msg[j], past.ended[j])
      BY <1>2, <2>1, <2>2, <2>3, PassedInv
    <2> QED BY <1>1, <2>1, <2>2, <2>4, CallbackStep
  <1> QED BY <1>3, <1>4, <1>5

LEMMA PreReportInv == ASSUME IInv, NEW j \in Job, PreReport(j) PROVE IInv'
  <1>1. TypeOK /\ ExecInv /\ ClientInv
    BY DEF IInv
  <1>2. run[j] \in Execution
    BY <1>1 DEF TypeOK
  <1>3. Passed(j) \in Execution /\ Passed(j).next = run[j].next + 1
        /\ Passed(j).pc = "pre" /\ Passed(j).task = run[j].task
        /\ Passed(j).held = run[j].held /\ Passed(j).span = run[j].span
    BY <1>2 DEF Passed, Execution, PreReport, AtMiddleware
  <1>4. AtMiddleware(j, "report") /\ "report" \in Middlewares
        /\ Did("report", Passed(j), j, msg[j].by)
    BY DEF PreReport, Middlewares, Did
  <1>5. Callback(Passed(j), j, msg[j], past.ended[j])
    BY <1>3, <1>4, PassedInv
  <1>6. TypeOK'
    BY <1>1, <1>3 DEF TypeOK, PreReport
  <1>7. ExecInv'
    BY <1>1, <1>5 DEF TypeOK, ExecInv, Posted, PreReport
  <1>8. \A c \in Client :
          Reading(client[c], result[Watches[c]], Watches[c] \in progress)'
    BY <1>1 DEF ClientInv, Reading, PreReport
  <1>9. ClientInv'
    BY <1>1, <1>8 DEF ClientInv, AnswerTrue, PreReport
  <1> QED BY <1>6, <1>7, <1>9 DEF IInv

\* A callback that ends without an acknowledgement.
LEMMA DropsInv == ASSUME IInv, NEW j \in Job, PreFails(j) \/ Crash(j) PROVE IInv'
  <1>1. run' = [run EXCEPT ![j] = Idle]
        /\ UNCHANGED <<msg, progress, result, client, past>>
    BY DEF PreFails, Crash
  <1>2. faults' \in 0..MaxFaults
    BY FaultType DEF IInv, PreFails, Crash
  <1>3. Callback(Idle, j, msg[j], past.ended[j])
    BY IdleType DEF Callback
  <1> QED BY <1>1, <1>2, <1>3, IdleType, CallbackStep

\* The body begins when every middleware was passed.
LEMMA StartBodyInv == ASSUME Deployed, IInv, NEW j \in Job, StartBody(j) PROVE IInv'
  <1> DEFINE r == [run[j] EXCEPT !.pc = "body"]
  <1>1. /\ run[j] \in Execution /\ faults' \in 0..MaxFaults
        /\ Callback(run[j], j, msg[j], past.ended[j])
    BY DEF IInv, TypeOK, ExecInv, StartBody
  <1>2. r \in Execution /\ r.pc = "body" /\ r.task = run[j].task
        /\ r.held = run[j].held /\ r.span = run[j].span
    BY <1>1 DEF Execution
  <1>3. run' = [run EXCEPT ![j] = r] /\ UNCHANGED <<msg, progress, result, client, past>>
    BY <1>1 DEF StartBody, IInv, TypeOK
  <1>4. ASSUME NEW m \in Middlewares PROVE Did(m, r, j, msg[j].by)
    <2>1. PICK k \in DOMAIN Order : Order[k] = m
      BY DEF Deployed
    <2>2. k < run[j].next /\ run[j].pc = "pre"
      BY <1>1, <2>1, Bounds DEF StartBody, Execution
    <2>3. Did(m, run[j], j, msg[j].by)
      BY <1>1, <2>1, <2>2 DEF Callback
    <2> QED BY <1>2, <2>3 DEF Did
  <1>5. msg[j].st = "taken"
    BY <1>1 DEF Callback, StartBody
  <1>6. Callback(r, j, msg[j], past.ended[j])
    BY <1>2, <1>4, <1>5 DEF Callback
  <1> HIDE DEF r
  <1> QED BY <1>1, <1>2, <1>3, <1>6, CallbackStep

\* The types and the span of a callback that is cleaned up.
LEMMA ClearedType ==
    ASSUME NEW r \in Execution, NEW st \in {"ok", "error"}
    PROVE  /\ Cleared(r) \in Execution /\ Cleared(r).pc = r.pc
           /\ Cleared(r).out = r.out /\ Cleared(r).span = r.span
           /\ Cleared(r).task = None /\ Cleared(r).held["default"] = None
           /\ EndSpan(r, st) \in Execution /\ EndSpan(r, st).pc = r.pc
           /\ EndSpan(r, st).out = r.out
           /\ EndSpan(r, st).span = (IF r.span = "open" THEN st ELSE r.span)
           /\ EndSpan(r, st).task = r.task /\ EndSpan(r, st).held = r.held
  <1>1. Cleared(r) \in Execution /\ Cleared(r).pc = r.pc
        /\ Cleared(r).out = r.out /\ Cleared(r).span = r.span
        /\ Cleared(r).task = None /\ Cleared(r).held["default"] = None
    BY DEF Cleared, Execution, Holders
  <1>2. /\ EndSpan(r, st) \in Execution /\ EndSpan(r, st).pc = r.pc
        /\ EndSpan(r, st).out = r.out
        /\ EndSpan(r, st).span = (IF r.span = "open" THEN st ELSE r.span)
        /\ EndSpan(r, st).task = r.task /\ EndSpan(r, st).held = r.held
    BY DEF EndSpan, Execution
  <1> QED BY <1>1, <1>2

LEMMA EndBodyInv == ASSUME IInv, NEW j \in Job, EndBody(j) PROVE IInv'
  <1>1. TypeOK /\ ExecInv /\ ClientInv
    BY DEF IInv
  <1>2. PICK out \in {"ok", "err"} :
          /\ run' = [run EXCEPT ![j] =
               LET r == [@ EXCEPT !.pc = "post", !.out = out]
               IN  IF out = "err" THEN EndSpan(Cleared(r), "error") ELSE r]
          /\ past' = [past EXCEPT !.ended[j] = @ \cup {out}]
    BY DEF EndBody
  <1> DEFINE a == [run[j] EXCEPT !.pc = "post", !.out = out]
             r == IF out = "err" THEN EndSpan(Cleared(a), "error") ELSE a
  <1>3. run[j] \in Execution /\ Callback(run[j], j, msg[j], past.ended[j])
        /\ run[j].pc = "body" /\ run' = [run EXCEPT ![j] = r]
    BY <1>1, <1>2 DEF TypeOK, ExecInv, EndBody
  <1>4. run[j].span = "open" /\ msg[j].st = "taken"
    <2>1. Did("otel", run[j], j, msg[j].by)
      BY <1>3 DEF Callback, Middlewares
    <2> QED BY <1>3, <2>1 DEF Did, Callback
  <1>5. a \in Execution /\ a.pc = "post" /\ a.out = out /\ a.span = run[j].span
    BY <1>3 DEF Execution
  <1>6. r \in Execution /\ r.pc = "post" /\ r.out = out
        /\ r.span = (IF out = "ok" THEN "open" ELSE "error")
    <2> HIDE DEF a
    <2>1. CASE out = "err"
      BY <1>4, <1>5, <2>1, ClearedType
    <2>2. CASE out = "ok"
      BY <1>4, <1>5, <2>2
    <2> QED BY <2>1, <2>2
  <1> HIDE DEF r
  <1>7. /\ past' \in [ended : [Job -> SUBSET {"ok", "err"}], lost : SUBSET Job]
        /\ \A k \in Job : past.ended[k] \subseteq past'.ended[k]
        /\ out \in past'.ended[j]
    BY <1>1, <1>2 DEF TypeOK
  <1>8. Callback(r, j, msg[j], past'.ended[j])
    BY <1>4, <1>6, <1>7 DEF Callback
  <1>9. TypeOK'
    BY <1>1, <1>3, <1>6, <1>7 DEF TypeOK, EndBody
  <1>10. ExecInv'
    <2>1. ASSUME NEW k \in Job PROVE Callback(run'[k], k, msg[k], past'.ended[k])
      <3>1. CASE k = j
        BY <1>1, <1>3, <1>8, <3>1 DEF TypeOK
      <3>2. CASE k # j
        BY <1>1, <1>3, <1>7, <3>2 DEF TypeOK, ExecInv, Callback
      <3> QED BY <3>1, <3>2
    <2> QED BY <1>1, <2>1 DEF ExecInv, Posted, EndBody
  <1>11. \A k \in Job : result'[k] # None => result'[k] \in past'.ended[k]
    BY <1>1, <1>7 DEF ClientInv, EndBody
  <1>12. AnswerTrue'
    <2>1. AnswerTrue
      BY <1>1 DEF ClientInv
    <2>2. \A c \in Client : past.ended[Watches[c]] \subseteq past'.ended[Watches[c]]
      BY <1>7, ClientAssumption
    <2> QED BY <2>1, <2>2 DEF AnswerTrue, EndBody
  <1>13. ClientInv'
    BY <1>1, <1>11, <1>12 DEF ClientInv, EndBody
  <1> QED BY <1>9, <1>10, <1>13 DEF IInv

LEMMA PostExecuteInv == ASSUME IInv, NEW j \in Job, PostExecute(j) PROVE IInv'
  <1> DEFINE a == [run[j] EXCEPT !.pc = "save"]
             r == EndSpan(Cleared(a), "ok")
  <1>1. /\ run[j] \in Execution /\ faults' \in 0..MaxFaults
        /\ Callback(run[j], j, msg[j], past.ended[j]) /\ run[j].pc = "post"
    BY DEF IInv, TypeOK, ExecInv, PostExecute
  <1>2. a \in Execution /\ a.pc = "save" /\ a.out = run[j].out /\ a.span = run[j].span
    BY <1>1 DEF Execution
  <1>3. run' = [run EXCEPT ![j] = r] /\ UNCHANGED <<msg, progress, result, client, past>>
    BY DEF PostExecute
  <1> HIDE DEF a
  <1>4. r \in Execution /\ r.pc = "save" /\ r.out = run[j].out
        /\ r.span = (IF run[j].span = "open" THEN "ok" ELSE run[j].span)
        /\ r.task = None /\ r.held["default"] = None
    BY <1>2, ClearedType
  <1> HIDE DEF r
  <1>5. Callback(r, j, msg[j], past.ended[j])
    BY <1>1, <1>4 DEF Callback
  <1> QED BY <1>1, <1>3, <1>4, <1>5, CallbackStep

\* The record of a callback that stored its result or gave up on it.
LEMMA AckNext ==
    ASSUME IInv, NEW j \in Job, run[j].pc = "save"
    PROVE  /\ [run[j] EXCEPT !.pc = "ack"] \in Execution
           /\ Callback([run[j] EXCEPT !.pc = "ack"], j, msg[j], past.ended[j])
  <1> DEFINE r == [run[j] EXCEPT !.pc = "ack"]
  <1>1. run[j] \in Execution /\ Callback(run[j], j, msg[j], past.ended[j])
    BY DEF IInv, TypeOK, ExecInv
  <1>2. r \in Execution /\ r.pc = "ack" /\ r.out = run[j].out /\ r.span = run[j].span
        /\ r.task = run[j].task /\ r.held = run[j].held
    BY <1>1 DEF Execution
  <1> HIDE DEF r
  <1>3. Callback(r, j, msg[j], past.ended[j])
    BY <1>1, <1>2 DEF Callback
  <1> QED BY <1>2, <1>3 DEF r

LEMMA SaveResultInv == ASSUME IInv, NEW j \in Job, SaveResult(j) PROVE IInv'
  <1> DEFINE r == [run[j] EXCEPT !.pc = "ack"]
  <1>1. TypeOK /\ ExecInv /\ ClientInv /\ run[j].pc = "save"
    BY DEF IInv, SaveResult
  <1>2. r \in Execution /\ Callback(r, j, msg[j], past.ended[j])
        /\ run' = [run EXCEPT ![j] = r]
    BY <1>1, AckNext DEF SaveResult
  <1>3. run[j].out \in {"ok", "err"} \cap past.ended[j]
    BY <1>1 DEF ExecInv, Callback
  <1> HIDE DEF r
  <1>4. TypeOK'
    BY <1>1, <1>2, <1>3 DEF TypeOK, SaveResult
  <1>5. ExecInv'
    BY <1>1, <1>2 DEF TypeOK, ExecInv, Posted, SaveResult
  <1>6. \A k \in Job : /\ result'[k] # None => result'[k] \in past.ended[k]
                       /\ result[k] # None => result'[k] # None
    BY <1>1, <1>3, NoneAssumption DEF TypeOK, ClientInv, SaveResult
  <1>7. \A c \in Client :
          Reading(client[c], result'[Watches[c]], Watches[c] \in progress)
    BY <1>1, <1>6, ClientAssumption DEF ClientInv, Reading
  <1>8. ClientInv'
    BY <1>1, <1>6, <1>7 DEF ClientInv, AnswerTrue, SaveResult
  <1> QED BY <1>4, <1>5, <1>8 DEF IInv

LEMMA SaveFailsInv == ASSUME IInv, NEW j \in Job, SaveFails(j) PROVE IInv'
  <1> DEFINE r == [run[j] EXCEPT !.pc = "ack"]
  <1>1. TypeOK /\ ExecInv /\ ClientInv /\ run[j].pc = "save"
    BY DEF IInv, SaveFails
  <1>2. r \in Execution /\ Callback(r, j, msg[j], past.ended[j])
        /\ run' = [run EXCEPT ![j] = r]
    BY <1>1, AckNext DEF SaveFails
  <1>3. past'.ended = past.ended
        /\ past' \in [ended : [Job -> SUBSET {"ok", "err"}], lost : SUBSET Job]
    BY <1>1 DEF TypeOK, SaveFails
  <1>4. faults' \in 0..MaxFaults
    BY <1>1, FaultType DEF SaveFails
  <1> HIDE DEF r
  <1>5. TypeOK'
    BY <1>1, <1>2, <1>3, <1>4 DEF TypeOK, SaveFails
  <1>6. ExecInv'
    BY <1>1, <1>2, <1>3 DEF TypeOK, ExecInv, Posted, SaveFails
  <1>7. ClientInv'
    BY <1>1, <1>3 DEF ClientInv, AnswerTrue, SaveFails
  <1> QED BY <1>5, <1>6, <1>7 DEF IInv

-----------------------------------------------------------------------------
(* Messages.                                                                 *)

\* A step of one message and its callback.
LEMMA MessageStep ==
    ASSUME IInv, NEW j \in Job, NEW g \in Message, NEW r \in Execution,
           msg' = [msg EXCEPT ![j] = g], run' = [run EXCEPT ![j] = r],
           g.st \notin {"new", "refused"} => g.by = PrincipalOf[j],
           Callback(r, j, g, past.ended[j]),
           UNCHANGED <<progress, result, client, faults, past>>
    PROVE  IInv'
  <1>1. TypeOK /\ ExecInv /\ ClientInv
    BY DEF IInv
  <1>2. TypeOK'
    BY <1>1 DEF TypeOK
  <1>3. ExecInv'
    BY <1>1 DEF TypeOK, ExecInv, Posted
  <1>4. ClientInv'
    BY <1>1 DEF ClientInv, AnswerTrue
  <1> QED BY <1>2, <1>3, <1>4 DEF IInv

\* A message that nobody sent has no callback.
LEMMA NewIsIdle ==
    ASSUME IInv, NEW j \in Job, msg[j].st # "taken"
    PROVE  run[j].pc = "idle" /\ run[j] \in Execution
  BY DEF IInv, TypeOK, ExecInv, Callback

\* A body that posts has its own principal in the container.
LEMMA PosterSees ==
    ASSUME Deployed, IInv, NEW j \in Job, run[j].pc = "body"
    PROVE  Visible(j) = PrincipalOf[j] /\ run[j].task = j
  <1>1. Callback(run[j], j, msg[j], past.ended[j])
    BY DEF IInv, ExecInv
  <1>2. Did("security", run[j], j, msg[j].by) /\ Did("info", run[j], j, msg[j].by)
        /\ msg[j].st = "taken"
    BY <1>1 DEF Callback, Middlewares
  <1>3. msg[j].by = PrincipalOf[j]
    BY <1>2 DEF IInv, ExecInv, Posted
  <1> QED BY <1>2, <1>3 DEF Did, Visible, Deployed

LEMMA PostInv == ASSUME Deployed, IInv, NEW j \in Job, Post(j) PROVE IInv'
  <1> DEFINE p == Attached(j)
             g == IF p = None THEN [msg[j] EXCEPT !.st = "refused"]
                  ELSE [st |-> "queued", at |-> RoutedTo(j),
                        name |-> NameOf[j], by |-> p]
  <1>1. TypeOK /\ run[j].pc = "idle" /\ run[j] \in Execution /\ msg[j] \in Message
    BY NewIsIdle DEF IInv, TypeOK, Post
  <1>2. p = PrincipalOf[j]
    BY PosterAssumption, PosterSees DEF Attached, Post
  <1>3. p # None /\ p \in Principal
    BY <1>2, NoneAssumption DEF Principal
  <1>4. g = [st |-> "queued", at |-> RoutedTo(j), name |-> NameOf[j], by |-> p]
    BY <1>3
  <1>5. NameOf[j] \in Name
    BY DEF Name
  <1>6. g \in Message /\ g.by = PrincipalOf[j] /\ msg' = [msg EXCEPT ![j] = g]
    <2>1. msg' = [msg EXCEPT ![j] = g]
      BY <1>1 DEF Post, TypeOK
    <2> HIDE DEF p
    <2> QED BY <1>2, <1>3, <1>4, <1>5, <2>1 DEF Message, RoutedTo
  <1> HIDE DEF g
  <1>7. Callback(run[j], j, g, past.ended[j])
    BY <1>1 DEF Callback
  <1>8. run' = [run EXCEPT ![j] = run[j]]
    BY <1>1 DEF Post, TypeOK
  <1>9. UNCHANGED <<progress, result, client, faults, past>>
    BY DEF Post
  <1> QED BY <1>1, <1>6, <1>7, <1>8, <1>9, MessageStep

\* A message that is moved keeps the principal it carries.
LEMMA MoveInv ==
    ASSUME IInv, NEW j \in Job, NEW st \in {"queued", "taken", "dropped", "acked"},
           NEW r \in Execution, Posted(j),
           msg' = [msg EXCEPT ![j].st = st], run' = [run EXCEPT ![j] = r],
           r.pc # "idle" => r.pc = "pre" /\ r.next = 1 /\ st = "taken",
           UNCHANGED <<progress, result, client, faults, past>>
    PROVE  IInv'
  <1> DEFINE g == [msg[j] EXCEPT !.st = st]
  <1>1. msg[j] \in Message /\ msg[j].by = PrincipalOf[j]
    BY DEF IInv, TypeOK, ExecInv
  <1>2. g \in Message /\ g.st = st /\ g.by = PrincipalOf[j]
    BY <1>1 DEF Message
  <1>3. msg' = [msg EXCEPT ![j] = g]
    OBVIOUS
  <1> HIDE DEF g
  <1>4. Callback(r, j, g, past.ended[j])
    BY <1>2, Bounds DEF Callback
  <1> QED BY <1>2, <1>3, <1>4, MessageStep

LEMMA DeliversInv ==
    ASSUME IInv, NEW j \in Job, Take(j) \/ Redeliver(j) \/ Ack(j)
    PROVE  IInv'
  <1>1. run[j] \in Execution /\ run \in [Job -> Execution]
    BY DEF IInv, TypeOK
  <1>2. CASE Take(j)
    <2> DEFINE pre == [Idle EXCEPT !.pc = "pre"]
    <2>1. msg[j].st = "queued"
      BY <1>2 DEF Take
    <2>2. Posted(j) /\ run[j].pc = "idle"
      BY <2>1, NewIsIdle DEF Posted
    <2>3. UNCHANGED <<progress, result, client, faults, past>>
      BY <1>2 DEF Take
    <2>4. pre \in Execution /\ pre.pc = "pre" /\ pre.next = 1
      BY IdleType DEF Idle
    <2>5. CASE Known(j)
      <3>1. msg' = [msg EXCEPT ![j].st = "taken"] /\ run' = [run EXCEPT ![j] = pre]
        BY <1>2, <2>5 DEF Take
      <3> HIDE DEF pre
      <3> QED BY <2>2, <2>3, <2>4, <3>1, MoveInv
    <2>6. CASE ~Known(j)
      <3>1. msg' = [msg EXCEPT ![j].st = "dropped"] /\ run' = [run EXCEPT ![j] = run[j]]
        BY <1>2, <2>6 DEF Take
      <3> QED BY <1>1, <2>2, <2>3, <3>1, MoveInv
    <2> QED BY <2>5, <2>6
  <1>3. CASE Redeliver(j)
    <2>1. run' = [run EXCEPT ![j] = run[j]]
      BY <1>1, <1>3 DEF Redeliver
    <2> QED BY <1>1, <1>3, <2>1, MoveInv DEF Redeliver, Posted
  <1>4. CASE Ack(j)
    <2>1. Posted(j)
      BY <1>4 DEF IInv, ExecInv, Callback, Ack, Posted
    <2> QED BY <1>4, <2>1, IdleType, MoveInv DEF Ack
  <1> QED BY <1>2, <1>3, <1>4

-----------------------------------------------------------------------------
(* Clients.                                                                  *)

\* What AnswerTrue says of one answer.
AnswerOK(a, ended) == /\ a.status = "SUCCESS" => "ok" \in ended
                      /\ a.status = "FAILED" => "err" \in ended
                      /\ a.status \in {"PENDING", "RUNNING"} => a.failed \/ ~a.had

\* A step of one client.
LEMMA ClientStep ==
    ASSUME IInv, NEW c \in Client, NEW k \in [call : Call, last : Reply],
           client' = [client EXCEPT ![c] = k],
           Reading(k, result[Watches[c]], Watches[c] \in progress),
           AnswerOK(k.last, past.ended[Watches[c]]),
           faults' \in 0..MaxFaults,
           UNCHANGED <<msg, run, progress, result, past>>
    PROVE  IInv'
  <1>1. TypeOK /\ ExecInv /\ ClientInv
    BY DEF IInv
  <1>2. TypeOK'
    BY <1>1 DEF TypeOK
  <1>3. ExecInv'
    BY <1>1 DEF ExecInv, Posted
  <1>4. client' \in [Client -> [call : Call, last : Reply]]
    BY <1>2 DEF TypeOK
  <1>5. AnswerTrue'
    BY <1>1, <1>4 DEF TypeOK, ClientInv, AnswerTrue, AnswerOK
  <1>6. ClientInv'
    BY <1>1, <1>4, <1>5 DEF TypeOK, ClientInv
  <1> QED BY <1>2, <1>3, <1>6 DEF IInv

\* What the invariant says of one client.
LEMMA ClientState ==
    ASSUME IInv, NEW c \in Client
    PROVE  /\ client[c] \in [call : Call, last : Reply]
           /\ client \in [Client -> [call : Call, last : Reply]]
           /\ Watches[c] \in Job
           /\ result[Watches[c]] \in {None} \cup ({"ok", "err"} \cap past.ended[Watches[c]])
           /\ Reading(client[c], result[Watches[c]], Watches[c] \in progress)
           /\ AnswerOK(client[c].last, past.ended[Watches[c]])
  <1>1. TypeOK /\ ClientInv
    BY DEF IInv
  <1>2. Watches[c] \in Job
    BY ClientAssumption
  <1>3. result[Watches[c]] \in {None} \cup ({"ok", "err"} \cap past.ended[Watches[c]])
    BY <1>1, <1>2 DEF TypeOK, ClientInv
  <1>4. AnswerOK(client[c].last, past.ended[Watches[c]])
    BY <1>1 DEF ClientInv, AnswerTrue, AnswerOK
  <1> QED BY <1>1, <1>2, <1>3, <1>4 DEF TypeOK, ClientInv

LEMMA CallsInv ==
    ASSUME IInv, NEW c \in Client, NEW op \in {"result", "wait"},
           NEW t \in Timeout \cup {None}, Calls(c, op, t),
           UNCHANGED <<msg, run, progress, result, faults, past>>
    PROVE  IInv'
  <1> DEFINE had == result[Watches[c]] # None
             call == [op |-> op, timeout |-> t, had |-> had, failed |-> FALSE]
             k == [client[c] EXCEPT !.call = call]
  <1>1. call \in Call
    BY DEF Call
  <1>2. k \in [call : Call, last : Reply] /\ k.call = call /\ k.last = client[c].last
    BY <1>1, ClientState
  <1>3. client' = [client EXCEPT ![c] = k]
    BY DEF Calls
  <1>4. Reading(k, result[Watches[c]], Watches[c] \in progress)
    <2>1. Reading(client[c], result[Watches[c]], Watches[c] \in progress)
      BY ClientState
    <2>2. k.call.op # "progress" /\ k.call.had = had
      BY <1>2
    <2> HIDE DEF k
    <2> QED BY <1>2, <2>1, <2>2 DEF Reading
  <1>5. AnswerOK(k.last, past.ended[Watches[c]])
    BY <1>2, ClientState
  <1>6. faults' \in 0..MaxFaults
    BY DEF IInv, TypeOK
  <1> HIDE DEF k
  <1> QED BY <1>2, <1>3, <1>4, <1>5, <1>6, ClientStep

\* An answer that is allowed.
LEMMA SaysInv ==
    ASSUME IInv, NEW c \in Client,
           NEW status \in {"none", "PENDING", "RUNNING", "SUCCESS", "FAILED"},
           Says(c, status),
           status \in {"SUCCESS", "FAILED"} => result[Watches[c]] # None,
           status = "RUNNING" => Watches[c] \in progress,
           status = "SUCCESS" => "ok" \in past.ended[Watches[c]],
           status = "FAILED" => "err" \in past.ended[Watches[c]],
           status \in {"PENDING", "RUNNING"} => client[c].call.op = "progress",
           UNCHANGED <<msg, run, progress, result, faults, past>>
    PROVE  IInv'
  <1> DEFINE a == [status |-> status, had |-> client[c].call.had,
                   failed |-> client[c].call.failed]
             k == [call |-> Quiet, last |-> a]
  <1>1. client[c] \in [call : Call, last : Reply]
    BY ClientState
  <1>2. a \in Reply /\ Quiet \in Call /\ Quiet.op = "none" /\ ~Quiet.had
    BY <1>1 DEF Reply, Call, Quiet
  <1>3. k \in [call : Call, last : Reply]
    BY <1>2
  <1>4. client' = [client EXCEPT ![c] = k]
    BY DEF Says
  <1>5. Reading(k, result[Watches[c]], Watches[c] \in progress)
    BY <1>2 DEF Reading
  <1>6. Reading(client[c], result[Watches[c]], Watches[c] \in progress)
    BY ClientState
  <1>7. AnswerOK(a, past.ended[Watches[c]])
    BY <1>6 DEF AnswerOK, Reading
  <1>8. faults' \in 0..MaxFaults
    BY DEF IInv, TypeOK
  <1>9. AnswerOK(k.last, past.ended[Watches[c]])
    BY <1>7
  <1> HIDE DEF k
  <1> QED BY <1>3, <1>4, <1>5, <1>8, <1>9, ClientStep

LEMMA NoResultInv == ASSUME IInv, NEW c \in Client, NoResult(c) PROVE IInv'
  <1>1. client[c] \in [call : Call, last : Reply]
    BY ClientState
  <1>2. PICK f \in BOOLEAN :
          /\ client' = [client EXCEPT ![c] =
               [@ EXCEPT !.call.op = "progress", !.call.failed = f]]
          /\ f \/ result[Watches[c]] = None
          /\ Fault \/ UNCHANGED faults
    <2>1. client[c].call.failed \in BOOLEAN
      BY <1>1 DEF Call
    <2>2. CASE result[JobOf(c)] = None /\ UNCHANGED faults
                 /\ client' = [client EXCEPT ![c].call.op = "progress"]
      <3>1. client' = [client EXCEPT ![c] =
              [@ EXCEPT !.call.op = "progress", !.call.failed = client[c].call.failed]]
        BY <1>1, <2>2 DEF Call
      <3> QED BY <2>1, <2>2, <3>1 DEF JobOf
    <2>3. CASE Fault /\ client' = [client EXCEPT ![c].call.op = "progress",
                                                 ![c].call.failed = TRUE]
      <3>1. client' = [client EXCEPT ![c] =
              [@ EXCEPT !.call.op = "progress", !.call.failed = TRUE]]
        BY <1>1, <2>3, ClientState
      <3> QED BY <2>3, <3>1
    <2> QED BY <2>2, <2>3 DEF NoResult
  <1> DEFINE k == [client[c] EXCEPT !.call.op = "progress", !.call.failed = f]
  <1>3. k \in [call : Call, last : Reply] /\ k.last = client[c].last
        /\ k.call.op = "progress" /\ k.call.failed = f /\ k.call.had = client[c].call.had
    BY <1>1 DEF Call
  <1>4. client[c].call.op = "result"
    BY DEF NoResult, In
  <1>5. Reading(client[c], result[Watches[c]], Watches[c] \in progress)
        /\ AnswerOK(client[c].last, past.ended[Watches[c]])
    BY ClientState
  <1> HIDE DEF k
  <1>6. Reading(k, result[Watches[c]], Watches[c] \in progress)
    BY <1>2, <1>3, <1>4, <1>5 DEF Reading
  <1>7. AnswerOK(k.last, past.ended[Watches[c]])
    BY <1>3, <1>5
  <1>8. faults' \in 0..MaxFaults
    BY <1>2, FaultType DEF IInv, TypeOK
  <1>9. client' = [client EXCEPT ![c] = k]
    BY <1>2 DEF k
  <1>10. UNCHANGED <<msg, run, progress, result, past>>
    BY DEF NoResult
  <1> QED BY <1>3, <1>6, <1>7, <1>8, <1>9, <1>10, ClientStep

LEMMA AnswersInv ==
    ASSUME IInv, NEW c \in Client,
           ReadResult(c) \/ ReadProgress(c) \/ Arrives(c) \/ TimesOut(c)
    PROVE  IInv'
  <1>1. UNCHANGED <<msg, run, progress, result, faults, past>>
    BY DEF ReadResult, ReadProgress, Arrives, TimesOut
  <1>2. result[Watches[c]] \in {None} \cup ({"ok", "err"} \cap past.ended[Watches[c]])
    BY ClientState
  <1>3. CASE ReadResult(c) \/ Arrives(c)
    <2>1. result[Watches[c]] \in {"ok", "err"} \cap past.ended[Watches[c]]
      BY <1>2, <1>3 DEF ReadResult, Arrives, JobOf
    <2>2. CASE result[Watches[c]] = "ok"
      <3>1. Says(c, "SUCCESS")
        BY <1>3, <2>2 DEF ReadResult, Arrives, JobOf, Ended
      <3> QED BY <1>1, <2>1, <2>2, <3>1, NoneAssumption, SaysInv
    <2>3. CASE result[Watches[c]] = "err"
      <3>1. Says(c, "FAILED")
        BY <1>3, <2>3 DEF ReadResult, Arrives, JobOf, Ended
      <3> QED BY <1>1, <2>1, <2>3, <3>1, NoneAssumption, SaysInv
    <2> QED BY <2>1, <2>2, <2>3
  <1>4. CASE ReadProgress(c)
    <2>1. CASE Watches[c] \in progress
      <3>1. Says(c, "RUNNING")
        BY <1>4, <2>1 DEF ReadProgress, JobOf
      <3> QED BY <1>1, <1>4, <2>1, <3>1, SaysInv DEF ReadProgress, In
    <2>2. CASE Watches[c] \notin progress
      <3>1. Says(c, "PENDING")
        BY <1>4, <2>2 DEF ReadProgress, JobOf
      <3> QED BY <1>1, <1>4, <3>1, SaysInv DEF ReadProgress, In
    <2> QED BY <2>1, <2>2
  <1>5. CASE TimesOut(c)
    BY <1>1, <1>5, SaysInv DEF TimesOut
  <1> QED BY <1>3, <1>4, <1>5

-----------------------------------------------------------------------------
(* The invariant and what follows from it.                                   *)

LEMMA NextInv == ASSUME Deployed, IInv, [Next]_vars PROVE IInv'
  <1>1. ASSUME NEW j \in Job, Post(j) \/ Delivers(j) PROVE IInv'
    BY <1>1, PostInv, DeliversInv DEF Delivers
  <1>2. ASSUME NEW j \in Job, Executes(j) PROVE IInv'
    BY <1>2, PreInv, PreReportInv, StartBodyInv, EndBodyInv, PostExecuteInv,
       SaveResultInv, DeliversInv DEF Executes
  <1>3. ASSUME NEW j \in Job, PreFails(j) \/ SaveFails(j) \/ Crash(j) PROVE IInv'
    BY <1>3, DropsInv, SaveFailsInv
  <1>4. ASSUME NEW c \in Client, Answers(c) PROVE IInv'
    BY <1>4, AnswersInv, NoResultInv DEF Answers
  <1>5. ASSUME NEW c \in Client, Ask(c) PROVE IInv'
    BY <1>5, CallsInv DEF Ask
  <1>6. ASSUME NEW c \in Client, NEW t \in Timeout, Wait(c, t) PROVE IInv'
    BY <1>6, CallsInv DEF Wait
  <1>7. CASE UNCHANGED vars
    <2>1. UNCHANGED <<msg, run, progress, result, client, faults, past>>
      BY <1>7 DEF vars
    <2> QED BY <2>1 DEF IInv, TypeOK, ExecInv, ClientInv, Posted, AnswerTrue
  <1> QED BY <1>1, <1>2, <1>3, <1>4, <1>5, <1>6, <1>7 DEF Next

\* The strengthened invariant holds in every state.
THEOREM Invariance == ASSUME Deployed PROVE Spec => []IInv
  <1>1. IInv /\ [Next]_vars => IInv'
    BY NextInv
  <1> QED BY <1>1, InitInv, PTL DEF Spec

\* Messages, callbacks, results and calls keep their types.
THEOREM TypeCorrect == ASSUME Deployed PROVE Spec => []TypeOK
  <1>1. IInv => TypeOK
    BY DEF IInv
  <1> QED BY <1>1, Invariance, PTL

\* However long the chain of posts, whatever runs at the same time and in
\* whatever order the middlewares stand, a body sees its own task and the
\* principal of whoever began the chain.
THEOREM SeesPoster == ASSUME Deployed PROVE Spec => []BodySeesPoster
  <1>1. IInv => BodySeesPoster
    BY PosterSees DEF IInv, ExecInv, BodySeesPoster, CurrentTask
  <1> QED BY <1>1, Invariance, PTL

\* The callback has cleaned up and its span has the outcome of the body, for
\* any order of the middlewares.
THEOREM CleansUp == ASSUME Deployed PROVE Spec => []CleanAfterBody
  <1>1. IInv => CleanAfterBody
    BY DEF IInv, ExecInv, Callback, CleanAfterBody, CurrentTask, Visible, Deployed
  <1> QED BY <1>1, Invariance, PTL

\* A client is told how the job ended, or PENDING and RUNNING while there was
\* no result.
THEOREM AnswersTruly == ASSUME Deployed PROVE Spec => []AnswerTrue
  <1>1. IInv => AnswerTrue
    BY DEF IInv, ClientInv
  <1> QED BY <1>1, Invariance, PTL

-----------------------------------------------------------------------------
(* The status a client is told.                                              *)

LEMMA RankOrder ==
    /\ Rank("PENDING") = 1 /\ Rank("RUNNING") = 2 /\ Rank("none") = 0
    /\ Rank("SUCCESS") = 3 /\ Rank("FAILED") = 3
  BY DEF Rank

\* Only an answer changes what a client was told last.
LEMMA OthersKeepLast ==
    ASSUME IInv, [Next]_vars, NEW c \in Client,
           client'[c].last # client[c].last
    PROVE  ReadResult(c) \/ ReadProgress(c) \/ Arrives(c) \/ TimesOut(c)
  <1>1. client \in [Client -> [call : Call, last : Reply]]
    BY DEF IInv, TypeOK
  <1>2. ASSUME NEW d \in Client, NEW st, Says(d, st) PROVE d = c
    BY <1>1, <1>2 DEF Says
  <1>3. ASSUME NEW d \in Client, NEW op, NEW t, Calls(d, op, t) PROVE FALSE
    BY <1>1, <1>3 DEF Calls
  <1>4. ASSUME NEW d \in Client, NoResult(d) PROVE FALSE
    BY <1>1, <1>4 DEF NoResult
  <1>5. client' # client
    OBVIOUS
  <1>6. ASSUME NEW j \in Job,
               Post(j) \/ Delivers(j) \/ Executes(j) \/ PreFails(j) \/ SaveFails(j) \/ Crash(j)
        PROVE  FALSE
    BY <1>5, <1>6 DEF Post, Delivers, Take, Redeliver, Executes, PreInfo, PreReport,
       PreSecurity, PreOtel, StartBody, EndBody, PostExecute, SaveResult, Ack,
       PreFails, SaveFails, Crash
  <1>7. ASSUME NEW d \in Client,
               ReadResult(d) \/ ReadProgress(d) \/ Arrives(d) \/ TimesOut(d)
        PROVE  d = c
    BY <1>2, <1>7 DEF ReadResult, ReadProgress, Arrives, TimesOut
  <1>8. ASSUME NEW d \in Client, NEW t \in Timeout, Ask(d) \/ Wait(d, t) PROVE FALSE
    BY <1>3, <1>8 DEF Ask, Wait
  <1>9. ASSUME NEW d \in Client, Ask(d) PROVE FALSE
    BY <1>3, <1>9 DEF Ask
  <1>10. CASE UNCHANGED vars
    BY <1>5, <1>10 DEF vars
  <1> QED BY <1>4, <1>6, <1>7, <1>8, <1>9, <1>10 DEF Next, Answers

\* SUCCESS and FAILED stay, and after RUNNING there is a progress to read.
LEMMA StepNeverFalls ==
    ASSUME IInv, [Next]_vars, NEW c \in Client,
           client'[c].last # client[c].last,
           ~client'[c].last.failed, client'[c].last.status # "none"
    PROVE  Rank(client[c].last.status) <= Rank(client'[c].last.status)
  <1> DEFINE a == client[c].last.status
             b == client'[c].last.status
  <1>1. /\ client[c] \in [call : Call, last : Reply]
        /\ client \in [Client -> [call : Call, last : Reply]]
        /\ result[Watches[c]] \in {None} \cup ({"ok", "err"} \cap past.ended[Watches[c]])
        /\ Reading(client[c], result[Watches[c]], Watches[c] \in progress)
    BY ClientState
  <1>2. a \in {"none", "PENDING", "RUNNING", "SUCCESS", "FAILED"}
    BY <1>1 DEF Reply
  <1>3. ASSUME NEW st, Says(c, st)
        PROVE  b = st /\ client'[c].last.failed = client[c].call.failed
    BY <1>1, <1>3 DEF Says
  <1>4. ReadResult(c) \/ ReadProgress(c) \/ Arrives(c) \/ TimesOut(c)
    BY OthersKeepLast
  <1>5. CASE ReadResult(c) \/ Arrives(c)
    <2>1. b = Ended(result[Watches[c]])
      BY <1>3, <1>5 DEF ReadResult, Arrives, JobOf
    <2>2. b \in {"SUCCESS", "FAILED"}
      BY <2>1 DEF Ended
    <2> HIDE DEF a, b
    <2> QED BY <1>2, <2>2, RankOrder DEF a, b
  <1>6. CASE ReadProgress(c)
    <2>1. b = IF Watches[c] \in progress THEN "RUNNING" ELSE "PENDING"
      BY <1>3, <1>6 DEF ReadProgress, JobOf
    <2>2. ~client[c].call.failed
      BY <1>3, <1>6 DEF ReadProgress
    <2>3. client[c].call.op = "progress"
      BY <1>6 DEF ReadProgress, In
    <2>4. a \notin {"SUCCESS", "FAILED"}
      BY <1>1, <2>2, <2>3 DEF Reading
    <2>5. a = "RUNNING" => b = "RUNNING"
      BY <1>1, <2>1 DEF Reading
    <2> QED BY <1>2, <2>1, <2>4, <2>5, RankOrder
  <1>7. CASE TimesOut(c)
    BY <1>3, <1>7 DEF TimesOut
  <1> QED BY <1>4, <1>5, <1>6, <1>7

\* The status a client is told never goes back, unless a read of the backend
\* failed.
THEOREM NeverFalls == ASSUME Deployed PROVE Spec => StatusNeverFalls
  <1>1. ASSUME IInv, [Next]_vars
        PROVE  [\A c \in Client : LET a == client[c].last
                                      b == client'[c].last IN
                 a # b /\ ~b.failed /\ b.status # "none" =>
                    Rank(a.status) <= Rank(b.status)]_vars
    BY <1>1, StepNeverFalls
  <1> QED BY <1>1, Invariance, PTL DEF Spec, StatusNeverFalls
==============================================================================
