---------------------------- MODULE CpuTasksProofs ----------------------------
(* Proofs about CpuTasks: its type invariant, that processes of at most one  *)
(* pool live at a time, that a sync body never waits on the worker's loop,   *)
(* and what a task is refused for, for any brokers, tasks and sizes.         *)
EXTENDS CpuTasks, TLAPS

\* Processes belong to the pool that _pool names, and only it takes tasks.
PoolInv == /\ \A w \in Worker : proc[w].live => w[1] = current
           /\ \A p \in Pool : phase[p] = "open" => p = current

\* A body belongs to a task; a live background loop was made; a sync body has
\* its process's own loop registered and waits on no other.
BodyOK(r) == /\ r.bg = "live" => r.made \in 1..MaxLoops
             /\ r.pc # "idle" => r.task \in Task
             /\ r.pc # "idle" /\ Sync(r.task) => r.wl = "own"
             /\ r.pc = "wait" => r.at # None /\ r.calls < MaxCalls
             /\ r.pc = "wait" /\ Sync(r.task) => r.at # Parent

BodyInv == \A w \in Worker : BodyOK(proc[w])

IInv == TypeOK /\ PoolInv /\ BodyInv

USE DEF Worker

-----------------------------------------------------------------------------
(* Types of what the operators build.                                        *)

\* A process that has just been launched is one of the type.
LEMMA NewProcType ==
    ASSUME NEW live \in BOOLEAN, NEW wl \in {None, Parent, "own"}
    PROVE  /\ NewProc(live, wl) \in Process
           /\ NewProc(live, wl).live = live
           /\ NewProc(live, wl).pc = "idle"
           /\ NewProc(live, wl).bg = "none"
  BY CpuAssumption DEF NewProc, Process

\* When the processes of a pool exit, no process of it lives and the others
\* are what they were.
LEMMA ExitedType ==
    ASSUME TypeOK, NEW p
    PROVE  /\ Exited(p) \in [Worker -> Process]
           /\ \A w \in Worker : Exited(p)[w] = IF w[1] = p THEN NoProc ELSE proc[w]
           /\ NoProc \in Process
           /\ ~NoProc.live /\ NoProc.pc = "idle" /\ NoProc.bg = "none"
  <1>1. /\ NoProc \in Process
        /\ ~NoProc.live /\ NoProc.pc = "idle" /\ NoProc.bg = "none"
    BY NewProcType DEF NoProc
  <1>2. proc \in [Worker -> Process]
    BY DEF TypeOK
  <1> QED BY <1>1, <1>2 DEF Exited

\* The executor of a pool starts processes of that pool only, without a task.
LEMMA LaunchedType ==
    ASSUME TypeOK, NEW p
    PROVE  /\ Launched(p) \in [Worker -> Process]
           /\ \A w \in Worker : \/ Launched(p)[w] = proc[w]
                                \/ /\ w[1] = p
                                   /\ Launched(p)[w].pc = "idle"
                                   /\ Launched(p)[w].bg = "none"
  <1> DEFINE wl == IF method = "fork" /\ known THEN Parent ELSE None
  <1>1. wl \in {None, Parent, "own"}
    OBVIOUS
  <1>2. /\ NewProc(TRUE, wl) \in Process
        /\ NewProc(TRUE, wl).pc = "idle"
        /\ NewProc(TRUE, wl).bg = "none"
    BY <1>1, NewProcType
  <1>3. proc \in [Worker -> Process]
    BY DEF TypeOK
  <1> QED BY <1>2, <1>3 DEF Launched

-----------------------------------------------------------------------------
(* The invariant holds initially.                                            *)

LEMMA InitInv == Init => IInv
  <1> SUFFICES ASSUME Init PROVE IInv
    OBVIOUS
  <1>1. /\ NoProc \in Process
        /\ ~NoProc.live /\ NoProc.pc = "idle" /\ NoProc.bg = "none"
    BY NewProcType DEF NoProc
  <1>2. TypeOK
    BY <1>1, CpuAssumption DEF Init, TypeOK
  <1>3. PoolInv
    BY <1>1 DEF Init, PoolInv
  <1>4. BodyInv
    BY <1>1 DEF Init, BodyInv, BodyOK
  <1> QED BY <1>2, <1>3, <1>4 DEF IInv

-----------------------------------------------------------------------------
(* Handlers of the brokers.                                                  *)

\* A new pool is numbered by _pool and is the only one that is open, if the
\* others were closed or there was none.
LEMMA MakePoolInv ==
    ASSUME IInv, NEW b \in Broker, NEW phases \in [Pool -> {"none", "open", "closing", "broken", "closed"}],
           MakePool(b, phases),
           \A p \in Pool : phases[p] # "open",
           \A w \in Worker : ~proc'[w].live
    PROVE  /\ current' \in Pool \cup {0}
           /\ phase' \in [Pool -> {"none", "open", "closing", "broken", "closed"}]
           /\ broker' \in [Broker -> {"down", "starting", "up", "stopping", "stopped"}]
           /\ blocked' \in Broker \cup {None}
           /\ PoolInv'
  <1>1. TypeOK
    BY DEF IInv
  <1>2. NextPool \in Pool /\ current' = NextPool
        /\ phase' = [phases EXCEPT ![NextPool] = "open"]
    BY DEF MakePool
  <1>3. \A p \in Pool : phase'[p] = "open" => p = current'
    BY <1>2
  <1>4. PoolInv'
    BY <1>3 DEF PoolInv
  <1> QED BY <1>1, <1>2, <1>4 DEF MakePool, TypeOK

LEMMA StartupInv == ASSUME IInv, NEW b \in Broker, Startup(b) PROVE IInv'
  <1>1. TypeOK /\ PoolInv /\ BodyInv
    BY DEF IInv
  <1>2. CASE current = 0
    <2>1. MakePool(b, phase) /\ proc' = proc
      BY <1>2 DEF Startup
    <2>2. /\ \A p \in Pool : phase[p] # "open"
          /\ \A w \in Worker : ~proc'[w].live
      BY <1>1, <1>2, <2>1 DEF PoolInv, Pool
    <2>3. phase \in [Pool -> {"none", "open", "closing", "broken", "closed"}]
      BY <1>1 DEF TypeOK
    <2> HIDE DEF Worker
    <2>4. /\ current' \in Pool \cup {0}
          /\ phase' \in [Pool -> {"none", "open", "closing", "broken", "closed"}]
          /\ broker' \in [Broker -> {"down", "starting", "up", "stopping", "stopped"}]
          /\ blocked' \in Broker \cup {None}
          /\ PoolInv'
      BY <2>1, <2>2, <2>3, MakePoolInv
    <2> QED BY <1>1, <2>1, <2>4 DEF IInv, TypeOK, BodyInv, Startup
  <1>3. CASE current # 0
    <2>1. BeginClose(b, "starting")
      BY <1>3 DEF Startup
    <2>2. TypeOK'
      BY <1>1, <2>1 DEF Startup, BeginClose, TypeOK
    <2>3. PoolInv'
      BY <1>1, <2>1 DEF BeginClose, PoolInv, TypeOK
    <2>4. BodyInv'
      BY <1>1, <2>1 DEF BeginClose, BodyInv
    <2> QED BY <2>2, <2>3, <2>4 DEF IInv
  <1> QED BY <1>2, <1>3

LEMMA FinishInitInv == ASSUME IInv, NEW b \in Broker, FinishInit(b) PROVE IInv'
  <1> DEFINE closed == [phase EXCEPT ![current] = "closed"]
  <1>1. TypeOK /\ PoolInv /\ BodyInv
    BY DEF IInv
  <1>2. MakePool(b, closed) /\ proc' = Exited(current)
    BY DEF FinishInit
  <1>3. closed \in [Pool -> {"none", "open", "closing", "broken", "closed"}]
    BY <1>1 DEF TypeOK
  <1>4. \A p \in Pool : closed[p] # "open"
    BY <1>1 DEF PoolInv, TypeOK
  <1>5. /\ proc' \in [Worker -> Process]
        /\ \A w \in Worker : proc'[w] = IF w[1] = current THEN NoProc ELSE proc[w]
        /\ ~NoProc.live /\ NoProc.pc = "idle" /\ NoProc.bg = "none"
    BY <1>1, <1>2, ExitedType
  <1>6. \A w \in Worker : ~proc'[w].live
    BY <1>1, <1>5 DEF PoolInv
  <1>7. BodyInv'
    BY <1>1, <1>5 DEF BodyInv, BodyOK
  <1> HIDE DEF closed
  <1>8. /\ current' \in Pool \cup {0}
        /\ phase' \in [Pool -> {"none", "open", "closing", "broken", "closed"}]
        /\ broker' \in [Broker -> {"down", "starting", "up", "stopping", "stopped"}]
        /\ blocked' \in Broker \cup {None}
        /\ PoolInv'
    BY <1>2, <1>3, <1>4, <1>6, MakePoolInv
  <1>9. TypeOK'
    BY <1>1, <1>5, <1>8 DEF TypeOK, FinishInit
  <1> QED BY <1>7, <1>8, <1>9 DEF IInv

LEMMA ShutdownInv == ASSUME IInv, NEW b \in Broker, Shutdown(b) PROVE IInv'
  <1>1. TypeOK /\ PoolInv /\ BodyInv
    BY DEF IInv
  <1>2. TypeOK'
    BY <1>1 DEF Shutdown, BeginClose, TypeOK
  <1>3. PoolInv'
    BY <1>1 DEF Shutdown, BeginClose, PoolInv, TypeOK
  <1>4. BodyInv'
    BY <1>1 DEF Shutdown, BeginClose, BodyInv
  <1> QED BY <1>2, <1>3, <1>4 DEF IInv

LEMMA FinishShutdownInv == ASSUME IInv, NEW b \in Broker, FinishShutdown(b) PROVE IInv'
  <1>1. TypeOK /\ PoolInv /\ BodyInv
    BY DEF IInv
  <1>2. /\ proc' \in [Worker -> Process]
        /\ \A w \in Worker : proc'[w] = IF w[1] = current THEN NoProc ELSE proc[w]
        /\ ~NoProc.live /\ NoProc.pc = "idle" /\ NoProc.bg = "none"
    BY <1>1, ExitedType DEF FinishShutdown
  <1>3. TypeOK'
    BY <1>1, <1>2 DEF FinishShutdown, TypeOK
  <1>4. PoolInv'
    BY <1>1, <1>2 DEF FinishShutdown, PoolInv, TypeOK
  <1>5. BodyInv'
    BY <1>1, <1>2 DEF BodyInv, BodyOK
  <1> QED BY <1>3, <1>4, <1>5 DEF IInv

-----------------------------------------------------------------------------
(* Handing a task to the pool.                                               *)

LEMMA AcceptInv ==
    ASSUME IInv, NEW t \in Task, NEW p \in Pool \cup {0}, Accept(t, p),
           UNCHANGED <<method, broker, known, blocked, current, phase, deaths>>
    PROVE  IInv'
  <1>1. TypeOK /\ PoolInv /\ BodyInv
    BY DEF IInv
  <1>2. CASE p # 0 /\ phase[p] = "open"
    <2>1. /\ task' = [task EXCEPT ![t] = [st |-> "queued", pool |-> p]]
          /\ proc' = Launched(p)
      BY <1>2 DEF Accept
    <2>2. /\ proc' \in [Worker -> Process]
          /\ \A w \in Worker : \/ proc'[w] = proc[w]
                               \/ /\ w[1] = p
                                  /\ proc'[w].pc = "idle"
                                  /\ proc'[w].bg = "none"
      <3>1. /\ Launched(p) \in [Worker -> Process]
            /\ \A w \in Worker : \/ Launched(p)[w] = proc[w]
                                 \/ /\ w[1] = p
                                    /\ Launched(p)[w].pc = "idle"
                                    /\ Launched(p)[w].bg = "none"
        BY <1>1, LaunchedType
      <3> QED BY <2>1, <3>1
    <2>3. p = current
      BY <1>1, <1>2 DEF PoolInv
    <2>4. TypeOK'
      BY <1>1, <2>1, <2>2 DEF TypeOK
    <2>5. PoolInv'
      BY <1>1, <2>2, <2>3 DEF PoolInv
    <2>6. BodyInv'
      BY <1>1, <2>2 DEF BodyInv, BodyOK
    <2> QED BY <2>4, <2>5, <2>6 DEF IInv
  <1>3. CASE ~(p # 0 /\ phase[p] = "open")
    <2>1. task' = [task EXCEPT ![t] = Refused] /\ proc' = proc
      BY <1>3 DEF Accept
    <2>2. TypeOK'
      BY <1>1, <2>1 DEF TypeOK, Refused
    <2> QED BY <1>1, <2>1, <2>2 DEF IInv, PoolInv, BodyInv
  <1> QED BY <1>2, <1>3

LEMMA SubmitInv ==
    ASSUME IInv, NEW t \in Task, Submit(t) \/ GetPool(t) \/ SubmitGot(t)
    PROVE  IInv'
  <1>1. TypeOK /\ PoolInv /\ BodyInv
    BY DEF IInv
  <1>2. CASE Submit(t)
    <2>1. current \in Pool \cup {0}
      BY <1>1 DEF TypeOK
    <2> QED BY <1>2, <2>1, AcceptInv DEF Submit
  <1>3. CASE GetPool(t)
    <2>1. TypeOK'
      BY <1>1, <1>3 DEF GetPool, TypeOK
    <2> QED BY <1>1, <1>3, <2>1 DEF IInv, PoolInv, BodyInv, GetPool
  <1>4. CASE SubmitGot(t)
    <2>1. task[t].pool \in Pool \cup {0}
      BY <1>1 DEF TypeOK
    <2> QED BY <1>4, <2>1, AcceptInv DEF SubmitGot
  <1> QED BY <1>2, <1>3, <1>4

-----------------------------------------------------------------------------
(* A task in a process.                                                      *)

\* A step of one process keeps the invariant if the record it leaves is one of
\* the type, lives as before and holds a body that is in order.
LEMMA LocalInv ==
    ASSUME IInv, NEW w \in Worker, NEW r \in Process,
           proc' = [proc EXCEPT ![w] = r],
           r.live = proc[w].live, BodyOK(r),
           \/ UNCHANGED task
           \/ \E t \in Task, st \in {"running", "ended"}, p \in Pool \cup {0} :
                task' = [task EXCEPT ![t] = [st |-> st, pool |-> p]],
           UNCHANGED <<method, broker, known, blocked, current, phase>>,
           deaths' \in 0..MaxDeaths
    PROVE  IInv'
  <1>1. TypeOK /\ PoolInv /\ BodyInv
    BY DEF IInv
  <1>2. proc \in [Worker -> Process]
    BY <1>1 DEF TypeOK
  <1>3. TypeOK'
    BY <1>1 DEF TypeOK
  <1>4. PoolInv'
    BY <1>1, <1>2 DEF PoolInv
  <1>5. BodyInv'
    BY <1>1, <1>2 DEF BodyInv, BodyOK
  <1> QED BY <1>3, <1>4, <1>5 DEF IInv

\* What is left of a process when its task ends.
LEMMA EndsInv ==
    ASSUME IInv, NEW w \in Worker, Ends(w), proc[w].pc # "idle",
           UNCHANGED <<method, broker, known, blocked, current, phase, deaths>>
    PROVE  IInv'
  <1> DEFINE r == [proc[w] EXCEPT !.task = None, !.pc = "idle", !.at = None,
                                  !.calls = 0, !.backend = None]
  <1>1. TypeOK /\ BodyOK(proc[w])
    BY DEF IInv, BodyInv
  <1>2. proc[w] \in Process /\ deaths' \in 0..MaxDeaths
    BY <1>1 DEF TypeOK
  <1>3. r \in Process /\ r.live = proc[w].live /\ r.pc = "idle"
        /\ r.bg = proc[w].bg /\ r.made = proc[w].made
    <2>1. 0 \in 0..MaxCalls
      BY CpuAssumption
    <2> QED BY <1>2, <2>1 DEF Process
  <1>4. BodyOK(r)
    BY <1>1, <1>3 DEF BodyOK
  <1>5. proc[w].task \in Task
    BY <1>1 DEF BodyOK
  <1>6. /\ task' = [task EXCEPT ![proc[w].task] = [st |-> "ended", pool |-> 0]]
        /\ proc' = [proc EXCEPT ![w] = r]
    <2>1. proc' = [proc EXCEPT ![w] = r]
      BY DEF Ends
    <2> QED BY <2>1 DEF Ends, Ended, TaskOf
  <1> HIDE DEF r
  <1> QED BY <1>2, <1>3, <1>4, <1>5, <1>6, LocalInv

\* A body that begins: its process has a loop of its own if it is sync.
LEMMA BeginsInv ==
    ASSUME IInv, NEW w \in Worker, NEW t \in Task, NEW p \in Process,
           Begins(w, t, p), Takes(w, t), p.live = proc[w].live,
           p.bg = "live" => p.made \in 1..MaxLoops,
           Sync(t) => p.wl = "own",
           UNCHANGED <<method, broker, known, blocked, current, phase, deaths>>
    PROVE  IInv'
  <1> DEFINE r == [p EXCEPT !.task = t, !.pc = "body"]
  <1>1. TypeOK
    BY DEF IInv
  <1>2. r \in Process /\ r.live = proc[w].live /\ r.pc = "body" /\ r.task = t
        /\ r.bg = p.bg /\ r.made = p.made /\ r.wl = p.wl
    BY DEF Process
  <1>3. BodyOK(r)
    BY <1>2 DEF BodyOK
  <1>4. task[t] \in [st : {"posted", "got", "queued", "running", "ended", "refused"},
                     pool : Pool \cup {0}]
    BY <1>1 DEF TypeOK
  <1>5. [task[t] EXCEPT !.st = "running"] = [st |-> "running", pool |-> task[t].pool]
        /\ task[t].pool \in Pool \cup {0}
    BY <1>4
  <1>6. /\ task' = [task EXCEPT ![t] = [st |-> "running", pool |-> task[t].pool]]
        /\ proc' = [proc EXCEPT ![w] = r]
    BY <1>5 DEF Begins
  <1>7. deaths' \in 0..MaxDeaths
    BY <1>1 DEF TypeOK
  <1> HIDE DEF r
  <1> QED BY <1>2, <1>3, <1>5, <1>6, <1>7, LocalInv

LEMMA TakeAsyncInv ==
    ASSUME IInv, NEW w \in Worker, TakeAsync(w),
           UNCHANGED <<method, broker, known, blocked, current, phase, deaths>>
    PROVE  IInv'
  <1>1. proc[w] \in Process /\ BodyOK(proc[w])
    BY DEF IInv, TypeOK, BodyInv
  <1>2. PICK t \in Task : Takes(w, t) /\ ~Sync(t) /\ Begins(w, t, proc[w])
    BY DEF TakeAsync
  <1>3. proc[w].bg = "live" => proc[w].made \in 1..MaxLoops
    BY <1>1 DEF BodyOK
  <1> QED BY <1>1, <1>2, <1>3, BeginsInv

LEMMA TakeSyncInv ==
    ASSUME IInv, NEW w \in Worker, TakeSync(w),
           UNCHANGED <<method, broker, known, blocked, current, phase, deaths>>
    PROVE  IInv'
  <1> DEFINE q == IF proc[w].bg = "live" THEN proc[w] ELSE NewLoop(w)
             r == [q EXCEPT !.wl = "own"]
  <1>1. proc[w] \in Process /\ BodyOK(proc[w])
    BY DEF IInv, TypeOK, BodyInv
  <1>2. q \in Process /\ q.live = proc[w].live /\ q.made \in 1..MaxLoops
    <2>1. CASE proc[w].bg = "live"
      BY <1>1, <2>1 DEF BodyOK
    <2>2. CASE proc[w].bg # "live"
      <3>1. proc[w].made \in 0..MaxLoops /\ proc[w].made < MaxLoops
        BY <1>1, <2>2 DEF TakeSync, Process
      <3>2. proc[w].made + 1 \in 1..MaxLoops /\ proc[w].made + 1 \in 0..MaxLoops
        BY <3>1, CpuAssumption
      <3> QED BY <1>1, <2>2, <3>2 DEF NewLoop, Process
    <2> QED BY <2>1, <2>2
  <1>3. r \in Process /\ r.live = proc[w].live /\ r.made \in 1..MaxLoops /\ r.wl = "own"
    BY <1>2 DEF Process
  <1>4. PICK t \in Task : Takes(w, t) /\ Sync(t) /\ Begins(w, t, r)
    BY DEF TakeSync
  <1> HIDE DEF r
  <1> QED BY <1>3, <1>4, BeginsInv

LEMMA LoopFailsInv ==
    ASSUME IInv, NEW w \in Worker, LoopFails(w),
           UNCHANGED <<method, broker, known, blocked, current, phase, deaths>>
    PROVE  IInv'
  <1>1. TypeOK /\ PoolInv /\ BodyInv
    BY DEF IInv
  <1>2. PICK t \in Task : task' = [task EXCEPT ![t] = Ended]
    BY DEF LoopFails
  <1>3. TypeOK'
    BY <1>1, <1>2 DEF LoopFails, TypeOK, Ended
  <1> QED BY <1>1, <1>3 DEF IInv, PoolInv, BodyInv, LoopFails

\* A body that waits on a loop.
LEMMA WaitsOnInv ==
    ASSUME IInv, NEW w \in Worker, NEW l \in Loop \cup {Parent},
           NEW u \in {"none", "backend", "layer"}, WaitsOn(w, l, u),
           proc[w].pc = "body", l # None, proc[w].calls < MaxCalls,
           Sync(proc[w].task) => l # Parent,
           UNCHANGED <<method, broker, known, blocked, current, phase, deaths>>
    PROVE  IInv'
  <1> DEFINE r == [proc[w] EXCEPT !.pc = "wait", !.at = l, !.uses = u]
  <1>1. TypeOK /\ proc[w] \in Process /\ BodyOK(proc[w])
    BY DEF IInv, TypeOK, BodyInv
  <1>2. r \in Process /\ r.live = proc[w].live /\ r.pc = "wait" /\ r.at = l
        /\ r.calls = proc[w].calls
        /\ r.task = proc[w].task /\ r.wl = proc[w].wl
        /\ r.bg = proc[w].bg /\ r.made = proc[w].made
    BY <1>1 DEF Process
  <1>3. BodyOK(r)
    BY <1>1, <1>2 DEF BodyOK
  <1>4. proc' = [proc EXCEPT ![w] = r] /\ task' = task /\ deaths' \in 0..MaxDeaths
    BY <1>1 DEF WaitsOn, Goes, TypeOK
  <1> HIDE DEF r
  <1> QED BY <1>2, <1>3, <1>4, LocalInv

\* Only a body that is not sync finds the loop of the parent registered: the
\* background loop was registered for a sync body before it began.
LEMMA BridgeInv ==
    ASSUME IInv, NEW w \in Worker, Bridge(w) \/ Await(w),
           UNCHANGED <<method, broker, known, blocked, current, phase, deaths>>
    PROVE  IInv'
  <1>1. TypeOK /\ proc[w] \in Process /\ BodyOK(proc[w])
    BY DEF IInv, TypeOK, BodyInv
  <1>2. /\ proc[w].pc = "body" /\ proc[w].task \in Task
        /\ proc[w].calls < MaxCalls
    BY <1>1 DEF Bridge, Await, CallsBridge, BodyOK
  <1>3. ASSUME NEW u \in {"none", "backend", "layer"},
               Bridge(w), proc[w].wl = Parent, WaitsOn(w, Parent, u)
        PROVE  IInv'
    <2>1. CASE Sync(proc[w].task)
      <3>1. proc[w].wl = "own" /\ Parent = "own"
        BY <1>1, <1>2, <1>3, <2>1 DEF BodyOK
      <3> QED BY <3>1, LoopAssumption
    <2> QED BY <1>2, <1>3, <2>1, LoopAssumption, WaitsOnInv
  <1>4. ASSUME NEW u \in {"none", "backend", "layer"},
               proc[w].bg = "live", WaitsOn(w, <<"bg", proc[w].made>>, u)
        PROVE  IInv'
    <2>1. <<"bg", proc[w].made>> \in Loop
      BY <1>1, <1>4 DEF BodyOK, Loop
    <2> QED BY <1>2, <1>4, <2>1, LoopAssumption, WaitsOnInv
  <1>5. CASE Await(w)
    <2>1. PICK u \in Resource : WaitsOn(w, <<"run", proc[w].task>>, u)
      BY <1>5 DEF Await, TaskOf
    <2>2. <<"run", proc[w].task>> \in Loop /\ <<"run", proc[w].task>> \notin {None, Parent}
      BY <1>2, LoopAssumption DEF Loop
    <2> QED BY <1>2, <2>1, <2>2, WaitsOnInv DEF Resource
  <1>6. CASE Bridge(w)
    <2>1. PICK u \in IF Kind[TaskOf(w)] = "bridge" THEN Resource ELSE {"none"} :
            \/ proc[w].wl = Parent /\ WaitsOn(w, Parent, u)
            \/ /\ proc[w].wl = "own" /\ proc[w].bg = "live"
               /\ WaitsOn(w, <<"bg", proc[w].made>>, u)
      BY <1>6 DEF Bridge
    <2>2. u \in {"none", "backend", "layer"}
      BY <2>1 DEF Resource
    <2> QED BY <1>3, <1>4, <1>6, <2>1, <2>2
  <1> QED BY <1>5, <1>6

LEMMA AnswerInv ==
    ASSUME IInv, NEW w \in Worker, Answer(w),
           UNCHANGED <<method, broker, known, blocked, current, phase, deaths>>
    PROVE  IInv'
  <1>1. TypeOK /\ proc[w] \in Process /\ BodyOK(proc[w]) /\ deaths' \in 0..MaxDeaths
    BY DEF IInv, TypeOK, BodyInv
  <1> DEFINE back == [proc[w] EXCEPT !.pc = "body", !.at = None, !.uses = "none",
                                     !.calls = @ + 1]
  <1>2. PICK r \in {back, [back EXCEPT !.backend = proc[w].at],
                    [back EXCEPT !.layer = proc[w].at]} :
          Goes(w, r)
    BY DEF Answer
  <1>3. proc[w].at \in Loop /\ proc[w].calls + 1 \in 0..MaxCalls
    <2>1. proc[w].at \notin {None, Parent} /\ proc[w].at \in Loop \cup {None, Parent}
      BY <1>1 DEF Answer, Process, BodyOK
    <2>2. proc[w].calls < MaxCalls /\ proc[w].calls \in 0..MaxCalls
      BY <1>1 DEF Answer, Process, BodyOK
    <2>3. MaxCalls \in Nat
      BY CpuAssumption
    <2> QED BY <2>1, <2>2, <2>3
  <1>4. /\ back \in Process /\ back.live = proc[w].live /\ back.pc = "body"
        /\ back.task = proc[w].task /\ back.wl = proc[w].wl
        /\ back.bg = proc[w].bg /\ back.made = proc[w].made
    BY <1>1, <1>3 DEF Process
  <1>5. r \in Process /\ r.live = proc[w].live /\ r.pc = "body"
        /\ r.task = proc[w].task /\ r.wl = proc[w].wl
        /\ r.bg = proc[w].bg /\ r.made = proc[w].made
    <2> HIDE DEF back
    <2>1. CASE r = back
      BY <1>4, <2>1
    <2>2. CASE r = [back EXCEPT !.backend = proc[w].at]
      BY <1>3, <1>4, <2>2 DEF Process
    <2>3. CASE r = [back EXCEPT !.layer = proc[w].at]
      BY <1>3, <1>4, <2>3 DEF Process
    <2> QED BY <1>2, <2>1, <2>2, <2>3
  <1>6. proc[w].pc # "idle"
    BY DEF Answer
  <1>7. BodyOK(r)
    BY <1>1, <1>5, <1>6 DEF BodyOK
  <1>8. proc' = [proc EXCEPT ![w] = r] /\ task' = task
    BY <1>2 DEF Goes
  <1> QED BY <1>1, <1>5, <1>7, <1>8, LocalInv

LEMMA ProcessStepInv == ASSUME IInv, NEW w \in Worker, ProcessStep(w) PROVE IInv'
  <1>1. UNCHANGED <<method, broker, known, blocked, current, phase, deaths>>
    BY DEF ProcessStep
  <1>2. CASE TakeAsync(w)
    BY <1>1, <1>2, TakeAsyncInv
  <1>3. CASE TakeSync(w)
    BY <1>1, <1>3, TakeSyncInv
  <1>4. CASE LoopFails(w)
    BY <1>1, <1>4, LoopFailsInv
  <1>5. CASE Bridge(w) \/ Await(w)
    BY <1>1, <1>5, BridgeInv
  <1>6. CASE NoLoopFound(w) \/ Finish(w)
    <2>1. proc[w].pc # "idle" /\ Ends(w)
      BY <1>6 DEF NoLoopFound, CallsBridge, Finish
    <2> QED BY <1>1, <2>1, EndsInv
  <1>7. CASE Answer(w)
    BY <1>1, <1>7, AnswerInv
  <1> QED BY <1>2, <1>3, <1>4, <1>5, <1>6, <1>7 DEF ProcessStep

LEMMA LoopDiesInv == ASSUME IInv, NEW w \in Worker, LoopDies(w) PROVE IInv'
  <1> DEFINE r == [proc[w] EXCEPT !.bg = "dead", !.lost = TRUE]
  <1>1. TypeOK /\ proc[w] \in Process /\ BodyOK(proc[w])
    BY DEF IInv, TypeOK, BodyInv
  <1>2. r \in Process /\ r.live = proc[w].live /\ r.pc = proc[w].pc /\ r.at = proc[w].at
        /\ r.calls = proc[w].calls
        /\ r.task = proc[w].task /\ r.wl = proc[w].wl /\ r.bg = "dead"
    BY <1>1 DEF Process
  <1>3. BodyOK(r)
    BY <1>1, <1>2 DEF BodyOK
  <1>4. proc' = [proc EXCEPT ![w] = r]
    BY <1>1 DEF LoopDies, TypeOK
  <1>5. deaths' \in 0..MaxDeaths /\ task' = task
    BY <1>1, CpuAssumption DEF LoopDies, TypeOK
  <1> HIDE DEF r
  <1> QED BY <1>2, <1>3, <1>4, <1>5, LocalInv DEF LoopDies

LEMMA ProcessDiesInv == ASSUME IInv, NEW w \in Worker, ProcessDies(w) PROVE IInv'
  <1>1. TypeOK /\ PoolInv /\ BodyInv
    BY DEF IInv
  <1>2. /\ proc' \in [Worker -> Process]
        /\ \A v \in Worker : proc'[v] = IF v[1] = w[1] THEN NoProc ELSE proc[v]
        /\ ~NoProc.live /\ NoProc.pc = "idle" /\ NoProc.bg = "none"
    BY <1>1, ExitedType DEF ProcessDies
  <1>3. phase' \in [Pool -> {"none", "open", "closing", "broken", "closed"}]
        /\ \A p \in Pool : phase'[p] = "open" => phase[p] = "open"
    BY <1>1 DEF ProcessDies, TypeOK
  <1>4. deaths' \in 0..MaxDeaths
    BY <1>1, CpuAssumption DEF ProcessDies, TypeOK
  <1>5. task' \in [Task ->
          [st : {"posted", "got", "queued", "running", "ended", "refused"},
           pool : Pool \cup {0}]]
    BY <1>1 DEF ProcessDies, TypeOK, Ended
  <1>6. TypeOK'
    BY <1>1, <1>2, <1>3, <1>4, <1>5 DEF ProcessDies, TypeOK
  <1>7. PoolInv'
    BY <1>1, <1>2, <1>3 DEF ProcessDies, PoolInv
  <1>8. BodyInv'
    BY <1>1, <1>2 DEF BodyInv, BodyOK
  <1> QED BY <1>6, <1>7, <1>8 DEF IInv

-----------------------------------------------------------------------------
(* The invariant and what follows from it.                                   *)

LEMMA NextInv == ASSUME IInv, [Next]_vars PROVE IInv'
  <1>1. ASSUME NEW b \in Broker, Startup(b) \/ Shutdown(b) PROVE IInv'
    BY <1>1, StartupInv, ShutdownInv
  <1>2. ASSUME NEW b \in Broker, FinishInit(b) \/ FinishShutdown(b) PROVE IInv'
    BY <1>2, FinishInitInv, FinishShutdownInv
  <1>3. ASSUME NEW t \in Task, Submit(t) \/ GetPool(t) \/ SubmitGot(t) PROVE IInv'
    BY <1>3, SubmitInv
  <1>4. ASSUME NEW w \in Worker, ProcessStep(w) \/ LoopDies(w) \/ ProcessDies(w) PROVE IInv'
    BY <1>4, ProcessStepInv, LoopDiesInv, ProcessDiesInv
  <1>5. CASE UNCHANGED vars
    BY <1>5 DEF vars, IInv, TypeOK, PoolInv, BodyInv
  <1> QED BY <1>1, <1>2, <1>3, <1>4, <1>5 DEF Next, HandlerReturns

-----------------------------------------------------------------------------
(* Why tasks are refused.                                                    *)

\* A handler that waits for the pool to drain blocks the event loop.
BlockedInv == \A b \in Broker : broker[b] \in {"starting", "stopping"} => blocked = b

\* _pool names a pool that takes tasks, unless it is being replaced or closed
\* or has lost a process; it is None only before and after all brokers are up.
CurrentInv ==
    /\ current # 0 => \/ phase[current] \in {"open", "broken"}
                      \/ \E b \in Broker : broker[b] \in {"starting", "stopping"}
    /\ current = 0 => \A b \in Broker : broker[b] = "up" =>
                        \E c \in Broker : broker[c] \in {"stopping", "stopped"}

\* Only a thread holds a pool without having used it.
GotInv == \A t \in Task : task[t].st = "got" => Kind[t] = "direct" /\ task[t].pool # 0

CauseInv == BlockedInv /\ CurrentInv /\ GotInv

LEMMA CauseInit == Init => CauseInv
  BY DEF Init, CauseInv, BlockedInv, CurrentInv, GotInv

LEMMA CauseHandlers ==
    ASSUME IInv, CauseInv, NEW b \in Broker,
           Startup(b) \/ Shutdown(b) \/ FinishInit(b) \/ FinishShutdown(b)
    PROVE  CauseInv'
  <1>1. /\ broker \in [Broker -> {"down", "starting", "up", "stopping", "stopped"}]
        /\ phase \in [Pool -> {"none", "open", "closing", "broken", "closed"}]
        /\ current \in Pool \cup {0} /\ None \notin Broker
        /\ \A p \in Pool : p # 0
    BY CpuAssumption DEF IInv, TypeOK, Pool
  <1>2. BlockedInv /\ CurrentInv /\ GotInv /\ UNCHANGED task
    BY DEF CauseInv, Startup, Shutdown, FinishInit, FinishShutdown
  <1>3. ASSUME NEW f \in [Pool -> {"none", "open", "closing", "broken", "closed"}],
               MakePool(b, f), blocked = None \/ blocked = b
        PROVE  CauseInv'
    <2>1. /\ NextPool \in Pool /\ current' = NextPool /\ phase'[NextPool] = "open"
          /\ broker' = [broker EXCEPT ![b] = "up"]
      BY <1>3 DEF MakePool
    <2>2. BlockedInv'
      BY <1>1, <1>2, <1>3, <2>1 DEF BlockedInv
    <2>3. CurrentInv'
      BY <1>1, <2>1 DEF CurrentInv
    <2> QED BY <1>2, <2>2, <2>3 DEF CauseInv, GotInv
  <1>4. ASSUME NEW st \in {"starting", "stopping"}, BeginClose(b, st), blocked = None
        PROVE  CauseInv'
    <2>1. /\ broker'[b] = st /\ blocked' = b /\ current' = current
          /\ broker' = [broker EXCEPT ![b] = st]
      BY <1>1, <1>4 DEF BeginClose
    <2>2. BlockedInv'
      BY <1>1, <1>2, <1>4, <2>1 DEF BlockedInv
    <2>3. CurrentInv'
      <3>1. ASSUME current = 0, NEW d \in Broker, broker'[d] = "up"
            PROVE  \E c \in Broker : broker'[c] \in {"stopping", "stopped"}
        <4>1. d # b /\ broker[d] = "up"
          BY <1>1, <2>1, <3>1
        <4>2. PICK c \in Broker : broker[c] \in {"stopping", "stopped"}
          BY <1>2, <3>1, <4>1 DEF CurrentInv
        <4>3. broker[c] = "stopped"
          BY <1>1, <1>2, <1>4, <4>2 DEF BlockedInv
        <4> QED BY <1>1, <1>4, <2>1, <4>3 DEF Startup, Shutdown, FinishInit, FinishShutdown
      <3> QED BY <2>1, <3>1 DEF CurrentInv
    <2> QED BY <1>2, <2>2, <2>3 DEF CauseInv, GotInv
  <1>5. CASE Startup(b)
    <2>1. blocked = None /\ (MakePool(b, phase) \/ BeginClose(b, "starting"))
      BY <1>5 DEF Startup
    <2> QED BY <1>1, <1>3, <1>4, <2>1
  <1>6. CASE FinishInit(b)
    <2>1. /\ blocked = b /\ MakePool(b, [phase EXCEPT ![current] = "closed"])
          /\ [phase EXCEPT ![current] = "closed"]
               \in [Pool -> {"none", "open", "closing", "broken", "closed"}]
      BY <1>1, <1>2, <1>6 DEF FinishInit, BlockedInv
    <2> QED BY <1>3, <2>1
  <1>7. CASE Shutdown(b)
    <2>1. CASE BeginClose(b, "stopping")
      BY <1>4, <1>7, <2>1 DEF Shutdown
    <2>2. CASE current = 0
      <3>1. /\ broker' = [broker EXCEPT ![b] = "stopped"]
            /\ UNCHANGED <<blocked, current, phase>>
        BY <1>7, <2>2 DEF Shutdown
      <3> QED BY <1>1, <1>2, <2>2, <3>1 DEF CauseInv, BlockedInv, CurrentInv, GotInv
    <2> QED BY <1>7, <2>1, <2>2 DEF Shutdown
  <1>8. CASE FinishShutdown(b)
    <2>1. /\ broker' = [broker EXCEPT ![b] = "stopped"] /\ current' = 0
          /\ blocked = b /\ blocked' = None
      BY <1>2, <1>8 DEF FinishShutdown, BlockedInv
    <2> QED BY <1>1, <1>2, <2>1 DEF CauseInv, BlockedInv, CurrentInv, GotInv
  <1> QED BY <1>5, <1>6, <1>7, <1>8

\* No step of a process makes a task hold a pool.
LEMMA ProcessKeepsGot ==
    ASSUME IInv, GotInv, NEW w \in Worker, ProcessStep(w)
    PROVE  GotInv'
  <1>1. \A t \in Task : task'[t] = task[t] \/ task'[t].st # "got"
    <2>1. /\ \A t \in Task : task[t] \in [st : {"posted", "got", "queued", "running",
                                              "ended", "refused"}, pool : Pool \cup {0}]
          /\ task \in [Task -> [st : {"posted", "got", "queued", "running",
                                     "ended", "refused"}, pool : Pool \cup {0}]]
      BY DEF IInv, TypeOK
    <2>2. ASSUME Ends(w) PROVE \A t \in Task : task'[t] = task[t] \/ task'[t].st # "got"
      BY <2>1, <2>2 DEF Ends, Ended
    <2>3. ASSUME NEW u \in Task, NEW p, Begins(w, u, p)
          PROVE  \A t \in Task : task'[t] = task[t] \/ task'[t].st # "got"
      BY <2>1, <2>3 DEF Begins
    <2>4. CASE TakeAsync(w) \/ TakeSync(w)
      BY <2>3, <2>4 DEF TakeAsync, TakeSync
    <2>5. CASE LoopFails(w)
      BY <2>1, <2>5 DEF LoopFails, Ended
    <2>6. CASE NoLoopFound(w) \/ Finish(w)
      BY <2>2, <2>6 DEF NoLoopFound, Finish
    <2>7. CASE Bridge(w) \/ Await(w)
      BY <2>7 DEF Bridge, Await, WaitsOn, Goes
    <2>8. CASE Answer(w)
      BY <2>8 DEF Answer, Goes
    <2> QED BY <2>4, <2>5, <2>6, <2>7, <2>8 DEF ProcessStep
  <1> QED BY <1>1 DEF GotInv

LEMMA CauseStep == ASSUME IInv, CauseInv, [Next]_vars PROVE CauseInv'
  <1>1. /\ task \in [Task -> [st : {"posted", "got", "queued", "running", "ended", "refused"},
                              pool : Pool \cup {0}]]
        /\ phase \in [Pool -> {"none", "open", "closing", "broken", "closed"}]
    BY DEF IInv, TypeOK
  <1>2. ASSUME UNCHANGED <<broker, blocked, current, phase>>, GotInv'
        PROVE  CauseInv'
    BY <1>2 DEF CauseInv, BlockedInv, CurrentInv
  <1>3. ASSUME NEW b \in Broker, Startup(b) \/ Shutdown(b) \/ FinishInit(b) \/ FinishShutdown(b)
        PROVE  CauseInv'
    BY <1>3, CauseHandlers
  <1>4. ASSUME NEW t \in Task, Submit(t) \/ SubmitGot(t) PROVE CauseInv'
    <2>1. task'[t].st # "got" /\ \A u \in Task : u # t => task'[u] = task[u]
      BY <1>1, <1>4 DEF Submit, SubmitGot, Accept, Refused
    <2>2. GotInv'
      BY <2>1 DEF CauseInv, GotInv
    <2> QED BY <1>2, <1>4, <2>2 DEF Submit, SubmitGot
  <1>5. ASSUME NEW t \in Task, GetPool(t) PROVE CauseInv'
    <2>1. /\ Kind[t] = "direct" /\ \A u \in Task : u # t => task'[u] = task[u]
          /\ task'[t] = [st |-> IF current = 0 THEN "refused" ELSE "got", pool |-> current]
      BY <1>1, <1>5 DEF GetPool
    <2>2. GotInv'
      BY <2>1 DEF CauseInv, GotInv
    <2> QED BY <1>2, <1>5, <2>2 DEF GetPool
  <1>6. ASSUME NEW w \in Worker, ProcessStep(w) PROVE CauseInv'
    BY <1>2, <1>6, ProcessKeepsGot DEF CauseInv, ProcessStep
  <1>7. ASSUME NEW w \in Worker, LoopDies(w) PROVE CauseInv'
    BY <1>2, <1>7 DEF CauseInv, GotInv, LoopDies
  <1>8. ASSUME NEW w \in Worker, ProcessDies(w) PROVE CauseInv'
    <2>1. /\ phase' = [phase EXCEPT ![w[1]] = IF @ = "open" THEN "broken" ELSE @]
          /\ \A t \in Task : task'[t] = task[t] \/ task'[t] = Ended
          /\ UNCHANGED <<broker, blocked, current>>
      BY <1>8 DEF ProcessDies
    <2>2. GotInv'
      BY <2>1 DEF CauseInv, GotInv, Ended
    <2>3. current \in Pool \cup {0}
      BY DEF IInv, TypeOK
    <2>4. CurrentInv'
      <3>1. current # 0 /\ phase[current] \in {"open", "broken"} =>
              phase'[current] \in {"open", "broken"}
        BY <1>1, <2>1, <2>3
      <3> QED BY <2>1, <3>1 DEF CauseInv, CurrentInv
    <2> QED BY <2>1, <2>2, <2>4 DEF CauseInv, BlockedInv
  <1>9. CASE UNCHANGED vars
    BY <1>9 DEF vars, CauseInv, BlockedInv, CurrentInv, GotInv
  <1> QED BY <1>3, <1>4, <1>5, <1>6, <1>7, <1>8, <1>9 DEF Next, HandlerReturns

\* The step that refuses a task has one of the three causes.
LEMMA RefusalStep ==
    ASSUME IInv, CauseInv, Next, NEW t \in Task,
           task[t].st # "refused", task'[t].st = "refused"
    PROVE  \/ \E b \in Broker : broker[b] \in {"stopping", "stopped"}
           \/ \E p \in Pool : phase[p] = "broken"
           \/ Kind[t] = "direct" /\ phase[task[t].pool] # "open"
  <1>1. /\ task \in [Task -> [st : {"posted", "got", "queued", "running", "ended", "refused"},
                              pool : Pool \cup {0}]]
        /\ current \in Pool \cup {0} /\ BrokerOf[t] \in Broker /\ None \notin Broker
    BY CpuAssumption DEF IInv, TypeOK
  <1>2. Submit(t) \/ GetPool(t) \/ SubmitGot(t)
    <2>1. ASSUME NEW u \in Task, u # t, Submit(u) \/ GetPool(u) \/ SubmitGot(u)
          PROVE  FALSE
      BY <1>1, <2>1 DEF Submit, GetPool, SubmitGot, Accept
    <2>2. ASSUME NEW b \in Broker, Startup(b) \/ Shutdown(b) \/ FinishInit(b) \/ FinishShutdown(b)
          PROVE  FALSE
      BY <2>2 DEF Startup, Shutdown, FinishInit, FinishShutdown
    <2>3. ASSUME NEW w \in Worker, ProcessStep(w) PROVE FALSE
      <3>1. ASSUME Ends(w) PROVE FALSE
        BY <1>1, <3>1 DEF Ends, Ended
      <3>2. ASSUME NEW u \in Task, NEW p, Begins(w, u, p) PROVE FALSE
        BY <1>1, <3>2 DEF Begins
      <3>3. ~(TakeAsync(w) \/ TakeSync(w))
        BY <3>2 DEF TakeAsync, TakeSync
      <3>4. ~LoopFails(w)
        BY <1>1 DEF LoopFails, Ended
      <3>5. ~(NoLoopFound(w) \/ Finish(w))
        BY <3>1 DEF NoLoopFound, Finish
      <3>6. ~(Bridge(w) \/ Await(w))
        BY DEF Bridge, Await, WaitsOn, Goes
      <3>7. ~Answer(w)
        BY DEF Answer, Goes
      <3> QED BY <2>3, <3>3, <3>4, <3>5, <3>6, <3>7 DEF ProcessStep
    <2>4. ASSUME NEW w \in Worker, LoopDies(w) \/ ProcessDies(w) PROVE FALSE
      BY <1>1, <2>4 DEF LoopDies, ProcessDies, Ended
    <2> QED BY <2>1, <2>2, <2>3, <2>4 DEF Next, HandlerReturns
  <1>3. CASE Submit(t)
    <2>1. /\ blocked = None /\ broker[BrokerOf[t]] = "up"
          /\ current = 0 \/ phase[current] # "open"
      BY <1>1, <1>3 DEF Submit, Accept
    <2>2. \A b \in Broker : broker[b] \notin {"starting", "stopping"}
      BY <1>1, <2>1 DEF CauseInv, BlockedInv
    <2> QED BY <1>1, <2>1, <2>2 DEF CauseInv, CurrentInv
  <1>4. CASE GetPool(t)
    <2>1. broker[BrokerOf[t]] \in {"up", "stopping"} /\ current = 0
      BY <1>1, <1>4 DEF GetPool
    <2> QED BY <1>1, <2>1 DEF CauseInv, CurrentInv
  <1>5. CASE SubmitGot(t)
    BY <1>1, <1>5 DEF CauseInv, GotInv, SubmitGot, Accept
  <1> QED BY <1>2, <1>3, <1>4, <1>5

-----------------------------------------------------------------------------
(* What holds in every behavior.                                             *)

\* The strengthened invariant holds in every state.
THEOREM Invariance == Spec => []IInv
  BY InitInv, NextInv, PTL DEF Spec

\* Every variable keeps its type: among others no process makes or uses a
\* loop that was not made, and no more pools exist than brokers.
THEOREM TypeCorrect == Spec => []TypeOK
  <1>1. IInv => TypeOK
    BY DEF IInv
  <1> QED BY <1>1, Invariance, PTL

\* Processes of at most one pool live at a time, for any number of brokers
\* and any size: init_cpu_pool and shutdown_cpu_pool wait for the old pool.
THEOREM OnePool == Spec => []OnePoolWorks
  <1>1. IInv => OnePoolWorks
    BY DEF IInv, PoolInv, OnePoolWorks
  <1> QED BY <1>1, Invariance, PTL

\* No sync body waits on the loop of the worker, whatever its process
\* inherited and ran before: get_or_create_background_loop registers the
\* process's own loop before each sync body.
THEOREM SyncLoop == Spec => []SyncOnOwnLoop
  <1>1. IInv => SyncOnOwnLoop
    <2> SUFFICES ASSUME IInv, NEW w \in Worker, proc[w].pc = "wait", Sync(TaskOf(w))
                 PROVE  proc[w].at \in Loop
      BY DEF SyncOnOwnLoop
    <2>1. proc[w] \in Process /\ BodyOK(proc[w])
      BY DEF IInv, TypeOK, BodyInv
    <2> QED BY <2>1 DEF BodyOK, Process, TaskOf
  <1> QED BY <1>1, Invariance, PTL

\* A task is refused only when a broker was shut down, a process died, or a
\* thread kept a pool that was replaced: while a startup waits for the old
\* pool, no other task can ask for it.
THEOREM RefusedOnlyForCause == Spec => RefusedForCause
  <1>1. IInv /\ CauseInv /\ [Next]_vars =>
          [\A t \in Task : task[t].st # "refused" /\ task'[t].st = "refused" =>
             \/ \E b \in Broker : broker[b] \in {"stopping", "stopped"}
             \/ \E p \in Pool : phase[p] = "broken"
             \/ Kind[t] = "direct" /\ phase[task[t].pool] # "open"]_vars
    BY RefusalStep
  <1>2. IInv /\ CauseInv /\ [Next]_vars => CauseInv'
    BY CauseStep
  <1> QED BY <1>1, <1>2, CauseInit, Invariance, PTL DEF Spec, RefusedForCause
=============================================================================
