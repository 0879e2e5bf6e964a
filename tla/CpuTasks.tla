------------------------------- MODULE CpuTasks -------------------------------
(* CPU-bound tasks of one worker process: the process pool that the brokers  *)
(* of the worker share, the tasks that are handed to it and what happens to  *)
(* a task inside a process of the pool, where its body is run and where sync *)
(* code reaches async resources through a loop of another thread.            *)
EXTENDS Naturals, FiniteSets

CONSTANTS Broker,       \* brokers given to setup_cpu_pool_on_broker
          Task,         \* tasks, each run at most once
          BrokerOf,     \* the broker a task comes from
          Kind,         \* what run_cpu_bound of the task is and does
          PoolSize,     \* processes of a pool
          MaxLoops,     \* bound: background loops made by one process
          MaxDeaths,    \* bound: processes and loops that die
          MaxCalls,     \* bound: awaits of an async resource by one task
          Parent,       \* the event loop of the worker, seen from a process
          None

Kinds == {"compute",      \* def, uses no async resource
          "bridge",       \* def, reports with run_coroutine_in_running_loop
          "async",        \* async def, reports on its own loop and has sync
                          \* code in a helper thread
          "direct"}       \* a function that a thread gives to get_cpu_pool()

ASSUME CpuAssumption == /\ IsFiniteSet(Broker)
                        /\ BrokerOf \in [Task -> Broker]
                        /\ Kind \in [Task -> Kinds]
                        /\ PoolSize \in Nat \ {0}
                        /\ {MaxLoops, MaxCalls, MaxDeaths} \subseteq Nat
                        /\ None \notin Broker \cup Task

Pool == 1..Cardinality(Broker)   \* every startup makes at most one
Slot == 1..PoolSize
Worker == Pool \X Slot           \* the processes of the pools

\* Event loops a body can wait on: the background loops of the process (the
\* n-th one made), the loop of asyncio.run for a task, the loop of the parent.
Loop == {<<"bg", n>> : n \in 1..MaxLoops} \cup {<<"run", t>> : t \in Task}

ASSUME LoopAssumption == /\ {Parent, None} \cap Loop = {}
                         /\ {Parent, None} \cap {"own"} = {}
                         /\ Parent # None

VARIABLES method,   \* start method of the processes
          broker,   \* state of each broker
          known,    \* did the worker register its loop when it started?
          blocked,  \* the broker whose handler blocks the event loop, or None
          current,  \* _pool: the number of the pool, 0 for None
          phase,    \* state of each pool
          task,     \* state of each task and its pool
          proc,     \* state of each process
          deaths    \* processes and loops that have died

vars == <<method, broker, known, blocked, current, phase, task, proc, deaths>>

Sync(t) == Kind[t] \in {"compute", "bridge"}

\* A process without a task. wl is its _asyncio_worker_loop, bg and made its
\* background loop, lost whether one died, at the loop its body waits on and
\* uses what it awaits there, backend and layer the loops on which the result
\* backend of the task and the resources that are shared by the tasks of the
\* process were first used.
NewProc(live, wl) == [live |-> live, wl |-> wl, bg |-> "none", made |-> 0, lost |-> FALSE,
                      task |-> None, pc |-> "idle", at |-> None, uses |-> "none", calls |-> 0,
                      backend |-> None, layer |-> None]
NoProc == NewProc(FALSE, None)

Ended == [st |-> "ended", pool |-> 0]
Refused == [st |-> "refused", pool |-> 0]

Process == [live : BOOLEAN, wl : {None, Parent, "own"},
            bg : {"none", "live", "dead"}, made : 0..MaxLoops,
            lost : BOOLEAN, task : Task \cup {None}, pc : {"idle", "body", "wait"},
            at : Loop \cup {None, Parent}, uses : {"none", "backend", "layer"}, calls : 0..MaxCalls,
            backend : Loop \cup {None}, layer : Loop \cup {None}]

TypeOK ==
    /\ method \in {"fork", "spawn"}
    /\ broker \in [Broker -> {"down", "starting", "up", "stopping", "stopped"}]
    /\ known \in BOOLEAN
    /\ blocked \in Broker \cup {None}
    /\ current \in Pool \cup {0}
    /\ phase \in [Pool -> {"none", "open", "closing", "broken", "closed"}]
    /\ task \in [Task ->
         [st : {"posted", "got", "queued", "running", "ended", "refused"},
          pool : Pool \cup {0}]]
    /\ proc \in [Worker -> Process]
    /\ deaths \in 0..MaxDeaths

Init == /\ method \in {"fork", "spawn"}
        /\ broker = [b \in Broker |-> "down"]
        /\ known \in BOOLEAN
        /\ method = "spawn" => ~known   \* a spawned process never sees it
        /\ blocked = None
        /\ current = 0
        /\ phase = [p \in Pool |-> "none"]
        /\ task = [t \in Task |-> [st |-> "posted", pool |-> 0]]
        /\ proc = [w \in Worker |-> NoProc]
        /\ deaths = 0

-----------------------------------------------------------------------------
(* The handlers of the brokers. They are coroutines that do not await: while *)
(* shutdown(wait=True) waits for the pool, nothing else runs on the loop.    *)

On(p, sts) == {t \in Task : task[t].pool = p /\ task[t].st \in sts}

Drained_AllTasks(p) ==
    \A t \in Task : task[t].st \in {"ended", "refused"}
Drained(p) == On(p, {"queued", "running"}) = {}

\* Pools are numbered in the order they are made.
NextPool == Cardinality({p \in Pool : phase[p] # "none"}) + 1

MakePool(b, phases) == /\ NextPool \in Pool
                       /\ current' = NextPool
                       /\ phase' = [phases EXCEPT ![NextPool] = "open"]
                       /\ broker' = [broker EXCEPT ![b] = "up"]
                       /\ blocked' = None

Exited(p) == [w \in Worker |-> IF w[1] = p THEN NoProc ELSE proc[w]]

BeginClose(b, st) == /\ phase' = [phase EXCEPT ![current] = "closing"]
                     /\ broker' = [broker EXCEPT ![b] = st]
                     /\ blocked' = b
                     /\ UNCHANGED <<current, proc>>

Startup_NoWait(b) ==
    /\ blocked = None /\ broker[b] = "down"
    /\ MakePool(b, IF current = 0 THEN phase
                   ELSE [phase EXCEPT ![current] = "closing"])
    /\ UNCHANGED <<method, known, task, proc, deaths>>
Startup(b) ==
    /\ blocked = None /\ broker[b] = "down"
    /\ \/ current = 0 /\ MakePool(b, phase) /\ UNCHANGED proc
       \/ current # 0 /\ BeginClose(b, "starting")
    /\ UNCHANGED <<method, known, task, deaths>>

FinishInit_NotStored(b) ==
    /\ broker[b] = "starting" /\ Drained(current)
    /\ NextPool \in Pool
    /\ phase' = [phase EXCEPT ![current] = "closed", ![NextPool] = "open"]
    /\ broker' = [broker EXCEPT ![b] = "up"]
    /\ blocked' = None
    /\ proc' = Exited(current)
    /\ UNCHANGED <<method, known, current, task, deaths>>
FinishInit(b) ==
    /\ broker[b] = "starting" /\ Drained(current)
    /\ MakePool(b, [phase EXCEPT ![current] = "closed"])
    /\ proc' = Exited(current)
    /\ UNCHANGED <<method, known, task, deaths>>

Shutdown(b) ==
    /\ blocked = None /\ broker[b] = "up"
    /\ \/ /\ current = 0
          /\ broker' = [broker EXCEPT ![b] = "stopped"]
          /\ UNCHANGED <<blocked, current, phase, proc>>
       \/ current # 0 /\ BeginClose(b, "stopping")
    /\ UNCHANGED <<method, known, task, deaths>>

FinishShutdown(b) ==
    /\ broker[b] = "stopping" /\ Drained(current)
    /\ broker' = [broker EXCEPT ![b] = "stopped"]
    /\ blocked' = None
    /\ current' = 0
    /\ phase' = [phase EXCEPT ![current] = "closed"]
    /\ proc' = Exited(current)
    /\ UNCHANGED <<method, known, task, deaths>>

-----------------------------------------------------------------------------
(* Handing a task to the pool.                                               *)

LiveOf(p) == {s \in Slot : proc[<<p, s>>].live}
IdleOf(p) == {s \in LiveOf(p) : proc[<<p, s>>].pc = "idle"}

\* The executor forks all its processes at its first task; with "spawn" it
\* starts one when a task finds none idle and the pool is not at its size. A
\* forked process inherits the registered loop of the worker, whose copy says
\* that it is running although no thread of the process runs it.
Launched(p) ==
    LET slots == IF method = "fork"
                 THEN IF LiveOf(p) = {} THEN Slot ELSE {}
                 ELSE IF Cardinality(IdleOf(p)) <= Cardinality(On(p, {"queued"}))
                      THEN Slot \cap {Cardinality(LiveOf(p)) + 1} ELSE {}
        wl == IF method = "fork" /\ known THEN Parent ELSE None
    IN  [w \in Worker |-> IF w[1] = p /\ w[2] \in slots
                          THEN NewProc(TRUE, wl) ELSE proc[w]]

\* submit: a pool that is shut down or broken raises, as get_cpu_pool does
\* when there is none.
Accept(t, p) ==
    IF p # 0 /\ phase[p] = "open"
    THEN /\ task' = [task EXCEPT ![t] = [st |-> "queued", pool |-> p]]
         /\ proc' = Launched(p)
    ELSE /\ task' = [task EXCEPT ![t] = Refused]
         /\ UNCHANGED proc

\* run of a task, on the event loop: nothing comes between the two calls.
Submit(t) ==
    /\ Kind[t] # "direct" /\ task[t].st = "posted"
    /\ blocked = None /\ broker[BrokerOf[t]] = "up"
    /\ Accept(t, current)
    /\ UNCHANGED <<method, broker, known, blocked, current, phase, deaths>>

\* The same two calls by a thread, between which the loop runs handlers.
GetPool(t) ==
    /\ Kind[t] = "direct" /\ task[t].st = "posted"
    /\ broker[BrokerOf[t]] \in {"up", "stopping"}
    /\ task' = [task EXCEPT ![t] =
                  [st |-> IF current = 0 THEN "refused" ELSE "got",
                   pool |-> current]]
    /\ UNCHANGED <<method, broker, known, blocked, current, phase, proc, deaths>>

SubmitGot(t) ==
    /\ task[t].st = "got"
    /\ Accept(t, task[t].pool)
    /\ UNCHANGED <<method, broker, known, blocked, current, phase, deaths>>

-----------------------------------------------------------------------------
(* A task in a process of the pool: _run_cpu_bound_in_process.               *)

TaskOf(w) == proc[w].task

\* The task ends, with a result or an exception, and with it its context and
\* its result backend.
Ends_KeepsBackend(w) ==
    /\ task' = [task EXCEPT ![TaskOf(w)] = Ended]
    /\ proc' = [proc EXCEPT ![w] = [@ EXCEPT !.task = None, !.pc = "idle",
                                             !.at = None, !.calls = 0]]
Ends(w) ==
    /\ task' = [task EXCEPT ![TaskOf(w)] = Ended]
    /\ proc' = [proc EXCEPT ![w] = [@ EXCEPT !.task = None, !.pc = "idle",
                                             !.at = None, !.calls = 0,
                                             !.backend = None]]

Goes(w, to) == proc' = [proc EXCEPT ![w] = to] /\ UNCHANGED task

\* A process takes a task; the context of the task is made by the factory and
\* its backend is not started yet.
Takes(w, t) == /\ proc[w].live /\ proc[w].pc = "idle"
               /\ t \in On(w[1], {"queued"})

Begins(w, t, p) == /\ task' = [task EXCEPT ![t].st = "running"]
                   /\ proc' = [proc EXCEPT ![w] = [p EXCEPT !.task = t, !.pc = "body"]]

TakeAsync(w) == \E t \in Task : Takes(w, t) /\ ~Sync(t) /\ Begins(w, t, proc[w])

\* A sync body gets the background loop of the process, made when there is
\* none or its thread is gone, and registered in the place of any other.
NewLoop(w) == [proc[w] EXCEPT !.bg = "live", !.made = @ + 1]

TakeSync_IfNotSet(w) ==
    /\ proc[w].bg = "live" \/ proc[w].made < MaxLoops
    /\ LET p == IF proc[w].bg = "live" THEN proc[w] ELSE NewLoop(w)
       IN  \E t \in Task : /\ Takes(w, t) /\ Sync(t)
                           /\ Begins(w, t, [p EXCEPT !.wl = IF @ = None THEN "own" ELSE @])
TakeSync(w) ==
    /\ proc[w].bg = "live" \/ proc[w].made < MaxLoops
    /\ LET p == IF proc[w].bg = "live" THEN proc[w] ELSE NewLoop(w)
       IN  \E t \in Task : /\ Takes(w, t) /\ Sync(t)
                           /\ Begins(w, t, [p EXCEPT !.wl = "own"])

\* The thread of a new loop is not ready within five seconds.
LoopFails(w) ==
    /\ proc[w].bg # "live"
    /\ \E t \in Task : /\ Takes(w, t) /\ Sync(t)
                       /\ task' = [task EXCEPT ![t] = Ended]
    /\ UNCHANGED proc

WaitsOn(w, l, r) == Goes(w, [proc[w] EXCEPT !.pc = "wait", !.at = l, !.uses = r])

\* A body reports to the result backend of its task or uses a resource that
\* the tasks of its process share.
Resource == {"backend", "layer"}

\* Sync code awaits through run_coroutine_in_running_loop. The loop that is
\* registered is taken when it says that it runs; code in a thread that runs
\* no loop has no other choice. The helper thread of an async body uses no
\* resource.
CallsBridge(w) ==
    /\ proc[w].pc = "body" /\ proc[w].calls < MaxCalls
    /\ Kind[TaskOf(w)] \in {"bridge", "async"}

Bridge(w) ==
    /\ CallsBridge(w)
    /\ \E r \in IF Kind[TaskOf(w)] = "bridge" THEN Resource ELSE {"none"} :
         \/ proc[w].wl = Parent /\ WaitsOn(w, Parent, r)
         \/ /\ proc[w].wl = "own" /\ proc[w].bg = "live"
            /\ WaitsOn(w, <<"bg", proc[w].made>>, r)

NoLoopFound(w) ==
    /\ CallsBridge(w)
    /\ proc[w].wl = None \/ (proc[w].wl = "own" /\ proc[w].bg = "dead")
    /\ Ends(w)

\* An async body awaits on the loop of asyncio.run, which is made for it.
Await(w) ==
    /\ proc[w].pc = "body" /\ proc[w].calls < MaxCalls
    /\ Kind[TaskOf(w)] = "async"
    /\ \E r \in Resource : WaitsOn(w, <<"run", TaskOf(w)>>, r)

\* The loop answers when it runs in this process. A resource that was first
\* used on another loop never does: its connections belong to that loop, which
\* may be closed.
Alive(w, l) == \/ l[1] = "run"
               \/ proc[w].bg = "live" /\ l = <<"bg", proc[w].made>>

Answer(w) ==
    /\ proc[w].pc = "wait" /\ proc[w].at # Parent
    /\ Alive(w, proc[w].at)
    /\ LET l == proc[w].at
           back == [proc[w] EXCEPT !.pc = "body", !.at = None, !.uses = "none",
                                   !.calls = @ + 1]
       IN  \/ proc[w].uses = "none" /\ Goes(w, back)
           \/ /\ proc[w].uses = "backend" /\ proc[w].backend \in {None, l}
              /\ Goes(w, [back EXCEPT !.backend = l])
           \/ /\ proc[w].uses = "layer" /\ proc[w].layer \in {None, l}
              /\ Goes(w, [back EXCEPT !.layer = l])

\* The body returns or raises; what it raises is logged and raised again.
Finish(w) == proc[w].pc = "body" /\ Ends(w)

ProcessStep(w) ==
    /\ TakeAsync(w) \/ TakeSync(w) \/ LoopFails(w) \/ Bridge(w)
       \/ NoLoopFound(w) \/ Await(w) \/ Answer(w) \/ Finish(w)
    /\ UNCHANGED <<method, broker, known, blocked, current, phase, deaths>>

\* The thread of a background loop ends.
LoopDies(w) ==
    /\ proc[w].bg = "live" /\ deaths < MaxDeaths
    /\ deaths' = deaths + 1
    /\ proc' = [proc EXCEPT ![w].bg = "dead", ![w].lost = TRUE]
    /\ UNCHANGED <<method, broker, known, blocked, current, phase, task>>

\* A process dies: the executor is broken, ends its other processes and fails
\* what it accepted. _pool is not replaced.
ProcessDies(w) ==
    /\ proc[w].live /\ deaths < MaxDeaths
    /\ deaths' = deaths + 1
    /\ phase' = [phase EXCEPT ![w[1]] = IF @ = "open" THEN "broken" ELSE @]
    /\ task' = [t \in Task |-> IF t \in On(w[1], {"queued", "running"})
                               THEN Ended ELSE task[t]]
    /\ proc' = Exited(w[1])
    /\ UNCHANGED <<method, broker, known, blocked, current>>

HandlerReturns == \E b \in Broker : FinishInit(b) \/ FinishShutdown(b)

Next == \/ \E b \in Broker : Startup(b) \/ Shutdown(b)
        \/ HandlerReturns
        \/ \E t \in Task : Submit(t) \/ GetPool(t) \/ SubmitGot(t)
        \/ \E w \in Worker : ProcessStep(w) \/ LoopDies(w) \/ ProcessDies(w)

Spec == Init /\ [][Next]_vars

\* Processes and blocked handlers go on, no one of them in particular: each
\* step ends something, so that none is passed over for ever. Nobody has to
\* start or stop a broker or post a task, and nothing has to die.
FairSpec == Spec /\ WF_vars(HandlerReturns \/ \E w \in Worker : ProcessStep(w))

-----------------------------------------------------------------------------
(* Properties                                                                *)

\* At most one pool has processes: a pool that is replaced ends all it has
\* accepted before the next one exists, so that no more than PoolSize bodies
\* compute at a time (init_cpu_pool, shutdown(wait=True)).
OnePoolWorks ==
    \A w, v \in Worker : proc[w].live /\ proc[v].live => w[1] = v[1]

\* A sync body never waits on the loop of the worker: whatever its process
\* has inherited at the fork and run before, what it waits on is a background
\* loop of the process (_run_cpu_bound_in_process).
SyncOnOwnLoop ==
    \A w \in Worker : proc[w].pc = "wait" /\ Sync(TaskOf(w)) => proc[w].at \in Loop

\* A task is refused only when the pool was taken from under it: a broker of
\* the worker was shut down, a process died, or a thread kept a pool while the
\* startup of another broker replaced it (get_cpu_pool and submit).
RefusedForCause ==
    [][\A t \in Task : task[t].st # "refused" /\ task'[t].st = "refused" =>
         \/ \E b \in Broker : broker[b] \in {"stopping", "stopped"}
         \/ \E p \in Pool : phase[p] = "broken"
         \/ Kind[t] = "direct" /\ phase[task[t].pool] # "open"]_vars

\* Does the body of w await a shared resource that belongs to another loop?
Dangling(w) == /\ proc[w].pc = "wait" /\ proc[w].uses = "layer"
               /\ proc[w].layer \notin {None, proc[w].at}

\* What the background loop is there for: the resources that tasks share stay
\* usable for every task of a process, as long as none of its loops dies
\* (_get_process_background_loop). An async body takes its own loop instead.
NothingDangles == \A w \in Worker : ~proc[w].lost => ~Dangling(w)

\* A body that waits for ever: for the copy of the worker's loop, because a
\* background loop died under it or under what it shares with other tasks, or
\* because it shares a resource with an async body, which used it or uses it
\* on the loop of its asyncio.run.
Stuck(w) == /\ proc[w].pc = "wait"
            /\ \/ proc[w].at = Parent /\ Kind[TaskOf(w)] = "async"
               \/ proc[w].lost
               \/ /\ Dangling(w)
                  /\ \E t \in Task : <<"run", t>> \in {proc[w].at, proc[w].layer}

\* What the pools have accepted comes to its end, unless a body is stuck.
AcceptedEnds ==
    (\E p \in Pool : ~Drained(p))
        ~> (\A p \in Pool : Drained(p)) \/ \E w \in Worker : Stuck(w)

\* A handler that blocks the event loop of the worker returns, unless a body
\* is stuck.
HandlersReturn ==
    blocked # None
        ~> blocked = None \/ \E w \in Worker : Stuck(w)
=============================================================================
