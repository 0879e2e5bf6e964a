----------------------------- MODULE RequestScope ------------------------------
(* Django requests and dependency injection: the middlewares and the wrapped *)
(* view a request passes, the current request that is kept for the code      *)
(* under it, the singletons that see the user of that request, and the trace *)
(* id of its log records. Requests are handled by threads that are used      *)
(* again (WSGI) or as tasks of one event loop (ASGI), many at a time.        *)
EXTENDS Naturals, Sequences, FiniteSets

CONSTANTS Request,
          Thread,       \* threads of a WSGI server
          View,         \* views of the URL configuration
          Kind,         \* what a view is
          Urls,         \* views in the order process_resolver meets them
          Middlewares,  \* in the order of the settings
          None, Proxy

Kinds == {"function",    \* a function with type hints
          "class",       \* as_view() of a class with sync handlers
          "async"}       \* as_view() of a class with async handlers

ASSUME ViewAssumption == /\ Kind \in [View -> Kinds]
                         /\ Urls \in Seq(View)
ASSUME MiddlewareAssumption == Middlewares \in Seq({"log", "inject", "gate"})

\* Code that runs for a request: its handler, and a task or thread that the
\* view starts and does not wait for.
Main(r) == <<"main", r>>
Helper(r) == <<"helper", r>>
Actor == {Main(r) : r \in Request} \cup {Helper(r) : r \in Request}

\* A context of context variables: a thread of a WSGI server keeps one, a task
\* of an ASGI server has its own, and so has a helper.
Context == Thread \cup Actor

ASSUME ContextAssumption == Thread \cap Actor = {}
ASSUME NoneAssumption == /\ {None, Proxy} \cap (Request \cup Context \cup View) = {}
                         /\ None # Proxy

VARIABLES server,   \* kind of the server
          current,  \* _local.request in each context
          rq,       \* where each request is, and what was done for it
          service,  \* what a singleton got as its security context
          trace,    \* _rq_trace_id of each request
          filter,   \* the call of the log filter each actor is in
          past      \* history: log records, requests with overlapping calls

vars == <<server, current, rq, service, trace, filter, past>>

\* at is the context of the handler, next the middleware it is at, view where
\* the request is routed, given the request injected there, hooks what was
\* called in the view.
NewRequest == [pc |-> "new", at |-> None, next |-> 1, view |-> None,
               injected |-> FALSE, given |-> None, hooks |-> <<>>, answer |-> "none", helper |-> "none"]
Quiet == [busy |-> FALSE, req |-> None, id |-> None]

\* What was called in a view: the hook before it, with its outcome, the body
\* and the hook after it.
Call == {"passed", "answered", "raised", "body", "after"}

\* The n-th id that was generated for a request.
Id == Request \X Nat
Handling == [pc : {"new", "in", "view", "create", "body", "after", "out", "done"},
             at : Context \cup {None}, next : Nat, view : View \cup {None}, injected : BOOLEAN,
             given : Request \cup {None}, hooks : Seq(Call),
             answer : {"none", "early", "hook", "error", "ok"},
             helper : {"none", "copied", "bare"}]

ASSUME IdAssumption == None \notin Id

Record == [by : Request, injected : BOOLEAN, id : Id \cup {None}]

TypeOK == /\ server \in {"wsgi", "asgi"}
          /\ current \in [Context -> Request \cup {None}]
          /\ rq \in [Request -> Handling]
          /\ service \in Request \cup {None, Proxy}
          /\ trace \in [Request -> Id \cup {None}]
          /\ filter \in [Actor -> [busy : BOOLEAN, req : Request \cup {None},
                                   id : Id \cup {None}]]
          /\ past \in [records : SUBSET Record, raced : SUBSET Request]

Init == /\ server \in {"wsgi", "asgi"}
        /\ current = [c \in Context |-> None]
        /\ rq = [r \in Request |-> NewRequest]
        /\ service = None
        /\ trace = [r \in Request |-> None]
        /\ filter = [a \in Actor |-> Quiet]
        /\ past = [records |-> {}, raced |-> {}]

-----------------------------------------------------------------------------
(* What code sees in a context.                                              *)

\* injector.get(HttpRequest)
Sees(c) == current[c]

\* The provider of the security context makes it from the request it sees;
\* without one it raises (None).
Provided(c) == Sees(c)

\* The security context is a proxy: whoever keeps it asks the provider at
\* each access.
Principal(c) == IF service = Proxy THEN Provided(c) ELSE service

\* What is injected as the security context: the first view that needs the
\* singleton makes it.
MakesService_Resolved(c) ==
    service' = IF service = None THEN Provided(c) ELSE service
MakesService(c) ==
    service' = IF service = None THEN Proxy ELSE service

\* Injection with the request as a parameter.
Injects(r, to) == /\ rq' = [rq EXCEPT ![r] = [to EXCEPT !.given = Sees(to.at)]]
                  /\ MakesService(to.at)

-----------------------------------------------------------------------------
(* The filter of a log record: it reads the trace id of the request it sees, *)
(* and stores one if there is none. Calls by other threads come in between.  *)

BeginsFilter(a, c) ==
    LET q == Sees(c) IN
    /\ ~filter[a].busy
    /\ filter' = [filter EXCEPT ![a] =
                    [busy |-> TRUE, req |-> q, id |-> IF q = None THEN None ELSE trace[q]]]
    /\ past' = [past EXCEPT !.raced =
                  @ \cup {p \in {q} \cap Request : \E b \in Actor : filter[b].req = p}]

\* A new pair of uuids. (The id of a header is the same each time.)
Generated(q) ==
    LET ids == {rec.id : rec \in past.records}
    IN  <<q, 1 + Cardinality({id \in ids \ {None} : id[1] = q})>>

IsInjected(a) == IF a[1] = "main" THEN rq[a[2]].injected
                 ELSE rq[a[2]].helper = "copied"

Written(a, id) ==
    /\ filter' = [filter EXCEPT ![a] = Quiet]
    /\ past' = [past EXCEPT !.records =
                  @ \cup {[by |-> a[2], injected |-> IsInjected(a), id |-> id]}]

EndFilter_NotStored(a) ==
    /\ filter[a].busy
    /\ LET f == filter[a] IN
         Written(a, IF f.req # None /\ f.id = None THEN Generated(f.req) ELSE f.id)
    /\ UNCHANGED <<server, current, rq, service, trace>>
EndFilter(a) ==
    /\ filter[a].busy
    /\ LET f == filter[a]
           fresh == f.req # None /\ f.id = None
           id == IF fresh THEN Generated(f.req) ELSE f.id
       IN  /\ Written(a, id)
           /\ trace' = IF fresh THEN [trace EXCEPT ![f.req] = id] ELSE trace
    /\ UNCHANGED <<server, current, rq, service>>

-----------------------------------------------------------------------------
(* The middlewares.                                                          *)

At(r, pc) == rq[r].pc = pc /\ ~filter[Main(r)].busy
Goes(r, to) == rq' = [rq EXCEPT ![r] = to]

Free(t) == \A r \in Request : rq[r].at # t

\* A thread comes with what its last request has left in its context.
Arrive(r) ==
    /\ At(r, "new")
    /\ \E c \in IF server = "wsgi" THEN {t \in Thread : Free(t)} ELSE {Main(r)} :
       \E v \in View : Goes(r, [rq[r] EXCEPT !.pc = "in", !.at = c, !.view = v])
    /\ UNCHANGED <<server, current, service, trace, filter, past>>

AtMiddleware(r, pc, m) ==
    /\ At(r, pc) /\ rq[r].next \in DOMAIN Middlewares
    /\ Middlewares[rq[r].next] = m

Deeper(r) == [rq[r] EXCEPT !.next = @ + 1]
Outer(r) == [rq[r] EXCEPT !.next = @ - 1]

\* The last middleware before a response turns back, or the view is done.
TurnsBack(r, to, answer) ==
    Goes(r, [to EXCEPT !.pc = "out", !.answer = answer])

SetRequest(c, r) == current' = [current EXCEPT ![c] = r]

InjectRequest(r) ==
    /\ AtMiddleware(r, "in", "inject")
    /\ SetRequest(rq[r].at, r)
    /\ Goes(r, [Deeper(r) EXCEPT !.injected = TRUE])
    /\ UNCHANGED <<server, service, trace, filter, past>>

\* process_request of a universal middleware: it may answer, or raise, and
\* then process_response is not called.
ProcessRequest(r) ==
    /\ AtMiddleware(r, "in", "gate")
    /\ Goes(r, Deeper(r)) \/ TurnsBack(r, Outer(r), "early")
    /\ UNCHANGED <<server, current, service, trace, filter, past>>

ProcessResponse(r) ==
    /\ AtMiddleware(r, "out", "gate") \/ AtMiddleware(r, "out", "inject")
    /\ Goes(r, Outer(r))
    /\ UNCHANGED <<server, current, service, trace, filter, past>>

\* RequestLoggingMiddleware, on the way in and on the way out.
LogReceived(r) ==
    /\ AtMiddleware(r, "in", "log")
    /\ BeginsFilter(Main(r), rq[r].at)
    /\ Goes(r, Deeper(r))
    /\ UNCHANGED <<server, current, service, trace>>

LogResponse(r) ==
    /\ AtMiddleware(r, "out", "log")
    /\ BeginsFilter(Main(r), rq[r].at)
    /\ Goes(r, Outer(r))
    /\ UNCHANGED <<server, current, service, trace>>

\* Only a helper is left of a request that was answered.
Answered(r) ==
    /\ At(r, "out") /\ rq[r].next = 0
    /\ Goes(r, [NewRequest EXCEPT !.pc = "done", !.helper = rq[r].helper])
    /\ UNCHANGED <<server, current, service, trace, filter, past>>

-----------------------------------------------------------------------------
(* The wrapped view.                                                         *)

KindOf(r) == Kind[rq[r].view]

\* process_resolver wraps the callback of a pattern each time it meets it; the
\* hooks are looked for on what it found there. Functions have none.
Wraps(v) == Cardinality({i \in DOMAIN Urls : Urls[i] = v})
HasHooks(r) == KindOf(r) # "function" /\ Wraps(rq[r].view) = 1

Called(r, what) == [rq[r] EXCEPT !.hooks = Append(@, what)]
TopOf(to) == [to EXCEPT !.next = Len(Middlewares)]

EnterView(r) ==
    /\ At(r, "in") /\ rq[r].next > Len(Middlewares)
    /\ Goes(r, [rq[r] EXCEPT !.pc = IF HasHooks(r) THEN "view" ELSE "create"])
    /\ UNCHANGED <<server, current, service, trace, filter, past>>

\* The hook lets the request pass, answers it or raises; nobody can await the
\* answer in the place of an async view.
BeforeHook_NotReturned(r) ==
    /\ At(r, "view")
    /\ \/ Goes(r, [Called(r, "passed") EXCEPT !.pc = "create"])
       \/ Goes(r, [Called(r, "answered") EXCEPT !.pc = "create", !.answer = "hook"])
       \/ TurnsBack(r, TopOf(Called(r, "raised")), "error")
    /\ UNCHANGED <<server, current, service, trace, filter, past>>
BeforeHook(r) ==
    /\ At(r, "view")
    /\ \/ Goes(r, [Called(r, "passed") EXCEPT !.pc = "create"])
       \/ TurnsBack(r, TopOf(Called(r, "answered")),
                    IF KindOf(r) = "class" THEN "hook" ELSE "error")
       \/ TurnsBack(r, TopOf(Called(r, "raised")), "error")
    /\ UNCHANGED <<server, current, service, trace, filter, past>>

\* The arguments of a function are resolved and it is called.
CallFunction(r) ==
    /\ At(r, "create") /\ KindOf(r) = "function"
    /\ \/ Injects(r, [rq[r] EXCEPT !.pc = "body"])
       \/ TurnsBack(r, TopOf(rq[r]), "error") /\ UNCHANGED service
    /\ UNCHANGED <<server, current, trace, filter, past>>

\* The view object is made and set up. An async view returns a coroutine: its
\* body is run later.
CreateView(r) ==
    /\ At(r, "create") /\ KindOf(r) # "function"
    /\ \/ Injects(r, [rq[r] EXCEPT !.pc = IF KindOf(r) = "async" THEN "after" ELSE "body"])
       \/ TurnsBack(r, TopOf(rq[r]), "error") /\ UNCHANGED service
    /\ UNCHANGED <<server, current, trace, filter, past>>

LogInBody(r) ==
    /\ At(r, "body")
    /\ BeginsFilter(Main(r), rq[r].at)
    /\ UNCHANGED <<server, current, rq, service, trace>>

\* A task or a thread with a copy of the context, or a thread without.
StartHelper(r) ==
    /\ At(r, "body") /\ rq[r].helper = "none"
    /\ \E how \in {"copied", "bare"} :
         /\ Goes(r, [rq[r] EXCEPT !.helper = how])
         /\ current' = [current EXCEPT ![Helper(r)] =
                          IF how = "copied" THEN Sees(rq[r].at) ELSE None]
    /\ UNCHANGED <<server, service, trace, filter, past>>

LogInHelper(r) ==
    /\ rq[r].helper # "none"
    /\ BeginsFilter(Helper(r), Helper(r))
    /\ UNCHANGED <<server, current, rq, service, trace>>

\* The response of an async view has passed its hook as a coroutine.
EndBody(r) ==
    /\ At(r, "body")
    /\ LET to == Called(r, "body") IN
         \/ TurnsBack(r, TopOf(to), "error")
         \/ IF KindOf(r) = "class" THEN Goes(r, [to EXCEPT !.pc = "after"])
            ELSE TurnsBack(r, TopOf(to), "ok")
    /\ UNCHANGED <<server, current, service, trace, filter, past>>

AfterHook(r) ==
    /\ At(r, "after")
    /\ LET to == IF HasHooks(r) THEN Called(r, "after") ELSE rq[r] IN
         \/ HasHooks(r) /\ TurnsBack(r, TopOf(to), "error")
         \/ IF KindOf(r) = "async" THEN Goes(r, [to EXCEPT !.pc = "body"])
            ELSE TurnsBack(r, TopOf(to), "ok")
    /\ UNCHANGED <<server, current, service, trace, filter, past>>

-----------------------------------------------------------------------------
Next == \/ \E r \in Request :
             \/ Arrive(r) \/ InjectRequest(r) \/ ProcessRequest(r) \/ ProcessResponse(r)
             \/ LogReceived(r) \/ LogResponse(r) \/ Answered(r)
             \/ EnterView(r) \/ BeforeHook(r) \/ CallFunction(r) \/ CreateView(r) \/ LogInBody(r)
             \/ StartHelper(r) \/ LogInHelper(r) \/ EndBody(r) \/ AfterHook(r)
        \/ \E a \in Actor : EndFilter(a)

Spec == Init /\ [][Next]_vars

-----------------------------------------------------------------------------
(* Properties                                                                *)

Active(r) == rq[r].pc \notin {"new", "done"}

\* From InjectRequestMiddleware on, all code that handles a request sees that
\* request and, through a singleton that another request may have made, its
\* user; a helper sees no other request either, also when the thread that
\* started it has gone on to the next one; and what a thread still shows of an
\* earlier request is never one that is handled elsewhere (set_request,
\* get_request, register_security_context).
OwnRequest ==
    \A r \in Request :
        /\ Active(r) /\ rq[r].injected =>
             Sees(rq[r].at) = r /\ (service # None => Principal(rq[r].at) = r)
        /\ rq[r].given \in {r, None}
        /\ Sees(Helper(r)) \in {r, None}
        /\ \A t \in Thread : Active(r) /\ Sees(t) = r => rq[r].at = t

\* The records that code under InjectRequestMiddleware logs carry a trace id
\* of their own request, and always the same one, unless two calls of the
\* filter for that request overlap: nothing locks its check and its store
\* (TraceIdFromRequestLoggingFilter.filter).
OneTrace ==
    /\ \A rec \in past.records :
         rec.injected => rec.id # None /\ rec.id[1] = rec.by
    /\ \A rec, other \in past.records :
         rec.id # None /\ other.id # None /\ rec.id[1] = other.id[1]
           => rec.id = other.id \/ rec.id[1] \in past.raced

\* What was called for request r in the order of the calls, if its view is a
\* class view with hooks that process_resolver found.
Hooked(r) == rq[r].view # None /\ HasHooks(r)
Ran(r, what) == \E i \in DOMAIN rq[r].hooks : rq[r].hooks[i] = what

\* The body of a class view with a hook before it runs, sync or async, only
\* after that hook has let the request pass, and a sync one that is answered
\* without an error had the body and the hook after it called, each once and
\* in this order (view in __wrap_class_based_view). What the docstrings of the
\* hooks promise beyond this is stated below, and does not hold.
HooksRun ==
    \A r \in Request : Hooked(r) =>
        /\ Ran(r, "body") => rq[r].hooks[1] = "passed"
        /\ KindOf(r) = "class" /\ rq[r].answer = "ok" =>
             rq[r].hooks = <<"passed", "body", "after">>

\* "HttpResponse (meaning which means the execution must stop and the generated
\* response must be returned)": an answer of the hook before a view is the
\* response. The answer is returned in the place of the coroutine that is
\* awaited for an async view (_get_before_request_hook).
HookAnswerIsResponse ==
    \A r \in Request : Hooked(r) =>
        (Ran(r, "answered") /\ rq[r].pc = "out" => rq[r].answer = "hook")

\* "response generated by view or before_request_hook" is what the other hook
\* gets: no answer of the view or of the first hook goes by it. The answer of
\* the first hook is returned at once (_get_after_request_hook).
AnswersPassAfterHook ==
    \A r \in Request : Hooked(r) =>
        (rq[r].pc = "out" /\ rq[r].answer \in {"hook", "ok"} => Ran(r, "after"))

\* "It will be invoked after view logic": the hook after a view comes after its
\* body. Of an async view it gets the coroutine, before the body has run
\* (_get_after_request_hook).
AfterHookIsAfter ==
    \A r \in Request : Hooked(r) => (Ran(r, "after") => Ran(r, "body"))
=============================================================================
