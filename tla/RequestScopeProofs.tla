-------------------------- MODULE RequestScopeProofs --------------------------
(* Proofs about RequestScope, for any requests, threads, views, URLs and     *)
(* order of the middlewares: code behind InjectRequestMiddleware sees its    *)
(* own request and user, nothing sees a request handled elsewhere, the hooks *)
(* of a class view are called in their places, and a request whose code logs *)
(* one call after the other has one trace id.                                *)
EXTENDS RequestScope, SequenceTheorems, FiniteSetTheorems, TLAPS

\* InjectRequestMiddleware is one of the middlewares.
Deployed == \E i \in DOMAIN Middlewares : Middlewares[i] = "inject"

InView == {"view", "create", "body", "after"}
Over == {"new", "done"}

\* No InjectRequestMiddleware is behind a request that is at the n-th one.
NotYet(n) == \A i \in DOMAIN Middlewares : Middlewares[i] = "inject" => n <= i

\* Handling x of request r. Nothing but the middleware has to be passed.
HandlerInv(r, x) ==
    /\ x.at \in Thread \cup {Main(r), None}
    /\ IF x.pc \in Over THEN x.at = None /\ ~x.injected ELSE x.at # None
    /\ x.pc \in InView => x.injected
    /\ x.pc \in {"new", "in"} => x.injected \/ NotYet(x.next)
    /\ x.given \in {r, None}

\* Where the contexts show request r.
ContextInv(r, x, cur) ==
    /\ x.injected => cur[x.at] = r
    /\ cur[Helper(r)] \in {r, None}
    /\ \A t \in Thread : cur[t] = r => x.pc # "new" /\ (x.pc # "done" => x.at = t)

\* A thread handles one request at a time.
Apart == \A r, s \in Request :
           rq[r].at \in Thread /\ rq[r].at = rq[s].at => r = s

Typed == /\ current \in [Context -> Request \cup {None}]
         /\ rq \in [Request -> Handling]
         /\ service \in {None, Proxy}

IInv == /\ Typed
        /\ Apart
        /\ \A r \in Request : HandlerInv(r, rq[r]) /\ ContextInv(r, rq[r], current)

-----------------------------------------------------------------------------
(* Contexts are told apart, and the middlewares are counted from one.        *)

LEMMA Contexts ==
    ASSUME NEW r \in Request, NEW s \in Request
    PROVE  /\ Main(r) \in Context /\ Helper(r) \in Context
           /\ Main(r) \notin Thread /\ Helper(r) \notin Thread
           /\ Main(r) # Helper(s) /\ Main(r) # None
           /\ Main(r) = Main(s) => r = s
           /\ Helper(r) = Helper(s) => r = s
  <1>1. Main(r) \in Actor /\ Helper(r) \in Actor
    BY DEF Actor
  <1>2. Main(r) \in Context /\ Helper(r) \in Context
    BY <1>1 DEF Context
  <1>3. Main(r) # None
    BY <1>2, NoneAssumption
  <1>4. Main(r) # Helper(s) /\ (Main(r) = Main(s) => r = s)
        /\ (Helper(r) = Helper(s) => r = s)
    BY DEF Main, Helper
  <1> QED BY <1>1, <1>2, <1>3, <1>4, ContextAssumption

LEMMA Nobody == None \notin Request /\ None \notin Thread /\ None # Proxy /\ Proxy \notin Request
  BY NoneAssumption DEF Context

LEMMA Chain == /\ Len(Middlewares) \in Nat
               /\ DOMAIN Middlewares = 1..Len(Middlewares)
  BY MiddlewareAssumption

-----------------------------------------------------------------------------
(* The initial states.                                                       *)

LEMMA NewType == NewRequest \in Handling
  BY DEF NewRequest, Handling

LEMMA InitInv == Init => IInv
  <1> SUFFICES ASSUME Init PROVE IInv
    OBVIOUS
  <1>1. Typed
    BY NewType DEF Init, Typed
  <1>2. Apart
    BY Nobody DEF Init, Apart, NewRequest
  <1>3. ASSUME NEW r \in Request
        PROVE  HandlerInv(r, rq[r]) /\ ContextInv(r, rq[r], current)
    <2>1. HandlerInv(r, rq[r])
      BY Chain DEF Init, NewRequest, HandlerInv, Over, InView, NotYet
    <2>2. ContextInv(r, rq[r], current)
      BY Contexts, Nobody DEF Init, NewRequest, ContextInv, Context
    <2> QED BY <2>1, <2>2
  <1> QED BY <1>1, <1>2, <1>3 DEF IInv

-----------------------------------------------------------------------------
(* Steps of a handler that change no context.                                *)

\* A handler that goes on to x, in its context and as injected as it was.
LEMMA Moves ==
    ASSUME IInv, NEW r \in Request, NEW x \in Handling, Goes(r, x),
           current' = current, service' \in {None, Proxy},
           x.at = rq[r].at, x.injected = rq[r].injected,
           rq[r].pc \notin Over, x.pc \notin Over, HandlerInv(r, x)
    PROVE  IInv'
  <1>1. Typed'
    BY DEF IInv, Typed, Goes
  <1>2. rq'[r] = x /\ \A s \in Request : s # r => rq'[s] = rq[s]
    BY DEF IInv, Typed, Goes
  <1>3. \A s \in Request : rq'[s].at = rq[s].at
    BY <1>2
  <1>4. Apart'
    BY <1>3 DEF IInv, Apart
  <1>5. ContextInv(r, x, current)
    BY DEF IInv, ContextInv, Over
  <1>6. \A s \in Request : HandlerInv(s, rq'[s]) /\ ContextInv(s, rq'[s], current')
    BY <1>2, <1>5 DEF IInv
  <1> QED BY <1>1, <1>4, <1>6 DEF IInv, HandlerInv, ContextInv, Typed, Apart, NotYet

\* The type of where a handler is, and what its context shows in the view.
LEMMA Here ==
    ASSUME IInv, NEW r \in Request
    PROVE  /\ rq[r] \in Handling /\ HandlerInv(r, rq[r])
           /\ rq[r].next \in Nat
           /\ rq[r].at \in Context \cup {None}
           /\ rq[r].injected => Sees(rq[r].at) = r
           /\ rq[r].pc \in InView => rq[r].injected
  BY DEF IInv, Typed, HandlerInv, ContextInv, Sees, Handling

\* A handler with another pc, middleware, hooks and answer.
Put(r, pc, n, h, ans) ==
    [rq[r] EXCEPT !.pc = pc, !.next = n, !.hooks = h, !.answer = ans]

LEMMA MovesOn ==
    ASSUME IInv, NEW r \in Request, current' = current, service' \in {None, Proxy},
           rq[r].pc \notin Over,
           NEW pc \in {"in", "out"} \cup InView, NEW n \in Nat,
           NEW h \in Seq(Call),
           NEW ans \in {"none", "early", "hook", "error", "ok"},
           Goes(r, Put(r, pc, n, h, ans)),
           pc = "in" => rq[r].injected \/ NotYet(n),
           pc \in InView => rq[r].injected
    PROVE  IInv'
  <1> DEFINE x == Put(r, pc, n, h, ans)
  <1>0. rq[r] \in Handling
    BY Here
  <1>1. x \in Handling
    <2>1. pc \in {"new", "in", "view", "create", "body", "after", "out", "done"}
      BY DEF InView
    <2> QED BY <1>0, <2>1 DEF Handling, Put
  <1>2. x.at = rq[r].at /\ x.injected = rq[r].injected /\ x.pc = pc /\ x.next = n
        /\ x.given = rq[r].given
    BY <1>0 DEF Handling, Put
  <1>3. pc \notin Over
    BY DEF InView, Over
  <1>4. HandlerInv(r, x)
    BY <1>2, <1>3, Here DEF HandlerInv
  <1> HIDE DEF x
  <1>5. Goes(r, x)
    BY DEF x
  <1> QED BY <1>1, <1>2, <1>3, <1>4, <1>5, Moves

\* The fields of where a handler is.
LEMMA Fields ==
    ASSUME IInv, NEW r \in Request
    PROVE  /\ rq[r].hooks \in Seq(Call)
           /\ rq[r].answer \in {"none", "early", "hook", "error", "ok"}
           /\ service \in {None, Proxy}
           /\ rq[r].pc \in {"new", "in", "view", "create", "body", "after", "out", "done"}
  BY Here DEF Handling, IInv, Typed

LEMMA DeeperStep ==
    ASSUME IInv, NEW r \in Request, rq[r].pc = "in", Goes(r, Deeper(r)),
           rq[r].next \in DOMAIN Middlewares, Middlewares[rq[r].next] # "inject",
           current' = current, service' = service
    PROVE  IInv'
  <1>0. rq[r] \in Handling
    BY Here
  <1>1. Deeper(r) = Put(r, "in", rq[r].next + 1, rq[r].hooks, rq[r].answer)
    BY <1>0 DEF Deeper, Handling, Put
  <1>2. rq[r].injected \/ NotYet(rq[r].next + 1)
    BY Here, Chain DEF HandlerInv, NotYet
  <1>3. rq[r].next + 1 \in Nat /\ rq[r].pc \notin Over /\ "in" \notin InView
    BY Here DEF Over, InView
  <1> QED BY <1>1, <1>2, <1>3, Fields, MovesOn

\* A response: on the way out nothing is asked of a handler.
LEMMA OutStep ==
    ASSUME IInv, NEW r \in Request, rq[r].pc \notin Over,
           NEW n \in Nat, NEW h \in Seq(Call),
           NEW ans \in {"none", "early", "hook", "error", "ok"},
           Goes(r, Put(r, "out", n, h, ans)),
           current' = current, service' = service
    PROVE  IInv'
  <1>1. "out" \notin InView
    BY DEF InView
  <1>2. service' \in {None, Proxy}
    BY Fields
  <1> QED BY <1>1, <1>2, MovesOn

LEMMA OuterStep ==
    ASSUME IInv, NEW r \in Request, rq[r].pc = "out", Goes(r, Outer(r)),
           rq[r].next \in DOMAIN Middlewares, current' = current, service' = service
    PROVE  IInv'
  <1>0. rq[r] \in Handling
    BY Here
  <1>1. Outer(r) = Put(r, "out", rq[r].next - 1, rq[r].hooks, rq[r].answer)
    BY <1>0 DEF Outer, Handling, Put
  <1>2. rq[r].next - 1 \in Nat /\ rq[r].pc \notin Over
    BY Chain DEF Over
  <1> QED BY <1>1, <1>2, Fields, OutStep

\* The view turns back with the hooks h.
LEMMA BackStep ==
    ASSUME IInv, NEW r \in Request, rq[r].pc \in InView,
           NEW h \in Seq(Call),
           NEW ans \in {"none", "early", "hook", "error", "ok"},
           TurnsBack(r, TopOf([rq[r] EXCEPT !.hooks = h]), ans),
           current' = current, service' = service
    PROVE  IInv'
  <1>0. rq[r] \in Handling
    BY Here
  <1>1. [TopOf([rq[r] EXCEPT !.hooks = h]) EXCEPT !.pc = "out", !.answer = ans]
        = Put(r, "out", Len(Middlewares), h, ans)
    BY <1>0 DEF TopOf, Handling, Put
  <1>2. rq[r].pc \notin Over
    BY DEF InView, Over
  <1> QED BY <1>1, <1>2, Chain, OutStep DEF TurnsBack

\* The view goes on to pc with the hooks h.
LEMMA ViewStep ==
    ASSUME IInv, NEW r \in Request, NEW pc \in InView,
           rq[r].pc \notin Over, rq[r].injected,
           NEW h \in Seq(Call),
           Goes(r, [rq[r] EXCEPT !.pc = pc, !.hooks = h]),
           current' = current, service' = service
    PROVE  IInv'
  <1>0. rq[r] \in Handling
    BY Here
  <1>1. [rq[r] EXCEPT !.pc = pc, !.hooks = h]
        = Put(r, pc, rq[r].next, h, rq[r].answer)
    BY <1>0 DEF Handling, Put
  <1>2. pc # "in"
    BY DEF InView
  <1> QED BY <1>1, <1>2, Here, Fields, MovesOn

\* One of the calls in a view; what it leaves is a record of the same fields.
LEMMA CallIs ==
    ASSUME IInv, NEW r \in Request, NEW what \in Call
    PROVE  /\ Append(rq[r].hooks, what) \in Seq(Call)
           /\ Called(r, what) = [rq[r] EXCEPT !.hooks = Append(rq[r].hooks, what)]
  <1>1. rq[r] \in Handling
    BY Here
  <1>2. Append(rq[r].hooks, what) \in Seq(Call)
    BY Fields
  <1>3. Called(r, what) = [rq[r] EXCEPT !.hooks = Append(rq[r].hooks, what)]
    BY <1>1 DEF Called, Handling
  <1> QED BY <1>2, <1>3

\* Nothing the invariant speaks of changes.
LEMMA Stutter ==
    ASSUME IInv, rq' = rq, current' = current, service' = service
    PROVE  IInv'
  BY DEF IInv, Typed, Apart, HandlerInv, ContextInv, NotYet

-----------------------------------------------------------------------------
(* The steps that change a context or take a thread.                         *)

\* A thread that is free handles nothing, and what it shows is no new request.
LEMMA ArriveInv == ASSUME IInv, NEW r \in Request, Arrive(r) PROVE IInv'
  <1>1. PICK c \in Thread \cup {Main(r)}, v \in View :
          /\ Goes(r, [rq[r] EXCEPT !.pc = "in", !.at = c, !.view = v])
          /\ c \in Thread => Free(c)
    <2>1. PICK c \in (IF server = "wsgi" THEN {t \in Thread : Free(t)} ELSE {Main(r)}) :
            \E v \in View : Goes(r, [rq[r] EXCEPT !.pc = "in", !.at = c, !.view = v])
      BY DEF Arrive
    <2>2. c \in Thread \cup {Main(r)} /\ (c \in Thread => Free(c))
      BY Contexts
    <2> QED BY <2>1, <2>2
  <1> DEFINE x == [rq[r] EXCEPT !.pc = "in", !.at = c, !.view = v]
  <1>2. /\ rq[r].pc = "new" /\ ~rq[r].injected /\ rq[r].given \in {r, None}
        /\ rq[r] \in Handling
    BY Here DEF Arrive, At, HandlerInv, Over
  <1>3. c \in Context /\ c # None
    BY Contexts, NoneAssumption DEF Context
  <1>4. /\ x \in Handling /\ x.at = c /\ x.pc = "in" /\ ~x.injected
        /\ x.given = rq[r].given /\ x.next = rq[r].next
    BY <1>2, <1>3 DEF Handling
  <1>5. current' = current /\ service' = service /\ Goes(r, x)
    BY <1>1 DEF Arrive
  <1> HIDE DEF x
  <1>6. rq' \in [Request -> Handling] /\ rq'[r] = x
        /\ \A s \in Request : s # r => rq'[s] = rq[s]
    BY <1>4, <1>5 DEF IInv, Typed, Goes
  <1>7. Typed'
    BY <1>5, <1>6 DEF IInv, Typed
  <1>8. Apart'
    <2>1. \A s \in Request : c \in Thread => rq[s].at # c
      BY <1>1 DEF Free
    <2> QED BY <1>4, <1>6, <2>1 DEF IInv, Apart
  <1>9. HandlerInv(r, x)
    <2>1. NotYet(x.next)
      BY <1>2, <1>4, Here DEF Arrive, At, HandlerInv
    <2> QED BY <1>2, <1>3, <1>4, <2>1 DEF HandlerInv, Over, InView
  <1>10. ContextInv(r, x, current)
    BY <1>2, <1>4 DEF IInv, ContextInv
  <1>11. \A s \in Request : HandlerInv(s, rq'[s]) /\ ContextInv(s, rq'[s], current')
    BY <1>5, <1>6, <1>9, <1>10 DEF IInv
  <1> QED BY <1>7, <1>8, <1>11 DEF IInv, HandlerInv, ContextInv, Typed, Apart, NotYet

\* The context of a handler belongs to no other that is under way.
LEMMA InjectRequestInv == ASSUME IInv, NEW r \in Request, InjectRequest(r) PROVE IInv'
  <1> DEFINE x == [Deeper(r) EXCEPT !.injected = TRUE]
  <1>1. /\ rq[r] \in Handling /\ HandlerInv(r, rq[r]) /\ ContextInv(r, rq[r], current)
        /\ rq[r].pc = "in" /\ rq[r].next \in Nat
    BY Here DEF InjectRequest, AtMiddleware, At, IInv
  <1>2. /\ rq[r].at \in Thread \cup {Main(r)} /\ rq[r].at \in Context
    BY <1>1, Contexts DEF HandlerInv, Over, Context
  <1>3. /\ x \in Handling /\ x.at = rq[r].at /\ x.pc = "in" /\ x.injected
        /\ x.given = rq[r].given
    <2>1. /\ Deeper(r) \in Handling /\ Deeper(r).at = rq[r].at
          /\ Deeper(r).pc = "in" /\ Deeper(r).given = rq[r].given
      BY <1>1 DEF Handling, Deeper
    <2> QED BY <2>1 DEF Handling
  <1>4. current' = [current EXCEPT ![rq[r].at] = r] /\ service' = service /\ Goes(r, x)
    BY DEF InjectRequest, SetRequest
  <1> HIDE DEF x
  <1>5. rq' \in [Request -> Handling] /\ rq'[r] = x
        /\ \A s \in Request : s # r => rq'[s] = rq[s]
    BY <1>3, <1>4 DEF IInv, Typed, Goes
  <1>6. current' \in [Context -> Request \cup {None}] /\ current'[rq[r].at] = r
        /\ \A c \in Context : c # rq[r].at => current'[c] = current[c]
    BY <1>2, <1>4 DEF IInv, Typed
  <1>7. Typed'
    BY <1>4, <1>5, <1>6 DEF IInv, Typed
  <1>8. Apart'
    BY <1>3, <1>5 DEF IInv, Apart
  <1>9. HandlerInv(r, x)
    BY <1>1, <1>2, <1>3, Nobody, Contexts DEF HandlerInv, Over, InView
  <1>10. ContextInv(r, x, current')
    BY <1>1, <1>2, <1>3, <1>6, Contexts DEF ContextInv, Context
  <1>11. ASSUME NEW s \in Request, s # r
         PROVE  HandlerInv(s, rq[s]) /\ ContextInv(s, rq[s], current')
    <2>1. HandlerInv(s, rq[s]) /\ ContextInv(s, rq[s], current)
      BY DEF IInv
    <2>2. rq[s].injected => rq[s].at \in Context /\ rq[s].at # rq[r].at
      BY <1>2, <1>11, <2>1, Contexts DEF IInv, Apart, HandlerInv, Over, Context
    <2>3. Helper(s) \in Context /\ Helper(s) # rq[r].at
      BY <1>2, Contexts
    <2>4. \A t \in Thread : current'[t] = s => current[t] = s
      BY <1>6, <1>11 DEF Context
    <2> QED BY <1>6, <2>1, <2>2, <2>3, <2>4 DEF ContextInv
  <1>12. \A s \in Request : HandlerInv(s, rq'[s]) /\ ContextInv(s, rq'[s], current')
    BY <1>5, <1>9, <1>10, <1>11
  <1> QED BY <1>7, <1>8, <1>12 DEF IInv, HandlerInv, ContextInv, Typed, Apart, NotYet

\* A helper starts with what its request sees, or with nothing.
LEMMA StartHelperInv == ASSUME IInv, NEW r \in Request, StartHelper(r) PROVE IInv'
  <1>1. PICK how \in {"copied", "bare"} :
          /\ Goes(r, [rq[r] EXCEPT !.helper = how])
          /\ current' = [current EXCEPT ![Helper(r)] =
                            IF how = "copied" THEN Sees(rq[r].at) ELSE None]
    BY DEF StartHelper
  <1> DEFINE x == [rq[r] EXCEPT !.helper = how]
  <1>2. /\ rq[r] \in Handling /\ HandlerInv(r, rq[r]) /\ ContextInv(r, rq[r], current)
        /\ rq[r].pc = "body" /\ rq[r].injected /\ Sees(rq[r].at) = r
    BY Here DEF StartHelper, At, IInv, InView
  <1>3. /\ x \in Handling /\ x.at = rq[r].at /\ x.pc = rq[r].pc
        /\ x.injected = rq[r].injected /\ x.given = rq[r].given
        /\ x.next = rq[r].next
    BY <1>2 DEF Handling
  <1>4. Goes(r, x) /\ service' = service
    BY <1>1 DEF StartHelper
  <1> HIDE DEF x
  <1>5. rq' \in [Request -> Handling] /\ rq'[r] = x
        /\ \A s \in Request : s # r => rq'[s] = rq[s]
    BY <1>3, <1>4 DEF IInv, Typed, Goes
  <1>6. current' \in [Context -> Request \cup {None}] /\ current'[Helper(r)] \in {r, None}
        /\ \A c \in Context : c # Helper(r) => current'[c] = current[c]
    BY <1>1, <1>2, Contexts DEF IInv, Typed
  <1>7. Typed'
    BY <1>4, <1>5, <1>6 DEF IInv, Typed
  <1>8. Apart'
    BY <1>3, <1>5 DEF IInv, Apart
  <1>9. HandlerInv(r, x)
    BY <1>2, <1>3 DEF HandlerInv
  <1>10. ASSUME NEW s \in Request
         PROVE  ContextInv(s, rq[s], current')
    <2>1. HandlerInv(s, rq[s]) /\ ContextInv(s, rq[s], current)
      BY DEF IInv
    <2>2. rq[s].injected => rq[s].at \in Context /\ rq[s].at # Helper(r)
      BY <2>1, Contexts DEF HandlerInv, Over, Context
    <2>3. Helper(s) \in Context /\ (s # r => Helper(s) # Helper(r))
      BY Contexts
    <2>4. \A t \in Thread : t \in Context /\ t # Helper(r)
      BY Contexts DEF Context
    <2> QED BY <1>6, <2>1, <2>2, <2>3, <2>4 DEF ContextInv
  <1>11. ContextInv(r, x, current')
    BY <1>3, <1>10 DEF ContextInv
  <1>12. \A s \in Request : HandlerInv(s, rq'[s]) /\ ContextInv(s, rq'[s], current')
    BY <1>5, <1>9, <1>10, <1>11 DEF IInv
  <1> QED BY <1>7, <1>8, <1>12 DEF IInv, HandlerInv, ContextInv, Typed, Apart, NotYet

\* The view is given what its context shows, and the singleton the proxy.
LEMMA CreateInv ==
    ASSUME IInv, NEW r \in Request, CallFunction(r) \/ CreateView(r)
    PROVE  IInv'
  <1>1. /\ rq[r] \in Handling /\ HandlerInv(r, rq[r])
        /\ rq[r].pc = "create" /\ rq[r].injected /\ Sees(rq[r].at) = r
        /\ current' = current
    BY Here DEF CallFunction, CreateView, At, InView
  <1>2. CASE TurnsBack(r, TopOf(rq[r]), "error") /\ service' = service
    <2>1. rq[r] = [rq[r] EXCEPT !.hooks = rq[r].hooks]
      BY <1>1 DEF Handling
    <2>2. TurnsBack(r, TopOf([rq[r] EXCEPT !.hooks = rq[r].hooks]), "error")
      BY <1>2, <2>1
    <2> QED BY <1>1, <1>2, <2>2, Fields, BackStep DEF InView
  <1>3. ASSUME NEW pc \in {"after", "body"}, Injects(r, [rq[r] EXCEPT !.pc = pc])
        PROVE  IInv'
    <2> DEFINE x == [[rq[r] EXCEPT !.pc = pc] EXCEPT
                        !.given = Sees([rq[r] EXCEPT !.pc = pc].at)]
    <2>1. x = [[rq[r] EXCEPT !.pc = pc] EXCEPT !.given = r]
      BY <1>1 DEF Handling
    <2>2. x \in Handling /\ x.at = rq[r].at /\ x.pc = pc /\ x.given = r
          /\ x.injected = rq[r].injected
      BY <1>1, <2>1 DEF Handling
    <2>3. Goes(r, x) /\ service' \in {None, Proxy}
      BY <1>3, Fields DEF Injects, MakesService, Goes
    <2> HIDE DEF x
    <2>4. pc \notin Over /\ rq[r].pc \notin Over /\ pc \notin {"new", "in"}
      BY <1>1 DEF Over
    <2>5. HandlerInv(r, x)
      BY <1>1, <2>2, <2>4 DEF HandlerInv, Over
    <2> QED BY <1>1, <2>2, <2>3, <2>4, <2>5, Moves
  <1> QED BY <1>2, <1>3 DEF CallFunction, CreateView

\* Only a helper may go on to see an answered request.
LEMMA AnsweredInv == ASSUME IInv, NEW r \in Request, Answered(r) PROVE IInv'
  <1> DEFINE x == [NewRequest EXCEPT !.pc = "done", !.helper = rq[r].helper]
  <1>1. /\ rq[r] \in Handling /\ HandlerInv(r, rq[r]) /\ ContextInv(r, rq[r], current)
        /\ rq[r].pc = "out" /\ current' = current /\ service' = service
    BY Here DEF Answered, At, IInv
  <1>2. rq[r].helper \in {"none", "copied", "bare"}
    BY <1>1 DEF Handling
  <1>3. x \in Handling /\ x.at = None /\ x.pc = "done" /\ ~x.injected /\ x.given = None
    <2>1. NewRequest.at = None /\ ~NewRequest.injected /\ NewRequest.given = None
      BY DEF NewRequest
    <2> QED BY <1>2, <2>1, NewType DEF Handling
  <1>4. Goes(r, x)
    BY DEF Answered
  <1> HIDE DEF x
  <1>5. rq' \in [Request -> Handling] /\ rq'[r] = x
        /\ \A s \in Request : s # r => rq'[s] = rq[s]
    BY <1>3, <1>4 DEF IInv, Typed, Goes
  <1>6. Typed'
    BY <1>1, <1>5 DEF IInv, Typed
  <1>7. Apart'
    BY <1>3, <1>5, Nobody DEF IInv, Apart
  <1>8. HandlerInv(r, x) /\ ContextInv(r, x, current)
    BY <1>1, <1>3 DEF HandlerInv, ContextInv, Over, InView
  <1>9. \A s \in Request : HandlerInv(s, rq'[s]) /\ ContextInv(s, rq'[s], current')
    BY <1>1, <1>5, <1>8 DEF IInv
  <1> QED BY <1>6, <1>7, <1>9 DEF IInv, HandlerInv, ContextInv, Typed, Apart, NotYet

-----------------------------------------------------------------------------
(* The other steps of a handler.                                             *)

LEMMA MiddlewareInv ==
    ASSUME IInv, NEW r \in Request,
           \/ ProcessRequest(r) \/ ProcessResponse(r)
           \/ LogReceived(r) \/ LogResponse(r)
    PROVE  IInv'
  <1>1. CASE LogReceived(r)
    BY <1>1, DeeperStep DEF LogReceived, AtMiddleware, At
  <1>2. CASE LogResponse(r)
    BY <1>2, OuterStep DEF LogResponse, AtMiddleware, At
  <1>3. CASE ProcessResponse(r)
    BY <1>3, OuterStep DEF ProcessResponse, AtMiddleware, At
  <1>4. CASE ProcessRequest(r)
    <2>1. /\ rq[r].pc = "in" /\ current' = current /\ service' = service
          /\ rq[r].next \in DOMAIN Middlewares /\ Middlewares[rq[r].next] = "gate"
          /\ rq[r] \in Handling
      BY <1>4, Here DEF ProcessRequest, AtMiddleware, At
    <2>2. CASE Goes(r, Deeper(r))
      BY <2>1, <2>2, DeeperStep
    <2>3. CASE TurnsBack(r, Outer(r), "early")
      <3>1. [Outer(r) EXCEPT !.pc = "out", !.answer = "early"]
            = Put(r, "out", rq[r].next - 1, rq[r].hooks, "early")
        BY <2>1 DEF Outer, Put, Handling
      <3>2. rq[r].next - 1 \in Nat /\ rq[r].pc \notin Over
        BY <2>1, Chain DEF Over
      <3>3. Goes(r, Put(r, "out", rq[r].next - 1, rq[r].hooks, "early"))
        BY <2>3, <3>1 DEF TurnsBack
      <3> QED BY <2>1, <3>2, <3>3, Fields, OutStep
    <2> QED BY <1>4, <2>2, <2>3 DEF ProcessRequest
  <1> QED BY <1>1, <1>2, <1>3, <1>4

\* A view is only reached behind the middleware.
LEMMA EnterViewInv == ASSUME Deployed, IInv, NEW r \in Request, EnterView(r) PROVE IInv'
  <1>1. /\ rq[r].pc = "in" /\ rq[r].next > Len(Middlewares) /\ rq[r].next \in Nat
        /\ current' = current /\ service' = service /\ rq[r] \in Handling
    BY Here DEF EnterView, At
  <1>2. rq[r].injected
    BY <1>1, Here, Chain DEF Deployed, HandlerInv, NotYet
  <1>3. PICK pc \in InView : Goes(r, [rq[r] EXCEPT !.pc = pc])
    BY DEF EnterView, InView
  <1>4. [rq[r] EXCEPT !.pc = pc] = [rq[r] EXCEPT !.pc = pc, !.hooks = rq[r].hooks]
    BY <1>1 DEF Handling
  <1>5. Goes(r, [rq[r] EXCEPT !.pc = pc, !.hooks = rq[r].hooks])
    BY <1>3, <1>4
  <1>6. rq[r].pc \notin Over
    BY <1>1 DEF Over
  <1> QED BY <1>1, <1>2, <1>5, <1>6, Fields, ViewStep

\* A call in the view, after which it goes on or turns back.
LEMMA CallInv ==
    ASSUME IInv, NEW r \in Request, rq[r].pc \in InView,
           NEW what \in Call,
           current' = current, service' = service,
           \/ \E ans \in {"none", "early", "hook", "error", "ok"} :
                TurnsBack(r, TopOf(Called(r, what)), ans)
           \/ \E pc \in InView : Goes(r, [Called(r, what) EXCEPT !.pc = pc])
    PROVE  IInv'
  <1>1. rq[r].pc \notin Over /\ rq[r].injected
    BY Here DEF InView, Over
  <1>2. CASE \E ans \in {"none", "early", "hook", "error", "ok"} :
               TurnsBack(r, TopOf(Called(r, what)), ans)
    <2> DEFINE h == Append(rq[r].hooks, what)
    <2>1. PICK ans \in {"none", "early", "hook", "error", "ok"} :
            TurnsBack(r, TopOf(Called(r, what)), ans)
      BY <1>2
    <2>2. h \in Seq(Call)
          /\ Called(r, what) = [rq[r] EXCEPT !.hooks = h]
      BY CallIs
    <2> HIDE DEF h
    <2>3. TurnsBack(r, TopOf([rq[r] EXCEPT !.hooks = h]), ans)
      BY <2>1, <2>2
    <2> QED BY <2>2, <2>3, BackStep
  <1>3. CASE \E pc \in InView : Goes(r, [Called(r, what) EXCEPT !.pc = pc])
    <2> DEFINE h == Append(rq[r].hooks, what)
    <2>1. PICK pc \in InView : Goes(r, [Called(r, what) EXCEPT !.pc = pc])
      BY <1>3
    <2>2. h \in Seq(Call)
      BY CallIs
    <2>3. [Called(r, what) EXCEPT !.pc = pc] = [rq[r] EXCEPT !.pc = pc, !.hooks = h]
      <3>1. rq[r] \in Handling
        BY Here
      <3> QED BY <3>1 DEF Called, Handling
    <2> HIDE DEF h
    <2>4. Goes(r, [rq[r] EXCEPT !.pc = pc, !.hooks = h])
      BY <2>1, <2>3
    <2> QED BY <1>1, <2>2, <2>4, ViewStep
  <1> QED BY <1>2, <1>3

LEMMA ViewInv ==
    ASSUME IInv, NEW r \in Request, BeforeHook(r) \/ EndBody(r) \/ AfterHook(r)
    PROVE  IInv'
  <1> USE DEF Call
  <1>1. CASE BeforeHook(r)
    <2>1. \/ \E ans \in {"hook", "error"}, what \in {"answered", "raised"} :
               TurnsBack(r, TopOf(Called(r, what)), ans)
          \/ Goes(r, [Called(r, "passed") EXCEPT !.pc = "create"])
      BY <1>1 DEF BeforeHook
    <2>2. rq[r].pc \in InView /\ current' = current /\ service' = service /\ "create" \in InView
      BY <1>1 DEF BeforeHook, At, InView
    <2>3. CASE \E ans \in {"hook", "error"}, what \in {"answered", "raised"} :
                 TurnsBack(r, TopOf(Called(r, what)), ans)
      <3>1. PICK ans \in {"hook", "error"}, what \in {"answered", "raised"} :
              TurnsBack(r, TopOf(Called(r, what)), ans)
        BY <2>3
      <3>2. what \in Call
        OBVIOUS
      <3> QED BY <2>2, <3>1, <3>2, CallInv
    <2>4. CASE Goes(r, [Called(r, "passed") EXCEPT !.pc = "create"])
      BY <2>2, <2>4, CallInv
    <2> QED BY <2>1, <2>3, <2>4
  <1>2. CASE EndBody(r)
    <2>1. \/ \E ans \in {"none", "early", "hook", "error", "ok"} :
               TurnsBack(r, TopOf(Called(r, "body")), ans)
          \/ \E pc \in InView : Goes(r, [Called(r, "body") EXCEPT !.pc = pc])
      <3>1. ASSUME Goes(r, [Called(r, "body") EXCEPT !.pc = "after"])
            PROVE  \E pc \in InView : Goes(r, [Called(r, "body") EXCEPT !.pc = pc])
        BY <3>1, Zenon DEF InView
      <3> QED BY <1>2, <3>1 DEF EndBody
    <2>2. rq[r].pc \in InView /\ current' = current /\ service' = service
      BY <1>2 DEF EndBody, At, InView
    <2> QED BY <2>1, <2>2, CallInv
  <1>3. CASE AfterHook(r) /\ HasHooks(r)
    <2>1. \/ \E ans \in {"none", "early", "hook", "error", "ok"} :
               TurnsBack(r, TopOf(Called(r, "after")), ans)
          \/ \E pc \in InView : Goes(r, [Called(r, "after") EXCEPT !.pc = pc])
      <3>1. ASSUME Goes(r, [Called(r, "after") EXCEPT !.pc = "body"])
            PROVE  \E pc \in InView : Goes(r, [Called(r, "after") EXCEPT !.pc = pc])
        BY <3>1, Zenon DEF InView
      <3> QED BY <1>3, <3>1 DEF AfterHook
    <2>2. rq[r].pc \in InView /\ current' = current /\ service' = service
      BY <1>3 DEF AfterHook, At, InView
    <2> QED BY <2>1, <2>2, CallInv
  <1>4. CASE AfterHook(r) /\ ~HasHooks(r)
    <2>1. rq[r].pc = "after" /\ current' = current /\ service' = service
          /\ rq[r] \in Handling /\ rq[r].injected
      BY <1>4, Here DEF AfterHook, At, InView
    <2>2. rq[r] = [rq[r] EXCEPT !.hooks = rq[r].hooks]
          /\ [rq[r] EXCEPT !.pc = "body"] = [rq[r] EXCEPT !.pc = "body", !.hooks = rq[r].hooks]
      BY <2>1 DEF Handling
    <2>3. \/ TurnsBack(r, TopOf([rq[r] EXCEPT !.hooks = rq[r].hooks]), "ok")
          \/ Goes(r, [rq[r] EXCEPT !.pc = "body", !.hooks = rq[r].hooks])
      BY <1>4, <2>2 DEF AfterHook
    <2>4. rq[r].pc \in InView /\ "body" \in InView /\ rq[r].pc \notin Over
      BY <2>1 DEF InView, Over
    <2> QED BY <2>1, <2>3, <2>4, Fields, BackStep, ViewStep
  <1> QED BY <1>1, <1>2, <1>3, <1>4

LEMMA NextInv == ASSUME Deployed, IInv, [Next]_vars PROVE IInv'
  <1>1. ASSUME NEW r \in Request, Arrive(r) PROVE IInv'
    BY <1>1, ArriveInv
  <1>2. ASSUME NEW r \in Request, InjectRequest(r) PROVE IInv'
    BY <1>2, InjectRequestInv
  <1>3. ASSUME NEW r \in Request,
               \/ ProcessRequest(r) \/ ProcessResponse(r)
               \/ LogReceived(r) \/ LogResponse(r)
        PROVE  IInv'
    BY <1>3, MiddlewareInv
  <1>4. ASSUME NEW r \in Request, Answered(r) PROVE IInv'
    BY <1>4, AnsweredInv
  <1>5. ASSUME NEW r \in Request, EnterView(r) PROVE IInv'
    BY <1>5, EnterViewInv
  <1>6. ASSUME NEW r \in Request, CallFunction(r) \/ CreateView(r) PROVE IInv'
    BY <1>6, CreateInv
  <1>7. ASSUME NEW r \in Request, BeforeHook(r) \/ EndBody(r) \/ AfterHook(r)
        PROVE  IInv'
    BY <1>7, ViewInv
  <1>8. ASSUME NEW r \in Request, StartHelper(r) PROVE IInv'
    BY <1>8, StartHelperInv
  <1>9. ASSUME NEW r \in Request, LogInBody(r) \/ LogInHelper(r) PROVE IInv'
    BY <1>9, Stutter DEF LogInBody, LogInHelper
  <1>10. ASSUME NEW a \in Actor, EndFilter(a) PROVE IInv'
    BY <1>10, Stutter DEF EndFilter
  <1>11. CASE UNCHANGED vars
    BY <1>11, Stutter DEF vars
  <1> QED BY <1>1, <1>2, <1>3, <1>4, <1>5, <1>6, <1>7, <1>8, <1>9, <1>10, <1>11 DEF Next

-----------------------------------------------------------------------------
(* What the invariant is for.                                                *)

LEMMA InvOwn == IInv => OwnRequest
  <1> SUFFICES ASSUME IInv, NEW r \in Request
               PROVE  /\ Active(r) /\ rq[r].injected =>
                           Sees(rq[r].at) = r /\ (service # None => Principal(rq[r].at) = r)
                      /\ rq[r].given \in {r, None}
                      /\ Sees(Helper(r)) \in {r, None}
                      /\ \A t \in Thread : Active(r) /\ Sees(t) = r => rq[r].at = t
    BY DEF OwnRequest
  <1>1. HandlerInv(r, rq[r]) /\ ContextInv(r, rq[r], current)
    BY DEF IInv
  <1>2. rq[r].injected => Sees(rq[r].at) = r /\ (service # None => Principal(rq[r].at) = r)
    BY <1>1, Fields DEF ContextInv, Sees, Principal, Provided
  <1> QED BY <1>1, <1>2 DEF HandlerInv, ContextInv, Sees, Active

\* The inductive invariant holds of every server behind which
\* InjectRequestMiddleware is installed.
THEOREM Invariance == ASSUME Deployed PROVE Spec => []IInv
  <1>1. Init => IInv
    BY InitInv
  <1>2. IInv /\ [Next]_vars => IInv'
    BY NextInv
  <1> QED BY <1>1, <1>2, PTL DEF Spec

\* Code behind the middleware sees its own request and user, for any number of
\* requests at once, threads that are used again, and helpers (set_request,
\* get_request, register_security_context).
THEOREM SeesOwnRequest == ASSUME Deployed PROVE Spec => []OwnRequest
  <1>1. Spec => []IInv
    BY Invariance
  <1> QED BY <1>1, InvOwn, PTL

-----------------------------------------------------------------------------
(* The hooks of a class view: what was called follows from the place in the  *)
(* wrapper.                                                                  *)

HasTrail(x) == x.view # None /\ Kind[x.view] # "function" /\ Wraps(x.view) = 1

Within(h, what) == \E i \in DOMAIN h : h[i] = what

\* The promise of the hooks, of what was called and answered in a view of a kind.
Kept(kind, h, answer) ==
    /\ Within(h, "body") => h[1] = "passed"
    /\ kind = "class" /\ answer = "ok" => h = <<"passed", "body", "after">>

\* An async view is awaited when both hooks were called.
Trail(x) ==
    /\ x.pc \in {"new", "in", "view", "done"} => x.hooks = <<>>
    /\ x.pc \in {"new", "in", "done"} \cup InView => x.answer = "none"
    /\ HasTrail(x) =>
         /\ x.pc = "create" => x.hooks = <<"passed">>
         /\ x.pc = "after" =>
              x.hooks = IF Kind[x.view] = "async" THEN <<"passed">> ELSE <<"passed", "body">>
         /\ x.pc = "body" =>
              x.hooks = IF Kind[x.view] = "async" THEN <<"passed", "after">> ELSE <<"passed">>
         /\ x.pc = "out" => Kept(Kind[x.view], x.hooks, x.answer)

TrailInv == \A r \in Request : Trail(rq[r])

LEMMA AppendOne ==
    ASSUME NEW S, NEW a \in S, NEW b \in S
    PROVE  Append(<<a>>, b) = <<a, b>>
  <1> DEFINE s == Append(<<a>>, b)
             t == <<a, b>>
  <1>1. /\ s \in Seq(S) /\ Len(s) = 2 /\ s[1] = a /\ s[2] = b
        /\ t \in Seq(S) /\ Len(t) = 2 /\ t[1] = a /\ t[2] = b
    OBVIOUS
  <1> HIDE DEF s, t
  <1>2. s = t
    BY <1>1, SeqEqual
  <1> QED BY <1>2 DEF s, t

LEMMA AppendTwo ==
    ASSUME NEW S, NEW a \in S, NEW b \in S, NEW c \in S
    PROVE  Append(<<a, b>>, c) = <<a, b, c>>
  <1> DEFINE s == Append(<<a, b>>, c)
             t == <<a, b, c>>
  <1>1. /\ s \in Seq(S) /\ Len(s) = 3 /\ s[1] = a /\ s[2] = b /\ s[3] = c
        /\ t \in Seq(S) /\ Len(t) = 3 /\ t[1] = a /\ t[2] = b /\ t[3] = c
    OBVIOUS
  <1> HIDE DEF s, t
  <1>2. s = t
    BY <1>1, SeqEqual
  <1> QED BY <1>2 DEF s, t

LEMMA Calls ==
    /\ \A what \in Call : Append(<<>>, what) = <<what>>
    /\ Append(<<"passed">>, "body") = <<"passed", "body">>
    /\ Append(<<"passed">>, "after") = <<"passed", "after">>
    /\ Append(<<"passed", "body">>, "after") = <<"passed", "body", "after">>
    /\ Append(<<"passed", "after">>, "body") = <<"passed", "after", "body">>
  <1>1. "passed" \in Call /\ "body" \in Call /\ "after" \in Call
    BY DEF Call
  <1>2. \A what \in Call : Append(<<>>, what) = <<what>>
    OBVIOUS
  <1> QED BY <1>1, <1>2, AppendOne, AppendTwo

\* What may be answered when the calls so far are these.
LEMMA KeptAt ==
    /\ \A k, a : a # "ok" =>
         /\ Kept(k, <<>>, a) /\ Kept(k, <<"passed">>, a)
         /\ Kept(k, <<"answered">>, a) /\ Kept(k, <<"raised">>, a)
         /\ Kept(k, <<"passed", "body">>, a) /\ Kept(k, <<"passed", "after">>, a)
         /\ Kept(k, <<"passed", "body", "after">>, a)
         /\ Kept(k, <<"passed", "after", "body">>, a)
    /\ \A k : Kept(k, <<"passed", "body", "after">>, "ok")
    /\ Kept("async", <<"passed", "after", "body">>, "ok")
  <1>1. ASSUME NEW h, ~Within(h, "body") \/ h[1] = "passed", NEW k, NEW a, a # "ok"
        PROVE  Kept(k, h, a)
    BY <1>1 DEF Kept
  <1>2. /\ ~Within(<<>>, "body") /\ ~Within(<<"answered">>, "body")
        /\ ~Within(<<"raised">>, "body")
    BY DEF Within
  <1>3. /\ <<"passed">>[1] = "passed" /\ <<"passed", "body">>[1] = "passed"
        /\ <<"passed", "after">>[1] = "passed" /\ <<"passed", "body", "after">>[1] = "passed"
        /\ <<"passed", "after", "body">>[1] = "passed"
    OBVIOUS
  <1>4. \A k : Kept(k, <<"passed", "body", "after">>, "ok")
    BY <1>3 DEF Kept
  <1>5. Kept("async", <<"passed", "after", "body">>, "ok")
    BY <1>3 DEF Kept
  <1> QED BY <1>1, <1>2, <1>3, <1>4, <1>5

\* A handler that goes on to x has left the trail of x.
LEMMA TrailStep ==
    ASSUME IInv, TrailInv, NEW r \in Request, NEW x, Goes(r, x), Trail(x)
    PROVE  TrailInv'
  <1>1. rq'[r] = x /\ \A s \in Request : s # r => rq'[s] = rq[s]
    BY DEF IInv, Typed, Goes
  <1>2. \A s \in Request : Trail(rq'[s])
    BY <1>1 DEF TrailInv
  <1> QED BY <1>2 DEF TrailInv, Trail, HasTrail, Kept, Within, Wraps, InView

\* Where a handler is and what it has left.
LEMMA TrailHere ==
    ASSUME IInv, TrailInv, NEW r \in Request
    PROVE  /\ rq[r] \in Handling /\ Trail(rq[r])
           /\ HasTrail(rq[r]) => HasHooks(r) /\ Kind[rq[r].view] \in {"class", "async"}
           /\ HasHooks(r) /\ rq[r].view # None => HasTrail(rq[r])
  <1>1. rq[r] \in Handling /\ Trail(rq[r])
    BY Here DEF TrailInv
  <1>2. rq[r].view # None => Kind[rq[r].view] \in Kinds
    BY <1>1, ViewAssumption DEF Handling
  <1> QED BY <1>1, <1>2 DEF HasTrail, HasHooks, KindOf, Kinds

LEMMA InitTrail == Init => TrailInv
  <1> SUFFICES ASSUME Init, NEW r \in Request PROVE Trail(rq[r])
    BY DEF TrailInv
  <1>1. rq[r].pc = "new" /\ rq[r].hooks = <<>> /\ rq[r].answer = "none"
    BY DEF Init, NewRequest
  <1> QED BY <1>1 DEF Trail

\* The middlewares call no hook; what they leave at is as kept as it was.
LEMMA MiddlewareTrail ==
    ASSUME IInv, TrailInv, NEW r \in Request,
           \/ Arrive(r) \/ InjectRequest(r) \/ ProcessRequest(r) \/ ProcessResponse(r)
           \/ LogReceived(r) \/ LogResponse(r) \/ Answered(r)
    PROVE  TrailInv'
  <1>0. rq[r] \in Handling /\ Trail(rq[r])
    BY TrailHere
  <1>1. CASE Arrive(r)
    <2>1. PICK c, v : Goes(r, [rq[r] EXCEPT !.pc = "in", !.at = c, !.view = v])
      BY <1>1 DEF Arrive
    <2>2. rq[r].pc = "new"
      BY <1>1 DEF Arrive, At
    <2>3. Trail([rq[r] EXCEPT !.pc = "in", !.at = c, !.view = v])
      BY <1>0, <2>2 DEF Trail, Handling, InView
    <2> QED BY <2>1, <2>3, TrailStep
  <1>2. CASE \/ InjectRequest(r) \/ LogReceived(r)
             \/ ProcessRequest(r) /\ Goes(r, Deeper(r))
    <2>1. rq[r].pc = "in"
      BY <1>2 DEF InjectRequest, LogReceived, ProcessRequest, AtMiddleware, At
    <2>2. Goes(r, Deeper(r)) \/ Goes(r, [Deeper(r) EXCEPT !.injected = TRUE])
      BY <1>2 DEF InjectRequest, LogReceived
    <2>3. Trail(Deeper(r)) /\ Trail([Deeper(r) EXCEPT !.injected = TRUE])
      BY <1>0, <2>1 DEF Trail, Deeper, Handling, InView
    <2> QED BY <2>2, <2>3, TrailStep
  <1>3. CASE ProcessRequest(r) /\ TurnsBack(r, Outer(r), "early")
    <2> DEFINE x == [Outer(r) EXCEPT !.pc = "out", !.answer = "early"]
    <2>1. rq[r].pc = "in" /\ rq[r].hooks = <<>>
      BY <1>0, <1>3 DEF ProcessRequest, AtMiddleware, At, Trail
    <2>2. x.pc = "out" /\ x.hooks = <<>> /\ x.answer = "early"
      BY <1>0, <2>1 DEF Outer, Handling
    <2>3. Goes(r, x)
      BY <1>3 DEF TurnsBack
    <2> HIDE DEF x
    <2>4. Trail(x)
      BY <2>2, KeptAt DEF Trail, InView
    <2> QED BY <2>3, <2>4, TrailStep
  <1>4. CASE ProcessResponse(r) \/ LogResponse(r)
    <2>1. rq[r].pc = "out" /\ Goes(r, Outer(r))
      BY <1>4 DEF ProcessResponse, LogResponse, AtMiddleware, At
    <2>2. /\ Outer(r).pc = "out" /\ Outer(r).hooks = rq[r].hooks
          /\ Outer(r).answer = rq[r].answer /\ Outer(r).view = rq[r].view
      BY <1>0, <2>1 DEF Outer, Handling
    <2>3. Trail(Outer(r))
      BY <1>0, <2>1, <2>2 DEF Trail, HasTrail, InView
    <2> QED BY <2>1, <2>3, TrailStep
  <1>5. CASE Answered(r)
    <2> DEFINE x == [NewRequest EXCEPT !.pc = "done", !.helper = rq[r].helper]
    <2>1. x.pc = "done" /\ x.hooks = <<>> /\ x.answer = "none"
      BY DEF NewRequest
    <2>2. Goes(r, x)
      BY <1>5 DEF Answered
    <2> HIDE DEF x
    <2>3. Trail(x)
      BY <2>1 DEF Trail, InView
    <2> QED BY <2>2, <2>3, TrailStep
  <1>6. ProcessRequest(r) => Goes(r, Deeper(r)) \/ TurnsBack(r, Outer(r), "early")
    BY DEF ProcessRequest
  <1> QED BY <1>1, <1>2, <1>3, <1>4, <1>5, <1>6

\* The view goes on to pc, or is answered, after the calls h.
LEMMA GoesOn ==
    ASSUME IInv, TrailInv, NEW r \in Request, rq[r].pc \in InView, NEW pc \in InView,
           NEW h, Goes(r, [rq[r] EXCEPT !.pc = pc, !.hooks = h]),
           pc = "view" => h = <<>>,
           HasTrail(rq[r]) =>
             /\ pc = "create" => h = <<"passed">>
             /\ pc = "after" =>
                  h = IF Kind[rq[r].view] = "async" THEN <<"passed">> ELSE <<"passed", "body">>
             /\ pc = "body" =>
                  h = IF Kind[rq[r].view] = "async" THEN <<"passed", "after">> ELSE <<"passed">>
    PROVE  TrailInv'
  <1> DEFINE x == [rq[r] EXCEPT !.pc = pc, !.hooks = h]
  <1>1. rq[r] \in Handling /\ Trail(rq[r])
    BY TrailHere
  <1>2. x.pc = pc /\ x.hooks = h /\ x.answer = rq[r].answer /\ x.view = rq[r].view
    BY <1>1 DEF Handling
  <1>3. rq[r].answer = "none"
    BY <1>1 DEF Trail
  <1>4. Goes(r, x)
    OBVIOUS
  <1> HIDE DEF x
  <1>5. Trail(x)
    BY <1>2, <1>3 DEF Trail, HasTrail, InView
  <1> QED BY <1>4, <1>5, TrailStep

LEMMA AnswersWith ==
    ASSUME IInv, TrailInv, NEW r \in Request, NEW h, NEW answer,
           TurnsBack(r, TopOf([rq[r] EXCEPT !.hooks = h]), answer),
           HasTrail(rq[r]) => Kept(Kind[rq[r].view], h, answer)
    PROVE  TrailInv'
  <1> DEFINE x == [TopOf([rq[r] EXCEPT !.hooks = h]) EXCEPT !.pc = "out", !.answer = answer]
  <1>1. rq[r] \in Handling
    BY TrailHere
  <1>2. x.pc = "out" /\ x.hooks = h /\ x.answer = answer /\ x.view = rq[r].view
    BY <1>1 DEF Handling, TopOf
  <1>3. Goes(r, x)
    BY DEF TurnsBack
  <1> HIDE DEF x
  <1>4. Trail(x)
    BY <1>2 DEF Trail, HasTrail, InView
  <1> QED BY <1>3, <1>4, TrailStep

LEMMA EnterViewTrail == ASSUME IInv, TrailInv, NEW r \in Request, EnterView(r) PROVE TrailInv'
  <1> DEFINE pc == IF HasHooks(r) THEN "view" ELSE "create"
             x == [rq[r] EXCEPT !.pc = pc]
  <1>1. rq[r].pc = "in" /\ Goes(r, x)
    BY DEF EnterView, At
  <1>2. /\ rq[r] \in Handling /\ Trail(rq[r])
        /\ HasTrail(rq[r]) => HasHooks(r)
    BY TrailHere
  <1>3. rq[r].hooks = <<>> /\ rq[r].answer = "none"
    BY <1>1, <1>2 DEF Trail
  <1>4. /\ x.pc \in {"view", "create"} /\ x.hooks = <<>> /\ x.answer = "none"
        /\ x.view = rq[r].view /\ (HasTrail(rq[r]) => x.pc = "view")
    BY <1>2, <1>3 DEF Handling
  <1> HIDE DEF x
  <1>5. Trail(x)
    BY <1>4 DEF Trail, HasTrail
  <1> QED BY <1>1, <1>5, TrailStep

LEMMA BeforeTrail == ASSUME IInv, TrailInv, NEW r \in Request, BeforeHook(r) PROVE TrailInv'
  <1>1. rq[r].pc = "view" /\ rq[r].pc \in InView
    BY DEF BeforeHook, At, InView
  <1>2. /\ rq[r] \in Handling /\ Trail(rq[r])
        /\ HasTrail(rq[r]) => Kind[rq[r].view] \in {"class", "async"}
    BY TrailHere
  <1>3. \A what \in Call : Called(r, what) = [rq[r] EXCEPT !.hooks = <<what>>]
    BY <1>1, <1>2, Calls, CallIs DEF Trail
  <1>4. {"passed", "answered", "raised"} \subseteq Call
    BY DEF Call
  <1>5. CASE Goes(r, [Called(r, "passed") EXCEPT !.pc = "create"])
    <2>1. [Called(r, "passed") EXCEPT !.pc = "create"]
          = [rq[r] EXCEPT !.pc = "create", !.hooks = <<"passed">>]
      BY <1>2, <1>3, <1>4 DEF Handling
    <2>2. "create" \in InView
      BY DEF InView
    <2> QED BY <1>1, <1>5, <2>1, <2>2, GoesOn
  <1>6. ASSUME NEW what \in {"answered", "raised"}, NEW a \in {"hook", "error"},
               TurnsBack(r, TopOf(Called(r, what)), a)
        PROVE  TrailInv'
    <2>1. TurnsBack(r, TopOf([rq[r] EXCEPT !.hooks = <<what>>]), a)
      BY <1>3, <1>4, <1>6
    <2>2. Kept(Kind[rq[r].view], <<what>>, a)
      BY KeptAt
    <2> QED BY <2>1, <2>2, AnswersWith
  <1>7. \/ Goes(r, [Called(r, "passed") EXCEPT !.pc = "create"])
        \/ \E what \in {"answered", "raised"}, a \in {"hook", "error"} :
             TurnsBack(r, TopOf(Called(r, what)), a)
    BY DEF BeforeHook
  <1> QED BY <1>5, <1>6, <1>7

LEMMA CreateTrail ==
    ASSUME IInv, TrailInv, NEW r \in Request, CallFunction(r) \/ CreateView(r)
    PROVE  TrailInv'
  <1>1. rq[r].pc = "create"
    BY DEF CallFunction, CreateView, At
  <1>2. /\ rq[r] \in Handling /\ Trail(rq[r])
        /\ HasTrail(rq[r]) => Kind[rq[r].view] \in {"class", "async"}
    BY TrailHere
  <1>3. HasTrail(rq[r]) => rq[r].hooks = <<"passed">>
    BY <1>1, <1>2 DEF Trail
  <1>4. CASE TurnsBack(r, TopOf(rq[r]), "error")
    <2>1. rq[r] = [rq[r] EXCEPT !.hooks = rq[r].hooks]
      BY <1>2 DEF Handling
    <2>2. HasTrail(rq[r]) => Kept(Kind[rq[r].view], rq[r].hooks, "error")
      BY <1>3, KeptAt
    <2>3. TurnsBack(r, TopOf([rq[r] EXCEPT !.hooks = rq[r].hooks]), "error")
      BY <1>4, <2>1
    <2> QED BY <2>2, <2>3, AnswersWith
  <1>5. ASSUME NEW pc \in {"after", "body"}, Injects(r, [rq[r] EXCEPT !.pc = pc]),
               HasTrail(rq[r]) => (pc = "after" <=> Kind[rq[r].view] = "async")
        PROVE  TrailInv'
    <2> DEFINE x == [[rq[r] EXCEPT !.pc = pc] EXCEPT
                        !.given = Sees([rq[r] EXCEPT !.pc = pc].at)]
    <2>1. /\ x.pc = pc /\ x.hooks = rq[r].hooks /\ x.answer = rq[r].answer
          /\ x.view = rq[r].view
      BY <1>2 DEF Handling
    <2>2. Goes(r, x)
      BY <1>5 DEF Injects, Goes
    <2>3. rq[r].answer = "none"
      BY <1>1, <1>2 DEF Trail, InView
    <2> HIDE DEF x
    <2>4. Trail(x)
      BY <1>3, <1>5, <2>1, <2>3 DEF Trail, HasTrail
    <2> QED BY <2>2, <2>4, TrailStep
  <1>6. CASE CallFunction(r)
    <2>1. ~HasTrail(rq[r])
      BY <1>6 DEF CallFunction, HasTrail, KindOf
    <2> QED BY <1>4, <1>5, <1>6, <2>1 DEF CallFunction
  <1>7. CASE CreateView(r)
    <2>1. CASE Injects(r, [rq[r] EXCEPT !.pc = IF KindOf(r) = "async" THEN "after" ELSE "body"])
      BY <1>5, <2>1 DEF KindOf
    <2> QED BY <1>4, <1>7, <2>1 DEF CreateView
  <1> QED BY <1>6, <1>7

LEMMA StartHelperTrail ==
    ASSUME IInv, TrailInv, NEW r \in Request, StartHelper(r) PROVE TrailInv'
  <1>1. PICK how \in {"copied", "bare"} : Goes(r, [rq[r] EXCEPT !.helper = how])
    BY DEF StartHelper
  <1> DEFINE x == [rq[r] EXCEPT !.helper = how]
  <1>2. rq[r] \in Handling /\ Trail(rq[r])
    BY TrailHere
  <1>3. /\ x.pc = rq[r].pc /\ x.hooks = rq[r].hooks /\ x.answer = rq[r].answer
        /\ x.view = rq[r].view
    BY <1>2 DEF Handling
  <1> HIDE DEF x
  <1>4. Trail(x)
    BY <1>2, <1>3 DEF Trail, HasTrail
  <1>5. Goes(r, x)
    BY <1>1 DEF x
  <1> QED BY <1>4, <1>5, TrailStep

LEMMA EndBodyTrail == ASSUME IInv, TrailInv, NEW r \in Request, EndBody(r) PROVE TrailInv'
  <1> DEFINE h == Append(rq[r].hooks, "body")
  <1>1. rq[r].pc = "body" /\ rq[r].pc \in InView
    BY DEF EndBody, At, InView
  <1>2. /\ rq[r] \in Handling /\ Trail(rq[r])
        /\ HasTrail(rq[r]) => Kind[rq[r].view] \in {"class", "async"}
    BY TrailHere
  <1>3. HasTrail(rq[r]) =>
          h = IF Kind[rq[r].view] = "async" THEN <<"passed", "after", "body">>
              ELSE <<"passed", "body">>
    BY <1>1, <1>2, Calls DEF Trail
  <1>4. Called(r, "body") = [rq[r] EXCEPT !.hooks = h]
    BY CallIs DEF Call
  <1> HIDE DEF h
  <1>5. CASE TurnsBack(r, TopOf(Called(r, "body")), "error")
    <2>1. HasTrail(rq[r]) => Kept(Kind[rq[r].view], h, "error")
      BY <1>3, KeptAt
    <2> QED BY <1>4, <1>5, <2>1, AnswersWith
  <1>6. CASE KindOf(r) = "class" /\ Goes(r, [Called(r, "body") EXCEPT !.pc = "after"])
    <2>1. [Called(r, "body") EXCEPT !.pc = "after"]
          = [rq[r] EXCEPT !.pc = "after", !.hooks = h]
      BY <1>2, <1>4 DEF Handling
    <2>2. "after" \in InView
      BY DEF InView
    <2>3. HasTrail(rq[r]) => h = <<"passed", "body">> /\ Kind[rq[r].view] # "async"
      BY <1>3, <1>6 DEF KindOf
    <2>4. Goes(r, [rq[r] EXCEPT !.pc = "after", !.hooks = h])
      BY <1>6, <2>1
    <2>5. "after" \notin {"view", "create", "body"}
      OBVIOUS
    <2> QED BY <1>1, <2>2, <2>3, <2>4, <2>5, GoesOn
  <1>7. CASE KindOf(r) # "class" /\ TurnsBack(r, TopOf(Called(r, "body")), "ok")
    <2>1. HasTrail(rq[r]) => Kept(Kind[rq[r].view], h, "ok")
      BY <1>2, <1>3, <1>7, KeptAt DEF KindOf
    <2> QED BY <1>4, <1>7, <2>1, AnswersWith
  <1> QED BY <1>5, <1>6, <1>7 DEF EndBody

LEMMA AfterTrail == ASSUME IInv, TrailInv, NEW r \in Request, AfterHook(r) PROVE TrailInv'
  <1> DEFINE h == IF HasHooks(r) THEN Append(rq[r].hooks, "after") ELSE rq[r].hooks
             to == IF HasHooks(r) THEN Called(r, "after") ELSE rq[r]
  <1>1. rq[r].pc = "after" /\ rq[r].pc \in InView
    BY DEF AfterHook, At, InView
  <1>2. /\ rq[r] \in Handling /\ Trail(rq[r])
        /\ HasTrail(rq[r]) => HasHooks(r) /\ Kind[rq[r].view] \in {"class", "async"}
    BY TrailHere
  <1>3. HasTrail(rq[r]) =>
          h = IF Kind[rq[r].view] = "async" THEN <<"passed", "after">>
              ELSE <<"passed", "body", "after">>
    BY <1>1, <1>2, Calls DEF Trail
  <1>4. to = [rq[r] EXCEPT !.hooks = h]
    <2>1. rq[r] = [rq[r] EXCEPT !.hooks = rq[r].hooks]
      BY <1>2 DEF Handling
    <2> QED BY <2>1, CallIs DEF Call
  <1>5. \/ TurnsBack(r, TopOf(to), "error")
        \/ KindOf(r) = "async" /\ Goes(r, [to EXCEPT !.pc = "body"])
        \/ KindOf(r) # "async" /\ TurnsBack(r, TopOf(to), "ok")
    BY DEF AfterHook
  <1> HIDE DEF h, to
  <1>6. CASE TurnsBack(r, TopOf(to), "error")
    <2>1. HasTrail(rq[r]) => Kept(Kind[rq[r].view], h, "error")
      BY <1>3, KeptAt
    <2> QED BY <1>4, <1>6, <2>1, AnswersWith
  <1>7. CASE KindOf(r) = "async" /\ Goes(r, [to EXCEPT !.pc = "body"])
    <2>1. [to EXCEPT !.pc = "body"] = [rq[r] EXCEPT !.pc = "body", !.hooks = h]
      BY <1>2, <1>4 DEF Handling
    <2>2. "body" \in InView
      BY DEF InView
    <2>3. HasTrail(rq[r]) => h = <<"passed", "after">> /\ Kind[rq[r].view] = "async"
      BY <1>3, <1>7 DEF KindOf
    <2>4. Goes(r, [rq[r] EXCEPT !.pc = "body", !.hooks = h])
      BY <1>7, <2>1
    <2>5. "body" \notin {"view", "create", "after"}
      OBVIOUS
    <2> QED BY <1>1, <2>2, <2>3, <2>4, <2>5, GoesOn
  <1>8. CASE KindOf(r) # "async" /\ TurnsBack(r, TopOf(to), "ok")
    <2>1. HasTrail(rq[r]) => Kept(Kind[rq[r].view], h, "ok")
      BY <1>2, <1>3, <1>8, KeptAt DEF KindOf
    <2> QED BY <1>4, <1>8, <2>1, AnswersWith
  <1> QED BY <1>5, <1>6, <1>7, <1>8

LEMMA NextTrail == ASSUME IInv, TrailInv, [Next]_vars PROVE TrailInv'
  <1>1. ASSUME rq' = rq PROVE TrailInv'
    BY <1>1 DEF TrailInv, Trail, HasTrail, Kept, Within, Wraps, InView
  <1>2. ASSUME NEW r \in Request,
               \/ Arrive(r) \/ InjectRequest(r) \/ ProcessRequest(r) \/ ProcessResponse(r)
               \/ LogReceived(r) \/ LogResponse(r) \/ Answered(r)
        PROVE  TrailInv'
    BY <1>2, MiddlewareTrail
  <1>3. ASSUME NEW r \in Request,
               EnterView(r) \/ BeforeHook(r) \/ EndBody(r) \/ AfterHook(r)
        PROVE  TrailInv'
    BY <1>3, EnterViewTrail, BeforeTrail, EndBodyTrail, AfterTrail
  <1>4. ASSUME NEW r \in Request, CallFunction(r) \/ CreateView(r) PROVE TrailInv'
    BY <1>4, CreateTrail
  <1>5. ASSUME NEW r \in Request, StartHelper(r) PROVE TrailInv'
    BY <1>5, StartHelperTrail
  <1>6. ASSUME NEW r \in Request, LogInBody(r) \/ LogInHelper(r) PROVE TrailInv'
    BY <1>1, <1>6 DEF LogInBody, LogInHelper
  <1>7. ASSUME NEW a \in Actor, EndFilter(a) PROVE TrailInv'
    BY <1>1, <1>7 DEF EndFilter
  <1>8. CASE UNCHANGED vars
    BY <1>1, <1>8 DEF vars
  <1> QED BY <1>2, <1>3, <1>4, <1>5, <1>6, <1>7, <1>8 DEF Next

\* The promise is kept at each place in the wrapper.
LEMMA TrailKept == IInv /\ TrailInv => HooksRun
  <1> SUFFICES ASSUME IInv, TrailInv, NEW r \in Request, rq[r].view # None, HasHooks(r)
               PROVE  Kept(Kind[rq[r].view], rq[r].hooks, rq[r].answer)
    BY DEF HooksRun, Hooked, Ran, KindOf, Kept, Within
  <1>1. rq[r] \in Handling /\ Trail(rq[r]) /\ HasTrail(rq[r])
    BY TrailHere
  <1>2. rq[r].pc \in {"new", "in", "view", "create", "body", "after", "out", "done"}
    BY Fields
  <1>3. CASE rq[r].pc = "out"
    BY <1>1, <1>3 DEF Trail
  <1>4. CASE rq[r].pc # "out"
    <2>1. rq[r].answer = "none"
      BY <1>1, <1>2, <1>4 DEF Trail, InView
    <2>2. rq[r].hooks \in {<<>>, <<"passed">>, <<"passed", "body">>, <<"passed", "after">>}
      <3>1. CASE rq[r].pc \in {"new", "in", "view", "done"}
        BY <1>1, <3>1 DEF Trail
      <3>2. CASE rq[r].pc \in {"create", "after", "body"}
        BY <1>1, <3>2 DEF Trail
      <3> QED BY <1>2, <1>4, <3>1, <3>2
    <2> QED BY <2>1, <2>2, KeptAt
  <1> QED BY <1>3, <1>4

\* The body of a class view that was wrapped once, sync or async, runs only
\* after its first hook has let the request pass, and a sync one that answers
\* without an error has called that hook, its body and the other hook, once
\* each and in this order, for any requests, views, URLs and middlewares
\* (__wrap_class_based_view).
THEOREM HooksAlwaysRun == ASSUME Deployed PROVE Spec => []HooksRun
  <1>1. Init => TrailInv
    BY InitTrail
  <1>2. IInv /\ TrailInv /\ [Next]_vars => TrailInv'
    BY NextTrail
  <1>3. Spec => []IInv
    BY Invariance
  <1> QED BY <1>1, <1>2, <1>3, TrailKept, PTL DEF Spec

-----------------------------------------------------------------------------
(* The trace ids of log records.                                             *)

FilterTyped ==
    /\ trace \in [Request -> Id \cup {None}]
    /\ filter \in [Actor -> [busy : BOOLEAN, req : Request \cup {None}, id : Id \cup {None}]]
    /\ past \in [records : SUBSET Record, raced : SUBSET Request]
    /\ IsFiniteSet(past.records)

\* A call of the filter. That for a request whose calls never overlapped is the
\* only one, and knows what is stored in the request.
Calling(a) ==
    /\ filter[a].id # None => filter[a].req # None /\ filter[a].id[1] = filter[a].req
    /\ filter[a].req \in Request \ past.raced =>
         /\ filter[a].id = trace[filter[a].req]
         /\ \A b \in Actor : filter[b].req = filter[a].req => b = a
    /\ filter[a].busy /\ IsInjected(a) => filter[a].req = a[2]

\* A helper with a copied context sees the request of its view.
HelperInv(r) ==
    /\ rq[r].helper = "copied" => current[Helper(r)] = r
    /\ rq[r].helper = "none" => ~filter[Helper(r)].busy

RecordInv ==
    \A rec \in past.records :
      /\ rec.injected => rec.id # None /\ rec.id[1] = rec.by
      /\ rec.id # None /\ rec.id[1] \notin past.raced => rec.id = trace[rec.id[1]]

TraceInv == /\ FilterTyped
            /\ \A r \in Request : trace[r] # None => trace[r][1] = r
            /\ \A a \in Actor : Calling(a)
            /\ \A r \in Request : HelperInv(r)
            /\ RecordInv

LEMMA InitTrace == Init => TraceInv
  <1> SUFFICES ASSUME Init PROVE TraceInv
    OBVIOUS
  <1>1. IsFiniteSet(past.records)
    BY FS_EmptySet DEF Init
  <1>2. FilterTyped
    BY <1>1 DEF Init, FilterTyped, Quiet
  <1>3. (\A r \in Request : trace[r] = None) /\ \A a \in Actor : Calling(a)
    BY Nobody DEF Init, Calling, Quiet
  <1>4. \A r \in Request : HelperInv(r)
    BY DEF Init, HelperInv, NewRequest, Quiet, Actor
  <1>5. RecordInv
    BY DEF Init, RecordInv
  <1> QED BY <1>2, <1>3, <1>4, <1>5 DEF TraceInv

\* Who is injected is a matter of the handler, and of how it started a helper.
LEMMA WhoIsInjected ==
    ASSUME NEW r \in Request
    PROVE  /\ IsInjected(Main(r)) <=> rq[r].injected
           /\ IsInjected(Helper(r)) <=> rq[r].helper = "copied"
           /\ Main(r)[2] = r /\ Helper(r)[2] = r
           /\ Main(r) \in Actor /\ Helper(r) \in Actor
  BY DEF IsInjected, Main, Helper, Actor

\* No record and no call of the filter. Nobody in a call becomes injected.
LEMMA NoRecord ==
    ASSUME TraceInv, UNCHANGED <<filter, trace, past>>,
           \A a \in Actor : filter[a].busy /\ IsInjected(a)' => IsInjected(a),
           \A r \in Request : HelperInv(r)'
    PROVE  TraceInv'
  <1>1. FilterTyped' /\ RecordInv'
    BY DEF TraceInv, FilterTyped, RecordInv
  <1>2. \A a \in Actor : Calling(a)'
    BY DEF TraceInv, Calling
  <1> QED BY <1>1, <1>2 DEF TraceInv

\* Every request stays as injected, and its helper what it is.
Steady == \A r \in Request : /\ rq'[r].injected = rq[r].injected
                             /\ rq'[r].helper = rq[r].helper

LEMMA SteadyFacts ==
    ASSUME Steady
    PROVE  \A a \in Actor : IsInjected(a)' <=> IsInjected(a)
  <1>1. \A a \in Actor : a[2] \in Request
    BY DEF Actor, Main, Helper
  <1> QED BY <1>1 DEF Steady, IsInjected

LEMMA SteadyTrace ==
    ASSUME TraceInv, Steady, UNCHANGED <<current, filter, trace, past>> PROVE TraceInv'
  <1>1. \A r \in Request : HelperInv(r)'
    BY DEF TraceInv, HelperInv, Steady
  <1> QED BY <1>1, SteadyFacts, NoRecord

LEMMA GoesSteady ==
    ASSUME IInv, NEW r \in Request, NEW x, Goes(r, x),
           x.injected = rq[r].injected, x.helper = rq[r].helper
    PROVE  Steady
  BY DEF IInv, Typed, Goes, Steady

LEMMA HandlersAreSteady ==
    ASSUME IInv, NEW r \in Request,
           \/ Arrive(r) \/ ProcessRequest(r) \/ ProcessResponse(r)
           \/ LogReceived(r) \/ LogResponse(r)
           \/ EnterView(r) \/ BeforeHook(r) \/ CallFunction(r) \/ CreateView(r)
           \/ EndBody(r) \/ AfterHook(r)
    PROVE  Steady
  <1>1. rq[r] \in Handling
    BY Here
  <1> DEFINE Alike(x) == x.injected = rq[r].injected /\ x.helper = rq[r].helper
  <1>2. ASSUME NEW x, Goes(r, x), Alike(x) PROVE Steady
    BY <1>2, GoesSteady
  <1>3. Alike(Deeper(r)) /\ Alike(Outer(r)) /\ Alike(rq[r])
    BY <1>1 DEF Deeper, Outer, Handling
  <1>4. \A what : Alike(Called(r, what))
    BY <1>1 DEF Called, Handling
  <1>5. ASSUME NEW to, NEW answer, TurnsBack(r, to, answer), Alike(to),
               \/ to \in {Outer(r), TopOf(rq[r])}
               \/ \E what : to = TopOf(Called(r, what))
        PROVE  Steady
    <2>1. Alike([to EXCEPT !.pc = "out", !.answer = answer])
      BY <1>1, <1>5 DEF Outer, TopOf, Called, Handling
    <2> QED BY <1>2, <1>5, <2>1 DEF TurnsBack
  <1>6. Alike(TopOf(rq[r])) /\ \A what : Alike(TopOf(Called(r, what)))
    BY <1>1 DEF TopOf, Called, Handling
  <1>7. ASSUME NEW pc, Goes(r, [rq[r] EXCEPT !.pc = pc]) PROVE Steady
    BY <1>1, <1>2, <1>7 DEF Handling
  <1>8. ASSUME NEW what, NEW pc, Goes(r, [Called(r, what) EXCEPT !.pc = pc]) PROVE Steady
    <2>1. Alike([Called(r, what) EXCEPT !.pc = pc])
      BY <1>1 DEF Called, Handling
    <2> QED BY <1>2, <1>8, <2>1
  <1>9. ASSUME NEW pc, Injects(r, [rq[r] EXCEPT !.pc = pc]) PROVE Steady
    <2> DEFINE x == [[rq[r] EXCEPT !.pc = pc] EXCEPT
                        !.given = Sees([rq[r] EXCEPT !.pc = pc].at)]
    <2>1. Alike(x)
      BY <1>1 DEF Handling
    <2>2. Goes(r, x)
      BY <1>9 DEF Injects, Goes
    <2> HIDE DEF x
    <2> QED BY <1>2, <2>1, <2>2
  <1>10. ASSUME Arrive(r) PROVE Steady
    <2>1. PICK c, v : Goes(r, [rq[r] EXCEPT !.pc = "in", !.at = c, !.view = v])
      BY <1>10 DEF Arrive
    <2>2. Alike([rq[r] EXCEPT !.pc = "in", !.at = c, !.view = v])
      BY <1>1 DEF Handling
    <2> QED BY <1>2, <2>1, <2>2
  <1> HIDE DEF Alike
  <1>11. ProcessRequest(r) => Steady
    BY <1>2, <1>3, <1>5 DEF ProcessRequest
  <1>12. ProcessResponse(r) \/ LogReceived(r) \/ LogResponse(r) => Steady
    BY <1>2, <1>3 DEF ProcessResponse, LogReceived, LogResponse
  <1>13. EnterView(r) => Steady
    BY <1>7 DEF EnterView
  <1>14. BeforeHook(r) => Steady
    BY <1>5, <1>6, <1>8 DEF BeforeHook
  <1>15. CallFunction(r) \/ CreateView(r) => Steady
    BY <1>5, <1>6, <1>9 DEF CallFunction, CreateView
  <1>16. EndBody(r) => Steady
    <2>1. \/ TurnsBack(r, TopOf(Called(r, "body")), "error")
          \/ Goes(r, [Called(r, "body") EXCEPT !.pc = "after"])
          \/ TurnsBack(r, TopOf(Called(r, "body")), "ok")
          \/ ~EndBody(r)
      BY DEF EndBody
    <2> QED BY <1>5, <1>6, <1>8, <2>1
  <1>17. AfterHook(r) => Steady
    <2>1. ASSUME AfterHook(r), HasHooks(r) PROVE Steady
      BY <1>5, <1>6, <1>8, <2>1 DEF AfterHook
    <2>2. ASSUME AfterHook(r), ~HasHooks(r) PROVE Steady
      BY <1>5, <1>6, <1>7, <2>2 DEF AfterHook
    <2> QED BY <2>1, <2>2
  <1> QED BY <1>10, <1>11, <1>12, <1>13, <1>14, <1>15, <1>16, <1>17

\* A call of the filter begins: another one for its request would have raced it.
LEMMA BeginsTrace ==
    ASSUME IInv, TraceInv, Steady, NEW a \in Actor, NEW c \in Context,
           BeginsFilter(a, c), IsInjected(a) => Sees(c) = a[2],
           \A r \in Request : a = Helper(r) => rq[r].helper # "none",
           UNCHANGED <<current, trace>>
    PROVE  TraceInv'
  <1> DEFINE q == Sees(c)
             id == IF q = None THEN None ELSE trace[q]
             new == {p \in {q} \cap Request : \E b \in Actor : filter[b].req = p}
  <1>1. FilterTyped /\ RecordInv /\ \A b \in Actor : Calling(b)
    BY DEF TraceInv
  <1>2. q \in Request \cup {None} /\ id \in Id \cup {None}
        /\ (id # None => q # None /\ id[1] = q)
    BY DEF IInv, Typed, Sees, TraceInv, FilterTyped
  <1>3. /\ DOMAIN filter' = Actor
        /\ filter'[a] = [busy |-> TRUE, req |-> q, id |-> id]
        /\ \A b \in Actor : b # a => filter'[b] = filter[b]
        /\ past'.records = past.records /\ past'.raced = past.raced \cup new
    BY <1>1 DEF FilterTyped, BeginsFilter
  <1>4. FilterTyped'
    BY <1>1, <1>2 DEF FilterTyped, BeginsFilter
  <1>5. \A b \in Actor : IsInjected(b)' <=> IsInjected(b)
    BY SteadyFacts
  <1>6. Calling(a)'
    <2>1. ASSUME q \in Request \ past'.raced, NEW b \in Actor, filter'[b].req = q
          PROVE  b = a
      BY <1>3, <2>1
    <2>2. filter'[a].busy /\ IsInjected(a)' => filter'[a].req = a[2]
      BY <1>3, <1>5
    <2> QED BY <1>2, <1>3, <2>1, <2>2, Nobody DEF Calling
  <1>7. ASSUME NEW b \in Actor, b # a PROVE Calling(b)'
    <2>1. filter'[b] = filter[b] /\ Calling(b)
      BY <1>1, <1>3, <1>7
    <2>2. ASSUME filter[b].req \in Request \ past'.raced
          PROVE  /\ filter[b].id = trace[filter[b].req]
                 /\ \A d \in Actor : filter'[d].req = filter[b].req => d = b
      <3>1. filter[b].req \in Request \ past.raced /\ filter[b].req # q
        BY <1>3, <2>2
      <3> QED BY <1>3, <2>1, <3>1 DEF Calling
    <2> QED BY <1>5, <2>1, <2>2 DEF Calling
  <1>8. \A r \in Request : HelperInv(r)'
    <2>1. \A r \in Request : Helper(r) \in Actor
      BY DEF Actor
    <2> QED BY <1>3, <2>1 DEF TraceInv, HelperInv, Steady
  <1>9. RecordInv'
    BY <1>1, <1>3 DEF RecordInv
  <1> QED BY <1>4, <1>6, <1>7, <1>8, <1>9 DEF TraceInv

\* The id that is generated is of the request.
LEMMA GeneratedType ==
    ASSUME FilterTyped, NEW q \in Request
    PROVE  Generated(q) \in Id /\ Generated(q)[1] = q /\ Generated(q) # None
  <1> DEFINE ids == {rec.id : rec \in past.records}
             S == {id \in ids \ {None} : id[1] = q}
  <1>1. IsFiniteSet(ids)
    <2> DEFINE f == [rec \in past.records |-> rec.id]
    <2>1. f \in Surjection(past.records, ids)
      BY DEF Surjection
    <2> QED BY <2>1, FS_Surjection DEF FilterTyped
  <1>2. IsFiniteSet(S)
    BY <1>1, FS_Subset
  <1>3. Cardinality(S) \in Nat
    BY <1>2, FS_CardinalityType
  <1> HIDE DEF S
  <1>4. <<q, 1 + Cardinality(S)>> \in Id /\ <<q, 1 + Cardinality(S)>>[1] = q
    BY <1>3 DEF Id
  <1> QED BY <1>4, IdAssumption DEF Generated, S

\* A call ends: what it writes is what is stored, unless another one raced it.
LEMMA EndTrace == ASSUME IInv, TraceInv, NEW a \in Actor, EndFilter(a) PROVE TraceInv'
  <1> DEFINE f == filter[a]
             fresh == f.req # None /\ f.id = None
             id == IF fresh THEN Generated(f.req) ELSE f.id
             new == [by |-> a[2], injected |-> IsInjected(a), id |-> id]
  <1>1. FilterTyped /\ RecordInv /\ (\A b \in Actor : Calling(b))
        /\ \A r \in Request : trace[r] # None => trace[r][1] = r
    BY DEF TraceInv
  <1>2. /\ Written(a, id) /\ f.busy
        /\ trace' = IF fresh THEN [trace EXCEPT ![f.req] = id] ELSE trace
        /\ UNCHANGED <<server, current, rq, service>>
    BY DEF EndFilter
  <1>3. /\ f.req \in Request \cup {None} /\ f.id \in Id \cup {None}
        /\ a[2] \in Request /\ IsInjected(a) \in BOOLEAN
    <2>1. a[2] \in Request
      BY DEF Actor, Main, Helper
    <2>2. IsInjected(a) \in BOOLEAN
      BY <2>1, Here DEF IsInjected, Handling
    <2> QED BY <1>1, <2>1, <2>2 DEF FilterTyped
  <1>4. fresh => f.req \in Request /\ id \in Id /\ id[1] = f.req /\ id # None
    BY <1>1, <1>3, GeneratedType
  <1>5. id \in Id \cup {None} /\ new \in Record
    BY <1>3, <1>4 DEF Record
  <1> HIDE DEF fresh
  <1>6. /\ DOMAIN filter' = Actor /\ filter'[a] = Quiet
        /\ \A b \in Actor : b # a => filter'[b] = filter[b]
        /\ past'.records = past.records \cup {new} /\ past'.raced = past.raced
    BY <1>1, <1>2 DEF FilterTyped, Written
  <1>7. \A r \in Request : trace'[r] = IF fresh /\ r = f.req THEN id ELSE trace[r]
    BY <1>1, <1>2, <1>4 DEF FilterTyped
  <1>8. \A b \in Actor : IsInjected(b)' <=> IsInjected(b)
    BY <1>2 DEF IsInjected
  <1> HIDE DEF id, new
  <1>9. FilterTyped'
    <2>1. IsFiniteSet(past'.records)
      BY <1>1, <1>6, FS_AddElement DEF FilterTyped
    <2>2. trace' \in [Request -> Id \cup {None}]
      BY <1>1, <1>2, <1>4 DEF FilterTyped
    <2>3. filter' \in [Actor -> [busy : BOOLEAN, req : Request \cup {None}, id : Id \cup {None}]]
      BY <1>1, <1>2 DEF FilterTyped, Written, Quiet
    <2>4. past' \in [records : SUBSET Record, raced : SUBSET Request]
      BY <1>1, <1>2, <1>5 DEF FilterTyped, Written, new
    <2> QED BY <2>1, <2>2, <2>3, <2>4 DEF FilterTyped
  <1>10. \A r \in Request : trace'[r] # None => trace'[r][1] = r
    BY <1>1, <1>4, <1>7
  <1>11. ASSUME NEW b \in Actor PROVE Calling(b)'
    <2>1. CASE b = a
      BY <1>6, <2>1, Nobody DEF Calling, Quiet
    <2>2. CASE b # a
      <3>1. filter'[b] = filter[b] /\ Calling(b)
        BY <1>1, <1>6, <2>2
      <3>2. ASSUME filter[b].req \in Request \ past.raced
            PROVE  /\ trace'[filter[b].req] = trace[filter[b].req]
                   /\ \A d \in Actor : filter'[d].req = filter[b].req => d = b
        <4>1. f.req # filter[b].req
          BY <2>2, <3>1, <3>2 DEF Calling
        <4>2. Quiet.req # filter[b].req
          BY <3>2, Nobody DEF Quiet
        <4> QED BY <1>6, <1>7, <3>1, <3>2, <4>1, <4>2 DEF Calling
      <3> QED BY <1>6, <1>8, <3>1, <3>2 DEF Calling
    <2> QED BY <2>1, <2>2
  <1>12. \A r \in Request : HelperInv(r)'
    <2>1. \A r \in Request : Helper(r) \in Actor
      BY DEF Actor
    <2> QED BY <1>2, <1>6, <2>1 DEF TraceInv, HelperInv, Quiet
  <1>13. RecordInv'
    <2>1. /\ new.injected => new.id # None /\ new.id[1] = new.by
          /\ new.id # None /\ new.id[1] \notin past.raced => new.id = trace'[new.id[1]]
      <3>1. new.by = a[2] /\ new.injected = IsInjected(a) /\ new.id = id
        BY DEF new
      <3>2. IsInjected(a) => f.req = a[2] /\ f.req # None
        BY <1>1, <1>2, <1>3, Nobody DEF Calling
      <3>3. CASE fresh
        BY <1>4, <1>7, <3>1, <3>2, <3>3
      <3>4. CASE ~fresh
        <4>1. id = f.id /\ trace' = trace
          BY <1>2, <3>4 DEF id
        <4>2. f.id # None => f.req \in Request /\ f.id[1] = f.req
          BY <1>1, <1>3 DEF Calling
        <4>3. f.req # None => f.id # None
          BY <3>4 DEF fresh
        <4> QED BY <1>1, <3>1, <3>2, <4>1, <4>2, <4>3 DEF Calling
      <3> QED BY <3>3, <3>4
    <2>2. ASSUME NEW rec \in past.records
          PROVE  /\ rec.injected => rec.id # None /\ rec.id[1] = rec.by
                 /\ rec.id # None /\ rec.id[1] \notin past.raced => rec.id = trace'[rec.id[1]]
      <3>1. /\ rec.injected => rec.id # None /\ rec.id[1] = rec.by
            /\ rec.id # None /\ rec.id[1] \notin past.raced => rec.id = trace[rec.id[1]]
        BY <1>1 DEF RecordInv
      <3>2. ASSUME rec.id # None, rec.id[1] \notin past.raced
            PROVE  trace'[rec.id[1]] = trace[rec.id[1]]
        <4>1. rec.id[1] \in Request
          BY <1>1, <3>2 DEF FilterTyped, Record, Id
        <4>2. ASSUME fresh, rec.id[1] = f.req PROVE FALSE
          <5>1. trace[f.req] = f.id /\ f.id = None
            BY <1>1, <3>2, <4>1, <4>2 DEF Calling, fresh
          <5> QED BY <3>1, <3>2, <4>2, <5>1
        <4> QED BY <1>7, <4>1, <4>2
      <3> QED BY <3>1, <3>2
    <2> QED BY <1>6, <2>1, <2>2 DEF RecordInv
  <1> QED BY <1>9, <1>10, <1>11, <1>12, <1>13 DEF TraceInv

\* Records of a handler and of a helper.
LEMMA LogTrace ==
    ASSUME IInv, TraceInv, NEW r \in Request,
           LogReceived(r) \/ LogResponse(r) \/ LogInBody(r) \/ LogInHelper(r)
    PROVE  TraceInv'
  <1>1. CASE LogReceived(r) \/ LogResponse(r) \/ LogInBody(r)
    <2>1. BeginsFilter(Main(r), rq[r].at) /\ UNCHANGED <<current, trace>>
      BY <1>1 DEF LogReceived, LogResponse, LogInBody
    <2>2. Steady
      BY <1>1, HandlersAreSteady DEF LogInBody, Steady
    <2>3. rq[r].pc \notin Over
      BY <1>1 DEF LogReceived, LogResponse, LogInBody, AtMiddleware, At, Over
    <2>4. rq[r].at \in Context
      BY <2>3, Here DEF HandlerInv
    <2>5. IsInjected(Main(r)) => Sees(rq[r].at) = Main(r)[2]
      BY WhoIsInjected, Here
    <2> QED BY <2>1, <2>2, <2>4, <2>5, WhoIsInjected, Contexts, BeginsTrace
  <1>2. CASE LogInHelper(r)
    <2>1. BeginsFilter(Helper(r), Helper(r)) /\ rq[r].helper # "none"
          /\ UNCHANGED <<current, trace, rq>>
      BY <1>2 DEF LogInHelper
    <2>2. Steady
      BY <2>1 DEF Steady
    <2>3. IsInjected(Helper(r)) => Sees(Helper(r)) = Helper(r)[2]
      BY WhoIsInjected DEF Sees, TraceInv, HelperInv
    <2> QED BY <2>1, <2>2, <2>3, WhoIsInjected, Contexts, BeginsTrace
  <1> QED BY <1>1, <1>2

\* Nobody is in a call when the request is injected.
LEMMA InjectTrace ==
    ASSUME IInv, TraceInv, NEW r \in Request, InjectRequest(r) PROVE TraceInv'
  <1> DEFINE x == [Deeper(r) EXCEPT !.injected = TRUE]
  <1>1. /\ rq[r] \in Handling /\ rq[r].pc = "in" /\ ~filter[Main(r)].busy
        /\ SetRequest(rq[r].at, r) /\ Goes(r, x) /\ UNCHANGED <<trace, filter, past>>
    BY Here DEF InjectRequest, AtMiddleware, At
  <1>2. x.helper = rq[r].helper
    BY <1>1 DEF Deeper, Handling
  <1> HIDE DEF x
  <1>3. /\ rq'[r] = x /\ \A s \in Request : s # r => rq'[s] = rq[s]
    BY <1>1 DEF IInv, Typed, Goes
  <1>4. ASSUME NEW a \in Actor, filter[a].busy, IsInjected(a)' PROVE IsInjected(a)
    <2>1. \A s \in Request : rq'[s].helper = rq[s].helper
      BY <1>2, <1>3
    <2>2. PICK s \in Request : a = Main(s) \/ a = Helper(s)
      BY DEF Actor
    <2>3. a = Main(s) => s # r
      BY <1>1, <1>4
    <2> QED BY <1>3, <1>4, <2>1, <2>2, <2>3 DEF IsInjected, Main, Helper
  <1>5. ASSUME NEW s \in Request PROVE HelperInv(s)'
    <2>1. rq[r].at \in Thread \cup {Main(r)}
      BY <1>1, Here DEF HandlerInv, Over
    <2>2. rq[r].at # Helper(s) /\ Helper(s) \in Context
      BY <2>1, Contexts
    <2>3. current'[Helper(s)] = current[Helper(s)]
      BY <1>1, <2>2 DEF IInv, Typed, SetRequest
    <2> QED BY <1>1, <1>2, <1>3, <2>3 DEF TraceInv, HelperInv
  <1> QED BY <1>1, <1>4, <1>5, NoRecord

\* A helper that gets a copy of the view's context sees the view's request.
LEMMA HelperTrace ==
    ASSUME IInv, TraceInv, NEW r \in Request, StartHelper(r) PROVE TraceInv'
  <1>1. PICK how \in {"copied", "bare"} :
          /\ Goes(r, [rq[r] EXCEPT !.helper = how])
          /\ current' = [current EXCEPT ![Helper(r)] =
                           IF how = "copied" THEN Sees(rq[r].at) ELSE None]
    BY DEF StartHelper
  <1>2. rq[r].pc = "body" /\ rq[r].helper = "none" /\ UNCHANGED <<trace, filter, past>>
    BY DEF StartHelper, At
  <1>3. rq[r] \in Handling /\ Sees(rq[r].at) = r
    BY <1>2, Here DEF InView
  <1>4. /\ rq'[r].helper = how /\ rq'[r].injected = rq[r].injected
        /\ \A s \in Request : s # r => rq'[s] = rq[s]
    BY <1>1, <1>3 DEF IInv, Typed, Goes, Handling
  <1>5. ~filter[Helper(r)].busy
    BY <1>2 DEF TraceInv, HelperInv
  <1>6. ASSUME NEW a \in Actor, filter[a].busy, IsInjected(a)' PROVE IsInjected(a)
    <2>1. PICK s \in Request : a = Main(s) \/ a = Helper(s)
      BY DEF Actor
    <2>2. a = Helper(s) => s # r
      BY <1>5, <1>6
    <2> QED BY <1>4, <1>6, <2>1, <2>2 DEF IsInjected, Main, Helper
  <1>7. ASSUME NEW s \in Request PROVE HelperInv(s)'
    <2>1. CASE s = r
      <3>1. Helper(r) \in Context
        BY Contexts
      <3>2. how = "copied" => current'[Helper(r)] = r
        BY <1>1, <1>3, <3>1 DEF IInv, Typed
      <3> QED BY <1>2, <1>4, <1>5, <2>1, <3>2 DEF HelperInv
    <2>2. CASE s # r
      <3>1. Helper(s) # Helper(r) /\ Helper(s) \in Context
        BY <2>2, Contexts
      <3>2. current'[Helper(s)] = current[Helper(s)]
        BY <1>1, <3>1 DEF IInv, Typed
      <3> QED BY <1>2, <1>4, <2>2, <3>2 DEF TraceInv, HelperInv
    <2> QED BY <2>1, <2>2
  <1> QED BY <1>2, <1>6, <1>7, NoRecord

LEMMA AnsweredTrace ==
    ASSUME IInv, TraceInv, NEW r \in Request, Answered(r) PROVE TraceInv'
  <1> DEFINE x == [NewRequest EXCEPT !.pc = "done", !.helper = rq[r].helper]
  <1>1. Goes(r, x) /\ UNCHANGED <<current, trace, filter, past>>
    BY DEF Answered
  <1>2. x.helper = rq[r].helper /\ ~x.injected
    BY DEF NewRequest
  <1> HIDE DEF x
  <1>3. rq'[r] = x /\ \A s \in Request : s # r => rq'[s] = rq[s]
    BY <1>1 DEF IInv, Typed, Goes
  <1>4. ASSUME NEW a \in Actor, IsInjected(a)' PROVE IsInjected(a)
    <2>1. PICK s \in Request : a = Main(s) \/ a = Helper(s)
      BY DEF Actor
    <2> QED BY <1>2, <1>3, <1>4, <2>1 DEF IsInjected, Main, Helper
  <1>5. \A s \in Request : HelperInv(s)'
    BY <1>1, <1>2, <1>3 DEF TraceInv, HelperInv
  <1> QED BY <1>1, <1>4, <1>5, NoRecord

LEMMA NextTrace == ASSUME IInv, TraceInv, [Next]_vars PROVE TraceInv'
  <1>1. ASSUME NEW r \in Request,
               \/ Arrive(r) \/ ProcessRequest(r) \/ ProcessResponse(r)
               \/ EnterView(r) \/ BeforeHook(r) \/ CallFunction(r) \/ CreateView(r)
               \/ EndBody(r) \/ AfterHook(r)
        PROVE  TraceInv'
    <2>1. Steady
      BY <1>1, HandlersAreSteady
    <2>2. UNCHANGED <<current, filter, trace, past>>
      BY <1>1 DEF Arrive, ProcessRequest, ProcessResponse, EnterView, BeforeHook,
                  CallFunction, CreateView, EndBody, AfterHook
    <2> QED BY <2>1, <2>2, SteadyTrace
  <1>2. ASSUME NEW r \in Request,
               LogReceived(r) \/ LogResponse(r) \/ LogInBody(r) \/ LogInHelper(r)
        PROVE  TraceInv'
    BY <1>2, LogTrace
  <1>3. ASSUME NEW r \in Request, InjectRequest(r) \/ StartHelper(r) \/ Answered(r)
        PROVE  TraceInv'
    BY <1>3, InjectTrace, HelperTrace, AnsweredTrace
  <1>4. ASSUME NEW a \in Actor, EndFilter(a) PROVE TraceInv'
    BY <1>4, EndTrace
  <1>5. CASE UNCHANGED vars
    BY <1>5, SteadyTrace DEF vars, Steady
  <1> QED BY <1>1, <1>2, <1>3, <1>4, <1>5 DEF Next

THEOREM TraceInvariance == ASSUME Deployed PROVE Spec => []TraceInv
  <1>1. Init => TraceInv
    BY InitTrace
  <1>2. IInv /\ TraceInv /\ [Next]_vars => TraceInv'
    BY NextTrace
  <1> QED BY <1>1, <1>2, Invariance, PTL DEF Spec

\* Log records behind InjectRequestMiddleware carry a trace id of their own
\* request, in the handler and in its helper, and there is one such id of a
\* request unless two calls of the filter for it overlapped
\* (TraceIdFromRequestLoggingFilter.filter).
THEOREM TracesAreOne == ASSUME Deployed PROVE Spec => []OneTrace
  <1>1. TraceInv => OneTrace
    <2> SUFFICES ASSUME TraceInv, NEW rec \in past.records, NEW other \in past.records
                 PROVE  /\ rec.injected => rec.id # None /\ rec.id[1] = rec.by
                        /\ rec.id # None /\ other.id # None /\ rec.id[1] = other.id[1]
                             => rec.id = other.id \/ rec.id[1] \in past.raced
      BY DEF OneTrace
    <2> QED BY DEF TraceInv, RecordInv
  <1> QED BY <1>1, TraceInvariance, PTL

\* The types of all that the server keeps.
THEOREM TypeCorrect == ASSUME Deployed PROVE Spec => []TypeOK
  <1> DEFINE S == server \in {"wsgi", "asgi"}
  <1>1. Init => S
    BY DEF Init
  <1>2. S /\ [Next]_vars => S'
    <2> SUFFICES ASSUME [Next]_vars PROVE server' = server
      OBVIOUS
    <2>1. ASSUME NEW r \in Request,
                 \/ Arrive(r) \/ InjectRequest(r) \/ ProcessRequest(r) \/ ProcessResponse(r)
                 \/ LogReceived(r) \/ LogResponse(r) \/ Answered(r)
                 \/ EnterView(r) \/ BeforeHook(r) \/ CallFunction(r) \/ CreateView(r)
                 \/ LogInBody(r) \/ StartHelper(r) \/ LogInHelper(r) \/ EndBody(r)
                 \/ AfterHook(r)
          PROVE  server' = server
      BY <2>1 DEF Arrive, InjectRequest, ProcessRequest, ProcessResponse, LogReceived,
                  LogResponse, Answered, EnterView, BeforeHook, CallFunction, CreateView,
                  LogInBody, StartHelper, LogInHelper, EndBody, AfterHook
    <2>2. ASSUME NEW a \in Actor, EndFilter(a) PROVE server' = server
      BY <2>2 DEF EndFilter
    <2>3. CASE UNCHANGED vars
      BY <2>3 DEF vars
    <2> QED BY <2>1, <2>2, <2>3 DEF Next
  <1>3. IInv /\ TraceInv /\ S => TypeOK
    BY DEF IInv, Typed, TraceInv, FilterTyped, TypeOK
  <1> HIDE DEF S
  <1> QED BY <1>1, <1>2, <1>3, Invariance, TraceInvariance, PTL DEF Spec

=============================================================================
