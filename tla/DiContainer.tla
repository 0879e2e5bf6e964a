----------------------------- MODULE DiContainer ------------------------------
(* The dependency injection container: singletons that are registered for an *)
(* interface, for themselves, as elements of a list and through a registry,  *)
(* and threads that resolve them while the scope that keeps the instances is *)
(* itself made on first use. Constructors have no dependencies here.         *)
EXTENDS Naturals, Sequences, FiniteSets

CONSTANTS Iface,      \* interfaces
          Class,      \* implementations
          RegIface,   \* the interface of the registry's objects
          Name,       \* keys of the registry
          Thread,     \* threads that resolve
          MaxRegs,    \* bound: registrations
          MaxMade,    \* bound: instances
          MaxScopes,  \* bound: scope objects
          None

ASSUME DiAssumption == /\ RegIface \in Iface
                       /\ Iface \cap Class = {}
                       /\ None \notin Iface \cup Class \cup {<<i>> : i \in Iface}
ASSUME DiBounds == MaxRegs \in Nat /\ MaxMade \in Nat /\ MaxScopes \in Nat \ {0}

Key == Iface \cup Class
ListKey == {<<i>> : i \in Iface}   \* the key list[i]

VARIABLES bind,   \* provider of each key: the class and the interface it knows
          multi,  \* classes of each list, in the order of registration
          entry,  \* registry of each scope: the class of each name
          scope,  \* number of the scope the container has bound, 0 for none
          one,    \* instance of each key in each scope, 0 for none
          list,   \* instances of each list in each scope
          made,   \* class of each instance, in the order of creation
          thread, \* where each thread is in Injector.get
          regs,   \* registrations so far
          past    \* history: how each class was registered and resolved

vars == <<bind, multi, entry, scope, one, list, made, thread, regs, past>>

Scope == 1..MaxScopes
Provider == [cls : Class, aware : Key \cup {None}]
Idle == [pc |-> "idle", key |-> None, prov |-> None, scope |-> 0]

\* A way a class can be registered: for an interface, for itself, in a list.
Way == ({"iface", "list"} \X Iface) \cup {<<"self", None>>}

TypeOK ==
    /\ bind \in [Key -> Provider \cup {None}]
    /\ multi \in [Iface -> Seq(Class)]
    /\ entry \in [Scope -> [Name -> Class \cup {None}]]
    /\ scope \in 0..MaxScopes
    /\ one \in [Scope -> [Key -> Nat]]
    /\ list \in [Scope -> [Iface -> Seq(Nat)]]
    /\ made \in Seq(Class)
    /\ thread \in [Thread ->
         [pc : {"idle", "bind", "read", "enter"},
          key : Key \cup ListKey \cup {None},
          prov : Provider \cup {None}, scope : 0..MaxScopes]]
    /\ regs \in Nat
    /\ past \in [ways : [Class -> SUBSET Way], early : SUBSET Class,
                 given : [Key -> SUBSET Nat]]

Init == /\ bind = [k \in Key |-> None]
        /\ multi = [i \in Iface |-> <<>>]
        /\ entry = [s \in Scope |-> [n \in Name |-> None]]
        /\ scope = 0
        /\ one = [s \in Scope |-> [k \in Key |-> 0]]
        /\ list = [s \in Scope |-> [i \in Iface |-> <<>>]]
        /\ made = <<>>
        /\ thread = [t \in Thread |-> Idle]
        /\ regs = 0
        /\ past = [ways |-> [c \in Class |-> {}], early |-> {},
                   given |-> [k \in Key |-> {}]]

-----------------------------------------------------------------------------
(* Registration, by the modules that are installed. It does not lock.        *)

Registers(c, way) == /\ regs < MaxRegs
                     /\ regs' = regs + 1
                     /\ past' = [past EXCEPT !.ways[c] = @ \cup {way}]

Prov(c, aware) == [cls |-> c, aware |-> aware]

\* register_singleton(i, c)
RegisterSingleton_NotAware(i, c) ==
    /\ Registers(c, <<"iface", i>>)
    /\ bind' = [bind EXCEPT ![i] = Prov(c, None), ![c] = Prov(c, None)]
    /\ UNCHANGED <<multi, entry, scope, one, list, made, thread>>
RegisterSingleton(i, c) ==
    /\ Registers(c, <<"iface", i>>)
    /\ bind' = [bind EXCEPT ![i] = Prov(c, None), ![c] = Prov(c, i)]
    /\ UNCHANGED <<multi, entry, scope, one, list, made, thread>>

\* register_singleton(c)
RegisterClass(c) ==
    /\ Registers(c, <<"self", None>>)
    /\ bind' = [bind EXCEPT ![c] = Prov(c, None)]
    /\ UNCHANGED <<multi, entry, scope, one, list, made, thread>>

BindsImpl_AwareOfIface(i, c) ==
    /\ Registers(c, <<"list", i>>)
    /\ multi' = [multi EXCEPT ![i] = Append(@, c)]
    /\ bind' = [bind EXCEPT ![c] = Prov(c, i)]
BindsImpl(i, c) ==
    /\ Registers(c, <<"list", i>>)
    /\ multi' = [multi EXCEPT ![i] = Append(@, c)]
    /\ bind' = [bind EXCEPT ![c] = Prov(c, c)]

\* register_singleton_impl(i, c)
RegisterImpl(i, c) ==
    /\ BindsImpl(i, c)
    /\ UNCHANGED <<entry, scope, one, list, made, thread>>

\* register of the registry: a name that is taken gets the new class.
Recorded(s, n, c) == [entry EXCEPT ![s][n] = c]

\* add_to_registry(registry, c, n): the registry is resolved on the spot, and
\* with it the first scope made: it is an instance of that scope.
AddToRegistry(n, c) ==
    /\ BindsImpl(RegIface, c)
    /\ scope' = IF scope = 0 THEN 1 ELSE scope
    /\ entry' = Recorded(scope', n, c)
    /\ UNCHANGED <<one, list, made, thread>>

-----------------------------------------------------------------------------
(* Resolution. The provider and the scope are read without the lock; the     *)
(* scope object is bound by whoever finds none. A list has one provider that *)
(* later registrations extend.                                               *)

Bound(k) == IF k \in Key THEN bind[k] # None ELSE multi[k[1]] # <<>>

Starts(t, k) ==
    /\ thread[t].pc = "idle" /\ Bound(k)
    /\ thread' = [thread EXCEPT ![t] =
         [pc |-> IF scope = 0 THEN "bind" ELSE "enter", key |-> k,
          prov |-> IF k \in Key THEN bind[k] ELSE None, scope |-> scope]]
    /\ UNCHANGED <<bind, multi, entry, scope, one, list, made, regs, past>>

StartGet(t) == \E k \in Key \cup ListKey : Starts(t, k)

\* Registry.get(n) resolves the class that was registered.
LookUp(t, n) == \E s \in Scope : entry[s][n] # None /\ Starts(t, entry[s][n])

BindScope(t) ==
    /\ thread[t].pc = "bind" /\ scope < MaxScopes
    /\ scope' = scope + 1
    /\ thread' = [thread EXCEPT ![t].pc = "read"]
    /\ UNCHANGED <<bind, multi, entry, one, list, made, regs, past>>

ReadScope(t) ==
    /\ thread[t].pc = "read"
    /\ thread' = [thread EXCEPT ![t].pc = "enter", ![t].scope = scope]
    /\ UNCHANGED <<bind, multi, entry, scope, one, list, made, regs, past>>

Enters(t) == /\ thread[t].pc = "enter"
             /\ thread' = [thread EXCEPT ![t] = Idle]
             /\ UNCHANGED <<bind, multi, entry, scope, regs>>

\* The instance that IfaceAwareSingletonScope.get finds for a key, 0 for none.
Found_KeyOnly(s, k, p) == one[s][k]
Found(s, k, p) ==
    IF one[s][k] # 0 THEN one[s][k]
    ELSE IF p.aware # None THEN one[s][p.aware] ELSE 0

Gives(k, m, early) ==
    past' = [past EXCEPT !.given[k] = @ \cup {m}, !.early = @ \cup early]

Find(t) ==
    /\ Enters(t)
    /\ LET k == thread[t].key
           m == Found(thread[t].scope, k, thread[t].prov)
       IN  k \in Key /\ m # 0 /\ Gives(k, m, {})
    /\ UNCHANGED <<one, list, made>>

Listed(s, c) ==
    \E i \in Iface : \E n \in DOMAIN list[s][i] : made[list[s][i][n]] = c

\* It is stored for the key and for the interface the provider knows. early
\* is history: a class was made for itself before a list had it.
Create(t) ==
    /\ Enters(t) /\ Len(made) < MaxMade
    /\ LET k == thread[t].key
           p == thread[t].prov
           s == thread[t].scope
           m == Len(made) + 1
       IN  /\ k \in Key /\ Found(s, k, p) = 0
           /\ made' = Append(made, p.cls)
           /\ one' = [one EXCEPT ![s] = [x \in Key |->
                        IF x \in {k, p.aware} THEN m ELSE @[x]]]
           /\ Gives(k, m, IF k \in Class /\ ~Listed(s, k) THEN {k} ELSE {})
    /\ UNCHANGED list

FindList(t) ==
    /\ Enters(t)
    /\ LET k == thread[t].key
       IN  k \in ListKey /\ list[thread[t].scope][k[1]] # <<>>
    /\ UNCHANGED <<one, list, made, past>>

\* Every class of the list is made anew; an instance that its class had is
\* replaced.
Last(c, cs) == CHOOSE n \in DOMAIN cs :
                 cs[n] = c /\ \A m \in DOMAIN cs : cs[m] = c => m <= n

CreateList_NotStored(t) ==
    /\ Enters(t)
    /\ LET k == thread[t].key
           s == thread[t].scope
           cs == multi[k[1]]
           n == Len(made)
       IN  /\ k \in ListKey /\ list[s][k[1]] = <<>>
           /\ n + Len(cs) <= MaxMade
           /\ made' = made \o cs
           /\ list' = [list EXCEPT ![s][k[1]] = [m \in DOMAIN cs |-> n + m]]
    /\ UNCHANGED <<one, past>>
CreateList(t) ==
    /\ Enters(t)
    /\ LET k == thread[t].key
           s == thread[t].scope
           cs == multi[k[1]]
           n == Len(made)
       IN  /\ k \in ListKey /\ list[s][k[1]] = <<>>
           /\ n + Len(cs) <= MaxMade
           /\ made' = made \o cs
           /\ list' = [list EXCEPT ![s][k[1]] = [m \in DOMAIN cs |-> n + m]]
           /\ one' = [one EXCEPT ![s] = [x \in Key |->
                        IF \E m \in DOMAIN cs : cs[m] = x
                        THEN n + Last(x, cs) ELSE @[x]]]
    /\ UNCHANGED past

Next == \/ \E c \in Class : \/ RegisterClass(c)
                            \/ \E i \in Iface : RegisterSingleton(i, c) \/ RegisterImpl(i, c)
                            \/ \E n \in Name : AddToRegistry(n, c)
        \/ \E t \in Thread : \/ StartGet(t) \/ BindScope(t) \/ ReadScope(t)
                             \/ \E n \in Name : LookUp(t, n)
                             \/ Find(t) \/ Create(t) \/ FindList(t) \/ CreateList(t)

Spec == Init /\ [][Next]_vars

-----------------------------------------------------------------------------
(* What the container promises. Threads that race for the first scope get    *)
(* two, with instances of their own: the promises are about one.             *)

OneScope == scope <= 1
Elements(i) == {list[1][i][n] : n \in DOMAIN list[1][i]}

\* Class c was registered once per list, in way w only, and if it is in a
\* list nothing resolved it before the list.
Repeats(c, i) == {n \in DOMAIN multi[i] : multi[i][n] = c}
Plain(c) == /\ \E w \in Way : past.ways[c] = {w}
            /\ \A i \in Iface : \A m, n \in Repeats(c, i) : m = n
            /\ c \in past.early => \A i \in Iface : Repeats(c, i) = {}

\* "The instance will be created only once per DI container at the moment of
\* first access" (register_singleton): whichever of its keys, its list or the
\* registry asks first, and whatever threads ask at once.
OneInstance == OneScope => \A m, n \in DOMAIN made :
                             made[m] = made[n] /\ Plain(made[m]) => m = n

\* A key that was answered is answered with the same instance ever after, by
\* the scope's get, even if its interface is bound again in between.
SameAnswer == OneScope => \A k \in Key :
                k \in Iface \/ Plain(k) =>
                  \A m, n \in past.given[k] : m = n

\* Interfaces that more than one class was registered for.
Rebound == {i \in Iface : \E c, d \in Class :
              c # d /\ <<"iface", i>> \in past.ways[c] \cap past.ways[d]}

\* An interface is answered with its implementation and a class with an
\* instance of its own, although both are kept for either key, for two
\* interfaces of a class and for lists (register_singleton and its siblings).
\* Not so for interfaces that were bound again, see OverrideHolds.
RightClass ==
    \A k \in Key : \A m \in past.given[k] :
      IF k \in Iface
      THEN k \notin Rebound => <<"iface", k>> \in past.ways[made[m]]
      ELSE (\A i \in Rebound : <<"iface", i>> \notin past.ways[k]) => made[m] = k

\* "subsequent invocations with the same `interface` argument will
\* __override__ previously set implementation" (register_singleton): who asks
\* for an interface first gets the class that it was bound to last. Not so when
\* a class bound to it before was resolved by itself, which keeps its instance
\* for the interface too.
OverrideHolds ==
    [][\A t \in Thread : \A i \in Iface :
         thread[t].pc = "enter" /\ thread[t].key = i /\ thread'[t].pc = "idle"
           /\ past.given[i] = {}
         => \A m \in past'.given[i] : made'[m] = thread[t].prov.cls]_vars

\* After a list was resolved, an implementation in it that is resolved by
\* itself, or through the registry, is the element of the list.
ListAgrees ==
    OneScope => \A i \in Iface : \A m \in Elements(i) :
      past.ways[made[m]] = {<<"list", i>>} /\ made[m] \notin past.early
        => past.given[made[m]] \subseteq Elements(i)
=============================================================================
