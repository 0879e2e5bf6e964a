-------------------------- MODULE DiContainerProofs --------------------------
(* Proofs about DiContainer, for any interfaces, classes and threads: one    *)
(* instance is made of a class that is registered in one way, a key that was *)
(* answered is answered the same again and with the right class, and a class *)
(* of a list is answered as the list has it.                                 *)
EXTENDS DiContainer, FiniteSetTheorems, TLAPS

Made(c) == \E m \in DOMAIN made : made[m] = c

\* What a provider for key k may be, given the ways its class was registered.
GoodProv(k, p, ways) ==
    /\ p \in Provider
    /\ IF k \in Iface THEN p.aware = None /\ <<"iface", k>> \in ways[p.cls]
       ELSE /\ p.cls = k
            /\ \/ p.aware = None /\ <<"self", None>> \in ways[k]
               \/ \E i \in Iface : p.aware = i /\ <<"iface", i>> \in ways[k]
               \/ \E i \in Iface : p.aware = k /\ <<"list", i>> \in ways[k]

\* Threads have the scope that was bound last, or an earlier one, and like the
\* container hold providers that were registered.
ThreadInv ==
    /\ \A k \in Key : bind[k] # None => GoodProv(k, bind[k], past.ways)
    /\ \A t \in Thread :
         /\ thread[t].pc = "read" => scope # 0
         /\ thread[t].pc = "enter" => thread[t].scope \in 1..scope
         /\ thread[t].pc # "idle" =>
              /\ thread[t].key # None
              /\ thread[t].key \in Key => GoodProv(thread[t].key, thread[t].prov, past.ways)

\* What a list was made of and what was made was registered.
WayInv ==
    /\ \A i \in Iface : \A n \in DOMAIN multi[i] : <<"list", i>> \in past.ways[multi[i][n]]
    /\ \A c \in Class : Made(c) => past.ways[c] # {}
    /\ \A s \in Scope, i \in Iface : \A n \in DOMAIN list[s][i] :
         list[s][i][n] \in DOMAIN made

\* Whoever could make a second instance of a plain class finds the first.
Kept(c) ==
    /\ \A i \in Iface : <<"iface", i>> \in past.ways[c] => one[1][i] # 0
    /\ \A i \in Iface : <<"list", i>> \in past.ways[c] =>
         one[1][c] # 0 /\ (c \notin past.early => list[1][i] # <<>>)
    /\ <<"self", None>> \in past.ways[c] => one[1][c] # 0

KeptInv == OneScope => \A c \in Class : Plain(c) /\ Made(c) => Kept(c)

IInv == TypeOK /\ ThreadInv /\ WayInv /\ KeptInv /\ OneInstance

-----------------------------------------------------------------------------
(* Facts about ways, lists and the first scope.                              *)

\* There is a first scope.
LEMMA FirstScope == 1 \in Scope /\ Scope \subseteq Nat \ {0}
  BY DiBounds DEF Scope

\* A plain class was registered in one way.
LEMMA OneWay ==
    ASSUME NEW c, Plain(c), NEW v \in past.ways[c], NEW w \in past.ways[c]
    PROVE  v = w
  BY DEF Plain

\* The index of a class that a list has once.
LEMMA LastOnce ==
    ASSUME NEW cs \in Seq(Class), NEW m \in DOMAIN cs,
           \A n \in DOMAIN cs : cs[n] = cs[m] => n = m
    PROVE  Last(cs[m], cs) = m
  <1>1. m \in Nat /\ m <= m
    OBVIOUS
  <1>2. cs[m] = cs[m] /\ \A n \in DOMAIN cs : cs[n] = cs[m] => n <= m
    BY <1>1
  <1>3. \A n \in DOMAIN cs :
          (cs[n] = cs[m] /\ \A l \in DOMAIN cs : cs[l] = cs[m] => l <= n) => n = m
    OBVIOUS
  <1> QED BY <1>2, <1>3 DEF Last

\* A class that a list has is last somewhere in it.
LEMMA LastType ==
    ASSUME NEW cs \in Seq(Class), NEW d \in DOMAIN cs
    PROVE  Last(cs[d], cs) \in DOMAIN cs /\ cs[Last(cs[d], cs)] = cs[d]
  <1> DEFINE X == {n \in DOMAIN cs : cs[n] = cs[d]}
             From(m) == {n \in X : n >= m}
             T == {From(m) : m \in X}
  <1>1. Len(cs) \in Nat /\ DOMAIN cs = 1..Len(cs) /\ d \in X
    OBVIOUS
  <1>2. IsFiniteSet(X)
    <2>1. IsFiniteSet(1..Len(cs))
      BY <1>1, FS_Interval
    <2> QED BY <1>1, <2>1, FS_Subset
  <1>3. IsWellFoundedOn(StrictSubsetOrdering(X), SUBSET X)
    BY <1>2, FS_StrictSubsetOrderingWellFounded, FS_FiniteSubsetsOfFinite
  <1>4. T \subseteq SUBSET X /\ T # {}
    BY <1>1
  <1>5. PICK U \in T : \A V \in T : <<V, U>> \notin StrictSubsetOrdering(X)
    <2> HIDE DEF T, X
    <2> QED BY <1>3, <1>4, WFMin
  <1>6. PICK m \in X : U = From(m)
    OBVIOUS
  <1>7. ASSUME NEW n \in X PROVE n <= m
    <2> SUFFICES ASSUME n > m PROVE FALSE
      BY <1>1
    <2>1. m \in Nat /\ n \in Nat /\ X \subseteq Nat
      BY <1>1
    <2> HIDE DEF X
    <2>2. From(n) \subseteq From(m) /\ m \in From(m) /\ m \notin From(n)
      <3>1. \A x \in X : x \in Nat /\ (x >= n => x >= m)
        BY <2>1
      <3>2. m >= m /\ ~(m >= n)
        BY <2>1
      <3> QED BY <3>1, <3>2
    <2>3. From(n) \in T /\ From(n) \in SUBSET X /\ From(m) \in SUBSET X
      OBVIOUS
    <2>4. <<From(n), From(m)>> \in StrictSubsetOrdering(X)
      <3> HIDE DEF From
      <3> QED BY <2>2, <2>3 DEF StrictSubsetOrdering
    <2> QED BY <1>5, <1>6, <2>3, <2>4
  <1>8. m \in DOMAIN cs /\ cs[m] = cs[d] /\ \A n \in DOMAIN cs : cs[n] = cs[d] => n <= m
    BY <1>7
  <1> QED BY <1>8 DEF Last

-----------------------------------------------------------------------------
(* Initial states.                                                           *)

LEMMA InitInv == Init => IInv
  <1> SUFFICES ASSUME Init PROVE IInv
    OBVIOUS
  <1>1. TypeOK
    <2>1. Idle \in [pc : {"idle", "bind", "read", "enter"},
                    key : Key \cup ListKey \cup {None},
                    prov : Provider \cup {None}, scope : 0..MaxScopes]
      BY DiBounds DEF Idle
    <2>2. past \in [ways : [Class -> SUBSET Way], early : SUBSET Class,
                    given : [Key -> SUBSET Nat]]
      BY DEF Init
    <2>3. scope \in 0..MaxScopes /\ made \in Seq(Class)
      BY DiBounds DEF Init
    <2>4. multi \in [Iface -> Seq(Class)]
      BY DEF Init
    <2>5. list \in [Scope -> [Iface -> Seq(Nat)]]
      BY DEF Init
    <2>6. one \in [Scope -> [Key -> Nat]]
      BY DEF Init
    <2> QED BY <2>1, <2>2, <2>3, <2>4, <2>5, <2>6 DEF Init, TypeOK
  <1>2. ThreadInv
    BY DEF Init, ThreadInv, Idle
  <1>3. WayInv
    BY DEF Init, WayInv, Made
  <1>4. KeptInv /\ OneInstance
    BY DEF Init, KeptInv, OneInstance, Made
  <1> QED BY <1>1, <1>2, <1>3, <1>4 DEF IInv

-----------------------------------------------------------------------------
(* Registration.                                                             *)

\* A provider stays good when more is registered.
LEMMA GoodProvGrows ==
    ASSUME NEW k, NEW p, NEW ways, NEW more,
           \A c \in Class : ways[c] \subseteq more[c],
           k \in Key, GoodProv(k, p, ways)
    PROVE  GoodProv(k, p, more)
  <1>1. p \in Provider /\ p.cls \in Class /\ (k \in Iface \/ k \in Class)
    BY DEF GoodProv, Provider, Key
  <1> QED BY <1>1 DEF GoodProv

\* What appending leaves and adds.
LEMMA AppendFacts ==
    ASSUME NEW S, NEW cs \in Seq(S), NEW c \in S
    PROVE  /\ Append(cs, c) \in Seq(S) /\ Len(Append(cs, c)) = Len(cs) + 1
           /\ DOMAIN Append(cs, c) = DOMAIN cs \cup {Len(cs) + 1}
           /\ \A n \in DOMAIN cs : Append(cs, c)[n] = cs[n]
           /\ Append(cs, c)[Len(cs) + 1] = c
           /\ Len(cs) \in Nat /\ DOMAIN cs = 1..Len(cs)
  OBVIOUS

ListsGrow == \A i \in Iface : \A n \in DOMAIN multi[i] :
               n \in DOMAIN multi'[i] /\ multi'[i][n] = multi[i][n]

LEMMA ListsKeep ==
    ASSUME multi \in [Iface -> Seq(Class)],
           \A i \in Iface : multi'[i] = multi[i]
                            \/ \E c \in Class : multi'[i] = Append(multi[i], c)
    PROVE  ListsGrow
  <1> SUFFICES ASSUME NEW i \in Iface, NEW n \in DOMAIN multi[i]
               PROVE  n \in DOMAIN multi'[i] /\ multi'[i][n] = multi[i][n]
    BY DEF ListsGrow
  <1>1. multi[i] \in Seq(Class)
    OBVIOUS
  <1> QED BY <1>1, AppendFacts

\* What registers a class took down of it.
LEMMA RegistersFacts ==
    ASSUME TypeOK, NEW c \in Class, NEW w, Registers(c, w)
    PROVE  /\ past'.early = past.early /\ past'.given = past.given
           /\ \A d \in Class : past'.ways[d] = IF d = c THEN past.ways[d] \cup {w}
                                               ELSE past.ways[d]
  BY DEF TypeOK, Registers

\* A class that was registered and is plain now was plain before, in the same
\* way.
LEMMA StaysPlain ==
    ASSUME TypeOK, NEW c \in Class, NEW w, Registers(c, w), ListsGrow,
           NEW d \in Class, Plain(d)', past.ways[d] # {}
    PROVE  Plain(d) /\ past'.ways[d] = past.ways[d]
  <1>1. past.ways[d] \subseteq past'.ways[d] /\ past'.early = past.early
    BY RegistersFacts
  <1>2. PICK v \in Way : past'.ways[d] = {v}
    BY DEF Plain
  <1>3. past.ways[d] = {v}
    BY <1>1, <1>2
  <1>4. \A i \in Iface : Repeats(d, i) \subseteq Repeats(d, i)'
    BY DEF Repeats, ListsGrow
  <1>5. \A i \in Iface : \A m, n \in Repeats(d, i) : m = n
    BY <1>4 DEF Plain
  <1>6. d \in past.early => \A i \in Iface : Repeats(d, i) = {}
    BY <1>1, <1>4 DEF Plain
  <1> QED BY <1>2, <1>3, <1>5, <1>6 DEF Plain

\* A registration: what it binds is good, and a list only gets the class.
LEMMA RegistersInv ==
    ASSUME IInv, NEW c \in Class, NEW w \in Way, Registers(c, w),
           bind' \in [Key -> Provider \cup {None}],
           \A k \in Key : bind'[k] = bind[k] \/ GoodProv(k, bind'[k], past'.ways),
           \/ multi' = multi
           \/ \E i \in Iface : /\ w = <<"list", i>>
                               /\ multi' = [multi EXCEPT ![i] = Append(@, c)],
           entry' \in [Scope -> [Name -> Class \cup {None}]],
           scope' = scope \/ (scope = 0 /\ scope' = 1),
           UNCHANGED <<one, list, made, thread>>
    PROVE  IInv'
  <1>1. TypeOK /\ ThreadInv /\ WayInv /\ KeptInv /\ OneInstance
    BY DEF IInv
  <1>2. past' = [past EXCEPT !.ways[c] = @ \cup {w}] /\ regs' \in Nat
    BY <1>1 DEF Registers, TypeOK
  <1>3. /\ past' \in [ways : [Class -> SUBSET Way], early : SUBSET Class,
                      given : [Key -> SUBSET Nat]]
        /\ past'.early = past.early
        /\ \A d \in Class : past'.ways[d] = IF d = c THEN past.ways[d] \cup {w}
                                            ELSE past.ways[d]
    BY <1>1, <1>2 DEF TypeOK
  <1>4. \A d \in Class : past.ways[d] \subseteq past'.ways[d]
    BY <1>3
  <1>0. \A i \in Iface : \/ multi'[i] = multi[i]
                         \/ w = <<"list", i>> /\ multi'[i] = Append(multi[i], c)
    BY <1>1 DEF TypeOK
  <1>5. multi' \in [Iface -> Seq(Class)]
    <2>1. \A i \in Iface : multi[i] \in Seq(Class)
      BY <1>1 DEF TypeOK
    <2>2. CASE multi' = multi
      BY <1>1, <2>2 DEF TypeOK
    <2>3. ASSUME NEW i \in Iface, multi' = [multi EXCEPT ![i] = Append(@, c)]
          PROVE  multi' \in [Iface -> Seq(Class)]
      <3>1. Append(multi[i], c) \in Seq(Class)
        BY <2>1, AppendFacts
      <3> QED BY <1>1, <2>3, <3>1 DEF TypeOK
    <2> QED BY <2>2, <2>3
  <1>6. scope' \in 0..MaxScopes
    BY <1>1, DiBounds DEF TypeOK
  <1>7. TypeOK'
    BY <1>1, <1>2, <1>3, <1>5, <1>6 DEF TypeOK
  <1>8. ThreadInv'
    <2>1. ASSUME NEW k \in Key, NEW p, GoodProv(k, p, past.ways)
          PROVE  GoodProv(k, p, past'.ways)
      BY <1>4, <2>1, GoodProvGrows
    <2>2. ASSUME NEW k \in Key, bind'[k] # None PROVE GoodProv(k, bind'[k], past'.ways)
      BY <1>1, <2>1, <2>2 DEF ThreadInv
    <2>3. ASSUME NEW t \in Thread
          PROVE  /\ thread[t].pc = "read" => scope' # 0
                 /\ thread[t].pc = "enter" => thread[t].scope \in 1..scope'
                 /\ thread[t].pc # "idle" =>
                      /\ thread[t].key # None
                      /\ thread[t].key \in Key =>
                           GoodProv(thread[t].key, thread[t].prov, past'.ways)
      BY <1>1, <2>1 DEF ThreadInv, TypeOK
    <2> QED BY <2>2, <2>3 DEF ThreadInv
  <1>9. WayInv'
    <2>1. ASSUME NEW i \in Iface, NEW n \in DOMAIN multi'[i]
          PROVE  <<"list", i>> \in past'.ways[multi'[i][n]]
      <3>1. multi[i] \in Seq(Class)
        BY <1>1 DEF TypeOK
      <3>2. CASE n \in DOMAIN multi[i] /\ multi'[i][n] = multi[i][n]
        <4>1. multi[i][n] \in Class /\ <<"list", i>> \in past.ways[multi[i][n]]
          BY <1>1, <3>1, <3>2 DEF WayInv
        <4> QED BY <1>4, <3>2, <4>1
      <3>3. CASE w = <<"list", i>> /\ multi'[i][n] = c
        BY <1>3, <3>3
      <3>4. CASE multi'[i] = multi[i]
        BY <2>1, <3>2, <3>4
      <3>5. CASE w = <<"list", i>> /\ multi'[i] = Append(multi[i], c)
        BY <2>1, <3>1, <3>2, <3>3, <3>5, AppendFacts
      <3> QED BY <1>0, <3>4, <3>5
    <2>2. \A d \in Class : Made(d)' => past'.ways[d] # {}
      BY <1>1, <1>4 DEF WayInv, Made
    <2> QED BY <1>1, <2>1, <2>2 DEF WayInv
  <1>10. ASSUME NEW d \in Class, Plain(d)', Made(d)
         PROVE  Plain(d) /\ past'.ways[d] = past.ways[d]
    <2>1. past.ways[d] # {}
      BY <1>1, <1>10 DEF WayInv
    <2>2. ListsGrow
      BY <1>0, <1>1, ListsKeep DEF TypeOK
    <2> QED BY <1>1, <1>10, <2>1, <2>2, StaysPlain
  <1>11. OneScope' => OneScope
    BY <1>1 DEF OneScope, TypeOK
  <1>12. KeptInv'
    <2> SUFFICES ASSUME OneScope', NEW d \in Class, Plain(d)', Made(d)' PROVE Kept(d)'
      BY DEF KeptInv
    <2>1. Made(d)
      BY DEF Made
    <2>2. Plain(d) /\ past'.ways[d] = past.ways[d]
      BY <1>10, <2>1
    <2>3. Kept(d)
      BY <1>1, <1>11, <2>1, <2>2 DEF KeptInv
    <2> QED BY <1>3, <2>2, <2>3 DEF Kept
  <1>13. OneInstance'
    <2> SUFFICES ASSUME OneScope', NEW m \in DOMAIN made, NEW n \in DOMAIN made,
                        made[m] = made[n], Plain(made[m])'
                 PROVE  m = n
      BY DEF OneInstance
    <2>1. made[m] \in Class /\ Made(made[m])
      BY <1>1 DEF TypeOK, Made
    <2>2. Plain(made[m])
      BY <1>10, <2>1
    <2> QED BY <1>1, <1>11, <2>2 DEF OneInstance
  <1> QED BY <1>7, <1>8, <1>9, <1>12, <1>13 DEF IInv

LEMMA RegisterSingletonInv ==
    ASSUME IInv, NEW i \in Iface, NEW c \in Class, RegisterSingleton(i, c)
    PROVE  IInv'
  <1>1. <<"iface", i>> \in Way /\ i \in Key /\ c \in Key /\ i # c /\ c \notin Iface
    BY DiAssumption DEF Way, Key
  <1>2. Prov(c, None) \in Provider /\ Prov(c, i) \in Provider
        /\ Prov(c, None).cls = c /\ Prov(c, i).cls = c
        /\ Prov(c, None).aware = None /\ Prov(c, i).aware = i
    BY <1>1 DEF Prov, Provider
  <1>3. TypeOK /\ past.ways \in [Class -> SUBSET Way]
    BY DEF IInv, TypeOK
  <1>4. <<"iface", i>> \in past'.ways[c]
    BY <1>3 DEF RegisterSingleton, Registers, TypeOK
  <1>5. bind' = [bind EXCEPT ![i] = Prov(c, None), ![c] = Prov(c, i)]
    BY DEF RegisterSingleton
  <1>6. bind' \in [Key -> Provider \cup {None}]
    BY <1>2, <1>3, <1>5 DEF TypeOK
  <1>7. \A k \in Key : bind'[k] = bind[k] \/ GoodProv(k, bind'[k], past'.ways)
    <2>1. bind'[i] = Prov(c, None) /\ bind'[c] = Prov(c, i)
          /\ \A k \in Key \ {i, c} : bind'[k] = bind[k]
      BY <1>1, <1>3, <1>5 DEF TypeOK
    <2>2. GoodProv(i, Prov(c, None), past'.ways)
      BY <1>2, <1>4 DEF GoodProv
    <2>3. GoodProv(c, Prov(c, i), past'.ways)
      BY <1>1, <1>2, <1>4 DEF GoodProv
    <2> QED BY <2>1, <2>2, <2>3
  <1>8. Registers(c, <<"iface", i>>) /\ entry' \in [Scope -> [Name -> Class \cup {None}]]
        /\ UNCHANGED <<multi, scope, one, list, made, thread>>
    BY <1>3 DEF RegisterSingleton, TypeOK
  <1> QED BY <1>1, <1>6, <1>7, <1>8, RegistersInv

LEMMA RegisterClassInv == ASSUME IInv, NEW c \in Class, RegisterClass(c) PROVE IInv'
  <1>1. <<"self", None>> \in Way /\ c \in Key /\ c \notin Iface
    BY DiAssumption DEF Way, Key
  <1>2. Prov(c, None) \in Provider /\ Prov(c, None).cls = c /\ Prov(c, None).aware = None
    BY DEF Prov, Provider
  <1>3. TypeOK /\ past.ways \in [Class -> SUBSET Way]
    BY DEF IInv, TypeOK
  <1>4. <<"self", None>> \in past'.ways[c]
    BY <1>3 DEF RegisterClass, Registers, TypeOK
  <1>5. bind' = [bind EXCEPT ![c] = Prov(c, None)]
    BY DEF RegisterClass
  <1>6. bind' \in [Key -> Provider \cup {None}]
    BY <1>2, <1>3, <1>5 DEF TypeOK
  <1>7. \A k \in Key : bind'[k] = bind[k] \/ GoodProv(k, bind'[k], past'.ways)
    <2>1. GoodProv(c, Prov(c, None), past'.ways)
      BY <1>1, <1>2, <1>4 DEF GoodProv
    <2> QED BY <1>1, <1>3, <1>5, <2>1 DEF TypeOK
  <1>8. Registers(c, <<"self", None>>) /\ entry' \in [Scope -> [Name -> Class \cup {None}]]
        /\ UNCHANGED <<multi, scope, one, list, made, thread>>
    BY <1>3 DEF RegisterClass, TypeOK
  <1> QED BY <1>1, <1>6, <1>7, <1>8, RegistersInv

LEMMA BindsImplInv ==
    ASSUME IInv, NEW i \in Iface, NEW c \in Class, BindsImpl(i, c),
           entry' \in [Scope -> [Name -> Class \cup {None}]],
           scope' = scope \/ (scope = 0 /\ scope' = 1),
           UNCHANGED <<one, list, made, thread>>
    PROVE  IInv'
  <1>1. <<"list", i>> \in Way /\ c \in Key /\ c \notin Iface
    BY DiAssumption DEF Way, Key
  <1>2. Prov(c, c) \in Provider /\ Prov(c, c).cls = c /\ Prov(c, c).aware = c
    BY DEF Prov, Provider, Key
  <1>3. TypeOK /\ past.ways \in [Class -> SUBSET Way]
    BY DEF IInv, TypeOK
  <1>4. <<"list", i>> \in past'.ways[c]
    BY <1>3 DEF BindsImpl, Registers, TypeOK
  <1>5. bind' = [bind EXCEPT ![c] = Prov(c, c)]
    BY DEF BindsImpl
  <1>6. bind' \in [Key -> Provider \cup {None}]
    BY <1>2, <1>3, <1>5 DEF TypeOK
  <1>7. \A k \in Key : bind'[k] = bind[k] \/ GoodProv(k, bind'[k], past'.ways)
    <2>1. GoodProv(c, Prov(c, c), past'.ways)
      BY <1>1, <1>2, <1>4 DEF GoodProv
    <2> QED BY <1>1, <1>3, <1>5, <2>1 DEF TypeOK
  <1>8. Registers(c, <<"list", i>>) /\ multi' = [multi EXCEPT ![i] = Append(@, c)]
    BY DEF BindsImpl
  <1> QED BY <1>1, <1>6, <1>7, <1>8, RegistersInv

LEMMA RegisterImplInv ==
    ASSUME IInv, NEW c \in Class,
           \/ \E i \in Iface : RegisterImpl(i, c)
           \/ \E n \in Name : AddToRegistry(n, c)
    PROVE  IInv'
  <1>1. entry \in [Scope -> [Name -> Class \cup {None}]]
    BY DEF IInv, TypeOK
  <1>2. ASSUME NEW i \in Iface, RegisterImpl(i, c) PROVE IInv'
    BY <1>1, <1>2, BindsImplInv DEF RegisterImpl
  <1>3. ASSUME NEW n \in Name, AddToRegistry(n, c) PROVE IInv'
    <2>1. scope' = scope \/ (scope = 0 /\ scope' = 1)
      BY <1>3 DEF AddToRegistry, Recorded
    <2>2. entry' \in [Scope -> [Name -> Class \cup {None}]]
      BY <1>1, <1>3 DEF AddToRegistry, Recorded
    <2> QED BY <1>3, <2>1, <2>2, DiAssumption, BindsImplInv DEF AddToRegistry, Recorded
  <1> QED BY <1>2, <1>3

-----------------------------------------------------------------------------
(* Resolution.                                                               *)

\* A thread that moves on in Injector.get, or binds a scope.
LEMMA ThreadStep ==
    ASSUME IInv, NEW t \in Thread,
           NEW r \in [pc : {"idle", "bind", "read", "enter"},
                      key : Key \cup ListKey \cup {None},
                      prov : Provider \cup {None}, scope : 0..MaxScopes],
           thread' = [thread EXCEPT ![t] = r],
           scope' \in 0..MaxScopes, scope' >= scope,
           r.pc = "read" => scope' # 0,
           r.pc = "enter" => r.scope \in 1..scope',
           r.pc # "idle" => /\ r.key # None
                            /\ r.key \in Key => GoodProv(r.key, r.prov, past.ways),
           UNCHANGED <<bind, multi, entry, one, list, made, regs, past>>
    PROVE  IInv'
  <1>1. TypeOK /\ ThreadInv /\ WayInv /\ KeptInv /\ OneInstance
    BY DEF IInv
  <1>2. TypeOK'
    BY <1>1 DEF TypeOK
  <1>3. ThreadInv'
    <2>1. scope \in Nat /\ scope' \in Nat
      BY <1>1, DiBounds DEF TypeOK
    <2>2. ASSUME NEW u \in Thread
          PROVE  /\ thread'[u].pc = "read" => scope' # 0
                 /\ thread'[u].pc = "enter" => thread'[u].scope \in 1..scope'
                 /\ thread'[u].pc # "idle" =>
                      /\ thread'[u].key # None
                      /\ thread'[u].key \in Key =>
                           GoodProv(thread'[u].key, thread'[u].prov, past.ways)
      <3>1. CASE u = t
        BY <1>1, <3>1 DEF TypeOK
      <3>2. CASE u # t
        BY <1>1, <2>1, <3>2 DEF TypeOK, ThreadInv
      <3> QED BY <3>1, <3>2
    <2> QED BY <1>1, <2>2 DEF ThreadInv
  <1>4. WayInv'
    BY <1>1 DEF WayInv, Made
  <1>5. OneScope' => OneScope
    BY <1>1, DiBounds DEF OneScope, TypeOK
  <1>6. \A c : Plain(c)' <=> Plain(c)
    BY DEF Plain, Repeats
  <1>7. KeptInv'
    BY <1>1, <1>5, <1>6 DEF KeptInv, Kept, Made
  <1>8. OneInstance'
    BY <1>1, <1>5, <1>6 DEF OneInstance
  <1> QED BY <1>2, <1>3, <1>4, <1>7, <1>8 DEF IInv

LEMMA StartsInv ==
    ASSUME IInv, NEW t \in Thread, NEW k \in Key \cup ListKey, Starts(t, k)
    PROVE  IInv'
  <1> DEFINE r == [pc |-> IF scope = 0 THEN "bind" ELSE "enter", key |-> k,
                   prov |-> IF k \in Key THEN bind[k] ELSE None, scope |-> scope]
  <1>1. TypeOK /\ ThreadInv
    BY DEF IInv
  <1>2. scope \in 0..MaxScopes /\ scope \in Nat /\ bind \in [Key -> Provider \cup {None}]
    BY <1>1, DiBounds DEF TypeOK
  <1>3. r \in [pc : {"idle", "bind", "read", "enter"},
               key : Key \cup ListKey \cup {None},
               prov : Provider \cup {None}, scope : 0..MaxScopes]
    BY <1>2
  <1>4. k # None
    BY DiAssumption DEF Key, ListKey
  <1>5. k \in Key => GoodProv(k, r.prov, past.ways)
    BY <1>1 DEF Starts, Bound, ThreadInv
  <1>6. thread' = [thread EXCEPT ![t] = r] /\ scope' = scope
        /\ UNCHANGED <<bind, multi, entry, one, list, made, regs, past>>
    BY DEF Starts
  <1>7. r.pc = "enter" => r.scope \in 1..scope
    BY <1>2
  <1>8. r.pc # "read" /\ r.key = k
    OBVIOUS
  <1>9. scope' >= scope
    BY <1>2, <1>6
  <1> HIDE DEF r
  <1> QED BY <1>2, <1>3, <1>4, <1>5, <1>6, <1>7, <1>8, <1>9, ThreadStep

LEMMA ScopeInv ==
    ASSUME IInv, NEW t \in Thread, BindScope(t) \/ ReadScope(t)
    PROVE  IInv'
  <1>1. TypeOK /\ ThreadInv
    BY DEF IInv
  <1>2. scope \in 0..MaxScopes /\ MaxScopes \in Nat
    BY <1>1, DiBounds DEF TypeOK
  <1>3. thread[t] \in [pc : {"idle", "bind", "read", "enter"},
                       key : Key \cup ListKey \cup {None},
                       prov : Provider \cup {None}, scope : 0..MaxScopes]
    BY <1>1 DEF TypeOK
  <1>4. thread[t].key # None
        /\ (thread[t].key \in Key => GoodProv(thread[t].key, thread[t].prov, past.ways))
    BY <1>1 DEF ThreadInv, BindScope, ReadScope
  <1>5. CASE BindScope(t)
    <2> DEFINE r == [thread[t] EXCEPT !.pc = "read"]
    <2>1. r \in [pc : {"idle", "bind", "read", "enter"},
                 key : Key \cup ListKey \cup {None},
                 prov : Provider \cup {None}, scope : 0..MaxScopes]
          /\ r.pc = "read" /\ r.key = thread[t].key /\ r.prov = thread[t].prov
      BY <1>3
    <2>2. scope' = scope + 1 /\ thread' = [thread EXCEPT ![t] = r]
          /\ UNCHANGED <<bind, multi, entry, one, list, made, regs, past>>
      BY <1>5 DEF BindScope
    <2>3. scope' \in 0..MaxScopes /\ scope' >= scope /\ scope' # 0
      BY <1>2, <1>5, <2>2 DEF BindScope
    <2> HIDE DEF r
    <2> QED BY <1>4, <2>1, <2>2, <2>3, ThreadStep
  <1>6. CASE ReadScope(t)
    <2> DEFINE r == [thread[t] EXCEPT !.pc = "enter", !.scope = scope]
    <2>1. r \in [pc : {"idle", "bind", "read", "enter"},
                 key : Key \cup ListKey \cup {None},
                 prov : Provider \cup {None}, scope : 0..MaxScopes]
          /\ r.pc = "enter" /\ r.key = thread[t].key /\ r.prov = thread[t].prov
          /\ r.scope = scope
      BY <1>2, <1>3
    <2>2. scope' = scope /\ thread' = [thread EXCEPT ![t] = r]
          /\ UNCHANGED <<bind, multi, entry, one, list, made, regs, past>>
      BY <1>6 DEF ReadScope
    <2>3. scope # 0
      BY <1>1, <1>6 DEF ThreadInv, ReadScope
    <2>4. scope' \in 0..MaxScopes /\ scope' >= scope /\ scope \in 1..scope'
      BY <1>2, <2>2, <2>3
    <2> HIDE DEF r
    <2> QED BY <1>4, <2>1, <2>2, <2>4, ThreadStep
  <1> QED BY <1>5, <1>6

\* What a thread that leaves Injector.get has in its hands, and what is left
\* of it.
LEMMA EntersFacts ==
    ASSUME IInv, NEW t \in Thread, Enters(t)
    PROVE  /\ thread[t].key \in Key => GoodProv(thread[t].key, thread[t].prov, past.ways)
           /\ thread[t].scope \in Scope
           /\ OneScope => thread[t].scope = 1
           /\ thread' \in [Thread -> [pc : {"idle", "bind", "read", "enter"},
                                      key : Key \cup ListKey \cup {None},
                                      prov : Provider \cup {None}, scope : 0..MaxScopes]]
           /\ \A u \in Thread : thread'[u] = thread[u] \/ thread'[u].pc = "idle"
           /\ UNCHANGED <<bind, multi, entry, scope, regs>>
  <1>1. TypeOK /\ ThreadInv /\ thread[t].pc = "enter"
    BY DEF IInv, Enters
  <1>2. scope \in 0..MaxScopes /\ thread[t].scope \in 1..scope /\ MaxScopes \in Nat
    BY <1>1, DiBounds DEF TypeOK, ThreadInv
  <1>3. thread[t].scope \in Scope /\ (OneScope => thread[t].scope = 1)
    BY <1>2 DEF Scope, OneScope
  <1>4. Idle \in [pc : {"idle", "bind", "read", "enter"},
                  key : Key \cup ListKey \cup {None},
                  prov : Provider \cup {None}, scope : 0..MaxScopes] /\ Idle.pc = "idle"
    BY <1>2 DEF Idle
  <1>5. thread' = [thread EXCEPT ![t] = Idle]
    BY DEF Enters
  <1> QED BY <1>1, <1>3, <1>4, <1>5 DEF TypeOK, ThreadInv, Enters

\* Threads and providers are in order when the container was asked.
LEMMA EntersInv ==
    ASSUME IInv, NEW t \in Thread, Enters(t), past'.ways = past.ways
    PROVE  ThreadInv'
  <1>1. ThreadInv
    BY DEF IInv
  <1> QED BY <1>1, EntersFacts DEF ThreadInv

\* What history takes down of an answer.
LEMMA GivesFacts ==
    ASSUME TypeOK, NEW k \in Key, NEW m \in Nat, NEW early \in SUBSET Class,
           Gives(k, m, early)
    PROVE  /\ \A x \in Key : past'.given[x] = IF x = k THEN past.given[x] \cup {m}
                                              ELSE past.given[x]
           /\ past' \in [ways : [Class -> SUBSET Way], early : SUBSET Class,
                         given : [Key -> SUBSET Nat]]
           /\ past'.ways = past.ways
           /\ past'.early = past.early \cup early
  BY DEF TypeOK, Gives

\* A lookup returns a number of an instance, or zero.
LEMMA FoundType ==
    ASSUME TypeOK, NEW s \in Scope, NEW k \in Key, NEW p \in Provider
    PROVE  Found(s, k, p) \in Nat
  <1>1. p.aware \in Key \cup {None}
    BY DEF Provider
  <1>2. one[s] \in [Key -> Nat]
    BY DEF TypeOK
  <1>3. one[s][k] \in Nat /\ (p.aware # None => one[s][p.aware] \in Nat)
    BY <1>1, <1>2
  <1> QED BY <1>3 DEF Found

LEMMA FindInv ==
    ASSUME IInv, NEW t \in Thread, Find(t) \/ FindList(t)
    PROVE  IInv'
  <1>1. TypeOK /\ ThreadInv /\ WayInv /\ KeptInv /\ OneInstance
    BY DEF IInv
  <1>2. Enters(t) /\ UNCHANGED <<one, list, made>>
    BY DEF Find, FindList
  <1>3. /\ past' \in [ways : [Class -> SUBSET Way], early : SUBSET Class,
                      given : [Key -> SUBSET Nat]]
        /\ past'.ways = past.ways
        /\ past'.early = past.early
    <2>1. CASE Find(t)
      <3> DEFINE k == thread[t].key
                 m == Found(thread[t].scope, k, thread[t].prov)
      <3>1. k \in Key /\ m # 0 /\ Gives(k, m, {})
        BY <2>1 DEF Find
      <3>2. m \in Nat
        <4>1. thread[t].scope \in Scope /\ thread[t].prov \in Provider
          BY <1>2, <3>1, EntersFacts DEF GoodProv
        <4>2. thread[t].key \in Key
          BY <3>1
        <4> QED BY <1>1, <4>1, <4>2, FoundType
      <3> HIDE DEF k, m
      <3>3. {} \in SUBSET Class
        OBVIOUS
      <3>4. past'.early = past.early \cup {}
        BY <1>1, <3>1, <3>2, <3>3, GivesFacts
      <3>5. past'.early = past.early
        BY <3>4
      <3> QED BY <1>1, <3>1, <3>2, <3>3, <3>5, GivesFacts
    <2>2. CASE FindList(t)
      BY <1>1, <2>2 DEF FindList, TypeOK
    <2> QED BY <2>1, <2>2
  <1>4. TypeOK'
    BY <1>1, <1>2, <1>3, EntersFacts DEF TypeOK
  <1>5. ThreadInv'
    BY <1>2, <1>3, EntersInv
  <1>6. UNCHANGED <<multi, scope>>
    BY <1>2, EntersFacts
  <1>7. WayInv'
    BY <1>1, <1>2, <1>3, <1>6 DEF WayInv, Made
  <1>8. \A c : Plain(c)' <=> Plain(c)
    BY <1>3, <1>6 DEF Plain, Repeats
  <1>9. KeptInv'
    BY <1>1, <1>2, <1>3, <1>6, <1>8 DEF KeptInv, Kept, Made, OneScope
  <1>10. OneInstance'
    BY <1>1, <1>2, <1>6, <1>8 DEF OneInstance, OneScope
  <1> QED BY <1>4, <1>5, <1>7, <1>9, <1>10 DEF IInv

\* A plain class is made when it was not made before: whoever could make it
\* finds it.
LEMMA NotMadeTwice ==
    ASSUME IInv, OneScope, NEW k \in Key, NEW p, GoodProv(k, p, past.ways),
           Found(1, k, p) = 0, Plain(p.cls)
    PROVE  ~Made(p.cls)
  <1> SUFFICES ASSUME Made(p.cls) PROVE FALSE
    OBVIOUS
  <1>1. p.cls \in Class /\ p.aware \in Key \cup {None}
    BY DEF GoodProv, Provider
  <1>2. Kept(p.cls)
    BY <1>1 DEF IInv, KeptInv
  <1>3. one[1][k] = 0 /\ (p.aware # None => one[1][p.aware] = 0)
    BY DEF Found
  <1>4. CASE k \in Iface
    BY <1>2, <1>3, <1>4 DEF GoodProv, Kept
  <1>5. CASE k \notin Iface
    <2>1. p.cls = k
      BY <1>5 DEF GoodProv
    <2>2. CASE p.aware = None /\ <<"self", None>> \in past.ways[k]
      BY <1>2, <1>3, <2>1, <2>2 DEF Kept
    <2>3. ASSUME NEW i \in Iface, p.aware = i, <<"iface", i>> \in past.ways[k]
          PROVE  FALSE
      BY <1>2, <1>3, <2>1, <2>3, DiAssumption DEF Kept
    <2>4. ASSUME NEW i \in Iface, p.aware = k, <<"list", i>> \in past.ways[k]
          PROVE  FALSE
      BY <1>2, <1>3, <2>1, <2>4 DEF Kept
    <2> QED BY <1>5, <2>2, <2>3, <2>4 DEF GoodProv
  <1> QED BY <1>4, <1>5

\* What was made stays what it is.
LEMMA MadeGrows ==
    ASSUME NEW S, NEW a \in Seq(S), NEW b \in Seq(S)
    PROVE  /\ a \o b \in Seq(S) /\ Len(a \o b) = Len(a) + Len(b)
           /\ DOMAIN a \subseteq DOMAIN (a \o b)
           /\ \A m \in DOMAIN a : (a \o b)[m] = a[m]
           /\ \A m \in DOMAIN (a \o b) \ DOMAIN a :
                /\ m - Len(a) \in DOMAIN b /\ m = Len(a) + (m - Len(a))
                /\ (a \o b)[m] = b[m - Len(a)]
           /\ \A m \in DOMAIN b : Len(a) + m \in DOMAIN (a \o b) /\ Len(a) + m \in Nat \ {0}
  OBVIOUS

LEMMA CreateInv == ASSUME IInv, NEW t \in Thread, Create(t) PROVE IInv'
  <1> DEFINE k == thread[t].key
             p == thread[t].prov
             s == thread[t].scope
             m == Len(made) + 1
             new == IF k \in Class /\ ~Listed(s, k) THEN {k} ELSE {}
  <1>1. TypeOK /\ ThreadInv /\ WayInv /\ KeptInv /\ OneInstance /\ Enters(t)
    BY DEF IInv, Create
  <1>2. /\ k \in Key /\ Found(s, k, p) = 0
        /\ made' = Append(made, p.cls)
        /\ one' = [one EXCEPT ![s] = [x \in Key |->
                     IF x \in {k, p.aware} THEN m ELSE @[x]]]
        /\ Gives(k, m, new)
        /\ list' = list
    BY DEF Create
  <1>3. /\ GoodProv(k, p, past.ways) /\ p \in Provider /\ p.cls \in Class
        /\ s \in Scope /\ (OneScope => s = 1)
    BY <1>1, <1>2, EntersFacts DEF GoodProv, Provider
  <1>4. /\ made \in Seq(Class) /\ m \in Nat \ {0}
        /\ made' \in Seq(Class) /\ DOMAIN made' = DOMAIN made \cup {m} /\ made'[m] = p.cls
        /\ \A n \in DOMAIN made : made'[n] = made[n]
    <2>1. made \in Seq(Class)
      BY <1>1 DEF TypeOK
    <2> QED BY <1>2, <1>3, <2>1, AppendFacts
  <1>5. new \in SUBSET Class
    OBVIOUS
  <1> HIDE DEF new, m
  <1>6. /\ past' \in [ways : [Class -> SUBSET Way], early : SUBSET Class,
                      given : [Key -> SUBSET Nat]]
        /\ past'.ways = past.ways
        /\ past'.early = past.early \cup new
    BY <1>1, <1>2, <1>4, <1>5, GivesFacts
  <1> HIDE DEF k, p, s
  <1>7. /\ one' \in [Scope -> [Key -> Nat]]
        /\ \A x \in Key : one'[s][x] = IF x \in {k, p.aware} THEN m ELSE one[s][x]
    BY <1>1, <1>2, <1>3, <1>4 DEF TypeOK
  <1>8. UNCHANGED <<bind, multi, entry, scope, regs>>
    BY <1>1, EntersFacts
  <1>9. TypeOK'
    BY <1>1, <1>2, <1>4, <1>6, <1>7, <1>8, EntersFacts DEF TypeOK
  <1>10. ThreadInv'
    BY <1>1, <1>6, EntersInv
  <1>11. past.ways[p.cls] # {}
    BY <1>3 DEF GoodProv
  <1>12. \A c \in Class : Made(c)' <=> Made(c) \/ c = p.cls
    BY <1>4 DEF Made
  <1>13. WayInv'
    <2>1. \A i \in Iface : \A n \in DOMAIN multi'[i] :
            <<"list", i>> \in past'.ways[multi'[i][n]]
      BY <1>1, <1>6, <1>8 DEF WayInv
    <2>2. \A c \in Class : Made(c)' => past'.ways[c] # {}
      BY <1>1, <1>6, <1>11, <1>12 DEF WayInv
    <2>3. \A r \in Scope, i \in Iface : \A n \in DOMAIN list'[r][i] :
            list'[r][i][n] \in DOMAIN made'
      BY <1>1, <1>2, <1>4 DEF WayInv
    <2> QED BY <2>1, <2>2, <2>3 DEF WayInv
  <1>14. \A c : Plain(c)' => Plain(c)
    BY <1>6, <1>8 DEF Plain, Repeats
  <1>15. OneScope' <=> OneScope
    BY <1>8 DEF OneScope
  <1>16. OneScope /\ Plain(p.cls) => ~Made(p.cls)
    BY <1>2, <1>3, NotMadeTwice
  <1>17. OneInstance'
    <2> SUFFICES ASSUME OneScope, NEW a \in DOMAIN made', NEW b \in DOMAIN made',
                        made'[a] = made'[b], Plain(made'[a])
                 PROVE  a = b
      BY <1>14, <1>15 DEF OneInstance
    <2>1. CASE made'[a] = p.cls
      BY <1>4, <1>16, <2>1 DEF Made
    <2>2. CASE made'[a] # p.cls
      BY <1>1, <1>4, <2>2 DEF OneInstance
    <2> QED BY <2>1, <2>2
  <1>18. KeptInv'
    <2> SUFFICES ASSUME OneScope, NEW c \in Class, Plain(c), Made(c)' PROVE Kept(c)'
      BY <1>14, <1>15 DEF KeptInv
    <2>1. s = 1 /\ m # 0
      BY <1>3, <1>4
    <2>2. \A x \in Key : one[1][x] # 0 => one'[1][x] # 0
      BY <1>7, <2>1
    <2>3. Iface \subseteq Key /\ Class \subseteq Key
      BY DEF Key
    <2>4. CASE Made(c)
      <3>1. Kept(c)
        BY <1>1, <2>4 DEF KeptInv
      <3> QED BY <1>2, <1>6, <2>2, <2>3, <3>1 DEF Kept
    <2>5. CASE ~Made(c) /\ c = p.cls
      <3>1. ASSUME NEW i \in Iface, <<"iface", i>> \in past.ways[c]
            PROVE  one'[1][i] # 0
        <4>1. ASSUME NEW j \in Iface, <<"iface", j>> \in past.ways[c] PROVE j = i
          BY <3>1, <4>1, OneWay
        <4>2. <<"self", None>> \notin past.ways[c]
              /\ \A j \in Iface : <<"list", j>> \notin past.ways[c]
          BY <3>1, OneWay
        <4>3. i \in {k, p.aware}
          BY <1>3, <2>5, <4>1, <4>2 DEF GoodProv
        <4> QED BY <1>7, <2>1, <2>3, <4>3
      <3>2. ASSUME NEW i \in Iface, <<"list", i>> \in past.ways[c]
            PROVE  one'[1][c] # 0 /\ (c \notin past'.early => list'[1][i] # <<>>)
        <4>1. <<"self", None>> \notin past.ways[c]
              /\ \A j \in Iface : <<"iface", j>> \notin past.ways[c]
          BY <3>2, OneWay
        <4>2. k = c
          BY <1>3, <2>5, <4>1 DEF GoodProv
        <4>3. ~Listed(1, c)
          BY <1>1, <2>5, FirstScope DEF Listed, WayInv, Made
        <4>4. c \in past'.early
          BY <1>6, <2>1, <4>2, <4>3 DEF new
        <4> QED BY <1>7, <2>1, <2>3, <4>2, <4>4
      <3>3. ASSUME <<"self", None>> \in past.ways[c] PROVE one'[1][c] # 0
        <4>1. \A j \in Iface : <<"iface", j>> \notin past.ways[c]
          BY <3>3, OneWay
        <4>2. k = c
          BY <1>3, <2>5, <4>1 DEF GoodProv
        <4> QED BY <1>7, <2>1, <2>3, <4>2
      <3> QED BY <1>6, <3>1, <3>2, <3>3 DEF Kept
    <2> QED BY <1>12, <2>4, <2>5
  <1> QED BY <1>9, <1>10, <1>13, <1>17, <1>18 DEF IInv

\* The instances of a list: a plain class in it was not made before.
LEMMA CreateListInv == ASSUME IInv, NEW t \in Thread, CreateList(t) PROVE IInv'
  <1> DEFINE s == thread[t].scope
             n == Len(made)
  <1>1. TypeOK /\ ThreadInv /\ WayInv /\ KeptInv /\ OneInstance /\ Enters(t)
    BY DEF IInv, CreateList
  <1>2. s \in Scope /\ (OneScope => s = 1) /\ UNCHANGED <<bind, multi, entry, scope, regs>>
    BY <1>1, EntersFacts
  <1>3. past' = past
    BY DEF CreateList
  <1>4. PICK i \in Iface : thread[t].key = <<i>>
    BY DEF CreateList, ListKey
  <1> DEFINE cs == multi[i]
             new == [m \in DOMAIN cs |-> n + m]
  <1>5. /\ list[s][i] = <<>>
        /\ made' = made \o cs
        /\ list' = [list EXCEPT ![s][i] = new]
        /\ one' = [one EXCEPT ![s] = [x \in Key |->
                     IF \E m \in DOMAIN cs : cs[m] = x THEN n + Last(x, cs) ELSE @[x]]]
    BY <1>4 DEF CreateList
  <1>6. /\ made \in Seq(Class) /\ cs \in Seq(Class)
        /\ n \in Nat /\ Len(cs) \in Nat /\ DOMAIN cs = 1..Len(cs)
    BY <1>1 DEF TypeOK
  <1>7. \A m \in DOMAIN cs : cs[m] \in Class /\ <<"list", i>> \in past.ways[cs[m]]
    BY <1>1, <1>6 DEF WayInv
  <1>8. \A m \in DOMAIN cs : n + Last(cs[m], cs) \in Nat \ {0}
    BY <1>6, LastType
  <1>9. /\ made' \in Seq(Class)
        /\ DOMAIN made \subseteq DOMAIN made'
        /\ \A m \in DOMAIN made : made'[m] = made[m]
        /\ \A m \in DOMAIN made' \ DOMAIN made :
             m - n \in DOMAIN cs /\ m = n + (m - n) /\ made'[m] = cs[m - n]
        /\ \A m \in DOMAIN cs : n + m \in DOMAIN made'
    BY <1>5, <1>6, MadeGrows
  <1>10. new \in Seq(Nat) /\ DOMAIN new = DOMAIN cs /\ \A m \in DOMAIN cs : new[m] = n + m
    BY <1>6
  <1>11. \A x \in Key : one[s][x] \in Nat
    BY <1>1, <1>2 DEF TypeOK
  <1> HIDE DEF s, n, cs, new
  <1>12. /\ one' \in [Scope -> [Key -> Nat]]
         /\ \A x \in Key : one[s][x] # 0 => one'[s][x] # 0
         /\ \A m \in DOMAIN cs : one'[s][cs[m]] # 0
    <2>1. /\ DOMAIN one' = Scope
          /\ \A r \in Scope \ {s} : one'[r] = one[r]
          /\ one'[s] = [x \in Key |-> IF \E m \in DOMAIN cs : cs[m] = x
                                      THEN n + Last(x, cs) ELSE one[s][x]]
      BY <1>1, <1>2, <1>5 DEF TypeOK
    <2>2. one'[s] \in [Key -> Nat]
      BY <1>8, <1>11, <2>1
    <2>3. \A r \in Scope : one'[r] \in [Key -> Nat]
      BY <1>1, <2>1, <2>2 DEF TypeOK
    <2>4. one' = [r \in Scope |-> one'[r]]
      BY <1>1, <1>5 DEF TypeOK
    <2>5. \A m \in DOMAIN cs : cs[m] \in Key
      BY <1>7 DEF Key
    <2> QED BY <1>8, <2>1, <2>3, <2>4, <2>5
  <1>13. /\ list' \in [Scope -> [Iface -> Seq(Nat)]]
         /\ list'[s][i] = new
         /\ \A r \in Scope, j \in Iface :
              list'[r][j] = list[r][j] \/ (r = s /\ j = i /\ list'[r][j] = new)
    BY <1>1, <1>2, <1>5, <1>10 DEF TypeOK
  <1>14. TypeOK'
    BY <1>1, <1>2, <1>3, <1>9, <1>12, <1>13, EntersFacts DEF TypeOK
  <1>15. ThreadInv'
    BY <1>1, <1>3, EntersInv
  <1>16. \A c \in Class : Made(c)' => Made(c) \/ \E m \in DOMAIN cs : cs[m] = c
    BY <1>9 DEF Made
  <1>17. WayInv'
    <2>1. \A j \in Iface : \A m \in DOMAIN multi'[j] :
            <<"list", j>> \in past'.ways[multi'[j][m]]
      BY <1>1, <1>2, <1>3 DEF WayInv
    <2>2. \A c \in Class : Made(c)' => past'.ways[c] # {}
      BY <1>1, <1>3, <1>7, <1>16 DEF WayInv
    <2>3. \A r \in Scope, j \in Iface : \A m \in DOMAIN list'[r][j] :
            list'[r][j][m] \in DOMAIN made'
      <3> TAKE r \in Scope, j \in Iface
      <3>1. CASE list'[r][j] = list[r][j]
        BY <1>1, <1>9, <3>1 DEF WayInv
      <3>2. CASE list'[r][j] = new
        BY <1>9, <1>10, <3>2
      <3> QED BY <1>13, <3>1, <3>2
    <2> QED BY <2>1, <2>2, <2>3 DEF WayInv
  <1>18. \A c : Plain(c)' <=> Plain(c)
    BY <1>2, <1>3 DEF Plain, Repeats
  <1>19. OneScope' <=> OneScope
    BY <1>2 DEF OneScope
  \* Neither made by itself before the list, nor with the list.
  <1>20. ASSUME OneScope, NEW m \in DOMAIN cs, Plain(cs[m]) PROVE ~Made(cs[m])
    <2>1. m \in Repeats(cs[m], i)
      BY DEF Repeats, cs
    <2>2. cs[m] \notin past.early
      BY <1>20, <2>1 DEF Plain
    <2>3. ASSUME Made(cs[m]) PROVE FALSE
      <3>1. Kept(cs[m])
        BY <1>1, <1>7, <1>20, <2>3 DEF KeptInv
      <3> QED BY <1>2, <1>5, <1>7, <1>20, <2>2, <3>1 DEF Kept
    <2> QED BY <2>3
  <1>21. OneInstance'
    <2> SUFFICES ASSUME OneScope, NEW a \in DOMAIN made', NEW b \in DOMAIN made',
                        made'[a] = made'[b], Plain(made'[a])
                 PROVE  a = b
      BY <1>18, <1>19 DEF OneInstance
    <2>1. CASE a \in DOMAIN made /\ b \in DOMAIN made
      BY <1>1, <1>9, <2>1 DEF OneInstance
    <2>2. CASE a \notin DOMAIN made /\ b \notin DOMAIN made
      <3>1. a - n \in Repeats(made'[a], i) /\ b - n \in Repeats(made'[a], i)
        BY <1>9, <2>2 DEF Repeats, cs
      <3>2. a - n = b - n
        BY <3>1 DEF Plain
      <3>3. a = n + (a - n) /\ b = n + (b - n)
        BY <1>9, <2>2
      <3> QED BY <3>2, <3>3
    <2>3. CASE a \in DOMAIN made /\ b \notin DOMAIN made
      BY <1>9, <1>20, <2>3 DEF Made
    <2>4. CASE a \notin DOMAIN made /\ b \in DOMAIN made
      BY <1>9, <1>20, <2>4 DEF Made
    <2> QED BY <2>1, <2>2, <2>3, <2>4
  <1>22. KeptInv'
    <2> SUFFICES ASSUME OneScope, NEW c \in Class, Plain(c), Made(c)' PROVE Kept(c)'
      BY <1>18, <1>19 DEF KeptInv
    <2>1. s = 1 /\ Iface \subseteq Key /\ Class \subseteq Key
      BY <1>2 DEF Key
    <2>2. CASE Made(c)
      <3>1. Kept(c)
        BY <1>1, <2>2 DEF KeptInv
      <3>2. \A j \in Iface : list[1][j] # <<>> => list'[1][j] # <<>>
        BY <1>5, <1>13, <2>1, FirstScope
      <3> QED BY <1>3, <1>12, <2>1, <3>1, <3>2 DEF Kept
    <2>3. ASSUME NEW m \in DOMAIN cs, cs[m] = c PROVE Kept(c)'
      <3>1. <<"list", i>> \in past.ways[c]
        BY <1>7, <2>3
      <3>2. /\ <<"self", None>> \notin past.ways[c]
            /\ \A j \in Iface : <<"iface", j>> \notin past.ways[c]
            /\ \A j \in Iface : <<"list", j>> \in past.ways[c] => j = i
        BY <3>1, OneWay
      <3>3. list'[1][i] # <<>>
        BY <1>10, <1>13, <2>1
      <3> QED BY <1>3, <1>12, <2>1, <2>3, <3>2, <3>3 DEF Kept
    <2> QED BY <1>16, <2>2, <2>3
  <1> QED BY <1>14, <1>15, <1>17, <1>21, <1>22 DEF IInv

-----------------------------------------------------------------------------
(* Every step, and the theorems.                                             *)

LEMMA NextInv == ASSUME IInv, [Next]_vars PROVE IInv'
  <1>1. ASSUME NEW c \in Class, RegisterClass(c) PROVE IInv'
    BY <1>1, RegisterClassInv
  <1>2. ASSUME NEW c \in Class, NEW i \in Iface, RegisterSingleton(i, c) PROVE IInv'
    BY <1>2, RegisterSingletonInv
  <1>3. ASSUME NEW c \in Class,
               \/ \E i \in Iface : RegisterImpl(i, c)
               \/ \E n \in Name : AddToRegistry(n, c)
        PROVE  IInv'
    BY <1>3, RegisterImplInv
  <1>4. ASSUME NEW t \in Thread, StartGet(t) PROVE IInv'
    BY <1>4, StartsInv DEF StartGet
  <1>5. ASSUME NEW t \in Thread, NEW n \in Name, LookUp(t, n) PROVE IInv'
    <2>1. PICK s \in Scope : entry[s][n] # None /\ Starts(t, entry[s][n])
      BY <1>5 DEF LookUp
    <2>2. entry[s][n] \in Key \cup ListKey
      BY <2>1 DEF IInv, TypeOK, Key
    <2> QED BY <2>1, <2>2, StartsInv
  <1>6. ASSUME NEW t \in Thread, BindScope(t) \/ ReadScope(t) PROVE IInv'
    BY <1>6, ScopeInv
  <1>7. ASSUME NEW t \in Thread, Find(t) \/ FindList(t) PROVE IInv'
    BY <1>7, FindInv
  <1>8. ASSUME NEW t \in Thread, Create(t) PROVE IInv'
    BY <1>8, CreateInv
  <1>9. ASSUME NEW t \in Thread, CreateList(t) PROVE IInv'
    BY <1>9, CreateListInv
  <1>10. CASE UNCHANGED vars
    <2>1. UNCHANGED <<bind, multi, entry, scope, one, list, made, thread, regs, past>>
      BY <1>10 DEF vars
    <2>2. TypeOK' /\ ThreadInv' /\ WayInv'
      BY <2>1 DEF IInv, TypeOK, ThreadInv, WayInv, Made
    <2>3. \A c : Plain(c)' <=> Plain(c)
      BY <2>1 DEF Plain, Repeats
    <2>4. KeptInv' /\ OneInstance'
      BY <2>1, <2>3 DEF IInv, KeptInv, OneInstance, Kept, Made, OneScope
    <2> QED BY <2>2, <2>4 DEF IInv
  <1> QED BY <1>1, <1>2, <1>3, <1>4, <1>5, <1>6, <1>7, <1>8, <1>9, <1>10 DEF Next

\* The inductive invariant holds throughout.
THEOREM Invariance == Spec => []IInv
  BY InitInv, NextInv, PTL DEF Spec

\* The container's tables, and what the threads hold, keep their types.
THEOREM TypeCorrect == Spec => []TypeOK
  <1>1. IInv => TypeOK
    BY DEF IInv
  <1> QED BY <1>1, Invariance, PTL

\* A singleton that is registered in one way is made once, whichever of its
\* keys, its list or the registry asks first, and whatever threads ask at once,
\* as long as no two of them made the scope.
THEOREM MadeOnce == Spec => []OneInstance
  <1>1. IInv => OneInstance
    BY DEF IInv
  <1> QED BY <1>1, Invariance, PTL

-----------------------------------------------------------------------------
(* What is answered: which class, and whether it is the same again.          *)

\* An instance of class c can be kept for key k, and be answered for it.
Fits(k, c) == IF k \in Iface THEN <<"iface", k>> \in past.ways[c] ELSE c = k
Answers(k, c) ==
    \/ Fits(k, c)
    \/ k \notin Iface /\ \E i \in Iface : <<"iface", i>> \in past.ways[k] \cap past.ways[c]

RightInv ==
    /\ \A s \in Scope, k \in Key : one[s][k] # 0 =>
         one[s][k] \in DOMAIN made /\ Fits(k, made[one[s][k]])
    /\ \A k \in Key : \A m \in past.given[k] : m \in DOMAIN made /\ Answers(k, made[m])

\* What is in a list is also kept for its class.
ListInv ==
    \A s \in Scope, i \in Iface : \A n \in DOMAIN list[s][i] :
      LET c == made[list[s][i][n]]
      IN  <<"list", i>> \in past.ways[c] /\ one[s][c] # 0

\* A class that only a list makes is kept and answered as the list has it.
AgreesInv ==
    OneScope => \A c \in Class, i \in Iface :
      past.ways[c] = {<<"list", i>>} /\ c \notin past.early =>
        /\ one[1][c] # 0 => one[1][c] \in Elements(i)
        /\ past.given[c] \subseteq Elements(i)

\* What was answered for a key is what would be answered now.
Current(k, m) ==
    IF one[1][k] # 0 THEN m = one[1][k]
    ELSE k \notin Iface /\ \E i \in Iface : <<"iface", i>> \in past.ways[k] /\ m = one[1][i]

AnswerInv ==
    OneScope => \A k \in Key : k \in Iface \/ Plain(k) =>
      \A m \in past.given[k] : Current(k, m)

AInv == RightInv /\ ListInv /\ AgreesInv /\ AnswerInv

LEMMA InitAnswers == Init => AInv
  <1> SUFFICES ASSUME Init PROVE AInv
    OBVIOUS
  <1>1. RightInv /\ ListInv
    BY DEF Init, RightInv, ListInv
  <1>2. AgreesInv /\ AnswerInv
    BY FirstScope DEF Init, AgreesInv, AnswerInv, Key
  <1> QED BY <1>1, <1>2 DEF AInv

\* What was made has a number and a class; so has what is kept.
LEMMA MadeFacts ==
    ASSUME TypeOK
    PROVE  /\ \A m \in DOMAIN made : made[m] \in Class /\ m \in Nat \ {0}
           /\ \A s \in Scope, k \in Key : one[s][k] \in Nat
           /\ \A i \in Iface : i \in Key /\ i \notin Class
           /\ \A c \in Class : c \in Key /\ c \notin Iface
           /\ \A k \in Key : k \in Iface \/ k \in Class
  <1>1. made \in Seq(Class) /\ one \in [Scope -> [Key -> Nat]]
    BY DEF TypeOK
  <1> QED BY <1>1, DiAssumption DEF Key

\* Whatever was kept or answered for a class, it was registered.
LEMMA AnsweredWays ==
    ASSUME IInv, RightInv, NEW c \in Class,
           \/ past.given[c] # {}
           \/ \E s \in Scope : one[s][c] # 0
    PROVE  past.ways[c] # {}
  <1>1. TypeOK /\ WayInv /\ c \in Key /\ c \notin Iface
    BY MadeFacts DEF IInv
  <1>2. ASSUME NEW s \in Scope, one[s][c] # 0 PROVE Made(c)
    BY <1>1, <1>2 DEF RightInv, Fits, Made
  <1>3. ASSUME NEW m \in past.given[c] PROVE Made(c) \/ past.ways[c] # {}
    BY <1>1, <1>3 DEF RightInv, Answers, Fits, Made
  <1> QED BY <1>1, <1>2, <1>3 DEF WayInv

\* More registrations: what was answered stays right.
LEMMA WaysGrow ==
    ASSUME NEW k, NEW c \in Class,
           k \in Iface \/ past.ways[k] \subseteq past'.ways[k],
           past.ways[c] \subseteq past'.ways[c]
    PROVE  (Fits(k, c) => Fits(k, c)') /\ (Answers(k, c) => Answers(k, c)')
  BY DEF Fits, Answers

LEMMA RegistersAnswers ==
    ASSUME IInv, AInv, NEW c \in Class, NEW w \in Way, Registers(c, w), ListsGrow,
           scope' = scope \/ (scope = 0 /\ scope' = 1),
           UNCHANGED <<one, list, made>>
    PROVE  AInv'
  <1>1. TypeOK /\ RightInv /\ ListInv /\ AgreesInv /\ AnswerInv
    BY DEF IInv, AInv
  <1>2. /\ past'.early = past.early /\ past'.given = past.given
        /\ \A d \in Class : past.ways[d] \subseteq past'.ways[d]
    BY <1>1, RegistersFacts
  <1>3. OneScope' => OneScope
    BY <1>1, DiBounds DEF OneScope, TypeOK
  <1>4. RightInv'
    <2>1. ASSUME NEW k \in Key, NEW m \in DOMAIN made
          PROVE  /\ Fits(k, made[m]) => Fits(k, made[m])'
                 /\ Answers(k, made[m]) => Answers(k, made[m])'
      BY <1>1, <1>2, MadeFacts, WaysGrow
    <2> QED BY <1>1, <1>2, <2>1 DEF RightInv
  <1>5. ListInv'
    <2>1. \A s \in Scope, i \in Iface : \A n \in DOMAIN list[s][i] :
            made[list[s][i][n]] \in Class
      BY <1>1, MadeFacts DEF IInv, WayInv
    <2> QED BY <1>1, <1>2, <2>1 DEF ListInv
  <1>6. AgreesInv'
    <2> SUFFICES ASSUME OneScope', NEW d \in Class, NEW i \in Iface,
                        past'.ways[d] = {<<"list", i>>}, d \notin past'.early
                 PROVE  /\ one'[1][d] # 0 => one'[1][d] \in Elements(i)'
                        /\ past'.given[d] \subseteq Elements(i)'
      BY DEF AgreesInv
    <2>1. CASE past.ways[d] = {}
      BY <1>1, <1>2, <2>1, AnsweredWays, FirstScope
    <2>2. CASE past.ways[d] = {<<"list", i>>}
      BY <1>1, <1>2, <1>3, <2>2 DEF AgreesInv, Elements
    <2> QED BY <1>2, <2>1, <2>2
  <1>7. AnswerInv'
    <2> SUFFICES ASSUME OneScope', NEW k \in Key, k \in Iface \/ Plain(k)',
                        NEW m \in past'.given[k]
                 PROVE  Current(k, m)'
      BY DEF AnswerInv
    <2>1. m \in past.given[k]
      BY <1>2
    <2>2. CASE k \in Iface
      BY <1>1, <1>3, <2>1, <2>2 DEF AnswerInv, Current
    <2>3. CASE k \in Class
      <3>1. past.ways[k] # {}
        BY <1>1, <2>1, <2>3, AnsweredWays
      <3>2. Plain(k) /\ past'.ways[k] = past.ways[k]
        BY <1>1, <2>3, <3>1, StaysPlain, MadeFacts
      <3> QED BY <1>1, <1>3, <2>1, <3>2 DEF AnswerInv, Current
    <2> QED BY <1>1, <2>2, <2>3, MadeFacts
  <1> QED BY <1>4, <1>5, <1>6, <1>7 DEF AInv

\* Steps that neither register nor answer.
LEMMA SameAnswers ==
    ASSUME IInv, AInv, UNCHANGED <<multi, one, list, made, past>>,
           scope' \in Nat, scope' >= scope
    PROVE  AInv'
  <1>1. OneScope' => OneScope
    BY DiBounds DEF OneScope, IInv, TypeOK
  <1>2. \A c : Plain(c)' <=> Plain(c)
    BY DEF Plain, Repeats
  <1>3. RightInv' /\ ListInv'
    BY DEF AInv, RightInv, ListInv, Fits, Answers
  <1>4. AgreesInv'
    BY <1>1 DEF AInv, AgreesInv, Elements
  <1>5. AnswerInv'
    BY <1>1, <1>2 DEF AInv, AnswerInv, Current
  <1> QED BY <1>3, <1>4, <1>5 DEF AInv

\* Where a lookup that finds something found it.
LEMMA FoundFacts ==
    ASSUME IInv, NEW s \in Scope, NEW k \in Key, NEW p, GoodProv(k, p, past.ways),
           Found(s, k, p) # 0
    PROVE  \/ one[s][k] # 0 /\ Found(s, k, p) = one[s][k]
           \/ /\ k \notin Iface /\ one[s][k] = 0
              /\ \E i \in Iface : <<"iface", i>> \in past.ways[k] /\ Found(s, k, p) = one[s][i]
  <1>1. CASE one[s][k] # 0
    BY <1>1 DEF Found
  <1>2. CASE one[s][k] = 0
    <2>1. p.aware # None /\ Found(s, k, p) = one[s][p.aware]
      BY <1>2 DEF Found
    <2>2. p.aware # k
      BY <1>2, <2>1
    <2> QED BY <1>2, <2>1, <2>2 DEF GoodProv
  <1> QED BY <1>1, <1>2

\* An instance that is found is right, is the list's, and is what is answered
\* now.
LEMMA FindAnswers == ASSUME IInv, AInv, NEW t \in Thread, Find(t) PROVE AInv'
  <1> DEFINE k == thread[t].key
             p == thread[t].prov
             s == thread[t].scope
             m == Found(s, k, p)
  <1>1. TypeOK /\ RightInv /\ ListInv /\ AgreesInv /\ AnswerInv /\ Enters(t)
    BY DEF IInv, AInv, Find
  <1>2. k \in Key /\ m # 0 /\ Gives(k, m, {}) /\ UNCHANGED <<one, list, made>>
    BY DEF Find
  <1>3. GoodProv(k, p, past.ways) /\ p \in Provider /\ s \in Scope /\ (OneScope => s = 1)
        /\ UNCHANGED <<multi, scope>>
    BY <1>1, <1>2, EntersFacts DEF GoodProv
  <1> HIDE DEF k, p, s
  <1>4. m \in Nat
    BY <1>1, <1>2, <1>3, FoundType
  <1>5. \/ one[s][k] # 0 /\ m = one[s][k]
        \/ /\ k \notin Iface /\ one[s][k] = 0
           /\ \E i \in Iface : <<"iface", i>> \in past.ways[k] /\ m = one[s][i]
    BY <1>2, <1>3, FoundFacts
  <1> HIDE DEF m
  <1>6. /\ \A x \in Key : past'.given[x] = IF x = k THEN past.given[x] \cup {m}
                                           ELSE past.given[x]
        /\ past'.ways = past.ways /\ past'.early = past.early
    <2>1. {} \in SUBSET Class
      OBVIOUS
    <2>2. past'.early = past.early \cup {}
      BY <1>1, <1>2, <1>4, <2>1, GivesFacts
    <2>3. past'.early = past.early
      BY <2>2
    <2> QED BY <1>1, <1>2, <1>4, <2>1, <2>3, GivesFacts
  <1>7. RightInv'
    <2>1. m \in DOMAIN made /\ Answers(k, made[m])
      <3>1. CASE m = one[s][k]
        BY <1>1, <1>2, <1>3, <3>1 DEF RightInv, Answers
      <3>2. ASSUME k \notin Iface, NEW i \in Iface, <<"iface", i>> \in past.ways[k],
                   m = one[s][i]
            PROVE  m \in DOMAIN made /\ Answers(k, made[m])
        <4>1. m \in DOMAIN made /\ <<"iface", i>> \in past.ways[made[m]]
          BY <1>1, <1>2, <1>3, <3>2, MadeFacts DEF RightInv, Fits
        <4> QED BY <3>2, <4>1 DEF Answers
      <3> QED BY <1>5, <3>1, <3>2
    <2>2. \A x, c : (Fits(x, c)' <=> Fits(x, c)) /\ (Answers(x, c)' <=> Answers(x, c))
      BY <1>6 DEF Fits, Answers
    <2> QED BY <1>1, <1>2, <1>6, <2>1, <2>2 DEF RightInv
  <1>8. ListInv'
    BY <1>1, <1>2, <1>6 DEF ListInv
  <1>9. AgreesInv'
    <2> SUFFICES ASSUME OneScope, NEW c \in Class, NEW i \in Iface,
                        past.ways[c] = {<<"list", i>>}, c \notin past.early
                 PROVE  /\ one[1][c] # 0 => one[1][c] \in Elements(i)
                        /\ past'.given[c] \subseteq Elements(i)
      BY <1>2, <1>3, <1>6 DEF AgreesInv, OneScope, Elements
    <2>1. /\ one[1][c] # 0 => one[1][c] \in Elements(i)
          /\ past.given[c] \subseteq Elements(i)
      BY <1>1 DEF AgreesInv
    <2>2. ASSUME c = k PROVE m \in Elements(i)
      <3>1. \A j \in Iface : <<"iface", j>> # <<"list", i>>
        OBVIOUS
      <3>2. one[s][k] # 0 /\ m = one[s][k]
        BY <1>5, <2>2, <3>1
      <3> QED BY <1>3, <2>1, <2>2, <3>2
    <2> QED BY <1>1, <1>6, <2>1, <2>2, MadeFacts
  <1>10. AnswerInv'
    <2> SUFFICES ASSUME OneScope, NEW x \in Key, x \in Iface \/ Plain(x),
                        NEW a \in past'.given[x]
                 PROVE  Current(x, a)
      <3>1. \A c : Plain(c)' <=> Plain(c)
        BY <1>3, <1>6 DEF Plain, Repeats
      <3> QED BY <1>2, <1>3, <1>6, <3>1 DEF AnswerInv, OneScope, Current
    <2>1. CASE a \in past.given[x]
      BY <1>1, <2>1 DEF AnswerInv
    <2>2. CASE x = k /\ a = m
      BY <1>3, <1>5, <2>2 DEF Current
    <2> QED BY <1>6, <2>1, <2>2
  <1> QED BY <1>7, <1>8, <1>9, <1>10 DEF AInv

\* A new instance is kept only where none was: nothing that was answered is
\* replaced, and a class that a list has is never made by itself.
LEMMA CreateAnswers == ASSUME IInv, AInv, NEW t \in Thread, Create(t) PROVE AInv'
  <1> DEFINE k == thread[t].key
             p == thread[t].prov
             s == thread[t].scope
             m == Len(made) + 1
             new == IF k \in Class /\ ~Listed(s, k) THEN {k} ELSE {}
  <1>1. TypeOK /\ RightInv /\ ListInv /\ AgreesInv /\ AnswerInv /\ Enters(t)
    BY DEF IInv, AInv, Create
  <1>2. /\ k \in Key /\ Found(s, k, p) = 0
        /\ made' = Append(made, p.cls)
        /\ one' = [one EXCEPT ![s] = [x \in Key |->
                     IF x \in {k, p.aware} THEN m ELSE @[x]]]
        /\ Gives(k, m, new)
        /\ list' = list
    BY DEF Create
  <1>3. /\ GoodProv(k, p, past.ways) /\ p.cls \in Class
        /\ p.aware \in Key \cup {None}
        /\ s \in Scope /\ (OneScope => s = 1) /\ UNCHANGED <<multi, scope>>
    BY <1>1, <1>2, EntersFacts DEF GoodProv, Provider
  <1>4. /\ m \in Nat \ {0} /\ m \in DOMAIN made' /\ made'[m] = p.cls
        /\ \A n \in DOMAIN made : n \in DOMAIN made' /\ made'[n] = made[n]
    <2>1. made \in Seq(Class)
      BY <1>1 DEF TypeOK
    <2> QED BY <1>2, <1>3, <2>1, AppendFacts
  <1>5. new \in SUBSET Class
    OBVIOUS
  <1> HIDE DEF new, m, k, p, s
  <1>6. /\ \A x \in Key : past'.given[x] = IF x = k THEN past.given[x] \cup {m}
                                           ELSE past.given[x]
        /\ past'.ways = past.ways
        /\ past'.early = past.early \cup new
    BY <1>1, <1>2, <1>4, <1>5, GivesFacts
  <1>7. /\ \A x \in Key : one'[s][x] = IF x \in {k, p.aware} THEN m ELSE one[s][x]
        /\ \A r \in Scope \ {s} : one'[r] = one[r]
    BY <1>1, <1>2, <1>3 DEF TypeOK
  <1>8. one[s][k] = 0 /\ (p.aware # None => one[s][p.aware] = 0)
    BY <1>2, <1>3, MadeFacts DEF Found
  <1>9. \A r \in Scope, x \in Key : one[r][x] # 0 => one'[r][x] = one[r][x]
    BY <1>3, <1>7, <1>8, DiAssumption DEF Key
  \* The provider's interface is one of the class's, or the class itself.
  <1>10. p.aware # None => p.aware \in Iface \/ p.aware = k
    BY <1>3 DEF GoodProv
  <1>11. Fits(k, p.cls) /\ (p.aware # None => Fits(p.aware, p.cls))
    BY <1>1, <1>3, MadeFacts DEF GoodProv, Fits
  <1>12. \A x, c : (Fits(x, c)' <=> Fits(x, c)) /\ (Answers(x, c)' <=> Answers(x, c))
    BY <1>6 DEF Fits, Answers
  <1>13. RightInv'
    <2>1. ASSUME NEW r \in Scope, NEW x \in Key, one'[r][x] # 0
          PROVE  one'[r][x] \in DOMAIN made' /\ Fits(x, made'[one'[r][x]])
      <3>1. CASE r = s /\ x \in {k, p.aware}
        <4>1. x = k \/ (p.aware # None /\ x = p.aware)
          BY <3>1, DiAssumption DEF Key
        <4> QED BY <1>4, <1>7, <1>11, <3>1, <4>1
      <3>2. CASE ~(r = s /\ x \in {k, p.aware})
        <4>1. one'[r][x] = one[r][x]
          BY <1>7, <3>2
        <4> QED BY <1>1, <1>4, <2>1, <4>1 DEF RightInv
      <3> QED BY <3>1, <3>2
    <2>2. ASSUME NEW x \in Key, NEW a \in past'.given[x]
          PROVE  a \in DOMAIN made' /\ Answers(x, made'[a])
      <3>1. CASE a \in past.given[x]
        BY <1>1, <1>4, <3>1 DEF RightInv
      <3>2. CASE x = k /\ a = m
        BY <1>4, <1>11, <3>2 DEF Answers
      <3> QED BY <1>6, <2>2, <3>1, <3>2
    <2> QED BY <1>12, <2>1, <2>2 DEF RightInv
  <1>14. ListInv'
    <2> SUFFICES ASSUME NEW r \in Scope, NEW i \in Iface, NEW n \in DOMAIN list[r][i]
                 PROVE  /\ <<"list", i>> \in past'.ways[made'[list'[r][i][n]]]
                        /\ one'[r][made'[list'[r][i][n]]] # 0
      BY <1>2 DEF ListInv
    <2>1. list[r][i][n] \in DOMAIN made
      BY DEF IInv, WayInv
    <2>2. made[list[r][i][n]] \in Key /\ made'[list[r][i][n]] = made[list[r][i][n]]
      BY <1>1, <1>4, <2>1, MadeFacts
    <2>3. <<"list", i>> \in past.ways[made[list[r][i][n]]]
          /\ one[r][made[list[r][i][n]]] # 0
      BY <1>1 DEF ListInv
    <2> QED BY <1>2, <1>6, <1>9, <2>2, <2>3
  <1>15. AgreesInv'
    <2> SUFFICES ASSUME OneScope, NEW c \in Class, NEW i \in Iface,
                        past.ways[c] = {<<"list", i>>}, c \notin past'.early
                 PROVE  /\ one'[1][c] # 0 => one'[1][c] \in Elements(i)
                        /\ past'.given[c] \subseteq Elements(i)
      BY <1>2, <1>3, <1>6 DEF AgreesInv, OneScope, Elements
    <2>1. c \notin past.early /\ c \notin new /\ s = 1
      BY <1>3, <1>6
    <2>2. c # k
      <3> SUFFICES ASSUME c = k PROVE FALSE
        OBVIOUS
      <3>1. Listed(1, c)
        BY <2>1 DEF new
      <3>2. one[1][c] # 0
        BY <1>1, <3>1, FirstScope DEF Listed, ListInv
      <3> QED BY <1>8, <2>1, <3>2
    <2>3. c \in Key /\ c \notin {k, p.aware}
      BY <1>1, <1>3, <1>10, <2>2, MadeFacts, DiAssumption
    <2>4. one'[1][c] = one[1][c] /\ past'.given[c] = past.given[c]
      BY <1>6, <1>7, <2>1, <2>3
    <2> QED BY <1>1, <2>1, <2>4 DEF AgreesInv
  <1>16. AnswerInv'
    <2> SUFFICES ASSUME OneScope, NEW x \in Key, x \in Iface \/ Plain(x)',
                        NEW a \in past'.given[x]
                 PROVE  Current(x, a)'
      BY <1>3 DEF AnswerInv, OneScope
    <2>1. s = 1 /\ 1 \in Scope
      BY <1>3, FirstScope
    <2>2. CASE x = k /\ a = m
      BY <1>4, <1>7, <2>1, <2>2 DEF Current
    <2>3. CASE a \in past.given[x]
      <3>1. Plain(x)' => Plain(x)
        BY <1>3, <1>6 DEF Plain, Repeats
      <3>2. Current(x, a)
        BY <1>1, <2>3, <3>1 DEF AnswerInv
      <3>3. a # 0
        BY <1>1, <2>3, MadeFacts DEF RightInv
      <3>4. CASE one[1][x] # 0
        BY <1>9, <2>1, <3>2, <3>4 DEF Current
      <3>5. CASE one[1][x] = 0
        <4>1. PICK i \in Iface : x \notin Iface /\ <<"iface", i>> \in past.ways[x]
                                 /\ a = one[1][i]
          BY <3>2, <3>5 DEF Current
        <4>2. x \in Class /\ i \in Key /\ Plain(x)
          BY <1>1, <3>1, <4>1, MadeFacts
        <4>3. ASSUME x = k PROVE FALSE
          <5>1. \A w \in past.ways[x] : w = <<"iface", i>>
            BY <4>1, <4>2, OneWay
          <5>2. p.aware = i
            BY <1>3, <4>1, <4>3, <5>1 DEF GoodProv
          <5> QED BY <1>8, <2>1, <3>3, <4>1, <4>2, <5>2, DiAssumption DEF Key
        <4>4. x \notin {k, p.aware}
          BY <1>1, <1>3, <1>10, <4>1, <4>2, <4>3, MadeFacts, DiAssumption
        <4>5. one'[1][x] = 0 /\ one'[1][i] = a
          BY <1>7, <1>9, <2>1, <3>3, <3>5, <4>1, <4>2, <4>4
        <4> QED BY <1>6, <4>1, <4>5 DEF Current
      <3> QED BY <3>4, <3>5
    <2> QED BY <1>6, <2>2, <2>3
  <1> QED BY <1>13, <1>14, <1>15, <1>16 DEF AInv

\* A list's instances take the place of those that were made for the same
\* classes; none of a class that is only in the list was answered before.
LEMMA CreateListAnswers == ASSUME IInv, AInv, NEW t \in Thread, CreateList(t) PROVE AInv'
  <1> DEFINE s == thread[t].scope
             n == Len(made)
  <1>1. TypeOK /\ WayInv /\ RightInv /\ ListInv /\ AgreesInv /\ AnswerInv /\ Enters(t)
    BY DEF IInv, AInv, CreateList
  <1>2. s \in Scope /\ (OneScope => s = 1) /\ UNCHANGED <<multi, scope>>
    BY <1>1, EntersFacts
  <1>3. past' = past
    BY DEF CreateList
  <1>4. PICK i \in Iface : thread[t].key = <<i>>
    BY DEF CreateList, ListKey
  <1> DEFINE cs == multi[i]
             new == [m \in DOMAIN cs |-> n + m]
  <1>5. /\ list[s][i] = <<>>
        /\ made' = made \o cs
        /\ list' = [list EXCEPT ![s][i] = new]
        /\ one' = [one EXCEPT ![s] = [x \in Key |->
                     IF \E m \in DOMAIN cs : cs[m] = x THEN n + Last(x, cs) ELSE @[x]]]
    BY <1>4 DEF CreateList
  <1>6. made \in Seq(Class) /\ cs \in Seq(Class) /\ n \in Nat /\ DOMAIN cs \subseteq Nat
    BY <1>1 DEF TypeOK
  <1>7. \A m \in DOMAIN cs : /\ cs[m] \in Class /\ cs[m] \in Key /\ cs[m] \notin Iface
                             /\ <<"list", i>> \in past.ways[cs[m]]
    BY <1>1, <1>6, MadeFacts DEF WayInv
  <1>8. /\ \A m \in DOMAIN made : m \in DOMAIN made' /\ made'[m] = made[m]
        /\ \A m \in DOMAIN cs : /\ n + m \in DOMAIN made' /\ n + m # 0
                                /\ made'[n + m] = cs[m]
    <2>1. ASSUME NEW m \in DOMAIN cs PROVE made'[n + m] = cs[m]
      BY <1>5, <1>6
    <2>2. \A m \in DOMAIN made : m \in DOMAIN made' /\ made'[m] = made[m]
      BY <1>5, <1>6, MadeGrows
    <2>3. \A m \in DOMAIN cs : n + m \in DOMAIN made' /\ n + m \in Nat \ {0}
      BY <1>5, <1>6, MadeGrows
    <2> QED BY <2>1, <2>2, <2>3
  <1>9. \A m \in DOMAIN cs : Last(cs[m], cs) \in DOMAIN cs /\ cs[Last(cs[m], cs)] = cs[m]
    BY <1>6, LastType
  <1> HIDE DEF s, n, cs
  <1>10. /\ \A r \in Scope \ {s} : one'[r] = one[r]
         /\ \A x \in Key : (\A m \in DOMAIN cs : cs[m] # x) => one'[s][x] = one[s][x]
         /\ \A m \in DOMAIN cs : one'[s][cs[m]] = n + Last(cs[m], cs)
    BY <1>1, <1>2, <1>5, <1>7 DEF TypeOK
  <1>11. \A r \in Scope, j \in Iface :
           IF r = s /\ j = i THEN list'[r][j] = new ELSE list'[r][j] = list[r][j]
    BY <1>1, <1>2, <1>5 DEF TypeOK
  <1>12. \A x, c : (Fits(x, c)' <=> Fits(x, c)) /\ (Answers(x, c)' <=> Answers(x, c))
    BY <1>3 DEF Fits, Answers
  \* What is kept is what was kept, or the list's.
  <1>13. \A r \in Scope, x \in Key :
           \/ one'[r][x] = one[r][x] /\ (r = s => \A m \in DOMAIN cs : cs[m] # x)
           \/ r = s /\ \E m \in DOMAIN cs : cs[m] = x /\ one'[r][x] = n + m
    BY <1>9, <1>10
  <1>14. RightInv'
    <2>1. ASSUME NEW r \in Scope, NEW x \in Key, one'[r][x] # 0
          PROVE  one'[r][x] \in DOMAIN made' /\ Fits(x, made'[one'[r][x]])
      <3>1. CASE one'[r][x] = one[r][x]
        BY <1>1, <1>8, <2>1, <3>1 DEF RightInv
      <3>2. ASSUME NEW m \in DOMAIN cs, cs[m] = x, one'[r][x] = n + m
            PROVE  one'[r][x] \in DOMAIN made' /\ Fits(x, made'[one'[r][x]])
        BY <1>7, <1>8, <3>2 DEF Fits
      <3> QED BY <1>13, <3>1, <3>2
    <2> QED BY <1>1, <1>3, <1>8, <1>12, <2>1 DEF RightInv
  <1>15. ListInv'
    <2> SUFFICES ASSUME NEW r \in Scope, NEW j \in Iface, NEW l \in DOMAIN list'[r][j]
                 PROVE  /\ <<"list", j>> \in past.ways[made'[list'[r][j][l]]]
                        /\ one'[r][made'[list'[r][j][l]]] # 0
      BY <1>3 DEF ListInv
    <2>1. CASE r = s /\ j = i
      <3>1. l \in DOMAIN cs /\ made'[list'[r][j][l]] = cs[l]
        <4>1. list'[r][j] = new
          BY <1>11, <2>1
        <4>2. l \in DOMAIN cs /\ list'[r][j][l] = n + l
          BY <4>1
        <4> QED BY <1>8, <4>2
      <3>2. one'[s][cs[l]] # 0
        BY <1>8, <1>9, <1>10, <3>1
      <3> QED BY <1>7, <2>1, <3>1, <3>2
    <2>2. CASE ~(r = s /\ j = i)
      <3>1. list'[r][j] = list[r][j]
        BY <1>11, <2>2
      <3>2. list[r][j][l] \in DOMAIN made
        BY <1>1, <3>1 DEF WayInv
      <3>3. made'[list[r][j][l]] = made[list[r][j][l]] /\ made[list[r][j][l]] \in Key
        BY <1>1, <1>8, <3>2, MadeFacts
      <3>4. /\ <<"list", j>> \in past.ways[made[list[r][j][l]]]
            /\ one[r][made[list[r][j][l]]] # 0
        BY <1>1, <3>1 DEF ListInv
      <3>5. one'[r][made[list[r][j][l]]] # 0
        BY <1>8, <1>13, <3>3, <3>4
      <3> QED BY <3>1, <3>3, <3>4, <3>5
    <2> QED BY <2>1, <2>2
  <1>16. OneScope => 1 \in Scope /\ s = 1 /\ Elements(i) = {}
    BY <1>2, <1>5, FirstScope DEF Elements
  <1>17. AgreesInv'
    <2> SUFFICES ASSUME OneScope, NEW c \in Class, NEW j \in Iface,
                        past.ways[c] = {<<"list", j>>}, c \notin past.early
                 PROVE  /\ one'[1][c] # 0 => one'[1][c] \in Elements(j)'
                        /\ past.given[c] \subseteq Elements(j)'
      BY <1>2, <1>3 DEF AgreesInv, OneScope
    <2>1. /\ one[1][c] # 0 => one[1][c] \in Elements(j)
          /\ past.given[c] \subseteq Elements(j)
      BY <1>1 DEF AgreesInv
    <2>2. Elements(j) \subseteq Elements(j)'
      <3>1. CASE j = i
        BY <1>16, <3>1
      <3>2. CASE j # i
        <4>1. list'[1][j] = list[1][j]
          BY <1>11, <1>16, <3>2
        <4> QED BY <4>1 DEF Elements
      <3> QED BY <3>1, <3>2
    <2>3. ASSUME NEW m \in DOMAIN cs, cs[m] = c, one'[1][c] = n + m
          PROVE  one'[1][c] \in Elements(j)'
      <3>1. j = i
        BY <1>7, <2>3
      <3>2. list'[1][i] = new
        BY <1>11, <1>16
      <3> QED BY <2>3, <3>1, <3>2 DEF Elements
    <2>4. c \in Key
      BY <1>1, MadeFacts
    <2> QED BY <1>13, <1>16, <2>1, <2>2, <2>3, <2>4
  <1>18. AnswerInv'
    <2> SUFFICES ASSUME OneScope, NEW x \in Key, x \in Iface \/ Plain(x),
                        NEW a \in past.given[x]
                 PROVE  Current(x, a)'
      <3>1. \A c : Plain(c)' <=> Plain(c)
        BY <1>2, <1>3 DEF Plain, Repeats
      <3> QED BY <1>2, <1>3, <3>1 DEF AnswerInv, OneScope
    <2>1. Current(x, a)
      BY <1>1 DEF AnswerInv
    <2>2. \A m \in DOMAIN cs : cs[m] # x
      <3> SUFFICES ASSUME NEW m \in DOMAIN cs, cs[m] = x PROVE FALSE
        OBVIOUS
      <3>1. Plain(x) /\ x \in Class /\ <<"list", i>> \in past.ways[x]
        BY <1>7
      <3>2. m \in Repeats(x, i)
        BY DEF Repeats, cs
      <3>3. x \notin past.early
        BY <3>1, <3>2 DEF Plain
      <3>4. past.ways[x] = {<<"list", i>>}
        BY <3>1, OneWay
      <3> QED BY <1>1, <1>16, <3>1, <3>3, <3>4 DEF AgreesInv
    <2>3. one'[1][x] = one[1][x] /\ \A j \in Iface : one'[1][j] = one[1][j]
      BY <1>1, <1>7, <1>13, <1>16, <2>2, MadeFacts
    <2> QED BY <1>3, <2>1, <2>3 DEF Current
  <1> QED BY <1>14, <1>15, <1>17, <1>18 DEF AInv

-----------------------------------------------------------------------------
(* Every step, and the theorems about answers.                               *)

LEMMA NextAnswers == ASSUME IInv, AInv, [Next]_vars PROVE AInv'
  <1>1. TypeOK /\ multi \in [Iface -> Seq(Class)] /\ scope \in Nat /\ scope >= scope
    BY DiBounds DEF IInv, TypeOK
  <1>2. multi' = multi => ListsGrow
    BY DEF ListsGrow
  <1>3. ASSUME NEW c \in Class,
               RegisterClass(c) \/ \E i \in Iface : RegisterSingleton(i, c)
        PROVE  AInv'
    <2>1. \E w \in Way : Registers(c, w)
      BY <1>3 DEF RegisterClass, RegisterSingleton, Way
    <2> QED BY <1>2, <1>3, <2>1, RegistersAnswers DEF RegisterClass, RegisterSingleton
  <1>4. ASSUME NEW c \in Class, NEW i \in Iface, BindsImpl(i, c),
               scope' = scope \/ (scope = 0 /\ scope' = 1),
               UNCHANGED <<one, list, made>>
        PROVE  AInv'
    <2>1. <<"list", i>> \in Way /\ Registers(c, <<"list", i>>)
      BY <1>4 DEF BindsImpl, Way
    <2>2. ListsGrow
      <3>1. multi' = [multi EXCEPT ![i] = Append(@, c)]
        BY <1>4 DEF BindsImpl
      <3> QED BY <1>1, <3>1, ListsKeep
    <2> QED BY <1>4, <2>1, <2>2, RegistersAnswers
  <1>5. ASSUME NEW c \in Class,
               \/ \E i \in Iface : RegisterImpl(i, c)
               \/ \E n \in Name : AddToRegistry(n, c)
        PROVE  AInv'
    BY <1>4, <1>5, DiAssumption DEF RegisterImpl, AddToRegistry
  <1>6. ASSUME NEW t \in Thread, StartGet(t) \/ \E n \in Name : LookUp(t, n) PROVE AInv'
    BY <1>1, <1>6, SameAnswers DEF StartGet, LookUp, Starts
  <1>7. ASSUME NEW t \in Thread, BindScope(t) \/ ReadScope(t) PROVE AInv'
    <2>1. scope' \in Nat /\ scope' >= scope /\ UNCHANGED <<multi, one, list, made, past>>
      BY <1>1, <1>7 DEF BindScope, ReadScope
    <2> QED BY <2>1, SameAnswers
  <1>8. ASSUME NEW t \in Thread, Find(t) PROVE AInv'
    BY <1>8, FindAnswers
  <1>9. ASSUME NEW t \in Thread, FindList(t) PROVE AInv'
    BY <1>1, <1>9, SameAnswers DEF FindList, Enters
  <1>10. ASSUME NEW t \in Thread, Create(t) PROVE AInv'
    BY <1>10, CreateAnswers
  <1>11. ASSUME NEW t \in Thread, CreateList(t) PROVE AInv'
    BY <1>11, CreateListAnswers
  <1>12. CASE UNCHANGED vars
    BY <1>1, <1>12, SameAnswers DEF vars
  <1> QED BY <1>3, <1>5, <1>6, <1>7, <1>8, <1>9, <1>10, <1>11, <1>12 DEF Next

THEOREM AnswersInvariance == Spec => []AInv
  BY Invariance, InitAnswers, NextAnswers, PTL DEF Spec

\* What was answered for an interface, or for a class registered in one way, is
\* answered for it ever after, also when the interface is bound again.
THEOREM AnsweredAgain == Spec => []SameAnswer
  <1>1. IInv /\ AInv => SameAnswer
    <2> SUFFICES ASSUME IInv, AInv, OneScope, NEW k \in Key, k \in Iface \/ Plain(k),
                        NEW m \in past.given[k], NEW n \in past.given[k]
                 PROVE  m = n
      BY DEF SameAnswer
    <2>1. Current(k, m) /\ Current(k, n)
      BY DEF AInv, AnswerInv
    <2>2. CASE one[1][k] # 0
      BY <2>1, <2>2 DEF Current
    <2>3. CASE one[1][k] = 0
      <3>1. k \notin Iface /\ Plain(k)
        BY <2>1, <2>3 DEF Current
      <3>2. PICK i \in Iface : <<"iface", i>> \in past.ways[k] /\ m = one[1][i]
        BY <2>1, <2>3 DEF Current
      <3>3. PICK j \in Iface : <<"iface", j>> \in past.ways[k] /\ n = one[1][j]
        BY <2>1, <2>3 DEF Current
      <3>4. <<"iface", i>> = <<"iface", j>>
        BY <3>1, <3>2, <3>3, OneWay
      <3> QED BY <3>2, <3>3, <3>4
    <2> QED BY <2>2, <2>3
  <1> QED BY <1>1, Invariance, AnswersInvariance, PTL

\* An interface is answered with its implementation and a class with an
\* instance of its own, in every scope, unless an interface was bound again.
THEOREM AnsweredRight == Spec => []RightClass
  <1>1. IInv /\ AInv => RightClass
    <2> SUFFICES ASSUME IInv, AInv, NEW k \in Key, NEW m \in past.given[k]
                 PROVE  IF k \in Iface
                        THEN k \notin Rebound => <<"iface", k>> \in past.ways[made[m]]
                        ELSE (\A i \in Rebound : <<"iface", i>> \notin past.ways[k])
                               => made[m] = k
      BY DEF RightClass
    <2>1. m \in DOMAIN made /\ Answers(k, made[m])
      BY DEF AInv, RightInv
    <2>2. CASE k \in Iface
      BY <2>1, <2>2 DEF Answers, Fits
    <2>3. CASE k \notin Iface
      <3>1. k \in Class /\ made[m] \in Class
        BY <2>1, <2>3, MadeFacts DEF IInv, Key
      <3>2. made[m] = k \/ \E i \in Iface :
              <<"iface", i>> \in past.ways[k] \cap past.ways[made[m]]
        BY <2>1, <2>3 DEF Answers, Fits
      <3>3. ASSUME NEW i \in Iface, made[m] # k,
                   <<"iface", i>> \in past.ways[k] \cap past.ways[made[m]]
            PROVE  i \in Rebound
        BY <3>1, <3>3 DEF Rebound
      <3> QED BY <2>3, <3>2, <3>3
    <2> QED BY <2>2, <2>3
  <1> QED BY <1>1, Invariance, AnswersInvariance, PTL

\* A class that only a list makes is, by itself or through the registry, the
\* element of the list.
THEOREM ListsAgree == Spec => []ListAgrees
  <1>1. IInv /\ AInv => ListAgrees
    <2> SUFFICES ASSUME IInv, AInv, OneScope, NEW i \in Iface, NEW m \in Elements(i),
                        past.ways[made[m]] = {<<"list", i>>}, made[m] \notin past.early
                 PROVE  past.given[made[m]] \subseteq Elements(i)
      BY DEF ListAgrees
    <2>1. made[m] \in Class
      BY FirstScope, MadeFacts DEF IInv, WayInv, Elements
    <2> QED BY <2>1 DEF AInv, AgreesInv
  <1> QED BY <1>1, Invariance, AnswersInvariance, PTL

==============================================================================
