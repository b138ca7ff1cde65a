---------------------------- MODULE ImportProofs ----------------------------
(***************************************************************************)
(* DependenciesFirst for every installation, cyclic ones included.  While  *)
(* the first loop runs, a dependency of a listed package is in the queue,  *)
(* missing, or listed further back (DependenciesListed); the second loop   *)
(* settles the list from its end (BackIsSettled), so when it comes to a    *)
(* package, all of its dependencies are behind it.                         *)
(***************************************************************************)
EXTENDS Import, SequenceTheorems, TLAPS

\* The dependency lists are sequences of packages.
LEMMA DependsType ==
    ASSUME TypeOK, NEW p \in Packages
    PROVE  depends[p] \in Seq(Packages)
BY ImportAssumption DEF TypeOK

\* The loader's own path is a sequence of search paths.
LEMMA ComponentPathType == ComponentPath \in Seq(SearchPaths)
<1>. DEFINE S == {ComponentPath[i] : i \in DOMAIN ComponentPath}
<1>1. ComponentPath \in Seq(S)
  BY ImportAssumption
<1>2. S \subseteq SearchPaths
  BY DEF SearchPaths, Elements
<1>. HIDE DEF S
<1>. QED BY <1>1, <1>2

\* What a queue holds after a list is put at its end.
LEMMA ElementsOfConcat ==
    ASSUME NEW S, NEW s \in Seq(S), NEW t \in Seq(S)
    PROVE  Elements(s \o t) = Elements(s) \cup Elements(t)
<1>. DEFINE u == s \o t
<1>1. /\ u \in Seq(S) /\ Len(u) = Len(s) + Len(t)
      /\ \A i \in 1 .. Len(s) : u[i] = s[i]
      /\ \A i \in Len(s) + 1 .. Len(s) + Len(t) : u[i] = t[i - Len(s)]
      /\ Len(s) \in Nat /\ Len(t) \in Nat
  OBVIOUS
<1>2. DOMAIN u = 1 .. Len(s) + Len(t) /\ DOMAIN s = 1 .. Len(s) /\ DOMAIN t = 1 .. Len(t)
  BY <1>1
<1>. HIDE DEF u
<1>3. ASSUME NEW i \in DOMAIN u PROVE u[i] \in Elements(s) \cup Elements(t)
  <2>1. CASE i \in 1 .. Len(s)
    BY <2>1, <1>1, <1>2 DEF Elements
  <2>2. CASE i \notin 1 .. Len(s)
    <3>1. i \in Len(s) + 1 .. Len(s) + Len(t) /\ i - Len(s) \in 1 .. Len(t)
      BY <2>2, <1>1, <1>2
    <3>. QED BY <3>1, <1>1, <1>2 DEF Elements
  <2>. QED BY <2>1, <2>2
<1>4. ASSUME NEW i \in DOMAIN s PROVE s[i] \in Elements(u)
  BY <1>1, <1>2 DEF Elements
<1>5. ASSUME NEW i \in DOMAIN t PROVE t[i] \in Elements(u)
  <2>1. Len(s) + i \in Len(s) + 1 .. Len(s) + Len(t) /\ (Len(s) + i) - Len(s) = i
    BY <1>1, <1>2
  <2>2. u[Len(s) + i] = t[i]
    BY <2>1, <1>1
  <2>3. Len(s) + i \in DOMAIN u
    BY <2>1, <1>1, <1>2
  <2>. QED BY <2>2, <2>3 DEF Elements
<1>6. Elements(u) = Elements(s) \cup Elements(t)
  BY <1>3, <1>4, <1>5 DEF Elements
<1>. QED BY <1>6 DEF u

\* What a list holds after a package is put at its end.
LEMMA ElementsOfAppend ==
    ASSUME NEW S, NEW s \in Seq(S), NEW e \in S
    PROVE  Elements(Append(s, e)) = Elements(s) \cup {e}
<1>. DEFINE t == <<e>>
<1>1. t \in Seq(S) /\ Append(s, e) = s \o t /\ Elements(t) = {e}
  BY DEF Elements
<1>. HIDE DEF t
<1>2. Elements(s \o t) = Elements(s) \cup Elements(t)
  BY <1>1, ElementsOfConcat
<1>. QED BY <1>1, <1>2

\* What a queue holds after its head is taken.
LEMMA ElementsOfTail ==
    ASSUME NEW S, NEW s \in Seq(S), s # <<>>
    PROVE  Elements(s) = {Head(s)} \cup Elements(Tail(s))
<1>. DEFINE t == Tail(s)
<1>1. /\ t \in Seq(S) /\ Len(s) \in Nat \ {0} /\ Len(t) = Len(s) - 1
      /\ DOMAIN s = 1 .. Len(s) /\ DOMAIN t = 1 .. Len(s) - 1
      /\ \A i \in 1 .. Len(s) - 1 : t[i] = s[i + 1]
      /\ s[1] = Head(s)
  OBVIOUS
<1>. HIDE DEF t
<1>2. ASSUME NEW i \in DOMAIN s PROVE s[i] \in {Head(s)} \cup Elements(t)
  <2>1. CASE i = 1
    BY <2>1, <1>1
  <2>2. CASE i # 1
    <3>1. i - 1 \in DOMAIN t /\ (i - 1) + 1 = i
      BY <2>2, <1>1
    <3>2. t[i - 1] = s[i]
      BY <3>1, <1>1
    <3>. QED BY <3>1, <3>2 DEF Elements
  <2>. QED BY <2>1, <2>2
<1>3. ASSUME NEW i \in DOMAIN t PROVE t[i] \in Elements(s)
  <2>1. i + 1 \in DOMAIN s /\ t[i] = s[i + 1]
    BY <1>1
  <2>. QED BY <2>1 DEF Elements
<1>4. Head(s) \in Elements(s)
  <2>1. 1 \in DOMAIN s
    BY <1>1
  <2>. QED BY <2>1, <1>1 DEF Elements
<1>5. Elements(s) = {Head(s)} \cup Elements(t)
  BY <1>2, <1>3, <1>4 DEF Elements
<1>. QED BY <1>5 DEF t

\* The initial states satisfy the inductive invariant.
LEMMA InvInit == Init => IInv
<1>. SUFFICES ASSUME Init PROVE IInv
  OBVIOUS
<1>1. TypeOK
  <2>1. /\ dep_names \in Seq(Packages) /\ deps_to_import \in Seq(Packages)
        /\ pos \in 0 .. Len(deps_to_import)
    BY DEF Init
  <2>2. calls \in 0 .. MaxImports
    BY ImportAssumption DEF Init
  <2>3. package \in Packages /\ result \in BOOLEAN
    BY ImportAssumption, Zenon DEF Init
  <2>4. path_list \in Seq(SearchPaths) /\ search_paths_seen \in SUBSET SearchPaths
    BY DEF Init
  <2>. QED BY <2>1, <2>2, <2>3, <2>4 DEF Init, TypeOK
<1>2. DependenciesListed
  BY DEF Init, DependenciesListed
<1>3. BackIsSettled /\ PathFollowsWalk /\ NothingSeen
  BY DEF Init, BackIsSettled, PathFollowsWalk, NothingSeen
<1>. QED BY <1>1, <1>2, <1>3 DEF IInv

\* Listing the package at the head of the queue keeps the invariant: what
\* waits for that package finds it listed, and its own dependencies wait.
LEMMA ListStep ==
    ASSUME IInv, NEW places, ListForImport(places)
    PROVE  IInv'
<1>. DEFINE h == Head(dep_names)
            n == Len(deps_to_import)
<1>. USE DEF IInv
<1>1. /\ dep_names \in Seq(Packages) /\ dep_names # <<>>
      /\ deps_to_import \in Seq(Packages) /\ n \in Nat
      /\ h \in Packages /\ Tail(dep_names) \in Seq(Packages)
      /\ depends[h] \in Seq(Packages)
  BY DependsType DEF TypeOK, ListForImport
<1>2. /\ deps_to_import' = Append(deps_to_import, h)
      /\ dep_names' = Tail(dep_names) \o depends[h]
      /\ depends' = depends /\ missing_packages' = missing_packages
  BY DEF ListForImport, installation
<1>3. /\ deps_to_import' \in Seq(Packages)
      /\ Len(deps_to_import') = n + 1
      /\ \A i \in 1 .. n : deps_to_import'[i] = deps_to_import[i]
      /\ deps_to_import'[n + 1] = h
  BY <1>1, <1>2
<1>4. /\ Elements(dep_names) \subseteq {h} \cup Elements(dep_names')
      /\ Elements(depends[h]) \subseteq Elements(dep_names')
  <2>1. Elements(dep_names) = {h} \cup Elements(Tail(dep_names))
    BY <1>1, ElementsOfTail
  <2>2. Elements(Tail(dep_names) \o depends[h]) =
          Elements(Tail(dep_names)) \cup Elements(depends[h])
    BY <1>1, ElementsOfConcat
  <2>3. dep_names' = Tail(dep_names) \o depends[h]
    BY <1>2
  <2>4. Elements(dep_names') = Elements(Tail(dep_names)) \cup Elements(depends[h])
    BY <2>2, <2>3, Zenon
  <2>. QED BY <2>1, <2>4, Zenon
<1>5. TypeOK'
  <2>1. dep_names' \in Seq(Packages)
    BY <1>1, <1>2
  <2>2. pos' \in 0 .. Len(deps_to_import')
    BY <1>1, <1>3 DEF TypeOK, ListForImport
  <2>. QED BY <1>3, <2>1, <2>2 DEF TypeOK, ListForImport, installation, paths
<1>6. DependenciesListed'
  <2>9. depends' = depends /\ missing_packages' = missing_packages
    BY <1>2
  <2>0. SUFFICES \A i \in DOMAIN deps_to_import' :
                    \A d \in Elements(depends[deps_to_import'[i]]) :
                       \/ d \in Elements(dep_names')
                       \/ d \in missing_packages
                       \/ \E j \in DOMAIN deps_to_import' :
                             j > i /\ deps_to_import'[j] = d
    BY <2>9 DEF DependenciesListed, Elements
  <2>. TAKE i \in DOMAIN deps_to_import'
  <2>. TAKE d \in Elements(depends[deps_to_import'[i]])
  <2>. DOMAIN deps_to_import' = 1 .. n + 1 /\ DOMAIN deps_to_import = 1 .. n
    BY <1>1, <1>3
  <2>1. CASE i = n + 1
    BY <2>1, <1>3, <1>4
  <2>2. CASE i \in 1 .. n
    <3>1. d \in Elements(depends[deps_to_import[i]])
      BY <2>2, <1>3
    <3>2. \/ d \in Elements(dep_names)
          \/ d \in missing_packages
          \/ \E j \in 1 .. n : j > i /\ deps_to_import[j] = d
      BY <2>2, <3>1 DEF DependenciesListed
    <3>3. CASE d \in Elements(dep_names)
      <4>1. n + 1 > i /\ n + 1 \in 1 .. n + 1
        BY <2>2, <1>1
      <4>. QED BY <3>3, <4>1, <1>3, <1>4
    <3>4. CASE \E j \in 1 .. n : j > i /\ deps_to_import[j] = d
      BY <3>4, <1>1, <1>3
    <3>. QED BY <3>2, <3>3, <3>4
  <2>. QED BY <2>1, <2>2, <1>1
<1>7. BackIsSettled' /\ PathFollowsWalk' /\ NothingSeen'
  BY DEF BackIsSettled, PathFollowsWalk, NothingSeen, ListForImport, paths
<1>. QED BY <1>5, <1>6, <1>7

\* Dropping a missing package from the queue keeps the invariant.
LEMMA NotFoundStep ==
    ASSUME IInv, NotFound
    PROVE  IInv'
<1>. USE DEF IInv
<1>1. /\ dep_names \in Seq(Packages) /\ dep_names # <<>>
      /\ Head(dep_names) \in Packages
      /\ dep_names' = Tail(dep_names)
      /\ dep_names' \in Seq(Packages)
  BY DEF TypeOK, NotFound
<1>2. Elements(dep_names) \subseteq {Head(dep_names)} \cup Elements(dep_names')
  BY <1>1, ElementsOfTail
<1>3. TypeOK'
  BY <1>1 DEF TypeOK, NotFound, installation, paths
<1>4. DependenciesListed'
  <2>1. /\ depends' = depends /\ deps_to_import' = deps_to_import
        /\ missing_packages' = missing_packages \cup {Head(dep_names)}
    BY DEF NotFound, installation
  <2>2. ASSUME NEW d, \/ d \in Elements(dep_names)
                      \/ d \in missing_packages
        PROVE  d \in Elements(dep_names') \/ d \in missing_packages'
    BY <2>1, <2>2, <1>2
  <2>3. ASSUME NEW i \in DOMAIN deps_to_import,
               NEW d \in Elements(depends[deps_to_import[i]])
        PROVE  \/ d \in Elements(dep_names')
               \/ d \in missing_packages'
               \/ \E j \in DOMAIN deps_to_import : j > i /\ deps_to_import[j] = d
    BY <2>2 DEF DependenciesListed
  <2>4. \A i \in DOMAIN deps_to_import' :
            \A d \in Elements(depends[deps_to_import[i]]) :
               \/ d \in Elements(dep_names')
               \/ d \in missing_packages'
               \/ \E j \in DOMAIN deps_to_import' : j > i /\ deps_to_import'[j] = d
    BY <2>1, <2>3
  <2>. QED BY <2>1, <2>4 DEF DependenciesListed, Elements
<1>5. BackIsSettled' /\ PathFollowsWalk' /\ NothingSeen'
  BY DEF BackIsSettled, PathFollowsWalk, NothingSeen, NotFound, paths
<1>. QED BY <1>3, <1>4, <1>5

\* The second loop passes one package of the list, which becomes settled.
LEMMA LoadStep ==
    ASSUME IInv, LoadNext
    PROVE  IInv'
<1>. USE DEF IInv
<1>1. /\ deps_to_import \in Seq(Packages)
      /\ pos \in 1 .. Len(deps_to_import)
      /\ pos' = pos - 1
  BY DEF TypeOK, LoadNext
<1>2. /\ pos \in DOMAIN deps_to_import
      /\ deps_to_import[pos] \in Packages
  BY <1>1
<1>3. /\ imported \cup missing_packages \cup {RttRos2, deps_to_import[pos]} \subseteq
           imported' \cup missing_packages' \cup {RttRos2}
      /\ missing_packages \subseteq missing_packages'
      /\ imported' \subseteq imported \cup {deps_to_import[pos]}
      /\ missing_packages' \subseteq missing_packages \cup {deps_to_import[pos]}
  BY DEF LoadNext
<1>4. TypeOK'
  <2>1. imported' \in SUBSET Packages /\ missing_packages' \in SUBSET Packages
    BY <1>2, <1>3 DEF TypeOK
  <2>2. pos' \in 0 .. Len(deps_to_import)
    BY <1>1
  <2>. QED BY <2>1, <2>2 DEF TypeOK, LoadNext, installation, paths
<1>5. DependenciesListed'
  BY <1>3 DEF DependenciesListed, LoadNext, installation, Elements
<1>6. BackIsSettled'
  <2>1. ASSUME NEW j \in DOMAIN deps_to_import, j > pos - 1
        PROVE  deps_to_import[j] \in imported' \cup missing_packages' \cup {RttRos2}
    <3>1. j = pos \/ j > pos
      BY <2>1, <1>1
    <3>2. pc = "load"
      BY DEF LoadNext
    <3>3. j > pos => deps_to_import[j] \in imported \cup missing_packages \cup {RttRos2}
      BY <3>2 DEF BackIsSettled
    <3>. QED BY <3>1, <3>3, <1>3
  <2>2. dep_names = <<>>
    BY DEF BackIsSettled, LoadNext
  <2>. QED BY <2>1, <2>2, <1>1 DEF BackIsSettled, LoadNext
<1>7. PathFollowsWalk' /\ NothingSeen'
  BY DEF PathFollowsWalk, NothingSeen, LoadNext
<1>. QED BY <1>4, <1>5, <1>6, <1>7

\* Every step keeps the invariant.
LEMMA InvStep == IInv /\ [Next]_vars => IInv'
<1>. SUFFICES ASSUME IInv, [Next]_vars PROVE IInv'
  OBVIOUS
<1>1. ASSUME NEW p \in Packages, Import(p) PROVE IInv'
  <2>1. dep_names' = <<p>> /\ dep_names' \in Seq(Packages)
    BY <1>1 DEF Import
  <2>2. /\ deps_to_import' = <<>> /\ deps_to_import' \in Seq(Packages)
        /\ pos' \in 0 .. Len(deps_to_import')
    BY <1>1 DEF Import
  <2>3. calls' \in 0 .. MaxImports
    BY <1>1, ImportAssumption DEF Import, IInv, TypeOK
  <2>9. path_list' \in Seq(SearchPaths) /\ search_paths_seen' \in SUBSET SearchPaths
    BY <1>1 DEF Import
  <2>4. TypeOK'
    BY <1>1, <2>1, <2>2, <2>3, <2>9 DEF Import, IInv, TypeOK, installation
  <2>5. DependenciesListed'
    BY <2>2 DEF DependenciesListed
  <2>6. BackIsSettled' /\ PathFollowsWalk' /\ NothingSeen'
    BY <1>1 DEF BackIsSettled, PathFollowsWalk, NothingSeen, Import
  <2>. QED BY <2>4, <2>5, <2>6 DEF IInv
<1>2. CASE FoundInIndex \/ FoundInPackageXml
  BY <1>2, ListStep DEF FoundInIndex, FoundInPackageXml
<1>3. CASE NotFound
  BY <1>3, NotFoundStep
<1>4. CASE WalkEnds
  <2>1. pos' \in 0 .. Len(deps_to_import) /\ pos' = Len(deps_to_import)
    BY <1>4 DEF WalkEnds, IInv, TypeOK
  <2>2. path_list' \in Seq(SearchPaths)
    BY <1>4, ComponentPathType DEF WalkEnds, IInv, TypeOK
  <2>3. TypeOK'
    BY <1>4, <2>1, <2>2 DEF WalkEnds, IInv, TypeOK, installation
  <2>4. DependenciesListed'
    BY <1>4 DEF WalkEnds, IInv, DependenciesListed, installation, Elements
  <2>5. BackIsSettled' /\ PathFollowsWalk' /\ NothingSeen'
    BY <1>4 DEF WalkEnds, BackIsSettled, PathFollowsWalk, NothingSeen
  <2>. QED BY <2>3, <2>4, <2>5 DEF IInv
<1>5. CASE PrependPath
  <2>1. /\ pc = "path" /\ pos > 0 /\ pos' = pos - 1
        /\ UNCHANGED <<depends, found, imported, dep_names, deps_to_import,
                       missing_packages, pc, package, result, calls>>
    BY <1>5 DEF PrependPath, installation
  <2>2. pos \in DOMAIN deps_to_import /\ pos' \in 0 .. Len(deps_to_import)
    BY <2>1 DEF IInv, TypeOK
  <2>3. path_list' \in Seq(SearchPaths) /\ search_paths_seen' \in SUBSET SearchPaths
    <3>. DEFINE path == Prefix[deps_to_import[pos]]
    <3>1. path \in SearchPaths
      BY <2>2 DEF IInv, TypeOK, SearchPaths
    <3>2. path_list \in Seq(SearchPaths) /\ search_paths_seen \in SUBSET SearchPaths
      BY DEF IInv, TypeOK
    <3>3. \/ path_list' = path_list /\ search_paths_seen' = search_paths_seen
          \/ /\ path_list' = <<path>> \o path_list
             /\ search_paths_seen' = search_paths_seen \cup {path}
      BY <1>5 DEF PrependPath, paths
    <3>. HIDE DEF path
    <3>4. <<path>> \o path_list \in Seq(SearchPaths)
      BY <3>1, <3>2
    <3>. QED BY <3>1, <3>2, <3>3, <3>4
  <2>4. TypeOK'
    BY <2>1, <2>2, <2>3 DEF IInv, TypeOK
  <2>5. DependenciesListed'
    BY <2>1 DEF IInv, DependenciesListed, Elements
  <2>6. BackIsSettled' /\ PathFollowsWalk' /\ NothingSeen'
    BY <2>1 DEF IInv, BackIsSettled, PathFollowsWalk, NothingSeen
  <2>. QED BY <2>4, <2>5, <2>6 DEF IInv
<1>9. CASE PathEnds
  <2>1. /\ pc = "path" /\ pc' = "load" /\ pos' = Len(deps_to_import)
        /\ UNCHANGED <<depends, found, imported, dep_names, deps_to_import,
                       missing_packages, path_list, search_paths_seen, package,
                       result, calls>>
    BY <1>9 DEF PathEnds, installation, paths
  <2>2. TypeOK'
    BY <2>1 DEF IInv, TypeOK
  <2>3. DependenciesListed'
    BY <2>1 DEF IInv, DependenciesListed, Elements
  <2>4. BackIsSettled'
    <3>1. dep_names = <<>>
      BY <2>1 DEF IInv, PathFollowsWalk
    <3>2. \A j \in DOMAIN deps_to_import : ~(j > Len(deps_to_import))
      BY DEF IInv, TypeOK
    <3>. QED BY <2>1, <3>1, <3>2 DEF BackIsSettled
  <2>5. PathFollowsWalk' /\ NothingSeen'
    BY <2>1 DEF PathFollowsWalk, NothingSeen
  <2>. QED BY <2>2, <2>3, <2>4, <2>5 DEF IInv
<1>6. CASE LoadNext
  BY <1>6, LoadStep
<1>7. CASE LoadEnds \/ Report
  <2>1. /\ pc' \in {"idle", "report"}
        /\ UNCHANGED <<depends, found, imported, dep_names, deps_to_import,
                       missing_packages, path_list, search_paths_seen, pos,
                       package, calls>>
    BY <1>7 DEF LoadEnds, Report, installation, paths
  <2>2. result' \in BOOLEAN
    BY <1>7, Zenon DEF LoadEnds, Report, IInv, TypeOK
  <2>3. TypeOK'
    BY <2>1, <2>2 DEF IInv, TypeOK
  <2>4. DependenciesListed'
    BY <2>1 DEF IInv, DependenciesListed, Elements
  <2>5. BackIsSettled' /\ PathFollowsWalk' /\ NothingSeen'
    BY <2>1 DEF BackIsSettled, PathFollowsWalk, NothingSeen
  <2>. QED BY <2>3, <2>4, <2>5 DEF IInv
<1>8. CASE UNCHANGED vars
  <2>1. TypeOK'
    BY <1>8 DEF IInv, TypeOK, vars
  <2>2. DependenciesListed'
    BY <1>8 DEF IInv, DependenciesListed, Elements, vars
  <2>3. BackIsSettled' /\ PathFollowsWalk' /\ NothingSeen'
    BY <1>8 DEF IInv, BackIsSettled, PathFollowsWalk, NothingSeen, vars
  <2>. QED BY <2>1, <2>2, <2>3 DEF IInv
<1>. QED
  BY <1>1, <1>2, <1>3, <1>4, <1>5, <1>6, <1>7, <1>8, <1>9 DEF Next

\* The inductive invariant holds in every reachable state.
LEMMA Invariant == Spec => []IInv
BY InvInit, InvStep, PTL DEF Spec

\* The queue, the list and the position in it keep their types.
THEOREM TypeCorrect == Spec => []TypeOK
<1>1. IInv => TypeOK
  BY DEF IInv
<1>. QED BY Invariant, <1>1, PTL

\* A package is imported only when each of its dependencies is imported or
\* missing, for every dependency graph, with diamonds and with cycles.
THEOREM DependenciesComeFirst == Spec => DependenciesFirst
<1>. DEFINE Step == \A p \in imported' \ imported :
                      Elements(depends[p]) \subseteq
                        imported \cup missing_packages \cup {RttRos2}
<1>1. IInv /\ [Next]_vars => [Step]_vars
  <2>. SUFFICES ASSUME IInv, Next PROVE Step
    OBVIOUS
  <2>1. CASE imported' = imported
    BY <2>1
  <2>2. CASE imported' # imported
    <3>1. LoadNext
      BY <2>2 DEF Next, Import, FoundInIndex, FoundInPackageXml, ListForImport,
                  NotFound, WalkEnds, PrependPath, PathEnds, LoadEnds, Report
    <3>2. /\ pos \in DOMAIN deps_to_import /\ pc = "load"
          /\ \A p \in imported' \ imported : p = deps_to_import[pos]
      BY <3>1 DEF LoadNext, IInv, TypeOK
    <3>3. ASSUME NEW d \in Elements(depends[deps_to_import[pos]])
          PROVE  d \in imported \cup missing_packages \cup {RttRos2}
      <4>1. dep_names = <<>> /\ d \notin Elements(dep_names)
        BY <3>2 DEF IInv, BackIsSettled, Elements
      <4>2. \/ d \in missing_packages
            \/ \E j \in DOMAIN deps_to_import : j > pos /\ deps_to_import[j] = d
        BY <4>1, <3>2, <3>3 DEF IInv, DependenciesListed
      <4>. QED BY <4>2, <3>2 DEF IInv, BackIsSettled
    <3>. QED BY <3>2, <3>3
  <2>. QED BY <2>1, <2>2
<1>. QED BY Invariant, <1>1, PTL DEF Spec, DependenciesFirst

-----------------------------------------------------------------------------
(* What import() returns.                                                  *)

\* The package asked for does not get lost, and the list is settled when the
\* loops are over: every step keeps both.
LEMMA ReturnStep ==
    ASSUME IInv, PackageIsTracked, ListIsSettled, [Next]_vars
    PROVE  PackageIsTracked' /\ ListIsSettled'
<1>. USE DEF IInv
<1>1. ASSUME NEW p \in Packages, Import(p) PROVE PackageIsTracked' /\ ListIsSettled'
  <2>1. pc' = "walk" /\ package' = p /\ dep_names' = <<p>>
    BY <1>1 DEF Import
  <2>2. p \in Elements(dep_names')
    BY <2>1 DEF Elements
  <2>. QED BY <2>1, <2>2 DEF PackageIsTracked, ListIsSettled
<1>2. ASSUME NEW places, ListForImport(places) PROVE PackageIsTracked' /\ ListIsSettled'
  <2>1. /\ pc = "walk" /\ pc' = "walk" /\ package' = package
        /\ dep_names # <<>> /\ missing_packages' = missing_packages
        /\ deps_to_import' = Append(deps_to_import, Head(dep_names))
        /\ dep_names' = Tail(dep_names) \o depends[Head(dep_names)]
    BY <1>2 DEF ListForImport
  <2>2. /\ dep_names \in Seq(Packages) /\ deps_to_import \in Seq(Packages)
        /\ Head(dep_names) \in Packages /\ Tail(dep_names) \in Seq(Packages)
        /\ depends[Head(dep_names)] \in Seq(Packages)
    BY <2>1, DependsType DEF TypeOK
  <2>3. Elements(dep_names) = {Head(dep_names)} \cup Elements(Tail(dep_names))
    BY <2>1, <2>2, ElementsOfTail
  <2>4. Elements(Tail(dep_names) \o depends[Head(dep_names)]) =
          Elements(Tail(dep_names)) \cup Elements(depends[Head(dep_names)])
    BY <2>2, ElementsOfConcat
  <2>5. Elements(Append(deps_to_import, Head(dep_names))) =
          Elements(deps_to_import) \cup {Head(dep_names)}
    BY <2>2, ElementsOfAppend
  <2>6. package \in Elements(dep_names) \cup Elements(deps_to_import)
                      \cup missing_packages
    BY <2>1 DEF PackageIsTracked
  <2>7. Elements(dep_names') = Elements(Tail(dep_names) \o depends[Head(dep_names)])
    BY <2>1, Zenon
  <2>8. Elements(deps_to_import') = Elements(Append(deps_to_import, Head(dep_names)))
    BY <2>1, Zenon
  <2>9. package \in Elements(dep_names') \cup Elements(deps_to_import')
                      \cup missing_packages'
    BY <2>1, <2>3, <2>4, <2>5, <2>6, <2>7, <2>8, Zenon
  <2>. QED BY <2>1, <2>9 DEF PackageIsTracked, ListIsSettled
<1>3. CASE NotFound
  <2>1. /\ pc = "walk" /\ pc' = "walk" /\ package' = package
        /\ dep_names # <<>> /\ dep_names' = Tail(dep_names)
        /\ deps_to_import' = deps_to_import
        /\ missing_packages' = missing_packages \cup {Head(dep_names)}
    BY <1>3 DEF NotFound
  <2>2. Elements(dep_names) = {Head(dep_names)} \cup Elements(Tail(dep_names))
    BY <2>1, ElementsOfTail DEF TypeOK
  <2>3. package \in Elements(dep_names) \cup Elements(deps_to_import)
                      \cup missing_packages
    BY <2>1 DEF PackageIsTracked
  <2>4. package \in Elements(dep_names') \cup Elements(deps_to_import')
                      \cup missing_packages'
    BY <2>1, <2>2, <2>3, Zenon
  <2>. QED BY <2>1, <2>4 DEF PackageIsTracked, ListIsSettled
<1>4. CASE WalkEnds \/ PrependPath \/ PathEnds
  <2>1. /\ pc # "idle" /\ pc' \in {"path", "load", "report"}
        /\ package' = package /\ dep_names' = dep_names
        /\ deps_to_import' = deps_to_import
        /\ missing_packages' = missing_packages
        /\ pc' = "report" => dep_names = <<>> /\ deps_to_import = <<>>
    BY <1>4 DEF WalkEnds, PrependPath, PathEnds
  <2>2. PackageIsTracked'
    BY <2>1 DEF PackageIsTracked, Elements
  <2>3. Elements(<<>>) = {}
    BY DEF Elements
  <2>4. ListIsSettled'
    BY <2>1, <2>3 DEF ListIsSettled
  <2>. QED BY <2>2, <2>4
<1>5. CASE LoadNext
  <2>1. /\ pc = "load" /\ pc' = "load"
        /\ package' = package /\ dep_names' = dep_names
        /\ deps_to_import' = deps_to_import
        /\ missing_packages \subseteq missing_packages'
    BY <1>5 DEF LoadNext
  <2>. QED BY <2>1 DEF PackageIsTracked, ListIsSettled, Elements
<1>6. CASE LoadEnds
  <2>1. /\ pc = "load" /\ pc' = "report" /\ pos = 0
        /\ UNCHANGED <<package, dep_names, deps_to_import, missing_packages, imported>>
    BY <1>6 DEF LoadEnds
  <2>2. \A j \in DOMAIN deps_to_import : j > 0
    BY DEF TypeOK
  <2>3. /\ dep_names = <<>>
        /\ Elements(deps_to_import) \subseteq
             imported \cup missing_packages \cup {RttRos2}
    BY <2>1, <2>2 DEF BackIsSettled, Elements
  <2>. QED BY <2>1, <2>3 DEF PackageIsTracked, ListIsSettled, Elements
<1>7. CASE Report
  <2>1. /\ pc = "report" /\ pc' = "idle"
        /\ UNCHANGED <<package, dep_names, deps_to_import, missing_packages, imported>>
    BY <1>7 DEF Report
  <2>2. result' => missing_packages' = {}
    BY <1>7 DEF Report
  <2>. QED BY <2>1, <2>2 DEF PackageIsTracked, ListIsSettled, Elements
<1>8. CASE UNCHANGED vars
  BY <1>8 DEF vars, PackageIsTracked, ListIsSettled, Elements
<1>. QED
  BY <1>1, <1>2, <1>3, <1>4, <1>5, <1>6, <1>7, <1>8
     DEF Next, FoundInIndex, FoundInPackageXml

\* When the loops are over with nothing missing, the list holds the package
\* and is closed under dependencies, so it holds the package's closure.
LEMMA SettledListHoldsClosure ==
    ASSUME IInv, PackageIsTracked, ListIsSettled, pc = "idle", result
    PROVE  Closure(package) \subseteq imported \cup {RttRos2}
<1>. DEFINE C == Elements(deps_to_import)
<1>1. /\ dep_names = <<>> /\ missing_packages = {}
      /\ C \subseteq imported \cup {RttRos2}
  BY DEF ListIsSettled
<1>2. Elements(dep_names) = {}
  BY <1>1 DEF Elements
<1>3. package \in C
  BY <1>1, <1>2 DEF PackageIsTracked
<1>4. C \in SUBSET Packages
  BY DEF IInv, TypeOK, Elements
<1>5. ASSUME NEW r \in C, NEW d \in Elements(depends[r]) PROVE d \in C
  <2>1. PICK i \in DOMAIN deps_to_import : deps_to_import[i] = r
    BY DEF Elements
  <2>2. d \in Elements(depends[deps_to_import[i]])
    BY <2>1
  <2>3. \E j \in DOMAIN deps_to_import : deps_to_import[j] = d
    BY <2>2, <1>1, <1>2 DEF IInv, DependenciesListed
  <2>. QED BY <2>3 DEF Elements
<1>. HIDE DEF C
<1>6. \A r \in C : Elements(depends[r]) \subseteq C
  BY <1>5
<1>7. Closure(package) \subseteq C
  BY <1>3, <1>4, <1>6 DEF Closure
<1>. QED BY <1>1, <1>7

\* import() returns true only when the package and its whole dependency
\* closure is imported, for every dependency graph and after any earlier
\* calls, failed ones included.
THEOREM ReturnedTrueIsComplete == Spec => []TrueMeansComplete
<1>1. Init => PackageIsTracked /\ ListIsSettled
  BY DEF Init, PackageIsTracked, ListIsSettled
<1>2. IInv /\ PackageIsTracked /\ ListIsSettled => TrueMeansComplete
  BY SettledListHoldsClosure DEF TrueMeansComplete
<1>. QED BY Invariant, ReturnStep, <1>1, <1>2, PTL DEF Spec

-----------------------------------------------------------------------------
(* Where the loader searches.                                              *)

\* Putting a path in front of the others shifts them by one place.
LEMMA PrependFacts ==
    ASSUME NEW S, NEW s \in Seq(S), NEW e \in S
    PROVE  /\ Len(<<e>> \o s) = Len(s) + 1
           /\ (<<e>> \o s)[1] = e
           /\ \A i \in 1 .. Len(s) : (<<e>> \o s)[i + 1] = s[i]
<1>1. /\ Len(<<e>>) = 1 /\ <<e>>[1] = e /\ <<e>> \in Seq(S) /\ Len(s) \in Nat
  OBVIOUS
<1>2. /\ Len(<<e>> \o s) = Len(<<e>>) + Len(s)
      /\ \A i \in 1 .. Len(<<e>>) + Len(s) :
            (<<e>> \o s)[i] = IF i <= Len(<<e>>) THEN <<e>>[i] ELSE s[i - Len(<<e>>)]
  OBVIOUS
<1>3. Len(<<e>> \o s) = Len(s) + 1 /\ (<<e>> \o s)[1] = e
  BY <1>1, <1>2
<1>4. ASSUME NEW i \in 1 .. Len(s) PROVE (<<e>> \o s)[i + 1] = s[i]
  <2>1. i + 1 \in 1 .. 1 + Len(s) /\ ~(i + 1 <= 1) /\ (i + 1) - 1 = i
    BY <1>1
  <2>. QED BY <2>1, <1>1, <1>2
<1>. QED BY <1>3, <1>4

\* One turn of the loop that puts the paths together: the path was seen, or it
\* is put in front and counts as seen.
LEMMA PrependHolds ==
    ASSUME NEW s \in Seq(SearchPaths), NEW seen, NEW e \in SearchPaths, e \notin seen,
           PathHolds(s, Len(s) - Len(ComponentPath), seen)
    PROVE  PathHolds(<<e>> \o s, Len(<<e>> \o s) - Len(ComponentPath), seen \cup {e})
<1>. DEFINE m == Len(ComponentPath)
            n == Len(s) - m
            t == <<e>> \o s
<1>1. m \in Nat /\ DOMAIN ComponentPath = 1 .. m /\ Len(s) \in Nat
  BY ComponentPathType
<1>2. /\ n \in Nat /\ Len(s) = n + m
      /\ \A i \in 1 .. n : s[i] \in seen
      /\ \A p \in seen : \E i \in 1 .. n : s[i] = p
      /\ \A i, j \in 1 .. n : s[i] = s[j] => i = j
      /\ \A i \in 1 .. m : s[n + i] = ComponentPath[i]
  BY <1>1 DEF PathHolds
<1>3. /\ Len(t) = Len(s) + 1 /\ t[1] = e
      /\ \A i \in 1 .. Len(s) : t[i + 1] = s[i]
  BY PrependFacts
<1>4. Len(t) - m = n + 1
  BY <1>1, <1>2, <1>3
<1>. HIDE DEF t, n, m
<1>5. ASSUME NEW k \in 1 .. n + 1, k # 1
      PROVE  k - 1 \in 1 .. n /\ t[k] = s[k - 1] /\ t[k] # e /\ t[k] \in seen
  <2>1. k - 1 \in 1 .. n /\ k - 1 \in 1 .. Len(s) /\ (k - 1) + 1 = k
    BY <1>1, <1>2, <1>5
  <2>. QED BY <2>1, <1>2, <1>3
<1>6. \A i \in 1 .. n + 1 : t[i] \in seen \cup {e}
  BY <1>3, <1>5
<1>7. ASSUME NEW p \in seen \cup {e} PROVE \E i \in 1 .. n + 1 : t[i] = p
  <2>1. CASE p = e
    <3>1. 1 \in 1 .. n + 1
      BY <1>2
    <3>. QED BY <2>1, <3>1, <1>3
  <2>2. CASE p \in seen
    <3>1. PICK i \in 1 .. n : s[i] = p
      BY <2>2, <1>2
    <3>2. i + 1 \in 1 .. n + 1 /\ i \in 1 .. Len(s)
      BY <1>1, <1>2
    <3>. QED BY <3>1, <3>2, <1>3
  <2>. QED BY <2>1, <2>2
<1>8. ASSUME NEW i \in 1 .. n + 1, NEW j \in 1 .. n + 1, t[i] = t[j]
      PROVE  i = j
  <2>1. CASE i = 1 \/ j = 1
    BY <2>1, <1>3, <1>5, <1>8
  <2>2. CASE i # 1 /\ j # 1
    <3>1. i - 1 = j - 1
      BY <2>2, <1>2, <1>5, <1>8
    <3>. QED BY <3>1, <1>2
  <2>. QED BY <2>1, <2>2
<1>9. ASSUME NEW i \in 1 .. m PROVE t[(n + 1) + i] = ComponentPath[i]
  <2>1. n + i \in 1 .. Len(s) /\ (n + i) + 1 = (n + 1) + i
    BY <1>1, <1>2
  <2>. QED BY <2>1, <1>2, <1>3
<1>10. n + 1 \in Nat
  BY <1>2
<1>11. PathHolds(t, n + 1, seen \cup {e})
  BY <1>1, <1>6, <1>7, <1>8, <1>9, <1>10 DEF PathHolds
<1>. QED BY <1>4, <1>11 DEF t, m

LEMMA PrependStep ==
    ASSUME IInv, PathIsBuilt, PrependPath
    PROVE  PathIsBuilt'
<1>. DEFINE path == Prefix[deps_to_import[pos]]
<1>. USE DEF IInv
<1>1. /\ pc = "path" /\ pc' = "path" /\ deps_to_import' = deps_to_import
      /\ pos > 0 /\ pos' = pos - 1
      /\ \/ /\ path \in search_paths_seen
            /\ path_list' = path_list /\ search_paths_seen' = search_paths_seen
         \/ /\ path \notin search_paths_seen
            /\ path_list' = <<path>> \o path_list
            /\ search_paths_seen' = search_paths_seen \cup {path}
  BY DEF PrependPath, paths
<1>2. /\ pos \in DOMAIN deps_to_import /\ path \in SearchPaths
      /\ path_list \in Seq(SearchPaths)
  BY <1>1 DEF TypeOK, SearchPaths
<1>3. /\ PathHolds(path_list, Len(path_list) - Len(ComponentPath), search_paths_seen)
      /\ SeenAfter(pos, search_paths_seen)
  BY <1>1 DEF PathIsBuilt
<1>4. PathHolds(path_list', Len(path_list') - Len(ComponentPath), search_paths_seen')
  <2>. HIDE DEF path
  <2>1. CASE path \in search_paths_seen
    BY <2>1, <1>1, <1>3
  <2>2. CASE path \notin search_paths_seen
    BY <2>2, <1>1, <1>2, <1>3, PrependHolds
  <2>. QED BY <2>1, <2>2
<1>5. SeenAfter(pos', search_paths_seen')
  <2>1. search_paths_seen' = search_paths_seen \cup {path}
    BY <1>1
  <2>2. \A j \in DOMAIN deps_to_import : j > pos - 1 <=> j > pos \/ j = pos
    BY <1>2 DEF TypeOK
  <2>. QED BY <2>1, <2>2, <1>1, <1>2, <1>3 DEF SeenAfter
<1>6. SeenAfter(pos, search_paths_seen)'
  BY <1>5, <1>1 DEF SeenAfter
<1>7. PathHolds(path_list, Len(path_list) - Len(ComponentPath), search_paths_seen)'
  BY <1>4 DEF PathHolds
<1>. QED BY <1>1, <1>6, <1>7 DEF PathIsBuilt

\* Every step keeps what is said of the paths put together so far.
LEMMA PathStep ==
    ASSUME IInv, PathIsBuilt, [Next]_vars
    PROVE  PathIsBuilt'
<1>. USE DEF IInv
<1>1. CASE PrependPath
  BY <1>1, PrependStep
<1>2. CASE WalkEnds
  <2>1. /\ pc' = "path" => path_list' = ComponentPath
        /\ pc' \in {"path", "report"}
        /\ search_paths_seen' = search_paths_seen
        /\ deps_to_import' = deps_to_import /\ pos' = Len(deps_to_import)
    BY <1>2 DEF WalkEnds
  <2>2. search_paths_seen = {}
    BY <1>2 DEF WalkEnds, NothingSeen
  <2>3. \A k \in DOMAIN deps_to_import : ~(k > Len(deps_to_import))
    BY DEF TypeOK
  <2>4. Len(ComponentPath) - Len(ComponentPath) = 0
    BY ComponentPathType
  <2>5. \A i \in DOMAIN ComponentPath : 0 + i = i
    BY ComponentPathType
  <2>6. SeenAfter(pos, search_paths_seen)'
    BY <2>1, <2>2, <2>3 DEF SeenAfter
  <2>7. PathHolds(ComponentPath, 0, {})
    BY <2>5 DEF PathHolds
  <2>8. ASSUME pc' = "path"
        PROVE  PathHolds(path_list, Len(path_list) - Len(ComponentPath),
                         search_paths_seen)'
    BY <2>1, <2>2, <2>4, <2>7, <2>8 DEF PathHolds
  <2>. QED BY <2>1, <2>6, <2>8 DEF PathIsBuilt
<1>3. CASE PathEnds
  <2>1. /\ pc = "path" /\ pc' = "load" /\ pos = 0
        /\ UNCHANGED <<path_list, search_paths_seen, deps_to_import>>
    BY <1>3 DEF PathEnds, paths
  <2>. QED BY <2>1 DEF PathIsBuilt, PathHolds, SeenAfter
<1>4. CASE LoadNext
  <2>1. /\ pc = "load" /\ pc' = "load"
        /\ UNCHANGED <<path_list, search_paths_seen, deps_to_import>>
    BY <1>4 DEF LoadNext, paths
  <2>. QED BY <2>1 DEF PathIsBuilt, PathHolds, SeenAfter
<1>5. CASE UNCHANGED vars
  BY <1>5 DEF vars, PathIsBuilt, PathHolds, SeenAfter
<1>6. ASSUME pc' \in {"idle", "walk", "report"} PROVE PathIsBuilt'
  BY <1>6 DEF PathIsBuilt
<1>7. ASSUME NEW p \in Packages, Import(p) PROVE PathIsBuilt'
  BY <1>6, <1>7 DEF Import
<1>8. CASE FoundInIndex \/ FoundInPackageXml \/ NotFound
  BY <1>6, <1>8 DEF FoundInIndex, FoundInPackageXml, ListForImport, NotFound
<1>9. CASE LoadEnds \/ Report
  BY <1>6, <1>9 DEF LoadEnds, Report
<1>. QED BY <1>1, <1>2, <1>3, <1>4, <1>5, <1>7, <1>8, <1>9 DEF Next

\* While packages are imported the loader searches the prefix of every listed
\* package, once, and then its own path, whatever the prefixes are.
THEOREM LoaderSearchesEveryPrefix == Spec => []PathIsComplete
<1>1. Init => PathIsBuilt
  BY DEF Init, PathIsBuilt
<1>2. IInv /\ PathIsBuilt => PathIsComplete
  <2>. SUFFICES ASSUME IInv, PathIsBuilt, pc = "load" PROVE PathIsComplete
    BY DEF PathIsComplete
  <2>. DEFINE n == Len(path_list) - Len(ComponentPath)
  <2>1. /\ PathHolds(path_list, n, search_paths_seen)
        /\ SeenAfter(0, search_paths_seen)
    BY DEF PathIsBuilt
  <2>2. \A j \in DOMAIN deps_to_import : j > 0
    BY DEF IInv, TypeOK
  <2>3. search_paths_seen = {Prefix[p] : p \in Elements(deps_to_import)}
    BY <2>1, <2>2 DEF SeenAfter, Elements
  <2>. HIDE DEF n
  <2>4. {path_list[i] : i \in 1 .. n} = search_paths_seen
    BY <2>1 DEF PathHolds
  <2>5. /\ \A i, j \in 1 .. n : path_list[i] = path_list[j] => i = j
        /\ \A i \in DOMAIN ComponentPath : path_list[n + i] = ComponentPath[i]
    BY <2>1 DEF PathHolds
  <2>. QED BY <2>3, <2>4, <2>5 DEF PathIsComplete, n
<1>. QED BY Invariant, PathStep, <1>1, <1>2, PTL DEF Spec
=============================================================================
