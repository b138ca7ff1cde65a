------------------------------- MODULE Import -------------------------------
(***************************************************************************)
(* rtt_ros2::import(): imports the Orocos plugins of a ROS package and of  *)
(* the packages it depends on, directly or indirectly.  A first loop walks *)
(* the dependencies breadth first and lists every package it comes across, *)
(* once for each way that leads to it; a second loop imports the list from *)
(* its end.  What is imported stays imported, so import() may be called    *)
(* again for the same or another package.                                  *)
(*                                                                         *)
(* The ament index and the component loader are external.  A package is    *)
(* found in the index, or by its package.xml, or it is absent, because the *)
(* index does not know it or because it has no package.xml; the loader may *)
(* fail on any package.                                                    *)
(***************************************************************************)
EXTENDS Integers, Sequences, FiniteSets

CONSTANTS
    Packages,      \* ROS packages
    RttRos2,       \* the package rtt_ros2 itself, which needs no import
    Graphs,        \* the dependency lists an installation may have
    Prefix,        \* the install prefix of each package
    ComponentPath, \* the component path of the loader
    MaxImports     \* bound on the calls of import()

ASSUME ImportAssumption ==
    /\ RttRos2 \in Packages
    /\ MaxImports \in Nat
    /\ \A g \in Graphs : \A p \in Packages : g[p] \in Seq(Packages)
    /\ ComponentPath \in Seq({ComponentPath[i] : i \in DOMAIN ComponentPath})

VARIABLES
    depends,         \* the plugin dependencies of each package
    found,           \* where each package is found
    imported,        \* packages the loader has imported
    dep_names,       \* the queue of the first loop
    deps_to_import,
    missing_packages,
    path_list,       \* where the loader searches, in order
    search_paths_seen, \* prefixes that path_list holds already
    pos,             \* place of the loop from the end of deps_to_import
    pc, package, result, calls

installation == <<depends, found>>
paths == <<path_list, search_paths_seen>>
vars == <<depends, found, imported, dep_names, deps_to_import,
          missing_packages, path_list, search_paths_seen, pos, pc, package,
          result, calls>>

-----------------------------------------------------------------------------
Elements(s) == {s[i] : i \in DOMAIN s}
Found == {"index", "package_xml", "absent"}
SearchPaths == {Prefix[p] : p \in Packages} \cup Elements(ComponentPath)

TypeOK ==
    /\ depends \in Graphs
    /\ found \in [Packages -> Found]
    /\ imported \in SUBSET Packages
    /\ dep_names \in Seq(Packages)
    /\ deps_to_import \in Seq(Packages)
    /\ missing_packages \in SUBSET Packages
    /\ path_list \in Seq(SearchPaths)
    /\ search_paths_seen \in SUBSET SearchPaths
    /\ pos \in 0 .. Len(deps_to_import)
    /\ pc \in {"idle", "walk", "path", "load", "report"}
    /\ package \in Packages
    /\ result \in BOOLEAN
    /\ calls \in 0 .. MaxImports

Init ==
    /\ depends \in Graphs
    /\ found \in [Packages -> Found]
    /\ imported = {}
    /\ dep_names = <<>>
    /\ deps_to_import = <<>>
    /\ missing_packages = {}
    /\ path_list = <<>>
    /\ search_paths_seen = {}
    /\ pos = 0
    /\ pc = "idle"
    /\ package = RttRos2
    /\ result = FALSE
    /\ calls = 0

-----------------------------------------------------------------------------
Import(p) ==
    /\ pc = "idle"
    /\ calls < MaxImports
    /\ calls' = calls + 1
    /\ package' = p
    /\ dep_names' = <<p>>
    /\ deps_to_import' = <<>>
    /\ missing_packages' = {}
    /\ path_list' = <<>>
    /\ search_paths_seen' = {}
    /\ pos' = 0
    /\ pc' = "walk"
    /\ UNCHANGED <<installation, imported, result>>

(* The first loop: one package of the queue.                               *)

\* Mutant of ListForImport: a package that is listed already is not repeated.
ListForImportOnce(places) ==
    /\ pc = "walk"
    /\ dep_names # <<>>
    /\ found[Head(dep_names)] \in places
    /\ deps_to_import' = IF Head(dep_names) \in Elements(deps_to_import)
                         THEN deps_to_import
                         ELSE Append(deps_to_import, Head(dep_names))
    /\ dep_names' = Tail(dep_names) \o depends[Head(dep_names)]
    /\ UNCHANGED <<installation, imported, missing_packages, paths, pos, pc, package,
                   result, calls>>

\* The package is found, in the ament index or (deprecated) by its
\* package.xml: it is listed for import and its dependencies are queued.
ListForImport(places) ==
    /\ pc = "walk"
    /\ dep_names # <<>>
    /\ found[Head(dep_names)] \in places
    /\ deps_to_import' = Append(deps_to_import, Head(dep_names))
    /\ dep_names' = Tail(dep_names) \o depends[Head(dep_names)]
    /\ UNCHANGED <<installation, imported, missing_packages, paths, pos, pc, package,
                   result, calls>>

FoundInIndex      == ListForImport({"index"})
FoundInPackageXml == ListForImport({"package_xml"})

\* Mutant of NotFound: the missing package is not remembered.
NotFoundForgotten ==
    /\ pc = "walk"
    /\ dep_names # <<>>
    /\ found[Head(dep_names)] = "absent"
    /\ dep_names' = Tail(dep_names)
    /\ UNCHANGED <<installation, imported, deps_to_import, missing_packages,
                   paths, pos, pc, package, result, calls>>

\* Mutant of NotFound: the missing package stays in the queue.
NotFoundStays ==
    /\ pc = "walk"
    /\ dep_names # <<>>
    /\ found[Head(dep_names)] = "absent"
    /\ missing_packages' = missing_packages \cup {Head(dep_names)}
    /\ UNCHANGED <<installation, imported, dep_names, deps_to_import, paths, pos,
                   pc, package, result, calls>>

\* Neither the index nor a package.xml knows the package.
NotFound ==
    /\ pc = "walk"
    /\ dep_names # <<>>
    /\ found[Head(dep_names)] = "absent"
    /\ missing_packages' = missing_packages \cup {Head(dep_names)}
    /\ dep_names' = Tail(dep_names)
    /\ UNCHANGED <<installation, imported, deps_to_import, paths, pos, pc, package,
                   result, calls>>

WalkEnds ==
    /\ pc = "walk"
    /\ dep_names = <<>>
    /\ pos' = Len(deps_to_import)
    /\ \/ /\ deps_to_import = <<>>
          /\ pc' = "report"
          /\ UNCHANGED path_list
       \/ /\ deps_to_import # <<>>
          /\ pc' = "path"
          /\ path_list' = ComponentPath
    /\ UNCHANGED <<installation, imported, dep_names, deps_to_import,
                   missing_packages, search_paths_seen, package, result, calls>>

(* The search paths of the listed packages are put before the loader's own *)
(* path, from the end of the list; a prefix that is there is passed over.  *)

\* Mutant of PrependPath: prefixes are not tested for duplicates.
PrependPathTwice ==
    /\ pc = "path"
    /\ pos > 0
    /\ pos' = pos - 1
    /\ path_list' = <<Prefix[deps_to_import[pos]]>> \o path_list
    /\ search_paths_seen' = search_paths_seen \cup {Prefix[deps_to_import[pos]]}
    /\ UNCHANGED <<installation, imported, dep_names, deps_to_import,
                   missing_packages, pc, package, result, calls>>

PrependPath ==
    /\ pc = "path"
    /\ pos > 0
    /\ pos' = pos - 1
    /\ LET path == Prefix[deps_to_import[pos]]
       IN  \/ /\ path \in search_paths_seen
              /\ UNCHANGED paths
           \/ /\ path \notin search_paths_seen
              /\ path_list' = <<path>> \o path_list
              /\ search_paths_seen' = search_paths_seen \cup {path}
    /\ UNCHANGED <<installation, imported, dep_names, deps_to_import,
                   missing_packages, pc, package, result, calls>>

PathEnds ==
    /\ pc = "path"
    /\ pos = 0
    /\ pos' = Len(deps_to_import)
    /\ pc' = "load"
    /\ UNCHANGED <<installation, imported, dep_names, deps_to_import,
                   missing_packages, paths, package, result, calls>>

(* The second loop: one package of the list, from its end.                 *)

LoadNext ==
    /\ pc = "load"
    /\ pos > 0
    /\ pos' = pos - 1
    /\ LET p == deps_to_import[pos]
       IN  \/ /\ p = RttRos2 \/ p \in imported
              /\ UNCHANGED <<imported, missing_packages>>
           \/ /\ p # RttRos2 /\ p \notin imported
              /\ imported' = imported \cup {p}
              /\ UNCHANGED missing_packages
           \/ /\ p # RttRos2 /\ p \notin imported
              /\ missing_packages' = missing_packages \cup {p}
              /\ UNCHANGED imported
    /\ UNCHANGED <<installation, dep_names, deps_to_import, paths, pc, package,
                   result, calls>>

LoadEnds ==
    /\ pc = "load"
    /\ pos = 0
    /\ pc' = "report"
    /\ UNCHANGED <<installation, imported, dep_names, deps_to_import,
                   missing_packages, paths, pos, package, result, calls>>

Report ==
    /\ pc = "report"
    /\ result' = (missing_packages = {})
    /\ pc' = "idle"
    /\ UNCHANGED <<installation, imported, dep_names, deps_to_import,
                   missing_packages, paths, pos, package, calls>>

-----------------------------------------------------------------------------
Next ==
    \/ \E p \in Packages : Import(p)
    \/ FoundInIndex
    \/ FoundInPackageXml
    \/ NotFound
    \/ WalkEnds
    \/ PrependPath
    \/ PathEnds
    \/ LoadNext
    \/ LoadEnds
    \/ Report

Spec == Init /\ [][Next]_vars

\* import() is an ordinary call: it goes on until it returns.
FairSpec == Spec /\ WF_vars(Next /\ pc # "idle")

-----------------------------------------------------------------------------
(* Properties.                                                             *)

\* A package and everything it depends on, directly or indirectly: the least
\* set of packages that holds the package and is closed under dependencies.
Closure(p) ==
    {q \in Packages :
       \A C \in SUBSET Packages :
          p \in C /\ (\A r \in C : Elements(depends[r]) \subseteq C) => q \in C}

\* A dependency is imported before the packages that depend on it, or it is
\* known to be missing: the list repeats a package for every way that leads to
\* it, so the first import of a dependency from the end of the list comes
\* before all of its dependants, in every shape of diamond.
DependenciesFirst ==
    [][\A p \in imported' \ imported :
          Elements(depends[p]) \subseteq imported \cup missing_packages \cup {RttRos2}]_vars

\* Every dependency of a listed package is still in the queue, missing, or
\* listed again further back.
DependenciesListed ==
    \A i \in DOMAIN deps_to_import :
        \A d \in Elements(depends[deps_to_import[i]]) :
            \/ d \in Elements(dep_names)
            \/ d \in missing_packages
            \/ \E j \in DOMAIN deps_to_import : j > i /\ deps_to_import[j] = d

\* What the second loop has left behind it is imported or missing.
BackIsSettled ==
    pc = "load" =>
        /\ dep_names = <<>>
        /\ \A j \in DOMAIN deps_to_import : j > pos =>
              deps_to_import[j] \in imported \cup missing_packages \cup {RttRos2}

\* The paths are put together after the walk.
PathFollowsWalk ==
    pc = "path" => dep_names = <<>>

\* No prefix counts as seen before the paths are put together.
NothingSeen ==
    pc = "walk" => search_paths_seen = {}

\* The inductive invariant.
IInv ==
    /\ TypeOK
    /\ DependenciesListed
    /\ BackIsSettled
    /\ PathFollowsWalk
    /\ NothingSeen

\* import() returns true only when the package and everything it depends on,
\* directly or indirectly, is imported, also after an earlier call that failed
\* half way.
TrueMeansComplete ==
    pc = "idle" /\ result => Closure(package) \subseteq imported \cup {RttRos2}

\* While packages are imported, the loader searches the prefix of every
\* package of the list, once, before its own path.
PathIsComplete ==
    pc = "load" =>
        LET n == Len(path_list) - Len(ComponentPath)
        IN  /\ {path_list[i] : i \in 1 .. n} =
                 {Prefix[p] : p \in Elements(deps_to_import)}
            /\ \A i, j \in 1 .. n : path_list[i] = path_list[j] => i = j
            /\ \A i \in DOMAIN ComponentPath : path_list[n + i] = ComponentPath[i]

\* The paths put together so far: the n prefixes seen, each once, and then
\* the loader's own path.
PathHolds(path, n, seen) ==
    /\ n \in Nat
    /\ \A i \in 1 .. n : path[i] \in seen
    /\ \A p \in seen : \E i \in 1 .. n : path[i] = p
    /\ \A i, j \in 1 .. n : path[i] = path[j] => i = j
    /\ \A i \in DOMAIN ComponentPath : path[n + i] = ComponentPath[i]

\* The prefixes seen are those of the packages listed after place k.
SeenAfter(k, seen) ==
    /\ \A j \in DOMAIN deps_to_import :
          j > k => Prefix[deps_to_import[j]] \in seen
    /\ \A p \in seen : \E j \in DOMAIN deps_to_import :
          j > k /\ Prefix[deps_to_import[j]] = p

PathIsBuilt ==
    pc \in {"path", "load"} =>
        /\ PathHolds(path_list, Len(path_list) - Len(ComponentPath), search_paths_seen)
        /\ SeenAfter(IF pc = "load" THEN 0 ELSE pos, search_paths_seen)

\* The package asked for is in the queue, listed or missing until the call is
\* over, and after a call that returned true.
PackageIsTracked ==
    pc # "idle" \/ result =>
        package \in Elements(dep_names) \cup Elements(deps_to_import)
                      \cup missing_packages

\* Once the second loop is over the whole list is imported or missing, and a
\* call that returned true has nothing missing.
ListIsSettled ==
    /\ pc = "report" \/ (pc = "idle" /\ result) =>
          /\ dep_names = <<>>
          /\ Elements(deps_to_import) \subseteq
               imported \cup missing_packages \cup {RttRos2}
    /\ pc = "idle" /\ result => missing_packages = {}

\* import() returns: on an installation without cyclic dependencies the queue
\* empties, although nothing remembers the packages already walked.
ImportReturns == (pc = "walk") ~> (pc = "idle")
=============================================================================
