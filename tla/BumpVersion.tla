----------------------------- MODULE BumpVersion -----------------------------
(***************************************************************************)
(* The release script resources/bumpVersion.js with the files that it      *)
(* reads and writes.  The script may die between any two steps, be started *)
(* again with other arguments, and packages get published in between.  One *)
(* file is written as a whole or not at all: torn in the middle it is no   *)
(* JSON, and each later run throws where it reads it, until it is mended.  *)
(***************************************************************************)
EXTENDS Integers, SequencesExt

CONSTANTS
  Packages,    \* integers, in the order of their directories
  Shapes,      \* each a set of <<dependent, dependency>>
  Versions,    \* <<major, minor, patch>> to start from
  BumpTypes,
  MaxRuns
ASSUME BumpAssumption ==
  /\ Packages \subseteq Nat /\ IsFiniteSet(Packages) /\ MaxRuns \in Nat
  /\ \A s \in Shapes : s \subseteq Packages \X Packages
  /\ Versions \subseteq Nat \X Nat \X Nat
  /\ BumpTypes \subseteq {"major", "minor", "patch"}

VARIABLES
  dependencies,  \* the shape
  published,     \* by npm
  manifest,      \* versions.json
  files,         \* the package.json: [version, deps], deps with a version for each dependency
  pc,            \* "idle", "bump", "write", "done"
  runs,
  bumpType,
  infos,         \* the package.json in memory
  bumped,
  stack,         \* of bumpVersion()'s activations: [name, left], left the dependents to come
  towrite        \* packages whose file is still to be written
vars == <<dependencies, published, manifest, files, pc, runs, bumpType, infos, bumped, stack, towrite>>
disk == <<dependencies, published, manifest, files>>

bumpVersionString(v, type) ==
  CASE type = "major" -> <<v[1] + 1, 0, 0>>
    [] type = "minor" -> <<v[1], v[2] + 1, 0>>
    [] OTHER -> <<v[1], v[2], v[3] + 1>>

(* 1 when a is the older one. *)
compareVersions(a, b) ==
  LET differ == {i \in 1 .. 3 : a[i] # b[i]} IN
  IF differ = {} THEN 0
  ELSE LET i == CHOOSE k \in differ : \A j \in differ : k <= j
       IN IF a[i] < b[i] THEN 1 ELSE -1

getDependents(name) == {p \in Packages : <<p, name>> \in dependencies}

Ahead(p) == compareVersions(published[p], manifest[p]) > 0

Init ==
  /\ dependencies \in Shapes
  /\ published \in [Packages -> Versions] /\ manifest \in [Packages -> Versions]
  /\ files = [p \in Packages |-> [version |-> manifest[p],
       deps |-> [d \in {e \in Packages : <<p, e>> \in dependencies} |-> manifest[d]]]]
  /\ pc = "idle" /\ runs = 0 /\ bumpType = "patch"
  /\ infos = files /\ bumped = {} /\ stack = <<>> /\ towrite = {}

Least(s) == CHOOSE p \in s : \A q \in s : p <= q

NewVersion(p, type) == bumpVersionString(published[p], type)

Marked(p) == bumped \cup {p}

(* A call bumpVersion(p), up to its loop. *)
Enter(p, type, after, is) ==
  IF Ahead(p) THEN stack' = after /\ infos' = is /\ UNCHANGED bumped
  ELSE /\ infos' = [is EXCEPT ![p].version = NewVersion(p, type)]
       /\ bumped' = Marked(p)
       /\ stack' = Append(after, [name |-> p, left |-> getDependents(p)])

(* parseArguments() and the load of everything that is read; npm answers,  *)
(* or the script dies, which changes nothing.                              *)
Run(type, target) ==
  /\ pc = "idle" /\ runs < MaxRuns
  /\ runs' = runs + 1 /\ pc' = "bump" /\ bumpType' = type /\ towrite' = {}
  /\ Enter(target, type, <<>>, files)
  /\ UNCHANGED disk

(* Mutant of DependsOn: the version that was published. *)
DependsOnPublished(d, name) == [infos EXCEPT ![d].deps[name] = published[name]]

DependsOn(d, name) == [infos EXCEPT ![d].deps[name] = infos[name].version]

(* The loop over the dependents of the innermost package. *)
Dependent ==
  /\ pc = "bump" /\ stack # <<>> /\ Last(stack).left # {}
  /\ LET top == Last(stack)  d == Least(top.left)
         rest == Append(Front(stack), [top EXCEPT !.left = @ \ {d}])
         is == DependsOn(d, top.name)
     IN IF d \in bumped THEN stack' = rest /\ infos' = is /\ UNCHANGED bumped
        ELSE Enter(d, bumpType, rest, is)
  /\ UNCHANGED <<disk, pc, runs, bumpType, towrite>>

Returns ==
  /\ pc = "bump"
  /\ \/ stack # <<>> /\ Last(stack).left = {} /\ stack' = Front(stack) /\ UNCHANGED <<pc, towrite>>
     \/ stack = <<>> /\ pc' = "write" /\ UNCHANGED stack
        /\ towrite' = {p \in Packages : infos[p].version # manifest[p]}
  /\ UNCHANGED <<disk, runs, bumpType, infos, bumped>>

Write ==
  /\ pc = "write" /\ towrite # {}
  /\ LET p == Least(towrite) IN files' = [files EXCEPT ![p] = infos[p]] /\ towrite' = towrite \ {p}
  /\ UNCHANGED <<dependencies, published, manifest, pc, runs, bumpType, infos, bumped, stack>>

(* Mutant of writeVersionsManifest: before the packages' files. *)
writeManifestFirst ==
  /\ pc = "write" /\ manifest # [p \in Packages |-> infos[p].version]
  /\ manifest' = [p \in Packages |-> infos[p].version]
  /\ pc' = IF towrite = {} THEN "done" ELSE "write"
  /\ UNCHANGED <<dependencies, published, files, runs, bumpType, infos, bumped, stack, towrite>>

writeVersionsManifest ==
  /\ pc = "write" /\ towrite = {} /\ pc' = "done"
  /\ manifest' = [p \in Packages |-> infos[p].version]
  /\ UNCHANGED <<dependencies, published, files, runs, bumpType, infos, bumped, stack, towrite>>

(* The process ends, by itself or otherwise, and its memory goes with it.  *)
Exit ==
  /\ pc # "idle" /\ pc' = "idle"
  /\ infos' = files /\ bumped' = {} /\ stack' = <<>> /\ towrite' = {} /\ bumpType' = "patch"
  /\ UNCHANGED <<disk, runs>>

(* npm publish of what the repository has. *)
Publish(p) ==
  /\ pc = "idle" /\ compareVersions(published[p], files[p].version) > 0
  /\ published' = [published EXCEPT ![p] = files[p].version]
  /\ UNCHANGED <<dependencies, manifest, files, pc, runs, bumpType, infos, bumped, stack, towrite>>

Next ==
  \/ \E type \in BumpTypes, target \in Packages : Run(type, target)
  \/ Dependent \/ Returns \/ Write \/ writeVersionsManifest \/ Exit
  \/ \E p \in Packages : Publish(p)

Spec == Init /\ [][Next]_vars
-----------------------------------------------------------------------------
(* A package that depends, also through others and round a cycle, on a     *)
(* bumped one is bumped too and names the new version, unless its own      *)
(* version is ahead of the published one.                                  *)
DependentsFollow ==
  pc = "done" =>
    \A p \in bumped : \A q \in getDependents(p) :
      IF q \in bumped THEN files[q].deps[p] = files[p].version
      ELSE compareVersions(published[q], manifest[q]) > 0

(* What a run bumped can be published: it is newer than what is, however   *)
(* far the manifest was behind.                                            *)
BumpedIsNew ==
  pc = "done" => \A p \in bumped : compareVersions(published[p], files[p].version) > 0

(* A release that was written is one that can be published as a whole.     *)
VersionsFollow == DependentsFollow /\ BumpedIsNew

(* No recursion without end: no package is under way twice.                *)
NoPackageTwice ==
  \A i, j \in DOMAIN stack : i # j => stack[i].name # stack[j].name

(* Wherever the script dies no file is behind the manifest, by which the   *)
(* next run judges what is ahead: what was begun can be done again.        *)
ManifestLast ==
  /\ \A p \in Packages : compareVersions(files[p].version, manifest[p]) <= 0
  /\ pc = "done" => \A p \in Packages : files[p].version = manifest[p]

(* A run comes to its end, or can be done again.                           *)
RunsEndOrRepeat == NoPackageTwice /\ ManifestLast

(* The comment on the writing of the files: "Write updated package.json    *)
(* files only for packages with changed dependencies."                     *)
ChangesWritten == pc = "done" => \A p \in Packages : files[p].deps = infos[p].deps
=============================================================================
