-------------------------- MODULE BumpVersion_proofs --------------------------
(***************************************************************************)
(* A release that is written is whole, and one that is not can be done     *)
(* again, for any packages, dependencies, versions and number of runs.     *)
(* The invariant keeps apart the four versions of a package (manifest,     *)
(* file, memory, published) and says what the recursion still owes to the  *)
(* dependents of each package that it has bumped.                          *)
(***************************************************************************)
EXTENDS BumpVersion, SequenceTheorems, WellFoundedInduction, TLAPS

Version == Nat \X Nat \X Nat

(* What compareVersions() decides. *)
Older(a, b) ==
  \/ a[1] < b[1]
  \/ a[1] = b[1] /\ a[2] < b[2]
  \/ a[1] = b[1] /\ a[2] = b[2] /\ a[3] < b[3]

LEMMA Compare ==
  ASSUME NEW a \in Version, NEW b \in Version
  PROVE  /\ compareVersions(a, b) > 0 <=> Older(a, b)
         /\ compareVersions(a, b) <= 0 <=> ~Older(a, b)
<1> DEFINE differ == {i \in 1 .. 3 : a[i] # b[i]}
           i == CHOOSE k \in differ : \A j \in differ : k <= j
<1>1. /\ a[1] \in Nat /\ a[2] \in Nat /\ a[3] \in Nat
      /\ b[1] \in Nat /\ b[2] \in Nat /\ b[3] \in Nat
  BY DEF Version
<1>2. CASE a[1] = b[1] /\ a[2] = b[2] /\ a[3] = b[3]
  <2>1. differ = {}
    BY <1>2
  <2>2. compareVersions(a, b) = 0
    BY <2>1 DEF compareVersions
  <2> QED BY <1>1, <1>2, <2>2 DEF Older
<1>3. CASE ~(a[1] = b[1] /\ a[2] = b[2] /\ a[3] = b[3])
  <2> DEFINE l == IF a[1] # b[1] THEN 1 ELSE IF a[2] # b[2] THEN 2 ELSE 3
  <2>1. l \in differ /\ \A j \in differ : l <= j
    BY <1>3
  <2>2. i \in differ /\ \A j \in differ : i <= j
    BY <2>1
  <2>3. i = l /\ differ # {}
    BY <2>1, <2>2
  <2>4. compareVersions(a, b) = IF a[l] < b[l] THEN 1 ELSE -1
    BY <2>3 DEF compareVersions
  <2> QED BY <1>1, <1>3, <2>4 DEF Older
<1> QED BY <1>2, <1>3

LEMMA Order ==
  ASSUME NEW a \in Version, NEW b \in Version, NEW c \in Version
  PROVE  /\ ~Older(a, a)
         /\ ~Older(a, b) /\ Older(a, c) => Older(b, c)
         /\ Older(a, b) /\ ~Older(c, b) => Older(a, c)
         /\ Older(a, b) => ~Older(b, a)
BY DEF Older, Version

LEMMA Bumping ==
  ASSUME NEW v \in Version, NEW type
  PROVE  bumpVersionString(v, type) \in Version /\ Older(v, bumpVersionString(v, type))
<1>1. v[1] \in Nat /\ v[2] \in Nat /\ v[3] \in Nat
  BY DEF Version
<1> QED BY <1>1 DEF Older, Version, bumpVersionString

LEMMA LeastIsIn ==
  ASSUME NEW s \in SUBSET Packages, s # {}
  PROVE  Least(s) \in s
<1>1. s \subseteq Nat
  BY BumpAssumption
<1>2. \E p \in s : \A q \in s : ~(<<q, p>> \in OpToRel(<, Nat))
  BY <1>1, WFMin, NatLessThanWellFounded
<1>3. ASSUME NEW p \in Nat, NEW q \in Nat, q < p
      PROVE  <<q, p>> \in OpToRel(<, Nat)
  BY <1>3, Zenon DEF OpToRel
<1>4. PICK p \in s : \A q \in s : ~(<<q, p>> \in OpToRel(<, Nat))
  BY <1>2
<1>5. \A q \in s : p <= q
  <2> SUFFICES ASSUME NEW q \in s, ~(p <= q) PROVE FALSE
    OBVIOUS
  <2>1. p \in Nat /\ q \in Nat /\ q < p
    BY <1>1
  <2> QED BY <1>3, <1>4, <2>1
<1> QED BY <1>5 DEF Least
-----------------------------------------------------------------------------
Info(is) ==
  /\ DOMAIN is = Packages
  /\ \A p \in Packages :
       /\ DOMAIN is[p] = {"version", "deps"} /\ is[p].version \in Version
       /\ DOMAIN is[p].deps = {e \in Packages : <<p, e>> \in dependencies}

Types ==
  /\ dependencies \subseteq Packages \X Packages
  /\ published \in [Packages -> Version] /\ manifest \in [Packages -> Version]
  /\ Info(files) /\ Info(infos)
  /\ pc \in {"idle", "bump", "write", "done"}
  /\ bumped \subseteq Packages /\ towrite \subseteq Packages
  /\ stack \in Seq([name : Packages, left : SUBSET Packages])

(* Between two runs nothing is in memory, and only bump recurs. *)
Quiet ==
  /\ pc = "idle" => bumped = {} /\ infos = files
  /\ pc # "bump" => stack = <<>>

NotBehind == \A p \in Packages : ~Older(files[p].version, manifest[p])

(* In memory a bumped package has the version after the published one, and *)
(* any other that of its file.  The former were not ahead.                 *)
Right(is, b, type) ==
  \A p \in Packages : is[p].version = IF p \in b THEN NewVersion(p, type) ELSE files[p].version

Judged == pc # "done" => \A p \in bumped : ~Older(published[p], manifest[p])

(* The activations are of bumped packages, each of another. *)
FramesOf(st, b) ==
  /\ \A i \in DOMAIN st : st[i].name \in b /\ st[i].left \subseteq getDependents(st[i].name)
  /\ \A i, j \in DOMAIN st : i # j => st[i].name # st[j].name

Owed(st, p, q) == \E i \in DOMAIN st : st[i].name = p /\ q \in st[i].left

Follows(is, b, p, q) ==
  is[q].deps[p] = is[p].version /\ (q \in b \/ Older(published[q], manifest[q]))

(* Each dependent of a bumped package follows, or is still to come.  One   *)
(* that is just being looked at is excused from being bumped.              *)
Owing(is, b, st, excused) ==
  \A p \in b : \A q \in getDependents(p) :
    Owed(st, p, q) \/ Follows(is, b \cup excused, p, q)

Written ==
  /\ pc \in {"write", "done"} =>
       \A p \in Packages \ towrite :
         files[p].version = infos[p].version /\ (p \in bumped => files[p] = infos[p])
  /\ pc = "done" => towrite = {} /\ \A p \in Packages : manifest[p] = files[p].version

IInv ==
  /\ Types /\ Quiet /\ NotBehind /\ Judged /\ Written
  /\ Right(infos, bumped, bumpType) /\ FramesOf(stack, bumped) /\ Owing(infos, bumped, stack, {})
-----------------------------------------------------------------------------
WithVersion(is, p, v) == [is EXCEPT ![p].version = v]
WithDependency(is, d, p, v) == [is EXCEPT ![d].deps[p] = v]

LEMMA SetVersion ==
  ASSUME NEW is, Info(is), NEW p \in Packages, NEW v \in Version
  PROVE  /\ Info(WithVersion(is, p, v)) /\ WithVersion(is, p, v)[p].version = v
         /\ \A q \in Packages :
              /\ WithVersion(is, p, v)[q].deps = is[q].deps
              /\ q # p => WithVersion(is, p, v)[q].version = is[q].version
BY DEF Info, WithVersion

DependencySet(new, is, d, p, v) ==
  /\ Info(new) /\ new[d].deps[p] = v
  /\ \A q \in Packages : new[q].version = is[q].version
  /\ \A q, r \in Packages :
       <<q, r>> \in dependencies /\ ~(q = d /\ r = p) => new[q].deps[r] = is[q].deps[r]

LEMMA SetDependency ==
  ASSUME NEW is, Info(is), NEW d \in Packages, NEW p \in Packages, <<d, p>> \in dependencies, NEW v
  PROVE  DependencySet(WithDependency(is, d, p, v), is, d, p, v)
BY DEF Info, WithDependency, DependencySet

LEMMA IsAhead ==
  ASSUME Types, NEW p \in Packages
  PROVE  Ahead(p) <=> Older(published[p], manifest[p])
BY Compare DEF Types, Ahead

Frame == [name : Packages, left : SUBSET Packages]

(* A call of bumpVersion() leaves memory and stack in order, and nothing   *)
(* excused that was about its package.                                     *)
LEMMA EnterKeeps ==
  ASSUME Types, NEW p \in Packages, p \notin bumped, NEW type, NEW is, Info(is), NEW after \in Seq(Frame),
         Right(is, bumped, type), FramesOf(after, bumped), Owing(is, bumped, after, {p}),
         Enter(p, type, after, is)
  PROVE  /\ Info(infos') /\ bumped' \subseteq Packages /\ stack' \in Seq(Frame)
         /\ Right(infos', bumped', type) /\ FramesOf(stack', bumped') /\ Owing(infos', bumped', stack', {})
         /\ \A q \in bumped' : q \in bumped \/ ~Older(published[q], manifest[q])
<1>1. CASE Ahead(p)
  <2>1. stack' = after /\ infos' = is /\ bumped' = bumped /\ Older(published[p], manifest[p])
    BY <1>1, IsAhead DEF Enter
  <2>2. Owing(is, bumped, after, {})
    BY <2>1 DEF Owing, Follows
  <2> QED BY <2>1, <2>2 DEF Types
<1>2. CASE ~Ahead(p)
  <2> DEFINE v == NewVersion(p, type)  f == [name |-> p, left |-> getDependents(p)]
  <2>1. /\ infos' = [is EXCEPT ![p].version = v] /\ bumped' = bumped \cup {p} /\ stack' = Append(after, f)
        /\ ~Older(published[p], manifest[p])
    BY <1>2, IsAhead DEF Enter, Marked
  <2>2. v \in Version
    BY Bumping DEF Types, NewVersion
  <2> HIDE DEF v
  <2>3. /\ Info(infos') /\ infos'[p].version = v
        /\ \A q \in Packages :
             infos'[q].deps = is[q].deps /\ (q # p => infos'[q].version = is[q].version)
    <3>1. infos' = WithVersion(is, p, v)
      BY <2>1 DEF WithVersion
    <3> QED BY <3>1, <2>2, SetVersion
  <2>4. f \in Frame
    BY DEF Frame, getDependents
  <2>5. /\ stack' \in Seq(Frame) /\ Len(after) \in Nat /\ Len(stack') = Len(after) + 1
        /\ DOMAIN after = 1 .. Len(after) /\ DOMAIN stack' = 1 .. Len(after) + 1
        /\ \A i \in 1 .. Len(after) : stack'[i] = after[i]
        /\ stack'[Len(after) + 1] = f
    BY <2>1, <2>4, AppendProperties, LenProperties
  <2> HIDE DEF f
  <2>6. f.name = p /\ f.left = getDependents(p)
    BY DEF f
  <2>7. Right(infos', bumped', type)
    BY <2>1, <2>3 DEF Right, v
  <2>8. FramesOf(stack', bumped')
    <3>1. ASSUME NEW i \in DOMAIN stack'
          PROVE  stack'[i].name \in bumped' /\ stack'[i].left \subseteq getDependents(stack'[i].name)
      BY <2>1, <2>5, <2>6 DEF FramesOf
    <3>2. ASSUME NEW i \in DOMAIN stack', NEW j \in DOMAIN stack', i # j
          PROVE  stack'[i].name # stack'[j].name
      <4>1. CASE i \in DOMAIN after /\ j \in DOMAIN after
        BY <3>2, <4>1, <2>5 DEF FramesOf
      <4>2. CASE i \notin DOMAIN after
        <5>1. i = Len(after) + 1 /\ j \in DOMAIN after
          BY <3>2, <4>2, <2>5
        <5> QED BY <5>1, <2>5, <2>6 DEF FramesOf
      <4>3. CASE j \notin DOMAIN after
        <5>1. j = Len(after) + 1 /\ i \in DOMAIN after
          BY <3>2, <4>3, <2>5
        <5> QED BY <5>1, <2>5, <2>6 DEF FramesOf
      <4> QED BY <4>1, <4>2, <4>3
    <3> QED BY <3>1, <3>2 DEF FramesOf
  <2>9. Owing(infos', bumped', stack', {})
    <3> SUFFICES ASSUME NEW r \in bumped', NEW q \in getDependents(r)
                 PROVE  Owed(stack', r, q) \/ Follows(infos', bumped' \cup {}, r, q)
      BY DEF Owing
    <3>1. q \in Packages
      BY DEF getDependents
    <3>2. CASE r = p
      <4>1. Len(after) + 1 \in DOMAIN stack'
        BY <2>5
      <4> QED BY <3>2, <4>1, <2>5, <2>6 DEF Owed
    <3>3. CASE r # p
      <4>1. r \in bumped /\ r \in Packages
        BY <3>3, <2>1 DEF Types
      <4>2. CASE Owed(after, r, q)
        BY <4>2, <2>5 DEF Owed
      <4>3. CASE Follows(is, bumped \cup {p}, r, q)
        BY <4>1, <4>3, <3>1, <3>3, <2>1, <2>3 DEF Follows
      <4> QED BY <4>1, <4>2, <4>3 DEF Owing
    <3> QED BY <3>2, <3>3
  <2> QED BY <2>1, <2>3, <2>5, <2>7, <2>8, <2>9 DEF Types
<1> QED BY <1>1, <1>2

(* The frame of a loop that has one dependent less to go. *)
LEMMA FrameLess ==
  ASSUME Types, stack # <<>>, NEW d
  PROVE  LET top == Last(stack)
             rest == Append(Front(stack), [top EXCEPT !.left = @ \ {d}])
         IN /\ top \in Frame /\ rest \in Seq(Frame) /\ DOMAIN rest = DOMAIN stack
            /\ Len(stack) \in DOMAIN stack /\ stack[Len(stack)] = top
            /\ \A i \in DOMAIN stack :
                 /\ rest[i].name = stack[i].name
                 /\ rest[i].left = IF i = Len(stack) THEN top.left \ {d} ELSE stack[i].left
<1> DEFINE top == Last(stack)  less == [top EXCEPT !.left = @ \ {d}]
           rest == Append(Front(stack), less)
<1>1. /\ stack \in Seq(Frame) /\ Len(stack) \in Nat \ {0} /\ DOMAIN stack = 1 .. Len(stack)
      /\ top = stack[Len(stack)] /\ Len(stack) \in DOMAIN stack
  BY EmptySeq, LenProperties DEF Types, Frame, Last
<1>2. top \in Frame
  BY <1>1, ElementOfSeq
<1>3. less \in Frame /\ less.name = top.name /\ less.left = top.left \ {d}
  BY <1>2 DEF Frame
<1>4. /\ Front(stack) \in Seq(Frame) /\ Len(Front(stack)) = Len(stack) - 1
      /\ \A i \in 1 .. Len(stack) - 1 : Front(stack)[i] = stack[i]
  BY <1>1, SubSeqProperties DEF Front
<1> DEFINE front == Front(stack)
<1> HIDE DEF top, less, front
<1>5. /\ rest \in Seq(Frame) /\ Len(rest) = Len(stack)
      /\ \A i \in 1 .. Len(stack) - 1 : rest[i] = stack[i]
      /\ rest[Len(stack)] = less
  <2>1. rest = Append(front, less)
    BY DEF front
  <2>2. /\ front \in Seq(Frame) /\ Len(front) = Len(stack) - 1
        /\ \A i \in 1 .. Len(stack) - 1 : front[i] = stack[i]
    BY <1>4 DEF front
  <2> HIDE DEF rest
  <2>3. /\ rest \in Seq(Frame) /\ Len(rest) = Len(front) + 1
        /\ \A i \in 1 .. Len(front) : rest[i] = front[i]
        /\ rest[Len(front) + 1] = less
    BY <2>1, <2>2, <1>3, AppendProperties
  <2> QED BY <1>1, <2>2, <2>3
<1>6. DOMAIN rest = DOMAIN stack
  BY <1>1, <1>5, LenProperties
<1> HIDE DEF rest
<1>7. ASSUME NEW i \in DOMAIN stack
      PROVE  /\ rest[i].name = stack[i].name
             /\ rest[i].left = IF i = Len(stack) THEN top.left \ {d} ELSE stack[i].left
  <2>1. CASE i = Len(stack)
    BY <2>1, <1>1, <1>3, <1>5
  <2>2. CASE i # Len(stack)
    <3>1. i \in 1 .. Len(stack) - 1
      BY <2>2, <1>1
    <3> QED BY <2>2, <3>1, <1>5
  <2> QED BY <2>1, <2>2
<1> QED BY <1>1, <1>2, <1>5, <1>6, <1>7 DEF top, less, rest

LEMMA DependentKeeps ==
  ASSUME IInv, Dependent
  PROVE  IInv'
<1> DEFINE top == Last(stack)  d == Least(top.left)
           rest == Append(Front(stack), [top EXCEPT !.left = @ \ {d}])
           is == DependsOn(d, top.name)
<1> USE DEF IInv
<1>1. /\ pc = "bump" /\ stack # <<>> /\ top.left # {} /\ UNCHANGED <<disk, pc, runs, bumpType, towrite>>
      /\ IF d \in bumped THEN stack' = rest /\ infos' = is /\ UNCHANGED bumped
         ELSE Enter(d, bumpType, rest, is)
  BY DEF Dependent
<1>2. /\ top \in Frame /\ rest \in Seq(Frame) /\ DOMAIN rest = DOMAIN stack
      /\ Len(stack) \in DOMAIN stack /\ stack[Len(stack)] = top
      /\ \A i \in DOMAIN stack :
           /\ rest[i].name = stack[i].name
           /\ rest[i].left = IF i = Len(stack) THEN top.left \ {d} ELSE stack[i].left
  BY <1>1, FrameLess
<1> HIDE DEF top, rest
<1>3. /\ d \in top.left /\ d \in Packages /\ top.name \in Packages /\ top.name \in bumped
      /\ <<d, top.name>> \in dependencies
  <2>1. top.name \in Packages /\ top.left \in SUBSET Packages
    BY <1>2 DEF Frame
  <2>2. d \in top.left
    BY <1>1, <2>1, LeastIsIn
  <2> HIDE DEF d
  <2>3. top.name \in bumped /\ top.left \subseteq getDependents(top.name)
    BY <1>2 DEF FramesOf
  <2> QED BY <2>1, <2>2, <2>3 DEF getDependents
<1> HIDE DEF d
<1>4. /\ Info(is) /\ is[d].deps[top.name] = infos[top.name].version
      /\ \A q \in Packages : is[q].version = infos[q].version
      /\ \A q, r \in Packages :
           <<q, r>> \in dependencies /\ ~(q = d /\ r = top.name) => is[q].deps[r] = infos[q].deps[r]
  <2> DEFINE t == top.name
  <2>1. Info(infos) /\ d \in Packages /\ t \in Packages /\ <<d, t>> \in dependencies
    BY <1>3 DEF Types
  <2>2. is = WithDependency(infos, d, t, infos[t].version)
    BY DEF DependsOn, WithDependency
  <2> HIDE DEF t, is, IInv
  <2>3. DependencySet(is, infos, d, t, infos[t].version)
    BY <2>1, <2>2, SetDependency
  <2> QED BY <2>3 DEF DependencySet, t
<1> HIDE DEF is
<1>5. Right(is, bumped, bumpType)
  BY <1>4 DEF Right
<1>6. FramesOf(rest, bumped)
  BY <1>2 DEF FramesOf
<1>7. Owing(is, bumped, rest, {d})
  <2> SUFFICES ASSUME NEW p \in bumped, NEW q \in getDependents(p)
               PROVE  Owed(rest, p, q) \/ Follows(is, bumped \cup {d}, p, q)
    BY DEF Owing
  <2>1. p \in Packages /\ q \in Packages /\ <<q, p>> \in dependencies
    BY DEF Types, getDependents
  <2>2. CASE Owed(stack, p, q)
    <3>1. PICK i \in DOMAIN stack : stack[i].name = p /\ q \in stack[i].left
      BY <2>2 DEF Owed
    <3>2. CASE i = Len(stack) /\ q = d
      <4>1. p = top.name
        BY <3>1, <3>2, <1>2
      <4> QED BY <4>1, <3>2, <1>4, <2>1 DEF Follows
    <3>3. CASE ~(i = Len(stack) /\ q = d)
      <4>1. i \in DOMAIN rest /\ rest[i].name = p /\ q \in rest[i].left
        BY <3>1, <3>3, <1>2
      <4> QED BY <4>1 DEF Owed
    <3> QED BY <3>2, <3>3
  <2>3. CASE Follows(infos, bumped \cup {}, p, q)
    <3>1. is[q].deps[p] = is[p].version
      <4>1. CASE q = d /\ p = top.name
        BY <4>1, <1>4, <2>1
      <4>2. CASE ~(q = d /\ p = top.name)
        BY <4>2, <1>4, <2>1, <2>3 DEF Follows
      <4> QED BY <4>1, <4>2
    <3> QED BY <2>3, <3>1 DEF Follows
  <2> QED BY <2>2, <2>3 DEF Owing
<1>8. /\ Info(infos') /\ bumped' \subseteq Packages /\ stack' \in Seq(Frame)
      /\ Right(infos', bumped', bumpType) /\ FramesOf(stack', bumped') /\ Owing(infos', bumped', stack', {})
      /\ \A q \in bumped' : q \in bumped \/ ~Older(published[q], manifest[q])
  <2>1. CASE d \in bumped
    <3>1. Owing(is, bumped, rest, {})
      BY <2>1, <1>7 DEF Owing, Follows
    <3> QED BY <2>1, <3>1, <1>1, <1>2, <1>4, <1>5, <1>6 DEF Types
  <2>2. CASE d \notin bumped
    BY <2>2, <1>1, <1>2, <1>3, <1>4, <1>5, <1>6, <1>7, EnterKeeps
  <2> QED BY <2>1, <2>2
<1> QED
  BY <1>1, <1>8 DEF disk, Types, Info, Frame, Quiet, NotBehind, Judged, Written, Right, NewVersion,
     FramesOf, Owing, Owed, Follows, getDependents

LEMMA NoFrames == /\ <<>> \in Seq(Frame) /\ DOMAIN <<>> = {}
                  /\ \A b : FramesOf(<<>>, b)
                  /\ \A p, q : ~Owed(<<>>, p, q)
BY EmptySeq, LenProperties DEF FramesOf, Owed

LEMMA RunKeeps ==
  ASSUME IInv, NEW type, NEW target \in Packages, Run(type, target)
  PROVE  IInv'
<1> USE DEF IInv
<1>1. /\ pc = "idle" /\ pc' = "bump" /\ bumpType' = type /\ towrite' = {}
      /\ Enter(target, type, <<>>, files) /\ UNCHANGED disk
      /\ bumped = {} /\ infos = files
  BY DEF Run, Quiet
<1>2. /\ Info(files) /\ Right(files, bumped, type) /\ Owing(files, bumped, <<>>, {target})
  BY <1>1 DEF Types, Right, Owing
<1>3. /\ Info(infos') /\ bumped' \subseteq Packages /\ stack' \in Seq(Frame)
      /\ Right(infos', bumped', type) /\ FramesOf(stack', bumped') /\ Owing(infos', bumped', stack', {})
      /\ \A q \in bumped' : q \in bumped \/ ~Older(published[q], manifest[q])
  BY <1>1, <1>2, NoFrames, EnterKeeps
<1> QED
  BY <1>1, <1>3 DEF disk, Types, Info, Frame, Quiet, NotBehind, Judged, Written, Right, NewVersion,
     FramesOf, Owing, Owed, Follows, getDependents

LEMMA ReturnsKeeps ==
  ASSUME IInv, Returns
  PROVE  IInv'
<1> USE DEF IInv
<1>1. pc = "bump" /\ UNCHANGED <<disk, runs, bumpType, infos, bumped>>
  BY DEF Returns
<1>2. CASE stack # <<>> /\ Last(stack).left = {} /\ stack' = Front(stack) /\ UNCHANGED <<pc, towrite>>
  <2>1. /\ stack \in Seq(Frame) /\ Len(stack) \in Nat \ {0} /\ DOMAIN stack = 1 .. Len(stack)
        /\ stack[Len(stack)].left = {}
    BY <1>2, EmptySeq, LenProperties DEF Types, Frame, Last
  <2>2. /\ stack' \in Seq(Frame) /\ Len(stack') = Len(stack) - 1
        /\ \A i \in 1 .. Len(stack) - 1 : stack'[i] = stack[i]
    BY <1>2, <2>1, SubSeqProperties DEF Front
  <2>3. DOMAIN stack' = 1 .. Len(stack) - 1
    BY <2>2, LenProperties
  <2>4. FramesOf(stack', bumped)
    <3>1. DOMAIN stack' \subseteq DOMAIN stack /\ \A i \in DOMAIN stack' : stack'[i] = stack[i]
      BY <2>1, <2>2, <2>3
    <3> QED BY <3>1 DEF FramesOf
  <2>5. \A p, q : Owed(stack, p, q) => Owed(stack', p, q)
    <3> SUFFICES ASSUME NEW p, NEW q, NEW i \in DOMAIN stack, stack[i].name = p, q \in stack[i].left
                 PROVE  Owed(stack', p, q)
      BY DEF Owed
    <3>1. i # Len(stack)
      BY <2>1
    <3>2. i \in DOMAIN stack' /\ stack'[i] = stack[i]
      BY <2>1, <2>2, <2>3, <3>1
    <3> QED BY <3>2 DEF Owed
  <2>6. Owing(infos, bumped, stack', {})
    BY <2>5 DEF Owing
  <2> QED
    BY <1>1, <1>2, <2>2, <2>4, <2>6 DEF disk, Types, Info, Frame, Quiet, NotBehind, Judged, Written, Right,
       NewVersion, FramesOf, Owing, Owed, Follows, getDependents
<1>3. CASE /\ stack = <<>> /\ pc' = "write" /\ UNCHANGED stack
           /\ towrite' = {p \in Packages : infos[p].version # manifest[p]}
  <2>1. ASSUME NEW p \in Packages \ towrite'
        PROVE  files[p].version = infos[p].version /\ p \notin bumped
    <3>1. infos[p].version = manifest[p]
      BY <1>3, <2>1
    <3>2. p \notin bumped
      <4> SUFFICES ASSUME p \in bumped PROVE FALSE
        OBVIOUS
      <4>1. manifest[p] = NewVersion(p, bumpType) /\ ~Older(published[p], manifest[p])
        BY <1>1, <3>1 DEF Right, Judged
      <4> QED BY <4>1, Bumping DEF NewVersion, Types
    <3> QED BY <3>2 DEF Right
  <2>2. Written'
    BY <1>1, <1>3, <2>1 DEF disk, Written
  <2> QED
    BY <1>1, <1>3, <2>2 DEF disk, Types, Info, Frame, Quiet, NotBehind, Judged, Right,
       NewVersion, FramesOf, Owing, Owed, Follows, getDependents
<1> QED BY <1>2, <1>3 DEF Returns

LEMMA MemoryNotBehind ==
  ASSUME IInv, pc # "done", NEW p \in Packages
  PROVE  ~Older(infos[p].version, manifest[p])
<1> USE DEF IInv
<1>1. CASE p \in bumped
  <2>1. infos[p].version = NewVersion(p, bumpType) /\ ~Older(published[p], manifest[p])
    BY <1>1 DEF Right, Judged
  <2>2. NewVersion(p, bumpType) \in Version /\ Older(published[p], NewVersion(p, bumpType))
    BY Bumping DEF NewVersion, Types
  <2>3. published[p] \in Version /\ manifest[p] \in Version
    BY DEF Types
  <2> QED BY <2>1, <2>2, <2>3, Order
<1>2. CASE p \notin bumped
  BY <1>2 DEF Right, NotBehind
<1> QED BY <1>1, <1>2

LEMMA WriteKeeps ==
  ASSUME IInv, Write
  PROVE  IInv'
<1> USE DEF IInv
<1> DEFINE p == Least(towrite)
<1>1. /\ pc = "write" /\ towrite # {} /\ files' = [files EXCEPT ![p] = infos[p]] /\ towrite' = towrite \ {p}
      /\ UNCHANGED <<dependencies, published, manifest, pc, runs, bumpType, infos, bumped, stack>>
  BY DEF Write
<1>2. p \in towrite /\ p \in Packages
  BY <1>1, LeastIsIn DEF Types
<1> HIDE DEF p
<1>3. \A q \in Packages : files'[q] = IF q = p THEN infos[p] ELSE files[q]
  BY <1>1 DEF Types, Info
<1>4. Types'
  BY <1>1, <1>2, <1>3 DEF Types, Info
<1>5. NotBehind'
  BY <1>1, <1>2, <1>3, MemoryNotBehind DEF NotBehind
<1>6. Right(infos, bumped, bumpType)'
  BY <1>1, <1>3 DEF Right, NewVersion
<1>7. Written'
  BY <1>1, <1>3 DEF Written
<1> QED
  BY <1>1, <1>4, <1>5, <1>6, <1>7 DEF Quiet, Judged, FramesOf, Owing, Owed, Follows, getDependents

LEMMA ManifestKeeps ==
  ASSUME IInv, writeVersionsManifest
  PROVE  IInv'
<1> USE DEF IInv
<1>1. /\ pc = "write" /\ towrite = {} /\ pc' = "done" /\ manifest' = [p \in Packages |-> infos[p].version]
      /\ UNCHANGED <<dependencies, published, files, runs, bumpType, infos, bumped, stack, towrite>>
      /\ stack = <<>>
  BY DEF writeVersionsManifest, Quiet
<1>2. \A p \in Packages : manifest'[p] = files[p].version /\ files[p].version \in Version
  BY <1>1 DEF Written, Types, Info
<1>3. Types'
  BY <1>1, <1>2 DEF Types, Info
<1>4. NotBehind'
  BY <1>1, <1>2, Order DEF NotBehind
<1>5. Owing(infos, bumped, stack, {})'
  <2> SUFFICES ASSUME NEW p \in bumped, NEW q \in getDependents(p)
               PROVE  infos[q].deps[p] = infos[p].version /\ (q \in bumped \/ Older(published[q], manifest'[q]))
    BY <1>1 DEF Owing, Follows, getDependents
  <2>1. infos[q].deps[p] = infos[p].version /\ (q \in bumped \/ Older(published[q], manifest[q]))
    BY <1>1, NoFrames DEF Owing, Follows
  <2>2. /\ q \in Packages /\ published[q] \in Version /\ manifest[q] \in Version
        /\ ~Older(files[q].version, manifest[q])
    BY DEF getDependents, Types, NotBehind
  <2> QED BY <2>1, <2>2, <1>2, Order
<1>6. Written'
  BY <1>1, <1>2 DEF Written
<1> QED
  BY <1>1, <1>3, <1>4, <1>5, <1>6 DEF Quiet, Judged, Right, NewVersion, FramesOf, getDependents

LEMMA ExitKeeps ==
  ASSUME IInv, Exit
  PROVE  IInv'
<1> USE DEF IInv
<1>1. /\ pc' = "idle" /\ infos' = files /\ bumped' = {} /\ stack' = <<>> /\ towrite' = {} /\ UNCHANGED disk
  BY DEF Exit
<1>2. Types' /\ FramesOf(stack, bumped)'
  BY <1>1, NoFrames DEF disk, Types, Info, Frame, FramesOf
<1> QED
  BY <1>1, <1>2 DEF disk, Quiet, NotBehind, Judged, Written, Right, Owing

LEMMA PublishKeeps ==
  ASSUME IInv, NEW p \in Packages, Publish(p)
  PROVE  IInv'
<1> USE DEF IInv
<1>1. /\ pc = "idle" /\ published' = [published EXCEPT ![p] = files[p].version]
      /\ UNCHANGED <<dependencies, manifest, files, pc, runs, bumpType, infos, bumped, stack, towrite>>
      /\ bumped = {}
  BY DEF Publish, Quiet
<1>2. files[p].version \in Version
  BY DEF Types, Info
<1>3. Types'
  BY <1>1, <1>2 DEF Types, Info
<1> QED
  BY <1>1, <1>3 DEF Quiet, NotBehind, Judged, Written, Right, FramesOf, getDependents, Owing

LEMMA InitKept ==
  ASSUME Init
  PROVE  IInv
<1>1. /\ dependencies \subseteq Packages \X Packages
      /\ published \in [Packages -> Version] /\ manifest \in [Packages -> Version]
      /\ pc = "idle" /\ infos = files /\ bumped = {} /\ stack = <<>> /\ towrite = {}
      /\ DOMAIN files = Packages
  BY BumpAssumption DEF Init, Version
<1>2. \A p \in Packages :
        /\ DOMAIN files[p] = {"version", "deps"} /\ files[p].version = manifest[p]
        /\ DOMAIN files[p].deps = {e \in Packages : <<p, e>> \in dependencies}
  BY DEF Init
<1>3. Types
  BY <1>1, <1>2, NoFrames DEF Types, Info, Frame
<1>4. NotBehind
  BY <1>1, <1>2, Order DEF NotBehind
<1> QED
  BY <1>1, <1>3, <1>4, NoFrames DEF IInv, Quiet, Judged, Written, Right, Owing

(* Whatever run is made, wherever one dies, memory, files and manifest     *)
(* keep their relation.                                                    *)
THEOREM Invariance == Spec => []IInv
<1>1. IInv /\ [Next]_vars => IInv'
  <2> SUFFICES ASSUME IInv, [Next]_vars PROVE IInv'
    OBVIOUS
  <2>1. CASE UNCHANGED vars
    BY <2>1 DEF vars, IInv, Types, Info, Quiet, NotBehind, Judged, Written, Right, NewVersion,
       FramesOf, Owing, Owed, Follows, getDependents
  <2> QED
    BY <2>1, RunKeeps, DependentKeeps, ReturnsKeeps, WriteKeeps, ManifestKeeps, ExitKeeps, PublishKeeps
    DEF Next
<1> QED BY <1>1, InitKept, PTL DEF Spec

(* For any packages and dependencies, cycles included: a package that      *)
(* depends on a bumped one is bumped too and names its new version, or is  *)
(* ahead; and what was bumped is newer than what is published.             *)
THEOREM ReleasesAreWhole == Spec => []VersionsFollow
<1>1. ASSUME IInv PROVE VersionsFollow
  <2> USE DEF IInv
  <2> SUFFICES ASSUME pc = "done", NEW p \in bumped
               PROVE  /\ compareVersions(published[p], files[p].version) > 0
                      /\ \A q \in getDependents(p) :
                           IF q \in bumped THEN files[q].deps[p] = files[p].version
                           ELSE compareVersions(published[q], manifest[q]) > 0
    BY DEF VersionsFollow, DependentsFollow, BumpedIsNew
  <2>1. p \in Packages /\ files[p] = infos[p] /\ published[p] \in Version /\ files[p].version \in Version
    BY <1>1 DEF Written, Types, Info
  <2>2. Older(published[p], files[p].version)
    BY <1>1, <2>1, Bumping DEF Right, NewVersion
  <2>3. compareVersions(published[p], files[p].version) > 0
    BY <2>1, <2>2, Compare
  <2>4. ASSUME NEW q \in getDependents(p)
        PROVE  IF q \in bumped THEN files[q].deps[p] = files[p].version
               ELSE compareVersions(published[q], manifest[q]) > 0
    <3>1. q \in Packages /\ published[q] \in Version /\ manifest[q] \in Version
      BY <1>1 DEF getDependents, Types
    <3>2. infos[q].deps[p] = infos[p].version /\ (q \in bumped \/ Older(published[q], manifest[q]))
      BY <1>1, NoFrames DEF Quiet, Owing, Follows
    <3>3. q \in bumped => files[q] = infos[q]
      BY <1>1, <3>1 DEF Written
    <3> QED BY <2>1, <3>1, <3>2, <3>3, Compare
  <2> QED BY <2>3, <2>4
<1> QED BY <1>1, Invariance, PTL

(* The recursion never enters a package that it is in, so it ends with as  *)
(* many activations as there are packages; and wherever the script dies,   *)
(* no file is behind the manifest, by which the next run judges.           *)
THEOREM RunsCanRepeat == Spec => []RunsEndOrRepeat
<1>1. ASSUME IInv PROVE RunsEndOrRepeat
  <2> USE DEF IInv
  <2>1. NoPackageTwice
    BY <1>1 DEF FramesOf, NoPackageTwice
  <2>2. ASSUME NEW p \in Packages
        PROVE  compareVersions(files[p].version, manifest[p]) <= 0
    <3>1. files[p].version \in Version /\ manifest[p] \in Version
      BY <1>1 DEF Types, Info
    <3> QED BY <1>1, <3>1, Compare DEF NotBehind
  <2>3. pc = "done" => \A p \in Packages : files[p].version = manifest[p]
    BY <1>1 DEF Written
  <2> QED BY <2>1, <2>2, <2>3 DEF RunsEndOrRepeat, ManifestLast
<1> QED BY <1>1, Invariance, PTL
=============================================================================
