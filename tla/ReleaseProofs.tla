--------------------------- MODULE ReleaseProofs ---------------------------
(***************************************************************************)
(* Proof of ReleasesAreSound for every set of versions, manifests and      *)
(* notes, every initial repository and any number of interrupted runs.     *)
(***************************************************************************)
EXTENDS Release, SequenceTheorems, TLAPS

-----------------------------------------------------------------------------
(* Versions. *)

\* Parts of a version after the patch number.
Pre == {<<>>} \cup ({"alpha", "beta"} \X (1..255))

LEMMA SemverFields ==
    ASSUME NEW v \in Semver
    PROVE  /\ v.major \in Nat /\ v.minor \in Nat /\ v.patch \in Nat /\ v.pre \in Pre
           /\ v = [major |-> v.major, minor |-> v.minor, patch |-> v.patch, pre |-> v.pre]
BY DEF Semver, Pre

\* A version that is_next accepts without a warning is a greater one.
LEMMA NextPrecedes ==
    ASSUME NEW v \in Semver, NEW w \in Semver, is_next(v, w), ~Overflows(v)
    PROVE  Precedes(v, w)
<1> DEFINE label(p) == IF p = <<>> THEN 2 ELSE IF p[1] = "alpha" THEN 0 ELSE 1
           number(p) == IF p = <<>> THEN 0 ELSE p[2]
<1>1. /\ v.major \in Nat /\ v.minor \in Nat /\ v.patch \in Nat
      /\ w.major \in Nat /\ w.minor \in Nat /\ w.patch \in Nat
  BY SemverFields
<1>2. SUFFICES \/ v.major < w.major
               \/ v.major = w.major /\ v.minor < w.minor
               \/ v.major = w.major /\ v.minor = w.minor /\ v.patch < w.patch
               \/ v.major = w.major /\ v.minor = w.minor /\ v.patch = w.patch
                  /\ label(v.pre) < label(w.pre)
               \/ v.major = w.major /\ v.minor = w.minor /\ v.patch = w.patch
                  /\ label(v.pre) = label(w.pre) /\ number(v.pre) < number(w.pre)
  <2> DEFINE a == <<v.major, v.minor, v.patch, label(v.pre), number(v.pre)>>
             b == <<w.major, w.minor, w.patch, label(w.pre), number(w.pre)>>
  <2>1. /\ a[1] = v.major /\ a[2] = v.minor /\ a[3] = v.patch
        /\ a[4] = label(v.pre) /\ a[5] = number(v.pre)
        /\ b[1] = w.major /\ b[2] = w.minor /\ b[3] = w.patch
        /\ b[4] = label(w.pre) /\ b[5] = number(w.pre)
    OBVIOUS
  <2>2. SUFFICES \E i \in 1..5 : a[i] < b[i] /\ \A j \in 1..(i - 1) : a[j] = b[j]
    BY DEF Precedes
  <2> HIDE DEF a, b, label, number
  <2>3. CASE v.major < w.major
    BY <2>1, <2>3
  <2>4. CASE v.major = w.major /\ v.minor < w.minor
    <3>1. a[2] < b[2] /\ \A j \in 1..(2 - 1) : a[j] = b[j]
      BY <2>1, <2>4
    <3> QED BY <3>1
  <2>5. CASE v.major = w.major /\ v.minor = w.minor /\ v.patch < w.patch
    <3>1. a[3] < b[3] /\ \A j \in 1..(3 - 1) : a[j] = b[j]
      BY <2>1, <2>5
    <3> QED BY <3>1
  <2>6. CASE v.major = w.major /\ v.minor = w.minor /\ v.patch = w.patch /\ label(v.pre) < label(w.pre)
    <3>1. a[4] < b[4] /\ \A j \in 1..(4 - 1) : a[j] = b[j]
      BY <2>1, <2>6
    <3> QED BY <3>1
  <2>7. CASE /\ v.major = w.major /\ v.minor = w.minor /\ v.patch = w.patch
             /\ label(v.pre) = label(w.pre) /\ number(v.pre) < number(w.pre)
    <3>1. a[5] < b[5] /\ \A j \in 1..(5 - 1) : a[j] = b[j]
      BY <2>1, <2>7
    <3> QED BY <3>1
  <2> QED BY <1>2, <2>3, <2>4, <2>5, <2>6, <2>7
<1>3. CASE v.pre # <<>>
  <2>1. v.pre[1] \in {"alpha", "beta"} /\ v.pre[2] \in 1..255 /\ v.pre = <<v.pre[1], v.pre[2]>>
    BY <1>3, SemverFields DEF Pre
  <2> DEFINE more == <<v.pre[1], v.pre[2] + 1>>
  <2>2. increment_pre_number(v) = [v EXCEPT !.pre = more]
    BY <1>3 DEF increment_pre_number
  <2>3. \/ w = [v EXCEPT !.pre = more]
        \/ w = [v EXCEPT !.pre = <<"beta", 1>>] /\ v.pre[1] = "alpha"
        \/ w = [v EXCEPT !.pre = <<>>]
    <3> DEFINE next == [v EXCEPT !.pre = more]
    <3>1. w \in {next, increment_pre_label(next), final(next)}
      BY <1>3, <2>2 DEF is_next
    <3>2. next.pre = more /\ more # <<>> /\ more[1] = v.pre[1]
      BY SemverFields
    <3>3. /\ [next EXCEPT !.pre = <<"beta", 1>>] = [v EXCEPT !.pre = <<"beta", 1>>]
          /\ [next EXCEPT !.pre = <<>>] = [v EXCEPT !.pre = <<>>]
          /\ [next EXCEPT !.pre = next.pre] = next
      BY SemverFields
    <3>4. increment_pre_label(next) = IF v.pre[1] = "alpha" THEN [v EXCEPT !.pre = <<"beta", 1>>] ELSE next
      <4> HIDE DEF next, more
      <4>1. CASE v.pre[1] = "alpha"
        BY <3>2, <3>3, <4>1 DEF increment_pre_label
      <4>2. CASE v.pre[1] # "alpha"
        BY <3>2, <3>3, <4>2 DEF increment_pre_label
      <4> QED BY <4>1, <4>2
    <3>5. final(next) = [v EXCEPT !.pre = <<>>]
      BY <3>3 DEF final
    <3> HIDE DEF next
    <3>6. next = [v EXCEPT !.pre = more]
      BY DEF next
    <3> QED BY <3>1, <3>4, <3>5, <3>6
  <2>4. w.major = v.major /\ w.minor = v.minor /\ w.patch = v.patch
    BY <2>3, SemverFields
  <2>5. w.pre = more \/ (w.pre = <<"beta", 1>> /\ v.pre[1] = "alpha") \/ w.pre = <<>>
    BY <2>3, SemverFields
  <2>6. more # <<>> /\ <<"beta", 1>> # <<>> /\ more[1] = v.pre[1] /\ more[2] = v.pre[2] + 1
    OBVIOUS
  <2>7. CASE w.pre = more
    <3>1. label(w.pre) = label(v.pre) /\ number(w.pre) = v.pre[2] + 1 /\ number(v.pre) = v.pre[2]
      BY <1>3, <2>6, <2>7
    <3> HIDE DEF label, number
    <3>2. number(v.pre) < number(w.pre)
      BY <2>1, <3>1
    <3> QED BY <2>4, <3>1, <3>2
  <2>8. CASE w.pre = <<"beta", 1>> /\ v.pre[1] = "alpha"
    BY <1>3, <2>1, <2>4, <2>6, <2>8
  <2>9. CASE w.pre = <<>>
    BY <1>3, <2>1, <2>4, <2>9
  <2> QED BY <2>5, <2>7, <2>8, <2>9
<1>4. CASE v.pre = <<>>
  <2> DEFINE patch == [v EXCEPT !.patch = @ + 1]
             minor == [v EXCEPT !.minor = @ + 1, !.patch = 0]
             major == [v EXCEPT !.major = @ + 1, !.minor = 0, !.patch = 0]
  <2>1. PICK bump \in {patch, minor, major} : w \in {bump, add_pre_release(bump)}
    BY <1>4 DEF is_next
  <2>2. w.major = bump.major /\ w.minor = bump.minor /\ w.patch = bump.patch
    BY <2>1, SemverFields DEF add_pre_release
  <2>3. \/ bump.major = v.major /\ bump.minor = v.minor /\ bump.patch = v.patch + 1
        \/ bump.major = v.major /\ bump.minor = v.minor + 1
        \/ bump.major = v.major + 1
    BY <2>1, SemverFields
  <2> QED BY <1>1, <2>2, <2>3
<1> QED BY <1>3, <1>4

-----------------------------------------------------------------------------
(* The inductive invariant. *)

Body == SUBSET (Notes \cup {"No changes"})

Dependency == [version: Semver, exact: BOOLEAN]

IsSnapshot(s) ==
    /\ s = [version |-> s.version, log |-> s.log, deps |-> s.deps]
    /\ s.version \in Semver /\ s.log \in Seq(Section) /\ s.log # <<>>
    /\ s.deps \in [Manifests[name] -> Dependency]

Steps == {"is_released", "git_status", "check_version", "update_version", "update_dependants",
          "changes", "commit", "publish", "tag", "push", "release", "done"}

IsTask(t) ==
    /\ t = [pc |-> t.pc, version |-> t.version, dry_run |-> t.dry_run, package |-> t.package,
            todo |-> t.todo, create_commit |-> t.create_commit, changes |-> t.changes,
            warned |-> t.warned]
    /\ t.pc \in Steps /\ t.version \in Versions /\ t.dry_run \in BOOLEAN /\ t.package \in Semver
    /\ t.todo \subseteq Manifests[name] /\ t.create_commit \in BOOLEAN /\ t.warned \in BOOLEAN
    /\ t.changes \in Body

StoresOK ==
    /\ name \in DOMAIN Manifests
    /\ IsSnapshot(tree) /\ IsSnapshot(head) /\ IsSnapshot(origin)
    /\ DOMAIN tags \subseteq Versions /\ DOMAIN originTags \subseteq Versions
    /\ DOMAIN crates \subseteq Versions /\ DOMAIN releases \subseteq Versions
    /\ reckless \subseteq Versions /\ trouble \in 0..MaxTrouble
    /\ task = Idle \/ IsTask(task)

NamesVersion(s, v) == \A m \in Manifests[name] : s.deps[m].version = v

Titled(s, v) == ~publish_only /\ v.pre = <<>> => HasTitle(s.log, v)

\* Commits are whole: no commit has manifests at different versions, and a
\* title once committed stays.
CommitsOK ==
    /\ NamesVersion(head, head.version)
    /\ \A v \in Versions : HasTitle(head.log, v) => HasTitle(tree.log, v)

PublishedOK ==
    /\ \A v \in DOMAIN crates \ reckless : IsReleaseOf(crates[v], v) /\ Titled(head, v)
    /\ \A v \in DOMAIN tags \ reckless : IsReleaseOf(tags[v], v)
    /\ DOMAIN releases \subseteq DOMAIN crates \cap DOMAIN originTags

\* What a run that changes things has done when it comes to a step.
Careful == task.version \notin reckless

RunOK ==
    /\ task.package = tree.version
    /\ task.pc \in {"check_version", "update_version"} /\ Careful => tree = head
    /\ task.pc = "update_dependants" => \A m \in Manifests[name] \ task.todo :
                                           tree.deps[m].version = task.version
    /\ task.pc \in {"changes", "commit"} /\ task.create_commit => NamesVersion(tree, task.version)
    /\ task.pc = "changes" /\ ~task.create_commit /\ Careful => tree = head
    /\ task.pc \in {"commit", "publish"} => Titled(tree, task.version)
    /\ task.pc = "publish" /\ Careful => head.version = task.version /\ head.deps = tree.deps
    /\ task.pc \in {"tag", "push", "release", "done"} => task.version \in DOMAIN crates
    /\ task.pc = "tag" /\ Careful => head.version = task.version
    /\ task.pc = "release" => task.version \in DOMAIN originTags

TaskOK ==
    task # Idle =>
       /\ task.pc \in {"update_dependants", "changes", "commit", "publish", "tag", "push", "release", "done"}
             => task.package = task.version
       /\ task.pc \in {"update_dependants", "commit"} => task.create_commit
       /\ task.pc \in {"is_released", "git_status", "check_version", "update_version"}
             => ~task.create_commit
       /\ task.pc = "update_version" /\ ~task.warned /\ task.package # task.version
             => Precedes(task.package, task.version)
       /\ wet => RunOK

ReleaseIInv == StoresOK /\ CommitsOK /\ PublishedOK /\ TaskOK

-----------------------------------------------------------------------------
(* The changelog. *)

LEMMA SectionType ==
    ASSUME NEW for \in SUBSET Semver, NEW open \in BOOLEAN, NEW notes \in Body
    PROVE  [for |-> for, open |-> open, notes |-> notes] \in Section
BY DEF Section, Body

LEMMA FirstElement ==
    ASSUME NEW S, NEW s \in Seq(S), s # <<>>
    PROVE  s[1] \in S /\ 1 \in 1..Len(s) /\ Len(s) \in Nat
OBVIOUS

LEMMA ChangesType ==
    ASSUME NEW log \in Seq(Section), log # <<>>
    PROVE  changes(log) \in Body
<1>1. log[1] \in Section
  BY FirstElement
<1>2. log[1].notes \in Body
  BY <1>1 DEF Section, Body
<1>3. {"No changes"} \in Body
  BY DEF Body
<1> QED BY <1>2, <1>3 DEF changes

\* Adding the title of a release leaves a changelog that has it and the ones
\* it had.
LEMMA TitleAdded ==
    ASSUME NEW log \in Seq(Section), log # <<>>, NEW w \in Semver, w.pre = <<>>,
           ~HasTitle(log, w), ~TitleMissing(log, w)
    PROVE  /\ WithTitle(log, w) \in Seq(Section) /\ WithTitle(log, w) # <<>>
           /\ HasTitle(WithTitle(log, w), w)
           /\ \A v : HasTitle(log, v) => HasTitle(WithTitle(log, w), v)
<1> DEFINE first == [for |-> {}, open |-> TRUE, notes |-> {}]
           second == [for |-> {w}, open |-> FALSE, notes |-> changes(log)]
           two == <<first, second>>
           new_log == two \o Tail(log)
<1>1. first \in Section
  BY SectionType DEF Body
<1>2. second \in Section
  BY SectionType, ChangesType
<1>3. /\ Tail(log) \in Seq(Section) /\ Len(Tail(log)) = Len(log) - 1 /\ Len(log) \in Nat \ {0}
      /\ \A i \in 1..Len(Tail(log)) : Tail(log)[i] = log[i + 1]
  <2> DEFINE S == Section
  <2> HIDE DEF S
  <2>1. log \in Seq(S)
    BY DEF S
  <2>2. /\ Tail(log) \in Seq(S) /\ Len(Tail(log)) = Len(log) - 1 /\ Len(log) \in Nat \ {0}
        /\ \A i \in 1..Len(Tail(log)) : Tail(log)[i] = log[i + 1]
    BY <2>1
  <2> QED BY <2>2 DEF S
<1>4. two \in Seq(Section) /\ Len(two) = 2 /\ two[1] = first /\ two[2] = second
  <2> HIDE DEF first, second
  <2> QED BY <1>1, <1>2
<1>5. /\ new_log \in Seq(Section) /\ Len(new_log) = Len(log) + 1
      /\ new_log[2] = second
      /\ \A i \in 2..Len(log) : new_log[i + 1] = log[i]
  <2> DEFINE S == Section
             rest == Tail(log)
  <2> HIDE DEF S, two, rest
  <2>1. two \in Seq(S) /\ rest \in Seq(S) /\ Len(two) = 2 /\ Len(rest) = Len(log) - 1
    BY <1>3, <1>4 DEF S, rest
  <2>2. /\ two \o rest \in Seq(S) /\ Len(two \o rest) = Len(log) + 1
        /\ (two \o rest)[2] = two[2]
        /\ \A i \in 3..(Len(log) + 1) : (two \o rest)[i] = rest[i - 2]
    <3>1. /\ two \o rest \in Seq(S) /\ Len(two \o rest) = Len(two) + Len(rest)
          /\ \A i \in 1..(Len(two) + Len(rest)) :
                (two \o rest)[i] = IF i <= Len(two) THEN two[i] ELSE rest[i - Len(two)]
      BY <2>1, ConcatProperties
    <3> QED BY <1>3, <2>1, <3>1
  <2>3. ASSUME NEW i \in 2..Len(log) PROVE (two \o rest)[i + 1] = log[i]
    <3>1. i + 1 \in 3..(Len(log) + 1) /\ (i + 1) - 2 = i - 1 /\ i - 1 \in 1..Len(rest) /\ (i - 1) + 1 = i
      BY <1>3, <2>1
    <3> QED BY <1>3, <2>2, <3>1 DEF rest
  <2> QED BY <1>4, <2>2, <2>3 DEF S, rest
<1>6. final(w) = w
  BY SemverFields DEF final
<1>7. WithTitle(log, w) = new_log
  BY DEF WithTitle
<1>8. HasTitle(new_log, w)
  <2>1. ~second.open /\ second.for = {final(w)}
    BY <1>6
  <2> HIDE DEF new_log, second
  <2> QED BY <1>3, <1>5, <2>1 DEF HasTitle
<1>9. log[1].open
  BY DEF TitleMissing
<1>10. ASSUME NEW v, HasTitle(log, v) PROVE HasTitle(new_log, v)
  <2>1. PICK i \in 1..Len(log) : ~log[i].open /\ log[i].for = {final(v)}
    BY <1>10 DEF HasTitle
  <2>2. i \in 2..Len(log)
    BY <1>3, <1>9, <2>1
  <2> HIDE DEF new_log
  <2>3. i + 1 \in 1..Len(new_log) /\ new_log[i + 1] = log[i]
    BY <1>3, <1>5, <2>2
  <2> QED BY <2>1, <2>3 DEF HasTitle
<1>11. new_log # <<>>
  <2> HIDE DEF new_log
  <2> QED BY <1>3, <1>5
<1> QED BY <1>5, <1>7, <1>8, <1>10, <1>11

\* A note changes no title.
LEMMA NoteAdded ==
    ASSUME NEW log \in Seq(Section), log # <<>>, NEW n \in Notes
    PROVE  LET more == [log EXCEPT ![1].notes = @ \cup {n}]
           IN  /\ more \in Seq(Section) /\ more # <<>>
               /\ \A v : HasTitle(log, v) <=> HasTitle(more, v)
<1> DEFINE top == [log[1] EXCEPT !.notes = @ \cup {n}]
           more == [log EXCEPT ![1] = top]
<1>1. log[1] \in Section /\ 1 \in 1..Len(log) /\ Len(log) \in Nat
  BY FirstElement
<1>2. top \in Section /\ top.open = log[1].open /\ top.for = log[1].for
  BY <1>1 DEF Section
<1>3. more \in Seq(Section) /\ Len(more) = Len(log) /\ more[1] = top
      /\ \A i \in 1..Len(log) : i # 1 => more[i] = log[i]
  <2> DEFINE S == Section
  <2> HIDE DEF S, top
  <2>1. log \in Seq(S) /\ top \in S
    BY <1>2 DEF S
  <2>2. more \in Seq(S) /\ Len(more) = Len(log) /\ more[1] = top
        /\ \A i \in 1..Len(log) : i # 1 => more[i] = log[i]
    BY <1>1, <2>1
  <2> QED BY <2>2 DEF S
<1>4. more # <<>>
  <2> HIDE DEF more
  <2> QED BY <1>1, <1>3
<1>5. \A i \in 1..Len(log) : more[i].open = log[i].open /\ more[i].for = log[i].for
  <2> HIDE DEF more, top
  <2> QED BY <1>2, <1>3
<1>6. \A v : HasTitle(log, v) <=> HasTitle(more, v)
  <2> HIDE DEF more, top
  <2> QED BY <1>3, <1>5 DEF HasTitle
<1>7. more = [log EXCEPT ![1].notes = @ \cup {n}]
  OBVIOUS
<1> HIDE DEF more
<1> QED BY <1>3, <1>4, <1>6, <1>7

-----------------------------------------------------------------------------
(* Steps that change the run only. *)

LEMMA StoresFrame ==
    ASSUME ReleaseIInv, UNCHANGED <<name, repo, remote>>,
           reckless \subseteq reckless', reckless' \subseteq Versions, trouble' \in 0..MaxTrouble,
           task' = Idle \/ IsTask(task)'
    PROVE  StoresOK' /\ CommitsOK' /\ PublishedOK'
<1>1. UNCHANGED <<name, tree, head, tags, origin, originTags, crates, releases>>
  BY DEF repo, remote
<1>2. StoresOK'
  BY <1>1 DEF ReleaseIInv, StoresOK, IsSnapshot
<1>3. CommitsOK'
  BY <1>1 DEF ReleaseIInv, CommitsOK, NamesVersion
<1>4. PublishedOK'
  BY <1>1 DEF ReleaseIInv, PublishedOK, IsReleaseOf, Titled, publish_only
<1> QED BY <1>2, <1>3, <1>4

LEMMA TaskFields ==
    ASSUME IsTask(task), NEW p \in Steps
    PROVE  /\ IsTask(to(p)) /\ to(p).pc = p /\ to(p).version = task.version
           /\ to(p).dry_run = task.dry_run /\ to(p).package = task.package /\ to(p).todo = task.todo
           /\ to(p).create_commit = task.create_commit /\ to(p).changes = task.changes
           /\ to(p).warned = task.warned
BY DEF IsTask, to

LEMMA IdleIsNoTask == ASSUME NEW t, IsTask(t) PROVE t # Idle /\ t.pc # "idle"
BY DEF IsTask, Idle, Steps

LEMMA Running ==
    ASSUME ReleaseIInv, task.pc \in Steps
    PROVE  task # Idle /\ IsTask(task)
BY DEF ReleaseIInv, StoresOK, Idle, Steps

LEMMA BoundType == MaxTrouble \in Nat
BY ReleaseAssumption

LEMMA NewKeeps ==
    ASSUME ReleaseIInv, NEW v \in Versions, NEW dry_run \in BOOLEAN, new(v, dry_run)
    PROVE  ReleaseIInv'
<1>1. UNCHANGED <<name, repo, remote, reckless>>
  BY DEF new
<1>2. IsSnapshot(tree) /\ reckless \subseteq Versions /\ trouble \in 0..MaxTrouble
  BY DEF ReleaseIInv, StoresOK
<1>3. /\ IsTask(task)' /\ task'.pc = "is_released" /\ task'.package = tree.version
      /\ task'.create_commit = FALSE
  BY <1>1, <1>2 DEF new, IsTask, IsSnapshot, Steps, Body
<1>4. trouble' \in 0..MaxTrouble
  BY <1>2, BoundType DEF new
<1>5. StoresOK' /\ CommitsOK' /\ PublishedOK'
  BY <1>1, <1>2, <1>3, <1>4, StoresFrame
<1>6. tree' = tree
  BY <1>1 DEF repo
<1>7. TaskOK'
  BY <1>3, <1>6 DEF TaskOK, RunOK
<1> QED BY <1>5, <1>7 DEF ReleaseIInv

LEMMA EndKeeps ==
    ASSUME ReleaseIInv, UNCHANGED <<name, repo, remote, reckless>>,
           trouble' \in 0..MaxTrouble, task' = Idle
    PROVE  ReleaseIInv'
<1>1. reckless \subseteq Versions
  BY DEF ReleaseIInv, StoresOK
<1>2. StoresOK' /\ CommitsOK' /\ PublishedOK'
  BY <1>1, StoresFrame
<1>3. TaskOK'
  BY DEF TaskOK, Idle
<1> QED BY <1>2, <1>3 DEF ReleaseIInv

LEMMA StopKeeps == ASSUME ReleaseIInv, Stop PROVE ReleaseIInv'
<1>1. trouble \in 0..MaxTrouble
  BY DEF ReleaseIInv, StoresOK
<1>2. trouble' \in 0..MaxTrouble
  BY <1>1, BoundType DEF Stop
<1> QED BY <1>2, EndKeeps DEF Stop

LEMMA IsReleasedKeeps == ASSUME ReleaseIInv, is_released PROVE ReleaseIInv'
<1>1. /\ task.pc = "is_released" /\ UNCHANGED <<name, repo, remote, reckless, trouble>>
      /\ task' = IF task.version \in DOMAIN releases THEN Idle ELSE to("git_status")
  BY DEF is_released
<1>2. IsTask(task) /\ task # Idle /\ reckless \subseteq Versions /\ trouble \in 0..MaxTrouble
  BY <1>1, Running DEF ReleaseIInv, StoresOK, Steps
<1>3. CASE task' = Idle
  BY <1>1, <1>2, <1>3, EndKeeps
<1>4. CASE task' = to("git_status")
  <2>1. IsTask(task') /\ task'.pc = "git_status" /\ task'.package = task.package
        /\ task'.dry_run = task.dry_run /\ task'.create_commit = task.create_commit
    BY <1>2, <1>4, TaskFields DEF Steps
  <2>2. IsTask(task)'
    BY <1>1, <2>1 DEF IsTask
  <2>3. StoresOK' /\ CommitsOK' /\ PublishedOK'
    BY <1>1, <1>2, <2>2, StoresFrame
  <2>4. tree' = tree
    BY <1>1 DEF repo
  <2>5. TaskOK'
    BY <1>1, <1>2, <2>1, <2>4 DEF ReleaseIInv, TaskOK, RunOK, wet
  <2> QED BY <2>3, <2>5 DEF ReleaseIInv
<1> QED BY <1>1, <1>3, <1>4

LEMMA GitStatusKeeps == ASSUME ReleaseIInv, git_status PROVE ReleaseIInv'
<1>1. /\ task.pc = "git_status" /\ UNCHANGED <<name, repo, remote, trouble>>
      /\ task' = to("check_version")
      /\ reckless' = IF tree # head THEN reckless \cup {task.version} ELSE reckless
  BY DEF git_status
<1>2. IsTask(task) /\ task # Idle /\ reckless \subseteq Versions /\ trouble \in 0..MaxTrouble
  BY <1>1, Running DEF ReleaseIInv, StoresOK, Steps
<1>3. IsTask(task') /\ task'.pc = "check_version" /\ task'.package = task.package
      /\ task'.dry_run = task.dry_run /\ task'.version = task.version
      /\ task'.create_commit = task.create_commit
  BY <1>1, <1>2, TaskFields DEF Steps
<1>4. IsTask(task)'
  BY <1>1, <1>3 DEF IsTask
<1>5. reckless \subseteq reckless' /\ reckless' \subseteq Versions
  BY <1>1, <1>2 DEF IsTask
<1>6. StoresOK' /\ CommitsOK' /\ PublishedOK'
  BY <1>1, <1>2, <1>4, <1>5, StoresFrame
<1>7. tree' = tree /\ head' = head
  BY <1>1 DEF repo
<1>8. task'.version \notin reckless' => tree = head
  BY <1>1, <1>3
<1>9. TaskOK'
  BY <1>1, <1>2, <1>3, <1>7, <1>8 DEF ReleaseIInv, TaskOK, RunOK, wet, Careful
<1> QED BY <1>6, <1>9 DEF ReleaseIInv

LEMMA CheckVersionKeeps == ASSUME ReleaseIInv, check_version PROVE ReleaseIInv'
<1> DEFINE warn == task.package # task.version /\ ~is_next(task.package, task.version)
<1>1. /\ task.pc = "check_version" /\ UNCHANGED <<name, repo, remote, reckless, trouble>>
      /\ task' = IF task.package # task.version /\ Overflows(task.package) THEN Idle
                 ELSE [to("update_version") EXCEPT !.warned = warn]
  BY DEF check_version
<1>2. IsTask(task) /\ task # Idle /\ reckless \subseteq Versions /\ trouble \in 0..MaxTrouble
  BY <1>1, Running DEF ReleaseIInv, StoresOK, Steps
<1>3. CASE task.package # task.version /\ Overflows(task.package)
  BY <1>1, <1>2, <1>3, EndKeeps
<1>4. CASE ~(task.package # task.version /\ Overflows(task.package))
  <2> HIDE DEF warn
  <2>0. warn \in BOOLEAN
    BY DEF warn
  <2>1. IsTask(to("update_version"))
    BY <1>2, TaskFields DEF Steps
  <2>2. IsTask(task') /\ task'.pc = "update_version" /\ task'.package = task.package
        /\ task'.dry_run = task.dry_run /\ task'.version = task.version /\ task'.warned = warn
        /\ task'.create_commit = task.create_commit
    BY <1>1, <1>2, <1>4, <2>0, <2>1, TaskFields DEF Steps, IsTask
  <2>3. IsTask(task)'
    BY <1>1, <2>2 DEF IsTask
  <2>4. StoresOK' /\ CommitsOK' /\ PublishedOK'
    BY <1>1, <1>2, <2>3, StoresFrame
  <2>5. tree' = tree /\ head' = head
    BY <1>1 DEF repo
  <2>6. task.package \in Semver /\ task.version \in Semver
    BY <1>2, ReleaseAssumption DEF IsTask
  <2>7. ~warn /\ task.package # task.version => Precedes(task.package, task.version)
    BY <1>4, <2>6, NextPrecedes DEF warn
  <2>8. TaskOK'
    BY <1>1, <1>2, <2>2, <2>5, <2>7 DEF ReleaseIInv, TaskOK, RunOK, wet, Careful
  <2> QED BY <2>4, <2>8 DEF ReleaseIInv
<1> QED BY <1>3, <1>4

LEMMA SkipCommitKeeps == ASSUME ReleaseIInv, skip_commit PROVE ReleaseIInv'
<1>1. /\ task.pc = "update_version" /\ task.package = task.version
      /\ task' = to("changes") /\ UNCHANGED <<name, repo, remote, reckless, trouble>>
  BY DEF skip_commit
<1>2. IsTask(task) /\ task # Idle /\ reckless \subseteq Versions /\ trouble \in 0..MaxTrouble
  BY <1>1, Running DEF ReleaseIInv, StoresOK, Steps
<1>3. IsTask(task') /\ task'.pc = "changes" /\ task'.package = task.package
      /\ task'.dry_run = task.dry_run /\ task'.version = task.version
      /\ task'.create_commit = task.create_commit
  BY <1>1, <1>2, TaskFields DEF Steps
<1>4. IsTask(task)'
  BY <1>1, <1>3 DEF IsTask
<1>5. StoresOK' /\ CommitsOK' /\ PublishedOK'
  BY <1>1, <1>2, <1>4, StoresFrame
<1>6. tree' = tree /\ head' = head
  BY <1>1 DEF repo
<1>7. TaskOK'
  BY <1>1, <1>2, <1>3, <1>6 DEF ReleaseIInv, TaskOK, RunOK, wet, Careful, NamesVersion
<1> QED BY <1>5, <1>7 DEF ReleaseIInv

LEMMA FinishKeeps == ASSUME ReleaseIInv, finish PROVE ReleaseIInv'
<1>1. trouble \in 0..MaxTrouble
  BY DEF ReleaseIInv, StoresOK
<1> QED BY <1>1, EndKeeps DEF finish

-----------------------------------------------------------------------------
(* Steps that change the working tree. *)

LEMMA TreeFrame ==
    ASSUME ReleaseIInv, UNCHANGED <<name, head, tags, remote, reckless, trouble>>,
           IsSnapshot(tree)', task' = Idle \/ IsTask(task)',
           \A v \in Versions : HasTitle(tree.log, v) => HasTitle(tree'.log, v)
    PROVE  StoresOK' /\ CommitsOK' /\ PublishedOK'
<1>1. UNCHANGED <<name, head, tags, origin, originTags, crates, releases, reckless, trouble>>
  BY DEF remote
<1>2. StoresOK'
  BY <1>1 DEF ReleaseIInv, StoresOK, IsSnapshot
<1>3. CommitsOK'
  BY <1>1 DEF ReleaseIInv, CommitsOK, NamesVersion
<1>4. PublishedOK'
  BY <1>1 DEF ReleaseIInv, PublishedOK, IsReleaseOf, Titled, publish_only
<1> QED BY <1>2, <1>3, <1>4

LEMMA UpdateVersionKeeps == ASSUME ReleaseIInv, update_version PROVE ReleaseIInv'
<1>1. /\ task.pc = "update_version" /\ task.package # task.version
      /\ tree' = IF wet THEN [tree EXCEPT !.version = task.version] ELSE tree
      /\ task' = [to("update_dependants") EXCEPT !.package = task.version, !.create_commit = TRUE,
                                                 !.todo = Manifests[name]]
      /\ UNCHANGED <<name, head, tags, remote, reckless, trouble>>
  BY DEF update_version
<1>2. IsTask(task) /\ task # Idle /\ IsSnapshot(tree)
  BY <1>1, Running DEF ReleaseIInv, StoresOK, Steps
<1>3. task.version \in Semver
  BY <1>2, ReleaseAssumption DEF IsTask
<1>4. IsTask(to("update_dependants"))
  BY <1>2, TaskFields DEF Steps
<1>5. IsTask(task') /\ task'.pc = "update_dependants" /\ task'.package = task.version
      /\ task'.dry_run = task.dry_run /\ task'.version = task.version
      /\ task'.create_commit = TRUE /\ task'.todo = Manifests[name]
  BY <1>1, <1>2, <1>3, <1>4, TaskFields DEF Steps, IsTask
<1>6. IsTask(task)'
  BY <1>1, <1>5 DEF IsTask
<1>7. /\ tree'.log = tree.log /\ tree'.deps = tree.deps /\ (wet => tree'.version = task.version)
      /\ IsSnapshot(tree')
  BY <1>1, <1>2, <1>3 DEF IsSnapshot
<1>8. IsSnapshot(tree)'
  BY <1>1, <1>7 DEF IsSnapshot
<1>9. StoresOK' /\ CommitsOK' /\ PublishedOK'
  BY <1>1, <1>6, <1>7, <1>8, TreeFrame
<1>10. TaskOK'
  BY <1>1, <1>2, <1>5, <1>7 DEF TaskOK, RunOK, wet
<1> QED BY <1>9, <1>10 DEF ReleaseIInv

LEMMA UpdateDependantsKeeps == ASSUME ReleaseIInv, update_dependants PROVE ReleaseIInv'
<1>1. task.pc = "update_dependants" /\ UNCHANGED <<name, head, tags, remote, reckless, trouble>>
  BY DEF update_dependants
<1>2. IsTask(task) /\ task # Idle /\ IsSnapshot(tree)
  BY <1>1, Running DEF ReleaseIInv, StoresOK, Steps
<1>3. task.version \in Semver
  BY <1>2, ReleaseAssumption DEF IsTask
<1>4. /\ task.package = task.version /\ task.create_commit
      /\ wet => task.package = tree.version /\ \A m \in Manifests[name] \ task.todo :
                                                   tree.deps[m].version = task.version
  BY <1>1, <1>2 DEF ReleaseIInv, TaskOK, RunOK
<1>5. ASSUME NEW m \in task.todo,
             tree' = IF ~wet THEN tree
                     ELSE [tree EXCEPT !.deps[m] = [version |-> task.version,
                                                    exact |-> prerelease \/ publish_only]],
             task' = [task EXCEPT !.todo = @ \ {m}]
      PROVE  ReleaseIInv'
  <2>1. IsTask(task') /\ task'.pc = task.pc /\ task'.package = task.package
        /\ task'.dry_run = task.dry_run /\ task'.version = task.version
        /\ task'.create_commit = task.create_commit /\ task'.todo = task.todo \ {m}
    BY <1>2, <1>5 DEF IsTask
  <2>2. IsTask(task)'
    BY <1>1, <2>1 DEF IsTask
  <2> DEFINE exact == prerelease \/ publish_only
             dep == [version |-> task.version, exact |-> exact]
  <2>3. dep \in Dependency /\ dep.version = task.version
    <3>1. exact \in BOOLEAN
      OBVIOUS
    <3> HIDE DEF exact
    <3> QED BY <1>3, <3>1 DEF Dependency
  <2>4. m \in Manifests[name]
    BY <1>2, <1>5 DEF IsTask
  <2>5. tree' = IF ~wet THEN tree ELSE [tree EXCEPT !.deps = [tree.deps EXCEPT ![m] = dep]]
    BY <1>5
  <2> HIDE DEF dep
  <2>6. /\ IsSnapshot(tree') /\ tree'.log = tree.log /\ tree'.version = tree.version
        /\ wet => tree'.deps = [tree.deps EXCEPT ![m] = dep]
    BY <1>2, <2>3, <2>4, <2>5 DEF IsSnapshot
  <2>7. IsSnapshot(tree)'
    BY <1>1, <2>6 DEF IsSnapshot
  <2>8. StoresOK' /\ CommitsOK' /\ PublishedOK'
    BY <1>1, <2>2, <2>6, <2>7, TreeFrame
  <2>9. wet => \A k \in Manifests[name] \ task'.todo : tree'.deps[k].version = task.version
    <3> SUFFICES ASSUME wet, NEW k \in Manifests[name] \ task'.todo
                 PROVE  tree'.deps[k].version = task.version
      OBVIOUS
    <3>1. tree.deps \in [Manifests[name] -> Dependency]
      BY <1>2 DEF IsSnapshot
    <3>2. CASE k = m
      BY <2>3, <2>4, <2>6, <3>1, <3>2
    <3>3. CASE k # m
      <4>1. tree'.deps[k] = tree.deps[k] /\ k \notin task.todo
        BY <2>1, <2>4, <2>6, <3>1, <3>3
      <4> QED BY <1>4, <4>1
    <3> QED BY <3>2, <3>3
  <2>10. TaskOK'
    BY <1>1, <1>4, <2>1, <2>6, <2>9 DEF TaskOK, RunOK, wet
  <2> QED BY <2>8, <2>10 DEF ReleaseIInv
<1>6. CASE task.todo = {} /\ task' = to("changes") /\ tree' = tree
  <2>1. IsTask(task') /\ task'.pc = "changes" /\ task'.package = task.package
        /\ task'.dry_run = task.dry_run /\ task'.version = task.version
        /\ task'.create_commit = task.create_commit
    BY <1>2, <1>6, TaskFields DEF Steps
  <2>2. IsTask(task)' /\ IsSnapshot(tree)'
    BY <1>1, <1>2, <1>6, <2>1 DEF IsTask, IsSnapshot
  <2>3. StoresOK' /\ CommitsOK' /\ PublishedOK'
    BY <1>1, <1>6, <2>2, TreeFrame
  <2>4. wet => NamesVersion(tree, task.version)'
    BY <1>1, <1>4, <1>6, <2>1 DEF NamesVersion
  <2>5. TaskOK'
    BY <1>4, <1>6, <2>1, <2>4 DEF TaskOK, RunOK, wet
  <2> QED BY <2>3, <2>5 DEF ReleaseIInv
<1> QED BY <1>5, <1>6 DEF update_dependants

\* Taking the changes gives the changelog the title that a release needs.
LEMMA CollectChangesKeeps == ASSUME ReleaseIInv, collect_changes PROVE ReleaseIInv'
<1> DEFINE then == IF task.create_commit THEN "commit" ELSE "publish"
<1>1. task.pc = "changes" /\ UNCHANGED <<name, head, tags, remote, reckless, trouble>>
  BY DEF collect_changes
<1>2. IsTask(task) /\ task # Idle /\ IsSnapshot(tree) /\ then \in Steps
  BY <1>1, Running DEF ReleaseIInv, StoresOK, Steps
<1>3. task.version \in Semver
  BY <1>2, ReleaseAssumption DEF IsTask
<1>4. /\ task.package = task.version /\ task.create_commit \in BOOLEAN
      /\ wet => /\ task.package = tree.version
                /\ task.create_commit => NamesVersion(tree, task.version)
                /\ ~task.create_commit /\ Careful => tree = head
  BY <1>1, <1>2 DEF ReleaseIInv, TaskOK, RunOK, IsTask
<1>5. ASSUME IsTask(task'), task'.pc = then, task'.package = task.package,
             task'.dry_run = task.dry_run, task'.version = task.version,
             task'.create_commit = task.create_commit,
             IsSnapshot(tree'), tree'.version = tree.version, tree'.deps = tree.deps,
             \A v \in Versions : HasTitle(tree.log, v) => HasTitle(tree'.log, v),
             wet => Titled(tree', task.version)
      PROVE  ReleaseIInv'
  <2>1. IsTask(task)' /\ IsSnapshot(tree)'
    BY <1>1, <1>5 DEF IsTask, IsSnapshot
  <2>2. StoresOK' /\ CommitsOK' /\ PublishedOK'
    BY <1>1, <1>5, <2>1, TreeFrame
  <2>3. wet => Titled(tree, task.version)'
    BY <1>1, <1>5 DEF Titled, publish_only
  <2>4. wet /\ task.create_commit => NamesVersion(tree, task.version)'
    BY <1>1, <1>4, <1>5 DEF NamesVersion
  <2>5. CASE task.create_commit
    <3>1. task'.pc = "commit" /\ task'.create_commit
      BY <1>5, <2>5
    <3> HIDE DEF then
    <3>2. task'.pc # "changes" /\ task'.pc # "publish" /\ task'.package = task'.version
      BY <1>4, <1>5, <3>1
    <3>3. wet' => RunOK'
      BY <1>4, <1>5, <2>3, <2>4, <2>5, <3>1, <3>2 DEF RunOK, wet
    <3> QED BY <2>2, <3>1, <3>2, <3>3 DEF ReleaseIInv, TaskOK
  <2>6. CASE ~task.create_commit
    <3>1. task'.pc = "publish"
      BY <1>5, <2>6
    <3>2. wet /\ Careful' => head'.version = task.version /\ head'.deps = tree'.deps
      BY <1>1, <1>4, <1>5, <2>6 DEF Careful
    <3> QED BY <1>1, <1>2, <1>4, <1>5, <2>2, <2>3, <3>1, <3>2 DEF ReleaseIInv, TaskOK, RunOK, wet, IsTask
  <2> QED BY <2>2, <2>5, <2>6 DEF ReleaseIInv
<1>6. IsTask(to(then)) /\ to(then).pc = then /\ to(then).package = task.package
      /\ to(then).dry_run = task.dry_run /\ to(then).version = task.version
      /\ to(then).create_commit = task.create_commit
  <2> HIDE DEF then
  <2> QED BY <1>2, TaskFields
<1>7. CASE publish_only /\ task' = to(then) /\ tree' = tree
  <2> HIDE DEF then
  <2> QED BY <1>2, <1>5, <1>6, <1>7 DEF Titled
<1>8. CASE /\ ~publish_only /\ ~TitleMissing(tree.log, task.version)
           /\ task' = [to(then) EXCEPT !.changes = changes(tree.log)]
           /\ tree' = IF HasTitle(tree.log, task.version) \/ prerelease \/ ~wet THEN tree
                      ELSE [tree EXCEPT !.log = WithTitle(tree.log, task.version)]
  <2> HIDE DEF then
  <2>1. tree.log \in Seq(Section) /\ tree.log # <<>>
    BY <1>2 DEF IsSnapshot
  <2>2. changes(tree.log) \in Body
    BY <2>1, ChangesType
  <2>3. IsTask(task') /\ task'.pc = then /\ task'.package = task.package
        /\ task'.dry_run = task.dry_run /\ task'.version = task.version
        /\ task'.create_commit = task.create_commit
    BY <1>6, <1>8, <2>2 DEF IsTask
  <2>4. CASE HasTitle(tree.log, task.version) \/ prerelease \/ ~wet
    <3>1. tree' = tree
      BY <1>8, <2>4
    <3>2. wet => Titled(tree', task.version)
      BY <2>4, <3>1 DEF Titled, prerelease
    <3> QED BY <1>2, <1>5, <2>3, <3>1, <3>2
  <2>5. CASE ~(HasTitle(tree.log, task.version) \/ prerelease \/ ~wet)
    <3> DEFINE log == WithTitle(tree.log, task.version)
    <3>1. log \in Seq(Section) /\ log # <<>> /\ HasTitle(log, task.version)
          /\ \A v : HasTitle(tree.log, v) => HasTitle(log, v)
      BY <1>3, <1>8, <2>1, <2>5, TitleAdded DEF prerelease
    <3>2. tree' = [tree EXCEPT !.log = log]
      BY <1>8, <2>5
    <3> HIDE DEF log
    <3>3. /\ IsSnapshot(tree') /\ tree'.version = tree.version /\ tree'.deps = tree.deps
          /\ tree'.log = log
      BY <1>2, <3>1, <3>2 DEF IsSnapshot
    <3>4. Titled(tree', task.version)
      BY <3>1, <3>3 DEF Titled
    <3> QED BY <1>5, <2>3, <3>1, <3>3, <3>4
  <2> QED BY <2>4, <2>5
<1>9. CASE ~publish_only /\ TitleMissing(tree.log, task.version) /\ task' = Idle /\ tree' = tree
  <2>1. trouble \in 0..MaxTrouble /\ UNCHANGED <<name, repo, remote, reckless>>
    BY <1>1, <1>9 DEF repo, ReleaseIInv, StoresOK
  <2> QED BY <1>1, <1>9, <2>1, EndKeeps
<1> QED BY <1>7, <1>8, <1>9 DEF collect_changes

LEMMA DiscardKeeps == ASSUME ReleaseIInv, Discard PROVE ReleaseIInv'
<1>1. task = Idle /\ tree' = head /\ UNCHANGED <<name, head, tags, remote, task, reckless, trouble>>
  BY DEF Discard
<1>2. UNCHANGED <<origin, originTags, crates, releases>>
  BY <1>1 DEF remote
<1>3. StoresOK'
  BY <1>1, <1>2 DEF ReleaseIInv, StoresOK, IsSnapshot
<1>4. CommitsOK'
  BY <1>1 DEF ReleaseIInv, CommitsOK, NamesVersion
<1>5. PublishedOK'
  BY <1>1, <1>2 DEF ReleaseIInv, PublishedOK, IsReleaseOf, Titled, publish_only
<1>6. TaskOK'
  BY <1>1 DEF TaskOK, Idle
<1> QED BY <1>3, <1>4, <1>5, <1>6 DEF ReleaseIInv

-----------------------------------------------------------------------------
(* Steps that change the last commit. *)

LEMMA DevelopKeeps == ASSUME ReleaseIInv, Develop PROVE ReleaseIInv'
<1>1. /\ task = Idle /\ tree = head /\ tree' = head'
      /\ UNCHANGED <<name, tags, remote, task, reckless, trouble>>
  BY DEF Develop
<1>2. PICK n \in Notes : head' = [head EXCEPT !.log[1].notes = @ \cup {n}]
  BY DEF Develop
<1>3. UNCHANGED <<origin, originTags, crates, releases>>
  BY <1>1 DEF remote
<1>4. IsSnapshot(head)
  BY DEF ReleaseIInv, StoresOK
<1> DEFINE log == [head.log EXCEPT ![1].notes = @ \cup {n}]
<1>5. head' = [head EXCEPT !.log = log]
  BY <1>2
<1>6. log \in Seq(Section) /\ log # <<>> /\ \A v : HasTitle(head.log, v) <=> HasTitle(log, v)
  <2>1. head.log \in Seq(Section) /\ head.log # <<>>
    BY <1>4 DEF IsSnapshot
  <2> QED BY <2>1, NoteAdded
<1> HIDE DEF log
<1>7. /\ IsSnapshot(head') /\ head'.version = head.version /\ head'.deps = head.deps /\ head'.log = log
  BY <1>4, <1>5, <1>6 DEF IsSnapshot
<1>8. StoresOK'
  BY <1>1, <1>3, <1>7 DEF ReleaseIInv, StoresOK, IsSnapshot
<1>9. CommitsOK'
  BY <1>1, <1>7 DEF ReleaseIInv, CommitsOK, NamesVersion
<1>10. PublishedOK'
  BY <1>1, <1>3, <1>6, <1>7 DEF ReleaseIInv, PublishedOK, IsReleaseOf, Titled, publish_only
<1>11. TaskOK'
  BY <1>1 DEF TaskOK, Idle
<1> QED BY <1>8, <1>9, <1>10, <1>11 DEF ReleaseIInv

LEMMA CommitKeeps == ASSUME ReleaseIInv, commit PROVE ReleaseIInv'
<1>1. /\ task.pc = "commit" /\ head' = IF wet THEN tree ELSE head
      /\ task' = to("publish") /\ UNCHANGED <<name, tree, tags, remote, reckless, trouble>>
  BY DEF commit
<1>2. IsTask(task) /\ task # Idle /\ IsSnapshot(tree)
  BY <1>1, Running DEF ReleaseIInv, StoresOK, Steps
<1>3. IsTask(task') /\ task'.pc = "publish" /\ task'.package = task.package
      /\ task'.dry_run = task.dry_run /\ task'.version = task.version
      /\ task'.create_commit = task.create_commit
  BY <1>1, <1>2, TaskFields DEF Steps
<1>4. UNCHANGED <<origin, originTags, crates, releases>>
  BY <1>1 DEF remote
<1>5. /\ task.package = task.version /\ task.create_commit
      /\ wet => /\ task.package = tree.version
                /\ NamesVersion(tree, task.version)
                /\ Titled(tree, task.version)
  BY <1>1, <1>2 DEF ReleaseIInv, TaskOK, RunOK
<1>6. StoresOK'
  BY <1>1, <1>3, <1>4 DEF ReleaseIInv, StoresOK, IsSnapshot, IsTask
<1>7. CommitsOK'
  BY <1>1, <1>5 DEF ReleaseIInv, CommitsOK, NamesVersion
<1>8. PublishedOK'
  <2>1. \A v \in DOMAIN crates : v \in Versions
    BY DEF ReleaseIInv, StoresOK
  <2> QED BY <1>1, <1>4, <2>1 DEF ReleaseIInv, PublishedOK, CommitsOK, IsReleaseOf, Titled, publish_only
<1>9. TaskOK'
  <2>1. wet => Titled(tree, task.version)'
    BY <1>1, <1>3, <1>5 DEF Titled, publish_only
  <2> QED BY <1>1, <1>3, <1>5, <2>1 DEF TaskOK, RunOK, wet
<1> QED BY <1>6, <1>7, <1>8, <1>9 DEF ReleaseIInv

-----------------------------------------------------------------------------
(* Steps that publish. *)

\* What is uploaded is a complete release of the version the run is for.
LEMMA PublishKeeps == ASSUME ReleaseIInv, publish PROVE ReleaseIInv'
<1>1. /\ task.pc = "publish" /\ task' = AfterPublish
      /\ UNCHANGED <<name, repo, origin, originTags, releases, reckless, trouble>>
  BY DEF publish
<1>2. IsTask(task) /\ task # Idle /\ IsSnapshot(tree)
  BY <1>1, Running DEF ReleaseIInv, StoresOK, Steps
<1>3. /\ IsTask(task') /\ task'.pc \in {"push", "tag"} /\ task'.package = task.package
      /\ task'.dry_run = task.dry_run /\ task'.version = task.version
  BY <1>1, <1>2, TaskFields DEF Steps, AfterPublish
<1>4. UNCHANGED <<tree, head, tags>>
  BY <1>1 DEF repo
<1>5. /\ task.package = task.version
      /\ wet => /\ task.package = tree.version /\ Titled(tree, task.version)
                /\ Careful => head.version = task.version /\ head.deps = tree.deps
  BY <1>1, <1>2 DEF ReleaseIInv, TaskOK, RunOK
<1>6. NamesVersion(head, head.version)
  BY DEF ReleaseIInv, CommitsOK
<1> DEFINE v == task.version
<1>7. \/ crates' = crates /\ (wet => v \in DOMAIN crates)
      \/ /\ wet /\ v \notin DOMAIN crates /\ crates' = With(crates, v, tree)
         /\ tree.version = head.version /\ tree.log = head.log
  BY <1>5 DEF publish, is_published, CargoRefuses, upload
<1>8. /\ DOMAIN crates \subseteq DOMAIN crates' /\ DOMAIN crates' \subseteq DOMAIN crates \cup {v}
      /\ wet => v \in DOMAIN crates'
  BY <1>7 DEF With
<1>9. StoresOK'
  BY <1>1, <1>2, <1>3, <1>4, <1>8 DEF ReleaseIInv, StoresOK, IsSnapshot, IsTask
<1>10. CommitsOK'
  BY <1>1, <1>4 DEF ReleaseIInv, CommitsOK, NamesVersion
<1>11. ASSUME NEW w \in DOMAIN crates' \ reckless'
       PROVE  IsReleaseOf(crates'[w], w) /\ Titled(head, w)
  <2>1. CASE w \in DOMAIN crates
    <3>1. crates'[w] = crates[w]
      BY <1>7, <2>1 DEF With
    <3> QED BY <1>1, <1>11, <2>1, <3>1 DEF ReleaseIInv, PublishedOK
  <2>2. CASE w \notin DOMAIN crates
    <3>1. /\ wet /\ w = v /\ crates'[w] = tree /\ Careful
          /\ tree.version = head.version /\ tree.log = head.log
      BY <1>1, <1>7, <1>8, <1>11, <2>2 DEF With, Careful
    <3>2. Titled(head, w)
      BY <1>5, <3>1 DEF Titled
    <3>3. DOMAIN tree.deps = Manifests[name]
      BY <1>2 DEF IsSnapshot
    <3>4. IsReleaseOf(tree, w)
      BY <1>5, <1>6, <3>1, <3>2, <3>3 DEF IsReleaseOf, NamesVersion, Titled, publish_only
    <3> QED BY <3>1, <3>2, <3>4
  <2> QED BY <2>1, <2>2
<1>12. PublishedOK'
  <2>1. (\A w \in DOMAIN crates \ reckless : IsReleaseOf(crates[w], w) /\ Titled(head, w))'
    BY <1>1, <1>4, <1>11 DEF IsReleaseOf, Titled, publish_only
  <2>2. (\A w \in DOMAIN tags \ reckless : IsReleaseOf(tags[w], w))'
    BY <1>1, <1>4 DEF ReleaseIInv, PublishedOK, IsReleaseOf
  <2>3. DOMAIN releases' \subseteq DOMAIN crates' \cap DOMAIN originTags'
    BY <1>1, <1>8 DEF ReleaseIInv, PublishedOK
  <2> QED BY <2>1, <2>2, <2>3 DEF PublishedOK
<1>13. TaskOK'
  BY <1>1, <1>3, <1>4, <1>5, <1>8 DEF TaskOK, RunOK, wet, Careful
<1> QED BY <1>9, <1>10, <1>12, <1>13 DEF ReleaseIInv

LEMMA TagKeeps == ASSUME ReleaseIInv, tag PROVE ReleaseIInv'
<1>1. /\ task.pc = "tag" /\ task' = to("push")
      /\ tags' = IF task.version \in DOMAIN tags \/ ~wet THEN tags ELSE With(tags, task.version, head)
      /\ UNCHANGED <<name, tree, head, remote, reckless, trouble>>
  BY DEF tag
<1>2. IsTask(task) /\ task # Idle /\ IsSnapshot(head)
  BY <1>1, Running DEF ReleaseIInv, StoresOK, Steps
<1>3. /\ IsTask(task') /\ task'.pc = "push" /\ task'.package = task.package
      /\ task'.dry_run = task.dry_run /\ task'.version = task.version
  BY <1>1, <1>2, TaskFields DEF Steps
<1>4. UNCHANGED <<origin, originTags, crates, releases>>
  BY <1>1 DEF remote
<1>5. /\ task.package = task.version
      /\ wet => /\ task.package = tree.version /\ task.version \in DOMAIN crates
                /\ Careful => head.version = task.version
  BY <1>1, <1>2 DEF ReleaseIInv, TaskOK, RunOK
<1> DEFINE v == task.version
<1>6. DOMAIN tags' \subseteq DOMAIN tags \cup {v}
  BY <1>1 DEF With
<1>7. StoresOK'
  BY <1>1, <1>2, <1>3, <1>4, <1>6 DEF ReleaseIInv, StoresOK, IsSnapshot, IsTask
<1>8. CommitsOK'
  BY <1>1 DEF ReleaseIInv, CommitsOK, NamesVersion
<1>9. ASSUME NEW w \in DOMAIN tags' \ reckless' PROVE IsReleaseOf(tags'[w], w)
  <2>1. CASE w \in DOMAIN tags
    <3>1. tags'[w] = tags[w]
      BY <1>1, <2>1 DEF With
    <3> QED BY <1>1, <1>9, <2>1, <3>1 DEF ReleaseIInv, PublishedOK
  <2>2. CASE w \notin DOMAIN tags
    <3>1. wet /\ w = v /\ tags'[w] = head /\ Careful /\ v \in DOMAIN crates \ reckless
      BY <1>1, <1>5, <1>9, <2>2 DEF With, Careful
    <3>2. Titled(head, v)
      BY <3>1 DEF ReleaseIInv, PublishedOK
    <3>3. DOMAIN head.deps = Manifests[name] /\ NamesVersion(head, head.version)
      BY <1>2 DEF IsSnapshot, ReleaseIInv, CommitsOK
    <3>4. IsReleaseOf(head, w)
      BY <1>5, <3>1, <3>2, <3>3 DEF IsReleaseOf, NamesVersion, Titled, publish_only
    <3> QED BY <3>1, <3>4
  <2> QED BY <2>1, <2>2
<1>10. PublishedOK'
  <2>1. (\A w \in DOMAIN tags \ reckless : IsReleaseOf(tags[w], w))'
    BY <1>1, <1>9 DEF IsReleaseOf
  <2> QED BY <1>1, <1>4, <2>1 DEF ReleaseIInv, PublishedOK, IsReleaseOf, Titled, publish_only
<1>11. TaskOK'
  BY <1>1, <1>3, <1>4, <1>5 DEF TaskOK, RunOK, wet, Careful
<1> QED BY <1>7, <1>8, <1>10, <1>11 DEF ReleaseIInv

\* Pushing and announcing touch what is at the remote only.
LEMMA RemoteFrame ==
    ASSUME ReleaseIInv, UNCHANGED <<name, repo, crates, reckless>>,
           trouble' \in 0..MaxTrouble,
           task' = Idle \/ IsTask(task)', IsSnapshot(origin'),
           DOMAIN originTags' \subseteq Versions,
           DOMAIN originTags \subseteq DOMAIN originTags',
           DOMAIN releases' \subseteq DOMAIN crates' \cap DOMAIN originTags'
    PROVE  StoresOK' /\ CommitsOK' /\ PublishedOK'
<1>1. UNCHANGED <<tree, head, tags>>
  BY DEF repo
<1>2. StoresOK'
  BY <1>1 DEF ReleaseIInv, StoresOK, IsSnapshot
<1>3. CommitsOK'
  BY <1>1 DEF ReleaseIInv, CommitsOK, NamesVersion
<1>4. PublishedOK'
  BY <1>1 DEF ReleaseIInv, PublishedOK, IsReleaseOf, Titled, publish_only
<1> QED BY <1>2, <1>3, <1>4

LEMMA PushBranchKeeps == ASSUME ReleaseIInv, push_branch PROVE ReleaseIInv'
<1>1. /\ task' = Idle /\ origin' \in {head, origin}
      /\ UNCHANGED <<name, repo, originTags, crates, releases, reckless, trouble>>
  BY DEF push_branch
<1>2. /\ IsSnapshot(head) /\ IsSnapshot(origin) /\ DOMAIN originTags \subseteq Versions
      /\ trouble \in 0..MaxTrouble /\ DOMAIN releases \subseteq DOMAIN crates \cap DOMAIN originTags
  BY DEF ReleaseIInv, StoresOK, PublishedOK
<1>3. IsSnapshot(origin')
  BY <1>1, <1>2
<1>4. StoresOK' /\ CommitsOK' /\ PublishedOK'
  BY <1>1, <1>2, <1>3, RemoteFrame
<1>5. TaskOK'
  BY <1>1 DEF TaskOK
<1> QED BY <1>4, <1>5 DEF ReleaseIInv

LEMMA PushPartlyKeeps == ASSUME ReleaseIInv, push_partly PROVE ReleaseIInv'
<1>1. /\ task.pc = "push" /\ task' = Idle /\ origin' \in {head, origin}
      /\ DOMAIN originTags \subseteq DOMAIN originTags'
      /\ DOMAIN originTags' \subseteq DOMAIN originTags \cup {task.version}
      /\ trouble < MaxTrouble /\ trouble' = trouble + 1
      /\ UNCHANGED <<name, repo, crates, releases, reckless>>
  BY DEF push_partly, With
<1>2. /\ IsSnapshot(head) /\ IsSnapshot(origin) /\ DOMAIN originTags \subseteq Versions
      /\ trouble \in 0..MaxTrouble /\ DOMAIN releases \subseteq DOMAIN crates \cap DOMAIN originTags
  BY DEF ReleaseIInv, StoresOK, PublishedOK
<1>3. task.version \in Versions
  BY <1>1, Running DEF IsTask, Steps
<1>4. IsSnapshot(origin') /\ trouble' \in 0..MaxTrouble
  BY <1>1, <1>2, BoundType
<1>5. StoresOK' /\ CommitsOK' /\ PublishedOK'
  BY <1>1, <1>2, <1>3, <1>4, RemoteFrame
<1>6. TaskOK'
  BY <1>1 DEF TaskOK
<1> QED BY <1>5, <1>6 DEF ReleaseIInv

LEMMA PushKeeps == ASSUME ReleaseIInv, push PROVE ReleaseIInv'
<1>1. /\ task.pc = "push" /\ origin' \in {head, origin}
      /\ DOMAIN originTags \subseteq DOMAIN originTags'
      /\ DOMAIN originTags' \subseteq DOMAIN originTags \cup {task.version}
      /\ wet => task.version \in DOMAIN originTags'
      /\ task' = to("done") \/ task' = to("release")
      /\ UNCHANGED <<name, repo, crates, releases, reckless, trouble>>
  BY DEF push, With
<1>2. /\ IsSnapshot(head) /\ IsSnapshot(origin) /\ DOMAIN originTags \subseteq Versions
      /\ trouble \in 0..MaxTrouble /\ DOMAIN releases \subseteq DOMAIN crates \cap DOMAIN originTags
  BY DEF ReleaseIInv, StoresOK, PublishedOK
<1>3. IsTask(task) /\ task # Idle /\ task.version \in Versions
  BY <1>1, Running DEF IsTask, Steps
<1>4. /\ IsTask(task') /\ task'.pc \in {"done", "release"} /\ task'.package = task.package
      /\ task'.dry_run = task.dry_run /\ task'.version = task.version
  BY <1>1, <1>3, TaskFields DEF Steps
<1>5. IsSnapshot(origin') /\ IsTask(task)'
  BY <1>1, <1>2, <1>4 DEF IsTask
<1>6. StoresOK' /\ CommitsOK' /\ PublishedOK'
  BY <1>1, <1>2, <1>3, <1>5, RemoteFrame
<1>7. tree' = tree
  BY <1>1 DEF repo
<1>8. TaskOK'
  BY <1>1, <1>3, <1>4, <1>7 DEF ReleaseIInv, TaskOK, RunOK, wet
<1> QED BY <1>6, <1>8 DEF ReleaseIInv

LEMMA ReleaseKeeps == ASSUME ReleaseIInv, release PROVE ReleaseIInv'
<1>1. /\ task.pc = "release" /\ task' = to("done")
      /\ releases' = IF wet THEN With(releases, task.version, task.changes) ELSE releases
      /\ UNCHANGED <<name, repo, origin, originTags, crates, reckless, trouble>>
  BY DEF release
<1>2. /\ IsSnapshot(origin) /\ DOMAIN originTags \subseteq Versions
      /\ trouble \in 0..MaxTrouble /\ DOMAIN releases \subseteq DOMAIN crates \cap DOMAIN originTags
  BY DEF ReleaseIInv, StoresOK, PublishedOK
<1>3. IsTask(task) /\ task # Idle
  BY <1>1, Running DEF Steps
<1>4. /\ IsTask(task') /\ task'.pc = "done" /\ task'.package = task.package
      /\ task'.dry_run = task.dry_run /\ task'.version = task.version
  BY <1>1, <1>3, TaskFields DEF Steps
<1>5. IsTask(task)'
  BY <1>1, <1>4 DEF IsTask
<1>6. /\ task.package = task.version
      /\ wet => /\ task.package = tree.version
                /\ task.version \in DOMAIN crates \cap DOMAIN originTags
  BY <1>1, <1>3 DEF ReleaseIInv, TaskOK, RunOK
<1>7. DOMAIN releases' \subseteq DOMAIN crates' \cap DOMAIN originTags'
  BY <1>1, <1>2, <1>6 DEF With
<1>8. StoresOK' /\ CommitsOK' /\ PublishedOK'
  BY <1>1, <1>2, <1>5, <1>7, RemoteFrame
<1>9. tree' = tree
  BY <1>1 DEF repo
<1>10. TaskOK'
  BY <1>1, <1>4, <1>6, <1>9 DEF TaskOK, RunOK, wet
<1> QED BY <1>8, <1>10 DEF ReleaseIInv

-----------------------------------------------------------------------------

\* What every sequence of runs, interrupted anywhere, keeps: commits are whole,
\* what is published is whole, and each step of a run finds what the steps
\* before it did (ReleaseTask::run).
THEOREM ReleaseInvariant == ReleaseSpec => []ReleaseIInv
<1>1. ReleaseInit => ReleaseIInv
  <2> SUFFICES ASSUME ReleaseInit PROVE ReleaseIInv
    OBVIOUS
  <2>1. PICK s \in Initial : tree = [version |-> s.version, log |-> s.log,
                                     deps |-> [m \in Manifests[name] |->
                                                  [version |-> s.version, exact |-> FALSE]]]
    BY DEF ReleaseInit
  <2>2. s.version \in Semver /\ s.log \in Seq(Section) /\ s.log # <<>>
    BY ReleaseAssumption
  <2>3. [version |-> s.version, exact |-> FALSE] \in Dependency
    BY <2>2 DEF Dependency
  <2>4. /\ head = tree /\ origin = tree /\ name \in DOMAIN Manifests
        /\ tags = <<>> /\ originTags = <<>> /\ crates = <<>> /\ releases = <<>>
        /\ task = Idle /\ reckless = {} /\ trouble = 0
    BY DEF ReleaseInit
  <2>5. IsSnapshot(tree) /\ NamesVersion(tree, tree.version)
    BY <2>1, <2>2, <2>3 DEF IsSnapshot, NamesVersion
  <2>6. /\ DOMAIN tags = {} /\ DOMAIN originTags = {} /\ DOMAIN crates = {} /\ DOMAIN releases = {}
    BY <2>4
  <2>7. StoresOK
    BY <2>4, <2>5, <2>6, BoundType DEF StoresOK
  <2>8. CommitsOK
    BY <2>4, <2>5 DEF CommitsOK
  <2>9. PublishedOK
    BY <2>6 DEF PublishedOK
  <2>10. TaskOK
    BY <2>4 DEF TaskOK
  <2> QED BY <2>7, <2>8, <2>9, <2>10 DEF ReleaseIInv
<1>2. ReleaseIInv /\ [ReleaseNext]_releaseVars => ReleaseIInv'
  <2> SUFFICES ASSUME ReleaseIInv, [ReleaseNext]_releaseVars PROVE ReleaseIInv'
    OBVIOUS
  <2>1. CASE UNCHANGED releaseVars
    <3>1. UNCHANGED <<name, tree, head, tags, origin, originTags, crates, releases, task, reckless, trouble>>
      BY <2>1 DEF releaseVars, repo, remote
    <3>2. StoresOK'
      BY <3>1 DEF ReleaseIInv, StoresOK, IsSnapshot, IsTask
    <3>3. CommitsOK' /\ PublishedOK'
      BY <3>1 DEF ReleaseIInv, CommitsOK, PublishedOK, NamesVersion, IsReleaseOf, Titled, publish_only
    <3>4. TaskOK'
      BY <3>1 DEF ReleaseIInv, TaskOK, RunOK, wet, Careful, NamesVersion, Titled, publish_only
    <3> QED BY <3>2, <3>3, <3>4 DEF ReleaseIInv
  <2>2. CASE \E v \in Versions, dry_run \in BOOLEAN : new(v, dry_run)
    BY <2>2, NewKeeps
  <2>3. CASE Step
    BY <2>3, IsReleasedKeeps, GitStatusKeeps, CheckVersionKeeps, UpdateVersionKeeps, SkipCommitKeeps,
       UpdateDependantsKeeps, CollectChangesKeeps, CommitKeeps, PublishKeeps, PushBranchKeeps,
       TagKeeps, PushKeeps, PushPartlyKeeps, ReleaseKeeps, FinishKeeps DEF Step
  <2>4. CASE Stop \/ Develop \/ Discard
    BY <2>4, StopKeeps, DevelopKeeps, DiscardKeeps
  <2> QED BY <2>1, <2>2, <2>3, <2>4 DEF ReleaseNext
<1> QED BY <1>1, <1>2, PTL DEF ReleaseSpec

\* What is uploaded or tagged is a complete release unless somebody went on over
\* uncommitted changes, what GitHub announces is on crates.io and tagged at the
\* remote, and nobody goes back to a smaller version unwarned (ReleaseTask::run).
THEOREM SoundReleases == ReleaseSpec => []ReleasesAreSound
<1>1. ReleaseIInv => ReleasesAreSound
  <2> SUFFICES ASSUME ReleaseIInv PROVE ReleasesAreSound
    OBVIOUS
  <2>1. ReleaseTypeOK
    <3>1. task # Idle => task.version \in Versions /\ task.todo \subseteq Manifests[name]
      BY DEF ReleaseIInv, StoresOK, IsTask
    <3>2. ASSUME NEW s \in {tree, head, origin}
          PROVE  /\ s.version \in Semver /\ DOMAIN s.deps = Manifests[name]
                 /\ s.log \in Seq(Section) /\ s.log # <<>>
      BY <3>2 DEF ReleaseIInv, StoresOK, IsSnapshot
    <3> QED BY <3>1, <3>2 DEF ReleaseIInv, StoresOK, ReleaseTypeOK
  <2>2. /\ \A v \in DOMAIN crates \ reckless : IsReleaseOf(crates[v], v)
        /\ \A v \in DOMAIN tags \ reckless : IsReleaseOf(tags[v], v)
        /\ DOMAIN releases \subseteq DOMAIN crates \cap DOMAIN originTags
    BY DEF ReleaseIInv, PublishedOK
  <2>3. task # Idle /\ task.pc = "update_version" /\ ~task.warned /\ task.package # task.version
          => Precedes(task.package, task.version)
    BY DEF ReleaseIInv, TaskOK
  <2> QED BY <2>1, <2>2, <2>3 DEF ReleasesAreSound
<1> QED BY <1>1, ReleaseInvariant, PTL

=============================================================================
