------------------------------ MODULE Release ------------------------------
(***************************************************************************)
(* `cargo xtask release`: ReleaseTask::run of xtask/src/release.rs and the *)
(* Package methods of xtask/src/cargo.rs it calls.                         *)
(*                                                                         *)
(* The task changes four stores one after the other: the working tree, the *)
(* git repository, crates.io and GitHub.  A run may stop between any two   *)
(* of its steps (an error of a command, a refusal, a crash, an answer that *)
(* is lost after the request took effect), loses what it had in memory,    *)
(* and may be started again, for the same version or for another.          *)
(*                                                                         *)
(* A snapshot is what the task reads and writes of the repository: the     *)
(* crate's version, the version each manifest in Manifests asks for, and   *)
(* the sections of the changelog, newest first.  A section's `for` is      *)
(* empty for "# [unreleased]"; `open` marks "(unreleased)" titles.         *)
(* Stores that may lack a version are functions on the versions they have. *)
(***************************************************************************)
EXTENDS Integers, Sequences, FiniteSets

CONSTANTS Versions,    \* versions somebody may try to release
          Initial,     \* snapshots the repository may start with
          Goal,        \* the version to release, for liveness
          Manifests,   \* crate name |-> the manifests that name its version
          Notes,       \* entries developers write in the changelog
          MaxTrouble   \* bound: how often runs stop early or are not attempts at Goal

Semver == [major: Nat, minor: Nat, patch: Nat, pre: {<<>>} \cup ({"alpha", "beta"} \X (1..255))]

final(v) == [v EXCEPT !.pre = <<>>]

Section == [for: SUBSET Semver, open: BOOLEAN, notes: SUBSET (Notes \cup {"No changes"})]

ASSUME ReleaseAssumption ==
    /\ Versions \subseteq Semver /\ Goal \in Versions
    /\ \A s \in Initial : s.version \in Semver /\ s.log \in Seq(Section) /\ s.log # <<>>
    /\ "No changes" \notin Notes /\ MaxTrouble \in Nat

VARIABLES name,        \* the crate
          tree,        \* the working tree
          head,        \* the last commit
          origin,      \* the branch at the remote
          tags,        \* tag's version |-> the commit it is on
          originTags,  \* the tags at the remote
          crates,      \* version on crates.io |-> what was uploaded
          releases,    \* version with a release on GitHub |-> its body
          task,        \* the run in progress: what is lost when it stops
          reckless,    \* versions somebody released over uncommitted changes
          trouble      \* how often something went wrong so far

repo == <<tree, head, tags>>
remote == <<origin, originTags, crates, releases>>
releaseVars == <<name, repo, remote, task, reckless, trouble>>

Idle == [pc |-> "idle"]

prerelease == task.version.pre # <<>>

publish_only == name = "ruma-macros"

\* What only prints or asks in a dry run.
wet == ~task.dry_run

to(pc) == [task EXCEPT !.pc = pc]

With(f, k, x) == [j \in DOMAIN f \cup {k} |-> IF j = k THEN x ELSE f[j]]

-----------------------------------------------------------------------------
(* Versions. *)

increment_pre_number(v) ==
    [v EXCEPT !.pre = IF v.pre = <<>> THEN <<>> ELSE <<v.pre[1], v.pre[2] + 1>>]

increment_pre_label(v) ==
    [v EXCEPT !.pre = IF v.pre # <<>> /\ v.pre[1] = "alpha" THEN <<"beta", 1>> ELSE v.pre]

add_pre_release(v) == [v EXCEPT !.pre = IF v.pre = <<>> THEN <<"alpha", 1>> ELSE v.pre]

\* The number is a u8: the addition panics in the debug build the task runs in.
Overflows(v) == v.pre # <<>> /\ v.pre[2] = 255

is_next(v, w) ==
    IF v.pre # <<>>
    THEN LET number == increment_pre_number(v)
         IN  w \in {number, increment_pre_label(number), final(number)}
    ELSE LET patch == [v EXCEPT !.patch = @ + 1]
             minor == [v EXCEPT !.minor = @ + 1, !.patch = 0]
             major == [v EXCEPT !.major = @ + 1, !.minor = 0, !.patch = 0]
         IN  \E bump \in {patch, minor, major} : w \in {bump, add_pre_release(bump)}

-----------------------------------------------------------------------------
(* The changelog: Package::changes. *)

HasTitle(log, v) == \E i \in 1..Len(log) : ~log[i].open /\ log[i].for = {final(v)}

\* Neither the version's title nor one to turn into it.
TitleMissing(log, v) == ~HasTitle(log, v) /\ ~(log[1].open /\ log[1].for \subseteq {final(v)})

\* The text between the first title and the next, whatever the first title is.
changes(log) == IF log[1].notes = {} THEN {"No changes"} ELSE log[1].notes

WithTitle(log, v) ==
    <<[for |-> {}, open |-> TRUE, notes |-> {}],
      [for |-> {v}, open |-> FALSE, notes |-> changes(log)]>> \o Tail(log)

-----------------------------------------------------------------------------
(* One action per step of ReleaseTask::run.  Where a step asks, the action *)
(* is what follows a yes; a refusal ends the run and is one way to Stop.   *)

\* What `cargo publish` refuses: changes in the crate's directory that are
\* not committed.  Other manifests of the workspace are not looked at.
CargoRefuses == tree.version # head.version \/ tree.log # head.log

is_published(v) == v \in DOMAIN crates

\* git or cargo refuse what the run asks of them, and always will.
Stuck == \/ task.pc = "commit" /\ wet /\ tree = head
         \/ task.pc = "publish" /\ wet /\ ~is_published(task.package) /\ CargoRefuses

\* ReleaseTask::new reads the version of the package from its manifest.
new(v, dry_run) ==
    /\ task = Idle
    /\ IF v = Goal /\ ~dry_run THEN trouble' = trouble
       ELSE trouble < MaxTrouble /\ trouble' = trouble + 1
    /\ task' = [pc |-> "is_released", version |-> v, dry_run |-> dry_run,
                package |-> tree.version, todo |-> {}, create_commit |-> FALSE,
                changes |-> {}, warned |-> FALSE]
    /\ UNCHANGED <<name, repo, remote, reckless>>

\* Every way to stop early: a failed command, a crash, a refusal.
Stop ==
    /\ task # Idle /\ task' = Idle
    /\ IF Stuck THEN trouble' = trouble ELSE trouble < MaxTrouble /\ trouble' = trouble + 1
    /\ UNCHANGED <<name, repo, remote, reckless>>

is_released ==
    /\ task.pc = "is_released"
    /\ task' = IF task.version \in DOMAIN releases THEN Idle ELSE to("git_status")
    /\ UNCHANGED <<name, repo, remote, reckless, trouble>>

git_status ==
    /\ task.pc = "git_status"
    /\ task' = to("check_version")
    /\ reckless' = IF tree # head THEN reckless \cup {task.version} ELSE reckless
    /\ UNCHANGED <<name, repo, remote, trouble>>

check_version ==
    /\ task.pc = "check_version"
    /\ LET warn == task.package # task.version /\ ~is_next(task.package, task.version)
       IN  task' = IF task.package # task.version /\ Overflows(task.package) THEN Idle
                   ELSE [to("update_version") EXCEPT !.warned = warn]
    /\ UNCHANGED <<name, repo, remote, reckless, trouble>>

update_version ==
    /\ task.pc = "update_version" /\ task.package # task.version
    /\ tree' = IF wet THEN [tree EXCEPT !.version = task.version] ELSE tree
    /\ task' = [to("update_dependants") EXCEPT !.package = task.version, !.create_commit = TRUE,
                                               !.todo = Manifests[name]]
    /\ UNCHANGED <<name, head, tags, remote, reckless, trouble>>

\* The package has the version already, no commit is made.
skip_commit ==
    /\ task.pc = "update_version" /\ task.package = task.version
    /\ task' = to("changes")
    /\ UNCHANGED <<name, repo, remote, reckless, trouble>>

\* One manifest after the other; those of ruma-macros and of pre-releases are exact.
update_dependants ==
    /\ task.pc = "update_dependants"
    /\ \/ \E m \in task.todo :
             /\ tree' = IF ~wet THEN tree
                        ELSE [tree EXCEPT !.deps[m] = [version |-> task.version,
                                                       exact |-> prerelease \/ publish_only]]
             /\ task' = [task EXCEPT !.todo = @ \ {m}]
       \/ task.todo = {} /\ task' = to("changes") /\ tree' = tree
    /\ UNCHANGED <<name, head, tags, remote, reckless, trouble>>

collect_changes ==
    /\ task.pc = "changes"
    /\ LET then == IF task.create_commit THEN "commit" ELSE "publish"
       IN  \/ publish_only /\ task' = to(then) /\ tree' = tree
           \/ /\ ~publish_only /\ ~TitleMissing(tree.log, task.version)
              /\ task' = [to(then) EXCEPT !.changes = changes(tree.log)]
              /\ tree' = IF HasTitle(tree.log, task.version) \/ prerelease \/ ~wet THEN tree
                         ELSE [tree EXCEPT !.log = WithTitle(tree.log, task.version)]
           \/ ~publish_only /\ TitleMissing(tree.log, task.version) /\ task' = Idle /\ tree' = tree
    /\ UNCHANGED <<name, head, tags, remote, reckless, trouble>>

\* Bug: only the crate's own files are committed.
commit_Own ==
    /\ task.pc = "commit" /\ (wet => tree # head)
    /\ head' = IF wet THEN [head EXCEPT !.version = tree.version, !.log = tree.log] ELSE head
    /\ task' = to("publish")
    /\ UNCHANGED <<name, tree, tags, remote, reckless, trouble>>

\* `git commit -a` fails when nothing changed.
commit ==
    /\ task.pc = "commit" /\ (wet => tree # head)
    /\ head' = IF wet THEN tree ELSE head
    /\ task' = to("publish")
    /\ UNCHANGED <<name, tree, tags, remote, reckless, trouble>>

upload(v) == With(crates, v, tree)

AfterPublish == to(IF publish_only THEN "push" ELSE "tag")

\* Bug: a version that is published already is uploaded again, which fails.
publish_Again ==
    /\ task.pc = "publish" /\ task' = AfterPublish
    /\ ~is_published(task.package) /\ ~CargoRefuses /\ crates' = upload(task.package)
    /\ UNCHANGED <<name, repo, origin, originTags, releases, reckless, trouble>>

publish ==
    /\ task.pc = "publish"
    /\ IF is_published(task.package) \/ ~wet THEN crates' = crates
       ELSE ~CargoRefuses /\ crates' = upload(task.package)
    /\ task' = AfterPublish
    /\ UNCHANGED <<name, repo, origin, originTags, releases, reckless, trouble>>

push_branch ==
    /\ task.pc = "push" /\ publish_only
    /\ origin' = IF wet THEN head ELSE origin
    /\ task' = Idle
    /\ UNCHANGED <<name, repo, originTags, crates, releases, reckless, trouble>>

tag ==
    /\ task.pc = "tag"
    /\ tags' = IF task.version \in DOMAIN tags \/ ~wet THEN tags
               ELSE With(tags, task.version, head)
    /\ task' = to("push")
    /\ UNCHANGED <<name, tree, head, remote, reckless, trouble>>

push ==
    /\ task.pc = "push" /\ ~publish_only
    /\ \/ /\ wet => task.version \in DOMAIN originTags
          /\ UNCHANGED <<origin, originTags>>
       \/ /\ wet /\ task.version \notin DOMAIN originTags
          /\ originTags' = With(originTags, task.version, tags[task.version])
          /\ origin' = head
    /\ task' = to(IF prerelease THEN "done" ELSE "release")
    /\ UNCHANGED <<name, repo, crates, releases, reckless, trouble>>

\* The branch and the tag are two updates; an error may leave either undone.
push_partly ==
    /\ task.pc = "push" /\ ~publish_only /\ wet /\ task.version \notin DOMAIN originTags
    /\ \/ originTags' = With(originTags, task.version, tags[task.version]) /\ origin' = origin
       \/ origin' = head /\ originTags' = originTags
    /\ task' = Idle /\ trouble < MaxTrouble /\ trouble' = trouble + 1
    /\ UNCHANGED <<name, repo, crates, releases, reckless>>

release ==
    /\ task.pc = "release"
    /\ releases' = IF wet THEN With(releases, task.version, task.changes) ELSE releases
    /\ task' = to("done")
    /\ UNCHANGED <<name, repo, origin, originTags, crates, reckless, trouble>>

finish ==
    /\ task.pc = "done" /\ task' = Idle
    /\ UNCHANGED <<name, repo, remote, reckless, trouble>>
-----------------------------------------------------------------------------
(* What people do between runs. *)

\* A change is merged and noted in the changelog.
Develop ==
    /\ task = Idle /\ tree = head /\ head.log[1].open
    /\ \E n \in Notes :
          /\ \A i \in 1..Len(head.log) : n \notin head.log[i].notes
          /\ head' = [head EXCEPT !.log[1].notes = @ \cup {n}]
    /\ tree' = head'
    /\ UNCHANGED <<name, tags, remote, task, reckless, trouble>>

\* Somebody cleans up after a run that stopped: `git checkout .`
Discard ==
    /\ task = Idle /\ tree # head /\ tree' = head
    /\ UNCHANGED <<name, head, tags, remote, task, reckless, trouble>>

Step == \/ is_released \/ git_status \/ check_version \/ update_version \/ skip_commit
        \/ update_dependants \/ collect_changes \/ commit \/ publish \/ push_branch \/ tag
        \/ push \/ push_partly \/ release \/ finish

ReleaseInit ==
    /\ name \in DOMAIN Manifests
    /\ \E s \in Initial : tree = [version |-> s.version, log |-> s.log,
                                  deps |-> [m \in Manifests[name] |->
                                               [version |-> s.version, exact |-> FALSE]]]
    /\ head = tree /\ origin = tree
    /\ tags = <<>> /\ originTags = <<>> /\ crates = <<>> /\ releases = <<>>
    /\ task = Idle /\ reckless = {} /\ trouble = 0

ReleaseNext ==
    \/ \E v \in Versions, dry_run \in BOOLEAN : new(v, dry_run)
    \/ Step \/ Stop \/ Develop \/ Discard

ReleaseSpec == ReleaseInit /\ [][ReleaseNext]_releaseVars

-----------------------------------------------------------------------------
(* Safety. *)

\* Type: the stores hold snapshots, at most one for each version.
ReleaseTypeOK ==
    /\ name \in DOMAIN Manifests
    /\ \A s \in {tree, head, origin} :
          /\ s.version \in Semver /\ DOMAIN s.deps = Manifests[name]
          /\ s.log \in Seq(Section) /\ s.log # <<>>
    /\ DOMAIN tags \cup DOMAIN originTags \cup DOMAIN crates \cup DOMAIN releases \subseteq Versions
    /\ reckless \subseteq Versions /\ trouble \in 0..MaxTrouble
    /\ task # Idle => task.version \in Versions /\ task.todo \subseteq Manifests[name]

\* The snapshot is that of version v: the crate and all manifests that name it
\* agree, and the changelog has the title unless v is a pre-release.
IsReleaseOf(s, v) ==
    /\ s.version = v /\ \A m \in DOMAIN s.deps : s.deps[m].version = v
    /\ name # "ruma-macros" /\ v.pre = <<>> => HasTitle(s.log, v)

\* Semantic version precedence.
Precedes(v, w) ==
    LET label(p) == IF p = <<>> THEN 2 ELSE IF p[1] = "alpha" THEN 0 ELSE 1
        number(p) == IF p = <<>> THEN 0 ELSE p[2]
        a == <<v.major, v.minor, v.patch, label(v.pre), number(v.pre)>>
        b == <<w.major, w.minor, w.patch, label(w.pre), number(w.pre)>>
    IN  \E i \in 1..5 : a[i] < b[i] /\ \A j \in 1..(i - 1) : a[j] = b[j]

\* What is uploaded or tagged for a version is a complete release of it, unless
\* somebody went on over uncommitted changes; what GitHub announces is on
\* crates.io and tagged at the remote; and nobody goes back to a smaller version
\* unwarned: no sequence of runs that stopped half-way, or overtook one another,
\* makes a later run publish half an update (run, release.rs 86-163).
ReleasesAreSound ==
    /\ ReleaseTypeOK
    /\ \A v \in DOMAIN crates \ reckless : IsReleaseOf(crates[v], v)
    /\ \A v \in DOMAIN tags \ reckless : IsReleaseOf(tags[v], v)
    /\ DOMAIN releases \subseteq DOMAIN crates \cap DOMAIN originTags
    /\ task # Idle /\ task.pc = "update_version" /\ ~task.warned /\ task.package # task.version
          => Precedes(task.package, task.version)

-----------------------------------------------------------------------------
(* Liveness: running the command again completes what was interrupted. *)

Released(v) ==
    IF publish_only THEN v \in DOMAIN crates /\ origin.version = v
    ELSE v \in DOMAIN crates \cap DOMAIN originTags /\ (v.pre = <<>> => v \in DOMAIN releases)

\* A run goes on until it ends, and the command is run again.  Nothing else is
\* promised: in particular nobody need discard what a run left uncommitted.
Persistence == WF_releaseVars(Step \/ Stop) /\ WF_releaseVars(new(Goal, FALSE))

PersistentSpec == ReleaseSpec /\ Persistence

\* However often runs stop and wherever, running the command again completes the
\* release: if it never ran over uncommitted changes, and the version before has
\* a successor that can be computed; or once the release is committed, whatever
\* was or is uncommitted then.
Completes ==
    /\ ~Overflows(tree.version) /\ [](Goal \notin reckless) => <>Released(Goal)
    /\ <>[]IsReleaseOf(head, Goal) => <>Released(Goal)

\* contrib/how_to_release.md, "If some part of `cargo xtask release` fails [...]
\* you can run the exact same command again to retry": wherever it failed.
RetryCompletes == ~Overflows(tree.version) => <>Released(Goal)

=============================================================================
