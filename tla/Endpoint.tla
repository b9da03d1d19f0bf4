------------------------------ MODULE Endpoint ------------------------------
(***************************************************************************)
(* The part of an endpoint's metadata a client's request is made from:     *)
(* Metadata and VersionHistory of ruma-common/src/api/metadata.rs and      *)
(* SendAccessToken of ruma-common/src/api.rs.                              *)
(*                                                                         *)
(* Matrix versions are minor numbers: every version known has major 1.  An *)
(* Option is a set with at most one member.  A list of versions is only    *)
(* searched, so it is a set.                                               *)
(***************************************************************************)
EXTENDS Integers, Sequences

\* VersionHistory, with paths from the given set.
HistoryOf(Paths) ==
    [unstable_paths: Seq(Paths), stable_paths: Seq([version: Nat, path: Paths]),
     deprecated: SUBSET Nat, removed: SUBSET Nat]

Option(S) == \A a, b \in S : a = b

\* What VersionHistory::new, a const fn, lets pass.
ValidHistory(h) ==
    LET stable == h.stable_paths
        last == stable[Len(stable)].version
    IN  /\ Option(h.deprecated) /\ Option(h.removed)
        /\ h.unstable_paths # <<>> \/ stable # <<>>
        /\ \A i, j \in 1..Len(stable) : i < j => stable[i].version < stable[j].version
        /\ \A d \in h.deprecated : stable # <<>> /\ (last < d \/ (last = d /\ d = 0))
        /\ \A r \in h.removed : \E d \in h.deprecated : d < r

is_superset_of(v, other) == v >= other

GreaterOrEqualAny(versions, bound) == \E b \in bound : \E v \in versions : is_superset_of(v, b)

GreaterOrEqualAll(versions, bound) == \E b \in bound : \A v \in versions : is_superset_of(v, b)

added_in(h) == IF h.stable_paths = <<>> THEN {} ELSE {h.stable_paths[1].version}

unstable(h) == IF h.unstable_paths = <<>> THEN {} ELSE {h.unstable_paths[Len(h.unstable_paths)]}

\* The path of the latest version some supported version includes.
stable_endpoint_for(h, versions) ==
    LET Fits(i) == \E v \in versions : is_superset_of(v, h.stable_paths[i].version)
    IN  {h.stable_paths[i].path : i \in {j \in 1..Len(h.stable_paths) :
             Fits(j) /\ \A k \in 1..Len(h.stable_paths) : k > j => ~Fits(k)}}

\* Bug: removals are not looked at.
versioning_decision_for_Never(h, versions) ==
    IF GreaterOrEqualAny(versions, added_in(h)) THEN "stable" ELSE "unstable"

versioning_decision_for(h, versions) ==
    IF GreaterOrEqualAll(versions, h.removed) THEN "removed"
    ELSE IF GreaterOrEqualAny(versions, added_in(h)) THEN "stable" ELSE "unstable"

\* The unreachable! of select_path and its expect on the stable path.
SelectPanics(h, versions) ==
    /\ versioning_decision_for(h, versions) = "stable"
    /\ \/ /\ GreaterOrEqualAny(versions, h.removed)
          /\ ~GreaterOrEqualAll(versions, h.deprecated) /\ ~GreaterOrEqualAny(versions, h.deprecated)
       \/ stable_endpoint_for(h, versions) = {}

\* The path of a request, or none with the error that says why.
select_path(h, versions) ==
    LET decision == versioning_decision_for(h, versions)
    IN  IF SelectPanics(h, versions) THEN [path |-> {}, err |-> "panic"]
        ELSE IF decision = "removed" THEN [path |-> {}, err |-> "removed"]
        ELSE IF decision = "stable" THEN [path |-> stable_endpoint_for(h, versions), err |-> ""]
        ELSE [path |-> unstable(h), err |-> IF unstable(h) = {} THEN "no unstable path" ELSE ""]

\* The header for a client's token, SendAccessToken::IfRequired or None.
\* AppserviceToken and ServerSignatures endpoints get none.
authorization_header(authentication, token) ==
    IF authentication \in {"AccessToken", "AccessTokenOptional"} THEN token ELSE {}

NeedsAuthentication(authentication, token) == authentication = "AccessToken" /\ token = {}

=============================================================================
