---------------------------- MODULE ClientProofs ----------------------------
(***************************************************************************)
(* Proofs about the client: the order of its access tokens, the paths of   *)
(* its requests and the sync stream, for any number of calls, users,       *)
(* endpoints and versions.                                                 *)
(***************************************************************************)
EXTENDS Client, TLAPS, SequenceTheorems, WellFoundedInduction

-----------------------------------------------------------------------------
(* The inductive invariant. *)

\* What a call remembers while it waits.
CallIn(c) ==
    IF c = Stream
    THEN [pc: {"waiting", "yielded"}, kind: {"sync"}, user: SUBSET Users, before: Nat,
          since: 0..MaxEvents, mixed: BOOLEAN]
    ELSE [pc: {"waiting"}, kind: {"build", "login", "register", "request"},
          user: SUBSET Users, before: Nat]

Request(c) == [is: {"request"}, endpoint: DOMAIN endpoint, path: SUBSET STRING,
               token: SUBSET Nat, call: CallIn(c)]

\* A request under way is that of the call in its slot, if that still waits, and
\* carries what the client had when the call began.
RequestOK(c) ==
    LET q == wire[c] IN
    /\ q \in Request(c)
    /\ Active(c) => calls[c] = q.call
    /\ q.call.before \in 1..Len(granted)
    /\ q.token # {} => q.token = granted[q.call.before].token
    /\ q.call.kind # "build" =>
          /\ client.built
          /\ select_path(endpoint[q.endpoint].history, client.versions) = [path |-> q.path, err |-> ""]

\* A good answer to a call that still waits is one to its own request.
AnswerOK(c) ==
    LET body == wire[c].body IN
    Active(c) /\ body.ok =>
      /\ calls[c].kind \in {"login", "register"} =>
            body.token \in SUBSET (1..Len(server.session)) /\ Option(body.token)
      /\ calls[c].kind = "sync" =>
            /\ body.user \in Users /\ body.from = calls[c].since
            /\ body.next_batch \in body.from..MaxEvents

SlotOK(c) ==
    /\ calls[c] = Free \/ calls[c] \in CallIn(c)
    /\ Active(c) => /\ calls[c].before \in 1..Len(granted)
                    /\ calls[c].kind = "build" <=> ~client.built
    /\ wire[c] = Nothing \/ wire[c].is = "request" \/ wire[c].is = "answer"
    /\ wire[c].is = "request" => RequestOK(c)
    /\ wire[c].is = "answer" => AnswerOK(c)

SlotsOK ==
    /\ DOMAIN calls = Slots /\ DOMAIN wire = Slots
    /\ \A c \in Slots : SlotOK(c)
    /\ \A c, d \in Calls : Active(c) /\ Active(d) /\ calls[c].kind = "build" => c = d

Grant == [token: SUBSET Nat, before: Nat]

\* A grant is that of a call which began before it came in.
GrantsOK ==
    /\ granted \in Seq(Grant) /\ Len(granted) >= 1
    /\ \A j \in 1..Len(granted) : granted[j].before < j
    /\ client.token = granted[Len(granted)].token

StateOK ==
    /\ client \in [built: BOOLEAN, versions: SUBSET (0..KnownMax), token: SUBSET Nat]
    /\ Option(client.token) /\ client.token \subseteq 1..Len(server.session)
    /\ server \in [versions: Ranges, session: Seq(Users), revoked: SUBSET Nat,
                   timeline: [Users -> 0..MaxEvents]]
    /\ faults \in 0..MaxFaults /\ begun \in 0..MaxCalls

\* A stream that kept to its user stands where the application has come.
StreamOK ==
    /\ position \in [Users -> 0..MaxEvents] /\ heard \in [Users -> Seq(1..MaxEvents)]
    /\ crossed \subseteq Users
    /\ Active(Stream) /\ ~calls[Stream].mixed =>
          \A u \in Users : calls[Stream].user = {u} => calls[Stream].since = position[u]
    /\ EachEventOnce

ClientIInv == StateOK /\ GrantsOK /\ SlotsOK /\ StreamOK

-----------------------------------------------------------------------------
(* Choosing a path. *)

\* A set of list positions that is not empty has a last one.
LEMMA LastExists ==
    ASSUME NEW n \in Nat, NEW S \in SUBSET (1..n), S # {}
    PROVE  \E j \in S : \A k \in S : k <= j
<1> DEFINE T == {n - k : k \in S}
<1>1. T \subseteq Nat /\ T # {}
  <2>1. \A k \in 1..n : k \in Int /\ n - k \in Nat
    OBVIOUS
  <2> QED BY <2>1
<1>2. PICK m \in T : \A y \in T : ~(<<y, m>> \in OpToRel(<, Nat))
  BY <1>1, NatLessThanWellFounded, WFMin, Zenon
<1>3. \A y \in T : ~(y < m)
  BY <1>1, <1>2 DEF OpToRel
<1>4. PICK j \in S : m = n - j
  BY <1>2
<1>5. ASSUME NEW k \in S PROVE k <= j
  <2>0. n - k \in T
    OBVIOUS
  <2>1. k \in Int /\ j \in Int
    <3> HIDE DEF T
    <3> QED OBVIOUS
  <2>2. ~(n - k < n - j)
    BY <1>3, <1>4, <2>0
  <2> QED BY <2>1, <2>2
<1> QED BY <1>5

\* The elements of a list over S are in S.
LEMMA ElementType ==
    ASSUME NEW S, NEW s \in Seq(S), NEW i \in 1..Len(s)
    PROVE  s[i] \in S
OBVIOUS

\* The versions and the paths of a history.
LEMMA StableType ==
    ASSUME NEW h \in HistoryOf(STRING), NEW i \in 1..Len(h.stable_paths)
    PROVE  /\ h.stable_paths[i].version \in Nat /\ h.stable_paths[i].path \in STRING
           /\ Len(h.stable_paths) \in Nat /\ h.removed \subseteq Nat /\ h.deprecated \subseteq Nat
<1> DEFINE stable == h.stable_paths
<1>1. /\ stable \in Seq([version: Nat, path: STRING])
      /\ h.removed \subseteq Nat /\ h.deprecated \subseteq Nat
  BY DEF HistoryOf
<1>2. i \in 1..Len(stable)
  OBVIOUS
<1> HIDE DEF stable
<1>3. stable[i] \in [version: Nat, path: STRING]
  <2> DEFINE S == [version: Nat, path: STRING]
  <2> HIDE DEF S
  <2>1. stable \in Seq(S)
    BY <1>1 DEF S
  <2> QED BY <1>2, <2>1, ElementType DEF S
<1>4. stable[i].version \in Nat /\ stable[i].path \in STRING /\ Len(stable) \in Nat
  BY <1>1, <1>3
<1> QED BY <1>1, <1>4 DEF stable

\* The unreachable! and the expects of select_path are not reached with a
\* history that VersionHistory::new lets pass.
LEMMA NoSelectPanic ==
    ASSUME NEW h \in HistoryOf(STRING), ValidHistory(h), NEW V \in SUBSET Nat
    PROVE  ~SelectPanics(h, V)
<1> SUFFICES ASSUME SelectPanics(h, V) PROVE FALSE
  OBVIOUS
<1> DEFINE stable == h.stable_paths
           Fits(i) == \E v \in V : is_superset_of(v, stable[i].version)
<1>0. /\ stable \in Seq([version: Nat, path: STRING]) /\ Len(stable) \in Nat
      /\ h.removed \subseteq Nat /\ h.deprecated \subseteq Nat
  BY DEF HistoryOf
<1>1. GreaterOrEqualAny(V, added_in(h))
  BY DEF SelectPanics, versioning_decision_for
<1>2. CASE stable_endpoint_for(h, V) = {}
  <2>1. stable # <<>> /\ Len(stable) >= 1 /\ Fits(1)
    BY <1>0, <1>1 DEF GreaterOrEqualAny, added_in
  <2>2. PICK j \in {i \in 1..Len(stable) : Fits(i)} : \A k \in {i \in 1..Len(stable) : Fits(i)} : k <= j
    <3> DEFINE F == {i \in 1..Len(stable) : Fits(i)}
    <3>1. F # {} /\ F \in SUBSET (1..Len(stable))
      BY <1>0, <2>1
    <3> HIDE DEF F
    <3>2. \E j \in F : \A k \in F : k <= j
      BY <1>0, <3>1, LastExists
    <3> QED BY <3>2 DEF F
  <2>3. \A k \in 1..Len(stable) : k > j => ~Fits(k)
    <3> HIDE DEF Fits
    <3> QED BY <1>0, <2>2
  <2> QED BY <1>2, <2>2, <2>3 DEF stable_endpoint_for
<1>3. CASE /\ GreaterOrEqualAny(V, h.removed)
           /\ ~GreaterOrEqualAll(V, h.deprecated) /\ ~GreaterOrEqualAny(V, h.deprecated)
  <2>1. PICK r \in h.removed, v \in V : v >= r
    BY <1>3 DEF GreaterOrEqualAny, is_superset_of
  <2>2. PICK d \in h.deprecated : d < r
    BY <2>1 DEF ValidHistory
  <2>3. v >= d
    BY <1>0, <2>1, <2>2
  <2> QED BY <1>3, <2>1, <2>2, <2>3 DEF GreaterOrEqualAny, is_superset_of
<1> QED BY <1>2, <1>3 DEF SelectPanics

\* A path is found without an error only where there is one: the stable path of
\* the versions, or the unstable one.
LEMMA SelectedPath ==
    ASSUME NEW h \in HistoryOf(STRING), ValidHistory(h), NEW V \in SUBSET Nat
    PROVE  /\ select_path(h, V).err # "panic"
           /\ select_path(h, V).err = "" =>
                 \/ /\ versioning_decision_for(h, V) = "stable"
                    /\ select_path(h, V).path = stable_endpoint_for(h, V)
                 \/ select_path(h, V).path = unstable(h)
           /\ select_path(h, V).path \in SUBSET STRING
           /\ select_path(h, V) = [path |-> select_path(h, V).path, err |-> select_path(h, V).err]
<1>1. ~SelectPanics(h, V)
  BY NoSelectPanic
<1>2. versioning_decision_for(h, V) \in {"removed", "stable", "unstable"}
  BY DEF versioning_decision_for
<1>3. stable_endpoint_for(h, V) \in SUBSET STRING
  BY StableType DEF stable_endpoint_for
<1>4. unstable(h) \in SUBSET STRING
  BY DEF unstable, HistoryOf
<1>5. CASE versioning_decision_for(h, V) = "removed"
  BY <1>1, <1>5 DEF select_path
<1>6. CASE versioning_decision_for(h, V) = "stable"
  BY <1>1, <1>3, <1>6 DEF select_path
<1>7. CASE versioning_decision_for(h, V) = "unstable"
  BY <1>1, <1>4, <1>7 DEF select_path
<1> QED BY <1>2, <1>5, <1>6, <1>7

\* A server that supports a range of versions which includes the client's serves
\* the stable path the client chose.
LEMMA StablePathServed ==
    ASSUME NEW e \in DOMAIN endpoint, NEW V \in SUBSET Nat, NEW W \in Ranges, V \subseteq W,
           versioning_decision_for(endpoint[e].history, V) = "stable"
    PROVE  Served(W, e, stable_endpoint_for(endpoint[e].history, V))
<1> DEFINE h == endpoint[e].history
           stable == h.stable_paths
<1>0. /\ h \in HistoryOf(STRING) /\ ValidHistory(h)
      /\ W \subseteq Nat /\ \A v, w \in W : v..w \subseteq W
  BY ClientAssumption
<1>1. /\ stable \in Seq([version: Nat, path: STRING]) /\ Len(stable) \in Nat
      /\ h.removed \subseteq Nat /\ h.deprecated \subseteq Nat
  BY <1>0 DEF HistoryOf
<1>2. PICK i \in 1..Len(stable) : /\ stable[i].path \in stable_endpoint_for(h, V)
                                  /\ \E v \in V : is_superset_of(v, stable[i].version)
                                  /\ \A k \in 1..Len(stable) : k > i =>
                                        ~\E v \in V : is_superset_of(v, stable[k].version)
  <2>1. ~SelectPanics(h, V)
    BY <1>0, NoSelectPanic
  <2>2. stable_endpoint_for(h, V) # {}
    BY <2>1 DEF SelectPanics
  <2> QED BY <2>2 DEF stable_endpoint_for
<1>3. stable_endpoint_for(h, V) = {stable[i].path}
  <2>1. ASSUME NEW j \in 1..Len(stable), \E v \in V : is_superset_of(v, stable[j].version),
               \A k \in 1..Len(stable) : k > j => ~\E v \in V : is_superset_of(v, stable[k].version)
        PROVE  j = i
    <3>1. ~(j < i) /\ ~(i < j)
      BY <1>1, <1>2, <2>1
    <3> QED BY <1>1, <3>1
  <2> QED BY <1>2, <2>1 DEF stable_endpoint_for
<1>4. PICK v1 \in V : v1 >= stable[i].version
  BY <1>2 DEF is_superset_of
<1>5. \A j \in 1..Len(stable) : stable[j].version \in Nat
  BY <1>0, StableType
<1>6. \E v \in W : v >= stable[i].version /\ \A r \in h.removed : v < r
  <2>1. CASE h.removed = {}
    BY <1>4, <2>1
  <2>2. CASE h.removed # {}
    <3>1. PICK r \in h.removed : \A s \in h.removed : s = r
      BY <1>0, <2>2 DEF ValidHistory, Option
    <3>2. PICK v0 \in V : v0 < r
      <4>1. ~GreaterOrEqualAll(V, h.removed)
        BY DEF versioning_decision_for
      <4> QED BY <1>1, <3>1, <4>1 DEF GreaterOrEqualAll, is_superset_of
    <3>3. stable[i].version < r
      <4>1. PICK d \in h.deprecated : d < r
        BY <1>0 DEF ValidHistory
      <4>4. Len(stable) \in 1..Len(stable) /\ i \in 1..Len(stable)
        BY <1>1
      <4>2. stable[Len(stable)].version <= d
        <5>1. stable[Len(stable)].version < d \/ stable[Len(stable)].version = d
          BY <1>0, <4>1 DEF ValidHistory
        <5>2. stable[Len(stable)].version \in Nat /\ d \in Nat
          BY <1>1, <1>5, <4>1, <4>4
        <5> QED BY <5>1, <5>2
      <4>3. stable[i].version <= stable[Len(stable)].version
        <5>1. CASE i = Len(stable)
          BY <1>5, <5>1
        <5>2. CASE i # Len(stable)
          <6>1. i < Len(stable) /\ Len(stable) \in 1..Len(stable)
            BY <1>1, <5>2
          <6>2. stable[i].version < stable[Len(stable)].version
            BY <1>0, <6>1 DEF ValidHistory
          <6>3. stable[i].version \in Nat /\ stable[Len(stable)].version \in Nat
            BY <1>5, <4>4
          <6> QED BY <6>2, <6>3
        <5> QED BY <5>1, <5>2
      <4>5. /\ stable[i].version \in Nat /\ stable[Len(stable)].version \in Nat
            /\ d \in Nat /\ r \in Nat
        BY <1>1, <1>5, <3>1, <4>1, <4>4
      <4> QED BY <4>1, <4>2, <4>3, <4>5
    <3>4. CASE v1 < r
      BY <1>4, <3>1, <3>4
    <3>5. CASE v0 >= stable[i].version
      BY <3>1, <3>2, <3>5
    <3>6. CASE ~(v1 < r) /\ ~(v0 >= stable[i].version)
      <4>0. stable[i].version \in Nat /\ v0 \in Nat /\ v1 \in Nat
        BY <1>5
      <4>1. stable[i].version \in v0..v1
        <5> DEFINE s == stable[i].version
        <5>1. s <= v1 /\ v0 <= s /\ s \in Nat
          BY <1>4, <3>6, <4>0
        <5> HIDE DEF s
        <5>2. s \in v0..v1
          BY <4>0, <5>1
        <5> QED BY <5>2 DEF s
      <4>2. v0 \in W /\ v1 \in W
        OBVIOUS
      <4>3. stable[i].version \in W
        BY <1>0, <4>1, <4>2
      <4> QED BY <1>5, <3>1, <3>3, <4>3
    <3> QED BY <3>4, <3>5, <3>6
  <2> QED BY <2>1, <2>2
<1> QED BY <1>3, <1>6 DEF Served

-----------------------------------------------------------------------------
(* One step of the client or the server. *)

\* The grants and the sessions only grow; the client is built once, when no call
\* but that of the builder waits.
Grows ==
    /\ Len(granted) \in Nat /\ Len(granted') \in Nat /\ Len(granted) <= Len(granted')
    /\ \A j \in 1..Len(granted) : granted'[j] = granted[j]
    /\ Len(server.session) \in Nat /\ Len(server'.session) \in Nat
    /\ Len(server.session) <= Len(server'.session)

\* A slot that a step leaves alone keeps its part of the invariant.
LEMMA SlotFrame ==
    ASSUME NEW d, SlotOK(d), calls'[d] = calls[d], wire'[d] = wire[d], Grows,
           \/ client'.built = client.built /\ client'.versions = client.versions
           \/ ~client.built /\ ~Active(d)
    PROVE  SlotOK(d)'
<1> DEFINE q == wire[d]
           body == wire[d].body
<1>1. Active(d)' <=> Active(d)
  BY DEF Active
<1>2. 1..Len(granted) \subseteq 1..Len(granted')
  BY DEF Grows
<1>3. /\ calls'[d] = Free \/ calls'[d] \in CallIn(d)
      /\ wire'[d] = Nothing \/ wire'[d].is = "request" \/ wire'[d].is = "answer"
  BY DEF SlotOK
<1>4. Active(d)' => /\ calls'[d].before \in 1..Len(granted')
                    /\ calls'[d].kind = "build" <=> ~client'.built
  BY <1>1, <1>2 DEF SlotOK
<1>5. ASSUME wire'[d].is = "request" PROVE RequestOK(d)'
  <2>1. RequestOK(d)
    BY <1>5 DEF SlotOK
  <2>2. q.call.kind # "build" =>
            /\ client'.built
            /\ select_path(endpoint[q.endpoint].history, client'.versions) = [path |-> q.path, err |-> ""]
    BY <2>1 DEF RequestOK
  <2>3. /\ q \in Request(d)
        /\ Active(d) => calls[d] = q.call
        /\ q.call.before \in 1..Len(granted)
        /\ q.token # {} => q.token = granted[q.call.before].token
    BY <2>1 DEF RequestOK
  <2>4. q.call.before \in 1..Len(granted') /\ granted'[q.call.before] = granted[q.call.before]
    BY <1>2, <2>3 DEF Grows
  <2> QED BY <1>1, <2>2, <2>3, <2>4 DEF RequestOK
<1>6. ASSUME wire'[d].is = "answer" PROVE AnswerOK(d)'
  <2>1. AnswerOK(d)
    BY <1>6 DEF SlotOK
  <2>2. 1..Len(server.session) \subseteq 1..Len(server'.session)
    BY DEF Grows
  <2> QED BY <1>1, <2>1, <2>2 DEF AnswerOK
<1> QED BY <1>3, <1>4, <1>5, <1>6 DEF SlotOK

\* Nothing waits and nothing is under way in a slot that is free.
LEMMA FreeSlot ==
    ASSUME NEW d, calls'[d] = Free, wire'[d] = Nothing
    PROVE  SlotOK(d)'
BY DEF SlotOK, Active, Free, Nothing

\* A call that is given up leaves what is under way in its slot as it was.
LEMMA GivenUpSlot ==
    ASSUME NEW d, SlotOK(d), calls'[d] = Free, wire'[d] = wire[d], Grows,
           client'.built = client.built /\ client'.versions = client.versions
    PROVE  SlotOK(d)'
<1> DEFINE q == wire[d]
<1>1. ~Active(d)'
  BY DEF Active, Free
<1>2. ASSUME wire'[d].is = "request" PROVE RequestOK(d)'
  <2>1. RequestOK(d)
    BY <1>2 DEF SlotOK
  <2>0. q.call.before \in 1..Len(granted)
    BY <2>1 DEF RequestOK
  <2>2. q.call.before \in 1..Len(granted') /\ granted'[q.call.before] = granted[q.call.before]
    BY <2>0 DEF Grows
  <2> QED BY <1>1, <2>1, <2>2 DEF RequestOK
<1> QED BY <1>1, <1>2 DEF SlotOK, AnswerOK

\* A step in one slot keeps what is said of all.
LEMMA SlotsStep ==
    ASSUME SlotsOK, NEW c \in Slots, DOMAIN calls' = Slots, DOMAIN wire' = Slots,
           \A d \in Slots \ {c} : calls'[d] = calls[d] /\ wire'[d] = wire[d],
           Grows, SlotOK(c)',
           \/ client'.built = client.built /\ client'.versions = client.versions
           \/ ~client.built /\ \A d \in Slots \ {c} : ~Active(d),
           Active(c)' /\ c \in Calls =>
              \/ Active(c) \/ \A d \in Calls : ~Active(d) \/ calls[d].kind # "build"
    PROVE  SlotsOK'
<1>1. ASSUME NEW d \in Slots PROVE SlotOK(d)'
  <2>1. CASE d # c
    BY <2>1, SlotFrame DEF SlotsOK
  <2> QED BY <2>1
<1>2. ASSUME NEW x \in Calls, NEW y \in Calls, Active(x)', Active(y)', calls'[x].kind = "build"
      PROVE  x = y
  <2>1. calls'[y].kind = "build" /\ ~client'.built
    BY <1>1, <1>2 DEF Slots, SlotOK
  <2>2. SUFFICES ASSUME x # y PROVE FALSE
    OBVIOUS
  <2>3. \A d \in Slots \ {c} : Active(d)' <=> Active(d)
    BY DEF Active
  <2>4. \A a, b \in Calls : Active(a) /\ Active(b) /\ calls[a].kind = "build" => a = b
    BY DEF SlotsOK
  <2>5. CASE x # c /\ y # c
    BY <1>2, <2>1, <2>2, <2>3, <2>4, <2>5 DEF Slots
  <2>6. CASE x = c
    BY <1>2, <2>1, <2>2, <2>3, <2>4, <2>6 DEF Slots
  <2>7. CASE y = c
    BY <1>2, <2>1, <2>2, <2>3, <2>4, <2>7 DEF Slots
  <2> QED BY <2>5, <2>6, <2>7
<1> QED BY <1>1, <1>2 DEF SlotsOK

\* What a call sends when it is first polled belongs to it, and it never panics.
LEMMA SendSlot ==
    ASSUME ClientIInv, NEW c \in Slots, NEW kind, NEW e \in DOMAIN endpoint, NEW call \in CallIn(c),
           call.kind = kind, call.before = Len(granted),
           kind = "build" <=> ~client.built, wire[c] = Nothing,
           Send(c, kind, e, call), UNCHANGED <<client, granted>>
    PROVE  /\ DOMAIN calls' = Slots /\ DOMAIN wire' = Slots
           /\ \A d \in Slots \ {c} : calls'[d] = calls[d] /\ wire'[d] = wire[d]
           /\ SlotOK(c)' /\ (calls'[c] = call \/ calls'[c] = Free)
<1> DEFINE V == ConsideredVersions(kind)
           h == endpoint[e].history
           token == SentToken(kind)
           auth == endpoint[e].authentication
<1>0. DOMAIN calls = Slots /\ DOMAIN wire = Slots
  BY DEF ClientIInv, SlotsOK
<1>1. V \in SUBSET Nat
  BY ClientAssumption DEF ConsideredVersions, ClientIInv, StateOK
<1>2. h \in HistoryOf(STRING) /\ ValidHistory(h)
  BY ClientAssumption
<1>3. /\ select_path(h, V).err # "panic"
      /\ select_path(h, V).path \in SUBSET STRING
      /\ select_path(h, V) = [path |-> select_path(h, V).path, err |-> select_path(h, V).err]
  BY <1>1, <1>2, SelectedPath
<1>4. CASE select_path(h, V).err # "" \/ NeedsAuthentication(auth, token)
  <2>1. calls' = [calls EXCEPT ![c] = Free] /\ wire' = wire
    BY <1>3, <1>4 DEF Send
  <2> QED BY <1>0, <2>1, FreeSlot
<1>5. CASE ~(select_path(h, V).err # "" \/ NeedsAuthentication(auth, token))
  <2> DEFINE q == [is |-> "request", endpoint |-> e, path |-> select_path(h, V).path,
                   token |-> authorization_header(auth, token), call |-> call]
  <2>1. calls' = [calls EXCEPT ![c] = call] /\ wire' = [wire EXCEPT ![c] = q]
    BY <1>5 DEF Send
  <2>2. calls'[c] = call /\ wire'[c] = q
    BY <1>0, <2>1
  <2>3. /\ Len(granted) \in Nat /\ Len(granted) >= 1 /\ client.token = granted[Len(granted)].token
        /\ client.token \in SUBSET Nat
    BY DEF ClientIInv, GrantsOK, StateOK
  <2>4. token \in SUBSET Nat /\ (token # {} => token = client.token)
    BY <2>3 DEF SentToken
  <2>5. q \in Request(c)
    BY <1>3, <2>4 DEF Request, authorization_header
  <2>6. RequestOK(c)'
    <3>1. q.token # {} => q.token = granted[q.call.before].token
      BY <2>3, <2>4 DEF authorization_header
    <3>2. kind # "build" => select_path(h, client.versions) = [path |-> q.path, err |-> ""]
      BY <1>3, <1>5 DEF ConsideredVersions
    <3>3. q.call.before \in 1..Len(granted)
      BY <2>3
    <3>4. q.call = call /\ q.call.kind = kind /\ q.endpoint = e /\ q.path = select_path(h, V).path
      OBVIOUS
    <3> HIDE DEF q, h
    <3> QED BY <2>2, <2>5, <3>1, <3>2, <3>3, <3>4 DEF RequestOK, h
  <2>7. wire'[c].is = "request"
    BY <2>2
  <2>8. calls'[c].before \in 1..Len(granted') /\ (calls'[c].kind = "build" <=> ~client'.built)
    BY <2>2, <2>3
  <2>9. SlotOK(c)'
    BY <2>2, <2>6, <2>7, <2>8 DEF SlotOK
  <2> QED BY <1>0, <2>1, <2>2, <2>9
<1> QED BY <1>4, <1>5

\* The stream keeps its place as long as it does not move.
LEMMA StreamFrame ==
    ASSUME StreamOK, UNCHANGED <<position, heard, crossed>>,
           calls'[Stream] = calls[Stream] \/ calls'[Stream] = Free
    PROVE  StreamOK'
<1>1. position' = position /\ heard' = heard /\ crossed' = crossed
  OBVIOUS
<1>2. Active(Stream)' => calls'[Stream] = calls[Stream] /\ Active(Stream)
  BY DEF Active, Free
<1>3. EachEventOnce'
  BY <1>1 DEF StreamOK, EachEventOnce
<1> QED BY <1>1, <1>2, <1>3 DEF StreamOK

LEMMA GrowsSame ==
    ASSUME ClientIInv, granted' = granted, server'.session = server.session
    PROVE  Grows
<1>1. Len(granted) \in Nat /\ Len(server.session) \in Nat
  BY DEF ClientIInv, GrantsOK, StateOK
<1> QED BY <1>1 DEF Grows

\* The client starts in a state of the invariant.
LEMMA InitClientIInv == ClientInit => ClientIInv
<1> SUFFICES ASSUME ClientInit PROVE ClientIInv
  OBVIOUS
<1>1. PICK u \in Registered, R \in Ranges, token \in {{}, {1}} :
          /\ server = [versions |-> R, session |-> [s \in token |-> u], revoked |-> {},
                       timeline |-> [v \in Users |-> 0]]
          /\ client = [built |-> FALSE, versions |-> {}, token |-> token]
          /\ granted = <<[token |-> token, before |-> 0]>>
  BY DEF ClientInit
<1>2. u \in Users /\ MaxEvents \in Nat /\ MaxFaults \in Nat /\ MaxCalls \in Nat
  BY ClientAssumption
<1>3. /\ [s \in token |-> u] \in Seq(Users)
      /\ token \subseteq 1..Len([s \in token |-> u])
  <2>1. CASE token = {}
    <3>1. [s \in token |-> u] = <<>>
      BY <2>1
    <3> QED BY <2>1, <3>1
  <2>2. CASE token = {1}
    <3>1. token = 1..1
      BY <2>2
    <3>2. [s \in token |-> u] \in [1..1 -> Users]
      BY <1>2, <3>1
    <3>3. [s \in 1..1 |-> u] \in Seq(Users) /\ Len([s \in 1..1 |-> u]) = 1
      BY <1>2
    <3> QED BY <3>1, <3>3
  <2> QED BY <2>1, <2>2
<1>4. StateOK
  <2>1. client \in [built: BOOLEAN, versions: SUBSET (0..KnownMax), token: SUBSET Nat]
    BY <1>1
  <2>2. Option(client.token) /\ client.token \subseteq 1..Len(server.session)
    BY <1>1, <1>3 DEF Option
  <2>3. server \in [versions: Ranges, session: Seq(Users), revoked: SUBSET Nat,
                   timeline: [Users -> 0..MaxEvents]]
    <3>1. [v \in Users |-> 0] \in [Users -> 0..MaxEvents]
      BY <1>2
    <3> QED BY <1>1, <1>3, <3>1
  <2>4. faults \in 0..MaxFaults /\ begun \in 0..MaxCalls
    BY <1>2 DEF ClientInit
  <2> QED BY <2>1, <2>2, <2>3, <2>4 DEF StateOK
<1>5. GrantsOK
  <2> DEFINE g == [token |-> token, before |-> 0]
  <2>1. g \in Grant /\ g.before = 0 /\ g.token = token
    BY DEF Grant
  <2> HIDE DEF g
  <2>2. granted = <<g>> /\ client.token = token
    BY <1>1 DEF g
  <2> QED BY <2>1, <2>2 DEF GrantsOK
<1>6. SlotsOK
  BY DEF ClientInit, SlotsOK, SlotOK, Active, Free, Nothing, Slots
<1>7. StreamOK
  <2>1. calls[Stream] = Free
    BY DEF ClientInit, Slots
  <2>2. ~Active(Stream)
    BY <2>1 DEF Active, Free
  <2> QED BY <1>2, <2>2 DEF ClientInit, StreamOK, EachEventOnce
<1> QED BY <1>4, <1>5, <1>6, <1>7 DEF ClientIInv

\* Beginning a call keeps the invariant.
LEMMA BeginIInv ==
    ASSUME ClientIInv, NEW c \in Calls, NEW kind \in {"build", "login", "register", "request"},
           NEW e \in DOMAIN endpoint, NEW user \in SUBSET Users, begin(c, kind, e, user)
    PROVE  ClientIInv'
<1> DEFINE call == [pc |-> "waiting", kind |-> kind, user |-> user, before |-> Len(granted)]
<1>0. c # Stream /\ c \in Slots /\ Stream \in Slots
  BY DEF Calls, Stream, Slots
<1>1. Len(granted) \in Nat
  BY DEF ClientIInv, GrantsOK
<1>2. call \in CallIn(c)
  BY <1>0, <1>1 DEF CallIn
<1>3. call.kind = kind /\ call.before = Len(granted)
  OBVIOUS
<1>4. /\ kind = "build" <=> ~client.built
      /\ wire[c] = Nothing /\ ~Active(c)
      /\ kind = "build" => \A d \in Calls : ~Active(d)
      /\ Send(c, kind, e, call)
      /\ UNCHANGED <<client, server, position, heard, crossed, granted, faults>>
      /\ begun < MaxCalls /\ begun' = begun + 1
  BY DEF begin, Idle
<1> HIDE DEF call
<1>5. /\ DOMAIN calls' = Slots /\ DOMAIN wire' = Slots
      /\ \A d \in Slots \ {c} : calls'[d] = calls[d] /\ wire'[d] = wire[d]
      /\ SlotOK(c)'
  BY <1>0, <1>2, <1>3, <1>4, SendSlot
<1>6. Grows
  BY <1>4, GrowsSame
<1>7. SlotsOK'
  <2>1. \A d \in Calls : ~Active(d) \/ calls[d].kind # "build"
    BY <1>4 DEF ClientIInv, SlotsOK, SlotOK, Slots
  <2> QED BY <1>0, <1>4, <1>5, <1>6, <2>1, SlotsStep DEF ClientIInv
<1>8. StreamOK'
  BY <1>0, <1>4, <1>5, StreamFrame DEF ClientIInv
<1>9. StateOK' /\ GrantsOK'
  BY <1>4, ClientAssumption DEF ClientIInv, StateOK, GrantsOK
<1> QED BY <1>7, <1>8, <1>9 DEF ClientIInv

\* Telling the builder the versions keeps the invariant: nothing but an answer
\* the builder gave up on is under way.
LEMMA ToldIInv ==
    ASSUME ClientIInv, supported_matrix_versions
    PROVE  ClientIInv'
<1>1. PICK R \in Told : client' = [client EXCEPT !.built = TRUE, !.versions = R]
  BY DEF supported_matrix_versions
<1>2. /\ ~client.built
      /\ UNCHANGED <<calls, wire, server, position, heard, crossed, granted, begun, faults>>
      /\ \A c \in Calls : ~Active(c)
  BY DEF supported_matrix_versions
<1>3. \A c \in Slots : ~Active(c)
  <2>0. SlotOK(Stream)
    BY DEF ClientIInv, SlotsOK, Slots
  <2>1. ~Active(Stream)
    <3>1. Active(Stream) => calls[Stream] \in CallIn(Stream) /\ calls[Stream].kind = "build"
      BY <1>2, <2>0 DEF SlotOK, Active, Free
    <3> QED BY <3>1 DEF CallIn
  <2> QED BY <1>2, <2>1 DEF Slots
<1>4. StateOK' /\ GrantsOK'
  <2>1. /\ client'.token = client.token
        /\ client' \in [built: BOOLEAN, versions: SUBSET (0..KnownMax), token: SUBSET Nat]
    BY <1>1, ClientAssumption DEF ClientIInv, StateOK
  <2> QED BY <1>2, <2>1 DEF ClientIInv, StateOK, GrantsOK
<1>5. SlotsOK'
  <2>1. Stream \in Slots /\ \A d \in Slots : calls'[d] = calls[d] /\ wire'[d] = wire[d]
    BY <1>2 DEF Slots
  <2>2. Grows
    BY <1>2, GrowsSame
  <2>3. SlotOK(Stream)'
    BY <1>2, <1>3, <2>1, <2>2, SlotFrame DEF ClientIInv, SlotsOK
  <2>4. ~Active(Stream)'
    BY <1>2, <1>3, <2>1 DEF Active
  <2> QED BY <1>2, <1>3, <2>1, <2>2, <2>3, <2>4, SlotsStep DEF ClientIInv, SlotsOK
<1>6. StreamOK'
  BY <1>2, StreamFrame DEF ClientIInv
<1> QED BY <1>4, <1>5, <1>6 DEF ClientIInv

\* Polling the stream keeps the invariant, if it continues where the
\* application has come.
LEMMA PollIInv ==
    ASSUME ClientIInv, NEW user \in SUBSET Users, NEW since \in 0..MaxEvents, NEW mixed \in BOOLEAN,
           client.built, wire[Stream] = Nothing, Poll(user, since, mixed),
           ~mixed => \A u \in Users : user = {u} => since = position[u]
    PROVE  ClientIInv'
<1> DEFINE call == [pc |-> "waiting", kind |-> "sync", user |-> user, before |-> Len(granted),
                    since |-> since, mixed |-> mixed]
<1>0. Stream \in Slots /\ Stream \notin Calls
  BY DEF Calls, Stream, Slots
<1>1. Len(granted) \in Nat
  BY DEF ClientIInv, GrantsOK
<1>2. call \in CallIn(Stream)
  BY <1>1 DEF CallIn
<1>3. /\ call.kind = "sync" /\ call.before = Len(granted)
      /\ call.user = user /\ call.since = since /\ call.mixed = mixed
  OBVIOUS
<1>4. /\ Send(Stream, "sync", "sync", call)
      /\ UNCHANGED <<client, server, position, heard, crossed, granted, begun, faults>>
  BY DEF Poll
<1> HIDE DEF call
<1>5. /\ DOMAIN calls' = Slots /\ DOMAIN wire' = Slots
      /\ \A d \in Slots \ {Stream} : calls'[d] = calls[d] /\ wire'[d] = wire[d]
      /\ SlotOK(Stream)' /\ (calls'[Stream] = call \/ calls'[Stream] = Free)
  <2>1. "sync" \in DOMAIN endpoint
    BY ClientAssumption
  <2>2. "sync" = "build" <=> ~client.built
    OBVIOUS
  <2> QED BY <1>0, <1>2, <1>3, <1>4, <2>1, <2>2, SendSlot
<1>6. Grows
  BY <1>4, GrowsSame
<1>7. SlotsOK'
  BY <1>0, <1>4, <1>5, <1>6, SlotsStep DEF ClientIInv
<1>8. StreamOK'
  <2>1. EachEventOnce'
    BY <1>4 DEF ClientIInv, StreamOK, EachEventOnce
  <2>2. Active(Stream)' => calls'[Stream] = call
    BY <1>5 DEF Active, Free
  <2> QED BY <1>3, <1>4, <2>1, <2>2 DEF ClientIInv, StreamOK
<1>9. StateOK' /\ GrantsOK'
  BY <1>4 DEF ClientIInv, StateOK, GrantsOK
<1> QED BY <1>7, <1>8, <1>9 DEF ClientIInv

\* Opening the stream and going on with it keep the invariant.
LEMMA StreamIInv ==
    ASSUME ClientIInv, sync \/ next_iteration
    PROVE  ClientIInv'
<1>1. CASE sync
  <2>1. PICK u \in UserOf(client.token) : Poll({u}, position[u], FALSE)
    BY <1>1 DEF sync
  <2>2. u \in Users
    <3>1. server.session \in Seq(Users) /\ Issued = 1..Len(server.session)
      BY DEF ClientIInv, StateOK, Issued
    <3>2. \A t \in Issued : server.session[t] \in Users
      BY <3>1, ElementType
    <3> QED BY <3>2 DEF UserOf
  <2>3. client.built /\ wire[Stream] = Nothing
    BY <1>1 DEF sync
  <2>4. position[u] \in 0..MaxEvents /\ \A v \in Users : {u} = {v} => position[u] = position[v]
    BY <2>2 DEF ClientIInv, StreamOK
  <2> QED BY <2>1, <2>2, <2>3, <2>4, PollIInv
<1>2. CASE next_iteration
  <2> DEFINE call == calls[Stream]
  <2>1. /\ call.pc = "yielded" /\ wire[Stream] = Nothing
        /\ Poll(call.user, call.since, call.mixed)
    BY <1>2 DEF next_iteration
  <2>2. Active(Stream) /\ SlotOK(Stream)
    BY <2>1 DEF Active, ClientIInv, SlotsOK, Slots
  <2>3. call \in CallIn(Stream)
    BY <2>2 DEF SlotOK, Active, Free
  <2>4. /\ call.user \in SUBSET Users /\ call.since \in 0..MaxEvents /\ call.mixed \in BOOLEAN
        /\ call.kind = "sync"
    BY <2>3 DEF CallIn
  <2>5. client.built
    BY <2>2, <2>4 DEF SlotOK
  <2>6. ~call.mixed => \A u \in Users : call.user = {u} => call.since = position[u]
    BY <2>2 DEF ClientIInv, StreamOK
  <2> QED BY <2>1, <2>4, <2>5, <2>6, PollIInv
<1> QED BY <1>1, <1>2

\* Ending a call without an answer keeps the invariant.
LEMMA GiveUpIInv ==
    ASSUME ClientIInv, NEW c \in Slots, calls' = [calls EXCEPT ![c] = Free],
           wire' = wire \/ wire' = [wire EXCEPT ![c] = Nothing],
           UNCHANGED <<client, server, position, heard, crossed, granted, begun>>, faults' \in 0..MaxFaults
    PROVE  ClientIInv'
<1>0. DOMAIN calls = Slots /\ DOMAIN wire = Slots /\ Stream \in Slots
  BY DEF ClientIInv, SlotsOK, Slots
<1>1. Grows
  BY GrowsSame
<1>2. /\ DOMAIN calls' = Slots /\ DOMAIN wire' = Slots /\ calls'[c] = Free
      /\ \A d \in Slots \ {c} : calls'[d] = calls[d] /\ wire'[d] = wire[d]
      /\ wire'[c] = wire[c] \/ wire'[c] = Nothing
  BY <1>0
<1>3. SlotOK(c)'
  BY <1>1, <1>2, FreeSlot, GivenUpSlot DEF ClientIInv, SlotsOK
<1>4. ~Active(c)'
  BY <1>2 DEF Active, Free
<1>5. SlotsOK'
  BY <1>1, <1>2, <1>3, <1>4, SlotsStep DEF ClientIInv
<1>6. StreamOK'
  BY <1>0, <1>2, StreamFrame DEF ClientIInv
<1>7. StateOK' /\ GrantsOK'
  BY DEF ClientIInv, StateOK, GrantsOK
<1> QED BY <1>5, <1>6, <1>7 DEF ClientIInv

\* What the server does by itself keeps the invariant.
LEMMA ServerIInv ==
    ASSUME ClientIInv, Expire \/ Upgrade \/ NewEvent
    PROVE  ClientIInv'
<1>1. /\ UNCHANGED <<client, calls, wire, position, heard, crossed, granted, begun>>
      /\ server'.session = server.session
      /\ server' \in [versions: Ranges, session: Seq(Users), revoked: SUBSET Nat,
                      timeline: [Users -> 0..MaxEvents]]
  <2>0. server \in [versions: Ranges, session: Seq(Users), revoked: SUBSET Nat,
                    timeline: [Users -> 0..MaxEvents]]
    BY DEF ClientIInv, StateOK
  <2>1. CASE Expire
    <3>1. Issued \subseteq Nat
      BY <2>0 DEF Issued
    <3> QED BY <2>0, <2>1, <3>1 DEF Expire
  <2>2. CASE Upgrade
    BY <2>0, <2>2 DEF Upgrade
  <2>3. CASE NewEvent
    <3>1. PICK u \in Users : /\ server.timeline[u] < MaxEvents
                             /\ server' = [server EXCEPT !.timeline[u] = @ + 1]
      BY <2>3, ClientAssumption DEF NewEvent
    <3>2. server.timeline \in [Users -> 0..MaxEvents] /\ MaxEvents \in Nat
      BY <2>0, ClientAssumption
    <3>3. [server.timeline EXCEPT ![u] = @ + 1] \in [Users -> 0..MaxEvents]
      BY <3>1, <3>2
    <3>4. server' = [server EXCEPT !.timeline = [server.timeline EXCEPT ![u] = @ + 1]]
      BY <2>0, <3>1
    <3> QED BY <2>0, <2>3, <3>3, <3>4 DEF NewEvent
  <2> QED BY <2>1, <2>2, <2>3
<1>2. faults' \in 0..MaxFaults
  BY ClientAssumption DEF ClientIInv, StateOK, Expire, Upgrade, NewEvent, Disturb
<1>3. Grows
  BY <1>1, GrowsSame
<1>4. SlotsOK'
  <2>1. \A d \in Slots : SlotOK(d)'
    BY <1>1, <1>3, SlotFrame DEF ClientIInv, SlotsOK
  <2> QED BY <1>1, <2>1 DEF ClientIInv, SlotsOK, Active
<1>5. StreamOK'
  BY <1>1, StreamFrame DEF ClientIInv
<1>6. StateOK' /\ GrantsOK'
  BY <1>1, <1>2 DEF ClientIInv, StateOK, GrantsOK
<1> QED BY <1>4, <1>5, <1>6 DEF ClientIInv

\* Answering a request keeps the invariant.
LEMMA ServeIInv ==
    ASSUME ClientIInv, NEW c \in Slots, Serve(c)
    PROVE  ClientIInv'
<1> DEFINE q == wire[c]
<1>0. DOMAIN calls = Slots /\ DOMAIN wire = Slots /\ Stream \in Slots /\ SlotOK(c)
  BY DEF ClientIInv, SlotsOK, Slots
<1>1. /\ q.is = "request" /\ q \in Request(c) /\ RequestOK(c)
      /\ Active(c) => calls[c] = q.call
  BY <1>0 DEF Serve, SlotOK, RequestOK
<1>2. UNCHANGED <<client, calls, position, heard, crossed, granted, begun, faults>>
  BY DEF Serve
<1>3. /\ server \in [versions: Ranges, session: Seq(Users), revoked: SUBSET Nat,
                     timeline: [Users -> 0..MaxEvents]]
      /\ MaxEvents \in Nat /\ Len(server.session) \in Nat
  BY ClientAssumption DEF ClientIInv, StateOK
<1>4. q.call \in CallIn(c) /\ q.call.user \in SUBSET Users
  BY <1>1 DEF Request, CallIn
\* What the server answers, and what becomes of it.
<1> DEFINE Fine(body) ==
              body.ok =>
                /\ q.call.kind \in {"login", "register"} =>
                      body.token \in SUBSET (1..Len(server'.session)) /\ Option(body.token)
                /\ q.call.kind = "sync" =>
                      /\ body.user \in Users /\ body.from = q.call.since
                      /\ body.next_batch \in body.from..MaxEvents
<1>5. ASSUME NEW user \in SUBSET Users, NEW told, Admit(c, user, told), q.call.kind \in {"login", "register"}
      PROVE  /\ server' \in [versions: Ranges, session: Seq(Users), revoked: SUBSET Nat,
                             timeline: [Users -> 0..MaxEvents]]
             /\ Len(server.session) <= Len(server'.session)
             /\ \E body : Fine(body) /\ Answer(c, body)
  <2>1. PICK u \in user : /\ server' = [server EXCEPT !.session = Append(@, u)]
                          /\ Answer(c, [ok |-> TRUE, token |-> IF told THEN {Len(server.session) + 1} ELSE {}])
    BY <1>5 DEF Admit
  <2>2. /\ Append(server.session, u) \in Seq(Users)
        /\ Len(Append(server.session, u)) = Len(server.session) + 1
    BY <1>3
  <2>3. /\ server' \in [versions: Ranges, session: Seq(Users), revoked: SUBSET Nat,
                        timeline: [Users -> 0..MaxEvents]]
        /\ server'.session = Append(server.session, u)
    BY <1>3, <2>1, <2>2
  <2> DEFINE body == [ok |-> TRUE, token |-> IF told THEN {Len(server.session) + 1} ELSE {}]
  <2>4. body.token \in SUBSET (1..Len(server'.session)) /\ Option(body.token)
    BY <1>3, <2>2, <2>3 DEF Option
  <2>5. q.call.kind # "sync"
    BY <1>5
  <2>6. Fine(body)
    <3> HIDE DEF body
    <3> QED BY <2>4, <2>5
  <2>7. Answer(c, body)
    BY <2>1
  <2>8. Len(server.session) <= Len(server'.session)
    BY <1>3, <2>2, <2>3
  <2> HIDE DEF body, Fine
  <2> QED BY <2>3, <2>6, <2>7, <2>8
<1>6. /\ server' \in [versions: Ranges, session: Seq(Users), revoked: SUBSET Nat,
                      timeline: [Users -> 0..MaxEvents]]
      /\ Len(server.session) <= Len(server'.session)
      /\ \E body : Fine(body) /\ Answer(c, body)
  <2>1. CASE Refuse(c)
    <3>1. Fine([ok |-> FALSE])
      OBVIOUS
    <3> QED BY <1>3, <2>1, <3>1 DEF Refuse
  <2>2. CASE /\ q.call.kind = "build" /\ server' = server
             /\ Answer(c, [ok |-> TRUE, versions |-> server.versions])
    <3>1. Fine([ok |-> TRUE, versions |-> server.versions])
      BY <2>2
    <3> QED BY <1>3, <2>2, <3>1
  <2>3. CASE q.call.kind = "login" /\ Admit(c, q.call.user, TRUE)
    <3> HIDE DEF Fine
    <3> QED BY <1>4, <1>5, <2>3
  <2>4. CASE q.call.kind = "register" /\ \E told \in BOOLEAN : Admit(c, q.call.user, told)
    <3> HIDE DEF Fine
    <3> QED BY <1>4, <1>5, <2>4
  <2>5. CASE q.call.kind = "request" /\ server' = server /\ Answer(c, [ok |-> TRUE])
    <3>1. Fine([ok |-> TRUE])
      BY <2>5
    <3> QED BY <1>3, <2>5, <3>1
  <2>6. CASE /\ q.call.kind = "sync" /\ server' = server
             /\ \E u \in UserOf(q.token) :
                   Answer(c, [ok |-> TRUE, user |-> u, from |-> q.call.since,
                              next_batch |-> IF server.timeline[u] > q.call.since
                                             THEN server.timeline[u] ELSE q.call.since])
    <3> DEFINE Batch(u) == [ok |-> TRUE, user |-> u, from |-> q.call.since,
                            next_batch |-> IF server.timeline[u] > q.call.since
                                           THEN server.timeline[u] ELSE q.call.since]
    <3>1. PICK u \in UserOf(q.token) : Answer(c, Batch(u))
      BY <2>6
    <3>2. u \in Users
      <4>1. Issued = 1..Len(server.session)
        BY <1>3 DEF Issued
      <4>2. \A t \in Issued : server.session[t] \in Users
        BY <1>3, <4>1, ElementType
      <4> QED BY <4>2 DEF UserOf
    <3>3. q.call.since \in 0..MaxEvents
      <4>1. c = Stream
        BY <1>4, <2>6 DEF CallIn
      <4> QED BY <1>4, <4>1 DEF CallIn
    <3>4. server.timeline[u] \in 0..MaxEvents
      BY <1>3, <3>2
    <3>5. Batch(u).next_batch \in q.call.since..MaxEvents
      BY <1>3, <3>3, <3>4
    <3>6. Batch(u).user = u /\ Batch(u).from = q.call.since
      OBVIOUS
    <3>7. Fine(Batch(u))
      <4> HIDE DEF Batch
      <4> QED BY <2>6, <3>2, <3>5, <3>6
    <3> HIDE DEF Fine, Batch
    <3> QED BY <1>3, <2>6, <3>1, <3>7
  <2> HIDE DEF Fine
  <2> QED BY <2>1, <2>2, <2>3, <2>4, <2>5, <2>6 DEF Serve
<1>7. PICK body : Fine(body) /\ Answer(c, body)
  BY <1>6
<1>8. /\ DOMAIN wire' = Slots /\ wire'[c] = [is |-> "answer", body |-> body]
      /\ \A d \in Slots \ {c} : wire'[d] = wire[d]
  BY <1>0, <1>7 DEF Answer
<1>9. Grows
  <2>1. server'.session \in Seq(Users) /\ Len(granted) \in Nat /\ granted' = granted
    BY <1>2, <1>6 DEF ClientIInv, GrantsOK
  <2> QED BY <1>3, <1>6, <2>1 DEF Grows
<1>10. SlotOK(c)'
  <2>1. Active(c)' <=> Active(c)
    BY <1>2 DEF Active
  <2>2. wire'[c].is = "answer" /\ wire'[c].body = body
    BY <1>8
  <2>3. AnswerOK(c)'
    BY <1>1, <1>2, <1>7, <2>1, <2>2 DEF AnswerOK
  <2> QED BY <1>0, <1>2, <2>1, <2>2, <2>3 DEF SlotOK
<1>11. SlotsOK'
  <2>1. Active(c)' => Active(c)
    BY <1>2 DEF Active
  <2> QED BY <1>0, <1>2, <1>8, <1>9, <1>10, <2>1, SlotsStep DEF ClientIInv
<1>12. StreamOK'
  BY <1>2, StreamFrame DEF ClientIInv
<1>13. StateOK' /\ GrantsOK'
  BY <1>2, <1>3, <1>6 DEF ClientIInv, StateOK, GrantsOK
<1> QED BY <1>11, <1>12, <1>13 DEF ClientIInv

\* The answer to a call that is not the stream keeps the invariant.
LEMMA DoneIInv ==
    ASSUME ClientIInv, NEW c \in Calls, build_done(c) \/ log_in_done(c) \/ send_request_done(c)
    PROVE  ClientIInv'
<1> USE DEF Answered
<1>0. /\ DOMAIN calls = Slots /\ DOMAIN wire = Slots /\ SlotOK(c)
      /\ Stream \in Slots /\ c \in Slots /\ c # Stream
  BY DEF ClientIInv, SlotsOK, Slots, Calls, Stream
<1>1. /\ calls' = [calls EXCEPT ![c] = Free] /\ wire' = [wire EXCEPT ![c] = Nothing]
      /\ UNCHANGED <<server, position, heard, crossed, begun, faults>>
      /\ Active(c) /\ wire[c].is = "answer" /\ wire[c].body.ok
  BY DEF build_done, log_in_done, send_request_done
<1>2. /\ DOMAIN calls' = Slots /\ DOMAIN wire' = Slots
      /\ calls'[c] = Free /\ wire'[c] = Nothing
      /\ \A d \in Slots \ {c} : calls'[d] = calls[d] /\ wire'[d] = wire[d]
  BY <1>0, <1>1
<1>3. SlotOK(c)' /\ ~Active(c)'
  BY <1>2, FreeSlot DEF Active, Free
<1>4. StreamOK'
  BY <1>0, <1>1, <1>2, StreamFrame DEF ClientIInv
<1>5. SUFFICES StateOK' /\ GrantsOK' /\ SlotsOK'
  BY <1>4 DEF ClientIInv
<1>6. CASE build_done(c)
  <2>1. /\ client' = [client EXCEPT !.built = TRUE, !.versions = known_versions(wire[c].body.versions)]
        /\ granted' = granted /\ calls[c].kind = "build"
    BY <1>6 DEF build_done
  <2>2. /\ client'.token = client.token
        /\ client' \in [built: BOOLEAN, versions: SUBSET (0..KnownMax), token: SUBSET Nat]
    BY <2>1 DEF ClientIInv, StateOK, known_versions
  <2>3. StateOK' /\ GrantsOK'
    BY <1>1, <2>1, <2>2 DEF ClientIInv, StateOK, GrantsOK
  <2>4. ~client.built
    BY <1>0, <1>1, <2>1 DEF SlotOK
  <2>5. \A d \in Slots \ {c} : ~Active(d)
    <3>1. \A d \in Calls \ {c} : ~Active(d)
      BY <1>1, <2>1 DEF ClientIInv, SlotsOK
    <3>2. ~Active(Stream)
      <4>1. SlotOK(Stream)
        BY <1>0 DEF ClientIInv, SlotsOK
      <4>2. Active(Stream) => calls[Stream] \in CallIn(Stream) /\ calls[Stream].kind = "build"
        BY <2>4, <4>1 DEF SlotOK, Active, Free
      <4> QED BY <4>2 DEF CallIn
    <3> QED BY <3>1, <3>2 DEF Slots
  <2>6. Grows
    BY <1>1, <2>1, GrowsSame
  <2> QED BY <1>0, <1>2, <1>3, <2>3, <2>4, <2>5, <2>6, SlotsStep DEF ClientIInv
<1>7. CASE log_in_done(c)
  <2> DEFINE g == [token |-> wire[c].body.token, before |-> calls[c].before]
  <2>1. /\ client' = [client EXCEPT !.token = wire[c].body.token]
        /\ granted' = Append(granted, g) /\ calls[c].kind \in {"login", "register"}
    BY <1>7 DEF log_in_done
  <2>2. /\ wire[c].body.token \in SUBSET (1..Len(server.session)) /\ Option(wire[c].body.token)
        /\ calls[c].before \in 1..Len(granted)
    BY <1>0, <1>1, <2>1 DEF SlotOK, AnswerOK
  <2>3. /\ client'.token = wire[c].body.token /\ client'.built = client.built
        /\ client'.versions = client.versions
        /\ client' \in [built: BOOLEAN, versions: SUBSET (0..KnownMax), token: SUBSET Nat]
    <3>1. client \in [built: BOOLEAN, versions: SUBSET (0..KnownMax), token: SUBSET Nat]
      BY DEF ClientIInv, StateOK
    <3>2. wire[c].body.token \in SUBSET Nat
      BY <2>2
    <3> QED BY <2>1, <3>1, <3>2
  <2>4. StateOK'
    BY <1>1, <2>2, <2>3 DEF ClientIInv, StateOK
  <2>5. /\ granted \in Seq(Grant) /\ Len(granted) \in Nat /\ Len(granted) >= 1
        /\ \A j \in 1..Len(granted) : granted[j].before < j
    BY DEF ClientIInv, GrantsOK
  <2>6. g \in Grant /\ g.before = calls[c].before /\ g.token = wire[c].body.token
    BY <2>2, <2>5 DEF Grant
  <2> HIDE DEF g
  <2>7. /\ granted' \in Seq(Grant) /\ Len(granted') = Len(granted) + 1
        /\ granted'[Len(granted) + 1] = g
        /\ \A j \in 1..Len(granted) : granted'[j] = granted[j]
    BY <2>1, <2>5, <2>6
  <2>8. GrantsOK'
    <3>1. ASSUME NEW j \in 1..Len(granted') PROVE granted'[j].before < j
      <4>1. CASE j = Len(granted) + 1
        BY <2>2, <2>5, <2>6, <2>7, <4>1
      <4>2. CASE j # Len(granted) + 1
        BY <2>5, <2>7, <4>2
      <4> QED BY <4>1, <4>2
    <3> QED BY <2>3, <2>5, <2>6, <2>7, <3>1 DEF GrantsOK
  <2>9. Grows
    BY <1>1, <2>5, <2>7 DEF Grows, ClientIInv, StateOK
  <2> QED BY <1>0, <1>2, <1>3, <2>3, <2>4, <2>8, <2>9, SlotsStep DEF ClientIInv
<1>8. CASE send_request_done(c)
  <2>1. UNCHANGED <<client, granted>>
    BY <1>8 DEF send_request_done
  <2>2. Grows
    BY <1>1, <2>1, GrowsSame
  <2>3. StateOK' /\ GrantsOK'
    BY <1>1, <2>1 DEF ClientIInv, StateOK, GrantsOK
  <2> QED BY <1>0, <1>2, <1>3, <2>1, <2>2, <2>3, SlotsStep DEF ClientIInv
<1> QED BY <1>6, <1>7, <1>8

\* What a batch adds to all that came before it.
LEMMA EventsAre ==
    ASSUME NEW batch, batch.from \in Int, batch.next_batch \in Int, 0 <= batch.from,
           batch.from <= batch.next_batch, batch.next_batch <= MaxEvents
    PROVE  /\ Events(batch) \in Seq(1..MaxEvents)
           /\ [e \in 1..batch.from |-> e] \o Events(batch) = [e \in 1..batch.next_batch |-> e]
<1> DEFINE n == batch.from
           m == batch.next_batch
           a == [e \in 1..n |-> e]
           b == [e \in 1..(m - n) |-> n + e]
           ab == [e \in 1..m |-> e]
<1>0. MaxEvents \in Nat
  BY ClientAssumption
<1>1. /\ n \in Nat /\ m \in Nat /\ n <= m /\ m <= MaxEvents /\ m - n \in Nat
  BY <1>0
<1>2. Events(batch) = b
  BY DEF Events
<1> HIDE DEF n, m
<1>3. b \in Seq(1..MaxEvents) /\ Len(b) = m - n
  <2>1. \A e \in 1..(m - n) : n + e \in 1..MaxEvents
    BY <1>0, <1>1
  <2> QED BY <1>1, <2>1
<1>4. a \in Seq(Nat) /\ Len(a) = n
  BY <1>1
<1>5. b \in Seq(Nat)
  BY <1>1
<1>6. /\ a \o b \in Seq(Nat) /\ Len(a \o b) = m
      /\ \A e \in 1..m : (a \o b)[e] = IF e <= n THEN a[e] ELSE b[e - n]
  BY <1>1, <1>3, <1>4, <1>5, ConcatProperties
<1>7. \A e \in 1..m : (a \o b)[e] = e
  <2>1. ASSUME NEW e \in 1..m PROVE (a \o b)[e] = e
    <3>1. CASE e <= n
      <4>1. a[e] = e
        BY <1>1, <3>1
      <4> QED BY <1>6, <3>1, <4>1
    <3>2. CASE ~(e <= n)
      <4>1. e - n \in 1..(m - n) /\ n + (e - n) = e
        BY <1>1, <3>2
      <4>2. b[e - n] = n + (e - n)
        BY <4>1
      <4> HIDE DEF b
      <4> QED BY <1>6, <3>2, <4>1, <4>2
    <3> QED BY <3>1, <3>2
  <2> QED BY <2>1
<1>8. ab \in Seq(Nat) /\ Len(ab) = m /\ \A e \in 1..m : ab[e] = e
  BY <1>1
<1> HIDE DEF a, b, ab
<1>9. a \o b = ab
  BY <1>1, <1>6, <1>7, <1>8, SeqEqual
<1> QED BY <1>2, <1>3, <1>9 DEF a, b, ab, n, m

\* Handing a batch to the application keeps the invariant: the events of the
\* batch are the ones after those it was handed before.
LEMMA YieldIInv ==
    ASSUME ClientIInv, sync_yield
    PROVE  ClientIInv'
<1> DEFINE batch == wire[Stream].body
           call == calls[Stream]
           mixed == call.mixed \/ call.user # {batch.user}
           new == [call EXCEPT !.pc = "yielded", !.since = NextSince(batch), !.mixed = mixed]
<1>0. DOMAIN calls = Slots /\ DOMAIN wire = Slots /\ SlotOK(Stream) /\ Stream \in Slots /\ Stream \notin Calls
  BY DEF ClientIInv, SlotsOK, Slots, Calls, Stream
<1>1. /\ wire[Stream].is = "answer" /\ Active(Stream) /\ batch.ok
      /\ wire' = [wire EXCEPT ![Stream] = Nothing] /\ calls' = [calls EXCEPT ![Stream] = new]
      /\ UNCHANGED <<client, server, granted, begun, faults>>
  BY DEF sync_yield, Answered
<1>2. call \in CallIn(Stream)
  BY <1>0, <1>1 DEF SlotOK, Active, Free
<1>3. /\ call.kind = "sync" /\ call.user \in SUBSET Users /\ call.since \in 0..MaxEvents
      /\ call.mixed \in BOOLEAN /\ call.before \in 1..Len(granted) /\ client.built
  BY <1>0, <1>1, <1>2 DEF SlotOK, CallIn
<1>4. /\ batch.user \in Users /\ batch.from = call.since
      /\ batch.next_batch \in batch.from..MaxEvents
  BY <1>0, <1>1, <1>3 DEF SlotOK, AnswerOK
<1>5. MaxEvents \in Nat /\ batch.next_batch \in 0..MaxEvents
  BY <1>3, <1>4, ClientAssumption
<1>6. /\ new \in CallIn(Stream) /\ new.kind = "sync" /\ new.before = call.before /\ new.user = call.user
      /\ new.since = batch.next_batch /\ new.mixed = mixed /\ new.pc = "yielded"
  <2>1. mixed \in BOOLEAN
    BY <1>3
  <2> HIDE DEF mixed
  <2> QED BY <1>2, <1>5, <2>1 DEF CallIn, NextSince
<1> HIDE DEF new
<1>7. /\ DOMAIN calls' = Slots /\ DOMAIN wire' = Slots
      /\ calls'[Stream] = new /\ wire'[Stream] = Nothing
      /\ \A d \in Slots \ {Stream} : calls'[d] = calls[d] /\ wire'[d] = wire[d]
  BY <1>0, <1>1
<1>8. SlotOK(Stream)'
  BY <1>1, <1>3, <1>6, <1>7 DEF SlotOK, Nothing
<1>9. SlotsOK'
  <2>1. Grows
    BY <1>1, GrowsSame
  <2> QED BY <1>0, <1>1, <1>7, <1>8, <2>1, SlotsStep DEF ClientIInv
<1>10. StateOK' /\ GrantsOK'
  BY <1>1 DEF ClientIInv, StateOK, GrantsOK
<1>11. StreamOK'
  <2> DEFINE v == batch.user
             more == heard[v] \o Events(batch)
  <2>0. /\ position \in [Users -> 0..MaxEvents] /\ heard \in [Users -> Seq(1..MaxEvents)]
        /\ crossed \subseteq Users /\ EachEventOnce
        /\ ~call.mixed => \A u \in Users : call.user = {u} => call.since = position[u]
    BY <1>1 DEF ClientIInv, StreamOK
  <2>1. /\ heard' = [heard EXCEPT ![v] = more]
        /\ crossed' = IF mixed THEN crossed \cup {v} ELSE crossed
        /\ \/ position' = [position EXCEPT ![v] = batch.next_batch]
           \/ mixed /\ position' = position
    BY DEF sync_yield
  <2>2. /\ batch.from \in Int /\ batch.next_batch \in Int /\ batch.from <= batch.next_batch
        /\ batch.from >= 0 /\ batch.next_batch <= MaxEvents
    BY <1>3, <1>4, <1>5
  <2>3. v \in Users
    BY <1>4
  <2>4. Events(batch) \in Seq(1..MaxEvents)
    BY <2>2, EventsAre
  <2>5. more \in Seq(1..MaxEvents)
    BY <2>0, <2>3, <2>4
  <2>6. /\ position' \in [Users -> 0..MaxEvents] /\ heard' \in [Users -> Seq(1..MaxEvents)]
        /\ crossed' \subseteq Users /\ heard'[v] = more
        /\ \A u \in Users \ {v} : position'[u] = position[u] /\ heard'[u] = heard[u]
    <3> HIDE DEF more, v
    <3>1. batch.next_batch \in 0..MaxEvents
      BY <1>4, <1>5
    <3> QED BY <2>0, <2>1, <2>3, <2>5, <3>1
  <2>7. CASE mixed
    <3>1. \A u \in Users \ crossed' : u # v /\ u \notin crossed
      BY <2>1, <2>7
    <3>2. EachEventOnce'
      BY <2>0, <2>6, <3>1 DEF EachEventOnce
    <3>3. calls'[Stream].mixed
      BY <1>6, <1>7, <2>7
    <3> QED BY <2>6, <3>2, <3>3 DEF StreamOK
  <2>8. CASE ~mixed
    <3>1. position'[v] = batch.next_batch /\ crossed' = crossed
      BY <2>0, <2>1, <2>3, <2>8
    <3>2. ~call.mixed /\ call.user = {v} /\ batch.from = position[v]
      BY <1>4, <2>0, <2>8
    <3>3. v \notin crossed => more = [e \in 1..batch.next_batch |-> e]
      <4>1. v \notin crossed => heard[v] = [e \in 1..batch.from |-> e]
        BY <2>0, <2>3, <3>2 DEF EachEventOnce
      <4> QED BY <2>2, <4>1, EventsAre
    <3> HIDE DEF more
    <3>4. EachEventOnce'
      <4>1. ASSUME NEW u \in Users, u \notin crossed'
            PROVE  heard'[u] = [e \in 1..position'[u] |-> e]
        <5>1. CASE u = v
          BY <2>6, <3>1, <3>3, <4>1, <5>1
        <5>2. CASE u # v
          BY <2>0, <2>6, <3>1, <4>1, <5>2 DEF EachEventOnce
        <5> QED BY <5>1, <5>2
      <4> QED BY <4>1 DEF EachEventOnce
    <3>5. \A u \in Users : calls'[Stream].user = {u} => calls'[Stream].since = position'[u]
      <4>1. calls'[Stream].user = {v} /\ calls'[Stream].since = batch.next_batch
        BY <1>6, <1>7, <3>2
      <4> QED BY <3>1, <4>1
    <3> QED BY <2>6, <3>4, <3>5 DEF StreamOK
  <2> QED BY <2>7, <2>8
<1> QED BY <1>9, <1>10, <1>11 DEF ClientIInv

-----------------------------------------------------------------------------
(* The theorems. *)

\* Every step of the client, the application and the server keeps the invariant.
LEMMA NextClientIInv == ClientIInv /\ [ClientNext]_clientVars => ClientIInv'
<1> SUFFICES ASSUME ClientIInv, [ClientNext]_clientVars PROVE ClientIInv'
  OBVIOUS
<1>1. CASE supported_matrix_versions
  BY <1>1, ToldIInv
<1>2. CASE http_client \/ log_in \/ register \/ send_request
  <2>1. PICK c \in Calls, kind \in {"build", "login", "register", "request"},
             e \in DOMAIN endpoint, user \in SUBSET Users : begin(c, kind, e, user)
    <3>1. /\ {"versions", "login", "register"} \subseteq DOMAIN endpoint /\ Others \subseteq DOMAIN endpoint
          /\ \A u \in Users : {u} \in SUBSET Users
          /\ Registered \subseteq Users /\ {} \in SUBSET Users
      BY ClientAssumption
    <3>2. CASE http_client
      BY <3>1, <3>2 DEF http_client
    <3>3. CASE log_in
      BY <3>1, <3>3 DEF log_in
    <3>4. CASE register
      BY <3>1, <3>4 DEF register
    <3>5. CASE send_request
      BY <3>1, <3>5 DEF send_request
    <3> QED BY <1>2, <3>2, <3>3, <3>4, <3>5
  <2> QED BY <2>1, BeginIInv
<1>3. CASE sync \/ next_iteration
  BY <1>3, StreamIInv
<1>4. CASE sync_yield
  BY <1>4, YieldIInv
<1>5. ASSUME NEW c \in Slots, Serve(c) PROVE ClientIInv'
  BY <1>5, ServeIInv
<1>6. ASSUME NEW c \in Slots, Failed(c) \/ GiveUp(c) PROVE ClientIInv'
  <2>1. /\ calls' = [calls EXCEPT ![c] = Free]
        /\ wire' = wire \/ wire' = [wire EXCEPT ![c] = Nothing]
        /\ UNCHANGED <<client, server, position, heard, crossed, granted, begun>>
    BY <1>6 DEF Failed, GiveUp
  <2>2. faults' \in 0..MaxFaults
    BY <1>6, ClientAssumption DEF ClientIInv, StateOK, Failed, GiveUp, Disturb
  <2> QED BY <2>1, <2>2, GiveUpIInv
<1>7. ASSUME NEW c \in Calls, build_done(c) \/ log_in_done(c) \/ send_request_done(c) PROVE ClientIInv'
  BY <1>7, DoneIInv
<1>8. CASE Expire \/ Upgrade \/ NewEvent
  BY <1>8, ServerIInv
<1>9. CASE CloseMixed
  <2>1. Stream \in Slots /\ faults \in 0..MaxFaults
    BY DEF Slots, ClientIInv, StateOK
  <2> QED BY <1>9, <2>1, GiveUpIInv DEF CloseMixed
<1>10. CASE UNCHANGED clientVars
  BY <1>10 DEF clientVars, ClientIInv, StateOK, GrantsOK, SlotsOK, SlotOK, RequestOK, AnswerOK,
               StreamOK, EachEventOnce, Active
<1> QED BY <1>1, <1>2, <1>3, <1>4, <1>5, <1>6, <1>7, <1>8, <1>9, <1>10 DEF ClientNext

\* The invariant is that of every reachable state.
THEOREM ClientInvariant == ClientSpec => []ClientIInv
<1>1. ClientInit => ClientIInv
  BY InitClientIInv
<1>2. ClientIInv /\ [ClientNext]_clientVars => ClientIInv'
  BY NextClientIInv
<1> QED BY <1>1, <1>2, PTL DEF ClientSpec

\* Each event of a user is handed out once and in order, however the calls of a
\* client, the answers and the faults interleave (sync of client.rs).
THEOREM EventsHandedOutOnce == ClientSpec => []EachEventOnce
<1>1. ClientIInv => EachEventOnce
  BY DEF ClientIInv, StreamOK
<1> QED BY <1>1, ClientInvariant, PTL

\* The client never holds, and no request carries, a token that was replaced
\* before the request, or the call that replaced it, began (log_in, register_*
\* and send_customized_request).
THEOREM TokensInOrder == ClientSpec => []TokensFollowLogins
<1>1. ClientIInv => TokensFollowLogins
  <2> SUFFICES ASSUME ClientIInv PROVE TokensFollowLogins
    OBVIOUS
  <2>1. /\ Len(granted) \in Nat /\ Len(granted) >= 1
        /\ \A j \in 1..Len(granted) : granted[j].before < j /\ granted[j].before \in Nat
        /\ client.token = granted[Len(granted)].token
    <3>1. \A j \in 1..Len(granted) : granted[j] \in Grant
      BY ElementType DEF ClientIInv, GrantsOK
    <3> QED BY <3>1 DEF ClientIInv, GrantsOK, Grant
  <2>2. ASSUME NEW n \in 1..Len(granted) PROVE Current(granted[n].token, n)
    <3>1. \A j \in 1..n : granted[j].before < n
      BY <2>1
    <3> QED BY <2>1, <3>1 DEF Current
  <2>3. ClientTypeOK
    <3>1. /\ DOMAIN calls = Slots /\ DOMAIN wire = Slots
          /\ \A c \in Slots : wire[c].is \in {"nothing", "request", "answer"}
      BY DEF ClientIInv, SlotsOK, SlotOK, Nothing
    <3>2. Issued = 1..Len(server.session)
      BY DEF ClientIInv, StateOK, Issued
    <3> QED BY <3>1, <3>2 DEF ClientIInv, StateOK, StreamOK, ClientTypeOK
  <2>4. Current(client.token, Len(granted))
    <3>1. Len(granted) \in 1..Len(granted)
      BY <2>1
    <3> QED BY <2>1, <2>2, <3>1
  <2>5. ASSUME NEW c \in Slots, wire[c].is = "request", wire[c].token # {}
        PROVE  Current(wire[c].token, wire[c].call.before)
    <3>1. /\ wire[c].call.before \in 1..Len(granted)
          /\ wire[c].token = granted[wire[c].call.before].token
      BY <2>5 DEF ClientIInv, SlotsOK, SlotOK, RequestOK
    <3> QED BY <2>2, <3>1
  <2> QED BY <2>3, <2>4, <2>5 DEF TokensFollowLogins
<1> QED BY <1>1, ClientInvariant, PTL

\* A server that still supports the client's versions serves every stable path
\* the client uses, and select_path never panics (builder.rs and metadata.rs).
THEOREM StablePathsServed == ClientSpec => []PathsServed
<1>1. ClientIInv => PathsServed
  <2> SUFFICES ASSUME ClientIInv, NEW c \in Slots
               PROVE  /\ calls[c].pc # "panicked"
                      /\ wire[c].is = "request" /\ wire[c].call.kind # "build"
                            /\ client.versions \subseteq server.versions
                         => \/ Served(server.versions, wire[c].endpoint, wire[c].path)
                            \/ wire[c].path = unstable(endpoint[wire[c].endpoint].history)
    BY DEF PathsServed
  <2>1. SlotOK(c)
    BY DEF ClientIInv, SlotsOK
  <2>2. calls[c].pc # "panicked"
    <3>1. calls[c] \in CallIn(c) => calls[c].pc \in {"waiting", "yielded"}
      BY DEF CallIn
    <3> QED BY <2>1, <3>1 DEF SlotOK, Free
  <2>3. ASSUME wire[c].is = "request", wire[c].call.kind # "build",
               client.versions \subseteq server.versions
        PROVE  \/ Served(server.versions, wire[c].endpoint, wire[c].path)
               \/ wire[c].path = unstable(endpoint[wire[c].endpoint].history)
    <3> DEFINE e == wire[c].endpoint
               h == endpoint[e].history
    <3>1. /\ e \in DOMAIN endpoint
          /\ select_path(h, client.versions) = [path |-> wire[c].path, err |-> ""]
      BY <2>1, <2>3 DEF SlotOK, RequestOK, Request
    <3>2. client.versions \in SUBSET Nat /\ server.versions \in Ranges
      BY ClientAssumption DEF ClientIInv, StateOK
    <3>3. h \in HistoryOf(STRING) /\ ValidHistory(h)
      BY <3>1, ClientAssumption
    <3>4. select_path(h, client.versions).err = "" /\ select_path(h, client.versions).path = wire[c].path
      <4> DEFINE selected == select_path(h, client.versions)
      <4>1. selected = [path |-> wire[c].path, err |-> ""]
        BY <3>1
      <4> HIDE DEF selected
      <4>2. selected.err = "" /\ selected.path = wire[c].path
        BY <4>1
      <4> QED BY <4>2 DEF selected
    <3> HIDE DEF e
    <3>5. \/ /\ versioning_decision_for(h, client.versions) = "stable"
             /\ wire[c].path = stable_endpoint_for(h, client.versions)
          \/ wire[c].path = unstable(h)
      BY <3>2, <3>3, <3>4, SelectedPath
    <3>6. CASE /\ versioning_decision_for(h, client.versions) = "stable"
               /\ wire[c].path = stable_endpoint_for(h, client.versions)
      BY <2>3, <3>1, <3>2, <3>6, StablePathServed DEF e
    <3> QED BY <3>5, <3>6 DEF e
  <2> QED BY <2>2, <2>3
<1> QED BY <1>1, ClientInvariant, PTL

=============================================================================
