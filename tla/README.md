# Verification of ruma: rooms, push rules, clients, signatures, HTML and releases

This directory holds TLA+ models of the parts of ruma that decide something or
go through several steps: which state a Matrix room has after a fork, which
events are allowed in it, which push rule speaks for an event, which token and
path a client's request carries, what of an event its hashes and signatures
vouch for, what is left of a message's HTML, and what an interrupted release
leaves behind. The models are checked with TLC on small instances; most of
the safety properties are also proved with TLAPS, for every instance. `PROJECT.json` lists
components, runs, mutants, the map from definitions to source lines, hazards,
findings and theorems.

## 1. Inventory

ruma is a workspace of crates, most of which define types: requests, responses,
event contents, identifiers, and the macros that derive their conversions. The
logic sits in a few places.

| Component | State it keeps | Operations | Modelled in |
|---|---|---|---|
| `ruma-state-res/src/lib.rs`, `resolve` | none between calls; within one, the full conflicted set, the power event graph, the resolved state, the mainline | `resolve` and its stages | `StateRes`, `StateResProps` |
| `ruma-state-res/src/lib.rs`, `lexicographical_topological_sort` | outdegree map, reverse graph, heap, list | one call | `TopoSort`, `TopoOrder`, `EventOrder` |
| `ruma-state-res/src/event_auth.rs` (with `power_levels.rs`, `room_version.rs`) | none | `auth_check`, `auth_types_for_event` | `EventAuth`, driven by `RoomAuth` |
| `ruma-events/src/room/power_levels.rs`, `RoomPowerLevels` | a content | `user_can_*`, `max` | `RoomPowerLevels`, compared in `RoomAuth` |
| `ruma-events/src/room/member/change.rs`, `membership_change` | none | one function | `MemberChange`, compared in `RoomAuth` |
| `ruma-common/src/push.rs`, `push/predefined.rs`, `push/iter.rs` | five ordered sets of rules | `insert`, `set_enabled`, `set_actions`, `remove`, `update_with_server_default`, `get_match` | `PushRules` |
| `ruma-common/src/push/condition.rs`, `matches_word` | indices into value and pattern | one recursive call | `WordMatch` |
| `ruma-client/src/client.rs`, `client/builder.rs`, `lib.rs` | access token behind a mutex, versions; `since` of a sync stream | building, `log_in`, `register_*`, `send_request*`, `sync` | `Client` |
| `ruma-common/src/api/metadata.rs` | none | `VersionHistory::new`, `select_path`, `authorization_header` | `Endpoint`, used by `Client` |
| `ruma-signatures/src/functions.rs` | the object being signed | `sign_json`, `verify_json`, `hash_and_sign_event`, `verify_event`, `required_keys`, `content_hash`, `reference_hash` | `Signatures` |
| `ruma-common/src/canonical_json.rs` | the object being redacted | `redact*` | `Redaction`, used by `Signatures` |
| `ruma-html` | a tree of reference-counted nodes, the walk's stack | the parser's callbacks, `sanitize_with` | `HtmlTree`, `Sanitizer` |
| `xtask/src/release.rs`, `cargo.rs` | working tree, commits, tags, remote, crates.io, GitHub | `ReleaseTask::run` | `Release` |
| endpoint types, event contents, identifiers, headers, macros | none | conversions | not modelled (section 9) |

How they interact. A homeserver calls `resolve` with the state of every fork,
the auth chains of those states, and two closures, `event_fetch` and
`event_exists`, that ask its event store. `resolve` sorts the conflicted control
events with `lexicographical_topological_sort`, runs them through `auth_check`
one after the other, sorts what is left along the mainline and runs that through
`auth_check` too. Each call of a closure is an await: the store may change in
between, and may not have an event it said exists. A client asks
`RoomPowerLevels` what to offer its user and `membership_change` what to call
what it sees, and expects servers, which ask `auth_check`, to agree. A server
keeps a `Ruleset` per user and asks `get_match` for each event; a content rule
asks `matches_word`. Every call of a `Client` copies the token, has `Endpoint`
select a path for the versions learnt when the client was built, and waits;
answers to logins replace the token for all. Servers pass events on: one hashes
and signs, another redacts, a third signs too, and each verifies what it gets,
on its redacted form. The sanitizer rewrites a tree in place while it walks it.

What is hard about it:

* *Determinism.* Everything in resolution passes through hash maps and sets; two
  servers must get the same state from the same forks.
* *Awaits.* What was read from the store in one stage is read again in a later
  one. A client's token is read before a request and written after an answer.
* *Errors and rejections.* A missing event is skipped in one loop, dropped
  silently in another, and fatal in a third. `sign_json` has taken the object
  apart when it fails.
* *Sequences of legal steps.* Bans, invites, restricted joins and changes of
  power levels, each allowed by the state before, must not add up to something
  nobody was allowed to do; signing, redacting and signing again must not make
  an event unacceptable.
* *Positions.* Push rules are moved by indices computed before the move; the
  search for a word goes on in a string cut off after a failure; the sanitizer's
  iterator has taken its next sibling before it moves the current one.
* *Crashes and retries.* A release changes four stores one after the other, and
  may stop between any two.

What makes each component correct is stated by the properties in section 5.

## 2. Modules

```
Lists        retain, on lists (used by StateRes, PushRules, Sanitizer)
EventOrder   the sort's order and graphs
 ├─ TopoOrder      what the sort promises (abstract)
 ├─ TopoSort       the heap algorithm; INSTANCE TopoOrder (refinement)
 │   ├─ MCTopoSort, TopoSortProofs
 └─ StateRes       resolve; uses the sort as TopoOrder specifies it
EventAuth    auth_check and what it calls, as operators
 ├─ RoomPowerLevels, MemberChange   what clients are told
 │   └─ RoomAuth     the loop of iterative_auth_check as the life of a room
 │                   ─ MCRoomAuth, RoomAuthProofs
 └─ StateRes ─ StateResProps (reference definition, properties)
               ─ MCStateRes, StateResProofs
PushRules    Ruleset ─ MCPushRules, PushRulesProofs
WordMatch    matches_word ─ MCWordMatch, MessageProofs
Endpoint     paths and tokens of a request
 └─ Client         calls and the sync stream, with a homeserver ─ MCClient, ClientProofs
Redaction    the keys that stay
 └─ Signatures     an event in several servers' hands ─ MCSignatures, SignaturesProofs
HtmlTree     the tree's operations
 └─ Sanitizer      parser callbacks and the walk ─ MCSanitizer, MessageProofs
Release      the release task, its stores, crashes and retries ─ MCRelease, ReleaseProofs
```

Definitions carry the source's names where TLA+ allows it. Definitions marked
*Bug* or *Mutant of* are no part of the specifications: each is what a plausible
mistake in the code would make of the definition that follows it, and shows that
a property notices.

### TopoSort

One action per loop body of `lexicographical_topological_sort`: `Scan` (the loop
over the graph, any node next), `Pop`, `Visit` (the loop over a node's parents,
any parent next), `EmitNode`, `Return`. The `BinaryHeap` is a bag; `key_fn` is a
function that may answer `NotFound`. `Init` takes every graph, cyclic ones and
ones with dangling edges too, since the function is public. Event ids are
integers because the code compares them. The two `expect`s lead to a state
`panic`. `TopoOrder` says what is promised: emit the least of the events all of
whose references were emitted, until there is none; fail only if the key of such
an event is missing. The refinement mapping counts a popped node as emitted.

### EventAuth, RoomPowerLevels, RoomAuth

`EventAuth` is a library of operators. Content is a record that says what a
parser would meet: `form` of power levels is `ints`, `strings` or `bad`, a
membership may be `bad`. `Parses` and `ParsesLeniently` are the two families of
readers: the second (serde's v1 power levels) takes strings in every room
version, the first up to version 9. An `Option` is a set with at most one
member, which makes `target_power < sender_power` on Options one line
(`OutRanks`). `Serialized` is the conversion `get_deserialize_levels` depends
on: a level at its default is absent. `auth_check` yields `allow`, `reject` or
`err`; `err` also stands for the `expect` and `unwrap` on content taken to have
been checked before.

`RoomAuth` is the loop of `iterative_auth_check` with an environment: at each
step any event any user may have sent is checked against the state so far,
overlaid on its own auth events, and enters the state if it passes. Own auth events
are the create event and any of the third party invites in the state: what else an
event cites the state has under the same key, and the overlay replaces it wherever
`auth_check` reads it. Events that cite what the state lacks, or something older than
it has, are `StateRes`'s. `MemberChange` names each change of a membership, as a client
would. A rejected
event changes nothing and is therefore no step. Of an event only what later
checks read is kept. The creator's join may follow the create event directly at
any time, as it may on a fork. `admitted` is a ghost variable for
`JoinedWereAdmitted`.

### StateRes, StateResProps

`resolve` as a sequence of stages (`pc`), each loop a stage with the set `todo`
of elements not taken yet: any element next where the code iterates over a hash
collection, the list's order where it iterates over a list. The graph is built
by `GraphRoot` and `GraphStep` (one iteration of
`add_event_and_auth_chain_to_graph`, with its stack), the sort is `SortEmit`,
`SortFail`, `SortDone`; `AuthGather` and `AuthStep` are the two halves of
`iterative_auth_check`'s body; `MainlineStep` and `DepthStep` are iterations of
the walks. The fetches of one iteration share a step. Events only ever arrive,
in any order, so every mix of answers one iteration can see is what the store
answers at some moment. `event_exists` is asked once per id here; the
stream may hold an id twice, and then either answer counts as the later one.
Member content that is not an object (an error of `auth_types_for_event`) is
left out.

The store is `held` (what is fetched) and `known` (what is said to exist);
`Arrive` adds an event of `Late` at any time; the ghost variable `missing` keeps
what the store lacked at the call, which is what a loss may be blamed on. `StateResProps` holds the
reference: state resolution version 2 over sets and orders, without loops or
stages (`RefState`), and the properties. The reference takes two choices over from
the code, which are therefore not judged: how the level of a sender is looked up
(`get_power_level_for_sender`), and that an event whose walk meets no power levels
event of the mainline gets depth 0, the place of the oldest of them, where the Matrix
specification puts such events before all others.

### PushRules

An `IndexSet` is a sequence with distinct ids; positions count from 1. `insert`
and `insert_and_move_rule` return the new list with how the call ended, `ok`,
`err` or `panic`: the list changes before the parameters are checked, and an
error leaves it changed. `update_with_server_default` is one action for all five
kinds. A user's rule id, an id with a slash and an id with a dot are members of
three sets. Which events a rule's conditions match is the constant `matches`.
The three `IndexSet` operations are external. `retain` of `Lists`, shared with
`StateRes` and `Sanitizer`, is a filter written as a recursive function, so that it can
be proved about.

### WordMatch

One action per call of `matches_word` and per iteration of its loop over a pattern
with wildcards. A literal pattern: `Equal`, `EmptyPattern`, `NotFound`, `WholeWord`,
`LastWord`, or `NextWord`, the recursive call on what begins with the next word.
A pattern with wildcards: `CutPattern`, `ChunkStep` with the remembered
`chunk_start` and `prev_wildcard`, `ChunkEnd`, and `Match`, where `is_match` is what
the regex crate does with the expression made of the chunks. Both the expression and
the glob it stands for are sequences of steps, each the ends that may follow a position;
`Reach` composes them. Strings are sequences of
characters; byte indices are left out because the code only ever cuts at ends of
characters.

### Endpoint, Client

`Endpoint` is `VersionHistory` and `authorization_header` as operators; the panics of
`select_path` are a verdict of their own. `Client` is the shared client: calls are
futures in slots, polled in any order, with a request or an answer on the wire. A
call copies the token and selects its path in `begin`; `build_done`, `log_in_done`,
`send_request_done` and `sync_yield` apply an answer; `Failed` is an error or an answer
nobody waits for; `GiveUp` is a call that is dropped or whose request or answer is lost.
The homeserver is external: `Serve` may refuse what it has a reason to, `Expire`
forgets a session, `Upgrade` changes the versions it supports, `NewEvent` adds to a
timeline. Every batch the stream yields is handed to the application and recorded in
`heard`, whoever it is for. The application resumes a user's sync where it last got to;
of a stream that has changed users it may keep the position or not, since a batch does
not say whose it is, and may close it (`CloseMixed`) or poll on. `crossed` are the users
whose events were handed out by a stream that was opened for, or had changed to or from, another
user. `granted` records what logins returned.

### Redaction, Signatures

JSON objects are functions from keys to typed values. `Redaction` has the tables of
keys that stay per event type and room version, nested keys, and `LeftByFailure`, what
an in-place call that fails has removed by then. In `Signatures` one event passes
through the hands of two servers, each step one function of the crate:
`sign_json`, `hash_and_sign_event`, `redact_in_place`, `redact_content_in_place`,
`SetUnsigned`; or somebody alters a field or attaches a hash or a useless signature.
The functions that verify are operators the properties ask in every state. A hash or
a signature is the term it is made from, so the model says nothing of cryptography.
`signed` records every signature ever made, `clean` who signed the event as it still
is.

### HtmlTree, Sanitizer

`HtmlTree` is the tree with parents and children kept apart, as in the code, so that
they can disagree. A node is a pair: the parser's n-th node, and how often a pass has put
a new element in its place. The parser's callbacks (`AppendNode`, `AppendText`,
`AppendBasedOnParent`, `TextBasedOnParent`, `RemoveFromParent`, `ReparentChildren`,
`MoveNode`) build any small document, misnested ones too. `Visit`, `Leave` and `Finish`
are the steps of the recursion of `clean_node`: the call stack is a variable, and each
frame holds the sibling its iterator has already taken. `node_action`,
`apply_replacements` and `clean_element_attributes` follow the code's lookups through
lists of the user, lists of the mode and overrides.

### Release

One action per step of `ReleaseTask::run`. Where a step asks, the action is what
follows a yes. The stores survive, `task` is what a run has in memory: `Stop` loses it
at any point (a refusal, a failed command, a crash, an answer lost after the request
took effect, since the effect and the next step are two actions), and `new` starts
again, for any version, for real or dry. `Discard` and `Develop` are what people do in
between; git, cargo and crates.io are external. A pre-release number is a `u8`:
`Overflows` is the panic at 255.

## 3. Runs

Passing:

| Run | Question | Instance |
|---|---|---|
| `toposort` | Is the list the one greedy order, is nothing lost, does the sort return? | every graph over 3 ids, 2 levels, 2 ages, missing keys: 730,000 states |
| `room_auth` | Do membership and power change only as intended, whoever sends what in which order, and do clients agree? | 3 users on 2 servers, versions 3 (with third party invites), 4 (with aliases), 5 (with third party invites under two tokens and no power levels event), 6 and 11, seven power level contents, four join rules: 30,000 states |
| `state_res` | Does every iteration order give the reference state? What if the store lacks an event, or events arrive meanwhile? Does `resolve` return? | 12 events; in version 6 all pairs of 18 forks and six more conflicts (one of three forks) with a whole store; in version 11 those six with any one event missing or known but not to be had, or four, a ban among them, that may arrive at any moment; version 12 as an unsupported one: 110,000 states |
| `push_rules` | Do positions and order survive every call? Which rule decides? | 2 rules of the user, 2 kinds, 2 sets of defaults: 10,700 states |
| `word_match` | Does the search find exactly the patterns that are words of the value? | all values of up to 5 characters over two letters and a separator, 7 over one letter, 4 with an asterisk and a newline; all patterns of up to 3 with wildcards, 4 over one letter: 608,000 states |
| `client` | Which token and path does a request carry when logins, a stream and an upgrade overlap? Does the stream deliver, once and in order? | 2 calls, 2 users, one to register, 2 events for the other, 1 fault: 275,000 states |
| `signatures` | Is what verifies what was signed, and the other way round, through redaction and re-signing? | 5 events, 5 room versions, 2 servers, 4 operations, 1 alteration: 253,000 states |
| `sanitizer` | Does rewriting the tree during the walk give what a definition on the tree before gives? | 5 configurations, documents of 4 nodes, or 3 and a move by the parser, cleaned twice: 180,000 states |
| `release` | Is nothing half-updated published, and when does running the command again complete a release? | 2 crates, 2 starting points (one at `alpha.255`), 2 versions to release, 5 troubles: 390,000 states |

Violations, each of something a comment or a doc says (quoted in
`PROJECT.json`, *findings*):

| Run | What TLC shows |
|---|---|
| `room_defaults` | The creator, alone in the room and at 100, raises `users_default` from its default 0 to 150, above everybody: scalar levels at a default are absent when compared. |
| `push_panic` | `insert` panics on an empty ruleset, and for a rule moved after the last one. |
| `release_retry` | A run that stopped between the manifests and the commit, started again with the same command, takes the version as set and skips the commit (`release.rs:107`); cargo then refuses the uncommitted changes, for ever. |

Further statements of docs and comments that the code does not keep are definitions of
the modules without a run of their own. TLC refutes each if it is put in the place of
the properties of the configuration named:

| Definition, configuration | The text | What the code does |
|---|---|---|
| `NewRuleOnTop`, `MCPushPanic.cfg` | a new rule "will become the rule with the highest priority of its kind" (`push.rs:103-104`) | In a ruleset without the master rule a failed `insert` leaves its override rule behind (`push.rs:947`), and the next new rule lands second, below it (`push.rs:140`). |
| `NextMostImportant`, `MCPushPanic.cfg` | "the next-most important rule with respect to `before`" (`push.rs:102-103`) | A rule moved down to stand before another ends up after it: the place is computed before the rule is taken out (`push.rs:962`). |
| `UserOverridesMaster`, `MCPushPanic.cfg` | the master rule turns off "all push notifications other than those generated by override rules set by the user" (`push/predefined.rs:140-141`) | It is kept above these rules and matches everything, so none of them ever decides while it is enabled. |
| `GlobsMatch`, `MCWordMatch.cfg` | "The glob `?**?**?` is equivalent to the glob `???*`" (`push/condition.rs:445`) | The second of two adjacent wildcards is escaped and only matches itself (`push/condition.rs:382`). |
| `OnlyAllowedSchemesLeft`, `MCSanitizer.cfg` | "If a scheme is not allowed, it is denied. If a scheme is denied, its element is ignored" (`sanitizer_config.rs:316`) | The check ends at the first attribute without a list of schemes (`clean.rs:297-303`): an `a` with a class keeps a denied scheme in its `href`. |

Other places where the text and the code part, or the code may surprise, read off
the definitions:

Rooms and resolution
* A user at `users_default` may ban another at `users_default`: a target without an
  entry has level `None`, less than every level (`event_auth.rs:508`).
* Of two third party invites the hash map chooses, and with it the verdict
  (`ruma-state-res/src/lib.rs:483`); `InvitesBacked` holds for either choice. A third party invite may invite a user who is
  joined already, the top user included; `ChangesHaveNames` and
  `TopUserUnassailable` say so.
* A join after a knock is accepted, and `membership_change` calls it an error.
* `user_can_kick_user` (`ruma-events/src/room/power_levels.rs:458`) wants a greater
  level, its doc at least the same level.
* `user_can_change_user_power_level` offers changes that `auth_check` rejects while
  any scalar level, changed or not, is above the sender's and not at its default;
  `OfferedActionsAccepted` therefore claims the change only without such a level.
* The comment above `mainline_sort` numbers the mainline from the newest power
  levels event, the code from the oldest. The code's order is the right one, and
  the comment's is a mutant that `ResolvesToReference` refutes.

Push rules
* A failed `insert` leaves the new rule in the set, after the server's rules
  (`push.rs:947`).

Client
* A sync stream goes on with another user's token, and its old position, after a
  login (`client.rs:220`). The user's events are then handed out twice, or some of them
  never; `EachEventOnce` and `HearsEverything` hold for a user until that happens
  (`crossed`).
* A registration whose answer has no token clears the stored one.
* The versions are asked for once, by the builder. After the server drops one,
  requests may use paths it no longer has: `PathsServed` is about servers that still
  support the client's versions.
* With no known version in common, an endpoint that was ever removed counts as
  removed; with gaps between supported versions a stable path may be selected that
  no supported version has. `ClientAssumption` has servers support ranges.

Signatures
* A failed `sign_json` loses `signatures`, and `unsigned` if a single set is not an
  object (`functions.rs:101`); `SigningOnlyAdds` exempts it.
* `hash_and_sign_event` on a redacted copy replaces the hash, and with it the
  signatures made before no longer verify; `EventIdStable` and `SignedIsAccepted`
  speak of copies whose hash is current.
* `verify_event` requires a known key for every ed25519 signature of a server,
  while its doc has the first one found decide. `ed25519:` without a version is a
  signature to `split_id` and none to `required_keys`.
* Room versions the crate does not know end in `unimplemented!()`.

HTML
* Renamed attributes may come to be there twice.

Release
* For a version without a section the changes are empty (`cargo.rs:185`).

Polls
* `compile_poll_results` counts every response if there is no end timestamp, while
  its doc says the current time is used (`ruma-events/src/poll.rs:42`).

## 4. Bounds, and why they are enough

* *Three ids in the sort.* Ties on level and age, chains, diamonds without a
  top, cycles and dangling edges all occur; beyond that the theorems take over.
* *Three users in rooms*: an actor, a target and a bystander; the bystander is
  what lets two users work together against the third. The contents of the
  power levels are a set of seven, chosen on both sides of every comparison:
  equal levels, demotion of the creator, a level above the sender's, a raised
  default, string levels, unreadable levels. In `room_auth` no scalar level that
  changes is at its default, since `room_defaults` shows that the check does not
  work there; `PowerNeverRises` holds where the code compares at all.
* *Versions.* 3, 4, 5, 6 and 11 in rooms, 6, 11 and 12 in resolution, and 2, 8, 9, 11 and
  12 for events have between them every flag on both sides; 12 stands for an
  unsupported one.
* *Twelve events in resolution*: two rounds of power levels with a conflict
  between a demotion and a promotion, a ban against a join, three topics resting
  on different power levels, and a member event from before there were any. Auth
  events have smaller numbers than what cites them. The late events are the first
  power levels, a demotion, the ban, and a topic the banned user set just before it: the ban
  may be known at the call or arrive in any stage, after the control events too.
* *Push*: two rules of the user are enough to move one past another, two
  kinds for the order of kinds, two sets of defaults that add and remove a rule
  for the update.
* *Words*: three occurrences inside longer words fit in a value, so the search
  goes on twice and meets both ends of the value; two chunks of wildcards fit in a
  pattern.
* *Client*: two calls overlap each other and the stream; one fault is an expired
  session, an upgrade, or a call given up, each at every point. A registration and a
  login change the user twice while the stream runs, so that it hands out the first
  user's events again; two events make an order. Events for the second user too would
  triple the states and add nothing but a second `crossed` user. The endpoint `rare` has
  unstable, stable, deprecated and removed versions on both sides of the ranges.
* *Signatures*: four operations are hash-and-sign by both servers with a redaction
  and one more before, between or after; one alteration at any point.
* *HTML*: four nodes are a child of an ignored child with a sibling on either level,
  which is where iterators and moves meet; depth limits of 2 and 3 are reached.
* *Release*: five troubles stop a run, have another version overtake it, stop that one, and
  stop the retry, twice.

`CHECK_DEADLOCK FALSE` is in every configuration because every system here
stops: the sort, `resolve`, a match and a walk return, a panic ends a ruleset, bounds
end the others, and a room may reach a state in which every event is rejected.
Symmetry is not used: users differ by server and creator, ids by order.

## 5. Properties

*TopoSort.* `GreedyOrder`: the list is determined by graph and keys alone.
`NoPanicNoLoss`, `ErrorJustified`, `ImplementsOrder`, `Termination`.

*RoomAuth.* `JoinedWereAdmitted`: whoever is in was let in since they were last
out. `BanSticks`: a ban ends only by someone else who may ban and kick.
`TopUserUnassailable`: the others together cannot demote, overtake, kick or ban
the user above them all. `PowerNeverRises`: no event raises the greatest level in
the room. `InvitesBacked`: behind every invite is a member with the level for it
or a token's issuer. `StateAlwaysReadable`: no accepted event makes later checks
fail. `OfferedActionsAccepted`: what `RoomPowerLevels` offers, `auth_check`
accepts (for messages and state events, exactly what it offers).
`ChangesHaveNames`: what `auth_check` accepts, `membership_change` can name.

*StateRes.* `ResolvesToReference`; `UnconflictedKept`: what the forks agree on
survives, although older events for the same key may have passed;
`BannedSenderLoses`: a user whose ban is in the result and *stood* has no conflicted
state of theirs, outside control events, in it, but for events whose permission does not
rest on membership (creates, aliases up to version 5, third party invites). A ban stands
if the store had it when `resolve` was called and it is a conflicted ban by somebody else,
so that it is resolved with the control events, or the forks agree on it and nothing in the
full conflicted set disputes it. A ban that arrives after the loop over the control
events is resolved among the rest and does not stand: the run reaches that, and there
the banned user's topic does survive. `DroppedOnlyIfLost` and `FailsOnlyIfLost`:
events vanish and calls fail only for a reason in the store or the room version;
`Resolves`: the call returns.

*PushRules.* `MasterFirst`; `MasterSilences`: while the master rule is enabled it or
an override rule of the user decides about every event, no other rule (that the user's
rules *do* decide, as the doc says, is `UserOverridesMaster`, which fails); `OthersKept`: no call
disturbs the rules it is not about, however it ends; `RulePlaced`: an `insert` that
succeeds puts the rule, new or moved, where the doc of `insert` says, stated over the
list it leaves and not over positions. Two cases are left out, for which
`NextMostImportant` and `NewRuleOnTop` fail: a rule that ranked above its anchor already, and an override
rule in a ruleset without the master rule. `OnlySetEnabledSwitches`.

*WordMatch.* `FindsWholeWords`: the result is that of a definition without an
algorithm, some stretch of the value that matches the glob and is cut off from the
words around it.

*Client.* `TokensFollowLogins`: no request carries a token that had been replaced
before its call began, and logins take effect in an order that agrees with their
calls'. `PathsServed`: paths the server has, and no panic. `EachEventOnce` and
`HearsEverything`: for a user who is not `crossed`, what the application was handed is
the user's timeline from its beginning, each event once and in order, and it gets to
the end of it.

*Signatures.* `AcceptedWasSigned` and `SignedIsAccepted` are soundness and
completeness of `verify_event` through redaction; `SigningCompletes` of the whole round
trip, `verify_json` included; `RequiredKeysSuffice`: the keys a server is told to fetch
are all it needs; `EventIdStable`; `SigningOnlyAdds`.

*Sanitizer.* `TreeConsistent`: parents and children agree at every step, the walk's
next sibling is still a child of the node walked, no `expect` fails, and no pass enters
a node twice. `ResultAsSpecified`: the tree left is what a recursive definition makes of
the tree before, and the nodes are entered in document order; the verdict on a single
node is the code's in both, and what it should be about schemes is said by
`OnlyAllowedSchemesLeft`, which fails (section 3). `CleaningIsIdempotent`:
what is left is clean by the sanitizer's own rules, so that a second pass changes
nothing, unless it meets an element whose scheme check ended early.

*Release.* `ReleasesAreSound`: what is uploaded or tagged is a complete release, what
is announced is uploaded and tagged, and nobody goes back to a smaller version
unwarned. `Completes`: running the command again gets there if it never ran over
uncommitted changes, and once the release is committed it gets there in any case.
`RetryCompletes`, without the condition, is what the documentation says and
`release_retry` refutes.

Type invariants are the first conjunct of a safety property of each module
(`RoomTypeOK` of `StateAlwaysReadable`, `ResTypeOK` of `ResolvesToReference`,
`PushTypeOK` of `OthersKept`, `ClientTypeOK` of `TokensFollowLogins`, `SigTypeOK` of
`AcceptedWasSigned`, `HtmlTypeOK` of `TreeConsistent`, `ReleaseTypeOK` of
`ReleasesAreSound`); `TypeOK` of `TopoSort` is part of what is proved.

## 6. Fairness

`FairSpec` of `TopoSort` and `ResFairSpec` assume weak fairness of the whole
next-state relation, nothing else. Both are single futures without
cancellation points of their own: an executor that polls them to completion, with
a store whose answers come, takes another step as long as there is one. No
fairness is assumed of which element a loop takes, nor of whether an event
arrives.

`ClientFairness`: the server answers the stream's requests, its answers arrive, and
the application keeps polling a stream (the loop over `try_next()`
in the example of `sync`). That it closes one that changed users is not assumed, and
nothing is of other calls. `HearsEverything` asks for delivery only to a user who
stays logged in.

`Persistence`: a run of the release task that is not stopped goes on (weak fairness of
its steps), and the same command is run again, as `contrib/how_to_release.md` advises
(weak fairness of `new` for the version wanted). Nobody has to discard uncommitted changes
or do anything else. `MaxTrouble` bounds how often runs are stopped.

Rooms, rulesets, events and documents only move when somebody acts, and have no
liveness properties. That the sanitizer's walk ends is a safety property here, since
`TreeConsistent` has it enter every node at most once.

## 7. What is proved

Of the 36 safety properties the passing runs check (invariants, action properties and
the refinement) 34 are theorems of the specifications, from the assumptions on
constants the modules state and TLC evaluates on the runs' instances. Each proof is of the same
shape: an inductive invariant, one lemma per action or per function the actions
share, and the properties from the invariant, or from the invariant before a step and
the step. The bounds of section 4 (numbers of events, steps, calls, faults, troubles)
are parameters there, not limits.

`TopoSortProofs`, for every set of ids, levels and ages that are integers
(`OrderAssumption`) and `None` not an id (`NoneAssumption`):

* `Invariance`: `Spec => []IInv`. None of the properties is inductive. `IInv`
  adds what the data structures mean at each point: the reverse graph is the
  transpose of the scanned part (`ReverseOK`); the heap holds exactly the events
  that may come next, once each, less those the inner loop has still to push
  (`HeapOK`); the outdegree map holds the references not emitted, where a parent
  not visited yet still counts the node just popped (`OutdegreeOK`); keys in the
  heap and in the list exist (`KeysOK`); and the control state (`PhaseOK`).
* `GreedyOrderHolds`, `NoPanicNoLossHolds`, `ErrorJustifiedHolds`: the three
  safety invariants of the run `toposort`.
* `Refinement`: `Spec => ImplementsOrder`. `StateRes` uses the sort in that form,
  so the refinement carries the algorithm into the model of `resolve`.

`RoomAuthProofs`, for any users, room versions 1 to 11 and any contents with integer
levels (`UserAssumption`, `RoomAssumption`):

* `RoomInvariant`, with `RoomIInv`: the create event is in the state, every event
  in it is under its own key and of a content later checks can read, and whoever is
  joined *or invited* was admitted. `JoinedWereAdmitted` alone is not inductive, since a
  join may rest on an invite. The lemma `VerdictIs` reduces `auth_check` on such a state
  to `Passes`, in which no error is left; `ChangeReads` does the same for what
  `valid_membership_change` computes; `MemberStep` and `PowerStep` say what a change of a
  membership or of the levels that passed implies.
* `StateStaysReadable`, `JoinedAreAdmitted`, `BansStick`, `InvitesAreBacked`,
  `ChangesAreNamed`, `OffersAreAccepted`: the properties of the run `room_auth`.
* `TopUserSafe`, `NobodyRisesAboveAll`, under `DefaultCompared`: no change of
  `users_default` is to or from 0, the value serialization leaves out. Without it both are false,
  which is what the run `room_defaults` shows; the contents of the run `room_auth` satisfy
  it. The proof shows that of the seven scalar levels this one alone matters.

`StateResProofs`, for every finite set of events, forks and stores (`ResAssumption`):

* `ResInvariant`, with `ResIInv`: whatever a loop takes next and whatever arrives, what the
  stages hold stays among the events of the forks and their auth chains (`SortOK`,
  `AuthOK`), every event of the resolved state is under its own key, the walk of
  `mainline_sort` for an event stays in that event's auth chain, and an event without a
  depth is waiting, being walked for, or lost something (`LineOK`). Auth chains are
  the least closed set (`AuthClosed`), not a recursion.
* `NothingElseDropped`, `CommonStateKept`.
* `FailuresExplained`, under `Readable`: there is no event that a check cannot
  read. That is what `RoomAuthProofs` shows of events that passed; on others `resolve` may
  also fail because of them.
* `BansComeFirst`, under `Acyclic`: no event is in its own auth chain. `BanIInv`, on top
  of `ResIInv`, follows the control events through the stages: every conflicted event known
  at the call that is a power event is among them (`ControlWhole`), the graph has each of
  them and what they refer to (`GraphWhole`), the sort leaves none of them out (`SortedWhole`: of
  those left out take one with the least chain; all it refers to is out, so it was
  ready), so that each is checked in the first loop, and none in the second
  (`QueueWhole`). So while the second loop runs the ban is in the state already, or
  never will be (`StateWhole`), and whatever the banned user sent and rests on membership
  is checked against it and rejected (`BannedRejected`).

`PushRulesProofs`, from `PushAssumption` (default rules have dotted ids, once per
kind, the master rule first, and the master rule matches everything):

* `PushInvariant`, with `PushInv`: no id twice in a kind, defaults and no others have
  dotted ids, the master rule is first. It is a property of lists (`Proper`,
  `MasterOnTop`) carried through `replace_full`, `move_index`, `shift_remove`,
  `insert_and_move_rule` and `update_with_server_default` by a lemma each. The crux is
  that a rule that moves never moves to the first place of the override rules while
  the master rule is there: its target is the second place, or the place after a
  rule, or the place of a rule of the user that is not before the second.
* `MasterStaysFirst`, `CallsKeepOthers`, `RulesPlaced`, `OnlyOverridesDecide`,
  `SwitchedBySetEnabled`: all the properties of the run `push_rules`.

What they need of `retain` is at the head of the module: it yields the wanted entries,
each once, in their order, and is the only such list. The library's induction theorems
cannot be used (section 8); what is proved about a recursive function rests on the least
number principle (`LeastNumber`, from `WFMin`), applied to a set of counterexamples.

`ClientProofs`, for any number of calls, users, endpoints and versions
(`ClientAssumption`: histories are valid, servers support ranges of versions):

* `ClientInvariant`, with `ClientIInv`: a request under way is that of the call in its
  slot and carries token and path as they were when the call began (`SlotsOK`); a grant
  came in after the call it answers began (`GrantsOK`); a stream that kept to its user
  stands where the application would resume, and of users who are not crossed the
  application has heard every event up to there, once and in order (`StreamOK`).
* `TokensInOrder`, `StablePathsServed` (with lemmas about `select_path` on valid
  histories), `EventsHandedOutOnce`.

`SignaturesProofs`, for any servers, keys, events and values
(`SignaturesAssumption`; its last conjunct, that no value an outsider attaches is a
signature, is the cryptography):

* `SigInvariant`, with `SigIInv`: a signature that is there was made (`Genuine`), and a
  server in `clean` has signatures only over what redaction leaves of the event as it is
  (`CleanOK`). The lemmas are about `redact`: that it is idempotent, leaves what was signed, and
  does not depend on `signatures` and `unsigned`.
* `AcceptedAreSigned` and `SignedAreAccepted` (soundness and completeness of
  `verify_event`), `SigningSuffices`, `RequiredKeysAreEnough`, `EventIdsStay`,
  `NothingLostBySigning`: all the properties of the run `signatures`.

`ReleaseProofs`, for any crates, versions, changelogs and number of interruptions
(`ReleaseAssumption`):

* `ReleaseInvariant`, with `ReleaseIInv`: commits are whole (`CommitsOK`), what is
  published is a release (`PublishedOK`), and for each step of a run, what the steps before
  have done to the stores (`TaskOK`, `RunOK`), which is what a retry finds.
* `SoundReleases`.

`MessageProofs`, on `WordMatch`, for any alphabet, values and patterns
(`WordAssumption`: the wildcards and the newline belong to no word):

* `WordsAreFound`, with `WordInv`. A literal pattern: no occurrence that is cut off from
  its neighbours starts before `from`, and `from` follows a character of no word
  (`CallInv`). The crux is `Skips`: between an occurrence inside a longer word and the
  next word there is no whole word to miss. A glob: at each character the chunks
  made so far, with the one being collected, reach the same positions from every start as
  the glob up to that character (`LoopInv`, `Cut`); `ReachMore` and its like, by the least
  number principle, say what one more step adds. Two adjacent wildcards are excepted, as
  they must be: `GlobsMatch` fails.

and on `Sanitizer`, for documents of any size, any number of passes and any
configurations (`TreeAssumption`, `HtmlAssumption`):

* `TreeStaysConsistent`, with `HtmlInv`. Agreement of parents and children is
  carried through `detach`, `append_child`, `insert_before_sibling`, `reparent_children`
  and `replace_with_element_name` by a lemma each; that the walk can go on needs more. What
  takes a node's place is new (`NewInv`): an element that a pass creates has no parent and
  no children, or `insert_before_sibling` could take a node away from elsewhere. In each frame of
  the walk, what is ahead of the iterator has not been touched by the pass, and the
  frame's node still hangs under the node of an outer frame (`StackInv`), which is why the
  `expect` on the parent of an ignored node holds although that node may have been moved up
  itself. From any node on, the lists of children of the frames only lose nodes (`Within`), so the
  sibling put aside stays ahead, and an entered node never is again.
* `CleanStaysClean`, with `IdemInv` on top: during the first pass there is a set of *kept*
  nodes, each with a level, that are clean for good: at that level or any less deep
  one they would be neither removed, ignored, renamed nor stripped of attributes, unless
  their scheme check is one that had ended early, and their children are
  kept and at deeper levels (`FirstPass`). A child of a node being walked is kept, or
  being walked itself, or still ahead of the iterator. The end of `clean_node` adds its
  node to the kept ones or takes it out of the tree. At the end everything is kept; the
  second pass walks it no deeper than the levels (`SecondPass`), since ignored elements
  counted in the first and are gone, and leaves the tree equal, data included. The lemmas about data
  (`CleanedIs`, `AcceptedIsClean`, `Shallower`, `ReplacingIs`) show that removing
  attributes and classes is idempotent and never makes an accepted element unacceptable.

Where a proof failed for a good reason, the model changed: `HashIsCurrent` used to count
an object `hashes` without `sha256` as current, for which `EventIdStable` is false, and
`BannedSenderLoses` used not to say what the ban must rest on.

## 8. What is only model-checked

* Liveness under fairness (`Termination`, `Resolves`, `HearsEverything`, `Completes`) and
  what needs `ENABLED` are out of the prover's reach.
* So is induction over data, and with it comparisons with recursive definitions:
  `ResolvesToReference` (the reference sorts) and `ResultAsSpecified` (the definition
  recurses over the tree). The least number principle does for definitions as small as
  `retain` and `Reach`, not for these.

## 9. What is not modelled, and why

Of some 89,000 lines of implementation most define the types of requests, responses
and event contents, identifiers, and macros that derive conversions for them. They
keep no state, take no steps and make no decision beyond accepting a string or not:
there is nothing in them for a model checker to explore, and a table of fields would
repeat the source. The models cover the larger part of the code that does have control; that
is about one line in twenty of the whole.

* Parsing, serialization and validation of strings: identifiers, headers, URIs,
  endpoint types. Data without control. Where a decision depends on it (forms of
  power levels, defaults left out, user ids as state keys, key identifiers) the
  conversion is modelled by what it does.
* Macros: compile-time code generation. HTML parsing, regular expressions, HTTP and
  cryptography are third-party.
* Of `auth_check`: member, join rules and third party invite contents that fail to
  parse as a whole; the spelling of room versions; a redaction's event ids
  (whether the servers are the same is a field).
* Of push rules: conditions other than `matches_word`, each a comparison of a single
  field; actions' contents, pushers. Which rules match an event, those switched off by
  `m.mentions` included, is the arbitrary constant `matches`. Case folding.
* Of the client: user-interactive authentication, URL building.
* Of signatures: key files, base64, the size of an event in bytes (a long text stands
  for it), algorithms that are not supported beyond being skipped.
* Of HTML: text itself, attribute values beyond schemes and classes, the conversion to
  Matrix elements, serialization.
* Poll results and the expiry of call memberships: one pass over a list each.
* Integer overflow of levels: they are JavaScript-safe integers and only compared and
  negated; negation of a safe integer is safe.

## 10. Plan

Done, in this order: the sort with its refinement and proofs; authorization and
the life of a room; resolution with its reference; push rules with their proof; the
release task; the client with endpoint metadata; signatures with redaction; the HTML
tree and sanitizer; `membership_change`; words.

Proved since: the rooms, resolution, push rules through updates of the defaults, the
client, signatures, the release task, words and globs, the tree, the sanitizer's
idempotence, and bans in resolution (section 7).

Left: what sections 8 and 9 say is out of reach.
