----------------------------- MODULE EventAuth -----------------------------
(***************************************************************************)
(* The authorization rules of Matrix rooms: ruma-state-res/src/            *)
(* event_auth.rs, with the readers of power_levels.rs and the flags of     *)
(* room_version.rs.                                                        *)
(*                                                                         *)
(* An event is a record with fields id, type, state_key (NoKey for one     *)
(* that is not a state event), sender, content, auth_events, prev_events   *)
(* and ts.  Content is parsed JSON: a record per event type; where the     *)
(* code parses lazily the record says what a parser would meet.  An        *)
(* Option is a set with at most one member, a state map a function from    *)
(* pairs of type and state key to events.                                  *)
(***************************************************************************)
EXTENDS Integers, Sequences

CONSTANTS User,          \* valid user ids
          server_name,   \* user |-> server
          NoKey,         \* no state key
          None           \* absent optional field

\* A state key that starts with @ and is no user id.
BadUserId == "@"

ASSUME UserAssumption ==
    /\ {"", BadUserId, NoKey, None} \cap User = {}
    /\ NoKey \notin {"", BadUserId}

(* Event types. *)
Create      == "m.room.create"
Member      == "m.room.member"
PowerLevels == "m.room.power_levels"
JoinRules   == "m.room.join_rules"
ThirdParty  == "m.room.third_party_invite"
Aliases     == "m.room.aliases"
Redaction   == "m.room.redaction"

\* RoomVersion::V1 to V11: what auth_check asks of the room version.
RoomVersion(v) ==
    [special_case_aliases_auth        |-> v <= 5,
     limit_notifications_power_levels |-> v >= 6,
     extra_redaction_checks           |-> v <= 2,
     allow_knocking                   |-> v >= 7,
     restricted_join_rules            |-> v >= 8,
     knock_restricted_join_rule       |-> v >= 10,
     integer_power_levels             |-> v >= 10,
     use_room_create_sender           |-> v >= 11]

\* The Option a map's get returns.
Get(f, k) == {f[x] : x \in DOMAIN f \cap {k}}

-----------------------------------------------------------------------------
(* Reading power levels.                                                   *)
(*                                                                         *)
(* content.form says how the levels are written: "ints", "strings"         *)
(* (integers in strings) or "bad" (neither, somewhere).                    *)

ScalarLevels == {"users_default", "events_default", "state_default", "ban",
                 "redact", "kick", "invite"}

DefaultLevel(name) ==
    IF name \in {"users_default", "events_default", "invite"} THEN 0 ELSE 50

\* RoomPowerLevelsEventContent::default().
DefaultPowerLevels ==
    [users_default |-> 0, events_default |-> 0, state_default |-> 50, ban |-> 50,
     redact |-> 50, kick |-> 50, invite |-> 0, form |-> "ints", users |-> << >>,
     events |-> << >>, notifications_room |-> 50]

\* The lenient readers (serde's v1 power levels) take strings, ...
ParsesLeniently(content) == content.form \in {"ints", "strings"}

\* ... deserialize_power_levels and its siblings only before room version 10.
Parses(rv, content) ==
    content.form = "ints" \/ (content.form = "strings" /\ ~ rv.integer_power_levels)

\* content.users.get(user), or the default.
UserLevel(content, user) ==
    IF user \in DOMAIN content.users THEN content.users[user] ELSE content.users_default

-----------------------------------------------------------------------------
\* auth_types_for_event: the keys of the state an event is checked against.
auth_types_for_event(ev) ==
    IF ev.type = Create THEN {}
    ELSE {<<PowerLevels, "">>, <<Member, ev.sender>>, <<Create, "">>} \cup
         IF ev.type # Member \/ ev.state_key = NoKey \/ ev.content.membership = "bad"
         THEN {}
         ELSE LET m == ev.content.membership IN
              {<<Member, ev.state_key>>}
              \cup (IF m \in {"join", "invite", "knock"}
                    THEN {<<JoinRules, "">>}
                         \cup {<<Member, u>> : u \in {ev.content.join_authorised_via} \ {None}}
                    ELSE {})
              \cup (IF m = "invite" /\ ev.content.third_party_invite # None
                    THEN {<<ThirdParty, ev.content.third_party_invite.token>>}
                    ELSE {})

\* The membership a member event gives, leave if there is none.
MembershipOf(memberEvents) ==
    IF memberEvents = {} THEN "leave"
    ELSE (CHOOSE e \in memberEvents : TRUE).content.membership

\* Is `user` the creator the room version looks at?
IsCreator(rv, create, user) ==
    user = IF rv.use_room_create_sender THEN create.sender ELSE create.content.creator

-----------------------------------------------------------------------------
(* valid_membership_change.  m gathers what the function computes before   *)
(* its match on the new membership.                                        *)

\* Mutant of verify_third_party_invite: whoever issued it.
VerifyAnyIssuer(target, sender, tp_id, current) ==
    /\ target = tp_id.mxid
    /\ \E ev \in current :
          ev.state_key = tp_id.token /\ tp_id.token \in ev.content.public_keys

\* verify_third_party_invite; a token that is not base64 has no key.
verify_third_party_invite(target, sender, tp_id, current) ==
    /\ target = tp_id.mxid
    /\ \E ev \in current :
          /\ ev.state_key = tp_id.token
          /\ sender = ev.sender
          /\ tp_id.token \in ev.content.public_keys

\* Mutant of ValidJoin: nobody has to vouch for a restricted join.
ValidJoinUnvouched(rv, m) ==
    \/ m.first_join
    \/ /\ m.sender = m.target
       /\ m.target_current # "ban"
       /\ \/ m.join_rule \in {"invite", "knock"} /\ m.target_current \in {"join", "invite"}
          \/ m.join_rule \in {"restricted", "knock_restricted", "public"}

\* Mutant of ValidJoin: the ban is not looked at.
ValidJoinBanned(rv, m) ==
    \/ m.first_join
    \/ /\ m.sender = m.target
       /\ \/ m.target_current \in {"join", "invite"}
          \/ m.join_rule = "public"

ValidJoin(rv, m) ==
    \/ m.first_join
    \/ /\ m.sender = m.target
       /\ m.target_current # "ban"
       /\ LET open_to_invited ==
                  m.join_rule = "invite" \/ (rv.allow_knocking /\ m.join_rule = "knock")
              restricted ==
                  \/ rv.restricted_join_rules /\ m.join_rule = "restricted"
                  \/ rv.knock_restricted_join_rule /\ m.join_rule = "knock_restricted"
              invited == m.target_current \in {"join", "invite"}
          IN  \/ open_to_invited /\ invited
              \/ restricted /\ (invited \/ m.via_is_valid)
              \/ m.join_rule = "public"

\* Mutant of ValidInvite: a third party invite lifts a ban.
ValidInviteBanned(m) ==
    IF m.third_party_invite # None
    THEN verify_third_party_invite(m.target, m.sender, m.third_party_invite,
                                   m.current_third_party)
    ELSE /\ m.sender_membership = "join"
         /\ m.target_current \notin {"join", "ban"}
         /\ \E p \in m.sender_power : p >= m.power_levels.invite

ValidInvite(m) ==
    IF m.third_party_invite # None
    THEN /\ m.target_current # "ban"
         /\ verify_third_party_invite(m.target, m.sender, m.third_party_invite,
                                      m.current_third_party)
    ELSE /\ m.sender_membership = "join"
         /\ m.target_current \notin {"join", "ban"}
         /\ \E p \in m.sender_power : p >= m.power_levels.invite

\* `target_power < sender_power` on Options, None least.
OutRanks(m) == \E p \in m.sender_power : \A t \in m.target_power : t < p

\* Mutant of ValidLeave: kicking takes the level for banning.
ValidLeaveNeedsBan(m) ==
    IF m.sender = m.target
    THEN m.target_current \in {"join", "invite", "knock"}
    ELSE /\ m.sender_membership = "join"
         /\ \E p \in m.sender_power : p >= m.power_levels.ban
         /\ OutRanks(m)

ValidLeave(m) ==
    IF m.sender = m.target
    THEN m.target_current \in {"join", "invite", "knock"}
    ELSE /\ m.sender_membership = "join"
         /\ m.target_current = "ban" => ~ \E p \in m.sender_power : p < m.power_levels.ban
         /\ \E p \in m.sender_power : p >= m.power_levels.kick
         /\ OutRanks(m)

ValidBan(m) ==
    /\ m.sender_membership = "join"
    /\ \E p \in m.sender_power : p >= m.power_levels.ban
    /\ OutRanks(m)

ValidKnock(rv, m) ==
    /\ rv.allow_knocking
    /\ m.join_rule \in {"knock", "knock_restricted"}
    /\ m.join_rule = "knock_restricted" => rv.knock_restricted_join_rule
    /\ m.sender = m.target
    /\ m.sender_membership \notin {"ban", "invite", "join"}

\* What goes into the match.  The target's level falls back to users_default
\* only for a join; the sender's only if joined.
MembershipChange(rv, ev, create, state, current_third_party) ==
    LET pls     == Get(state, <<PowerLevels, "">>)
        content == IF pls = {} THEN DefaultPowerLevels
                   ELSE (CHOOSE e \in pls : TRUE).content
        via     == ev.content.join_authorised_via
        sender_membership == MembershipOf(Get(state, <<Member, ev.sender>>))
        default(applies)  == IF applies THEN {content.users_default} ELSE {}
        power(user, applies) ==
            LET own == Get(content.users, user)
            IN  IF own # {} THEN own ELSE default(applies)
    IN  [sender   |-> ev.sender,
         target   |-> ev.state_key,
         sender_membership |-> sender_membership,
         target_current    |-> MembershipOf(Get(state, <<Member, ev.state_key>>)),
         power_levels      |-> content,
         sender_power |-> power(ev.sender, sender_membership = "join"),
         target_power |-> power(ev.state_key, ev.content.membership = "join"),
         join_rule |-> LET jr == Get(state, <<JoinRules, "">>)
                       IN IF jr = {} THEN "invite" ELSE (CHOOSE e \in jr : TRUE).content.join_rule,
         via_is_valid |->
             /\ via # None
             /\ MembershipOf(Get(state, <<Member, via>>)) = "join"
             /\ pls # {} => UserLevel(content, via) >= content.invite,
         third_party_invite  |-> ev.content.third_party_invite,
         current_third_party |-> current_third_party,
         first_join |->
             /\ ev.prev_events = <<create.id>>
             /\ IsCreator(rv, create, ev.sender)
             /\ ev.sender = ev.state_key]

\* Contents the function cannot read: the whole check fails.
MembershipChangeFails(rv, ev, create, state) ==
    \/ \E u \in {ev.sender, ev.state_key} : MembershipOf(Get(state, <<Member, u>>)) = "bad"
    \/ \E pl \in Get(state, <<PowerLevels, "">>) :
          \/ ~ ParsesLeniently(pl.content)
          \/ ev.content.join_authorised_via # None /\ ~ Parses(rv, pl.content)
    \/ /\ ev.content.membership = "join"
       /\ ev.prev_events = <<create.id>>
       /\ ~ rv.use_room_create_sender
       /\ create.content.creator = None

valid_membership_change(rv, ev, create, state, current_third_party) ==
    LET m == MembershipChange(rv, ev, create, state, current_third_party)
    IN  \/ ev.content.membership = "join" /\ ValidJoin(rv, m)
        \/ ev.content.membership = "invite" /\ ValidInvite(m)
        \/ ev.content.membership = "leave" /\ ValidLeave(m)
        \/ ev.content.membership = "ban" /\ ValidBan(m)
        \/ ev.content.membership = "knock" /\ ValidKnock(rv, m)

-----------------------------------------------------------------------------
\* get_send_level: an unreadable power levels event counts as none.
get_send_level(type, state_key, pls) ==
    LET readable == {pl.content : pl \in {p \in pls : ParsesLeniently(p.content)}}
    IN  IF readable = {} THEN IF state_key # NoKey THEN 50 ELSE 0
        ELSE LET content == CHOOSE c \in readable : TRUE
             IN  IF type \in DOMAIN content.events THEN content.events[type]
                 ELSE IF state_key # NoKey THEN content.state_default
                 ELSE content.events_default

can_send_event(ev, pls, user_level) ==
    /\ user_level >= get_send_level(ev.type, ev.state_key, pls)
    /\ ev.state_key \in User \cup {BadUserId} => ev.state_key = ev.sender

\* Mutant of UserLevelsOK: only the new level is compared.
UserLevelsNewOnly(old, new, sender, user_level) ==
    \A user \in DOMAIN new.users :
        Get(old.users, user) = Get(new.users, user) \/ new.users[user] <= user_level

\* Mutant of UserLevelsOK: only the old level is compared.
UserLevelsOldOnly(old, new, sender, user_level) ==
    \A user \in DOMAIN old.users :
        Get(old.users, user) = Get(new.users, user) \/ old.users[user] <= user_level

\* The loops of check_power_levels over users and event types: what changes
\* must not be, or become, more than the sender's level.
UserLevelsOK(old, new, sender, user_level) ==
    \A user \in DOMAIN old.users \cup DOMAIN new.users :
        LET o == Get(old.users, user)
            n == Get(new.users, user)
        IN  \/ o # {} /\ o = n
            \/ /\ user = sender \/ o # {user_level}
               /\ \A l \in o \cup n : l <= user_level

EventLevelsOK(old, new, user_level) ==
    \A type \in DOMAIN old.events \cup DOMAIN new.events :
        LET o == Get(old.events, type)
            n == Get(new.events, type)
        IN  \/ o # {} /\ o = n
            \/ \A l \in o \cup n : l <= user_level

NotificationsOK(rv, old, new, user_level) ==
    \/ ~ rv.limit_notifications_power_levels
    \/ old.notifications_room = new.notifications_room
    \/ old.notifications_room <= user_level /\ new.notifications_room <= user_level

\* get_deserialize_levels: the scalar levels are compared as serialized, and
\* serialization leaves out a level that has its default.
Serialized(content, name) == {content[name]} \ {DefaultLevel(name)}

ScalarLevelsOK(old, new, user_level) ==
    \A name \in ScalarLevels :
        \/ Serialized(old, name) = {}
        \/ Serialized(new, name) = {}
        \/ old[name] <= user_level /\ new[name] <= user_level

\* Mutant of check_power_levels: without a previous event nothing is parsed.
CheckFirstUnparsed(rv, ev, pls, user_level) ==
    /\ ev.state_key = ""
    /\ \A pl \in pls :
          /\ Parses(rv, ev.content)
          /\ UserLevelsOK(pl.content, ev.content, ev.sender, user_level)
          /\ EventLevelsOK(pl.content, ev.content, user_level)
          /\ NotificationsOK(rv, pl.content, ev.content, user_level)
          /\ ScalarLevelsOK(pl.content, ev.content, user_level)

check_power_levels(rv, ev, pls, user_level) ==
    /\ ev.state_key = ""
    /\ Parses(rv, ev.content)
    /\ \A pl \in pls :
          /\ Parses(rv, pl.content)
          /\ UserLevelsOK(pl.content, ev.content, ev.sender, user_level)
          /\ EventLevelsOK(pl.content, ev.content, user_level)
          /\ NotificationsOK(rv, pl.content, ev.content, user_level)
          /\ ScalarLevelsOK(pl.content, ev.content, user_level)

check_redaction(ev, user_level, redact_level) ==
    user_level >= redact_level \/ ev.content.same_server

-----------------------------------------------------------------------------
(* auth_check. *)

CreateAllowed(rv, ev) ==
    /\ ev.prev_events = << >>
    /\ ev.content.room_server = server_name[ev.sender]
    /\ ev.content.room_version_ok
    /\ ~ rv.use_room_create_sender => ev.content.creator # None

\* Rules 2 and 3, and m.federate.
AdmittedByCreate(ev, create) ==
    /\ \E i \in DOMAIN ev.auth_events : ev.auth_events[i] = create.id
    /\ create.content.federate \/ server_name[create.sender] = server_name[ev.sender]

\* The sender's power level outside membership changes: without power levels
\* the creator has 100.
SenderPowerLevel(rv, ev, create, pls) ==
    IF pls # {} THEN UserLevel((CHOOSE p \in pls : TRUE).content, ev.sender)
    ELSE IF IsCreator(rv, create, ev.sender) THEN 100 ELSE 0

\* Everything that is neither a create nor a member event.
OrdinaryAllowed(rv, ev, create, pls) ==
    LET level == SenderPowerLevel(rv, ev, create, pls)
    IN  IF ev.type = ThirdParty
        THEN \A pl \in pls : level >= pl.content.invite
        ELSE /\ can_send_event(ev, pls, level)
             /\ ev.type = PowerLevels => check_power_levels(rv, ev, pls, level)
             /\ rv.extra_redaction_checks /\ ev.type = Redaction =>
                   check_redaction(ev, level,
                       IF pls = {} THEN 50 ELSE (CHOOSE p \in pls : TRUE).content.redact)

\* The result: "allow", "reject", or "err" where the code returns an error or
\* panics on content it takes to have been checked before.
auth_check(rv, ev, current_third_party, state) ==
    LET Verdict(allowed) == IF allowed THEN "allow" ELSE "reject"
        creates == Get(state, <<Create, "">>)
        create  == CHOOSE c \in creates : TRUE
        pls     == Get(state, <<PowerLevels, "">>)
        sender_membership == MembershipOf(Get(state, <<Member, ev.sender>>))
    IN  IF ev.type = Create THEN Verdict(CreateAllowed(rv, ev))
        ELSE IF creates = {} \/ ~ AdmittedByCreate(ev, create) THEN "reject"
        ELSE IF ev.type = Aliases /\ rv.special_case_aliases_auth
        THEN Verdict(ev.state_key = server_name[ev.sender])
        ELSE IF ev.type = Member
        THEN IF ev.state_key = NoKey \/ ev.content.membership = "bad" THEN "reject"
             ELSE IF ev.state_key \notin User THEN "err"
             ELSE IF MembershipChangeFails(rv, ev, create, state) THEN "err"
             ELSE Verdict(valid_membership_change(rv, ev, create, state, current_third_party))
        ELSE IF sender_membership = "bad" THEN "err"
        ELSE IF sender_membership # "join" THEN "reject"
        ELSE IF \/ \E pl \in pls : ~ Parses(rv, pl.content)
                \/ pls = {} /\ ~ rv.use_room_create_sender /\ create.content.creator = None
        THEN "err"
        ELSE Verdict(OrdinaryAllowed(rv, ev, create, pls))

-----------------------------------------------------------------------------
(* What iterative_auth_check hands to auth_check. *)

\* The map the event is checked against: its own auth events, overwritten by
\* what the resolved state has under the keys the event needs.
Overlay(own, resolved, keys) ==
    LET fresh == keys \cap DOMAIN resolved
    IN  [k \in DOMAIN own \cup fresh |-> IF k \in fresh THEN resolved[k] ELSE own[k]]

\* find_map over the map: any third party invite, the HashMap decides.
ThirdPartyInvites(auth_events) ==
    LET found == {auth_events[k] : k \in {x \in DOMAIN auth_events : x[1] = ThirdParty}}
    IN  IF found = {} THEN {{}} ELSE {{e} : e \in found}
=============================================================================
