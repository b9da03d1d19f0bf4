------------------------------ MODULE RoomAuth ------------------------------
(***************************************************************************)
(* The loop of iterative_auth_check (ruma-state-res/src/lib.rs) as the     *)
(* life of a room: starting from a room with its create event, any event   *)
(* anyone may have sent is checked against the state resolved so far and,  *)
(* if it passes, enters it.                                                *)
(*                                                                         *)
(* Of an event in the state only what later checks read is kept: sender    *)
(* matters for the create event and for third party invites only.          *)
(***************************************************************************)
EXTENDS RoomPowerLevels, MemberChange, FiniteSets

CONSTANTS Versions,       \* room versions, as numbers
          Creator,        \* the user who creates the room
          PowerContents,  \* version |-> contents of power levels events users send
          Rules,          \* version |-> join rules users set
          Tokens,         \* version |-> tokens of third party invites
          StateTypes      \* version |-> further types of state events

\* A parsed power levels content: every level is an integer.
PowerContent(c) ==
    /\ ScalarLevels \cup {"notifications_room", "users", "events", "form"} \subseteq DOMAIN c
    /\ \A name \in ScalarLevels \cup {"notifications_room"} : c[name] \in Int
    /\ c.users \in [DOMAIN c.users -> Int] /\ IsFiniteSet(DOMAIN c.users)
    /\ c.events \in [DOMAIN c.events -> Int]

ASSUME RoomAssumption ==
    /\ Creator \in User
    /\ Versions \subseteq 1..11
    /\ \A v \in Versions :
          /\ User \cap Tokens[v] = {}
          /\ \A c \in PowerContents[v] : PowerContent(c)
          /\ StateTypes[v] \cap {Create, Member, PowerLevels, JoinRules, ThirdParty} = {}

VARIABLES version,
          resolved_state, \* key |-> event
          by,             \* sender of the last event that entered the state
          error,          \* state key of the event the loop failed on, or None
          admitted        \* ghost: users let in since they were last out

roomVars == <<version, resolved_state, by, error, admitted>>

rv == RoomVersion(version)

CreateEvent ==
    [id |-> "create", type |-> Create, state_key |-> "", sender |-> Creator,
     content |-> [creator |-> Creator, federate |-> TRUE, room_version_ok |-> TRUE,
                  room_server |-> server_name[Creator]],
     auth_events |-> << >>, prev_events |-> << >>]

-----------------------------------------------------------------------------
(* What users may send. *)

Event(type, state_key, sender, content, prev) ==
    [id |-> "new", type |-> type, state_key |-> state_key, sender |-> sender,
     content |-> content, auth_events |-> <<"create">>, prev_events |-> prev]

MemberContent(membership, via, invite) ==
    [membership |-> membership, join_authorised_via |-> via, third_party_invite |-> invite]

\* A join may follow the create event directly, on a fork, and may name a user
\* who vouches for it.
Joins(sender) ==
    {Event(Member, target, sender, MemberContent("join", via, None), prev) :
        target \in User, via \in User \cup {None}, prev \in {<<"create">>, <<"new">>}}

Invites(sender) ==
    {Event(Member, target, sender, MemberContent("invite", None, invite), <<"new">>) :
        target \in User,
        invite \in {None} \cup [mxid: User, token: Tokens[version]]}

OtherMemberships(sender) ==
    {Event(Member, target, sender, MemberContent(m, None, None), <<"new">>) :
        target \in User \cup {BadUserId}, m \in {"leave", "ban", "knock", "bad"}}

StateKeys == {"", server_name[Creator]}

\* A token is its own public key.
StateEvents(sender) ==
    {Event(PowerLevels, "", sender, c, <<"new">>) : c \in PowerContents[version]}
    \cup {Event(JoinRules, "", sender, [join_rule |-> r], <<"new">>) : r \in Rules[version]}
    \cup {Event(ThirdParty, t, sender, [public_keys |-> {t}], <<"new">>) : t \in Tokens[version]}
    \cup {Event(t, k, sender, [body |-> "x"], <<"new">>) :
             t \in StateTypes[version], k \in StateKeys}

Sendable ==
    UNION {Joins(s) \cup Invites(s) \cup OtherMemberships(s) \cup StateEvents(s) : s \in User}

-----------------------------------------------------------------------------
\* An event's own auth events: create and any third party invites of the state.
\* What else it names the state has under the same key, and the overlay puts that
\* in its place wherever auth_check reads it; events that name what the state
\* lacks are StateRes's.
OwnAuthEvents ==
    {[k \in {<<Create, "">>} \cup tokens |-> resolved_state[k]] :
        tokens \in SUBSET {k \in DOMAIN resolved_state : k[1] = ThirdParty}}

\* What the state keeps of an event.
Kept(ev) == IF ev.type \in {Create, ThirdParty} THEN ev ELSE [ev EXCEPT !.sender = None,
               !.prev_events = << >>,
               !.content = IF ev.type = Member THEN MemberContent(@.membership, None, None) ELSE @]

Insert(state, ev) ==
    LET key == <<ev.type, ev.state_key>>
    IN  [k \in DOMAIN state \cup {key} |-> IF k = key THEN Kept(ev) ELSE state[k]]

RoomInit ==
    /\ version \in Versions
    /\ resolved_state = [k \in {<<Create, "">>} |-> CreateEvent]
    /\ by = None
    /\ error = None
    /\ admitted = {}

\* The ghost: an invite, a public room or a joined user who may invite lets a
\* user in; leaving and being banned puts it out again.
Vouched(ev) ==
    LET change == MembershipChange(rv, ev, CreateEvent, resolved_state, {})
    IN  \/ change.join_rule = "public"
        \/ change.join_rule \in {"restricted", "knock_restricted"} /\ change.via_is_valid

AdmittedAfter(ev) ==
    LET m == ev.content.membership
    IN  IF m = "invite" \/ (m = "join" /\ Vouched(ev)) THEN admitted \cup {ev.state_key}
        ELSE IF m \in {"leave", "ban"} THEN admitted \ {ev.state_key}
        ELSE admitted

\* One iteration of the loop; an event that is rejected changes nothing.
CheckEvent(ev, own, current_third_party) ==
    LET auth_events == Overlay(own, resolved_state, auth_types_for_event(ev))
        verdict == auth_check(rv, ev, current_third_party, auth_events)
    IN  /\ error = None
        /\ verdict # "reject"
        /\ IF verdict = "err"
           THEN error' = ev.state_key /\ UNCHANGED <<resolved_state, by, admitted>>
           ELSE /\ resolved_state' = Insert(resolved_state, ev)
                /\ by' = ev.sender
                /\ admitted' = IF ev.type = Member THEN AdmittedAfter(ev) ELSE admitted
                /\ UNCHANGED error
        /\ UNCHANGED version

RoomNext ==
    \E ev \in Sendable, own \in OwnAuthEvents :
        \E current \in ThirdPartyInvites(Overlay(own, resolved_state, auth_types_for_event(ev))) :
            CheckEvent(ev, own, current)

RoomSpec == RoomInit /\ [][RoomNext]_roomVars

-----------------------------------------------------------------------------
(* Properties. *)

membership(state, u) == MembershipOf(Get(state, <<Member, u>>))

PowerLevelsIn(state) == {e.content : e \in Get(state, <<PowerLevels, "">>)}

\* Type invariant: the state maps every key to an event filed under its own
\* type and state key, as the loop's insert does.
RoomTypeOK ==
    /\ version \in Versions
    /\ \A k \in DOMAIN resolved_state :
          k = <<resolved_state[k].type, resolved_state[k].state_key>>
    /\ by \in User \cup {None}
    /\ error \in User \cup {None, "", BadUserId}
    /\ admitted \subseteq User

\* A state built from events that passed never makes a later check fail: the
\* only error is a member event whose state key is no user id.  (An error of
\* auth_check aborts the whole of iterative_auth_check and of resolve.)
StateAlwaysReadable == RoomTypeOK /\ error \in {None, BadUserId}

\* Whoever is joined was let in after they were last out: an invite is used up
\* by leaving and by a ban, in every room version and under every join rule.
JoinedWereAdmitted ==
    \A u \in User \ {Creator} : membership(resolved_state, u) = "join" => u \in admitted

\* A third party invite is accepted for a user who is joined, which makes the
\* user an invited one.
Issuer(state, u) == \E k \in DOMAIN state : k[1] = ThirdParty /\ state[k].sender = u

InvitedAgain(u) ==
    /\ membership(resolved_state, u) = "join" /\ membership(resolved_state', u) = "invite"
    /\ Issuer(resolved_state, by')

\* The joined user with an own level above everyone else's.
TopUser(state, u) ==
    /\ membership(state, u) = "join"
    /\ \E pl \in PowerLevelsIn(state) :
          /\ u \in DOMAIN pl.users
          /\ \A v \in User \ {u} : for_user(pl, v) < for_user(pl, u)

\* The top user stays the top user until an
\* event of their own: others together can neither demote, overtake, kick nor
\* ban them (check_power_levels and valid_membership_change combined), only
\* invite them again by third party invite.
TopUserUnassailable ==
    [][\A u \in User :
          TopUser(resolved_state, u) /\ by' # u =>
             TopUser(resolved_state', u) \/ InvitedAgain(u)]_roomVars

\* A banned user comes back only as one who left, by someone else who may ban
\* and kick; the creator's first join, replayed on a fork, is the exception.
BanSticks ==
    [][\A u \in User :
          membership(resolved_state, u) = "ban" /\ membership(resolved_state', u) # "ban" =>
             \/ /\ membership(resolved_state', u) = "leave"
                /\ by' # u
                /\ \E pl \in PowerLevelsIn(resolved_state) :
                      for_user(pl, by') >= pl.ban /\ for_user(pl, by') >= pl.kick
             \/ u = Creator /\ membership(resolved_state', u) = "join"]_roomVars

\* check_power_levels: "cannot add ops > than own".  Nobody, by any event,
\* raises the greatest level in the room.
PowerNeverRises ==
    [][\A old \in PowerLevelsIn(resolved_state), new \in PowerLevelsIn(resolved_state') :
          MaxLevel(new) <= MaxLevel(old)]_roomVars

\* Whoever comes to be invited was invited by a joined user with the level for
\* it, or by the issuer of a third party invite that is still in the state.
InvitesBacked ==
    [][\A u \in User :
          membership(resolved_state, u) # "invite" /\ membership(resolved_state', u) = "invite" =>
             \/ /\ membership(resolved_state, by') = "join"
                /\ \A pl \in PowerLevelsIn(resolved_state) : user_can_invite(pl, by')
             \/ Issuer(resolved_state, by')]_roomVars

Verdict(ev) ==
    auth_check(rv, ev, {},
               Overlay([k \in {<<Create, "">>} |-> CreateEvent], resolved_state,
                       auth_types_for_event(ev)))

Change(target, sender, m) ==
    Event(Member, target, sender, MemberContent(m, None, None), <<"new">>)

\* A power levels event that gives the target the sender's own level.
Promotion(pl, sender, target) ==
    Event(PowerLevels, "", sender,
          [pl EXCEPT !.users = [u \in DOMAIN pl.users \cup {target} |->
              IF u = target THEN for_user(pl, sender) ELSE pl.users[u]]],
          <<"new">>)

\* What RoomPowerLevels tells a client it may do, the server's auth_check
\* accepts: kicks, bans, unbans, invites, redactions, state events and messages,
\* and changes of another's level while no scalar level is above the sender's.
OfferedActionsAccepted ==
    \A pl \in PowerLevelsIn(resolved_state) :
    \A acting \in {u \in User : membership(resolved_state, u) = "join"} :
        /\ \A target \in User \ {acting} :
              LET current == membership(resolved_state, target) IN
              /\ user_can_ban_user(pl, acting, target) =>
                    Verdict(Change(target, acting, "ban")) = "allow"
              /\ IF current = "ban"
                 THEN user_can_unban_user(pl, acting, target) =>
                         Verdict(Change(target, acting, "leave")) = "allow"
                 ELSE user_can_kick_user(pl, acting, target) =>
                         Verdict(Change(target, acting, "leave")) = "allow"
              /\ user_can_invite(pl, acting) /\ current \notin {"join", "ban"} =>
                    Verdict(Change(target, acting, "invite")) = "allow"
              /\ /\ user_can_change_user_power_level(pl, acting, target)
                 /\ \A name \in ScalarLevels : pl[name] <= for_user(pl, acting)
                 => Verdict(Promotion(pl, acting, target)) = "allow"
        /\ \A type \in {JoinRules, "m.room.topic"} :
              user_can_send_state(pl, acting, type) <=>
                  Verdict(Event(type, "", acting, [join_rule |-> "invite"], <<"new">>)) = "allow"
        /\ user_can_send_message(pl, acting, "m.room.message") <=>
               Verdict(Event("m.room.message", NoKey, acting, [body |-> "x"], <<"new">>)) = "allow"
        /\ user_can_redact_event_of_other(pl, acting) =>
               Verdict(Event(Redaction, NoKey, acting, [same_server |-> FALSE], <<"new">>))
                   = "allow"

\* A change of a user's membership has a name, or is one of the three rows of
\* membership_change that are errors and accepted all the same.
HasName(u) ==
    LET old == membership(resolved_state, u)
        new == membership(resolved_state', u)
        change == membership_change([membership |-> new, profile |-> "same"],
                      {[membership |-> old, profile |-> "same"] : e \in Get(resolved_state, <<Member, u>>)},
                      by', u)
    IN  change \in {"Error", "NotImplemented"} =>
           \/ old = "knock" /\ new = "join"
           \/ u = Creator /\ by' = u /\ new = "join"
           \/ InvitedAgain(u)

\* What membership_change calls Error never gets past auth_check, so a client
\* can name every change of the state.  Three of its rows are accepted all the
\* same: a join after a knock, the creator's first join replayed on a fork, and
\* a third party invite for a user who is joined.
ChangesHaveNames == [][\A u \in User : HasName(u)]_roomVars
=============================================================================
