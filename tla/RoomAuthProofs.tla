--------------------------- MODULE RoomAuthProofs ---------------------------
(***************************************************************************)
(* Proofs about the life of a room: what auth_check lets into the state,   *)
(* and what follows for bans, invites and power levels, for any set of     *)
(* users, any room version and any contents of the events they send.       *)
(***************************************************************************)
EXTENDS RoomAuth, FiniteSetTheorems, WellFoundedInduction, TLAPS

-----------------------------------------------------------------------------
(* The inductive invariant. *)

PowerKey == <<PowerLevels, "">>
CreateKey == <<Create, "">>
RuleKey == <<JoinRules, "">>

Memberships == {"join", "invite", "leave", "ban", "knock"}

\* What passed the check can be read again.
Readable(k) ==
    LET ev == resolved_state[k] IN
    /\ k = <<ev.type, ev.state_key>>
    /\ ev.type = Member => ev.state_key \in User /\ ev.content.membership \in Memberships
    /\ ev.type = PowerLevels =>
          /\ k = PowerKey /\ Parses(rv, ev.content)
          /\ ev.content \in PowerContents[version]

StateOK ==
    /\ CreateKey \in DOMAIN resolved_state /\ resolved_state[CreateKey] = CreateEvent
    /\ \A k \in DOMAIN resolved_state : Readable(k)

\* An invite counts as letting the user in.
InvitedWereAdmitted ==
    \A u \in User \ {Creator} :
        membership(resolved_state, u) \in {"join", "invite"} => u \in admitted

RoomIInv ==
    /\ version \in Versions /\ StateOK
    /\ by \in User \cup {None} /\ error \in {None, BadUserId} /\ admitted \in SUBSET User
    /\ InvitedWereAdmitted

-----------------------------------------------------------------------------
(* Maps. *)

LEMMA GetCases ==
    ASSUME NEW f, NEW k
    PROVE  /\ k \in DOMAIN f => Get(f, k) = {f[k]}
           /\ k \notin DOMAIN f => Get(f, k) = {}
BY DEF Get

\* What an event is checked against is the part of the state that it needs.
LEMMA OverlayReads ==
    ASSUME StateOK, NEW own \in OwnAuthEvents, NEW keys
    PROVE  LET st == Overlay(own, resolved_state, keys) IN
           /\ \A k \in keys : Get(st, k) = Get(resolved_state, k)
           /\ \A k \in DOMAIN st : k \in DOMAIN resolved_state /\ st[k] = resolved_state[k]
           /\ Get(st, CreateKey) = {CreateEvent}
<1> DEFINE st == Overlay(own, resolved_state, keys)
<1>1. PICK tokens \in SUBSET {k \in DOMAIN resolved_state : k[1] = ThirdParty} :
         own = [k \in {CreateKey} \cup tokens |-> resolved_state[k]]
  BY DEF OwnAuthEvents, CreateKey
<1>2. CreateKey \in DOMAIN resolved_state /\ resolved_state[CreateKey] = CreateEvent
  BY DEF StateOK
<1>3. /\ DOMAIN own = {CreateKey} \cup tokens /\ DOMAIN own \subseteq DOMAIN resolved_state
      /\ \A k \in DOMAIN own : own[k] = resolved_state[k]
  BY <1>1, <1>2
<1>4. /\ DOMAIN st = DOMAIN own \cup (keys \cap DOMAIN resolved_state)
      /\ \A k \in DOMAIN st : st[k] = resolved_state[k]
  BY <1>3 DEF Overlay
<1>5. ASSUME NEW k \in keys PROVE Get(st, k) = Get(resolved_state, k)
  <2>1. CASE k \in DOMAIN resolved_state
    <3>1. k \in DOMAIN st /\ st[k] = resolved_state[k]
      BY <1>4, <2>1
    <3> QED BY <2>1, <3>1, GetCases
  <2>2. CASE k \notin DOMAIN resolved_state
    <3>1. k \notin DOMAIN st
      BY <1>3, <1>4, <2>2
    <3> QED BY <2>2, <3>1, GetCases
  <2> QED BY <2>1, <2>2
<1>6. Get(st, CreateKey) = {CreateEvent}
  <2> QED BY <1>2, <1>3, <1>4, GetCases
<1>7. \A k \in DOMAIN st : k \in DOMAIN resolved_state
  BY <1>3, <1>4
<1> QED BY <1>4, <1>5, <1>6, <1>7

\* The only member of an Option is the one that is chosen.
LEMMA ChooseOnly ==
    ASSUME NEW x PROVE (CHOOSE e \in {x} : TRUE) = x
OBVIOUS

-----------------------------------------------------------------------------
(* What users send. *)

LEMMA EventFields ==
    ASSUME NEW t, NEW k, NEW s, NEW c, NEW p
    PROVE  LET ev == Event(t, k, s, c, p) IN
           /\ ev.type = t /\ ev.state_key = k /\ ev.sender = s /\ ev.content = c
           /\ ev.prev_events = p /\ ev.auth_events = <<"create">> /\ ev.id = "new"
BY DEF Event

LEMMA ContentFields ==
    ASSUME NEW m, NEW via, NEW invite
    PROVE  LET c == MemberContent(m, via, invite) IN
           c.membership = m /\ c.join_authorised_via = via /\ c.third_party_invite = invite
BY DEF MemberContent

\* An event has one of these shapes.
MemberShape(ev) ==
    /\ ev.type = Member /\ ev.state_key \in User \cup {BadUserId}
    /\ ev.content.membership \in Memberships \cup {"bad"}
    /\ ev.content.join_authorised_via \in User \cup {None}
    /\ ev.content.membership # "join" => ev.content.join_authorised_via = None
    /\ ev.content.membership \in {"leave", "ban", "knock", "bad"} \/ ev.state_key \in User

PowerShape(ev) ==
    ev.type = PowerLevels /\ ev.state_key = "" /\ ev.content \in PowerContents[version]

OtherShape(ev) ==
    /\ ev.type \notin {Create, Member, PowerLevels}
    /\ ev.type = JoinRules => ev.state_key = ""
    /\ ev.type = ThirdParty => ev.state_key \in Tokens[version]

LEMMA SendableShape ==
    ASSUME NEW ev \in Sendable, version \in Versions
    PROVE  /\ ev = Event(ev.type, ev.state_key, ev.sender, ev.content, ev.prev_events)
           /\ ev.sender \in User /\ ev.auth_events = <<"create">>
           /\ MemberShape(ev) \/ PowerShape(ev) \/ OtherShape(ev)
<1>1. PICK s \in User : ev \in Joins(s) \cup Invites(s) \cup OtherMemberships(s) \cup StateEvents(s)
  BY DEF Sendable
<1>2. CASE ev \in Joins(s)
  <2>1. PICK target \in User, via \in User \cup {None}, prev \in {<<"create">>, <<"new">>} :
           ev = Event(Member, target, s, MemberContent("join", via, None), prev)
    BY <1>2 DEF Joins
  <2>2. /\ ev.type = Member /\ ev.state_key = target /\ ev.sender = s
        /\ ev.content = MemberContent("join", via, None) /\ ev.prev_events = prev
        /\ ev.auth_events = <<"create">>
    BY <2>1, EventFields
  <2>3. ev.content.membership = "join" /\ ev.content.join_authorised_via = via
    BY <2>2, ContentFields
  <2> QED BY <2>1, <2>2, <2>3 DEF MemberShape, Memberships
<1>3. CASE ev \in Invites(s)
  <2>1. PICK target \in User, invite \in {None} \cup [mxid: User, token: Tokens[version]] :
           ev = Event(Member, target, s, MemberContent("invite", None, invite), <<"new">>)
    BY <1>3 DEF Invites
  <2>2. /\ ev.type = Member /\ ev.state_key = target /\ ev.sender = s
        /\ ev.content = MemberContent("invite", None, invite) /\ ev.prev_events = <<"new">>
        /\ ev.auth_events = <<"create">>
    BY <2>1, EventFields
  <2>3. ev.content.membership = "invite" /\ ev.content.join_authorised_via = None
    BY <2>2, ContentFields
  <2> QED BY <2>1, <2>2, <2>3 DEF MemberShape, Memberships
<1>4. CASE ev \in OtherMemberships(s)
  <2>1. PICK target \in User \cup {BadUserId}, m \in {"leave", "ban", "knock", "bad"} :
           ev = Event(Member, target, s, MemberContent(m, None, None), <<"new">>)
    BY <1>4 DEF OtherMemberships
  <2>2. /\ ev.type = Member /\ ev.state_key = target /\ ev.sender = s
        /\ ev.content = MemberContent(m, None, None) /\ ev.prev_events = <<"new">>
        /\ ev.auth_events = <<"create">>
    BY <2>1, EventFields
  <2>3. ev.content.membership = m /\ ev.content.join_authorised_via = None
    BY <2>2, ContentFields
  <2> QED BY <2>1, <2>2, <2>3 DEF MemberShape, Memberships
<1>5. CASE ev \in StateEvents(s)
  <2> DEFINE Powers == {Event(PowerLevels, "", s, c, <<"new">>) : c \in PowerContents[version]}
             Joinings == {Event(JoinRules, "", s, [join_rule |-> r], <<"new">>) : r \in Rules[version]}
             Thirds == {Event(ThirdParty, t, s, [public_keys |-> {t}], <<"new">>) : t \in Tokens[version]}
             Others == {Event(t, k, s, [body |-> "x"], <<"new">>) :
                           t \in StateTypes[version], k \in StateKeys}
             Shape == /\ ev = Event(ev.type, ev.state_key, s, ev.content, <<"new">>)
                      /\ ev.sender = s /\ ev.prev_events = <<"new">> /\ ev.auth_events = <<"create">>
  <2>1. ev \in Powers \/ ev \in Joinings \/ ev \in Thirds \/ ev \in Others
    <3>1. StateEvents(s) = Powers \cup Joinings \cup Thirds \cup Others
      BY DEF StateEvents
    <3> HIDE DEF Powers, Joinings, Thirds, Others
    <3> QED BY <1>5, <3>1
  <2>2. /\ Shape
        /\ \/ ev.type = PowerLevels /\ ev.state_key = "" /\ ev.content \in PowerContents[version]
           \/ ev.type = JoinRules /\ ev.state_key = ""
           \/ ev.type = ThirdParty /\ ev.state_key \in Tokens[version]
           \/ ev.type \in StateTypes[version]
    <3>1. ASSUME NEW t, NEW k, NEW c, ev = Event(t, k, s, c, <<"new">>)
          PROVE  Shape /\ ev.type = t /\ ev.state_key = k /\ ev.content = c
      BY <3>1 DEF Event
    <3> HIDE DEF Shape
    <3>2. CASE ev \in Powers
      BY <3>1, <3>2
    <3>3. CASE ev \in Joinings
      BY <3>1, <3>3
    <3>4. CASE ev \in Thirds
      BY <3>1, <3>4
    <3>5. CASE ev \in Others
      <4>1. PICK t \in StateTypes[version], k \in StateKeys :
               ev = Event(t, k, s, [body |-> "x"], <<"new">>)
        BY <3>5
      <4> QED BY <3>1, <4>1
    <3> HIDE DEF Powers, Joinings, Thirds, Others
    <3> QED BY <2>1, <3>2, <3>3, <3>4, <3>5
  <2>3. PowerShape(ev) \/ OtherShape(ev)
    BY <2>2, RoomAssumption
       DEF PowerShape, OtherShape, Create, Member, PowerLevels, JoinRules, ThirdParty
  <2> QED BY <2>2, <2>3
<1> QED BY <1>1, <1>2, <1>3, <1>4, <1>5

-----------------------------------------------------------------------------
(* auth_check on a state that can be read. *)

LEMMA PowerReads ==
    ASSUME StateOK, version \in Versions, NEW e \in Get(resolved_state, PowerKey)
    PROVE  /\ Get(resolved_state, PowerKey) = {e}
           /\ e.content \in PowerContents[version] /\ PowerContent(e.content) /\ Parses(rv, e.content)
<1>1. PowerKey \in DOMAIN resolved_state /\ e = resolved_state[PowerKey]
  BY GetCases
<1>2. Readable(PowerKey)
  BY <1>1 DEF StateOK
<1>3. e.type = PowerLevels
  BY <1>1, <1>2 DEF Readable, PowerKey
<1> QED BY <1>1, <1>2, <1>3, GetCases, RoomAssumption DEF Readable

LEMMA MembershipReads ==
    ASSUME StateOK, NEW u
    PROVE  /\ membership(resolved_state, u) \in Memberships
           /\ membership(resolved_state, u) # "leave" => u \in User
<1>1. CASE <<Member, u>> \in DOMAIN resolved_state
  <2> DEFINE k == <<Member, u>>
             ev == resolved_state[k]
  <2>1. Readable(k)
    BY <1>1 DEF StateOK
  <2>2. ev.type = Member /\ ev.state_key = u
    BY <2>1 DEF Readable
  <2>3. u \in User /\ ev.content.membership \in Memberships
    BY <2>1, <2>2 DEF Readable
  <2>4. Get(resolved_state, k) = {ev}
    BY <1>1, GetCases
  <2>5. membership(resolved_state, u) = ev.content.membership
    <3> HIDE DEF ev
    <3> QED BY <2>4, ChooseOnly DEF membership, MembershipOf
  <2> QED BY <2>3, <2>5
<1>2. CASE <<Member, u>> \notin DOMAIN resolved_state
  <2>1. membership(resolved_state, u) = "leave"
    BY <1>2, GetCases DEF membership, MembershipOf
  <2> QED BY <2>1 DEF Memberships
<1> QED BY <1>1, <1>2

\* What may be checked, and when it passes.
Checkable(ev) ==
    /\ ev.sender \in User /\ ev.auth_events = <<"create">> /\ ev.type # Create
    /\ ev.type = Member => MemberShape(ev)

Passes(ev, st, current) ==
    IF ev.type = Aliases /\ rv.special_case_aliases_auth
    THEN ev.state_key = server_name[ev.sender]
    ELSE IF ev.type = Member
    THEN /\ ev.state_key \in User /\ ev.content.membership # "bad"
         /\ valid_membership_change(rv, ev, CreateEvent, st, current)
    ELSE /\ membership(resolved_state, ev.sender) = "join"
         /\ OrdinaryAllowed(rv, ev, CreateEvent, Get(resolved_state, PowerKey))

\* The map an event is checked against.
Against(ev, own) == Overlay(own, resolved_state, auth_types_for_event(ev))

LEMMA AgainstReads ==
    ASSUME StateOK, NEW own \in OwnAuthEvents, NEW ev, Checkable(ev)
    PROVE  LET st == Against(ev, own) IN
           /\ Get(st, CreateKey) = {CreateEvent}
           /\ Get(st, PowerKey) = Get(resolved_state, PowerKey)
           /\ MembershipOf(Get(st, <<Member, ev.sender>>)) = membership(resolved_state, ev.sender)
           /\ ev.type = Member /\ ev.content.membership # "bad" /\ ev.state_key # NoKey =>
                 MembershipOf(Get(st, <<Member, ev.state_key>>)) = membership(resolved_state, ev.state_key)
<1> DEFINE keys == auth_types_for_event(ev)
<1>1. PowerKey \in keys /\ <<Member, ev.sender>> \in keys
  BY DEF Checkable, auth_types_for_event, PowerKey
<1>2. ev.type = Member /\ ev.content.membership # "bad" /\ ev.state_key # NoKey =>
          <<Member, ev.state_key>> \in keys
  BY DEF Checkable, auth_types_for_event
<1> HIDE DEF keys
<1>3. LET st == Overlay(own, resolved_state, keys) IN
           /\ \A k \in keys : Get(st, k) = Get(resolved_state, k)
           /\ Get(st, CreateKey) = {CreateEvent}
  BY OverlayReads
<1> QED BY <1>1, <1>2, <1>3 DEF Against, keys, membership

LEMMA VerdictIs ==
    ASSUME StateOK, version \in Versions, NEW own \in OwnAuthEvents, NEW current, NEW ev, Checkable(ev)
    PROVE  LET verdict == auth_check(rv, ev, current, Against(ev, own)) IN
           /\ verdict = "allow" <=> Passes(ev, Against(ev, own), current)
           /\ verdict = "err" => ev.type = Member /\ ev.state_key = BadUserId
           /\ verdict \in {"allow", "reject", "err"}
<1> DEFINE st == Against(ev, own)
           pls == Get(resolved_state, PowerKey)
           sender_membership == membership(resolved_state, ev.sender)
<1>1. /\ Get(st, <<Create, "">>) = {CreateEvent} /\ Get(st, <<PowerLevels, "">>) = pls
      /\ MembershipOf(Get(st, <<Member, ev.sender>>)) = sender_membership
  BY AgainstReads DEF CreateKey, PowerKey
<1>2. (CHOOSE c \in Get(st, <<Create, "">>) : TRUE) = CreateEvent
  BY <1>1, ChooseOnly
<1>3. AdmittedByCreate(ev, CreateEvent)
  <2>1. 1 \in DOMAIN ev.auth_events /\ ev.auth_events[1] = CreateEvent.id
    BY DEF Checkable, CreateEvent
  <2>2. CreateEvent.content.federate
    BY DEF CreateEvent
  <2> QED BY <2>1, <2>2 DEF AdmittedByCreate
<1>4. /\ CreateEvent.content.creator = Creator /\ Creator # None /\ "" \notin User /\ NoKey \notin User
      /\ BadUserId \notin User
  BY RoomAssumption, UserAssumption DEF CreateEvent
<1>5. sender_membership # "bad"
  BY MembershipReads DEF Memberships
<1>6. ~\E pl \in pls : ~Parses(rv, pl.content)
  BY PowerReads
<1>7. ev.type # Create
  BY DEF Checkable
<1>8. CASE ev.type = Member
  <2>0. Member # Aliases
    BY DEF Member, Aliases
  <2>1. MemberShape(ev)
    BY <1>8 DEF Checkable
  <2>2. CASE ev.state_key = NoKey \/ ev.content.membership = "bad"
    <3>1. auth_check(rv, ev, current, st) = "reject"
      BY <1>1, <1>2, <1>3, <1>7, <1>8, <2>0, <2>2 DEF auth_check
    <3> QED BY <1>4, <1>8, <2>0, <2>2, <3>1 DEF Passes
  <2>3. CASE ~(ev.state_key = NoKey \/ ev.content.membership = "bad") /\ ev.state_key \notin User
    <3>1. auth_check(rv, ev, current, st) = "err"
      BY <1>1, <1>2, <1>3, <1>7, <1>8, <2>0, <2>3 DEF auth_check
    <3> QED BY <1>8, <2>0, <2>1, <2>3, <3>1 DEF Passes, MemberShape
  <2>4. CASE ev.content.membership # "bad" /\ ev.state_key \in User
    <3>1. ~MembershipChangeFails(rv, ev, CreateEvent, st)
      <4>1. MembershipOf(Get(st, <<Member, ev.state_key>>)) = membership(resolved_state, ev.state_key)
        BY <1>4, <1>8, <2>4, AgainstReads
      <4>2. membership(resolved_state, ev.state_key) # "bad"
        BY MembershipReads DEF Memberships
      <4>3. \A pl \in pls : ParsesLeniently(pl.content)
        BY <1>6 DEF Parses, ParsesLeniently
      <4> QED BY <1>1, <1>4, <1>5, <1>6, <4>1, <4>2, <4>3 DEF MembershipChangeFails
    <3>2. auth_check(rv, ev, current, st) =
             IF valid_membership_change(rv, ev, CreateEvent, st, current) THEN "allow" ELSE "reject"
      BY <1>1, <1>2, <1>3, <1>4, <1>7, <1>8, <2>0, <2>4, <3>1 DEF auth_check
    <3> QED BY <1>8, <2>0, <2>4, <3>2 DEF Passes
  <2> QED BY <2>2, <2>3, <2>4
<1>9. CASE ev.type # Member /\ ev.type = Aliases /\ rv.special_case_aliases_auth
  <2>1. auth_check(rv, ev, current, st) = IF ev.state_key = server_name[ev.sender] THEN "allow" ELSE "reject"
    BY <1>1, <1>2, <1>3, <1>7, <1>9 DEF auth_check
  <2> QED BY <1>9, <2>1 DEF Passes
<1>10. CASE ev.type # Member /\ ~(ev.type = Aliases /\ rv.special_case_aliases_auth)
  <2>1. auth_check(rv, ev, current, st) =
           IF sender_membership = "join" /\ OrdinaryAllowed(rv, ev, CreateEvent, pls) THEN "allow" ELSE "reject"
    BY <1>1, <1>2, <1>3, <1>4, <1>5, <1>6, <1>7, <1>10 DEF auth_check
  <2> QED BY <1>10, <2>1 DEF Passes
<1> QED BY <1>8, <1>9, <1>10

-----------------------------------------------------------------------------
(* Membership changes. *)

\* The power levels a membership change is checked with.
LevelsOf(pls) == IF pls = {} THEN DefaultPowerLevels ELSE (CHOOSE e \in pls : TRUE).content

RoomLevels == LevelsOf(Get(resolved_state, PowerKey))

LEMMA LevelsRead ==
    ASSUME StateOK, version \in Versions
    PROVE  /\ PowerContent(RoomLevels)
           /\ PowerLevelsIn(resolved_state) = {} => RoomLevels = DefaultPowerLevels
           /\ \A pl \in PowerLevelsIn(resolved_state) :
                 /\ pl = RoomLevels /\ PowerLevelsIn(resolved_state) = {RoomLevels}
                 /\ pl \in PowerContents[version] /\ Parses(rv, pl)
<1>1. CASE Get(resolved_state, PowerKey) = {}
  <2>1. RoomLevels = DefaultPowerLevels /\ PowerLevelsIn(resolved_state) = {}
    BY <1>1 DEF RoomLevels, LevelsOf, PowerLevelsIn, PowerKey
  <2>2. /\ DOMAIN << >> = {} /\ << >> \in [DOMAIN << >> -> Int]
    OBVIOUS
  <2>3. PowerContent(DefaultPowerLevels)
    <3>1. IsFiniteSet({})
      BY FS_EmptySet
    <3> QED BY <2>2, <3>1 DEF PowerContent, DefaultPowerLevels, ScalarLevels
  <2> QED BY <2>1, <2>3
<1>2. CASE Get(resolved_state, PowerKey) # {}
  <2>1. PICK e : e \in Get(resolved_state, PowerKey)
    BY <1>2
  <2>2. /\ Get(resolved_state, PowerKey) = {e}
        /\ e.content \in PowerContents[version] /\ PowerContent(e.content) /\ Parses(rv, e.content)
    BY <2>1, PowerReads
  <2>3. RoomLevels = e.content
    BY <2>2, ChooseOnly DEF RoomLevels, LevelsOf
  <2>4. PowerLevelsIn(resolved_state) = {e.content}
    BY <2>2 DEF PowerLevelsIn, PowerKey
  <2> QED BY <2>2, <2>3, <2>4
<1> QED BY <1>1, <1>2

\* What valid_membership_change computes is what the state says.
LEMMA ChangeReads ==
    ASSUME StateOK, version \in Versions, NEW own \in OwnAuthEvents, NEW current, NEW ev, Checkable(ev),
           ev.type = Member, ev.content.membership # "bad", ev.state_key \in User
    PROVE  LET m == MembershipChange(rv, ev, CreateEvent, Against(ev, own), current)
               mine == Get(RoomLevels.users, ev.sender)
               theirs == Get(RoomLevels.users, ev.state_key)
           IN
           /\ m.sender = ev.sender /\ m.target = ev.state_key
           /\ m.sender_membership = membership(resolved_state, ev.sender)
           /\ m.target_current = membership(resolved_state, ev.state_key)
           /\ m.power_levels = RoomLevels
           /\ m.sender_power = IF mine # {} THEN mine
                               ELSE IF membership(resolved_state, ev.sender) = "join"
                                    THEN {RoomLevels.users_default} ELSE {}
           /\ m.target_power = IF theirs # {} THEN theirs
                               ELSE IF ev.content.membership = "join" THEN {RoomLevels.users_default} ELSE {}
           /\ m.third_party_invite = ev.content.third_party_invite
           /\ m.current_third_party = current
           /\ m.first_join => ev.sender = Creator /\ ev.state_key = Creator
<1> DEFINE st == Against(ev, own)
           m == MembershipChange(rv, ev, CreateEvent, st, current)
           content == LevelsOf(Get(st, <<PowerLevels, "">>))
<1>1. /\ Get(st, <<PowerLevels, "">>) = Get(resolved_state, PowerKey)
      /\ MembershipOf(Get(st, <<Member, ev.sender>>)) = membership(resolved_state, ev.sender)
      /\ MembershipOf(Get(st, <<Member, ev.state_key>>)) = membership(resolved_state, ev.state_key)
  <2>1. ev.state_key # NoKey
    BY UserAssumption
  <2> QED BY <2>1, AgainstReads DEF PowerKey
<1>2. content = RoomLevels
  BY <1>1 DEF RoomLevels
<1>3. /\ m.sender = ev.sender /\ m.target = ev.state_key
      /\ m.sender_membership = MembershipOf(Get(st, <<Member, ev.sender>>))
      /\ m.target_current = MembershipOf(Get(st, <<Member, ev.state_key>>))
      /\ m.third_party_invite = ev.content.third_party_invite
      /\ m.current_third_party = current
  BY DEF MembershipChange
<1>4. m.power_levels = content
  BY DEF MembershipChange, LevelsOf
<1>5. m.sender_power = IF Get(content.users, ev.sender) # {} THEN Get(content.users, ev.sender)
                       ELSE IF MembershipOf(Get(st, <<Member, ev.sender>>)) = "join"
                            THEN {content.users_default} ELSE {}
  BY DEF MembershipChange, LevelsOf
<1>6. m.target_power = IF Get(content.users, ev.state_key) # {} THEN Get(content.users, ev.state_key)
                       ELSE IF ev.content.membership = "join" THEN {content.users_default} ELSE {}
  BY DEF MembershipChange, LevelsOf
<1>7. m.first_join => ev.sender = Creator /\ ev.state_key = Creator
  <2>1. m.first_join <=> /\ ev.prev_events = <<CreateEvent.id>>
                         /\ IsCreator(rv, CreateEvent, ev.sender)
                         /\ ev.sender = ev.state_key
    BY DEF MembershipChange
  <2>2. CreateEvent.sender = Creator /\ CreateEvent.content.creator = Creator
    BY DEF CreateEvent
  <2> QED BY <2>1, <2>2 DEF IsCreator
<1> HIDE DEF m, content, st
<1>8. /\ m.sender_membership = membership(resolved_state, ev.sender)
      /\ m.target_current = membership(resolved_state, ev.state_key)
      /\ m.power_levels = RoomLevels
  BY <1>1, <1>2, <1>3, <1>4
<1> QED BY <1>1, <1>2, <1>3, <1>5, <1>6, <1>7, <1>8 DEF m, st

\* The level of a joined user, and who is below it.
LEMMA PowerOfSender ==
    ASSUME NEW L, PowerContent(L), NEW u, NEW joined
    PROVE  LET mine == Get(L.users, u)
               power == IF mine # {} THEN mine ELSE IF joined THEN {L.users_default} ELSE {}
           IN  /\ \A p \in power : p = UserLevel(L, u)
               /\ joined => power = {UserLevel(L, u)}
               /\ u \in DOMAIN L.users => power = {UserLevel(L, u)}
               /\ UserLevel(L, u) \in Int
<1>1. /\ u \in DOMAIN L.users => Get(L.users, u) = {L.users[u]}
      /\ u \notin DOMAIN L.users => Get(L.users, u) = {}
  BY GetCases
<1>2. UserLevel(L, u) \in Int
  BY DEF PowerContent, UserLevel, ScalarLevels
<1>3. CASE u \in DOMAIN L.users
  BY <1>1, <1>2, <1>3 DEF UserLevel
<1>4. CASE u \notin DOMAIN L.users
  BY <1>1, <1>2, <1>4 DEF UserLevel
<1> QED BY <1>3, <1>4

-----------------------------------------------------------------------------
(* One event enters the state. *)

LEMMA KeptFields ==
    ASSUME NEW ev, ev = Event(ev.type, ev.state_key, ev.sender, ev.content, ev.prev_events)
    PROVE  /\ Kept(ev).type = ev.type /\ Kept(ev).state_key = ev.state_key
           /\ ev.type = Member => Kept(ev).content.membership = ev.content.membership
           /\ ev.type # Member => Kept(ev).content = ev.content
           /\ ev.type = ThirdParty => Kept(ev).sender = ev.sender
<1> DEFINE e == Event(ev.type, ev.state_key, ev.sender, ev.content, ev.prev_events)
           c == MemberContent(ev.content.membership, None, None)
<1>1. CASE ev.type \in {Create, ThirdParty}
  <2>1. Kept(ev) = ev /\ ev.type # Member
    BY <1>1 DEF Kept, Create, ThirdParty, Member
  <2> QED BY <2>1
<1>2. CASE ev.type = Member
  <2>1. Kept(ev) = [ev EXCEPT !.sender = None, !.prev_events = << >>, !.content = c]
    BY <1>2 DEF Kept, Create, ThirdParty, Member
  <2>2. Kept(ev) = [e EXCEPT !.sender = None, !.prev_events = << >>, !.content = c]
    BY <2>1
  <2> HIDE DEF c
  <2>3. Kept(ev).type = ev.type /\ Kept(ev).state_key = ev.state_key /\ Kept(ev).content = c
    BY <2>2 DEF Event
  <2>4. c.membership = ev.content.membership
    BY ContentFields DEF c
  <2>5. ev.type # ThirdParty
    BY <1>2 DEF ThirdParty, Member
  <2> QED BY <1>2, <2>3, <2>4, <2>5
<1>3. CASE ev.type \notin {Create, ThirdParty, Member}
  <2>1. Kept(ev) = [ev EXCEPT !.sender = None, !.prev_events = << >>, !.content = ev.content]
    BY <1>3 DEF Kept
  <2>2. Kept(ev) = [e EXCEPT !.sender = None, !.prev_events = << >>, !.content = ev.content]
    BY <2>1
  <2>3. Kept(ev).type = ev.type /\ Kept(ev).state_key = ev.state_key /\ Kept(ev).content = ev.content
    BY <2>2 DEF Event
  <2> QED BY <1>3, <2>3
<1> QED BY <1>1, <1>2, <1>3

LEMMA InsertReads ==
    ASSUME NEW ev, NEW state, ev = Event(ev.type, ev.state_key, ev.sender, ev.content, ev.prev_events)
    PROVE  /\ \A u : membership(Insert(state, ev), u) = IF ev.type = Member /\ ev.state_key = u
                                                        THEN ev.content.membership
                                                        ELSE membership(state, u)
           /\ PowerLevelsIn(Insert(state, ev)) = IF ev.type = PowerLevels /\ ev.state_key = ""
                                    THEN {ev.content} ELSE PowerLevelsIn(state)
<1> DEFINE next == Insert(state, ev)
           key == <<ev.type, ev.state_key>>
<1>1. /\ DOMAIN next = DOMAIN state \cup {key}
      /\ next[key] = Kept(ev)
      /\ \A k \in DOMAIN state \ {key} : next[k] = state[k]
  BY DEF Insert
<1> HIDE DEF next
<1>2. ASSUME NEW k PROVE Get(next, k) = IF k = key THEN {Kept(ev)} ELSE Get(state, k)
  <2>1. CASE k = key
    BY <1>1, <2>1, GetCases
  <2>2. CASE k # key /\ k \in DOMAIN state
    <3>1. k \in DOMAIN next /\ next[k] = state[k]
      BY <1>1, <2>2
    <3> QED BY <2>2, <3>1, GetCases
  <2>3. CASE k # key /\ k \notin DOMAIN state
    <3>1. k \notin DOMAIN next
      BY <1>1, <2>3
    <3> QED BY <2>3, <3>1, GetCases
  <2> QED BY <2>1, <2>2, <2>3
<1>3. ASSUME NEW u
      PROVE  membership(next, u) = IF ev.type = Member /\ ev.state_key = u
                                   THEN ev.content.membership ELSE membership(state, u)
  <2>1. <<Member, u>> = key <=> ev.type = Member /\ ev.state_key = u
    OBVIOUS
  <2>2. CASE ev.type = Member /\ ev.state_key = u
    <3>1. Get(next, <<Member, u>>) = {Kept(ev)}
      BY <1>2, <2>1, <2>2
    <3>2. MembershipOf({Kept(ev)}) = Kept(ev).content.membership
      BY ChooseOnly DEF MembershipOf
    <3>3. Kept(ev).content.membership = ev.content.membership
      BY <2>2, KeptFields
    <3> QED BY <2>2, <3>1, <3>2, <3>3 DEF membership
  <2>3. CASE ~(ev.type = Member /\ ev.state_key = u)
    <3>1. Get(next, <<Member, u>>) = Get(state, <<Member, u>>)
      BY <1>2, <2>1, <2>3
    <3> QED BY <2>3, <3>1 DEF membership
  <2> QED BY <2>2, <2>3
<1>4. PowerLevelsIn(next) = IF ev.type = PowerLevels /\ ev.state_key = ""
                            THEN {ev.content} ELSE PowerLevelsIn(state)
  <2>1. <<PowerLevels, "">> = key <=> ev.type = PowerLevels /\ ev.state_key = ""
    OBVIOUS
  <2>2. CASE ev.type = PowerLevels /\ ev.state_key = ""
    <3>1. Get(next, <<PowerLevels, "">>) = {Kept(ev)}
      BY <1>2, <2>1, <2>2
    <3>2. Kept(ev).content = ev.content
      BY <2>2, KeptFields DEF Member, PowerLevels
    <3> QED BY <2>2, <3>1, <3>2 DEF PowerLevelsIn
  <2>3. CASE ~(ev.type = PowerLevels /\ ev.state_key = "")
    <3>1. Get(next, <<PowerLevels, "">>) = Get(state, <<PowerLevels, "">>)
      BY <1>2, <2>1, <2>3
    <3> QED BY <2>3, <3>1 DEF PowerLevelsIn
  <2> QED BY <2>2, <2>3
<1> QED BY <1>3, <1>4 DEF next

\* The memberships and the power levels after the event.
LEMMA MembershipAfter ==
    ASSUME NEW ev, ev = Event(ev.type, ev.state_key, ev.sender, ev.content, ev.prev_events),
           resolved_state' = Insert(resolved_state, ev)
    PROVE  /\ \A u : membership(resolved_state', u) = IF ev.type = Member /\ ev.state_key = u
                                                     THEN ev.content.membership
                                                     ELSE membership(resolved_state, u)
           /\ PowerLevelsIn(resolved_state') = IF ev.type = PowerLevels /\ ev.state_key = ""
                                               THEN {ev.content} ELSE PowerLevelsIn(resolved_state)
<1> DEFINE next == Insert(resolved_state, ev)
<1>1. /\ \A u : membership(next, u) = IF ev.type = Member /\ ev.state_key = u
                                      THEN ev.content.membership ELSE membership(resolved_state, u)
      /\ PowerLevelsIn(next) = IF ev.type = PowerLevels /\ ev.state_key = ""
                               THEN {ev.content} ELSE PowerLevelsIn(resolved_state)
  BY InsertReads
<1> QED BY <1>1

\* What a step of the room is: an error, or an event that passed enters the state.
LEMMA StepFacts ==
    ASSUME RoomIInv, NEW ev \in Sendable, NEW own \in OwnAuthEvents, NEW current,
           CheckEvent(ev, own, current)
    PROVE  /\ Checkable(ev)
           /\ MemberShape(ev) \/ PowerShape(ev) \/ OtherShape(ev)
           /\ ev = Event(ev.type, ev.state_key, ev.sender, ev.content, ev.prev_events)
           /\ ev.sender \in User /\ version' = version
           /\ \/ error' = BadUserId /\ UNCHANGED <<resolved_state, by, admitted>>
              \/ /\ Passes(ev, Against(ev, own), current)
                 /\ resolved_state' = Insert(resolved_state, ev)
                 /\ by' = ev.sender /\ error' = error
                 /\ admitted' = IF ev.type = Member THEN AdmittedAfter(ev) ELSE admitted
<1> DEFINE verdict == auth_check(rv, ev, current, Against(ev, own))
<1>1. /\ ev = Event(ev.type, ev.state_key, ev.sender, ev.content, ev.prev_events)
      /\ ev.sender \in User /\ ev.auth_events = <<"create">>
      /\ MemberShape(ev) \/ PowerShape(ev) \/ OtherShape(ev)
  BY SendableShape DEF RoomIInv
<1>2. Checkable(ev)
  BY <1>1 DEF Checkable, MemberShape, PowerShape, OtherShape, Create, Member, PowerLevels
<1>3. /\ verdict = "allow" <=> Passes(ev, Against(ev, own), current)
      /\ verdict = "err" => ev.type = Member /\ ev.state_key = BadUserId
      /\ verdict \in {"allow", "reject", "err"}
  BY <1>2, VerdictIs DEF RoomIInv
<1> HIDE DEF verdict
<1>4. /\ verdict # "reject" /\ version' = version
      /\ verdict = "err" => error' = ev.state_key /\ UNCHANGED <<resolved_state, by, admitted>>
      /\ verdict # "err" => /\ resolved_state' = Insert(resolved_state, ev)
                            /\ by' = ev.sender /\ error' = error
                            /\ admitted' = IF ev.type = Member THEN AdmittedAfter(ev) ELSE admitted
  BY DEF CheckEvent, Against, verdict
<1>5. CASE verdict = "err"
  BY <1>1, <1>2, <1>3, <1>4, <1>5
<1>6. CASE verdict = "allow"
  BY <1>1, <1>2, <1>3, <1>4, <1>6
<1> QED BY <1>3, <1>4, <1>5, <1>6

\* A join that passes is one of someone who was let in, or whom the join rule
\* or a voucher lets in now.
LEMMA JoinPasses ==
    ASSUME StateOK, version \in Versions, NEW own \in OwnAuthEvents, NEW current, NEW ev, Checkable(ev),
           ev.type = Member, ev.content.membership = "join", ev.state_key \in User,
           Passes(ev, Against(ev, own), current)
    PROVE  \/ ev.sender = Creator /\ ev.state_key = Creator
           \/ /\ ev.sender = ev.state_key
              /\ membership(resolved_state, ev.state_key) # "ban"
              /\ membership(resolved_state, ev.state_key) \in {"join", "invite"} \/ Vouched(ev)
<1> DEFINE st == Against(ev, own)
           m == MembershipChange(rv, ev, CreateEvent, st, current)
           n == MembershipChange(rv, ev, CreateEvent, resolved_state, {})
           via == ev.content.join_authorised_via
<1>1. /\ m.sender = ev.sender /\ m.target = ev.state_key
      /\ m.target_current = membership(resolved_state, ev.state_key)
      /\ m.first_join => ev.sender = Creator /\ ev.state_key = Creator
  BY ChangeReads
<1>2. ValidJoin(rv, m)
  BY DEF Passes, valid_membership_change, Member, Aliases
<1>3. /\ Get(st, <<JoinRules, "">>) = Get(resolved_state, <<JoinRules, "">>)
      /\ Get(st, <<PowerLevels, "">>) = Get(resolved_state, <<PowerLevels, "">>)
      /\ via # None => Get(st, <<Member, via>>) = Get(resolved_state, <<Member, via>>)
  <2> DEFINE keys == auth_types_for_event(ev)
  <2>1. ev.state_key # NoKey
    BY UserAssumption
  <2>2. /\ <<JoinRules, "">> \in keys /\ <<PowerLevels, "">> \in keys
        /\ via # None => <<Member, via>> \in keys
    BY <2>1 DEF auth_types_for_event, Create, Member
  <2> HIDE DEF keys
  <2>3. \A k \in keys : Get(Overlay(own, resolved_state, keys), k) = Get(resolved_state, k)
    BY OverlayReads
  <2>4. st = Overlay(own, resolved_state, keys)
    BY DEF Against, keys
  <2> QED BY <2>2, <2>3, <2>4
<1>4. m.join_rule = n.join_rule
  <2> DEFINE Rule(jr) == IF jr = {} THEN "invite" ELSE (CHOOSE e \in jr : TRUE).content.join_rule
  <2>1. m.join_rule = Rule(Get(st, <<JoinRules, "">>))
    BY DEF MembershipChange
  <2>2. n.join_rule = Rule(Get(resolved_state, <<JoinRules, "">>))
    BY DEF MembershipChange
  <2> QED BY <1>3, <2>1, <2>2
<1>5. m.via_is_valid <=> n.via_is_valid
  <2> DEFINE Valid(s) ==
               /\ via # None
               /\ MembershipOf(Get(s, <<Member, via>>)) = "join"
               /\ Get(s, <<PowerLevels, "">>) # {} =>
                     UserLevel(LevelsOf(Get(s, <<PowerLevels, "">>)), via)
                        >= LevelsOf(Get(s, <<PowerLevels, "">>)).invite
  <2>1. m.via_is_valid <=> Valid(st)
    BY DEF MembershipChange, LevelsOf
  <2>2. n.via_is_valid <=> Valid(resolved_state)
    BY DEF MembershipChange, LevelsOf
  <2>3. Valid(st) <=> Valid(resolved_state)
    BY <1>3
  <2> QED BY <2>1, <2>2, <2>3
<1> HIDE DEF m, n
<1>6. Vouched(ev) <=> \/ n.join_rule = "public"
                      \/ n.join_rule \in {"restricted", "knock_restricted"} /\ n.via_is_valid
  BY DEF Vouched, n
<1> QED BY <1>1, <1>2, <1>4, <1>5, <1>6 DEF ValidJoin

\* The state can be read after an event that passed entered it.
LEMMA StateOKStep ==
    ASSUME StateOK, version \in Versions, version' = version, NEW own \in OwnAuthEvents, NEW current,
           NEW ev, Checkable(ev), MemberShape(ev) \/ PowerShape(ev) \/ OtherShape(ev),
           ev = Event(ev.type, ev.state_key, ev.sender, ev.content, ev.prev_events),
           Passes(ev, Against(ev, own), current), resolved_state' = Insert(resolved_state, ev)
    PROVE  StateOK'
<1> DEFINE key == <<ev.type, ev.state_key>>
<1>1. /\ DOMAIN resolved_state' = DOMAIN resolved_state \cup {key}
      /\ resolved_state'[key] = Kept(ev)
      /\ \A k \in DOMAIN resolved_state \ {key} : resolved_state'[k] = resolved_state[k]
  BY DEF Insert
<1>2. key # CreateKey
  BY DEF Checkable, CreateKey
<1>3. CreateEvent' = CreateEvent /\ rv' = rv
  BY DEF CreateEvent, rv
<1>4. /\ CreateKey \in DOMAIN resolved_state'
      /\ resolved_state'[CreateKey] = CreateEvent
  BY <1>1, <1>2 DEF StateOK
<1>5. ASSUME NEW k \in DOMAIN resolved_state', k # key PROVE Readable(k)'
  <2>1. k \in DOMAIN resolved_state /\ resolved_state'[k] = resolved_state[k] /\ Readable(k)
    BY <1>1, <1>5 DEF StateOK
  <2> QED BY <1>3, <2>1 DEF Readable
<1>6. Readable(key)'
  <2>1. /\ Kept(ev).type = ev.type /\ Kept(ev).state_key = ev.state_key
        /\ ev.type = Member => Kept(ev).content.membership = ev.content.membership
        /\ ev.type # Member => Kept(ev).content = ev.content
    BY KeptFields
  <2>2. CASE ev.type = Member
    <3>1. MemberShape(ev) /\ ev.type # PowerLevels
      BY <2>2 DEF PowerShape, OtherShape, Member, PowerLevels
    <3>2. ev.state_key \in User /\ ev.content.membership # "bad"
      BY <2>2 DEF Passes, Member, Aliases
    <3> QED BY <1>1, <2>1, <2>2, <3>1, <3>2 DEF Readable, MemberShape
  <2>3. CASE ev.type = PowerLevels
    <3>1. PowerShape(ev)
      BY <2>3 DEF MemberShape, OtherShape, Member, PowerLevels
    <3>2. Parses(rv, ev.content)
      BY <2>3 DEF Passes, OrdinaryAllowed, check_power_levels, PowerLevels, Aliases, ThirdParty, Member
    <3>3. ev.type # Member
      BY <2>3 DEF Member, PowerLevels
    <3>4. /\ resolved_state'[key] = Kept(ev) /\ Kept(ev).content = ev.content /\ ev.state_key = ""
          /\ ev.content \in PowerContents[version]
      BY <1>1, <2>1, <3>1, <3>3 DEF PowerShape
    <3>5. Parses(rv, ev.content)'
      BY <1>3, <3>2
    <3> QED BY <1>3, <2>1, <2>3, <3>2, <3>3, <3>4 DEF Readable, PowerKey
  <2>4. CASE ev.type # Member /\ ev.type # PowerLevels
    BY <1>1, <2>1, <2>4 DEF Readable
  <2> QED BY <2>2, <2>3, <2>4
<1> QED BY <1>3, <1>4, <1>5, <1>6 DEF StateOK

\* Everything a room can do keeps the invariant.
LEMMA NextRoomIInv == RoomIInv /\ [RoomNext]_roomVars => RoomIInv'
<1> SUFFICES ASSUME RoomIInv, [RoomNext]_roomVars PROVE RoomIInv'
  OBVIOUS
<1>1. CASE UNCHANGED roomVars
  BY <1>1 DEF roomVars, RoomIInv, StateOK, Readable, InvitedWereAdmitted, rv
<1>2. CASE RoomNext
  <2>1. PICK ev \in Sendable, own \in OwnAuthEvents :
          \E current \in ThirdPartyInvites(Overlay(own, resolved_state, auth_types_for_event(ev))) :
             CheckEvent(ev, own, current)
    BY <1>2 DEF RoomNext
  <2>2. PICK current : CheckEvent(ev, own, current)
    BY <2>1
  <2>3. /\ Checkable(ev)
        /\ MemberShape(ev) \/ PowerShape(ev) \/ OtherShape(ev)
        /\ ev = Event(ev.type, ev.state_key, ev.sender, ev.content, ev.prev_events)
        /\ ev.sender \in User /\ version' = version
        /\ \/ error' = BadUserId /\ UNCHANGED <<resolved_state, by, admitted>>
           \/ /\ Passes(ev, Against(ev, own), current)
              /\ resolved_state' = Insert(resolved_state, ev)
              /\ by' = ev.sender /\ error' = error
              /\ admitted' = IF ev.type = Member THEN AdmittedAfter(ev) ELSE admitted
    BY <2>2, StepFacts
  <2>4. CASE error' = BadUserId /\ UNCHANGED <<resolved_state, by, admitted>>
    BY <2>3, <2>4 DEF RoomIInv, StateOK, Readable, InvitedWereAdmitted, rv
  <2>5. CASE /\ Passes(ev, Against(ev, own), current)
             /\ resolved_state' = Insert(resolved_state, ev)
             /\ by' = ev.sender /\ error' = error
             /\ admitted' = IF ev.type = Member THEN AdmittedAfter(ev) ELSE admitted
    <3>1. StateOK /\ version \in Versions /\ admitted \in SUBSET User /\ InvitedWereAdmitted
      BY DEF RoomIInv
    <3>2. StateOK'
      BY <2>3, <2>5, <3>1, StateOKStep
    <3>3. \A u : membership(resolved_state', u) = IF ev.type = Member /\ ev.state_key = u
                                                  THEN ev.content.membership ELSE membership(resolved_state, u)
      BY <2>3, <2>5, MembershipAfter
    <3>4. InvitedWereAdmitted' /\ admitted' \in SUBSET User
      <4>1. CASE ev.type # Member
        BY <2>5, <3>1, <3>3, <4>1 DEF InvitedWereAdmitted
      <4>2. CASE ev.type = Member
        <5>1. ev.state_key \in User /\ ev.content.membership # "bad" /\ admitted' = AdmittedAfter(ev)
          BY <2>5, <4>2 DEF Passes, Member, Aliases
        <5>2. /\ admitted' \in SUBSET User
              /\ \A u \in User \ {ev.state_key} : u \in admitted' <=> u \in admitted
          BY <3>1, <5>1 DEF AdmittedAfter
        <5>3. ASSUME ev.content.membership \in {"join", "invite"}, ev.state_key # Creator
              PROVE  ev.state_key \in admitted'
          <6>1. CASE ev.content.membership = "invite"
            BY <5>1, <6>1 DEF AdmittedAfter
          <6>2. CASE ev.content.membership = "join"
            <7>1. membership(resolved_state, ev.state_key) \in {"join", "invite"} \/ Vouched(ev)
              BY <2>3, <2>5, <3>1, <4>2, <5>1, <5>3, <6>2, JoinPasses
            <7>2. CASE Vouched(ev)
              BY <5>1, <6>2, <7>2 DEF AdmittedAfter
            <7>3. CASE membership(resolved_state, ev.state_key) \in {"join", "invite"}
              <8>1. ev.state_key \in admitted
                BY <3>1, <5>1, <5>3, <7>3 DEF InvitedWereAdmitted
              <8> QED BY <5>1, <6>2, <8>1 DEF AdmittedAfter
            <7> QED BY <7>1, <7>2, <7>3
          <6> QED BY <5>3, <6>1, <6>2
        <5> QED BY <3>1, <3>3, <4>2, <5>2, <5>3 DEF InvitedWereAdmitted
      <4> QED BY <4>1, <4>2
    <3> QED BY <2>3, <2>5, <3>2, <3>4 DEF RoomIInv
  <2> QED BY <2>3, <2>4, <2>5
<1> QED BY <1>1, <1>2

LEMMA InitRoomIInv == RoomInit => RoomIInv
<1> SUFFICES ASSUME RoomInit PROVE RoomIInv
  OBVIOUS
<1>1. /\ DOMAIN resolved_state = {CreateKey} /\ resolved_state[CreateKey] = CreateEvent
  BY DEF RoomInit, CreateKey
<1>2. CreateEvent.type = Create /\ CreateEvent.state_key = ""
  BY DEF CreateEvent
<1>3. StateOK
  BY <1>1, <1>2 DEF StateOK, Readable, CreateKey, Create, Member, PowerLevels
<1>4. ASSUME NEW u \in User PROVE membership(resolved_state, u) = "leave"
  <2>1. <<Member, u>> \notin DOMAIN resolved_state
    BY <1>1 DEF CreateKey, Member, Create
  <2> QED BY <2>1, GetCases DEF membership, MembershipOf
<1>5. InvitedWereAdmitted
  BY <1>4 DEF InvitedWereAdmitted
<1> QED BY <1>3, <1>5 DEF RoomInit, RoomIInv

-----------------------------------------------------------------------------
(* Invariants. *)

\* The invariant is that of every reachable state.
THEOREM RoomInvariant == RoomSpec => []RoomIInv
<1>1. RoomInit => RoomIInv
  BY InitRoomIInv
<1>2. RoomIInv /\ [RoomNext]_roomVars => RoomIInv'
  BY NextRoomIInv
<1> QED BY <1>1, <1>2, PTL DEF RoomSpec

\* No state built from events that passed makes a later auth_check fail, but for
\* a member event whose state key is no user id (the early returns with an error
\* of auth_check and valid_membership_change).
THEOREM StateStaysReadable == RoomSpec => []StateAlwaysReadable
<1>1. RoomIInv => StateAlwaysReadable
  <2> SUFFICES ASSUME RoomIInv PROVE StateAlwaysReadable
    OBVIOUS
  <2>1. \A k \in DOMAIN resolved_state : k = <<resolved_state[k].type, resolved_state[k].state_key>>
    BY DEF RoomIInv, StateOK, Readable
  <2> QED BY <2>1 DEF RoomIInv, StateAlwaysReadable, RoomTypeOK
<1> QED BY <1>1, RoomInvariant, PTL

\* Whoever is joined, but for the creator, was let in after they were last out
\* (valid_membership_change).
THEOREM JoinedAreAdmitted == RoomSpec => []JoinedWereAdmitted
<1>1. RoomIInv => JoinedWereAdmitted
  BY DEF RoomIInv, InvitedWereAdmitted, JoinedWereAdmitted
<1> QED BY <1>1, RoomInvariant, PTL

-----------------------------------------------------------------------------
(* Steps. *)

\* A step leaves the state alone, or adds an event that passed.
StateStep(ev, own, current) ==
    /\ current \in ThirdPartyInvites(Against(ev, own))
    /\ Checkable(ev)
    /\ MemberShape(ev) \/ PowerShape(ev) \/ OtherShape(ev)
    /\ Passes(ev, Against(ev, own), current)
    /\ by' = ev.sender /\ ev.sender \in User
    /\ \A u : membership(resolved_state', u) = IF ev.type = Member /\ ev.state_key = u
                                               THEN ev.content.membership
                                               ELSE membership(resolved_state, u)
    /\ PowerLevelsIn(resolved_state') = IF ev.type = PowerLevels /\ ev.state_key = ""
                                        THEN {ev.content} ELSE PowerLevelsIn(resolved_state)

LEMMA RoomStep ==
    ASSUME RoomIInv, [RoomNext]_roomVars
    PROVE  \/ resolved_state' = resolved_state
           \/ \E ev \in Sendable, own \in OwnAuthEvents : \E current : StateStep(ev, own, current)
<1>1. CASE UNCHANGED roomVars
  BY <1>1 DEF roomVars
<1>2. CASE RoomNext
  <2>1. PICK ev \in Sendable, own \in OwnAuthEvents :
          \E current \in ThirdPartyInvites(Overlay(own, resolved_state, auth_types_for_event(ev))) :
             CheckEvent(ev, own, current)
    BY <1>2 DEF RoomNext
  <2>2. PICK current \in ThirdPartyInvites(Against(ev, own)) : CheckEvent(ev, own, current)
    BY <2>1 DEF Against
  <2>3. /\ Checkable(ev)
        /\ MemberShape(ev) \/ PowerShape(ev) \/ OtherShape(ev)
        /\ ev = Event(ev.type, ev.state_key, ev.sender, ev.content, ev.prev_events)
        /\ ev.sender \in User
        /\ \/ resolved_state' = resolved_state
           \/ /\ Passes(ev, Against(ev, own), current)
              /\ resolved_state' = Insert(resolved_state, ev) /\ by' = ev.sender
    BY <2>2, StepFacts
  <2>4. CASE /\ Passes(ev, Against(ev, own), current)
             /\ resolved_state' = Insert(resolved_state, ev) /\ by' = ev.sender
    <3>1. /\ \A u : membership(resolved_state', u) = IF ev.type = Member /\ ev.state_key = u
                                                     THEN ev.content.membership
                                                     ELSE membership(resolved_state, u)
          /\ PowerLevelsIn(resolved_state') = IF ev.type = PowerLevels /\ ev.state_key = ""
                                              THEN {ev.content} ELSE PowerLevelsIn(resolved_state)
      BY <2>3, <2>4, MembershipAfter
    <3>2. StateStep(ev, own, current)
      BY <2>2, <2>3, <2>4, <3>1 DEF StateStep
    <3> QED BY <3>2
  <2> QED BY <2>3, <2>4
<1> QED BY <1>1, <1>2

\* What a membership change that passed says of the state before it.
LEMMA MemberStep ==
    ASSUME RoomIInv, NEW ev, NEW own \in OwnAuthEvents, NEW current, StateStep(ev, own, current),
           ev.type = Member
    PROVE  LET old == membership(resolved_state, ev.state_key)
               mine == membership(resolved_state, ev.sender)
               level == UserLevel(RoomLevels, ev.sender)
               Above == \A t \in Get(RoomLevels.users, ev.state_key) : t < level
           IN
           /\ ev.state_key \in User
           /\ \/ /\ ev.content.membership = "join"
                 /\ \/ ev.sender = Creator /\ ev.state_key = Creator
                    \/ ev.sender = ev.state_key /\ old # "ban"
              \/ /\ ev.content.membership = "invite"
                 /\ \/ ev.content.third_party_invite # None /\ old # "ban" /\ Issuer(resolved_state, ev.sender)
                    \/ /\ ev.content.third_party_invite = None
                       /\ mine = "join" /\ old \notin {"join", "ban"} /\ level >= RoomLevels.invite
              \/ /\ ev.content.membership = "leave"
                 /\ \/ ev.sender = ev.state_key /\ old \in {"join", "invite", "knock"}
                    \/ /\ ev.sender # ev.state_key /\ mine = "join" /\ Above
                       /\ level >= RoomLevels.kick
                       /\ old = "ban" => level >= RoomLevels.ban
              \/ ev.content.membership = "ban" /\ mine = "join" /\ Above /\ level >= RoomLevels.ban
              \/ /\ ev.content.membership = "knock" /\ ev.sender = ev.state_key
                 /\ old \notin {"ban", "invite", "join"}
<1> DEFINE m == MembershipChange(rv, ev, CreateEvent, Against(ev, own), current)
           level == UserLevel(RoomLevels, ev.sender)
           old == membership(resolved_state, ev.state_key)
           mine == membership(resolved_state, ev.sender)
           Above == \A t \in Get(RoomLevels.users, ev.state_key) : t < level
<1>0. /\ Checkable(ev) /\ StateOK /\ version \in Versions
      /\ Passes(ev, Against(ev, own), current)
  BY DEF StateStep, RoomIInv
<1>1. /\ ev.state_key \in User /\ ev.content.membership # "bad"
      /\ valid_membership_change(rv, ev, CreateEvent, Against(ev, own), current)
  BY <1>0 DEF Passes, Member, Aliases
<1>2. /\ m.sender = ev.sender /\ m.target = ev.state_key
      /\ m.sender_membership = mine /\ m.target_current = old
      /\ m.power_levels = RoomLevels
      /\ m.third_party_invite = ev.content.third_party_invite
      /\ m.current_third_party = current
      /\ m.first_join => ev.sender = Creator /\ ev.state_key = Creator
  BY <1>0, <1>1, ChangeReads
<1>3. m.sender_power = IF Get(RoomLevels.users, ev.sender) # {} THEN Get(RoomLevels.users, ev.sender)
                       ELSE IF mine = "join" THEN {RoomLevels.users_default} ELSE {}
  BY <1>0, <1>1, <1>2, ChangeReads
<1>4. m.target_power = IF Get(RoomLevels.users, ev.state_key) # {} THEN Get(RoomLevels.users, ev.state_key)
                       ELSE IF ev.content.membership = "join" THEN {RoomLevels.users_default} ELSE {}
  BY <1>0, <1>1, ChangeReads
<1>5. PowerContent(RoomLevels)
  BY <1>0, LevelsRead
<1>6. (\A p \in m.sender_power : p = level) /\ level \in Int
  BY <1>3, <1>5, PowerOfSender
<1>7. RoomLevels.kick \in Int /\ RoomLevels.ban \in Int /\ RoomLevels.invite \in Int
  BY <1>5 DEF PowerContent, ScalarLevels
<1>8. \/ ev.content.membership = "join" /\ ValidJoin(rv, m)
      \/ ev.content.membership = "invite" /\ ValidInvite(m)
      \/ ev.content.membership = "leave" /\ ValidLeave(m)
      \/ ev.content.membership = "ban" /\ ValidBan(m)
      \/ ev.content.membership = "knock" /\ ValidKnock(rv, m)
  BY <1>1 DEF valid_membership_change
<1> HIDE DEF m
<1>9. OutRanks(m) /\ ev.content.membership # "join" => Above
  BY <1>4, <1>6 DEF OutRanks
<1>10. CASE ev.content.membership = "join" /\ ValidJoin(rv, m)
  BY <1>1, <1>2, <1>10 DEF ValidJoin
<1>11. CASE ev.content.membership = "invite" /\ ValidInvite(m)
  <2>1. CASE ev.content.third_party_invite # None
    <3>1. old # "ban" /\ verify_third_party_invite(m.target, m.sender, m.third_party_invite, current)
      BY <1>2, <1>11, <2>1 DEF ValidInvite
    <3>2. PICK e \in current : ev.sender = e.sender
      BY <1>2, <3>1 DEF verify_third_party_invite
    <3>3. \E k \in DOMAIN Against(ev, own) : k[1] = ThirdParty /\ e = Against(ev, own)[k]
      BY <3>2 DEF StateStep, ThirdPartyInvites
    <3>4. \A k \in DOMAIN Against(ev, own) :
             k \in DOMAIN resolved_state /\ Against(ev, own)[k] = resolved_state[k]
      BY <1>0, OverlayReads DEF Against
    <3>5. Issuer(resolved_state, ev.sender)
      BY <3>2, <3>3, <3>4 DEF Issuer
    <3> QED BY <1>1, <1>11, <2>1, <3>1, <3>5
  <2>2. CASE ev.content.third_party_invite = None
    BY <1>1, <1>2, <1>6, <1>7, <1>11, <2>2 DEF ValidInvite
  <2> QED BY <2>1, <2>2
<1>12. CASE ev.content.membership = "leave" /\ ValidLeave(m)
  BY <1>1, <1>2, <1>6, <1>7, <1>9, <1>12 DEF ValidLeave
<1>13. CASE ev.content.membership = "ban" /\ ValidBan(m)
  BY <1>1, <1>2, <1>6, <1>7, <1>9, <1>13 DEF ValidBan
<1>14. CASE ev.content.membership = "knock" /\ ValidKnock(rv, m)
  BY <1>1, <1>2, <1>14 DEF ValidKnock
<1> QED BY <1>8, <1>10, <1>11, <1>12, <1>13, <1>14

\* A banned user comes back only as one who left, by someone else with the level
\* to ban and to kick, or as the creator who joins for the first time on a fork
\* (valid_membership_change).
THEOREM BansStick == RoomSpec => BanSticks
<1> DEFINE Keeps ==
      \A u \in User :
          membership(resolved_state, u) = "ban" /\ membership(resolved_state', u) # "ban" =>
             \/ /\ membership(resolved_state', u) = "leave"
                /\ by' # u
                /\ \E pl \in PowerLevelsIn(resolved_state) :
                      for_user(pl, by') >= pl.ban /\ for_user(pl, by') >= pl.kick
             \/ u = Creator /\ membership(resolved_state', u) = "join"
<1>1. RoomIInv /\ [RoomNext]_roomVars => Keeps
  <2> SUFFICES ASSUME RoomIInv, [RoomNext]_roomVars, NEW u \in User,
                      membership(resolved_state, u) = "ban", membership(resolved_state', u) # "ban"
               PROVE  \/ /\ membership(resolved_state', u) = "leave"
                         /\ by' # u
                         /\ \E pl \in PowerLevelsIn(resolved_state) :
                               for_user(pl, by') >= pl.ban /\ for_user(pl, by') >= pl.kick
                      \/ u = Creator /\ membership(resolved_state', u) = "join"
    OBVIOUS
  <2>1. PICK ev \in Sendable, own \in OwnAuthEvents : \E current : StateStep(ev, own, current)
    BY RoomStep
  <2>2. PICK current : StateStep(ev, own, current)
    BY <2>1
  <2>3. ev.type = Member /\ ev.state_key = u /\ membership(resolved_state', u) = ev.content.membership
    BY <2>2 DEF StateStep
  <2> DEFINE level == UserLevel(RoomLevels, ev.sender)
  <2>4. \/ /\ ev.content.membership = "join"
           /\ ev.state_key = Creator
        \/ /\ ev.content.membership = "leave" /\ ev.sender # u
           /\ level >= RoomLevels.kick /\ level >= RoomLevels.ban
           /\ membership(resolved_state, ev.sender) = "join"
    BY <2>2, <2>3, MemberStep
  <2>5. CASE /\ ev.content.membership = "leave" /\ ev.sender # u
             /\ level >= RoomLevels.kick /\ level >= RoomLevels.ban
    <3>1. RoomLevels \in PowerLevelsIn(resolved_state)
      <4>1. CASE PowerLevelsIn(resolved_state) = {}
        <5>1. RoomLevels = DefaultPowerLevels
          BY <4>1, LevelsRead DEF RoomIInv
        <5>2. level = 0 /\ RoomLevels.kick = 50
          BY <5>1 DEF UserLevel, DefaultPowerLevels
        <5> QED BY <2>5, <5>2
      <4>2. CASE PowerLevelsIn(resolved_state) # {}
        BY <4>2, LevelsRead DEF RoomIInv
      <4> QED BY <4>1, <4>2
    <3>2. by' = ev.sender
      BY <2>2 DEF StateStep
    <3> QED BY <2>3, <2>5, <3>1, <3>2 DEF for_user
  <2> QED BY <2>3, <2>4, <2>5
<1>2. RoomIInv /\ [RoomNext]_roomVars => [Keeps]_roomVars
  BY <1>1
<1> QED BY <1>2, RoomInvariant, PTL DEF RoomSpec, BanSticks

\* Whoever comes to be invited was invited by a joined user with the level for
\* it, or by the issuer of a third party invite (valid_membership_change).
THEOREM InvitesAreBacked == RoomSpec => InvitesBacked
<1> DEFINE Backed ==
      \A u \in User :
          membership(resolved_state, u) # "invite" /\ membership(resolved_state', u) = "invite" =>
             \/ /\ membership(resolved_state, by') = "join"
                /\ \A pl \in PowerLevelsIn(resolved_state) : user_can_invite(pl, by')
             \/ Issuer(resolved_state, by')
<1>1. RoomIInv /\ [RoomNext]_roomVars => Backed
  <2> SUFFICES ASSUME RoomIInv, [RoomNext]_roomVars, NEW u \in User,
                      membership(resolved_state, u) # "invite", membership(resolved_state', u) = "invite"
               PROVE  \/ /\ membership(resolved_state, by') = "join"
                         /\ \A pl \in PowerLevelsIn(resolved_state) : user_can_invite(pl, by')
                      \/ Issuer(resolved_state, by')
    OBVIOUS
  <2>1. PICK ev \in Sendable, own \in OwnAuthEvents : \E current : StateStep(ev, own, current)
    BY RoomStep
  <2>2. PICK current : StateStep(ev, own, current)
    BY <2>1
  <2>3. ev.type = Member /\ ev.state_key = u /\ ev.content.membership = "invite" /\ by' = ev.sender
    BY <2>2 DEF StateStep
  <2>4. \/ Issuer(resolved_state, ev.sender)
        \/ /\ membership(resolved_state, ev.sender) = "join"
           /\ UserLevel(RoomLevels, ev.sender) >= RoomLevels.invite
    BY <2>2, <2>3, MemberStep
  <2>5. \A pl \in PowerLevelsIn(resolved_state) : pl = RoomLevels
    BY LevelsRead DEF RoomIInv
  <2> QED BY <2>3, <2>4, <2>5 DEF user_can_invite, for_user
<1>2. RoomIInv /\ [RoomNext]_roomVars => [Backed]_roomVars
  BY <1>1
<1> QED BY <1>2, RoomInvariant, PTL DEF RoomSpec, InvitesBacked

-----------------------------------------------------------------------------
(* Power levels. *)

\* A users_default of 0 is left out when the levels are compared (Serialized),
\* so what follows holds as long as no change is to or from 0: the contents all
\* write it, or they all leave it out and give nobody a negative level.
DefaultCompared ==
    \A v \in Versions :
        \/ \A c \in PowerContents[v] : c.users_default # DefaultLevel("users_default")
        \/ \A c \in PowerContents[v] : /\ c.users_default = DefaultLevel("users_default")
                                       /\ \A u \in DOMAIN c.users : c.users[u] >= 0

\* What a power levels event that passed says of the levels before it: nobody
\* gets more than the sender has, and who has more keeps it.
LEMMA PowerStep ==
    ASSUME RoomIInv, DefaultCompared, NEW ev, NEW own \in OwnAuthEvents, NEW current,
           StateStep(ev, own, current), ev.type = PowerLevels,
           NEW old \in PowerLevelsIn(resolved_state)
    PROVE  LET new == ev.content
               level == UserLevel(old, ev.sender)
           IN  /\ PowerContent(old) /\ PowerContent(new) /\ level \in Int
               /\ PowerLevelsIn(resolved_state) = {old} /\ PowerLevelsIn(resolved_state') = {new}
               /\ \A u \in DOMAIN old.users :
                     old.users[u] > level => u \in DOMAIN new.users /\ new.users[u] = old.users[u]
               /\ \A u \in DOMAIN new.users :
                     \/ u \in DOMAIN old.users /\ new.users[u] = old.users[u]
                     \/ new.users[u] <= level
               /\ \/ new.users_default <= level
                  \/ /\ new.users_default = 0 /\ old.users_default = 0
                     /\ \A u \in DOMAIN old.users : old.users[u] >= 0
<1> DEFINE new == ev.content
           level == UserLevel(old, ev.sender)
<1>0. StateOK /\ version \in Versions
  BY DEF RoomIInv
<1>1. /\ old = RoomLevels /\ PowerLevelsIn(resolved_state) = {old} /\ old \in PowerContents[version]
      /\ PowerContent(old)
  BY <1>0, LevelsRead
<1>2. PowerShape(ev) /\ new \in PowerContents[version] /\ PowerContent(new) /\ ev.state_key = ""
  BY <1>0, RoomAssumption DEF StateStep, MemberShape, OtherShape, PowerShape, Member, PowerLevels
<1>3. PowerLevelsIn(resolved_state') = {new}
  BY <1>2 DEF StateStep
<1>4. PICK pl \in Get(resolved_state, PowerKey) : pl.content = old
  BY DEF PowerLevelsIn, PowerKey
<1>5. Get(resolved_state, PowerKey) = {pl}
  BY <1>0, <1>4, PowerReads
<1>6. /\ UserLevelsOK(old, new, ev.sender, level)
      /\ ScalarLevelsOK(old, new, level)
  <2>1. OrdinaryAllowed(rv, ev, CreateEvent, {pl})
    BY <1>5 DEF StateStep, Passes, PowerLevels, Aliases, Member
  <2>2. (CHOOSE p \in {pl} : TRUE) = pl
    BY ChooseOnly
  <2>3. SenderPowerLevel(rv, ev, CreateEvent, {pl}) = level
    BY <1>4, <2>2 DEF SenderPowerLevel
  <2>4. check_power_levels(rv, ev, {pl}, level)
    BY <2>1, <2>3 DEF OrdinaryAllowed, PowerLevels, ThirdParty
  <2> QED BY <1>4, <2>4 DEF check_power_levels
<1>7. level \in Int /\ old.users_default \in Int /\ new.users_default \in Int
  BY <1>1, <1>2 DEF PowerContent, UserLevel, ScalarLevels
<1>8. ASSUME NEW u
      PROVE  /\ u \in DOMAIN old.users => Get(old.users, u) = {old.users[u]} /\ old.users[u] \in Int
             /\ u \notin DOMAIN old.users => Get(old.users, u) = {}
             /\ u \in DOMAIN new.users => Get(new.users, u) = {new.users[u]} /\ new.users[u] \in Int
             /\ u \notin DOMAIN new.users => Get(new.users, u) = {}
  BY <1>1, <1>2, GetCases DEF PowerContent
<1>9. ASSUME NEW u \in DOMAIN old.users \cup DOMAIN new.users
      PROVE  \/ Get(old.users, u) # {} /\ Get(old.users, u) = Get(new.users, u)
             \/ \A l \in Get(old.users, u) \cup Get(new.users, u) : l <= level
  BY <1>6 DEF UserLevelsOK
<1>10. ASSUME NEW u \in DOMAIN old.users, old.users[u] > level
       PROVE  u \in DOMAIN new.users /\ new.users[u] = old.users[u]
  <2>1. old.users[u] \in Int /\ Get(old.users, u) = {old.users[u]}
    BY <1>8
  <2>2. Get(old.users, u) = Get(new.users, u)
    <3>1. ~(old.users[u] <= level)
      BY <1>7, <1>10, <2>1
    <3> QED BY <1>9, <2>1, <3>1
  <2> QED BY <1>8, <2>1, <2>2
<1>11. ASSUME NEW u \in DOMAIN new.users
       PROVE  \/ u \in DOMAIN old.users /\ new.users[u] = old.users[u]
              \/ new.users[u] <= level
  BY <1>8, <1>9
<1>12. \/ new.users_default <= level
       \/ /\ new.users_default = 0 /\ old.users_default = 0
          /\ \A u \in DOMAIN old.users : old.users[u] >= 0
  <2>1. CASE \A c \in PowerContents[version] : c.users_default # DefaultLevel("users_default")
    <3>1. /\ Serialized(old, "users_default") # {} /\ Serialized(new, "users_default") # {}
      <4>1. ASSUME NEW c \in PowerContents[version] PROVE Serialized(c, "users_default") # {}
        <5>1. c["users_default"] # DefaultLevel("users_default")
          BY <2>1
        <5>2. c["users_default"] \in Serialized(c, "users_default")
          BY <5>1 DEF Serialized
        <5> QED BY <5>2
      <4> QED BY <1>1, <1>2, <4>1
    <3>2. "users_default" \in ScalarLevels
      BY DEF ScalarLevels
    <3> QED BY <1>6, <3>1, <3>2 DEF ScalarLevelsOK
  <2>2. CASE \A c \in PowerContents[version] : /\ c.users_default = DefaultLevel("users_default")
                                               /\ \A u \in DOMAIN c.users : c.users[u] >= 0
    <3>1. DefaultLevel("users_default") = 0
      BY DEF DefaultLevel
    <3> QED BY <1>1, <1>2, <2>2, <3>1
  <2> QED BY <1>0, <2>1, <2>2 DEF DefaultCompared
<1> QED BY <1>1, <1>2, <1>3, <1>7, <1>10, <1>11, <1>12

\* A joined user whose own level is above everyone else's stays that until an
\* event of their own, or is invited again by a third party invite
\* (check_power_levels and valid_membership_change together).
THEOREM TopUserSafe ==
    ASSUME DefaultCompared
    PROVE  RoomSpec => TopUserUnassailable
<1> DEFINE Stays == \A u \in User :
                       TopUser(resolved_state, u) /\ by' # u =>
                          TopUser(resolved_state', u) \/ InvitedAgain(u)
<1>1. RoomIInv /\ [RoomNext]_roomVars => Stays
  <2> SUFFICES ASSUME RoomIInv, [RoomNext]_roomVars, NEW u \in User,
                      TopUser(resolved_state, u), by' # u, resolved_state' # resolved_state
               PROVE  TopUser(resolved_state', u) \/ InvitedAgain(u)
    OBVIOUS
  <2>1. PICK ev \in Sendable, own \in OwnAuthEvents : \E current : StateStep(ev, own, current)
    BY RoomStep
  <2>2. PICK current : StateStep(ev, own, current)
    BY <2>1
  <2>3. /\ by' = ev.sender /\ ev.sender \in User /\ ev.sender # u
        /\ \A v : membership(resolved_state', v) = IF ev.type = Member /\ ev.state_key = v
                                                   THEN ev.content.membership
                                                   ELSE membership(resolved_state, v)
        /\ PowerLevelsIn(resolved_state') = IF ev.type = PowerLevels /\ ev.state_key = ""
                                            THEN {ev.content} ELSE PowerLevelsIn(resolved_state)
    BY <2>2 DEF StateStep
  <2>4. PICK pl \in PowerLevelsIn(resolved_state) :
          u \in DOMAIN pl.users /\ \A v \in User \ {u} : for_user(pl, v) < for_user(pl, u)
    BY DEF TopUser
  <2>5. membership(resolved_state, u) = "join"
    BY DEF TopUser
  <2>6. pl = RoomLevels /\ PowerContent(pl) /\ PowerLevelsIn(resolved_state) = {pl}
    BY LevelsRead DEF RoomIInv
  <2> DEFINE level == UserLevel(pl, ev.sender)
             top == pl.users[u]
  <2>7. /\ level \in Int /\ top \in Int /\ level < top
        /\ for_user(pl, u) = top
    <3>1. level \in Int /\ top \in Int
      BY <2>4, <2>6 DEF PowerContent, UserLevel, ScalarLevels
    <3>2. for_user(pl, u) = top /\ for_user(pl, ev.sender) = level
      BY <2>4 DEF for_user, UserLevel
    <3> QED BY <2>3, <2>4, <3>1, <3>2
  <2>8. CASE ev.type = Member /\ ev.state_key = u
    <3>1. ~\A t \in Get(RoomLevels.users, u) : t < level
      <4>1. top \in Get(RoomLevels.users, u)
        BY <2>4, <2>6, GetCases
      <4> QED BY <2>7, <4>1
    <3>2. ev.content.membership = "invite" /\ Issuer(resolved_state, ev.sender)
      BY <2>2, <2>3, <2>5, <2>6, <2>8, <3>1, MemberStep
    <3> QED BY <2>3, <2>5, <2>8, <3>2 DEF InvitedAgain
  <2>9. CASE ~(ev.type = Member /\ ev.state_key = u) /\ ~(ev.type = PowerLevels /\ ev.state_key = "")
    BY <2>3, <2>4, <2>5, <2>9 DEF TopUser
  <2>10. CASE ev.type = PowerLevels /\ ev.state_key = ""
    <3> DEFINE new == ev.content
    <3>1. /\ PowerContent(new) /\ PowerLevelsIn(resolved_state') = {new}
          /\ u \in DOMAIN new.users /\ new.users[u] = top
          /\ \A v \in DOMAIN new.users :
                \/ v \in DOMAIN pl.users /\ new.users[v] = pl.users[v]
                \/ new.users[v] <= level
          /\ \/ new.users_default <= level
             \/ /\ new.users_default = 0 /\ pl.users_default = 0
                /\ \A v \in DOMAIN pl.users : pl.users[v] >= 0
      BY <2>2, <2>4, <2>7, <2>10, PowerStep
    <3>2. for_user(new, u) = top
      BY <3>1 DEF for_user, UserLevel
    <3>3. new.users_default < top /\ new.users_default \in Int
      <4>1. new.users_default \in Int
        BY <3>1 DEF PowerContent, ScalarLevels
      <4>2. CASE new.users_default <= level
        BY <2>7, <4>1, <4>2
      <4>3. CASE /\ new.users_default = 0 /\ pl.users_default = 0
                 /\ \A v \in DOMAIN pl.users : pl.users[v] >= 0
        <5>1. level >= 0
          BY <4>3 DEF UserLevel
        <5> QED BY <2>7, <4>3, <5>1
      <4> QED BY <3>1, <4>1, <4>2, <4>3
    <3>4. ASSUME NEW v \in User \ {u} PROVE for_user(new, v) < top
      <4>1. CASE v \notin DOMAIN new.users
        BY <3>3, <4>1 DEF for_user, UserLevel
      <4>2. CASE v \in DOMAIN new.users
        <5>1. new.users[v] \in Int /\ for_user(new, v) = new.users[v]
          BY <3>1, <4>2 DEF PowerContent, for_user, UserLevel
        <5>2. CASE v \in DOMAIN pl.users /\ new.users[v] = pl.users[v]
          <6>1. for_user(pl, v) < top /\ for_user(pl, v) = pl.users[v]
            BY <2>4, <2>7, <5>2 DEF for_user, UserLevel
          <6> QED BY <5>1, <5>2, <6>1
        <5>3. CASE new.users[v] <= level
          BY <2>7, <5>1, <5>3
        <5> QED BY <3>1, <4>2, <5>2, <5>3
      <4> QED BY <4>1, <4>2
    <3>5. membership(resolved_state', u) = "join"
      BY <2>3, <2>5, <2>10 DEF Member, PowerLevels
    <3>6. /\ new \in PowerLevelsIn(resolved_state') /\ u \in DOMAIN new.users
          /\ \A v \in User \ {u} : for_user(new, v) < for_user(new, u)
      BY <3>1, <3>2, <3>4
    <3> QED BY <3>5, <3>6 DEF TopUser
  <2> QED BY <2>8, <2>9, <2>10
<1>2. RoomIInv /\ [RoomNext]_roomVars => [Stays]_roomVars
  BY <1>1
<1> QED BY <1>2, RoomInvariant, PTL DEF RoomSpec, TopUserUnassailable

\* A finite set of integers that is not empty has a greatest one.
LEMMA GreatestExists ==
    ASSUME NEW S \in SUBSET Int, IsFiniteSet(S), S # {}
    PROVE  \E m \in S : \A k \in S : k <= m
<1> DEFINE Greatest(U) == \E m \in U : \A k \in U : k <= m
           Bad == {n \in Nat : \E U \in SUBSET Int : /\ U # {} /\ IsFiniteSet(U)
                                                     /\ Cardinality(U) = n /\ ~Greatest(U)}
<1>1. SUFFICES Bad = {}
  BY FS_CardinalityType
<1>2. SUFFICES ASSUME Bad # {} PROVE FALSE
  OBVIOUS
<1>3. PICK n \in Bad : \A y \in Bad : ~(<<y, n>> \in OpToRel(<, Nat))
  <2>1. Bad \subseteq Nat
    OBVIOUS
  <2> HIDE DEF Bad
  <2> QED BY <1>2, <2>1, NatLessThanWellFounded, WFMin, Zenon
<1>4. \A y \in Bad : ~(y < n)
  BY <1>3 DEF OpToRel
<1>5. PICK U \in SUBSET Int : U # {} /\ IsFiniteSet(U) /\ Cardinality(U) = n /\ ~Greatest(U)
  BY <1>3
<1>6. PICK x \in U : TRUE
  BY <1>5
<1> DEFINE R == U \ {x}
<1>7. IsFiniteSet(R) /\ Cardinality(R) = n - 1 /\ R \in SUBSET Int /\ n \in Nat /\ Cardinality(R) \in Nat
  <2>1. IsFiniteSet(R) /\ Cardinality(R) = n - 1
    BY <1>5, <1>6, FS_RemoveElement
  <2>2. Cardinality(R) \in Nat
    BY <2>1, FS_CardinalityType
  <2> QED BY <2>1, <2>2
<1>8. CASE R = {}
  <2>1. \A k \in U : k = x
    BY <1>8
  <2> QED BY <1>5, <1>6, <2>1
<1>9. CASE R # {}
  <2>1. ~(n - 1 \in Bad)
    BY <1>4, <1>7
  <2>2. PICK m \in R : \A k \in R : k <= m
    BY <1>7, <1>9, <2>1
  <2>3. x \in Int /\ m \in Int /\ m \in U
    BY <1>6
  <2>4. CASE x <= m
    <3>1. \A k \in U : k <= m
      BY <2>2, <2>4
    <3> QED BY <1>5, <2>3, <3>1
  <2>5. CASE m <= x
    <3>1. \A k \in U : k <= x
      <4>1. ASSUME NEW k \in U PROVE k <= x
        <5>1. CASE k = x
          BY <2>3, <5>1
        <5>2. CASE k # x
          <6>1. k \in R /\ k \in Int /\ k <= m
            BY <2>2, <5>2
          <6> QED BY <2>3, <2>5, <6>1
        <5> QED BY <5>1, <5>2
      <4> QED BY <4>1
    <3> QED BY <1>5, <1>6, <3>1
  <2> QED BY <2>3, <2>4, <2>5
<1> QED BY <1>8, <1>9

\* MaxLevel is the greatest of the levels.
LEMMA MaxLevelIs ==
    ASSUME NEW pl, PowerContent(pl)
    PROVE  /\ MaxLevel(pl) \in Int
           /\ pl.users_default <= MaxLevel(pl)
           /\ \A u \in DOMAIN pl.users : pl.users[u] <= MaxLevel(pl)
           /\ MaxLevel(pl) = pl.users_default \/ \E u \in DOMAIN pl.users : MaxLevel(pl) = pl.users[u]
<1> DEFINE own == {pl.users[u] : u \in DOMAIN pl.users}
           levels == {pl.users_default} \cup own
<1>1. /\ pl.users \in [DOMAIN pl.users -> Int] /\ IsFiniteSet(DOMAIN pl.users)
      /\ pl.users_default \in Int
  BY DEF PowerContent, ScalarLevels
<1>2. IsFiniteSet(own)
  <2>1. pl.users \in Surjection(DOMAIN pl.users, own)
    BY <1>1 DEF Surjection
  <2> HIDE DEF own
  <2> QED BY <1>1, <2>1, FS_Surjection
<1>3. IsFiniteSet(levels)
  <2>1. IsFiniteSet(own \cup {pl.users_default})
    <3> HIDE DEF own
    <3> QED BY <1>2, FS_AddElement
  <2>2. levels = own \cup {pl.users_default}
    OBVIOUS
  <2> QED BY <2>1, <2>2
<1>4. levels \in SUBSET Int /\ levels # {}
  BY <1>1
<1>5. \E l \in levels : \A k \in levels : k <= l
  <2> HIDE DEF levels
  <2> QED BY <1>3, <1>4, GreatestExists
<1>6. MaxLevel(pl) = CHOOSE l \in levels : \A k \in levels : k <= l
  BY DEF MaxLevel
<1>7. MaxLevel(pl) \in levels /\ \A k \in levels : k <= MaxLevel(pl)
  <2> HIDE DEF levels
  <2> QED BY <1>5, <1>6
<1> QED BY <1>1, <1>4, <1>7

\* Nobody, by any event, raises the greatest level in the room: "cannot add ops
\* > than own" (check_power_levels).
THEOREM NobodyRisesAboveAll ==
    ASSUME DefaultCompared
    PROVE  RoomSpec => PowerNeverRises
<1> DEFINE Bounded == \A old \in PowerLevelsIn(resolved_state), new \in PowerLevelsIn(resolved_state') :
                         MaxLevel(new) <= MaxLevel(old)
<1>1. RoomIInv /\ [RoomNext]_roomVars => Bounded
  <2> SUFFICES ASSUME RoomIInv, [RoomNext]_roomVars,
                      NEW old \in PowerLevelsIn(resolved_state), NEW new \in PowerLevelsIn(resolved_state')
               PROVE  MaxLevel(new) <= MaxLevel(old)
    OBVIOUS
  <2>1. old = RoomLevels /\ PowerContent(old) /\ PowerLevelsIn(resolved_state) = {old}
    BY LevelsRead DEF RoomIInv
  <2>2. CASE new = old
    BY <2>1, <2>2, MaxLevelIs
  <2>3. CASE new # old
    <3>1. PICK ev \in Sendable, own \in OwnAuthEvents : \E current : StateStep(ev, own, current)
      BY <2>1, <2>3, RoomStep
    <3>2. PICK current : StateStep(ev, own, current)
      BY <3>1
    <3>3. ev.type = PowerLevels /\ ev.state_key = "" /\ new = ev.content
      <4>1. \/ ev.type = PowerLevels /\ ev.state_key = "" /\ PowerLevelsIn(resolved_state') = {ev.content}
            \/ PowerLevelsIn(resolved_state') = PowerLevelsIn(resolved_state)
        BY <3>2 DEF StateStep
      <4>2. PowerLevelsIn(resolved_state') # PowerLevelsIn(resolved_state)
        BY <2>1, <2>3
      <4> QED BY <4>1, <4>2
    <3> DEFINE level == UserLevel(old, ev.sender)
    <3>4. /\ PowerContent(new) /\ level \in Int
          /\ \A u \in DOMAIN new.users :
                \/ u \in DOMAIN old.users /\ new.users[u] = old.users[u]
                \/ new.users[u] <= level
          /\ \/ new.users_default <= level
             \/ new.users_default = 0 /\ old.users_default = 0
      BY <3>2, <3>3, PowerStep
    <3>5. /\ MaxLevel(old) \in Int /\ old.users_default <= MaxLevel(old)
          /\ \A u \in DOMAIN old.users : old.users[u] <= MaxLevel(old)
      BY <2>1, MaxLevelIs
    <3>6. /\ MaxLevel(new) \in Int
          /\ MaxLevel(new) = new.users_default \/ \E u \in DOMAIN new.users : MaxLevel(new) = new.users[u]
      BY <3>4, MaxLevelIs
    <3>7. level <= MaxLevel(old)
      BY <3>5 DEF UserLevel
    <3>8. CASE MaxLevel(new) = new.users_default
      <4>1. CASE new.users_default <= level
        BY <3>4, <3>5, <3>6, <3>7, <3>8, <4>1
      <4>2. CASE new.users_default = 0 /\ old.users_default = 0
        BY <3>5, <3>8, <4>2
      <4> QED BY <3>4, <4>1, <4>2
    <3>9. ASSUME NEW u \in DOMAIN new.users, MaxLevel(new) = new.users[u] PROVE MaxLevel(new) <= MaxLevel(old)
      <4>1. CASE u \in DOMAIN old.users /\ new.users[u] = old.users[u]
        BY <3>5, <3>9, <4>1
      <4>2. CASE new.users[u] <= level
        BY <3>4, <3>5, <3>6, <3>7, <3>9, <4>2
      <4> QED BY <3>4, <4>1, <4>2
    <3> QED BY <3>6, <3>8, <3>9
  <2> QED BY <2>2, <2>3
<1>2. RoomIInv /\ [RoomNext]_roomVars => [Bounded]_roomVars
  BY <1>1
<1> QED BY <1>2, RoomInvariant, PTL DEF RoomSpec, PowerNeverRises

-----------------------------------------------------------------------------
(* Names of changes. *)

\* What membership_change calls an error.
LEMMA Errors ==
    ASSUME NEW old \in Memberships, NEW new \in Memberships, NEW before, NEW sender, NEW u,
           \/ before = {} /\ old = "leave"
           \/ before = {[membership |-> old, profile |-> "same"]},
           membership_change([membership |-> new, profile |-> "same"], before, sender, u)
              \in {"Error", "NotImplemented"}
    PROVE  \/ old = "join" /\ new \in {"invite", "knock"}
           \/ old = "ban" /\ new \in {"invite", "join", "knock"}
           \/ old = "invite" /\ new = "knock"
           \/ old = "knock" /\ new = "join"
<1>1. (IF before = {} THEN "leave" ELSE (CHOOSE d \in before : TRUE).membership) = old
  <2> DEFINE d == [membership |-> old, profile |-> "same"]
  <2>1. d.membership = old
    OBVIOUS
  <2> HIDE DEF d
  <2>2. CASE before = {d}
    BY <2>1, <2>2, ChooseOnly
  <2> QED BY <2>2 DEF d
<1>2. [membership |-> new, profile |-> "same"].membership = new
  OBVIOUS
<1> QED BY <1>1, <1>2 DEF membership_change, Memberships

\* Whatever passes auth_check, membership_change can name, but for a join after
\* a knock, the creator's first join on a fork, and a third party invite for a
\* user who is joined.
THEOREM ChangesAreNamed == RoomSpec => ChangesHaveNames
<1>1. ASSUME RoomIInv, [RoomNext]_roomVars, NEW u \in User PROVE HasName(u)
  <2> DEFINE old == membership(resolved_state, u)
             new == membership(resolved_state', u)
             before == {[membership |-> old, profile |-> "same"] : e \in Get(resolved_state, <<Member, u>>)}
             change == membership_change([membership |-> new, profile |-> "same"], before, by', u)
  <2> SUFFICES ASSUME change \in {"Error", "NotImplemented"}
               PROVE  \/ old = "knock" /\ new = "join"
                      \/ u = Creator /\ by' = u /\ new = "join"
                      \/ InvitedAgain(u)
    BY DEF HasName
  <2>1. old \in Memberships /\ new \in Memberships
    <3>1. old \in Memberships
      BY <1>1, MembershipReads DEF RoomIInv
    <3>2. new = old \/ new \in Memberships
      <4> SUFFICES ASSUME NEW ev \in Sendable, NEW own \in OwnAuthEvents, NEW current,
                          StateStep(ev, own, current), new # old
                   PROVE  new \in Memberships
        BY <1>1, RoomStep
      <4>1. ev.type = Member /\ new = ev.content.membership
        BY DEF StateStep
      <4>2. ev.content.membership \in Memberships
        BY <1>1, <4>1, MemberStep DEF Memberships
      <4> QED BY <4>1, <4>2
    <3> QED BY <3>1, <3>2
  <2>2. \/ before = {} /\ old = "leave"
        \/ before = {[membership |-> old, profile |-> "same"]}
    <3>1. CASE Get(resolved_state, <<Member, u>>) = {}
      BY <3>1 DEF membership, MembershipOf
    <3>2. CASE Get(resolved_state, <<Member, u>>) # {}
      BY <3>2
    <3> QED BY <3>1, <3>2
  <2> HIDE DEF old, new, before
  <2>3. \/ old = "join" /\ new \in {"invite", "knock"}
        \/ old = "ban" /\ new \in {"invite", "join", "knock"}
        \/ old = "invite" /\ new = "knock"
        \/ old = "knock" /\ new = "join"
    BY <2>1, <2>2, Errors
  <2>4. old # new
    BY <2>3
  <2>5. PICK ev \in Sendable, own \in OwnAuthEvents : \E current : StateStep(ev, own, current)
    BY <1>1, <2>4, RoomStep DEF old, new
  <2>6. PICK current : StateStep(ev, own, current)
    BY <2>5
  <2>7. ev.type = Member /\ ev.state_key = u /\ ev.content.membership = new /\ by' = ev.sender
    BY <2>4, <2>6 DEF StateStep, old, new
  <2>8. \/ new = "join" /\ ((ev.sender = Creator /\ u = Creator) \/ old # "ban")
        \/ new = "invite" /\ old # "ban" /\ (old = "join" => Issuer(resolved_state, ev.sender))
        \/ new \in {"leave", "ban"}
        \/ new = "knock" /\ old \notin {"ban", "invite", "join"}
    BY <1>1, <2>6, <2>7, MemberStep DEF old
  <2> QED BY <2>3, <2>7, <2>8 DEF InvitedAgain, old, new
<1>2. RoomIInv /\ [RoomNext]_roomVars => [\A u \in User : HasName(u)]_roomVars
  BY <1>1
<1> QED BY <1>2, RoomInvariant, PTL DEF RoomSpec, ChangesHaveNames

-----------------------------------------------------------------------------
(* What clients are offered. *)

LEMMA VerdictAllows ==
    ASSUME StateOK, version \in Versions, NEW ev, Checkable(ev)
    PROVE  \E own \in OwnAuthEvents :
              /\ Verdict(ev) = "allow" <=> Passes(ev, Against(ev, own), {})
<1> DEFINE own == [k \in {<<Create, "">>} |-> CreateEvent]
<1>1. own \in OwnAuthEvents
  <2> DEFINE tokens == {}
  <2>1. tokens \in SUBSET {k \in DOMAIN resolved_state : k[1] = ThirdParty}
    OBVIOUS
  <2>2. own = [k \in {<<Create, "">>} \cup tokens |-> resolved_state[k]]
    BY DEF StateOK, CreateKey
  <2> QED BY <2>1, <2>2 DEF OwnAuthEvents
<1>2. Verdict(ev) = auth_check(rv, ev, {}, Against(ev, own))
  BY DEF Verdict, Against
<1> HIDE DEF own
<1>3. Verdict(ev) = "allow" <=> Passes(ev, Against(ev, own), {})
  BY <1>1, <1>2, VerdictIs
<1> QED BY <1>1, <1>3

\* A change by a member of another user's membership, by the levels of the room.
LEMMA ChangeAllowed ==
    ASSUME StateOK, version \in Versions, NEW sender \in User, NEW target \in User, sender # target,
           membership(resolved_state, sender) = "join",
           NEW m \in {"ban", "leave", "invite"},
           LET L == RoomLevels
               level == UserLevel(L, sender)
               current == membership(resolved_state, target)
               above == UserLevel(L, target) < level
           IN  \/ m = "ban" /\ level >= L.ban /\ above
               \/ m = "leave" /\ level >= L.kick /\ above /\ (current = "ban" => level >= L.ban)
               \/ m = "invite" /\ level >= L.invite /\ current \notin {"join", "ban"}
    PROVE  Verdict(Change(target, sender, m)) = "allow"
<1> DEFINE ev == Change(target, sender, m)
           L == RoomLevels
<1>1. /\ ev.type = Member /\ ev.state_key = target /\ ev.sender = sender
      /\ ev.content = MemberContent(m, None, None) /\ ev.auth_events = <<"create">>
  BY EventFields DEF Change
<1>2. /\ ev.content.membership = m /\ ev.content.join_authorised_via = None
      /\ ev.content.third_party_invite = None
  BY <1>1, ContentFields
<1> HIDE DEF ev
<1>3. Checkable(ev)
  BY <1>1, <1>2 DEF Checkable, MemberShape, Memberships, Member, Create
<1>4. PICK own \in OwnAuthEvents : Verdict(ev) = "allow" <=> Passes(ev, Against(ev, own), {})
  BY <1>3, VerdictAllows
<1> DEFINE change == MembershipChange(rv, ev, CreateEvent, Against(ev, own), {})
           mine == Get(L.users, sender)
           theirs == Get(L.users, target)
<1>5. /\ change.sender = sender /\ change.target = target /\ change.sender_membership = "join"
      /\ change.target_current = membership(resolved_state, target)
      /\ change.power_levels = L
      /\ change.sender_power = IF mine # {} THEN mine ELSE {L.users_default}
      /\ change.target_power = IF theirs # {} THEN theirs ELSE {}
      /\ change.third_party_invite = None
  <2>0. ev.content.membership # "bad" /\ ev.state_key \in User
    BY <1>1, <1>2
  <2>1. /\ change.sender = ev.sender /\ change.target = ev.state_key
        /\ change.sender_membership = membership(resolved_state, ev.sender)
        /\ change.target_current = membership(resolved_state, ev.state_key)
        /\ change.power_levels = RoomLevels
        /\ change.third_party_invite = ev.content.third_party_invite
    BY <1>1, <1>3, <2>0, ChangeReads
  <2>2. change.sender_power =
           IF Get(RoomLevels.users, ev.sender) # {} THEN Get(RoomLevels.users, ev.sender)
           ELSE IF membership(resolved_state, ev.sender) = "join" THEN {RoomLevels.users_default} ELSE {}
    BY <1>1, <1>3, <2>0, ChangeReads
  <2>3. change.target_power =
           IF Get(RoomLevels.users, ev.state_key) # {} THEN Get(RoomLevels.users, ev.state_key)
           ELSE IF ev.content.membership = "join" THEN {RoomLevels.users_default} ELSE {}
    BY <1>1, <1>3, <2>0, ChangeReads
  <2> HIDE DEF change
  <2> QED BY <1>1, <1>2, <2>1, <2>2, <2>3
<1>6. PowerContent(L)
  BY LevelsRead
<1> HIDE DEF change, mine, theirs, L
<1>7. /\ change.sender_power = {UserLevel(L, sender)} /\ UserLevel(L, sender) \in Int
  BY <1>5, <1>6, PowerOfSender DEF mine
<1>8. \A t \in change.target_power : t = UserLevel(L, target)
  BY <1>5, <1>6, PowerOfSender DEF theirs
<1>9. valid_membership_change(rv, ev, CreateEvent, Against(ev, own), {})
  <2>1. CASE m = "ban" /\ UserLevel(L, sender) >= L.ban /\ UserLevel(L, target) < UserLevel(L, sender)
    <3>1. ValidBan(change)
      BY <1>5, <1>7, <1>8, <2>1 DEF ValidBan, OutRanks
    <3> QED BY <1>2, <2>1, <3>1 DEF valid_membership_change, change
  <2>2. CASE /\ m = "leave" /\ UserLevel(L, sender) >= L.kick /\ UserLevel(L, target) < UserLevel(L, sender)
             /\ membership(resolved_state, target) = "ban" => UserLevel(L, sender) >= L.ban
    <3>1. L.ban \in Int
      BY <1>6 DEF PowerContent, ScalarLevels
    <3>2. ValidLeave(change)
      BY <1>5, <1>7, <1>8, <2>2, <3>1 DEF ValidLeave, OutRanks
    <3> QED BY <1>2, <2>2, <3>2 DEF valid_membership_change, change
  <2>3. CASE /\ m = "invite" /\ UserLevel(L, sender) >= L.invite
             /\ membership(resolved_state, target) \notin {"join", "ban"}
    <3>1. ValidInvite(change)
      BY <1>5, <1>7, <2>3 DEF ValidInvite
    <3> QED BY <1>2, <2>3, <3>1 DEF valid_membership_change, change
  <2> QED BY <2>1, <2>2, <2>3 DEF L
<1>10. Passes(ev, Against(ev, own), {})
  BY <1>1, <1>2, <1>9 DEF Passes, Member, Aliases
<1> QED BY <1>4, <1>10 DEF ev

\* A member's event that is none of a membership, once there are power levels.
LEMMA OrdinaryVerdict ==
    ASSUME StateOK, version \in Versions, NEW pl \in PowerLevelsIn(resolved_state),
           NEW sender \in User, membership(resolved_state, sender) = "join",
           NEW type, type \notin {Create, Member, ThirdParty, Aliases},
           NEW state_key \in {"", NoKey}, NEW content
    PROVE  LET ev == Event(type, state_key, sender, content, <<"new">>)
               level == UserLevel(pl, sender)
           IN  Verdict(ev) = "allow" <=>
                   /\ level >= IF state_key = NoKey THEN for_message(pl, type) ELSE for_state(pl, type)
                   /\ type = PowerLevels =>
                         check_power_levels(rv, ev, Get(resolved_state, PowerKey), level)
                   /\ rv.extra_redaction_checks /\ type = Redaction => check_redaction(ev, level, pl.redact)
<1> DEFINE ev == Event(type, state_key, sender, content, <<"new">>)
           level == UserLevel(pl, sender)
           pls == Get(resolved_state, PowerKey)
<1>1. /\ ev.type = type /\ ev.state_key = state_key /\ ev.sender = sender /\ ev.content = content
      /\ ev.auth_events = <<"create">>
  BY DEF Event
<1> HIDE DEF ev
<1>2. Checkable(ev)
  BY <1>1 DEF Checkable
<1>3. PICK own \in OwnAuthEvents : Verdict(ev) = "allow" <=> Passes(ev, Against(ev, own), {})
  BY <1>2, VerdictAllows
<1>4. Passes(ev, Against(ev, own), {}) <=> OrdinaryAllowed(rv, ev, CreateEvent, pls)
  BY <1>1 DEF Passes
<1>5. PICK e \in pls : e.content = pl
  BY DEF PowerLevelsIn, PowerKey
<1>6. pls = {e} /\ PowerContent(pl) /\ Parses(rv, pl)
  BY <1>5, PowerReads
<1>7. (CHOOSE p \in pls : TRUE) = e
  BY <1>6, ChooseOnly
<1>8. SenderPowerLevel(rv, ev, CreateEvent, pls) = level
  BY <1>1, <1>5, <1>6, <1>7 DEF SenderPowerLevel
<1>9. get_send_level(type, state_key, pls) = IF state_key = NoKey THEN for_message(pl, type) ELSE for_state(pl, type)
  <2>1. ParsesLeniently(pl)
    BY <1>6 DEF Parses, ParsesLeniently
  <2> DEFINE readable == {p.content : p \in {q \in pls : ParsesLeniently(q.content)}}
  <2>2. readable = {pl}
    <3>1. {q \in pls : ParsesLeniently(q.content)} = {e}
      BY <1>5, <1>6, <2>1
    <3> HIDE DEF pls
    <3> QED BY <1>5, <3>1
  <2>3. (CHOOSE c \in readable : TRUE) = pl
    BY <2>2, ChooseOnly
  <2>4. get_send_level(type, state_key, pls) =
           IF type \in DOMAIN pl.events THEN pl.events[type]
           ELSE IF state_key # NoKey THEN pl.state_default ELSE pl.events_default
    <3>1. get_send_level(type, state_key, pls) =
             IF readable = {} THEN IF state_key # NoKey THEN 50 ELSE 0
             ELSE LET c == CHOOSE d \in readable : TRUE
                  IN  IF type \in DOMAIN c.events THEN c.events[type]
                      ELSE IF state_key # NoKey THEN c.state_default ELSE c.events_default
      BY Zenon DEF get_send_level
    <3> HIDE DEF readable
    <3> QED BY <2>2, <2>3, <3>1
  <2> QED BY <2>4 DEF for_message, for_state
<1>10. can_send_event(ev, pls, level) <=>
          level >= IF state_key = NoKey THEN for_message(pl, type) ELSE for_state(pl, type)
  <2>1. state_key \notin User \cup {BadUserId}
    BY UserAssumption DEF BadUserId
  <2> QED BY <1>1, <1>9, <2>1 DEF can_send_event
<1> HIDE DEF pls
<1>11. OrdinaryAllowed(rv, ev, CreateEvent, pls) <=>
          /\ can_send_event(ev, pls, level)
          /\ type = PowerLevels => check_power_levels(rv, ev, pls, level)
          /\ rv.extra_redaction_checks /\ type = Redaction => check_redaction(ev, level, pl.redact)
  BY <1>1, <1>5, <1>6, <1>7, <1>8 DEF OrdinaryAllowed
<1> QED BY <1>3, <1>4, <1>10, <1>11 DEF ev, pls

\* A power levels event that gives another user the sender's own level.
LEMMA PromotionAllowed ==
    ASSUME StateOK, version \in Versions, NEW pl \in PowerLevelsIn(resolved_state),
           NEW sender \in User, NEW target \in User \ {sender}, membership(resolved_state, sender) = "join",
           user_can_change_user_power_level(pl, sender, target),
           \A name \in ScalarLevels : pl[name] <= for_user(pl, sender)
    PROVE  Verdict(Promotion(pl, sender, target)) = "allow"
<1> DEFINE level == UserLevel(pl, sender)
           users == [u \in DOMAIN pl.users \cup {target} |-> IF u = target THEN level ELSE pl.users[u]]
           new == [pl EXCEPT !.users = users]
           ev == Event(PowerLevels, "", sender, new, <<"new">>)
<1>1. PowerContent(pl) /\ Parses(rv, pl) /\ PowerLevelsIn(resolved_state) = {pl}
  BY LevelsRead
<1>2. level \in Int
  BY <1>1, PowerOfSender
<1>3. /\ new.users = users /\ new.events = pl.events /\ new.form = pl.form
      /\ new.notifications_room = pl.notifications_room
      /\ \A name \in ScalarLevels : new[name] = pl[name]
  <2> HIDE DEF users
  <2> QED BY <1>1 DEF PowerContent, ScalarLevels
<1>4. Promotion(pl, sender, target) = ev
  BY DEF Promotion, for_user
<1>5. ev.type = PowerLevels /\ ev.state_key = "" /\ ev.sender = sender /\ ev.content = new
  BY DEF Event
<1>6. UserLevelsOK(pl, new, sender, level)
  <2> SUFFICES ASSUME NEW user \in DOMAIN pl.users \cup {target}
               PROVE  LET o == Get(pl.users, user)
                          n == Get(users, user)
                      IN  \/ o # {} /\ o = n
                          \/ /\ user = sender \/ o # {level}
                             /\ \A l \in o \cup n : l <= level
    <3> DEFINE all == DOMAIN pl.users \cup DOMAIN new.users
    <3>1. all = DOMAIN pl.users \cup {target}
      BY <1>3
    <3> HIDE DEF new, users
    <3> QED BY <1>3, <3>1 DEF UserLevelsOK
  <2>1. CASE user # target
    <3>1. user \in DOMAIN pl.users /\ user \in DOMAIN users /\ users[user] = pl.users[user]
      BY <2>1
    <3> QED BY <3>1, GetCases
  <2>2. CASE user = target
    <3>1. Get(users, user) = {level}
      BY <2>2, GetCases
    <3>2. \A l \in Get(pl.users, user) : l < level
      <4>1. \A l \in Get(pl.users, target) : level > l
        BY DEF user_can_change_user_power_level, for_user
      <4>2. \A l \in Get(pl.users, target) : l \in Int
        BY <1>1, GetCases DEF PowerContent
      <4> QED BY <1>2, <2>2, <4>1, <4>2
    <3>3. \A l \in Get(pl.users, user) : l \in Int
      BY <1>1, GetCases DEF PowerContent
    <3> HIDE DEF level, users
    <3> QED BY <1>2, <3>1, <3>2, <3>3
  <2> QED BY <2>1, <2>2
<1>7. EventLevelsOK(pl, new, level)
  <2>1. \A type \in DOMAIN pl.events : Get(pl.events, type) # {}
    BY GetCases
  <2> HIDE DEF new
  <2> QED BY <1>3, <2>1 DEF EventLevelsOK
<1>8. NotificationsOK(rv, pl, new, level)
  BY <1>3 DEF NotificationsOK
<1>9. ScalarLevelsOK(pl, new, level)
  <2> HIDE DEF new
  <2> QED BY <1>3 DEF ScalarLevelsOK, for_user
<1>10. Parses(rv, new)
  <2> HIDE DEF new
  <2> QED BY <1>1, <1>3 DEF Parses
<1> HIDE DEF new, ev
<1>11. check_power_levels(rv, ev, Get(resolved_state, PowerKey), level)
  <2>1. \A e \in Get(resolved_state, PowerKey) : e.content = pl
    BY <1>1 DEF PowerLevelsIn, PowerKey
  <2> QED BY <1>1, <1>5, <1>6, <1>7, <1>8, <1>9, <1>10, <2>1 DEF check_power_levels
<1>12. level >= for_state(pl, PowerLevels)
  BY DEF user_can_change_user_power_level, user_can_send_state, for_user
<1>13. "" # NoKey
  BY UserAssumption
<1>14. /\ PowerLevels \notin {Create, Member, ThirdParty, Aliases} /\ PowerLevels # Redaction
  BY DEF PowerLevels, Create, Member, ThirdParty, Aliases, Redaction
<1>15. Verdict(ev) = "allow" <=>
          /\ level >= for_state(pl, PowerLevels)
          /\ check_power_levels(rv, ev, Get(resolved_state, PowerKey), level)
  BY <1>13, <1>14, OrdinaryVerdict DEF ev
<1> QED BY <1>4, <1>11, <1>12, <1>15

\* What RoomPowerLevels offers a member, auth_check accepts, for every set of
\* users and all power levels; state events and messages exactly then.
THEOREM OffersAreAccepted == RoomSpec => []OfferedActionsAccepted
<1>1. RoomIInv => OfferedActionsAccepted
  <2> SUFFICES ASSUME StateOK, version \in Versions, NEW pl \in PowerLevelsIn(resolved_state),
                      NEW acting \in User, membership(resolved_state, acting) = "join"
               PROVE  /\ \A target \in User \ {acting} :
                            LET current == membership(resolved_state, target) IN
                            /\ user_can_ban_user(pl, acting, target) =>
                                  Verdict(Change(target, acting, "ban")) = "allow"
                            /\ IF current = "ban"
                               THEN user_can_unban_user(pl, acting, target) =>
                                       Verdict(Change(target, acting, "leave")) = "allow"
                               ELSE user_can_kick_user(pl, acting, target) =>
                                       Verdict(Change(target, acting, "leave")) = "allow"
                            /\ user_can_invite(pl, acting) /\ current \notin {"join", "ban"} =>
                                  Verdict(Change(target, acting, "invite")) = "allow"
                            /\ /\ user_can_change_user_power_level(pl, acting, target)
                               /\ \A name \in ScalarLevels : pl[name] <= for_user(pl, acting)
                               => Verdict(Promotion(pl, acting, target)) = "allow"
                      /\ \A type \in {JoinRules, "m.room.topic"} :
                            user_can_send_state(pl, acting, type) <=>
                               Verdict(Event(type, "", acting, [join_rule |-> "invite"], <<"new">>)) = "allow"
                      /\ user_can_send_message(pl, acting, "m.room.message") <=>
                            Verdict(Event("m.room.message", NoKey, acting, [body |-> "x"], <<"new">>)) = "allow"
                      /\ user_can_redact_event_of_other(pl, acting) =>
                            Verdict(Event(Redaction, NoKey, acting, [same_server |-> FALSE], <<"new">>)) = "allow"
    BY DEF RoomIInv, OfferedActionsAccepted
  <2>1. RoomLevels = pl /\ PowerContent(pl)
    BY LevelsRead
  <2>2. "" # NoKey
    BY UserAssumption
  <2>3. ASSUME NEW target \in User \ {acting}, user_can_ban_user(pl, acting, target)
        PROVE  Verdict(Change(target, acting, "ban")) = "allow"
    <3>1. /\ UserLevel(RoomLevels, acting) >= RoomLevels.ban
          /\ UserLevel(RoomLevels, target) < UserLevel(RoomLevels, acting)
      BY <2>1, <2>3 DEF user_can_ban_user, user_can_ban, for_user
    <3> QED BY <3>1, ChangeAllowed
  <2>4. ASSUME NEW target \in User \ {acting},
               IF membership(resolved_state, target) = "ban" THEN user_can_unban_user(pl, acting, target)
               ELSE user_can_kick_user(pl, acting, target)
        PROVE  Verdict(Change(target, acting, "leave")) = "allow"
    <3>1. /\ UserLevel(RoomLevels, acting) >= RoomLevels.kick
          /\ UserLevel(RoomLevels, target) < UserLevel(RoomLevels, acting)
          /\ membership(resolved_state, target) = "ban" => UserLevel(RoomLevels, acting) >= RoomLevels.ban
      BY <2>1, <2>4 DEF user_can_unban_user, user_can_kick_user, for_user
    <3> QED BY <3>1, ChangeAllowed
  <2>5. ASSUME NEW target \in User \ {acting}, user_can_invite(pl, acting),
               membership(resolved_state, target) \notin {"join", "ban"}
        PROVE  Verdict(Change(target, acting, "invite")) = "allow"
    <3>1. UserLevel(RoomLevels, acting) >= RoomLevels.invite
      BY <2>1, <2>5 DEF user_can_invite, for_user
    <3> QED BY <2>5, <3>1, ChangeAllowed
  <2>6. ASSUME NEW target \in User \ {acting}, user_can_change_user_power_level(pl, acting, target),
               \A name \in ScalarLevels : pl[name] <= for_user(pl, acting)
        PROVE  Verdict(Promotion(pl, acting, target)) = "allow"
    BY <2>6, PromotionAllowed
  <2>7. ASSUME NEW type \in {JoinRules, "m.room.topic"}
        PROVE  user_can_send_state(pl, acting, type) <=>
                  Verdict(Event(type, "", acting, [join_rule |-> "invite"], <<"new">>)) = "allow"
    <3>1. type \notin {Create, Member, ThirdParty, Aliases} /\ type # PowerLevels /\ type # Redaction
      BY DEF PowerLevels, Create, Member, ThirdParty, Aliases, Redaction, JoinRules
    <3> DEFINE content == [join_rule |-> "invite"]
    <3> HIDE DEF content
    <3>2. Verdict(Event(type, "", acting, content, <<"new">>)) = "allow" <=>
             UserLevel(pl, acting) >= for_state(pl, type)
      BY <2>2, <3>1, OrdinaryVerdict
    <3> QED BY <3>2 DEF user_can_send_state, for_user, content
  <2>8. user_can_send_message(pl, acting, "m.room.message") <=>
           Verdict(Event("m.room.message", NoKey, acting, [body |-> "x"], <<"new">>)) = "allow"
    <3> DEFINE content == [body |-> "x"]
               type == "m.room.message"
    <3>1. type \notin {Create, Member, ThirdParty, Aliases} /\ type # PowerLevels /\ type # Redaction
      BY DEF PowerLevels, Create, Member, ThirdParty, Aliases, Redaction, JoinRules
    <3> HIDE DEF content, type
    <3>2. Verdict(Event(type, NoKey, acting, content, <<"new">>)) = "allow" <=>
             UserLevel(pl, acting) >= for_message(pl, type)
      BY <3>1, OrdinaryVerdict
    <3> QED BY <3>2 DEF user_can_send_message, for_user, content, type
  <2>9. ASSUME user_can_redact_event_of_other(pl, acting)
        PROVE  Verdict(Event(Redaction, NoKey, acting, [same_server |-> FALSE], <<"new">>)) = "allow"
    <3> DEFINE content == [same_server |-> FALSE]
               ev == Event(Redaction, NoKey, acting, content, <<"new">>)
    <3>1. Redaction \notin {Create, Member, ThirdParty, Aliases} /\ Redaction # PowerLevels
      BY DEF PowerLevels, Create, Member, ThirdParty, Aliases, Redaction
    <3>2. UserLevel(pl, acting) >= for_message(pl, Redaction) /\ UserLevel(pl, acting) >= pl.redact
      BY <2>9 DEF user_can_redact_event_of_other, user_can_redact_own_event, user_can_send_message, for_user
    <3>3. check_redaction(ev, UserLevel(pl, acting), pl.redact)
      BY <3>2 DEF check_redaction
    <3> HIDE DEF content
    <3> QED BY <3>1, <3>2, <3>3, OrdinaryVerdict DEF content
  <2> QED BY <2>3, <2>4, <2>5, <2>6, <2>7, <2>8, <2>9
<1> QED BY <1>1, RoomInvariant, PTL

=============================================================================
