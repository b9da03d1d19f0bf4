-------------------------- MODULE RoomPowerLevels --------------------------
(***************************************************************************)
(* RoomPowerLevels of ruma-events/src/room/power_levels.rs: what a client  *)
(* asks before it offers an action to its user.  pl is the content of a    *)
(* power levels event, as in EventAuth.                                    *)
(***************************************************************************)
EXTENDS EventAuth

for_user(pl, user) == UserLevel(pl, user)

for_message(pl, type) ==
    IF type \in DOMAIN pl.events THEN pl.events[type] ELSE pl.events_default

for_state(pl, type) ==
    IF type \in DOMAIN pl.events THEN pl.events[type] ELSE pl.state_default

user_can_ban(pl, user) == for_user(pl, user) >= pl.ban

user_can_ban_user(pl, acting, target) ==
    user_can_ban(pl, acting) /\ for_user(pl, target) < for_user(pl, acting)

user_can_unban_user(pl, acting, target) ==
    /\ for_user(pl, acting) >= pl.ban
    /\ for_user(pl, acting) >= pl.kick
    /\ for_user(pl, target) < for_user(pl, acting)

user_can_invite(pl, user) == for_user(pl, user) >= pl.invite

user_can_kick_user(pl, acting, target) ==
    /\ for_user(pl, acting) >= pl.kick
    /\ for_user(pl, target) < for_user(pl, acting)

user_can_send_message(pl, user, type) == for_user(pl, user) >= for_message(pl, type)

user_can_send_state(pl, user, type) == for_user(pl, user) >= for_state(pl, type)

user_can_redact_own_event(pl, user) == user_can_send_message(pl, user, Redaction)

user_can_redact_event_of_other(pl, user) ==
    user_can_redact_own_event(pl, user) /\ for_user(pl, user) >= pl.redact

\* The target's own entry counts, not the level it would fall back to.
user_can_change_user_power_level(pl, acting, target) ==
    /\ user_can_send_state(pl, acting, PowerLevels)
    /\ acting # target =>
          \A level \in Get(pl.users, target) : for_user(pl, acting) > level

\* max(): the greatest level of any user.
MaxLevel(pl) ==
    LET levels == {pl.users_default} \cup {pl.users[u] : u \in DOMAIN pl.users}
    IN  CHOOSE l \in levels : \A k \in levels : k <= l
=============================================================================
