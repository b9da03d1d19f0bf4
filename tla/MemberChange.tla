---------------------------- MODULE MemberChange ----------------------------
(***************************************************************************)
(* membership_change of ruma-events/src/room/member/change.rs: what a      *)
(* client calls the difference between two member events of a user.        *)
(* Display name and avatar together are the profile.                       *)
(***************************************************************************)

\* prev_details is an Option, without it the user had left.
membership_change(details, prev_details, sender, state_key) ==
    LET old == IF prev_details = {} THEN "leave" ELSE (CHOOSE d \in prev_details : TRUE).membership
        new == details.membership
        own == sender = state_key
        profileChanged == \E d \in prev_details : d.profile # details.profile
    IN  IF old = "leave" /\ new = "join" THEN "Joined"
        ELSE IF old = "invite" /\ new = "join" THEN "InvitationAccepted"
        ELSE IF old = "invite" /\ new = "leave"
        THEN IF own THEN "InvitationRejected" ELSE "InvitationRevoked"
        ELSE IF old \in {"invite", "leave", "knock"} /\ new = "ban" THEN "Banned"
        ELSE IF \/ old = "join" /\ new \in {"invite", "knock"}
                \/ old = "ban" /\ new \in {"invite", "join", "knock"}
                \/ old = "invite" /\ new = "knock"
                \/ old = "knock" /\ new = "join" THEN "Error"
        ELSE IF old = "join" /\ new = "join"
        THEN IF own /\ profileChanged THEN "ProfileChanged" ELSE "None"
        ELSE IF old = "join" /\ new = "leave" THEN IF own THEN "Left" ELSE "Kicked"
        ELSE IF old = "join" /\ new = "ban" THEN "KickedAndBanned"
        ELSE IF old = "leave" /\ new = "invite" THEN "Invited"
        ELSE IF old = "ban" /\ new = "leave" THEN "Unbanned"
        ELSE IF old = "leave" /\ new = "knock" THEN "Knocked"
        ELSE IF old = "knock" /\ new = "invite" THEN "KnockAccepted"
        ELSE IF old = "knock" /\ new = "leave" THEN IF own THEN "KnockRetracted" ELSE "KnockDenied"
        ELSE IF old = new /\ old # "join" THEN "None"
        ELSE "NotImplemented"
=============================================================================
