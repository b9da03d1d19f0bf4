---------------------------- MODULE MCSignatures ----------------------------
(* Small instances of Signatures: every way an event's type and room version *)
(* decide what is kept and who has to sign.                                  *)
EXTENDS Signatures, TLC

Event(type, content, extra) ==
    ("type" :> Str(type)) @@ ("sender" :> Str("s1")) @@ ("event_id" :> Str("s1"))
    @@ ("content" :> Obj(content)) @@ extra

Restricted == ("membership" :> Str("join")) @@ ("join_authorised_via_users_server" :> Str("s2"))

Invite(nested) == ("membership" :> Str("invite")) @@ ("third_party_invite" :> nested)

MCEvents ==
    {Event("m.room.member", Restricted @@ ("reason" :> Str("short")), Empty),
     Event("m.room.member", Invite(Obj(("signed" :> Num) @@ ("display_name" :> Num))), Empty),
     Event("m.room.member", Invite(Num), "unsigned" :> Obj(Empty)),
     Event("m.room.create", "creator" :> Str("s1"), "origin" :> Num),
     Event("m.room.message", "body" :> Str("long"), Empty)}

MCValues == {Num, Str("s2")}

=============================================================================
