----------------------------- MODULE Redaction -----------------------------
(***************************************************************************)
(* Redaction of events, ruma-common/src/canonical_json.rs.                 *)
(*                                                                         *)
(* A JSON object is a function from keys to values; a value is a record    *)
(* whose one field names its type.  Room versions are numbers, 12 stands   *)
(* for any version the library does not know.                              *)
(***************************************************************************)
EXTENDS Naturals, Functions

Obj(f) == [object |-> f]
Str(s) == [string |-> s]
Num == [number |-> 0]
Empty == <<>>

IsObject(v) == DOMAIN v = {"object"}

\* An empty object is the function with no keys, whatever was removed from it.
remove(o, keys) == Restrict(o, DOMAIN o \ keys)

insert(o, key, value) == [k \in DOMAIN o \cup {key} |-> IF k = key THEN value ELSE o[k]]

\* The value of a key, as a set: none if the key is not there.
get(o, key) == {o[k] : k \in DOMAIN o \cap {key}}

-----------------------------------------------------------------------------
(* The keys that redaction keeps. *)

SomeKeys(keys) == [all |-> FALSE, keys |-> keys, nested |-> {}]
AllKeys == [all |-> TRUE, keys |-> {}, nested |-> {}]
NoKeys == SomeKeys({})

allowed_event_keys_for(version) ==
    {"event_id", "type", "room_id", "sender", "state_key", "content", "hashes", "signatures",
     "depth", "prev_events", "auth_events", "origin_server_ts"}
    \cup IF version <= 10 THEN {"prev_state", "origin", "membership"} ELSE {}

power_levels_keys ==
    {"ban", "events", "events_default", "kick", "redact", "state_default", "users", "users_default"}

\* `signed` is the one key kept of the nested object.
allowed_content_keys_for(event_type, version) ==
    IF event_type = "m.room.member"
    THEN [all |-> FALSE,
          keys |-> {"membership"}
                   \cup IF version >= 9 THEN {"join_authorised_via_users_server"} ELSE {},
          nested |-> IF version >= 11 THEN {"third_party_invite"} ELSE {}]
    ELSE IF event_type = "m.room.create"
    THEN IF version <= 10 THEN SomeKeys({"creator"}) ELSE AllKeys
    ELSE IF event_type = "m.room.join_rules"
    THEN SomeKeys({"join_rule"} \cup IF version >= 8 THEN {"allow"} ELSE {})
    ELSE IF event_type = "m.room.power_levels"
    THEN SomeKeys(power_levels_keys \cup IF version >= 11 THEN {"invite"} ELSE {})
    ELSE IF event_type = "m.room.aliases" /\ version <= 5 THEN SomeKeys({"aliases"})
    ELSE IF event_type = "m.room.history_visibility" THEN SomeKeys({"history_visibility"})
    ELSE IF event_type = "m.room.redaction" /\ version >= 11 THEN SomeKeys({"redacts"})
    ELSE NoKeys

\* A nested key whose value is not an object: the call fails and has emptied
\* the object by then.
NestedError(o, allowed) == \E k \in allowed.nested \cap DOMAIN o : ~IsObject(o[k])

\* What object_retain_keys leaves when it succeeds.
object_retain_keys(o, allowed) ==
    LET Full(k) == "signed" \in DOMAIN o[k].object
        nested == {k \in allowed.nested \cap DOMAIN o : Full(k)}
    IN  IF allowed.all THEN o
        ELSE [k \in (DOMAIN o \cap allowed.keys) \cup nested |->
                IF k \in nested THEN Obj(insert(Empty, "signed", o[k].object["signed"])) ELSE o[k]]

-----------------------------------------------------------------------------
(* redact_in_place and its copying form, redact. *)

TypeOf(event) == {v.string : v \in {w \in get(event, "type") : DOMAIN w = {"string"}}}

AllowedIn(event, version) ==
    allowed_content_keys_for(CHOOSE t \in TypeOf(event) : TRUE, version)

redact_fails(event, version) ==
    ~ /\ TypeOf(event) # {}
      /\ \A c \in get(event, "content") :
            IsObject(c) /\ ~NestedError(c.object, AllowedIn(event, version))

\* The event after a failed call.
LeftByFailure(event, version) ==
    IF TypeOf(event) = {} \/ (\E c \in get(event, "content") : ~IsObject(c)) THEN event
    ELSE insert(event, "content", Obj(Empty))

WithContentRedacted(event, version) ==
    IF get(event, "content") = {} THEN event
    ELSE insert(event, "content",
                Obj(object_retain_keys(event["content"].object, AllowedIn(event, version))))

\* The event after a successful call without redacted_because.
redact(event, version) ==
    LET content_redacted == WithContentRedacted(event, version)
    IN  Restrict(content_redacted, DOMAIN content_redacted \cap allowed_event_keys_for(version))

=============================================================================
