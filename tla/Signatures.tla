----------------------------- MODULE Signatures -----------------------------
(***************************************************************************)
(* Hashing, signing and verifying events and other JSON objects,           *)
(* ruma-signatures/src/functions.rs, while the object passes through       *)
(* several servers' hands.                                                 *)
(*                                                                         *)
(* Hashes and signatures are the terms they are made from: a hash tells    *)
(* objects apart, and a signature verifies with the key that made it over  *)
(* what it was made over.  A user or event identifier stands for its       *)
(* server's name.                                                          *)
(***************************************************************************)
EXTENDS Redaction, FiniteSets

CONSTANTS Servers,
          KeyIds,    \* identifiers in a signature set, see split_id and ParsesAsKeyId
          Signing,   \* the identifiers of the keys servers sign with
          Versions,  \* room versions
          Events,    \* objects as they are made, before anyone signs
          Values,    \* what the values of fields are altered to
          MaxSteps,  \* bound: operations on the object
          MaxAlters  \* bound: alterations among them

\* Key identifiers by what they look like: ed25519:1 and ed25519:2, one without
\* a version, one of another algorithm.
WellFormed == {"ed25519:1", "ed25519:2"}

ASSUME SignaturesAssumption ==
    /\ Versions \subseteq 1..12 /\ MaxSteps \in Nat /\ MaxAlters \in Nat
    /\ Signing \subseteq KeyIds \cap WellFormed
    /\ KeyIds \subseteq WellFormed \cup {"ed25519:", "curve25519:1"}
    /\ \A e \in Events : {"hashes", "signatures"} \cap DOMAIN e = {}
    \* nobody forges a signature
    /\ \A v \in Values :
          /\ DOMAIN v # {"signature"}
          /\ IsObject(v) => v = Obj(v.object) /\ v.object \in [DOMAIN v.object -> Values]

VARIABLES object,   \* the object
          version,  \* the version of its room
          outcome,  \* "ok" or "err": how the last operation ended
          signed,   \* what was signed by whom, with which key, ever
          clean,    \* servers that hashed and signed the event as it still is,
                    \* apart from redactions
          steps,    \* operations so far
          alters    \* alterations so far

sigVars == <<object, version, outcome, signed, clean, steps, alters>>

-----------------------------------------------------------------------------
(* Pure parts. *)

split_id(key) == key \in WellFormed \cup {"ed25519:"}

\* An identifier of the type ServerSigningKeyId.
ParsesAsKeyId(key) == key \in WellFormed \cup {"curve25519:1"}

\* Bug: the signatures so far are signed, too.
canonical_json_Signatures(o) == remove(o, {"unsigned"})

canonical_json(o) == remove(o, {"signatures", "unsigned"})

\* Longer than MAX_PDU_BYTES, because of a long text somewhere in the content.
PduSize(o) == \E c \in get(o, "content") : IsObject(c) /\ Str("long") \in Range(c.object)

content_hash(o) == [hash |-> remove(o, {"hashes", "signatures", "unsigned"})]

reference_fails(o, v) == redact_fails(o, v) \/ PduSize(redact(o, v))

\* Bug: of the event as it is.
reference_hash_Whole(o, v) == [hash |-> canonical_json(o)]

reference_hash(o, v) == [hash |-> canonical_json(redact(o, v))]

\* What the server's key makes of the object.
Signature(server, key, o) ==
    [signature |-> [by |-> server, key |-> key, over |-> canonical_json(o)]]

\* The entity's signature set, empty if there is none yet.
SetOf(o, entity) ==
    IF get(o, "signatures") = {} \/ entity \notin DOMAIN o["signatures"].object THEN Obj(Empty)
    ELSE o["signatures"].object[entity]

\* How sign_json fails: `signatures` is not an object, or the entity's set is not.
sign_json_err(o, entity) ==
    IF \E s \in get(o, "signatures") : ~IsObject(s) THEN "signatures"
    ELSE IF ~IsObject(SetOf(o, entity)) THEN "set" ELSE ""

\* Bug: the other entities' signatures are dropped.
signed_json_Alone(o, entity, key) ==
    LET set == insert(Empty, key, Signature(entity, key, o))
    IN  insert(o, "signatures", Obj(insert(Empty, entity, Obj(set))))

\* The object after a successful sign_json.
signed_json(o, entity, key) ==
    LET set == insert(SetOf(o, entity).object, key, Signature(entity, key, o))
        others == IF get(o, "signatures") = {} THEN Empty ELSE o["signatures"].object
    IN  insert(o, "signatures", Obj(insert(others, entity, Obj(set))))

-----------------------------------------------------------------------------
(* servers_to_check_signatures, required_keys and verify_event. *)

is_third_party_invite(o) == "m.room.third_party_invite" \in TypeOf(o)

\* The server an identifier names, none if it does not parse or is not a string.
ServerIn(values) == {v.string : v \in {w \in values : DOMAIN w = {"string"}}} \cap Servers

\* join_authorised_via_users_server, in the room versions that have it.
Authorising(o, v) ==
    IF v < 8 \/ get(o, "content") = {} THEN {}
    ELSE IF ~IsObject(o["content"]) THEN {}
    ELSE get(o["content"].object, "join_authorised_via_users_server")

\* Not a type, a sender, an event identifier or an authorising user that can be read.
servers_fail(o, v) ==
    \/ TypeOf(o) = {}
    \/ ~is_third_party_invite(o) /\ ServerIn(get(o, "sender")) = {}
    \/ v <= 2 /\ ServerIn(get(o, "event_id")) = {}
    \/ Authorising(o, v) # {} /\ ServerIn(Authorising(o, v)) = {}

servers_to_check_signatures(o, v) ==
    (IF is_third_party_invite(o) THEN {} ELSE ServerIn(get(o, "sender")))
    \cup (IF v <= 2 THEN ServerIn(get(o, "event_id")) ELSE {})
    \cup ServerIn(Authorising(o, v))

\* The match in servers_to_check_signatures that has no arm for other versions.
Unimplemented(v) == v = 12

\* Bug: only the sender's server's keys.
required_keys_Sender(o, v) ==
    UNION {{s} \X {key \in KeyIds : IsObject(SetOf(o, s)) /\ key \in DOMAIN SetOf(o, s).object} :
              s \in ServerIn(get(o, "sender"))}

\* The keys to get: a set of <<server, key id>>.
required_keys(o, v) ==
    LET KeysIn(set) == {key \in KeyIds : key \in DOMAIN set.object /\ ParsesAsKeyId(key)}
        servers == {s \in servers_to_check_signatures(o, v) :
                       /\ \E sig \in get(o, "signatures") : IsObject(sig)
                       /\ IsObject(SetOf(o, s))}
    IN  UNION {{s} \X KeysIn(SetOf(o, s)) : s \in servers}

\* A signature that the given key made over the object.
verify_json_with(server, key, signature, o) ==
    DOMAIN signature = {"signature"} /\ signature = Signature(server, key, o)

\* Bug: a signature whose key is not known is skipped.
server_verified_Skips(keys, o, redacted, s) ==
    LET set == SetOf(o, s).object
        checked == {key \in DOMAIN set : split_id(key)}
    IN  /\ s \in DOMAIN o["signatures"].object /\ IsObject(SetOf(o, s)) /\ checked # {}
        /\ \A key \in checked : <<s, key>> \in keys => verify_json_with(s, key, set[key], redacted)

\* One server's signatures: every one that can be checked is, and there is one.
server_verified(keys, o, redacted, s) ==
    LET set == SetOf(o, s).object
        checked == {key \in DOMAIN set : split_id(key)}
    IN  /\ s \in DOMAIN o["signatures"].object /\ IsObject(SetOf(o, s))
        /\ checked # {} /\ \E key \in KeyIds : <<s, key>> \in keys
        /\ \A key \in checked :
              <<s, key>> \in keys /\ verify_json_with(s, key, set[key], redacted)

\* Whether `hashes` holds a string under sha256.
HashReadable(o) ==
    \E h \in get(o, "hashes") : IsObject(h) /\ \E x \in get(h.object, "sha256") :
        DOMAIN x \in {{"string"}, {"hash"}}

verify_event(keys, o, v) ==
    LET redacted == redact(o, v)
    IN  IF redact_fails(o, v) \/ ~HashReadable(o) \/ servers_fail(o, v)
           \/ ~(\E sig \in get(o, "signatures") : IsObject(sig))
        THEN "err"
        ELSE IF Unimplemented(v) THEN "panic"
        ELSE IF \E s \in servers_to_check_signatures(o, v) : ~server_verified(keys, o, redacted, s)
        THEN "err"
        ELSE IF PduSize(o) THEN "err"
        ELSE IF DOMAIN o["hashes"].object["sha256"] = {"hash"}
                /\ o["hashes"].object["sha256"] = content_hash(o)
        THEN "All" ELSE "Signatures"

\* verify_json: every signature there is, whoever made it.
verify_json(keys, o) ==
    /\ \E sig \in get(o, "signatures") : IsObject(sig)
    /\ \A s \in DOMAIN o["signatures"].object :
          /\ IsObject(SetOf(o, s)) /\ \E key \in KeyIds : <<s, key>> \in keys
          /\ \A key \in DOMAIN SetOf(o, s).object :
                <<s, key>> \in keys /\ verify_json_with(s, key, SetOf(o, s).object[key], o)

-----------------------------------------------------------------------------
(* Operations. *)

Ends(new, result) ==
    /\ steps < MaxSteps /\ steps' = steps + 1
    /\ object' = new /\ outcome' = result /\ version' = version

Step(new, result) == Ends(new, result) /\ alters' = alters

\* The object becomes something no server made of it.
Change(new) == Ends(new, "ok") /\ alters < MaxAlters /\ alters' = alters + 1

\* A server signs the object as it is.
sign_json(server, key) ==
    LET err == sign_json_err(object, server)
    IN  \/ /\ err = "" /\ Step(signed_json(object, server, key), "ok")
           /\ signed' = signed \cup {Signature(server, key, object)}
           /\ clean' = clean \ {server}
        \/ /\ err = "signatures" /\ Step(remove(object, {"signatures"}), "err")
           /\ signed' = signed /\ clean' = {}
        \/ /\ err = "set" /\ Step(remove(object, {"signatures", "unsigned"}), "err")
           /\ signed' = signed /\ clean' = {}

\* Whether the hash that is there, if any, is that of the object as it is.
HashIsCurrent(o) ==
    \A h \in get(o, "hashes") : IsObject(h) /\ get(h.object, "sha256") = {content_hash(o)}

\* A server hashes and signs the event.
hash_and_sign_event(server, key) ==
    LET hashes == {h \in get(object, "hashes") : IsObject(h)}
        hashed == insert(object, "hashes",
                         Obj(insert(IF hashes = {} THEN Empty ELSE object["hashes"].object,
                                    "sha256", content_hash(object))))
        redacted == redact(hashed, version)
        err == IF redact_fails(hashed, version) THEN "redaction" ELSE sign_json_err(redacted, server)
        still == IF HashIsCurrent(object) THEN clean ELSE {}
    IN  \/ /\ PduSize(object) \/ (get(object, "hashes") # {} /\ hashes = {})
           /\ Step(object, "err") /\ UNCHANGED <<signed, clean>>
        \/ /\ ~PduSize(object) /\ (get(object, "hashes") # {} => hashes # {})
           /\ \/ /\ err # ""
                 /\ Step(hashed, "err") /\ signed' = signed
                 /\ clean' = still
              \/ /\ err = ""
                 /\ Step(insert(hashed, "signatures",
                                signed_json(redacted, server, key)["signatures"]), "ok")
                 /\ signed' = signed \cup {Signature(server, key, redacted)}
                 /\ clean' = still \cup {s \in {server} : DOMAIN SetOf(object, s).object \subseteq {key}}

\* The event is redacted; with `because`, `unsigned` says so.
redact_in_place(because) ==
    /\ UNCHANGED <<signed, clean>>
    /\ \/ redact_fails(object, version) /\ Step(LeftByFailure(object, version), "err")
       \/ /\ ~redact_fails(object, version)
          /\ LET redacted == redact(object, version) IN
             Step(IF because
                  THEN insert(redacted, "unsigned", Obj(insert(Empty, "redacted_because", Obj(Empty))))
                  ELSE redacted, "ok")

\* Only the content is redacted.
redact_content_in_place ==
    /\ TypeOf(object) # {} /\ \E c \in get(object, "content") : IsObject(c)
    /\ UNCHANGED <<signed, clean>>
    /\ \/ redact_fails(object, version) /\ Step(LeftByFailure(object, version), "err")
       \/ ~redact_fails(object, version) /\ Step(WithContentRedacted(object, version), "ok")

\* A server notes something of its own in the event.
SetUnsigned ==
    /\ Step(insert(object, "unsigned", Obj(insert(Empty, "age", Num))), "ok")
    /\ UNCHANGED <<signed, clean>>

\* Someone changes or removes a field, or an entry one level down.
Alter ==
    /\ \E f \in DOMAIN object :
          \/ \E value \in Values : Change(insert(object, f, value))
          \/ Change(remove(object, {f}))
          \/ /\ IsObject(object[f])
             /\ \E k \in DOMAIN object[f].object, value \in Values :
                   Change(insert(object, f, Obj(insert(object[f].object, k, value))))
    /\ clean' = {} /\ signed' = signed

\* Someone adds a signature of no use, or a hash of what the object has become.
Attach ==
    /\ \/ \E s \in Servers, key \in KeyIds \ Signing :
             /\ \E sig \in get(object, "signatures") : IsObject(sig) /\ IsObject(SetOf(object, s))
             /\ Change(insert(object, "signatures", Obj(insert(object["signatures"].object, s,
                          Obj(insert(SetOf(object, s).object, key, Str("long")))))))
       \/ Change(insert(object, "hashes", Obj(insert(Empty, "sha256", content_hash(object)))))
    /\ clean' = {} /\ signed' = signed

SigInit ==
    /\ version \in Versions /\ object \in Events
    /\ outcome = "ok" /\ signed = {} /\ clean = {}
    /\ steps = 0 /\ alters = 0

SigNext ==
    \/ \E s \in Servers, key \in Signing : sign_json(s, key) \/ hash_and_sign_event(s, key)
    \/ \E because \in BOOLEAN : redact_in_place(because)
    \/ redact_content_in_place \/ SetUnsigned \/ Alter \/ Attach

SigSpec == SigInit /\ [][SigNext]_sigVars

-----------------------------------------------------------------------------
(* What the readers and the signers of an event rely on. *)

KnownKeys == Servers \X Signing

Verdict(o) == verify_event(KnownKeys, o, version)

Accepted == {"All", "Signatures"}

\* Type: signatures and hashes that are there are terms the operations made.
SigTypeOK ==
    /\ version \in Versions /\ outcome \in {"ok", "err"} /\ clean \subseteq Servers
    /\ steps \in 0..MaxSteps /\ alters \in 0..MaxAlters
    /\ \A s \in signed : /\ s.signature.by \in Servers /\ s.signature.key \in Signing
                         /\ {"signatures", "unsigned"} \cap DOMAIN s.signature.over = {}

\* An accepted event is one that every server it has to be signed by did sign,
\* up to redaction; if verify_event says All, the content is, too, what that
\* server hashed, whatever happened to the event on the way (functions.rs 560-640).
AcceptedWasSigned ==
    /\ SigTypeOK
    /\ Verdict(object) \in Accepted =>
        \A s \in servers_to_check_signatures(object, version) :
            \E sig \in signed :
                /\ sig.signature.by = s
                /\ sig.signature.over = canonical_json(redact(object, version))
                /\ Verdict(object) = "All" =>
                      sig.signature.over["hashes"].object["sha256"] = content_hash(object)

\* An event that the required servers hashed and signed, one after the other,
\* is accepted, however it was redacted since (hash_and_sign_event), and redacting
\* an accepted event, whoever made it, never makes it unacceptable.
SignedIsAccepted ==
    /\ /\ version # 12 /\ clean # {} /\ ~servers_fail(object, version)
       /\ servers_to_check_signatures(object, version) \subseteq clean
       => Verdict(object) \in Accepted
    /\ Verdict(object) \in Accepted => Verdict(redact(object, version)) \in Accepted

Completes(s, key) ==
    /\ /\ hash_and_sign_event(s, key) /\ outcome' = "ok"
       /\ version # 12 /\ ~servers_fail(object', version)
       /\ servers_to_check_signatures(object', version) \subseteq clean'
       => Verdict(object') = "All"
    /\ /\ sign_json(s, key) /\ outcome' = "ok"
       /\ get(object, "signatures") # {} => verify_json(KnownKeys, object)
       => verify_json(KnownKeys, object')

\* Signing completes an event or object for its readers: when the last server
\* required has hashed and signed the event it verifies in full, and an object
\* that verified, or that nobody had signed, verifies after another entity
\* signed it (hash_and_sign_event with verify_event, sign_json with verify_json).
SigningCompletes == [][\A s \in Servers, key \in Signing : Completes(s, key)]_sigVars

\* Fetching the keys required_keys asks for is as good as having them all.
RequiredKeysSuffice ==
    verify_event(KnownKeys \cap required_keys(object, version), object, version) = Verdict(object)

SameEventId ==
    /\ ~reference_fails(object, version) /\ alters' = alters
    /\ \/ get(object, "hashes") # {} /\ HashIsCurrent(object)
       \/ get(object', "hashes") = get(object, "hashes")
    => /\ ~reference_fails(object', version)
       /\ reference_hash(object', version) = reference_hash(object, version)

\* The event identifier, made from the reference hash, does not change when the
\* event is redacted, annotated, signed, or hashed and signed again while its
\* hash is current.
EventIdStable == [][SameEventId]_sigVars

Adds(s, key) ==
    /\ sign_json(s, key) \/ hash_and_sign_event(s, key) =>
          /\ \A f \in DOMAIN object \ {"hashes", "signatures", "unsigned"} :
                f \in DOMAIN object' /\ object'[f] = object[f]
          /\ outcome' = "ok" =>
                /\ get(object', "unsigned") = get(object, "unsigned")
                /\ \A t \in Servers \ {s} : SetOf(object', t) = SetOf(object, t)
    /\ hash_and_sign_event(s, key) /\ outcome' = "err" =>
          remove(object', {"hashes"}) = remove(object, {"hashes"})

\* Signing changes nothing but hashes and signatures; other entities' signatures
\* are still there afterwards, also when hash_and_sign_event fails.  Only a
\* failed sign_json may lose signatures and unsigned.
SigningOnlyAdds == [][\A s \in Servers, key \in Signing : Adds(s, key)]_sigVars
=============================================================================
