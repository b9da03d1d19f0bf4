-------------------------- MODULE SignaturesProofs --------------------------
(***************************************************************************)
(* Proofs about Signatures, for any events, servers, room versions and     *)
(* alterations, and any number of operations.                              *)
(***************************************************************************)
EXTENDS Signatures, TLAPS

-----------------------------------------------------------------------------
(* JSON objects. *)

LEMMA RemoveIs ==
    ASSUME NEW o, NEW keys
    PROVE  /\ DOMAIN remove(o, keys) = DOMAIN o \ keys
           /\ \A x \in DOMAIN o \ keys : remove(o, keys)[x] = o[x]
BY DEF remove, Restrict

LEMMA ObjIs ==
    ASSUME NEW f
    PROVE  IsObject(Obj(f)) /\ Obj(f).object = f /\ DOMAIN Obj(f) # {"signature"}
BY DEF IsObject, Obj

LEMMA SignatureIs ==
    ASSUME NEW s, NEW k, NEW o
    PROVE  /\ DOMAIN Signature(s, k, o) = {"signature"}
           /\ Signature(s, k, o).signature.by = s
           /\ Signature(s, k, o).signature.key = k
           /\ Signature(s, k, o).signature.over = canonical_json(o)
BY DEF Signature

LEMMA StrIs ==
    ASSUME NEW s
    PROVE  ~ IsObject(Str(s)) /\ DOMAIN Str(s) # {"signature"}
BY DEF IsObject, Str

\* Two objects have the same under a key.
SameAt(a, b, k) == (k \in DOMAIN a <=> k \in DOMAIN b) /\ (k \in DOMAIN a => a[k] = b[k])

\* They differ under the given keys at most.
SameBut(a, b, keys) == \A k : k \notin keys => SameAt(a, b, k)

LEMMA GetIs ==
    ASSUME NEW o, NEW k
    PROVE  (k \in DOMAIN o => get(o, k) = {o[k]}) /\ (k \notin DOMAIN o => get(o, k) = {})
BY DEF get

LEMMA GetSame ==
    ASSUME NEW a, NEW b, NEW k, SameAt(a, b, k)
    PROVE  get(a, k) = get(b, k)
BY GetIs DEF SameAt

LEMMA InsertSame ==
    ASSUME NEW o, NEW k, NEW v
    PROVE  SameBut(insert(o, k, v), o, {k})
<1> DEFINE n == insert(o, k, v)
<1>1. DOMAIN n = DOMAIN o \cup {k} /\ \A x \in DOMAIN o \ {k} : n[x] = o[x]
  BY DEF insert
<1> HIDE DEF n
<1>2. SameBut(n, o, {k})
  BY <1>1 DEF SameBut, SameAt
<1> QED BY <1>2 DEF n

LEMMA RemoveSame ==
    ASSUME NEW o, NEW keys
    PROVE  SameBut(remove(o, keys), o, keys)
<1> DEFINE n == remove(o, keys)
<1>1. DOMAIN n = DOMAIN o \ keys /\ \A x \in DOMAIN o \ keys : n[x] = o[x]
  BY RemoveIs
<1> HIDE DEF n
<1>2. SameBut(n, o, keys)
  BY <1>1 DEF SameBut, SameAt
<1> QED BY <1>2 DEF n

\* What is removed does not matter.
LEMMA RemoveEqual ==
    ASSUME NEW a, NEW b, NEW keys, SameBut(a, b, keys)
    PROVE  remove(a, keys) = remove(b, keys)
<1>1. DOMAIN a \ keys = DOMAIN b \ keys
  BY DEF SameBut, SameAt
<1>2. \A x \in DOMAIN a \ keys : a[x] = b[x]
  BY DEF SameBut, SameAt
<1> QED BY <1>1, <1>2 DEF remove, Restrict

LEMMA SameButMore ==
    ASSUME NEW a, NEW b, NEW keys, NEW more, SameBut(a, b, keys), keys \subseteq more
    PROVE  SameBut(a, b, more)
BY DEF SameBut

LEMMA SameButChain ==
    ASSUME NEW a, NEW b, NEW c, NEW keys, SameBut(a, b, keys), SameBut(b, c, keys)
    PROVE  SameBut(a, c, keys)
BY DEF SameBut, SameAt

-----------------------------------------------------------------------------
(* Redaction. *)

\* Redacting a content twice is redacting it once, and the second time succeeds.
LEMMA RetainTwice ==
    ASSUME NEW c, NEW allowed, ~ NestedError(c, allowed)
    PROVE  LET kept == object_retain_keys(c, allowed)
           IN  object_retain_keys(kept, allowed) = kept /\ ~ NestedError(kept, allowed)
<1> DEFINE kept == object_retain_keys(c, allowed)
           nested == {k \in allowed.nested \cap DOMAIN c : "signed" \in DOMAIN c[k].object}
           again == {k \in allowed.nested \cap DOMAIN kept : "signed" \in DOMAIN kept[k].object}
           F(o, n, k) == IF k \in n THEN Obj(insert(Empty, "signed", o[k].object["signed"])) ELSE o[k]
<1>1. CASE allowed.all
  BY <1>1 DEF object_retain_keys
<1>2. CASE ~ allowed.all
  <2>1. kept = [k \in (DOMAIN c \cap allowed.keys) \cup nested |-> F(c, nested, k)]
    BY <1>2 DEF object_retain_keys
  <2>2. object_retain_keys(kept, allowed)
          = [k \in (DOMAIN kept \cap allowed.keys) \cup again |-> F(kept, again, k)]
    BY <1>2 DEF object_retain_keys
  <2> HIDE DEF kept
  <2>3. DOMAIN kept = (DOMAIN c \cap allowed.keys) \cup nested
    BY <2>1
  <2>4. ASSUME NEW k \in nested
        PROVE  /\ kept[k] = Obj(insert(Empty, "signed", c[k].object["signed"]))
               /\ IsObject(kept[k]) /\ "signed" \in DOMAIN kept[k].object
               /\ kept[k].object["signed"] = c[k].object["signed"]
    <3> DEFINE x == c[k].object["signed"]
               one == insert(Empty, "signed", x)
    <3>1. "signed" \in DOMAIN one /\ one["signed"] = x
      BY DEF insert
    <3>2. kept[k] = Obj(one)
      BY <2>1
    <3> HIDE DEF one
    <3>3. IsObject(kept[k]) /\ kept[k].object = one
      BY <3>2, ObjIs
    <3>4. "signed" \in DOMAIN kept[k].object /\ kept[k].object["signed"] = x
      BY <3>1, <3>3
    <3> QED BY <3>2, <3>3, <3>4 DEF one
  <2>5. ASSUME NEW k \in DOMAIN kept, k \notin nested PROVE kept[k] = c[k] /\ k \notin again
    BY <2>1, <2>5
  <2>6. again = nested
    BY <2>3, <2>4, <2>5
  <2>7. \A k \in DOMAIN kept : F(kept, again, k) = kept[k]
    BY <2>4, <2>5, <2>6
  <2>8. (DOMAIN kept \cap allowed.keys) \cup again = DOMAIN kept
    BY <2>3, <2>6
  <2>9. kept = [k \in DOMAIN kept |-> kept[k]]
    BY <2>1
  <2>10. object_retain_keys(kept, allowed) = kept
    BY <2>2, <2>7, <2>8, <2>9
  <2>11. ~ NestedError(kept, allowed)
    BY <2>3, <2>4, <2>5 DEF NestedError
  <2> QED BY <2>10, <2>11 DEF kept
<1> QED BY <1>1, <1>2

LEMMA TypeSame ==
    ASSUME NEW a, NEW b, SameAt(a, b, "type")
    PROVE  TypeOf(a) = TypeOf(b) /\ \A v : AllowedIn(a, v) = AllowedIn(b, v)
BY GetSame DEF TypeOf, AllowedIn

\* The content after redaction.
RedactedContent(o, v) == Obj(object_retain_keys(o["content"].object, AllowedIn(o, v)))

LEMMA RedactIs ==
    ASSUME NEW o, NEW v
    PROVE  /\ DOMAIN redact(o, v) = DOMAIN o \cap allowed_event_keys_for(v)
           /\ \A k \in DOMAIN redact(o, v) :
                 redact(o, v)[k] = IF k = "content" THEN RedactedContent(o, v) ELSE o[k]
           /\ DOMAIN WithContentRedacted(o, v) = DOMAIN o
           /\ \A k \in DOMAIN o :
                 WithContentRedacted(o, v)[k] = IF k = "content" THEN RedactedContent(o, v) ELSE o[k]
<1> DEFINE w == WithContentRedacted(o, v)
<1>1. /\ DOMAIN w = DOMAIN o
      /\ \A k \in DOMAIN o : w[k] = IF k = "content" THEN RedactedContent(o, v) ELSE o[k]
  <2>1. CASE "content" \in DOMAIN o
    <3>1. w = insert(o, "content", RedactedContent(o, v))
      BY <2>1, GetIs DEF WithContentRedacted, RedactedContent
    <3> DEFINE r == RedactedContent(o, v)
    <3> HIDE DEF r
    <3>2. /\ DOMAIN w = DOMAIN o \cup {"content"} /\ w["content"] = r
          /\ \A k \in DOMAIN o \ {"content"} : w[k] = o[k]
      BY <3>1 DEF r, insert
    <3> HIDE DEF w
    <3>3. /\ DOMAIN w = DOMAIN o
          /\ \A k \in DOMAIN o : w[k] = IF k = "content" THEN r ELSE o[k]
      BY <2>1, <3>2
    <3> QED BY <3>3 DEF r
  <2>2. CASE "content" \notin DOMAIN o
    <3>1. w = o
      BY <2>2, GetIs DEF WithContentRedacted
    <3> QED BY <2>2, <3>1
  <2> QED BY <2>1, <2>2
<1>2. redact(o, v) = [k \in DOMAIN w \cap allowed_event_keys_for(v) |-> w[k]]
  BY DEF redact, Restrict
<1> HIDE DEF w
<1> QED BY <1>1, <1>2 DEF w

LEMMA RedactFunction ==
    ASSUME NEW a, NEW b, NEW v, DOMAIN redact(a, v) = DOMAIN redact(b, v),
           \A k \in DOMAIN redact(a, v) : redact(a, v)[k] = redact(b, v)[k]
    PROVE  redact(a, v) = redact(b, v)
BY DEF redact, Restrict

LEMMA EventKeys ==
    ASSUME NEW v
    PROVE  /\ {"type", "content", "sender", "event_id", "hashes", "signatures"}
                 \subseteq allowed_event_keys_for(v)
           /\ "unsigned" \notin allowed_event_keys_for(v)
BY DEF allowed_event_keys_for

\* Redaction fails or not for the type and the content alone.
LEMMA FailsSame ==
    ASSUME NEW a, NEW b, NEW v, SameAt(a, b, "type"), SameAt(a, b, "content")
    PROVE  redact_fails(a, v) <=> redact_fails(b, v)
BY TypeSame, GetSame DEF redact_fails

\* What was redacted, wholly or only its content, redacts to the same.
LEMMA RedactAgain ==
    ASSUME NEW o, NEW o2, NEW v, ~ redact_fails(o, v),
           \A k \in allowed_event_keys_for(v) : SameAt(o2, WithContentRedacted(o, v), k)
    PROVE  ~ redact_fails(o2, v) /\ redact(o2, v) = redact(o, v)
<1> DEFINE w == WithContentRedacted(o, v)
           E == allowed_event_keys_for(v)
           allowed == AllowedIn(o, v)
           c == o["content"].object
           kept == object_retain_keys(c, allowed)
<1>1. SameAt(o2, w, "type") /\ SameAt(o2, w, "content")
  BY EventKeys
<1>2. DOMAIN w = DOMAIN o /\ \A k \in DOMAIN o : w[k] = IF k = "content" THEN RedactedContent(o, v) ELSE o[k]
  BY RedactIs
<1> HIDE DEF w, E
<1>3. SameAt(o2, o, "type")
  BY <1>1, <1>2 DEF SameAt
<1>4. TypeOf(o2) = TypeOf(o) /\ AllowedIn(o2, v) = allowed
  BY <1>3, TypeSame
<1>5. TypeOf(o) # {}
  BY DEF redact_fails
<1>6. ASSUME "content" \in DOMAIN o
      PROVE  ~ redact_fails(o2, v) /\ RedactedContent(o2, v) = RedactedContent(o, v)
  <2>1. IsObject(o["content"]) /\ ~ NestedError(c, allowed)
    BY <1>6, GetIs DEF redact_fails
  <2>2. object_retain_keys(kept, allowed) = kept /\ ~ NestedError(kept, allowed)
    BY <2>1, RetainTwice
  <2>3. "content" \in DOMAIN o2 /\ o2["content"] = Obj(kept)
    BY <1>1, <1>2, <1>6 DEF SameAt, RedactedContent
  <2> HIDE DEF kept, allowed, c
  <2>4. IsObject(o2["content"]) /\ o2["content"].object = kept
    BY <2>3, ObjIs
  <2>5. ~ redact_fails(o2, v)
    BY <1>4, <1>5, <2>2, <2>3, <2>4, GetIs DEF redact_fails
  <2>6. RedactedContent(o2, v) = Obj(kept) /\ RedactedContent(o, v) = Obj(kept)
    BY <1>4, <2>2, <2>4 DEF RedactedContent, kept, c, allowed
  <2> QED BY <2>5, <2>6
<1>7. ASSUME "content" \notin DOMAIN o PROVE ~ redact_fails(o2, v)
  <2>1. "content" \notin DOMAIN o2
    BY <1>1, <1>2, <1>7 DEF SameAt
  <2> QED BY <1>4, <1>5, <2>1, GetIs DEF redact_fails
<1>8. redact(o2, v) = redact(o, v)
  <2>1. DOMAIN o2 \cap E = DOMAIN o \cap E /\ \A k \in DOMAIN o \cap E : o2[k] = w[k]
    BY <1>2 DEF SameAt, w, E
  <2>2. /\ DOMAIN redact(o, v) = DOMAIN o \cap E
        /\ \A k \in DOMAIN o \cap E :
              redact(o, v)[k] = IF k = "content" THEN RedactedContent(o, v) ELSE o[k]
    BY RedactIs DEF E
  <2>3. /\ DOMAIN redact(o2, v) = DOMAIN o2 \cap E
        /\ \A k \in DOMAIN o2 \cap E :
              redact(o2, v)[k] = IF k = "content" THEN RedactedContent(o2, v) ELSE o2[k]
    BY RedactIs DEF E
  <2>4. /\ DOMAIN redact(o2, v) = DOMAIN redact(o, v)
        /\ \A k \in DOMAIN redact(o, v) : redact(o2, v)[k] = redact(o, v)[k]
    BY <1>2, <1>6, <2>1, <2>2, <2>3
  <2> QED BY <2>4, RedactFunction
<1> QED BY <1>6, <1>7, <1>8

LEMMA RedactSame ==
    ASSUME NEW a, NEW b, NEW v, NEW keys, SameBut(a, b, keys),
           "type" \notin keys, "content" \notin keys
    PROVE  SameBut(redact(a, v), redact(b, v), keys)
<1> DEFINE E == allowed_event_keys_for(v)
<1>1. SameAt(a, b, "type") /\ SameAt(a, b, "content")
  BY DEF SameBut
<1>2. AllowedIn(a, v) = AllowedIn(b, v)
  BY <1>1, TypeSame
<1>3. "content" \in DOMAIN a => RedactedContent(a, v) = RedactedContent(b, v)
  BY <1>1, <1>2 DEF SameAt, RedactedContent
<1>4. /\ DOMAIN redact(a, v) = DOMAIN a \cap E
      /\ \A k \in DOMAIN a \cap E :
            redact(a, v)[k] = IF k = "content" THEN RedactedContent(a, v) ELSE a[k]
  BY RedactIs
<1>5. /\ DOMAIN redact(b, v) = DOMAIN b \cap E
      /\ \A k \in DOMAIN b \cap E :
            redact(b, v)[k] = IF k = "content" THEN RedactedContent(b, v) ELSE b[k]
  BY RedactIs
<1> HIDE DEF E
<1> SUFFICES ASSUME NEW k, k \notin keys PROVE SameAt(redact(a, v), redact(b, v), k)
  BY DEF SameBut
<1>6. SameAt(a, b, k)
  BY DEF SameBut
<1> QED BY <1>1, <1>3, <1>4, <1>5, <1>6 DEF SameAt

LEMMA PduSame ==
    ASSUME NEW a, NEW b, SameAt(a, b, "content")
    PROVE  PduSize(a) <=> PduSize(b)
BY GetSame DEF PduSize

\* The keys that are never signed.
Unsigned == {"signatures", "unsigned"}

\* What differs in signatures and unsigned only is hashed, signed and named
\* alike.
LEMMA SameReference ==
    ASSUME NEW a, NEW b, NEW v, SameBut(a, b, Unsigned)
    PROVE  /\ canonical_json(a) = canonical_json(b)
           /\ canonical_json(redact(a, v)) = canonical_json(redact(b, v))
           /\ redact_fails(a, v) <=> redact_fails(b, v)
           /\ PduSize(a) <=> PduSize(b)
           /\ PduSize(redact(a, v)) <=> PduSize(redact(b, v))
<1>1. SameAt(a, b, "type") /\ SameAt(a, b, "content")
  BY DEF SameBut, Unsigned
<1>2. SameBut(redact(a, v), redact(b, v), Unsigned)
  <2>1. "type" \notin Unsigned /\ "content" \notin Unsigned
    BY DEF Unsigned
  <2> QED BY <2>1, RedactSame
<1>3. SameAt(redact(a, v), redact(b, v), "content")
  BY <1>2 DEF SameBut, Unsigned
<1>4. canonical_json(a) = canonical_json(b)
  BY RemoveEqual DEF canonical_json, Unsigned
<1>5. canonical_json(redact(a, v)) = canonical_json(redact(b, v))
  BY <1>2, RemoveEqual DEF canonical_json, Unsigned
<1> QED BY <1>1, <1>3, <1>4, <1>5, FailsSame, PduSame

-----------------------------------------------------------------------------
(* Signing. *)

LEMMA SetOfSame ==
    ASSUME NEW a, NEW b, NEW t, SameAt(a, b, "signatures")
    PROVE  SetOf(a, t) = SetOf(b, t)
BY GetSame, GetIs DEF SetOf, SameAt

\* A server has an entry in an object's signatures.
HasEntry(o, t) == "signatures" \in DOMAIN o /\ t \in DOMAIN o["signatures"].object

LEMMA SetOfIs ==
    ASSUME NEW o, NEW t
    PROVE  SetOf(o, t) = IF HasEntry(o, t) THEN o["signatures"].object[t] ELSE Obj(Empty)
BY GetIs DEF SetOf, HasEntry

\* sign_json adds one signature to the entity's set.
LEMMA SignedJsonIs ==
    ASSUME NEW o, NEW e, NEW key
    PROVE  LET n == signed_json(o, e, key)
           IN  /\ SameBut(n, o, {"signatures"})
               /\ "signatures" \in DOMAIN n /\ IsObject(n["signatures"])
               /\ HasEntry(n, e)
               /\ SetOf(n, e) = Obj(insert(SetOf(o, e).object, key, Signature(e, key, o)))
               /\ \A t : t # e => SetOf(n, t) = SetOf(o, t) /\ (HasEntry(n, t) <=> HasEntry(o, t))
<1> DEFINE set == insert(SetOf(o, e).object, key, Signature(e, key, o))
           others == IF get(o, "signatures") = {} THEN Empty ELSE o["signatures"].object
           all == insert(others, e, Obj(set))
           n == insert(o, "signatures", Obj(all))
<1>1. signed_json(o, e, key) = n
  BY DEF signed_json
<1> HIDE DEF set
<1>2. /\ DOMAIN all = DOMAIN others \cup {e} /\ all[e] = Obj(set)
      /\ \A t \in DOMAIN others \ {e} : all[t] = others[t]
  BY DEF insert
<1>3. \A t : t \in DOMAIN others <=> HasEntry(o, t)
  <2>1. DOMAIN Empty = {}
    BY DEF Empty
  <2> QED BY <2>1, GetIs DEF HasEntry
<1>4. \A t : HasEntry(o, t) => others[t] = o["signatures"].object[t]
  BY GetIs DEF HasEntry
<1> HIDE DEF others, all
<1>5. SameBut(n, o, {"signatures"})
  BY InsertSame
<1>6. "signatures" \in DOMAIN n /\ n["signatures"] = Obj(all)
  BY DEF insert
<1> HIDE DEF n
<1>7. IsObject(n["signatures"]) /\ n["signatures"].object = all
  BY <1>6, ObjIs
<1>8. \A t : HasEntry(n, t) <=> t \in DOMAIN all
  BY <1>6, <1>7 DEF HasEntry
<1>9. SetOf(n, e) = Obj(set) /\ HasEntry(n, e)
  BY <1>2, <1>7, <1>8, SetOfIs
<1>10. ASSUME NEW t, t # e PROVE SetOf(n, t) = SetOf(o, t) /\ (HasEntry(n, t) <=> HasEntry(o, t))
  <2>1. HasEntry(n, t) <=> HasEntry(o, t)
    BY <1>2, <1>3, <1>8, <1>10
  <2>2. HasEntry(o, t) => n["signatures"].object[t] = o["signatures"].object[t]
    BY <1>2, <1>3, <1>4, <1>7, <1>10
  <2> QED BY <2>1, <2>2, SetOfIs
<1> QED BY <1>1, <1>5, <1>6, <1>7, <1>9, <1>10 DEF set

\* The event with its content hash.
Hashed(o) ==
    LET hashes == {h \in get(o, "hashes") : IsObject(h)}
    IN  insert(o, "hashes", Obj(insert(IF hashes = {} THEN Empty ELSE o["hashes"].object,
                                       "sha256", content_hash(o))))

\* The signatures of an event, once hashed and redacted, are what they were.
LEMMA HashedSame ==
    ASSUME NEW o, NEW v
    PROVE  /\ SameBut(Hashed(o), o, {"hashes"})
           /\ SameAt(redact(Hashed(o), v), o, "signatures")
<1>1. SameBut(Hashed(o), o, {"hashes"})
  BY InsertSame DEF Hashed
<1> DEFINE h == Hashed(o)
           r == redact(h, v)
<1>2. SameAt(h, o, "signatures")
  BY <1>1 DEF SameBut
<1>3. /\ DOMAIN r = DOMAIN h \cap allowed_event_keys_for(v)
      /\ \A k \in DOMAIN r : r[k] = IF k = "content" THEN RedactedContent(h, v) ELSE h[k]
  BY RedactIs
<1>4. "signatures" \in allowed_event_keys_for(v)
  BY EventKeys
<1> HIDE DEF h, r
<1>5. SameAt(r, o, "signatures")
  BY <1>2, <1>3, <1>4 DEF SameAt
<1> QED BY <1>1, <1>5 DEF h, r

-----------------------------------------------------------------------------
(* What the two signing operations do. *)

SignJsonOk(s, key) ==
    /\ outcome' = "ok" /\ sign_json_err(object, s) = ""
    /\ object' = signed_json(object, s, key)
    /\ signed' = signed \cup {Signature(s, key, object)}
    /\ clean' = clean \ {s}

SignJsonErr ==
    /\ outcome' = "err"
    /\ object' = remove(object, {"signatures"}) \/ object' = remove(object, Unsigned)
    /\ signed' = signed /\ clean' = {}

LEMMA SignJsonCases ==
    ASSUME NEW s, NEW key, sign_json(s, key)
    PROVE  (SignJsonOk(s, key) \/ SignJsonErr) /\ version' = version /\ alters' = alters
BY DEF sign_json, Step, Ends, SignJsonOk, SignJsonErr, Unsigned

Still == IF HashIsCurrent(object) THEN clean ELSE {}

HashOk(s, key) ==
    LET redacted == redact(Hashed(object), version)
    IN  /\ outcome' = "ok" /\ ~ PduSize(object) /\ ~ redact_fails(Hashed(object), version)
        /\ sign_json_err(redacted, s) = ""
        /\ object' = insert(Hashed(object), "signatures",
                            signed_json(redacted, s, key)["signatures"])
        /\ signed' = signed \cup {Signature(s, key, redacted)}
        /\ clean' = Still \cup {t \in {s} : DOMAIN SetOf(object, t).object \subseteq {key}}

HashErr ==
    /\ outcome' = "err" /\ signed' = signed
    /\ \/ object' = object /\ clean' = clean
       \/ object' = Hashed(object) /\ clean' = Still

LEMMA HashCases ==
    ASSUME NEW s, NEW key, hash_and_sign_event(s, key)
    PROVE  (HashOk(s, key) \/ HashErr) /\ version' = version /\ alters' = alters
BY DEF hash_and_sign_event, Hashed, Step, Ends, HashOk, HashErr, Still

\* What hash_and_sign_event makes of an event.
LEMMA HashOkIs ==
    ASSUME NEW s, NEW key, HashOk(s, key)
    PROVE  /\ SameBut(object', object, {"hashes", "signatures"})
           /\ SameBut(object', Hashed(object), {"signatures"})
           /\ "signatures" \in DOMAIN object' /\ IsObject(object'["signatures"])
           /\ HasEntry(object', s)
           /\ SetOf(object', s) = Obj(insert(SetOf(object, s).object, key,
                                             Signature(s, key, redact(Hashed(object), version))))
           /\ \A t : t # s => /\ SetOf(object', t) = SetOf(object, t)
                              /\ HasEntry(object', t) <=> HasEntry(object, t)
<1> DEFINE h == Hashed(object)
           r == redact(h, version)
           j == signed_json(r, s, key)
           new == object'
<1>1. new = insert(h, "signatures", j["signatures"])
  BY DEF HashOk
<1>2. SameBut(h, object, {"hashes"}) /\ SameAt(r, object, "signatures")
  BY HashedSame
<1>3. /\ "signatures" \in DOMAIN j /\ IsObject(j["signatures"])
      /\ HasEntry(j, s)
      /\ SetOf(j, s) = Obj(insert(SetOf(r, s).object, key, Signature(s, key, r)))
      /\ \A t : t # s => SetOf(j, t) = SetOf(r, t) /\ (HasEntry(j, t) <=> HasEntry(r, t))
  BY SignedJsonIs
<1> HIDE DEF h, r, j, new
<1>4. SameBut(new, h, {"signatures"})
  BY <1>1, InsertSame
<1>5. "signatures" \in DOMAIN new /\ new["signatures"] = j["signatures"]
  BY <1>1 DEF insert
<1>6. SameAt(new, j, "signatures")
  BY <1>3, <1>5 DEF SameAt
<1>7. \A t : SetOf(new, t) = SetOf(j, t) /\ SetOf(r, t) = SetOf(object, t)
  BY <1>2, <1>6, SetOfSame
<1>8. \A t : (HasEntry(new, t) <=> HasEntry(j, t)) /\ (HasEntry(r, t) <=> HasEntry(object, t))
  BY <1>2, <1>6 DEF HasEntry, SameAt
<1>9. SameBut(new, object, {"hashes", "signatures"})
  BY <1>2, <1>4 DEF SameBut, SameAt
<1>10. HasEntry(new, s) /\ IsObject(new["signatures"])
  BY <1>3, <1>5, <1>8
<1>11. SetOf(new, s) = Obj(insert(SetOf(object, s).object, key, Signature(s, key, r)))
  BY <1>3, <1>7
<1>12. \A t : t # s => SetOf(new, t) = SetOf(object, t) /\ (HasEntry(new, t) <=> HasEntry(object, t))
  BY <1>3, <1>7, <1>8
<1> QED BY <1>4, <1>5, <1>9, <1>10, <1>11, <1>12 DEF h, r, new

-----------------------------------------------------------------------------
(* Signing only adds. *)

\* In every history of an event, signing changes its hashes and signatures
\* only, leaves the other servers' signatures as they are, and loses nothing
\* but signatures and unsigned when sign_json fails.
THEOREM NothingLostBySigning == SigSpec => SigningOnlyAdds
<1>1. ASSUME NEW s \in Servers, NEW key \in Signing PROVE Adds(s, key)
  <2> DEFINE three == {"hashes", "signatures", "unsigned"}
             new == object'
  <2>1. ASSUME SameBut(new, object, three)
        PROVE  \A f \in DOMAIN object \ three : f \in DOMAIN new /\ new[f] = object[f]
    <3> HIDE DEF new, three
    <3> QED BY <2>1 DEF SameBut, SameAt
  <2>2. CASE SignJsonOk(s, key)
    <3>1. new = signed_json(object, s, key)
      BY <2>2 DEF SignJsonOk
    <3>2. /\ SameBut(new, object, {"signatures"})
          /\ \A t : t # s => SetOf(new, t) = SetOf(object, t)
      BY <3>1, SignedJsonIs
    <3> HIDE DEF new
    <3>3. SameBut(new, object, three) /\ SameAt(new, object, "unsigned")
      BY <3>2 DEF SameBut
    <3>4. get(new, "unsigned") = get(object, "unsigned")
      BY <3>3, GetSame
    <3>5. outcome' # "err"
      BY <2>2 DEF SignJsonOk
    <3>6. \A f \in DOMAIN object \ three : f \in DOMAIN new /\ new[f] = object[f]
      BY <2>1, <3>3
    <3>7. \A t \in Servers \ {s} : SetOf(new, t) = SetOf(object, t)
      BY <3>2
    <3> QED BY <3>4, <3>5, <3>6, <3>7 DEF new, Adds
  <2>3. CASE HashOk(s, key)
    <3>1. /\ SameBut(new, object, {"hashes", "signatures"})
          /\ \A t : t # s => SetOf(new, t) = SetOf(object, t)
      BY <2>3, HashOkIs
    <3> HIDE DEF new
    <3>2. SameBut(new, object, three) /\ SameAt(new, object, "unsigned")
      BY <3>1 DEF SameBut
    <3>3. get(new, "unsigned") = get(object, "unsigned")
      BY <3>2, GetSame
    <3>4. outcome' # "err"
      BY <2>3 DEF HashOk
    <3>5. \A f \in DOMAIN object \ three : f \in DOMAIN new /\ new[f] = object[f]
      BY <2>1, <3>2
    <3>6. \A t \in Servers \ {s} : SetOf(new, t) = SetOf(object, t)
      BY <3>1
    <3> QED BY <3>3, <3>4, <3>5, <3>6 DEF new, Adds
  <2>4. CASE SignJsonErr /\ ~ hash_and_sign_event(s, key)
    <3>1. new = remove(object, {"signatures"}) \/ new = remove(object, Unsigned)
      BY <2>4 DEF SignJsonErr
    <3>2. SameBut(new, object, {"signatures"}) \/ SameBut(new, object, Unsigned)
      BY <3>1, RemoveSame
    <3> HIDE DEF new
    <3>3. SameBut(new, object, three)
      BY <3>2 DEF SameBut, Unsigned
    <3>4. outcome' # "ok"
      BY <2>4 DEF SignJsonErr
    <3>5. \A f \in DOMAIN object \ three : f \in DOMAIN new /\ new[f] = object[f]
      BY <2>1, <3>3
    <3> QED BY <2>4, <3>4, <3>5 DEF new, Adds
  <2>5. CASE HashErr
    <3>1. new = object \/ new = Hashed(object)
      BY <2>5 DEF HashErr
    <3>2. SameBut(Hashed(object), object, {"hashes"})
      BY HashedSame
    <3> HIDE DEF new
    <3>3. SameBut(new, object, {"hashes"})
      BY <3>1, <3>2 DEF SameBut, SameAt
    <3>4. SameBut(new, object, three)
      BY <3>3 DEF SameBut
    <3>5. outcome' # "ok"
      BY <2>5 DEF HashErr
    <3>6. remove(new, {"hashes"}) = remove(object, {"hashes"})
      BY <3>3, RemoveEqual
    <3>7. \A f \in DOMAIN object \ three : f \in DOMAIN new /\ new[f] = object[f]
      BY <2>1, <3>4
    <3> QED BY <3>5, <3>6, <3>7 DEF new, Adds
  <2>6. sign_json(s, key) => SignJsonOk(s, key) \/ SignJsonErr
    BY SignJsonCases
  <2>7. hash_and_sign_event(s, key) => HashOk(s, key) \/ HashErr
    BY HashCases
  <2> HIDE DEF new
  <2> QED BY <2>2, <2>3, <2>4, <2>5, <2>6, <2>7 DEF Adds, new
<1>2. [\A s \in Servers, key \in Signing : Adds(s, key)]_sigVars
  BY <1>1
<1> QED BY <1>2, PTL DEF SigningOnlyAdds

-----------------------------------------------------------------------------
(* Fetching the required keys. *)

LEMMA RequiredIs ==
    ASSUME NEW o, NEW v, NEW s \in servers_to_check_signatures(o, v), NEW key \in Signing,
           \E sig \in get(o, "signatures") : IsObject(sig),
           IsObject(SetOf(o, s)), key \in DOMAIN SetOf(o, s).object
    PROVE  <<s, key>> \in required_keys(o, v)
<1> DEFINE KeysIn(set) == {k \in KeyIds : k \in DOMAIN set.object /\ ParsesAsKeyId(k)}
           servers == {t \in servers_to_check_signatures(o, v) :
                          /\ \E sig \in get(o, "signatures") : IsObject(sig)
                          /\ IsObject(SetOf(o, t))}
<1>1. required_keys(o, v) = UNION {{t} \X KeysIn(SetOf(o, t)) : t \in servers}
  BY DEF required_keys
<1>2. key \in KeyIds /\ ParsesAsKeyId(key)
  BY SignaturesAssumption DEF ParsesAsKeyId
<1>3. key \in KeysIn(SetOf(o, s)) /\ s \in servers
  BY <1>2
<1> HIDE DEF KeysIn, servers
<1>4. <<s, key>> \in {s} \X KeysIn(SetOf(o, s))
  BY <1>3
<1> QED BY <1>1, <1>3, <1>4

LEMMA SameVerified ==
    ASSUME NEW o, NEW v, NEW s \in servers_to_check_signatures(o, v), NEW r,
           \E sig \in get(o, "signatures") : IsObject(sig)
    PROVE  server_verified(KnownKeys \cap required_keys(o, v), o, r, s)
              <=> server_verified(KnownKeys, o, r, s)
<1> DEFINE R == required_keys(o, v)
           set == SetOf(o, s).object
           checked == {key \in DOMAIN set : split_id(key)}
           V(keys) == server_verified(keys, o, r, s)
<1>1. \A keys : V(keys) <=>
         /\ s \in DOMAIN o["signatures"].object /\ IsObject(SetOf(o, s))
         /\ checked # {} /\ \E key \in KeyIds : <<s, key>> \in keys
         /\ \A key \in checked : <<s, key>> \in keys /\ verify_json_with(s, key, set[key], r)
  BY DEF server_verified
<1>2. IsObject(SetOf(o, s)) =>
         \A key \in checked : <<s, key>> \in KnownKeys => <<s, key>> \in R /\ key \in KeyIds
  <2> SUFFICES ASSUME IsObject(SetOf(o, s)), NEW key \in checked, <<s, key>> \in KnownKeys
               PROVE  <<s, key>> \in R /\ key \in KeyIds
    OBVIOUS
  <2>1. key \in Signing
    BY DEF KnownKeys
  <2>2. key \in DOMAIN SetOf(o, s).object
    OBVIOUS
  <2>3. key \in KeyIds
    BY <2>1, SignaturesAssumption
  <2> HIDE DEF checked, set
  <2> QED BY <2>1, <2>2, <2>3, RequiredIs
<1> HIDE DEF V, R, checked, set
<1>3. ASSUME V(KnownKeys) PROVE V(KnownKeys \cap R)
  <2>1. /\ s \in DOMAIN o["signatures"].object /\ IsObject(SetOf(o, s)) /\ checked # {}
        /\ \A key \in checked : <<s, key>> \in KnownKeys /\ verify_json_with(s, key, set[key], r)
    BY <1>1, <1>3
  <2>2. \A key \in checked : <<s, key>> \in KnownKeys \cap R /\ key \in KeyIds
    BY <1>2, <2>1
  <2>3. \E key \in KeyIds : <<s, key>> \in KnownKeys \cap R
    BY <2>1, <2>2
  <2> QED BY <1>1, <2>1, <2>2, <2>3
<1>4. ASSUME V(KnownKeys \cap R) PROVE V(KnownKeys)
  BY <1>1, <1>4
<1> QED BY <1>3, <1>4 DEF V, R

\* Whatever the event has become, verifying it with only the known keys that
\* required_keys asks for ends as verifying it with all known keys does.
THEOREM RequiredKeysAreEnough == SigSpec => []RequiredKeysSuffice
<1>1. RequiredKeysSuffice
  <2> DEFINE K == KnownKeys \cap required_keys(object, version)
             some == \E sig \in get(object, "signatures") : IsObject(sig)
             r == redact(object, version)
             bad(keys) == \E s \in servers_to_check_signatures(object, version) :
                             ~ server_verified(keys, object, r, s)
  <2>1. some => (bad(K) <=> bad(KnownKeys))
    BY SameVerified
  <2>2. CASE ~ some
    BY <2>2 DEF RequiredKeysSuffice, Verdict, verify_event
  <2>3. CASE some
    <3>1. bad(K) <=> bad(KnownKeys)
      BY <2>1, <2>3
    <3> HIDE DEF K
    <3>2. verify_event(K, object, version) = verify_event(KnownKeys, object, version)
      BY <3>1 DEF verify_event
    <3> QED BY <3>2 DEF RequiredKeysSuffice, Verdict, K
  <2> QED BY <2>2, <2>3
<1> QED BY <1>1, PTL

-----------------------------------------------------------------------------
(* Accepted events were signed. *)

\* A value under a signature set is what some server signed, or no signature.
Genuine(o, signatures) ==
    \A t : HasEntry(o, t) /\ IsObject(o["signatures"]) /\ IsObject(SetOf(o, t)) =>
        \A key \in DOMAIN SetOf(o, t).object :
            DOMAIN SetOf(o, t).object[key] = {"signature"} => SetOf(o, t).object[key] \in signatures

LEMMA GenuineSame ==
    ASSUME NEW a, NEW b, NEW S, NEW T, Genuine(a, S), SameAt(b, a, "signatures"), S \subseteq T
    PROVE  Genuine(b, T)
<1>1. \A t : SetOf(b, t) = SetOf(a, t) /\ (HasEntry(b, t) <=> HasEntry(a, t))
  BY SetOfSame DEF HasEntry, SameAt
<1>2. \A t : HasEntry(b, t) => b["signatures"] = a["signatures"]
  BY DEF HasEntry, SameAt
<1> QED BY <1>1, <1>2 DEF Genuine

\* Adding a signature.
LEMMA GenuineSigned ==
    ASSUME NEW a, NEW b, NEW S, NEW e, NEW key, NEW x, Genuine(a, S),
           HasEntry(a, e) => IsObject(a["signatures"]) /\ IsObject(SetOf(a, e)),
           SetOf(b, e) = Obj(insert(SetOf(a, e).object, key, x)),
           \A t : t # e => SetOf(b, t) = SetOf(a, t) /\ (HasEntry(b, t) <=> HasEntry(a, t)),
           \A t : HasEntry(a, t) => IsObject(a["signatures"])
    PROVE  Genuine(b, S \cup {x})
<1> DEFINE old == SetOf(a, e).object
           new == insert(old, key, x)
<1>1. DOMAIN new = DOMAIN old \cup {key} /\ new[key] = x /\ \A k \in DOMAIN old \ {key} : new[k] = old[k]
  BY DEF insert
<1> HIDE DEF new
<1>2. SetOf(b, e).object = new
  BY ObjIs DEF new
<1>3. \A k \in DOMAIN old : DOMAIN old[k] = {"signature"} => old[k] \in S
  <2>1. CASE HasEntry(a, e)
    BY <2>1 DEF Genuine
  <2>2. CASE ~ HasEntry(a, e)
    <3>1. SetOf(a, e) = Obj(Empty)
      BY <2>2, SetOfIs
    <3>2. old = Empty
      BY <3>1, ObjIs
    <3> QED BY <3>2 DEF Empty
  <2> QED BY <2>1, <2>2
<1> HIDE DEF old
<1>4. \A k \in DOMAIN new : DOMAIN new[k] = {"signature"} => new[k] \in S \cup {x}
  BY <1>1, <1>3
<1>5. ASSUME NEW t, t # e, HasEntry(b, t), IsObject(SetOf(b, t)),
             NEW k \in DOMAIN SetOf(b, t).object, DOMAIN SetOf(b, t).object[k] = {"signature"}
      PROVE  SetOf(b, t).object[k] \in S \cup {x}
  BY <1>5 DEF Genuine
<1> QED BY <1>2, <1>4, <1>5 DEF Genuine

\* Altered values hold no signatures.
LEMMA GenuineAltered ==
    ASSUME NEW o, NEW value \in Values, NEW S
    PROVE  Genuine(insert(o, "signatures", value), S)
<1> DEFINE n == insert(o, "signatures", value)
<1>1. "signatures" \in DOMAIN n /\ n["signatures"] = value
  BY DEF insert
<1> HIDE DEF n
<1>2. ASSUME NEW t, HasEntry(n, t), IsObject(n["signatures"]), IsObject(SetOf(n, t)),
             NEW key \in DOMAIN SetOf(n, t).object
      PROVE  DOMAIN SetOf(n, t).object[key] # {"signature"}
  <2>1. t \in DOMAIN value.object /\ SetOf(n, t) = value.object[t]
    BY <1>1, <1>2, SetOfIs DEF HasEntry
  <2>2. value.object[t] \in Values
    BY <1>1, <1>2, <2>1, SignaturesAssumption
  <2>3. SetOf(n, t).object[key] \in Values
    BY <1>2, <2>1, <2>2, SignaturesAssumption
  <2> QED BY <2>3, SignaturesAssumption
<1>3. Genuine(n, S)
  BY <1>2 DEF Genuine
<1> QED BY <1>3 DEF n

LEMMA GenuineEntry ==
    ASSUME NEW o, NEW value, NEW S, NEW k, Genuine(o, S), "signatures" \in DOMAIN o,
           IsObject(o["signatures"]),
           IsObject(value) => \A key \in DOMAIN value.object :
               DOMAIN value.object[key] = {"signature"} => value.object[key] \in S
    PROVE  Genuine(insert(o, "signatures", Obj(insert(o["signatures"].object, k, value))), S)
<1> DEFINE old == o["signatures"].object
           all == insert(old, k, value)
           n == insert(o, "signatures", Obj(all))
<1>1. DOMAIN all = DOMAIN old \cup {k} /\ all[k] = value /\ \A t \in DOMAIN old \ {k} : all[t] = old[t]
  BY DEF insert
<1> HIDE DEF all
<1>2. "signatures" \in DOMAIN n /\ n["signatures"] = Obj(all)
  BY DEF insert
<1> HIDE DEF n
<1>3. n["signatures"].object = all
  BY <1>2, ObjIs
<1>4. ASSUME NEW t, HasEntry(n, t), IsObject(SetOf(n, t)), NEW key \in DOMAIN SetOf(n, t).object,
             DOMAIN SetOf(n, t).object[key] = {"signature"}
      PROVE  SetOf(n, t).object[key] \in S
  <2>1. t \in DOMAIN all /\ SetOf(n, t) = all[t]
    BY <1>3, <1>4, SetOfIs DEF HasEntry
  <2>2. CASE t = k
    BY <1>1, <1>4, <2>1, <2>2
  <2>3. CASE t # k
    <3>1. HasEntry(o, t) /\ SetOf(o, t) = all[t]
      BY <1>1, <2>1, <2>3, SetOfIs DEF HasEntry
    <3> QED BY <1>4, <2>1, <3>1 DEF Genuine
  <2> QED BY <2>2, <2>3
<1>5. Genuine(n, S)
  BY <1>4 DEF Genuine
<1> QED BY <1>5 DEF n, all

-----------------------------------------------------------------------------
(* The inductive invariant. *)

\* Hashes that are an object are a function, as sets of keys and values are.
HashesAreObjects(o) ==
    "hashes" \in DOMAIN o /\ IsObject(o["hashes"]) =>
        o["hashes"] = Obj([k \in DOMAIN o["hashes"].object |-> o["hashes"].object[k]])

\* An event that readers can check.
Sound(o, v) ==
    /\ ~ redact_fails(o, v) /\ ~ PduSize(o) /\ HashReadable(o)
    /\ "signatures" \in DOMAIN o /\ IsObject(o["signatures"])

\* A server all of whose signatures are over the event as it is, but for redaction.
Current(o, v, s) ==
    /\ s \in Servers /\ HasEntry(o, s) /\ IsObject(SetOf(o, s))
    /\ DOMAIN SetOf(o, s).object # {}
    /\ \A key \in DOMAIN SetOf(o, s).object :
          key \in Signing /\ SetOf(o, s).object[key] = Signature(s, key, redact(o, v))

CleanOK(o, v, servers) == servers # {} => Sound(o, v) /\ \A s \in servers : Current(o, v, s)

SigIInv ==
    /\ SigTypeOK /\ Genuine(object, signed) /\ HashesAreObjects(object)
    /\ CleanOK(object, version, clean)

-----------------------------------------------------------------------------
(* ... its parts. *)

LEMMA SoundSame ==
    ASSUME NEW a, NEW b, NEW v, Sound(a, v), SameBut(b, a, Unsigned),
           "signatures" \in DOMAIN b, IsObject(b["signatures"])
    PROVE  Sound(b, v)
<1>1. ~ redact_fails(b, v) /\ ~ PduSize(b)
  BY SameReference DEF Sound
<1>2. get(b, "hashes") = get(a, "hashes")
  BY GetSame DEF SameBut, Unsigned
<1>3. HashReadable(b)
  BY <1>2 DEF HashReadable, Sound
<1> QED BY <1>1, <1>3 DEF Sound

LEMMA CurrentSame ==
    ASSUME NEW a, NEW b, NEW v, NEW s, Current(a, v, s),
           SetOf(b, s) = SetOf(a, s), HasEntry(b, s),
           canonical_json(redact(a, v)) = canonical_json(redact(b, v))
    PROVE  Current(b, v, s)
<1>1. \A key : Signature(s, key, redact(b, v)) = Signature(s, key, redact(a, v))
  BY DEF Signature
<1> QED BY <1>1 DEF Current

\* Hashing an event that has its hash changes nothing.
LEMMA HashedCurrent ==
    ASSUME NEW o, HashesAreObjects(o), "hashes" \in DOMAIN o, HashIsCurrent(o)
    PROVE  SameBut(Hashed(o), o, {})
<1> DEFINE h == o["hashes"]
           f == h.object
           hash == content_hash(o)
           g == insert(f, "sha256", hash)
<1>1. get(o, "hashes") = {h}
  BY GetIs
<1>2. IsObject(h) /\ get(f, "sha256") = {hash}
  BY <1>1 DEF HashIsCurrent
<1>3. "sha256" \in DOMAIN f /\ f["sha256"] = hash
  BY <1>2, GetIs
<1>4. h = Obj([k \in DOMAIN f |-> f[k]])
  BY <1>2 DEF HashesAreObjects
<1>5. Hashed(o) = insert(o, "hashes", Obj(g))
  <2>1. {x \in get(o, "hashes") : IsObject(x)} # {}
    BY <1>1, <1>2
  <2> QED BY <2>1 DEF Hashed
<1> HIDE DEF hash, h, f
<1>6. g = [k \in DOMAIN f |-> f[k]]
  <2>1. g = [k \in DOMAIN f \cup {"sha256"} |-> IF k = "sha256" THEN hash ELSE f[k]]
    BY DEF insert
  <2>2. DOMAIN f \cup {"sha256"} = DOMAIN f
    BY <1>3
  <2> QED BY <1>3, <2>1, <2>2
<1>7. Obj(g) = h
  BY <1>4, <1>6
<1> HIDE DEF g
<1> DEFINE n == Hashed(o)
<1>8. DOMAIN n = DOMAIN o \cup {"hashes"} /\ \A k \in DOMAIN n : n[k] = IF k = "hashes" THEN h ELSE o[k]
  BY <1>5, <1>7 DEF insert
<1> HIDE DEF n
<1>9. SameBut(n, o, {})
  BY <1>8 DEF SameBut, SameAt, h
<1> QED BY <1>9 DEF n

\* A long text that redaction leaves was there before.
LEMMA RedactedSize ==
    ASSUME NEW o, NEW o2, NEW v, ~ redact_fails(o, v), SameAt(o2, WithContentRedacted(o, v), "content"),
           PduSize(o2)
    PROVE  PduSize(o)
<1> DEFINE c == o["content"].object
           allowed == AllowedIn(o, v)
           kept == object_retain_keys(c, allowed)
           nested == {k \in allowed.nested \cap DOMAIN c : "signed" \in DOMAIN c[k].object}
<1>1. "content" \in DOMAIN o2 /\ IsObject(o2["content"]) /\ Str("long") \in Range(o2["content"].object)
  BY GetIs DEF PduSize
<1>2. /\ DOMAIN WithContentRedacted(o, v) = DOMAIN o
      /\ "content" \in DOMAIN o => WithContentRedacted(o, v)["content"] = RedactedContent(o, v)
  BY RedactIs
<1>3. "content" \in DOMAIN o /\ o2["content"] = Obj(kept)
  BY <1>1, <1>2 DEF SameAt, RedactedContent
<1>4. IsObject(o["content"])
  BY <1>3, GetIs DEF redact_fails
<1> HIDE DEF c, allowed
<1>5. o2["content"].object = kept
  BY <1>3, ObjIs
<1>6. PICK k \in DOMAIN kept : kept[k] = Str("long")
  BY <1>1, <1>5 DEF Range
<1>7. k \in DOMAIN c /\ c[k] = Str("long")
  <2>1. CASE allowed.all
    BY <1>6, <2>1 DEF object_retain_keys
  <2>2. CASE ~ allowed.all
    <3>1. kept = [x \in (DOMAIN c \cap allowed.keys) \cup nested |->
                     IF x \in nested THEN Obj(insert(Empty, "signed", c[x].object["signed"])) ELSE c[x]]
      BY <2>2 DEF object_retain_keys
    <3>2. k \notin nested
      <4>1. \A x : Obj(x) # Str("long")
        BY ObjIs, StrIs
      <4> QED BY <1>6, <3>1, <4>1
    <3> QED BY <1>6, <3>1, <3>2
  <2> QED BY <2>1, <2>2
<1>8. Str("long") \in Range(c)
  BY <1>7 DEF Range
<1> QED BY <1>3, <1>4, <1>8, GetIs DEF PduSize, c

\* An event after its redaction.
RedactedForm(o2, o, v) == \A k \in allowed_event_keys_for(v) : SameAt(o2, WithContentRedacted(o, v), k)

LEMMA RedactedForms ==
    ASSUME NEW o, NEW v, NEW value
    PROVE  /\ RedactedForm(redact(o, v), o, v)
           /\ RedactedForm(insert(redact(o, v), "unsigned", value), o, v)
           /\ RedactedForm(WithContentRedacted(o, v), o, v)
<1> DEFINE r == redact(o, v)
           w == WithContentRedacted(o, v)
           E == allowed_event_keys_for(v)
           u == insert(r, "unsigned", value)
<1>1. /\ DOMAIN r = DOMAIN o \cap E
      /\ \A k \in DOMAIN r : r[k] = IF k = "content" THEN RedactedContent(o, v) ELSE o[k]
      /\ DOMAIN w = DOMAIN o
      /\ \A k \in DOMAIN o : w[k] = IF k = "content" THEN RedactedContent(o, v) ELSE o[k]
  BY RedactIs
<1>2. "unsigned" \notin E
  BY EventKeys
<1>3. SameBut(u, r, {"unsigned"})
  BY InsertSame
<1> HIDE DEF r, w, E, u
<1>4. \A k \in E : SameAt(r, w, k)
  BY <1>1 DEF SameAt
<1>5. \A k \in E : SameAt(u, w, k)
  BY <1>2, <1>3, <1>4 DEF SameBut, SameAt
<1>6. \A k \in E : SameAt(w, w, k)
  BY DEF SameAt
<1> QED BY <1>4, <1>5, <1>6 DEF RedactedForm, r, w, u, E

LEMMA RedactedKeeps ==
    ASSUME NEW o, NEW o2, NEW v, ~ redact_fails(o, v), RedactedForm(o2, o, v)
    PROVE  /\ ~ redact_fails(o2, v) /\ redact(o2, v) = redact(o, v)
           /\ \A k \in {"type", "sender", "event_id", "hashes", "signatures"} : SameAt(o2, o, k)
           /\ PduSize(o2) => PduSize(o)
<1>1. ~ redact_fails(o2, v) /\ redact(o2, v) = redact(o, v)
  BY RedactAgain DEF RedactedForm
<1> DEFINE w == WithContentRedacted(o, v)
<1>2. DOMAIN w = DOMAIN o /\ \A k \in DOMAIN o : k # "content" => w[k] = o[k]
  BY RedactIs
<1>3. \A k \in {"type", "sender", "event_id", "hashes", "signatures"} : SameAt(o2, w, k)
  BY EventKeys DEF RedactedForm
<1>4. SameAt(o2, w, "content")
  BY EventKeys DEF RedactedForm
<1>5. PduSize(o2) => PduSize(o)
  BY <1>4, RedactedSize
<1> HIDE DEF w
<1>6. \A k \in {"type", "sender", "event_id", "hashes", "signatures"} : SameAt(o2, o, k)
  BY <1>2, <1>3 DEF SameAt
<1> QED BY <1>1, <1>5, <1>6

-----------------------------------------------------------------------------
(* ... and its steps. *)

LEMMA StepCounts ==
    ASSUME SigTypeOK, NEW n, NEW result, Step(n, result) \/ (Change(n) /\ result = "ok")
    PROVE  /\ steps' \in 0..MaxSteps /\ alters' \in 0..MaxAlters
           /\ object' = n /\ outcome' = result /\ version' = version /\ version \in Versions
BY SignaturesAssumption DEF SigTypeOK, Step, Change, Ends

\* The type of a signature.
TypedSignature(x) ==
    /\ x.signature.by \in Servers /\ x.signature.key \in Signing
    /\ {"signatures", "unsigned"} \cap DOMAIN x.signature.over = {}

LEMMA SignatureTyped ==
    ASSUME NEW s \in Servers, NEW key \in Signing, NEW o
    PROVE  TypedSignature(Signature(s, key, o))
<1>1. DOMAIN canonical_json(o) = DOMAIN o \ {"signatures", "unsigned"}
  BY RemoveIs DEF canonical_json
<1> QED BY <1>1, SignatureIs DEF TypedSignature

LEMMA TypeOfSigned ==
    ASSUME SigTypeOK
    PROVE  \A x \in signed : TypedSignature(x)
BY DEF SigTypeOK, TypedSignature

LEMMA NewType ==
    ASSUME version' \in Versions, outcome' \in {"ok", "err"}, clean' \subseteq Servers,
           steps' \in 0..MaxSteps, alters' \in 0..MaxAlters, \A x \in signed' : TypedSignature(x)
    PROVE  SigTypeOK'
BY DEF SigTypeOK, TypedSignature

LEMMA SignJsonStep ==
    ASSUME SigIInv, NEW s \in Servers, NEW key \in Signing, sign_json(s, key)
    PROVE  SigIInv'
<1> DEFINE new == object'
<1>1. version' = version /\ (SignJsonOk(s, key) \/ SignJsonErr)
  BY SignJsonCases
<1>2. SigTypeOK'
  <2>1. /\ steps' \in 0..MaxSteps /\ alters' \in 0..MaxAlters /\ version' \in Versions
        /\ outcome' \in {"ok", "err"}
    BY StepCounts DEF SigIInv, sign_json
  <2>2. clean' \subseteq Servers
    BY <1>1 DEF SigIInv, SigTypeOK, SignJsonOk, SignJsonErr
  <2>3. signed' \subseteq signed \cup {Signature(s, key, object)}
    BY <1>1 DEF SignJsonOk, SignJsonErr
  <2>4. \A x \in signed' : TypedSignature(x)
    BY <2>3, SignatureTyped, TypeOfSigned DEF SigIInv
  <2> QED BY <2>1, <2>2, <2>4, NewType
<1>3. CASE SignJsonErr
  <2>1. new = remove(object, {"signatures"}) \/ new = remove(object, Unsigned)
    BY <1>3 DEF SignJsonErr
  <2>2. SameBut(new, object, Unsigned) /\ "signatures" \notin DOMAIN new
    <3>1. SameBut(remove(object, {"signatures"}), object, Unsigned)
      <4>1. SameBut(remove(object, {"signatures"}), object, {"signatures"})
        BY RemoveSame
      <4>2. {"signatures"} \subseteq Unsigned
        BY DEF Unsigned
      <4> QED BY <4>1, <4>2, SameButMore
    <3>2. SameBut(remove(object, Unsigned), object, Unsigned)
      BY RemoveSame
    <3>3. "signatures" \notin DOMAIN remove(object, {"signatures"})
      BY DEF remove, Restrict
    <3>4. "signatures" \notin DOMAIN remove(object, Unsigned)
      BY DEF remove, Restrict, Unsigned
    <3> QED BY <2>1, <3>1, <3>2, <3>3, <3>4
  <2>3. clean' = {} /\ signed' = signed
    BY <1>3 DEF SignJsonErr
  <2> HIDE DEF new
  <2>4. Genuine(new, signed)
    BY <2>2 DEF Genuine, HasEntry
  <2>5. SameAt(new, object, "hashes")
    BY <2>2 DEF SameBut, Unsigned
  <2>6. HashesAreObjects(new)
    BY <2>5 DEF SigIInv, HashesAreObjects, SameAt
  <2>7. CleanOK(new, version, {})
    BY DEF CleanOK
  <2> QED BY <1>1, <1>2, <2>3, <2>4, <2>6, <2>7 DEF SigIInv, new
<1>4. CASE SignJsonOk(s, key)
  <2> DEFINE x == Signature(s, key, object)
  <2>1. /\ new = signed_json(object, s, key) /\ signed' = signed \cup {x} /\ clean' = clean \ {s}
        /\ sign_json_err(object, s) = ""
    BY <1>4 DEF SignJsonOk
  <2>2. /\ SameBut(new, object, {"signatures"})
        /\ "signatures" \in DOMAIN new /\ IsObject(new["signatures"])
        /\ SetOf(new, s) = Obj(insert(SetOf(object, s).object, key, x))
        /\ \A t : t # s => /\ SetOf(new, t) = SetOf(object, t)
                           /\ HasEntry(new, t) <=> HasEntry(object, t)
    BY <2>1, SignedJsonIs
  <2>3. /\ \A t : HasEntry(object, t) => IsObject(object["signatures"])
        /\ IsObject(SetOf(object, s))
    BY <2>1, GetIs DEF sign_json_err, HasEntry
  <2> HIDE DEF new, x
  <2>4. Genuine(new, signed \cup {x})
    BY <2>2, <2>3, GenuineSigned DEF SigIInv
  <2>5. SameBut(new, object, Unsigned)
    BY <2>2 DEF SameBut, Unsigned
  <2>6. SameAt(new, object, "hashes")
    BY <2>2 DEF SameBut
  <2>7. HashesAreObjects(new)
    BY <2>6 DEF SigIInv, HashesAreObjects, SameAt
  <2>8. CleanOK(new, version, clean \ {s})
    <3> SUFFICES ASSUME NEW t \in clean \ {s}
                 PROVE  Sound(new, version) /\ Current(new, version, t)
      BY DEF CleanOK
    <3>1. Sound(object, version) /\ Current(object, version, t)
      BY DEF SigIInv, CleanOK
    <3>2. Sound(new, version)
      BY <2>2, <2>5, <3>1, SoundSame
    <3>3. canonical_json(redact(object, version)) = canonical_json(redact(new, version))
      BY <2>5, SameReference
    <3>4. SetOf(new, t) = SetOf(object, t) /\ HasEntry(new, t)
      BY <2>2, <3>1 DEF Current
    <3> QED BY <3>1, <3>2, <3>3, <3>4, CurrentSame
  <2> QED BY <1>1, <1>2, <2>1, <2>4, <2>7, <2>8 DEF SigIInv, new, x
<1> QED BY <1>1, <1>3, <1>4

LEMMA HashedObjects ==
    ASSUME NEW o
    PROVE  HashesAreObjects(Hashed(o)) /\ HashReadable(Hashed(o))
<1> DEFINE f == IF {h \in get(o, "hashes") : IsObject(h)} = {} THEN Empty ELSE o["hashes"].object
           hash == content_hash(o)
           g == insert(f, "sha256", hash)
           n == insert(o, "hashes", Obj(g))
<1>1. Hashed(o) = n
  BY DEF Hashed
<1>2. DOMAIN hash = {"hash"}
  BY DEF content_hash
<1> HIDE DEF f, hash
<1>3. g = [k \in DOMAIN g |-> g[k]] /\ "sha256" \in DOMAIN g /\ g["sha256"] = hash
  BY DEF insert
<1> HIDE DEF g
<1>4. "hashes" \in DOMAIN n /\ n["hashes"] = Obj(g)
  BY DEF insert
<1> HIDE DEF n
<1>5. IsObject(n["hashes"]) /\ n["hashes"].object = g
  BY <1>4, ObjIs
<1>6. HashesAreObjects(n)
  BY <1>3, <1>4, <1>5 DEF HashesAreObjects
<1>7. HashReadable(n)
  BY <1>2, <1>3, <1>4, <1>5, GetIs DEF HashReadable
<1> QED BY <1>1, <1>6, <1>7

\* What Still leaves clean is as clean once hashed.
LEMMA StillClean ==
    ASSUME SigIInv, NEW t \in Still
    PROVE  /\ SameBut(Hashed(object), object, {}) /\ Current(object, version, t)
           /\ Sound(object, version)
<1>1. HashIsCurrent(object) /\ t \in clean
  BY DEF Still
<1>2. Sound(object, version) /\ Current(object, version, t)
  BY <1>1 DEF SigIInv, CleanOK
<1>3. "hashes" \in DOMAIN object
  BY <1>2, GetIs DEF Sound, HashReadable
<1> QED BY <1>1, <1>2, <1>3, HashedCurrent DEF SigIInv

\* A hashed and signed event can be checked, and what was signed is the event
\* as it now is, but for redaction.
LEMMA HashOkSound ==
    ASSUME NEW s, NEW key, HashOk(s, key)
    PROVE  /\ Sound(object', version) /\ HashesAreObjects(object')
           /\ canonical_json(redact(object', version))
                 = canonical_json(redact(Hashed(object), version))
<1> DEFINE new == object'
           h == Hashed(object)
<1>1. ~ PduSize(object) /\ ~ redact_fails(h, version)
  BY DEF HashOk
<1>2. HashesAreObjects(h) /\ HashReadable(h)
  BY HashedObjects
<1>3. /\ SameBut(new, h, {"signatures"}) /\ SameBut(new, object, {"hashes", "signatures"})
      /\ "signatures" \in DOMAIN new /\ IsObject(new["signatures"])
  BY HashOkIs
<1> HIDE DEF new, h
<1>4. SameAt(new, h, "hashes") /\ SameBut(new, h, Unsigned)
  BY <1>3 DEF SameBut, Unsigned
<1>5. get(new, "hashes") = get(h, "hashes")
  BY <1>4, GetSame
<1>6. HashesAreObjects(new) /\ HashReadable(new)
  BY <1>2, <1>4, <1>5 DEF HashesAreObjects, SameAt, HashReadable
<1>7. /\ canonical_json(redact(new, version)) = canonical_json(redact(h, version))
      /\ ~ redact_fails(new, version)
  BY <1>1, <1>4, SameReference
<1>8. SameAt(new, object, "content")
  BY <1>3 DEF SameBut
<1>9. ~ PduSize(new)
  BY <1>1, <1>8, PduSame
<1>10. Sound(new, version)
  BY <1>3, <1>6, <1>7, <1>9 DEF Sound
<1> QED BY <1>6, <1>7, <1>10 DEF new, h

LEMMA HashStep ==
    ASSUME SigIInv, NEW s \in Servers, NEW key \in Signing, hash_and_sign_event(s, key)
    PROVE  SigIInv'
<1> DEFINE new == object'
           h == Hashed(object)
           r == redact(h, version)
           x == Signature(s, key, r)
<1>1. version' = version /\ (HashOk(s, key) \/ HashErr)
  BY HashCases
<1>2. SigTypeOK'
  <2>1. /\ steps' \in 0..MaxSteps /\ alters' \in 0..MaxAlters /\ version' \in Versions
        /\ outcome' \in {"ok", "err"}
    BY StepCounts DEF SigIInv, hash_and_sign_event
  <2>2. clean' \subseteq Servers
    BY <1>1 DEF SigIInv, SigTypeOK, HashOk, HashErr, Still
  <2>3. signed' \subseteq signed \cup {x}
    BY <1>1 DEF HashOk, HashErr
  <2>4. \A y \in signed' : TypedSignature(y)
    BY <2>3, SignatureTyped, TypeOfSigned DEF SigIInv
  <2> QED BY <2>1, <2>2, <2>4, NewType
<1>3. HashesAreObjects(h) /\ HashReadable(h) /\ SameBut(h, object, {"hashes"})
  BY HashedObjects, HashedSame
<1>4. CASE HashErr /\ new = object
  <2>1. signed' = signed /\ (clean' = clean \/ clean' = Still)
    BY <1>4 DEF HashErr
  <2>2. clean' \subseteq clean
    BY <2>1 DEF Still
  <2>3. CleanOK(object, version, clean')
    BY <2>2 DEF SigIInv, CleanOK
  <2> QED BY <1>1, <1>2, <1>4, <2>1, <2>3 DEF SigIInv
<1>5. CASE HashErr /\ new = h /\ clean' = Still
  <2>1. signed' = signed
    BY <1>5 DEF HashErr
  <2>2. SameAt(h, object, "signatures")
    BY <1>3 DEF SameBut
  <2>3. Genuine(h, signed)
    BY <2>2, GenuineSame DEF SigIInv
  <2>4. CleanOK(h, version, Still)
    <3> SUFFICES ASSUME NEW t \in Still PROVE Sound(h, version) /\ Current(h, version, t)
      BY DEF CleanOK
    <3>1. SameBut(h, object, {}) /\ Current(object, version, t) /\ Sound(object, version)
      BY StillClean
    <3> HIDE DEF h
    <3>2. SameBut(h, object, Unsigned)
      BY <3>1 DEF SameBut
    <3>3. "signatures" \in DOMAIN h /\ IsObject(h["signatures"])
      BY <2>2, <3>1 DEF Sound, SameAt
    <3>4. Sound(h, version)
      BY <3>1, <3>2, <3>3, SoundSame
    <3>5. canonical_json(redact(object, version)) = canonical_json(redact(h, version))
      BY <3>2, SameReference
    <3>6. SetOf(h, t) = SetOf(object, t) /\ HasEntry(h, t)
      BY <2>2, <3>1, SetOfSame DEF Current, HasEntry, SameAt
    <3> QED BY <3>1, <3>4, <3>5, <3>6, CurrentSame
  <2> HIDE DEF h
  <2> QED BY <1>1, <1>2, <1>3, <1>5, <2>1, <2>3, <2>4 DEF SigIInv
<1>6. CASE HashOk(s, key)
  <2>1. /\ signed' = signed \cup {x}
        /\ clean' = Still \cup {t \in {s} : DOMAIN SetOf(object, t).object \subseteq {key}}
        /\ ~ PduSize(object) /\ ~ redact_fails(h, version) /\ sign_json_err(r, s) = ""
    BY <1>6 DEF HashOk
  <2>2. /\ SameBut(new, h, {"signatures"})
        /\ SameBut(new, object, {"hashes", "signatures"})
        /\ "signatures" \in DOMAIN new /\ IsObject(new["signatures"])
        /\ HasEntry(new, s)
        /\ SetOf(new, s) = Obj(insert(SetOf(object, s).object, key, x))
        /\ \A t : t # s => /\ SetOf(new, t) = SetOf(object, t)
                           /\ HasEntry(new, t) <=> HasEntry(object, t)
    BY <1>6, HashOkIs
  <2>3. SameAt(r, object, "signatures")
    BY HashedSame
  <2>4. /\ \A t : HasEntry(object, t) => IsObject(object["signatures"])
        /\ IsObject(SetOf(object, s))
    <3>1. /\ \A t : HasEntry(r, t) => IsObject(r["signatures"])
          /\ IsObject(SetOf(r, s))
      BY <2>1, GetIs DEF sign_json_err, HasEntry
    <3> QED BY <2>3, <3>1, SetOfSame DEF HasEntry, SameAt
  <2>5. Genuine(new, signed \cup {x})
    <3> HIDE DEF new, x
    <3> QED BY <2>2, <2>4, GenuineSigned DEF SigIInv
  <2>6. /\ Sound(new, version) /\ HashesAreObjects(new)
        /\ canonical_json(redact(new, version)) = canonical_json(r)
    BY <1>6, HashOkSound
  <2>7. ASSUME NEW t \in Still
         PROVE  /\ Current(object, version, t)
                /\ \A k : Signature(t, k, redact(new, version)) = Signature(t, k, redact(object, version))
    <3>1. SameBut(h, object, {}) /\ Current(object, version, t)
      BY StillClean
    <3> HIDE DEF new, h
    <3>2. SameBut(h, object, Unsigned)
      BY <3>1 DEF SameBut
    <3>3. canonical_json(r) = canonical_json(redact(object, version))
      BY <3>2, SameReference
    <3>4. \A k : Signature(t, k, redact(new, version)) = Signature(t, k, redact(object, version))
      BY <2>6, <3>3 DEF Signature
    <3> QED BY <3>1, <3>4
  <2>8. ASSUME NEW t \in Still, t # s PROVE Current(new, version, t)
    <3> HIDE DEF new
    <3>1. SetOf(new, t) = SetOf(object, t) /\ HasEntry(new, t)
      BY <2>2, <2>7, <2>8 DEF Current
    <3> QED BY <2>7, <2>8, <3>1 DEF Current
  <2>9. ASSUME s \in Still \/ DOMAIN SetOf(object, s).object \subseteq {key}
         PROVE  Current(new, version, s)
    <3> HIDE DEF new, h
    <3> DEFINE old == SetOf(object, s).object
               set == insert(old, key, x)
    <3>1. x = Signature(s, key, redact(new, version))
      BY <2>6 DEF Signature
    <3>2. DOMAIN set = DOMAIN old \cup {key} /\ set[key] = x /\ \A k \in DOMAIN old \ {key} : set[k] = old[k]
      BY DEF insert
    <3> HIDE DEF set, x
    <3>3. IsObject(SetOf(new, s)) /\ SetOf(new, s).object = set
      BY <2>2, ObjIs DEF set
    <3>4. \A k \in DOMAIN old \ {key} : k \in Signing /\ old[k] = Signature(s, k, redact(new, version))
      <4>1. CASE s \in Still
        BY <2>7, <4>1 DEF Current
      <4>2. CASE DOMAIN old \subseteq {key}
        BY <4>2
      <4> QED BY <2>9, <4>1, <4>2
    <3> HIDE DEF old
    <3>5. \A k \in DOMAIN set : k \in Signing /\ set[k] = Signature(s, k, redact(new, version))
      BY <3>1, <3>2, <3>4
    <3>6. DOMAIN set # {}
      BY <3>2
    <3> QED BY <2>2, <3>3, <3>5, <3>6 DEF Current
  <2>10. \A t \in clean' : Current(new, version, t)
    <3> HIDE DEF new
    <3> QED BY <2>1, <2>8, <2>9
  <2>11. CleanOK(new, version, clean')
    BY <2>6, <2>10 DEF CleanOK
  <2> HIDE DEF x, h, r
  <2> QED BY <1>1, <1>2, <2>1, <2>5, <2>6, <2>11 DEF SigIInv
<1> QED BY <1>1, <1>4, <1>5, <1>6 DEF HashErr

\* Redaction, as the invariant sees it.
Redacts ==
    /\ signed' = signed /\ clean' = clean /\ version' = version /\ alters' = alters
    /\ \/ redact_fails(object, version) /\ object' = LeftByFailure(object, version)
       \/ ~ redact_fails(object, version) /\ RedactedForm(object', object, version)

LEMMA RedactCases ==
    ASSUME (\E because \in BOOLEAN : redact_in_place(because)) \/ redact_content_in_place
    PROVE  Redacts
<1> DEFINE new == object'
           value == Obj(insert(Empty, "redacted_because", Obj(Empty)))
<1>1. /\ signed' = signed /\ clean' = clean /\ version' = version /\ alters' = alters
      /\ \/ redact_fails(object, version) /\ new = LeftByFailure(object, version)
         \/ /\ ~ redact_fails(object, version)
            /\ \/ new = redact(object, version)
               \/ new = insert(redact(object, version), "unsigned", value)
               \/ new = WithContentRedacted(object, version)
  BY DEF redact_in_place, redact_content_in_place, Step, Ends
<1> HIDE DEF new, value
<1> QED BY <1>1, RedactedForms DEF Redacts, new

LEMMA KeepsRest ==
    ASSUME SigIInv, NEW new, SameAt(new, object, "signatures"), SameAt(new, object, "hashes")
    PROVE  Genuine(new, signed) /\ HashesAreObjects(new)
<1>1. Genuine(new, signed)
  BY GenuineSame DEF SigIInv
<1> QED BY <1>1 DEF SigIInv, HashesAreObjects, SameAt

LEMMA RedactStep ==
    ASSUME SigIInv, (\E because \in BOOLEAN : redact_in_place(because)) \/ redact_content_in_place
    PROVE  SigIInv'
<1> DEFINE new == object'
<1>1. /\ signed' = signed /\ clean' = clean /\ version' = version
      /\ \/ redact_fails(object, version) /\ new = LeftByFailure(object, version)
         \/ ~ redact_fails(object, version) /\ RedactedForm(new, object, version)
  BY RedactCases DEF Redacts
<1>2. SigTypeOK'
  <2>1. /\ steps' \in 0..MaxSteps /\ alters' \in 0..MaxAlters /\ version' \in Versions
        /\ outcome' \in {"ok", "err"}
    BY StepCounts DEF SigIInv, redact_in_place, redact_content_in_place
  <2> QED BY <1>1, <2>1, NewType, TypeOfSigned DEF SigIInv, SigTypeOK
<1> HIDE DEF new
<1>3. CASE redact_fails(object, version) /\ new = LeftByFailure(object, version)
  <2>1. clean = {}
    BY <1>3 DEF SigIInv, CleanOK, Sound
  <2>2. SameBut(new, object, {"content"})
    <3>1. new = object \/ new = insert(object, "content", Obj(Empty))
      BY <1>3 DEF LeftByFailure
    <3>2. SameBut(object, object, {"content"})
      BY DEF SameBut, SameAt
    <3> QED BY <3>1, <3>2, InsertSame
  <2>3. SameAt(new, object, "signatures") /\ SameAt(new, object, "hashes")
    BY <2>2 DEF SameBut
  <2>4. Genuine(new, signed) /\ HashesAreObjects(new)
    BY <2>3, KeepsRest
  <2>5. CleanOK(new, version, clean)
    BY <2>1 DEF CleanOK
  <2> QED BY <1>1, <1>2, <2>4, <2>5 DEF SigIInv, new
<1>4. CASE ~ redact_fails(object, version) /\ RedactedForm(new, object, version)
  <2>1. /\ ~ redact_fails(new, version) /\ redact(new, version) = redact(object, version)
        /\ SameAt(new, object, "hashes") /\ SameAt(new, object, "signatures")
        /\ PduSize(new) => PduSize(object)
    BY <1>4, RedactedKeeps
  <2>2. Genuine(new, signed) /\ HashesAreObjects(new)
    BY <2>1, KeepsRest
  <2>3. CleanOK(new, version, clean)
    <3> SUFFICES ASSUME NEW t \in clean PROVE Sound(new, version) /\ Current(new, version, t)
      BY DEF CleanOK
    <3>1. Sound(object, version) /\ Current(object, version, t)
      BY DEF SigIInv, CleanOK
    <3>2. get(new, "hashes") = get(object, "hashes")
      BY <2>1, GetSame
    <3>3. Sound(new, version)
      BY <2>1, <3>1, <3>2 DEF Sound, HashReadable, SameAt
    <3>4. SetOf(new, t) = SetOf(object, t) /\ HasEntry(new, t)
      BY <2>1, <3>1, SetOfSame DEF Current, HasEntry, SameAt
    <3> QED BY <2>1, <3>1, <3>3, <3>4, CurrentSame
  <2> QED BY <1>1, <1>2, <2>2, <2>3 DEF SigIInv, new
<1> QED BY <1>1, <1>3, <1>4

LEMMA SetUnsignedStep ==
    ASSUME SigIInv, SetUnsigned
    PROVE  SigIInv'
<1> DEFINE value == Obj(insert(Empty, "age", Num))
           new == insert(object, "unsigned", value)
<1>1. Step(new, "ok") /\ signed' = signed /\ clean' = clean
  BY DEF SetUnsigned
<1>2. /\ steps' \in 0..MaxSteps /\ alters' \in 0..MaxAlters /\ version' = version
      /\ outcome' = "ok" /\ object' = new /\ version \in Versions
  BY <1>1, StepCounts DEF SigIInv
<1>3. SigTypeOK'
  BY <1>1, <1>2, NewType, TypeOfSigned DEF SigIInv, SigTypeOK
<1>4. SameBut(new, object, {"unsigned"})
  BY InsertSame
<1> HIDE DEF new
<1>5. /\ SameAt(new, object, "signatures") /\ SameAt(new, object, "hashes")
      /\ SameBut(new, object, Unsigned)
  BY <1>4 DEF SameBut, Unsigned
<1>6. Genuine(new, signed) /\ HashesAreObjects(new)
  BY <1>5, KeepsRest
<1>7. CleanOK(new, version, clean)
  <2> SUFFICES ASSUME NEW t \in clean PROVE Sound(new, version) /\ Current(new, version, t)
    BY DEF CleanOK
  <2>1. Sound(object, version) /\ Current(object, version, t)
    BY DEF SigIInv, CleanOK
  <2>2. "signatures" \in DOMAIN new /\ IsObject(new["signatures"])
    BY <1>5, <2>1 DEF Sound, SameAt
  <2>3. Sound(new, version)
    BY <1>5, <2>1, <2>2, SoundSame
  <2>4. SetOf(new, t) = SetOf(object, t) /\ HasEntry(new, t)
    BY <1>5, <2>1, SetOfSame DEF Current, HasEntry, SameAt
  <2>5. canonical_json(redact(object, version)) = canonical_json(redact(new, version))
    BY <1>5, SameReference
  <2> QED BY <2>1, <2>3, <2>4, <2>5, CurrentSame
<1> QED BY <1>1, <1>2, <1>3, <1>6, <1>7 DEF SigIInv

\* Changes that make nobody's signature current.
LEMMA ChangeStep ==
    ASSUME SigIInv, NEW new, Change(new), clean' = {}, signed' = signed,
           Genuine(new, signed), HashesAreObjects(new)
    PROVE  SigIInv'
<1>1. /\ steps' \in 0..MaxSteps /\ alters' \in 0..MaxAlters /\ version' = version
      /\ outcome' = "ok" /\ object' = new /\ version \in Versions
  BY StepCounts DEF SigIInv
<1>2. SigTypeOK'
  BY <1>1, NewType, TypeOfSigned DEF SigIInv, SigTypeOK
<1> QED BY <1>1, <1>2 DEF SigIInv, CleanOK

LEMMA HashesInserted ==
    ASSUME NEW o, NEW f, NEW k, NEW value
    PROVE  HashesAreObjects(insert(o, "hashes", Obj(insert(f, k, value))))
<1> DEFINE g == insert(f, k, value)
           n == insert(o, "hashes", Obj(g))
<1>1. g = [x \in DOMAIN g |-> g[x]]
  BY DEF insert
<1> HIDE DEF g
<1>2. n["hashes"] = Obj(g)
  BY DEF insert
<1> HIDE DEF n
<1>3. n["hashes"].object = g
  BY <1>2, ObjIs
<1>4. HashesAreObjects(n)
  BY <1>1, <1>2, <1>3 DEF HashesAreObjects
<1> QED BY <1>4 DEF n, g

LEMMA AlterStep ==
    ASSUME SigIInv, Alter
    PROVE  SigIInv'
<1>1. clean' = {} /\ signed' = signed
  BY DEF Alter
<1>2. ASSUME NEW f \in DOMAIN object, NEW value \in Values, Change(insert(object, f, value))
      PROVE  SigIInv'
  <2> DEFINE new == insert(object, f, value)
  <2>1. SameBut(new, object, {f})
    BY InsertSame
  <2>2. f # "signatures" => SameAt(new, object, "signatures")
    BY <2>1 DEF SameBut
  <2>3. f # "hashes" => SameAt(new, object, "hashes")
    BY <2>1 DEF SameBut
  <2>4. f = "signatures" => Genuine(new, signed)
    BY GenuineAltered
  <2>5. f = "hashes" => HashesAreObjects(new)
    <3> SUFFICES ASSUME f = "hashes" PROVE HashesAreObjects(new)
      OBVIOUS
    <3>1. new["hashes"] = value
      BY DEF insert
    <3> HIDE DEF new
    <3>2. IsObject(value) => value = Obj(value.object) /\ value.object \in [DOMAIN value.object -> Values]
      BY SignaturesAssumption
    <3>3. IsObject(value) => value.object = [k \in DOMAIN value.object |-> value.object[k]]
      BY <3>2
    <3> QED BY <3>1, <3>2, <3>3 DEF HashesAreObjects
  <2> HIDE DEF new
  <2>6. Genuine(new, signed)
    BY <2>2, <2>4, GenuineSame DEF SigIInv
  <2>7. HashesAreObjects(new)
    BY <2>3, <2>5 DEF SigIInv, HashesAreObjects, SameAt
  <2> QED BY <1>1, <1>2, <2>6, <2>7, ChangeStep DEF new
<1>3. ASSUME NEW f \in DOMAIN object, Change(remove(object, {f}))
      PROVE  SigIInv'
  <2> DEFINE new == remove(object, {f})
  <2>1. SameBut(new, object, {f})
    BY RemoveSame
  <2>2. f \notin DOMAIN new
    BY DEF remove, Restrict
  <2> HIDE DEF new
  <2>3. Genuine(new, signed)
    <3>1. CASE f = "signatures"
      BY <2>2, <3>1 DEF Genuine, HasEntry
    <3>2. CASE f # "signatures"
      <4>1. SameAt(new, object, "signatures")
        BY <2>1, <3>2 DEF SameBut
      <4> QED BY <4>1, GenuineSame DEF SigIInv
    <3> QED BY <3>1, <3>2
  <2>4. HashesAreObjects(new)
    <3>1. f # "hashes" => SameAt(new, object, "hashes")
      BY <2>1 DEF SameBut
    <3> QED BY <2>2, <3>1 DEF SigIInv, HashesAreObjects, SameAt
  <2> QED BY <1>1, <1>3, <2>3, <2>4, ChangeStep DEF new
<1>4. ASSUME NEW f \in DOMAIN object, IsObject(object[f]), NEW k \in DOMAIN object[f].object,
             NEW value \in Values, Change(insert(object, f, Obj(insert(object[f].object, k, value))))
      PROVE  SigIInv'
  <2> DEFINE new == insert(object, f, Obj(insert(object[f].object, k, value)))
  <2>1. SameBut(new, object, {f})
    BY InsertSame
  <2>2. f # "signatures" => SameAt(new, object, "signatures")
    BY <2>1 DEF SameBut
  <2>3. f # "hashes" => SameAt(new, object, "hashes")
    BY <2>1 DEF SameBut
  <2>4. f = "signatures" => Genuine(new, signed)
    <3>1. IsObject(value) => \A key \in DOMAIN value.object : value.object[key] \in Values
      BY SignaturesAssumption
    <3>2. IsObject(value) => \A key \in DOMAIN value.object : DOMAIN value.object[key] # {"signature"}
      BY <3>1, SignaturesAssumption
    <3> QED BY <1>4, <3>2, GenuineEntry DEF SigIInv
  <2>5. f = "hashes" => HashesAreObjects(new)
    BY HashesInserted
  <2> HIDE DEF new
  <2>6. Genuine(new, signed)
    BY <2>2, <2>4, GenuineSame DEF SigIInv
  <2>7. HashesAreObjects(new)
    BY <2>3, <2>5 DEF SigIInv, HashesAreObjects, SameAt
  <2> QED BY <1>1, <1>4, <2>6, <2>7, ChangeStep DEF new
<1> QED BY <1>2, <1>3, <1>4 DEF Alter

LEMMA AttachStep ==
    ASSUME SigIInv, Attach
    PROVE  SigIInv'
<1>1. clean' = {} /\ signed' = signed
  BY DEF Attach
<1>2. ASSUME NEW s \in Servers, NEW key \in KeyIds,
             "signatures" \in DOMAIN object, IsObject(object["signatures"]), IsObject(SetOf(object, s)),
             Change(insert(object, "signatures", Obj(insert(object["signatures"].object, s,
                          Obj(insert(SetOf(object, s).object, key, Str("long")))))))
      PROVE  SigIInv'
  <2> DEFINE old == SetOf(object, s).object
             set == insert(old, key, Str("long"))
             new == insert(object, "signatures", Obj(insert(object["signatures"].object, s, Obj(set))))
  <2>1. /\ DOMAIN set = DOMAIN old \cup {key} /\ set[key] = Str("long")
        /\ \A k \in DOMAIN old \ {key} : set[k] = old[k]
    BY DEF insert
  <2>2. \A k \in DOMAIN old : DOMAIN old[k] = {"signature"} => old[k] \in signed
    <3>1. CASE HasEntry(object, s)
      BY <1>2, <3>1 DEF SigIInv, Genuine
    <3>2. CASE ~ HasEntry(object, s)
      <4>1. SetOf(object, s) = Obj(Empty)
        BY <3>2, SetOfIs
      <4>2. old = Empty
        BY <4>1, ObjIs
      <4> QED BY <4>2 DEF Empty
    <3> QED BY <3>1, <3>2
  <2> HIDE DEF set, old
  <2>3. \A k \in DOMAIN set : DOMAIN set[k] = {"signature"} => set[k] \in signed
    BY <2>1, <2>2, StrIs
  <2>4. Genuine(new, signed)
    <3>1. Obj(set).object = set
      BY ObjIs
    <3> QED BY <1>2, <2>3, <3>1, GenuineEntry DEF SigIInv
  <2>5. SameBut(new, object, {"signatures"})
    BY InsertSame
  <2>6. Change(new)
    BY <1>2 DEF set, old
  <2> HIDE DEF new
  <2>7. SameAt(new, object, "hashes")
    BY <2>5 DEF SameBut
  <2>8. HashesAreObjects(new)
    BY <2>7 DEF SigIInv, HashesAreObjects, SameAt
  <2> QED BY <1>1, <2>4, <2>6, <2>8, ChangeStep
<1>3. ASSUME Change(insert(object, "hashes", Obj(insert(Empty, "sha256", content_hash(object)))))
      PROVE  SigIInv'
  <2> DEFINE new == insert(object, "hashes", Obj(insert(Empty, "sha256", content_hash(object))))
  <2>1. HashesAreObjects(new)
    BY HashesInserted
  <2>2. SameBut(new, object, {"hashes"})
    BY InsertSame
  <2> HIDE DEF new
  <2>3. SameAt(new, object, "signatures")
    BY <2>2 DEF SameBut
  <2>4. Genuine(new, signed)
    BY <2>3, GenuineSame DEF SigIInv
  <2> QED BY <1>1, <1>3, <2>1, <2>4, ChangeStep DEF new
<1> QED BY <1>2, <1>3, GetIs DEF Attach

LEMMA SigInitOK ==
    ASSUME SigInit
    PROVE  SigIInv
<1>1. "hashes" \notin DOMAIN object /\ "signatures" \notin DOMAIN object
  BY SignaturesAssumption DEF SigInit
<1>2. SigTypeOK
  BY SignaturesAssumption DEF SigInit, SigTypeOK
<1> QED BY <1>1, <1>2 DEF SigInit, SigIInv, Genuine, HasEntry, HashesAreObjects, CleanOK

LEMMA SigStutter ==
    ASSUME SigIInv, UNCHANGED sigVars
    PROVE  SigIInv'
<1>1. /\ object' = object /\ version' = version /\ signed' = signed /\ clean' = clean
      /\ steps' = steps /\ alters' = alters /\ outcome' = outcome
  BY DEF sigVars
<1>2. SigTypeOK'
  BY <1>1 DEF SigIInv, SigTypeOK
<1> QED BY <1>1, <1>2 DEF SigIInv

\* In every history of an event: each signature in it was made by the server it
\* names, and a server counted as having hashed and signed the event as it is
\* has current signatures only.
THEOREM SigInvariant == SigSpec => []SigIInv
<1>1. SigInit => SigIInv
  BY SigInitOK
<1>2. SigIInv /\ [SigNext]_sigVars => SigIInv'
  <2> SUFFICES ASSUME SigIInv, [SigNext]_sigVars PROVE SigIInv'
    OBVIOUS
  <2>1. ASSUME NEW s \in Servers, NEW key \in Signing, sign_json(s, key) \/ hash_and_sign_event(s, key)
        PROVE  SigIInv'
    BY <2>1, SignJsonStep, HashStep
  <2>2. CASE (\E because \in BOOLEAN : redact_in_place(because)) \/ redact_content_in_place
    BY <2>2, RedactStep
  <2>3. CASE SetUnsigned
    BY <2>3, SetUnsignedStep
  <2>4. CASE Alter
    BY <2>4, AlterStep
  <2>5. CASE Attach
    BY <2>5, AttachStep
  <2>6. CASE UNCHANGED sigVars
    BY <2>6, SigStutter
  <2> QED BY <2>1, <2>2, <2>3, <2>4, <2>5, <2>6 DEF SigNext
<1> QED BY <1>1, <1>2, PTL DEF SigSpec

-----------------------------------------------------------------------------
(* What readers conclude. *)

\* The conditions under which verify_event accepts.
Acceptable(o) ==
    /\ Sound(o, version) /\ ~ servers_fail(o, version) /\ version # 12
    /\ \A s \in servers_to_check_signatures(o, version) :
          server_verified(KnownKeys, o, redact(o, version), s)

HashMatches(o) == o["hashes"].object["sha256"] = content_hash(o)

LEMMA VerdictIs ==
    ASSUME NEW o
    PROVE  /\ Verdict(o) \in Accepted <=> Acceptable(o)
           /\ Verdict(o) = "All" <=> Acceptable(o) /\ HashMatches(o)
<1>1. (\E sig \in get(o, "signatures") : IsObject(sig))
         <=> "signatures" \in DOMAIN o /\ IsObject(o["signatures"])
  BY GetIs
<1>2. DOMAIN content_hash(o) = {"hash"}
  BY DEF content_hash
<1>3. HashMatches(o) <=> /\ DOMAIN o["hashes"].object["sha256"] = {"hash"}
                         /\ o["hashes"].object["sha256"] = content_hash(o)
  BY <1>2 DEF HashMatches
<1> DEFINE bad == redact_fails(o, version) \/ ~ HashReadable(o) \/ servers_fail(o, version)
                  \/ ~ (\E sig \in get(o, "signatures") : IsObject(sig))
           unverified == \E s \in servers_to_check_signatures(o, version) :
                            ~ server_verified(KnownKeys, o, redact(o, version), s)
<1>4. Acceptable(o) <=> ~ bad /\ version # 12 /\ ~ unverified /\ ~ PduSize(o)
  BY <1>1 DEF Acceptable, Sound
<1>5. Verdict(o) = IF bad THEN "err" ELSE IF version = 12 THEN "panic"
                   ELSE IF unverified THEN "err" ELSE IF PduSize(o) THEN "err"
                   ELSE IF HashMatches(o) THEN "All" ELSE "Signatures"
  BY <1>3 DEF Verdict, verify_event, Unimplemented
<1> HIDE DEF bad, unverified
<1> QED BY <1>4, <1>5 DEF Accepted

\* A server whose signatures verify did sign the event, up to redaction.
LEMMA VerifiedWasSigned ==
    ASSUME NEW o, NEW S, NEW r, NEW s, Genuine(o, S), "signatures" \in DOMAIN o,
           IsObject(o["signatures"]), server_verified(KnownKeys, o, r, s)
    PROVE  \E sig \in S : sig.signature.by = s /\ sig.signature.over = canonical_json(r)
<1> DEFINE set == SetOf(o, s).object
<1>1. /\ s \in DOMAIN o["signatures"].object /\ IsObject(SetOf(o, s))
      /\ \E key \in DOMAIN set : verify_json_with(s, key, set[key], r)
  BY DEF server_verified
<1>2. PICK key \in DOMAIN set : verify_json_with(s, key, set[key], r)
  BY <1>1
<1>3. DOMAIN set[key] = {"signature"} /\ set[key] = Signature(s, key, r)
  BY <1>2 DEF verify_json_with
<1>4. HasEntry(o, s)
  BY <1>1 DEF HasEntry
<1>5. set[key] \in S
  BY <1>1, <1>3, <1>4 DEF Genuine
<1> HIDE DEF set
<1> QED BY <1>3, <1>5, SignatureIs

\* What is signed holds the event's hashes.
LEMMA HashesSigned ==
    ASSUME NEW o, NEW v, "hashes" \in DOMAIN o
    PROVE  canonical_json(redact(o, v))["hashes"] = o["hashes"]
<1> DEFINE r == redact(o, v)
<1>1. "hashes" \in DOMAIN r /\ r["hashes"] = o["hashes"]
  BY RedactIs, EventKeys
<1> HIDE DEF r
<1>2. canonical_json(r)["hashes"] = r["hashes"]
  <2>1. "hashes" \in DOMAIN r \ {"signatures", "unsigned"}
    BY <1>1
  <2> QED BY <2>1, RemoveIs DEF canonical_json
<1> QED BY <1>1, <1>2 DEF r

\* For any number of servers, keys and steps, and whatever was altered on the
\* way: an accepted event was signed by every server verify_event asks for, up
\* to redaction, and with the content hash that is there if the verdict is All.
THEOREM AcceptedAreSigned == SigSpec => []AcceptedWasSigned
<1>1. SigIInv => AcceptedWasSigned
  <2> SUFFICES ASSUME SigIInv PROVE AcceptedWasSigned
    OBVIOUS
  <2>1. SigTypeOK /\ Genuine(object, signed)
    BY DEF SigIInv
  <2>2. ASSUME Verdict(object) \in Accepted,
               NEW s \in servers_to_check_signatures(object, version)
        PROVE  \E sig \in signed :
                  /\ sig.signature.by = s
                  /\ sig.signature.over = canonical_json(redact(object, version))
                  /\ Verdict(object) = "All" =>
                        sig.signature.over["hashes"].object["sha256"] = content_hash(object)
    <3>1. Acceptable(object)
      BY <2>2, VerdictIs
    <3>2. /\ "signatures" \in DOMAIN object /\ IsObject(object["signatures"])
          /\ server_verified(KnownKeys, object, redact(object, version), s)
          /\ HashReadable(object)
      BY <2>2, <3>1 DEF Acceptable, Sound
    <3>3. "hashes" \in DOMAIN object
      BY <3>2, GetIs DEF HashReadable
    <3>4. PICK sig \in signed : /\ sig.signature.by = s
                                /\ sig.signature.over = canonical_json(redact(object, version))
      BY <2>1, <3>2, VerifiedWasSigned
    <3>5. Verdict(object) = "All" => object["hashes"].object["sha256"] = content_hash(object)
      BY VerdictIs DEF HashMatches
    <3>6. sig.signature.over["hashes"] = object["hashes"]
      BY <3>3, <3>4, HashesSigned
    <3> QED BY <3>4, <3>5, <3>6
  <2> QED BY <2>1, <2>2 DEF AcceptedWasSigned
<1> QED BY <1>1, SigInvariant, PTL

-----------------------------------------------------------------------------
(* The event identifier. *)

\* Whether and how an event is named, as SameEventId compares it.
SameName(a, b, v) ==
    ~ reference_fails(a, v) => /\ ~ reference_fails(b, v)
                               /\ reference_hash(b, v) = reference_hash(a, v)

LEMMA SameNameUnsigned ==
    ASSUME NEW a, NEW b, NEW v, SameBut(b, a, Unsigned)
    PROVE  SameName(a, b, v)
BY SameReference DEF SameName, reference_fails, reference_hash

LEMMA SameNameRedacted ==
    ASSUME Redacts
    PROVE  SameName(object, object', version)
<1> DEFINE new == object'
<1>1. CASE redact_fails(object, version)
  BY <1>1 DEF SameName, reference_fails
<1>2. CASE ~ redact_fails(object, version)
  <2>1. RedactedForm(new, object, version)
    BY <1>2 DEF Redacts
  <2> HIDE DEF new
  <2>2. ~ redact_fails(new, version) /\ redact(new, version) = redact(object, version)
    BY <1>2, <2>1, RedactedKeeps
  <2>3. SameName(object, new, version)
    BY <2>2 DEF SameName, reference_fails, reference_hash
  <2> QED BY <2>3 DEF new
<1> QED BY <1>1, <1>2

\* Two objects that have the same hashes, and differ in signatures at most otherwise.
LEMMA SameNameHashes ==
    ASSUME NEW a, NEW b, NEW v, SameBut(b, a, {"hashes", "signatures"}),
           get(b, "hashes") = get(a, "hashes")
    PROVE  SameName(a, b, v)
<1>1. SameAt(b, a, "hashes")
  BY GetIs DEF SameAt
<1>2. SameBut(b, a, Unsigned)
  BY <1>1 DEF SameBut, Unsigned
<1> QED BY <1>2, SameNameUnsigned

LEMMA SameNameHashed ==
    ASSUME SigIInv, NEW s, NEW key, hash_and_sign_event(s, key),
           \/ get(object, "hashes") # {} /\ HashIsCurrent(object)
           \/ get(object', "hashes") = get(object, "hashes")
    PROVE  SameName(object, object', version)
<1> DEFINE new == object'
           h == Hashed(object)
<1>1. \/ SameBut(new, object, {})
      \/ SameBut(new, h, {"signatures"}) /\ SameBut(new, object, {"hashes", "signatures"})
  <2>1. CASE HashOk(s, key)
    BY <2>1, HashOkIs
  <2>2. CASE HashErr /\ new = object
    BY <2>2 DEF SameBut, SameAt
  <2>3. CASE HashErr /\ new = h
    <3>1. SameBut(h, object, {"hashes"})
      BY HashedSame
    <3> HIDE DEF h, new
    <3> QED BY <2>3, <3>1 DEF SameBut, SameAt
  <2> QED BY <2>1, <2>2, <2>3, HashCases DEF HashErr
<1>2. CASE SameBut(new, object, {})
  <2> HIDE DEF new
  <2>1. SameBut(new, object, Unsigned)
    BY <1>2 DEF SameBut
  <2>2. SameName(object, new, version)
    BY <2>1, SameNameUnsigned
  <2> QED BY <2>2 DEF new
<1>3. CASE /\ SameBut(new, h, {"signatures"}) /\ SameBut(new, object, {"hashes", "signatures"})
           /\ get(new, "hashes") = get(object, "hashes")
  <2> HIDE DEF new
  <2>1. SameName(object, new, version)
    BY <1>3, SameNameHashes
  <2> QED BY <2>1 DEF new
<1>4. CASE SameBut(new, h, {"signatures"}) /\ get(object, "hashes") # {} /\ HashIsCurrent(object)
  <2>1. "hashes" \in DOMAIN object
    BY <1>4, GetIs
  <2>2. SameBut(h, object, {})
    BY <1>4, <2>1, HashedCurrent DEF SigIInv
  <2> HIDE DEF new, h
  <2>3. SameBut(new, object, Unsigned)
    BY <1>4, <2>2 DEF SameBut, SameAt, Unsigned
  <2>4. SameName(object, new, version)
    BY <2>3, SameNameUnsigned
  <2> QED BY <2>4 DEF new
<1> HIDE DEF h
<1> QED BY <1>1, <1>2, <1>3, <1>4

LEMMA SameNameSigned ==
    ASSUME NEW s, NEW key, sign_json(s, key)
    PROVE  SameName(object, object', version)
<1> DEFINE new == object'
<1>1. SameBut(new, object, {"signatures"}) \/ SameBut(new, object, Unsigned)
  <2>1. CASE SignJsonOk(s, key)
    BY <2>1, SignedJsonIs DEF SignJsonOk
  <2>2. CASE SignJsonErr
    BY <2>2, RemoveSame DEF SignJsonErr
  <2> QED BY <2>1, <2>2, SignJsonCases
<1> HIDE DEF new
<1>2. SameBut(new, object, Unsigned)
  BY <1>1 DEF SameBut, Unsigned
<1>3. SameName(object, new, version)
  BY <1>2, SameNameUnsigned
<1> QED BY <1>3 DEF new

\* In every history of an event its identifier stays what it is: redacting it,
\* annotating it, signing it, and hashing it again while its hash is current
\* leave the reference hash alone.
THEOREM EventIdsStay == SigSpec => EventIdStable
<1>1. SigIInv /\ [SigNext]_sigVars => [SameEventId]_sigVars
  <2> SUFFICES ASSUME SigIInv, SigNext, alters' = alters,
                      \/ get(object, "hashes") # {} /\ HashIsCurrent(object)
                      \/ get(object', "hashes") = get(object, "hashes")
               PROVE  SameName(object, object', version)
    BY DEF SameEventId, SameName
  <2>1. ASSUME NEW s \in Servers, NEW key \in Signing, sign_json(s, key) \/ hash_and_sign_event(s, key)
        PROVE  SameName(object, object', version)
    BY <2>1, SameNameSigned, SameNameHashed
  <2>2. CASE (\E because \in BOOLEAN : redact_in_place(because)) \/ redact_content_in_place
    BY <2>2, RedactCases, SameNameRedacted
  <2>3. CASE SetUnsigned
    <3> DEFINE new == object'
    <3>1. SameBut(new, object, {"unsigned"})
      BY <2>3, InsertSame DEF SetUnsigned, Step, Ends
    <3> HIDE DEF new
    <3>2. SameBut(new, object, Unsigned)
      BY <3>1 DEF SameBut, Unsigned
    <3>3. SameName(object, new, version)
      BY <3>2, SameNameUnsigned
    <3> QED BY <3>3 DEF new
  <2>4. CASE Alter \/ Attach
    <3>1. alters \in Nat
      BY SignaturesAssumption DEF SigIInv, SigTypeOK
    <3>2. \E new : Change(new)
      BY <2>4 DEF Alter, Attach
    <3>3. alters' = alters + 1
      BY <3>2 DEF Change
    <3> QED BY <3>1, <3>3
  <2> QED BY <2>1, <2>2, <2>3, <2>4 DEF SigNext
<1> QED BY <1>1, SigInvariant, PTL DEF SigSpec, EventIdStable

-----------------------------------------------------------------------------
(* Signed events are accepted, and stay so. *)

LEMMA CurrentVerified ==
    ASSUME NEW o, NEW v, NEW s, Current(o, v, s)
    PROVE  server_verified(KnownKeys, o, redact(o, v), s)
<1> DEFINE set == SetOf(o, s).object
           r == redact(o, v)
<1>1. /\ s \in Servers /\ HasEntry(o, s) /\ IsObject(SetOf(o, s)) /\ DOMAIN set # {}
      /\ \A key \in DOMAIN set : key \in Signing /\ set[key] = Signature(s, key, r)
  BY DEF Current
<1>2. \A key \in Signing : key \in KeyIds /\ split_id(key) /\ <<s, key>> \in KnownKeys
  BY <1>1, SignaturesAssumption DEF split_id, KnownKeys
<1>3. s \in DOMAIN o["signatures"].object
  BY <1>1 DEF HasEntry
<1>4. \A key \in DOMAIN set : verify_json_with(s, key, set[key], r)
  <2> HIDE DEF set, r
  <2> QED BY <1>1, SignatureIs DEF verify_json_with
<1> DEFINE checked == {key \in DOMAIN set : split_id(key)}
<1>5. checked = DOMAIN set
  BY <1>1, <1>2
<1>6. \A key \in checked : <<s, key>> \in KnownKeys /\ verify_json_with(s, key, set[key], r)
  BY <1>1, <1>2, <1>4
<1>7. \E key \in KeyIds : <<s, key>> \in KnownKeys
  BY <1>1, <1>2
<1>8. server_verified(KnownKeys, o, r, s)
         <=> /\ s \in DOMAIN o["signatures"].object /\ IsObject(SetOf(o, s))
             /\ checked # {} /\ \E key \in KeyIds : <<s, key>> \in KnownKeys
             /\ \A key \in checked : <<s, key>> \in KnownKeys /\ verify_json_with(s, key, set[key], r)
  BY DEF server_verified
<1> HIDE DEF r, set, checked
<1>9. server_verified(KnownKeys, o, r, s)
  BY <1>1, <1>3, <1>5, <1>6, <1>7, <1>8
<1> QED BY <1>9 DEF r

LEMMA SameServerVerified ==
    ASSUME NEW a, NEW b, NEW r, NEW s, NEW keys, SameAt(b, a, "signatures"),
           "signatures" \in DOMAIN a, server_verified(keys, a, r, s)
    PROVE  server_verified(keys, b, r, s)
<1>1. SetOf(b, s) = SetOf(a, s) /\ b["signatures"] = a["signatures"]
  BY SetOfSame DEF SameAt
<1> QED BY <1>1 DEF server_verified

\* Redaction leaves the authorising user or removes it.
LEMMA AuthorisingKept ==
    ASSUME NEW o, NEW v, ~ redact_fails(o, v)
    PROVE  Authorising(redact(o, v), v) \in {Authorising(o, v), {}}
<1> DEFINE r == redact(o, v)
           c == o["content"].object
           allowed == AllowedIn(o, v)
           kept == object_retain_keys(c, allowed)
           user == "join_authorised_via_users_server"
<1>1. CASE v < 8 \/ "content" \notin DOMAIN o
  <2>1. "content" \in DOMAIN r => "content" \in DOMAIN o
    BY RedactIs
  <2> HIDE DEF r
  <2>2. Authorising(r, v) = {}
    BY <1>1, <2>1, GetIs DEF Authorising
  <2> QED BY <2>2 DEF r
<1>2. CASE ~ (v < 8) /\ "content" \in DOMAIN o
  <2>1. "content" \in DOMAIN r /\ r["content"] = Obj(kept)
    BY <1>2, RedactIs, EventKeys DEF RedactedContent
  <2>2. IsObject(o["content"])
    BY <1>2, GetIs DEF redact_fails
  <2>3. user \notin allowed.nested
    BY DEF AllowedIn, allowed_content_keys_for, SomeKeys, AllKeys, NoKeys
  <2>4. user \in DOMAIN kept => user \in DOMAIN c /\ kept[user] = c[user]
    <3> HIDE DEF c, allowed
    <3>1. CASE allowed.all
      BY <3>1 DEF object_retain_keys
    <3>2. CASE ~ allowed.all
      <4> DEFINE nested == {k \in allowed.nested \cap DOMAIN c : "signed" \in DOMAIN c[k].object}
      <4>1. kept = [x \in (DOMAIN c \cap allowed.keys) \cup nested |->
                     IF x \in nested THEN Obj(insert(Empty, "signed", c[x].object["signed"])) ELSE c[x]]
        BY <3>2 DEF object_retain_keys
      <4>2. user \notin nested
        BY <2>3
      <4> HIDE DEF nested, kept
      <4> QED BY <4>1, <4>2
    <3> QED BY <3>1, <3>2
  <2> HIDE DEF kept, r, c
  <2>5. get(kept, user) \in {get(c, user), {}}
    BY <2>4, GetIs
  <2>6. get(r, "content") # {} /\ IsObject(r["content"]) /\ r["content"].object = kept
    BY <2>1, GetIs, ObjIs
  <2>7. Authorising(r, v) = get(kept, user)
    BY <1>2, <2>6 DEF Authorising
  <2>8. Authorising(o, v) = get(c, user)
    BY <1>2, <2>2, GetIs DEF Authorising, c
  <2> QED BY <2>5, <2>7, <2>8 DEF r
<1> QED BY <1>1, <1>2

\* Redaction leaves the servers to ask, or fewer of them.
LEMMA FewerServers ==
    ASSUME NEW o, NEW v, ~ redact_fails(o, v), ~ servers_fail(o, v)
    PROVE  /\ ~ servers_fail(redact(o, v), v)
           /\ servers_to_check_signatures(redact(o, v), v) \subseteq servers_to_check_signatures(o, v)
<1> DEFINE r == redact(o, v)
<1>1. SameAt(r, o, "type") /\ SameAt(r, o, "sender") /\ SameAt(r, o, "event_id")
  BY RedactedForms, RedactedKeeps
<1>2. Authorising(r, v) \in {Authorising(o, v), {}}
  BY AuthorisingKept
<1> HIDE DEF r
<1>3. /\ TypeOf(r) = TypeOf(o) /\ get(r, "sender") = get(o, "sender")
      /\ get(r, "event_id") = get(o, "event_id")
  BY <1>1, TypeSame, GetSame
<1>4. is_third_party_invite(r) <=> is_third_party_invite(o)
  BY <1>3 DEF is_third_party_invite
<1>5. ServerIn({}) = {}
  BY DEF ServerIn
<1>6. ~ servers_fail(r, v)
  BY <1>2, <1>3, <1>4 DEF servers_fail
<1>7. servers_to_check_signatures(r, v) \subseteq servers_to_check_signatures(o, v)
  BY <1>2, <1>3, <1>4, <1>5 DEF servers_to_check_signatures
<1> QED BY <1>6, <1>7 DEF r

LEMMA AcceptableRedacted ==
    ASSUME NEW o, Acceptable(o)
    PROVE  Acceptable(redact(o, version))
<1> DEFINE r == redact(o, version)
<1>1. /\ ~ redact_fails(o, version) /\ ~ PduSize(o) /\ HashReadable(o) /\ version # 12
      /\ "signatures" \in DOMAIN o /\ IsObject(o["signatures"])
      /\ ~ servers_fail(o, version)
      /\ \A s \in servers_to_check_signatures(o, version) : server_verified(KnownKeys, o, r, s)
  BY DEF Acceptable, Sound
<1>2. /\ ~ redact_fails(r, version) /\ redact(r, version) = r
      /\ SameAt(r, o, "hashes") /\ SameAt(r, o, "signatures")
      /\ PduSize(r) => PduSize(o)
  BY <1>1, RedactedForms, RedactedKeeps
<1>3. /\ ~ servers_fail(r, version)
      /\ servers_to_check_signatures(r, version) \subseteq servers_to_check_signatures(o, version)
  BY <1>1, FewerServers
<1> HIDE DEF r
<1>4. HashReadable(r)
  BY <1>1, <1>2, GetSame DEF HashReadable
<1>5. Sound(r, version)
  BY <1>1, <1>2, <1>4 DEF Sound, SameAt
<1>6. \A s \in servers_to_check_signatures(r, version) : server_verified(KnownKeys, r, r, s)
  BY <1>1, <1>2, <1>3, SameServerVerified
<1>7. Acceptable(r)
  BY <1>1, <1>2, <1>3, <1>5, <1>6 DEF Acceptable
<1> QED BY <1>7 DEF r

\* For any number of servers, keys and steps: an event that all the servers
\* required hashed and signed is accepted, redacted since or not, and no
\* redaction makes an accepted event unacceptable.
THEOREM SignedAreAccepted == SigSpec => []SignedIsAccepted
<1>1. SigIInv => SignedIsAccepted
  <2> SUFFICES ASSUME SigIInv PROVE SignedIsAccepted
    OBVIOUS
  <2>1. ASSUME version # 12, clean # {}, ~ servers_fail(object, version),
               servers_to_check_signatures(object, version) \subseteq clean
        PROVE  Acceptable(object)
    <3>1. Sound(object, version) /\ \A s \in clean : Current(object, version, s)
      BY <2>1 DEF SigIInv, CleanOK
    <3> QED BY <2>1, <3>1, CurrentVerified DEF Acceptable
  <2> QED BY <2>1, VerdictIs, AcceptableRedacted DEF SignedIsAccepted
<1> QED BY <1>1, SigInvariant, PTL

-----------------------------------------------------------------------------
(* Signing completes. *)

LEMMA HashedMatches ==
    ASSUME NEW s, NEW key, HashOk(s, key)
    PROVE  HashMatches(object')
<1> DEFINE new == object'
           h == Hashed(object)
           old == IF {x \in get(object, "hashes") : IsObject(x)} = {} THEN Empty
                  ELSE object["hashes"].object
           hash == content_hash(object)
           hashes == insert(old, "sha256", hash)
<1>1. SameBut(new, object, {"hashes", "signatures"}) /\ SameBut(new, h, {"signatures"})
  BY HashOkIs
<1>2. h = insert(object, "hashes", Obj(hashes))
  BY DEF Hashed
<1> HIDE DEF new, h, old
<1>3. content_hash(new) = hash
  <2>1. SameBut(new, object, {"hashes", "signatures", "unsigned"})
    BY <1>1 DEF SameBut
  <2> QED BY <2>1, RemoveEqual DEF content_hash
<1> HIDE DEF hash
<1>4. hashes["sha256"] = hash
  BY DEF insert
<1> HIDE DEF hashes
<1>5. "hashes" \in DOMAIN h /\ h["hashes"] = Obj(hashes)
  BY <1>2 DEF insert
<1>6. new["hashes"].object = hashes
  BY <1>1, <1>5, ObjIs DEF SameBut, SameAt
<1>7. HashMatches(new)
  BY <1>3, <1>4, <1>6 DEF HashMatches
<1> QED BY <1>7 DEF new

\* An object verifies after another signature if it verified before.
LEMMA SignedVerifies ==
    ASSUME NEW o, NEW s \in Servers, NEW key \in Signing,
           get(o, "signatures") # {} => verify_json(KnownKeys, o)
    PROVE  verify_json(KnownKeys, signed_json(o, s, key))
<1> DEFINE n == signed_json(o, s, key)
           old == SetOf(o, s).object
           x == Signature(s, key, o)
           set == insert(old, key, x)
           Good(t, p) == /\ IsObject(SetOf(p, t)) /\ \E k \in KeyIds : <<t, k>> \in KnownKeys
                         /\ \A k \in DOMAIN SetOf(p, t).object :
                               /\ <<t, k>> \in KnownKeys
                               /\ verify_json_with(t, k, SetOf(p, t).object[k], p)
<1>1. /\ SameBut(n, o, {"signatures"}) /\ "signatures" \in DOMAIN n /\ IsObject(n["signatures"])
      /\ SetOf(n, s) = Obj(set)
      /\ \A t : t # s => SetOf(n, t) = SetOf(o, t) /\ (HasEntry(n, t) <=> HasEntry(o, t))
  BY SignedJsonIs
<1>2. \A t : HasEntry(o, t) => Good(t, o)
  BY GetIs DEF verify_json, HasEntry
<1>3. DOMAIN set = DOMAIN old \cup {key} /\ set[key] = x /\ \A k \in DOMAIN old \ {key} : set[k] = old[k]
  BY DEF insert
<1>4. <<s, key>> \in KnownKeys /\ key \in KeyIds
  BY SignaturesAssumption DEF KnownKeys
<1> HIDE DEF n, set
<1>5. canonical_json(n) = canonical_json(o)
  <2>1. SameBut(n, o, Unsigned)
    BY <1>1 DEF SameBut, Unsigned
  <2> QED BY <2>1, SameReference
<1>6. \A t, k, y : verify_json_with(t, k, y, o) <=> verify_json_with(t, k, y, n)
  BY <1>5 DEF verify_json_with, Signature
<1>7. ASSUME NEW t, t # s, HasEntry(n, t) PROVE Good(t, n)
  BY <1>1, <1>2, <1>6, <1>7
<1>8. Good(s, n)
  <2>1. IsObject(SetOf(n, s)) /\ SetOf(n, s).object = set
    BY <1>1, ObjIs
  <2>2. verify_json_with(s, key, x, o)
    BY SignatureIs DEF verify_json_with
  <2>3. \A k \in DOMAIN old : <<s, k>> \in KnownKeys /\ verify_json_with(s, k, old[k], o)
    <3>1. CASE HasEntry(o, s)
      BY <1>2, <3>1
    <3>2. CASE ~ HasEntry(o, s)
      <4>1. old = Empty
        BY <3>2, SetOfIs, ObjIs
      <4> QED BY <4>1 DEF Empty
    <3> QED BY <3>1, <3>2
  <2> HIDE DEF old, x
  <2>4. \A k \in DOMAIN set : <<s, k>> \in KnownKeys /\ verify_json_with(s, k, set[k], n)
    BY <1>3, <1>4, <1>6, <2>2, <2>3
  <2> QED BY <1>4, <2>1, <2>4
<1> HIDE DEF Good
<1>9. \A t \in DOMAIN n["signatures"].object : Good(t, n)
  BY <1>1, <1>7, <1>8 DEF HasEntry
<1>10. \E sig \in get(n, "signatures") : IsObject(sig)
  BY <1>1, GetIs
<1>11. verify_json(KnownKeys, n)
  BY <1>9, <1>10 DEF verify_json, Good
<1> QED BY <1>11 DEF n

\* In every history: when the last server required has hashed and signed the
\* event it verifies in full, and an object that verified, or that nobody had
\* signed, verifies after another entity signed it.
THEOREM SigningSuffices == SigSpec => SigningCompletes
<1>1. ASSUME SigIInv, SigIInv', NEW s \in Servers, NEW key \in Signing PROVE Completes(s, key)
  <2> DEFINE new == object'
  <2>1. ASSUME hash_and_sign_event(s, key), outcome' = "ok", version # 12,
               ~ servers_fail(new, version),
               servers_to_check_signatures(new, version) \subseteq clean'
        PROVE  Verdict(new) = "All"
    <3>1. HashOk(s, key) /\ version' = version
      BY <2>1, HashCases DEF HashErr
    <3>2. Sound(new, version) /\ HashMatches(new)
      BY <3>1, HashOkSound, HashedMatches
    <3>3. \A t \in clean' : Current(new, version, t)
      BY <1>1, <3>1 DEF SigIInv, CleanOK
    <3> HIDE DEF new
    <3>4. Acceptable(new)
      BY <2>1, <3>2, <3>3, CurrentVerified DEF Acceptable
    <3> QED BY <3>2, <3>4, VerdictIs
  <2>2. ASSUME sign_json(s, key), outcome' = "ok",
               get(object, "signatures") # {} => verify_json(KnownKeys, object)
        PROVE  verify_json(KnownKeys, new)
    <3>1. new = signed_json(object, s, key)
      BY <2>2, SignJsonCases DEF SignJsonOk, SignJsonErr
    <3> QED BY <2>2, <3>1, SignedVerifies
  <2> QED BY <2>1, <2>2 DEF Completes
<1>2. SigIInv /\ SigIInv' => [\A s \in Servers, key \in Signing : Completes(s, key)]_sigVars
  BY <1>1
<1> QED BY <1>2, SigInvariant, PTL DEF SigningCompletes

=============================================================================
