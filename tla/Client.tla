------------------------------- MODULE Client -------------------------------
(***************************************************************************)
(* A client of a homeserver: ruma-client/src/client.rs, client/builder.rs  *)
(* and send_customized_request of lib.rs.                                  *)
(*                                                                         *)
(* The client is shared: its calls are futures that the application polls  *)
(* in any order.  A call copies the access token and builds its request    *)
(* when it is first polled, then waits for the answer; log_in and the      *)
(* register_* calls store a token when theirs arrives.  A request or its   *)
(* answer may be lost, an answer may come after the call was given up, and *)
(* the homeserver, which is external, may act on a request nobody waits    *)
(* for any more.                                                           *)
(*                                                                         *)
(* Positions in a user's timeline stand for the since and next_batch       *)
(* tokens of the sync endpoint.                                            *)
(***************************************************************************)
EXTENDS Endpoint

CONSTANTS NCalls,     \* calls other than the sync stream that may be under way
          Users,
          Registered, \* users with an account; the others have to register
          endpoint,   \* name |-> [authentication, history]
          Others,     \* names of endpoints called with send_request
          Ranges,     \* sets of versions the server may support, ascending
          Told,       \* sets of versions the application may tell the builder
          KnownMax,   \* the newest version ruma knows
          Watched,    \* bound: the users whose timelines grow
          MaxEvents,  \* bound: events in a timeline
          MaxCalls,   \* bound: calls other than the stream
          MaxFaults   \* bound: calls given up, sessions expired and upgrades

Calls == 1..NCalls

\* The slot of the sync stream.
Stream == 0

Slots == Calls \cup {Stream}

ASSUME ClientAssumption ==
    /\ Registered \subseteq Users /\ Watched \subseteq Users /\ NCalls \in Nat /\ KnownMax \in Nat
    /\ MaxEvents \in Nat /\ MaxCalls \in Nat /\ MaxFaults \in Nat
    /\ Others \cup {"versions", "login", "register", "sync"} \subseteq DOMAIN endpoint
    /\ \A e \in DOMAIN endpoint : /\ endpoint[e].history \in HistoryOf(STRING)
                                  /\ ValidHistory(endpoint[e].history)
    /\ Told \subseteq SUBSET (0..KnownMax)
    /\ \A R \in Ranges : R \subseteq Nat /\ \A v, w \in R : v..w \subseteq R

VARIABLES client,    \* Client: whether it is built, its versions and its access token
          calls,     \* slot |-> the call in it
          wire,      \* slot |-> its request, or the server's answer, under way
          server,    \* versions, session: token |-> user, revoked tokens, and
                     \* timeline: user |-> length
          position,  \* user |-> where the application resumes the user's sync
          heard,     \* user |-> the events handed to the application, in order
          crossed,   \* users handed events by a stream that is not, or no longer, theirs
          granted,   \* what successful logins and registrations returned, in order
          begun,     \* calls begun so far
          faults     \* disturbances so far

clientVars == <<client, calls, wire, server, position, heard, crossed, granted, begun, faults>>

Free == [pc |-> "free"]
Panicked == [pc |-> "panicked"]
Nothing == [is |-> "nothing"]

\* At most MaxFaults disturbances.
Disturb == faults < MaxFaults /\ faults' = faults + 1

Active(c) == calls[c].pc # "free"

\* Tokens handed out so far, numbered.
Issued == DOMAIN server.session

Valid(token) == token # {} /\ token \subseteq Issued \ server.revoked

\* The user a token stands for, none for an invalid one.
UserOf(token) == {server.session[t] : t \in token \cap (Issued \ server.revoked)}

-----------------------------------------------------------------------------
(* Calls. *)

\* Bug: the token is the one the client was built with.
SentToken_Stale(kind) == IF kind = "build" THEN {} ELSE granted[1].token

\* The token a call of this kind hands to try_into_http_request.
SentToken(kind) == IF kind = "build" THEN {} ELSE client.token

ConsideredVersions(kind) == IF kind = "build" THEN {0} ELSE client.versions

\* send_customized_request up to the point where it waits: the request goes out,
\* or the call fails at once and nothing is sent.  `call` is what the call
\* remembers while it waits.
Send(c, kind, e, call) ==
    LET token == SentToken(kind)
        selected == select_path(endpoint[e].history, ConsideredVersions(kind))
    IN  IF selected.err # "" \/ NeedsAuthentication(endpoint[e].authentication, token)
        THEN /\ calls' = [calls EXCEPT ![c] = IF selected.err = "panic" THEN Panicked ELSE Free]
             /\ wire' = wire
        ELSE /\ calls' = [calls EXCEPT ![c] = call]
             /\ wire' = [wire EXCEPT ![c] =
                            [is |-> "request", endpoint |-> e, path |-> selected.path,
                             token |-> authorization_header(endpoint[e].authentication, token),
                             call |-> call]]

Idle == {c \in Calls : ~Active(c) /\ wire[c] = Nothing}

\* A call is polled for the first time, in the first slot that is idle.  `before` counts the grants it has seen.
begin(c, kind, e, user) ==
    /\ begun < MaxCalls /\ begun' = begun + 1
    /\ c \in Idle /\ \A d \in Idle : c <= d
    /\ client.built = (kind # "build")
    /\ kind = "build" => \A d \in Calls : ~Active(d)
    /\ Send(c, kind, e, [pc |-> "waiting", kind |-> kind, user |-> user, before |-> Len(granted)])
    /\ UNCHANGED <<client, server, position, heard, crossed, granted, faults>>

\* The builder is told the versions, or asks the server for them.
supported_matrix_versions ==
    /\ ~client.built /\ \A c \in Calls : ~Active(c)
    /\ \E R \in Told : client' = [client EXCEPT !.built = TRUE, !.versions = R]
    /\ UNCHANGED <<calls, wire, server, position, heard, crossed, granted, begun, faults>>

http_client == \E c \in Calls : begin(c, "build", "versions", {})

log_in == \E c \in Calls, u \in Registered : begin(c, "login", "login", {u})

register == \E c \in Calls, u \in Users \ Registered : begin(c, "register", "register", {u})

send_request == \E c \in Calls, e \in Others : begin(c, "request", e, {})

\* The loop of the stream: a request from `since` on.  A stream is mixed once
\* it has handed out another user's events than those it was opened for.
Poll(user, since, mixed) ==
    /\ Send(Stream, "sync", "sync",
            [pc |-> "waiting", kind |-> "sync", user |-> user, before |-> Len(granted),
             since |-> since, mixed |-> mixed])
    /\ UNCHANGED <<client, server, position, heard, crossed, granted, begun, faults>>

\* The application opens the stream where the user's last one ended.
sync ==
    /\ client.built /\ ~Active(Stream) /\ wire[Stream] = Nothing
    /\ \E u \in UserOf(client.token) : Poll({u}, position[u], FALSE)

next_iteration ==
    /\ calls[Stream].pc = "yielded" /\ wire[Stream] = Nothing
    /\ Poll(calls[Stream].user, calls[Stream].since, calls[Stream].mixed)

\* The application closes a stream that changed users.
CloseMixed ==
    /\ Active(Stream)
    /\ calls[Stream].mixed \/ calls[Stream].user # UserOf(client.token)
    /\ calls' = [calls EXCEPT ![Stream] = Free]
    /\ UNCHANGED <<client, wire, server, position, heard, crossed, granted, begun, faults>>

\* A call ends without an answer: the application drops it, or the http client
\* reports an error.  The server may still get what is under way.
GiveUp(c) ==
    /\ Active(c) /\ Disturb
    /\ calls' = [calls EXCEPT ![c] = Free]
    /\ \/ wire' = wire
       \/ wire[c] # Nothing /\ wire' = [wire EXCEPT ![c] = Nothing]
    /\ UNCHANGED <<client, server, position, heard, crossed, granted, begun>>

-----------------------------------------------------------------------------
(* The homeserver, external: what the client has to expect of it. *)

\* A stable path is served by the versions that have it and not yet removed it.
Served(versions, e, path) ==
    LET h == endpoint[e].history
    IN  \E i \in 1..Len(h.stable_paths) :
            /\ path = {h.stable_paths[i].path}
            /\ \E v \in versions : v >= h.stable_paths[i].version /\ \A r \in h.removed : v < r

Answer(c, body) == wire' = [wire EXCEPT ![c] = [is |-> "answer", body |-> body]]

Refuse(c) == Answer(c, [ok |-> FALSE]) /\ server' = server

\* A new session for the user, with or without a token in the answer.
Admit(c, user, told) ==
    \E u \in user :
      LET t == Len(server.session) + 1 IN
        /\ server' = [server EXCEPT !.session = Append(@, u)]
        /\ Answer(c, [ok |-> TRUE, token |-> IF told THEN {t} ELSE {}])

\* The server may know an unstable path.
MayKnow(q) ==
    \/ Served(server.versions, q.endpoint, q.path)
    \/ q.path = unstable(endpoint[q.endpoint].history)

Authorized(q) == endpoint[q.endpoint].authentication = "AccessToken" => Valid(q.token)

\* Wrong paths and tokens, passwords and captchas; nothing is refused for no reason.
MayRefuse(q) == \/ ~Served(server.versions, q.endpoint, q.path) \/ ~Authorized(q)
                \/ q.call.kind \in {"login", "register"}

Serve(c) ==
    /\ wire[c].is = "request"
    /\ LET q == wire[c] IN
       \/ MayRefuse(q) /\ Refuse(c)
       \/ /\ MayKnow(q) /\ Authorized(q)
          /\ \/ /\ q.call.kind = "build" /\ server' = server
                /\ Answer(c, [ok |-> TRUE, versions |-> server.versions])
             \/ q.call.kind = "login" /\ Admit(c, q.call.user, TRUE)
             \/ q.call.kind = "register" /\ \E told \in BOOLEAN : Admit(c, q.call.user, told)
             \/ q.call.kind = "request" /\ server' = server /\ Answer(c, [ok |-> TRUE])
             \/ /\ q.call.kind = "sync" /\ server' = server
                /\ \E u \in UserOf(q.token) :
                      Answer(c, [ok |-> TRUE, user |-> u, from |-> q.call.since,
                                 next_batch |-> IF server.timeline[u] > q.call.since
                                                THEN server.timeline[u] ELSE q.call.since])
    /\ UNCHANGED <<client, calls, position, heard, crossed, granted, begun, faults>>

\* The server forgets a session, supports other versions, or gets an event.
Expire ==
    /\ \E t \in Issued \ server.revoked : server' = [server EXCEPT !.revoked = @ \cup {t}]
    /\ Disturb
    /\ UNCHANGED <<client, calls, wire, position, heard, crossed, granted, begun>>

Upgrade ==
    /\ \E R \in Ranges : /\ R # server.versions /\ \A v \in server.versions : \E w \in R : v <= w
                         /\ server' = [server EXCEPT !.versions = R]
    /\ Disturb
    /\ UNCHANGED <<client, calls, wire, position, heard, crossed, granted, begun>>

NewEvent ==
    /\ \E u \in Watched : /\ server.timeline[u] < MaxEvents
                          /\ server' = [server EXCEPT !.timeline[u] = @ + 1]
    /\ UNCHANGED <<client, calls, wire, position, heard, crossed, granted, begun, faults>>

-----------------------------------------------------------------------------
(* Answers. *)

Answered(c) ==
    /\ wire[c].is = "answer" /\ Active(c) /\ wire[c].body.ok
    /\ wire' = [wire EXCEPT ![c] = Nothing]

\* Bug: an error answer does not end the call.
Failed_Stuck(c) ==
    /\ wire[c].is = "answer" /\ (Active(c) => ~wire[c].body.ok)
    /\ wire' = [wire EXCEPT ![c] = Nothing]
    /\ UNCHANGED <<client, calls, server, position, heard, crossed, granted, begun, faults>>

\* An error, or an answer nobody waits for.
Failed(c) ==
    /\ wire[c].is = "answer" /\ (Active(c) => ~wire[c].body.ok)
    /\ wire' = [wire EXCEPT ![c] = Nothing] /\ calls' = [calls EXCEPT ![c] = Free]
    /\ UNCHANGED <<client, server, position, heard, crossed, granted, begun, faults>>

known_versions(versions) == versions \cap (0..KnownMax)

build_done(c) ==
    /\ Answered(c) /\ calls[c].kind = "build"
    /\ client' = [client EXCEPT !.built = TRUE, !.versions = known_versions(wire[c].body.versions)]
    /\ calls' = [calls EXCEPT ![c] = Free]
    /\ UNCHANGED <<server, position, heard, crossed, granted, begun, faults>>

\* log_in stores the token it got, register_* what they got, be it none.
log_in_done(c) ==
    /\ Answered(c) /\ calls[c].kind \in {"login", "register"}
    /\ client' = [client EXCEPT !.token = wire[c].body.token]
    /\ granted' = Append(granted, [token |-> wire[c].body.token, before |-> calls[c].before])
    /\ calls' = [calls EXCEPT ![c] = Free]
    /\ UNCHANGED <<server, position, heard, crossed, begun, faults>>

send_request_done(c) ==
    /\ Answered(c) /\ calls[c].kind = "request"
    /\ calls' = [calls EXCEPT ![c] = Free]
    /\ UNCHANGED <<client, server, position, heard, crossed, granted, begun, faults>>

\* Bug: `since` is left as it is.
NextSince_Same(body) == body.from

NextSince(body) == body.next_batch

\* The events of a batch.
Events(batch) == [e \in 1..(batch.next_batch - batch.from) |-> batch.from + e]

\* The stream moves on and hands the batch to the application, whoever it is for,
\* and the application resumes from there.  A batch does not say whose it is: of a
\* stream that is mixed, the application may keep the token or not.
sync_yield ==
    /\ Answered(Stream)
    /\ LET batch == wire[Stream].body
           call == calls[Stream]
           mixed == call.mixed \/ call.user # {batch.user}
       IN  /\ calls' = [calls EXCEPT ![Stream] =
                           [call EXCEPT !.pc = "yielded", !.since = NextSince(batch), !.mixed = mixed]]
           /\ heard' = [heard EXCEPT ![batch.user] = @ \o Events(batch)]
           /\ crossed' = IF mixed THEN crossed \cup {batch.user} ELSE crossed
           /\ \/ position' = [position EXCEPT ![batch.user] = batch.next_batch]
              \/ mixed /\ position' = position
    /\ UNCHANGED <<client, server, granted, begun, faults>>

-----------------------------------------------------------------------------

ClientInit ==
    /\ \E u \in Registered, R \in Ranges, token \in {{}, {1}} :
          /\ server = [versions |-> R, session |-> [s \in token |-> u], revoked |-> {},
                       timeline |-> [v \in Users |-> 0]]
          /\ client = [built |-> FALSE, versions |-> {}, token |-> token]
          /\ granted = <<[token |-> token, before |-> 0]>>
    /\ calls = [c \in Slots |-> Free] /\ wire = [c \in Slots |-> Nothing]
    /\ position = [u \in Users |-> 0] /\ heard = [u \in Users |-> <<>>] /\ crossed = {}
    /\ begun = 0 /\ faults = 0

ClientNext ==
    \/ supported_matrix_versions \/ http_client \/ log_in \/ register \/ send_request
    \/ sync \/ next_iteration \/ sync_yield
    \/ \E c \in Slots : Serve(c) \/ Failed(c) \/ GiveUp(c)
    \/ \E c \in Calls : build_done(c) \/ log_in_done(c) \/ send_request_done(c)
    \/ Expire \/ Upgrade \/ NewEvent \/ CloseMixed

ClientSpec == ClientInit /\ [][ClientNext]_clientVars

-----------------------------------------------------------------------------
(* Safety. *)

\* Type: one call and one message per slot, tokens the server issued.
ClientTypeOK ==
    /\ client.built \in BOOLEAN /\ client.versions \subseteq 0..KnownMax
    /\ Option(client.token) /\ client.token \subseteq Issued
    /\ DOMAIN calls = Slots /\ DOMAIN wire = Slots
    /\ \A c \in Slots : wire[c].is \in {"nothing", "request", "answer"}
    /\ position \in [Users -> 0..MaxEvents] /\ heard \in [Users -> Seq(1..MaxEvents)]
    /\ crossed \subseteq Users /\ faults \in 0..MaxFaults /\ begun \in 0..MaxCalls
    /\ server.session \in Seq(Users)

\* The token is what one of the first n grants returned, and none of the others
\* belongs to a call that began when that grant was already in.
Current(token, n) ==
    \E i \in 1..n : granted[i].token = token /\ \A j \in 1..n : granted[j].before < i

\* Logins take effect in an order that agrees with the order of the calls: the
\* client never holds, and no request carries, a token that was replaced before
\* the request, or the call that replaced it, began (client.rs 60-62, 81-85, 132).
TokensFollowLogins ==
    /\ ClientTypeOK
    /\ Current(client.token, Len(granted))
    /\ \A c \in Slots : wire[c].is = "request" /\ wire[c].token # {}
          => Current(wire[c].token, wire[c].call.before)

\* As long as the server still supports the versions the client learnt when it
\* was built, it serves every stable path the client uses (select_path with
\* the versions of builder.rs 74-86), and whatever it supports, neither the
\* unreachable! nor the expects of select_path are reached (metadata.rs 314-354).
PathsServed ==
    \A c \in Slots :
        LET q == wire[c] IN
        /\ calls[c].pc # "panicked"
        /\ q.is = "request" /\ q.call.kind # "build" /\ client.versions \subseteq server.versions
            => \/ Served(server.versions, q.endpoint, q.path)
               \/ q.path = unstable(endpoint[q.endpoint].history)

\* However often the stream is given up, fails or is opened again, what the
\* application was handed of a user is each event once and in order, as far as it
\* has come: as long as no stream that was opened for another user, or had handed
\* out another user's events, handed it any of this user's.  The code lets that
\* happen after a login, and then events may come twice or never (sync, client.rs
\* 205-228).
EachEventOnce ==
    \A u \in Users \ crossed : heard[u] = [e \in 1..position[u] |-> e]

-----------------------------------------------------------------------------
(* Liveness. *)

\* The session is good and the client has a path for the sync endpoint that is served.
LoggedInAs(u) ==
    LET selected == select_path(endpoint["sync"].history, client.versions)
    IN  /\ client.built /\ UserOf(client.token) = {u}
        /\ selected.err = "" /\ Served(server.versions, "sync", selected.path)

\* The server answers the stream, its answers arrive, and the application keeps
\* polling one stream.  Nothing is assumed of the other calls, nor that the
\* application closes a stream that changed users.
ClientFairness ==
    /\ WF_clientVars(Serve(Stream) \/ Failed(Stream) \/ sync_yield)
    /\ WF_clientVars(sync \/ next_iteration)

FairClientSpec == ClientInit /\ [][ClientNext]_clientVars /\ ClientFairness

\* A user who stays logged in, and is not handed events by another user's stream,
\* hears of every event.
HearsEverything ==
    \A u \in Users :
        <>[](LoggedInAs(u) /\ u \notin crossed) =>
            []<>(\A e \in 1..server.timeline[u] : \E i \in 1..Len(heard[u]) : heard[u][i] = e)

=============================================================================
