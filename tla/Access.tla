------------------------------- MODULE Access -------------------------------
(***************************************************************************)
(* Who a request acts for: the routes of ingest-api with the Auth          *)
(* middleware and the authenticators (none, simple, jwt), the tokens that  *)
(* POST /tenants and POST /auth/issue give out, and what the services do   *)
(* with the identity they find in the context; the read-only replay        *)
(* service, called in-process and over gRPC.                               *)
(*                                                                         *)
(* The server may be started again with another AUTH_MODE or secret while  *)
(* callers keep their tokens.  Append is one step: see EventLog.           *)
(***************************************************************************)
EXTENDS Naturals, Sequences, FiniteSets

CONSTANTS Tenants,       \* tenant ids
          Default,       \* "default", the tenant of the modes none and simple
          Streams,       \* stream ids
          Followed,      \* the stream that is followed through replay.Service
          Secrets,       \* values of AUTH_JWT_SECRET
          NoSecret,      \* AUTH_JWT_SECRET is not set
          ApiKey,        \* the value of AUTH_API_KEY
          Invalid,       \* no credential, a wrong key, an expired or foreign token
          NoTenant,      \* no identity
          MaxRows,       \* bound: events
          MaxTokens      \* bound: tokens that have not expired

ASSUME TenantsAssumption == /\ Default \in Tenants /\ NoTenant \notin Tenants
                            /\ NoSecret \notin Secrets /\ Followed \in Streams
                            /\ MaxRows \in Nat /\ MaxTokens \in Nat

\* Who the caller is, whatever the token says: "holder".
Token == [tenant : Tenants, holder : Tenants, secret : Secrets]
Row == [tenant : Tenants, holder : Tenants, stream : Streams]

ASSUME CredentialsAssumption == ApiKey \notin Token /\ Invalid \notin Token

VARIABLES env,     \* the mode and secret the server runs with
          tokens,  \* the tokens that were issued and have not expired
          rows,    \* the events, in the order in which they were appended
          answer,  \* the last answer
          got,     \* got[t]: the versions a follower of tenant t was given
          gap      \* gap[t]: it was told of a version gap

vars == <<env, tokens, rows, answer, got, gap>>

Statuses == {"ok", "created", "unauthorized", "bad request", "not found",
             "not implemented", "query failed", "data loss"}

\* buildAuthenticator: jwt needs a secret.
Environments == {e \in [mode : {"none", "simple", "jwt"}, secret : Secrets \cup {NoSecret}] :
                   e.mode = "jwt" => e.secret # NoSecret}

Answer == [status : Statuses, tenant : Tenants \cup {NoTenant},
           holder : Tenants \cup {NoTenant}, rows : SUBSET (1 .. MaxRows)]

TypeOK ==
    /\ env \in Environments
    /\ tokens \subseteq Token
    /\ rows \in Seq(Row) /\ Len(rows) <= MaxRows
    /\ answer \in Answer /\ answer.rows \subseteq DOMAIN rows
    /\ got \in [Tenants -> SUBSET (1 .. MaxRows)]
    /\ gap \in [Tenants -> BOOLEAN]

Reply(s, t, h, ids) ==
    answer' = [status |-> s, tenant |-> t, holder |-> h, rows |-> ids]

Init == /\ env \in Environments
        /\ tokens = {}
        /\ rows = <<>>
        /\ answer = [status |-> "ok", tenant |-> NoTenant,
                     holder |-> NoTenant, rows |-> {}]
        /\ got = [t \in Tenants |-> {}]
        /\ gap = [t \in Tenants |-> FALSE]

-----------------------------------------------------------------------------
Credentials == tokens \cup {ApiKey, Invalid}

\* Authenticate: the tenant a credential stands for in the server's mode.
Authenticate(c) ==
    CASE env.mode = "none" -> Default
      [] env.mode = "simple" -> IF c = ApiKey THEN Default ELSE NoTenant
      [] env.mode = "jwt" -> IF c \in tokens /\ c.secret = env.secret
                             THEN c.tenant ELSE NoTenant

\* Who presents it; all callers of the modes none and simple are one tenant.
Holder(c) == IF env.mode = "jwt" THEN c.holder ELSE Default

Authenticated(c) == Authenticate(c) # NoTenant

\* The Auth middleware, before every handler of /events and of /auth/issue;
\* /auth/token asks the authenticator itself.
Unauthorized(c) ==
    /\ ~ Authenticated(c)
    /\ Reply("unauthorized", NoTenant, NoTenant, {})
    /\ UNCHANGED <<env, tokens, rows, got, gap>>

\* POST /auth/token tells the caller its identity.
AuthToken(c) ==
    /\ Authenticated(c)
    /\ Reply("ok", Authenticate(c), Holder(c), {})
    /\ UNCHANGED <<env, tokens, rows, got, gap>>

\* Variant: no check that there is an issuer.
AuthIssueUnchecked(c) ==
    /\ Authenticated(c)
    /\ Cardinality(tokens) < MaxTokens
    /\ tokens' = tokens \cup
          {[tenant |-> Authenticate(c), holder |-> Holder(c), secret |-> env.secret]}
    /\ Reply("ok", Authenticate(c), Holder(c), {})
    /\ UNCHANGED <<env, rows, got, gap>>

\* Only a server with a secret has an issuer; the new token carries the
\* identity of the caller.
AuthIssue(c) ==
    /\ Authenticated(c)
    /\ \/ /\ env.secret # NoSecret
          /\ Cardinality(tokens) < MaxTokens
          /\ tokens' = tokens \cup
                {[tenant |-> Authenticate(c), holder |-> Holder(c), secret |-> env.secret]}
          /\ Reply("ok", Authenticate(c), Holder(c), {})
       \/ /\ env.secret = NoSecret
          /\ UNCHANGED tokens
          /\ Reply("not implemented", Authenticate(c), Holder(c), {})
    /\ UNCHANGED <<env, rows, got, gap>>

\* POST /tenants with the admin key: a token for the tenant, in any mode with
\* a secret, else the advice to use the API key.
CreateTenant(t) ==
    /\ \/ /\ env.secret # NoSecret
          /\ Cardinality(tokens) < MaxTokens
          /\ tokens' = tokens \cup {[tenant |-> t, holder |-> t, secret |-> env.secret]}
          /\ Reply("created", t, t, {})
       \/ /\ env.secret = NoSecret
          /\ UNCHANGED tokens
          /\ Reply("created", Default, Default, {})
    /\ UNCHANGED <<env, rows, got, gap>>

\* The admin key is wrong, or the body lacks the tenant or the subject.
RefuseTenant ==
    /\ \E s \in {"unauthorized", "bad request"} : Reply(s, NoTenant, NoTenant, {})
    /\ UNCHANGED <<env, tokens, rows, got, gap>>

-----------------------------------------------------------------------------
Version(i) == Cardinality({j \in 1 .. i : rows[j].stream = rows[i].stream})

\* Ingest: the event belongs to the tenant of the identity.
Ingest(c, s) ==
    /\ Authenticated(c)
    /\ Len(rows) < MaxRows
    /\ rows' = Append(rows, [tenant |-> Authenticate(c), holder |-> Holder(c), stream |-> s])
    /\ Reply("created", Authenticate(c), Holder(c), {Len(rows) + 1})
    /\ UNCHANGED <<env, tokens, got, gap>>

\* Variant: whatever row has the id.
GetByIDUnscoped(c, i) ==
    /\ Authenticated(c)
    /\ IF i \in DOMAIN rows
       THEN Reply("ok", Authenticate(c), Holder(c), {i})
       ELSE Reply("not found", Authenticate(c), Holder(c), {})
    /\ UNCHANGED <<env, tokens, rows, got, gap>>

\* The store looks the id up in all rows; the service hides those of others.
GetByID(c, i) ==
    /\ Authenticated(c)
    /\ IF i \in DOMAIN rows /\ rows[i].tenant = Authenticate(c)
       THEN Reply("ok", Authenticate(c), Holder(c), {i})
       ELSE Reply("not found", Authenticate(c), Holder(c), {})
    /\ UNCHANGED <<env, tokens, rows, got, gap>>

\* The lists ask for the tenant's rows among those that match: by time, by
\* correlation or causation id, or that Elasticsearch has indexed.
List(c, found) ==
    /\ Authenticated(c)
    /\ Reply("ok", Authenticate(c), Holder(c),
             {i \in found : rows[i].tenant = Authenticate(c)})
    /\ UNCHANGED <<env, tokens, rows, got, gap>>

\* The route has no Auth middleware: the service finds no identity.
GetByStream(c) ==
    /\ Reply("query failed", NoTenant,
             IF Authenticated(c) THEN Holder(c) ELSE NoTenant, {})
    /\ UNCHANGED <<env, tokens, rows, got, gap>>

-----------------------------------------------------------------------------
\* The highest version the follower has; 0 before the first.
Position(t) == CHOOSE v \in got[t] \cup {0} : \A w \in got[t] : w <= v

\* The versions of the events of tenant t on the stream.
Own(t) == {Version(i) : i \in {j \in DOMAIN rows : rows[j].stream = Followed
                                                   /\ rows[j].tenant = t}}

\* Variant: the version that was asked for is left out.
AboveVersion(t, v) == {w \in Own(t) : w > v}

\* GetFromVersion with an identity of tenant t.
FromVersion(t, v) == {w \in Own(t) : w >= v}

\* Variant: the versions have to begin with 1.
ContiguousFromOne(vs) == \A w \in vs : w > 1 => w - 1 \in vs

\* validateContiguous: neighbours follow each other; the first has none.
Contiguous(vs) == \A w \in vs : (\E u \in vs : u < w) => w - 1 \in vs

(***************************************************************************)
(* replay.Service.Replay called in-process with an identity of tenant t,   *)
(* by a follower that goes on above the last version it was given (from 0  *)
(* at first).                                                              *)
(***************************************************************************)
Follow(t) ==
    LET from == IF got[t] = {} THEN 0 ELSE Position(t) + 1
        vs   == FromVersion(t, from)
    IN  /\ ~ gap[t]
        /\ IF Contiguous(vs)
           THEN got' = [got EXCEPT ![t] = @ \cup vs] /\ UNCHANGED gap
           ELSE gap' = [gap EXCEPT ![t] = TRUE] /\ UNCHANGED got
        /\ UNCHANGED <<env, tokens, rows, answer>>

\* Replay over gRPC: a request without a stream is bad; for any other no
\* interceptor sets an identity, the service refuses and the handler answers
\* DATA_LOSS.
GrpcReplay ==
    /\ \E s \in {"bad request", "data loss"} : Reply(s, NoTenant, NoTenant, {})
    /\ UNCHANGED <<env, tokens, rows, got, gap>>

-----------------------------------------------------------------------------
\* ingest-api is started again, perhaps with another mode or secret.
Restart(e) ==
    /\ env' = e
    /\ UNCHANGED <<tokens, rows, answer, got, gap>>

Expire(k) ==
    /\ tokens' = tokens \ {k}
    /\ UNCHANGED <<env, rows, answer, got, gap>>

Request(c) ==
    \/ Unauthorized(c)
    \/ AuthToken(c)
    \/ AuthIssue(c)
    \/ \E s \in Streams : Ingest(c, s)
    \/ \E i \in 1 .. MaxRows : GetByID(c, i)
    \/ \E found \in SUBSET DOMAIN rows : List(c, found)
    \/ GetByStream(c)

Next == \/ \E c \in Credentials : Request(c)
        \/ \E t \in Tenants : CreateTenant(t) \/ Follow(t)
        \/ RefuseTenant
        \/ GrpcReplay
        \/ \E e \in Environments : Restart(e)
        \/ \E k \in tokens : Expire(k)

Spec == Init /\ [][Next]_vars

-----------------------------------------------------------------------------
(***************************************************************************)
(* Tenants stay apart: an event is stored for, and answered to, the tenant *)
(* of the caller only, along any chain of issued tokens and across         *)
(* restarts with another mode or secret (auth.Identity: "enforce tenant    *)
(* isolation"; GetByID: "belongs to a different tenant").                  *)
(***************************************************************************)
TenantsApart ==
    /\ \A i \in DOMAIN rows : rows[i].tenant = rows[i].holder
    /\ \A i \in answer.rows : rows[i].holder = answer.holder

(***************************************************************************)
(* A follower that goes on above the last version it was given has every   *)
(* event of its tenant up to there, whatever others write to the stream.   *)
(***************************************************************************)
FollowerIsWhole ==
    \A t \in Tenants : got[t] = {v \in Own(t) : v <= Position(t)}

(***************************************************************************)
(* A version gap is reported only of a stream on which another tenant's    *)
(* event lies between two of the caller's: never of a stream of one        *)
(* tenant, however often its follower asks and wherever it goes on.        *)
(***************************************************************************)
OnFollowed(i) == rows[i].stream = Followed

GapMeansShared ==
    \A t \in Tenants : gap[t] =>
        \E i, j, k \in DOMAIN rows :
           /\ i < j /\ j < k
           /\ OnFollowed(i) /\ rows[i].tenant = t
           /\ OnFollowed(j) /\ rows[j].tenant # t
           /\ OnFollowed(k) /\ rows[k].tenant = t

(***************************************************************************)
(* handler.go:456, getByStream: "Returns a paginated, version-ordered list *)
(* of events for a stream" to callers with credentials.                    *)
(***************************************************************************)
StreamIsServed ==
    answer.status = "query failed" => answer.holder = NoTenant
=============================================================================
