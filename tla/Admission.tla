----------------------------- MODULE Admission -----------------------------
(***************************************************************************)
(* How a request is admitted: who sent it, what they may do, and that a    *)
(* signed agent-to-agent message that is delivered again is acted on once. *)
(*                                                                         *)
(* A request passes the middleware and then its handler; both authenticate *)
(* it, and the second time finds the context the first one left.  A signed *)
(* message carries a nonce and a timestamp.  Its nonce goes to Redis while *)
(* Redis answers, and to the table in memory (and with it to the           *)
(* persisted state) otherwise.  The platform settings may change between   *)
(* the two steps of a request.                                             *)
(*                                                                         *)
(* Left out: tokens and signatures as text (a token is valid or not, and   *)
(* stands for an identity), the OIDC endpoints, audit.                     *)
(***************************************************************************)
EXTENDS Integers, Sequences, FiniteSets, FiniteSetsExt, Functions

CONSTANTS
    XThreads,     \* threads serving requests
    XProfiles,    \* sequence of runtime profiles: [name, explicit, auth, headers, bootstrap, headerActors],
                  \* each with the requests its clients may send, and send
                  \* again, and a bound on how many (requests, most)
    XIdentities,  \* what a valid token stands for: [token -> identity]
    XTrusted,     \* a2a_trusted_subjects
    XMembers,     \* participants of the session about an entity: [bucket -> references]
    XAdmins,      \* configured administrators
    XBuilders,    \* configured builders
    Skew,         \* A2A_CLOCK_SKEW_SECONDS
    Ttl,          \* LOCUS_A2A_NONCE_TTL_SECONDS
    MaxNonces,    \* nonces the table keeps (5000 in the code)
    MaxNow,       \* bound on the clock
    MaxHitches    \* bound on faults and changes of settings

ASSUME AdmissionBounds ==
    /\ Skew \in Nat \ {0} /\ Ttl \in Nat /\ MaxNonces \in Nat \ {0}
    /\ MaxNow \in Nat /\ MaxHitches \in Nat

(* A nonce is kept longer than its message is fresh: between the earliest and *)
(* the latest moment a message is accepted lie 2 * Skew.  With the defaults   *)
(* (30 and 600 seconds) this is so.                                           *)
ASSUME NoncesOutliveMessages == Ttl > 2 * Skew

VARIABLES
    xProfile,  \* the runtime profile (its place in XProfiles)
    xPlat,     \* platform settings: [auth, signed, headers, replay]
    xNow,      \* the clock
    xNonces,   \* [seen, disk, redis: [nonce -> expiry], up: whether Redis answers]
    xRuns,     \* access contexts of the runs
    xCall,     \* what each thread is doing
    xPast      \* history

xVars == <<xProfile, xPlat, xNow, xNonces, xRuns, xCall, xPast>>

XNobody == [person |-> "", actor |-> "", subject |-> "", principal |-> "", agent |-> "",
            tenant |-> "", roles |-> {}, internal |-> FALSE, kind |-> "none"]
XNoContext == [set |-> FALSE]
XProfile == XProfiles[xProfile]

XIdle == [phase |-> "idle"]
XNoNonces == [n \in {} |-> 0]

-----------------------------------------------------------------------------
(* What the profile asks for *)

effective_require_authenticated_requests ==
    IF XProfile.explicit THEN XProfile.auth ELSE xPlat.auth

effective_require_a2a_runtime_headers ==
    IF XProfile.explicit THEN XProfile.headers ELSE xPlat.headers

header_actor_auth_allowed ==
    /\ XProfile.headerActors
    /\ XProfile.name = "local-lightweight"
    /\ ~effective_require_authenticated_requests

route_requires_authenticated_request(route) ==
    CASE route = "internal-only" -> TRUE
      [] route = "public-minimal" -> FALSE
      [] OTHER -> effective_require_authenticated_requests

-----------------------------------------------------------------------------
(* Who sent it *)

extract_actor_from_request(req, ctx) ==
    IF ctx.set THEN ctx.actor ELSE IF req.actor # "" THEN req.actor ELSE "anonymous"

(* The local operator of a desktop install needs no token. *)
XOperator == [XNobody EXCEPT !.person = "operator", !.actor = "operator",
                             !.principal = "user:local/operator",
                             !.roles = {"admin", "builder"}, !.kind = "bootstrap"]

Bearer(req) ==
    CASE req.token = "static" -> [XNobody EXCEPT !.kind = "static"]
      [] req.token \in DOMAIN XIdentities -> XIdentities[req.token]
      [] req.token = "" /\ XProfile.bootstrap /\ XProfile.name = "local-native" -> XOperator
      [] OTHER -> XNobody

AgentRef(agent) == "agent:" \o agent

(* The context of a request once every check has passed. *)
Context(req, trusted) ==
    LET id == Bearer(req)
        named == id.actor # ""
        who == IF named THEN id.actor ELSE extract_actor_from_request(req, XNoContext)
        used == id.kind # "none"
        header == ~named /\ req.actor # "" /\ header_actor_auth_allowed
    IN [set |-> TRUE, authenticated |-> used \/ header \/ trusted, actor |-> who,
        subject |-> IF req.msg.subject # "" THEN req.msg.subject ELSE id.subject,
        principal |-> CASE id.principal # "" -> id.principal
                        [] id.agent # "" -> AgentRef(id.agent)
                        [] OTHER -> who,
        agent |-> id.agent, tenant |-> id.tenant, roles |-> id.roles, kind |-> id.kind,
        internal |-> id.internal, trusted |-> trusted, person |-> id.person]

(* _verify_runtime_signature and the checks around it. *)
signed_required(req) ==
    xPlat.signed /\ (req.route = "internal-only" \/ effective_require_a2a_runtime_headers)

carries_signature(req) == req.msg.subject # "" \/ req.msg.sig # "none" \/ req.msg.nonce # 0

(* Mutant of verify_runtime_signature: any timestamp will do. *)
VerifyUndated(req) == req.msg.sig = "good"

verify_runtime_signature(req) ==
    /\ xNow - req.msg.ts \in -Skew .. Skew
    /\ req.msg.sig = "good"

SignatureRefused(req) ==
    LET id == Bearer(req)
        subject == IF req.msg.subject # "" THEN req.msg.subject ELSE id.subject
    IN \/ subject \notin XTrusted
       \/ req.msg.sig = "none"
       \/ req.msg.nonce = 0 /\ (~signed_required(req) \/ xPlat.replay)
       \/ ~verify_runtime_signature(req)
       \/ signed_required(req) /\ id.subject # "" /\ id.subject # subject

(* _enforce_request_authn up to the nonce: refused, admitted with a context,  *)
(* or a nonce to register first.                                              *)
AuthnOutcome(req, required) ==
    LET signed == signed_required(req) \/ carries_signature(req)
        ctx == Context(req, signed)
    IN CASE req.token = "bad" -> [go |-> "refused", ctx |-> XNoContext]
         [] req.token # "bad" /\ signed /\ SignatureRefused(req) -> [go |-> "refused", ctx |-> XNoContext]
         [] req.token # "bad" /\ required /\ ~ctx.authenticated -> [go |-> "refused", ctx |-> XNoContext]
         [] req.token # "bad" /\ signed /\ ~SignatureRefused(req) /\ xPlat.replay -> [go |-> "register", ctx |-> ctx]
         [] OTHER -> [go |-> "admitted", ctx |-> ctx]

enforce_request_authn(req, ctx, required) ==
    IF ctx.set /\ ctx.authenticated
    THEN [go |-> "admitted", ctx |-> ctx]
    ELSE AuthnOutcome(req, required)

-----------------------------------------------------------------------------
(* What they may do *)

request_has_internal_access(ctx) ==
    ctx.set /\ (ctx.kind = "static" \/ ctx.internal \/ ctx.trusted)

auth_context_identity_references(ctx) ==
    ({ctx.actor, ctx.subject, ctx.principal} \ {""}) \cup
    (IF ctx.agent = "" THEN {} ELSE {ctx.agent, AgentRef(ctx.agent)})

request_uses_local_operator_oidc(ctx) ==
    /\ ctx.kind \notin {"none", "static"}
    /\ XProfile.name = "local-secure" /\ XProfile.bootstrap

request_has_admin_access(ctx) ==
    /\ ctx.set
    /\ \/ "admin" \in ctx.roles
       \/ request_uses_local_operator_oidc(ctx)
       \/ ctx.kind # "none" /\ auth_context_identity_references(ctx) \cap XAdmins # {}

request_has_builder_access(ctx) ==
    \/ request_has_admin_access(ctx)
    \/ /\ ctx.set
       /\ \/ "builder" \in ctx.roles
          \/ ctx.kind # "none"
             /\ auth_context_identity_references(ctx) \cap (XBuilders \cup XAdmins) # {}

(* The principal of a context and the names it goes by. *)
resolve_auth_context_principal(ctx) ==
    [principal |-> ctx.principal,
     references |-> ({ctx.actor, ctx.principal, ctx.subject, ctx.agent} \ {""}) \cup
                    (IF ctx.agent = "" THEN {} ELSE {AgentRef(ctx.agent)})]

build_run_access_context(ctx) ==
    [tenant |-> ctx.tenant, references |-> resolve_auth_context_principal(ctx).references]

request_has_privileged_control_plane_access(ctx) ==
    request_has_builder_access(ctx) \/ (ctx.set /\ (ctx.internal \/ ctx.trusted))

run_visible_to_principal(ctx, access) ==
    \/ ~effective_require_authenticated_requests
    \/ request_has_privileged_control_plane_access(ctx)
    \/ /\ resolve_auth_context_principal(ctx).references \cap access.references # {}
       /\ access.tenant = "" \/ ctx.tenant = "" \/ access.tenant = ctx.tenant

(* Whom a payload may speak for. *)
resolve_authenticated_payload_identity(req, ctx) ==
    CASE req.speaksFor = "" -> resolve_auth_context_principal(ctx).principal
      [] req.speaksFor # "" /\ ~effective_require_authenticated_requests -> req.speaksFor
      [] req.speaksFor \in resolve_auth_context_principal(ctx).references
         /\ effective_require_authenticated_requests -> resolve_auth_context_principal(ctx).principal
      [] OTHER -> "refused"

memory_bucket(scope, id) == scope \o ":" \o id

actor_participates_in_memory_entity(names, bucket) ==
    bucket \in DOMAIN XMembers /\ names \cap XMembers[bucket] # {}

authorize_memory_bucket_access(ctx, bucket) ==
    \/ request_has_internal_access(ctx)
    \/ /\ bucket.scope \in {"session", "user"}
       /\ bucket.id = ctx.actor
    \/ /\ bucket.scope \in {"playbook", "agent", "workflow"}
       /\ actor_participates_in_memory_entity(
              {ctx.actor} \cup resolve_auth_context_principal(ctx).references,
              memory_bucket(bucket.scope, bucket.id))
    \/ /\ bucket.scope = "tenant"
       /\ ctx.tenant # "" /\ bucket.id = ctx.tenant

-----------------------------------------------------------------------------
(* The table of nonces *)

Live(table) == {n \in DOMAIN table : table[n] > xNow}

(* _prune_expired_a2a_nonces_locked: drops what has expired, and beyond the   *)
(* limit those that expire first.                                             *)
prune_expired_a2a_nonces(table) ==
    LET live == Live(table)
        size == IF Cardinality(live) < MaxNonces THEN Cardinality(live) ELSE MaxNonces
    IN {Restrict(table, kept) : kept \in
           {s \in kSubset(size, live) : \A n \in s, o \in live \ s : table[n] >= table[o]}}

WithNonce(table, nonce) == [n \in DOMAIN table \cup {nonce} |-> IF n = nonce THEN xNow + Ttl ELSE table[n]]

Respond(c, outcome, past) ==
    /\ xCall' = [xCall EXCEPT ![c] = XIdle]
    /\ xPast' = [past EXCEPT !.last = [outcome |-> outcome, req |-> xCall[c].req, ctx |-> xCall[c].ctx,
                                       mid |-> xCall[c].mid, registered |-> xCall[c].registered]]

(* _register_a2a_nonce_or_raise.  The answer of Redis may be lost, which      *)
(* reads as a nonce already seen; a state that cannot be saved refuses the    *)
(* request after the nonce was taken.                                         *)
RegisterNonce(c, nonce) ==
    LET redis == Restrict(xNonces.redis, Live(xNonces.redis))
        Passed(tables, evicts) ==
            /\ xNonces' = tables
            /\ xCall' = [xCall EXCEPT ![c].phase = xCall[c].next, ![c].ctx = xCall[c].pending,
                                      ![c].registered = TRUE]
            /\ xPast' = [xPast EXCEPT !.gap = @ \/ evicts]
        Evicts(seen, table) == \E n \in Live(seen) \cup {nonce} : n \notin DOMAIN table
    IN \/ /\ xNonces.up /\ nonce \notin DOMAIN redis
          /\ \E first \in prune_expired_a2a_nonces(xNonces.seen) :
             \E seen \in prune_expired_a2a_nonces(WithNonce(first, nonce)), saved \in BOOLEAN :
                Passed([xNonces EXCEPT !.redis = WithNonce(redis, nonce), !.seen = seen,
                                       !.disk = IF saved THEN seen ELSE @],
                       Evicts(xNonces.seen, seen))
       \/ /\ xNonces.up
          /\ \/ nonce \in DOMAIN redis /\ UNCHANGED xNonces
             \/ /\ xPast.hitches < MaxHitches
                /\ nonce \notin DOMAIN redis
                /\ xNonces' = [xNonces EXCEPT !.redis = WithNonce(redis, nonce)]
          /\ Respond(c, "replay", [xPast EXCEPT !.lost = @ \/ nonce \notin DOMAIN redis,
                                                !.hitches = @ + (IF nonce \in DOMAIN redis THEN 0 ELSE 1)])
       \/ /\ ~xNonces.up
          /\ \E first \in prune_expired_a2a_nonces(xNonces.seen) :
             IF nonce \in DOMAIN first
             THEN /\ xNonces' = [xNonces EXCEPT !.seen = first]
                  /\ Respond(c, "replay", xPast)
             ELSE \E seen \in prune_expired_a2a_nonces(WithNonce(first, nonce)) :
                  \/ Passed([xNonces EXCEPT !.seen = seen, !.disk = seen], Evicts(xNonces.seen, seen))
                  \/ /\ xPast.hitches < MaxHitches
                     /\ xNonces' = [xNonces EXCEPT !.seen = seen]
                     /\ Respond(c, "unsaved", [xPast EXCEPT !.hitches = @ + 1,
                                                            !.gap = @ \/ Evicts(xNonces.seen, seen)])

register_a2a_nonce_or_raise(c) ==
    /\ xCall[c].phase = "register"
    /\ RegisterNonce(c, xCall[c].req.msg.nonce)
    /\ UNCHANGED <<xProfile, xPlat, xNow, xRuns>>

-----------------------------------------------------------------------------
(* A request *)

Receive(c) ==
    /\ xCall[c].phase = "idle"
    /\ xPast.received < XProfile.most
    /\ \E req \in XProfile.requests :
          xCall' = [xCall EXCEPT ![c] = [phase |-> "middleware", req |-> req, ctx |-> XNoContext,
                                         pending |-> XNoContext, next |-> "", mid |-> "",
                                         registered |-> FALSE]]
    /\ xPast' = [xPast EXCEPT !.received = @ + 1]
    /\ UNCHANGED <<xProfile, xPlat, xNow, xNonces, xRuns>>

Enforce(c, required, next) ==
    LET out == enforce_request_authn(xCall[c].req, xCall[c].ctx, required)
    IN CASE out.go = "refused" -> Respond(c, "refused", xPast)
         [] out.go = "register" ->
              /\ xCall' = [xCall EXCEPT ![c].phase = "register", ![c].next = next, ![c].pending = out.ctx]
              /\ UNCHANGED xPast
         [] OTHER -> /\ xCall' = [xCall EXCEPT ![c].phase = next, ![c].ctx = out.ctx]
                     /\ UNCHANGED xPast

(* enforce_route_access_policy *)
enforce_route_access_policy(c) ==
    /\ xCall[c].phase = "middleware"
    /\ IF route_requires_authenticated_request(xCall[c].req.route)
       THEN Enforce(c, TRUE, "routed")
       ELSE /\ xCall' = [xCall EXCEPT ![c].phase = "handler"]
            /\ UNCHANGED xPast
    /\ UNCHANGED <<xProfile, xPlat, xNow, xNonces, xRuns>>

enforce_internal_route(c) ==
    /\ xCall[c].phase = "routed"
    /\ IF xCall[c].req.route = "internal-only" /\ ~request_has_internal_access(xCall[c].ctx)
       THEN Respond(c, "internal_required", xPast)
       ELSE /\ xCall' = [xCall EXCEPT ![c].phase = "handler",
                                      ![c].mid = extract_actor_from_request(xCall[c].req, xCall[c].ctx)]
            /\ UNCHANGED xPast
    /\ UNCHANGED <<xProfile, xPlat, xNow, xNonces, xRuns>>

(* The handler authenticates in its turn; whether it must depends on it. *)
enter_handler(c) ==
    /\ xCall[c].phase = "handler"
    /\ Enforce(c, CASE xCall[c].req.handler = "admin" -> TRUE
                    [] xCall[c].req.handler = "session" -> FALSE
                    [] OTHER -> effective_require_authenticated_requests, "act")
    /\ UNCHANGED <<xProfile, xPlat, xNow, xNonces, xRuns>>

(* get_auth_session: what the browser is told it may do. *)
get_auth_session(ctx) ==
    IF ctx.kind = "none" /\ effective_require_authenticated_requests
    THEN "refused"
    ELSE IF ctx.kind # "none" /\ request_has_builder_access(ctx) THEN "builder" ELSE "user"

HandlerOutcome(req, ctx) ==
    CASE req.handler = "admin" -> IF request_has_admin_access(ctx) THEN "ok" ELSE "admin_required"
      [] req.handler = "builder" -> IF ~effective_require_authenticated_requests
                                       \/ request_has_builder_access(ctx)
                                    THEN "ok" ELSE "builder_required"
      [] req.handler = "session" -> get_auth_session(ctx)
      [] req.handler = "speak" -> resolve_authenticated_payload_identity(req, ctx)
      [] req.handler = "memory" -> IF authorize_memory_bucket_access(ctx, req.bucket) THEN "ok" ELSE "denied"
      [] req.handler = "read" -> IF xRuns = <<>> THEN "missing"
                                 ELSE IF run_visible_to_principal(ctx, xRuns[1].access) THEN "ok" ELSE "denied"
      [] OTHER -> "ok"

act(c) ==
    /\ xCall[c].phase = "act"
    /\ LET req == xCall[c].req  ctx == xCall[c].ctx  nonce == req.msg.nonce
       IN /\ Respond(c, HandlerOutcome(req, ctx),
                     [xPast EXCEPT !.acted = IF ctx.trusted THEN [@ EXCEPT ![nonce] = @ + 1] ELSE @,
                                   !.gap = @ \/ (ctx.trusted /\ ~xCall[c].registered)])
          /\ xRuns' = IF req.handler = "start" /\ xRuns = <<>>
                      THEN <<[person |-> ctx.person, access |-> build_run_access_context(ctx)]>> ELSE xRuns
    /\ UNCHANGED <<xProfile, xPlat, xNow, xNonces>>

-----------------------------------------------------------------------------
(* The world around *)

Hitch == /\ xPast.hitches < MaxHitches
         /\ xPast' = [xPast EXCEPT !.hitches = @ + 1]

(* The clock.  Nothing waits between the check of a timestamp and the         *)
(* registration of its nonce, so it does not turn there.  Only signed         *)
(* messages look at it.                                                       *)
Tick == /\ xNow < MaxNow
        /\ \E r \in XProfile.requests : r.msg.nonce # 0
        /\ \A c \in XThreads : xCall[c].phase # "register"
        /\ xNow' = xNow + 1
        /\ UNCHANGED <<xProfile, xPlat, xNonces, xRuns, xCall, xPast>>

(* Redis goes away, or comes back with what it held.  Nonces taken meanwhile  *)
(* are not in it.                                                             *)
RedisTurns ==
    /\ xPast.hitches < MaxHitches
    /\ xNonces' = [xNonces EXCEPT !.up = ~@]
    /\ xPast' = [xPast EXCEPT !.hitches = @ + 1,
                              !.gap = @ \/ IF xNonces.up
                                           THEN ~(Live(xNonces.redis) \subseteq Live(xNonces.seen))
                                           ELSE ~(Live(xNonces.seen) \subseteq Live(xNonces.redis))]
    /\ UNCHANGED <<xProfile, xPlat, xNow, xRuns, xCall>>

(* The backend stops and starts from the persisted state. *)
StartAgain ==
    /\ Hitch
    /\ xNonces' = [xNonces EXCEPT !.seen = xNonces.disk]
    /\ xCall' = [c \in XThreads |-> XIdle]
    /\ UNCHANGED <<xProfile, xPlat, xNow, xRuns>>

(* An administrator changes the settings while requests are under way. *)
ChangePlatformSettings ==
    /\ Hitch
    /\ \E f \in {"auth", "signed", "headers"} : xPlat' = [xPlat EXCEPT ![f] = ~@]
    /\ UNCHANGED <<xProfile, xNow, xNonces, xRuns, xCall>>

-----------------------------------------------------------------------------
XInit ==
    /\ xProfile \in DOMAIN XProfiles
    /\ xPlat = [auth |-> TRUE, signed |-> TRUE, headers |-> FALSE, replay |-> TRUE]
    /\ xNow = 0
    /\ xNonces = [seen |-> XNoNonces, disk |-> XNoNonces, redis |-> XNoNonces, up |-> TRUE]
    /\ xRuns = <<>>
    /\ xCall = [c \in XThreads |-> XIdle]
    /\ xPast = [received |-> 0, hitches |-> 0, gap |-> FALSE, lost |-> FALSE,
                acted |-> [n \in {r.msg.nonce : r \in XProfile.requests} |-> 0],
                last |-> [outcome |-> "none"]]

XNext ==
    \/ \E c \in XThreads : \/ Receive(c) \/ enforce_route_access_policy(c)
                           \/ enforce_internal_route(c) \/ register_a2a_nonce_or_raise(c)
                           \/ enter_handler(c) \/ act(c)
    \/ Tick \/ RedisTurns \/ StartAgain \/ ChangePlatformSettings

XSpec == XInit /\ [][XNext]_xVars

-----------------------------------------------------------------------------
(* Types: the table of nonces stays within its limit, and every entry expires *)
(* at most Ttl from now (_prune_expired_a2a_nonces_locked runs with each      *)
(* registration).                                                             *)
XTypeOK ==
    /\ xProfile \in DOMAIN XProfiles
    /\ xNow \in 0..MaxNow
    /\ Cardinality(DOMAIN xNonces.seen) <= MaxNonces
    /\ \A table \in {xNonces.seen, xNonces.disk, xNonces.redis} :
          \A n \in DOMAIN table : table[n] \in 0..(xNow + Ttl)
    /\ \A c \in XThreads : xCall[c].phase \in {"idle", "middleware", "routed", "register", "handler", "act"}
    /\ Len(xRuns) <= 1

(* A signed message that is delivered again is not acted on again, whatever   *)
(* the threads, restarts and outages of Redis, as long as the table in use    *)
(* holds the nonces taken so far (no eviction by the limit, no change to a    *)
(* table that has not seen them).                                             *)
MessagesAreActedOnOnce ==
    ~xPast.gap => \A n \in DOMAIN xPast.acted : xPast.acted[n] <= 1

(* A request does not trip over its own nonce: the handler's second           *)
(* authentication finds the context of the middleware and registers nothing.  *)
NoRequestReplaysItself ==
    xPast.last.outcome = "replay" => ~xPast.last.registered

(* The middleware and the handler take a request for the same actor, though   *)
(* the settings may change between them and the request may name another.     *)
OneActorPerRequest ==
    xPast.last.outcome \notin {"none", "refused", "replay", "unsaved"} /\ xPast.last.mid # "" =>
        xPast.last.ctx.set /\ xPast.last.ctx.actor = xPast.last.mid

(* A person who started a run while known by a token keeps reaching it with   *)
(* any of their tokens of the same tenant, and another person without a       *)
(* privilege does not (_build_run_access_context, _run_visible_to_principal). *)
RunsFollowThePerson ==
    LET last == xPast.last
        mine == last.ctx.person = xRuns[1].person
                /\ (last.ctx.tenant = xRuns[1].access.tenant \/ "" \in {last.ctx.tenant, xRuns[1].access.tenant})
    IN (/\ last.outcome \in {"ok", "denied"} /\ last.req.handler = "read"
        /\ last.ctx.kind \in {"jwt", "oidc"} /\ last.ctx.person # "" /\ xRuns[1].person # ""
        /\ effective_require_authenticated_requests /\ xPast.hitches = 0)
       => IF request_has_privileged_control_plane_access(last.ctx)
          THEN last.outcome = "ok"
          ELSE ((last.outcome = "ok") <=> mine)

(* What the session endpoint tells the browser about building is what the     *)
(* builder endpoints then do for the same token.                              *)
CapabilitiesAreHonoured ==
    LET last == xPast.last
    IN (/\ last.outcome # "none" /\ last.outcome \in {"ok", "builder_required"}
        /\ last.req.handler = "builder" /\ last.ctx.kind # "none" /\ XProfile.explicit /\ XProfile.auth)
       => ((last.outcome = "ok") <=> (get_auth_session(last.ctx) = "builder"))
=============================================================================
