----------------------------- MODULE OAuthProxy -----------------------------
(***************************************************************************)
(* cmd/mcp-oauth-proxy: an authorization server with one user, who knows   *)
(* the PIN, in front of the MCP endpoint.  An app is sent to /authorize    *)
(* with a redirect and a challenge, exchanges the code for an access token *)
(* at /token and calls /mcp with it; the proxy puts its own bearer token   *)
(* in its place.  Codes and access tokens live in memory.                  *)
(*                                                                         *)
(* What a mutex covers is a step; time passes by the two Expire actions.   *)
(* An app stands for its verifier, and for the challenge made from it.     *)
(***************************************************************************)
EXTENDS McpAccess

CONSTANTS
    Apps,           \* OAuth clients: who has a verifier
    Redirects,      \* redirect_uris
    Visits,         \* requests to /token and /mcp in flight
    SweepAbove,     \* number of stored tokens above which a sweep may start
    MaxCodes,       \* bound: codes ever issued
    MaxAccess,      \* bound: access tokens ever issued
    MaxStarts       \* bound: starts of the proxy

ASSUME ProxyBoundsAssumption ==
    /\ MaxCodes \in Nat /\ MaxAccess \in Nat /\ MaxStarts \in Nat
    /\ SweepAbove \in Nat

CodeIds == 1 .. MaxCodes
AccessIds == 1 .. MaxAccess

(* The environment: AUTH_PIN is set, OAUTH_REDIRECT_URIS (empty admits any),*)
(* others reach the address and PROXY_ALLOW_INSECURE_DEV is not set, and    *)
(* MCP_BEARER_TOKEN.                                                        *)
Environment == [pin : BOOLEAN, allowed : SUBSET Redirects, public : BOOLEAN,
                bearer : Minted]

VARIABLES
    environment,    \* of the process that runs, <<>> when none does
    starts,         \* number of starts
    form,           \* the PIN form an app's user looks at
    code,           \* codes issued, in order; the store keeps those "stored"
    access,         \* access tokens issued, in order
    visit,          \* what each request is doing
    sweeping        \* sweepExpiredTokens has been started

proxyVars == <<environment, starts, form, code, access, visit, sweeping>>

NoVisit == [pc |-> "quiet", id |-> 0, redirect |-> "none", app |-> "none"]
Visit == [pc : {"quiet", "taken", "forward"}, id : Nat,
          redirect : Redirects \cup {"none"}, app : Apps \cup {"none"}]

(* start and pinned are history.                                            *)
AuthCode == [state : {"stored", "gone"}, fresh : BOOLEAN, app : Apps,
             redirect : Redirects, start : 1 .. MaxStarts, pinned : BOOLEAN]
AccessToken == [state : {"stored", "gone"}, fresh : BOOLEAN, app : Apps,
                code : CodeIds, start : 1 .. MaxStarts]

Up == environment # <<>>
Stored(seq) == {i \in DOMAIN seq : seq[i].state = "stored"}
Forgotten(seq) == [i \in DOMAIN seq |-> [seq[i] EXCEPT !.state = "gone"]]

ProxyInit ==
    /\ environment = <<>> /\ starts = 0
    /\ form = [p \in Apps |-> "none"]
    /\ code = <<>> /\ access = <<>>
    /\ visit = [v \in Visits |-> NoVisit]
    /\ sweeping = FALSE

ProductionGuardsRequired(env) == env.public
ValidateProductionConfig(env) == env.pin /\ env.allowed # {}

(* main, after a crash or a stop or for the first time: the stores and the  *)
(* requests of the last process are gone.                                   *)
StartProxy ==
    /\ starts < MaxStarts /\ starts' = starts + 1
    /\ \E env \in Environment :
          /\ ProductionGuardsRequired(env) => ValidateProductionConfig(env)
          /\ environment' = env
    /\ code' = Forgotten(code) /\ access' = Forgotten(access)
    /\ visit' = [v \in Visits |-> NoVisit]
    /\ sweeping' = FALSE
    /\ UNCHANGED <<form, mcpVars>>

-----------------------------------------------------------------------------
(* /authorize                                                               *)

ValidateRedirectAndPKCE(redirect) ==
    environment.allowed = {} \/ redirect \in environment.allowed

IssueAuthCode(p, redirect) ==
    /\ Len(code) < MaxCodes
    /\ code' = Append(code, [state |-> "stored", fresh |-> TRUE, app |-> p,
                  redirect |-> redirect, start |-> starts,
                  pinned |-> form[p] # "none"])
    /\ form' = [form EXCEPT ![p] = "none"]

(* GET with a PIN: the form, with the redirect and the challenge in it.     *)
RenderPINForm(p, redirect) ==
    /\ Up /\ ValidateRedirectAndPKCE(redirect) /\ environment.pin
    /\ form' = [form EXCEPT ![p] = redirect]
    /\ UNCHANGED <<environment, starts, code, access, visit, sweeping, mcpVars>>

(* POST with a PIN: what the form carries is validated again, by the        *)
(* process that runs now.                                                   *)
AcceptPINPost(p) ==
    /\ Up /\ form[p] # "none"
    /\ ValidateRedirectAndPKCE(form[p]) /\ environment.pin
    /\ IssueAuthCode(p, form[p])
    /\ UNCHANGED <<environment, starts, access, visit, sweeping, mcpVars>>

(* GET without a PIN.                                                       *)
AuthorizeOpenly(p, redirect) ==
    /\ Up /\ ValidateRedirectAndPKCE(redirect) /\ ~environment.pin
    /\ form[p] = "none"
    /\ IssueAuthCode(p, redirect)
    /\ UNCHANGED <<environment, starts, access, visit, sweeping, mcpVars>>

-----------------------------------------------------------------------------
(* /token                                                                   *)

Unspent(c) == code
Spent(c) == [code EXCEPT ![c].state = "gone"]

(* The code leaves the store whatever the checks then say.                  *)
TakeCode(v, c, p, redirect) ==
    /\ Up /\ visit[v] = NoVisit /\ c \in Stored(code)
    /\ code' = Spent(c)
    /\ visit' = [visit EXCEPT ![v] =
          [pc |-> "taken", id |-> c, redirect |-> redirect, app |-> p]]
    /\ UNCHANGED <<environment, starts, form, access, sweeping, mcpVars>>

(* Bug: a code is exchanged whatever its age.                               *)
AnyAge(v) ==
    LET ac == code[visit[v].id] IN
    ac.redirect = visit[v].redirect /\ ac.app = visit[v].app

(* The checks of expiry, redirect and verifier, then the token.             *)
ValidExchange(v) ==
    LET ac == code[visit[v].id] IN
    ac.fresh /\ ac.redirect = visit[v].redirect /\ ac.app = visit[v].app

HandleToken(v) ==
    /\ visit[v].pc = "taken"
    /\ \/ /\ ValidExchange(v) /\ Len(access) < MaxAccess
          /\ access' = Append(access, [state |-> "stored", fresh |-> TRUE,
                app |-> visit[v].app, code |-> visit[v].id,
                start |-> starts])
       \/ ~ValidExchange(v) /\ access' = access
    /\ visit' = [visit EXCEPT ![v] = NoVisit]
    /\ UNCHANGED <<environment, starts, form, code, sweeping, mcpVars>>

-----------------------------------------------------------------------------
(* /mcp                                                                     *)

AuthenticateMCPProxy(v, k) ==
    /\ Up /\ visit[v] = NoVisit
    /\ k \in Stored(access) /\ access[k].fresh
    /\ visit' = [visit EXCEPT ![v] = [NoVisit EXCEPT !.pc = "forward", !.id = k]]
    /\ sweeping' \in {sweeping, Cardinality(Stored(access)) > SweepAbove}
    /\ sweeping => sweeping'
    /\ UNCHANGED <<environment, starts, form, code, access, mcpVars>>

(* The request goes upstream with the proxy's own token in place of the     *)
(* access token, and is refused there once that is revoked.                 *)
UpstreamToken == environment.bearer

HandleMCPProxy(v) ==
    /\ visit[v].pc = "forward"
    /\ \/ \E a \in Agents : MCPTokenByHash(a, UpstreamToken)
       \/ ~ActiveToken(UpstreamToken) /\ UNCHANGED mcpVars
    /\ visit' = [visit EXCEPT ![v] = NoVisit]
    /\ UNCHANGED <<environment, starts, form, code, access, sweeping>>

Swept(k) == ~access[k].fresh

SweepExpiredTokens ==
    /\ sweeping /\ sweeping' = FALSE
    /\ access' = [k \in DOMAIN access |->
          IF Swept(k) THEN [access[k] EXCEPT !.state = "gone"] ELSE access[k]]
    /\ UNCHANGED <<environment, starts, form, code, visit, mcpVars>>

-----------------------------------------------------------------------------
(* Ten minutes, or TOKEN_TTL, have passed.                                  *)
ExpireCode(c) ==
    /\ \/ c \in Stored(code)
       \/ \E v \in Visits : visit[v].pc = "taken" /\ visit[v].id = c
    /\ code[c].fresh
    /\ code' = [code EXCEPT ![c].fresh = FALSE]
    /\ UNCHANGED <<environment, starts, form, access, visit, sweeping, mcpVars>>

ExpireToken(k) ==
    /\ k \in Stored(access) /\ access[k].fresh
    /\ access' = [access EXCEPT ![k].fresh = FALSE]
    /\ UNCHANGED <<environment, starts, form, code, visit, sweeping, mcpVars>>

ProxyStep ==
    \/ StartProxy
    \/ \E p \in Apps, redirect \in Redirects :
          \/ RenderPINForm(p, redirect) \/ AuthorizeOpenly(p, redirect)
          \/ \E v \in Visits, c \in CodeIds : TakeCode(v, c, p, redirect)
    \/ \E p \in Apps : AcceptPINPost(p)
    \/ \E v \in Visits : HandleToken(v) \/ HandleMCPProxy(v)
    \/ \E v \in Visits, k \in AccessIds : AuthenticateMCPProxy(v, k)
    \/ SweepExpiredTokens
    \/ \E c \in CodeIds : ExpireCode(c)
    \/ \E k \in AccessIds : ExpireToken(k)

ProxyNext ==
    \/ ProxyStep
    \/ McpNext /\ UNCHANGED proxyVars

ProxySpec == McpInit /\ ProxyInit /\ [][ProxyNext]_<<mcpVars, proxyVars>>

-----------------------------------------------------------------------------
(* Every variable stays in its domain.                                      *)
ProxyTypeOk ==
    /\ environment \in Environment \cup {<<>>} /\ starts \in 0 .. MaxStarts
    /\ form \in [Apps -> Redirects \cup {"none"}]
    /\ code \in Seq(AuthCode) /\ access \in Seq(AccessToken)
    /\ visit \in [Visits -> Visit] /\ sweeping \in BOOLEAN

(* An access token was given for one code, which nothing else was given     *)
(* for, to the app whose challenge the code was issued with, by the process *)
(* that issued the code; that process let the redirect pass, and asked for  *)
(* the PIN when it has one, as it must when others reach it; and a token    *)
(* that has not expired is in the store of the process that gave it         *)
(* (handleToken, issueAuthCode, acceptPINPost, sweepExpiredTokens).         *)
GrantsHold ==
    /\ \A j, k \in DOMAIN access : access[j].code = access[k].code => j = k
    /\ \A k \in DOMAIN access : LET c == code[access[k].code] IN
          c.app = access[k].app /\ c.start = access[k].start
    /\ \A c \in DOMAIN code : Up /\ code[c].start = starts =>
          /\ environment.allowed = {} \/ code[c].redirect \in environment.allowed
          /\ environment.public => environment.pin
          /\ environment.pin = code[c].pinned
    /\ \A k \in DOMAIN access :
          access[k].start = starts /\ access[k].fresh => k \in Stored(access)

-----------------------------------------------------------------------------
(* What apps see of the proxy.  A code can be exchanged until it expires,   *)
(* from the store or by the request that took it from there; a token works  *)
(* while it is stored and fresh.                                            *)
InHand(c) == \E v \in Visits : visit[v].pc = "taken" /\ visit[v].id = c

Exchangeable(c) == code[c].fresh /\ (c \in Stored(code) \/ InHand(c))

Works(c) == \E k \in Stored(access) : access[k].fresh /\ access[k].code = c

Life(c) == IF Exchangeable(c) THEN "code" ELSE IF Works(c) THEN "token" ELSE "over"

Grants == INSTANCE CodeGrants WITH
    Holders <- Apps,
    asked <- [c \in DOMAIN code |-> code[c].app],
    life <- [c \in DOMAIN code |-> Life(c)],
    given <- [k \in DOMAIN access |-> [code |-> access[k].code, app |-> access[k].app]]

(* The proxy, with its requests in flight, expiry, sweeps and restarts,     *)
(* keeps what an authorization server promises: a code is exchanged once at *)
(* most, before it expires, for a token of the app it was issued to, and    *)
(* what is over never works again (handleToken, sweepExpiredTokens).        *)
KeepsPromises == Grants!Spec
=============================================================================
