------------------------------- MODULE MCSetup -------------------------------
(***************************************************************************)
(* What an operator sets up, of which one part is in focus in a behaviour  *)
(* while the others rest: Install with two requests of one server, one of  *)
(* another process, and one run of the command; the MCP endpoint with two  *)
(* requests and a token; the proxy in front of it with two apps.           *)
(***************************************************************************)
EXTENDS Install, OAuthProxy, TLC

CONSTANTS r1, r2, r3, c1, c2, h1, h2, n1, n2

OneServer == (r1 :> h1) @@ (r2 :> h1) @@ (r3 :> h2)

(* r1 and r2 differ in their name only, and so do n1 and n2: names of       *)
(* accounts, or redirects.                                                  *)
Interchangeable == Permutations({r1, r2}) \cup Permutations({n1, n2})

VARIABLE focus

SetupInit ==
    /\ focus \in {"install", "mcp", "proxy"}
    /\ Init /\ McpInit /\ ProxyInit

(* A token that may write is minted, then the proxy starts with it; it is   *)
(* revoked while a request goes upstream, and only one goes, no further     *)
(* than the lookup; one code or token expires; one form is looked at; and   *)
(* the proxy is started again, with a PIN, before a second code is issued.  *)
ProxyFocus ==
    /\ operators' = operators /\ lapses' = lapses
    /\ \E g \in Agents : call[g] = Quiet /\ call'[g] = Quiet
    /\ \A g \in Agents :
          /\ call'[g].pc \in IF starts = 0 THEN {"quiet", "mint"}
                                        ELSE {"quiet", "known"}
          /\ call'[g].author \in {0, 1}
    /\ starts > 0 /\ credential' # credential =>
          \E v \in Visits : visit[v].pc = "forward"
    /\ starts < starts' => IF starts = 0
          THEN \E t \in Minted : credential[t].scope = "write" /\ ActiveToken(t)
          ELSE Len(code) <= 1 /\ environment'.pin
    /\ starts' = MaxStarts => Len(access') <= 1
    /\ Cardinality({c \in DOMAIN code' : ~code'[c].fresh})
          + Cardinality({k \in DOMAIN access' : ~access'[k].fresh}) <= 1
    /\ Cardinality({p \in Apps : form'[p] # "none"}) <= 1
    /\ \A v \in Visits : visit'[v].pc = "taken" =>
          LET c == code'[visit'[v].id] IN
             c.app = visit'[v].app \/ c.redirect = visit'[v].redirect

SetupNext ==
    \/ /\ focus = "install" /\ Next
       /\ UNCHANGED <<focus, mcpVars, proxyVars>>
    \/ /\ focus = "mcp" /\ McpNext
       /\ UNCHANGED <<focus, vars, proxyVars>>
    \/ /\ focus = "proxy" /\ ProxyNext /\ ProxyFocus
       /\ UNCHANGED <<focus, vars>>

SetupSpec == SetupInit /\ [][SetupNext]_<<focus, vars, mcpVars, proxyVars>>
=============================================================================
