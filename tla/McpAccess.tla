----------------------------- MODULE McpAccess -----------------------------
(***************************************************************************)
(* The MCP endpoint: the tokens an administrator mints and revokes, the    *)
(* lookup that authenticates a request to /mcp, the scope its tool needs,  *)
(* the row a write tool changes and the audit log.                         *)
(*                                                                         *)
(* Every statement is a step of its own, so a token can be revoked, its    *)
(* author removed and the client gone between any two.  What a tool writes *)
(* is a row with an author; Entries has what becomes of an entry.          *)
(***************************************************************************)
EXTENDS Naturals, FiniteSets, Sequences

CONSTANTS
    Agents,         \* requests to /mcp, lines on stdio, screens of the admin
    Authors,        \* ids of users; 1 is the seed admin
    MaxMinted,      \* bound: tokens ever minted
    MaxWritten,     \* bound: writes ever made
    MaxLapses       \* bound: statements that fail, clients that hang up

ASSUME AuthorsAssumption == Authors \subseteq Nat \ {0} /\ 1 \in Authors

ASSUME AgentsAssumption == IsFiniteSet(Agents)

ASSUME McpBoundsAssumption ==
    MaxMinted \in Nat /\ MaxWritten \in Nat /\ MaxLapses \in Nat

Scopes == {"read", "write"}
EntryTools == {"create_entry", "update_entry", "publish_entry"}

Tools == EntryTools \cup
    {"list_entries", "get_entry", "search_entries", "list_categories",
     "list_tags", "get_analytics", "list_images", "upload_image"}

Minted == 1 .. MaxMinted
Written == 1 .. MaxWritten
Credential == [scope : Scopes, author : Authors, revoked : BOOLEAN,
               used : BOOLEAN]
Unminted == [scope |-> "read", author |-> 1, revoked |-> TRUE, used |-> FALSE]

VARIABLES
    credential, \* the mcp_tokens table
    minted,     \* its AUTOINCREMENT counter
    operators,  \* ids in the users table
    call,       \* what each agent is doing
    written,    \* history: the writes, each with the row it made or changed
    audit,      \* the mcp_audit_log table, in the order of its ids
    late,       \* history: the agents a token had admitted when it was revoked
    lapses      \* number of failed statements and lost clients

mcpVars == <<credential, minted, operators, call, written, audit, late, lapses>>

Quiet == [pc |-> "quiet", scope |-> "read", token |-> 0, author |-> 0,
          tool |-> "none", target |-> 0]

Call == [pc : {"quiet", "mint", "known", "granted", "insert", "update",
               "tags", "audit"},
         scope : Scopes, token : Minted \cup {0}, author : Authors \cup {0},
         tool : Tools \cup {"none"}, target : Written \cup {0}]

(* A row of the audit log; a write has one too, and the row's author.       *)
Signature == [tool : Tools, target : Written, token : Minted \cup {0},
              author : Authors]
Write == [by : Signature, owner : Authors, excused : BOOLEAN]

McpInit ==
    /\ credential = [t \in Minted |-> Unminted] /\ minted = 0
    /\ operators = Authors
    /\ call = [a \in Agents |-> Quiet]
    /\ written = <<>> /\ audit = <<>>
    /\ late = [t \in Minted |-> {}]
    /\ lapses = 0

Lapse == lapses < MaxLapses /\ lapses' = lapses + 1

(* The end of a request.                                                    *)
Hush(a) ==
    /\ call' = [call EXCEPT ![a] = Quiet]
    /\ late' = [t \in Minted |-> late[t] \ {a}]

Step(a, pc) == call' = [call EXCEPT ![a].pc = pc]

-----------------------------------------------------------------------------
(* The administrator's side.                                                *)

(* ListUsers, and the check that the author is one of them.                 *)
McpTokensCreate(a) ==
    /\ call[a] = Quiet /\ minted < MaxMinted
    /\ \E scope \in Scopes, author \in operators :
          call' = [call EXCEPT ![a] = [Quiet EXCEPT !.pc = "mint",
                      !.scope = scope, !.author = author]]
    /\ UNCHANGED <<credential, minted, operators, written, audit, late, lapses>>

(* The INSERT; no foreign key looks at the author again.                    *)
CreateMCPToken(a) ==
    /\ call[a].pc = "mint" /\ minted < MaxMinted
    /\ minted' = minted + 1
    /\ credential' = [credential EXCEPT ![minted + 1] =
          [scope |-> call[a].scope, author |-> call[a].author,
           revoked |-> FALSE, used |-> FALSE]]
    /\ Hush(a)
    /\ UNCHANGED <<operators, written, audit, lapses>>

Admitted(t) == {a \in Agents : call[a].token = t}

RevokeMCPToken(t) ==
    /\ t <= minted /\ ~credential[t].revoked
    /\ credential' = [credential EXCEPT ![t].revoked = TRUE]
    /\ late' = [late EXCEPT ![t] = Admitted(t)]
    /\ UNCHANGED <<minted, operators, call, written, audit, lapses>>

(* userDelete, which leaves the tokens of the user as they are.             *)
RemoveOperator(u) ==
    /\ u \in operators /\ operators # {u}
    /\ operators' = operators \ {u}
    /\ UNCHANGED <<credential, minted, call, written, audit, late, lapses>>

-----------------------------------------------------------------------------
(* A request over HTTP, from its bearer token to its answer.                *)

AnyToken(t) == t \in 1 .. minted
ActiveToken(t) == t \in 1 .. minted /\ ~credential[t].revoked

MCPTokenByHash(a, t) ==
    /\ call[a] = Quiet /\ ActiveToken(t)
    /\ call' = [call EXCEPT ![a] = [Quiet EXCEPT !.pc = "known", !.token = t,
                   !.scope = credential[t].scope,
                   !.author = credential[t].author]]
    /\ UNCHANGED <<credential, minted, operators, written, audit, late, lapses>>

TouchMCPToken(a) ==
    /\ call[a].pc = "known"
    /\ \/ /\ credential' = [credential EXCEPT ![call[a].token].used = TRUE]
          /\ lapses' = lapses
       \/ Lapse /\ UNCHANGED credential
    /\ Step(a, "granted")
    /\ UNCHANGED <<minted, operators, written, audit, late>>

(* A line on stdio has write scope and the seed admin, and no token.        *)
HandleServeLine(a) ==
    /\ call[a] = Quiet
    /\ call' = [call EXCEPT ![a] = [Quiet EXCEPT !.pc = "granted",
                   !.scope = "write", !.author = 1]]
    /\ UNCHANGED <<credential, minted, operators, written, audit, late, lapses>>

RequiredScope(tool) ==
    IF tool \in EntryTools \cup {"upload_image"} THEN "write" ELSE "read"

(* The tools of tools/list: those callTool would run.                       *)
ToolDescriptors(scope) == {tool \in Tools : RequiredScope(tool) \in {"read", scope}}

EntryIds == {n \in 1 .. Len(written) : written[n].by.tool = "create_entry"}

(* A method that runs no tool, a tool that only reads, one that the scope   *)
(* does not reach or whose arguments do not parse: the answer, and no step. *)
AnswerCall(a) ==
    /\ call[a].pc = "granted"
    /\ Hush(a)
    /\ UNCHANGED <<credential, minted, operators, written, audit, lapses>>

(* callTool: the gate, then the tool up to its first write.                 *)
CallTool(a, tool) ==
    /\ call[a].pc = "granted" /\ Len(written) < MaxWritten
    /\ tool \in ToolDescriptors(call[a].scope)
    /\ \/ /\ tool \in {"create_entry", "upload_image"}
          /\ call' = [call EXCEPT ![a].pc = "insert", ![a].tool = tool]
       \/ /\ tool \in {"update_entry", "publish_entry"}
          /\ \E e \in EntryIds :
                call' = [call EXCEPT ![a].pc = "update", ![a].tool = tool,
                                     ![a].target = e]
    /\ UNCHANGED <<credential, minted, operators, written, audit, late, lapses>>

(* The user a row is attributed to.                                         *)
AuthorIDForCtx(a) == IF call[a].author > 0 THEN call[a].author ELSE 1

Excused(a) ==
    LET t == call[a].token IN t = 0 \/ ~credential[t].revoked \/ a \in late[t]

Signed(a, target) == [tool |-> call[a].tool, target |-> target,
                      token |-> call[a].token, author |-> call[a].author]

(* What follows the row: the tags, for a call that names any, or the audit  *)
(* log.                                                                     *)
FollowersOfSaves(tool) ==
    IF tool \in EntryTools \ {"publish_entry"} THEN {"tags", "audit"}
    ELSE IF tool = "upload_image" THEN {"audit"} ELSE {"quiet"}

Followers(tool) ==
    IF tool \in EntryTools \ {"publish_entry"} THEN {"tags", "audit"}
    ELSE {"audit"}

(* CreateEntry or CreateImage.                                              *)
InsertRow(a) ==
    /\ call[a].pc = "insert" /\ Len(written) < MaxWritten
    /\ LET n == Len(written) + 1 IN
          /\ written' = Append(written,
                [by |-> Signed(a, n), owner |-> AuthorIDForCtx(a),
                 excused |-> Excused(a)])
          /\ \E pc \in Followers(call[a].tool) :
                call' = [call EXCEPT ![a].pc = pc, ![a].target = n]
    /\ UNCHANGED <<credential, minted, operators, audit, late, lapses>>

(* UpdateEntry writes every column but the author.                          *)
UpdateRow(a) ==
    /\ call[a].pc = "update" /\ Len(written) < MaxWritten
    /\ LET e == call[a].target IN written' = Append(written,
          [by |-> Signed(a, e), owner |-> written[e].owner,
           excused |-> Excused(a)])
    /\ \E pc \in Followers(call[a].tool) : Step(a, pc)
    /\ UNCHANGED <<credential, minted, operators, audit, late, lapses>>

(* applyTags; when it fails the tool answers with the error, and the row    *)
(* stays without a line in the audit log.                                   *)
ApplyTags(a) ==
    /\ call[a].pc = "tags"
    /\ \/ Step(a, "audit") /\ UNCHANGED <<late, lapses>>
       \/ Lapse /\ Hush(a)
    /\ UNCHANGED <<credential, minted, operators, written, audit>>

(* A failed insert is only logged.                                          *)
AuditWrite(a) ==
    /\ call[a].pc = "audit"
    /\ \/ audit' = Append(audit, Signed(a, call[a].target)) /\ lapses' = lapses
       \/ Lapse /\ audit' = audit
    /\ Hush(a)
    /\ UNCHANGED <<credential, minted, operators, written>>

(* The statement that fails for its arguments: the tool answers an error.   *)
Refuse(a) ==
    /\ call[a].pc \in {"mint", "insert", "update"}
    /\ Hush(a)
    /\ UNCHANGED <<credential, minted, operators, written, audit, lapses>>

(* The client goes away, or the process stops: no statement after it.       *)
HangUpCall(a) ==
    /\ call[a].pc \in {"tags", "audit"}
    /\ Lapse /\ Hush(a)
    /\ UNCHANGED <<credential, minted, operators, written, audit>>

-----------------------------------------------------------------------------
Handled(a) ==
    \/ McpTokensCreate(a) \/ CreateMCPToken(a)
    \/ \E t \in Minted : MCPTokenByHash(a, t)
    \/ TouchMCPToken(a) \/ HandleServeLine(a) \/ AnswerCall(a)
    \/ \E tool \in Tools : CallTool(a, tool)
    \/ InsertRow(a) \/ UpdateRow(a) \/ ApplyTags(a) \/ AuditWrite(a)
    \/ Refuse(a) \/ HangUpCall(a)

McpNext ==
    \/ \E a \in Agents : Handled(a)
    \/ \E t \in Minted : RevokeMCPToken(t)
    \/ \E u \in Authors : RemoveOperator(u)

McpSpec == McpInit /\ [][McpNext]_mcpVars

-----------------------------------------------------------------------------
(* Every variable stays in its domain.                                      *)
McpTypeOk ==
    /\ credential \in [Minted -> Credential] /\ minted \in 0 .. MaxMinted
    /\ operators \subseteq Authors
    /\ call \in [Agents -> Call]
    /\ written \in Seq(Write) /\ Len(written) <= MaxWritten
    /\ audit \in Seq(Signature)
    /\ late \in [Minted -> SUBSET Agents]
    /\ lapses \in 0 .. MaxLapses

(* Every write over MCP was made with a token of write scope and is signed  *)
(* with the author the token is bound to, or came on stdio and is the seed  *)
(* admin's; a row keeps the author who made it; and once a token is         *)
(* revoked, only the calls it had admitted by then write (mcpHTTPHandler,   *)
(* callTool, MCPTokenByHash, RevokeMCPToken).                               *)
OnlyGrantedWrites ==
    \A n \in DOMAIN written : LET w == written[n].by IN
        /\ w.token = 0 => w.author = 1
        /\ w.token # 0 => /\ credential[w.token].scope = "write"
                          /\ credential[w.token].author = w.author
        /\ written[n].excused
        /\ written[n].owner = written[w.target].by.author

(* The audit log never has more lines for a write than there were such      *)
(* writes, and a write is without its line, or a token that wrote without   *)
(* its last use, only where a statement failed or the client had gone       *)
(* (auditWrite, TouchMCPToken: both are logged and let the call go on).     *)
AuditFollowsWrites ==
    /\ \A i \in DOMAIN audit :
          Cardinality({j \in DOMAIN audit : audit[j] = audit[i]}) <=
          Cardinality({n \in DOMAIN written : written[n].by = audit[i]})
    /\ Len(written) <= Len(audit) + lapses
          + Cardinality({a \in Agents : call[a].pc \in {"tags", "audit"}})
    /\ Cardinality({t \in Minted : ~credential[t].used /\
          \E n \in DOMAIN written : written[n].by.token = t}) <= lapses
=============================================================================
