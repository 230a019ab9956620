------------------------------ MODULE Webhooks ------------------------------
(***************************************************************************)
(* Outgoing webhooks: the screens that keep the subscriptions              *)
(* (webhookCreate, webhookUpdate, webhookToggle, webhookDelete,            *)
(* webhookTest), Service.Dispatch, which a saved entry, a comment or an    *)
(* upload calls, and deliverOne, which logs an attempt, posts it, records  *)
(* its outcome and prunes the log.                                         *)
(*                                                                         *)
(* A server delivers to every subscriber on a goroutine of its own, apart  *)
(* from the request; a CGI process delivers to one after the other before  *)
(* it answers.  A test is delivered within its request, and on a server    *)
(* dies with it when the browser goes away.  Each statement is a step.     *)
(***************************************************************************)
EXTENDS Naturals, FiniteSets

CONSTANTS
    Screens,        \* requests of the settings screens
    Senders,        \* goroutines, or CGI requests, that deliver
    Secrets,        \* signing secrets an operator may type; "" is no secret
    MaxWebhooks,    \* maxWebhooks: subscriptions a weblog may have
    Retention,      \* deliveriesRetention: rows of the log kept per hook
    MaxHooks,       \* bound: subscriptions ever created
    MaxDeliveries,  \* bound: rows of the log ever inserted
    MaxMishaps      \* bound: kills and statements that fail

ASSUME RetentionAssumption == Retention \in Nat \ {0}
ASSUME MaxWebhooksAssumption == MaxWebhooks \in Nat \ {0}
ASSUME HookBoundsAssumption ==
    MaxHooks \in Nat /\ MaxDeliveries \in Nat /\ MaxMishaps \in Nat
ASSUME SendersAssumption == IsFiniteSet(Senders) /\ IsFiniteSet(Screens)

HookIds == 1 .. MaxHooks
DeliveryIds == 1 .. MaxDeliveries

VARIABLES
    cgi,            \* whether every request is a process
    hook,           \* the webhooks table
    nextHook,       \* its AUTOINCREMENT counter
    log,            \* the webhook_deliveries table
    nextDelivery,   \* its AUTOINCREMENT counter
    screen,         \* what each request of the screens has read
    sender,         \* what each delivery is at
    mishaps,        \* number of kills and failures so far
    made,           \* history: the hook of every row ever inserted
    lost,           \* history: rows whose outcome a kill or a failure kept out
    untidy,         \* history: hooks with an attempt since the last pruning
                    \* that ended without one
    want,           \* history: what the operators last asked of each hook
    overtaken       \* history: hooks written on the strength of a stale row

webhooksVars == <<cgi, hook, nextHook, log, nextDelivery, screen, sender,
                  mishaps, made, lost, untidy, want, overtaken>>
tables == <<cgi, hook, nextHook, log, nextDelivery>>
settings == <<hook, nextHook, screen, want, overtaken>>

Setting == [secret : Secrets \cup {""}, active : BOOLEAN]
NoHook == [there |-> FALSE, secret |-> "", active |-> FALSE]
NoRow == [hook |-> 0, state |-> "none"]
Away == [op |-> "none", id |-> 0, secret |-> "", active |-> FALSE]
Resting == [pc |-> "rest", todo |-> {}, hook |-> 0, row |-> 0, bound |-> FALSE,
            gone |-> FALSE]

WebhooksInit ==
    /\ cgi \in BOOLEAN
    /\ hook = [h \in HookIds |-> NoHook]
    /\ nextHook = 1
    /\ log = [d \in DeliveryIds |-> NoRow]
    /\ nextDelivery = 1
    /\ screen = [s \in Screens |-> Away]
    /\ sender = [p \in Senders |-> Resting]
    /\ mishaps = 0
    /\ made = [d \in DeliveryIds |-> 0]
    /\ lost = {}
    /\ untidy = {}
    /\ want = [h \in HookIds |-> [secret |-> "", active |-> FALSE]]
    /\ overtaken = {}

Hooks == {h \in HookIds : hook[h].there}
RowsOf(h) == {d \in DeliveryIds : log[d].hook = h}

-----------------------------------------------------------------------------
(* The settings screens.                                                    *)

Leave(s) == screen' = [screen EXCEPT ![s] = Away]
Free(s) == screen[s].op = "none"

(***************************************************************************)
(* webhookCreate: countWebhooks and the cap.                               *)
(***************************************************************************)
CountHooks(s) ==
    /\ Free(s)
    /\ Cardinality(Hooks) < MaxWebhooks
    /\ screen' = [screen EXCEPT ![s] = [Away EXCEPT !.op = "create"]]
    /\ UNCHANGED <<tables, sender, mishaps, made, lost, untidy, want, overtaken>>

CreateHook(s) ==
    /\ screen[s].op = "create"
    /\ nextHook \in HookIds
    /\ \E f \in Setting :
        /\ hook' = [hook EXCEPT ![nextHook] =
                      [there |-> TRUE, secret |-> f.secret, active |-> f.active]]
        /\ want' = [want EXCEPT ![nextHook] = f]
    /\ nextHook' = nextHook + 1
    /\ Leave(s)
    /\ UNCHANGED <<cgi, log, nextDelivery, sender, mishaps, made, lost,
                   untidy, overtaken>>

(***************************************************************************)
(* loadWebhook, which the four other screens begin with.                   *)
(***************************************************************************)
LoadHook(s) ==
    /\ Free(s)
    /\ \E op \in {"update", "toggle", "delete", "test"}, h \in Hooks :
        screen' = [screen EXCEPT ![s] = [op |-> op, id |-> h,
                     secret |-> hook[h].secret, active |-> hook[h].active]]
    /\ UNCHANGED <<tables, sender, mishaps, made, lost, untidy, want, overtaken>>

(* Bug: a secret that is left blank is cleared.                             *)
MergedBlank(base, typed) == IF typed \in Secrets THEN typed ELSE ""

(* parseWebhookForm: a secret left blank is that of the row read.           *)
Merged(base, typed) == IF typed = "keep" THEN base ELSE typed

(***************************************************************************)
(* webhookUpdate: UpdateWebhook writes every column, the secret of the row *)
(* it read when none was typed; no row, no write.                          *)
(***************************************************************************)
UpdateHook(s) ==
    /\ screen[s].op = "update"
    /\ LET h == screen[s].id IN
       IF ~hook[h].there THEN UNCHANGED <<hook, want, overtaken>>
       ELSE \E typed \in Secrets \cup {"keep", ""}, on \in BOOLEAN :
             /\ hook' = [hook EXCEPT ![h].secret = Merged(screen[s].secret, typed),
                                     ![h].active = on]
             /\ want' = [want EXCEPT ![h] =
                   [secret |-> IF typed = "keep" THEN want[h].secret ELSE typed,
                    active |-> on]]
             /\ overtaken' =
                   IF typed = "keep" /\ screen[s].secret # hook[h].secret
                     THEN overtaken \cup {h} ELSE overtaken
    /\ Leave(s)
    /\ UNCHANGED <<cgi, nextHook, log, nextDelivery, sender, mishaps, made, lost,
                   untidy>>

(***************************************************************************)
(* webhookToggle: SetWebhookActive to the opposite of what was read.       *)
(***************************************************************************)
ToggleHook(s) ==
    /\ screen[s].op = "toggle"
    /\ LET h == screen[s].id IN
       IF ~hook[h].there THEN UNCHANGED <<hook, want, overtaken>>
       ELSE /\ hook' = [hook EXCEPT ![h].active = ~screen[s].active]
            /\ want' = [want EXCEPT ![h].active = ~@]
            /\ overtaken' = IF screen[s].active # hook[h].active
                              THEN overtaken \cup {h} ELSE overtaken
    /\ Leave(s)
    /\ UNCHANGED <<cgi, nextHook, log, nextDelivery, sender, mishaps, made, lost,
                   untidy>>

(***************************************************************************)
(* webhookDelete: the rows of the log go with their hook.                  *)
(***************************************************************************)
DeleteHook(s) ==
    /\ screen[s].op = "delete"
    /\ LET h == screen[s].id IN
        /\ hook' = [hook EXCEPT ![h] = NoHook]
        /\ log' = [d \in DeliveryIds |-> IF log[d].hook = h THEN NoRow ELSE log[d]]
    /\ Leave(s)
    /\ UNCHANGED <<cgi, nextHook, nextDelivery, sender, mishaps, made, lost,
                   untidy, want, overtaken>>

(* The form is refused, the weblog is full, or the browser went away.       *)
CloseForm(s) ==
    /\ ~Free(s)
    /\ Leave(s)
    /\ UNCHANGED <<tables, sender, mishaps, made, lost, untidy, want, overtaken>>

-----------------------------------------------------------------------------
(* Deliveries.                                                              *)

Subscribers == {h \in Hooks : hook[h].active}

Take(hs, bound) ==
    [Resting EXCEPT !.pc = "create", !.todo = hs, !.bound = bound]

Resters == {p \in Senders : sender[p] = Resting}

(***************************************************************************)
(* Dispatch of an event: the subscribers are read once; a server starts a  *)
(* goroutine for each, a CGI request takes them all.                       *)
(***************************************************************************)
Dispatch ==
    /\ Subscribers # {}
    /\ \E to \in [Subscribers -> Resters] :
        /\ \A g, h \in Subscribers : g # h => (to[g] = to[h]) = cgi
        /\ sender' = [p \in Senders |->
             LET mine == {h \in Subscribers : to[h] = p}
             IN IF mine = {} THEN sender[p] ELSE Take(mine, FALSE)]
    /\ UNCHANGED <<tables, screen, mishaps, made, lost, untidy, want, overtaken>>

(***************************************************************************)
(* webhookTest: DispatchOne delivers to the hook it read, switched on or   *)
(* not.  Only a server's request is cancelled when its browser goes away.  *)
(***************************************************************************)
TestHook(s) ==
    /\ screen[s].op = "test"
    /\ \E p \in Resters :
        sender' = [sender EXCEPT ![p] = Take({screen[s].id}, ~cgi)]
    /\ Leave(s)
    /\ UNCHANGED <<tables, mishaps, made, lost, untidy, want, overtaken>>

(* What a delivery goes on to when it is done with its hook.                *)
NextHook(p) ==
    LET rest == sender[p].todo \ {sender[p].hook}
    IN IF rest = {} THEN Resting
       ELSE [sender[p] EXCEPT !.pc = "create", !.todo = rest, !.hook = 0, !.row = 0]

(* A statement fails: its request was cancelled, or the database is busy.   *)
Fails(p) ==
    IF sender[p].gone THEN mishaps' = mishaps
    ELSE mishaps < MaxMishaps /\ mishaps' = mishaps + 1

Works(p) == ~sender[p].gone /\ mishaps' = mishaps

(***************************************************************************)
(* deliverOne: the payload is encoded and the attempt logged.  A payload   *)
(* that is too large is logged as well; a hook that was deleted meanwhile  *)
(* takes no row, and nothing is sent.                                      *)
(***************************************************************************)
CreateDelivery(p, h) ==
    /\ sender[p].pc = "create"
    /\ h \in sender[p].todo
    /\ \/ /\ Works(p)
          /\ hook[h].there
          /\ nextDelivery \in DeliveryIds
          /\ log' = [log EXCEPT ![nextDelivery] = [hook |-> h, state |-> "pending"]]
          /\ made' = [made EXCEPT ![nextDelivery] = h]
          /\ nextDelivery' = nextDelivery + 1
          /\ \E pc \in {"post", "refuse"} :
               sender' = [sender EXCEPT ![p].pc = pc, ![p].hook = h,
                                        ![p].row = nextDelivery]
       \/ /\ \/ Works(p) /\ ~hook[h].there
             \/ Fails(p)
          /\ sender' = [sender EXCEPT ![p] =
               IF sender[p].todo = {h} THEN Resting
               ELSE [sender[p] EXCEPT !.todo = @ \ {h}]]
          /\ UNCHANGED <<log, made, nextDelivery>>
    /\ UNCHANGED <<cgi, settings, lost, untidy>>

(***************************************************************************)
(* The receiver has answered or not, or nothing was sent: the outcome goes *)
(* into the row, if it is still there.  An attempt that was not posted     *)
(* ends here.                                                              *)
(***************************************************************************)
Record(p) ==
    /\ sender[p].pc \in {"post", "refuse"}
    /\ \/ /\ Works(p)
          /\ log' = IF log[sender[p].row] = NoRow THEN log
                    ELSE [log EXCEPT ![sender[p].row].state = "done"]
          /\ UNCHANGED lost
       \/ /\ Fails(p)
          /\ lost' = lost \cup {sender[p].row}
          /\ UNCHANGED log
    /\ IF sender[p].pc = "post"
         THEN sender' = [sender EXCEPT ![p].pc = "prune"] /\ UNCHANGED untidy
         ELSE /\ sender' = [sender EXCEPT ![p] = NextHook(p)]
              /\ untidy' = untidy \cup {sender[p].hook}
    /\ UNCHANGED <<cgi, nextDelivery, settings, made>>

(* Bug: the newest rows of all hooks together are kept.                     *)
KeptOfAll(h) ==
    {d \in DeliveryIds : log[d] # NoRow
        /\ Cardinality({e \in DeliveryIds : log[e] # NoRow /\ e > d}) < Retention}

(* The newest rows of a hook.                                               *)
Kept(h) ==
    {d \in RowsOf(h) : Cardinality({e \in RowsOf(h) : e > d}) < Retention}

(***************************************************************************)
(* PruneWebhookDeliveries, best effort.                                    *)
(***************************************************************************)
Prune(p) ==
    /\ sender[p].pc = "prune"
    /\ LET h == sender[p].hook IN
        \/ /\ Works(p)
           /\ log' = [d \in DeliveryIds |->
                        IF d \in RowsOf(h) \ Kept(h) THEN NoRow ELSE log[d]]
           /\ untidy' = untidy \ {h}
        \/ /\ Fails(p)
           /\ untidy' = untidy \cup {h}
           /\ UNCHANGED log
    /\ sender' = [sender EXCEPT ![p] = NextHook(p)]
    /\ UNCHANGED <<cgi, nextDelivery, settings, made, lost>>

(***************************************************************************)
(* The browser of a test goes away.                                        *)
(***************************************************************************)
HangUp(p) ==
    /\ sender[p].bound /\ ~sender[p].gone
    /\ sender' = [sender EXCEPT ![p].gone = TRUE]
    /\ UNCHANGED <<tables, screen, mishaps, made, lost, untidy, want, overtaken>>

(***************************************************************************)
(* The end of a process: of the server with all it does, or of one CGI     *)
(* request.                                                                *)
(***************************************************************************)
Kill ==
    /\ mishaps < MaxMishaps
    /\ mishaps' = mishaps + 1
    /\ \E dead \in {Senders} \cup {{p} : p \in Senders} :
        /\ (dead = Senders) \/ cgi
        /\ LET under == {p \in dead : sender[p].row # 0} IN
            /\ lost' = lost \cup {sender[p].row :
                                    p \in {q \in under : sender[q].pc # "prune"}}
            /\ untidy' = untidy \cup {sender[p].hook : p \in under}
        /\ sender' = [p \in Senders |-> IF p \in dead THEN Resting ELSE sender[p]]
    /\ screen' = IF cgi THEN screen ELSE [s \in Screens |-> Away]
    /\ UNCHANGED <<tables, made, want, overtaken>>

WebhooksNext ==
    \/ \E s \in Screens : CountHooks(s) \/ CreateHook(s) \/ LoadHook(s)
         \/ UpdateHook(s) \/ ToggleHook(s) \/ DeleteHook(s) \/ TestHook(s)
         \/ CloseForm(s)
    \/ Dispatch
    \/ \E p \in Senders : Record(p) \/ Prune(p) \/ HangUp(p)
         \/ \E h \in HookIds : CreateDelivery(p, h)
    \/ Kill

WebhooksSpec == WebhooksInit /\ [][WebhooksNext]_webhooksVars

-----------------------------------------------------------------------------
(* What the screens and the log promise.                                    *)

WebhooksTypeOk ==
    /\ cgi \in BOOLEAN
    /\ hook \in [HookIds -> [there : BOOLEAN, secret : Secrets \cup {""},
                             active : BOOLEAN]]
    /\ nextHook \in 1 .. MaxHooks + 1
    /\ log \in [DeliveryIds -> [hook : HookIds \cup {0},
                                state : {"none", "pending", "done"}]]
    /\ nextDelivery \in 1 .. MaxDeliveries + 1
    /\ screen \in [Screens ->
          [op : {"none", "create", "update", "toggle", "delete", "test"},
           id : HookIds \cup {0}, secret : Secrets \cup {""}, active : BOOLEAN]]
    /\ sender \in [Senders ->
          [pc : {"rest", "create", "post", "refuse", "prune"},
           todo : SUBSET HookIds, hook : HookIds \cup {0},
           row : DeliveryIds \cup {0}, bound : BOOLEAN, gone : BOOLEAN]]
    /\ mishaps \in 0 .. MaxMishaps
    /\ made \in [DeliveryIds -> HookIds \cup {0}]
    /\ lost \subseteq DeliveryIds
    /\ untidy \subseteq HookIds
    /\ want \in [HookIds -> Setting]
    /\ overtaken \subseteq HookIds

(***************************************************************************)
(* A subscription is switched, and signs, as its operators last asked,     *)
(* unless one of them was answered on the strength of a row that another   *)
(* request had changed in the very column: an edit that leaves the secret  *)
(* alone never undoes a secret rotated before its form was sent.           *)
(***************************************************************************)
SettingsFollowClicks ==
    \A h \in Hooks \ overtaken :
        want[h] = [secret |-> hook[h].secret, active |-> hook[h].active]

(***************************************************************************)
(* The log of a hook keeps the newest attempts whatever the deliveries     *)
(* that prune it at once: a row is missing only if as many newer ones are  *)
(* there.  And it keeps no more than those when no delivery to the hook is *)
(* under way, unless the last attempts were killed, failed on the log or   *)
(* were too large to send.                                                 *)
(***************************************************************************)
LogHoldsNewest ==
    \A h \in Hooks :
        /\ \A d \in DeliveryIds : made[d] = h /\ log[d] = NoRow =>
              Cardinality({e \in RowsOf(h) : e > d}) >= Retention
        /\ h \in untidy \/ (\E p \in Senders : sender[p].hook = h)
           \/ Cardinality(RowsOf(h)) <= Retention

(***************************************************************************)
(* A row of the log says "pending" only while its attempt is under way, or *)
(* when a kill, a hung-up test or a failing database kept its outcome out. *)
(***************************************************************************)
OutcomesRecorded ==
    \A d \in DeliveryIds : log[d].state = "pending" =>
        \/ d \in lost
        \/ \E p \in Senders : sender[p].row = d /\ sender[p].pc \in {"post", "refuse"}

(***************************************************************************)
(* The log of deliveries: nothing newer is pruned for older rows, and no   *)
(* outcome is left open.                                                   *)
(***************************************************************************)
DeliveriesLogged == LogHoldsNewest /\ OutcomesRecorded
=============================================================================
