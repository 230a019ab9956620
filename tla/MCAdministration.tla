-------------------------- MODULE MCAdministration --------------------------
(***************************************************************************)
(* The parts of the administration side by side, of which one is in focus  *)
(* in a behaviour while the others rest: they share no table.              *)
(***************************************************************************)
EXTENDS MCAccounts, Webhooks

VARIABLE focus

AdministrationInit ==
    /\ focus \in {"accounts", "settings", "log"}
    /\ Init /\ WebhooksInit
    /\ focus # "log" => ~cgi

(* Two screens of one subscription, and no event.                           *)
SettingsFocus == nextHook' <= 2 /\ sender' = sender /\ mishaps' = mishaps

(* Subscriptions that are made before the first event, switched on and      *)
(* signed alike; then one screen at a time, on the first of them.           *)
LogFocus ==
    /\ \A s \in Screens : screen'[s].id # 2
    /\ screen' # screen /\ (\E s \in Screens : screen'[s].op = "create") =>
          nextDelivery = 1
    /\ \A h \in HookIds : hook'[h].there => hook'[h].active /\ hook'[h].secret = ""
    /\ \A s \in Screens : screen'[s].op \notin {"toggle", "update"}
    /\ \E s \in Screens : screen'[s] = Away

AdministrationNext ==
    \/ /\ focus = "accounts" /\ Next
       /\ UNCHANGED <<focus, webhooksVars>>
    \/ /\ focus \in {"settings", "log"} /\ WebhooksNext
       /\ focus = "settings" => SettingsFocus
       /\ focus = "log" => LogFocus
       /\ UNCHANGED <<focus, vars>>

AdministrationSpec ==
    AdministrationInit /\ [][AdministrationNext]_<<focus, vars, webhooksVars>>

(* Every variable of either module stays in its domain.                     *)
AdministrationTypeOk == TypeOk /\ WebhooksTypeOk
=============================================================================
