---------------------------- MODULE PublishedSite ----------------------------
(***************************************************************************)
(* What a visitor of the static site may count on, with no word of how     *)
(* rebuild.Build produces it: every part of the site shows one version of  *)
(* the database, a part may disappear, and a part that is published again  *)
(* is never older than what was published there before.                    *)
(***************************************************************************)
EXTENDS Naturals

CONSTANT Parts      \* parts of the site that are replaced as a whole

VARIABLES
    latest,     \* version of the database
    shown,      \* version each part shows, 0 when it is not there
    floor       \* version each part showed last

vars == <<latest, shown, floor>>

Init == /\ latest = 1
        /\ shown = [u \in Parts |-> 0]
        /\ floor = [u \in Parts |-> 0]

Save == /\ latest' = latest + 1
        /\ UNCHANGED <<shown, floor>>

Publish(u) == \E v \in floor[u] .. latest :
                 /\ v > 0
                 /\ shown' = [shown EXCEPT ![u] = v]
                 /\ floor' = [floor EXCEPT ![u] = v]
                 /\ UNCHANGED latest

Disappear(U) == /\ shown' = [u \in Parts |-> IF u \in U THEN 0 ELSE shown[u]]
                /\ UNCHANGED <<latest, floor>>

Next == \/ Save
        \/ \E u \in Parts : Publish(u)
        \/ \E U \in SUBSET Parts : Disappear(U)

Spec == Init /\ [][Next]_vars
=============================================================================
