----------------------------- MODULE CodeGrants -----------------------------
(***************************************************************************)
(* What an authorization server owes the apps it serves, with no word of   *)
(* stores, of requests in flight or of restarts: a code is good for one    *)
(* access token at most, which goes to the app the code was issued to, and *)
(* a code or a token that is over never works again.                       *)
(***************************************************************************)
EXTENDS Sequences

CONSTANT Holders    \* who a code may be issued to

VARIABLES
    asked,      \* who each code was issued to, in order
    life,       \* what each code is: a "code", a "token" or "over"
    given       \* the tokens, in order: the code of each, and its holder

vars == <<asked, life, given>>

Init == asked = <<>> /\ life = <<>> /\ given = <<>>

Issue(p) == /\ asked' = Append(asked, p)
            /\ life' = Append(life, "code")
            /\ UNCHANGED given

Exchange(c) == /\ life[c] = "code"
               /\ life' = [life EXCEPT ![c] = "token"]
               /\ given' = Append(given, [code |-> c, app |-> asked[c]])
               /\ UNCHANGED asked

(* Time passes, an exchange is refused, a server stops.                     *)
End(C) == /\ life' = [c \in DOMAIN life |-> IF c \in C THEN "over" ELSE life[c]]
          /\ UNCHANGED <<asked, given>>

Next == \/ \E p \in Holders : Issue(p)
        \/ \E c \in DOMAIN life : Exchange(c)
        \/ \E C \in SUBSET DOMAIN life : End(C)

Spec == Init /\ [][Next]_vars
=============================================================================
