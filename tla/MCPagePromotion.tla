--------------------------- MODULE MCPagePromotion ---------------------------
(***************************************************************************)
(* PagePromotion with pages /a, /a/b, /a/b/c and /o/p, and operators who   *)
(* keep /o and /o/s next to the page /o/p, and /a/s inside the page /a.    *)
(***************************************************************************)
EXTENDS PagePromotion

a == <<"a">>
ab == <<"a", "b">>
abc == <<"a", "b", "c">>
op == <<"o", "p">>

(* At most two roots lie on one path: what validatePageSlug allows, and     *)
(* what two concurrent saves can add to it.                                 *)
NoChain(P) == \A q, r, s \in P : ~(IsUnder(r, q) /\ IsUnder(s, r))

PairsNested == {P \in SUBSET {a, ab, abc, op} : NoChain(P)}
Chains == {{abc}, {a, ab, abc}}

OutsideDirs == {<<"o">>, <<"o", "s">>}
InsideAndOutside == OutsideDirs \cup {<<"a", "s">>}
=============================================================================
