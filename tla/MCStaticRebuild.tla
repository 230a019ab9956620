--------------------------- MODULE MCStaticRebuild ---------------------------
(***************************************************************************)
(* StaticRebuild on small instances: one subtree rendered from             *)
(* loadBuildData and one with its own query, one file that is always       *)
(* written, style.css, one file with a toggle, one or two page roots.      *)
(***************************************************************************)
EXTENDS StaticRebuild, TLC

CONSTANTS p1, p2, p3, about, terms

MCSubtrees == {"entry", "category"}
MCLoaded == {"entry"}
MCTopFiles == {"index.html", "style.css", "llms.txt"}
MCToggled == {"llms.txt"}

(* The smaller instance: one file, one page root.                           *)
OneFile == {"index.html"}

SmallSites ==
    {[subs |-> {}, files |-> OneFile, pages |-> shown, auto |-> TRUE] : shown \in {{}, Pages}}

MCRank == [u \in Units |->
    CASE u = "entry" -> 1 [] u = "category" -> 2
      [] u = "index.html" -> 3 [] u = "style.css" -> 4 [] u = "llms.txt" -> 5
      [] OTHER -> 6]

(* A site before its first page, one with everything, one that emptied its  *)
(* stylesheet, unpublished the page and switched llms.txt off.              *)
Start0 == [subs |-> {"entry"}, files |-> {"index.html", "style.css", "llms.txt"},
           pages |-> {}, auto |-> TRUE]
Full == [subs |-> {"entry", "category"},
         files |-> {"index.html", "style.css", "llms.txt"},
         pages |-> Pages, auto |-> TRUE]
Bare == [subs |-> {"category"}, files |-> {"index.html", "style.css"},
         pages |-> {}, auto |-> FALSE]

StyledSites == {Start0, Full, Bare}

ServerHost == [p \in Requests |-> "server"]

(* Two requests of a server, and a process beside it: CGI, or a cron job.   *)
SharedOutput == [p \in Requests |-> IF p = p3 THEN "process" ELSE "server"]

(* The requests of one server differ in their name only.                    *)
Requesters == Permutations(Requests)
=============================================================================
