------------------------------ MODULE Responses ------------------------------
(***************************************************************************)
(* What readers leave on the entries: comments (commentSubmit), likes and  *)
(* stamps (entryLike, entryStamp), with the moderation screen of the       *)
(* admin.  A submission reads the entry and the weblog, then the recent    *)
(* comments of its address, then the trust memory, and then inserts, each  *)
(* a statement or a transaction of its own; the counters on the entries    *)
(* row move in the transaction that changes what they count.               *)
(* The screening by content, cookies and webhooks are left out, and so are *)
(* failing statements.                                                     *)
(***************************************************************************)
EXTENDS ContentParameters

CommentIds == 1 .. MaxComments
Modes == {"open", "moderated", "closed"}
Verdicts == {"waiting", "approved", "hidden"}
Kinds == {"like"} \cup StampKinds
Comment == [id : CommentIds, article : Articles, status : Verdicts,
            email : Emails \cup {""}, address : Addresses, recent : BOOLEAN]

VARIABLES
    mode,        \* weblogs.comment_mode
    accepting,   \* the entries that are published and take comments
    existing,    \* the entries that have a row
    comments,    \* the rows of messages
    nextComment, \* messages: the AUTOINCREMENT counter
    reactions,   \* the rows of entry_likes and entry_stamps
    count,       \* entries: comments_count, likes_count and stamps_count
    visit,       \* what each request is doing
    known,       \* history: emails a comment was ever approved for
    unearned     \* history: comments let through in moderated mode whose
                 \* email had none approved

responsesVars == <<mode, accepting, existing, comments, nextComment, reactions,
                   count, visit, known, unearned>>

Away == [pc |-> "away"]
Submission == [pc : {"rate", "status", "insert"}, article : Articles,
               mode : Modes, email : Emails \cup {""}, address : Addresses,
               status : Verdicts]
Click == [pc : {"react"}, article : Articles, kind : Kinds, by : Fingerprints]

ResponsesInit ==
    /\ mode \in Modes
    /\ accepting = Articles
    /\ existing = Articles
    /\ comments = {}
    /\ nextComment = 1
    /\ reactions = {}
    /\ count = [a \in Articles |-> [comments |-> 0, likes |-> 0, stamps |-> 0]]
    /\ visit = [c \in Clients |-> Away]
    /\ known = {}
    /\ unearned = {}

tablesButComments == <<mode, accepting, existing, reactions>>

-----------------------------------------------------------------------------
(* loadCommentTarget, after the content has passed the screening.           *)
Submit(c, a, email, address) ==
    /\ visit[c] = Away
    /\ mode # "closed" /\ a \in accepting
    /\ visit' = [visit EXCEPT ![c] = [pc |-> "rate", article |-> a, mode |-> mode,
                   email |-> email, address |-> address, status |-> "waiting"]]
    /\ UNCHANGED <<tablesButComments, comments, nextComment, count, known, unearned>>

(* CountRecentCommentsFromIP.                                               *)
Recent(address) == Cardinality({m \in comments : m.recent /\ m.address = address})

UnderLimit(address) == Recent(address) < RateLimit

CheckRate(c) ==
    LET v == visit[c] IN
    /\ v.pc = "rate"
    /\ visit' = [visit EXCEPT ![c] =
          IF UnderLimit(v.address) THEN [v EXCEPT !.pc = "status"] ELSE Away]
    /\ UNCHANGED <<tablesButComments, comments, nextComment, count, known, unearned>>

(* Bug: a comment still in the queue is enough.                             *)
Commented(email) == \E m \in comments : m.email = email

(* HasApprovedCommentFromEmail.                                             *)
Trusted(email) == \E m \in comments : m.email = email /\ m.status = "approved"

(***************************************************************************)
(* resolveMessageStatus, by the mode the request read when it came in.     *)
(***************************************************************************)
StatusFor(v) ==
    IF v.mode = "open" \/ (v.email # "" /\ Trusted(v.email))
    THEN "approved" ELSE "waiting"

ResolveStatus(c) ==
    LET v == visit[c] IN
    /\ v.pc = "status"
    /\ visit' = [visit EXCEPT ![c] = [v EXCEPT !.pc = "insert", !.status = StatusFor(v)]]
    /\ UNCHANGED <<tablesButComments, comments, nextComment, count, known, unearned>>

(* UPDATE entries SET comments_count: of a row that may be gone.            *)
Counted(a, n) ==
    [count EXCEPT ![a].comments = IF a \in existing THEN @ + n ELSE @]
Uncounted(a, n) ==
    [count EXCEPT ![a].comments = IF a \in existing THEN @ - n ELSE @]

(* CreateMessage.                                                           *)
Insert(c) ==
    LET v == visit[c]
        approved == v.status = "approved"
    IN
    /\ v.pc = "insert" /\ nextComment <= MaxComments
    /\ comments' = comments \cup
          {[id |-> nextComment, article |-> v.article, status |-> v.status,
            email |-> v.email, address |-> v.address, recent |-> TRUE]}
    /\ nextComment' = nextComment + 1
    /\ count' = Counted(v.article, IF approved THEN 1 ELSE 0)
    /\ unearned' = unearned \cup {i \in {nextComment} :
                     approved /\ v.mode = "moderated" /\ v.email \notin known}
    /\ known' = known \cup {e \in {v.email} \ {""} : approved}
    /\ visit' = [visit EXCEPT ![c] = Away]
    /\ UNCHANGED tablesButComments

(* The window of the rate limit leaves the oldest comment behind.           *)
Slide ==
    \E m \in comments :
        /\ m.recent /\ \A n \in comments : n.recent => m.id <= n.id
        /\ comments' = (comments \ {m}) \cup {[m EXCEPT !.recent = FALSE]}
        /\ UNCHANGED <<tablesButComments, nextComment, count, visit, known, unearned>>

(* Bug: hiding takes one off, whatever the comment was before.              *)
HideUncounts(m, status) ==
    IF status = "approved" /\ m.status # "approved" THEN Counted(m.article, 1)
    ELSE IF status # "approved" THEN Uncounted(m.article, 1) ELSE count

(* The counter across a change of status.                                   *)
Recounted(m, status) ==
    IF status = "approved" /\ m.status # "approved" THEN Counted(m.article, 1)
    ELSE IF status # "approved" /\ m.status = "approved" THEN Uncounted(m.article, 1)
    ELSE count

(* commentApprove and commentHide: UpdateMessageStatus.                     *)
Judge(m, status) ==
    /\ comments' = (comments \ {m}) \cup {[m EXCEPT !.status = status]}
    /\ count' = Recounted(m, status)
    /\ known' = known \cup {e \in {m.email} \ {""} : status = "approved"}
    /\ UNCHANGED <<tablesButComments, nextComment, visit, unearned>>

(* commentDelete: DeleteMessage.                                            *)
DeleteMessage(m) ==
    /\ comments' = comments \ {m}
    /\ count' = IF m.status = "approved" THEN Uncounted(m.article, 1) ELSE count
    /\ UNCHANGED <<tablesButComments, nextComment, visit, known, unearned>>

(* The settings screen.                                                     *)
SetMode(new) ==
    /\ mode' = new
    /\ UNCHANGED <<accepting, existing, comments, nextComment, reactions, count,
                   visit, known, unearned>>

(* entryUpdate: the status of the entry, or its box for comments.           *)
Toggle(a) ==
    /\ a \in existing
    /\ accepting' = IF a \in accepting THEN accepting \ {a} ELSE accepting \cup {a}
    /\ UNCHANGED <<mode, existing, comments, nextComment, reactions, count, visit,
                   known, unearned>>

(* entryDelete: what readers left on the entry stays in its tables.         *)
DeleteArticle(a) ==
    /\ a \in existing
    /\ existing' = existing \ {a}
    /\ accepting' = accepting \ {a}
    /\ UNCHANGED <<mode, comments, nextComment, reactions, count, visit, known,
                   unearned>>

(* entryLike and entryStamp: resolveEntryKey.  An entry that takes no more  *)
(* comments may still be published.                                         *)
Press(c, a, kind, by) ==
    /\ visit[c] = Away /\ a \in existing
    /\ visit' = [visit EXCEPT ![c] = [pc |-> "react", article |-> a, kind |-> kind,
                                     by |-> by]]
    /\ UNCHANGED <<tablesButComments, comments, nextComment, count, known, unearned>>

New(row) == row \notin reactions

(* LikeEntry and StampEntry.                                                *)
React(c) ==
    LET v == visit[c]
        row == <<v.article, v.kind, v.by>>
        one == IF New(row) /\ v.article \in existing THEN 1 ELSE 0
    IN
    /\ v.pc = "react"
    /\ reactions' = reactions \cup {row}
    /\ count' = IF v.kind = "like" THEN [count EXCEPT ![v.article].likes = @ + one]
                ELSE [count EXCEPT ![v.article].stamps = @ + one]
    /\ visit' = [visit EXCEPT ![c] = Away]
    /\ UNCHANGED <<mode, accepting, existing, comments, nextComment, known, unearned>>

ResponsesNext ==
    \/ \E c \in Clients :
        \/ \E a \in Articles, email \in Emails \cup {""}, address \in Addresses :
              Submit(c, a, email, address)
        \/ CheckRate(c) \/ ResolveStatus(c) \/ Insert(c) \/ React(c)
        \/ \E a \in Articles, kind \in Kinds, by \in Fingerprints : Press(c, a, kind, by)
    \/ Slide
    \/ \E m \in comments : DeleteMessage(m) \/ \E s \in {"approved", "hidden"} : Judge(m, s)
    \/ \E new \in Modes : SetMode(new)
    \/ \E a \in Articles : Toggle(a) \/ DeleteArticle(a)

ResponsesSpec == ResponsesInit /\ [][ResponsesNext]_responsesVars

-----------------------------------------------------------------------------
(***************************************************************************)
(* Every variable stays in its domain.                                     *)
(***************************************************************************)
ResponsesTypeOk ==
    /\ mode \in Modes
    /\ accepting \subseteq existing /\ existing \subseteq Articles
    /\ comments \subseteq Comment
    /\ nextComment \in 1 .. MaxComments + 1
    /\ reactions \subseteq Articles \X Kinds \X Fingerprints
    /\ count \in [Articles -> [comments : Nat, likes : Nat, stamps : Nat]]
    /\ visit \in [Clients -> {Away} \cup Submission \cup Click]
    /\ known \subseteq Emails
    /\ unearned \subseteq CommentIds

Approved(a) == {m \in comments : m.article = a /\ m.status = "approved"}
Likes(a) == {r \in reactions : r[1] = a /\ r[2] = "like"}
Stamps(a) == {r \in reactions : r[1] = a /\ r[2] # "like"}

(***************************************************************************)
(* The denormalised counters of an entry agree with the rows they stand    *)
(* for through every order of submissions, moderation and deletions, and   *)
(* a browser counts once per entry and kind of reaction.                   *)
(***************************************************************************)
CountersMatch ==
    \A a \in existing :
        /\ count[a].comments = Cardinality(Approved(a))
        /\ count[a].likes = Cardinality(Likes(a))
        /\ count[a].stamps = Cardinality(Stamps(a))

(* The requests from an address that have passed the rate limit.            *)
Passed(address) ==
    {c \in Clients : visit[c].pc \in {"status", "insert"} /\ visit[c].address = address}

(***************************************************************************)
(* commentRateLimit: requests of one address that pass the count together  *)
(* exceed the limit by less than their number.                             *)
(***************************************************************************)
FloodBounded ==
    \A address \in Addresses :
        Recent(address) + Cardinality(Passed(address)) <=
            RateLimit + Cardinality(Clients) - 1

(***************************************************************************)
(* The trust memory: in moderated mode no comment is shown at once unless  *)
(* one from the same email was approved before, also when the mode changes *)
(* and comments are hidden or deleted while the submission is on its way.  *)
(***************************************************************************)
TrustIsEarned == unearned = {}

(***************************************************************************)
(* What the gate of comments promises: the limit, and the trust.           *)
(***************************************************************************)
GateHolds == FloodBounded /\ TrustIsEarned
=============================================================================
