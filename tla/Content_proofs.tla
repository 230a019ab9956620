---------------------------- MODULE Content_proofs ----------------------------
(***************************************************************************)
(* Theorems about Responses, for any number of requests, entries, readers  *)
(* and comments: the counters are what they count, the gate of comments    *)
(* holds, and every variable stays in its domain, which rests on the       *)
(* counters; and about Templates, for any number of requests, templates    *)
(* and assets: one template is active, no edit is lost, and the assets     *)
(* have their files; about Images, for any number of requests, uploads and *)
(* rows to a page: pictures have their files and are shown once; and about *)
(* Categories, for any number of forms, categories and levels: the tree    *)
(* stays one, and the sidebar, full names and permalinks agree with it;    *)
(* and about Links, for any number of requests, rows and lengths of lists: *)
(* the blogroll stays what its operators made it.                          *)
(***************************************************************************)
EXTENDS MCContent, Entries_proofs, PageAdmin_proofs, FiniteSetTheorems,
        WellFoundedInduction, TLAPS

Counters == [comments : Nat, likes : Nat, stamps : Nat]

(* The tables that are counted: finite, and an id names one comment.        *)
RowsInv ==
    /\ IsFiniteSet(comments) /\ IsFiniteSet(reactions)
    /\ \A m \in comments : m.id < nextComment
    /\ \A m, n \in comments : m.id = n.id => m = n

CountInv == ResponsesTypeOk /\ RowsInv /\ CountersMatch

-----------------------------------------------------------------------------
(* An element of a finite set gives way to another one: p and q say        *)
(* whether the one is in the set and whether the other one comes in.       *)
LEMMA Replaced ==
    ASSUME NEW S, IsFiniteSet(S), NEW m, NEW x, x \notin S \ {m},
           NEW p \in {0, 1}, NEW q \in {0, 1}, m \in S <=> p = 1,
           NEW T, T = IF q = 1 THEN (S \ {m}) \cup {x} ELSE S \ {m}
    PROVE  IsFiniteSet(T) /\ Cardinality(T) = Cardinality(S) - p + q
<1> DEFINE k == Cardinality(S)
           R == S \ {m}
<1>1. k \in Nat
    BY FS_CardinalityType
<1>2. IsFiniteSet(R) /\ Cardinality(R) = k - p
    BY <1>1, FS_RemoveElement
<1> HIDE DEF k, R
<1>3. CASE q = 1
    <2>1. IsFiniteSet(R \cup {x}) /\ Cardinality(R \cup {x}) = Cardinality(R) + 1
        BY <1>2, FS_AddElement DEF R
    <2>2. T = R \cup {x}
        BY <1>3 DEF R
    <2>3. Cardinality(T) = k - p + q
        BY <1>1, <1>2, <1>3, <2>1, <2>2
    <2>4. QED BY <2>1, <2>2, <2>3 DEF k
<1>4. CASE q = 0
    <2>1. T = R
        BY <1>4 DEF R
    <2>2. Cardinality(T) = k - p + q
        BY <1>1, <1>2, <1>4, <2>1
    <2>3. QED BY <1>2, <2>1, <2>2 DEF k
<1>5. QED BY <1>3, <1>4

LEMMA Countable ==
    ASSUME RowsInv
    PROVE  /\ \A a : IsFiniteSet(Approved(a)) /\ Cardinality(Approved(a)) \in Nat
           /\ \A a : IsFiniteSet(Likes(a)) /\ Cardinality(Likes(a)) \in Nat
           /\ \A a : IsFiniteSet(Stamps(a)) /\ Cardinality(Stamps(a)) \in Nat
           /\ \A address : Recent(address) \in Nat
<1>1. \A T \in SUBSET comments : IsFiniteSet(T) /\ Cardinality(T) \in Nat
    BY FS_Subset, FS_CardinalityType DEF RowsInv
<1>2. \A T \in SUBSET reactions : IsFiniteSet(T) /\ Cardinality(T) \in Nat
    BY FS_Subset, FS_CardinalityType DEF RowsInv
<1>3. ASSUME NEW a PROVE IsFiniteSet(Approved(a)) /\ Cardinality(Approved(a)) \in Nat
    BY <1>1 DEF Approved
<1>4. ASSUME NEW a PROVE IsFiniteSet(Likes(a)) /\ Cardinality(Likes(a)) \in Nat
    BY <1>2 DEF Likes
<1>5. ASSUME NEW a PROVE IsFiniteSet(Stamps(a)) /\ Cardinality(Stamps(a)) \in Nat
    BY <1>2 DEF Stamps
<1>6. ASSUME NEW address PROVE Recent(address) \in Nat
    BY <1>1 DEF Recent
<1>7. QED BY <1>3, <1>4, <1>5, <1>6

(* One for the comments that count, or that are recent and from an address. *)
Shows(m, a) == IF m.article = a /\ m.status = "approved" THEN 1 ELSE 0
From(m, address) == IF m.recent /\ m.address = address THEN 1 ELSE 0

(* A comment is written over, by a moderator or by the clock.               *)
LEMMA RowReplaced ==
    ASSUME RowsInv, NEW m \in comments, NEW x, x.id = m.id,
           comments' = (comments \ {m}) \cup {x},
           nextComment' = nextComment, reactions' = reactions
    PROVE  /\ RowsInv'
           /\ \A a : Cardinality(Approved(a)')
                        = Cardinality(Approved(a)) - Shows(m, a) + Shows(x, a)
           /\ \A address : Recent(address)'
                        = Recent(address) - From(m, address) + From(x, address)
<1>1. x \notin comments \ {m}
    BY DEF RowsInv
<1>2. RowsInv'
    <2>1. IsFiniteSet(comments')
        BY FS_RemoveElement, FS_AddElement DEF RowsInv
    <2>2. QED BY <2>1 DEF RowsInv
<1>3. ASSUME NEW a
      PROVE  Cardinality(Approved(a)') = Cardinality(Approved(a)) - Shows(m, a) + Shows(x, a)
    <2> DEFINE S == Approved(a)
               T == Approved(a)'
    <2>1. IsFiniteSet(S) /\ x \notin S \ {m}
        BY <1>1, Countable DEF Approved
    <2>2. m \in S <=> Shows(m, a) = 1
        BY DEF Approved, Shows
    <2>3. T = IF Shows(x, a) = 1 THEN (S \ {m}) \cup {x} ELSE S \ {m}
        BY DEF Approved, Shows
    <2>4. Shows(m, a) \in {0, 1} /\ Shows(x, a) \in {0, 1}
        BY DEF Shows
    <2> HIDE DEF S, T
    <2>5. Cardinality(T) = Cardinality(S) - Shows(m, a) + Shows(x, a)
        BY <2>1, <2>2, <2>3, <2>4, Replaced
    <2>6. QED BY <2>5 DEF S, T
<1>4. ASSUME NEW address
      PROVE  Recent(address)' = Recent(address) - From(m, address) + From(x, address)
    <2> DEFINE S == {k \in comments : k.recent /\ k.address = address}
               T == {k \in comments' : k.recent /\ k.address = address}
    <2>1. IsFiniteSet(S) /\ x \notin S \ {m}
        BY <1>1, FS_Subset DEF RowsInv
    <2>2. m \in S <=> From(m, address) = 1
        BY DEF From
    <2>3. T = IF From(x, address) = 1 THEN (S \ {m}) \cup {x} ELSE S \ {m}
        BY DEF From
    <2>4. From(m, address) \in {0, 1} /\ From(x, address) \in {0, 1}
        BY DEF From
    <2> HIDE DEF S, T
    <2>5. Cardinality(T) = Cardinality(S) - From(m, address) + From(x, address)
        BY <2>1, <2>2, <2>3, <2>4, Replaced
    <2>6. QED BY <2>5 DEF S, T, Recent
<1>5. QED BY <1>2, <1>3, <1>4

LEMMA RowDeleted ==
    ASSUME RowsInv, NEW m \in comments, comments' = comments \ {m},
           nextComment' = nextComment, reactions' = reactions
    PROVE  /\ RowsInv'
           /\ \A a : Cardinality(Approved(a)') = Cardinality(Approved(a)) - Shows(m, a)
           /\ \A address : Recent(address)' <= Recent(address)
<1>1. RowsInv'
    BY FS_RemoveElement DEF RowsInv
<1>2. ASSUME NEW a
      PROVE  Cardinality(Approved(a)') = Cardinality(Approved(a)) - Shows(m, a)
    <2>1. IsFiniteSet(Approved(a)) /\ Cardinality(Approved(a)) \in Nat
        BY Countable
    <2>2. Approved(a)' = Approved(a) \ {m}
        BY DEF Approved
    <2>3. m \in Approved(a) <=> Shows(m, a) = 1
        BY DEF Approved, Shows
    <2>4. QED BY <2>1, <2>2, <2>3, FS_RemoveElement DEF Shows
<1>3. ASSUME NEW address PROVE Recent(address)' <= Recent(address)
    <2> DEFINE S == {k \in comments : k.recent /\ k.address = address}
               T == {k \in comments' : k.recent /\ k.address = address}
    <2>1. Recent(address) = Cardinality(S) /\ Recent(address)' = Cardinality(T)
        BY DEF Recent
    <2>2. IsFiniteSet(S) /\ T \in SUBSET S
        BY FS_Subset DEF RowsInv
    <2> HIDE DEF S, T
    <2>3. QED BY <2>1, <2>2, FS_Subset
<1>4. QED BY <1>1, <1>2, <1>3

LEMMA RowAdded ==
    ASSUME RowsInv, NEW x, x.id = nextComment, nextComment \in Nat,
           \A m \in comments : m.id \in Nat,
           comments' = comments \cup {x},
           nextComment' = nextComment + 1, reactions' = reactions
    PROVE  /\ RowsInv'
           /\ \A a : Cardinality(Approved(a)') = Cardinality(Approved(a)) + Shows(x, a)
           /\ \A address : Recent(address)' = Recent(address) + From(x, address)
<1>1. x \notin comments
    BY DEF RowsInv
<1>2. RowsInv'
    <2>1. IsFiniteSet(comments')
        BY FS_AddElement DEF RowsInv
    <2>2. \A m \in comments' : m.id < nextComment'
        BY DEF RowsInv
    <2>3. \A m \in comments : m.id # x.id
        BY DEF RowsInv
    <2>4. \A m, n \in comments' : m.id = n.id => m = n
        BY <2>3 DEF RowsInv
    <2>5. QED BY <2>1, <2>2, <2>4 DEF RowsInv
<1>3. ASSUME NEW a
      PROVE  Cardinality(Approved(a)') = Cardinality(Approved(a)) + Shows(x, a)
    <2>1. IsFiniteSet(Approved(a)) /\ Cardinality(Approved(a)) \in Nat /\ x \notin Approved(a)
        BY <1>1, Countable DEF Approved
    <2>2. CASE Shows(x, a) = 1
        <3>1. Approved(a)' = Approved(a) \cup {x}
            BY <2>2 DEF Approved, Shows
        <3>2. QED BY <2>1, <2>2, <3>1, FS_AddElement
    <2>3. CASE Shows(x, a) # 1
        <3>1. Approved(a)' = Approved(a) /\ Shows(x, a) = 0
            BY <2>3 DEF Approved, Shows
        <3>2. QED BY <2>1, <3>1
    <2>4. QED BY <2>2, <2>3
<1>4. ASSUME NEW address
      PROVE  Recent(address)' = Recent(address) + From(x, address)
    <2> DEFINE S == {k \in comments : k.recent /\ k.address = address}
               T == {k \in comments' : k.recent /\ k.address = address}
    <2>0. Recent(address) = Cardinality(S) /\ Recent(address)' = Cardinality(T)
        BY DEF Recent
    <2>1. IsFiniteSet(S) /\ Cardinality(S) \in Nat /\ x \notin S
        BY <1>1, FS_Subset, FS_CardinalityType DEF RowsInv
    <2>2. CASE From(x, address) = 1
        <3>1. T = S \cup {x}
            BY <2>2 DEF From
        <3> HIDE DEF S, T
        <3>2. QED BY <2>0, <2>1, <2>2, <3>1, FS_AddElement
    <2>3. CASE From(x, address) # 1
        <3>1. T = S /\ From(x, address) = 0
            BY <2>3 DEF From
        <3>2. QED BY <2>0, <2>1, <3>1
    <2>4. QED BY <2>2, <2>3
<1>5. QED BY <1>2, <1>3, <1>4

-----------------------------------------------------------------------------
(* Neither the rows nor the counters move; entries may go.                  *)
LEMMA Unmoved ==
    ASSUME RowsInv, CountersMatch, existing' \subseteq existing,
           UNCHANGED <<comments, nextComment, reactions, count>>
    PROVE  RowsInv' /\ CountersMatch'
<1>1. RowsInv'
    BY DEF RowsInv
<1>2. \A a : Approved(a)' = Approved(a) /\ Likes(a)' = Likes(a) /\ Stamps(a)' = Stamps(a)
    BY DEF Approved, Likes, Stamps
<1>3. CountersMatch'
    BY <1>2 DEF CountersMatch
<1>4. QED BY <1>1, <1>3

(* The counter of comments follows the comments of one entry.               *)
LEMMA CommentsCounted ==
    ASSUME CountersMatch, RowsInv, RowsInv', count \in [Articles -> Counters],
           existing \subseteq Articles, existing' = existing, reactions' = reactions,
           NEW a \in Articles, NEW d \in Int,
           \A b : Cardinality(Approved(b)')
                     = Cardinality(Approved(b)) + (IF b = a THEN d ELSE 0),
           count' = [count EXCEPT ![a].comments = IF a \in existing THEN @ + d ELSE @]
    PROVE  CountersMatch' /\ count' \in [Articles -> Counters]
<1>1. \A b : /\ Cardinality(Approved(b)) \in Nat
             /\ Cardinality(Approved(b)') \in Nat
    <2>1. \A b : Cardinality(Approved(b)) \in Nat
        BY Countable
    <2>2. ASSUME NEW b PROVE Cardinality(Approved(b)') \in Nat
        <3>1. Approved(b)' \subseteq comments' /\ IsFiniteSet(comments')
            BY DEF Approved, RowsInv
        <3>2. QED BY <3>1, FS_Subset, FS_CardinalityType
    <2>3. QED BY <2>1, <2>2
<1>2. \A b : Likes(b)' = Likes(b) /\ Stamps(b)' = Stamps(b)
    BY DEF Likes, Stamps
<1> DEFINE n == IF a \in existing THEN count[a].comments + d ELSE count[a].comments
<1>3. /\ count[a] \in Counters
      /\ count' = [count EXCEPT ![a] = [count[a] EXCEPT !.comments = n]]
    OBVIOUS
<1>4. n \in Nat /\ (a \in existing => (n = Cardinality(Approved(a)')))
    <2>1. CASE a \in existing
        <3>1. count[a].comments = Cardinality(Approved(a))
            BY <2>1 DEF CountersMatch
        <3>2. Cardinality(Approved(a)') = Cardinality(Approved(a)) + d
            OBVIOUS
        <3>3. n = Cardinality(Approved(a)')
            BY <2>1, <3>1, <3>2
        <3>4. QED BY <1>1, <3>3
    <2>2. CASE a \notin existing
        BY <1>3, <2>2 DEF Counters
    <2>3. QED BY <2>1, <2>2
<1> HIDE DEF n
<1>5. [count[a] EXCEPT !.comments = n] \in Counters
    BY <1>3, <1>4 DEF Counters
<1>6. count' \in [Articles -> Counters]
    BY <1>3, <1>5
<1>7. ASSUME NEW b \in existing'
      PROVE  /\ count'[b].comments = Cardinality(Approved(b)')
             /\ count'[b].likes = Cardinality(Likes(b)')
             /\ count'[b].stamps = Cardinality(Stamps(b)')
    <2>1. /\ count[b].comments = Cardinality(Approved(b))
          /\ count[b].likes = Cardinality(Likes(b))
          /\ count[b].stamps = Cardinality(Stamps(b))
        BY <1>7 DEF CountersMatch
    <2>2. CASE b = a
        <3>1. count'[b] = [count[a] EXCEPT !.comments = n]
            BY <1>3, <2>2
        <3>2. /\ count'[b].comments = n /\ count'[b].likes = count[b].likes
              /\ count'[b].stamps = count[b].stamps
            BY <1>3, <2>2, <3>1 DEF Counters
        <3>3. QED BY <1>2, <1>4, <2>1, <2>2, <3>2
    <2>3. CASE b # a
        <3>1. count'[b] = count[b] /\ Cardinality(Approved(b)') = Cardinality(Approved(b))
            BY <1>1, <1>3, <2>3
        <3>2. QED BY <1>2, <2>1, <3>1
    <2>4. QED BY <2>2, <2>3
<1>8. CountersMatch'
    BY <1>7 DEF CountersMatch
<1>9. QED BY <1>6, <1>8

(* A reaction is counted unless its row is there already.                   *)
LEMMA ReactionCounted ==
    ASSUME ResponsesTypeOk, RowsInv, CountersMatch, NEW c \in Clients, React(c)
    PROVE  ResponsesTypeOk' /\ RowsInv' /\ CountersMatch'
<1> DEFINE v == visit[c]
           row == <<v.article, v.kind, v.by>>
           a == v.article
           one == IF New(row) /\ a \in existing THEN 1 ELSE 0
<1>1. v \in Click /\ v.pc = "react" /\ count \in [Articles -> Counters]
    <2>1. v \in {Away} \cup Submission \cup Click /\ count \in [Articles -> Counters]
        BY DEF ResponsesTypeOk, Counters
    <2>2. v.pc = "react"
        BY DEF React
    <2> HIDE DEF v
    <2>3. v # Away
        BY <2>2 DEF Away
    <2>4. v \notin Submission
        BY <2>2 DEF Submission
    <2>5. QED BY <2>1, <2>2, <2>3, <2>4
<1>2. /\ a \in Articles /\ v.kind \in Kinds /\ row \in Articles \X Kinds \X Fingerprints
      /\ one \in {0, 1}
    BY <1>1 DEF Click
<1>3. reactions' = reactions \cup {row} /\ UNCHANGED <<existing, comments, nextComment>>
    BY DEF React
<1>4. RowsInv'
    BY <1>3, FS_AddElement DEF RowsInv
<1>5. \A b : Approved(b)' = Approved(b)
    BY <1>3 DEF Approved
<1> DEFINE likes(b) == IF b = a /\ New(row) /\ v.kind = "like" THEN 1 ELSE 0
           stamps(b) == IF b = a /\ New(row) /\ v.kind # "like" THEN 1 ELSE 0
<1>6. ASSUME NEW b
      PROVE  /\ Cardinality(Likes(b)') = Cardinality(Likes(b)) + likes(b)
             /\ Cardinality(Stamps(b)') = Cardinality(Stamps(b)) + stamps(b)
    <2>1. /\ IsFiniteSet(Likes(b)) /\ Cardinality(Likes(b)) \in Nat
          /\ IsFiniteSet(Stamps(b)) /\ Cardinality(Stamps(b)) \in Nat
        BY Countable
    <2>2. row[1] = a /\ row[2] = v.kind
        OBVIOUS
    <2>3. CASE likes(b) = 1
        <3>1. /\ Likes(b)' = Likes(b) \cup {row} /\ row \notin Likes(b)
              /\ Stamps(b)' = Stamps(b) /\ stamps(b) = 0
            BY <1>3, <2>2, <2>3 DEF Likes, Stamps, New
        <3> HIDE DEF row, likes, stamps
        <3>2. Cardinality(Likes(b)') = Cardinality(Likes(b)) + 1
            BY <2>1, <3>1, FS_AddElement
        <3>3. QED BY <2>1, <2>3, <3>1, <3>2
    <2>4. CASE stamps(b) = 1
        <3>1. /\ Stamps(b)' = Stamps(b) \cup {row} /\ row \notin Stamps(b)
              /\ Likes(b)' = Likes(b) /\ likes(b) = 0
            BY <1>3, <2>2, <2>4 DEF Likes, Stamps, New
        <3> HIDE DEF row, likes, stamps
        <3>2. Cardinality(Stamps(b)') = Cardinality(Stamps(b)) + 1
            BY <2>1, <3>1, FS_AddElement
        <3>3. QED BY <2>1, <2>4, <3>1, <3>2
    <2>5. CASE likes(b) # 1 /\ stamps(b) # 1
        <3>1. /\ Stamps(b)' = Stamps(b) /\ Likes(b)' = Likes(b)
              /\ likes(b) = 0 /\ stamps(b) = 0
            BY <1>3, <2>2, <2>5 DEF Likes, Stamps, New
        <3> HIDE DEF row, likes, stamps
        <3>2. QED BY <2>1, <3>1
    <2>6. QED BY <2>3, <2>4, <2>5
<1> DEFINE new == IF v.kind = "like" THEN [count[a] EXCEPT !.likes = @ + one]
                  ELSE [count[a] EXCEPT !.stamps = @ + one]
<1>7. /\ count[a] \in Counters /\ count' = [count EXCEPT ![a] = new]
    BY <1>1, <1>2 DEF React
<1>8. new \in Counters
    <2> HIDE DEF one
    <2>1. QED BY <1>2, <1>7 DEF Counters
<1>9. ResponsesTypeOk'
    <2>1. count' \in [Articles -> Counters]
        <3> HIDE DEF new
        <3>1. QED BY <1>1, <1>7, <1>8
    <2>2. reactions' \subseteq Articles \X Kinds \X Fingerprints
        BY <1>2, <1>3 DEF ResponsesTypeOk
    <2>3. visit' \in [Clients -> {Away} \cup Submission \cup Click]
        BY DEF React, ResponsesTypeOk
    <2>4. QED BY <2>1, <2>2, <2>3 DEF React, ResponsesTypeOk, Counters
<1>10. ASSUME NEW b \in existing'
       PROVE  /\ count'[b].comments = Cardinality(Approved(b)')
              /\ count'[b].likes = Cardinality(Likes(b)')
              /\ count'[b].stamps = Cardinality(Stamps(b)')
    <2>0. /\ b \in existing /\ b \in Articles
          /\ count[b].comments = Cardinality(Approved(b))
          /\ count[b].likes = Cardinality(Likes(b))
          /\ count[b].stamps = Cardinality(Stamps(b))
        BY <1>3, <1>10 DEF CountersMatch, ResponsesTypeOk
    <2>1. /\ Cardinality(Likes(b)) \in Nat /\ Cardinality(Stamps(b)) \in Nat
        BY Countable
    <2>2. CASE b # a
        <3>1. count'[b] = count[b] /\ likes(b) = 0 /\ stamps(b) = 0
            BY <1>1, <1>7, <2>0, <2>2
        <3> HIDE DEF row, likes, stamps, a
        <3>2. QED BY <1>5, <1>6, <2>0, <2>1, <3>1
    <2>3. CASE b = a
        <3>1. /\ count'[b] = new
              /\ one = IF New(row) THEN 1 ELSE 0
            BY <1>1, <1>2, <1>7, <2>0, <2>3
        <3>2. CASE v.kind = "like"
            <4>1. likes(b) = one /\ stamps(b) = 0
                BY <2>3, <3>1, <3>2
            <4> HIDE DEF one, likes, stamps
            <4>2. new = [count[a] EXCEPT !.likes = @ + one]
                BY <3>2
            <4>3. /\ new.comments = count[a].comments /\ new.stamps = count[a].stamps
                  /\ new.likes = count[a].likes + one
                BY <1>7, <4>2 DEF Counters
            <4> HIDE DEF new, a, row
            <4>4. QED BY <1>5, <1>6, <2>0, <2>1, <2>3, <3>1, <4>1, <4>3
        <3>3. CASE v.kind # "like"
            <4>1. stamps(b) = one /\ likes(b) = 0
                BY <2>3, <3>1, <3>3
            <4> HIDE DEF one, likes, stamps
            <4>2. new = [count[a] EXCEPT !.stamps = @ + one]
                BY <3>3
            <4>3. /\ new.comments = count[a].comments /\ new.likes = count[a].likes
                  /\ new.stamps = count[a].stamps + one
                BY <1>7, <4>2 DEF Counters
            <4> HIDE DEF new, a, row
            <4>4. QED BY <1>5, <1>6, <2>0, <2>1, <2>3, <3>1, <4>1, <4>3
        <3>4. QED BY <3>2, <3>3
    <2>4. QED BY <2>2, <2>3
<1>11. CountersMatch'
    BY <1>10 DEF CountersMatch
<1>12. QED BY <1>4, <1>9, <1>11

(* A request at one of the steps of commentSubmit holds a comment.          *)
LEMMA Submitted ==
    ASSUME ResponsesTypeOk, NEW c \in Clients,
           visit[c].pc \in {"rate", "status", "insert"}
    PROVE  visit[c] \in Submission
<1>1. visit[c] \in {Away} \cup Submission \cup Click
    BY DEF ResponsesTypeOk
<1>2. visit[c] # Away
    BY DEF Away
<1>3. visit[c] \notin Click
    BY DEF Click
<1>4. QED BY <1>1, <1>2, <1>3

LEMMA CountStep == CountInv /\ [ResponsesNext]_responsesVars => CountInv'
<1> SUFFICES ASSUME CountInv, [ResponsesNext]_responsesVars PROVE CountInv'
    OBVIOUS
<1> USE DEF CountInv
<1>0. count \in [Articles -> Counters] /\ existing \subseteq Articles
    BY DEF ResponsesTypeOk, Counters
<1>1. ASSUME NEW c \in Clients, NEW a \in Articles, NEW email \in Emails \cup {""},
             NEW address \in Addresses, Submit(c, a, email, address)
      PROVE  CountInv'
    <2>1. [pc |-> "rate", article |-> a, mode |-> mode, email |-> email,
           address |-> address, status |-> "waiting"] \in Submission
        BY DEF Submission, ResponsesTypeOk, Verdicts
    <2>2. ResponsesTypeOk'
        BY <1>1, <2>1 DEF Submit, tablesButComments, ResponsesTypeOk
    <2>3. QED BY <1>1, <2>2, Unmoved DEF Submit, tablesButComments
<1>2. ASSUME NEW c \in Clients, CheckRate(c) PROVE CountInv'
    <2>1. visit[c] \in Submission
        BY <1>2, Submitted DEF CheckRate
    <2>2. [visit[c] EXCEPT !.pc = "status"] \in Submission
        BY <2>1 DEF Submission
    <2>3. ResponsesTypeOk'
        BY <1>2, <2>2 DEF CheckRate, tablesButComments, ResponsesTypeOk
    <2>4. QED BY <1>2, <2>3, Unmoved DEF CheckRate, tablesButComments
<1>3. ASSUME NEW c \in Clients, ResolveStatus(c) PROVE CountInv'
    <2>1. visit[c] \in Submission
        BY <1>3, Submitted DEF ResolveStatus
    <2>2. StatusFor(visit[c]) \in Verdicts
        BY DEF StatusFor, Verdicts
    <2>3. [visit[c] EXCEPT !.pc = "insert", !.status = StatusFor(visit[c])] \in Submission
        BY <2>1, <2>2 DEF Submission
    <2>4. ResponsesTypeOk'
        BY <1>3, <2>3 DEF ResolveStatus, tablesButComments, ResponsesTypeOk
    <2>5. QED BY <1>3, <2>4, Unmoved DEF ResolveStatus, tablesButComments
<1>4. ASSUME NEW c \in Clients, Insert(c) PROVE CountInv'
    <2> DEFINE v == visit[c]
               x == [id |-> nextComment, article |-> v.article, status |-> v.status,
                     email |-> v.email, address |-> v.address, recent |-> TRUE]
               d == IF v.status = "approved" THEN 1 ELSE 0
    <2>1. v \in Submission
        BY <1>4, Submitted DEF Insert
    <2>2. /\ nextComment \in CommentIds /\ nextComment \in Nat
          /\ v.article \in Articles
        <3>1. nextComment <= MaxComments /\ nextComment \in 1 .. MaxComments + 1
            BY <1>4 DEF Insert, ResponsesTypeOk
        <3>2. v.article \in Articles
            BY <2>1 DEF Submission
        <3>3. MaxComments \in Nat
            BY ResponsesAssumption
        <3>4. nextComment \in CommentIds
            BY <3>1, <3>3 DEF CommentIds
        <3>5. QED BY <3>1, <3>2, <3>3, <3>4
    <2>3. x \in Comment /\ \A m \in comments : m.id \in Nat
        <3>1. x \in Comment
            <4> HIDE DEF v
            <4>1. QED BY <2>1, <2>2 DEF Comment, Submission
        <3>2. \A m \in comments : m \in Comment
            BY DEF ResponsesTypeOk
        <3>3. \A m \in comments : m.id \in CommentIds
            BY <3>2 DEF Comment
        <3>4. QED BY <3>1, <3>3 DEF CommentIds
    <2>4. /\ comments' = comments \cup {x} /\ nextComment' = nextComment + 1
          /\ reactions' = reactions /\ existing' = existing
          /\ count' = [count EXCEPT ![v.article].comments =
                          IF v.article \in existing THEN @ + d ELSE @]
        BY <1>4 DEF Insert, Counted, tablesButComments
    <2>5. /\ RowsInv'
          /\ \A b : Cardinality(Approved(b)') = Cardinality(Approved(b)) + Shows(x, b)
        BY <2>2, <2>3, <2>4, RowAdded
    <2>6. \A b : Shows(x, b) = IF b = v.article THEN d ELSE 0
        BY DEF Shows
    <2>7. d \in Int
        OBVIOUS
    <2>8. CountersMatch' /\ count' \in [Articles -> Counters]
        <3> HIDE DEF d, x
        <3>1. \A b : Cardinality(Approved(b)')
                        = Cardinality(Approved(b)) + (IF b = v.article THEN d ELSE 0)
            BY <2>5, <2>6
        <3> HIDE DEF v
        <3>2. QED BY <1>0, <2>2, <2>4, <2>5, <2>7, <3>1, CommentsCounted
    <2>9. ResponsesTypeOk'
        <3>1. comments' \subseteq Comment /\ nextComment' \in 1 .. MaxComments + 1
            <4> HIDE DEF x
            <4>1. comments' \subseteq Comment
                BY <2>3, <2>4 DEF ResponsesTypeOk
            <4>2. nextComment' \in 1 .. MaxComments + 1
                <5>1. MaxComments \in Nat
                    BY ResponsesAssumption
                <5>2. QED BY <2>2, <2>4, <5>1 DEF CommentIds
            <4>3. QED BY <4>1, <4>2
        <3>2. known' \subseteq Emails /\ unearned' \subseteq CommentIds
            BY <1>4, <2>1, <2>2 DEF Insert, ResponsesTypeOk, Submission, CommentIds
        <3>3. visit' \in [Clients -> {Away} \cup Submission \cup Click]
            BY <1>4 DEF Insert, ResponsesTypeOk
        <3>4. QED BY <1>4, <2>8, <3>1, <3>2, <3>3
                  DEF Insert, ResponsesTypeOk, tablesButComments, Counters
    <2>10. QED BY <2>5, <2>8, <2>9
<1>5. ASSUME NEW c \in Clients, NEW a \in Articles, NEW kind \in Kinds,
             NEW by \in Fingerprints, Press(c, a, kind, by)
      PROVE  CountInv'
    <2>1. [pc |-> "react", article |-> a, kind |-> kind, by |-> by] \in Click
        BY DEF Click
    <2>2. ResponsesTypeOk'
        BY <1>5, <2>1 DEF Press, tablesButComments, ResponsesTypeOk
    <2>3. QED BY <1>5, <2>2, Unmoved DEF Press, tablesButComments
<1>6. ASSUME Slide PROVE CountInv'
    <2>1. PICK m \in comments :
             /\ m.recent
             /\ comments' = (comments \ {m}) \cup {[m EXCEPT !.recent = FALSE]}
             /\ UNCHANGED <<tablesButComments, nextComment, count, visit, known, unearned>>
        BY <1>6 DEF Slide
    <2> DEFINE x == [m EXCEPT !.recent = FALSE]
    <2>2. /\ x \in Comment /\ x.id = m.id /\ x.article = m.article
          /\ x.status = m.status
        BY DEF Comment, ResponsesTypeOk
    <2>3. /\ comments' = (comments \ {m}) \cup {x}
          /\ UNCHANGED <<nextComment, reactions, existing, count>>
        BY <2>1 DEF tablesButComments
    <2>4. \A b : Shows(x, b) = Shows(m, b) /\ Shows(m, b) \in {0, 1}
        BY <2>2 DEF Shows
    <2> HIDE DEF x
    <2>5. /\ RowsInv'
          /\ \A b : Cardinality(Approved(b)')
                       = Cardinality(Approved(b)) - Shows(m, b) + Shows(x, b)
        BY <2>2, <2>3, RowReplaced
    <2>6. \A b : Cardinality(Approved(b)') = Cardinality(Approved(b))
        <3>1. \A b : Cardinality(Approved(b)) \in Nat
            BY Countable
        <3>2. QED BY <2>4, <2>5, <3>1
    <2>7. CountersMatch'
        <3>1. \A b : Likes(b)' = Likes(b) /\ Stamps(b)' = Stamps(b)
            BY <2>3 DEF Likes, Stamps
        <3>2. QED BY <2>3, <2>6, <3>1 DEF CountersMatch
    <2>8. ResponsesTypeOk'
        BY <2>1, <2>2, <2>3 DEF ResponsesTypeOk, tablesButComments
    <2>9. QED BY <2>5, <2>7, <2>8
<1>7. ASSUME NEW m \in comments, DeleteMessage(m) PROVE CountInv'
    <2> DEFINE d == IF m.status = "approved" THEN -1 ELSE 0
    <2>1. /\ comments' = comments \ {m} /\ m.article \in Articles
          /\ UNCHANGED <<nextComment, reactions, existing>>
        BY <1>7 DEF DeleteMessage, tablesButComments, ResponsesTypeOk, Comment
    <2>2. /\ RowsInv'
          /\ \A b : Cardinality(Approved(b)') = Cardinality(Approved(b)) - Shows(m, b)
        BY <2>1, RowDeleted
    <2>3. count' = [count EXCEPT ![m.article].comments =
                       IF m.article \in existing THEN @ + d ELSE @]
        <3>1. count[m.article] \in Counters
            BY <1>0, <2>1
        <3>2. CASE m.status = "approved"
            <4>1. count' = [count EXCEPT ![m.article].comments =
                               IF m.article \in existing THEN @ - 1 ELSE @]
                BY <1>7, <3>2 DEF DeleteMessage, Uncounted
            <4>2. count[m.article].comments - 1 = count[m.article].comments + d
                BY <3>1, <3>2 DEF Counters
            <4>3. QED BY <4>1, <4>2
        <3>3. CASE m.status # "approved"
            <4>1. count' = count /\ d = 0
                BY <1>7, <3>3 DEF DeleteMessage
            <4>2. count[m.article].comments + d = count[m.article].comments
                BY <3>1, <4>1 DEF Counters
            <4>3. QED BY <1>0, <2>1, <3>1, <4>1, <4>2 DEF Counters
        <3>4. QED BY <3>2, <3>3
    <2>4. CountersMatch' /\ count' \in [Articles -> Counters]
        <3>1. \A b : Cardinality(Approved(b)) \in Nat
            BY Countable
        <3>2. \A b : Shows(m, b) = (IF b = m.article THEN -d ELSE 0)
            BY DEF Shows
        <3>3. d \in Int
            OBVIOUS
        <3> HIDE DEF d
        <3>4. \A b : Cardinality(Approved(b)')
                        = Cardinality(Approved(b)) + (IF b = m.article THEN d ELSE 0)
            BY <2>2, <3>1, <3>2, <3>3
        <3>5. QED BY <1>0, <2>1, <2>2, <2>3, <3>3, <3>4, CommentsCounted
    <2>5. ResponsesTypeOk'
        BY <1>7, <2>1, <2>4 DEF DeleteMessage, tablesButComments, ResponsesTypeOk, Counters
    <2>6. QED BY <2>2, <2>4, <2>5
<1>8. ASSUME NEW m \in comments, NEW s \in {"approved", "hidden"}, Judge(m, s)
      PROVE  CountInv'
    <2> DEFINE x == [m EXCEPT !.status = s]
               d == IF s = "approved" /\ m.status # "approved" THEN 1
                    ELSE IF s # "approved" /\ m.status = "approved" THEN -1 ELSE 0
    <2>1. /\ m \in Comment /\ x \in Comment /\ x.id = m.id /\ x.article = m.article
          /\ x.status = s /\ m.article \in Articles
        BY DEF Comment, ResponsesTypeOk, Verdicts
    <2>2. /\ comments' = (comments \ {m}) \cup {x}
          /\ UNCHANGED <<nextComment, reactions, existing>>
        BY <1>8 DEF Judge, tablesButComments
    <2>3. \A b : Shows(x, b) - Shows(m, b) = IF b = m.article THEN d ELSE 0
        BY <2>1 DEF Shows
    <2>4. \A b : Shows(x, b) \in Int /\ Shows(m, b) \in Int
        BY DEF Shows
    <2>5. d \in Int
        OBVIOUS
    <2>6. count' = [count EXCEPT ![m.article].comments =
                       IF m.article \in existing THEN @ + d ELSE @]
        <3>1. count[m.article] \in Counters
            BY <1>0, <2>1
        <3>2. CASE s = "approved" /\ m.status # "approved"
            <4>1. count' = [count EXCEPT ![m.article].comments =
                               IF m.article \in existing THEN @ + 1 ELSE @]
                BY <1>8, <3>2 DEF Judge, Recounted, Counted
            <4>2. d = 1
                BY <3>2
            <4>3. QED BY <4>1, <4>2
        <3>3. CASE s # "approved" /\ m.status = "approved"
            <4>1. count' = [count EXCEPT ![m.article].comments =
                               IF m.article \in existing THEN @ - 1 ELSE @]
                BY <1>8, <3>3 DEF Judge, Recounted, Uncounted
            <4>2. d = -1
                BY <3>3
            <4>3. count[m.article].comments - 1 = count[m.article].comments + d
                BY <3>1, <4>2 DEF Counters
            <4>4. QED BY <4>1, <4>3
        <3>4. CASE s = "approved" <=> m.status = "approved"
            <4>1. count' = count
                BY <1>8, <3>4 DEF Judge, Recounted
            <4>2. d = 0
                BY <3>4
            <4>3. count[m.article].comments + d = count[m.article].comments
                BY <3>1, <4>2 DEF Counters
            <4>4. QED BY <1>0, <2>1, <3>1, <4>1, <4>3 DEF Counters
        <3>5. QED BY <3>2, <3>3, <3>4
    <2> HIDE DEF x, d
    <2>7. /\ RowsInv'
          /\ \A b : Cardinality(Approved(b)')
                       = Cardinality(Approved(b)) - Shows(m, b) + Shows(x, b)
        BY <2>1, <2>2, RowReplaced
    <2>8. CountersMatch' /\ count' \in [Articles -> Counters]
        <3>1. \A b : Cardinality(Approved(b)) \in Nat
            BY Countable
        <3>2. \A b : Cardinality(Approved(b)')
                        = Cardinality(Approved(b)) + (IF b = m.article THEN d ELSE 0)
            BY <2>3, <2>4, <2>5, <2>7, <3>1
        <3>3. QED BY <1>0, <2>1, <2>2, <2>5, <2>6, <2>7, <3>2, CommentsCounted
    <2>9. ResponsesTypeOk'
        <3>1. known' \subseteq Emails
            BY <1>8, <2>1 DEF Judge, ResponsesTypeOk, Comment
        <3>2. QED BY <1>8, <2>1, <2>2, <2>8, <3>1
                  DEF Judge, tablesButComments, ResponsesTypeOk, Counters
    <2>10. QED BY <2>7, <2>8, <2>9
<1>9. ASSUME NEW new \in Modes, SetMode(new) PROVE CountInv'
    BY <1>9, Unmoved DEF SetMode, ResponsesTypeOk
<1>10. ASSUME NEW a \in Articles, Toggle(a) PROVE CountInv'
    BY <1>10, Unmoved DEF Toggle, ResponsesTypeOk
<1>11. ASSUME NEW a \in Articles, DeleteArticle(a) PROVE CountInv'
    BY <1>11, Unmoved DEF DeleteArticle, ResponsesTypeOk
<1>12. ASSUME UNCHANGED responsesVars PROVE CountInv'
    BY <1>12, Unmoved DEF responsesVars, ResponsesTypeOk
<1>13. QED
    BY <1>1, <1>2, <1>3, <1>4, <1>5, <1>6, <1>7, <1>8, <1>9, <1>10, <1>11, <1>12,
       ReactionCounted DEF ResponsesNext

-----------------------------------------------------------------------------
LEMMA CountAlways == ResponsesSpec => []CountInv
<1>1. ResponsesInit => CountInv
    <2> SUFFICES ASSUME ResponsesInit PROVE CountInv
        OBVIOUS
    <2>1. nextComment \in 1 .. MaxComments + 1
        <3>1. MaxComments \in Nat
            BY ResponsesAssumption
        <3>2. QED BY <3>1 DEF ResponsesInit
    <2>2. ResponsesTypeOk
        BY <2>1 DEF ResponsesInit, ResponsesTypeOk
    <2>3. RowsInv
        BY FS_EmptySet DEF ResponsesInit, RowsInv
    <2>4. \A a : Approved(a) = {} /\ Likes(a) = {} /\ Stamps(a) = {}
        BY DEF ResponsesInit, Approved, Likes, Stamps
    <2>5. CountersMatch
        BY <2>4, FS_EmptySet DEF ResponsesInit, CountersMatch
    <2>6. QED BY <2>2, <2>3, <2>5 DEF CountInv
<1>2. QED BY <1>1, CountStep, PTL DEF ResponsesSpec

(***************************************************************************)
(* Every variable stays in its domain: that no counter falls below zero    *)
(* rests on the counters being right.                                      *)
(***************************************************************************)
THEOREM ResponsesTypeCorrect == ResponsesSpec => []ResponsesTypeOk
<1>1. CountInv => ResponsesTypeOk
    BY DEF CountInv
<1>2. QED BY <1>1, CountAlways, PTL

(***************************************************************************)
(* Whatever submissions, reactions, moderation and deletions do in any     *)
(* order, comments_count, likes_count and stamps_count of an entry are     *)
(* the number of rows they stand for.                                      *)
(***************************************************************************)
THEOREM CountersAgree == ResponsesSpec => []CountersMatch
<1>1. CountInv => CountersMatch
    BY DEF CountInv
<1>2. QED BY <1>1, CountAlways, PTL

-----------------------------------------------------------------------------
(***************************************************************************)
(* The gate.  An approved comment that gives an email makes that email     *)
(* known for ever, and a submission that was let through in moderated mode *)
(* has a known one until it is inserted.                                   *)
(***************************************************************************)
GateInv ==
    /\ FloodBounded
    /\ \A m \in comments : (m.status = "approved" /\ m.email # "") => m.email \in known
    /\ \A c \in Clients :
          (visit[c].pc = "insert" /\ visit[c].status = "approved"
              /\ visit[c].mode = "moderated") => visit[c].email \in known
    /\ unearned = {}

LEMMA PassedFinite ==
    \A address : IsFiniteSet(Passed(address)) /\ Cardinality(Passed(address)) \in Nat
                 /\ Cardinality(Passed(address)) <= Cardinality(Clients)
<1>1. \A address : Passed(address) \subseteq Clients
    BY DEF Passed
<1>2. QED BY <1>1, ClientsAssumption, FS_Subset, FS_CardinalityType

(* No request passes the limit and no comment becomes recent.               *)
LEMMA NoneMore ==
    ASSUME FloodBounded, RowsInv,
           \A address \in Addresses : /\ Recent(address)' \in Nat
                                      /\ Recent(address)' <= Recent(address)
                                      /\ Passed(address)' \subseteq Passed(address)
    PROVE  FloodBounded'
<1>1. RateLimit \in Nat /\ Cardinality(Clients) \in Nat
    BY ResponsesAssumption, ClientsAssumption, FS_CardinalityType
<1>2. ASSUME NEW address \in Addresses
      PROVE  Recent(address)' + Cardinality(Passed(address)')
                <= RateLimit + Cardinality(Clients) - 1
    <2>1. /\ Cardinality(Passed(address)) \in Nat
          /\ Cardinality(Passed(address)') \in Nat
          /\ Cardinality(Passed(address)') <= Cardinality(Passed(address))
        BY PassedFinite, FS_Subset, FS_CardinalityType
    <2>2. Recent(address) \in Nat
        BY Countable
    <2>3. Recent(address) + Cardinality(Passed(address))
             <= RateLimit + Cardinality(Clients) - 1
        BY DEF FloodBounded
    <2>4. QED BY <1>1, <2>1, <2>2, <2>3
<1>3. QED BY <1>2 DEF FloodBounded

(* The same when the comments stay and one request is at a step before the  *)
(* limit or after the insert.                                               *)
LEMMA NoneMoreHere ==
    ASSUME FloodBounded, RowsInv, comments' = comments,
           NEW c \in Clients, visit \in [Clients -> {Away} \cup Submission \cup Click],
           NEW w, w.pc \notin {"status", "insert"}, visit' = [visit EXCEPT ![c] = w]
    PROVE  FloodBounded'
<1>1. \A address : Recent(address)' = Recent(address) /\ Recent(address) \in Nat
    BY Countable DEF Recent
<1>2. \A address : Passed(address)' \subseteq Passed(address)
    BY DEF Passed
<1>3. QED BY <1>1, <1>2, NoneMore

LEMMA RecentNext == RowsInv' => \A address : Recent(address)' \in Nat
<1> SUFFICES ASSUME RowsInv', NEW address PROVE Recent(address)' \in Nat
    OBVIOUS
<1>1. {m \in comments' : m.recent /\ m.address = address} \subseteq comments'
    OBVIOUS
<1>2. QED BY <1>1, FS_Subset, FS_CardinalityType DEF RowsInv, Recent

LEMMA GateStep ==
    CountInv /\ CountInv' /\ GateInv /\ [ResponsesNext]_responsesVars => GateInv'
<1> SUFFICES ASSUME CountInv, CountInv', GateInv, [ResponsesNext]_responsesVars
             PROVE  GateInv'
    OBVIOUS
<1>0. /\ visit \in [Clients -> {Away} \cup Submission \cup Click]
      /\ RowsInv /\ RowsInv' /\ FloodBounded /\ ResponsesTypeOk
    BY DEF CountInv, ResponsesTypeOk, GateInv
<1>1. ASSUME NEW c \in Clients, NEW a \in Articles, NEW email \in Emails \cup {""},
             NEW address \in Addresses, Submit(c, a, email, address)
      PROVE  GateInv'
    <2> DEFINE w == [pc |-> "rate", article |-> a, mode |-> mode, email |-> email,
                     address |-> address, status |-> "waiting"]
    <2>1. w.pc \notin {"status", "insert"} /\ visit' = [visit EXCEPT ![c] = w]
        BY <1>1 DEF Submit
    <2>2. UNCHANGED <<comments, known, unearned>>
        BY <1>1 DEF Submit
    <2> HIDE DEF w
    <2>3. FloodBounded'
        BY <1>0, <2>1, <2>2, NoneMoreHere
    <2>4. QED BY <1>0, <2>1, <2>2, <2>3 DEF GateInv
<1>2. ASSUME NEW c \in Clients, CheckRate(c) PROVE GateInv'
    <2> DEFINE v == visit[c]
    <2>1. v \in Submission /\ UNCHANGED <<comments, known, unearned>>
        BY <1>0, <1>2, Submitted DEF CheckRate
    <2>2. CASE UnderLimit(v.address)
        <3> DEFINE w == [v EXCEPT !.pc = "status"]
        <3>1. /\ visit' = [visit EXCEPT ![c] = w] /\ w.pc = "status"
              /\ w.address = v.address
            BY <1>2, <2>1, <2>2 DEF CheckRate, Submission
        <3> HIDE DEF w
        <3>2. \A address : Recent(address)' = Recent(address) /\ Recent(address) \in Nat
            BY <1>0, <2>1, Countable DEF Recent
        <3>3. ASSUME NEW address \in Addresses
              PROVE  Recent(address)' + Cardinality(Passed(address)')
                        <= RateLimit + Cardinality(Clients) - 1
            <4>1. RateLimit \in Nat /\ Cardinality(Clients) \in Nat
                BY ResponsesAssumption, ClientsAssumption, FS_CardinalityType
            <4>2. CASE address = v.address
                <5>1. Recent(address) < RateLimit
                    BY <2>2, <4>2 DEF UnderLimit
                <5>2. Passed(address)' \subseteq Clients
                    BY DEF Passed
                <5>3. /\ Cardinality(Passed(address)') \in Nat
                      /\ Cardinality(Passed(address)') <= Cardinality(Clients)
                    BY <5>2, ClientsAssumption, FS_Subset, FS_CardinalityType
                <5>4. QED BY <3>2, <4>1, <5>1, <5>3
            <4>3. CASE address # v.address
                <5>1. Passed(address)' = Passed(address)
                    <6>1. c \notin Passed(address)
                        BY <4>3 DEF Passed
                    <6>2. c \notin Passed(address)'
                        BY <1>0, <3>1, <4>3 DEF Passed
                    <6>3. \A k \in Clients \ {c} : visit'[k] = visit[k]
                        BY <1>0, <3>1
                    <6>4. QED BY <6>1, <6>2, <6>3 DEF Passed
                <5>2. Recent(address) + Cardinality(Passed(address))
                         <= RateLimit + Cardinality(Clients) - 1
                    BY <1>0 DEF FloodBounded
                <5>3. QED BY <3>2, <5>1, <5>2
            <4>4. QED BY <4>2, <4>3
        <3>4. FloodBounded'
            BY <3>3 DEF FloodBounded
        <3>5. QED BY <1>0, <2>1, <3>1, <3>4 DEF GateInv
    <2>3. CASE ~UnderLimit(v.address)
        <3>1. visit' = [visit EXCEPT ![c] = Away]
            BY <1>2, <2>3 DEF CheckRate
        <3>2. Away.pc \notin {"status", "insert"}
            BY DEF Away
        <3>3. FloodBounded'
            BY <1>0, <2>1, <3>1, <3>2, NoneMoreHere
        <3>4. QED BY <1>0, <2>1, <3>1, <3>2, <3>3 DEF GateInv
    <2>4. QED BY <2>2, <2>3
<1>3. ASSUME NEW c \in Clients, ResolveStatus(c) PROVE GateInv'
    <2> DEFINE v == visit[c]
               w == [v EXCEPT !.pc = "insert", !.status = StatusFor(v)]
    <2>1. v \in Submission /\ UNCHANGED <<comments, known, unearned>>
        BY <1>0, <1>3, Submitted DEF ResolveStatus
    <2>2. /\ visit' = [visit EXCEPT ![c] = w] /\ v.pc = "status"
        BY <1>3 DEF ResolveStatus
    <2>3. /\ w.pc = "insert" /\ w.address = v.address /\ w.email = v.email
          /\ w.mode = v.mode /\ w.status = StatusFor(v)
        BY <2>1 DEF Submission
    <2> HIDE DEF w
    <2>4. ASSUME w.status = "approved", w.mode = "moderated" PROVE w.email \in known
        <3>1. v.email # "" /\ Trusted(v.email)
            BY <2>3, <2>4 DEF StatusFor
        <3>2. QED BY <2>3, <3>1 DEF Trusted, GateInv
    <2>5. \A address : Recent(address)' = Recent(address) /\ Recent(address) \in Nat
        BY <1>0, <2>1, Countable DEF Recent
    <2>6. \A address : Passed(address)' = Passed(address)
        BY <1>0, <2>2, <2>3 DEF Passed
    <2>7. FloodBounded'
        BY <1>0, <2>5, <2>6, NoneMore
    <2>8. QED BY <1>0, <2>1, <2>2, <2>4, <2>7 DEF GateInv
<1>4. ASSUME NEW c \in Clients, Insert(c) PROVE GateInv'
    <2> DEFINE v == visit[c]
               x == [id |-> nextComment, article |-> v.article, status |-> v.status,
                     email |-> v.email, address |-> v.address, recent |-> TRUE]
    <2>1. /\ v.pc = "insert" /\ v \in Submission
          /\ comments' = comments \cup {x} /\ reactions' = reactions
          /\ nextComment' = nextComment + 1
          /\ known' = known \cup {e \in {v.email} \ {""} : v.status = "approved"}
          /\ visit' = [visit EXCEPT ![c] = Away]
        BY <1>0, <1>4, Submitted DEF Insert, tablesButComments
    <2>2. nextComment \in Nat /\ \A m \in comments : m.id \in Nat
        <3>1. \A m \in comments : m.id \in CommentIds
            BY <1>0 DEF ResponsesTypeOk, Comment
        <3>2. nextComment \in 1 .. MaxComments + 1
            BY <1>0 DEF ResponsesTypeOk
        <3>3. QED BY <3>1, <3>2 DEF CommentIds
    <2>3. /\ x.id = nextComment /\ x.recent = TRUE /\ x.address = v.address
          /\ x.status = v.status /\ x.email = v.email
        OBVIOUS
    <2> HIDE DEF x
    <2>4. \A address : Recent(address)' = Recent(address) + From(x, address)
        BY <1>0, <2>1, <2>2, <2>3, RowAdded
    <2>5. ASSUME NEW address \in Addresses
          PROVE  Recent(address)' + Cardinality(Passed(address)')
                    <= RateLimit + Cardinality(Clients) - 1
        <3>1. RateLimit \in Nat /\ Cardinality(Clients) \in Nat
            BY ResponsesAssumption, ClientsAssumption, FS_CardinalityType
        <3>2. /\ Recent(address) \in Nat
              /\ IsFiniteSet(Passed(address)) /\ Cardinality(Passed(address)) \in Nat
            BY <1>0, Countable, PassedFinite
        <3>3. Recent(address) + Cardinality(Passed(address))
                 <= RateLimit + Cardinality(Clients) - 1
            BY <1>0 DEF FloodBounded
        <3>4. Passed(address)' = Passed(address) \ {c}
            <4>1. c \notin Passed(address)'
                BY <1>0, <2>1 DEF Passed, Away
            <4>2. \A k \in Clients \ {c} : visit'[k] = visit[k]
                BY <1>0, <2>1
            <4>3. QED BY <4>1, <4>2 DEF Passed
        <3>5. CASE address = v.address
            <4>1. c \in Passed(address)
                BY <2>1, <3>5 DEF Passed
            <4>2. Cardinality(Passed(address)') = Cardinality(Passed(address)) - 1
                BY <3>2, <3>4, <4>1, FS_RemoveElement
            <4>3. From(x, address) = 1
                BY <2>3, <3>5 DEF From
            <4>4. QED BY <2>4, <3>1, <3>2, <3>3, <4>2, <4>3
        <3>6. CASE address # v.address
            <4>1. Passed(address)' = Passed(address)
                BY <3>4, <3>6 DEF Passed
            <4>2. From(x, address) = 0
                BY <2>3, <3>6 DEF From
            <4>3. QED BY <2>4, <3>1, <3>2, <3>3, <4>1, <4>2
        <3>7. QED BY <3>5, <3>6
    <2>6. FloodBounded'
        BY <2>5 DEF FloodBounded
    <2>7. unearned' = {}
        BY <1>4, <2>1 DEF Insert, GateInv
    <2>8. \A m \in comments' : (m.status = "approved" /\ m.email # "") => m.email \in known'
        BY <2>1, <2>3 DEF GateInv
    <2>9. \A k \in Clients :
             (visit'[k].pc = "insert" /\ visit'[k].status = "approved"
                 /\ visit'[k].mode = "moderated") => visit'[k].email \in known'
        BY <1>0, <2>1 DEF GateInv, Away
    <2>10. QED BY <2>6, <2>7, <2>8, <2>9 DEF GateInv
<1>5. ASSUME NEW c \in Clients, NEW a \in Articles, NEW kind \in Kinds,
             NEW by \in Fingerprints, Press(c, a, kind, by)
      PROVE  GateInv'
    <2> DEFINE w == [pc |-> "react", article |-> a, kind |-> kind, by |-> by]
    <2>1. w.pc \notin {"status", "insert"} /\ visit' = [visit EXCEPT ![c] = w]
        BY <1>5 DEF Press
    <2>2. UNCHANGED <<comments, known, unearned>>
        BY <1>5 DEF Press
    <2> HIDE DEF w
    <2>3. FloodBounded'
        BY <1>0, <2>1, <2>2, NoneMoreHere
    <2>4. QED BY <1>0, <2>1, <2>2, <2>3 DEF GateInv
<1>6. ASSUME NEW c \in Clients, React(c) PROVE GateInv'
    <2>1. visit' = [visit EXCEPT ![c] = Away] /\ UNCHANGED <<comments, known, unearned>>
        BY <1>6 DEF React
    <2>2. Away.pc \notin {"status", "insert"}
        BY DEF Away
    <2>3. FloodBounded'
        BY <1>0, <2>1, <2>2, NoneMoreHere
    <2>4. QED BY <1>0, <2>1, <2>2, <2>3 DEF GateInv
<1>7. ASSUME Slide PROVE GateInv'
    <2>1. PICK m \in comments :
             /\ m.recent
             /\ comments' = (comments \ {m}) \cup {[m EXCEPT !.recent = FALSE]}
             /\ UNCHANGED <<tablesButComments, nextComment, count, visit, known, unearned>>
        BY <1>7 DEF Slide
    <2> DEFINE x == [m EXCEPT !.recent = FALSE]
    <2>2. /\ x.id = m.id /\ x.recent = FALSE /\ x.email = m.email /\ x.status = m.status
        BY <1>0 DEF Comment, ResponsesTypeOk
    <2>3. /\ comments' = (comments \ {m}) \cup {x}
          /\ UNCHANGED <<nextComment, reactions, visit, known, unearned>>
        BY <2>1 DEF tablesButComments
    <2> HIDE DEF x
    <2>4. \A address : Recent(address)' = Recent(address) - From(m, address) + From(x, address)
        BY <1>0, <2>2, <2>3, RowReplaced
    <2>5. \A address : From(x, address) = 0 /\ From(m, address) \in {0, 1}
        BY <2>2 DEF From
    <2>6. \A address : Recent(address) \in Nat /\ Recent(address)' \in Nat
        BY <1>0, RecentNext, Countable
    <2>7. \A address : Recent(address)' <= Recent(address)
        BY <2>4, <2>5, <2>6
    <2>8. \A address : Passed(address)' = Passed(address)
        BY <2>3 DEF Passed
    <2>9. FloodBounded'
        BY <1>0, <2>6, <2>7, <2>8, NoneMore
    <2>10. QED BY <2>2, <2>3, <2>9 DEF GateInv
<1>8. ASSUME NEW m \in comments, DeleteMessage(m) PROVE GateInv'
    <2>1. /\ comments' = comments \ {m}
          /\ UNCHANGED <<nextComment, reactions, visit, known, unearned>>
        BY <1>8 DEF DeleteMessage, tablesButComments
    <2>2. \A address : Recent(address)' <= Recent(address) /\ Recent(address)' \in Nat
        BY <1>0, <2>1, RowDeleted, RecentNext
    <2>3. \A address : Passed(address)' = Passed(address)
        BY <2>1 DEF Passed
    <2>4. FloodBounded'
        BY <1>0, <2>2, <2>3, NoneMore
    <2>5. QED BY <2>1, <2>4 DEF GateInv
<1>9. ASSUME NEW m \in comments, NEW s \in {"approved", "hidden"}, Judge(m, s)
      PROVE  GateInv'
    <2> DEFINE x == [m EXCEPT !.status = s]
    <2>1. /\ x.id = m.id /\ x.recent = m.recent /\ x.address = m.address
          /\ x.email = m.email /\ x.status = s
        BY <1>0 DEF Comment, ResponsesTypeOk
    <2>2. /\ comments' = (comments \ {m}) \cup {x}
          /\ known' = known \cup {e \in {m.email} \ {""} : s = "approved"}
          /\ UNCHANGED <<nextComment, reactions, visit, unearned>>
        BY <1>9 DEF Judge, tablesButComments
    <2> HIDE DEF x
    <2>3. \A address : Recent(address)' = Recent(address) - From(m, address) + From(x, address)
        BY <1>0, <2>1, <2>2, RowReplaced
    <2>4. \A address : From(x, address) = From(m, address) /\ From(m, address) \in {0, 1}
        BY <2>1 DEF From
    <2>5. \A address : Recent(address) \in Nat /\ Recent(address)' \in Nat
        BY <1>0, RecentNext, Countable
    <2>6. \A address : Recent(address)' <= Recent(address)
        BY <2>3, <2>4, <2>5
    <2>7. \A address : Passed(address)' = Passed(address)
        BY <2>2 DEF Passed
    <2>8. FloodBounded'
        BY <1>0, <2>5, <2>6, <2>7, NoneMore
    <2>9. QED BY <2>1, <2>2, <2>8 DEF GateInv
<1>10. ASSUME UNCHANGED <<comments, visit, known, unearned>> PROVE GateInv'
    <2>1. \A address : Recent(address)' = Recent(address) /\ Passed(address)' = Passed(address)
        BY <1>10 DEF Recent, Passed
    <2>2. FloodBounded'
        BY <1>0, <2>1 DEF FloodBounded
    <2>3. QED BY <1>10, <2>2 DEF GateInv
<1>11. QED
    BY <1>1, <1>2, <1>3, <1>4, <1>5, <1>6, <1>7, <1>8, <1>9, <1>10
       DEF ResponsesNext, SetMode, Toggle, DeleteArticle, responsesVars

(***************************************************************************)
(* The gate of comments, for any number of requests at once: the comments  *)
(* of an address in the window of the limit, with those about to be        *)
(* inserted, exceed the limit by less than the number of requests, and in  *)
(* moderated mode no comment goes up at once whose email had none approved *)
(* before.                                                                 *)
(***************************************************************************)
THEOREM CommentGate == ResponsesSpec => []GateHolds
<1>1. ResponsesInit => GateInv
    <2> SUFFICES ASSUME ResponsesInit PROVE GateInv
        OBVIOUS
    <2>1. \A address : Recent(address) = 0
        <3>1. \A address : {m \in comments : m.recent /\ m.address = address} = {}
            BY DEF ResponsesInit
        <3>2. QED BY <3>1, FS_EmptySet DEF Recent
    <2>2. ASSUME NEW address \in Addresses
          PROVE  Recent(address) + Cardinality(Passed(address))
                    <= RateLimit + Cardinality(Clients) - 1
        <3>1. Passed(address) = {}
            BY DEF ResponsesInit, Passed, Away
        <3>2. Cardinality(Passed(address)) = 0
            BY <3>1, FS_EmptySet
        <3>3. RateLimit \in Nat \ {0} /\ Cardinality(Clients) \in Nat
            BY ResponsesAssumption, ClientsAssumption, FS_CardinalityType
        <3>4. QED BY <2>1, <3>2, <3>3
    <2>3. FloodBounded
        BY <2>2 DEF FloodBounded
    <2>4. QED BY <2>3 DEF ResponsesInit, GateInv, Away
<1>2. GateInv => GateHolds
    BY DEF GateInv, GateHolds, TrustIsEarned
<1>3. QED BY <1>1, <1>2, GateStep, CountAlways, PTL DEF ResponsesSpec

-----------------------------------------------------------------------------
(***************************************************************************)
(* Templates.  Ids are given once, so what a request holds of a template   *)
(* or an asset that is gone is of no other one.                            *)
(***************************************************************************)
KeyJobs == {"file", "row", "drop", "unlink"}

IdsOk ==
    /\ \A t \in TemplateIds : There(t) => t < nextTemplate
    /\ \A c \in Clients :
          /\ job[c].pc = "edit" => job[c].id < nextTemplate
          /\ job[c].pc \in KeyJobs => job[c].key[1] < nextTemplate
    /\ \A a \in assets : a.key[1] < nextTemplate /\ a.id < nextAsset
    /\ \A a, b \in assets : a.key = b.key \/ a.id = b.id => a = b
    /\ \A c \in Clients : job[c].pc = "drop" =>
          /\ job[c].asset < nextAsset
          /\ \A a \in assets : a.id = job[c].asset => a.key = job[c].key

LEMMA JobKinds ==
    ASSUME TemplatesTypeOk, NEW c \in Clients
    PROVE  /\ job[c].pc = "remove" => job[c] \in Removal
           /\ job[c].pc \in {"edit", "saveas"} => job[c] \in Edit
           /\ job[c].pc \in {"file", "row"} => job[c] \in Upload
           /\ job[c].pc \in {"drop", "unlink"} => job[c] \in Deletion
           /\ job[c] = Rest => job[c].pc = "rest"
<1>1. job[c] \in {Rest} \cup Removal \cup Edit \cup Upload \cup Deletion
    BY DEF TemplatesTypeOk
<1>2. job[c] = Rest => job[c].pc = "rest"
    BY DEF Rest
<1>3. job[c] \in Removal => job[c].pc = "remove"
    BY DEF Removal
<1>4. job[c] \in Edit => job[c].pc \in {"edit", "saveas"}
    BY DEF Edit
<1>5. job[c] \in Upload => job[c].pc \in {"file", "row"}
    BY DEF Upload
<1>6. job[c] \in Deletion => job[c].pc \in {"drop", "unlink"}
    BY DEF Deletion
<1>7. QED BY <1>1, <1>2, <1>3, <1>4, <1>5, <1>6

LEMMA TemplatesInitOk ==
    TemplatesInit => TemplatesTypeOk /\ IdsOk
<1> SUFFICES ASSUME TemplatesInit PROVE TemplatesTypeOk /\ IdsOk
    OBVIOUS
<1>1. PICK text \in Texts :
        /\ template = [t \in TemplateIds |->
              IF t = 1 THEN [there |-> TRUE, active |-> TRUE, is |-> [f \in Fields |-> text]]
              ELSE NoTemplate]
        /\ last = [t \in TemplateIds |-> [f \in Fields |-> text]]
    BY DEF TemplatesInit
<1>2. MaxTemplates \in Nat \ {0} /\ MaxAssets \in Nat /\ MaxFaults \in Nat
    BY TemplatesAssumption
<1>3. [f \in Fields |-> text] \in Written
    BY DEF Written
<1>4. [there |-> TRUE, active |-> TRUE, is |-> [f \in Fields |-> text]] \in TemplateRow
    BY <1>3 DEF TemplateRow
<1>5. template \in [TemplateIds -> TemplateRow \cup {NoTemplate}]
    BY <1>1, <1>4
<1>6. last \in [TemplateIds -> Written]
    BY <1>1, <1>3
<1>7. nextTemplate \in 2 .. MaxTemplates + 1 /\ nextAsset \in 1 .. MaxAssets + 1
      /\ faults \in 0 .. MaxFaults
    BY <1>2 DEF TemplatesInit
<1>8. TemplatesTypeOk
    BY <1>5, <1>6, <1>7 DEF TemplatesInit, TemplatesTypeOk
<1>9. IdsOk
    <2>1. \A t \in TemplateIds : There(t) => t < nextTemplate
        BY <1>1 DEF There, NoTemplate, TemplatesInit
    <2>2. QED BY <2>1 DEF TemplatesInit, IdsOk, Rest, KeyJobs
<1>10. QED BY <1>8, <1>9

(* Steps that touch no asset, or no template.                               *)
LEMMA DesignTypes ==
    ASSUME TemplatesTypeOk, UNCHANGED assetVars,
           template' \in [TemplateIds -> TemplateRow \cup {NoTemplate}],
           nextTemplate' \in 2 .. MaxTemplates + 1,
           job' \in [Clients -> {Rest} \cup Removal \cup Edit \cup Upload \cup Deletion],
           last' \in [TemplateIds -> Written], overtaken' \subseteq TemplateIds,
           deposed' \in BOOLEAN
    PROVE  TemplatesTypeOk'
    BY DEF TemplatesTypeOk, assetVars

LEMMA AssetTypes ==
    ASSUME TemplatesTypeOk, UNCHANGED designVars,
           assets' \subseteq AssetRow, nextAsset' \in 1 .. MaxAssets + 1,
           files' \subseteq Key, disturbed' \subseteq Key, faults' \in 0 .. MaxFaults,
           job' \in [Clients -> {Rest} \cup Removal \cup Edit \cup Upload \cup Deletion]
    PROVE  TemplatesTypeOk'
    BY DEF TemplatesTypeOk, designVars

(* A row is added under an id that was not given.                           *)
LEMMA NewTemplateRow ==
    ASSUME TemplatesTypeOk, IdsOk, NEW is \in Written, NewTemplate(is)
    PROVE  /\ nextTemplate \in TemplateIds /\ nextTemplate' = nextTemplate + 1
           /\ nextTemplate' \in 2 .. MaxTemplates + 1 /\ ~There(nextTemplate)
           /\ template' \in [TemplateIds -> TemplateRow \cup {NoTemplate}]
           /\ last' \in [TemplateIds -> Written]
           /\ template'[nextTemplate] = [there |-> TRUE, active |-> FALSE, is |-> is]
           /\ last'[nextTemplate] = is
           /\ \A t \in TemplateIds : t # nextTemplate =>
                 template'[t] = template[t] /\ last'[t] = last[t]
           /\ UNCHANGED <<overtaken, deposed>>
<1>1. MaxTemplates \in Nat \ {0}
    BY TemplatesAssumption
<1>2. nextTemplate \in TemplateIds /\ nextTemplate' = nextTemplate + 1
      /\ nextTemplate' \in 2 .. MaxTemplates + 1
    BY <1>1 DEF NewTemplate, TemplatesTypeOk, TemplateIds
<1>3. ~There(nextTemplate)
    BY <1>2 DEF IdsOk, TemplateIds
<1>4. [there |-> TRUE, active |-> FALSE, is |-> is] \in TemplateRow
    BY DEF TemplateRow
<1>5. QED BY <1>2, <1>3, <1>4 DEF NewTemplate, TemplatesTypeOk

(* How a row is written over: activated, deleted or edited.                 *)
LEMMA RowTypes ==
    ASSUME TemplatesTypeOk, NEW t \in TemplateIds
    PROVE  /\ There(t) => template[t] \in TemplateRow
           /\ \A b \in BOOLEAN : There(t) => [template[t] EXCEPT !.active = b] \in TemplateRow
           /\ \A is \in Written : There(t) => [template[t] EXCEPT !.is = is] \in TemplateRow
<1>1. There(t) => template[t] \in TemplateRow
    BY DEF TemplatesTypeOk, There, NoTemplate
<1>2. QED BY <1>1 DEF TemplateRow

(* A request that turns to something, or is done; the tables stay.          *)
LEMMA JobIds ==
    ASSUME TemplatesTypeOk, IdsOk, NEW c \in Clients,
           NEW j \in {Rest} \cup Removal \cup Edit \cup Upload \cup Deletion,
           job' = [job EXCEPT ![c] = j],
           UNCHANGED <<template, nextTemplate, assets, nextAsset>>,
           j.pc = "edit" => j.id < nextTemplate,
           j.pc \in KeyJobs => j.key[1] < nextTemplate,
           j.pc = "drop" => /\ j.asset < nextAsset
                            /\ \A a \in assets : a.id = j.asset => a.key = j.key
    PROVE  IdsOk' /\ job' \in [Clients -> {Rest} \cup Removal \cup Edit \cup Upload \cup Deletion]
<1>1. job' \in [Clients -> {Rest} \cup Removal \cup Edit \cup Upload \cup Deletion]
    BY DEF TemplatesTypeOk
<1>2. \A d \in Clients : job'[d] = IF d = c THEN j ELSE job[d]
    BY DEF TemplatesTypeOk
<1>3. /\ \A t \in TemplateIds : There(t)' => t < nextTemplate'
      /\ \A a \in assets' : a.key[1] < nextTemplate' /\ a.id < nextAsset'
      /\ \A a, b \in assets' : a.key = b.key \/ a.id = b.id => a = b
    BY DEF IdsOk, There
<1>4. \A d \in Clients : /\ job'[d].pc = "edit" => job'[d].id < nextTemplate'
                         /\ job'[d].pc \in KeyJobs => job'[d].key[1] < nextTemplate'
    BY <1>2 DEF IdsOk
<1>5. \A d \in Clients : job'[d].pc = "drop" =>
          /\ job'[d].asset < nextAsset'
          /\ \A a \in assets' : a.id = job'[d].asset => a.key = job'[d].key
    BY <1>2 DEF IdsOk
<1>6. QED BY <1>1, <1>3, <1>4, <1>5 DEF IdsOk

LEMMA DesignTypesStep ==
    ASSUME TemplatesTypeOk, IdsOk,
           \/ \E t \in TemplateIds : Activate(t)
           \/ \E c \in Clients :
                 \/ \E t \in TemplateIds : CheckDelete(c, t)
                 \/ \E t \in TemplateIds, pc \in {"edit", "saveas"}, field \in Fields,
                       text \in Texts : BeginEdit(c, t, pc, field, text)
                 \/ Delete(c) \/ WriteEdit(c) \/ WriteCopy(c)
                 \/ \E name \in FileNames, is \in Written : Import(c, name, is)
    PROVE  TemplatesTypeOk' /\ IdsOk'
<1> DEFINE Jobs == {Rest} \cup Removal \cup Edit \cup Upload \cup Deletion
<1>0. /\ template \in [TemplateIds -> TemplateRow \cup {NoTemplate}]
      /\ nextTemplate \in 2 .. MaxTemplates + 1 /\ last \in [TemplateIds -> Written]
      /\ overtaken \subseteq TemplateIds /\ deposed \in BOOLEAN /\ job \in [Clients -> Jobs]
    BY DEF TemplatesTypeOk
<1>1. ASSUME NEW id \in TemplateIds, Activate(id) PROVE TemplatesTypeOk' /\ IdsOk'
    <2>1. template' \in [TemplateIds -> TemplateRow \cup {NoTemplate}]
        <3>1. \A t \in TemplateIds :
                 There(t) => [template[t] EXCEPT !.active = t = id] \in TemplateRow
            BY RowTypes
        <3>2. QED BY <1>0, <1>1, <3>1 DEF Activate, Activated
    <2>2. \A t \in TemplateIds : There(t)' <=> There(t)
        <3>1. \A t \in TemplateIds : There(t) => template'[t].there
            <4>1. \A t \in TemplateIds : There(t) => template[t] \in TemplateRow
                BY RowTypes
            <4>2. QED BY <1>1, <4>1 DEF Activate, Activated, There, TemplateRow
        <3>2. \A t \in TemplateIds : ~There(t) => template'[t] = template[t]
            BY <1>1 DEF Activate, Activated
        <3>3. QED BY <3>1, <3>2 DEF There
    <2>3. TemplatesTypeOk'
        BY <1>0, <1>1, <2>1, DesignTypes DEF Activate
    <2>4. IdsOk'
        BY <1>1, <2>2 DEF Activate, IdsOk, assetVars
    <2>5. QED BY <2>3, <2>4
<1>2. ASSUME NEW c \in Clients, NEW t \in TemplateIds, CheckDelete(c, t)
      PROVE  TemplatesTypeOk' /\ IdsOk'
    <2> DEFINE j == [pc |-> "remove", id |-> t]
    <2>1. j \in Jobs /\ j.pc = "remove"
        BY DEF Removal
    <2>2. job' = [job EXCEPT ![c] = j] /\ UNCHANGED <<designVars, assetVars>>
        BY <1>2 DEF CheckDelete
    <2> HIDE DEF j
    <2>3. IdsOk' /\ job' \in [Clients -> Jobs]
        BY <2>1, <2>2, JobIds DEF designVars, assetVars, KeyJobs
    <2>4. QED BY <1>0, <2>2, <2>3, DesignTypes DEF designVars
<1>3. ASSUME NEW c \in Clients, NEW t \in TemplateIds, NEW pc \in {"edit", "saveas"},
             NEW field \in Fields, NEW text \in Texts, BeginEdit(c, t, pc, field, text)
      PROVE  TemplatesTypeOk' /\ IdsOk'
    <2> DEFINE is == Overlaid(template[t].is, field, text)
               j == [pc |-> pc, id |-> t, field |-> field, fresh |-> TRUE, is |-> is]
    <2>1. There(t) /\ template[t] \in TemplateRow
        BY <1>3, RowTypes DEF BeginEdit
    <2>2. template[t].is \in Written
        BY <2>1 DEF TemplateRow
    <2>3. is \in Written
        BY <2>2 DEF Overlaid, Written
    <2> HIDE DEF is
    <2>4. j \in Edit /\ j.pc \in {"edit", "saveas"} /\ j.id = t
        BY <2>3 DEF Edit
    <2>5. job' = [job EXCEPT ![c] = j] /\ UNCHANGED <<designVars, assetVars>>
        BY <1>3 DEF BeginEdit, is
    <2> HIDE DEF j
    <2>6. t < nextTemplate
        BY <2>1 DEF IdsOk
    <2>7. IdsOk' /\ job' \in [Clients -> Jobs]
        BY <2>4, <2>5, <2>6, JobIds DEF designVars, assetVars, KeyJobs
    <2>8. QED BY <1>0, <2>5, <2>7, DesignTypes DEF designVars
<1>4. ASSUME NEW c \in Clients, Delete(c) PROVE TemplatesTypeOk' /\ IdsOk'
    <2>1. job[c].id \in TemplateIds
        <3>1. job[c] \in Removal
            BY <1>4, JobKinds DEF Delete
        <3>2. QED BY <3>1 DEF Removal
    <2>2. template' \in [TemplateIds -> TemplateRow \cup {NoTemplate}]
        BY <1>0, <1>4 DEF Delete
    <2>3. \A t \in TemplateIds : There(t)' => There(t)
        BY <1>0, <1>4, <2>1 DEF Delete, There, NoTemplate
    <2>4. /\ job' = [job EXCEPT ![c] = Rest] /\ deposed' \in BOOLEAN
          /\ UNCHANGED <<nextTemplate, last, overtaken, assetVars>>
        BY <1>0, <1>4 DEF Delete
    <2>5. job' \in [Clients -> Jobs] /\ \A d \in Clients : d # c => job'[d] = job[d]
        BY <1>0, <2>4
    <2>6. job'[c].pc = "rest"
        BY <1>0, <2>4 DEF Rest
    <2>7. IdsOk'
        <3>1. \A d \in Clients : job'[d].pc # "rest" => job'[d] = job[d]
            BY <2>5, <2>6
        <3>2. QED BY <2>3, <2>4, <2>6, <3>1 DEF IdsOk, assetVars, KeyJobs
    <2>8. QED BY <1>0, <2>2, <2>4, <2>5, <2>7, DesignTypes
<1>5. ASSUME NEW c \in Clients, WriteEdit(c) PROVE TemplatesTypeOk' /\ IdsOk'
    <2> DEFINE e == job[c]
    <2>1. e \in Edit /\ e.pc = "edit"
        BY <1>5, JobKinds DEF WriteEdit
    <2> HIDE DEF e
    <2>2. e.id \in TemplateIds /\ e.is \in Written /\ e.field \in Fields /\ e.is[e.field] \in Texts
        BY <2>1 DEF Edit, Written
    <2>3. CASE There(e.id)
        <3>1. /\ template' = [template EXCEPT ![e.id].is = e.is]
              /\ last' = [last EXCEPT ![e.id][e.field] = e.is[e.field]]
              /\ overtaken' = overtaken \cup {t \in {e.id} : ~e.fresh}
              /\ job' = [d \in Clients |->
                    IF d = c THEN Rest
                    ELSE IF job[d].pc = "edit" /\ job[d].id = e.id
                    THEN [job[d] EXCEPT !.fresh = FALSE] ELSE job[d]]
              /\ UNCHANGED <<nextTemplate, deposed, assetVars>>
            BY <1>5, <2>3 DEF WriteEdit, e
        <3>2. /\ template[e.id] \in TemplateRow
              /\ [template[e.id] EXCEPT !.is = e.is] \in TemplateRow
            BY <2>2, <2>3, RowTypes
        <3>3. template' = [template EXCEPT ![e.id] = [template[e.id] EXCEPT !.is = e.is]]
            BY <1>0, <2>2, <3>1
        <3>4. template' \in [TemplateIds -> TemplateRow \cup {NoTemplate}]
            BY <1>0, <2>2, <3>2, <3>3
        <3>5. [last[e.id] EXCEPT ![e.field] = e.is[e.field]] \in Written
            BY <1>0, <2>2 DEF Written
        <3>6. last' \in [TemplateIds -> Written]
            BY <1>0, <2>2, <3>1, <3>5
        <3>7. \A d \in Clients : job[d].pc = "edit" =>
                 /\ [job[d] EXCEPT !.fresh = FALSE] \in Edit
                 /\ [job[d] EXCEPT !.fresh = FALSE].id = job[d].id
                 /\ [job[d] EXCEPT !.fresh = FALSE].pc = "edit"
            <4>1. \A d \in Clients : job[d].pc = "edit" => job[d] \in Edit
                BY JobKinds
            <4>2. QED BY <4>1 DEF Edit
        <3>8. job' \in [Clients -> Jobs]
            BY <1>0, <3>1, <3>7
        <3>9. TemplatesTypeOk'
            BY <1>0, <2>2, <3>1, <3>4, <3>6, <3>8, DesignTypes
        <3>10. \A t \in TemplateIds : There(t)' => There(t)
            BY <1>0, <2>2, <2>3, <3>3 DEF There
        <3>11. \A d \in Clients :
                 /\ job'[d].pc = "edit" => (job[d].pc = "edit" /\ job'[d].id = job[d].id)
                 /\ job'[d].pc # "edit" => (job'[d] = job[d] \/ job'[d].pc = "rest")
            BY <3>1, <3>7 DEF Rest
        <3>12. IdsOk'
            <4>1. \A d \in Clients : job'[d].pc \in KeyJobs => job'[d] = job[d]
                BY <3>11 DEF KeyJobs
            <4>2. \A d \in Clients : job'[d].pc = "drop" => job'[d] = job[d]
                BY <3>11
            <4>3. /\ \A t \in TemplateIds : There(t)' => t < nextTemplate'
                  /\ \A a \in assets' : a.key[1] < nextTemplate' /\ a.id < nextAsset'
                  /\ \A a, b \in assets' : a.key = b.key \/ a.id = b.id => a = b
                BY <3>1, <3>10 DEF IdsOk, assetVars
            <4>4. \A d \in Clients :
                     /\ job'[d].pc = "edit" => job'[d].id < nextTemplate'
                     /\ job'[d].pc \in KeyJobs => job'[d].key[1] < nextTemplate'
                <5>1. nextTemplate' = nextTemplate
                    BY <3>1
                <5>2. \A d \in Clients : job'[d].pc = "edit" => job'[d].id < nextTemplate
                    BY <3>11 DEF IdsOk
                <5>3. \A d \in Clients : job'[d].pc \in KeyJobs => job'[d].key[1] < nextTemplate
                    <6>1. ASSUME NEW d \in Clients, job'[d].pc \in KeyJobs
                          PROVE  job'[d].key[1] < nextTemplate
                        <7>1. job'[d] = job[d]
                            BY <4>1, <6>1
                        <7>2. job[d].pc \in KeyJobs => job[d].key[1] < nextTemplate
                            BY DEF IdsOk
                        <7>3. QED BY <6>1, <7>1, <7>2
                    <6>2. QED BY <6>1
                <5>4. QED BY <5>1, <5>2, <5>3
            <4>5. \A d \in Clients : job'[d].pc = "drop" =>
                     /\ job'[d].asset < nextAsset'
                     /\ \A a \in assets' : a.id = job'[d].asset => a.key = job'[d].key
                <5>1. UNCHANGED <<assets, nextAsset>>
                    BY <3>1 DEF assetVars
                <5>2. ASSUME NEW d \in Clients, job'[d].pc = "drop"
                      PROVE  /\ job'[d].asset < nextAsset
                             /\ \A a \in assets : a.id = job'[d].asset => a.key = job'[d].key
                    <6>1. job'[d] = job[d]
                        BY <4>2, <5>2
                    <6>2. job[d].pc = "drop" =>
                             /\ job[d].asset < nextAsset
                             /\ \A a \in assets : a.id = job[d].asset => a.key = job[d].key
                        BY DEF IdsOk
                    <6>3. QED BY <5>2, <6>1, <6>2
                <5>3. QED BY <5>1, <5>2
            <4>6. QED BY <4>3, <4>4, <4>5 DEF IdsOk
        <3>13. QED BY <3>9, <3>12
    <2>4. CASE ~There(e.id)
        <3>1. /\ job' = [job EXCEPT ![c] = Rest]
              /\ UNCHANGED <<template, nextTemplate, last, overtaken, deposed, assetVars>>
            BY <1>5, <2>4 DEF WriteEdit, e
        <3>2. Rest \in Jobs /\ Rest.pc = "rest"
            BY DEF Rest
        <3>3. IdsOk' /\ job' \in [Clients -> Jobs]
            BY <3>1, <3>2, JobIds DEF assetVars, KeyJobs
        <3>4. QED BY <1>0, <3>1, <3>3, DesignTypes
    <2>5. QED BY <2>3, <2>4
<1>6. ASSUME NEW c \in Clients, NEW is \in Written, NewTemplate(is), UNCHANGED assetVars,
             NEW j \in Jobs, job' = [job EXCEPT ![c] = j],
             j = Rest \/ (j \in Upload /\ j.key[1] = nextTemplate)
      PROVE  TemplatesTypeOk' /\ IdsOk'
    <2>1. job' \in [Clients -> Jobs] /\ \A d \in Clients : d # c => job'[d] = job[d]
        BY <1>0, <1>6
    <2>2. job'[c] = j /\ j.pc \in {"rest", "file", "row"}
        BY <1>0, <1>6 DEF Rest, Upload
    <2>3. TemplatesTypeOk'
        BY <1>0, <1>6, <2>1, NewTemplateRow, DesignTypes
    <2>4. nextTemplate \in Nat /\ nextTemplate' = nextTemplate + 1
        <3>1. nextTemplate \in TemplateIds /\ nextTemplate' = nextTemplate + 1
            BY <1>6, NewTemplateRow
        <3>2. QED BY <3>1 DEF TemplateIds
    <2>5. \A t \in TemplateIds : There(t)' => t < nextTemplate'
        <3>1. \A t \in TemplateIds : t # nextTemplate => template'[t] = template[t]
            BY <1>6, NewTemplateRow
        <3>2. QED BY <2>4, <3>1 DEF IdsOk, There, TemplateIds
    <2>6. \A d \in Clients :
             /\ job'[d].pc = "edit" => job'[d].id < nextTemplate'
             /\ job'[d].pc \in KeyJobs => job'[d].key[1] < nextTemplate'
        <3>1. ASSUME NEW d \in Clients, job'[d].pc = "edit" PROVE job'[d].id < nextTemplate'
            <4>1. job'[d] = job[d] /\ job[d] \in Edit
                BY <2>1, <2>2, <3>1, JobKinds
            <4>2. QED BY <2>4, <3>1, <4>1 DEF IdsOk, Edit, TemplateIds
        <3>2. ASSUME NEW d \in Clients, job'[d].pc \in KeyJobs
              PROVE  job'[d].key[1] < nextTemplate'
            <4>1. CASE d = c
                <5>1. j \in Upload /\ j.key[1] = nextTemplate
                    BY <1>6, <2>2, <3>2, <4>1 DEF Rest, KeyJobs
                <5>2. QED BY <2>2, <2>4, <4>1, <5>1
            <4>2. CASE d # c
                <5>1. job'[d] = job[d] /\ job[d] \in Upload \cup Deletion
                    BY <2>1, <3>2, <4>2, JobKinds DEF KeyJobs
                <5>2. job[d].key \in Key
                    BY <5>1 DEF Upload, Deletion
                <5>3. job[d].key[1] \in Nat
                    BY <5>2 DEF Key, TemplateIds
                <5>4. QED BY <2>4, <3>2, <5>1, <5>3 DEF IdsOk
            <4>3. QED BY <4>1, <4>2
        <3>3. QED BY <3>1, <3>2
    <2>7. \A a \in assets' : a.key[1] < nextTemplate' /\ a.id < nextAsset'
        <3>1. \A a \in assets : a.key \in Key
            BY DEF TemplatesTypeOk, AssetRow
        <3>2. \A a \in assets : a.key[1] \in Nat
            BY <3>1 DEF Key, TemplateIds
        <3>3. QED BY <1>6, <2>4, <3>2 DEF IdsOk, assetVars
    <2>8. \A d \in Clients : job'[d].pc = "drop" => job'[d] = job[d]
        BY <2>1, <2>2
    <2>9. IdsOk'
        BY <1>6, <2>5, <2>6, <2>7, <2>8 DEF IdsOk, assetVars
    <2>10. QED BY <2>3, <2>9
<1>7. ASSUME NEW c \in Clients, WriteCopy(c) PROVE TemplatesTypeOk' /\ IdsOk'
    <2>1. job[c] \in Edit
        BY <1>7, JobKinds DEF WriteCopy
    <2>2. PICK name \in Texts : NewTemplate([job[c].is EXCEPT !["name"] = name])
        BY <1>7 DEF WriteCopy
    <2>3. [job[c].is EXCEPT !["name"] = name] \in Written
        BY <2>1 DEF Edit, Written
    <2>4. QED BY <1>6, <1>7, <2>2, <2>3 DEF WriteCopy
<1>8. ASSUME NEW c \in Clients, NEW name \in FileNames, NEW is \in Written, Import(c, name, is)
      PROVE  TemplatesTypeOk' /\ IdsOk'
    <2> DEFINE j == [pc |-> "file", key |-> <<nextTemplate, name>>, import |-> TRUE]
    <2>1. NewTemplate(is) /\ job' = [job EXCEPT ![c] = j] /\ UNCHANGED assetVars
        BY <1>8 DEF Import
    <2>2. nextTemplate \in TemplateIds
        BY <2>1, NewTemplateRow
    <2>3. j \in Upload /\ j.key[1] = nextTemplate
        BY <2>2 DEF Upload, Key
    <2> HIDE DEF j
    <2>4. QED BY <1>6, <2>1, <2>3
<1>9. QED BY <1>1, <1>2, <1>3, <1>4, <1>5, <1>7, <1>8

(* What an upload and a deletion hold.                                      *)
LEMMA Holds ==
    ASSUME TemplatesTypeOk, NEW c \in Clients
    PROVE  /\ job[c].pc \in KeyJobs => job[c].key \in Key
           /\ job[c].pc \in {"drop", "unlink"} => job[c].asset \in 1 .. MaxAssets
    BY JobKinds DEF KeyJobs, Upload, Deletion

LEMMA AssetTypesStep ==
    ASSUME TemplatesTypeOk, IdsOk, NEW c \in Clients,
           \/ \E key \in Key : BeginUpload(c, key)
           \/ FailUpload(c) \/ StoreFile(c) \/ StoreRow(c)
           \/ \E a \in assets : BeginDeletion(c, a)
           \/ DropRow(c) \/ Unlink(c) \/ LeaveFile(c)
    PROVE  TemplatesTypeOk' /\ IdsOk'
<1> DEFINE Jobs == {Rest} \cup Removal \cup Edit \cup Upload \cup Deletion
<1>0. /\ assets \subseteq AssetRow /\ nextAsset \in 1 .. MaxAssets + 1 /\ files \subseteq Key
      /\ disturbed \subseteq Key /\ faults \in 0 .. MaxFaults /\ job \in [Clients -> Jobs]
      /\ MaxAssets \in Nat /\ MaxFaults \in Nat
    BY TemplatesAssumption DEF TemplatesTypeOk
<1>1. Rest \in Jobs /\ Rest.pc = "rest"
    BY DEF Rest
<1>2. ASSUME NEW key \in Key, BeginUpload(c, key) PROVE TemplatesTypeOk' /\ IdsOk'
    <2> DEFINE j == [pc |-> "file", key |-> key, import |-> FALSE]
    <2>1. j \in Jobs /\ j.pc = "file" /\ j.key = key
        BY DEF Upload
    <2>2. job' = [job EXCEPT ![c] = j] /\ disturbed' \subseteq Key /\ There(key[1])
          /\ UNCHANGED <<designVars, assets, nextAsset, files, faults>>
        BY <1>0, <1>2 DEF BeginUpload, Turned
    <2> HIDE DEF j
    <2>3. key[1] < nextTemplate
        <3>1. key[1] \in TemplateIds
            BY DEF Key
        <3>2. QED BY <2>2, <3>1 DEF IdsOk
    <2>4. IdsOk' /\ job' \in [Clients -> Jobs]
        BY <2>1, <2>2, <2>3, JobIds DEF designVars, KeyJobs
    <2>5. QED BY <1>0, <2>2, <2>4, AssetTypes
<1>3. ASSUME NEW a \in assets, BeginDeletion(c, a) PROVE TemplatesTypeOk' /\ IdsOk'
    <2> DEFINE j == [pc |-> "drop", key |-> a.key, asset |-> a.id]
    <2>1. a.key \in Key /\ a.id \in 1 .. MaxAssets
        BY <1>0 DEF AssetRow
    <2>2. j \in Jobs /\ j.pc = "drop" /\ j.key = a.key /\ j.asset = a.id
        BY <2>1 DEF Deletion
    <2>3. job' = [job EXCEPT ![c] = j] /\ disturbed' \subseteq Key
          /\ UNCHANGED <<designVars, assets, nextAsset, files, faults>>
        BY <1>0, <1>3, <2>1 DEF BeginDeletion, Turned
    <2> HIDE DEF j
    <2>4. /\ a.key[1] < nextTemplate /\ a.id < nextAsset
          /\ \A b \in assets : b.id = a.id => b = a
        BY DEF IdsOk
    <2>5. IdsOk' /\ job' \in [Clients -> Jobs]
        BY <2>2, <2>3, <2>4, JobIds DEF designVars, KeyJobs
    <2>6. QED BY <1>0, <2>3, <2>5, AssetTypes
<1>4. ASSUME FailUpload(c) PROVE TemplatesTypeOk' /\ IdsOk'
    <2>1. job[c].key \in Key
        BY <1>4, Holds DEF FailUpload, KeyJobs
    <2>2. files' \subseteq Key /\ disturbed' \subseteq Key /\ faults' \in 0 .. MaxFaults
        BY <1>0, <1>4, <2>1 DEF FailUpload, Cleaned
    <2>3. job' = [job EXCEPT ![c] = Rest] /\ UNCHANGED <<designVars, assets, nextAsset>>
        BY <1>4 DEF FailUpload
    <2>4. IdsOk' /\ job' \in [Clients -> Jobs]
        BY <1>1, <2>3, JobIds DEF designVars, KeyJobs
    <2>5. QED BY <1>0, <2>2, <2>3, <2>4, AssetTypes
<1>5. ASSUME StoreFile(c) PROVE TemplatesTypeOk' /\ IdsOk'
    <2> DEFINE j == [job[c] EXCEPT !.pc = "row"]
    <2>1. job[c] \in Upload /\ job[c].key \in Key /\ job[c].pc = "file"
        BY <1>5, JobKinds, Holds DEF StoreFile, KeyJobs
    <2>2. j \in Upload /\ j.pc = "row" /\ j.key = job[c].key
        BY <2>1 DEF Upload
    <2>3. job' = [job EXCEPT ![c] = j] /\ files' \subseteq Key
          /\ UNCHANGED <<designVars, assets, nextAsset, faults, disturbed>>
        BY <1>0, <1>5, <2>1 DEF StoreFile
    <2> HIDE DEF j
    <2>4. job[c].key[1] < nextTemplate
        BY <2>1 DEF IdsOk, KeyJobs
    <2>5. IdsOk' /\ job' \in [Clients -> Jobs]
        BY <2>2, <2>3, <2>4, JobIds DEF designVars, KeyJobs
    <2>6. QED BY <1>0, <2>3, <2>5, AssetTypes
<1>6. ASSUME Unlink(c) PROVE TemplatesTypeOk' /\ IdsOk'
    <2>1. job' = [job EXCEPT ![c] = Rest] /\ files' \subseteq Key
          /\ UNCHANGED <<designVars, assets, nextAsset, faults, disturbed>>
        BY <1>0, <1>6 DEF Unlink
    <2>2. IdsOk' /\ job' \in [Clients -> Jobs]
        BY <1>1, <2>1, JobIds DEF designVars, KeyJobs
    <2>3. QED BY <1>0, <2>1, <2>2, AssetTypes
<1>7. ASSUME StoreRow(c) PROVE TemplatesTypeOk' /\ IdsOk'
    <2>1. job[c].pc = "row" /\ job[c].key \in Key
        BY <1>7, Holds DEF StoreRow, KeyJobs
    <2>2. /\ job' = [job EXCEPT ![c] = Rest]
          /\ UNCHANGED <<designVars, files, faults, disturbed>>
        BY <1>7 DEF StoreRow
    <2>3. CASE Stored(job[c].key)
        <3>1. UNCHANGED <<assets, nextAsset>>
            BY <1>7, <2>3 DEF StoreRow
        <3>2. IdsOk' /\ job' \in [Clients -> Jobs]
            BY <1>1, <2>2, <3>1, JobIds DEF designVars, KeyJobs
        <3>3. QED BY <1>0, <2>2, <3>1, <3>2, AssetTypes
    <2>4. CASE ~Stored(job[c].key)
        <3> DEFINE r == [id |-> nextAsset, key |-> job[c].key]
        <3>1. nextAsset <= MaxAssets /\ assets' = assets \cup {r} /\ nextAsset' = nextAsset + 1
            BY <1>7, <2>4 DEF StoreRow
        <3>2. r \in AssetRow /\ r.id = nextAsset /\ r.key = job[c].key
            BY <1>0, <2>1, <3>1 DEF AssetRow
        <3> HIDE DEF r
        <3>3. job' \in [Clients -> Jobs] /\ job'[c] = Rest
              /\ \A d \in Clients : d # c => job'[d] = job[d]
            BY <1>0, <2>2
        <3>4. assets' \subseteq AssetRow /\ nextAsset' \in 1 .. MaxAssets + 1
            BY <1>0, <3>1, <3>2
        <3>5. TemplatesTypeOk'
            BY <1>0, <2>2, <3>3, <3>4, AssetTypes
        <3>6. nextTemplate' = nextTemplate /\ template' = template
            BY <2>2 DEF designVars
        <3>7. \A a \in assets : a.id \in Nat /\ a.id < nextAsset /\ a.key # r.key
            <4>1. \A a \in assets : a.id \in Nat
                BY <1>0 DEF AssetRow
            <4>2. QED BY <2>4, <3>2, <4>1 DEF IdsOk, Stored
        <3>8. /\ \A a \in assets' : a.key[1] < nextTemplate' /\ a.id < nextAsset'
              /\ \A a, b \in assets' : a.key = b.key \/ a.id = b.id => a = b
            <4>1. r.key[1] < nextTemplate
                BY <2>1, <3>2 DEF IdsOk, KeyJobs
            <4>2. \A a \in assets' : a.key[1] < nextTemplate' /\ a.id < nextAsset'
                BY <1>0, <3>1, <3>2, <3>6, <3>7, <4>1 DEF IdsOk
            <4>3. \A a, b \in assets : a.key = b.key \/ a.id = b.id => a = b
                BY DEF IdsOk
            <4>4. \A a \in assets : a.key # r.key /\ a.id # r.id
                BY <1>0, <3>2, <3>7
            <4>5. QED BY <3>1, <4>2, <4>3, <4>4
        <3>9. ASSUME NEW d \in Clients
              PROVE  /\ job'[d].pc = "edit" => job'[d].id < nextTemplate'
                     /\ job'[d].pc \in KeyJobs => job'[d].key[1] < nextTemplate'
                     /\ job'[d].pc = "drop" =>
                           /\ job'[d].asset < nextAsset'
                           /\ \A a \in assets' : a.id = job'[d].asset => a.key = job'[d].key
            <4>1. CASE d = c
                BY <1>1, <3>3, <4>1 DEF KeyJobs
            <4>2. CASE d # c
                <5>1. job'[d] = job[d]
                    BY <3>3, <4>2
                <5>2. job[d].pc = "drop" => /\ job[d].asset \in Nat /\ job[d].asset < nextAsset
                                            /\ \A a \in assets :
                                                  a.id = job[d].asset => a.key = job[d].key
                    BY Holds, <1>0 DEF IdsOk
                <5>3. job[d].pc = "drop" => /\ job[d].asset < nextAsset' /\ job[d].asset # r.id
                    BY <1>0, <3>1, <3>2, <5>2
                <5>4. job[d].pc = "drop" =>
                         \A a \in assets' : a.id = job[d].asset => a.key = job[d].key
                    BY <3>1, <5>2, <5>3
                <5>5. /\ job[d].pc = "edit" => job[d].id < nextTemplate
                      /\ job[d].pc \in KeyJobs => job[d].key[1] < nextTemplate
                    BY DEF IdsOk
                <5>6. QED BY <3>6, <5>1, <5>3, <5>4, <5>5
            <4>3. QED BY <4>1, <4>2
        <3>10. \A t \in TemplateIds : There(t)' => t < nextTemplate'
            BY <3>6 DEF IdsOk, There
        <3>11. IdsOk'
            BY <3>8, <3>9, <3>10 DEF IdsOk
        <3>12. QED BY <3>5, <3>11
    <2>5. QED BY <2>3, <2>4
<1>8. ASSUME DropRow(c) PROVE TemplatesTypeOk' /\ IdsOk'
    <2>1. /\ job[c].pc = "drop"
          /\ assets' \subseteq assets
          /\ UNCHANGED <<designVars, nextAsset, files, faults, disturbed>>
        BY <1>8 DEF DropRow
    <2>2. job[c] \in Deletion
        BY <2>1, JobKinds
    <2>3. PICK j \in Jobs : job' = [job EXCEPT ![c] = j] /\ j.pc \in {"rest", "unlink"}
                            /\ (j.pc = "unlink" => j.key = job[c].key)
        <3>1. [job[c] EXCEPT !.pc = "unlink"] \in Deletion
              /\ [job[c] EXCEPT !.pc = "unlink"].pc = "unlink"
              /\ [job[c] EXCEPT !.pc = "unlink"].key = job[c].key
            BY <2>2 DEF Deletion
        <3>2. QED BY <1>1, <1>8, <3>1 DEF DropRow
    <2>4. job' \in [Clients -> Jobs] /\ job'[c] = j
          /\ \A d \in Clients : d # c => job'[d] = job[d]
        BY <1>0, <2>3
    <2>5. TemplatesTypeOk'
        BY <1>0, <2>1, <2>4, AssetTypes
    <2>6. ASSUME NEW d \in Clients
          PROVE  /\ job'[d].pc = "edit" => job'[d].id < nextTemplate
                 /\ job'[d].pc \in KeyJobs => job'[d].key[1] < nextTemplate
                 /\ job'[d].pc = "drop" =>
                       /\ job'[d].asset < nextAsset
                       /\ \A a \in assets' : a.id = job'[d].asset => a.key = job'[d].key
        <3>1. CASE d = c
            <4>1. job[c].key[1] < nextTemplate
                BY <2>1 DEF IdsOk, KeyJobs
            <4>2. QED BY <2>3, <2>4, <3>1, <4>1 DEF KeyJobs
        <3>2. CASE d # c
            <4>1. job'[d] = job[d]
                BY <2>4, <3>2
            <4>2. QED BY <2>1, <4>1 DEF IdsOk
        <3>3. QED BY <3>1, <3>2
    <2>7. nextTemplate' = nextTemplate /\ template' = template /\ nextAsset' = nextAsset
        BY <2>1 DEF designVars
    <2>8. IdsOk'
        BY <2>1, <2>6, <2>7 DEF IdsOk, There
    <2>9. QED BY <2>5, <2>8
<1>9. ASSUME LeaveFile(c) PROVE TemplatesTypeOk' /\ IdsOk'
    <2>1. job[c].key \in Key
        BY <1>9, Holds DEF LeaveFile, KeyJobs
    <2>2. disturbed' \subseteq Key /\ faults' \in 0 .. MaxFaults
        BY <1>0, <1>9, <2>1 DEF LeaveFile
    <2>3. job' = [job EXCEPT ![c] = Rest] /\ UNCHANGED <<designVars, assets, nextAsset, files>>
        BY <1>9 DEF LeaveFile
    <2>4. IdsOk' /\ job' \in [Clients -> Jobs]
        BY <1>1, <2>3, JobIds DEF designVars, KeyJobs
    <2>5. QED BY <1>0, <2>2, <2>3, <2>4, AssetTypes
<1>10. QED BY <1>2, <1>3, <1>4, <1>5, <1>6, <1>7, <1>8, <1>9

(* A step that does not concern a template keeps what requests hold of it.  *)
LEMMA TypesStep ==
    ASSUME TemplatesTypeOk, IdsOk, [TemplatesNext]_templatesVars
    PROVE  TemplatesTypeOk' /\ IdsOk'
<1>1. CASE UNCHANGED templatesVars
    <2>1. UNCHANGED <<template, nextTemplate, assets, nextAsset, job>>
        BY <1>1 DEF templatesVars
    <2>2. TemplatesTypeOk'
        BY <1>1 DEF templatesVars, TemplatesTypeOk
    <2>3. IdsOk'
        BY <2>1 DEF IdsOk, There
    <2>4. QED BY <2>2, <2>3
<1>2. CASE TemplatesNext
    BY <1>2, DesignTypesStep, AssetTypesStep DEF TemplatesNext
<1>3. QED BY <1>1, <1>2

THEOREM DesignAlways == TemplatesSpec => [](TemplatesTypeOk /\ IdsOk)
<1>1. TemplatesTypeOk /\ IdsOk /\ [TemplatesNext]_templatesVars => (TemplatesTypeOk /\ IdsOk)'
    BY TypesStep
<1>2. QED BY TemplatesInitOk, <1>1, PTL DEF TemplatesSpec

(***************************************************************************)
(* Assets.  While nothing disturbed an asset at most one request is at it: *)
(* with the file written, or with the row it came for, or with the row     *)
(* gone.                                                                   *)
(***************************************************************************)
KeyOk(key) ==
    /\ \A c, d \in AtKey(key) : c = d
    /\ AtKey(key) = {} => (Stored(key) <=> key \in files)
    /\ \A c \in AtKey(key) :
          /\ job[c].pc = "row" => key \in files
          /\ job[c].pc = "drop" => \E a \in assets : a.key = key /\ a.id = job[c].asset
          /\ job[c].pc = "unlink" => ~Stored(key)

AssetsInv == \A key \in Key \ disturbed : KeyOk(key)

(* A step elsewhere.                                                        *)
LEMMA Elsewhere ==
    ASSUME NEW key \in Key, KeyOk(key),
           \A a \in assets \cup assets' : a.key = key => (a \in assets' <=> a \in assets),
           key \in files' <=> key \in files,
           \A c \in Clients : \/ job'[c] = job[c]
                              \/ c \notin AtKey(key) /\ c \notin AtKey(key)'
    PROVE  KeyOk(key)'
<1>1. Stored(key)' <=> Stored(key)
    BY DEF Stored
<1>2. \A c \in Clients : c \in AtKey(key)' <=> c \in AtKey(key)
    BY DEF AtKey
<1>3. AtKey(key)' = AtKey(key)
    BY <1>2 DEF AtKey
<1>4. \A c \in AtKey(key) : job'[c] = job[c]
    BY DEF AtKey
<1>5. \A n : (\E a \in assets : a.key = key /\ a.id = n)
             => (\E a \in assets' : a.key = key /\ a.id = n)
    OBVIOUS
<1>6. ASSUME NEW c \in AtKey(key)
      PROVE  /\ job'[c].pc = "row" => key \in files'
             /\ job'[c].pc = "drop" => \E a \in assets' : a.key = key /\ a.id = job'[c].asset
             /\ job'[c].pc = "unlink" => ~Stored(key)'
    <2>1. job'[c] = job[c]
        BY <1>4
    <2>2. /\ job[c].pc = "row" => key \in files
          /\ job[c].pc = "drop" => \E a \in assets : a.key = key /\ a.id = job[c].asset
          /\ job[c].pc = "unlink" => ~Stored(key)
        BY DEF KeyOk
    <2>3. QED BY <1>1, <1>5, <2>1, <2>2
<1>7. QED BY <1>1, <1>3, <1>6 DEF KeyOk

(* A step of the only request at an asset, or of one that comes to it.      *)
LEMMA OnlyOne ==
    ASSUME NEW key \in Key, NEW c \in Clients, \A d \in AtKey(key) : d = c,
           NEW j, job \in [Clients -> {Rest} \cup Removal \cup Edit \cup Upload \cup Deletion],
           job' = [job EXCEPT ![c] = j],
           \/ j.pc \in KeyJobs /\ j.key = key
           \/ j.pc \notin KeyJobs /\ (Stored(key)' <=> key \in files'),
           j.pc = "row" => key \in files',
           j.pc = "drop" => \E a \in assets' : a.key = key /\ a.id = j.asset,
           j.pc = "unlink" => ~Stored(key)'
    PROVE  KeyOk(key)'
<1>1. job'[c] = j /\ \A d \in Clients : d # c => job'[d] = job[d]
    OBVIOUS
<1>2. \A d \in AtKey(key)' : d = c
    BY <1>1 DEF AtKey
<1>3. AtKey(key)' = {} => (Stored(key)' <=> key \in files')
    BY <1>1 DEF AtKey, KeyJobs
<1>4. ASSUME NEW d \in AtKey(key)'
      PROVE  /\ job'[d].pc = "row" => key \in files'
             /\ job'[d].pc = "drop" => \E a \in assets' : a.key = key /\ a.id = job'[d].asset
             /\ job'[d].pc = "unlink" => ~Stored(key)'
    <2>1. job'[d] = j
        BY <1>1, <1>2
    <2>2. QED BY <2>1
<1>5. QED BY <1>2, <1>3, <1>4 DEF KeyOk

(* The steps that touch no asset.                                           *)
LEMMA DesignKeys ==
    ASSUME TemplatesTypeOk, AssetsInv, UNCHANGED assetVars,
           \A c \in Clients : job'[c] # job[c] => /\ job[c].pc \notin KeyJobs
                                                  /\ job'[c].pc \notin KeyJobs
    PROVE  AssetsInv'
<1>1. \A key : \A c \in Clients :
          \/ job'[c] = job[c]
          \/ c \notin AtKey(key) /\ c \notin AtKey(key)'
    BY DEF AtKey, KeyJobs
<1>2. UNCHANGED <<assets, files, disturbed>>
    BY DEF assetVars
<1>3. \A key \in Key : KeyOk(key) => KeyOk(key)'
    BY <1>1, <1>2, Elsewhere
<1>4. QED BY <1>2, <1>3 DEF AssetsInv

LEMMA DesignAssetsStep ==
    ASSUME TemplatesTypeOk, IdsOk, AssetsInv,
           \/ \E t \in TemplateIds : Activate(t)
           \/ \E c \in Clients :
                 \/ \E t \in TemplateIds : CheckDelete(c, t)
                 \/ \E t \in TemplateIds, pc \in {"edit", "saveas"}, field \in Fields,
                       text \in Texts : BeginEdit(c, t, pc, field, text)
                 \/ Delete(c) \/ WriteEdit(c) \/ WriteCopy(c)
    PROVE  AssetsInv'
<1>0. job \in [Clients -> {Rest} \cup Removal \cup Edit \cup Upload \cup Deletion]
    BY DEF TemplatesTypeOk
<1>1. \A j : \A c \in Clients : j.pc \notin KeyJobs /\ job[c].pc \notin KeyJobs
                            /\ job' = [job EXCEPT ![c] = j] /\ UNCHANGED assetVars => AssetsInv'
    <2> SUFFICES ASSUME NEW c \in Clients, NEW j, j.pc \notin KeyJobs, job[c].pc \notin KeyJobs,
                        job' = [job EXCEPT ![c] = j], UNCHANGED assetVars
                 PROVE  AssetsInv'
        OBVIOUS
    <2>1. \A d \in Clients : job'[d] # job[d] => job[d].pc \notin KeyJobs /\ job'[d].pc \notin KeyJobs
        BY <1>0
    <2>2. QED BY <2>1, DesignKeys
<1>2. Rest.pc \notin KeyJobs /\ \A c \in Clients : job[c] = Rest => job[c].pc \notin KeyJobs
    BY DEF Rest, KeyJobs
<1>3. ASSUME NEW t \in TemplateIds, Activate(t) PROVE AssetsInv'
    BY <1>3, DesignKeys DEF Activate
<1>4. ASSUME NEW c \in Clients, NEW t \in TemplateIds, CheckDelete(c, t) PROVE AssetsInv'
    <2>1. [pc |-> "remove", id |-> t].pc \notin KeyJobs
        BY DEF KeyJobs
    <2>2. job[c].pc \notin KeyJobs /\ job' = [job EXCEPT ![c] = [pc |-> "remove", id |-> t]]
          /\ UNCHANGED assetVars
        BY <1>2, <1>4 DEF CheckDelete
    <2>3. QED BY <1>1, <2>1, <2>2
<1>5. ASSUME NEW c \in Clients, NEW t \in TemplateIds, NEW pc \in {"edit", "saveas"},
             NEW field \in Fields, NEW text \in Texts, BeginEdit(c, t, pc, field, text)
      PROVE  AssetsInv'
    <2>1. PICK j : j.pc = pc /\ job' = [job EXCEPT ![c] = j]
        BY <1>5 DEF BeginEdit
    <2>2. j.pc \notin KeyJobs
        BY <2>1 DEF KeyJobs
    <2>3. job[c].pc \notin KeyJobs /\ UNCHANGED assetVars
        BY <1>2, <1>5 DEF BeginEdit
    <2>4. QED BY <1>1, <2>1, <2>2, <2>3
<1>6. ASSUME NEW c \in Clients, Delete(c) \/ WriteCopy(c) PROVE AssetsInv'
    <2>1. job[c].pc \in {"remove", "saveas"} /\ job' = [job EXCEPT ![c] = Rest]
          /\ UNCHANGED assetVars
        BY <1>6 DEF Delete, WriteCopy
    <2>2. job[c].pc \notin KeyJobs
        BY <2>1 DEF KeyJobs
    <2>3. QED BY <1>1, <1>2, <2>1, <2>2
<1>7. ASSUME NEW c \in Clients, WriteEdit(c) PROVE AssetsInv'
    <2>1. CASE There(job[c].id)
        <3>1. /\ job[c].pc = "edit" /\ UNCHANGED assetVars
              /\ job' = [d \in Clients |->
                    IF d = c THEN Rest
                    ELSE IF job[d].pc = "edit" /\ job[d].id = job[c].id
                    THEN [job[d] EXCEPT !.fresh = FALSE] ELSE job[d]]
            BY <1>7, <2>1 DEF WriteEdit
        <3>2. \A d \in Clients : job[d].pc = "edit" => [job[d] EXCEPT !.fresh = FALSE].pc = "edit"
            BY JobKinds DEF Edit
        <3>3. ASSUME NEW d \in Clients, job'[d] # job[d]
              PROVE  job[d].pc \notin KeyJobs /\ job'[d].pc \notin KeyJobs
            BY <1>2, <3>1, <3>2, <3>3 DEF KeyJobs
        <3>4. QED BY <3>1, <3>3, DesignKeys
    <2>2. CASE ~There(job[c].id)
        <3>1. job[c].pc = "edit" /\ UNCHANGED assetVars /\ job' = [job EXCEPT ![c] = Rest]
            BY <1>7, <2>2 DEF WriteEdit
        <3>2. job[c].pc \notin KeyJobs
            BY <3>1 DEF KeyJobs
        <3>3. QED BY <1>1, <1>2, <3>1, <3>2
    <2>3. QED BY <2>1, <2>2
<1>8. QED BY <1>3, <1>4, <1>5, <1>6, <1>7

(* A request moves at its asset; the others are as they were.               *)
LEMMA Moved ==
    ASSUME TemplatesTypeOk, AssetsInv, NEW c \in Clients, NEW here \in Key, NEW j,
           job' = [job EXCEPT ![c] = j],
           j.pc \in KeyJobs => j.key = here,
           job[c].pc \in KeyJobs => job[c].key = here,
           disturbed \subseteq disturbed',
           \A key \in Key : key # here =>
              /\ \A a \in assets \cup assets' : a.key = key => (a \in assets' <=> a \in assets)
              /\ key \in files' <=> key \in files,
           here \notin disturbed' => KeyOk(here)'
    PROVE  AssetsInv'
<1>1. \A d \in Clients : job'[d] = IF d = c THEN j ELSE job[d]
    BY DEF TemplatesTypeOk
<1>2. ASSUME NEW key \in Key \ disturbed', key # here PROVE KeyOk(key)'
    <2>1. KeyOk(key)
        BY DEF AssetsInv
    <2>2. \A d \in Clients : \/ job'[d] = job[d]
                             \/ d \notin AtKey(key) /\ d \notin AtKey(key)'
        BY <1>1, <1>2 DEF AtKey, KeyJobs
    <2>3. QED BY <1>2, <2>1, <2>2, Elsewhere
<1>3. \A key \in Key \ disturbed' : KeyOk(key)'
    BY <1>2
<1>4. QED BY <1>3 DEF AssetsInv

LEMMA AssetsStep ==
    ASSUME TemplatesTypeOk, IdsOk, AssetsInv, NEW c \in Clients,
           \/ \E key \in Key : BeginUpload(c, key)
           \/ \E name \in FileNames, is \in Written : Import(c, name, is)
           \/ FailUpload(c) \/ StoreFile(c) \/ StoreRow(c)
           \/ \E a \in assets : BeginDeletion(c, a)
           \/ DropRow(c) \/ Unlink(c) \/ LeaveFile(c)
    PROVE  AssetsInv'
<1>0. /\ job \in [Clients -> {Rest} \cup Removal \cup Edit \cup Upload \cup Deletion]
      /\ Rest.pc \notin KeyJobs /\ Rest.pc = "rest"
      /\ job[c] = Rest => job[c].pc \notin KeyJobs
    BY DEF TemplatesTypeOk, Rest, KeyJobs
<1> DEFINE here == job[c].key
<1>1. ASSUME job[c].pc \in KeyJobs, here \notin disturbed
      PROVE  /\ here \in Key /\ KeyOk(here) /\ \A d \in AtKey(here) : d = c
             /\ job[c].pc = "row" => here \in files
             /\ job[c].pc = "drop" => \E a \in assets : a.key = here /\ a.id = job[c].asset
             /\ job[c].pc = "unlink" => ~Stored(here)
    <2>1. here \in Key /\ c \in AtKey(here)
        BY <1>1, Holds DEF AtKey, KeyJobs
    <2>2. KeyOk(here)
        BY <1>1, <2>1 DEF AssetsInv
    <2> HIDE DEF here
    <2>3. QED BY <2>1, <2>2 DEF KeyOk
<1>2. ASSUME NEW key \in Key, BeginUpload(c, key) PROVE AssetsInv'
    <2> DEFINE j == [pc |-> "file", key |-> key, import |-> FALSE]
    <2>1. j.pc = "file" /\ j.key = key /\ j.pc \in KeyJobs
        BY DEF KeyJobs
    <2>2. job[c].pc \notin KeyJobs /\ job' = [job EXCEPT ![c] = j] /\ disturbed' = Turned(key)
          /\ assets' = assets /\ files' = files
        BY <1>0, <1>2 DEF BeginUpload
    <2> HIDE DEF j
    <2>3. ASSUME key \notin disturbed' PROVE KeyOk(key)'
        <3>1. AtKey(key) = {}
            BY <2>2, <2>3 DEF Turned
        <3>2. \A d \in AtKey(key) : d = c
            BY <3>1
        <3>3. QED BY <1>0, <2>1, <2>2, <3>2, OnlyOne
    <2>4. disturbed \subseteq disturbed'
        BY <2>2 DEF Turned
    <2>5. QED BY <2>1, <2>2, <2>3, <2>4, Moved
<1>3. ASSUME NEW a \in assets, BeginDeletion(c, a) PROVE AssetsInv'
    <2> DEFINE j == [pc |-> "drop", key |-> a.key, asset |-> a.id]
    <2>0. a.key \in Key
        BY DEF TemplatesTypeOk, AssetRow
    <2>1. j.pc = "drop" /\ j.key = a.key /\ j.asset = a.id /\ j.pc \in KeyJobs
        BY DEF KeyJobs
    <2>2. job[c].pc \notin KeyJobs /\ job' = [job EXCEPT ![c] = j] /\ disturbed' = Turned(a.key)
          /\ assets' = assets /\ files' = files
        BY <1>0, <1>3 DEF BeginDeletion
    <2> HIDE DEF j
    <2>3. ASSUME a.key \notin disturbed' PROVE KeyOk(a.key)'
        <3>1. AtKey(a.key) = {}
            BY <2>2, <2>3 DEF Turned
        <3>2. \A d \in AtKey(a.key) : d = c
            BY <3>1
        <3>3. QED BY <1>0, <2>0, <2>1, <2>2, <3>2, OnlyOne
    <2>4. disturbed \subseteq disturbed'
        BY <2>2 DEF Turned
    <2>5. QED BY <2>0, <2>1, <2>2, <2>3, <2>4, Moved
<1>4. ASSUME NEW name \in FileNames, NEW is \in Written, Import(c, name, is) PROVE AssetsInv'
    <2> DEFINE key == <<nextTemplate, name>>
               j == [pc |-> "file", key |-> key, import |-> TRUE]
    <2>1. j.pc = "file" /\ j.key = key /\ j.pc \in KeyJobs
        BY DEF KeyJobs
    <2>2. job[c].pc \notin KeyJobs /\ job' = [job EXCEPT ![c] = j] /\ NewTemplate(is)
          /\ UNCHANGED assetVars
        BY <1>0, <1>4 DEF Import
    <2>3. key \in Key /\ key[1] = nextTemplate /\ nextTemplate \in Nat
        <3>1. nextTemplate \in TemplateIds
            BY <2>2, NewTemplateRow
        <3>2. QED BY <3>1 DEF Key, TemplateIds
    <2> HIDE DEF j, key
    <2>4. \A d \in AtKey(key) : d = c
        BY <2>3 DEF AtKey, KeyJobs, IdsOk
    <2>5. assets' = assets /\ files' = files /\ disturbed' = disturbed
        BY <2>2 DEF assetVars
    <2>6. PICK k \in Key : k = key
        BY <2>3
    <2>7. KeyOk(k)'
        BY <1>0, <2>1, <2>2, <2>4, <2>6, OnlyOne
    <2>8. QED BY <2>1, <2>2, <2>5, <2>6, <2>7, Moved
<1>5. ASSUME FailUpload(c) PROVE AssetsInv'
    <2>1. /\ job[c].pc \in {"file", "row"} /\ job[c].pc \in KeyJobs
          /\ job' = [job EXCEPT ![c] = Rest] /\ files' = Cleaned(c) /\ assets' = assets
          /\ disturbed' = disturbed \cup {k \in {here} : Stored(k) \/ job[c].import}
        BY <1>5 DEF FailUpload, KeyJobs
    <2>2. PICK k \in Key : k = here
        BY <2>1, Holds
    <2>3. ASSUME k \notin disturbed' PROVE KeyOk(k)'
        <3>1. k \notin disturbed /\ ~Stored(k) /\ ~job[c].import
            BY <2>1, <2>2, <2>3
        <3>2. k \notin files'
            BY <2>1, <2>2, <3>1 DEF Cleaned
        <3>3. ~Stored(k)'
            BY <2>1, <3>1 DEF Stored
        <3>4. \A d \in AtKey(k) : d = c
            BY <1>1, <2>1, <2>2, <3>1
        <3>5. QED BY <1>0, <2>1, <3>2, <3>3, <3>4, OnlyOne
    <2>4. \A key \in Key : key # k => (key \in files' <=> key \in files)
        BY <2>1, <2>2 DEF Cleaned
    <2>5. QED BY <1>0, <2>1, <2>2, <2>3, <2>4, Moved
<1>6. ASSUME StoreFile(c) PROVE AssetsInv'
    <2> DEFINE j == [job[c] EXCEPT !.pc = "row"]
    <2>1. /\ job[c].pc = "file" /\ job[c].pc \in KeyJobs
          /\ job' = [job EXCEPT ![c] = j] /\ files' = files \cup {here}
          /\ assets' = assets /\ disturbed' = disturbed
        BY <1>0, <1>6 DEF StoreFile, KeyJobs
    <2>2. PICK k \in Key : k = here
        BY <2>1, Holds
    <2>3. j.pc = "row" /\ j.key = k /\ j.pc \in KeyJobs
        BY <2>1, <2>2, JobKinds DEF Upload, KeyJobs
    <2> HIDE DEF j
    <2>4. ASSUME k \notin disturbed' PROVE KeyOk(k)'
        <3>1. \A d \in AtKey(k) : d = c
            BY <1>1, <2>1, <2>2, <2>4
        <3>2. QED BY <1>0, <2>1, <2>2, <2>3, <3>1, OnlyOne
    <2>5. QED BY <2>1, <2>2, <2>3, <2>4, Moved
<1>7. ASSUME StoreRow(c) PROVE AssetsInv'
    <2>1. /\ job[c].pc = "row" /\ job[c].pc \in KeyJobs
          /\ job' = [job EXCEPT ![c] = Rest] /\ files' = files /\ disturbed' = disturbed
        BY <1>7 DEF StoreRow, KeyJobs
    <2>2. PICK k \in Key : k = here
        BY <2>1, Holds
    <2>3. /\ Stored(k)'
          /\ \A key \in Key : key # k =>
                \A a \in assets \cup assets' : a.key = key => (a \in assets' <=> a \in assets)
        <3>1. CASE Stored(here)
            <4>1. assets' = assets
                BY <1>7, <3>1 DEF StoreRow
            <4>2. \E a \in assets : a.key = k
                BY <2>2, <3>1 DEF Stored
            <4>3. QED BY <4>1, <4>2 DEF Stored
        <3>2. CASE ~Stored(here)
            <4>1. assets' = assets \cup {[id |-> nextAsset, key |-> here]}
                BY <1>7, <3>2 DEF StoreRow
            <4>2. PICK r : r = [id |-> nextAsset, key |-> here]
                OBVIOUS
            <4>3. assets' = assets \cup {r} /\ r.key = k
                BY <2>2, <4>1, <4>2
            <4>4. Stored(k)'
                BY <4>3 DEF Stored
            <4>5. QED BY <4>3, <4>4
        <3>3. QED BY <3>1, <3>2
    <2>4. ASSUME k \notin disturbed' PROVE KeyOk(k)'
        <3>1. (\A d \in AtKey(k) : d = c) /\ k \in files'
            BY <1>1, <2>1, <2>2, <2>4
        <3>2. QED BY <1>0, <2>1, <2>3, <3>1, OnlyOne
    <2>5. QED BY <1>0, <2>1, <2>2, <2>3, <2>4, Moved
<1>8. ASSUME DropRow(c) PROVE AssetsInv'
    <2> DEFINE gone == {a \in assets : a.id = job[c].asset}
               j == [job[c] EXCEPT !.pc = "unlink"]
    <2>1. /\ job[c].pc = "drop" /\ job[c].pc \in KeyJobs
          /\ assets' = assets \ gone /\ files' = files /\ disturbed' = disturbed
          /\ job' = [job EXCEPT ![c] = IF gone = {} THEN Rest ELSE j]
        BY <1>8 DEF DropRow, KeyJobs
    <2>2. PICK k \in Key : k = here
        BY <2>1, Holds
    <2>3. j.pc = "unlink" /\ j.key = k /\ j.pc \in KeyJobs
        BY <2>1, <2>2, JobKinds DEF Deletion, KeyJobs
    <2>4. \A a \in gone : a.key = k
        BY <2>1, <2>2 DEF IdsOk
    <2> HIDE DEF j
    <2>5. ASSUME k \notin disturbed' PROVE KeyOk(k)'
        <3>1. /\ \A d \in AtKey(k) : d = c
              /\ \E a \in assets : a.key = k /\ a.id = job[c].asset
            BY <1>1, <2>1, <2>2, <2>5
        <3>2. PICK b \in assets : b.key = k /\ b.id = job[c].asset
            BY <3>1
        <3>3. \A a \in assets : a.key = k => a = b
            BY <3>2 DEF IdsOk
        <3>4. b \in gone
            BY <3>2
        <3>5. ~Stored(k)'
            BY <2>1, <3>3, <3>4 DEF Stored
        <3>6. job' = [job EXCEPT ![c] = j]
            BY <2>1, <3>4
        <3>7. QED BY <1>0, <2>3, <3>1, <3>5, <3>6, OnlyOne
    <2>6. PICK i : job' = [job EXCEPT ![c] = i] /\ (i.pc \in KeyJobs => i.key = k)
        BY <1>0, <2>1, <2>3
    <2>7. \A key \in Key : key # k =>
             \A a \in assets \cup assets' : a.key = key => (a \in assets' <=> a \in assets)
        BY <2>1, <2>4
    <2> HIDE DEF gone
    <2>8. QED BY <2>1, <2>2, <2>5, <2>6, <2>7, Moved
<1>9. ASSUME Unlink(c) PROVE AssetsInv'
    <2>1. /\ job[c].pc = "unlink" /\ job[c].pc \in KeyJobs
          /\ job' = [job EXCEPT ![c] = Rest] /\ files' = files \ {here}
          /\ assets' = assets /\ disturbed' = disturbed
        BY <1>9 DEF Unlink, KeyJobs
    <2>2. PICK k \in Key : k = here
        BY <2>1, Holds
    <2>3. ASSUME k \notin disturbed' PROVE KeyOk(k)'
        <3>1. (\A d \in AtKey(k) : d = c) /\ ~Stored(k)
            BY <1>1, <2>1, <2>2, <2>3
        <3>2. ~Stored(k)' /\ k \notin files'
            BY <2>1, <2>2, <3>1 DEF Stored
        <3>3. QED BY <1>0, <2>1, <3>1, <3>2, OnlyOne
    <2>4. QED BY <1>0, <2>1, <2>2, <2>3, Moved
<1>10. ASSUME LeaveFile(c) PROVE AssetsInv'
    <2>1. /\ job[c].pc \in KeyJobs /\ job' = [job EXCEPT ![c] = Rest]
          /\ files' = files /\ assets' = assets /\ disturbed' = disturbed \cup {here}
        BY <1>10 DEF LeaveFile, KeyJobs
    <2>2. PICK k \in Key : k = here
        BY <2>1, Holds
    <2>3. k \in disturbed'
        BY <2>1, <2>2
    <2>4. QED BY <1>0, <2>1, <2>2, <2>3, Moved
<1>11. QED BY <1>2, <1>3, <1>4, <1>5, <1>6, <1>7, <1>8, <1>9, <1>10

LEMMA AssetsAlways == TemplatesSpec => []AssetsInv
<1>1. TemplatesInit => AssetsInv
    <2>1. TemplatesInit => \A key \in Key : AtKey(key) = {} /\ ~Stored(key) /\ key \notin files
        BY DEF TemplatesInit, Rest, AtKey, Stored
    <2>2. QED BY <2>1 DEF AssetsInv, KeyOk
<1>2. TemplatesTypeOk /\ IdsOk /\ AssetsInv /\ [TemplatesNext]_templatesVars => AssetsInv'
    <2> SUFFICES ASSUME TemplatesTypeOk, IdsOk, AssetsInv, [TemplatesNext]_templatesVars
                 PROVE  AssetsInv'
        OBVIOUS
    <2>1. CASE UNCHANGED templatesVars
        BY <2>1, DesignKeys DEF templatesVars, assetVars
    <2>2. CASE TemplatesNext
        BY <2>2, DesignAssetsStep, AssetsStep DEF TemplatesNext
    <2>3. QED BY <2>1, <2>2
<1>3. QED BY <1>1, <1>2, DesignAlways, PTL DEF TemplatesSpec

-----------------------------------------------------------------------------
(***************************************************************************)
(* One template is active, or none since a deletion hit the active one.    *)
(***************************************************************************)
ActiveInv == (\E t \in TemplateIds : Active = {t}) \/ (deposed /\ Active = {})

LEMMA ActiveKept ==
    ASSUME ActiveInv, deposed => deposed',
           \A t \in TemplateIds : (There(t) /\ template[t].active)'
                                  <=> (There(t) /\ template[t].active)
    PROVE  ActiveInv'
<1>1. Active' = Active
    BY DEF Active, TemplatesLeft
<1>2. QED BY <1>1 DEF ActiveInv

LEMMA ActiveStep ==
    ASSUME TemplatesTypeOk, IdsOk, ActiveInv, [TemplatesNext]_templatesVars
    PROVE  ActiveInv'
<1>0. template \in [TemplateIds -> TemplateRow \cup {NoTemplate}]
    BY DEF TemplatesTypeOk
<1>1. ASSUME NEW id \in TemplateIds, Activate(id) PROVE ActiveInv'
    <2>1. template' = Activated(id) /\ deposed' = deposed
        BY <1>1 DEF Activate
    <2>2. CASE ~There(id)
        <3>1. \A t \in TemplateIds : template'[t] = template[t]
            BY <2>1, <2>2 DEF Activated
        <3>2. QED BY <2>1, <3>1, ActiveKept DEF There
    <2>3. CASE There(id)
        <3>1. \A t \in TemplateIds : There(t) =>
                 template'[t].there /\ template'[t].active = (t = id)
            BY <2>1, <2>3, RowTypes DEF Activated, TemplateRow
        <3>2. \A t \in TemplateIds : ~There(t) => template'[t] = template[t]
            BY <2>1 DEF Activated
        <3>3. Active' = {id}
            BY <2>3, <3>1, <3>2 DEF Active, TemplatesLeft, There
        <3>4. QED BY <3>3 DEF ActiveInv
    <2>4. QED BY <2>2, <2>3
<1>2. ASSUME NEW c \in Clients, Delete(c) PROVE ActiveInv'
    <2> DEFINE t == job[c].id
    <2>1. t \in TemplateIds
        BY <1>2, JobKinds DEF Delete, Removal
    <2>2. /\ template' = [template EXCEPT ![t] = NoTemplate]
          /\ deposed' = (deposed \/ (There(t) /\ ~Deletable(t)))
        BY <1>2 DEF Delete
    <2> HIDE DEF t
    <2>3. PICK s \in TemplateIds : s = t
        BY <2>1
    <2>4. template'[s] = NoTemplate /\ \A u \in TemplateIds : u # s => template'[u] = template[u]
        BY <1>0, <2>2, <2>3
    <2>5. ~There(s)' /\ \A u \in TemplateIds : u # s => template'[u] = template[u]
        BY <2>4 DEF There, NoTemplate
    <2>6. CASE There(s) /\ template[s].active
        <3>1. deposed'
            BY <2>2, <2>3, <2>6 DEF Deletable
        <3>2. Active' = Active \ {s}
            BY <2>5 DEF Active, TemplatesLeft, There
        <3>3. s \in Active
            BY <2>6 DEF Active, TemplatesLeft
        <3>4. Active' = {}
            BY <3>2, <3>3 DEF ActiveInv
        <3>5. QED BY <3>1, <3>4 DEF ActiveInv
    <2>7. CASE ~(There(s) /\ template[s].active)
        <3>1. \A u \in TemplateIds : (There(u) /\ template[u].active)'
                                     <=> (There(u) /\ template[u].active)
            BY <2>5, <2>7 DEF There
        <3>2. QED BY <2>2, <3>1, ActiveKept
    <2>8. QED BY <2>6, <2>7
<1>3. ASSUME NEW c \in Clients, WriteEdit(c) PROVE ActiveInv'
    <2> DEFINE e == job[c]
    <2>1. e.id \in TemplateIds
        BY <1>3, JobKinds DEF WriteEdit, Edit
    <2>2. deposed' = deposed
        BY <1>3 DEF WriteEdit
    <2>3. CASE ~There(e.id)
        BY <1>3, <2>2, <2>3, ActiveKept DEF WriteEdit, There
    <2>4. CASE There(e.id)
        <3>1. template' = [template EXCEPT ![e.id].is = e.is]
            BY <1>3, <2>4 DEF WriteEdit
        <3>2. template[e.id] \in TemplateRow
            BY <2>1, <2>4, RowTypes
        <3>3. PICK t \in TemplateIds : t = e.id
            BY <2>1
        <3>4. PICK is : is = e.is
            OBVIOUS
        <3>5. /\ template'[t] = [template[t] EXCEPT !.is = is]
              /\ \A u \in TemplateIds : u # t => template'[u] = template[u]
            BY <1>0, <3>1, <3>3, <3>4
        <3>6. template'[t].there = template[t].there /\ template'[t].active = template[t].active
            BY <3>2, <3>3, <3>5 DEF TemplateRow
        <3>7. \A u \in TemplateIds : (There(u) /\ template[u].active)'
                                     <=> (There(u) /\ template[u].active)
            BY <3>5, <3>6 DEF There
        <3>8. QED BY <2>2, <3>7, ActiveKept
    <2>5. QED BY <2>3, <2>4
<1>4. ASSUME NEW is \in Written, NewTemplate(is) PROVE ActiveInv'
    <2>1. /\ template'[nextTemplate] = [there |-> TRUE, active |-> FALSE, is |-> is]
          /\ ~There(nextTemplate) /\ nextTemplate \in TemplateIds
          /\ \A t \in TemplateIds : t # nextTemplate => template'[t] = template[t]
          /\ deposed' = deposed
        BY <1>4, NewTemplateRow
    <2>2. \A u \in TemplateIds : (There(u) /\ template[u].active)'
                                 <=> (There(u) /\ template[u].active)
        BY <2>1 DEF There
    <2>3. QED BY <2>1, <2>2, ActiveKept
<1>5. ASSUME UNCHANGED <<template, deposed>> PROVE ActiveInv'
    BY <1>5, ActiveKept DEF There
<1>6. CASE TemplatesNext
    <2>1. ASSUME NEW c \in Clients, WriteCopy(c) PROVE ActiveInv'
        <3>1. PICK name \in Texts : NewTemplate([job[c].is EXCEPT !["name"] = name])
            BY <2>1 DEF WriteCopy
        <3>2. [job[c].is EXCEPT !["name"] = name] \in Written
            BY <2>1, JobKinds DEF WriteCopy, Edit, Written
        <3>3. QED BY <1>4, <3>1, <3>2
    <2>2. ASSUME NEW c \in Clients, NEW name \in FileNames, NEW is \in Written,
                 Import(c, name, is)
          PROVE  ActiveInv'
        BY <1>4, <2>2 DEF Import
    <2>3. ASSUME NEW c \in Clients, NEW t \in TemplateIds, CheckDelete(c, t) PROVE ActiveInv'
        BY <1>5, <2>3 DEF CheckDelete, designVars
    <2>4. ASSUME NEW c \in Clients, NEW t \in TemplateIds, NEW pc \in {"edit", "saveas"},
                 NEW field \in Fields, NEW text \in Texts, BeginEdit(c, t, pc, field, text)
          PROVE  ActiveInv'
        BY <1>5, <2>4 DEF BeginEdit, designVars
    <2>5. ASSUME NEW c \in Clients, NEW key \in Key, BeginUpload(c, key) PROVE ActiveInv'
        BY <1>5, <2>5 DEF BeginUpload, designVars
    <2>6. ASSUME NEW c \in Clients, NEW a \in assets, BeginDeletion(c, a) PROVE ActiveInv'
        BY <1>5, <2>6 DEF BeginDeletion, designVars
    <2>7. ASSUME NEW c \in Clients,
                 \/ FailUpload(c) \/ StoreFile(c) \/ StoreRow(c)
                 \/ DropRow(c) \/ Unlink(c) \/ LeaveFile(c)
          PROVE  ActiveInv'
        BY <1>5, <2>7 DEF FailUpload, StoreFile, StoreRow, DropRow, Unlink, LeaveFile,
                        designVars
    <2>8. QED BY <1>1, <1>2, <1>3, <1>6, <2>1, <2>2, <2>3, <2>4, <2>5, <2>6, <2>7
             DEF TemplatesNext
<1>7. CASE UNCHANGED templatesVars
    BY <1>5, <1>7 DEF templatesVars
<1>8. QED BY <1>6, <1>7

(***************************************************************************)
(* The single-active invariant and the agreement of rows and files, for    *)
(* any number of requests and templates.                                   *)
(***************************************************************************)
THEOREM DesignIsSound == TemplatesSpec => []DesignHolds
<1>1. TemplatesInit => ActiveInv
    <2> SUFFICES ASSUME TemplatesInit PROVE ActiveInv
        OBVIOUS
    <2>1. PICK text \in Texts : template = [t \in TemplateIds |->
              IF t = 1 THEN [there |-> TRUE, active |-> TRUE, is |-> [f \in Fields |-> text]]
              ELSE NoTemplate]
        BY DEF TemplatesInit
    <2>2. 1 \in TemplateIds
        BY TemplatesAssumption DEF TemplateIds
    <2>3. Active = {1}
        BY <2>1, <2>2 DEF Active, TemplatesLeft, There, NoTemplate
    <2>4. QED BY <2>2, <2>3 DEF ActiveInv
<1>2. TemplatesTypeOk /\ IdsOk /\ ActiveInv /\ [TemplatesNext]_templatesVars => ActiveInv'
    BY ActiveStep
<1>3. ActiveInv => OneActive
    BY FS_Singleton DEF ActiveInv, OneActive
<1>4. AssetsInv => AssetsHaveFiles
    BY DEF AssetsInv, KeyOk, AssetsHaveFiles
<1>5. OneActive /\ AssetsHaveFiles => DesignHolds
    BY DEF DesignHolds
<1>6. QED BY <1>1, <1>2, <1>3, <1>4, <1>5, DesignAlways, AssetsAlways, PTL DEF TemplatesSpec

(***************************************************************************)
(* Every variable of the templates stays in its domain.                    *)
(***************************************************************************)
THEOREM TemplatesTypeCorrect == TemplatesSpec => []TemplatesTypeOk
BY DesignAlways, PTL

-----------------------------------------------------------------------------
(***************************************************************************)
(* Edits.  A form that no other edit has overtaken differs from its row in *)
(* the field it brings.                                                    *)
(***************************************************************************)
FormOk(j) ==
    j.pc = "edit" /\ j.fresh /\ There(j.id) =>
        j.is = [template[j.id].is EXCEPT ![j.field] = j.is[j.field]]

EditsInv == EditsSurvive /\ \A c \in Clients : FormOk(job[c])

(* A step after which the rows show what they showed, but for those that    *)
(* are gone, and no form is fresh that was not.                             *)
LEMMA ShownAlike ==
    ASSUME TemplatesTypeOk, EditsInv,
           \A t \in TemplateIds : There(t)' => There(t) /\ template'[t].is = template[t].is,
           last' = last, overtaken' = overtaken,
           \A c \in Clients : job'[c] = job[c] \/ job'[c].pc # "edit" \/ FormOk(job[c])'
    PROVE  EditsInv'
<1>1. EditsSurvive'
    BY DEF EditsInv, EditsSurvive, TemplatesLeft
<1>2. ASSUME NEW c \in Clients PROVE FormOk(job[c])'
    <2>1. CASE job'[c] = job[c]
        <3>1. PICK j : j = job[c] /\ job'[c] = j
            BY <2>1
        <3>2. j.pc = "edit" => j.id \in TemplateIds
            BY <3>1, JobKinds DEF Edit
        <3>3. FormOk(j)
            BY <3>1 DEF EditsInv
        <3>4. FormOk(j)'
            BY <3>2, <3>3 DEF FormOk
        <3>5. QED BY <3>1, <3>4 DEF FormOk
    <2>2. CASE job'[c].pc # "edit"
        BY <2>2 DEF FormOk
    <2>3. QED BY <2>1, <2>2
<1>3. QED BY <1>1, <1>2 DEF EditsInv

LEMMA EditsStep ==
    ASSUME TemplatesTypeOk, IdsOk, EditsInv, [TemplatesNext]_templatesVars
    PROVE  EditsInv'
<1>0. /\ template \in [TemplateIds -> TemplateRow \cup {NoTemplate}]
      /\ last \in [TemplateIds -> Written] /\ Rest.pc = "rest"
      /\ job \in [Clients -> {Rest} \cup Removal \cup Edit \cup Upload \cup Deletion]
    BY DEF TemplatesTypeOk, Rest
<1>1. ASSUME NEW c \in Clients, NEW j, j.pc # "edit", job' = [job EXCEPT ![c] = j],
             UNCHANGED <<template, last, overtaken>>
      PROVE  EditsInv'
    <2>1. \A d \in Clients : job'[d] = job[d] \/ job'[d].pc # "edit"
        BY <1>0, <1>1
    <2>2. QED BY <1>1, <2>1, ShownAlike DEF There
<1>2. ASSUME NEW id \in TemplateIds, Activate(id) PROVE EditsInv'
    <2>1. \A t \in TemplateIds : There(t) => template'[t].is = template[t].is
        BY <1>2, RowTypes DEF Activate, Activated, TemplateRow
    <2>2. \A t \in TemplateIds : ~There(t) => template'[t] = template[t]
        BY <1>2 DEF Activate, Activated
    <2>3. UNCHANGED <<last, overtaken, job>>
        BY <1>2 DEF Activate
    <2>4. QED BY <2>1, <2>2, <2>3, ShownAlike DEF There
<1>3. ASSUME NEW c \in Clients, Delete(c) PROVE EditsInv'
    <2>1. /\ template' = [template EXCEPT ![job[c].id] = NoTemplate]
          /\ job' = [job EXCEPT ![c] = Rest] /\ UNCHANGED <<last, overtaken>>
        BY <1>3 DEF Delete
    <2>2. \A t \in TemplateIds : template'[t] = template[t] \/ template'[t] = NoTemplate
        BY <1>0, <2>1
    <2>3. \A t \in TemplateIds : There(t)' => There(t) /\ template'[t].is = template[t].is
        BY <2>2 DEF There, NoTemplate
    <2>4. \A d \in Clients : job'[d] = job[d] \/ job'[d].pc # "edit"
        BY <1>0, <2>1
    <2>5. QED BY <2>1, <2>3, <2>4, ShownAlike
<1>4. ASSUME NEW c \in Clients, NEW t \in TemplateIds, NEW pc \in {"edit", "saveas"},
             NEW field \in Fields, NEW text \in Texts, BeginEdit(c, t, pc, field, text)
      PROVE  EditsInv'
    <2>1. UNCHANGED <<template, last, overtaken>> /\ There(t)
        BY <1>4 DEF BeginEdit, designVars
    <2>2. PICK j : /\ job' = [job EXCEPT ![c] = j] /\ j.id = t /\ j.field = field
                   /\ j.is = [template[t].is EXCEPT ![field] = text]
        <3>1. PICK j : j = [pc |-> pc, id |-> t, field |-> field, fresh |-> TRUE,
                            is |-> Overlaid(template[t].is, field, text)]
            OBVIOUS
        <3>2. job' = [job EXCEPT ![c] = j]
            BY <1>4, <3>1 DEF BeginEdit
        <3>3. j.id = t /\ j.field = field /\ j.is = [template[t].is EXCEPT ![field] = text]
            BY <3>1 DEF Overlaid
        <3>4. QED BY <3>2, <3>3
    <2>3. template[t].is \in Written
        BY <2>1, RowTypes DEF TemplateRow
    <2>4. j.is[field] = text
        BY <2>2, <2>3 DEF Written
    <2>5. FormOk(j)'
        BY <2>1, <2>2, <2>4 DEF FormOk
    <2>6. job'[c] = j /\ \A d \in Clients : d # c => job'[d] = job[d]
        BY <1>0, <2>2
    <2>7. FormOk(job[c])'
        BY <2>5, <2>6 DEF FormOk
    <2>8. \A d \in Clients : job'[d] = job[d] \/ FormOk(job[d])'
        BY <2>6, <2>7
    <2>9. QED BY <2>1, <2>8, ShownAlike DEF There
<1>5. ASSUME NEW c \in Clients, WriteEdit(c) PROVE EditsInv'
    <2>1. PICK e : e = job[c] /\ e.pc = "edit"
        BY <1>5 DEF WriteEdit
    <2>2. e \in Edit
        BY <2>1, JobKinds
    <2>3. PICK t \in TemplateIds, f \in Fields : t = e.id /\ f = e.field
        BY <2>2 DEF Edit
    <2>4. e.is \in Written
        BY <2>2 DEF Edit
    <2>5. CASE ~There(t)
        <3>1. job' = [job EXCEPT ![c] = Rest] /\ UNCHANGED <<template, last, overtaken>>
            BY <1>5, <2>1, <2>3, <2>5 DEF WriteEdit
        <3>2. QED BY <1>0, <1>1, <3>1
    <2>6. CASE There(t)
        <3>1. /\ template' = [template EXCEPT ![t].is = e.is]
              /\ last' = [last EXCEPT ![t][f] = e.is[f]]
              /\ overtaken' = overtaken \cup {u \in {t} : ~e.fresh}
              /\ job' = [d \in Clients |->
                    IF d = c THEN Rest
                    ELSE IF job[d].pc = "edit" /\ job[d].id = t
                    THEN [job[d] EXCEPT !.fresh = FALSE] ELSE job[d]]
            BY <1>5, <2>1, <2>3, <2>6 DEF WriteEdit
        <3>2. template[t] \in TemplateRow
            BY <2>6, RowTypes
        <3>3. template'[t] = [template[t] EXCEPT !.is = e.is]
              /\ \A u \in TemplateIds : u # t => template'[u] = template[u]
            BY <1>0, <3>1
        <3>4. template'[t].is = e.is /\ template'[t].there
            BY <2>6, <3>2, <3>3 DEF TemplateRow, There
        <3>5. last'[t] = [last[t] EXCEPT ![f] = e.is[f]]
              /\ \A u \in TemplateIds : u # t => last'[u] = last[u]
            BY <1>0, <3>1
        <3>6. FormOk(e)
            BY <2>1 DEF EditsInv
        <3>7. t \in overtaken' \/ template'[t].is = last'[t]
            <4>1. CASE t \in overtaken \/ ~e.fresh
                BY <3>1, <4>1
            <4>2. CASE t \notin overtaken /\ e.fresh
                <5>1. template[t].is = last[t]
                    BY <2>6, <4>2 DEF EditsInv, EditsSurvive, TemplatesLeft
                <5>2. e.is = [template[t].is EXCEPT ![f] = e.is[f]]
                    BY <2>1, <2>3, <2>6, <3>6, <4>2 DEF FormOk
                <5>3. QED BY <3>4, <3>5, <5>1, <5>2
            <4>3. QED BY <4>1, <4>2
        <3>8. EditsSurvive'
            BY <3>1, <3>3, <3>5, <3>7 DEF EditsInv, EditsSurvive, TemplatesLeft, There
        <3>9. ASSUME NEW d \in Clients PROVE FormOk(job[d])'
            <4>1. CASE d = c
                BY <1>0, <3>1, <4>1 DEF FormOk
            <4>2. CASE d # c /\ job[d].pc = "edit" /\ job[d].id = t
                <5>1. job'[d] = [job[d] EXCEPT !.fresh = FALSE] /\ job[d] \in Edit
                    BY <3>1, <4>2, JobKinds
                <5>2. ~job'[d].fresh
                    BY <5>1 DEF Edit
                <5>3. QED BY <5>2 DEF FormOk
            <4>3. CASE d # c /\ job[d].pc = "edit" /\ job[d].id # t
                <5>1. PICK j : j = job[d] /\ job'[d] = j
                    BY <3>1, <4>3
                <5>2. j.id \in TemplateIds /\ j.id # t
                    BY <4>3, <5>1, JobKinds DEF Edit
                <5>3. FormOk(j)
                    BY <5>1 DEF EditsInv
                <5>4. template'[j.id] = template[j.id]
                    BY <3>3, <5>2
                <5>5. FormOk(j)'
                    BY <5>3, <5>4 DEF FormOk, There
                <5>6. QED BY <5>1, <5>5 DEF FormOk
            <4>4. CASE d # c /\ job[d].pc # "edit"
                BY <3>1, <4>4 DEF FormOk
            <4>5. QED BY <4>1, <4>2, <4>3, <4>4
        <3>10. QED BY <3>8, <3>9 DEF EditsInv
    <2>7. QED BY <2>5, <2>6
<1>6. ASSUME NEW c \in Clients, NEW j, j.pc # "edit", job' = [job EXCEPT ![c] = j],
             NEW is \in Written, NewTemplate(is)
      PROVE  EditsInv'
    <2>1. PICK n \in TemplateIds : n = nextTemplate
        BY <1>6, NewTemplateRow
    <2>2. /\ template'[n].is = last'[n] /\ overtaken' = overtaken
          /\ \A t \in TemplateIds : t # n => template'[t] = template[t] /\ last'[t] = last[t]
        <3>1. /\ template'[nextTemplate] = [there |-> TRUE, active |-> FALSE, is |-> is]
              /\ last'[nextTemplate] = is /\ overtaken' = overtaken
              /\ \A t \in TemplateIds : t # nextTemplate =>
                    template'[t] = template[t] /\ last'[t] = last[t]
            BY <1>6, NewTemplateRow
        <3>2. template'[n] = [there |-> TRUE, active |-> FALSE, is |-> is] /\ last'[n] = is
            BY <2>1, <3>1
        <3>3. QED BY <2>1, <3>1, <3>2
    <2>3. EditsSurvive'
        BY <2>2 DEF EditsInv, EditsSurvive, TemplatesLeft, There
    <2>4. ASSUME NEW d \in Clients PROVE FormOk(job[d])'
        <3>1. CASE d = c
            BY <1>0, <1>6, <3>1 DEF FormOk
        <3>2. CASE d # c /\ job[d].pc = "edit"
            <4>1. PICK i : i = job[d] /\ job'[d] = i
                BY <1>0, <1>6, <3>2
            <4>2. i.id \in TemplateIds
                BY <3>2, <4>1, JobKinds DEF Edit
            <4>3. i.id < nextTemplate
                BY <3>2, <4>1 DEF IdsOk
            <4>4. template'[i.id] = template[i.id]
                BY <2>1, <2>2, <4>2, <4>3 DEF TemplateIds
            <4>5. FormOk(i)
                BY <4>1 DEF EditsInv
            <4>6. FormOk(i)'
                BY <4>4, <4>5 DEF FormOk, There
            <4>7. QED BY <4>1, <4>6 DEF FormOk
        <3>3. CASE d # c /\ job[d].pc # "edit"
            BY <1>0, <1>6, <3>3 DEF FormOk
        <3>4. QED BY <3>1, <3>2, <3>3
    <2>5. QED BY <2>3, <2>4 DEF EditsInv
<1>7. ASSUME NEW c \in Clients, WriteCopy(c) PROVE EditsInv'
    <2>1. PICK name \in Texts : NewTemplate([job[c].is EXCEPT !["name"] = name])
        BY <1>7 DEF WriteCopy
    <2>2. [job[c].is EXCEPT !["name"] = name] \in Written
        BY <1>7, JobKinds DEF WriteCopy, Edit, Written
    <2>3. job' = [job EXCEPT ![c] = Rest]
        BY <1>7 DEF WriteCopy
    <2>4. QED BY <1>0, <1>6, <2>1, <2>2, <2>3
<1>8. ASSUME NEW c \in Clients, NEW name \in FileNames, NEW is \in Written, Import(c, name, is)
      PROVE  EditsInv'
    <2>1. PICK j : j.pc = "file" /\ job' = [job EXCEPT ![c] = j]
        BY <1>8 DEF Import
    <2>2. NewTemplate(is)
        BY <1>8 DEF Import
    <2>3. QED BY <1>6, <2>1, <2>2
<1>9. ASSUME NEW c \in Clients, NEW t \in TemplateIds, CheckDelete(c, t) PROVE EditsInv'
    <2>1. PICK j : j.pc = "remove" /\ job' = [job EXCEPT ![c] = j]
        BY <1>9 DEF CheckDelete
    <2>2. QED BY <1>1, <1>9, <2>1 DEF CheckDelete, designVars
<1>10. ASSUME NEW c \in Clients, NEW key \in Key, BeginUpload(c, key) PROVE EditsInv'
    <2>1. PICK j : j.pc = "file" /\ job' = [job EXCEPT ![c] = j]
        BY <1>10 DEF BeginUpload
    <2>2. QED BY <1>1, <1>10, <2>1 DEF BeginUpload, designVars
<1>11. ASSUME NEW c \in Clients, NEW a \in assets, BeginDeletion(c, a) PROVE EditsInv'
    <2>1. PICK j : j.pc = "drop" /\ job' = [job EXCEPT ![c] = j]
        BY <1>11 DEF BeginDeletion
    <2>2. QED BY <1>1, <1>11, <2>1 DEF BeginDeletion, designVars
<1>12. ASSUME NEW c \in Clients, FailUpload(c) \/ StoreRow(c) \/ Unlink(c) \/ LeaveFile(c)
       PROVE  EditsInv'
    <2>1. job' = [job EXCEPT ![c] = Rest] /\ UNCHANGED designVars
        BY <1>12 DEF FailUpload, StoreRow, Unlink, LeaveFile
    <2>2. QED BY <1>0, <1>1, <2>1 DEF designVars
<1>13. ASSUME NEW c \in Clients, StoreFile(c) PROVE EditsInv'
    <2>1. PICK j : job' = [job EXCEPT ![c] = j] /\ j.pc = "row"
        <3>1. [job[c] EXCEPT !.pc = "row"].pc = "row"
            BY <1>13, JobKinds DEF StoreFile, Upload
        <3>2. QED BY <1>0, <1>13, <3>1 DEF StoreFile
    <2>2. QED BY <1>1, <1>13, <2>1 DEF StoreFile, designVars
<1>14. ASSUME NEW c \in Clients, DropRow(c) PROVE EditsInv'
    <2>1. PICK j : job' = [job EXCEPT ![c] = j] /\ j.pc # "edit"
        <3>1. [job[c] EXCEPT !.pc = "unlink"].pc = "unlink"
            BY <1>14, JobKinds DEF DropRow, Deletion
        <3>2. QED BY <1>0, <1>14, <3>1 DEF DropRow
    <2>2. QED BY <1>1, <1>14, <2>1 DEF DropRow, designVars
<1>15. CASE UNCHANGED templatesVars
    BY <1>15, ShownAlike DEF templatesVars, There
<1>16. CASE TemplatesNext
    BY <1>2, <1>3, <1>4, <1>5, <1>7, <1>8, <1>9, <1>10, <1>11, <1>12, <1>13, <1>14, <1>16
       DEF TemplatesNext
<1>17. QED BY <1>15, <1>16

(***************************************************************************)
(* A template shows the last name and the last body an edit gave it, unless *)
(* two edits of it overlapped, whatever else is renamed, copied, activated, *)
(* imported or deleted in between.                                         *)
(***************************************************************************)
THEOREM EditsAreKept == TemplatesSpec => []EditsSurvive
<1>1. TemplatesInit => EditsInv
    <2> SUFFICES ASSUME TemplatesInit PROVE EditsInv
        OBVIOUS
    <2>1. PICK text \in Texts :
            /\ template = [t \in TemplateIds |->
                  IF t = 1 THEN [there |-> TRUE, active |-> TRUE, is |-> [f \in Fields |-> text]]
                  ELSE NoTemplate]
            /\ last = [t \in TemplateIds |-> [f \in Fields |-> text]]
        BY DEF TemplatesInit
    <2>2. EditsSurvive
        BY <2>1 DEF EditsSurvive, TemplatesLeft, There, NoTemplate
    <2>3. \A c \in Clients : FormOk(job[c])
        BY DEF TemplatesInit, FormOk, Rest
    <2>4. QED BY <2>2, <2>3 DEF EditsInv
<1>2. TemplatesTypeOk /\ IdsOk /\ EditsInv /\ [TemplatesNext]_templatesVars => EditsInv'
    BY EditsStep
<1>3. EditsInv => EditsSurvive
    BY DEF EditsInv
<1>4. QED BY <1>1, <1>2, <1>3, DesignAlways, PTL DEF TemplatesSpec

-----------------------------------------------------------------------------
(***************************************************************************)
(* The files.  A file that is not held by a row is in the hands of one     *)
(* request, or loose; a thumbnail that failed and stayed is loose at once. *)
(***************************************************************************)
InFlight == {"write", "thumbnail", "row", "undo", "unlink"}

HeldBy(row) == IF row.there THEN FilesOf(row.file, row.thumb) ELSE {}
KeptBy(t) == IF t.pc \in InFlight THEN FilesOf(t.file, t.thumb) ELSE {}
HeldNow == UNION {HeldBy(picture[i]) : i \in ImageIds}
KeptNow == UNION {KeptBy(task[c]) : c \in Clients}
Loose == disk \ (HeldNow \cup KeptNow)

RowOk(i) ==
    IF picture[i].there
    THEN /\ i < nextPicture /\ picture[i].file \in 1 .. uploads
         /\ picture[i].alt \in {0, picture[i].file}
         /\ HeldBy(picture[i]) \subseteq disk
         /\ \A j \in ImageIds \ {i} : picture[j].there => picture[j].file # picture[i].file
    ELSE picture[i] = NoPicture

(* What a request is to write or to remove is its own, and a row it read is *)
(* as it was, or gone for ever.                                            *)
TaskOk(t) ==
    /\ t.pc \in InFlight =>
          /\ t.file \in 1 .. uploads
          /\ \A i \in ImageIds : picture[i].there => picture[i].file # t.file
    /\ t.pc \in {"write", "thumbnail"} => ~t.thumb
    /\ t.pc = "thumbnail" => KeptBy(t) \subseteq disk
    /\ t.pc = "row" => KeptBy(t) \subseteq disk
    /\ t.pc = "announce" => t.file \in Uploads
    /\ t.pc \in {"delete", "rename", "read", "alt"} =>
          /\ t.id \in ImageIds /\ t.id < nextPicture
          /\ picture[t.id].there => picture[t.id].file = t.file
    /\ t.pc = "delete" => (picture[t.id].there => picture[t.id].thumb = t.thumb)

Apart == \A c, d \in Clients :
    c # d /\ task[c].pc \in InFlight /\ task[d].pc \in InFlight => task[c].file # task[d].file

OwnInv ==
    /\ ImagesTypeOk
    /\ \A i \in ImageIds : RowOk(i)
    /\ \A c \in Clients : TaskOk(task[c])
    /\ Apart

LooseInv == IsFiniteSet(Loose) /\ Cardinality(Loose) <= 2 * slips

PicturesInv == OwnInv /\ LooseInv

LEMMA FilesApart ==
    ASSUME NEW n, NEW m, n # m, NEW a, NEW b
    PROVE  FilesOf(n, a) \cap FilesOf(m, b) = {}
    BY DEF FilesOf, FileOf, ThumbOf

LEMMA FilesTwo == \A n, a : FilesOf(n, a) \subseteq {FileOf(n), ThumbOf(n)} /\ FileOf(n) \in FilesOf(n, a)
    BY DEF FilesOf

LEMMA FilesType == \A n \in Uploads, a \in BOOLEAN :
    FilesOf(n, a) \subseteq Files /\ FileOf(n) \in Files /\ ThumbOf(n) \in Files
    BY DEF FilesOf, Files

LEMMA NumbersHere ==
    /\ MaxImages \in Nat /\ ImageIds = 1 .. MaxImages /\ Uploads = 1 .. MaxImages
    /\ 1 .. uploads \subseteq Nat
    /\ ImagesTypeOk => 1 .. uploads \subseteq Uploads /\ uploads \in Nat /\ nextPicture \in Nat
    BY ImagesAssumption DEF ImageIds, Uploads, ImagesTypeOk

(* Two files at most become loose by a slip.                                *)
LEMMA Slipped ==
    ASSUME PicturesInv, NEW a, NEW b, Slip, Loose' \subseteq Loose \cup {a, b}
    PROVE  LooseInv'
<1> DEFINE A == Loose \cup {a}
           B == A \cup {b}
<1>1. slips \in Nat /\ slips' = slips + 1
    BY ImagesAssumption, TemplatesAssumption DEF PicturesInv, OwnInv, ImagesTypeOk, Slip
<1>2. IsFiniteSet(Loose) /\ Cardinality(Loose) \in Nat /\ Cardinality(Loose) <= 2 * slips
    BY FS_CardinalityType DEF PicturesInv, LooseInv
<1>3. IsFiniteSet(A) /\ Cardinality(A) \in Nat /\ Cardinality(A) <= Cardinality(Loose) + 1
    BY <1>2, FS_AddElement
<1> HIDE DEF A
<1>4. IsFiniteSet(B) /\ Cardinality(B) \in Nat /\ Cardinality(B) <= Cardinality(A) + 1
    BY <1>3, FS_AddElement
<1>5. Loose' \subseteq B
    BY DEF A
<1> HIDE DEF B
<1>6. IsFiniteSet(Loose') /\ Cardinality(Loose') \in Nat /\ Cardinality(Loose') <= Cardinality(B)
    BY <1>4, <1>5, FS_Subset, FS_CardinalityType
<1>7. Cardinality(Loose') <= 2 * slips'
    BY <1>1, <1>2, <1>3, <1>4, <1>6
<1>8. QED BY <1>6, <1>7 DEF LooseInv

LEMMA Smooth ==
    ASSUME PicturesInv, slips' = slips, Loose' \subseteq Loose
    PROVE  LooseInv'
<1>1. slips \in Nat
    BY DEF PicturesInv, OwnInv, ImagesTypeOk
<1>2. IsFiniteSet(Loose) /\ Cardinality(Loose) \in Nat /\ Cardinality(Loose) <= 2 * slips
    BY FS_CardinalityType DEF PicturesInv, LooseInv
<1>3. IsFiniteSet(Loose') /\ Cardinality(Loose') \in Nat /\ Cardinality(Loose') <= Cardinality(Loose)
    BY <1>2, FS_Subset, FS_CardinalityType
<1>4. Cardinality(Loose') <= 2 * slips'
    BY <1>1, <1>2, <1>3
<1>5. QED BY <1>3, <1>4 DEF LooseInv

(* What becomes loose when one request goes on and the rows stay.           *)
LEMMA LooseAfter ==
    ASSUME ImagesTypeOk, NEW c \in Clients, NEW t, task' = [task EXCEPT ![c] = t],
           UNCHANGED picture, NEW f, f \in Loose', f \notin Loose
    PROVE  f \in disk' /\ f \notin KeptBy(t) /\ (f \in disk => f \in KeptBy(task[c]))
           /\ f \notin HeldNow
<1>1. task'[c] = t /\ \A d \in Clients \ {c} : task'[d] = task[d]
    BY DEF ImagesTypeOk
<1>2. f \in disk' /\ f \notin HeldNow /\ \A d \in Clients : f \notin KeptBy(task'[d])
    BY DEF Loose, HeldNow, KeptNow
<1>3. ASSUME f \in disk PROVE f \in KeptBy(task[c])
    <2>1. PICK d \in Clients : f \in KeptBy(task[d])
        BY <1>2, <1>3 DEF Loose, KeptNow
    <2>2. QED BY <1>1, <1>2, <2>1
<1>4. QED BY <1>1, <1>2, <1>3

(* One request goes on; rows stay, and no file goes.                        *)
LEMMA OwnTask ==
    ASSUME OwnInv, NEW c \in Clients, NEW t \in Task, TaskOk(t)', task' = [task EXCEPT ![c] = t],
           t.pc \in InFlight => task[c].pc \in InFlight /\ task[c].file = t.file,
           UNCHANGED <<picture, nextPicture, uploads>>, disk \subseteq disk',
           disk' \subseteq Files, slips' \in 0 .. MaxFaults, dispatched' \subseteq Uploads
    PROVE  OwnInv'
<1>1. ImagesTypeOk'
    BY DEF OwnInv, ImagesTypeOk
<1>2. \A i \in ImageIds : RowOk(i)'
    BY DEF OwnInv, RowOk
<1>3. task'[c] = t /\ \A d \in Clients \ {c} : task'[d] = task[d]
    BY DEF OwnInv, ImagesTypeOk
<1>4. ASSUME NEW d \in Clients \ {c} PROVE TaskOk(task[d])'
    BY <1>3 DEF OwnInv, TaskOk
<1>5. \A d \in Clients : TaskOk(task[d])'
    BY <1>3, <1>4
<1>6. Apart'
    BY <1>3 DEF OwnInv, Apart
<1>7. QED BY <1>1, <1>2, <1>5, <1>6 DEF OwnInv

LEMMA NoTaskOk == NoTask \in Task /\ TaskOk(NoTask) /\ TaskOk(NoTask)' /\ KeptBy(NoTask) = {}
                  /\ NoTask.pc \notin InFlight
    BY DEF NoTask, Task, TaskOk, KeptBy, InFlight, Bodies

(* The request goes on to another step with what it has in hand.            *)
LEMMA TurnFacts ==
    ASSUME ImagesTypeOk, NEW c \in Clients, NEW p, Turn(c, p),
           p \in {"none", "write", "thumbnail", "row", "undo", "announce",
                  "delete", "unlink", "rename", "read", "alt"}
    PROVE  \E t \in Task :
              /\ task' = [task EXCEPT ![c] = t]
              /\ t.pc = p /\ t.file = task[c].file /\ t.thumb = task[c].thumb
              /\ t.id = task[c].id /\ t.body = task[c].body
<1> DEFINE t == [task[c] EXCEPT !.pc = p]
<1>1. task[c] \in Task
    BY DEF ImagesTypeOk
<1>2. t \in Task /\ t.pc = p /\ t.file = task[c].file /\ t.thumb = task[c].thumb
      /\ t.id = task[c].id /\ t.body = task[c].body
    BY <1>1 DEF Task
<1>3. task' = [task EXCEPT ![c] = t]
    BY DEF Turn
<1>4. QED BY <1>2, <1>3

LEMMA TaskType ==
    ASSUME ImagesTypeOk, NEW c \in Clients
    PROVE  /\ task[c] \in Task /\ task[c].thumb \in BOOLEAN
           /\ task[c].file \in Uploads \cup {0} /\ task[c].id \in ImageIds \cup {0}
           /\ task[c].user \in Uploaders \cup {"none"} /\ task[c].body \in Bodies
    BY DEF ImagesTypeOk, Task

LEMMA UploadStep == PicturesInv /\ (\E c \in Clients : ImagesUpload(c)) => PicturesInv'
<1> SUFFICES ASSUME PicturesInv, NEW c \in Clients, ImagesUpload(c) PROVE PicturesInv'
    OBVIOUS
<1> USE DEF PicturesInv
<1>1. PICK user \in Uploaders, via \in {"form", "mcp"}, body \in Bodies :
         task' = [task EXCEPT ![c] = [NoTask EXCEPT !.pc = "write",
                !.user = user, !.via = via, !.body = body, !.file = uploads + 1]]
    BY DEF ImagesUpload, Accepted
<1>2. PICK t : t = [NoTask EXCEPT !.pc = "write",
                !.user = user, !.via = via, !.body = body, !.file = uploads + 1]
    OBVIOUS
<1>3. uploads + 1 \in Uploads /\ uploads \in Nat /\ uploads' = uploads + 1
      /\ uploads' \in 0 .. MaxImages
    BY ImagesAssumption DEF ImagesUpload, Uploads, OwnInv, ImagesTypeOk
<1>5. t \in Task /\ t.pc = "write" /\ t.file = uploads + 1 /\ t.thumb = FALSE
    BY <1>2, <1>3 DEF NoTask, Task
<1>6. task' = [task EXCEPT ![c] = t] /\ task'[c] = t /\ \A d \in Clients \ {c} : task'[d] = task[d]
    BY <1>1, <1>2 DEF OwnInv, ImagesTypeOk
<1>7. task[c] = NoTask /\ UNCHANGED <<picture, nextPicture, disk, dispatched, slips>>
    BY DEF ImagesUpload
<1>8. ImagesTypeOk'
    BY <1>3, <1>5, <1>6, <1>7 DEF OwnInv, ImagesTypeOk
<1>9. \A i \in ImageIds : RowOk(i)'
    BY <1>3, <1>7 DEF OwnInv, RowOk
<1>10. TaskOk(task[c])'
    BY <1>3, <1>5, <1>6, <1>7 DEF OwnInv, RowOk, TaskOk, InFlight
<1>11. ASSUME NEW d \in Clients \ {c} PROVE TaskOk(task[d])'
    BY <1>3, <1>6, <1>7 DEF OwnInv, TaskOk
<1>12. Apart'
    <2>1. \A d \in Clients \ {c} : task[d].pc \in InFlight => task[d].file # uploads + 1
        BY <1>3 DEF OwnInv, TaskOk
    <2>2. QED BY <2>1, <1>5, <1>6 DEF OwnInv, Apart
<1>13. Loose' \subseteq Loose
    <2>1. ASSUME NEW f \in Loose', f \notin Loose PROVE FALSE
        <3>1. f \in disk => f \in KeptBy(NoTask)
            BY <1>6, <1>7, <2>1, LooseAfter DEF OwnInv
        <3>2. f \in disk
            BY <1>7 DEF Loose
        <3>3. QED BY <3>1, <3>2, NoTaskOk
    <2>2. QED BY <2>1
<1>14. LooseInv'
    BY <1>7, <1>13, Smooth
<1>15. QED BY <1>8, <1>9, <1>10, <1>11, <1>12, <1>14 DEF OwnInv

(* What a request may have in hand.                                         *)
Theirs(c) == {FileOf(task[c].file), ThumbOf(task[c].file)}

(* A step that does not touch rows and leaves to nobody its own files only. *)
LEMMA OnStep ==
    ASSUME PicturesInv, NEW c \in Clients, NEW t \in Task, TaskOk(t)', task' = [task EXCEPT ![c] = t],
           t.pc \in InFlight => task[c].pc \in InFlight /\ task[c].file = t.file,
           UNCHANGED <<picture, nextPicture, uploads>>, disk \subseteq disk',
           disk' \subseteq Files, dispatched' \subseteq Uploads,
           \/ slips' = slips /\ KeptBy(task[c]) \cup (disk' \ disk) \subseteq KeptBy(t)
           \/ Slip /\ (KeptBy(task[c]) \cup (disk' \ disk)) \ KeptBy(t) \subseteq Theirs(c)
    PROVE  PicturesInv'
<1>1. slips' \in 0 .. MaxFaults
    BY TemplatesAssumption DEF PicturesInv, OwnInv, ImagesTypeOk, Slip
<1>2. OwnInv'
    BY <1>1, OwnTask DEF PicturesInv
<1>3. \A f \in Loose' : f \notin Loose =>
         f \in disk' /\ f \notin KeptBy(t) /\ (f \in disk => f \in KeptBy(task[c]))
    BY LooseAfter DEF PicturesInv, OwnInv
<1>4. CASE slips' = slips /\ KeptBy(task[c]) \cup (disk' \ disk) \subseteq KeptBy(t)
    <2>1. Loose' \subseteq Loose
        BY <1>3, <1>4
    <2>2. QED BY <2>1, <1>2, <1>4, Smooth DEF PicturesInv
<1>5. CASE Slip /\ (KeptBy(task[c]) \cup (disk' \ disk)) \ KeptBy(t) \subseteq Theirs(c)
    <2>1. Loose' \subseteq Loose \cup Theirs(c)
        BY <1>3, <1>5
    <2>2. QED BY <2>1, <1>2, <1>5, Slipped DEF PicturesInv, Theirs
<1>6. QED BY <1>4, <1>5

LEMMA WriteStep == PicturesInv /\ (\E c \in Clients : WriteFile(c)) => PicturesInv'
<1> SUFFICES ASSUME PicturesInv, NEW c \in Clients, WriteFile(c) PROVE PicturesInv'
    OBVIOUS
<1> DEFINE n == task[c].file
<1>1. ImagesTypeOk /\ TaskOk(task[c]) /\ task[c].pc = "write"
      /\ UNCHANGED <<picture, nextPicture, uploads, dispatched>>
    BY DEF PicturesInv, OwnInv, WriteFile
<1>2. n \in 1 .. uploads /\ n \in Uploads /\ ~task[c].thumb
      /\ \A i \in ImageIds : picture[i].there => picture[i].file # n
    BY <1>1, NumbersHere DEF TaskOk, InFlight
<1>3. KeptBy(task[c]) = {FileOf(n)} /\ FileOf(n) \in Files
    BY <1>1, <1>2, FilesType DEF KeptBy, FilesOf, InFlight
<1>4. disk \subseteq Files /\ dispatched \subseteq Uploads
    BY <1>1 DEF ImagesTypeOk
<1>5. CASE disk' = disk \cup {FileOf(n)} /\ slips' = slips
           /\ Turn(c, IF task[c].body = "image" THEN "thumbnail" ELSE "row")
    <2>1. PICK p \in {"thumbnail", "row"} : Turn(c, p)
        BY <1>5
    <2>2. PICK t \in Task : /\ task' = [task EXCEPT ![c] = t]
                            /\ t.pc = p /\ t.file = n /\ t.thumb = task[c].thumb
        BY <1>1, <2>1, TurnFacts
    <2>3. KeptBy(t) = {FileOf(n)} /\ KeptBy(t)' = KeptBy(t)
        BY <1>2, <2>2 DEF KeptBy, FilesOf, InFlight
    <2>4. TaskOk(t)'
        BY <1>1, <1>2, <1>5, <2>2, <2>3 DEF TaskOk, InFlight
    <2>5. t.pc \in InFlight => task[c].pc \in InFlight /\ task[c].file = t.file
        BY <1>1, <2>2 DEF InFlight
    <2>6. disk \subseteq disk' /\ disk' \subseteq Files /\ dispatched' \subseteq Uploads
        BY <1>1, <1>3, <1>4, <1>5
    <2>7. KeptBy(task[c]) \cup (disk' \ disk) \subseteq KeptBy(t)
        BY <1>3, <1>5, <2>3
    <2>8. QED BY <1>1, <1>5, <2>2, <2>4, <2>5, <2>6, <2>7, OnStep
<1>6. CASE disk' \in {disk, disk \cup {FileOf(n)}} /\ Slip /\ Drop(c)
    <2>1. task' = [task EXCEPT ![c] = NoTask]
        BY <1>6 DEF Drop
    <2>2. (KeptBy(task[c]) \cup (disk' \ disk)) \ KeptBy(NoTask) \subseteq Theirs(c)
        BY <1>3, <1>6 DEF Theirs
    <2>3. QED BY <1>1, <1>3, <1>4, <1>6, <2>1, <2>2, NoTaskOk, OnStep
<1>7. QED BY <1>5, <1>6 DEF WriteFile, WriteNewFile

LEMMA ThumbnailStep == PicturesInv /\ (\E c \in Clients : WriteThumbnail(c)) => PicturesInv'
<1> SUFFICES ASSUME PicturesInv, NEW c \in Clients, WriteThumbnail(c) PROVE PicturesInv'
    OBVIOUS
<1> DEFINE n == task[c].file
           T == ThumbOf(n)
<1>1. ImagesTypeOk /\ TaskOk(task[c]) /\ task[c].pc = "thumbnail"
      /\ UNCHANGED <<picture, nextPicture, uploads, dispatched>>
    BY DEF PicturesInv, OwnInv, WriteThumbnail
<1>2. n \in 1 .. uploads /\ n \in Uploads /\ ~task[c].thumb
      /\ \A i \in ImageIds : picture[i].there => picture[i].file # n
    BY <1>1, NumbersHere DEF TaskOk, InFlight
<1>3. KeptBy(task[c]) = {FileOf(n)} /\ FileOf(n) \in Files /\ T \in Files /\ FileOf(n) \in disk
    BY <1>1, <1>2, FilesType DEF KeptBy, FilesOf, InFlight, TaskOk
<1>4. disk \subseteq Files /\ dispatched \subseteq Uploads
    BY <1>1 DEF ImagesTypeOk
<1>5. CASE /\ disk' = disk \cup {T} /\ slips' = slips
           /\ task' = [task EXCEPT ![c].pc = "row", ![c].thumb = TRUE]
    <2>1. PICK t : t = [task[c] EXCEPT !.pc = "row", !.thumb = TRUE]
        OBVIOUS
    <2>2. t \in Task /\ t.pc = "row" /\ t.file = n /\ t.thumb
        BY <1>1, <2>1, TaskType DEF Task
    <2>3. task' = [task EXCEPT ![c] = t]
        BY <1>5, <2>1
    <2>4. KeptBy(t) = {FileOf(n), T} /\ KeptBy(t)' = KeptBy(t)
        BY <2>2 DEF KeptBy, FilesOf, InFlight
    <2>5. TaskOk(t)'
        BY <1>1, <1>2, <1>3, <1>5, <2>2, <2>4 DEF TaskOk, InFlight
    <2>6. t.pc \in InFlight => task[c].pc \in InFlight /\ task[c].file = t.file
        BY <1>1, <2>2 DEF InFlight
    <2>7. disk \subseteq disk' /\ disk' \subseteq Files /\ dispatched' \subseteq Uploads
        BY <1>1, <1>3, <1>4, <1>5
    <2>8. KeptBy(task[c]) \cup (disk' \ disk) \subseteq KeptBy(t)
        BY <1>3, <1>5, <2>4
    <2>9. QED BY <1>1, <1>5, <2>2, <2>3, <2>5, <2>6, <2>7, <2>8, OnStep
<1>6. CASE disk' \in {disk, disk \cup {T}} /\ Slip /\ Turn(c, "row")
    <2>1. PICK t \in Task : /\ task' = [task EXCEPT ![c] = t]
                            /\ t.pc = "row" /\ t.file = n /\ t.thumb = task[c].thumb
        BY <1>1, <1>6, TurnFacts
    <2>2. KeptBy(t) = {FileOf(n)} /\ KeptBy(t)' = KeptBy(t)
        BY <1>2, <2>1 DEF KeptBy, FilesOf, InFlight
    <2>3. TaskOk(t)'
        BY <1>1, <1>2, <1>3, <1>6, <2>1, <2>2 DEF TaskOk, InFlight
    <2>4. t.pc \in InFlight => task[c].pc \in InFlight /\ task[c].file = t.file
        BY <1>1, <2>1 DEF InFlight
    <2>5. disk \subseteq disk' /\ disk' \subseteq Files /\ dispatched' \subseteq Uploads
        BY <1>1, <1>3, <1>4, <1>6
    <2>6. (KeptBy(task[c]) \cup (disk' \ disk)) \ KeptBy(t) \subseteq Theirs(c)
        BY <1>3, <1>6, <2>2 DEF Theirs
    <2>7. QED BY <1>1, <1>6, <2>1, <2>3, <2>4, <2>5, <2>6, OnStep
<1>7. QED BY <1>5, <1>6 DEF WriteThumbnail, WriteNewFile

(* Steps that change neither a table nor the disk and leave nothing behind. *)
LEMMA StillStep ==
    ASSUME PicturesInv, NEW c \in Clients, NEW t \in Task, TaskOk(t),
           task' = [task EXCEPT ![c] = t],
           UNCHANGED <<picture, nextPicture, uploads, disk>>, dispatched' \subseteq Uploads,
           t.pc \in InFlight => task[c].pc \in InFlight /\ task[c].file = t.file,
           \/ slips' = slips /\ KeptBy(task[c]) \subseteq KeptBy(t)
           \/ Slip
    PROVE  PicturesInv'
<1>1. TaskOk(t)'
    BY DEF TaskOk
<1>2. disk' \subseteq Files
    BY DEF PicturesInv, OwnInv, ImagesTypeOk
<1>3. KeptBy(task[c]) \subseteq Theirs(c)
    BY FilesTwo DEF KeptBy, Theirs
<1>4. QED BY <1>1, <1>2, <1>3, OnStep

LEMMA AnnounceStep == PicturesInv /\ (\E c \in Clients : AnnounceUpload(c)) => PicturesInv'
<1> SUFFICES ASSUME PicturesInv, NEW c \in Clients, AnnounceUpload(c) PROVE PicturesInv'
    OBVIOUS
<1>1. ImagesTypeOk /\ TaskOk(task[c]) /\ task[c].pc = "announce"
      /\ task' = [task EXCEPT ![c] = NoTask]
      /\ UNCHANGED <<picture, nextPicture, uploads, disk, slips>>
    BY DEF PicturesInv, OwnInv, AnnounceUpload, Drop
<1>2. KeptBy(task[c]) = {}
    BY <1>1 DEF KeptBy, InFlight
<1>3. dispatched' \subseteq Uploads
    BY <1>1 DEF AnnounceUpload, TaskOk, ImagesTypeOk
<1>4. QED BY <1>1, <1>2, <1>3, NoTaskOk, StillStep

LEMMA LoadStep ==
    PicturesInv /\ (\E c \in Clients : LoadPicture(c) \/ LoadAltGenerationImage(c)) => PicturesInv'
<1> SUFFICES ASSUME PicturesInv, NEW c \in Clients, LoadPicture(c) \/ LoadAltGenerationImage(c)
             PROVE  PicturesInv'
    OBVIOUS
<1>1. ImagesTypeOk /\ task[c] = NoTask
      /\ UNCHANGED <<picture, nextPicture, uploads, disk, slips, dispatched>>
    BY DEF PicturesInv, OwnInv, LoadPicture, LoadAltGenerationImage
<1>2. dispatched' \subseteq Uploads
    BY <1>1 DEF ImagesTypeOk
<1>3. ASSUME NEW i \in ImageIds, picture[i].there
      PROVE  i < nextPicture /\ picture[i].file \in Uploads /\ picture[i].thumb \in BOOLEAN
    BY <1>1, <1>3, NumbersHere DEF PicturesInv, OwnInv, RowOk, ImagesTypeOk, Picture
<1>4. CASE LoadPicture(c)
    <2>1. PICK i \in ImageIds, user \in Uploaders, pc \in {"delete", "rename"} :
             /\ picture[i].there
             /\ task' = [task EXCEPT ![c] = [NoTask EXCEPT !.pc = pc,
                   !.user = user, !.id = i, !.file = picture[i].file,
                   !.thumb = picture[i].thumb]]
        BY <1>4 DEF LoadPicture
    <2>2. PICK t : t = [NoTask EXCEPT !.pc = pc,
                   !.user = user, !.id = i, !.file = picture[i].file,
                   !.thumb = picture[i].thumb]
        OBVIOUS
    <2>3. t \in Task /\ t.pc = pc /\ t.id = i /\ t.file = picture[i].file /\ t.thumb = picture[i].thumb
        BY <1>3, <2>1, <2>2 DEF NoTask, Task, Bodies
    <2>4. task' = [task EXCEPT ![c] = t]
        BY <2>1, <2>2
    <2>5. TaskOk(t)
        BY <1>3, <2>1, <2>3 DEF TaskOk, InFlight
    <2>6. t.pc \notin InFlight
        BY <2>3 DEF InFlight
    <2>7. QED BY <1>1, <1>2, <2>3, <2>4, <2>5, <2>6, NoTaskOk, StillStep
<1>5. CASE LoadAltGenerationImage(c)
    <2>1. PICK i \in ImageIds, user \in Uploaders :
             /\ picture[i].there
             /\ task' = [task EXCEPT ![c] = [NoTask EXCEPT !.pc = "read",
                   !.user = user, !.id = i, !.file = picture[i].file]]
        BY <1>5 DEF LoadAltGenerationImage
    <2>2. PICK t : t = [NoTask EXCEPT !.pc = "read",
                   !.user = user, !.id = i, !.file = picture[i].file]
        OBVIOUS
    <2>3. t \in Task /\ t.pc = "read" /\ t.id = i /\ t.file = picture[i].file
        BY <1>3, <2>1, <2>2 DEF NoTask, Task, Bodies
    <2>4. task' = [task EXCEPT ![c] = t]
        BY <2>1, <2>2
    <2>5. TaskOk(t)
        BY <1>3, <2>1, <2>3 DEF TaskOk, InFlight
    <2>6. t.pc \notin InFlight
        BY <2>3 DEF InFlight
    <2>7. QED BY <1>1, <1>2, <2>3, <2>4, <2>5, <2>6, NoTaskOk, StillStep
<1>6. QED BY <1>4, <1>5

LEMMA ReadStep == PicturesInv /\ (\E c \in Clients : ReadStoredFile(c)) => PicturesInv'
<1> SUFFICES ASSUME PicturesInv, NEW c \in Clients, ReadStoredFile(c) PROVE PicturesInv'
    OBVIOUS
<1>1. ImagesTypeOk /\ TaskOk(task[c]) /\ task[c].pc = "read"
      /\ UNCHANGED <<picture, nextPicture, uploads, disk, slips, dispatched>>
    BY DEF PicturesInv, OwnInv, ReadStoredFile
<1>2. dispatched' \subseteq Uploads /\ KeptBy(task[c]) = {}
    BY <1>1 DEF ImagesTypeOk, KeptBy, InFlight
<1>3. CASE Turn(c, "alt")
    <2>1. PICK t \in Task : /\ task' = [task EXCEPT ![c] = t] /\ t.pc = "alt"
                            /\ t.file = task[c].file /\ t.id = task[c].id
        BY <1>1, <1>3, TurnFacts
    <2>2. TaskOk(t) /\ t.pc \notin InFlight
        BY <1>1, <2>1 DEF TaskOk, InFlight
    <2>3. QED BY <1>1, <1>2, <2>1, <2>2, StillStep
<1>4. CASE Drop(c)
    <2>1. task' = [task EXCEPT ![c] = NoTask]
        BY <1>4 DEF Drop
    <2>2. QED BY <1>1, <1>2, <2>1, NoTaskOk, StillStep
<1>5. QED BY <1>3, <1>4 DEF ReadStoredFile

LEMMA DieStep == PicturesInv /\ (\E c \in Clients : DieImages(c)) => PicturesInv'
<1> SUFFICES ASSUME PicturesInv, NEW c \in Clients, DieImages(c) PROVE PicturesInv'
    OBVIOUS
<1> DEFINE n == task[c].file
<1>1. ImagesTypeOk /\ TaskOk(task[c]) /\ Slip /\ task' = [task EXCEPT ![c] = NoTask]
      /\ UNCHANGED <<picture, nextPicture, uploads, dispatched>>
    BY DEF PicturesInv, OwnInv, DieImages, Drop
<1>2. disk' = disk \/ (task[c].pc \in InFlight /\ disk' \in {disk \cup {FileOf(n)}, disk \cup {ThumbOf(n)}})
    BY DEF DieImages, InFlight
<1>3. task[c].pc \in InFlight => FileOf(n) \in Files /\ ThumbOf(n) \in Files
    BY <1>1, NumbersHere, FilesType DEF TaskOk
<1>4. KeptBy(task[c]) \subseteq Theirs(c)
    BY FilesTwo DEF KeptBy, Theirs
<1>5. disk \subseteq disk' /\ disk' \subseteq Files /\ dispatched' \subseteq Uploads
    BY <1>1, <1>2, <1>3 DEF ImagesTypeOk
<1>6. (KeptBy(task[c]) \cup (disk' \ disk)) \ KeptBy(NoTask) \subseteq Theirs(c)
    BY <1>2, <1>4 DEF Theirs
<1>7. QED BY <1>1, <1>5, <1>6, NoTaskOk, OnStep

LEMMA InsertStep ==
    ASSUME PicturesInv, NEW c \in Clients, task[c].pc = "row", InsertImage(PictureRow(task[c])),
           NEW t \in Task, task' = [task EXCEPT ![c] = t],
           t.pc \in {"announce", "none"}, t.pc = "announce" => t.file = task[c].file,
           UNCHANGED <<disk, uploads, dispatched, slips>>
    PROVE  PicturesInv'
<1> DEFINE n == task[c].file
<1>1. ImagesTypeOk /\ TaskOk(task[c]) /\ Apart /\ \A i \in ImageIds : RowOk(i)
    BY DEF PicturesInv, OwnInv
<1>k. PICK k \in ImageIds : k = nextPicture
    BY <1>1, ImagesAssumption DEF InsertImage, ImagesTypeOk, ImageIds
<1>2. nextPicture = k /\ nextPicture' = k + 1 /\ nextPicture' \in 1 .. MaxImages + 1
      /\ ~picture[k].there /\ picture[k] = NoPicture
    BY <1>1, <1>k, ImagesAssumption DEF InsertImage, ImagesTypeOk, ImageIds, RowOk
<1>3. PICK q : q = PictureRow(task[c])
    OBVIOUS
<1>4. n \in 1 .. uploads /\ n \in Uploads /\ KeptBy(task[c]) \subseteq disk
      /\ \A i \in ImageIds : picture[i].there => picture[i].file # n
    BY <1>1, NumbersHere DEF TaskOk, InFlight
<1>5. q \in Picture /\ q.there /\ q.file = n /\ q.thumb = task[c].thumb /\ q.alt = 0
    BY <1>1, <1>3, <1>4, TaskType DEF PictureRow, Picture, KindFor
<1>6. picture' = [picture EXCEPT ![k] = q] /\ picture'[k] = q
      /\ \A i \in ImageIds \ {k} : picture'[i] = picture[i]
    BY <1>1, <1>2, <1>3 DEF InsertImage, ImagesTypeOk
<1>7. task'[c] = t /\ \A d \in Clients \ {c} : task'[d] = task[d]
    BY <1>1 DEF ImagesTypeOk
<1>8. HeldBy(q) = KeptBy(task[c]) /\ HeldBy(q)' = HeldBy(q)
    BY <1>5 DEF HeldBy, KeptBy, InFlight
<1>9. ImagesTypeOk'
    BY <1>1, <1>2, <1>5, <1>6 DEF ImagesTypeOk
<1>10. RowOk(k)'
    BY <1>2, <1>4, <1>5, <1>6, <1>8, NumbersHere, <1>1 DEF RowOk
<1>11. ASSUME NEW i \in ImageIds \ {k} PROVE RowOk(i)'
    BY <1>1, <1>2, <1>4, <1>5, <1>6, NumbersHere DEF RowOk
<1>12. TaskOk(task[c])'
    BY <1>4, <1>7 DEF TaskOk, InFlight
<1>13. ASSUME NEW d \in Clients \ {c} PROVE TaskOk(task[d])'
    <2>1. TaskOk(task[d]) /\ task'[d] = task[d]
        BY <1>7 DEF PicturesInv, OwnInv
    <2>2. task[d].pc \in InFlight => task[d].file # n
        BY <1>1 DEF Apart, InFlight
    <2>0. PICK l \in ImageIds \cup {0} : l = task[d].id
        BY <1>1, TaskType
    <2>3. l \in ImageIds /\ l < nextPicture => picture'[l] = picture[l] /\ l < nextPicture'
        BY <1>1, <1>2, <1>6, NumbersHere
    <2>5. task[d].pc \in InFlight =>
             \A i \in ImageIds : picture'[i].there => picture'[i].file # task[d].file
        BY <2>1, <2>2, <1>5, <1>6 DEF TaskOk
    <2>6. disk' = disk /\ uploads' = uploads
        OBVIOUS
    <2>7. QED BY <2>0, <2>1, <2>3, <2>5, <2>6 DEF TaskOk
<1>14. Apart'
    BY <1>1, <1>7 DEF Apart, InFlight
<1>15. Loose' \subseteq Loose
    <2>1. ASSUME NEW f \in Loose' PROVE f \in Loose
        <3>1. f \in disk /\ (\A i \in ImageIds : f \notin HeldBy(picture'[i]))
              /\ \A d \in Clients : f \notin KeptBy(task'[d])
            BY DEF Loose, HeldNow, KeptNow
        <3>2. \A i \in ImageIds : f \notin HeldBy(picture[i])
            BY <3>1, <1>2, <1>6 DEF HeldBy
        <3>3. f \notin KeptBy(task[c])
            BY <3>1, <1>2, <1>6, <1>8
        <3>4. \A d \in Clients : f \notin KeptBy(task[d])
            BY <3>1, <3>3, <1>7
        <3>5. QED BY <3>1, <3>2, <3>4 DEF Loose, HeldNow, KeptNow
    <2>2. QED BY <2>1
<1>16. LooseInv'
    BY <1>15, Smooth
<1>17. QED BY <1>9, <1>10, <1>11, <1>12, <1>13, <1>14, <1>16 DEF PicturesInv, OwnInv

LEMMA CreateStep == PicturesInv /\ (\E c \in Clients : CreateImage(c)) => PicturesInv'
<1> SUFFICES ASSUME PicturesInv, NEW c \in Clients, CreateImage(c) PROVE PicturesInv'
    OBVIOUS
<1>1. ImagesTypeOk /\ TaskOk(task[c]) /\ task[c].pc = "row"
      /\ UNCHANGED <<uploads, disk, dispatched>>
    BY DEF PicturesInv, OwnInv, CreateImage
<1>2. CASE InsertImage(PictureRow(task[c])) /\ slips' = slips /\ Turn(c, "announce")
    <2>1. PICK t \in Task : /\ task' = [task EXCEPT ![c] = t] /\ t.pc = "announce"
                            /\ t.file = task[c].file
        BY <1>1, <1>2, TurnFacts
    <2>2. t.pc \in {"announce", "none"} /\ slips' = slips
        BY <1>2, <2>1
    <2>3. QED BY <1>1, <1>2, <2>1, <2>2, InsertStep
<1>3. CASE InsertImage(PictureRow(task[c])) /\ slips' = slips /\ Drop(c)
    <2>1. task' = [task EXCEPT ![c] = NoTask] /\ NoTask.pc = "none"
        BY <1>3 DEF Drop, NoTask
    <2>2. QED BY <1>1, <1>3, <2>1, NoTaskOk, InsertStep
<1>4. CASE Slip /\ Turn(c, "undo") /\ UNCHANGED <<picture, nextPicture>>
    <2>1. PICK t \in Task : /\ task' = [task EXCEPT ![c] = t] /\ t.pc = "undo"
                            /\ t.file = task[c].file /\ t.thumb = task[c].thumb
        BY <1>1, <1>4, TurnFacts
    <2>2. TaskOk(t)
        BY <1>1, <2>1 DEF TaskOk, InFlight
    <2>3. dispatched' \subseteq Uploads
        BY <1>1 DEF ImagesTypeOk
    <2>4. t.pc \in InFlight => task[c].pc \in InFlight /\ task[c].file = t.file
        BY <1>1, <2>1 DEF InFlight
    <2>5. QED BY <1>1, <1>4, <2>1, <2>2, <2>3, <2>4, StillStep
<1>5. QED BY <1>2, <1>3, <1>4 DEF CreateImage

LEMMA UnlinkStep == PicturesInv /\ (\E c \in Clients : DeleteFiles(c)) => PicturesInv'
<1> SUFFICES ASSUME PicturesInv, NEW c \in Clients, DeleteFiles(c) PROVE PicturesInv'
    OBVIOUS
<1> DEFINE n == task[c].file
           theirs == FilesOf(n, task[c].thumb)
<1>1. ImagesTypeOk /\ TaskOk(task[c]) /\ Apart /\ task[c].pc \in InFlight
      /\ task' = [task EXCEPT ![c] = NoTask]
      /\ UNCHANGED <<picture, nextPicture, uploads, dispatched>>
    BY DEF PicturesInv, OwnInv, DeleteFiles, Drop, InFlight
<1>2. task'[c] = NoTask /\ \A d \in Clients \ {c} : task'[d] = task[d]
    BY <1>1 DEF ImagesTypeOk
<1>3. theirs = KeptBy(task[c]) /\ theirs \subseteq Theirs(c)
    BY <1>1, FilesTwo DEF KeptBy, Theirs
<1>4. disk' \subseteq disk /\ disk \subseteq disk' \cup theirs
      /\ ((slips' = slips /\ disk' = disk \ theirs) \/ Slip)
    BY DEF DeleteFiles
<1>5. \A i \in ImageIds : HeldBy(picture[i]) \cap theirs = {}
    BY <1>1, FilesApart DEF TaskOk, HeldBy
<1>6. \A d \in Clients \ {c} : KeptBy(task[d]) \cap theirs = {}
    BY <1>1, FilesApart DEF Apart, KeptBy
<1> HIDE DEF theirs
<1>7. ImagesTypeOk'
    BY <1>1, <1>4, NoTaskOk, TemplatesAssumption DEF ImagesTypeOk, Slip
<1>8. ASSUME NEW i \in ImageIds PROVE RowOk(i)'
    BY <1>1, <1>4, <1>5 DEF PicturesInv, OwnInv, RowOk, HeldBy
<1>9. ASSUME NEW d \in Clients \ {c} PROVE TaskOk(task[d])'
    BY <1>1, <1>2, <1>4, <1>6 DEF PicturesInv, OwnInv, TaskOk, KeptBy
<1>10. TaskOk(task[c])'
    BY <1>2, NoTaskOk
<1>11. Apart'
    BY <1>1, <1>2, NoTaskOk DEF Apart
<1>12. OwnInv'
    BY <1>7, <1>8, <1>9, <1>10, <1>11 DEF OwnInv
<1>13. \A f \in Loose' : f \notin Loose => f \in theirs /\ f \in disk'
    <2> TAKE f \in Loose'
    <2>1. f \notin Loose => f \in disk' /\ (f \in disk => f \in KeptBy(task[c]))
        BY <1>1, NoTaskOk, LooseAfter
    <2>2. QED BY <2>1, <1>3, <1>4
<1>14. CASE slips' = slips /\ disk' = disk \ theirs
    <2>1. Loose' \subseteq Loose
        BY <1>13, <1>14
    <2>2. QED BY <2>1, <1>12, <1>14, Smooth DEF PicturesInv
<1>15. CASE Slip
    <2>1. Loose' \subseteq Loose \cup {FileOf(n), ThumbOf(n)}
        BY <1>13, <1>3 DEF Theirs
    <2>2. QED BY <2>1, <1>12, <1>15, Slipped DEF PicturesInv
<1>16. QED BY <1>4, <1>14, <1>15

LEMMA DeleteStep == PicturesInv /\ (\E c \in Clients : DeleteImage(c)) => PicturesInv'
<1> SUFFICES ASSUME PicturesInv, NEW c \in Clients, DeleteImage(c) PROVE PicturesInv'
    OBVIOUS
<1> DEFINE i == task[c].id
<1>1. ImagesTypeOk /\ TaskOk(task[c]) /\ Apart /\ task[c].pc = "delete"
      /\ UNCHANGED <<nextPicture, uploads, disk, dispatched, slips>>
    BY DEF PicturesInv, OwnInv, DeleteImage
<1>2. dispatched' \subseteq Uploads /\ KeptBy(task[c]) = {} /\ i \in ImageIds
    BY <1>1 DEF ImagesTypeOk, KeptBy, InFlight, TaskOk
<1>3. CASE Drop(c) /\ picture' = picture
    <2>1. task' = [task EXCEPT ![c] = NoTask]
        BY <1>3 DEF Drop
    <2>2. QED BY <1>1, <1>2, <1>3, <2>1, NoTaskOk, StillStep
<1>4. CASE /\ picture[i].there /\ picture' = [picture EXCEPT ![i] = NoPicture]
           /\ Turn(c, "unlink")
    <2>1. PICK t \in Task : /\ task' = [task EXCEPT ![c] = t] /\ t.pc = "unlink"
                            /\ t.file = task[c].file /\ t.thumb = task[c].thumb
        BY <1>1, <1>4, TurnFacts
    <2>2. picture[i].file = t.file /\ picture[i].thumb = t.thumb /\ RowOk(i)
        BY <1>1, <1>2, <1>4, <2>1 DEF TaskOk, PicturesInv, OwnInv
    <2>3. HeldBy(picture[i]) = KeptBy(t)
        BY <1>4, <2>1, <2>2 DEF HeldBy, KeptBy, InFlight
    <2>4. task'[c] = t /\ \A d \in Clients \ {c} : task'[d] = task[d]
        BY <1>1, <2>1 DEF ImagesTypeOk
    <2>5. picture'[i] = NoPicture /\ \A j \in ImageIds \ {i} : picture'[j] = picture[j]
        BY <1>1, <1>2, <1>4 DEF ImagesTypeOk
    <2>6. ~NoPicture.there /\ NoPicture \in Picture
        BY DEF NoPicture, Picture
    <2>7. ImagesTypeOk'
        BY <1>1, <1>4, <2>1, <2>6 DEF ImagesTypeOk
    <2>8. ASSUME NEW j \in ImageIds PROVE RowOk(j)'
        BY <1>1, <2>5, <2>6 DEF PicturesInv, OwnInv, RowOk, HeldBy
    <2>9. TaskOk(task[c])'
        BY <1>1, <1>2, <1>4, <2>1, <2>2, <2>4, <2>5, <2>6 DEF TaskOk, RowOk, InFlight
    <2>10. ASSUME NEW d \in Clients \ {c} PROVE TaskOk(task[d])'
        <3>1. TaskOk(task[d]) /\ task'[d] = task[d]
            BY <2>4 DEF PicturesInv, OwnInv
        <3>2. QED BY <3>1, <1>1, <2>5, <2>6 DEF TaskOk
    <2>11. Apart'
        <3>1. \A d \in Clients \ {c} : task[d].pc \in InFlight => task[d].file # t.file
            BY <1>2, <1>4, <2>2 DEF PicturesInv, OwnInv, TaskOk
        <3>2. QED BY <3>1, <1>1, <2>4 DEF Apart
    <2>12. ASSUME NEW f \in Loose' PROVE f \in Loose
        <3>1. f \in disk /\ (\A j \in ImageIds : f \notin HeldBy(picture'[j]))
              /\ \A d \in Clients : f \notin KeptBy(task'[d])
            BY <1>1 DEF Loose, HeldNow, KeptNow
        <3>2. \A j \in ImageIds : f \notin HeldBy(picture[j])
            BY <3>1, <2>3, <2>4, <2>5
        <3>3. \A d \in Clients : f \notin KeptBy(task[d])
            BY <3>1, <1>2, <2>4
        <3>4. QED BY <3>1, <3>2, <3>3 DEF Loose, HeldNow, KeptNow
    <2>13. LooseInv'
        BY <2>12, <1>1, Smooth
    <2>14. QED BY <2>7, <2>8, <2>9, <2>10, <2>11, <2>13 DEF PicturesInv, OwnInv
<1>5. QED BY <1>3, <1>4 DEF DeleteImage

(* A row keeps its files, and the request is done.                          *)
LEMMA RelabelStep ==
    ASSUME PicturesInv, NEW c \in Clients, NEW i \in ImageIds, NEW q \in Picture,
           picture[i].there, picture' = [picture EXCEPT ![i] = q],
           q.there, q.file = picture[i].file, q.thumb = picture[i].thumb,
           q.alt \in {0, picture[i].file}, task[c].pc \notin InFlight,
           task' = [task EXCEPT ![c] = NoTask],
           UNCHANGED <<nextPicture, disk, uploads, dispatched, slips>>
    PROVE  PicturesInv'
<1>1. ImagesTypeOk /\ Apart
    BY DEF PicturesInv, OwnInv
<1>2. picture'[i] = q /\ \A j \in ImageIds \ {i} : picture'[j] = picture[j]
    BY <1>1 DEF ImagesTypeOk
<1>3. task'[c] = NoTask /\ \A d \in Clients \ {c} : task'[d] = task[d]
    BY <1>1 DEF ImagesTypeOk
<1>4. \A j \in ImageIds : HeldBy(picture'[j]) = HeldBy(picture[j])
    BY <1>2 DEF HeldBy
<1>5. ImagesTypeOk'
    BY <1>1, NoTaskOk DEF ImagesTypeOk
<1>6. ASSUME NEW j \in ImageIds PROVE RowOk(j)'
    BY <1>2 DEF PicturesInv, OwnInv, RowOk, HeldBy
<1>7. ASSUME NEW d \in Clients \ {c} PROVE TaskOk(task[d])'
    BY <1>2, <1>3 DEF PicturesInv, OwnInv, TaskOk
<1>8. TaskOk(task[c])'
    BY <1>3, NoTaskOk
<1>9. Apart'
    BY <1>1, <1>3, NoTaskOk DEF Apart
<1>10. ASSUME NEW f \in Loose' PROVE f \in Loose
    <2>1. f \in disk /\ (\A j \in ImageIds : f \notin HeldBy(picture'[j]))
          /\ \A d \in Clients : f \notin KeptBy(task'[d])
        BY DEF Loose, HeldNow, KeptNow
    <2>2. \A d \in Clients : f \notin KeptBy(task[d])
        BY <2>1, <1>3 DEF KeptBy
    <2>3. QED BY <2>1, <2>2, <1>4 DEF Loose, HeldNow, KeptNow
<1>11. LooseInv'
    BY <1>10, Smooth
<1>12. QED BY <1>5, <1>6, <1>7, <1>8, <1>9, <1>11 DEF PicturesInv, OwnInv

LEMMA LabelStep ==
    PicturesInv /\ (\E c \in Clients : UpdateImageFilename(c) \/ UpdateImageAltText(c))
        => PicturesInv'
<1> SUFFICES ASSUME PicturesInv, NEW c \in Clients, UpdateImageFilename(c) \/ UpdateImageAltText(c)
             PROVE  PicturesInv'
    OBVIOUS
<1> DEFINE i == task[c].id
<1>1. ImagesTypeOk /\ TaskOk(task[c]) /\ task[c].pc \in {"rename", "alt"}
      /\ task' = [task EXCEPT ![c] = NoTask]
      /\ UNCHANGED <<nextPicture, uploads, disk, dispatched, slips>>
    BY DEF PicturesInv, OwnInv, UpdateImageFilename, UpdateImageAltText, Drop
<1>2. dispatched' \subseteq Uploads /\ KeptBy(task[c]) = {} /\ i \in ImageIds
      /\ task[c].pc \notin InFlight
    BY <1>1 DEF ImagesTypeOk, KeptBy, InFlight, TaskOk
<1>3. CASE picture' = picture
    BY <1>1, <1>2, <1>3, NoTaskOk, StillStep
<1>4. picture[i] \in Picture
    BY <1>1, <1>2 DEF ImagesTypeOk
<1>5. RowOk(i) /\ (picture[i].there => picture[i].file = task[c].file)
    BY <1>1, <1>2 DEF PicturesInv, OwnInv, TaskOk
<1>6. CASE picture[i].there /\ picture' = [picture EXCEPT ![i] = [picture[i] EXCEPT !.label = 1]]
    <2>1. PICK q : q = [picture[i] EXCEPT !.label = 1]
        OBVIOUS
    <2>2. q \in Picture /\ q.there = picture[i].there /\ q.file = picture[i].file
          /\ q.thumb = picture[i].thumb /\ q.alt = picture[i].alt
        BY <1>4, <2>1 DEF Picture
    <2>3. picture[i].alt \in {0, picture[i].file}
        BY <1>5, <1>6 DEF RowOk
    <2>4. QED BY <1>1, <1>2, <1>6, <2>1, <2>2, <2>3, RelabelStep
<1>7. CASE picture[i].there /\ picture' = [picture EXCEPT ![i] = [picture[i] EXCEPT !.alt = task[c].file]]
    <2>1. PICK q : q = [picture[i] EXCEPT !.alt = task[c].file]
        OBVIOUS
    <2>2. task[c].file \in Uploads \cup {0}
        BY <1>1, TaskType
    <2>3. q \in Picture /\ q.there = picture[i].there /\ q.file = picture[i].file
          /\ q.thumb = picture[i].thumb /\ q.alt = task[c].file
        BY <1>4, <2>1, <2>2 DEF Picture
    <2>4. QED BY <1>1, <1>2, <1>5, <1>7, <2>1, <2>3, RelabelStep
<1>8. picture' = picture
      \/ (picture[i].there /\ picture' = [picture EXCEPT ![i] = [picture[i] EXCEPT !.label = 1]])
      \/ (picture[i].there /\ picture' = [picture EXCEPT ![i] = [picture[i] EXCEPT !.alt = task[c].file]])
    BY DEF UpdateImageFilename, UpdateImageAltText, UpdateWhere
<1>9. QED BY <1>3, <1>6, <1>7, <1>8

LEMMA PicturesStep == PicturesInv /\ [ImagesNext]_imagesVars => PicturesInv'
<1> SUFFICES ASSUME PicturesInv, [ImagesNext]_imagesVars PROVE PicturesInv'
    OBVIOUS
<1>1. CASE UNCHANGED imagesVars
    BY <1>1 DEF imagesVars, PicturesInv, OwnInv, LooseInv, ImagesTypeOk, RowOk, TaskOk, Apart,
       Loose, HeldNow, KeptNow, HeldBy, KeptBy
<1>2. CASE ImagesNext
    BY <1>2, UploadStep, WriteStep, ThumbnailStep, CreateStep, AnnounceStep, UnlinkStep,
       LoadStep, DeleteStep, LabelStep, ReadStep, DieStep DEF ImagesNext
<1>3. QED BY <1>1, <1>2

LEMMA PicturesInit == ImagesInit => PicturesInv
<1> SUFFICES ASSUME ImagesInit PROVE PicturesInv
    OBVIOUS
<1>1. ImagesTypeOk
    BY ImagesAssumption, TemplatesAssumption, NoTaskOk
       DEF ImagesInit, ImagesTypeOk, NoPicture, Picture
<1>2. (\A i \in ImageIds : RowOk(i)) /\ (\A c \in Clients : TaskOk(task[c])) /\ Apart
    BY NoTaskOk DEF ImagesInit, RowOk, Apart, NoPicture
<1>3. Loose = {} /\ slips = 0
    BY DEF ImagesInit, Loose
<1>4. LooseInv
    BY <1>3, FS_EmptySet DEF LooseInv
<1>5. QED BY <1>1, <1>2, <1>4 DEF PicturesInv, OwnInv

LEMMA PicturesAlways == ImagesSpec => []PicturesInv
BY PicturesInit, PicturesStep, PTL DEF ImagesSpec

(***************************************************************************)
(* Every variable of the images stays in its domain.                       *)
(***************************************************************************)
THEOREM ImagesTypeCorrect == ImagesSpec => []ImagesTypeOk
<1>1. PicturesInv => ImagesTypeOk
    BY DEF PicturesInv, OwnInv
<1>2. QED BY <1>1, PicturesAlways, PTL

(* What a request may have in hand is more than what it keeps.              *)
LEMMA PicturesFollow == PicturesInv => FilesMatchRows
<1> SUFFICES ASSUME PicturesInv PROVE FilesMatchRows
    OBVIOUS
<1>1. ImagesTypeOk /\ \A i \in ImageIds : RowOk(i)
    BY DEF PicturesInv, OwnInv
<1>2. Held = HeldNow
    <2>1. \A i \in ImageIds : picture[i].thumb => picture[i].there
        BY <1>1 DEF RowOk, NoPicture
    <2>2. QED BY <2>1 DEF Held, HeldNow, HeldBy, FilesOf
<1>3. HeldNow \subseteq disk
    BY <1>1 DEF HeldNow, RowOk, HeldBy
<1>4. KeptNow \subseteq InHand
    BY FilesTwo DEF KeptNow, KeptBy, InHand, InFlight
<1>5. disk \ (Held \cup InHand) \subseteq Loose
    BY <1>2, <1>4 DEF Loose
<1>6. IsFiniteSet(Loose) /\ Cardinality(Loose) <= 2 * slips /\ slips \in Nat
    BY <1>1 DEF PicturesInv, LooseInv, ImagesTypeOk
<1>7. Cardinality(disk \ (Held \cup InHand)) <= 2 * slips
    <2>1. PICK O : O = disk \ (Held \cup InHand)
        OBVIOUS
    <2>2. IsFiniteSet(O) /\ Cardinality(O) <= Cardinality(Loose)
          /\ Cardinality(O) \in Nat /\ Cardinality(Loose) \in Nat
        BY <1>5, <1>6, <2>1, FS_Subset, FS_CardinalityType
    <2>3. QED BY <1>6, <2>1, <2>2
<1>8. \A i \in ImageIds : picture[i].alt \in {0, picture[i].file}
    BY <1>1 DEF RowOk, NoPicture
<1>9. QED BY <1>2, <1>3, <1>7, <1>8 DEF FilesMatchRows

(***************************************************************************)
(* The gallery.  Counting the rows from the newest on numbers them from 1  *)
(* to their number, and the pages cut these numbers.                       *)
(***************************************************************************)
Shelf == {i \in ImageIds : picture[i].there}

LEMMA ShelfFinite == IsFiniteSet(ImageIds) /\ IsFiniteSet(Shelf) /\ CountImages \in Nat
<1>1. IsFiniteSet(ImageIds)
    BY ImagesAssumption, FS_Interval DEF ImageIds
<1>2. IsFiniteSet(Shelf)
    BY <1>1, FS_Subset DEF Shelf
<1>3. QED BY <1>1, <1>2, FS_CardinalityType DEF CountImages, Shelf

LEMMA RankFacts ==
    /\ \A i \in Shelf : Rank(i) \in 1 .. CountImages
    /\ \A i, j \in Shelf : Rank(i) = Rank(j) => i = j
<1> DEFINE Newer(i) == {j \in ImageIds : j >= i /\ picture[j].there}
<1>0. \A i \in Shelf : i \in Int
    BY ImagesAssumption DEF Shelf, ImageIds
<1>1. \A i \in Shelf : Newer(i) \subseteq Shelf /\ i \in Newer(i)
    BY <1>0 DEF Shelf
<1>2. \A i \in Shelf : /\ IsFiniteSet(Newer(i)) /\ Cardinality(Newer(i)) \in Nat
                       /\ Cardinality(Newer(i)) # 0
                       /\ Cardinality(Newer(i)) <= Cardinality(Shelf)
    BY <1>1, ShelfFinite, FS_Subset, FS_CardinalityType, FS_EmptySet
<1>3. ASSUME NEW i \in Shelf, NEW j \in Shelf, i < j
      PROVE  Cardinality(Newer(j)) < Cardinality(Newer(i))
    <2>1. Newer(j) \subseteq Newer(i) /\ i \notin Newer(j)
        BY <1>3, <1>0 DEF Shelf, ImageIds
    <2>2. Newer(j) # Newer(i)
        BY <2>1, <1>1
    <2>3. Cardinality(Newer(j)) <= Cardinality(Newer(i)) /\ Cardinality(Newer(j)) # Cardinality(Newer(i))
        BY <2>1, <2>2, <1>2, FS_Subset
    <2>4. QED BY <2>3, <1>2
<1>4. \A i \in Shelf : Rank(i) = Cardinality(Newer(i))
    BY DEF Rank
<1>5. CountImages = Cardinality(Shelf)
    BY DEF CountImages, Shelf
<1> HIDE DEF Newer
<1>6. \A i \in Shelf : Rank(i) \in 1 .. CountImages
    BY <1>2, <1>4, <1>5, ShelfFinite
<1>7. \A i, j \in Shelf : Rank(i) = Rank(j) => i = j
    BY <1>0, <1>2, <1>3, <1>4
<1>8. QED BY <1>6, <1>7

LEMMA RankReaches == \A k \in 1 .. CountImages : \E i \in Shelf : Rank(i) = k
<1> DEFINE N == CountImages
           f == [i \in Shelf |-> Rank(i)]
<1>1. N \in Nat /\ N = Cardinality(Shelf)
    BY ShelfFinite DEF CountImages, Shelf
<1>2. IsFiniteSet(1 .. N) /\ Cardinality(1 .. N) = N
    BY <1>1, FS_Interval
<1>3. f \in Injection(Shelf, 1 .. N)
    BY RankFacts DEF Injection, IsInjective
<1> HIDE DEF f, N
<1>4. f \in Surjection(Shelf, 1 .. N)
    BY <1>1, <1>2, <1>3, FS_Injection
<1>5. \A k \in 1 .. N : \E i \in Shelf : f[i] = k
    BY <1>4 DEF Surjection
<1>6. QED BY <1>5 DEF f, N

LEMMA Cut ==
    ASSUME NEW n \in Nat, NEW d \in Nat \ {0}
    PROVE  /\ n \div d \in Nat /\ (n \div d) * d <= n /\ n < (n \div d) * d + d
    OBVIOUS

(* The last page begins within the rows and ends beyond them.               *)
LEMMA PagesFit ==
    ASSUME NEW n \in Nat \ {0}
    PROVE  /\ TotalPages(n) \in Nat \ {0}
           /\ n <= TotalPages(n) * ImagesPerPage
           /\ (TotalPages(n) - 1) * ImagesPerPage < n
<1> DEFINE d == ImagesPerPage
           m == n + d - 1
           q == m \div d
<1>1. d \in Nat \ {0} /\ m \in Nat /\ m >= d
    BY ImagesAssumption
<1>2. TotalPages(n) = q
    BY DEF TotalPages
<1> HIDE DEF d, m, q
<1>3. q \in Nat /\ q * d <= m /\ m < q * d + d
    BY <1>1, Cut DEF q
<1>4. m = n + d - 1
    BY DEF m
<1>5. q # 0
    BY <1>1, <1>3
<1>6. q * d \in Nat /\ (q - 1) * d = q * d - d
    BY <1>1, <1>3
<1>7. n <= q * d /\ (q - 1) * d < n
    BY <1>1, <1>3, <1>4, <1>6
<1>8. QED BY <1>2, <1>3, <1>5, <1>7 DEF d

LEMMA GalleryAlways == GalleryReachesAll
<1> DEFINE N == CountImages
           T == TotalPages(N)
           P == ImagesPerPage
<1>1. P \in Nat \ {0} /\ N \in Nat
    BY ImagesAssumption, ShelfFinite
<1>2. T \in Nat \ {0}
    BY <1>1, PagesFit DEF TotalPages
<1>3. \A p \in 1 .. T : ImagesList(p) =
         {i \in Shelf : Rank(i) \in (p - 1) * P + 1 .. (p - 1) * P + P}
    BY <1>2 DEF ImagesList, ListImages, Shelf
<1>4. \A p \in 1 .. T : (p - 1) * P \in Nat
    BY <1>1, <1>2
<1>r. \A i \in Shelf : Rank(i) \in 1 .. N
    BY RankFacts
<1>k. \A k \in 1 .. N : \E i \in Shelf : Rank(i) = k
    BY RankReaches
<1>n. N # 0 => N <= T * P /\ (T - 1) * P < N
    BY <1>1, PagesFit
<1>e. \A i \in Shelf : N # 0
    BY <1>1, <1>r
<1> HIDE DEF N, T, P
<1>5. ASSUME NEW i \in Shelf PROVE \E p \in 1 .. T : i \in ImagesList(p)
    <2>1. PICK r \in 1 .. N : r = Rank(i)
        BY <1>r
    <2>0. r - 1 \in Nat
        BY <1>1, <2>1
    <2>2. PICK q \in Nat : q * P <= r - 1 /\ r - 1 < q * P + P
        BY <1>1, <2>0, Cut
    <2>3. r <= T * P /\ r - 1 \in Nat
        BY <1>1, <1>2, <1>n, <1>e, <2>1
    <2>4. ASSUME q >= T PROVE FALSE
        <3>1. q * P >= T * P
            BY <2>4, <1>1, <1>2, <2>2
        <3>2. q * P \in Nat /\ T * P \in Nat
            BY <1>1, <1>2
        <3>3. QED BY <3>1, <3>2, <2>1, <2>2, <2>3, <1>1
    <2>5. q + 1 \in 1 .. T
        BY <2>2, <2>4, <1>2
    <2>6. (q + 1 - 1) * P = q * P /\ q * P \in Nat
        BY <1>1
    <2>7. r \in q * P + 1 .. q * P + P
        BY <2>2, <2>3, <2>6, <1>1, <2>1
    <2>8. i \in ImagesList(q + 1)
        BY <1>3, <2>5, <2>6, <2>7, <2>1
    <2>9. QED BY <2>5, <2>8
<1>6. Shelf = UNION {ImagesList(p) : p \in 1 .. T}
    BY <1>3, <1>5
<1>7. ASSUME NEW p \in 1 .. T, NEW q \in 1 .. T, p < q
      PROVE  ImagesList(p) \cap ImagesList(q) = {}
    <2>1. (p - 1) * P + P <= (q - 1) * P
        <3>1. (p - 1) * P + P = p * P /\ p <= q - 1
            BY <1>1, <1>2, <1>7
        <3>2. p * P <= (q - 1) * P
            BY <3>1, <1>1, <1>2
        <3>3. QED BY <3>1, <3>2
    <2>2. \A k \in Nat : ~(k \in (p - 1) * P + 1 .. (p - 1) * P + P
                          /\ k \in (q - 1) * P + 1 .. (q - 1) * P + P)
        BY <2>1, <1>1, <1>4
    <2>3. \A i \in Shelf : Rank(i) \in Nat
        BY <1>r, <1>1
    <2>4. QED BY <1>3, <2>2, <2>3
<1>8. \A p, q \in 1 .. T : p # q => ImagesList(p) \cap ImagesList(q) = {}
    <2> TAKE p \in 1 .. T, q \in 1 .. T
    <2>1. p < q \/ q < p \/ p = q
        BY <1>2
    <2>2. QED BY <1>7, <2>1
<1>9. ASSUME N > 0, NEW p \in 1 .. T PROVE ImagesList(p) # {}
    <2>1. (p - 1) * P <= (T - 1) * P
        BY <1>1, <1>2
    <2>2. (p - 1) * P + 1 \in 1 .. N
        BY <2>1, <1>n, <1>9, <1>1, <1>2, <1>4
    <2>3. PICK i \in Shelf : Rank(i) = (p - 1) * P + 1
        BY <1>k, <2>2
    <2>4. Rank(i) \in (p - 1) * P + 1 .. (p - 1) * P + P
        BY <2>3, <1>1, <1>4
    <2>5. QED BY <1>3, <2>4
<1>10. QED BY <1>6, <1>8, <1>9 DEF GalleryReachesAll, Shelf, N, T

(***************************************************************************)
(* Rows name files that exist, every other file is in hand or was left by  *)
(* a slip, and the gallery shows each picture on one of its pages, for any *)
(* number of clients, uploads, slips and rows to a page.                   *)
(***************************************************************************)
THEOREM PicturesAreKept == ImagesSpec => []PicturesHold
<1>1. PicturesInv => PicturesHold
    BY PicturesFollow, GalleryAlways DEF PicturesHold
<1>2. QED BY <1>1, PicturesAlways, PTL

-----------------------------------------------------------------------------
(***************************************************************************)
(* Induction over numbers, by a least counterexample.                      *)
(***************************************************************************)
LEMMA LeastNumber ==
    ASSUME NEW S \in SUBSET Nat, S # {}
    PROVE  \E n \in S : \A m \in S : n <= m
<1> DEFINE T == {0 .. n : n \in S}
           R == StrictSubsetOrdering(Nat)
<1>1. \A n \in S : IsFiniteSet(0 .. n)
    BY FS_Interval
<1>2. T \subseteq FiniteSubsetsOf(Nat)
    BY <1>1 DEF FiniteSubsetsOf
<1>3. IsWellFoundedOn(R, FiniteSubsetsOf(Nat))
    BY FS_StrictSubsetOrderingWellFounded
<1>4. T # {}
    OBVIOUS
<1> HIDE DEF T, R
<1>5. PICK x \in T : \A y \in T : <<y, x>> \notin R
    BY <1>2, <1>3, <1>4, WFMin
<1>6. PICK n \in S : x = 0 .. n
    BY DEF T
<1>7. ASSUME NEW m \in S, m < n PROVE FALSE
    <2>1. 0 .. m \in T
        BY DEF T
    <2>2. 0 .. m \subseteq 0 .. n /\ n \in 0 .. n /\ n \notin 0 .. m
        BY <1>7
    <2>3. <<0 .. m, x>> \in R
        BY <1>6, <2>2 DEF R, StrictSubsetOrdering
    <2>4. QED BY <1>5, <2>1, <2>3
<1>8. QED BY <1>7

(* A set of numbers that has 0 and the successor of each of its numbers     *)
(* below N has every number up to N.                                       *)
LEMMA UpTo ==
    ASSUME NEW N \in Nat, NEW P, 0 \in P, \A n \in 0 .. N : n \in P /\ n < N => n + 1 \in P
    PROVE  \A n \in 0 .. N : n \in P
<1> DEFINE S == {n \in 0 .. N : n \notin P}
<1>1. ASSUME S # {} PROVE FALSE
    <2>0. S \in SUBSET Nat
        OBVIOUS
    <2>1. PICK n \in S : \A m \in S : n <= m
        BY <1>1, <2>0, LeastNumber
    <2>2. n # 0 /\ n - 1 \in 0 .. N /\ n - 1 < N /\ n - 1 + 1 = n
        BY <2>1
    <2>3. n - 1 \notin S
        BY <2>1, <2>2
    <2>4. QED BY <2>1, <2>2, <2>3
<1>2. QED BY <1>1

(* What is built in steps, each from the one before.                        *)
Iterates(f, X, a, T, N) ==
    /\ f \in [0 .. N -> X] /\ f[0] = a
    /\ \A n \in 1 .. N : f[n] = T[f[n - 1]]

LEMMA Iterated ==
    ASSUME NEW X, NEW a \in X, NEW T \in [X -> X], NEW N \in Nat
    PROVE  \E f : Iterates(f, X, a, T, N)
<1> DEFINE Upto(f, n) == Iterates(f, X, a, T, n)
           P == {n \in 0 .. N : \E f : Upto(f, n)}
<1>1. 0 \in P
    <2>1. Upto([k \in 0 .. 0 |-> a], 0)
        BY DEF Iterates
    <2>2. 0 \in 0 .. N
        OBVIOUS
    <2> HIDE DEF Upto
    <2>3. QED BY <2>1, <2>2
<1>2. ASSUME NEW n \in 0 .. N, n \in P, n < N PROVE n + 1 \in P
    <2>1. PICK f : Upto(f, n)
        BY <1>2
    <2> DEFINE g == [k \in 0 .. n + 1 |-> IF k = n + 1 THEN T[f[n]] ELSE f[k]]
    <2>2. g \in [0 .. n + 1 -> X] /\ g[0] = a
        BY <2>1 DEF Iterates
    <2>3. \A k \in 1 .. n + 1 : g[k] = T[g[k - 1]]
        BY <2>1 DEF Iterates
    <2>4. Upto(g, n + 1)
        BY <2>2, <2>3 DEF Iterates
    <2>5. n + 1 \in 0 .. N
        BY <1>2
    <2> HIDE DEF Upto, g
    <2>6. QED BY <2>4, <2>5
<1> HIDE DEF P, Upto
<1>3. N \in P
    BY <1>1, <1>2, UpTo
<1>4. QED BY <1>3 DEF P, Upto

LEMMA StepsStay ==
    ASSUME NEW X, NEW N \in Nat, NEW g, g[0] \in X,
           \A n \in 1 .. N : g[n - 1] \in X => g[n] \in X
    PROVE  \A n \in 0 .. N : g[n] \in X
<1> DEFINE P == {n \in 0 .. N : g[n] \in X}
<1>1. 0 \in P
    OBVIOUS
<1>2. ASSUME NEW n \in 0 .. N, n \in P, n < N PROVE n + 1 \in P
    <2>1. n + 1 \in 1 .. N /\ n + 1 - 1 = n
        BY <1>2
    <2>2. g[n + 1] \in X
        BY <1>2, <2>1
    <2>3. QED BY <2>1, <2>2
<1> HIDE DEF P
<1>3. \A n \in 0 .. N : n \in P
    BY <1>1, <1>2, UpTo
<1>4. QED BY <1>3 DEF P

Brood(d) == d \cup {j \in Rows : cat[j].parent \in d}

(* filterParents: the set grows from the row itself.                        *)
LEMMA DescendantsGrow ==
    ASSUME NEW i \in CatIds
    PROVE  \E f \in [0 .. MaxCategories -> SUBSET CatIds] :
              /\ f[0] = {i} /\ \A n \in 1 .. MaxCategories : f[n] = Brood(f[n - 1])
              /\ Descendants(i) = f[MaxCategories]
<1>0. MaxCategories \in Nat
    BY CategoriesAssumption
<1>1. PICK X, a, T : X = SUBSET CatIds /\ a = {i} /\ T = [d \in SUBSET CatIds |-> Brood(d)]
    OBVIOUS
<1>2. a \in X /\ T \in [X -> X] /\ \A d \in X : T[d] = Brood(d)
    BY <1>1 DEF Brood, Rows
<1>4. PICK f : Iterates(f, X, a, T, MaxCategories)
    BY <1>0, <1>2, Iterated
<1>3. f \in [0 .. MaxCategories -> X] /\ f[0] = a /\ \A n \in 1 .. MaxCategories : f[n] = T[f[n - 1]]
    BY <1>4 DEF Iterates
<1>a. \A n \in 1 .. MaxCategories : f[n] = Brood(f[n - 1])
    <2> TAKE n \in 1 .. MaxCategories
    <2>1. n - 1 \in 0 .. MaxCategories
        BY <1>0
    <2>2. f[n - 1] \in X
        BY <1>3, <2>1
    <2>3. QED BY <1>2, <1>3, <2>2
<1>b. \A n \in 0 .. MaxCategories :
         f[n] = IF n = 0 THEN {i} ELSE f[n - 1] \cup {j \in Rows : cat[j].parent \in f[n - 1]}
    BY <1>0, <1>1, <1>3, <1>a DEF Brood
<1> DEFINE desc[n \in 0 .. MaxCategories] ==
            IF n = 0 THEN {i}
            ELSE LET d == desc[n - 1] IN d \cup {j \in Rows : cat[j].parent \in d}
           body(g) == [n \in 0 .. MaxCategories |-> IF n = 0 THEN {i}
              ELSE LET d == g[n - 1] IN d \cup {j \in Rows : cat[j].parent \in d}]
<1>c. f = body(f)
    BY <1>3, <1>b
<1>d. desc = CHOOSE g : g = body(g)
    OBVIOUS
<1>5. desc = body(desc)
    BY <1>c, <1>d
<1>6. Descendants(i) = desc[MaxCategories]
    BY DEF Descendants
<1> HIDE DEF desc
<1>7. desc[0] = {i} /\ \A n \in 1 .. MaxCategories : desc[n] = Brood(desc[n - 1])
    BY <1>0, <1>5 DEF Brood
<1>8. \A n \in 0 .. MaxCategories : desc[n] \in SUBSET CatIds
    <2>1. \A n \in 1 .. MaxCategories : desc[n - 1] \in SUBSET CatIds => desc[n] \in SUBSET CatIds
        BY <1>7 DEF Brood, Rows
    <2>2. desc[0] \in SUBSET CatIds
        BY <1>7
    <2>3. QED BY <1>0, <2>1, <2>2, StepsStay
<1>9. desc \in [0 .. MaxCategories -> SUBSET CatIds]
    BY <1>5, <1>8
<1>10. QED BY <1>6, <1>7, <1>9

(* After as many rounds as there are ids nothing is left to add: a round    *)
(* that adds something adds at least one id.                               *)
LEMMA DescendantsClosed ==
    ASSUME NEW i \in CatIds
    PROVE  /\ i \in Descendants(i) /\ Descendants(i) \subseteq CatIds
           /\ \A j \in Rows : cat[j].parent \in Descendants(i) => j \in Descendants(i)
<1>m. PICK M \in Nat : M = MaxCategories
    BY CategoriesAssumption
<1>0. IsFiniteSet(CatIds) /\ Cardinality(CatIds) = M
    <2>1. IsFiniteSet(1 .. M) /\ Cardinality(1 .. M) = IF 1 > M THEN 0 ELSE M - 1 + 1
        BY FS_Interval
    <2>2. QED BY <1>m, <2>1 DEF CatIds
<1>1. PICK f \in [0 .. M -> SUBSET CatIds] :
         /\ f[0] = {i} /\ \A n \in 1 .. M : f[n] = Brood(f[n - 1])
         /\ Descendants(i) = f[M]
    BY <1>m, DescendantsGrow
<1> DEFINE Closed(d) == \A j \in Rows : cat[j].parent \in d => j \in d
           P == {n \in 0 .. M : i \in f[n] /\ (Closed(f[n]) \/ Cardinality(f[n]) >= n + 1)}
<1>2. 0 \in P
    <2>1. Cardinality(f[0]) = 1 /\ i \in f[0]
        BY <1>1, FS_Singleton
    <2>2. 0 \in 0 .. M /\ 1 >= 0 + 1
        BY <1>m
    <2>3. Cardinality(f[0]) >= 0 + 1
        BY <2>1, <2>2
    <2> HIDE DEF Closed
    <2>4. QED BY <2>1, <2>2, <2>3
<1>3. ASSUME NEW n \in 0 .. M, n \in P, n < M PROVE n + 1 \in P
    <2>1. n + 1 \in 1 .. M /\ n + 1 - 1 = n /\ n + 1 \in 0 .. M
        BY <1>0, <1>3
    <2>2. f[n + 1] = Brood(f[n]) /\ f[n] \subseteq CatIds /\ f[n + 1] \subseteq CatIds
        BY <1>1, <2>1
    <2>3. i \in f[n + 1] /\ f[n] \subseteq f[n + 1]
        BY <1>3, <2>2 DEF Brood
    <2>4. CASE Closed(f[n])
        BY <2>1, <2>2, <2>3, <2>4 DEF Brood
    <2>5. CASE ~Closed(f[n])
        <3>1. IsFiniteSet(f[n]) /\ IsFiniteSet(f[n + 1])
            BY <1>0, <2>2, FS_Subset
        <3>2. f[n] # f[n + 1]
            BY <2>2, <2>5 DEF Brood
        <3>3. Cardinality(f[n]) < Cardinality(f[n + 1])
            <4>1. Cardinality(f[n]) \in Nat /\ Cardinality(f[n + 1]) \in Nat
                BY <3>1, FS_CardinalityType
            <4>2. Cardinality(f[n]) <= Cardinality(f[n + 1]) /\ Cardinality(f[n]) # Cardinality(f[n + 1])
                BY <2>3, <3>1, <3>2, FS_Subset
            <4>3. QED BY <4>1, <4>2
        <3>4. Cardinality(f[n]) >= n + 1 /\ Cardinality(f[n]) \in Nat /\ Cardinality(f[n + 1]) \in Nat
            BY <1>3, <2>5, <3>1, FS_CardinalityType
        <3>5. Cardinality(f[n + 1]) >= n + 1 + 1
            BY <3>3, <3>4
        <3>6. QED BY <2>1, <2>3, <3>5
    <2>6. QED BY <2>4, <2>5
<1> HIDE DEF P, Closed
<1>4. M \in P
    <2>1. \A n \in 0 .. M : n \in P /\ n < M => n + 1 \in P
        BY <1>3
    <2>2. \A n \in 0 .. M : n \in P
        BY <1>m, <1>2, <2>1, UpTo
    <2>3. QED BY <1>m, <2>2
<1>5. i \in f[M] /\ (Closed(f[M]) \/ Cardinality(f[M]) >= M + 1)
    BY <1>4 DEF P
<1>6. Cardinality(f[M]) <= M /\ Cardinality(f[M]) \in Nat /\ f[M] \subseteq CatIds
    <2>1. f[M] \in SUBSET CatIds
        BY <1>0, <1>1
    <2>2. QED BY <1>0, <2>1, FS_Subset, FS_CardinalityType
<1>7. Closed(f[M])
    BY <1>0, <1>5, <1>6
<1>8. QED BY <1>1, <1>5, <1>6, <1>7 DEF Closed

(* Who is above a row of a cycle, and why a forest has none.                *)
Elders(i, a) == a \cup {cat[j].parent : j \in a \cap Rows}
Parents == {Top, -1} \cup CatIds

LEMMA AboveGrows ==
    ASSUME NEW i \in Rows, cat \in [CatIds -> CatRow \cup {NoRow}]
    PROVE  \E f \in [0 .. MaxCategories -> SUBSET Parents] :
              /\ f[0] = {cat[i].parent} /\ \A n \in 1 .. MaxCategories : f[n] = Elders(i, f[n - 1])
              /\ Cyclic(i) <=> i \in f[MaxCategories]
<1>0. MaxCategories \in Nat
    BY CategoriesAssumption
<1>p. \A j \in Rows : cat[j].parent \in Parents
    BY DEF Rows, CatRow, NoRow, Parents
<1>1. PICK X, a, T : X = SUBSET Parents /\ a = {cat[i].parent} /\ T = [d \in SUBSET Parents |-> Elders(i, d)]
    OBVIOUS
<1>2. a \in X /\ T \in [X -> X] /\ \A d \in X : T[d] = Elders(i, d)
    BY <1>1, <1>p DEF Elders
<1>4. PICK f : Iterates(f, X, a, T, MaxCategories)
    BY <1>0, <1>2, Iterated
<1>3. f \in [0 .. MaxCategories -> X] /\ f[0] = a /\ \A n \in 1 .. MaxCategories : f[n] = T[f[n - 1]]
    BY <1>4 DEF Iterates
<1>a. \A n \in 1 .. MaxCategories : f[n] = Elders(i, f[n - 1])
    <2> TAKE n \in 1 .. MaxCategories
    <2>1. n - 1 \in 0 .. MaxCategories
        BY <1>0
    <2>2. f[n - 1] \in X
        BY <1>3, <2>1
    <2>3. QED BY <1>2, <1>3, <2>2
<1>b. \A n \in 0 .. MaxCategories :
         f[n] = IF n = 0 THEN {cat[i].parent} ELSE f[n - 1] \cup {cat[j].parent : j \in f[n - 1] \cap Rows}
    BY <1>0, <1>1, <1>3, <1>a DEF Elders
<1> DEFINE above[n \in 0 .. MaxCategories] ==
                     IF n = 0 THEN {cat[i].parent}
                     ELSE LET a1 == above[n - 1]
                          IN  a1 \cup {cat[j].parent : j \in a1 \cap Rows}
           body(g) == [n \in 0 .. MaxCategories |-> IF n = 0 THEN {cat[i].parent}
                     ELSE LET a1 == g[n - 1]
                          IN  a1 \cup {cat[j].parent : j \in a1 \cap Rows}]
<1>c. f = body(f)
    BY <1>3, <1>b
<1>d. above = CHOOSE g : g = body(g)
    OBVIOUS
<1>5. above = body(above)
    BY <1>c, <1>d
<1>6. Cyclic(i) <=> i \in above[MaxCategories]
    BY DEF Cyclic
<1> HIDE DEF above
<1>7. above[0] = {cat[i].parent} /\ \A n \in 1 .. MaxCategories : above[n] = Elders(i, above[n - 1])
    BY <1>0, <1>5 DEF Elders
<1>8. \A n \in 0 .. MaxCategories : above[n] \in SUBSET Parents
    <2>1. \A n \in 1 .. MaxCategories : above[n - 1] \in SUBSET Parents => above[n] \in SUBSET Parents
        BY <1>7, <1>p DEF Elders
    <2>2. above[0] \in SUBSET Parents
        BY <1>7, <1>p
    <2>3. QED BY <1>0, <2>1, <2>2, StepsStay
<1>9. above \in [0 .. MaxCategories -> SUBSET Parents]
    BY <1>5, <1>8
<1>10. QED BY <1>6, <1>7, <1>9

(* A forest: of any rows one has its parent among the others, or none.      *)
Forest == \A S \in SUBSET Rows : S # {} => \E i \in S : cat[i].parent \notin S

LEMMA ForestHasNoCycle ==
    ASSUME Forest, cat \in [CatIds -> CatRow \cup {NoRow}]
    PROVE  NoParentCycle
<1> SUFFICES ASSUME NEW i \in Rows, Cyclic(i) PROVE FALSE
    BY DEF NoParentCycle
<1>m. PICK M \in Nat : M = MaxCategories
    BY CategoriesAssumption
<1>1. PICK f \in [0 .. M -> SUBSET Parents] :
         /\ f[0] = {cat[i].parent} /\ \A n \in 1 .. M : f[n] = Elders(i, f[n - 1])
         /\ i \in f[M]
    BY <1>m, AboveGrows
<1> DEFINE Leads(C, x) == C \in SUBSET Rows /\ i \in C /\ \A j \in C : cat[j].parent \in C \cup {x}
           P == {n \in 0 .. M : \A x \in f[n] : \E C : Leads(C, x)}
<1>2. 0 \in P
    <2>1. Leads({i}, cat[i].parent)
        OBVIOUS
    <2>2. 0 \in 0 .. M
        OBVIOUS
    <2> HIDE DEF Leads
    <2>3. QED BY <1>1, <2>1, <2>2
<1>3. ASSUME NEW n \in 0 .. M, n \in P, n < M PROVE n + 1 \in P
    <2>1. n + 1 \in 1 .. M /\ n + 1 - 1 = n /\ n + 1 \in 0 .. M
        BY <1>3
    <2>2. f[n + 1] = Elders(i, f[n])
        BY <1>1, <2>1
    <2>3. \A x \in f[n] : \E C : Leads(C, x)
        BY <1>3
    <2>4. ASSUME NEW x \in f[n + 1] PROVE \E C : Leads(C, x)
        <3>1. CASE x \in f[n]
            BY <2>3, <3>1
        <3>2. CASE x \notin f[n]
            <4>1. PICK j \in f[n] \cap Rows : x = cat[j].parent
                BY <2>2, <2>4, <3>2 DEF Elders
            <4>2. PICK C : Leads(C, j)
                BY <2>3, <4>1
            <4>3. Leads(C \cup {j}, x)
                BY <4>1, <4>2
            <4> HIDE DEF Leads
            <4>4. QED BY <4>3
        <3>3. QED BY <3>1, <3>2
    <2> HIDE DEF Leads
    <2>5. QED BY <2>1, <2>4
<1> HIDE DEF P, Leads
<1>4. M \in P
    <2>1. \A n \in 0 .. M : n \in P /\ n < M => n + 1 \in P
        BY <1>3
    <2>2. \A n \in 0 .. M : n \in P
        BY <1>m, <1>2, <2>1, UpTo
    <2>3. QED BY <1>m, <2>2
<1>5. PICK C : Leads(C, i)
    BY <1>1, <1>4 DEF P
<1>6. QED BY <1>5 DEF Leads, Forest

(***************************************************************************)
(* The steps.  What a fresh edit form offers, or has in its row, is outside *)
(* of a set of rows that has the row itself and every child of a member;   *)
(* rows made since join it when their parent is in it.                     *)
(***************************************************************************)
TreeKinds == {"shown", "check", "write"}
Forms == {NoForm} \cup CategoryForm \cup PostForm
Shut(D) == \A j \in Rows : cat[j].parent \in D => j \in D
Keeps(f, D) ==
    D \in SUBSET CatIds /\ f.id \in D /\ Shut(D) /\ f.offers \cap D = {} /\ f.row.parent \notin D

BrowserOk(f) ==
    /\ f.kind \in TreeKinds =>
          /\ f \in CategoryForm
          /\ f.id < nextCat /\ (\A o \in f.offers : o < nextCat) /\ f.row.parent < nextCat
          /\ f.id # 0 /\ f.fresh => \E D : Keeps(f, D)
    /\ f.kind = "post" => f \in PostForm /\ (f.fresh => f.offers \subseteq Rows)
    /\ f.kind \in TreeKinds \cup {"post", "none"}

RowsOk ==
    /\ \A i \in Rows : i < nextCat /\ cat[i].parent < nextCat
    /\ \A i, j \in Rows : i # j => (cat[i].slug = "" \/ cat[i].slug # cat[j].slug)

PostsOk == \A p \in Posts : category[p] \in Rows \cup {Uncategorized} \/ p \in undead

TreeInv ==
    /\ CategoriesTypeOk /\ RowsOk /\ PostsOk
    /\ carved \/ Forest
    /\ \A c \in Clients : BrowserOk(form[c])

LEMMA FormKinds ==
    /\ \A f \in CategoryForm : f.kind \in TreeKinds /\ f.id \in {0} \cup CatIds
          /\ f.offers \in SUBSET CatIds /\ f.row \in CatRow /\ f.fresh \in BOOLEAN
    /\ \A f \in PostForm : f.kind = "post" /\ f.entry \in Posts
          /\ f.offers \in SUBSET CatIds /\ f.fresh \in BOOLEAN
    /\ NoForm.kind = "none"
    BY DEF CategoryForm, PostForm, NoForm, TreeKinds

LEMMA IdFacts ==
    /\ MaxCategories \in Nat /\ CatIds = 1 .. MaxCategories /\ Top = 0 /\ Uncategorized = -1
    /\ Top \notin CatIds /\ \A i \in CatIds : i \in Nat /\ i # 0
    /\ CategoriesTypeOk => nextCat \in Nat /\ nextCat >= 1 /\ nextCat <= MaxCategories + 1
    /\ \A r \in CatRow : r.parent \in {Top} \cup CatIds /\ r.slug \in Slugs \cup {""}
    /\ NoRow \notin CatRow /\ NoRow.parent = -1 /\ NewRow \in CatRow /\ NewRow.parent = 0
<1>1. MaxCategories \in Nat /\ CatIds = 1 .. MaxCategories /\ Top = 0 /\ Uncategorized = -1
    BY CategoriesAssumption DEF CatIds, Top, Uncategorized
<1>2. Top \notin CatIds /\ \A i \in CatIds : i \in Nat /\ i # 0
    BY <1>1
<1>3. CategoriesTypeOk => nextCat \in Nat /\ nextCat >= 1 /\ nextCat <= MaxCategories + 1
    BY <1>1 DEF CategoriesTypeOk
<1>4. \A r \in CatRow : r.parent \in {Top} \cup CatIds /\ r.slug \in Slugs \cup {""}
    BY DEF CatRow
<1>5. NoRow.parent = -1 /\ NewRow \in CatRow /\ NewRow.parent = 0
    BY <1>1 DEF NoRow, NewRow, CatRow
<1>6. -1 \notin {Top} \cup CatIds
    BY <1>1
<1>7. NoRow \notin CatRow
    BY <1>4, <1>5, <1>6
<1>8. QED BY <1>1, <1>2, <1>3, <1>4, <1>5, <1>7

LEMMA Numbers ==
    ASSUME CategoriesTypeOk
    PROVE  /\ MaxCategories \in Nat /\ CatIds = 1 .. MaxCategories /\ Top = 0
           /\ nextCat \in Nat /\ 0 < nextCat /\ Top < nextCat /\ nextCat <= MaxCategories + 1
           /\ \A i \in {0, Top} \cup CatIds : i \in Int
<1>1. MaxCategories \in Nat
    BY CategoriesAssumption
<1>2. CatIds = 1 .. MaxCategories /\ Top = 0
    BY DEF CatIds, Top
<1>3. nextCat \in 1 .. MaxCategories + 1
    BY DEF CategoriesTypeOk
<1>4. nextCat \in Nat /\ 0 < nextCat /\ nextCat <= MaxCategories + 1
    BY <1>1, <1>3
<1>5. \A i \in {0, Top} \cup CatIds : i \in Int
    BY <1>1, <1>2
<1>6. QED BY <1>1, <1>2, <1>4, <1>5

LEMMA RowType ==
    ASSUME CategoriesTypeOk
    PROVE  /\ Rows \subseteq CatIds
           /\ \A i \in Rows : cat[i] \in CatRow /\ cat[i].parent \in {Top} \cup CatIds
    BY DEF CategoriesTypeOk, Rows, CatRow

LEMMA NothingShown == BrowserOk(NoForm) /\ BrowserOk(NoForm)' /\ NoForm \in Forms
    BY DEF BrowserOk, NoForm, TreeKinds, Forms

(* One form changes, and maybe the category of an entry.                    *)
LEMMA FormStep ==
    ASSUME TreeInv, NEW c \in Clients, NEW g \in Forms, BrowserOk(g),
           form' = [form EXCEPT ![c] = g], UNCHANGED <<cat, nextCat, carved>>,
           category' \in [Posts -> {Uncategorized} \cup CatIds], undead' \subseteq Posts, PostsOk'
    PROVE  TreeInv'
<1>1. CategoriesTypeOk'
    BY DEF TreeInv, CategoriesTypeOk, Forms
<1>2. form'[c] = g /\ \A d \in Clients \ {c} : form'[d] = form[d]
    BY DEF TreeInv, CategoriesTypeOk
<1>3. Rows' = Rows
    BY DEF Rows
<1>4. \A f : BrowserOk(f) => BrowserOk(f)'
    BY <1>3 DEF BrowserOk, Keeps, Shut
<1>5. \A d \in Clients : BrowserOk(form[d])'
    <2> TAKE d \in Clients
    <2>1. BrowserOk(form[d]) /\ (d # c => form'[d] = form[d])
        BY <1>2 DEF TreeInv
    <2>2. PICK f : f = form'[d] /\ BrowserOk(f)
        BY <1>2, <2>1
    <2>3. QED BY <1>4, <2>2 DEF BrowserOk, Keeps, Shut
<1>6. RowsOk' /\ (carved \/ Forest)'
    BY <1>3 DEF TreeInv, RowsOk, Forest
<1>7. QED BY <1>1, <1>5, <1>6 DEF TreeInv

(* filterParents: what is offered is not below the row.                     *)
LEMMA ShownOk ==
    ASSUME TreeInv, NEW i \in {0} \cup CatIds, i < nextCat
    PROVE  BrowserOk(Shown(i)) /\ Shown(i) \in Forms
<1>0. CategoriesTypeOk /\ RowsOk
    BY DEF TreeInv
<1>1. PICK f : f = Shown(i)
    OBVIOUS
<1>2. f.kind = "shown" /\ f.id = i /\ f.offers = Candidates(i) /\ f.row = NewRow /\ f.fresh = TRUE
    BY <1>1 DEF Shown
<1>3. Candidates(i) \subseteq Rows /\ Rows \subseteq CatIds
    BY <1>0, RowType DEF Candidates
<1>4. f \in CategoryForm
    BY <1>1, <1>3, IdFacts DEF Shown, CategoryForm
<1>5. (\A o \in f.offers : o < nextCat) /\ f.row.parent < nextCat
    <2>1. \A o \in f.offers : o < nextCat
        BY <1>0, <1>2, <1>3 DEF RowsOk
    <2>2. f.row.parent = 0 /\ nextCat \in Nat /\ nextCat >= 1
        BY <1>0, <1>2, IdFacts
    <2>3. QED BY <2>1, <2>2
<1>6. ASSUME i # 0 PROVE Keeps(f, Descendants(i))
    <2>1. /\ i \in Descendants(i) /\ Descendants(i) \subseteq CatIds
          /\ \A j \in Rows : cat[j].parent \in Descendants(i) => j \in Descendants(i)
        BY <1>6, DescendantsClosed
    <2>2. f.offers \cap Descendants(i) = {}
        BY <1>2, <1>6 DEF Candidates
    <2>3. f.row.parent \notin Descendants(i)
        <3>1. f.row.parent = Top /\ Top \notin CatIds
            BY <1>2, IdFacts
        <3>2. QED BY <2>1, <3>1
    <2>4. QED BY <1>2, <2>1, <2>2, <2>3 DEF Keeps, Shut
<1>7. i # 0 => \E D : Keeps(f, D)
    BY <1>6
<1>8. BrowserOk(f)
    BY <1>2, <1>4, <1>5, <1>7 DEF BrowserOk, TreeKinds
<1>9. QED BY <1>1, <1>4, <1>8 DEF Forms

LEMMA OpenStep ==
    TreeInv /\ (\E c \in Clients : (\E i \in {0} \cup Rows : ShowForm(c, i)) \/ (\E p \in Posts : ShowPost(c, p)) \/ Leave(c))
        => TreeInv'
<1> SUFFICES ASSUME TreeInv, NEW c \in Clients,
                    (\E i \in {0} \cup Rows : ShowForm(c, i)) \/ (\E p \in Posts : ShowPost(c, p)) \/ Leave(c)
             PROVE  TreeInv'
    OBVIOUS
<1>0. CategoriesTypeOk /\ RowsOk /\ Rows \subseteq CatIds
    BY RowType DEF TreeInv
<1>1. UNCHANGED <<cat, nextCat, carved, category, undead>>
    BY DEF ShowForm, ShowPost, Leave
<1>2. PostsOk' /\ category' \in [Posts -> {Uncategorized} \cup CatIds] /\ undead' \subseteq Posts
    BY <1>0, <1>1 DEF TreeInv, PostsOk, Rows, CategoriesTypeOk
<1>3. ASSUME NEW i \in {0} \cup Rows, ShowForm(c, i) PROVE TreeInv'
    <2>1. i \in {0} \cup CatIds /\ i < nextCat
        <3>1. 0 < nextCat
            BY <1>0, Numbers
        <3>2. i \in Rows => i < nextCat /\ i \in CatIds
            BY <1>0 DEF RowsOk
        <3>3. QED BY <3>1, <3>2
    <2>2. form' = [form EXCEPT ![c] = Shown(i)]
        BY <1>3 DEF ShowForm
    <2>3. QED BY <1>1, <1>2, <2>1, <2>2, ShownOk, FormStep
<1>4. ASSUME NEW p \in Posts, ShowPost(c, p) PROVE TreeInv'
    <2>1. PICK f : f = [kind |-> "post", entry |-> p, offers |-> Rows, fresh |-> TRUE]
        OBVIOUS
    <2>2. f \in PostForm /\ f.kind = "post" /\ f.offers = Rows
        BY <1>0, <2>1 DEF PostForm
    <2>3. BrowserOk(f) /\ f \in Forms
        BY <2>2 DEF BrowserOk, TreeKinds, Forms
    <2>4. form' = [form EXCEPT ![c] = f]
        BY <1>4, <2>1 DEF ShowPost
    <2>5. QED BY <1>1, <1>2, <2>3, <2>4, FormStep
<1>5. CASE Leave(c)
    <2>1. form' = [form EXCEPT ![c] = NoForm]
        BY <1>5 DEF Leave
    <2>2. QED BY <1>1, <1>2, <2>1, NothingShown, FormStep
<1>6. QED BY <1>3, <1>4, <1>5

LEMMA SendStep ==
    TreeInv /\ (\E c \in Clients, parent \in {Top} \cup CatIds, slug \in Slugs \cup {""}, hidden \in BOOLEAN :
                   Send(c, parent, slug, hidden))
        => TreeInv'
<1> SUFFICES ASSUME TreeInv, NEW c \in Clients, NEW parent \in {Top} \cup CatIds,
                    NEW slug \in Slugs \cup {""}, NEW hidden \in BOOLEAN, Send(c, parent, slug, hidden)
             PROVE  TreeInv'
    OBVIOUS
<1>0. CategoriesTypeOk /\ RowsOk /\ Rows \subseteq CatIds
    BY RowType DEF TreeInv
<1>1. UNCHANGED <<cat, nextCat, carved, category, undead>>
    BY DEF Send
<1>2. PostsOk' /\ category' \in [Posts -> {Uncategorized} \cup CatIds] /\ undead' \subseteq Posts
    BY <1>0, <1>1 DEF TreeInv, PostsOk, Rows, CategoriesTypeOk
<1>3. PICK f : f = form[c]
    OBVIOUS
<1>4. f.kind = "shown" /\ parent \in f.offers \cup {Top} /\ BrowserOk(f) /\ f \in CategoryForm
    BY <1>3 DEF Send, TreeInv, BrowserOk, TreeKinds
<1>5. PICK g : g = [f EXCEPT !.kind = "check", !.offers = {}, !.row = [parent |-> parent, slug |-> slug, hidden |-> hidden]]
    OBVIOUS
<1>6. PICK r : r = [parent |-> parent, slug |-> slug, hidden |-> hidden]
    OBVIOUS
<1>7. r \in CatRow /\ r.parent = parent
    BY <1>6 DEF CatRow
<1>8. g \in CategoryForm /\ g.kind = "check" /\ g.offers = {} /\ g.row = r /\ g.id = f.id /\ g.fresh = f.fresh
    BY <1>4, <1>5, <1>6, <1>7 DEF CategoryForm
<1>9. parent < nextCat
    <2>1. Top < nextCat
        BY <1>0, Numbers
    <2>2. \A o \in f.offers : o < nextCat
        BY <1>4 DEF BrowserOk, TreeKinds
    <2>3. QED BY <1>4, <2>1, <2>2
<1>10. \A D : Keeps(f, D) => Keeps(g, D)
    <2> SUFFICES ASSUME NEW D, Keeps(f, D) PROVE Keeps(g, D)
        OBVIOUS
    <2>1. Top \notin D
        <3>1. Top \notin CatIds
            BY IdFacts
        <3>2. QED BY <3>1 DEF Keeps
    <2>2. parent \notin D
        BY <1>4, <2>1 DEF Keeps
    <2>3. QED BY <1>7, <1>8, <2>2 DEF Keeps
<1>11. BrowserOk(g) /\ g \in Forms
    <2>1. g.id # 0 /\ g.fresh => \E D : Keeps(g, D)
        BY <1>4, <1>8, <1>10 DEF BrowserOk, TreeKinds
    <2>2. g.id < nextCat
        BY <1>4, <1>8 DEF BrowserOk, TreeKinds
    <2>3. QED BY <1>7, <1>8, <1>9, <2>1, <2>2 DEF BrowserOk, TreeKinds, Forms
<1>12. form' = [form EXCEPT ![c] = NoForm] \/ form' = [form EXCEPT ![c] = g]
    BY <1>3, <1>5 DEF Send
<1>13. QED BY <1>1, <1>2, <1>11, <1>12, NothingShown, FormStep

LEMMA CheckStep == TreeInv /\ (\E c \in Clients : CheckSlug(c)) => TreeInv'
<1> SUFFICES ASSUME TreeInv, NEW c \in Clients, CheckSlug(c) PROVE TreeInv'
    OBVIOUS
<1>0. CategoriesTypeOk
    BY DEF TreeInv
<1>1. UNCHANGED <<cat, nextCat, carved, category, undead>>
    BY DEF CheckSlug
<1>2. PostsOk' /\ category' \in [Posts -> {Uncategorized} \cup CatIds] /\ undead' \subseteq Posts
    BY <1>0, <1>1 DEF TreeInv, PostsOk, Rows, CategoriesTypeOk
<1>3. PICK f : f = form[c]
    OBVIOUS
<1>4. f.kind = "check" /\ BrowserOk(f) /\ f \in CategoryForm /\ f.id < nextCat
    BY <1>3 DEF CheckSlug, TreeInv, BrowserOk, TreeKinds
<1>5. PICK g : g = [f EXCEPT !.kind = "write"]
    OBVIOUS
<1>6. g \in CategoryForm /\ g.kind = "write" /\ g.offers = f.offers /\ g.row = f.row
      /\ g.id = f.id /\ g.fresh = f.fresh
    BY <1>4, <1>5 DEF CategoryForm
<1>7. \A D : Keeps(f, D) => Keeps(g, D)
    BY <1>6 DEF Keeps
<1>8. BrowserOk(g) /\ g \in Forms
    BY <1>4, <1>6, <1>7 DEF BrowserOk, TreeKinds, Forms
<1>9. BrowserOk(Shown(f.id)) /\ Shown(f.id) \in Forms
    BY <1>4, FormKinds, ShownOk
<1>10. form' = [form EXCEPT ![c] = Shown(f.id)] \/ form' = [form EXCEPT ![c] = g]
    BY <1>3, <1>5 DEF CheckSlug
<1>11. QED BY <1>1, <1>2, <1>8, <1>9, <1>10, FormStep

LEMMA SaveStep ==
    TreeInv /\ (\E c \in Clients, i \in {Uncategorized} \cup CatIds : SavePost(c, i)) => TreeInv'
<1> SUFFICES ASSUME TreeInv, NEW c \in Clients, NEW i \in {Uncategorized} \cup CatIds, SavePost(c, i)
             PROVE  TreeInv'
    OBVIOUS
<1>0. CategoriesTypeOk
    BY DEF TreeInv
<1>1. PICK f : f = form[c]
    OBVIOUS
<1>2. f.kind = "post" /\ i \in f.offers \cup {Uncategorized} /\ BrowserOk(f) /\ f \in PostForm
      /\ f.entry \in Posts /\ (f.fresh => f.offers \subseteq Rows)
    BY <1>1, FormKinds DEF SavePost, TreeInv, BrowserOk
<1>3. /\ category' = [category EXCEPT ![f.entry] = i]
      /\ undead' = IF f.fresh THEN undead \ {f.entry} ELSE undead \cup {f.entry}
      /\ form' = [form EXCEPT ![c] = NoForm]
      /\ UNCHANGED <<cat, nextCat, carved>>
    BY <1>1 DEF SavePost
<1>4. category' \in [Posts -> {Uncategorized} \cup CatIds] /\ undead' \subseteq Posts
    BY <1>0, <1>2, <1>3 DEF CategoriesTypeOk
<1>5. PostsOk'
    <2> SUFFICES ASSUME NEW p \in Posts
                 PROVE  category'[p] \in Rows' \cup {Uncategorized} \/ p \in undead'
        BY DEF PostsOk
    <2>1. Rows' = Rows /\ category'[p] = IF p = f.entry THEN i ELSE category[p]
        BY <1>0, <1>3 DEF Rows, CategoriesTypeOk
    <2>2. QED BY <1>2, <1>3, <2>1 DEF TreeInv, PostsOk
<1>6. QED BY <1>3, <1>4, <1>5, NothingShown, FormStep

(* CreateCategory and UpdateCategory.  An edit from a form nothing has      *)
(* outdated puts the row under one that is not below it.                    *)
LEMMA OtherForms ==
    ASSUME CategoriesTypeOk, CategoriesTypeOk', nextCat <= nextCat', NEW f, BrowserOk(f),
           f.kind \in TreeKinds => \A D : Keeps(f, D) => \E E : Keeps(f, E)',
           f.kind = "post" => Rows \subseteq Rows'
    PROVE  BrowserOk(f)'
<1>1. ASSUME f.kind \in TreeKinds
      PROVE  /\ f \in CategoryForm
             /\ f.id < nextCat' /\ (\A o \in f.offers : o < nextCat') /\ f.row.parent < nextCat'
             /\ f.id # 0 /\ f.fresh => \E D : Keeps(f, D)'
    <2>1. /\ f \in CategoryForm
          /\ f.id < nextCat /\ (\A o \in f.offers : o < nextCat) /\ f.row.parent < nextCat
          /\ f.id # 0 /\ f.fresh => \E D : Keeps(f, D)
        BY <1>1 DEF BrowserOk
    <2>2. f.id \in {0} \cup CatIds /\ f.offers \in SUBSET CatIds /\ f.row.parent \in {Top} \cup CatIds
        BY <2>1, FormKinds, IdFacts
    <2>a. nextCat \in Nat /\ nextCat' \in Nat
        <3>1. MaxCategories \in Nat
            BY CategoriesAssumption
        <3>2. nextCat \in 1 .. MaxCategories + 1 /\ nextCat' \in 1 .. MaxCategories + 1
            BY DEF CategoriesTypeOk
        <3>3. QED BY <3>1, <3>2
    <2>3. PICK n, m : n = nextCat /\ m = nextCat' /\ n \in Nat /\ m \in Nat /\ n <= m
        BY <2>a
    <2>4. \A x \in {0, Top} \cup CatIds : x < nextCat => x < nextCat'
        <3>1. \A x \in Int : x < n => x < m
            BY <2>3
        <3>2. \A x \in {0, Top} \cup CatIds : x \in Int
            BY Numbers
        <3>3. QED BY <2>3, <3>1, <3>2
    <2>5. f.id < nextCat'
        BY <2>1, <2>2, <2>4
    <2>6. \A o \in f.offers : o < nextCat'
        BY <2>1, <2>2, <2>4
    <2>7. f.row.parent < nextCat'
        BY <2>1, <2>2, <2>4
    <2>8. f.id # 0 /\ f.fresh => \E D : Keeps(f, D)'
        BY <1>1, <2>1
    <2>9. QED BY <2>1, <2>5, <2>6, <2>7, <2>8
<1>2. f.kind = "post" => f \in PostForm /\ (f.fresh => f.offers \subseteq Rows')
    BY DEF BrowserOk
<1>3. f.kind \in TreeKinds \cup {"post", "none"}
    BY DEF BrowserOk
<1>4. QED BY <1>1, <1>2, <1>3 DEF BrowserOk

LEMMA OutdatedOk ==
    ASSUME NEW f, f \in Forms, BrowserOk(f)
    PROVE  /\ BrowserOk(Outdated(TreeKinds, f)) /\ Outdated(TreeKinds, f) \in Forms
           /\ BrowserOk(Outdated({"post"}, f)) /\ Outdated({"post"}, f) \in Forms
           /\ Outdated({}, f) = f
           /\ LET g == Outdated(TreeKinds, f) IN
              g.kind = f.kind /\ (g.kind \in TreeKinds => ~g.fresh) /\ (g.kind \notin TreeKinds => g = f)
           /\ LET g == Outdated({"post"}, f) IN
              g.kind = f.kind /\ (g.kind = "post" => ~g.fresh) /\ (g.kind # "post" => g = f)
<1>1. CASE f.kind \in TreeKinds
    <2>1. PICK g : g = [f EXCEPT !.fresh = FALSE]
        OBVIOUS
    <2>2. f \in CategoryForm
        BY <1>1 DEF BrowserOk
    <2>3. g \in CategoryForm /\ g.kind = f.kind /\ g.id = f.id /\ g.offers = f.offers
          /\ g.row = f.row /\ g.fresh = FALSE
        BY <2>1, <2>2 DEF CategoryForm
    <2>4. BrowserOk(g) /\ g \in Forms
        BY <1>1, <2>3 DEF BrowserOk, TreeKinds, Forms
    <2>5. Outdated(TreeKinds, f) = g /\ Outdated({"post"}, f) = f /\ Outdated({}, f) = f
        BY <1>1, <2>1 DEF Outdated, TreeKinds
    <2>6. f.kind # "post"
        BY <1>1 DEF TreeKinds
    <2>7. QED BY <1>1, <2>3, <2>4, <2>5, <2>6
<1>2. CASE f.kind = "post"
    <2>1. PICK g : g = [f EXCEPT !.fresh = FALSE]
        OBVIOUS
    <2>2. f \in PostForm
        BY <1>2 DEF BrowserOk
    <2>3. g \in PostForm /\ g.kind = f.kind /\ g.entry = f.entry /\ g.offers = f.offers
          /\ g.fresh = FALSE
        BY <2>1, <2>2 DEF PostForm
    <2>4. BrowserOk(g) /\ g \in Forms
        BY <1>2, <2>3 DEF BrowserOk, TreeKinds, Forms
    <2>5. Outdated(TreeKinds, f) = f /\ Outdated({"post"}, f) = g /\ Outdated({}, f) = f
        BY <1>2, <2>1 DEF Outdated, TreeKinds
    <2>6. f.kind \notin TreeKinds
        BY <1>2 DEF TreeKinds
    <2>7. QED BY <1>2, <2>3, <2>4, <2>5, <2>6
<1>3. CASE f.kind = "none"
    BY <1>3 DEF Outdated, TreeKinds
<1>4. QED BY <1>1, <1>2, <1>3 DEF BrowserOk

LEMMA CreateOk ==
    ASSUME TreeInv, NEW c \in Clients, Write(c), form[c].id = 0, nextCat <= MaxCategories,
           ~Indexed(form[c].row.slug, form[c].id)
    PROVE  TreeInv'
<1>0. CategoriesTypeOk /\ RowsOk /\ Rows \subseteq CatIds /\ PostsOk
    BY RowType DEF TreeInv
<1>1. PICK f, i : f = form[c] /\ i = nextCat
    OBVIOUS
<1>2. f.kind = "write" /\ BrowserOk(f) /\ f \in CategoryForm /\ f.row \in CatRow /\ f.row.parent < i
    BY <1>1, FormKinds DEF Write, TreeInv, BrowserOk, TreeKinds
<1>3. /\ cat' = [cat EXCEPT ![i] = f.row] /\ nextCat' = i + 1 /\ carved' = carved
      /\ form' = Done(c, {}) /\ UNCHANGED <<category, undead>>
    BY <1>0, <1>1 DEF Write, TreeInv, CategoriesTypeOk
<1>4. i \in CatIds /\ i \in Nat /\ i < nextCat' /\ f.row.parent < nextCat' /\ f.row # NoRow
    <2>1. i \in Nat /\ i >= 1 /\ i <= MaxCategories /\ CatIds = 1 .. MaxCategories /\ MaxCategories \in Nat
        BY <1>0, <1>1, Numbers
    <2>2. f.row.parent \in Int /\ f.row # NoRow
        <3>1. f.row.parent \in {Top} \cup CatIds /\ f.row # NoRow
            BY <1>2, IdFacts
        <3>2. QED BY <1>0, <3>1, Numbers
    <2>3. QED BY <1>2, <1>3, <2>1, <2>2
<1>5. /\ i \notin Rows /\ f.row.parent # i
      /\ \A j \in Rows : j < i /\ cat[j].parent < i /\ cat[j].parent # i
    <2>1. \A j \in Rows : j < i /\ cat[j].parent < i
        BY <1>0, <1>1 DEF RowsOk
    <2>2. ~(i < i)
        BY <1>4
    <2>3. QED BY <1>2, <2>1, <2>2
<1>6. Rows' = Rows \cup {i} /\ cat'[i] = f.row /\ \A j \in Rows : cat'[j] = cat[j]
    BY <1>0, <1>3, <1>4, <1>5 DEF Rows, CategoriesTypeOk
<1>7. CategoriesTypeOk'
    <2>1. nextCat' \in 1 .. MaxCategories + 1
        BY <1>0, <1>1, <1>3, Numbers
    <2>2. cat' \in [CatIds -> CatRow \cup {NoRow}]
        BY <1>0, <1>2, <1>3 DEF CategoriesTypeOk
    <2>3. \A d \in Clients : form'[d] \in Forms
        BY <1>0, <1>3, NothingShown DEF Done, Outdated, CategoriesTypeOk, Forms
    <2>4. form' \in [Clients -> Forms]
        BY <1>3, <2>3 DEF Done
    <2>5. QED BY <1>0, <1>3, <2>1, <2>2, <2>4 DEF CategoriesTypeOk, Forms
<1>8. RowsOk'
    <2>1. \A j \in Rows' : j < nextCat' /\ cat'[j].parent < nextCat'
        <3>1. \A j \in Rows : j \in Int /\ cat[j].parent \in Int
            BY <1>0, RowType, Numbers
        <3>2. \A j \in Rows : j < i + 1 /\ cat[j].parent < i + 1
            BY <1>4, <1>5, <3>1
        <3>3. QED BY <1>3, <1>4, <1>6, <3>2
    <2>2. \A j, k \in Rows' : j # k => cat'[j].slug = "" \/ cat'[j].slug # cat'[k].slug
        <3>1. \A j \in Rows : f.row.slug = "" \/ cat[j].slug # f.row.slug
            <4>1. ~Indexed(f.row.slug, 0)
                BY <1>1
            <4>2. \A j \in Rows : j \in Rows \ {0}
                BY <1>0, IdFacts
            <4>3. QED BY <4>1, <4>2 DEF Indexed, CategorySlugInUse
        <3>2. \A j, k \in Rows : j # k => cat'[j].slug = "" \/ cat'[j].slug # cat'[k].slug
            BY <1>0, <1>6 DEF RowsOk
        <3>3. \A j \in Rows : /\ cat'[j].slug = "" \/ cat'[j].slug # cat'[i].slug
                              /\ cat'[i].slug = "" \/ cat'[i].slug # cat'[j].slug
            <4> TAKE j \in Rows
            <4>1. cat'[j] = cat[j] /\ cat'[i] = f.row /\ (f.row.slug = "" \/ cat[j].slug # f.row.slug)
                BY <1>6, <3>1
            <4>2. QED BY <4>1
        <3>4. QED BY <1>6, <3>2, <3>3
    <2>3. QED BY <2>1, <2>2 DEF RowsOk
<1>9. (carved \/ Forest)'
    <2> SUFFICES ASSUME Forest, NEW S \in SUBSET Rows', S # {}
                 PROVE  \E j \in S : cat'[j].parent \notin S
        BY <1>3 DEF Forest, TreeInv
    <2>1. CASE S \subseteq {i}
        <3>1. i \in S /\ S = {i}
            BY <2>1
        <3>2. cat'[i].parent \notin S
            BY <1>5, <1>6, <3>1
        <3>3. QED BY <3>1, <3>2
    <2>2. CASE ~(S \subseteq {i})
        <3>1. S \ {i} \in SUBSET Rows /\ S \ {i} # {}
            BY <1>6, <2>2
        <3>2. PICK j \in S \ {i} : cat[j].parent \notin S \ {i}
            BY <3>1 DEF Forest
        <3>3. cat[j].parent # i
            <4>1. j \in Rows /\ cat[j].parent \in Int
                BY <1>0, <3>1, RowType, Numbers
            <4>2. QED BY <1>4, <1>5, <4>1
        <3>4. QED BY <1>6, <3>1, <3>2, <3>3
    <2>3. QED BY <2>1, <2>2
<1>10. PostsOk'
    BY <1>0, <1>3, <1>6 DEF PostsOk
<1>11. \A d \in Clients : BrowserOk(form[d])'
    <2> TAKE d \in Clients
    <2>1. CASE d = c
        BY <1>3, <2>1, NothingShown DEF Done
    <2>2. CASE d # c
        <3>1. PICK g : g = form[d]
            OBVIOUS
        <3>2. form'[d] = g
            BY <1>3, <2>2, <3>1 DEF Done, Outdated
        <3>3. BrowserOk(g)
            BY <3>1 DEF TreeInv
        <3>4. ASSUME g.kind \in TreeKinds, NEW D, Keeps(g, D) PROVE \E E : Keeps(g, E)'
            <4>1. g.id \in D /\ D \in SUBSET CatIds /\ Shut(D) /\ g.offers \cap D = {} /\ g.row.parent \notin D
                BY <3>4 DEF Keeps
            <4>2. CASE f.row.parent \in D
                <5>1. Shut(D \cup {i})'
                    BY <1>5, <1>6, <4>1 DEF Shut
                <5>2. i \notin g.offers /\ g.row.parent # i
                    BY <1>1, <1>4, <3>3, <3>4 DEF BrowserOk
                <5>3. Keeps(g, D \cup {i})'
                    BY <1>4, <4>1, <5>1, <5>2 DEF Keeps
                <5>4. QED BY <5>3
            <4>3. CASE f.row.parent \notin D
                <5>1. Shut(D)'
                    BY <1>6, <4>1, <4>3 DEF Shut
                <5>2. Keeps(g, D)'
                    BY <4>1, <5>1 DEF Keeps
                <5>3. QED BY <5>2
            <4>4. QED BY <4>2, <4>3
        <3>5. BrowserOk(g)'
            <4>1. nextCat <= nextCat'
                BY <1>1, <1>3, <1>4
            <4>2. g.kind \in TreeKinds => \A D : Keeps(g, D) => \E E : Keeps(g, E)'
                BY <3>4
            <4>3. QED BY <1>0, <1>6, <1>7, <3>3, <4>1, <4>2, OtherForms
        <3>6. QED BY <3>2, <3>5 DEF BrowserOk, Keeps, Shut
    <2>3. QED BY <2>1, <2>2
<1>12. QED BY <1>7, <1>8, <1>9, <1>10, <1>11 DEF TreeInv

LEMMA EditOk ==
    ASSUME TreeInv, NEW c \in Clients, Write(c), form[c].id # 0, form[c].id \in Rows,
           ~Indexed(form[c].row.slug, form[c].id)
    PROVE  TreeInv'
<1>0. CategoriesTypeOk /\ RowsOk /\ Rows \subseteq CatIds /\ PostsOk
    BY RowType DEF TreeInv
<1>1. PICK f, i : f = form[c] /\ i = f.id
    OBVIOUS
<1>2. f.kind = "write" /\ BrowserOk(f) /\ f \in CategoryForm /\ f.row \in CatRow /\ f.row.parent < nextCat
      /\ i \in Rows /\ i # 0 /\ f.row # NoRow
    BY <1>1, FormKinds, IdFacts DEF Write, TreeInv, BrowserOk, TreeKinds
<1>3. /\ cat' = [cat EXCEPT ![i] = f.row] /\ nextCat' = nextCat
      /\ carved' = (carved \/ ~f.fresh)
      /\ form' = Done(c, TreeKinds) /\ UNCHANGED <<category, undead>>
    BY <1>1, <1>2 DEF Write, TreeKinds
<1>4. Rows' = Rows /\ cat'[i] = f.row /\ \A j \in Rows \ {i} : cat'[j] = cat[j]
    BY <1>0, <1>2, <1>3 DEF Rows, CategoriesTypeOk
<1>5. ASSUME NEW d \in Clients
      PROVE  \E g : g \in Forms /\ BrowserOk(g) /\ form'[d] = g
                    /\ (g.kind \in TreeKinds => ~g.fresh)
    <2>1. CASE d = c
        BY <1>3, <2>1, NothingShown DEF Done, NoForm, TreeKinds
    <2>2. CASE d # c
        <3>1. PICK g : g = form[d]
            OBVIOUS
        <3>2. g \in Forms /\ BrowserOk(g)
            BY <1>0, <3>1 DEF TreeInv, CategoriesTypeOk, Forms
        <3>3. form'[d] = Outdated(TreeKinds, g)
            BY <1>3, <2>2, <3>1 DEF Done
        <3>4. QED BY <3>2, <3>3, OutdatedOk
    <2>3. QED BY <2>1, <2>2
<1>6. CategoriesTypeOk'
    <2>1. cat' \in [CatIds -> CatRow \cup {NoRow}]
        BY <1>0, <1>2, <1>3 DEF CategoriesTypeOk
    <2>2. \A d \in Clients : form'[d] \in Forms
        BY <1>5
    <2>3. form' \in [Clients -> Forms]
        BY <1>3, <2>2 DEF Done
    <2>4. carved' \in BOOLEAN
        BY <1>3
    <2>5. QED BY <1>0, <1>3, <2>1, <2>3, <2>4 DEF CategoriesTypeOk, Forms
<1>7. RowsOk'
    <2>1. \A j \in Rows' : j < nextCat' /\ cat'[j].parent < nextCat'
        BY <1>0, <1>2, <1>3, <1>4 DEF RowsOk
    <2>2. \A j \in Rows \ {i} : f.row.slug = "" \/ cat[j].slug # f.row.slug
        BY <1>1 DEF Indexed, CategorySlugInUse
    <2>3. \A j, k \in Rows \ {i} : j # k => cat'[j].slug = "" \/ cat'[j].slug # cat'[k].slug
        BY <1>0, <1>4 DEF RowsOk
    <2>4. \A j \in Rows \ {i} : /\ cat'[j].slug = "" \/ cat'[j].slug # cat'[i].slug
                                /\ cat'[i].slug = "" \/ cat'[i].slug # cat'[j].slug
        <3> TAKE j \in Rows \ {i}
        <3>1. cat'[j] = cat[j] /\ cat'[i] = f.row /\ (f.row.slug = "" \/ cat[j].slug # f.row.slug)
            BY <1>4, <2>2
        <3>2. QED BY <3>1
    <2>5. \A j, k \in Rows' : j # k => cat'[j].slug = "" \/ cat'[j].slug # cat'[k].slug
        BY <1>4, <2>3, <2>4
    <2>6. QED BY <2>1, <2>5 DEF RowsOk
<1>8. (carved \/ Forest)'
    <2> SUFFICES ASSUME Forest, f.fresh, NEW S \in SUBSET Rows', S # {},
                        \A j \in S : cat'[j].parent \in S
                 PROVE  FALSE
        BY <1>3 DEF Forest, TreeInv
    <2>1. PICK D : Keeps(f, D)
        BY <1>1, <1>2 DEF BrowserOk, TreeKinds
    <2>2. i \in D /\ f.row.parent \notin D /\ \A j \in Rows : cat[j].parent \in D => j \in D
        BY <1>1, <2>1 DEF Keeps, Shut
    <2>3. CASE i \in S
        <3>1. f.row.parent \in S \ D
            BY <1>4, <2>2, <2>3
        <3>2. S \ D \in SUBSET Rows /\ S \ D # {}
            BY <1>4, <3>1
        <3>3. PICK j \in S \ D : cat[j].parent \notin S \ D
            BY <3>2 DEF Forest
        <3>4. j \in Rows \ {i} /\ cat[j].parent \in S
            BY <1>4, <2>2, <3>2, <3>3
        <3>5. QED BY <2>2, <3>3, <3>4
    <2>4. CASE i \notin S
        <3>1. PICK j \in S : cat[j].parent \notin S
            BY <1>4 DEF Forest
        <3>2. QED BY <1>4, <2>4, <3>1
    <2>5. QED BY <2>3, <2>4
<1>9. PostsOk'
    BY <1>0, <1>3, <1>4 DEF PostsOk
<1>10. \A d \in Clients : BrowserOk(form[d])'
    <2> TAKE d \in Clients
    <2>1. PICK g : g \in Forms /\ BrowserOk(g) /\ form'[d] = g /\ (g.kind \in TreeKinds => ~g.fresh)
        BY <1>5
    <2>2. BrowserOk(g)'
        BY <1>3, <1>4, <2>1 DEF BrowserOk
    <2>3. QED BY <2>1, <2>2 DEF BrowserOk, Keeps, Shut
<1>11. QED BY <1>6, <1>7, <1>8, <1>9, <1>10 DEF TreeInv

LEMMA WriteCategoryStep == TreeInv /\ (\E c \in Clients : Write(c)) => TreeInv'
<1> SUFFICES ASSUME TreeInv, NEW c \in Clients, Write(c) PROVE TreeInv'
    OBVIOUS
<1> DEFINE fits == IF form[c].id = 0 THEN nextCat <= MaxCategories ELSE form[c].id \in Rows
<1>1. CASE fits /\ ~Indexed(form[c].row.slug, form[c].id)
    BY <1>1, CreateOk, EditOk
<1>2. CASE ~(fits /\ ~Indexed(form[c].row.slug, form[c].id))
    <2>1. form' = [form EXCEPT ![c] = NoForm] /\ UNCHANGED <<cat, nextCat, carved, category, undead>>
        BY <1>2 DEF Write
    <2>2. PostsOk' /\ category' \in [Posts -> {Uncategorized} \cup CatIds] /\ undead' \subseteq Posts
        BY <2>1 DEF TreeInv, PostsOk, Rows, CategoriesTypeOk
    <2>3. QED BY <2>1, <2>2, NothingShown, FormStep
<1>3. QED BY <1>1, <1>2

(* DeleteCategory: the children keep a dead parent id, which no row has.     *)
LEMMA DropCategoryStep == TreeInv /\ (\E i \in CatIds : DeleteCategory(i)) => TreeInv'
<1> SUFFICES ASSUME TreeInv, NEW i \in CatIds, DeleteCategory(i) PROVE TreeInv'
    OBVIOUS
<1>0. CategoriesTypeOk /\ RowsOk /\ Rows \subseteq CatIds /\ PostsOk
    BY RowType DEF TreeInv
<1>1. /\ i \in Rows /\ cat' = [cat EXCEPT ![i] = NoRow] /\ category' = Reassign(i)
      /\ form' = [d \in Clients |-> Outdated({"post"}, form[d])]
      /\ UNCHANGED <<nextCat, carved, undead>>
    BY DEF DeleteCategory
<1>2. Rows' = Rows \ {i} /\ \A j \in Rows' : cat'[j] = cat[j]
    BY <1>0, <1>1 DEF Rows, CategoriesTypeOk
<1>3. ASSUME NEW d \in Clients
      PROVE  \E g : g \in Forms /\ BrowserOk(g) /\ form'[d] = g /\ (g.kind = "post" => ~g.fresh)
    <2>1. PICK f : f = form[d]
        OBVIOUS
    <2>2. f \in Forms /\ BrowserOk(f)
        BY <1>0, <2>1 DEF TreeInv, CategoriesTypeOk, Forms
    <2>3. form'[d] = Outdated({"post"}, f)
        BY <1>1, <2>1
    <2>4. QED BY <2>2, <2>3, OutdatedOk
<1>4. CategoriesTypeOk'
    <2>1. cat' \in [CatIds -> CatRow \cup {NoRow}]
        BY <1>0, <1>1 DEF CategoriesTypeOk
    <2>2. \A d \in Clients : form'[d] \in Forms
        BY <1>3
    <2>3. form' \in [Clients -> Forms]
        BY <1>1, <2>2
    <2>4. category' \in [Posts -> {Uncategorized} \cup CatIds]
        BY <1>0, <1>1 DEF Reassign, CategoriesTypeOk
    <2>5. QED BY <1>0, <1>1, <2>1, <2>3, <2>4 DEF CategoriesTypeOk, Forms
<1>5. RowsOk'
    <2>1. \A j \in Rows' : j < nextCat' /\ cat'[j].parent < nextCat'
        BY <1>0, <1>1, <1>2 DEF RowsOk
    <2>2. \A j, k \in Rows' : j # k => cat[j].slug = "" \/ cat[j].slug # cat[k].slug
        BY <1>0, <1>2 DEF RowsOk
    <2>3. \A j \in Rows' : cat'[j].slug = cat[j].slug
        BY <1>2
    <2>4. QED BY <2>1, <2>2, <2>3 DEF RowsOk
<1>6. (carved \/ Forest)'
    <2> SUFFICES ASSUME Forest, NEW S \in SUBSET Rows', S # {}
                 PROVE  \E j \in S : cat'[j].parent \notin S
        BY <1>1 DEF Forest, TreeInv
    <2>1. PICK j \in S : cat[j].parent \notin S
        BY <1>2 DEF Forest
    <2>2. QED BY <1>2, <2>1
<1>7. PostsOk'
    BY <1>0, <1>1, <1>2 DEF PostsOk, Reassign
<1>8. \A d \in Clients : BrowserOk(form[d])'
    <2> TAKE d \in Clients
    <2>1. PICK g : g \in Forms /\ BrowserOk(g) /\ form'[d] = g /\ (g.kind = "post" => ~g.fresh)
        BY <1>3
    <2>2. \A D : Keeps(g, D) => Keeps(g, D)'
        BY <1>2 DEF Keeps, Shut
    <2>3. BrowserOk(g)'
        BY <1>1, <2>1, <2>2 DEF BrowserOk
    <2>4. QED BY <2>1, <2>3 DEF BrowserOk, Keeps, Shut
<1>9. QED BY <1>4, <1>5, <1>6, <1>7, <1>8 DEF TreeInv

LEMMA TreeInit == CategoriesInit => TreeInv
<1> SUFFICES ASSUME CategoriesInit PROVE TreeInv
    OBVIOUS
<1>1. Rows = {}
    BY DEF CategoriesInit, Rows
<1>2. CategoriesTypeOk
    <2>a. MaxCategories \in Nat /\ nextCat = 1
        BY CategoriesAssumption DEF CategoriesInit
    <2>1. nextCat \in 1 .. MaxCategories + 1
        BY <2>a
    <2>2. QED BY <2>1 DEF CategoriesInit, CategoriesTypeOk
<1>3. RowsOk /\ Forest
    BY <1>1 DEF RowsOk, Forest
<1>4. PostsOk
    BY DEF CategoriesInit, PostsOk
<1>5. \A c \in Clients : BrowserOk(form[c])
    BY NothingShown DEF CategoriesInit
<1>6. QED BY <1>2, <1>3, <1>4, <1>5 DEF TreeInv

LEMMA TreeStep == TreeInv /\ [CategoriesNext]_categoriesVars => TreeInv'
<1> SUFFICES ASSUME TreeInv, [CategoriesNext]_categoriesVars PROVE TreeInv'
    OBVIOUS
<1>1. CASE UNCHANGED categoriesVars
    BY <1>1 DEF categoriesVars, TreeInv, CategoriesTypeOk, RowsOk, PostsOk, Forest, BrowserOk,
       Keeps, Shut, Rows
<1>2. ASSUME NEW c \in Clients,
             (\E i \in {0} \cup Rows : ShowForm(c, i)) \/ (\E p \in Posts : ShowPost(c, p)) \/ Leave(c)
      PROVE  TreeInv'
    BY <1>2, OpenStep
<1>3. ASSUME NEW c \in Clients,
             \E parent \in {Top} \cup CatIds, slug \in Slugs \cup {""}, hidden \in BOOLEAN :
                Send(c, parent, slug, hidden)
      PROVE  TreeInv'
    BY <1>3, SendStep
<1>4. ASSUME NEW c \in Clients, CheckSlug(c) PROVE TreeInv'
    BY <1>4, CheckStep
<1>5. ASSUME NEW c \in Clients, Write(c) PROVE TreeInv'
    BY <1>5, WriteCategoryStep
<1>6. ASSUME NEW c \in Clients, \E i \in {Uncategorized} \cup CatIds : SavePost(c, i) PROVE TreeInv'
    BY <1>6, SaveStep
<1>7. ASSUME NEW i \in CatIds, DeleteCategory(i) PROVE TreeInv'
    BY <1>7, DropCategoryStep
<1>8. QED BY <1>1, <1>2, <1>3, <1>4, <1>5, <1>6, <1>7 DEF CategoriesNext

LEMMA TreeAlways == CategoriesSpec => []TreeInv
    BY TreeInit, TreeStep, PTL DEF CategoriesSpec

(***************************************************************************)
(* Every variable of the category screens stays in its domain.             *)
(***************************************************************************)
THEOREM CategoriesTypeCorrect == CategoriesSpec => []CategoriesTypeOk
<1>1. TreeInv => CategoriesTypeOk
    BY DEF TreeInv
<1>2. QED BY <1>1, TreeAlways, PTL

(***************************************************************************)
(* filterParents keeps the tree without a cycle and DeleteCategory keeps    *)
(* every entry on a category that is there, for any number of categories,   *)
(* entries and forms open at once, until a form that an edit or a deletion  *)
(* has outdated is saved.                                                  *)
(***************************************************************************)
THEOREM TreeIsKept == CategoriesSpec => []DamageNeedsOldForm
<1>1. TreeInv => DamageNeedsOldForm
    BY ForestHasNoCycle DEF TreeInv, CategoriesTypeOk, PostsOk, DamageNeedsOldForm
<1>2. QED BY <1>1, TreeAlways, PTL

(***************************************************************************)
(* The two walks over parent ids.  A level of the sidebar tree and a step  *)
(* of the full name.                                                       *)
(***************************************************************************)
Lower(l) == l \cup {i \in Navigable : cat[i].parent \in {Top} \cup l}
Climb(all, q) ==
    LET up == cat[q[1]].parent
    IN  IF up \in all /\ \A k \in DOMAIN q : q[k] # up THEN <<up>> \o q ELSE q

LEMMA ListedGrows ==
    \E f \in [0 .. MaxDepth -> SUBSET Navigable] :
        f[0] = {} /\ (\A n \in 1 .. MaxDepth : f[n] = Lower(f[n - 1])) /\ Listed = f[MaxDepth]
<1>0. MaxDepth \in Nat
    BY CategoriesAssumption
<1>1. PICK X, a, T : X = SUBSET Navigable /\ a = {} /\ T = [d \in SUBSET Navigable |-> Lower(d)]
    OBVIOUS
<1>2. a \in X /\ T \in [X -> X] /\ \A d \in X : T[d] = Lower(d)
    BY <1>1 DEF Lower
<1>4. PICK f : Iterates(f, X, a, T, MaxDepth)
    BY <1>0, <1>2, Iterated
<1>3. f \in [0 .. MaxDepth -> X] /\ f[0] = a /\ \A n \in 1 .. MaxDepth : f[n] = T[f[n - 1]]
    BY <1>4 DEF Iterates
<1>a. \A n \in 1 .. MaxDepth : f[n] = Lower(f[n - 1])
    <2> TAKE n \in 1 .. MaxDepth
    <2>1. n - 1 \in 0 .. MaxDepth
        BY <1>0
    <2>2. f[n - 1] \in X
        BY <1>3, <2>1
    <2>3. QED BY <1>2, <1>3, <2>2
<1>b. \A n \in 0 .. MaxDepth :
         f[n] = IF n = 0 THEN {} ELSE f[n - 1] \cup {i \in Navigable : cat[i].parent \in {Top} \cup f[n - 1]}
    BY <1>0, <1>1, <1>3, <1>a DEF Lower
<1> DEFINE level[n \in 0 .. MaxDepth] ==
            IF n = 0 THEN {}
            ELSE LET l == level[n - 1]
                 IN  l \cup {i \in Navigable : cat[i].parent \in {Top} \cup l}
           body(g) == [n \in 0 .. MaxDepth |-> IF n = 0 THEN {}
            ELSE LET l == g[n - 1]
                 IN  l \cup {i \in Navigable : cat[i].parent \in {Top} \cup l}]
<1>c. f = body(f)
    BY <1>3, <1>b
<1>d. level = CHOOSE g : g = body(g)
    OBVIOUS
<1>5. level = body(level)
    BY <1>c, <1>d
<1>6. Listed = level[MaxDepth]
    BY DEF Listed, TreeDepth
<1> HIDE DEF level
<1>7. level[0] = {} /\ \A n \in 1 .. MaxDepth : level[n] = Lower(level[n - 1])
    BY <1>0, <1>5 DEF Lower
<1>8. \A n \in 0 .. MaxDepth : level[n] \in SUBSET Navigable
    <2>1. \A n \in 1 .. MaxDepth : level[n - 1] \in SUBSET Navigable => level[n] \in SUBSET Navigable
        BY <1>7 DEF Lower
    <2>2. level[0] \in SUBSET Navigable
        BY <1>7
    <2>3. QED BY <1>0, <2>1, <2>2, StepsStay
<1>9. level \in [0 .. MaxDepth -> SUBSET Navigable]
    BY <1>5, <1>8
<1>10. QED BY <1>6, <1>7, <1>9

LEMMA FullnameGrows ==
    ASSUME NEW i \in Rows, NEW all \in SUBSET Rows
    PROVE  \E f \in [0 .. MaxDepth -> Seq(Rows)] :
              /\ f[0] = <<i>> /\ \A n \in 1 .. MaxDepth : f[n] = Climb(all, f[n - 1])
              /\ Fullname(i, all) = f[MaxDepth]
<1>0. MaxDepth \in Nat
    BY CategoriesAssumption
<1>1. PICK X, a, T : X = Seq(Rows) /\ a = <<i>> /\ T = [q \in Seq(Rows) |-> Climb(all, q)]
    OBVIOUS
<1>p. \A q \in Seq(Rows) : Climb(all, q) \in Seq(Rows)
    BY DEF Climb
<1>2. a \in X /\ T \in [X -> X] /\ \A q \in X : T[q] = Climb(all, q)
    BY <1>1, <1>p
<1>4. PICK f : Iterates(f, X, a, T, MaxDepth)
    BY <1>0, <1>2, Iterated
<1>3. f \in [0 .. MaxDepth -> X] /\ f[0] = a /\ \A n \in 1 .. MaxDepth : f[n] = T[f[n - 1]]
    BY <1>4 DEF Iterates
<1>a. \A n \in 1 .. MaxDepth : f[n] = Climb(all, f[n - 1])
    <2> TAKE n \in 1 .. MaxDepth
    <2>1. n - 1 \in 0 .. MaxDepth
        BY <1>0
    <2>2. f[n - 1] \in X
        BY <1>3, <2>1
    <2>3. QED BY <1>2, <1>3, <2>2
<1>b. \A n \in 0 .. MaxDepth : f[n] = IF n = 0 THEN <<i>> ELSE Climb(all, f[n - 1])
    BY <1>0, <1>1, <1>3, <1>a
<1> DEFINE path[n \in 0 .. MaxDepth] ==
            IF n = 0 THEN <<i>>
            ELSE LET below == path[n - 1]
                     up == cat[below[1]].parent
                 IN  IF up \in all /\ \A k \in DOMAIN below : below[k] # up
                     THEN <<up>> \o below ELSE below
           body(g) == [n \in 0 .. MaxDepth |-> IF n = 0 THEN <<i>>
            ELSE LET below == g[n - 1]
                     up == cat[below[1]].parent
                 IN  IF up \in all /\ \A k \in DOMAIN below : below[k] # up
                     THEN <<up>> \o below ELSE below]
           climb(g) == [n \in 0 .. MaxDepth |-> IF n = 0 THEN <<i>> ELSE Climb(all, g[n - 1])]
<1>e. \A g : body(g) = climb(g)
    BY DEF Climb
<1>d. path = CHOOSE g : g = body(g)
    OBVIOUS
<1>6. Fullname(i, all) = path[MaxDepth]
    BY DEF Fullname
<1> HIDE DEF path, body
<1>c. f = body(f)
    <2>1. f = climb(f)
        BY <1>3, <1>b
    <2>2. QED BY <1>e, <2>1
<1>5. path = climb(path)
    BY <1>c, <1>d, <1>e
<1>7. path[0] = <<i>> /\ \A n \in 1 .. MaxDepth : path[n] = Climb(all, path[n - 1])
    BY <1>0, <1>5
<1>8. \A n \in 0 .. MaxDepth : path[n] \in Seq(Rows)
    <2>1. \A n \in 1 .. MaxDepth : path[n - 1] \in Seq(Rows) => path[n] \in Seq(Rows)
        BY <1>7, <1>p
    <2>2. path[0] \in Seq(Rows)
        BY <1>7
    <2>3. QED BY <1>0, <2>1, <2>2, StepsStay
<1>9. path \in [0 .. MaxDepth -> Seq(Rows)]
    BY <1>5, <1>8
<1>10. QED BY <1>6, <1>7, <1>9

LEMMA Prepended ==
    ASSUME NEW S, NEW q \in Seq(S), NEW x \in S, NEW r, r = <<x>> \o q, Len(q) >= 1
    PROVE  /\ r \in Seq(S) /\ Len(r) = Len(q) + 1 /\ r[1] = x /\ r[Len(r)] = q[Len(q)]
           /\ \A k \in 1 .. Len(q) : r[k + 1] = q[k]
<1>1. r \in Seq(S) /\ Len(r) = Len(q) + 1 /\ r[1] = x
    OBVIOUS
<1>2. \A k \in 1 .. Len(q) : r[k + 1] = q[k]
    OBVIOUS
<1>3. Len(q) \in 1 .. Len(q) /\ Len(q) \in Nat
    OBVIOUS
<1>4. QED BY <1>1, <1>2, <1>3

(* A path goes from parent to child and ends in the row.                    *)
Chained(q, i) ==
    /\ Len(q) >= 1 /\ q[Len(q)] = i
    /\ \A k \in 1 .. Len(q) - 1 : cat[q[k + 1]].parent = q[k]

LEMMA FullnameChained ==
    ASSUME NEW i \in Rows, NEW all \in SUBSET Rows
    PROVE  Fullname(i, all) \in Seq(Rows) /\ Chained(Fullname(i, all), i)
<1>0. MaxDepth \in Nat
    BY CategoriesAssumption
<1>1. PICK f \in [0 .. MaxDepth -> Seq(Rows)] :
         /\ f[0] = <<i>> /\ \A n \in 1 .. MaxDepth : f[n] = Climb(all, f[n - 1])
         /\ Fullname(i, all) = f[MaxDepth]
    BY FullnameGrows
<1> DEFINE P == {n \in 0 .. MaxDepth : Chained(f[n], i)}
<1>2. 0 \in P
    BY <1>0, <1>1 DEF Chained
<1>3. ASSUME NEW n \in 0 .. MaxDepth, n \in P, n < MaxDepth PROVE n + 1 \in P
    <2>1. n + 1 \in 1 .. MaxDepth /\ n + 1 - 1 = n /\ n + 1 \in 0 .. MaxDepth
        BY <1>0, <1>3
    <2>2. PICK q : q = f[n]
        OBVIOUS
    <2>3. q \in Seq(Rows) /\ Chained(q, i) /\ f[n + 1] = Climb(all, q)
        BY <1>1, <1>3, <2>1, <2>2
    <2>4. PICK up : up = cat[q[1]].parent
        OBVIOUS
    <2>5. CASE Climb(all, q) = q
        BY <2>1, <2>3, <2>5
    <2>6. CASE Climb(all, q) # q
        <3>1. up \in all /\ up \in Rows /\ Climb(all, q) = <<up>> \o q
            BY <2>4, <2>6 DEF Climb
        <3>2. PICK r : r = <<up>> \o q
            OBVIOUS
        <3>3. Len(q) >= 1 /\ q[Len(q)] = i /\ \A k \in 1 .. Len(q) - 1 : cat[q[k + 1]].parent = q[k]
            BY <2>3 DEF Chained
        <3>4. /\ r \in Seq(Rows) /\ Len(r) = Len(q) + 1 /\ r[1] = up /\ r[Len(r)] = q[Len(q)]
              /\ \A k \in 1 .. Len(q) : r[k + 1] = q[k]
            BY <2>3, <3>1, <3>2, <3>3, Prepended
        <3>5. ASSUME NEW k \in 1 .. Len(r) - 1 PROVE cat[r[k + 1]].parent = r[k]
            <4>0. Len(q) \in Nat /\ k \in 1 .. Len(q)
                BY <2>3, <3>4
            <4>1. CASE k = 1
                BY <2>4, <3>3, <3>4, <4>0, <4>1
            <4>2. CASE k # 1
                <5>1. k - 1 \in 1 .. Len(q) - 1 /\ k - 1 \in 1 .. Len(q) /\ k - 1 + 1 = k
                    BY <4>0, <4>2
                <5>2. cat[q[k]].parent = q[k - 1] /\ r[k] = q[k - 1] /\ r[k + 1] = q[k]
                    BY <3>3, <3>4, <4>0, <5>1
                <5>3. QED BY <5>2
            <4>3. QED BY <4>1, <4>2
        <3>6. Len(r) >= 1 /\ r[Len(r)] = i
            BY <2>3, <3>3, <3>4
        <3>7. Chained(r, i)
            BY <3>5, <3>6 DEF Chained
        <3>8. QED BY <2>1, <2>3, <3>1, <3>2, <3>7
    <2>7. QED BY <2>5, <2>6
<1> HIDE DEF P
<1>4. MaxDepth \in P
    <2>1. \A n \in 0 .. MaxDepth : n \in P /\ n < MaxDepth => n + 1 \in P
        BY <1>3
    <2>2. \A n \in 0 .. MaxDepth : n \in P
        BY <1>0, <1>2, <2>1, UpTo
    <2>3. QED BY <1>0, <2>2
<1>5. Chained(f[MaxDepth], i) /\ f[MaxDepth] \in Seq(Rows)
    BY <1>0, <1>1, <1>4 DEF P
<1>6. QED BY <1>1, <1>5

(* The levels of the sidebar.                                               *)
Levels(f) ==
    /\ f \in [0 .. MaxDepth -> SUBSET Navigable] /\ f[0] = {}
    /\ \A n \in 1 .. MaxDepth : f[n] = Lower(f[n - 1])

LEMMA LevelsGrow ==
    ASSUME NEW f, Levels(f)
    PROVE  \A a, b \in 0 .. MaxDepth : a <= b => f[a] \subseteq f[b]
<1>0. MaxDepth \in Nat
    BY CategoriesAssumption
<1> DEFINE P == {n \in 0 .. MaxDepth : \A a \in 0 .. n : f[a] \subseteq f[n]}
<1>1. 0 \in P
    BY <1>0
<1>2. ASSUME NEW n \in 0 .. MaxDepth, n \in P, n < MaxDepth PROVE n + 1 \in P
    <2>1. n + 1 \in 1 .. MaxDepth /\ n + 1 - 1 = n /\ n + 1 \in 0 .. MaxDepth
        BY <1>0, <1>2
    <2>2. f[n] \subseteq f[n + 1]
        BY <2>1 DEF Levels, Lower
    <2>3. \A a \in 0 .. n + 1 : f[a] \subseteq f[n + 1]
        <3> TAKE a \in 0 .. n + 1
        <3>1. a = n + 1 \/ a \in 0 .. n
            BY <2>1
        <3>2. QED BY <1>2, <2>2, <3>1
    <2>4. QED BY <2>1, <2>3
<1> HIDE DEF P
<1>3. \A n \in 0 .. MaxDepth : n \in P
    <2>1. \A n \in 0 .. MaxDepth : n \in P /\ n < MaxDepth => n + 1 \in P
        BY <1>2
    <2>2. QED BY <1>0, <1>1, <2>1, UpTo
<1>4. ASSUME NEW a \in 0 .. MaxDepth, NEW b \in 0 .. MaxDepth, a <= b PROVE f[a] \subseteq f[b]
    <2>1. a \in 0 .. b /\ b \in P
        BY <1>0, <1>3, <1>4
    <2>2. QED BY <2>1 DEF P
<1>5. QED BY <1>4

LEMMA NamedIsListed ==
    ASSUME NEW i, NEW q \in Seq(Rows), Chained(q, i), Len(q) <= MaxDepth, cat[q[1]].parent = Top,
           \A k \in DOMAIN q : q[k] \in Navigable
    PROVE  i \in Listed
<1>0. MaxDepth \in Nat
    BY CategoriesAssumption
<1>1. PICK f : Levels(f) /\ Listed = f[MaxDepth]
    BY ListedGrows DEF Levels
<1>2. PICK L \in Nat : L = Len(q)
    OBVIOUS
<1>3. L >= 1 /\ L <= MaxDepth /\ q[L] = i /\ \A k \in 1 .. L : q[k] \in Navigable
    BY <1>2 DEF Chained
<1> DEFINE P == {n \in 0 .. L : n = 0 \/ q[n] \in f[n]}
<1>4. 0 \in P
    BY <1>2
<1>5. ASSUME NEW n \in 0 .. L, n \in P, n < L PROVE n + 1 \in P
    <2>1. n + 1 \in 1 .. L /\ n + 1 \in 1 .. MaxDepth /\ n + 1 - 1 = n /\ n + 1 \in 0 .. L
        BY <1>0, <1>2, <1>3, <1>5
    <2>2. f[n + 1] = Lower(f[n])
        BY <1>1, <2>1 DEF Levels
    <2>3. q[n + 1] \in Navigable
        BY <1>3, <2>1
    <2>4. cat[q[n + 1]].parent \in {Top} \cup f[n]
        <3>1. CASE n = 0
            BY <3>1
        <3>2. CASE n # 0
            <4>1. n \in 1 .. Len(q) - 1
                BY <1>2, <1>5, <3>2
            <4>2. cat[q[n + 1]].parent = q[n]
                BY <4>1 DEF Chained
            <4>3. QED BY <1>5, <3>2, <4>2
        <3>3. QED BY <3>1, <3>2
    <2>5. q[n + 1] \in f[n + 1]
        BY <2>2, <2>3, <2>4 DEF Lower
    <2>6. QED BY <2>1, <2>5
<1> HIDE DEF P
<1>6. L \in P
    <2>1. \A n \in 0 .. L : n \in P /\ n < L => n + 1 \in P
        BY <1>5
    <2>2. \A n \in 0 .. L : n \in P
        BY <1>2, <1>4, <2>1, UpTo
    <2>3. QED BY <1>2, <2>2
<1>7. i \in f[L]
    BY <1>2, <1>3, <1>6 DEF P
<1>8. L \in 0 .. MaxDepth /\ MaxDepth \in 0 .. MaxDepth /\ L <= MaxDepth
    BY <1>0, <1>2, <1>3
<1>9. f[L] \subseteq f[MaxDepth]
    BY <1>1, <1>8, LevelsGrow
<1>10. QED BY <1>1, <1>7, <1>9

(* The level a category gets on, and its parent's.                          *)
GetsOn(f, j, m) == m \in 1 .. MaxDepth /\ j \in f[m] /\ j \notin f[m - 1]

LEMMA ParentGetsOn ==
    ASSUME NEW f, Levels(f), NEW j, NEW m, GetsOn(f, j, m)
    PROVE  /\ j \in Navigable
           /\ m = 1 => cat[j].parent = Top
           /\ m # 1 => GetsOn(f, cat[j].parent, m - 1)
<1>0. MaxDepth \in Nat
    BY CategoriesAssumption
<1>1. m \in 1 .. MaxDepth /\ m - 1 \in 0 .. MaxDepth /\ j \in f[m] /\ j \notin f[m - 1]
    BY <1>0 DEF GetsOn
<1>2. f[m] = Lower(f[m - 1])
    BY <1>1 DEF Levels
<1>3. j \in Navigable /\ cat[j].parent \in {Top} \cup f[m - 1]
    BY <1>1, <1>2 DEF Lower
<1>4. ASSUME m = 1 PROVE cat[j].parent = Top
    <2>1. f[m - 1] = {}
        BY <1>4 DEF Levels
    <2>2. QED BY <1>3, <2>1
<1>5. ASSUME m # 1 PROVE GetsOn(f, cat[j].parent, m - 1)
    <2>1. m - 1 \in 1 .. MaxDepth
        BY <1>0, <1>1, <1>5
    <2>2. f[m - 1] = Lower(f[m - 1 - 1])
        BY <2>1 DEF Levels
    <2>3. cat[j].parent \notin {Top} \cup f[m - 1 - 1]
        BY <1>1, <1>3, <2>2 DEF Lower
    <2>4. QED BY <1>3, <2>1, <2>3 DEF GetsOn
<1>6. QED BY <1>3, <1>4, <1>5

LEMMA GetsOnOnce ==
    ASSUME NEW f, Levels(f), NEW j, NEW m, NEW n, GetsOn(f, j, m), GetsOn(f, j, n)
    PROVE  m = n
<1>0. MaxDepth \in Nat
    BY CategoriesAssumption
<1>1. /\ m \in 1 .. MaxDepth /\ j \in f[m] /\ j \notin f[m - 1]
      /\ n \in 1 .. MaxDepth /\ j \in f[n] /\ j \notin f[n - 1]
    BY DEF GetsOn
<1>2. \A a, b \in 0 .. MaxDepth : a <= b => f[a] \subseteq f[b]
    BY LevelsGrow
<1>3. ~(m <= n - 1)
    BY <1>0, <1>1, <1>2
<1>4. ~(n <= m - 1)
    BY <1>0, <1>1, <1>2
<1>5. QED BY <1>0, <1>1, <1>3, <1>4

(* Each of the first L categories of a path is a level below the one before. *)
Ranked(f, q, r) ==
    \A k \in 1 .. Len(q) : GetsOn(f, q[k], r - Len(q) + k)

LEMMA ListedIsNamed ==
    ASSUME CategoriesTypeOk, NEW i \in Navigable, i \in Listed
    PROVE  LET q == Fullname(i, Used) IN
           Len(q) <= MaxDepth /\ cat[q[1]].parent = Top /\ \A k \in DOMAIN q : q[k] \in Navigable
<1>0. /\ MaxDepth \in Nat /\ Navigable \subseteq Used /\ Used \subseteq Rows
      /\ i \in Rows /\ Top \notin Rows
    <2>1. Navigable \subseteq Used /\ Used \subseteq Rows
        BY DEF Used, Navigable
    <2>2. Top \notin CatIds /\ Rows \subseteq CatIds
        BY IdFacts, RowType
    <2>3. QED BY CategoriesAssumption, <2>1, <2>2
<1>1. PICK f : Levels(f) /\ Listed = f[MaxDepth]
    BY ListedGrows DEF Levels
<1>2. PICK g \in [0 .. MaxDepth -> Seq(Rows)] :
         /\ g[0] = <<i>> /\ \A n \in 1 .. MaxDepth : g[n] = Climb(Used, g[n - 1])
         /\ Fullname(i, Used) = g[MaxDepth]
    BY <1>0, FullnameGrows
<1>3. PICK r \in 1 .. MaxDepth : GetsOn(f, i, r)
    <2> DEFINE S == {n \in 0 .. MaxDepth : i \in f[n]}
    <2>1. S \in SUBSET Nat /\ MaxDepth \in S
        BY <1>0, <1>1
    <2>2. PICK r \in S : \A m \in S : r <= m
        BY <2>1, LeastNumber
    <2>3. r # 0
        BY <1>1, <2>2 DEF Levels
    <2>4. r \in 1 .. MaxDepth /\ r - 1 \in 0 .. MaxDepth /\ ~(r <= r - 1)
        BY <1>0, <2>2, <2>3
    <2>5. QED BY <2>2, <2>4 DEF GetsOn
<1>4. r \in Nat /\ r >= 1 /\ r <= MaxDepth
    BY <1>0, <1>3
<1> DEFINE Far(n) == IF n + 1 <= r THEN n + 1 ELSE r
           P == {n \in 0 .. MaxDepth : Len(g[n]) = Far(n) /\ Ranked(f, g[n], r)}
<1>5. 0 \in P
    <2>1. Len(g[0]) = 1 /\ g[0][1] = i /\ Far(0) = 1
        BY <1>2, <1>4
    <2>2. \A k \in 1 .. 1 : k = 1 /\ r - 1 + k = r
        BY <1>4
    <2>3. Ranked(f, g[0], r)
        BY <1>3, <2>1, <2>2 DEF Ranked
    <2>4. QED BY <1>0, <2>1, <2>3
<1>6. ASSUME NEW n \in 0 .. MaxDepth, n \in P, n < MaxDepth PROVE n + 1 \in P
    <2>1. n + 1 \in 1 .. MaxDepth /\ n + 1 - 1 = n /\ n + 1 \in 0 .. MaxDepth
        BY <1>0, <1>6
    <2>2. PICK q : q = g[n]
        OBVIOUS
    <2>3. q \in Seq(Rows) /\ g[n + 1] = Climb(Used, q) /\ Len(q) = Far(n) /\ Ranked(f, q, r)
        BY <1>2, <1>6, <2>1, <2>2
    <2>4. PICK up : up = cat[q[1]].parent
        OBVIOUS
    <2>5. Len(q) \in Nat /\ Len(q) >= 1 /\ Len(q) <= r
        BY <1>4, <2>1, <2>3
    <2>6. GetsOn(f, q[1], r - Len(q) + 1)
        BY <2>3, <2>5 DEF Ranked
    <2>7. CASE Len(q) = r
        <3>1. r - Len(q) + 1 = 1
            BY <1>4, <2>7
        <3>2. up = Top
            BY <1>1, <2>4, <2>6, <3>1, ParentGetsOn
        <3>3. Climb(Used, q) = q
            BY <1>0, <2>4, <3>2 DEF Climb
        <3>4. Far(n + 1) = r
            BY <1>4, <2>1, <2>3, <2>7
        <3>5. QED BY <2>1, <2>3, <2>7, <3>3, <3>4
    <2>8. CASE Len(q) # r
        <3>1. r - Len(q) + 1 # 1 /\ r - Len(q) + 1 - 1 = r - Len(q)
            BY <1>4, <2>5, <2>8
        <3>2. GetsOn(f, up, r - Len(q))
            BY <1>1, <2>4, <2>6, <3>1, ParentGetsOn
        <3>3. up \in Used /\ up \in Rows
            BY <1>0, <1>1, <3>2, ParentGetsOn
        <3>4. \A k \in DOMAIN q : q[k] # up
            <4> SUFFICES ASSUME NEW k \in DOMAIN q, q[k] = up PROVE FALSE
                OBVIOUS
            <4>1. k \in 1 .. Len(q)
                BY <2>3
            <4>2. GetsOn(f, up, r - Len(q) + k)
                BY <2>3, <4>1 DEF Ranked
            <4>3. r - Len(q) = r - Len(q) + k
                BY <1>1, <3>2, <4>2, GetsOnOnce
            <4>4. QED BY <1>4, <2>5, <4>1, <4>3
        <3>5. PICK w : w = <<up>> \o q
            OBVIOUS
        <3>6. Climb(Used, q) = w
            BY <2>4, <3>3, <3>4, <3>5 DEF Climb
        <3>7. /\ w \in Seq(Rows) /\ Len(w) = Len(q) + 1 /\ w[1] = up
              /\ \A k \in 1 .. Len(q) : w[k + 1] = q[k]
            BY <2>3, <2>5, <3>3, <3>5, Prepended
        <3>8. ASSUME NEW k \in 1 .. Len(w) PROVE GetsOn(f, w[k], r - Len(w) + k)
            <4>1. CASE k = 1
                <5>1. r - Len(w) + k = r - Len(q)
                    BY <1>4, <2>5, <3>7, <4>1
                <5>2. QED BY <3>2, <3>7, <4>1, <5>1
            <4>2. CASE k # 1
                <5>1. k - 1 \in 1 .. Len(q) /\ k - 1 + 1 = k /\ r - Len(w) + k = r - Len(q) + (k - 1)
                    BY <1>4, <2>5, <3>7, <4>2
                <5>2. w[k] = q[k - 1]
                    BY <3>7, <5>1
                <5>3. GetsOn(f, q[k - 1], r - Len(q) + (k - 1))
                    BY <2>3, <5>1 DEF Ranked
                <5>4. QED BY <5>1, <5>2, <5>3
            <4>3. QED BY <4>1, <4>2
        <3>9. Len(w) = Far(n + 1)
            BY <1>4, <2>1, <2>3, <2>5, <2>8, <3>7
        <3>10. Ranked(f, w, r)
            BY <3>8 DEF Ranked
        <3>11. QED BY <2>1, <2>3, <3>6, <3>9, <3>10
    <2>9. QED BY <2>7, <2>8
<1> HIDE DEF P
<1>7. MaxDepth \in P
    <2>1. \A n \in 0 .. MaxDepth : n \in P /\ n < MaxDepth => n + 1 \in P
        BY <1>6
    <2>2. \A n \in 0 .. MaxDepth : n \in P
        BY <1>0, <1>5, <2>1, UpTo
    <2>3. QED BY <1>0, <2>2
<1>8. PICK q : q = Fullname(i, Used)
    OBVIOUS
<1>9. q \in Seq(Rows) /\ Len(q) = r /\ Ranked(f, q, r)
    BY <1>0, <1>2, <1>4, <1>7, <1>8 DEF P
<1>10. \A k \in DOMAIN q : q[k] \in Navigable
    <2> TAKE k \in DOMAIN q
    <2>1. k \in 1 .. Len(q)
        BY <1>9
    <2>2. GetsOn(f, q[k], r - Len(q) + k)
        BY <1>9, <2>1 DEF Ranked
    <2>3. QED BY <1>1, <2>2, ParentGetsOn
<1>11. cat[q[1]].parent = Top
    <2>1. 1 \in 1 .. Len(q) /\ r - Len(q) + 1 = 1
        BY <1>4, <1>9
    <2>2. GetsOn(f, q[1], 1)
        BY <1>9, <2>1 DEF Ranked
    <2>3. QED BY <1>1, <2>2, ParentGetsOn
<1>12. QED BY <1>4, <1>8, <1>9, <1>10, <1>11

(* On any table the two walks agree.                                        *)
LEMMA WalksAgree == CategoriesTypeOk => SidebarFollowsFullname
<1> SUFFICES ASSUME CategoriesTypeOk, NEW i \in Navigable
             PROVE  i \in Listed <=>
                       LET q == Fullname(i, Used) IN
                       Len(q) <= MaxDepth /\ cat[q[1]].parent = Top /\ \A k \in DOMAIN q : q[k] \in Navigable
    BY DEF SidebarFollowsFullname, BuildRefs
<1>1. PICK q : q = Fullname(i, Used)
    OBVIOUS
<1>2. i \in Rows /\ Used \in SUBSET Rows
    BY DEF Used, Navigable
<1>3. q \in Seq(Rows) /\ Chained(q, i)
    BY <1>1, <1>2, FullnameChained
<1>4. ASSUME Len(q) <= MaxDepth, cat[q[1]].parent = Top, \A k \in DOMAIN q : q[k] \in Navigable
      PROVE  i \in Listed
    BY <1>3, <1>4, NamedIsListed
<1>5. QED BY <1>1, <1>4, ListedIsNamed

(* The first parent decides whether a name is more than the row itself.     *)
LEMMA NameStays ==
    ASSUME NEW i \in Rows, NEW all \in SUBSET Rows
    PROVE  Fullname(i, all) = <<i>> <=> cat[i].parent \notin all \ {i}
<1>0. MaxDepth \in Nat /\ MaxDepth # 0 /\ MaxDepth \in 0 .. MaxDepth
    <2>1. MaxDepth \in Nat \ {0}
        BY CategoriesAssumption
    <2>2. QED BY <2>1
<1>1. PICK f \in [0 .. MaxDepth -> Seq(Rows)] :
         /\ f[0] = <<i>> /\ \A n \in 1 .. MaxDepth : f[n] = Climb(all, f[n - 1])
         /\ Fullname(i, all) = f[MaxDepth]
    BY FullnameGrows
<1>2. PICK up : up = cat[i].parent
    OBVIOUS
<1>3. PICK one : one = <<i>>
    OBVIOUS
<1>4. one \in Seq(Rows) /\ Len(one) = 1 /\ one[1] = i /\ DOMAIN one = {1}
    BY <1>3
<1>5. CASE up \notin all \ {i}
    <2>1. Climb(all, one) = one
        BY <1>2, <1>4, <1>5 DEF Climb
    <2> DEFINE P == {n \in 0 .. MaxDepth : f[n] = one}
    <2>2. 0 \in P
        BY <1>0, <1>1, <1>3
    <2>3. ASSUME NEW n \in 0 .. MaxDepth, n \in P, n < MaxDepth PROVE n + 1 \in P
        <3>1. n + 1 \in 1 .. MaxDepth /\ n + 1 - 1 = n /\ n + 1 \in 0 .. MaxDepth
            BY <1>0, <2>3
        <3>2. f[n + 1] = Climb(all, one)
            BY <1>1, <2>3, <3>1
        <3>3. QED BY <2>1, <3>1, <3>2
    <2>4. \A n \in 0 .. MaxDepth : n \in P /\ n < MaxDepth => n + 1 \in P
        BY <2>3
    <2> HIDE DEF P
    <2>5. MaxDepth \in P
        BY <1>0, <2>2, <2>4, UpTo
    <2>6. QED BY <1>1, <1>2, <1>3, <1>5, <2>5 DEF P
<1>6. CASE up \in all \ {i}
    <2>1. Climb(all, one) = <<up>> \o one
        BY <1>2, <1>4, <1>6 DEF Climb
    <2> DEFINE P == {n \in 0 .. MaxDepth : n = 0 \/ Len(f[n]) >= 2}
    <2>2. 0 \in P
        BY <1>0
    <2>3. ASSUME NEW n \in 0 .. MaxDepth, n \in P, n < MaxDepth PROVE n + 1 \in P
        <3>1. n + 1 \in 1 .. MaxDepth /\ n + 1 - 1 = n /\ n + 1 \in 0 .. MaxDepth
            BY <1>0, <2>3
        <3>2. PICK q : q = f[n]
            OBVIOUS
        <3>3. q \in Seq(Rows) /\ f[n + 1] = Climb(all, q)
            BY <1>1, <2>3, <3>1, <3>2
        <3>4. CASE n = 0
            <4>1. q = one
                BY <1>1, <1>3, <3>2, <3>4
            <4>2. PICK w : w = <<up>> \o one
                OBVIOUS
            <4>3. up \in Rows /\ Len(one) >= 1
                BY <1>4, <1>6
            <4>4. Len(w) = Len(one) + 1
                BY <1>4, <4>2, <4>3, Prepended
            <4>5. f[n + 1] = w /\ Len(w) >= 2
                BY <1>4, <2>1, <3>3, <4>1, <4>2, <4>4
            <4>6. QED BY <3>1, <4>5
        <3>5. CASE n # 0
            <4>1. Len(q) >= 2 /\ Len(q) \in Nat
                BY <2>3, <3>2, <3>3, <3>5
            <4>2. CASE Climb(all, q) = q
                BY <3>1, <3>3, <4>1, <4>2
            <4>3. CASE Climb(all, q) # q
                <5>1. PICK x : x = cat[q[1]].parent
                    OBVIOUS
                <5>2. x \in Rows /\ Climb(all, q) = <<x>> \o q
                    BY <4>3, <5>1 DEF Climb
                <5>3. Len(<<x>> \o q) = Len(q) + 1
                    BY <3>3, <4>1, <5>2, Prepended
                <5>4. QED BY <3>1, <3>3, <4>1, <5>2, <5>3
            <4>4. QED BY <4>2, <4>3
        <3>6. QED BY <3>4, <3>5
    <2>4. \A n \in 0 .. MaxDepth : n \in P /\ n < MaxDepth => n + 1 \in P
        BY <2>3
    <2> HIDE DEF P
    <2>5. MaxDepth \in P
        BY <1>0, <2>2, <2>4, UpTo
    <2>6. Len(f[MaxDepth]) >= 2
        BY <1>0, <2>5 DEF P
    <2>7. f[MaxDepth] # one
        <3>1. PICK q : q = f[MaxDepth]
            OBVIOUS
        <3>2. Len(q) >= 2 /\ Len(one) = 1
            BY <1>4, <2>6, <3>1
        <3>3. ~(1 >= 2)
            OBVIOUS
        <3>4. q # one
            BY <3>2, <3>3, Zenon
        <3>5. QED BY <3>1, <3>4
    <2>8. QED BY <1>1, <1>2, <1>3, <1>6, <2>7
<1>7. QED BY <1>5, <1>6

(* The map of a served page has no parent to add.                           *)
LEMMA ParentsDrop == RouteDropsParents
<1> SUFFICES ASSUME NEW i \in Rows
             PROVE  /\ Fullname(i, RouteRefs(i)) = <<i>>
                    /\ Fullname(i, BuildRefs) = <<i>> <=> cat[i].parent \notin Used \ {i}
    BY DEF RouteDropsParents
<1>1. i \in Rows /\ Used \in SUBSET Rows
    BY DEF Used
<1>2. RouteRefs(i) \in SUBSET Rows /\ RouteRefs(i) \ {i} = {}
    BY <1>1 DEF RouteRefs
<1>3. Fullname(i, RouteRefs(i)) = <<i>>
    BY <1>1, <1>2, NameStays
<1>4. Fullname(i, Used) = <<i>> <=> cat[i].parent \notin Used \ {i}
    BY <1>1, NameStays
<1>5. QED BY <1>3, <1>4 DEF BuildRefs

(* A slug that is in the table once leads to its row.                       *)
LEMMA KeysResolve == CategoriesTypeOk /\ RowsOk => WordPermalinksResolve
<1> SUFFICES ASSUME CategoriesTypeOk, RowsOk, NEW i \in Rows,
                    cat[i].slug \notin {s \in Slugs : NumberOf[s] > 0}
             PROVE  Resolved(i) = {i}
    BY DEF WordPermalinksResolve
<1>1. cat[i].slug \in Slugs \cup {""} /\ i \in Int /\ i > 0
    <2>1. cat[i] \in CatRow /\ i \in CatIds
        BY RowType
    <2>2. MaxCategories \in Nat /\ CatIds = 1 .. MaxCategories
        BY Numbers
    <2>3. i \in Int /\ i > 0
        BY <2>1, <2>2
    <2>4. cat[i].slug \in Slugs \cup {""}
        BY <2>1, IdFacts
    <2>5. QED BY <2>3, <2>4
<1>2. CASE cat[i].slug = ""
    BY <1>1, <1>2 DEF Resolved
<1>3. CASE cat[i].slug # ""
    <2>1. cat[i].slug \in Slugs /\ ~(NumberOf[cat[i].slug] > 0)
        BY <1>1, <1>3
    <2>2. Resolved(i) = {j \in Rows : cat[j].slug = cat[i].slug}
        BY <1>3, <2>1 DEF Resolved
    <2>3. \A j \in Rows : cat[j].slug = cat[i].slug => j = i
        BY <1>3 DEF RowsOk
    <2>4. QED BY <2>2, <2>3
<1>4. QED BY <1>2, <1>3

(***************************************************************************)
(* Through every edit, for any tree and any depth cap: renderCategoryTree  *)
(* lists what the categoryFullname of a build says it should; a category   *)
(* has the same full name on a page that is built and on one that is served*)
(* only without a parent that has entries; and a key leads to its category.*)
(***************************************************************************)
THEOREM CategoriesAreReached == CategoriesSpec => []CategoriesReachable
<1>1. TreeInv => CategoriesReachable
    BY WalksAgree, ParentsDrop, KeysResolve DEF TreeInv, CategoriesReachable
<1>2. QED BY <1>1, TreeAlways, PTL

-----------------------------------------------------------------------------
(* A group is never hidden and in no group.                                 *)
LinkSound(row) == row.kind = "group" => row.parent = 0 /\ row.hidden = FALSE

(* The parent of a row is a group, unless a late save wrote the row.        *)
LinkOk(i) ==
    /\ i < nextLink /\ LinkSound(link[i])
    /\ i \notin adrift /\ link[i].parent # 0 =>
          link[i].parent \in AllLinks /\ IsGroup(link[i].parent)

LinkRowInv == \A i \in AllLinks : LinkOk(i)

(* A save knows the kind of its row, which never changes, and unless it is  *)
(* late the parent it looked up still is a group.                           *)
LinkSaveOk(s) ==
    /\ s.pc # "none" => s.row.kind \in LinkKinds /\ LinkSound(s.row)
    /\ s.pc \in {"check", "write"} => s.id \in LinkIds /\ s.id < nextLink
    /\ s.pc \in {"check", "write"} /\ s.id \in AllLinks =>
          link[s.id].kind = s.row.kind
    /\ s.pc \in {"max", "insert", "write"} /\ ~s.late /\ s.row.parent # 0 =>
          s.row.parent \in AllLinks /\ IsGroup(s.row.parent)

LinkSaveInv == \A c \in Clients : LinkSaveOk(saving[c])

(* What is put in order is there.                                           *)
PlaceInv ==
    \A p \in arranged :
        /\ p[1] \in AllLinks /\ p[2] \in AllLinks
        /\ link[p[1]].order < link[p[2]].order

-----------------------------------------------------------------------------
LEMMA NoLinkType == NoLink \in LinkRow
    BY DEF NoLink, LinkRow

LEMMA NoSaveType == NoSave \in LinkSave
    BY NoLinkType DEF NoSave, LinkSave

LEMMA LinksTypeInit == LinksInit => LinksTypeOk
    BY NoLinkType, NoSaveType, LinksAssumption DEF LinksInit, LinksTypeOk

(* What the form and the lookup of its group make is a row.                 *)
LEMMA ParsedType ==
    ASSUME LinksTypeOk, NEW kind \in LinkKinds, NEW order \in Nat,
           NEW row \in ParseLinkForm(kind, order)
    PROVE  row \in LinkRow /\ row.kind = kind /\ row.order = order /\ LinkSound(row)
<1>1. /\ row.kind = kind /\ row.order = order
      /\ row.parent \in IF kind = "group" THEN {0} ELSE 0 .. nextLink - 1
      /\ row.hidden \in IF kind = "group" THEN {FALSE} ELSE BOOLEAN
      /\ row = [kind |-> row.kind, order |-> row.order,
                parent |-> row.parent, hidden |-> row.hidden]
    BY DEF ParseLinkForm
<1>2. row.parent \in LinkIds \cup {0} /\ row.hidden \in BOOLEAN
    <2>1. row.hidden \in BOOLEAN
        BY <1>1
    <2>2. row.parent \in 0 .. nextLink - 1 \/ row.parent = 0
        BY <1>1
    <2>3. row.parent \in LinkIds \cup {0}
        BY <2>2, LinksAssumption DEF LinksTypeOk, LinkIds
    <2>4. QED BY <2>1, <2>3
<1>3. row \in LinkRow
    BY <1>1, <1>2 DEF LinkRow
<1>4. LinkSound(row)
    BY <1>1 DEF LinkSound
<1>5. QED BY <1>1, <1>3, <1>4

LEMMA GroupedRow ==
    ASSUME NEW row \in LinkRow
    PROVE  /\ Grouped(row) \in LinkRow
           /\ Grouped(row).kind = row.kind /\ Grouped(row).order = row.order
           /\ Grouped(row).hidden = row.hidden
           /\ LinkSound(row) => LinkSound(Grouped(row))
           /\ Grouped(row).parent # 0 => IsGroup(Grouped(row).parent)
    BY DEF Grouped, LinkRow, LinkSound

(* A place is a position of the list.                                       *)
LEMMA PlaceType ==
    ASSUME NEW ids \in Payloads, NEW i \in Range(ids)
    PROVE  Place(ids, i) \in Nat \ {0} /\ ids[Place(ids, i)] = i
<1>1. PICK n \in 2 .. MaxShown : ids \in [1 .. n -> 1 .. nextLink - 1]
    BY DEF Payloads, Injection
<1>2. \E k \in DOMAIN ids : ids[k] = i
    BY DEF Range
<1>3. Place(ids, i) \in DOMAIN ids /\ ids[Place(ids, i)] = i
    BY <1>2 DEF Place
<1>4. DOMAIN ids \subseteq Nat \ {0}
    BY <1>1, LinksAssumption
<1>5. QED BY <1>3, <1>4

LEMMA LinksTypeStep == LinksTypeOk /\ [LinksNext]_linksVars => LinksTypeOk'
<1> SUFFICES ASSUME LinksTypeOk, [LinksNext]_linksVars PROVE LinksTypeOk'
    OBVIOUS
<1> USE LinksAssumption
<1>1. ASSUME NEW c \in Clients, LinkCreate(c) PROVE LinksTypeOk'
    <2>0. PICK kind \in LinkKinds : \E row \in ParseLinkForm(kind, 0) :
             saving' = [saving EXCEPT ![c] =
                [NoSave EXCEPT !.pc = "max", !.row = Grouped(row)]]
        BY <1>1 DEF LinkCreate
    <2>1. PICK row \in ParseLinkForm(kind, 0) :
             saving' = [saving EXCEPT ![c] =
                [NoSave EXCEPT !.pc = "max", !.row = Grouped(row)]]
        BY <2>0
    <2>2. Grouped(row) \in LinkRow
        BY ParsedType, GroupedRow
    <2>3. [NoSave EXCEPT !.pc = "max", !.row = Grouped(row)] \in LinkSave
        BY <2>2, NoSaveType DEF LinkSave
    <2>4. QED BY <1>1, <2>1, <2>3 DEF LinkCreate, LinksTypeOk
<1>2. ASSUME NEW c \in Clients, SelectMax(c) PROVE LinksTypeOk'
    <2>1. PICK top \in {0} \cup {link[i].order : i \in AllLinks} :
             saving' = [saving EXCEPT ![c].pc = "insert", ![c].row.order = top + 1]
        BY <1>2 DEF SelectMax
    <2>2. top \in Nat
        BY DEF LinksTypeOk, AllLinks, LinkRow
    <2> DEFINE row == [saving[c].row EXCEPT !.order = top + 1]
    <2>3. saving' = [saving EXCEPT ![c] = [saving[c] EXCEPT !.pc = "insert", !.row = row]]
        BY <2>1 DEF LinksTypeOk, LinkSave
    <2>4. row \in LinkRow
        BY <2>2 DEF LinksTypeOk, LinkSave, LinkRow
    <2> HIDE DEF row
    <2>5. saving' \in [Clients -> LinkSave]
        BY <2>3, <2>4 DEF LinksTypeOk, LinkSave
    <2>6. QED BY <1>2, <2>5 DEF SelectMax, LinksTypeOk
<1>3. ASSUME NEW c \in Clients, CreateLink(c) PROVE LinksTypeOk'
    <2>1. nextLink \in LinkIds /\ saving[c].row \in LinkRow
        BY <1>3 DEF CreateLink, LinksTypeOk, LinkIds, LinkSave
    <2>2. link' \in [LinkIds -> LinkRow] /\ nextLink' \in 1 .. MaxLinks + 1
        BY <1>3, <2>1 DEF CreateLink, LinksTypeOk
    <2>3. saving' \in [Clients -> LinkSave]
        BY <1>3, NoSaveType DEF CreateLink, LinksTypeOk
    <2>4. adrift' \subseteq LinkIds
        BY <1>3, <2>1 DEF CreateLink, Drift, LinksTypeOk
    <2>5. QED BY <1>3, <2>2, <2>3, <2>4 DEF CreateLink, LinksTypeOk
<1>4. ASSUME NEW c \in Clients, LinkUpdate(c) PROVE LinksTypeOk'
    <2>0. PICK i \in AllLinks : \E row \in ParseLinkForm(link[i].kind, link[i].order) :
             saving' = [saving EXCEPT ![c] =
                [NoSave EXCEPT !.pc = "check", !.id = i, !.row = row]]
        BY <1>4 DEF LinkUpdate
    <2>1. PICK row \in ParseLinkForm(link[i].kind, link[i].order) :
             saving' = [saving EXCEPT ![c] =
                [NoSave EXCEPT !.pc = "check", !.id = i, !.row = row]]
        BY <2>0
    <2>2. i \in LinkIds /\ link[i].kind \in LinkKinds /\ link[i].order \in Nat
        BY DEF AllLinks, LinksTypeOk, LinkRow
    <2>3. row \in LinkRow
        BY <2>2, ParsedType
    <2>4. [NoSave EXCEPT !.pc = "check", !.id = i, !.row = row] \in LinkSave
        BY <2>2, <2>3, NoSaveType DEF LinkSave
    <2>5. QED BY <1>4, <2>1, <2>4 DEF LinkUpdate, LinksTypeOk
<1>5. ASSUME NEW c \in Clients, CheckGroup(c) PROVE LinksTypeOk'
    <2>1. Grouped(saving[c].row) \in LinkRow
        BY GroupedRow DEF LinksTypeOk, LinkSave
    <2>2. saving' \in [Clients -> LinkSave]
        BY <1>5, <2>1 DEF CheckGroup, LinksTypeOk, LinkSave
    <2>3. QED BY <1>5, <2>2 DEF CheckGroup, LinksTypeOk
<1>6. ASSUME NEW c \in Clients, UpdateLink(c) PROVE LinksTypeOk'
    <2>1. saving' \in [Clients -> LinkSave]
        BY <1>6, NoSaveType DEF UpdateLink, LinksTypeOk
    <2>2. CASE saving[c].id \in AllLinks
        <3>1. SavedLink(saving[c].row, saving[c].id) \in LinkRow
            BY <2>2 DEF SavedLink, LinksTypeOk, LinkSave, LinkRow, AllLinks
        <3>2. link' \in [LinkIds -> LinkRow] /\ nextLink' = nextLink
            BY <1>6, <2>2, <3>1 DEF UpdateLink, LinksTypeOk
        <3>3. adrift' \subseteq LinkIds /\ arranged' \subseteq LinkIds \X LinkIds
            BY <1>6, <2>2 DEF UpdateLink, Drift, Without, LinksTypeOk, AllLinks
        <3>4. QED BY <2>1, <3>2, <3>3 DEF LinksTypeOk
    <2>3. CASE saving[c].id \notin AllLinks
        BY <1>6, <2>1, <2>3 DEF UpdateLink, LinksTypeOk
    <2>4. QED BY <2>2, <2>3
<1>7. ASSUME NEW i \in LinkIds, DeleteLink(i) PROVE LinksTypeOk'
    <2>1. \A j \in LinkIds : Detached(link[j], i) \in LinkRow
        BY DEF Detached, LinksTypeOk, LinkRow
    <2>2. link' \in [LinkIds -> LinkRow]
        BY <1>7, <2>1, NoLinkType DEF DeleteLink
    <2>3. saving' \in [Clients -> LinkSave]
        BY <1>7 DEF DeleteLink, LinksTypeOk, LinkSave
    <2>4. QED BY <1>7, <2>2, <2>3 DEF DeleteLink, Without, LinksTypeOk
<1>8. ASSUME NEW ids \in Payloads, NEW matched \in SUBSET LinkIds, Renumber(ids, matched)
      PROVE  LinksTypeOk'
    <2> DEFINE moved == matched \cap Range(ids)
    <2>1. link' = [i \in LinkIds |->
                     IF i \in moved THEN [link[i] EXCEPT !.order = Place(ids, i) - 1]
                                    ELSE link[i]]
        BY <1>8 DEF Renumber
    <2>2. \A i \in moved : Place(ids, i) - 1 \in Nat
        BY PlaceType
    <2>3. link' \in [LinkIds -> LinkRow]
        BY <2>1, <2>2 DEF LinksTypeOk, LinkRow
    <2>4. arranged' \subseteq LinkIds \X LinkIds
        BY <1>8 DEF Renumber, Without, LinksTypeOk
    <2>5. QED BY <1>8, <2>3, <2>4 DEF Renumber, LinksTypeOk
<1>9. ASSUME NEW g \in LinkIds, LinkMemberReorder(g) PROVE LinksTypeOk'
    BY <1>8, <1>9 DEF LinkMemberReorder, ReorderLinksInGroup, AllLinks
<1>10. CASE LinkReorder
    BY <1>8, <1>10 DEF LinkReorder, ReorderLinks, AllLinks
<1>11. CASE UNCHANGED linksVars
    BY <1>11 DEF linksVars, LinksTypeOk
<1>12. QED BY <1>1, <1>2, <1>3, <1>4, <1>5, <1>6, <1>7, <1>9, <1>10, <1>11 DEF LinksNext

(***************************************************************************)
(* The saves, deletions and reorderings of links: every variable stays in  *)
(* its domain.                                                             *)
(***************************************************************************)
THEOREM LinksTypeCorrect == LinksSpec => []LinksTypeOk
    BY LinksTypeInit, LinksTypeStep, PTL DEF LinksSpec

-----------------------------------------------------------------------------
LinksInv == LinkRowInv /\ LinkSaveInv /\ PlaceInv

LEMMA LinksInvInit == LinksInit => LinksInv
    BY DEF LinksInit, LinksInv, LinkRowInv, LinkSaveInv, LinkSaveOk, PlaceInv, AllLinks, NoLink, NoSave

LEMMA GroupedGroup ==
    ASSUME LinksTypeOk, NEW row \in LinkRow
    PROVE  Grouped(row).parent # 0 => Grouped(row).parent \in AllLinks
    BY GroupedRow DEF IsGroup, AllLinks, Grouped, LinkRow

(* A request that has no row yet, or that only reads, disturbs no row.      *)
LEMMA StartedSave ==
    ASSUME LinksTypeOk, LinksInv, NEW c \in Clients, NEW s \in LinkSave, LinkSaveOk(s),
           saving' = [saving EXCEPT ![c] = s],
           UNCHANGED <<link, nextLink, adrift, arranged>>
    PROVE  LinksInv'
<1>1. LinkRowInv' /\ PlaceInv'
    BY DEF LinksInv, LinkRowInv, LinkOk, PlaceInv, AllLinks, IsGroup
<1>2. ASSUME NEW d \in Clients PROVE LinkSaveOk(saving[d])'
    <2>1. LinkSaveOk(saving'[d])
        BY DEF LinksTypeOk, LinksInv, LinkSaveInv
    <2>2. QED BY <2>1 DEF LinkSaveOk, AllLinks, IsGroup
<1>3. QED BY <1>1, <1>2 DEF LinksInv, LinkSaveInv

LEMMA LinkCreateStep ==
    ASSUME LinksTypeOk, LinksInv, NEW c \in Clients, CreateLink(c)
    PROVE  LinksInv'
<1> DEFINE row == saving[c].row
<1>1. /\ nextLink \in LinkIds /\ nextLink \notin AllLinks /\ nextLink' = nextLink + 1
      /\ nextLink \in Nat
    BY LinksAssumption DEF CreateLink, LinksTypeOk, LinkIds, LinksInv, LinkRowInv, LinkOk
<1>2. LinkSaveOk(saving[c]) /\ saving[c].pc = "insert" /\ row \in LinkRow
    BY DEF CreateLink, LinksTypeOk, LinkSave, LinksInv, LinkSaveInv
<1>3. /\ link' \in [LinkIds -> LinkRow] /\ link'[nextLink] = row
      /\ \A i \in AllLinks : i # nextLink /\ link'[i] = link[i]
      /\ AllLinks' = AllLinks \cup {nextLink}
    BY <1>1, <1>2 DEF CreateLink, LinksTypeOk, AllLinks, LinkSaveOk, LinkKinds
<1>4. LinkRowInv'
    <2> SUFFICES ASSUME NEW i \in AllLinks' PROVE LinkOk(i)'
        BY DEF LinkRowInv
    <2>1. CASE i = nextLink
        BY <1>1, <1>2, <1>3, <2>1 DEF CreateLink, Drift, LinkSaveOk, IsGroup, LinkOk, LinkSound
    <2>2. CASE i \in AllLinks
        <3>1. i < nextLink'
            BY <1>1, <2>2 DEF LinksInv, LinkRowInv, LinkOk, AllLinks, LinkIds
        <3>2. i \in adrift' <=> i \in adrift
            BY <1>1, <2>2 DEF CreateLink, Drift
        <3>3. QED BY <1>3, <2>2, <3>1, <3>2 DEF LinksInv, LinkRowInv, LinkOk, LinkSound, IsGroup
    <2>3. QED BY <1>3, <2>1, <2>2
<1>5. ASSUME NEW d \in Clients PROVE LinkSaveOk(saving[d])'
    <2>1. CASE d = c
        BY <2>1 DEF CreateLink, LinksTypeOk, LinkSaveOk, NoSave
    <2>2. CASE d # c
        <3>1. saving'[d] = saving[d] /\ LinkSaveOk(saving[d])
            BY <2>2 DEF CreateLink, LinksTypeOk, LinksInv, LinkSaveInv
        <3>2. saving[d].pc \in {"check", "write"} =>
                 saving[d].id \in Nat /\ saving[d].id # nextLink /\ saving[d].id < nextLink'
            BY <1>1, <3>1 DEF LinkSaveOk, LinkIds
        <3>3. QED BY <1>3, <3>1, <3>2 DEF LinkSaveOk, IsGroup, LinkSound
    <2>3. QED BY <2>1, <2>2
<1>6. PlaceInv'
    BY <1>3 DEF CreateLink, LinksInv, PlaceInv
<1>7. QED BY <1>4, <1>5, <1>6 DEF LinksInv, LinkSaveInv

LEMMA UpdateStep ==
    ASSUME LinksTypeOk, LinksInv, NEW c \in Clients, UpdateLink(c)
    PROVE  LinksInv'
<1> DEFINE i == saving[c].id  row == saving[c].row
<1>1. LinkSaveOk(saving[c]) /\ saving[c].pc = "write" /\ row \in LinkRow
    BY DEF UpdateLink, LinksTypeOk, LinkSave, LinksInv, LinkSaveInv
<1>2. LinkSaveOk(NoSave)
    BY DEF LinkSaveOk, NoSave
<1>3. CASE i \notin AllLinks
    BY <1>2, <1>3, StartedSave, NoSaveType DEF UpdateLink
<1>4. CASE i \in AllLinks
    <2>1. SavedLink(row, i) = row
        BY <1>1, <1>4 DEF SavedLink, LinkSaveOk, LinkRow
    <2>2. link' = [link EXCEPT ![i] = row] /\ i \in LinkIds
        BY <1>4, <2>1 DEF UpdateLink, AllLinks
    <2>3. /\ link'[i] = row /\ \A j \in LinkIds : j # i => link'[j] = link[j]
          /\ \A j \in LinkIds : link'[j].kind = link[j].kind
        BY <1>1, <1>4, <2>2 DEF LinkSaveOk, LinksTypeOk
    <2>4. AllLinks' = AllLinks /\ \A j \in AllLinks : IsGroup(j)' = IsGroup(j)
        BY <2>3 DEF AllLinks, IsGroup
    <2>5. LinkRowInv'
        <3> SUFFICES ASSUME NEW j \in AllLinks PROVE LinkOk(j)'
            BY <2>4 DEF LinkRowInv
        <3>1. CASE j = i
            BY <1>1, <1>4, <2>3, <2>4, <3>1
               DEF UpdateLink, Drift, LinkSaveOk, IsGroup, LinksInv, LinkRowInv, LinkOk, LinkSound, AllLinks
        <3>2. CASE j # i
            <4>1. link'[j] = link[j] /\ nextLink' = nextLink /\ (j \in adrift' <=> j \in adrift)
                BY <1>4, <2>3, <3>2 DEF UpdateLink, Drift, AllLinks
            <4>2. QED BY <2>4, <4>1 DEF LinksInv, LinkRowInv, LinkOk, LinkSound, IsGroup
        <3>3. QED BY <3>1, <3>2
    <2>6. ASSUME NEW d \in Clients PROVE LinkSaveOk(saving[d])'
        <3>1. LinkSaveOk(saving'[d])
            BY <1>2 DEF UpdateLink, LinksTypeOk, LinksInv, LinkSaveInv
        <3>2. QED BY <2>3, <2>4, <3>1 DEF LinkSaveOk, LinkSound, IsGroup, UpdateLink, AllLinks
    <2>7. PlaceInv'
        <3> SUFFICES ASSUME NEW p \in arranged'
                     PROVE  /\ p[1] \in AllLinks /\ p[2] \in AllLinks
                            /\ link'[p[1]].order < link'[p[2]].order
            BY <2>4 DEF PlaceInv
        <3>1. p \in arranged /\ (p[1] = i \/ p[2] = i => row.order = link[i].order)
            <4>1. arranged' = IF row.order = link[i].order THEN arranged ELSE Without({i})
                BY <1>4 DEF UpdateLink
            <4>2. QED BY <4>1 DEF Without
        <3>2. \A j \in AllLinks : j = p[1] \/ j = p[2] => link'[j].order = link[j].order
            BY <2>3, <3>1 DEF AllLinks
        <3>3. QED BY <3>1, <3>2 DEF LinksInv, PlaceInv
    <2>8. QED BY <2>5, <2>6, <2>7 DEF LinksInv, LinkSaveInv
<1>5. QED BY <1>3, <1>4

LEMMA LinkDeleteStep ==
    ASSUME LinksTypeOk, LinksInv, NEW i \in LinkIds, DeleteLink(i)
    PROVE  LinksInv'
<1>1. /\ link'[i] = NoLink
      /\ \A j \in LinkIds \ {i} :
            /\ link'[j].kind = link[j].kind /\ link'[j].hidden = link[j].hidden
            /\ link'[j].order = link[j].order
            /\ link'[j].parent = IF link[j].parent = i THEN 0 ELSE link[j].parent
    BY DEF DeleteLink, Detached, LinksTypeOk, LinkRow
<1>2. AllLinks' = AllLinks \ {i} /\ \A j \in AllLinks' : IsGroup(j)' = IsGroup(j)
    BY <1>1 DEF AllLinks, IsGroup, NoLink
<1>3. LinkRowInv'
    <2> SUFFICES ASSUME NEW j \in AllLinks' PROVE LinkOk(j)'
        BY DEF LinkRowInv
    <2>1. j \in AllLinks /\ j \in LinkIds \ {i} /\ LinkOk(j)
        BY <1>2 DEF AllLinks, LinksInv, LinkRowInv
    <2>2. nextLink' = nextLink /\ (j \in adrift' <=> j \in adrift)
        BY <2>1 DEF DeleteLink
    <2>3. j < nextLink' /\ LinkSound(link[j])'
        BY <1>1, <2>1, <2>2 DEF LinkOk, LinkSound
    <2>4. CASE j \notin adrift /\ link[j].parent # 0 /\ link[j].parent # i
        <3>1. link[j].parent \in AllLinks' /\ IsGroup(link[j].parent)
            BY <1>2, <2>1, <2>4 DEF LinkOk
        <3>2. link'[j].parent = link[j].parent
            BY <1>1, <2>1, <2>4
        <3>3. QED BY <1>2, <2>3, <3>1, <3>2 DEF LinkOk, IsGroup
    <2>5. CASE j \in adrift \/ link[j].parent = 0 \/ link[j].parent = i
        BY <1>1, <2>1, <2>2, <2>3, <2>5 DEF LinkOk
    <2>6. QED BY <2>4, <2>5
<1>4. ASSUME NEW c \in Clients PROVE LinkSaveOk(saving[c])'
    <2>1. /\ saving'[c].pc = saving[c].pc /\ saving'[c].id = saving[c].id
          /\ saving'[c].row = saving[c].row
          /\ ~saving'[c].late => ~saving[c].late
          /\ saving[c].pc \in {"max", "insert", "write"} /\ ~saving'[c].late =>
                saving[c].row.parent # i
        BY DEF DeleteLink, LinksTypeOk, LinkSave
    <2>2. LinkSaveOk(saving[c]) /\ nextLink' = nextLink
        BY DEF LinksInv, LinkSaveInv, DeleteLink
    <2>3. saving[c].pc \in {"check", "write"} /\ saving[c].id \in AllLinks' =>
             link'[saving[c].id].kind = saving[c].row.kind
        BY <1>1, <1>2, <2>2 DEF LinkSaveOk, AllLinks
    <2>4. saving[c].pc \in {"max", "insert", "write"} /\ ~saving'[c].late
             /\ saving[c].row.parent # 0 =>
             saving[c].row.parent \in AllLinks' /\ link'[saving[c].row.parent].kind = "group"
        BY <1>2, <2>1, <2>2 DEF LinkSaveOk, IsGroup
    <2>5. QED BY <2>1, <2>2, <2>3, <2>4 DEF LinkSaveOk, LinkSound, IsGroup
<1>5. PlaceInv'
    <2> SUFFICES ASSUME NEW p \in arranged'
                 PROVE  /\ p[1] \in AllLinks' /\ p[2] \in AllLinks'
                        /\ link'[p[1]].order < link'[p[2]].order
        BY DEF PlaceInv
    <2>1. p \in arranged /\ p[1] # i /\ p[2] # i
        BY DEF DeleteLink, Without
    <2>2. QED BY <1>1, <1>2, <2>1 DEF LinksInv, PlaceInv, AllLinks
<1>6. QED BY <1>3, <1>4, <1>5 DEF LinksInv, LinkSaveInv

(* Reordering touches the order alone, and the rows it moves end up as the  *)
(* list has them.                                                           *)
LEMMA RenumberStep ==
    ASSUME LinksTypeOk, LinksInv, NEW ids \in Payloads,
           NEW matched \in SUBSET AllLinks, Renumber(ids, matched)
    PROVE  LinksInv'
<1> DEFINE moved == matched \cap Range(ids)
<1>1. \A i \in LinkIds :
         /\ link'[i].kind = link[i].kind /\ link'[i].hidden = link[i].hidden
         /\ link'[i].parent = link[i].parent
         /\ link'[i].order = IF i \in moved THEN Place(ids, i) - 1 ELSE link[i].order
    BY DEF Renumber, LinksTypeOk, LinkRow
<1>2. AllLinks' = AllLinks /\ \A i \in AllLinks : IsGroup(i)' = IsGroup(i)
    BY <1>1 DEF AllLinks, IsGroup
<1>3. UNCHANGED <<nextLink, saving, adrift>>
    BY DEF Renumber
<1>4. ASSUME NEW i \in AllLinks PROVE LinkOk(i)'
    BY <1>1, <1>2, <1>3 DEF LinksInv, LinkRowInv, LinkOk, LinkSound, IsGroup, AllLinks
<1>5. ASSUME NEW c \in Clients PROVE LinkSaveOk(saving[c])'
    BY <1>1, <1>2, <1>3 DEF LinksInv, LinkSaveInv, LinkSaveOk, LinkSound, IsGroup, AllLinks
<1>6. PlaceInv'
    <2> SUFFICES ASSUME NEW p \in arranged'
                 PROVE  /\ p[1] \in AllLinks /\ p[2] \in AllLinks
                        /\ link'[p[1]].order < link'[p[2]].order
        BY <1>2 DEF PlaceInv
    <2>1. arranged' = Without(moved) \cup
             {q \in moved \X moved : Place(ids, q[1]) < Place(ids, q[2])}
        BY DEF Renumber
    <2>2. CASE p \in Without(moved)
        BY <1>1, <2>2 DEF Without, LinksInv, PlaceInv, AllLinks
    <2>3. CASE p \in {q \in moved \X moved : Place(ids, q[1]) < Place(ids, q[2])}
        <3>1. p[1] \in moved /\ p[2] \in moved /\ Place(ids, p[1]) < Place(ids, p[2])
            BY <2>3
        <3>2. Place(ids, p[1]) \in Nat /\ Place(ids, p[2]) \in Nat
            BY <3>1, PlaceType
        <3>3. link'[p[1]].order = Place(ids, p[1]) - 1 /\ link'[p[2]].order = Place(ids, p[2]) - 1
            BY <1>1, <3>1 DEF AllLinks
        <3>4. QED BY <3>1, <3>2, <3>3
    <2>4. QED BY <2>1, <2>2, <2>3
<1>7. QED BY <1>2, <1>4, <1>5, <1>6 DEF LinksInv, LinkRowInv, LinkSaveInv

LEMMA LinksInvStep == LinksTypeOk /\ LinksInv /\ [LinksNext]_linksVars => LinksInv'
<1> SUFFICES ASSUME LinksTypeOk, LinksInv, [LinksNext]_linksVars PROVE LinksInv'
    OBVIOUS
<1>1. ASSUME NEW c \in Clients, LinkCreate(c) PROVE LinksInv'
    <2>0. PICK kind \in LinkKinds : \E row \in ParseLinkForm(kind, 0) :
             saving' = [saving EXCEPT ![c] =
                [NoSave EXCEPT !.pc = "max", !.row = Grouped(row)]]
        BY <1>1 DEF LinkCreate
    <2>1. PICK row \in ParseLinkForm(kind, 0) :
             saving' = [saving EXCEPT ![c] =
                [NoSave EXCEPT !.pc = "max", !.row = Grouped(row)]]
        BY <2>0
    <2> DEFINE s == [NoSave EXCEPT !.pc = "max", !.row = Grouped(row)]
    <2>2. row \in LinkRow /\ row.kind = kind /\ LinkSound(row)
        BY ParsedType
    <2>3. /\ Grouped(row) \in LinkRow /\ Grouped(row).kind \in LinkKinds
          /\ LinkSound(Grouped(row))
          /\ Grouped(row).parent # 0 =>
                Grouped(row).parent \in AllLinks /\ IsGroup(Grouped(row).parent)
        BY <2>2, GroupedRow, GroupedGroup
    <2>4. s \in LinkSave /\ LinkSaveOk(s)
        BY <2>3, NoSaveType DEF LinkSave, LinkSaveOk, NoSave
    <2>5. QED BY <1>1, <2>1, <2>4, StartedSave DEF LinkCreate
<1>2. ASSUME NEW c \in Clients, SelectMax(c) PROVE LinksInv'
    <2>1. PICK top \in {0} \cup {link[i].order : i \in AllLinks} :
             saving' = [saving EXCEPT ![c].pc = "insert", ![c].row.order = top + 1]
        BY <1>2 DEF SelectMax
    <2>2. top + 1 \in Nat
        BY DEF LinksTypeOk, AllLinks, LinkRow
    <2> DEFINE row == [saving[c].row EXCEPT !.order = top + 1]
               s == [saving[c] EXCEPT !.pc = "insert", !.row = row]
    <2>3. saving' = [saving EXCEPT ![c] = s]
        BY <2>1 DEF LinksTypeOk, LinkSave
    <2>4. saving[c] \in LinkSave /\ saving[c].pc = "max" /\ LinkSaveOk(saving[c])
        BY <1>2 DEF SelectMax, LinksTypeOk, LinksInv, LinkSaveInv
    <2>5. /\ row \in LinkRow /\ row.kind = saving[c].row.kind
          /\ row.parent = saving[c].row.parent /\ row.hidden = saving[c].row.hidden
        BY <2>2, <2>4 DEF LinkSave, LinkRow
    <2> HIDE DEF row
    <2>6. s \in LinkSave /\ s.pc = "insert" /\ s.row = row /\ s.late = saving[c].late
        BY <2>4, <2>5 DEF LinkSave
    <2> HIDE DEF s
    <2>7. LinkSaveOk(s)
        BY <2>4, <2>5, <2>6 DEF LinkSaveOk, LinkSound
    <2>8. QED BY <1>2, <2>3, <2>6, <2>7, StartedSave DEF SelectMax
<1>3. ASSUME NEW c \in Clients, LinkUpdate(c) PROVE LinksInv'
    <2>0. PICK i \in AllLinks : \E row \in ParseLinkForm(link[i].kind, link[i].order) :
             saving' = [saving EXCEPT ![c] =
                [NoSave EXCEPT !.pc = "check", !.id = i, !.row = row]]
        BY <1>3 DEF LinkUpdate
    <2>1. PICK row \in ParseLinkForm(link[i].kind, link[i].order) :
             saving' = [saving EXCEPT ![c] =
                [NoSave EXCEPT !.pc = "check", !.id = i, !.row = row]]
        BY <2>0
    <2> DEFINE s == [NoSave EXCEPT !.pc = "check", !.id = i, !.row = row]
    <2>2. /\ i \in LinkIds /\ i < nextLink
          /\ link[i].kind \in LinkKinds /\ link[i].order \in Nat
        BY DEF AllLinks, LinksTypeOk, LinkRow, LinksInv, LinkRowInv, LinkOk
    <2>3. row \in LinkRow /\ row.kind = link[i].kind /\ LinkSound(row)
        BY <2>2, ParsedType
    <2>4. s \in LinkSave /\ LinkSaveOk(s)
        BY <2>2, <2>3, NoSaveType DEF LinkSave, LinkSaveOk, NoSave
    <2>5. QED BY <1>3, <2>1, <2>4, StartedSave DEF LinkUpdate
<1>4. ASSUME NEW c \in Clients, CheckGroup(c) PROVE LinksInv'
    <2> DEFINE row == Grouped(saving[c].row)
               s == [saving[c] EXCEPT !.pc = "write", !.row = row]
    <2>1. saving[c] \in LinkSave /\ saving[c].pc = "check" /\ LinkSaveOk(saving[c])
        BY <1>4 DEF CheckGroup, LinksTypeOk, LinksInv, LinkSaveInv
    <2>2. saving' = [saving EXCEPT ![c] = s]
        BY <1>4 DEF CheckGroup, LinksTypeOk, LinkSave
    <2>3. /\ row \in LinkRow /\ row.kind = saving[c].row.kind
          /\ LinkSound(saving[c].row) => LinkSound(row)
          /\ row.parent # 0 => row.parent \in AllLinks /\ IsGroup(row.parent)
        BY <2>1, GroupedRow, GroupedGroup DEF LinkSave
    <2> HIDE DEF row
    <2>4. s \in LinkSave /\ s.pc = "write" /\ s.row = row /\ s.id = saving[c].id
        BY <2>1, <2>3 DEF LinkSave
    <2> HIDE DEF s
    <2>5. LinkSaveOk(s)
        BY <2>1, <2>3, <2>4 DEF LinkSaveOk
    <2>6. QED BY <1>4, <2>2, <2>4, <2>5, StartedSave DEF CheckGroup
<1>5. ASSUME NEW g \in LinkIds, LinkMemberReorder(g) PROVE LinksInv'
    BY <1>5, RenumberStep DEF LinkMemberReorder, ReorderLinksInGroup
<1>6. CASE LinkReorder
    BY <1>6, RenumberStep DEF LinkReorder, ReorderLinks
<1>7. CASE UNCHANGED linksVars
    BY <1>7 DEF linksVars, LinksInv, LinkRowInv, LinkOk, LinkSaveInv, LinkSaveOk, PlaceInv, AllLinks,
                IsGroup, LinkSound
<1>8. QED
    BY <1>1, <1>2, <1>3, <1>4, <1>5, <1>6, <1>7, LinkCreateStep, UpdateStep, LinkDeleteStep
    DEF LinksNext

-----------------------------------------------------------------------------
LEMMA LinksReached == LinksTypeOk /\ LinksInv => LinksReachable
<1> SUFFICES ASSUME LinksTypeOk, LinksInv PROVE LinksReachable
    OBVIOUS
<1>1. ASSUME NEW i \in AllLinks \ adrift, link[i].parent # 0
      PROVE  /\ link[i].parent \in AllLinks /\ IsGroup(link[i].parent)
             /\ ~link[link[i].parent].hidden /\ ~IsGroup(i)
    BY <1>1 DEF LinksInv, LinkRowInv, LinkOk, LinkSound, IsGroup
<1>2. AllLinks \ adrift \subseteq MainList \cup UNION {Members(g) : g \in MainList}
    <2> SUFFICES ASSUME NEW i \in AllLinks \ adrift, i \notin MainList
                 PROVE  \E g \in MainList : i \in Members(g)
        OBVIOUS
    <2>1. link[i].parent # 0
        BY DEF MainList
    <2>2. link[i].parent \in MainList /\ i \in Members(link[i].parent)
        BY <1>1, <2>1 DEF MainList, Members
    <2>3. QED BY <2>2
<1>3. ASSUME NEW i \in AllLinks \ adrift, ~IsGroup(i), ~link[i].hidden
      PROVE  i \in SidebarLinks
    <2>1. i \in VisibleLinks
        BY <1>3 DEF VisibleLinks
    <2>2. CASE link[i].parent = 0
        BY <1>3, <2>1, <2>2 DEF SidebarLinks
    <2>3. CASE link[i].parent # 0
        <3>1. link[i].parent \in {h \in VisibleLinks : IsGroup(h)}
            BY <1>1, <2>3 DEF VisibleLinks
        <3>2. i \in Children(link[i].parent)
            BY <1>3, <2>1 DEF Children
        <3>3. QED BY <3>1, <3>2 DEF SidebarLinks
    <2>4. QED BY <2>2, <2>3
<1>4. SidebarLinks \subseteq VisibleLinks
    BY DEF SidebarLinks, Children
<1>5. QED BY <1>2, <1>3, <1>4 DEF LinksReachable

(***************************************************************************)
(* Links can be reached in the admin screens and the sidebar shows those   *)
(* that are not hidden, but for what a save lost whose group was deleted   *)
(* under it; and links stay in the order they were put in, but for saves   *)
(* that overlapped it.  Any number of requests save, delete and reorder    *)
(* (linkCreate, linkUpdate, DeleteLink, ReorderLinks, applyLinkBlock).     *)
(***************************************************************************)
THEOREM BlogrollHolds == LinksSpec => []LinksHold
<1>1. LinksTypeOk /\ LinksInv => LinksHold
    BY LinksReached DEF LinksInv, PlaceInv, LinksHold, OrderKept
<1>2. QED BY <1>1, LinksTypeInit, LinksTypeStep, LinksInvInit, LinksInvStep, PTL DEF LinksSpec

-----------------------------------------------------------------------------
(***************************************************************************)
(* The tables side by side.  What MCContent runs, with one table in focus  *)
(* and its bounds, is behaviours of the specifications of the tables, so   *)
(* the theorems about these, here and in Entries_proofs and                *)
(* PageAdmin_proofs, hold of it.                                           *)
(***************************************************************************)
THEOREM ContentRunsTheParts ==
    Spec => /\ EntriesSpec /\ CategoriesSpec /\ ResponsesSpec /\ TemplatesSpec
            /\ PagesSpec /\ ImagesSpec /\ LinksSpec
<1>1. Init => /\ EntriesInit /\ CategoriesInit /\ ResponsesInit /\ TemplatesInit
              /\ PagesInit /\ ImagesInit /\ LinksInit
    BY Zenon DEF Init
<1> DEFINE every == <<focus, entriesVars, categoriesVars, responsesVars,
                      templatesVars, pagesVars, imagesVars, linksVars>>
<1>2. [Next]_every => /\ [EntriesNext]_entriesVars /\ [CategoriesNext]_categoriesVars
                       /\ [ResponsesNext]_responsesVars /\ [TemplatesNext]_templatesVars
                       /\ [PagesNext]_pagesVars /\ [ImagesNext]_imagesVars
                       /\ [LinksNext]_linksVars
    BY Zenon DEF Next
<1>3. QED BY <1>1, <1>2, PTL DEF Spec, EntriesSpec, CategoriesSpec, ResponsesSpec,
                                 TemplatesSpec, PagesSpec, ImagesSpec, LinksSpec

(***************************************************************************)
(* The tables side by side: every variable of each stays in its domain.    *)
(***************************************************************************)
THEOREM TypeCorrect == Spec => []TypeOk
<1>1. /\ EntriesTypeOk /\ CategoriesTypeOk /\ ResponsesTypeOk /\ TemplatesTypeOk
      /\ PagesTypeOk /\ ImagesTypeOk /\ LinksTypeOk
      => TypeOk
    BY Zenon DEF TypeOk
<1>2. QED BY <1>1, ContentRunsTheParts, EntriesTypeCorrect, CategoriesTypeCorrect,
             ResponsesTypeCorrect, TemplatesTypeCorrect, PagesTypeCorrect,
             ImagesTypeCorrect, LinksTypeCorrect, PTL
=============================================================================
