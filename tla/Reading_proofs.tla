--------------------------- MODULE Reading_proofs ---------------------------
(***************************************************************************)
(* Readers beside authors, the static build beside them, and the importer  *)
(* with the readers of old addresses.                                      *)
(***************************************************************************)
EXTENDS MCReading, FiniteSetTheorems, TLAPS

(***************************************************************************)
(* Rows, lists and the tables.                                             *)
(***************************************************************************)
LEMMA RowFacts ==
    /\ \A row \in Rows : row # NoRow /\ row.st # "none"
    /\ NoRow \notin Rows
    /\ NoRow.st = "none"
<1>1. \A row \in Rows : row.st \in {"draft", "published", "closed"}
    BY ReadingAssumption
<1>2. NoRow.st = "none"
    BY DEF NoRow
<1>3. QED BY <1>1, <1>2

LEMMA PostsFinite ==
    /\ MaxPosts \in Nat /\ IsFiniteSet(PostIds)
    /\ \A S : S \subseteq PostIds => IsFiniteSet(S) /\ Cardinality(S) \in Nat
<1>1. MaxPosts \in Nat
    BY ReadingAssumption
<1>2. IsFiniteSet(PostIds)
    BY <1>1, FS_Interval DEF PostIds
<1>3. QED BY <1>1, <1>2, FS_Subset, FS_CardinalityType

(* A list is one of five kinds.                                             *)
LEMMA ListKinds ==
    \A list \in Lists : list.kind \in {"home", "search", "category", "tag", "month"}
<1>1. ASSUME NEW list \in Lists
      PROVE  \/ list = Home \/ list = Search
             \/ \E c : list = Category(c) \/ list = Tag(c) \/ list = Month(c)
    BY DEF Lists
<1>2. Home.kind = "home" /\ Search.kind = "search"
    BY DEF Home, Search
<1>3. \A c : Category(c).kind = "category" /\ Tag(c).kind = "tag" /\ Month(c).kind = "month"
    BY DEF Category, Tag, Month
<1>4. QED BY <1>1, <1>2, <1>3

LEMMA TableFacts ==
    ASSUME NEW d \in Databases
    PROVE  /\ d.post \in [PostIds -> Rows \cup {NoRow}]
           /\ d.hidden \subseteq Categories /\ d.indexed \subseteq PostIds
           /\ Present(d) \subseteq PostIds
           /\ \A i \in Present(d) : d.post[i] \in Rows
           /\ Published(d) \subseteq Present(d)
           /\ Public(d) \subseteq Published(d)
           /\ \A list \in Lists : Members(d, list) \subseteq Published(d)
<1>1. /\ d.post \in [PostIds -> Rows \cup {NoRow}]
      /\ d.hidden \subseteq Categories /\ d.indexed \subseteq PostIds
    BY DEF Databases
<1>2. Present(d) \subseteq PostIds /\ \A i \in Present(d) : d.post[i] \in Rows
    BY <1>1 DEF Present
<1>3. Published(d) \subseteq Present(d)
    BY RowFacts DEF Published, Present
<1>4. Public(d) \subseteq Published(d)
    BY DEF Public
<1>5. ASSUME NEW list \in Lists PROVE Members(d, list) \subseteq Published(d)
    <2>1. list.kind \in {"home", "search", "category", "tag", "month"}
        BY ListKinds
    <2>2. QED BY <2>1, <1>4 DEF Members
<1>6. QED BY <1>1, <1>2, <1>3, <1>4, <1>5

LEMMA HomeListed == Home \in Lists
BY DEF Lists

(***************************************************************************)
(* Every variable stays in its domain.                                     *)
(***************************************************************************)
Walks == [pc : {"away", "count", "rows", "gone", "end"}, list : Lists,
          page : Nat, total : Nat, seen : SUBSET PostIds, twice : BOOLEAN,
          kept : SUBSET PostIds, calm : BOOLEAN, settled : BOOLEAN,
          torn : BOOLEAN]

LEMMA NowhereType == Nowhere \in Walks
BY HomeListed DEF Nowhere, Walks

(* Saves and the reindex leave the tables what they are.                    *)
LEMMA EditedTables ==
    ASSUME db \in Databases, NEW d
    PROVE  /\ \A i \in PostIds, row \in Rows \cup {NoRow} :
                 d = [db EXCEPT !.post[i] = row] => d \in Databases
           /\ \A i \in PostIds, row \in Rows \cup {NoRow}, S \in SUBSET PostIds :
                 d = [db EXCEPT !.post[i] = row, !.indexed = S] => d \in Databases
           /\ \A S \in SUBSET PostIds : d = [db EXCEPT !.indexed = S] => d \in Databases
           /\ \A H \in SUBSET Categories : d = [db EXCEPT !.hidden = H] => d \in Databases
BY DEF Databases

(* What a save or a reindex makes of the tables.                            *)
LEMMA Edits ==
    ASSUME ReadingTypeOk, ReadingNext, db' # db
    PROVE  /\ db' \in Databases /\ Change(db')
           /\ nextPost' \in 1 .. MaxPosts + 1
<1>0. db \in Databases /\ nextPost \in 1 .. MaxPosts + 1 /\ MaxPosts \in Nat
    BY PostsFinite DEF ReadingTypeOk
<1>t. /\ db.post \in [PostIds -> Rows \cup {NoRow}] /\ db.indexed \subseteq PostIds
      /\ db.hidden \subseteq Categories /\ Present(db) \subseteq PostIds
    BY <1>0, TableFacts
<1>1. CASE Edit
    <2>1. CASE \E row \in Rows : CreatePost(row)
        <3>1. PICK row \in Rows : CreatePost(row)
            BY <2>1
        <3>2. /\ nextPost \in PostIds /\ nextPost' = nextPost + 1
              /\ Change([db EXCEPT !.post[nextPost] = row, !.indexed = @ \cup {nextPost}])
            BY <3>1 DEF CreatePost
        <3>3. /\ db' = [db EXCEPT !.post[nextPost] = row, !.indexed = db.indexed \cup {nextPost}]
              /\ Change(db')
            BY <3>2 DEF Change
        <3>4. db.indexed \cup {nextPost} \in SUBSET PostIds
            BY <3>2, <1>t
        <3>5. db' \in Databases
            BY <1>0, <3>2, <3>3, <3>4, EditedTables
        <3>6. nextPost' \in 1 .. MaxPosts + 1
            BY <3>2, <1>0 DEF PostIds
        <3>7. QED BY <3>3, <3>5, <3>6
    <2>2. CASE \E i \in PostIds, row \in Rows : SavePost(i, row)
        <3>1. PICK i \in PostIds, row \in Rows : SavePost(i, row)
            BY <2>2
        <3>2. /\ db' = [db EXCEPT !.post[i] = row] /\ Change(db') /\ nextPost' = nextPost
            BY <3>1 DEF SavePost, Change
        <3>3. QED BY <1>0, <3>2, EditedTables
    <2>3. CASE \E i \in PostIds : DeletePost(i)
        <3>1. PICK i \in PostIds : DeletePost(i)
            BY <2>3
        <3>2. /\ db' = [db EXCEPT !.post[i] = NoRow, !.indexed = db.indexed \ {i}]
              /\ Change(db') /\ nextPost' = nextPost
            BY <3>1 DEF DeletePost, Change
        <3>3. db.indexed \ {i} \in SUBSET PostIds
            BY <1>t
        <3>4. PICK S \in SUBSET PostIds : S = db.indexed \ {i}
            BY <3>3
        <3>5. db' = [db EXCEPT !.post[i] = NoRow, !.indexed = S]
            BY <3>2, <3>4
        <3>6. db' \in Databases
            BY <1>0, <3>5, EditedTables
        <3>7. QED BY <1>0, <3>2, <3>6
    <2>4. CASE \E c \in Categories : HideCategory(c)
        <3>1. PICK c \in Categories : HideCategory(c)
            BY <2>4
        <3>2. PICK H \in SUBSET Categories : db' = [db EXCEPT !.hidden = H]
            BY <3>1, <1>t DEF HideCategory, Change
        <3>3. Change(db') /\ nextPost' = nextPost
            BY <3>1 DEF HideCategory, Change
        <3>4. QED BY <1>0, <3>2, <3>3, EditedTables
    <2>5. QED BY <1>1, <2>1, <2>2, <2>3, <2>4 DEF Edit
<1>2. CASE ClearIndex
    <2>1. db' = [db EXCEPT !.indexed = {}] /\ Change(db') /\ nextPost' = nextPost
        BY <1>2 DEF ClearIndex, Change
    <2>2. QED BY <1>0, <2>1, EditedTables
<1>3. CASE FillIndex
    <2>1. Change([db EXCEPT !.indexed = Present(db)]) /\ nextPost' = nextPost
        BY <1>3 DEF FillIndex
    <2>2. db' = [db EXCEPT !.indexed = Present(db)] /\ Change(db')
        BY <2>1 DEF Change
    <2>3. QED BY <1>0, <1>t, <2>1, <2>2, EditedTables
<1>4. \/ KillReindex \/ CountPage \/ ShowPage \/ (\E list \in Lists : StartWalk(list)) => db' = db
    BY DEF KillReindex, StartWalk, CountPage, ShowPage
<1>5. QED BY <1>1, <1>2, <1>3, <1>4 DEF ReadingNext

LEMMA CountFacts ==
    ASSUME NEW d \in Databases, NEW list \in Lists
    PROVE  /\ IsFiniteSet(Members(d, list)) /\ Members(d, list) \subseteq PostIds
           /\ Counted(d, list) \in Nat
BY TableFacts, PostsFinite DEF Counted

LEMMA PageFacts ==
    ASSUME NEW n \in Nat
    PROVE  /\ PageCount(n) \in Nat
           /\ n <= PageCount(n) * PageSize
           /\ n # 0 => (PageCount(n) - 1) * PageSize < n
           /\ n = 0 => PageCount(n) = 0
<1> DEFINE m == n + PageSize - 1
           q == m \div PageSize
<1>1. PageSize \in Nat \ {0} /\ m \in Nat /\ PageCount(n) = q
    BY ReadingAssumption DEF PageCount
<1>2. q \in Nat /\ q * PageSize <= m /\ m < q * PageSize + PageSize
    BY <1>1
<1>3. m = n + PageSize - 1
    OBVIOUS
<1> HIDE DEF m, q
<1>4. q * PageSize \in Nat /\ (q - 1) * PageSize = q * PageSize - PageSize
    BY <1>1, <1>2
<1>5. n <= q * PageSize
    BY <1>1, <1>2, <1>3, <1>4
<1>6. n # 0 => (q - 1) * PageSize < n
    BY <1>1, <1>2, <1>3, <1>4
<1>7. n = 0 => q = 0
    BY <1>1, <1>3 DEF q
<1>8. QED BY <1>1, <1>2, <1>5, <1>6, <1>7

(***************************************************************************)
(* Places in a strict order.                                               *)
(***************************************************************************)
Before(S, R, x) == {y \in S : <<y, x>> \in R}

StrictOrder(S, R) ==
    /\ \A x \in S : <<x, x>> \notin R
    /\ \A x, y, z \in S : <<x, y>> \in R /\ <<y, z>> \in R => <<x, z>> \in R
    /\ \A x, y \in S : x = y \/ <<x, y>> \in R \/ <<y, x>> \in R

LEMMA Ranking ==
    ASSUME NEW S, IsFiniteSet(S), NEW R, StrictOrder(S, R)
    PROVE  /\ \A x \in S : /\ Cardinality(Before(S, R, x)) \in Nat
                           /\ Cardinality(Before(S, R, x)) < Cardinality(S)
           /\ \A x, y \in S : <<x, y>> \in R =>
                 Cardinality(Before(S, R, x)) < Cardinality(Before(S, R, y))
           /\ S # {} => \E x \in S : \A y \in S : <<y, x>> \notin R
<1> DEFINE rank(x) == Cardinality(Before(S, R, x))
<1>1. \A x \in S : Before(S, R, x) \subseteq S /\ x \notin Before(S, R, x)
    BY DEF Before, StrictOrder
<1>2. \A x \in S : IsFiniteSet(Before(S, R, x)) /\ rank(x) \in Nat
    BY <1>1, FS_Subset, FS_CardinalityType
<1>3. Cardinality(S) \in Nat
    BY FS_CardinalityType
<1>4. ASSUME NEW T, IsFiniteSet(T), NEW U, U \subseteq T, NEW x \in T, x \notin U
      PROVE  Cardinality(U) < Cardinality(T)
    <2>1. IsFiniteSet(U) /\ Cardinality(U) \in Nat /\ Cardinality(T) \in Nat
        BY <1>4, FS_Subset, FS_CardinalityType
    <2>2. Cardinality(U) <= Cardinality(T) /\ Cardinality(U) # Cardinality(T)
        BY <1>4, FS_Subset
    <2>3. QED BY <2>1, <2>2
<1>5. \A x \in S : rank(x) < Cardinality(S)
    BY <1>1, <1>4
<1>6. ASSUME NEW x \in S, NEW y \in S, <<x, y>> \in R PROVE rank(x) < rank(y)
    <2>1. Before(S, R, x) \subseteq Before(S, R, y)
        BY <1>6 DEF Before, StrictOrder
    <2>2. x \in Before(S, R, y) /\ x \notin Before(S, R, x)
        BY <1>1, <1>6 DEF Before
    <2>3. QED BY <1>2, <1>4, <2>1, <2>2
<1>7. ASSUME S # {} PROVE \E x \in S : \A y \in S : <<y, x>> \notin R
    <2> DEFINE N == Cardinality(S)
               f == [x \in S |-> rank(x) + 1]
    <2>1. N \in Nat /\ IsFiniteSet(1 .. N) /\ Cardinality(1 .. N) = N
        BY <1>3, FS_Interval
    <2>2. N # 0
        BY <1>7, FS_EmptySet
    <2>3. \A x \in S : rank(x) + 1 \in 1 .. N
        BY <1>2, <1>3, <1>5
    <2>4. \A x, y \in S : rank(x) = rank(y) => x = y
        <3>1. \A x, y \in S : rank(x) < rank(y) \/ rank(y) < rank(x) => rank(x) # rank(y)
            BY <1>2
        <3>2. QED BY <1>6, <3>1 DEF StrictOrder
    <2> HIDE DEF rank, N
    <2>5. f \in [S -> 1 .. N]
        BY <2>3
    <2>6. \A x, y \in S : f[x] = f[y] => x = y
        BY <1>2, <2>4
    <2>7. f \in Injection(S, 1 .. N)
        BY <2>5, <2>6 DEF Injection, IsInjective
    <2>8. f \in Surjection(S, 1 .. N)
        BY <2>1, <2>7, FS_Injection DEF N
    <2>9. PICK x \in S : f[x] = 1
        <3>1. \A k \in 1 .. N : \E x \in S : f[x] = k
            BY <2>8 DEF Surjection
        <3>2. 1 \in 1 .. N
            BY <2>1, <2>2
        <3>3. QED BY <3>1, <3>2
    <2>10. rank(x) = 0
        BY <1>2, <2>9
    <2>11. Before(S, R, x) = {}
        BY <1>2, <2>10, FS_EmptySet DEF rank
    <2>12. QED BY <2>11 DEF Before
<1>8. QED BY <1>2, <1>5, <1>6, <1>7

(* Days are numbers, pins are Booleans.                                     *)
LEMMA Dated ==
    ASSUME NEW d \in Databases
    PROVE  \A i \in Published(d) : /\ i \in Nat /\ d.post[i].day \in Int
                                   /\ d.post[i].pinned \in BOOLEAN
<1>1. \A i \in Published(d) : i \in PostIds /\ d.post[i] \in Rows
    BY TableFacts
<1>2. PostIds \subseteq Nat
    BY PostsFinite DEF PostIds
<1>3. QED BY <1>1, <1>2, ReadingAssumption

LEMMA LaterOrder ==
    ASSUME NEW d \in Databases
    PROVE  /\ \A i \in Published(d) : ~Later(d, i, i) /\ ~Newer(d, i, i)
           /\ \A i, j \in Published(d) : i = j \/ Later(d, i, j) \/ Later(d, j, i)
           /\ \A i, j \in Published(d) : i = j \/ Newer(d, i, j) \/ Newer(d, j, i)
           /\ \A i, j, k \in Published(d) : Later(d, i, j) /\ Later(d, j, k) => Later(d, i, k)
           /\ \A i, j, k \in Published(d) : Newer(d, i, j) /\ Newer(d, j, k) => Newer(d, i, k)
BY Dated DEF Later, Newer

LEMMA AheadOrder ==
    ASSUME NEW d \in Databases, NEW list \in Lists
    PROVE  /\ \A i \in Published(d) : ~Ahead(d, list, i, i)
           /\ \A i, j \in Published(d) : i = j \/ Ahead(d, list, i, j) \/ Ahead(d, list, j, i)
           /\ \A i, j, k \in Published(d) :
                 Ahead(d, list, i, j) /\ Ahead(d, list, j, k) => Ahead(d, list, i, k)
<1>1. CASE list.kind \in {"home", "category"}
    <2>1. \A i, j : Ahead(d, list, i, j) <=> IF d.post[i].pinned = d.post[j].pinned
                                             THEN Newer(d, i, j) ELSE d.post[i].pinned
        BY <1>1 DEF Ahead
    <2>2. \A i \in Published(d) : d.post[i].pinned \in BOOLEAN
        BY Dated
    <2>3. QED BY <2>1, <2>2, LaterOrder
<1>2. CASE list.kind = "search"
    <2>1. \A i, j : Ahead(d, list, i, j) <=> Later(d, i, j)
        BY <1>2 DEF Ahead
    <2>2. QED BY <2>1, LaterOrder
<1>3. CASE list.kind \in {"tag", "month"}
    <2>1. \A i, j : Ahead(d, list, i, j) <=> Newer(d, i, j)
        BY <1>3 DEF Ahead
    <2>2. QED BY <2>1, LaterOrder
<1>4. QED BY <1>1, <1>2, <1>3, ListKinds

LEMMA PlaceFacts ==
    ASSUME NEW d \in Databases, NEW list \in Lists
    PROVE  /\ \A i \in Members(d, list) : /\ Place(d, list, i) \in Nat
                                          /\ Place(d, list, i) < Counted(d, list)
           /\ Counted(d, list) \in Nat
<1> DEFINE M == Members(d, list)
           R == {p \in M \X M : Ahead(d, list, p[1], p[2])}
<1>1. M \subseteq Published(d) /\ IsFiniteSet(M)
    BY TableFacts, CountFacts
<1>2. \A i, j \in M : <<i, j>> \in R <=> Ahead(d, list, i, j)
    OBVIOUS
<1>3. \A i \in M : Place(d, list, i) = Cardinality(Before(M, R, i))
    <2>1. ASSUME NEW i \in M
          PROVE  {j \in Members(d, list) : Ahead(d, list, j, i)} = Before(M, R, i)
        BY <1>2 DEF Before
    <2>2. QED BY <2>1 DEF Place
<1> HIDE DEF R
<1>4. StrictOrder(M, R)
    BY <1>1, <1>2, AheadOrder DEF StrictOrder
<1> HIDE DEF M
<1>5. \A i \in M : /\ Cardinality(Before(M, R, i)) \in Nat
                   /\ Cardinality(Before(M, R, i)) < Cardinality(M)
    BY <1>1, <1>4, Ranking
<1>6. QED BY <1>3, <1>5, CountFacts DEF M, Counted

(***************************************************************************)
(* From entry to entry.                                                    *)
(***************************************************************************)
LEMMA Mirrored == db \in Databases => NeighboursMirror
<1> SUFFICES ASSUME db \in Databases, NEW i \in Public(db), NEW j \in Public(db)
             PROVE  /\ j \in PrevOf(db, i) <=> i \in NextOf(db, j)
                    /\ Later(db, i, j) => Neighbours(db, i).prev # {}
    BY DEF NeighboursMirror
<1>1. Public(db) \subseteq Published(db) /\ Public(db) \subseteq PostIds
    BY TableFacts
<1>2. /\ \A k \in Public(db) : ~Later(db, k, k)
      /\ \A k, m \in Public(db) : k = m \/ Later(db, k, m) \/ Later(db, m, k)
      /\ \A k, m, n \in Public(db) : Later(db, k, m) /\ Later(db, m, n) => Later(db, k, n)
    BY <1>1, LaterOrder
<1>3. j \in PrevOf(db, i) <=> i \in NextOf(db, j)
    <2>1. j \in PrevOf(db, i) <=>
              /\ Later(db, i, j)
              /\ \A k \in Public(db) : Later(db, i, k) => k = j \/ Later(db, j, k)
        BY DEF PrevOf
    <2>2. i \in NextOf(db, j) <=>
              /\ Later(db, i, j)
              /\ \A k \in Public(db) : Later(db, k, j) => k = i \/ Later(db, k, i)
        BY DEF NextOf
    <2>3. QED BY <2>1, <2>2, <1>2
<1>4. ASSUME Later(db, i, j) PROVE Neighbours(db, i).prev # {}
    <2> DEFINE S == {k \in Public(db) : Later(db, i, k)}
               R == {p \in S \X S : Later(db, p[1], p[2])}
    <2>1. IsFiniteSet(S) /\ S # {}
        BY <1>1, <1>4, PostsFinite, FS_Subset
    <2>2. \A k, m \in S : <<k, m>> \in R <=> Later(db, k, m)
        OBVIOUS
    <2>3. S \subseteq Public(db)
        OBVIOUS
    <2> HIDE DEF R
    <2>4. StrictOrder(S, R)
        BY <1>2, <2>2, <2>3 DEF StrictOrder
    <2> HIDE DEF S
    <2>5. PICK k \in S : \A m \in S : <<m, k>> \notin R
        BY <2>1, <2>4, Ranking
    <2>6. k \in PrevOf(db, i)
        <3>1. \A m \in S : m = k \/ Later(db, k, m)
            BY <1>2, <2>2, <2>3, <2>5
        <3>2. QED BY <3>1 DEF S, PrevOf
    <2>7. QED BY <2>6 DEF Neighbours
<1>5. QED BY <1>3, <1>4

(***************************************************************************)
(* The index of the search.                                                *)
(***************************************************************************)
SearchInv == SearchMatchesTable /\ \A i \in Present(db) : i < nextPost

LEMMA SearchStep ==
    ReadingTypeOk /\ SearchInv /\ [ReadingNext]_readingVars => SearchInv'
<1> SUFFICES ASSUME ReadingTypeOk, SearchInv, [ReadingNext]_readingVars PROVE SearchInv'
    OBVIOUS
<1>0. /\ db \in Databases /\ db.post \in [PostIds -> Rows \cup {NoRow}]
      /\ db.indexed \subseteq Present(db) /\ Present(db) \subseteq PostIds
      /\ (reindex = "idle" /\ ~drifted => db.indexed = Present(db))
      /\ (\A i \in Present(db) : i < nextPost) /\ nextPost \in Int
    BY TableFacts, PostsFinite DEF ReadingTypeOk, SearchInv, SearchMatchesTable
<1>p. PostIds \subseteq Int
    BY PostsFinite DEF PostIds
<1>1. CASE Edit
    <2>0. reindex' = reindex /\ drifted' = drifted
        BY <1>1 DEF Edit
    <2>1. CASE \E row \in Rows : CreatePost(row)
        <3>1. PICK row \in Rows : CreatePost(row)
            BY <2>1
        <3>2. /\ nextPost \in PostIds /\ nextPost' = nextPost + 1
              /\ db' = [db EXCEPT !.post[nextPost] = row, !.indexed = db.indexed \cup {nextPost}]
            BY <3>1 DEF CreatePost, Change
        <3>3. /\ db'.indexed = db.indexed \cup {nextPost}
              /\ db'.post = [db.post EXCEPT ![nextPost] = row]
            BY <1>0, <3>2 DEF Databases
        <3>4. Present(db') = Present(db) \cup {nextPost}
            BY <1>0, <3>2, <3>3, RowFacts DEF Present
        <3>5. QED BY <1>0, <1>p, <2>0, <3>2, <3>3, <3>4 DEF SearchInv, SearchMatchesTable
    <2>2. CASE \E i \in PostIds, row \in Rows : SavePost(i, row)
        <3>1. PICK i \in PostIds, row \in Rows : SavePost(i, row)
            BY <2>2
        <3>2. /\ i \in Present(db) /\ nextPost' = nextPost
              /\ db' = [db EXCEPT !.post[i] = row]
            BY <3>1 DEF SavePost, Change
        <3>3. db'.indexed = db.indexed /\ db'.post = [db.post EXCEPT ![i] = row]
            BY <1>0, <3>2 DEF Databases
        <3>4. Present(db') = Present(db)
            BY <1>0, <3>2, <3>3, RowFacts DEF Present
        <3>5. QED BY <1>0, <2>0, <3>2, <3>3, <3>4 DEF SearchInv, SearchMatchesTable
    <2>3. CASE \E i \in PostIds : DeletePost(i)
        <3>1. PICK i \in PostIds : DeletePost(i)
            BY <2>3
        <3>2. /\ i \in Present(db) /\ nextPost' = nextPost
              /\ db' = [db EXCEPT !.post[i] = NoRow, !.indexed = db.indexed \ {i}]
            BY <3>1 DEF DeletePost, Change
        <3>3. db'.indexed = db.indexed \ {i} /\ db'.post = [db.post EXCEPT ![i] = NoRow]
            BY <1>0, <3>2 DEF Databases
        <3>4. Present(db') = Present(db) \ {i}
            BY <1>0, <3>2, <3>3 DEF Present
        <3>5. QED BY <1>0, <2>0, <3>2, <3>3, <3>4 DEF SearchInv, SearchMatchesTable
    <2>4. CASE \E c \in Categories : HideCategory(c)
        <3>0. PICK c \in Categories : HideCategory(c)
            BY <2>4
        <3>1. PICK H : db' = [db EXCEPT !.hidden = H] /\ nextPost' = nextPost
            BY <3>0 DEF HideCategory, Change
        <3>2. db'.indexed = db.indexed /\ db'.post = db.post
            BY <1>0, <3>1 DEF Databases
        <3>3. Present(db') = Present(db)
            BY <3>2 DEF Present
        <3>4. QED BY <1>0, <2>0, <3>1, <3>2, <3>3 DEF SearchInv, SearchMatchesTable
    <2>5. QED BY <1>1, <2>1, <2>2, <2>3, <2>4 DEF Edit
<1>2. CASE ClearIndex
    <2>1. reindex' = "cleared" /\ db' = [db EXCEPT !.indexed = {}] /\ nextPost' = nextPost
        BY <1>2 DEF ClearIndex, Change
    <2>2. db'.indexed = {} /\ db'.post = db.post
        BY <1>0, <2>1 DEF Databases
    <2>3. Present(db') = Present(db)
        BY <2>2 DEF Present
    <2>4. QED BY <1>0, <2>1, <2>2, <2>3 DEF SearchInv, SearchMatchesTable
<1>3. CASE FillIndex
    <2>1. CASE db.indexed = {}
        <3>1. db' = [db EXCEPT !.indexed = Present(db)] /\ nextPost' = nextPost
            BY <1>3, <2>1 DEF FillIndex, Change
        <3>2. db'.indexed = Present(db) /\ db'.post = db.post
            BY <1>0, <3>1 DEF Databases
        <3>3. Present(db') = Present(db)
            BY <3>2 DEF Present
        <3>4. QED BY <1>0, <3>1, <3>2, <3>3 DEF SearchInv, SearchMatchesTable
    <2>2. CASE db.indexed # {}
        BY <1>0, <1>3, <2>2 DEF FillIndex, SearchInv, SearchMatchesTable
    <2>3. QED BY <2>1, <2>2
<1>4. CASE KillReindex
    BY <1>0, <1>4 DEF KillReindex, SearchInv, SearchMatchesTable
<1>5. \/ CountPage \/ ShowPage \/ (\E list \in Lists : StartWalk(list)) \/ UNCHANGED readingVars
      => db' = db /\ nextPost' = nextPost /\ reindex' = reindex /\ drifted' = drifted
    BY DEF StartWalk, CountPage, ShowPage, readingVars
<1>6. CASE db' = db /\ nextPost' = nextPost /\ reindex' = reindex /\ drifted' = drifted
    BY <1>0, <1>6 DEF SearchInv, SearchMatchesTable
<1>7. QED BY <1>1, <1>2, <1>3, <1>4, <1>5, <1>6 DEF ReadingNext

(***************************************************************************)
(* A walk: until something left the list or changed places, what the list  *)
(* had throughout has been seen as far as the reader has come, and the     *)
(* page that comes next is there; without a save nothing else was seen.    *)
(***************************************************************************)
Passed(page) == (page - 1) * PageSize

PagerOk(w, d) ==
    /\ w.settled => w.page = 1 \/ Passed(w.page) < Counted(d, w.list)
    /\ w.settled => \A i \in w.kept : Place(d, w.list, i) < Passed(w.page) => i \in w.seen
    /\ w.calm => \A i \in PostIds :
          i \in w.seen <=> i \in Members(d, w.list) /\ Place(d, w.list, i) < Passed(w.page)

WalkOk(w, d) ==
    /\ w.page # 0
    /\ w.pc = "away" => w = Nowhere
    /\ w.kept \subseteq Members(d, w.list)
    /\ w.pc # "away" /\ w.calm => /\ w.settled /\ ~w.torn /\ ~w.twice
                                  /\ w.kept = Members(d, w.list)
    /\ w.pc \in {"count", "rows"} => PagerOk(w, d)
    /\ w.pc = "rows" => /\ w.settled => w.total <= Counted(d, w.list)
                        /\ ~w.torn => w.total = Counted(d, w.list)
    /\ w.pc = "end" /\ w.settled /\ ~w.torn => w.kept \subseteq w.seen
    /\ w.pc = "gone" => ~w.settled
    /\ w.pc = "end" /\ w.calm => w.seen = w.kept

WalkInv == walk \in Walks /\ WalkOk(walk, db)

(* Where nothing left and nothing changed places, places only grow.         *)
LEMMA PlacesGrow ==
    ASSUME NEW d \in Databases, NEW e \in Databases, NEW list \in Lists,
           Members(d, list) \subseteq Members(e, list),
           \A i, j \in Members(d, list) : Ahead(d, list, i, j) = Ahead(e, list, i, j)
    PROVE  /\ Counted(d, list) <= Counted(e, list)
           /\ \A i \in Members(d, list) : Place(d, list, i) <= Place(e, list, i)
<1>1. IsFiniteSet(Members(e, list))
    BY CountFacts
<1>2. Counted(d, list) <= Counted(e, list)
    BY <1>1, FS_Subset DEF Counted
<1>3. ASSUME NEW i \in Members(d, list) PROVE Place(d, list, i) <= Place(e, list, i)
    <2> DEFINE U == {j \in Members(d, list) : Ahead(d, list, j, i)}
               T == {j \in Members(e, list) : Ahead(e, list, j, i)}
    <2>1. U \subseteq T
        OBVIOUS
    <2>2. IsFiniteSet(T)
        BY <1>1, FS_Subset
    <2>3. Place(d, list, i) = Cardinality(U) /\ Place(e, list, i) = Cardinality(T)
        BY DEF Place
    <2> HIDE DEF U, T
    <2>4. QED BY <2>1, <2>2, <2>3, FS_Subset
<1>4. QED BY <1>2, <1>3

(* A save or a reindex beside the walk.                                     *)
LEMMA WalkBesideOk ==
    ASSUME db \in Databases, db' \in Databases, WalkInv, Change(db')
    PROVE  WalkInv'
<1>0. walk \in Walks /\ WalkOk(walk, db)
    BY DEF WalkInv
<1>1. CASE walk.pc = "away"
    <2>1. walk = Nowhere /\ walk' = walk
        BY <1>0, <1>1 DEF Change, WalkBeside, WalkOk
    <2>2. QED BY <1>0, <2>1 DEF WalkInv, WalkOk, Nowhere
<1>2. CASE walk.pc # "away"
    <2> DEFINE M == Members(db, walk.list)
               N == Members(db', walk.list)
    <2>1. PICK s \in BOOLEAN :
              /\ s <=> /\ M \subseteq N
                       /\ \A i, j \in M : Ahead(db, walk.list, i, j) = Ahead(db', walk.list, i, j)
              /\ walk' = [walk EXCEPT !.kept = @ \cap N, !.calm = FALSE,
                                      !.settled = @ /\ s, !.torn = @ \/ walk.pc = "rows"]
        BY <1>2 DEF Change, WalkBeside
    <2>2. /\ walk' \in Walks
          /\ walk'.pc = walk.pc /\ walk'.list = walk.list /\ walk'.page = walk.page
          /\ walk'.total = walk.total /\ walk'.seen = walk.seen
          /\ walk'.kept = walk.kept \cap N /\ walk'.calm = FALSE
          /\ walk'.settled = (walk.settled /\ s) /\ walk'.torn = (walk.torn \/ walk.pc = "rows")
        BY <1>0, <2>1 DEF Walks
    <2>3. walk.list \in Lists /\ walk.page \in Nat /\ walk.total \in Nat
        BY <1>0 DEF Walks
    <2>4. ASSUME s
          PROVE  /\ Counted(db, walk.list) <= Counted(db', walk.list)
                 /\ \A i \in M : Place(db, walk.list, i) <= Place(db', walk.list, i)
        BY <2>1, <2>3, <2>4, PlacesGrow
    <2>5. /\ Counted(db, walk.list) \in Nat /\ Counted(db', walk.list) \in Nat
          /\ \A i \in M : Place(db, walk.list, i) \in Nat
          /\ \A i \in N : Place(db', walk.list, i) \in Nat
          /\ Passed(walk.page) \in Int
        BY <2>3, PlaceFacts, ReadingAssumption DEF Passed
    <2>6. walk.kept \subseteq M
        BY <1>0 DEF WalkOk
    <2>a. PICK m \in Nat, n \in Nat, p \in Int :
              /\ m = Counted(db, walk.list) /\ n = Counted(db', walk'.list)
              /\ p = Passed(walk.page) /\ p = Passed(walk'.page)
              /\ s => m <= n
        BY <2>2, <2>4, <2>5
    <2>b. (walk'.settled => walk.settled /\ s) /\ (~walk'.torn => walk.pc # "rows")
        BY <2>2
    <2>7. PagerOk(walk, db) => PagerOk(walk', db')
        <3> SUFFICES ASSUME PagerOk(walk, db) PROVE PagerOk(walk', db')
            OBVIOUS
        <3>1. walk'.settled => walk'.page = 1 \/ Passed(walk'.page) < Counted(db', walk'.list)
            <4>1. ASSUME walk'.settled, walk'.page # 1 PROVE p < n
                <5>1. walk.settled /\ s /\ walk.page # 1
                    BY <2>2, <2>b, <4>1
                <5>2. p < m /\ m <= n
                    BY <2>a, <5>1 DEF PagerOk
                <5>3. QED BY <5>2
            <4>2. QED BY <2>a, <4>1
        <3>2. walk'.settled => \A i \in walk'.kept :
                  Place(db', walk'.list, i) < Passed(walk'.page) => i \in walk'.seen
            <4> SUFFICES ASSUME walk'.settled, NEW i \in walk'.kept,
                                Place(db', walk'.list, i) < Passed(walk'.page)
                         PROVE  i \in walk'.seen
                OBVIOUS
            <4>1. walk.settled /\ s /\ i \in walk.kept /\ i \in M /\ i \in N
                BY <2>2, <2>6
            <4>2. Place(db, walk.list, i) < Passed(walk.page)
                BY <2>2, <2>4, <2>5, <4>1
            <4>3. QED BY <2>2, <4>1, <4>2 DEF PagerOk
        <3>3. QED BY <2>2, <3>1, <3>2 DEF PagerOk
    <2>8. walk'.pc = "rows" => /\ walk'.settled => walk'.total <= Counted(db', walk'.list)
                               /\ ~walk'.torn => walk'.total = Counted(db', walk'.list)
        <3>1. ASSUME walk'.pc = "rows", walk'.settled PROVE walk'.total <= n
            <4>1. walk.pc = "rows" /\ walk.settled /\ s
                BY <2>2, <2>b, <3>1
            <4>2. walk.total <= m
                BY <1>0, <2>a, <4>1 DEF WalkOk
            <4>3. QED BY <2>2, <2>3, <2>a, <4>1, <4>2
        <3>2. QED BY <2>2, <2>a, <2>b, <3>1
    <2>9. WalkOk(walk', db')
        BY <1>0, <1>2, <2>2, <2>7, <2>8 DEF WalkOk
    <2>10. QED BY <2>2, <2>9 DEF WalkInv
<1>3. QED BY <1>1, <1>2

LEMMA StartOk ==
    ASSUME db \in Databases, WalkInv, NEW list \in Lists, StartWalk(list)
    PROVE  WalkInv'
<1> DEFINE M == Members(db, list)
<1>1. walk' = [Nowhere EXCEPT !.pc = "count", !.list = list, !.kept = M] /\ db' = db
    BY DEF StartWalk
<1>2. M \in SUBSET PostIds
    BY CountFacts
<1> HIDE DEF M
<1>3. /\ walk' \in Walks
      /\ walk'.pc = "count" /\ walk'.list = list /\ walk'.kept = M /\ walk'.page = 1
      /\ walk'.settled /\ ~walk'.torn /\ ~walk'.twice /\ walk'.seen = {}
    BY <1>1, <1>2, NowhereType DEF Nowhere, Walks
<1>4. Passed(1) = 0
    BY ReadingAssumption DEF Passed
<1>5. \A i \in M : ~(Place(db, list, i) < 0)
    BY PlaceFacts DEF M
<1>6. PagerOk(walk', db)
    BY <1>3, <1>4, <1>5 DEF PagerOk, M
<1>7. WalkOk(walk', db)
    BY <1>3, <1>6 DEF WalkOk, M
<1>8. QED BY <1>1, <1>3, <1>7 DEF WalkInv

LEMMA CountOk ==
    ASSUME db \in Databases, WalkInv, CountPage
    PROVE  WalkInv'
<1>0. walk \in Walks /\ WalkOk(walk, db) /\ walk.list \in Lists /\ walk.pc = "count" /\ db' = db
    BY DEF WalkInv, CountPage, Walks
<1>1. PICK total \in Nat : total = Counted(db, walk.list)
    BY <1>0, CountFacts
<1>2. CASE walk.page > 1 /\ walk.page > PageCount(total)
    <2>1. walk' = [walk EXCEPT !.total = total, !.pc = "gone"]
        BY <1>1, <1>2 DEF CountPage
    <2>2. /\ walk' \in Walks /\ walk'.pc = "gone" /\ walk'.list = walk.list
          /\ walk'.page = walk.page /\ walk'.kept = walk.kept /\ walk'.calm = walk.calm
          /\ walk'.settled = walk.settled /\ walk'.torn = walk.torn /\ walk'.twice = walk.twice
        BY <1>0, <2>1 DEF Walks
    <2>3. ~walk.settled
        <3>1. ASSUME walk.settled PROVE FALSE
            <4>1. Passed(walk.page) < total
                BY <1>0, <1>1, <1>2, <3>1 DEF WalkOk, PagerOk
            <4>2. total <= PageCount(total) * PageSize /\ PageCount(total) \in Nat
                BY PageFacts
            <4>3. walk.page \in Nat /\ PageSize \in Nat
                BY <1>0, ReadingAssumption DEF Walks
            <4>4. PageCount(total) <= walk.page - 1
                BY <1>2, <4>2, <4>3
            <4>5. PageCount(total) * PageSize <= (walk.page - 1) * PageSize
                BY <4>2, <4>3, <4>4
            <4>6. PageCount(total) * PageSize \in Nat /\ (walk.page - 1) * PageSize \in Int
                BY <4>2, <4>3
            <4>7. QED BY <4>1, <4>2, <4>5, <4>6 DEF Passed
        <3>2. QED BY <3>1
    <2>4. WalkOk(walk', db)
        BY <1>0, <2>2, <2>3 DEF WalkOk
    <2>5. QED BY <1>0, <2>2, <2>4 DEF WalkInv
<1>3. CASE ~(walk.page > 1 /\ walk.page > PageCount(total))
    <2>1. walk' = [walk EXCEPT !.total = total, !.pc = "rows"]
        BY <1>1, <1>3 DEF CountPage
    <2>2. /\ walk' \in Walks /\ walk'.pc = "rows" /\ walk'.list = walk.list
          /\ walk'.page = walk.page /\ walk'.kept = walk.kept /\ walk'.calm = walk.calm
          /\ walk'.settled = walk.settled /\ walk'.torn = walk.torn /\ walk'.twice = walk.twice
          /\ walk'.total = total /\ walk'.seen = walk.seen
        BY <1>0, <2>1 DEF Walks
    <2>3. PagerOk(walk', db)
        BY <1>0, <2>2 DEF WalkOk, PagerOk
    <2>4. WalkOk(walk', db)
        BY <1>0, <1>1, <2>2, <2>3 DEF WalkOk
    <2>5. QED BY <1>0, <2>2, <2>4 DEF WalkInv
<1>4. QED BY <1>2, <1>3

LEMMA SlotFacts ==
    ASSUME NEW k \in Nat, NEW n \in Nat \ {0}
    PROVE  /\ Passed(n) \in Nat /\ Passed(n + 1) = Passed(n) + PageSize
           /\ k \div PageSize = n - 1 <=> Passed(n) <= k /\ k < Passed(n + 1)
<1> DEFINE q == k \div PageSize
           b == (n - 1) * PageSize
<1>1. PageSize \in Nat \ {0}
    BY ReadingAssumption
<1>2. q \in Nat /\ q * PageSize <= k /\ k < q * PageSize + PageSize
    BY <1>1
<1>3. Passed(n) = b /\ b \in Nat
    BY <1>1 DEF Passed
<1>4. Passed(n + 1) = b + PageSize
    BY <1>1 DEF Passed
<1>5. q * PageSize \in Nat
    BY <1>1, <1>2
<1> HIDE DEF q
<1>6. ASSUME q = n - 1 PROVE q * PageSize = b
    BY <1>6
<1>7. ASSUME q < n - 1 PROVE q * PageSize + PageSize <= b
    <2>1. q + 1 <= n - 1 /\ (q + 1) * PageSize = q * PageSize + PageSize
        BY <1>1, <1>2, <1>7
    <2>2. (q + 1) * PageSize <= (n - 1) * PageSize
        BY <1>1, <1>2, <2>1
    <2>3. QED BY <2>1, <2>2
<1>8. ASSUME q > n - 1 PROVE b + PageSize <= q * PageSize
    <2>1. n <= q /\ n * PageSize = b + PageSize
        BY <1>1, <1>2, <1>8
    <2>2. n * PageSize <= q * PageSize
        BY <1>1, <1>2, <2>1
    <2>3. QED BY <2>1, <2>2
<1> HIDE DEF b
<1>9. q < n - 1 \/ q = n - 1 \/ q > n - 1
    BY <1>2
<1>10. q = n - 1 <=> b <= k /\ k < b + PageSize
    BY <1>1, <1>2, <1>3, <1>5, <1>6, <1>7, <1>8, <1>9
<1>11. QED BY <1>3, <1>4, <1>10 DEF q

LEMMA ShowOk ==
    ASSUME db \in Databases, WalkInv, ShowPage
    PROVE  WalkInv'
<1> DEFINE M == Members(db, walk.list)
           shown == PageOf(db, walk.list, walk.page)
           more == walk.page < PageCount(walk.total)
           place(i) == Place(db, walk.list, i)
<1>0. /\ walk \in Walks /\ WalkOk(walk, db) /\ walk.list \in Lists /\ walk.pc = "rows" /\ db' = db
      /\ walk.page \in Nat \ {0} /\ walk.total \in Nat /\ walk.seen \subseteq PostIds
      /\ walk.kept \subseteq PostIds /\ {walk.settled, walk.torn, walk.calm, walk.twice} \subseteq BOOLEAN
    BY DEF WalkInv, ShowPage, Walks, WalkOk
<1>1. /\ M \subseteq PostIds /\ PageSize \in Nat \ {0}
      /\ \A i \in M : place(i) \in Nat /\ place(i) < Counted(db, walk.list)
      /\ Counted(db, walk.list) \in Nat
    BY <1>0, CountFacts, PlaceFacts, ReadingAssumption
<1>2. PICK c \in Nat, p \in Nat, q \in Nat :
          /\ c = Counted(db, walk.list) /\ p = Passed(walk.page) /\ q = Passed(walk.page + 1)
          /\ q = p + PageSize
    <2>1. Passed(walk.page) \in Nat /\ Passed(walk.page + 1) = Passed(walk.page) + PageSize
        BY <1>0, SlotFacts
    <2>2. QED BY <1>1, <2>1
<1>3. shown \subseteq M /\ \A i \in M : i \in shown <=> p <= place(i) /\ place(i) < q
    <2>1. \A i : i \in shown <=> i \in M /\ place(i) \div PageSize = walk.page - 1
        BY DEF PageOf
    <2>2. ASSUME NEW i \in M
          PROVE  place(i) \div PageSize = walk.page - 1 <=> p <= place(i) /\ place(i) < q
        <3>1. PICK k \in Nat : k = place(i)
            BY <1>1
        <3>2. QED BY <1>0, <1>2, <3>1, SlotFacts
    <2> HIDE DEF shown, M, place
    <2>3. QED BY <2>1, <2>2
<1>4. walk' = [walk EXCEPT !.seen = @ \cup shown, !.twice = @ \/ walk.seen \cap shown # {},
                           !.page = IF more THEN @ + 1 ELSE @,
                           !.pc = IF more THEN "count" ELSE "end"]
    BY DEF ShowPage
<1> HIDE DEF shown, more
<1>5. /\ walk' \in Walks /\ walk'.list = walk.list /\ walk'.total = walk.total
      /\ walk'.seen = walk.seen \cup shown /\ walk'.kept = walk.kept
      /\ walk'.calm = walk.calm /\ walk'.settled = walk.settled /\ walk'.torn = walk.torn
      /\ walk'.twice = (walk.twice \/ walk.seen \cap shown # {})
      /\ more => walk'.page = walk.page + 1 /\ walk'.pc = "count"
      /\ ~more => walk'.page = walk.page /\ walk'.pc = "end"
    <2>1. PICK S \in SUBSET PostIds : S = walk.seen \cup shown
        BY <1>0, <1>1, <1>3
    <2>2. PICK t \in BOOLEAN : t = (walk.twice \/ walk.seen \cap shown # {})
        OBVIOUS
    <2>3. PICK n \in Nat : n = IF more THEN walk.page + 1 ELSE walk.page
        BY <1>0
    <2>4. PICK pc \in {"count", "end"} : pc = IF more THEN "count" ELSE "end"
        OBVIOUS
    <2>5. walk' = [walk EXCEPT !.seen = S, !.twice = t, !.page = n, !.pc = pc]
        BY <1>4, <2>1, <2>2, <2>3, <2>4
    <2>6. /\ walk' \in Walks /\ walk'.list = walk.list /\ walk'.total = walk.total
          /\ walk'.seen = S /\ walk'.kept = walk.kept
          /\ walk'.calm = walk.calm /\ walk'.settled = walk.settled /\ walk'.torn = walk.torn
          /\ walk'.twice = t /\ walk'.page = n /\ walk'.pc = pc
        BY <1>0, <2>5 DEF Walks
    <2>7. QED BY <2>1, <2>2, <2>3, <2>4, <2>6
<1>6. /\ walk.kept \subseteq M
      /\ walk.settled => \A i \in walk.kept : place(i) < p => i \in walk.seen
      /\ walk.calm => \A i \in PostIds : i \in walk.seen <=> i \in M /\ place(i) < p
      /\ walk.calm => walk.settled /\ ~walk.torn /\ ~walk.twice /\ walk.kept = M
      /\ walk.settled => walk.total <= c
      /\ ~walk.torn => walk.total = c
    BY <1>0, <1>2 DEF WalkOk, PagerOk
<1> HIDE DEF M, place
<1>7. walk.settled => \A i \in walk.kept : place(i) < q => i \in walk'.seen
    BY <1>1, <1>3, <1>5, <1>6, <1>2
<1>8. walk.calm => \A i \in PostIds : i \in walk'.seen <=> i \in M /\ place(i) < q
    BY <1>1, <1>2, <1>3, <1>5, <1>6
<1>9. walk.calm => ~walk'.twice
    BY <1>0, <1>1, <1>2, <1>3, <1>5, <1>6
<1>10. CASE more
    <2>1. walk.total # 0 /\ walk.page <= PageCount(walk.total) - 1 /\ PageCount(walk.total) \in Nat
          /\ (PageCount(walk.total) - 1) * PageSize < walk.total
        BY <1>0, <1>10, PageFacts DEF more
    <2>2. q < walk.total
        <3>1. walk.page * PageSize <= (PageCount(walk.total) - 1) * PageSize
            BY <1>0, <1>1, <2>1
        <3>2. q = walk.page * PageSize
            BY <1>0, <1>1, <1>2 DEF Passed
        <3>3. walk.page * PageSize \in Nat /\ (PageCount(walk.total) - 1) * PageSize \in Int
            BY <1>0, <1>1, <2>1
        <3>4. QED BY <1>0, <2>1, <3>1, <3>2, <3>3
    <2>3. walk.settled => q < c
        BY <1>0, <1>2, <1>6, <2>2
    <2>4. Passed(walk'.page) = q /\ Counted(db, walk'.list) = c /\ walk'.list = walk.list
        BY <1>2, <1>5, <1>10
    <2>5. PagerOk(walk', db)
        BY <1>5, <1>7, <1>8, <2>3, <2>4 DEF PagerOk, M, place
    <2>6. walk'.page # 0 /\ walk'.pc = "count"
        BY <1>0, <1>5, <1>10
    <2>7. WalkOk(walk', db)
        BY <1>5, <1>6, <1>9, <2>5, <2>6 DEF WalkOk, M
    <2>8. QED BY <1>0, <1>5, <2>7 DEF WalkInv
<1>11. CASE ~more
    <2>1. walk.total <= q
        <3>1. walk.total <= PageCount(walk.total) * PageSize /\ PageCount(walk.total) \in Nat
              /\ PageCount(walk.total) <= walk.page
            BY <1>0, <1>11, PageFacts DEF more
        <3>2. PageCount(walk.total) * PageSize <= walk.page * PageSize
            BY <1>0, <1>1, <3>1
        <3>3. q = walk.page * PageSize
            BY <1>0, <1>1, <1>2 DEF Passed
        <3>4. PageCount(walk.total) * PageSize \in Nat
            BY <1>1, <3>1
        <3>5. QED BY <1>0, <3>1, <3>2, <3>3, <3>4
    <2>2. ~walk.torn => \A i \in M : place(i) < q
        BY <1>0, <1>1, <1>2, <1>6, <2>1 DEF M, place
    <2>3. walk.settled /\ ~walk.torn => walk'.kept \subseteq walk'.seen
        BY <1>5, <1>6, <1>7, <2>2
    <2>4. walk.calm => walk'.seen = walk'.kept
        <3>1. walk'.seen \subseteq PostIds
            BY <1>0, <1>1, <1>3, <1>5
        <3>2. QED BY <1>1, <1>5, <1>6, <1>8, <2>2, <3>1
    <2>5. walk'.pc = "end" /\ walk'.page # 0
        BY <1>0, <1>5, <1>11
    <2>6. WalkOk(walk', db)
        BY <1>5, <1>6, <1>9, <2>3, <2>4, <2>5 DEF WalkOk, M
    <2>7. QED BY <1>0, <1>5, <2>6 DEF WalkInv
<1>12. QED BY <1>10, <1>11

LEMMA ReadingInitOk == ReadingInit => ReadingTypeOk /\ SearchInv /\ WalkInv
<1> SUFFICES ASSUME ReadingInit PROVE ReadingTypeOk /\ SearchInv /\ WalkInv
    OBVIOUS
<1>1. /\ db \in Databases /\ db.indexed = Present(db) /\ nextPost \in 1 .. MaxPosts + 1
      /\ \A i \in Present(db) : i < nextPost
      /\ reindex = "idle" /\ drifted = FALSE /\ walk = Nowhere /\ edits = 0
    BY DEF ReadingInit
<1>2. walk \in Walks
    BY <1>1, NowhereType
<1>3. ReadingTypeOk
    <2>1. edits \in 0 .. MaxEdits /\ reindex \in {"idle", "cleared"} /\ drifted \in BOOLEAN
        <3>1. MaxEdits \in Nat
            BY ReadingAssumption
        <3>2. edits = 0 /\ reindex = "idle" /\ drifted = FALSE
            BY <1>1
        <3>3. edits \in 0 .. MaxEdits
            BY <3>1, <3>2
        <3>4. drifted \in BOOLEAN
            BY <3>2
        <3>5. QED BY <3>2, <3>3, <3>4
    <2>2. QED BY <1>1, <1>2, <2>1 DEF ReadingTypeOk, Walks
<1>4. SearchInv
    BY <1>1 DEF SearchInv, SearchMatchesTable
<1>5. WalkInv
    BY <1>1, <1>2 DEF WalkInv, WalkOk, Nowhere
<1>6. QED BY <1>3, <1>4, <1>5

LEMMA WalkStep ==
    ReadingTypeOk /\ WalkInv /\ [ReadingNext]_readingVars => WalkInv'
<1> SUFFICES ASSUME ReadingTypeOk, WalkInv, [ReadingNext]_readingVars PROVE WalkInv'
    OBVIOUS
<1>0. db \in Databases
    BY DEF ReadingTypeOk
<1>1. CASE ReadingNext /\ db' # db
    BY <1>0, <1>1, Edits, WalkBesideOk
<1>2. CASE ReadingNext /\ db' = db
    <2>1. CASE \E list \in Lists : StartWalk(list)
        BY <1>0, <2>1, StartOk
    <2>2. CASE CountPage
        BY <1>0, <2>2, CountOk
    <2>3. CASE ShowPage
        BY <1>0, <2>3, ShowOk
    <2>4. CASE walk' = walk
        BY <1>2, <2>4 DEF WalkInv
    <2>5. CASE Change(db')
        BY <1>0, <1>2, <2>5, WalkBesideOk
    <2>6. CASE Edit \/ ClearIndex \/ FillIndex \/ KillReindex
        <3>1. Change(db') \/ walk' = walk
            BY <2>6 DEF Edit, ClearIndex, FillIndex, KillReindex, Change, CreatePost, SavePost,
               DeletePost, HideCategory
        <3>2. QED BY <2>4, <2>5, <3>1
    <2>7. QED BY <1>2, <2>1, <2>2, <2>3, <2>6 DEF ReadingNext
<1>3. CASE UNCHANGED readingVars
    BY <1>3 DEF WalkInv, readingVars
<1>4. QED BY <1>1, <1>2, <1>3

LEMMA TypeStep ==
    ReadingTypeOk /\ WalkInv' /\ [ReadingNext]_readingVars => ReadingTypeOk'
<1> SUFFICES ASSUME ReadingTypeOk, WalkInv', [ReadingNext]_readingVars PROVE ReadingTypeOk'
    OBVIOUS
<1>1. walk' \in Walks
    BY DEF WalkInv
<1>2. db' \in Databases /\ nextPost' \in 1 .. MaxPosts + 1
    <2>1. CASE ReadingNext /\ db' # db
        BY <2>1, Edits
    <2>2. CASE db' = db /\ nextPost' = nextPost
        BY <2>2 DEF ReadingTypeOk
    <2>3. CASE ReadingNext /\ db' = db /\ nextPost' # nextPost
        <3>1. PICK row \in Rows : CreatePost(row)
            BY <2>3 DEF ReadingNext, Edit, SavePost, DeletePost, HideCategory, ClearIndex, FillIndex,
               KillReindex, StartWalk, CountPage, ShowPage
        <3>2. nextPost \in PostIds /\ nextPost' = nextPost + 1
            BY <3>1 DEF CreatePost
        <3>3. nextPost' \in 1 .. MaxPosts + 1
            BY <3>2, PostsFinite DEF PostIds
        <3>4. QED BY <2>3, <3>3 DEF ReadingTypeOk
    <2>4. CASE UNCHANGED readingVars
        BY <2>2, <2>4 DEF readingVars
    <2>5. QED BY <2>1, <2>2, <2>3, <2>4
<1>3. reindex' \in {"idle", "cleared"} /\ drifted' \in BOOLEAN /\ edits' \in 0 .. MaxEdits
    <2>1. CASE Edit
        BY <2>1, ReadingAssumption DEF Edit, ReadingTypeOk
    <2>2. CASE ~Edit
        BY <2>2 DEF ReadingTypeOk, ReadingNext, ClearIndex, FillIndex, KillReindex, StartWalk,
           CountPage, ShowPage, readingVars
    <2>3. QED BY <2>1, <2>2
<1>4. QED BY <1>1, <1>2, <1>3 DEF ReadingTypeOk, Walks

LEMMA ReadingAlways == ReadingSpec => [](ReadingTypeOk /\ SearchInv /\ WalkInv)
<1>1. ReadingTypeOk /\ SearchInv /\ WalkInv /\ [ReadingNext]_readingVars
      => (ReadingTypeOk /\ SearchInv /\ WalkInv)'
    BY SearchStep, WalkStep, TypeStep
<1>2. QED BY <1>1, ReadingInitOk, PTL DEF ReadingSpec

(* Tables, index, reindex and the reader's walk stay in their domains, what *)
(* ever authors save between the statements of a page.                      *)
THEOREM ReadingTypeCorrect == ReadingSpec => []ReadingTypeOk
BY ReadingAlways, PTL

(* Entry triggers and reindex together: the search index has no row of an   *)
(* entry that is gone, and misses one only during a reindex or after one    *)
(* that was cut short or met a new entry.                                   *)
THEOREM SearchIsTrue == ReadingSpec => []SearchMatchesTable
<1>1. SearchInv => SearchMatchesTable
    BY DEF SearchInv
<1>2. QED BY <1>1, ReadingAlways, PTL

(* Who follows the pager to its end has seen every entry that kept its      *)
(* place, and from each entry the chain of neighbours leads on both ways.   *)
THEOREM ReadersReach == ReadingSpec => []ReadersReachAll
<1>1. ReadingTypeOk /\ WalkInv => ReadersReachAll
    <2> SUFFICES ASSUME ReadingTypeOk, WalkInv PROVE ReadersReachAll
        OBVIOUS
    <2>1. NeighboursMirror
        BY Mirrored DEF ReadingTypeOk
    <2>2. WalksComplete
        BY DEF WalkInv, WalkOk, WalksComplete
    <2>3. QED BY <2>1, <2>2 DEF ReadersReachAll
<1>2. QED BY <1>1, ReadingAlways, PTL

-----------------------------------------------------------------------------
(***************************************************************************)
(* Tables that agree on what is published show the same.                   *)
(***************************************************************************)
Agree(d, e) == /\ Published(d) = Published(e)
               /\ \A i \in Published(d) : d.post[i] = e.post[i]

LEMMA AgreeFacts ==
    ASSUME NEW d \in Databases, NEW e \in Databases, Agree(d, e)
    PROVE  /\ \A i, j \in Published(d) : /\ Later(d, i, j) <=> Later(e, i, j)
                                         /\ Newer(d, i, j) <=> Newer(e, i, j)
           /\ \A i \in Published(d) : KeyOf(d, i) = KeyOf(e, i)
           /\ Agree(e, d)
BY DEF Agree, Later, Newer, KeyOf

(* Lists that the build writes.                                             *)
Shelved(list) == list \in Lists /\ list.kind \in {"category", "tag", "month"}

LEMMA AgreePublic ==
    ASSUME NEW d \in Databases, NEW e \in Databases, Agree(d, e), Public(d) = Public(e)
    PROVE  /\ \A i \in Published(d) : Neighbours(d, i) = Neighbours(e, i)
           /\ \A n : Recent(d, n) = Recent(e, n)
           /\ \A list \in Lists : Shelved(list) \/ list = Home =>
                 Members(d, list) = Members(e, list) /\ PageOf(d, list, 1) = PageOf(e, list, 1)
           /\ SidebarMonths(d) = SidebarMonths(e)
<1>1. /\ Public(d) \subseteq Published(d)
      /\ \A i \in Published(d) : d.post[i] = e.post[i]
      /\ Published(d) = Published(e)
    BY TableFacts DEF Agree
<1>2. \A i, j \in Public(d) : /\ Later(d, i, j) <=> Later(e, i, j)
                              /\ Newer(d, i, j) <=> Newer(e, i, j)
    BY <1>1, AgreeFacts
<1>3. ASSUME NEW i \in Public(d)
      PROVE  PrevOf(d, i) = PrevOf(e, i) /\ NextOf(d, i) = NextOf(e, i)
    <2>1. \A j : j \in PrevOf(d, i) <=> j \in PrevOf(e, i)
        BY <1>2 DEF PrevOf
    <2>2. \A j : j \in NextOf(d, i) <=> j \in NextOf(e, i)
        BY <1>2 DEF NextOf
    <2>3. QED BY <2>1, <2>2 DEF PrevOf, NextOf
<1>4. \A i \in Published(d) : Neighbours(d, i) = Neighbours(e, i)
    BY <1>3 DEF Neighbours
<1>5. ASSUME NEW n PROVE Recent(d, n) = Recent(e, n)
    <2>1. ASSUME NEW i \in Public(d)
          PROVE  {j \in Public(d) : Newer(d, j, i)} = {j \in Public(e) : Newer(e, j, i)}
        BY <1>2
    <2>2. QED BY <2>1 DEF Recent
<1>6. ASSUME NEW list \in Lists, Shelved(list) \/ list = Home
      PROVE  Members(d, list) = Members(e, list) /\ PageOf(d, list, 1) = PageOf(e, list, 1)
    <2>0. list.kind \in {"home", "category", "tag", "month"}
        <3>1. Home.kind = "home"
            BY DEF Home
        <3>2. QED BY <1>6, <3>1 DEF Shelved
    <2>1. Members(d, list) = Members(e, list)
        <3>1. \A i : i \in Members(d, list) <=> i \in Members(e, list)
            BY <1>1, <2>0 DEF Members
        <3>2. QED BY <3>1
    <2> DEFINE M == Members(d, list)
    <2>2. M \subseteq Published(d)
        BY TableFacts
    <2>3. \A i, j \in M : Ahead(d, list, i, j) <=> Ahead(e, list, i, j)
        <3>1. \A i, j \in M : /\ Newer(d, i, j) <=> Newer(e, i, j)
                              /\ d.post[i] = e.post[i] /\ d.post[j] = e.post[j]
            BY <1>1, <2>2, AgreeFacts
        <3>2. QED BY <2>0, <3>1 DEF Ahead
    <2>4. ASSUME NEW i \in M PROVE Place(d, list, i) = Place(e, list, i)
        <3>1. {j \in Members(d, list) : Ahead(d, list, j, i)}
              = {j \in Members(e, list) : Ahead(e, list, j, i)}
            BY <2>1, <2>3
        <3>2. QED BY <3>1 DEF Place
    <2>5. PageOf(d, list, 1) = PageOf(e, list, 1)
        <3>1. \A i : i \in PageOf(d, list, 1) <=> i \in PageOf(e, list, 1)
            BY <2>1, <2>4 DEF PageOf
        <3>2. QED BY <3>1 DEF PageOf
    <2>6. QED BY <2>1, <2>5
<1>7. SidebarMonths(d) = SidebarMonths(e)
    <2>1. \A i \in Public(d) : MonthOf[d.post[i].day] = MonthOf[e.post[i].day]
        BY <1>1
    <2>2. QED BY <2>1 DEF SidebarMonths
<1>8. QED BY <1>4, <1>5, <1>6, <1>7

(* A reindex changes nothing that agrees.                                   *)
LEMMA SameRows ==
    ASSUME NEW d \in Databases, NEW e \in Databases, d.post = e.post
    PROVE  /\ Agree(d, e) /\ Present(d) = Present(e)
           /\ d.hidden = e.hidden => Public(d) = Public(e)
BY DEF Agree, Published, Present, Public

(***************************************************************************)
(* A build: what it read stays what it read, what it wrote of that agrees  *)
(* with it, and while nobody saves it agrees with the tables.              *)
(***************************************************************************)
UniqueSlugs(d) ==
    \A i, j \in Present(d) : d.post[i].slug = d.post[j].slug => i = j \/ d.post[i].slug = ""

Read == {"refs", "sidebar", "entries", "category", "tag", "month", "extras", "done"}
Referred == Read \ {"refs"}
Sided == Referred \ {"sidebar"}
Wrote == Sided \ {"entries"}
Listing == {"category", "tag", "month"}

(* The lists that are written at last.                                      *)
PastKinds(pc) == CASE pc = "tag" -> {"category"}
                   [] pc = "month" -> {"category", "tag"}
                   [] pc \in {"extras", "done"} -> {"category", "tag", "month"}
                   [] OTHER -> {}

BuildShape ==
    /\ build = [pc |-> build.pc, all |-> build.all, refs |-> build.refs, side |-> build.side,
                todo |-> build.todo, listed |-> build.listed, clean |-> build.clean]
    /\ shelf = [home |-> shelf.home, entries |-> shelf.entries, lists |-> shelf.lists,
                feed |-> shelf.feed, llms |-> shelf.llms, sitemap |-> shelf.sitemap,
                links |-> shelf.links]
    /\ build.pc \in {"idle"} \cup Read
    /\ build.all \in [PostIds -> Rows \cup {NoRow}]
    /\ build.refs \subseteq Categories
    /\ build.listed \in BOOLEAN /\ build.clean \in BOOLEAN
    /\ build.pc \notin Wrote => shelf.links = {} /\ shelf.lists = {}
    /\ build.pc = "idle" => build.clean /\ build.all = NoPost
    /\ build.pc \notin Listing => ~build.listed
    /\ ~build.listed => build.todo = {}
    /\ build.todo \subseteq {list \in Lists : list.kind = build.pc}
    /\ \A i \in PostIds : build.all[i] = NoRow \/ build.all[i].st = "published"

(* What was read is what is there, as far as a page shows it.               *)
ReadInv ==
    /\ UniqueSlugs(db) /\ UniqueSlugs(EntriesRead)
    /\ build.clean /\ build.pc # "idle" => Agree(EntriesRead, db)
    /\ build.clean /\ build.pc \in Referred => build.refs = db.hidden \cap CatsRead

(* Lists that are written, or that lead to a hidden category.               *)
Expected(list) ==
    \/ \E c \in Categories : list = Category(c) /\ (c \notin db.hidden \/ c \in build.refs)
    \/ \E t \in Tags : list = Tag(t)
    \/ \E m \in SidebarMonths(db) : list = Month(m)

ToEntry(link) == link.to = "entry" /\ \E i \in Published(EntriesRead) : link.key = KeyOf(EntriesRead, i)
Leading(link) == ToEntry(link) \/ (link.to = "list" /\ Expected(link.list))

LinkInv ==
    /\ build.clean /\ build.pc \in Sided => \A link \in build.side : Leading(link)
    /\ \A l \in shelf.links :
          /\ l.on \notin {"sidebar", "list"} => ToEntry(l.link) \/ l.link.to = "list"
          /\ build.clean => Leading(l.link)

(* What is on the shelf.                                                    *)
PagesInv ==
    /\ build.pc \in Wrote => shelf.home = HomeRows /\ shelf.entries = EntryPages
    /\ build.pc \notin Wrote => shelf.home = {} /\ shelf.entries = {}
    /\ build.pc # "done" => shelf.feed = {} /\ shelf.llms = {} /\ shelf.sitemap = {}
    /\ build.pc = "done" => /\ shelf.feed = FeedEntries /\ shelf.llms = LLMsEntries
                            /\ shelf.sitemap = SitemapEntries(RefsRead)

ListsInv ==
    /\ \A page \in shelf.lists :
          /\ Shelved(page.list) /\ page.shows \subseteq PostIds
          /\ build.clean => page.shows = PageOf(db, page.list, 1)
    /\ build.clean => \A kind \in PastKinds(build.pc) : \A list \in ListsOf(kind) : Written(list)
    /\ build.clean /\ build.listed => \A list \in ListsOf(build.pc) : list \in build.todo \/ Written(list)

SnapInv == BuildShape /\ ReadInv /\ LinkInv /\ PagesInv /\ ListsInv

(* The tables a writer has in memory.                                       *)
LEMMA ReadFacts ==
    ASSUME BuildShape
    PROVE  /\ EntriesRead \in Databases /\ RefsRead \in Databases
           /\ EntriesRead.post = build.all /\ EntriesRead.hidden = {}
           /\ RefsRead.post = build.all /\ RefsRead.hidden = build.refs
           /\ Agree(EntriesRead, RefsRead)
           /\ Public(EntriesRead) = Published(EntriesRead)
           /\ Public(RefsRead) \subseteq Published(EntriesRead)
           /\ Present(EntriesRead) = Published(EntriesRead)
           /\ Published(EntriesRead) \subseteq PostIds
<1>1. EntriesRead \in Databases
    BY DEF BuildShape, EntriesRead, Databases
<1>2. RefsRead \in Databases /\ RefsRead.post = build.all /\ RefsRead.hidden = build.refs
    BY DEF BuildShape, EntriesRead, Databases, RefsRead
<1>3. EntriesRead.post = build.all /\ EntriesRead.hidden = {}
    BY DEF EntriesRead
<1>4. Agree(EntriesRead, RefsRead)
    BY <1>1, <1>2, <1>3, SameRows
<1>5. Public(EntriesRead) = Published(EntriesRead)
    BY <1>3 DEF Public
<1>6. Public(RefsRead) \subseteq Published(EntriesRead)
    BY <1>2, <1>4, TableFacts DEF Agree
<1>7. Present(EntriesRead) = Published(EntriesRead)
    BY <1>3, RowFacts DEF BuildShape, Present, Published
<1>8. QED BY <1>1, <1>2, <1>3, <1>4, <1>5, <1>6, <1>7 DEF Published

(* Where the build referred to the categories as they are, it knows which   *)
(* of its entries are hidden.                                               *)
LEMMA CleanFacts ==
    ASSUME BuildShape, ReadInv, db \in Databases, build.clean, build.pc \in Referred
    PROVE  /\ Agree(EntriesRead, db) /\ Agree(RefsRead, db)
           /\ Public(RefsRead) = Public(db)
           /\ \A i \in Published(db) :
                 db.post[i].cat \in Categories => db.post[i].cat \in CatsRead
           /\ \A c \in CatsRead : c \in build.refs <=> c \in db.hidden
<1>1. Agree(EntriesRead, db) /\ build.refs = db.hidden \cap CatsRead
    BY DEF ReadInv, Referred, Read
<1>2. Agree(RefsRead, db)
    BY <1>1, ReadFacts DEF Agree
<1>3. \A i \in Published(db) : i \in Published(EntriesRead) /\ build.all[i] = db.post[i]
    BY <1>1, ReadFacts DEF Agree
<1>4. \A i \in Published(db) : db.post[i].cat \in Categories => db.post[i].cat \in CatsRead
    BY <1>3 DEF CatsRead
<1>5. \A c \in CatsRead : c \in build.refs <=> c \in db.hidden
    BY <1>1
<1>6. ASSUME NEW i \in Published(db)
      PROVE  db.post[i].cat \in build.refs <=> db.post[i].cat \in db.hidden
    <2>1. db.hidden \subseteq Categories
        BY TableFacts
    <2>2. QED BY <1>1, <1>4, <2>1
<1>7. \A i : i \in Public(RefsRead) <=> i \in Public(db)
    BY <1>2, <1>3, <1>6, ReadFacts DEF Public, Agree
<1>8. QED BY <1>1, <1>2, <1>4, <1>5, <1>7

LEMMA SameReads ==
    ASSUME build'.all = build.all, build'.refs = build.refs
    PROVE  /\ EntriesRead' = EntriesRead /\ RefsRead' = RefsRead /\ CatsRead' = CatsRead
           /\ HomeRows' = HomeRows /\ EntryPages' = EntryPages
           /\ FeedEntries' = FeedEntries /\ LLMsEntries' = LLMsEntries
           /\ \A link : ToEntry(link)' <=> ToEntry(link)
<1>1. EntriesRead' = EntriesRead
    BY DEF EntriesRead
<1>2. RefsRead' = RefsRead
    BY <1>1 DEF RefsRead
<1>3. CatsRead' = CatsRead
    BY <1>1 DEF CatsRead
<1>4. HomeRows' = HomeRows /\ FeedEntries' = FeedEntries /\ LLMsEntries' = LLMsEntries
    BY <1>1 DEF HomeRows, FeedEntries, LLMsEntries
<1>5. EntryPages' = EntryPages
    BY <1>1, <1>2 DEF EntryPages
<1>6. \A link : ToEntry(link)' <=> ToEntry(link)
    BY <1>1 DEF ToEntry
<1>7. QED BY <1>1, <1>2, <1>3, <1>4, <1>5, <1>6

(* No two entries are given one slug.                                       *)
LEMMA UniqueStep ==
    ASSUME ReadingTypeOk, UniqueSlugs(db), [ReadingNext]_readingVars
    PROVE  UniqueSlugs(db')
<1>0. db \in Databases /\ db.post \in [PostIds -> Rows \cup {NoRow}] /\ Present(db) \subseteq PostIds
    BY TableFacts DEF ReadingTypeOk
<1>1. ASSUME NEW i \in PostIds, NEW row \in Rows, FreeSlug(i, row), db'.post = [db.post EXCEPT ![i] = row]
      PROVE  UniqueSlugs(db')
    <2>1. \A j \in Present(db') : j = i \/ j \in Present(db)
        BY <1>0, <1>1 DEF Present
    <2>2. \A j \in Present(db') : j # i => db'.post[j] = db.post[j]
        BY <1>0, <1>1, <2>1
    <2>3. db'.post[i] = row
        BY <1>0, <1>1
    <2>4. QED BY <1>1, <2>1, <2>2, <2>3 DEF UniqueSlugs, FreeSlug
<1>2. ASSUME \A j \in Present(db') : j \in Present(db) /\ db'.post[j] = db.post[j]
      PROVE  UniqueSlugs(db')
    BY <1>2 DEF UniqueSlugs
<1>3. CASE \E row \in Rows : CreatePost(row)
    <2>1. PICK row \in Rows : CreatePost(row)
        BY <1>3
    <2>2. /\ nextPost \in PostIds /\ FreeSlug(nextPost, row)
          /\ db' = [db EXCEPT !.post[nextPost] = row, !.indexed = db.indexed \cup {nextPost}]
        BY <2>1 DEF CreatePost, Change
    <2>3. db'.post = [db.post EXCEPT ![nextPost] = row]
        BY <1>0, <2>2 DEF Databases
    <2>4. QED BY <1>1, <2>2, <2>3
<1>4. CASE \E i \in PostIds, row \in Rows : SavePost(i, row)
    <2>1. PICK i \in PostIds, row \in Rows : SavePost(i, row)
        BY <1>4
    <2>2. FreeSlug(i, row) /\ db' = [db EXCEPT !.post[i] = row]
        BY <2>1 DEF SavePost, Change
    <2>3. db'.post = [db.post EXCEPT ![i] = row]
        BY <1>0, <2>2 DEF Databases
    <2>4. QED BY <1>1, <2>2, <2>3
<1>5. CASE \E i \in PostIds : DeletePost(i)
    <2>1. PICK i \in PostIds : db' = [db EXCEPT !.post[i] = NoRow, !.indexed = db.indexed \ {i}]
        BY <1>5 DEF DeletePost, Change
    <2>2. db'.post = [db.post EXCEPT ![i] = NoRow]
        BY <1>0, <2>1 DEF Databases
    <2>3. QED BY <1>0, <1>2, <2>2 DEF Present
<1>6. CASE db'.post = db.post
    BY <1>2, <1>6 DEF Present
<1>7. Edit => \/ \E row \in Rows : CreatePost(row)
              \/ \E i \in PostIds, row \in Rows : SavePost(i, row)
              \/ \E i \in PostIds : DeletePost(i)
              \/ db'.post = db.post
    <2>1. ASSUME NEW c \in Categories, HideCategory(c) PROVE db'.post = db.post
        <3>1. PICK H : db' = [db EXCEPT !.hidden = H]
            BY <2>1 DEF HideCategory, Change
        <3>2. QED BY <1>0, <3>1 DEF Databases
    <2>2. QED BY <2>1 DEF Edit
<1>8. ~Edit => db'.post = db.post
    BY <1>0 DEF ReadingNext, ClearIndex, FillIndex, KillReindex, StartWalk, CountPage, ShowPage,
       Change, readingVars, Databases
<1>9. QED BY <1>3, <1>4, <1>5, <1>6, <1>7, <1>8

(* What is not a save leaves everything that a build reads.                 *)
LEMMA NoEdit ==
    ASSUME ReadingTypeOk, ReadingNext, edits' = edits
    PROVE  db'.post = db.post /\ db'.hidden = db.hidden
<1>1. ~Edit
    BY DEF Edit, ReadingTypeOk
<1>2. QED BY <1>1 DEF ReadingNext, ClearIndex, FillIndex, KillReindex, StartWalk, CountPage, ShowPage,
       Change, Databases, ReadingTypeOk

(* Saves, reindexes and readers beside a build.                             *)
LEMMA BesideStep ==
    ASSUME ReadingTypeOk, ReadingTypeOk', SnapInv, ReadingBeside
    PROVE  SnapInv'
<1>0. /\ db \in Databases /\ db' \in Databases /\ shelf' = shelf /\ ReadingNext
      /\ UniqueSlugs(db')
    BY UniqueStep DEF ReadingTypeOk, ReadingBeside, SnapInv, ReadInv, snapshotVars
<1>1. CASE edits' # edits
    <2>1. build' = [build EXCEPT !.clean = @ /\ build.pc = "idle"]
        BY <1>1 DEF ReadingBeside, BuildBeside
    <2>2. PICK b \in BOOLEAN : b = (build.clean /\ build.pc = "idle")
        OBVIOUS
    <2>3. build' = [build EXCEPT !.clean = b]
        BY <2>1, <2>2
    <2>4. /\ build'.pc = build.pc /\ build'.all = build.all /\ build'.refs = build.refs
          /\ build'.side = build.side /\ build'.todo = build.todo /\ build'.listed = build.listed
          /\ build'.clean = b
          /\ build' = [pc |-> build'.pc, all |-> build'.all, refs |-> build'.refs,
                       side |-> build'.side, todo |-> build'.todo, listed |-> build'.listed,
                       clean |-> build'.clean]
        BY <2>3 DEF SnapInv, BuildShape
    <2>5. BuildShape'
        BY <1>0, <2>2, <2>4 DEF SnapInv, BuildShape
    <2>6. build'.clean => build'.pc = "idle"
        BY <2>2, <2>4
    <2>7. ReadInv'
        BY <1>0, <2>4, <2>6, SameReads DEF SnapInv, ReadInv, Referred, Read
    <2>8. build'.pc = "idle" => shelf'.links = {} /\ shelf'.lists = {} /\ ~build'.listed
        BY <2>5 DEF BuildShape, Listing, Wrote, Sided, Referred, Read
    <2>9. LinkInv'
        <3>1. build'.clean /\ build'.pc \in Sided => FALSE
            BY <2>6 DEF Sided, Referred, Read
        <3>2. \A link : ToEntry(link)' <=> ToEntry(link)
            BY <2>4, SameReads
        <3>3. QED BY <1>0, <2>6, <2>8, <3>1, <3>2 DEF SnapInv, LinkInv
    <2>10. PagesInv'
        BY <1>0, <2>4, SameReads DEF SnapInv, PagesInv
    <2>11. ListsInv'
        <3>1. build'.clean => PastKinds(build'.pc) = {} /\ ~build'.listed
            BY <2>6, <2>8 DEF PastKinds
        <3>2. QED BY <1>0, <2>6, <2>8, <3>1 DEF SnapInv, ListsInv
    <2>12. QED BY <2>5, <2>7, <2>9, <2>10, <2>11 DEF SnapInv
<1>2. CASE edits' = edits
    <2>1. build' = build /\ db'.post = db.post /\ db'.hidden = db.hidden
        BY <1>0, <1>2, NoEdit DEF ReadingBeside
    <2>2. Agree(db, db') /\ Public(db) = Public(db')
        BY <1>0, <2>1, SameRows
    <2>3. /\ \A list \in Lists : Shelved(list) => PageOf(db, list, 1) = PageOf(db', list, 1)
          /\ SidebarMonths(db) = SidebarMonths(db')
        BY <1>0, <2>2, AgreePublic
    <2>4. BuildShape'
        BY <1>0, <2>1 DEF SnapInv, BuildShape
    <2>5. Agree(EntriesRead, db) => Agree(EntriesRead, db')
        BY <2>2 DEF Agree
    <2>6. ReadInv'
        BY <1>0, <2>1, <2>5, SameReads DEF SnapInv, ReadInv
    <2>7. \A link : Leading(link) => Leading(link)'
        BY <2>1, <2>3, SameReads DEF Leading, Expected
    <2>8. LinkInv'
        BY <1>0, <2>1, <2>7, SameReads DEF SnapInv, LinkInv
    <2>9. PagesInv'
        BY <1>0, <2>1, SameReads DEF SnapInv, PagesInv
    <2>10. \A kind : ListsOf(kind)' = ListsOf(kind)
        BY <2>1, <2>3 DEF ListsOf
    <2>11. \A list : Written(list)' <=> Written(list)
        BY <1>0 DEF Written
    <2>12. \A page \in shelf.lists : Shelved(page.list) => page.list \in Lists
        BY DEF Shelved
    <2>13. ListsInv'
        BY <1>0, <2>1, <2>3, <2>10, <2>11, <2>12 DEF SnapInv, ListsInv
    <2>14. QED BY <2>4, <2>6, <2>8, <2>9, <2>13 DEF SnapInv
<1>3. QED BY <1>1, <1>2

(***************************************************************************)
(* Links.                                                                  *)
(***************************************************************************)
LEMMA EntryLinkIs ==
    ASSUME BuildShape, NEW d \in Databases, Agree(EntriesRead, d), NEW i \in Published(d)
    PROVE  EntryLink(d, i).to = "entry" /\ ToEntry(EntryLink(d, i))
<1>1. i \in Published(EntriesRead) /\ KeyOf(d, i) = KeyOf(EntriesRead, i)
    BY ReadFacts, AgreeFacts DEF Agree
<1>2. QED BY <1>1 DEF EntryLink, ToEntry

LEMMA ListLinkIs ==
    ASSUME NEW list
    PROVE  /\ ListLink(list).to = "list" /\ ListLink(list).list = list
           /\ Expected(list) => Leading(ListLink(list))
BY DEF ListLink, Leading

LEMMA RowLinksOk ==
    ASSUME BuildShape, ReadInv, db \in Databases, NEW d \in Databases, Agree(EntriesRead, d),
           NEW i \in Published(d), NEW link \in RowLinks(d, i)
    PROVE  /\ ToEntry(link) \/ link.to = "list"
           /\ build.clean /\ build.pc \in Referred => Leading(link)
<1>1. CASE link = EntryLink(d, i)
    BY <1>1, EntryLinkIs DEF Leading
<1>2. CASE \E c \in CatsRead : link = ListLink(Category(c))
    <2>1. PICK c \in CatsRead : link = ListLink(Category(c))
        BY <1>2
    <2>2. c \in Categories
        BY DEF CatsRead
    <2>3. build.clean /\ build.pc \in Referred => Expected(Category(c))
        BY <2>2, CleanFacts DEF Expected
    <2>4. link.to = "list"
        BY <2>1, ListLinkIs
    <2>5. QED BY <2>1, <2>3, <2>4, ListLinkIs
<1>3. CASE \E t \in Tags : link = ListLink(Tag(t))
    <2>1. PICK t \in Tags : link = ListLink(Tag(t))
        BY <1>3
    <2>2. Expected(Tag(t))
        BY DEF Expected
    <2>3. link.to = "list"
        BY <2>1, ListLinkIs
    <2>4. QED BY <2>1, <2>2, <2>3, ListLinkIs
<1>4. \A j \in Present(db) : db.post[j].tags \subseteq Tags
    BY TableFacts DEF Tags
<1>5. QED BY <1>1, <1>2, <1>3, <1>4 DEF RowLinks

LEMMA EntryPageLinksOk ==
    ASSUME BuildShape, ReadInv, db \in Databases,
           NEW i \in Published(EntriesRead), NEW link \in EntryPageLinks(i)
    PROVE  /\ ToEntry(link) \/ link.to = "list"
           /\ build.clean /\ build.pc \in Referred => Leading(link)
<1>0. EntriesRead \in Databases /\ Agree(EntriesRead, EntriesRead)
    BY ReadFacts DEF Agree
<1>1. CASE link \in RowLinks(EntriesRead, i)
    BY <1>0, <1>1, RowLinksOk
<1>2. CASE link \in NavLinks(i)
    <2>1. PICK j \in Neighbours(RefsRead, i).prev \cup Neighbours(RefsRead, i).next :
              link = EntryLink(EntriesRead, j)
        BY <1>2 DEF NavLinks
    <2>2. j \in Public(RefsRead)
        BY <2>1 DEF Neighbours, PrevOf, NextOf
    <2>3. j \in Published(EntriesRead)
        BY <2>2, ReadFacts
    <2>4. QED BY <1>0, <2>1, <2>3, EntryLinkIs DEF Leading
<1>3. QED BY <1>1, <1>2 DEF EntryPageLinks

LEMMA SidebarOk ==
    ASSUME BuildShape, ReadInv, db \in Databases, build.clean, build.pc \in Referred,
           NEW link \in SidebarLinks(db)
    PROVE  Leading(link)
<1>0. Agree(EntriesRead, db) /\ Public(db) \subseteq Published(db)
    BY CleanFacts, TableFacts
<1>1. CASE link \in ArchiveLinks(db)
    <2>1. PICK m \in SidebarMonths(db) : link = ListLink(Month(m))
        BY <1>1 DEF ArchiveLinks
    <2>2. QED BY <2>1, ListLinkIs DEF Expected
<1>2. CASE link \in CategoryLinks(db)
    <2>1. PICK c \in SidebarCategories(db) : link = ListLink(Category(c))
        BY <1>2 DEF CategoryLinks
    <2>2. c \in Categories /\ c \notin db.hidden
        BY <2>1 DEF SidebarCategories
    <2>3. Expected(Category(c))
        BY <2>2 DEF Expected
    <2>4. QED BY <2>1, <2>3, ListLinkIs
<1>3. CASE link \in CommentLinks(db) \cup LatestLinks(db)
    <2>1. PICK i \in Public(db) : link = EntryLink(db, i)
        BY <1>3 DEF CommentLinks, LatestLinks, Recent
    <2>2. QED BY <1>0, <2>1, EntryLinkIs DEF Leading
<1>4. QED BY <1>1, <1>2, <1>3 DEF SidebarLinks

LEMMA SitemapOk ==
    ASSUME BuildShape, ReadInv, db \in Databases, NEW link \in SitemapLinks
    PROVE  /\ ToEntry(link) \/ link.to = "list"
           /\ build.clean /\ build.pc \in Referred => Leading(link)
<1>0. EntriesRead \in Databases /\ Agree(EntriesRead, EntriesRead)
    BY ReadFacts DEF Agree
<1>1. CASE \E i \in SitemapEntries(RefsRead) : link = EntryLink(EntriesRead, i)
    <2>1. PICK i \in SitemapEntries(RefsRead) : link = EntryLink(EntriesRead, i)
        BY <1>1
    <2>2. i \in Published(EntriesRead)
        BY ReadFacts DEF SitemapEntries, Agree
    <2>3. QED BY <1>0, <2>1, <2>2, EntryLinkIs DEF Leading
<1>2. CASE \E c \in CatsRead \ build.refs : link = ListLink(Category(c))
    <2>1. PICK c \in CatsRead \ build.refs : link = ListLink(Category(c))
        BY <1>2
    <2>2. c \in Categories
        BY <2>1 DEF CatsRead
    <2>3. build.clean /\ build.pc \in Referred => Expected(Category(c))
        BY <2>1, <2>2, CleanFacts DEF Expected
    <2>4. QED BY <2>1, <2>3, ListLinkIs
<1>3. CASE \E t \in Tags : link = ListLink(Tag(t))
    <2>1. PICK t \in Tags : link = ListLink(Tag(t))
        BY <1>3
    <2>2. Expected(Tag(t))
        BY DEF Expected
    <2>3. QED BY <2>1, <2>2, ListLinkIs
<1>4. QED BY <1>1, <1>2, <1>3 DEF SitemapLinks

LEMMA OnIs == \A page, links, l : l \in On(page, links) <=> \E k \in links : l = [on |-> page, link |-> k]
BY DEF On

(***************************************************************************)
(* The steps of a build.                                                   *)
(***************************************************************************)
LEMMA LoadEntriesStep ==
    ASSUME db \in Databases, UNCHANGED readingVars, SnapInv, LoadEntries
    PROVE  SnapInv'
<1> DEFINE all == [i \in PostIds |-> IF i \in Published(db) THEN db.post[i] ELSE NoRow]
<1>0. db' = db /\ shelf' = shelf /\ build.pc = "idle"
    BY DEF LoadEntries, readingVars
<1>1. build' = [build EXCEPT !.pc = "refs", !.all = all]
    BY DEF LoadEntries
<1>2. all \in [PostIds -> Rows \cup {NoRow}]
    BY TableFacts
<1>3. \A i \in PostIds : all[i] = IF i \in Published(db) THEN db.post[i] ELSE NoRow
    OBVIOUS
<1> HIDE DEF all
<1>4. /\ build'.pc = "refs" /\ build'.all = all /\ build'.refs = build.refs
      /\ build'.side = build.side /\ build'.todo = build.todo /\ build'.listed = build.listed
      /\ build'.clean = build.clean
      /\ build' = [pc |-> build'.pc, all |-> build'.all, refs |-> build'.refs,
                   side |-> build'.side, todo |-> build'.todo, listed |-> build'.listed,
                   clean |-> build'.clean]
    BY <1>1 DEF SnapInv, BuildShape
<1>5. BuildShape'
    <2>1. /\ ~build.listed /\ build.todo = {} /\ shelf.links = {} /\ shelf.lists = {}
        BY <1>0 DEF SnapInv, BuildShape, Listing, Wrote, Sided, Referred, Read
    <2>2. \A i \in PostIds : all[i] = NoRow \/ all[i].st = "published"
        BY <1>3 DEF Published
    <2>3. build'.pc \notin Listing /\ build'.pc \in {"idle"} \cup Read
        BY <1>4 DEF Listing, Read
    <2>4. QED BY <1>0, <1>2, <1>4, <2>1, <2>2, <2>3 DEF SnapInv, BuildShape
<1>6. EntriesRead'.post = all
    BY <1>4 DEF EntriesRead
<1>7. Agree(EntriesRead', db) /\ Present(EntriesRead') \subseteq Published(db)
    <2>1. \A i \in PostIds : i \in Published(EntriesRead') <=> i \in Published(db)
        BY <1>3, <1>6, RowFacts DEF Published
    <2>2. Published(EntriesRead') \subseteq PostIds /\ Published(db) \subseteq PostIds
        BY DEF Published
    <2>3. QED BY <1>3, <1>6, <2>1, <2>2 DEF Agree, Present
<1>8. ReadInv'
    <2>1. UniqueSlugs(db)
        BY DEF SnapInv, ReadInv
    <2>2. \A i \in Present(EntriesRead') : i \in Present(db) /\ EntriesRead'.post[i] = db.post[i]
        BY <1>3, <1>6, <1>7, TableFacts DEF Published
    <2>3. UniqueSlugs(EntriesRead')
        BY <2>1, <2>2 DEF UniqueSlugs
    <2>4. build'.pc \notin Referred
        BY <1>4 DEF Referred
    <2>5. QED BY <1>0, <1>7, <2>1, <2>3, <2>4 DEF ReadInv
<1>9. LinkInv' /\ PagesInv' /\ ListsInv'
    <2>1. shelf'.links = {} /\ shelf'.lists = {} /\ ~build'.listed /\ build'.pc = "refs"
        BY <1>4, <1>5 DEF BuildShape, Listing, Wrote, Sided, Referred
    <2>2. "refs" \notin Sided /\ "refs" \notin Wrote /\ PastKinds("refs") = {}
        BY DEF Sided, Wrote, Referred, PastKinds
    <2>3. build.pc \notin Wrote /\ shelf' = shelf /\ build.pc # "done"
        BY <1>0 DEF Wrote, Sided, Referred, Read
    <2>4. QED BY <2>1, <2>2, <2>3 DEF SnapInv, LinkInv, PagesInv, ListsInv
<1>10. QED BY <1>5, <1>8, <1>9 DEF SnapInv

(* What depends on the entries alone.                                       *)
LEMMA SameEntries ==
    ASSUME build'.all = build.all
    PROVE  EntriesRead' = EntriesRead /\ CatsRead' = CatsRead
<1>1. EntriesRead' = EntriesRead
    BY DEF EntriesRead
<1>2. QED BY <1>1 DEF CatsRead

LEMMA LoadRefsStep ==
    ASSUME db \in Databases, UNCHANGED readingVars, SnapInv, LoadRefs
    PROVE  SnapInv'
<1>0. db' = db /\ shelf' = shelf /\ build.pc = "refs"
    BY DEF LoadRefs, readingVars
<1>1. build' = [build EXCEPT !.pc = "sidebar", !.refs = db.hidden \cap CatsRead]
    BY DEF LoadRefs
<1>2. /\ build'.pc = "sidebar" /\ build'.all = build.all /\ build'.refs = db.hidden \cap CatsRead
      /\ build'.side = build.side /\ build'.todo = build.todo /\ build'.listed = build.listed
      /\ build'.clean = build.clean
      /\ build' = [pc |-> build'.pc, all |-> build'.all, refs |-> build'.refs,
                   side |-> build'.side, todo |-> build'.todo, listed |-> build'.listed,
                   clean |-> build'.clean]
    BY <1>1 DEF SnapInv, BuildShape
<1>3. BuildShape'
    <2>1. /\ ~build.listed /\ build.todo = {} /\ shelf.links = {} /\ shelf.lists = {}
        BY <1>0 DEF SnapInv, BuildShape, Listing, Wrote, Sided, Referred
    <2>2. build'.pc \notin Listing /\ build'.pc \in {"idle"} \cup Read
        BY <1>2 DEF Listing, Read
    <2>3. build'.refs \subseteq Categories
        BY <1>2 DEF CatsRead
    <2>4. QED BY <1>0, <1>2, <2>1, <2>2, <2>3 DEF SnapInv, BuildShape
<1>4. EntriesRead' = EntriesRead /\ CatsRead' = CatsRead
    BY <1>2, SameEntries
<1>5. ReadInv'
    BY <1>0, <1>2, <1>4 DEF SnapInv, ReadInv
<1>6. LinkInv' /\ PagesInv' /\ ListsInv'
    <2>1. shelf'.links = {} /\ shelf'.lists = {} /\ ~build'.listed /\ build'.pc = "sidebar"
        BY <1>2, <1>3 DEF BuildShape, Listing, Wrote, Sided
    <2>2. "sidebar" \notin Sided /\ "sidebar" \notin Wrote /\ PastKinds("sidebar") = {}
        BY DEF Sided, Wrote, PastKinds
    <2>3. build.pc \notin Wrote /\ shelf' = shelf /\ build.pc # "done"
        BY <1>0 DEF Wrote, Sided, Referred
    <2>4. QED BY <2>1, <2>2, <2>3 DEF SnapInv, LinkInv, PagesInv, ListsInv
<1>7. QED BY <1>3, <1>5, <1>6 DEF SnapInv

LEMMA LoadSidebarStep ==
    ASSUME db \in Databases, UNCHANGED readingVars, SnapInv, LoadSidebar
    PROVE  SnapInv'
<1>0. db' = db /\ shelf' = shelf /\ build.pc = "sidebar"
    BY DEF LoadSidebar, readingVars
<1>1. build' = [build EXCEPT !.pc = "entries", !.side = SidebarLinks(db)]
    BY DEF LoadSidebar
<1>2. /\ build'.pc = "entries" /\ build'.all = build.all /\ build'.refs = build.refs
      /\ build'.side = SidebarLinks(db) /\ build'.todo = build.todo /\ build'.listed = build.listed
      /\ build'.clean = build.clean
      /\ build' = [pc |-> build'.pc, all |-> build'.all, refs |-> build'.refs,
                   side |-> build'.side, todo |-> build'.todo, listed |-> build'.listed,
                   clean |-> build'.clean]
    BY <1>1 DEF SnapInv, BuildShape
<1>3. BuildShape'
    <2>1. /\ ~build.listed /\ build.todo = {} /\ shelf.links = {} /\ shelf.lists = {}
        BY <1>0 DEF SnapInv, BuildShape, Listing, Wrote, Sided
    <2>2. build'.pc \notin Listing /\ build'.pc \in {"idle"} \cup Read
        BY <1>2 DEF Listing, Read
    <2>3. QED BY <1>0, <1>2, <2>1, <2>2 DEF SnapInv, BuildShape
<1>4. EntriesRead' = EntriesRead /\ CatsRead' = CatsRead
    BY <1>2, SameEntries
<1>5. ReadInv'
    BY <1>0, <1>2, <1>4 DEF SnapInv, ReadInv, Referred, Read
<1>6. PagesInv' /\ ListsInv'
    <2>1. shelf'.lists = {} /\ ~build'.listed /\ build'.pc = "entries"
        BY <1>2, <1>3 DEF BuildShape, Listing, Wrote
    <2>2. "entries" \notin Wrote /\ PastKinds("entries") = {}
        BY DEF Wrote, PastKinds
    <2>3. build.pc \notin Wrote /\ shelf' = shelf /\ build.pc # "done"
        BY <1>0 DEF Wrote, Sided
    <2>4. QED BY <2>1, <2>2, <2>3 DEF SnapInv, PagesInv, ListsInv
<1>7. LinkInv'
    <2>1. shelf'.links = {}
        BY <1>2, <1>3 DEF BuildShape, Wrote
    <2>2. ASSUME build.clean, NEW link \in SidebarLinks(db) PROVE Leading(link)'
        <3>1. Leading(link)
            BY <1>0, <2>2, SidebarOk DEF SnapInv, Referred, Read
        <3>2. QED BY <1>0, <1>2, <3>1, SameReads DEF Leading, Expected
    <2>3. QED BY <1>2, <2>1, <2>2 DEF LinkInv
<1>8. QED BY <1>3, <1>5, <1>6, <1>7 DEF SnapInv

LEMMA WriteEntriesStep ==
    ASSUME db \in Databases, UNCHANGED readingVars, SnapInv, WriteEntries
    PROVE  SnapInv'
<1> DEFINE links == shelf.links
                 \cup On("home", UNION {RowLinks(EntriesRead, i) : i \in HomeRows})
                 \cup On("entry", UNION {EntryPageLinks(p.is) : p \in EntryPages})
                 \cup On("sidebar", build.side)
<1>0. db' = db /\ build.pc = "entries"
    BY DEF WriteEntries, readingVars
<1>1. /\ build' = [build EXCEPT !.pc = "category"]
      /\ shelf' = [shelf EXCEPT !.home = HomeRows, !.entries = EntryPages, !.links = links]
    BY DEF WriteEntries
<1> HIDE DEF links
<1>2. /\ build'.pc = "category" /\ build'.all = build.all /\ build'.refs = build.refs
      /\ build'.side = build.side /\ build'.todo = build.todo /\ build'.listed = build.listed
      /\ build'.clean = build.clean
      /\ build' = [pc |-> build'.pc, all |-> build'.all, refs |-> build'.refs,
                   side |-> build'.side, todo |-> build'.todo, listed |-> build'.listed,
                   clean |-> build'.clean]
    BY <1>1 DEF SnapInv, BuildShape
<1>3. /\ shelf'.home = HomeRows /\ shelf'.entries = EntryPages /\ shelf'.links = links
      /\ shelf'.lists = shelf.lists
      /\ shelf' = [home |-> shelf'.home, entries |-> shelf'.entries, lists |-> shelf'.lists,
                   feed |-> shelf'.feed, llms |-> shelf'.llms, sitemap |-> shelf'.sitemap,
                   links |-> shelf'.links]
    BY <1>1 DEF SnapInv, BuildShape
<1>4. ~build.listed /\ build.todo = {} /\ shelf.links = {} /\ shelf.lists = {}
    BY <1>0 DEF SnapInv, BuildShape, Listing, Wrote
<1>5. BuildShape'
    <2>1. build'.pc \in {"idle"} \cup Read /\ build'.pc # "idle" /\ build'.pc \in Wrote
        BY <1>2 DEF Wrote, Sided, Referred, Read
    <2>2. QED BY <1>2, <1>3, <1>4, <2>1 DEF SnapInv, BuildShape
<1>6. /\ EntriesRead' = EntriesRead /\ CatsRead' = CatsRead
      /\ HomeRows' = HomeRows /\ EntryPages' = EntryPages
      /\ \A link : ToEntry(link)' <=> ToEntry(link)
      /\ \A link : Leading(link)' <=> Leading(link)
    BY <1>0, <1>2, SameReads DEF Leading, Expected
<1>7. ReadInv'
    BY <1>0, <1>2, <1>6 DEF SnapInv, ReadInv, Referred, Read
<1>8. PagesInv'
    <2>1. "category" \in Wrote /\ shelf'.feed = shelf.feed /\ shelf'.llms = shelf.llms
          /\ shelf'.sitemap = shelf.sitemap
        BY <1>1 DEF Wrote, Sided, Referred, Read, SnapInv, BuildShape
    <2>2. QED BY <1>0, <1>2, <1>3, <1>6, <2>1 DEF SnapInv, PagesInv
<1>9. ListsInv'
    <2>1. PastKinds("category") = {}
        BY DEF PastKinds
    <2>2. QED BY <1>2, <1>3, <1>4, <2>1 DEF ListsInv
<1>10. LinkInv'
    <2>0. /\ BuildShape /\ ReadInv /\ build.pc \in Referred /\ build.pc \in Sided
          /\ EntriesRead \in Databases /\ Agree(EntriesRead, EntriesRead)
        BY <1>0, ReadFacts DEF SnapInv, Referred, Read, Sided, Agree
    <2>1. ASSUME NEW i \in HomeRows, NEW k \in RowLinks(EntriesRead, i)
          PROVE  (ToEntry(k) \/ k.to = "list") /\ (build.clean => Leading(k))
        <3>1. i \in Published(EntriesRead)
            BY <2>0, HomeListed, TableFacts DEF HomeRows, PageOf
        <3>2. QED BY <2>0, <3>1, RowLinksOk
    <2>2. ASSUME NEW p \in EntryPages, NEW k \in EntryPageLinks(p.is)
          PROVE  (ToEntry(k) \/ k.to = "list") /\ (build.clean => Leading(k))
        <3>1. p.is \in Published(EntriesRead)
            BY DEF EntryPages
        <3>2. QED BY <2>0, <3>1, EntryPageLinksOk
    <2>3. ASSUME build.clean, NEW k \in build.side PROVE Leading(k)
        BY <2>0, <2>3 DEF SnapInv, LinkInv
    <2>4. ASSUME NEW l \in links
          PROVE  /\ l.on \notin {"sidebar", "list"} => ToEntry(l.link) \/ l.link.to = "list"
                 /\ build.clean => Leading(l.link)
        <3>1. \/ \E i \in HomeRows : \E k \in RowLinks(EntriesRead, i) : l = [on |-> "home", link |-> k]
              \/ \E p \in EntryPages : \E k \in EntryPageLinks(p.is) : l = [on |-> "entry", link |-> k]
              \/ \E k \in build.side : l = [on |-> "sidebar", link |-> k]
            BY <1>4, OnIs DEF links
        <3>2. CASE \E i \in HomeRows : \E k \in RowLinks(EntriesRead, i) : l = [on |-> "home", link |-> k]
            BY <2>1, <3>2
        <3>3. CASE \E p \in EntryPages : \E k \in EntryPageLinks(p.is) : l = [on |-> "entry", link |-> k]
            BY <2>2, <3>3
        <3>4. CASE \E k \in build.side : l = [on |-> "sidebar", link |-> k]
            BY <2>3, <3>4
        <3>5. QED BY <3>1, <3>2, <3>3, <3>4
    <2>5. build'.clean /\ build'.pc \in Sided => \A k \in build'.side : Leading(k)'
        BY <1>2, <1>6, <2>3
    <2>6. \A l \in shelf'.links :
              /\ l.on \notin {"sidebar", "list"} => ToEntry(l.link)' \/ l.link.to = "list"
              /\ build'.clean => Leading(l.link)'
        BY <1>2, <1>3, <1>6, <2>4
    <2>7. QED BY <2>5, <2>6 DEF LinkInv
<1>11. QED BY <1>5, <1>7, <1>8, <1>9, <1>10 DEF SnapInv

(* Lists of the kind that is written.                                       *)
LEMMA ListsAre ==
    ASSUME db \in Databases
    PROVE  \A kind \in Listing : ListsOf(kind) \subseteq {list \in Lists : list.kind = kind}
<1>1. ListsOf("category") \subseteq {list \in Lists : list.kind = "category"}
    BY DEF ListsOf, Lists, Category
<1>2. ListsOf("tag") \subseteq {list \in Lists : list.kind = "tag"}
    BY DEF ListsOf, Lists, Tag
<1>3. ListsOf("month") \subseteq {list \in Lists : list.kind = "month"}
    <2>1. \A i \in Public(db) : db.post[i].day \in DOMAIN MonthOf
        BY TableFacts, ReadingAssumption
    <2>2. SidebarMonths(db) \subseteq Months
        BY <2>1 DEF SidebarMonths, Months
    <2>3. \A m \in Months : Month(m) \in Lists /\ Month(m).kind = "month"
        BY DEF Lists, Month
    <2>4. QED BY <2>2, <2>3 DEF ListsOf
<1>4. QED BY <1>1, <1>2, <1>3 DEF Listing

LEMMA EnumerateStep ==
    ASSUME db \in Databases, UNCHANGED readingVars, SnapInv, EnumerateLists
    PROVE  SnapInv'
<1>0. db' = db /\ shelf' = shelf /\ build.pc \in Listing /\ ~build.listed
    BY DEF EnumerateLists, readingVars, Listing
<1>1. build' = [build EXCEPT !.listed = TRUE, !.todo = ListsOf(build.pc)]
    BY DEF EnumerateLists
<1>2. /\ build'.pc = build.pc /\ build'.all = build.all /\ build'.refs = build.refs
      /\ build'.side = build.side /\ build'.todo = ListsOf(build.pc) /\ build'.listed = TRUE
      /\ build'.clean = build.clean
      /\ build' = [pc |-> build'.pc, all |-> build'.all, refs |-> build'.refs,
                   side |-> build'.side, todo |-> build'.todo, listed |-> build'.listed,
                   clean |-> build'.clean]
    BY <1>1 DEF SnapInv, BuildShape
<1>3. BuildShape'
    BY <1>0, <1>2, ListsAre DEF SnapInv, BuildShape
<1>4. /\ \A link : Leading(link)' <=> Leading(link)
      /\ \A kind : ListsOf(kind)' = ListsOf(kind)
      /\ \A list : Written(list)' <=> Written(list)
    BY <1>0, <1>2, SameReads DEF Leading, Expected, ListsOf, Written
<1>5. ReadInv'
    BY <1>0, <1>2, SameReads DEF SnapInv, ReadInv
<1>6. LinkInv'
    BY <1>0, <1>2, <1>4, SameReads DEF SnapInv, LinkInv
<1>7. PagesInv'
    BY <1>0, <1>2, SameReads DEF SnapInv, PagesInv
<1>8. ListsInv'
    BY <1>0, <1>2, <1>4 DEF SnapInv, ListsInv
<1>9. QED BY <1>3, <1>5, <1>6, <1>7, <1>8 DEF SnapInv

LEMMA WriteListStep ==
    ASSUME db \in Databases, UNCHANGED readingVars, SnapInv, NEW list \in Lists, WriteList(list)
    PROVE  SnapInv'
<1> DEFINE shown == PageOf(db, list, 1)
           links == shelf.links \cup On("list", UNION {RowLinks(db, i) : i \in shown})
           lists == shelf.lists \cup {[list |-> list, shows |-> shown]}
<1>0. db' = db /\ list \in build.todo
    BY DEF WriteList, readingVars
<1>1. /\ build' = [build EXCEPT !.todo = @ \ {list}]
      /\ shelf' = [shelf EXCEPT !.lists = lists, !.links = links]
    BY DEF WriteList
<1>s. shown \subseteq Published(db) /\ shown \subseteq PostIds
    BY TableFacts DEF PageOf, Published
<1> HIDE DEF links, lists, shown
<1>2. /\ build'.pc = build.pc /\ build'.all = build.all /\ build'.refs = build.refs
      /\ build'.side = build.side /\ build'.todo = build.todo \ {list}
      /\ build'.listed = build.listed /\ build'.clean = build.clean
      /\ build' = [pc |-> build'.pc, all |-> build'.all, refs |-> build'.refs,
                   side |-> build'.side, todo |-> build'.todo, listed |-> build'.listed,
                   clean |-> build'.clean]
    BY <1>1 DEF SnapInv, BuildShape
<1>3. /\ shelf'.lists = lists /\ shelf'.links = links
      /\ shelf'.home = shelf.home /\ shelf'.entries = shelf.entries /\ shelf'.feed = shelf.feed
      /\ shelf'.llms = shelf.llms /\ shelf'.sitemap = shelf.sitemap
      /\ shelf' = [home |-> shelf'.home, entries |-> shelf'.entries, lists |-> shelf'.lists,
                   feed |-> shelf'.feed, llms |-> shelf'.llms, sitemap |-> shelf'.sitemap,
                   links |-> shelf'.links]
    BY <1>1 DEF SnapInv, BuildShape
<1>4. build.listed /\ build.pc \in Listing /\ list.kind = build.pc /\ Shelved(list)
    BY <1>0 DEF SnapInv, BuildShape, Shelved, Listing
<1>5. build.pc \in Wrote /\ build.pc \in Referred /\ build.pc # "idle" /\ build.pc # "done"
    BY <1>4 DEF Listing, Wrote, Sided, Referred, Read
<1>6. BuildShape'
    BY <1>0, <1>2, <1>3, <1>4, <1>5 DEF SnapInv, BuildShape
<1>7. /\ \A link : Leading(link)' <=> Leading(link)
      /\ \A kind : ListsOf(kind)' = ListsOf(kind)
      /\ ListsOf(build.pc)' = ListsOf(build.pc)
    BY <1>0, <1>2, SameReads DEF Leading, Expected, ListsOf
<1>8. Written(list)' /\ \A k : Written(k) => Written(k)'
    <2>1. [list |-> list, shows |-> shown] \in shelf'.lists /\ shelf.lists \subseteq shelf'.lists
        BY <1>3 DEF lists
    <2>2. Written(list)'
        BY <2>1 DEF Written
    <2>3. \A k : Written(k) => Written(k)'
        BY <2>1 DEF Written
    <2>4. QED BY <2>2, <2>3
<1>9. ReadInv'
    BY <1>0, <1>2, SameReads DEF SnapInv, ReadInv
<1>10. PagesInv'
    BY <1>2, <1>3, <1>5, SameReads DEF SnapInv, PagesInv
<1>11. ListsInv'
    <2>1. ASSUME NEW page \in shelf'.lists
          PROVE  /\ Shelved(page.list) /\ page.shows \subseteq PostIds
                 /\ build'.clean => page.shows = PageOf(db', page.list, 1)
        <3>1. CASE page \in shelf.lists
            BY <1>0, <1>2, <3>1 DEF SnapInv, ListsInv
        <3>2. CASE page = [list |-> list, shows |-> shown]
            BY <1>0, <1>4, <1>s, <3>2 DEF shown
        <3>3. QED BY <1>3, <3>1, <3>2 DEF lists
    <2>2. build'.clean => \A kind \in PastKinds(build.pc) : \A k \in ListsOf(kind)' : Written(k)'
        BY <1>2, <1>7, <1>8 DEF SnapInv, ListsInv
    <2>3. build'.clean => \A k \in ListsOf(build.pc)' : k \in build'.todo \/ Written(k)'
        <3>1. build.clean => \A k \in ListsOf(build.pc) : k \in build.todo \/ Written(k)
            BY <1>4 DEF SnapInv, ListsInv
        <3>2. QED BY <1>2, <1>7, <1>8, <3>1
    <2>p. PastKinds(build.pc)' = PastKinds(build.pc)
        BY <1>2
    <2>4. QED BY <2>1, <2>2, <2>3, <2>p DEF ListsInv
<1>12. LinkInv'
    <2>1. ASSUME NEW l \in links
          PROVE  /\ l.on \notin {"sidebar", "list"} => ToEntry(l.link) \/ l.link.to = "list"
                 /\ build.clean => Leading(l.link)
        <3>1. CASE l \in shelf.links
            BY <3>1 DEF SnapInv, LinkInv
        <3>2. CASE \E i \in shown : \E k \in RowLinks(db, i) : l = [on |-> "list", link |-> k]
            <4>1. PICK i \in shown : \E k \in RowLinks(db, i) : l = [on |-> "list", link |-> k]
                BY <3>2
            <4>2. PICK k \in RowLinks(db, i) : l = [on |-> "list", link |-> k]
                BY <4>1
            <4>3. build.clean => Agree(EntriesRead, db)
                BY <1>5 DEF SnapInv, ReadInv
            <4>4. build.clean => Leading(k)
                BY <1>5, <1>s, <4>3, RowLinksOk DEF SnapInv
            <4>5. QED BY <4>2, <4>4
        <3>3. QED BY <3>1, <3>2, OnIs DEF links
    <2>2. \A link : ToEntry(link)' <=> ToEntry(link)
        BY <1>2, SameReads
    <2>3. QED BY <1>2, <1>3, <1>7, <2>1, <2>2 DEF SnapInv, LinkInv
<1>13. QED BY <1>6, <1>9, <1>10, <1>11, <1>12 DEF SnapInv

LEMMA ListsWrittenStep ==
    ASSUME db \in Databases, UNCHANGED readingVars, SnapInv, ListsWritten
    PROVE  SnapInv'
<1> DEFINE pc == CASE build.pc = "category" -> "tag" [] build.pc = "tag" -> "month"
                   [] OTHER -> "extras"
<1>0. db' = db /\ shelf' = shelf /\ build.listed /\ build.todo = {} /\ build.pc \in Listing
    BY DEF ListsWritten, readingVars, SnapInv, BuildShape
<1>1. build' = [build EXCEPT !.listed = FALSE, !.pc = pc]
    BY DEF ListsWritten
<1>p. /\ pc \in {"tag", "month", "extras"}
      /\ PastKinds(pc) \subseteq PastKinds(build.pc) \cup {build.pc}
    BY <1>0 DEF Listing, PastKinds
<1> HIDE DEF pc
<1>2. /\ build'.pc = pc /\ build'.all = build.all /\ build'.refs = build.refs
      /\ build'.side = build.side /\ build'.todo = {} /\ build'.listed = FALSE
      /\ build'.clean = build.clean
      /\ build' = [pc |-> build'.pc, all |-> build'.all, refs |-> build'.refs,
                   side |-> build'.side, todo |-> build'.todo, listed |-> build'.listed,
                   clean |-> build'.clean]
    BY <1>0, <1>1 DEF SnapInv, BuildShape
<1>3. /\ build.pc \in Wrote /\ build.pc \in Referred /\ build.pc \in Sided /\ build.pc # "idle"
      /\ build.pc # "done"
      /\ pc \in Wrote /\ pc \in Referred /\ pc \in Read /\ pc # "idle" /\ pc # "done"
    BY <1>0, <1>p DEF Listing, Wrote, Sided, Referred, Read
<1>4. BuildShape'
    BY <1>0, <1>2, <1>3 DEF SnapInv, BuildShape
<1>5. /\ \A link : Leading(link)' <=> Leading(link)
      /\ \A kind : ListsOf(kind)' = ListsOf(kind)
      /\ \A list : Written(list)' <=> Written(list)
    BY <1>0, <1>2, SameReads DEF Leading, Expected, ListsOf, Written
<1>6. ReadInv'
    BY <1>0, <1>2, <1>3, SameReads DEF SnapInv, ReadInv
<1>7. LinkInv'
    BY <1>0, <1>2, <1>3, <1>5, SameReads DEF SnapInv, LinkInv
<1>8. PagesInv'
    BY <1>0, <1>2, <1>3, SameReads DEF SnapInv, PagesInv
<1>9. ListsInv'
    <2>1. build.clean => \A kind \in PastKinds(pc) : \A list \in ListsOf(kind) : Written(list)
        BY <1>0, <1>p DEF SnapInv, ListsInv
    <2>2. PastKinds(build.pc)' = PastKinds(pc)
        BY <1>2
    <2>3. QED BY <1>0, <1>2, <1>5, <2>1, <2>2 DEF SnapInv, ListsInv
<1>10. QED BY <1>4, <1>6, <1>7, <1>8, <1>9 DEF SnapInv

LEMMA WriteExtrasStep ==
    ASSUME db \in Databases, UNCHANGED readingVars, SnapInv, WriteExtras
    PROVE  SnapInv'
<1> DEFINE feed == {EntryLink(EntriesRead, i) : i \in FeedEntries \cup LLMsEntries}
           links == shelf.links \cup On("feed", feed) \cup On("sitemap", SitemapLinks)
           map == SitemapEntries(RefsRead)
<1>0. db' = db /\ build.pc = "extras"
    BY DEF WriteExtras, readingVars
<1>1. /\ build' = [build EXCEPT !.pc = "done"]
      /\ shelf' = [shelf EXCEPT !.feed = FeedEntries, !.llms = LLMsEntries, !.sitemap = map,
                                !.links = links]
    BY DEF WriteExtras
<1> HIDE DEF links, feed
<1>2. /\ build'.pc = "done" /\ build'.all = build.all /\ build'.refs = build.refs
      /\ build'.side = build.side /\ build'.todo = build.todo /\ build'.listed = build.listed
      /\ build'.clean = build.clean
      /\ build' = [pc |-> build'.pc, all |-> build'.all, refs |-> build'.refs,
                   side |-> build'.side, todo |-> build'.todo, listed |-> build'.listed,
                   clean |-> build'.clean]
    BY <1>1 DEF SnapInv, BuildShape
<1>3. /\ shelf'.feed = FeedEntries /\ shelf'.llms = LLMsEntries /\ shelf'.sitemap = map
      /\ shelf'.links = links
      /\ shelf'.lists = shelf.lists /\ shelf'.home = shelf.home /\ shelf'.entries = shelf.entries
      /\ shelf' = [home |-> shelf'.home, entries |-> shelf'.entries, lists |-> shelf'.lists,
                   feed |-> shelf'.feed, llms |-> shelf'.llms, sitemap |-> shelf'.sitemap,
                   links |-> shelf'.links]
    BY <1>1 DEF SnapInv, BuildShape
<1>4. ~build.listed /\ build.todo = {}
    BY <1>0 DEF SnapInv, BuildShape, Listing
<1>5. /\ "extras" \in Wrote /\ "extras" \in Referred /\ "extras" \in Sided
      /\ "done" \in Wrote /\ "done" \in Referred /\ "done" \in Read
    BY DEF Wrote, Sided, Referred, Read
<1>6. BuildShape'
    BY <1>0, <1>2, <1>3, <1>4, <1>5 DEF SnapInv, BuildShape
<1>7. /\ \A link : Leading(link)' <=> Leading(link)
      /\ \A link : ToEntry(link)' <=> ToEntry(link)
      /\ \A kind : ListsOf(kind)' = ListsOf(kind)
      /\ \A list : Written(list)' <=> Written(list)
    BY <1>0, <1>2, <1>3, SameReads DEF Leading, Expected, ListsOf, Written
<1>8. ReadInv'
    BY <1>0, <1>2, <1>5, SameReads DEF SnapInv, ReadInv
<1>9. PagesInv'
    <2>1. map' = map
        BY <1>2, SameReads
    <2> HIDE DEF map
    <2>2. /\ shelf'.home = HomeRows' /\ shelf'.entries = EntryPages'
          /\ shelf'.feed = FeedEntries' /\ shelf'.llms = LLMsEntries' /\ shelf'.sitemap = map'
        BY <1>0, <1>2, <1>3, <1>5, <2>1, SameReads DEF SnapInv, PagesInv
    <2>3. /\ build'.pc = "done" /\ build'.pc \in Wrote
        BY <1>2, <1>5
    <2>4. SitemapEntries(RefsRead)' = map'
        BY DEF map
    <2>5. QED BY <2>2, <2>3, <2>4 DEF PagesInv
<1>10. ListsInv'
    <2>1. PastKinds("done") = PastKinds("extras") /\ PastKinds(build.pc)' = PastKinds("done")
        BY <1>2 DEF PastKinds
    <2>2. QED BY <1>0, <1>2, <1>3, <1>4, <1>7, <2>1 DEF SnapInv, ListsInv
<1>11. LinkInv'
    <2>0. /\ BuildShape /\ ReadInv /\ build.pc \in Referred
          /\ EntriesRead \in Databases /\ Agree(EntriesRead, EntriesRead)
        BY <1>0, <1>5, ReadFacts DEF SnapInv, Agree
    <2>1. ASSUME NEW l \in links
          PROVE  /\ l.on \notin {"sidebar", "list"} => ToEntry(l.link) \/ l.link.to = "list"
                 /\ build.clean => Leading(l.link)
        <3>1. CASE l \in shelf.links
            BY <3>1 DEF SnapInv, LinkInv
        <3>2. CASE \E k \in feed : l = [on |-> "feed", link |-> k]
            <4>1. PICK k \in feed : l = [on |-> "feed", link |-> k]
                BY <3>2
            <4>2. PICK i \in FeedEntries \cup LLMsEntries : k = EntryLink(EntriesRead, i)
                BY DEF feed
            <4>3. i \in Published(EntriesRead)
                BY <2>0, ReadFacts DEF FeedEntries, LLMsEntries, Recent
            <4>4. ToEntry(k)
                BY <2>0, <4>2, <4>3, EntryLinkIs
            <4>5. QED BY <4>1, <4>4 DEF Leading
        <3>3. CASE \E k \in SitemapLinks : l = [on |-> "sitemap", link |-> k]
            <4>1. PICK k \in SitemapLinks : l = [on |-> "sitemap", link |-> k]
                BY <3>3
            <4>2. (ToEntry(k) \/ k.to = "list") /\ (build.clean => Leading(k))
                BY <2>0, SitemapOk
            <4>3. QED BY <4>1, <4>2
        <3>4. QED BY <3>1, <3>2, <3>3, OnIs DEF links
    <2>2. build.clean => \A k \in build.side : Leading(k)
        BY <1>0, <1>5 DEF SnapInv, LinkInv
    <2>3. QED BY <1>2, <1>3, <1>7, <2>1, <2>2 DEF LinkInv
<1>12. QED BY <1>6, <1>8, <1>9, <1>10, <1>11 DEF SnapInv

LEMMA SnapInit == ReadingInit /\ SnapshotInit => SnapInv
<1> SUFFICES ASSUME ReadingInit, SnapshotInit PROVE SnapInv
    OBVIOUS
<1>1. /\ build.pc = "idle" /\ build.all = NoPost /\ build.refs = {} /\ build.side = {}
      /\ build.todo = {} /\ build.listed = FALSE /\ build.clean = TRUE
      /\ build = [pc |-> build.pc, all |-> build.all, refs |-> build.refs, side |-> build.side,
                  todo |-> build.todo, listed |-> build.listed, clean |-> build.clean]
    BY DEF SnapshotInit, BeforeBuild
<1>2. /\ shelf.lists = {} /\ shelf.links = {}
      /\ shelf = [home |-> shelf.home, entries |-> shelf.entries, lists |-> shelf.lists,
                  feed |-> shelf.feed, llms |-> shelf.llms, sitemap |-> shelf.sitemap,
                  links |-> shelf.links]
    BY DEF SnapshotInit, EmptyShelf
<1>3. "idle" \notin Wrote /\ "idle" \notin Referred /\ "idle" \notin Sided /\ "idle" \notin Listing
      /\ PastKinds("idle") = {}
    BY DEF Wrote, Sided, Referred, Read, Listing, PastKinds
<1>4. NoPost \in [PostIds -> Rows \cup {NoRow}] /\ \A i \in PostIds : NoPost[i] = NoRow
    BY DEF NoPost
<1>5. BuildShape
    BY <1>1, <1>2, <1>3, <1>4 DEF BuildShape
<1>6. ReadInv
    <2>1. Present(EntriesRead) = {}
        BY <1>1, <1>4 DEF Present, EntriesRead
    <2>2. UniqueSlugs(db)
        BY DEF ReadingInit, UniqueSlugs
    <2>3. QED BY <1>1, <1>3, <2>1, <2>2 DEF ReadInv, UniqueSlugs
<1>7. LinkInv /\ PagesInv /\ ListsInv
    <2>1. /\ shelf.home = {} /\ shelf.entries = {} /\ shelf.feed = {} /\ shelf.llms = {}
          /\ shelf.sitemap = {}
        BY DEF SnapshotInit, EmptyShelf
    <2>2. QED BY <1>1, <1>2, <1>3, <2>1 DEF LinkInv, PagesInv, ListsInv
<1>8. QED BY <1>5, <1>6, <1>7 DEF SnapInv

LEMMA SnapStep ==
    /\ ReadingTypeOk /\ ReadingTypeOk' /\ SnapInv
    /\ [SnapshotNext]_<<readingVars, snapshotVars>>
    => SnapInv'
<1> SUFFICES ASSUME ReadingTypeOk, ReadingTypeOk', SnapInv,
                    [SnapshotNext]_<<readingVars, snapshotVars>>
             PROVE  SnapInv'
    OBVIOUS
<1>0. db \in Databases
    BY DEF ReadingTypeOk
<1>1. CASE ReadingBeside
    BY <1>1, BesideStep
<1>2. CASE BuildStep /\ UNCHANGED readingVars
    BY <1>0, <1>2, LoadEntriesStep, LoadRefsStep, LoadSidebarStep, WriteEntriesStep, EnumerateStep,
       WriteListStep, ListsWrittenStep, WriteExtrasStep DEF BuildStep
<1>3. CASE UNCHANGED <<readingVars, snapshotVars>>
    <2>1. build' = build /\ shelf' = shelf /\ db' = db
        BY <1>3 DEF readingVars, snapshotVars
    <2>2. BuildShape' /\ ReadInv'
        BY <2>1, SameReads DEF SnapInv, BuildShape, ReadInv
    <2>3. LinkInv'
        BY <2>1, SameReads DEF SnapInv, LinkInv, Leading, Expected
    <2>4. PagesInv'
        BY <2>1, SameReads DEF SnapInv, PagesInv
    <2>5. ListsInv'
        BY <2>1 DEF SnapInv, ListsInv, ListsOf, Written
    <2>6. QED BY <2>2, <2>3, <2>4, <2>5 DEF SnapInv
<1>4. QED BY <1>1, <1>2, <1>3 DEF SnapshotNext

LEMMA SnapAlways == SnapshotSpec => [](ReadingTypeOk /\ SnapInv)
<1>1. [SnapshotNext]_<<readingVars, snapshotVars>> => [ReadingNext]_readingVars
    BY DEF SnapshotNext, ReadingBeside, readingVars
<1>2. SnapshotSpec => ReadingSpec
    BY <1>1, PTL DEF SnapshotSpec, ReadingSpec
<1>3. SnapshotSpec => []ReadingTypeOk
    BY <1>2, ReadingTypeCorrect, PTL
<1>4. QED BY <1>3, SnapInit, SnapStep, PTL DEF SnapshotSpec

(* What the build holds and what it wrote stay in their domains.            *)
THEOREM SnapshotTypeCorrect == SnapshotSpec => []SnapshotTypeOk
<1>1. ReadingTypeOk /\ SnapInv => SnapshotTypeOk
    <2> SUFFICES ASSUME ReadingTypeOk, SnapInv PROVE SnapshotTypeOk
        OBVIOUS
    <2>0. BuildShape /\ PagesInv /\ ListsInv
        BY DEF SnapInv
    <2>1. HomeRows \subseteq PostIds /\ FeedEntries \subseteq PostIds /\ LLMsEntries \subseteq PostIds
        <3>1. HomeRows \subseteq Published(EntriesRead)
            BY <2>0, ReadFacts, TableFacts, HomeListed DEF HomeRows, PageOf
        <3>2. FeedEntries \subseteq Published(EntriesRead)
            BY <2>0, ReadFacts DEF FeedEntries, Recent
        <3>3. QED BY <2>0, <3>1, <3>2, ReadFacts DEF LLMsEntries
    <2>2. SitemapEntries(RefsRead) \subseteq PostIds
        BY DEF SitemapEntries, Published
    <2>3. \A page \in EntryPages : page.is \in PostIds
        BY DEF EntryPages, Published
    <2>4. /\ shelf.home \subseteq PostIds /\ shelf.feed \subseteq PostIds /\ shelf.llms \subseteq PostIds
          /\ shelf.sitemap \subseteq PostIds /\ \A page \in shelf.entries : page.is \in PostIds
        BY <2>0, <2>1, <2>2, <2>3 DEF PagesInv
    <2>5. \A page \in shelf.lists : page.list \in Lists /\ page.shows \subseteq PostIds
        BY <2>0 DEF ListsInv, Shelved
    <2>6. /\ build.pc \in {"idle", "refs", "sidebar", "entries", "category", "tag",
                           "month", "extras", "done"}
          /\ build.all \in [PostIds -> Rows \cup {NoRow}]
          /\ build.refs \subseteq Categories /\ build.todo \subseteq Lists
          /\ {build.listed, build.clean} \subseteq BOOLEAN
        BY <2>0 DEF BuildShape, Read
    <2>7. QED BY <2>4, <2>5, <2>6 DEF SnapshotTypeOk
<1>2. QED BY <1>1, SnapAlways, PTL

-----------------------------------------------------------------------------
(* Where slugs are words, each entry has its address to itself.             *)
LEMMA KeysApart ==
    ASSUME NEW d \in Databases, UniqueSlugs(d), WordSlugs(d),
           NEW i \in Published(d), NEW j \in Published(d), KeyOf(d, i) = KeyOf(d, j)
    PROVE  i = j
<1>1. i \in Present(d) /\ j \in Present(d) /\ i # 0 /\ j # 0
    <2>1. Published(d) \subseteq Present(d) /\ Present(d) \subseteq PostIds /\ 0 \notin PostIds
        BY TableFacts DEF PostIds
    <2>2. QED BY <2>1
<1>2. ~(SlugNumber[d.post[i].slug] > 0) /\ ~(SlugNumber[d.post[j].slug] > 0)
    BY DEF WordSlugs
<1>3. ASSUME NEW k \in Published(d), ~(SlugNumber[d.post[k].slug] > 0)
      PROVE  /\ d.post[k].slug = "" => KeyOf(d, k).id = k
             /\ d.post[k].slug # "" => KeyOf(d, k).id = 0 /\ KeyOf(d, k).word = d.post[k].slug
    <2>1. CASE d.post[k].slug = ""
        <3>1. KeyOf(d, k) = [id |-> k, word |-> ""]
            BY <2>1 DEF KeyOf
        <3>2. [id |-> k, word |-> ""].id = k
            OBVIOUS
        <3>3. KeyOf(d, k).id = k
            BY <3>1, <3>2, Zenon
        <3>4. QED BY <2>1, <3>3
    <2>2. CASE d.post[k].slug # ""
        <3>1. KeyOf(d, k) = [id |-> 0, word |-> d.post[k].slug]
            BY <1>3, <2>2 DEF KeyOf
        <3>2. /\ [id |-> 0, word |-> d.post[k].slug].id = 0
              /\ [id |-> 0, word |-> d.post[k].slug].word = d.post[k].slug
            OBVIOUS
        <3>3. KeyOf(d, k).id = 0 /\ KeyOf(d, k).word = d.post[k].slug
            BY <3>1, <3>2, Zenon
        <3>4. QED BY <2>2, <3>3
    <2>3. QED BY <2>1, <2>2
<1>4. /\ KeyOf(d, i).id = IF d.post[i].slug = "" THEN i ELSE 0
      /\ KeyOf(d, j).id = IF d.post[j].slug = "" THEN j ELSE 0
      /\ d.post[i].slug # "" => KeyOf(d, i).word = d.post[i].slug
      /\ d.post[j].slug # "" => KeyOf(d, j).word = d.post[j].slug
    BY <1>2, <1>3
<1>5. CASE d.post[i].slug = ""
    BY <1>1, <1>4, <1>5
<1>6. CASE d.post[i].slug # ""
    <2>1. d.post[j].slug = d.post[i].slug
        BY <1>1, <1>4, <1>6
    <2>2. QED BY <1>1, <1>6, <2>1 DEF UniqueSlugs
<1>7. QED BY <1>5, <1>6

(* Every published entry has a page at its address.                         *)
LEMMA PagesAre ==
    ASSUME BuildShape, UniqueSlugs(EntriesRead), WordSlugs(EntriesRead)
    PROVE  /\ \A i \in Published(EntriesRead) :
                 [key |-> KeyOf(EntriesRead, i), is |-> i, beside |-> Neighbours(RefsRead, i)] \in EntryPages
           /\ \A page \in EntryPages : \E i \in Published(EntriesRead) :
                 page = [key |-> KeyOf(EntriesRead, i), is |-> i, beside |-> Neighbours(RefsRead, i)]
<1> DEFINE E == EntriesRead
           Under(i) == {k \in Published(E) : KeyOf(E, k) = KeyOf(E, i) /\ Newer(E, i, k)}
<1>1. E \in Databases
    BY ReadFacts
<1>2. ASSUME NEW i \in Published(E) PROVE Under(i) = {}
    <2>1. ASSUME NEW k \in Under(i) PROVE FALSE
        <3>1. k = i
            BY <1>1, <1>2, <2>1, KeysApart
        <3>2. QED BY <1>1, <1>2, <2>1, <3>1, LaterOrder
    <2>2. QED BY <2>1
<1>3. EntryPages = {[key |-> KeyOf(E, i), is |-> i, beside |-> Neighbours(RefsRead, i)] :
                       i \in {j \in Published(E) : Under(j) = {}}}
    BY DEF EntryPages
<1> HIDE DEF Under
<1>4. QED BY <1>2, <1>3

(* Where all entries fit, the newest of them are all.                       *)
LEMMA RecentAll ==
    ASSUME NEW d \in Databases, NEW n \in Nat, Cardinality(Public(d)) <= n
    PROVE  Recent(d, n) = Public(d)
<1> DEFINE P == Public(d)
           R == {p \in P \X P : Newer(d, p[1], p[2])}
<1>1. P \subseteq Published(d) /\ IsFiniteSet(P) /\ Cardinality(P) \in Nat
    BY TableFacts, PostsFinite
<1>2. \A i, j \in P : <<i, j>> \in R <=> Newer(d, i, j)
    OBVIOUS
<1>3. ASSUME NEW i \in P PROVE {j \in P : Newer(d, j, i)} = Before(P, R, i)
    BY <1>2 DEF Before
<1> HIDE DEF R
<1>4. StrictOrder(P, R)
    BY <1>1, <1>2, LaterOrder DEF StrictOrder
<1> HIDE DEF P
<1>5. \A i \in P : /\ Cardinality(Before(P, R, i)) \in Nat
                   /\ Cardinality(Before(P, R, i)) < Cardinality(P)
    BY <1>1, <1>4, Ranking
<1>6. Cardinality(P) <= n
    BY DEF P
<1>7. \A i \in P : Cardinality(Before(P, R, i)) < n
    BY <1>1, <1>5, <1>6
<1>8. Recent(d, n) = {i \in P : Cardinality({j \in P : Newer(d, j, i)}) < n}
    BY DEF Recent, P
<1>9. QED BY <1>3, <1>7, <1>8 DEF P

(* The address of a published entry leads to it.                            *)
LEMMA Answered ==
    ASSUME NEW d \in Databases, UniqueSlugs(d), WordSlugs(d), NEW i \in Published(d)
    PROVE  Answer(d, KeyOf(d, i)) = [code |-> 200, entry |-> i]
<1>1. i \in Present(d) /\ i \in PostIds /\ i > 0 /\ d.post[i].st = "published"
    BY TableFacts, PostsFinite DEF PostIds, Published
<1>2. ASSUME NEW key, Resolve(d, key) = {i}, ~(key.id > 0 /\ d.post[i].slug # "")
      PROVE  Answer(d, key) = [code |-> 200, entry |-> i]
    <2>1. (CHOOSE j \in Resolve(d, key) : TRUE) = i
        BY <1>2
    <2>2. Resolve(d, key) # {}
        BY <1>2
    <2>3. QED BY <1>1, <1>2, <2>1, <2>2 DEF Answer
<1>3. CASE d.post[i].slug = ""
    <2>1. KeyOf(d, i) = [id |-> i, word |-> ""]
        BY <1>3 DEF KeyOf
    <2>2. [id |-> i, word |-> ""].id = i
        OBVIOUS
    <2>3. KeyOf(d, i).id = i
        BY <2>1, <2>2, Zenon
    <2>4. Resolve(d, KeyOf(d, i)) = {i}
        BY <1>1, <2>3 DEF Resolve
    <2>5. QED BY <1>2, <1>3, <2>4
<1>4. CASE d.post[i].slug # ""
    <2>0. ~(SlugNumber[d.post[i].slug] > 0)
        BY DEF WordSlugs
    <2>1. KeyOf(d, i) = [id |-> 0, word |-> d.post[i].slug]
        BY <1>4, <2>0 DEF KeyOf
    <2>2. /\ [id |-> 0, word |-> d.post[i].slug].id = 0
          /\ [id |-> 0, word |-> d.post[i].slug].word = d.post[i].slug
        OBVIOUS
    <2>3. KeyOf(d, i).id = 0 /\ KeyOf(d, i).word = d.post[i].slug
        BY <2>1, <2>2, Zenon
    <2>4. ~(KeyOf(d, i).id > 0)
        BY <2>3
    <2>5. Resolve(d, KeyOf(d, i)) = {j \in Present(d) : d.post[j].slug = d.post[i].slug}
        BY <2>3, <2>4 DEF Resolve
    <2>6. Resolve(d, KeyOf(d, i)) = {i}
        BY <1>1, <1>4, <2>5 DEF UniqueSlugs
    <2>7. QED BY <1>2, <2>4, <2>6
<1>5. QED BY <1>3, <1>4

(* A list that is expected is written where no one saves, or leads to a     *)
(* hidden category.                                                         *)
LEMMA ExpectedWritten ==
    ASSUME ListsInv, build.clean, build.pc = "done", NEW list, Expected(list)
    PROVE  Written(list) \/ list.of \in build.refs
<1>1. \A kind \in Listing : \A l \in ListsOf(kind) : Written(l)
    BY DEF ListsInv, PastKinds, Listing
<1>2. ASSUME NEW c \in Categories, list = Category(c), c \notin db.hidden
      PROVE  Written(list)
    <2>1. list \in ListsOf("category")
        BY <1>2 DEF ListsOf
    <2>2. QED BY <1>1, <2>1 DEF Listing
<1>3. ASSUME NEW c \in Categories, list = Category(c), c \in build.refs
      PROVE  list.of \in build.refs
    BY <1>3 DEF Category
<1>4. ASSUME NEW t \in Tags, list = Tag(t) PROVE Written(list)
    <2>1. list \in ListsOf("tag")
        BY <1>4 DEF ListsOf
    <2>2. QED BY <1>1, <2>1 DEF Listing
<1>5. ASSUME NEW m \in SidebarMonths(db), list = Month(m) PROVE Written(list)
    <2>1. list \in ListsOf("month")
        BY <1>5 DEF ListsOf
    <2>2. QED BY <1>1, <2>1 DEF Listing
<1>6. QED BY <1>2, <1>3, <1>4, <1>5 DEF Expected

LEMMA LinksLead == SnapInv => SnapshotLinksHold
<1> SUFFICES ASSUME SnapInv, build.pc = "done", WordSlugs(EntriesRead), NEW l \in shelf.links
             PROVE  \/ Leads(l.link)
                    \/ ~build.clean /\ (l.on \in {"sidebar", "list"} \/ l.link.to = "list")
                    \/ l.link.to = "list" /\ l.link.list.of \in build.refs
    BY DEF SnapshotLinksHold
<1>0. BuildShape /\ ReadInv /\ LinkInv /\ PagesInv /\ ListsInv
    BY DEF SnapInv
<1>1. ASSUME ToEntry(l.link) PROVE Leads(l.link)
    <2>1. l.link.to = "entry" /\ \E i \in Published(EntriesRead) : l.link.key = KeyOf(EntriesRead, i)
        BY <1>1 DEF ToEntry
    <2>2. PICK i \in Published(EntriesRead) : l.link.key = KeyOf(EntriesRead, i)
        BY <2>1
    <2> DEFINE page == [key |-> KeyOf(EntriesRead, i), is |-> i, beside |-> Neighbours(RefsRead, i)]
    <2>3. page \in EntryPages
        BY <1>0, PagesAre DEF ReadInv
    <2>4. EntryPages = shelf.entries
        BY <1>0 DEF PagesInv, Wrote, Sided, Referred, Read
    <2>5. page.key = l.link.key
        BY <2>2
    <2> HIDE DEF page
    <2>6. page \in PageAt(l.link.key)
        BY <2>3, <2>4, <2>5 DEF PageAt
    <2>7. QED BY <2>1, <2>6 DEF Leads
<1>2. CASE build.clean
    <2>1. Leading(l.link)
        BY <1>0, <1>2 DEF LinkInv
    <2>2. ASSUME l.link.to = "list", Expected(l.link.list)
          PROVE  Leads(l.link) \/ l.link.list.of \in build.refs
        BY <1>0, <1>2, <2>2, ExpectedWritten DEF Leads
    <2>3. QED BY <1>1, <2>1, <2>2 DEF Leading
<1>3. CASE ~build.clean
    <2>1. l.on \notin {"sidebar", "list"} => ToEntry(l.link) \/ l.link.to = "list"
        BY <1>0 DEF LinkInv
    <2>2. QED BY <1>1, <1>3, <2>1
<1>4. QED BY <1>2, <1>3 DEF SnapInv, BuildShape

LEMMA StaticMatches == ReadingTypeOk /\ SnapInv => StaticMatchesDynamic
<1> SUFFICES ASSUME ReadingTypeOk, SnapInv, build.pc = "done", build.clean
             PROVE  /\ \A list \in Lists : list.kind \in {"category", "tag", "month"} =>
                          /\ \A page \in shelf.lists :
                                page.list = list => page.shows = PageOf(db, list, 1)
                          /\ Members(db, list) # {} =>
                                \/ Written(list)
                                \/ list.kind = "category" /\ list.of \in db.hidden
                    /\ WordSlugs(db) => /\ {page.is : page \in shelf.entries} = Published(db)
                                        /\ \A page \in shelf.entries : AsServed(page)
                    /\ shelf.sitemap = SitemapEntries(db)
                    /\ Published(db) = Public(db) =>
                          /\ shelf.home = PageOf(db, Home, 1)
                          /\ shelf.feed = Recent(db, FeedLimit)
                          /\ Cardinality(Public(db)) <= LLMsLimit => shelf.llms = LLMsServed(db)
    BY DEF StaticMatchesDynamic
<1>0. /\ BuildShape /\ ReadInv /\ PagesInv /\ ListsInv
      /\ db \in Databases /\ build.pc \in Referred /\ build.pc \in Wrote
    BY DEF SnapInv, ReadingTypeOk, Wrote, Sided, Referred, Read
<1>1. /\ Agree(EntriesRead, db) /\ Agree(RefsRead, db) /\ Public(RefsRead) = Public(db)
      /\ \A i \in Published(db) : db.post[i].cat \in Categories => db.post[i].cat \in CatsRead
      /\ \A c \in CatsRead : c \in build.refs <=> c \in db.hidden
    BY <1>0, CleanFacts
<1>2. /\ EntriesRead \in Databases /\ RefsRead \in Databases
      /\ Public(EntriesRead) = Published(EntriesRead) /\ RefsRead.hidden = build.refs
    BY <1>0, ReadFacts
<1>3. ASSUME NEW list \in Lists, list.kind \in {"category", "tag", "month"}, Members(db, list) # {}
      PROVE  Written(list) \/ (list.kind = "category" /\ list.of \in db.hidden)
    <2>1. \A kind \in Listing : \A l \in ListsOf(kind) : Written(l)
        BY <1>0 DEF ListsInv, PastKinds, Listing
    <2>2. Home.kind = "home" /\ Search.kind = "search"
        BY DEF Home, Search
    <2>3. \/ \E c \in Categories : list = Category(c)
          \/ \E t \in Tags : list = Tag(t)
          \/ \E m \in Months : list = Month(m)
        BY <1>3, <2>2 DEF Lists
    <2>4. ASSUME NEW c \in Categories, list = Category(c)
          PROVE  Written(list) \/ (list.kind = "category" /\ list.of \in db.hidden)
        <3>1. list.kind = "category" /\ list.of = c
            BY <2>4 DEF Category
        <3>2. c \notin db.hidden => list \in ListsOf("category")
            BY <2>4 DEF ListsOf
        <3>3. QED BY <2>1, <3>1, <3>2 DEF Listing
    <2>5. ASSUME NEW t \in Tags, list = Tag(t) PROVE Written(list)
        <3>1. list \in ListsOf("tag")
            BY <2>5 DEF ListsOf
        <3>2. QED BY <2>1, <3>1 DEF Listing
    <2>6. ASSUME NEW m \in Months, list = Month(m) PROVE Written(list)
        <3>1. list.kind = "month" /\ list.of = m
            BY <2>6 DEF Month
        <3>2. PICK i \in Public(db) : MonthOf[db.post[i].day] = m
            BY <1>3, <3>1 DEF Members
        <3>3. m \in SidebarMonths(db)
            BY <3>2 DEF SidebarMonths
        <3>4. list \in ListsOf("month")
            BY <2>6, <3>3 DEF ListsOf
        <3>5. QED BY <2>1, <3>4 DEF Listing
    <2>7. QED BY <2>3, <2>4, <2>5, <2>6
<1>4. ASSUME NEW page \in shelf.lists PROVE page.shows = PageOf(db, page.list, 1)
    BY <1>0 DEF ListsInv
<1>5. ASSUME WordSlugs(db)
      PROVE  /\ {page.is : page \in shelf.entries} = Published(db)
             /\ \A page \in shelf.entries : AsServed(page)
    <2>1. Published(EntriesRead) = Published(db) /\ shelf.entries = EntryPages
        BY <1>0, <1>1 DEF Agree, PagesInv
    <2>2. WordSlugs(EntriesRead)
        BY <1>1, <1>5, <2>1 DEF WordSlugs, Agree
    <2> DEFINE page(i) == [key |-> KeyOf(EntriesRead, i), is |-> i, beside |-> Neighbours(RefsRead, i)]
    <2>3. /\ \A i \in Published(db) : page(i) \in shelf.entries
          /\ \A p \in shelf.entries : \E i \in Published(db) : p = page(i)
        BY <1>0, <2>1, <2>2, PagesAre DEF ReadInv
    <2>4. \A i : page(i).is = i /\ page(i).key = KeyOf(EntriesRead, i)
                 /\ page(i).beside = Neighbours(RefsRead, i)
        OBVIOUS
    <2> HIDE DEF page
    <2>5. {p.is : p \in shelf.entries} = Published(db)
        <3>1. \A p \in shelf.entries : p.is \in Published(db)
            BY <2>3, <2>4
        <3>2. \A i \in Published(db) : \E p \in shelf.entries : p.is = i
            BY <2>3, <2>4
        <3>3. QED BY <3>1, <3>2
    <2>6. ASSUME NEW i \in Published(db) PROVE AsServed(page(i))
        <3>1. KeyOf(EntriesRead, i) = KeyOf(db, i)
            BY <1>0, <1>1, <1>2, <2>1, AgreeFacts
        <3>2. Answer(db, KeyOf(db, i)) = [code |-> 200, entry |-> i]
            BY <1>0, <1>5, Answered DEF ReadInv
        <3>3. Published(RefsRead) = Published(db)
            BY <1>1 DEF Agree
        <3>4. Neighbours(RefsRead, i) = Neighbours(db, i)
            BY <1>0, <1>1, <1>2, <3>3, AgreePublic
        <3>5. QED BY <2>4, <3>1, <3>2, <3>4 DEF AsServed
    <2>7. QED BY <2>3, <2>5, <2>6
<1>6. shelf.sitemap = SitemapEntries(db)
    <2>1. \A i \in Published(db) : i \in Published(RefsRead) /\ RefsRead.post[i] = db.post[i]
        BY <1>1 DEF Agree
    <2>2. \A i : i \in SitemapEntries(RefsRead) <=> i \in SitemapEntries(db)
        BY <1>1, <1>2, <2>1 DEF SitemapEntries, Agree
    <2>3. SitemapEntries(RefsRead) = SitemapEntries(db)
        BY <2>2 DEF SitemapEntries
    <2>4. QED BY <1>0, <2>3 DEF PagesInv
<1>7. ASSUME Published(db) = Public(db)
      PROVE  /\ shelf.home = PageOf(db, Home, 1)
             /\ shelf.feed = Recent(db, FeedLimit)
             /\ Cardinality(Public(db)) <= LLMsLimit => shelf.llms = LLMsServed(db)
    <2>1. Public(EntriesRead) = Public(db)
        BY <1>1, <1>2, <1>7 DEF Agree
    <2>2. Home \in Lists
        BY HomeListed
    <2>3. PageOf(EntriesRead, Home, 1) = PageOf(db, Home, 1)
        BY <1>0, <1>1, <1>2, <2>1, <2>2, AgreePublic
    <2>4. Recent(EntriesRead, FeedLimit) = Recent(db, FeedLimit)
        BY <1>0, <1>1, <1>2, <2>1, AgreePublic
    <2>5. Cardinality(Public(db)) <= LLMsLimit => Published(EntriesRead) = Recent(db, LLMsLimit)
        BY <1>0, <1>2, <2>1, RecentAll, SnapshotAssumption
    <2>6. QED BY <1>0, <2>3, <2>4, <2>5 DEF PagesInv, HomeRows, FeedEntries, LLMsEntries, LLMsServed
<1>8. QED BY <1>3, <1>4, <1>5, <1>6, <1>7

(* What Build writes while no one saves is what the public routes answer,   *)
(* and the links of a snapshot lead to pages of it, but for lists where     *)
(* someone saved meanwhile.                                                 *)
THEOREM SnapshotIsFaithful == SnapshotSpec => []SnapshotHolds
<1>1. ReadingTypeOk /\ SnapInv => SnapshotHolds
    BY LinksLead, StaticMatches DEF SnapshotHolds
<1>2. QED BY <1>1, SnapAlways, PTL

-----------------------------------------------------------------------------
(***************************************************************************)
(* The importer: the rows of the old site, and those of this one.          *)
(***************************************************************************)
LEMMA OldFacts ==
    ASSUME old \in LegacySites
    PROVE  /\ old.version \in {2, 3} /\ old.templates \in Nat
           /\ DOMAIN old.cats \subseteq Nat /\ IsFiniteSet(DOMAIN old.cats)
           /\ DOMAIN old.entries \subseteq Nat /\ IsFiniteSet(DOMAIN old.entries)
           /\ IsFiniteSet(DOMAIN old.messages)
           /\ \A k \in DOMAIN old.cats : MainOf(k) \in Int
           /\ NoRef \notin DOMAIN old.cats /\ NoRef \notin DOMAIN old.entries
           /\ Taken \subseteq DOMAIN old.entries /\ IsFiniteSet(Taken)
<1>1. MaxPosts \in Nat /\ IsFiniteSet(0 .. MaxPosts - 1) /\ 0 .. MaxPosts - 1 \subseteq Nat
    BY PostsFinite, FS_Interval
<1>2. /\ old.version \in {2, 3} /\ old.templates \in Nat
      /\ \A k \in DOMAIN old.cats : old.cats[k].main \in Int
      /\ IsFiniteSet(DOMAIN old.messages)
      /\ DOMAIN old.cats \cup DOMAIN old.entries \subseteq 0 .. MaxPosts - 1
    BY ImporterAssumption
<1>3. DOMAIN old.cats \subseteq Nat /\ DOMAIN old.entries \subseteq Nat
    BY <1>1, <1>2
<1>4. NoRef \notin Nat
    BY DEF NoRef
<1>5. IsFiniteSet(DOMAIN old.cats) /\ IsFiniteSet(DOMAIN old.entries)
    BY <1>1, <1>2, FS_Subset
<1>6. \A k \in DOMAIN old.cats : MainOf(k) \in Int
    BY <1>2 DEF MainOf, NumberOf
<1>7. Taken \subseteq DOMAIN old.entries
    BY DEF Taken
<1>8. IsFiniteSet(Taken)
    BY <1>5, <1>7, FS_Subset
<1>9. QED BY <1>2, <1>3, <1>4, <1>5, <1>6, <1>7, <1>8

(* Rows that are numbered in an order have a number each.                   *)
LEMMA Numbered ==
    ASSUME NEW S, IsFiniteSet(S), NEW R, StrictOrder(S, R), NEW base \in Nat
    PROVE  /\ Cardinality(S) \in Nat
           /\ \A x \in S : base + Cardinality(Before(S, R, x)) \in base .. base + Cardinality(S) - 1
           /\ \A x, y \in S : base + Cardinality(Before(S, R, x)) = base + Cardinality(Before(S, R, y))
                              => x = y
<1> DEFINE rank(x) == Cardinality(Before(S, R, x))
<1>1. /\ \A x \in S : rank(x) \in Nat /\ rank(x) < Cardinality(S)
      /\ \A x, y \in S : <<x, y>> \in R => rank(x) < rank(y)
      /\ Cardinality(S) \in Nat
    BY Ranking, FS_CardinalityType
<1> HIDE DEF rank
<1>2. \A x \in S : base + rank(x) \in base .. base + Cardinality(S) - 1
    BY <1>1
<1>3. ASSUME NEW x \in S, NEW y \in S, base + rank(x) = base + rank(y) PROVE x = y
    <2>1. rank(x) = rank(y)
        BY <1>1, <1>3
    <2>2. <<x, y>> \notin R /\ <<y, x>> \notin R
        BY <1>1, <2>1
    <2>3. QED BY <2>2 DEF StrictOrder
<1>4. QED BY <1>1, <1>2, <1>3 DEF rank

(* The numbers of entries and files, and of categories.                     *)
Below(S, x) == {y \in S : y < x}

LEMMA ByNumber ==
    ASSUME NEW S, IsFiniteSet(S), S \subseteq Nat, NEW base \in Nat
    PROVE  /\ Cardinality(S) \in Nat
           /\ \A x \in S : base + Cardinality(Below(S, x)) \in base .. base + Cardinality(S) - 1
           /\ \A x, y \in S : base + Cardinality(Below(S, x)) = base + Cardinality(Below(S, y))
                              => x = y
<1> DEFINE R == {p \in S \X S : p[1] < p[2]}
<1>1. \A x, y \in S : <<x, y>> \in R <=> x < y
    OBVIOUS
<1>2. \A x \in S : Below(S, x) = Before(S, R, x)
    BY <1>1 DEF Before, Below
<1> HIDE DEF R
<1>3. StrictOrder(S, R)
    BY <1>1 DEF StrictOrder
<1>4. /\ Cardinality(S) \in Nat
      /\ \A x \in S : base + Cardinality(Before(S, R, x)) \in base .. base + Cardinality(S) - 1
      /\ \A x, y \in S : base + Cardinality(Before(S, R, x)) = base + Cardinality(Before(S, R, y))
                         => x = y
    BY <1>3, Numbered
<1>5. QED BY <1>2, <1>4

LEMMA PostCopies ==
    ASSUME old \in LegacySites, NEW s, s.nextPost \in Nat
    PROVE  /\ NextPost(s) \in Nat /\ s.nextPost <= NextPost(s)
           /\ \A e \in Taken : PostCopy(s, e) \in s.nextPost .. NextPost(s) - 1
           /\ \A e, f \in Taken : PostCopy(s, e) = PostCopy(s, f) => e = f
<1>1. Taken \subseteq Nat /\ IsFiniteSet(Taken)
    BY OldFacts
<1>2. PICK base \in Nat : base = s.nextPost
    OBVIOUS
<1>3. /\ Cardinality(Taken) \in Nat
      /\ \A e \in Taken : base + Cardinality(Below(Taken, e)) \in base .. base + Cardinality(Taken) - 1
      /\ \A e, f \in Taken : base + Cardinality(Below(Taken, e)) = base + Cardinality(Below(Taken, f))
                            => e = f
    BY <1>1, ByNumber
<1>4. \A e : PostCopy(s, e) = base + Cardinality(Below(Taken, e))
    BY <1>2 DEF PostCopy, Below
<1>5. NextPost(s) = base + Cardinality(Taken)
    BY <1>2 DEF NextPost
<1>6. QED BY <1>2, <1>3, <1>4, <1>5

LEMMA CatCopies ==
    ASSUME old \in LegacySites, NEW s, s.nextCat \in Nat
    PROVE  /\ NextCat(s) \in Nat /\ s.nextCat <= NextCat(s)
           /\ \A k \in DOMAIN old.cats : CatCopy(s, k) \in s.nextCat .. NextCat(s) - 1
           /\ \A j, k \in DOMAIN old.cats : CatCopy(s, j) = CatCopy(s, k) => j = k
<1> DEFINE S == DOMAIN old.cats
           R == {p \in S \X S : Sooner(p[1], p[2])}
<1>1. IsFiniteSet(S) /\ S \subseteq Nat /\ \A k \in S : MainOf(k) \in Int
    BY OldFacts
<1>2. \A x, y \in S : <<x, y>> \in R <=> Sooner(x, y)
    OBVIOUS
<1>3. \A x \in S : {y \in S : Sooner(y, x)} = Before(S, R, x)
    BY <1>2 DEF Before
<1> HIDE DEF R
<1>4. StrictOrder(S, R)
    BY <1>1, <1>2 DEF StrictOrder, Sooner
<1>5. \A k \in S : CatCopy(s, k) = s.nextCat + Cardinality(Before(S, R, k))
    BY <1>3 DEF CatCopy
<1>6. NextCat(s) = s.nextCat + Cardinality(S)
    BY DEF NextCat
<1> HIDE DEF S
<1>7. QED BY <1>1, <1>4, <1>5, <1>6, Numbered DEF S

(***************************************************************************)
(* The tables: s is what a site is, runs how many imports there were.      *)
(***************************************************************************)
PostOk(row, runs) ==
    /\ row = [st |-> row.st, slug |-> row.slug, cat |-> row.cat, legacy |-> row.legacy,
              file |-> row.file, count |-> row.count, run |-> row.run]
    /\ row.st \in {"draft", "published", "closed"}
    /\ row.cat \in CatIds \cup {NoRef} /\ row.count \in Int /\ row.run \in 0 .. runs
CatOk(row, runs) ==
    /\ row = [legacy |-> row.legacy, dir |-> row.dir, slug |-> row.slug, parent |-> row.parent,
              run |-> row.run]
    /\ row.parent \in CatIds \cup {0} /\ row.run \in 0 .. runs
MessageOk(s, m) ==
    /\ m = [of |-> m.of, post |-> m.post, st |-> m.st] /\ m.of = <<m.of[1], m.of[2]>>
    /\ m.post \in Stored(s)

SiteShape(s) == s = [post |-> s.post, cat |-> s.cat, msg |-> s.msg, title |-> s.title,
                     templates |-> s.templates, config |-> s.config,
                     nextPost |-> s.nextPost, nextCat |-> s.nextCat]

PostsOk(s, runs) ==
    /\ DOMAIN s.post = PostIds /\ s.nextPost \in 1 .. MaxPosts + 1
    /\ \A i \in Stored(s) : PostOk(s.post[i], runs) /\ i < s.nextPost
CatsOk(s, runs) ==
    /\ DOMAIN s.cat = CatIds /\ s.nextCat \in 1 .. MaxPosts + 1
    /\ \A c \in Filing(s) : CatOk(s.cat[c], runs) /\ c < s.nextCat
RestOk(s) ==
    /\ s.templates \in Nat /\ DOMAIN s.config = Columns \ {"cgi"}
    /\ IsFiniteSet(s.msg) /\ \A m \in s.msg : MessageOk(s, m)
SiteOk(s, runs) == SiteShape(s) /\ PostsOk(s, runs) /\ CatsOk(s, runs) /\ RestOk(s)

CardsInv ==
    /\ drawing \subseteq Stored(site) \cup late /\ cards \subseteq Stored(site) \cup late
    /\ late \subseteq PostIds
RunsInv ==
    /\ old \in LegacySites /\ DOMAIN cached = Columns \ {"cgi"}
    /\ imports \in 0 .. MaxImports /\ moves \in 0 .. MaxMoves

TablesInv == SiteOk(site, imports) /\ CardsInv /\ RunsInv

LEMMA TablesType == TablesInv => ImporterTypeOk
<1> SUFFICES ASSUME TablesInv PROVE ImporterTypeOk
    OBVIOUS
<1>1. PostsOk(site, imports) /\ CatsOk(site, imports) /\ RestOk(site) /\ CardsInv /\ RunsInv
    BY DEF TablesInv, SiteOk
<1>2. \A i \in Stored(site) : /\ site.post[i].st \in {"draft", "published", "closed"}
                              /\ site.post[i].cat \in CatIds \cup {NoRef}
                              /\ site.post[i].count \in Int
    BY <1>1, Zenon DEF PostsOk, PostOk
<1>3. \A c \in Filing(site) : site.cat[c].parent \in CatIds \cup {0}
    BY <1>1, Zenon DEF CatsOk, CatOk
<1>4. \A m \in site.msg : m.post \in Stored(site)
    BY <1>1, Zenon DEF RestOk, MessageOk
<1>5. /\ site.templates \in Nat
      /\ site.nextPost \in 1 .. MaxPosts + 1 /\ site.nextCat \in 1 .. MaxPosts + 1
    BY <1>1, Zenon DEF PostsOk, CatsOk, RestOk
<1>6. drawing \cup cards \cup late \subseteq PostIds
    BY <1>1 DEF CardsInv, Stored
<1>7. QED BY <1>1, <1>2, <1>3, <1>4, <1>5, <1>6 DEF RunsInv, ImporterTypeOk

LEMMA Numbers ==
    ASSUME TablesInv
    PROVE  /\ MaxPosts \in Nat /\ old \in LegacySites
           /\ site.nextPost \in Nat /\ site.nextPost >= 1 /\ site.nextPost <= MaxPosts + 1
           /\ site.nextCat \in Nat /\ site.nextCat >= 1 /\ site.nextCat <= MaxPosts + 1
           /\ \A i \in Stored(site) : i \in Nat /\ i \in PostIds /\ i < site.nextPost
           /\ \A c \in Filing(site) : c \in Nat /\ c \in CatIds /\ c < site.nextCat
<1>1. MaxPosts \in Nat
    BY PostsFinite
<1>2. /\ site.nextPost \in 1 .. MaxPosts + 1 /\ site.nextCat \in 1 .. MaxPosts + 1
      /\ \A i \in Stored(site) : i < site.nextPost
      /\ \A c \in Filing(site) : c < site.nextCat
      /\ old \in LegacySites
    BY Zenon DEF TablesInv, SiteOk, PostsOk, CatsOk, RunsInv
<1>3. \A i \in Stored(site) : i \in Nat /\ i \in PostIds
    BY <1>1 DEF Stored, PostIds
<1>4. \A c \in Filing(site) : c \in Nat /\ c \in CatIds
    BY <1>1 DEF Filing, CatIds
<1>5. QED BY <1>1, <1>2, <1>3, <1>4

(***************************************************************************)
(* What a run inserts, and that it leaves the other rows.                  *)
(***************************************************************************)
LEMMA EntriesImported ==
    ASSUME TablesInv, NextPost(site) <= MaxPosts + 1
    PROVE  /\ DOMAIN ImportEntries(site) = PostIds
           /\ \A e \in Taken : /\ PostCopy(site, e) \in PostIds
                               /\ PostCopy(site, e) \notin Stored(site)
                               /\ PostCopy(site, e) < NextPost(site)
                               /\ ImportEntries(site)[PostCopy(site, e)] = Copy(site, e)
           /\ \A i \in PostIds : \/ \E e \in Taken : i = PostCopy(site, e)
                                 \/ ImportEntries(site)[i] = site.post[i]
<1>0. MaxPosts \in Nat /\ old \in LegacySites /\ site.nextPost \in Nat /\ site.nextPost >= 1
    BY Numbers
<1>1. /\ NextPost(site) \in Nat
      /\ \A e \in Taken : PostCopy(site, e) \in site.nextPost .. NextPost(site) - 1
      /\ \A e, f \in Taken : PostCopy(site, e) = PostCopy(site, f) => e = f
    BY <1>0, PostCopies
<1>2. ASSUME NEW e \in Taken
      PROVE  /\ PostCopy(site, e) \in PostIds /\ PostCopy(site, e) < NextPost(site)
             /\ PostCopy(site, e) \notin Stored(site)
    <2>1. PICK n \in Nat : n = PostCopy(site, e) /\ site.nextPost <= n /\ n < NextPost(site)
        BY <1>0, <1>1
    <2>2. n \in PostIds
        BY <1>0, <1>1, <2>1 DEF PostIds
    <2>3. n \notin Stored(site)
        <3>1. \A i \in Stored(site) : i \in Nat /\ i < site.nextPost
            BY Numbers
        <3>2. QED BY <1>0, <2>1, <3>1
    <2>4. QED BY <2>1, <2>2, <2>3
<1>3. \A i \in PostIds : ImportEntries(site)[i] =
          IF \E e \in Taken : i = PostCopy(site, e)
          THEN Copy(site, CHOOSE e \in Taken : i = PostCopy(site, e)) ELSE site.post[i]
    BY DEF ImportEntries
<1>4. ASSUME NEW e \in Taken PROVE ImportEntries(site)[PostCopy(site, e)] = Copy(site, e)
    <2>1. (CHOOSE f \in Taken : PostCopy(site, e) = PostCopy(site, f)) = e
        BY <1>1
    <2>2. QED BY <1>2, <1>3, <2>1
<1>5. DOMAIN ImportEntries(site) = PostIds
    BY DEF ImportEntries
<1>6. QED BY <1>2, <1>3, <1>4, <1>5

CatRow(k) == [legacy |-> k, dir |-> old.cats[k].dir, slug |-> "", parent |-> ParentOf(site, k),
              run |-> imports + 1]

LEMMA CategoriesImported ==
    ASSUME TablesInv, NextCat(site) <= MaxPosts + 1
    PROVE  /\ DOMAIN ImportCategories(site) = CatIds
           /\ \A k \in DOMAIN old.cats : /\ CatCopy(site, k) \in CatIds
                                         /\ CatCopy(site, k) \notin Filing(site)
                                         /\ CatCopy(site, k) < NextCat(site)
                                         /\ ImportCategories(site)[CatCopy(site, k)] = CatRow(k)
           /\ \A c \in CatIds : \/ \E k \in DOMAIN old.cats : c = CatCopy(site, k)
                                \/ ImportCategories(site)[c] = site.cat[c]
<1>0. MaxPosts \in Nat /\ old \in LegacySites /\ site.nextCat \in Nat /\ site.nextCat >= 1
    BY Numbers
<1>1. /\ NextCat(site) \in Nat
      /\ \A k \in DOMAIN old.cats : CatCopy(site, k) \in site.nextCat .. NextCat(site) - 1
      /\ \A j, k \in DOMAIN old.cats : CatCopy(site, j) = CatCopy(site, k) => j = k
    BY <1>0, CatCopies
<1>2. ASSUME NEW k \in DOMAIN old.cats
      PROVE  /\ CatCopy(site, k) \in CatIds /\ CatCopy(site, k) < NextCat(site)
             /\ CatCopy(site, k) \notin Filing(site)
    <2>1. PICK n \in Nat : n = CatCopy(site, k) /\ site.nextCat <= n /\ n < NextCat(site)
        BY <1>0, <1>1
    <2>2. n \in CatIds
        BY <1>0, <1>1, <2>1 DEF CatIds
    <2>3. n \notin Filing(site)
        <3>1. \A c \in Filing(site) : c \in Nat /\ c < site.nextCat
            BY Numbers
        <3>2. QED BY <1>0, <2>1, <3>1
    <2>4. QED BY <2>1, <2>2, <2>3
<1>3. \A c \in CatIds : ImportCategories(site)[c] =
          IF \E k \in DOMAIN old.cats : c = CatCopy(site, k)
          THEN CatRow(CHOOSE k \in DOMAIN old.cats : c = CatCopy(site, k)) ELSE site.cat[c]
    BY DEF ImportCategories, CatRow
<1>4. ASSUME NEW k \in DOMAIN old.cats PROVE ImportCategories(site)[CatCopy(site, k)] = CatRow(k)
    <2>1. (CHOOSE j \in DOMAIN old.cats : CatCopy(site, k) = CatCopy(site, j)) = k
        BY <1>1
    <2>2. QED BY <1>2, <1>3, <2>1
<1>5. DOMAIN ImportCategories(site) = CatIds
    BY DEF ImportCategories
<1>6. QED BY <1>2, <1>3, <1>4, <1>5

(* Of the files of a directory that are taken, each gets a row of its own.  *)
LEMMA FilesApart ==
    ASSUME TablesInv, NEW files \in Directories,
           site.nextPost + Cardinality(Fresh(site, files)) <= MaxPosts + 1
    PROVE  /\ Cardinality(Fresh(site, files)) \in Nat
           /\ \A n \in Fresh(site, files) :
                 /\ RowFor(site, files, n) \in PostIds /\ RowFor(site, files, n) \notin Stored(site)
                 /\ RowFor(site, files, n) < site.nextPost + Cardinality(Fresh(site, files))
           /\ \A n \in Records(files) \ Fresh(site, files) :
                 /\ RowFor(site, files, n) \in Stored(site)
                 /\ site.post[RowFor(site, files, n)].slug = files[n].slug
           /\ \A n, k \in Records(files) : RowFor(site, files, n) = RowFor(site, files, k) => n = k
           /\ \A n, k \in Records(files) : files[n].slug = files[k].slug => n = k
<1> DEFINE F == Fresh(site, files)
           row(n) == RowFor(site, files, n)
<1>0. MaxPosts \in Nat /\ site.nextPost \in Nat /\ site.nextPost >= 1
    BY Numbers
<1>1. DOMAIN files = 1 .. Len(files) /\ Len(files) \in Nat
    BY ImporterAssumption
<1>2. Records(files) \subseteq DOMAIN files /\ F \subseteq Records(files)
    BY DEF Records, Fresh
<1>3. IsFiniteSet(1 .. Len(files)) /\ 1 .. Len(files) \subseteq Nat
    BY <1>1, FS_Interval
<1>4. IsFiniteSet(F) /\ F \subseteq Nat
    BY <1>1, <1>2, <1>3, FS_Subset
<1>5. PICK base \in Nat : base = site.nextPost
    BY <1>0
<1> HIDE DEF F
<1>6. /\ Cardinality(F) \in Nat
      /\ \A x \in F : base + Cardinality(Below(F, x)) \in base .. base + Cardinality(F) - 1
      /\ \A x, y \in F : base + Cardinality(Below(F, x)) = base + Cardinality(Below(F, y)) => x = y
    BY <1>4, ByNumber
<1>7. \A n \in F : row(n) = base + Cardinality(Below(F, n))
    BY <1>5 DEF RowFor, Below, F
<1>8. \A n \in Records(files) \ F : row(n) \in Called(site, files[n].slug)
    BY DEF RowFor, F, Fresh
<1> HIDE DEF row
<1>9. \A i \in Stored(site) : i \in Nat /\ i < base
    BY <1>5, Numbers
<1>10. ASSUME NEW n \in F
       PROVE  row(n) \in PostIds /\ row(n) \notin Stored(site) /\ row(n) < base + Cardinality(F)
    <2>1. PICK k \in Nat : k = row(n) /\ base <= k /\ k < base + Cardinality(F)
        BY <1>6, <1>7
    <2>2. base + Cardinality(F) <= MaxPosts + 1 /\ base >= 1
        BY <1>0, <1>5 DEF F
    <2>3. k \in PostIds
        BY <1>0, <1>6, <2>1, <2>2 DEF PostIds
    <2>4. k \notin Stored(site)
        BY <1>9, <2>1
    <2>5. QED BY <2>1, <2>3, <2>4
<1>11. \A n \in Records(files) \ F : row(n) \in Stored(site) /\ site.post[row(n)].slug = files[n].slug
    BY <1>8 DEF Called
<1>12. ASSUME NEW n \in Records(files), NEW k \in Records(files), files[n].slug = files[k].slug
       PROVE  n = k
    <2>1. n \in Nat /\ k \in Nat /\ n >= 1 /\ k >= 1
        BY <1>1, <1>2
    <2>2. ~(k \in 1 .. n - 1) /\ ~(n \in 1 .. k - 1)
        BY <1>12 DEF Records
    <2>3. QED BY <2>1, <2>2
<1>13. ASSUME NEW n \in Records(files), NEW k \in Records(files), row(n) = row(k) PROVE n = k
    <2>1. CASE n \in F /\ k \in F
        BY <1>6, <1>7, <1>13, <2>1
    <2>2. CASE n \notin F /\ k \notin F
        BY <1>11, <1>12, <1>13, <2>2
    <2>3. CASE n \in F <=> k \notin F
        BY <1>10, <1>11, <1>13, <2>3
    <2>4. QED BY <2>1, <2>2, <2>3
<1>14. QED BY <1>5, <1>6, <1>10, <1>11, <1>12, <1>13 DEF F, row

NewRow(files, n) ==
    [st |-> files[n].st, slug |-> files[n].slug, cat |-> CategoryNamed(site, files[n].cat),
     legacy |-> NoRef, file |-> NoName, count |-> 0, run |-> 0]

LEMMA Upserted ==
    ASSUME TablesInv, NEW files \in Directories,
           site.nextPost + Cardinality(Fresh(site, files)) <= MaxPosts + 1
    PROVE  /\ DOMAIN Upsert(site, files) = PostIds
           /\ \A n \in Fresh(site, files) :
                 Upsert(site, files)[RowFor(site, files, n)] = NewRow(files, n)
           /\ \A n \in Records(files) \ Fresh(site, files) :
                 Upsert(site, files)[RowFor(site, files, n)] =
                     [site.post[RowFor(site, files, n)] EXCEPT !.st = files[n].st,
                                                  !.cat = CategoryNamed(site, files[n].cat)]
           /\ \A i \in PostIds : \/ \E n \in Records(files) : i = RowFor(site, files, n)
                                 \/ Upsert(site, files)[i] = site.post[i]
<1> DEFINE F == Fresh(site, files)
           row(n) == RowFor(site, files, n)
           blank(n) == [st |-> "", slug |-> files[n].slug, cat |-> NoRef,
                        legacy |-> NoRef, file |-> NoName, count |-> 0, run |-> 0]
           value(i, n) == [IF n \in F THEN blank(n) ELSE site.post[i]
                           EXCEPT !.st = files[n].st, !.cat = CategoryNamed(site, files[n].cat)]
<1>1. \A i \in PostIds : Upsert(site, files)[i] =
          IF \E n \in Records(files) : i = row(n)
          THEN value(i, CHOOSE k \in Records(files) : i = row(k)) ELSE site.post[i]
    BY DEF Upsert
<1>2. DOMAIN Upsert(site, files) = PostIds
    BY DEF Upsert
<1>3. ASSUME NEW n \in F PROVE value(row(n), n) = NewRow(files, n)
    <2>1. PICK r : r = blank(n)
        OBVIOUS
    <2>2. value(row(n), n) = [r EXCEPT !.st = files[n].st, !.cat = CategoryNamed(site, files[n].cat)]
        BY <1>3, <2>1
    <2>3. PICK st, slug, cat : /\ st = files[n].st /\ slug = files[n].slug
                               /\ cat = CategoryNamed(site, files[n].cat)
        OBVIOUS
    <2>4. PICK x : x = value(row(n), n)
        OBVIOUS
    <2> HIDE DEF value
    <2>5. /\ x = [r EXCEPT !.st = st, !.cat = cat]
          /\ r = [st |-> "", slug |-> slug, cat |-> NoRef, legacy |-> NoRef, file |-> NoName,
                  count |-> 0, run |-> 0]
        BY <2>1, <2>2, <2>3, <2>4
    <2>6. x = [st |-> st, slug |-> slug, cat |-> cat, legacy |-> NoRef, file |-> NoName,
               count |-> 0, run |-> 0]
        BY <2>5
    <2>7. QED BY <2>3, <2>4, <2>6 DEF NewRow
<1>4. \A n \in Records(files) \ F : value(row(n), n) =
          [site.post[row(n)] EXCEPT !.st = files[n].st, !.cat = CategoryNamed(site, files[n].cat)]
    OBVIOUS
<1>5. F \subseteq Records(files)
    BY DEF Fresh
<1> HIDE DEF value, row, F
<1>6. ASSUME NEW n \in Records(files) PROVE Upsert(site, files)[row(n)] = value(row(n), n)
    <2>1. (CHOOSE k \in Records(files) : row(n) = row(k)) = n
        BY FilesApart DEF row
    <2>2. row(n) \in PostIds
        BY FilesApart DEF row, F, Stored
    <2>3. QED BY <1>1, <2>1, <2>2
<1>7. QED BY <1>1, <1>2, <1>3, <1>4, <1>5, <1>6 DEF row, F

(***************************************************************************)
(* What the copies keep of the old site.                                   *)
(***************************************************************************)
LandOk(s) ==
    /\ \A i, j \in Stored(s) : s.post[i].slug = s.post[j].slug => i = j \/ s.post[i].slug = ""
    /\ \A i \in Stored(s) : s.post[i].legacy # NoRef =>
          /\ s.post[i].legacy \in DOMAIN old.entries
          /\ s.post[i].file = old.entries[s.post[i].legacy].file

BelowMain(s, row) ==
    IF MainOf(row.legacy) \in DOMAIN old.cats
    THEN /\ row.parent \in Filing(s)
         /\ s.cat[row.parent].legacy = MainOf(row.legacy)
         /\ s.cat[row.parent].run = row.run
    ELSE row.parent = 0
FiledAsBefore(s, row) ==
    LET ref == NumberOf(old.entries[row.legacy].cat)
    IN IF ref \in DOMAIN old.cats THEN row.cat \in Filing(s) /\ s.cat[row.cat].legacy = ref
       ELSE row.cat = NoRef

TreeOk(s) == \A c \in Filing(s) : s.cat[c].run > 0 => BelowMain(s, s.cat[c])
FiledOk(s) == \A i \in Stored(s) :
    s.post[i].run > 0 /\ s.post[i].slug = "" => FiledAsBefore(s, s.post[i])
MessagesOk(s) ==
    /\ \A m \in s.msg : /\ s.post[m.post].run = m.of[1]
                        /\ s.post[m.post].legacy = EntryOf(m.of[2])
    /\ \A m, n \in s.msg : m.of = n.of => m = n

ApprovedAt(s, i) == {m \in s.msg : m.post = i /\ m.st = "approved"}
ArrivedAt(s, i) == {m \in s.msg : m.post = i /\ old.messages[m.of[2]].st = "approved"}
CountsOk(s) == \A i \in Stored(s) :
    s.post[i].count = Cardinality(ApprovedAt(s, i)) - Cardinality(ArrivedAt(s, i))

KeepsOk(s) == LandOk(s) /\ TreeOk(s) /\ FiledOk(s) /\ MessagesOk(s) /\ CountsOk(s)

ImportInv == TablesInv /\ KeepsOk(site)

LEMMA Lifted ==
    ASSUME old' = old, KeepsOk(site')
    PROVE  KeepsOk(site)'
<1>1. LandOk(site)'
    BY DEF KeepsOk, LandOk, Stored
<1>2. TreeOk(site)'
    BY DEF KeepsOk, TreeOk, BelowMain, Filing, MainOf, NumberOf
<1>3. FiledOk(site)'
    BY DEF KeepsOk, FiledOk, FiledAsBefore, Stored, Filing, NumberOf
<1>4. MessagesOk(site)'
    BY DEF KeepsOk, MessagesOk, EntryOf, NumberOf
<1>5. CountsOk(site)'
    BY DEF KeepsOk, CountsOk, ApprovedAt, ArrivedAt, Stored
<1>6. QED BY <1>1, <1>2, <1>3, <1>4, <1>5 DEF KeepsOk

LEMMA TablesLifted ==
    ASSUME SiteOk(site', imports')
    PROVE  SiteOk(site, imports)'
<1>1. SiteShape(site') /\ PostsOk(site', imports') /\ CatsOk(site', imports') /\ RestOk(site')
    BY DEF SiteOk
<1>2. SiteShape(site)'
    BY <1>1, Zenon DEF SiteShape
<1>3. PostsOk(site, imports)'
    BY <1>1, Zenon DEF PostsOk, PostOk, Stored
<1>4. CatsOk(site, imports)'
    BY <1>1, Zenon DEF CatsOk, CatOk, Filing
<1>5. RestOk(site)'
    BY <1>1, Zenon DEF RestOk, MessageOk, Stored
<1>6. QED BY <1>2, <1>3, <1>4, <1>5, Zenon DEF SiteOk

(* Rows and categories that stay what they were taken from, whatever they   *)
(* are called now.                                                          *)
CatsStay(t) == \A c \in Filing(site) :
    /\ c \in Filing(t) /\ t.cat[c].legacy = site.cat[c].legacy
    /\ t.cat[c].parent = site.cat[c].parent /\ t.cat[c].run = site.cat[c].run
PostStays(t, i) ==
    /\ i \in Stored(t) /\ t.post[i].legacy = site.post[i].legacy
    /\ t.post[i].file = site.post[i].file /\ t.post[i].run = site.post[i].run

LEMMA BelowStays ==
    ASSUME NEW t, CatsStay(t), NEW row, NEW new, BelowMain(site, row),
           new.legacy = row.legacy, new.parent = row.parent, new.run = row.run
    PROVE  BelowMain(t, new)
BY DEF BelowMain, CatsStay

LEMMA FilingStays ==
    ASSUME NEW t, CatsStay(t), NEW row, NEW new, FiledAsBefore(site, row),
           new.legacy = row.legacy, new.cat = row.cat
    PROVE  FiledAsBefore(t, new)
BY DEF FiledAsBefore, CatsStay

(* A step that files nothing leaves the tree.                               *)
LEMMA TreeStays ==
    ASSUME NEW t, CatsStay(t), Filing(t) = Filing(site), TreeOk(site)
    PROVE  TreeOk(t)
<1> SUFFICES ASSUME NEW c \in Filing(t), t.cat[c].run > 0 PROVE BelowMain(t, t.cat[c])
    BY DEF TreeOk
<1>1. PICK row : row = site.cat[c]
    OBVIOUS
<1>2. PICK new : new = t.cat[c]
    OBVIOUS
<1>3. new.legacy = row.legacy /\ new.parent = row.parent /\ new.run = row.run
    BY <1>1, <1>2 DEF CatsStay
<1>4. BelowMain(site, row)
    BY <1>1, <1>2, <1>3 DEF TreeOk
<1>5. BelowMain(t, new)
    BY <1>3, <1>4, BelowStays
<1>6. QED BY <1>2, <1>5

(* A step that touches no comment leaves the counters, and new rows have    *)
(* none.                                                                    *)
LEMMA CountsStay ==
    ASSUME NEW t, t.msg = site.msg, MessagesOk(site), CountsOk(site),
           \A m \in site.msg : m.post \in Stored(site),
           \A i \in Stored(site) : PostStays(t, i) /\ t.post[i].count = site.post[i].count,
           \A i \in Stored(t) \ Stored(site) : t.post[i].count = 0
    PROVE  MessagesOk(t) /\ CountsOk(t)
<1>1. MessagesOk(t)
    BY DEF MessagesOk, PostStays
<1>2. ASSUME NEW i \in Stored(t)
      PROVE  t.post[i].count = Cardinality(ApprovedAt(t, i)) - Cardinality(ArrivedAt(t, i))
    <2>1. ApprovedAt(t, i) = ApprovedAt(site, i) /\ ArrivedAt(t, i) = ArrivedAt(site, i)
        BY DEF ApprovedAt, ArrivedAt
    <2>2. CASE i \in Stored(site)
        BY <2>1, <2>2 DEF CountsOk
    <2>3. CASE i \notin Stored(site)
        <3>1. ApprovedAt(t, i) = {} /\ ArrivedAt(t, i) = {}
            BY <2>3 DEF ApprovedAt, ArrivedAt
        <3>2. Cardinality(ApprovedAt(t, i)) = 0 /\ Cardinality(ArrivedAt(t, i)) = 0
            BY <3>1, FS_EmptySet
        <3>3. QED BY <2>3, <3>2
    <2>4. QED BY <2>2, <2>3
<1>3. QED BY <1>1, <1>2 DEF CountsOk

(***************************************************************************)
(* A run that copies the old site into t.                                  *)
(***************************************************************************)
Copied(messages, t) ==
    /\ TablesInv /\ imports' = imports + 1 /\ imports < MaxImports
    /\ NextPost(site) <= MaxPosts + 1 /\ NextCat(site) <= MaxPosts + 1
    /\ messages \subseteq ImportMessages(site)
    /\ t = [post |-> ImportEntries(site), cat |-> ImportCategories(site),
            msg |-> site.msg \cup messages,
            title |-> ImportWeblog(site), templates |-> ImportTemplates(site),
            config |-> LoadLegacyConfig,
            nextPost |-> NextPost(site), nextCat |-> NextCat(site)]

LEMMA CopyFields ==
    \A e \in Taken :
           /\ Copy(site, e).st = "published" /\ Copy(site, e).slug = "" /\ Copy(site, e).legacy = e
           /\ Copy(site, e).file = old.entries[e].file
           /\ Copy(site, e).cat = ResolveCategory(site, old.entries[e].cat)
BY DEF Copy

LEMMA CopyCounts ==
    \A e \in Taken : Copy(site, e).count = 0 /\ Copy(site, e).run = imports + 1
BY DEF Copy

LEMMA CopyShape ==
    \A e \in Taken :
        Copy(site, e) = [st |-> Copy(site, e).st, slug |-> Copy(site, e).slug,
                         cat |-> Copy(site, e).cat, legacy |-> Copy(site, e).legacy,
                         file |-> Copy(site, e).file, count |-> Copy(site, e).count,
                         run |-> Copy(site, e).run]
BY DEF Copy

LEMMA CatRowFields ==
    \A k \in DOMAIN old.cats :
           /\ CatRow(k).legacy = k /\ CatRow(k).parent = ParentOf(site, k)
           /\ CatRow(k).run = imports + 1
           /\ CatRow(k) = [legacy |-> CatRow(k).legacy, dir |-> CatRow(k).dir, slug |-> CatRow(k).slug,
                           parent |-> CatRow(k).parent, run |-> CatRow(k).run]
BY DEF CatRow

(* What is there afterwards: the rows of before, and the copies.            *)
LEMMA CopiedRows ==
    ASSUME NEW messages, NEW t, Copied(messages, t)
    PROVE  /\ \A i \in Stored(site) : i \in Stored(t) /\ t.post[i] = site.post[i]
           /\ \A e \in Taken : /\ PostCopy(site, e) \in Stored(t) \ Stored(site)
                               /\ PostCopy(site, e) < t.nextPost
                               /\ t.post[PostCopy(site, e)] = Copy(site, e)
           /\ \A i \in Stored(t) : i \in Stored(site) \/ \E e \in Taken : i = PostCopy(site, e)
           /\ DOMAIN t.post = PostIds
<1>1. old \in LegacySites /\ NextPost(site) <= MaxPosts + 1 /\ TablesInv
      /\ t.post = ImportEntries(site) /\ t.nextPost = NextPost(site)
    BY Numbers DEF Copied
<1>2. /\ DOMAIN t.post = PostIds
      /\ \A e \in Taken : /\ PostCopy(site, e) \in PostIds /\ PostCopy(site, e) \notin Stored(site)
                          /\ PostCopy(site, e) < NextPost(site)
                          /\ t.post[PostCopy(site, e)] = Copy(site, e)
      /\ \A i \in PostIds : (\E e \in Taken : i = PostCopy(site, e)) \/ t.post[i] = site.post[i]
    BY <1>1, EntriesImported
<1>3. \A e \in Taken : Copy(site, e) # NoRow
    <2>1. NoRow.st = "none"
        BY DEF NoRow
    <2>2. QED BY <2>1, CopyFields
<1>4. QED BY <1>1, <1>2, <1>3 DEF Stored

LEMMA CopiedCats ==
    ASSUME NEW messages, NEW t, Copied(messages, t)
    PROVE  /\ \A c \in Filing(site) : c \in Filing(t) /\ t.cat[c] = site.cat[c]
           /\ \A k \in DOMAIN old.cats : /\ CatCopy(site, k) \in Filing(t) \ Filing(site)
                                         /\ CatCopy(site, k) \in CatIds
                                         /\ CatCopy(site, k) < t.nextCat
                                         /\ t.cat[CatCopy(site, k)] = CatRow(k)
           /\ \A c \in Filing(t) : c \in Filing(site) \/ \E k \in DOMAIN old.cats : c = CatCopy(site, k)
           /\ DOMAIN t.cat = CatIds
<1>1. old \in LegacySites /\ NextCat(site) <= MaxPosts + 1 /\ TablesInv
      /\ t.cat = ImportCategories(site) /\ t.nextCat = NextCat(site)
    BY Numbers DEF Copied
<1>2. /\ DOMAIN t.cat = CatIds
      /\ \A k \in DOMAIN old.cats : /\ CatCopy(site, k) \in CatIds /\ CatCopy(site, k) \notin Filing(site)
                                    /\ CatCopy(site, k) < NextCat(site)
                                    /\ t.cat[CatCopy(site, k)] = CatRow(k)
      /\ \A c \in CatIds : (\E k \in DOMAIN old.cats : c = CatCopy(site, k)) \/ t.cat[c] = site.cat[c]
    BY <1>1, CategoriesImported
<1>3. \A k \in DOMAIN old.cats : CatRow(k) # NoCat
    <2>1. NoCat.legacy = NoRef
        BY DEF NoCat
    <2>2. QED BY <1>1, <2>1, OldFacts, CatRowFields
<1>4. QED BY <1>1, <1>2, <1>3 DEF Filing

LEMMA CopiedMessages ==
    ASSUME NEW messages, NEW t, Copied(messages, t)
    PROVE  /\ t.msg = site.msg \cup messages /\ IsFiniteSet(messages)
           /\ \A m \in messages :
                 /\ m.of[1] = imports + 1 /\ m.of = <<m.of[1], m.of[2]>>
                 /\ EntryOf(m.of[2]) \in Taken /\ m.post = PostCopy(site, EntryOf(m.of[2]))
                 /\ m.st = old.messages[m.of[2]].st
                 /\ m = [of |-> m.of, post |-> m.post, st |-> m.st]
<1>0. old \in LegacySites
    BY Numbers DEF Copied
<1>1. \A m \in messages : \E k \in DOMAIN old.messages :
           /\ EntryOf(k) \in Taken
           /\ m = [of |-> <<imports + 1, k>>, post |-> PostCopy(site, EntryOf(k)),
                   st |-> old.messages[k].st]
    BY DEF Copied, ImportMessages
<1>2. ASSUME NEW m \in messages
       PROVE  /\ m.of[1] = imports + 1 /\ m.of = <<m.of[1], m.of[2]>>
              /\ EntryOf(m.of[2]) \in Taken /\ m.post = PostCopy(site, EntryOf(m.of[2]))
              /\ m.st = old.messages[m.of[2]].st
              /\ m = [of |-> m.of, post |-> m.post, st |-> m.st]
    <2>1. PICK k \in DOMAIN old.messages :
              /\ EntryOf(k) \in Taken
              /\ m = [of |-> <<imports + 1, k>>, post |-> PostCopy(site, EntryOf(k)),
                      st |-> old.messages[k].st]
        BY <1>1
    <2>2. m.of = <<imports + 1, k>>
        BY <2>1
    <2>3. m.of[1] = imports + 1 /\ m.of[2] = k
        BY <2>2
    <2>4. m.post = PostCopy(site, EntryOf(k)) /\ m.st = old.messages[k].st
        BY <2>1
    <2>5. QED BY <2>1, <2>2, <2>3, <2>4
<1>3. IsFiniteSet(messages)
    <2> DEFINE f == [k \in DOMAIN old.messages |->
                        [of |-> <<imports + 1, k>>, post |-> PostCopy(site, EntryOf(k)),
                         st |-> old.messages[k].st]]
    <2>1. IsFiniteSet(DOMAIN old.messages)
        BY <1>0, OldFacts
    <2>2. \A m \in messages : \E k \in DOMAIN old.messages : m = f[k]
        BY <1>1
    <2>3. DOMAIN f = DOMAIN old.messages /\ f = [k \in DOMAIN f |-> f[k]]
        OBVIOUS
    <2> HIDE DEF f
    <2> DEFINE T == {f[k] : k \in DOMAIN old.messages}
    <2>4. f \in Surjection(DOMAIN old.messages, T)
        BY <2>3 DEF Surjection
    <2>5. IsFiniteSet(T)
        BY <2>1, <2>4, FS_Surjection
    <2>6. messages \subseteq T
        BY <2>2
    <2>7. QED BY <2>5, <2>6, FS_Subset
<1>4. t.msg = site.msg \cup messages
    BY DEF Copied
<1>5. QED BY <1>2, <1>3, <1>4

LEMMA OlderRows ==
    ASSUME NEW row, NEW runs \in Nat
    PROVE  /\ PostOk(row, runs) => PostOk(row, runs + 1)
           /\ CatOk(row, runs) => CatOk(row, runs + 1)
<1>1. row.run \in 0 .. runs => row.run \in 0 .. runs + 1
    OBVIOUS
<1>2. QED BY <1>1 DEF PostOk, CatOk

LEMMA CopiedTables ==
    ASSUME NEW messages, NEW t, Copied(messages, t)
    PROVE  SiteOk(t, imports + 1)
<1>1. SiteOk(site, imports) /\ imports \in Nat
    <2>1. TablesInv /\ MaxImports \in Nat
        BY ImporterAssumption DEF Copied
    <2>2. QED BY <2>1 DEF TablesInv, RunsInv
<1>2. PostsOk(site, imports) /\ CatsOk(site, imports) /\ RestOk(site)
    BY <1>1 DEF SiteOk
<1>3. /\ t.nextPost = NextPost(site) /\ t.nextCat = NextCat(site) /\ t.title = ImportWeblog(site)
      /\ t.templates = ImportTemplates(site) /\ t.config = LoadLegacyConfig /\ SiteShape(t)
    BY DEF Copied, SiteShape
<1>4. /\ MaxPosts \in Nat /\ site.nextPost \in Nat /\ site.nextPost >= 1 /\ site.nextCat \in Nat
      /\ site.nextCat >= 1 /\ NextPost(site) \in Nat /\ NextCat(site) \in Nat
      /\ site.nextPost <= NextPost(site) /\ site.nextCat <= NextCat(site)
      /\ NextPost(site) <= MaxPosts + 1 /\ NextCat(site) <= MaxPosts + 1
      /\ old \in LegacySites
    BY Numbers, PostCopies, CatCopies DEF Copied
<1>5. PostsOk(t, imports + 1)
    <2>1. ASSUME NEW i \in Stored(t) PROVE PostOk(t.post[i], imports + 1) /\ i < t.nextPost
        <3>1. CASE i \in Stored(site)
            <4>1. PostOk(site.post[i], imports) /\ i < site.nextPost
                BY <1>2, <3>1, Zenon DEF PostsOk
            <4>2. t.post[i] = site.post[i] /\ i \in Nat
                BY <3>1, CopiedRows, Numbers DEF Copied
            <4>3. QED BY <1>1, <1>3, <1>4, <4>1, <4>2, OlderRows
        <3>2. CASE \E e \in Taken : i = PostCopy(site, e)
            <4>1. PICK e \in Taken : i = PostCopy(site, e)
                BY <3>2
            <4>2. t.post[i] = Copy(site, e) /\ i < t.nextPost
                BY <4>1, CopiedRows
            <4>3. Copy(site, e).cat \in CatIds \cup {NoRef}
                <5>1. Copy(site, e).cat = ResolveCategory(site, old.entries[e].cat)
                    BY CopyFields, Zenon
                <5>2. \A k \in DOMAIN old.cats : CatCopy(site, k) \in CatIds
                    BY CopiedCats, Zenon
                <5>3. QED BY <5>1, <5>2 DEF ResolveCategory
            <4>4. Copy(site, e).run \in 0 .. imports + 1 /\ Copy(site, e).count \in Int
                BY <1>1, CopyCounts
            <4>5. PICK row : row = Copy(site, e)
                OBVIOUS
            <4>6. /\ row.st = "published" /\ row.cat \in CatIds \cup {NoRef} /\ row.count \in Int
                  /\ row.run \in 0 .. imports + 1
                  /\ row = [st |-> row.st, slug |-> row.slug, cat |-> row.cat, legacy |-> row.legacy,
                            file |-> row.file, count |-> row.count, run |-> row.run]
                BY <4>3, <4>4, <4>5, CopyFields, CopyShape, Zenon
            <4>7. PostOk(row, imports + 1)
                BY <4>6, Zenon DEF PostOk
            <4>8. QED BY <4>2, <4>5, <4>7
        <3>3. QED BY <3>1, <3>2, CopiedRows
    <2>2. DOMAIN t.post = PostIds /\ t.nextPost \in 1 .. MaxPosts + 1
        BY <1>3, <1>4, CopiedRows
    <2>3. QED BY <2>1, <2>2 DEF PostsOk
<1>6. CatsOk(t, imports + 1)
    <2>1. ASSUME NEW c \in Filing(t) PROVE CatOk(t.cat[c], imports + 1) /\ c < t.nextCat
        <3>1. CASE c \in Filing(site)
            <4>1. CatOk(site.cat[c], imports) /\ c < site.nextCat
                BY <1>2, <3>1, Zenon DEF CatsOk
            <4>2. t.cat[c] = site.cat[c] /\ c \in Nat
                BY <3>1, CopiedCats, Numbers DEF Copied
            <4>3. QED BY <1>1, <1>3, <1>4, <4>1, <4>2, OlderRows
        <3>2. CASE \E k \in DOMAIN old.cats : c = CatCopy(site, k)
            <4>1. PICK k \in DOMAIN old.cats : c = CatCopy(site, k)
                BY <3>2
            <4>2. t.cat[c] = CatRow(k) /\ c < t.nextCat
                BY <4>1, CopiedCats
            <4>3. CatRow(k).parent \in CatIds \cup {0}
                BY CopiedCats, CatRowFields DEF ParentOf
            <4>4. CatRow(k).run \in 0 .. imports + 1
                BY <1>1, CatRowFields
            <4>5. PICK row : row = CatRow(k)
                OBVIOUS
            <4>6. /\ row.parent \in CatIds \cup {0} /\ row.run \in 0 .. imports + 1
                  /\ row = [legacy |-> row.legacy, dir |-> row.dir, slug |-> row.slug,
                            parent |-> row.parent, run |-> row.run]
                BY <4>3, <4>4, <4>5, CatRowFields, Zenon
            <4>7. CatOk(row, imports + 1)
                BY <4>6, Zenon DEF CatOk
            <4>8. QED BY <4>2, <4>5, <4>7
        <3>3. QED BY <3>1, <3>2, CopiedCats
    <2>2. DOMAIN t.cat = CatIds /\ t.nextCat \in 1 .. MaxPosts + 1
        BY <1>3, <1>4, CopiedCats
    <2>3. QED BY <2>1, <2>2 DEF CatsOk
<1>7. RestOk(t)
    <2>1. ASSUME NEW m \in t.msg PROVE MessageOk(t, m)
        <3>1. CASE m \in site.msg
            <4>1. MessageOk(site, m)
                BY <1>2, <3>1 DEF RestOk
            <4>2. QED BY <4>1, CopiedRows DEF MessageOk
        <3>2. CASE m \in messages
            <4>1. /\ m.of = <<m.of[1], m.of[2]>> /\ EntryOf(m.of[2]) \in Taken
                  /\ m.post = PostCopy(site, EntryOf(m.of[2]))
                  /\ m = [of |-> m.of, post |-> m.post, st |-> m.st]
                BY <3>2, CopiedMessages
            <4>2. m.post \in Stored(t)
                BY <4>1, CopiedRows
            <4>3. QED BY <4>1, <4>2, Zenon DEF MessageOk
        <3>3. QED BY <3>1, <3>2, CopiedMessages
    <2>2. t.templates \in Nat
        <3>1. old.templates \in Nat
            BY <1>4, OldFacts
        <3>2. site.templates \in Nat
            BY <1>2, Zenon DEF RestOk
        <3>3. QED BY <1>3, <3>1, <3>2 DEF ImportTemplates
    <2>3. DOMAIN t.config = Columns \ {"cgi"}
        BY <1>3 DEF LoadLegacyConfig
    <2>4. IsFiniteSet(t.msg)
        <3>1. IsFiniteSet(site.msg)
            BY <1>2, Zenon DEF RestOk
        <3>2. t.msg = site.msg \cup messages /\ IsFiniteSet(messages)
            BY CopiedMessages, Zenon
        <3>3. QED BY <3>1, <3>2, FS_Union
    <2>5. QED BY <2>1, <2>2, <2>3, <2>4 DEF RestOk
<1>8. QED BY <1>3, <1>5, <1>6, <1>7 DEF SiteOk

LEMMA CopiedLand ==
    ASSUME NEW messages, NEW t, Copied(messages, t), LandOk(site)
    PROVE  LandOk(t)
<1>1. \A i \in Stored(t) : \/ i \in Stored(site) /\ t.post[i] = site.post[i]
                           \/ \E e \in Taken : t.post[i] = Copy(site, e)
    BY CopiedRows
<1>2. ASSUME NEW i \in Stored(t), NEW j \in Stored(t), t.post[i].slug = t.post[j].slug
      PROVE  i = j \/ t.post[i].slug = ""
    <2>1. \A e \in Taken : Copy(site, e).slug = ""
        BY CopyFields, Zenon
    <2>2. QED BY <1>1, <1>2, <2>1 DEF LandOk
<1>3. ASSUME NEW i \in Stored(t), t.post[i].legacy # NoRef
      PROVE  /\ t.post[i].legacy \in DOMAIN old.entries
             /\ t.post[i].file = old.entries[t.post[i].legacy].file
    <2>1. Taken \subseteq DOMAIN old.entries
        BY DEF Taken
    <2>2. CASE i \in Stored(site) /\ t.post[i] = site.post[i]
        BY <1>3, <2>2 DEF LandOk
    <2>3. CASE \E e \in Taken : t.post[i] = Copy(site, e)
        <3>1. PICK e \in Taken : t.post[i] = Copy(site, e)
            BY <2>3
        <3>2. Copy(site, e).legacy = e /\ Copy(site, e).file = old.entries[e].file
            BY CopyFields, Zenon
        <3>3. QED BY <2>1, <3>1, <3>2
    <2>4. QED BY <1>1, <2>2, <2>3
<1>4. QED BY <1>2, <1>3 DEF LandOk

LEMMA CopiedTree ==
    ASSUME NEW messages, NEW t, Copied(messages, t), TreeOk(site)
    PROVE  TreeOk(t)
<1>1. CatsStay(t)
    BY CopiedCats DEF CatsStay
<1>2. SUFFICES ASSUME NEW c \in Filing(t), t.cat[c].run > 0 PROVE BelowMain(t, t.cat[c])
    BY DEF TreeOk
<1>3. PICK new : new = t.cat[c]
    OBVIOUS
<1>4. CASE c \in Filing(site)
    <2>1. BelowMain(site, new)
        BY <1>2, <1>3, <1>4, CopiedCats DEF TreeOk
    <2>2. QED BY <1>1, <1>3, <2>1, BelowStays
<1>5. CASE \E k \in DOMAIN old.cats : c = CatCopy(site, k)
    <2>1. PICK k \in DOMAIN old.cats : c = CatCopy(site, k)
        BY <1>5
    <2>2. new.legacy = k /\ new.parent = ParentOf(site, k) /\ new.run = imports + 1
        BY <1>3, <2>1, CopiedCats, CatRowFields
    <2>3. CASE MainOf(k) \in DOMAIN old.cats
        <3>1. new.parent = CatCopy(site, MainOf(k))
            BY <2>2, <2>3 DEF ParentOf
        <3>2. new.parent \in Filing(t) /\ t.cat[new.parent] = CatRow(MainOf(k))
            BY <2>3, <3>1, CopiedCats
        <3>3. t.cat[new.parent].legacy = MainOf(k) /\ t.cat[new.parent].run = new.run
            BY <2>2, <2>3, <3>2, CatRowFields
        <3>4. QED BY <1>3, <2>2, <2>3, <3>2, <3>3 DEF BelowMain
    <2>4. CASE MainOf(k) \notin DOMAIN old.cats
        BY <1>3, <2>2, <2>4 DEF BelowMain, ParentOf
    <2>5. QED BY <2>3, <2>4
<1>6. QED BY <1>4, <1>5, CopiedCats

LEMMA CopiedFiled ==
    ASSUME NEW messages, NEW t, Copied(messages, t), FiledOk(site)
    PROVE  FiledOk(t)
<1>1. CatsStay(t)
    BY CopiedCats DEF CatsStay
<1>2. SUFFICES ASSUME NEW i \in Stored(t), t.post[i].run > 0, t.post[i].slug = ""
               PROVE  FiledAsBefore(t, t.post[i])
    BY DEF FiledOk
<1>3. PICK new : new = t.post[i]
    OBVIOUS
<1>4. CASE i \in Stored(site)
    <2>1. FiledAsBefore(site, new)
        BY <1>2, <1>3, <1>4, CopiedRows DEF FiledOk
    <2>2. QED BY <1>1, <1>3, <2>1, FilingStays
<1>5. CASE \E e \in Taken : i = PostCopy(site, e)
    <2>1. PICK e \in Taken : i = PostCopy(site, e)
        BY <1>5
    <2>2. new.legacy = e /\ new.cat = ResolveCategory(site, old.entries[e].cat)
        <3>1. new = Copy(site, e)
            BY <1>3, <2>1, CopiedRows
        <3>2. Copy(site, e).legacy = e
              /\ Copy(site, e).cat = ResolveCategory(site, old.entries[e].cat)
            BY CopyFields, Zenon
        <3>3. QED BY <3>1, <3>2
    <2>3. PICK ref : ref = NumberOf(old.entries[e].cat)
        OBVIOUS
    <2>4. CASE ref \in DOMAIN old.cats
        <3>1. new.cat = CatCopy(site, ref)
            BY <2>2, <2>3, <2>4 DEF ResolveCategory
        <3>2. new.cat \in Filing(t) /\ t.cat[new.cat].legacy = ref
            BY <2>4, <3>1, CopiedCats, CatRowFields
        <3>3. QED BY <1>3, <2>2, <2>3, <2>4, <3>2 DEF FiledAsBefore
    <2>5. CASE ref \notin DOMAIN old.cats
        BY <1>3, <2>2, <2>3, <2>5 DEF FiledAsBefore, ResolveCategory
    <2>6. QED BY <2>4, <2>5
<1>6. QED BY <1>4, <1>5, CopiedRows

LEMMA CopiedCounts ==
    ASSUME NEW messages, NEW t, Copied(messages, t), MessagesOk(site), CountsOk(site)
    PROVE  MessagesOk(t) /\ CountsOk(t)
<1>0. RestOk(site) /\ PostsOk(site, imports) /\ imports \in Nat
    <2>1. TablesInv /\ MaxImports \in Nat
        BY ImporterAssumption DEF Copied
    <2>2. QED BY <2>1 DEF TablesInv, SiteOk, RunsInv
<1>1. \A m \in site.msg : m.post \in Stored(site)
    BY <1>0 DEF RestOk, MessageOk
<1>2. \A m \in messages : m.post \in Stored(t) \ Stored(site)
    BY CopiedMessages, CopiedRows
<1>3. ASSUME NEW m \in t.msg
      PROVE  t.post[m.post].run = m.of[1] /\ t.post[m.post].legacy = EntryOf(m.of[2])
    <2>1. CASE m \in site.msg
        BY <1>1, <2>1, CopiedRows DEF MessagesOk
    <2>2. CASE m \in messages
        <3>1. PICK e \in Taken : e = EntryOf(m.of[2]) /\ m.post = PostCopy(site, e)
            BY <2>2, CopiedMessages
        <3>2. t.post[m.post].run = imports + 1 /\ t.post[m.post].legacy = e
            <4>1. t.post[m.post] = Copy(site, e)
                BY <3>1, CopiedRows
            <4>2. Copy(site, e).legacy = e /\ Copy(site, e).run = imports + 1
                BY CopyFields, CopyCounts, Zenon
            <4>3. QED BY <4>1, <4>2
        <3>3. QED BY <2>2, <3>1, <3>2, CopiedMessages
    <2>3. QED BY <2>1, <2>2, CopiedMessages
<1>4. \A m \in site.msg : m.of[1] \in 0 .. imports
    <2>1. \A i \in Stored(site) : site.post[i].run \in 0 .. imports
        BY <1>0, Zenon DEF PostsOk, PostOk
    <2>2. QED BY <1>1, <2>1 DEF MessagesOk
<1>5. ASSUME NEW m \in t.msg, NEW n \in t.msg, m.of = n.of PROVE m = n
    <2>1. CASE m \in site.msg /\ n \in site.msg
        BY <1>5, <2>1 DEF MessagesOk
    <2>2. CASE m \in messages /\ n \in messages
        <3>1. m.post = n.post /\ m.st = n.st
            BY <1>5, <2>2, CopiedMessages
        <3>2. m = [of |-> m.of, post |-> m.post, st |-> m.st]
              /\ n = [of |-> n.of, post |-> n.post, st |-> n.st]
            BY <2>2, CopiedMessages
        <3>3. QED BY <1>5, <3>1, <3>2, Zenon
    <2>3. CASE m \in site.msg <=> n \notin site.msg
        <3>1. \A k \in messages : k.of[1] = imports + 1
            BY CopiedMessages
        <3>2. ~(imports + 1 \in 0 .. imports)
            BY <1>0
        <3>3. QED BY <1>4, <1>5, <2>3, <3>1, <3>2, CopiedMessages
    <2>4. QED BY <2>1, <2>2, <2>3, CopiedMessages
<1>6. MessagesOk(t)
    BY <1>3, <1>5 DEF MessagesOk
<1>7. ASSUME NEW i \in Stored(t)
      PROVE  t.post[i].count = Cardinality(ApprovedAt(t, i)) - Cardinality(ArrivedAt(t, i))
    <2>1. CASE i \in Stored(site)
        <3>1. ApprovedAt(t, i) = ApprovedAt(site, i) /\ ArrivedAt(t, i) = ArrivedAt(site, i)
            BY <1>2, <2>1, CopiedMessages DEF ApprovedAt, ArrivedAt
        <3>2. QED BY <2>1, <3>1, CopiedRows DEF CountsOk
    <2>2. CASE i \notin Stored(site)
        <3>1. \A m \in t.msg : m.post = i => m \in messages
            BY <1>1, <2>2, CopiedMessages
        <3>2. \A m \in messages : m.st = old.messages[m.of[2]].st
            BY CopiedMessages
        <3>3. ApprovedAt(t, i) = ArrivedAt(t, i)
            BY <3>1, <3>2 DEF ApprovedAt, ArrivedAt
        <3>4. IsFiniteSet(ApprovedAt(t, i))
            <4>1. ApprovedAt(t, i) \subseteq messages
                BY <3>1 DEF ApprovedAt
            <4>2. QED BY <4>1, CopiedMessages, FS_Subset
        <3>5. Cardinality(ApprovedAt(t, i)) \in Nat
            BY <3>4, FS_CardinalityType
        <3>6. t.post[i].count = 0
            BY <2>2, CopiedRows, CopyCounts
        <3>7. QED BY <3>3, <3>5, <3>6
    <2>3. QED BY <2>1, <2>2
<1>8. QED BY <1>6, <1>7 DEF CountsOk

(* A step that takes cards from no row, and only rows of the tables change. *)
LEMMA CardsStay ==
    ASSUME CardsInv, Stored(site) \subseteq Stored(site)', late' = late,
           drawing' \subseteq drawing, cards' \subseteq cards \cup drawing
    PROVE  CardsInv'
BY DEF CardsInv

LEMMA TransactionStep ==
    ASSUME ImportInv, NEW messages, messages \subseteq ImportMessages(site), Transaction(messages)
    PROVE  ImportInv'
<1>1. TablesInv /\ KeepsOk(site)
    BY DEF ImportInv
<1>2. Copied(messages, site')
    BY <1>1 DEF Copied, Transaction
<1>3. SiteOk(site', imports + 1)
    BY <1>2, CopiedTables
<1>4. KeepsOk(site')
    BY <1>1, <1>2, CopiedLand, CopiedTree, CopiedFiled, CopiedCounts DEF KeepsOk
<1>5. KeepsOk(site)'
    BY <1>4, Lifted DEF Transaction
<1>6. SiteOk(site, imports)'
    <2>1. imports' = imports + 1
        BY DEF Transaction
    <2>2. QED BY <1>3, <2>1, TablesLifted
<1>7. CardsInv'
    <2>1. Stored(site) \subseteq Stored(site')
        BY <1>2, CopiedRows
    <2>2. QED BY <1>1, <2>1, CardsStay DEF Transaction, TablesInv, Stored
<1>8. RunsInv'
    BY <1>1, ImporterAssumption DEF Transaction, TablesInv, RunsInv
<1>9. QED BY <1>5, <1>6, <1>7, <1>8 DEF ImportInv, TablesInv

(***************************************************************************)
(* Steps that change a row or two.                                         *)
(***************************************************************************)
Becomes(t, p, c, m, n) ==
    t = [post |-> p, cat |-> c, msg |-> m, title |-> site.title, templates |-> site.templates,
         config |-> site.config, nextPost |-> n, nextCat |-> site.nextCat]

LEMMA SiteEdits ==
    ASSUME SiteShape(site), NEW p, NEW c, NEW m, NEW n, NEW t
    PROVE  /\ t = [site EXCEPT !.post = p, !.nextPost = n] => Becomes(t, p, site.cat, site.msg, n)
           /\ t = [site EXCEPT !.post = p] => Becomes(t, p, site.cat, site.msg, site.nextPost)
           /\ t = [site EXCEPT !.cat = c] => Becomes(t, site.post, c, site.msg, site.nextPost)
           /\ t = [site EXCEPT !.post = p, !.msg = m] => Becomes(t, p, site.cat, m, site.nextPost)
           /\ t = [site EXCEPT !.msg = m, !.post = p] => Becomes(t, p, site.cat, m, site.nextPost)
<1>1. PICK s, post, cat, msg, title, templates, config, np, nc :
          /\ s = site /\ post = site.post /\ cat = site.cat /\ msg = site.msg /\ title = site.title
          /\ templates = site.templates /\ config = site.config
          /\ np = site.nextPost /\ nc = site.nextCat
    OBVIOUS
<1>2. s = [post |-> post, cat |-> cat, msg |-> msg, title |-> title, templates |-> templates,
           config |-> config, nextPost |-> np, nextCat |-> nc]
    BY <1>1, Zenon DEF SiteShape
<1>3. ASSUME t = [s EXCEPT !.post = p, !.nextPost = n]
      PROVE  t = [post |-> p, cat |-> cat, msg |-> msg, title |-> title, templates |-> templates,
               config |-> config, nextPost |-> n, nextCat |-> nc]
    BY <1>2, <1>3
<1>4. ASSUME t = [s EXCEPT !.post = p]
      PROVE  t = [post |-> p, cat |-> cat, msg |-> msg, title |-> title, templates |-> templates,
               config |-> config, nextPost |-> np, nextCat |-> nc]
    BY <1>2, <1>4
<1>5. ASSUME t = [s EXCEPT !.cat = c]
      PROVE  t = [post |-> post, cat |-> c, msg |-> msg, title |-> title, templates |-> templates,
               config |-> config, nextPost |-> np, nextCat |-> nc]
    BY <1>2, <1>5
<1>6. ASSUME t = [s EXCEPT !.post = p, !.msg = m]
      PROVE  t = [post |-> p, cat |-> cat, msg |-> m, title |-> title, templates |-> templates,
               config |-> config, nextPost |-> np, nextCat |-> nc]
    BY <1>2, <1>6
<1>7. ASSUME t = [s EXCEPT !.msg = m, !.post = p]
      PROVE  t = [post |-> p, cat |-> cat, msg |-> m, title |-> title, templates |-> templates,
               config |-> config, nextPost |-> np, nextCat |-> nc]
    BY <1>2, <1>7
<1>8. QED BY <1>1, <1>3, <1>4, <1>5, <1>6, <1>7, Zenon DEF Becomes

LEMMA RowEdits ==
    ASSUME NEW row, NEW runs, PostOk(row, runs), NEW a, NEW b, NEW new
    PROVE  /\ new = [row EXCEPT !.slug = a] =>
                 new = [st |-> row.st, slug |-> a, cat |-> row.cat, legacy |-> row.legacy,
                        file |-> row.file, count |-> row.count, run |-> row.run]
           /\ new = [row EXCEPT !.count = a] =>
                 new = [st |-> row.st, slug |-> row.slug, cat |-> row.cat, legacy |-> row.legacy,
                        file |-> row.file, count |-> a, run |-> row.run]
           /\ new = [row EXCEPT !.st = a, !.cat = b] =>
                 new = [st |-> a, slug |-> row.slug, cat |-> b, legacy |-> row.legacy,
                        file |-> row.file, count |-> row.count, run |-> row.run]
<1>1. PICK r, st, slug, cat, legacy, file, count, run :
          /\ r = row /\ st = row.st /\ slug = row.slug /\ cat = row.cat /\ legacy = row.legacy
          /\ file = row.file /\ count = row.count /\ run = row.run
    OBVIOUS
<1>2. r = [st |-> st, slug |-> slug, cat |-> cat, legacy |-> legacy, file |-> file,
           count |-> count, run |-> run]
    BY <1>1, Zenon DEF PostOk
<1>3. ASSUME new = [r EXCEPT !.slug = a]
      PROVE  new = [st |-> st, slug |-> a, cat |-> cat, legacy |-> legacy,
                    file |-> file, count |-> count, run |-> run]
    BY <1>2, <1>3
<1>4. ASSUME new = [r EXCEPT !.count = a]
      PROVE  new = [st |-> st, slug |-> slug, cat |-> cat, legacy |-> legacy,
                    file |-> file, count |-> a, run |-> run]
    BY <1>2, <1>4
<1>5. ASSUME new = [r EXCEPT !.st = a, !.cat = b]
      PROVE  new = [st |-> a, slug |-> slug, cat |-> b, legacy |-> legacy,
                    file |-> file, count |-> count, run |-> run]
    BY <1>2, <1>5
<1>6. QED BY <1>1, <1>3, <1>4, <1>5, Zenon

LEMMA SlugEdit ==
    ASSUME NEW row, NEW runs, PostOk(row, runs), NEW a, NEW new, new = [row EXCEPT !.slug = a]
    PROVE  /\ new.st = row.st /\ new.slug = a /\ new.cat = row.cat /\ new.count = row.count
           /\ new.legacy = row.legacy /\ new.file = row.file /\ new.run = row.run
           /\ PostOk(new, runs) /\ new # NoRow
<1>1. new = [st |-> row.st, slug |-> a, cat |-> row.cat, legacy |-> row.legacy,
             file |-> row.file, count |-> row.count, run |-> row.run]
    BY RowEdits
<1>2. /\ row.st \in {"draft", "published", "closed"} /\ row.cat \in CatIds \cup {NoRef}
      /\ row.count \in Int /\ row.run \in 0 .. runs
    BY Zenon DEF PostOk
<1>3. PICK st, slug, cat, legacy, file, count, run :
          /\ st = row.st /\ slug = a /\ cat = row.cat /\ count = row.count
          /\ legacy = row.legacy /\ file = row.file /\ run = row.run
    OBVIOUS
<1>4. new = [st |-> st, slug |-> slug, cat |-> cat, legacy |-> legacy, file |-> file,
             count |-> count, run |-> run]
    BY <1>1, <1>3, Zenon
<1>5. /\ st \in {"draft", "published", "closed"} /\ cat \in CatIds \cup {NoRef}
      /\ count \in Int /\ run \in 0 .. runs
    BY <1>2, <1>3
<1>6. st # "none"
    BY <1>5
<1>7. /\ new.st = st /\ new.slug = slug /\ new.cat = cat /\ new.legacy = legacy
      /\ new.file = file /\ new.count = count /\ new.run = run
    BY <1>4
<1>8. new = [st |-> new.st, slug |-> new.slug, cat |-> new.cat, legacy |-> new.legacy,
             file |-> new.file, count |-> new.count, run |-> new.run]
    BY <1>4, <1>7, Zenon
<1>9. PostOk(new, runs)
    BY <1>5, <1>7, <1>8, Zenon DEF PostOk
<1>10. new # NoRow
    BY <1>6, <1>7 DEF NoRow
<1>11. QED BY <1>3, <1>7, <1>9, <1>10

LEMMA CountEdit ==
    ASSUME NEW row, NEW runs, PostOk(row, runs), NEW a \in Int, NEW new, new = [row EXCEPT !.count = a]
    PROVE  /\ new.st = row.st /\ new.slug = row.slug /\ new.cat = row.cat /\ new.count = a
           /\ new.legacy = row.legacy /\ new.file = row.file /\ new.run = row.run
           /\ PostOk(new, runs) /\ new # NoRow
<1>1. new = [st |-> row.st, slug |-> row.slug, cat |-> row.cat, legacy |-> row.legacy,
             file |-> row.file, count |-> a, run |-> row.run]
    BY RowEdits
<1>2. /\ row.st \in {"draft", "published", "closed"} /\ row.cat \in CatIds \cup {NoRef}
      /\ row.count \in Int /\ row.run \in 0 .. runs
    BY Zenon DEF PostOk
<1>3. PICK st, slug, cat, legacy, file, count, run :
          /\ st = row.st /\ slug = row.slug /\ cat = row.cat /\ count = a
          /\ legacy = row.legacy /\ file = row.file /\ run = row.run
    OBVIOUS
<1>4. new = [st |-> st, slug |-> slug, cat |-> cat, legacy |-> legacy, file |-> file,
             count |-> count, run |-> run]
    BY <1>1, <1>3, Zenon
<1>5. /\ st \in {"draft", "published", "closed"} /\ cat \in CatIds \cup {NoRef}
      /\ count \in Int /\ run \in 0 .. runs
    BY <1>2, <1>3
<1>6. st # "none"
    BY <1>5
<1>7. /\ new.st = st /\ new.slug = slug /\ new.cat = cat /\ new.legacy = legacy
      /\ new.file = file /\ new.count = count /\ new.run = run
    BY <1>4
<1>8. new = [st |-> new.st, slug |-> new.slug, cat |-> new.cat, legacy |-> new.legacy,
             file |-> new.file, count |-> new.count, run |-> new.run]
    BY <1>4, <1>7, Zenon
<1>9. PostOk(new, runs)
    BY <1>5, <1>7, <1>8, Zenon DEF PostOk
<1>10. new # NoRow
    BY <1>6, <1>7 DEF NoRow
<1>11. QED BY <1>3, <1>7, <1>9, <1>10

LEMMA FilingEdit ==
    ASSUME NEW row, NEW runs, PostOk(row, runs), NEW a, NEW b, NEW new,
           new = [st |-> a, slug |-> row.slug, cat |-> b, legacy |-> row.legacy,
                  file |-> row.file, count |-> row.count, run |-> row.run],
           a \in {"draft", "published", "closed"}, b \in CatIds \cup {NoRef}
    PROVE  /\ new.st = a /\ new.slug = row.slug /\ new.cat = b /\ new.count = row.count
           /\ new.legacy = row.legacy /\ new.file = row.file /\ new.run = row.run
           /\ PostOk(new, runs) /\ new # NoRow
<1>1. new = [st |-> a, slug |-> row.slug, cat |-> b, legacy |-> row.legacy,
             file |-> row.file, count |-> row.count, run |-> row.run]
    OBVIOUS
<1>2. /\ row.st \in {"draft", "published", "closed"} /\ row.cat \in CatIds \cup {NoRef}
      /\ row.count \in Int /\ row.run \in 0 .. runs
    BY Zenon DEF PostOk
<1>3. PICK st, slug, cat, legacy, file, count, run :
          /\ st = a /\ slug = row.slug /\ cat = b /\ count = row.count
          /\ legacy = row.legacy /\ file = row.file /\ run = row.run
    OBVIOUS
<1>4. new = [st |-> st, slug |-> slug, cat |-> cat, legacy |-> legacy, file |-> file,
             count |-> count, run |-> run]
    BY <1>1, <1>3, Zenon
<1>5. /\ st \in {"draft", "published", "closed"} /\ cat \in CatIds \cup {NoRef}
      /\ count \in Int /\ run \in 0 .. runs
    BY <1>2, <1>3
<1>6. st # "none"
    BY <1>5
<1>7. /\ new.st = st /\ new.slug = slug /\ new.cat = cat /\ new.legacy = legacy
      /\ new.file = file /\ new.count = count /\ new.run = run
    BY <1>4
<1>8. new = [st |-> new.st, slug |-> new.slug, cat |-> new.cat, legacy |-> new.legacy,
             file |-> new.file, count |-> new.count, run |-> new.run]
    BY <1>4, <1>7, Zenon
<1>9. PostOk(new, runs)
    BY <1>5, <1>7, <1>8, Zenon DEF PostOk
<1>10. new # NoRow
    BY <1>6, <1>7 DEF NoRow
<1>11. QED BY <1>3, <1>7, <1>9, <1>10

LEMMA CatEdit ==
    ASSUME NEW row, NEW runs, CatOk(row, runs), NEW a, NEW new, new = [row EXCEPT !.slug = a]
    PROVE  /\ CatOk(new, runs) /\ new.slug = a /\ new.legacy = row.legacy /\ new.dir = row.dir
           /\ new.parent = row.parent /\ new.run = row.run
           /\ DOMAIN new = {"legacy", "dir", "slug", "parent", "run"}
<1>1. PICK r, legacy, dir, slug, parent, run :
          /\ r = row /\ legacy = row.legacy /\ dir = row.dir /\ slug = row.slug
          /\ parent = row.parent /\ run = row.run
    OBVIOUS
<1>2. r = [legacy |-> legacy, dir |-> dir, slug |-> slug, parent |-> parent, run |-> run]
    BY <1>1, Zenon DEF CatOk
<1>3. new = [legacy |-> legacy, dir |-> dir, slug |-> a, parent |-> parent, run |-> run]
    BY <1>1, <1>2
<1>4. /\ new.slug = a /\ new.legacy = legacy /\ new.dir = dir /\ new.parent = parent
      /\ new.run = run /\ DOMAIN new = {"legacy", "dir", "slug", "parent", "run"}
    BY <1>3
<1>5. parent \in CatIds \cup {0} /\ run \in 0 .. runs
    BY <1>1, Zenon DEF CatOk
<1>6. CatOk(new, runs)
    BY <1>3, <1>4, <1>5, Zenon DEF CatOk
<1>7. QED BY <1>1, <1>4, <1>6, Zenon

(* A step that leaves the categories.                                       *)
LEMMA CatsSame ==
    ASSUME NEW t, t.cat = site.cat, t.nextCat = site.nextCat, NEW runs
    PROVE  /\ CatsOk(site, runs) => CatsOk(t, runs)
           /\ TreeOk(site) => TreeOk(t)
           /\ CatsStay(t) /\ Filing(t) = Filing(site)
<1>1. Filing(t) = Filing(site)
    BY DEF Filing
<1>2. CatsStay(t)
    BY <1>1 DEF CatsStay
<1>3. QED BY <1>1, <1>2, TreeStays DEF CatsOk

LEMMA InvParts ==
    ASSUME ImportInv
    PROVE  /\ TablesInv /\ CardsInv /\ RunsInv
           /\ SiteShape(site) /\ PostsOk(site, imports) /\ CatsOk(site, imports) /\ RestOk(site)
           /\ LandOk(site) /\ TreeOk(site) /\ FiledOk(site) /\ MessagesOk(site) /\ CountsOk(site)
           /\ \A m \in site.msg : m.post \in Stored(site)
           /\ \A i \in Stored(site) : PostOk(site.post[i], imports) /\ i \in PostIds /\ i \in Nat
           /\ \A c \in Filing(site) : CatOk(site.cat[c], imports) /\ c \in CatIds
           /\ DOMAIN site.post = PostIds /\ DOMAIN site.cat = CatIds
<1>1. TablesInv /\ KeepsOk(site)
    BY DEF ImportInv
<1>2. /\ CardsInv /\ RunsInv
      /\ SiteShape(site) /\ PostsOk(site, imports) /\ CatsOk(site, imports) /\ RestOk(site)
    BY <1>1 DEF TablesInv, SiteOk
<1>3. \A m \in site.msg : m.post \in Stored(site)
    BY <1>2 DEF RestOk, MessageOk
<1>4. \A i \in Stored(site) : PostOk(site.post[i], imports) /\ i \in PostIds /\ i \in Nat
    BY <1>1, <1>2, Numbers, Zenon DEF PostsOk
<1>5. \A c \in Filing(site) : CatOk(site.cat[c], imports) /\ c \in CatIds
    BY <1>1, <1>2, Numbers, Zenon DEF CatsOk
<1>6. DOMAIN site.post = PostIds /\ DOMAIN site.cat = CatIds
    BY <1>2, Zenon DEF PostsOk, CatsOk
<1>7. LandOk(site) /\ TreeOk(site) /\ FiledOk(site) /\ MessagesOk(site) /\ CountsOk(site)
    BY <1>1 DEF KeepsOk
<1>8. QED BY <1>1, <1>2, <1>3, <1>4, <1>5, <1>6, <1>7

LEMMA InvWhole ==
    ASSUME old' = old, cached' = cached \/ cached' = site.config, imports' \in 0 .. MaxImports,
           moves' \in 0 .. MaxMoves, RunsInv, RestOk(site),
           SiteOk(site', imports'), KeepsOk(site'), CardsInv'
    PROVE  ImportInv'
<1>1. SiteOk(site, imports)' /\ KeepsOk(site)'
    BY Lifted, TablesLifted
<1>2. RunsInv'
    BY DEF RunsInv, RestOk
<1>3. QED BY <1>1, <1>2 DEF ImportInv, TablesInv

Put(i, new) == [site.post EXCEPT ![i] = new]

LEMMA PostEdit ==
    ASSUME ImportInv, NEW i \in Stored(site), NEW new, PostOk(new, imports), new # NoRow,
           NEW t, t.post = Put(i, new), t.nextPost = site.nextPost
    PROVE  /\ Stored(t) = Stored(site) /\ t.post[i] = new
           /\ \A j \in PostIds : j # i => t.post[j] = site.post[j]
           /\ PostsOk(t, imports)
<1>1. DOMAIN site.post = PostIds /\ i \in PostIds /\ PostsOk(site, imports)
    BY InvParts
<1>2. DOMAIN t.post = PostIds /\ t.post[i] = new /\ \A j \in PostIds : j # i => t.post[j] = site.post[j]
    BY <1>1 DEF Put
<1>3. Stored(t) = Stored(site)
    BY <1>2 DEF Stored
<1>4. ASSUME NEW j \in Stored(t) PROVE PostOk(t.post[j], imports) /\ j < t.nextPost
    <2>1. j \in Stored(site) /\ j \in PostIds
        BY <1>3, InvParts
    <2>2. PostOk(site.post[j], imports) /\ j < site.nextPost
        BY <1>1, <2>1 DEF PostsOk
    <2>3. CASE j = i
        BY <1>2, <2>2, <2>3
    <2>4. CASE j # i
        BY <1>2, <2>1, <2>2, <2>4
    <2>5. QED BY <2>3, <2>4
<1>5. t.nextPost \in 1 .. MaxPosts + 1
    BY <1>1 DEF PostsOk
<1>6. PostsOk(t, imports)
    BY <1>2, <1>4, <1>5 DEF PostsOk
<1>7. QED BY <1>2, <1>3, <1>6

(* The rest of the tables, when the comments are still at rows.             *)
LEMMA RestStays ==
    ASSUME RestOk(site), NEW t, t.title = site.title, t.templates = site.templates,
           t.config = site.config, t.msg = site.msg,
           \A i \in Stored(site) : i \in Stored(t)
    PROVE  RestOk(t)
<1>1. \A m \in t.msg : MessageOk(t, m)
    BY DEF RestOk, MessageOk
<1>2. t.templates \in Nat /\ DOMAIN t.config = Columns \ {"cgi"} /\ IsFiniteSet(t.msg)
    BY Zenon DEF RestOk
<1>3. QED BY <1>1, <1>2 DEF RestOk

Slugged(slug) == slug # ""

LEMMA SetSlugStep ==
    ASSUME ImportInv, Move, NEW i, NEW slug, Slugged(slug), SetSlug(i, slug)
    PROVE  ImportInv'
<1>0. /\ RunsInv /\ CardsInv /\ SiteShape(site) /\ CatsOk(site, imports) /\ RestOk(site)
      /\ LandOk(site) /\ TreeOk(site) /\ FiledOk(site) /\ MessagesOk(site) /\ CountsOk(site)
      /\ \A m \in site.msg : m.post \in Stored(site)
    BY InvParts
<1>1. /\ i \in Stored(site) /\ Called(site, slug) = {} /\ old' = old /\ drawing' = drawing
      /\ cached' = cached /\ cards' = cards /\ late' = late /\ imports' = imports
      /\ moves < MaxMoves /\ moves' = moves + 1
    BY DEF SetSlug, Move
<1>2. PICK t : t = site'
    OBVIOUS
<1>3. PICK row : row = site.post[i]
    OBVIOUS
<1>4. PICK new : new = [row EXCEPT !.slug = slug]
    OBVIOUS
<1>5. PICK p : p = [site.post EXCEPT ![i] = new]
    OBVIOUS
<1>6. t = [site EXCEPT !.post = p]
    BY <1>2, <1>3, <1>4, <1>5 DEF SetSlug
<1>7. /\ SiteShape(t) /\ t.post = p /\ t.cat = site.cat /\ t.msg = site.msg
      /\ t.nextPost = site.nextPost /\ t.title = site.title /\ t.templates = site.templates
      /\ t.config = site.config /\ t.nextCat = site.nextCat
    <2>1. Becomes(t, p, site.cat, site.msg, site.nextPost)
        BY <1>0, <1>6, SiteEdits, Zenon
    <2>2. QED BY <2>1 DEF Becomes, SiteShape
<1>8. PostOk(row, imports)
    BY <1>1, <1>3, InvParts
<1>12. /\ new.slug = slug /\ new.cat = row.cat /\ new.legacy = row.legacy /\ new.file = row.file
       /\ new.count = row.count /\ new.run = row.run /\ PostOk(new, imports) /\ new # NoRow
    BY <1>4, <1>8, SlugEdit
<1>13. /\ Stored(t) = Stored(site) /\ t.post[i] = new /\ PostsOk(t, imports)
       /\ \A j \in PostIds : j # i => t.post[j] = site.post[j]
    <2>1. t.post = Put(i, new) /\ t.nextPost = site.nextPost
        BY <1>5, <1>7 DEF Put
    <2>2. QED BY <1>1, <1>12, <2>1, PostEdit
<1>14. \A j \in Stored(site) : j # i => t.post[j] = site.post[j]
    BY <1>13, InvParts
<1>15. \A j \in Stored(site) : PostStays(t, j) /\ t.post[j].count = site.post[j].count
    BY <1>1, <1>3, <1>12, <1>13, <1>14 DEF PostStays
<1>16. LandOk(t)
    <2>1. ASSUME NEW j \in Stored(t), NEW k \in Stored(t), t.post[j].slug = t.post[k].slug
          PROVE  j = k \/ t.post[j].slug = ""
        <3>1. \A n \in Stored(site) : site.post[n].slug # slug
            BY <1>1 DEF Called
        <3>2. CASE j # i /\ k # i
            BY <1>0, <1>13, <1>14, <2>1, <3>2 DEF LandOk
        <3>3. CASE j = i /\ k # i
            BY <1>12, <1>13, <1>14, <2>1, <3>1, <3>3
        <3>4. CASE j # i /\ k = i
            BY <1>12, <1>13, <1>14, <2>1, <3>1, <3>4
        <3>5. QED BY <3>2, <3>3, <3>4
    <2>2. ASSUME NEW j \in Stored(t), t.post[j].legacy # NoRef
          PROVE  /\ t.post[j].legacy \in DOMAIN old.entries
                 /\ t.post[j].file = old.entries[t.post[j].legacy].file
        BY <1>0, <1>13, <1>15, <2>2 DEF LandOk, PostStays
    <2>3. QED BY <2>1, <2>2 DEF LandOk
<1>17. CatsOk(t, imports) /\ TreeOk(t) /\ CatsStay(t)
    BY <1>0, <1>7, CatsSame
<1>18. FiledOk(t)
    <2>1. ASSUME NEW j \in Stored(t), t.post[j].run > 0, t.post[j].slug = ""
          PROVE  FiledAsBefore(t, t.post[j])
        <3>1. j # i
            <4>1. ~Slugged(t.post[j].slug)
                BY <2>1, Zenon DEF Slugged
            <4>2. QED BY <1>12, <1>13, <4>1
        <3>2. j \in Stored(site) /\ t.post[j] = site.post[j]
            BY <1>13, <1>14, <3>1
        <3>3. FiledAsBefore(site, t.post[j])
            BY <1>0, <2>1, <3>2 DEF FiledOk
        <3>4. QED BY <1>17, <3>3, FilingStays
    <2>2. QED BY <2>1 DEF FiledOk
<1>19. MessagesOk(t) /\ CountsOk(t)
    BY <1>0, <1>7, <1>13, <1>15, CountsStay
<1>20. RestOk(t)
    BY <1>0, <1>7, <1>13, RestStays
<1>21. SiteOk(t, imports) /\ KeepsOk(t)
    BY <1>7, <1>13, <1>16, <1>17, <1>18, <1>19, <1>20 DEF SiteOk, KeepsOk
<1>22. CardsInv'
    <2>1. Stored(site)' = Stored(site)
        BY <1>2, <1>13 DEF Stored
    <2>2. QED BY <1>0, <1>1, <2>1 DEF CardsInv
<1>23. imports' \in 0 .. MaxImports /\ moves' \in 0 .. MaxMoves
    <2>1. imports \in 0 .. MaxImports /\ moves \in 0 .. MaxMoves
        BY <1>0, Zenon DEF RunsInv
    <2>2. MaxImports \in Nat /\ MaxMoves \in Nat
        BY ImporterAssumption, Zenon
    <2>3. QED BY <1>1, <2>1, <2>2
<1>24. SiteOk(site', imports') /\ KeepsOk(site')
    BY <1>1, <1>2, <1>21
<1>25. QED BY <1>0, <1>1, <1>22, <1>23, <1>24, InvWhole

(***************************************************************************)
(* A directory of files: t has the rows it writes.                         *)
(***************************************************************************)
FilesWritten(files, t) ==
    /\ files \in Directories
    /\ site.nextPost + Cardinality(Fresh(site, files)) <= MaxPosts + 1
    /\ t.post = Upsert(site, files)
    /\ t.nextPost = site.nextPost + Cardinality(Fresh(site, files))
    /\ t.cat = site.cat /\ t.nextCat = site.nextCat /\ t.msg = site.msg
    /\ t.title = site.title /\ t.templates = site.templates /\ t.config = site.config

LEMMA FileFacts ==
    ASSUME NEW files, files \in Directories
    PROVE  /\ \A n \in Records(files) : files[n].st \in {"draft", "published", "closed"}
           /\ \A n \in Records(files) : Slugged(files[n].slug)
           /\ Fresh(site, files) \subseteq Records(files)
           /\ \A n \in Fresh(site, files) : \A i \in Stored(site) : site.post[i].slug # files[n].slug
<1>1. \A n \in DOMAIN files : files[n].st \in {"draft", "published", "closed"}
    BY ImporterAssumption, Zenon
<1>2. \A n \in Records(files) : n \in DOMAIN files /\ Slugged(files[n].slug)
    BY Zenon DEF Records, Slugged
<1>3. \A n \in Fresh(site, files) : \A i \in Stored(site) : site.post[i].slug # files[n].slug
    BY DEF Fresh, Called
<1>4. QED BY <1>1, <1>2, <1>3 DEF Fresh

LEMMA NamedCategory == \A slug : CategoryNamed(site, slug) \in CatIds \cup {NoRef}
<1>1. Filing(site) \subseteq CatIds
    BY DEF Filing
<1> DEFINE found(slug) == {c \in Filing(site) : Slugged(slug) /\ site.cat[c].slug = slug}
<1>2. \A slug : found(slug) = {} \/ (CHOOSE c \in found(slug) : TRUE) \in CatIds
    BY <1>1
<1>3. \A slug : CategoryNamed(site, slug) =
                    IF found(slug) = {} THEN NoRef ELSE CHOOSE c \in found(slug) : TRUE
    BY Zenon DEF CategoryNamed, Slugged
<1> HIDE DEF found
<1>4. QED BY <1>2, <1>3

(* The rows that were there.                                                *)
LEMMA RowsKept ==
    ASSUME ImportInv, NEW files, NEW t, FilesWritten(files, t), NEW i \in Stored(site)
    PROVE  /\ PostStays(t, i) /\ t.post[i].count = site.post[i].count
           /\ t.post[i].slug = site.post[i].slug /\ PostOk(t.post[i], imports)
           /\ t.post[i] = site.post[i] \/ Slugged(t.post[i].slug)
<1>1. TablesInv /\ PostOk(site.post[i], imports) /\ i \in PostIds /\ site.post[i] # NoRow
    BY InvParts DEF Stored
<1>2. t.post = Upsert(site, files) /\ files \in Directories
    BY DEF FilesWritten
<1>3. CASE t.post[i] = site.post[i]
    BY <1>1, <1>3 DEF PostStays, Stored
<1>4. CASE t.post[i] # site.post[i]
    <2>1. PICK n \in Records(files) : i = RowFor(site, files, n)
        BY <1>1, <1>2, <1>4, Upserted DEF FilesWritten
    <2>2. n \notin Fresh(site, files)
        BY <1>1, <2>1, FilesApart DEF FilesWritten
    <2>3. site.post[i].slug = files[n].slug
        BY <1>1, <2>1, <2>2, FilesApart DEF FilesWritten
    <2>4. PICK row, new, st, cat : /\ row = site.post[i] /\ new = t.post[i] /\ st = files[n].st
                                   /\ cat = CategoryNamed(site, files[n].cat)
        OBVIOUS
    <2>5. new = [row EXCEPT !.st = st, !.cat = cat]
        <3>1. Upsert(site, files)[RowFor(site, files, n)] =
                  [site.post[RowFor(site, files, n)] EXCEPT !.st = files[n].st,
                                                            !.cat = CategoryNamed(site, files[n].cat)]
            BY <1>1, <2>1, <2>2, Upserted DEF FilesWritten
        <3>2. QED BY <1>2, <2>1, <2>4, <3>1
    <2>6. PostOk(row, imports)
        BY <1>1, <2>4
    <2>7. new = [st |-> st, slug |-> row.slug, cat |-> cat, legacy |-> row.legacy,
                 file |-> row.file, count |-> row.count, run |-> row.run]
        BY <2>5, <2>6, RowEdits
    <2>8. st \in {"draft", "published", "closed"} /\ cat \in CatIds \cup {NoRef} /\ Slugged(files[n].slug)
        BY <1>2, <2>4, FileFacts, NamedCategory
    <2>9. /\ new.slug = row.slug /\ new.count = row.count /\ new.legacy = row.legacy
          /\ new.file = row.file /\ new.run = row.run /\ PostOk(new, imports) /\ new # NoRow
        BY <2>6, <2>7, <2>8, FilingEdit
    <2>10. QED BY <1>1, <2>3, <2>4, <2>8, <2>9 DEF PostStays, Stored
<1>5. QED BY <1>3, <1>4

(* The rows that are new.                                                   *)
LEMMA RowsNew ==
    ASSUME ImportInv, NEW files, NEW t, FilesWritten(files, t), NEW n \in Fresh(site, files)
    PROVE  LET i == RowFor(site, files, n)
           IN /\ i \in Stored(t) \ Stored(site) /\ i < t.nextPost
              /\ t.post[i].legacy = NoRef /\ t.post[i].run = 0 /\ t.post[i].count = 0
              /\ t.post[i].slug = files[n].slug /\ PostOk(t.post[i], imports)
<1>1. TablesInv /\ imports \in Nat
    BY InvParts, ImporterAssumption DEF RunsInv
<1>2. t.post = Upsert(site, files) /\ files \in Directories
    BY DEF FilesWritten
<1>3. PICK i : i = RowFor(site, files, n)
    OBVIOUS
<1>4. t.post[i] = NewRow(files, n)
    BY <1>1, <1>2, <1>3, Upserted DEF FilesWritten
<1>5. i \in PostIds /\ i \notin Stored(site) /\ i < t.nextPost
    BY <1>1, <1>3, FilesApart DEF FilesWritten
<1>6. PICK st, slug, cat, new : /\ st = files[n].st /\ slug = files[n].slug
                                /\ cat = CategoryNamed(site, files[n].cat) /\ new = t.post[i]
    OBVIOUS
<1>7. PICK none : none = NoName
    OBVIOUS
<1>8. new = [st |-> st, slug |-> slug, cat |-> cat, legacy |-> NoRef, file |-> none,
             count |-> 0, run |-> 0]
    BY <1>4, <1>6, <1>7 DEF NewRow
<1>9. st \in {"draft", "published", "closed"} /\ cat \in CatIds \cup {NoRef}
    BY <1>2, <1>6, FileFacts, NamedCategory
<1>10. /\ new.st = st /\ new.slug = slug /\ new.cat = cat /\ new.legacy = NoRef /\ new.file = none
       /\ new.count = 0 /\ new.run = 0
    BY <1>8
<1>11. new = [st |-> new.st, slug |-> new.slug, cat |-> new.cat, legacy |-> new.legacy,
              file |-> new.file, count |-> new.count, run |-> new.run]
    BY <1>8, <1>10, Zenon
<1>12. PostOk(new, imports)
    <2>1. 0 \in Int /\ 0 \in 0 .. imports
        BY <1>1
    <2>2. QED BY <1>9, <1>10, <1>11, <2>1, Zenon DEF PostOk
<1>13. new # NoRow
    <2>1. st # "none"
        BY <1>9
    <2>2. QED BY <1>10, <2>1 DEF NoRow
<1>14. QED BY <1>3, <1>5, <1>6, <1>10, <1>12, <1>13 DEF Stored

LEMMA RowsThere ==
    ASSUME ImportInv, NEW files, NEW t, FilesWritten(files, t), NEW i \in Stored(t)
    PROVE  i \in Stored(site) \/ \E n \in Fresh(site, files) : i = RowFor(site, files, n)
<1>1. TablesInv /\ i \in PostIds /\ t.post[i] # NoRow
    BY InvParts DEF Stored
<1>2. CASE t.post[i] = site.post[i]
    BY <1>1, <1>2 DEF Stored
<1>3. CASE t.post[i] # site.post[i]
    <2>1. PICK n \in Records(files) : i = RowFor(site, files, n)
        BY <1>1, <1>3, Upserted DEF FilesWritten
    <2>2. CASE n \in Fresh(site, files)
        BY <2>1, <2>2
    <2>3. CASE n \notin Fresh(site, files)
        BY <1>1, <2>1, <2>3, FilesApart DEF FilesWritten
    <2>4. QED BY <2>2, <2>3
<1>4. QED BY <1>2, <1>3

LEMMA FilesPosts ==
    ASSUME ImportInv, NEW files, NEW t, FilesWritten(files, t)
    PROVE  PostsOk(t, imports)
<1>1. TablesInv /\ PostsOk(site, imports) /\ MaxPosts \in Nat
    BY InvParts, PostsFinite
<1>2. DOMAIN t.post = PostIds
    BY <1>1, Upserted DEF FilesWritten
<1>3. t.nextPost \in 1 .. MaxPosts + 1 /\ t.nextPost >= site.nextPost
    <2>1. Cardinality(Fresh(site, files)) \in Nat
        BY <1>1, FilesApart DEF FilesWritten
    <2>2. site.nextPost \in Nat /\ site.nextPost >= 1
        BY <1>1, Numbers
    <2>3. QED BY <1>1, <2>1, <2>2 DEF FilesWritten
<1>4. ASSUME NEW i \in Stored(t) PROVE PostOk(t.post[i], imports) /\ i < t.nextPost
    <2>1. CASE i \in Stored(site)
        <3>1. i < site.nextPost /\ i \in Nat /\ site.nextPost \in Nat
            BY <1>1, <2>1, Numbers
        <3>2. t.nextPost \in Nat
            BY <1>1, <1>3
        <3>3. PostOk(t.post[i], imports)
            BY <2>1, RowsKept
        <3>4. QED BY <1>3, <3>1, <3>2, <3>3
    <2>2. CASE i \notin Stored(site)
        BY <2>2, RowsThere, RowsNew
    <2>3. QED BY <2>1, <2>2
<1>5. QED BY <1>2, <1>3, <1>4 DEF PostsOk

LEMMA FilesLand ==
    ASSUME ImportInv, NEW files, NEW t, FilesWritten(files, t)
    PROVE  LandOk(t)
<1>1. TablesInv /\ LandOk(site) /\ files \in Directories
    BY InvParts DEF FilesWritten
<1>2. ASSUME NEW i \in Stored(t), NEW j \in Stored(t), t.post[i].slug = t.post[j].slug
      PROVE  i = j \/ t.post[i].slug = ""
    <2>1. CASE i \in Stored(site) /\ j \in Stored(site)
        <3>1. site.post[i].slug = site.post[j].slug /\ t.post[i].slug = site.post[i].slug
            BY <1>2, <2>1, RowsKept
        <3>2. QED BY <1>1, <2>1, <3>1, Zenon DEF LandOk
    <2>2. ASSUME i \notin Stored(site) /\ j \in Stored(site) PROVE FALSE
        BY <1>1, <1>2, <2>2, RowsKept, RowsThere, RowsNew, FileFacts
    <2>3. ASSUME i \in Stored(site) /\ j \notin Stored(site) PROVE FALSE
        BY <1>1, <1>2, <2>3, RowsKept, RowsThere, RowsNew, FileFacts
    <2>4. CASE i \notin Stored(site) /\ j \notin Stored(site)
        <3>1. PICK n \in Fresh(site, files), k \in Fresh(site, files) :
                  i = RowFor(site, files, n) /\ j = RowFor(site, files, k)
            BY <2>4, RowsThere
        <3>2. files[n].slug = files[k].slug
            BY <1>2, <3>1, RowsNew
        <3>3. n = k
            BY <1>1, <3>2, FilesApart, FileFacts DEF FilesWritten
        <3>4. QED BY <3>1, <3>3
    <2>5. QED BY <2>1, <2>2, <2>3, <2>4
<1>3. ASSUME NEW i \in Stored(t), t.post[i].legacy # NoRef
      PROVE  /\ t.post[i].legacy \in DOMAIN old.entries
             /\ t.post[i].file = old.entries[t.post[i].legacy].file
    <2>1. i \in Stored(site)
        BY <1>3, RowsThere, RowsNew
    <2>2. t.post[i].legacy = site.post[i].legacy /\ t.post[i].file = site.post[i].file
        BY <2>1, RowsKept DEF PostStays
    <2>3. QED BY <1>1, <1>3, <2>1, <2>2, Zenon DEF LandOk
<1>4. QED BY <1>2, <1>3, Zenon DEF LandOk

LEMMA FilesFiled ==
    ASSUME ImportInv, NEW files, NEW t, FilesWritten(files, t)
    PROVE  FiledOk(t)
<1>1. FiledOk(site) /\ CatsStay(t) /\ files \in Directories /\ imports \in Int
    BY InvParts, CatsSame, ImporterAssumption DEF FilesWritten, RunsInv
<1>2. ASSUME NEW i \in Stored(t), t.post[i].run > 0, t.post[i].slug = ""
      PROVE  FiledAsBefore(t, t.post[i])
    <2>1. i \in Stored(site)
        <3>1. SUFFICES ASSUME i \notin Stored(site) PROVE FALSE
            OBVIOUS
        <3>2. t.post[i].run = 0
            BY <3>1, RowsThere, RowsNew
        <3>3. ~(t.post[i].run > 0)
            BY <3>2
        <3>4. QED BY <1>2, <3>3
    <2>2. ~Slugged(t.post[i].slug)
        BY <1>2, Zenon DEF Slugged
    <2>3. t.post[i] = site.post[i]
        BY <2>1, <2>2, RowsKept
    <2>4. FiledAsBefore(site, t.post[i])
        BY <1>1, <1>2, <2>1, <2>3, Zenon DEF FiledOk
    <2>5. QED BY <1>1, <2>4, FilingStays
<1>3. QED BY <1>2, Zenon DEF FiledOk

LEMMA MarkdownStep ==
    ASSUME ImportInv, NEW files, files \in Directories, ImportMarkdown(files)
    PROVE  ImportInv'
<1>1. /\ TablesInv /\ RunsInv /\ CardsInv /\ SiteShape(site) /\ CatsOk(site, imports) /\ RestOk(site)
      /\ TreeOk(site) /\ MessagesOk(site) /\ CountsOk(site)
      /\ \A m \in site.msg : m.post \in Stored(site)
    BY InvParts
<1>2. /\ imports < MaxImports /\ imports' = imports + 1 /\ old' = old /\ cached' = cached
      /\ moves' = moves /\ cards' = cards /\ late' = late
      /\ drawing' = {RowFor(site, files, n) : n \in Records(files)}
      /\ site.nextPost + Cardinality(Fresh(site, files)) <= MaxPosts + 1
    BY DEF ImportMarkdown
<1>3. PICK t, p, n : /\ t = site' /\ p = Upsert(site, files)
                     /\ n = site.nextPost + Cardinality(Fresh(site, files))
    OBVIOUS
<1>4. t = [site EXCEPT !.post = p, !.nextPost = n]
    BY <1>3 DEF ImportMarkdown
<1>5. Becomes(t, p, site.cat, site.msg, n)
    BY <1>1, <1>4, SiteEdits, Zenon
<1>6. SiteShape(t) /\ FilesWritten(files, t)
    BY <1>2, <1>3, <1>5 DEF Becomes, SiteShape, FilesWritten
<1>7. \A i \in Stored(site) : /\ PostStays(t, i) /\ t.post[i].count = site.post[i].count
                              /\ i \in Stored(t)
    BY <1>6, RowsKept DEF PostStays
<1>8. t.cat = site.cat /\ t.nextCat = site.nextCat /\ t.msg = site.msg
    BY <1>6 DEF FilesWritten
<1>9. PostsOk(t, imports) /\ CatsOk(t, imports) /\ RestOk(t)
    <2>1. CatsOk(t, imports)
        BY <1>1, <1>8, CatsSame
    <2>2. t.title = site.title /\ t.templates = site.templates /\ t.config = site.config
        BY <1>6 DEF FilesWritten
    <2>3. RestOk(t)
        BY <1>1, <1>7, <1>8, <2>2, RestStays
    <2>4. QED BY <1>6, <2>1, <2>3, FilesPosts
<1>10. SiteOk(t, imports')
    <2>1. imports \in Nat
        BY <1>1, ImporterAssumption DEF RunsInv
    <2>2. PostsOk(t, imports + 1)
        BY <1>9, <2>1, OlderRows DEF PostsOk
    <2>3. CatsOk(t, imports + 1)
        BY <1>9, <2>1, OlderRows DEF CatsOk
    <2>4. QED BY <1>2, <1>6, <1>9, <2>2, <2>3 DEF SiteOk
<1>11. LandOk(t) /\ FiledOk(t) /\ TreeOk(t)
    BY <1>1, <1>6, <1>8, FilesLand, FilesFiled, CatsSame
<1>12. MessagesOk(t) /\ CountsOk(t)
    <2>1. \A i \in Stored(t) \ Stored(site) : t.post[i].count = 0
        BY <1>6, RowsThere, RowsNew
    <2>2. QED BY <1>1, <1>7, <1>8, <2>1, CountsStay
<1>13. SiteOk(site', imports') /\ KeepsOk(site')
    BY <1>3, <1>10, <1>11, <1>12 DEF KeepsOk
<1>14. CardsInv'
    <2>1. \A n_1 \in Records(files) : RowFor(site, files, n_1) \in Stored(t)
        BY <1>1, <1>6, <1>7, FilesApart, RowsNew DEF FilesWritten
    <2>2. drawing' \subseteq Stored(t)
        BY <1>2, <2>1
    <2>3. Stored(t) = Stored(site)'
        BY <1>3 DEF Stored
    <2>4. QED BY <1>1, <1>2, <1>7, <2>2, <2>3 DEF CardsInv
<1>15. imports' \in 0 .. MaxImports /\ moves' \in 0 .. MaxMoves
    <2>1. imports \in 0 .. MaxImports /\ moves \in 0 .. MaxMoves
        BY <1>1, Zenon DEF RunsInv
    <2>2. MaxImports \in Nat /\ MaxMoves \in Nat
        BY ImporterAssumption, Zenon
    <2>3. QED BY <1>2, <2>1, <2>2
<1>16. QED BY <1>1, <1>2, <1>13, <1>14, <1>15, InvWhole

(* The tables of comments and entries that a step leaves.                   *)
LEMMA PostsSame ==
    ASSUME NEW t, t.post = site.post, t.nextPost = site.nextPost, CatsStay(t), NEW runs
    PROVE  /\ PostsOk(site, runs) => PostsOk(t, runs)
           /\ LandOk(site) => LandOk(t)
           /\ FiledOk(site) => FiledOk(t)
           /\ Stored(t) = Stored(site)
           /\ \A i \in Stored(site) : PostStays(t, i)
<1>1. Stored(t) = Stored(site)
    BY DEF Stored
<1>2. LandOk(site) => LandOk(t)
    BY <1>1, Zenon DEF LandOk
<1>3. FiledOk(site) => FiledOk(t)
    <2> SUFFICES ASSUME FiledOk(site), NEW i \in Stored(t), t.post[i].run > 0, t.post[i].slug = ""
                 PROVE  FiledAsBefore(t, t.post[i])
        BY Zenon DEF FiledOk
    <2>1. FiledAsBefore(site, t.post[i])
        BY <1>1, Zenon DEF FiledOk
    <2>2. CatsStay(t)
        OBVIOUS
    <2>3. QED BY <2>1, <2>2, FilingStays, Zenon
<1>4. PostsOk(site, runs) => PostsOk(t, runs)
    BY <1>1, Zenon DEF PostsOk
<1>5. \A i \in Stored(site) : PostStays(t, i)
    BY <1>1 DEF PostStays
<1>6. QED BY <1>1, <1>2, <1>3, <1>4, <1>5

LEMMA SetCategorySlugStep ==
    ASSUME ImportInv, Move, NEW c, NEW slug, SetCategorySlug(c, slug)
    PROVE  ImportInv'
<1>0. /\ RunsInv /\ CardsInv /\ SiteShape(site) /\ PostsOk(site, imports) /\ CatsOk(site, imports)
      /\ RestOk(site) /\ LandOk(site) /\ TreeOk(site) /\ FiledOk(site) /\ MessagesOk(site)
      /\ CountsOk(site) /\ \A m \in site.msg : m.post \in Stored(site)
    BY InvParts
<1>1. /\ c \in Filing(site) /\ old' = old /\ drawing' = drawing
      /\ cached' = cached /\ cards' = cards /\ late' = late /\ imports' = imports
      /\ moves < MaxMoves /\ moves' = moves + 1
    BY DEF SetCategorySlug, Move
<1>2. PICK t : t = site'
    OBVIOUS
<1>3. PICK row : row = site.cat[c]
    OBVIOUS
<1>4. PICK new : new = [row EXCEPT !.slug = slug]
    OBVIOUS
<1>5. PICK p : p = [site.cat EXCEPT ![c] = new]
    OBVIOUS
<1>6. t = [site EXCEPT !.cat = p]
    BY <1>2, <1>3, <1>4, <1>5 DEF SetCategorySlug
<1>7. /\ SiteShape(t) /\ t.post = site.post /\ t.cat = p /\ t.msg = site.msg
      /\ t.nextPost = site.nextPost /\ t.title = site.title /\ t.templates = site.templates
      /\ t.config = site.config /\ t.nextCat = site.nextCat
    <2>1. Becomes(t, site.post, p, site.msg, site.nextPost)
        BY <1>0, <1>6, SiteEdits, Zenon
    <2>2. QED BY <2>1 DEF Becomes, SiteShape
<1>8. CatOk(row, imports)
    BY <1>1, <1>3, InvParts
<1>9. /\ CatOk(new, imports) /\ new.slug = slug /\ new.legacy = row.legacy /\ new.dir = row.dir
      /\ new.parent = row.parent /\ new.run = row.run
      /\ DOMAIN new = {"legacy", "dir", "slug", "parent", "run"}
    BY <1>4, <1>8, CatEdit
<1>10. new # NoCat
    <2>1. DOMAIN NoCat = {"legacy", "run"}
        BY DEF NoCat
    <2>2. "dir" \in DOMAIN new /\ "dir" \notin DOMAIN NoCat
        BY <1>9, <2>1
    <2>3. QED BY <2>2, Zenon
<1>11. DOMAIN site.cat = CatIds
    BY InvParts
<1>12. /\ DOMAIN t.cat = CatIds /\ t.cat[c] = new
       /\ \A k \in CatIds : k # c => t.cat[k] = site.cat[k]
    BY <1>1, <1>5, <1>7, <1>11 DEF Filing
<1>13. Filing(t) = Filing(site)
    BY <1>1, <1>10, <1>12 DEF Filing
<1>14. CatsStay(t)
    BY <1>3, <1>9, <1>12, <1>13 DEF CatsStay, Filing
<1>15. CatsOk(t, imports)
    <2>1. ASSUME NEW k \in Filing(t) PROVE CatOk(t.cat[k], imports) /\ k < t.nextCat
        <3>1. k \in Filing(site) /\ k \in CatIds /\ CatOk(site.cat[k], imports) /\ k < site.nextCat
            BY <1>0, <1>13, <2>1 DEF CatsOk, Filing
        <3>2. CASE k = c
            BY <1>7, <1>9, <1>12, <3>1, <3>2
        <3>3. CASE k # c
            BY <1>7, <1>12, <3>1, <3>3
        <3>4. QED BY <3>2, <3>3
    <2>2. t.nextCat \in 1 .. MaxPosts + 1
        BY <1>0, <1>7 DEF CatsOk
    <2>3. QED BY <1>12, <2>1, <2>2 DEF CatsOk
<1>16. TreeOk(t)
    BY <1>0, <1>13, <1>14, TreeStays
<1>17. /\ PostsOk(t, imports) /\ LandOk(t) /\ FiledOk(t) /\ Stored(t) = Stored(site)
       /\ \A i \in Stored(site) : PostStays(t, i)
    BY <1>0, <1>7, <1>14, PostsSame
<1>18. MessagesOk(t) /\ CountsOk(t)
    BY <1>0, <1>7, <1>17, CountsStay
<1>19. RestOk(t)
    BY <1>0, <1>7, <1>17, RestStays
<1>20. SiteOk(t, imports) /\ KeepsOk(t)
    BY <1>7, <1>15, <1>16, <1>17, <1>18, <1>19 DEF SiteOk, KeepsOk
<1>21. CardsInv'
    <2>1. Stored(site)' = Stored(site)
        BY <1>2, <1>17 DEF Stored
    <2>2. QED BY <1>0, <1>1, <2>1 DEF CardsInv
<1>22. imports' \in 0 .. MaxImports /\ moves' \in 0 .. MaxMoves
    <2>1. imports \in 0 .. MaxImports /\ moves \in 0 .. MaxMoves
        BY <1>0, Zenon DEF RunsInv
    <2>2. MaxImports \in Nat /\ MaxMoves \in Nat
        BY ImporterAssumption, Zenon
    <2>3. QED BY <1>1, <2>1, <2>2
<1>23. SiteOk(site', imports') /\ KeepsOk(site')
    BY <1>1, <1>2, <1>20
<1>24. QED BY <1>0, <1>1, <1>21, <1>22, <1>23, InvWhole

(* An entry goes, and its comments with it.                                 *)
MessagesBut(i) == {m \in site.msg : m.post # i}

LEMMA Fewer ==
    ASSUME ImportInv, NEW i \in Stored(site), NEW t,
           t.post = Put(i, NoRow), t.msg = MessagesBut(i),
           t.nextPost = site.nextPost, t.cat = site.cat, t.nextCat = site.nextCat
    PROVE  /\ Stored(t) = Stored(site) \ {i}
           /\ \A j \in Stored(t) : j \in Stored(site) /\ t.post[j] = site.post[j]
           /\ PostsOk(t, imports) /\ LandOk(t) /\ FiledOk(t) /\ MessagesOk(t) /\ CountsOk(t)
           /\ \A m \in t.msg : m \in site.msg /\ m.post \in Stored(t)
<1>1. /\ PostsOk(site, imports) /\ LandOk(site) /\ FiledOk(site) /\ MessagesOk(site) /\ CountsOk(site)
      /\ DOMAIN site.post = PostIds /\ \A m \in site.msg : m.post \in Stored(site)
    BY InvParts
<1>2. /\ DOMAIN t.post = PostIds /\ t.post[i] = NoRow
      /\ \A j \in PostIds : j # i => t.post[j] = site.post[j]
    BY <1>1 DEF Stored, Put
<1>3. Stored(t) = Stored(site) \ {i}
    BY <1>2 DEF Stored
<1>4. \A j \in Stored(t) : j \in Stored(site) /\ j # i /\ t.post[j] = site.post[j]
    BY <1>2, <1>3 DEF Stored
<1>5. PostsOk(t, imports)
    BY <1>1, <1>2, <1>4, Zenon DEF PostsOk
<1>6. LandOk(t)
    BY <1>1, <1>4, Zenon DEF LandOk
<1>7. FiledOk(t)
    <2>1. CatsStay(t)
        BY CatsSame
    <2>2. SUFFICES ASSUME NEW j \in Stored(t), t.post[j].run > 0, t.post[j].slug = ""
                   PROVE  FiledAsBefore(t, t.post[j])
        BY Zenon DEF FiledOk
    <2>3. FiledAsBefore(site, t.post[j])
        BY <1>1, <1>4, <2>2, Zenon DEF FiledOk
    <2>4. QED BY <2>1, <2>3, FilingStays, Zenon
<1>8. \A m \in t.msg : m \in site.msg /\ m.post \in Stored(t)
    BY <1>1, <1>3 DEF MessagesBut
<1>9. MessagesOk(t)
    BY <1>1, <1>4, <1>8 DEF MessagesOk
<1>10. CountsOk(t)
    <2>1. ASSUME NEW j \in Stored(t)
          PROVE  ApprovedAt(t, j) = ApprovedAt(site, j) /\ ArrivedAt(t, j) = ArrivedAt(site, j)
        BY <1>4, <1>8, <2>1 DEF ApprovedAt, ArrivedAt, MessagesBut
    <2>2. QED BY <1>1, <1>4, <2>1 DEF CountsOk
<1>11. QED BY <1>3, <1>4, <1>5, <1>6, <1>7, <1>8, <1>9, <1>10

LEMMA RemovePostStep ==
    ASSUME ImportInv, Move, NEW i, RemovePost(i)
    PROVE  ImportInv'
<1>0. /\ RunsInv /\ CardsInv /\ SiteShape(site) /\ PostsOk(site, imports) /\ CatsOk(site, imports)
      /\ RestOk(site) /\ TreeOk(site)
    BY InvParts
<1>1. /\ i \in Stored(site) /\ old' = old /\ drawing' = drawing
      /\ cached' = cached /\ cards' = cards \ {i} /\ imports' = imports
      /\ late' = IF i \in drawing THEN late \cup {i} ELSE late
      /\ moves < MaxMoves /\ moves' = moves + 1
    BY DEF RemovePost, Move
<1>2. PICK t, p, msg : /\ t = site' /\ p = Put(i, NoRow) /\ msg = MessagesBut(i)
    OBVIOUS
<1>3. t = [site EXCEPT !.post = p, !.msg = msg]
    BY <1>2 DEF RemovePost, Put, MessagesBut
<1>4. /\ SiteShape(t) /\ t.post = p /\ t.cat = site.cat /\ t.msg = msg
      /\ t.nextPost = site.nextPost /\ t.title = site.title /\ t.templates = site.templates
      /\ t.config = site.config /\ t.nextCat = site.nextCat
    <2>1. Becomes(t, p, site.cat, msg, site.nextPost)
        BY <1>0, <1>3, SiteEdits, Zenon
    <2>2. QED BY <2>1 DEF Becomes, SiteShape
<1>5. /\ Stored(t) = Stored(site) \ {i}
      /\ PostsOk(t, imports) /\ LandOk(t) /\ FiledOk(t) /\ MessagesOk(t) /\ CountsOk(t)
      /\ \A m \in t.msg : m \in site.msg /\ m.post \in Stored(t)
    BY <1>1, <1>2, <1>4, Fewer
<1>6. CatsOk(t, imports) /\ TreeOk(t)
    BY <1>0, <1>4, CatsSame
<1>7. RestOk(t)
    <2>1. \A m \in t.msg : MessageOk(t, m)
        BY <1>0, <1>5, Zenon DEF RestOk, MessageOk
    <2>2. IsFiniteSet(t.msg)
        <3>1. IsFiniteSet(site.msg) /\ t.msg \subseteq site.msg
            BY <1>0, <1>5, Zenon DEF RestOk
        <3>2. QED BY <3>1, FS_Subset
    <2>3. QED BY <1>0, <1>4, <2>1, <2>2, Zenon DEF RestOk
<1>8. SiteOk(t, imports) /\ KeepsOk(t)
    BY <1>4, <1>5, <1>6, <1>7 DEF SiteOk, KeepsOk
<1>9. CardsInv'
    <2>1. Stored(site)' = Stored(site) \ {i}
        BY <1>2, <1>5 DEF Stored
    <2>2. Stored(site) \subseteq PostIds
        BY DEF Stored
    <2>3. QED BY <1>0, <1>1, <2>1, <2>2 DEF CardsInv
<1>10. imports' \in 0 .. MaxImports /\ moves' \in 0 .. MaxMoves
    <2>1. imports \in 0 .. MaxImports /\ moves \in 0 .. MaxMoves
        BY <1>0, Zenon DEF RunsInv
    <2>2. MaxImports \in Nat /\ MaxMoves \in Nat
        BY ImporterAssumption, Zenon
    <2>3. QED BY <1>1, <2>1, <2>2
<1>11. SiteOk(site', imports') /\ KeepsOk(site')
    BY <1>1, <1>2, <1>8
<1>12. QED BY <1>0, <1>1, <1>9, <1>10, <1>11, InvWhole

(* A comment is judged: new takes its place.                                *)
Replaced(m, new) == (site.msg \ {m}) \cup {new}
By(m, new) ==
    (IF new.st = "approved" THEN 1 ELSE 0) - (IF m.st = "approved" THEN 1 ELSE 0)

LEMMA MessageEdit ==
    ASSUME NEW m, NEW st, NEW new, MessageOk(site, m)
    PROVE  new = [m EXCEPT !.st = st] =>
               /\ new.of = m.of /\ new.post = m.post /\ new.st = st
               /\ MessageOk(site, new)
<1>1. PICK r, of, post, s : r = m /\ of = m.of /\ post = m.post /\ s = m.st
    OBVIOUS
<1>2. r = [of |-> of, post |-> post, st |-> s]
    BY <1>1, Zenon DEF MessageOk
<1>3. ASSUME new = [r EXCEPT !.st = st]
      PROVE  /\ new = [of |-> of, post |-> post, st |-> st]
             /\ new.of = of /\ new.post = post /\ new.st = st
    BY <1>2, <1>3
<1>4. of = <<of[1], of[2]>> /\ post \in Stored(site)
    BY <1>1, Zenon DEF MessageOk
<1>5. ASSUME new = [r EXCEPT !.st = st] PROVE MessageOk(site, new)
    <2>1. new = [of |-> of, post |-> post, st |-> st] /\ new.of = of /\ new.post = post /\ new.st = st
        BY <1>3, <1>5
    <2>2. QED BY <1>4, <2>1, Zenon DEF MessageOk
<1>6. QED BY <1>1, <1>3, <1>5, Zenon

LEMMA SetsOfOne ==
    ASSUME NEW S, IsFiniteSet(S), NEW x, NEW y
    PROVE  /\ Cardinality(S) \in Int
           /\ x \in S => Cardinality(S \ {x}) = Cardinality(S) - 1
           /\ y \notin S => Cardinality(S \cup {y}) = Cardinality(S) + 1
<1>1. Cardinality(S) \in Nat
    BY FS_CardinalityType
<1>2. /\ IsFiniteSet(S \ {x})
      /\ Cardinality(S \ {x}) = IF x \in S THEN Cardinality(S) - 1 ELSE Cardinality(S)
    BY FS_RemoveElement
<1>3. Cardinality(S \cup {y}) = IF y \in S THEN Cardinality(S) ELSE Cardinality(S) + 1
    BY FS_AddElement
<1>4. QED BY <1>1, <1>2, <1>3

LEMMA OneForAnother ==
    ASSUME NEW S, IsFiniteSet(S), NEW x \in S, NEW y, y \notin S
    PROVE  Cardinality((S \ {x}) \cup {y}) = Cardinality(S)
<1> DEFINE R == S \ {x}
<1>1. IsFiniteSet(R) /\ Cardinality(S) \in Int /\ Cardinality(R) = Cardinality(S) - 1
    BY FS_RemoveElement, SetsOfOne
<1>2. y \notin R
    OBVIOUS
<1> HIDE DEF R
<1>3. Cardinality(R \cup {y}) = Cardinality(R) + 1
    BY <1>1, <1>2, FS_AddElement
<1>4. Cardinality(R \cup {y}) = Cardinality(S)
    BY <1>1, <1>3
<1>5. QED BY <1>4 DEF R

(* The counter is moved by what the judgement changes.                      *)
LEMMA CountMoved ==
    ASSUME ImportInv, NEW m \in site.msg, NEW new, new.of = m.of, new.post = m.post, new.st # m.st,
           NEW t, t.msg = Replaced(m, new), NEW i
    PROVE  /\ new \notin site.msg
           /\ Cardinality(ArrivedAt(t, i)) = Cardinality(ArrivedAt(site, i))
           /\ i # m.post => Cardinality(ApprovedAt(t, i)) = Cardinality(ApprovedAt(site, i))
           /\ i = m.post => Cardinality(ApprovedAt(t, i)) = Cardinality(ApprovedAt(site, i)) + By(m, new)
           /\ Cardinality(ApprovedAt(site, i)) \in Int /\ Cardinality(ArrivedAt(site, i)) \in Int
<1>1. IsFiniteSet(site.msg) /\ \A n \in site.msg : m.of = n.of => m = n
    BY InvParts, Zenon DEF RestOk, MessagesOk
<1>2. new \notin site.msg
    BY <1>1
<1>3. IsFiniteSet(ApprovedAt(site, i)) /\ IsFiniteSet(ArrivedAt(site, i))
    <2>1. ApprovedAt(site, i) \subseteq site.msg /\ ArrivedAt(site, i) \subseteq site.msg
        BY DEF ApprovedAt, ArrivedAt
    <2>2. QED BY <1>1, <2>1, FS_Subset
<1>0. Cardinality(ApprovedAt(site, i)) \in Int /\ Cardinality(ArrivedAt(site, i)) \in Int
    BY <1>3, FS_CardinalityType
<1>4. Cardinality(ArrivedAt(t, i)) = Cardinality(ArrivedAt(site, i))
    <2>1. CASE m \in ArrivedAt(site, i)
        <3>1. ArrivedAt(t, i) = (ArrivedAt(site, i) \ {m}) \cup {new}
            BY <2>1 DEF ArrivedAt, Replaced
        <3>2. new \notin ArrivedAt(site, i)
            BY <1>2 DEF ArrivedAt
        <3>3. PICK A, B : A = ArrivedAt(site, i) /\ B = ArrivedAt(t, i)
            OBVIOUS
        <3>4. IsFiniteSet(A) /\ m \in A /\ new \notin A /\ B = (A \ {m}) \cup {new}
            BY <1>3, <2>1, <3>1, <3>2, <3>3
        <3>5. Cardinality(B) = Cardinality(A)
            BY <3>4, OneForAnother
        <3>6. QED BY <3>3, <3>5
    <2>2. CASE m \notin ArrivedAt(site, i)
        <3>1. ArrivedAt(t, i) = ArrivedAt(site, i)
            BY <2>2 DEF ArrivedAt, Replaced
        <3>2. QED BY <3>1
    <2>3. QED BY <2>1, <2>2
<1>5. ASSUME i # m.post PROVE ApprovedAt(t, i) = ApprovedAt(site, i)
    BY <1>5 DEF ApprovedAt, Replaced
<1>6. ASSUME i = m.post
      PROVE  Cardinality(ApprovedAt(t, i)) = Cardinality(ApprovedAt(site, i)) + By(m, new)
    <2>1. CASE m.st = "approved"
        <3>1. ApprovedAt(t, i) = ApprovedAt(site, i) \ {m}
            BY <1>2, <2>1 DEF ApprovedAt, Replaced
        <3>2. m \in ApprovedAt(site, i)
            BY <1>6, <2>1 DEF ApprovedAt
        <3>3. Cardinality(ApprovedAt(t, i)) = Cardinality(ApprovedAt(site, i)) - 1
            BY <1>3, <3>1, <3>2, SetsOfOne
        <3>4. By(m, new) = -1 /\ Cardinality(ApprovedAt(site, i)) \in Int
            BY <1>0, <2>1 DEF By
        <3>5. QED BY <3>3, <3>4
    <2>2. CASE m.st # "approved" /\ new.st = "approved"
        <3>1. ApprovedAt(t, i) = ApprovedAt(site, i) \cup {new}
            BY <1>2, <1>6, <2>2 DEF ApprovedAt, Replaced
        <3>2. new \notin ApprovedAt(site, i)
            BY <1>2 DEF ApprovedAt
        <3>3. Cardinality(ApprovedAt(t, i)) = Cardinality(ApprovedAt(site, i)) + 1
            BY <1>3, <3>1, <3>2, SetsOfOne
        <3>4. By(m, new) = 1
            BY <2>2 DEF By
        <3>5. QED BY <3>3, <3>4
    <2>3. CASE m.st # "approved" /\ new.st # "approved"
        <3>1. ApprovedAt(t, i) = ApprovedAt(site, i)
            BY <2>3 DEF ApprovedAt, Replaced
        <3>2. By(m, new) = 0 /\ Cardinality(ApprovedAt(site, i)) \in Int
            BY <1>0, <2>3 DEF By
        <3>3. QED BY <3>1, <3>2
    <2>4. QED BY <2>1, <2>2, <2>3
<1>7. QED BY <1>0, <1>2, <1>4, <1>5, <1>6

LEMMA JudgeStep ==
    ASSUME ImportInv, Move, NEW m, NEW st, Judge(m, st)
    PROVE  ImportInv'
<1>0. /\ RunsInv /\ CardsInv /\ SiteShape(site) /\ PostsOk(site, imports) /\ CatsOk(site, imports)
      /\ RestOk(site) /\ LandOk(site) /\ TreeOk(site) /\ FiledOk(site) /\ MessagesOk(site)
      /\ CountsOk(site) /\ \A n \in site.msg : n.post \in Stored(site)
    BY InvParts
<1>1. /\ m \in site.msg /\ m.st # st /\ old' = old /\ drawing' = drawing
      /\ cached' = cached /\ cards' = cards /\ late' = late /\ imports' = imports
      /\ moves < MaxMoves /\ moves' = moves + 1
    BY DEF Judge, Move
<1>2. PICK i, row, new : i = m.post /\ row = site.post[i] /\ new = [m EXCEPT !.st = st]
    OBVIOUS
<1>3. i \in Stored(site) /\ PostOk(row, imports) /\ row.count \in Int
    <2>1. i \in Stored(site) /\ PostOk(row, imports)
        BY <1>0, <1>1, <1>2, InvParts
    <2>2. QED BY <2>1, Zenon DEF PostOk
<1>4. new.of = m.of /\ new.post = m.post /\ new.st = st /\ MessageOk(site, new)
    <2>1. MessageOk(site, m)
        BY <1>0, <1>1, Zenon DEF RestOk
    <2>2. QED BY <1>2, <2>1, MessageEdit
<1>5. By(m, new) \in Int /\ row.count + By(m, new) \in Int
    BY <1>3 DEF By
<1>6. PICK by : by = row.count + By(m, new)
    OBVIOUS
<1>7. PICK put : put = [row EXCEPT !.count = by]
    OBVIOUS
<1>8. /\ put.st = row.st /\ put.slug = row.slug /\ put.cat = row.cat /\ put.count = by
      /\ put.legacy = row.legacy /\ put.file = row.file /\ put.run = row.run
      /\ PostOk(put, imports) /\ put # NoRow
    BY <1>3, <1>5, <1>6, <1>7, CountEdit
<1>9. PICK t, p, msg : t = site' /\ p = Put(i, put) /\ msg = Replaced(m, new)
    OBVIOUS
<1>10. t = [site EXCEPT !.msg = msg, !.post = p]
    BY <1>2, <1>4, <1>6, <1>7, <1>9 DEF Judge, Put, Replaced, By
<1>11. /\ SiteShape(t) /\ t.post = p /\ t.cat = site.cat /\ t.msg = msg
       /\ t.nextPost = site.nextPost /\ t.title = site.title /\ t.templates = site.templates
       /\ t.config = site.config /\ t.nextCat = site.nextCat
    <2>1. Becomes(t, p, site.cat, msg, site.nextPost)
        BY <1>0, <1>10, SiteEdits, Zenon
    <2>2. QED BY <2>1 DEF Becomes, SiteShape
<1>12. /\ Stored(t) = Stored(site) /\ t.post[i] = put /\ PostsOk(t, imports)
       /\ \A j \in PostIds : j # i => t.post[j] = site.post[j]
    BY <1>3, <1>8, <1>9, <1>11, PostEdit
<1>13. \A j \in Stored(site) : j # i => t.post[j] = site.post[j]
    BY <1>12, InvParts
<1>14. \A j \in Stored(site) : /\ PostStays(t, j) /\ t.post[j].slug = site.post[j].slug
                               /\ t.post[j].cat = site.post[j].cat
    BY <1>2, <1>8, <1>12, <1>13 DEF PostStays
<1>15. LandOk(t)
    BY <1>0, <1>12, <1>14, Zenon DEF LandOk, PostStays
<1>16. CatsOk(t, imports) /\ TreeOk(t) /\ CatsStay(t)
    BY <1>0, <1>11, CatsSame
<1>17. FiledOk(t)
    <2>1. SUFFICES ASSUME NEW j \in Stored(t), t.post[j].run > 0, t.post[j].slug = ""
                   PROVE  FiledAsBefore(t, t.post[j])
        BY Zenon DEF FiledOk
    <2>2. FiledAsBefore(site, site.post[j])
        BY <1>0, <1>12, <1>14, <2>1, Zenon DEF FiledOk, PostStays
    <2>3. t.post[j].legacy = site.post[j].legacy /\ t.post[j].cat = site.post[j].cat
        BY <1>12, <1>14, Zenon DEF PostStays
    <2>4. QED BY <1>16, <2>2, <2>3, FilingStays, Zenon
<1>18. \A n \in msg : n \in site.msg \/ n = new
    BY <1>9 DEF Replaced
<1>19. MessagesOk(t)
    <2>1. \A n \in msg : \E k \in site.msg : n.of = k.of /\ n.post = k.post
        BY <1>1, <1>4, <1>18
    <2>2. ASSUME NEW n \in msg PROVE t.post[n.post].run = n.of[1] /\ t.post[n.post].legacy = EntryOf(n.of[2])
        <3>1. PICK k \in site.msg : n.of = k.of /\ n.post = k.post
            BY <2>1
        <3>2. site.post[k.post].run = k.of[1] /\ site.post[k.post].legacy = EntryOf(k.of[2])
            BY <1>0 DEF MessagesOk
        <3>3. QED BY <1>0, <1>14, <3>1, <3>2 DEF PostStays
    <2>3. ASSUME NEW n \in msg, NEW k \in msg, n.of = k.of PROVE n = k
        <3>1. \A x \in msg : x = new \/ (x \in site.msg /\ x # m)
            BY <1>9 DEF Replaced
        <3>2. \A x \in site.msg : x.of = m.of => x = m
            BY <1>0, <1>1 DEF MessagesOk
        <3>3. \A x, y \in site.msg : x.of = y.of => x = y
            BY <1>0 DEF MessagesOk
        <3>4. QED BY <1>4, <2>3, <3>1, <3>2, <3>3
    <2>4. QED BY <1>11, <2>2, <2>3 DEF MessagesOk
<1>20. CountsOk(t)
    <2>1. ASSUME NEW j \in Stored(site)
          PROVE  t.post[j].count = Cardinality(ApprovedAt(t, j)) - Cardinality(ArrivedAt(t, j))
        <3>1. new.st # m.st /\ t.msg = Replaced(m, new)
            BY <1>1, <1>4, <1>9, <1>11
        <3>2. /\ Cardinality(ArrivedAt(t, j)) = Cardinality(ArrivedAt(site, j))
              /\ j # m.post => Cardinality(ApprovedAt(t, j)) = Cardinality(ApprovedAt(site, j))
              /\ j = m.post => Cardinality(ApprovedAt(t, j)) = Cardinality(ApprovedAt(site, j)) + By(m, new)
              /\ Cardinality(ApprovedAt(site, j)) \in Int /\ Cardinality(ArrivedAt(site, j)) \in Int
            BY <1>1, <1>4, <3>1, CountMoved
        <3>3. site.post[j].count = Cardinality(ApprovedAt(site, j)) - Cardinality(ArrivedAt(site, j))
            BY <1>0 DEF CountsOk
        <3>4. CASE j = i
            BY <1>2, <1>5, <1>6, <1>8, <1>12, <3>2, <3>3, <3>4
        <3>5. CASE j # i
            BY <1>2, <1>13, <3>2, <3>3, <3>5
        <3>6. QED BY <3>4, <3>5
    <2>2. QED BY <1>12, <2>1 DEF CountsOk
<1>21. RestOk(t)
    <2>1. \A n \in t.msg : MessageOk(site, n)
        BY <1>0, <1>4, <1>11, <1>18, Zenon DEF RestOk
    <2>2. \A n \in t.msg : MessageOk(t, n)
        BY <1>12, <2>1, Zenon DEF MessageOk
    <2>3. IsFiniteSet(t.msg)
        <3>1. IsFiniteSet(site.msg)
            BY <1>0, Zenon DEF RestOk
        <3>2. IsFiniteSet(site.msg \ {m})
            BY <3>1, FS_RemoveElement
        <3>3. QED BY <1>9, <1>11, <3>2, FS_AddElement DEF Replaced
    <2>4. QED BY <1>0, <1>11, <2>2, <2>3, Zenon DEF RestOk
<1>22. SiteOk(t, imports) /\ KeepsOk(t)
    BY <1>11, <1>12, <1>15, <1>16, <1>17, <1>19, <1>20, <1>21 DEF SiteOk, KeepsOk
<1>23. CardsInv'
    <2>1. Stored(site)' = Stored(site)
        BY <1>9, <1>12 DEF Stored
    <2>2. QED BY <1>0, <1>1, <2>1 DEF CardsInv
<1>24. imports' \in 0 .. MaxImports /\ moves' \in 0 .. MaxMoves
    <2>1. imports \in 0 .. MaxImports /\ moves \in 0 .. MaxMoves
        BY <1>0, Zenon DEF RunsInv
    <2>2. MaxImports \in Nat /\ MaxMoves \in Nat
        BY ImporterAssumption, Zenon
    <2>3. QED BY <1>1, <2>1, <2>2
<1>25. SiteOk(site', imports') /\ KeepsOk(site')
    BY <1>1, <1>9, <1>22
<1>26. QED BY <1>0, <1>1, <1>23, <1>24, <1>25, InvWhole

LEMMA OwnRows ==
    /\ OwnPost = [st |-> OwnPost.st, slug |-> OwnPost.slug, cat |-> OwnPost.cat,
                  legacy |-> OwnPost.legacy, file |-> OwnPost.file, count |-> OwnPost.count,
                  run |-> OwnPost.run]
    /\ OwnPost.st = "published" /\ OwnPost.cat = 1 /\ OwnPost.legacy = NoRef
    /\ OwnPost.count = 0 /\ OwnPost.run = 0
    /\ OwnCat = [legacy |-> OwnCat.legacy, dir |-> OwnCat.dir, slug |-> OwnCat.slug,
                 parent |-> OwnCat.parent, run |-> OwnCat.run]
    /\ OwnCat.parent = 0 /\ OwnCat.run = 0
BY DEF OwnPost, OwnCat

LEMMA OwnRowsOk == PostOk(OwnPost, 0) /\ CatOk(OwnCat, 0)
<1>1. MaxPosts \in Nat /\ MaxPosts > 0
    BY PostsFinite, ImporterAssumption
<1>2. OwnPost.cat \in CatIds
    BY <1>1, OwnRows DEF CatIds
<1>3. 0 \in Int /\ 0 \in 0 .. 0
    OBVIOUS
<1>4. "published" \in {"draft", "published", "closed"}
    OBVIOUS
<1>5. PostOk(OwnPost, 0)
    BY <1>2, <1>3, <1>4, OwnRows, Zenon DEF PostOk
<1>6. CatOk(OwnCat, 0)
    BY <1>3, OwnRows, Zenon DEF CatOk
<1>7. QED BY <1>5, <1>6

LEMMA Started ==
    ASSUME NEW from \in LegacySites, NEW base, NEW own \in {0, 1}, StartOf(from, base, own)
    PROVE  ImportInv
<1>1. PICK config, title : config = NoLegacy /\ title = "mine"
    OBVIOUS
<1>2. /\ site = [post |-> [i \in PostIds |-> IF i > own THEN NoRow ELSE OwnPost],
                 cat |-> [c \in CatIds |-> IF c > own THEN NoCat ELSE OwnCat],
                 msg |-> {}, title |-> title, templates |-> 0, config |-> config,
                 nextPost |-> own + 1, nextCat |-> own + 1]
      /\ old = from /\ cached = site.config /\ drawing = {} /\ cards = {} /\ late = {}
      /\ imports = 0 /\ moves = 0
    BY <1>1 DEF StartOf
<1>3. /\ site.post = [i \in PostIds |-> IF i > own THEN NoRow ELSE OwnPost]
      /\ site.cat = [c \in CatIds |-> IF c > own THEN NoCat ELSE OwnCat]
      /\ site.msg = {} /\ site.title = title /\ site.templates = 0 /\ site.config = config
      /\ site.nextPost = own + 1 /\ site.nextCat = own + 1
    BY <1>2
<1>4. SiteShape(site)
    BY <1>2, <1>3 DEF SiteShape
<1>5. MaxPosts \in Nat /\ MaxPosts > 0 /\ own \in Nat /\ own <= 1
    BY PostsFinite, ImporterAssumption
<1>6. \A i \in Stored(site) : site.post[i] = OwnPost /\ i < own + 1 /\ i = 1
    BY <1>3, <1>5 DEF Stored, PostIds
<1>7. \A c \in Filing(site) : site.cat[c] = OwnCat /\ c < own + 1 /\ c = 1
    BY <1>3, <1>5 DEF Filing, CatIds
<1>8. own + 1 \in 1 .. MaxPosts + 1
    BY <1>5
<1>9. PostsOk(site, imports)
    BY <1>2, <1>3, <1>6, <1>8, OwnRowsOk DEF PostsOk
<1>10. CatsOk(site, imports)
    BY <1>2, <1>3, <1>7, <1>8, OwnRowsOk DEF CatsOk
<1>11. DOMAIN config = Columns \ {"cgi"}
    BY <1>1, Zenon DEF NoLegacy
<1>12. RestOk(site)
    <2>1. 0 \in Nat /\ IsFiniteSet(site.msg) /\ \A m \in site.msg : MessageOk(site, m)
        BY <1>3, FS_EmptySet
    <2>2. QED BY <1>3, <1>11, <2>1, Zenon DEF RestOk
<1>13. LandOk(site) /\ FiledOk(site) /\ TreeOk(site)
    <2>1. LandOk(site)
        <3>1. \A i \in Stored(site) : site.post[i].legacy = NoRef
            BY <1>6, OwnRows
        <3>2. \A i, j \in Stored(site) : i = j
            BY <1>6
        <3>3. QED BY <3>1, <3>2, Zenon DEF LandOk
    <2>2. FiledOk(site)
        <3>1. \A i \in Stored(site) : ~(site.post[i].run > 0)
            BY <1>6, OwnRows
        <3>2. QED BY <3>1, Zenon DEF FiledOk
    <2>3. TreeOk(site)
        <3>1. \A c \in Filing(site) : ~(site.cat[c].run > 0)
            BY <1>7, OwnRows
        <3>2. QED BY <3>1, Zenon DEF TreeOk
    <2>4. QED BY <2>1, <2>2, <2>3
<1>14. MessagesOk(site)
    BY <1>3 DEF MessagesOk
<1>15. CountsOk(site)
    <2>1. ASSUME NEW i PROVE ApprovedAt(site, i) = {} /\ ArrivedAt(site, i) = {}
        BY <1>3 DEF ApprovedAt, ArrivedAt
    <2>2. Cardinality({}) = 0
        BY FS_EmptySet
    <2>3. QED BY <1>6, <2>1, <2>2, OwnRows DEF CountsOk
<1>16. CardsInv
    BY <1>2 DEF CardsInv
<1>17. RunsInv
    <2>1. 0 \in 0 .. MaxImports /\ 0 \in 0 .. MaxMoves
        BY ImporterAssumption
    <2>2. QED BY <1>2, <1>3, <1>11, <2>1 DEF RunsInv
<1>18. QED BY <1>4, <1>9, <1>10, <1>12, <1>13, <1>14, <1>15, <1>16, <1>17
           DEF ImportInv, TablesInv, SiteOk, KeepsOk

(* The steps that leave the tables.                                         *)
LEMMA Untouched ==
    ASSUME ImportInv, site' = site, old' = old, late' = late, moves' = moves, imports' = imports,
           cached' \in {cached, site.config}, drawing' \subseteq drawing,
           cards' \subseteq cards \cup drawing
    PROVE  ImportInv'
<1>1. /\ TablesInv /\ CardsInv /\ RunsInv /\ RestOk(site) /\ SiteOk(site, imports) /\ KeepsOk(site)
    BY InvParts DEF ImportInv, TablesInv
<1>2. SiteOk(site', imports') /\ KeepsOk(site')
    BY <1>1
<1>3. CardsInv'
    <2>1. Stored(site)' = Stored(site)
        BY DEF Stored
    <2>2. QED BY <1>1, <2>1 DEF CardsInv
<1>4. imports' \in 0 .. MaxImports /\ moves' \in 0 .. MaxMoves
    BY <1>1, Zenon DEF RunsInv
<1>5. QED BY <1>1, <1>2, <1>3, <1>4, InvWhole

(* Whatever is imported, and in what order, the tables stay as the commands *)
(* and the administrator leave them, and keep what the old site related.    *)
THEOREM ImporterAlways == ImporterSpec => []ImportInv
<1>1. ImporterInit => ImportInv
    BY Started DEF ImporterInit
<1>2. ImportInv /\ [ImporterStep]_importerVars => ImportInv'
    <2> SUFFICES ASSUME ImportInv, [ImporterStep]_importerVars PROVE ImportInv'
        OBVIOUS
    <2>1. CASE ImportSB3
        BY <2>1, TransactionStep DEF ImportSB3
    <2>2. CASE ImportSB2
        BY <2>2, TransactionStep DEF ImportSB2
    <2>3. CASE \E files \in Directories : ImportMarkdown(files)
        BY <2>3, MarkdownStep
    <2>4. CASE \E i \in PostIds : DrawCard(i)
        <3>1. PICK i \in PostIds : DrawCard(i)
            BY <2>4
        <3>2. QED BY <3>1, Untouched DEF DrawCard
    <2>5. CASE KillImport
        BY <2>5, Untouched DEF KillImport
    <2>6. CASE Move /\ \E i \in PostIds, slug \in DOMAIN SlugNumber \ {""} : SetSlug(i, slug)
        <3>1. PICK i \in PostIds, slug \in DOMAIN SlugNumber \ {""} : SetSlug(i, slug)
            BY <2>6, Zenon
        <3>2. Slugged(slug)
            BY <3>1, Zenon DEF Slugged
        <3>3. Move
            BY <2>6, Zenon
        <3>4. QED BY <3>1, <3>2, <3>3, SetSlugStep, Zenon
    <2>7. CASE Move /\ \E c \in CatIds, slug \in DOMAIN SlugNumber \ {""} : SetCategorySlug(c, slug)
        BY <2>7, SetCategorySlugStep, Zenon
    <2>8. CASE Move /\ \E i \in PostIds : RemovePost(i)
        BY <2>8, RemovePostStep
    <2>9. CASE Move /\ \E m \in site.msg, st \in {"approved", "hidden"} : Judge(m, st)
        BY <2>9, JudgeStep
    <2>10. CASE Restart
        BY <2>10, Untouched DEF Restart
    <2>11. CASE UNCHANGED importerVars
        BY <2>11, Untouched DEF importerVars
    <2>12. QED BY <2>1, <2>2, <2>3, <2>4, <2>5, <2>6, <2>7, <2>8, <2>9, <2>10, <2>11, Zenon
               DEF ImporterStep
<1>3. QED BY <1>1, <1>2, PTL DEF ImporterSpec

(* Rows, categories and comments are well formed, comments are at rows.     *)
THEOREM ImporterTypeCorrect == ImporterSpec => []ImporterTypeOk
<1>1. ImportInv => ImporterTypeOk
    BY TablesType DEF ImportInv
<1>2. QED BY <1>1, ImporterAlways, PTL

(* The tree of the old categories, the entries in them and the comments at  *)
(* them arrive, the counters trail by what arrived approved, and cards are  *)
(* those of entries.                                                        *)
THEOREM ImportIsFaithful == ImporterSpec => []ImportsFaithful
<1>1. ASSUME ImportInv PROVE ImportsFaithful
    <2>1. /\ TreeOk(site) /\ FiledOk(site) /\ MessagesOk(site) /\ CountsOk(site) /\ CardsInv
        BY <1>1, InvParts
    <2>2. ASSUME NEW c \in Filing(site), site.cat[c].run > 0
          PROVE  LET main == MainOf(site.cat[c].legacy)
                 IN IF main \in DOMAIN old.cats
                    THEN site.cat[c].parent \in {p \in CategoryByLegacyID(main) :
                                                    site.cat[p].run = site.cat[c].run}
                    ELSE site.cat[c].parent = 0
        <3>1. BelowMain(site, site.cat[c])
            BY <2>1, <2>2 DEF TreeOk
        <3>2. NoRef \notin DOMAIN old.cats
            BY <1>1, InvParts, OldFacts DEF RunsInv
        <3>3. QED BY <3>1, <3>2 DEF BelowMain, CategoryByLegacyID
    <2>3. ASSUME NEW i \in Stored(site), site.post[i].run > 0 /\ site.post[i].slug = ""
          PROVE  LET ref == NumberOf(old.entries[site.post[i].legacy].cat)
                 IN IF ref \in DOMAIN old.cats THEN site.cat[site.post[i].cat].legacy = ref
                    ELSE site.post[i].cat = NoRef
        <3>1. FiledAsBefore(site, site.post[i])
            BY <2>1, <2>3, Zenon DEF FiledOk
        <3>2. QED BY <3>1, Zenon DEF FiledAsBefore
    <2>4. \A m \in site.msg : /\ site.post[m.post].run = m.of[1]
                              /\ site.post[m.post].legacy = EntryOf(m.of[2])
        BY <2>1 DEF MessagesOk
    <2>5. \A i \in Stored(site) :
             LET Approved == {m \in site.msg : m.post = i /\ m.st = "approved"}
                 Arrived == {m \in site.msg : m.post = i /\ old.messages[m.of[2]].st = "approved"}
             IN site.post[i].count = Cardinality(Approved) - Cardinality(Arrived)
        BY <2>1 DEF CountsOk, ApprovedAt, ArrivedAt
    <2>6. cards \subseteq Stored(site) \cup late
        BY <2>1 DEF CardsInv
    <2>7. QED BY <2>2, <2>3, <2>4, <2>5, <2>6, Zenon DEF ImportsFaithful
<1>2. QED BY <1>1, ImporterAlways, PTL

LEMMA ConfigRead == LoadLegacyConfig # NoLegacy
<1>1. "type" \in Columns \ {"cgi"} /\ "type" # "base"
    BY DEF Columns
<1>2. Defaults["type"] = "Individual" /\ Given("Individual") /\ ~Given(NoLegacy["type"])
    <2>1. Defaults["type"] = "Individual"
        BY DEF Defaults
    <2>2. NoLegacy["type"] = ""
        BY <1>1, Zenon DEF NoLegacy
    <2>3. "Individual" # ""
        BY Zenon
    <2>4. QED BY <2>1, <2>2, <2>3, Zenon DEF Given
<1>3. Given(LoadLegacyConfig["type"])
    BY <1>1, <1>2 DEF LoadLegacyConfig
<1>4. QED BY <1>2, <1>3, Zenon

(* A copy is shown under its address.                                       *)
LEMMA Shown ==
    ASSUME LandOk(site), NEW j \in Stored(site), SlugNumber[site.post[j].slug] = 0
    PROVE  LET answer == Answer(AsRead, KeyOf(AsRead, j))
           IN /\ answer.entry \in {0, j}
              /\ answer.code = 200 <=> site.post[j].st = "published"
<1>1. AsRead.post = site.post /\ Present(AsRead) = Stored(site)
    BY DEF AsRead, Present, Stored
<1>2. j \in PostIds /\ j \in Nat /\ j > 0
    BY PostsFinite DEF PostIds, Stored
<1>3. PICK d, row, key : d = AsRead /\ row = site.post[j] /\ key = KeyOf(AsRead, j)
    OBVIOUS
<1>4. d.post[j] = row /\ Present(d) = Stored(site) /\ d.post = site.post
    BY <1>1, <1>3
<1>5. Resolve(d, key) = {j} /\ ~(key.id > 0 /\ Slugged(row.slug))
    <2>1. CASE ~Slugged(row.slug)
        <3>1. d.post[j].slug = ""
            BY <1>4, <2>1, Zenon DEF Slugged
        <3>2. key = [id |-> j, word |-> ""]
            BY <1>3, <3>1, Zenon DEF KeyOf
        <3>3. [id |-> j, word |-> ""].id = j
            OBVIOUS
        <3>4. key.id = j
            BY <3>2, <3>3, Zenon
        <3>5. QED BY <1>2, <1>4, <2>1, <3>4 DEF Resolve
    <2>2. CASE Slugged(row.slug)
        <3>1. row.slug # "" /\ d.post[j].slug = row.slug
            BY <1>4, <2>2, Zenon DEF Slugged
        <3>2. ~(SlugNumber[row.slug] > 0)
            BY <1>3
        <3>3. key = [id |-> 0, word |-> row.slug]
            BY <1>3, <3>1, <3>2, Zenon DEF KeyOf
        <3>4. key.id = 0 /\ key.word = row.slug
            <4>1. [id |-> 0, word |-> row.slug].id = 0 /\ [id |-> 0, word |-> row.slug].word = row.slug
                OBVIOUS
            <4>2. QED BY <3>3, <4>1, Zenon
        <3>5. ~(key.id > 0)
            BY <3>4
        <3>6. \A i \in Stored(site) : site.post[i].slug = row.slug => i = j
            BY <1>3, <3>1, Zenon DEF LandOk
        <3>7. Resolve(d, key) = {i \in Present(d) : d.post[i].slug = row.slug}
            BY <3>4, <3>5 DEF Resolve
        <3>8. Resolve(d, key) = {j}
            BY <1>3, <1>4, <3>6, <3>7
        <3>9. QED BY <3>5, <3>8
    <2>3. QED BY <2>1, <2>2
<1>6. (CHOOSE i \in Resolve(d, key) : TRUE) = j /\ Resolve(d, key) # {}
    BY <1>5
<1>7. ~(key.id > 0 /\ d.post[j].slug # "")
    BY <1>4, <1>5, Zenon DEF Slugged
<1>8. \/ row.st = "published" /\ Answer(d, key) = [code |-> 200, entry |-> j]
      \/ row.st # "published" /\ Answer(d, key) \in {[code |-> 404, entry |-> j], [code |-> 410, entry |-> j]}
    <2>1. CASE row.st = "published"
        BY <1>4, <1>6, <1>7, <2>1, Zenon DEF Answer
    <2>2. CASE row.st = "closed"
        <3>1. row.st # "published"
            BY <2>2
        <3>2. QED BY <1>4, <1>6, <1>7, <2>2, <3>1, Zenon DEF Answer
    <2>3. CASE row.st # "published" /\ row.st # "closed"
        BY <1>4, <1>6, <1>7, <2>3, Zenon DEF Answer
    <2>4. QED BY <2>1, <2>2, <2>3
<1>9. PICK answer : answer = Answer(d, key)
    OBVIOUS
<1>10. answer.entry = j /\ (answer.code = 200 <=> row.st = "published")
    BY <1>8, <1>9
<1>11. QED BY <1>3, <1>9, <1>10

LEMMA LegacyIds ==
    ASSUME LandOk(site)
    PROVE  \A e : EntryByLegacyID(e) # {} => e \in DOMAIN old.entries
BY DEF LandOk, EntryByLegacyID

(* Which copies an old address finds.                                       *)
LEMMA QueryLeads == \A e : EntriesAt(ByQuery(e)) = EntryByLegacyID(e)
<1>1. \A e : ByQuery(e).kind = "query" /\ ByQuery(e).name.n = e
    BY DEF ByQuery
<1>2. QED BY <1>1 DEF EntriesAt, LegacyCGI

LEMMA PageLeads ==
    ASSUME cached = LoadLegacyConfig, mount = "/", cached.type # "Monthly", NEW name
    PROVE  EntriesAt(ByPage(name)) =
               IF name.word = cached.prefix /\ EntryByLegacyID(name.n) # {}
               THEN EntryByLegacyID(name.n) ELSE EntryByLegacyFile(name)
<1>1. PICK url : url = ByPage(name)
    OBVIOUS
<1>2. url.kind = "page" /\ url.base = cached.base /\ url.log = cached.log /\ url.name = name
    BY <1>1 DEF ByPage
<1>3. StripBasePath(url)
    BY <1>2 DEF StripBasePath
<1>4. TryLegacyEntryHTML(url) =
          IF name.word = cached.prefix /\ EntryByLegacyID(name.n) # {}
          THEN EntryByLegacyID(name.n) ELSE EntryByLegacyFile(name)
    BY <1>2, <1>3 DEF TryLegacyEntryHTML
<1>5. EntriesAt(url) = TryLegacyEntryHTML(url)
    BY <1>2, ConfigRead DEF EntriesAt
<1>6. QED BY <1>1, <1>4, <1>5

(* An address of the old site leads to the copies that had it, and these    *)
(* are shown if they are published.                                         *)
THEOREM OldAddressesLand == ImporterSpec => []LegacyUrlsLand
<1>1. ASSUME ImportInv PROVE LegacyUrlsLand
    <2>1. LandOk(site)
        BY <1>1, InvParts
    <2> DEFINE file(e) == old.entries[e].file
               Static == cached = LoadLegacyConfig /\ mount = "/" /\ cached.type # "Monthly"
               Unshadowed(e) == file(e).word # cached.prefix \/ file(e).n \notin DOMAIN old.entries
               urls(e) == {ByQuery(e)} \cup (IF Static THEN {ById(e)} ELSE {})
                          \cup (IF Static /\ file(e) # NoName /\ Unshadowed(e) THEN {ByPage(file(e))} ELSE {})
               Lands(e) ==
                   \A url \in urls(e) :
                      /\ EntriesAt(url) # {}
                      /\ \A j \in EntriesAt(url) :
                            /\ \/ site.post[j].legacy = e
                               \/ url = ByPage(file(e)) /\ site.post[j].file = file(e)
                            /\ SlugNumber[site.post[j].slug] = 0 =>
                                  LET answer == Answer(AsRead, KeyOf(AsRead, j))
                                  IN /\ answer.entry \in {0, j}
                                     /\ answer.code = 200 <=> site.post[j].st = "published"
    <2>2. ASSUME NEW i \in Stored(site), site.post[i].legacy # NoRef, NEW e, e = site.post[i].legacy
          PROVE  \A url \in urls(e) :
                    /\ EntriesAt(url) # {}
                    /\ \A j \in EntriesAt(url) :
                          /\ j \in Stored(site)
                          /\ \/ site.post[j].legacy = e
                             \/ url = ByPage(file(e)) /\ site.post[j].file = file(e)
        <3>1. e \in DOMAIN old.entries /\ e # NoRef /\ site.post[i].file = file(e)
            BY <2>1, <2>2, Zenon DEF LandOk
        <3>2. /\ i \in EntryByLegacyID(e)
              /\ \A j \in EntryByLegacyID(e) : j \in Stored(site) /\ site.post[j].legacy = e
            BY <2>2, <3>1 DEF EntryByLegacyID
        <3>3. file(e) # NoName =>
                  /\ i \in EntryByLegacyFile(file(e))
                  /\ \A j \in EntryByLegacyFile(file(e)) :
                        j \in Stored(site) /\ site.post[j].file = file(e)
            BY <2>2, <3>1 DEF EntryByLegacyFile
        <3>4. EntriesAt(ByQuery(e)) = EntryByLegacyID(e)
            BY QueryLeads
        <3>5. ASSUME Static PROVE EntriesAt(ById(e)) = EntryByLegacyID(e)
            <4>1. PICK name : name = [word |-> LoadLegacyConfig.prefix, n |-> e]
                OBVIOUS
            <4>2. ById(e) = ByPage(name) /\ name.word = cached.prefix /\ name.n = e
                BY <3>5, <4>1 DEF ById
            <4>3. QED BY <3>2, <3>5, <4>2, PageLeads
        <3>6. ASSUME Static, file(e) # NoName, Unshadowed(e)
              PROVE  EntriesAt(ByPage(file(e))) = EntryByLegacyFile(file(e))
            <4>1. ~(file(e).word = cached.prefix /\ EntryByLegacyID(file(e).n) # {})
                BY <2>1, <3>6, LegacyIds
            <4>2. QED BY <3>6, <4>1, PageLeads
        <3>7. \A url \in urls(e) : \/ url = ByQuery(e)
                                   \/ Static /\ url = ById(e)
                                   \/ Static /\ file(e) # NoName /\ Unshadowed(e) /\ url = ByPage(file(e))
            OBVIOUS
        <3> HIDE DEF urls, Static, Unshadowed, file
        <3>8. QED BY <3>2, <3>3, <3>4, <3>5, <3>6, <3>7
    <2>3. ASSUME Static, NEW c \in Filing(site), site.cat[c].legacy # NoRef,
                 site.cat[c].dir \notin {"", cached.log}
          PROVE  c \in TryLegacyCategoryDir(ByDir(site.cat[c].dir))
        <3>1. PICK dir, url : dir = site.cat[c].dir /\ url = ByDir(dir)
            OBVIOUS
        <3>2. url.base = cached.base /\ url.log = dir
            BY <2>3, <3>1 DEF ByDir
        <3>3. StripBasePath(url)
            BY <2>3, <3>2 DEF StripBasePath
        <3>4. dir # cached.log
            BY <2>3, <3>1, Zenon
        <3>5. c \in CategoryByLegacyDir(dir)
            <4>1. dir # ""
                BY <2>3, <3>1, Zenon
            <4>2. QED BY <2>3, <3>1, <4>1, Zenon DEF CategoryByLegacyDir
        <3>6. QED BY <3>1, <3>2, <3>3, <3>4, <3>5, Zenon DEF TryLegacyCategoryDir
    <2>4. ASSUME NEW i \in Stored(site), site.post[i].legacy # NoRef
          PROVE  Lands(site.post[i].legacy)
        <3>1. \A j \in Stored(site) : SlugNumber[site.post[j].slug] = 0 =>
                  LET answer == Answer(AsRead, KeyOf(AsRead, j))
                  IN /\ answer.entry \in {0, j}
                     /\ answer.code = 200 <=> site.post[j].st = "published"
            BY <2>1, Shown
        <3>2. PICK e : e = site.post[i].legacy
            OBVIOUS
        <3> HIDE DEF urls, Static, Unshadowed, file
        <3>3. \A url \in urls(e) :
                 /\ EntriesAt(url) # {}
                 /\ \A j \in EntriesAt(url) :
                       /\ j \in Stored(site)
                       /\ \/ site.post[j].legacy = e
                          \/ url = ByPage(file(e)) /\ site.post[j].file = file(e)
            BY <2>2, <2>4, <3>2
        <3>4. Lands(e)
            BY <3>1, <3>3
        <3> HIDE DEF Lands
        <3>5. QED BY <3>2, <3>4
    <2>5. Static => \A c \in Filing(site) :
              site.cat[c].legacy # NoRef /\ site.cat[c].dir \notin {"", cached.log}
              => c \in TryLegacyCategoryDir(ByDir(site.cat[c].dir))
        BY <2>3, Zenon
    <2>6. QED BY <2>4, <2>5, Zenon DEF LegacyUrlsLand
<1>2. QED BY <1>1, ImporterAlways, PTL

-----------------------------------------------------------------------------
(***************************************************************************)
(* The parts side by side.  What MCReading runs, with one part in focus    *)
(* and over the tables it names, is behaviours of the specifications of    *)
(* the parts, so the theorems above hold of it.                            *)
(***************************************************************************)
THEOREM ReadingRunsTheParts == Spec => ReadingSpec /\ SnapshotSpec /\ ImporterSpec
<1>1. Init => ReadingInit /\ SnapshotInit /\ ImporterInit
    <2>1. ASSUME NEW from \in LegacySites, StartOf(from, "/", 0) PROVE ImporterInit
        BY <2>1, AnyOldSiteAssumption, Zenon DEF ImporterInit
    <2>2. (CHOOSE from \in LegacySites : TRUE) \in LegacySites
        BY AnyOldSiteAssumption
    <2>3. QED BY <2>1, <2>2, Zenon DEF Init
<1>2. [Next]_<<focus, readingVars, snapshotVars, importerVars>>
          => /\ [ReadingNext]_readingVars
             /\ [SnapshotNext]_<<readingVars, snapshotVars>>
             /\ [ImporterStep]_importerVars
    BY Zenon DEF Next, SnapshotNext, ReadingBeside
<1>3. QED BY <1>1, <1>2, PTL DEF Spec, ReadingSpec, SnapshotSpec, ImporterSpec

(***************************************************************************)
(* The parts side by side: every variable of each stays in its domain.     *)
(***************************************************************************)
THEOREM TypeCorrect == Spec => []TypeOk
<1>1. ReadingTypeOk /\ SnapshotTypeOk /\ ImporterTypeOk => TypeOk
    BY Zenon DEF TypeOk
<1>2. QED BY <1>1, ReadingRunsTheParts, ReadingTypeCorrect, SnapshotTypeCorrect,
             ImporterTypeCorrect, PTL
=============================================================================
