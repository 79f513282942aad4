---------------------------- MODULE CatalogueProofs ----------------------------
(***************************************************************************)
(* Proofs about the pages and the tree that users look at while the tables *)
(* change, for any rows, searches, changes and timeouts, and about the     *)
(* patterns they search with.                                              *)
(***************************************************************************)
EXTENDS Catalogue, GlobProofs, FiniteSetTheorems

-----------------------------------------------------------------------------
(* Rows in their order.                                                    *)

(* The rows that come before a row, and how many they are.                 *)
Before(s, rows, r) == {t \in rows : Ahead(Position(s, t), Position(s, r))}
Rank(s, rows, r) == Cardinality(Before(s, rows, r))

(* Every row has a place.                                                  *)
Placed(s, rows) == \A r \in rows : Position(s, r)[1] \in Nat

LEMMA RankIsNumber ==
  ASSUME NEW s, NEW rows, IsFiniteSet(rows), NEW r
  PROVE  IsFiniteSet(Before(s, rows, r)) /\ Rank(s, rows, r) \in Nat
<1>1. Before(s, rows, r) \in SUBSET rows
  BY DEF Before
<1>2. QED
  BY <1>1, FS_Subset, FS_CardinalityType DEF Rank

LEMMA ArtifactsPlaced ==
  ASSUME TablesAssumption, NEW s, NEW rows \in SUBSET Artifacts
  PROVE  Placed(s, rows)
<1>1. \A r \in rows : r.place \in Nat /\ IdPlace(r.id) \in Nat
  BY DEF TablesAssumption, IdPlace
<1>2. QED
  BY <1>1 DEF Placed, Position

LEMMA FirstNumbers ==
  ASSUME NEW n \in Nat
  PROVE  IsFiniteSet(1..n) /\ Cardinality(1..n) = n
BY FS_Interval

(* Two rows that do not tie come one after the other.                      *)
LEMMA OneIsAhead ==
  ASSUME NEW s, NEW rows, Placed(s, rows), ~Ties(s, rows),
         NEW r \in rows, NEW t \in rows, r # t
  PROVE  /\ Ahead(Position(s, r), Position(s, t)) \/ Ahead(Position(s, t), Position(s, r))
         /\ ~(Ahead(Position(s, r), Position(s, t)) /\ Ahead(Position(s, t), Position(s, r)))
<1> DEFINE p == Position(s, r)
           q == Position(s, t)
<1>1. p # q
  BY DEF Ties
<1>2. p = <<p[1], p[2]>> /\ q = <<q[1], q[2]>> /\ p[2] \in {1, 2} /\ q[2] \in {1, 2}
  BY DEF Position, TypePlace
<1>3. p[1] \in Nat /\ q[1] \in Nat
  BY DEF Placed
<1> HIDE DEF p, q
<1>4. p[1] # q[1] \/ p[2] # q[2]
  BY <1>1, <1>2
<1>5. (Ahead(p, q) \/ Ahead(q, p)) /\ ~(Ahead(p, q) /\ Ahead(q, p))
  BY <1>2, <1>3, <1>4 DEF Ahead
<1>6. QED
  BY <1>5 DEF p, q

LEMMA NotAheadOfItself == ASSUME NEW s, NEW rows, Placed(s, rows), NEW r \in rows
                          PROVE  ~Ahead(Position(s, r), Position(s, r))
<1>1. Position(s, r)[1] \in Nat /\ Position(s, r)[2] \in Nat
  BY DEF Placed, Position, TypePlace
<1>2. QED
  BY <1>1 DEF Ahead

(* In the order in which the database yields the rows each has its place.  *)
LEMMA OrderRanks ==
  ASSUME NEW s, NEW rows, IsFiniteSet(rows), Placed(s, rows), ~Ties(s, rows),
         NEW order \in Orders(s, rows)
  PROVE  /\ order \in Seq(rows)
         /\ \A r \in rows : \E i \in 1..Len(order) : order[i] = r
         /\ \A i \in 1..Len(order) : Rank(s, rows, order[i]) = i - 1
<1> DEFINE n == Cardinality(rows)
<1>1. n \in Nat
  BY FS_CardinalityType
<1>2. /\ order \in [1..n -> rows]
      /\ \A i, j \in 1..n : i # j => order[i] # order[j]
  BY DEF Orders, SetToSeqs
<1>3. \A i, j \in 1..n : i < j => ~Ahead(Position(s, order[j]), Position(s, order[i]))
  BY <1>2 DEF Orders
<1>4. order \in Seq(rows) /\ Len(order) = n
  BY <1>1, <1>2
<1>5. \A r \in rows : \E i \in 1..n : order[i] = r
  <2>1. order \in Injection(1..n, rows)
    BY <1>2 DEF Injection, IsInjective
  <2>2. Cardinality(1..n) = n
    BY <1>1, FirstNumbers
  <2>3. order \in Surjection(1..n, rows)
    <3> HIDE DEF n
    <3>1. Cardinality(1..n) = Cardinality(rows)
      BY <2>2 DEF n
    <3>2. \A S, T : \A f \in Injection(S, T) :
            IsFiniteSet(T) /\ Cardinality(S) = Cardinality(T) => f \in Surjection(S, T)
      BY FS_Injection
    <3>3. QED
      BY <2>1, <3>1, <3>2
  <2>4. QED
    BY <2>3 DEF Surjection
<1> HIDE DEF n
<1>6. ASSUME NEW i \in 1..n PROVE Rank(s, rows, order[i]) = i - 1
  <2> DEFINE f == [j \in 1..(i - 1) |-> order[j]]
             B == Before(s, rows, order[i])
  <2>1. i \in Nat /\ i - 1 \in Nat /\ 1..(i - 1) \subseteq 1..n
    BY <1>1
  <2>2. ASSUME NEW j \in 1..(i - 1) PROVE order[j] \in B
    <3>1. j \in 1..n /\ j < i /\ order[j] \in rows /\ order[i] \in rows /\ order[j] # order[i]
      BY <1>1, <1>2
    <3>2. Ahead(Position(s, order[j]), Position(s, order[i]))
      BY <1>3, <3>1, OneIsAhead
    <3>3. QED
      BY <3>1, <3>2 DEF Before
  <2>3. ASSUME NEW t \in B PROVE \E j \in 1..(i - 1) : order[j] = t
    <3>1. t \in rows /\ Ahead(Position(s, t), Position(s, order[i]))
      BY DEF Before
    <3>2. PICK j \in 1..n : order[j] = t
      BY <1>5, <3>1
    <3>3. j # i
      BY <1>2, <3>1, <3>2, NotAheadOfItself
    <3>4. ~(i < j)
      BY <1>3, <3>1, <3>2
    <3>5. j \in 1..(i - 1)
      BY <1>1, <3>3, <3>4
    <3>6. QED
      BY <3>2, <3>5
  <2>4. f \in Bijection(1..(i - 1), B)
    <3> HIDE DEF B
    <3>1. f \in [1..(i - 1) -> B]
      BY <2>2
    <3>2. \A a, b \in 1..(i - 1) : f[a] = f[b] => a = b
      BY <1>2, <2>1
    <3>3. \A t \in B : \E a \in 1..(i - 1) : f[a] = t
      BY <2>3
    <3> HIDE DEF f
    <3>4. QED
      BY <3>1, <3>2, <3>3 DEF Bijection, Injection, Surjection, IsInjective
  <2> HIDE DEF B, f
  <2>5. ExistsBijection(1..(i - 1), B)
    BY <2>4 DEF ExistsBijection
  <2>6. \A m \in Nat : ExistsBijection(1..m, B) => Cardinality(B) = m
    BY FS_CountingElements
  <2>7. QED
    BY <2>1, <2>5, <2>6 DEF B, Rank
<1>7. QED
  BY <1>4, <1>5, <1>6

(* A row that replaces one of the same place, or none, takes no row before *)
(* another one away.                                                       *)
LEMMA RankGrows ==
  ASSUME NEW s, NEW rows, NEW after, IsFiniteSet(rows), IsFiniteSet(after),
         NEW row, row \notin rows,
         \/ rows \subseteq after
         \/ \E o \in rows : /\ rows \ {o} \subseteq after /\ row \in after
                           /\ Position(s, o) = Position(s, row),
         NEW r
  PROVE  Rank(s, after, r) >= Rank(s, rows, r)
<1> DEFINE B == Before(s, rows, r)
           A == Before(s, after, r)
<1>1. IsFiniteSet(A) /\ IsFiniteSet(B) /\ Cardinality(A) \in Nat /\ Cardinality(B) \in Nat
  BY RankIsNumber DEF Rank
<1>2. CASE B \subseteq A
  BY <1>1, <1>2, FS_Subset DEF Rank
<1>3. CASE ~(B \subseteq A)
  <2>1. PICK o \in rows : /\ rows \ {o} \subseteq after /\ row \in after
                          /\ Position(s, o) = Position(s, row)
    BY <1>3 DEF Before
  <2>2. o \in B /\ B \ {o} \subseteq A /\ row \in A /\ row \notin B
    BY <1>3, <2>1 DEF Before
  <2> HIDE DEF A, B
  <2> DEFINE C == B \ {o}
             D == C \cup {row}
  <2>3. IsFiniteSet(C) /\ Cardinality(C) = Cardinality(B) - 1
    BY <1>1, <2>2, FS_RemoveElement
  <2>4. row \notin C /\ D \subseteq A
    BY <2>2
  <2> HIDE DEF C
  <2>5. Cardinality(D) = Cardinality(C) + 1
    BY <2>3, <2>4, FS_AddElement
  <2> HIDE DEF D
  <2>6. Cardinality(D) <= Cardinality(A)
    BY <1>1, <2>4, FS_Subset
  <2>7. Cardinality(A) >= Cardinality(B)
    BY <1>1, <2>3, <2>5, <2>6
  <2>8. QED
    BY <2>7 DEF A, B, Rank
<1>4. QED
  BY <1>2, <1>3

-----------------------------------------------------------------------------
(* One page.                                                               *)

(* What is on it are the next n rows of the order; an answer that is       *)
(* complete has the last of them, after one that is not the client goes on *)
(* behind them or, if there are none, there or at the start.               *)
Yields(page, order, offset, n) ==
  /\ {page.results[i] : i \in DOMAIN page.results}
       = {order[i] : i \in (offset + 1)..(offset + n)}
  /\ n > 0 => offset + n <= Len(order)
  /\ page.complete \in BOOLEAN
  /\ page.complete => offset + n >= Len(order)
  /\ ~page.complete => page.next = offset + n \/ (n = 0 /\ page.next = 0)
  /\ page.next \in Nat

(* collectMetadata yields some number of rows.                             *)
LEMMA PageFacts ==
  ASSUME NEW S, NEW order \in Seq(S), NEW offset \in Nat, NEW limit \in Nat,
         NEW timedOut \in BOOLEAN, NEW seen \in 0..Len(order),
         ~timedOut => seen = Len(order),
         NEW page, page = Page(order, offset, limit, timedOut, seen)
  PROVE  \E n \in Nat : Yields(page, order, offset, n)
<1> DEFINE rest == SubSeq(order, offset + 1, seen)
           more == limit > 0 /\ Len(rest) > limit
           results == IF more THEN SubSeq(rest, 1, limit) ELSE rest
           complete == ~more /\ ~timedOut
           next == IF complete THEN 0 ELSE NextOffset(offset, limit, results)
<1>1. page = [results |-> results, complete |-> complete, next |-> next]
  BY DEF Page
<1>2. page.results = results /\ page.complete = complete /\ page.next = next
  BY <1>1
<1>3. Len(order) \in Nat /\ seen \in Nat /\ seen <= Len(order)
  OBVIOUS
<1>4. /\ rest \in Seq(S)
      /\ Len(rest) = IF seen >= offset THEN seen - offset ELSE 0
      /\ \A i \in 1..Len(rest) : rest[i] = order[offset + i]
  BY <1>3
<1> HIDE DEF rest
<1>5. /\ results \in Seq(S) /\ Len(results) = IF more THEN limit ELSE Len(rest)
      /\ \A i \in 1..Len(results) : results[i] = order[offset + i]
  <2>1. CASE more
    <3>1. /\ results \in Seq(S) /\ Len(results) = limit
          /\ \A i \in 1..limit : results[i] = rest[i]
      BY <1>4, <2>1
    <3>2. \A i \in 1..limit : i \in 1..Len(rest)
      BY <1>3, <1>4, <2>1
    <3> HIDE DEF results
    <3>3. QED
      BY <1>4, <2>1, <3>1, <3>2
  <2>2. CASE ~more
    BY <1>4, <2>2
  <2>3. QED
    BY <2>1, <2>2
<1> DEFINE n == Len(results)
<1>6. n \in Nat /\ (n > 0 => offset + n <= Len(order))
  BY <1>3, <1>4, <1>5
<1>7. complete => offset + n >= Len(order)
  BY <1>3, <1>4, <1>5
<1>8. /\ ~complete => next = offset + n \/ (n = 0 /\ next = 0)
      /\ next \in Nat
  <2>1. n \in Nat /\ (results = <<>> => n = 0)
    BY <1>6
  <2> HIDE DEF n, complete, results
  <2>2. NextOffset(offset, limit, results) = offset + Len(results)
          \/ (results = <<>> /\ NextOffset(offset, limit, results) = 0)
    BY DEF NextOffset
  <2>3. QED
    BY <2>1, <2>2 DEF n
<1>9. complete \in BOOLEAN
  OBVIOUS
<1>10. {results[i] : i \in DOMAIN results} = {order[i] : i \in (offset + 1)..(offset + n)}
  <2> HIDE DEF results
  <2>1. DOMAIN results = 1..n
    BY <1>5
  <2>2. ASSUME NEW i \in 1..n
        PROVE  results[i] = order[offset + i] /\ offset + i \in (offset + 1)..(offset + n)
    BY <1>5, <1>6
  <2>3. ASSUME NEW j \in (offset + 1)..(offset + n)
        PROVE  j - offset \in 1..n /\ offset + (j - offset) = j
    BY <1>6
  <2> HIDE DEF n
  <2>4. ASSUME NEW j \in (offset + 1)..(offset + n)
        PROVE  \E i \in 1..n : results[i] = order[j]
    BY <2>2, <2>3
  <2>5. {results[i] : i \in 1..n} \subseteq {order[i] : i \in (offset + 1)..(offset + n)}
    BY <2>2
  <2>6. {order[i] : i \in (offset + 1)..(offset + n)} \subseteq {results[i] : i \in 1..n}
    BY <2>4, ZenonT(20)
  <2>7. QED
    BY <2>1, <2>5, <2>6
<1> HIDE DEF n, results, complete, next
<1>11. Yields(page, order, offset, n)
  BY <1>2, <1>6, <1>7, <1>8, <1>9, <1>10 DEF Yields
<1>12. QED
  BY <1>6, <1>11

-----------------------------------------------------------------------------
(* The invariant about pages.                                              *)

TableInv ==
  /\ table \subseteq Artifacts /\ IsFiniteSet(table)
  /\ \A r, t \in table : Same(r, t) => r = t

UserRecord ==
  user = [step |-> user.step, seen |-> user.seen, moved |-> user.moved,
          grown |-> user.grown, search |-> user.search, offset |-> user.offset,
          later |-> user.later, got |-> user.got, twice |-> user.twice,
          rewound |-> user.rewound, query |-> user.query, found |-> user.found,
          shown |-> user.shown]

Kept == {r \in table : Keeps(user.search, r)}
RankOf(r) == Rank(user.search, Kept, r)
KeyOf(r) == <<r.id, r.type>>

(* A row that was there all the time is on a page or still to come.        *)
Coming ==
  ~user.moved => \A r \in user.seen :
    KeyOf(r) \in user.got \/ (At("page") /\ RankOf(r) >= user.offset)

(* What was got while nothing changed comes before what is still to come.  *)
Passed ==
  ~user.grown /\ ~user.moved /\ ~user.rewound =>
    /\ ~user.twice
    /\ At("page") => \A k \in user.got : \E r \in Kept : KeyOf(r) = k /\ RankOf(r) < user.offset

PagingInv ==
  Paging => /\ user.search \in Searches /\ user.offset \in Nat
            /\ user.moved \in BOOLEAN /\ user.twice \in BOOLEAN /\ user.rewound \in BOOLEAN
            /\ user.seen \subseteq Kept /\ Coming /\ Passed

PagesInv == TableInv /\ UserRecord /\ PagingInv

LEMMA LimitIsNumber ==
  ASSUME ListingAssumption, TablesAssumption, NEW s \in Searches, NEW later
  PROVE  LimitOf(s.via, later, s.limit) \in Nat
BY DEF ListingAssumption, TablesAssumption, LimitOf

(* A page is taken.                                                        *)
LEMMA PageTaken ==
  ASSUME ListingAssumption, TablesAssumption, PagesInv, At("page"), UNCHANGED table,
         NEW order \in Orders(user.search, Kept), NEW timedOut \in BOOLEAN,
         NEW seen \in 0..Len(order), ~timedOut => seen = Len(order),
         TakePage(Page(order, user.offset, LimitOf(user.search.via, user.later,
                       user.search.limit), timedOut, seen), Kept)
  PROVE  PagesInv'
<1> DEFINE s == user.search
           offset == user.offset
           page == Page(order, offset, LimitOf(s.via, user.later, s.limit), timedOut, seen)
           keys == Keys({page.results[i] : i \in DOMAIN page.results})
<1>1. /\ s \in Searches /\ offset \in Nat /\ user.seen \subseteq Kept /\ Coming /\ Passed
      /\ UserRecord /\ TableInv
      /\ user.moved \in BOOLEAN /\ user.twice \in BOOLEAN /\ user.rewound \in BOOLEAN
  BY DEF PagesInv, PagingInv, Paging
<1>2. /\ UserRecord'
      /\ user'.step = IF page.complete THEN "paged" ELSE "page"
      /\ user'.offset = page.next /\ user'.got = user.got \cup keys
      /\ user'.twice = (user.twice \/ keys \cap user.got # {})
      /\ user'.moved = (user.moved \/ Ties(s, Kept))
      /\ user'.rewound = (user.rewound \/ (~page.complete /\ page.next < offset))
      /\ user'.search = s /\ user'.seen = user.seen /\ user'.grown = user.grown
  <2> HIDE DEF page
  <2>1. user' = [user EXCEPT
          !.step = IF page.complete THEN "paged" ELSE "page",
          !.offset = page.next, !.later = TRUE,
          !.got = @ \cup keys, !.twice = @ \/ keys \cap user.got # {},
          !.moved = @ \/ Ties(user.search, Kept),
          !.rewound = @ \/ (~page.complete /\ page.next < user.offset)]
    BY DEF TakePage, page
  <2> HIDE DEF keys
  <2>2. QED
    BY <1>1, <2>1 DEF UserRecord
<1> HIDE DEF page
<1>3. Kept' = Kept
  BY <1>2 DEF Kept
<1>4. IsFiniteSet(Kept) /\ Placed(s, Kept)
  BY <1>1, FS_Subset, ArtifactsPlaced DEF Kept, TableInv
<1>5. PICK n \in Nat : Yields(page, order, offset, n)
  <2>1. order \in Seq(Kept)
    <3>1. order \in [1..Cardinality(Kept) -> Kept] /\ Cardinality(Kept) \in Nat
      BY <1>4, FS_CardinalityType DEF Orders, SetToSeqs
    <3>2. QED
      BY <3>1
  <2>2. QED
    <3> DEFINE limit == LimitOf(s.via, user.later, s.limit)
    <3>1. limit \in Nat
      BY <1>1, LimitIsNumber
    <3> HIDE DEF limit
    <3>2. page = Page(order, offset, limit, timedOut, seen)
      BY DEF page, limit
    <3>3. offset \in Nat /\ (~timedOut => seen = Len(order))
      BY <1>1
    <3> HIDE DEF s, offset
    <3>4. QED
      BY <2>1, <3>1, <3>2, <3>3, PageFacts
<1>6. /\ {page.results[i] : i \in DOMAIN page.results}
           = {order[i] : i \in (offset + 1)..(offset + n)}
      /\ n > 0 => offset + n <= Len(order)
      /\ page.complete \in BOOLEAN
      /\ page.complete => offset + n >= Len(order)
      /\ ~page.complete => page.next = offset + n \/ (n = 0 /\ page.next = 0)
      /\ page.next \in Nat
  BY <1>5 DEF Yields
<1>7. ASSUME ~user'.moved
      PROVE  /\ \A r \in Kept : \E i \in 1..Len(order) : order[i] = r
             /\ \A i \in 1..Len(order) : order[i] \in Kept /\ RankOf(order[i]) = i - 1
             /\ \A i \in (offset + 1)..(offset + n) : i \in 1..Len(order)
             /\ Len(order) \in Nat
             /\ keys = {KeyOf(order[i]) : i \in (offset + 1)..(offset + n)}
             /\ ~user.moved
  <2>1. ~Ties(s, Kept) /\ ~user.moved
    BY <1>2, <1>7
  <2>2. /\ order \in Seq(Kept)
        /\ \A r \in Kept : \E i \in 1..Len(order) : order[i] = r
        /\ \A i \in 1..Len(order) : RankOf(order[i]) = i - 1
    BY <1>4, <2>1, OrderRanks DEF RankOf
  <2>3. \A i \in (offset + 1)..(offset + n) : i \in 1..Len(order)
    <3>1. offset \in Nat /\ Len(order) \in Nat
      BY <1>1, <2>2
    <3> HIDE DEF offset
    <3>2. QED
      BY <1>6, <3>1
  <2>4. keys = {KeyOf(order[i]) : i \in (offset + 1)..(offset + n)}
    <3>1. keys = {KeyOf(r) : r \in {order[i] : i \in (offset + 1)..(offset + n)}}
      BY <1>6 DEF Keys, KeyOf
    <3>2. QED
      BY <3>1
  <2>5. Len(order) \in Nat /\ \A i \in 1..Len(order) : order[i] \in Kept
    BY <2>2
  <2> HIDE DEF keys
  <2>6. QED
    BY <2>1, <2>2, <2>3, <2>4, <2>5
<1>8. user'.seen \subseteq Kept'
  BY <1>1, <1>2, <1>3
<1> HIDE DEF keys
<1>9. Coming'
  <2> SUFFICES ASSUME ~user'.moved, NEW r \in user.seen, KeyOf(r) \notin user'.got
               PROVE  user'.step = "page" /\ RankOf(r) >= user'.offset
    BY <1>2, <1>3 DEF Coming, At, RankOf
  <2>1. r \in Kept /\ KeyOf(r) \notin keys /\ RankOf(r) >= offset
    BY <1>1, <1>2, <1>7 DEF Coming
  <2>2. PICK i \in 1..Len(order) : order[i] = r /\ RankOf(r) = i - 1
    BY <1>7, <2>1
  <2>3. i \notin (offset + 1)..(offset + n)
    BY <1>7, <2>1, <2>2
  <2>4. i \in Nat /\ i > offset + n /\ Len(order) \in Nat
    <3>1. offset \in Nat /\ i - 1 >= offset /\ Len(order) \in Nat /\ i \in Nat
      BY <1>1, <1>7, <2>1, <2>2
    <3> HIDE DEF offset
    <3>2. QED
      BY <2>3, <3>1
  <2>5. ~page.complete
    BY <1>1, <1>6, <2>2, <2>4
  <2>6. QED
    BY <1>1, <1>2, <1>6, <2>2, <2>4, <2>5
<1>10. Passed'
  <2> SUFFICES ASSUME ~user'.grown, ~user'.moved, ~user'.rewound
               PROVE  /\ ~user'.twice
                      /\ user'.step = "page" =>
                           \A k \in user'.got : \E r \in Kept :
                             KeyOf(r) = k /\ RankOf(r) < user'.offset
    BY <1>2, <1>3 DEF Passed, At, RankOf
  <2>1. /\ ~user.twice
        /\ \A k \in user.got : \E r \in Kept : KeyOf(r) = k /\ RankOf(r) < offset
    BY <1>1, <1>2, <1>7 DEF Passed
  <2>2. keys \cap user.got = {}
    <3> SUFFICES ASSUME NEW k \in keys, k \in user.got PROVE FALSE
      OBVIOUS
    <3>1. PICK r \in Kept : KeyOf(r) = k /\ RankOf(r) < offset
      BY <2>1
    <3>2. PICK i \in (offset + 1)..(offset + n) : KeyOf(order[i]) = k
      BY <1>7
    <3>3. i \in 1..Len(order) /\ order[i] \in Kept /\ RankOf(order[i]) = i - 1
      BY <1>7, <3>2
    <3>4. order[i] = r
      BY <1>1, <3>1, <3>2, <3>3 DEF KeyOf, TableInv, Same, Kept
    <3>5. QED
      BY <1>1, <3>1, <3>2, <3>3, <3>4
  <2>3. ASSUME user'.step = "page", NEW k \in user'.got
        PROVE  \E r \in Kept : KeyOf(r) = k /\ RankOf(r) < user'.offset
    <3>1. ~page.complete /\ user'.offset = page.next /\ ~(page.next < offset)
      BY <1>2, <2>3
    <3>2. user'.offset = offset + n
      BY <1>1, <1>6, <3>1
    <3>3. CASE k \in user.got
      <4>1. PICK r \in Kept : KeyOf(r) = k /\ RankOf(r) < offset
        BY <2>1, <3>3
      <4>2. RankOf(r) \in Nat
        BY <1>4, RankIsNumber DEF RankOf
      <4>3. QED
        BY <1>1, <3>2, <4>1, <4>2
    <3>4. CASE k \in keys
      <4>1. PICK i \in (offset + 1)..(offset + n) : KeyOf(order[i]) = k
        BY <1>7, <3>4
      <4>2. order[i] \in Kept /\ RankOf(order[i]) = i - 1
        BY <1>7, <4>1
      <4>3. QED
        BY <1>1, <3>2, <4>1, <4>2
    <3>5. QED
      BY <1>2, <2>3, <3>3, <3>4
  <2>4. QED
    BY <1>2, <2>1, <2>2, <2>3
<1>11. TableInv'
  BY <1>1 DEF TableInv
<1>12. QED
  BY <1>1, <1>2, <1>6, <1>8, <1>9, <1>10, <1>11 DEF PagesInv, PagingInv

(* A row of the index is written.                                          *)
LEMMA ArtifactWritten ==
  ASSUME PagesInv, NEW row \in Artifacts, WriteArtifact(row)
  PROVE  PagesInv'
<1> DEFINE old == {r \in table : Same(r, row)}
           s == user.search
<1>1. TableInv /\ UserRecord /\ PagingInv
  BY DEF PagesInv
<1>2. /\ row \notin table /\ table' = (table \ old) \cup {row}
      /\ user' = [user EXCEPT !.seen = @ \ old, !.grown = TRUE,
                              !.moved = @ \/ Leaves(old, row)]
  BY DEF WriteArtifact, Upserted
<1>3. /\ UserRecord' /\ user'.step = user.step /\ user'.search = s
      /\ user'.seen = user.seen \ old /\ user'.grown = TRUE
      /\ user'.moved = (user.moved \/ Leaves(old, row))
      /\ user'.offset = user.offset /\ user'.got = user.got
      /\ user'.twice = user.twice /\ user'.rewound = user.rewound
  <2> HIDE DEF old
  <2>1. QED
    BY <1>1, <1>2 DEF UserRecord
<1>4. TableInv'
  <2>1. IsFiniteSet(table \ old) /\ row \notin table \ old
    BY <1>1, <1>2, FS_Subset DEF TableInv
  <2>2. IsFiniteSet(table')
    BY <1>2, <2>1, FS_AddElement
  <2>3. \A r, t \in table' : Same(r, t) => r = t
    BY <1>1, <1>2 DEF TableInv, Same
  <2>4. QED
    BY <1>1, <1>2, <2>2, <2>3 DEF TableInv
<1>5. ASSUME Paging PROVE PagingInv'
  <2>1. /\ s \in Searches /\ user.offset \in Nat
        /\ user.moved \in BOOLEAN /\ user.twice \in BOOLEAN /\ user.rewound \in BOOLEAN
        /\ user.seen \subseteq Kept /\ Coming
    BY <1>1, <1>5 DEF PagingInv
  <2>2. user'.seen \subseteq Kept'
    BY <1>2, <1>3, <2>1 DEF Kept
  <2>3. user'.moved \in BOOLEAN
    BY <1>3, <2>1 DEF Leaves
  <2>4. Passed'
    BY <1>3 DEF Passed
  <2>5. IsFiniteSet(Kept) /\ IsFiniteSet(Kept') /\ row \notin Kept
    BY <1>1, <1>2, <1>4, FS_Subset DEF Kept, TableInv
  <2>6. ASSUME ~user'.moved
        PROVE  \/ Kept \subseteq Kept'
               \/ \E o \in Kept : /\ Kept \ {o} \subseteq Kept' /\ row \in Kept'
                                  /\ Position(s, o) = Position(s, row)
    <3>1. ~Leaves(old, row)
      BY <1>3, <2>6
    <3>2. CASE \E o \in old : Keeps(s, o)
      <4>1. PICK o \in old : Keeps(s, o)
        BY <3>2
      <4>2. Keeps(s, row) /\ Position(s, o) = Position(s, row)
        BY <1>5, <3>1, <4>1 DEF Leaves
      <4>3. old = {o}
        BY <1>1, <4>1 DEF TableInv, Same
      <4> HIDE DEF old
      <4>4. o \in Kept /\ Kept \ {o} \subseteq Kept' /\ row \in Kept'
        <5>1. o \in table
          BY <4>1 DEF old
        <5>2. QED
          BY <1>2, <1>3, <4>1, <4>2, <4>3, <5>1 DEF Kept
      <4>5. QED
        BY <4>2, <4>4
    <3>3. CASE ~\E o \in old : Keeps(s, o)
      BY <1>2, <1>3, <3>3 DEF Kept
    <3>4. QED
      BY <3>2, <3>3
  <2>7. Coming'
    <3> SUFFICES ASSUME ~user'.moved, NEW r \in user'.seen, KeyOf(r) \notin user'.got
                 PROVE  At("page")' /\ RankOf(r)' >= user'.offset
      BY DEF Coming
    <3>1. At("page") /\ RankOf(r) >= user.offset
      BY <1>3, <2>1 DEF Coming
    <3>2. Rank(s, Kept', r) >= Rank(s, Kept, r)
      BY <2>5, <2>6, RankGrows
    <3>3. Rank(s, Kept', r) \in Nat /\ Rank(s, Kept, r) \in Nat
      BY <2>5, RankIsNumber
    <3>4. QED
      BY <1>3, <2>1, <3>1, <3>2, <3>3 DEF At, RankOf
  <2>8. QED
    BY <1>3, <2>1, <2>2, <2>3, <2>4, <2>7 DEF PagingInv
<1>6. ASSUME ~Paging PROVE PagingInv'
  BY <1>3, <1>6 DEF PagingInv, Paging, At
<1>7. QED
  BY <1>3, <1>4, <1>5, <1>6 DEF PagesInv

(* The rows of the search are what they were.                              *)
LEMMA PagingKept ==
  ASSUME PagesInv, UNCHANGED table, UserRecord', user'.step = user.step,
         user'.search = user.search, user'.seen \subseteq user.seen,
         user'.moved = user.moved, user'.grown = user.grown, user'.got = user.got,
         user'.offset = user.offset, user'.twice = user.twice,
         user'.rewound = user.rewound
  PROVE  PagesInv'
<1>1. TableInv' /\ Kept' = Kept
  BY DEF PagesInv, TableInv, Kept
<1>2. PagingInv'
  <2> SUFFICES ASSUME Paging' PROVE PagingInv'
    BY DEF PagingInv
  <2>1. Paging /\ PagingInv
    BY DEF Paging, At, PagesInv
  <2>2. Coming' /\ Passed'
    BY <1>1, <2>1 DEF PagingInv, Coming, Passed, At, RankOf
  <2>3. QED
    BY <1>1, <2>1, <2>2 DEF PagingInv
<1>3. QED
  BY <1>1, <1>2 DEF PagesInv

(* A client asks for its first page.                                       *)
LEMMA PagingStarted ==
  ASSUME PagesInv, NEW s \in Searches, StartPaging(s)
  PROVE  PagesInv'
<1>1. /\ user' = [NoUser EXCEPT !.step = "page", !.search = s,
                               !.seen = {r \in table : Keeps(s, r)}]
      /\ table' = table
  BY DEF StartPaging
<1>2. /\ UserRecord' /\ user'.step = "page" /\ user'.search = s /\ user'.offset = 0
      /\ user'.seen = Kept' /\ user'.got = {} /\ ~user'.moved /\ ~user'.twice
      /\ user'.moved \in BOOLEAN /\ user'.twice \in BOOLEAN /\ user'.rewound \in BOOLEAN
  BY <1>1 DEF NoUser, UserRecord, Kept
<1>3. TableInv' /\ IsFiniteSet(Kept')
  BY <1>1, FS_Subset DEF PagesInv, TableInv, Kept
<1>4. Coming'
  <2>1. \A r \in user'.seen : RankOf(r)' \in Nat
    BY <1>3, RankIsNumber DEF RankOf
  <2>2. QED
    BY <1>2, <2>1 DEF Coming, At
<1>5. Passed'
  BY <1>2 DEF Passed
<1>6. QED
  BY <1>2, <1>3, <1>4, <1>5 DEF PagesInv, PagingInv

-----------------------------------------------------------------------------
LEMMA PagesInvInit == ASSUME AtFirstAssumption, Init PROVE PagesInv
<1>1. TableInv
  BY DEF AtFirstAssumption, Init, TableInv, Same
<1>2. UserRecord /\ ~Paging
  BY DEF Init, NoUser, UserRecord, Paging, At
<1>3. QED
  BY <1>1, <1>2 DEF PagesInv, PagingInv

(* A user who does not ask for pages.                                      *)
LEMMA NotPaging ==
  ASSUME PagesInv, UNCHANGED table, UserRecord', ~Paging'
  PROVE  PagesInv'
BY DEF PagesInv, TableInv, PagingInv

LEMMA PagesInvNext ==
  ASSUME ListingAssumption, TablesAssumption, PagesInv, [Next]_vars
  PROVE  PagesInv'
<1> USE DEF PagesInv
<1>1. ASSUME NEW row \in Artifacts, WriteArtifact(row) PROVE PagesInv'
  BY <1>1, ArtifactWritten
<1>2. ASSUME NEW row \in DedupFiles, WriteDedup(row) PROVE PagesInv'
  <2> DEFINE seen == {d \in user.seen : d \notin dedup \/ d.path # row.path}
  <2>1. table' = table /\ user' = [user EXCEPT !.seen = seen] /\ seen \subseteq user.seen
    BY <1>2 DEF WriteDedup
  <2> HIDE DEF seen
  <2>2. QED
    BY <2>1, PagingKept DEF UserRecord
<1>3. ASSUME NEW s \in Searches, StartPaging(s) PROVE PagesInv'
  BY <1>3, PagingStarted
<1>4. ASSUME GetPage PROVE PagesInv'
  <2> DEFINE limit == LimitOf(user.search.via, user.later, user.search.limit)
  <2>1. PICK order \in Orders(user.search, Kept) :
          \/ TakePage(Page(order, user.offset, limit, FALSE, Len(order)), Kept)
          \/ \E seen \in 0..Len(order) :
               TakePage(Page(order, user.offset, limit, TRUE, seen), Kept)
    BY <1>4 DEF GetPage, Kept
  <2>2. At("page") /\ table' = table
    BY <1>4 DEF GetPage
  <2>3. Len(order) \in 0..Len(order)
    <3>1. IsFiniteSet(Kept)
      BY FS_Subset DEF TableInv, Kept
    <3>2. order \in [1..Cardinality(Kept) -> Kept] /\ Cardinality(Kept) \in Nat
      BY <3>1, FS_CardinalityType DEF Orders, SetToSeqs
    <3>3. QED
      BY <3>2
  <2> HIDE DEF limit
  <2>4. CASE TakePage(Page(order, user.offset, limit, FALSE, Len(order)), Kept)
    BY <2>2, <2>3, <2>4, PageTaken DEF limit
  <2>5. CASE \E seen \in 0..Len(order) :
               TakePage(Page(order, user.offset, limit, TRUE, seen), Kept)
    BY <2>2, <2>5, PageTaken DEF limit
  <2>6. QED
    BY <2>1, <2>4, <2>5
<1>5. ASSUME PageFails PROVE PagesInv'
  BY <1>5, PagingKept DEF PageFails, UserRecord
<1>6. ASSUME NEW q \in Queries, StartBrowsing(q) PROVE PagesInv'
  <2>1. UserRecord' /\ ~Paging' /\ table' = table
    BY <1>6 DEF StartBrowsing, NoUser, UserRecord, Paging, At
  <2>2. QED
    BY <2>1, NotPaging
<1>7. ASSUME FinishBrowsing PROVE PagesInv'
  <2>1. UserRecord' /\ ~Paging' /\ table' = table
    BY <1>7 DEF FinishBrowsing, UserRecord, Paging, At
  <2>2. QED
    BY <2>1, NotPaging
<1>8. ASSUME Leave PROVE PagesInv'
  <2>1. UserRecord' /\ ~Paging' /\ table' = table
    BY <1>8 DEF Leave, NoUser, UserRecord, Paging, At
  <2>2. QED
    BY <2>1, NotPaging
<1>9. CASE UNCHANGED vars
  BY <1>9, PagingKept DEF vars, UserRecord
<1>10. QED
  BY <1>1, <1>2, <1>3, <1>4, <1>5, <1>6, <1>7, <1>8, <1>9 DEF Next

(* The invariant holds throughout.                                         *)
LEMMA PagesInvHolds == Spec => []PagesInv
<1>1. Init => PagesInv
  BY PagesInvInit, AtFirstAssumption
<1>2. PagesInv /\ [Next]_vars => PagesInv'
  BY PagesInvNext, ListingAssumption, TablesAssumption
<1>3. QED
  BY <1>1, <1>2, PTL DEF Spec

(* A client that follows next_offset misses no row that was there all the  *)
(* time and kept its place, whatever else is written, for pages of any     *)
(* size and any number of requests that run out of time.                   *)
THEOREM NoRowMissed == Spec => []PagesMissNothing
<1>1. PagesInv => PagesMissNothing
  BY DEF PagesInv, PagingInv, Paging, At, Coming, PagesMissNothing, Keys, KeyOf
<1>2. QED
  BY <1>1, PagesInvHolds, PTL

(* No row is on two pages of a search, if the table does not change and    *)
(* no answer sends the client back.                                        *)
THEOREM NoRowTwice == Spec => []PagesRepeatNothing
<1>1. PagesInv => PagesRepeatNothing
  BY DEF PagesInv, PagingInv, Passed, PagesRepeatNothing
<1>2. QED
  BY <1>1, PagesInvHolds, PTL

-----------------------------------------------------------------------------
(* Paths.                                                                  *)

(* What is left of a path is an end of it.                                 *)
LEMMA RelativeIsEnd ==
  ASSUME PathsAssumption, NEW path, IsPath(path)
  PROVE  \E n \in Nat : Relative(path) = SubSeq(path, n + 1, Len(path))
<1> DEFINE roots == {r \in Roots : IsStrictPrefix(r, path)}
           deepest == CHOOSE r \in roots : \A s \in roots : Len(s) <= Len(r)
<1>1. path \in Seq(ToSet(path)) /\ Len(path) \in Nat
  BY DEF IsPath, IsSequence
<1>2. CASE path \in Roots
  <2>1. Relative(path) = <<>> /\ SubSeq(path, Len(path) + 1, Len(path)) = <<>>
    BY <1>1, <1>2 DEF Relative
  <2>2. QED
    BY <1>1, <2>1
<1>3. CASE path \notin Roots /\ roots = {}
  <2>1. Relative(path) = path /\ SubSeq(path, 0 + 1, Len(path)) = path
    BY <1>1, <1>3 DEF Relative
  <2>2. QED
    BY <2>1
<1>4. CASE path \notin Roots /\ roots # {}
  <2>1. Relative(path) = SubSeq(path, Len(deepest) + 1, Len(path))
    BY <1>4 DEF Relative
  <2>2. \A r \in roots : Len(r) \in Nat /\ Len(path) - Len(r) \in Nat
    <3> SUFFICES ASSUME NEW r \in roots PROVE Len(r) \in Nat /\ Len(path) - Len(r) \in Nat
      OBVIOUS
    <3>1. r \in Seq(ToSet(r)) /\ Len(r) <= Len(path)
      BY DEF PathsAssumption, IsPath, IsSequence, IsStrictPrefix, IsPrefix
    <3>2. QED
      BY <1>1, <3>1
  <2> HIDE DEF roots
  <2>3. PICK m \in {Len(path) - Len(r) : r \in roots} :
          \A n \in {Len(path) - Len(r) : r \in roots} : m <= n
    <3>1. {Len(path) - Len(r) : r \in roots} \in SUBSET Nat
      BY <2>2
    <3>2. {Len(path) - Len(r) : r \in roots} # {}
      BY <1>4
    <3>3. QED
      BY <3>1, <3>2, LeastNumber
  <2>4. PICK r \in roots : m = Len(path) - Len(r)
    BY <2>3
  <2>5. ASSUME NEW s \in roots PROVE Len(s) <= Len(r)
    <3>1. Len(path) - Len(s) \in {Len(path) - Len(u) : u \in roots}
      OBVIOUS
    <3>2. m <= Len(path) - Len(s)
      BY <2>3, <3>1
    <3>3. QED
      BY <1>1, <2>2, <2>4, <3>2
  <2>6. deepest \in roots
    BY <2>4, <2>5
  <2>7. QED
    BY <2>1, <2>2, <2>6
<1>5. QED
  BY <1>2, <1>3, <1>4

(* An end of a path has its words only.                                    *)
LEMMA RelativeIsPath ==
  ASSUME PathsAssumption, NEW path, IsPath(path)
  PROVE  /\ Relative(path) \in Seq(ToSet(path))
         /\ \A i \in DOMAIN Relative(path) : IsSequence(Relative(path)[i])
         /\ \A w : Has(Relative(path), w) => Has(path, w)
<1>1. PICK n \in Nat : Relative(path) = SubSeq(path, n + 1, Len(path))
  BY RelativeIsEnd
<1>2. path \in Seq(ToSet(path)) /\ \A i \in DOMAIN path : IsSequence(path[i])
  BY DEF IsPath, IsSequence
<1> DEFINE rel == SubSeq(path, n + 1, Len(path))
<1>3. /\ rel \in Seq(ToSet(path))
      /\ \A i \in DOMAIN rel : i + n \in DOMAIN path /\ rel[i] = path[i + n]
  BY <1>2
<1> HIDE DEF rel
<1>4. Relative(path) = rel
  BY <1>1 DEF rel
<1>5. QED
  BY <1>2, <1>3, <1>4 DEF Has

-----------------------------------------------------------------------------
(* The invariant about the tree.                                           *)

Finds(q, r) ==
  /\ SqlFilter(q, r) /\ IsDebugUIFile(r)
  /\ Unified(q, Display(r), r.commit, r.id)

FindsDedup(q, d) ==
  d.status # "error" /\ Unified(q, Relative(d.path), d.commit, NoCommit)

(* Between the two reads what was found is all there was to find, and      *)
(* nothing that was there all the time has gone from dedup_files.          *)
Reading ==
  /\ user.found \subseteq Artifacts
  /\ \A r \in user.seen \cap Artifacts : Finds(user.query, r) => r \in user.found
  /\ user.seen \cap DedupFiles \subseteq dedup

(* The leaves are those of rows of the two tables, of different files.     *)
LeavesOf(shown, q, rows, files) ==
  /\ rows \subseteq Artifacts /\ files \subseteq DedupFiles
  /\ shown = {ArtifactLeaf(r, q) : r \in rows} \cup {DedupLeaf(d) : d \in files}
  /\ \A r \in rows, d \in files : FilePath(r) # d.path

(* Nothing is missing that was there all the time.                         *)
Shown ==
  /\ \E rows, files : LeavesOf(user.shown, user.query, rows, files)
  /\ \A r \in user.seen \cap Artifacts :
       Finds(user.query, r) => \E l \in user.shown : l.key = <<r.id, r.type>>
  /\ \A d \in user.seen \cap DedupFiles :
       FindsDedup(user.query, d) => \E l \in user.shown : l.rel = Relative(d.path)

BrowseInv ==
  /\ table \subseteq Artifacts /\ dedup \subseteq DedupFiles
  /\ UserRecord
  /\ At("browse") => Reading
  /\ At("browsed") => Shown
  /\ ~At("browsed") => user.shown = {}

(* Whatever else is written, the user goes on.                             *)
LEMMA BrowsingKept ==
  ASSUME TablesAssumption, BrowseInv, table' \subseteq Artifacts,
         dedup' \subseteq DedupFiles, UserRecord', user'.step = user.step,
         user'.seen \subseteq user.seen, user'.query = user.query,
         user'.found = user.found, user'.shown = user.shown,
         user'.seen \cap dedup \subseteq dedup'
  PROVE  BrowseInv'
<1>1. ASSUME At("browse") PROVE Reading'
  BY <1>1 DEF BrowseInv, Reading
<1>2. ASSUME At("browsed") PROVE Shown'
  <2>1. Shown
    BY <1>2 DEF BrowseInv
  <2>2. /\ \A r \in user'.seen \cap Artifacts :
             Finds(user'.query, r) => \E l \in user'.shown : l.key = <<r.id, r.type>>
        /\ \A d \in user'.seen \cap DedupFiles :
             FindsDedup(user'.query, d) => \E l \in user'.shown : l.rel = Relative(d.path)
    BY <2>1 DEF Shown
  <2>3. \E rows, files : LeavesOf(user'.shown, user'.query, rows, files)
    BY <2>1 DEF Shown
  <2>4. QED
    BY <2>2, <2>3 DEF Shown
<1>3. QED
  BY <1>1, <1>2 DEF BrowseInv, At

(* The first read.                                                         *)
LEMMA BrowsingStarted ==
  ASSUME TablesAssumption, BrowseInv, NEW q \in Queries, StartBrowsing(q)
  PROVE  BrowseInv'
<1>1. /\ user' = [NoUser EXCEPT !.step = "browse", !.query = q,
                               !.seen = table \cup dedup,
                               !.found = SearchDebugFiles(table, q)]
      /\ table' = table /\ dedup' = dedup
  BY DEF StartBrowsing
<1>2. /\ UserRecord' /\ user'.step = "browse" /\ user'.query = q
      /\ user'.seen = table \cup dedup /\ user'.found = SearchDebugFiles(table, q)
      /\ user'.shown = {}
  BY <1>1 DEF NoUser, UserRecord
<1>3. Reading'
  BY <1>1, <1>2 DEF Reading, BrowseInv, Finds, SearchDebugFiles, TablesAssumption
<1>4. QED
  BY <1>1, <1>2, <1>3 DEF BrowseInv, At

(* The second read and the tree.                                           *)
LEMMA BrowsingFinished ==
  ASSUME PathsAssumption, BrowseInv, FinishBrowsing
  PROVE  BrowseInv'
<1> DEFINE q == user.query
           rest == SearchDedupFiles(dedup, q, PathsOf(user.found))
           shown == {ArtifactLeaf(r, q) : r \in user.found} \cup {DedupLeaf(d) : d \in rest}
<1>1. /\ user' = [user EXCEPT !.step = "browsed", !.found = {}, !.shown = shown]
      /\ table' = table /\ dedup' = dedup /\ Reading /\ UserRecord
  BY DEF FinishBrowsing, BrowseInv
<1>2. /\ UserRecord' /\ user'.step = "browsed" /\ user'.query = q
      /\ user'.seen = user.seen /\ user'.shown = shown
  <2> HIDE DEF shown
  <2>1. QED
    BY <1>1 DEF UserRecord
<1>3. /\ user.found \in SUBSET Artifacts /\ rest \in SUBSET DedupFiles
      /\ \A r \in user.found, d \in rest : FilePath(r) # d.path
  BY <1>1 DEF Reading, SearchDedupFiles, PathsOf, BrowseInv
<1>4. ASSUME NEW r \in user.seen \cap Artifacts, Finds(q, r)
      PROVE  \E l \in shown : l.key = <<r.id, r.type>>
  <2>1. ArtifactLeaf(r, q) \in shown
    BY <1>1, <1>4 DEF Reading
  <2>2. ArtifactLeaf(r, q).key = <<r.id, r.type>>
    BY DEF ArtifactLeaf
  <2> HIDE DEF shown
  <2>3. QED
    BY <2>1, <2>2
<1>5. ASSUME NEW d \in user.seen \cap DedupFiles, FindsDedup(q, d)
      PROVE  \E l \in shown : l.rel = Relative(d.path)
  <2>1. d \in dedup
    BY <1>1 DEF Reading
  <2>2. CASE d.path \in PathsOf(user.found)
    <3>1. PICK r \in user.found : FilePath(r) = d.path
      BY <2>2 DEF PathsOf
    <3>2. ~Packed(r) /\ r.file = d.path
      BY <1>3, <3>1 DEF FilePath, PathsAssumption
    <3>3. ArtifactLeaf(r, q) \in shown /\ ArtifactLeaf(r, q).rel = Relative(d.path)
      BY <3>2 DEF ArtifactLeaf, Display
    <3> HIDE DEF shown
    <3>4. QED
      BY <3>3
  <2>3. CASE d.path \notin PathsOf(user.found)
    <3>1. DedupLeaf(d) \in shown /\ DedupLeaf(d).rel = Relative(d.path)
      BY <1>5, <2>1, <2>3 DEF DedupLeaf, SearchDedupFiles, FindsDedup
    <3> HIDE DEF shown
    <3>2. QED
      BY <3>1
  <2>4. QED
    BY <2>2, <2>3
<1>6. Shown'
  <2>1. LeavesOf(shown, q, user.found, rest)
    BY <1>3 DEF LeavesOf
  <2> HIDE DEF shown, rest, q
  <2>2. QED
    BY <1>2, <1>4, <1>5, <2>1 DEF Shown
<1>7. QED
  BY <1>1, <1>2, <1>6 DEF BrowseInv, At

(* A user who does not browse.                                             *)
LEMMA NotBrowsing ==
  ASSUME BrowseInv, UNCHANGED <<table, dedup>>, UserRecord',
         user'.step \notin {"browse", "browsed"}, user'.shown = {}
  PROVE  BrowseInv'
BY DEF BrowseInv, At

LEMMA BrowseInvNext ==
  ASSUME TablesAssumption, PathsAssumption, BrowseInv, [Next]_vars
  PROVE  BrowseInv'
<1> USE DEF BrowseInv
<1>1. ASSUME NEW row \in Artifacts, WriteArtifact(row) PROVE BrowseInv'
  <2> DEFINE old == {r \in table : Same(r, row)}
             moved == user.moved \/ Leaves(old, row)
  <2>1. /\ user' = [user EXCEPT !.seen = user.seen \ old, !.grown = TRUE, !.moved = moved]
        /\ dedup' = dedup /\ table' \subseteq Artifacts
    BY <1>1 DEF WriteArtifact, Upserted
  <2> HIDE DEF old, moved
  <2>2. QED
    BY <2>1, BrowsingKept DEF UserRecord
<1>2. ASSUME NEW row \in DedupFiles, WriteDedup(row) PROVE BrowseInv'
  <2> DEFINE seen == {d \in user.seen : d \notin dedup \/ d.path # row.path}
  <2>1. /\ user' = [user EXCEPT !.seen = seen] /\ seen \subseteq user.seen
        /\ table' = table /\ dedup' \subseteq DedupFiles /\ seen \cap dedup \subseteq dedup'
    BY <1>2 DEF WriteDedup
  <2> HIDE DEF seen
  <2>2. QED
    BY <2>1, BrowsingKept DEF UserRecord
<1>3. ASSUME NEW s \in Searches, StartPaging(s) PROVE BrowseInv'
  <2>1. UserRecord' /\ user'.step = "page" /\ user'.shown = {}
    BY <1>3 DEF StartPaging, NoUser, UserRecord
  <2>2. QED
    BY <1>3, <2>1, NotBrowsing DEF StartPaging
<1>4. ASSUME GetPage PROVE BrowseInv'
  <2>1. ASSUME NEW page, NEW kept, TakePage(page, kept)
        PROVE  UserRecord' /\ user'.step \in {"page", "paged"} /\ user'.shown = user.shown
    <3> DEFINE keys == Keys({page.results[i] : i \in DOMAIN page.results})
    <3>1. user' = [user EXCEPT
            !.step = IF page.complete THEN "paged" ELSE "page",
            !.offset = page.next, !.later = TRUE,
            !.got = @ \cup keys, !.twice = @ \/ keys \cap user.got # {},
            !.moved = @ \/ Ties(user.search, kept),
            !.rewound = @ \/ (~page.complete /\ page.next < user.offset)]
      BY <2>1 DEF TakePage
    <3> HIDE DEF keys
    <3>2. QED
      BY <3>1 DEF UserRecord
  <2>2. UserRecord' /\ user'.step \in {"page", "paged"} /\ user'.shown = {}
    BY <1>4, <2>1 DEF GetPage, At
  <2>3. QED
    BY <1>4, <2>2, NotBrowsing DEF GetPage
<1>5. ASSUME PageFails PROVE BrowseInv'
  BY <1>5, BrowsingKept DEF PageFails, UserRecord
<1>6. ASSUME NEW q \in Queries, StartBrowsing(q) PROVE BrowseInv'
  BY <1>6, BrowsingStarted
<1>7. ASSUME FinishBrowsing PROVE BrowseInv'
  BY <1>7, BrowsingFinished
<1>8. ASSUME Leave PROVE BrowseInv'
  <2>1. UserRecord' /\ user'.step = "away" /\ user'.shown = {}
    BY <1>8 DEF Leave, NoUser, UserRecord
  <2>2. QED
    BY <1>8, <2>1, NotBrowsing DEF Leave
<1>9. CASE UNCHANGED vars
  BY <1>9, BrowsingKept DEF vars, UserRecord
<1>10. QED
  BY <1>1, <1>2, <1>3, <1>4, <1>5, <1>6, <1>7, <1>8, <1>9 DEF Next

LEMMA BrowseInvHolds == Spec => []BrowseInv
<1>1. Init => BrowseInv
  BY AtFirstAssumption DEF AtFirstAssumption, Init, BrowseInv, NoUser, UserRecord, At
<1>2. BrowseInv /\ [Next]_vars => BrowseInv'
  BY BrowseInvNext, TablesAssumption, PathsAssumption
<1>3. QED
  BY <1>1, <1>2, PTL DEF Spec

(* What the database filters out the query would filter out, too.          *)
LEMMA FilterIsNoStricter ==
  ASSUME PathsAssumption, NEW q, NEW r \in Artifacts, IsDebugUIFile(r),
         Unified(q, Display(r), r.commit, r.id), Packed(r) => q.form # "word"
  PROVE  Finds(q, r)
<1>1. CASE q.form = "word"
  <2>1. ~Packed(r) /\ Display(r) = Relative(r.file) /\ File(r) = r.file
    BY <1>1 DEF Display, File
  <2>2. IsPath(r.file)
    BY DEF PathsAssumption
  <2>3. Has(Relative(r.file), q.word) => Has(r.file, q.word)
    BY <2>2, RelativeIsPath
  <2>4. QED
    BY <1>1, <2>1, <2>3 DEF Finds, SqlFilter, IsDebugUIFile, Unified, AnyQuery
<1>2. CASE q.form # "word"
  BY <1>2 DEF Finds, SqlFilter
<1>3. QED
  BY <1>1, <1>2

(* The tree misses nothing that was in one of the tables all the time,     *)
(* although the tables are read one after the other and files are written  *)
(* and deduplicated in between.                                            *)
THEOREM NothingLeftOut == Spec => []BrowseMissesNothing
<1>1. BrowseInv => BrowseMissesNothing
  <2> SUFFICES ASSUME BrowseInv, At("browsed") PROVE BrowseMissesNothing
    BY DEF BrowseMissesNothing
  <2>1. Shown /\ table \subseteq Artifacts /\ dedup \subseteq DedupFiles
    BY DEF BrowseInv
  <2>2. ASSUME NEW r \in table \cap user.seen, IsDebugUIFile(r),
               Unified(user.query, Display(r), r.commit, r.id),
               Packed(r) => user.query.form # "word"
        PROVE  \E l \in user.shown : l.key = <<r.id, r.type>>
    <3>1. Finds(user.query, r)
      BY <2>1, <2>2, FilterIsNoStricter, PathsAssumption
    <3>2. QED
      BY <2>1, <3>1 DEF Shown
  <2>3. ASSUME NEW d \in dedup \cap user.seen, d.status # "error",
               Unified(user.query, Relative(d.path), d.commit, NoCommit)
        PROVE  \E l \in user.shown : l.rel = Relative(d.path)
    BY <2>1, <2>3 DEF Shown, FindsDedup
  <2>4. QED
    BY <2>2, <2>3 DEF BrowseMissesNothing
<1>2. QED
  BY <1>1, BrowseInvHolds, PTL

(* A member under its package is a sequence of names with the arrow.       *)
LEMMA ArrowShows ==
  ASSUME NEW S, NEW package \in Seq(S), \A i \in DOMAIN package : IsSequence(package[i]),
         NEW member, IsPath(member), member # <<>>
  PROVE  /\ \E T : Arrow(package, member) \in Seq(T)
         /\ Has(Arrow(package, member), "arrow")
<1>1. /\ member \in Seq(ToSet(member)) /\ Len(member) \in Nat \ {0}
      /\ Tail(member) \in Seq(ToSet(member)) /\ Head(member) = member[1]
      /\ IsSequence(member[1])
  BY DEF IsPath, IsSequence
<1>2. PICK H : member[1] \in Seq(H)
  BY <1>1 DEF IsSequence
<1>3. CASE package = <<>>
  <2> DEFINE first == <<"arrow">> \o Head(member)
             T == ToSet(member) \cup {first}
  <2>1. first[1] = "arrow" /\ 1 \in DOMAIN first
    <3>1. Head(member) \in Seq(H \cup {"arrow"}) /\ <<"arrow">> \in Seq(H \cup {"arrow"})
      BY <1>1, <1>2
    <3> HIDE DEF T
    <3>2. QED
      BY <3>1
  <2> HIDE DEF first
  <2>2. <<first>> \in Seq(T) /\ Tail(member) \in Seq(T)
    BY <1>1
  <2>3. Arrow(package, member) = <<first>> \o Tail(member)
    BY <1>3 DEF Arrow, first
  <2> HIDE DEF T
  <2>4. Arrow(package, member) \in Seq(T) /\ 1 \in DOMAIN Arrow(package, member)
        /\ Arrow(package, member)[1] = first
    BY <2>2, <2>3
  <2>5. QED
    BY <2>1, <2>4 DEF Has
<1>4. CASE package # <<>>
  <2> DEFINE middle == Last(package) \o <<"arrow">> \o Head(member)
             T == ToSet(member) \cup S \cup {middle}
             n == Len(package)
  <2>1. n \in Nat \ {0} /\ Last(package) = package[n] /\ n \in DOMAIN package
    BY <1>4 DEF Last
  <2>2. PICK P : package[n] \in Seq(P)
    BY <2>1 DEF IsSequence
  <2>3. \E j \in DOMAIN middle : middle[j] = "arrow"
    <3> DEFINE A == H \cup P \cup {"arrow"}
               k == Len(package[n]) + 1
    <3>1. Head(member) \in Seq(A) /\ <<"arrow">> \in Seq(A) /\ package[n] \in Seq(A)
      BY <1>1, <1>2, <2>2
    <3>2. middle = package[n] \o <<"arrow">> \o Head(member)
      BY <2>1
    <3> DEFINE front == package[n] \o <<"arrow">>
    <3>3. k \in Nat \ {0} /\ front \in Seq(A) /\ Len(front) = k /\ front[k] = "arrow"
      <4> HIDE DEF n, A
      <4>1. QED
        BY <3>1
    <3>4. middle = front \o Head(member)
      BY <3>2
    <3> HIDE DEF middle, n, A, k, front
    <3>5. k \in DOMAIN middle /\ middle[k] = "arrow"
      BY <3>1, <3>3, <3>4
    <3>6. QED
      BY <3>5
  <2> HIDE DEF middle
  <2>4. Front(package) \in Seq(T) /\ Len(Front(package)) = n - 1
        /\ <<middle>> \in Seq(T) /\ Tail(member) \in Seq(T)
    <3>1. Front(package) \in Seq(S) /\ Len(Front(package)) = n - 1
      <4>1. Front(package) = SubSeq(package, 1, n - 1)
        BY DEF Front
      <4>2. n = Len(package)
        OBVIOUS
      <4> HIDE DEF n
      <4>3. n - 1 \in Nat /\ n - 1 <= Len(package)
        BY <2>1, <4>2
      <4>4. QED
        BY <4>1, <4>3
    <3>2. QED
      BY <1>1, <3>1
  <2>5. Arrow(package, member) = Front(package) \o <<middle>> \o Tail(member)
    BY <1>4 DEF Arrow, middle
  <2> HIDE DEF T, n
  <2>6. Arrow(package, member) \in Seq(T) /\ n \in DOMAIN Arrow(package, member)
        /\ Arrow(package, member)[n] = middle
    BY <2>1, <2>4, <2>5
  <2>7. QED
    BY <2>3, <2>6 DEF Has
<1>5. QED
  BY <1>3, <1>4

LEMMA PackedShowsArrow ==
  ASSUME PathsAssumption, NEW r \in Artifacts, Packed(r)
  PROVE  (\E T : Display(r) \in Seq(T)) /\ Has(Display(r), "arrow")
<1>1. IsPath(r.archive) /\ IsPath(r.member) /\ r.member # <<>>
  BY DEF PathsAssumption
<1>2. /\ Relative(r.archive) \in Seq(ToSet(r.archive))
      /\ \A i \in DOMAIN Relative(r.archive) : IsSequence(Relative(r.archive)[i])
  BY <1>1, RelativeIsPath
<1>3. Display(r) = Arrow(Relative(r.archive), r.member)
  BY DEF Display
<1>4. QED
  BY <1>1, <1>2, <1>3, ArrowShows

(* A file under deduplication that is an artifact, too, is shown once, if  *)
(* the paths users see tell files apart.                                   *)
THEOREM NothingShownTwice == ASSUME PathsTell PROVE Spec => []BrowseShowsOnce
<1>1. ASSUME BrowseInv PROVE BrowseShowsOnce
  <2> SUFFICES ASSUME NEW l \in user.shown, NEW m \in user.shown,
                      l.from = "artifact", m.from = "dedup"
               PROVE  l.rel # m.rel
    BY DEF BrowseShowsOnce
  <2>0. At("browsed")
    BY <1>1 DEF BrowseInv
  <2>1. PICK rows, files : LeavesOf(user.shown, user.query, rows, files)
    BY <1>1, <2>0 DEF BrowseInv, Shown
  <2>2. PICK r \in rows : l = ArtifactLeaf(r, user.query)
    BY <2>1 DEF LeavesOf, DedupLeaf
  <2>3. PICK d \in files : m = DedupLeaf(d)
    BY <2>1 DEF LeavesOf, ArtifactLeaf
  <2>4. /\ r \in Artifacts /\ d \in DedupFiles /\ FilePath(r) # d.path
        /\ l.rel = Display(r) /\ m.rel = Relative(d.path)
    BY <2>1, <2>2, <2>3 DEF LeavesOf, ArtifactLeaf, DedupLeaf
  <2>5. CASE Packed(r)
    BY <2>4, <2>5, PackedShowsArrow, PathsAssumption DEF PathsTell
  <2>6. CASE ~Packed(r)
    BY <2>4, <2>6 DEF PathsTell, FilePath, Display
  <2>7. QED
    BY <2>5, <2>6
<1>2. QED
  BY <1>1, BrowseInvHolds, PTL

-----------------------------------------------------------------------------
(* The tree.                                                               *)

LEMMA DirOfIsSequence ==
  ASSUME NEW leaf, NEW S, leaf.rel \in Seq(S), NEW P, leaf.project \in Seq(P)
  PROVE  DirOf(leaf) \in Seq(S)
<1> DEFINE rest == IF IsPrefix(leaf.project, leaf.rel)
                   THEN SubSeq(leaf.rel, Len(leaf.project) + 1, Len(leaf.rel))
                   ELSE leaf.rel
<1>1. rest \in Seq(S)
  OBVIOUS
<1> HIDE DEF rest
<1>2. rest # <<>> => Front(rest) \in Seq(S)
  BY <1>1 DEF Front
<1>3. DirOf(leaf) = IF rest = <<>> THEN <<>> ELSE Front(rest)
  BY DEF DirOf, rest
<1>4. QED
  BY <1>2, <1>3

(* The directory of a file that is under its project.                      *)
LEMMA DirUnderProject ==
  ASSUME NEW leaf, NEW S, leaf.rel \in Seq(S), NEW P, leaf.project \in Seq(P),
         Len(leaf.rel) > Len(leaf.project), IsPrefix(leaf.project, leaf.rel)
  PROVE  leaf.project \o DirOf(leaf) = Front(leaf.rel)
<1> DEFINE rel == leaf.rel
           project == leaf.project
           rest == SubSeq(rel, Len(project) + 1, Len(rel))
<1>1. rest # <<>>
  <2> HIDE DEF project, rel
  <2>1. rel \in Seq(S) /\ project \in Seq(P) /\ Len(rel) > Len(project)
    BY DEF project, rel
  <2>2. Len(rest) = Len(rel) - Len(project)
    BY <2>1
  <2> HIDE DEF rest
  <2>3. QED
    BY <2>1, <2>2
<1>2. DirOf(leaf) = Front(rest)
  BY <1>1 DEF DirOf
<1>3. project \o Front(rest) = Front(rel)
  <2> HIDE DEF project, rel
  <2>1. /\ rel \in Seq(S) /\ project \in Seq(P)
        /\ Len(rel) > Len(project) /\ IsPrefix(project, rel)
    BY DEF project, rel
  <2>2. QED
    BY <2>1 DEF IsPrefix, Front
<1>4. QED
  BY <1>2, <1>3

(* Every leaf is in one node.                                              *)
LEMMA LeafHasNode ==
  ASSUME NEW leaves, NEW l \in leaves, NEW S, l.rel \in Seq(S), NEW P, l.project \in Seq(P)
  PROVE  \E n \in Tree(leaves) :
           /\ \A m \in Tree(leaves) : l \in m.files <=> m = n
           /\ /\ l.commit = NoCommit
              /\ Len(l.rel) > Len(l.project) /\ IsPrefix(l.project, l.rel)
              => n.path = Front(l.rel)
<1> DEFINE known == {k \in leaves : k.commit # NoCommit}
           rest == leaves \ known
           Commit(c) == [group |-> "commit", path |-> <<<<c>>>>,
                         files |-> {k \in known : k.commit = c}]
           Dir(project, dir) ==
             [group |-> IF dir = <<>> THEN "project" ELSE "dir", path |-> project \o dir,
              files |-> {k \in rest : k.project = project /\ DirOf(k) = dir}]
<1>1. \A m : m \in Tree(leaves) <=>
        \/ \E k \in known : m = Commit(k.commit)
        \/ \E k \in rest : \E dir \in Prefixes(DirOf(k)) : m = Dir(k.project, dir)
  <2>1. Tree(leaves) = CommitNodes(known) \cup DirNodes(rest)
    BY DEF Tree
  <2> HIDE DEF rest, known
  <2>2. CommitNodes(known) = {Commit(c) : c \in {k.commit : k \in known}}
    BY DEF CommitNodes
  <2>3. DirNodes(rest)
          = UNION {{Dir(k.project, dir) : dir \in Prefixes(DirOf(k))} : k \in rest}
    BY DEF DirNodes
  <2> HIDE DEF Commit, Dir
  <2>4. \A m : m \in CommitNodes(known) <=> \E k \in known : m = Commit(k.commit)
    BY <2>2
  <2>5. \A m : m \in DirNodes(rest) <=>
          \E k \in rest : \E dir \in Prefixes(DirOf(k)) : m = Dir(k.project, dir)
    BY <2>3
  <2>6. QED
    BY <2>1, <2>4, <2>5
<1>2. \A c : Commit(c).files = {k \in known : k.commit = c}
  OBVIOUS
<1>3. \A project, dir :
        /\ Dir(project, dir).files
             = {k \in rest : k.project = project /\ DirOf(k) = dir}
        /\ Dir(project, dir).path = project \o dir
  OBVIOUS
<1> HIDE DEF Commit, Dir
<1>4. CASE l \in known
  <2>1. Commit(l.commit) \in Tree(leaves) /\ l \in Commit(l.commit).files
    BY <1>1, <1>2, <1>4
  <2>2. ASSUME NEW m \in Tree(leaves), l \in m.files PROVE m = Commit(l.commit)
    BY <1>1, <1>2, <1>3, <1>4, <2>2
  <2>3. l.commit # NoCommit
    BY <1>4
  <2>4. QED
    BY <2>1, <2>2, <2>3
<1>5. CASE l \notin known
  <2> DEFINE n == Dir(l.project, DirOf(l))
  <2>1. DirOf(l) \in Prefixes(DirOf(l))
    BY DirOfIsSequence DEF Prefixes
  <2>2. n \in Tree(leaves) /\ l \in n.files
    BY <1>1, <1>3, <1>5, <2>1
  <2>3. ASSUME NEW m \in Tree(leaves), l \in m.files PROVE m = n
    BY <1>1, <1>2, <1>3, <1>5, <2>3
  <2>4. Len(l.rel) > Len(l.project) /\ IsPrefix(l.project, l.rel) => n.path = Front(l.rel)
    BY <1>3, DirUnderProject
  <2> HIDE DEF n
  <2>5. QED
    BY <2>2, <2>3, <2>4
<1>6. QED
  BY <1>4, <1>5

LEMMA LeafHasPaths ==
  ASSUME PathsAssumption, NEW q, NEW rows, NEW files, NEW shown,
         LeavesOf(shown, q, rows, files), NEW l \in shown
  PROVE  (\E S : l.rel \in Seq(S)) /\ (\E P : l.project \in Seq(P))
<1>1. CASE \E r \in rows : l = ArtifactLeaf(r, q)
  <2>1. PICK r \in Artifacts : l = ArtifactLeaf(r, q)
    BY <1>1 DEF LeavesOf
  <2>2. l.rel = Display(r) /\ l.project = ProjectOf(Display(r))
    BY <2>1 DEF ArtifactLeaf
  <2>3. \E S : Display(r) \in Seq(S)
    <3>1. CASE Packed(r)
      BY <3>1, PackedShowsArrow
    <3>2. CASE ~Packed(r)
      BY <3>2, RelativeIsPath DEF Display, PathsAssumption
    <3>3. QED
      BY <3>1, <3>2
  <2>4. \A rel : \E P : ProjectOf(rel) \in Seq(P)
    <3> SUFFICES ASSUME NEW rel PROVE \E P : ProjectOf(rel) \in Seq(P)
      OBVIOUS
    <3> DEFINE P == {rel[1], rel[2]}
    <3>1. \A i \in 1..2 : rel[i] \in P
      OBVIOUS
    <3>2. SubSeq(rel, 1, 2) \in Seq(P) /\ SubSeq(rel, 1, 1) \in Seq(P)
      BY <3>1, SubSeqProperties
    <3>3. QED
      BY <3>2 DEF ProjectOf
  <2>5. QED
    BY <2>2, <2>3, <2>4
<1>2. CASE \E d \in files : l = DedupLeaf(d)
  <2>1. PICK d \in DedupFiles : l = DedupLeaf(d)
    BY <1>2 DEF LeavesOf
  <2>2. l.rel = Relative(d.path) /\ l.project = d.project
    BY <2>1 DEF DedupLeaf
  <2>3. QED
    BY <2>2, RelativeIsPath DEF PathsAssumption, IsPath, IsSequence
<1>3. QED
  BY <1>1, <1>2 DEF LeavesOf

(* Every file shown is at one node of the tree, that of its commit or that *)
(* of its directory, whatever the projects, paths and commits are.         *)
THEOREM EveryFileHasOneNode == Spec => []TreeHoldsEach
<1>1. ASSUME BrowseInv PROVE TreeHoldsEach
  <2> SUFFICES ASSUME At("browsed"), NEW l \in user.shown
               PROVE  \E n \in Tree(user.shown) :
                        /\ \A m \in Tree(user.shown) : l \in m.files <=> m = n
                        /\ /\ l.commit = NoCommit
                           /\ Len(l.rel) > Len(l.project) /\ IsPrefix(l.project, l.rel)
                           => n.path = Front(l.rel)
    BY DEF TreeHoldsEach
  <2>1. PICK rows, files : LeavesOf(user.shown, user.query, rows, files)
    BY <1>1 DEF BrowseInv, Shown
  <2>2. (\E S : l.rel \in Seq(S)) /\ (\E P : l.project \in Seq(P))
    BY <2>1, LeafHasPaths, PathsAssumption
  <2>3. QED
    BY <2>2, LeafHasNode
<1>2. QED
  BY <1>1, BrowseInvHolds, PTL

-----------------------------------------------------------------------------
(* The groups.                                                             *)

Types == {"debuginfo", "executable"}
IdsOf(rows) == {r.id : r \in rows}
AheadOf(ids, id) == {k \in ids : IdPlace(k) < IdPlace(id)}
FirstIds(ids, limit) == {id \in ids : Cardinality(AheadOf(ids, id)) < limit}

LEMMA IdPlaces ==
  ASSUME TablesAssumption, NEW r \in Artifacts, NEW t \in Artifacts
  PROVE  IdPlace(r.id) \in Nat /\ (IdPlace(r.id) = IdPlace(t.id) => r.id = t.id)
<1>1. /\ IdPlace(r.id) \in DOMAIN IdOrder /\ IdOrder[IdPlace(r.id)] = r.id
      /\ IdPlace(t.id) \in DOMAIN IdOrder /\ IdOrder[IdPlace(t.id)] = t.id
  BY DEF TablesAssumption, IdPlace
<1>2. QED
  BY <1>1 DEF TablesAssumption

(* A build-id has two rows at most.                                        *)
LEMMA TwoRowsForEach ==
  ASSUME TableInv, TablesAssumption, NEW N \in Nat, NEW order \in [1..N -> table],
         \A i, j \in 1..N : i # j => order[i] # order[j],
         NEW D \in SUBSET (1..N), IsFiniteSet(D), NEW K, IsFiniteSet(K),
         \A i \in D : order[i].id \in K
  PROVE  Cardinality(D) <= 2 * Cardinality(K)
<1> DEFINE h == [i \in D |-> <<order[i].id, order[i].type>>]
<1>1. \A i \in D : order[i] \in table /\ order[i].type \in Types
  BY DEF TablesAssumption, TableInv, Types
<1>2. h \in [D -> K \X Types]
  BY <1>1
<1>3. ASSUME NEW i \in D, NEW j \in D, h[i] = h[j] PROVE i = j
  <2>1. order[i].id = order[j].id /\ order[i].type = order[j].type
    BY <1>3
  <2>2. order[i] = order[j]
    BY <1>1, <2>1 DEF TableInv, Same
  <2>3. QED
    BY <2>2
<1> HIDE DEF h
<1>4. h \in Injection(D, K \X Types)
  BY <1>2, <1>3 DEF Injection, IsInjective
<1>5. IsFiniteSet(Types) /\ Cardinality(Types) = 2
  <2>1. IsFiniteSet({"debuginfo"}) /\ Cardinality({"debuginfo"}) = 1
    BY FS_Singleton
  <2>2. "executable" \notin {"debuginfo"}
    OBVIOUS
  <2>3. Types = {"debuginfo"} \cup {"executable"}
    BY DEF Types
  <2>4. IsFiniteSet({"debuginfo"} \cup {"executable"})
        /\ Cardinality({"debuginfo"} \cup {"executable"}) = Cardinality({"debuginfo"}) + 1
    BY <2>1, <2>2, FS_AddElement, Zenon
  <2>5. QED
    BY <2>1, <2>3, <2>4
<1>6. IsFiniteSet(K \X Types) /\ Cardinality(K \X Types) = Cardinality(K) * Cardinality(Types)
  BY <1>5, FS_Product
<1>7. Cardinality(D) <= Cardinality(K \X Types)
  BY <1>4, <1>6, FS_Injection
<1>8. Cardinality(K) \in Nat /\ Cardinality(D) \in Nat
  BY FS_CardinalityType
<1>9. QED
  BY <1>5, <1>6, <1>7, <1>8

(* There are as many first ids as asked for, or all of them.               *)
LEMMA FirstIdsEnough ==
  ASSUME NEW ids, IsFiniteSet(ids), \A k \in ids : IdPlace(k) \in Nat, NEW limit \in Nat
  PROVE  FirstIds(ids, limit) = ids \/ Cardinality(FirstIds(ids, limit)) >= limit
<1> DEFINE F == FirstIds(ids, limit)
           others == {IdPlace(k) : k \in ids \ F}
<1>1. SUFFICES ASSUME F # ids PROVE Cardinality(F) >= limit
  OBVIOUS
<1>2. F \in SUBSET ids
  BY DEF FirstIds
<1>3. others \in SUBSET Nat /\ others # {}
  BY <1>1, <1>2
<1>4. PICK m \in others : \A n \in others : m <= n
  <2> HIDE DEF others
  <2>1. QED
    BY <1>3, LeastNumber
<1>5. PICK id \in ids \ F : m = IdPlace(id)
  BY <1>4
<1>6. AheadOf(ids, id) \in SUBSET F
  <2> SUFFICES ASSUME NEW k \in ids, IdPlace(k) < IdPlace(id), k \notin F PROVE FALSE
    BY DEF AheadOf
  <2>1. IdPlace(k) \in others
    OBVIOUS
  <2>2. IdPlace(id) <= IdPlace(k)
    BY <1>4, <1>5, <2>1
  <2>3. QED
    BY <2>2, <1>5
<1>7. IsFiniteSet(F) /\ IsFiniteSet(AheadOf(ids, id))
  BY <1>2, <1>6, FS_Subset
<1>8. Cardinality(AheadOf(ids, id)) <= Cardinality(F)
  BY <1>6, <1>7, FS_Subset
<1>9. ~(Cardinality(AheadOf(ids, id)) < limit)
  BY <1>5 DEF FirstIds
<1>10. QED
  BY <1>7, <1>8, <1>9, FS_CardinalityType

LEMMA GroupsAreWhole ==
  ASSUME ListingAssumption, TablesAssumption, TableInv,
         NEW limit \in 1..(RowCap \div 2), NEW order \in ByIdOnly(table)
  PROVE  LET groups == Groups(order, limit)
             ids == {r.id : r \in table}
         IN /\ \A g \in groups : g.rows = {r \in table : r.id = g.id}
            /\ Cardinality(groups) >= limit \/ {g.id : g \in groups} = ids
<1> DEFINE N == Cardinality(table)
           raw == First(order, RawLimit(limit))
           ids == {raw[i].id : i \in DOMAIN raw}
           F == FirstIds(ids, limit)
           Group(id) == [id |-> id, rows |-> {r \in ToSet(raw) : r.id = id}]
           groups == Groups(order, limit)
<1>0. limit \in Nat
  BY DEF ListingAssumption
<1>1. /\ N \in Nat /\ order \in [1..N -> table] /\ table \subseteq Artifacts
      /\ \A i, j \in 1..N : i # j => order[i] # order[j]
      /\ \A i, j \in 1..N : IdPlace(order[i].id) < IdPlace(order[j].id) => i < j
  <2>1. N \in Nat
    BY FS_CardinalityType DEF TableInv
  <2>2. order \in [1..N -> table] /\ \A i, j \in 1..N : i # j => order[i] # order[j]
    BY DEF ByIdOnly, SetToSeqs
  <2>3. DOMAIN order = 1..N
    BY <2>2
  <2>4. QED
    BY <2>1, <2>2, <2>3 DEF ByIdOnly, TableInv
<1>2. \A r \in table : \E i \in 1..N : order[i] = r
  <2>1. order \in Injection(1..N, table)
    BY <1>1 DEF Injection, IsInjective
  <2>2. Cardinality(1..N) = N
    BY <1>1, FirstNumbers
  <2>3. Cardinality(1..N) = Cardinality(table) /\ IsFiniteSet(table)
    BY <2>2 DEF TableInv
  <2> HIDE DEF N
  <2>4. \A S, T : \A f \in Injection(S, T) :
          IsFiniteSet(T) /\ Cardinality(S) = Cardinality(T) => f \in Surjection(S, T)
    BY FS_Injection
  <2>5. order \in Surjection(1..N, table)
    BY <2>1, <2>3, <2>4
  <2>6. QED
    BY <2>5 DEF Surjection
<1>3. PICK n \in Nat : /\ n <= N /\ Len(raw) = n /\ DOMAIN raw = 1..n
                       /\ \A i \in 1..n : raw[i] = order[i]
                       /\ (n = N \/ n >= 2 * limit)
  <2> HIDE DEF N
  <2>1. order \in Seq(table) /\ Len(order) = N
    BY <1>1
  <2>2. RawLimit(limit) \in Nat /\ RawLimit(limit) >= 2 * limit
    BY DEF RawLimit, ListingAssumption
  <2> DEFINE k == IF RawLimit(limit) < N THEN RawLimit(limit) ELSE N
  <2>3. raw = SubSeq(order, 1, k)
    BY <2>1 DEF First
  <2>4. k \in Nat /\ k <= N /\ (k = N \/ k >= 2 * limit)
    BY <1>1, <2>2
  <2> HIDE DEF k, raw
  <2>5. Len(raw) = k /\ DOMAIN raw = 1..k /\ \A i \in 1..k : raw[i] = order[i]
    BY <2>1, <2>3, <2>4
  <2>6. QED
    BY <2>4, <2>5
<1> HIDE DEF N, raw
<1>4. /\ \A k \in ids : \E i \in 1..n : k = order[i].id
      /\ \A i \in 1..n : order[i].id \in ids /\ order[i] \in ToSet(raw)
      /\ \A r \in ToSet(raw) : \E i \in 1..n : r = order[i]
      /\ 1..n \subseteq 1..N
  <2>1. 1..n \subseteq 1..N
    BY <1>1, <1>3
  <2>2. \A k \in ids : \E i \in 1..n : k = order[i].id
    BY <1>3
  <2>3. \A i \in 1..n : order[i].id \in ids /\ order[i] \in ToSet(raw)
    BY <1>3 DEF ToSet
  <2>4. \A r \in ToSet(raw) : \E i \in 1..n : r = order[i]
    BY <1>3 DEF ToSet
  <2>5. QED
    BY <2>1, <2>2, <2>3, <2>4
<1>5. groups = {Group(id) : id \in F}
  BY DEF Groups, FirstIds, AheadOf, raw
<1>6. /\ IsFiniteSet(ids) /\ Cardinality(ids) \in Nat
      /\ \A k \in ids : IdPlace(k) \in Nat
  <2> DEFINE h == [i \in 1..n |-> order[i].id]
  <2> HIDE DEF ids
  <2>1. h \in [1..n -> ids] /\ \A k \in ids : \E i \in 1..n : h[i] = k
    BY <1>4
  <2> HIDE DEF h
  <2>2. h \in Surjection(1..n, ids)
    BY <2>1 DEF Surjection
  <2>3. IsFiniteSet(1..n)
    BY <1>3, FirstNumbers
  <2>4. IsFiniteSet(ids)
    BY <2>2, <2>3, FS_Surjection
  <2>5. ASSUME NEW k \in ids PROVE IdPlace(k) \in Nat
    <3>1. PICK i \in 1..n : k = order[i].id
      BY <1>4
    <3>2. order[i] \in Artifacts
      BY <1>1, <1>4
    <3>3. QED
      BY <3>1, <3>2, IdPlaces
  <2>6. QED
    BY <2>4, <2>5, FS_CardinalityType
<1>7. F \in SUBSET ids /\ IsFiniteSet(F) /\ Cardinality(F) \in Nat
  <2> HIDE DEF ids
  <2>1. F \in SUBSET ids
    BY DEF FirstIds
  <2>2. QED
    BY <1>6, <2>1, FS_Subset, FS_CardinalityType
<1>8. ASSUME NEW id \in F, NEW r \in table, r.id = id
      PROVE  r \in ToSet(raw)
  <2> SUFFICES ASSUME r \notin ToSet(raw) PROVE FALSE
    OBVIOUS
  <2>1. PICK j \in 1..N : order[j] = r
    BY <1>2, <1>8
  <2>2. j \notin 1..n /\ n # N /\ n >= 2 * limit
    <3>1. j \notin 1..n
      BY <1>4, <2>1
    <3>2. QED
      BY <1>3, <2>1, <3>1
  <2> DEFINE K == AheadOf(ids, id) \cup {id}
             D == (1..n) \cup {j}
  <2>3. \A i \in 1..n : order[i].id \in K
    <3> SUFFICES ASSUME NEW i \in 1..n, order[i].id # id PROVE order[i].id \in AheadOf(ids, id)
      OBVIOUS
    <3>1. i \in 1..N /\ i < j /\ order[i] \in table
      BY <1>1, <1>3, <1>4, <2>1, <2>2
    <3>2. ~(IdPlace(id) < IdPlace(order[i].id))
      BY <1>1, <1>8, <2>1, <3>1
    <3>3. /\ IdPlace(id) \in Nat /\ IdPlace(order[i].id) \in Nat
          /\ IdPlace(id) # IdPlace(order[i].id)
      BY <1>1, <1>8, <3>1, IdPlaces
    <3>4. QED
      BY <1>4, <3>2, <3>3 DEF AheadOf
  <2> HIDE DEF ids, F
  <2>4. AheadOf(ids, id) \in SUBSET ids /\ id \notin AheadOf(ids, id)
    <3>1. id \in ids
      BY <1>7
    <3>2. QED
      BY <1>6, <3>1 DEF AheadOf
  <2>5. Cardinality(AheadOf(ids, id)) < limit
    BY DEF F, FirstIds
  <2>6. IsFiniteSet(AheadOf(ids, id)) /\ Cardinality(AheadOf(ids, id)) \in Nat
    BY <1>6, <2>4, FS_Subset, FS_CardinalityType
  <2>7. IsFiniteSet(K) /\ Cardinality(K) = Cardinality(AheadOf(ids, id)) + 1
    BY <2>4, <2>6, FS_AddElement
  <2>8. IsFiniteSet(1..n) /\ Cardinality(1..n) = n
    BY <1>3, FirstNumbers
  <2>9. IsFiniteSet(D) /\ Cardinality(D) = n + 1
    BY <2>2, <2>8, FS_AddElement
  <2>10. D \in SUBSET (1..N) /\ \A i \in D : order[i].id \in K
    BY <1>4, <1>8, <2>1, <2>3
  <2> HIDE DEF D, K
  <2>11. Cardinality(D) <= 2 * Cardinality(K)
    BY <1>1, <2>7, <2>9, <2>10, TwoRowsForEach
  <2>12. QED
    BY <1>3, <2>2, <2>5, <2>6, <2>7, <2>9, <2>11
<1>9. ASSUME NEW g \in groups PROVE g.rows = {r \in table : r.id = g.id}
  <2>1. PICK id \in F : g = Group(id)
    BY <1>5, <1>9
  <2>2. g.id = id /\ g.rows = {r \in ToSet(raw) : r.id = id}
    BY <2>1
  <2> HIDE DEF F, groups, Group
  <2>3. \A r \in ToSet(raw) : r \in table
    BY <1>1, <1>4
  <2>4. QED
    BY <1>8, <2>2, <2>3
<1>10. Cardinality(groups) >= limit \/ {g.id : g \in groups} = {r.id : r \in table}
  <2>1. {g.id : g \in groups} = F
    <3>1. \A x : Group(x).id = x
      OBVIOUS
    <3> HIDE DEF F, groups, Group
    <3>2. \A x \in F : Group(x) \in groups
      BY <1>5
    <3>3. \A g \in groups : \E x \in F : g = Group(x)
      BY <1>5
    <3>4. QED
      BY <3>1, <3>2, <3>3
  <2>2. Cardinality(groups) = Cardinality(F)
    <3> DEFINE f == [id \in F |-> Group(id)]
    <3>1. \A x, y : Group(x) = Group(y) => x = y
      <4>1. \A x : Group(x).id = x
        OBVIOUS
      <4> HIDE DEF Group
      <4>2. QED
        BY <4>1
    <3> HIDE DEF F, groups, Group
    <3>2. f \in [F -> groups] /\ \A g \in groups : \E x \in F : f[x] = g
      BY <1>5
    <3>3. \A x, y \in F : f[x] = f[y] => x = y
      BY <3>1
    <3> HIDE DEF f
    <3>4. f \in Bijection(F, groups)
      BY <3>2, <3>3 DEF Bijection, Injection, Surjection, IsInjective
    <3>5. ExistsBijection(F, groups)
      BY <3>4 DEF ExistsBijection
    <3>6. QED
      BY <1>7, <3>5, FS_Bijection
  <2>3. F = ids \/ Cardinality(F) >= limit
    <3> HIDE DEF ids
    <3>1. QED
      BY <1>0, <1>6, FirstIdsEnough
  <2>4. CASE n >= 2 * limit
    <3>1. Cardinality(1..n) <= 2 * Cardinality(ids)
      <4>1. IsFiniteSet(1..n)
        BY <1>3, FirstNumbers
      <4>2. 1..n \in SUBSET (1..N) /\ \A i \in 1..n : order[i].id \in ids
        BY <1>4
      <4> HIDE DEF ids
      <4>3. QED
        BY <1>1, <1>6, <4>1, <4>2, TwoRowsForEach
    <3>2. Cardinality(1..n) = n
      BY <1>3, FirstNumbers
    <3> HIDE DEF ids, F, groups
    <3>3. Cardinality(ids) >= limit
      BY <1>3, <1>6, <2>4, <3>1, <3>2 DEF ListingAssumption
    <3>4. Cardinality(F) >= limit
      BY <2>3, <3>3
    <3>5. QED
      BY <1>7, <2>2, <3>4
  <2>5. CASE n = N
    <3>1. ids = {r.id : r \in table}
      <4>1. \A r \in table : r.id \in ids
        BY <1>2, <1>4, <2>5
      <4>2. \A k \in ids : \E r \in table : k = r.id
        BY <1>1, <1>4
      <4> HIDE DEF ids
      <4>3. QED
        BY <4>1, <4>2
    <3> HIDE DEF ids, F, groups
    <3>2. QED
      BY <1>7, <2>1, <2>2, <2>3, <3>1
  <2>6. n = N \/ n >= 2 * limit
    BY <1>3
  <2> HIDE DEF groups
  <2>7. QED
    BY <2>4, <2>5, <2>6
<1> HIDE DEF groups
<1>11. QED
  BY <1>9, <1>10 DEF groups

(* A group shows all rows of its build-id and no group is missing, for any *)
(* number of rows, any limit up to half of what is read, and any order of  *)
(* the rows of a build-id.                                                 *)
THEOREM GroupsShowAll == Spec => []GroupsWhole
<1>1. ASSUME PagesInv PROVE GroupsWhole
  BY <1>1, GroupsAreWhole, ListingAssumption, TablesAssumption DEF PagesInv, GroupsWhole
<1>2. QED
  BY <1>1, PagesInvHolds, PTL

-----------------------------------------------------------------------------
(* Patterns.                                                               *)

LEMMA UptoIsSeq ==
  ASSUME NEW S, NEW n \in Nat
  PROVE  Upto(S, n) \subseteq Seq(S)
<1>1. ASSUME NEW k \in 0..n PROVE [1..k -> S] \subseteq Seq(S)
  <2>1. k \in Nat
    OBVIOUS
  <2>2. QED
    BY <2>1, SeqDef
<1>2. QED
  BY <1>1 DEF Upto

(* A pattern matches the names it means and no others, for any tokens and  *)
(* any lengths of patterns and names: what the wildcards, classes and      *)
(* slashes of internal/fnmatch promise to the searches that use it.        *)
THEOREM PatternsMeanWhatTheySay == Spec => []PatternsAgree
<1>1. GlobAgrees
  <2>1. Upto(Tokens, MaxTokens) \subseteq Seq(Tokens)
        /\ Upto(Letters, MaxLetters) \subseteq Seq(Letters)
    BY UptoIsSeq, TokensAssumption
  <2>2. QED
    BY <2>1, MatcherIsRight DEF GlobAgrees
<1>2. PatternsAgree
  BY <1>1 DEF PatternsAgree
<1>3. QED
  BY <1>2, PTL
================================================================================
