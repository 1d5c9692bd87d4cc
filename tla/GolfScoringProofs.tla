-------------------------- MODULE GolfScoringProofs --------------------------
(* Proofs about GolfScoring: for any entries, rules, picks and leaderboards *)
(* a pass counts the best scores, ranks fairly and keeps out who is out.    *)
EXTENDS GolfScoring, FiniteSetTheorems, TLAPS

-----------------------------------------------------------------------------
(* THE INVARIANT                                                            *)

(* What a pass over the leaderboard lb computes, one after the other.       *)
Pass(lb, rows, counted, scored, order, result) ==
    /\ rows = [e \in Entries |-> RowsOf(picks[e], lb)]
    /\ counted = [e \in Entries |-> Counted(rows[e])]
    /\ scored = [e \in Entries |-> ScoreEntry(picks[e], rows[e], counted[e])]
    /\ order = SortQualified(scored, {e \in Entries : scored[e].status = "qualified"})
    /\ result = RankEntries(scored, order)

ScoredTypeOK ==
    /\ rules \in Rules
    /\ picks \in Submitted
    /\ \A e \in Entries : ValidatePicks(picks[e])
    /\ leaderboard \in [Golfers -> Row \cup {None}]

(* Valid picks, a leaderboard of rows, and the scores of that leaderboard.  *)
ScoredInv ==
    /\ ScoredTypeOK
    /\ \E rows, counted, scored, order :
          Pass(leaderboard, rows, counted, scored, order, scores)

LEMMA ScorePoolPasses ==
    ASSUME NEW lb, NEW result, ScorePool(lb, result)
    PROVE  \E rows, counted, scored, order : Pass(lb, rows, counted, scored, order, result)
<1>1. PICK rows \in {[e \in Entries |-> RowsOf(picks[e], lb)]} :
       \E counted \in {[e \in Entries |-> Counted(rows[e])]} :
       \E scored \in {[e \in Entries |-> ScoreEntry(picks[e], rows[e], counted[e])]} :
       \E order \in {SortQualified(scored, {e \in Entries : scored[e].status = "qualified"})} :
          result = RankEntries(scored, order)
  BY DEF ScorePool
<1>2. PICK counted \in {[e \in Entries |-> Counted(rows[e])]} :
       \E scored \in {[e \in Entries |-> ScoreEntry(picks[e], rows[e], counted[e])]} :
       \E order \in {SortQualified(scored, {e \in Entries : scored[e].status = "qualified"})} :
          result = RankEntries(scored, order)
  BY <1>1
<1>3. PICK scored \in {[e \in Entries |-> ScoreEntry(picks[e], rows[e], counted[e])]} :
       \E order \in {SortQualified(scored, {e \in Entries : scored[e].status = "qualified"})} :
          result = RankEntries(scored, order)
  BY <1>2
<1>4. PICK order \in {SortQualified(scored, {e \in Entries : scored[e].status = "qualified"})} :
          result = RankEntries(scored, order)
  BY <1>3
<1>5. Pass(lb, rows, counted, scored, order, result)
  BY <1>4 DEF Pass
<1>. QED BY <1>5

LEMMA InitScored == Init => ScoredInv
BY ScorePoolPasses DEF Init, ScoredInv, ScoredTypeOK

LEMMA NextScored == ScoredTypeOK /\ Next => ScoredInv'
<1>. SUFFICES ASSUME ScoredTypeOK, Next PROVE ScoredInv'
  OBVIOUS
<1>. PICK g \in Golfers, row \in Row \cup {None} :
       /\ leaderboard' = [leaderboard EXCEPT ![g] = row]
       /\ ScorePool([leaderboard EXCEPT ![g] = row], scores')
       /\ UNCHANGED <<rules, picks>>
  BY DEF Next, SyncRow
<1>1. ScoredTypeOK'
  BY DEF ScoredTypeOK, ValidatePicks
<1>2. ASSUME NEW rows PROVE Counted(rows)' = Counted(rows)
  BY DEF Counted
<1>3. ASSUME NEW rows PROVE QualificationStatus(rows)' = QualificationStatus(rows)
  BY DEF QualificationStatus
<1>4. ASSUME NEW list, NEW rows, NEW counted
      PROVE ScoreEntry(list, rows, counted)' = ScoreEntry(list, rows, counted)
  BY <1>3 DEF ScoreEntry
<1>5. PICK rows, counted, scored, order :
        Pass([leaderboard EXCEPT ![g] = row], rows, counted, scored, order, scores')
  BY ScorePoolPasses
<1>6. Pass(leaderboard', rows, counted, scored, order, scores')
  BY <1>5
<1>7. Pass(leaderboard, rows, counted, scored, order, scores)'
  BY <1>2, <1>4, <1>6 DEF Pass
<1>. QED BY <1>1, <1>7 DEF ScoredInv

LEMMA ScoredStep == ScoredInv /\ [Next]_vars => ScoredInv'
<1>. SUFFICES ASSUME ScoredInv, [Next]_vars PROVE ScoredInv'
  OBVIOUS
<1>1. CASE Next
  BY <1>1, NextScored DEF ScoredInv
<1>2. CASE UNCHANGED vars
  <2>1. ScoredTypeOK'
    BY <1>2 DEF vars, ScoredInv, ScoredTypeOK, ValidatePicks
  <2>2. PICK rows, counted, scored, order :
          Pass(leaderboard, rows, counted, scored, order, scores)
    BY DEF ScoredInv
  <2>3. ASSUME NEW rs PROVE Counted(rs)' = Counted(rs)
    BY <1>2 DEF vars, Counted
  <2>4. ASSUME NEW rs PROVE QualificationStatus(rs)' = QualificationStatus(rs)
    BY <1>2 DEF vars, QualificationStatus
  <2>5. ASSUME NEW list, NEW rs, NEW c
        PROVE ScoreEntry(list, rs, c)' = ScoreEntry(list, rs, c)
    BY <2>4 DEF ScoreEntry
  <2>6. Pass(leaderboard, rows, counted, scored, order, scores)'
    BY <1>2, <2>2, <2>3, <2>5 DEF vars, Pass
  <2>. QED BY <2>1, <2>6 DEF ScoredInv
<1>. QED BY <1>1, <1>2

(* The invariant holds in every state, for any number of entries, any       *)
(* golfers, rules and leaderboards.                                         *)
THEOREM ScoringInvariant == Spec => []ScoredInv
BY InitScored, ScoredStep, PTL DEF Spec
-----------------------------------------------------------------------------
(* WHO IS OUT STAYS OUT                                                     *)

LEMMA RowsOfPicks ==
    ASSUME ScoredTypeOK, NEW e \in Entries, NEW lb \in [Golfers -> Row \cup {None}]
    PROVE  /\ Len(picks[e]) \in Nat
           /\ DOMAIN picks[e] = 1 .. Len(picks[e])
           /\ RowsOf(picks[e], lb) \in [DOMAIN picks[e] -> Row \cup {None}]
           /\ \A i, j \in DOMAIN picks[e] : picks[e][i].golfer = picks[e][j].golfer => i = j
<1>1. picks[e] \in Seq(Pick)
  BY ScoringAssumption DEF ScoredTypeOK
<1>2. \A i \in DOMAIN picks[e] : picks[e][i].golfer \in Golfers
  BY DEF ScoredTypeOK, ValidatePicks
<1>3. \A i, j \in DOMAIN picks[e] : picks[e][i].golfer = picks[e][j].golfer => i = j
  BY DEF ScoredTypeOK, ValidatePicks
<1>. QED BY <1>1, <1>2, <1>3 DEF RowsOf

LEMMA EligibleFinite ==
    ASSUME ScoredTypeOK, NEW e \in Entries, NEW lb \in [Golfers -> Row \cup {None}]
    PROVE  /\ IsFiniteSet(Eligible(RowsOf(picks[e], lb)))
           /\ Cardinality(Eligible(RowsOf(picks[e], lb))) \in Nat
<1>1. IsFiniteSet(1 .. Len(picks[e]))
  BY RowsOfPicks, FS_Interval
<1>2. Eligible(RowsOf(picks[e], lb)) \in SUBSET (1 .. Len(picks[e]))
  BY RowsOfPicks DEF Eligible, RowsOf
<1>3. IsFiniteSet(Eligible(RowsOf(picks[e], lb)))
  BY <1>1, <1>2, FS_Subset
<1>. QED BY <1>3, FS_CardinalityType

(* The status of an entry is that of the leaderboard's rows of its picks.   *)
StatusOfRows ==
    \A e \in Entries : scores[e].status = QualificationStatus(RowsOf(picks[e], leaderboard))

LEMMA StatusRight == ScoredInv => StatusOfRows
<1>. SUFFICES ASSUME ScoredInv, NEW e \in Entries
              PROVE  scores[e].status = QualificationStatus(RowsOf(picks[e], leaderboard))
  BY DEF StatusOfRows
<1>1. PICK rows, counted, scored, order :
        Pass(leaderboard, rows, counted, scored, order, scores)
  BY DEF ScoredInv
<1>2. scores[e].status = scored[e].status
  BY <1>1 DEF Pass, RankEntries
<1>3. scored[e] = ScoreEntry(picks[e], rows[e], counted[e])
  BY <1>1 DEF Pass
<1>4. rows[e] = RowsOf(picks[e], leaderboard)
  BY <1>1 DEF Pass
<1>. QED BY <1>2, <1>3, <1>4 DEF ScoreEntry

LEMMA OutStep ==
    ASSUME ScoredInv, ScoredInv', Next
    PROVE  \A e \in With("not_qualified") :
             scores'[e].status # "not_qualified" =>
                \E i \in DOMAIN picks[e] :
                   LET before == leaderboard[picks[e][i].golfer]
                       after == leaderboard'[picks[e][i].golfer]
                   IN /\ before # None /\ after # before
                      /\ after # None =>
                           after.status = "active" /\ (before.status # "active" \/ ~after.r2)
<1>. SUFFICES ASSUME NEW e \in Entries, scores[e].status = "not_qualified",
                     scores'[e].status # "not_qualified"
              PROVE  \E i \in DOMAIN picks[e] :
                       LET before == leaderboard[picks[e][i].golfer]
                           after == leaderboard'[picks[e][i].golfer]
                       IN /\ before # None /\ after # before
                          /\ after # None =>
                               after.status = "active" /\ (before.status # "active" \/ ~after.r2)
  BY DEF With
<1>. DEFINE R == RowsOf(picks[e], leaderboard)
            A == RowsOf(picks[e], leaderboard')
<1>1. /\ leaderboard \in [Golfers -> Row \cup {None}]
      /\ leaderboard' \in [Golfers -> Row \cup {None}]
      /\ rules' = rules /\ picks' = picks /\ rules.min_cuts_to_qualify \in Nat
  BY ScoringAssumption DEF ScoredInv, ScoredTypeOK, Next, SyncRow, PoolRules
<1>2. QualificationStatus(R) = "not_qualified"
  BY StatusRight DEF StatusOfRows
<1>3. QualificationStatus(A) # "not_qualified"
  <2>1. StatusOfRows'
    BY StatusRight, PTL
  <2>2. ASSUME NEW rows PROVE QualificationStatus(rows)' = QualificationStatus(rows)
    BY <1>1 DEF QualificationStatus
  <2>. QED BY <1>1, <2>1, <2>2 DEF StatusOfRows
<1>4. /\ R \in [DOMAIN picks[e] -> Row \cup {None}]
      /\ A \in [DOMAIN picks[e] -> Row \cup {None}]
      /\ \A i \in DOMAIN picks[e] : R[i] = leaderboard[picks[e][i].golfer]
      /\ \A i \in DOMAIN picks[e] : A[i] = leaderboard'[picks[e][i].golfer]
  BY <1>1, RowsOfPicks DEF ScoredInv, RowsOf
<1>5. /\ IsFiniteSet(Eligible(R)) /\ Cardinality(Eligible(R)) \in Nat
      /\ Cardinality(Eligible(A)) \in Nat
  BY <1>1, EligibleFinite DEF ScoredInv
<1>. HIDE DEF R, A
<1>6. /\ Cardinality(Eligible(R)) < rules.min_cuts_to_qualify
      /\ \A i \in DOMAIN picks[e] : R[i] # None /\ (R[i].status = "active" => R[i].r2)
  BY <1>1, <1>2, <1>4, <1>5 DEF QualificationStatus, AnyRoundsPending, Listed
<1>7. CASE Cardinality(Eligible(A)) >= rules.min_cuts_to_qualify
  <2>1. PICK i \in Eligible(A) : i \notin Eligible(R)
    <3>1. ~(Eligible(A) \subseteq Eligible(R))
      BY <1>1, <1>5, <1>6, <1>7, FS_Subset
    <3>. QED BY <3>1
  <2>2. /\ i \in DOMAIN picks[e] /\ A[i] # None /\ A[i].status = "active"
        /\ R[i].status # "active"
    BY <1>4, <1>6, <2>1 DEF Eligible, MadeCut, Listed
  <2>. QED BY <1>4, <1>6, <2>2
<1>8. CASE AnyRoundsPending(A)
  <2>1. PICK i \in DOMAIN picks[e] : A[i] = None \/ (A[i].status = "active" /\ ~A[i].r2)
    BY <1>4, <1>8 DEF AnyRoundsPending, Listed
  <2>. QED BY <1>4, <1>6, <2>1
<1>. QED BY <1>3, <1>7, <1>8 DEF QualificationStatus

(* An entry that has not qualified stays out, but for a golfer taken off    *)
(* the leaderboard or back from a cut, or a second round taken back.        *)
THEOREM OutStays == Spec => OutStaysOut
<1>1. ScoredInv /\ ScoredInv' /\ [Next]_vars =>
        [\A e \in With("not_qualified") :
         scores'[e].status # "not_qualified" =>
            \E i \in DOMAIN picks[e] :
               LET before == leaderboard[picks[e][i].golfer]
                   after == leaderboard'[picks[e][i].golfer]
               IN /\ before # None /\ after # before
                  /\ after # None =>
                       after.status = "active" /\ (before.status # "active" \/ ~after.r2)]_vars
  BY OutStep
<1>. QED BY <1>1, ScoringInvariant, PTL DEF Spec, OutStaysOut
-----------------------------------------------------------------------------
(* COUNTING THE ONES BEFORE                                                 *)

(* How many of S come before e in the order R.                              *)
Before(S, R, e) == {d \in S : <<d, e>> \in R}
Place(S, R, e) == Cardinality(Before(S, R, e))

IsOrder(S, R) ==
    /\ \A d \in S : <<d, d>> \notin R
    /\ \A d, e \in S : d # e => <<d, e>> \in R \/ <<e, d>> \in R
    /\ \A c, d, e \in S : <<c, d>> \in R /\ <<d, e>> \in R => <<c, e>> \in R

LEMMA PlaceType ==
    ASSUME NEW S, IsFiniteSet(S), NEW R, NEW e \in S, IsOrder(S, R)
    PROVE  /\ IsFiniteSet(Before(S, R, e))
           /\ Cardinality(S) \in Nat
           /\ Place(S, R, e) \in 0 .. Cardinality(S) - 1
<1>1. Before(S, R, e) \in SUBSET (S \ {e})
  BY DEF Before, IsOrder
<1>2. IsFiniteSet(S \ {e}) /\ Cardinality(S \ {e}) = Cardinality(S) - 1
  BY FS_RemoveElement
<1>3. IsFiniteSet(Before(S, R, e)) /\ Cardinality(Before(S, R, e)) <= Cardinality(S) - 1
  BY <1>1, <1>2, FS_Subset
<1>. QED BY <1>3, FS_CardinalityType DEF Place

LEMMA PlaceOrdered ==
    ASSUME NEW S, IsFiniteSet(S), NEW R, IsOrder(S, R), NEW d \in S, NEW e \in S
    PROVE  <<d, e>> \in R <=> Place(S, R, d) < Place(S, R, e)
<1>1. ASSUME NEW a \in S, NEW b \in S, <<a, b>> \in R
      PROVE  Place(S, R, a) < Place(S, R, b)
  <2>1. Before(S, R, a) \in SUBSET Before(S, R, b)
    BY <1>1 DEF Before, IsOrder
  <2>2. a \in Before(S, R, b) /\ a \notin Before(S, R, a)
    BY <1>1 DEF Before, IsOrder
  <2>3. /\ IsFiniteSet(Before(S, R, b))
        /\ Place(S, R, a) \in Nat /\ Place(S, R, b) \in Nat
    BY PlaceType
  <2>4. /\ Place(S, R, a) <= Place(S, R, b)
        /\ Place(S, R, a) = Place(S, R, b) => Before(S, R, a) = Before(S, R, b)
    BY <2>1, <2>3, FS_Subset DEF Place
  <2>. QED BY <2>2, <2>3, <2>4
<1>2. Place(S, R, d) \in Nat /\ Place(S, R, e) \in Nat
  BY PlaceType
<1>3. CASE <<d, e>> \in R
  BY <1>1, <1>3
<1>4. CASE <<d, e>> \notin R
  <2>1. CASE d = e
    BY <1>2, <1>4, <2>1
  <2>2. CASE <<e, d>> \in R
    BY <1>1, <1>2, <1>4, <2>2
  <2>. QED BY <1>4, <2>1, <2>2 DEF IsOrder
<1>. QED BY <1>3, <1>4

(* The places of a finite set in an order are those from none to all but    *)
(* one, each taken once.                                                    *)
LEMMA PlacesBijective ==
    ASSUME NEW S, IsFiniteSet(S), NEW R, IsOrder(S, R)
    PROVE  /\ [e \in S |-> Place(S, R, e)] \in Bijection(S, 0 .. Cardinality(S) - 1)
           /\ Cardinality(S) \in Nat
<1>. DEFINE n == Cardinality(S)
            T == 0 .. n - 1
            f == [e \in S |-> Place(S, R, e)]
<1>1. n \in Nat
  BY FS_CardinalityType
<1>2. f \in [S -> T]
  BY PlaceType
<1>3. ASSUME NEW d \in S, NEW e \in S, f[d] = f[e] PROVE d = e
  <2>1. Place(S, R, d) = Place(S, R, e) /\ Place(S, R, e) \in Nat
    BY <1>3, PlaceType
  <2>2. <<d, e>> \notin R /\ <<e, d>> \notin R
    BY <2>1, PlaceOrdered
  <2>. QED BY <2>2 DEF IsOrder
<1>4. f \in Injection(S, T)
  BY <1>2, <1>3 DEF Injection, IsInjective
<1>5. IsFiniteSet(T) /\ Cardinality(T) = n
  BY <1>1, FS_Interval
<1>. HIDE DEF n, T, f
<1>6. f \in Surjection(S, T)
  BY <1>4, <1>5, FS_Injection DEF n
<1>7. f \in Bijection(S, T)
  BY <1>4, <1>6 DEF Bijection
<1>. QED BY <1>1, <1>7 DEF n, T, f

LEMMA PlacesTaken ==
    ASSUME NEW S, IsFiniteSet(S), NEW R, IsOrder(S, R)
    PROVE  /\ \A i \in 0 .. Cardinality(S) - 1 : \E e \in S : Place(S, R, e) = i
           /\ \A d, e \in S : Place(S, R, d) = Place(S, R, e) => d = e
<1>. DEFINE f == [e \in S |-> Place(S, R, e)]
<1>1. f \in Injection(S, 0 .. Cardinality(S) - 1) /\ f \in Surjection(S, 0 .. Cardinality(S) - 1)
  BY PlacesBijective DEF Bijection
<1>. QED BY <1>1 DEF Injection, IsInjective, Surjection

LEMMA MinOfTwo ==
    ASSUME NEW a \in Int, NEW b \in Int
    PROVE  Min({a, b}) = IF a <= b THEN a ELSE b
<1>. DEFINE m == IF a <= b THEN a ELSE b
<1>1. m \in {a, b} /\ \A y \in {a, b} : m <= y
  OBVIOUS
<1>2. ASSUME NEW x \in {a, b}, \A y \in {a, b} : x <= y PROVE x = m
  BY <1>2
<1>. QED BY <1>1, <1>2 DEF Min

(* The k first of an order: k of them, or all when there are fewer.         *)
LEMMA FirstOfOrder ==
    ASSUME NEW S, IsFiniteSet(S), NEW R, IsOrder(S, R), NEW k \in Nat
    PROVE  Cardinality({e \in S : Place(S, R, e) < k}) = Min({k, Cardinality(S)})
<1>. DEFINE n == Cardinality(S)
            m == Min({k, n})
            F == {e \in S : Place(S, R, e) < k}
            g == [e \in F |-> Place(S, R, e)]
<1>1. n \in Nat
  BY FS_CardinalityType
<1>2. m = (IF k <= n THEN k ELSE n) /\ m \in Nat
  BY <1>1, MinOfTwo
<1>3. \A e \in S : Place(S, R, e) \in 0 .. n - 1
  BY PlaceType
<1>4. \A i \in 0 .. n - 1 : \E e \in S : Place(S, R, e) = i
  BY PlacesTaken
<1>5. \A d, e \in S : Place(S, R, d) = Place(S, R, e) => d = e
  BY PlacesTaken
<1>. HIDE DEF n, m
<1>6. g \in [F -> 0 .. m - 1]
  BY <1>1, <1>2, <1>3
<1>7. g \in Injection(F, 0 .. m - 1)
  BY <1>5, <1>6 DEF Injection, IsInjective
<1>8. \A i \in 0 .. m - 1 : \E e \in F : g[e] = i
  BY <1>1, <1>2, <1>4
<1>9. g \in Surjection(F, 0 .. m - 1)
  BY <1>6, <1>8 DEF Surjection
<1>10. IsFiniteSet(0 .. m - 1) /\ Cardinality(0 .. m - 1) = m
  <2>1. 0 \in Int /\ m \in Nat /\ m - 1 \in Int
    BY <1>2
  <2>2. /\ IsFiniteSet(0 .. m - 1)
        /\ Cardinality(0 .. m - 1) = IF 0 > m - 1 THEN 0 ELSE m - 1 - 0 + 1
    BY <2>1, FS_Interval
  <2>. QED BY <2>1, <2>2
<1>. HIDE DEF F, g
<1>11. Cardinality(F) = m
  BY <1>7, <1>9, <1>10, FS_Injection
<1>. QED BY <1>11 DEF F, m, n

(* A sort by place: the set's elements, one by one in their order.          *)
LEMMA SortByPlace ==
    ASSUME NEW S, IsFiniteSet(S), NEW R, IsOrder(S, R), NEW o \in [1 .. Cardinality(S) -> S],
           \A i \in 1 .. Cardinality(S) : Place(S, R, o[i]) = i - 1
    PROVE  \A e \in S : /\ Place(S, R, e) + 1 \in 1 .. Cardinality(S)
                        /\ o[Place(S, R, e) + 1] = e
<1>. SUFFICES ASSUME NEW e \in S
              PROVE  /\ Place(S, R, e) + 1 \in 1 .. Cardinality(S)
                     /\ o[Place(S, R, e) + 1] = e
  OBVIOUS
<1>1. Cardinality(S) \in Nat /\ Place(S, R, e) \in 0 .. Cardinality(S) - 1
  BY PlaceType
<1>2. Place(S, R, e) + 1 \in 1 .. Cardinality(S)
  BY <1>1
<1>3. Place(S, R, o[Place(S, R, e) + 1]) = Place(S, R, e)
  BY <1>1, <1>2
<1>. QED BY <1>2, <1>3, PlacesTaken

-----------------------------------------------------------------------------
(* SUMS                                                                     *)

(* A sum as a number of points: below each value, counted from -998, as     *)
(* many as it is high. Scores lie between -998 and 999.                     *)
Scores == -998 .. 999
Top == 999 + 998
Area(f, S) == {p \in S \X (1 .. Top) : p[2] <= f[p[1]] + 998}
Total(f, S) == Cardinality(Area(f, S)) - 998 * Cardinality(S)

LEMMA AreaFinite ==
    ASSUME NEW D, NEW f \in [D -> Scores], NEW S \in SUBSET D, IsFiniteSet(S)
    PROVE  /\ IsFiniteSet(Area(f, S)) /\ Cardinality(Area(f, S)) \in Nat
           /\ Cardinality(S) \in Nat
<1>1. IsFiniteSet(1 .. Top)
  <2>1. Top \in Int
    BY DEF Top
  <2>. QED BY <2>1, FS_Interval
<1>2. IsFiniteSet(S \X (1 .. Top))
  BY <1>1, FS_Product
<1>3. IsFiniteSet(Area(f, S))
  BY <1>2, FS_Subset DEF Area
<1>. QED BY <1>3, FS_CardinalityType

LEMMA TotalEmpty == ASSUME NEW f PROVE Total(f, {}) = 0
<1>1. Area(f, {}) = {}
  BY DEF Area
<1>. QED BY <1>1, FS_EmptySet DEF Total

(* One member more adds its value.                                          *)
LEMMA TotalStep ==
    ASSUME NEW D, NEW f \in [D -> Scores], NEW S \in SUBSET D, IsFiniteSet(S), NEW x \in S
    PROVE  Total(f, S) = f[x] + Total(f, S \ {x})
<1>. DEFINE m == f[x] + 998
            X == {x}
            H == 1 .. m
            Bar == X \X H
            Rest == Area(f, S \ {x})
<1>1. m \in 0 .. Top /\ m \in Int /\ f[x] \in Int /\ Top \in Nat
  <2>1. \A v \in Scores : v + 998 \in 0 .. Top /\ v \in Int /\ v + 998 \in Int
    BY DEF Scores, Top
  <2>2. f[x] \in Scores /\ Top \in Nat
    BY DEF Top
  <2>. QED BY <2>1, <2>2
<1>2. IsFiniteSet(Bar) /\ Cardinality(Bar) = m
  <2>1. IsFiniteSet(X) /\ Cardinality(X) = 1
    BY FS_Singleton
  <2>2. IsFiniteSet(H) /\ Cardinality(H) = m
    <3>. HIDE DEF m
    <3>1. /\ IsFiniteSet(1 .. m)
          /\ Cardinality(1 .. m) = IF 1 > m THEN 0 ELSE m - 1 + 1
      BY <1>1, FS_Interval
    <3>. QED BY <1>1, <3>1
  <2>. HIDE DEF X, H
  <2>3. IsFiniteSet(X \X H) /\ Cardinality(X \X H) = Cardinality(X) * Cardinality(H)
    BY <2>1, <2>2, FS_Product
  <2>4. IsFiniteSet(Bar) /\ Cardinality(Bar) = 1 * m
    BY <2>1, <2>2, <2>3
  <2>. QED BY <1>1, <2>4
<1>3. /\ IsFiniteSet(S \ {x}) /\ Cardinality(S \ {x}) = Cardinality(S) - 1
      /\ Cardinality(S) \in Nat
  BY FS_RemoveElement, FS_CardinalityType
<1>4. IsFiniteSet(Rest) /\ Cardinality(Rest) \in Nat
  BY <1>3, AreaFinite
<1>5. Area(f, S) = Bar \cup Rest
  <2>1. ASSUME NEW p \in Area(f, S) PROVE p \in Bar \cup Rest
    <3>1. p \in S \X (1 .. Top) /\ p[2] <= f[p[1]] + 998
      BY DEF Area
    <3>2. CASE p[1] = x
      <4>1. p[2] \in 1 .. m
        BY <1>1, <3>1, <3>2
      <4>. QED BY <3>1, <3>2, <4>1
    <3>3. CASE p[1] # x
      BY <3>1, <3>3 DEF Area
    <3>. QED BY <3>2, <3>3
  <2>2. ASSUME NEW p \in Bar PROVE p \in Area(f, S)
    BY <1>1 DEF Area
  <2>3. Rest \subseteq Area(f, S)
    BY DEF Area
  <2>. QED BY <2>1, <2>2, <2>3
<1>6. Bar \cap Rest = {}
  BY DEF Area
<1>. HIDE DEF Bar, Rest, m, X, H
<1>7. Cardinality(Area(f, S)) = m + Cardinality(Rest) - Cardinality({})
  BY <1>2, <1>4, <1>5, <1>6, FS_Union
<1>8. Cardinality({}) = 0
  BY FS_EmptySet
<1>9. Cardinality(Area(f, S)) = f[x] + 998 + Cardinality(Rest)
  BY <1>1, <1>4, <1>7, <1>8 DEF m
<1>. QED BY <1>1, <1>3, <1>4, <1>9 DEF Total, Rest

(* What a fold over a set that adds value after value comes to.             *)
LEMMA SumIsTotal ==
    ASSUME NEW S, IsFiniteSet(S), NEW f \in [S -> Scores], NEW iter,
           iter = [s \in SUBSET S |->
                     IF s = {} THEN 0
                     ELSE f[CHOOSE x \in s : TRUE] + iter[s \ {CHOOSE x \in s : TRUE}]]
    PROVE  iter[S] = Total(f, S)
<1>. DEFINE Bad == {s \in SUBSET S : iter[s] # Total(f, s)}
<1>1. SUFFICES Bad = {}
  OBVIOUS
<1>2. SUFFICES ASSUME Bad # {} PROVE FALSE
  OBVIOUS
<1>3. PICK s \in Bad : \A t \in Bad : <<t, s>> \notin StrictSubsetOrdering(S)
  <2>1. IsWellFoundedOn(StrictSubsetOrdering(S), SUBSET S)
    BY FS_StrictSubsetOrderingWellFounded, FS_FiniteSubsetsOfFinite
  <2>2. Bad \subseteq SUBSET S
    OBVIOUS
  <2>. HIDE DEF Bad
  <2>. QED BY <1>2, <2>1, <2>2, WFMin
<1>4. s \in SUBSET S /\ iter[s] # Total(f, s) /\ IsFiniteSet(s)
  BY FS_Subset
<1>5. s # {}
  BY <1>4, TotalEmpty
<1>. DEFINE x == CHOOSE x \in s : TRUE
<1>6. x \in s
  BY <1>5
<1>7. s \ {x} \in SUBSET S /\ iter[s] = f[x] + iter[s \ {x}]
  BY <1>4, <1>5
<1>. HIDE DEF x
<1>8. iter[s \ {x}] = Total(f, s \ {x})
  <2>1. <<s \ {x}, s>> \in StrictSubsetOrdering(S)
    BY <1>4, <1>6 DEF StrictSubsetOrdering
  <2>. QED BY <1>3, <1>7, <2>1
<1>9. Total(f, s) = f[x] + Total(f, s \ {x})
  BY <1>4, <1>6, TotalStep
<1>. QED BY <1>4, <1>7, <1>8, <1>9

LEMMA TotalRecursion ==
    ASSUME NEW S, IsFiniteSet(S), NEW f \in [S -> Scores], NEW s \in SUBSET S, s # {}
    PROVE  LET x == CHOOSE x \in s : TRUE
           IN  x \in s /\ Total(f, s) = f[x] + Total(f, s \ {x})
<1>1. IsFiniteSet(s)
  BY FS_Subset
<1>. DEFINE x == CHOOSE x \in s : TRUE
<1>2. x \in s
  OBVIOUS
<1>. HIDE DEF x
<1>3. Total(f, s) = f[x] + Total(f, s \ {x})
  BY <1>1, <1>2, TotalStep
<1>. QED BY <1>2, <1>3 DEF x

(* The two sums of the module: the totals of golfers and their sort scores. *)
LEMMA SumOfTotals ==
    ASSUME NEW S, IsFiniteSet(S), NEW rows, NEW f \in [S -> Scores],
           \A i \in S : f[i] = rows[i].total
    PROVE  MapThenSumSet(LAMBDA i : rows[i].total, S) = Total(f, S)
<1>. DEFINE Def(g) == [s \in SUBSET S |->
                        IF s = {} THEN 0
                        ELSE rows[CHOOSE x \in s : TRUE].total + g[s \ {CHOOSE x \in s : TRUE}]]
            c == [s \in SUBSET S |-> Total(f, s)]
            iter == CHOOSE g : g = Def(g)
<1>1. MapThenSumSet(LAMBDA i : rows[i].total, S) = iter[S]
  BY DEF MapThenSumSet, MapThenFoldSet
<1>2. \A s \in SUBSET S : s # {} =>
        LET x == CHOOSE x \in s : TRUE IN x \in s /\ rows[x].total = f[x]
  OBVIOUS
<1>3. c = Def(c)
  <2>1. ASSUME NEW s \in SUBSET S, s = {} PROVE c[s] = Def(c)[s]
    BY <2>1, TotalEmpty
  <2>2. ASSUME NEW s \in SUBSET S, s # {} PROVE c[s] = Def(c)[s]
    BY <1>2, <2>2, TotalRecursion
  <2>3. \A s \in SUBSET S : c[s] = Def(c)[s]
    BY <2>1, <2>2
  <2>. QED BY <2>3
<1>4. iter = Def(iter)
  <2>. HIDE DEF Def, c
  <2>. QED BY <1>3
<1>. HIDE DEF iter
<1>5. iter = [s \in SUBSET S |->
                IF s = {} THEN 0
                ELSE f[CHOOSE x \in s : TRUE] + iter[s \ {CHOOSE x \in s : TRUE}]]
  BY <1>2, <1>4
<1>6. iter[S] = Total(f, S)
  BY <1>5, SumIsTotal
<1>. QED BY <1>1, <1>6

LEMMA SumOfSortScores ==
    ASSUME NEW S, IsFiniteSet(S), NEW rows, NEW f \in [S -> Scores],
           \A i \in S : f[i] = SortScore(rows[i])
    PROVE  MapThenSumSet(LAMBDA i : SortScore(rows[i]), S) = Total(f, S)
<1>. DEFINE Def(g) == [s \in SUBSET S |->
                        IF s = {} THEN 0
                        ELSE SortScore(rows[CHOOSE x \in s : TRUE]) + g[s \ {CHOOSE x \in s : TRUE}]]
            c == [s \in SUBSET S |-> Total(f, s)]
            iter == CHOOSE g : g = Def(g)
<1>1. MapThenSumSet(LAMBDA i : SortScore(rows[i]), S) = iter[S]
  BY DEF MapThenSumSet, MapThenFoldSet
<1>2. \A s \in SUBSET S : s # {} =>
        LET x == CHOOSE x \in s : TRUE IN x \in s /\ SortScore(rows[x]) = f[x]
  OBVIOUS
<1>3. c = Def(c)
  <2>1. ASSUME NEW s \in SUBSET S, s = {} PROVE c[s] = Def(c)[s]
    BY <2>1, TotalEmpty
  <2>2. ASSUME NEW s \in SUBSET S, s # {} PROVE c[s] = Def(c)[s]
    BY <1>2, <2>2, TotalRecursion
  <2>3. \A s \in SUBSET S : c[s] = Def(c)[s]
    BY <2>1, <2>2
  <2>. QED BY <2>3
<1>4. iter = Def(iter)
  <2>. HIDE DEF Def, c
  <2>. QED BY <1>3
<1>. HIDE DEF iter
<1>5. iter = [s \in SUBSET S |->
                IF s = {} THEN 0
                ELSE f[CHOOSE x \in s : TRUE] + iter[s \ {CHOOSE x \in s : TRUE}]]
  BY <1>2, <1>4
<1>6. iter[S] = Total(f, S)
  BY <1>5, SumIsTotal
<1>. QED BY <1>1, <1>6

(* As many other members, each with a value no lower, have no lower sum.    *)
LEMMA Exchange ==
    ASSUME NEW D, NEW f \in [D -> Scores],
           NEW C \in SUBSET D, IsFiniteSet(C), NEW E \in SUBSET D, IsFiniteSet(E),
           Cardinality(C) = Cardinality(E), \A c \in C, e \in E \ C : f[c] <= f[e]
    PROVE  Total(f, C) <= Total(f, E)
<1>1. PICK h \in Bijection(C \ E, E \ C) : TRUE
  <2>1. /\ Cardinality(C \ E) = Cardinality(C) - Cardinality(C \cap E)
        /\ Cardinality(E \ C) = Cardinality(E) - Cardinality(E \cap C)
        /\ IsFiniteSet(C \ E) /\ IsFiniteSet(E \ C)
    BY FS_Difference
  <2>2. C \cap E = E \cap C
    OBVIOUS
  <2>3. ExistsBijection(C \ E, E \ C)
    BY <2>1, <2>2, FS_SameCardinalityBij
  <2>. QED BY <2>3 DEF ExistsBijection
<1>. DEFINE to(i) == IF i \in E THEN i ELSE h[i]
            g == [p \in Area(f, C) |-> <<to(p[1]), p[2]>>]
<1>2. \A i \in C : to(i) \in E /\ f[i] <= f[to(i)]
  <2>1. h \in [C \ E -> E \ C]
    BY <1>1 DEF Bijection, Injection
  <2>2. ASSUME NEW i \in C, i \in E PROVE to(i) \in E /\ f[i] <= f[to(i)]
    <3>1. \A v \in Scores : v <= v
      BY DEF Scores
    <3>2. to(i) = i /\ f[i] \in Scores
      BY <2>2
    <3>3. f[i] <= f[i]
      BY <3>1, <3>2
    <3>. QED BY <2>2, <3>2, <3>3
  <2>3. ASSUME NEW i \in C, i \notin E PROVE to(i) \in E /\ f[i] <= f[to(i)]
    BY <2>1, <2>3
  <2>. QED BY <2>2, <2>3
<1>3. \A i, j \in C : to(i) = to(j) => i = j
  <2>1. h \in [C \ E -> E \ C] /\ \A i, j \in C \ E : h[i] = h[j] => i = j
    BY <1>1 DEF Bijection, Injection, IsInjective
  <2>. QED BY <2>1
<1>. HIDE DEF to
<1>4. ASSUME NEW p \in Area(f, C) PROVE p[1] \in C /\ p = <<p[1], p[2]>> /\ g[p] \in Area(f, E)
  <2>1. p \in C \X (1 .. Top) /\ p[2] <= f[p[1]] + 998
    BY DEF Area
  <2>2. to(p[1]) \in E /\ f[p[1]] <= f[to(p[1])] /\ p[2] \in Int
    BY <1>2, <2>1
  <2>3. f[p[1]] \in Int /\ f[to(p[1])] \in Int
    <3>1. \A v \in Scores : v \in Int
      BY DEF Scores
    <3>. QED BY <2>1, <2>2, <3>1
  <2>4. p[2] <= f[to(p[1])] + 998
    BY <2>1, <2>2, <2>3
  <2>5. <<to(p[1]), p[2]>> \in Area(f, E)
    BY <2>1, <2>2, <2>4 DEF Area
  <2>. QED BY <2>1, <2>5
<1>5. \A p, q \in Area(f, C) : g[p] = g[q] => p = q
  <2>. SUFFICES ASSUME NEW p \in Area(f, C), NEW q \in Area(f, C), g[p] = g[q] PROVE p = q
    OBVIOUS
  <2>1. to(p[1]) = to(q[1]) /\ p[2] = q[2]
    OBVIOUS
  <2>. QED BY <1>3, <1>4, <2>1
<1>6. g \in Injection(Area(f, C), Area(f, E))
  BY <1>4, <1>5 DEF Injection, IsInjective
<1>7. Cardinality(Area(f, C)) <= Cardinality(Area(f, E))
  <2>1. IsFiniteSet(Area(f, E))
    BY AreaFinite
  <2>. HIDE DEF g
  <2>. QED BY <1>6, <2>1, FS_Injection
<1>. QED BY <1>7, AreaFinite DEF Total

(* The scores of as many golfers as count stay below the 9999 that stands   *)
(* for no score.                                                            *)
LEMMA TotalBelow ==
    ASSUME NEW S, IsFiniteSet(S), Cardinality(S) <= MaxCounted, NEW f \in [S -> Scores],
           \A i \in S : f[i] # 999
    PROVE  Total(f, S) \in Int /\ Total(f, S) < 9999
<1>. DEFINE n == Cardinality(S)
            t == Top - 1
            H == 1 .. t
<1>1. n \in 0 .. 10 /\ t = 1996
  BY FS_CardinalityType DEF MaxCounted, Top
<1>2. \A i \in S : f[i] + 998 <= t /\ f[i] \in Int
  <2>1. \A v \in Scores : v # 999 => v + 998 <= 1996 /\ v \in Int
    BY DEF Scores
  <2>. QED BY <1>1, <2>1
<1>3. IsFiniteSet(H) /\ Cardinality(H) = t
  <2>1. t \in Int /\ 1 <= t
    BY <1>1
  <2>. HIDE DEF t
  <2>2. IsFiniteSet(H) /\ Cardinality(H) = IF 1 > t THEN 0 ELSE t - 1 + 1
    BY <2>1, FS_Interval
  <2>. QED BY <2>1, <2>2
<1>4. Area(f, S) \in SUBSET (S \X H)
  <2>1. ASSUME NEW p \in Area(f, S) PROVE p \in S \X H
    <3>1. p \in S \X (1 .. Top) /\ p[2] <= f[p[1]] + 998
      BY DEF Area
    <3>2. p[2] \in H
      BY <1>1, <1>2, <3>1 DEF Top
    <3>. QED BY <3>1, <3>2
  <2>. QED BY <2>1
<1>. HIDE DEF H
<1>5. IsFiniteSet(S \X H) /\ Cardinality(S \X H) = n * t
  BY <1>3, FS_Product
<1>6. Cardinality(Area(f, S)) <= n * t
  BY <1>4, <1>5, FS_Subset
<1>7. Cardinality(Area(f, S)) \in Nat
  BY AreaFinite
<1>8. n * t = n * 1996
  BY <1>1
<1>. QED BY <1>1, <1>6, <1>7, <1>8 DEF Total
-----------------------------------------------------------------------------
(* THE BEST SCORES COUNT                                                    *)

(* The order in which the eligible picks are sorted.                        *)
PickOrder(rows) ==
    {p \in Eligible(rows) \X Eligible(rows) : Precedes(rows, p[1], p[2])}

LEMMA TotalsAreScores == \A t \in Totals : t \in Scores /\ t # 999 /\ t \in Int
<1>. SUFFICES ASSUME NEW t \in Totals PROVE t \in Scores /\ t # 999 /\ t \in Int
  OBVIOUS
<1>1. t \in -998 .. 998
  BY ScoringAssumption
<1>. QED BY <1>1 DEF Scores

LEMMA SortScoreType ==
    ASSUME NEW row \in Row \cup {None}, row # None
    PROVE  /\ SortScore(row) \in Scores /\ SortScore(row) \in Int
           /\ row.total # None => row.total \in Scores /\ row.total # 999
<1>1. row.total \in Totals \cup {None}
  BY DEF Row
<1>2. 999 \in Scores /\ 999 \in Int
  BY DEF Scores
<1>. QED BY <1>1, <1>2, TotalsAreScores DEF SortScore

LEMMA PickOrderIsOrder ==
    ASSUME NEW n \in Nat, NEW rows \in [1 .. n -> Row \cup {None}]
    PROVE  IsOrder(Eligible(rows), PickOrder(rows))
<1>1. \A i \in Eligible(rows) : i \in Int /\ SortScore(rows[i]) \in Int
  <2>1. ASSUME NEW i \in Eligible(rows) PROVE i \in Int /\ SortScore(rows[i]) \in Int
    <3>1. i \in 1 .. n /\ rows[i] \in Row \cup {None} /\ rows[i] # None
      BY DEF Eligible, MadeCut, Listed
    <3>. QED BY <3>1, SortScoreType
  <2>. QED BY <2>1
<1>2. \A i, j \in Eligible(rows) : <<i, j>> \in PickOrder(rows) <=> Precedes(rows, i, j)
  BY DEF PickOrder
<1>. QED BY <1>1, <1>2 DEF IsOrder, Precedes

(* The picks that count: the first count_best in that order.                *)
LEMMA CountedFirst ==
    ASSUME rules \in Rules, NEW n \in Nat, NEW rows \in [1 .. n -> Row \cup {None}]
    PROVE  /\ Counted(rows) \in kSubset(Min({rules.count_best, Cardinality(Eligible(rows))}),
                                        Eligible(rows))
           /\ IsFiniteSet(Eligible(rows)) /\ IsFiniteSet(Counted(rows))
           /\ Cardinality(Counted(rows)) <= MaxCounted
           /\ \A c \in Counted(rows), d \in Eligible(rows) \ Counted(rows) :
                 SortScore(rows[c]) <= SortScore(rows[d])
<1>. DEFINE El == Eligible(rows)
            R == PickOrder(rows)
            k == rules.count_best
<1>1. k \in Nat /\ k <= MaxCounted /\ MaxCounted \in Nat
  BY ScoringAssumption DEF PoolRules, MaxCounted
<1>2. IsFiniteSet(El)
  <2>1. IsFiniteSet(1 .. n) /\ El \in SUBSET (1 .. n)
    BY FS_Interval DEF Eligible
  <2>. QED BY <2>1, FS_Subset
<1>3. IsOrder(El, R)
  BY PickOrderIsOrder
<1>4. \A i \in El : {j \in El : Precedes(rows, j, i)} = Before(El, R, i)
  BY DEF Before, PickOrder
<1>5. Counted(rows) = {i \in El : Place(El, R, i) < k}
  BY <1>4 DEF Counted, Place
<1>6. \A i \in El : Place(El, R, i) \in Nat
  BY <1>2, <1>3, PlaceType
<1>7. ASSUME NEW c \in Counted(rows), NEW d \in El \ Counted(rows)
      PROVE  SortScore(rows[c]) <= SortScore(rows[d])
  <2>1. c \in El /\ d \in El /\ Place(El, R, c) < k /\ ~(Place(El, R, d) < k)
    BY <1>5
  <2>2. <<c, d>> \in R
    BY <1>1, <1>2, <1>3, <1>6, <2>1, PlaceOrdered
  <2>3. Precedes(rows, c, d)
    BY <2>2 DEF PickOrder
  <2>4. SortScore(rows[c]) \in Int /\ SortScore(rows[d]) \in Int
    <3>1. /\ rows[c] \in Row \cup {None} /\ rows[c] # None
          /\ rows[d] \in Row \cup {None} /\ rows[d] # None
      BY <2>1 DEF Eligible, MadeCut, Listed
    <3>. QED BY <3>1, SortScoreType
  <2>. QED BY <2>3, <2>4 DEF Precedes
<1>. HIDE DEF El, R, k
<1>8. Cardinality(Counted(rows)) = Min({k, Cardinality(El)})
  BY <1>1, <1>2, <1>3, <1>5, FirstOfOrder
<1>9. Counted(rows) \in SUBSET El
  BY <1>5
<1>10. IsFiniteSet(Counted(rows))
  BY <1>2, <1>9, FS_Subset
<1>11. Cardinality(Counted(rows)) <= MaxCounted
  <2>1. Cardinality(El) \in Nat
    BY <1>2, FS_CardinalityType
  <2>. QED BY <1>1, <1>8, <2>1, MinOfTwo
<1>. QED BY <1>2, <1>7, <1>8, <1>9, <1>10, <1>11 DEF kSubset, El, k

(* No other choice of as many has a lower sum.                              *)
LEMMA CountedBest ==
    ASSUME rules \in Rules, NEW n \in Nat, NEW rows \in [1 .. n -> Row \cup {None}],
           NEW chosen \in kSubset(Min({rules.count_best, Cardinality(Eligible(rows))}),
                                  Eligible(rows))
    PROVE  MapThenSumSet(LAMBDA i : SortScore(rows[i]), Counted(rows)) <=
           MapThenSumSet(LAMBDA i : SortScore(rows[i]), chosen)
<1>. DEFINE El == Eligible(rows)
            f == [i \in El |-> SortScore(rows[i])]
            C == Counted(rows)
<1>1. f \in [El -> Scores]
  <2>1. \A i \in El : rows[i] \in Row \cup {None} /\ rows[i] # None
    BY DEF Eligible, MadeCut, Listed
  <2>2. \A i \in El : SortScore(rows[i]) \in Scores
    BY <2>1, SortScoreType
  <2>. QED BY <2>2
<1>2. /\ C \in SUBSET El /\ IsFiniteSet(C) /\ IsFiniteSet(El)
      /\ \A c \in C, d \in El \ C : SortScore(rows[c]) <= SortScore(rows[d])
      /\ chosen \in SUBSET El /\ Cardinality(C) = Cardinality(chosen)
  BY CountedFirst DEF kSubset
<1>3. IsFiniteSet(chosen)
  BY <1>2, FS_Subset
<1>4. \A c \in C, d \in chosen \ C : f[c] <= f[d]
  BY <1>2
<1>5. ASSUME NEW S \in SUBSET El, IsFiniteSet(S)
      PROVE  MapThenSumSet(LAMBDA i : SortScore(rows[i]), S) = Total(f, S)
  <2>. DEFINE g == [i \in S |-> SortScore(rows[i])]
  <2>1. g \in [S -> Scores] /\ \A i \in S : g[i] = SortScore(rows[i])
    BY <1>1
  <2>2. Area(g, S) = Area(f, S)
    BY DEF Area
  <2>. HIDE DEF g
  <2>3. MapThenSumSet(LAMBDA i : SortScore(rows[i]), S) = Total(g, S)
    BY <1>5, <2>1, SumOfSortScores
  <2>. QED BY <2>2, <2>3 DEF Total
<1>. HIDE DEF El, f, C
<1>6. Total(f, C) <= Total(f, chosen)
  BY <1>1, <1>2, <1>3, <1>4, Exchange
<1>7. /\ MapThenSumSet(LAMBDA i : SortScore(rows[i]), C) = Total(f, C)
      /\ MapThenSumSet(LAMBDA i : SortScore(rows[i]), chosen) = Total(f, chosen)
  BY <1>2, <1>3, <1>5
<1>. QED BY <1>6, <1>7 DEF C

(* The flags are those of the picks that count: no golfer is picked twice.  *)
LEMMA FlagsOfCounted ==
    ASSUME ScoredTypeOK, NEW e \in Entries, NEW counted \in SUBSET (DOMAIN picks[e])
    PROVE  CountsTowardTotal(picks[e], counted) = counted
<1>1. \A i, j \in DOMAIN picks[e] : picks[e][i].golfer = picks[e][j].golfer => i = j
  BY DEF ScoredTypeOK, ValidatePicks
<1>. QED BY <1>1 DEF CountsTowardTotal

LEMMA EntryRows ==
    ASSUME ScoredInv, NEW e \in Entries
    PROVE  /\ Len(picks[e]) \in Nat /\ DOMAIN picks[e] = 1 .. Len(picks[e])
           /\ RowsOf(picks[e], leaderboard) \in [1 .. Len(picks[e]) -> Row \cup {None}]
           /\ rules \in Rules
<1>1. ScoredTypeOK /\ leaderboard \in [Golfers -> Row \cup {None}]
  BY DEF ScoredInv, ScoredTypeOK
<1>. QED BY <1>1, RowsOfPicks DEF ScoredTypeOK

LEMMA BestCounts == ScoredInv => BestScoresCount
<1>. SUFFICES ASSUME ScoredInv, NEW e \in Entries,
                     NEW rows \in {RowsOf(picks[e], leaderboard)}
              PROVE  LET sum(chosen) == MapThenSumSet(LAMBDA i : SortScore(rows[i]), chosen)
                         n == Min({rules.count_best, Cardinality(Eligible(rows))})
                     IN  /\ scores[e].counted \in kSubset(n, Eligible(rows))
                         /\ \A chosen \in kSubset(n, Eligible(rows)) :
                               sum(scores[e].counted) <= sum(chosen)
  BY Zenon DEF BestScoresCount
<1>1. PICK rs, counted, scored, order : Pass(leaderboard, rs, counted, scored, order, scores)
  BY DEF ScoredInv
<1>2. scores[e].counted = CountsTowardTotal(picks[e], Counted(rows))
  BY <1>1 DEF Pass, RankEntries, ScoreEntry
<1>3. /\ Len(picks[e]) \in Nat /\ DOMAIN picks[e] = 1 .. Len(picks[e])
      /\ rows \in [1 .. Len(picks[e]) -> Row \cup {None}] /\ rules \in Rules
  BY EntryRows
<1>4. Counted(rows) \in SUBSET (DOMAIN picks[e])
  BY <1>3 DEF Counted, Eligible
<1>5. scores[e].counted = Counted(rows)
  BY <1>2, <1>4, FlagsOfCounted DEF ScoredInv
<1>6. Counted(rows) \in kSubset(Min({rules.count_best, Cardinality(Eligible(rows))}),
                                Eligible(rows))
  BY <1>3, CountedFirst
<1>7. ASSUME NEW chosen \in kSubset(Min({rules.count_best, Cardinality(Eligible(rows))}),
                                    Eligible(rows))
      PROVE  MapThenSumSet(LAMBDA i : SortScore(rows[i]), Counted(rows)) <=
             MapThenSumSet(LAMBDA i : SortScore(rows[i]), chosen)
  BY <1>3, CountedBest
<1>. QED BY <1>5, <1>6, <1>7

(* The golfers who count are the best there are: no other choice of as many *)
(* eligible picks has a lower sum.                                          *)
THEOREM BestScores == Spec => []BestScoresCount
BY ScoringInvariant, BestCounts, PTL
-----------------------------------------------------------------------------
(* THE RANKS ARE FAIR                                                       *)

LEMMA LeastNat ==
    ASSUME NEW T \in SUBSET Nat, T # {}
    PROVE  \E n \in T : \A m \in T : ~(m < n)
<1>. DEFINE Less == {ss \in Nat \X Nat : ss[1] < ss[2]}
<1>1. IsWellFoundedOn(Less, Nat)
  BY NatLessThanWellFounded DEF OpToRel
<1>2. \A m, n \in Nat : <<m, n>> \in Less <=> m < n
  OBVIOUS
<1>. HIDE DEF Less
<1>3. PICK n \in T : \A m \in T : <<m, n>> \notin Less
  BY <1>1, WFMin
<1>. QED BY <1>2, <1>3

(* What is known of scored entries: their keys are numbers, equal only when *)
(* the aggregates are.                                                      *)
Comparable(scored, Q) ==
    /\ Q \subseteq Int
    /\ \A e \in Q : SortKey(scored[e]) \in Int
    /\ \A d, e \in Q : SortKey(scored[d]) = SortKey(scored[e]) <=>
                       scored[d].aggregate = scored[e].aggregate

EntryOrder(scored, Q) ==
    {p \in Q \X Q : \/ SortKey(scored[p[1]]) < SortKey(scored[p[2]])
                    \/ SortKey(scored[p[1]]) = SortKey(scored[p[2]]) /\ p[1] < p[2]}

Lower(scored, Q, e) == {d \in Q : SortKey(scored[d]) < SortKey(scored[e])}

LEMMA EntryOrderIsOrder ==
    ASSUME NEW Q, NEW scored, Comparable(scored, Q)
    PROVE  IsOrder(Q, EntryOrder(scored, Q))
<1>. DEFINE key(e) == SortKey(scored[e])
<1>1. \A e \in Q : key(e) \in Int /\ e \in Int
  BY DEF Comparable
<1>2. \A d, e \in Q : <<d, e>> \in EntryOrder(scored, Q) <=>
                      key(d) < key(e) \/ (key(d) = key(e) /\ d < e)
  BY DEF EntryOrder
<1>. HIDE DEF key
<1>. QED BY <1>1, <1>2 DEF IsOrder

(* The sort gives each entry its place, and keys do not decrease along it.  *)
LEMMA Sorted ==
    ASSUME NEW Q, IsFiniteSet(Q), NEW scored, Comparable(scored, Q), NEW o,
           o = SortQualified(scored, Q)
    PROVE  /\ Cardinality(Q) \in Nat
           /\ o \in [1 .. Cardinality(Q) -> Q]
           /\ \A e \in Q : \E i \in 1 .. Cardinality(Q) : o[i] = e
           /\ \A i, j \in 1 .. Cardinality(Q) : o[i] = o[j] => i = j
           /\ \A i, j \in 1 .. Cardinality(Q) :
                 i <= j => SortKey(scored[o[i]]) <= SortKey(scored[o[j]])
           /\ \A i \in 1 .. Cardinality(Q) : Place(Q, EntryOrder(scored, Q), o[i]) = i - 1
<1>. DEFINE R == EntryOrder(scored, Q)
            n == Cardinality(Q)
<1>1. IsOrder(Q, R)
  BY EntryOrderIsOrder
<1>2. \A e \in Q : {d \in Q : \/ SortKey(scored[d]) < SortKey(scored[e])
                              \/ SortKey(scored[d]) = SortKey(scored[e]) /\ d < e} = Before(Q, R, e)
  BY DEF Before, EntryOrder
<1>. HIDE DEF R, n
<1>3. o = [i \in 1 .. n |->
             CHOOSE e \in Q : Cardinality({d \in Q :
                \/ SortKey(scored[d]) < SortKey(scored[e])
                \/ SortKey(scored[d]) = SortKey(scored[e]) /\ d < e}) = i - 1]
  BY DEF SortQualified, n
<1>4. n \in Nat
  BY FS_CardinalityType DEF n
<1>5. /\ o \in [1 .. n -> Q]
      /\ \A i \in 1 .. n : Place(Q, R, o[i]) = i - 1
  <2>1. ASSUME NEW i \in 1 .. n PROVE o[i] \in Q /\ Place(Q, R, o[i]) = i - 1
    <3>1. i - 1 \in 0 .. n - 1
      BY <1>4
    <3>2. PICK e \in Q : Place(Q, R, e) = i - 1
      <4>1. \A j \in 0 .. Cardinality(Q) - 1 : \E e \in Q : Place(Q, R, e) = j
        BY <1>1, PlacesTaken
      <4>. QED BY <3>1, <4>1 DEF n
    <3>3. Cardinality({d \in Q :
             \/ SortKey(scored[d]) < SortKey(scored[e])
             \/ SortKey(scored[d]) = SortKey(scored[e]) /\ d < e}) = i - 1
      BY <1>2, <3>2 DEF Place
    <3>4. /\ o[i] \in Q
          /\ Cardinality({d \in Q :
               \/ SortKey(scored[d]) < SortKey(scored[o[i]])
               \/ SortKey(scored[d]) = SortKey(scored[o[i]]) /\ d < o[i]}) = i - 1
      BY <1>3, <3>3
    <3>. QED BY <1>2, <3>4 DEF Place
  <2>. QED BY <1>3, <2>1
<1>7. \A e \in Q : \E i \in 1 .. n : o[i] = e
  <2>1. \A e \in Q : Place(Q, R, e) + 1 \in 1 .. n /\ o[Place(Q, R, e) + 1] = e
    BY <1>1, <1>5, SortByPlace DEF n
  <2>. QED BY <2>1
<1>8. \A i, j \in 1 .. n : o[i] = o[j] => i = j
  <2>. SUFFICES ASSUME NEW i \in 1 .. n, NEW j \in 1 .. n, o[i] = o[j] PROVE i = j
    OBVIOUS
  <2>1. i - 1 = j - 1
    BY <1>5
  <2>. QED BY <1>4, <2>1
<1>9. ASSUME NEW i \in 1 .. n, NEW j \in 1 .. n, i <= j
      PROVE  SortKey(scored[o[i]]) <= SortKey(scored[o[j]])
  <2>1. o[i] \in Q /\ o[j] \in Q /\ SortKey(scored[o[i]]) \in Int /\ SortKey(scored[o[j]]) \in Int
    BY <1>5 DEF Comparable
  <2>2. CASE i = j
    BY <2>1, <2>2
  <2>3. CASE i # j
    <3>1. Place(Q, R, o[i]) < Place(Q, R, o[j])
      BY <1>4, <1>5, <1>9, <2>3
    <3>2. <<o[i], o[j]>> \in R
      BY <1>1, <2>1, <3>1, PlaceOrdered
    <3>. QED BY <2>1, <3>2 DEF R, EntryOrder
  <2>. QED BY <2>2, <2>3
<1>. QED BY <1>4, <1>5, <1>7, <1>8, <1>9 DEF n, R

(* A place at which a higher key begins is that of one with as many lower   *)
(* ones as there are places before it.                                      *)
LEMMA LowerAtStart ==
    ASSUME NEW Q, IsFiniteSet(Q), NEW scored, Comparable(scored, Q), NEW o,
           o = SortQualified(scored, Q), NEW i \in 1 .. Cardinality(Q),
           i > 1 => SortKey(scored[o[i - 1]]) # SortKey(scored[o[i]])
    PROVE  Cardinality(Lower(scored, Q, o[i])) = i - 1
<1>. DEFINE R == EntryOrder(scored, Q)
            n == Cardinality(Q)
            key(e) == SortKey(scored[e])
<1>1. /\ n \in Nat /\ o \in [1 .. n -> Q]
      /\ \A e \in Q : \E j \in 1 .. n : o[j] = e
      /\ \A j, k \in 1 .. n : j <= k => key(o[j]) <= key(o[k])
      /\ \A j \in 1 .. n : Place(Q, R, o[j]) = j - 1
  BY Sorted
<1>2. \A e \in Q : key(e) \in Int
  BY DEF Comparable
<1>3. \A d, e \in Q : <<d, e>> \in R => key(d) <= key(e)
  BY <1>2 DEF EntryOrder
<1>4. \A d, e \in Q : key(d) < key(e) => <<d, e>> \in R
  BY DEF EntryOrder
<1>5. IsOrder(Q, R)
  BY EntryOrderIsOrder
<1>6. o[i] \in Q
  BY <1>1
<1>. HIDE DEF R, n, key
<1>7. ASSUME NEW d \in Before(Q, R, o[i]) PROVE key(d) < key(o[i])
  <2>1. d \in Q /\ <<d, o[i]>> \in R
    BY DEF Before
  <2>2. PICK j \in 1 .. n : o[j] = d
    BY <1>1, <2>1
  <2>3. j - 1 < i - 1
    <3>1. Place(Q, R, d) < Place(Q, R, o[i])
      BY <1>5, <1>6, <2>1, PlaceOrdered
    <3>. QED BY <1>1, <2>2, <3>1 DEF n
  <2>4. i - 1 \in 1 .. n /\ j <= i - 1 /\ i > 1
    BY <1>1, <2>3 DEF n
  <2>5. key(d) <= key(o[i - 1]) /\ key(o[i - 1]) <= key(o[i]) /\ key(o[i - 1]) # key(o[i])
    BY <1>1, <2>2, <2>4 DEF n, key
  <2>6. o[i - 1] \in Q
    BY <1>1, <2>4
  <2>7. key(d) \in Int /\ key(o[i - 1]) \in Int /\ key(o[i]) \in Int
    BY <1>2, <1>6, <2>1, <2>6
  <2>. QED BY <2>5, <2>7
<1>8. Before(Q, R, o[i]) = Lower(scored, Q, o[i])
  BY <1>4, <1>6, <1>7 DEF Before, Lower, key
<1>. QED BY <1>1, <1>8 DEF Place, n

(* The loop's rank of a place is one more than the number of lower ones.    *)
LEMMA RankLoopCounts ==
    ASSUME NEW Q, IsFiniteSet(Q), NEW scored, Comparable(scored, Q), NEW o,
           o = SortQualified(scored, Q),
           NEW sorted, sorted = [i \in DOMAIN o |-> scored[o[i]]]
    PROVE  \A i \in 1 .. Cardinality(Q) :
              RankLoop(sorted)[i] = Cardinality(Lower(scored, Q, o[i])) + 1
<1>. DEFINE n == Cardinality(Q)
            F == [i \in 1 .. n |-> Cardinality(Lower(scored, Q, o[i])) + 1]
            Loop(g) == [i \in DOMAIN sorted |->
                          IF i > 1 /\ sorted[i].aggregate = sorted[i - 1].aggregate
                          THEN g[i - 1] ELSE i]
            rank == CHOOSE g : g = Loop(g)
<1>1. /\ n \in Nat /\ o \in [1 .. n -> Q]
      /\ DOMAIN sorted = 1 .. n /\ \A i \in 1 .. n : sorted[i] = scored[o[i]]
  <2>1. n \in Nat /\ o \in [1 .. n -> Q]
    BY Sorted
  <2>. QED BY <2>1
<1>2. RankLoop(sorted) = rank
  BY DEF RankLoop
<1>. HIDE DEF n
<1>3. ASSUME NEW i \in 1 .. n PROVE F[i] = Loop(F)[i]
  <2>1. CASE i > 1 /\ sorted[i].aggregate = sorted[i - 1].aggregate
    <3>1. i - 1 \in 1 .. n
      BY <1>1, <2>1
    <3>2. o[i] \in Q /\ o[i - 1] \in Q /\ sorted[i] = scored[o[i]] /\ sorted[i - 1] = scored[o[i - 1]]
      BY <1>1, <3>1
    <3>3. SortKey(scored[o[i]]) = SortKey(scored[o[i - 1]])
      <4>1. scored[o[i]].aggregate = scored[o[i - 1]].aggregate
        BY <2>1, <3>2
      <4>2. \A d, e \in Q : scored[d].aggregate = scored[e].aggregate =>
                            SortKey(scored[d]) = SortKey(scored[e])
        BY DEF Comparable
      <4>. QED BY <3>2, <4>1, <4>2
    <3>4. Lower(scored, Q, o[i]) = Lower(scored, Q, o[i - 1])
      BY <3>3 DEF Lower
    <3>. QED BY <1>1, <2>1, <3>1, <3>4
  <2>2. CASE ~(i > 1 /\ sorted[i].aggregate = sorted[i - 1].aggregate)
    <3>1. i > 1 => SortKey(scored[o[i - 1]]) # SortKey(scored[o[i]])
      <4>. SUFFICES ASSUME i > 1 PROVE SortKey(scored[o[i - 1]]) # SortKey(scored[o[i]])
        OBVIOUS
      <4>1. i - 1 \in 1 .. n
        BY <1>1
      <4>2. /\ o[i] \in Q /\ o[i - 1] \in Q
            /\ sorted[i] = scored[o[i]] /\ sorted[i - 1] = scored[o[i - 1]]
        BY <1>1, <4>1
      <4>3. scored[o[i]].aggregate # scored[o[i - 1]].aggregate
        BY <2>2, <4>2
      <4>4. \A d, e \in Q : SortKey(scored[d]) = SortKey(scored[e]) =>
                            scored[d].aggregate = scored[e].aggregate
        BY DEF Comparable
      <4>. QED BY <4>2, <4>3, <4>4
    <3>2. i \in 1 .. Cardinality(Q)
      BY DEF n
    <3>3. Cardinality(Lower(scored, Q, o[i])) = i - 1
      BY <3>1, <3>2, LowerAtStart
    <3>. QED BY <1>1, <2>2, <3>3
  <2>. QED BY <2>1, <2>2
<1>4. F = Loop(F)
  BY <1>1, <1>3
<1>5. rank = Loop(rank)
  <2>. HIDE DEF F, Loop
  <2>. QED BY <1>4
<1>. HIDE DEF rank
<1>6. \A i \in 1 .. n : F[i] = IF i > 1 /\ sorted[i].aggregate = sorted[i - 1].aggregate
                              THEN F[i - 1] ELSE i
  BY <1>1, <1>3
<1>7. \A i \in 1 .. n : rank[i] = IF i > 1 /\ sorted[i].aggregate = sorted[i - 1].aggregate
                                 THEN rank[i - 1] ELSE i
  <2>1. ASSUME NEW i \in 1 .. n PROVE rank[i] = Loop(rank)[i]
    <3>. HIDE DEF Loop
    <3>. QED BY <1>5
  <2>. QED BY <1>1, <2>1
<1>. DEFINE Bad == {i \in 1 .. n : rank[i] # F[i]}
<1>. HIDE DEF F
<1>8. Bad = {}
  <2>. SUFFICES ASSUME Bad # {} PROVE FALSE
    OBVIOUS
  <2>1. Bad \in SUBSET Nat
    BY <1>1
  <2>. HIDE DEF Bad
  <2>2. PICK i \in Bad : \A j \in Bad : ~(j < i)
    BY <2>1, LeastNat
  <2>. USE DEF Bad
  <2>3. i \in 1 .. n /\ rank[i] # F[i]
    BY <2>2
  <2>4. i > 1 => i - 1 \in 1 .. n /\ rank[i - 1] = F[i - 1]
    BY <1>1, <2>2, <2>3
  <2>. QED BY <1>6, <1>7, <2>3, <2>4
<1>9. \A i \in 1 .. n : rank[i] = F[i]
  BY <1>8
<1>. QED BY <1>2, <1>9 DEF F, n

(* Equal ones are next to each other: one has an equal among all exactly    *)
(* when one of its two neighbours is one.                                   *)
LEMMA TiesAdjacent ==
    ASSUME NEW Q, IsFiniteSet(Q), NEW scored, Comparable(scored, Q), NEW o,
           o = SortQualified(scored, Q), NEW i \in 1 .. Cardinality(Q)
    PROVE  (\E j \in {i - 1, i + 1} : /\ j \in 1 .. Cardinality(Q)
                                      /\ scored[o[j]].aggregate = scored[o[i]].aggregate) <=>
           (\E d \in Q : d # o[i] /\ scored[d].aggregate = scored[o[i]].aggregate)
<1>. DEFINE n == Cardinality(Q)
            key(e) == SortKey(scored[e])
<1>1. /\ n \in Nat /\ o \in [1 .. n -> Q]
      /\ \A e \in Q : \E j \in 1 .. n : o[j] = e
      /\ \A j, k \in 1 .. n : o[j] = o[k] => j = k
      /\ \A j, k \in 1 .. n : j <= k => key(o[j]) <= key(o[k])
  BY Sorted
<1>2. /\ \A e \in Q : key(e) \in Int
      /\ \A d, e \in Q : key(d) = key(e) <=> scored[d].aggregate = scored[e].aggregate
  BY DEF Comparable
<1>. HIDE DEF n, key
<1>3. o[i] \in Q /\ i \in 1 .. n
  BY <1>1 DEF n
<1>4. ASSUME NEW j \in {i - 1, i + 1}, j \in 1 .. n,
             scored[o[j]].aggregate = scored[o[i]].aggregate
      PROVE  \E d \in Q : d # o[i] /\ scored[d].aggregate = scored[o[i]].aggregate
  <2>1. o[j] \in Q /\ o[j] # o[i]
    BY <1>1, <1>3, <1>4
  <2>. QED BY <1>4, <2>1
<1>5. ASSUME NEW d \in Q, d # o[i], scored[d].aggregate = scored[o[i]].aggregate
      PROVE  \E j \in {i - 1, i + 1} : j \in 1 .. n /\ scored[o[j]].aggregate = scored[o[i]].aggregate
  <2>1. PICK k \in 1 .. n : o[k] = d
    BY <1>1
  <2>2. k # i /\ key(o[k]) = key(o[i])
    BY <1>2, <1>3, <1>5, <2>1
  <2>3. CASE k < i
    <3>1. i - 1 \in 1 .. n /\ k <= i - 1
      BY <1>1, <1>3, <2>3
    <3>2. key(o[k]) <= key(o[i - 1]) /\ key(o[i - 1]) <= key(o[i]) /\ o[i - 1] \in Q
      BY <1>1, <1>3, <3>1
    <3>3. key(o[i - 1]) = key(o[i])
      BY <1>2, <1>3, <2>2, <3>2
    <3>. QED BY <1>2, <1>3, <3>1, <3>2, <3>3
  <2>4. CASE i < k
    <3>1. i + 1 \in 1 .. n /\ i + 1 <= k
      BY <1>1, <1>3, <2>4
    <3>2. key(o[i]) <= key(o[i + 1]) /\ key(o[i + 1]) <= key(o[k]) /\ o[i + 1] \in Q
      BY <1>1, <1>3, <3>1
    <3>3. key(o[i + 1]) = key(o[i])
      BY <1>2, <1>3, <2>2, <3>2
    <3>. QED BY <1>2, <1>3, <3>1, <3>2, <3>3
  <2>. QED BY <1>3, <2>2, <2>3, <2>4
<1>. QED BY <1>4, <1>5 DEF n

LEMMA EntriesNumbered == IsFiniteSet(Entries) /\ \A e \in Entries : e \in Int
<1>1. IsFiniteSet(Entries) /\ Entries = 1 .. Cardinality(Entries)
  BY ScoringAssumption
<1>2. Cardinality(Entries) \in Nat
  BY <1>1, FS_CardinalityType
<1>3. \A n \in Nat : \A e \in 1 .. n : e \in Int
  OBVIOUS
<1>. QED BY <1>1, <1>2, <1>3

(* Entries that wait take the places after m, one each.                     *)
LEMMA PendingRanks ==
    ASSUME NEW P, P \subseteq Entries, NEW m \in Nat
    PROVE  {m + Cardinality({d \in P : d <= e}) : e \in P} = m + 1 .. m + Cardinality(P)
<1>. DEFINE R == {p \in P \X P : p[1] < p[2]}
            n == Cardinality(P)
            upto(e) == Cardinality({d \in P : d <= e})
<1>1. IsFiniteSet(P) /\ \A e \in P : e \in Int
  BY EntriesNumbered, FS_Subset
<1>2. IsOrder(P, R)
  BY <1>1 DEF IsOrder
<1>3. ASSUME NEW e \in P
      PROVE  upto(e) = Place(P, R, e) + 1 /\ Place(P, R, e) \in 0 .. n - 1
  <2>1. {d \in P : d <= e} = Before(P, R, e) \cup {e}
    BY <1>1 DEF Before
  <2>2. e \notin Before(P, R, e)
    BY <1>1 DEF Before
  <2>. HIDE DEF R
  <2>3. IsFiniteSet(Before(P, R, e)) /\ Place(P, R, e) \in 0 .. n - 1
    BY <1>1, <1>2, PlaceType
  <2>4. Cardinality(Before(P, R, e) \cup {e}) = Cardinality(Before(P, R, e)) + 1
    BY <2>2, <2>3, FS_AddElement
  <2>. QED BY <2>1, <2>3, <2>4 DEF Place
<1>. HIDE DEF R
<1>4. \A i \in 0 .. n - 1 : \E e \in P : Place(P, R, e) = i
  BY <1>1, <1>2, PlacesTaken
<1>5. n \in Nat
  BY <1>1, FS_CardinalityType
<1>. HIDE DEF n, upto
<1>6. ASSUME NEW e \in P PROVE m + upto(e) \in m + 1 .. m + n
  BY <1>3, <1>5
<1>7. ASSUME NEW r \in m + 1 .. m + n PROVE \E e \in P : m + upto(e) = r
  <2>1. r - m - 1 \in 0 .. n - 1
    BY <1>5
  <2>2. PICK e \in P : Place(P, R, e) = r - m - 1
    BY <1>4, <2>1
  <2>3. m + upto(e) = r
    BY <1>3, <2>2
  <2>. QED BY <2>3
<1>8. {m + upto(e) : e \in P} = m + 1 .. m + n
  BY <1>6, <1>7
<1>. QED BY <1>8 DEF n, upto

(* A sum of counted scores is never the 9999 that stands for no score.      *)
LEMMA AggregateBelow ==
    ASSUME rules \in Rules, NEW n \in Nat, NEW rows \in [1 .. n -> Row \cup {None}]
    PROVE  LET a == Aggregate(rows, Counted(rows)) IN a # None => a \in Int /\ a < 9999
<1>. DEFINE known == {i \in Counted(rows) : rows[i].total # None}
            f == [i \in known |-> rows[i].total]
<1>. SUFFICES ASSUME Aggregate(rows, Counted(rows)) # None
              PROVE  /\ Aggregate(rows, Counted(rows)) \in Int
                     /\ Aggregate(rows, Counted(rows)) < 9999
  OBVIOUS
<1>1. /\ IsFiniteSet(Counted(rows)) /\ Cardinality(Counted(rows)) <= MaxCounted
      /\ Counted(rows) \subseteq Eligible(rows)
  BY CountedFirst DEF Counted
<1>2. IsFiniteSet(known) /\ Cardinality(known) <= MaxCounted
  <2>1. known \in SUBSET Counted(rows)
    OBVIOUS
  <2>. HIDE DEF known
  <2>2. IsFiniteSet(known) /\ Cardinality(known) <= Cardinality(Counted(rows))
    BY <1>1, <2>1, FS_Subset
  <2>3. Cardinality(known) \in Nat /\ Cardinality(Counted(rows)) \in Nat /\ MaxCounted \in Nat
    BY <1>1, <2>2, FS_CardinalityType DEF MaxCounted
  <2>. QED BY <1>1, <2>2, <2>3
<1>3. ASSUME NEW i \in known PROVE rows[i].total \in Scores /\ rows[i].total # 999
  <2>1. rows[i] \in Row \cup {None} /\ rows[i] # None /\ rows[i].total # None
    BY <1>1 DEF Eligible, MadeCut, Listed
  <2>. QED BY <2>1, SortScoreType
<1>4. /\ f \in [known -> Scores]
      /\ \A i \in known : f[i] = rows[i].total
      /\ \A i \in known : f[i] # 999
  BY <1>3
<1>5. Aggregate(rows, Counted(rows)) = MapThenSumSet(LAMBDA i : rows[i].total, known)
  BY Zenon DEF Aggregate
<1>. HIDE DEF f, known
<1>6. MapThenSumSet(LAMBDA i : rows[i].total, known) = Total(f, known)
  <2>1. \A i \in known : f[i] = rows[i].total
    BY <1>4
  <2>2. f \in [known -> Scores] /\ IsFiniteSet(known)
    BY <1>2, <1>4
  <2>. QED BY <2>1, <2>2, SumOfTotals, Zenon
<1>7. Total(f, known) \in Int /\ Total(f, known) < 9999
  BY <1>2, <1>4, TotalBelow
<1>. QED BY <1>5, <1>6, <1>7

LEMMA PassComparable ==
    ASSUME ScoredInv, NEW rows, NEW counted, NEW scored, NEW order, NEW Q, Q \subseteq Entries,
           Pass(leaderboard, rows, counted, scored, order, scores)
    PROVE  Comparable(scored, Q)
<1>1. ASSUME NEW e \in Entries
      PROVE  /\ SortKey(scored[e]) \in Int
             /\ scored[e].aggregate = IF SortKey(scored[e]) = 9999 THEN None
                                      ELSE SortKey(scored[e])
  <2>1. scored[e].aggregate = Aggregate(rows[e], Counted(rows[e]))
    BY DEF Pass, ScoreEntry
  <2>2. /\ Len(picks[e]) \in Nat /\ rules \in Rules
        /\ rows[e] \in [1 .. Len(picks[e]) -> Row \cup {None}]
    BY EntryRows DEF Pass
  <2>3. scored[e].aggregate # None => scored[e].aggregate \in Int /\ scored[e].aggregate < 9999
    BY <2>1, <2>2, AggregateBelow
  <2>. QED BY <2>3 DEF SortKey
<1>2. \A d, e \in Entries : SortKey(scored[d]) = SortKey(scored[e]) =>
                              scored[d].aggregate = scored[e].aggregate
  BY <1>1
<1>3. \A d, e \in Entries : scored[d].aggregate = scored[e].aggregate =>
                              SortKey(scored[d]) = SortKey(scored[e])
  BY DEF SortKey
<1>. QED BY <1>1, <1>2, <1>3, EntriesNumbered DEF Comparable

(* What the pass's ranking is for an entry that has qualified.              *)
LEMMA RankOfQualified ==
    ASSUME NEW scored, NEW Q, IsFiniteSet(Q), Comparable(scored, Q),
           NEW order, order = SortQualified(scored, Q),
           NEW e \in Q, e \in Entries, scored[e].status = "qualified",
           NEW result, result = RankEntries(scored, order)
    PROVE  /\ result[e].rank = Cardinality(Lower(scored, Q, e)) + 1
           /\ result[e].tied <=>
                \E d \in Q : d # e /\ scored[d].aggregate = scored[e].aggregate
<1>1. /\ Cardinality(Q) \in Nat /\ order \in [1 .. Cardinality(Q) -> Q]
      /\ \A d \in Q : \E i \in 1 .. Cardinality(Q) : order[i] = d
  <2>1. Comparable(scored, Q) /\ order = SortQualified(scored, Q)
    OBVIOUS
  <2>2. Cardinality(Q) \in Nat /\ order \in [1 .. Cardinality(Q) -> Q]
    BY <2>1, Sorted
  <2>3. \A d \in Q : \E i \in 1 .. Cardinality(Q) : order[i] = d
    BY <2>1, Sorted
  <2>. QED BY <2>2, <2>3
<1>. DEFINE n == Cardinality(Q)
            sorted == [i \in DOMAIN order |-> scored[order[i]]]
            position == CHOOSE i \in DOMAIN order : order[i] = e
<1>2. /\ n \in Nat /\ order \in [1 .. n -> Q]
      /\ \A d \in Q : \E i \in 1 .. n : order[i] = d
  BY <1>1
<1>3. position \in 1 .. n /\ order[position] = e
  BY <1>2
<1>. HIDE DEF n
<1>5. result[e].rank = RankLoop(sorted)[position]
  BY DEF RankEntries
<1>6. result[e].tied <=>
        \/ /\ {position, position - 1} \subseteq DOMAIN order
           /\ sorted[position].aggregate = sorted[position - 1].aggregate
        \/ /\ {position, position + 1} \subseteq DOMAIN order
           /\ sorted[position].aggregate = sorted[position + 1].aggregate
  BY DEF RankEntries
<1>7. result[e].tied <=>
        \E j \in {position - 1, position + 1} :
           j \in 1 .. n /\ scored[order[j]].aggregate = scored[order[position]].aggregate
  <2>1. /\ DOMAIN order = 1 .. n
        /\ \A j \in 1 .. n : sorted[j] = scored[order[j]]
    BY <1>2
  <2>. HIDE DEF sorted, position
  <2>. QED BY <1>3, <1>6, <2>1
<1>. HIDE DEF position
<1>8. result[e].rank = Cardinality(Lower(scored, Q, e)) + 1
  <2>. HIDE DEF sorted
  <2>1. sorted = [i \in DOMAIN order |-> scored[order[i]]]
    BY DEF sorted
  <2>2. \A i \in 1 .. n : RankLoop(sorted)[i] = Cardinality(Lower(scored, Q, order[i])) + 1
    BY <2>1, RankLoopCounts DEF n
  <2>. QED BY <1>3, <1>5, <2>2
<1>9. result[e].tied <=> \E d \in Q : d # e /\ scored[d].aggregate = scored[e].aggregate
  BY <1>3, <1>7, TiesAdjacent DEF n
<1>. QED BY <1>8, <1>9

LEMMA LenOfSorted ==
    ASSUME NEW n \in Nat, NEW Q, NEW o \in [1 .. n -> Q]
    PROVE  Len(o) = n
<1>1. o \in Seq(Q)
  OBVIOUS
<1>2. DOMAIN o = 1 .. Len(o) /\ Len(o) \in Nat
  BY <1>1
<1>3. 1 .. Len(o) = 1 .. n
  BY <1>2
<1>. QED BY <1>2, <1>3

LEMMA RanksAreFair == ScoredInv => RanksFair
<1>. SUFFICES ASSUME ScoredInv PROVE RanksFair
  OBVIOUS
<1>1. PICK rows, counted, scored, order :
        Pass(leaderboard, rows, counted, scored, order, scores)
  BY DEF ScoredInv
<1>. DEFINE Q == {e \in Entries : scored[e].status = "qualified"}
            P == {e \in Entries : scored[e].status = "pending"}
            n == Cardinality(Q)
<1>2. scores = RankEntries(scored, order) /\ order = SortQualified(scored, Q)
  BY <1>1 DEF Pass
<1>3. ASSUME NEW e \in Entries
      PROVE  scores[e].status = scored[e].status /\ scores[e].aggregate = scored[e].aggregate
  BY <1>2 DEF RankEntries
<1>4. With("qualified") = Q /\ With("pending") = P
  BY <1>3 DEF With
<1>5. \A d \in Entries : SortKey(scores[d]) = SortKey(scored[d])
  BY <1>3 DEF SortKey
<1>6. Q \subseteq Entries /\ P \subseteq Entries /\ IsFiniteSet(Q)
  BY EntriesNumbered, FS_Subset
<1>7. \A e \in Q : e \in Entries /\ scored[e].status = "qualified"
  OBVIOUS
<1>8. \A e \in P : scores[e].rank = Len(order) + Cardinality({d \in P : d <= e})
  BY <1>2 DEF RankEntries
<1>9. \A e \in With("not_qualified") : scores[e].rank = None
  BY <1>2, <1>3 DEF RankEntries, With
<1>. HIDE DEF Q, P
<1>10. Comparable(scored, Q)
  BY <1>1, <1>6, PassComparable
<1>11. n \in Nat /\ Len(order) = n
  <2>1. n \in Nat /\ order \in [1 .. n -> Q]
    BY <1>2, <1>6, <1>10, Sorted
  <2>. HIDE DEF n
  <2>. QED BY <2>1, LenOfSorted
<1>12. ASSUME NEW e \in Q
       PROVE  /\ scores[e].rank =
                   Cardinality({d \in Q : SortKey(scores[d]) < SortKey(scores[e])}) + 1
              /\ scores[e].tied <=> {d \in Q : scores[d].aggregate = scores[e].aggregate} # {e}
  <2>1. e \in Entries /\ scored[e].status = "qualified"
    BY <1>7
  <2>2. /\ scores[e].rank = Cardinality(Lower(scored, Q, e)) + 1
        /\ scores[e].tied <=> \E d \in Q : d # e /\ scored[d].aggregate = scored[e].aggregate
    BY <1>2, <1>6, <1>10, <2>1, RankOfQualified
  <2>3. Lower(scored, Q, e) = {d \in Q : SortKey(scores[d]) < SortKey(scores[e])}
    BY <1>5, <1>6, <2>1 DEF Lower
  <2>4. {d \in Q : scores[d].aggregate = scores[e].aggregate} =
        {d \in Q : scored[d].aggregate = scored[e].aggregate}
    BY <1>3, <1>6, <2>1
  <2>5. {d \in Q : scored[d].aggregate = scored[e].aggregate} # {e} <=>
        \E d \in Q : d # e /\ scored[d].aggregate = scored[e].aggregate
    OBVIOUS
  <2>. QED BY <2>2, <2>3, <2>4, <2>5
<1>13. {scores[e].rank : e \in P} = n + 1 .. n + Cardinality(P)
  <2>1. {scores[e].rank : e \in P} = {n + Cardinality({d \in P : d <= e}) : e \in P}
    BY <1>8, <1>11
  <2>. HIDE DEF n
  <2>2. {n + Cardinality({d \in P : d <= e}) : e \in P} = n + 1 .. n + Cardinality(P)
    BY <1>6, <1>11, PendingRanks
  <2>. QED BY <2>1, <2>2
<1>. QED BY <1>4, <1>9, <1>12, <1>13 DEF RanksFair

(* A qualified entry's rank is one more than the number of qualified ones   *)
(* with a lower score, it is tied with those that have the same; pending    *)
(* entries follow, each with a rank of its own; the others have none.       *)
THEOREM FairRanks == Spec => []RanksFair
BY ScoringInvariant, RanksAreFair, PTL
=============================================================================
