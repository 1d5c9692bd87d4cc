----------------------------- MODULE GolfScoring -----------------------------
(* The arithmetic of a pass over a pool: validation of picks and the scores *)
(* and ranks of entries, in services/golf_pool_scoring.py and, line by      *)
(* line, in golf/pool_scoring.py of the scraper, while sync_leaderboard     *)
(* changes the leaderboard under them.                                      *)
EXTENDS Integers, Sequences, FiniteSetsExt

CONSTANTS
    Golfers,
    Entries,   \* 1 .. n, in the order of the query
    Rules,     \* the rules of pools of this instance
    Buckets,   \* [bucket number -> SUBSET Golfers]
    Submitted, \* [Entries -> a list of picks]s of this instance
    Statuses,  \* the statuses of this instance
    Totals,    \* scores to par of this instance
    None

(* The variants there are count five golfers and four.                      *)
MaxCounted == 10

PoolRules == [pick_count : Nat \ {0}, count_best : 0 .. MaxCounted,
              min_cuts_to_qualify : Nat, uses_buckets : BOOLEAN]

Pick == [golfer : Golfers \cup {None}, bucket : Nat]

(* A row of golf_leaderboard; r2 says whether the second round has a score. *)
Row == [status : Statuses, total : Totals \cup {None}, r2 : BOOLEAN]

ASSUME ScoringAssumption ==
    /\ IsFiniteSet(Entries) /\ Entries = 1 .. Cardinality(Entries)
    /\ Rules \subseteq PoolRules
    /\ Submitted \subseteq [Entries -> Seq(Pick)]
    /\ Statuses \subseteq {"active", "cut", "wd", "dq"}
    /\ Totals \subseteq -998 .. 998
    /\ None \notin Int \cup Row

VARIABLES
    rules,       \* rules_json of the pool
    picks,       \* [Entries -> a list of picks]
    leaderboard, \* [Golfers -> a row, or None]
    scores       \* [Entries -> a row of golf_pool_entry_scores]

vars == <<rules, picks, leaderboard, scores>>

(* validate_picks without an error: the number of picks, no golfer twice,   *)
(* all of the field, and each from a bucket of its own.                     *)
ValidatePicks(list) ==
    /\ Len(list) = rules.pick_count
    /\ \A i, j \in DOMAIN list : list[i].golfer = list[j].golfer => i = j
    /\ \A i \in DOMAIN list : list[i].golfer \in Golfers
    /\ rules.uses_buckets =>
         \A i \in DOMAIN list :
            /\ list[i].bucket \in DOMAIN Buckets /\ list[i].golfer \in Buckets[list[i].bucket]
            /\ \A j \in DOMAIN list : list[i].bucket = list[j].bucket => i = j

-----------------------------------------------------------------------------
(* SCORES                                                                   *)

(* The leaderboard's rows of a list of picks, in the order of the picks.    *)
RowsOf(list, lb) == [i \in DOMAIN list |-> lb[list[i].golfer]]

Listed(row) == row # None

(* made_cut: only active golfers count, whether or not there was a cut.     *)
MadeCut(row) == Listed(row) /\ row.status = "active"
Eligible(rows) == {i \in DOMAIN rows : MadeCut(rows[i])}

SortScore(row) == IF row.total = None THEN 999 ELSE row.total

(* The order of the stable sort of the eligible picks.                      *)
Precedes(rows, i, j) ==
    \/ SortScore(rows[i]) < SortScore(rows[j])
    \/ SortScore(rows[i]) = SortScore(rows[j]) /\ i < j

(* (Mutant of Counted) One golfer less counts.                              *)
CountedOneLess(rows) ==
    {i \in Eligible(rows) :
        Cardinality({j \in Eligible(rows) : Precedes(rows, j, i)}) < rules.count_best - 1}

(* The first count_best of them.                                            *)
Counted(rows) ==
    {i \in Eligible(rows) :
        Cardinality({j \in Eligible(rows) : Precedes(rows, j, i)}) < rules.count_best}

(* counts_toward_total is set by golfer, not by pick.                       *)
CountsTowardTotal(list, counted) ==
    {i \in DOMAIN list : \E j \in counted : list[i].golfer = list[j].golfer}

Aggregate(rows, counted) ==
    LET known == {i \in counted : rows[i].total # None}
    IN IF known = {} THEN None ELSE MapThenSumSet(LAMBDA i : rows[i].total, known)

(* _any_rounds_pending                                                      *)
AnyRoundsPending(rows) ==
    \E i \in DOMAIN rows : ~Listed(rows[i]) \/ (rows[i].status = "active" /\ ~rows[i].r2)

(* (Mutant of QualificationStatus) Golfers who are not listed are out.      *)
QualificationStatusListed(rows) ==
    IF Cardinality(Eligible(rows)) >= rules.min_cuts_to_qualify THEN "qualified"
    ELSE IF \E i \in DOMAIN rows : MadeCut(rows[i]) /\ ~rows[i].r2
         THEN "pending" ELSE "not_qualified"

QualificationStatus(rows) ==
    IF Cardinality(Eligible(rows)) >= rules.min_cuts_to_qualify THEN "qualified"
    ELSE IF AnyRoundsPending(rows) THEN "pending" ELSE "not_qualified"

ScoreEntry(list, rows, counted) ==
    [aggregate |-> Aggregate(rows, counted), counted |-> CountsTowardTotal(list, counted),
     status |-> QualificationStatus(rows)]
-----------------------------------------------------------------------------
(* RANKS                                                                    *)

SortKey(score) == IF score.aggregate = None THEN 9999 ELSE score.aggregate

(* The stable sort of the qualified entries by their score.                 *)
SortQualified(scored, qualified) ==
    LET before(d, e) == \/ SortKey(scored[d]) < SortKey(scored[e])
                        \/ SortKey(scored[d]) = SortKey(scored[e]) /\ d < e
    IN [i \in 1 .. Cardinality(qualified) |->
          CHOOSE e \in qualified : Cardinality({d \in qualified : before(d, e)}) = i - 1]

(* (Mutant of RankLoop) Ranks without gaps after a tie.                     *)
RankLoopDense(sorted) ==
    LET rank[i \in DOMAIN sorted] ==
          IF i = 1 THEN 1
          ELSE IF sorted[i].aggregate = sorted[i - 1].aggregate THEN rank[i - 1] ELSE rank[i - 1] + 1
    IN rank

(* The loop over the qualified entries: an entry that equals the one before *)
(* has its rank, any other that of its position.                            *)
RankLoop(sorted) ==
    LET rank[i \in DOMAIN sorted] ==
          IF i > 1 /\ sorted[i].aggregate = sorted[i - 1].aggregate THEN rank[i - 1] ELSE i
    IN rank

(* rank_entries: the qualified by their score, the pending in their order,  *)
(* the others without a rank.                                               *)
RankEntries(scored, order) ==
    LET pending == {e \in Entries : scored[e].status = "pending"}
        sorted == [i \in DOMAIN order |-> scored[order[i]]]
        position(e) == CHOOSE i \in DOMAIN order : order[i] = e
        same(i, j) == {i, j} \subseteq DOMAIN order /\ sorted[i].aggregate = sorted[j].aggregate
        rank(e) ==
          CASE scored[e].status = "qualified" -> RankLoop(sorted)[position(e)]
            [] scored[e].status = "pending" -> Len(order) + Cardinality({d \in pending : d <= e})
            [] OTHER -> None
        tied(e) == /\ scored[e].status = "qualified"
                   /\ \/ same(position(e), position(e) - 1)
                      \/ same(position(e), position(e) + 1)
    IN [e \in Entries |-> [aggregate |-> scored[e].aggregate, counted |-> scored[e].counted,
                           status |-> scored[e].status, rank |-> rank(e), tied |-> tied(e)]]

(* score_pool, score_all_live_pools: every entry, then the ranks. (A choice *)
(* from a set of one value has TLC compute the value once.)                 *)
ScorePool(lb, result) ==
    \E rows \in {[e \in Entries |-> RowsOf(picks[e], lb)]} :
    \E counted \in {[e \in Entries |-> Counted(rows[e])]} :
    \E scored \in {[e \in Entries |-> ScoreEntry(picks[e], rows[e], counted[e])]} :
    \E order \in {SortQualified(scored, {e \in Entries : scored[e].status = "qualified"})} :
        result = RankEntries(scored, order)
-----------------------------------------------------------------------------
Init ==
    /\ rules \in Rules
    /\ picks \in {p \in Submitted : \A e \in Entries : ValidatePicks(p[e])}
    /\ leaderboard = [g \in Golfers |-> None]
    /\ ScorePool(leaderboard, scores)

(* sync_leaderboard writes a golfer's row as the feed has it, or deletes it *)
(* because the feed has none; the next pass scores all entries again.       *)
SyncRow ==
    \E g \in Golfers, row \in Row \cup {None} :
        LET lb == [leaderboard EXCEPT ![g] = row]
        IN /\ row # None => (row.r2 => row.total # None) /\ (row.status = "cut" => row.r2)
           /\ leaderboard' = lb
           /\ ScorePool(lb, scores')
           /\ UNCHANGED <<rules, picks>>

Next == SyncRow
Spec == Init /\ [][Next]_vars
-----------------------------------------------------------------------------
(* The golfers who count are the best there are: no other choice of as many *)
(* active ones has a lower sum (one without a score counting 999), and the  *)
(* flags of the picks name exactly those.                                   *)
BestScoresCount ==
    \A e \in Entries :
        \A rows \in {RowsOf(picks[e], leaderboard)} :
        LET sum(chosen) == MapThenSumSet(LAMBDA i : SortScore(rows[i]), chosen)
            n == Min({rules.count_best, Cardinality(Eligible(rows))})
        IN /\ scores[e].counted \in kSubset(n, Eligible(rows))
           /\ \A chosen \in kSubset(n, Eligible(rows)) : sum(scores[e].counted) <= sum(chosen)

With(status) == {e \in Entries : scores[e].status = status}

(* A qualified entry's rank is one more than the number of qualified ones   *)
(* with a lower score, it is tied with those that have the same; pending    *)
(* entries follow, each with a rank of its own; the others have none.       *)
RanksFair ==
    LET better(e) == {d \in With("qualified") : SortKey(scores[d]) < SortKey(scores[e])}
        same(e) == {d \in With("qualified") : scores[d].aggregate = scores[e].aggregate}
    IN /\ \A e \in With("qualified") : /\ scores[e].rank = Cardinality(better(e)) + 1
                                       /\ scores[e].tied <=> same(e) # {e}
       /\ {scores[e].rank : e \in With("pending")} =
            Cardinality(With("qualified")) + 1 ..
            Cardinality(With("qualified")) + Cardinality(With("pending"))
       /\ \A e \in With("not_qualified") : scores[e].rank = None

(* An entry that has not qualified is out: it is no more than corrected, by *)
(* a golfer who is taken off the leaderboard or back from a cut, or by a    *)
(* second round that is taken back.                                         *)
OutStaysOut ==
    [][\A e \in With("not_qualified") :
         scores'[e].status # "not_qualified" =>
            \E i \in DOMAIN picks[e] :
               LET before == leaderboard[picks[e][i].golfer]
                   after == leaderboard'[picks[e][i].golfer]
               IN /\ before # None /\ after # before
                  /\ after # None =>
                       after.status = "active" /\ (before.status # "active" \/ ~after.r2)]_vars
=============================================================================
