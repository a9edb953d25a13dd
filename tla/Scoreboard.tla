----------------------------- MODULE Scoreboard -----------------------------
(***************************************************************************)
(* sensitivity.py: the two scoreboards, their rank inversions and the      *)
(* steelman docket.  A screening record is its destination estimate (the   *)
(* weighted criterion sum) and its preference slot; scores and weights are *)
(* integers, the code's decimals rounded to four places and scaled.        *)
(* Options are naturals in the order of their ids, the boards' tie-break.  *)
(***************************************************************************)
EXTENDS Integers, FiniteSets

NoScore == -1  \* the record has no preference score

\* combined_point: wd + wp is the whole weight, wp the preference slot's.
CombinedPoint(rec, wd, wp) ==
  IF rec.pref = NoScore THEN (wd + wp) * rec.dest
                        ELSE wd * rec.dest + wp * rec.pref

\* dual_scoreboards: destination-only is the slot weight forced to 0.
Destination(scores, wd, wp) ==
  [o \in DOMAIN scores |-> CombinedPoint(scores[o], wd + wp, 0)]
Adjusted(scores, wd, wp) ==
  [o \in DOMAIN scores |-> CombinedPoint(scores[o], wd, wp)]

\* scoreboard: descending score, then id; ranks are dense.
Above(board, a, b) == board[a] > board[b] \/ (board[a] = board[b] /\ a < b)
Position(board, o) == 1 + Cardinality({p \in DOMAIN board : Above(board, p, o)})
Rank(board, o) ==
  1 + Cardinality({board[p] : p \in {q \in DOMAIN board : board[q] > board[o]}})
Top(board, n) == {o \in DOMAIN board : Position(board, o) <= n}

\* rank_inversions: pairs whose strict order flips; a refined tie is none.
RankInversions(dest, adj) ==
  {pair \in (DOMAIN adj) \X (DOMAIN adj) :
     dest[pair[1]] > dest[pair[2]] /\ adj[pair[2]] > adj[pair[1]]}

Demoted(dest, adj) == {pair[1] : pair \in RankInversions(dest, adj)}

\* steelman_docket: the runners-up and every demoted option, never rank 1.
SteelmanDocket(dest, adj) ==
  {o \in DOMAIN adj :
     Rank(adj, o) # 1 /\ (o \in Demoted(dest, adj) \/ Rank(adj, o) = 2)}
=============================================================================
