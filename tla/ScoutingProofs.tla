--------------------------- MODULE ScoutingProofs ---------------------------
(***************************************************************************)
(* What S3 keeps for any map, replies of its agents, and any number of     *)
(* interruptions and reruns: ids stay unique whatever order the parallel   *)
(* scouts write in, and a file attests the work before it.                 *)
(*                                                                         *)
(* What an allocation computes is AllocationProofs'.                       *)
(***************************************************************************)
EXTENDS Scouting, AllocationProofs

-----------------------------------------------------------------------------
(* dedupe_option_ids.                                                      *)

LEMMA SetFacts ==
  /\ IsFiniteSet(Ids)
  /\ \A a \in Ids : \A names \in Found[a] \cup Missed[a] : IsFiniteSet(names)
  /\ \A a \in Ids : {} \notin Found[a]
BY ScoutingAssumption DEF ScoutingAssumption

LEMMA MinFacts ==
  ASSUME NEW S \in SUBSET Nat, S # {}
  PROVE  Min(S) \in S
<1> DEFINE R == {p \in Nat \X Nat : p[1] < p[2]}
<1>1. IsWellFoundedOn(R, Nat)
  BY NatLessThanWellFounded, Zenon DEF OpToRel
<1>2. \A x, y \in Nat : y < x => <<y, x>> \in R
  OBVIOUS
<1> HIDE DEF R
<1>3. PICK x \in S : \A y \in S : ~(<<y, x>> \in R)
  BY <1>1, WFMin
<1>4. ASSUME NEW y \in S PROVE x <= y
  <2>1. x \in Nat /\ y \in Nat /\ ~(<<y, x>> \in R)
    BY <1>3
  <2> QED
    BY <1>2, <2>1
<1> QED
  BY <1>4 DEF Min

\* The image of a finite set under a function is finite.
LEMMA ImageFinite ==
  ASSUME NEW S, IsFiniteSet(S), NEW f, DOMAIN f = S
  PROVE  IsFiniteSet({f[x] : x \in S})
<1> DEFINE T == {f[x] : x \in S}
           g == [x \in S |-> f[x]]
<1>1. g \in Surjection(S, T)
  BY DEF Surjection
<1> QED
  BY <1>1, FS_Surjection

\* A taken id always finds a number that is free: there are more numbers to
\* try than ids.
LEMMA SuffixIsFree ==
  ASSUME NEW ids, IsFiniteSet(ids), NEW id, NEW a
  PROVE  LET free == {k \in 1 .. Cardinality(ids) + 1 : Suffixed(id, a, k) \notin ids}
         IN  Min(free) \in free
<1> DEFINE n == Cardinality(ids)
           free == {k \in 1 .. n + 1 : Suffixed(id, a, k) \notin ids}
           f == [k \in 1 .. n + 1 |-> Suffixed(id, a, k)]
<1>1. n \in Nat
  BY FS_CardinalityType
<1> HIDE DEF n
<1>2. free # {}
  <2> SUFFICES ASSUME free = {} PROVE FALSE
    OBVIOUS
  <2>1. f \in [1 .. n + 1 -> ids]
    OBVIOUS
  <2>2. IsFiniteSet(1 .. n + 1) /\ Cardinality(1 .. n + 1) = n + 1
    BY <1>1, FS_Interval
  <2>3. PICK i, j \in 1 .. n + 1 : i # j /\ f[i] = f[j]
    <3> DEFINE S == 1 .. n + 1
    <3>1. IsFiniteSet(S) /\ Cardinality(ids) < Cardinality(S)
      BY <1>1, <2>2 DEF n
    <3>2. f \in [S -> ids]
      BY <2>1
    <3> HIDE DEF f, S
    <3>3. \E i, j \in S : i # j /\ f[i] = f[j]
      BY <3>1, <3>2, FS_PigeonHole
    <3> QED
      BY <3>3 DEF S
  <2> QED
    BY <2>3 DEF Suffixed
<1>3. free \in SUBSET Nat
  BY <1>1
<1> HIDE DEF free
<1>4. Min(free) \in free
  BY <1>2, <1>3, MinFacts
<1> QED
  BY <1>4 DEF free, n

\* What a task writes has no id another angle has, whatever that angle wrote
\* since the task's agent was asked.
LEMMA DedupedFacts ==
  ASSUME NEW set, IsFiniteSet(set), NEW taken, IsFiniteSet(taken), NEW a
  PROVE  /\ Deduped(set, a, taken) \cap taken = {}
         /\ IsFiniteSet(Deduped(set, a, taken))
         /\ set # {} => Deduped(set, a, taken) # {}
<1> DEFINE ids == set \cup taken
           free(id) == {k \in 1 .. Cardinality(ids) + 1 : Suffixed(id, a, k) \notin ids}
           kept == [id \in set |-> IF id \in taken THEN Suffixed(id, a, Min(free(id))) ELSE id]
<1>1. IsFiniteSet(ids)
  BY FS_Union
<1>2. \A id \in set : Suffixed(id, a, Min(free(id))) \notin ids
  <2> SUFFICES ASSUME NEW id \in set PROVE Min(free(id)) \in free(id)
    OBVIOUS
  <2> HIDE DEF ids
  <2> QED
    BY <1>1, SuffixIsFree
<1>3. Deduped(set, a, taken) =
        {IF id \in taken THEN Suffixed(id, a, Min(free(id))) ELSE id : id \in set}
  BY DEF Deduped
<1> HIDE DEF free
<1>4. Deduped(set, a, taken) = {kept[id] : id \in set}
  BY <1>3
<1>5. IsFiniteSet({kept[id] : id \in set})
  <2>1. DOMAIN kept = set
    OBVIOUS
  <2> HIDE DEF kept
  <2> QED
    BY <2>1, ImageFinite
<1> QED
  BY <1>2, <1>4, <1>5

-----------------------------------------------------------------------------
(* The ids of all angles.                                                  *)

\* An angle's cards and everybody else's: the inductive form of IdsUnique.
CardsOK ==
  /\ cards = [a \in Ids |-> cards[a]]
  /\ \A a \in Ids : IsFiniteSet(cards[a])
  /\ IdsUnique

LEMMA CardedFacts ==
  ASSUME CardsOK, NEW a \in Ids, NEW set, IsFiniteSet(set), cards' = Carded(a, set)
  PROVE  /\ CardsOK'
         /\ set # {} => cards'[a] # {}
         /\ \A b \in Ids \ {a} : cards'[b] = cards[b]
<1> DEFINE taken == UNION {cards[b] : b \in Ids \ {a}}
           others == [b \in Ids \ {a} |-> cards[b]]
<1>1. IsFiniteSet(taken)
  <2>1. IsFiniteSet(Ids \ {a})
    BY SetFacts, FS_Subset
  <2>2. IsFiniteSet({others[b] : b \in Ids \ {a}})
    <3>1. DOMAIN others = Ids \ {a}
      OBVIOUS
    <3> HIDE DEF others
    <3> QED
      BY <2>1, <3>1, ImageFinite
  <2>3. {others[b] : b \in Ids \ {a}} = {cards[b] : b \in Ids \ {a}}
    OBVIOUS
  <2>4. \A T \in {cards[b] : b \in Ids \ {a}} : IsFiniteSet(T)
    BY DEF CardsOK
  <2> QED
    BY <2>2, <2>3, <2>4, FS_UNION
<1>2. cards' = [cards EXCEPT ![a] = Deduped(set, a, taken)]
  BY DEF Carded
<1>3. \A b \in Ids \ {a} : cards[b] \subseteq taken
  OBVIOUS
<1> HIDE DEF taken
<1>4. /\ Deduped(set, a, taken) \cap taken = {}
      /\ IsFiniteSet(Deduped(set, a, taken))
      /\ set # {} => Deduped(set, a, taken) # {}
  BY <1>1, DedupedFacts
<1>5. cards'[a] = Deduped(set, a, taken) /\ \A b \in Ids \ {a} : cards'[b] = cards[b]
  BY <1>2 DEF CardsOK
<1>6. cards' = [b \in Ids |-> cards'[b]]
  BY <1>2 DEF CardsOK
<1>7. \A b \in Ids : IsFiniteSet(cards'[b])
  BY <1>4, <1>5 DEF CardsOK
<1>8. IdsUnique'
  BY <1>3, <1>4, <1>5 DEF CardsOK, IdsUnique
<1> QED
  BY <1>4, <1>5, <1>6, <1>7, <1>8 DEF CardsOK

LEMMA PlainFinite ==
  ASSUME NEW names, IsFiniteSet(names)
  PROVE  IsFiniteSet({Plain(x) : x \in names})
<1> DEFINE f == [x \in names |-> Plain(x)]
<1>1. DOMAIN f = names /\ {f[x] : x \in names} = {Plain(x) : x \in names}
  OBVIOUS
<1> HIDE DEF f
<1>2. IsFiniteSet({f[x] : x \in names})
  BY <1>1, ImageFinite
<1> QED
  BY <1>1, <1>2

\* What each write of cards does: this angle's change, the others' do not.
OnlyCards(a) ==
  /\ CardsOK' /\ (cards[a] # {} => cards'[a] # {})
  /\ \A b \in Ids \ {a} : cards'[b] = cards[b]

LEMMA ScoutCards == ASSUME CardsOK, NEW a \in Ids, Scout(a) PROVE OnlyCards(a)
<1>1. PICK names \in Found[a] : cards' = Carded(a, {Plain(x) : x \in names})
  BY DEF Scout
<1>2. IsFiniteSet({Plain(x) : x \in names}) /\ {Plain(x) : x \in names} # {}
  BY SetFacts, PlainFinite
<1> QED
  BY <1>1, <1>2, CardedFacts DEF OnlyCards

LEMMA ReviseCards == ASSUME CardsOK, NEW a \in Ids, Revise(a) PROVE OnlyCards(a)
<1>1. PICK names \in Found[a], kept \in {cards[a], {}} :
        cards' = Carded(a, kept \cup {Plain(x) : x \in names})
  BY DEF Revise
<1>2. IsFiniteSet({Plain(x) : x \in names}) /\ {Plain(x) : x \in names} # {}
  BY SetFacts, PlainFinite
<1>3. IsFiniteSet(kept)
  BY FS_EmptySet DEF CardsOK
<1>4. IsFiniteSet(kept \cup {Plain(x) : x \in names})
  BY <1>2, <1>3, FS_Union
<1> QED
  BY <1>1, <1>2, <1>4, CardedFacts DEF OnlyCards

LEMMA TopUpCards == ASSUME CardsOK, NEW a \in Ids, TopUp(a) PROVE OnlyCards(a)
<1>1. PICK names \in Missed[a] :
        LET added == {Plain(x) : x \in names} \ cards[a]
        IN  cards' = IF added = {} THEN cards ELSE Carded(a, cards[a] \cup added)
  BY DEF TopUp
<1> DEFINE added == {Plain(x) : x \in names} \ cards[a]
<1>2. IsFiniteSet(cards[a] \cup added)
  <2>1. IsFiniteSet({Plain(x) : x \in names})
    BY SetFacts, PlainFinite
  <2>2. IsFiniteSet(added)
    BY <2>1, FS_Subset
  <2> HIDE DEF added
  <2> QED
    BY <2>2, FS_Union DEF CardsOK
<1>3. CASE added = {}
  <2>1. cards' = cards
    BY <1>1, <1>3
  <2> QED
    BY <2>1 DEF OnlyCards, CardsOK, IdsUnique
<1>4. CASE added # {}
  <2>1. cards' = Carded(a, cards[a] \cup added)
    BY <1>1, <1>4
  <2> HIDE DEF added
  <2> QED
    BY <1>2, <1>4, <2>1, CardedFacts DEF OnlyCards
<1> QED
  BY <1>3, <1>4

LEMMA EraseCards ==
  ASSUME CardsOK, NEW angles, Erase(angles)
  PROVE  CardsOK'
BY FS_EmptySet DEF CardsOK, Erase, Without, IdsUnique

LEMMA CardsKept == CardsOK /\ UNCHANGED cards => CardsOK'
BY DEF CardsOK, IdsUnique

LEMMA NextCards == CardsOK /\ [Next]_vars => CardsOK'
<1> SUFFICES ASSUME CardsOK, [Next]_vars PROVE CardsOK'
  OBVIOUS
<1>1. CASE StageStep
  BY <1>1, CardsKept DEF StageStep, Allocating, Resume, Replay, Redistribute,
     NothingToRedistribute, FinishReflow, files
<1>2. ASSUME NEW a \in Ids, AngleStep(a) PROVE CardsOK'
  <2>1. CASE Scout(a)
    BY <2>1, ScoutCards DEF OnlyCards
  <2>2. CASE ReviewCards(a)
    BY <2>2, CardsKept DEF ReviewCards, files
  <2>3. CASE Revise(a)
    BY <2>3, ReviseCards DEF OnlyCards
  <2>4. CASE WriteCritique(a)
    BY <2>4, CardsKept DEF WriteCritique
  <2>5. CASE TopUp(a)
    BY <2>5, TopUpCards DEF OnlyCards
  <2> QED
    BY <1>2, <2>1, <2>2, <2>3, <2>4, <2>5 DEF AngleStep
<1>3. ASSUME NEW a \in Ids, RerunAngle(a) PROVE CardsOK'
  BY <1>3, EraseCards DEF RerunAngle
<1>4. CASE RerunStage
  BY <1>4, EraseCards DEF RerunStage
<1>5. CASE Interrupt
  BY <1>5, CardsKept DEF Interrupt, files
<1>6. CASE UNCHANGED vars
  BY <1>6, CardsKept DEF vars, files
<1> QED
  BY <1>1, <1>2, <1>3, <1>4, <1>5, <1>6 DEF Next

LEMMA InitCards == Init => CardsOK
BY FS_EmptySet DEF Init, CardsOK, IdsUnique

LEMMA CardsInvariant == Spec => []CardsOK
BY InitCards, NextCards, PTL DEF Spec

\* However the parallel scouts, their revisions and their top-ups interleave,
\* and whatever is interrupted or rerun, no two angles hold the same option id.
THEOREM UniqueIds == Spec => []IdsUnique
<1>1. CardsOK => IdsUnique
  BY DEF CardsOK
<1> QED
  BY <1>1, CardsInvariant, PTL

-----------------------------------------------------------------------------
(* FilesAttest.                                                            *)

\* Every variable that is a function is one over the angles.
Shape ==
  /\ critique = [a \in Ids |-> critique[a]] /\ pc = [a \in Ids |-> pc[a]]
  /\ read = [a \in Ids |-> read[a]]
  /\ revised = [a \in Ids |-> revised[a]] /\ topped = [a \in Ids |-> topped[a]]

\* A revision is on disk before the critique that asked for it.
Reviewed(a) ==
  /\ redone[a] \in Nat
  /\ critique[a].made =>
       revised[a] = redone[a] + IF NeedsRevision(critique[a].of) THEN 1 ELSE 0
  /\ ~critique[a].made /\ pc[a] # "critique" => revised[a] = redone[a]
  /\ pc[a] = "revise" => NeedsRevision(read[a])
  /\ pc[a] = "critique" =>
       revised[a] = redone[a] + IF NeedsRevision(read[a]) THEN 1 ELSE 0
  /\ pc[a] # "read" => proc = "gather" /\ a \in Scouted /\ ~critique[a].made
  /\ a \in fresh => a \in Scouted /\ critique[a].made

\* No top-up is behind an angle's cards.
Bare(a) == topped[a] = 0 /\ wasted[a] = 0

\* While no table is on disk, the one top-up not wasted is of this process.
\* With one on disk, an angle it grants units has its top-up, or its cards
\* went and this process sees to it, or an interruption forgot it.
Served(a) ==
  /\ wasted[a] \in Nat
  /\ reflow = None =>
       /\ a \notin forgotten
       /\ topped[a] = wasted[a] +
            IF proc = "topup" /\ a \in Granted(table, Scouted) \ todo THEN 1 ELSE 0
       /\ proc = "topup" /\ a \in todo => a \in Granted(table, Scouted)
  /\ reflow # None =>
       /\ topped[a] \in {wasted[a], wasted[a] + 1}
       /\ proc = "gather" /\ a \in fresh => Bare(a)
       /\ proc = "topup" /\ a \in todo => Bare(a) /\ a \in ToReplay
       /\ a \in Scouted /\ ~critique[a].made => Bare(a)
       /\ a \in forgotten => Bare(a) /\ a \notin fresh /\ critique[a].made
       /\ a \in Granted(reflow, Scouted) =>
            \/ a \in forgotten
            \/ topped[a] = wasted[a] + 1
            \/ proc = "topup" /\ a \in todo
            \/ proc = "gather" /\ a \in fresh
            \/ proc \in {"idle", "gather"} /\ ~critique[a].made

\* What the reflow rests on: every angle is settled when units are served, and
\* with a table on disk until an angle is re-scouted.
Rests ==
  /\ proc \in {"s2", "idle", "gather", "topup", "done"}
  /\ proc = "s2" => reflow = None
  /\ proc \notin {"gather", "topup"} => fresh = {}
  /\ proc = "topup" =>
       /\ table # None /\ (reflow # None => table = reflow)
       /\ \A a \in Scouted : Settled(a)
  /\ reflow # None /\ again = {} =>
       proc \in {"idle", "done"} /\ \A a \in Scouted : Settled(a)

\* The inductive invariant.
IInv == CardsOK /\ Shape /\ Rests /\ \A a \in Ids : Reviewed(a) /\ Served(a)

LEMMA ScoutedFacts == Scouted \subseteq Ids
BY DEF Scouted

LEMMA InitAttest == Init => IInv
<1> SUFFICES ASSUME Init PROVE IInv
  OBVIOUS
<1>1. CardsOK
  BY InitCards
<1>2. Shape /\ Rests
  BY DEF Init, Shape, Rests
<1>3. ASSUME NEW a \in Ids PROVE Reviewed(a) /\ Served(a)
  BY DEF Init, Reviewed, Served, NoCritique
<1> QED
  BY <1>1, <1>2, <1>3 DEF IInv

LEMMA AllocatingKeeps == ASSUME IInv, Allocating PROVE IInv'
<1>1. CardsOK'
  BY CardsKept DEF IInv, Allocating
<1>2. Shape' /\ Rests'
  BY DEF IInv, Allocating, Shape, Rests, memory, history, cutoff
<1>3. ASSUME NEW a \in Ids PROVE Reviewed(a)' /\ Served(a)'
  BY DEF IInv, Allocating, Reviewed, Served, Rests, memory, history, cutoff
<1> QED
  BY <1>1, <1>2, <1>3 DEF IInv

LEMMA ResumeKeeps == ASSUME IInv, Resume PROVE IInv'
<1>1. CardsOK'
  BY CardsKept DEF IInv, Resume, files
<1>2. Shape'
  BY DEF IInv, Resume, Shape, files, memory, history, cutoff
<1>3. Rests'
  BY DEF IInv, Resume, Rests, Complete, Scouted, Settled, files, memory, history, cutoff
<1>4. ASSUME NEW a \in Ids PROVE Reviewed(a)' /\ Served(a)'
  <2>1. Scouted' = Scouted /\ UNCHANGED <<critique, reflow, revised, topped, redone, wasted, forgotten, pc,
                                          read, fresh, todo, table>>
    BY DEF Resume, Scouted, files, memory, history, cutoff
  <2>2. Reviewed(a)'
    BY <2>1 DEF IInv, Resume, Reviewed
  <2>3. Granted(reflow, Scouted)' = Granted(reflow, Scouted)
    BY <2>1 DEF Granted
  <2>4. Complete /\ a \in Granted(reflow, Scouted) => critique[a].made
    BY DEF Complete, Settled, Granted
  <2>5. Served(a)'
    BY <2>1, <2>3, <2>4 DEF IInv, Resume, Served, Rests, Bare
  <2> QED
    BY <2>2, <2>5
<1> QED
  BY <1>1, <1>2, <1>3, <1>4 DEF IInv

LEMMA ReplayKeeps == ASSUME IInv, Replay PROVE IInv'
<1>1. CardsOK'
  BY CardsKept DEF IInv, Replay, files
<1>2. Scouted' = Scouted /\ UNCHANGED <<cards, critique, reflow, revised, topped, redone, wasted, forgotten, again,
                                        pc, read, fresh>>
  BY DEF Replay, Scouted, files, history, cutoff
<1>3. Shape'
  BY <1>2 DEF IInv, Shape
<1>4. Rests'
  BY <1>2 DEF IInv, Replay, Rests, Gathered, Settled
<1>5. ASSUME NEW a \in Ids PROVE Reviewed(a)' /\ Served(a)'
  <2>1. Reviewed(a)'
    BY <1>2 DEF IInv, Replay, Gathered, Reviewed
  <2>2. Granted(reflow, Scouted)' = Granted(reflow, Scouted)
        /\ Granted(table, Scouted)' = Granted(reflow, Scouted)
    BY <1>2 DEF Granted, Replay
  <2>3. a \in Granted(reflow, Scouted) => critique[a].made
    BY DEF Replay, Gathered, Settled, Granted
  <2>4. /\ a \in todo' => a \in fresh
        /\ a \in fresh /\ a \in Granted(reflow, Scouted) => a \in todo'
    BY DEF Replay, ToReplay, Granted
  <2>5. reflow # None /\ todo' = ToReplay /\ ToReplay' = ToReplay
        /\ proc = "gather" /\ proc' = "topup"
    BY <1>2 DEF Replay, ToReplay, Granted, Gathered
  <2>6. Served(a)'
    BY <1>2, <2>2, <2>3, <2>4, <2>5 DEF IInv, Served, Bare
  <2> QED
    BY <2>1, <2>6
<1> QED
  BY <1>1, <1>3, <1>4, <1>5 DEF IInv

LEMMA RedistributeKeeps == ASSUME IInv, Redistribute PROVE IInv'
<1>1. CardsOK'
  BY CardsKept DEF IInv, Redistribute, files
<1>2. Scouted' = Scouted /\ UNCHANGED <<cards, critique, reflow, revised, topped, redone, wasted, forgotten, again,
                                        pc, read, fresh>>
  BY DEF Redistribute, Scouted, files, history, cutoff
<1>3. Shape'
  BY <1>2 DEF IInv, Shape
<1>4. Rests'
  BY <1>2 DEF IInv, Redistribute, Rests, Gathered, Settled
<1>5. ASSUME NEW a \in Ids PROVE Reviewed(a)' /\ Served(a)'
  <2>1. Reviewed(a)'
    BY <1>2 DEF IInv, Redistribute, Gathered, Reviewed
  <2>2. Granted(table, Scouted)' = todo'
    BY <1>2 DEF Granted, Redistribute
  <2>3. Served(a)'
    BY <1>2, <2>2 DEF IInv, Redistribute, Served, Gathered
  <2> QED
    BY <2>1, <2>3
<1> QED
  BY <1>1, <1>3, <1>4, <1>5 DEF IInv

LEMMA NothingToRedistributeKeeps == ASSUME IInv, NothingToRedistribute PROVE IInv'
<1>1. CardsOK'
  BY CardsKept DEF IInv, NothingToRedistribute, files
<1>2. Scouted' = Scouted /\ UNCHANGED <<cards, critique, reflow, revised, topped, redone, wasted, forgotten, again>>
  BY DEF NothingToRedistribute, Scouted, files, history, cutoff
<1>3. Shape' /\ Rests'
  BY <1>2 DEF IInv, Shape, Rests, NothingToRedistribute, Forget
<1>4. ASSUME NEW a \in Ids PROVE Reviewed(a)' /\ Served(a)'
  <2>1. pc[a] = "read" /\ pc'[a] = "read"
    BY DEF IInv, NothingToRedistribute, Forget, Gathered, Reviewed
  <2> QED
    BY <1>2, <2>1 DEF IInv, NothingToRedistribute, Forget, Reviewed, Served, Gathered
<1> QED
  BY <1>1, <1>3, <1>4 DEF IInv

LEMMA FinishReflowKeeps == ASSUME IInv, FinishReflow PROVE IInv'
<1>1. CardsOK'
  BY CardsKept DEF IInv, FinishReflow
<1>2. Scouted' = Scouted /\ UNCHANGED <<cards, critique, revised, topped, redone, wasted, forgotten, again>>
  BY DEF FinishReflow, Scouted, history, cutoff
<1>3. Shape'
  BY <1>2 DEF IInv, Shape, FinishReflow, Forget
<1>4. Rests'
  BY <1>2 DEF IInv, Rests, FinishReflow, Forget, Settled
<1>5. ASSUME NEW a \in Ids PROVE Reviewed(a)' /\ Served(a)'
  <2>1. pc[a] = "read" /\ pc'[a] = "read"
    BY DEF IInv, FinishReflow, Forget, Reviewed
  <2>2. Reviewed(a)'
    BY <1>2, <2>1 DEF IInv, FinishReflow, Forget, Reviewed
  <2>3. Granted(reflow, Scouted)' = Granted(table, Scouted)
    BY <1>2 DEF Granted, FinishReflow
  <2>4. a \in Scouted => critique[a].made
    BY DEF IInv, Rests, FinishReflow, Settled
  <2>5. proc = "topup" /\ proc' = "done" /\ todo = {} /\ fresh' = {} /\ reflow' = table
        /\ table # None /\ (reflow # None => table = reflow)
    BY DEF IInv, FinishReflow, Forget, Rests
  <2>6. Granted(table, Scouted) \subseteq Scouted
    BY DEF Granted
  <2>7. Served(a)'
    <3>1. CASE reflow = None
      BY <1>2, <2>3, <2>4, <2>5, <2>6, <3>1 DEF IInv, Served
    <3>2. CASE reflow # None
      BY <1>2, <2>3, <2>4, <2>5, <2>6, <3>2 DEF IInv, Served, Bare
    <3> QED
      BY <3>1, <3>2
  <2> QED
    BY <2>2, <2>7
<1> QED
  BY <1>1, <1>3, <1>4, <1>5 DEF IInv

LEMMA ScoutKeeps == ASSUME IInv, NEW x \in Ids, Scout(x) PROVE IInv'
<1>1. CardsOK'
  BY ScoutCards DEF IInv, OnlyCards
<1>2. Scouted' = Scouted /\ proc = "gather"
      /\ UNCHANGED <<critique, reflow, revised, topped, redone, wasted, forgotten, again, proc, pc, read,
                     fresh, table, todo>>
  BY DEF Scout, At, Scouted, memory, history, cutoff
<1>3. Shape' /\ Rests'
  BY <1>2 DEF IInv, Shape, Rests
<1>4. ASSUME NEW a \in Ids PROVE Reviewed(a)' /\ Served(a)'
  BY <1>2 DEF IInv, Reviewed, Served, Granted, Bare, ToReplay
<1> QED
  BY <1>1, <1>3, <1>4 DEF IInv

LEMMA ReviewCardsKeeps == ASSUME IInv, NEW x \in Ids, ReviewCards(x) PROVE IInv'
<1>1. CardsOK'
  BY CardsKept DEF IInv, ReviewCards, files
<1>2. Scouted' = Scouted /\ proc = "gather"
      /\ UNCHANGED <<cards, critique, reflow, revised, topped, redone, wasted, forgotten, again, proc, fresh,
                     table, todo>>
  BY DEF ReviewCards, At, Scouted, files, history, cutoff
<1>3. PICK r \in Reviews[x] :
        /\ read' = [read EXCEPT ![x] = r]
        /\ Goto(x, IF NeedsRevision(r) THEN "revise" ELSE "critique")
  BY DEF ReviewCards
<1>4. Shape' /\ Rests'
  BY <1>2, <1>3 DEF IInv, Shape, Rests, Goto
<1>5. ASSUME NEW a \in Ids PROVE Reviewed(a)' /\ Served(a)'
  <2>1. Served(a)'
    BY <1>2 DEF IInv, Served, Granted, Bare, ToReplay
  <2>2. CASE a # x
    <3>1. read'[a] = read[a] /\ pc'[a] = pc[a]
      BY <1>3, <2>2 DEF IInv, Shape, Goto
    <3> QED
      BY <1>2, <2>1, <3>1 DEF IInv, Reviewed
  <2>3. CASE a = x
    <3>1. /\ pc[a] = "read" /\ ~critique[a].made /\ a \in Scouted
          /\ read'[a] = r
          /\ pc'[a] = IF NeedsRevision(r) THEN "revise" ELSE "critique"
      BY <1>3, <2>3 DEF IInv, Shape, Goto, ReviewCards, At
    <3>2. revised[a] = redone[a] /\ redone[a] \in Nat /\ a \notin fresh
      BY <3>1 DEF IInv, Reviewed, Shape
    <3> QED
      BY <1>2, <2>1, <3>1, <3>2 DEF Reviewed
  <2> QED
    BY <2>2, <2>3
<1> QED
  BY <1>1, <1>4, <1>5 DEF IInv

LEMMA ReviseKeeps == ASSUME IInv, NEW x \in Ids, Revise(x) PROVE IInv'
<1>1. CardsOK'
  BY ReviseCards DEF IInv, OnlyCards
<1>2. Scouted' = Scouted /\ proc = "gather"
      /\ UNCHANGED <<critique, reflow, topped, redone, wasted, forgotten, again, proc, read, fresh, table, todo>>
      /\ revised' = [revised EXCEPT ![x] = @ + 1] /\ pc' = [pc EXCEPT ![x] = "critique"]
      /\ pc[x] = "revise"
  BY DEF Revise, At, Goto, Scouted, cutoff
<1>3. Shape' /\ Rests'
  BY <1>2 DEF IInv, Shape, Rests
<1>4. ASSUME NEW a \in Ids PROVE Reviewed(a)' /\ Served(a)'
  <2>1. Served(a)'
    BY <1>2 DEF IInv, Served, Granted, Bare, ToReplay
  <2>2. CASE a # x
    <3>1. revised'[a] = revised[a] /\ pc'[a] = pc[a]
      BY <1>2, <2>2 DEF IInv, Shape
    <3> QED
      BY <1>2, <2>1, <3>1 DEF IInv, Reviewed
  <2>3. CASE a = x
    <3>1. /\ revised'[a] = revised[a] + 1 /\ pc'[a] = "critique"
          /\ revised[a] = redone[a] /\ redone[a] \in Nat
          /\ ~critique[a].made /\ a \in Scouted
      BY <1>2, <2>3 DEF IInv, Shape, Reviewed
    <3>2. NeedsRevision(read[a])
      BY <1>2, <2>3 DEF IInv, Reviewed
    <3> QED
      BY <1>2, <2>1, <3>1, <3>2 DEF IInv, Reviewed
  <2> QED
    BY <2>2, <2>3
<1> QED
  BY <1>1, <1>3, <1>4 DEF IInv

LEMMA WriteCritiqueKeeps == ASSUME IInv, NEW x \in Ids, WriteCritique(x) PROVE IInv'
<1>1. CardsOK'
  BY CardsKept DEF IInv, WriteCritique
<1>2. Scouted' = Scouted /\ proc = "gather"
      /\ UNCHANGED <<cards, reflow, revised, topped, redone, wasted, forgotten, again, proc, read, table, todo>>
      /\ critique' = [critique EXCEPT ![x] = [made |-> TRUE, of |-> read[x]]]
      /\ fresh' = fresh \cup {x} /\ pc' = [pc EXCEPT ![x] = "read"]
      /\ pc[x] = "critique" /\ x \in Scouted
  BY DEF WriteCritique, At, Goto, Scouted, history, cutoff
<1>3. Shape' /\ Rests'
  BY <1>2 DEF IInv, Shape, Rests
<1>4. ASSUME NEW a \in Ids PROVE Reviewed(a)' /\ Served(a)'
  <2>1. CASE a # x
    <3>1. critique'[a] = critique[a] /\ pc'[a] = pc[a] /\ (a \in fresh' <=> a \in fresh)
      BY <1>2, <2>1 DEF IInv, Shape
    <3> QED
      BY <1>2, <3>1 DEF IInv, Reviewed, Served, Granted, Bare, ToReplay
  <2>2. CASE a = x
    <3>1. critique'[a] = [made |-> TRUE, of |-> read[a]] /\ pc'[a] = "read" /\ a \in fresh'
          /\ ~critique[a].made
      BY <1>2, <2>2 DEF IInv, Shape, Reviewed
    <3> QED
      BY <1>2, <2>2, <3>1 DEF IInv, Reviewed, Served, Granted, Bare, ToReplay
  <2> QED
    BY <2>1, <2>2
<1> QED
  BY <1>1, <1>3, <1>4 DEF IInv

LEMMA TopUpKeeps == ASSUME IInv, NEW x \in Ids, TopUp(x) PROVE IInv'
<1>1. OnlyCards(x)
  BY TopUpCards DEF IInv
<1>2. Scouted' = Scouted /\ proc = "topup" /\ x \in todo
      /\ UNCHANGED <<critique, reflow, revised, redone, wasted, forgotten, again, proc, pc, read, fresh, table>>
      /\ topped' = [topped EXCEPT ![x] = @ + 1] /\ todo' = todo \ {x}
  BY DEF TopUp, Scouted, cutoff
<1>3. Shape'
  BY <1>2 DEF IInv, Shape
<1>4. Rests'
  <2>1. \A a \in Scouted : Settled(a)'
    BY <1>1, <1>2, ScoutedFacts DEF IInv, Rests, OnlyCards, Settled
  <2> QED
    BY <1>2, <2>1 DEF IInv, Rests
<1>5. ASSUME NEW a \in Ids PROVE Reviewed(a)' /\ Served(a)'
  <2>1. Reviewed(a)'
    BY <1>2 DEF IInv, Reviewed
  <2>2. a \in Scouted => critique[a].made
    BY <1>2 DEF IInv, Rests, Settled
  <2>3. CASE a # x
    <3>1. topped'[a] = topped[a] /\ (a \in todo' <=> a \in todo)
      BY <1>2, <2>3 DEF IInv, Shape
    <3> QED
      BY <1>2, <2>1, <3>1 DEF IInv, Served, Granted, Bare, ToReplay
  <2>4. CASE a = x
    <3>1. topped'[a] = topped[a] + 1 /\ a \notin todo' /\ wasted[a] \in Nat
      BY <1>2, <2>4 DEF IInv, Shape, Served
    <3>2. topped[a] = wasted[a] /\ a \notin forgotten
      BY <1>2, <2>4 DEF IInv, Served, Bare, ToReplay, Granted
    <3> QED
      BY <1>2, <2>1, <2>2, <3>1, <3>2 DEF IInv, Served, Granted, Bare, ToReplay
  <2> QED
    BY <2>3, <2>4
<1> QED
  BY <1>1, <1>3, <1>4, <1>5 DEF IInv, OnlyCards

\* Erasing an angle's files starts it anew.
LEMMA EraseKeeps ==
  ASSUME IInv, NEW angles, Erase(angles), proc \in {"idle", "done"}, proc' = "idle",
         UNCHANGED <<alloc, pc, read, fresh>>,
         \/ reflow' = reflow /\ again' # {}
         \/ reflow' = None /\ Ids \subseteq angles
  PROVE  IInv'
<1>1. CardsOK'
  BY EraseCards DEF IInv
<1>2. Shape'
  BY DEF IInv, Shape, Erase, Without
<1>3. Rests'
  BY DEF IInv, Rests
<1>4. Scouted' = Scouted
  BY DEF Scouted
<1>5. ASSUME NEW a \in Ids PROVE Reviewed(a)' /\ Served(a)'
  <2>1. pc[a] = "read" /\ pc'[a] = "read"
    BY DEF IInv, Reviewed
  <2>4. fresh' = {}
    BY DEF IInv, Rests
  <2>2. CASE a \in angles
    <3>1. /\ ~critique'[a].made /\ revised'[a] = 0 /\ redone'[a] = 0
          /\ topped'[a] = 0 /\ wasted'[a] = 0 /\ a \notin forgotten'
      BY <2>2 DEF Erase, Without, NoCritique
    <3> QED
      BY <2>1, <2>4, <3>1 DEF Reviewed, Served, Bare
  <2>3. CASE a \notin angles
    <3>1. /\ critique'[a] = critique[a]
          /\ revised'[a] = revised[a] /\ redone'[a] = redone[a]
          /\ topped'[a] = topped[a] /\ wasted'[a] = wasted[a]
          /\ (a \in forgotten' <=> a \in forgotten)
      BY <2>3 DEF Erase, Without
    <3>2. reflow' = reflow
      BY <2>3
    <3> QED
      BY <1>4, <2>1, <3>1, <3>2 DEF IInv, Reviewed, Served, Granted, Bare, ToReplay
  <2> QED
    BY <2>2, <2>3
<1> QED
  BY <1>1, <1>2, <1>3, <1>5 DEF IInv

LEMMA RerunAngleKeeps == ASSUME IInv, NEW x \in Ids, RerunAngle(x) PROVE IInv'
<1>1. /\ Erase({x}) /\ proc \in {"idle", "done"} /\ proc' = "idle"
      /\ UNCHANGED <<alloc, pc, read, fresh>>
      /\ reflow' = reflow /\ again' # {}
  BY DEF RerunAngle, RerunGuard, memory
<1> QED
  BY <1>1, EraseKeeps

LEMMA RerunStageKeeps == ASSUME IInv, RerunStage PROVE IInv'
BY EraseKeeps DEF RerunStage, RerunGuard, memory

\* An interruption counts what it cuts off.
LEMMA InterruptKeeps == ASSUME IInv, Interrupt PROVE IInv'
<1>1. CardsOK'
  BY CardsKept DEF IInv, Interrupt, files
<1>2. UNCHANGED <<cards, critique, reflow, revised, topped, again>> /\ Scouted' = Scouted
      /\ proc' = "idle" /\ fresh' = {}
  BY DEF Interrupt, Forget, Scouted, files
<1>3. Shape'
  BY <1>2 DEF IInv, Shape, Interrupt, Forget
<1>4. Rests'
  BY <1>2 DEF IInv, Rests, Interrupt, Settled
<1>5. ASSUME NEW a \in Ids PROVE Reviewed(a)' /\ Served(a)'
  <2>1. pc'[a] = "read"
        /\ redone'[a] = redone[a] + (IF a \in Uncritiqued THEN 1 ELSE 0)
        /\ wasted'[a] = wasted[a] + (IF a \in Untabled THEN 1 ELSE 0)
        /\ forgotten' = forgotten \cup Unserved
    BY DEF Interrupt, Forget, CountOne
  <2>2. Reviewed(a)'
    <3>1. CASE pc[a] = "critique"
      <4>1. ~critique[a].made /\ (a \in Uncritiqued <=> NeedsRevision(read[a]))
        BY <3>1 DEF IInv, Reviewed, Uncritiqued
      <4> QED
        BY <1>2, <2>1, <3>1, <4>1 DEF IInv, Reviewed
    <3>2. CASE pc[a] # "critique"
      <4>1. a \notin Uncritiqued
        BY <3>2 DEF Uncritiqued
      <4> QED
        BY <1>2, <2>1, <3>2, <4>1 DEF IInv, Reviewed
    <3> QED
      BY <3>1, <3>2
  <2>3. CASE reflow = None
    <3>1. Unserved = {}
      BY <2>3 DEF Unserved, ToReplay, Granted, None
    <3>2. a \in Untabled <=> proc = "topup" /\ a \in Granted(table, Scouted) \ todo
      BY <2>3 DEF Untabled
    <3> QED
      BY <1>2, <2>1, <2>2, <2>3, <3>1, <3>2 DEF IInv, Served
  <2>4. CASE reflow # None
    <3>1. Untabled = {}
      BY <2>4 DEF Untabled
    <3>2. Granted(reflow, Scouted)' = Granted(reflow, Scouted)
      BY <1>2 DEF Granted
    <3>3. a \in Unserved => a \in fresh /\ (proc = "topup" => a \in todo)
      BY DEF Unserved, ToReplay, Granted
    <3>4. a \in Unserved => Bare(a) /\ critique[a].made
      BY <2>4, <3>3 DEF IInv, Reviewed, Served, Interrupt
    <3>5. a \in Granted(reflow, Scouted) /\ a \in fresh => a \in ToReplay
      BY DEF ToReplay, Granted
    <3>6. proc = "topup" /\ a \in todo => a \in ToReplay
      BY <2>4 DEF IInv, Served
    <3>7. a \in Granted(reflow, Scouted) =>
            \/ a \in forgotten' \/ topped[a] = wasted[a] + 1 \/ ~critique[a].made
      BY <2>1, <2>4, <3>5, <3>6 DEF IInv, Served, Unserved, Interrupt
    <3> QED
      BY <1>2, <2>1, <2>2, <2>4, <3>1, <3>2, <3>4, <3>7 DEF IInv, Served, Bare
  <2> QED
    BY <2>3, <2>4
<1> QED
  BY <1>1, <1>3, <1>4, <1>5 DEF IInv

LEMMA NextAttest == IInv /\ [Next]_vars => IInv'
<1> SUFFICES ASSUME IInv, [Next]_vars PROVE IInv'
  OBVIOUS
<1>1. CASE StageStep
  BY <1>1, AllocatingKeeps, ResumeKeeps, ReplayKeeps, RedistributeKeeps,
     NothingToRedistributeKeeps, FinishReflowKeeps DEF StageStep
<1>2. ASSUME NEW a \in Ids, AngleStep(a) PROVE IInv'
  BY <1>2, ScoutKeeps, ReviewCardsKeeps, ReviseKeeps, WriteCritiqueKeeps, TopUpKeeps
     DEF AngleStep
<1>3. ASSUME NEW a \in Ids, RerunAngle(a) PROVE IInv'
  BY <1>3, RerunAngleKeeps
<1>4. CASE RerunStage
  BY <1>4, RerunStageKeeps
<1>5. CASE Interrupt
  BY <1>5, InterruptKeeps
<1>6. CASE UNCHANGED vars
  <2>1. CardsOK'
    BY <1>6, CardsKept DEF IInv, vars, files
  <2>2. Shape' /\ Rests'
    BY <1>6 DEF IInv, Shape, Rests, Scouted, Settled, vars, files, memory, history, cutoff
  <2>3. ASSUME NEW a \in Ids PROVE Reviewed(a)' /\ Served(a)'
    BY <1>6 DEF IInv, Reviewed, Served, Granted, Bare, ToReplay, Scouted, vars, files, memory, history, cutoff
  <2> QED
    BY <2>1, <2>2, <2>3 DEF IInv
<1> QED
  BY <1>1, <1>2, <1>3, <1>4, <1>5, <1>6 DEF Next

\* Whatever is interrupted or rerun, a critique stands for the revision it asked
\* for and no other, and a settled reflow table for one top-up of the present
\* cards of every angle it grants units, but for what an interruption cut off:
\* revised cards without their critique, top-ups without their table, and the
\* memory that a re-scouted angle is owed its top-up.
THEOREM FilesTrue == Spec => []FilesAttest
<1>1. Init => IInv
  BY InitAttest
<1>2. IInv /\ [Next]_vars => IInv'
  BY NextAttest
<1>3. IInv => FilesAttest
  <2> SUFFICES ASSUME IInv, NEW a \in Ids
               PROVE  /\ critique[a].made =>
                           revised[a] = redone[a] + IF NeedsRevision(critique[a].of) THEN 1 ELSE 0
                      /\ revised[a] <= redone[a] + 1 /\ topped[a] <= wasted[a] + 1
                      /\ proc = "done" /\ a \in Granted(reflow, Scouted) =>
                           topped[a] = IF a \in forgotten THEN 0 ELSE wasted[a] + 1
    BY DEF FilesAttest
  <2>1. a \in Granted(reflow, Scouted) => reflow # None
    BY DEF Granted, None
  <2> QED
    BY <2>1 DEF IInv, Reviewed, Served, Bare
<1> QED
  BY <1>1, <1>2, <1>3, PTL DEF Spec

-----------------------------------------------------------------------------
(* Units.                                                                  *)

\* The map as a table: as many angles as the sequence is long, each with a
\* place of its own.
LEMMA MapFacts ==
  /\ IsFiniteSet(Ids) /\ Cardinality(Ids) = Len(Angles) /\ Len(Angles) \in Nat
  /\ \A a \in Ids : Order[a] \in Nat
  /\ \A a, b \in Ids : Order[a] = Order[b] => a = b
<1> DEFINE n == Len(Angles)
           T == 1 .. n
           f == [i \in T |-> Angles[i]]
<1>1. Angles \in Seq(Ids) /\ IsInjective(Angles) /\ IsFiniteSet(Ids)
  BY ScoutingAssumption DEF ScoutingAssumption
<1>2. n \in Nat /\ DOMAIN Angles = T
  BY <1>1
<1>3. Ids = {Angles[i] : i \in T}
  BY <1>2 DEF Ids, ToSet
<1>4. \A i, j \in T : Angles[i] = Angles[j] => i = j
  BY <1>1, <1>2 DEF IsInjective
<1>5. IsFiniteSet(T) /\ Cardinality(T) = n
  <2>1. 1 \in Int /\ n \in Int
    BY <1>2
  <2>2. IsFiniteSet(1 .. n) /\ Cardinality(1 .. n) = IF 1 > n THEN 0 ELSE n - 1 + 1
    BY <2>1, FS_Interval, Zenon
  <2> QED
    BY <1>2, <2>2
<1> HIDE DEF T, n
<1>6. f \in [T -> Ids]
  BY <1>3
<1>7. (\A i, j \in T : f[i] = f[j] => i = j) /\ (\A a \in Ids : \E i \in T : f[i] = a)
  BY <1>3, <1>4
<1> HIDE DEF f
<1>8. f \in Injection(T, Ids) /\ f \in Surjection(T, Ids)
  BY <1>6, <1>7 DEF Injection, IsInjective, Surjection
<1>9. Cardinality(Ids) = n
  <2>1. Cardinality(T) <= Cardinality(Ids)
    BY <1>1, <1>8, FS_Injection
  <2>2. Cardinality(Ids) <= Cardinality(T)
    BY <1>5, <1>8, FS_Surjection
  <2>3. Cardinality(Ids) \in Nat
    BY <1>1, FS_CardinalityType
  <2> QED
    BY <1>2, <1>5, <2>1, <2>2, <2>3
<1>10. \A a \in Ids : Order[a] \in T /\ Angles[Order[a]] = a
  <2>1. \A a \in Ids : \E i \in T : Angles[i] = a
    BY <1>3
  <2> QED
    BY <1>2, <2>1 DEF Order
<1>11. T \subseteq Nat
  BY <1>2 DEF T
<1> QED
  BY <1>1, <1>2, <1>9, <1>10, <1>11 DEF n

LEMMA MaxOfTwo ==
  ASSUME NEW x \in Int, NEW y \in Int
  PROVE  Max({x, y}) \in {x, y} /\ Max({x, y}) >= x /\ Max({x, y}) >= y
<1> DEFINE S == {x, y}
<1>1. \E m \in S : \A z \in S : m >= z
  <2>1. CASE x >= y
    BY <2>1
  <2>2. CASE ~(x >= y)
    BY <2>2
  <2> QED
    BY <2>1, <2>2
<1> HIDE DEF S
<1>2. Max(S) \in S /\ \A z \in S : Max(S) >= z
  <2>1. Max(S) = CHOOSE m \in S : \A z \in S : m >= z
    BY DEF Max
  <2> QED
    BY <1>1, <2>1
<1> QED
  BY <1>2 DEF S

\* A budget _validate_inputs lets through can be shared out.
LEMMA BudgetFeasible ==
  ASSUME ~Infeasible(Len(Angles), Budget, Floor, CapPct), NEW w \in [Ids -> Nat]
  PROVE  Feasible(w, Order, Budget, Floor, CapUnits(CapPct, Budget))
<1> DEFINE n == Len(Angles)
           cap == CapUnits(CapPct, Budget)
<1>1. Budget \in Nat /\ Floor \in Nat /\ CapPct \in Nat
  BY ScoutingAssumption DEF ScoutingAssumption
<1>2. cap \in Nat
  <2>1. CapPct * Budget \in Nat
    BY <1>1, Times
  <2> QED
    BY <2>1, Division DEF CapUnits
<1>3. n \in Nat /\ n # 0 /\ ~(n * Floor > Budget) /\ ~(cap < Max({Floor, 1}))
      /\ ~(n * cap < Budget)
  BY MapFacts DEF Infeasible
<1> HIDE DEF n, cap
<1>4. Floor <= cap
  <2>1. Floor <= Max({Floor, 1}) /\ Max({Floor, 1}) \in Nat
    BY <1>1, MaxOfTwo
  <2> QED
    BY <1>1, <1>2, <1>3, <2>1
<1>5. n * Floor = Floor * n /\ n * cap = cap * n /\ Floor * n \in Nat /\ cap * n \in Nat
  BY <1>1, <1>2, <1>3, Times
<1>6. Floor * n <= Budget /\ Budget <= cap * n
  BY <1>1, <1>3, <1>5
<1>7. DOMAIN w = Ids /\ Ids # {} /\ Cardinality(Ids) = n
  <2>1. Cardinality(Ids) = n
    BY MapFacts DEF n
  <2>2. Ids # {}
    BY <1>3, <2>1, FS_EmptySet
  <2> QED
    BY <2>1, <2>2
<1>8. Table(w)
  BY <1>7, MapFacts DEF Table
<1> QED
  BY <1>1, <1>2, <1>4, <1>6, <1>7, <1>8, MapFacts DEF Feasible, n, cap

\* An angle has no more units than all of them together.
LEMMA AtMostAll ==
  ASSUME NEW S, NEW of, Numbers(S, of), NEW a \in S
  PROVE  of[a] <= Total(of, S) /\ of[a] \in Nat /\ Total(of, S) \in Nat
<1>1. Total(of, S) = of[a] + Total(of, S \ {a}) /\ Total(of, S \ {a}) \in Nat
      /\ Total(of, S) \in Nat
  BY SumFacts
<1>2. of[a] \in Nat
  BY DEF Numbers
<1> QED
  BY <1>1, <1>2

\* A shared-out budget gives every angle a part of it.
LEMMA SharedOut ==
  ASSUME NEW weight, NEW order, NEW total, NEW floor, NEW cap,
         Feasible(weight, order, total, floor, cap)
  PROVE  /\ DOMAIN Allocate(weight, order, total, floor, cap) = DOMAIN weight
         /\ Allocate(weight, order, total, floor, cap) \in [DOMAIN weight -> 0 .. total]
         /\ Total(Allocate(weight, order, total, floor, cap), DOMAIN weight) = total
<1> DEFINE u == Allocate(weight, order, total, floor, cap)
           A == DOMAIN weight
<1>1. u = Rounded(Shares(weight, total, floor, cap), weight, order, total, cap)
  BY AllocateIsRounded
<1>2. /\ DOMAIN u = A /\ Total(u, A) = total
      /\ \A a \in A : u[a] \in floor .. cap
  BY AllocateIsWell DEF WellAllocated
<1>3. u = [a \in A |-> u[a]]
  <2>1. DOMAIN Shares(weight, total, floor, cap) = A
    BY DEF Shares
  <2> QED
    BY <1>1, <2>1 DEF Rounded
<1>4. floor \in Nat /\ cap \in Nat /\ total \in Nat /\ IsFiniteSet(A)
  BY DEF Feasible, Table
<1> HIDE DEF u, A
<1>5. Numbers(A, u)
  BY <1>2, <1>4 DEF Numbers
<1>6. \A a \in A : u[a] \in 0 .. total
  <2> SUFFICES ASSUME NEW a \in A PROVE u[a] \in 0 .. total
    OBVIOUS
  <2>1. u[a] <= Total(u, A) /\ u[a] \in Nat
    BY <1>5, AtMostAll
  <2> QED
    BY <1>2, <1>4, <2>1
<1> QED
  BY <1>2, <1>3, <1>6 DEF u, A

\* The inductive form of TypeOK: no more units are out than the budget has.
Typed ==
  /\ CardsOK
  /\ alloc \in [Ids -> Nat] /\ Total(alloc, Ids) <= Budget
  /\ critique \in [Ids -> [made: BOOLEAN, of: Review]] /\ read \in [Ids -> Review]
  /\ \A a \in Ids : \A id \in cards[a] : id.of \in {"", a}
  /\ IsTable(reflow) /\ IsTable(table)
  /\ proc \in {"s2", "idle", "gather", "topup", "done"}
  /\ pc \in [Ids -> {"read", "revise", "critique"}]
  /\ fresh \subseteq Scouted /\ todo \subseteq DOMAIN table
  /\ proc \notin {"gather", "topup"} => fresh = {}

LEMMA AllocNumbers ==
  ASSUME Typed
  PROVE  /\ Numbers(Ids, alloc) /\ Numbers(Scouted, alloc)
         /\ Scouted \in SUBSET Ids /\ IsFiniteSet(Scouted)
         /\ Total(alloc, Scouted) \in Nat /\ Total(alloc, Scouted) <= Budget
         /\ Budget \in Nat
<1>1. Numbers(Ids, alloc)
  BY MapFacts DEF Typed, Numbers
<1>2. Scouted \in SUBSET Ids
  BY DEF Scouted
<1>3. /\ Numbers(Scouted, alloc)
      /\ Total(alloc, Ids) = Total(alloc, Scouted) + Total(alloc, Ids \ Scouted)
      /\ Numbers(Ids \ Scouted, alloc)
  BY <1>1, <1>2, SumSplits
<1>4. Total(alloc, Scouted) \in Nat /\ Total(alloc, Ids \ Scouted) \in Nat
  BY <1>3, SumFacts
<1>5. Budget \in Nat
  BY ScoutingAssumption DEF ScoutingAssumption
<1>6. Total(alloc, Scouted) <= Budget
  <2>1. Total(alloc, Ids) <= Budget
    BY DEF Typed
  <2> QED
    BY <1>3, <1>4, <1>5, <2>1
<1> QED
  BY <1>1, <1>2, <1>3, <1>4, <1>5, <1>6, MapFacts, FS_Subset

\* An angle returns no more than it has.
LEMMA ReturnedFacts ==
  ASSUME Typed, NEW a \in Scouted
  PROVE  ReturnedUnits(a) \in Nat /\ ReturnedUnits(a) <= alloc[a]
<1> DEFINE n == Cardinality(cards[a])
           pct == critique[a].of.pct
           distinct == n - ((n * pct) \div 100)
           half == (distinct + 1) \div 2
<1>1. a \in Ids /\ alloc[a] \in Nat
  BY DEF Scouted, Typed
<1>2. n \in Nat
  BY <1>1, FS_CardinalityType DEF Typed, CardsOK
<1>3. pct \in 0 .. 100
  BY <1>1 DEF Typed, Review
<1> HIDE DEF n, pct
<1>4. (n * pct) \div 100 \in Nat /\ (n * pct) \div 100 <= n
  <2>1. n * pct \in Nat /\ n * pct <= n * 100
    <3>1. pct * n <= 100 * n
      BY <1>2, <1>3, Times
    <3>2. pct * n = n * pct /\ 100 * n = n * 100 /\ n * pct \in Nat
      BY <1>2, <1>3, Times
    <3> QED
      BY <3>1, <3>2
  <2> DEFINE m == n * pct
  <2>2. m \in Nat /\ m <= n * 100
    BY <2>1
  <2> HIDE DEF m
  <2>3. m \div 100 \in Nat /\ m = 100 * (m \div 100) + (m % 100) /\ m % 100 \in Nat
    BY <2>2, Division
  <2>4. m \div 100 <= n
    BY <1>2, <2>2, <2>3
  <2> QED
    BY <2>3, <2>4 DEF m
<1>5. distinct \in Nat
  BY <1>2, <1>4
<1> HIDE DEF distinct
<1>6. half \in Nat
  <2>1. distinct + 1 \in Nat
    BY <1>5
  <2> QED
    BY <2>1, Division
<1> HIDE DEF half
<1>7. Max({alloc[a] - half, 0}) \in Nat /\ Max({alloc[a] - half, 0}) <= alloc[a]
  <2> DEFINE x == alloc[a] - half
  <2>1. x \in Int /\ x <= alloc[a] /\ 0 \in Int
    BY <1>1, <1>6
  <2> HIDE DEF x
  <2>2. Max({x, 0}) \in {x, 0} /\ Max({x, 0}) >= 0
    BY <2>1, MaxOfTwo
  <2> QED
    BY <1>1, <2>1, <2>2 DEF x
<1>8. ReturnedUnits(a) = IF pct <= StopPct THEN 0 ELSE Max({alloc[a] - half, 0})
  BY DEF ReturnedUnits, half, distinct, n, pct
<1> QED
  BY <1>1, <1>7, <1>8

LEMMA PoolFacts == ASSUME Typed PROVE Pool \in Nat /\ Pool <= Budget
<1> DEFINE back == [a \in Scouted |-> ReturnedUnits(a)]
<1>1. \A a \in Scouted : back[a] \in Nat /\ back[a] <= alloc[a]
  BY ReturnedFacts
<1>2. Pool = Total(back, Scouted)
  BY DEF Pool
<1> HIDE DEF back
<1>3. Numbers(Scouted, back) /\ Numbers(Scouted, alloc)
  BY <1>1, AllocNumbers DEF Numbers
<1>4. Total(back, Scouted) \in Nat /\ Total(back, Scouted) <= Total(alloc, Scouted)
  BY <1>1, <1>3, SumFacts, SumAtMost
<1> QED
  BY <1>2, <1>4, AllocNumbers

\* A reflow is the pool, shared out over the eligible angles.
LEMMA ReflowFacts ==
  ASSUME Typed, ExpectedReflow # None
  PROVE  /\ \A a \in Scouted : Settled(a)
         /\ DOMAIN ExpectedReflow = Eligible /\ Eligible # {}
         /\ Total(ExpectedReflow, Eligible) = Pool
         /\ IsTable(ExpectedReflow)
<1> DEFINE w == [a \in Eligible |-> Weight[a]]
           u == Allocate(w, Order, Pool, 0, Pool)
<1>1. (\A a \in Scouted : Settled(a)) /\ ExpectedReflow = Reflow(Weight, Order, Eligible, Pool)
  BY DEF ExpectedReflow
<1>2. ~(Pool <= 0) /\ Eligible # {} /\ Reflow(Weight, Order, Eligible, Pool) = u
  BY <1>1 DEF Reflow, None
<1>3. Pool \in Nat /\ Pool > 0 /\ Pool <= Budget
  BY <1>2, PoolFacts
<1>4. Eligible \subseteq Ids /\ IsFiniteSet(Eligible) /\ DOMAIN w = Eligible
  BY MapFacts, FS_Subset DEF Eligible, Scouted
<1>5. Cardinality(Eligible) \in Nat /\ Cardinality(Eligible) >= 1
  <2>1. Cardinality(Eligible) \in Nat /\ Cardinality(Eligible) # 0
    BY <1>2, <1>4, FS_CardinalityType, FS_EmptySet
  <2> QED
    BY <2>1
<1>6. Feasible(w, Order, Pool, 0, Pool)
  <2>1. Table(w)
    <3>1. Weight \in [Ids -> Nat]
      BY ScoutingAssumption DEF ScoutingAssumption
    <3>2. w \in [Eligible -> Nat]
      BY <1>4, <3>1
    <3> HIDE DEF w
    <3> QED
      BY <1>2, <1>4, <3>2 DEF Table
  <2>2. 0 * Cardinality(Eligible) <= Pool /\ Pool <= Pool * Cardinality(Eligible)
    <3> DEFINE n == Cardinality(Eligible)
    <3>1. n \in Nat /\ n >= 1
      BY <1>5
    <3> HIDE DEF n
    <3>2. 1 * Pool <= n * Pool /\ n * Pool = Pool * n /\ 0 * n = 0 /\ 1 * Pool = Pool
      BY <1>3, <3>1, Times
    <3> QED
      BY <1>3, <3>2 DEF n
  <2>3. /\ \A a \in Eligible : Order[a] \in Nat
        /\ \A a, b \in Eligible : Order[a] = Order[b] => a = b
    BY <1>4, MapFacts
  <2> HIDE DEF w
  <2> QED
    BY <1>3, <1>4, <2>1, <2>2, <2>3 DEF Feasible
<1>7. DOMAIN u = Eligible /\ u \in [Eligible -> 0 .. Pool] /\ Total(u, Eligible) = Pool
  <2> HIDE DEF w
  <2> QED
    BY <1>4, <1>6, SharedOut
<1>8. IsTable(u)
  <2>1. \A a \in Eligible : u[a] \in 0 .. Budget
    <3> SUFFICES ASSUME NEW a \in Eligible PROVE u[a] \in 0 .. Budget
      OBVIOUS
    <3>1. u[a] \in 0 .. Pool
      BY <1>7
    <3> QED
      BY <1>3, <3>1, AllocNumbers
  <2> HIDE DEF u
  <2> QED
    BY <1>4, <1>7, <2>1 DEF IsTable
<1> HIDE DEF u
<1> QED
  BY <1>1, <1>2, <1>7, <1>8

\* An id is an option of any angle, or suffixed with its own.
Named(a, ids) == \A id \in ids : id.of \in {"", a}
AllNamed == \A a \in Ids : Named(a, cards[a])

LEMMA CardedNamed ==
  ASSUME CardsOK, AllNamed, NEW a \in Ids, NEW set, Named(a, set),
         cards' = Carded(a, set)
  PROVE  AllNamed'
<1> DEFINE taken == UNION {cards[b] : b \in Ids \ {a}}
<1>1. Named(a, Deduped(set, a, taken))
  <2> SUFFICES ASSUME NEW id \in Deduped(set, a, taken) PROVE id.of \in {"", a}
    BY DEF Named
  <2> HIDE DEF taken
  <2>1. PICK old \in set : id = old \/ \E k : id = Suffixed(old, a, k)
    BY DEF Deduped
  <2>2. CASE id = old
    BY <2>2 DEF Named
  <2>3. CASE \E k : id = Suffixed(old, a, k)
    BY <2>3 DEF Suffixed
  <2> QED
    BY <2>1, <2>2, <2>3
<1>2. cards' = [cards EXCEPT ![a] = Deduped(set, a, taken)]
  BY DEF Carded
<1> HIDE DEF taken
<1>3. \A b \in Ids : cards'[b] = IF b = a THEN Deduped(set, a, taken) ELSE cards[b]
  BY <1>2 DEF CardsOK
<1>4. ASSUME NEW b \in Ids PROVE Named(b, cards'[b])
  BY <1>1, <1>3 DEF AllNamed
<1> QED
  BY <1>4 DEF AllNamed

LEMMA PlainNamed == \A a, names : Named(a, {Plain(x) : x \in names})
<1>1. \A x : Plain(x).of = ""
  BY DEF Plain
<1> SUFFICES ASSUME NEW a, NEW names, NEW id \in {Plain(x) : x \in names}
             PROVE  id.of \in {"", a}
  BY DEF Named
<1>2. PICK x \in names : id = Plain(x)
  OBVIOUS
<1> QED
  BY <1>1, <1>2

LEMMA NextNamed == CardsOK /\ AllNamed /\ [Next]_vars => AllNamed'
<1> SUFFICES ASSUME CardsOK, AllNamed, [Next]_vars PROVE AllNamed'
  OBVIOUS
<1>1. UNCHANGED cards => AllNamed'
  BY DEF AllNamed
<1>2. CASE StageStep
  BY <1>1, <1>2 DEF StageStep, Allocating, Resume, Replay, Redistribute,
     NothingToRedistribute, FinishReflow, files
<1>3. ASSUME NEW a \in Ids, AngleStep(a) PROVE AllNamed'
  <2>1. CASE Scout(a)
    <3>1. PICK names \in Found[a] : cards' = Carded(a, {Plain(x) : x \in names})
      BY <2>1 DEF Scout
    <3> QED
      BY <3>1, CardedNamed, PlainNamed
  <2>2. CASE ReviewCards(a)
    BY <1>1, <2>2 DEF ReviewCards, files
  <2>3. CASE Revise(a)
    <3>1. PICK names \in Found[a], kept \in {cards[a], {}} :
            cards' = Carded(a, kept \cup {Plain(x) : x \in names})
      BY <2>3 DEF Revise
    <3>2. Named(a, kept)
      BY DEF AllNamed, Named
    <3>3. Named(a, kept \cup {Plain(x) : x \in names})
      BY <3>2, PlainNamed DEF Named
    <3> QED
      BY <3>1, <3>3, CardedNamed
  <2>4. CASE WriteCritique(a)
    BY <1>1, <2>4 DEF WriteCritique
  <2>5. CASE TopUp(a)
    <3>1. PICK names \in Missed[a] :
            LET added == {Plain(x) : x \in names} \ cards[a]
            IN  cards' = IF added = {} THEN cards ELSE Carded(a, cards[a] \cup added)
      BY <2>5 DEF TopUp
    <3> DEFINE added == {Plain(x) : x \in names} \ cards[a]
    <3>2. Named(a, cards[a] \cup added)
      BY PlainNamed DEF AllNamed, Named
    <3>3. cards' = cards \/ cards' = Carded(a, cards[a] \cup added)
      BY <3>1
    <3> HIDE DEF added
    <3> QED
      BY <1>1, <3>2, <3>3, CardedNamed
  <2> QED
    BY <1>3, <2>1, <2>2, <2>3, <2>4, <2>5 DEF AngleStep
<1>4. ASSUME NEW angles, Erase(angles) PROVE AllNamed'
  BY <1>4 DEF Erase, Without, AllNamed, Named
<1>5. CASE \E a \in Ids : RerunAngle(a)
  BY <1>4, <1>5 DEF RerunAngle
<1>6. CASE RerunStage
  BY <1>4, <1>6 DEF RerunStage
<1>7. CASE Interrupt
  BY <1>1, <1>7 DEF Interrupt, files
<1>8. CASE UNCHANGED vars
  BY <1>1, <1>8 DEF vars, files
<1> QED
  BY <1>2, <1>3, <1>5, <1>6, <1>7, <1>8 DEF Next

LEMMA AllocationTyped ==
  ASSUME Allocating
  PROVE  alloc' \in [Ids -> Nat] /\ Total(alloc', Ids) <= Budget
<1>1. Weight \in [Ids -> Nat] /\ Budget \in Nat
  BY ScoutingAssumption DEF ScoutingAssumption
<1>2. Feasible(Weight, Order, Budget, Floor, CapUnits(CapPct, Budget))
  BY <1>1, BudgetFeasible DEF Allocating
<1>3. alloc' = Allocate(Weight, Order, Budget, Floor, CapUnits(CapPct, Budget))
  BY DEF Allocating
<1>4. DOMAIN Weight = Ids
  BY <1>1
<1>5. alloc' \in [Ids -> 0 .. Budget] /\ Total(alloc', Ids) = Budget
  BY <1>2, <1>3, <1>4, SharedOut
<1>6. alloc' \in [Ids -> Nat]
  BY <1>1, <1>5
<1> QED
  BY <1>1, <1>5, <1>6

LEMMA InitTyped == Init => Typed
<1> SUFFICES ASSUME Init PROVE Typed
  OBVIOUS
<1>1. CardsOK
  BY InitCards
<1>2. alloc \in [Ids -> Nat] /\ Total(alloc, Ids) <= Budget
  <2>1. (\A a \in Ids : alloc[a] = 0) /\ alloc \in [Ids -> Nat]
    BY DEF Init
  <2>2. Total(alloc, Ids) = 0 * Cardinality(Ids)
    BY <2>1, MapFacts, SumConstant
  <2>3. Total(alloc, Ids) = 0 /\ Budget \in Nat
    BY <2>2, MapFacts, ScoutingAssumption DEF ScoutingAssumption
  <2> QED
    BY <2>1, <2>3
<1>3. NoReview \in Review
  BY DEF NoReview, Review
<1>4. critique \in [Ids -> [made: BOOLEAN, of: Review]] /\ read \in [Ids -> Review]
  BY <1>3 DEF Init, NoCritique
<1>5. \A a \in Ids : cards[a] = {}
  BY DEF Init
<1>6. IsTable(reflow) /\ IsTable(table)
  <2>1. DOMAIN None = {}
    BY DEF None
  <2>2. reflow = None /\ table = None
    BY DEF Init
  <2> QED
    BY <2>1, <2>2 DEF IsTable
<1> QED
  BY <1>1, <1>2, <1>4, <1>5, <1>6 DEF Typed, Init

LEMMA NextTyped == Typed /\ [Next]_vars => Typed'
<1> SUFFICES ASSUME Typed, [Next]_vars PROVE Typed'
  OBVIOUS
<1>1. CardsOK'
  BY NextCards DEF Typed
<1>2. \A a \in Ids : \A id \in cards'[a] : id.of \in {"", a}
  <2>1. AllNamed
    BY DEF Typed, AllNamed, Named
  <2>2. AllNamed'
    BY <2>1, NextNamed DEF Typed
  <2> QED
    BY <2>2 DEF AllNamed, Named
<1>3. NoReview \in Review /\ IsTable(None)
  <2>1. DOMAIN None = {}
    BY DEF None
  <2> QED
    BY <2>1 DEF NoReview, Review, IsTable
<1>4. ASSUME UNCHANGED alloc
      PROVE  alloc' \in [Ids -> Nat] /\ Total(alloc', Ids) <= Budget /\ Scouted' = Scouted
  BY <1>4 DEF Typed, Scouted
<1>5. CASE Allocating
  <2>1. fresh = {}
    BY <1>5 DEF Typed, Allocating
  <2> QED
    BY <1>1, <1>2, <1>5, <2>1, AllocationTyped
       DEF Typed, Allocating, IsTable, memory, history
<1>6. CASE Resume
  BY <1>1, <1>2, <1>4, <1>6 DEF Typed, Resume, IsTable, files, memory, history
<1>7. CASE Replay
  <2>1. ToReplay \subseteq DOMAIN reflow
    BY DEF ToReplay, Granted
  <2> QED
    BY <1>1, <1>2, <1>4, <1>7, <2>1 DEF Typed, Replay, IsTable, files, history
<1>8. CASE Redistribute
  <2>1. IsTable(ExpectedReflow)
    BY <1>8, ReflowFacts DEF Redistribute
  <2>2. Granted(ExpectedReflow, Scouted) \subseteq DOMAIN ExpectedReflow
    BY DEF Granted
  <2> QED
    BY <1>1, <1>2, <1>4, <1>8, <2>1, <2>2 DEF Typed, Redistribute, IsTable, files, history
<1>9. CASE NothingToRedistribute
  BY <1>1, <1>2, <1>3, <1>4, <1>9
     DEF Typed, NothingToRedistribute, Forget, IsTable, files, history
<1>10. CASE FinishReflow
  BY <1>1, <1>2, <1>3, <1>4, <1>10 DEF Typed, FinishReflow, Forget, IsTable, history
<1>11. ASSUME NEW a \in Ids, Scout(a) PROVE Typed'
  BY <1>1, <1>2, <1>4, <1>11 DEF Typed, Scout, At, IsTable, memory, history
<1>12. ASSUME NEW a \in Ids, ReviewCards(a) PROVE Typed'
  <2>1. PICK r \in Reviews[a] :
          /\ read' = [read EXCEPT ![a] = r]
          /\ Goto(a, IF NeedsRevision(r) THEN "revise" ELSE "critique")
    BY <1>12 DEF ReviewCards
  <2>2. r \in Review
    BY ScoutingAssumption DEF ScoutingAssumption
  <2>3. read' \in [Ids -> Review] /\ pc' \in [Ids -> {"read", "revise", "critique"}]
    BY <2>1, <2>2 DEF Typed, Goto
  <2> QED
    BY <1>1, <1>2, <1>4, <1>12, <2>3 DEF Typed, ReviewCards, At, IsTable, files, history
<1>13. ASSUME NEW a \in Ids, Revise(a) PROVE Typed'
  BY <1>1, <1>2, <1>4, <1>13 DEF Typed, Revise, At, Goto, IsTable
<1>14. ASSUME NEW a \in Ids, WriteCritique(a) PROVE Typed'
  <2>1. critique' \in [Ids -> [made: BOOLEAN, of: Review]]
    BY <1>14 DEF Typed, WriteCritique
  <2>2. fresh' \subseteq Scouted
    BY <1>14 DEF Typed, WriteCritique, At
  <2> QED
    BY <1>1, <1>2, <1>4, <1>14, <2>1, <2>2
       DEF Typed, WriteCritique, At, Goto, IsTable, history
<1>15. ASSUME NEW a \in Ids, TopUp(a) PROVE Typed'
  BY <1>1, <1>2, <1>4, <1>15 DEF Typed, TopUp, IsTable
<1>16. ASSUME NEW angles, Erase(angles)
       PROVE  critique' \in [Ids -> [made: BOOLEAN, of: Review]]
  BY <1>3, <1>16 DEF Typed, Erase, Without, NoCritique
<1>17. ASSUME NEW a \in Ids, RerunAngle(a) PROVE Typed'
  <2>1. Erase({a})
    BY <1>17 DEF RerunAngle
  <2>2. critique' \in [Ids -> [made: BOOLEAN, of: Review]]
    BY <1>16, <2>1
  <2> QED
    BY <1>1, <1>2, <1>4, <1>17, <2>2 DEF Typed, RerunAngle, RerunGuard, IsTable, memory
<1>18. CASE RerunStage
  <2>1. Erase(Ids)
    BY <1>18 DEF RerunStage
  <2>2. critique' \in [Ids -> [made: BOOLEAN, of: Review]]
    BY <1>16, <2>1
  <2> QED
    BY <1>1, <1>2, <1>3, <1>4, <1>18, <2>2 DEF Typed, RerunStage, RerunGuard, IsTable, memory
<1>19. CASE Interrupt
  BY <1>1, <1>2, <1>3, <1>4, <1>19 DEF Typed, Interrupt, Forget, IsTable, files
<1>20. CASE UNCHANGED vars
  BY <1>1, <1>2, <1>4, <1>20 DEF Typed, IsTable, vars, files, memory, history
<1> QED
  BY <1>5, <1>6, <1>7, <1>8, <1>9, <1>10, <1>11, <1>12, <1>13, <1>14, <1>15, <1>17, <1>18,
     <1>19, <1>20 DEF Next, StageStep, AngleStep

LEMMA TypedInvariant == Spec => []Typed
BY InitTyped, NextTyped, PTL DEF Spec

\* Type correctness, and that no table, allocated or redistributed, gives an
\* angle more than the budget.
THEOREM ScoutingTyped == Spec => []TypeOK
<1>1. Typed => TypeOK
  <2> SUFFICES ASSUME Typed PROVE TypeOK
    OBVIOUS
  <2>1. \A a \in Ids : alloc[a] \in 0 .. Budget
    <3> SUFFICES ASSUME NEW a \in Ids PROVE alloc[a] \in 0 .. Budget
      OBVIOUS
    <3>1. alloc[a] <= Total(alloc, Ids) /\ alloc[a] \in Nat /\ Total(alloc, Ids) \in Nat
      BY AllocNumbers, AtMostAll
    <3>2. Total(alloc, Ids) <= Budget /\ Budget \in Nat
      BY AllocNumbers DEF Typed
    <3> QED
      BY <3>1, <3>2
  <2>2. alloc \in [Ids -> 0 .. Budget]
    BY <2>1 DEF Typed
  <2>3. \A a \in Ids : critique[a].of \in Review /\ read[a] \in Review
    BY DEF Typed
  <2> QED
    BY <2>2, <2>3 DEF Typed, TypeOK
<1> QED
  BY <1>1, TypedInvariant, PTL

\* The table being served is the one on disk, or the one the files still
\* derive; and with no angle re-scouted, so is the one on disk.
TableDerived ==
  /\ proc = "s2" => reflow = None
  /\ proc = "topup" =>
       table = (IF reflow = None THEN ExpectedReflow ELSE reflow) /\ table # None
  /\ reflow # None /\ again = {} => proc \in {"idle", "done"} /\ reflow = ExpectedReflow

LEMMA ExpectedSame ==
  ASSUME UNCHANGED <<alloc, cards, critique>>
  PROVE  ExpectedReflow' = ExpectedReflow /\ Pool' = Pool /\ Scouted' = Scouted
BY DEF ExpectedReflow, Pool, Eligible, Scouted, Settled, ReturnedUnits

\* A top-up changes the cards of an angle that returns nothing, so the pool
\* its units come from stays what it was.
LEMMA TopUpDerives ==
  ASSUME Typed, NEW a \in Ids, TopUp(a), ExpectedReflow # None, a \in Eligible
  PROVE  ExpectedReflow' = ExpectedReflow
<1>1. UNCHANGED <<alloc, critique>> /\ OnlyCards(a)
  BY TopUpCards DEF TopUp, Typed
<1>2. Scouted' = Scouted /\ Eligible' = Eligible
  BY <1>1 DEF Scouted, Eligible
<1>3. ASSUME NEW b \in Scouted PROVE ReturnedUnits(b)' = ReturnedUnits(b)
  <2>1. CASE b = a
    BY <1>1, <2>1 DEF ReturnedUnits, Eligible
  <2>2. CASE b # a
    <3>1. cards'[b] = cards[b]
      BY <1>1, <2>2, ScoutedFacts DEF OnlyCards
    <3> QED
      BY <1>1, <3>1 DEF ReturnedUnits
  <2> QED
    BY <2>1, <2>2
<1>4. Pool' = Pool
  BY <1>2, <1>3 DEF Pool
<1>5. /\ \A b \in Scouted : Settled(b)
      /\ \A b \in Scouted : Settled(b)'
  <2>1. \A b \in Scouted : Settled(b)
    BY ReflowFacts
  <2> QED
    BY <1>1, <2>1, ScoutedFacts DEF Settled, OnlyCards
<1>6. ExpectedReflow = Reflow(Weight, Order, Eligible, Pool)
      /\ ExpectedReflow' = Reflow(Weight, Order, Eligible', Pool')
  BY <1>2, <1>5 DEF ExpectedReflow
<1> QED
  BY <1>2, <1>4, <1>6

LEMMA NextDerived == Typed /\ TableDerived /\ [Next]_vars => TableDerived'
<1> SUFFICES ASSUME Typed, TableDerived, [Next]_vars PROVE TableDerived'
  OBVIOUS
<1>1. ASSUME UNCHANGED <<alloc, cards, critique, reflow, again, table, proc>> PROVE TableDerived'
  BY <1>1, ExpectedSame DEF TableDerived
<1>2. CASE Allocating
  BY <1>2 DEF TableDerived, Allocating, memory, history
<1>3. CASE Resume
  <2>1. ExpectedReflow' = ExpectedReflow
    BY <1>3, ExpectedSame DEF Resume, files
  <2>2. reflow # None /\ again = {} => Complete
    BY ReflowFacts DEF TableDerived, Complete
  <2> QED
    BY <1>3, <2>1, <2>2 DEF TableDerived, Resume, files, memory, history
<1>4. CASE Replay
  BY <1>4 DEF TableDerived, Replay, Gathered, files, history
<1>5. CASE Redistribute
  <2>1. ExpectedReflow' = ExpectedReflow
    BY <1>5, ExpectedSame DEF Redistribute, files
  <2> QED
    BY <1>5, <2>1 DEF TableDerived, Redistribute, Gathered, files, history
<1>6. CASE NothingToRedistribute
  BY <1>6 DEF TableDerived, NothingToRedistribute, files, history
<1>7. CASE FinishReflow
  <2>1. ExpectedReflow' = ExpectedReflow
    BY <1>7, ExpectedSame DEF FinishReflow
  <2> QED
    BY <1>7, <2>1 DEF TableDerived, FinishReflow, history
<1>8. ASSUME NEW a \in Ids, Scout(a) PROVE TableDerived'
  BY <1>8 DEF TableDerived, Scout, At, memory, history
<1>9. ASSUME NEW a \in Ids, ReviewCards(a) PROVE TableDerived'
  BY <1>9 DEF TableDerived, ReviewCards, At, files, history
<1>10. ASSUME NEW a \in Ids, Revise(a) PROVE TableDerived'
  BY <1>10 DEF TableDerived, Revise, At
<1>11. ASSUME NEW a \in Ids, WriteCritique(a) PROVE TableDerived'
  BY <1>11 DEF TableDerived, WriteCritique, At, history
<1>12. ASSUME NEW a \in Ids, TopUp(a) PROVE TableDerived'
  <2>1. proc = "topup" /\ UNCHANGED <<proc, table, reflow, again>> /\ a \in DOMAIN table
    BY <1>12 DEF TopUp, Typed
  <2>2. CASE reflow = None
    <3>1. table = ExpectedReflow /\ ExpectedReflow # None
      BY <2>1, <2>2 DEF TableDerived
    <3>2. a \in Eligible
      BY <2>1, <3>1, ReflowFacts
    <3>3. ExpectedReflow' = ExpectedReflow
      BY <1>12, <3>1, <3>2, TopUpDerives
    <3> QED
      BY <2>1, <2>2, <3>3 DEF TableDerived
  <2>3. CASE reflow # None
    BY <2>1, <2>3 DEF TableDerived
  <2> QED
    BY <2>2, <2>3
<1>13. ASSUME NEW a \in Ids, RerunAngle(a) PROVE TableDerived'
  BY <1>13 DEF TableDerived, RerunAngle, RerunGuard, memory
<1>14. CASE RerunStage
  BY <1>14 DEF TableDerived, RerunStage, RerunGuard, memory
<1>15. CASE Interrupt
  <2>1. UNCHANGED <<reflow, again>> /\ proc \in {"gather", "topup"} /\ proc' = "idle"
    BY <1>15 DEF Interrupt, files
  <2> QED
    BY <2>1 DEF TableDerived
<1>16. CASE UNCHANGED vars
  BY <1>1, <1>16 DEF vars, files, memory, history
<1> QED
  BY <1>2, <1>3, <1>4, <1>5, <1>6, <1>7, <1>8, <1>9, <1>10, <1>11, <1>12, <1>13, <1>14, <1>15,
     <1>16 DEF Next, StageStep, AngleStep

\* Units are conserved for every map, priors, budget, floor and cap: the budget
\* S2 may share is shared out by its rules, and, until an angle is re-scouted,
\* the reflow on disk is the one its files derive, to the unit what the
\* saturated angles returned, whatever was interrupted.
THEOREM UnitsKept == Spec => []UnitsConserved
<1>1. Init => Typed /\ TableDerived
  BY InitTyped DEF Init, TableDerived
<1>2. Typed /\ TableDerived /\ [Next]_vars => (Typed /\ TableDerived)'
  BY NextTyped, NextDerived
<1>3. Typed /\ TableDerived => UnitsConserved
  <2> SUFFICES ASSUME Typed, TableDerived PROVE UnitsConserved
    OBVIOUS
  <2>1. ASSUME ~Infeasible(Len(Angles), Budget, Floor, CapPct), NEW w \in Weights
        PROVE  LET cap == CapUnits(CapPct, Budget)
               IN  WellAllocated(w, Allocate(w, Order, Budget, Floor, cap), Budget, Floor, cap)
    <3>1. w \in [Ids -> Nat]
      BY ScoutingAssumption DEF ScoutingAssumption
    <3>2. Feasible(w, Order, Budget, Floor, CapUnits(CapPct, Budget))
      BY <2>1, <3>1, BudgetFeasible
    <3> QED
      BY <3>2, AllocateIsWell
  <2>2. reflow # None /\ again = {} =>
          reflow = ExpectedReflow /\ Total(reflow, DOMAIN reflow) = Pool
    <3> SUFFICES ASSUME reflow # None, again = {}
                 PROVE  reflow = ExpectedReflow /\ Total(reflow, DOMAIN reflow) = Pool
      OBVIOUS
    <3>1. reflow = ExpectedReflow
      BY DEF TableDerived
    <3>2. DOMAIN ExpectedReflow = Eligible /\ Total(ExpectedReflow, Eligible) = Pool
      BY <3>1, ReflowFacts
    <3> QED
      BY <3>1, <3>2, Zenon
  <2> QED
    BY <2>1, <2>2 DEF UnitsConserved
<1> QED
  BY <1>1, <1>2, <1>3, PTL DEF Spec
=============================================================================
