-------------------------- MODULE EngineParts_proofs --------------------------
(***************************************************************************)
(* Proofs about the two parts of the engine that DeploymentEngine takes    *)
(* for granted.  What the round-robin returns is a selection               *)
(* (ReturnsASelection), and an even one (SpreadIsEven), for any number of  *)
(* regions, of servers in them and of servers asked for.  The abort        *)
(* listener has one reader (OneReader) and is silent once it is stopped    *)
(* (StoppedIsSilent), for any number of starts, deployments and lines.     *)
(***************************************************************************)
EXTENDS ServerSelection, AbortListener, SequenceTheorems, FiniteSetTheorems, TLAPS

-----------------------------------------------------------------------------
(***************************************************************************)
(* The inductive invariant.                                                *)
(***************************************************************************)
Gone(r) == offered[r] - Len(by_region[r])

\* A queue is the last of the region's servers.
QueuesFit ==
    \A r \in Region :
        /\ Len(by_region[r]) <= offered[r]
        /\ \A i \in 1..Len(by_region[r]) : by_region[r][i] = <<r, Gone(r) + i>>

\* The others, the first ones, are selected, each once.
SelectedFit ==
    /\ \A r \in Region : Taken(r) = Gone(r)
    /\ \A r \in Region : \A i \in 1..offered[r] :
           <<r, i>> \in ToSet(selected) <=> i <= Gone(r)
    /\ IsFiniteSet(ToSet(selected)) /\ Cardinality(ToSet(selected)) = Len(selected)
    /\ Len(selected) <= count

LoopFits ==
    /\ regions = Left
    /\ returned => Len(selected) >= count \/ regions = {}

Dry == {r \in Region : offered[r] > 0 /\ r \notin Left}

\* Around the region the index stands at: the regions before it have had their
\* turn in this round, the others have not.
TurnsFit ==
    LET d   == Cardinality(Dry)
        cur == At(region_idx)
    IN  \A r, q \in regions :
            /\ Gone(r) - Gone(q) <= d + 1
            /\ ~(r < cur /\ cur <= q) => Gone(r) - Gone(q) <= d
            /\ q < cur /\ cur <= r => Gone(r) - Gone(q) <= d - 1

SelectionInvariant == TypeOK /\ QueuesFit /\ SelectedFit /\ LoopFits /\ TurnsFit

-----------------------------------------------------------------------------
(***************************************************************************)
(* Ranks in a set of numbers.                                              *)
(***************************************************************************)
BelowIn(S, r) == {q \in S : q < r}

LEMMA BelowIsFinite ==
    ASSUME NEW S \in SUBSET Nat, IsFiniteSet(S), NEW r \in S
    PROVE  /\ IsFiniteSet(BelowIn(S, r))
           /\ Cardinality(S) \in Nat /\ Cardinality(BelowIn(S, r)) \in Nat
           /\ Cardinality(BelowIn(S, r)) < Cardinality(S)
           /\ IsFiniteSet(BelowIn(S, r) \cup {r})
           /\ Cardinality(BelowIn(S, r) \cup {r}) = Cardinality(BelowIn(S, r)) + 1
<1>1. BelowIn(S, r) \cup {r} \in SUBSET S /\ BelowIn(S, r) \in SUBSET S
  BY DEF BelowIn
<1>2. r \notin BelowIn(S, r)
  BY DEF BelowIn
<1>3. IsFiniteSet(BelowIn(S, r)) /\ IsFiniteSet(BelowIn(S, r) \cup {r})
  BY <1>1, FS_Subset
<1>4. Cardinality(BelowIn(S, r) \cup {r}) = Cardinality(BelowIn(S, r)) + 1
  BY <1>2, <1>3, FS_AddElement
<1>5. Cardinality(BelowIn(S, r) \cup {r}) =< Cardinality(S)
  BY <1>1, FS_Subset
<1>6. Cardinality(BelowIn(S, r)) \in Nat /\ Cardinality(S) \in Nat
  BY <1>3, FS_CardinalityType
<1> QED BY <1>3, <1>4, <1>5, <1>6

LEMMA BelowGrows ==
    ASSUME NEW S \in SUBSET Nat, IsFiniteSet(S), NEW r \in S, NEW q \in S, r < q
    PROVE  /\ BelowIn(S, r) \cup {r} \subseteq BelowIn(S, q)
           /\ Cardinality(BelowIn(S, r)) < Cardinality(BelowIn(S, q))
<1>1. BelowIn(S, r) \cup {r} \subseteq BelowIn(S, q)
  <2> SUFFICES ASSUME NEW x \in BelowIn(S, r) \cup {r} PROVE x \in S /\ x < q
    BY DEF BelowIn
  <2>1. r \in Nat /\ q \in Nat /\ x \in S /\ (x < r \/ x = r)
    BY DEF BelowIn
  <2>2. x \in Nat
    BY <2>1
  <2> QED BY <2>1, <2>2
<1>2. Cardinality(BelowIn(S, r) \cup {r}) =< Cardinality(BelowIn(S, q))
  BY <1>1, BelowIsFinite, FS_Subset
<1>3. /\ Cardinality(BelowIn(S, r)) \in Nat /\ Cardinality(BelowIn(S, q)) \in Nat
      /\ Cardinality(BelowIn(S, r) \cup {r}) = Cardinality(BelowIn(S, r)) + 1
  BY BelowIsFinite
<1> QED BY <1>1, <1>2, <1>3

\* Every rank is taken: the ranks are as many as the elements, and distinct.
LEMMA EveryRankIsTaken ==
    ASSUME NEW S \in SUBSET Nat, IsFiniteSet(S), NEW k \in 0..(Cardinality(S) - 1)
    PROVE  \E r \in S : Cardinality(BelowIn(S, r)) = k
<1> DEFINE ranks == 0..(Cardinality(S) - 1)
           rank == [r \in S |-> Cardinality(BelowIn(S, r))]
<1>1. Cardinality(S) \in Nat
  BY FS_CardinalityType
<1>2. IsFiniteSet(ranks) /\ Cardinality(ranks) = Cardinality(S)
  BY <1>1, FS_Interval
<1>3. rank \in [S -> ranks]
  <2>1. ASSUME NEW r \in S PROVE Cardinality(BelowIn(S, r)) \in ranks
    <3>1. /\ Cardinality(BelowIn(S, r)) \in Nat
          /\ Cardinality(BelowIn(S, r)) < Cardinality(S)
      BY BelowIsFinite
    <3> QED BY <1>1, <3>1
  <2> HIDE DEF ranks
  <2> QED BY <2>1
<1>4. \A r, q \in S : rank[r] = rank[q] => r = q
  <2> SUFFICES ASSUME NEW r \in S, NEW q \in S, r < q PROVE rank[r] # rank[q]
    OBVIOUS
  <2>1. Cardinality(BelowIn(S, r)) < Cardinality(BelowIn(S, q))
    BY BelowGrows
  <2>2. Cardinality(BelowIn(S, r)) \in Nat /\ Cardinality(BelowIn(S, q)) \in Nat
    BY BelowIsFinite
  <2> QED BY <2>1, <2>2
<1> HIDE DEF ranks, rank
<1>5. rank \in Injection(S, ranks)
  BY <1>3, <1>4 DEF Injection, IsInjective
<1>6. rank \in Surjection(S, ranks)
  BY <1>2, <1>5, FS_Injection
<1>7. \E r \in S : rank[r] = k
  BY <1>6 DEF Surjection, ranks
<1> QED BY <1>7 DEF rank

\* The element of the next rank comes right after.
LEMMA NextRank ==
    ASSUME NEW S \in SUBSET Nat, IsFiniteSet(S), NEW r \in S, NEW q \in S,
           Cardinality(BelowIn(S, q)) = Cardinality(BelowIn(S, r)) + 1
    PROVE  BelowIn(S, q) = BelowIn(S, r) \cup {r}
<1>2. Cardinality(BelowIn(S, q)) \in Nat /\ Cardinality(BelowIn(S, r)) \in Nat
  BY BelowIsFinite
<1>3. r \in Nat /\ q \in Nat
  OBVIOUS
<1>4. r < q
  <2>1. CASE q < r
    <3>1. Cardinality(BelowIn(S, q)) < Cardinality(BelowIn(S, r))
      BY <2>1, BelowGrows
    <3> QED BY <1>2, <3>1
  <2>2. CASE q = r
    BY <1>2, <2>2
  <2> QED BY <1>3, <2>1, <2>2
<1>5. BelowIn(S, r) \cup {r} \subseteq BelowIn(S, q)
  BY <1>4, BelowGrows
<1>6. Cardinality(BelowIn(S, r) \cup {r}) = Cardinality(BelowIn(S, q))
  BY BelowIsFinite
<1> QED BY <1>5, <1>6, BelowIsFinite, FS_Subset

\* After the element of the last rank there is none.
LEMMA LastRank ==
    ASSUME NEW S \in SUBSET Nat, IsFiniteSet(S), NEW r \in S,
           Cardinality(BelowIn(S, r)) = Cardinality(S) - 1
    PROVE  S = BelowIn(S, r) \cup {r}
<1>1. Cardinality(S) \in Nat
  BY FS_CardinalityType
<1>2. BelowIn(S, r) \cup {r} \in SUBSET S
  BY DEF BelowIn
<1>3. Cardinality(BelowIn(S, r) \cup {r}) = Cardinality(S)
  BY <1>1, BelowIsFinite
<1> QED BY <1>2, <1>3, FS_Subset

-----------------------------------------------------------------------------
(***************************************************************************)
(* Remainders, and the region an index stands at.                          *)
(***************************************************************************)
LEMMA Division ==
    ASSUME NEW a \in Nat, NEW m \in Nat, m > 0
    PROVE  a = (a \div m) * m + (a % m) /\ a \div m \in Int /\ a % m \in 0..(m - 1)
<1>1. a = (a \div m) * m + (a % m)
  BY Z3
<1>2. a \div m \in Int
  OBVIOUS
<1>3. a % m \in 0..(m - 1)
  OBVIOUS
<1> QED BY <1>1, <1>2, <1>3

LEMMA Remainder ==
    ASSUME NEW q \in Int, NEW m \in Nat, m > 0, NEW r \in 0..(m - 1)
    PROVE  (q * m + r) % m = r
OBVIOUS

LEMMA NextRemainder ==
    ASSUME NEW a \in Nat, NEW m \in Nat, m > 0
    PROVE  \/ (a % m) + 1 < m /\ (a + 1) % m = (a % m) + 1
           \/ (a % m) + 1 = m /\ (a + 1) % m = 0
<1> DEFINE q == a \div m
           r == a % m
<1>1. a = q * m + r /\ q \in Int /\ r \in 0..(m - 1)
  BY Division
<1> HIDE DEF q, r
<1>2. CASE r + 1 < m
  <2>1. a + 1 = q * m + (r + 1)
    BY <1>1
  <2>2. (q * m + (r + 1)) % m = r + 1
    BY <1>1, <1>2, Remainder
  <2> QED BY <2>1, <2>2, <1>2 DEF r
<1>3. CASE r + 1 = m
  <2>1. q + 1 \in Int /\ 0 \in 0..(m - 1)
    BY <1>1
  <2>2. a + 1 = (q + 1) * m + 0
    BY <1>1, <1>3
  <2>3. ((q + 1) * m + 0) % m = 0
    BY <2>1, Remainder
  <2> QED BY <2>2, <2>3, <1>3 DEF r
<1>4. r + 1 < m \/ r + 1 = m
  BY <1>1
<1> QED BY <1>2, <1>3, <1>4

StandsAt(S, idx) == CHOOSE r \in S : Cardinality(BelowIn(S, r)) = idx % Cardinality(S)

LEMMA StandsSomewhere ==
    ASSUME NEW S \in SUBSET Nat, IsFiniteSet(S), S # {}, NEW idx \in Nat
    PROVE  /\ StandsAt(S, idx) \in S
           /\ Cardinality(BelowIn(S, StandsAt(S, idx))) = idx % Cardinality(S)
<1>1. Cardinality(S) \in Nat /\ Cardinality(S) > 0
  BY FS_CardinalityType, FS_EmptySet
<1>2. idx % Cardinality(S) \in 0..(Cardinality(S) - 1)
  BY <1>1, Division
<1>3. \E r \in S : Cardinality(BelowIn(S, r)) = idx % Cardinality(S)
  BY <1>2, EveryRankIsTaken
<1> QED BY <1>3 DEF StandsAt

\* The next index stands at the region that comes right after, and at the first
\* one after the last.
LEMMA StandsAtNext ==
    ASSUME NEW S \in SUBSET Nat, IsFiniteSet(S), S # {}, NEW idx \in Nat
    PROVE  LET now  == StandsAt(S, idx)
               next == StandsAt(S, idx + 1)
           IN  \/ BelowIn(S, next) = BelowIn(S, now) \cup {now}
               \/ BelowIn(S, next) = {} /\ S = BelowIn(S, now) \cup {now}
<1> DEFINE now  == StandsAt(S, idx)
           next == StandsAt(S, idx + 1)
           m    == Cardinality(S)
<1>1. m \in Nat /\ m > 0
  BY FS_CardinalityType, FS_EmptySet
<1>2. now \in S /\ Cardinality(BelowIn(S, now)) = idx % m
  BY StandsSomewhere
<1>3. next \in S /\ Cardinality(BelowIn(S, next)) = (idx + 1) % m
  BY StandsSomewhere
<1>4. \/ (idx % m) + 1 < m /\ (idx + 1) % m = (idx % m) + 1
      \/ (idx % m) + 1 = m /\ (idx + 1) % m = 0
  BY <1>1, NextRemainder
<1>5. idx % m \in Nat
  BY <1>1, Division
<1> HIDE DEF now, next, m
<1>6. CASE (idx + 1) % m = (idx % m) + 1
  <2>1. Cardinality(BelowIn(S, next)) = Cardinality(BelowIn(S, now)) + 1
    BY <1>2, <1>3, <1>6
  <2>2. BelowIn(S, next) = BelowIn(S, now) \cup {now}
    BY <1>2, <1>3, <2>1, NextRank
  <2> QED BY <2>2 DEF now, next
<1>7. CASE (idx % m) + 1 = m /\ (idx + 1) % m = 0
  <2>1. Cardinality(BelowIn(S, now)) = Cardinality(S) - 1
    BY <1>1, <1>2, <1>5, <1>7 DEF m
  <2>2. S = BelowIn(S, now) \cup {now}
    BY <1>2, <2>1, LastRank
  <2>3. IsFiniteSet(BelowIn(S, next)) /\ Cardinality(BelowIn(S, next)) = 0
    BY <1>3, <1>7, BelowIsFinite
  <2>4. BelowIn(S, next) = {}
    BY <2>3, FS_EmptySet
  <2> QED BY <2>2, <2>4 DEF now, next
<1> QED BY <1>4, <1>6, <1>7

-----------------------------------------------------------------------------
(***************************************************************************)
(* What the invariant says, and what a turn of the loop does.              *)
(***************************************************************************)
LEMMA RegionsAreFinite ==
    IsFiniteSet(Region) /\ Region \in SUBSET Nat /\ \A S \in SUBSET Region : IsFiniteSet(S)
<1>1. IsFiniteSet(Region)
  BY SelectionAssumption, FS_Interval DEF Region
<1>2. Region \in SUBSET Nat
  BY SelectionAssumption DEF Region
<1> QED BY <1>1, <1>2, FS_Subset

LEMMA QueueFacts ==
    ASSUME TypeOK, QueuesFit, NEW r \in Region
    PROVE  /\ offered[r] \in Nat /\ Len(by_region[r]) \in Nat
           /\ Gone(r) \in 0..offered[r]
           /\ Gone(r) + Len(by_region[r]) = offered[r]
<1>1. offered[r] \in Nat
  BY SelectionAssumption DEF TypeOK
<1>2. by_region[r] \in Seq({r} \X (1..offered[r])) /\ Len(by_region[r]) =< offered[r]
  BY DEF TypeOK, QueuesFit
<1>3. Len(by_region[r]) \in Nat
  BY <1>2
<1> QED BY <1>1, <1>2, <1>3 DEF Gone

\* The server a turn takes is the region's next one.
LEMMA TakeIs ==
    ASSUME TypeOK, QueuesFit, LoopFits, Take, NEW r, r = At(region_idx)
    PROVE  /\ r \in Region /\ r \in regions /\ Gone(r) + 1 \in 1..offered[r]
           /\ selected' = Append(selected, <<r, Gone(r) + 1>>)
           /\ by_region' = [by_region EXCEPT ![r] = Tail(@)]
           /\ by_region[r] # << >>
<1>1. At(region_idx) = StandsAt(regions, region_idx)
  BY DEF At, StandsAt, Below, BelowIn
<1>2. /\ regions \in SUBSET Nat /\ IsFiniteSet(regions) /\ regions # {}
      /\ region_idx \in Nat /\ regions \subseteq Region
  BY RegionsAreFinite DEF TypeOK, Take
<1>3. r \in regions
  BY <1>1, <1>2, StandsSomewhere
<1>4. r \in Region /\ by_region[r] # << >>
  BY <1>3 DEF LoopFits, Left
<1>5. /\ by_region[r] \in Seq({r} \X (1..offered[r]))
      /\ \A i \in 1..Len(by_region[r]) : by_region[r][i] = <<r, Gone(r) + i>>
  BY <1>4 DEF TypeOK, QueuesFit
<1>6. Len(by_region[r]) \in Nat /\ Len(by_region[r]) > 0
  BY <1>4, <1>5
<1>7. Head(by_region[r]) = <<r, Gone(r) + 1>>
  BY <1>4, <1>5, <1>6
<1>8. Gone(r) + 1 \in 1..offered[r]
  BY <1>4, <1>6, QueueFacts
<1>9. /\ selected' = Append(selected, Head(by_region[At(region_idx)]))
      /\ by_region' = [by_region EXCEPT ![At(region_idx)] = Tail(@)]
  BY DEF Take
<1> QED BY <1>3, <1>4, <1>7, <1>8, <1>9

LEMMA TailIs ==
    ASSUME NEW S, NEW s \in Seq(S), s # << >>
    PROVE  /\ Tail(s) \in Seq(S) /\ Len(Tail(s)) = Len(s) - 1 /\ Len(s) \in Nat
           /\ \A i \in 1..Len(Tail(s)) : Tail(s)[i] = s[i + 1]
OBVIOUS

\* What a turn does to the queues.
LEMMA TakeMovesOn ==
    ASSUME TypeOK, QueuesFit, LoopFits, Take, NEW r, r = At(region_idx)
    PROVE  /\ offered' = offered
           /\ \A q \in Region : by_region'[q] \in Seq({q} \X (1..offered[q]))
           /\ Len(by_region'[r]) = Len(by_region[r]) - 1
           /\ \A q \in Region : q # r => by_region'[q] = by_region[q]
           /\ Gone(r)' = Gone(r) + 1
           /\ \A q \in Region : q # r => Gone(q)' = Gone(q)
           /\ QueuesFit'
<1>1. /\ r \in Region /\ by_region[r] # << >>
      /\ by_region' = [by_region EXCEPT ![r] = Tail(@)]
  BY TakeIs
<1>2. offered' = offered
  BY DEF Take, request
<1>3. DOMAIN by_region = Region
  BY DEF TypeOK
<1>4. /\ by_region'[r] = Tail(by_region[r])
      /\ \A q \in Region : q # r => by_region'[q] = by_region[q]
  BY <1>1, <1>3
<1>5. \A q \in Region : by_region[q] \in Seq({q} \X (1..offered[q]))
  BY DEF TypeOK
<1>6. /\ Len(by_region'[r]) = Len(by_region[r]) - 1 /\ Len(by_region[r]) \in Nat
      /\ by_region'[r] \in Seq({r} \X (1..offered[r]))
      /\ \A i \in 1..Len(by_region'[r]) : by_region'[r][i] = by_region[r][i + 1]
  <2>1. by_region[r] \in Seq({r} \X (1..offered[r]))
    BY <1>1, <1>5
  <2>2. by_region[r] # << >> /\ by_region'[r] = Tail(by_region[r])
    BY <1>1, <1>4
  <2> DEFINE was == by_region[r]
             S == {r} \X (1..offered[r])
  <2>3. was \in Seq(S) /\ was # << >> /\ by_region'[r] = Tail(was)
    BY <2>1, <2>2
  <2> HIDE DEF was, S
  <2>4. /\ Tail(was) \in Seq(S) /\ Len(Tail(was)) = Len(was) - 1 /\ Len(was) \in Nat
        /\ \A i \in 1..Len(Tail(was)) : Tail(was)[i] = was[i + 1]
    BY <2>3, TailIs
  <2> QED BY <2>3, <2>4 DEF was, S
<1>7. \A q \in Region : by_region'[q] \in Seq({q} \X (1..offered[q]))
  BY <1>4, <1>5, <1>6
<1>8. offered[r] \in Nat /\ Gone(r) \in Nat
  BY <1>1, QueueFacts
<1>9. Gone(r)' = Gone(r) + 1
  BY <1>2, <1>6, <1>8 DEF Gone
<1>10. \A q \in Region : q # r => Gone(q)' = Gone(q)
  BY <1>2, <1>4 DEF Gone
<1>11. QueuesFit'
  <2> SUFFICES ASSUME NEW q \in Region
               PROVE  /\ Len(by_region'[q]) =< offered'[q]
                      /\ \A i \in 1..Len(by_region'[q]) :
                             by_region'[q][i] = <<q, Gone(q)' + i>>
    BY DEF QueuesFit, Region
  <2>1. CASE q # r
    BY <1>2, <1>4, <1>10, <2>1 DEF QueuesFit
  <2>2. CASE q = r
    <3>1. Len(by_region[r]) =< offered[r]
      BY <1>1 DEF QueuesFit
    <3>2. ASSUME NEW i \in 1..Len(by_region'[r])
          PROVE  by_region'[r][i] = <<r, Gone(r)' + i>>
      <4>1. i + 1 \in 1..Len(by_region[r]) /\ i \in Nat
        BY <1>6
      <4>2. by_region[r][i + 1] = <<r, Gone(r) + (i + 1)>>
        BY <1>1, <4>1 DEF QueuesFit
      <4>3. Gone(r) + (i + 1) = Gone(r)' + i
        BY <1>8, <1>9, <4>1
      <4> QED BY <1>6, <4>2, <4>3
    <3> QED BY <1>2, <1>6, <1>8, <2>2, <3>1, <3>2
  <2> QED BY <2>1, <2>2
<1> QED BY <1>2, <1>4, <1>6, <1>7, <1>9, <1>10, <1>11

-----------------------------------------------------------------------------
(***************************************************************************)
(* A turn of the loop preserves the invariant.                             *)
(***************************************************************************)
LEMMA AppendIs ==
    ASSUME NEW S, NEW s \in Seq(S), NEW e \in S
    PROVE  /\ Append(s, e) \in Seq(S) /\ Len(s) \in Nat
           /\ Len(Append(s, e)) = Len(s) + 1
           /\ DOMAIN s = 1..Len(s) /\ DOMAIN Append(s, e) = 1..(Len(s) + 1)
           /\ \A i \in 1..Len(s) : Append(s, e)[i] = s[i]
           /\ Append(s, e)[Len(s) + 1] = e
           /\ ToSet(Append(s, e)) = ToSet(s) \cup {e}
<1>1. /\ Append(s, e) \in Seq(S) /\ Len(s) \in Nat
      /\ Len(Append(s, e)) = Len(s) + 1
      /\ DOMAIN s = 1..Len(s) /\ DOMAIN Append(s, e) = 1..(Len(s) + 1)
      /\ \A i \in 1..Len(s) : Append(s, e)[i] = s[i]
      /\ Append(s, e)[Len(s) + 1] = e
  OBVIOUS
<1>2. 1..(Len(s) + 1) = 1..Len(s) \cup {Len(s) + 1}
  BY <1>1
<1>3. ToSet(Append(s, e)) = ToSet(s) \cup {e}
  <2> DEFINE long == Append(s, e)
             n == Len(s)
  <2>1. /\ DOMAIN s = 1..n /\ DOMAIN long = 1..n \cup {n + 1}
        /\ \A i \in 1..n : long[i] = s[i]
        /\ long[n + 1] = e
    BY <1>1, <1>2
  <2> HIDE DEF long, n
  <2>2. {long[i] : i \in DOMAIN long} = {s[i] : i \in DOMAIN s} \cup {e}
    BY <2>1
  <2> QED BY <2>2 DEF ToSet, long
<1> QED BY <1>1, <1>3

LEMMA TakeTypes ==
    ASSUME TypeOK, QueuesFit, LoopFits, Take
    PROVE  TypeOK'
<1> DEFINE r == At(region_idx)
<1>1. /\ r \in Region /\ Gone(r) + 1 \in 1..offered[r]
      /\ selected' = Append(selected, <<r, Gone(r) + 1>>)
      /\ by_region' = [by_region EXCEPT ![r] = Tail(@)]
  BY TakeIs
<1>2. /\ offered' = offered
      /\ \A q \in Region : by_region'[q] \in Seq({q} \X (1..offered[q]))
  BY TakeMovesOn
<1> HIDE DEF r
<1>3. <<r, Gone(r) + 1>> \in Eligible
  BY <1>1 DEF Eligible
<1>4. selected' \in Seq(Eligible)
  BY <1>1, <1>3, AppendIs DEF TypeOK
<1>5. Eligible' = Eligible
  BY <1>2 DEF Eligible, Region
<1>6. DOMAIN by_region' = Region
  BY <1>1 DEF TypeOK
<1>7. regions' \subseteq Region /\ region_idx' \in Nat /\ count' = count /\ returned' = returned
  BY DEF Take, TypeOK, request
<1> QED BY <1>2, <1>4, <1>5, <1>6, <1>7 DEF TypeOK, Region

LEMMA TakeLoops ==
    ASSUME TypeOK, QueuesFit, LoopFits, Take
    PROVE  LoopFits'
<1> DEFINE r == At(region_idx)
<1>1. regions' = {q \in regions : by_region'[q] # << >>}
  BY DEF Take
<1>2. r \in regions /\ \A q \in Region : q # r => by_region'[q] = by_region[q]
  BY TakeIs, TakeMovesOn
<1> HIDE DEF r
<1>3. regions = {q \in Region : by_region[q] # << >>}
  BY DEF LoopFits, Left
<1>4. regions' = {q \in Region : by_region'[q] # << >>}
  BY <1>1, <1>2, <1>3
<1>5. ~returned'
  BY DEF Take
<1> QED BY <1>4, <1>5 DEF LoopFits, Left, Region

LEMMA TakeSelects ==
    ASSUME TypeOK, QueuesFit, LoopFits, SelectedFit, Take
    PROVE  SelectedFit'
<1>0. PICK r : r = At(region_idx)
  OBVIOUS
<1> DEFINE e == <<r, Gone(r) + 1>>
           n == Len(selected)
<1>1. /\ r \in Region /\ Gone(r) + 1 \in 1..offered[r]
      /\ selected' = Append(selected, e)
  BY <1>0, TakeIs
<1>2. /\ offered' = offered /\ Gone(r)' = Gone(r) + 1
      /\ \A q \in Region : q # r => Gone(q)' = Gone(q)
  BY <1>0, TakeMovesOn
<1>3. Gone(r) \in Nat
  BY <1>1, QueueFacts
<1>4. e \in Eligible /\ selected \in Seq(Eligible)
  BY <1>1 DEF Eligible, TypeOK
<1> HIDE DEF e
<1>5. /\ n \in Nat /\ Len(selected') = n + 1
      /\ DOMAIN selected = 1..n /\ DOMAIN selected' = 1..(n + 1)
      /\ \A i \in 1..n : selected'[i] = selected[i]
      /\ selected'[n + 1] = e
      /\ ToSet(selected') = ToSet(selected) \cup {e}
  BY <1>1, <1>4, AppendIs
<1> HIDE DEF n
<1>6. /\ \A q \in Region : \A i \in 1..offered[q] :
             <<q, i>> \in ToSet(selected) <=> i =< Gone(q)
      /\ IsFiniteSet(ToSet(selected)) /\ Cardinality(ToSet(selected)) = n
  BY DEF SelectedFit, n
<1>7. e \notin ToSet(selected)
  BY <1>1, <1>3, <1>6 DEF e
<1>8. IsFiniteSet(ToSet(selected')) /\ Cardinality(ToSet(selected')) = n + 1
  BY <1>5, <1>6, <1>7, FS_AddElement
<1>9. n + 1 =< count'
  <2>1. n < count /\ count' = count /\ count \in Nat
    BY DEF Take, request, TypeOK, n
  <2> QED BY <1>5, <2>1
<1>10. ASSUME NEW q \in Region, NEW i \in 1..offered[q]
       PROVE  <<q, i>> \in ToSet(selected') <=> i =< Gone(q)'
  <2>1. CASE q # r
    <3>1. <<q, i>> # e
      BY <2>1 DEF e
    <3> QED BY <1>2, <1>5, <1>6, <2>1, <3>1
  <2>2. CASE q = r
    <3>1. <<r, i>> = e <=> i = Gone(r) + 1
      BY DEF e
    <3>2. <<r, i>> \in ToSet(selected) <=> i =< Gone(r)
      BY <1>6, <2>2
    <3>3. i \in Nat
      BY <2>2
    <3> QED BY <1>2, <1>3, <1>5, <2>2, <3>1, <3>2, <3>3
  <2> QED BY <2>1, <2>2
<1>11. ASSUME NEW q \in Region
       PROVE  Taken(q)' = Gone(q)'
  <2> DEFINE now == {i \in DOMAIN selected : selected[i][1] = q}
             next == {i \in DOMAIN selected' : selected'[i][1] = q}
  <2>1. Cardinality(now) = Gone(q) /\ Taken(q)' = Cardinality(next)
    BY DEF SelectedFit, Taken
  <2>2. IsFiniteSet(now)
    <3>1. IsFiniteSet(1..n) /\ now \in SUBSET (1..n)
      BY <1>5, FS_Interval
    <3> QED BY <3>1, FS_Subset
  <2>3. e[1] = r
    BY DEF e
  <2>4. CASE q # r
    <3>1. next = now
      BY <1>5, <2>3, <2>4
    <3> QED BY <1>2, <2>1, <2>4, <3>1
  <2>5. CASE q = r
    <3>1. next = now \cup {n + 1} /\ n + 1 \notin now
      BY <1>5, <2>3, <2>5
    <3>2. Cardinality(next) = Cardinality(now) + 1
      BY <2>2, <3>1, FS_AddElement
    <3> QED BY <1>2, <2>1, <2>5, <3>2
  <2> QED BY <2>4, <2>5
<1> QED BY <1>2, <1>5, <1>8, <1>9, <1>10, <1>11 DEF SelectedFit, Region

-----------------------------------------------------------------------------
(***************************************************************************)
(* The rotation stays even.                                                *)
(***************************************************************************)
LEMMA DryIs ==
    IsFiniteSet(Dry) /\ Cardinality(Dry) \in Nat
<1>1. Dry \in SUBSET Region
  BY DEF Dry
<1> QED BY <1>1, RegionsAreFinite, FS_CardinalityType

\* Where the index stands before and after a turn.
LEMMA AtIs ==
    ASSUME TypeOK, regions # {}
    PROVE  At(region_idx) = StandsAt(regions, region_idx) /\ At(region_idx) \in regions
<1>1. At(region_idx) = StandsAt(regions, region_idx)
  BY DEF At, StandsAt, Below, BelowIn
<1>2. /\ regions \in SUBSET Nat /\ IsFiniteSet(regions) /\ region_idx \in Nat
  BY RegionsAreFinite DEF TypeOK
<1> QED BY <1>1, <1>2, StandsSomewhere

\* A turn that leaves the region servers: its lead grows by one, and the index
\* moves to the region right after it.
LEMMA TurnStaysEven ==
    ASSUME TypeOK, QueuesFit, LoopFits, TurnsFit, Take, NEW r, r = At(region_idx),
           by_region'[r] # << >>
    PROVE  TurnsFit'
<1>1. r \in Region /\ r \in regions
  BY TakeIs
<1>2. /\ offered' = offered
      /\ \A q \in Region : q # r => by_region'[q] = by_region[q]
      /\ Gone(r)' = Gone(r) + 1
      /\ \A q \in Region : q # r => Gone(q)' = Gone(q)
  BY TakeMovesOn
<1>3. regions \subseteq Region /\ regions \in SUBSET Nat /\ IsFiniteSet(regions)
  BY RegionsAreFinite DEF TypeOK
<1>4. \A q \in regions : by_region[q] # << >>
  BY DEF LoopFits, Left
<1>5. regions' = regions
  <2>1. regions' = {q \in regions : by_region'[q] # << >>}
    BY DEF Take
  <2> QED BY <1>1, <1>2, <1>3, <1>4, <2>1
<1>6. Dry' = Dry
  <2>1. Dry' = {q \in Region : offered'[q] > 0 /\ q \notin regions'}
    BY TakeLoops DEF Dry, LoopFits, Region
  <2>2. Dry = {q \in Region : offered[q] > 0 /\ q \notin regions}
    BY DEF Dry, LoopFits
  <2> QED BY <1>2, <1>5, <2>1, <2>2
<1> DEFINE d == Cardinality(Dry)
           next == StandsAt(regions, region_idx + 1)
<1>7. d \in Nat /\ Cardinality(Dry') = d
  BY <1>6, DryIs
<1>8. r = StandsAt(regions, region_idx) /\ region_idx \in Nat /\ region_idx' = region_idx + 1
  BY <1>1, AtIs DEF TypeOK, Take
<1>9. At(region_idx)' = next
  BY <1>5, <1>8 DEF At, StandsAt, Below, BelowIn
<1>10. \/ BelowIn(regions, next) = BelowIn(regions, r) \cup {r}
       \/ BelowIn(regions, next) = {} /\ regions = BelowIn(regions, r) \cup {r}
  BY <1>1, <1>3, <1>8, StandsAtNext
<1> HIDE DEF d, next
<1>11. \/ \A x \in regions : x < next <=> (x < r \/ x = r)
       \/ \A x \in regions : ~(x < next) /\ (x < r \/ x = r)
  BY <1>10 DEF BelowIn
<1>12. next \in regions
  BY <1>1, <1>3, <1>8, StandsSomewhere DEF next
<1>13. \A x \in regions : Gone(x) \in Int
  BY <1>3, QueueFacts
<1>14. SUFFICES ASSUME NEW p \in regions, NEW q \in regions
                PROVE  /\ Gone(p)' - Gone(q)' =< d + 1
                       /\ ~(p < next /\ next =< q) => Gone(p)' - Gone(q)' =< d
                       /\ q < next /\ next =< p => Gone(p)' - Gone(q)' =< d - 1
  BY <1>5, <1>7, <1>9 DEF TurnsFit
<1>15. /\ Gone(p) \in Int /\ Gone(q) \in Int /\ Gone(r) \in Int
       /\ p \in Nat /\ q \in Nat /\ r \in Nat /\ next \in Nat
  BY <1>1, <1>3, <1>12, <1>13
<1>16. \A x, y \in regions :
           /\ Gone(x) - Gone(y) =< d + 1
           /\ ~(x < r /\ r =< y) => Gone(x) - Gone(y) =< d
           /\ y < r /\ r =< x => Gone(x) - Gone(y) =< d - 1
  BY DEF TurnsFit, d
<1>17. CASE p = r /\ q = r
  BY <1>2, <1>7, <1>15, <1>17
<1>18. CASE p = r /\ q # r
  <2>1. Gone(p)' = Gone(r) + 1 /\ Gone(q)' = Gone(q)
    BY <1>2, <1>3, <1>18
  <2>2. Gone(r) - Gone(q) =< d /\ (q < r => Gone(r) - Gone(q) =< d - 1)
    BY <1>1, <1>15, <1>16
  <2>3. (q < next /\ ~(r < next)) => FALSE
    BY <1>1, <1>11, <1>15, <1>18
  <2>4. (p < next /\ next =< q) \/ q < r
    BY <1>11, <1>15, <1>18
  <2>5. ~(q < next /\ next =< p)
    BY <1>11, <1>15, <1>18
  <2> QED BY <1>7, <1>15, <2>1, <2>2, <2>4, <2>5
<1>19. CASE p # r /\ q = r
  <2>1. Gone(p)' = Gone(p) /\ Gone(q)' = Gone(r) + 1
    BY <1>2, <1>3, <1>19
  <2>2. Gone(p) - Gone(r) =< d + 1 /\ (~(p < r) => Gone(p) - Gone(r) =< d)
    BY <1>1, <1>15, <1>16
  <2>3. q < next /\ next =< p => ~(p < r)
    BY <1>11, <1>15, <1>19
  <2> QED BY <1>7, <1>15, <2>1, <2>2, <2>3
<1>20. CASE p # r /\ q # r
  <2>1. Gone(p)' = Gone(p) /\ Gone(q)' = Gone(q)
    BY <1>2, <1>3, <1>20
  <2>2. ~(p < next /\ next =< q) => ~(p < r /\ r =< q)
    BY <1>11, <1>15, <1>20
  <2>3. q < next /\ next =< p => q < r /\ r =< p
    BY <1>11, <1>15, <1>20
  <2> QED BY <1>16, <2>1, <2>2, <2>3
<1> QED BY <1>17, <1>18, <1>19, <1>20

\* A turn that empties the region: it leaves the loop, and wherever that moves the
\* index, no lead among the others is more than the one more that is now allowed.
LEMMA DryingStaysEven ==
    ASSUME TypeOK, QueuesFit, LoopFits, TurnsFit, Take, NEW r, r = At(region_idx),
           by_region'[r] = << >>
    PROVE  TurnsFit'
<1>1. /\ r \in Region /\ r \in regions /\ Gone(r) + 1 \in 1..offered[r]
  BY TakeIs
<1>2. /\ offered' = offered
      /\ \A q \in Region : q # r => by_region'[q] = by_region[q]
      /\ \A q \in Region : q # r => Gone(q)' = Gone(q)
  BY TakeMovesOn
<1>3. regions \subseteq Region /\ regions \in SUBSET Nat
  BY RegionsAreFinite DEF TypeOK
<1>4. \A q \in regions : by_region[q] # << >>
  BY DEF LoopFits, Left
<1>5. regions' = regions \ {r}
  <2>1. regions' = {q \in regions : by_region'[q] # << >>}
    BY DEF Take
  <2> QED BY <1>1, <1>2, <1>3, <1>4, <2>1
<1>6. Dry' = Dry \cup {r} /\ r \notin Dry
  <2>1. Dry' = {q \in Region : offered'[q] > 0 /\ q \notin regions'}
    BY TakeLoops DEF Dry, LoopFits, Region
  <2>2. Dry = {q \in Region : offered[q] > 0 /\ q \notin regions}
    BY DEF Dry, LoopFits
  <2>3. offered[r] > 0
    BY <1>1, QueueFacts
  <2> QED BY <1>1, <1>2, <1>5, <2>1, <2>2, <2>3
<1> DEFINE d == Cardinality(Dry)
<1>7. d \in Nat /\ Cardinality(Dry') = d + 1
  BY <1>6, DryIs, FS_AddElement
<1> DEFINE next == At(region_idx)'
<1> HIDE DEF d, next
<1>8. SUFFICES ASSUME NEW p \in regions', NEW q \in regions'
               PROVE  /\ Gone(p)' - Gone(q)' =< d + 2
                      /\ Gone(p)' - Gone(q)' =< d + 1
                      /\ q < next /\ next =< p => Gone(p)' - Gone(q)' =< d
  BY <1>7 DEF TurnsFit, next
<1>9. next \in regions'
  <2>1. next = StandsAt(regions', region_idx')
    BY DEF next, At, StandsAt, Below, BelowIn
  <2>2. regions' \in SUBSET Nat /\ IsFiniteSet(regions') /\ regions' # {}
    BY <1>3, <1>5, RegionsAreFinite
  <2>3. region_idx' \in Nat
    BY DEF Take, TypeOK
  <2> QED BY <2>1, <2>2, <2>3, StandsSomewhere
<1>10. Gone(p)' = Gone(p) /\ Gone(q)' = Gone(q) /\ p \in regions /\ q \in regions
  BY <1>2, <1>3, <1>5
<1>11. /\ Gone(p) \in Int /\ Gone(q) \in Int
       /\ p \in Nat /\ q \in Nat /\ r \in Nat /\ next \in Nat
  BY <1>1, <1>3, <1>5, <1>9, <1>10, QueueFacts
<1>12. /\ Gone(p) - Gone(q) =< d + 1
       /\ ~(p < r /\ r =< q) => Gone(p) - Gone(q) =< d
  BY <1>10 DEF TurnsFit, d
<1>13. q < next /\ next =< p => ~(p < r /\ r =< q)
  BY <1>11
<1> QED BY <1>7, <1>10, <1>11, <1>12, <1>13

-----------------------------------------------------------------------------
(***************************************************************************)
(* The theorems.                                                           *)
(***************************************************************************)
LEMMA Starts ==
    ASSUME Init
    PROVE  SelectionInvariant
<1>1. /\ offered \in [Region -> 0..MaxPerRegion] /\ count \in 1..MaxCount
      /\ by_region = [r \in Region |-> Queue(r)] /\ region_idx = 0
      /\ regions = {r \in Region : offered[r] > 0}
      /\ selected = << >> /\ returned = FALSE
  BY DEF Init
<1>2. ASSUME NEW r \in Region
      PROVE  /\ offered[r] \in Nat
             /\ by_region[r] = [i \in 1..offered[r] |-> <<r, i>>]
             /\ by_region[r] \in Seq({r} \X (1..offered[r]))
             /\ Len(by_region[r]) = offered[r]
             /\ by_region[r] # << >> <=> offered[r] > 0
  <2>1. offered[r] \in Nat /\ by_region[r] = [i \in 1..offered[r] |-> <<r, i>>]
    BY <1>1, SelectionAssumption DEF Queue
  <2> QED BY <2>1
<1>3. regions = Left
  BY <1>1, <1>2 DEF Left
<1>4. ASSUME NEW r \in Region PROVE Gone(r) = 0
  <2>1. Len(by_region[r]) = offered[r] /\ offered[r] \in Nat
    BY <1>2
  <2> QED BY <2>1 DEF Gone
<1>5. TypeOK
  <2>1. \A r \in Region : by_region[r] \in Seq({r} \X (1..offered[r]))
    BY <1>2
  <2>2. DOMAIN by_region = Region /\ regions \subseteq Region /\ region_idx \in Nat
    BY <1>1
  <2>3. selected \in Seq(Eligible) /\ returned \in BOOLEAN
    <3>1. << >> \in Seq(Eligible)
      OBVIOUS
    <3>2. selected = << >> /\ returned = FALSE
      BY <1>1
    <3> QED BY <3>1, <3>2
  <2> QED BY <1>1, <2>1, <2>2, <2>3 DEF TypeOK
<1>6. QueuesFit
  <2> SUFFICES ASSUME NEW r \in Region
               PROVE  /\ Len(by_region[r]) =< offered[r]
                      /\ \A i \in 1..Len(by_region[r]) : by_region[r][i] = <<r, Gone(r) + i>>
    BY DEF QueuesFit
  <2>1. Len(by_region[r]) = offered[r] /\ offered[r] \in Nat
    BY <1>2
  <2>2. Gone(r) = 0
    BY <1>4
  <2>3. ASSUME NEW i \in 1..offered[r] PROVE by_region[r][i] = <<r, 0 + i>>
    <3>1. by_region[r] = [j \in 1..offered[r] |-> <<r, j>>] /\ offered[r] \in Nat
      BY <1>2
    <3>2. i = 0 + i
      BY <3>1
    <3> QED BY <3>1, <3>2
  <2> QED BY <2>1, <2>2, <2>3
<1>7. ToSet(selected) = {} /\ Len(selected) = 0
  BY <1>1 DEF ToSet
<1>8. ASSUME NEW r \in Region PROVE Taken(r) = 0
  <2>1. {i \in DOMAIN selected : selected[i][1] = r} = {}
    BY <1>1
  <2> QED BY <2>1, FS_EmptySet DEF Taken
<1>9. SelectedFit
  <2>1. IsFiniteSet(ToSet(selected)) /\ Cardinality(ToSet(selected)) = Len(selected)
    BY <1>7, FS_EmptySet
  <2>2. Len(selected) =< count
    BY <1>1, <1>7
  <2> QED BY <1>4, <1>7, <1>8, <2>1, <2>2 DEF SelectedFit
<1>10. LoopFits
  BY <1>1, <1>3 DEF LoopFits
<1>11. TurnsFit
  <2>1. Dry = {}
    BY <1>1, <1>3 DEF Dry
  <2>2. Cardinality(Dry) = 0
    BY <2>1, FS_EmptySet
  <2> SUFFICES ASSUME NEW p \in regions, NEW q \in regions
               PROVE  /\ Gone(p) = 0 /\ Gone(q) = 0
                      /\ ~(q < At(region_idx) /\ At(region_idx) =< p)
    BY <2>2 DEF TurnsFit
  <2>3. Gone(p) = 0 /\ Gone(q) = 0
    BY <1>1, <1>4
  <2>4. regions \in SUBSET Nat /\ IsFiniteSet(regions) /\ regions # {}
    BY <1>1, RegionsAreFinite
  <2>5. At(region_idx) = StandsAt(regions, 0)
    BY <1>1 DEF At, StandsAt, Below, BelowIn
  <2>6. Cardinality(BelowIn(regions, At(region_idx))) = 0 % Cardinality(regions)
    BY <2>4, <2>5, StandsSomewhere
  <2>7. Cardinality(regions) \in Nat /\ Cardinality(regions) > 0
    BY <2>4, FS_CardinalityType, FS_EmptySet
  <2>8. 0 % Cardinality(regions) = 0
    BY <2>7
  <2>9. BelowIn(regions, At(region_idx)) = {}
    <3>1. At(region_idx) \in regions
      BY <2>4, <2>5, StandsSomewhere
    <3>2. IsFiniteSet(BelowIn(regions, At(region_idx)))
      BY <2>4, <3>1, BelowIsFinite
    <3> QED BY <2>6, <2>8, <3>2, FS_EmptySet
  <2> QED BY <2>3, <2>9 DEF BelowIn
<1> QED BY <1>5, <1>6, <1>9, <1>10, <1>11 DEF SelectionInvariant

LEMMA Stays ==
    ASSUME SelectionInvariant, UNCHANGED <<request, by_region, regions, region_idx, selected>>,
           returned' \in BOOLEAN,
           returned' => Len(selected) >= count \/ regions = {}
    PROVE  SelectionInvariant'
<1>1. /\ offered' = offered /\ count' = count /\ by_region' = by_region
      /\ regions' = regions /\ region_idx' = region_idx /\ selected' = selected
  BY DEF request
<1>2. TypeOK'
  BY <1>1 DEF SelectionInvariant, TypeOK, Region, Eligible
<1>3. QueuesFit'
  BY <1>1 DEF SelectionInvariant, QueuesFit, Gone, Region
<1>4. SelectedFit'
  BY <1>1 DEF SelectionInvariant, SelectedFit, Gone, Region, Taken, ToSet
<1>5. LoopFits'
  BY <1>1 DEF SelectionInvariant, LoopFits, Left, Region
<1>6. TurnsFit'
  BY <1>1 DEF SelectionInvariant, TurnsFit, Dry, Left, Region, Gone, At, Below
<1> QED BY <1>2, <1>3, <1>4, <1>5, <1>6 DEF SelectionInvariant

LEMMA Keeps ==
    ASSUME SelectionInvariant, [Next]_vars
    PROVE  SelectionInvariant'
<1>1. TypeOK /\ QueuesFit /\ SelectedFit /\ LoopFits /\ TurnsFit
  BY DEF SelectionInvariant
<1>2. CASE Take
  <2>1. PICK r : r = At(region_idx)
    OBVIOUS
  <2>2. TurnsFit'
    BY <1>1, <1>2, <2>1, TurnStaysEven, DryingStaysEven
  <2> QED BY <1>1, <1>2, <2>2, TakeTypes, TakeMovesOn, TakeSelects, TakeLoops
          DEF SelectionInvariant
<1>3. CASE Return
  BY <1>3, Stays DEF Return
<1>4. CASE UNCHANGED vars
  BY <1>1, <1>4, Stays DEF vars, TypeOK, LoopFits
<1> QED BY <1>2, <1>3, <1>4 DEF Next

\* Every variable keeps its type: the selection holds eligible servers only, and a
\* queue only servers of its region.
THEOREM TypeCorrect == Spec => []TypeOK
<1>1. SelectionInvariant => TypeOK
  BY DEF SelectionInvariant
<1> QED BY <1>1, Starts, Keeps, PTL DEF Spec

\* The queues and the selection fit together, and no region's lead exceeds what its
\* turn in the round allows.
THEOREM InvariantHolds == Spec => []SelectionInvariant
BY Starts, Keeps, PTL DEF Spec

\* _select_servers_for_stage returns distinct eligible servers, as many as asked
\* for, or all of them.
THEOREM SelectionIsRight == Spec => []ReturnsASelection
<1>1. ASSUME SelectionInvariant PROVE ReturnsASelection
  <2> SUFFICES ASSUME returned
               PROVE  /\ Cardinality(ToSet(selected)) = Len(selected)
                      /\ \/ Cardinality(ToSet(selected)) = count
                         \/ /\ Cardinality(ToSet(selected)) < count
                            /\ ToSet(selected) = Eligible
    BY DEF ReturnsASelection
  <2>1. /\ Cardinality(ToSet(selected)) = Len(selected) /\ Len(selected) =< count
        /\ Len(selected) >= count \/ regions = {}
        /\ Len(selected) \in Nat /\ count \in Nat
        /\ selected \in Seq(Eligible)
    BY <1>1 DEF SelectionInvariant, SelectedFit, LoopFits, TypeOK
  <2>2. CASE Len(selected) >= count
    BY <2>1, <2>2
  <2>3. CASE Len(selected) < count
    <3>1. regions = {}
      BY <2>1, <2>3
    <3>2. ASSUME NEW r \in Region PROVE Gone(r) = offered[r] /\ offered[r] \in Nat
      <4>1. Len(by_region[r]) = 0
        BY <1>1, <3>1 DEF SelectionInvariant, LoopFits, Left
      <4> QED BY <1>1, <4>1, QueueFacts DEF SelectionInvariant
    <3>3. ASSUME NEW e \in Eligible PROVE e \in ToSet(selected)
      <4>1. PICK r \in Region : \E i \in 1..offered[r] : e = <<r, i>>
        BY DEF Eligible
      <4>2. PICK i \in 1..offered[r] : e = <<r, i>>
        BY <4>1
      <4>3. i =< Gone(r)
        BY <3>2
      <4> QED BY <1>1, <4>2, <4>3 DEF SelectionInvariant, SelectedFit
    <3>4. ToSet(selected) \subseteq Eligible
      BY <2>1 DEF ToSet
    <3> QED BY <2>1, <2>3, <3>3, <3>4
  <2> QED BY <2>1, <2>2, <2>3
<1> QED BY <1>1, Starts, Keeps, PTL DEF Spec

\* The rotation is even: the counts of two regions that still have servers differ
\* by one, and by one more at most for every region that has run dry.
THEOREM RotationIsEven == Spec => []SpreadIsEven
<1>1. ASSUME SelectionInvariant PROVE SpreadIsEven
  <2> SUFFICES ASSUME NEW r \in Left, NEW q \in Left
               PROVE  Taken(r) - Taken(q) =< 1 + Cardinality(Dry)
    BY DEF SpreadIsEven, Dry
  <2>1. r \in Region /\ q \in Region /\ r \in regions /\ q \in regions
    BY <1>1 DEF SelectionInvariant, LoopFits, Left
  <2>2. Gone(r) - Gone(q) =< Cardinality(Dry) + 1
    BY <1>1, <2>1 DEF SelectionInvariant, TurnsFit
  <2>3. Taken(r) = Gone(r) /\ Taken(q) = Gone(q)
    BY <1>1, <2>1 DEF SelectionInvariant, SelectedFit
  <2> QED BY <2>2, <2>3, DryIs
<1> QED BY <1>1, Starts, Keeps, PTL DEF Spec

-----------------------------------------------------------------------------
(***************************************************************************)
(* The abort listener.                                                     *)
(***************************************************************************)
LEMMA ListenerTypeInit == ListenerInit => ListenerTypeOK
<1> SUFFICES ASSUME ListenerInit PROVE ListenerTypeOK
  OBVIOUS
<1>1. reader \in [Readers -> [pc : Step, line : Line]]
  BY DEF ListenerInit, Step, Line, NoLine, None
<1>2. input \in Seq(Line)
  BY DEF ListenerInit
<1>3. /\ starts \in 0..MaxStarts /\ events \in 0..MaxEvents /\ lines \in 0..MaxLines
      /\ failures \in 0..MaxFailures
  BY ListenerAssumption DEF ListenerInit
<1>4. /\ thread \in Readers \cup {None} /\ event \in Events \cup {None}
      /\ signalled \subseteq Events
  BY DEF ListenerInit
<1>5. owner \in {"new", "running", "stopped"} /\ {stopRequested, closed} \subseteq BOOLEAN
  BY DEF ListenerInit
<1> QED BY <1>1, <1>2, <1>3, <1>4, <1>5 DEF ListenerTypeOK

LEMMA ListenerTypeNext == ListenerTypeOK /\ [ListenerNext]_listenerVars => ListenerTypeOK'
<1> SUFFICES ASSUME ListenerTypeOK, [ListenerNext]_listenerVars PROVE ListenerTypeOK'
  OBVIOUS
<1> USE DEF ListenerTypeOK, listener, stream, counters
<1>1. CASE Start
  <2>1. starts' \in 1..MaxStarts
    BY <1>1, ListenerAssumption DEF Start
  <2>2. reader' \in [Readers -> [pc : Step, line : Line]]
    BY <1>1, <2>1 DEF Start, Readers, Step
  <2>3. thread' \in Readers \cup {None} /\ stopRequested' \in BOOLEAN
    BY <1>1, <2>1 DEF Start, Readers
  <2>4. event' = event /\ starts' \in 0..MaxStarts /\ owner' = "running"
    BY <1>1, <2>1 DEF Start
  <2> QED BY <1>1, <2>2, <2>3, <2>4 DEF Start
<1>2. CASE Stop \/ ClearAbortEvent
  BY <1>2 DEF Stop, ClearAbortEvent
<1>3. CASE SetAbortEvent
  BY <1>3, ListenerAssumption DEF SetAbortEvent, Events
<1>4. ASSUME NEW r \in Readers, Reads(r) PROVE ListenerTypeOK'
  <2>1. reader[r] \in [pc : Step, line : Line]
    OBVIOUS
  <2>2. ASSUME NEW step \in Step, Goto(r, step)
        PROVE  reader' \in [Readers -> [pc : Step, line : Line]]
    BY <2>1, <2>2 DEF Goto
  <2>3. CASE CheckStop(r) \/ Verify(r) \/ ReadEnd(r)
    BY <2>2, <2>3 DEF CheckStop, Verify, ReadEnd, Step
  <2>4. CASE ReadLine(r)
    <3>1. Head(input) \in Line /\ Tail(input) \in Seq(Line)
      BY <2>4 DEF ReadLine
    <3> QED BY <2>4, <3>1 DEF ReadLine, Step
  <2>5. CASE Act(r)
    BY <2>2, <2>5 DEF Act, Step, None
  <2>6. CASE Leave(r)
    BY <2>2, <2>6 DEF Leave, Step
  <2> QED BY <1>4, <2>3, <2>4, <2>5, <2>6 DEF Reads
<1>5. ASSUME NEW abort \in BOOLEAN, Type(abort) PROVE ListenerTypeOK'
  <2>1. [abort |-> abort, during |-> event] \in Line
    BY DEF Line
  <2>2. input' \in Seq(Line)
    BY <1>5, <2>1 DEF Type
  <2> QED BY <1>5, <2>2, ListenerAssumption DEF Type
<1>6. CASE Close \/ UNCHANGED listenerVars
  BY <1>6 DEF Close, listenerVars
<1>7. ASSUME NEW r \in Readers, ReadRaises(r) PROVE ListenerTypeOK'
  <2>1. reader' \in [Readers -> [pc : Step, line : Line]]
    BY <1>7 DEF ReadRaises, Goto, Step
  <2>2. input' \in Seq(Line)
    <3>1. PICK n \in 0..Len(input) : input' = SubSeq(input, n + 1, Len(input))
      BY <1>7 DEF ReadRaises
    <3>2. \A i \in (n + 1)..Len(input) : input[i] \in Line
      BY <3>1
    <3> QED BY <3>1, <3>2, SubSeqProperties
  <2>3. failures' \in 0..MaxFailures
    BY <1>7, ListenerAssumption DEF ReadRaises
  <2> QED BY <1>7, <2>1, <2>2, <2>3 DEF ReadRaises
<1> QED BY <1>1, <1>2, <1>3, <1>4, <1>5, <1>6, <1>7 DEF ListenerNext

\* Every variable keeps its type, wherever the reader stands when its owner acts.
THEOREM ListenerTypeCorrect == ListenerSpec => []ListenerTypeOK
<1> QED BY ListenerTypeInit, ListenerTypeNext, PTL DEF ListenerSpec

-----------------------------------------------------------------------------
LEMMA OneReaderInit == ListenerInit => OneReader
  BY DEF ListenerInit, OneReader, Alive, Readers, None

LEMMA OneReaderNext == ListenerTypeOK /\ OneReader /\ [ListenerNext]_listenerVars => OneReader'
<1> SUFFICES ASSUME ListenerTypeOK, OneReader, [ListenerNext]_listenerVars PROVE OneReader'
  OBVIOUS
<1> USE DEF ListenerTypeOK, OneReader, Alive, listener, stream, counters
<1>1. CASE Start
  <2>1. starts' \in Readers
    BY <1>1, ListenerAssumption DEF Start, Readers
  <2>2. CASE thread # None
    BY <1>1, <2>2 DEF Start
  <2>3. CASE thread = None
    <3>1. /\ \A r \in Readers \ {starts'} : reader'[r] = reader[r]
          /\ reader'[starts'].pc = "check" /\ thread' = starts'
      BY <1>1, <2>1, <2>3 DEF Start
    <3>2. \A r \in Readers : ~Alive(r)
      BY <2>3 DEF Readers, None
    <3> QED BY <2>1, <3>1, <3>2
  <2> QED BY <2>2, <2>3
<1>2. CASE Stop \/ ClearAbortEvent \/ SetAbortEvent \/ Close \/ UNCHANGED listenerVars
  BY <1>2 DEF Stop, ClearAbortEvent, SetAbortEvent, Close, listenerVars
<1>3. ASSUME NEW r \in Readers, Reads(r) PROVE OneReader'
  <2>1. CASE CheckStop(r) \/ Verify(r) \/ ReadEnd(r) \/ Act(r)
    BY <1>3, <2>1 DEF CheckStop, Verify, ReadEnd, Act, Goto
  <2>2. CASE ReadLine(r)
    BY <1>3, <2>2 DEF ReadLine
  <2>3. CASE Leave(r)
    BY <1>3, <2>3 DEF Leave, Goto, Readers, None
  <2> QED BY <1>3, <2>1, <2>2, <2>3 DEF Reads
<1>4. ASSUME NEW abort \in BOOLEAN, Type(abort) PROVE OneReader'
  BY <1>4 DEF Type
<1>5. ASSUME NEW r \in Readers, ReadRaises(r) PROVE OneReader'
  BY <1>5 DEF ReadRaises, Goto
<1> QED BY <1>1, <1>2, <1>3, <1>4, <1>5 DEF ListenerNext

\* The thread that the listener holds reads, and it alone: start() makes a new one
\* only when the old one is gone.
THEOREM ReaderIsSingle == ListenerSpec => []OneReader
<1> QED BY OneReaderInit, OneReaderNext, ListenerTypeCorrect, PTL DEF ListenerSpec

-----------------------------------------------------------------------------
\* Once stop() has returned no event is registered, until start() is called again:
\* what makes a reader harmless that is already past its check.
Withdrawn == owner # "running" => event = None

LEMMA WithdrawnInit == ListenerInit => Withdrawn
  BY DEF ListenerInit, Withdrawn

LEMMA WithdrawnNext == Withdrawn /\ [ListenerNext]_listenerVars => Withdrawn'
<1> SUFFICES ASSUME Withdrawn, [ListenerNext]_listenerVars PROVE Withdrawn'
  OBVIOUS
<1> USE DEF Withdrawn, listener, stream, counters
<1>1. CASE Start \/ Stop \/ SetAbortEvent \/ ClearAbortEvent \/ Close \/ UNCHANGED listenerVars
  BY <1>1 DEF Start, Stop, SetAbortEvent, ClearAbortEvent, Close, listenerVars
<1>2. ASSUME NEW r \in Readers, Reads(r) \/ ReadRaises(r) PROVE Withdrawn'
  BY <1>2 DEF Reads, ReadRaises, CheckStop, ReadLine, ReadEnd, Verify, Act, Leave
<1>3. ASSUME NEW abort \in BOOLEAN, Type(abort) PROVE Withdrawn'
  BY <1>3 DEF Type
<1> QED BY <1>1, <1>2, <1>3 DEF ListenerNext

\* A stopped listener signals nothing, whatever line its reader still holds.
THEOREM StopIsSilent == ListenerSpec => StoppedIsSilent
<1>1. ASSUME Withdrawn, [ListenerNext]_listenerVars
      PROVE  [owner = "stopped" => signalled' = signalled]_listenerVars
  <2> SUFFICES ASSUME owner = "stopped" PROVE signalled' = signalled
    OBVIOUS
  <2>0. event = None
    BY <1>1 DEF Withdrawn
  <2> USE DEF listener, stream, counters
  <2>1. CASE Start \/ Stop \/ SetAbortEvent \/ ClearAbortEvent \/ Close \/ UNCHANGED listenerVars
    BY <2>1 DEF Start, Stop, SetAbortEvent, ClearAbortEvent, Close, listenerVars
  <2>2. ASSUME NEW r \in Readers, Reads(r) PROVE signalled' = signalled
    <3>1. CASE Act(r)
      BY <2>0, <3>1 DEF Act
    <3>2. CASE CheckStop(r) \/ ReadLine(r) \/ ReadEnd(r) \/ Verify(r) \/ Leave(r)
      BY <3>2 DEF CheckStop, ReadLine, ReadEnd, Verify, Leave
    <3> QED BY <2>2, <3>1, <3>2 DEF Reads
  <2>3. ASSUME NEW abort \in BOOLEAN, Type(abort) PROVE signalled' = signalled
    BY <2>3 DEF Type
  <2>4. ASSUME NEW r \in Readers, ReadRaises(r) PROVE signalled' = signalled
    BY <2>4 DEF ReadRaises
  <2> QED BY <1>1, <2>1, <2>2, <2>3, <2>4 DEF ListenerNext
<1> QED BY <1>1, WithdrawnInit, WithdrawnNext, PTL DEF ListenerSpec, StoppedIsSilent

=============================================================================
