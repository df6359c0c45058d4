---------------------------- MODULE ServerSelection ----------------------------
(***************************************************************************)
(* The round-robin of deploy/engine.py, _select_servers_for_stage.  The    *)
(* eligible servers come sorted by region and id, one queue per region;    *)
(* each turn of the loop takes the first server of one region.  A server   *)
(* is its region and its place in that region's queue; a region is its     *)
(* number in the order of their names, so that the loop's list of regions, *)
(* which is always in that order, is the set of them.                      *)
(*                                                                         *)
(* DeploymentEngine leaves open which servers a stage selects              *)
(* (Selections): ReturnsASelection is what it relies on.                   *)
(***************************************************************************)
EXTENDS Integers, Sequences, FiniteSets, SequencesExt

CONSTANTS
    RegionCount,    \* regions, in the order of their names
    MaxPerRegion,   \* bound: eligible servers in a region
    MaxCount        \* bound: servers the stage needs

ASSUME SelectionAssumption ==
    RegionCount \in Nat /\ MaxPerRegion \in Nat /\ MaxCount \in Nat \ {0}

VARIABLES
    offered,    \* how many eligible servers each region has
    count,      \* the parameter count
    by_region,  \* the queues
    regions,    \* the regions the loop still goes around, a set
    region_idx,
    selected,
    returned

request == <<offered, count>>
vars == <<request, by_region, regions, region_idx, selected, returned>>

Region == 1..RegionCount
Eligible == UNION {{r} \X (1..offered[r]) : r \in Region}

\* Mutant: servers that are not eligible are queued too.
QueueOfAll(r) == [i \in 1..MaxPerRegion |-> <<r, i>>]

Queue(r) == [i \in 1..offered[r] |-> <<r, i>>]

\* _execute_stage asks for a server at least.
Init ==
    /\ offered \in [Region -> 0..MaxPerRegion]
    /\ count \in 1..MaxCount
    /\ by_region = [r \in Region |-> Queue(r)]
    /\ regions = {r \in Region : offered[r] > 0}
    /\ region_idx = 0
    /\ selected = << >>
    /\ returned = FALSE

Left == {r \in Region : by_region[r] # << >>}

Below(r) == {q \in regions : q < r}

\* regions[idx % len(regions)]: the region that has so many others before it.
At(idx) == CHOOSE r \in regions : Cardinality(Below(r)) = idx % Cardinality(regions)

\* Mutant: a region leaves the loop once a server of it is taken.
TakeOncePerRegion ==
    /\ ~returned /\ Len(selected) < count /\ regions # {}
    /\ LET r == At(region_idx)
       IN  /\ selected' = Append(selected, Head(by_region[r]))
           /\ by_region' = [by_region EXCEPT ![r] = Tail(@)]
           /\ regions' = regions \ {r}
    /\ region_idx' = region_idx + 1
    /\ UNCHANGED <<request, returned>>

\* Mutant: the index stays on a region until it has run dry.
TakeInPlace ==
    /\ ~returned /\ Len(selected) < count /\ regions # {}
    /\ LET r == At(region_idx)
       IN  /\ selected' = Append(selected, Head(by_region[r]))
           /\ by_region' = [by_region EXCEPT ![r] = Tail(@)]
    /\ regions' = {r \in regions : by_region'[r] # << >>}
    /\ region_idx' = region_idx
    /\ UNCHANGED <<request, returned>>

\* A region whose queue has run dry leaves the loop, and the index is not moved
\* back for it.
Take ==
    /\ ~returned /\ Len(selected) < count /\ regions # {}
    /\ LET r == At(region_idx)
       IN  /\ selected' = Append(selected, Head(by_region[r]))
           /\ by_region' = [by_region EXCEPT ![r] = Tail(@)]
    /\ regions' = {r \in regions : by_region'[r] # << >>}
    /\ region_idx' = region_idx + 1
    /\ UNCHANGED <<request, returned>>

Return ==
    /\ ~returned
    /\ Len(selected) >= count \/ regions = {}
    /\ returned' = TRUE
    /\ UNCHANGED <<request, by_region, regions, region_idx, selected>>

Next == Take \/ Return

Spec == Init /\ [][Next]_vars

-----------------------------------------------------------------------------
\* The type of every variable.
TypeOK ==
    /\ offered \in [Region -> 0..MaxPerRegion]
    /\ count \in 1..MaxCount
    /\ DOMAIN by_region = Region
    /\ \A r \in Region : by_region[r] \in Seq({r} \X (1..offered[r]))
    /\ regions \subseteq Region /\ region_idx \in Nat
    /\ selected \in Seq(Eligible)
    /\ returned \in BOOLEAN

Taken(r) == Cardinality({i \in DOMAIN selected : selected[i][1] = r})

\* What the engine relies on: whatever the regions' sizes, and wherever the index
\* stands when one runs dry, the call returns distinct eligible servers, as many
\* as asked for, or all of them.
ReturnsASelection ==
    returned =>
        LET chosen == ToSet(selected)
        IN  /\ Cardinality(chosen) = Len(selected)
            /\ \/ Cardinality(chosen) = count
               \/ Cardinality(chosen) < count /\ chosen = Eligible

\* The rotation is even: between regions that still have servers, the counts
\* differ by one, and by one more at most for every region that has run dry (its
\* removal moves the index past a neighbour).
SpreadIsEven ==
    LET dry == {r \in Region : offered[r] > 0 /\ r \notin Left}
    IN  \A r, q \in Left : Taken(r) - Taken(q) <= 1 + Cardinality(dry)

=============================================================================
