------------------------- MODULE HealthAnalysis_proofs -------------------------
(***************************************************************************)
(* Proofs about the health check and the automatic quarantine, for any     *)
(* number of callers, servers and regions, any thresholds, any chaos.      *)
(***************************************************************************)
EXTENDS HealthAnalysis, FiniteSetTheorems, WellFoundedInduction, TLAPS

(***************************************************************************)
(* The inductive invariant.  First, a call under way has seen the          *)
(* condition that every server is in, and a frame of the quarantine knows  *)
(* the regions it has yet to look at.                                      *)
(***************************************************************************)
Names == Callers \cup {"check"}

\* The health check's history is apart from those of the quarantine's callers.
LEMMA CallersApart == "check" \notin Callers /\ "engine" \in Callers
  BY HealthAssumption DEF Callers

CurrentSeen ==
    \A c \in Names : Underway(c) =>
        \A s \in Servers : SeenBy(c, ConditionOf(servers[s])) \in seen[c][s]

FrameFits(frame) ==
    frame.pc # "idle" =>
        \E r \in Grouped :
            /\ frame.region = {r}
            /\ frame.todo \subseteq Grouped \ {r}
            /\ frame.left \subseteq InRegion(r)
            /\ frame.pc = "count" <=> frame.left # {}

FramesFit == CurrentSeen /\ \A c \in Callers : FrameFits(auto[c])

(***************************************************************************)
(* Then what the counts of a health check say of the servers read so far,  *)
(* by what a call has seen of them, its view.                              *)
(***************************************************************************)
Always(view, conditions) == {s \in Servers : view[s] \subseteq conditions}

Many(frame, view, conditions) ==
    Cardinality((Servers \ frame.left) \cap Always(view, conditions))

CheckFits(frame, view) ==
    frame.pc = "scan" =>
        /\ frame.limits \in Limits
        /\ frame.degraded >= Many(frame, view, {"degraded"})
        /\ frame.failed >= Many(frame, view, {"failed"})
        /\ frame.unhealthy >= Many(frame, view, Sick)
        /\ Always(view, {"calm"}) = Servers =>
              /\ frame.degraded = 0 /\ frame.failed = 0 /\ frame.unhealthy = 0
              /\ frame.cpu <= 70 * Cardinality(Servers \ frame.left)
              /\ frame.memory <= 70 * Cardinality(Servers \ frame.left)

(***************************************************************************)
(* And what a quarantine's counts say of the region it looks at, and its   *)
(* report of those it has looked at.  safe: the regions quarantined, or    *)
(* released since the call began.                                          *)
(***************************************************************************)
Size(r) == Cardinality(InRegion(r))

Settled(frame, view, safe, r) ==
    100 * Cardinality(InRegion(r) \cap Always(view, {"degraded"})) >= frame.threshold * Size(r)
        => r \in safe

Justified(frame, view, r) ==
    100 * Cardinality(InRegion(r) \ Always(view, {"calm"})) >= frame.threshold * Size(r)

Reported(frame, view, safe) ==
    /\ \A r \in Grouped \ (frame.todo \cup frame.region) : Settled(frame, view, safe, r)
    /\ frame.reported \subseteq Grouped \ (frame.todo \cup frame.region)
    /\ \A r \in frame.reported : r \in safe /\ Justified(frame, view, r)

CountFits(frame, view, r) ==
    LET counted == InRegion(r) \ frame.left
    IN  /\ frame.unstable >= Cardinality(counted \cap Always(view, {"degraded"}))
        /\ frame.unstable <= Cardinality(counted \ Always(view, {"calm"}))

RegionFits(frame, view, safe) ==
    frame.pc # "idle" =>
        /\ Reported(frame, view, safe)
        /\ frame.pc = "count" => \A r \in frame.region : CountFits(frame, view, r)
        /\ frame.pc \in {"ask", "act"} => \A r \in frame.region : Justified(frame, view, r)

HealthInvariant ==
    /\ CheckFits(check, seen["check"])
    /\ \A c \in Callers : RegionFits(auto[c], seen[c], quarantined \cup released[c])

-----------------------------------------------------------------------------
(***************************************************************************)
(* Numbers and sets.                                                       *)
(***************************************************************************)
\* The least of some numbers is one of them: of the sets of those up to one of them,
\* one has none of the others below it.
LEMMA MinIs ==
    ASSUME NEW S \in SUBSET Nat, IsFiniteSet(S), S # {}
    PROVE  Min(S) \in S
<1> DEFINE upto == [x \in S |-> {y \in S : y =< x}]
           family == {upto[x] : x \in S}
<1>1. IsWellFoundedOn(StrictSubsetOrdering(S), SUBSET S)
  BY FS_StrictSubsetOrderingWellFounded, FS_FiniteSubsetsOfFinite
<1>2. family \subseteq SUBSET S /\ family # {}
  <2>1. \A x \in S : upto[x] \in SUBSET S
    OBVIOUS
  <2> HIDE DEF upto
  <2> QED BY <2>1
<1>3. \E M \in family : \A T \in family : ~(<<T, M>> \in StrictSubsetOrdering(S))
  <2> HIDE DEF family
  <2> QED BY <1>1, <1>2, WFMin
<1>4. PICK x \in S : \A T \in family : ~(<<T, upto[x]>> \in StrictSubsetOrdering(S))
  <2> HIDE DEF upto
  <2> QED BY <1>3
<1>5. ASSUME NEW z \in S PROVE x =< z
  <2> SUFFICES ASSUME z < x PROVE FALSE
    OBVIOUS
  <2>1. upto[z] \in SUBSET S /\ upto[x] \in SUBSET S
    OBVIOUS
  <2>2. upto[z] \subseteq upto[x]
    <3> SUFFICES ASSUME NEW y \in S, y =< z PROVE y =< x
      OBVIOUS
    <3>1. x \in Nat /\ y \in Nat /\ z \in Nat
      OBVIOUS
    <3> QED BY <3>1
  <2>3. x \in upto[x] /\ x \notin upto[z]
    <3>1. x \in Nat /\ z \in Nat
      OBVIOUS
    <3>2. x =< x /\ ~(x =< z)
      BY <3>1
    <3> QED BY <3>2
  <2>4. upto[z] \in family
    OBVIOUS
  <2> HIDE DEF upto, family
  <2>5. <<upto[z], upto[x]>> \in StrictSubsetOrdering(S)
    BY <2>1, <2>2, <2>3 DEF StrictSubsetOrdering
  <2> QED BY <1>4, <2>4, <2>5
<1> QED BY <1>5 DEF Min

LEMMA Finite ==
    ASSUME NEW T \in SUBSET Servers
    PROVE  IsFiniteSet(T) /\ Cardinality(T) \in Nat /\ T \in SUBSET Nat
  BY HealthAssumption, FS_Subset, FS_CardinalityType

LEMMA Fewer ==
    ASSUME NEW T \in SUBSET Servers, NEW U \in SUBSET T
    PROVE  Cardinality(U) <= Cardinality(T)
  BY Finite, FS_Subset

\* Counting one more.
LEMMA OneMore ==
    ASSUME NEW T \in SUBSET Servers, NEW s \in Servers, s \notin T
    PROVE  Cardinality(T \cup {s}) = Cardinality(T) + 1
  BY Finite, FS_AddElement

LEMMA OneMoreOf ==
    ASSUME NEW T \in SUBSET Servers, NEW s \in Servers, s \notin T, NEW X, s \in X
    PROVE  /\ Cardinality((T \cup {s}) \cap X) = Cardinality(T \cap X) + 1
           /\ (T \cup {s}) \ X = T \ X
<1>1. (T \cup {s}) \cap X = (T \cap X) \cup {s} /\ (T \cup {s}) \ X = T \ X
  OBVIOUS
<1>2. T \cap X \in SUBSET Servers /\ s \notin T \cap X
  OBVIOUS
<1>3. Cardinality((T \cap X) \cup {s}) = Cardinality(T \cap X) + 1
  BY <1>2, OneMore
<1> QED BY <1>1, <1>3

LEMMA OneMoreBut ==
    ASSUME NEW T \in SUBSET Servers, NEW s \in Servers, s \notin T, NEW X, s \notin X
    PROVE  /\ Cardinality((T \cup {s}) \ X) = Cardinality(T \ X) + 1
           /\ (T \cup {s}) \cap X = T \cap X
<1>1. (T \cup {s}) \ X = (T \ X) \cup {s} /\ (T \cup {s}) \cap X = T \cap X
  OBVIOUS
<1>2. T \ X \in SUBSET Servers /\ s \notin T \ X
  OBVIOUS
<1>3. Cardinality((T \ X) \cup {s}) = Cardinality(T \ X) + 1
  BY <1>2, OneMore
<1> QED BY <1>1, <1>3

\* A count that lies between the servers that must be counted and those that may be still
\* does with one more server, counted or not.
LEMMA OneCounted ==
    ASSUME NEW T \in SUBSET Servers, NEW s \in Servers, s \notin T, NEW X, NEW Y, NEW n \in Nat,
           NEW one \in {0, 1}, s \in X => one = 1, one = 1 => s \notin Y,
           n >= Cardinality(T \cap X), n <= Cardinality(T \ Y)
    PROVE  /\ n + one >= Cardinality((T \cup {s}) \cap X)
           /\ n + one <= Cardinality((T \cup {s}) \ Y)
<1>1. Cardinality(T \cap X) \in Nat /\ Cardinality(T \ Y) \in Nat
  <2>1. T \cap X \in SUBSET Servers /\ T \ Y \in SUBSET Servers
    OBVIOUS
  <2> QED BY <2>1, Finite
<1>2. n + one >= Cardinality((T \cup {s}) \cap X)
  <2>1. CASE s \in X
    <3>1. Cardinality((T \cup {s}) \cap X) = Cardinality(T \cap X) + 1
      BY <2>1, OneMoreOf
    <3> QED BY <1>1, <2>1, <3>1
  <2>2. CASE s \notin X
    <3>1. (T \cup {s}) \cap X = T \cap X
      BY <2>2
    <3> QED BY <1>1, <3>1
  <2> QED BY <2>1, <2>2
<1>3. n + one <= Cardinality((T \cup {s}) \ Y)
  <2>1. CASE s \notin Y
    <3>1. Cardinality((T \cup {s}) \ Y) = Cardinality(T \ Y) + 1
      BY <2>1, OneMoreBut
    <3> QED BY <1>1, <3>1
  <2>2. CASE s \in Y
    <3>1. (T \cup {s}) \ Y = T \ Y
      BY <2>2
    <3> QED BY <1>1, <2>2, <3>1
  <2> QED BY <2>1, <2>2
<1> QED BY <1>2, <1>3

LEMMA Parts ==
    ASSUME NEW T \in SUBSET Servers, NEW X
    PROVE  Cardinality(T) = Cardinality(T \cap X) + Cardinality(T \ X)
<1>1. (T \cap X) \cup (T \ X) = T /\ (T \cap X) \cap (T \ X) = {}
  OBVIOUS
<1>2. IsFiniteSet(T \cap X) /\ IsFiniteSet(T \ X)
  BY Finite
<1>3. Cardinality((T \cap X) \cup (T \ X)) =
          Cardinality(T \cap X) + Cardinality(T \ X) - Cardinality((T \cap X) \cap (T \ X))
  BY <1>2, FS_Union
<1>4. Cardinality({}) = 0
  BY FS_EmptySet
<1>5. /\ Cardinality(T \cap X) \in Nat /\ Cardinality(T \ X) \in Nat
  BY Finite
<1>6. Cardinality((T \cap X) \cap (T \ X)) = 0
  BY <1>1, <1>4
<1>7. Cardinality((T \cap X) \cup (T \ X)) = Cardinality(T)
  BY <1>1
<1> QED BY <1>3, <1>5, <1>6, <1>7

-----------------------------------------------------------------------------
(***************************************************************************)
(* Servers and their conditions.                                           *)
(***************************************************************************)
LEMMA ConditionIs ==
    ASSUME NEW server \in Server
    PROVE  /\ ConditionOf(server) \in Condition
           /\ ConditionOf(server) = "degraded" <=> server.status = "degraded"
           /\ ConditionOf(server) = "failed" <=> server.status = "failed"
           /\ ConditionOf(server) = "spiked" => server.load \in {Injected(k) : k \in Kind}
           /\ ConditionOf(server) = "calm" => /\ server.status \in {"healthy", "updating"}
                                              /\ server.load \in Baseline
<1>1. server.status \in ServerStatus /\ server.load \in Load
  BY DEF Server
<1>2. CASE server.status \in {"degraded", "failed"}
  <2>1. ConditionOf(server) = server.status
    BY <1>2 DEF ConditionOf
  <2> QED BY <1>2, <2>1 DEF Condition
<1>3. CASE server.status \notin {"degraded", "failed"} /\ server.load \notin Baseline
  <2>1. ConditionOf(server) = "spiked"
    BY <1>3 DEF ConditionOf
  <2> QED BY <1>1, <1>3, <2>1 DEF Condition, Load
<1>4. CASE server.status \notin {"degraded", "failed"} /\ server.load \in Baseline
  <2>1. ConditionOf(server) = "calm"
    BY <1>4 DEF ConditionOf
  <2> QED BY <1>1, <1>4, <2>1 DEF Condition, ServerStatus
<1> QED BY <1>2, <1>3, <1>4

LEMMA LoadIs ==
    ASSUME NEW load \in Load
    PROVE  /\ load.cpu \in Nat /\ load.memory \in Nat
           /\ load \in Baseline => load.cpu <= 70 /\ load.memory <= 70
           /\ load \in {Injected(k) : k \in Kind} => load.cpu > 85
  BY DEF Load, Baseline, Injected, Kind, At

\* evaluate_server_health finds a sick server sick, and a calm one well, whatever the
\* figures drawn for it.
LEMMA EvaluationIs ==
    ASSUME NEW server \in Server, NEW passed \in Evaluations(server)
    PROVE  /\ passed \in BOOLEAN
           /\ ConditionOf(server) \in Sick => ~passed
           /\ ConditionOf(server) = "calm" => passed
<1>1. PICK error \in ErrorRate(server.status) : \E latency \in Latency(server.status) :
          passed = Passed(server, error, latency)
  BY DEF Evaluations
<1>2. PICK latency \in Latency(server.status) : passed = Passed(server, error, latency)
  BY <1>1
<1>3. server.status \in ServerStatus /\ server.load \in Load
  BY DEF Server
<1>4. passed \in BOOLEAN
  <2>1. Passed(server, error, latency) \in BOOLEAN
    BY DEF Passed
  <2> QED BY <1>2, <2>1
<1>5. ASSUME ConditionOf(server) \in {"degraded", "failed"} PROVE passed = FALSE
  <2>1. error > 500
    BY <1>5, ConditionIs DEF ErrorRate
  <2>2. Passed(server, error, latency) = FALSE
    BY <2>1, <1>3 DEF Passed, ErrorRate, ServerStatus
  <2> QED BY <1>2, <2>2
<1>6. ASSUME ConditionOf(server) = "spiked" PROVE passed = FALSE
  <2>1. ~(server.load.cpu <= 85)
    BY <1>3, <1>6, ConditionIs, LoadIs
  <2>2. Passed(server, error, latency) = FALSE
    BY <2>1 DEF Passed
  <2> QED BY <1>2, <2>2
<1>7. ASSUME ConditionOf(server) = "calm" PROVE passed = TRUE
  <2>1. /\ server.status \in {"healthy", "updating"} /\ server.load \in Baseline
        /\ server.load.cpu <= 70 /\ server.load.memory <= 70
        /\ server.load.cpu \in Nat /\ server.load.memory \in Nat
    BY <1>3, <1>7, ConditionIs, LoadIs
  <2>2. server.load.cpu <= 85 /\ server.load.memory <= 90 /\ error <= 500 /\ latency <= 500
    BY <2>1 DEF ErrorRate, Latency
  <2>3. Passed(server, error, latency) = TRUE
    BY <2>1, <2>2 DEF Passed
  <2> QED BY <1>2, <2>3
<1> QED BY <1>4, <1>5, <1>6, <1>7 DEF Sick

LEMMA SeenByIs ==
    ASSUME NEW server \in Server, NEW c \in Names
    PROVE  /\ SeenBy(c, ConditionOf(server)) \in Condition
           /\ c = "check" => SeenBy(c, ConditionOf(server)) = ConditionOf(server)
           /\ c # "check" => /\ server.status \in {"degraded", "failed"} =>
                                    SeenBy(c, ConditionOf(server)) = "degraded"
                             /\ server.status \notin {"degraded", "failed"} =>
                                    SeenBy(c, ConditionOf(server)) = "calm"
  BY ConditionIs DEF SeenBy, Condition

-----------------------------------------------------------------------------
(***************************************************************************)
(* The type invariant, with what the frames say of themselves.             *)
(***************************************************************************)
\* What a change of a server does: the calls under way see it, and forget nothing.
LEMMA BecomeTypes ==
    ASSUME TypeOK, CurrentSeen, NEW s \in Servers, NEW server \in Server, Become(s, server)
    PROVE  /\ servers' \in [Servers -> Server]
           /\ seen' \in [Names -> [Servers -> SUBSET Condition]]
           /\ \A c \in Names, x \in Servers : seen[c][x] \subseteq seen'[c][x]
           /\ \A c \in Names : Underway(c) =>
                 \A x \in Servers : SeenBy(c, ConditionOf(servers'[x])) \in seen'[c][x]
<1>1. servers \in [Servers -> Server] /\ servers' = [servers EXCEPT ![s] = server]
  BY DEF TypeOK, Become
<1>2. servers' \in [Servers -> Server]
  BY <1>1
<1>3. seen \in [Names -> [Servers -> SUBSET Condition]]
  BY DEF TypeOK, Names
<1>4. seen' = [c \in Names |->
                 IF Underway(c) THEN [seen[c] EXCEPT ![s] = @ \cup {SeenBy(c, ConditionOf(server))}]
                 ELSE seen[c]]
  BY <1>3 DEF Become
<1>5. ASSUME NEW c \in Names
      PROVE  /\ seen'[c] \in [Servers -> SUBSET Condition]
             /\ \A x \in Servers : seen[c][x] \subseteq seen'[c][x]
             /\ Underway(c) => SeenBy(c, ConditionOf(server)) \in seen'[c][s]
  <2>1. SeenBy(c, ConditionOf(server)) \in Condition
    BY SeenByIs
  <2>2. seen[c] \in [Servers -> SUBSET Condition]
    BY <1>3
  <2>3. CASE Underway(c)
    <3>1. seen'[c] = [seen[c] EXCEPT ![s] = @ \cup {SeenBy(c, ConditionOf(server))}]
      BY <1>4, <2>3
    <3> QED BY <2>1, <2>2, <3>1
  <2>4. CASE ~Underway(c)
    <3>1. seen'[c] = seen[c]
      BY <1>4, <2>4
    <3> QED BY <2>2, <2>4, <3>1
  <2> QED BY <2>3, <2>4
<1>6. seen' \in [Names -> [Servers -> SUBSET Condition]]
  BY <1>4, <1>5
<1>7. ASSUME NEW c \in Names, Underway(c), NEW x \in Servers
      PROVE  SeenBy(c, ConditionOf(servers'[x])) \in seen'[c][x]
  <2>1. CASE x = s
    BY <1>1, <1>5, <1>7, <2>1
  <2>2. CASE x # s
    <3>1. servers'[x] = servers[x]
      BY <1>1, <2>2
    <3>2. SeenBy(c, ConditionOf(servers[x])) \in seen[c][x]
      BY <1>7 DEF CurrentSeen
    <3> QED BY <1>5, <3>1, <3>2
  <2> QED BY <2>1, <2>2
<1> QED BY <1>2, <1>5, <1>6, <1>7

\* Onward returns, or comes to a region it has not looked at, which has servers.
LEMMA OnwardIs ==
    ASSUME NEW frame \in AutoCheck, frame.todo \subseteq Grouped, frame.todo # {}
    PROVE  \E r \in frame.todo :
              /\ Onward(frame) = [frame EXCEPT !.pc = "count", !.todo = @ \ {r}, !.region = {r},
                                               !.left = InRegion(r), !.unstable = 0]
              /\ InRegion(r) # {}
<1> DEFINE coming == {s \in Servers : RegionOf[s] \in frame.todo}
<1>1. coming \in SUBSET Servers /\ coming # {}
  BY DEF Grouped
<1>2. IsFiniteSet(coming) /\ coming \in SUBSET Nat
  BY <1>1, Finite
<1>3. Min(coming) \in coming
  <2> HIDE DEF coming
  <2> QED BY <1>1, <1>2, MinIs
<1> DEFINE r == RegionOf[Min(coming)]
<1>4. r \in frame.todo /\ Min(coming) \in Servers
  BY <1>3
<1>5. InRegion(r) # {}
  BY <1>4 DEF InRegion
<1>6. Onward(frame) = [frame EXCEPT !.pc = "count", !.todo = @ \ {r}, !.region = {r},
                                    !.left = InRegion(r), !.unstable = 0]
  BY DEF Onward
<1> HIDE DEF r
<1> QED BY <1>4, <1>5, <1>6

LEMMA OnwardTypes ==
    ASSUME NEW frame \in AutoCheck, frame.todo \subseteq Grouped
    PROVE  Onward(frame) \in AutoCheck /\ FrameFits(Onward(frame))
<1>1. CASE frame.todo = {}
  <2>1. Onward(frame) = NoAuto
    BY <1>1 DEF Onward
  <2>2. NoAuto \in AutoCheck
    BY DEF NoAuto, AutoCheck
  <2> QED BY <2>1, <2>2 DEF NoAuto, FrameFits
<1>2. CASE frame.todo # {}
  <2>1. PICK r \in frame.todo :
              /\ Onward(frame) = [frame EXCEPT !.pc = "count", !.todo = @ \ {r}, !.region = {r},
                                               !.left = InRegion(r), !.unstable = 0]
              /\ InRegion(r) # {}
    BY <1>2, OnwardIs
  <2>2. r \in Grouped /\ r \in Regions /\ InRegion(r) \in SUBSET Servers
    BY <2>1, HealthAssumption DEF InRegion, AutoCheck
  <2>3. Onward(frame) \in AutoCheck
    <3>1. /\ frame.threshold \in OperatorThresholds \cup {30}
          /\ frame.todo \ {r} \in SUBSET Regions /\ frame.reported \in SUBSET Regions
      BY DEF AutoCheck
    <3>2. Onward(frame) = [pc |-> "count", threshold |-> frame.threshold,
                           todo |-> frame.todo \ {r}, region |-> {r},
                           left |-> InRegion(r), unstable |-> 0, reported |-> frame.reported]
      BY <2>1 DEF AutoCheck
    <3> QED BY <2>2, <3>1, <3>2 DEF AutoCheck
  <2>4. /\ Onward(frame).region = {r} /\ Onward(frame).todo = frame.todo \ {r}
        /\ Onward(frame).left = InRegion(r) /\ Onward(frame).pc = "count"
    BY <2>1 DEF AutoCheck
  <2>5. Onward(frame).todo \subseteq Grouped \ {r}
    BY <2>4
  <2> QED BY <2>1, <2>2, <2>3, <2>4, <2>5 DEF FrameFits
<1> QED BY <1>1, <1>2

\* What a step of a quarantine leaves alone.
LEMMA GoesTypes ==
    ASSUME TypeOK, FramesFit, NEW c \in Callers, NEW frame \in AutoCheck,
           FrameFits(frame), auto[c].pc # "idle", Goes(c, frame),
           UNCHANGED <<servers, check>>
    PROVE  /\ auto' \in [Callers -> AutoCheck] /\ auto'[c] = frame
           /\ seen' \in [Names -> [Servers -> SUBSET Condition]]
           /\ released' \in [Callers -> SUBSET Regions]
           /\ \A d \in Callers \ {c} : auto'[d] = auto[d] /\ released'[d] = released[d]
           /\ \A d \in Names \ {c} : seen'[d] = seen[d]
           /\ frame.pc # "idle" => seen' = seen /\ released' = released
           /\ FramesFit'
<1>1. /\ auto \in [Callers -> AutoCheck] /\ released \in [Callers -> SUBSET Regions]
      /\ seen \in [Names -> [Servers -> SUBSET Condition]]
  BY DEF TypeOK, Names
<1>2. auto' = [auto EXCEPT ![c] = frame]
  BY DEF Goes
<1>3. /\ auto' \in [Callers -> AutoCheck] /\ auto'[c] = frame
      /\ \A d \in Callers \ {c} : auto'[d] = auto[d]
  BY <1>1, <1>2
<1>4. Unseen \in [Servers -> SUBSET Condition] /\ c \in Names
  BY DEF Unseen, Names
<1>5. /\ seen' \in [Names -> [Servers -> SUBSET Condition]]
      /\ \A d \in Names \ {c} : seen'[d] = seen[d]
      /\ frame.pc # "idle" => seen' = seen
  <2>1. CASE frame.pc = "idle"
    <3>1. seen' = [seen EXCEPT ![c] = Unseen]
      BY <2>1 DEF Goes
    <3> QED BY <1>1, <1>4, <2>1, <3>1
  <2>2. CASE frame.pc # "idle"
    BY <1>1, <2>2 DEF Goes
  <2> QED BY <2>1, <2>2
<1>6. /\ released' \in [Callers -> SUBSET Regions]
      /\ \A d \in Callers \ {c} : released'[d] = released[d]
      /\ frame.pc # "idle" => released' = released
  <2>1. CASE frame.pc = "idle"
    <3>1. released' = [released EXCEPT ![c] = {}]
      BY <2>1 DEF Goes
    <3> QED BY <1>1, <2>1, <3>1
  <2>2. CASE frame.pc # "idle"
    BY <1>1, <2>2 DEF Goes
  <2> QED BY <2>1, <2>2
<1>7. CurrentSeen'
  <2> SUFFICES ASSUME NEW d \in Names, Underway(d)', NEW x \in Servers
               PROVE  SeenBy(d, ConditionOf(servers'[x])) \in seen'[d][x]
    BY DEF CurrentSeen
  <2>1. d # c \/ frame.pc # "idle"
    BY <1>3, <1>4, CallersApart DEF Underway, Names
  <2>2. seen'[d] = seen[d]
    BY <1>5, <2>1
  <2>3. Underway(d)
    <3>1. CASE d = "check"
      BY <3>1 DEF Underway
    <3>2. CASE d = c
      BY <3>2, CallersApart DEF Underway
    <3>3. CASE d \in Callers /\ d # c
      BY <1>3, <3>3, CallersApart DEF Underway
    <3> QED BY <3>1, <3>2, <3>3 DEF Names
  <2>4. SeenBy(d, ConditionOf(servers[x])) \in seen[d][x]
    BY <2>3 DEF FramesFit, CurrentSeen
  <2> QED BY <2>2, <2>4
<1>8. \A d \in Callers : FrameFits(auto'[d])
  BY <1>3 DEF FramesFit
<1> QED BY <1>3, <1>5, <1>6, <1>7, <1>8 DEF FramesFit

LEMMA NowIs ==
    ASSUME TypeOK, NEW c \in Names
    PROVE  /\ Now(c) \in [Servers -> SUBSET Condition]
           /\ \A s \in Servers : SeenBy(c, ConditionOf(servers[s])) \in Now(c)[s]
<1>1. \A s \in Servers : SeenBy(c, ConditionOf(servers[s])) \in Condition
  BY SeenByIs DEF TypeOK
<1> QED BY <1>1 DEF Now

LEMMA NoFrames ==
    NoCheck \in Check /\ NoAuto \in AutoCheck /\ NoChaos \in Chaos
<1>1. NoLimits \in Limits \cup {NoLimits}
  OBVIOUS
<1>2. NoCheck \in Check
  BY <1>1 DEF NoCheck, Check
<1>3. NoAuto \in AutoCheck /\ NoChaos \in Chaos
  BY DEF NoAuto, AutoCheck, NoChaos, Chaos, Kind, ServerStatus
<1> QED BY <1>2, <1>3

LEMMA TypeInit == Init => TypeOK /\ FramesFit
<1> SUFFICES ASSUME Init PROVE TypeOK /\ FramesFit
  OBVIOUS
<1>1. servers \in [Servers -> Server]
  <2>1. PICK load \in Baseline : servers = [s \in Servers |-> [status |-> "healthy", load |-> load]]
    BY DEF Init
  <2>2. [status |-> "healthy", load |-> load] \in Server
    BY DEF Server, ServerStatus, Load
  <2> QED BY <2>1, <2>2
<1>2. check \in Check /\ chaos \in Chaos /\ auto \in [Callers -> AutoCheck]
  BY NoFrames DEF Init
<1>3. /\ seen \in [Callers \cup {"check"} -> [Servers -> SUBSET Condition]]
      /\ released \in [Callers -> SUBSET Regions]
  BY DEF Init, Unseen
<1>4. quarantined = {} /\ injections \in 0..MaxInjections /\ changes \in 0..MaxChanges
  BY HealthAssumption DEF Init
<1>5. \A c \in Names : ~Underway(c)
  BY DEF Init, Underway, Names, NoCheck, NoAuto
<1>6. \A c \in Callers : FrameFits(auto[c])
  BY DEF Init, NoAuto, FrameFits
<1> QED BY <1>1, <1>2, <1>3, <1>4, <1>5, <1>6 DEF TypeOK, FramesFit, CurrentSeen

\* Evaluate reads the next server and counts it as what it is.
LEMMA EvaluateIs ==
    ASSUME TypeOK, NEW s \in Servers, Evaluate(s)
    PROVE  /\ s \in check.left /\ check' \in Check /\ check'.pc = "scan"
           /\ check'.limits = check.limits /\ check'.left = check.left \ {s}
           /\ check'.degraded = check.degraded + OneIf(servers[s].status = "degraded")
           /\ check'.failed = check.failed + OneIf(servers[s].status = "failed")
           /\ \E passed \in Evaluations(servers[s]) :
                 check'.unhealthy = check.unhealthy + OneIf(~passed)
           /\ check'.cpu = check.cpu + servers[s].load.cpu
           /\ check'.memory = check.memory + servers[s].load.memory
<1>1. check \in Check /\ check.pc = "scan" /\ servers[s] \in Server
  BY DEF TypeOK, Evaluate
<1>2. s \in check.left
  <2>1. check.left \in SUBSET Servers /\ check.left # {} /\ s = Min(check.left)
    BY <1>1 DEF Evaluate, Check
  <2> QED BY <2>1, Finite, MinIs
<1>3. PICK passed \in Evaluations(servers[s]) :
          check' = [check EXCEPT !.left = @ \ {s},
                                 !.degraded = @ + OneIf(servers[s].status = "degraded"),
                                 !.failed = @ + OneIf(servers[s].status = "failed"),
                                 !.unhealthy = @ + OneIf(~passed),
                                 !.cpu = @ + servers[s].load.cpu,
                                 !.memory = @ + servers[s].load.memory]
  BY DEF Evaluate
<1>4. servers[s].load.cpu \in Nat /\ servers[s].load.memory \in Nat
  BY <1>1, LoadIs DEF Server
<1> DEFINE d == OneIf(servers[s].status = "degraded")
           f == OneIf(servers[s].status = "failed")
           u == OneIf(~passed)
<1>5. d \in Nat /\ f \in Nat /\ u \in Nat
  BY DEF OneIf
<1> HIDE DEF d, f, u
<1>6. check' = [check EXCEPT !.left = @ \ {s}, !.degraded = @ + d, !.failed = @ + f,
                             !.unhealthy = @ + u, !.cpu = @ + servers[s].load.cpu,
                             !.memory = @ + servers[s].load.memory]
  BY <1>3 DEF d, f, u
<1>7. /\ check'.pc = "scan" /\ check'.limits = check.limits
      /\ check'.left = check.left \ {s} /\ check'.degraded = check.degraded + d
      /\ check'.failed = check.failed + f /\ check'.unhealthy = check.unhealthy + u
      /\ check'.cpu = check.cpu + servers[s].load.cpu
      /\ check'.memory = check.memory + servers[s].load.memory
  BY <1>1, <1>6 DEF Check
<1>8. check' \in Check
  <2>1. /\ check.limits \in Limits \cup {NoLimits} /\ check.left \ {s} \in SUBSET Servers
        /\ check.degraded \in Nat /\ check.failed \in Nat /\ check.unhealthy \in Nat
        /\ check.cpu \in Nat /\ check.memory \in Nat
    BY <1>1 DEF Check
  <2>2. /\ check.degraded + d \in Nat /\ check.failed + f \in Nat /\ check.unhealthy + u \in Nat
        /\ check.cpu + servers[s].load.cpu \in Nat /\ check.memory + servers[s].load.memory \in Nat
    BY <1>4, <1>5, <2>1
  <2>3. check' = [pc |-> "scan", limits |-> check.limits, left |-> check.left \ {s},
                  degraded |-> check.degraded + d, failed |-> check.failed + f,
                  unhealthy |-> check.unhealthy + u, cpu |-> check.cpu + servers[s].load.cpu,
                  memory |-> check.memory + servers[s].load.memory]
    BY <1>1, <1>6 DEF Check
  <2> QED BY <2>1, <2>2, <2>3 DEF Check
<1> QED BY <1>2, <1>7, <1>8 DEF d, f, u

\* A change of a server, in terms of the types.
LEMMA ChangeTypes ==
    ASSUME TypeOK, FramesFit, NEW s \in Servers, NEW server \in Server, Become(s, server),
           UNCHANGED <<check, auto>>
    PROVE  /\ servers' \in [Servers -> Server]
           /\ seen' \in [Names -> [Servers -> SUBSET Condition]]
           /\ \A c \in Names, x \in Servers : seen[c][x] \subseteq seen'[c][x]
           /\ FramesFit'
<1>1. /\ servers' \in [Servers -> Server]
      /\ seen' \in [Names -> [Servers -> SUBSET Condition]]
      /\ \A c \in Names, x \in Servers : seen[c][x] \subseteq seen'[c][x]
      /\ \A c \in Names : Underway(c) =>
            \A x \in Servers : SeenBy(c, ConditionOf(servers'[x])) \in seen'[c][x]
  BY BecomeTypes DEF FramesFit
<1>2. \A c \in Names : Underway(c)' = Underway(c)
  BY DEF Underway
<1> QED BY <1>1, <1>2 DEF FramesFit, CurrentSeen

LEMMA ServerTypes ==
    ASSUME NEW server \in Server
    PROVE  /\ \A st \in ServerStatus : [server EXCEPT !.status = st] \in Server
           /\ \A kind \in Kind : [server EXCEPT !.load = Injected(kind)] \in Server
           /\ \A kind \in Kind : NewStatus(kind, server) \in ServerStatus
<1>1. \A kind \in Kind : Injected(kind) \in Load
  BY DEF Load
<1>2. \A kind \in Kind : NewStatus(kind, server) \in ServerStatus
  BY DEF Server, Kind, NewStatus, ServerStatus
<1> QED BY <1>1, <1>2 DEF Server

\* The frame of a quarantine once it has read one more server.
CountedIn(c, s) ==
    [auto[c] EXCEPT !.left = @ \ {s}, !.unstable = @ + OneIf(IsUnstable(s))]

\* Count reads the next server of the region, and decides with the last one.
LEMMA CountIs ==
    ASSUME TypeOK, FramesFit, NEW c \in Callers, NEW s \in Servers, Count(c, s)
    PROVE  /\ auto[c] \in AutoCheck /\ auto[c].pc = "count" /\ s \in auto[c].left
           /\ RegionOf[s] \in Grouped /\ auto[c].region = {RegionOf[s]}
           /\ auto[c].todo \subseteq Grouped \ {RegionOf[s]}
           /\ auto[c].left \subseteq InRegion(RegionOf[s])
           /\ CountedIn(c, s) \in AutoCheck /\ CountedIn(c, s).pc = "count"
           /\ CountedIn(c, s).threshold = auto[c].threshold
           /\ CountedIn(c, s).region = auto[c].region /\ CountedIn(c, s).todo = auto[c].todo
           /\ CountedIn(c, s).reported = auto[c].reported
           /\ CountedIn(c, s).left = auto[c].left \ {s}
           /\ CountedIn(c, s).unstable = auto[c].unstable + OneIf(IsUnstable(s))
           /\ \/ CountedIn(c, s).left # {} /\ Goes(c, CountedIn(c, s))
              \/ /\ CountedIn(c, s).left = {}
                 /\ ReachesThreshold(CountedIn(c, s).unstable, auto[c].threshold, RegionOf[s])
                 /\ Goes(c, [CountedIn(c, s) EXCEPT !.pc = "ask", !.unstable = 0])
              \/ /\ CountedIn(c, s).left = {}
                 /\ ~ReachesThreshold(CountedIn(c, s).unstable, auto[c].threshold, RegionOf[s])
                 /\ Goes(c, Onward(CountedIn(c, s)))
<1>1. auto[c] \in AutoCheck /\ auto[c].pc = "count" /\ s = Min(auto[c].left)
  BY DEF TypeOK, Count
<1>2. PICK r \in Grouped :
            /\ auto[c].region = {r} /\ auto[c].todo \subseteq Grouped \ {r}
            /\ auto[c].left \subseteq InRegion(r) /\ auto[c].left # {}
  BY <1>1 DEF FramesFit, FrameFits
<1>3. s \in auto[c].left
  <2>1. auto[c].left \in SUBSET Servers
    BY <1>1 DEF AutoCheck
  <2> QED BY <1>1, <1>2, <2>1, Finite, MinIs
<1>4. r = RegionOf[s]
  BY <1>2, <1>3 DEF InRegion
<1> DEFINE u == OneIf(IsUnstable(s))
<1>5. u \in Nat
  BY DEF OneIf
<1>6. CountedIn(c, s) = [auto[c] EXCEPT !.left = @ \ {s}, !.unstable = @ + u]
  BY DEF CountedIn
<1> HIDE DEF u
<1>7. /\ CountedIn(c, s).pc = "count" /\ CountedIn(c, s).threshold = auto[c].threshold
      /\ CountedIn(c, s).region = auto[c].region /\ CountedIn(c, s).todo = auto[c].todo
      /\ CountedIn(c, s).reported = auto[c].reported
      /\ CountedIn(c, s).left = auto[c].left \ {s}
      /\ CountedIn(c, s).unstable = auto[c].unstable + u
  BY <1>1, <1>6 DEF AutoCheck
<1>8. CountedIn(c, s) \in AutoCheck
  <2>1. auto[c].left \ {s} \in SUBSET Servers /\ auto[c].unstable + u \in Nat
    BY <1>1, <1>5 DEF AutoCheck
  <2> QED BY <1>1, <1>6, <2>1 DEF AutoCheck
<1>9. Goes(c, CASE CountedIn(c, s).left # {} -> CountedIn(c, s)
                [] CountedIn(c, s).left = {} /\ ReachesThreshold(CountedIn(c, s).unstable,
                                         CountedIn(c, s).threshold, RegionOf[s]) ->
                       [CountedIn(c, s) EXCEPT !.pc = "ask", !.unstable = 0]
                [] OTHER -> Onward(CountedIn(c, s)))
  BY DEF Count, CountedIn
<1> DEFINE k == CountedIn(c, s)
           reached == ReachesThreshold(k.unstable, auto[c].threshold, RegionOf[s])
<1>10. Goes(c, CASE k.left # {} -> k
                 [] k.left = {} /\ reached -> [k EXCEPT !.pc = "ask", !.unstable = 0]
                 [] OTHER -> Onward(k))
  BY <1>7, <1>9
<1>11. \/ k.left # {} /\ Goes(c, k)
       \/ k.left = {} /\ reached /\ Goes(c, [k EXCEPT !.pc = "ask", !.unstable = 0])
       \/ k.left = {} /\ ~reached /\ Goes(c, Onward(k))
  <2> HIDE DEF k, reached
  <2>1. CASE k.left # {}
    BY <1>10, <2>1
  <2>2. CASE k.left = {} /\ reached
    BY <1>10, <2>2
  <2>3. CASE k.left = {} /\ ~reached
    BY <1>10, <2>3
  <2> QED BY <2>1, <2>2, <2>3
<1> QED BY <1>1, <1>2, <1>3, <1>4, <1>7, <1>8, <1>11 DEF u

\* The frames that a quarantine goes on with.
LEMMA FrameTypes ==
    ASSUME TypeOK, FramesFit, NEW c \in Callers
    PROVE  /\ auto[c] \in AutoCheck
           /\ auto[c].pc \in {"ask", "act"} =>
                /\ auto[c].todo \subseteq Grouped
                /\ FrameFits([auto[c] EXCEPT !.pc = "act"])
                /\ [auto[c] EXCEPT !.pc = "act"] \in AutoCheck
                /\ [auto[c] EXCEPT !.reported = @ \cup auto[c].region] \in AutoCheck
                /\ [auto[c] EXCEPT !.reported = @ \cup auto[c].region].todo = auto[c].todo
           /\ \A s \in Servers : Count(c, s) =>
                /\ [CountedIn(c, s) EXCEPT !.pc = "ask", !.unstable = 0] \in AutoCheck
                /\ CountedIn(c, s).left = {} =>
                      FrameFits([CountedIn(c, s) EXCEPT !.pc = "ask", !.unstable = 0])
                /\ CountedIn(c, s).left # {} => FrameFits(CountedIn(c, s))
                /\ CountedIn(c, s).todo \subseteq Grouped
<1>1. auto[c] \in AutoCheck
  BY DEF TypeOK
<1>2. ASSUME auto[c].pc \in {"ask", "act"}
      PROVE  /\ auto[c].todo \subseteq Grouped
             /\ FrameFits([auto[c] EXCEPT !.pc = "act"])
             /\ [auto[c] EXCEPT !.pc = "act"] \in AutoCheck
             /\ [auto[c] EXCEPT !.reported = @ \cup auto[c].region] \in AutoCheck
             /\ [auto[c] EXCEPT !.reported = @ \cup auto[c].region].todo = auto[c].todo
  <2>1. PICK r \in Grouped :
            /\ auto[c].region = {r} /\ auto[c].todo \subseteq Grouped \ {r}
            /\ auto[c].left \subseteq InRegion(r) /\ auto[c].left = {}
    BY <1>2 DEF FramesFit, FrameFits
  <2> DEFINE next == [auto[c] EXCEPT !.pc = "act"]
  <2>2. /\ next.region = {r} /\ next.todo \subseteq Grouped \ {r} /\ next.left = {}
        /\ next.pc = "act"
    BY <1>1, <2>1 DEF AutoCheck
  <2>3. next \in AutoCheck
    BY <1>1 DEF AutoCheck
  <2>4. auto[c].reported \cup auto[c].region \in SUBSET Regions
    BY <1>1 DEF AutoCheck
  <2>5. /\ [auto[c] EXCEPT !.reported = @ \cup auto[c].region] \in AutoCheck
        /\ [auto[c] EXCEPT !.reported = @ \cup auto[c].region].todo = auto[c].todo
    BY <1>1, <2>4 DEF AutoCheck
  <2>6. FrameFits(next)
    <3> HIDE DEF next
    <3> QED BY <2>2 DEF FrameFits
  <2> QED BY <2>1, <2>3, <2>5, <2>6
<1>3. ASSUME NEW s \in Servers, Count(c, s)
      PROVE  /\ [CountedIn(c, s) EXCEPT !.pc = "ask", !.unstable = 0] \in AutoCheck
             /\ CountedIn(c, s).left = {} =>
                   FrameFits([CountedIn(c, s) EXCEPT !.pc = "ask", !.unstable = 0])
             /\ CountedIn(c, s).left # {} => FrameFits(CountedIn(c, s))
             /\ CountedIn(c, s).todo \subseteq Grouped
  <2> DEFINE k == CountedIn(c, s)
             r == RegionOf[s]
  <2>0. /\ RegionOf[s] \in Grouped /\ auto[c].region = {RegionOf[s]}
        /\ auto[c].todo \subseteq Grouped \ {RegionOf[s]}
        /\ auto[c].left \subseteq InRegion(RegionOf[s])
        /\ CountedIn(c, s) \in AutoCheck /\ CountedIn(c, s).pc = "count"
        /\ CountedIn(c, s).region = auto[c].region /\ CountedIn(c, s).todo = auto[c].todo
        /\ CountedIn(c, s).left = auto[c].left \ {s}
    BY <1>3, CountIs, ZenonT(30)
  <2>1. /\ k \in AutoCheck /\ k.pc = "count" /\ k.region = {r} /\ r \in Grouped
        /\ k.todo \subseteq Grouped \ {r} /\ k.left \subseteq InRegion(r)
    BY <2>0
  <2> HIDE DEF k, r
  <2> DEFINE next == [k EXCEPT !.pc = "ask", !.unstable = 0]
  <2>2. next \in AutoCheck
    BY <2>1 DEF AutoCheck
  <2>3. /\ next.region = {r} /\ next.todo \subseteq Grouped \ {r} /\ next.left = k.left
        /\ next.pc = "ask"
    BY <2>1 DEF AutoCheck
  <2>4. k.left = {} => FrameFits(next)
    <3> HIDE DEF next
    <3> QED BY <2>1, <2>3 DEF FrameFits
  <2>5. k.left # {} => FrameFits(k)
    BY <2>1 DEF FrameFits
  <2> QED BY <2>1, <2>2, <2>4, <2>5 DEF k
<1> QED BY <1>1, <1>2, <1>3

LEMMA TypeNext == TypeOK /\ FramesFit /\ [Next]_vars => TypeOK' /\ FramesFit'
<1> SUFFICES ASSUME TypeOK, FramesFit, [Next]_vars PROVE TypeOK' /\ FramesFit'
  OBVIOUS
<1>0. /\ servers \in [Servers -> Server] /\ quarantined \subseteq Regions
      /\ check \in Check /\ chaos \in Chaos /\ auto \in [Callers -> AutoCheck]
      /\ seen \in [Names -> [Servers -> SUBSET Condition]]
      /\ released \in [Callers -> SUBSET Regions]
      /\ injections \in 0..MaxInjections /\ changes \in 0..MaxChanges
      /\ MaxInjections \in Nat /\ MaxChanges \in Nat
  BY HealthAssumption DEF TypeOK, Names
<1>1. ASSUME NEW limits \in Limits, CheckBegins(limits)
      PROVE  TypeOK' /\ FramesFit'
  <2>1. check' = [NoCheck EXCEPT !.pc = "scan", !.left = Servers, !.limits = limits]
    BY <1>1 DEF CheckBegins
  <2>2. check' \in Check
    BY <2>1 DEF NoCheck, Check
  <2>3. seen' = [seen EXCEPT !["check"] = Now("check")]
    BY <1>1 DEF CheckBegins
  <2>4. /\ Now("check") \in [Servers -> SUBSET Condition]
        /\ \A s \in Servers : SeenBy("check", ConditionOf(servers[s])) \in Now("check")[s]
    BY NowIs DEF Names
  <2>5. /\ seen' \in [Names -> [Servers -> SUBSET Condition]] /\ seen'["check"] = Now("check")
        /\ \A c \in Callers : seen'[c] = seen[c]
    BY <1>0, <2>3, <2>4, CallersApart DEF Names
  <2>6. UNCHANGED <<servers, quarantined, chaos, auto, released, injections, changes>>
    BY <1>1 DEF CheckBegins
  <2>7. CurrentSeen'
    <3> SUFFICES ASSUME NEW c \in Names, Underway(c)', NEW s \in Servers
                 PROVE  SeenBy(c, ConditionOf(servers'[s])) \in seen'[c][s]
      BY DEF CurrentSeen
    <3>1. CASE c = "check"
      BY <2>4, <2>5, <2>6, <3>1
    <3>2. CASE c \in Callers
      <4>1. Underway(c)
        BY <2>6, <3>2, CallersApart DEF Underway
      <4>2. SeenBy(c, ConditionOf(servers[s])) \in seen[c][s]
        BY <4>1 DEF FramesFit, CurrentSeen
      <4> QED BY <2>5, <2>6, <3>2, <4>2
    <3> QED BY <3>1, <3>2 DEF Names
  <2>8. FramesFit'
    BY <2>6, <2>7 DEF FramesFit
  <2> QED BY <1>0, <2>2, <2>5, <2>6, <2>8 DEF TypeOK, Names
<1>2. ASSUME NEW s \in Servers, Evaluate(s)
      PROVE  TypeOK' /\ FramesFit'
  <2>1. check' \in Check /\ check'.pc = "scan"
    BY <1>2, EvaluateIs
  <2>2. UNCHANGED <<servers, quarantined, chaos, auto, seen, released, injections, changes>>
    BY <1>2 DEF Evaluate, history
  <2>3. check.pc = "scan"
    BY <1>2 DEF Evaluate
  <2>4. \A c \in Names : Underway(c)' = Underway(c)
    BY <2>1, <2>2, <2>3 DEF Underway
  <2>5. FramesFit'
    BY <2>2, <2>4 DEF FramesFit, CurrentSeen
  <2> QED BY <2>1, <2>2, <2>5 DEF TypeOK
<1>3. ASSUME Conclude
      PROVE  TypeOK' /\ FramesFit'
  <2>1. check' = [NoCheck EXCEPT !.pc = IF OverallPassed THEN "passed" ELSE "violated"]
    BY <1>3 DEF Conclude
  <2>2. check' \in Check /\ check'.pc # "scan"
    <3>1. CASE OverallPassed
      BY <2>1, <3>1, NoFrames DEF NoCheck, Check
    <3>2. CASE ~OverallPassed
      BY <2>1, <3>2, NoFrames DEF NoCheck, Check
    <3> QED BY <3>1, <3>2
  <2>3. Unseen \in [Servers -> SUBSET Condition]
    BY DEF Unseen
  <2>4. seen' = [seen EXCEPT !["check"] = Unseen]
    BY <1>3 DEF Conclude
  <2>5. /\ seen' \in [Names -> [Servers -> SUBSET Condition]]
        /\ \A c \in Callers : seen'[c] = seen[c]
    BY <1>0, <2>3, <2>4, CallersApart DEF Names
  <2>6. UNCHANGED <<servers, quarantined, chaos, auto, released, injections, changes>>
    BY <1>3 DEF Conclude
  <2>7. CurrentSeen'
    <3> SUFFICES ASSUME NEW c \in Names, Underway(c)', NEW s \in Servers
                 PROVE  SeenBy(c, ConditionOf(servers'[s])) \in seen'[c][s]
      BY DEF CurrentSeen
    <3>1. c \in Callers
      BY <2>2 DEF Underway, Names
    <3>2. Underway(c)
      BY <2>6, <3>1, CallersApart DEF Underway
    <3>3. SeenBy(c, ConditionOf(servers[s])) \in seen[c][s]
      BY <3>2 DEF FramesFit, CurrentSeen
    <3> QED BY <2>5, <2>6, <3>1, <3>3
  <2>8. FramesFit'
    BY <2>6, <2>7 DEF FramesFit
  <2> QED BY <1>0, <2>2, <2>5, <2>6, <2>8 DEF TypeOK, Names
<1>4. ASSUME NEW kind \in Kind, NEW candidates \in CandidateSets, NEW rate \in Rates,
             ChaosBegins(kind, candidates, rate)
      PROVE  TypeOK' /\ FramesFit'
  <2>1. PICK victims \in kSubset(SampleSize(Cardinality(candidates), rate), candidates) :
            chaos' = [NoChaos EXCEPT !.kind = kind, !.left = victims,
                                     !.pc = IF victims = {} THEN "idle" ELSE "look"]
    BY <1>4 DEF ChaosBegins
  <2>2. victims \in SUBSET Servers
    BY HealthAssumption DEF kSubset
  <2>3. chaos' \in Chaos
    BY <2>1, <2>2, NoFrames DEF NoChaos, Chaos
  <2>4. injections' \in 0..MaxInjections
    BY <1>0, <1>4 DEF ChaosBegins
  <2>5. UNCHANGED <<servers, quarantined, check, auto, seen, released, changes>>
    BY <1>4 DEF ChaosBegins, history
  <2>6. FramesFit'
    BY <2>5 DEF FramesFit, CurrentSeen, Underway
  <2> QED BY <2>3, <2>4, <2>5, <2>6 DEF TypeOK
<1>5. ASSUME NEW s \in Servers, Look(s)
      PROVE  TypeOK' /\ FramesFit'
  <2>1. NewStatus(chaos.kind, servers[s]) \in ServerStatus
    BY <1>0, ServerTypes DEF Chaos
  <2>2. chaos' \in Chaos
    <3>1. chaos' = [chaos EXCEPT !.pc = "status", !.left = @ \ {s}, !.current = {s},
                                 !.new = NewStatus(chaos.kind, servers[s])]
      BY <1>5 DEF Look
    <3>2. chaos.left \ {s} \in SUBSET Servers
      BY <1>0 DEF Chaos
    <3> QED BY <1>0, <2>1, <3>1, <3>2 DEF Chaos
  <2>3. UNCHANGED <<servers, quarantined, check, auto, seen, released, injections, changes>>
    BY <1>5 DEF Look, history
  <2>4. FramesFit'
    BY <2>3 DEF FramesFit, CurrentSeen, Underway
  <2> QED BY <2>2, <2>3, <2>4 DEF TypeOK
<1>6. ASSUME NEW s \in Servers, WriteStatus(s)
      PROVE  TypeOK' /\ FramesFit'
  <2>1. chaos' = [chaos EXCEPT !.pc = "load"]
    BY <1>6 DEF WriteStatus
  <2>2. chaos' \in Chaos
    BY <1>0, <2>1 DEF Chaos
  <2>3. UNCHANGED <<quarantined, check, auto, released, injections, changes>>
    BY <1>6 DEF WriteStatus
  <2>4. CASE chaos.new # servers[s].status
    <3>1. Become(s, [servers[s] EXCEPT !.status = chaos.new])
      BY <1>6, <2>4 DEF WriteStatus, UpdateServerStatus
    <3>2. [servers[s] EXCEPT !.status = chaos.new] \in Server
      BY <1>0, ServerTypes DEF Chaos
    <3>3. /\ servers' \in [Servers -> Server] /\ FramesFit'
          /\ seen' \in [Names -> [Servers -> SUBSET Condition]]
      BY <2>3, <3>1, <3>2, ChangeTypes
    <3> QED BY <1>0, <2>2, <2>3, <3>3 DEF TypeOK, Names
  <2>5. CASE ~(chaos.new # servers[s].status)
    <3>1. UNCHANGED <<servers, seen>>
      BY <1>6, <2>5 DEF WriteStatus
    <3>2. FramesFit'
      BY <2>3, <3>1 DEF FramesFit, CurrentSeen, Underway
    <3> QED BY <2>2, <2>3, <3>1, <3>2 DEF TypeOK
  <2> QED BY <2>4, <2>5
<1>7. ASSUME NEW s \in Servers, WriteLoad(s)
      PROVE  TypeOK' /\ FramesFit'
  <2>1. chaos' \in Chaos
    <3>1. CASE chaos.left = {}
      BY <1>7, <3>1, NoFrames DEF WriteLoad
    <3>2. CASE chaos.left # {}
      <4>1. chaos' = [chaos EXCEPT !.pc = "look", !.current = {}]
        BY <1>7, <3>2 DEF WriteLoad
      <4> QED BY <1>0, <4>1 DEF Chaos
    <3> QED BY <3>1, <3>2
  <2>2. UNCHANGED <<quarantined, check, auto, released, injections, changes>>
    BY <1>7 DEF WriteLoad
  <2>3. Become(s, [servers[s] EXCEPT !.load = Injected(chaos.kind)])
    BY <1>7 DEF WriteLoad, UpdateServerResources
  <2>4. [servers[s] EXCEPT !.load = Injected(chaos.kind)] \in Server
    BY <1>0, ServerTypes DEF Chaos
  <2>5. /\ servers' \in [Servers -> Server] /\ FramesFit'
        /\ seen' \in [Names -> [Servers -> SUBSET Condition]]
    BY <2>2, <2>3, <2>4, ChangeTypes
  <2> QED BY <1>0, <2>1, <2>2, <2>5 DEF TypeOK, Names
<1>8. ASSUME NEW c \in Callers, NEW threshold \in OperatorThresholds \cup {30},
             AutoBegins(c, threshold)
      PROVE  TypeOK' /\ FramesFit'
  <2> DEFINE frame == [NoAuto EXCEPT !.threshold = threshold, !.todo = Grouped]
  <2>1. frame \in AutoCheck /\ frame.todo = Grouped
    <3>1. Grouped \in SUBSET Regions
      BY HealthAssumption DEF Grouped
    <3> QED BY <3>1, NoFrames DEF NoAuto, AutoCheck
  <2>2. Onward(frame) \in AutoCheck /\ FrameFits(Onward(frame))
    <3> HIDE DEF frame
    <3> QED BY <2>1, OnwardTypes
  <2>3. auto' = [auto EXCEPT ![c] = Onward(frame)] /\ seen' = [seen EXCEPT ![c] = Now(c)]
    BY <1>8 DEF AutoBegins
  <2> HIDE DEF frame
  <2>4. auto' \in [Callers -> AutoCheck] /\ \A d \in Callers \ {c} : auto'[d] = auto[d]
    BY <1>0, <2>2, <2>3
  <2>5. /\ Now(c) \in [Servers -> SUBSET Condition] /\ c \in Names
        /\ \A s \in Servers : SeenBy(c, ConditionOf(servers[s])) \in Now(c)[s]
    BY NowIs DEF Names
  <2>6. /\ seen' \in [Names -> [Servers -> SUBSET Condition]] /\ seen'[c] = Now(c)
        /\ \A d \in Names \ {c} : seen'[d] = seen[d]
    BY <1>0, <2>3, <2>5
  <2>7. check' \in Check /\ (check'.pc = "scan" => check.pc = "scan")
    <3>1. check' = NoCheck \/ check' = check
      BY <1>8 DEF AutoBegins
    <3>2. NoCheck.pc = "idle"
      BY DEF NoCheck
    <3> QED BY <1>0, <3>1, <3>2, NoFrames
  <2>8. UNCHANGED <<servers, quarantined, chaos, released, injections, changes>>
    BY <1>8 DEF AutoBegins
  <2>9. CurrentSeen'
    <3> SUFFICES ASSUME NEW d \in Names, Underway(d)', NEW s \in Servers
                 PROVE  SeenBy(d, ConditionOf(servers'[s])) \in seen'[d][s]
      BY DEF CurrentSeen
    <3>1. CASE d = c
      BY <2>5, <2>6, <2>8, <3>1
    <3>2. CASE d # c
      <4>1. Underway(d)
        <5>1. CASE d = "check"
          BY <2>7, <5>1 DEF Underway
        <5>2. CASE d \in Callers
          BY <2>4, <3>2, <5>2, CallersApart DEF Underway
        <5> QED BY <5>1, <5>2 DEF Names
      <4>2. SeenBy(d, ConditionOf(servers[s])) \in seen[d][s]
        BY <4>1 DEF FramesFit, CurrentSeen
      <4> QED BY <2>6, <2>8, <3>2, <4>2
    <3> QED BY <3>1, <3>2
  <2>10. \A d \in Callers : FrameFits(auto'[d])
    <3>1. auto'[c] = Onward(frame)
      BY <1>0, <2>3
    <3> QED BY <2>2, <2>4, <3>1 DEF FramesFit
  <2> QED BY <1>0, <2>4, <2>6, <2>7, <2>8, <2>9, <2>10 DEF TypeOK, FramesFit, Names
<1>9. ASSUME NEW c \in Callers, NEW s \in Servers, Count(c, s)
      PROVE  TypeOK' /\ FramesFit'
  <2>1. PICK frame \in AutoCheck : FrameFits(frame) /\ Goes(c, frame)
    <3>1. CASE CountedIn(c, s).left # {} /\ Goes(c, CountedIn(c, s))
      BY <1>9, <3>1, CountIs, FrameTypes
    <3>2. CASE /\ CountedIn(c, s).left = {}
               /\ Goes(c, [CountedIn(c, s) EXCEPT !.pc = "ask", !.unstable = 0])
      <4>1. /\ [CountedIn(c, s) EXCEPT !.pc = "ask", !.unstable = 0] \in AutoCheck
            /\ FrameFits([CountedIn(c, s) EXCEPT !.pc = "ask", !.unstable = 0])
        BY <1>9, <3>2, FrameTypes
      <4> QED BY <3>2, <4>1
    <3>3. CASE Goes(c, Onward(CountedIn(c, s)))
      <4>1. CountedIn(c, s) \in AutoCheck /\ CountedIn(c, s).todo \subseteq Grouped
        BY <1>9, CountIs, FrameTypes
      <4>2. Onward(CountedIn(c, s)) \in AutoCheck /\ FrameFits(Onward(CountedIn(c, s)))
        BY <4>1, OnwardTypes
      <4> QED BY <3>3, <4>2
    <3> QED BY <1>9, <3>1, <3>2, <3>3, CountIs
  <2>2. /\ auto[c].pc # "idle"
        /\ UNCHANGED <<servers, quarantined, check, chaos, injections, changes>>
    BY <1>9 DEF Count
  <2>3. /\ auto' \in [Callers -> AutoCheck] /\ released' \in [Callers -> SUBSET Regions]
        /\ seen' \in [Names -> [Servers -> SUBSET Condition]] /\ FramesFit'
    BY <2>1, <2>2, GoesTypes
  <2> QED BY <1>0, <2>2, <2>3 DEF TypeOK, Names
<1>10. ASSUME NEW c \in Callers, AskQuarantined(c)
       PROVE  TypeOK' /\ FramesFit'
  <2>1. PICK frame \in AutoCheck : FrameFits(frame) /\ Goes(c, frame)
    <3>1. CASE auto[c].region \subseteq quarantined
      BY <1>10, <3>1, FrameTypes, OnwardTypes DEF AskQuarantined
    <3>2. CASE ~(auto[c].region \subseteq quarantined)
      BY <1>10, <3>2, FrameTypes DEF AskQuarantined
    <3> QED BY <3>1, <3>2
  <2>2. /\ auto[c].pc # "idle"
        /\ UNCHANGED <<servers, quarantined, check, chaos, injections, changes>>
    BY <1>10 DEF AskQuarantined
  <2>3. /\ auto' \in [Callers -> AutoCheck] /\ released' \in [Callers -> SUBSET Regions]
        /\ seen' \in [Names -> [Servers -> SUBSET Condition]] /\ FramesFit'
    BY <2>1, <2>2, GoesTypes
  <2> QED BY <1>0, <2>2, <2>3 DEF TypeOK, Names
<1>11. ASSUME NEW c \in Callers, QuarantineRegion(c)
       PROVE  TypeOK' /\ FramesFit'
  <2> DEFINE frame == [auto[c] EXCEPT !.reported = @ \cup auto[c].region]
  <2>1. frame \in AutoCheck /\ frame.todo \subseteq Grouped
    BY <1>11, FrameTypes DEF QuarantineRegion
  <2>2. Onward(frame) \in AutoCheck /\ FrameFits(Onward(frame))
    <3> HIDE DEF frame
    <3> QED BY <2>1, OnwardTypes
  <2>3. /\ auto[c].pc # "idle" /\ Goes(c, Onward(frame))
        /\ quarantined' = quarantined \cup auto[c].region
        /\ UNCHANGED <<servers, check, chaos, injections, changes>>
    BY <1>11 DEF QuarantineRegion
  <2>4. /\ auto' \in [Callers -> AutoCheck] /\ released' \in [Callers -> SUBSET Regions]
        /\ seen' \in [Names -> [Servers -> SUBSET Condition]] /\ FramesFit'
    <3> HIDE DEF frame
    <3> QED BY <2>2, <2>3, GoesTypes
  <2>5. quarantined' \subseteq Regions
    BY <1>0, <2>3 DEF AutoCheck
  <2> QED BY <1>0, <2>3, <2>4, <2>5 DEF TypeOK, Names
<1>12. ASSUME NEW s \in Servers, NEW st \in Observed, ChangeStatus(s, st)
       PROVE  TypeOK' /\ FramesFit'
  <2>1. /\ Become(s, [servers[s] EXCEPT !.status = st])
        /\ UNCHANGED <<quarantined, check, chaos, auto, released, injections>>
    BY <1>12 DEF ChangeStatus, UpdateServerStatus, calls
  <2>2. [servers[s] EXCEPT !.status = st] \in Server
    BY <1>0, ServerTypes, HealthAssumption
  <2>3. changes' \in 0..MaxChanges
    BY <1>0, <1>12 DEF ChangeStatus
  <2>4. /\ servers' \in [Servers -> Server] /\ FramesFit'
        /\ seen' \in [Names -> [Servers -> SUBSET Condition]]
    BY <2>1, <2>2, ChangeTypes
  <2> QED BY <1>0, <2>1, <2>3, <2>4 DEF TypeOK, Names
<1>13. ASSUME NEW r \in Regions, ReleaseRegion(r)
       PROVE  TypeOK' /\ FramesFit'
  <2>1. UNCHANGED <<servers, check, chaos, auto, seen, injections>>
    BY <1>13 DEF ReleaseRegion, calls
  <2>2. changes' \in 0..MaxChanges /\ quarantined' \subseteq Regions
    BY <1>0, <1>13 DEF ReleaseRegion
  <2>3. released' \in [Callers -> SUBSET Regions]
    <3>1. released' = [c \in Callers |-> IF Underway(c) THEN released[c] \cup {r} ELSE {}]
      BY <1>13 DEF ReleaseRegion
    <3>2. \A c \in Callers : released[c] \cup {r} \in SUBSET Regions
      BY <1>0
    <3> QED BY <3>1, <3>2
  <2>4. FramesFit'
    BY <2>1 DEF FramesFit, CurrentSeen, Underway
  <2> QED BY <1>0, <2>1, <2>2, <2>3, <2>4 DEF TypeOK
<1>14. ASSUME UNCHANGED vars
       PROVE  TypeOK' /\ FramesFit'
  <2>1. UNCHANGED <<servers, quarantined, check, chaos, auto, seen, released,
                    injections, changes>>
    BY <1>14 DEF vars, calls, history
  <2> QED BY <2>1 DEF TypeOK, FramesFit, CurrentSeen, Underway
<1> QED BY <1>1, <1>2, <1>3, <1>4, <1>5, <1>6, <1>7, <1>8, <1>9, <1>10, <1>11, <1>12, <1>13,
           <1>14 DEF Next

(***************************************************************************)
(* The calls of a health check, of chaos and of the quarantine keep their  *)
(* frames in order, and so does everything they share.                     *)
(***************************************************************************)
THEOREM TypeCorrect == Spec => []TypeOK
<1>1. Spec => [](TypeOK /\ FramesFit)
  BY TypeInit, TypeNext, PTL DEF Spec
<1> QED BY <1>1, PTL

-----------------------------------------------------------------------------
(***************************************************************************)
(* What the counts say.  A call that sees more has fewer servers that have *)
(* always been in a condition: what its counts say stays true.             *)
(***************************************************************************)
LEMMA AlwaysShrinks ==
    ASSUME NEW view, NEW wider, \A s \in Servers : view[s] \subseteq wider[s], NEW conditions
    PROVE  /\ Always(wider, conditions) \in SUBSET Always(view, conditions)
           /\ Always(view, conditions) \in SUBSET Servers
  BY DEF Always

LEMMA CheckKept ==
    ASSUME NEW frame \in Check, NEW view, NEW wider,
           \A s \in Servers : view[s] \subseteq wider[s], CheckFits(frame, view)
    PROVE  CheckFits(frame, wider)
<1> SUFFICES ASSUME frame.pc = "scan" PROVE CheckFits(frame, wider)
  BY DEF CheckFits
<1>1. ASSUME NEW conditions
      PROVE  /\ Many(frame, wider, conditions) <= Many(frame, view, conditions)
             /\ Many(frame, wider, conditions) \in Nat /\ Many(frame, view, conditions) \in Nat
  <2> DEFINE T == (Servers \ frame.left) \cap Always(view, conditions)
             U == (Servers \ frame.left) \cap Always(wider, conditions)
  <2>1. T \in SUBSET Servers /\ U \in SUBSET T
    BY AlwaysShrinks
  <2>2. Cardinality(U) <= Cardinality(T)
    <3> HIDE DEF T, U
    <3> QED BY <2>1, Fewer
  <2>3. Cardinality(U) \in Nat /\ Cardinality(T) \in Nat
    <3> HIDE DEF T, U
    <3> QED BY <2>1, Finite
  <2> QED BY <2>2, <2>3 DEF Many
<1>2. Always(wider, {"calm"}) = Servers => Always(view, {"calm"}) = Servers
  <2>1. /\ Always(wider, {"calm"}) \in SUBSET Always(view, {"calm"})
        /\ Always(view, {"calm"}) \in SUBSET Servers
    BY AlwaysShrinks
  <2> QED BY <2>1
<1>3. /\ frame.limits \in Limits
      /\ frame.degraded >= Many(frame, view, {"degraded"})
      /\ frame.failed >= Many(frame, view, {"failed"})
      /\ frame.unhealthy >= Many(frame, view, Sick)
  BY DEF CheckFits
<1>4. /\ frame.degraded \in Nat /\ frame.failed \in Nat /\ frame.unhealthy \in Nat
  BY DEF Check
<1>5. frame.degraded >= Many(frame, wider, {"degraded"})
  BY <1>1, <1>3, <1>4
<1>6. frame.failed >= Many(frame, wider, {"failed"})
  BY <1>1, <1>3, <1>4
<1>7. frame.unhealthy >= Many(frame, wider, Sick)
  BY <1>1, <1>3, <1>4
<1>8. Always(wider, {"calm"}) = Servers =>
              /\ frame.degraded = 0 /\ frame.failed = 0 /\ frame.unhealthy = 0
              /\ frame.cpu <= 70 * Cardinality(Servers \ frame.left)
              /\ frame.memory <= 70 * Cardinality(Servers \ frame.left)
  BY <1>2 DEF CheckFits
<1> QED BY <1>3, <1>5, <1>6, <1>7, <1>8 DEF CheckFits

\* The shares of a region, and the share that a threshold asks for, are numbers.
LEMMA Shares ==
    ASSUME NEW r, NEW frame \in AutoCheck, NEW view, NEW wider,
           \A s \in Servers : view[s] \subseteq wider[s], NEW conditions, NEW T \in SUBSET InRegion(r)
    PROVE  /\ frame.threshold \in Nat /\ Size(r) \in Nat /\ frame.threshold * Size(r) \in Nat
           /\ Cardinality(T \cap Always(wider, conditions)) \in Nat
           /\ Cardinality(T \cap Always(view, conditions)) \in Nat
           /\ Cardinality(T \ Always(wider, conditions)) \in Nat
           /\ Cardinality(T \ Always(view, conditions)) \in Nat
           /\ Cardinality(T \cap Always(wider, conditions)) <=
                 Cardinality(T \cap Always(view, conditions))
           /\ Cardinality(T \ Always(view, conditions)) <=
                 Cardinality(T \ Always(wider, conditions))
<1>1. frame.threshold \in Nat
  <2>1. frame.threshold \in OperatorThresholds \cup {30}
    BY DEF AutoCheck
  <2>2. OperatorThresholds \subseteq 1..100
    BY HealthAssumption
  <2>3. \A n \in 1..100 : n \in Nat
    OBVIOUS
  <2>4. frame.threshold \in 1..100 \/ frame.threshold = 30
    BY <2>1, <2>2
  <2> QED BY <2>3, <2>4
<1>2. InRegion(r) \in SUBSET Servers
  BY DEF InRegion
<1>3. Size(r) \in Nat
  BY <1>2, Finite DEF Size
<1>4. frame.threshold * Size(r) \in Nat
  BY <1>1, <1>3
<1> DEFINE A == T \cap Always(wider, conditions)
           B == T \cap Always(view, conditions)
           C == T \ Always(view, conditions)
           D == T \ Always(wider, conditions)
<1>5. B \in SUBSET Servers /\ A \in SUBSET B /\ D \in SUBSET Servers /\ C \in SUBSET D
  BY <1>2, AlwaysShrinks
<1> HIDE DEF A, B, C, D
<1>6. /\ Cardinality(A) \in Nat /\ Cardinality(B) \in Nat
      /\ Cardinality(C) \in Nat /\ Cardinality(D) \in Nat
  <2>1. A \in SUBSET Servers /\ C \in SUBSET Servers
    BY <1>5
  <2> QED BY <1>5, <2>1, Finite
<1>7. Cardinality(A) <= Cardinality(B) /\ Cardinality(C) <= Cardinality(D)
  BY <1>5, Fewer
<1> QED BY <1>1, <1>3, <1>4, <1>6, <1>7 DEF A, B, C, D

LEMMA RegionKept ==
    ASSUME NEW frame \in AutoCheck, NEW view, NEW wider, NEW safe, NEW safer,
           \A s \in Servers : view[s] \subseteq wider[s], safe \subseteq safer,
           RegionFits(frame, view, safe)
    PROVE  RegionFits(frame, wider, safer)
<1> SUFFICES ASSUME frame.pc # "idle" PROVE RegionFits(frame, wider, safer)
  BY DEF RegionFits
<1>1. ASSUME NEW r, Settled(frame, view, safe, r)
      PROVE  Settled(frame, wider, safer, r)
  <2> DEFINE a == Cardinality(InRegion(r) \cap Always(view, {"degraded"}))
             b == Cardinality(InRegion(r) \cap Always(wider, {"degraded"}))
             bar == frame.threshold * Size(r)
  <2>1. a \in Nat /\ b \in Nat /\ bar \in Nat /\ b <= a
    BY Shares
  <2>2. 100 * a >= bar => r \in safe
    BY <1>1 DEF Settled
  <2>3. 100 * b >= bar => r \in safer
    <3> HIDE DEF a, b, bar
    <3> QED BY <2>1, <2>2
  <2> QED BY <2>3 DEF Settled
<1>2. ASSUME NEW r, Justified(frame, view, r)
      PROVE  Justified(frame, wider, r)
  <2> DEFINE a == Cardinality(InRegion(r) \ Always(view, {"calm"}))
             b == Cardinality(InRegion(r) \ Always(wider, {"calm"}))
             bar == frame.threshold * Size(r)
  <2>1. a \in Nat /\ b \in Nat /\ bar \in Nat /\ a <= b
    BY Shares
  <2>2. 100 * a >= bar
    BY <1>2 DEF Justified
  <2>3. 100 * b >= bar
    <3> HIDE DEF a, b, bar
    <3> QED BY <2>1, <2>2
  <2> QED BY <2>3 DEF Justified
<1>3. ASSUME NEW r, CountFits(frame, view, r)
      PROVE  CountFits(frame, wider, r)
  <2> DEFINE counted == InRegion(r) \ frame.left
  <2>1. counted \in SUBSET InRegion(r)
    OBVIOUS
  <2>2. frame.unstable \in Nat
    BY DEF AutoCheck
  <2>3. /\ frame.unstable >= Cardinality(counted \cap Always(view, {"degraded"}))
        /\ frame.unstable <= Cardinality(counted \ Always(view, {"calm"}))
    BY <1>3 DEF CountFits
  <2> HIDE DEF counted
  <2>4. /\ Cardinality(counted \cap Always(view, {"degraded"})) \in Nat
        /\ Cardinality(counted \cap Always(wider, {"degraded"})) \in Nat
        /\ Cardinality(counted \cap Always(wider, {"degraded"})) <=
              Cardinality(counted \cap Always(view, {"degraded"}))
    BY <2>1, Shares
  <2>5. /\ Cardinality(counted \ Always(view, {"calm"})) \in Nat
        /\ Cardinality(counted \ Always(wider, {"calm"})) \in Nat
        /\ Cardinality(counted \ Always(view, {"calm"})) <=
              Cardinality(counted \ Always(wider, {"calm"}))
    BY <2>1, Shares
  <2>6. /\ frame.unstable >= Cardinality(counted \cap Always(wider, {"degraded"}))
        /\ frame.unstable <= Cardinality(counted \ Always(wider, {"calm"}))
    BY <2>2, <2>3, <2>4, <2>5
  <2> QED BY <2>6 DEF CountFits, counted
<1> QED BY <1>1, <1>2, <1>3 DEF RegionFits, Reported

\* A quarantine that goes on, or returns, has nothing to answer for but the regions
\* it has looked at.
LEMMA OnwardFits ==
    ASSUME NEW frame \in AutoCheck, frame.todo \subseteq Grouped, NEW view, NEW safe,
           \A r \in Grouped \ frame.todo : Settled(frame, view, safe, r),
           frame.reported \subseteq Grouped \ frame.todo,
           \A r \in frame.reported : r \in safe /\ Justified(frame, view, r)
    PROVE  RegionFits(Onward(frame), view, safe)
<1>1. CASE frame.todo = {}
  <2>1. Onward(frame).pc = "idle"
    BY <1>1 DEF Onward, NoAuto
  <2> QED BY <2>1 DEF RegionFits
<1>2. CASE frame.todo # {}
  <2>1. PICK q \in frame.todo :
              /\ Onward(frame) = [frame EXCEPT !.pc = "count", !.todo = @ \ {q}, !.region = {q},
                                               !.left = InRegion(q), !.unstable = 0]
              /\ InRegion(q) # {}
    BY <1>2, OnwardIs
  <2> DEFINE next == Onward(frame)
  <2>2. /\ next.pc = "count" /\ next.threshold = frame.threshold
        /\ next.todo = frame.todo \ {q} /\ next.region = {q} /\ next.left = InRegion(q)
        /\ next.unstable = 0 /\ next.reported = frame.reported
    BY <2>1 DEF AutoCheck
  <2> HIDE DEF next
  <2>3. \A r : /\ Settled(next, view, safe, r) <=> Settled(frame, view, safe, r)
               /\ Justified(next, view, r) <=> Justified(frame, view, r)
    BY <2>2 DEF Settled, Justified
  <2>4. next.todo \cup next.region = frame.todo
    BY <2>1, <2>2
  <2>5. Reported(next, view, safe)
    BY <2>2, <2>3, <2>4 DEF Reported
  <2>6. CountFits(next, view, q)
    <3>1. InRegion(q) \ next.left = {}
      BY <2>2
    <3>2. /\ Cardinality((InRegion(q) \ next.left) \cap Always(view, {"degraded"})) = 0
          /\ Cardinality((InRegion(q) \ next.left) \ Always(view, {"calm"})) = 0
      BY <3>1, FS_EmptySet
    <3> QED BY <2>2, <3>2 DEF CountFits
  <2>7. RegionFits(next, view, safe)
    BY <2>2, <2>5, <2>6 DEF RegionFits
  <2> QED BY <2>7 DEF next
<1> QED BY <1>1, <1>2

\* A server that a health check reads is counted for what it has been all the while.
LEMMA EvaluateFits ==
    ASSUME TypeOK, FramesFit, CheckFits(check, seen["check"]), NEW s \in Servers, Evaluate(s)
    PROVE  CheckFits(check', seen["check"])
<1> DEFINE view == seen["check"]
           read == Servers \ check.left
<1>1. /\ check \in Check /\ check.pc = "scan" /\ servers[s] \in Server
      /\ check.left \in SUBSET Servers
  BY DEF TypeOK, Evaluate, Check
<1>2. /\ s \in check.left /\ check' \in Check /\ check'.pc = "scan"
      /\ check'.limits = check.limits /\ check'.left = check.left \ {s}
      /\ check'.degraded = check.degraded + OneIf(servers[s].status = "degraded")
      /\ check'.failed = check.failed + OneIf(servers[s].status = "failed")
      /\ check'.cpu = check.cpu + servers[s].load.cpu
      /\ check'.memory = check.memory + servers[s].load.memory
  BY EvaluateIs
<1>3. PICK passed \in Evaluations(servers[s]) :
          check'.unhealthy = check.unhealthy + OneIf(~passed)
  BY EvaluateIs
<1>4. ConditionOf(servers[s]) \in view[s]
  <2>1. SeenBy("check", ConditionOf(servers[s])) \in view[s]
    BY <1>1 DEF FramesFit, CurrentSeen, Underway, Names
  <2> QED BY <2>1 DEF SeenBy
<1>5. \A conditions : s \in Always(view, conditions) => ConditionOf(servers[s]) \in conditions
  BY <1>4 DEF Always
<1>6. read \in SUBSET Servers /\ s \in Servers \ read /\ Servers \ check'.left = read \cup {s}
  BY <1>1, <1>2
<1>7. \A conditions :
          /\ s \in Always(view, conditions) =>
                Many(check', view, conditions) = Many(check, view, conditions) + 1
          /\ s \notin Always(view, conditions) =>
                Many(check', view, conditions) = Many(check, view, conditions)
          /\ Many(check, view, conditions) \in Nat
  <2> TAKE conditions
  <2> DEFINE X == Always(view, conditions)
  <2> HIDE DEF read, view, X
  <2>1. /\ s \in X => Cardinality((read \cup {s}) \cap X) = Cardinality(read \cap X) + 1
        /\ s \notin X => Cardinality((read \cup {s}) \cap X) = Cardinality(read \cap X)
        /\ Cardinality(read \cap X) \in Nat
    <3>1. s \in X => Cardinality((read \cup {s}) \cap X) = Cardinality(read \cap X) + 1
      BY <1>6, OneMoreOf
    <3>2. s \notin X => (read \cup {s}) \cap X = read \cap X
      OBVIOUS
    <3>3. read \cap X \in SUBSET Servers
      BY <1>6
    <3> QED BY <3>1, <3>2, <3>3, Finite
  <2> QED BY <1>6, <2>1 DEF Many, read, X
<1>8. Cardinality(read \cup {s}) = Cardinality(read) + 1 /\ Cardinality(read) \in Nat
  <2> HIDE DEF read, view
  <2>1. Cardinality(read \cup {s}) = Cardinality(read) + 1
    BY <1>6, OneMore
  <2> QED BY <1>6, <2>1, Finite
<1>9. /\ check.limits \in Limits
      /\ check.degraded >= Many(check, view, {"degraded"})
      /\ check.failed >= Many(check, view, {"failed"})
      /\ check.unhealthy >= Many(check, view, Sick)
  BY <1>1 DEF CheckFits
<1>10. /\ check.degraded \in Nat /\ check.failed \in Nat /\ check.unhealthy \in Nat
       /\ check.cpu \in Nat /\ check.memory \in Nat
  BY <1>1 DEF Check
<1>11. /\ servers[s].load.cpu \in Nat /\ servers[s].load.memory \in Nat
  BY <1>1, LoadIs DEF Server
<1>12. passed \in BOOLEAN /\ (ConditionOf(servers[s]) \in Sick => ~passed)
  BY <1>1, EvaluationIs
<1>13. check'.degraded >= Many(check', view, {"degraded"})
  <2>1. s \in Always(view, {"degraded"}) => OneIf(servers[s].status = "degraded") = 1
    BY <1>1, <1>5, ConditionIs DEF OneIf
  <2>2. OneIf(servers[s].status = "degraded") \in 0..1
    BY DEF OneIf
  <2> QED BY <1>2, <1>7, <1>9, <1>10, <2>1, <2>2
<1>14. check'.failed >= Many(check', view, {"failed"})
  <2>1. s \in Always(view, {"failed"}) => OneIf(servers[s].status = "failed") = 1
    BY <1>1, <1>5, ConditionIs DEF OneIf
  <2>2. OneIf(servers[s].status = "failed") \in 0..1
    BY DEF OneIf
  <2> QED BY <1>2, <1>7, <1>9, <1>10, <2>1, <2>2
<1>15. check'.unhealthy >= Many(check', view, Sick)
  <2>1. s \in Always(view, Sick) => OneIf(~passed) = 1
    BY <1>5, <1>12 DEF OneIf
  <2>2. OneIf(~passed) \in 0..1
    BY DEF OneIf
  <2> QED BY <1>3, <1>7, <1>9, <1>10, <2>1, <2>2
<1>16. ASSUME Always(view, {"calm"}) = Servers
       PROVE  /\ check'.degraded = 0 /\ check'.failed = 0 /\ check'.unhealthy = 0
              /\ check'.cpu <= 70 * Cardinality(Servers \ check'.left)
              /\ check'.memory <= 70 * Cardinality(Servers \ check'.left)
  <2>1. ConditionOf(servers[s]) = "calm"
    BY <1>5, <1>16
  <2>2. /\ servers[s].status \in {"healthy", "updating"} /\ servers[s].load \in Baseline
    BY <1>1, <2>1, ConditionIs
  <2>3. passed = TRUE
    BY <1>1, <1>12, <2>1, EvaluationIs
  <2>4. /\ OneIf(servers[s].status = "degraded") = 0 /\ OneIf(servers[s].status = "failed") = 0
        /\ OneIf(~passed) = 0
    BY <2>2, <2>3 DEF OneIf
  <2>5. servers[s].load.cpu <= 70 /\ servers[s].load.memory <= 70
    BY <1>1, <2>2, LoadIs DEF Server
  <2>6. /\ check.degraded = 0 /\ check.failed = 0 /\ check.unhealthy = 0
        /\ check.cpu <= 70 * Cardinality(read) /\ check.memory <= 70 * Cardinality(read)
    BY <1>1, <1>16 DEF CheckFits
  <2>7. Cardinality(Servers \ check'.left) = Cardinality(read) + 1
    BY <1>6, <1>8
  <2>8. check'.degraded = 0 /\ check'.failed = 0 /\ check'.unhealthy = 0
    BY <1>2, <1>3, <2>4, <2>6
  <2>9. /\ check'.cpu <= 70 * Cardinality(read) + 70
        /\ check'.memory <= 70 * Cardinality(read) + 70
    <3> HIDE DEF read, view
    <3> QED BY <1>2, <1>8, <1>10, <1>11, <2>5, <2>6
  <2> QED BY <1>8, <2>7, <2>8, <2>9
<1> QED BY <1>2, <1>9, <1>13, <1>14, <1>15, <1>16 DEF CheckFits

\* A server that a quarantine reads is counted for what it has been all the while; with
\* the last one the share of its region is known.
LEMMA CountedFits ==
    ASSUME TypeOK, FramesFit, NEW c \in Callers, NEW s \in Servers, Count(c, s), NEW safe,
           RegionFits(auto[c], seen[c], safe)
    PROVE  /\ CountFits(CountedIn(c, s), seen[c], RegionOf[s])
           /\ Reported(CountedIn(c, s), seen[c], safe)
           /\ CountedIn(c, s).left = {} =>
                IF ReachesThreshold(CountedIn(c, s).unstable, auto[c].threshold, RegionOf[s])
                THEN Justified(CountedIn(c, s), seen[c], RegionOf[s])
                ELSE Settled(CountedIn(c, s), seen[c], safe, RegionOf[s])
<1> DEFINE k == CountedIn(c, s)
           r == RegionOf[s]
           view == seen[c]
           sick == Always(view, {"degraded"})
           calm == Always(view, {"calm"})
           counted == InRegion(r) \ auto[c].left
<1>1. /\ auto[c] \in AutoCheck /\ auto[c].pc = "count" /\ s \in auto[c].left
      /\ auto[c].region = {r} /\ auto[c].left \subseteq InRegion(r)
  BY CountIs
<1>2. /\ k \in AutoCheck /\ k.threshold = auto[c].threshold
      /\ k.region = auto[c].region /\ k.todo = auto[c].todo
      /\ k.reported = auto[c].reported /\ k.left = auto[c].left \ {s}
      /\ k.unstable = auto[c].unstable + OneIf(IsUnstable(s))
  BY CountIs
<1>3. IsUnstable(s) => s \notin calm
  <2>1. SeenBy(c, ConditionOf(servers[s])) \in view[s]
    BY <1>1, CallersApart DEF FramesFit, CurrentSeen, Underway, Names
  <2>2. IsUnstable(s) => SeenBy(c, ConditionOf(servers[s])) = "degraded"
    BY SeenByIs, CallersApart DEF TypeOK, IsUnstable, Names
  <2> QED BY <2>1, <2>2 DEF Always
<1>4. s \in sick => IsUnstable(s)
  <2>1. SeenBy(c, ConditionOf(servers[s])) \in view[s]
    BY <1>1, CallersApart DEF FramesFit, CurrentSeen, Underway, Names
  <2>2. ~IsUnstable(s) => SeenBy(c, ConditionOf(servers[s])) = "calm"
    BY SeenByIs, CallersApart DEF TypeOK, IsUnstable, Names
  <2> QED BY <2>1, <2>2 DEF Always
<1>5. /\ auto[c].unstable >= Cardinality(counted \cap sick)
      /\ auto[c].unstable <= Cardinality(counted \ calm)
  <2>1. CountFits(auto[c], view, r)
    BY <1>1 DEF RegionFits
  <2> QED BY <2>1 DEF CountFits
<1>6. Reported(k, view, safe)
  <2>1. Reported(auto[c], view, safe)
    BY <1>1 DEF RegionFits
  <2> HIDE DEF k, view
  <2>2. \A q : /\ Settled(k, view, safe, q) <=> Settled(auto[c], view, safe, q)
               /\ Justified(k, view, q) <=> Justified(auto[c], view, q)
    BY <1>2 DEF Settled, Justified
  <2> QED BY <1>2, <2>1, <2>2 DEF Reported
<1>7. auto[c].unstable \in Nat /\ auto[c].threshold \in AutoCheck \cup OperatorThresholds \cup {30}
  BY <1>1 DEF AutoCheck
<1>8. /\ counted \in SUBSET Servers /\ s \in Servers \ counted
      /\ InRegion(r) \ k.left = counted \cup {s}
  BY <1>1, <1>2 DEF InRegion
<1>9. /\ OneIf(IsUnstable(s)) \in {0, 1}
      /\ s \in sick => OneIf(IsUnstable(s)) = 1
      /\ OneIf(IsUnstable(s)) = 1 => s \notin calm
  BY <1>3, <1>4 DEF OneIf
<1> DEFINE one == OneIf(IsUnstable(s))
<1> HIDE DEF k, r, view, sick, calm, counted, one
<1>10. /\ auto[c].unstable + one >= Cardinality((counted \cup {s}) \cap sick)
       /\ auto[c].unstable + one <= Cardinality((counted \cup {s}) \ calm)
  <2>1. counted \in SUBSET Servers /\ s \in Servers /\ s \notin counted
    BY <1>8
  <2>2. /\ one \in {0, 1} /\ (s \in sick => one = 1) /\ (one = 1 => s \notin calm)
    BY <1>9 DEF one
  <2> QED BY <1>5, <1>7, <2>1, <2>2, OneCounted
<1>11. k.unstable = auto[c].unstable + one
  BY <1>2 DEF one
<1>12. k.unstable >= Cardinality((counted \cup {s}) \cap sick)
  BY <1>10, <1>11
<1>13. k.unstable <= Cardinality((counted \cup {s}) \ calm)
  BY <1>10, <1>11
<1>14. CountFits(k, view, r)
  BY <1>8, <1>12, <1>13 DEF CountFits, sick, calm
<1>15. ASSUME k.left = {}
       PROVE  IF ReachesThreshold(k.unstable, auto[c].threshold, r)
              THEN Justified(k, view, r) ELSE Settled(k, view, safe, r)
  <2>1. counted \cup {s} = InRegion(r)
    BY <1>8, <1>15
  <2> DEFINE bar == k.threshold * Size(r)
             low == Cardinality(InRegion(r) \cap sick)
             high == Cardinality(InRegion(r) \ calm)
  <2>2. bar \in Nat /\ low \in Nat /\ high \in Nat
    BY <1>2, Shares DEF sick, calm
  <2>3. k.unstable >= low /\ k.unstable <= high
    BY <1>12, <1>13, <2>1
  <2>4. k.unstable \in Nat
    BY <1>2 DEF AutoCheck
  <2>5. ReachesThreshold(k.unstable, auto[c].threshold, r) <=> k.unstable * 100 >= bar
    BY <1>2 DEF ReachesThreshold, Size
  <2>6. /\ Justified(k, view, r) <=> 100 * high >= bar
        /\ Settled(k, view, safe, r) <=> (100 * low >= bar => r \in safe)
    BY DEF Justified, Settled, sick, calm
  <2> HIDE DEF bar, low, high
  <2>7. k.unstable * 100 >= bar => 100 * high >= bar
    BY <2>2, <2>3, <2>4
  <2>8. ~(k.unstable * 100 >= bar) => ~(100 * low >= bar)
    BY <2>2, <2>3, <2>4
  <2> QED BY <2>5, <2>6, <2>7, <2>8
<1>16. CountFits(k, view, r) /\ Reported(k, view, safe)
  BY <1>6, <1>14
<1> QED BY <1>15, <1>16 DEF k, view, r

\* The frame with which each step of a quarantine goes on answers for its regions.
LEMMA CountGoes ==
    ASSUME TypeOK, FramesFit, NEW c \in Callers, NEW s \in Servers, Count(c, s), NEW safe,
           RegionFits(auto[c], seen[c], safe)
    PROVE  RegionFits(auto'[c], seen[c], safe)
<1> DEFINE k == CountedIn(c, s)
           r == RegionOf[s]
           asking == [k EXCEPT !.pc = "ask", !.unstable = 0]
<1>1. /\ k \in AutoCheck /\ k.pc = "count" /\ k.region = {r} /\ r \in Grouped
      /\ k.todo \subseteq Grouped \ {r}
  <2>1. /\ CountedIn(c, s) \in AutoCheck /\ CountedIn(c, s).pc = "count"
        /\ CountedIn(c, s).region = auto[c].region /\ auto[c].region = {RegionOf[s]}
        /\ RegionOf[s] \in Grouped /\ CountedIn(c, s).todo = auto[c].todo
        /\ auto[c].todo \subseteq Grouped \ {RegionOf[s]}
    BY CountIs
  <2> QED BY <2>1
<1>2. /\ CountFits(k, seen[c], r) /\ Reported(k, seen[c], safe)
      /\ k.left = {} => IF ReachesThreshold(k.unstable, auto[c].threshold, r)
                        THEN Justified(k, seen[c], r) ELSE Settled(k, seen[c], safe, r)
  BY CountedFits
<1>3. auto \in [Callers -> AutoCheck]
  BY DEF TypeOK
<1>4. \A frame : Goes(c, frame) => auto'[c] = frame
  BY <1>3 DEF Goes
<1>5. \/ k.left # {} /\ Goes(c, k)
      \/ k.left = {} /\ ReachesThreshold(k.unstable, auto[c].threshold, r) /\ Goes(c, asking)
      \/ k.left = {} /\ ~ReachesThreshold(k.unstable, auto[c].threshold, r) /\ Goes(c, Onward(k))
  BY CountIs
<1>6. CASE k.left # {} /\ Goes(c, k)
  <2>1. RegionFits(k, seen[c], safe)
    <3> HIDE DEF k
    <3> QED BY <1>1, <1>2 DEF RegionFits
  <2>2. auto'[c] = k
    BY <1>4, <1>6
  <2> QED BY <2>1, <2>2
<1>7. CASE /\ k.left = {} /\ ReachesThreshold(k.unstable, auto[c].threshold, r)
           /\ Goes(c, asking)
  <2>1. auto'[c] = asking
    BY <1>4, <1>7
  <2> HIDE DEF k, r
  <2>2. /\ asking.pc = "ask" /\ asking.threshold = k.threshold /\ asking.region = k.region
        /\ asking.todo = k.todo /\ asking.reported = k.reported
    BY <1>1 DEF AutoCheck
  <2> HIDE DEF asking
  <2>3. \A q : /\ Settled(asking, seen[c], safe, q) <=> Settled(k, seen[c], safe, q)
               /\ Justified(asking, seen[c], q) <=> Justified(k, seen[c], q)
    BY <2>2 DEF Settled, Justified
  <2>4. Reported(asking, seen[c], safe)
    BY <1>2, <2>2, <2>3 DEF Reported
  <2>5. Justified(asking, seen[c], r)
    BY <1>2, <1>7, <2>3
  <2>6. RegionFits(asking, seen[c], safe)
    BY <1>1, <2>2, <2>4, <2>5 DEF RegionFits
  <2> QED BY <2>1, <2>6
<1>8. CASE /\ k.left = {} /\ ~ReachesThreshold(k.unstable, auto[c].threshold, r)
           /\ Goes(c, Onward(k))
  <2>1. auto'[c] = Onward(k)
    BY <1>4, <1>8
  <2> HIDE DEF k, r
  <2>2. Settled(k, seen[c], safe, r)
    BY <1>2, <1>8
  <2>3. \A q \in Grouped \ k.todo : Settled(k, seen[c], safe, q)
    BY <1>1, <1>2, <2>2 DEF Reported
  <2>4. k.reported \subseteq Grouped \ k.todo /\ k.todo \subseteq Grouped
    BY <1>1, <1>2 DEF Reported
  <2>5. \A q \in k.reported : q \in safe /\ Justified(k, seen[c], q)
    BY <1>2 DEF Reported
  <2>6. RegionFits(Onward(k), seen[c], safe)
    BY <1>1, <2>3, <2>4, <2>5, OnwardFits
  <2> QED BY <2>1, <2>6
<1> QED BY <1>5, <1>6, <1>7, <1>8

LEMMA AskGoes ==
    ASSUME TypeOK, FramesFit, NEW c \in Callers, AskQuarantined(c), NEW safe,
           quarantined \subseteq safe, RegionFits(auto[c], seen[c], safe)
    PROVE  RegionFits(auto'[c], seen[c], safe)
<1>1. auto[c].pc = "ask" /\ auto \in [Callers -> AutoCheck] /\ auto[c] \in AutoCheck
  BY DEF AskQuarantined, TypeOK
<1>2. PICK r \in Grouped : auto[c].region = {r} /\ auto[c].todo \subseteq Grouped \ {r}
  BY <1>1 DEF FramesFit, FrameFits
<1>3. Reported(auto[c], seen[c], safe) /\ Justified(auto[c], seen[c], r)
  BY <1>1, <1>2 DEF RegionFits
<1>4. CASE auto[c].region \subseteq quarantined
  <2>1. auto'[c] = Onward(auto[c])
    BY <1>1, <1>4 DEF AskQuarantined, Goes
  <2>2. \A q \in Grouped \ auto[c].todo : Settled(auto[c], seen[c], safe, q)
    BY <1>2, <1>3, <1>4 DEF Reported, Settled
  <2>3. /\ auto[c].reported \subseteq Grouped \ auto[c].todo /\ auto[c].todo \subseteq Grouped
        /\ \A q \in auto[c].reported : q \in safe /\ Justified(auto[c], seen[c], q)
    BY <1>2, <1>3 DEF Reported
  <2>4. RegionFits(Onward(auto[c]), seen[c], safe)
    BY <1>1, <2>2, <2>3, OnwardFits
  <2> QED BY <2>1, <2>4
<1>5. CASE ~(auto[c].region \subseteq quarantined)
  <2> DEFINE next == [auto[c] EXCEPT !.pc = "act"]
  <2>1. auto'[c] = next
    BY <1>1, <1>5 DEF AskQuarantined, Goes
  <2>2. /\ next.pc = "act" /\ next.threshold = auto[c].threshold
        /\ next.region = auto[c].region /\ next.todo = auto[c].todo
        /\ next.reported = auto[c].reported
    BY <1>1 DEF AutoCheck
  <2> HIDE DEF next
  <2>3. \A q : /\ Settled(next, seen[c], safe, q) <=> Settled(auto[c], seen[c], safe, q)
               /\ Justified(next, seen[c], q) <=> Justified(auto[c], seen[c], q)
    BY <2>2 DEF Settled, Justified
  <2>4. Reported(next, seen[c], safe)
    BY <1>3, <2>2, <2>3 DEF Reported
  <2>5. RegionFits(next, seen[c], safe)
    BY <1>2, <1>3, <2>2, <2>3, <2>4 DEF RegionFits
  <2> QED BY <2>1, <2>5
<1> QED BY <1>4, <1>5

LEMMA ActGoes ==
    ASSUME TypeOK, FramesFit, NEW c \in Callers, QuarantineRegion(c), NEW safe, NEW safer,
           RegionFits(auto[c], seen[c], safe), safe \subseteq safer, auto[c].region \subseteq safer
    PROVE  RegionFits(auto'[c], seen[c], safer)
<1>1. auto[c].pc = "act" /\ auto \in [Callers -> AutoCheck] /\ auto[c] \in AutoCheck
  BY DEF QuarantineRegion, TypeOK
<1>2. PICK r \in Grouped : auto[c].region = {r} /\ auto[c].todo \subseteq Grouped \ {r}
  BY <1>1 DEF FramesFit, FrameFits
<1>3. Reported(auto[c], seen[c], safe) /\ Justified(auto[c], seen[c], r)
  BY <1>1, <1>2 DEF RegionFits
<1> DEFINE k == [auto[c] EXCEPT !.reported = @ \cup auto[c].region]
<1>4. auto'[c] = Onward(k)
  BY <1>1 DEF QuarantineRegion, Goes
<1>5. k \in AutoCheck
  BY <1>1, FrameTypes
<1>6. /\ k.threshold = auto[c].threshold /\ k.todo = auto[c].todo
      /\ k.reported = auto[c].reported \cup {r}
  BY <1>1, <1>2 DEF AutoCheck
<1> HIDE DEF k
<1>7. \A q : /\ Settled(auto[c], seen[c], safe, q) => Settled(k, seen[c], safer, q)
             /\ q \in safer => Settled(k, seen[c], safer, q)
             /\ Justified(k, seen[c], q) <=> Justified(auto[c], seen[c], q)
  BY <1>6 DEF Settled, Justified
<1>8. \A q \in Grouped \ k.todo : Settled(k, seen[c], safer, q)
  BY <1>2, <1>3, <1>6, <1>7 DEF Reported
<1>9. k.todo \subseteq Grouped /\ k.reported \subseteq Grouped \ k.todo
  BY <1>2, <1>3, <1>6 DEF Reported
<1>10. \A q \in k.reported : q \in safer /\ Justified(k, seen[c], q)
  BY <1>2, <1>3, <1>6, <1>7 DEF Reported
<1>11. RegionFits(Onward(k), seen[c], safer)
  BY <1>5, <1>8, <1>9, <1>10, OnwardFits
<1> QED BY <1>4, <1>11

-----------------------------------------------------------------------------
(***************************************************************************)
(* Every step keeps what the counts and the reports say.                   *)
(***************************************************************************)
LEMMA HealthInit == Init => HealthInvariant
<1> SUFFICES ASSUME Init PROVE HealthInvariant
  OBVIOUS
<1>1. check.pc = "idle" /\ \A c \in Callers : auto[c].pc = "idle"
  BY DEF Init, NoCheck, NoAuto
<1> QED BY <1>1 DEF HealthInvariant, CheckFits, RegionFits

\* Steps that leave the frames alone, and let the calls see more, or more regions
\* be quarantined or released.
LEMMA FrameKept ==
    ASSUME TypeOK, HealthInvariant, NEW c \in Callers, auto'[c] = auto[c],
           auto[c].pc # "idle" =>
              /\ \A s \in Servers : seen[c][s] \subseteq seen'[c][s]
              /\ quarantined \cup released[c] \subseteq quarantined' \cup released'[c]
    PROVE  RegionFits(auto'[c], seen'[c], quarantined' \cup released'[c])
<1>1. auto[c] \in AutoCheck /\ RegionFits(auto[c], seen[c], quarantined \cup released[c])
  BY DEF TypeOK, HealthInvariant
<1>2. CASE auto[c].pc = "idle"
  BY <1>2 DEF RegionFits
<1>3. CASE auto[c].pc # "idle"
  <2>1. RegionFits(auto[c], seen'[c], quarantined' \cup released'[c])
    BY <1>1, <1>3, RegionKept
  <2> QED BY <2>1
<1> QED BY <1>2, <1>3

LEMMA SeenMore ==
    ASSUME TypeOK, HealthInvariant, UNCHANGED <<quarantined, check, auto, released>>,
           \A c \in Names, s \in Servers : seen[c][s] \subseteq seen'[c][s]
    PROVE  HealthInvariant'
<1>1. CheckFits(check', seen'["check"])
  <2>1. check \in Check /\ CheckFits(check, seen["check"])
    BY DEF TypeOK, HealthInvariant
  <2>2. \A s \in Servers : seen["check"][s] \subseteq seen'["check"][s]
    BY DEF Names
  <2>3. CheckFits(check, seen'["check"])
    BY <2>1, <2>2, CheckKept
  <2> QED BY <2>3
<1>2. ASSUME NEW c \in Callers
      PROVE  RegionFits(auto'[c], seen'[c], quarantined' \cup released'[c])
  BY FrameKept DEF Names
<1> QED BY <1>1, <1>2 DEF HealthInvariant

\* A step of a quarantine whose next frame answers for its regions.
LEMMA GoesFits ==
    ASSUME TypeOK, HealthInvariant, NEW c \in Callers, NEW frame, Goes(c, frame),
           quarantined \subseteq quarantined', UNCHANGED check,
           RegionFits(auto'[c], seen[c], quarantined' \cup released[c])
    PROVE  HealthInvariant'
<1>1. /\ auto \in [Callers -> AutoCheck] /\ released \in [Callers -> SUBSET Regions]
      /\ seen \in [Names -> [Servers -> SUBSET Condition]]
  BY DEF TypeOK, Names
<1>2. c \in Names /\ c # "check"
  BY CallersApart DEF Names
<1>3. auto'[c] = frame /\ \A d \in Callers \ {c} : auto'[d] = auto[d]
  BY <1>1 DEF Goes
<1>4. /\ \A d \in Names \ {c} : seen'[d] = seen[d]
      /\ \A d \in Callers \ {c} : released'[d] = released[d]
      /\ frame.pc # "idle" => seen' = seen /\ released' = released
  BY <1>1 DEF Goes
<1>5. CheckFits(check', seen'["check"])
  BY <1>2, <1>4 DEF HealthInvariant, Names
<1>6. ASSUME NEW d \in Callers
      PROVE  RegionFits(auto'[d], seen'[d], quarantined' \cup released'[d])
  <2>1. CASE d = c
    <3>1. CASE frame.pc = "idle"
      BY <1>3, <2>1, <3>1 DEF RegionFits
    <3>2. CASE frame.pc # "idle"
      BY <1>4, <2>1, <3>2
    <3> QED BY <3>1, <3>2
  <2>2. CASE d # c
    <3>1. auto'[d] = auto[d] /\ seen'[d] = seen[d] /\ released'[d] = released[d]
      BY <1>3, <1>4, <2>2 DEF Names
    <3> QED BY <3>1, FrameKept
  <2> QED BY <2>1, <2>2
<1> QED BY <1>5, <1>6 DEF HealthInvariant

LEMMA HealthNext ==
    TypeOK /\ FramesFit /\ HealthInvariant /\ [Next]_vars => HealthInvariant'
<1> SUFFICES ASSUME TypeOK, FramesFit, HealthInvariant, [Next]_vars PROVE HealthInvariant'
  OBVIOUS
<1>0. /\ check \in Check /\ chaos \in Chaos /\ servers \in [Servers -> Server]
      /\ auto \in [Callers -> AutoCheck] /\ released \in [Callers -> SUBSET Regions]
      /\ seen \in [Names -> [Servers -> SUBSET Condition]]
  BY DEF TypeOK, Names
<1>1. ASSUME NEW limits \in Limits, CheckBegins(limits)
      PROVE  HealthInvariant'
  <2>1. /\ check' = [NoCheck EXCEPT !.pc = "scan", !.left = Servers, !.limits = limits]
        /\ seen' = [seen EXCEPT !["check"] = Now("check")]
        /\ UNCHANGED <<quarantined, auto, released>>
    BY <1>1 DEF CheckBegins
  <2>2. /\ check'.left = Servers /\ check'.limits = limits /\ check'.degraded = 0
        /\ check'.failed = 0 /\ check'.unhealthy = 0 /\ check'.cpu = 0 /\ check'.memory = 0
    BY <2>1 DEF NoCheck
  <2>3. Cardinality({}) = 0
    BY FS_EmptySet
  <2>4. Servers \ check'.left = {}
    BY <2>2
  <2>5. \A conditions : Many(check', seen'["check"], conditions) = 0
    BY <2>3, <2>4 DEF Many
  <2>6. Cardinality(Servers \ check'.left) = 0
    BY <2>3, <2>4
  <2>7. CheckFits(check', seen'["check"])
    BY <2>2, <2>5, <2>6 DEF CheckFits
  <2>8. \A c \in Callers : seen'[c] = seen[c]
    BY <1>0, <2>1, CallersApart DEF Names
  <2>9. \A c \in Callers : RegionFits(auto'[c], seen'[c], quarantined' \cup released'[c])
    BY <2>1, <2>8 DEF HealthInvariant
  <2> QED BY <2>7, <2>9 DEF HealthInvariant
<1>2. ASSUME NEW s \in Servers, Evaluate(s)
      PROVE  HealthInvariant'
  <2>1. UNCHANGED <<quarantined, auto, seen, released>>
    BY <1>2 DEF Evaluate, history
  <2>2. CheckFits(check', seen["check"])
    BY <1>2, EvaluateFits DEF HealthInvariant
  <2> QED BY <2>1, <2>2 DEF HealthInvariant
<1>3. ASSUME Conclude
      PROVE  HealthInvariant'
  <2>1. /\ check' = [NoCheck EXCEPT !.pc = IF OverallPassed THEN "passed" ELSE "violated"]
        /\ seen' = [seen EXCEPT !["check"] = Unseen]
        /\ UNCHANGED <<quarantined, auto, released>>
    BY <1>3 DEF Conclude
  <2>2. check'.pc # "scan"
    BY <2>1 DEF NoCheck
  <2>3. \A c \in Callers : seen'[c] = seen[c]
    BY <1>0, <2>1, CallersApart DEF Names
  <2>4. \A c \in Callers : RegionFits(auto'[c], seen'[c], quarantined' \cup released'[c])
    BY <2>1, <2>3 DEF HealthInvariant
  <2> QED BY <2>2, <2>4 DEF HealthInvariant, CheckFits
<1>4. ASSUME UNCHANGED <<quarantined, check, auto, seen, released>>
      PROVE  HealthInvariant'
  BY <1>4 DEF HealthInvariant
<1>5. ASSUME NEW kind \in Kind, NEW candidates \in CandidateSets, NEW rate \in Rates,
             ChaosBegins(kind, candidates, rate)
      PROVE  HealthInvariant'
  BY <1>4, <1>5 DEF ChaosBegins, history
<1>6. ASSUME NEW s \in Servers, Look(s)
      PROVE  HealthInvariant'
  BY <1>4, <1>6 DEF Look, history
<1>7. ASSUME NEW s \in Servers, NEW server \in Server, Become(s, server),
             UNCHANGED <<quarantined, check, auto, released>>
      PROVE  HealthInvariant'
  <2>1. \A c \in Names, x \in Servers : seen[c][x] \subseteq seen'[c][x]
    BY <1>7, ChangeTypes
  <2> QED BY <1>7, <2>1, SeenMore
<1>8. ASSUME NEW s \in Servers, WriteStatus(s)
      PROVE  HealthInvariant'
  <2>1. UNCHANGED <<quarantined, check, auto, released>>
    BY <1>8 DEF WriteStatus
  <2>2. CASE chaos.new # servers[s].status
    <3>1. Become(s, [servers[s] EXCEPT !.status = chaos.new])
      BY <1>8, <2>2 DEF WriteStatus, UpdateServerStatus
    <3>2. [servers[s] EXCEPT !.status = chaos.new] \in Server
      BY <1>0, ServerTypes DEF Chaos
    <3> QED BY <1>7, <2>1, <3>1, <3>2
  <2>3. CASE ~(chaos.new # servers[s].status)
    BY <1>4, <1>8, <2>1, <2>3 DEF WriteStatus
  <2> QED BY <2>2, <2>3
<1>9. ASSUME NEW s \in Servers, WriteLoad(s)
      PROVE  HealthInvariant'
  <2>1. /\ UNCHANGED <<quarantined, check, auto, released>>
        /\ Become(s, [servers[s] EXCEPT !.load = Injected(chaos.kind)])
    BY <1>9 DEF WriteLoad, UpdateServerResources
  <2>2. [servers[s] EXCEPT !.load = Injected(chaos.kind)] \in Server
    BY <1>0, ServerTypes DEF Chaos
  <2> QED BY <1>7, <2>1, <2>2
<1>10. ASSUME NEW c \in Callers, NEW threshold \in OperatorThresholds \cup {30},
              AutoBegins(c, threshold)
       PROVE  HealthInvariant'
  <2> DEFINE frame == [NoAuto EXCEPT !.threshold = threshold, !.todo = Grouped]
             safe == quarantined' \cup released'[c]
  <2>1. /\ auto' = [auto EXCEPT ![c] = Onward(frame)] /\ seen' = [seen EXCEPT ![c] = Now(c)]
        /\ UNCHANGED <<quarantined, released>>
    BY <1>10 DEF AutoBegins
  <2>2. frame \in AutoCheck /\ frame.todo = Grouped /\ frame.reported = {}
    <3>1. Grouped \in SUBSET Regions
      BY HealthAssumption DEF Grouped
    <3> QED BY <3>1, NoFrames DEF NoAuto, AutoCheck
  <2> HIDE DEF frame
  <2>3. RegionFits(Onward(frame), seen'[c], safe)
    <3> DEFINE view == seen'[c]
    <3> HIDE DEF view, safe
    <3>1. \A r \in Grouped \ frame.todo : Settled(frame, view, safe, r)
      BY <2>2
    <3>2. frame.todo \subseteq Grouped /\ frame.reported \subseteq Grouped \ frame.todo
      BY <2>2
    <3>3. \A r \in frame.reported : r \in safe /\ Justified(frame, view, r)
      BY <2>2
    <3>4. RegionFits(Onward(frame), view, safe)
      BY <2>2, <3>1, <3>2, <3>3, OnwardFits
    <3> QED BY <3>4 DEF view
  <2>4. /\ auto'[c] = Onward(frame)
        /\ \A d \in Callers \ {c} : auto'[d] = auto[d] /\ seen'[d] = seen[d]
        /\ seen'["check"] = seen["check"]
    BY <1>0, <2>1, CallersApart DEF Names
  <2>5. \A d \in Callers : RegionFits(auto'[d], seen'[d], quarantined' \cup released'[d])
    <3> SUFFICES ASSUME NEW d \in Callers
                 PROVE  RegionFits(auto'[d], seen'[d], quarantined' \cup released'[d])
      OBVIOUS
    <3>1. CASE d = c
      BY <2>3, <2>4, <3>1
    <3>2. CASE d # c
      BY <2>1, <2>4, <3>2 DEF HealthInvariant
    <3> QED BY <3>1, <3>2
  <2>6. CheckFits(check', seen'["check"])
    <3>1. check' = NoCheck \/ check' = check
      BY <1>10 DEF AutoBegins
    <3>2. CASE check' = NoCheck
      BY <3>2 DEF CheckFits, NoCheck
    <3>3. CASE check' = check
      BY <2>4, <3>3 DEF HealthInvariant
    <3> QED BY <3>1, <3>2, <3>3
  <2> QED BY <2>5, <2>6 DEF HealthInvariant
<1>11. ASSUME NEW c \in Callers, NEW s \in Servers, Count(c, s)
       PROVE  HealthInvariant'
  <2> DEFINE safe == quarantined \cup released[c]
  <2>1. quarantined' = quarantined /\ UNCHANGED check /\ \E frame : Goes(c, frame)
    BY <1>11 DEF Count
  <2>2. RegionFits(auto[c], seen[c], safe)
    BY DEF HealthInvariant
  <2>3. RegionFits(auto'[c], seen[c], safe)
    <3> HIDE DEF safe
    <3> QED BY <1>11, <2>2, CountGoes
  <2>4. PICK frame : Goes(c, frame)
    BY <2>1
  <2>5. RegionFits(auto'[c], seen[c], quarantined' \cup released[c])
    BY <2>1, <2>3
  <2> QED BY <2>1, <2>4, <2>5, GoesFits
<1>12. ASSUME NEW c \in Callers, AskQuarantined(c)
       PROVE  HealthInvariant'
  <2> DEFINE safe == quarantined \cup released[c]
  <2>1. quarantined' = quarantined /\ UNCHANGED check /\ \E frame : Goes(c, frame)
    BY <1>12 DEF AskQuarantined
  <2>2. RegionFits(auto[c], seen[c], safe) /\ quarantined \subseteq safe
    BY DEF HealthInvariant
  <2>3. RegionFits(auto'[c], seen[c], safe)
    <3> HIDE DEF safe
    <3> QED BY <1>12, <2>2, AskGoes
  <2>4. PICK frame : Goes(c, frame)
    BY <2>1
  <2>5. RegionFits(auto'[c], seen[c], quarantined' \cup released[c])
    BY <2>1, <2>3
  <2> QED BY <2>1, <2>4, <2>5, GoesFits
<1>13. ASSUME NEW c \in Callers, QuarantineRegion(c)
       PROVE  HealthInvariant'
  <2> DEFINE safe == quarantined \cup released[c]
             safer == quarantined' \cup released[c]
  <2>1. /\ quarantined' = quarantined \cup auto[c].region /\ UNCHANGED check
        /\ \E frame : Goes(c, frame)
    BY <1>13 DEF QuarantineRegion
  <2>2. /\ RegionFits(auto[c], seen[c], safe) /\ safe \subseteq safer
        /\ auto[c].region \subseteq safer
    BY <2>1 DEF HealthInvariant
  <2>3. RegionFits(auto'[c], seen[c], safer)
    <3> HIDE DEF safe, safer
    <3> QED BY <1>13, <2>2, ActGoes
  <2>4. PICK frame : Goes(c, frame)
    BY <2>1
  <2> QED BY <2>1, <2>3, <2>4, GoesFits
<1>14. ASSUME NEW s \in Servers, NEW st \in Observed, ChangeStatus(s, st)
       PROVE  HealthInvariant'
  <2>1. /\ Become(s, [servers[s] EXCEPT !.status = st])
        /\ UNCHANGED <<quarantined, check, auto, released>>
    BY <1>14 DEF ChangeStatus, UpdateServerStatus, calls
  <2>2. [servers[s] EXCEPT !.status = st] \in Server
    BY <1>0, ServerTypes, HealthAssumption
  <2> QED BY <1>7, <2>1, <2>2
<1>15. ASSUME NEW r \in Regions, ReleaseRegion(r)
       PROVE  HealthInvariant'
  <2>1. /\ quarantined' = quarantined \ {r} /\ UNCHANGED <<check, auto, seen>>
        /\ released' = [c \in Callers |-> IF Underway(c) THEN released[c] \cup {r} ELSE {}]
    BY <1>15 DEF ReleaseRegion, calls
  <2>2. ASSUME NEW c \in Callers
        PROVE  RegionFits(auto'[c], seen'[c], quarantined' \cup released'[c])
    <3>1. ASSUME auto[c].pc # "idle"
          PROVE  /\ \A s \in Servers : seen[c][s] \subseteq seen'[c][s]
                 /\ quarantined \cup released[c] \subseteq quarantined' \cup released'[c]
      <4>1. Underway(c)
        BY <3>1, CallersApart DEF Underway
      <4>2. released'[c] = released[c] \cup {r}
        BY <2>1, <4>1
      <4> QED BY <2>1, <4>2
    <3>2. auto'[c] = auto[c]
      BY <2>1
    <3> QED BY <3>1, <3>2, FrameKept
  <2>3. CheckFits(check', seen'["check"])
    BY <2>1 DEF HealthInvariant
  <2> QED BY <2>2, <2>3 DEF HealthInvariant
<1>16. ASSUME UNCHANGED vars
       PROVE  HealthInvariant'
  BY <1>4, <1>16 DEF vars, calls, history
<1> QED BY <1>1, <1>2, <1>3, <1>5, <1>6, <1>8, <1>9, <1>10, <1>11, <1>12, <1>13, <1>14, <1>15,
           <1>16 DEF Next

(***************************************************************************)
(* The inductive invariant: a check's counts, and a quarantine's counts    *)
(* and reports, say of the servers what a call has seen of them.           *)
(***************************************************************************)
THEOREM InvariantHolds == Spec => [](TypeOK /\ FramesFit /\ HealthInvariant)
  BY TypeInit, TypeNext, HealthInit, HealthNext, PTL DEF Spec

-----------------------------------------------------------------------------
(***************************************************************************)
(* The verdict of a health check.                                          *)
(***************************************************************************)
LEMMA ThroughoutIs ==
    ASSUME NEW c, NEW conditions
    PROVE  Throughout(c, conditions) = Always(seen[c], conditions)
  BY DEF Throughout, Always

LEMMA VerdictStep ==
    ASSUME TypeOK, HealthInvariant, Conclude
    PROVE  Verdict(check.limits)
<1> DEFINE view == seen["check"]
           n == Cardinality(Servers)
           many(conditions) == Cardinality(Always(view, conditions))
<1>1. /\ check \in Check /\ check.pc = "scan" /\ check.left = {}
      /\ check' = [NoCheck EXCEPT !.pc = IF OverallPassed THEN "passed" ELSE "violated"]
  BY DEF TypeOK, Conclude
<1>2. /\ check'.pc = "passed" => OverallPassed
      /\ check'.pc = "violated" => ~OverallPassed
  BY <1>1 DEF NoCheck
<1>3. \A conditions : /\ Always(view, conditions) \in SUBSET Servers
                      /\ Many(check, view, conditions) = many(conditions)
                      /\ many(conditions) \in Nat
  <2> TAKE conditions
  <2>1. Always(view, conditions) \in SUBSET Servers
    BY DEF Always
  <2>2. (Servers \ check.left) \cap Always(view, conditions) = Always(view, conditions)
    BY <1>1, <2>1
  <2> HIDE DEF view
  <2> QED BY <2>1, <2>2, Finite DEF Many
<1>4. /\ check.limits \in Limits
      /\ check.degraded >= many({"degraded"}) /\ check.failed >= many({"failed"})
      /\ check.unhealthy >= many(Sick)
  BY <1>1, <1>3 DEF HealthInvariant, CheckFits
<1>5. /\ check.degraded \in Nat /\ check.failed \in Nat /\ check.unhealthy \in Nat
      /\ check.cpu \in Nat /\ check.memory \in Nat
  BY <1>1 DEF Check
<1>6. n \in Nat
  BY Finite
<1>7. /\ check.limits.degraded \in Nat /\ check.limits.failed \in Nat
      /\ check.limits.unhealthy \in Nat
  <2>1. check.limits \in [degraded : 0..100, failed : 0..100, unhealthy : 0..100]
    BY <1>4, HealthAssumption
  <2> QED BY <2>1
<1>8. /\ check.limits.degraded * n \in Nat /\ check.limits.failed * n \in Nat
      /\ check.limits.unhealthy * n \in Nat
  BY <1>6, <1>7
<1> HIDE DEF n, view, many
<1>9. ASSUME OverallPassed
      PROVE  /\ ~Exceeds(many({"degraded"}), check.limits.degraded)
             /\ ~Exceeds(many({"failed"}), check.limits.failed)
             /\ ~Exceeds(many(Sick), check.limits.unhealthy)
  <2>1. /\ ~(check.degraded * 100 > check.limits.degraded * n)
        /\ ~(check.failed * 100 > check.limits.failed * n)
        /\ ~(check.unhealthy * 100 > check.limits.unhealthy * n)
    BY <1>9 DEF OverallPassed, Exceeds, n
  <2>2. ~(many({"degraded"}) * 100 > check.limits.degraded * n)
    BY <1>3, <1>4, <1>5, <1>8, <2>1
  <2>3. ~(many({"failed"}) * 100 > check.limits.failed * n)
    BY <1>3, <1>4, <1>5, <1>8, <2>1
  <2>4. ~(many(Sick) * 100 > check.limits.unhealthy * n)
    BY <1>3, <1>4, <1>5, <1>8, <2>1
  <2> QED BY <2>2, <2>3, <2>4 DEF Exceeds, n
<1>10. ASSUME ~OverallPassed
       PROVE  many({"calm"}) < n
  <2> SUFFICES ASSUME ~(many({"calm"}) < n) PROVE FALSE
    OBVIOUS
  <2>1. Always(view, {"calm"}) = Servers
    <3>1. /\ Always(view, {"calm"}) \in SUBSET Servers
          /\ Cardinality(Always(view, {"calm"})) <= Cardinality(Servers)
          /\ ~(Cardinality(Always(view, {"calm"})) < Cardinality(Servers))
          /\ Cardinality(Always(view, {"calm"})) \in Nat
      BY <1>3, Fewer DEF many, n
    <3>2. Cardinality(Always(view, {"calm"})) = Cardinality(Servers)
      BY <1>6, <3>1 DEF n
    <3>3. IsFiniteSet(Servers)
      BY HealthAssumption
    <3> QED BY <3>1, <3>2, <3>3, FS_Subset
  <2>2. /\ check.degraded = 0 /\ check.failed = 0 /\ check.unhealthy = 0
        /\ check.cpu <= 70 * n /\ check.memory <= 70 * n
    <3>1. Servers \ check.left = Servers
      BY <1>1
    <3> QED BY <1>1, <2>1, <3>1 DEF HealthInvariant, CheckFits, n, view
  <2>3. ~(check.cpu > 75 * n) /\ ~(check.memory > 80 * n)
    BY <1>5, <1>6, <2>2
  <2>4. /\ ~(check.degraded * 100 > check.limits.degraded * n)
        /\ ~(check.failed * 100 > check.limits.failed * n)
        /\ ~(check.unhealthy * 100 > check.limits.unhealthy * n)
    BY <1>8, <2>2
  <2> QED BY <1>10, <2>3, <2>4 DEF OverallPassed, Exceeds, n
<1>11. \A conditions : Cardinality(Throughout("check", conditions)) = many(conditions)
  BY ThroughoutIs DEF many, view
<1> QED BY <1>2, <1>9, <1>10, <1>11 DEF Verdict, n

(***************************************************************************)
(* analyze's verdict is right, whatever changes while the servers are      *)
(* read: no pass for a cluster that was too sick all the while, and a pass *)
(* for one that was calm.                                                  *)
(***************************************************************************)
THEOREM VerdictsAreRight == Spec => VerdictIsRight
<1>1. TypeOK /\ HealthInvariant /\ [Next]_vars =>
          [(check.pc = "scan" /\ check'.pc # "scan") => Verdict(check.limits)]_vars
  <2> SUFFICES ASSUME TypeOK, HealthInvariant, Next, check.pc = "scan", check'.pc # "scan"
               PROVE  Verdict(check.limits)
    OBVIOUS
  <2>1. CASE Conclude
    BY <2>1, VerdictStep
  <2>2. CASE \E limits \in Limits : CheckBegins(limits)
    BY <2>2 DEF CheckBegins
  <2>3. CASE \E s \in Servers : Evaluate(s)
    BY <2>3, EvaluateIs
  <2>4. ASSUME NEW c \in Callers, NEW threshold \in OperatorThresholds \cup {30},
               AutoBegins(c, threshold)
        PROVE  FALSE
    BY <2>4 DEF AutoBegins
  <2>5. ASSUME check' = check
        PROVE  FALSE
    BY <2>5
  <2> QED
    BY <2>1, <2>2, <2>3, <2>4, <2>5 DEF Next, ChaosBegins, Look, WriteStatus, WriteLoad, Count,
       AskQuarantined, QuarantineRegion, ChangeStatus, ReleaseRegion, calls
<1> QED BY <1>1, InvariantHolds, PTL DEF Spec, VerdictIsRight

-----------------------------------------------------------------------------
(***************************************************************************)
(* What a quarantine has done when it returns.                             *)
(***************************************************************************)
\* Isolated, in terms of the frame with which the call ends.
LEMMA IsolatedIf ==
    ASSUME TypeOK, NEW c \in Callers, NEW frame \in AutoCheck,
           frame.threshold = auto[c].threshold, Returned(c) = frame.reported,
           \A r \in Grouped : Settled(frame, seen[c], quarantined' \cup released[c], r),
           \A r \in frame.reported : /\ r \in quarantined' \cup released[c]
                                     /\ Justified(frame, seen[c], r)
    PROVE  Isolated(c)
<1> DEFINE share(r, conditions) == 100 * Cardinality(Throughout(c, conditions) \cap InRegion(r))
           bar(r) == auto[c].threshold * Cardinality(InRegion(r))
<1>1. ASSUME NEW r \in Grouped
      PROVE  /\ share(r, {"degraded"}) >= bar(r) \/ r \in Returned(c) =>
                    r \in quarantined' \cup released[c]
             /\ r \in Returned(c) => 100 * Cardinality(InRegion(r)) - share(r, {"calm"}) >= bar(r)
  <2> DEFINE sick == Always(seen[c], {"degraded"})
             calm == Always(seen[c], {"calm"})
  <2>1. /\ Throughout(c, {"degraded"}) \cap InRegion(r) = InRegion(r) \cap sick
        /\ Throughout(c, {"calm"}) \cap InRegion(r) = InRegion(r) \cap calm
    BY DEF Throughout, Always
  <2>2. 100 * Cardinality(InRegion(r) \cap sick) >= bar(r) => r \in quarantined' \cup released[c]
    BY DEF Settled, Size
  <2>3. r \in Returned(c) => 100 * Cardinality(InRegion(r) \ calm) >= bar(r)
    BY DEF Justified, Size
  <2>4. Cardinality(InRegion(r)) =
            Cardinality(InRegion(r) \cap calm) + Cardinality(InRegion(r) \ calm)
    <3>1. InRegion(r) \in SUBSET Servers
      BY DEF InRegion
    <3> HIDE DEF calm
    <3> QED BY <3>1, Parts
  <2>5. /\ Cardinality(InRegion(r) \cap calm) \in Nat /\ Cardinality(InRegion(r) \ calm) \in Nat
    <3>1. InRegion(r) \cap calm \in SUBSET Servers /\ InRegion(r) \ calm \in SUBSET Servers
      BY DEF InRegion
    <3> HIDE DEF calm
    <3> QED BY <3>1, Finite
  <2>6. 100 * Cardinality(InRegion(r)) - 100 * Cardinality(InRegion(r) \cap calm) =
            100 * Cardinality(InRegion(r) \ calm)
    <3> HIDE DEF calm
    <3> QED BY <2>4, <2>5
  <2> HIDE DEF bar, sick, calm
  <2>7. share(r, {"degraded"}) >= bar(r) => r \in quarantined' \cup released[c]
    BY <2>1, <2>2
  <2>8. r \in Returned(c) => r \in quarantined' \cup released[c]
    OBVIOUS
  <2>9. r \in Returned(c) => 100 * Cardinality(InRegion(r)) - share(r, {"calm"}) >= bar(r)
    BY <2>1, <2>3, <2>6
  <2> QED BY <2>7, <2>8, <2>9
<1> QED BY <1>1 DEF Isolated

LEMMA ReturnStep ==
    ASSUME TypeOK, FramesFit, HealthInvariant, Next, NEW c \in Callers,
           auto[c].pc # "idle", auto[c]'.pc = "idle"
    PROVE  Isolated(c)
<1> DEFINE safe == quarantined \cup released[c]
<1>1. auto \in [Callers -> AutoCheck] /\ auto[c] \in AutoCheck
  BY DEF TypeOK
<1>2. RegionFits(auto[c], seen[c], safe)
  BY DEF HealthInvariant
<1>3. Reported(auto[c], seen[c], safe)
  BY <1>2 DEF RegionFits
<1>4. ASSUME NEW frame \in AutoCheck, Onward(frame).pc = "idle"
      PROVE  frame.todo = {} \/ ~(frame.todo \subseteq Grouped)
  <2> SUFFICES ASSUME frame.todo \subseteq Grouped, frame.todo # {} PROVE FALSE
    OBVIOUS
  <2>1. PICK r \in frame.todo :
            Onward(frame) = [frame EXCEPT !.pc = "count", !.todo = @ \ {r}, !.region = {r},
                                          !.left = InRegion(r), !.unstable = 0]
    BY OnwardIs
  <2>2. Onward(frame).pc = "count"
    BY <2>1 DEF AutoCheck
  <2> QED BY <1>4, <2>2
<1>5. \A d \in Callers : \A frame : Goes(d, frame) => auto' = [auto EXCEPT ![d] = frame]
  BY DEF Goes
<1>6. ASSUME NEW s \in Servers, Count(c, s)
      PROVE  Isolated(c)
  <2> DEFINE k == CountedIn(c, s)
             r == RegionOf[s]
  <2>1. /\ k \in AutoCheck /\ k.pc = "count" /\ k.threshold = auto[c].threshold
        /\ k.region = auto[c].region /\ k.todo = auto[c].todo /\ k.reported = auto[c].reported
    BY <1>6, CountIs, ZenonT(30)
  <2>2. /\ auto[c].pc = "count" /\ auto[c].region = {r}
        /\ auto[c].todo \subseteq Grouped \ {r}
    BY <1>6, CountIs
  <2>3. /\ Reported(k, seen[c], safe)
        /\ k.left = {} => IF ReachesThreshold(k.unstable, auto[c].threshold, r)
                          THEN Justified(k, seen[c], r) ELSE Settled(k, seen[c], safe, r)
    <3> HIDE DEF safe
    <3> QED BY <1>2, <1>6, CountedFits
  <2>4. /\ k.left = {} /\ ~ReachesThreshold(k.unstable, auto[c].threshold, r)
        /\ Goes(c, Onward(k))
    <3>1. \/ k.left # {} /\ Goes(c, k)
          \/ /\ k.left = {} /\ ReachesThreshold(k.unstable, auto[c].threshold, r)
             /\ Goes(c, [k EXCEPT !.pc = "ask", !.unstable = 0])
          \/ /\ k.left = {} /\ ~ReachesThreshold(k.unstable, auto[c].threshold, r)
             /\ Goes(c, Onward(k))
      BY <1>6, CountIs
    <3> HIDE DEF k, r
    <3>2. ~Goes(c, k)
      BY <1>1, <1>5, <2>1
    <3>3. ~Goes(c, [k EXCEPT !.pc = "ask", !.unstable = 0])
      <4>1. [k EXCEPT !.pc = "ask", !.unstable = 0].pc = "ask"
        BY <2>1 DEF AutoCheck
      <4> DEFINE asking == [k EXCEPT !.pc = "ask", !.unstable = 0]
      <4> HIDE DEF asking
      <4>2. asking.pc = "ask" => ~Goes(c, asking)
        BY <1>1, <1>5
      <4> QED BY <4>1, <4>2 DEF asking
    <3> QED BY <3>1, <3>2, <3>3
  <2> HIDE DEF k, r
  <2>5. k.todo = {}
    <3>1. auto'[c] = Onward(k)
      BY <1>1, <1>5, <2>4
    <3> QED BY <1>4, <2>1, <2>2, <3>1
  <2>6. \A q \in Grouped : Settled(k, seen[c], safe, q)
    BY <2>1, <2>2, <2>3, <2>4, <2>5 DEF Reported
  <2>7. \A q \in k.reported : q \in safe /\ Justified(k, seen[c], q)
    BY <2>3 DEF Reported
  <2>8. quarantined' = quarantined
    BY <1>6 DEF Count
  <2>9. Returned(c) = k.reported
    BY <2>1, <2>2 DEF Returned
  <2> QED BY <2>1, <2>6, <2>7, <2>8, <2>9, IsolatedIf
<1>7. ASSUME AskQuarantined(c)
      PROVE  Isolated(c)
  <2>1. auto[c].pc = "ask" /\ quarantined' = quarantined
    BY <1>7 DEF AskQuarantined
  <2>2. PICK r \in Grouped : auto[c].region = {r} /\ auto[c].todo \subseteq Grouped \ {r}
    BY <2>1 DEF FramesFit, FrameFits
  <2>3. auto[c].region \subseteq quarantined /\ Goes(c, Onward(auto[c]))
    <3>1. [auto[c] EXCEPT !.pc = "act"].pc = "act"
      BY <1>1 DEF AutoCheck
    <3> DEFINE acting == [auto[c] EXCEPT !.pc = "act"]
    <3>2. Goes(c, IF auto[c].region \subseteq quarantined THEN Onward(auto[c]) ELSE acting)
      BY <1>7 DEF AskQuarantined
    <3> HIDE DEF acting
    <3>3. acting.pc = "act" => ~Goes(c, acting)
      BY <1>1, <1>5
    <3> QED BY <3>1, <3>2, <3>3 DEF acting
  <2>4. auto[c].todo = {}
    <3>1. auto'[c] = Onward(auto[c])
      BY <1>1, <1>5, <2>3
    <3> QED BY <1>1, <1>4, <2>2, <3>1
  <2>5. \A q \in Grouped : Settled(auto[c], seen[c], safe, q)
    BY <1>3, <2>2, <2>3, <2>4 DEF Reported, Settled
  <2>6. \A q \in auto[c].reported : q \in safe /\ Justified(auto[c], seen[c], q)
    BY <1>3 DEF Reported
  <2>7. Returned(c) = auto[c].reported
    BY <2>1 DEF Returned
  <2> QED BY <1>1, <2>1, <2>5, <2>6, <2>7, IsolatedIf
<1>8. ASSUME QuarantineRegion(c)
      PROVE  Isolated(c)
  <2> DEFINE k == [auto[c] EXCEPT !.reported = @ \cup auto[c].region]
             safer == quarantined' \cup released[c]
  <2>1. /\ auto[c].pc = "act" /\ quarantined' = quarantined \cup auto[c].region
        /\ Goes(c, Onward(k))
    BY <1>8 DEF QuarantineRegion
  <2>2. PICK r \in Grouped : auto[c].region = {r} /\ auto[c].todo \subseteq Grouped \ {r}
    BY <2>1 DEF FramesFit, FrameFits
  <2>3. k \in AutoCheck
    BY <2>1, FrameTypes
  <2>4. /\ k.threshold = auto[c].threshold /\ k.todo = auto[c].todo
        /\ k.reported = auto[c].reported \cup auto[c].region
    BY <1>1 DEF AutoCheck
  <2> HIDE DEF k
  <2>5. k.todo = {}
    <3>1. auto'[c] = Onward(k)
      BY <1>1, <1>5, <2>1
    <3> QED BY <1>4, <2>2, <2>3, <2>4, <3>1
  <2>6. Justified(auto[c], seen[c], r)
    BY <1>2, <2>1, <2>2 DEF RegionFits
  <2>7. safe \subseteq safer /\ r \in safer
    BY <2>1, <2>2
  <2> HIDE DEF safe, safer
  <2>8. \A q \in Grouped : Settled(k, seen[c], safer, q)
    BY <1>3, <2>2, <2>4, <2>5, <2>7 DEF Reported, Settled
  <2>9. \A q \in k.reported : q \in safer /\ Justified(k, seen[c], q)
    BY <1>3, <2>2, <2>4, <2>6, <2>7 DEF Reported, Justified
  <2>10. Returned(c) = k.reported
    BY <2>1, <2>4 DEF Returned
  <2> QED BY <2>3, <2>4, <2>8, <2>9, <2>10, IsolatedIf DEF safer
<1>9. ASSUME NEW d \in Callers, NEW frame, auto' = [auto EXCEPT ![d] = frame],
             d # c \/ auto[d].pc = "idle"
      PROVE  FALSE
  BY <1>1, <1>9
<1>10. ASSUME auto' = auto
       PROVE  FALSE
  BY <1>10
<1>11. ASSUME NEW d \in Callers, d # c, \E frame : Goes(d, frame)
       PROVE  FALSE
  BY <1>5, <1>9, <1>11
<1>12. ASSUME NEW d \in Callers, NEW threshold \in OperatorThresholds \cup {30},
              AutoBegins(d, threshold)
       PROVE  FALSE
  BY <1>9, <1>12 DEF AutoBegins
<1>13. ASSUME NEW d \in Callers,
              (\E s \in Servers : Count(d, s)) \/ AskQuarantined(d) \/ QuarantineRegion(d)
       PROVE  Isolated(c)
  <2>1. \E frame : Goes(d, frame)
    BY <1>13 DEF Count, AskQuarantined, QuarantineRegion
  <2>2. d = c
    BY <1>11, <2>1
  <2> QED BY <1>6, <1>7, <1>8, <1>13, <2>2
<1> QED
  BY <1>10, <1>12, <1>13 DEF Next, CheckBegins, Evaluate, Conclude, ChaosBegins, Look,
     WriteStatus, WriteLoad, ChangeStatus, ReleaseRegion, calls

(***************************************************************************)
(* check_and_auto_quarantine leaves no region unstable and at large, and   *)
(* reports none without cause, for the engine and an operator at once.     *)
(***************************************************************************)
THEOREM QuarantinesIsolate == Spec => RegionsAreIsolated
<1>1. TypeOK /\ FramesFit /\ HealthInvariant /\ [Next]_vars =>
          [\A c \in Callers : (auto[c].pc # "idle" /\ auto[c]'.pc = "idle") => Isolated(c)]_vars
  BY ReturnStep
<1> QED BY <1>1, InvariantHolds, PTL DEF Spec, RegionsAreIsolated

=============================================================================
