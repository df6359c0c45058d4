---------------------------- MODULE HealthAnalysis ----------------------------
(***************************************************************************)
(* The health check of a stage and what follows when it fails: health/     *)
(* (thresholds, metrics, analyzer), chaos injection (failure_injection)    *)
(* and the automatic quarantine (resilience/quarantine.py).  The engine    *)
(* checks the cluster, again if it may retry, and has unstable regions     *)
(* quarantined when it gives up; operators call the same quarantine;       *)
(* meanwhile chaos is injected and deployments change statuses.  All of    *)
(* them read one live server after the other, without the cluster's lock.  *)
(*                                                                         *)
(* Usages and latencies are whole numbers, error rates hundredths of a     *)
(* percent.  A figure drawn from a range is one of its ends, and what      *)
(* chaos injects the lower one, the hardest to notice: all that is done    *)
(* with a figure is a comparison, or an addition and a comparison.         *)
(***************************************************************************)
EXTENDS Integers, FiniteSets, FiniteSetsExt

CONSTANTS
    Servers,            \* the cluster's members, numbered in its order
    Regions, RegionOf,  \* the region of each server
    Limits,             \* the percentages of the HealthThresholds in use
    Operators,          \* threads other than the engine's that call the quarantine
    OperatorThresholds, \* threshold_percentage, when an operator calls
    CandidateSets,      \* the servers that run the target_version, or all
    Rates,              \* failure_rate, in percent
    Observed,           \* the statuses deployments, health callbacks, operators set
    MaxInjections,      \* bound: calls of inject_failures
    MaxChanges          \* bound: statuses set and regions released by others

ServerStatus == {"healthy", "degraded", "failed", "updating"}

ASSUME HealthAssumption ==
    /\ IsFiniteSet(Servers) /\ Servers # {} /\ Servers \subseteq Nat
    /\ RegionOf \in [Servers -> Regions]
    /\ Limits \subseteq [degraded : 0..100, failed : 0..100, unhealthy : 0..100]
    /\ {"engine", "check"} \cap Operators = {}
    /\ OperatorThresholds \subseteq 1..100 /\ Rates \subseteq 0..100
    /\ CandidateSets \subseteq SUBSET Servers
    /\ Observed \subseteq ServerStatus
    /\ MaxInjections \in Nat /\ MaxChanges \in Nat

VARIABLES
    servers,    \* ClusterState._servers: status and load
    quarantined,\* the regions with an ACTIVE quarantine
    check,      \* the frame of analyze, called by the engine
    chaos,      \* the frame of inject_failures
    auto,       \* the frames of check_and_auto_quarantine
    seen,       \* history: the conditions of each server since a call began
    released,   \* history: the regions released since a call began
    injections, changes     \* counters for the two bounds

calls == <<check, chaos, auto>>
history == <<seen, released>>
vars == <<servers, quarantined, calls, history, injections, changes>>

Kind == {"degrade", "fail", "resource_spike"}

Callers == {"engine"} \cup Operators

At(cpu, memory) == [cpu |-> cpu, memory |-> memory]

\* generate_cluster draws usages between 30 and 70.
Baseline == {At(30, 30), At(70, 70)}

\* What inject_failures writes for each failure_type, at least.
Injected(kind) ==
    CASE kind = "degrade"        -> At(86, 81)
      [] kind = "fail"           -> At(96, 91)
      [] kind = "resource_spike" -> At(86, 91)

Load == Baseline \cup {Injected(kind) : kind \in Kind}

Server == [status : ServerStatus, load : Load]

\* Condition of a server, for the history: what was done to it last.
Condition == {"calm", "spiked", "degraded", "failed"}

ConditionOf(server) ==
    CASE server.status \in {"degraded", "failed"} -> server.status
      [] server.status \notin {"degraded", "failed"} /\ server.load \notin Baseline -> "spiked"
      [] OTHER -> "calm"

\* A quarantine tells unstable servers from others.
SeenBy(c, condition) ==
    IF c = "check" THEN condition
    ELSE IF condition \in {"degraded", "failed"} THEN "degraded" ELSE "calm"

NoLimits == [degraded |-> 0, failed |-> 0, unhealthy |-> 0]

Check == [pc        : {"idle", "scan", "passed", "violated"},
          limits    : Limits \cup {NoLimits},   \* the thresholds of the engine's check
          left      : SUBSET Servers,
          degraded  : Nat, failed : Nat, unhealthy : Nat,
          cpu       : Nat, memory : Nat]

Chaos == [pc      : {"idle", "look", "status", "load"},
          kind    : Kind,
          left    : SUBSET Servers,     \* victims whose turn is still to come
          current : SUBSET Servers,     \* the one whose turn it is
          new     : ServerStatus]

AutoCheck == [pc        : {"idle", "count", "ask", "act"},
              threshold : OperatorThresholds \cup {30},
              todo      : SUBSET Regions,
              region    : SUBSET Regions,     \* the one whose turn it is
              left      : SUBSET Servers,     \* its servers not yet read
              unstable  : Nat,
              reported  : SUBSET Regions]

NoCheck == [pc |-> "idle", limits |-> NoLimits, left |-> {}, degraded |-> 0, failed |-> 0,
            unhealthy |-> 0, cpu |-> 0, memory |-> 0]

NoChaos == [pc |-> "idle", kind |-> "degrade", left |-> {}, current |-> {},
            new |-> "healthy"]

NoAuto == [pc |-> "idle", threshold |-> 30, todo |-> {}, region |-> {}, left |-> {},
           unstable |-> 0, reported |-> {}]

Unseen == [s \in Servers |-> {}]

Now(c) == [s \in Servers |-> {SeenBy(c, ConditionOf(servers[s]))}]

Init ==
    /\ \E load \in Baseline :
          servers = [s \in Servers |-> [status |-> "healthy", load |-> load]]
    /\ quarantined = {}
    /\ check = NoCheck /\ chaos = NoChaos /\ auto = [c \in Callers |-> NoAuto]
    /\ seen = [c \in Callers \cup {"check"} |-> Unseen]
    /\ released = [c \in Callers |-> {}]
    /\ injections = 0 /\ changes = 0

-----------------------------------------------------------------------------
(***************************************************************************)
(* Changes of the server map, and what the calls under way see of them.    *)
(***************************************************************************)
Underway(c) ==
    IF c = "check" THEN check.pc = "scan" ELSE auto[c].pc # "idle"

Become(s, server) ==
    /\ servers' = [servers EXCEPT ![s] = server]
    /\ seen' = [c \in DOMAIN seen |->
                   IF Underway(c) THEN [seen[c] EXCEPT ![s] = @ \cup {SeenBy(c, ConditionOf(server))}]
                   ELSE seen[c]]

UpdateServerStatus(s, new) == Become(s, [servers[s] EXCEPT !.status = new])

\* The figures injected lie between 0 and 100: nothing is cut off.
UpdateServerResources(s, load) == Become(s, [servers[s] EXCEPT !.load = load])

-----------------------------------------------------------------------------
(***************************************************************************)
(* evaluate_server_health and analyze.                                     *)
(***************************************************************************)
ErrorRate(status) ==
    CASE status = "healthy"  -> {5, 120}
      [] status = "updating" -> {10, 180}
      [] status = "degraded" -> {600, 1500}
      [] status = "failed"   -> {10000}

Latency(status) ==
    CASE status = "healthy"  -> {40, 120}
      [] status = "updating" -> {70, 180}
      [] status = "degraded" -> {350, 800}
      [] status = "failed"   -> {5000}

\* passed, for the default limits of one server.
Passed(server, error, latency) ==
    /\ server.load.cpu <= 85 /\ server.load.memory <= 90
    /\ error <= 500 /\ latency <= 500
    /\ server.status # "failed"

Evaluations(server) ==
    {Passed(server, error, latency) :
        error \in ErrorRate(server.status), latency \in Latency(server.status)}

OneIf(condition) == IF condition THEN 1 ELSE 0

CheckBegins(limits) ==
    /\ check.pc # "scan" /\ auto["engine"].pc = "idle"
    /\ check' = [NoCheck EXCEPT !.pc = "scan", !.left = Servers, !.limits = limits]
    /\ seen' = [seen EXCEPT !["check"] = Now("check")]
    /\ UNCHANGED <<servers, quarantined, chaos, auto, released, injections, changes>>

\* The few reads of one server are taken together.
Evaluate(s) ==
    /\ check.pc = "scan" /\ check.left # {} /\ s = Min(check.left)
    /\ \E passed \in Evaluations(servers[s]) :
          check' = [check EXCEPT !.left = @ \ {s},
                                 !.degraded = @ + OneIf(servers[s].status = "degraded"),
                                 !.failed = @ + OneIf(servers[s].status = "failed"),
                                 !.unhealthy = @ + OneIf(~passed),
                                 !.cpu = @ + servers[s].load.cpu,
                                 !.memory = @ + servers[s].load.memory]
    /\ UNCHANGED <<servers, quarantined, chaos, auto, history, injections, changes>>

\* count / total * 100 > percentage.
Exceeds(count, percentage) == count * 100 > percentage * Cardinality(Servers)

\* Mutant: a share that reaches its limit is a violation.
OverallPassedBelow ==
    /\ ~(check.cpu > 75 * Cardinality(Servers)) /\ ~(check.memory > 80 * Cardinality(Servers))
    /\ check.degraded * 100 < check.limits.degraded * Cardinality(Servers)
    /\ check.failed * 100 < check.limits.failed * Cardinality(Servers)
    /\ check.unhealthy * 100 < check.limits.unhealthy * Cardinality(Servers)

\* failed_checks is empty.
OverallPassed ==
    /\ ~(check.cpu > 75 * Cardinality(Servers)) /\ ~(check.memory > 80 * Cardinality(Servers))
    /\ ~Exceeds(check.degraded, check.limits.degraded)
    /\ ~Exceeds(check.failed, check.limits.failed)
    /\ ~Exceeds(check.unhealthy, check.limits.unhealthy)

Conclude ==
    /\ check.pc = "scan" /\ check.left = {}
    /\ check' = [NoCheck EXCEPT !.pc = IF OverallPassed THEN "passed" ELSE "violated"]
    /\ seen' = [seen EXCEPT !["check"] = Unseen]
    /\ UNCHANGED <<servers, quarantined, chaos, auto, released, injections, changes>>

-----------------------------------------------------------------------------
(***************************************************************************)
(* inject_failures.                                                        *)
(***************************************************************************)
\* math.ceil(len(candidates) * failure_rate)
SampleSize(n, rate) == (n * rate + 99) \div 100

ChaosBegins(kind, candidates, rate) ==
    /\ chaos.pc = "idle" /\ injections < MaxInjections
    /\ injections' = injections + 1
    /\ \E victims \in kSubset(SampleSize(Cardinality(candidates), rate), candidates) :
          chaos' = [NoChaos EXCEPT !.kind = kind, !.left = victims,
                                   !.pc = IF victims = {} THEN "idle" ELSE "look"]
    /\ UNCHANGED <<servers, quarantined, check, auto, history, changes>>

\* Mutant: a spike has no new status.
NewStatusOfFailures(kind, server) ==
    CASE kind = "degrade" -> "degraded" [] kind = "fail" -> "failed" [] OTHER -> "none"

NewStatus(kind, server) ==
    CASE kind = "degrade"        -> "degraded"
      [] kind = "fail"           -> "failed"
      [] kind = "resource_spike" -> server.status

Look(s) ==
    /\ chaos.pc = "look" /\ s \in chaos.left
    /\ chaos' = [chaos EXCEPT !.pc = "status", !.left = @ \ {s}, !.current = {s},
                              !.new = NewStatus(chaos.kind, servers[s])]
    /\ UNCHANGED <<servers, quarantined, check, auto, history, injections, changes>>

\* For a spike the status is read a second time: one that has changed in between
\* is set back.
WriteStatus(s) ==
    /\ chaos.pc = "status" /\ s \in chaos.current
    /\ IF chaos.new # servers[s].status THEN UpdateServerStatus(s, chaos.new)
       ELSE UNCHANGED <<servers, seen>>
    /\ chaos' = [chaos EXCEPT !.pc = "load"]
    /\ UNCHANGED <<quarantined, check, auto, released, injections, changes>>

WriteLoad(s) ==
    /\ chaos.pc = "load" /\ s \in chaos.current
    /\ UpdateServerResources(s, Injected(chaos.kind))
    /\ chaos' = IF chaos.left = {} THEN NoChaos
                ELSE [chaos EXCEPT !.pc = "look", !.current = {}]
    /\ UNCHANGED <<quarantined, check, auto, released, injections, changes>>

-----------------------------------------------------------------------------
(***************************************************************************)
(* check_and_auto_quarantine.                                              *)
(***************************************************************************)
InRegion(r) == {s \in Servers : RegionOf[s] = r}

\* The regions that have a server.
Grouped == {RegionOf[s] : s \in Servers}

\* On to the next region, or return.
Onward(frame) ==
    IF frame.todo = {} THEN NoAuto
    ELSE LET r == RegionOf[Min({s \in Servers : RegionOf[s] \in frame.todo})]
         IN  [frame EXCEPT !.pc = "count", !.todo = @ \ {r}, !.region = {r},
                           !.left = InRegion(r), !.unstable = 0]

Goes(c, frame) ==
    /\ auto' = [auto EXCEPT ![c] = frame]
    /\ seen' = IF frame.pc = "idle" THEN [seen EXCEPT ![c] = Unseen] ELSE seen
    /\ released' = IF frame.pc = "idle" THEN [released EXCEPT ![c] = {}] ELSE released

\* The engine calls it when it has used up its checks, with the default threshold.
AutoBegins(c, threshold) ==
    /\ auto[c].pc = "idle"
    /\ IF c = "engine" THEN check.pc = "violated" /\ threshold = 30 /\ check' = NoCheck
       ELSE threshold \in OperatorThresholds /\ UNCHANGED check
    /\ auto' = [auto EXCEPT ![c] = Onward([NoAuto EXCEPT !.threshold = threshold,
                                                        !.todo = Grouped])]
    /\ seen' = [seen EXCEPT ![c] = Now(c)]
    /\ UNCHANGED <<servers, quarantined, chaos, released, injections, changes>>

IsUnstable(s) == servers[s].status \in {"degraded", "failed"}

\* Mutant: a share equal to the threshold is left alone.
OverThreshold(unstable, threshold, r) == unstable * 100 > threshold * Cardinality(InRegion(r))

ReachesThreshold(unstable, threshold, r) ==
    unstable * 100 >= threshold * Cardinality(InRegion(r))

\* With the last server of the region its share is known.
Count(c, s) ==
    /\ auto[c].pc = "count" /\ s = Min(auto[c].left)
    /\ LET counted == [auto[c] EXCEPT !.left = @ \ {s}, !.unstable = @ + OneIf(IsUnstable(s))]
       IN  Goes(c, CASE counted.left # {} -> counted
                     [] counted.left = {} /\ ReachesThreshold(counted.unstable,
                                                 counted.threshold, RegionOf[s]) ->
                            [counted EXCEPT !.pc = "ask", !.unstable = 0]
                     [] OTHER -> Onward(counted))
    /\ UNCHANGED <<servers, quarantined, check, chaos, injections, changes>>

\* is_quarantined and quarantine_region take the lock each for itself.
AskQuarantined(c) ==
    /\ auto[c].pc = "ask"
    /\ Goes(c, IF auto[c].region \subseteq quarantined THEN Onward(auto[c])
               ELSE [auto[c] EXCEPT !.pc = "act"])
    /\ UNCHANGED <<servers, quarantined, check, chaos, injections, changes>>

QuarantineRegion(c) ==
    /\ auto[c].pc = "act"
    /\ quarantined' = quarantined \cup auto[c].region
    /\ Goes(c, Onward([auto[c] EXCEPT !.reported = @ \cup auto[c].region]))
    /\ UNCHANGED <<servers, check, chaos, injections, changes>>

-----------------------------------------------------------------------------
\* A deployment updates or rolls back a server, or somebody marks it: its load
\* stays as it is.
ChangeStatus(s, st) ==
    /\ changes < MaxChanges /\ changes' = changes + 1
    /\ servers[s].status # st /\ UpdateServerStatus(s, st)
    /\ UNCHANGED <<quarantined, calls, released, injections>>

\* release_region, by an operator or a recovery plan.
ReleaseRegion(r) ==
    /\ changes < MaxChanges /\ changes' = changes + 1
    /\ r \in quarantined
    /\ quarantined' = quarantined \ {r}
    /\ released' = [c \in Callers |-> IF Underway(c) THEN released[c] \cup {r} ELSE {}]
    /\ UNCHANGED <<servers, calls, seen, injections>>

Next ==
    \/ \E limits \in Limits : CheckBegins(limits)
    \/ \E s \in Servers : Evaluate(s)
    \/ Conclude
    \/ \E kind \in Kind, candidates \in CandidateSets, rate \in Rates :
          ChaosBegins(kind, candidates, rate)
    \/ \E s \in Servers : Look(s) \/ WriteStatus(s) \/ WriteLoad(s)
    \/ \E c \in Callers :
          \/ \E threshold \in OperatorThresholds \cup {30} : AutoBegins(c, threshold)
          \/ (\E s \in Servers : Count(c, s))
          \/ AskQuarantined(c) \/ QuarantineRegion(c)
    \/ \E s \in Servers, st \in Observed : ChangeStatus(s, st)
    \/ \E r \in Regions : ReleaseRegion(r)

Spec == Init /\ [][Next]_vars

-----------------------------------------------------------------------------
\* The type of every variable.
TypeOK ==
    /\ servers \in [Servers -> Server]
    /\ quarantined \subseteq Regions
    /\ check \in Check /\ chaos \in Chaos /\ auto \in [Callers -> AutoCheck]
    /\ seen \in [Callers \cup {"check"} -> [Servers -> SUBSET Condition]]
    /\ released \in [Callers -> SUBSET Regions]
    /\ injections \in 0..MaxInjections /\ changes \in 0..MaxChanges

\* The servers that were in one of these conditions all through a call.
Throughout(c, conditions) == {s \in Servers : seen[c][s] \subseteq conditions}

Sick == {"degraded", "failed", "spiked"}

Verdict(limits) ==
    LET many(conditions) == Cardinality(Throughout("check", conditions))
    IN  /\ check'.pc = "violated" => many({"calm"}) < Cardinality(Servers)
        /\ check'.pc = "passed" => /\ ~Exceeds(many({"degraded"}), limits.degraded)
                                  /\ ~Exceeds(many({"failed"}), limits.failed)
                                  /\ ~Exceeds(many(Sick), limits.unhealthy)

\* The verdict of a health check, whatever the metrics drawn and while chaos and
\* deployments go on: it is a pass if the cluster was calm all through the check,
\* and no pass if too many servers were degraded, too many failed, or too many in
\* any way sick, spiked ones included, at every moment of it.
VerdictIsRight == [][(check.pc = "scan" /\ check'.pc # "scan") => Verdict(check.limits)]_vars

\* What the step with which a call ends returns.
Returned(c) == auto[c].reported \cup (IF auto[c].pc = "act" THEN auto[c].region ELSE {})

Isolated(c) ==
    \A r \in Grouped :
        LET share(conditions) == 100 * Cardinality(Throughout(c, conditions) \cap InRegion(r))
            bar == auto[c].threshold * Cardinality(InRegion(r))
        IN  /\ share({"degraded"}) >= bar \/ r \in Returned(c) =>
                    r \in quarantined' \cup released[c]
            /\ r \in Returned(c) =>
                    100 * Cardinality(InRegion(r)) - share({"calm"}) >= bar

\* When check_and_auto_quarantine returns, to the engine and to operators at once,
\* every region whose share of unstable servers was at the threshold all the while
\* is quarantined, unless somebody has released it; and the regions it reports are
\* such that their share can have been at the threshold.
RegionsAreIsolated ==
    [][\A c \in Callers : (auto[c].pc # "idle" /\ auto[c]'.pc = "idle") => Isolated(c)]_vars

=============================================================================
