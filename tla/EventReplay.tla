----------------------------- MODULE EventReplay -----------------------------
(***************************************************************************)
(* resilience/replay.py as operators on an audit trail.  An event is a     *)
(* record                                                                  *)
(*   [id, parent, time, deployment, kind, servers]                         *)
(* where parent is NoEvent for an event without a parent, and kind and     *)
(* servers are what reconstruct_state_at_step makes of its type and its    *)
(* details ("note" is every type it does not look at).  Ids number the     *)
(* events in the order in which they were written, so that the list of the *)
(* events that were read is given by the set of them.                      *)
(***************************************************************************)
EXTENDS Integers, Sequences, FiniteSets, SequencesExt

CONSTANTS NoEvent,  \* an absent parent_event_id
          Torn      \* a line of the file that does not parse

\* load_audit_trail: the first line that does not parse ends the loading.
Loaded(file) == {file[i] : i \in {j \in DOMAIN file : \A k \in 1..j : file[k] # Torn}}

ScopedTo(events, d) == {e \in events : e.deployment = d}

Ids(events) == {e.id : e \in events}

\* The events of which p is the parent, as reconstruct_timeline has it: one whose
\* parent is not among the events is a root.
Children(events, p) ==
    {e \in events : IF e.parent \in Ids(events) THEN e.parent = p ELSE p = NoEvent}

\* Which of two siblings is visited first: the earlier one.  Of two with one time it
\* is the one written last, for the sort is stable, reversed and popped from its end.
Sooner(e, f) == e.time < f.time \/ (e.time = f.time /\ e.id > f.id)

\* Mutant: the sort is not reversed.
StackedAscending(children) ==
    [i \in 1..Cardinality(children) |->
        CHOOSE e \in children : Cardinality({f \in children : Sooner(e, f)}) = i - 1]

\* The children as they come to lie on the stack, the top of it first.
Stacked(children) ==
    [i \in 1..Cardinality(children) |->
        CHOOSE e \in children : Cardinality({f \in children : Sooner(f, e)}) = i - 1]

\* One turn of the depth-first search: the top of the stack is told, and its children
\* are put on the stack.
Visit(events, search) ==
    [told  |-> Append(search.told, Head(search.stack)),
     stack |-> Stacked(Children(events, Head(search.stack).id)) \o Tail(search.stack)]

\* The loop, turn by turn.  Every event was written after its parent, so it reaches
\* each of them, takes one turn for it and leaves no orphans.
Search(events) ==
    LET search[turn \in 0..Cardinality(events)] ==
            IF turn = 0 THEN [told |-> << >>, stack |-> Stacked(Children(events, NoEvent))]
            ELSE Visit(events, search[turn - 1])
    IN  search

\* reconstruct_timeline.
Timeline(events) == Search(events)[Cardinality(events)].told

\* verify_event_lineage: is the trail valid?  Its search for cycles finds none,
\* again because every event was written after its only parent.
LineageIsValid(events) ==
    \A e \in events : e.parent # NoEvent => e.parent \in Ids(events) \ {e.id}

\* reconstruct_state_at_step: the servers it believes to run the target, and the
\* deployment's status, after one event more.
Apply(state, e) ==
    CASE e.kind = "start"       -> [state EXCEPT !.status = "in_progress"]
      [] e.kind = "stage"       -> [state EXCEPT !.on = @ \cup e.servers]
      [] e.kind = "rolled_back" -> [state EXCEPT !.on = @ \ e.servers,
                                                 !.status = "rolled_back"]
      [] e.kind = "completed"   -> [state EXCEPT !.status = "completed"]
      [] e.kind = "initiated"   -> [state EXCEPT !.status = "rolling_back"]
      [] e.kind = "failed"      -> [state EXCEPT !.status = "failed"]
      [] OTHER                  -> state

\* What it believes after each event of a timeline.
Replay(timeline) ==
    LET replay[step \in 0..Len(timeline)] ==
            IF step = 0 THEN [status |-> "pending", on |-> {}]
            ELSE Apply(replay[step - 1], timeline[step])
    IN  replay

\* At the last event.
Reconstructed(events) == Replay(Timeline(events))[Cardinality(events)]

=============================================================================
