----------------------------- MODULE AbortListener -----------------------------
(***************************************************************************)
(* deploy/abort_listener.py: a daemon thread that reads lines and sets the *)
(* abort event registered at the moment, beside the thread that owns the   *)
(* listener (main.py) and runs one deployment after another.  Every access *)
(* to the listener's fields takes its lock; readline() blocks outside it.  *)
(***************************************************************************)
EXTENDS Integers, Sequences, FiniteSets

CONSTANTS
    Restarts,       \* may the owner call start() again after stop()
    MaxStarts,      \* bound: calls of start()
    MaxEvents,      \* bound: deployments that register an event
    MaxLines,       \* bound: lines typed
    MaxFailures     \* bound: calls of readline() that raise

ASSUME ListenerAssumption ==
    /\ Restarts \in BOOLEAN
    /\ MaxStarts \in Nat \ {0} /\ MaxEvents \in Nat \ {0} /\ MaxLines \in Nat \ {0}
    /\ MaxFailures \in Nat

None == 0
Readers == 1..MaxStarts     \* in the order in which start() made them
Events == 1..MaxEvents      \* in the order in which they are registered

VARIABLES
    thread,         \* _thread: the reader it holds, or None
    stopRequested,  \* _stop_requested
    event,          \* _current_event, or None
    signalled,      \* the events that are set
    reader,         \* where each reader's _run stands, and the line it holds
    input,          \* lines typed and not read yet
    closed,         \* the stream is at its end
    owner,          \* what the owner has called last: start, stop, or nothing
    starts, events, lines, failures     \* counters for the bounds

listener == <<thread, stopRequested, event>>
stream == <<input, closed>>
counters == <<starts, events, lines, failures>>
listenerVars == <<listener, signalled, reader, stream, owner, counters>>

\* A line carries, as history, the event that was registered when it was typed.
Line == [abort : BOOLEAN, during : Events \cup {None}]
NoLine == [abort |-> FALSE, during |-> None]

Step == {"unborn", "check", "read", "verify", "act", "leave", "gone"}
Alive(r) == reader[r].pc \notin {"unborn", "gone"}

ListenerInit ==
    /\ thread = None /\ stopRequested = FALSE /\ event = None
    /\ signalled = {}
    /\ reader = [r \in Readers |-> [pc |-> "unborn", line |-> NoLine]]
    /\ input = << >> /\ closed = FALSE
    /\ owner = "new"
    /\ starts = 0 /\ events = 0 /\ lines = 0 /\ failures = 0

-----------------------------------------------------------------------------
(***************************************************************************)
(* The owner's thread.                                                     *)
(***************************************************************************)
\* start() does nothing while _thread is set, whether or not that thread has
\* been asked to stop.
Start ==
    /\ starts < MaxStarts
    /\ owner = "stopped" => Restarts
    /\ owner' = "running"
    /\ starts' = starts + 1
    /\ IF thread # None
       THEN UNCHANGED <<listener, reader>>
       ELSE /\ stopRequested' = FALSE
            /\ thread' = starts'
            /\ reader' = [reader EXCEPT ![starts'].pc = "check"]
            /\ UNCHANGED event
    /\ UNCHANGED <<signalled, stream, events, lines, failures>>

\* Mutant: stop() drops its reference to the thread.
StopForgetsThread ==
    /\ owner = "running"
    /\ owner' = "stopped"
    /\ stopRequested' = TRUE /\ event' = None /\ thread' = None
    /\ UNCHANGED <<signalled, reader, stream, counters>>

\* Mutant: stop() leaves the event registered.
StopKeepsEvent ==
    /\ owner = "running"
    /\ owner' = "stopped"
    /\ stopRequested' = TRUE
    /\ UNCHANGED <<thread, event, signalled, reader, stream, counters>>

Stop ==
    /\ owner = "running"
    /\ owner' = "stopped"
    /\ stopRequested' = TRUE /\ event' = None
    /\ UNCHANGED <<thread, signalled, reader, stream, counters>>

\* main.py clears the event of one deployment before it sets the next one's.
SetAbortEvent ==
    /\ owner = "running" /\ event = None
    /\ events < MaxEvents
    /\ events' = events + 1
    /\ event' = events'
    /\ UNCHANGED <<thread, stopRequested, signalled, reader, stream, owner, starts, lines,
                   failures>>

ClearAbortEvent ==
    /\ owner = "running" /\ event # None
    /\ event' = None
    /\ UNCHANGED <<thread, stopRequested, signalled, reader, stream, owner, counters>>

-----------------------------------------------------------------------------
(***************************************************************************)
(* _run, from one access to what others share to the next.                 *)
(***************************************************************************)
Goto(r, step) == reader' = [reader EXCEPT ![r].pc = step]

CheckStop(r) ==
    /\ reader[r].pc = "check"
    /\ Goto(r, IF stopRequested THEN "leave" ELSE "read")
    /\ UNCHANGED <<listener, signalled, stream, owner, counters>>

ReadLine(r) ==
    /\ reader[r].pc = "read" /\ input # << >>
    /\ reader' = [reader EXCEPT ![r] = [pc |-> "verify", line |-> Head(input)]]
    /\ input' = Tail(input)
    /\ UNCHANGED <<listener, signalled, closed, owner, counters>>

\* readline() returns "".
ReadEnd(r) ==
    /\ reader[r].pc = "read" /\ input = << >> /\ closed
    /\ Goto(r, "leave")
    /\ UNCHANGED <<listener, signalled, stream, owner, counters>>

\* readline() raises, at any time and also with lines still to come (one cannot be
\* decoded, the stream is closed under it): the reader ends.  What the stream had
\* taken in and not handed out may be lost.
ReadRaises(r) ==
    /\ reader[r].pc = "read" /\ failures < MaxFailures
    /\ failures' = failures + 1
    /\ \E n \in 0..Len(input) : input' = SubSeq(input, n + 1, Len(input))
    /\ Goto(r, "leave")
    /\ UNCHANGED <<listener, signalled, closed, owner, starts, events, lines>>

\* Mutant: a line that is not the command ends the loop.
VerifyOnce(r) ==
    /\ reader[r].pc = "verify"
    /\ Goto(r, IF ~stopRequested /\ reader[r].line.abort THEN "act" ELSE "leave")
    /\ UNCHANGED <<listener, signalled, stream, owner, counters>>

Verify(r) ==
    /\ reader[r].pc = "verify"
    /\ Goto(r, IF stopRequested THEN "leave"
               ELSE IF reader[r].line.abort THEN "act" ELSE "check")
    /\ UNCHANGED <<listener, signalled, stream, owner, counters>>

\* Mutant: no look whether an event is registered.
ActUnchecked(r) ==
    /\ reader[r].pc = "act"
    /\ signalled' = signalled \cup {event}
    /\ Goto(r, "check")
    /\ UNCHANGED <<listener, stream, owner, counters>>

\* Under the lock, but not while Verify's check of the stop request still held.
Act(r) ==
    /\ reader[r].pc = "act"
    /\ signalled' = signalled \cup ({event} \ {None})
    /\ Goto(r, "check")
    /\ UNCHANGED <<listener, stream, owner, counters>>

Leave(r) ==
    /\ reader[r].pc = "leave"
    /\ thread' = None
    /\ Goto(r, "gone")
    /\ UNCHANGED <<stopRequested, event, signalled, stream, owner, counters>>

-----------------------------------------------------------------------------
\* The operator at the console.
Type(abort) ==
    /\ ~closed /\ lines < MaxLines
    /\ input' = Append(input, [abort |-> abort, during |-> event])
    /\ lines' = lines + 1
    /\ UNCHANGED <<listener, signalled, reader, closed, owner, starts, events, failures>>

Close ==
    /\ ~closed
    /\ closed' = TRUE
    /\ UNCHANGED <<listener, signalled, reader, input, owner, counters>>

Reads(r) ==
    CheckStop(r) \/ ReadLine(r) \/ ReadEnd(r) \/ Verify(r) \/ Act(r) \/ Leave(r)

ListenerNext ==
    \/ Start \/ Stop \/ SetAbortEvent \/ ClearAbortEvent
    \/ \E r \in Readers : Reads(r) \/ ReadRaises(r)
    \/ \E abort \in BOOLEAN : Type(abort)
    \/ Close

ListenerSpec == ListenerInit /\ [][ListenerNext]_listenerVars

\* A reader that can go on is scheduled; readline() returns a line that is there,
\* or raises, which it never has to.
FairListenerSpec == ListenerSpec /\ \A r \in Readers : WF_listenerVars(Reads(r))

-----------------------------------------------------------------------------
\* The type of every variable.
ListenerTypeOK ==
    /\ thread \in Readers \cup {None}
    /\ stopRequested \in BOOLEAN /\ closed \in BOOLEAN
    /\ event \in Events \cup {None}
    /\ signalled \subseteq Events
    /\ reader \in [Readers -> [pc : Step, line : Line]]
    /\ input \in Seq(Line)
    /\ owner \in {"new", "running", "stopped"}
    /\ starts \in 0..MaxStarts /\ events \in 0..MaxEvents /\ lines \in 0..MaxLines
    /\ failures \in 0..MaxFailures

\* However often start() and stop() are called, and wherever the old thread is
\* blocked, the thread that _thread names is the only one that reads the stream, and
\* it does read: no line is taken from the reader that would act on it, and start()
\* is never held off by a thread that has ended.
OneReader == \A r \in Readers : Alive(r) <=> thread = r

\* stop() withdraws what is registered: a line read before it, by a thread that
\* has already passed its check, sets nothing until start() is called again.
StoppedIsSilent == [][owner = "stopped" => signalled' = signalled]_listenerVars

Entered(d) ==
    \E i \in 1..Len(input) : input[i].abort /\ input[i].during = d

\* Is a reader in its loop?
Listens == \E r \in Readers : reader[r].pc \in {"check", "read", "verify", "act"}

\* An "abort" typed during a deployment, while a reader is in its loop that has not
\* been asked to stop, reaches that deployment, unless it ends, the listener is
\* stopped, or readline() raises first; also after any number of restarts that found
\* the old thread gone, be it dead of an exception.  (The exception ends the reader
\* for good: what is typed then is heard only if start() is called again, after the
\* thread has gone.)
AbortDelivered ==
    \A d \in Events, n \in 0..MaxFailures :
        Listens /\ ~stopRequested /\ Entered(d) /\ failures = n
            ~> (d \in signalled \/ event # d \/ failures > n)

\* The module promises that an abort typed while the listener is started, and
\* its last call was start(), signals the deployment that is registered.
StartedListens ==
    \A d \in Events : owner = "running" /\ Entered(d) ~> (d \in signalled \/ event # d)

=============================================================================
