------------------------------ MODULE TraceBus ------------------------------
(* One web session: messages posted to it run their turns in worker threads  *)
(* (frontend/backend/app.py), which publish trace events to the browsers     *)
(* that watch (events.py). All else runs on one event loop: handlers, and    *)
(* the callbacks other threads schedule on it, in the order scheduled.       *)
(* A set of subscribers is an object: an event goes to the object that was   *)
(* current when it was published, even when it has since been replaced.      *)
EXTENDS Naturals, Sequences, SequencesExt

CONSTANTS
    Messages,    \* messages posted to the session
    Viewers,     \* WebSocket connections; a browser that reconnects is another
    Ends,        \* message -> how its turn may end: a status, or "failed"
    Steps,       \* bound: events a turn publishes besides its start and outcome
    QueueSize    \* maxsize of a subscriber's queue

ASSUME TraceAssumption ==
    /\ Steps \in Nat /\ QueueSize \in Nat \ {0}
    /\ "none" \notin Messages
    /\ Ends \in [Messages -> SUBSET {"active", "paused_confirmation", "failed"}]

VARIABLES
    sets,       \* every set of subscribers that was ever in _SUBS
    live,       \* which one is there now, 0 if none
    loopq,      \* callbacks scheduled on the event loop
    queue,      \* viewer -> its events not yet taken
    viewer,     \* viewer -> whether its handler runs
    turn,       \* message -> its turn
    session,    \* status and pending confirmation
    posted,     \* messages in the order they were posted
    stamp,      \* history: how many events were scheduled; names them in that order
    last,       \* history: viewer -> the event sent to it last
    silent,     \* history: viewers that missed an event with nothing to explain it
    overtaken   \* history: an older message was answered after a newer one

bus == <<sets, live, queue, viewer>>
history == <<stamp, last, silent, overtaken>>
traceVars == <<bus, loopq, turn, session, posted, history>>

Subscribed == {v \in Viewers : viewer[v] = "on"}

View(m, result) == [status |-> result,
                    pending |-> IF result = "paused_confirmation" THEN m ELSE "none"]

TraceInit ==
    /\ sets = <<>> /\ live = 0 /\ loopq = <<>>
    /\ queue = [v \in Viewers |-> <<>>]
    /\ viewer = [v \in Viewers |-> "off"]
    /\ turn = [m \in Messages |-> [pc |-> "new", n |-> 0, subs |-> 0, watching |-> {},
                                   result |-> "none"]]
    /\ session = View("none", "active")
    /\ posted = <<>>
    /\ stamp = 0 /\ last = [v \in Viewers |-> 0]
    /\ silent = {} /\ overtaken = FALSE

-----------------------------------------------------------------------------
(* Publishing                                                                *)

(* A fan of an event to a set, with the viewers subscribed when it was       *)
(* captured; or the resumption of a message's handler.                       *)
FanOf(subs, e, watching) == [kind |-> "fan", subs |-> subs, event |-> e, watching |-> watching]
ResumeOf(m) == [kind |-> "resume", msg |-> m]
NextIsFan == loopq # <<>> /\ Head(loopq).kind = "fan"
NextResumes(m) == loopq # <<>> /\ Head(loopq) = ResumeOf(m)

(* Capturing no set at all, nobody will get the event.                       *)
Captured == silent' = IF live = 0 THEN silent \cup Subscribed ELSE silent

Scheduled(callbacks, subs, watching) ==
    IF subs = 0 THEN loopq' = callbacks /\ UNCHANGED stamp
    ELSE /\ loopq' = Append(callbacks, FanOf(subs, stamp + 1, watching))
         /\ stamp' = stamp + 1

Put(viewers, e) ==
    queue' = [v \in Viewers |-> IF v \in viewers THEN Append(queue[v], e) ELSE queue[v]]

HasRoom(v) == Len(queue[v]) < QueueSize

(* publish, called on the event loop: capture the set, schedule the fan.     *)
Publish(callbacks) ==
    /\ Scheduled(callbacks, live, Subscribed)
    /\ Captured
    /\ UNCHANGED queue

(* Mistake for MessagesAnswered: a full queue is waited for.                 *)
FanWaits ==
    /\ NextIsFan
    /\ \A v \in sets[Head(loopq).subs] : HasRoom(v)
    /\ Put(sets[Head(loopq).subs], Head(loopq).event)
    /\ loopq' = Tail(loopq)
    /\ UNCHANGED <<sets, live, viewer, turn, session, posted, history>>

(* _fan: put into every queue that has room; what has none is dropped.       *)
Fan ==
    /\ NextIsFan
    /\ LET subs == sets[Head(loopq).subs]
       IN  /\ Put({v \in subs : HasRoom(v)}, Head(loopq).event)
           /\ silent' = silent \cup {v \in Head(loopq).watching \cap Subscribed : v \notin subs}
    /\ loopq' = Tail(loopq)
    /\ UNCHANGED <<sets, live, viewer, turn, session, posted, stamp, last, overtaken>>

-----------------------------------------------------------------------------
(* POST /api/session/{id}/message                                            *)

(* turn_start is published and the turn handed to a worker thread.           *)
Post(m) ==
    /\ turn[m].pc = "new"
    /\ turn' = [turn EXCEPT ![m].pc = "running"]
    /\ posted' = Append(posted, m)
    /\ Publish(loopq)
    /\ UNCHANGED <<sets, live, viewer, session, last, overtaken>>

(* The thread publishes: it captures the set ...                             *)
Capture(m) ==
    /\ turn[m].pc = "running" /\ turn[m].n < Steps
    /\ turn' = [turn EXCEPT ![m].pc = "publishing", ![m].n = @ + 1,
                            ![m].subs = live, ![m].watching = Subscribed]
    /\ Captured
    /\ UNCHANGED <<bus, loopq, session, posted, stamp, last, overtaken>>

(* ... and schedules the fan, unless nobody watched.                         *)
Schedule(m) ==
    /\ turn[m].pc = "publishing"
    /\ Scheduled(loopq, turn[m].subs, turn[m].watching)
    /\ turn' = [turn EXCEPT ![m].pc = "running", ![m].subs = 0, ![m].watching = {}]
    /\ UNCHANGED <<bus, session, posted, last, silent, overtaken>>

(* run_turn returns, or raises; the loop is told to resume the handler.      *)
Return(m, result) ==
    /\ turn[m].pc = "running"
    /\ turn' = [turn EXCEPT ![m].pc = "returned", ![m].result = result]
    /\ loopq' = Append(loopq, ResumeOf(m))
    /\ UNCHANGED <<bus, session, posted, history>>

(* Mistake for SessionFollowsTurns: a pause stays pending.                   *)
KeepPending(m) == IF turn[m].result = "active" THEN [session EXCEPT !.status = "active"]
                  ELSE View(m, turn[m].result)

(* Status and pending confirmation are those of the turn.                    *)
ShowTurn(m) == View(m, turn[m].result)

(* Some newer message has been answered already.                             *)
Overtakes(m) ==
    \E i, j \in 1..Len(posted) :
        i < j /\ posted[i] = m /\ turn[posted[j]].pc = "answered"

(* The session shows the turn and its outcome is published.                  *)
Answer(m) ==
    /\ NextResumes(m) /\ turn[m].result # "failed"
    /\ turn' = [turn EXCEPT ![m].pc = "answered"]
    /\ session' = ShowTurn(m)
    /\ Publish(Tail(loopq))
    /\ overtaken' = (m # Last(posted) /\ (overtaken \/ Overtakes(m)))
    /\ UNCHANGED <<sets, live, viewer, posted, last>>

(* An exception of the turn is a 500: no outcome, the session unchanged.     *)
Fail(m) ==
    /\ NextResumes(m) /\ turn[m].result = "failed"
    /\ turn' = [turn EXCEPT ![m].pc = "answered"]
    /\ loopq' = Tail(loopq)
    /\ UNCHANGED <<bus, session, posted, history>>

-----------------------------------------------------------------------------
(* WS /ws/session/{id}                                                       *)

Subscribe(v) ==
    /\ viewer[v] = "off"
    /\ viewer' = [viewer EXCEPT ![v] = "on"]
    /\ IF live = 0
       THEN sets' = Append(sets, {v}) /\ live' = Len(sets) + 1
       ELSE sets' = [sets EXCEPT ![live] = @ \cup {v}] /\ UNCHANGED live
    /\ UNCHANGED <<loopq, queue, turn, session, posted, history>>

(* The handler takes an event and sends it, when the browser is ready.       *)
Send(v) ==
    /\ viewer[v] = "on" /\ queue[v] # <<>>
    /\ last' = [last EXCEPT ![v] = Head(queue[v])]
    /\ queue' = [queue EXCEPT ![v] = Tail(@)]
    /\ UNCHANGED <<sets, live, viewer, loopq, turn, session, posted, stamp, silent, overtaken>>

(* Mistake for TraceIsFaithful: the session's set goes with its first viewer.  *)
DropSet(v) == live' = 0 /\ UNCHANGED sets

(* unsubscribe: the entry is removed when the last viewer has left.          *)
Unsubscribe(v) ==
    /\ sets' = [sets EXCEPT ![live] = @ \ {v}]
    /\ live' = IF sets[live] = {v} THEN 0 ELSE live

(* That the browser is gone is only noticed when something is sent to it.    *)
Disconnect(v) ==
    /\ viewer[v] = "on" /\ queue[v] # <<>>
    /\ viewer' = [viewer EXCEPT ![v] = "gone"]
    /\ queue' = [queue EXCEPT ![v] = <<>>]
    /\ last' = [last EXCEPT ![v] = 0]
    /\ Unsubscribe(v)
    /\ UNCHANGED <<loopq, turn, session, posted, stamp, silent, overtaken>>

EventLoop == Fan \/ \E m \in Messages : Answer(m) \/ Fail(m)

Thread(m) ==
    \/ Capture(m)
    \/ Schedule(m)
    \/ \E result \in Ends[m] : Return(m, result)

TraceNext ==
    \/ \E m \in Messages : Post(m)
    \/ \E m \in Messages : Thread(m)
    \/ EventLoop
    \/ \E v \in Viewers : Subscribe(v) \/ Send(v) \/ Disconnect(v)

TraceSpec == TraceInit /\ [][TraceNext]_traceVars

(* The event loop runs its callbacks and every turn ends (its tool calls and *)
(* model calls are bounded); nothing is assumed of browsers.                 *)
TraceFairSpec == TraceSpec /\ WF_traceVars(EventLoop) /\ \A m \in Messages : WF_traceVars(Thread(m))

-----------------------------------------------------------------------------
TraceTypeOK ==
    /\ live \in 0..Len(sets)
    /\ Subscribed = IF live = 0 THEN {} ELSE sets[live]
    /\ \A v \in Viewers : Len(queue[v]) <= QueueSize
    /\ \A m \in Messages : turn[m].n <= Steps

(* Every viewer is sent the events in the order they were published, none    *)
(* twice, though they come from several threads and from the event loop      *)
(* itself, and viewers come and go; and it misses nothing that it was        *)
(* connected for when its publication began, except for want of room in its  *)
(* own queue, whatever other viewers do.                                     *)
TraceIsFaithful ==
    /\ \A v \in Viewers :
           LET stream == <<last[v]>> \o queue[v]
           IN  \A i \in 1..Len(queue[v]) : stream[i] < stream[i + 1]
    /\ silent = {}

(* When no turn runs, the session shows status and pending confirmation of   *)
(* the last message whose turn did not fail, unless an older message was     *)
(* answered after it: turns of one session may overlap.                      *)
SessionFollowsTurns ==
    LET failed(i) == turn[posted[i]].result = "failed"
    IN  (\A i \in DOMAIN posted : turn[posted[i]].pc = "answered") /\ ~overtaken =>
            \A i \in DOMAIN posted :
                ~failed(i) /\ (\A j \in DOMAIN posted : j > i => failed(j))
                    => session = View(posted[i], turn[posted[i]].result)

(* Every message is answered, however slow or absent the viewers are.        *)
MessagesAnswered ==
    \A m \in Messages : turn[m].pc # "new" ~> turn[m].pc = "answered"
============================================================================
