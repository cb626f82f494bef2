---------------------------- MODULE EventStream ----------------------------
(***************************************************************************)
(* The live evidence of one run, from the transaction that appends an      *)
(* event to the dashboard that shows it: the broadcaster with one bounded  *)
(* queue per connection (events.py), the stream that replays and then      *)
(* follows (stream_events in app.py), and one dashboard with its reconnect *)
(* and its fallback to polling (connectLiveEvents in api.js).              *)
(*                                                                         *)
(* A handler publishes only after its last transaction, so that events     *)
(* reach the queues in an order other than that of their sequence numbers. *)
(***************************************************************************)
EXTENDS Integers, Sequences, SequencesExt

CONSTANTS
    Handlers,       \* requests that append events, each publishing at its end
    MaxEvents,      \* bound on the evidence log
    QueueSize,      \* maxsize of a connection's queue
    MaxConnections  \* bound on the connections the dashboard opens

VARIABLES
    stored,      \* the log holds the events 1..stored
    unpublished, \* per handler, the events it committed and has not published
    link,        \* "unloaded", "loaded", "subscribed", "live", "lost" or "polling"
    connections, \* connections opened so far
    queue,       \* the queue of the open connection
    replay,      \* stored events the open connection has still to send
    seen,        \* seen_sequences of the open connection
    lastEventId, \* id of the last event received, 0 before the first
    initial,     \* the sequence the dashboard subscribed after, 0 for none
    shown,       \* the events in the dashboard's timeline
    \* What befell events, for the property below:
    dropped,     \* refused by a full queue
    overtaken,   \* behind a shown event when the connection was lost
    predating    \* stored before a dashboard that failed to load its history

streamVars == <<stored, unpublished, link, connections, queue, replay, seen,
               lastEventId, initial, shown, dropped, overtaken, predating>>

Events == 1 .. MaxEvents

NewestOf(S) == CHOOSE e \in S \cup {0} : \A f \in S : f <= e

\* get_events: what is stored after a sequence number, in order.
StoredAfter(cursor) == [i \in 1 .. stored - cursor |-> cursor + i]

Connected == link \in {"subscribed", "live"}

StreamInit ==
    /\ stored = 1  \* a run's first event is appended with the run
    /\ unpublished = [h \in Handlers |-> <<>>]
    /\ link = "unloaded" /\ connections = 0
    /\ queue = <<>> /\ replay = <<>> /\ seen = {}
    /\ lastEventId = 0 /\ initial = 0 /\ shown = {}
    /\ dropped = {} /\ overtaken = {} /\ predating = {}

-----------------------------------------------------------------------------
(* The gateway's handlers. *)

\* A transaction of a handler appends an event; the handler keeps it.
Commit(h) ==
    /\ stored < MaxEvents
    /\ stored' = stored + 1
    /\ unpublished' = [unpublished EXCEPT ![h] = Append(@, stored + 1)]
    /\ UNCHANGED <<link, connections, queue, replay, seen, lastEventId, initial,
                   shown, dropped, overtaken, predating>>

\* publish_sync of the handler's next event: put in the queue of an open
\* connection, or dropped when that is full.
Publish(h) ==
    /\ unpublished[h] # <<>>
    /\ unpublished' = [unpublished EXCEPT ![h] = Tail(@)]
    /\ LET e == Head(unpublished[h])
           fits == Len(queue) < QueueSize
       IN /\ queue' = IF Connected /\ fits THEN Append(queue, e) ELSE queue
          /\ dropped' = IF Connected /\ ~fits THEN dropped \cup {e} ELSE dropped
    /\ UNCHANGED <<stored, link, connections, replay, seen, lastEventId, initial,
                   shown, overtaken, predating>>

-----------------------------------------------------------------------------
(* The dashboard and its connection. *)

\* refreshRuns fetches the history; a failed fetch leaves an empty timeline.
Load ==
    /\ link = "unloaded"
    /\ link' = "loaded"
    /\ \E fetched \in BOOLEAN :
         /\ shown' = IF fetched THEN 1 .. stored ELSE {}
         /\ initial' = IF fetched THEN stored ELSE 0
    /\ UNCHANGED <<stored, unpublished, connections, queue, replay, seen, lastEventId,
                   dropped, overtaken, predating>>

\* The cursor of a connection: Last-Event-ID, else after_sequence, else none.
Cursor == IF lastEventId # 0 THEN lastEventId ELSE initial

\* stream_events up to its subscription: a fresh queue, and nothing sent.
Subscribe ==
    /\ link \in {"loaded", "lost"} /\ connections < MaxConnections
    /\ link' = "subscribed"
    /\ connections' = connections + 1
    /\ queue' = <<>> /\ replay' = <<>> /\ seen' = {}
    /\ predating' = IF Cursor = 0 THEN predating \cup (1 .. stored) ELSE predating
    /\ UNCHANGED <<stored, unpublished, lastEventId, initial, shown, dropped, overtaken>>

\* The replay is read after the subscription, when there is a cursor at all.
ReadStored ==
    /\ link = "subscribed"
    /\ link' = "live"
    /\ replay' = IF Cursor = 0 THEN <<>> ELSE StoredAfter(Cursor)
    /\ UNCHANGED <<stored, unpublished, connections, queue, seen, lastEventId,
                   initial, shown, dropped, overtaken, predating>>

\* An event arrives: the browser remembers its id, subscribeToRun adds it to
\* the timeline unless one of its sequence is there.
Receive(e) ==
    /\ lastEventId' = e
    /\ shown' = shown \cup {e}

\* The stream sends the next stored event.
SendStored ==
    /\ link = "live" /\ replay # <<>>
    /\ replay' = Tail(replay)
    /\ seen' = seen \cup {Head(replay)}
    /\ Receive(Head(replay))
    /\ UNCHANGED <<stored, unpublished, link, connections, queue, initial,
                   dropped, overtaken, predating>>

\* A stream that takes a late event for one it has sent.
SkipOlder ==
    /\ link = "live" /\ replay = <<>> /\ queue # <<>>
    /\ queue' = Tail(queue)
    /\ LET e == Head(queue)
       IN IF e <= NewestOf(seen)
          THEN UNCHANGED <<seen, lastEventId, shown>>
          ELSE seen' = seen \cup {e} /\ Receive(e)
    /\ UNCHANGED <<stored, unpublished, link, connections, replay, initial,
                   dropped, overtaken, predating>>

\* The stream takes the next event from its queue, and skips what it has sent.
SendQueued ==
    /\ link = "live" /\ replay = <<>> /\ queue # <<>>
    /\ queue' = Tail(queue)
    /\ LET e == Head(queue)
       IN IF e \in seen
          THEN UNCHANGED <<seen, lastEventId, shown>>
          ELSE seen' = seen \cup {e} /\ Receive(e)
    /\ UNCHANGED <<stored, unpublished, link, connections, replay, initial,
                   dropped, overtaken, predating>>

\* Stored events that are missing behind a newer one in the timeline.
Behind == {e \in 1 .. stored : e \notin shown /\ \E f \in shown : e < f}

\* The connection is lost, or ends at its limit: the queue goes with it. The
\* browser reconnects, or gives up for good and the dashboard polls.
Disconnect ==
    /\ Connected
    /\ link' \in {"lost", "polling"}
    /\ queue' = <<>> /\ replay' = <<>>
    /\ overtaken' = overtaken \cup Behind
    /\ UNCHANGED <<stored, unpublished, connections, seen, lastEventId, initial,
                   shown, dropped, predating>>

\* The gateway is restarted: what was not published never is.
Restart ==
    /\ \E h \in Handlers : unpublished[h] # <<>>
    /\ unpublished' = [h \in Handlers |-> <<>>]
    /\ link' = IF Connected THEN "lost" ELSE link
    /\ queue' = <<>> /\ replay' = <<>>
    /\ overtaken' = IF Connected THEN overtaken \cup Behind ELSE overtaken
    /\ UNCHANGED <<stored, connections, seen, lastEventId, initial, shown, dropped,
                   predating>>

\* poll fetches what is stored after the newest sequence received.
Poll ==
    /\ link = "polling"
    /\ shown' = shown \cup Range(StoredAfter(NewestOf(shown)))
    /\ UNCHANGED <<stored, unpublished, link, connections, queue, replay, seen,
                   lastEventId, initial, dropped, overtaken, predating>>

StreamNext ==
    \/ \E h \in Handlers : Commit(h) \/ Publish(h)
    \/ Load \/ Subscribe \/ ReadStored \/ SendStored \/ SendQueued
    \/ Disconnect \/ Restart \/ Poll

StreamSpec == StreamInit /\ [][StreamNext]_streamVars

-----------------------------------------------------------------------------
(* Properties. *)

InFlight == UNION {Range(unpublished[h]) : h \in Handlers}

\* Nothing more is on its way to the dashboard on its present connection.
CaughtUp == link = "live" /\ replay = <<>> /\ queue = <<>>

\* A dashboard that has caught up shows every event of the log that its
\* handler has published, except one that a full queue refused, that a newer
\* event overtook before a connection was lost, or that was stored before a
\* dashboard that could not fetch its history: subscribing before reading the
\* replay leaves no other gap, across reconnects, fallback and restarts.
MissingIsExplained ==
    LET excused == dropped \cup overtaken \cup predating
    IN /\ CaughtUp => (1 .. stored) \ InFlight \subseteq shown \cup excused
       /\ link = "polling" => Behind \subseteq excused

=============================================================================
