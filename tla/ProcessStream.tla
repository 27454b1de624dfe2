---------------------------- MODULE ProcessStream ----------------------------
(***************************************************************************)
(* One process across the wire.  On the server three tasks (one for each   *)
(* output stream and one that waits for the exit) number the process's     *)
(* events under the lock of the process table and send the notifications   *)
(* after they have released it.  On the client one reader task puts the    *)
(* notifications back in order and publishes them to the handle's          *)
(* subscribers, while callers start the process, read from it and drop it, *)
(* and the connection goes away at any moment.                             *)
(*                                                                         *)
(* RpcClient has the transport in detail; here it is a queue that ends     *)
(* with a terminal event, and a watch that goes down before that event is  *)
(* queued.                                                                 *)
(***************************************************************************)
EXTENDS Naturals, Sequences, FiniteSets

CONSTANTS Readers,      \* concurrent ExecProcess::read calls
          MaxChunks     \* bound: chunks of output, of both streams together

ASSUME StreamAssumption == MaxChunks \in Nat

Streams == {"stdout", "stderr"}
Tasks == Streams \cup {"exit"}
Kinds == {"output", "exited", "closed"}
Events == [kind : Kinds, seq : Nat \ {0}]
Disconnected == [kind |-> "disconnected", seq |-> 0]
NoEvent == [kind |-> "none", seq |-> 0]

VARIABLES
    entry,           \* the process's entry in the server's table
    task,            \* where each of its tasks stands
    held,            \* the notification a task has yet to send
    chunks,          \* chunks read so far
    next_seq,        \* of the entry ...
    open_streams,
    exited,
    closed,
    log,             \* kinds of the events numbered so far
    queue,           \* connection events on their way to the client's reader
    link,            \* "up", "down" (the watch is set), "ended" (and announced)
    response,        \* the answer to the exec request
    latch,           \* Inner::disconnected is set
    registered,      \* the process has a route in Inner::sessions
    start,           \* where RemoteProcess::start, and then the handle, stands
    reader,          \* the client's reader task
    last_published,  \* OrderedSessionEvents ...
    parked,
    ready,           \* the run of events publish_ordered_event has released
    failure,         \* SessionState::failure is set
    published,       \* sequenced events in the handle's event log
    failures,        \* Failed events in the handle's event log, by who published them
    rd               \* where each read stands

serverVars == <<entry, task, held, chunks, next_seq, open_streams, exited, closed, log>>
orderVars == <<last_published, parked, ready>>
clientVars == <<latch, registered, start, reader, orderVars, failure, published, failures, rd>>
vars == <<serverVars, queue, link, response, clientVars>>

\* What the server numbered.
Genuine(e) == e.seq \in 1..Len(log) /\ e.kind = log[e.seq]

\* Types, and: every event on its way is one that the server numbered.
TypeOK ==
    /\ entry \in {"none", "requested", "starting", "running", "removed"}
    /\ task \in [Tasks -> {"none", "read", "wait", "notify", "finish", "emit", "notifyClosed", "done"}]
    /\ held \in [Tasks -> Events \cup {NoEvent}]
    /\ chunks \in 0..MaxChunks
    /\ next_seq \in Nat
    /\ open_streams \in 0..2
    /\ exited \in BOOLEAN /\ closed \in BOOLEAN
    /\ log \in Seq(Kinds)
    /\ queue \in Seq(Events \cup {Disconnected})
    /\ link \in {"up", "down", "ended"}
    /\ response \in {"none", "ok", "error"}
    /\ latch \in BOOLEAN /\ registered \in BOOLEAN
    /\ start \in {"idle", "registered", "calling", "unregister", "failed", "cancelled",
                  "started", "dropping", "dropped"}
    /\ reader \in {"recv", "publish", "remove", "take", "fail", "publishFailed", "done"}
    /\ last_published \in Nat
    /\ parked \subseteq Events
    /\ ready \in Seq(Events)
    /\ failure \in BOOLEAN
    /\ published \in Seq(Events)
    /\ failures \in Seq({"reader", "read"})
    /\ rd \in [Readers -> {"idle", "call", "setFailure", "publish"}]
    /\ next_seq = Len(log) + 1
    /\ \A t \in Tasks : task[t] \in {"notify", "notifyClosed"} => Genuine(held[t])
    /\ \A i \in 1..Len(queue) : queue[i] = Disconnected \/ Genuine(queue[i])
    /\ \A e \in parked : Genuine(e)

Init ==
    /\ entry = "none"
    /\ task = [t \in Tasks |-> "none"]
    /\ held = [t \in Tasks |-> NoEvent]
    /\ chunks = 0
    /\ next_seq = 1 /\ open_streams = 2 /\ exited = FALSE /\ closed = FALSE
    /\ log = <<>>
    /\ queue = <<>> /\ link = "up" /\ response = "none"
    /\ latch = FALSE /\ registered = FALSE
    /\ start = "idle" /\ reader = "recv"
    /\ last_published = 0 /\ parked = {} /\ ready = <<>>
    /\ failure = FALSE /\ published = <<>> /\ failures = <<>>
    /\ rd = [r \in Readers |-> "idle"]

-----------------------------------------------------------------------------
(* RemoteProcess::start and the handle it returns.                         *)

\* Mutant: the session is registered without a look at the disconnect.
RegisterAnyway ==
    /\ start = "idle"
    /\ start' = "registered"
    /\ registered' = TRUE
    /\ UNCHANGED <<serverVars, queue, link, response, latch, reader, orderVars, failure, published, failures, rd>>

\* insert_session refuses once the disconnect is recorded.
RegisterSession ==
    /\ start = "idle"
    /\ start' = IF latch THEN "failed" ELSE "registered"
    /\ registered' = ~latch
    /\ UNCHANGED <<serverVars, queue, link, response, latch, reader, orderVars, failure, published, failures, rd>>

\* The exec request leaves, or fails on a transport known to be closed.
ExecCall ==
    /\ start = "registered"
    /\ IF latch \/ link # "up"
       THEN start' = "unregister" /\ latch' = TRUE /\ UNCHANGED entry
       ELSE start' = "calling" /\ entry' = "requested" /\ UNCHANGED latch
    /\ UNCHANGED <<task, held, chunks, next_seq, open_streams, exited, closed, log, queue, link, response,
                   registered, reader, orderVars, failure, published, failures, rd>>

ExecReturn ==
    /\ start = "calling"
    /\ response # "none" \/ link = "ended"
    /\ start' = IF response = "ok" THEN "started" ELSE "unregister"
    /\ latch' = (latch \/ response = "none")
    /\ UNCHANGED <<serverVars, queue, link, response, registered, reader, orderVars, failure, published, failures, rd>>

\* The future of start is dropped while it waits: no handle, and nobody
\* unregisters the route.
CancelStart ==
    /\ start \in {"calling", "unregister"}
    /\ start' = "cancelled"
    /\ UNCHANGED <<serverVars, queue, link, response, latch, registered, reader, orderVars, failure, published, failures, rd>>

\* A dropped handle unregisters in a task of its own.
DropHandle ==
    /\ start = "started" /\ \A r \in Readers : rd[r] = "idle"
    /\ start' = "dropping"
    /\ UNCHANGED <<serverVars, queue, link, response, latch, registered, reader, orderVars, failure, published, failures, rd>>

Unregister ==
    /\ start \in {"unregister", "dropping"}
    /\ start' = IF start = "dropping" THEN "dropped" ELSE "failed"
    /\ registered' = FALSE
    /\ UNCHANGED <<serverVars, queue, link, response, latch, reader, orderVars, failure, published, failures, rd>>

-----------------------------------------------------------------------------
(* The server: start_process.                                              *)

\* A request that was sent may be lost with the connection, or handled after
\* the client has given up.
InsertStarting ==
    /\ entry = "requested"
    /\ entry' = "starting"
    /\ UNCHANGED <<task, held, chunks, next_seq, open_streams, exited, closed, log, queue, link, response, clientVars>>

Spawned ==
    /\ entry = "starting"
    /\ entry' = "running"
    /\ task' = [t \in Tasks |-> IF t = "exit" THEN "wait" ELSE "read"]
    /\ response' = IF link = "up" THEN "ok" ELSE "none"
    /\ UNCHANGED <<held, chunks, next_seq, open_streams, exited, closed, log, queue, link, clientVars>>

SpawnFails ==
    /\ entry = "starting"
    /\ entry' = "removed"
    /\ response' = IF link = "up" THEN "error" ELSE "none"
    /\ UNCHANGED <<task, held, chunks, next_seq, open_streams, exited, closed, log, queue, link, clientVars>>

-----------------------------------------------------------------------------
(* The server's tasks.                                                     *)

\* Under the lock: the next number, and the event in the entry's own log.
Number(t, kind) ==
    /\ held' = [held EXCEPT ![t] = [kind |-> kind, seq |-> next_seq]]
    /\ next_seq' = next_seq + 1
    /\ log' = Append(log, kind)

NotNumbered == UNCHANGED <<held, next_seq, log>>

\* stream_output, one chunk; without its entry the task stops reading.
ReadChunk(s) ==
    /\ task[s] = "read" /\ chunks < MaxChunks
    /\ chunks' = chunks + 1
    /\ IF entry = "running"
       THEN Number(s, "output") /\ task' = [task EXCEPT ![s] = "notify"]
       ELSE NotNumbered /\ task' = [task EXCEPT ![s] = "finish"]
    /\ UNCHANGED <<entry, open_streams, exited, closed, queue, link, response, clientVars>>

EndOfStream(s) ==
    /\ task[s] = "read"
    /\ task' = [task EXCEPT ![s] = "finish"]
    /\ UNCHANGED <<entry, held, chunks, next_seq, open_streams, exited, closed, log, queue, link, response, clientVars>>

finish_output_stream(s) ==
    /\ task[s] = "finish"
    /\ task' = [task EXCEPT ![s] = IF entry = "running" THEN "emit" ELSE "done"]
    /\ open_streams' = IF entry = "running" /\ open_streams > 0 THEN open_streams - 1 ELSE open_streams
    /\ UNCHANGED <<entry, held, chunks, next_seq, exited, closed, log, queue, link, response, clientVars>>

watch_exit ==
    /\ task["exit"] = "wait"
    /\ IF entry = "running"
       THEN Number("exit", "exited") /\ exited' = TRUE /\ task' = [task EXCEPT !["exit"] = "notify"]
       ELSE NotNumbered /\ UNCHANGED exited /\ task' = [task EXCEPT !["exit"] = "emit"]
    /\ UNCHANGED <<entry, chunks, open_streams, closed, queue, link, response, clientVars>>

\* Whoever comes last closes.
maybe_emit_closed(t) ==
    /\ task[t] = "emit"
    /\ IF entry = "running" /\ ~closed /\ open_streams = 0 /\ exited
       THEN Number(t, "closed") /\ closed' = TRUE /\ task' = [task EXCEPT ![t] = "notifyClosed"]
       ELSE NotNumbered /\ UNCHANGED closed /\ task' = [task EXCEPT ![t] = "done"]
    /\ UNCHANGED <<entry, chunks, open_streams, exited, queue, link, response, clientVars>>

\* Mutant: the notification is put together after the lock is released.
NotifyTooLate(t) ==
    /\ task[t] \in {"notify", "notifyClosed"}
    /\ queue' = IF link = "up" THEN Append(queue, [held[t] EXCEPT !.seq = next_seq]) ELSE queue
    /\ held' = [held EXCEPT ![t] = NoEvent]
    /\ task' = [task EXCEPT ![t] = CASE task[t] = "notifyClosed" -> "done"
                                     [] task[t] = "notify" /\ t = "exit" -> "emit"
                                     [] OTHER -> "read"]
    /\ UNCHANGED <<entry, chunks, next_seq, open_streams, exited, closed, log, link, response, clientVars>>

\* The notification goes out, if there still is somewhere to send it.
Notify(t) ==
    /\ task[t] \in {"notify", "notifyClosed"}
    /\ queue' = IF link = "up" THEN Append(queue, held[t]) ELSE queue
    /\ held' = [held EXCEPT ![t] = NoEvent]
    /\ task' = [task EXCEPT ![t] = CASE task[t] = "notifyClosed" -> "done"
                                     [] task[t] = "notify" /\ t = "exit" -> "emit"
                                     [] OTHER -> "read"]
    /\ UNCHANGED <<entry, chunks, next_seq, open_streams, exited, closed, log, link, response, clientVars>>

\* EXITED_PROCESS_RETENTION after Closed the entry goes.
Cleanup ==
    /\ entry = "running" /\ closed
    /\ entry' = "removed"
    /\ UNCHANGED <<task, held, chunks, next_seq, open_streams, exited, closed, log, queue, link, response, clientVars>>

\* The session expired after the connection was lost.  An entry that is still
\* starting was left by a request that was dropped with its connection.
Shutdown ==
    /\ entry \in {"starting", "running"} /\ link # "up"
    /\ entry' = "removed"
    /\ UNCHANGED <<task, held, chunks, next_seq, open_streams, exited, closed, log, queue, link, response, clientVars>>

-----------------------------------------------------------------------------
(* The connection.  What was in flight may be lost with it.                *)

LinkCloses ==
    /\ link = "up"
    /\ link' = "down"
    /\ \E n \in 0..Len(queue) : queue' = SubSeq(queue, 1, n)
    /\ response' \in IF start = "calling" THEN {response, "none"} ELSE {response}
    /\ UNCHANGED <<serverVars, clientVars>>

LinkEnds ==
    /\ link = "down"
    /\ link' = "ended"
    /\ queue' = Append(queue, Disconnected)
    /\ UNCHANGED <<serverVars, response, clientVars>>

-----------------------------------------------------------------------------
(* The client's reader task.                                               *)

\* The first event with a number counts; one that was published is dropped.
Accepted(e) ==
    parked \cup {x \in {e} : x.seq > last_published /\ \A y \in parked : y.seq # x.seq}

\* Every number up to the next one is there, and the one after it is missing.
IsRun(events, end) ==
    /\ \A k \in (last_published + 1)..end : \E x \in events : x.seq = k
    /\ \A x \in events : x.seq # end + 1

\* The events of the run leave in the order of their numbers, the others wait.
Release(events, end) ==
    /\ last_published' = end
    /\ parked' = {x \in events : x.seq > end}
    /\ ready' = [i \in 1..(end - last_published) |->
                    CHOOSE x \in events : x.seq = last_published + i]

\* Mutant: events are published as they come.
PublishAsTheyCome(e) ==
    /\ last_published' = last_published + 1
    /\ parked' = {}
    /\ ready' = <<e>>

\* Mutant: events that were waiting for this one stay.
PublishOne(e) ==
    /\ last_published' = IF e.seq = last_published + 1 THEN e.seq ELSE last_published
    /\ parked' = Accepted(e) \ {x \in {e} : x.seq = last_published + 1}
    /\ ready' = IF e.seq = last_published + 1 THEN <<e>> ELSE <<>>

publish_ordered_event(e) ==
    LET events == Accepted(e)
    IN  \E end \in last_published..(last_published + Cardinality(events)) :
            IsRun(events, end) /\ Release(events, end)

\* Mutant: the route goes when Closed arrives.
ReaderEventRemoves ==
    /\ reader = "recv" /\ queue # <<>> /\ Head(queue) # Disconnected
    /\ queue' = Tail(queue)
    /\ IF registered THEN publish_ordered_event(Head(queue)) ELSE UNCHANGED orderVars
    /\ registered' = (registered /\ Head(queue).kind # "closed")
    /\ reader' = IF ready' = <<>> THEN "recv" ELSE "publish"
    /\ UNCHANGED <<serverVars, link, response, latch, start, failure, published, failures, rd>>

\* handle_server_notification; without a route the event is dropped.
ReaderEvent ==
    /\ reader = "recv" /\ queue # <<>> /\ Head(queue) # Disconnected
    /\ queue' = Tail(queue)
    /\ IF registered THEN publish_ordered_event(Head(queue)) ELSE UNCHANGED orderVars
    /\ reader' = IF ready' = <<>> THEN "recv" ELSE "publish"
    /\ UNCHANGED <<serverVars, link, response, latch, registered, start, failure, published, failures, rd>>

HasClosed(events) == \E i \in DOMAIN events : events[i].kind = "closed"

\* One event at a time into the log; the route goes after Closed is there.
ReaderPublish ==
    /\ reader = "publish"
    /\ published' = Append(published, Head(ready))
    /\ ready' = Tail(ready)
    /\ reader' = CASE Len(ready) > 1 -> "publish"
                   [] Len(ready) = 1 /\ HasClosed(published') -> "remove"
                   [] OTHER -> "recv"
    /\ UNCHANGED <<serverVars, queue, link, response, latch, registered, start, last_published, parked, failure, failures, rd>>

ReaderRemove ==
    /\ reader = "remove"
    /\ registered' = FALSE
    /\ reader' = "recv"
    /\ UNCHANGED <<serverVars, queue, link, response, latch, start, orderVars, failure, published, failures, rd>>

\* The terminal event: record_disconnected first ...
ReaderDisconnected ==
    /\ reader = "recv" /\ queue # <<>> /\ Head(queue) = Disconnected
    /\ queue' = Tail(queue)
    /\ latch' = TRUE
    /\ reader' = "take"
    /\ UNCHANGED <<serverVars, link, response, registered, start, orderVars, failure, published, failures, rd>>

\* ... then take_all_sessions, and set_failure on each.
take_all_sessions ==
    /\ reader = "take"
    /\ registered' = FALSE
    /\ reader' = IF registered THEN "fail" ELSE "done"
    /\ UNCHANGED <<serverVars, queue, link, response, latch, start, orderVars, failure, published, failures, rd>>

ReaderSetFailure ==
    /\ reader = "fail"
    /\ failure' = TRUE
    /\ reader' = IF failure THEN "done" ELSE "publishFailed"
    /\ UNCHANGED <<serverVars, queue, link, response, latch, registered, start, orderVars, published, failures, rd>>

ReaderPublishFailed ==
    /\ reader = "publishFailed"
    /\ failures' = Append(failures, "reader")
    /\ reader' = "done"
    /\ UNCHANGED <<serverVars, queue, link, response, latch, registered, start, orderVars, failure, published, rd>>

-----------------------------------------------------------------------------
(* Session::read.  Its answer does not change the stream; only that it     *)
(* finds the transport closed does.                                        *)

ReadBegin(r) ==
    /\ start = "started" /\ rd[r] = "idle" /\ ~failure
    /\ rd' = [rd EXCEPT ![r] = "call"]
    /\ UNCHANGED <<serverVars, queue, link, response, latch, registered, start, reader, orderVars, failure, published, failures>>

ReadAnswered(r) ==
    /\ rd[r] = "call"
    /\ rd' = [rd EXCEPT ![r] = "idle"]
    /\ UNCHANGED <<serverVars, queue, link, response, latch, registered, start, reader, orderVars, failure, published, failures>>

ReadFails(r) ==
    /\ rd[r] = "call" /\ link # "up"
    /\ latch' = TRUE
    /\ rd' = [rd EXCEPT ![r] = "setFailure"]
    /\ UNCHANGED <<serverVars, queue, link, response, registered, start, reader, orderVars, failure, published, failures>>

ReadSetFailure(r) ==
    /\ rd[r] = "setFailure"
    /\ failure' = TRUE
    /\ rd' = [rd EXCEPT ![r] = IF failure THEN "idle" ELSE "publish"]
    /\ UNCHANGED <<serverVars, queue, link, response, latch, registered, start, reader, orderVars, published, failures>>

ReadPublishFailed(r) ==
    /\ rd[r] = "publish"
    /\ failures' = Append(failures, "read")
    /\ rd' = [rd EXCEPT ![r] = "idle"]
    /\ UNCHANGED <<serverVars, queue, link, response, latch, registered, start, reader, orderVars, failure, published>>

-----------------------------------------------------------------------------
Starter == RegisterSession \/ ExecCall \/ ExecReturn \/ CancelStart \/ DropHandle \/ Unregister
StartServer == InsertStarting \/ Spawned \/ SpawnFails
OutputTask(s) == ReadChunk(s) \/ EndOfStream(s) \/ finish_output_stream(s)
Finishing(t) == maybe_emit_closed(t) \/ Notify(t)
Link == LinkCloses \/ LinkEnds
Reader == \/ ReaderEvent \/ ReaderPublish \/ ReaderRemove
          \/ ReaderDisconnected \/ take_all_sessions \/ ReaderSetFailure \/ ReaderPublishFailed
Read(r) == ReadBegin(r) \/ ReadAnswered(r) \/ ReadFails(r) \/ ReadSetFailure(r) \/ ReadPublishFailed(r)

Next == \/ Starter \/ StartServer
        \/ \E s \in Streams : OutputTask(s)
        \/ watch_exit \/ \E t \in Tasks : Finishing(t)
        \/ Cleanup \/ Shutdown \/ Link \/ Reader
        \/ \E r \in Readers : Read(r)

\* Tasks run.  The process may print and live for ever, the connection may
\* hold for ever, and nobody has to read.
Fairness ==
    /\ \A s \in Streams : WF_vars(finish_output_stream(s))
    /\ \A t \in Tasks : WF_vars(Finishing(t))
    /\ WF_vars(LinkEnds) /\ WF_vars(Reader)
    /\ \A r \in Readers : WF_vars(ReadSetFailure(r) \/ ReadPublishFailed(r))

Safety == Init /\ [][Next]_vars
Spec == Safety /\ Fairness

-----------------------------------------------------------------------------
(* Properties.                                                             *)

Stream == INSTANCE ProcessEvents WITH
    produced <- log,
    delivered <- published

\* Whatever order the tasks' notifications travel in, a subscriber sees the
\* process's events once each and in the order the server numbered them, with
\* Closed after everything else, and at most one Failed.  The reader's Failed
\* is the end of the stream and never follows Closed; a read's is neither.
StreamSpec == Stream!Spec

\* Failed is the end of the stream: whoever publishes it, what the connection
\* delivered before it was lost has been published by then.
FailedIsLast == [][failures # <<>> => UNCHANGED published]_vars

\* A handle whose route is gone has seen the end: its subscribers got Closed,
\* not merely its early notification, or the disconnect fails it.
RouteUntilEnd ==
    start = "started" /\ ~registered =>
        \/ HasClosed(published)
        \/ reader = "fail" \/ failure

\* When the reader has ended no process has a route: none waits for
\* notifications that nobody reads.
NoOrphanRoute == reader = "done" => ~registered

\* A handle's stream ends: with Closed or Failed once the server has closed
\* the process or the connection is lost.
Ended == failures # <<>> \/ HasClosed(published)

StreamEnds ==
    (start = "started" /\ (closed \/ link # "up")) ~> (Ended \/ start # "started")

-----------------------------------------------------------------------------
(* The inductive invariant.                                                *)

Open(s) == IF task[s] \in {"read", "notify", "finish"} THEN 1 ELSE 0

\* The entry counts what its tasks have done, and whoever closes is the last
\* to number an event.
ServerInv ==
    /\ start \in {"idle", "registered"} => entry = "none"
    /\ entry \in {"none", "requested", "starting"} =>
          open_streams = 2 /\ ~exited /\ ~closed
    /\ entry = "running" =>
          /\ open_streams = Open("stdout") + Open("stderr")
          /\ exited <=> task["exit"] # "wait"
          /\ closed => open_streams = 0 /\ exited
    /\ (\E i \in 1..Len(log) : log[i] = "closed") => closed

\* Published and released events are the first last_published of the log.
OrderInv ==
    /\ reader = "publish" <=> ready # <<>>
    /\ Len(published) + Len(ready) = last_published
    /\ last_published <= Len(log)
    /\ \A i \in 1..Len(ready) : Genuine(ready[i]) /\ ready[i].seq = Len(published) + i
    /\ \A i \in 1..Len(published) : Genuine(published[i]) /\ published[i].seq = i

\* Whoever sets the failure is the only one to publish it.
FailInv ==
    /\ Len(failures) <= 1
    /\ failures # <<>> => failure
    /\ failures = <<"reader">> => reader = "done"
    /\ reader = "publishFailed" =>
          failure /\ failures = <<>> /\ \A r \in Readers : rd[r] # "publish"
    /\ \A r \in Readers : rd[r] = "publish" =>
          failure /\ failures = <<>> /\ \A q \in Readers \ {r} : rd[q] # "publish"

\* The disconnect is recorded before the routes are taken, and a route goes
\* when Closed is published.
RouteInv ==
    /\ reader \in {"take", "fail", "publishFailed", "done"} => latch
    /\ reader \in {"fail", "publishFailed", "done"} => ~registered
    /\ reader = "remove" => HasClosed(published)
    /\ HasClosed(published) /\ registered => reader \in {"publish", "remove"}
    /\ reader \in {"fail", "publishFailed"} => ~HasClosed(published)
    /\ start \in {"registered", "calling", "started"} /\ ~registered =>
          HasClosed(published) \/ reader = "fail" \/ failure

IInv == TypeOK /\ ServerInv /\ OrderInv /\ FailInv /\ RouteInv
==============================================================================
