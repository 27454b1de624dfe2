---------------------------- MODULE ProcessOutput ----------------------------
(***************************************************************************)
(* What becomes of a process's output once it is numbered.  The server     *)
(* retains the latest chunks up to a number of bytes; the client publishes *)
(* every event, in order, to a log that keeps a bounded history for late   *)
(* subscribers and a bounded channel for the present ones.  Three kinds of *)
(* consumer put the output together again:                                 *)
(*   "push"  the MCP transport: history, then the channel; when it has     *)
(*           fallen behind it reads what it missed and goes on;            *)
(*   "pull"  unified exec's output task: reads whenever it is woken;       *)
(*   "page"  a caller that pages through the output with a byte budget.    *)
(*                                                                         *)
(* ProcessStream shows that the client publishes the events in the order   *)
(* in which the server numbered them; here that is the action Deliver.  A  *)
(* local process is the case in which delivery follows at once and the     *)
(* link holds.                                                             *)
(***************************************************************************)
EXTENDS Naturals, Sequences, FiniteSets, FiniteSetsExt, Functions

CONSTANTS Sizes,          \* of chunks, in bytes
          RetainedBytes,  \* RETAINED_OUTPUT_BYTES_PER_PROCESS
          EventCapacity,  \* PROCESS_EVENT_CHANNEL_CAPACITY
          ByteCapacity,   \* the history's limit in bytes
          Budgets,        \* max_bytes of a paging caller
          MaxChunks       \* bound: chunks of output

ASSUME OutputAssumption ==
    /\ Sizes \subseteq Nat \ {0} /\ Budgets \subseteq Nat
    /\ RetainedBytes \in Nat /\ ByteCapacity \in Nat
    /\ EventCapacity \in Nat \ {0} /\ MaxChunks \in Nat

Consumers == {"push", "pull", "page"}
Events == [kind : {"output"}, bytes : Sizes] \cup [kind : {"exited", "closed"}, bytes : {0}]
Failed == 0        \* the unsequenced event; any other is its number

VARIABLES
    log,        \* the events of the process, numbered by their position
    output,     \* numbers of the chunks the server retains
    entry,      \* the process's entry in the server's table
    link,       \* the connection to the server
    wire,       \* how many of the events were sent before it was lost
    published,  \* last_published_seq
    sent,       \* everything the event log was given
    evicted,    \* how many of these have left the history
    failure,    \* SessionState::failure is set
    reader,     \* the client's reader task
    woken,      \* the wake channel changed since the output task last looked
    consumer,   \* who consumes this process's output; where it stands
    pc,
    cursor,     \* its last_seq or after_seq
    response,   \* the answer to its read
    got,        \* the chunks it took, in order
    position,   \* how far the transport has come in sent
    live,       \* where its channel begins; what comes before is the replay
    gone,       \* evicted before the consumer could have it (history variable)
    skipped     \* passed over by a recovery, though still to come (history variable)

serverVars == <<log, output, entry>>
clientVars == <<published, sent, evicted, failure>>
consumerVars == <<consumer, pc, cursor, response, got, position, live, gone,
                  skipped>>
vars == <<serverVars, link, wire, clientVars, reader, woken, consumerVars>>

Chunks == {s \in DOMAIN log : log[s].kind = "output"}
Closed == \E s \in DOMAIN log : log[s].kind = "closed"
Exited == \E s \in DOMAIN log : log[s].kind = "exited"
Bytes(seqs) == SumFunctionOnSet([s \in DOMAIN log |-> log[s].bytes], seqs)

Responses == [chunks : SUBSET Nat, next_seq : Nat, closed : BOOLEAN]
NoResponse == [chunks |-> {}, next_seq |-> 0, closed |-> FALSE]

TypeOK ==
    /\ log \in Seq(Events)
    /\ output \subseteq Chunks
    /\ entry \in {"running", "removed"}
    /\ link \in {"up", "lost"}
    /\ wire \in 0..Len(log)
    /\ published \in 0..wire
    /\ sent \in Seq(0..published)
    /\ evicted \in 0..Len(sent)
    /\ failure \in BOOLEAN
    /\ reader \in {"run", "done"}
    /\ woken \in BOOLEAN
    /\ consumer \in Consumers
    /\ pc \in {"new", "recv", "wait", "read", "served", "apply", "closed", "failed"}
    /\ cursor \in 0..Len(log)
    /\ response \in Responses
    /\ got \in Seq(Chunks)
    /\ position \in 0..Len(sent)
    /\ live \in 0..Len(sent)
    /\ gone \subseteq Nat /\ skipped \subseteq Nat

Init ==
    /\ log = <<>> /\ output = {} /\ entry = "running"
    /\ link = "up" /\ wire = 0
    /\ published = 0 /\ sent = <<>> /\ evicted = 0
    /\ failure = FALSE /\ reader = "run" /\ woken = FALSE
    /\ consumer \in Consumers
    /\ pc = IF consumer = "push" THEN "new" ELSE "read"
    /\ cursor = 0 /\ response = NoResponse /\ got = <<>>
    /\ position = 0 /\ live = 0 /\ gone = {} /\ skipped = {}

-----------------------------------------------------------------------------
(* The server.                                                             *)

\* An event gets its number and its notification is sent while there is
\* somewhere to send it.
Number(event) ==
    /\ log' = Append(log, event)
    /\ wire' = IF link = "up" THEN Len(log) + 1 ELSE wire

\* The oldest chunks go until the rest fits: a chunk that is larger than the
\* limit takes all of them along, itself too.
Retain(bytes) ==
    LET chunks == DOMAIN bytes
        Fits(low) == SumFunctionOnSet(bytes, {s \in chunks : s > low}) <= RetainedBytes
    IN  {s \in chunks : s > Min({low \in 0..Max(chunks) : Fits(low)})}

stream_output(size) ==
    LET n == Len(log) + 1
        bytes == [s \in output \cup {n} |-> IF s = n THEN size ELSE log[s].bytes]
    IN  /\ entry = "running" /\ ~Closed /\ Cardinality(Chunks) < MaxChunks
        /\ Number([kind |-> "output", bytes |-> size])
        /\ output' = Retain(bytes)
        /\ UNCHANGED <<entry, link, clientVars, reader, woken, consumerVars>>

\* Output may still follow the exit; Closed is the last.
watch_exit ==
    /\ entry = "running" /\ ~Exited
    /\ Number([kind |-> "exited", bytes |-> 0])
    /\ UNCHANGED <<output, entry, link, clientVars, reader, woken, consumerVars>>

maybe_emit_closed ==
    /\ entry = "running" /\ Exited /\ ~Closed
    /\ Number([kind |-> "closed", bytes |-> 0])
    /\ UNCHANGED <<output, entry, link, clientVars, reader, woken, consumerVars>>

\* EXITED_PROCESS_RETENTION after Closed.
Cleanup ==
    /\ entry = "running" /\ Closed
    /\ entry' = "removed"
    /\ UNCHANGED <<log, output, link, wire, clientVars, reader, woken, consumerVars>>

\* With what was sent some of it may be lost.
LoseLink ==
    /\ link = "up"
    /\ link' = "lost"
    /\ wire' \in published..wire
    /\ UNCHANGED <<serverVars, clientVars, reader, woken, consumerVars>>

-----------------------------------------------------------------------------
(* ExecProcessEventLog.                                                    *)

EventBytes(e) == IF e = Failed THEN 1 ELSE log[e].bytes

\* The oldest events leave the history until both limits hold.
HistoryStart(events) ==
    LET bytes == [i \in DOMAIN events |-> EventBytes(events[i])]
    IN  Min({low \in evicted..Len(events) :
                /\ Len(events) - low <= EventCapacity
                /\ SumFunctionOnSet(bytes, (low + 1)..Len(events)) <= ByteCapacity})

publish(e) ==
    /\ sent' = Append(sent, e)
    /\ evicted' = HistoryStart(Append(sent, e))

\* Under the history's lock: the history as replay, and the channel from here.
\* What has left the history is not announced to the subscriber.
subscribe ==
    /\ consumer = "push" /\ pc = "new"
    /\ pc' = "recv"
    /\ position' = evicted
    /\ live' = Len(sent)
    /\ gone' = {sent[i] : i \in 1..evicted}
    /\ UNCHANGED <<serverVars, link, wire, clientVars, reader, woken, consumer, cursor,
                   response, got, skipped>>

-----------------------------------------------------------------------------
(* The client's reader task.                                               *)

\* The wake channel has the output task for its only receiver.
note_change == woken' = (consumer = "pull")

\* note_change for a notification that is ahead of its turn.
NoteChange ==
    /\ reader = "run" /\ published + 1 < wire
    /\ note_change
    /\ UNCHANGED <<serverVars, link, wire, clientVars, reader, consumerVars>>

\* Mutant: output wakes the reader, the end of the process does not.
DeliverQuietly ==
    /\ reader = "run" /\ published < wire
    /\ published' = published + 1
    /\ woken' = (woken \/ (consumer = "pull" /\ published + 1 \in Chunks))
    /\ publish(published + 1)
    /\ UNCHANGED <<serverVars, link, wire, failure, reader, consumerVars>>

\* note_change, then publish_ordered_event.
Deliver ==
    /\ reader = "run" /\ published < wire
    /\ published' = published + 1
    /\ note_change
    /\ publish(published + 1)
    /\ UNCHANGED <<serverVars, link, wire, failure, reader, consumerVars>>

PublishedClosed == published > 0 /\ log[published].kind = "closed"

\* set_failure: the first one is published.
set_failure ==
    /\ failure' = TRUE
    /\ note_change
    /\ IF failure THEN UNCHANGED <<sent, evicted>> ELSE publish(Failed)

\* The disconnect fails the session unless its route went with Closed.
Disconnected ==
    /\ reader = "run" /\ link = "lost" /\ published = wire
    /\ reader' = "done"
    /\ IF PublishedClosed THEN UNCHANGED <<failure, woken, sent, evicted>> ELSE set_failure
    /\ UNCHANGED <<serverVars, link, wire, published, consumerVars>>

-----------------------------------------------------------------------------
(* Reads.                                                                  *)

Newer(after) == {s \in output : s > after}

\* The first chunk goes out whatever its size, the others while they fit.
Page(after, budget) ==
    LET Upto(s) == {t \in Newer(after) : t <= s}
    IN  {s \in Newer(after) :
            \A t \in Upto(s) : Upto(t) = {t} \/ Bytes(Upto(t)) <= budget}

ReadResponse(chunks) ==
    [chunks   |-> chunks,
     next_seq |-> IF chunks = {} THEN Len(log) + 1 ELSE Max(chunks) + 1,
     closed   |-> Closed]

\* What the consumer has yet to take and the server no longer has ...
Evicted == {s \in Chunks : s > cursor /\ s \notin output}

\* ... and what the transport's channel holds for it, or will.
ToCome ==
    {s \in Chunks : /\ consumer = "push"
                    /\ s > published \/ \E i \in (position + 1)..Len(sent) : sent[i] = s}

\* exec_read, evaluated under the lock of the table.  A read that may wait
\* answers later, or at its deadline: the paging caller reads at any time.
exec_read ==
    /\ pc = "read" /\ link = "up" /\ ~failure
    /\ IF entry = "running"
       THEN /\ \E chunks \in IF consumer = "page" THEN {Page(cursor, b) : b \in Budgets}
                             ELSE {Newer(cursor)} :
                  response' = ReadResponse(chunks)
            /\ gone' = gone \cup (Evicted \ ToCome)
            /\ skipped' = skipped \cup (Evicted \cap ToCome)
            /\ pc' = "served"
       ELSE pc' = "failed" /\ UNCHANGED <<response, gone, skipped>>
    /\ UNCHANGED <<serverVars, link, wire, clientVars, reader, woken, consumer, cursor, got,
                   position, live>>

\* Session::read on a failed session, or one that fails it: the request or the
\* answer was lost with the connection.
FailedRead ==
    /\ \/ pc = "read" /\ (failure \/ link = "lost")
       \/ pc = "served" /\ link = "lost"
    /\ pc' = "failed"
    /\ set_failure
    /\ UNCHANGED <<serverVars, link, wire, published, reader, consumer, cursor, response, got,
                   position, live, gone, skipped>>

\* push_process_output_if_new, and the loop of the output task.
TakeChunk ==
    /\ pc \in {"served", "apply"} /\ response.chunks # {}
    /\ LET s == Min(response.chunks)
       IN  /\ response' = [response EXCEPT !.chunks = @ \ {s}]
           /\ got' = IF consumer # "push" \/ s > cursor THEN Append(got, s) ELSE got
           /\ cursor' = IF consumer = "push" /\ s > cursor THEN s ELSE cursor
    /\ pc' = "apply"
    /\ UNCHANGED <<serverVars, link, wire, clientVars, reader, woken, consumer, position, live,
                   gone, skipped>>

\* "closed" may come with a page that was cut short: a paging caller ends with
\* an empty one.
AfterRead ==
    CASE response.closed /\ (consumer = "page" => pc = "served") -> "closed"
      [] consumer = "push" -> "recv"
      [] consumer = "pull" -> "wait"
      [] OTHER -> "read"

\* Mutant: the next number becomes the cursor.
FinishReadOffByOne ==
    /\ pc \in {"served", "apply"} /\ response.chunks = {}
    /\ cursor' = response.next_seq
    /\ pc' = AfterRead
    /\ response' = NoResponse
    /\ UNCHANGED <<serverVars, link, wire, clientVars, reader, woken, consumer, got, position,
                   live, gone, skipped>>

\* The cursor moves on; the transport's never moves back.  It passes over
\* chunks that were evicted and that its channel still has: Receive will
\* discard them.
FinishRead ==
    /\ pc \in {"served", "apply"} /\ response.chunks = {}
    /\ LET last == response.next_seq - 1
       IN  cursor' = IF consumer = "push" /\ cursor > last THEN cursor ELSE last
    /\ pc' = AfterRead
    /\ response' = NoResponse
    /\ UNCHANGED <<serverVars, link, wire, clientVars, reader, woken, consumer, got, position,
                   live, gone, skipped>>

\* The output task: wake_rx.changed().
Wake ==
    /\ pc = "wait" /\ woken
    /\ woken' = FALSE
    /\ pc' = "read"
    /\ UNCHANGED <<serverVars, link, wire, clientVars, reader, consumer, cursor, response, got,
                   position, live, gone, skipped>>

-----------------------------------------------------------------------------
(* ExecutorProcessTransport::receive_message.                              *)

HasLagged == position >= live /\ Len(sent) - position > EventCapacity

AfterEvent(e) ==
    CASE e = Failed -> "failed"
      [] e # Failed /\ log[e].kind = "closed" -> "closed"
      [] OTHER -> "recv"

\* Mutant: a chunk that was read before is taken again when it is pushed.
ReceiveAgain ==
    /\ pc = "recv" /\ position < Len(sent) /\ ~HasLagged
    /\ position' = position + 1
    /\ LET e == sent[position + 1]
       IN  /\ cursor' = IF e > cursor THEN e ELSE cursor
           /\ got' = IF e \in Chunks THEN Append(got, e) ELSE got
           /\ pc' = AfterEvent(e)
    /\ UNCHANGED <<serverVars, link, wire, clientVars, reader, woken, consumer, response, live,
                   gone, skipped>>

Receive ==
    /\ pc = "recv" /\ position < Len(sent) /\ ~HasLagged
    /\ position' = position + 1
    /\ LET e == sent[position + 1]
       IN  /\ cursor' = IF e > cursor THEN e ELSE cursor
           /\ got' = IF e > cursor /\ e \in Chunks THEN Append(got, e) ELSE got
           /\ pc' = AfterEvent(e)
    /\ UNCHANGED <<serverVars, link, wire, clientVars, reader, woken, consumer, response, live,
                   gone, skipped>>

\* Mutant: the transport goes on with what the channel still has.
SkipLagged ==
    /\ pc = "recv" /\ HasLagged
    /\ position' = Len(sent) - EventCapacity
    /\ UNCHANGED <<serverVars, link, wire, clientVars, reader, woken, consumer, pc, cursor,
                   response, got, live, gone, skipped>>

\* RecvError::Lagged: the channel goes on with the oldest event it still has,
\* and the transport recovers from the retained output (recover_lagged_events).
Lagged ==
    /\ pc = "recv" /\ HasLagged
    /\ position' = Len(sent) - EventCapacity
    /\ pc' = "read"
    /\ UNCHANGED <<serverVars, link, wire, clientVars, reader, woken, consumer, cursor,
                   response, got, live, gone, skipped>>

-----------------------------------------------------------------------------
Server == (\E size \in Sizes : stream_output(size)) \/ watch_exit \/ maybe_emit_closed \/ Cleanup
ReaderTask == Deliver \/ Disconnected
Read == exec_read \/ FailedRead \/ TakeChunk \/ FinishRead
Transport == subscribe \/ Receive \/ Lagged

Next == Server \/ LoseLink \/ ReaderTask \/ NoteChange \/ Read \/ Wake \/ Transport

\* The reader task and the consumer run, and a read is answered or fails.
\* The process need not end nor the link fail.
Fairness == WF_vars(ReaderTask) /\ WF_vars(Read) /\ WF_vars(Wake) /\ WF_vars(Transport)

Safety == Init /\ [][Next]_vars
Spec == Safety /\ Fairness

-----------------------------------------------------------------------------
(* Properties.                                                             *)

\* No consumer takes a chunk twice or out of order, though the transport gets
\* the same chunks from the replay, the channel and its recovery reads.
OnceInOrder == \A i, j \in DOMAIN got : i < j => got[i] < got[j]

\* A consumer that saw the end of the process has all of its output but what
\* was evicted before the consumer read, or subscribed, and, of the transport,
\* what it passed over when it recovered from a lag: chunks the server had
\* evicted while the channel still had them.  Nothing else is lost, be it a page
\* cut short, an event in replay and channel both, or what the channel dropped.
NothingLostAtEnd ==
    pc = "closed" =>
        \A s \in Chunks : s \in gone \cup skipped \/ \E i \in DOMAIN got : got[i] = s

\* Every consumer comes to its end when the process has closed or the
\* connection is lost: no wake-up, no Closed and no Failed is missed.
ConsumerEnds ==
    (pc # "new" /\ (Closed \/ link = "lost")) ~> pc \in {"closed", "failed"}
==============================================================================
