------------------------ MODULE ProcessStream_proofs ------------------------
(***************************************************************************)
(* Safety of ProcessStream, for any number of reads and any amount of      *)
(* output.                                                                 *)
(***************************************************************************)
EXTENDS ProcessStream, TLAPS

USE StreamAssumption

(* A number, once given, stays.                                            *)
LEMMA GenuineStays ==
    ASSUME log \in Seq(Kinds), NEW kind \in Kinds, log' = Append(log, kind)
    PROVE  /\ \A e : Genuine(e) => Genuine(e)'
           /\ Len(log') = Len(log) + 1
           /\ log'[Len(log) + 1] = kind
           /\ \A i \in 1..Len(log) : log'[i] = log[i]
BY DEF Genuine

(* Initial states.                                                         *)
LEMMA InvInit == Init => IInv
<1>. SUFFICES ASSUME Init PROVE IInv
  OBVIOUS
<1>1. TypeOK
  <2>1. /\ task \in [Tasks -> {"none", "read", "wait", "notify", "finish", "emit", "notifyClosed", "done"}]
        /\ held \in [Tasks -> Events \cup {NoEvent}]
        /\ rd \in [Readers -> {"idle", "call", "setFailure", "publish"}]
        /\ \A t \in Tasks : task[t] = "none"
    BY DEF Init
  <2>2. /\ log \in Seq(Kinds) /\ queue \in Seq(Events \cup {Disconnected})
        /\ ready \in Seq(Events) /\ published \in Seq(Events)
        /\ Len(log) = 0 /\ Len(queue) = 0 /\ failures \in Seq({"reader", "read"})
    BY DEF Init
  <2>3. /\ next_seq = Len(log) + 1
        /\ \A t \in Tasks : task[t] \in {"notify", "notifyClosed"} => Genuine(held[t])
        /\ \A i \in 1..Len(queue) : queue[i] = Disconnected \/ Genuine(queue[i])
        /\ \A e \in parked : Genuine(e)
    BY <2>1, <2>2 DEF Init
  <2>4. chunks \in 0..MaxChunks /\ open_streams \in 0..2 /\ next_seq \in Nat
    BY DEF Init
  <2>. QED  BY <2>1, <2>2, <2>3, <2>4 DEF Init, TypeOK
<1>2. ServerInv /\ OrderInv /\ FailInv /\ RouteInv
  BY DEF Init, ServerInv, OrderInv, FailInv, RouteInv
<1>. QED  BY <1>1, <1>2 DEF IInv

(* A step that numbers an event keeps the types.                           *)
LEMMA NumberType ==
    ASSUME TypeOK, NEW t \in Tasks, NEW kind \in Kinds, Number(t, kind),
           NEW label \in {"notify", "notifyClosed"},
           task' = [task EXCEPT ![t] = label]
    PROVE  /\ held' \in [Tasks -> Events \cup {NoEvent}]
           /\ next_seq' \in Nat /\ next_seq' = Len(log') + 1
           /\ log' \in Seq(Kinds)
           /\ \A x \in Tasks : task'[x] \in {"notify", "notifyClosed"} => Genuine(held[x])'
           /\ \A e : Genuine(e) => Genuine(e)'
<1>1. log \in Seq(Kinds) /\ log' = Append(log, kind) /\ next_seq = Len(log) + 1
  BY DEF TypeOK, Number
<1>2. \A e : Genuine(e) => Genuine(e)'
  BY <1>1, GenuineStays
<1>3. [kind |-> kind, seq |-> next_seq] \in Events
  BY <1>1 DEF Events
<1>4. held' = [held EXCEPT ![t] = [kind |-> kind, seq |-> next_seq]] /\ held \in [Tasks -> Events \cup {NoEvent}]
  BY DEF Number, TypeOK
<1>5. held' \in [Tasks -> Events \cup {NoEvent}]
  BY <1>3, <1>4
<1>6. ASSUME NEW x \in Tasks, task'[x] \in {"notify", "notifyClosed"} PROVE Genuine(held[x])'
  <2>1. CASE x = t
    <3>1. held'[x] = [kind |-> kind, seq |-> next_seq]
      BY <1>4, <2>1
    <3>. QED  BY <3>1, <1>1, GenuineStays DEF Genuine
  <2>2. CASE x # t
    <3>1. held'[x] = held[x] /\ task'[x] = task[x]
      BY <1>4, <2>2 DEF TypeOK
    <3>2. Genuine(held[x])
      BY <3>1, <1>6 DEF TypeOK
    <3>. QED  BY <3>1, <3>2, <1>1, GenuineStays DEF Genuine
  <2>. QED  BY <2>1, <2>2
<1>. QED  BY <1>1, <1>2, <1>5, <1>6, GenuineStays DEF Number

(* A task moves on without an event.                                       *)
LEMMA QuietTask ==
    ASSUME TypeOK, NEW t \in Tasks, NEW label \in {"finish", "emit", "done"},
           task' = [task EXCEPT ![t] = label], chunks' \in 0..MaxChunks,
           UNCHANGED <<held, next_seq, open_streams, exited, closed, log, queue>>,
           UNCHANGED <<entry, link, response, clientVars>>
    PROVE  TypeOK'
<1>1. task' \in [Tasks -> {"none", "read", "wait", "notify", "finish", "emit", "notifyClosed", "done"}]
  BY DEF TypeOK
<1>2. \A e : Genuine(e) <=> Genuine(e)'
  BY DEF Genuine
<1>3. ASSUME NEW x \in Tasks, task'[x] \in {"notify", "notifyClosed"} PROVE Genuine(held[x])
  BY <1>3 DEF TypeOK
<1>4. \A x \in Tasks : task'[x] \in {"notify", "notifyClosed"} => Genuine(held[x])'
  BY <1>3 DEF Genuine
<1>. QED  BY <1>1, <1>2, <1>4 DEF TypeOK, clientVars, orderVars

(* The server's tasks keep the types.                                      *)
LEMMA TaskType ==
    ASSUME TypeOK,
           \/ \E s \in Streams : OutputTask(s)
           \/ watch_exit \/ \E t \in Tasks : Finishing(t)
    PROVE  TypeOK'
<1>. USE DEF Tasks, Streams
<1>0. UNCHANGED clientVars /\ UNCHANGED <<entry, link, response>>
  BY DEF OutputTask, ReadChunk, EndOfStream, finish_output_stream, watch_exit, Finishing,
         maybe_emit_closed, Notify
<1>. USE DEF clientVars, orderVars
<1>1. ASSUME NEW s \in Streams, ReadChunk(s) PROVE TypeOK'
  <2>1. CASE entry = "running"
    <3>1. Number(s, "output") /\ task' = [task EXCEPT ![s] = "notify"]
      BY <1>1, <2>1 DEF ReadChunk
    <3>2. /\ held' \in [Tasks -> Events \cup {NoEvent}]
          /\ next_seq' \in Nat /\ next_seq' = Len(log') + 1
          /\ log' \in Seq(Kinds)
          /\ \A x \in Tasks : task'[x] \in {"notify", "notifyClosed"} => Genuine(held[x])'
          /\ \A e : Genuine(e) => Genuine(e)'
      BY <3>1, NumberType DEF Kinds
    <3>. QED  BY <1>0, <1>1, <3>1, <3>2 DEF ReadChunk, TypeOK
  <2>2. CASE entry # "running"
    <3>1. /\ UNCHANGED <<held, next_seq, open_streams, exited, closed, log, queue>>
          /\ task' = [task EXCEPT ![s] = "finish"] /\ chunks' = chunks + 1 /\ chunks < MaxChunks
      BY <1>1, <2>2 DEF ReadChunk, NotNumbered
    <3>2. chunks' \in 0..MaxChunks
      BY <3>1 DEF TypeOK
    <3>. QED  BY <1>0, <3>1, <3>2, QuietTask
  <2>. QED  BY <2>1, <2>2
<1>2. ASSUME NEW s \in Streams, EndOfStream(s) PROVE TypeOK'
  BY <1>0, <1>2, QuietTask DEF EndOfStream, TypeOK
<1>3. ASSUME NEW s \in Streams, finish_output_stream(s) PROVE TypeOK'
  BY <1>0, <1>3 DEF finish_output_stream, TypeOK, Genuine
<1>4. CASE watch_exit
  <2>1. CASE entry = "running"
    <3>1. Number("exit", "exited") /\ task' = [task EXCEPT !["exit"] = "notify"]
      BY <1>4, <2>1 DEF watch_exit
    <3>2. /\ held' \in [Tasks -> Events \cup {NoEvent}]
          /\ next_seq' \in Nat /\ next_seq' = Len(log') + 1
          /\ log' \in Seq(Kinds)
          /\ \A x \in Tasks : task'[x] \in {"notify", "notifyClosed"} => Genuine(held[x])'
          /\ \A e : Genuine(e) => Genuine(e)'
      BY <3>1, NumberType DEF Kinds
    <3>. QED  BY <1>0, <1>4, <2>1, <3>1, <3>2 DEF watch_exit, TypeOK
  <2>2. CASE entry # "running"
    BY <1>0, <1>4, <2>2 DEF watch_exit, NotNumbered, TypeOK, Genuine
  <2>. QED  BY <2>1, <2>2
<1>5. ASSUME NEW t \in Tasks, maybe_emit_closed(t) PROVE TypeOK'
  <2>1. CASE entry = "running" /\ ~closed /\ open_streams = 0 /\ exited
    <3>1. Number(t, "closed") /\ task' = [task EXCEPT ![t] = "notifyClosed"]
      BY <1>5, <2>1 DEF maybe_emit_closed
    <3>2. /\ held' \in [Tasks -> Events \cup {NoEvent}]
          /\ next_seq' \in Nat /\ next_seq' = Len(log') + 1
          /\ log' \in Seq(Kinds)
          /\ \A x \in Tasks : task'[x] \in {"notify", "notifyClosed"} => Genuine(held[x])'
          /\ \A e : Genuine(e) => Genuine(e)'
      BY <3>1, NumberType DEF Kinds
    <3>. QED  BY <1>0, <1>5, <2>1, <3>1, <3>2 DEF maybe_emit_closed, TypeOK
  <2>2. CASE ~(entry = "running" /\ ~closed /\ open_streams = 0 /\ exited)
    <3>1. /\ UNCHANGED <<held, chunks, next_seq, open_streams, exited, closed, log, queue>>
          /\ task' = [task EXCEPT ![t] = "done"]
      BY <1>5, <2>2 DEF maybe_emit_closed, NotNumbered
    <3>. QED  BY <1>0, <3>1, QuietTask DEF TypeOK
  <2>. QED  BY <2>1, <2>2
<1>6. ASSUME NEW t \in Tasks, Notify(t) PROVE TypeOK'
  <2>1. held[t] \in Events /\ Genuine(held[t])
    <3>1. Genuine(held[t]) /\ held[t] \in Events \cup {NoEvent}
      BY <1>6 DEF Notify, TypeOK
    <3>2. ~Genuine(NoEvent)
      BY DEF NoEvent, Genuine
    <3>. QED  BY <3>1, <3>2
  <2>2. queue' \in Seq(Events \cup {Disconnected})
    BY <1>6, <2>1 DEF Notify, TypeOK
  <2>3. \A i \in 1..Len(queue') : queue'[i] = Disconnected \/ Genuine(queue'[i])
    BY <1>6, <2>1 DEF Notify, TypeOK
  <2>4. /\ held' \in [Tasks -> Events \cup {NoEvent}]
        /\ \A x \in Tasks : task'[x] \in {"notify", "notifyClosed"} => Genuine(held'[x])
    BY <1>6 DEF Notify, TypeOK
  <2>5. UNCHANGED <<entry, chunks, next_seq, open_streams, exited, closed, log>>
    BY <1>6 DEF Notify
  <2>6. task' \in [Tasks -> {"none", "read", "wait", "notify", "finish", "emit", "notifyClosed", "done"}]
    BY <1>6 DEF Notify, TypeOK
  <2>7. \A e : Genuine(e) <=> Genuine(e)'
    BY <2>5 DEF Genuine
  <2>. QED  BY <1>0, <2>2, <2>3, <2>4, <2>5, <2>6, <2>7 DEF TypeOK
<1>. QED  BY <1>1, <1>2, <1>3, <1>4, <1>5, <1>6 DEF OutputTask, Finishing

(* publish_ordered_event releases the next events of the log, in order.    *)
LEMMA Released ==
    ASSUME TypeOK, last_published <= Len(log),
           NEW e \in Events, Genuine(e), publish_ordered_event(e)
    PROVE  /\ last_published' \in Nat /\ last_published' <= Len(log)
           /\ parked' \subseteq Events /\ \A x \in parked' : Genuine(x)
           /\ ready' \in Seq(Events)
           /\ last_published + Len(ready') = last_published'
           /\ \A i \in 1..Len(ready') : Genuine(ready'[i]) /\ ready'[i].seq = last_published + i
<1>. DEFINE events == Accepted(e)
<1>1. PICK end \in last_published..(last_published + Cardinality(events)) :
          IsRun(events, end) /\ Release(events, end)
  BY DEF publish_ordered_event
<1>2. last_published \in Nat /\ end \in Nat /\ end >= last_published
  BY <1>1 DEF TypeOK
<1>3. events \subseteq Events /\ \A x \in events : Genuine(x)
  BY DEF Accepted, TypeOK
<1>. HIDE DEF events
<1>4. \A k \in (last_published + 1)..end : \E x \in events : x.seq = k
  BY <1>1 DEF IsRun
<1>5. end <= Len(log)
  <2>1. CASE end = last_published
    BY <2>1
  <2>2. CASE end # last_published
    <3>1. end \in (last_published + 1)..end
      BY <1>2, <2>2
    <3>2. PICK x \in events : x.seq = end
      BY <1>4, <3>1
    <3>. QED  BY <1>3, <3>2 DEF Genuine
  <2>. QED  BY <2>1, <2>2
<1>6. /\ last_published' = end
      /\ parked' = {x \in events : x.seq > end}
      /\ ready' = [i \in 1..(end - last_published) |->
                      CHOOSE x \in events : x.seq = last_published + i]
  BY <1>1 DEF Release
<1>7. ASSUME NEW i \in 1..(end - last_published)
      PROVE  ready'[i] \in events /\ ready'[i].seq = last_published + i
  <2>1. last_published + i \in (last_published + 1)..end
    BY <1>2
  <2>2. \E x \in events : x.seq = last_published + i
    BY <1>4, <2>1
  <2>3. ready'[i] = CHOOSE x \in events : x.seq = last_published + i
    BY <1>6
  <2>. QED  BY <2>2, <2>3
<1>8. end - last_published \in Nat
  BY <1>2
<1>9. ready' \in Seq(Events) /\ Len(ready') = end - last_published
  <2>1. ready' \in [1..(end - last_published) -> Events]
    BY <1>3, <1>6, <1>7
  <2>. QED  BY <1>8, <2>1
<1>10. last_published + Len(ready') = last_published'
  BY <1>2, <1>6, <1>9
<1>11. \A i \in 1..Len(ready') : Genuine(ready'[i]) /\ ready'[i].seq = last_published + i
  BY <1>3, <1>7, <1>9
<1>12. parked' \subseteq Events /\ \A x \in parked' : Genuine(x)
  BY <1>3, <1>6
<1>. QED  BY <1>2, <1>5, <1>6, <1>9, <1>10, <1>11, <1>12

(* What the reader does with a notification.                               *)
LEMMA ReaderEventInv ==
    ASSUME TypeOK, OrderInv, ReaderEvent
    PROVE  /\ last_published' \in Nat /\ last_published' <= Len(log)
           /\ parked' \subseteq Events /\ \A x \in parked' : Genuine(x)
           /\ ready' \in Seq(Events)
           /\ Len(published) + Len(ready') = last_published'
           /\ \A i \in 1..Len(ready') :
                  Genuine(ready'[i]) /\ ready'[i].seq = Len(published) + i
           /\ queue' \in Seq(Events \cup {Disconnected})
           /\ \A i \in 1..Len(queue') : queue'[i] = Disconnected \/ Genuine(queue'[i])
<1>1. ready = <<>> /\ Len(ready) = 0 /\ last_published = Len(published)
  BY DEF ReaderEvent, OrderInv, TypeOK
<1>2. Head(queue) = queue[1] /\ 1 \in 1..Len(queue) /\ queue[1] \in Events /\ Genuine(queue[1])
  BY DEF ReaderEvent, TypeOK
<1>3. /\ queue' \in Seq(Events \cup {Disconnected})
      /\ \A i \in 1..Len(queue') : queue'[i] = Disconnected \/ Genuine(queue'[i])
  BY DEF ReaderEvent, TypeOK
<1>4. CASE registered
  <2>1. publish_ordered_event(queue[1])
    BY <1>2, <1>4 DEF ReaderEvent
  <2>. QED  BY <1>1, <1>2, <1>3, <2>1, Released DEF OrderInv
<1>5. CASE ~registered
  <2>1. UNCHANGED <<last_published, parked, ready>>
    BY <1>5 DEF ReaderEvent, orderVars
  <2>. QED  BY <1>1, <1>3, <2>1 DEF OrderInv, TypeOK
<1>. QED  BY <1>4, <1>5

(* Every step keeps the types, and every event on its way genuine.         *)
LEMMA TypeNext ==
    ASSUME TypeOK, OrderInv, [Next]_vars
    PROVE  TypeOK'
<1>. USE DEF serverVars, orderVars, clientVars
<1>1. CASE Starter
  <2>1. UNCHANGED <<task, held, chunks, next_seq, open_streams, exited, closed, log, queue, link, response,
                    reader, last_published, parked, ready, failure, published, failures, rd>>
    BY <1>1 DEF Starter, RegisterSession, ExecCall, ExecReturn, CancelStart, DropHandle, Unregister
  <2>2. entry' \in {entry, "requested"} /\ start' \in {"registered", "calling", "unregister", "failed", "cancelled",
                  "started", "dropping", "dropped"}
    BY <1>1 DEF Starter, RegisterSession, ExecCall, ExecReturn, CancelStart, DropHandle, Unregister
  <2>3. latch \in BOOLEAN /\ registered \in BOOLEAN
    BY DEF TypeOK
  <2>4. latch' \in BOOLEAN /\ registered' \in BOOLEAN
    <3>1. CASE RegisterSession
      BY <2>3, <3>1 DEF RegisterSession
    <3>2. CASE ExecCall \/ CancelStart \/ DropHandle \/ Unregister
      BY <2>3, <3>2 DEF ExecCall, CancelStart, DropHandle, Unregister
    <3>3. CASE ExecReturn
      BY <2>3, <3>3 DEF ExecReturn
    <3>. QED  BY <1>1, <3>1, <3>2, <3>3 DEF Starter
  <2>5. \A e : Genuine(e) => Genuine(e)'
    BY <2>1 DEF Genuine
  <2>. QED  BY <2>1, <2>2, <2>4, <2>5 DEF TypeOK
<1>2. CASE InsertStarting \/ SpawnFails \/ Cleanup \/ Shutdown
  <2>1. UNCHANGED <<task, held, chunks, next_seq, open_streams, exited, closed, log, queue, link, clientVars>>
    BY <1>2 DEF InsertStarting, SpawnFails, Cleanup, Shutdown
  <2>2. entry' \in {"starting", "removed"} /\ response' \in {response, "none", "error"}
    BY <1>2 DEF InsertStarting, SpawnFails, Cleanup, Shutdown
  <2>3. \A e : Genuine(e) => Genuine(e)'
    BY <2>1 DEF Genuine
  <2>. QED  BY <2>1, <2>2, <2>3 DEF TypeOK
<1>3. CASE Spawned
  BY <1>3 DEF Spawned, TypeOK, Genuine
<1>4. CASE (\E s \in Streams : OutputTask(s)) \/ watch_exit \/ \E t \in Tasks : Finishing(t)
  BY <1>4, TaskType
<1>5. CASE LinkCloses
  <2>1. PICK n \in 0..Len(queue) : queue' = SubSeq(queue, 1, n)
    BY <1>5 DEF LinkCloses
  <2>2. /\ queue' \in Seq(Events \cup {Disconnected})
        /\ \A i \in 1..Len(queue') : i \in 1..Len(queue) /\ queue'[i] = queue[i]
    BY <2>1 DEF TypeOK
  <2>3. UNCHANGED <<serverVars, clientVars>> /\ link' = "down" /\ response' \in {response, "none"}
    BY <1>5 DEF LinkCloses
  <2>4. \A e : Genuine(e) <=> Genuine(e)'
    BY <2>3 DEF Genuine
  <2>5. \A i \in 1..Len(queue') : queue'[i] = Disconnected \/ Genuine(queue'[i])
    BY <2>2 DEF TypeOK
  <2>6. response' \in {"none", "ok", "error"}
    BY <2>3 DEF TypeOK
  <2>. QED  BY <2>2, <2>3, <2>4, <2>5, <2>6 DEF TypeOK
<1>6. CASE LinkEnds
  <2>. DEFINE D == Disconnected
  <2>0. queue \in Seq(Events \cup {D}) /\ queue' = Append(queue, D) /\ D \in Events \cup {D}
    BY <1>6 DEF LinkEnds, TypeOK
  <2>a. \A i \in 1..Len(queue) : queue[i] = D \/ Genuine(queue[i])
    BY DEF TypeOK
  <2>1. /\ queue' \in Seq(Events \cup {Disconnected})
        /\ \A i \in 1..Len(queue') : queue'[i] = Disconnected \/ Genuine(queue'[i])
    <3>. HIDE DEF D
    <3>1. /\ queue' \in Seq(Events \cup {D})
          /\ \A i \in 1..Len(queue') : queue'[i] = D \/ Genuine(queue'[i])
      BY <2>0, <2>a
    <3>. QED  BY <3>1 DEF D
  <2>. QED  BY <1>6, <2>1 DEF LinkEnds, TypeOK, Genuine
<1>7. CASE ReaderEvent
  <2>1. /\ last_published' \in Nat
        /\ parked' \subseteq Events /\ \A x \in parked' : Genuine(x)
        /\ ready' \in Seq(Events)
        /\ queue' \in Seq(Events \cup {Disconnected})
        /\ \A i \in 1..Len(queue') : queue'[i] = Disconnected \/ Genuine(queue'[i])
    BY <1>7, ReaderEventInv
  <2>2. /\ UNCHANGED <<serverVars, link, response, latch, registered, start, failure, published, failures, rd>>
        /\ reader' \in {"recv", "publish"}
    BY <1>7 DEF ReaderEvent
  <2>. QED  BY <2>1, <2>2 DEF TypeOK, Genuine
<1>8. CASE ReaderPublish
  <2>1. Len(ready) > 0 /\ ready \in Seq(Events) /\ published \in Seq(Events)
    BY <1>8 DEF ReaderPublish, TypeOK, OrderInv
  <2>2. ready' \in Seq(Events) /\ published' \in Seq(Events)
    BY <1>8, <2>1 DEF ReaderPublish
  <2>3. reader' \in {"publish", "remove", "recv"}
    BY <1>8 DEF ReaderPublish
  <2>. QED  BY <1>8, <2>2, <2>3 DEF ReaderPublish, TypeOK, Genuine
<1>9. CASE ReaderDisconnected
  <2>1. /\ queue' \in Seq(Events \cup {Disconnected})
        /\ \A i \in 1..Len(queue') : queue'[i] = Disconnected \/ Genuine(queue'[i])
    BY <1>9 DEF ReaderDisconnected, TypeOK
  <2>. QED  BY <1>9, <2>1 DEF ReaderDisconnected, TypeOK, Genuine
<1>10. CASE ReaderRemove \/ take_all_sessions \/ ReaderSetFailure \/ ReaderPublishFailed
  <2>1. UNCHANGED <<serverVars, queue, link, response, latch, start, orderVars, published, rd>>
    BY <1>10 DEF ReaderRemove, take_all_sessions, ReaderSetFailure, ReaderPublishFailed
  <2>2. /\ reader' \in {"recv", "fail", "done", "publishFailed"}
        /\ registered' \in {registered, FALSE} /\ failure' \in {failure, TRUE}
        /\ failures' \in {failures, Append(failures, "reader")}
    BY <1>10 DEF ReaderRemove, take_all_sessions, ReaderSetFailure, ReaderPublishFailed
  <2>3. \A e : Genuine(e) => Genuine(e)'
    BY <2>1 DEF Genuine
  <2>4. failures' \in Seq({"reader", "read"})
    <3>1. failures \in Seq({"reader", "read"})
      BY DEF TypeOK
    <3>. QED  BY <2>2, <3>1
  <2>5. registered' \in BOOLEAN /\ failure' \in BOOLEAN
    BY <2>2 DEF TypeOK
  <2>. QED  BY <2>1, <2>2, <2>3, <2>4, <2>5 DEF TypeOK
<1>11. ASSUME NEW r \in Readers, Read(r) PROVE TypeOK'
  <2>1. UNCHANGED <<serverVars, queue, link, response, registered, start, reader, orderVars, published>>
    BY <1>11 DEF Read, ReadBegin, ReadAnswered, ReadFails, ReadSetFailure, ReadPublishFailed
  <2>2. /\ latch' \in {latch, TRUE} /\ failure' \in {failure, TRUE}
        /\ failures' \in {failures, Append(failures, "read")}
    BY <1>11 DEF Read, ReadBegin, ReadAnswered, ReadFails, ReadSetFailure, ReadPublishFailed
  <2>3. PICK v \in {"idle", "call", "setFailure", "publish"} : rd' = [rd EXCEPT ![r] = v]
    BY <1>11 DEF Read, ReadBegin, ReadAnswered, ReadFails, ReadSetFailure, ReadPublishFailed
  <2>5. failures' \in Seq({"reader", "read"})
    <3>1. failures \in Seq({"reader", "read"})
      BY DEF TypeOK
    <3>. QED  BY <2>2, <3>1
  <2>6. latch' \in BOOLEAN /\ failure' \in BOOLEAN
    BY <2>2 DEF TypeOK
  <2>7. rd' \in [Readers -> {"idle", "call", "setFailure", "publish"}]
    BY <2>3 DEF TypeOK
  <2>8. /\ \A t \in Tasks : task'[t] \in {"notify", "notifyClosed"} => Genuine(held[t])'
        /\ \A i \in 1..Len(queue') : queue'[i] = Disconnected \/ Genuine(queue[i])'
        /\ \A e \in parked' : Genuine(e)'
    BY <2>1 DEF TypeOK, Genuine
  <2>. QED  BY <2>1, <2>5, <2>6, <2>7, <2>8 DEF TypeOK
<1>12. CASE UNCHANGED vars
  BY <1>12 DEF vars, TypeOK, Genuine
<1>. QED  BY <1>1, <1>2, <1>3, <1>4, <1>5, <1>6, <1>7, <1>8, <1>9, <1>10, <1>11, <1>12
          DEF Next, StartServer, Link, Reader
(* Only the closing event closes the log.                                  *)
LEMMA NotClosing ==
    ASSUME TypeOK, NEW kind \in {"output", "exited"}, log' = log \/ log' = Append(log, kind),
           \E i \in 1..Len(log') : log'[i] = "closed"
    PROVE  \E i \in 1..Len(log) : log[i] = "closed"
<1>1. log \in Seq(Kinds) /\ kind \in Kinds
  BY DEF TypeOK, Kinds
<1>2. CASE log' = log
  BY <1>2
<1>3. CASE log' = Append(log, kind)
  <2>1. PICK i \in 1..Len(log') : log'[i] = "closed"
    OBVIOUS
  <2>2. Len(log') = Len(log) + 1 /\ log'[Len(log) + 1] = kind /\ \A j \in 1..Len(log) : log'[j] = log[j]
    BY <1>1, <1>3, GenuineStays
  <2>3. i # Len(log) + 1
    BY <2>1, <2>2
  <2>. QED  BY <1>1, <2>1, <2>2, <2>3
<1>. QED  BY <1>2, <1>3

(* The entry keeps count of its tasks.                                     *)
LEMMA ServerNext ==
    ASSUME TypeOK, ServerInv, [Next]_vars
    PROVE  ServerInv'
<1>. USE DEF Tasks, Streams
<1>1. CASE Starter
  <2>1. UNCHANGED <<task, open_streams, exited, closed, log>>
    BY <1>1 DEF Starter, RegisterSession, ExecCall, ExecReturn, CancelStart, DropHandle, Unregister, serverVars
  <2>2. \/ entry' = entry /\ (start' \in {"idle", "registered"} => start \in {"idle", "registered"})
        \/ start = "registered" /\ start' = "calling" /\ entry' = "requested"
    BY <1>1 DEF Starter, RegisterSession, ExecCall, ExecReturn, CancelStart, DropHandle, Unregister, serverVars
  <2>. QED  BY <2>1, <2>2 DEF ServerInv, Open
<1>2. CASE InsertStarting \/ SpawnFails \/ Cleanup \/ Shutdown
  BY <1>2 DEF InsertStarting, SpawnFails, Cleanup, Shutdown, clientVars, ServerInv, Open
<1>3. CASE Spawned
  <2>1. task' = [t \in Tasks |-> IF t = "exit" THEN "wait" ELSE "read"]
    BY <1>3 DEF Spawned
  <2>2. Open("stdout")' = 1 /\ Open("stderr")' = 1 /\ task'["exit"] = "wait"
    BY <2>1 DEF Open
  <2>. QED  BY <1>3, <2>2 DEF Spawned, clientVars, ServerInv
<1>4. ASSUME NEW s \in Streams, ReadChunk(s) PROVE ServerInv'
  <2>1. (Open("stdout")' = Open("stdout") /\ Open("stderr")' = Open("stderr")) \/ entry # "running"
    BY <1>4 DEF ReadChunk, TypeOK, Open
  <2>2. task'["exit"] = task["exit"]
    BY <1>4 DEF ReadChunk, TypeOK
  <2>3. (\E i \in 1..Len(log') : log'[i] = "closed") => \E i \in 1..Len(log) : log[i] = "closed"
    <3>1. log' = log \/ log' = Append(log, "output")
      BY <1>4 DEF ReadChunk, Number, NotNumbered
    <3>. QED  BY <3>1, NotClosing
  <2>. QED  BY <1>4, <2>1, <2>2, <2>3 DEF ReadChunk, clientVars, ServerInv
<1>5. ASSUME NEW s \in Streams, EndOfStream(s) PROVE ServerInv'
  <2>1. /\ Open("stdout")' = Open("stdout") /\ Open("stderr")' = Open("stderr")
        /\ task'["exit"] = task["exit"]
    BY <1>5 DEF EndOfStream, TypeOK, Open
  <2>. QED  BY <1>5, <2>1 DEF EndOfStream, clientVars, ServerInv
<1>6. ASSUME NEW s \in Streams, finish_output_stream(s) PROVE ServerInv'
  <2>1. task'["exit"] = task["exit"]
    BY <1>6 DEF finish_output_stream, TypeOK
  <2>2. /\ Open("stdout") + Open("stderr") > 0
        /\ Open("stdout")' + Open("stderr")' = Open("stdout") + Open("stderr") - 1
    BY <1>6 DEF finish_output_stream, TypeOK, Open
  <2>3. open_streams \in 0..2
    BY DEF TypeOK
  <2>4. UNCHANGED <<entry, exited, closed, log, start>>
    BY <1>6 DEF finish_output_stream, clientVars
  <2>5. CASE entry = "running"
    <3>0. open_streams = Open("stdout") + Open("stderr")
      BY <2>5 DEF ServerInv
    <3>a. open_streams' = open_streams - 1
      BY <1>6, <2>2, <2>5, <3>0 DEF finish_output_stream
    <3>1. open_streams' = Open("stdout")' + Open("stderr")'
      BY <2>2, <2>3, <3>0, <3>a DEF Open
    <3>2. ~closed
      BY <2>2, <2>5 DEF ServerInv
    <3>. QED  BY <2>1, <2>4, <2>5, <3>1, <3>2 DEF ServerInv
  <2>6. CASE entry # "running"
    BY <1>6, <2>4, <2>6 DEF finish_output_stream, ServerInv
  <2>. QED  BY <2>5, <2>6
<1>7. CASE watch_exit
  <2>1. /\ Open("stdout")' = Open("stdout") /\ Open("stderr")' = Open("stderr")
        /\ task'["exit"] # "wait"
    BY <1>7 DEF watch_exit, TypeOK, Open
  <2>2. (\E i \in 1..Len(log') : log'[i] = "closed") => \E i \in 1..Len(log) : log[i] = "closed"
    <3>1. log' = log \/ log' = Append(log, "exited")
      BY <1>7 DEF watch_exit, Number, NotNumbered
    <3>. QED  BY <3>1, NotClosing
  <2>. QED  BY <1>7, <2>1, <2>2 DEF watch_exit, clientVars, ServerInv
<1>8. ASSUME NEW t \in Tasks, maybe_emit_closed(t) PROVE ServerInv'
  <2>1. /\ Open("stdout")' = Open("stdout") /\ Open("stderr")' = Open("stderr")
        /\ task'["exit"] # "wait" <=> task["exit"] # "wait"
    BY <1>8 DEF maybe_emit_closed, TypeOK, Open
  <2>2. closed' \/ (UNCHANGED log /\ UNCHANGED closed)
    BY <1>8 DEF maybe_emit_closed, NotNumbered
  <2>. QED  BY <1>8, <2>1, <2>2 DEF maybe_emit_closed, clientVars, ServerInv
<1>9. ASSUME NEW t \in Tasks, Notify(t), t = "exit" \/ task[t] = "notify" PROVE ServerInv'
  <2>1. /\ Open("stdout")' = Open("stdout") /\ Open("stderr")' = Open("stderr")
        /\ task'["exit"] # "wait" <=> task["exit"] # "wait"
    BY <1>9 DEF Notify, TypeOK, Open
  <2>. QED  BY <1>9, <2>1 DEF Notify, clientVars, ServerInv
<1>10. ASSUME NEW t \in Tasks, Notify(t), t # "exit", task[t] = "notifyClosed" PROVE ServerInv'
  <2>1. /\ Open("stdout")' = Open("stdout") /\ Open("stderr")' = Open("stderr")
        /\ task'["exit"] = task["exit"]
    BY <1>10 DEF Notify, TypeOK, Open
  <2>. QED  BY <1>10, <2>1 DEF Notify, clientVars, ServerInv
<1>11. CASE UNCHANGED <<serverVars, start>>
  BY <1>11 DEF serverVars, ServerInv, Open
<1>12. Link \/ Reader \/ (\E r \in Readers : Read(r)) \/ UNCHANGED vars => UNCHANGED <<serverVars, start>>
  BY DEF Link, LinkCloses, LinkEnds, Reader, ReaderEvent, ReaderPublish, ReaderRemove, ReaderDisconnected,
         take_all_sessions, ReaderSetFailure, ReaderPublishFailed, Read, ReadBegin, ReadAnswered, ReadFails,
         ReadSetFailure, ReadPublishFailed, clientVars, vars
<1>13. \A t \in Tasks : Notify(t) => task[t] \in {"notify", "notifyClosed"}
  BY DEF Notify
<1>. QED  BY <1>1, <1>2, <1>3, <1>4, <1>5, <1>6, <1>7, <1>8, <1>9, <1>10, <1>11, <1>12, <1>13
          DEF Next, StartServer, OutputTask, Finishing
(* What a step of the server's tasks does to the log.                      *)
LEMMA TaskLog ==
    ASSUME \/ \E s \in Streams : OutputTask(s)
           \/ watch_exit \/ \E t \in Tasks : Finishing(t)
    PROVE  log' = log \/ \E kind \in Kinds : log' = Append(log, kind)
BY DEF OutputTask, ReadChunk, EndOfStream, finish_output_stream, watch_exit, Finishing,
       maybe_emit_closed, Notify, Number, NotNumbered, Kinds

(* Steps that have no part in the order of events.                         *)
LEMMA OrderFrame ==
    ASSUME \/ Starter \/ StartServer \/ Cleanup \/ Shutdown \/ Link
           \/ ReaderRemove \/ ReaderDisconnected \/ take_all_sessions
           \/ ReaderSetFailure \/ ReaderPublishFailed
           \/ \E r \in Readers : Read(r)
    PROVE  /\ UNCHANGED <<log, last_published, parked, ready, published>>
           /\ (reader # "publish" /\ reader' # "publish") \/ reader' = reader
<1>. USE DEF serverVars, clientVars, orderVars
<1>1. CASE Starter
  BY <1>1 DEF Starter, RegisterSession, ExecCall, ExecReturn, CancelStart, DropHandle, Unregister
<1>2. CASE StartServer \/ Cleanup \/ Shutdown
  BY <1>2 DEF StartServer, InsertStarting, Spawned, SpawnFails, Cleanup, Shutdown
<1>3. CASE Link
  BY <1>3 DEF Link, LinkCloses, LinkEnds
<1>4. CASE \/ ReaderRemove \/ ReaderDisconnected \/ take_all_sessions
           \/ ReaderSetFailure \/ ReaderPublishFailed
  BY <1>4 DEF ReaderRemove, ReaderDisconnected, take_all_sessions, ReaderSetFailure, ReaderPublishFailed
<1>5. CASE \E r \in Readers : Read(r)
  BY <1>5 DEF Read, ReadBegin, ReadAnswered, ReadFails, ReadSetFailure, ReadPublishFailed
<1>. QED  BY <1>1, <1>2, <1>3, <1>4, <1>5

(* Publishing takes the next event of the log.                             *)
LEMMA PublishNext ==
    ASSUME TypeOK, OrderInv, ReaderPublish
    PROVE  /\ Len(ready) > 0 /\ Len(published') = Len(published) + 1
           /\ Len(ready') = Len(ready) - 1
           /\ published' = Append(published, ready[1])
           /\ Genuine(ready[1]) /\ ready[1].seq = Len(published) + 1
           /\ ready[1] \in Events
           /\ \A i \in 1..Len(ready') : i + 1 \in 1..Len(ready) /\ ready'[i] = ready[i + 1]
<1>1. ready \in Seq(Events) /\ published \in Seq(Events) /\ Len(ready) \in Nat /\ ready # <<>>
  BY DEF ReaderPublish, TypeOK, OrderInv
<1>2. Len(ready) > 0 /\ Head(ready) = ready[1] /\ ready[1] \in Events
  BY <1>1
<1>3. published' = Append(published, ready[1]) /\ ready' = Tail(ready)
  BY <1>2 DEF ReaderPublish
<1>4. Genuine(ready[1]) /\ ready[1].seq = Len(published) + 1
  BY <1>1, <1>2 DEF OrderInv
<1>5. Len(published') = Len(published) + 1 /\ Len(ready') = Len(ready) - 1
  BY <1>1, <1>2, <1>3
<1>6. \A i \in 1..Len(ready') : i + 1 \in 1..Len(ready) /\ ready'[i] = ready[i + 1]
  BY <1>1, <1>2, <1>3, <1>5
<1>. QED  BY <1>2, <1>3, <1>4, <1>5, <1>6

(* The published and the released events stay a prefix of the log.         *)
LEMMA OrderNext ==
    ASSUME TypeOK, OrderInv, [Next]_vars
    PROVE  OrderInv'
<1>1. CASE (\E s \in Streams : OutputTask(s)) \/ watch_exit \/ \E t \in Tasks : Finishing(t)
  <2>1. UNCHANGED <<reader, last_published, ready, published>>
    BY <1>1 DEF OutputTask, ReadChunk, EndOfStream, finish_output_stream, watch_exit, Finishing,
                maybe_emit_closed, Notify, clientVars, orderVars
  <2>2. log \in Seq(Kinds) /\ last_published \in Nat
    BY DEF TypeOK
  <2>3. CASE log' = log
    BY <2>1, <2>3 DEF OrderInv, Genuine
  <2>4. CASE \E kind \in Kinds : log' = Append(log, kind)
    <3>1. (\A e : Genuine(e) => Genuine(e)') /\ Len(log') = Len(log) + 1
      BY <2>2, <2>4, GenuineStays
    <3>2. last_published' <= Len(log')
      BY <2>1, <2>2, <3>1 DEF OrderInv
    <3>. QED  BY <2>1, <3>1, <3>2 DEF OrderInv
  <2>. QED  BY <1>1, <2>3, <2>4, TaskLog
<1>2. CASE ReaderEvent
  <2>1. UNCHANGED <<log, published>> /\ reader' = IF ready' = <<>> THEN "recv" ELSE "publish"
    BY <1>2 DEF ReaderEvent, serverVars
  <2>2. /\ last_published' \in Nat /\ last_published' <= Len(log)
        /\ Len(published) + Len(ready') = last_published'
        /\ \A i \in 1..Len(ready') :
               Genuine(ready'[i]) /\ ready'[i].seq = Len(published) + i
    BY <1>2, ReaderEventInv
  <2>. QED  BY <2>1, <2>2 DEF OrderInv, Genuine
<1>3. CASE ReaderPublish
  <2>1. UNCHANGED <<log, last_published>>
    BY <1>3 DEF ReaderPublish, serverVars
  <2>2. /\ Len(ready) > 0 /\ Len(published') = Len(published) + 1
        /\ Len(ready') = Len(ready) - 1
        /\ published' = Append(published, ready[1])
        /\ Genuine(ready[1]) /\ ready[1].seq = Len(published) + 1
        /\ ready[1] \in Events
        /\ \A i \in 1..Len(ready') : i + 1 \in 1..Len(ready) /\ ready'[i] = ready[i + 1]
    BY <1>3, PublishNext
  <2>3. /\ Len(ready) \in Nat /\ Len(published) \in Nat
        /\ ready \in Seq(Events) /\ published \in Seq(Events) /\ ready' = Tail(ready)
    BY <1>3 DEF TypeOK, ReaderPublish
  <2>4. reader' = "publish" <=> Len(ready) > 1
    BY <1>3, <2>2, <2>3 DEF ReaderPublish
  <2>5. ready' # <<>> <=> Len(ready) > 1
    BY <2>2, <2>3
  <2>6. Len(published') + Len(ready') = last_published'
    BY <2>1, <2>2, <2>3 DEF OrderInv
  <2>7. ASSUME NEW i \in 1..Len(ready')
        PROVE  Genuine(ready'[i]) /\ ready'[i].seq = Len(published') + i
    BY <2>2, <2>3 DEF OrderInv
  <2>8. ASSUME NEW i \in 1..Len(published')
        PROVE  Genuine(published'[i]) /\ published'[i].seq = i
    <3>1. CASE i = Len(published) + 1
      BY <2>2, <2>3, <3>1
    <3>2. CASE i # Len(published) + 1
      <4>1. i \in 1..Len(published) /\ published'[i] = published[i]
        BY <2>2, <2>3, <3>2
      <4>. QED  BY <4>1 DEF OrderInv
    <3>. QED  BY <3>1, <3>2
  <2>. QED  BY <2>1, <2>4, <2>5, <2>6, <2>7, <2>8 DEF OrderInv, Genuine
<1>4. CASE /\ UNCHANGED <<log, last_published, parked, ready, published>>
           /\ (reader # "publish" /\ reader' # "publish") \/ reader' = reader
  BY <1>4 DEF OrderInv, Genuine
<1>5. CASE UNCHANGED vars
  BY <1>5 DEF vars, serverVars, clientVars, orderVars, OrderInv, Genuine
<1>. QED  BY <1>1, <1>2, <1>3, <1>4, <1>5, OrderFrame DEF Next, Reader
(* At most one of the tasks that fail a session publishes the failure.     *)
LEMMA FailNext ==
    ASSUME TypeOK, FailInv, [Next]_vars
    PROVE  FailInv'
<1>. USE DEF clientVars
<1>1. CASE /\ UNCHANGED <<failure, failures, rd>>
           /\ (reader \notin {"publishFailed", "done"} /\ reader' # "publishFailed") \/ reader' = reader
  BY <1>1 DEF FailInv
<1>2. ASSUME \/ Starter \/ StartServer \/ Cleanup \/ Shutdown \/ Link
             \/ (\E s \in Streams : OutputTask(s)) \/ watch_exit \/ (\E t \in Tasks : Finishing(t))
             \/ ReaderEvent \/ ReaderPublish \/ ReaderRemove \/ ReaderDisconnected \/ take_all_sessions
             \/ UNCHANGED vars
      PROVE  /\ UNCHANGED <<failure, failures, rd>>
             /\ (reader \notin {"publishFailed", "done"} /\ reader' # "publishFailed") \/ reader' = reader
  <2>1. CASE Starter
    BY <2>1 DEF Starter, RegisterSession, ExecCall, ExecReturn, CancelStart, DropHandle, Unregister
  <2>2. CASE StartServer \/ Cleanup \/ Shutdown \/ Link
    BY <2>2 DEF StartServer, InsertStarting, Spawned, SpawnFails, Cleanup, Shutdown, Link, LinkCloses, LinkEnds
  <2>3. CASE (\E s \in Streams : OutputTask(s)) \/ watch_exit \/ (\E t \in Tasks : Finishing(t))
    BY <2>3 DEF OutputTask, ReadChunk, EndOfStream, finish_output_stream, watch_exit, Finishing,
                maybe_emit_closed, Notify
  <2>4. CASE ReaderEvent \/ ReaderPublish \/ ReaderRemove \/ ReaderDisconnected \/ take_all_sessions
    BY <2>4 DEF ReaderEvent, ReaderPublish, ReaderRemove, ReaderDisconnected, take_all_sessions
  <2>5. CASE UNCHANGED vars
    BY <2>5 DEF vars
  <2>. QED  BY <1>2, <2>1, <2>2, <2>3, <2>4, <2>5
<1>3. CASE ReaderSetFailure
  <2>1. CASE failure
    BY <1>3, <2>1 DEF ReaderSetFailure, FailInv
  <2>2. CASE ~failure
    <3>1. failures = <<>> /\ \A r \in Readers : rd[r] # "publish"
      BY <2>2 DEF FailInv, TypeOK
    <3>. QED  BY <1>3, <3>1 DEF ReaderSetFailure, FailInv
  <2>. QED  BY <2>1, <2>2
<1>4. CASE ReaderPublishFailed
  <2>1. failures = <<>> /\ failures' = <<"reader">> /\ failure
    BY <1>4 DEF ReaderPublishFailed, FailInv
  <2>. QED  BY <1>4, <2>1 DEF ReaderPublishFailed, FailInv
<1>5. ASSUME NEW r \in Readers, Read(r) PROVE FailInv'
  <2>0. rd \in [Readers -> {"idle", "call", "setFailure", "publish"}]
    BY DEF TypeOK
  <2>1. CASE ReadBegin(r) \/ ReadAnswered(r) \/ ReadFails(r)
    <3>1. /\ UNCHANGED <<failure, failures, reader>>
          /\ \A q \in Readers : rd'[q] = "publish" => rd[q] = "publish"
      BY <2>0, <2>1 DEF ReadBegin, ReadAnswered, ReadFails
    <3>. QED  BY <3>1 DEF FailInv
  <2>2. CASE ReadSetFailure(r) /\ failure
    <3>1. /\ UNCHANGED <<failures, reader>> /\ failure'
          /\ \A q \in Readers : rd'[q] = "publish" => rd[q] = "publish"
      BY <2>0, <2>2 DEF ReadSetFailure
    <3>. QED  BY <2>2, <3>1 DEF FailInv
  <2>3. CASE ReadSetFailure(r) /\ ~failure
    <3>1. failures = <<>> /\ reader # "publishFailed" /\ \A q \in Readers : rd[q] # "publish"
      BY <2>3 DEF FailInv, TypeOK
    <3>2. /\ UNCHANGED <<failures, reader>> /\ failure'
          /\ \A q \in Readers \ {r} : rd'[q] # "publish"
      BY <2>0, <2>3, <3>1 DEF ReadSetFailure
    <3>. QED  BY <3>1, <3>2 DEF FailInv
  <2>4. CASE ReadPublishFailed(r)
    <3>1. /\ failure /\ failures = <<>> /\ reader # "publishFailed"
          /\ \A q \in Readers \ {r} : rd[q] # "publish"
      BY <2>4 DEF ReadPublishFailed, FailInv
    <3>2. /\ UNCHANGED <<failure, reader>> /\ failures' = <<"read">>
          /\ \A q \in Readers : rd'[q] # "publish"
      BY <2>0, <2>4, <3>1 DEF ReadPublishFailed
    <3>. QED  BY <3>1, <3>2 DEF FailInv
  <2>. QED  BY <1>5, <2>1, <2>2, <2>3, <2>4 DEF Read
<1>. QED  BY <1>1, <1>2, <1>3, <1>4, <1>5 DEF Next, Reader

(* A route goes only after the end.                                        *)
LEMMA RouteNext ==
    ASSUME TypeOK, ServerInv, OrderInv, RouteInv, [Next]_vars
    PROVE  RouteInv'
<1>. USE DEF clientVars, orderVars
<1>1. CASE Starter
  <2>0. latch => latch'
    <3>1. CASE RegisterSession \/ CancelStart \/ DropHandle \/ Unregister
      BY <3>1 DEF RegisterSession, CancelStart, DropHandle, Unregister
    <3>2. CASE ExecCall
      BY <3>2 DEF ExecCall
    <3>3. CASE ExecReturn
      BY <3>3 DEF ExecReturn
    <3>. QED  BY <1>1, <3>1, <3>2, <3>3 DEF Starter
  <2>1. UNCHANGED <<reader, failure, published>>
    BY <1>1 DEF Starter, RegisterSession, ExecCall, ExecReturn, CancelStart, DropHandle, Unregister
  <2>2. HasClosed(published)' <=> HasClosed(published)
    BY <2>1 DEF HasClosed
  <2>3. CASE RegisterSession
    <3>1. ~HasClosed(published)
      <4>1. \A i \in 1..Len(log) : log[i] # "closed"
        BY <2>3 DEF RegisterSession, ServerInv
      <4>2. DOMAIN published = 1..Len(published)
        BY DEF TypeOK
      <4>. QED  BY <4>1, <4>2 DEF HasClosed, OrderInv, Genuine
    <3>. QED  BY <2>0, <2>1, <2>2, <2>3, <3>1 DEF RegisterSession, RouteInv
  <2>4. CASE ExecCall \/ ExecReturn \/ CancelStart \/ DropHandle
    BY <2>0, <2>1, <2>2, <2>4 DEF ExecCall, ExecReturn, CancelStart, DropHandle, RouteInv
  <2>5. CASE Unregister
    BY <2>0, <2>1, <2>2, <2>5 DEF Unregister, RouteInv
  <2>. QED  BY <1>1, <2>3, <2>4, <2>5 DEF Starter
<1>2. CASE UNCHANGED <<latch, registered, start, reader, failure, published>>
  BY <1>2 DEF RouteInv, HasClosed
<1>3. ASSUME \/ StartServer \/ Cleanup \/ Shutdown \/ Link
             \/ (\E s \in Streams : OutputTask(s)) \/ watch_exit \/ (\E t \in Tasks : Finishing(t))
             \/ UNCHANGED vars
      PROVE  UNCHANGED <<latch, registered, start, reader, failure, published>>
  <2>2. CASE StartServer \/ Cleanup \/ Shutdown \/ Link
    BY <2>2 DEF StartServer, InsertStarting, Spawned, SpawnFails, Cleanup, Shutdown, Link, LinkCloses, LinkEnds
  <2>3. CASE (\E s \in Streams : OutputTask(s)) \/ watch_exit \/ (\E t \in Tasks : Finishing(t))
    BY <2>3 DEF OutputTask, ReadChunk, EndOfStream, finish_output_stream, watch_exit, Finishing,
                maybe_emit_closed, Notify
  <2>5. CASE UNCHANGED vars
    BY <2>5 DEF vars
  <2>. QED  BY <1>3, <2>2, <2>3, <2>5
<1>4. CASE ReaderEvent
  BY <1>4 DEF ReaderEvent, RouteInv, HasClosed
<1>5. CASE ReaderPublish
  <2>1. UNCHANGED <<latch, registered, start, failure>> /\ reader = "publish"
    BY <1>5 DEF ReaderPublish
  <2>2. reader' \in {"publish", "remove", "recv"} /\ (reader' = "remove" => HasClosed(published'))
    BY <1>5 DEF ReaderPublish
  <2>3. HasClosed(published) => HasClosed(published')
    <3>1. published \in Seq(Events) /\ published' = Append(published, ready[1]) /\ ready[1] \in Events
      BY <1>5, PublishNext DEF TypeOK
    <3>. QED  BY <3>1 DEF HasClosed
  <2>4. HasClosed(published') <=> HasClosed(published)'
    BY DEF HasClosed
  <2>5. HasClosed(published') => reader' # "recv"
    <3>1. Len(ready) \in Nat
      BY DEF TypeOK
    <3>2. Len(ready) > 0
      BY <1>5, PublishNext
    <3>0. \A n \in Nat : n > 0 => n > 1 \/ n = 1
      OBVIOUS
    <3>3. Len(ready) > 1 \/ Len(ready) = 1
      BY <3>0, <3>1, <3>2
    <3>. QED  BY <1>5, <3>3 DEF ReaderPublish
  <2>. QED  BY <2>1, <2>2, <2>3, <2>4, <2>5 DEF RouteInv
<1>6. CASE ReaderRemove \/ ReaderDisconnected \/ take_all_sessions \/ ReaderSetFailure \/ ReaderPublishFailed
  BY <1>6 DEF ReaderRemove, ReaderDisconnected, take_all_sessions, ReaderSetFailure, ReaderPublishFailed,
              RouteInv, HasClosed
<1>7. ASSUME NEW r \in Readers, Read(r) PROVE RouteInv'
  BY <1>7 DEF Read, ReadBegin, ReadAnswered, ReadFails, ReadSetFailure, ReadPublishFailed, RouteInv, HasClosed
<1>. QED  BY <1>1, <1>2, <1>3, <1>4, <1>5, <1>6, <1>7 DEF Next, Reader
LEMMA InvNext == IInv /\ [Next]_vars => IInv'
BY TypeNext, ServerNext, OrderNext, FailNext, RouteNext DEF IInv

LEMMA Invariance == Safety => []IInv
BY InvInit, InvNext, PTL DEF Safety

(* Nothing is numbered after Closed.                                       *)
LEMMA NumbersWhileOpen ==
    ASSUME TypeOK, ServerInv,
           \/ \E s \in Streams : OutputTask(s)
           \/ watch_exit \/ \E t \in Tasks : Finishing(t),
           log' # log
    PROVE  /\ \E kind \in Kinds : log' = Append(log, kind)
           /\ \A i \in 1..Len(log) : log[i] # "closed"
<1>1. \E kind \in Kinds : log' = Append(log, kind)
  BY TaskLog
<1>2. ~closed
  <2>1. ASSUME NEW s \in Streams, OutputTask(s) PROVE ~closed
    <3>1. entry = "running" /\ task[s] = "read"
      BY <2>1 DEF OutputTask, ReadChunk, EndOfStream, finish_output_stream, NotNumbered
    <3>2. Open("stdout") + Open("stderr") # 0
      BY <3>1 DEF Streams, Open
    <3>. QED  BY <3>1, <3>2 DEF ServerInv
  <2>2. CASE watch_exit
    BY <2>2 DEF watch_exit, NotNumbered, ServerInv
  <2>3. ASSUME NEW t \in Tasks, Finishing(t) PROVE ~closed
    BY <2>3 DEF Finishing, maybe_emit_closed, Notify, NotNumbered
  <2>. QED  BY <2>1, <2>2, <2>3
<1>. QED  BY <1>1, <1>2 DEF ServerInv

(* Every step is a step of ProcessEvents or leaves its variables alone.    *)
LEMMA StepRefines ==
    ASSUME IInv, [Next]_vars
    PROVE  [Stream!Next]_(Stream!vars)
<1>. USE DEF IInv
<1>1. CASE (\E s \in Streams : OutputTask(s)) \/ watch_exit \/ \E t \in Tasks : Finishing(t)
  <2>1. UNCHANGED <<published, failures>>
    BY <1>1 DEF OutputTask, ReadChunk, EndOfStream, finish_output_stream, watch_exit, Finishing,
                maybe_emit_closed, Notify, clientVars
  <2>2. CASE log' = log
    BY <2>1, <2>2 DEF Stream!vars
  <2>3. CASE log' # log
    BY <1>1, <2>1, <2>3, NumbersWhileOpen DEF Stream!Next, Stream!Produce
  <2>. QED  BY <2>2, <2>3
<1>2. CASE ReaderPublish
  <2>1. UNCHANGED <<log, failures>>
    BY <1>2 DEF ReaderPublish, serverVars
  <2>2. /\ published' = Append(published, ready[1])
        /\ Genuine(ready[1]) /\ ready[1].seq = Len(published) + 1 /\ ready[1] \in Events
    BY <1>2, PublishNext
  <2>3. ready[1] = [kind |-> log[Len(published) + 1], seq |-> Len(published) + 1]
    BY <2>2 DEF Genuine, Events
  <2>4. Len(published) \in Nat /\ Len(log) \in Nat /\ Len(published) < Len(log)
    BY <2>2 DEF Genuine, TypeOK
  <2>5. failures # <<"reader">>
    BY <1>2 DEF ReaderPublish, FailInv
  <2>. QED  BY <2>1, <2>2, <2>3, <2>4, <2>5 DEF Stream!Next, Stream!Deliver
<1>3. CASE ReaderPublishFailed
  <2>1. \A i \in 1..Len(published) : published[i].kind # "closed"
    BY <1>3 DEF ReaderPublishFailed, RouteInv, HasClosed, TypeOK
  <2>2. failures = <<>> /\ failures' = <<"reader">> /\ UNCHANGED <<log, published>>
    BY <1>3 DEF ReaderPublishFailed, FailInv, serverVars
  <2>. QED  BY <2>1, <2>2 DEF Stream!Next, Stream!FailLast
<1>4. ASSUME NEW r \in Readers, ReadPublishFailed(r) PROVE Stream!Next
  <2>1. failures = <<>>
    BY <1>4 DEF ReadPublishFailed, FailInv
  <2>2. failures' = <<"read">> /\ UNCHANGED <<log, published>>
    BY <1>4, <2>1 DEF ReadPublishFailed, serverVars
  <2>. QED  BY <2>1, <2>2 DEF Stream!Next, Stream!FailEarly
<1>5. ASSUME \/ Starter \/ StartServer \/ Cleanup \/ Shutdown \/ Link
             \/ ReaderRemove \/ ReaderDisconnected \/ take_all_sessions \/ ReaderSetFailure
             \/ \E r \in Readers : ReadBegin(r) \/ ReadAnswered(r) \/ ReadFails(r) \/ ReadSetFailure(r)
      PROVE  UNCHANGED <<log, published, failures>>
  <2>1. UNCHANGED <<log, published>>
    BY <1>5, OrderFrame DEF Read
  <2>2. UNCHANGED failures
    BY <1>5 DEF Starter, RegisterSession, ExecCall, ExecReturn, CancelStart, DropHandle, Unregister,
                StartServer, InsertStarting, Spawned, SpawnFails, Cleanup, Shutdown, Link, LinkCloses, LinkEnds,
                ReaderRemove, ReaderDisconnected, take_all_sessions, ReaderSetFailure,
                ReadBegin, ReadAnswered, ReadFails, ReadSetFailure, clientVars
  <2>. QED  BY <2>1, <2>2
<1>6. CASE UNCHANGED <<log, published, failures>>
  BY <1>6 DEF Stream!vars
<1>7. ReaderEvent \/ UNCHANGED vars => UNCHANGED <<log, published, failures>>
  BY DEF ReaderEvent, vars, serverVars, clientVars
<1>. QED  BY <1>1, <1>2, <1>3, <1>4, <1>5, <1>6, <1>7 DEF Next, Reader, Read

(* Types, and every notification in flight carries a number the server     *)
(* gave to that event, whatever the order of the tasks and the moment the  *)
(* connection is lost.                                                     *)
THEOREM StreamTypeCorrect == Safety => []TypeOK
BY Invariance, PTL DEF IInv

(* A started handle loses its route only after Closed was published or     *)
(* while the disconnect fails it.                                          *)
THEOREM RouteIsKept == Safety => []RouteUntilEnd
<1>1. IInv => RouteUntilEnd
  BY DEF IInv, RouteInv, RouteUntilEnd
<1>. QED  BY <1>1, Invariance, PTL

(* insert_session can not slip a route in behind take_all_sessions: once   *)
(* the reader has ended, no process has one.                               *)
THEOREM NoRouteOrphaned == Safety => []NoOrphanRoute
<1>1. IInv => NoOrphanRoute
  BY DEF IInv, RouteInv, NoOrphanRoute
<1>. QED  BY <1>1, Invariance, PTL

(* The tasks of the server, the reorder buffer, the calls and the          *)
(* disconnect together implement ProcessEvents: a subscriber sees the      *)
(* process's events once each, in their order, and at most one Failed,     *)
(* which is the last event when the reader task publishes it.              *)
THEOREM StreamRefinement == Safety => StreamSpec
<1>1. Init => Stream!Init
  BY DEF Init, Stream!Init
<1>. QED  BY <1>1, StepRefines, Invariance, PTL DEF Safety, StreamSpec, Stream!Spec
=============================================================================
