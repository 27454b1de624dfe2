------------------------------ MODULE RpcClient ------------------------------
(***************************************************************************)
(* The JSON-RPC client under ExecServerClient: concurrent calls, the       *)
(* websocket task of the connection, RpcClient's reader task and the event *)
(* reader of ExecServerClient.  Calls wait without a timeout, so what      *)
(* matters is that none is left waiting once no answer can come.           *)
(***************************************************************************)
EXTENDS Naturals, Sequences

CONSTANTS Calls,              \* concurrent callers, one call each
          MaxUnsolicited      \* bound: messages the peer sends that answer nothing

\* What only a faulty peer sends.
Faults == {"malformed", "request"}

ASSUME RpcAssumption ==
    /\ Calls \cap ({"notification", "disconnected"} \cup Faults) = {}
    /\ MaxUnsolicited \in Nat

VARIABLES socket,     \* the websocket task: running, announcing, stopped
          watch,      \* disconnected_rx: "up" or "down"
          incoming,   \* connection events on their way to the reader
          reader,     \* RpcClient's reader task
          pending,    \* requests with a response channel registered
          answer,     \* what was sent on that channel
          call,       \* where each caller stands
          events,     \* notifications on their way to ExecServerClient
          latch,      \* ExecServerClient's disconnected: "unset" or "set"
          unsolicited \* messages sent so far that answer nothing

vars == <<socket, watch, incoming, reader, pending, answer, call, events, latch, unsolicited>>

Messages == Calls \cup {"notification", "disconnected"} \cup Faults
Waiting == {"registered", "sent"}
Returned == {"ok", "closed"}

\* Types, and: a registered channel is unanswered and has a caller waiting;
\* nothing is answered before it is registered.
TypeOK ==
    /\ socket \in {"running", "announcing", "stopped"}
    /\ watch \in {"up", "down"}
    /\ incoming \in Seq(Messages)
    /\ reader \in {"recv", "announce", "drain", "done"}
    /\ pending \subseteq Calls
    /\ answer \in [Calls -> {"none", "ok", "closed"}]
    /\ call \in [Calls -> {"idle", "preflight"} \cup Waiting \cup Returned]
    /\ events \in Seq({"notification", "disconnected"})
    /\ latch \in {"unset", "set"}
    /\ unsolicited \in Nat
    /\ \A r \in pending : answer[r] = "none" /\ call[r] \in Waiting
    /\ \A r \in Calls : call[r] \in {"idle", "preflight"} => answer[r] = "none"

Init ==
    /\ socket = "running"
    /\ watch = "up"
    /\ incoming = <<>>
    /\ reader = "recv"
    /\ pending = {}
    /\ answer = [r \in Calls |-> "none"]
    /\ call = [r \in Calls |-> "idle"]
    /\ events = <<>>
    /\ latch = "unset"
    /\ unsolicited = 0

Goto(r, label) == call' = [call EXCEPT ![r] = label]

-----------------------------------------------------------------------------
(* ExecServerClient::call around RpcClient::call.                          *)

\* The preflight check of the latch.
Preflight(r) ==
    /\ call[r] = "idle"
    /\ Goto(r, IF latch = "set" THEN "closed" ELSE "preflight")
    /\ UNCHANGED <<socket, watch, incoming, reader, pending, answer, events, latch, unsolicited>>

\* Under the pending lock: a dead transport fails the call, and the caller
\* records the disconnect; else the response channel is registered.
Register(r) ==
    /\ call[r] = "preflight"
    /\ \/ /\ watch = "down"
          /\ Goto(r, "closed") /\ latch' = "set"
          /\ UNCHANGED pending
       \/ /\ watch = "up"
          /\ Goto(r, "registered")
          /\ pending' = pending \cup {r}
          /\ UNCHANGED latch
    /\ UNCHANGED <<socket, watch, incoming, reader, answer, events, unsolicited>>

\* The request goes into the connection's outgoing queue, which is gone when
\* the websocket task has stopped.
Send(r) ==
    /\ call[r] = "registered"
    /\ \/ /\ socket = "stopped"
          /\ pending' = pending \ {r}
          /\ Goto(r, "closed") /\ latch' = "set"
       \/ /\ socket # "stopped"
          /\ Goto(r, "sent")
          /\ UNCHANGED <<pending, latch>>
    /\ UNCHANGED <<socket, watch, incoming, reader, answer, events, unsolicited>>

\* Mutant: a call races its response against the transport-close watch.
ReturnOnClose(r) ==
    /\ call[r] = "sent" /\ (answer[r] # "none" \/ watch = "down")
    /\ Goto(r, IF answer[r] = "ok" THEN "ok" ELSE "closed")
    /\ latch' = IF answer[r] = "ok" THEN latch ELSE "set"
    /\ UNCHANGED <<socket, watch, incoming, reader, pending, answer, events, unsolicited>>

Return(r) ==
    /\ call[r] = "sent" /\ answer[r] # "none"
    /\ Goto(r, answer[r])
    /\ latch' = IF answer[r] = "closed" THEN "set" ELSE latch
    /\ UNCHANGED <<socket, watch, incoming, reader, pending, answer, events, unsolicited>>

-----------------------------------------------------------------------------
(* The websocket task.                                                     *)

\* A message arrives.  With the reader gone its queue is closed, and the task
\* stops without a word.
Receive(m) ==
    /\ socket = "running"
    /\ incoming' = IF reader = "done" THEN incoming ELSE Append(incoming, m)
    /\ socket' = IF reader = "done" THEN "stopped" ELSE "running"
    /\ UNCHANGED <<watch, reader, pending, answer, call, events, latch>>

\* The peer answers a request it was sent, at most once.
PeerResponds(r) ==
    /\ call[r] = "sent" /\ answer[r] = "none"
    /\ \A i \in DOMAIN incoming : incoming[i] # r
    /\ Receive(r) /\ UNCHANGED unsolicited

PeerNotifies ==
    /\ unsolicited < MaxUnsolicited
    /\ unsolicited' = unsolicited + 1
    /\ Receive("notification")

PeerMisbehaves ==
    /\ unsolicited < MaxUnsolicited
    /\ unsolicited' = unsolicited + 1
    /\ \E f \in Faults : Receive(f)

\* Mutant: the disconnect is queued before the watch is set.
CloseQueuedFirst ==
    /\ socket = "running"
    /\ socket' = "stopped"
    /\ incoming' = IF reader = "done" THEN incoming ELSE Append(incoming, "disconnected")
    /\ UNCHANGED <<watch, reader, pending, answer, call, events, latch, unsolicited>>

\* Close frame, end of stream, or a failed read, write or ping:
\* send_disconnected sets the watch ...
PeerCloses ==
    /\ socket = "running"
    /\ socket' = "announcing"
    /\ watch' = "down"
    /\ UNCHANGED <<incoming, reader, pending, answer, call, events, latch, unsolicited>>

\* ... and then queues the terminal event.
send_disconnected ==
    /\ socket = "announcing"
    /\ socket' = "stopped"
    /\ incoming' = IF reader = "done" THEN incoming ELSE Append(incoming, "disconnected")
    /\ UNCHANGED <<watch, reader, pending, answer, call, events, latch, unsolicited>>

-----------------------------------------------------------------------------
(* RpcClient's reader task.                                                *)

\* Mutant: an answered request stays registered.
RecvKeepsPending ==
    /\ reader = "recv" /\ incoming # <<>>
    /\ incoming' = Tail(incoming)
    /\ LET m == Head(incoming)
       IN  \/ /\ m \in Calls
              /\ pending' = pending
              /\ answer' = IF m \in pending THEN [answer EXCEPT ![m] = "ok"] ELSE answer
              /\ UNCHANGED <<reader, events>>
           \/ /\ m = "notification"
              /\ events' = Append(events, "notification")
              /\ UNCHANGED <<reader, pending, answer>>
           \/ /\ m \in Faults \cup {"disconnected"}
              /\ reader' = "announce"
              /\ UNCHANGED <<pending, answer, events>>
    /\ UNCHANGED <<socket, watch, call, latch, unsolicited>>

\* handle_server_message, or the end of the loop.
Recv ==
    /\ reader = "recv" /\ incoming # <<>>
    /\ incoming' = Tail(incoming)
    /\ LET m == Head(incoming)
       IN  \/ /\ m \in Calls
              /\ pending' = pending \ {m}
              /\ answer' = IF m \in pending THEN [answer EXCEPT ![m] = "ok"] ELSE answer
              /\ UNCHANGED <<reader, events>>
           \/ /\ m = "notification"
              /\ events' = Append(events, "notification")
              /\ UNCHANGED <<reader, pending, answer>>
           \/ /\ m \in Faults \cup {"disconnected"}
              /\ reader' = "announce"
              /\ UNCHANGED <<pending, answer, events>>
    /\ UNCHANGED <<socket, watch, call, latch, unsolicited>>

Announce ==
    /\ reader = "announce"
    /\ events' = Append(events, "disconnected")
    /\ reader' = "drain"
    /\ UNCHANGED <<socket, watch, incoming, pending, answer, call, latch, unsolicited>>

\* Mutant: requests are answered but only the one whose turn it is.
DrainOne ==
    /\ reader = "drain"
    /\ \E r \in pending \cup {"none"} :
          /\ pending' = {}
          /\ answer' = [x \in Calls |-> IF x = r THEN "closed" ELSE answer[x]]
    /\ reader' = "done"
    /\ UNCHANGED <<socket, watch, incoming, call, events, latch, unsolicited>>

\* Everything still pending fails; then the task ends and drops its queue.
drain_pending ==
    /\ reader = "drain"
    /\ pending' = {}
    /\ answer' = [r \in Calls |-> IF r \in pending THEN "closed" ELSE answer[r]]
    /\ reader' = "done"
    /\ UNCHANGED <<socket, watch, incoming, call, events, latch, unsolicited>>

\* ExecServerClient's reader: what it does with a notification is not modelled
\* here; a disconnect sets the latch.
TakeEvent ==
    /\ events # <<>>
    /\ events' = Tail(events)
    /\ latch' = IF Head(events) = "disconnected" THEN "set" ELSE latch
    /\ UNCHANGED <<socket, watch, incoming, reader, pending, answer, call, unsolicited>>

-----------------------------------------------------------------------------
Caller(r) == Preflight(r) \/ Register(r) \/ Send(r) \/ Return(r)
Reader == Recv \/ Announce \/ drain_pending
Peer == PeerNotifies \/ PeerCloses \/ \E r \in Calls : PeerResponds(r)

Next == \/ \E r \in Calls : Caller(r)
        \/ Peer \/ send_disconnected \/ Reader \/ TakeEvent

\* The client's own tasks run; the peer may stay silent and may never close.
Fairness ==
    /\ \A r \in Calls : WF_vars(Register(r) \/ Send(r) \/ Return(r))
    /\ WF_vars(send_disconnected) /\ WF_vars(Reader) /\ WF_vars(TakeEvent)

Safety == Init /\ [][Next]_vars
Spec == Safety /\ Fairness

\* With a peer that may also break the protocol.
FaultySafety == Init /\ [][Next \/ PeerMisbehaves]_vars

-----------------------------------------------------------------------------
(* Properties.                                                             *)

\* No request is registered once the reader has drained: no call sneaks in
\* after the drain.
NoStrandedCall == reader = "done" => pending = {}

\* Once the transport is down, or the reader has ended, every call that was
\* made returns.
CallsEnd ==
    \A r \in Calls :
        (watch = "down" \/ reader = "done") /\ call[r] \in {"preflight"} \cup Waiting
            ~> call[r] \in Returned

\* A response the connection has read before anything ended the stream wins:
\* its call does not fail, whatever happens to the transport meanwhile.
Readable(r) ==
    \/ answer[r] = "ok"
    \/ /\ reader = "recv"
       /\ \E i \in DOMAIN incoming :
             /\ incoming[i] = r
             /\ \A j \in 1..(i - 1) : incoming[j] \in Calls \cup {"notification"}

ResponsesWin ==
    [][\A r \in Calls : Readable(r) => (call'[r] = "closed" => call[r] = "closed")]_vars

-----------------------------------------------------------------------------
\* The inductive invariant behind NoStrandedCall when the peer keeps to the
\* protocol: the reader only ever ends because the transport said so, and the
\* watch is down before it can hear of it.
EndIsAnnounced ==
    /\ \A i \in 1..Len(incoming) : incoming[i] \notin Faults
    /\ \A i \in 1..Len(incoming) : incoming[i] = "disconnected" => watch = "down"
    /\ socket # "running" => watch = "down"
    /\ reader # "recv" => watch = "down"

IInv == TypeOK /\ EndIsAnnounced /\ NoStrandedCall

\* What ResponsesWin rests on, also with a faulty peer: only a request that was
\* sent is answered, and only the drain, after which nothing is read any more,
\* fails one.
AnswerInv ==
    /\ \A i \in 1..Len(incoming) : \A r \in Calls :
          incoming[i] = r => call[r] \in {"sent"} \cup Returned
    /\ \A r \in Calls : answer[r] = "ok" => call[r] \in {"sent"} \cup Returned
    /\ \A r \in Calls : answer[r] = "closed" => reader = "done"
==============================================================================
