--------------------------- MODULE SessionRegistry ---------------------------
(***************************************************************************)
(* The exec-server's sessions and the connections that own them.  A        *)
(* session outlives its connection: it is detached when the connection     *)
(* goes away, another connection may resume it within DETACHED_SESSION_TTL *)
(* and otherwise a timer removes it and terminates its processes.          *)
(*                                                                         *)
(* One connection is one run_connection task, which handles its inbound    *)
(* messages in turn.  attach and the timer hold the registry's lock;       *)
(* detach does not, and touches the entry's attachment and its             *)
(* notification sender under two locks, one after the other.               *)
(***************************************************************************)
EXTENDS Naturals

CONSTANTS Conns,   \* connections, in the order-free sense of Uuid::new_v4
          None

ASSUME ConnsAssumption == None \notin Conns

\* A session is named after the connection whose initialize created it.
Sessions == Conns

VARIABLES sessions,    \* the registry's keys
          lock,        \* the connection inside attach's critical section
          current,     \* AttachmentState of each entry ...
          detached,
          expires,     \* ... its deadline: none set, ahead, or passed
          sender,      \* the connection its notifications go to
          processes,   \* none yet, running, or terminated by shutdown
          pc,          \* where each connection stands
          session,     \* the session it resumes or is attached to
          timers,      \* sleeping expire_if_detached tasks
          expiring     \* sessions one of them removed but has not shut down

entryVars == <<current, detached, expires>>
vars == <<sessions, lock, entryVars, sender, processes, pc, session, timers, expiring>>

InAttach == {"checkActive", "setSender", "attach"}
Attached == {"attached", "ready"}
PCs == {"open", "expired", "closing", "detached", "closed"} \cup InAttach \cup Attached

\* Types, and: an entry has a deadline exactly when it remembers the
\* connection that left it.
TypeOK ==
    /\ sessions \subseteq Sessions
    /\ lock \in Conns \cup {None}
    /\ current \in [Sessions -> Conns \cup {None}]
    /\ detached \in [Sessions -> Conns \cup {None}]
    /\ expires \in [Sessions -> {"none", "ahead", "passed"}]
    /\ sender \in [Sessions -> Conns \cup {None}]
    /\ processes \in [Sessions -> {"none", "running", "terminated"}]
    /\ pc \in [Conns -> PCs]
    /\ session \in [Conns -> Sessions \cup {None}]
    /\ timers \subseteq Sessions \X Conns
    /\ expiring \subseteq Sessions
    /\ \A s \in Sessions : expires[s] = "none" <=> detached[s] = None

Init ==
    /\ sessions = {}
    /\ lock = None
    /\ current = [s \in Sessions |-> None]
    /\ detached = [s \in Sessions |-> None]
    /\ expires = [s \in Sessions |-> "none"]
    /\ sender = [s \in Sessions |-> None]
    /\ processes = [s \in Sessions |-> "none"]
    /\ pc = [c \in Conns |-> "open"]
    /\ session = [c \in Conns |-> None]
    /\ timers = {}
    /\ expiring = {}

Goto(c, label) == pc' = [pc EXCEPT ![c] = label]

\* LocalProcess::shutdown drains the table and terminates what runs.
shutdown(s) ==
    processes' = [processes EXCEPT ![s] = IF @ = "running" THEN "terminated" ELSE @]

-----------------------------------------------------------------------------
(* initialize.  An unknown resume id, and a second initialize, are refused *)
(* without a change of state.                                              *)

InitializeNew(c) ==
    /\ pc[c] = "open" /\ lock = None
    /\ sessions' = sessions \cup {c}
    /\ current' = [current EXCEPT ![c] = c]
    /\ sender' = [sender EXCEPT ![c] = c]
    /\ session' = [session EXCEPT ![c] = c]
    /\ Goto(c, "attached")
    /\ UNCHANGED <<lock, detached, expires, processes, timers, expiring>>

\* is_expired, first thing under the lock.
ResumeExpired(c, s) ==
    /\ pc[c] = "open" /\ s \in sessions /\ lock = None
    /\ expires[s] = "passed"
    /\ sessions' = sessions \ {s}
    /\ session' = [session EXCEPT ![c] = s]
    /\ Goto(c, "expired")
    /\ UNCHANGED <<lock, entryVars, sender, processes, timers, expiring>>

ResumeFound(c, s) ==
    /\ pc[c] = "open" /\ s \in sessions /\ lock = None
    /\ expires[s] # "passed"
    /\ lock' = c
    /\ session' = [session EXCEPT ![c] = s]
    /\ Goto(c, "checkActive")
    /\ UNCHANGED <<sessions, entryVars, sender, processes, timers, expiring>>

\* has_active_connection; a refused initialize may be sent again.
CheckActive(c) ==
    /\ pc[c] = "checkActive"
    /\ \/ /\ current[session[c]] # None
          /\ lock' = None
          /\ session' = [session EXCEPT ![c] = None]
          /\ Goto(c, "open")
       \/ /\ current[session[c]] = None
          /\ Goto(c, "setSender")
          /\ UNCHANGED <<lock, session>>
    /\ UNCHANGED <<sessions, entryVars, sender, processes, timers, expiring>>

\* Mutant: a resumed session keeps its old notification sender.
ResumeKeepsSender(c) ==
    /\ pc[c] = "setSender"
    /\ Goto(c, "attach")
    /\ UNCHANGED <<sessions, lock, entryVars, sender, processes, session, timers, expiring>>

ResumeSetSender(c) ==
    /\ pc[c] = "setSender"
    /\ sender' = [sender EXCEPT ![session[c]] = c]
    /\ Goto(c, "attach")
    /\ UNCHANGED <<sessions, lock, entryVars, processes, session, timers, expiring>>

\* Mutant: a resumed session keeps the connection that left it.
AttachKeepsDetached(c) ==
    /\ pc[c] = "attach"
    /\ current' = [current EXCEPT ![session[c]] = c]
    /\ expires' = [expires EXCEPT ![session[c]] = "none"]
    /\ lock' = None
    /\ Goto(c, "attached")
    /\ UNCHANGED <<sessions, detached, sender, processes, session, timers, expiring>>

\* Mutant: a resumed session keeps its deadline.
AttachKeepsDeadline(c) ==
    /\ pc[c] = "attach"
    /\ current' = [current EXCEPT ![session[c]] = c]
    /\ detached' = [detached EXCEPT ![session[c]] = None]
    /\ lock' = None
    /\ Goto(c, "attached")
    /\ UNCHANGED <<sessions, expires, sender, processes, session, timers, expiring>>

ResumeAttach(c) ==
    /\ pc[c] = "attach"
    /\ current' = [current EXCEPT ![session[c]] = c]
    /\ detached' = [detached EXCEPT ![session[c]] = None]
    /\ expires' = [expires EXCEPT ![session[c]] = "none"]
    /\ lock' = None
    /\ Goto(c, "attached")
    /\ UNCHANGED <<sessions, sender, processes, session, timers, expiring>>

\* An attach that found its session expired terminates the processes and
\* refuses the initialize.
ExpiredShutdown(c) ==
    /\ pc[c] = "expired"
    /\ shutdown(session[c])
    /\ session' = [session EXCEPT ![c] = None]
    /\ Goto(c, "open")
    /\ UNCHANGED <<sessions, lock, entryVars, sender, timers, expiring>>

-----------------------------------------------------------------------------
(* The rest of the connection: every message first passes                  *)
(* is_session_attached.                                                    *)

Initialized(c) ==
    /\ pc[c] = "attached"
    /\ Goto(c, IF current[session[c]] = c THEN "ready" ELSE "closing")
    /\ UNCHANGED <<sessions, lock, entryVars, sender, processes, session, timers, expiring>>

Exec(c) ==
    /\ pc[c] = "ready" /\ processes[session[c]] # "running"
    /\ IF current[session[c]] = c
       THEN /\ processes' = [processes EXCEPT ![session[c]] = "running"]
            /\ UNCHANGED pc
       ELSE /\ Goto(c, "closing")
            /\ UNCHANGED processes
    /\ UNCHANGED <<sessions, lock, entryVars, sender, session, timers, expiring>>

\* The transport closes or the peer breaks the protocol.  It is noticed
\* between messages and while a request waits; the request is then dropped
\* where it stands.
Disconnect(c) ==
    /\ pc[c] \in {"open", "expired"} \cup Attached
    /\ session' = [session EXCEPT ![c] = IF pc[c] = "expired" THEN None ELSE @]
    /\ Goto(c, "closing")
    /\ UNCHANGED <<sessions, lock, entryVars, sender, processes, timers, expiring>>

\* ExecServerHandler::shutdown, then SessionHandle::detach.
DetachEntry(c) ==
    /\ pc[c] = "closing"
    /\ IF session[c] # None /\ current[session[c]] = c
       THEN /\ current' = [current EXCEPT ![session[c]] = None]
            /\ detached' = [detached EXCEPT ![session[c]] = c]
            /\ expires' = [expires EXCEPT ![session[c]] = "ahead"]
            /\ Goto(c, "detached")
       ELSE Goto(c, "closed") /\ UNCHANGED entryVars
    /\ UNCHANGED <<sessions, lock, sender, processes, session, timers, expiring>>

\* Mutant: no timer is started.
DetachWithoutTimer(c) ==
    /\ pc[c] = "detached"
    /\ sender' = [sender EXCEPT ![session[c]] = None]
    /\ Goto(c, "closed")
    /\ UNCHANGED <<sessions, lock, entryVars, processes, session, timers, expiring>>

DetachSender(c) ==
    /\ pc[c] = "detached"
    /\ sender' = [sender EXCEPT ![session[c]] = None]
    /\ timers' = timers \cup {<<session[c], c>>}
    /\ Goto(c, "closed")
    /\ UNCHANGED <<sessions, lock, entryVars, processes, session, expiring>>

-----------------------------------------------------------------------------
(* Expiry.                                                                 *)

DeadlinePasses(s) ==
    /\ expires[s] = "ahead"
    /\ expires' = [expires EXCEPT ![s] = "passed"]
    /\ UNCHANGED <<sessions, lock, current, detached, sender, processes, pc,
                   session, timers, expiring>>

\* The timer wakes no earlier than the deadline its own detach has set, and
\* spares a session that was resumed, or resumed and left again, meanwhile.
expire_if_detached(s, c) ==
    /\ <<s, c>> \in timers /\ lock = None
    /\ detached[s] = c => expires[s] = "passed"
    /\ timers' = timers \ {<<s, c>>}
    /\ IF s \in sessions /\ current[s] = None /\ detached[s] = c
       THEN sessions' = sessions \ {s} /\ expiring' = expiring \cup {s}
       ELSE UNCHANGED <<sessions, expiring>>
    /\ UNCHANGED <<lock, entryVars, sender, processes, pc, session>>

ExpireShutdown(s) ==
    /\ s \in expiring
    /\ shutdown(s)
    /\ expiring' = expiring \ {s}
    /\ UNCHANGED <<sessions, lock, entryVars, sender, pc, session, timers>>

-----------------------------------------------------------------------------
Connection(c) ==
    \/ InitializeNew(c)
    \/ \E s \in Sessions : ResumeExpired(c, s) \/ ResumeFound(c, s)
    \/ CheckActive(c) \/ ResumeSetSender(c) \/ ResumeAttach(c) \/ ExpiredShutdown(c)
    \/ Initialized(c) \/ Exec(c)
    \/ Disconnect(c) \/ DetachEntry(c) \/ DetachSender(c)

Expiry(s) ==
    \/ DeadlinePasses(s)
    \/ \E c \in Conns : expire_if_detached(s, c)
    \/ ExpireShutdown(s)

Next == (\E c \in Conns : Connection(c)) \/ (\E s \in Sessions : Expiry(s))

\* Tasks run and time passes; what clients send is up to them.  The timers
\* contend for a tokio mutex, which serves its waiters in turn.  Each
\* connection starts at most one timer, so that fairness to the timers
\* together is fairness to each.
Fairness ==
    /\ \A c \in Conns :
          WF_vars(\/ CheckActive(c) \/ ResumeSetSender(c) \/ ResumeAttach(c)
                  \/ ExpiredShutdown(c) \/ DetachEntry(c) \/ DetachSender(c))
    /\ \A s \in Sessions : WF_vars(DeadlinePasses(s)) /\ WF_vars(ExpireShutdown(s))
    /\ SF_vars(\E s \in Sessions, c \in Conns : expire_if_detached(s, c))

Safety == Init /\ [][Next]_vars
Spec == Safety /\ Fairness

-----------------------------------------------------------------------------
(* Properties.                                                             *)

\* From the moment initialize succeeds until it closes, a connection owns its
\* session: no resume takes it over, no timer of an earlier owner and no
\* expired resume removes it, and nothing terminates its processes.
OwnerKept ==
    \A c \in Conns : pc[c] \in Attached =>
        /\ current[session[c]] = c
        /\ session[c] \in sessions
        /\ processes[session[c]] # "terminated"

\* What a session's processes print never goes to a connection other than
\* the one attached.  It may go nowhere: a resume between the two steps of a
\* detach has its sender cleared by the second.
NotificationsStayHome ==
    \A s \in Sessions : current[s] # None => sender[s] \in {current[s], None}

\* A session nobody is attached to is resumed or removed.
AbandonedSessionExpires ==
    \A s \in Sessions :
        (s \in sessions /\ current[s] = None)
            ~> (s \notin sessions \/ current[s] # None)

\* The processes of a session that left the registry are terminated, or
\* someone is about to.
RemovedIsShutDown ==
    \A s \in Sessions :
        s \notin sessions /\ processes[s] = "running" =>
            \/ s \in expiring
            \/ \E c \in Conns : pc[c] = "expired" /\ session[c] = s

-----------------------------------------------------------------------------
(* The inductive invariant.                                                *)

\* Nothing is left, or in use, of the session a connection has yet to create.
Uncreated(s) ==
    /\ s \notin sessions /\ s \notin expiring
    /\ current[s] = None /\ detached[s] = None
    /\ processes[s] = "none"
    /\ \A c \in Conns : session[c] # s

ConnectionInv(c) ==
    /\ pc[c] \in InAttach <=> lock = c
    /\ pc[c] \in InAttach => session[c] \in sessions
    /\ pc[c] \in {"setSender", "attach"} => current[session[c]] = None
    /\ pc[c] = "attach" => sender[session[c]] \in {c, None}
    /\ pc[c] \in {"expired", "detached"} => session[c] \in Sessions
    /\ pc[c] = "expired" => session[c] \notin sessions
    /\ pc[c] \in Attached => session[c] \in Sessions /\ current[session[c]] = c
    /\ pc[c] \in {"open", "expired"} \cup InAttach => Uncreated(c)

SessionInv(s) ==
    /\ s \in sessions => s \notin expiring /\ processes[s] # "terminated"
    /\ current[s] # None =>
          /\ s \in sessions
          /\ detached[s] = None
          /\ sender[s] \in {current[s], None}
          /\ session[current[s]] = s
          /\ pc[current[s]] \in Attached \cup {"closing"}

IInv ==
    /\ TypeOK
    /\ \A c \in Conns : ConnectionInv(c)
    /\ \A s \in Sessions : SessionInv(s)
==============================================================================
