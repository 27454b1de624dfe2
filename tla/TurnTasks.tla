------------------------------ MODULE TurnTasks ------------------------------
(***************************************************************************)
(* The turns of one session.  The submission loop starts a turn for a      *)
(* user's input or steers the one that runs, interrupts it, and delivers   *)
(* mail from other agents, which wakes an idle session when it is marked   *)
(* with trigger_turn.  An extension starts a turn of its own when the      *)
(* session is idle, and the guardian interrupts a turn that had too many   *)
(* requests denied.  These three run concurrently with each other and with *)
(* the tasks of the turns; active_turn is the one thing they share, and    *)
(* each of them lets go of its lock several times on the way.              *)
(*                                                                         *)
(* A turn state (the Arc in ActiveTurn) is a slot; an ActiveTurn without a *)
(* task is a reservation, or a turn whose task is finishing.  Turns and    *)
(* slots are recycled once nothing refers to them.                         *)
(***************************************************************************)
EXTENDS Naturals, FiniteSets, FiniteSetsExt

CONSTANTS Inputs,     \* user inputs
          Mails,      \* inter-agent communications
          Trigger,    \* those marked with trigger_turn
          Turns,      \* turn contexts alive at a time
          Slots,      \* turn states alive at a time
          MaxAborts,  \* bound: interrupts
          MaxIdle     \* bound: turns the extension tries to start

ASSUME TurnAssumption ==
    /\ Trigger \subseteq Mails /\ Inputs \cap Mails = {}
    /\ Turns \subseteq Nat \ {0} /\ Slots \subseteq Nat \ {0}
    /\ IsFiniteSet(Turns) /\ IsFiniteSet(Slots)
    /\ MaxAborts \in Nat /\ MaxIdle \in Nat

Items == Inputs \cup Mails
Actors == {"loop", "extension", "guardian"}
None == 0

VARIABLES
    slot, task,    \* active_turn: its turn state and its task
    pending,       \* pending_input of each turn state
    deferred,      \* mailbox_delivery_phase is NextTurn
    mailbox,       \* mailbox_pending_mails
    turn,          \* where the task of each turn stands
    input,         \* its own input, not yet recorded
    cancelled,     \* its cancellation token
    tslot,         \* the turn state it finishes with
    ends,          \* TurnComplete and TurnAborted events
    pc,            \* where each actor stands
    aturn, aslot,  \* the turn and the turn state it works on
    given, held,   \* the input it has for a turn, and pending items it moves
    sent, recorded, cleared,  \* items handed in, in the history, dropped
    aborts, idles, \* so far
    contended,     \* two turns got in each other's way (history variable)
    overwritten    \* a running task's place in active_turn was given away (history variable)

activeVars == <<slot, task>>
queueVars == <<pending, deferred, mailbox>>
taskVars == <<turn, input, cancelled, tslot, ends>>
actorVars == <<pc, aturn, aslot, given, held>>
itemVars == <<sent, recorded, cleared>>
countVars == <<aborts, idles>>
vars == <<activeVars, queueVars, taskVars, actorVars, itemVars, countVars, contended, overwritten>>

Starting == {"drain", "join", "install", "recheck", "hold"}
Over(t) == turn[t] \in {"ended", "killed"}

\* Types, and: an active task has an ActiveTurn around it and is still at work.
TypeOK ==
    /\ slot \in Slots \cup {None} /\ task \in Turns \cup {None}
    /\ task # None => slot # None /\ turn[task] \in {"run", "flush", "finish"}
    /\ pending \in [Slots -> SUBSET Items] /\ deferred \in [Slots -> BOOLEAN]
    /\ mailbox \subseteq Mails
    /\ turn \in [Turns -> {"free", "starting", "run", "flush", "finish", "record", "complete",
                           "release", "ended", "killed"}]
    /\ input \in [Turns -> SUBSET Items] /\ cancelled \in [Turns -> BOOLEAN]
    /\ tslot \in [Turns -> Slots \cup {None}] /\ ends \in [Turns -> 0..2]
    /\ pc \in [Actors -> Starting \cup {"ready", "take", "abort", "clear", "wake", "reserve",
                                        "check", "claim"}]
    /\ aturn \in [Actors -> Turns \cup {None}] /\ aslot \in [Actors -> Slots \cup {None}]
    /\ given \in [Actors -> SUBSET Items] /\ held \in [Actors -> SUBSET Items]
    /\ sent \subseteq Items /\ recorded \subseteq Items /\ cleared \subseteq Items
    /\ aborts \in 0..MaxAborts /\ idles \in 0..MaxIdle
    /\ contended \in BOOLEAN /\ overwritten \in BOOLEAN

Init ==
    /\ slot = None /\ task = None
    /\ pending = [s \in Slots |-> {}] /\ deferred = [s \in Slots |-> FALSE] /\ mailbox = {}
    /\ turn = [t \in Turns |-> "free"] /\ input = [t \in Turns |-> {}]
    /\ cancelled = [t \in Turns |-> FALSE] /\ tslot = [t \in Turns |-> None]
    /\ ends = [t \in Turns |-> 0]
    /\ pc = [a \in Actors |-> "ready"]
    /\ aturn = [a \in Actors |-> None] /\ aslot = [a \in Actors |-> None]
    /\ given = [a \in Actors |-> {}] /\ held = [a \in Actors |-> {}]
    /\ sent = {} /\ recorded = {} /\ cleared = {}
    /\ aborts = 0 /\ idles = 0
    /\ contended = FALSE /\ overwritten = FALSE

-----------------------------------------------------------------------------
(* active_turn and the input queue.                                        *)

InUse(s) == \/ s = slot
            \/ \E a \in Actors : aslot[a] = s
            \/ \E t \in Turns : tslot[t] = s
FreeSlots == {s \in Slots : ~InUse(s)}
FreeTurns == {t \in Turns : \/ turn[t] = "free"
                            \/ Over(t) /\ ends[t] = 1 /\ \A a \in Actors : aturn[a] # t}

\* get_or_insert_with(ActiveTurn::default), with more items for its turn state.
GetOrInsert(items) ==
    LET fresh == Min(FreeSlots)
    IN  IF slot # None
        THEN /\ pending' = [pending EXCEPT ![slot] = @ \cup items]
             /\ UNCHANGED <<slot, deferred>>
        ELSE /\ FreeSlots # {}
             /\ slot' = fresh
             /\ pending' = [pending EXCEPT ![fresh] = items]
             /\ deferred' = [deferred EXCEPT ![fresh] = FALSE]

TriggerPending == mailbox \cap Trigger # {}
AcceptsMail == slot = None \/ ~deferred[slot]
TurnPending == IF slot = None THEN {} ELSE pending[slot]

\* get_pending_input empties the active turn's queue, and the mailbox unless
\* mail is left for the next turn.  Without an active turn mail is taken too.
PendingInput == TurnPending \cup (IF AcceptsMail THEN mailbox ELSE {})
TakePendingInput ==
    /\ pending' = [s \in Slots |-> IF s = slot THEN {} ELSE pending[s]]
    /\ mailbox' = IF AcceptsMail THEN {} ELSE mailbox

\* spawn_task aborts with TurnAbortReason::Replaced and has an input for the
\* new turn; whoever has none interrupts.
Replaces(a) == given[a] # {}

\* An actor on its way to install a task: it has the place reserved, or
\* has emptied it for its own turn.
Starts(a) == pc[a] \in Starting \/ (pc[a] \in {"abort", "clear"} /\ Replaces(a))

\* An actor goes on.  To start a turn while another actor starts one, or to
\* take the place from it, contends with it.
Goto(a, to) ==
    /\ pc' = [pc EXCEPT ![a] = to]
    /\ contended' = \/ contended
                    \/ /\ to \in Starting \/ pc[a] = "take"
                       /\ \E b \in Actors \ {a} : Starts(b)

\* An actor lets go of the turn and the turn state it worked on.
Done(a, to) ==
    /\ Goto(a, to)
    /\ aturn' = [aturn EXCEPT ![a] = None]
    /\ aslot' = [aslot EXCEPT ![a] = None]

-----------------------------------------------------------------------------
(* Submissions.                                                            *)

\* user_input_or_turn_inner: steer_input, or a new turn when no task is active.
UserInput(u) ==
    /\ pc["loop"] = "ready" /\ u \notin sent
    /\ sent' = sent \cup {u}
    /\ IF task # None
       THEN /\ pending' = [pending EXCEPT ![slot] = @ \cup {u}]
            /\ deferred' = [deferred EXCEPT ![slot] = FALSE]
            /\ UNCHANGED <<actorVars, contended>>
       ELSE /\ Goto("loop", "take")
            /\ given' = [given EXCEPT !["loop"] = {u}]
            /\ UNCHANGED <<pending, deferred, aturn, aslot, held>>
    /\ UNCHANGED <<activeVars, mailbox, taskVars, recorded, cleared, countVars, overwritten>>

inter_agent_communication(m) ==
    /\ pc["loop"] = "ready" /\ m \notin sent
    /\ sent' = sent \cup {m}
    /\ mailbox' = mailbox \cup {m}
    /\ Goto("loop", IF m \in Trigger THEN "wake" ELSE "ready")
    /\ UNCHANGED <<activeVars, pending, deferred, taskVars, aturn, aslot, given, held,
                   recorded, cleared, countVars, overwritten>>

interrupt_task ==
    /\ pc["loop"] = "ready" /\ aborts < MaxAborts
    /\ aborts' = aborts + 1
    /\ Goto("loop", "take")
    /\ UNCHANGED <<activeVars, queueVars, taskVars, aturn, aslot, given, held, itemVars, idles,
                   overwritten>>

-----------------------------------------------------------------------------
(* abort_all_tasks and abort_turn_if_active.                               *)

\* The ActiveTurn leaves with its task, whose token is cancelled.
TakeTask(a) ==
    /\ slot' = None /\ task' = None
    /\ cancelled' = [cancelled EXCEPT ![task] = TRUE]
    /\ aturn' = [aturn EXCEPT ![a] = task]
    /\ aslot' = [aslot EXCEPT ![a] = slot]
    /\ Goto(a, "abort")

\* take_active_turn, also of a reservation or of a turn that is finishing.
take_active_turn(a) ==
    /\ pc[a] = "take"
    /\ IF task # None
       THEN TakeTask(a)
       ELSE /\ slot' = None
            /\ Goto(a, IF Replaces(a) THEN "drain" ELSE "ready")
            /\ UNCHANGED <<task, cancelled, aturn, aslot>>
    /\ UNCHANGED <<queueVars, turn, input, tslot, ends, given, held, itemVars, countVars,
                   overwritten>>

abort_turn_if_active(t) ==
    /\ pc["guardian"] = "ready" /\ aborts < MaxAborts
    /\ task = t
    /\ aborts' = aborts + 1
    /\ TakeTask("guardian")
    /\ UNCHANGED <<queueVars, turn, input, tslot, ends, given, held, itemVars, idles,
                   overwritten>>

\* Mutant: a task that ended within the grace period is not reported.
AbortEnded(a) ==
    LET t == aturn[a]
    IN  /\ pc[a] = "abort"
        /\ turn' = [turn EXCEPT ![t] = IF @ = "ended" THEN @ ELSE "killed"]
        /\ ends' = [ends EXCEPT ![t] = IF turn[t] = "ended" THEN @ ELSE @ + 1]
        /\ cleared' = cleared \cup input[t]
        /\ input' = [input EXCEPT ![t] = {}]
        /\ Goto(a, "clear")
        /\ UNCHANGED <<activeVars, queueVars, cancelled, tslot, aturn, aslot, given, held,
                       sent, recorded, countVars, overwritten>>

\* The task is done or the grace period is over; then TurnAborted.
handle_task_abort(a) ==
    LET t == aturn[a]
    IN  /\ pc[a] = "abort"
        /\ turn' = [turn EXCEPT ![t] = IF @ = "ended" THEN @ ELSE "killed"]
        /\ ends' = [ends EXCEPT ![t] = @ + 1]
        /\ cleared' = cleared \cup input[t]
        /\ input' = [input EXCEPT ![t] = {}]
        /\ Goto(a, "clear")
        /\ UNCHANGED <<activeVars, queueVars, cancelled, tslot, aturn, aslot, given, held,
                       sent, recorded, countVars, overwritten>>

\* Mutant: the turn that replaces an aborted one is not started.
ClearAndWake(a) ==
    /\ pc[a] = "clear"
    /\ cleared' = cleared \cup pending[aslot[a]]
    /\ pending' = [pending EXCEPT ![aslot[a]] = {}]
    /\ Done(a, "wake")
    /\ UNCHANGED <<activeVars, deferred, mailbox, taskVars, given, held, sent, recorded,
                   countVars, overwritten>>

\* clear_pending; after an interrupt pending work may start a turn.
clear_pending(a) ==
    /\ pc[a] = "clear"
    /\ cleared' = cleared \cup pending[aslot[a]]
    /\ pending' = [pending EXCEPT ![aslot[a]] = {}]
    /\ Done(a, IF Replaces(a) THEN "drain" ELSE "wake")
    /\ UNCHANGED <<activeVars, deferred, mailbox, taskVars, given, held, sent, recorded,
                   countVars, overwritten>>

-----------------------------------------------------------------------------
(* maybe_start_turn_for_pending_work.                                      *)

HasTriggerMail(a) ==
    /\ pc[a] = "wake"
    /\ Goto(a, IF TriggerPending THEN "reserve" ELSE "ready")
    /\ UNCHANGED <<activeVars, queueVars, taskVars, aturn, aslot, given, held, itemVars,
                   countVars, overwritten>>

Reserve(a, from, to) ==
    /\ pc[a] = from
    /\ IF slot # None
       THEN Goto(a, "ready") /\ UNCHANGED <<slot, pending, deferred, aslot>>
       ELSE /\ GetOrInsert({})
            /\ aslot' = [aslot EXCEPT ![a] = slot']
            /\ Goto(a, to)
    /\ UNCHANGED <<task, mailbox, taskVars, aturn, given, held, itemVars, countVars,
                   overwritten>>

ReserveForMail(a) == Reserve(a, "reserve", "drain")

-----------------------------------------------------------------------------
(* try_start_turn_if_idle.                                                 *)

\* emit_thread_idle_lifecycle_if_idle, which a task or the app server calls:
\* the extension has work to continue.
ThreadIdle ==
    /\ pc["extension"] = "ready" /\ idles < MaxIdle
    /\ slot = None /\ ~TriggerPending
    /\ idles' = idles + 1
    /\ Goto("extension", "check")
    /\ UNCHANGED <<activeVars, queueVars, taskVars, aturn, aslot, given, held, itemVars,
                   aborts, overwritten>>

IdleCheck(a) ==
    /\ pc[a] = "check"
    /\ Goto(a, IF TriggerPending THEN "ready" ELSE "claim")
    /\ UNCHANGED <<activeVars, queueVars, taskVars, aturn, aslot, given, held, itemVars,
                   countVars, overwritten>>

ReserveIdle(a) == Reserve(a, "claim", "recheck")

\* clear_reserved_idle_turn.
ClearReserved(a) == slot' = IF slot = aslot[a] /\ task = None THEN None ELSE slot

\* Mail came first, or the session is in Plan mode.
IdleRecheck(a) ==
    /\ pc[a] = "recheck"
    /\ \/ ClearReserved(a) /\ Done(a, "wake")
       \/ ~TriggerPending /\ Goto(a, "hold") /\ UNCHANGED <<slot, aturn, aslot>>
    /\ UNCHANGED <<task, queueVars, taskVars, given, held, itemVars, countVars,
                   overwritten>>

StillReserved(a) ==
    /\ pc[a] = "hold"
    /\ IF slot = aslot[a] /\ task = None
       THEN Goto(a, "drain") /\ UNCHANGED <<aturn, aslot>>
       ELSE Done(a, "ready")
    /\ UNCHANGED <<activeVars, queueVars, taskVars, given, held, itemVars, countVars,
                   overwritten>>

-----------------------------------------------------------------------------
(* start_task.                                                             *)

\* get_pending_input, of whatever turn is active.
DrainPending(a) ==
    LET t == Min(FreeTurns)
    IN  /\ pc[a] = "drain" /\ FreeTurns # {}
        /\ held' = [held EXCEPT ![a] = PendingInput]
        /\ TakePendingInput
        /\ aturn' = [aturn EXCEPT ![a] = t]
        /\ turn' = [turn EXCEPT ![t] = "starting"]
        /\ input' = [input EXCEPT ![t] = given[a]]
        /\ cancelled' = [cancelled EXCEPT ![t] = FALSE]
        /\ ends' = [ends EXCEPT ![t] = 0]
        /\ given' = [given EXCEPT ![a] = {}]
        /\ Goto(a, "join")
        /\ UNCHANGED <<activeVars, deferred, tslot, aslot, itemVars, countVars,
                       overwritten>>

\* The pending items go to the turn state; then the lifecycle contributors run.
JoinTurnState(a) ==
    /\ pc[a] = "join"
    /\ GetOrInsert(held[a])
    /\ held' = [held EXCEPT ![a] = {}]
    /\ aslot' = [aslot EXCEPT ![a] = slot']
    /\ Goto(a, "install")
    /\ UNCHANGED <<task, mailbox, taskVars, aturn, given, itemVars, countVars,
                   overwritten>>

\* The task is spawned and put into active_turn.  Another task there would be
\* dropped, and aborted with its handle.
InstallTask(a) ==
    /\ pc[a] = "install"
    /\ GetOrInsert({})
    /\ task' = aturn[a]
    /\ turn' = [t \in Turns |-> CASE t = aturn[a] -> "run"
                                  [] t # aturn[a] /\ t = task -> "killed"
                                  [] OTHER -> turn[t]]
    /\ overwritten' = (overwritten \/ task # None)
    /\ Done(a, "ready")
    /\ UNCHANGED <<mailbox, input, cancelled, tslot, ends, given, held, itemVars, countVars>>

-----------------------------------------------------------------------------
(* The task of a turn: RegularTask::run, run_turn and on_task_finished.    *)

TGoto(t, to) == turn' = [turn EXCEPT ![t] = to]

\* run_hooks_and_record_inputs: a hook may refuse an item, and an abort that
\* kills the task meanwhile drops those that are left.
Record(items) ==
    \E refused \in SUBSET items : /\ recorded' = recorded \cup (items \ refused)
                                  /\ cleared' = cleared \cup refused

\* The turn's own input is recorded, or the turn fails before.
RecordInput(t) ==
    /\ turn[t] = "run" /\ input[t] # {}
    /\ input' = [input EXCEPT ![t] = {}]
    /\ Record(input[t])
    /\ UNCHANGED <<activeVars, queueVars, turn, cancelled, tslot, ends, actorVars, sent, countVars,
                   contended, overwritten>>

\* Before each request to the model.
RecordPending(t) ==
    /\ turn[t] = "run" /\ input[t] = {} /\ PendingInput # {}
    /\ Record(PendingInput)
    /\ TakePendingInput
    /\ UNCHANGED <<activeVars, deferred, taskVars, actorVars, sent, countVars, contended,
                   overwritten>>

\* The answer is out: mail waits for the next turn, unless the user steered.
defer_mailbox_delivery_to_next_turn(t) ==
    /\ turn[t] = "run" /\ input[t] = {} /\ task = t /\ pending[slot] = {}
    /\ deferred' = [deferred EXCEPT ![slot] = TRUE]
    /\ UNCHANGED <<activeVars, pending, mailbox, taskVars, actorVars, itemVars, countVars,
                   contended, overwritten>>

\* A tool call after it: mail may join the turn again.
accept_mailbox_delivery_for_current_turn(t) ==
    /\ turn[t] = "run" /\ input[t] = {} /\ task = t /\ deferred[slot]
    /\ deferred' = [deferred EXCEPT ![slot] = FALSE]
    /\ UNCHANGED <<activeVars, pending, mailbox, taskVars, actorVars, itemVars, countVars,
                   contended, overwritten>>

\* No pending input: the task returns and the rollout is flushed.
RunEnds(t) ==
    /\ turn[t] = "run" /\ input[t] = {} /\ PendingInput = {}
    /\ TGoto(t, "flush")
    /\ UNCHANGED <<activeVars, queueVars, input, cancelled, tslot, ends, actorVars, itemVars,
                   countVars, contended, overwritten>>

\* The rollout is flushed; a cancelled task leaves the rest to its canceller.
Flushed(t) ==
    /\ turn[t] = "flush"
    /\ TGoto(t, IF cancelled[t] THEN "ended" ELSE "finish")
    /\ UNCHANGED <<activeVars, queueVars, input, cancelled, tslot, ends, actorVars, itemVars,
                   countVars, contended, overwritten>>

\* Mutant: the task is looked at where it should be taken.
PeekFinished(t) ==
    /\ turn[t] = "finish"
    /\ IF task = None
       THEN turn' = [turn EXCEPT ![t] = "ended"] /\ UNCHANGED <<tslot, contended>>
       ELSE /\ tslot' = [tslot EXCEPT ![t] = slot]
            /\ contended' = (contended \/ task # t)
            /\ turn' = [turn EXCEPT ![t] = "record"]
    /\ UNCHANGED <<activeVars, queueVars, input, cancelled, ends, actorVars, itemVars, countVars,
                   overwritten>>

\* on_task_finished: the task of the active turn is taken, without a look at
\* whose it is; the ActiveTurn stays.
TakeFinished(t) ==
    /\ turn[t] = "finish"
    /\ IF task = None
       THEN TGoto(t, "ended") /\ UNCHANGED <<task, tslot, contended>>
       ELSE /\ task' = None
            /\ tslot' = [tslot EXCEPT ![t] = slot]
            /\ contended' = (contended \/ task # t)
            /\ TGoto(t, "record")
    /\ UNCHANGED <<slot, queueVars, input, cancelled, ends, actorVars, itemVars, countVars,
                   overwritten>>

\* Mutant: what was steered since the last request is left in the queue.
LeaveSteered(t) ==
    /\ turn[t] = "record"
    /\ turn' = [turn EXCEPT ![t] = "complete"]
    /\ UNCHANGED <<activeVars, queueVars, input, cancelled, tslot, ends, actorVars, itemVars,
                   countVars, contended, overwritten>>

\* What was steered since the last request is recorded.
RecordSteered(t) ==
    /\ turn[t] = "record"
    /\ Record(pending[tslot[t]])
    /\ pending' = [pending EXCEPT ![tslot[t]] = {}]
    /\ TGoto(t, "complete")
    /\ UNCHANGED <<activeVars, deferred, mailbox, input, cancelled, tslot, ends, actorVars, sent,
                   countVars, contended, overwritten>>

TurnComplete(t) ==
    /\ turn[t] = "complete"
    /\ ends' = [ends EXCEPT ![t] = @ + 1]
    /\ TGoto(t, "release")
    /\ UNCHANGED <<activeVars, queueVars, input, cancelled, tslot, actorVars, itemVars, countVars,
                   contended, overwritten>>

\* Mutant: whatever is active is cleared.
ReleaseAny(t) ==
    /\ turn[t] = "release"
    /\ slot' = None /\ task' = None
    /\ tslot' = [tslot EXCEPT ![t] = None]
    /\ turn' = [turn EXCEPT ![t] = "ended"]
    /\ UNCHANGED <<queueVars, input, cancelled, ends, actorVars, itemVars, countVars,
                   contended, overwritten>>

\* The ActiveTurn is cleared if it is still the same and has no task.
Release(t) ==
    /\ turn[t] = "release"
    /\ slot' = IF slot = tslot[t] /\ task = None THEN None ELSE slot
    /\ tslot' = [tslot EXCEPT ![t] = None]
    /\ TGoto(t, "ended")
    /\ UNCHANGED <<task, queueVars, input, cancelled, ends, actorVars, itemVars, countVars,
                   contended, overwritten>>

-----------------------------------------------------------------------------
Submission == \/ \E u \in Inputs : UserInput(u)
              \/ \E m \in Mails : inter_agent_communication(m)
              \/ interrupt_task
Abort(a) == take_active_turn(a) \/ handle_task_abort(a) \/ clear_pending(a)
Idle(a) == IdleCheck(a) \/ ReserveIdle(a) \/ IdleRecheck(a) \/ StillReserved(a)
Start(a) == \/ HasTriggerMail(a) \/ ReserveForMail(a)
            \/ DrainPending(a) \/ JoinTurnState(a) \/ InstallTask(a)
Actor(a) == Abort(a) \/ Idle(a) \/ Start(a)
Run(t) == RecordInput(t) \/ RecordPending(t) \/ RunEnds(t)
Answer(t) == defer_mailbox_delivery_to_next_turn(t) \/ accept_mailbox_delivery_for_current_turn(t)
Finish(t) == Flushed(t) \/ TakeFinished(t) \/ RecordSteered(t) \/ TurnComplete(t) \/ Release(t)

Next == \/ Submission
        \/ \E t \in Turns : abort_turn_if_active(t) \/ Run(t) \/ Answer(t) \/ Finish(t)
        \/ ThreadIdle
        \/ \E a \in Actors : Actor(a)

\* The actors and the tasks run, and the model's requests come to an end.
Fairness == /\ \A a \in Actors : WF_vars(Actor(a))
            /\ \A t \in Turns : WF_vars(Run(t)) /\ WF_vars(Finish(t))

Safety == Init /\ [][Next]_vars
Spec == Safety /\ Fairness

-----------------------------------------------------------------------------
(* Properties.                                                             *)

\* Constraint: what follows a contention is not explored.
Uncontended == ~contended

\* A turn that is over was reported once, as complete or as aborted, unless
\* two turns contended for active_turn; and it is never reported twice before.
OneTerminalEvent ==
    ~contended => \A t \in Turns :
        /\ ends[t] <= 1
        /\ Over(t) /\ (\A a \in Actors : aturn[a] # t) => ends[t] = 1

Running(t) == turn[t] \in {"run", "flush", "finish"} /\ ~cancelled[t]

\* Two turns never run at the same time unless they contended for
\* active_turn, and the task that gets steered input is one that still runs.
OneTurnRuns ==
    /\ task # None => Running(task)
    /\ ~contended => \A t \in Turns : Running(t) => t = task

\* What was handed in is queued where somebody will look for it, on its way
\* there, in the history, or was refused by a hook or dropped with its turn.
NothingLost ==
    ~contended =>
        sent \subseteq UNION ({mailbox, recorded, cleared}
                              \cup {pending[s] : s \in {s \in Slots : InUse(s)}}
                              \cup {input[t] : t \in Turns}
                              \cup {given[a] \cup held[a] : a \in Actors})

\* A user's input gets into the history, is refused or is dropped with its turn:
\* it does not wait for ever in a turn that nobody runs any more.
InputSettled ==
    \A u \in Inputs : u \in sent ~> (u \in recorded \cup cleared \/ contended)

\* debug_assert!(turn.task.is_none()): a task is only installed where none is.
NoTaskOverwritten == ~overwritten
==============================================================================
