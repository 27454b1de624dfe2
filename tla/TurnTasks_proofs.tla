-------------------------- MODULE TurnTasks_proofs --------------------------
(***************************************************************************)
(* Safety of TurnTasks, for any sets of inputs, mails, turns and turn      *)
(* states and any number of interrupts.                                    *)
(***************************************************************************)
EXTENDS TurnTasks, TLAPS, NaturalsInduction, WellFoundedInduction

-----------------------------------------------------------------------------
(* The inductive invariant.                                                *)

\* What an actor has in its hands, by where it stands; contended or not.
ActorInv(a) ==
    /\ pc[a] \in {"join", "install"}
       => aturn[a] \in Turns /\ turn[aturn[a]] = "starting" /\ ~cancelled[aturn[a]]
    /\ pc[a] \in {"abort", "clear"} => aturn[a] \in Turns /\ aslot[a] \in Slots
    /\ pc[a] \notin {"join", "install", "abort", "clear"} => aturn[a] = None
    /\ pc[a] \notin Starting \cup {"abort", "clear"} => aslot[a] = None
    /\ given[a] # {} => pc[a] \in {"take", "abort", "clear", "drain"}
    /\ held[a] # {} => pc[a] = "join"
    /\ pc[a] = "abort" => ends[aturn[a]] <= 1
    /\ aturn[a] # None => aturn[a] # task /\ turn[aturn[a]] # "free"
    /\ \A b \in Actors \ {a} : aturn[a] = aturn[b] => aturn[a] = None

\* How often the end of a turn was reported by then.
TurnInv(t) ==
    /\ turn[t] \in {"free", "starting", "run", "flush", "finish", "record", "complete"}
       => ends[t] = 0
    /\ turn[t] = "release" => ends[t] = 1
    /\ turn[t] \in {"record", "complete", "release"} => tslot[t] \in Slots

BaseInv ==
    /\ TypeOK
    /\ \A a \in Actors : ActorInv(a)
    /\ \A t \in Turns : TurnInv(t)
    /\ task # None => Running(task)

Finishing(t) == turn[t] \in {"record", "complete", "release"}

\* An actor on its way to install a task has the place for itself.
StartInv(a) ==
    /\ Starts(a) => task = None /\ \A b \in Actors \ {a} : ~Starts(b)
    /\ pc[a] \in Starting => slot = aslot[a] /\ \A t \in Turns : slot # None => tslot[t] # slot
    /\ pc[a] \in {"abort", "clear"} /\ Replaces(a) => slot = None
    /\ pc[a] \in {"recheck", "hold"} => aslot[a] \in Slots /\ pending[aslot[a]] = {}
    /\ pc[a] = "abort" => turn[aturn[a]] \in {"run", "flush", "finish", "ended"}
                          /\ ends[aturn[a]] = 0
    /\ pc[a] = "clear" => ends[aturn[a]] = 1

\* A turn runs with its task in place or a canceller behind it, and finishes
\* with a turn state of its own.
PlaceInv(t) ==
    /\ Running(t) => t = task
    /\ cancelled[t] /\ turn[t] \in {"run", "flush", "finish"}
       => \E a \in Actors : pc[a] = "abort" /\ aturn[a] = t
    /\ ~Finishing(t) => tslot[t] = None
    /\ turn[t] \in {"complete", "release"} => pending[tslot[t]] = {}
    /\ input[t] # {} => turn[t] \in {"starting", "run"}
    /\ task # None => tslot[t] # slot

\* An ActiveTurn without a task is somebody's.
SlotInv ==
    slot # None /\ task = None
    => \/ \E a \in Actors : pc[a] \in Starting
       \/ \E t \in Turns : Finishing(t) /\ tslot[t] = slot

OwnInv ==
    /\ \A a \in Actors : StartInv(a)
    /\ \A t \in Turns : PlaceInv(t)
    /\ SlotInv

IInv == BaseInv /\ (~contended => OwnInv /\ OneTerminalEvent) /\ NothingLost

USE TurnAssumption DEF None

-----------------------------------------------------------------------------
(* Turns and turn states.                                                  *)

(* A set of numbers that is not empty has a least one.                     *)
LEMMA MinIn ==
    ASSUME NEW S \in SUBSET Nat, S # {}
    PROVE  Min(S) \in S
<1>1. PICK m \in S : \A k \in S : ~(<<k, m>> \in OpToRel(<, Nat))
  BY NatLessThanWellFounded, WFMin
<1>2. \A k \in S : ~(k < m)
  BY <1>1 DEF OpToRel
<1>3. \A k \in S : m <= k
  BY <1>2
<1>. QED  BY <1>3 DEF Min

(* get_or_insert_with: the active turn state stays, or a fresh one comes   *)
(* with nothing but the items.                                             *)
LEMMA Inserts ==
    ASSUME TypeOK, NEW items \in SUBSET Items, GetOrInsert(items)
    PROVE  /\ slot' \in Slots
           /\ slot # None => slot' = slot /\ pending'[slot'] = pending[slot] \cup items
           /\ slot = None => ~InUse(slot') /\ pending'[slot'] = items
           /\ \A s \in Slots \ {slot'} : pending'[s] = pending[s]
           /\ pending' \in [Slots -> SUBSET Items]
           /\ deferred' \in [Slots -> BOOLEAN]
<1>. USE DEF TypeOK
<1>1. CASE slot # None
  <2>1. slot \in Slots /\ pending' = [pending EXCEPT ![slot] = @ \cup items] /\ slot' = slot
    BY <1>1 DEF GetOrInsert
  <2>2. deferred' \in [Slots -> BOOLEAN]
    BY <1>1 DEF GetOrInsert
  <2>. QED  BY <1>1, <2>1, <2>2
<1>2. CASE slot = None
  <2>. DEFINE fresh == Min(FreeSlots)
  <2>1. fresh \in FreeSlots
    BY <1>2, MinIn DEF GetOrInsert, FreeSlots
  <2>2. /\ slot' = fresh /\ pending' = [pending EXCEPT ![fresh] = items]
        /\ deferred' = [deferred EXCEPT ![fresh] = FALSE]
    BY <1>2 DEF GetOrInsert
  <2>. HIDE DEF fresh
  <2>3. fresh \in Slots /\ ~InUse(fresh)
    BY <2>1 DEF FreeSlots
  <2>4. deferred' \in [Slots -> BOOLEAN]
    BY <2>2, <2>3
  <2>. QED  BY <1>2, <2>2, <2>3, <2>4
<1>. QED  BY <1>1, <1>2

(* A new turn is one that nobody works on, or never was used.              *)
LEMMA FreshTurn ==
    ASSUME FreeTurns # {}
    PROVE  /\ Min(FreeTurns) \in Turns
           /\ \/ turn[Min(FreeTurns)] = "free"
              \/ /\ turn[Min(FreeTurns)] \in {"ended", "killed"} /\ ends[Min(FreeTurns)] = 1
                 /\ \A a \in Actors : aturn[a] # Min(FreeTurns)
<1>1. FreeTurns \in SUBSET Nat
  BY DEF FreeTurns
<1>2. Min(FreeTurns) \in FreeTurns
  BY <1>1, MinIn
<1>. HIDE DEF Min
<1>. QED  BY <1>2 DEF FreeTurns, Over

-----------------------------------------------------------------------------
(* Types.                                                                  *)

Flags ==
    /\ cancelled \in [Turns -> BOOLEAN] /\ deferred \in [Slots -> BOOLEAN]
    /\ contended \in BOOLEAN /\ overwritten \in BOOLEAN

(* Every step keeps the flags Boolean.                                     *)
LEMMA FlagsNext ==
    ASSUME Flags, [Next]_vars
    PROVE  Flags'
<1>. USE DEF Flags, Goto, Done, TakeTask, Reserve, GetOrInsert, taskVars, queueVars
<1>1. ASSUME NEW u \in Inputs, UserInput(u) PROVE Flags'
  BY <1>1 DEF UserInput
<1>2. ASSUME NEW m \in Mails, inter_agent_communication(m) PROVE Flags'
  BY <1>2 DEF inter_agent_communication
<1>3. CASE interrupt_task
  BY <1>3 DEF interrupt_task
<1>4. CASE ThreadIdle
  BY <1>4 DEF ThreadIdle
<1>5. ASSUME NEW a \in Actors, take_active_turn(a) PROVE Flags'
  BY <1>5 DEF take_active_turn
<1>6. ASSUME NEW a \in Actors,
             \/ handle_task_abort(a) \/ clear_pending(a) \/ HasTriggerMail(a)
             \/ IdleCheck(a)
      PROVE  Flags'
  BY <1>6 DEF handle_task_abort, clear_pending, HasTriggerMail, IdleCheck
<1>7. ASSUME NEW a \in Actors, ReserveForMail(a) \/ ReserveIdle(a) PROVE Flags'
  BY <1>7 DEF ReserveForMail, ReserveIdle
<1>8. ASSUME NEW a \in Actors, IdleRecheck(a) \/ StillReserved(a) PROVE Flags'
  BY <1>8 DEF IdleRecheck, StillReserved
<1>9. ASSUME NEW a \in Actors, DrainPending(a) PROVE Flags'
  BY <1>9 DEF DrainPending
<1>10. ASSUME NEW a \in Actors, JoinTurnState(a) \/ InstallTask(a) PROVE Flags'
  BY <1>10 DEF JoinTurnState, InstallTask
<1>11. ASSUME NEW t \in Turns, abort_turn_if_active(t) PROVE Flags'
  BY <1>11 DEF abort_turn_if_active
<1>12. ASSUME NEW t \in Turns, RecordInput(t) \/ RecordPending(t) \/ RunEnds(t) PROVE Flags'
  BY <1>12 DEF RecordInput, RecordPending, RunEnds
<1>13. ASSUME NEW t \in Turns,
             \/ defer_mailbox_delivery_to_next_turn(t)
             \/ accept_mailbox_delivery_for_current_turn(t)
      PROVE  Flags'
  BY <1>13 DEF defer_mailbox_delivery_to_next_turn,
               accept_mailbox_delivery_for_current_turn
<1>14. ASSUME NEW t \in Turns,
             \/ Flushed(t) \/ TakeFinished(t) \/ RecordSteered(t) \/ TurnComplete(t)
             \/ Release(t)
      PROVE  Flags'
  BY <1>14 DEF Flushed, TakeFinished, RecordSteered, TurnComplete, Release
<1>15. CASE UNCHANGED vars
  BY <1>15 DEF vars
<1>. QED
  BY <1>1, <1>2, <1>3, <1>4, <1>5, <1>6, <1>7, <1>8, <1>9, <1>10, <1>11, <1>12, <1>13,
     <1>14, <1>15
  DEF Next, Submission, Abort, Idle, Start, Actor, Run, Answer, Finish

Places ==
    /\ pc \in [Actors -> Starting \cup {"ready", "take", "abort", "clear", "wake", "reserve",
                                        "check", "claim"}]
    /\ aborts \in 0..MaxAborts /\ idles \in 0..MaxIdle

(* Every step takes an actor to one of its places, within the bounds.      *)
LEMMA PlacesNext ==
    ASSUME Places, [Next]_vars
    PROVE  Places'
<1>. USE DEF Places, Starting, Goto, Done, TakeTask, Reserve, actorVars, countVars
<1>1. ASSUME NEW u \in Inputs, UserInput(u) PROVE Places'
  BY <1>1 DEF UserInput, Actors
<1>2. ASSUME NEW m \in Mails, inter_agent_communication(m) PROVE Places'
  BY <1>2 DEF inter_agent_communication, Actors
<1>3. CASE interrupt_task
  BY <1>3 DEF interrupt_task, Actors
<1>4. CASE ThreadIdle
  BY <1>4 DEF ThreadIdle, Actors
<1>5. ASSUME NEW a \in Actors, take_active_turn(a) PROVE Places'
  BY <1>5 DEF take_active_turn
<1>6. ASSUME NEW a \in Actors,
             \/ handle_task_abort(a) \/ clear_pending(a) \/ HasTriggerMail(a)
             \/ IdleCheck(a)
      PROVE  Places'
  BY <1>6 DEF handle_task_abort, clear_pending, HasTriggerMail, IdleCheck
<1>7. ASSUME NEW a \in Actors, ReserveForMail(a) \/ ReserveIdle(a) PROVE Places'
  BY <1>7 DEF ReserveForMail, ReserveIdle
<1>8. ASSUME NEW a \in Actors, IdleRecheck(a) \/ StillReserved(a) PROVE Places'
  BY <1>8 DEF IdleRecheck, StillReserved
<1>9. ASSUME NEW a \in Actors, DrainPending(a) PROVE Places'
  BY <1>9 DEF DrainPending
<1>10. ASSUME NEW a \in Actors, JoinTurnState(a) \/ InstallTask(a) PROVE Places'
  BY <1>10 DEF JoinTurnState, InstallTask
<1>11. ASSUME NEW t \in Turns, abort_turn_if_active(t) PROVE Places'
  BY <1>11 DEF abort_turn_if_active, Actors
<1>12. ASSUME NEW t \in Turns, RecordInput(t) \/ RecordPending(t) \/ RunEnds(t) PROVE Places'
  BY <1>12 DEF RecordInput, RecordPending, RunEnds
<1>13. ASSUME NEW t \in Turns,
             \/ defer_mailbox_delivery_to_next_turn(t)
             \/ accept_mailbox_delivery_for_current_turn(t)
      PROVE  Places'
  BY <1>13 DEF defer_mailbox_delivery_to_next_turn,
               accept_mailbox_delivery_for_current_turn
<1>14. ASSUME NEW t \in Turns,
             \/ Flushed(t) \/ TakeFinished(t) \/ RecordSteered(t) \/ TurnComplete(t)
             \/ Release(t)
      PROVE  Places'
  BY <1>14 DEF Flushed, TakeFinished, RecordSteered, TurnComplete, Release
<1>15. CASE UNCHANGED vars
  BY <1>15 DEF vars
<1>. QED
  BY <1>1, <1>2, <1>3, <1>4, <1>5, <1>6, <1>7, <1>8, <1>9, <1>10, <1>11, <1>12, <1>13,
     <1>14, <1>15
  DEF Next, Submission, Abort, Idle, Start, Actor, Run, Answer, Finish

(* Every step keeps the types.                                             *)
LEMMA TypeNext ==
    ASSUME BaseInv, [Next]_vars
    PROVE  TypeOK'
<1>. DEFINE Rest ==
       /\ slot \in Slots \cup {None} /\ task \in Turns \cup {None}
       /\ task # None => slot # None /\ turn[task] \in {"run", "flush", "finish"}
       /\ pending \in [Slots -> SUBSET Items]
       /\ mailbox \subseteq Mails
       /\ turn \in [Turns -> {"free", "starting", "run", "flush", "finish", "record",
                              "complete", "release", "ended", "killed"}]
       /\ input \in [Turns -> SUBSET Items]
       /\ tslot \in [Turns -> Slots \cup {None}] /\ ends \in [Turns -> 0..2]
       /\ aturn \in [Actors -> Turns \cup {None}] /\ aslot \in [Actors -> Slots \cup {None}]
       /\ given \in [Actors -> SUBSET Items] /\ held \in [Actors -> SUBSET Items]
       /\ sent \subseteq Items /\ recorded \subseteq Items /\ cleared \subseteq Items
<1>f. Flags /\ Flags' /\ Places /\ Places'
  BY FlagsNext, PlacesNext DEF BaseInv, TypeOK, Flags, Places
<1>r. /\ TypeOK /\ Rest /\ (\A a \in Actors : ActorInv(a)) /\ (\A t \in Turns : TurnInv(t))
      /\ task # None => ~cancelled[task]
  BY DEF BaseInv, TypeOK, Running
<1>i. Items = Inputs \cup Mails /\ Mails \subseteq Items /\ PendingInput \subseteq Items
  BY <1>r DEF Items, PendingInput, TurnPending, TypeOK
<1>. SUFFICES Rest'
  BY <1>f DEF Flags, Places, TypeOK
<1>. USE <1>r, <1>i DEF Done, TakeTask, TGoto,
          activeVars, queueVars, taskVars, actorVars, itemVars, countVars
<1>1. ASSUME NEW u \in Inputs, UserInput(u) PROVE Rest'
  <2>. USE DEF UserInput, Actors
  <2>1. u \in Items /\ "loop" \in Actors
    OBVIOUS
  <2>2. pending' \in [Slots -> SUBSET Items]
    <3>1. CASE task # None
      <4>1. pending[slot] \cup {u} \in SUBSET Items
        BY <2>1, <3>1
      <4>2. pending' = [pending EXCEPT ![slot] = pending[slot] \cup {u}]
        BY <1>1, <3>1
      <4>. QED  BY <4>1, <4>2
    <3>2. CASE task = None
      BY <1>1, <3>2
    <3>. QED  BY <3>1, <3>2
  <2>3. given' \in [Actors -> SUBSET Items]
    <3>1. given' = given \/ given' = [given EXCEPT !["loop"] = {u}]
      BY <1>1
    <3>. QED  BY <2>1, <3>1
  <2>. QED  BY <1>1, <2>1, <2>2, <2>3
<1>2. ASSUME NEW m \in Mails, inter_agent_communication(m) PROVE Rest'
  BY <1>2 DEF inter_agent_communication, Actors
<1>3. CASE interrupt_task
  BY <1>3 DEF interrupt_task, Actors
<1>4. CASE ThreadIdle
  BY <1>4 DEF ThreadIdle
<1>5. ASSUME NEW a \in Actors, take_active_turn(a) PROVE Rest'
  <2>1. slot' = None /\ task' = None
    BY <1>5 DEF take_active_turn
  <2>2. /\ aturn' \in [Actors -> Turns \cup {None}] /\ aslot' \in [Actors -> Slots \cup {None}]
        /\ UNCHANGED <<pending, mailbox, turn, input, tslot, ends, given, held, itemVars>>
    BY <1>5 DEF take_active_turn
  <2>. QED  BY <2>1, <2>2
<1>6. ASSUME NEW a \in Actors, handle_task_abort(a) PROVE Rest'
  <2>1. aturn[a] \in Turns /\ ends[aturn[a]] \in 0..1 /\ input[aturn[a]] \subseteq Items
    <3>1. aturn[a] \in Turns /\ ends[aturn[a]] <= 1
      BY <1>6 DEF handle_task_abort, ActorInv
    <3>2. ends[aturn[a]] \in 0..2 /\ input[aturn[a]] \subseteq Items
      BY <3>1
    <3>. QED  BY <3>1, <3>2
  <2>2. ends' \in [Turns -> 0..2]
    BY <1>6, <2>1 DEF handle_task_abort
  <2>3. input' \in [Turns -> SUBSET Items] /\ cleared' \subseteq Items
    BY <1>6, <2>1 DEF handle_task_abort
  <2>4. task # None => turn'[task] = turn[task]
    BY <1>6, <2>1 DEF handle_task_abort, ActorInv
  <2>. QED  BY <1>6, <2>1, <2>2, <2>3, <2>4 DEF handle_task_abort
<1>7. ASSUME NEW a \in Actors, clear_pending(a) PROVE Rest'
  BY <1>7 DEF clear_pending, ActorInv
<1>8. ASSUME NEW a \in Actors, HasTriggerMail(a) \/ IdleCheck(a) PROVE Rest'
  <2>1. UNCHANGED <<activeVars, queueVars, taskVars, aturn, aslot, given, held, itemVars>>
    BY <1>8 DEF HasTriggerMail, IdleCheck
  <2>. QED  BY <2>1
<1>9. ASSUME NEW a \in Actors, ReserveForMail(a) \/ ReserveIdle(a) PROVE Rest'
  <2>1. \E from, to \in {"reserve", "claim", "drain", "recheck"} : Reserve(a, from, to)
    BY <1>9 DEF ReserveForMail, ReserveIdle
  <2>2. PICK from \in {"reserve", "claim", "drain", "recheck"},
             to \in {"reserve", "claim", "drain", "recheck"} : Reserve(a, from, to)
    BY <2>1
  <2>3. CASE slot # None
    BY <2>2, <2>3 DEF Reserve
  <2>4. CASE slot = None
    <3>1. GetOrInsert({}) /\ aslot' = [aslot EXCEPT ![a] = slot'] /\ Goto(a, to)
      BY <2>2, <2>4 DEF Reserve
    <3>2. /\ slot' \in Slots /\ pending' \in [Slots -> SUBSET Items]
      BY <3>1, Inserts
    <3>. QED  BY <2>2, <3>1, <3>2 DEF Reserve
  <2>. QED  BY <2>3, <2>4
<1>10. ASSUME NEW a \in Actors, IdleRecheck(a) \/ StillReserved(a) PROVE Rest'
  <2>1. /\ slot' \in {slot, None}
        /\ UNCHANGED <<task, queueVars, taskVars, given, held, itemVars>>
        /\ task # None => UNCHANGED slot
    BY <1>10 DEF IdleRecheck, StillReserved, ClearReserved
  <2>2. /\ aturn' \in [Actors -> Turns \cup {None}] /\ aslot' \in [Actors -> Slots \cup {None}]
    BY <1>10 DEF IdleRecheck, StillReserved
  <2>. QED  BY <2>1, <2>2
<1>11. ASSUME NEW a \in Actors, DrainPending(a) PROVE Rest'
  <2>. DEFINE n == Min(FreeTurns)
  <2>1. n \in Turns /\ turn[n] \notin {"run", "flush", "finish"}
    BY <1>11, FreshTurn DEF DrainPending
  <2>2. /\ held' = [held EXCEPT ![a] = PendingInput] /\ TakePendingInput
        /\ aturn' = [aturn EXCEPT ![a] = n] /\ turn' = [turn EXCEPT ![n] = "starting"]
        /\ input' = [input EXCEPT ![n] = given[a]] /\ ends' = [ends EXCEPT ![n] = 0]
        /\ given' = [given EXCEPT ![a] = {}]
    BY <1>11 DEF DrainPending
  <2>. HIDE DEF n
  <2>3. pending' \in [Slots -> SUBSET Items] /\ mailbox' \subseteq Mails
    BY <2>2 DEF TakePendingInput
  <2>. QED  BY <1>11, <2>1, <2>2, <2>3 DEF DrainPending
<1>12. ASSUME NEW a \in Actors, JoinTurnState(a) PROVE Rest'
  <2>1. GetOrInsert(held[a]) /\ held[a] \in SUBSET Items
    BY <1>12 DEF JoinTurnState
  <2>2. /\ slot' \in Slots /\ pending' \in [Slots -> SUBSET Items]
    BY <2>1, Inserts
  <2>. QED  BY <1>12, <2>2 DEF JoinTurnState
<1>13. ASSUME NEW a \in Actors, InstallTask(a) PROVE Rest'
  <2>1. GetOrInsert({}) /\ aturn[a] \in Turns
    BY <1>13 DEF InstallTask, ActorInv
  <2>2. /\ slot' \in Slots /\ pending' \in [Slots -> SUBSET Items]
    BY <2>1, Inserts
  <2>. QED  BY <1>13, <2>1, <2>2 DEF InstallTask
<1>14. ASSUME NEW t \in Turns, abort_turn_if_active(t) PROVE Rest'
  BY <1>14 DEF abort_turn_if_active, Actors
<1>15. ASSUME NEW t \in Turns, RecordInput(t) PROVE Rest'
  BY <1>15 DEF RecordInput, Record
<1>16. ASSUME NEW t \in Turns, RecordPending(t) PROVE Rest'
  <2>1. pending' \in [Slots -> SUBSET Items] /\ mailbox' \subseteq Mails
    BY <1>16 DEF RecordPending, TakePendingInput
  <2>. QED  BY <1>16, <2>1 DEF RecordPending, Record
<1>17. ASSUME NEW t \in Turns,
             \/ RunEnds(t) \/ Flushed(t) \/ TakeFinished(t) \/ Release(t)
      PROVE  Rest'
  <2>1. task' # None => task' = task /\ turn'[task] \in {"run", "flush", "finish"}
    BY <1>17 DEF RunEnds, Flushed, TakeFinished, Release
  <2>. QED  BY <1>17, <2>1 DEF RunEnds, Flushed, TakeFinished, Release
<1>18. ASSUME NEW t \in Turns, TurnComplete(t) PROVE Rest'
  <2>1. ends[t] = 0
    BY <1>18 DEF TurnComplete, TurnInv
  <2>. QED  BY <1>18, <2>1 DEF TurnComplete
<1>19. ASSUME NEW t \in Turns,
             \/ defer_mailbox_delivery_to_next_turn(t)
             \/ accept_mailbox_delivery_for_current_turn(t)
      PROVE  Rest'
  BY <1>19 DEF defer_mailbox_delivery_to_next_turn,
               accept_mailbox_delivery_for_current_turn
<1>20. ASSUME NEW t \in Turns, RecordSteered(t) PROVE Rest'
  <2>1. tslot[t] \in Slots /\ pending[tslot[t]] \subseteq Items
    BY <1>20 DEF RecordSteered, TurnInv
  <2>2. recorded' \subseteq Items /\ cleared' \subseteq Items
    BY <1>20, <2>1 DEF RecordSteered, Record
  <2>. QED  BY <1>20, <2>2 DEF RecordSteered
<1>21. CASE UNCHANGED vars
  BY <1>21 DEF vars
<1>. QED
  BY <1>1, <1>2, <1>3, <1>4, <1>5, <1>6, <1>7, <1>8, <1>9, <1>10, <1>11, <1>12, <1>13,
     <1>14, <1>15, <1>16, <1>17, <1>18, <1>19, <1>20, <1>21
  DEF Next, Submission, Abort, Idle, Start, Actor, Run, Answer, Finish

-----------------------------------------------------------------------------
(* Actors and turns, contended or not.                                     *)

(* An actor that goes on does so to the place it means.                    *)
LEMMA GotoPc == \A a, to : Goto(a, to) => pc' = [pc EXCEPT ![a] = to]
BY DEF Goto

(* Every step keeps in an actor's hands what it goes on with.              *)
LEMMA ActorNext ==
    ASSUME BaseInv, [Next]_vars
    PROVE  \A x \in Actors : ActorInv(x)'
<1>t. /\ TypeOK /\ TypeOK' /\ (\A a \in Actors : ActorInv(a)) /\ (\A t \in Turns : TurnInv(t))
      /\ task # None => Running(task)
  BY TypeNext DEF BaseInv
<1>. SUFFICES ASSUME NEW x \in Actors PROVE ActorInv(x)'
  OBVIOUS
<1>. USE <1>t, GotoPc DEF TypeOK, ActorInv, Done, TakeTask, TGoto, Starting, Running,
          activeVars, queueVars, taskVars, actorVars, itemVars, countVars
<1>1. ASSUME NEW u \in Inputs, UserInput(u) PROVE ActorInv(x)'
  BY <1>1 DEF UserInput, Actors
<1>2. ASSUME NEW m \in Mails, inter_agent_communication(m) PROVE ActorInv(x)'
  BY <1>2 DEF inter_agent_communication, Actors
<1>3. CASE interrupt_task
  BY <1>3 DEF interrupt_task, Actors
<1>4. CASE ThreadIdle
  BY <1>4 DEF ThreadIdle, Actors
<1>5. ASSUME NEW a \in Actors, take_active_turn(a) PROVE ActorInv(x)'
  <2>1. CASE task # None
    <3>1. /\ task \in Turns /\ slot \in Slots /\ ends[task] = 0
          /\ turn[task] \notin {"free", "starting"}
          /\ \A b \in Actors : aturn[b] # task
      BY <2>1 DEF TurnInv
    <3>2. /\ pc[a] = "take" /\ pc' = [pc EXCEPT ![a] = "abort"] /\ task' = None
          /\ aturn' = [aturn EXCEPT ![a] = task] /\ aslot' = [aslot EXCEPT ![a] = slot]
          /\ cancelled' = [cancelled EXCEPT ![task] = TRUE]
          /\ UNCHANGED <<turn, ends, given, held>>
      BY <1>5, <2>1 DEF take_active_turn
    <3>. QED  BY <3>1, <3>2
  <2>2. CASE task = None
    <3>1. /\ pc[a] = "take" /\ pc' = [pc EXCEPT ![a] = IF Replaces(a) THEN "drain" ELSE "ready"]
          /\ UNCHANGED <<task, turn, cancelled, ends, aturn, aslot, given, held>>
      BY <1>5, <2>2 DEF take_active_turn
    <3>. QED  BY <3>1 DEF Replaces
  <2>. QED  BY <2>1, <2>2
<1>6. ASSUME NEW a \in Actors, handle_task_abort(a) PROVE ActorInv(x)'
  BY <1>6 DEF handle_task_abort
<1>7. ASSUME NEW a \in Actors, clear_pending(a) PROVE ActorInv(x)'
  BY <1>7 DEF clear_pending, Replaces
<1>8. ASSUME NEW a \in Actors, HasTriggerMail(a) \/ IdleCheck(a) PROVE ActorInv(x)'
  BY <1>8 DEF HasTriggerMail, IdleCheck
<1>9. ASSUME NEW a \in Actors, ReserveForMail(a) \/ ReserveIdle(a) PROVE ActorInv(x)'
  BY <1>9 DEF ReserveForMail, ReserveIdle, Reserve
<1>10. ASSUME NEW a \in Actors, IdleRecheck(a) \/ StillReserved(a) PROVE ActorInv(x)'
  BY <1>10 DEF IdleRecheck, StillReserved
<1>11. ASSUME NEW a \in Actors, DrainPending(a) PROVE ActorInv(x)'
  <2>. DEFINE n == Min(FreeTurns)
  <2>1. /\ n \in Turns
        /\ \/ turn[n] = "free"
           \/ turn[n] \in {"ended", "killed"} /\ ends[n] = 1 /\ \A b \in Actors : aturn[b] # n
    BY <1>11, FreshTurn DEF DrainPending
  <2>2. /\ pc[a] = "drain" /\ pc' = [pc EXCEPT ![a] = "join"]
        /\ aturn' = [aturn EXCEPT ![a] = n] /\ turn' = [turn EXCEPT ![n] = "starting"]
        /\ cancelled' = [cancelled EXCEPT ![n] = FALSE]
        /\ ends' = [ends EXCEPT ![n] = 0] /\ given' = [given EXCEPT ![a] = {}]
        /\ held' = [held EXCEPT ![a] = PendingInput] /\ UNCHANGED <<activeVars, aslot, tslot>>
    BY <1>11, GotoPc DEF DrainPending
  <2>. HIDE DEF n
  <2>3. n # task /\ \A b \in Actors : aturn[b] # n
    BY <2>1
  <2>. QED  BY <2>1, <2>2, <2>3
<1>12. ASSUME NEW a \in Actors, JoinTurnState(a) PROVE ActorInv(x)'
  BY <1>12 DEF JoinTurnState
<1>13. ASSUME NEW a \in Actors, InstallTask(a) PROVE ActorInv(x)'
  BY <1>13 DEF InstallTask
<1>14. ASSUME NEW t \in Turns, abort_turn_if_active(t) PROVE ActorInv(x)'
  BY <1>14 DEF abort_turn_if_active, Actors, TurnInv
<1>15. ASSUME NEW t \in Turns, RecordInput(t) \/ RecordPending(t) PROVE ActorInv(x)'
  BY <1>15 DEF RecordInput, RecordPending
<1>16. ASSUME NEW t \in Turns, RunEnds(t) \/ Flushed(t) PROVE ActorInv(x)'
  <2>1. /\ turn[t] \in {"run", "flush"}
        /\ \E to \in {"flush", "ended", "finish"} : turn' = [turn EXCEPT ![t] = to]
        /\ UNCHANGED <<task, cancelled, ends, actorVars>>
    BY <1>16 DEF RunEnds, Flushed
  <2>. QED  BY <2>1
<1>17. ASSUME NEW t \in Turns, TakeFinished(t) PROVE ActorInv(x)'
  <2>1. /\ turn[t] = "finish" /\ task' \in {task, None}
        /\ \E to \in {"ended", "record"} : turn' = [turn EXCEPT ![t] = to]
        /\ UNCHANGED <<cancelled, ends, actorVars>>
    BY <1>17 DEF TakeFinished
  <2>. QED  BY <2>1
<1>18. ASSUME NEW t \in Turns, Release(t) PROVE ActorInv(x)'
  BY <1>18 DEF Release
<1>19. ASSUME NEW t \in Turns, TurnComplete(t) PROVE ActorInv(x)'
  BY <1>19 DEF TurnComplete, TurnInv
<1>20. ASSUME NEW t \in Turns,
             \/ defer_mailbox_delivery_to_next_turn(t)
             \/ accept_mailbox_delivery_for_current_turn(t)
      PROVE  ActorInv(x)'
  BY <1>20 DEF defer_mailbox_delivery_to_next_turn,
               accept_mailbox_delivery_for_current_turn
<1>21. ASSUME NEW t \in Turns, RecordSteered(t) PROVE ActorInv(x)'
  BY <1>21 DEF RecordSteered
<1>22. CASE UNCHANGED vars
  BY <1>22 DEF vars
<1>. QED
  BY <1>1, <1>2, <1>3, <1>4, <1>5, <1>6, <1>7, <1>8, <1>9, <1>10, <1>11, <1>12, <1>13,
     <1>14, <1>15, <1>16, <1>17, <1>18, <1>19, <1>20, <1>21, <1>22
  DEF Next, Submission, Abort, Idle, Start, Actor, Run, Answer, Finish

(* Every step keeps count of the reports of a turn's end.                  *)
LEMMA TurnNext ==
    ASSUME BaseInv, [Next]_vars
    PROVE  /\ \A y \in Turns : TurnInv(y)'
           /\ task' # None => Running(task)'
<1>t. /\ TypeOK /\ TypeOK' /\ (\A a \in Actors : ActorInv(a)) /\ (\A t \in Turns : TurnInv(t))
      /\ task # None => Running(task)
  BY TypeNext DEF BaseInv
<1>. DEFINE Goal == (\A y \in Turns : TurnInv(y)) /\ (task # None => Running(task))
<1>. SUFFICES Goal'
  OBVIOUS
<1>. USE <1>t DEF TypeOK, ActorInv, TurnInv, Done, TakeTask, TGoto, Running,
          activeVars, queueVars, taskVars, actorVars, itemVars, countVars
<1>1. ASSUME NEW u \in Inputs, UserInput(u) PROVE Goal'
  BY <1>1 DEF UserInput
<1>2. ASSUME NEW m \in Mails, inter_agent_communication(m) PROVE Goal'
  BY <1>2 DEF inter_agent_communication
<1>3. CASE interrupt_task
  BY <1>3 DEF interrupt_task
<1>4. CASE ThreadIdle
  BY <1>4 DEF ThreadIdle
<1>5. ASSUME NEW a \in Actors, take_active_turn(a) PROVE Goal'
  BY <1>5 DEF take_active_turn
<1>6. ASSUME NEW a \in Actors, handle_task_abort(a) PROVE Goal'
  BY <1>6 DEF handle_task_abort
<1>7. ASSUME NEW a \in Actors, clear_pending(a) PROVE Goal'
  BY <1>7 DEF clear_pending
<1>8. ASSUME NEW a \in Actors, HasTriggerMail(a) \/ IdleCheck(a) PROVE Goal'
  BY <1>8 DEF HasTriggerMail, IdleCheck
<1>9. ASSUME NEW a \in Actors, ReserveForMail(a) \/ ReserveIdle(a) PROVE Goal'
  BY <1>9 DEF ReserveForMail, ReserveIdle, Reserve
<1>10. ASSUME NEW a \in Actors, IdleRecheck(a) \/ StillReserved(a) PROVE Goal'
  BY <1>10 DEF IdleRecheck, StillReserved
<1>11. ASSUME NEW a \in Actors, DrainPending(a) PROVE Goal'
  <2>. DEFINE n == Min(FreeTurns)
  <2>1. /\ n \in Turns
        /\ \/ turn[n] = "free"
           \/ turn[n] \in {"ended", "killed"} /\ ends[n] = 1 /\ \A b \in Actors : aturn[b] # n
    BY <1>11, FreshTurn DEF DrainPending
  <2>2. /\ pc[a] = "drain" /\ pc' = [pc EXCEPT ![a] = "join"]
        /\ aturn' = [aturn EXCEPT ![a] = n] /\ turn' = [turn EXCEPT ![n] = "starting"]
        /\ cancelled' = [cancelled EXCEPT ![n] = FALSE]
        /\ ends' = [ends EXCEPT ![n] = 0] /\ given' = [given EXCEPT ![a] = {}]
        /\ held' = [held EXCEPT ![a] = PendingInput] /\ UNCHANGED <<activeVars, aslot, tslot>>
    BY <1>11, GotoPc DEF DrainPending
  <2>. HIDE DEF n
  <2>3. n # task
    BY <2>1
  <2>. QED  BY <2>1, <2>2, <2>3
<1>12. ASSUME NEW a \in Actors, JoinTurnState(a) PROVE Goal'
  BY <1>12 DEF JoinTurnState
<1>13. ASSUME NEW a \in Actors, InstallTask(a) PROVE Goal'
  BY <1>13 DEF InstallTask
<1>14. ASSUME NEW t \in Turns, abort_turn_if_active(t) PROVE Goal'
  BY <1>14 DEF abort_turn_if_active
<1>15. ASSUME NEW t \in Turns, RecordInput(t) \/ RecordPending(t) PROVE Goal'
  BY <1>15 DEF RecordInput, RecordPending
<1>16. ASSUME NEW t \in Turns, RunEnds(t) \/ Flushed(t) PROVE Goal'
  BY <1>16 DEF RunEnds, Flushed
<1>17. ASSUME NEW t \in Turns, TakeFinished(t) PROVE Goal'
  BY <1>17 DEF TakeFinished
<1>18. ASSUME NEW t \in Turns, Release(t) PROVE Goal'
  BY <1>18 DEF Release
<1>19. ASSUME NEW t \in Turns, TurnComplete(t) PROVE Goal'
  BY <1>19 DEF TurnComplete
<1>20. ASSUME NEW t \in Turns,
             \/ defer_mailbox_delivery_to_next_turn(t)
             \/ accept_mailbox_delivery_for_current_turn(t)
      PROVE  Goal'
  BY <1>20 DEF defer_mailbox_delivery_to_next_turn,
               accept_mailbox_delivery_for_current_turn
<1>21. ASSUME NEW t \in Turns, RecordSteered(t) PROVE Goal'
  BY <1>21 DEF RecordSteered
<1>22. CASE UNCHANGED vars
  BY <1>22 DEF vars
<1>. QED
  BY <1>1, <1>2, <1>3, <1>4, <1>5, <1>6, <1>7, <1>8, <1>9, <1>10, <1>11, <1>12, <1>13,
     <1>14, <1>15, <1>16, <1>17, <1>18, <1>19, <1>20, <1>21, <1>22
  DEF Next, Submission, Abort, Idle, Start, Actor, Run, Answer, Finish

(* Together.                                                               *)
LEMMA BaseNext ==
    ASSUME BaseInv, [Next]_vars
    PROVE  BaseInv'
BY TypeNext, ActorNext, TurnNext DEF BaseInv

-----------------------------------------------------------------------------
(* Without contention.                                                     *)

(* A contention is not forgotten.                                          *)
LEMMA Undisturbed ==
    ASSUME [Next]_vars, ~contended', Flags
    PROVE  ~contended
<1>. USE DEF Flags, Goto, Done, TakeTask, Reserve
<1>1. ASSUME NEW u \in Inputs, UserInput(u) PROVE ~contended
  BY <1>1 DEF UserInput
<1>2. ASSUME NEW m \in Mails, inter_agent_communication(m) PROVE ~contended
  BY <1>2 DEF inter_agent_communication
<1>3. CASE interrupt_task
  BY <1>3 DEF interrupt_task
<1>4. CASE ThreadIdle
  BY <1>4 DEF ThreadIdle
<1>5. ASSUME NEW a \in Actors, take_active_turn(a) PROVE ~contended
  BY <1>5 DEF take_active_turn
<1>6. ASSUME NEW a \in Actors, handle_task_abort(a) \/ clear_pending(a) PROVE ~contended
  BY <1>6 DEF handle_task_abort, clear_pending
<1>7. ASSUME NEW a \in Actors,
             \/ HasTriggerMail(a) \/ IdleCheck(a) \/ ReserveForMail(a) \/ ReserveIdle(a)
             \/ IdleRecheck(a) \/ StillReserved(a)
      PROVE  ~contended
  BY <1>7 DEF HasTriggerMail, IdleCheck, ReserveForMail, ReserveIdle, IdleRecheck,
              StillReserved
<1>8. ASSUME NEW a \in Actors,
             \/ DrainPending(a) \/ JoinTurnState(a) \/ InstallTask(a)
      PROVE  ~contended
  BY <1>8 DEF DrainPending, JoinTurnState, InstallTask
<1>9. ASSUME NEW t \in Turns, abort_turn_if_active(t) PROVE ~contended
  BY <1>9 DEF abort_turn_if_active
<1>10. ASSUME NEW t \in Turns,
             \/ RecordInput(t) \/ RecordPending(t) \/ RunEnds(t) \/ Flushed(t)
             \/ TakeFinished(t) \/ Release(t) \/ TurnComplete(t)
             \/ defer_mailbox_delivery_to_next_turn(t)
             \/ accept_mailbox_delivery_for_current_turn(t) \/ RecordSteered(t)
      PROVE  ~contended
  BY <1>10 DEF RecordInput, RecordPending, RunEnds, Flushed, TakeFinished, Release,
               TurnComplete, defer_mailbox_delivery_to_next_turn,
               accept_mailbox_delivery_for_current_turn, RecordSteered
<1>11. CASE UNCHANGED vars
  BY <1>11 DEF vars
<1>. QED
  BY <1>1, <1>2, <1>3, <1>4, <1>5, <1>6, <1>7, <1>8, <1>9, <1>10, <1>11
  DEF Next, Submission, Abort, Idle, Start, Actor, Run, Answer, Finish

(* Who sets out to start a turn, or takes one away, is alone in that.      *)
LEMMA GotoAlone ==
    ASSUME ~contended'
    PROVE  \A a, to : Goto(a, to) /\ (to \in Starting \/ pc[a] = "take")
                      => \A b \in Actors \ {a} : ~Starts(b)
BY DEF Goto

(* Every step leaves the place to the actor that starts a turn.            *)
LEMMA StartNext ==
    ASSUME BaseInv, ~contended => OwnInv, [Next]_vars, ~contended'
    PROVE  \A x \in Actors : StartInv(x)'
<1>t. /\ TypeOK /\ TypeOK' /\ (\A a \in Actors : ActorInv(a)) /\ (\A t \in Turns : TurnInv(t))
      /\ task # None => Running(task)
  BY TypeNext DEF BaseInv
<1>o. ~contended /\ (\A a \in Actors : StartInv(a)) /\ (\A t \in Turns : PlaceInv(t)) /\ SlotInv
  BY Undisturbed DEF OwnInv, BaseInv, TypeOK, Flags
<1>. SUFFICES ASSUME NEW x \in Actors PROVE StartInv(x)'
  OBVIOUS
<1>. USE <1>t, <1>o, GotoPc, GotoAlone
         DEF TypeOK, ActorInv, StartInv, Starts, Replaces, Done, TakeTask, TGoto,
             Starting, activeVars, queueVars, taskVars, actorVars, itemVars, countVars
<1>1. ASSUME NEW u \in Inputs, UserInput(u) PROVE StartInv(x)'
  BY <1>1 DEF UserInput, Actors
<1>2. ASSUME NEW m \in Mails, inter_agent_communication(m) PROVE StartInv(x)'
  BY <1>2 DEF inter_agent_communication, Actors
<1>3. CASE interrupt_task
  BY <1>3 DEF interrupt_task, Actors
<1>4. CASE ThreadIdle
  BY <1>4 DEF ThreadIdle, Actors
<1>5. ASSUME NEW a \in Actors, take_active_turn(a) PROVE StartInv(x)'
  <2>1. \A b \in Actors \ {a} : ~Starts(b)
    BY <1>5 DEF take_active_turn
  <2>2. CASE task # None
    <3>1. /\ task \in Turns /\ slot \in Slots /\ ends[task] = 0
          /\ turn[task] \in {"run", "flush", "finish"} /\ \A b \in Actors : aturn[b] # task
      BY <2>2 DEF TurnInv, Running
    <3>2. /\ pc' = [pc EXCEPT ![a] = "abort"] /\ slot' = None /\ task' = None
          /\ aturn' = [aturn EXCEPT ![a] = task]
          /\ UNCHANGED <<turn, ends, given, pending, tslot>>
          /\ aslot' = [aslot EXCEPT ![a] = slot]
      BY <1>5, <2>2 DEF take_active_turn
    <3>. QED  BY <2>1, <3>1, <3>2
  <2>3. CASE task = None
    <3>1. /\ pc' = [pc EXCEPT ![a] = IF Replaces(a) THEN "drain" ELSE "ready"]
          /\ slot' = None /\ pc[a] = "take"
          /\ UNCHANGED <<task, turn, ends, given, pending, tslot, aturn, aslot>>
      BY <1>5, <2>3 DEF take_active_turn
    <3>. QED  BY <2>1, <2>3, <3>1
  <2>. QED  BY <2>2, <2>3
<1>6. ASSUME NEW a \in Actors, handle_task_abort(a) PROVE StartInv(x)'
  BY <1>6 DEF handle_task_abort
<1>7. ASSUME NEW a \in Actors, clear_pending(a) PROVE StartInv(x)'
  BY <1>7 DEF clear_pending
<1>8. ASSUME NEW a \in Actors, HasTriggerMail(a) \/ IdleCheck(a) PROVE StartInv(x)'
  BY <1>8 DEF HasTriggerMail, IdleCheck
<1>9. ASSUME NEW a \in Actors, ReserveForMail(a) \/ ReserveIdle(a) PROVE StartInv(x)'
  <2>1. PICK to \in {"drain", "recheck"} : \E from \in {"reserve", "claim"} : Reserve(a, from, to)
    BY <1>9 DEF ReserveForMail, ReserveIdle
  <2>2. pc[a] \in {"reserve", "claim"} /\ UNCHANGED <<task, turn, ends, given, tslot, aturn>>
    BY <2>1 DEF Reserve
  <2>3. CASE slot # None
    <3>1. pc' = [pc EXCEPT ![a] = "ready"] /\ UNCHANGED <<slot, pending, aslot>>
      BY <2>1, <2>3 DEF Reserve
    <3>. QED  BY <2>2, <3>1
  <2>4. CASE slot = None
    <3>1. GetOrInsert({}) /\ aslot' = [aslot EXCEPT ![a] = slot'] /\ Goto(a, to)
      BY <2>1, <2>4 DEF Reserve
    <3>2. /\ slot' \in Slots /\ ~InUse(slot') /\ pending'[slot'] = {}
          /\ \A s \in Slots \ {slot'} : pending'[s] = pending[s]
      BY <2>4, <3>1, Inserts
    <3>3. (\A b \in Actors \ {a} : ~Starts(b)) /\ pc' = [pc EXCEPT ![a] = to]
      BY <2>1, <3>1
    <3>. QED  BY <2>2, <2>4, <3>1, <3>2, <3>3 DEF InUse
  <2>. QED  BY <2>3, <2>4
<1>10. ASSUME NEW a \in Actors, IdleRecheck(a) PROVE StartInv(x)'
  BY <1>10 DEF IdleRecheck, ClearReserved
<1>11. ASSUME NEW a \in Actors, StillReserved(a) PROVE StartInv(x)'
  BY <1>11 DEF StillReserved
<1>12. ASSUME NEW a \in Actors, DrainPending(a) PROVE StartInv(x)'
  <2>. DEFINE n == Min(FreeTurns)
  <2>1. /\ n \in Turns
        /\ \/ turn[n] = "free"
           \/ turn[n] \in {"ended", "killed"} /\ ends[n] = 1 /\ \A b \in Actors : aturn[b] # n
    BY <1>12, FreshTurn DEF DrainPending
  <2>2. /\ pc[a] = "drain" /\ Goto(a, "join")
        /\ aturn' = [aturn EXCEPT ![a] = n] /\ turn' = [turn EXCEPT ![n] = "starting"]
        /\ ends' = [ends EXCEPT ![n] = 0] /\ given' = [given EXCEPT ![a] = {}]
        /\ TakePendingInput /\ UNCHANGED <<activeVars, aslot, tslot>>
    BY <1>12 DEF DrainPending
  <2>. HIDE DEF n
  <2>3. \A b \in Actors : aturn[b] # n
    BY <2>1
  <2>4. \A b \in Actors \ {a} : ~Starts(b)
    BY <2>2
  <2>5. \A u \in Slots : pending[u] = {} => pending'[u] = {}
    BY <2>2 DEF TakePendingInput
  <2>. QED  BY <2>1, <2>2, <2>3, <2>4, <2>5
<1>13. ASSUME NEW a \in Actors, JoinTurnState(a) PROVE StartInv(x)'
  <2>1. /\ pc[a] = "join" /\ GetOrInsert(held[a]) /\ aslot' = [aslot EXCEPT ![a] = slot']
        /\ Goto(a, "install") /\ UNCHANGED <<task, turn, ends, tslot, aturn, given>>
    BY <1>13 DEF JoinTurnState
  <2>2. held[a] \in SUBSET Items
    OBVIOUS
  <2>3. /\ slot' \in Slots /\ (slot # None => slot' = slot) /\ (slot = None => ~InUse(slot'))
    BY <2>1, <2>2, Inserts
  <2>4. \A b \in Actors \ {a} : ~Starts(b)
    BY <2>1
  <2>5. \A u \in Turns : tslot[u] # slot'
    BY <2>1, <2>3 DEF InUse
  <2>. QED  BY <2>1, <2>3, <2>4, <2>5
<1>14. ASSUME NEW a \in Actors, InstallTask(a) PROVE StartInv(x)'
  BY <1>14 DEF InstallTask
<1>15. ASSUME NEW t \in Turns, abort_turn_if_active(t) PROVE StartInv(x)'
  <2>1. /\ task \in Turns /\ slot \in Slots /\ ends[task] = 0
        /\ turn[task] \in {"run", "flush", "finish"} /\ \A b \in Actors : aturn[b] # task
    BY <1>15 DEF abort_turn_if_active, TurnInv, Running
  <2>2. "guardian" \in Actors
    BY DEF Actors
  <2>3. /\ pc["guardian"] = "ready" /\ pc' = [pc EXCEPT !["guardian"] = "abort"]
        /\ slot' = None /\ task' = None /\ aturn' = [aturn EXCEPT !["guardian"] = task]
        /\ UNCHANGED <<turn, ends, given, pending, tslot>>
        /\ aslot' = [aslot EXCEPT !["guardian"] = slot]
    BY <1>15 DEF abort_turn_if_active
  <2>4. \A b \in Actors : ~Starts(b)
    BY <2>1
  <2>. QED  BY <2>1, <2>2, <2>3, <2>4
<1>16. ASSUME NEW t \in Turns, RecordInput(t) PROVE StartInv(x)'
  BY <1>16 DEF RecordInput
<1>17. ASSUME NEW t \in Turns, RecordPending(t) PROVE StartInv(x)'
  <2>1. \A u \in Slots : pending[u] = {} => pending'[u] = {}
    BY <1>17 DEF RecordPending, TakePendingInput
  <2>. QED  BY <1>17, <2>1 DEF RecordPending
<1>18. ASSUME NEW t \in Turns, RunEnds(t) \/ Flushed(t) PROVE StartInv(x)'
  <2>1. /\ turn[t] \in {"run", "flush"}
        /\ \E to \in {"flush", "ended", "finish"} : turn' = [turn EXCEPT ![t] = to]
        /\ UNCHANGED <<slot, task, pending, tslot, ends, actorVars>>
    BY <1>18 DEF RunEnds, Flushed
  <2>. QED  BY <2>1
<1>19. ASSUME NEW t \in Turns, TakeFinished(t) PROVE StartInv(x)'
  <2>1. CASE task = None
    <3>1. /\ turn' = [turn EXCEPT ![t] = "ended"]
          /\ UNCHANGED <<slot, task, pending, tslot, ends, actorVars>>
      BY <1>19, <2>1 DEF TakeFinished
    <3>. QED  BY <3>1
  <2>2. CASE task # None
    <3>1. task = t
      BY <1>19, <2>2 DEF TakeFinished
    <3>2. turn' = [turn EXCEPT ![t] = "record"] /\ UNCHANGED <<slot, pending, ends, actorVars>>
      BY <1>19, <2>2 DEF TakeFinished
    <3>3. \A b \in Actors : ~Starts(b) /\ (pc[b] \in {"abort", "clear"} => aturn[b] # t)
      BY <2>2, <3>1
    <3>. QED  BY <3>2, <3>3
  <2>. QED  BY <2>1, <2>2
<1>20. ASSUME NEW t \in Turns, Release(t) PROVE StartInv(x)'
  BY <1>20 DEF Release
<1>21. ASSUME NEW t \in Turns, TurnComplete(t) PROVE StartInv(x)'
  <2>1. /\ turn[t] = "complete" /\ ends[t] = 0 /\ ends' = [ends EXCEPT ![t] = @ + 1]
        /\ turn' = [turn EXCEPT ![t] = "release"]
        /\ UNCHANGED <<slot, task, pending, tslot, actorVars>>
    BY <1>21 DEF TurnComplete, TurnInv
  <2>2. \A b \in Actors : pc[b] \in {"abort", "clear"} => aturn[b] \in Turns \ {t}
    BY <2>1
  <2>. QED  BY <2>1, <2>2
<1>22. ASSUME NEW t \in Turns,
             \/ defer_mailbox_delivery_to_next_turn(t)
             \/ accept_mailbox_delivery_for_current_turn(t)
      PROVE  StartInv(x)'
  BY <1>22 DEF defer_mailbox_delivery_to_next_turn,
               accept_mailbox_delivery_for_current_turn
<1>23. ASSUME NEW t \in Turns, RecordSteered(t) PROVE StartInv(x)'
  BY <1>23 DEF RecordSteered
<1>24. CASE UNCHANGED vars
  BY <1>24 DEF vars
<1>. QED
  BY <1>1, <1>2, <1>3, <1>4, <1>5, <1>6, <1>7, <1>8, <1>9, <1>10, <1>11, <1>12, <1>13,
     <1>14, <1>15, <1>16, <1>17, <1>18, <1>19, <1>20, <1>21, <1>22, <1>23, <1>24
  DEF Next, Submission, Abort, Idle, Start, Actor, Run, Answer, Finish

\* Nothing changes for a turn but, perhaps, the turn state in place.
Untouched(y) ==
    /\ turn'[y] = turn[y] /\ cancelled'[y] = cancelled[y] /\ input'[y] = input[y]
    /\ tslot'[y] = tslot[y]
    /\ tslot[y] \in Slots /\ pending[tslot[y]] = {} => pending'[tslot[y]] = {}
    /\ Running(y) => task' = task
    /\ task' # None => tslot[y] # slot'
    /\ \A b \in Actors : pc[b] = "abort" /\ aturn[b] = y => pc'[b] = "abort" /\ aturn'[b] = y

(* Such a turn stays in its place.                                         *)
LEMMA PlaceKept ==
    ASSUME NEW y \in Turns, TurnInv(y), PlaceInv(y), Untouched(y)
    PROVE  PlaceInv(y)'
<1>1. /\ Running(y)' => y = task'
      /\ ~Finishing(y)' => tslot'[y] = None
      /\ input'[y] # {} => turn'[y] \in {"starting", "run"}
      /\ task' # None => tslot'[y] # slot'
  BY DEF Untouched, PlaceInv, Running, Finishing
<1>2. turn'[y] \in {"complete", "release"} => pending'[tslot'[y]] = {}
  BY DEF Untouched, PlaceInv, TurnInv
<1>3. ASSUME cancelled'[y], turn'[y] \in {"run", "flush", "finish"}
      PROVE  \E b \in Actors : pc'[b] = "abort" /\ aturn'[b] = y
  BY <1>3 DEF Untouched, PlaceInv
<1>. QED  BY <1>1, <1>2, <1>3 DEF PlaceInv

(* Every step leaves a turn that runs in its place.                        *)
LEMMA PlaceNext ==
    ASSUME BaseInv, ~contended => OwnInv, [Next]_vars, ~contended'
    PROVE  \A y \in Turns : PlaceInv(y)'
<1>t. /\ TypeOK /\ TypeOK' /\ (\A a \in Actors : ActorInv(a)) /\ (\A t \in Turns : TurnInv(t))
      /\ task # None => Running(task)
  BY TypeNext DEF BaseInv
<1>o. ~contended /\ (\A a \in Actors : StartInv(a)) /\ (\A t \in Turns : PlaceInv(t)) /\ SlotInv
  BY Undisturbed DEF OwnInv, BaseInv, TypeOK, Flags
<1>. SUFFICES ASSUME NEW y \in Turns PROVE PlaceInv(y)'
  OBVIOUS
<1>. USE <1>t, <1>o, GotoPc
         DEF TypeOK, ActorInv, TurnInv, PlaceInv, Running, Finishing, Done, TakeTask,
             TGoto, activeVars, queueVars, taskVars, actorVars, itemVars, countVars
<1>1. ASSUME NEW u \in Inputs, UserInput(u) PROVE PlaceInv(y)'
  <2>1. UNCHANGED <<slot, task, turn, cancelled, input, tslot, aturn>>
    BY <1>1 DEF UserInput
  <2>2. \A b \in Actors : pc[b] = "abort" => pc'[b] = "abort"
    BY <1>1 DEF UserInput, Actors
  <2>3. \A s \in Slots \ {slot} : pending'[s] = pending[s]
    BY <1>1 DEF UserInput
  <2>4. task = None => pending' = pending
    BY <1>1 DEF UserInput
  <2>5. tslot[y] \in Slots /\ pending[tslot[y]] = {} => pending'[tslot[y]] = {}
    <3>1. CASE task = None
      BY <2>4, <3>1
    <3>2. CASE task # None
      <4>1. tslot[y] # slot
        BY <3>2
      <4>. QED  BY <2>3, <4>1
    <3>. QED  BY <3>1, <3>2
  <2>6. task' # None => tslot[y] # slot'
    BY <2>1
  <2>7. Untouched(y)
    BY <2>1, <2>2, <2>5, <2>6 DEF Untouched
  <2>. QED  BY <2>7, PlaceKept
<1>2. ASSUME NEW m \in Mails, inter_agent_communication(m) PROVE PlaceInv(y)'
  BY <1>2 DEF inter_agent_communication, Actors
<1>3. CASE interrupt_task
  BY <1>3 DEF interrupt_task, Actors
<1>4. CASE ThreadIdle
  BY <1>4 DEF ThreadIdle, Actors
<1>5. ASSUME NEW a \in Actors, take_active_turn(a) PROVE PlaceInv(y)'
  BY <1>5 DEF take_active_turn
<1>6. ASSUME NEW a \in Actors, handle_task_abort(a) PROVE PlaceInv(y)'
  <2>1. /\ pc[a] = "abort" /\ pc' = [pc EXCEPT ![a] = "clear"]
        /\ turn' = [turn EXCEPT ![aturn[a]] = IF @ = "ended" THEN @ ELSE "killed"]
        /\ input' = [input EXCEPT ![aturn[a]] = {}]
        /\ UNCHANGED <<slot, task, pending, cancelled, tslot, aturn>>
    BY <1>6 DEF handle_task_abort
  <2>2. aturn[a] \in Turns /\ turn[aturn[a]] \in {"run", "flush", "finish", "ended"}
    BY <2>1 DEF StartInv
  <2>3. CASE y = aturn[a]
    <3>1. turn'[y] \in {"ended", "killed"} /\ input'[y] = {}
      BY <2>1, <2>2, <2>3
    <3>2. tslot[y] = None
      BY <2>2, <2>3
    <3>. QED  BY <2>1, <3>1, <3>2
  <2>4. CASE y # aturn[a]
    <3>1. turn'[y] = turn[y] /\ input'[y] = input[y]
      BY <2>1, <2>2, <2>4
    <3>2. \A b \in Actors : aturn[b] = y => b # a
      BY <2>4
    <3>3. \A b \in Actors : pc[b] = "abort" /\ aturn[b] = y => pc'[b] = "abort"
      BY <2>1, <3>2
    <3>4. task' # None => tslot[y] # slot'
      BY <2>1
    <3>5. Untouched(y)
      BY <2>1, <3>1, <3>3, <3>4 DEF Untouched
    <3>. QED  BY <3>5, PlaceKept
  <2>. QED  BY <2>3, <2>4
<1>7. ASSUME NEW a \in Actors, clear_pending(a) PROVE PlaceInv(y)'
  BY <1>7 DEF clear_pending
<1>8. ASSUME NEW a \in Actors, HasTriggerMail(a) \/ IdleCheck(a) PROVE PlaceInv(y)'
  BY <1>8 DEF HasTriggerMail, IdleCheck
<1>9. ASSUME NEW a \in Actors, ReserveForMail(a) \/ ReserveIdle(a) PROVE PlaceInv(y)'
  <2>1. PICK to \in {"drain", "recheck"} : \E from \in {"reserve", "claim"} : Reserve(a, from, to)
    BY <1>9 DEF ReserveForMail, ReserveIdle
  <2>2. /\ pc[a] \in {"reserve", "claim"}
        /\ UNCHANGED <<task, turn, input, cancelled, tslot, aturn>>
        /\ \E at \in {"ready", to} : pc' = [pc EXCEPT ![a] = at]
    BY <2>1 DEF Reserve
  <2>3. CASE slot # None
    <3>1. UNCHANGED <<slot, pending>>
      BY <2>1, <2>3 DEF Reserve
    <3>. QED  BY <2>2, <3>1
  <2>4. CASE slot = None
    <3>1. GetOrInsert({})
      BY <2>1, <2>4 DEF Reserve
    <3>2. /\ slot' \in Slots /\ ~InUse(slot') /\ pending'[slot'] = {}
          /\ \A s \in Slots \ {slot'} : pending'[s] = pending[s]
      BY <2>4, <3>1, Inserts
    <3>3. tslot[y] # slot' /\ \A b \in Actors : pc[b] = "abort" => pc'[b] = "abort"
      BY <2>2, <3>2 DEF InUse
    <3>4. tslot[y] \in Slots => pending'[tslot[y]] = pending[tslot[y]]
      BY <3>2, <3>3
    <3>5. Untouched(y)
      BY <2>2, <3>3, <3>4 DEF Untouched
    <3>. QED  BY <3>5, PlaceKept
  <2>. QED  BY <2>3, <2>4
<1>10. ASSUME NEW a \in Actors, IdleRecheck(a) PROVE PlaceInv(y)'
  BY <1>10 DEF IdleRecheck, ClearReserved
<1>11. ASSUME NEW a \in Actors, StillReserved(a) PROVE PlaceInv(y)'
  BY <1>11 DEF StillReserved
<1>12. ASSUME NEW a \in Actors, DrainPending(a) PROVE PlaceInv(y)'
  <2>. DEFINE n == Min(FreeTurns)
  <2>1. /\ n \in Turns
        /\ \/ turn[n] = "free"
           \/ turn[n] \in {"ended", "killed"} /\ ends[n] = 1 /\ \A b \in Actors : aturn[b] # n
    BY <1>12, FreshTurn DEF DrainPending
  <2>2. /\ pc[a] = "drain" /\ pc' = [pc EXCEPT ![a] = "join"]
        /\ aturn' = [aturn EXCEPT ![a] = n] /\ turn' = [turn EXCEPT ![n] = "starting"]
        /\ cancelled' = [cancelled EXCEPT ![n] = FALSE] /\ input' = [input EXCEPT ![n] = given[a]]
        /\ TakePendingInput /\ UNCHANGED <<activeVars, tslot>>
    BY <1>12 DEF DrainPending
  <2>. HIDE DEF n
  <2>3. task # n /\ tslot[n] = None
    BY <2>1
  <2>4. \A u \in Slots : pending[u] = {} => pending'[u] = {}
    BY <2>2 DEF TakePendingInput
  <2>5. CASE y = n
    BY <2>1, <2>2, <2>3, <2>5
  <2>6. CASE y # n
    <3>1. /\ turn'[y] = turn[y] /\ cancelled'[y] = cancelled[y] /\ input'[y] = input[y]
          /\ \A b \in Actors : pc[b] = "abort" => pc'[b] = "abort" /\ aturn'[b] = aturn[b]
      BY <2>1, <2>2, <2>6
    <3>5. Untouched(y)
      BY <2>2, <2>4, <3>1 DEF Untouched
    <3>. QED  BY <3>5, PlaceKept
  <2>. QED  BY <2>5, <2>6
<1>13. ASSUME NEW a \in Actors, JoinTurnState(a) PROVE PlaceInv(y)'
  <2>1. /\ pc[a] = "join" /\ GetOrInsert(held[a])
        /\ pc' = [pc EXCEPT ![a] = "install"]
        /\ UNCHANGED <<task, turn, input, cancelled, tslot, aturn>>
    BY <1>13 DEF JoinTurnState
  <2>2. held[a] \in SUBSET Items
    OBVIOUS
  <2>3. /\ slot' \in Slots /\ (slot # None => slot' = slot) /\ (slot = None => ~InUse(slot'))
        /\ \A s \in Slots \ {slot'} : pending'[s] = pending[s]
    BY <2>1, <2>2, Inserts
  <2>4. tslot[y] # slot' /\ task = None
    BY <2>1, <2>3 DEF InUse, StartInv, Starts, Starting
  <2>5. \A b \in Actors : pc[b] = "abort" => pc'[b] = "abort"
    BY <2>1
  <2>6. tslot[y] \in Slots => pending'[tslot[y]] = pending[tslot[y]]
    BY <2>3, <2>4
  <2>7. Untouched(y)
    BY <2>1, <2>4, <2>5, <2>6 DEF Untouched
  <2>. QED  BY <2>7, PlaceKept
<1>14. ASSUME NEW a \in Actors, InstallTask(a) PROVE PlaceInv(y)'
  <2>1. /\ pc[a] = "install" /\ GetOrInsert({}) /\ task' = aturn[a]
        /\ pc' = [pc EXCEPT ![a] = "ready"] /\ aturn' = [aturn EXCEPT ![a] = None]
        /\ UNCHANGED <<input, cancelled, tslot>>
    BY <1>14 DEF InstallTask
  <2>2. task = None /\ aturn[a] \in Turns /\ turn[aturn[a]] = "starting" /\ ~cancelled[aturn[a]]
    BY <2>1 DEF StartInv, Starts, Starting
  <2>3. turn'[aturn[a]] = "run" /\ \A t \in Turns \ {aturn[a]} : turn'[t] = turn[t]
    BY <1>14, <2>2 DEF InstallTask
  <2>4. /\ slot' \in Slots /\ (slot # None => slot' = slot) /\ (slot = None => ~InUse(slot'))
        /\ \A s \in Slots \ {slot'} : pending'[s] = pending[s]
    BY <2>1, Inserts
  <2>5. tslot[y] # slot'
    BY <2>1, <2>4 DEF InUse, StartInv, Starting
  <2>6. CASE y = aturn[a]
    BY <2>1, <2>2, <2>3, <2>5, <2>6
  <2>7. CASE y # aturn[a]
    <3>1. \A b \in Actors : pc[b] = "abort" => pc'[b] = "abort" /\ aturn'[b] = aturn[b]
      BY <2>1
    <3>2. ~Running(y)
      BY <2>2
    <3>3. tslot[y] \in Slots => pending'[tslot[y]] = pending[tslot[y]]
      BY <2>4, <2>5
    <3>4. turn'[y] = turn[y]
      BY <2>3, <2>7
    <3>5. Untouched(y)
      BY <2>1, <2>5, <3>1, <3>2, <3>3, <3>4 DEF Untouched
    <3>. QED  BY <3>5, PlaceKept
  <2>. QED  BY <2>6, <2>7
<1>15. ASSUME NEW t \in Turns, abort_turn_if_active(t) PROVE PlaceInv(y)'
  BY <1>15 DEF abort_turn_if_active, Actors
<1>16. ASSUME NEW t \in Turns, RecordInput(t) PROVE PlaceInv(y)'
  BY <1>16 DEF RecordInput
<1>17. ASSUME NEW t \in Turns, RecordPending(t) PROVE PlaceInv(y)'
  <2>1. \A u \in Slots : pending[u] = {} => pending'[u] = {}
    BY <1>17 DEF RecordPending, TakePendingInput
  <2>. QED  BY <1>17, <2>1 DEF RecordPending
<1>18. ASSUME NEW t \in Turns, RunEnds(t) \/ Flushed(t) PROVE PlaceInv(y)'
  BY <1>18 DEF RunEnds, Flushed
<1>19. ASSUME NEW t \in Turns, TakeFinished(t) PROVE PlaceInv(y)'
  BY <1>19 DEF TakeFinished
<1>20. ASSUME NEW t \in Turns, Release(t) PROVE PlaceInv(y)'
  BY <1>20 DEF Release
<1>21. ASSUME NEW t \in Turns, TurnComplete(t) PROVE PlaceInv(y)'
  BY <1>21 DEF TurnComplete
<1>22. ASSUME NEW t \in Turns,
             \/ defer_mailbox_delivery_to_next_turn(t)
             \/ accept_mailbox_delivery_for_current_turn(t)
      PROVE  PlaceInv(y)'
  BY <1>22 DEF defer_mailbox_delivery_to_next_turn,
               accept_mailbox_delivery_for_current_turn
<1>23. ASSUME NEW t \in Turns, RecordSteered(t) PROVE PlaceInv(y)'
  BY <1>23 DEF RecordSteered
<1>24. CASE UNCHANGED vars
  BY <1>24 DEF vars
<1>. QED
  BY <1>1, <1>2, <1>3, <1>4, <1>5, <1>6, <1>7, <1>8, <1>9, <1>10, <1>11, <1>12, <1>13,
     <1>14, <1>15, <1>16, <1>17, <1>18, <1>19, <1>20, <1>21, <1>22, <1>23, <1>24
  DEF Next, Submission, Abort, Idle, Start, Actor, Run, Answer, Finish

(* Every step leaves an ActiveTurn without a task to somebody.             *)
LEMMA SlotNext ==
    ASSUME BaseInv, ~contended => OwnInv, [Next]_vars, ~contended'
    PROVE  SlotInv'
<1>t. /\ TypeOK /\ TypeOK' /\ (\A a \in Actors : ActorInv(a)) /\ (\A t \in Turns : TurnInv(t))
      /\ task # None => Running(task)
  BY TypeNext DEF BaseInv
<1>o. ~contended /\ (\A a \in Actors : StartInv(a)) /\ (\A t \in Turns : PlaceInv(t)) /\ SlotInv
  BY Undisturbed DEF OwnInv, BaseInv, TypeOK, Flags
<1>. USE <1>t, <1>o, GotoPc
         DEF TypeOK, ActorInv, SlotInv, Starting, Finishing, Done, TakeTask, TGoto,
             activeVars, queueVars, taskVars, actorVars, itemVars, countVars
<1>1. ASSUME NEW u \in Inputs, UserInput(u) PROVE SlotInv'
  BY <1>1 DEF UserInput, Actors
<1>2. ASSUME NEW m \in Mails, inter_agent_communication(m) PROVE SlotInv'
  BY <1>2 DEF inter_agent_communication, Actors
<1>3. CASE interrupt_task
  BY <1>3 DEF interrupt_task, Actors
<1>4. CASE ThreadIdle
  BY <1>4 DEF ThreadIdle, Actors
<1>5. ASSUME NEW a \in Actors, take_active_turn(a) PROVE SlotInv'
  BY <1>5 DEF take_active_turn
<1>6. ASSUME NEW a \in Actors, handle_task_abort(a) PROVE SlotInv'
  <2>1. /\ pc[a] = "abort" /\ pc' = [pc EXCEPT ![a] = "clear"]
        /\ turn' = [turn EXCEPT ![aturn[a]] = IF @ = "ended" THEN @ ELSE "killed"]
        /\ UNCHANGED <<slot, task, tslot>>
    BY <1>6 DEF handle_task_abort
  <2>2. aturn[a] \in Turns /\ ~Finishing(aturn[a])
    BY <2>1 DEF StartInv
  <2>3. \A t \in Turns : Finishing(t) => turn'[t] = turn[t]
    BY <2>1, <2>2
  <2>4. \A b \in Actors : pc[b] \in Starting => pc'[b] \in Starting
    BY <2>1
  <2>. QED  BY <2>1, <2>3, <2>4
<1>7. ASSUME NEW a \in Actors, clear_pending(a) PROVE SlotInv'
  BY <1>7 DEF clear_pending
<1>8. ASSUME NEW a \in Actors, HasTriggerMail(a) \/ IdleCheck(a) PROVE SlotInv'
  BY <1>8 DEF HasTriggerMail, IdleCheck
<1>9. ASSUME NEW a \in Actors, ReserveForMail(a) \/ ReserveIdle(a) PROVE SlotInv'
  <2>1. PICK to \in {"drain", "recheck"} : \E from \in {"reserve", "claim"} : Reserve(a, from, to)
    BY <1>9 DEF ReserveForMail, ReserveIdle
  <2>2. pc[a] \in {"reserve", "claim"} /\ UNCHANGED <<task, turn, tslot>>
    BY <2>1 DEF Reserve
  <2>3. CASE slot # None
    <3>1. pc' = [pc EXCEPT ![a] = "ready"] /\ UNCHANGED slot
      BY <2>1, <2>3 DEF Reserve
    <3>. QED  BY <2>2, <3>1
  <2>4. CASE slot = None
    <3>1. pc' = [pc EXCEPT ![a] = to]
      BY <2>1, <2>4 DEF Reserve
    <3>. QED  BY <3>1
  <2>. QED  BY <2>3, <2>4
<1>10. ASSUME NEW a \in Actors, IdleRecheck(a) PROVE SlotInv'
  <2>1. /\ pc[a] = "recheck" /\ task = None /\ slot = aslot[a] /\ UNCHANGED <<task, turn, tslot>>
    BY <1>10 DEF IdleRecheck, StartInv, Starts
  <2>2. CASE ClearReserved(a)
    BY <2>1, <2>2 DEF ClearReserved
  <2>3. CASE pc' = [pc EXCEPT ![a] = "hold"]
    BY <2>3
  <2>. QED  BY <1>10, <2>2, <2>3 DEF IdleRecheck
<1>11. ASSUME NEW a \in Actors, StillReserved(a) PROVE SlotInv'
  <2>1. /\ pc[a] = "hold" /\ task = None /\ slot = aslot[a]
    BY <1>11 DEF StillReserved, StartInv, Starts
  <2>2. pc' = [pc EXCEPT ![a] = "drain"]
    BY <1>11, <2>1 DEF StillReserved
  <2>. QED  BY <2>2
<1>12. ASSUME NEW a \in Actors, DrainPending(a) PROVE SlotInv'
  <2>1. pc' = [pc EXCEPT ![a] = "join"]
    BY <1>12 DEF DrainPending
  <2>. QED  BY <2>1
<1>13. ASSUME NEW a \in Actors, JoinTurnState(a) PROVE SlotInv'
  BY <1>13 DEF JoinTurnState
<1>14. ASSUME NEW a \in Actors, InstallTask(a) PROVE SlotInv'
  BY <1>14 DEF InstallTask
<1>15. ASSUME NEW t \in Turns, abort_turn_if_active(t) PROVE SlotInv'
  BY <1>15 DEF abort_turn_if_active, Actors
<1>16. ASSUME NEW t \in Turns, RecordInput(t) PROVE SlotInv'
  BY <1>16 DEF RecordInput
<1>17. ASSUME NEW t \in Turns, RecordPending(t) PROVE SlotInv'
  BY <1>17 DEF RecordPending
<1>18. ASSUME NEW t \in Turns, RunEnds(t) \/ Flushed(t) PROVE SlotInv'
  BY <1>18 DEF RunEnds, Flushed
<1>19. ASSUME NEW t \in Turns, TakeFinished(t) PROVE SlotInv'
  BY <1>19 DEF TakeFinished
<1>20. ASSUME NEW t \in Turns, Release(t) PROVE SlotInv'
  BY <1>20 DEF Release
<1>21. ASSUME NEW t \in Turns, TurnComplete(t) PROVE SlotInv'
  BY <1>21 DEF TurnComplete
<1>22. ASSUME NEW t \in Turns,
             \/ defer_mailbox_delivery_to_next_turn(t)
             \/ accept_mailbox_delivery_for_current_turn(t)
      PROVE  SlotInv'
  BY <1>22 DEF defer_mailbox_delivery_to_next_turn,
               accept_mailbox_delivery_for_current_turn
<1>23. ASSUME NEW t \in Turns, RecordSteered(t) PROVE SlotInv'
  BY <1>23 DEF RecordSteered
<1>24. CASE UNCHANGED vars
  BY <1>24 DEF vars
<1>. QED
  BY <1>1, <1>2, <1>3, <1>4, <1>5, <1>6, <1>7, <1>8, <1>9, <1>10, <1>11, <1>12, <1>13,
     <1>14, <1>15, <1>16, <1>17, <1>18, <1>19, <1>20, <1>21, <1>22, <1>23, <1>24
  DEF Next, Submission, Abort, Idle, Start, Actor, Run, Answer, Finish

-----------------------------------------------------------------------------
(* The ends of turns.                                                      *)

Reported(t) ==
    /\ ends[t] <= 1
    /\ Over(t) /\ (\A a \in Actors : aturn[a] # t) => ends[t] = 1

(* Every step leaves the end of a turn reported once, or its canceller to  *)
(* report it.                                                              *)
LEMMA ReportNext ==
    ASSUME BaseInv, ~contended => OwnInv, OneTerminalEvent, [Next]_vars, ~contended'
    PROVE  \A y \in Turns : Reported(y)'
<1>t. /\ TypeOK /\ TypeOK' /\ (\A a \in Actors : ActorInv(a)) /\ (\A t \in Turns : TurnInv(t))
      /\ task # None => Running(task)
  BY TypeNext DEF BaseInv
<1>o. ~contended /\ (\A a \in Actors : StartInv(a)) /\ (\A t \in Turns : PlaceInv(t)) /\ SlotInv
  BY Undisturbed DEF OwnInv, BaseInv, TypeOK, Flags
<1>r. \A t \in Turns : Reported(t)
  BY <1>o DEF OneTerminalEvent, Reported
<1>. SUFFICES ASSUME NEW y \in Turns PROVE Reported(y)'
  OBVIOUS
<1>. USE <1>t, <1>o, <1>r, GotoPc
         DEF TypeOK, ActorInv, TurnInv, Reported, Over, Done, TakeTask, TGoto, activeVars,
             queueVars, taskVars, actorVars, itemVars, countVars
<1>1. ASSUME NEW u \in Inputs, UserInput(u) PROVE Reported(y)'
  BY <1>1 DEF UserInput, Actors
<1>2. ASSUME NEW m \in Mails, inter_agent_communication(m) PROVE Reported(y)'
  BY <1>2 DEF inter_agent_communication, Actors
<1>3. CASE interrupt_task
  BY <1>3 DEF interrupt_task, Actors
<1>4. CASE ThreadIdle
  BY <1>4 DEF ThreadIdle, Actors
<1>5. ASSUME NEW a \in Actors, take_active_turn(a) PROVE Reported(y)'
  <2>1. pc[a] = "take" /\ aturn[a] = None /\ UNCHANGED <<turn, ends>>
    BY <1>5 DEF take_active_turn
  <2>2. \A b \in Actors : aturn[b] = y => aturn'[b] = y
    BY <1>5, <2>1 DEF take_active_turn
  <2>. QED  BY <2>1, <2>2
<1>6. ASSUME NEW a \in Actors, handle_task_abort(a) PROVE Reported(y)'
  <2>1. /\ pc[a] = "abort" /\ UNCHANGED aturn
        /\ turn' = [turn EXCEPT ![aturn[a]] = IF @ = "ended" THEN @ ELSE "killed"]
        /\ ends' = [ends EXCEPT ![aturn[a]] = @ + 1]
    BY <1>6 DEF handle_task_abort
  <2>2. aturn[a] \in Turns /\ ends[aturn[a]] = 0
    BY <2>1 DEF StartInv
  <2>3. CASE y = aturn[a]
    BY <2>1, <2>2, <2>3
  <2>4. CASE y # aturn[a]
    BY <2>1, <2>2, <2>4
  <2>. QED  BY <2>3, <2>4
<1>7. ASSUME NEW a \in Actors, clear_pending(a) PROVE Reported(y)'
  <2>1. pc[a] = "clear" /\ aturn' = [aturn EXCEPT ![a] = None] /\ UNCHANGED <<turn, ends>>
    BY <1>7 DEF clear_pending
  <2>2. ends[aturn[a]] = 1
    BY <2>1 DEF StartInv
  <2>. QED  BY <2>1, <2>2
<1>8. ASSUME NEW a \in Actors, HasTriggerMail(a) \/ IdleCheck(a) PROVE Reported(y)'
  BY <1>8 DEF HasTriggerMail, IdleCheck
<1>9. ASSUME NEW a \in Actors, ReserveForMail(a) \/ ReserveIdle(a) PROVE Reported(y)'
  BY <1>9 DEF ReserveForMail, ReserveIdle, Reserve
<1>10. ASSUME NEW a \in Actors, IdleRecheck(a) PROVE Reported(y)'
  BY <1>10 DEF IdleRecheck, ClearReserved
<1>11. ASSUME NEW a \in Actors, StillReserved(a) PROVE Reported(y)'
  BY <1>11 DEF StillReserved
<1>12. ASSUME NEW a \in Actors, DrainPending(a) PROVE Reported(y)'
  <2>. DEFINE n == Min(FreeTurns)
  <2>1. n \in Turns
    BY <1>12, FreshTurn DEF DrainPending
  <2>2. /\ pc[a] = "drain" /\ aturn' = [aturn EXCEPT ![a] = n]
        /\ turn' = [turn EXCEPT ![n] = "starting"] /\ ends' = [ends EXCEPT ![n] = 0]
    BY <1>12 DEF DrainPending
  <2>. HIDE DEF n
  <2>3. aturn[a] = None
    BY <2>2
  <2>4. CASE y = n
    BY <2>1, <2>2, <2>4
  <2>5. CASE y # n
    BY <2>1, <2>2, <2>3, <2>5
  <2>. QED  BY <2>4, <2>5
<1>13. ASSUME NEW a \in Actors, JoinTurnState(a) PROVE Reported(y)'
  BY <1>13 DEF JoinTurnState
<1>14. ASSUME NEW a \in Actors, InstallTask(a) PROVE Reported(y)'
  <2>1. pc[a] = "install" /\ aturn' = [aturn EXCEPT ![a] = None] /\ UNCHANGED ends
    BY <1>14 DEF InstallTask
  <2>2. task = None /\ aturn[a] \in Turns
    BY <2>1 DEF StartInv, Starts, Starting
  <2>3. turn'[aturn[a]] = "run" /\ \A t \in Turns \ {aturn[a]} : turn'[t] = turn[t]
    BY <1>14, <2>2 DEF InstallTask
  <2>4. CASE y = aturn[a]
    BY <2>1, <2>3, <2>4
  <2>5. CASE y # aturn[a]
    BY <2>1, <2>3, <2>5
  <2>. QED  BY <2>4, <2>5
<1>15. ASSUME NEW t \in Turns, abort_turn_if_active(t) PROVE Reported(y)'
  <2>1. /\ pc["guardian"] = "ready" /\ aturn["guardian"] = None /\ UNCHANGED <<turn, ends>>
        /\ aturn' = [aturn EXCEPT !["guardian"] = task]
    BY <1>15 DEF abort_turn_if_active, Actors
  <2>. QED  BY <2>1
<1>16. ASSUME NEW t \in Turns, RecordInput(t) PROVE Reported(y)'
  BY <1>16 DEF RecordInput
<1>17. ASSUME NEW t \in Turns, RecordPending(t) PROVE Reported(y)'
  BY <1>17 DEF RecordPending
<1>18. ASSUME NEW t \in Turns, RunEnds(t) \/ Flushed(t) PROVE Reported(y)'
  <2>1. CASE RunEnds(t)
    BY <2>1 DEF RunEnds
  <2>2. CASE Flushed(t)
    <3>1. cancelled[t] => \E b \in Actors : aturn[b] = t
      BY <2>2 DEF Flushed, PlaceInv
    <3>. QED  BY <2>2, <3>1 DEF Flushed
  <2>. QED  BY <1>18, <2>1, <2>2
<1>19. ASSUME NEW t \in Turns, TakeFinished(t) PROVE Reported(y)'
  <2>1. CASE task = None
    <3>1. turn[t] = "finish" /\ turn' = [turn EXCEPT ![t] = "ended"] /\ UNCHANGED <<ends, aturn>>
      BY <1>19, <2>1 DEF TakeFinished
    <3>2. \E b \in Actors : aturn[b] = t
      BY <2>1, <3>1 DEF PlaceInv, Running
    <3>. QED  BY <3>1, <3>2
  <2>2. CASE task # None
    <3>1. /\ turn[t] = "finish" /\ turn' = [turn EXCEPT ![t] = "record"]
          /\ UNCHANGED <<ends, aturn>>
      BY <1>19, <2>2 DEF TakeFinished
    <3>. QED  BY <3>1
  <2>. QED  BY <2>1, <2>2
<1>20. ASSUME NEW t \in Turns, Release(t) PROVE Reported(y)'
  BY <1>20 DEF Release
<1>21. ASSUME NEW t \in Turns, TurnComplete(t) PROVE Reported(y)'
  <2>1. /\ turn[t] = "complete" /\ ends[t] = 0 /\ ends' = [ends EXCEPT ![t] = @ + 1]
        /\ turn' = [turn EXCEPT ![t] = "release"] /\ UNCHANGED aturn
    BY <1>21 DEF TurnComplete
  <2>. QED  BY <2>1
<1>22. ASSUME NEW t \in Turns,
             \/ defer_mailbox_delivery_to_next_turn(t)
             \/ accept_mailbox_delivery_for_current_turn(t)
      PROVE  Reported(y)'
  BY <1>22 DEF defer_mailbox_delivery_to_next_turn,
               accept_mailbox_delivery_for_current_turn
<1>23. ASSUME NEW t \in Turns, RecordSteered(t) PROVE Reported(y)'
  BY <1>23 DEF RecordSteered
<1>24. CASE UNCHANGED vars
  BY <1>24 DEF vars
<1>. QED
  BY <1>1, <1>2, <1>3, <1>4, <1>5, <1>6, <1>7, <1>8, <1>9, <1>10, <1>11, <1>12, <1>13,
     <1>14, <1>15, <1>16, <1>17, <1>18, <1>19, <1>20, <1>21, <1>22, <1>23, <1>24
  DEF Next, Submission, Abort, Idle, Start, Actor, Run, Answer, Finish

-----------------------------------------------------------------------------
(* What was handed in.                                                     *)

Kept(x) ==
    \/ x \in mailbox \cup recorded \cup cleared
    \/ \E s \in Slots : InUse(s) /\ x \in pending[s]
    \/ \E t \in Turns : x \in input[t]
    \/ \E a \in Actors : x \in given[a] \cup held[a]

(* NothingLost, item by item.                                              *)
LEMMA NothingLostIs == NothingLost <=> (~contended => \A x \in sent : Kept(x))
BY DEF NothingLost, Kept

(* An item is kept if a step keeps it, wherever it is.                     *)
LEMMA KeptStays ==
    ASSUME NEW x, Kept(x), recorded \subseteq recorded', cleared \subseteq cleared',
           x \in mailbox => Kept(x)',
           \A s \in Slots : InUse(s) /\ x \in pending[s] => Kept(x)',
           \A t \in Turns : x \in input[t] => Kept(x)',
           \A a \in Actors : x \in given[a] \cup held[a] => Kept(x)'
    PROVE  Kept(x)'
<1>1. x \in recorded \cup cleared => Kept(x)'
  BY DEF Kept
<1>. QED  BY <1>1 DEF Kept

(* Every step keeps what was handed in.                                    *)
LEMMA LostNext ==
    ASSUME BaseInv, ~contended => OwnInv, NothingLost, [Next]_vars, ~contended'
    PROVE  \A x \in sent' : Kept(x)'
<1>t. /\ TypeOK /\ TypeOK' /\ (\A a \in Actors : ActorInv(a)) /\ (\A t \in Turns : TurnInv(t))
      /\ task # None => Running(task)
  BY TypeNext DEF BaseInv
<1>o. ~contended /\ (\A a \in Actors : StartInv(a)) /\ (\A t \in Turns : PlaceInv(t)) /\ SlotInv
  BY Undisturbed DEF OwnInv, BaseInv, TypeOK, Flags
<1>k. \A x \in sent : Kept(x)
  BY <1>o, NothingLostIs
<1>. SUFFICES ASSUME NEW x \in sent' PROVE Kept(x)'
  OBVIOUS
<1>m. x \in mailbox' \cup recorded' \cup cleared' => Kept(x)'
  BY DEF Kept
<1>s. \A s \in Slots : InUse(s)' /\ x \in pending'[s] => Kept(x)'
  BY DEF Kept
<1>i. \A t \in Turns : x \in input'[t] => Kept(x)'
  BY DEF Kept
<1>g. \A a \in Actors : x \in given'[a] \cup held'[a] => Kept(x)'
  BY DEF Kept
<1>. USE <1>t, <1>o
         DEF TypeOK, activeVars, queueVars, taskVars, actorVars, itemVars,
             countVars <1>1. ASSUME NEW u \in Inputs, UserInput(u) PROVE Kept(x)'
  <2>1. /\ UNCHANGED <<slot, aslot, tslot, mailbox, recorded, cleared, input, held>>
        /\ pc["loop"] = "ready" /\ "loop" \in Actors /\ sent' = sent \cup {u}
    BY <1>1 DEF UserInput, Actors
  <2>2. given["loop"] = {}
    BY <2>1 DEF ActorInv
  <2>3. CASE task # None
    <3>1. slot \in Slots /\ pending' = [pending EXCEPT ![slot] = @ \cup {u}] /\ UNCHANGED given
      BY <1>1, <2>3 DEF UserInput
    <3>2. \A s \in Slots : pending[s] \subseteq pending'[s] /\ (s = slot => u \in pending'[s])
      BY <2>1, <3>1
    <3>3. CASE x = u
      <4>1. \A s \in Slots : s = slot => InUse(s)'
        BY <2>1 DEF InUse
      <4>. QED  BY <3>1, <3>2, <3>3, <4>1, <1>s
    <3>4. CASE x \in sent
      BY <2>1, <3>1, <3>2, <3>4, <1>k DEF Kept, InUse
    <3>. QED  BY <2>1, <3>3, <3>4
  <2>4. CASE task = None
    <3>1. given' = [given EXCEPT !["loop"] = {u}] /\ UNCHANGED pending
      BY <1>1, <2>4 DEF UserInput
    <3>2. u \in given'["loop"] /\ \A a \in Actors : given[a] \subseteq given'[a]
      BY <2>1, <2>2, <3>1
    <3>3. CASE x = u
      BY <2>1, <3>2, <3>3, <1>g
    <3>4. CASE x \in sent
      BY <2>1, <3>1, <3>2, <3>4, <1>k DEF Kept, InUse
    <3>. QED  BY <2>1, <3>3, <3>4
  <2>. QED  BY <2>3, <2>4
<1>2. ASSUME NEW m \in Mails, inter_agent_communication(m) PROVE Kept(x)'
  <2>1. /\ UNCHANGED <<slot, aslot, tslot, recorded, cleared, pending, input, given, held>>
        /\ sent' = sent \cup {m} /\ mailbox' = mailbox \cup {m}
    BY <1>2 DEF inter_agent_communication
  <2>2. CASE x = m
    BY <2>1, <2>2, <1>m
  <2>3. CASE x \in sent
    BY <2>1, <2>3, <1>k DEF Kept, InUse
  <2>. QED  BY <2>1, <2>2, <2>3
<1>3. CASE interrupt_task
  <2>1. UNCHANGED <<slot, aslot, tslot, mailbox, recorded, cleared,
                    pending, input, given, held, sent>>
    BY <1>3 DEF interrupt_task
  <2>. QED  BY <2>1, <1>k DEF Kept, InUse
<1>4. CASE ThreadIdle
  <2>1. UNCHANGED <<slot, aslot, tslot, mailbox, recorded, cleared,
                    pending, input, given, held, sent>>
    BY <1>4 DEF ThreadIdle
  <2>. QED  BY <2>1, <1>k DEF Kept, InUse
<1>5. ASSUME NEW a \in Actors, take_active_turn(a) PROVE Kept(x)'
  <2>1. /\ UNCHANGED <<tslot, mailbox, recorded, cleared, pending, input, given, held, sent>>
        /\ pc[a] = "take" /\ aslot[a] = None
    BY <1>5 DEF take_active_turn, ActorInv, Starting
  <2>2. \A s \in Slots : InUse(s) => InUse(s)'
    <3>1. CASE task # None
      <4>1. aslot' = [aslot EXCEPT ![a] = slot]
        BY <1>5, <3>1 DEF take_active_turn, TakeTask
      <4>. QED  BY <2>1, <4>1 DEF InUse
    <3>2. CASE task = None
      <4>1. UNCHANGED aslot /\ \A b \in Actors : ~Starts(b)
        BY <1>5, <3>2, GotoAlone DEF take_active_turn, Starts, Starting
      <4>2. slot # None => \E t \in Turns : tslot[t] = slot
        BY <3>2, <4>1 DEF SlotInv, Starts
      <4>. QED  BY <2>1, <4>1, <4>2 DEF InUse
    <3>. QED  BY <3>1, <3>2
  <2>. QED  BY <2>1, <2>2, <1>k DEF Kept
<1>6. ASSUME NEW a \in Actors, handle_task_abort(a) PROVE Kept(x)'
  <2>1. /\ UNCHANGED <<slot, aslot, tslot, mailbox, recorded, pending, given, held, sent>>
        /\ pc[a] = "abort" /\ cleared' = cleared \cup input[aturn[a]]
        /\ input' = [input EXCEPT ![aturn[a]] = {}]
    BY <1>6 DEF handle_task_abort
  <2>2. \A t \in Turns : x \in input[t] => x \in cleared' \/ x \in input'[t]
    BY <2>1
  <2>. QED  BY <2>1, <2>2, <1>k DEF Kept, InUse
<1>7. ASSUME NEW a \in Actors, clear_pending(a) PROVE Kept(x)'
  <2>1. /\ UNCHANGED <<slot, tslot, mailbox, recorded, input, given, held, sent>>
        /\ pc[a] = "clear" /\ cleared' = cleared \cup pending[aslot[a]]
        /\ pending' = [pending EXCEPT ![aslot[a]] = {}] /\ aslot' = [aslot EXCEPT ![a] = None]
    BY <1>7 DEF clear_pending, Done
  <2>2. \A s \in Slots : InUse(s) /\ x \in pending[s]
                         => x \in cleared' \/ (InUse(s)' /\ x \in pending'[s])
    BY <2>1 DEF InUse
  <2>. QED  BY <2>1, <2>2, <1>k DEF Kept
<1>8. ASSUME NEW a \in Actors, HasTriggerMail(a) \/ IdleCheck(a) PROVE Kept(x)'
  <2>1. UNCHANGED <<slot, aslot, tslot, mailbox, recorded, cleared,
                    pending, input, given, held, sent>>
    BY <1>8 DEF HasTriggerMail, IdleCheck
  <2>. QED  BY <2>1, <1>k DEF Kept, InUse
<1>9. ASSUME NEW a \in Actors, ReserveForMail(a) \/ ReserveIdle(a) PROVE Kept(x)'
  <2>1. PICK to \in {"drain", "recheck"} : \E from \in {"reserve", "claim"} : Reserve(a, from, to)
    BY <1>9 DEF ReserveForMail, ReserveIdle
  <2>2. /\ UNCHANGED <<tslot, mailbox, recorded, cleared, input, given, held, sent>>
        /\ pc[a] \in {"reserve", "claim"} /\ aslot[a] = None
    BY <2>1 DEF Reserve, ActorInv, Starting
  <2>3. \A s \in Slots : InUse(s) => InUse(s)' /\ pending'[s] = pending[s]
    <3>1. CASE slot # None
      BY <2>1, <2>2, <3>1 DEF Reserve, InUse
    <3>2. CASE slot = None
      <4>1. GetOrInsert({}) /\ aslot' = [aslot EXCEPT ![a] = slot']
        BY <2>1, <3>2 DEF Reserve
      <4>2. slot' \in Slots /\ ~InUse(slot') /\ \A s \in Slots \ {slot'} : pending'[s] = pending[s]
        BY <3>2, <4>1, Inserts
      <4>. QED  BY <2>2, <3>2, <4>1, <4>2 DEF InUse
    <3>. QED  BY <3>1, <3>2
  <2>. QED  BY <2>2, <2>3, <1>k DEF Kept
<1>10. ASSUME NEW a \in Actors, IdleRecheck(a) PROVE Kept(x)'
  <2>1. /\ UNCHANGED <<tslot, mailbox, recorded, cleared, pending, input, given, held, sent>>
        /\ pc[a] = "recheck" /\ slot = aslot[a] /\ aslot[a] \in Slots /\ pending[aslot[a]] = {}
    BY <1>10 DEF IdleRecheck, StartInv, Starting
  <2>2. \A s \in Slots \ {aslot[a]} : InUse(s) => InUse(s)'
    BY <1>10, <2>1 DEF IdleRecheck, ClearReserved, Done, InUse
  <2>3. \A s \in Slots : InUse(s) /\ x \in pending[s] => InUse(s)' /\ x \in pending'[s]
    BY <2>1, <2>2
  <2>. QED  BY <2>1, <2>3, <1>k DEF Kept
<1>11. ASSUME NEW a \in Actors, StillReserved(a) PROVE Kept(x)'
  <2>1. pc[a] = "hold" /\ slot = aslot[a] /\ task = None
    BY <1>11 DEF StillReserved, StartInv, Starts, Starting
  <2>2. UNCHANGED <<slot, aslot, tslot, mailbox, recorded, cleared,
                    pending, input, given, held, sent>>
    BY <1>11, <2>1 DEF StillReserved
  <2>. QED  BY <2>2, <1>k DEF Kept, InUse
<1>12. ASSUME NEW a \in Actors, DrainPending(a) PROVE Kept(x)'
  <2>. DEFINE n == Min(FreeTurns)
  <2>1. n \in Turns /\ turn[n] \in {"free", "ended", "killed"}
    BY <1>12, FreshTurn DEF DrainPending
  <2>2. /\ UNCHANGED <<slot, aslot, tslot, recorded, cleared, sent>> /\ pc[a] = "drain"
        /\ held' = [held EXCEPT ![a] = PendingInput] /\ given' = [given EXCEPT ![a] = {}]
        /\ input' = [input EXCEPT ![n] = given[a]] /\ TakePendingInput
    BY <1>12 DEF DrainPending
  <2>. HIDE DEF n
  <2>3. input[n] = {}
    BY <2>1 DEF PlaceInv
  <2>4. held[a] = {}
    BY <2>2 DEF ActorInv
  <2>5. x \in PendingInput => Kept(x)'
    BY <2>2, <1>g
  <2>6. x \in mailbox => Kept(x)'
    BY <2>2, <2>5, <1>m DEF PendingInput, TakePendingInput
  <2>7. \A s \in Slots : InUse(s) /\ x \in pending[s] => Kept(x)'
    <3>. SUFFICES ASSUME NEW s \in Slots, InUse(s), x \in pending[s] PROVE Kept(x)'
      OBVIOUS
    <3>1. CASE s = slot
      BY <2>5, <3>1 DEF PendingInput, TurnPending
    <3>2. CASE s # slot
      BY <2>2, <3>2, <1>s DEF TakePendingInput, InUse
    <3>. QED  BY <3>1, <3>2
  <2>8. \A t \in Turns : x \in input[t] => Kept(x)'
    BY <2>1, <2>2, <2>3, <1>i
  <2>9. \A b \in Actors : x \in given[b] \cup held[b] => Kept(x)'
    <3>1. x \in given[a] => Kept(x)'
      BY <2>1, <2>2, <1>i
    <3>2. \A b \in Actors \ {a} : given'[b] = given[b] /\ held'[b] = held[b]
      BY <2>2
    <3>. QED  BY <2>4, <3>1, <3>2, <1>g
  <2>. QED  BY <2>2, <2>6, <2>7, <2>8, <2>9, <1>k, KeptStays
<1>13. ASSUME NEW a \in Actors, JoinTurnState(a) PROVE Kept(x)'
  <2>1. /\ UNCHANGED <<tslot, mailbox, recorded, cleared, input, given, sent>>
        /\ pc[a] = "join" /\ GetOrInsert(held[a]) /\ held' = [held EXCEPT ![a] = {}]
        /\ aslot' = [aslot EXCEPT ![a] = slot']
    BY <1>13 DEF JoinTurnState
  <2>2. slot = aslot[a] /\ held[a] \in SUBSET Items
    BY <2>1 DEF StartInv, Starting
  <2>3. /\ slot' \in Slots /\ (slot # None => slot' = slot) /\ held[a] \subseteq pending'[slot']
        /\ \A s \in Slots : InUse(s) => pending[s] \subseteq pending'[s]
    BY <2>1, <2>2, Inserts
  <2>4. \A s \in Slots : s = slot' \/ InUse(s) => InUse(s)'
    BY <2>1, <2>2, <2>3 DEF InUse
  <2>. QED  BY <2>1, <2>3, <2>4, <1>k DEF Kept
<1>14. ASSUME NEW a \in Actors, InstallTask(a) PROVE Kept(x)'
  <2>1. /\ UNCHANGED <<tslot, mailbox, recorded, cleared, input, given, held, sent>>
        /\ pc[a] = "install" /\ GetOrInsert({}) /\ aslot' = [aslot EXCEPT ![a] = None]
    BY <1>14 DEF InstallTask, Done
  <2>2. slot = aslot[a]
    BY <2>1 DEF StartInv, Starting
  <2>3. /\ slot' \in Slots /\ (slot # None => slot' = slot)
        /\ \A s \in Slots : InUse(s) => pending[s] \subseteq pending'[s]
    BY <2>1, <2>2, Inserts
  <2>4. \A s \in Slots : InUse(s) => InUse(s)'
    BY <2>1, <2>2, <2>3 DEF InUse
  <2>. QED  BY <2>1, <2>3, <2>4, <1>k DEF Kept
<1>15. ASSUME NEW t \in Turns, abort_turn_if_active(t) PROVE Kept(x)'
  <2>1. /\ UNCHANGED <<tslot, mailbox, recorded, cleared, pending, input, given, held, sent>>
        /\ "guardian" \in Actors /\ aslot["guardian"] = None
        /\ aslot' = [aslot EXCEPT !["guardian"] = slot]
    BY <1>15 DEF abort_turn_if_active, TakeTask, ActorInv, Starting, Actors
  <2>2. \A s \in Slots : InUse(s) => InUse(s)'
    BY <2>1 DEF InUse
  <2>. QED  BY <2>1, <2>2, <1>k DEF Kept
<1>16. ASSUME NEW t \in Turns, RecordInput(t) PROVE Kept(x)'
  <2>1. /\ UNCHANGED <<slot, aslot, tslot, mailbox, pending, given, held, sent>>
        /\ input' = [input EXCEPT ![t] = {}] /\ Record(input[t])
    BY <1>16 DEF RecordInput
  <2>2. /\ recorded \subseteq recorded' /\ cleared \subseteq cleared'
        /\ input[t] \subseteq recorded' \cup cleared'
    BY <2>1 DEF Record
  <2>3. \A b \in Turns : x \in input[b] => x \in input'[b] \cup recorded' \cup cleared'
    BY <2>1, <2>2
  <2>. QED  BY <2>1, <2>2, <2>3, <1>k DEF Kept, InUse
<1>17. ASSUME NEW t \in Turns, RecordPending(t) PROVE Kept(x)'
  <2>1. /\ UNCHANGED <<slot, aslot, tslot, input, given, held, sent>>
        /\ TakePendingInput /\ Record(PendingInput)
    BY <1>17 DEF RecordPending
  <2>2. /\ recorded \subseteq recorded' /\ cleared \subseteq cleared'
        /\ PendingInput \subseteq recorded' \cup cleared'
    BY <2>1 DEF Record
  <2>3. x \in mailbox => x \in mailbox' \cup recorded' \cup cleared'
    BY <2>1, <2>2 DEF TakePendingInput, PendingInput
  <2>4. \A s \in Slots : x \in pending[s] => x \in pending'[s] \cup recorded' \cup cleared'
    BY <2>1, <2>2 DEF TakePendingInput, PendingInput, TurnPending
  <2>. QED  BY <2>1, <2>2, <2>3, <2>4, <1>k DEF Kept, InUse
<1>18. ASSUME NEW t \in Turns,
             \/ RunEnds(t) \/ Flushed(t) \/ TurnComplete(t)
             \/ defer_mailbox_delivery_to_next_turn(t)
             \/ accept_mailbox_delivery_for_current_turn(t)
      PROVE  Kept(x)'
  <2>1. UNCHANGED <<slot, aslot, tslot, mailbox, recorded, cleared,
                    pending, input, given, held, sent>>
    BY <1>18 DEF RunEnds, Flushed, TurnComplete,
       defer_mailbox_delivery_to_next_turn, accept_mailbox_delivery_for_current_turn
  <2>. QED  BY <2>1, <1>k DEF Kept, InUse
<1>19. ASSUME NEW t \in Turns, TakeFinished(t) PROVE Kept(x)'
  <2>1. /\ UNCHANGED <<slot, aslot, mailbox, recorded, cleared, pending, input, given, held, sent>>
        /\ turn[t] = "finish" /\ (tslot' = tslot \/ tslot' = [tslot EXCEPT ![t] = slot])
    BY <1>19 DEF TakeFinished
  <2>2. tslot[t] = None
    BY <2>1 DEF PlaceInv, Finishing
  <2>3. \A s \in Slots : InUse(s) => InUse(s)'
    BY <2>1, <2>2 DEF InUse
  <2>. QED  BY <2>1, <2>3, <1>k DEF Kept
<1>20. ASSUME NEW t \in Turns, RecordSteered(t) PROVE Kept(x)'
  <2>1. /\ UNCHANGED <<slot, aslot, tslot, mailbox, input, given, held, sent>>
        /\ Record(pending[tslot[t]]) /\ pending' = [pending EXCEPT ![tslot[t]] = {}]
    BY <1>20 DEF RecordSteered
  <2>2. /\ recorded \subseteq recorded' /\ cleared \subseteq cleared'
        /\ pending[tslot[t]] \subseteq recorded' \cup cleared'
    BY <2>1 DEF Record
  <2>3. \A s \in Slots : x \in pending[s] => x \in pending'[s] \cup recorded' \cup cleared'
    BY <2>1, <2>2
  <2>. QED  BY <2>1, <2>2, <2>3, <1>k DEF Kept, InUse
<1>21. ASSUME NEW t \in Turns, Release(t) PROVE Kept(x)'
  <2>1. /\ UNCHANGED <<aslot, mailbox, recorded, cleared, pending, input, given, held, sent>>
        /\ slot' = IF slot = tslot[t] /\ task = None THEN None ELSE slot
        /\ turn[t] = "release" /\ tslot' = [tslot EXCEPT ![t] = None]
    BY <1>21 DEF Release
  <2>2. tslot[t] \in Slots /\ pending[tslot[t]] = {}
    BY <2>1 DEF PlaceInv, TurnInv
  <2>3. \A s \in Slots \ {tslot[t]} : InUse(s) => InUse(s)'
    BY <2>1 DEF InUse
  <2>4. \A s \in Slots : InUse(s) /\ x \in pending[s] => InUse(s)' /\ x \in pending'[s]
    BY <2>1, <2>2, <2>3
  <2>. QED  BY <2>1, <2>4, <1>k DEF Kept
<1>22. CASE UNCHANGED vars
  BY <1>22, <1>k DEF vars, Kept, InUse
<1>. QED
  BY <1>1, <1>2, <1>3, <1>4, <1>5, <1>6, <1>7, <1>8, <1>9, <1>10, <1>11, <1>12, <1>13,
     <1>14, <1>15, <1>16, <1>17, <1>18, <1>19, <1>20, <1>21, <1>22
  DEF Next, Submission, Abort, Idle, Start, Actor, Run, Answer, Finish

-----------------------------------------------------------------------------
(* The theorems.                                                           *)

(* The invariant holds at the start.                                       *)
LEMMA InvInit == Init => IInv
<1>. SUFFICES ASSUME Init PROVE IInv
  OBVIOUS
<1>. USE DEF Init
<1>f. Flags
  BY DEF Flags
<1>1. TypeOK
  BY <1>f DEF TypeOK, Flags, Starting
<1>2. \A a \in Actors : ActorInv(a)
  BY DEF ActorInv, Starting
<1>3. \A t \in Turns : TurnInv(t)
  BY DEF TurnInv
<1>4. \A a \in Actors : StartInv(a)
  BY DEF StartInv, Starts, Replaces, Starting
<1>5. \A t \in Turns : PlaceInv(t)
  BY DEF PlaceInv, Running, Finishing
<1>6. OneTerminalEvent
  BY DEF OneTerminalEvent, Over
<1>7. NothingLost
  BY DEF NothingLost
<1>. QED  BY <1>1, <1>2, <1>3, <1>4, <1>5, <1>6, <1>7 DEF IInv, BaseInv, OwnInv, SlotInv

(* Every step preserves the invariant.                                     *)
LEMMA InvNext == IInv /\ [Next]_vars => IInv'
<1>. SUFFICES ASSUME IInv, [Next]_vars PROVE IInv'
  OBVIOUS
<1>1. BaseInv /\ (~contended => OwnInv) /\ NothingLost
  BY DEF IInv
<1>2. OneTerminalEvent
  BY DEF IInv, OneTerminalEvent
<1>3. BaseInv'
  BY <1>1, BaseNext
<1>4. ~contended' => OwnInv'
  BY <1>1, StartNext, PlaceNext, SlotNext DEF OwnInv
<1>5. OneTerminalEvent'
  BY <1>1, <1>2, ReportNext DEF OneTerminalEvent, Reported
<1>6. ~contended' => \A x \in sent' : Kept(x)'
  BY <1>1, LostNext
<1>7. NothingLost'
  BY <1>6 DEF NothingLost, Kept
<1>. QED  BY <1>3, <1>4, <1>5, <1>7 DEF IInv

(* It is an invariant of every behaviour.                                  *)
LEMMA Invariance == Safety => []IInv
BY InvInit, InvNext, PTL DEF Safety

(* The state of a session's turns keeps its type.                          *)
THEOREM TypeCorrect == Safety => []TypeOK
<1>1. IInv => TypeOK
  BY DEF IInv, BaseInv
<1>. QED  BY Invariance, <1>1, PTL

(* start_task and abort_all_tasks: at any time at most one turn runs, the  *)
(* one whose task is in active_turn, unless two turns contended for it.    *)
THEOREM RunsAlone == Safety => []OneTurnRuns
<1>1. IInv => OneTurnRuns
  BY DEF IInv, BaseInv, OwnInv, PlaceInv, OneTurnRuns
<1>. QED  BY Invariance, <1>1, PTL

(* on_task_finished and handle_task_abort: between them they report the    *)
(* end of a turn once, unless two turns contended for active_turn.         *)
THEOREM EndReportedOnce == Safety => []OneTerminalEvent
<1>1. IInv => OneTerminalEvent
  BY DEF IInv, OneTerminalEvent
<1>. QED  BY Invariance, <1>1, PTL

(* Steered input, mail and the input of new turns: what was handed in is   *)
(* in a queue that somebody will look at, on its way, in the history, or   *)
(* was refused or dropped with its turn.                                   *)
THEOREM InputKept == Safety => []NothingLost
<1>1. IInv => NothingLost
  BY DEF IInv
<1>. QED  BY Invariance, <1>1, PTL
=============================================================================
