----------------------------- MODULE UnifiedExec -----------------------------
(***************************************************************************)
(* The processes of one thread's shell commands.  exec_command starts a    *)
(* process, puts it into the process store while it runs and answers with  *)
(* its id when it is still running at the deadline; write_stdin finds it   *)
(* there by that id.  The user terminates one process or all of them, the  *)
(* store prunes the least recently used one when it is full, a turn's      *)
(* interrupt drops the future of a call at any of its awaits, and two      *)
(* tasks of each process report its end.                                   *)
(*                                                                         *)
(* A process is named after the exec_command call that started it.  Direct *)
(* calls and those of code mode run side by side, each kind under a lock   *)
(* of its own, so a write_stdin may overlap an exec_command.               *)
(***************************************************************************)
EXTENDS Naturals, FiniteSets

CONSTANTS Calls,         \* exec_command calls, and their processes
          Remote,        \* those that run on an exec-server
          Approved,      \* those with a deferred network approval
          Ids,           \* process ids
          Writers,       \* concurrent write_stdin calls
          MaxProcesses,  \* MAX_UNIFIED_EXEC_PROCESSES
          Protected,     \* the most recently used processes are not pruned
          MaxOps,        \* bound: interrupts, write_stdin, terminate_process and
                         \* terminate_all_processes together
          NoCall, NoId

ASSUME ExecAssumption ==
    /\ Remote \subseteq Calls /\ Approved \subseteq Calls
    /\ NoCall \notin Calls /\ NoId \notin Ids
    /\ MaxProcesses \in Nat /\ Protected \in Nat /\ Protected < MaxProcesses
    /\ MaxOps \in Nat

VARIABLES
    processes,   \* ProcessStore: the entries ...
    reserved,    \* ... and reserved_process_ids
    age,         \* last_used: how many calls were used since each was
    exec,        \* where each exec_command stands
    id,          \* its process id
    victim,      \* the entry it has pruned and not terminated yet
    active,      \* initial_exec_command_active
    outcome,     \* its answer: a live session, that the command is over, or unknown
    os,          \* the process itself; "killed" is told to end
    stream,      \* of a remote process: the server has closed it, or the link is lost
    has_exited,  \* ProcessState ...
    failed,
    denied,      \* its network approval is cancelled
    token,       \* its cancellation token
    output,      \* the output task of a remote process runs
    drained,     \* its streaming task is over and has left its permit
    watcher,     \* its exit watcher
    ends,        \* end events
    wpc,         \* where each write_stdin stands, and its process
    wcall,
    tpc,         \* where terminate_process stands, and its process
    tcall,
    draining,    \* entries that terminate_all_processes has yet to terminate
    ops,         \* operations so far
    took,        \* whose entry terminate_process has taken (history variable)
    slipped      \* an id was handed out twice, or a prune cut short (history variable)

storeVars == <<processes, reserved>>
callVars == <<exec, id, victim, active, outcome>>
procVars == <<os, has_exited, failed, token, output>>
taskVars == <<drained, watcher, ends>>
writeVars == <<wpc, wcall>>
termVars == <<tpc, tcall>>
vars == <<storeVars, age, callVars, procVars, stream, denied, taskVars, writeVars, termVars,
          draining, ops, took, slipped>>

-----------------------------------------------------------------------------
Listed == {c \in Calls : \E i \in Ids : processes[i] = c}
HasExited(c) == has_exited[c] \/ (c \notin Remote /\ os[c] = "gone")
Finished(c) == exec[c] \in {"idle", "leaked", "returned", "aborted"}

\* last_used of c is before that of d.
Older(c, d) == age[c] > age[d]

TypeOK ==
    /\ processes \in [Ids -> Calls \cup {NoCall}]
    /\ reserved \subseteq Ids
    /\ age \in [Calls -> Nat]
    /\ exec \in [Calls -> {"idle", "opening", "insert", "prune", "collect", "release", "fail",
                           "refresh", "returned", "leaked", "aborted"}]
    /\ id \in [Calls -> Ids \cup {NoId}]
    /\ victim \in [Calls -> Calls \cup {NoCall}]
    /\ active \in [Calls -> BOOLEAN]
    /\ outcome \in [Calls -> {"none", "alive", "over", "unknown"}]
    /\ os \in [Calls -> {"none", "running", "killed", "gone"}]
    /\ stream \in [Calls -> {"open", "closed", "lost"}]
    /\ has_exited \in [Calls -> BOOLEAN] /\ failed \in [Calls -> BOOLEAN]
    /\ denied \in [Calls -> BOOLEAN] /\ token \in [Calls -> BOOLEAN]
    /\ output \in [Calls -> BOOLEAN]
    /\ drained \in [Calls -> BOOLEAN]
    /\ watcher \in [Calls -> {"none", "waiting", "done"}]
    /\ ends \in [Calls -> Nat]
    /\ wpc \in [Writers -> {"idle", "write", "refused", "broken", "collect", "collectExited",
                            "release", "fail", "refresh"}]
    /\ wcall \in [Writers -> Calls \cup {NoCall}]
    /\ tpc \in {"idle", "confirm", "remove"}
    /\ tcall \in Calls \cup {NoCall}
    /\ draining \subseteq Calls /\ ops \in 0..MaxOps
    /\ took \subseteq Calls
    /\ slipped \in BOOLEAN
    /\ \A i \in Ids : processes[i] # NoCall => id[processes[i]] = i

Init ==
    /\ processes = [i \in Ids |-> NoCall] /\ reserved = {}
    /\ age = [c \in Calls |-> 0]
    /\ exec = [c \in Calls |-> "idle"] /\ id = [c \in Calls |-> NoId]
    /\ victim = [c \in Calls |-> NoCall] /\ active = [c \in Calls |-> FALSE]
    /\ outcome = [c \in Calls |-> "none"]
    /\ os = [c \in Calls |-> "none"] /\ stream = [c \in Calls |-> "open"]
    /\ has_exited = [c \in Calls |-> FALSE] /\ failed = [c \in Calls |-> FALSE]
    /\ denied = [c \in Calls |-> FALSE] /\ token = [c \in Calls |-> FALSE]
    /\ output = [c \in Calls |-> FALSE]
    /\ drained = [c \in Calls |-> FALSE]
    /\ watcher = [c \in Calls |-> "none"] /\ ends = [c \in Calls |-> 0]
    /\ wpc = [w \in Writers |-> "idle"]
    /\ wcall = [w \in Writers |-> NoCall]
    /\ tpc = "idle" /\ tcall = NoCall
    /\ draining = {} /\ ops = 0
    /\ took = {} /\ slipped = FALSE

-----------------------------------------------------------------------------
(* UnifiedExecProcess and ProcessStore.                                    *)

\* terminate: the process is told to end, its token cancelled and its output
\* task stopped.  For a remote process nothing says that it has exited.
Terminate(S) ==
    /\ os' = [c \in Calls |-> IF c \in S /\ os[c] = "running" THEN "killed" ELSE os[c]]
    /\ token' = [c \in Calls |-> token[c] \/ c \in S]
    /\ output' = [c \in Calls |-> output[c] /\ c \notin S]

\* fail_and_terminate.
FailAndTerminate(S) ==
    /\ Terminate(S)
    /\ failed' = [c \in Calls |-> failed[c] \/ c \in S]
    /\ has_exited' = [c \in Calls |-> has_exited[c] \/ c \in S]

\* ProcessStore::remove: the entry and the reservation, by id.
RemoveEntry(i) ==
    /\ reserved' = reserved \ {i}
    /\ processes' = [processes EXCEPT ![i] = NoCall]

\* refresh_process_state removes an entry whose process has exited.
Exited(i) == {c \in Calls : processes[i] = c /\ HasExited(c)}

Refresh(i) ==
    IF Exited(i) # {}
    THEN RemoveEntry(i) ELSE UNCHANGED storeVars

\* last_used = Instant::now(): what was used after c, or never, gets older.
Touch(c) ==
    age' = [d \in Calls |-> CASE d = c -> 0
                              [] d # c /\ age[d] <= age[c] -> age[d] + 1
                              [] OTHER -> age[d]]

-----------------------------------------------------------------------------
(* ExecCommandHandler::handle_call.                                        *)

Operation == ops < MaxOps /\ ops' = ops + 1

Goto(c, to) == exec' = [exec EXCEPT ![c] = to]

\* allocate_process_id: an id that is not reserved.
allocate_process_id(c, i) ==
    /\ exec[c] = "idle" /\ i \notin reserved
    /\ reserved' = reserved \cup {i}
    /\ id' = [id EXCEPT ![c] = i]
    /\ Goto(c, "opening")
    /\ slipped' = (slipped \/ \E d \in Calls : id[d] = i)
    /\ UNCHANGED <<processes, age, victim, active, outcome, procVars, stream, denied, taskVars,
                   writeVars, termVars, draining, ops, took>>

\* get_command or intercept_apply_patch fails, and the id stays reserved.
HandlerFails(c) ==
    /\ exec[c] = "opening"
    /\ Goto(c, "leaked")
    /\ UNCHANGED <<storeVars, age, id, victim, active, outcome, procVars, stream, denied, taskVars,
                   writeVars, termVars, draining, ops, took, slipped>>

-----------------------------------------------------------------------------
(* exec_command.                                                           *)

\* Mutant: the error returns at once.
OpenFailsAtOnce(c) ==
    /\ exec[c] = "opening"
    /\ exec' = [exec EXCEPT ![c] = "returned"]
    /\ outcome' = [outcome EXCEPT ![c] = "over"]
    /\ UNCHANGED <<storeVars, age, id, victim, active, procVars, stream, denied, taskVars,
                   writeVars, termVars, draining, ops, took, slipped>>

\* A check of the handler turns the command down, or open_session_with_sandbox
\* fails: the approval is refused, the process does not start or the sandbox
\* denies it.
OpenFails(c) ==
    /\ exec[c] = "opening"
    /\ Goto(c, "release")
    /\ UNCHANGED <<storeVars, age, id, victim, active, outcome, procVars, stream, denied, taskVars,
                   writeVars, termVars, draining, ops, took, slipped>>

\* The process is there, Begin is out and the streaming task started.
\* process_started_alive decides, once, who reports its end: the process may
\* be over by then, and its exit task may have said so or not.
Open(c) ==
    /\ exec[c] = "opening"
    /\ Touch(c)
    /\ \/ /\ os' = [os EXCEPT ![c] = "running"]
          /\ output' = [output EXCEPT ![c] = c \in Remote]
          /\ Goto(c, "insert")
          /\ UNCHANGED <<has_exited, token>>
       \/ /\ os' = [os EXCEPT ![c] = "gone"]
          /\ \E told \in BOOLEAN : /\ c \in Remote => told
                                   /\ has_exited' = [has_exited EXCEPT ![c] = told]
          /\ token' = [token EXCEPT ![c] = c \notin Remote /\ has_exited'[c]]
          /\ output' = [output EXCEPT ![c] = c \in Remote]
          /\ Goto(c, "collect")
    /\ UNCHANGED <<storeVars, id, victim, active, outcome, failed, stream, denied, taskVars,
                   writeVars, termVars, draining, ops, took, slipped>>

\* process_id_to_prune_from_meta: exited processes first, then the least
\* recently used, never one of the most recently used.
ToPrune ==
    LET recent == {c \in Listed : Cardinality({d \in Listed : Older(c, d)}) < Protected}
        exited == {c \in Listed \ recent : HasExited(c)}
        pool == IF exited # {} THEN exited ELSE Listed \ recent
    IN  CHOOSE c \in pool : \A d \in pool \ {c} : Older(c, d)

\* Mutant: the store is pruned when it has grown past its limit.
PruneLate == Cardinality(Listed) > MaxProcesses

MustPrune == Cardinality(Listed) >= MaxProcesses

\* Mutant: the new entry takes the slot of the pruned one.
InsertInPlace(c, out) ==
    [i \in Ids |-> IF processes[i] \in out \/ (out = {} /\ i = id[c]) THEN c ELSE processes[i]]

Insert(c, out) ==
    [i \in Ids |-> IF i = id[c] THEN c
                   ELSE IF processes[i] \in out THEN NoCall ELSE processes[i]]

\* store_process, under the lock: prune, then insert.  An entry that had the
\* id is dropped.  Without a pruned entry nothing is awaited before the exit
\* watcher is there.
store_process(c) ==
    LET out == IF MustPrune THEN {ToPrune} ELSE {}
    IN  /\ exec[c] = "insert"
        /\ processes' = Insert(c, out)
        /\ reserved' = reserved \ {id[d] : d \in out}
        /\ active' = [active EXCEPT ![c] = TRUE]
        /\ IF out = {}
           THEN /\ Goto(c, "collect")
                /\ watcher' = [watcher EXCEPT ![c] = "waiting"]
                /\ UNCHANGED victim
           ELSE /\ Goto(c, "prune")
                /\ victim' = [victim EXCEPT ![c] = ToPrune]
                /\ UNCHANGED watcher
        /\ UNCHANGED <<age, id, outcome, procVars, stream, denied, drained, ends,
                       writeVars, termVars, draining, ops, took, slipped>>

\* Mutant: the pruned process is forgotten.
ForgetPruned(c) ==
    /\ exec[c] = "prune"
    /\ Goto(c, "collect")
    /\ watcher' = [watcher EXCEPT ![c] = "waiting"]
    /\ victim' = [victim EXCEPT ![c] = NoCall]
    /\ UNCHANGED <<storeVars, age, id, active, outcome, procVars, stream, denied, drained,
                   ends, writeVars, termVars, draining, ops, took, slipped>>

\* unregister_network_approval_for_entry was awaited; then terminate.
TerminatePruned(c) ==
    /\ exec[c] = "prune"
    /\ Goto(c, "collect")
    /\ watcher' = [watcher EXCEPT ![c] = "waiting"]
    /\ victim' = [victim EXCEPT ![c] = NoCall]
    /\ Terminate({victim[c]})
    /\ UNCHANGED <<storeVars, age, id, active, outcome, has_exited, failed, stream, denied,
                   drained, ends, writeVars, termVars, draining, ops, took, slipped>>

Stored(c) == watcher[c] # "none"

\* Mutant: the failure is reported although the exit watcher reports it too.
EmitFailedTwice(c) ==
    /\ exec[c] = "collect"
    /\ Goto(c, IF denied[c] \/ failed[c] \/ ~Stored(c) THEN "release" ELSE "refresh")
    /\ ends' = IF Stored(c) /\ ~failed[c] THEN ends ELSE [ends EXCEPT ![c] = @ + 1]
    /\ UNCHANGED <<storeVars, age, id, victim, active, outcome, procVars, stream, denied,
                   drained, watcher, writeVars, termVars, draining, ops, took, slipped>>

\* collect_output_until_deadline is over, at the deadline or after the exit.
\* A command that was not stored reports its own end, failed or not.
Collect(c) ==
    /\ exec[c] = "collect"
    /\ Goto(c, IF denied[c] \/ failed[c] \/ ~Stored(c) THEN "release" ELSE "refresh")
    /\ ends' = IF Stored(c) THEN ends ELSE [ends EXCEPT ![c] = @ + 1]
    /\ UNCHANGED <<storeVars, age, id, victim, active, outcome, procVars, stream, denied,
                   drained, watcher, writeVars, termVars, draining, ops, took, slipped>>

\* The guard goes with the call.
Return(c, what) ==
    /\ Goto(c, "returned")
    /\ outcome' = [outcome EXCEPT ![c] = what]
    /\ active' = [active EXCEPT ![c] = FALSE]

\* release_process_id, by id.  It awaits the unregistration of the entry's
\* network approval ...
Release(c) ==
    /\ exec[c] = "release"
    /\ RemoveEntry(id[c])
    /\ IF denied[c] THEN Goto(c, "fail") /\ UNCHANGED <<outcome, active>> ELSE Return(c, "over")
    /\ UNCHANGED <<age, id, victim, procVars, stream, denied, taskVars, writeVars, termVars,
                   draining, ops, took, slipped>>

\* ... and then a denied process is made to fail (fail_process_with_message).
FailReleased(c) ==
    /\ exec[c] = "fail"
    /\ Return(c, "over")
    /\ FailAndTerminate({c})
    /\ UNCHANGED <<storeVars, age, id, victim, stream, denied, taskVars, writeVars, termVars,
                   draining, ops, took, slipped>>

RefreshReturn(c) ==
    /\ exec[c] = "refresh"
    /\ Refresh(id[c])
    /\ Return(c, CASE processes[id[c]] = NoCall -> "unknown"
                   [] Exited(id[c]) # {} -> "over"
                   [] OTHER -> "alive")
    /\ FailAndTerminate({d \in Exited(id[c]) : denied[c]})
    /\ UNCHANGED <<age, id, victim, stream, denied, taskVars, writeVars, termVars, draining, ops,
                   took, slipped>>

\* The turn is interrupted: the task is aborted at one of its awaits and its
\* future dropped, the guard with it if store_process is over.  Only an entry
\* with a network approval has its unregistration awaited.
Abort(c) ==
    /\ ~Finished(c) /\ Operation
    /\ exec[c] = "prune" => victim[c] \in Approved
    /\ Goto(c, "aborted")
    /\ active' = [active EXCEPT ![c] = @ /\ exec[c] = "prune"]
    /\ victim' = [victim EXCEPT ![c] = NoCall]
    /\ slipped' = (slipped \/ exec[c] = "prune")
    /\ UNCHANGED <<storeVars, age, id, outcome, procVars, stream, denied, taskVars,
                   writeVars, termVars, draining, took>>

\* Somebody has an Arc of the process: its call, its entry, the task that
\* waits for a network denial, its exit watcher, or whoever works with it.
Held(c) ==
    \/ ~Finished(c)
    \/ c \in Listed
    \/ c \in Approved /\ ~token[c]
    \/ watcher[c] = "waiting"
    \/ \E w \in Writers : wcall[w] = c
    \/ tcall = c
    \/ c \in draining
    \/ \E d \in Calls : victim[d] = c

\* Drop for UnifiedExecProcess.
DropProcess(c) ==
    /\ ~Held(c) /\ (os[c] = "running" \/ (os[c] = "gone" /\ ~token[c]))
    /\ Terminate({c})
    /\ UNCHANGED <<storeVars, age, callVars, has_exited, failed, stream, denied, taskVars,
                   writeVars, termVars, draining, ops, took, slipped>>

-----------------------------------------------------------------------------
(* The process and its tasks.                                              *)

Exits(c) ==
    /\ os[c] \in {"running", "killed"}
    /\ os' = [os EXCEPT ![c] = "gone"]
    /\ UNCHANGED <<storeVars, age, callVars, has_exited, failed, token, output, stream, denied,
                   taskVars, writeVars, termVars, draining, ops, took, slipped>>

\* The server closes the stream of a remote process that has exited, when no
\* descendant holds its pipes any more; the link to the server may be lost, or
\* the server refuse to read, at any time.
StreamEnds(c) ==
    /\ c \in Remote /\ os[c] # "none" /\ stream[c] = "open"
    /\ \/ os[c] = "gone" /\ stream' = [stream EXCEPT ![c] = "closed"]
       \/ stream' = [stream EXCEPT ![c] = "lost"]
    /\ UNCHANGED <<storeVars, age, callVars, procVars, denied, taskVars, writeVars, termVars,
                   draining, ops, took, slipped>>

\* The exit task of a local process cancels the token too; the output task of
\* a remote one, unless it was stopped, does so when the output has closed.
ObserveExit(c) ==
    /\ os[c] = "gone" /\ ~has_exited[c] /\ (c \in Remote => output[c] /\ stream[c] # "lost")
    /\ has_exited' = [has_exited EXCEPT ![c] = TRUE]
    /\ token' = [token EXCEPT ![c] = @ \/ c \notin Remote]
    /\ UNCHANGED <<storeVars, age, callVars, os, failed, output, stream, denied, taskVars,
                   writeVars, termVars, draining, ops, took, slipped>>

ObserveClosed(c) ==
    /\ stream[c] = "closed" /\ has_exited[c] /\ output[c]
    /\ token' = [token EXCEPT ![c] = TRUE]
    /\ output' = [output EXCEPT ![c] = FALSE]
    /\ UNCHANGED <<storeVars, age, callVars, os, has_exited, failed, stream, denied, taskVars,
                   writeVars, termVars, draining, ops, took, slipped>>

\* Mutant: a failed read ends the task without cancelling the token.
FailQuietly(c) ==
    /\ stream[c] = "lost" /\ output[c]
    /\ failed' = [failed EXCEPT ![c] = TRUE]
    /\ has_exited' = [has_exited EXCEPT ![c] = TRUE]
    /\ output' = [output EXCEPT ![c] = FALSE]
    /\ UNCHANGED <<storeVars, age, callVars, os, token, stream, denied, taskVars,
                   writeVars, termVars, draining, ops, took, slipped>>

\* The session failed, or the read did.
ObserveFailure(c) ==
    /\ stream[c] = "lost" /\ output[c]
    /\ failed' = [failed EXCEPT ![c] = TRUE]
    /\ has_exited' = [has_exited EXCEPT ![c] = TRUE]
    /\ token' = [token EXCEPT ![c] = TRUE]
    /\ output' = [output EXCEPT ![c] = FALSE]
    /\ UNCHANGED <<storeVars, age, callVars, os, stream, denied, taskVars,
                   writeVars, termVars, draining, ops, took, slipped>>

\* The proxy denies the process a connection ...
NetworkDenied(c) ==
    /\ c \in Approved /\ os[c] # "none" /\ ~denied[c]
    /\ denied' = [denied EXCEPT ![c] = TRUE]
    /\ UNCHANGED <<storeVars, age, callVars, procVars, stream, taskVars,
                   writeVars, termVars, draining, ops, took, slipped>>

\* ... and terminate_process_on_network_denial ends it.
DenialTask(c) ==
    /\ denied[c] /\ ~failed[c]
    /\ FailAndTerminate({c})
    /\ UNCHANGED <<storeVars, age, callVars, stream, denied, taskVars,
                   writeVars, termVars, draining, ops, took, slipped>>

\* start_streaming_output: after the token and the grace period, notify_one.
Drain(c) ==
    /\ token[c] /\ ~drained[c]
    /\ drained' = [drained EXCEPT ![c] = TRUE]
    /\ UNCHANGED <<storeVars, age, callVars, procVars, stream, denied, watcher, ends,
                   writeVars, termVars, draining, ops, took, slipped>>

\* spawn_exit_watcher.
WatcherEmit(c) ==
    /\ watcher[c] = "waiting" /\ token[c] /\ drained[c]
    /\ watcher' = [watcher EXCEPT ![c] = "done"]
    /\ ends' = [ends EXCEPT ![c] = @ + 1]
    /\ UNCHANGED <<storeVars, age, callVars, procVars, stream, denied, drained,
                   writeVars, termVars, draining, ops, took, slipped>>

-----------------------------------------------------------------------------
(* write_stdin.                                                            *)

WGoto(w, to) ==
    /\ wpc' = [wpc EXCEPT ![w] = to]
    /\ wcall' = IF to = "idle" THEN [wcall EXCEPT ![w] = NoCall] ELSE wcall

\* prepare_process_handles.  A poll and an interrupt go straight on to collect
\* output; input for a process without a terminal is refused.
prepare_process_handles(w, i) ==
    /\ wpc[w] = "idle" /\ processes[i] # NoCall
    /\ Operation
    /\ Touch(processes[i])
    /\ \/ /\ \E to \in {"write", "collect"} : wpc' = [wpc EXCEPT ![w] = to]
          /\ wcall' = [wcall EXCEPT ![w] = processes[i]]
       \/ UNCHANGED writeVars
    /\ UNCHANGED <<storeVars, callVars, procVars, stream, denied, taskVars, termVars, draining, took,
                   slipped>>

\* UnifiedExecProcess::write.  A server that no longer knows the process has
\* it marked as exited.
Write(w) ==
    LET c == wcall[w]
        unknown == c \in Remote /\ os[c] = "gone"
    IN  /\ wpc[w] = "write"
        /\ \/ WGoto(w, "collect") /\ UNCHANGED <<has_exited, token>>
           \/ /\ os[c] = "gone"
              /\ WGoto(w, "refused")
              /\ has_exited' = [has_exited EXCEPT ![c] = @ \/ unknown]
              /\ token' = [token EXCEPT ![c] = @ \/ unknown]
           \/ /\ c \in Remote
              /\ WGoto(w, "broken") /\ UNCHANGED <<has_exited, token>>
        /\ UNCHANGED <<storeVars, age, callVars, os, failed, output, stream, denied, taskVars, termVars,
                       draining, ops, took, slipped>>

\* After a failed write: an exited process is answered for, a broken
\* connection ends it.
WriteFailed(w) ==
    LET i == id[wcall[w]]
        exited == Exited(i) # {}
        broken == ~exited /\ wpc[w] = "broken"
    IN  /\ wpc[w] \in {"refused", "broken"}
        /\ Refresh(i)
        /\ WGoto(w, CASE exited -> "collectExited" [] broken -> "release" [] OTHER -> "idle")
        /\ Terminate({c \in {wcall[w]} : broken})
        /\ UNCHANGED <<age, callVars, has_exited, failed, stream, denied, taskVars, termVars,
                       draining, ops, took, slipped>>

WCollect(w) ==
    LET c == wcall[w]
    IN  /\ wpc[w] \in {"collect", "collectExited"}
        /\ WGoto(w, CASE denied[c] \/ failed[c] -> "release"
                      [] ~(denied[c] \/ failed[c]) /\ wpc[w] = "collectExited" -> "idle"
                      [] OTHER -> "refresh")
        /\ UNCHANGED <<storeVars, age, callVars, procVars, stream, denied, taskVars, termVars,
                       draining, ops, took, slipped>>

\* By id again, whoever has it by now; then, after the await, as above.
WRelease(w) ==
    /\ wpc[w] = "release"
    /\ RemoveEntry(id[wcall[w]])
    /\ WGoto(w, IF denied[wcall[w]] THEN "fail" ELSE "idle")
    /\ UNCHANGED <<age, callVars, procVars, stream, denied, taskVars, termVars, draining, ops,
                   took, slipped>>

WFail(w) ==
    /\ wpc[w] = "fail"
    /\ FailAndTerminate({wcall[w]})
    /\ WGoto(w, "idle")
    /\ UNCHANGED <<storeVars, age, callVars, stream, denied, taskVars, termVars, draining, ops,
                   took, slipped>>

WRefresh(w) ==
    /\ wpc[w] = "refresh"
    /\ Refresh(id[wcall[w]])
    /\ FailAndTerminate({c \in Exited(id[wcall[w]]) : denied[c]})
    /\ WGoto(w, "idle")
    /\ UNCHANGED <<age, callVars, stream, denied, taskVars, termVars, draining, ops, took, slipped>>

WAbort(w) ==
    /\ wpc[w] # "idle"
    /\ WGoto(w, "idle")
    /\ UNCHANGED <<storeVars, age, callVars, procVars, stream, denied, taskVars, termVars,
                   draining, ops, took, slipped>>

-----------------------------------------------------------------------------
(* terminate_process and terminate_all_processes.                          *)

TerminateBegin(i) ==
    /\ tpc = "idle" /\ processes[i] # NoCall
    /\ Operation
    /\ tcall' = processes[i]
    /\ tpc' = IF HasExited(processes[i]) THEN "remove" ELSE "confirm"
    /\ UNCHANGED <<storeVars, age, callVars, procVars, stream, denied, taskVars, writeVars,
                   draining, took, slipped>>

\* terminate_confirmed, whose request to an exec-server may fail.
TerminateConfirmed ==
    /\ tpc = "confirm"
    /\ \/ /\ tpc' = "remove" /\ UNCHANGED tcall
          /\ Terminate({tcall})
          /\ has_exited' = [has_exited EXCEPT ![tcall] = TRUE]
       \/ /\ tcall \in Remote
          /\ tpc' = "idle" /\ tcall' = NoCall
          /\ UNCHANGED <<os, token, output, has_exited>>
    /\ UNCHANGED <<storeVars, age, callVars, failed, stream, denied, taskVars, writeVars,
                   draining, ops, took, slipped>>

\* Mutant: whatever has the id by now is taken for the process confirmed.
RemoveWhatever ==
    /\ tpc = "remove"
    /\ tpc' = "idle" /\ tcall' = NoCall
    /\ LET c == processes[id[tcall]]
       IN  IF c \in Calls /\ ~active[c]
           THEN RemoveEntry(id[tcall]) /\ took' = took \cup {c}
           ELSE UNCHANGED <<storeVars, took>>
    /\ UNCHANGED <<age, callVars, procVars, stream, denied, taskVars, writeVars, draining, ops,
                   slipped>>

\* The lock was released meanwhile: the entry must still be that process's,
\* and its first call must not need it any more.
TerminateRemove ==
    /\ tpc = "remove"
    /\ tpc' = "idle" /\ tcall' = NoCall
    /\ LET c == processes[id[tcall]]
       IN  IF c = tcall /\ ~active[c]
           THEN RemoveEntry(id[tcall]) /\ took' = took \cup {c}
           ELSE UNCHANGED <<storeVars, took>>
    /\ UNCHANGED <<age, callVars, procVars, stream, denied, taskVars, writeVars, draining, ops,
                   slipped>>

\* Every entry and every reservation, also those of calls that have yet to
\* store their process.
terminate_all_processes ==
    /\ draining = {} /\ Operation
    /\ draining' = Listed
    /\ processes' = [i \in Ids |-> NoCall]
    /\ reserved' = {}
    /\ UNCHANGED <<age, callVars, procVars, stream, denied, taskVars, writeVars, termVars, took,
                   slipped>>

TerminateDrained(c) ==
    /\ c \in draining
    /\ draining' = draining \ {c}
    /\ Terminate({c})
    /\ UNCHANGED <<storeVars, age, callVars, has_exited, failed, stream, denied, taskVars,
                   writeVars, termVars, ops, took, slipped>>

-----------------------------------------------------------------------------
Handler(c) == (\E i \in Ids : allocate_process_id(c, i))
              \/ HandlerFails(c)
Exec(c) == \/ OpenFails(c) \/ Open(c) \/ store_process(c) \/ TerminatePruned(c)
           \/ Collect(c) \/ Release(c) \/ FailReleased(c) \/ RefreshReturn(c)
Observe(c) == ObserveExit(c) \/ ObserveClosed(c) \/ ObserveFailure(c)
Denial(c) == NetworkDenied(c) \/ DenialTask(c)
WriteStdin(w) == \/ \E i \in Ids : prepare_process_handles(w, i)
                 \/ Write(w) \/ WriteFailed(w) \/ WCollect(w) \/ WRelease(w) \/ WFail(w)
                 \/ WRefresh(w) \/ WAbort(w)
User == \/ \E i \in Ids : TerminateBegin(i)
        \/ TerminateConfirmed \/ TerminateRemove \/ terminate_all_processes
        \/ \E c \in Calls : TerminateDrained(c)

Next == \/ \E c \in Calls : \/ Handler(c) \/ Exec(c) \/ Abort(c) \/ DropProcess(c)
                            \/ Exits(c) \/ StreamEnds(c) \/ Observe(c) \/ Denial(c)
                            \/ Drain(c) \/ WatcherEmit(c)
        \/ \E w \in Writers : WriteStdin(w)
        \/ User

\* Calls and tasks run; the output task of a remote process learns that its
\* stream was closed or is lost, if it ever is.  Each step of theirs happens at
\* most once for a process, so that fairness to all of them together is
\* fairness to each.
Running(c) == Exec(c) \/ Observe(c) \/ Drain(c) \/ WatcherEmit(c)
Fairness == WF_vars(\E c \in Calls : Running(c))

Safety == Init /\ [][Next]_vars
Spec == Safety /\ Fairness

-----------------------------------------------------------------------------
(* Properties.                                                             *)

\* A command's end is reported at most once, whoever reports it, and never
\* while its process runs on undisturbed.
OneEnd ==
    \A c \in Calls : /\ ends[c] <= 1
                     /\ ends[c] = 1 => os[c] # "running" \/ has_exited[c]

\* The store keeps to its limit however many calls store a process at once.
WithinLimit == Cardinality(Listed) <= MaxProcesses

\* terminate_process takes the entry of a process that has exited, not of one
\* that has got the id meanwhile and runs, and never from the call that started
\* it: that call still finds it.
TerminateTakesOwn ==
    \A c \in Calls : c \in took => HasExited(c) /\ outcome[c] # "unknown"

\* c runs in the background, neither a poll nor the user can reach it, and no
\* denial is about to end it.
Lost(c) ==
    /\ os[c] = "running" /\ ~has_exited[c] /\ watcher[c] = "waiting" /\ ~denied[c]
    /\ c \notin Listed /\ c \notin draining
    /\ \A d \in Calls : victim[d] # c

\* A background process can be listed, polled and terminated as long as it
\* runs, unless an id was handed out twice or a prune was cut short.  Those two
\* the code lets happen, and then a process may be out of reach.
ReachableUnlessSlipped == ~slipped => \A c \in Calls : ~Lost(c)

\* A call that returned from exec_command without a process to show for it has
\* given its id back.  One that failed in the handler before ("leaked") or was
\* interrupted ("aborted") may keep it.
IdGivenBack ==
    \A c \in Calls :
        /\ exec[c] = "returned" /\ c \notin Listed
        /\ \A d \in Calls \ {c} : id[d] # id[c]
        => id[c] \notin reserved

\* What the code can know of: the process was told to end, is a local one and
\* gone, or a remote one whose stream the server has closed or whose link is
\* lost.  A remote process that has exited while a descendant holds its output
\* is not over, and none of the tasks says so.
Over(c) ==
    \/ os[c] = "killed"
    \/ IF c \in Remote THEN stream[c] # "open" ELSE os[c] = "gone"

\* Once a command that was announced is over its end is announced, also when
\* its call was interrupted after the exit watcher was there.
EveryBeginEnds ==
    \A c \in Calls : Over(c) ~> (ends[c] = 1 \/ (exec[c] = "aborted" /\ watcher[c] = "none"))
==============================================================================
