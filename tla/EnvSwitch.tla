------------------------------ MODULE EnvSwitch ------------------------------
(***************************************************************************)
(* The env_switch tool and the resolver that environment-aware tools call, *)
(* for a family of threads that share one EnvironmentManager.              *)
(*                                                                         *)
(* Within a thread, env_switch holds the tool-call lock exclusively, so a  *)
(* thread does one thing at a time; threads interleave freely, between any *)
(* two lock acquisitions.  pc[t] is where thread t stands.                 *)
(***************************************************************************)
EXTENDS EnvironmentManager

CONSTANTS Parent,        \* [Threads -> Threads \cup {None}], parent_thread_id
          External,      \* threads under an external sandbox
          HostCwd,       \* the cwd of the host session
          MaxSwitches    \* bound: env_switch calls per thread

ASSUME EnvSwitchAssumption ==
    /\ Parent \in [Threads -> Threads \cup {None}]
    /\ None \notin Threads
    /\ \A t \in Threads : Parent[t] # t
    /\ External \subseteq Threads
    /\ HostCwd \notin Cwds \cup {None}
    /\ MaxSwitches \in [Threads -> Nat]

VARIABLES pc,                 \* control state of each thread
          sw,                 \* locals of the running tool call: id and cwd
          turn_environments,  \* the frozen turn list: id -> cwd
          primary,            \* its first entry; None until the thread runs
          res,                \* answer of the running resolve_tool_environment
          switches            \* env_switch calls made

vars == <<managerVars, pc, sw, turn_environments, primary, res, switches>>

SwitchPCs == {"provision", "cwd", "setMetadata", "setThreadMetadata", "upsert",
              "setLauncher", "clearLauncher", "setLast", "record"}
ResolvePCs == {"secondRead", "metadata", "resolved"}

NoCall == [id |-> None, cwd |-> None]
NoRes == [from |-> "none", id |-> None, cwd |-> None, origin |-> "explicit"]

AnswerKinds == {"none", "turn", "metadata", "host", "unknown", "missing"}
Origins == {"explicit", "env_switch", "primary"}
Answers == [from : AnswerKinds, id : Ids \cup {None},
            cwd : Cwds \cup {HostCwd, None}, origin : Origins]

TypeOK ==
    /\ ManagerTypeOK
    /\ pc \in [Threads -> {"absent", "idle"} \cup SwitchPCs \cup ResolvePCs]
    /\ sw \in [Threads -> [id : Ids \cup {None}, cwd : Cwds \cup {None}]]
    /\ turn_environments \in [Threads -> [Ids -> Cwds \cup {HostCwd, None}]]
    /\ primary \in [Threads -> Ids \cup {None}]
    /\ res \in [Threads -> Answers]
    /\ switches \in [Threads -> Nat]

Init ==
    /\ ManagerInit
    /\ pc = [t \in Threads |-> "absent"]
    /\ sw = [t \in Threads |-> NoCall]
    /\ turn_environments = [t \in Threads |-> [id \in Ids |-> None]]
    /\ primary = [t \in Threads |-> None]
    /\ res = [t \in Threads |-> NoRes]
    /\ switches = [t \in Threads |-> 0]

Goto(t, label) == pc' = [pc EXCEPT ![t] = label]

-----------------------------------------------------------------------------
(* What a thread sees.                                                     *)

\* First of [own key, parent key] with an env_switch selection.
last_env_switch_environment_id(t) ==
    IF last_environment_id[t] = None /\ Parent[t] # None
    THEN last_environment_id[Parent[t]]
    ELSE last_environment_id[t]

default_tool_environment_id(t) ==
    IF last_env_switch_environment_id(t) # None
    THEN last_env_switch_environment_id(t)
    ELSE primary[t]

dynamic_environment_visible_to_thread(t, id) ==
    \/ Contains(thread_environment_ids[t], id)
    \/ Parent[t] # None /\ Contains(thread_environment_ids[Parent[t]], id)

ThreadMetadata(t, id) ==
    get_thread_environment_metadata_for_keys(t, Parent[t], id)

\* The base of a relative switch that names none.
implicit_base_launcher(t) ==
    IF last_environment_id[t] # None
    THEN IF last_environment_id[t] = Local THEN None ELSE last_launcher[t]
    ELSE IF Parent[t] # None THEN last_launcher[Parent[t]] ELSE None

-----------------------------------------------------------------------------
(* Threads come into being with a frozen list of environments.             *)

\* A root thread freezes every environment registered at that moment, each
\* with the host cwd, the manager's default first.
StartRoot(t) ==
    /\ pc[t] = "absent" /\ Parent[t] = None
    /\ turn_environments' = [turn_environments EXCEPT ![t] =
           [id \in Ids |-> IF id \in environments THEN HostCwd ELSE None]]
    /\ primary' = [primary EXCEPT ![t] = Local]
    /\ Goto(t, "idle")
    /\ UNCHANGED <<managerVars, sw, res, switches>>

\* The cwd a sub-agent inherits for its parent's default environment: the
\* family's metadata, else whatever any thread last recorded for the id.
InheritedCwd(t, id) ==
    LET family == ThreadMetadata(t, id)
        meta == IF family # None THEN family ELSE env_metadata[id]
    IN  IF id = Local THEN HostCwd
        ELSE IF /\ meta # None
                /\ turn_environments[t][id] # None \/ id \in environments
             THEN meta
             ELSE turn_environments[t][id]

\* The spawn handlers: the child's list is the parent's, with the parent's
\* effective default moved (or added) to the front.
environment_selections_with_default(t) ==
    LET d == default_tool_environment_id(t)
    IN  [turn_environments[t] EXCEPT ![d] = InheritedCwd(t, d)]

Spawn(t, child) ==
    /\ pc[t] = "idle" /\ pc[child] = "absent" /\ Parent[child] = t
    /\ LET list == environment_selections_with_default(t)
           d == default_tool_environment_id(t)
       IN  /\ turn_environments' = [turn_environments EXCEPT ![child] = list]
           /\ primary' = [primary EXCEPT ![child] =
                              IF list[d] # None THEN d ELSE primary[t]]
    /\ Goto(child, "idle")
    /\ UNCHANGED <<managerVars, sw, res, switches>>

-----------------------------------------------------------------------------
(* env_switch, one step per await or lock.                                 *)

BeginRemote(t, launcher) ==
    /\ t \notin External
    /\ switches[t] < MaxSwitches[t]
    /\ switches' = [switches EXCEPT ![t] = @ + 1]
    /\ sw' = [sw EXCEPT ![t] = [id |-> launcher, cwd |-> None]]
    /\ Goto(t, "provision")
    /\ UNCHANGED <<managerVars, turn_environments, primary, res>>

\* target or hops: an absolute address.
SwitchAbsolute(t, launcher) == pc[t] = "idle" /\ BeginRemote(t, launcher)

\* extend on a named base, which must be visible and a launcher id.
SwitchExtendBase(t, base, hop) ==
    /\ pc[t] = "idle"
    /\ \/ turn_environments[t][base] # None
       \/ dynamic_environment_visible_to_thread(t, base)
    /\ Append(base, hop) \in Launchers
    /\ BeginRemote(t, Append(base, hop))

\* extend on the thread's (or, before its first switch, its parent's) cursor.
SwitchExtend(t, hop) ==
    /\ pc[t] = "idle"
    /\ implicit_base_launcher(t) # None
    /\ Append(implicit_base_launcher(t), hop) \in Launchers
    /\ BeginRemote(t, Append(implicit_base_launcher(t), hop))

\* ensure_remote_codex came back.
Provisioned(t) ==
    /\ pc[t] = "provision"
    /\ Goto(t, "cwd")
    /\ UNCHANGED <<managerVars, sw, turn_environments, primary, res, switches>>

\* Provisioning or the cwd script failed, or the turn was interrupted at one
\* of the two awaits.
SwitchFails(t) ==
    /\ pc[t] \in {"provision", "cwd"}
    /\ sw' = [sw EXCEPT ![t] = NoCall]
    /\ Goto(t, "idle")
    /\ UNCHANGED <<managerVars, turn_environments, primary, res, switches>>

\* Mutant: the host's cwd stands in for the remote one.
CwdFromHost(t, cwd) ==
    /\ pc[t] = "cwd"
    /\ sw' = [sw EXCEPT ![t].cwd = HostCwd]
    /\ Goto(t, "setMetadata")
    /\ UNCHANGED <<managerVars, turn_environments, primary, res, switches>>

CwdResolved(t, cwd) ==
    /\ pc[t] = "cwd"
    /\ sw' = [sw EXCEPT ![t].cwd = cwd]
    /\ Goto(t, "setMetadata")
    /\ UNCHANGED <<managerVars, turn_environments, primary, res, switches>>

SetMetadata(t) ==
    /\ pc[t] = "setMetadata"
    /\ set_environment_metadata(sw[t].id, sw[t].cwd)
    /\ Goto(t, "setThreadMetadata")
    /\ UNCHANGED <<environments, thread_env_metadata, last_launcher,
                   last_environment_id, thread_environment_ids, sw,
                   turn_environments, primary, res, switches>>

\* Mutant: only the process-wide metadata is written.
ThreadMetadataSkipped(t) ==
    /\ pc[t] = "setThreadMetadata"
    /\ Goto(t, "upsert")
    /\ UNCHANGED <<managerVars, sw, turn_environments, primary, res, switches>>

\* Mutant: a sub-agent writes its metadata under its parent's key as well.
ThreadMetadataShared(t) ==
    /\ pc[t] = "setThreadMetadata"
    /\ thread_env_metadata' = [x \in Threads |->
           IF x \in {t, Parent[t]}
           THEN [thread_env_metadata[x] EXCEPT ![sw[t].id] = sw[t].cwd]
           ELSE thread_env_metadata[x]]
    /\ Goto(t, "upsert")
    /\ UNCHANGED <<environments, env_metadata, last_launcher,
                   last_environment_id, thread_environment_ids, sw,
                   turn_environments, primary, res, switches>>

SetThreadMetadata(t) ==
    /\ pc[t] = "setThreadMetadata"
    /\ set_thread_environment_metadata(t, sw[t].id, sw[t].cwd)
    /\ Goto(t, "upsert")
    /\ UNCHANGED <<environments, env_metadata, last_launcher,
                   last_environment_id, thread_environment_ids, sw,
                   turn_environments, primary, res, switches>>

Upsert(t) ==
    /\ pc[t] = "upsert"
    /\ upsert_stdio_environment(sw[t].id)
    /\ Goto(t, "setLauncher")
    /\ UNCHANGED <<env_metadata, thread_env_metadata, last_launcher,
                   last_environment_id, thread_environment_ids, sw,
                   turn_environments, primary, res, switches>>

SetLauncher(t) ==
    /\ pc[t] = "setLauncher"
    /\ set_last_launcher(t, sw[t].id)
    /\ Goto(t, "setLast")
    /\ UNCHANGED <<environments, env_metadata, thread_env_metadata,
                   last_environment_id, thread_environment_ids, sw,
                   turn_environments, primary, res, switches>>

\* target local: no await, so nothing can fail after the guard.
SwitchLocal(t) ==
    /\ pc[t] = "idle"
    /\ switches[t] < MaxSwitches[t]
    /\ switches' = [switches EXCEPT ![t] = @ + 1]
    /\ sw' = [sw EXCEPT ![t] = [id |-> Local, cwd |-> None]]
    /\ Goto(t, "clearLauncher")
    /\ UNCHANGED <<managerVars, turn_environments, primary, res>>

ClearLauncher(t) ==
    /\ pc[t] = "clearLauncher"
    /\ clear_last_launcher(t)
    /\ Goto(t, "setLast")
    /\ UNCHANGED <<environments, env_metadata, thread_env_metadata,
                   last_environment_id, thread_environment_ids, sw,
                   turn_environments, primary, res, switches>>

SetLast(t) ==
    /\ pc[t] = "setLast"
    /\ set_last_environment_id(t, sw[t].id)
    /\ Goto(t, "record")
    /\ UNCHANGED <<environments, env_metadata, thread_env_metadata,
                   last_launcher, thread_environment_ids, sw,
                   turn_environments, primary, res, switches>>

Record(t) ==
    /\ pc[t] = "record"
    /\ record_thread_environment_id(t, sw[t].id)
    /\ sw' = [sw EXCEPT ![t] = NoCall]
    /\ Goto(t, "idle")
    /\ UNCHANGED <<environments, env_metadata, thread_env_metadata,
                   last_launcher, last_environment_id, turn_environments,
                   primary, res, switches>>

-----------------------------------------------------------------------------
(* resolve_tool_environment.  res.origin records where the id came from: the *)
(* call, env_switch's cursor, or the primary turn environment.               *)

Answer(t, from, id, cwd) ==
    /\ res' = [res EXCEPT ![t] = [from |-> from, id |-> id, cwd |-> cwd,
                                 origin |-> res[t].origin]]
    /\ Goto(t, "resolved")

\* environment_id omitted: the first of the two reads of the cursor.
ResolveImplicit(t) ==
    /\ pc[t] = "idle"
    /\ sw' = [sw EXCEPT ![t] = [id |-> default_tool_environment_id(t), cwd |-> None]]
    /\ res' = [res EXCEPT ![t].origin =
                  IF last_env_switch_environment_id(t) # None
                  THEN "env_switch" ELSE "primary"]
    /\ Goto(t, "secondRead")
    /\ UNCHANGED <<managerVars, turn_environments, primary, switches>>

\* Once env_id is known: "local" is the host (the frozen entry, or the
\* manager's with turn.cwd); a default that came from env_switch goes to its
\* metadata; else the frozen turn list, and last the live registry.
Dispatch(t, id, implicit_from_env_switch) ==
    \/ id = Local /\ Answer(t, "host", Local, HostCwd)
    \/ id # Local /\ implicit_from_env_switch
       /\ Goto(t, "metadata") /\ UNCHANGED res
    \/ id # Local /\ ~implicit_from_env_switch
       /\ turn_environments[t][id] # None
       /\ Answer(t, "turn", id, turn_environments[t][id])
    \/ id # Local /\ ~implicit_from_env_switch
       /\ turn_environments[t][id] = None
       /\ dynamic_environment_visible_to_thread(t, id) /\ id \in environments
       /\ Goto(t, "metadata") /\ UNCHANGED res
    \/ id # Local /\ ~implicit_from_env_switch
       /\ turn_environments[t][id] = None
       /\ ~(dynamic_environment_visible_to_thread(t, id) /\ id \in environments)
       /\ Answer(t, "unknown", id, None)

\* The second read decides whether the default came from env_switch.
ResolveSecondRead(t) ==
    /\ pc[t] = "secondRead"
    /\ Dispatch(t, sw[t].id, last_env_switch_environment_id(t) = sw[t].id)
    /\ UNCHANGED <<managerVars, sw, turn_environments, primary, switches>>

ResolveExplicit(t, id) ==
    /\ pc[t] = "idle"
    /\ sw' = [sw EXCEPT ![t] = [id |-> id, cwd |-> None]]
    /\ Dispatch(t, id, FALSE)
    /\ UNCHANGED <<managerVars, turn_environments, primary, switches>>

turn_environment_from_env_switch_metadata(t) ==
    /\ pc[t] = "metadata"
    /\ LET id == sw[t].id
           cwd == ThreadMetadata(t, id)
       IN  \/ id \notin environments /\ Answer(t, "unknown", id, None)
           \/ id \in environments /\ cwd = None /\ Answer(t, "missing", id, None)
           \/ id \in environments /\ cwd # None /\ Answer(t, "metadata", id, cwd)
    /\ UNCHANGED <<managerVars, sw, turn_environments, primary, switches>>

\* The tool runs with the answer and returns.
ResolveReturn(t) ==
    /\ pc[t] = "resolved"
    /\ sw' = [sw EXCEPT ![t] = NoCall]
    /\ res' = [res EXCEPT ![t] = NoRes]
    /\ Goto(t, "idle")
    /\ UNCHANGED <<managerVars, turn_environments, primary, switches>>

-----------------------------------------------------------------------------
SwitchStep(t) ==
    \/ \E l \in Launchers : SwitchAbsolute(t, l)
    \/ \E l \in Launchers, h \in Hops : SwitchExtendBase(t, l, h)
    \/ \E h \in Hops : SwitchExtend(t, h)
    \/ Provisioned(t) \/ SwitchFails(t)
    \/ \E c \in Cwds : CwdResolved(t, c)
    \/ SetMetadata(t) \/ SetThreadMetadata(t) \/ Upsert(t) \/ SetLauncher(t)
    \/ SwitchLocal(t) \/ ClearLauncher(t) \/ SetLast(t) \/ Record(t)

ResolveStep(t) ==
    \/ ResolveImplicit(t) \/ ResolveSecondRead(t)
    \/ \E id \in Ids : ResolveExplicit(t, id)
    \/ turn_environment_from_env_switch_metadata(t)
    \/ ResolveReturn(t)

Next == \E t \in Threads :
            \/ StartRoot(t)
            \/ \E child \in Threads : Spawn(t, child)
            \/ SwitchStep(t)
            \/ ResolveStep(t)

Spec == Init /\ [][Next]_vars

-----------------------------------------------------------------------------
(* env_status, the read-only report: the cwd it shows for the default      *)
(* environment, and the cwd a call that omits environment_id gets if no    *)
(* other thread moves meanwhile.                                           *)

\* Mutant: the process-wide metadata wins over the family's.
StatusFromGlobal(t) ==
    LET d == default_tool_environment_id(t)
        meta == IF d = Local THEN None ELSE env_metadata[d]
    IN  IF meta # None THEN meta ELSE turn_environments[t][d]

build_env_status_output(t) ==
    LET d == default_tool_environment_id(t)
        family == IF d = Local THEN None ELSE ThreadMetadata(t, d)
        meta == CASE d = Local -> None
                  [] d # Local /\ family # None -> family
                  [] OTHER -> env_metadata[d]
    IN  IF meta # None THEN meta ELSE turn_environments[t][d]

ImplicitCwd(t) ==
    LET d == default_tool_environment_id(t)
    IN  CASE d = Local -> HostCwd
          [] d # Local /\ last_env_switch_environment_id(t) = d
                -> ThreadMetadata(t, d)
          [] OTHER -> turn_environments[t][d]

-----------------------------------------------------------------------------
(* Properties.                                                             *)

\* The regime in which no map ever evicts.
BelowCap ==
    /\ IsFiniteSet(Threads) /\ Cardinality(Threads) <= MaxEntries
    /\ IsFiniteSet(Ids) /\ Cardinality(Ids) <= MaxEntries

\* A thread's env_switch selection, and every id recorded for it, names a
\* registered environment for which that same thread holds metadata: the
\* order of handle_remote_switch's writes leaves no window in which another
\* thread of the family can see the id without its cwd.
CursorBacked ==
    \A t \in Threads : \A id \in Launchers :
        (last_environment_id[t] = id \/ Contains(thread_environment_ids[t], id))
            => id \in environments /\ thread_env_metadata[t][id] # None

\* Except between the two writes of its own switch, a thread's relative-mode
\* base is exactly its cursor: the launcher of the remote environment it selected, and
\* nothing when it is on the host or has not switched.
LauncherFollowsCursor ==
    \A t \in Threads :
        pc[t] # "setLast" =>
            last_launcher[t] = IF last_environment_id[t] \in Launchers
                               THEN last_environment_id[t] ELSE None

\* Relative mode never builds on an environment that is not registered, even
\* when it inherits a parent's launcher in the middle of the parent's switch.
BaseRegistered ==
    \A t \in Threads : last_launcher[t] # None => last_launcher[t] \in environments

\* No resolution finds an environment it may use and then no cwd for it.
MetadataNeverMissing == \A t \in Threads : res[t].from # "missing"

\* The cwd env_status reports for the default environment is the cwd a call
\* that omits environment_id runs in.
StatusMatchesResolution ==
    \A t \in Threads :
        pc[t] = "idle" => build_env_status_output(t) = ImplicitCwd(t)

\* Every map stays within its cap, whichever entries eviction picks.
MapsWithinCap ==
    /\ Cardinality(Keys(env_metadata, None)) <= MaxEntries
    /\ Cardinality(Keys(thread_env_metadata, NoEntries)) <= MaxEntries
    /\ Cardinality(Keys(last_launcher, None)) <= MaxEntries
    /\ Cardinality(Keys(last_environment_id, None)) <= MaxEntries
    /\ Cardinality(Keys(thread_environment_ids, <<>>)) <= MaxEntries
    /\ \A t \in Threads :
          /\ Cardinality(Keys(thread_env_metadata[t], None)) <= MaxEntries
          /\ Len(thread_environment_ids[t]) <= MaxEntries

\* A call that omits environment_id, and whose default came from env_switch,
\* is answered with the family's current cwd for it, not with that of the
\* stale entry frozen into the turn.
ImplicitAnswersCurrentCwd ==
    [][\A t \in Threads :
         pc[t] = "secondRead" /\ res[t].origin = "env_switch" /\ res'[t].from = "turn"
             => res'[t].cwd = ThreadMetadata(t, sw[t].id)]_vars

\* For the induction: what the locals of a call hold at each step.
CallTypes(t) ==
    /\ pc[t] \in {"provision", "cwd", "setMetadata", "setThreadMetadata",
                 "upsert", "setLauncher", "metadata"} => sw[t].id \in Launchers
    /\ pc[t] \in {"setMetadata", "setThreadMetadata"} => sw[t].cwd \in Cwds
    /\ pc[t] = "clearLauncher" => sw[t].id = Local
    /\ pc[t] \in {"setLast", "record", "secondRead"} => sw[t].id \in Ids
    /\ pc[t] # "absent" => primary[t] \in Ids

TInv == TypeOK /\ \A t \in Threads : CallTypes(t)

\* ... and how far the writes of a switch, or the reads of a resolution, have
\* come.
CallProgress(t) ==
    LET id == sw[t].id
        ready == id \in environments /\ thread_env_metadata[t][id] # None
    IN  /\ pc[t] = "upsert" => thread_env_metadata[t][id] # None
        /\ pc[t] = "setLauncher" => ready
        /\ pc[t] = "setLast" =>
              \/ id = Local /\ last_launcher[t] = None
              \/ id \in Launchers /\ last_launcher[t] = id /\ ready
        /\ pc[t] = "record" => last_environment_id[t] = id
        /\ pc[t] = "metadata" =>
              id \in environments /\ ThreadMetadata(t, id) # None

\* The inductive invariant behind the properties of the regime below the cap.
IInv ==
    /\ TInv
    /\ CursorBacked
    /\ LauncherFollowsCursor
    /\ MetadataNeverMissing
    /\ \A t \in Threads : CallProgress(t)

\* The refinement mapping.  A switch takes effect when the thread's default
\* changes: with the metadata if it re-selects the environment it is already
\* in, with the cursor otherwise.
Pending(t) ==
    IF \/ pc[t] \in {"provision", "cwd", "setMetadata", "setThreadMetadata"}
       \/ /\ pc[t] \in {"upsert", "setLauncher", "clearLauncher", "setLast"}
          /\ last_environment_id[t] # sw[t].id
    THEN sw[t].id ELSE None

Selected(t) ==
    [id |-> last_environment_id[t],
     cwd |-> IF last_environment_id[t] \in Launchers
             THEN thread_env_metadata[t][last_environment_id[t]] ELSE None]

Cursor == INSTANCE EnvCursor WITH
    pending <- [t \in Threads |-> Pending(t)],
    cursor <- [t \in Threads |-> Selected(t)]

\* The writes of env_switch, interleaved with everything the other threads do,
\* implement a private cursor per thread that moves in one step.
CursorSpec == Cursor!Spec
==============================================================================
