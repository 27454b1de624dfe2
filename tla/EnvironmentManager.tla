------------------------- MODULE EnvironmentManager -------------------------
(***************************************************************************)
(* The part of exec-server's EnvironmentManager that env_switch writes and *)
(* every environment-aware tool reads.  One manager is shared by all the   *)
(* threads of a process (roots and sub-agents alike).  Each map has a lock *)
(* of its own, so each operation below is one atomic step and nothing      *)
(* makes two of them atomic together.                                      *)
(*                                                                         *)
(* A map is a total function whose absent keys hold an explicit "absent"   *)
(* value, so that its key set is Keys(map, absent).                        *)
(***************************************************************************)
EXTENDS Naturals, Sequences, FiniteSets

CONSTANTS Threads,      \* session-thread ids, the keys of the per-thread maps
          Hops,         \* one transport layer: an ssh host or a container
          MaxHops,      \* bound on the nesting the model explores
          Cwds,         \* the (cwd, shell) metadata a switch may resolve
          Local,        \* LOCAL_ENVIRONMENT_ID
          None,         \* an absent value
          MaxEntries    \* MAX_ENV_METADATA_ENTRIES

\* A RemoteLauncher is its list of hops, outermost first.  RemoteLauncher::id
\* and from_id are inverses on validated hops, so a launcher is its own id.
Launchers == UNION {[1..n -> Hops] : n \in 1..MaxHops}
Ids == Launchers \cup {Local}

ASSUME ManagerAssumption ==
    /\ MaxEntries \in Nat \ {0}
    /\ Local \notin Launchers
    /\ None \notin Ids \cup Cwds

VARIABLES environments,            \* registered ids
          env_metadata,            \* id -> metadata
          thread_env_metadata,     \* thread -> id -> metadata
          last_launcher,           \* thread -> launcher
          last_environment_id,     \* thread -> id
          thread_environment_ids   \* thread -> list of ids

managerVars == <<environments, env_metadata, thread_env_metadata,
                 last_launcher, last_environment_id, thread_environment_ids>>

NoEntries == [id \in Launchers |-> None]

ManagerTypeOK ==
    /\ environments \subseteq Ids
    /\ env_metadata \in [Launchers -> Cwds \cup {None}]
    /\ thread_env_metadata \in [Threads -> [Launchers -> Cwds \cup {None}]]
    /\ last_launcher \in [Threads -> Launchers \cup {None}]
    /\ last_environment_id \in [Threads -> Ids \cup {None}]
    /\ thread_environment_ids \in [Threads -> Seq(Ids)]

\* from_snapshot with a local environment that is also the default.
ManagerInit ==
    /\ environments = {Local}
    /\ env_metadata = NoEntries
    /\ thread_env_metadata = [t \in Threads |-> NoEntries]
    /\ last_launcher = [t \in Threads |-> None]
    /\ last_environment_id = [t \in Threads |-> None]
    /\ thread_environment_ids = [t \in Threads |-> <<>>]

-----------------------------------------------------------------------------
Keys(map, absent) == {k \in DOMAIN map : map[k] # absent}

\* Mutant: the cap is checked one insertion too late.
MakeRoomLate(map, key, absent) ==
    IF Cardinality(Keys(map, absent)) > MaxEntries /\ map[key] = absent
    THEN {[map EXCEPT ![k] = absent] : k \in Keys(map, absent)}
    ELSE {map}

\* The maps an insertion of key may go into: a full map that lacks the key
\* first loses an entry of the hash map's choosing.
MakeRoom(map, key, absent) ==
    IF Cardinality(Keys(map, absent)) >= MaxEntries /\ map[key] = absent
    THEN {[map EXCEPT ![k] = absent] : k \in Keys(map, absent)}
    ELSE {map}

set_environment_metadata(id, cwd) ==
    \E m \in MakeRoom(env_metadata, id, None) :
        env_metadata' = [m EXCEPT ![id] = cwd]

set_thread_environment_metadata(t, id, cwd) ==
    \E m \in MakeRoom(thread_env_metadata, t, NoEntries) :
        \E e \in MakeRoom(m[t], id, None) :
            thread_env_metadata' = [m EXCEPT ![t] = [e EXCEPT ![id] = cwd]]

\* Mutant: the environment is not registered.
UpsertSkipped(id) == UNCHANGED environments

upsert_stdio_environment(id) == environments' = environments \cup {id}

set_last_launcher(t, launcher) ==
    \E m \in MakeRoom(last_launcher, t, None) :
        last_launcher' = [m EXCEPT ![t] = launcher]

\* Mutant: going local keeps the launcher.
ClearKeepsLauncher(t) == UNCHANGED last_launcher

clear_last_launcher(t) == last_launcher' = [last_launcher EXCEPT ![t] = None]

set_last_environment_id(t, id) ==
    \E m \in MakeRoom(last_environment_id, t, None) :
        last_environment_id' = [m EXCEPT ![t] = id]

Contains(ids, id) == \E i \in DOMAIN ids : ids[i] = id

\* A thread's list is first-in first-out at the cap.
Recorded(ids, id) ==
    IF Contains(ids, id) THEN ids
    ELSE Append(IF Len(ids) >= MaxEntries THEN Tail(ids) ELSE ids, id)

record_thread_environment_id(t, id) ==
    \E m \in MakeRoom(thread_environment_ids, t, <<>>) :
        thread_environment_ids' = [m EXCEPT ![t] = Recorded(@, id)]

\* The first of two thread keys (own, then parent) with metadata for id.
get_thread_environment_metadata_for_keys(own, parent, id) ==
    IF thread_env_metadata[own][id] # None \/ parent = None
    THEN thread_env_metadata[own][id]
    ELSE thread_env_metadata[parent][id]
=============================================================================
