------------------------- MODULE UnifiedExec_proofs -------------------------
(***************************************************************************)
(* Safety of UnifiedExec, for any sets of calls, ids and writers and any   *)
(* limit of the store.                                                     *)
(***************************************************************************)
EXTENDS UnifiedExec, TLAPS, FiniteSetTheorems, NaturalsInduction, WellFoundedInduction

-----------------------------------------------------------------------------
(* The inductive invariant.                                                *)

Opened(c) == os[c] # "none"

\* Nobody knows of a process that was not started.
Unborn(c) ==
    /\ ~token[c] /\ ~has_exited[c] /\ ~failed[c] /\ ~denied[c] /\ ~output[c]
    /\ c \notin draining /\ tcall # c
    /\ \A w \in Writers : wcall[w] # c
    /\ \A d \in Calls : victim[d] # c

\* How far a call is, against its id, its process and its entry.
CallInv(c) ==
    /\ exec[c] = "idle" <=> id[c] = NoId
    /\ exec[c] \in {"idle", "opening"} => ~Opened(c)
    /\ exec[c] \in {"insert", "prune", "collect", "fail", "refresh"} => Opened(c)
    /\ ~Opened(c) => Unborn(c)
    /\ victim[c] # NoCall => exec[c] = "prune"

\* An entry is that of a call that has stored it.
EntryInv(i) ==
    processes[i] # NoCall
    => /\ Opened(processes[i])
       /\ exec[processes[i]] \in {"prune", "collect", "release", "fail", "refresh", "returned",
                                  "aborted"}

\* The clients of the store have a process as long as they work with it.
ClientInv ==
    /\ \A w \in Writers : wpc[w] # "idle" => wcall[w] \in Calls
    /\ tpc # "idle" => tcall \in Calls

\* The ages of processes are those of a list in the order of last use, and
\* what was not started yet counts as the oldest.
AgeInv ==
    /\ \A c, d \in Calls : c # d /\ Opened(c) /\ Opened(d) => age[c] # age[d]
    /\ \A c, d \in Calls : Opened(c) /\ ~Opened(d) => age[c] <= age[d]
    /\ \E n \in Nat : \A c \in Calls : age[c] <= n

LimitInv == IsFiniteSet(Listed) /\ WithinLimit

BaseInv ==
    /\ TypeOK
    /\ \A c \in Calls : CallInv(c)
    /\ \A i \in Ids : EntryInv(i)
    /\ ClientInv /\ AgeInv /\ LimitInv

\* Who has reported a command's end, or will.
EndInv(c) ==
    /\ exec[c] \in {"idle", "opening", "insert", "prune", "leaked"}
       => watcher[c] = "none" /\ ends[c] = 0
    /\ exec[c] = "collect" /\ watcher[c] = "none" => ends[c] = 0 /\ os[c] = "gone"
    /\ exec[c] = "refresh" => watcher[c] # "none"
    /\ watcher[c] = "none" => ends[c] = 0 \/ (ends[c] = 1 /\ os[c] = "gone")
    /\ watcher[c] = "waiting" => ends[c] = 0
    /\ watcher[c] = "done" => ends[c] = 1 /\ token[c]
    /\ token[c] => os[c] # "running" \/ has_exited[c]
    /\ failed[c] => has_exited[c]

\* An entry is its call's while the call runs, and terminate_process takes
\* none that the call still wants.
TookInv ==
    /\ tpc = "remove" => HasExited(tcall)
    /\ \A c \in Calls : outcome[c] # "none" => exec[c] = "returned"
    /\ \A i \in Ids : processes[i] # NoCall =>
          /\ exec[processes[i]] \in {"prune", "collect", "release", "fail", "refresh"}
             => active[processes[i]]
          /\ outcome[processes[i]] # "unknown"
    /\ \A c \in took : /\ exec[c] \in {"returned", "aborted"}
                       /\ HasExited(c) /\ outcome[c] # "unknown"

\* Who gives a stored process up has ended it.
GivenUp(c) == denied[c] \/ failed[c] \/ os[c] # "running"

ReleaseInv ==
    /\ \A c \in Calls : exec[c] = "release" /\ watcher[c] # "none" => GivenUp(c)
    /\ \A w \in Writers : wpc[w] = "release" => GivenUp(wcall[w])

Within(c) == c \in Listed \/ c \in draining \/ \E d \in Calls : victim[d] = c

\* As long as no id was handed out twice and no prune was cut short, somebody
\* has every process that runs in the background.
ReachInv ==
    ~slipped =>
        /\ \A c, d \in Calls : c # d /\ id[c] = id[d] => id[c] = NoId
        /\ \A c \in Calls :
               /\ watcher[c] = "waiting" \/ exec[c] = "prune"
               /\ os[c] = "running" /\ ~has_exited[c] /\ ~denied[c]
               => Within(c)

WasStored(c) ==
    \/ exec[c] \in {"prune", "refresh", "fail", "returned"}
    \/ exec[c] \in {"collect", "release"} /\ watcher[c] # "none"

\* A call whose entry is gone has no reservation left, unless its id is
\* somebody else's too.
IdInv ==
    \A c \in Calls :
        /\ WasStored(c) /\ c \notin Listed
        /\ \A d \in Calls \ {c} : id[d] # id[c]
        => id[c] \notin reserved

IInv ==
    /\ BaseInv
    /\ \A c \in Calls : EndInv(c)
    /\ TookInv /\ ReleaseInv /\ ReachInv /\ IdInv

USE ExecAssumption

-----------------------------------------------------------------------------
(* The store.                                                              *)

(* A set of calls has an oldest one, when their ages are distinct.         *)
LEMMA OldestExists ==
    ASSUME NEW S \in SUBSET Calls, S # {}, TypeOK, AgeInv,
           \A c \in S : Opened(c)
    PROVE  \E c \in S : \A d \in S \ {c} : Older(c, d)
<1>1. PICK n \in Nat : \A c \in Calls : age[c] <= n
  BY DEF AgeInv
<1>2. age \in [Calls -> Nat]
  BY DEF TypeOK
<1>. DEFINE Left == {n - age[c] : c \in S}
<1>3. Left \subseteq Nat /\ Left # {}
  BY <1>1, <1>2
<1>4. PICK m \in Left : \A k \in Left : ~(<<k, m>> \in OpToRel(<, Nat))
  <2>. HIDE DEF Left
  <2>. QED  BY <1>3, NatLessThanWellFounded, WFMin
<1>5. \A k \in Left : ~(k < m)
  <2>. HIDE DEF Left
  <2>. QED  BY <1>3, <1>4 DEF OpToRel
<1>6. PICK c \in S : m = n - age[c]
  OBVIOUS
<1>7. ASSUME NEW d \in S \ {c} PROVE Older(c, d)
  <2>1. ~(n - age[d] < n - age[c])
    BY <1>5, <1>6
  <2>2. age[c] # age[d]
    BY <1>7 DEF AgeInv
  <2>. QED  BY <1>2, <2>1, <2>2 DEF Older
<1>. QED  BY <1>7

(* A full store has an entry to prune.                                     *)
LEMMA ToPruneListed ==
    ASSUME BaseInv, MustPrune
    PROVE  ToPrune \in Listed
<1>. DEFINE newer(c) == {d \in Listed : Older(c, d)}
            recent == {c \in Listed : Cardinality(newer(c)) < Protected}
            exited == {c \in Listed \ recent : HasExited(c)}
            pool == IF exited # {} THEN exited ELSE Listed \ recent
<1>1. /\ Listed \subseteq Calls /\ IsFiniteSet(Listed) /\ Cardinality(Listed) >= MaxProcesses
      /\ Cardinality(Listed) \in Nat
  BY FS_CardinalityType DEF BaseInv, LimitInv, MustPrune, Listed
<1>2. \A c \in Listed : Opened(c)
  BY DEF BaseInv, EntryInv, Listed
<1>3. Listed # {}
  BY <1>1, FS_EmptySet
<1>4. PICK c \in Listed : \A d \in Listed \ {c} : Older(c, d)
  BY <1>1, <1>2, <1>3, OldestExists DEF BaseInv
<1>5. newer(c) = Listed \ {c}
  BY <1>1, <1>4 DEF Older, BaseInv, TypeOK
<1>6. Cardinality(newer(c)) = Cardinality(Listed) - 1
  BY <1>1, <1>5, FS_RemoveElement
<1>7. c \notin recent
  BY <1>1, <1>6
<1>8. pool # {} /\ pool \subseteq Listed
  BY <1>7
<1>9. \E x \in pool : \A d \in pool \ {x} : Older(x, d)
  <2>. HIDE DEF pool
  <2>. QED  BY <1>1, <1>2, <1>8, OldestExists DEF BaseInv
<1>10. ToPrune = CHOOSE x \in pool : \A d \in pool \ {x} : Older(x, d)
  BY DEF ToPrune
<1>. QED
  <2>. HIDE DEF pool
  <2>. QED  BY <1>8, <1>9, <1>10

-----------------------------------------------------------------------------
(* Types.                                                                  *)

Flags ==
    /\ active \in [Calls -> BOOLEAN] /\ has_exited \in [Calls -> BOOLEAN]
    /\ failed \in [Calls -> BOOLEAN] /\ denied \in [Calls -> BOOLEAN]
    /\ token \in [Calls -> BOOLEAN] /\ output \in [Calls -> BOOLEAN]
    /\ drained \in [Calls -> BOOLEAN] /\ slipped \in BOOLEAN

(* Every step keeps the flags Boolean.                                     *)
LEMMA FlagsNext ==
    ASSUME Flags, [Next]_vars
    PROVE  Flags'
<1>. USE DEF Flags
<1>. USE DEF Goto, Return, Operation, storeVars, callVars, procVars, taskVars, writeVars, termVars,
           Terminate, FailAndTerminate, RemoveEntry, Refresh, WGoto
<1>1. ASSUME NEW c \in Calls, NEW i \in Ids, allocate_process_id(c, i) PROVE Flags'
  BY <1>1 DEF allocate_process_id
<1>2. ASSUME NEW c \in Calls, HandlerFails(c) \/ OpenFails(c) PROVE Flags'
  BY <1>2 DEF HandlerFails, OpenFails
<1>3. ASSUME NEW c \in Calls, Open(c) PROVE Flags'
  <2>1. has_exited' \in [Calls -> BOOLEAN]
    BY <1>3 DEF Open
  <2>2. token' \in [Calls -> BOOLEAN]
    <3>1. CASE UNCHANGED token
      BY <3>1
    <3>2. CASE token' = [token EXCEPT ![c] = c \notin Remote /\ has_exited'[c]]
      BY <3>2
    <3>. QED  BY <1>3, <3>1, <3>2 DEF Open
  <2>3. output' \in [Calls -> BOOLEAN]
    <3>1. output' = [output EXCEPT ![c] = c \in Remote]
      BY <1>3 DEF Open
    <3>. QED  BY <3>1
  <2>. QED  BY <1>3, <2>1, <2>2, <2>3 DEF Open
<1>4. ASSUME NEW c \in Calls, store_process(c) PROVE Flags'
  BY <1>4 DEF store_process
<1>5. ASSUME NEW c \in Calls, TerminatePruned(c) \/ DropProcess(c) PROVE Flags'
  <2>1. CASE TerminatePruned(c)
    BY <2>1 DEF TerminatePruned
  <2>2. CASE DropProcess(c)
    BY <2>2 DEF DropProcess
  <2>. QED  BY <1>5, <2>1, <2>2
<1>6. ASSUME NEW c \in Calls, Collect(c) PROVE Flags'
  BY <1>6 DEF Collect
<1>7. ASSUME NEW c \in Calls, Release(c) PROVE Flags'
  BY <1>7 DEF Release
<1>7f. ASSUME NEW c \in Calls, FailReleased(c) PROVE Flags'
  BY <1>7f DEF FailReleased
<1>8. ASSUME NEW c \in Calls, RefreshReturn(c) PROVE Flags'
  BY <1>8 DEF RefreshReturn
<1>9. ASSUME NEW c \in Calls, Abort(c) PROVE Flags'
  BY <1>9 DEF Abort
<1>10. ASSUME NEW c \in Calls,
             \/ Exits(c) \/ StreamEnds(c) \/ ObserveExit(c) \/ ObserveClosed(c)
             \/ ObserveFailure(c)
      PROVE  Flags'
  BY <1>10 DEF Exits, StreamEnds, ObserveExit, ObserveClosed, ObserveFailure
<1>11. ASSUME NEW c \in Calls, NetworkDenied(c) \/ DenialTask(c) PROVE Flags'
  <2>1. CASE NetworkDenied(c)
    BY <2>1 DEF NetworkDenied
  <2>2. CASE DenialTask(c)
    BY <2>2 DEF DenialTask
  <2>. QED  BY <1>11, <2>1, <2>2
<1>12. ASSUME NEW c \in Calls, Drain(c) \/ WatcherEmit(c) PROVE Flags'
  BY <1>12 DEF Drain, WatcherEmit
<1>13. ASSUME NEW w \in Writers, NEW i \in Ids, prepare_process_handles(w, i) PROVE Flags'
  BY <1>13 DEF prepare_process_handles
<1>14. ASSUME NEW w \in Writers, Write(w) PROVE Flags'
  BY <1>14 DEF Write
<1>15. ASSUME NEW w \in Writers, WriteFailed(w) PROVE Flags'
  BY <1>15 DEF WriteFailed
<1>16. ASSUME NEW w \in Writers, WCollect(w) \/ WAbort(w) PROVE Flags'
  BY <1>16 DEF WCollect, WAbort
<1>17. ASSUME NEW w \in Writers, WRelease(w) PROVE Flags'
  BY <1>17 DEF WRelease
<1>17f. ASSUME NEW w \in Writers, WFail(w) PROVE Flags'
  BY <1>17f DEF WFail
<1>18. ASSUME NEW w \in Writers, WRefresh(w) PROVE Flags'
  BY <1>18 DEF WRefresh
<1>19. ASSUME NEW i \in Ids, TerminateBegin(i) PROVE Flags'
  BY <1>19 DEF TerminateBegin
<1>20. CASE TerminateConfirmed
  <2>1. \/ UNCHANGED has_exited
        \/ has_exited' = [has_exited EXCEPT ![tcall] = TRUE]
    BY <1>20 DEF TerminateConfirmed
  <2>2. UNCHANGED <<token, output>> \/ Terminate({tcall})
    BY <1>20 DEF TerminateConfirmed
  <2>3. token' \in [Calls -> BOOLEAN] /\ output' \in [Calls -> BOOLEAN]
    BY <2>2
  <2>4. has_exited' \in [Calls -> BOOLEAN]
    BY <2>1
  <2>. QED  BY <1>20, <2>3, <2>4 DEF TerminateConfirmed
<1>21. CASE TerminateRemove
  BY <1>21 DEF TerminateRemove
<1>22. CASE terminate_all_processes
  BY <1>22 DEF terminate_all_processes
<1>23. ASSUME NEW c \in Calls, TerminateDrained(c) PROVE Flags'
  BY <1>23 DEF TerminateDrained
<1>24. CASE UNCHANGED vars
  BY <1>24 DEF vars
<1>. QED
  BY <1>1, <1>2, <1>3, <1>4, <1>5, <1>6, <1>7, <1>7f, <1>8, <1>9, <1>10, <1>11, <1>12, <1>13,
     <1>14, <1>15, <1>16, <1>17, <1>17f, <1>18, <1>19, <1>20, <1>21, <1>22, <1>23, <1>24
  DEF Next, Handler, Exec, Observe, Denial, WriteStdin, User

(* The store is empty at first.                                            *)
LEMMA BaseInit == Init => BaseInv
<1>. SUFFICES ASSUME Init PROVE BaseInv
  OBVIOUS
<1>. USE DEF Init, Opened
<1>1. TypeOK
  <2>1. Flags
    BY DEF Flags
  <2>. QED  BY <2>1 DEF Flags, TypeOK
<1>2. \A c \in Calls : CallInv(c)
  BY DEF CallInv, Unborn
<1>3. (\A i \in Ids : EntryInv(i)) /\ ClientInv
  BY DEF EntryInv, ClientInv
<1>4. AgeInv
  BY DEF AgeInv
<1>5. Listed = {}
  BY DEF Listed
<1>6. LimitInv
  BY <1>5, FS_EmptySet DEF LimitInv, WithinLimit
<1>. QED  BY <1>1, <1>2, <1>3, <1>4, <1>6 DEF BaseInv

(* Every step keeps the types.                                             *)
LEMMA TypeNext ==
    ASSUME BaseInv, [Next]_vars
    PROVE  TypeOK'
<1>. DEFINE Rest ==
           /\ processes \in [Ids -> Calls \cup {NoCall}]
           /\ reserved \subseteq Ids
           /\ age \in [Calls -> Nat]
           /\ exec \in [Calls -> {"idle", "opening", "insert", "prune", "collect", "release",
                                  "fail", "refresh", "returned", "leaked", "aborted"}]
           /\ id \in [Calls -> Ids \cup {NoId}]
           /\ victim \in [Calls -> Calls \cup {NoCall}]
           /\ outcome \in [Calls -> {"none", "alive", "over", "unknown"}]
           /\ os \in [Calls -> {"none", "running", "killed", "gone"}]
           /\ stream \in [Calls -> {"open", "closed", "lost"}]
           /\ watcher \in [Calls -> {"none", "waiting", "done"}]
           /\ ends \in [Calls -> Nat]
           /\ wpc \in [Writers -> {"idle", "write", "refused", "broken", "collect",
                                   "collectExited", "release", "fail", "refresh"}]
           /\ wcall \in [Writers -> Calls \cup {NoCall}]
           /\ tpc \in {"idle", "confirm", "remove"}
           /\ tcall \in Calls \cup {NoCall}
           /\ draining \subseteq Calls /\ ops \in 0..MaxOps
           /\ took \subseteq Calls
           /\ \A i \in Ids : processes[i] # NoCall => id[processes[i]] = i
<1>f. Flags /\ Flags'
  BY FlagsNext DEF BaseInv, TypeOK, Flags
<1>r. Rest /\ (\A c \in Calls : CallInv(c)) /\ (\A i \in Ids : EntryInv(i)) /\ ClientInv
  BY DEF BaseInv, TypeOK
<1>. SUFFICES Rest'
  BY <1>f DEF Flags, TypeOK
<1>. USE <1>r DEF CallInv, EntryInv, ClientInv
<1>. USE DEF Goto, Return, Operation, storeVars, callVars, procVars, taskVars, writeVars, termVars,
           Terminate, FailAndTerminate, RemoveEntry, Refresh, WGoto, Touch
<1>1. ASSUME NEW c \in Calls, NEW i \in Ids, allocate_process_id(c, i) PROVE Rest'
  BY <1>1 DEF allocate_process_id
<1>2. ASSUME NEW c \in Calls, HandlerFails(c) \/ OpenFails(c) PROVE Rest'
  BY <1>2 DEF HandlerFails, OpenFails
<1>3. ASSUME NEW c \in Calls, Open(c) PROVE Rest'
  BY <1>3 DEF Open
<1>4. ASSUME NEW c \in Calls, store_process(c) PROVE Rest'
  <2>. DEFINE out == IF MustPrune THEN {ToPrune} ELSE {}
  <2>1. out \subseteq Calls
    BY ToPruneListed DEF Listed
  <2>2. /\ exec[c] = "insert" /\ processes' = Insert(c, out)
        /\ reserved' = reserved \ {id[d] : d \in out}
        /\ out # {} => victim' = [victim EXCEPT ![c] = ToPrune] /\ ToPrune \in out
        /\ out = {} => UNCHANGED victim
    BY <1>4 DEF store_process
  <2>. HIDE DEF out
  <2>3. processes' \in [Ids -> Calls \cup {NoCall}] /\ reserved' \subseteq Ids
    BY <2>2 DEF Insert
  <2>4. \A i \in Ids : processes'[i] # NoCall => id[processes'[i]] = i
    BY <2>2 DEF Insert
  <2>5. victim' \in [Calls -> Calls \cup {NoCall}]
    BY <2>1, <2>2
  <2>6. /\ exec' \in [Calls -> {"idle", "opening", "insert", "prune", "collect", "release",
                                "fail", "refresh", "returned", "leaked", "aborted"}]
        /\ watcher' \in [Calls -> {"none", "waiting", "done"}]
    BY <1>4 DEF store_process
  <2>. QED  BY <1>4, <2>3, <2>4, <2>5, <2>6 DEF store_process
<1>5. ASSUME NEW c \in Calls, TerminatePruned(c) \/ DropProcess(c) PROVE Rest'
  BY <1>5 DEF TerminatePruned, DropProcess
<1>6. ASSUME NEW c \in Calls, Collect(c) PROVE Rest'
  BY <1>6 DEF Collect
<1>7. ASSUME NEW c \in Calls, Release(c) PROVE Rest'
  BY <1>7 DEF Release
<1>7f. ASSUME NEW c \in Calls, FailReleased(c) PROVE Rest'
  BY <1>7f DEF FailReleased
<1>8. ASSUME NEW c \in Calls, RefreshReturn(c) PROVE Rest'
  BY <1>8 DEF RefreshReturn
<1>9. ASSUME NEW c \in Calls, Abort(c) PROVE Rest'
  BY <1>9 DEF Abort
<1>10. ASSUME NEW c \in Calls,
             \/ Exits(c) \/ StreamEnds(c) \/ ObserveExit(c) \/ ObserveClosed(c)
             \/ ObserveFailure(c)
      PROVE  Rest'
  BY <1>10 DEF Exits, StreamEnds, ObserveExit, ObserveClosed, ObserveFailure
<1>11. ASSUME NEW c \in Calls, NetworkDenied(c) \/ DenialTask(c) PROVE Rest'
  BY <1>11 DEF NetworkDenied, DenialTask
<1>12. ASSUME NEW c \in Calls, Drain(c) \/ WatcherEmit(c) PROVE Rest'
  BY <1>12 DEF Drain, WatcherEmit
<1>13. ASSUME NEW w \in Writers, NEW i \in Ids, prepare_process_handles(w, i) PROVE Rest'
  BY <1>13 DEF prepare_process_handles
<1>14. ASSUME NEW w \in Writers, Write(w) PROVE Rest'
  BY <1>14 DEF Write
<1>15. ASSUME NEW w \in Writers, WriteFailed(w) PROVE Rest'
  BY <1>15 DEF WriteFailed
<1>16. ASSUME NEW w \in Writers, WCollect(w) \/ WAbort(w) PROVE Rest'
  BY <1>16 DEF WCollect, WAbort
<1>17. ASSUME NEW w \in Writers, WRelease(w) PROVE Rest'
  <2>1. os' \in [Calls -> {"none", "running", "killed", "gone"}]
    BY <1>17 DEF WRelease
  <2>2. wcall' \in [Writers -> Calls \cup {NoCall}] /\ UNCHANGED <<id, exec, age, tpc, tcall>>
    BY <1>17 DEF WRelease
  <2>3. RemoveEntry(id[wcall[w]])
    BY <1>17 DEF WRelease
  <2>4. processes' \in [Ids -> Calls \cup {NoCall}] /\ reserved' \subseteq Ids
    BY <2>3
  <2>5. \A i \in Ids : processes'[i] # NoCall => id[processes'[i]] = i
    BY <2>3
  <2>. QED  BY <1>17, <2>1, <2>2, <2>4, <2>5 DEF WRelease
<1>17f. ASSUME NEW w \in Writers, WFail(w) PROVE Rest'
  BY <1>17f DEF WFail
<1>18. ASSUME NEW w \in Writers, WRefresh(w) PROVE Rest'
  BY <1>18 DEF WRefresh
<1>19. ASSUME NEW i \in Ids, TerminateBegin(i) PROVE Rest'
  BY <1>19 DEF TerminateBegin
<1>20. CASE TerminateConfirmed
  BY <1>20 DEF TerminateConfirmed
<1>21. CASE TerminateRemove
  BY <1>21 DEF TerminateRemove
<1>22. CASE terminate_all_processes
  BY <1>22 DEF terminate_all_processes, Listed
<1>23. ASSUME NEW c \in Calls, TerminateDrained(c) PROVE Rest'
  BY <1>23 DEF TerminateDrained
<1>24. CASE UNCHANGED vars
  BY <1>24 DEF vars
<1>. QED
  BY <1>1, <1>2, <1>3, <1>4, <1>5, <1>6, <1>7, <1>7f, <1>8, <1>9, <1>10, <1>11, <1>12, <1>13,
     <1>14, <1>15, <1>16, <1>17, <1>17f, <1>18, <1>19, <1>20, <1>21, <1>22, <1>23, <1>24
  DEF Next, Handler, Exec, Observe, Denial, WriteStdin, User

-----------------------------------------------------------------------------
(* Calls, entries, clients, ages and the limit.                              *)
(* Every step keeps a call in line with its id and its process.            *)
LEMMA CallNext ==
    ASSUME BaseInv, [Next]_vars
    PROVE  \A x \in Calls : CallInv(x)'
<1>t. /\ TypeOK /\ TypeOK' /\ ClientInv
      /\ (\A c \in Calls : CallInv(c)) /\ (\A i \in Ids : EntryInv(i))
  BY TypeNext DEF BaseInv
<1>. SUFFICES ASSUME NEW x \in Calls PROVE CallInv(x)'
  OBVIOUS
<1>. USE <1>t DEF TypeOK, CallInv, EntryInv, ClientInv, Opened, Unborn
<1>. USE DEF Goto, Return, Operation, storeVars, callVars, procVars, taskVars, writeVars, termVars,
           Terminate, FailAndTerminate, RemoveEntry, Refresh, WGoto
<1>1. ASSUME NEW c \in Calls, NEW i \in Ids, allocate_process_id(c, i) PROVE CallInv(x)'
  BY <1>1 DEF allocate_process_id
<1>2. ASSUME NEW c \in Calls, HandlerFails(c) \/ OpenFails(c) PROVE CallInv(x)'
  BY <1>2 DEF HandlerFails, OpenFails
<1>3. ASSUME NEW c \in Calls, Open(c) PROVE CallInv(x)'
  BY <1>3 DEF Open
<1>4. ASSUME NEW c \in Calls, store_process(c) PROVE CallInv(x)'
  <2>1. UNCHANGED <<id, os, has_exited, failed, token, output, denied, draining, tcall, wcall>>
    BY <1>4 DEF store_process
  <2>2. victim' = victim \/ (MustPrune /\ victim' = [victim EXCEPT ![c] = ToPrune]
                               /\ exec' = [exec EXCEPT ![c] = "prune"])
    BY <1>4 DEF store_process
  <2>3. exec[c] = "insert" /\ \E to \in {"prune", "collect"} : exec' = [exec EXCEPT ![c] = to]
    BY <1>4 DEF store_process
  <2>4. MustPrune => ToPrune \in Calls /\ Opened(ToPrune)
    BY ToPruneListed DEF Listed
  <2>5. \A d \in Calls : ~Opened(d) /\ Unborn(d) => Unborn(d)'
    BY <2>1, <2>2, <2>4
  <2>. QED  BY <2>1, <2>2, <2>3, <2>5
<1>5. ASSUME NEW c \in Calls, TerminatePruned(c) PROVE CallInv(x)'
  BY <1>5 DEF TerminatePruned
<1>6. ASSUME NEW c \in Calls, DropProcess(c) PROVE CallInv(x)'
  BY <1>6 DEF DropProcess
<1>7. ASSUME NEW c \in Calls, Collect(c) PROVE CallInv(x)'
  BY <1>7 DEF Collect
<1>8. ASSUME NEW c \in Calls, Release(c) PROVE CallInv(x)'
  BY <1>8 DEF Release
<1>8f. ASSUME NEW c \in Calls, FailReleased(c) PROVE CallInv(x)'
  BY <1>8f DEF FailReleased
<1>9. ASSUME NEW c \in Calls, RefreshReturn(c) PROVE CallInv(x)'
  <2>1. \A d \in Exited(id[c]) : d \in Calls /\ Opened(d)
    BY <1>9 DEF Exited, RefreshReturn
  <2>. QED  BY <1>9, <2>1 DEF RefreshReturn
<1>10. ASSUME NEW c \in Calls, Abort(c) PROVE CallInv(x)'
  BY <1>10 DEF Abort, Finished
<1>11. ASSUME NEW c \in Calls,
             \/ Exits(c) \/ StreamEnds(c) \/ ObserveExit(c) \/ ObserveClosed(c)
             \/ ObserveFailure(c)
      PROVE  CallInv(x)'
  BY <1>11 DEF Exits, StreamEnds, ObserveExit, ObserveClosed, ObserveFailure
<1>12. ASSUME NEW c \in Calls, NetworkDenied(c) \/ DenialTask(c) PROVE CallInv(x)'
  BY <1>12 DEF NetworkDenied, DenialTask
<1>13. ASSUME NEW c \in Calls, Drain(c) \/ WatcherEmit(c) PROVE CallInv(x)'
  BY <1>13 DEF Drain, WatcherEmit
<1>14. ASSUME NEW w \in Writers, NEW i \in Ids, prepare_process_handles(w, i) PROVE CallInv(x)'
  BY <1>14 DEF prepare_process_handles
<1>15. ASSUME NEW w \in Writers, Write(w) PROVE CallInv(x)'
  BY <1>15 DEF Write
<1>16. ASSUME NEW w \in Writers, WriteFailed(w) PROVE CallInv(x)'
  BY <1>16 DEF WriteFailed
<1>17. ASSUME NEW w \in Writers, WCollect(w) \/ WAbort(w) PROVE CallInv(x)'
  BY <1>17 DEF WCollect, WAbort
<1>18. ASSUME NEW w \in Writers, WRelease(w) PROVE CallInv(x)'
  BY <1>18 DEF WRelease
<1>18f. ASSUME NEW w \in Writers, WFail(w) PROVE CallInv(x)'
  BY <1>18f DEF WFail
<1>19. ASSUME NEW w \in Writers, WRefresh(w) PROVE CallInv(x)'
  BY <1>19 DEF WRefresh
<1>20. ASSUME NEW i \in Ids, TerminateBegin(i) PROVE CallInv(x)'
  BY <1>20 DEF TerminateBegin
<1>21. CASE TerminateConfirmed
  BY <1>21 DEF TerminateConfirmed
<1>22. CASE TerminateRemove
  BY <1>22 DEF TerminateRemove
<1>23. CASE terminate_all_processes
  BY <1>23 DEF terminate_all_processes, Listed
<1>24. ASSUME NEW c \in Calls, TerminateDrained(c) PROVE CallInv(x)'
  BY <1>24 DEF TerminateDrained
<1>25. CASE UNCHANGED vars
  BY <1>25 DEF vars
<1>. QED
  BY <1>1, <1>2, <1>3, <1>4, <1>5, <1>6, <1>7, <1>8, <1>8f, <1>9, <1>10, <1>11, <1>12, <1>13,
     <1>14, <1>15, <1>16, <1>17, <1>18, <1>18f, <1>19, <1>20, <1>21, <1>22, <1>23, <1>24, <1>25
  DEF Next, Handler, Exec, Observe, Denial, WriteStdin, User

(* Every step keeps entries with the calls that stored them, and clients   *)
(* with a process.                                                         *)
LEMMA EntryNext ==
    ASSUME BaseInv, [Next]_vars
    PROVE  ClientInv' /\ \A i \in Ids : EntryInv(i)'
<1>t. /\ TypeOK /\ TypeOK' /\ ClientInv
      /\ (\A c \in Calls : CallInv(c)) /\ (\A i \in Ids : EntryInv(i))
  BY TypeNext DEF BaseInv
<1>. DEFINE Entries == \A i \in Ids : EntryInv(i)
<1>. SUFFICES ClientInv' /\ Entries'
  OBVIOUS
<1>. USE <1>t DEF TypeOK, CallInv, EntryInv, ClientInv, Opened
<1>. USE DEF Goto, Return, Operation, storeVars, callVars, procVars, taskVars, writeVars, termVars,
           Terminate, FailAndTerminate, RemoveEntry, Refresh, WGoto, Insert
<1>1. ASSUME NEW c \in Calls, NEW i \in Ids, allocate_process_id(c, i) PROVE ClientInv' /\ Entries'
  BY <1>1 DEF allocate_process_id
<1>2. ASSUME NEW c \in Calls, HandlerFails(c) \/ OpenFails(c) PROVE ClientInv' /\ Entries'
  BY <1>2 DEF HandlerFails, OpenFails
<1>3. ASSUME NEW c \in Calls, Open(c) PROVE ClientInv' /\ Entries'
  BY <1>3 DEF Open
<1>4. ASSUME NEW c \in Calls, store_process(c) PROVE ClientInv' /\ Entries'
  BY <1>4 DEF store_process
<1>5. ASSUME NEW c \in Calls, TerminatePruned(c) PROVE ClientInv' /\ Entries'
  BY <1>5 DEF TerminatePruned
<1>6. ASSUME NEW c \in Calls, DropProcess(c) PROVE ClientInv' /\ Entries'
  BY <1>6 DEF DropProcess
<1>7. ASSUME NEW c \in Calls, Collect(c) PROVE ClientInv' /\ Entries'
  BY <1>7 DEF Collect
<1>8. ASSUME NEW c \in Calls, Release(c) PROVE ClientInv' /\ Entries'
  BY <1>8 DEF Release
<1>8f. ASSUME NEW c \in Calls, FailReleased(c) PROVE ClientInv' /\ Entries'
  BY <1>8f DEF FailReleased
<1>9. ASSUME NEW c \in Calls, RefreshReturn(c) PROVE ClientInv' /\ Entries'
  BY <1>9 DEF RefreshReturn
<1>10. ASSUME NEW c \in Calls, Abort(c) PROVE ClientInv' /\ Entries'
  BY <1>10 DEF Abort
<1>11. ASSUME NEW c \in Calls,
             \/ Exits(c) \/ StreamEnds(c) \/ ObserveExit(c) \/ ObserveClosed(c)
             \/ ObserveFailure(c)
      PROVE  ClientInv' /\ Entries'
  BY <1>11 DEF Exits, StreamEnds, ObserveExit, ObserveClosed, ObserveFailure
<1>12. ASSUME NEW c \in Calls,
             \/ NetworkDenied(c) \/ DenialTask(c)
      PROVE  ClientInv' /\ Entries'
  BY <1>12 DEF NetworkDenied, DenialTask
<1>13. ASSUME NEW c \in Calls, Drain(c) \/ WatcherEmit(c) PROVE ClientInv' /\ Entries'
  BY <1>13 DEF Drain, WatcherEmit
<1>14. ASSUME NEW w \in Writers, NEW i \in Ids, prepare_process_handles(w, i)
       PROVE  ClientInv' /\ Entries'
  BY <1>14 DEF prepare_process_handles
<1>15. ASSUME NEW w \in Writers, Write(w) PROVE ClientInv' /\ Entries'
  BY <1>15 DEF Write
<1>16. ASSUME NEW w \in Writers, WriteFailed(w) PROVE ClientInv' /\ Entries'
  BY <1>16 DEF WriteFailed
<1>17. ASSUME NEW w \in Writers, WCollect(w) \/ WAbort(w) PROVE ClientInv' /\ Entries'
  BY <1>17 DEF WCollect, WAbort
<1>18. ASSUME NEW w \in Writers, WRelease(w) PROVE ClientInv' /\ Entries'
  BY <1>18 DEF WRelease
<1>18f. ASSUME NEW w \in Writers, WFail(w) PROVE ClientInv' /\ Entries'
  BY <1>18f DEF WFail
<1>19. ASSUME NEW w \in Writers, WRefresh(w) PROVE ClientInv' /\ Entries'
  BY <1>19 DEF WRefresh
<1>20. ASSUME NEW i \in Ids, TerminateBegin(i) PROVE ClientInv' /\ Entries'
  BY <1>20 DEF TerminateBegin
<1>21. CASE TerminateConfirmed
  BY <1>21 DEF TerminateConfirmed
<1>22. CASE TerminateRemove
  BY <1>22 DEF TerminateRemove
<1>23. CASE terminate_all_processes
  BY <1>23 DEF terminate_all_processes
<1>24. ASSUME NEW c \in Calls, TerminateDrained(c) PROVE ClientInv' /\ Entries'
  BY <1>24 DEF TerminateDrained
<1>25. CASE UNCHANGED vars
  BY <1>25 DEF vars
<1>. QED
  BY <1>1, <1>2, <1>3, <1>4, <1>5, <1>6, <1>7, <1>8, <1>8f, <1>9, <1>10, <1>11, <1>12, <1>13,
     <1>14, <1>15, <1>16, <1>17, <1>18, <1>18f, <1>19, <1>20, <1>21, <1>22, <1>23, <1>24, <1>25
  DEF Next, Handler, Exec, Observe, Denial, WriteStdin, User

(* last_used = now: a process becomes the youngest, and the others stay in *)
(* their order.                                                            *)
LEMMA TouchKeepsOrder ==
    ASSUME TypeOK, AgeInv, NEW c \in Calls, Touch(c),
           \A d \in Calls : Opened(d)' <=> Opened(d) \/ d = c
    PROVE  AgeInv'
<1>. USE DEF TypeOK, Touch
<1>1. /\ \A d, e \in Calls : d # e /\ Opened(d) /\ Opened(e) => age[d] # age[e]
      /\ \A d, e \in Calls : Opened(d) /\ ~Opened(e) => age[d] <= age[e]
  BY DEF AgeInv
<1>2. /\ age'[c] = 0
      /\ \A d \in Calls \ {c} : age'[d] = IF age[d] <= age[c] THEN age[d] + 1 ELSE age[d]
  OBVIOUS
<1>3. ASSUME NEW d \in Calls, NEW e \in Calls, d # e, Opened(d)', Opened(e)'
      PROVE  age'[d] # age'[e]
  <2>1. CASE d = c
    BY <1>1, <1>2, <1>3, <2>1
  <2>2. CASE e = c
    BY <1>1, <1>2, <1>3, <2>2
  <2>3. CASE d # c /\ e # c
    <3>1. age[d] # age[e] /\ age[d] \in Nat /\ age[e] \in Nat /\ age[c] \in Nat
      BY <1>1, <1>3, <2>3
    <3>2. \/ age[d] # age[c] /\ age[e] # age[c]
          \/ age[d] <= age[c] /\ age[e] <= age[c]
      BY <1>1, <1>3, <2>3
    <3>3. /\ age'[d] = IF age[d] <= age[c] THEN age[d] + 1 ELSE age[d]
          /\ age'[e] = IF age[e] <= age[c] THEN age[e] + 1 ELSE age[e]
      BY <1>2, <2>3
    <3>. HIDE DEF Touch, TypeOK
    <3>4. CASE age[d] <= age[c] /\ age[e] <= age[c]
      BY <3>1, <3>3, <3>4
    <3>5. CASE age[d] <= age[c] /\ ~(age[e] <= age[c])
      BY <3>1, <3>2, <3>3, <3>5
    <3>6. CASE ~(age[d] <= age[c]) /\ age[e] <= age[c]
      BY <3>1, <3>2, <3>3, <3>6
    <3>7. CASE ~(age[d] <= age[c]) /\ ~(age[e] <= age[c])
      BY <3>1, <3>3, <3>7
    <3>. QED  BY <3>4, <3>5, <3>6, <3>7
  <2>. QED  BY <2>1, <2>2, <2>3
<1>4. ASSUME NEW d \in Calls, NEW e \in Calls, Opened(d)', ~Opened(e)'
      PROVE  age'[d] <= age'[e]
  <2>1. CASE d = c
    BY <1>2, <1>4, <2>1
  <2>2. CASE d # c
    <3>1. age[d] <= age[e] /\ e # c /\ Opened(d) /\ ~Opened(e)
      BY <1>1, <1>4, <2>2
    <3>2. CASE Opened(c)
      <4>1. age[d] # age[c] /\ age[c] <= age[e]
        BY <1>1, <2>2, <3>1, <3>2
      <4>. QED  BY <1>2, <2>2, <3>1, <4>1
    <3>3. CASE ~Opened(c)
      <4>1. age[d] <= age[c]
        BY <1>1, <3>1, <3>3
      <4>. QED  BY <1>2, <2>2, <3>1, <4>1
    <3>. QED  BY <3>2, <3>3
  <2>. QED  BY <2>1, <2>2
<1>5. \E n \in Nat : \A d \in Calls : age'[d] <= n
  <2>1. PICK n \in Nat : \A d \in Calls : age[d] <= n
    BY DEF AgeInv
  <2>2. \A d \in Calls : age'[d] <= n + 1
    BY <1>2, <2>1
  <2>. WITNESS n + 1 \in Nat
  <2>. QED  BY <2>2
<1>. QED  BY <1>3, <1>4, <1>5 DEF AgeInv

(* Every step keeps the order of last use.                                 *)
LEMMA AgeNext ==
    ASSUME BaseInv, [Next]_vars
    PROVE  AgeInv'
<1>t. /\ TypeOK /\ ClientInv /\ AgeInv
      /\ (\A c \in Calls : CallInv(c)) /\ (\A i \in Ids : EntryInv(i))
  BY DEF BaseInv
<1>. DEFINE Same == UNCHANGED age /\ \A d \in Calls : Opened(d)' <=> Opened(d)
<1>s. ASSUME Same PROVE AgeInv'
  <2>1. UNCHANGED age /\ \A d \in Calls : Opened(d)' <=> Opened(d)
    BY <1>s
  <2>. QED  BY <1>t, <2>1 DEF AgeInv
<1>1. ASSUME NEW c \in Calls, Open(c) PROVE AgeInv'
  <2>1. Touch(c) /\ \A d \in Calls : Opened(d)' <=> Opened(d) \/ d = c
    BY <1>1, <1>t DEF Open, Opened, TypeOK
  <2>. QED  BY <1>t, <2>1, TouchKeepsOrder
<1>2. ASSUME NEW c \in Calls, NEW i \in Ids, allocate_process_id(c, i) PROVE AgeInv'
  BY <1>s, <1>t, <1>2
  DEF allocate_process_id,
      TypeOK, Opened, Terminate, FailAndTerminate, Operation, storeVars, callVars,
      procVars, taskVars, writeVars, termVars
<1>3. ASSUME NEW c \in Calls,
             \/ HandlerFails(c) \/ OpenFails(c) \/ store_process(c) \/ Collect(c)
             \/ Abort(c)
      PROVE  AgeInv'
  BY <1>s, <1>t, <1>3
  DEF HandlerFails, OpenFails, store_process, Collect, Abort,
      TypeOK, Opened, Terminate, FailAndTerminate, Operation, storeVars, callVars,
      procVars, taskVars, writeVars, termVars
<1>4. ASSUME NEW c \in Calls,
             \/ TerminatePruned(c) \/ DropProcess(c) \/ Exits(c) \/ StreamEnds(c) \/ ObserveExit(c)
             \/ ObserveClosed(c) \/ ObserveFailure(c)
      PROVE  AgeInv'
  BY <1>s, <1>t, <1>4
  DEF TerminatePruned, DropProcess, Exits, StreamEnds, ObserveExit, ObserveClosed, ObserveFailure,
      TypeOK, Opened, Terminate, FailAndTerminate, Operation, storeVars, callVars,
      procVars, taskVars, writeVars, termVars
<1>5. ASSUME NEW c \in Calls, Release(c) \/ FailReleased(c) \/ RefreshReturn(c) PROVE AgeInv'
  BY <1>s, <1>t, <1>5
  DEF Release, FailReleased, RefreshReturn,
      TypeOK, Opened, Terminate, FailAndTerminate, Operation, storeVars, callVars,
      procVars, taskVars, writeVars, termVars
<1>6. ASSUME NEW c \in Calls,
             \/ NetworkDenied(c) \/ DenialTask(c) \/ Drain(c) \/ WatcherEmit(c)
      PROVE  AgeInv'
  BY <1>s, <1>t, <1>6
  DEF NetworkDenied, DenialTask, Drain, WatcherEmit,
      TypeOK, Opened, Terminate, FailAndTerminate, Operation, storeVars, callVars,
      procVars, taskVars, writeVars, termVars
<1>7. ASSUME NEW w \in Writers, NEW i \in Ids, prepare_process_handles(w, i) PROVE AgeInv'
  <2>1. processes[i] \in Calls /\ Opened(processes[i]) /\ Touch(processes[i]) /\ UNCHANGED os
    BY <1>7, <1>t DEF prepare_process_handles, TypeOK, EntryInv, procVars
  <2>2. \A d \in Calls : Opened(d)' <=> Opened(d) \/ d = processes[i]
    BY <2>1 DEF Opened
  <2>. QED  BY <1>t, <2>1, <2>2, TouchKeepsOrder
<1>8. ASSUME NEW w \in Writers, Write(w) \/ WriteFailed(w) \/ WCollect(w) PROVE AgeInv'
  BY <1>s, <1>t, <1>8
  DEF Write, WriteFailed, WCollect,
      TypeOK, Opened, Terminate, FailAndTerminate, Operation, storeVars, callVars,
      procVars, taskVars, writeVars, termVars
<1>9. ASSUME NEW w \in Writers, WRelease(w) \/ WFail(w) \/ WRefresh(w) \/ WAbort(w) PROVE AgeInv'
  BY <1>s, <1>t, <1>9
  DEF WRelease, WFail, WRefresh, WAbort,
      TypeOK, Opened, Terminate, FailAndTerminate, Operation, storeVars, callVars,
      procVars, taskVars, writeVars, termVars
<1>10. ASSUME NEW i \in Ids, TerminateBegin(i) PROVE AgeInv'
  BY <1>s, <1>t, <1>10
  DEF TerminateBegin,
      TypeOK, Opened, Terminate, FailAndTerminate, Operation, storeVars, callVars,
      procVars, taskVars, writeVars, termVars
<1>11. CASE TerminateConfirmed \/ TerminateRemove \/ terminate_all_processes
  BY <1>s, <1>t, <1>11
  DEF TerminateConfirmed, TerminateRemove, terminate_all_processes,
      TypeOK, Opened, Terminate, FailAndTerminate, Operation, storeVars, callVars,
      procVars, taskVars, writeVars, termVars
<1>12. ASSUME NEW c \in Calls, TerminateDrained(c) PROVE AgeInv'
  BY <1>s, <1>t, <1>12
  DEF TerminateDrained,
      TypeOK, Opened, Terminate, FailAndTerminate, Operation, storeVars, callVars,
      procVars, taskVars, writeVars, termVars
<1>13. CASE UNCHANGED vars
  BY <1>s, <1>13 DEF vars, procVars, Opened
<1>. QED
  BY <1>1, <1>2, <1>3, <1>4, <1>5, <1>6, <1>7, <1>8, <1>9, <1>10, <1>11, <1>12, <1>13
  DEF Next, Handler, Exec, Observe, Denial, WriteStdin, User

(* Every step keeps the store within its limit: only store_process adds an *)
(* entry, and it prunes a full store first.                                *)
LEMMA LimitNext ==
    ASSUME BaseInv, [Next]_vars
    PROVE  LimitInv'
<1>t. TypeOK /\ (\A i \in Ids : EntryInv(i)) /\ LimitInv
  BY DEF BaseInv
<1>. DEFINE Shrinks == \A i \in Ids : processes'[i] \in {processes[i], NoCall}
<1>s. ASSUME Shrinks PROVE LimitInv'
  <2>1. Listed' \subseteq Listed
    BY <1>s DEF Listed
  <2>2. /\ IsFiniteSet(Listed') /\ Cardinality(Listed') <= Cardinality(Listed)
        /\ Cardinality(Listed) \in Nat /\ Cardinality(Listed') \in Nat
    BY <1>t, <2>1, FS_Subset, FS_CardinalityType DEF LimitInv
  <2>. QED  BY <1>t, <2>2 DEF LimitInv, WithinLimit
<1>1. ASSUME NEW c \in Calls, store_process(c) PROVE LimitInv'
  <2>. DEFINE out == IF MustPrune THEN {ToPrune} ELSE {}
  <2>1. exec[c] = "insert" /\ processes' = Insert(c, out)
    BY <1>1 DEF store_process
  <2>2. c \notin Listed
    BY <1>t, <2>1 DEF TypeOK, EntryInv, Listed
  <2>3. Listed' \subseteq (Listed \ out) \cup {c}
    <3>. HIDE DEF out
    <3>. QED  BY <1>t, <2>1 DEF TypeOK, Listed, Insert
  <2>4. IsFiniteSet(Listed \ out) /\ Cardinality(Listed \ out) < MaxProcesses
    <3>1. IsFiniteSet(Listed) /\ Cardinality(Listed) \in Nat /\ Cardinality(Listed) <= MaxProcesses
      BY <1>t, FS_CardinalityType DEF LimitInv, WithinLimit
    <3>2. CASE MustPrune
      <4>1. out = {ToPrune} /\ ToPrune \in Listed
        BY <3>2, ToPruneListed
      <4>2. /\ IsFiniteSet(Listed \ {ToPrune})
            /\ Cardinality(Listed \ {ToPrune}) = Cardinality(Listed) - 1
        BY <3>1, <4>1, FS_RemoveElement
      <4>. HIDE DEF out
      <4>. QED  BY <3>1, <4>1, <4>2
    <3>3. CASE ~MustPrune
      <4>1. Listed \ out = Listed
        BY <3>3
      <4>. QED  BY <3>1, <3>3, <4>1 DEF MustPrune
    <3>. QED  BY <3>2, <3>3
  <2>5. /\ IsFiniteSet((Listed \ out) \cup {c})
        /\ Cardinality((Listed \ out) \cup {c}) <= MaxProcesses
    <3>. HIDE DEF out
    <3>1. Cardinality(Listed \ out) \in Nat
      BY <2>4, FS_CardinalityType
    <3>2. /\ IsFiniteSet((Listed \ out) \cup {c})
          /\ Cardinality((Listed \ out) \cup {c})
             = IF c \in Listed \ out THEN Cardinality(Listed \ out)
                                   ELSE Cardinality(Listed \ out) + 1
      BY <2>4, FS_AddElement, Zenon
    <3>. QED  BY <2>4, <3>1, <3>2
  <2>6. /\ IsFiniteSet(Listed') /\ Cardinality(Listed') <= Cardinality((Listed \ out) \cup {c})
        /\ Cardinality((Listed \ out) \cup {c}) \in Nat /\ Cardinality(Listed') \in Nat
    <3>. HIDE DEF out
    <3>. QED  BY <2>3, <2>5, FS_Subset, FS_CardinalityType
  <2>. QED
    <3>. HIDE DEF out
    <3>. QED  BY <2>5, <2>6 DEF LimitInv, WithinLimit
<1>2. ASSUME NEW c \in Calls, NEW i \in Ids, allocate_process_id(c, i) PROVE LimitInv'
  BY <1>s, <1>t, <1>2
  DEF allocate_process_id,
      TypeOK, RemoveEntry, Refresh, storeVars
<1>3. ASSUME NEW c \in Calls,
             \/ HandlerFails(c) \/ OpenFails(c) \/ Open(c) \/ Collect(c)
             \/ Abort(c)
      PROVE  LimitInv'
  BY <1>s, <1>t, <1>3
  DEF HandlerFails, OpenFails, Open, Collect, Abort,
      TypeOK, RemoveEntry, Refresh, storeVars
<1>4. ASSUME NEW c \in Calls,
             \/ TerminatePruned(c) \/ DropProcess(c) \/ Exits(c) \/ StreamEnds(c) \/ ObserveExit(c)
             \/ ObserveClosed(c) \/ ObserveFailure(c)
      PROVE  LimitInv'
  BY <1>s, <1>t, <1>4
  DEF TerminatePruned, DropProcess, Exits, StreamEnds, ObserveExit, ObserveClosed, ObserveFailure,
      TypeOK, RemoveEntry, Refresh, storeVars
<1>5. ASSUME NEW c \in Calls, Release(c) \/ FailReleased(c) \/ RefreshReturn(c) PROVE LimitInv'
  BY <1>s, <1>t, <1>5
  DEF Release, FailReleased, RefreshReturn,
      TypeOK, RemoveEntry, Refresh, storeVars
<1>6. ASSUME NEW c \in Calls,
             \/ NetworkDenied(c) \/ DenialTask(c) \/ Drain(c) \/ WatcherEmit(c)
      PROVE  LimitInv'
  BY <1>s, <1>t, <1>6
  DEF NetworkDenied, DenialTask, Drain, WatcherEmit,
      TypeOK, RemoveEntry, Refresh, storeVars
<1>7. ASSUME NEW w \in Writers, NEW i \in Ids, prepare_process_handles(w, i) PROVE LimitInv'
  BY <1>s, <1>t, <1>7
  DEF prepare_process_handles,
      TypeOK, RemoveEntry, Refresh, storeVars
<1>8. ASSUME NEW w \in Writers, Write(w) \/ WriteFailed(w) \/ WCollect(w) PROVE LimitInv'
  BY <1>s, <1>t, <1>8
  DEF Write, WriteFailed, WCollect,
      TypeOK, RemoveEntry, Refresh, storeVars
<1>9. ASSUME NEW w \in Writers, WRelease(w) \/ WFail(w) \/ WRefresh(w) \/ WAbort(w) PROVE LimitInv'
  BY <1>s, <1>t, <1>9
  DEF WRelease, WFail, WRefresh, WAbort,
      TypeOK, RemoveEntry, Refresh, storeVars
<1>10. ASSUME NEW i \in Ids, TerminateBegin(i) PROVE LimitInv'
  BY <1>s, <1>t, <1>10
  DEF TerminateBegin,
      TypeOK, RemoveEntry, Refresh, storeVars
<1>11. CASE TerminateConfirmed \/ TerminateRemove \/ terminate_all_processes
  BY <1>s, <1>t, <1>11
  DEF TerminateConfirmed, TerminateRemove, terminate_all_processes,
      TypeOK, RemoveEntry, Refresh, storeVars
<1>12. ASSUME NEW c \in Calls, TerminateDrained(c) PROVE LimitInv'
  BY <1>s, <1>t, <1>12
  DEF TerminateDrained,
      TypeOK, RemoveEntry, Refresh, storeVars
<1>13. CASE UNCHANGED vars
  BY <1>s, <1>13 DEF vars, storeVars
<1>. QED
  BY <1>1, <1>2, <1>3, <1>4, <1>5, <1>6, <1>7, <1>8, <1>9, <1>10, <1>11, <1>12, <1>13
  DEF Next, Handler, Exec, Observe, Denial, WriteStdin, User

(* Together.                                                               *)
LEMMA BaseNext ==
    ASSUME BaseInv, [Next]_vars
    PROVE  BaseInv'
BY TypeNext, CallNext, EntryNext, AgeNext, LimitNext DEF BaseInv

-----------------------------------------------------------------------------
(* End events.                                                             *)
(* Every step keeps the account of who reports a command's end.            *)
LEMMA EndNext ==
    ASSUME BaseInv, \A c \in Calls : EndInv(c), [Next]_vars
    PROVE  \A x \in Calls : EndInv(x)'
<1>t. TypeOK /\ TypeOK' /\ (\A c \in Calls : CallInv(c)) /\ ClientInv
  BY TypeNext DEF BaseInv
<1>. SUFFICES ASSUME NEW x \in Calls PROVE EndInv(x)'
  OBVIOUS
<1>. USE <1>t DEF TypeOK, CallInv, Unborn, ClientInv, Opened, EndInv
<1>. USE DEF Goto, Return, Operation, storeVars, callVars, procVars, taskVars, writeVars, termVars,
           Terminate, FailAndTerminate, WGoto
<1>1. ASSUME NEW c \in Calls, NEW i \in Ids, allocate_process_id(c, i) PROVE EndInv(x)'
  BY <1>1 DEF allocate_process_id
<1>2. ASSUME NEW c \in Calls, HandlerFails(c) \/ OpenFails(c) PROVE EndInv(x)'
  BY <1>2 DEF HandlerFails, OpenFails
<1>3. ASSUME NEW c \in Calls, Open(c) PROVE EndInv(x)'
  BY <1>3 DEF Open
<1>4. ASSUME NEW c \in Calls, store_process(c) PROVE EndInv(x)'
  BY <1>4 DEF store_process
<1>5. ASSUME NEW c \in Calls, TerminatePruned(c) PROVE EndInv(x)'
  BY <1>5 DEF TerminatePruned
<1>6. ASSUME NEW c \in Calls, DropProcess(c) PROVE EndInv(x)'
  BY <1>6 DEF DropProcess
<1>7. ASSUME NEW c \in Calls, Collect(c) PROVE EndInv(x)'
  BY <1>7 DEF Collect, Stored
<1>8. ASSUME NEW c \in Calls, Release(c) PROVE EndInv(x)'
  BY <1>8 DEF Release
<1>8f. ASSUME NEW c \in Calls, FailReleased(c) PROVE EndInv(x)'
  BY <1>8f DEF FailReleased
<1>9. ASSUME NEW c \in Calls, RefreshReturn(c) PROVE EndInv(x)'
  BY <1>9 DEF RefreshReturn
<1>10. ASSUME NEW c \in Calls, Abort(c) PROVE EndInv(x)'
  BY <1>10 DEF Abort
<1>11. ASSUME NEW c \in Calls,
             \/ Exits(c) \/ StreamEnds(c) \/ ObserveExit(c) \/ ObserveClosed(c)
             \/ ObserveFailure(c)
      PROVE  EndInv(x)'
  BY <1>11 DEF Exits, StreamEnds, ObserveExit, ObserveClosed, ObserveFailure
<1>12. ASSUME NEW c \in Calls, NetworkDenied(c) \/ DenialTask(c) PROVE EndInv(x)'
  BY <1>12 DEF NetworkDenied, DenialTask
<1>13. ASSUME NEW c \in Calls, Drain(c) \/ WatcherEmit(c) PROVE EndInv(x)'
  BY <1>13 DEF Drain, WatcherEmit
<1>14. ASSUME NEW w \in Writers, NEW i \in Ids, prepare_process_handles(w, i) PROVE EndInv(x)'
  BY <1>14 DEF prepare_process_handles
<1>15. ASSUME NEW w \in Writers, Write(w) PROVE EndInv(x)'
  BY <1>15 DEF Write
<1>16. ASSUME NEW w \in Writers, WriteFailed(w) PROVE EndInv(x)'
  BY <1>16 DEF WriteFailed
<1>17. ASSUME NEW w \in Writers, WCollect(w) \/ WAbort(w) PROVE EndInv(x)'
  BY <1>17 DEF WCollect, WAbort
<1>18. ASSUME NEW w \in Writers, WRelease(w) PROVE EndInv(x)'
  BY <1>18 DEF WRelease
<1>18f. ASSUME NEW w \in Writers, WFail(w) PROVE EndInv(x)'
  BY <1>18f DEF WFail
<1>19. ASSUME NEW w \in Writers, WRefresh(w) PROVE EndInv(x)'
  BY <1>19 DEF WRefresh
<1>20. ASSUME NEW i \in Ids, TerminateBegin(i) PROVE EndInv(x)'
  BY <1>20 DEF TerminateBegin
<1>21. CASE TerminateConfirmed
  BY <1>21 DEF TerminateConfirmed
<1>22. CASE TerminateRemove
  BY <1>22 DEF TerminateRemove
<1>23. CASE terminate_all_processes
  BY <1>23 DEF terminate_all_processes
<1>24. ASSUME NEW c \in Calls, TerminateDrained(c) PROVE EndInv(x)'
  BY <1>24 DEF TerminateDrained
<1>25. CASE UNCHANGED vars
  BY <1>25 DEF vars
<1>. QED
  BY <1>1, <1>2, <1>3, <1>4, <1>5, <1>6, <1>7, <1>8, <1>8f, <1>9, <1>10, <1>11, <1>12, <1>13,
     <1>14, <1>15, <1>16, <1>17, <1>18, <1>18f, <1>19, <1>20, <1>21, <1>22, <1>23, <1>24, <1>25
  DEF Next, Handler, Exec, Observe, Denial, WriteStdin, User

-----------------------------------------------------------------------------
(* terminate_process.                                                      *)

(* A process that has exited stays so.                                     *)
LEMMA ExitedForGood ==
    ASSUME BaseInv, [Next]_vars
    PROVE  \A x \in Calls : HasExited(x) => HasExited(x)'
<1>t. TypeOK /\ TypeOK' /\ (\A c \in Calls : CallInv(c)) /\ ClientInv
  BY TypeNext DEF BaseInv
<1>. SUFFICES ASSUME NEW x \in Calls, HasExited(x) PROVE HasExited(x)'
  OBVIOUS
<1>. USE <1>t DEF TypeOK, CallInv, Unborn, ClientInv, Opened, HasExited
<1>. USE DEF Goto, Return, Operation, storeVars, callVars, procVars, taskVars, writeVars, termVars,
           Terminate, FailAndTerminate, WGoto
<1>1. ASSUME NEW c \in Calls, NEW i \in Ids, allocate_process_id(c, i) PROVE HasExited(x)'
  BY <1>1 DEF allocate_process_id
<1>2. ASSUME NEW c \in Calls,
             \/ HandlerFails(c) \/ OpenFails(c) \/ store_process(c) \/ Collect(c)
      PROVE  HasExited(x)'
  BY <1>2 DEF HandlerFails, OpenFails, store_process, Collect
<1>3. ASSUME NEW c \in Calls, Open(c) PROVE HasExited(x)'
  BY <1>3 DEF Open
<1>4. ASSUME NEW c \in Calls,
             \/ Abort(c) \/ TerminatePruned(c) \/ DropProcess(c)
      PROVE  HasExited(x)'
  BY <1>4 DEF Abort, TerminatePruned, DropProcess
<1>5. ASSUME NEW c \in Calls, Release(c) \/ FailReleased(c) \/ RefreshReturn(c) PROVE HasExited(x)'
  BY <1>5 DEF Release, FailReleased, RefreshReturn
<1>6. ASSUME NEW c \in Calls,
             \/ Exits(c) \/ StreamEnds(c) \/ ObserveExit(c) \/ ObserveClosed(c)
             \/ ObserveFailure(c)
      PROVE  HasExited(x)'
  BY <1>6 DEF Exits, StreamEnds, ObserveExit, ObserveClosed, ObserveFailure
<1>7. ASSUME NEW c \in Calls, NetworkDenied(c) \/ DenialTask(c) PROVE HasExited(x)'
  BY <1>7 DEF NetworkDenied, DenialTask
<1>8. ASSUME NEW c \in Calls, Drain(c) \/ WatcherEmit(c) PROVE HasExited(x)'
  BY <1>8 DEF Drain, WatcherEmit
<1>9. ASSUME NEW w \in Writers, NEW i \in Ids, prepare_process_handles(w, i) PROVE HasExited(x)'
  BY <1>9 DEF prepare_process_handles
<1>10. ASSUME NEW w \in Writers, Write(w) PROVE HasExited(x)'
  BY <1>10 DEF Write
<1>11. ASSUME NEW w \in Writers,
             \/ WriteFailed(w) \/ WCollect(w) \/ WAbort(w)
      PROVE  HasExited(x)'
  BY <1>11 DEF WriteFailed, WCollect, WAbort
<1>12. ASSUME NEW w \in Writers, WRelease(w) \/ WFail(w) \/ WRefresh(w) PROVE HasExited(x)'
  BY <1>12 DEF WRelease, WFail, WRefresh
<1>13. ASSUME NEW i \in Ids, TerminateBegin(i) PROVE HasExited(x)'
  BY <1>13 DEF TerminateBegin
<1>14. CASE TerminateConfirmed
  BY <1>14 DEF TerminateConfirmed
<1>15. CASE TerminateRemove \/ terminate_all_processes
  BY <1>15 DEF TerminateRemove, terminate_all_processes
<1>16. ASSUME NEW c \in Calls, TerminateDrained(c) PROVE HasExited(x)'
  BY <1>16 DEF TerminateDrained
<1>17. CASE UNCHANGED vars
  BY <1>17 DEF vars
<1>. QED
  BY <1>1, <1>2, <1>3, <1>4, <1>5, <1>6, <1>7, <1>8, <1>9, <1>10, <1>11, <1>12, <1>13,
     <1>14, <1>15, <1>16, <1>17
  DEF Next, Handler, Exec, Observe, Denial, WriteStdin, User

(* Every step keeps terminate_process off the entries that calls want.     *)
LEMMA TookNext ==
    ASSUME BaseInv, TookInv, [Next]_vars
    PROVE  TookInv'
<1>t. /\ TypeOK /\ TypeOK' /\ (\A c \in Calls : CallInv(c)) /\ (\A i \in Ids : EntryInv(i))
      /\ ClientInv /\ ClientInv'
  BY TypeNext, EntryNext DEF BaseInv
<1>e. \A x \in Calls : HasExited(x) => HasExited(x)'
  BY ExitedForGood
<1>. USE <1>t, <1>e DEF TypeOK, CallInv, EntryInv, ClientInv, TookInv
<1>. USE DEF Goto, Return, Operation, storeVars, callVars, procVars, taskVars, writeVars, termVars,
           Terminate, FailAndTerminate, WGoto, RemoveEntry, Refresh, Insert
<1>1. ASSUME NEW c \in Calls, NEW i \in Ids, allocate_process_id(c, i) PROVE TookInv'
  BY <1>1 DEF allocate_process_id
<1>2. ASSUME NEW c \in Calls, HandlerFails(c) \/ OpenFails(c) PROVE TookInv'
  BY <1>2 DEF HandlerFails, OpenFails
<1>3. ASSUME NEW c \in Calls, Open(c) PROVE TookInv'
  BY <1>3 DEF Open
<1>4. ASSUME NEW c \in Calls, store_process(c) PROVE TookInv'
  <2>1. /\ exec[c] = "insert" /\ active' = [active EXCEPT ![c] = TRUE]
        /\ \E to \in {"prune", "collect"} : exec' = [exec EXCEPT ![c] = to]
        /\ UNCHANGED <<outcome, tpc, tcall, took>>
    BY <1>4 DEF store_process
  <2>2. \A i \in Ids : processes'[i] \in {processes[i], c, NoCall}
    BY <1>4 DEF store_process
  <2>3. \A i \in Ids : processes'[i] # NoCall =>
           /\ exec'[processes'[i]] \in {"prune", "collect", "release", "fail", "refresh"}
              => active'[processes'[i]]
           /\ outcome'[processes'[i]] # "unknown"
    BY <2>1, <2>2
  <2>. QED  BY <2>1, <2>3
<1>5. ASSUME NEW c \in Calls, TerminatePruned(c) PROVE TookInv'
  BY <1>5 DEF TerminatePruned
<1>6. ASSUME NEW c \in Calls, DropProcess(c) PROVE TookInv'
  BY <1>6 DEF DropProcess
<1>7. ASSUME NEW c \in Calls, Collect(c) PROVE TookInv'
  BY <1>7 DEF Collect
<1>8. ASSUME NEW c \in Calls, Release(c) PROVE TookInv'
  BY <1>8 DEF Release
<1>8f. ASSUME NEW c \in Calls, FailReleased(c) PROVE TookInv'
  BY <1>8f DEF FailReleased
<1>9. ASSUME NEW c \in Calls, RefreshReturn(c) PROVE TookInv'
  BY <1>9 DEF RefreshReturn
<1>10. ASSUME NEW c \in Calls, Abort(c) PROVE TookInv'
  BY <1>10 DEF Abort, Finished
<1>11. ASSUME NEW c \in Calls,
             \/ Exits(c) \/ StreamEnds(c) \/ ObserveExit(c) \/ ObserveClosed(c)
             \/ ObserveFailure(c)
      PROVE  TookInv'
  BY <1>11 DEF Exits, StreamEnds, ObserveExit, ObserveClosed, ObserveFailure
<1>12. ASSUME NEW c \in Calls, NetworkDenied(c) \/ DenialTask(c) PROVE TookInv'
  BY <1>12 DEF NetworkDenied, DenialTask
<1>13. ASSUME NEW c \in Calls, Drain(c) \/ WatcherEmit(c) PROVE TookInv'
  BY <1>13 DEF Drain, WatcherEmit
<1>14. ASSUME NEW w \in Writers, NEW i \in Ids, prepare_process_handles(w, i) PROVE TookInv'
  BY <1>14 DEF prepare_process_handles
<1>15. ASSUME NEW w \in Writers, Write(w) PROVE TookInv'
  BY <1>15 DEF Write
<1>16. ASSUME NEW w \in Writers, WriteFailed(w) PROVE TookInv'
  BY <1>16 DEF WriteFailed
<1>17. ASSUME NEW w \in Writers, WCollect(w) \/ WAbort(w) PROVE TookInv'
  BY <1>17 DEF WCollect, WAbort
<1>18. ASSUME NEW w \in Writers, WRelease(w) PROVE TookInv'
  BY <1>18 DEF WRelease
<1>18f. ASSUME NEW w \in Writers, WFail(w) PROVE TookInv'
  BY <1>18f DEF WFail
<1>19. ASSUME NEW w \in Writers, WRefresh(w) PROVE TookInv'
  BY <1>19 DEF WRefresh
<1>20. ASSUME NEW i \in Ids, TerminateBegin(i) PROVE TookInv'
  BY <1>20 DEF TerminateBegin
<1>21. CASE TerminateConfirmed
  BY <1>21 DEF TerminateConfirmed, HasExited
<1>22. CASE TerminateRemove
  <2>1. UNCHANGED <<exec, outcome, active>> /\ tpc' = "idle"
    BY <1>22 DEF TerminateRemove
  <2>2. \A i \in Ids : processes'[i] \in {processes[i], NoCall}
    BY <1>22 DEF TerminateRemove
  <2>3. \A c \in took' \ took : c = tcall /\ processes[id[c]] = c /\ ~active[c] /\ HasExited(c)
    BY <1>22 DEF TerminateRemove
  <2>4. ASSUME NEW c \in took'
        PROVE  exec[c] \in {"returned", "aborted"} /\ HasExited(c)' /\ outcome[c] # "unknown"
    <3>1. CASE c \in took
      BY <3>1
    <3>2. CASE c \notin took
      <4>1. c \in Calls /\ processes[id[c]] = c /\ ~active[c] /\ HasExited(c) /\ tpc = "remove"
        BY <2>3, <2>4, <3>2, <1>22 DEF TerminateRemove
      <4>2. id[c] \in Ids
        BY <4>1 DEF HasExited, Unborn, Opened
      <4>. QED  BY <4>1, <4>2
    <3>. QED  BY <3>1, <3>2
  <2>. QED  BY <2>1, <2>2, <2>4
<1>23. CASE terminate_all_processes
  BY <1>23 DEF terminate_all_processes
<1>24. ASSUME NEW c \in Calls, TerminateDrained(c) PROVE TookInv'
  BY <1>24 DEF TerminateDrained
<1>25. CASE UNCHANGED vars
  BY <1>25 DEF vars
<1>. QED
  BY <1>1, <1>2, <1>3, <1>4, <1>5, <1>6, <1>7, <1>8, <1>8f, <1>9, <1>10, <1>11, <1>12, <1>13,
     <1>14, <1>15, <1>16, <1>17, <1>18, <1>18f, <1>19, <1>20, <1>21, <1>22, <1>23, <1>24, <1>25
  DEF Next, Handler, Exec, Observe, Denial, WriteStdin, User

-----------------------------------------------------------------------------
(* Whom a running process can be reached through, and ids given back.      *)
(* Who comes to release a stored process has given it up, and it stays so. *)
LEMMA ReleaseNext ==
    ASSUME BaseInv, ReleaseInv, \A c \in Calls : EndInv(c), [Next]_vars
    PROVE  ReleaseInv'
<1>t. TypeOK /\ TypeOK' /\ (\A c \in Calls : CallInv(c)) /\ ClientInv
  BY TypeNext DEF BaseInv
<1>. USE <1>t DEF TypeOK, CallInv, Unborn, ClientInv, Opened, EndInv, ReleaseInv, GivenUp
<1>. USE DEF Goto, Return, Operation, storeVars, callVars, procVars, taskVars, writeVars, termVars,
           Terminate, FailAndTerminate, WGoto
<1>1. ASSUME NEW c \in Calls, NEW i \in Ids, allocate_process_id(c, i) PROVE ReleaseInv'
  BY <1>1 DEF allocate_process_id
<1>2. ASSUME NEW c \in Calls, HandlerFails(c) \/ OpenFails(c) PROVE ReleaseInv'
  BY <1>2 DEF HandlerFails, OpenFails
<1>3. ASSUME NEW c \in Calls, Open(c) PROVE ReleaseInv'
  BY <1>3 DEF Open
<1>4. ASSUME NEW c \in Calls, store_process(c) PROVE ReleaseInv'
  BY <1>4 DEF store_process
<1>5. ASSUME NEW c \in Calls, TerminatePruned(c) PROVE ReleaseInv'
  BY <1>5 DEF TerminatePruned
<1>6. ASSUME NEW c \in Calls, DropProcess(c) PROVE ReleaseInv'
  BY <1>6 DEF DropProcess
<1>7. ASSUME NEW c \in Calls, Collect(c) PROVE ReleaseInv'
  BY <1>7 DEF Collect, Stored
<1>8. ASSUME NEW c \in Calls, Release(c) PROVE ReleaseInv'
  BY <1>8 DEF Release
<1>8f. ASSUME NEW c \in Calls, FailReleased(c) PROVE ReleaseInv'
  BY <1>8f DEF FailReleased
<1>9. ASSUME NEW c \in Calls, RefreshReturn(c) PROVE ReleaseInv'
  BY <1>9 DEF RefreshReturn
<1>10. ASSUME NEW c \in Calls, Abort(c) PROVE ReleaseInv'
  BY <1>10 DEF Abort
<1>11. ASSUME NEW c \in Calls,
             \/ Exits(c) \/ StreamEnds(c) \/ ObserveExit(c) \/ ObserveClosed(c)
             \/ ObserveFailure(c)
      PROVE  ReleaseInv'
  BY <1>11 DEF Exits, StreamEnds, ObserveExit, ObserveClosed, ObserveFailure
<1>12. ASSUME NEW c \in Calls, NetworkDenied(c) \/ DenialTask(c) PROVE ReleaseInv'
  BY <1>12 DEF NetworkDenied, DenialTask
<1>13. ASSUME NEW c \in Calls, Drain(c) \/ WatcherEmit(c) PROVE ReleaseInv'
  BY <1>13 DEF Drain, WatcherEmit
<1>14. ASSUME NEW w \in Writers, NEW i \in Ids, prepare_process_handles(w, i) PROVE ReleaseInv'
  BY <1>14 DEF prepare_process_handles
<1>15. ASSUME NEW w \in Writers, Write(w) PROVE ReleaseInv'
  BY <1>15 DEF Write
<1>16. ASSUME NEW w \in Writers, WriteFailed(w) PROVE ReleaseInv'
  BY <1>16 DEF WriteFailed
<1>17. ASSUME NEW w \in Writers, WCollect(w) \/ WAbort(w) PROVE ReleaseInv'
  BY <1>17 DEF WCollect, WAbort
<1>18. ASSUME NEW w \in Writers, WRelease(w) PROVE ReleaseInv'
  BY <1>18 DEF WRelease
<1>18f. ASSUME NEW w \in Writers, WFail(w) PROVE ReleaseInv'
  BY <1>18f DEF WFail
<1>19. ASSUME NEW w \in Writers, WRefresh(w) PROVE ReleaseInv'
  BY <1>19 DEF WRefresh
<1>20. ASSUME NEW i \in Ids, TerminateBegin(i) PROVE ReleaseInv'
  BY <1>20 DEF TerminateBegin
<1>21. CASE TerminateConfirmed
  BY <1>21 DEF TerminateConfirmed
<1>22. CASE TerminateRemove
  BY <1>22 DEF TerminateRemove
<1>23. CASE terminate_all_processes
  BY <1>23 DEF terminate_all_processes
<1>24. ASSUME NEW c \in Calls, TerminateDrained(c) PROVE ReleaseInv'
  BY <1>24 DEF TerminateDrained
<1>25. CASE UNCHANGED vars
  BY <1>25 DEF vars
<1>. QED
  BY <1>1, <1>2, <1>3, <1>4, <1>5, <1>6, <1>7, <1>8, <1>8f, <1>9, <1>10, <1>11, <1>12, <1>13,
     <1>14, <1>15, <1>16, <1>17, <1>18, <1>18f, <1>19, <1>20, <1>21, <1>22, <1>23, <1>24, <1>25
  DEF Next, Handler, Exec, Observe, Denial, WriteStdin, User

(* refresh_process_state removes none but an exited process.               *)
LEMMA RefreshRemoves ==
    ASSUME TypeOK, NEW i, Refresh(i)
    PROVE  \A j \in Ids : processes'[j] # processes[j]
                          => processes[j] \in Calls /\ HasExited(processes[j])
<1>1. CASE Exited(i) = {}
  BY <1>1 DEF Refresh, storeVars
<1>2. ASSUME NEW c \in Exited(i)
      PROVE  \A j \in Ids : processes'[j] # processes[j]
                            => processes[j] \in Calls /\ HasExited(processes[j])
  <2>1. processes[i] = c /\ c \in Calls /\ HasExited(c)
    BY <1>2 DEF Exited
  <2>2. \A j \in Ids : j # i => processes'[j] = processes[j]
    BY <1>2 DEF Refresh, RemoveEntry, TypeOK
  <2>. QED  BY <2>1, <2>2
<1>. QED  BY <1>1, <1>2

(* Every step leaves a running process with somebody.                      *)
LEMMA ReachNext ==
    ASSUME IInv, [Next]_vars
    PROVE  ReachInv'
<1>t. /\ TypeOK /\ TypeOK' /\ (\A c \in Calls : CallInv(c)) /\ (\A i \in Ids : EntryInv(i))
      /\ ClientInv /\ ReleaseInv /\ (\A c \in Calls : EndInv(c)) /\ TookInv
  BY TypeNext DEF BaseInv, IInv
<1>. DEFINE Unique == \A c, d \in Calls : c # d /\ id[c] = id[d] => id[c] = NoId
            Reached(c) == /\ watcher[c] = "waiting" \/ exec[c] = "prune"
                          /\ os[c] = "running" /\ ~has_exited[c] /\ ~denied[c]
                          => Within(c)
<1>. SUFFICES ASSUME ~slipped', NEW x \in Calls PROVE Unique' /\ Reached(x)'
  BY DEF ReachInv
<1>r. ~slipped => Unique /\ Reached(x)
  BY DEF IInv, ReachInv
<1>b. /\ slipped' \in BOOLEAN /\ slipped \in BOOLEAN
  BY <1>t DEF TypeOK
<1>. USE <1>t, <1>r DEF TypeOK, CallInv, EntryInv, ClientInv, Listed, Within
<1>. USE DEF Goto, Return, Operation, storeVars, callVars, procVars, taskVars, writeVars, termVars,
           Terminate, FailAndTerminate, WGoto, RemoveEntry, Refresh, Insert
<1>1. ASSUME NEW c \in Calls, NEW i \in Ids, allocate_process_id(c, i) PROVE Unique' /\ Reached(x)'
  <2>1. ~slipped /\ \A d \in Calls : id[d] # i
    BY <1>1 DEF allocate_process_id
  <2>2. Unique'
    BY <1>1, <2>1 DEF allocate_process_id
  <2>3. Reached(x)'
    BY <1>1, <2>1 DEF allocate_process_id, EndInv
  <2>. QED  BY <2>2, <2>3
<1>2. ASSUME NEW c \in Calls, HandlerFails(c) \/ OpenFails(c) PROVE Unique' /\ Reached(x)'
  BY <1>2 DEF HandlerFails, OpenFails
<1>3. ASSUME NEW c \in Calls, Open(c) PROVE Unique' /\ Reached(x)'
  <2>1. ~slipped /\ Unique'
    BY <1>3 DEF Open
  <2>2. CASE x = c
    <3>1. watcher'[x] = "none" /\ exec'[x] # "prune"
      BY <1>3, <2>2 DEF Open, EndInv
    <3>. QED  BY <2>1, <3>1
  <2>3. CASE x # c
    <3>1. UNCHANGED <<processes, draining, victim, watcher>>
      BY <1>3 DEF Open
    <3>2. /\ os'[x] = os[x] /\ exec'[x] = exec[x]
      BY <1>3, <2>3 DEF Open
    <3>3. has_exited'[x] = has_exited[x] /\ denied'[x] = denied[x]
      BY <1>3, <2>3 DEF Open
    <3>. QED  BY <2>1, <3>1, <3>2, <3>3
  <2>. QED  BY <2>2, <2>3
<1>4. ASSUME NEW c \in Calls, store_process(c) PROVE Unique' /\ Reached(x)'
  BY <1>4 DEF store_process
<1>5. ASSUME NEW c \in Calls, TerminatePruned(c) PROVE Unique' /\ Reached(x)'
  BY <1>5 DEF TerminatePruned
<1>6. ASSUME NEW c \in Calls, DropProcess(c) PROVE Unique' /\ Reached(x)'
  BY <1>6 DEF DropProcess
<1>7. ASSUME NEW c \in Calls, Collect(c) PROVE Unique' /\ Reached(x)'
  BY <1>7 DEF Collect
<1>8. ASSUME NEW c \in Calls, Release(c) PROVE Unique' /\ Reached(x)'
  <2>1. ~slipped /\ Unique' /\ id[c] \in Ids /\ UNCHANGED <<draining, victim, watcher>>
    BY <1>8 DEF Release
  <2>2. /\ os'[x] = "running" => os[x] = "running"
        /\ ~has_exited'[x] => ~has_exited[x]
        /\ denied' = denied
        /\ exec'[x] = "prune" => exec[x] = "prune"
        /\ \A i \in Ids \ {id[c]} : processes'[i] = processes[i]
    BY <1>8 DEF Release
  <2>3. CASE x # c
    BY <2>1, <2>2, <2>3
  <2>4. CASE x = c
    <3>1. watcher[c] # "none" => os'[c] # "running" \/ has_exited'[c] \/ denied'[c]
      BY <1>8 DEF Release, ReleaseInv, GivenUp, EndInv
    <3>2. exec'[c] # "prune"
      BY <1>8 DEF Release
    <3>. QED  BY <2>1, <2>4, <3>1, <3>2
  <2>. QED  BY <2>3, <2>4
<1>8f. ASSUME NEW c \in Calls, FailReleased(c) PROVE Unique' /\ Reached(x)'
  BY <1>8f DEF FailReleased
<1>9. ASSUME NEW c \in Calls, RefreshReturn(c) PROVE Unique' /\ Reached(x)'
  <2>1. ~slipped /\ Unique' /\ UNCHANGED <<draining, victim, watcher>>
    BY <1>9 DEF RefreshReturn
  <2>2. /\ os'[x] = "running" => os[x] = "running"
        /\ ~has_exited'[x] => ~has_exited[x]
        /\ denied' = denied
        /\ exec'[x] = "prune" => exec[x] = "prune"
    BY <1>9 DEF RefreshReturn
  <2>3. \A i \in Ids : processes'[i] # processes[i]
                       => processes[i] \in Calls /\ HasExited(processes[i])
    <3>1. Refresh(id[c])
      BY <1>9 DEF RefreshReturn
    <3>. HIDE DEF Refresh
    <3>. QED  BY <3>1, RefreshRemoves
  <2>. QED  BY <2>1, <2>2, <2>3 DEF HasExited
<1>10. ASSUME NEW c \in Calls, Abort(c) PROVE Unique' /\ Reached(x)'
  <2>1. ~slipped /\ exec[c] # "prune"
    BY <1>10 DEF Abort
  <2>2. /\ victim'= victim
        /\ UNCHANGED <<processes, draining, watcher, os, has_exited, denied, id>>
        /\ exec'[x] = "prune" => exec[x] = "prune"
    BY <1>10, <2>1 DEF Abort
  <2>. QED  BY <2>1, <2>2
<1>11. ASSUME NEW c \in Calls,
             \/ Exits(c) \/ StreamEnds(c) \/ ObserveExit(c) \/ ObserveClosed(c)
             \/ ObserveFailure(c)
      PROVE  Unique' /\ Reached(x)'
  BY <1>11 DEF Exits, StreamEnds, ObserveExit, ObserveClosed, ObserveFailure
<1>12. ASSUME NEW c \in Calls,
             \/ NetworkDenied(c) \/ DenialTask(c)
      PROVE  Unique' /\ Reached(x)'
  BY <1>12 DEF NetworkDenied, DenialTask
<1>13. ASSUME NEW c \in Calls, Drain(c) \/ WatcherEmit(c) PROVE Unique' /\ Reached(x)'
  BY <1>13 DEF Drain, WatcherEmit
<1>14. ASSUME NEW w \in Writers, NEW i \in Ids, prepare_process_handles(w, i)
       PROVE  Unique' /\ Reached(x)'
  BY <1>14 DEF prepare_process_handles
<1>15. ASSUME NEW w \in Writers, Write(w) PROVE Unique' /\ Reached(x)'
  BY <1>15 DEF Write
<1>16. ASSUME NEW w \in Writers, WriteFailed(w) PROVE Unique' /\ Reached(x)'
  <2>1. ~slipped /\ Unique' /\ UNCHANGED <<draining, victim, watcher, exec, has_exited, denied>>
    BY <1>16 DEF WriteFailed
  <2>2. os'[x] = "running" => os[x] = "running"
    BY <1>16 DEF WriteFailed
  <2>3. \A i \in Ids : processes'[i] # processes[i]
                       => processes[i] \in Calls /\ HasExited(processes[i])
    <3>1. Refresh(id[wcall[w]])
      BY <1>16 DEF WriteFailed
    <3>. HIDE DEF Refresh
    <3>. QED  BY <3>1, RefreshRemoves
  <2>. QED  BY <2>1, <2>2, <2>3 DEF HasExited
<1>17. ASSUME NEW w \in Writers, WCollect(w) \/ WAbort(w) PROVE Unique' /\ Reached(x)'
  BY <1>17 DEF WCollect, WAbort
<1>18. ASSUME NEW w \in Writers, WRelease(w) PROVE Unique' /\ Reached(x)'
  <2>. DEFINE v == wcall[w]
  <2>1. /\ ~slipped /\ Unique' /\ v \in Calls /\ id[v] \in Ids
        /\ UNCHANGED <<draining, victim, watcher, exec>>
    BY <1>18 DEF WRelease, Unborn, Opened
  <2>2. /\ os'[x] = "running" => os[x] = "running"
        /\ ~has_exited'[x] => ~has_exited[x]
        /\ denied' = denied
        /\ \A i \in Ids \ {id[v]} : processes'[i] = processes[i]
    BY <1>18 DEF WRelease
  <2>3. CASE x # v
    BY <2>1, <2>2, <2>3
  <2>4. CASE x = v
    <3>1. os'[v] # "running" \/ has_exited'[v] \/ denied'[v]
      BY <1>18 DEF WRelease, ReleaseInv, GivenUp, EndInv
    <3>. QED  BY <2>1, <2>4, <3>1
  <2>. QED  BY <2>3, <2>4
<1>18f. ASSUME NEW w \in Writers, WFail(w) PROVE Unique' /\ Reached(x)'
  BY <1>18f DEF WFail
<1>19. ASSUME NEW w \in Writers, WRefresh(w) PROVE Unique' /\ Reached(x)'
  <2>1. ~slipped /\ Unique' /\ UNCHANGED <<draining, victim, watcher, exec>>
    BY <1>19 DEF WRefresh
  <2>2. /\ os'[x] = "running" => os[x] = "running"
        /\ ~has_exited'[x] => ~has_exited[x]
        /\ denied' = denied
    BY <1>19 DEF WRefresh
  <2>3. \A i \in Ids : processes'[i] # processes[i]
                       => processes[i] \in Calls /\ HasExited(processes[i])
    <3>1. Refresh(id[wcall[w]])
      BY <1>19 DEF WRefresh
    <3>. HIDE DEF Refresh
    <3>. QED  BY <3>1, RefreshRemoves
  <2>. QED  BY <2>1, <2>2, <2>3 DEF HasExited
<1>20. ASSUME NEW i \in Ids, TerminateBegin(i) PROVE Unique' /\ Reached(x)'
  BY <1>20 DEF TerminateBegin
<1>21. CASE TerminateConfirmed
  BY <1>21 DEF TerminateConfirmed
<1>22. CASE TerminateRemove
  <2>1. ~slipped /\ Unique' /\ UNCHANGED <<draining, victim, watcher, exec, os, has_exited,
                                            denied>>
    BY <1>22 DEF TerminateRemove
  <2>2. HasExited(tcall)
    BY <1>22 DEF TerminateRemove, TookInv
  <2>3. \A i \in Ids : processes'[i] = processes[i] \/ processes[i] = tcall
    BY <1>22 DEF TerminateRemove
  <2>. QED  BY <2>1, <2>2, <2>3 DEF HasExited
<1>23. CASE terminate_all_processes
  BY <1>23 DEF terminate_all_processes
<1>24. ASSUME NEW c \in Calls, TerminateDrained(c) PROVE Unique' /\ Reached(x)'
  BY <1>24 DEF TerminateDrained
<1>25. CASE UNCHANGED vars
  BY <1>25 DEF vars
<1>. QED
  BY <1>1, <1>2, <1>3, <1>4, <1>5, <1>6, <1>7, <1>8, <1>8f, <1>9, <1>10, <1>11, <1>12, <1>13,
     <1>14, <1>15, <1>16, <1>17, <1>18, <1>18f, <1>19, <1>20, <1>21, <1>22, <1>23, <1>24, <1>25
  DEF Next, Handler, Exec, Observe, Denial, WriteStdin, User

(* Every step that takes an entry away takes its reservation along.        *)
LEMMA IdNext ==
    ASSUME IInv, [Next]_vars
    PROVE  IdInv'
<1>t. /\ TypeOK /\ TypeOK' /\ (\A c \in Calls : CallInv(c)) /\ (\A i \in Ids : EntryInv(i))
      /\ ClientInv /\ (\A c \in Calls : EndInv(c))
  BY TypeNext DEF BaseInv, IInv
<1>. DEFINE Back(c) == /\ WasStored(c) /\ c \notin Listed
                       /\ \A d \in Calls \ {c} : id[d] # id[c]
                       => id[c] \notin reserved
<1>. SUFFICES ASSUME NEW x \in Calls PROVE Back(x)'
  BY DEF IdInv
<1>r. Back(x)
  BY DEF IInv, IdInv
<1>. USE <1>t, <1>r DEF TypeOK, CallInv, EntryInv, ClientInv, EndInv, Listed, WasStored
<1>. USE DEF Goto, Return, Operation, storeVars, callVars, procVars, taskVars, writeVars, termVars,
           Terminate, FailAndTerminate, WGoto, RemoveEntry, Refresh, Insert
<1>1. ASSUME NEW c \in Calls, NEW i \in Ids, allocate_process_id(c, i) PROVE Back(x)'
  BY <1>1 DEF allocate_process_id
<1>2. ASSUME NEW c \in Calls, HandlerFails(c) \/ OpenFails(c) PROVE Back(x)'
  BY <1>2 DEF HandlerFails, OpenFails
<1>3. ASSUME NEW c \in Calls, Open(c) PROVE Back(x)'
  BY <1>3 DEF Open
<1>4. ASSUME NEW c \in Calls, store_process(c) PROVE Back(x)'
  BY <1>4 DEF store_process
<1>5. ASSUME NEW c \in Calls, TerminatePruned(c) PROVE Back(x)'
  BY <1>5 DEF TerminatePruned
<1>6. ASSUME NEW c \in Calls, DropProcess(c) PROVE Back(x)'
  BY <1>6 DEF DropProcess
<1>7. ASSUME NEW c \in Calls, Collect(c) PROVE Back(x)'
  BY <1>7 DEF Collect, Stored
<1>8. ASSUME NEW c \in Calls, Release(c) PROVE Back(x)'
  BY <1>8 DEF Release
<1>8f. ASSUME NEW c \in Calls, FailReleased(c) PROVE Back(x)'
  BY <1>8f DEF FailReleased
<1>9. ASSUME NEW c \in Calls, RefreshReturn(c) PROVE Back(x)'
  BY <1>9 DEF RefreshReturn
<1>10. ASSUME NEW c \in Calls, Abort(c) PROVE Back(x)'
  BY <1>10 DEF Abort
<1>11. ASSUME NEW c \in Calls,
             \/ Exits(c) \/ StreamEnds(c) \/ ObserveExit(c) \/ ObserveClosed(c)
             \/ ObserveFailure(c)
      PROVE  Back(x)'
  BY <1>11 DEF Exits, StreamEnds, ObserveExit, ObserveClosed, ObserveFailure
<1>12. ASSUME NEW c \in Calls, NetworkDenied(c) \/ DenialTask(c) PROVE Back(x)'
  BY <1>12 DEF NetworkDenied, DenialTask
<1>13. ASSUME NEW c \in Calls, Drain(c) \/ WatcherEmit(c) PROVE Back(x)'
  BY <1>13 DEF Drain, WatcherEmit
<1>14. ASSUME NEW w \in Writers, NEW i \in Ids, prepare_process_handles(w, i) PROVE Back(x)'
  BY <1>14 DEF prepare_process_handles
<1>15. ASSUME NEW w \in Writers, Write(w) PROVE Back(x)'
  BY <1>15 DEF Write
<1>16. ASSUME NEW w \in Writers, WriteFailed(w) PROVE Back(x)'
  BY <1>16 DEF WriteFailed
<1>17. ASSUME NEW w \in Writers, WCollect(w) \/ WAbort(w) PROVE Back(x)'
  BY <1>17 DEF WCollect, WAbort
<1>18. ASSUME NEW w \in Writers, WRelease(w) PROVE Back(x)'
  BY <1>18 DEF WRelease
<1>18f. ASSUME NEW w \in Writers, WFail(w) PROVE Back(x)'
  BY <1>18f DEF WFail
<1>19. ASSUME NEW w \in Writers, WRefresh(w) PROVE Back(x)'
  BY <1>19 DEF WRefresh
<1>20. ASSUME NEW i \in Ids, TerminateBegin(i) PROVE Back(x)'
  BY <1>20 DEF TerminateBegin
<1>21. CASE TerminateConfirmed
  BY <1>21 DEF TerminateConfirmed
<1>22. CASE TerminateRemove
  BY <1>22 DEF TerminateRemove
<1>23. CASE terminate_all_processes
  BY <1>23 DEF terminate_all_processes
<1>24. ASSUME NEW c \in Calls, TerminateDrained(c) PROVE Back(x)'
  BY <1>24 DEF TerminateDrained
<1>25. CASE UNCHANGED vars
  BY <1>25 DEF vars
<1>. QED
  BY <1>1, <1>2, <1>3, <1>4, <1>5, <1>6, <1>7, <1>8, <1>8f, <1>9, <1>10, <1>11, <1>12, <1>13,
     <1>14, <1>15, <1>16, <1>17, <1>18, <1>18f, <1>19, <1>20, <1>21, <1>22, <1>23, <1>24, <1>25
  DEF Next, Handler, Exec, Observe, Denial, WriteStdin, User

-----------------------------------------------------------------------------
(* The theorems.                                                           *)
(* The inductive invariant holds at first ...                              *)
LEMMA InvInit == Init => IInv
<1>. SUFFICES ASSUME Init PROVE IInv
  OBVIOUS
<1>. USE DEF Init
<1>1. BaseInv
  BY BaseInit
<1>2. \A c \in Calls : EndInv(c)
  BY DEF EndInv
<1>3. TookInv /\ ReleaseInv
  BY DEF TookInv, ReleaseInv
<1>4. ReachInv
  BY DEF ReachInv
<1>5. IdInv
  BY DEF IdInv, WasStored
<1>. QED  BY <1>1, <1>2, <1>3, <1>4, <1>5 DEF IInv

(* ... every step keeps it ...                                             *)
LEMMA InvNext ==
    ASSUME IInv, [Next]_vars
    PROVE  IInv'
BY BaseNext, EndNext, TookNext, ReleaseNext, ReachNext, IdNext DEF IInv

(* ... so it always holds.                                                 *)
LEMMA Invariance == Safety => []IInv
BY InvInit, InvNext, PTL DEF Safety

(* TypeOK: every variable keeps its type, and an entry of the process      *)
(* store is found under the id of its call.                                *)
THEOREM TypeCorrect == Safety => []TypeOK
<1>1. IInv => TypeOK
  BY DEF IInv, BaseInv
<1>. QED  BY <1>1, Invariance, PTL

(* OneEnd: exec_command and the exit watcher never both report the end of  *)
(* a command, and neither while its process runs on undisturbed.           *)
THEOREM EndReportedOnce == Safety => []OneEnd
<1>1. IInv => OneEnd
  BY DEF IInv, BaseInv, TypeOK, EndInv, OneEnd
<1>. QED  BY <1>1, Invariance, PTL

(* WithinLimit: store_process keeps the store to                           *)
(* MAX_UNIFIED_EXEC_PROCESSES, whatever the limit: a full store always has *)
(* an entry to prune.                                                      *)
THEOREM StoreBounded == Safety => []WithinLimit
<1>1. IInv => WithinLimit
  BY DEF IInv, BaseInv, LimitInv
<1>. QED  BY <1>1, Invariance, PTL

(* TerminateTakesOwn: terminate_process, which releases the lock while it  *)
(* confirms, takes no entry but that of the process it ended, and never    *)
(* one whose first call goes on to answer that it is unknown.              *)
THEOREM TerminateConfined == Safety => []TerminateTakesOwn
<1>1. IInv => TerminateTakesOwn
  BY DEF IInv, TookInv, TerminateTakesOwn
<1>. QED  BY <1>1, Invariance, PTL

(* ReachableUnlessSlipped: a background process that runs is listed, or in *)
(* the hands of whoever is about to terminate it.                          *)
THEOREM BackgroundReachable == Safety => []ReachableUnlessSlipped
<1>1. IInv => ReachableUnlessSlipped
  BY DEF IInv, ReachInv, Within, ReachableUnlessSlipped, Lost
<1>. QED  BY <1>1, Invariance, PTL

(* IdGivenBack: a call that returned without an entry in the store has     *)
(* given its process id back.                                              *)
THEOREM IdsReturned == Safety => []IdGivenBack
<1>1. IInv => IdGivenBack
  BY DEF IInv, IdInv, WasStored, IdGivenBack
<1>. QED  BY <1>1, Invariance, PTL
=============================================================================
