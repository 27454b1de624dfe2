--------------------------- MODULE EnvSwitch_proofs ---------------------------
(***************************************************************************)
(* Proofs about EnvSwitch for every family of threads, every set of hops   *)
(* and every cap: type correctness and what survives eviction, and, as     *)
(* long as the maps stay below their cap, the properties of the cursor.    *)
(***************************************************************************)
EXTENDS EnvSwitch, FiniteSetTheorems, TLAPS

(* Making room for a key keeps a map a map of the same type.               *)
LEMMA MakeRoomType ==
    ASSUME NEW K, NEW V, NEW map \in [K -> V], NEW key, NEW absent \in V
    PROVE  MakeRoom(map, key, absent) \subseteq [K -> V]
BY DEF MakeRoom, Keys

(* A map over at most MaxEntries keys never evicts.                        *)
LEMMA MakeRoomBelowCap ==
    ASSUME NEW K, NEW V, NEW map \in [K -> V], NEW key \in K, NEW absent,
           IsFiniteSet(K), Cardinality(K) <= MaxEntries
    PROVE  MakeRoom(map, key, absent) = {map}
<1>1. CASE map[key] # absent
  BY <1>1 DEF MakeRoom
<1>2. CASE map[key] = absent
  <2>1. Keys(map, absent) \in SUBSET (K \ {key})
    BY <1>2 DEF Keys
  <2>2. IsFiniteSet(K \ {key}) /\ Cardinality(K \ {key}) = Cardinality(K) - 1
    BY FS_RemoveElement
  <2>3. /\ IsFiniteSet(Keys(map, absent))
        /\ Cardinality(Keys(map, absent)) <= Cardinality(K) - 1
    BY <2>1, <2>2, FS_Subset
  <2>4. Cardinality(K) \in Nat /\ Cardinality(Keys(map, absent)) \in Nat
    BY <2>3, FS_CardinalityType
  <2>5. ~(Cardinality(Keys(map, absent)) >= MaxEntries)
    BY <2>3, <2>4, ManagerAssumption
  <2>. QED  BY <2>5 DEF MakeRoom
<1>. QED  BY <1>1, <1>2

(* Recording an id keeps a list of ids.                                    *)
LEMMA RecordedType ==
    ASSUME NEW ids \in Seq(Ids), NEW id \in Ids
    PROVE  Recorded(ids, id) \in Seq(Ids)
<1>1. Len(ids) >= MaxEntries => Tail(ids) \in Seq(Ids)
  BY ManagerAssumption
<1>. QED  BY <1>1 DEF Recorded

(* What a thread sees is well typed.                                       *)
LEMMA ViewTypes ==
    ASSUME TInv, NEW t \in Threads
    PROVE  /\ last_env_switch_environment_id(t) \in Ids \cup {None}
           /\ default_tool_environment_id(t) \in Ids \cup {None}
           /\ pc[t] # "absent" => default_tool_environment_id(t) \in Ids
           /\ \A id \in Launchers : ThreadMetadata(t, id) \in Cwds \cup {None}
BY EnvSwitchAssumption
   DEF TInv, TypeOK, ManagerTypeOK, CallTypes, last_env_switch_environment_id,
       default_tool_environment_id, ThreadMetadata,
       get_thread_environment_metadata_for_keys

(* The sub-agent's frozen list is well typed.                              *)
LEMMA SelectionsType ==
    ASSUME TInv, NEW t \in Threads
    PROVE  environment_selections_with_default(t)
               \in [Ids -> Cwds \cup {HostCwd, None}]
<1>. DEFINE d == default_tool_environment_id(t)
<1>1. d \in Launchers => /\ ThreadMetadata(t, d) \in Cwds \cup {None}
                         /\ env_metadata[d] \in Cwds \cup {None}
  BY ViewTypes DEF TInv, TypeOK, ManagerTypeOK
<1>2. turn_environments[t] \in [Ids -> Cwds \cup {HostCwd, None}]
  BY DEF TInv, TypeOK
<1>3. d \in Ids => InheritedCwd(t, d) \in Cwds \cup {HostCwd, None}
  BY <1>1, <1>2 DEF InheritedCwd, Ids
<1>. QED  BY <1>2, <1>3 DEF environment_selections_with_default

(* Storing an answer keeps the answers well typed.                         *)
LEMMA AnswerType ==
    ASSUME NEW r \in [Threads -> Answers], NEW t \in Threads,
           NEW from \in AnswerKinds, NEW id \in Ids,
           NEW cwd \in Cwds \cup {HostCwd, None}
    PROVE  [r EXCEPT ![t] = [from |-> from, id |-> id, cwd |-> cwd,
                             origin |-> r[t].origin]] \in [Threads -> Answers]
<1>1. r[t] \in Answers
  OBVIOUS
<1>2. r[t].origin \in Origins
  BY <1>1 DEF Answers
<1>3. [from |-> from, id |-> id, cwd |-> cwd, origin |-> r[t].origin] \in Answers
  BY <1>2 DEF Answers
<1>. QED  BY <1>3

LEMMA TypeInit == Init => TInv
BY ManagerAssumption, EnvSwitchAssumption
   DEF Init, ManagerInit, TInv, TypeOK, ManagerTypeOK, CallTypes, NoEntries,
       NoCall, NoRes, Ids, SwitchPCs, ResolvePCs, Answers, AnswerKinds, Origins

(* One step per action: each keeps every variable, and the locals of the   *)
(* calls in progress, in their types.                                      *)
LEMMA TypeNext == TInv /\ [Next]_vars => TInv'
<1>. SUFFICES ASSUME TInv, [Next]_vars PROVE TInv'
  OBVIOUS
<1>. USE ManagerAssumption, EnvSwitchAssumption
<1>u. CASE UNCHANGED vars
  BY <1>u DEF vars, managerVars, TInv, TypeOK, ManagerTypeOK, CallTypes
<1>s. ASSUME NEW t \in Threads, StartRoot(t) PROVE TInv'
  <2>1. TypeOK'
    <3>1. turn_environments' \in [Threads -> [Ids -> Cwds \cup {HostCwd, None}]]
      BY <1>s DEF StartRoot, TInv, TypeOK
    <3>2. primary' \in [Threads -> Ids \cup {None}]
      BY <1>s DEF StartRoot, TInv, TypeOK, Ids
    <3>. QED  BY <1>s, <3>1, <3>2 DEF StartRoot, Goto, managerVars, TInv, TypeOK,
                                      ManagerTypeOK
  <2>2. \A x \in Threads : CallTypes(x)'
    BY <1>s DEF StartRoot, Goto, TInv, TypeOK, CallTypes, Ids
  <2>. QED  BY <2>1, <2>2 DEF TInv
<1>p. ASSUME NEW t \in Threads, NEW child \in Threads, Spawn(t, child) PROVE TInv'
  <2>1. default_tool_environment_id(t) \in Ids /\ primary[t] \in Ids
    BY <1>p, ViewTypes DEF Spawn, TInv, CallTypes
  <2>2. environment_selections_with_default(t) \in [Ids -> Cwds \cup {HostCwd, None}]
    BY SelectionsType
  <2>. QED
    BY <1>p, <2>1, <2>2 DEF Spawn, Goto, managerVars, TInv, TypeOK, ManagerTypeOK,
              CallTypes, SwitchPCs, ResolvePCs
<1>b. ASSUME NEW t \in Threads, NEW l \in Launchers, pc[t] = "idle", BeginRemote(t, l)
      PROVE  TInv'
  <2>1. TypeOK'
    <3>1. sw' \in [Threads -> [id : Ids \cup {None}, cwd : Cwds \cup {None}]]
      BY <1>b DEF BeginRemote, TInv, TypeOK, Ids
    <3>2. switches' \in [Threads -> Nat]
      BY <1>b DEF BeginRemote, TInv, TypeOK
    <3>. QED  BY <1>b, <3>1, <3>2 DEF BeginRemote, Goto, managerVars, TInv, TypeOK,
                                      ManagerTypeOK, SwitchPCs
  <2>2. \A x \in Threads : CallTypes(x)'
    BY <1>b DEF BeginRemote, Goto, TInv, TypeOK, CallTypes
  <2>. QED  BY <2>1, <2>2 DEF TInv
<1>sw. ASSUME NEW t \in Threads, SwitchStep(t) PROVE TInv'
  <2>. USE DEF Goto, managerVars, TInv, TypeOK, ManagerTypeOK, CallTypes, SwitchPCs, ResolvePCs
  <2>1. CASE \E l \in Launchers : SwitchAbsolute(t, l)
    BY <2>1, <1>b DEF SwitchAbsolute
  <2>2. CASE \E l \in Launchers, h \in Hops : SwitchExtendBase(t, l, h)
    BY <2>2, <1>b DEF SwitchExtendBase
  <2>3. CASE \E h \in Hops : SwitchExtend(t, h)
    BY <2>3, <1>b DEF SwitchExtend
  <2>4. CASE Provisioned(t)
    BY <2>4 DEF Provisioned
  <2>5. CASE SwitchFails(t)
    BY <2>5 DEF SwitchFails, NoCall
  <2>6. CASE \E c \in Cwds : CwdResolved(t, c)
    <3>1. sw' \in [Threads -> [id : Ids \cup {None}, cwd : Cwds \cup {None}]]
      <4>1. PICK cwd \in Cwds : sw' = [sw EXCEPT ![t].cwd = cwd]
        BY <2>6 DEF CwdResolved
      <4>2. sw[t] \in [id : Ids \cup {None}, cwd : Cwds \cup {None}]
        OBVIOUS
      <4>3. [sw[t] EXCEPT !.cwd = cwd] \in [id : Ids \cup {None}, cwd : Cwds \cup {None}]
        BY <4>2
      <4>. QED  BY <4>1, <4>3
    <3>2. TypeOK'
      BY <2>6, <3>1 DEF CwdResolved
    <3>3. \A x \in Threads : CallTypes(x)'
      BY <2>6 DEF CwdResolved
    <3>. QED  BY <3>2, <3>3
  <2>7. CASE SetMetadata(t)
    <3>1. env_metadata' \in [Launchers -> Cwds \cup {None}]
      <4>1. PICK m \in MakeRoom(env_metadata, sw[t].id, None) :
                env_metadata' = [m EXCEPT ![sw[t].id] = sw[t].cwd]
        BY <2>7 DEF SetMetadata, set_environment_metadata
      <4>2. m \in [Launchers -> Cwds \cup {None}]
        BY MakeRoomType
      <4>. QED  BY <2>7, <4>1, <4>2 DEF SetMetadata
    <3>2. TypeOK'
      BY <2>7, <3>1 DEF SetMetadata
    <3>3. \A x \in Threads : CallTypes(x)'
      BY <2>7 DEF SetMetadata
    <3>. QED  BY <3>2, <3>3
  <2>8. CASE SetThreadMetadata(t)
    <3>1. thread_env_metadata' \in [Threads -> [Launchers -> Cwds \cup {None}]]
      <4>1. PICK m \in MakeRoom(thread_env_metadata, t, NoEntries) :
              \E e \in MakeRoom(m[t], sw[t].id, None) :
                thread_env_metadata' = [m EXCEPT ![t] = [e EXCEPT ![sw[t].id] = sw[t].cwd]]
        BY <2>8 DEF SetThreadMetadata, set_thread_environment_metadata
      <4>2. NoEntries \in [Launchers -> Cwds \cup {None}]
        BY DEF NoEntries
      <4>3. m \in [Threads -> [Launchers -> Cwds \cup {None}]]
        BY <4>2, MakeRoomType
      <4>4. PICK e \in MakeRoom(m[t], sw[t].id, None) :
                thread_env_metadata' = [m EXCEPT ![t] = [e EXCEPT ![sw[t].id] = sw[t].cwd]]
        BY <4>1
      <4>5. e \in [Launchers -> Cwds \cup {None}]
        BY <4>3, MakeRoomType
      <4>. QED  BY <2>8, <4>3, <4>4, <4>5 DEF SetThreadMetadata
    <3>2. TypeOK'
      BY <2>8, <3>1 DEF SetThreadMetadata
    <3>3. \A x \in Threads : CallTypes(x)'
      BY <2>8 DEF SetThreadMetadata
    <3>. QED  BY <3>2, <3>3
  <2>9. CASE Upsert(t)
    <3>1. environments' \subseteq Ids
      BY <2>9 DEF Upsert, upsert_stdio_environment, Ids
    <3>2. TypeOK'
      BY <2>9, <3>1 DEF Upsert
    <3>3. \A x \in Threads : CallTypes(x)'
      BY <2>9 DEF Upsert
    <3>. QED  BY <3>2, <3>3
  <2>10. CASE SetLauncher(t)
    <3>1. last_launcher' \in [Threads -> Launchers \cup {None}]
      <4>1. PICK m \in MakeRoom(last_launcher, t, None) :
                last_launcher' = [m EXCEPT ![t] = sw[t].id]
        BY <2>10 DEF SetLauncher, set_last_launcher
      <4>2. m \in [Threads -> Launchers \cup {None}]
        BY MakeRoomType
      <4>. QED  BY <2>10, <4>1, <4>2 DEF SetLauncher
    <3>2. TypeOK'
      BY <2>10, <3>1 DEF SetLauncher, Ids
    <3>3. \A x \in Threads : CallTypes(x)'
      BY <2>10 DEF SetLauncher, Ids
    <3>. QED  BY <3>2, <3>3
  <2>11. CASE SwitchLocal(t)
    <3>1. TypeOK'
      <4>1. sw' \in [Threads -> [id : Ids \cup {None}, cwd : Cwds \cup {None}]]
        BY <2>11 DEF SwitchLocal, Ids
      <4>2. switches' \in [Threads -> Nat]
        BY <2>11 DEF SwitchLocal
      <4>. QED  BY <2>11, <4>1, <4>2 DEF SwitchLocal
    <3>2. \A x \in Threads : CallTypes(x)'
      BY <2>11 DEF SwitchLocal
    <3>. QED  BY <3>1, <3>2
  <2>12. CASE ClearLauncher(t)
    <3>1. last_launcher' \in [Threads -> Launchers \cup {None}]
      BY <2>12 DEF ClearLauncher, clear_last_launcher
    <3>2. TypeOK'
      BY <2>12, <3>1 DEF ClearLauncher, Ids
    <3>3. \A x \in Threads : CallTypes(x)'
      BY <2>12 DEF ClearLauncher, Ids
    <3>. QED  BY <3>2, <3>3
  <2>13. CASE SetLast(t)
    <3>1. last_environment_id' \in [Threads -> Ids \cup {None}]
      <4>1. PICK m \in MakeRoom(last_environment_id, t, None) :
                last_environment_id' = [m EXCEPT ![t] = sw[t].id]
        BY <2>13 DEF SetLast, set_last_environment_id
      <4>2. m \in [Threads -> Ids \cup {None}]
        BY MakeRoomType
      <4>. QED  BY <2>13, <4>1, <4>2 DEF SetLast
    <3>2. TypeOK'
      BY <2>13, <3>1 DEF SetLast
    <3>3. \A x \in Threads : CallTypes(x)'
      BY <2>13 DEF SetLast
    <3>. QED  BY <3>2, <3>3
  <2>14. CASE Record(t)
    <3>1. thread_environment_ids' \in [Threads -> Seq(Ids)]
      <4>1. PICK m \in MakeRoom(thread_environment_ids, t, <<>>) :
                thread_environment_ids' = [m EXCEPT ![t] = Recorded(@, sw[t].id)]
        BY <2>14 DEF Record, record_thread_environment_id
      <4>2. m \in [Threads -> Seq(Ids)]
        <5>1. <<>> \in Seq(Ids)
          OBVIOUS
        <5>. QED  BY <5>1, MakeRoomType
      <4>3. Recorded(m[t], sw[t].id) \in Seq(Ids)
        BY <2>14, <4>2, RecordedType DEF Record
      <4>. QED  BY <4>1, <4>2, <4>3
    <3>2. TypeOK'
      BY <2>14, <3>1 DEF Record, NoCall
    <3>3. \A x \in Threads : CallTypes(x)'
      BY <2>14 DEF Record, NoCall
    <3>. QED  BY <3>2, <3>3
  <2>. QED
    BY <1>sw, <2>1, <2>2, <2>3, <2>4, <2>5, <2>6, <2>7, <2>8, <2>9, <2>10, <2>11,
       <2>12, <2>13, <2>14 DEF SwitchStep
<1>d. ASSUME NEW t \in Threads, NEW id \in Ids, NEW implicit, Dispatch(t, id, implicit)
      PROVE  /\ res' \in [Threads -> Answers]
             /\ Goto(t, "resolved") \/ (id \in Launchers /\ Goto(t, "metadata"))
  <2>1. turn_environments[t][id] \in Cwds \cup {HostCwd, None}
    BY DEF TInv, TypeOK
  <2>2. res \in [Threads -> Answers]
    BY DEF TInv, TypeOK
  <2>3. CASE id = Local /\ Answer(t, "host", Local, HostCwd)
    BY <2>2, <2>3, AnswerType DEF AnswerKinds, Answer
  <2>4. CASE id # Local /\ Goto(t, "metadata") /\ UNCHANGED res
    BY <2>2, <2>4 DEF Ids
  <2>5. CASE Answer(t, "turn", id, turn_environments[t][id])
    BY <2>1, <2>2, <2>5, AnswerType DEF AnswerKinds, Answer
  <2>6. CASE Answer(t, "unknown", id, None)
    BY <2>2, <2>6, AnswerType DEF AnswerKinds, Answer
  <2>. QED  BY <1>d, <2>3, <2>4, <2>5, <2>6 DEF Dispatch
<1>r. ASSUME NEW t \in Threads, ResolveStep(t) PROVE TInv'
  <2>. USE DEF Goto, managerVars, TInv, TypeOK, ManagerTypeOK, CallTypes, SwitchPCs, ResolvePCs
  <2>1. CASE ResolveImplicit(t)
    <3>1. default_tool_environment_id(t) \in Ids
      BY <2>1, ViewTypes DEF ResolveImplicit
    <3>2. res' \in [Threads -> Answers]
      <4>1. PICK o \in Origins : res' = [res EXCEPT ![t].origin = o]
        BY <2>1 DEF ResolveImplicit, Origins
      <4>2. res[t] \in Answers
        OBVIOUS
      <4>3. [res[t] EXCEPT !.origin = o] \in Answers
        BY <4>2 DEF Answers
      <4>. QED  BY <4>1, <4>3
    <3>3. sw' \in [Threads -> [id : Ids \cup {None}, cwd : Cwds \cup {None}]]
      BY <2>1, <3>1 DEF ResolveImplicit
    <3>4. TypeOK'
      BY <2>1, <3>2, <3>3 DEF ResolveImplicit
    <3>5. \A x \in Threads : CallTypes(x)'
      BY <2>1, <3>1 DEF ResolveImplicit
    <3>. QED  BY <3>4, <3>5
  <2>2. CASE ResolveSecondRead(t)
    <3>1. sw[t].id \in Ids
      BY <2>2 DEF ResolveSecondRead
    <3>2. /\ res' \in [Threads -> Answers]
          /\ Goto(t, "resolved") \/ (sw[t].id \in Launchers /\ Goto(t, "metadata"))
      BY <2>2, <3>1, <1>d DEF ResolveSecondRead
    <3>3. TypeOK'
      BY <2>2, <3>2 DEF ResolveSecondRead
    <3>4. \A x \in Threads : CallTypes(x)'
      BY <2>2, <3>2 DEF ResolveSecondRead
    <3>. QED  BY <3>3, <3>4
  <2>3. CASE \E id \in Ids : ResolveExplicit(t, id)
    <3>1. PICK id \in Ids : ResolveExplicit(t, id)
      BY <2>3
    <3>2. /\ res' \in [Threads -> Answers]
          /\ Goto(t, "resolved") \/ (id \in Launchers /\ Goto(t, "metadata"))
      BY <3>1, <1>d DEF ResolveExplicit
    <3>3. sw' \in [Threads -> [id : Ids \cup {None}, cwd : Cwds \cup {None}]]
      BY <3>1 DEF ResolveExplicit
    <3>4. TypeOK'
      <4>1. pc' \in [Threads -> {"absent", "idle"} \cup SwitchPCs \cup ResolvePCs]
        BY <3>2
      <4>2. /\ ManagerTypeOK'
            /\ UNCHANGED <<turn_environments, primary, switches>>
        BY <3>1 DEF ResolveExplicit
      <4>. QED  BY <3>2, <3>3, <4>1, <4>2
    <3>5. \A x \in Threads : CallTypes(x)'
      BY <3>1, <3>2 DEF ResolveExplicit
    <3>. QED  BY <3>4, <3>5
  <2>4. CASE turn_environment_from_env_switch_metadata(t)
    <3>1. /\ ThreadMetadata(t, sw[t].id) \in Cwds \cup {None}
          /\ sw[t].id \in Ids
      BY <2>4, ViewTypes DEF turn_environment_from_env_switch_metadata, Ids
    <3>2. res' \in [Threads -> Answers] /\ Goto(t, "resolved")
      <4>1. PICK from \in AnswerKinds, cwd \in Cwds \cup {HostCwd, None} :
                Answer(t, from, sw[t].id, cwd)
        BY <2>4, <3>1 DEF turn_environment_from_env_switch_metadata, AnswerKinds
      <4>2. [res EXCEPT ![t] = [from |-> from, id |-> sw[t].id, cwd |-> cwd,
                                origin |-> res[t].origin]] \in [Threads -> Answers]
        BY <3>1, AnswerType
      <4>. QED  BY <4>1, <4>2 DEF Answer
    <3>. QED
      BY <2>4, <3>2 DEF turn_environment_from_env_switch_metadata
  <2>5. CASE ResolveReturn(t)
    BY <2>5 DEF ResolveReturn, NoCall, NoRes, Answers, AnswerKinds, Origins
  <2>. QED  BY <1>r, <2>1, <2>2, <2>3, <2>4, <2>5 DEF ResolveStep
<1>. QED  BY <1>u, <1>s, <1>p, <1>sw, <1>r DEF Next

(* Every variable keeps its type in every behaviour, at the cap and below. *)
THEOREM TypeCorrect == Spec => []TypeOK
<1>1. TInv => TypeOK
  BY DEF TInv
<1>. QED  BY <1>1, TypeInit, TypeNext, PTL DEF Spec

-----------------------------------------------------------------------------
(* Below the cap each write touches its own key only.                      *)
LEMMA WritesBelowCap ==
    ASSUME BelowCap, TInv, NEW t \in Threads
    PROVE  /\ \A id \in Launchers, cwd \in Cwds :
                 set_thread_environment_metadata(t, id, cwd) =>
                   thread_env_metadata' = [thread_env_metadata EXCEPT ![t][id] = cwd]
           /\ \A l \in Launchers : set_last_launcher(t, l) =>
                   last_launcher' = [last_launcher EXCEPT ![t] = l]
           /\ \A id \in Ids : set_last_environment_id(t, id) =>
                   last_environment_id' = [last_environment_id EXCEPT ![t] = id]
           /\ \A id \in Ids : record_thread_environment_id(t, id) =>
                   thread_environment_ids' =
                       [thread_environment_ids EXCEPT ![t] = Recorded(@, id)]
<1>1. IsFiniteSet(Launchers) /\ Cardinality(Launchers) <= MaxEntries
  <2>1. Launchers \in SUBSET Ids
    BY DEF Ids
  <2>2. IsFiniteSet(Launchers) /\ Cardinality(Launchers) <= Cardinality(Ids)
    BY <2>1, FS_Subset DEF BelowCap
  <2>3. Cardinality(Launchers) \in Nat /\ Cardinality(Ids) \in Nat
    BY <2>2, FS_CardinalityType DEF BelowCap
  <2>. QED  BY <2>2, <2>3, ManagerAssumption DEF BelowCap
<1>0. IsFiniteSet(Threads) /\ Cardinality(Threads) <= MaxEntries
  BY DEF BelowCap
<1>2. ASSUME NEW id \in Launchers, NEW cwd \in Cwds,
             set_thread_environment_metadata(t, id, cwd)
      PROVE  thread_env_metadata' = [thread_env_metadata EXCEPT ![t][id] = cwd]
  <2>0. thread_env_metadata \in [Threads -> [Launchers -> Cwds \cup {None}]]
    BY DEF TInv, TypeOK, ManagerTypeOK
  <2>1. MakeRoom(thread_env_metadata, t, NoEntries) = {thread_env_metadata}
    BY <1>0, <2>0, MakeRoomBelowCap
  <2>2. thread_env_metadata[t] \in [Launchers -> Cwds \cup {None}]
    BY DEF TInv, TypeOK, ManagerTypeOK
  <2>3. MakeRoom(thread_env_metadata[t], id, None) = {thread_env_metadata[t]}
    BY <1>1, <2>2, MakeRoomBelowCap
  <2>. QED  BY <1>2, <2>1, <2>3 DEF set_thread_environment_metadata
<1>3. ASSUME NEW l \in Launchers, set_last_launcher(t, l)
      PROVE  last_launcher' = [last_launcher EXCEPT ![t] = l]
  <2>0. last_launcher \in [Threads -> Launchers \cup {None}]
    BY DEF TInv, TypeOK, ManagerTypeOK
  <2>1. MakeRoom(last_launcher, t, None) = {last_launcher}
    BY <1>0, <2>0, MakeRoomBelowCap
  <2>. QED  BY <1>3, <2>1 DEF set_last_launcher
<1>4. ASSUME NEW id \in Ids, set_last_environment_id(t, id)
      PROVE  last_environment_id' = [last_environment_id EXCEPT ![t] = id]
  <2>0. last_environment_id \in [Threads -> Ids \cup {None}]
    BY DEF TInv, TypeOK, ManagerTypeOK
  <2>1. MakeRoom(last_environment_id, t, None) = {last_environment_id}
    BY <1>0, <2>0, MakeRoomBelowCap
  <2>. QED  BY <1>4, <2>1 DEF set_last_environment_id
<1>5. ASSUME NEW id \in Ids, record_thread_environment_id(t, id)
      PROVE  thread_environment_ids' =
                 [thread_environment_ids EXCEPT ![t] = Recorded(@, id)]
  <2>0. thread_environment_ids \in [Threads -> Seq(Ids)]
    BY DEF TInv, TypeOK, ManagerTypeOK
  <2>1. MakeRoom(thread_environment_ids, t, <<>>) = {thread_environment_ids}
    BY <1>0, <2>0, MakeRoomBelowCap
  <2>. QED  BY <1>5, <2>1 DEF record_thread_environment_id
<1>. QED  BY <1>2, <1>3, <1>4, <1>5

(* Recording an id adds that id and no other.                              *)
LEMMA RecordedContains ==
    ASSUME NEW ids \in Seq(Ids), NEW id \in Ids, NEW x,
           Contains(Recorded(ids, id), x)
    PROVE  x = id \/ Contains(ids, x)
<1>1. CASE Contains(ids, id)
  BY <1>1 DEF Recorded
<1>2. CASE ~Contains(ids, id)
  <2>. DEFINE kept == IF Len(ids) >= MaxEntries THEN Tail(ids) ELSE ids
  <2>1. kept \in Seq(Ids) /\ Recorded(ids, id) = Append(kept, id)
    BY <1>2, ManagerAssumption DEF Recorded
  <2>2. \A i \in DOMAIN kept : \E j \in DOMAIN ids : kept[i] = ids[j]
    BY ManagerAssumption
  <2>. HIDE DEF kept
  <2>3. PICK i \in DOMAIN Append(kept, id) : Append(kept, id)[i] = x
    BY <2>1 DEF Contains
  <2>4. CASE i = Len(kept) + 1
    BY <2>1, <2>3, <2>4
  <2>5. CASE i # Len(kept) + 1
    <3>1. i \in DOMAIN kept /\ kept[i] = x
      BY <2>1, <2>3, <2>5
    <3>. QED  BY <2>2, <3>1 DEF Contains
  <2>. QED  BY <2>4, <2>5
<1>. QED  BY <1>1, <1>2

(* What a step of thread t leaves alone: environments and metadata only     *)
(* grow, and every other thread keeps its place, locals and cursor.         *)
Frame(t) ==
    /\ environments \subseteq environments'
    /\ \A x \in Threads, id \in Launchers :
          thread_env_metadata[x][id] # None => thread_env_metadata'[x][id] # None
    /\ \A x \in Threads \ {t} :
          /\ pc'[x] = pc[x] /\ sw'[x] = sw[x] /\ res'[x] = res[x]
          /\ last_launcher'[x] = last_launcher[x]
          /\ last_environment_id'[x] = last_environment_id[x]

(* A thread that a step leaves alone keeps what its call relies on.        *)
LEMMA FrameProgress ==
    ASSUME IInv, TInv', NEW t \in Threads, Frame(t), CallProgress(t)'
    PROVE  \A x \in Threads : CallProgress(x)'
<1>. SUFFICES ASSUME NEW x \in Threads \ {t} PROVE CallProgress(x)'
  OBVIOUS
<1>1. pc'[x] = pc[x] /\ sw'[x] = sw[x] /\ last_launcher'[x] = last_launcher[x]
      /\ last_environment_id'[x] = last_environment_id[x]
  BY DEF Frame
<1>2. pc[x] \in {"upsert", "setLauncher", "metadata"} => sw[x].id \in Launchers
  BY DEF IInv, TInv, CallTypes
<1>3. ASSUME NEW id \in Launchers, ThreadMetadata(x, id) # None
      PROVE  ThreadMetadata(x, id)' # None
  <2>1. Parent[x] \in Threads \cup {None}
    BY EnvSwitchAssumption
  <2>. QED
    BY <1>3, <2>1 DEF Frame, ThreadMetadata, get_thread_environment_metadata_for_keys
<1>4. CallProgress(x)
  BY DEF IInv
<1>. QED  BY <1>1, <1>2, <1>3, <1>4 DEF CallProgress, Frame

(* One step per action: below the cap each keeps the invariant.            *)
LEMMA InvNext ==
    ASSUME BelowCap, IInv, [Next]_vars
    PROVE  IInv'
<1>. USE ManagerAssumption, EnvSwitchAssumption
<1>t. TInv /\ TInv'
  BY TypeNext DEF IInv
<1>v. UNCHANGED managerVars =>
        /\ \A x \in Threads : \A id \in Launchers : ThreadMetadata(x, id)' = ThreadMetadata(x, id)
        /\ CursorBacked'
  BY DEF managerVars, ThreadMetadata, get_thread_environment_metadata_for_keys, IInv,
         CursorBacked, Contains
<1>u. CASE UNCHANGED vars
  BY <1>u, <1>t, <1>v DEF vars, IInv, LauncherFollowsCursor, MetadataNeverMissing,
        CallProgress, managerVars, TInv, CallTypes
\* A step that moves only thread t's own control state.
<1>q. ASSUME NEW t \in Threads, UNCHANGED managerVars, Frame(t), CallProgress(t)',
             pc[t] # "setLast", res'[t].from # "missing"
      PROVE  IInv'
  <2>1. LauncherFollowsCursor'
    BY <1>q DEF IInv, LauncherFollowsCursor, managerVars, Frame
  <2>2. MetadataNeverMissing'
    BY <1>q DEF IInv, MetadataNeverMissing, Frame
  <2>3. \A x \in Threads : CallProgress(x)'
    BY <1>q, <1>t, FrameProgress
  <2>. QED  BY <1>q, <1>t, <1>v, <2>1, <2>2, <2>3 DEF IInv
<1>s. ASSUME NEW t \in Threads, StartRoot(t) PROVE IInv'
  <2>1. Frame(t) /\ CallProgress(t)'
    BY <1>s, <1>t DEF StartRoot, Goto, Frame, CallProgress, managerVars, TInv, TypeOK
  <2>. QED  BY <1>s, <1>q, <2>1 DEF StartRoot, IInv, MetadataNeverMissing
<1>p. ASSUME NEW t \in Threads, NEW child \in Threads, Spawn(t, child) PROVE IInv'
  <2>1. Frame(child) /\ CallProgress(child)'
    BY <1>p, <1>t DEF Spawn, Goto, Frame, CallProgress, managerVars, TInv, TypeOK
  <2>. QED  BY <1>p, <1>q, <2>1 DEF Spawn, IInv, MetadataNeverMissing
<1>b. ASSUME NEW t \in Threads, NEW l \in Launchers, pc[t] = "idle", BeginRemote(t, l)
      PROVE  IInv'
  <2>1. Frame(t) /\ CallProgress(t)'
    BY <1>b, <1>t DEF BeginRemote, Goto, Frame, CallProgress, managerVars, TInv, TypeOK
  <2>. QED  BY <1>b, <1>q, <2>1 DEF BeginRemote, IInv, MetadataNeverMissing
<1>sw. ASSUME NEW t \in Threads, SwitchStep(t) PROVE IInv'
  <2>. USE <1>t DEF Goto, managerVars
  <2>1. CASE \E l \in Launchers : SwitchAbsolute(t, l)
    BY <2>1, <1>b DEF SwitchAbsolute
  <2>2. CASE \E l \in Launchers, h \in Hops : SwitchExtendBase(t, l, h)
    BY <2>2, <1>b DEF SwitchExtendBase
  <2>3. CASE \E h \in Hops : SwitchExtend(t, h)
    BY <2>3, <1>b DEF SwitchExtend
  <2>4. CASE Provisioned(t)
    <3>1. Frame(t) /\ CallProgress(t)'
      BY <2>4 DEF Provisioned, Frame, CallProgress, TInv, TypeOK
    <3>. QED  BY <2>4, <1>q, <3>1 DEF Provisioned, IInv, MetadataNeverMissing
  <2>5. CASE SwitchFails(t)
    <3>1. Frame(t) /\ CallProgress(t)'
      BY <2>5 DEF SwitchFails, Frame, CallProgress, TInv, TypeOK
    <3>. QED  BY <2>5, <1>q, <3>1 DEF SwitchFails, IInv, MetadataNeverMissing
  <2>6. CASE \E c \in Cwds : CwdResolved(t, c)
    <3>1. Frame(t) /\ CallProgress(t)'
      BY <2>6 DEF CwdResolved, Frame, CallProgress, TInv, TypeOK
    <3>. QED  BY <2>6, <1>q, <3>1 DEF CwdResolved, IInv, MetadataNeverMissing
  <2>7. CASE SetMetadata(t)
    <3>1. Frame(t) /\ CallProgress(t)'
      BY <2>7 DEF SetMetadata, Frame, CallProgress, TInv, TypeOK
    <3>2. \A x \in Threads : CallProgress(x)'
      BY <3>1, FrameProgress
    <3>3. CursorBacked' /\ LauncherFollowsCursor' /\ MetadataNeverMissing'
      BY <2>7 DEF SetMetadata, IInv, CursorBacked, Contains, LauncherFollowsCursor,
                  MetadataNeverMissing, TInv, TypeOK
    <3>. QED  BY <3>2, <3>3 DEF IInv
  <2>8. CASE SetThreadMetadata(t)
    <3>0. sw[t].id \in Launchers /\ sw[t].cwd \in Cwds
      BY <2>8 DEF SetThreadMetadata, TInv, CallTypes
    <3>1. thread_env_metadata' = [thread_env_metadata EXCEPT ![t][sw[t].id] = sw[t].cwd]
      BY <2>8, <3>0, WritesBelowCap DEF SetThreadMetadata
    <3>2. Frame(t)
      BY <2>8, <3>0, <3>1 DEF SetThreadMetadata, Frame, TInv, TypeOK, ManagerTypeOK
    <3>3. CallProgress(t)'
      BY <2>8, <3>0, <3>1 DEF SetThreadMetadata, CallProgress, TInv, TypeOK, ManagerTypeOK
    <3>4. \A x \in Threads : CallProgress(x)'
      BY <3>2, <3>3, FrameProgress
    <3>5. CursorBacked'
      BY <2>8, <3>2 DEF SetThreadMetadata, Frame, IInv, CursorBacked, Contains
    <3>6. LauncherFollowsCursor' /\ MetadataNeverMissing'
      BY <2>8 DEF SetThreadMetadata, IInv, LauncherFollowsCursor, MetadataNeverMissing,
                  TInv, TypeOK
    <3>. QED  BY <3>4, <3>5, <3>6 DEF IInv
  <2>9. CASE Upsert(t)
    <3>1. Frame(t)
      BY <2>9 DEF Upsert, upsert_stdio_environment, Frame, TInv, TypeOK
    <3>2. CallProgress(t)'
      BY <2>9 DEF Upsert, upsert_stdio_environment, CallProgress, IInv, TInv, TypeOK
    <3>3. \A x \in Threads : CallProgress(x)'
      BY <3>1, <3>2, FrameProgress
    <3>4. CursorBacked' /\ LauncherFollowsCursor' /\ MetadataNeverMissing'
      BY <2>9 DEF Upsert, upsert_stdio_environment, IInv, CursorBacked, Contains,
                  LauncherFollowsCursor, MetadataNeverMissing, TInv, TypeOK
    <3>. QED  BY <3>3, <3>4 DEF IInv
  <2>10. CASE SetLauncher(t)
    <3>0. sw[t].id \in Launchers
      BY <2>10 DEF SetLauncher, TInv, CallTypes
    <3>1. last_launcher' = [last_launcher EXCEPT ![t] = sw[t].id]
      BY <2>10, <3>0, WritesBelowCap DEF SetLauncher
    <3>2. Frame(t)
      BY <2>10, <3>1 DEF SetLauncher, Frame, TInv, TypeOK, ManagerTypeOK
    <3>3. CallProgress(t)'
      BY <2>10, <3>0, <3>1 DEF SetLauncher, CallProgress, IInv, TInv, TypeOK, ManagerTypeOK
    <3>4. \A x \in Threads : CallProgress(x)'
      BY <3>2, <3>3, FrameProgress
    <3>5. CursorBacked' /\ MetadataNeverMissing'
      BY <2>10 DEF SetLauncher, IInv, CursorBacked, Contains, MetadataNeverMissing
    <3>6. LauncherFollowsCursor'
      BY <2>10, <3>2 DEF SetLauncher, Frame, IInv, LauncherFollowsCursor, TInv, TypeOK
    <3>. QED  BY <3>4, <3>5, <3>6 DEF IInv
  <2>11. CASE SwitchLocal(t)
    <3>1. Frame(t) /\ CallProgress(t)'
      BY <2>11 DEF SwitchLocal, Frame, CallProgress, TInv, TypeOK
    <3>. QED  BY <2>11, <1>q, <3>1 DEF SwitchLocal, IInv, MetadataNeverMissing
  <2>12. CASE ClearLauncher(t)
    <3>0. sw[t].id = Local
      BY <2>12 DEF ClearLauncher, TInv, CallTypes
    <3>1. Frame(t)
      BY <2>12 DEF ClearLauncher, clear_last_launcher, Frame, TInv, TypeOK, ManagerTypeOK
    <3>2. CallProgress(t)'
      BY <2>12, <3>0 DEF ClearLauncher, clear_last_launcher, CallProgress, TInv, TypeOK,
                         ManagerTypeOK
    <3>3. \A x \in Threads : CallProgress(x)'
      BY <3>1, <3>2, FrameProgress
    <3>4. CursorBacked' /\ MetadataNeverMissing'
      BY <2>12 DEF ClearLauncher, IInv, CursorBacked, Contains, MetadataNeverMissing
    <3>5. LauncherFollowsCursor'
      BY <2>12, <3>1 DEF ClearLauncher, Frame, IInv, LauncherFollowsCursor, TInv, TypeOK
    <3>. QED  BY <3>3, <3>4, <3>5 DEF IInv
  <2>13. CASE SetLast(t)
    <3>0. sw[t].id \in Ids
      BY <2>13 DEF SetLast, TInv, CallTypes
    <3>1. last_environment_id' = [last_environment_id EXCEPT ![t] = sw[t].id]
      BY <2>13, <3>0, WritesBelowCap DEF SetLast
    <3>2. Frame(t)
      BY <2>13, <3>1 DEF SetLast, Frame, TInv, TypeOK, ManagerTypeOK
    <3>3. CallProgress(t)'
      BY <2>13, <3>1 DEF SetLast, CallProgress, TInv, TypeOK, ManagerTypeOK
    <3>4. \A x \in Threads : CallProgress(x)'
      BY <3>2, <3>3, FrameProgress
    <3>5. pc[t] = "setLast" /\ CallProgress(t)
      BY <2>13 DEF SetLast, IInv
    <3>6. CursorBacked' /\ MetadataNeverMissing'
      BY <2>13, <3>1, <3>5 DEF SetLast, IInv, CursorBacked, Contains, MetadataNeverMissing,
            CallProgress, TInv, TypeOK, ManagerTypeOK
    <3>7. LauncherFollowsCursor'
      BY <2>13, <3>1, <3>2, <3>5 DEF SetLast, Frame, IInv, LauncherFollowsCursor,
            CallProgress, TInv, TypeOK, ManagerTypeOK
    <3>. QED  BY <3>4, <3>6, <3>7 DEF IInv
  <2>14. CASE Record(t)
    <3>0. sw[t].id \in Ids
      BY <2>14 DEF Record, TInv, CallTypes
    <3>1. thread_environment_ids' =
              [thread_environment_ids EXCEPT ![t] = Recorded(@, sw[t].id)]
      BY <2>14, <3>0, WritesBelowCap DEF Record
    <3>2. Frame(t) /\ CallProgress(t)'
      BY <2>14 DEF Record, Frame, CallProgress, TInv, TypeOK
    <3>3. \A x \in Threads : CallProgress(x)'
      BY <3>2, FrameProgress
    <3>4. LauncherFollowsCursor' /\ MetadataNeverMissing'
      BY <2>14 DEF Record, IInv, LauncherFollowsCursor, MetadataNeverMissing, TInv, TypeOK
    <3>5. last_environment_id[t] = sw[t].id
      BY <2>14 DEF Record, IInv, CallProgress
    <3>6. CursorBacked'
      <4>. SUFFICES ASSUME NEW x \in Threads, NEW id \in Launchers,
                           \/ last_environment_id'[x] = id
                           \/ Contains(thread_environment_ids'[x], id)
                    PROVE  id \in environments' /\ thread_env_metadata'[x][id] # None
        BY DEF CursorBacked, Contains
      <4>1. thread_environment_ids[x] \in Seq(Ids)
        BY DEF TInv, TypeOK, ManagerTypeOK
      <4>2. last_environment_id[x] = id \/ Contains(thread_environment_ids[x], id)
        <5>1. CASE x = t
          BY <2>14, <3>0, <3>1, <3>5, <4>1, <5>1, RecordedContains
             DEF Record, TInv, TypeOK, ManagerTypeOK
        <5>2. CASE x # t
          BY <2>14, <3>1, <5>2 DEF Record, TInv, TypeOK, ManagerTypeOK
        <5>. QED  BY <5>1, <5>2
      <4>. QED  BY <2>14, <4>2 DEF Record, IInv, CursorBacked
    <3>. QED  BY <3>3, <3>4, <3>6 DEF IInv
  <2>. QED
    BY <1>sw, <2>1, <2>2, <2>3, <2>4, <2>5, <2>6, <2>7, <2>8, <2>9, <2>10, <2>11,
       <2>12, <2>13, <2>14 DEF SwitchStep
\* A visible or selected id has metadata under one of the thread's keys.
<1>m. ASSUME NEW t \in Threads, NEW id \in Launchers,
             \/ last_env_switch_environment_id(t) = id
             \/ dynamic_environment_visible_to_thread(t, id)
      PROVE  id \in environments /\ ThreadMetadata(t, id) # None
  <2>1. Parent[t] \in Threads \cup {None}
    OBVIOUS
  <2>2. \/ last_environment_id[t] = id \/ Contains(thread_environment_ids[t], id)
        \/ /\ Parent[t] \in Threads
           /\ \/ last_environment_id[Parent[t]] = id
              \/ Contains(thread_environment_ids[Parent[t]], id)
    BY <1>m, <2>1 DEF last_env_switch_environment_id, dynamic_environment_visible_to_thread
  <2>3. \A x \in Threads :
          (last_environment_id[x] = id \/ Contains(thread_environment_ids[x], id))
            => id \in environments /\ thread_env_metadata[x][id] # None
    BY DEF IInv, CursorBacked
  <2>. QED  BY <2>1, <2>2, <2>3 DEF ThreadMetadata, get_thread_environment_metadata_for_keys
<1>r. ASSUME NEW t \in Threads, ResolveStep(t) PROVE IInv'
  <2>. USE <1>t DEF Goto, managerVars
  <2>0. res \in [Threads -> Answers] /\ res[t].from # "missing"
    BY DEF IInv, MetadataNeverMissing, TInv, TypeOK
  <2>1. CASE ResolveImplicit(t)
    <3>1. Frame(t) /\ CallProgress(t)'
      BY <2>1 DEF ResolveImplicit, Frame, CallProgress, TInv, TypeOK
    <3>2. res'[t].from # "missing"
      BY <2>0, <2>1 DEF ResolveImplicit, Answers
    <3>. QED  BY <2>1, <1>q, <3>1, <3>2 DEF ResolveImplicit
  <2>2. CASE ResolveSecondRead(t)
    <3>1. Frame(t) /\ pc[t] = "secondRead" /\ sw[t].id \in Ids
      BY <2>2 DEF ResolveSecondRead, Dispatch, Answer, Frame, TInv, TypeOK, CallTypes
    <3>2. \/ pc'[t] = "resolved"
          \/ /\ pc'[t] = "metadata" /\ sw[t].id \in Launchers
             /\ \/ last_env_switch_environment_id(t) = sw[t].id
                \/ dynamic_environment_visible_to_thread(t, sw[t].id)
      BY <2>2, <3>1 DEF ResolveSecondRead, Dispatch, Answer, TInv, TypeOK, Ids
    <3>3. pc'[t] = "metadata" => sw[t].id \in environments /\ ThreadMetadata(t, sw[t].id) # None
      BY <3>2, <1>m
    <3>4. CallProgress(t)'
      BY <2>2, <3>2, <3>3, <1>v DEF ResolveSecondRead, CallProgress
    <3>5. res'[t].from # "missing"
      BY <2>0, <2>2 DEF ResolveSecondRead, Dispatch, Answer, Answers
    <3>. QED  BY <2>2, <1>q, <3>1, <3>4, <3>5 DEF ResolveSecondRead
  <2>3. CASE \E id \in Ids : ResolveExplicit(t, id)
    <3>0. PICK id \in Ids : ResolveExplicit(t, id)
      BY <2>3
    <3>1. Frame(t) /\ pc[t] = "idle" /\ sw'[t].id = id
      BY <3>0 DEF ResolveExplicit, Dispatch, Answer, Frame, TInv, TypeOK
    <3>2. \/ pc'[t] = "resolved"
          \/ /\ pc'[t] = "metadata" /\ id \in Launchers
             /\ dynamic_environment_visible_to_thread(t, id)
      BY <3>0 DEF ResolveExplicit, Dispatch, Answer, TInv, TypeOK, Ids
    <3>3. pc'[t] = "metadata" => id \in environments /\ ThreadMetadata(t, id) # None
      BY <3>2, <1>m
    <3>4. CallProgress(t)'
      BY <3>0, <3>1, <3>2, <3>3, <1>v DEF ResolveExplicit, CallProgress
    <3>5. res'[t].from # "missing"
      BY <2>0, <3>0 DEF ResolveExplicit, Dispatch, Answer, Answers
    <3>. QED  BY <3>0, <1>q, <3>1, <3>4, <3>5 DEF ResolveExplicit
  <2>4. CASE turn_environment_from_env_switch_metadata(t)
    <3>1. /\ Frame(t) /\ pc[t] = "metadata" /\ pc'[t] = "resolved"
      BY <2>4 DEF turn_environment_from_env_switch_metadata, Answer, Frame, TInv, TypeOK
    <3>2. CallProgress(t)'
      BY <3>1 DEF CallProgress
    <3>3. ThreadMetadata(t, sw[t].id) # None
      BY <3>1 DEF IInv, CallProgress
    <3>4. res'[t].from # "missing"
      BY <2>0, <2>4, <3>3 DEF turn_environment_from_env_switch_metadata, Answer, Answers
    <3>. QED
      BY <2>4, <1>q, <3>1, <3>2, <3>4 DEF turn_environment_from_env_switch_metadata
  <2>5. CASE ResolveReturn(t)
    <3>1. Frame(t) /\ pc[t] = "resolved" /\ pc'[t] = "idle"
      BY <2>5 DEF ResolveReturn, Frame, TInv, TypeOK
    <3>2. CallProgress(t)' /\ res'[t].from # "missing"
      BY <2>0, <2>5, <3>1 DEF ResolveReturn, NoRes, CallProgress
    <3>. QED  BY <2>5, <1>q, <3>1, <3>2 DEF ResolveReturn
  <2>. QED  BY <1>r, <2>1, <2>2, <2>3, <2>4, <2>5 DEF ResolveStep
<1>. QED  BY <1>u, <1>s, <1>p, <1>sw, <1>r DEF Next

LEMMA InvInit == Init => IInv
<1>. SUFFICES ASSUME Init PROVE IInv
  OBVIOUS
<1>1. TInv
  BY TypeInit
<1>2. CursorBacked /\ LauncherFollowsCursor /\ MetadataNeverMissing
  BY ManagerAssumption DEF Init, ManagerInit, CursorBacked, Contains,
     LauncherFollowsCursor, MetadataNeverMissing, NoRes, Ids
<1>3. \A t \in Threads : CallProgress(t)
  BY DEF Init, CallProgress
<1>. QED  BY <1>1, <1>2, <1>3 DEF IInv

(* Below the cap the inductive invariant holds throughout.                 *)
LEMMA Invariance ==
    ASSUME BelowCap
    PROVE  Spec => []IInv
<1>1. IInv /\ [Next]_vars => IInv'
  BY InvNext
<1>. QED  BY <1>1, InvInit, PTL DEF Spec

(* Below the cap, whatever a thread selected or recorded is registered and *)
(* has that thread's metadata.                                             *)
THEOREM CursorIsBacked ==
    ASSUME BelowCap
    PROVE  Spec => []CursorBacked
<1>1. IInv => CursorBacked
  BY DEF IInv
<1>. QED  BY <1>1, Invariance, PTL

(* Below the cap, relative mode builds on the environment the thread is in. *)
THEOREM LauncherIsCursor ==
    ASSUME BelowCap
    PROVE  Spec => []LauncherFollowsCursor
<1>1. IInv => LauncherFollowsCursor
  BY DEF IInv
<1>. QED  BY <1>1, Invariance, PTL

(* Below the cap, no resolution ends in "missing cwd metadata", however the *)
(* threads of the family interleave.                                        *)
THEOREM MetadataPresent ==
    ASSUME BelowCap
    PROVE  Spec => []MetadataNeverMissing
<1>1. IInv => MetadataNeverMissing
  BY DEF IInv
<1>. QED  BY <1>1, Invariance, PTL

-----------------------------------------------------------------------------
(* The mapped state of a thread changes only with what it is made of.      *)
LEMMA MappedFrame ==
    ASSUME NEW x \in Threads, pc'[x] = pc[x], sw'[x] = sw[x],
           last_environment_id'[x] = last_environment_id[x],
           thread_env_metadata'[x] = thread_env_metadata[x]
    PROVE  Pending(x)' = Pending(x) /\ Selected(x)' = Selected(x)
BY DEF Pending, Selected

(* Below the cap, each step of the protocol is a step of the cursor, or     *)
(* leaves it alone.                                                         *)
LEMMA StepRefines ==
    ASSUME BelowCap, IInv, [Next]_vars
    PROVE  [Cursor!Next]_(Cursor!vars)
<1>. USE ManagerAssumption, EnvSwitchAssumption
<1>t. TInv /\ TInv'
  BY TypeNext DEF IInv
<1>0. ASSUME \A x \in Threads : Pending(x)' = Pending(x) /\ Selected(x)' = Selected(x)
      PROVE  UNCHANGED Cursor!vars
  BY <1>0 DEF Cursor!vars
<1>1. ASSUME NEW t \in Threads, NEW id \in Ids,
             \A x \in Threads \ {t} : Pending(x)' = Pending(x) /\ Selected(x)' = Selected(x),
             Selected(t)' = Selected(t), Pending(t) = None, Pending(t)' = id
      PROVE  Cursor!Next
  <2>. DEFINE P == [x \in Threads |-> Pending(x)]
              S == [x \in Threads |-> Selected(x)]
  <2>1. P' = [P EXCEPT ![t] = id] /\ P[t] = None
    BY <1>1
  <2>2. S' = S
    BY <1>1
  <2>3. Cursor!Ask(t, id)
    BY <2>1, <2>2 DEF Cursor!Ask
  <2>. QED  BY <2>3 DEF Cursor!Next
<1>2. ASSUME NEW t \in Threads, NEW cwd \in Cwds \cup {None},
             \A x \in Threads \ {t} : Pending(x)' = Pending(x) /\ Selected(x)' = Selected(x),
             Pending(t) # None, Pending(t)' = None,
             Selected(t)' = [id |-> Pending(t), cwd |-> cwd]
      PROVE  Cursor!Next
  <2>. DEFINE P == [x \in Threads |-> Pending(x)]
              S == [x \in Threads |-> Selected(x)]
  <2>0. P[t] = Pending(t) /\ P[t] # None
    BY <1>2
  <2>1. P' = [P EXCEPT ![t] = None]
    <3>1. \A x \in Threads : Pending(x)' = IF x = t THEN None ELSE Pending(x)
      BY <1>2
    <3>. QED  BY <3>1
  <2>2. S' = [S EXCEPT ![t] = [id |-> P[t], cwd |-> cwd]]
    BY <1>2, <2>0
  <2>3. Cursor!Take(t, cwd)
    BY <2>0, <2>1, <2>2 DEF Cursor!Take
  <2>. QED  BY <2>3 DEF Cursor!Next
<1>3. ASSUME NEW t \in Threads,
             \A x \in Threads \ {t} : Pending(x)' = Pending(x) /\ Selected(x)' = Selected(x),
             Pending(t) # None, Pending(t)' = None, Selected(t)' = Selected(t)
      PROVE  Cursor!Next
  BY <1>3 DEF Cursor!Next, Cursor!Fail
<1>u. CASE UNCHANGED vars
  BY <1>u, <1>0, MappedFrame DEF vars, managerVars
<1>s. ASSUME NEW t \in Threads, StartRoot(t) PROVE UNCHANGED Cursor!vars
  <2>1. \A x \in Threads \ {t} : Pending(x)' = Pending(x) /\ Selected(x)' = Selected(x)
    BY <1>s, <1>t, MappedFrame DEF StartRoot, Goto, managerVars, TInv, TypeOK
  <2>2. Pending(t)' = Pending(t) /\ Selected(t)' = Selected(t)
    BY <1>s, <1>t DEF StartRoot, Goto, managerVars, TInv, TypeOK, Pending, Selected
  <2>. QED  BY <1>0, <2>1, <2>2
<1>p. ASSUME NEW t \in Threads, NEW child \in Threads, Spawn(t, child)
      PROVE  UNCHANGED Cursor!vars
  <2>1. \A x \in Threads \ {child} : Pending(x)' = Pending(x) /\ Selected(x)' = Selected(x)
    BY <1>p, <1>t, MappedFrame DEF Spawn, Goto, managerVars, TInv, TypeOK
  <2>2. Pending(child)' = Pending(child) /\ Selected(child)' = Selected(child)
    BY <1>p, <1>t DEF Spawn, Goto, managerVars, TInv, TypeOK, Pending, Selected
  <2>. QED  BY <1>0, <2>1, <2>2
<1>b. ASSUME NEW t \in Threads, NEW l \in Launchers, pc[t] = "idle", BeginRemote(t, l)
      PROVE  Cursor!Next
  <2>1. \A x \in Threads \ {t} : Pending(x)' = Pending(x) /\ Selected(x)' = Selected(x)
    BY <1>b, <1>t, MappedFrame DEF BeginRemote, Goto, managerVars, TInv, TypeOK
  <2>2. Pending(t) = None /\ Pending(t)' = l /\ Selected(t)' = Selected(t)
    BY <1>b, <1>t DEF BeginRemote, Goto, managerVars, TInv, TypeOK, Pending, Selected
  <2>. QED  BY <1>1, <2>1, <2>2 DEF Ids
<1>sw. ASSUME NEW t \in Threads, SwitchStep(t) PROVE [Cursor!Next]_(Cursor!vars)
  <2>. USE <1>t DEF Goto, managerVars
  <2>1. CASE \E l \in Launchers : SwitchAbsolute(t, l)
    BY <2>1, <1>b DEF SwitchAbsolute
  <2>2. CASE \E l \in Launchers, h \in Hops : SwitchExtendBase(t, l, h)
    BY <2>2, <1>b DEF SwitchExtendBase
  <2>3. CASE \E h \in Hops : SwitchExtend(t, h)
    BY <2>3, <1>b DEF SwitchExtend
  <2>4. CASE Provisioned(t)
    <3>1. \A x \in Threads \ {t} : Pending(x)' = Pending(x) /\ Selected(x)' = Selected(x)
      BY <2>4, MappedFrame DEF Provisioned, TInv, TypeOK
    <3>2. Pending(t)' = Pending(t) /\ Selected(t)' = Selected(t)
      BY <2>4 DEF Provisioned, TInv, TypeOK, Pending, Selected
    <3>. QED  BY <1>0, <3>1, <3>2
  <2>5. CASE SwitchFails(t)
    <3>1. \A x \in Threads \ {t} : Pending(x)' = Pending(x) /\ Selected(x)' = Selected(x)
      BY <2>5, MappedFrame DEF SwitchFails, TInv, TypeOK
    <3>2. Pending(t) # None /\ Pending(t)' = None /\ Selected(t)' = Selected(t)
      BY <2>5 DEF SwitchFails, TInv, TypeOK, CallTypes, Pending, Selected, Ids
    <3>. QED  BY <1>3, <3>1, <3>2
  <2>6. CASE \E c \in Cwds : CwdResolved(t, c)
    <3>1. \A x \in Threads \ {t} : Pending(x)' = Pending(x) /\ Selected(x)' = Selected(x)
      BY <2>6, MappedFrame DEF CwdResolved, TInv, TypeOK
    <3>2. sw'[t].id = sw[t].id
      BY <2>6 DEF CwdResolved, TInv, TypeOK
    <3>3. Pending(t)' = Pending(t) /\ Selected(t)' = Selected(t)
      BY <2>6, <3>2 DEF CwdResolved, TInv, TypeOK, Pending, Selected
    <3>. QED  BY <1>0, <3>1, <3>3
  <2>7. CASE SetMetadata(t)
    <3>1. \A x \in Threads \ {t} : Pending(x)' = Pending(x) /\ Selected(x)' = Selected(x)
      BY <2>7, MappedFrame DEF SetMetadata, TInv, TypeOK
    <3>2. Pending(t)' = Pending(t) /\ Selected(t)' = Selected(t)
      BY <2>7 DEF SetMetadata, TInv, TypeOK, Pending, Selected
    <3>. QED  BY <1>0, <3>1, <3>2
  <2>8. CASE SetThreadMetadata(t)
    <3>0. sw[t].id \in Launchers /\ sw[t].cwd \in Cwds
      BY <2>8 DEF SetThreadMetadata, TInv, CallTypes
    <3>1. thread_env_metadata' = [thread_env_metadata EXCEPT ![t][sw[t].id] = sw[t].cwd]
      BY <2>8, <3>0, WritesBelowCap DEF SetThreadMetadata
    <3>2. \A x \in Threads \ {t} : Pending(x)' = Pending(x) /\ Selected(x)' = Selected(x)
      BY <2>8, <3>1, MappedFrame DEF SetThreadMetadata, TInv, TypeOK, ManagerTypeOK
    <3>3. CASE last_environment_id[t] = sw[t].id
      <4>1. Pending(t) = sw[t].id /\ Pending(t) # None /\ Pending(t)' = None
        BY <2>8, <3>0, <3>3 DEF SetThreadMetadata, Pending, TInv, TypeOK, Ids
      <4>2. Selected(t)' = [id |-> sw[t].id, cwd |-> sw[t].cwd]
        BY <2>8, <3>0, <3>1, <3>3 DEF SetThreadMetadata, Selected, TInv, TypeOK,
              ManagerTypeOK
      <4>. QED  BY <1>2, <3>0, <3>2, <4>1, <4>2
    <3>4. CASE last_environment_id[t] # sw[t].id
      <4>1. Pending(t)' = Pending(t)
        BY <2>8, <3>4 DEF SetThreadMetadata, Pending, TInv, TypeOK
      <4>2. Selected(t)' = Selected(t)
        BY <2>8, <3>0, <3>1, <3>4 DEF SetThreadMetadata, Selected, TInv, TypeOK,
              ManagerTypeOK
      <4>. QED  BY <1>0, <3>2, <4>1, <4>2
    <3>. QED  BY <3>3, <3>4
  <2>9. CASE Upsert(t)
    <3>1. \A x \in Threads \ {t} : Pending(x)' = Pending(x) /\ Selected(x)' = Selected(x)
      BY <2>9, MappedFrame DEF Upsert, TInv, TypeOK
    <3>2. Pending(t)' = Pending(t) /\ Selected(t)' = Selected(t)
      BY <2>9 DEF Upsert, TInv, TypeOK, Pending, Selected
    <3>. QED  BY <1>0, <3>1, <3>2
  <2>10. CASE SetLauncher(t)
    <3>1. \A x \in Threads \ {t} : Pending(x)' = Pending(x) /\ Selected(x)' = Selected(x)
      BY <2>10, MappedFrame DEF SetLauncher, TInv, TypeOK
    <3>2. Pending(t)' = Pending(t) /\ Selected(t)' = Selected(t)
      BY <2>10 DEF SetLauncher, TInv, TypeOK, Pending, Selected
    <3>. QED  BY <1>0, <3>1, <3>2
  <2>11. CASE SwitchLocal(t)
    <3>1. \A x \in Threads \ {t} : Pending(x)' = Pending(x) /\ Selected(x)' = Selected(x)
      BY <2>11, MappedFrame DEF SwitchLocal, TInv, TypeOK
    <3>2. /\ Pending(t) = None /\ Selected(t)' = Selected(t)
          /\ Pending(t)' \in {None, Local}
      BY <2>11 DEF SwitchLocal, TInv, TypeOK, Pending, Selected
    <3>. QED  BY <1>0, <1>1, <3>1, <3>2 DEF Ids
  <2>12. CASE ClearLauncher(t)
    <3>1. \A x \in Threads \ {t} : Pending(x)' = Pending(x) /\ Selected(x)' = Selected(x)
      BY <2>12, MappedFrame DEF ClearLauncher, TInv, TypeOK
    <3>2. Pending(t)' = Pending(t) /\ Selected(t)' = Selected(t)
      BY <2>12 DEF ClearLauncher, TInv, TypeOK, Pending, Selected
    <3>. QED  BY <1>0, <3>1, <3>2
  <2>13. CASE SetLast(t)
    <3>0. sw[t].id \in Ids
      BY <2>13 DEF SetLast, TInv, CallTypes
    <3>1. last_environment_id' = [last_environment_id EXCEPT ![t] = sw[t].id]
      BY <2>13, <3>0, WritesBelowCap DEF SetLast
    <3>2. \A x \in Threads \ {t} : Pending(x)' = Pending(x) /\ Selected(x)' = Selected(x)
      BY <2>13, <3>1, MappedFrame DEF SetLast, TInv, TypeOK, ManagerTypeOK
    <3>3. CASE last_environment_id[t] = sw[t].id
      <4>1. Pending(t)' = Pending(t) /\ Selected(t)' = Selected(t)
        BY <2>13, <3>1, <3>3 DEF SetLast, Pending, Selected, TInv, TypeOK, ManagerTypeOK
      <4>. QED  BY <1>0, <3>2, <4>1
    <3>4. CASE last_environment_id[t] # sw[t].id
      <4>1. Pending(t) = sw[t].id /\ Pending(t) # None /\ Pending(t)' = None
        BY <2>13, <3>0, <3>4 DEF SetLast, Pending, TInv, TypeOK
      <4>2. PICK cwd \in Cwds \cup {None} : Selected(t)' = [id |-> sw[t].id, cwd |-> cwd]
        BY <2>13, <3>0, <3>1 DEF SetLast, Selected, TInv, TypeOK, ManagerTypeOK
      <4>. QED  BY <1>2, <3>2, <4>1, <4>2
    <3>. QED  BY <3>3, <3>4
  <2>14. CASE Record(t)
    <3>1. \A x \in Threads \ {t} : Pending(x)' = Pending(x) /\ Selected(x)' = Selected(x)
      BY <2>14, MappedFrame DEF Record, TInv, TypeOK
    <3>2. Pending(t)' = Pending(t) /\ Selected(t)' = Selected(t)
      BY <2>14 DEF Record, TInv, TypeOK, Pending, Selected
    <3>. QED  BY <1>0, <3>1, <3>2
  <2>. QED
    BY <1>sw, <2>1, <2>2, <2>3, <2>4, <2>5, <2>6, <2>7, <2>8, <2>9, <2>10, <2>11,
       <2>12, <2>13, <2>14 DEF SwitchStep
<1>r. ASSUME NEW t \in Threads, ResolveStep(t) PROVE UNCHANGED Cursor!vars
  <2>. USE DEF Dispatch, Answer, ResolveStep, ResolveImplicit, ResolveSecondRead,
           ResolveExplicit, turn_environment_from_env_switch_metadata, ResolveReturn
  <2>1. /\ UNCHANGED managerVars
        /\ pc[t] \in {"idle", "secondRead", "metadata", "resolved"}
        /\ pc'[t] \in {"idle", "secondRead", "metadata", "resolved"}
        /\ \A x \in Threads \ {t} : pc'[x] = pc[x] /\ sw'[x] = sw[x]
    BY <1>r, <1>t DEF Goto, TInv, TypeOK
  <2>2. \A x \in Threads \ {t} : Pending(x)' = Pending(x) /\ Selected(x)' = Selected(x)
    BY <2>1, MappedFrame DEF managerVars
  <2>3. Pending(t)' = Pending(t) /\ Selected(t)' = Selected(t)
    BY <2>1 DEF managerVars, Pending, Selected
  <2>. QED  BY <1>0, <2>2, <2>3
<1>. QED  BY <1>u, <1>s, <1>p, <1>sw, <1>r DEF Next

(* Below the cap, the env_switch protocol implements EnvCursor: a switch    *)
(* fails without a trace or moves the thread's own cursor in one step.      *)
THEOREM CursorRefinement ==
    ASSUME BelowCap
    PROVE  Spec => CursorSpec
<1>1. Init => Cursor!Init
  BY ManagerAssumption DEF Init, ManagerInit, Cursor!Init, Cursor!Unselected, Pending,
     Selected, Ids
<1>2. IInv /\ [Next]_vars => [Cursor!Next]_(Cursor!vars)
  BY StepRefines
<1>. QED  BY <1>1, <1>2, Invariance, PTL DEF Spec, CursorSpec, Cursor!Spec

-----------------------------------------------------------------------------
(* At the cap, where a write may evict another thread's entry.             *)

(* The steps that write a map of the manager, and where the others go.     *)
Writes(t) ==
    \/ SetMetadata(t) \/ SetThreadMetadata(t) \/ Upsert(t) \/ SetLauncher(t)
    \/ ClearLauncher(t) \/ SetLast(t) \/ Record(t)

OtherPCs == {"idle", "provision", "cwd", "setMetadata", "clearLauncher"} \cup ResolvePCs

Quiet ==
    /\ UNCHANGED managerVars
    /\ \A x \in Threads : \/ pc'[x] = pc[x] /\ sw'[x] = sw[x]
                          \/ pc'[x] \in OtherPCs

(* Every step writes a map or leaves the manager as it is.                 *)
LEMMA WritesOrQuiet ==
    ASSUME TInv, [Next]_vars
    PROVE  Quiet \/ \E t \in Threads : Writes(t)
<1>. USE DEF TInv, TypeOK, Goto, Quiet, OtherPCs, ResolvePCs
<1>u. CASE UNCHANGED vars
  BY <1>u DEF vars
<1>s. ASSUME NEW t \in Threads, StartRoot(t) PROVE Quiet
  BY <1>s DEF StartRoot
<1>p. ASSUME NEW t \in Threads, NEW child \in Threads, Spawn(t, child) PROVE Quiet
  BY <1>p DEF Spawn
<1>b. ASSUME NEW t \in Threads, NEW l, BeginRemote(t, l) PROVE Quiet
  BY <1>b DEF BeginRemote
<1>sw. ASSUME NEW t \in Threads, SwitchStep(t) PROVE Quiet \/ Writes(t)
  <2>1. CASE Provisioned(t)
    BY <2>1 DEF Provisioned
  <2>2. CASE SwitchFails(t)
    BY <2>2 DEF SwitchFails
  <2>3. ASSUME NEW c \in Cwds, CwdResolved(t, c) PROVE Quiet
    BY <2>3 DEF CwdResolved
  <2>4. CASE SwitchLocal(t)
    BY <2>4 DEF SwitchLocal
  <2>5. ASSUME \/ \E l \in Launchers : SwitchAbsolute(t, l)
               \/ \E l \in Launchers, h \in Hops : SwitchExtendBase(t, l, h)
               \/ \E h \in Hops : SwitchExtend(t, h)
        PROVE  Quiet
    <3>1. \E l : BeginRemote(t, l)
      BY <2>5 DEF SwitchAbsolute, SwitchExtendBase, SwitchExtend
    <3>. QED  BY <3>1, <1>b
  <2>. HIDE DEF Quiet
  <2>. QED  BY <1>sw, <2>1, <2>2, <2>3, <2>4, <2>5 DEF SwitchStep, Writes
<1>r. ASSUME NEW t \in Threads, ResolveStep(t) PROVE Quiet
  <2>0. ASSUME NEW id, NEW implicit, Dispatch(t, id, implicit)
        PROVE  Goto(t, "resolved") \/ Goto(t, "metadata")
    BY <2>0 DEF Dispatch, Answer
  <2>1. CASE ResolveImplicit(t)
    BY <2>1 DEF ResolveImplicit
  <2>2. CASE ResolveSecondRead(t)
    BY <2>0, <2>2 DEF ResolveSecondRead
  <2>3. ASSUME NEW id \in Ids, ResolveExplicit(t, id) PROVE Quiet
    BY <2>0, <2>3 DEF ResolveExplicit
  <2>4. CASE turn_environment_from_env_switch_metadata(t)
    BY <2>4 DEF turn_environment_from_env_switch_metadata, Answer
  <2>5. CASE ResolveReturn(t)
    BY <2>5 DEF ResolveReturn
  <2>. QED  BY <1>r, <2>1, <2>2, <2>3, <2>4, <2>5 DEF ResolveStep
<1>. HIDE DEF Quiet
<1>. QED  BY <1>u, <1>s, <1>p, <1>sw, <1>r DEF Next

(* Making room leaves every entry as it is or absent, and the entry that   *)
(* is about to be written as it is.                                        *)
LEMMA MakeRoomKeeps ==
    ASSUME NEW K, NEW V, NEW map \in [K -> V], NEW key \in K, NEW absent \in V,
           NEW m \in MakeRoom(map, key, absent)
    PROVE  /\ m \in [K -> V]
           /\ \A k \in K : m[k] \in {map[k], absent}
           /\ m[key] = map[key]
BY DEF MakeRoom, Keys

(* A registration is never evicted: between Upsert and SetLauncher the     *)
(* environment stays registered, and a launcher is its own or none.        *)
RegInv ==
    /\ TInv
    /\ BaseRegistered
    /\ \A t \in Threads : pc[t] = "setLauncher" => sw[t].id \in environments

LEMMA RegNext ==
    ASSUME RegInv, [Next]_vars
    PROVE  RegInv'
<1>t. TInv /\ TInv'
  BY TypeNext DEF RegInv
<1>1. CASE Quiet
  BY <1>t, <1>1 DEF Quiet, OtherPCs, ResolvePCs, managerVars, RegInv, BaseRegistered
<1>2. ASSUME NEW t \in Threads, Writes(t) PROVE RegInv'
  <2>. USE <1>t DEF RegInv, TInv, TypeOK, ManagerTypeOK, BaseRegistered, Goto
  <2>1. CASE SetMetadata(t)
    BY <2>1 DEF SetMetadata
  <2>2. CASE SetThreadMetadata(t)
    BY <2>2 DEF SetThreadMetadata
  <2>3. CASE Upsert(t)
    BY <2>3 DEF Upsert, upsert_stdio_environment
  <2>4. CASE SetLauncher(t)
    <3>1. PICK m \in MakeRoom(last_launcher, t, None) :
              last_launcher' = [m EXCEPT ![t] = sw[t].id]
      BY <2>4 DEF SetLauncher, set_last_launcher
    <3>2. /\ m \in [Threads -> Launchers \cup {None}]
          /\ \A x \in Threads : m[x] \in {last_launcher[x], None}
      <4>. HIDE <1>t DEF RegInv, TInv, TypeOK, ManagerTypeOK, BaseRegistered, Goto
      <4>1. last_launcher \in [Threads -> Launchers \cup {None}]
        BY <1>t DEF TInv, TypeOK, ManagerTypeOK
      <4>2. None \in Launchers \cup {None}
        OBVIOUS
      <4>. QED  BY <4>1, <4>2, MakeRoomKeeps
    <3>. QED  BY <2>4, <3>1, <3>2 DEF SetLauncher
  <2>5. CASE ClearLauncher(t)
    BY <2>5 DEF ClearLauncher, clear_last_launcher
  <2>6. CASE SetLast(t)
    BY <2>6 DEF SetLast
  <2>7. CASE Record(t)
    BY <2>7 DEF Record
  <2>. QED  BY <1>2, <2>1, <2>2, <2>3, <2>4, <2>5, <2>6, <2>7 DEF Writes
<1>. QED  BY <1>t, <1>1, <1>2, WritesOrQuiet

(* At any cap: whichever entries the maps have lost, a relative switch     *)
(* builds on a registered environment.                                     *)
THEOREM BaseIsRegistered == Spec => []BaseRegistered
<1>1. Init => RegInv
  BY TypeInit DEF Init, ManagerInit, RegInv, BaseRegistered
<1>2. RegInv /\ [Next]_vars => RegInv'
  BY RegNext
<1>3. RegInv => BaseRegistered
  BY DEF RegInv
<1>. QED  BY <1>1, <1>2, <1>3, PTL DEF Spec

-----------------------------------------------------------------------------
(* A map within its cap, and the inductive form of MapsWithinCap: finiteness *)
(* is what lets the sizes be counted.                                      *)
Fits(map, absent) ==
    /\ IsFiniteSet(Keys(map, absent))
    /\ Cardinality(Keys(map, absent)) <= MaxEntries

CapInv ==
    /\ Fits(env_metadata, None)
    /\ Fits(thread_env_metadata, NoEntries)
    /\ Fits(last_launcher, None)
    /\ Fits(last_environment_id, None)
    /\ Fits(thread_environment_ids, <<>>)
    /\ \A t \in Threads : /\ Fits(thread_env_metadata[t], None)
                          /\ Len(thread_environment_ids[t]) <= MaxEntries

(* Fewer keys fit as well.                                                 *)
LEMMA FewerFit ==
    ASSUME NEW map, NEW other, NEW absent, Fits(map, absent),
           Keys(other, absent) \subseteq Keys(map, absent)
    PROVE  Fits(other, absent)
<1>1. /\ IsFiniteSet(Keys(other, absent))
      /\ Cardinality(Keys(other, absent)) <= Cardinality(Keys(map, absent))
  BY FS_Subset DEF Fits
<1>2. Cardinality(Keys(map, absent)) \in Nat /\ Cardinality(Keys(other, absent)) \in Nat
  BY <1>1, FS_CardinalityType DEF Fits
<1>. QED  BY <1>1, <1>2, ManagerAssumption DEF Fits

(* A map that made room for a key and got it stays within its cap.         *)
LEMMA InsertFits ==
    ASSUME NEW K, NEW V, NEW map \in [K -> V], NEW key \in K, NEW absent \in V,
           Fits(map, absent), NEW m \in MakeRoom(map, key, absent), NEW v \in V
    PROVE  Fits([m EXCEPT ![key] = v], absent)
<1>. DEFINE new == [m EXCEPT ![key] = v]
            keys == Keys(map, absent)
<1>0. m \in [K -> V] /\ new \in [K -> V]
  BY MakeRoomKeeps
<1>c. IsFiniteSet(keys) /\ Cardinality(keys) \in Nat /\ Cardinality(keys) <= MaxEntries
  BY FS_CardinalityType DEF Fits
<1>1. CASE map[key] # absent
  <2>1. m = map
    BY <1>1 DEF MakeRoom
  <2>2. Keys(new, absent) \subseteq keys
    BY <1>0, <1>1, <2>1 DEF Keys
  <2>. QED  BY <2>2, FewerFit
<1>2. CASE map[key] = absent
  <2>1. PICK rest : /\ IsFiniteSet(rest) /\ Cardinality(rest) \in Nat
                    /\ Cardinality(rest) < MaxEntries
                    /\ Keys(m, absent) \subseteq rest
    <3>1. CASE Cardinality(keys) >= MaxEntries
      <4>1. PICK k \in keys : m = [map EXCEPT ![k] = absent]
        BY <1>2, <3>1 DEF MakeRoom
      <4>2. IsFiniteSet(keys \ {k}) /\ Cardinality(keys \ {k}) = Cardinality(keys) - 1
        BY <1>c, FS_RemoveElement
      <4>3. Keys(m, absent) \subseteq keys \ {k}
        BY <4>1 DEF Keys
      <4>4. Cardinality(keys \ {k}) \in Nat
        BY <4>2, FS_CardinalityType
      <4>5. Cardinality(keys \ {k}) < MaxEntries
        BY <1>c, <4>2, <4>4, ManagerAssumption
      <4>. QED  BY <4>2, <4>3, <4>4, <4>5
    <3>2. CASE ~(Cardinality(keys) >= MaxEntries)
      <4>1. m = map
        BY <3>2 DEF MakeRoom
      <4>. QED  BY <1>c, <3>2, <4>1, ManagerAssumption
    <3>. QED  BY <3>1, <3>2
  <2>2. Keys(new, absent) \in SUBSET (rest \cup {key})
    BY <1>0, <2>1 DEF Keys
  <2>3. /\ IsFiniteSet(rest \cup {key})
        /\ Cardinality(rest \cup {key}) <= Cardinality(rest) + 1
    <3>1. /\ IsFiniteSet(rest \cup {key})
          /\ Cardinality(rest \cup {key}) =
                IF key \in rest THEN Cardinality(rest) ELSE Cardinality(rest) + 1
      BY <2>1, FS_AddElement
    <3>. QED  BY <2>1, <3>1
  <2>4. /\ IsFiniteSet(Keys(new, absent))
        /\ Cardinality(Keys(new, absent)) <= Cardinality(rest \cup {key})
    BY <2>2, <2>3, FS_Subset
  <2>5. Cardinality(Keys(new, absent)) \in Nat /\ Cardinality(rest \cup {key}) \in Nat
    BY <2>3, <2>4, FS_CardinalityType
  <2>. QED  BY <2>1, <2>3, <2>4, <2>5, ManagerAssumption DEF Fits
<1>. QED  BY <1>1, <1>2

(* An empty map fits.                                                      *)
LEMMA EmptyFits ==
    ASSUME NEW map, NEW absent, \A k \in DOMAIN map : map[k] = absent
    PROVE  Fits(map, absent)
<1>1. Keys(map, absent) = {}
  BY DEF Keys
<1>. QED  BY <1>1, FS_EmptySet, ManagerAssumption DEF Fits

(* A thread's list drops its oldest id rather than outgrow the cap.        *)
LEMMA RecordedFits ==
    ASSUME NEW ids \in Seq(Ids), NEW id \in Ids, Len(ids) <= MaxEntries
    PROVE  Len(Recorded(ids, id)) <= MaxEntries
<1>1. CASE Len(ids) >= MaxEntries /\ ~Contains(ids, id)
  <2>1. Tail(ids) \in Seq(Ids) /\ Len(Tail(ids)) = Len(ids) - 1
    BY <1>1, ManagerAssumption
  <2>. QED  BY <1>1, <2>1, ManagerAssumption DEF Recorded
<1>2. CASE Contains(ids, id)
  BY <1>2 DEF Recorded
<1>3. CASE ~(Len(ids) >= MaxEntries) /\ ~Contains(ids, id)
  BY <1>3, ManagerAssumption DEF Recorded
<1>. QED  BY <1>1, <1>2, <1>3

LEMMA CapNext ==
    ASSUME TInv, CapInv, [Next]_vars
    PROVE  CapInv'
<1>. USE ManagerAssumption
<1>t. TInv /\ TInv'
  BY TypeNext
<1>q. ASSUME UNCHANGED managerVars PROVE CapInv'
  BY <1>q DEF managerVars, CapInv, Fits, Keys, NoEntries
<1>2. ASSUME NEW t \in Threads, Writes(t) PROVE CapInv'
  <2>1. CASE SetMetadata(t)
    <3>0. /\ env_metadata \in [Launchers -> Cwds \cup {None}]
          /\ sw[t].id \in Launchers /\ sw[t].cwd \in Cwds \cup {None}
      BY <2>1, <1>t DEF SetMetadata, TInv, TypeOK, ManagerTypeOK, CallTypes
    <3>1. PICK m \in MakeRoom(env_metadata, sw[t].id, None) :
              env_metadata' = [m EXCEPT ![sw[t].id] = sw[t].cwd]
      BY <2>1 DEF SetMetadata, set_environment_metadata
    <3>2. Fits([m EXCEPT ![sw[t].id] = sw[t].cwd], None)
      BY <3>0, InsertFits DEF CapInv
    <3>3. Fits(env_metadata, None)'
      BY <3>1, <3>2 DEF Fits, Keys
    <3>. QED  BY <2>1, <3>3 DEF SetMetadata, CapInv, Fits, Keys, NoEntries
  <2>2. CASE SetThreadMetadata(t)
    <3>. DEFINE Maps == [Launchers -> Cwds \cup {None}]
                id == sw[t].id
    <3>0. /\ thread_env_metadata \in [Threads -> Maps] /\ NoEntries \in Maps
          /\ id \in Launchers /\ sw[t].cwd \in Cwds \cup {None}
      BY <2>2, <1>t DEF SetThreadMetadata, TInv, TypeOK, ManagerTypeOK, CallTypes, NoEntries
    <3>i. ASSUME NEW map \in Maps, NEW e \in MakeRoom(map, id, None), Fits(map, None)
          PROVE  Fits([e EXCEPT ![id] = sw[t].cwd], None)
      <4>1. map \in [Launchers -> Cwds \cup {None}] /\ None \in Cwds \cup {None}
        OBVIOUS
      <4>2. id \in Launchers /\ sw[t].cwd \in Cwds \cup {None}
        BY <3>0
      <4>. HIDE DEF id, Maps
      <4>. QED  BY <3>i, <4>1, <4>2, InsertFits
    <3>1. PICK m \in MakeRoom(thread_env_metadata, t, NoEntries) :
            \E e \in MakeRoom(m[t], id, None) :
              thread_env_metadata' = [m EXCEPT ![t] = [e EXCEPT ![id] = sw[t].cwd]]
      BY <2>2 DEF SetThreadMetadata, set_thread_environment_metadata
    <3>. HIDE DEF Maps
    <3>2. /\ m \in [Threads -> Maps]
          /\ \A x \in Threads : m[x] \in {thread_env_metadata[x], NoEntries}
          /\ m[t] = thread_env_metadata[t]
      <4>1. m \in MakeRoom(thread_env_metadata, t, NoEntries)
        OBVIOUS
      <4>2. thread_env_metadata \in [Threads -> Maps] /\ NoEntries \in Maps
        BY <3>0
      <4>. QED  BY <4>1, <4>2, MakeRoomKeeps
    <3>3. PICK e \in MakeRoom(m[t], id, None) :
              thread_env_metadata' = [m EXCEPT ![t] = [e EXCEPT ![id] = sw[t].cwd]]
      BY <3>1
    <3>4. [e EXCEPT ![id] = sw[t].cwd] \in Maps
      <4>1. m[t] \in Maps
        BY <3>2
      <4>2. e \in Maps
        BY <4>1, MakeRoomType DEF Maps
      <4>. QED  BY <3>0, <4>2 DEF Maps
    <3>5. Fits([m EXCEPT ![t] = [e EXCEPT ![id] = sw[t].cwd]], NoEntries)
      BY <3>0, <3>4, InsertFits DEF CapInv
    <3>6. Fits(thread_env_metadata, NoEntries)'
      BY <3>3, <3>5 DEF Fits, Keys, NoEntries
    <3>7. ASSUME NEW x \in Threads PROVE Fits(thread_env_metadata[x], None)'
      <4>1. CASE x = t
        <5>1. Fits(m[t], None) /\ m[t] \in Maps
          BY <3>2 DEF CapInv
        <5>2. Fits([e EXCEPT ![id] = sw[t].cwd], None)
          BY <3>i, <5>1
        <5>3. thread_env_metadata'[x] = [e EXCEPT ![id] = sw[t].cwd]
          BY <3>3, <3>2, <4>1
        <5>. QED  BY <5>2, <5>3 DEF Fits, Keys
      <4>2. CASE x # t
        <5>1. thread_env_metadata'[x] \in {thread_env_metadata[x], NoEntries}
          BY <3>3, <3>2, <4>2
        <5>2. Fits(thread_env_metadata[x], None)
          BY DEF CapInv
        <5>3. Fits(NoEntries, None)
          BY EmptyFits DEF NoEntries
        <5>. QED  BY <5>1, <5>2, <5>3 DEF Fits, Keys
      <4>. QED  BY <4>1, <4>2
    <3>. QED  BY <2>2, <3>6, <3>7 DEF SetThreadMetadata, CapInv, Fits, Keys
  <2>3. CASE Upsert(t)
    BY <2>3 DEF Upsert, CapInv, Fits, Keys, NoEntries
  <2>4. CASE SetLauncher(t)
    <3>0. /\ last_launcher \in [Threads -> Launchers \cup {None}]
          /\ sw[t].id \in Launchers \cup {None}
      BY <2>4, <1>t DEF SetLauncher, TInv, TypeOK, ManagerTypeOK, CallTypes
    <3>1. PICK m \in MakeRoom(last_launcher, t, None) :
              last_launcher' = [m EXCEPT ![t] = sw[t].id]
      BY <2>4 DEF SetLauncher, set_last_launcher
    <3>2. Fits([m EXCEPT ![t] = sw[t].id], None)
      BY <3>0, InsertFits DEF CapInv
    <3>3. Fits(last_launcher, None)'
      BY <3>1, <3>2 DEF Fits, Keys
    <3>. QED  BY <2>4, <3>3 DEF SetLauncher, CapInv, Fits, Keys, NoEntries
  <2>5. CASE ClearLauncher(t)
    <3>1. Keys([last_launcher EXCEPT ![t] = None], None) \subseteq Keys(last_launcher, None)
      BY DEF Keys
    <3>2. Fits([last_launcher EXCEPT ![t] = None], None)
      BY <3>1, FewerFit DEF CapInv
    <3>3. Fits(last_launcher, None)'
      BY <2>5, <3>2 DEF ClearLauncher, clear_last_launcher, Fits, Keys
    <3>. QED  BY <2>5, <3>3 DEF ClearLauncher, CapInv, Fits, Keys, NoEntries
  <2>6. CASE SetLast(t)
    <3>0. /\ last_environment_id \in [Threads -> Ids \cup {None}]
          /\ sw[t].id \in Ids \cup {None}
      BY <2>6, <1>t DEF SetLast, TInv, TypeOK, ManagerTypeOK, CallTypes
    <3>1. PICK m \in MakeRoom(last_environment_id, t, None) :
              last_environment_id' = [m EXCEPT ![t] = sw[t].id]
      BY <2>6 DEF SetLast, set_last_environment_id
    <3>2. Fits([m EXCEPT ![t] = sw[t].id], None)
      BY <3>0, InsertFits DEF CapInv
    <3>3. Fits(last_environment_id, None)'
      BY <3>1, <3>2 DEF Fits, Keys
    <3>. QED  BY <2>6, <3>3 DEF SetLast, CapInv, Fits, Keys, NoEntries
  <2>7. CASE Record(t)
    <3>0. /\ thread_environment_ids \in [Threads -> Seq(Ids)] /\ <<>> \in Seq(Ids)
          /\ sw[t].id \in Ids
      BY <2>7, <1>t DEF Record, TInv, TypeOK, ManagerTypeOK, CallTypes
    <3>1. PICK m \in MakeRoom(thread_environment_ids, t, <<>>) :
              thread_environment_ids' = [m EXCEPT ![t] = Recorded(m[t], sw[t].id)]
      BY <2>7 DEF Record, record_thread_environment_id
    <3>2. /\ m \in [Threads -> Seq(Ids)]
          /\ \A x \in Threads : m[x] \in {thread_environment_ids[x], <<>>}
      BY <3>0, MakeRoomKeeps
    <3>3. Recorded(m[t], sw[t].id) \in Seq(Ids)
      BY <3>0, <3>2, RecordedType
    <3>4. Fits([m EXCEPT ![t] = Recorded(m[t], sw[t].id)], <<>>)
      BY <3>0, <3>3, InsertFits DEF CapInv
    <3>5. Fits(thread_environment_ids, <<>>)'
      BY <3>1, <3>4 DEF Fits, Keys
    <3>6. \A x \in Threads : Len(m[x]) <= MaxEntries
      BY <3>2 DEF CapInv
    <3>7. Len(Recorded(m[t], sw[t].id)) <= MaxEntries
      BY <3>0, <3>2, <3>6, RecordedFits
    <3>8. \A x \in Threads : Len(thread_environment_ids'[x]) <= MaxEntries
      BY <3>1, <3>2, <3>6, <3>7
    <3>. QED  BY <2>7, <3>5, <3>8 DEF Record, CapInv, Fits, Keys, NoEntries
  <2>. QED  BY <1>2, <2>1, <2>2, <2>3, <2>4, <2>5, <2>6, <2>7 DEF Writes
<1>. QED  BY <1>q, <1>2, <1>t, WritesOrQuiet DEF Quiet

(* Every map of the manager, and every thread's map and list in it, stays  *)
(* within its cap, for any number of threads and ids.                      *)
THEOREM CapIsKept == Spec => []MapsWithinCap
<1>1. Init => TInv /\ CapInv
  <2>. SUFFICES ASSUME Init PROVE TInv /\ CapInv
    OBVIOUS
  <2>1. Fits(env_metadata, None)
    BY EmptyFits DEF Init, ManagerInit, NoEntries
  <2>2. Fits(thread_env_metadata, NoEntries)
    BY EmptyFits DEF Init, ManagerInit
  <2>3. Fits(last_launcher, None) /\ Fits(last_environment_id, None)
    BY EmptyFits DEF Init, ManagerInit
  <2>4. Fits(thread_environment_ids, <<>>)
    BY EmptyFits DEF Init, ManagerInit
  <2>5. Fits(NoEntries, None)
    BY EmptyFits DEF NoEntries
  <2>6. \A t \in Threads : /\ thread_env_metadata[t] = NoEntries
                           /\ Len(thread_environment_ids[t]) <= MaxEntries
    BY ManagerAssumption DEF Init, ManagerInit
  <2>. QED  BY <2>1, <2>2, <2>3, <2>4, <2>5, <2>6, TypeInit DEF CapInv
<1>2. TInv /\ CapInv /\ [Next]_vars => (TInv /\ CapInv)'
  BY TypeNext, CapNext
<1>3. CapInv => MapsWithinCap
  BY DEF CapInv, Fits, MapsWithinCap
<1>. QED  BY <1>1, <1>2, <1>3, PTL DEF Spec

-----------------------------------------------------------------------------
(* A sub-agent's parent is a root thread, which is what the default of     *)
(* agent_max_depth (1) allows.                                             *)
TwoGenerations == \A t \in Threads : Parent[t] # None => Parent[Parent[t]] = None

(* Why a frozen primary environment is never reported with another cwd than *)
(* it is resolved with: a thread that did not start on the host was spawned *)
(* by a parent with a cursor, and then that cursor is its default, not its  *)
(* primary environment.                                                    *)
FrozenInv ==
    /\ Local \in environments
    /\ \A t \in Threads : pc[t] # "absent" =>
          /\ turn_environments[t][Local] = HostCwd
          /\ primary[t] # Local =>
                Parent[t] # None /\ last_environment_id[Parent[t]] # None

(* Only its start or its spawn gives a thread its frozen list, and no cursor *)
(* is lost below the cap.                                                  *)
LEMMA FrozenSteps ==
    ASSUME BelowCap, TInv, [Next]_vars
    PROVE  /\ environments \subseteq environments'
           /\ \A x \in Threads : last_environment_id[x] # None => last_environment_id'[x] # None
           /\ \/ \E t \in Threads : StartRoot(t)
              \/ \E t, child \in Threads : Spawn(t, child)
              \/ /\ UNCHANGED <<turn_environments, primary>>
                 /\ \A x \in Threads : pc'[x] # "absent" => pc[x] # "absent"
<1>1. environments \subseteq environments'
      /\ \A x \in Threads : last_environment_id[x] # None => last_environment_id'[x] # None
  <2>1. CASE Quiet
    BY <2>1 DEF Quiet, managerVars
  <2>2. ASSUME NEW t \in Threads, SetLast(t)
        PROVE  /\ environments' = environments
               /\ \A x \in Threads : last_environment_id[x] # None => last_environment_id'[x] # None
    <3>1. sw[t].id \in Ids /\ last_environment_id \in [Threads -> Ids \cup {None}]
      BY <2>2 DEF TInv, TypeOK, ManagerTypeOK, CallTypes, SetLast
    <3>2. last_environment_id' = [last_environment_id EXCEPT ![t] = sw[t].id]
      BY <2>2, <3>1, WritesBelowCap DEF SetLast
    <3>. QED  BY <2>2, <3>1, <3>2, ManagerAssumption DEF SetLast
  <2>3. ASSUME NEW t \in Threads, Writes(t), ~SetLast(t)
        PROVE  environments \subseteq environments' /\ UNCHANGED last_environment_id
    BY <2>3 DEF Writes, SetMetadata, SetThreadMetadata, Upsert, SetLauncher, ClearLauncher,
       Record, upsert_stdio_environment
  <2>. QED  BY <2>1, <2>2, <2>3, WritesOrQuiet
<1>2. ASSUME NEW t \in Threads, SwitchStep(t)
      PROVE  /\ UNCHANGED <<turn_environments, primary>>
             /\ pc[t] # "absent" /\ \E label : Goto(t, label)
  BY <1>2 DEF SwitchStep, SwitchAbsolute, SwitchExtendBase, SwitchExtend, BeginRemote,
     Provisioned, SwitchFails, CwdResolved, SetMetadata, SetThreadMetadata, Upsert,
     SetLauncher, SwitchLocal, ClearLauncher, SetLast, Record
<1>3. ASSUME NEW t \in Threads, ResolveStep(t)
      PROVE  /\ UNCHANGED <<turn_environments, primary>>
             /\ pc[t] # "absent" /\ \E label : Goto(t, label)
  BY <1>3 DEF ResolveStep, ResolveImplicit, ResolveSecondRead, ResolveExplicit, Dispatch,
     turn_environment_from_env_switch_metadata, ResolveReturn, Answer
<1>4. CASE UNCHANGED vars
  BY <1>1, <1>4 DEF vars
<1>5. ASSUME NEW t \in Threads, pc[t] # "absent", NEW label, Goto(t, label)
      PROVE  \A x \in Threads : pc'[x] # "absent" => pc[x] # "absent"
  BY <1>5 DEF Goto, TInv, TypeOK
<1>. QED  BY <1>1, <1>2, <1>3, <1>4, <1>5 DEF Next

LEMMA FrozenNext ==
    ASSUME BelowCap, TwoGenerations, TInv, FrozenInv, [Next]_vars
    PROVE  FrozenInv'
<1>. USE ManagerAssumption, EnvSwitchAssumption
<1>t. TInv /\ TInv'
  BY TypeNext
<1>1. Local \in environments'
  BY FrozenSteps DEF FrozenInv
<1>2. \A x \in Threads : last_environment_id[x] # None => last_environment_id'[x] # None
  BY FrozenSteps
<1>3. ASSUME NEW t \in Threads, StartRoot(t) PROVE FrozenInv'
  <2>1. turn_environments'[t][Local] = HostCwd /\ primary'[t] = Local
    BY <1>3, <1>t DEF StartRoot, FrozenInv, TInv, TypeOK, Ids
  <2>2. \A x \in Threads \ {t} : /\ turn_environments'[x] = turn_environments[x]
                                 /\ primary'[x] = primary[x] /\ pc'[x] = pc[x]
    BY <1>3, <1>t DEF StartRoot, Goto, TInv, TypeOK
  <2>. QED  BY <1>1, <1>2, <2>1, <2>2 DEF FrozenInv
<1>4. ASSUME NEW t \in Threads, NEW child \in Threads, Spawn(t, child) PROVE FrozenInv'
  <2>. DEFINE d == default_tool_environment_id(t)
              list == environment_selections_with_default(t)
  <2>0. d \in Ids /\ pc[t] # "absent" /\ Parent[child] = t
    BY <1>4, <1>t, ViewTypes DEF Spawn
  <2>1. turn_environments[t] \in [Ids -> Cwds \cup {HostCwd, None}] /\ Local \in Ids
    BY <1>t DEF TInv, TypeOK, Ids
  <2>2. Parent[t] = None /\ primary[t] = Local
    BY <2>0 DEF TwoGenerations, FrozenInv
  <2>3. d # Local => last_environment_id[t] # None
    BY <2>2 DEF default_tool_environment_id, last_env_switch_environment_id
  <2>4. list[Local] = HostCwd
    <3>1. list = [turn_environments[t] EXCEPT ![d] = InheritedCwd(t, d)]
      BY DEF environment_selections_with_default
    <3>2. d = Local => InheritedCwd(t, d) = HostCwd
      BY DEF InheritedCwd
    <3>3. turn_environments[t][Local] = HostCwd
      BY <2>0 DEF FrozenInv
    <3>. HIDE DEF d, list
    <3>. QED  BY <2>0, <2>1, <3>1, <3>2, <3>3
  <2>5. /\ turn_environments'[child] = list
        /\ primary'[child] \in {d, Local}
    <3>. HIDE DEF FrozenInv
    <3>. QED  BY <1>4, <1>t, <2>2 DEF Spawn, TInv, TypeOK
  <2>6. \A x \in Threads \ {child} : /\ turn_environments'[x] = turn_environments[x]
                                     /\ primary'[x] = primary[x] /\ pc'[x] = pc[x]
    BY <1>4, <1>t DEF Spawn, Goto, TInv, TypeOK
  <2>. HIDE DEF d, list
  <2>7. /\ turn_environments'[child][Local] = HostCwd
        /\ primary'[child] # Local =>
              Parent[child] # None /\ last_environment_id'[Parent[child]] # None
    BY <1>2, <2>0, <2>3, <2>4, <2>5
  <2>. QED  BY <1>1, <1>2, <2>6, <2>7 DEF FrozenInv
<1>5. ASSUME UNCHANGED <<turn_environments, primary>>,
             \A x \in Threads : pc'[x] # "absent" => pc[x] # "absent"
      PROVE  FrozenInv'
  BY <1>1, <1>2, <1>5 DEF FrozenInv
<1>. QED  BY <1>3, <1>4, <1>5, FrozenSteps

(* Below the cap, for root threads and their sub-agents: the cwd that      *)
(* env_status shows for the default environment is the one a call that     *)
(* omits environment_id runs in.                                           *)
THEOREM StatusIsTrue ==
    ASSUME BelowCap, TwoGenerations
    PROVE  Spec => []StatusMatchesResolution
<1>1. Init => IInv /\ FrozenInv
  BY InvInit DEF Init, ManagerInit, FrozenInv
<1>2. IInv /\ FrozenInv /\ [Next]_vars => (IInv /\ FrozenInv)'
  BY InvNext, FrozenNext DEF IInv
<1>3. IInv /\ FrozenInv => StatusMatchesResolution
  <2>. SUFFICES ASSUME IInv, FrozenInv, NEW t \in Threads, pc[t] = "idle"
                PROVE  build_env_status_output(t) = ImplicitCwd(t)
    BY DEF StatusMatchesResolution
  <2>. DEFINE d == default_tool_environment_id(t)
              last == last_env_switch_environment_id(t)
  <2>0. TInv /\ d \in Ids /\ last \in Ids \cup {None}
    BY ViewTypes DEF IInv
  <2>1. CASE d = Local
    <3>1. turn_environments[t][Local] = HostCwd
      BY DEF FrozenInv
    <3>. QED  BY <2>1, <3>1 DEF build_env_status_output, ImplicitCwd
  <2>2. CASE d # Local /\ last = d
    <3>1. d \in Launchers
      BY <2>0, <2>2 DEF Ids
    <3>2. Parent[t] \in Threads \cup {None}
      BY EnvSwitchAssumption
    <3>3. \/ last_environment_id[t] = d
          \/ Parent[t] # None /\ last_environment_id[Parent[t]] = d
      BY <2>2 DEF last_env_switch_environment_id
    <3>4. \A x \in Threads : last_environment_id[x] = d => thread_env_metadata[x][d] # None
      BY <3>1 DEF IInv, CursorBacked
    <3>. HIDE DEF d
    <3>5. ThreadMetadata(t, d) # None
      BY <3>2, <3>3, <3>4 DEF ThreadMetadata, get_thread_environment_metadata_for_keys
    <3>. USE DEF d
    <3>. QED  BY <2>2, <3>5 DEF build_env_status_output, ImplicitCwd
  <2>3. CASE d # Local /\ last # d
    <3>1. last = None /\ d = primary[t]
      BY <2>3 DEF default_tool_environment_id
    <3>2. Parent[t] # None /\ last_environment_id[Parent[t]] # None
      BY <2>3, <3>1 DEF FrozenInv
    <3>3. last # None
      BY <3>2 DEF last_env_switch_environment_id
    <3>. QED  BY <3>1, <3>3
  <2>. QED  BY <2>1, <2>2, <2>3
<1>. QED  BY <1>1, <1>2, <1>3, PTL DEF Spec
=============================================================================
