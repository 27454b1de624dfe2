----------------------- MODULE SessionRegistry_proofs -----------------------
(***************************************************************************)
(* Safety of SessionRegistry, for any set of connections: an attached      *)
(* connection owns its session, and notifications reach no other.          *)
(***************************************************************************)
EXTENDS SessionRegistry, TLAPS

USE ConnsAssumption DEF Sessions

(* Types, and deadlines that come with a connection that left.             *)
LEMMA TypeInit == Init => TypeOK
BY DEF Init, TypeOK, PCs

(* Every step keeps them.                                                  *)
LEMMA TypeNext ==
    ASSUME IInv, [Next]_vars
    PROVE  TypeOK'
<1>. USE DEF IInv, TypeOK, PCs, InAttach, Attached, Goto, entryVars
<1>1. ASSUME NEW c \in Conns, Connection(c) PROVE TypeOK'
  <2>1. CASE InitializeNew(c)
    BY <2>1 DEF InitializeNew
  <2>2. ASSUME NEW s \in Sessions, ResumeExpired(c, s) \/ ResumeFound(c, s) PROVE TypeOK'
    BY <2>2 DEF ResumeExpired, ResumeFound
  <2>3. CASE CheckActive(c)
    BY <2>3 DEF CheckActive
  <2>4. CASE ResumeSetSender(c) \/ ResumeAttach(c)
    <3>1. session[c] \in Sessions
      BY <2>4 DEF ResumeSetSender, ResumeAttach, ConnectionInv
    <3>. QED  BY <2>4, <3>1 DEF ResumeSetSender, ResumeAttach
  <2>5. CASE ExpiredShutdown(c)
    <3>1. session[c] \in Sessions
      BY <2>5 DEF ExpiredShutdown, ConnectionInv
    <3>. QED  BY <2>5, <3>1 DEF ExpiredShutdown, shutdown
  <2>6. CASE Initialized(c) \/ Disconnect(c)
    BY <2>6 DEF Initialized, Disconnect
  <2>7. CASE Exec(c)
    <3>1. session[c] \in Sessions
      BY <2>7 DEF Exec, ConnectionInv
    <3>. QED  BY <2>7, <3>1 DEF Exec
  <2>8. CASE DetachEntry(c)
    BY <2>8 DEF DetachEntry
  <2>9. CASE DetachSender(c)
    <3>1. session[c] \in Sessions
      BY <2>9 DEF DetachSender, ConnectionInv
    <3>. QED  BY <2>9, <3>1 DEF DetachSender
  <2>. QED  BY <1>1, <2>1, <2>2, <2>3, <2>4, <2>5, <2>6, <2>7, <2>8, <2>9 DEF Connection
<1>2. ASSUME NEW s \in Sessions, Expiry(s) PROVE TypeOK'
  <2>1. CASE DeadlinePasses(s)
    BY <2>1 DEF DeadlinePasses
  <2>2. ASSUME NEW c \in Conns, expire_if_detached(s, c) PROVE TypeOK'
    BY <2>2 DEF expire_if_detached
  <2>3. CASE ExpireShutdown(s)
    BY <2>3 DEF ExpireShutdown, shutdown
  <2>. QED  BY <1>2, <2>1, <2>2, <2>3 DEF Expiry
<1>3. CASE UNCHANGED vars
  BY <1>3 DEF vars
<1>. QED  BY <1>1, <1>2, <1>3 DEF Next

-----------------------------------------------------------------------------
(* The rest of the inductive invariant.                                    *)
LEMMA InvInit == Init => IInv
<1>. USE DEF Init, IInv, InAttach, Attached
<1>1. ASSUME Init, NEW c \in Conns PROVE ConnectionInv(c)
  <2>1. pc[c] = "open" /\ lock # c
    BY <1>1
  <2>2. Uncreated(c)
    BY <1>1 DEF Uncreated
  <2>. QED  BY <2>1, <2>2 DEF ConnectionInv
<1>2. Init => \A s \in Sessions : SessionInv(s)
  BY DEF SessionInv
<1>. QED  BY <1>1, <1>2, TypeInit

(* Every step keeps it: one case per action, one step per kind of part.    *)
LEMMA InvNext ==
    ASSUME IInv, [Next]_vars
    PROVE  IInv'
<1>. DEFINE Parts == (\A x \in Conns : ConnectionInv(x)) /\ (\A s \in Sessions : SessionInv(s))
<1>t. TypeOK /\ TypeOK'
  BY TypeNext DEF IInv
<1>. USE <1>t DEF IInv, TypeOK, PCs, InAttach, Attached, Goto, entryVars,
                  ConnectionInv, SessionInv, Uncreated
<1>1. ASSUME NEW c \in Conns, Connection(c) PROVE Parts'
  <2>1. CASE InitializeNew(c)
    <3>1. \A x \in Conns : ConnectionInv(x)'
      BY <2>1 DEF InitializeNew
    <3>2. \A s \in Sessions : SessionInv(s)'
      BY <2>1 DEF InitializeNew
    <3>. QED  BY <3>1, <3>2
  <2>2. CASE ResumeSetSender(c)
    <3>1. \A x \in Conns : ConnectionInv(x)'
      BY <2>2 DEF ResumeSetSender
    <3>2. \A s \in Sessions : SessionInv(s)'
      BY <2>2 DEF ResumeSetSender
    <3>. QED  BY <3>1, <3>2
  <2>3. CASE ResumeAttach(c)
    <3>1. \A x \in Conns : ConnectionInv(x)'
      BY <2>3 DEF ResumeAttach
    <3>2. \A s \in Sessions : SessionInv(s)'
      BY <2>3 DEF ResumeAttach
    <3>. QED  BY <3>1, <3>2
  <2>4. CASE ExpiredShutdown(c)
    <3>1. \A x \in Conns : ConnectionInv(x)'
      BY <2>4 DEF ExpiredShutdown, shutdown
    <3>2. \A s \in Sessions : SessionInv(s)'
      BY <2>4 DEF ExpiredShutdown, shutdown
    <3>. QED  BY <3>1, <3>2
  <2>5. CASE Initialized(c)
    <3>1. \A x \in Conns : ConnectionInv(x)'
      BY <2>5 DEF Initialized
    <3>2. \A s \in Sessions : SessionInv(s)'
      BY <2>5 DEF Initialized
    <3>. QED  BY <3>1, <3>2
  <2>6. CASE Exec(c)
    <3>1. \A x \in Conns : ConnectionInv(x)'
      BY <2>6 DEF Exec
    <3>2. \A s \in Sessions : SessionInv(s)'
      BY <2>6 DEF Exec
    <3>. QED  BY <3>1, <3>2
  <2>7. CASE Disconnect(c)
    <3>1. \A x \in Conns : ConnectionInv(x)'
      BY <2>7 DEF Disconnect
    <3>2. \A s \in Sessions : SessionInv(s)'
      BY <2>7 DEF Disconnect
    <3>. QED  BY <3>1, <3>2
  <2>8. CASE DetachEntry(c)
    <3>1. \A x \in Conns : ConnectionInv(x)'
      BY <2>8 DEF DetachEntry
    <3>2. \A s \in Sessions : SessionInv(s)'
      BY <2>8 DEF DetachEntry
    <3>. QED  BY <3>1, <3>2
  <2>9. CASE DetachSender(c)
    <3>1. \A x \in Conns : ConnectionInv(x)'
      BY <2>9 DEF DetachSender
    <3>2. \A s \in Sessions : SessionInv(s)'
      BY <2>9 DEF DetachSender
    <3>. QED  BY <3>1, <3>2
  <2>10. CASE CheckActive(c)
    <3>1. \A x \in Conns : ConnectionInv(x)'
      BY <2>10 DEF CheckActive
    <3>2. \A s \in Sessions : SessionInv(s)'
      BY <2>10 DEF CheckActive
    <3>. QED  BY <3>1, <3>2
  <2>11. ASSUME NEW r \in Sessions, ResumeExpired(c, r) PROVE Parts'
    <3>1. \A x \in Conns : ConnectionInv(x)'
      BY <2>11 DEF ResumeExpired
    <3>2. \A s \in Sessions : SessionInv(s)'
      BY <2>11 DEF ResumeExpired
    <3>. QED  BY <3>1, <3>2
  <2>12. ASSUME NEW r \in Sessions, ResumeFound(c, r) PROVE Parts'
    <3>1. \A x \in Conns : ConnectionInv(x)'
      BY <2>12 DEF ResumeFound
    <3>2. \A s \in Sessions : SessionInv(s)'
      BY <2>12 DEF ResumeFound
    <3>. QED  BY <3>1, <3>2
  <2>. QED  BY <1>1, <2>1, <2>2, <2>3, <2>4, <2>5, <2>6, <2>7, <2>8, <2>9, <2>10, <2>11, <2>12 DEF Connection
<1>2. ASSUME NEW r \in Sessions, Expiry(r) PROVE Parts'
  <2>1. CASE DeadlinePasses(r)
    <3>1. \A x \in Conns : ConnectionInv(x)'
      BY <2>1 DEF DeadlinePasses
    <3>2. \A s \in Sessions : SessionInv(s)'
      BY <2>1 DEF DeadlinePasses
    <3>. QED  BY <3>1, <3>2
  <2>2. ASSUME NEW c \in Conns, expire_if_detached(r, c) PROVE Parts'
    <3>1. \A x \in Conns : ConnectionInv(x)'
      BY <2>2 DEF expire_if_detached
    <3>2. \A s \in Sessions : SessionInv(s)'
      BY <2>2 DEF expire_if_detached
    <3>. QED  BY <3>1, <3>2
  <2>3. CASE ExpireShutdown(r)
    <3>1. \A x \in Conns : ConnectionInv(x)'
      BY <2>3 DEF ExpireShutdown, shutdown
    <3>2. \A s \in Sessions : SessionInv(s)'
      BY <2>3 DEF ExpireShutdown, shutdown
    <3>. QED  BY <3>1, <3>2
  <2>. QED  BY <1>2, <2>1, <2>2, <2>3 DEF Expiry
<1>3. CASE UNCHANGED vars
  BY <1>3 DEF vars
<1>. QED  BY <1>1, <1>2, <1>3 DEF Next

(* The inductive invariant is an invariant.                                *)
LEMMA Invariance == Safety => []IInv
BY InvInit, InvNext, PTL DEF Safety

(* Types are right and every deadline has an owner that left.              *)
THEOREM RegistryTypeCorrect == Safety => []TypeOK
<1>1. IInv => TypeOK
  BY DEF IInv
<1>. QED  BY <1>1, Invariance, PTL

(* From a successful initialize to its close a connection owns its session, *)
(* whatever resumes, timers and expired resumes run beside it.              *)
THEOREM AttachedOwnsSession == Safety => []OwnerKept
<1>1. IInv => OwnerKept
  BY DEF IInv, TypeOK, OwnerKept, ConnectionInv, SessionInv
<1>. QED  BY <1>1, Invariance, PTL

(* A session's notifications go to the attached connection or nowhere.     *)
THEOREM NotificationsArePrivate == Safety => []NotificationsStayHome
<1>1. IInv => NotificationsStayHome
  BY DEF IInv, NotificationsStayHome, SessionInv
<1>. QED  BY <1>1, Invariance, PTL
=============================================================================
