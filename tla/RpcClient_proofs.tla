-------------------------- MODULE RpcClient_proofs --------------------------
(***************************************************************************)
(* Safety of RpcClient, for any number of calls and of notifications.      *)
(***************************************************************************)
EXTENDS RpcClient, TLAPS

USE RpcAssumption DEF Faults

(* Types, and registered channels whose callers wait.                      *)
LEMMA TypeInit == Init => TypeOK
BY DEF Init, TypeOK, Messages, Waiting

(* Every step keeps them, whatever the peer sends.                         *)
LEMMA TypeNext ==
    ASSUME TypeOK, [Next \/ PeerMisbehaves]_vars
    PROVE  TypeOK'
<1>. USE DEF TypeOK, Messages, Waiting, Returned, Goto
<1>1. ASSUME NEW r \in Calls, Caller(r) PROVE TypeOK'
  <2>1. CASE Preflight(r)
    BY <2>1 DEF Preflight
  <2>2. CASE Register(r)
    BY <2>2 DEF Register
  <2>3. CASE Send(r)
    BY <2>3 DEF Send
  <2>4. CASE Return(r)
    BY <2>4 DEF Return
  <2>. QED  BY <1>1, <2>1, <2>2, <2>3, <2>4 DEF Caller
<1>2. ASSUME NEW m \in Messages, Receive(m), unsolicited' \in Nat PROVE TypeOK'
  <2>1. incoming' \in Seq(Messages)
    BY <1>2 DEF Receive
  <2>. QED  BY <1>2, <2>1 DEF Receive
<1>3. CASE Peer
  <2>1. CASE PeerNotifies
    BY <2>1, <1>2 DEF PeerNotifies
  <2>2. CASE PeerCloses
    BY <2>2 DEF PeerCloses
  <2>3. ASSUME NEW r \in Calls, PeerResponds(r) PROVE TypeOK'
    BY <2>3, <1>2 DEF PeerResponds
  <2>. QED  BY <1>3, <2>1, <2>2, <2>3 DEF Peer
<1>4. CASE send_disconnected
  <2>1. incoming' \in Seq(Messages)
    BY <1>4 DEF send_disconnected
  <2>. QED  BY <1>4, <2>1 DEF send_disconnected
<1>5. CASE Recv
  <2>1. Head(incoming) \in Messages /\ incoming' \in Seq(Messages)
    BY <1>5 DEF Recv
  <2>2. events' \in Seq({"notification", "disconnected"})
    <3>1. events' = events \/ events' = Append(events, "notification")
      BY <1>5 DEF Recv
    <3>2. Append(events, "notification") \in Seq({"notification", "disconnected"})
      OBVIOUS
    <3>. QED  BY <3>1, <3>2
  <2>. QED  BY <1>5, <2>1, <2>2 DEF Recv
<1>6. CASE Announce
  BY <1>6 DEF Announce
<1>7. CASE drain_pending
  BY <1>7 DEF drain_pending
<1>8. CASE TakeEvent
  BY <1>8 DEF TakeEvent
<1>9. CASE PeerMisbehaves
  BY <1>9, <1>2 DEF PeerMisbehaves
<1>10. CASE UNCHANGED vars
  BY <1>10 DEF vars
<1>. QED  BY <1>1, <1>3, <1>4, <1>5, <1>6, <1>7, <1>8, <1>9, <1>10 DEF Next, Reader

(* Types are right and every registered channel has a caller waiting on it, *)
(* also when the peer breaks the protocol.                                 *)
THEOREM RpcTypeCorrect == FaultySafety => []TypeOK
BY TypeInit, TypeNext, PTL DEF FaultySafety

-----------------------------------------------------------------------------
(* With a peer that keeps to the protocol, each step keeps the invariant.  *)
LEMMA InvNext ==
    ASSUME IInv, [Next]_vars
    PROVE  IInv'
<1>t. TypeOK /\ TypeOK'
  BY TypeNext DEF IInv
<1>. USE <1>t DEF IInv, TypeOK, EndIsAnnounced, NoStrandedCall, Messages, Goto
<1>1. ASSUME NEW r \in Calls, Caller(r) PROVE IInv'
  <2>1. CASE Preflight(r)
    BY <2>1 DEF Preflight
  <2>2. CASE Register(r)
    BY <2>2 DEF Register
  <2>3. CASE Send(r)
    BY <2>3 DEF Send
  <2>4. CASE Return(r)
    BY <2>4 DEF Return
  <2>. QED  BY <1>1, <2>1, <2>2, <2>3, <2>4 DEF Caller
<1>2. ASSUME NEW m \in Calls \cup {"notification"}, Receive(m) PROVE IInv'
  <2>0. m \in Messages /\ m \notin Faults /\ m # "disconnected"
    BY <1>2
  <2>1. CASE incoming' = Append(incoming, m)
    <3>1. \A i \in 1..Len(incoming') : incoming'[i] = m \/ (i \in 1..Len(incoming) /\ incoming'[i] = incoming[i])
      BY <2>0, <2>1
    <3>. QED  BY <1>2, <2>0, <3>1 DEF Receive
  <2>2. CASE incoming' = incoming
    BY <1>2, <2>2 DEF Receive
  <2>. QED  BY <1>2, <2>1, <2>2 DEF Receive
<1>3. CASE Peer
  <2>1. CASE PeerNotifies
    BY <2>1, <1>2 DEF PeerNotifies
  <2>2. CASE PeerCloses
    BY <2>2 DEF PeerCloses
  <2>3. ASSUME NEW r \in Calls, PeerResponds(r) PROVE IInv'
    BY <2>3, <1>2 DEF PeerResponds
  <2>. QED  BY <1>3, <2>1, <2>2, <2>3 DEF Peer
<1>4. CASE send_disconnected
  BY <1>4 DEF send_disconnected
<1>5. CASE Recv
  BY <1>5 DEF Recv
<1>6. CASE Announce
  BY <1>6 DEF Announce
<1>7. CASE drain_pending
  BY <1>7 DEF drain_pending
<1>8. CASE TakeEvent
  BY <1>8 DEF TakeEvent
<1>9. CASE UNCHANGED vars
  BY <1>9 DEF vars
<1>. QED  BY <1>1, <1>3, <1>4, <1>5, <1>6, <1>7, <1>8, <1>9 DEF Next, Reader

(* With a peer that keeps to the protocol, no call sneaks in after the      *)
(* reader's drain to wait for ever.                                        *)
THEOREM NoCallStranded == Safety => []NoStrandedCall
<1>1. Init => IInv
  BY TypeInit DEF Init, IInv, EndIsAnnounced, NoStrandedCall
<1>2. IInv /\ [Next]_vars => IInv'
  BY InvNext
<1>3. IInv => NoStrandedCall
  BY DEF IInv
<1>. QED  BY <1>1, <1>2, <1>3, PTL DEF Safety

-----------------------------------------------------------------------------
(* Answers go to requests that were sent and only the drain fails one, also *)
(* when the peer sends malformed messages or requests.                     *)
LEMMA AnswerNext ==
    ASSUME TypeOK, AnswerInv, [Next \/ PeerMisbehaves]_vars
    PROVE  AnswerInv'
<1>t. TypeOK'
  BY TypeNext
<1>. USE <1>t DEF AnswerInv, TypeOK, Messages, Waiting, Returned, Goto
<1>1. ASSUME NEW r \in Calls, Caller(r) PROVE AnswerInv'
  <2>1. CASE Preflight(r)
    BY <2>1 DEF Preflight
  <2>2. CASE Register(r)
    BY <2>2 DEF Register
  <2>3. CASE Send(r)
    BY <2>3 DEF Send
  <2>4. CASE Return(r)
    BY <2>4 DEF Return
  <2>. QED  BY <1>1, <2>1, <2>2, <2>3, <2>4 DEF Caller
<1>2. ASSUME NEW m \in Messages, m \in Calls => call[m] = "sent", Receive(m)
      PROVE  AnswerInv'
  <2>1. \A i \in 1..Len(incoming') :
            incoming'[i] = m \/ (i \in 1..Len(incoming) /\ incoming'[i] = incoming[i])
    BY <1>2 DEF Receive
  <2>. QED  BY <1>2, <2>1 DEF Receive
<1>3. CASE Peer
  <2>1. CASE PeerNotifies
    BY <2>1, <1>2 DEF PeerNotifies
  <2>2. CASE PeerCloses
    BY <2>2 DEF PeerCloses
  <2>3. ASSUME NEW r \in Calls, PeerResponds(r) PROVE AnswerInv'
    BY <2>3, <1>2 DEF PeerResponds
  <2>. QED  BY <1>3, <2>1, <2>2, <2>3 DEF Peer
<1>4. CASE send_disconnected
  <2>1. \A i \in 1..Len(incoming') :
            \/ incoming'[i] = "disconnected"
            \/ i \in 1..Len(incoming) /\ incoming'[i] = incoming[i]
    BY <1>4 DEF send_disconnected
  <2>. QED  BY <1>4, <2>1 DEF send_disconnected
<1>5. CASE Recv
  <2>1. 1 \in 1..Len(incoming) /\ Head(incoming) = incoming[1]
    BY <1>5 DEF Recv
  <2>2. \A i \in 1..Len(incoming') :
            i + 1 \in 1..Len(incoming) /\ incoming'[i] = incoming[i + 1]
    BY <1>5 DEF Recv
  <2>. QED  BY <1>5, <2>1, <2>2 DEF Recv
<1>6. CASE Announce
  BY <1>6 DEF Announce
<1>7. CASE drain_pending
  BY <1>7 DEF drain_pending
<1>8. CASE TakeEvent
  BY <1>8 DEF TakeEvent
<1>9. CASE PeerMisbehaves
  BY <1>9, <1>2 DEF PeerMisbehaves
<1>10. CASE UNCHANGED vars
  BY <1>10 DEF vars
<1>. QED  BY <1>1, <1>3, <1>4, <1>5, <1>6, <1>7, <1>8, <1>9, <1>10 DEF Next, Reader

(* However the transport or the reader ends, a response that was read      *)
(* before the stream's end makes its call succeed.                         *)
THEOREM ResponseIsDelivered == FaultySafety => ResponsesWin
<1>1. Init => TypeOK /\ AnswerInv
  BY TypeInit DEF Init, AnswerInv
<1>2. TypeOK /\ AnswerInv /\ [Next \/ PeerMisbehaves]_vars => (TypeOK /\ AnswerInv)'
  BY TypeNext, AnswerNext
<1>3. ASSUME TypeOK, AnswerInv, [Next \/ PeerMisbehaves]_vars, NEW r \in Calls,
             Readable(r), call'[r] = "closed"
      PROVE  call[r] = "closed"
  <2>1. call[r] \in {"sent"} \cup Returned /\ answer[r] # "closed"
    BY <1>3 DEF Readable, AnswerInv, TypeOK
  <2>2. SUFFICES ASSUME call'[r] # call[r] PROVE FALSE
    BY <1>3
  <2>3. PICK x \in Calls : Caller(x)
    BY <1>3, <2>2 DEF Next, Peer, Reader, PeerNotifies, PeerCloses, PeerResponds,
       PeerMisbehaves, Receive, send_disconnected, Recv, Announce, drain_pending,
       TakeEvent, vars
  <2>4. CASE x # r
    BY <1>3, <2>2, <2>3, <2>4 DEF Caller, Preflight, Register, Send, Return, Goto, TypeOK
  <2>5. CASE x = r
    BY <1>3, <2>1, <2>3, <2>5 DEF Caller, Preflight, Register, Send, Return, Goto,
       TypeOK, Returned
  <2>. QED  BY <2>4, <2>5
<1>4. TypeOK /\ AnswerInv /\ [Next \/ PeerMisbehaves]_vars =>
        [\A r \in Calls : Readable(r) => (call'[r] = "closed" => call[r] = "closed")]_vars
  BY <1>3
<1>. QED  BY <1>1, <1>2, <1>4, PTL DEF FaultySafety, ResponsesWin
=============================================================================
