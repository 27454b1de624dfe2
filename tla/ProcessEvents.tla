---------------------------- MODULE ProcessEvents ----------------------------
(***************************************************************************)
(* What the exec-server client gives the holder of a process handle: the   *)
(* events of the process, each once and in the order in which the server   *)
(* produced them, Closed the last of all; and at most one Failed when the  *)
(* session cannot go on.  The reader task's Failed is the last event and   *)
(* comes in place of Closed.  One that a read publishes, when it finds the *)
(* connection closed, may come early: events that have arrived still       *)
(* follow it, Closed too.                                                  *)
(***************************************************************************)
EXTENDS Naturals, Sequences

CONSTANT Kinds     \* of events; "closed" is the last of a process

VARIABLES produced,   \* by the process, on the server
          delivered,  \* to the handle's subscribers, with their numbers
          failures    \* Failed events delivered, by who published them

vars == <<produced, delivered, failures>>

Init == produced = <<>> /\ delivered = <<>> /\ failures = <<>>

Produce(kind) ==
    /\ \A i \in 1..Len(produced) : produced[i] # "closed"
    /\ produced' = Append(produced, kind)
    /\ UNCHANGED <<delivered, failures>>

Deliver ==
    /\ Len(delivered) < Len(produced) /\ failures # <<"reader">>
    /\ LET n == Len(delivered) + 1
       IN  delivered' = Append(delivered, [kind |-> produced[n], seq |-> n])
    /\ UNCHANGED <<produced, failures>>

FailLast ==
    /\ \A i \in 1..Len(delivered) : delivered[i].kind # "closed"
    /\ failures = <<>> /\ failures' = <<"reader">>
    /\ UNCHANGED <<produced, delivered>>

FailEarly ==
    /\ failures = <<>> /\ failures' = <<"read">>
    /\ UNCHANGED <<produced, delivered>>

Next == (\E kind \in Kinds : Produce(kind)) \/ Deliver \/ FailLast \/ FailEarly

Spec == Init /\ [][Next]_vars
==============================================================================
