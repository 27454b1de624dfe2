------------------------------ MODULE EnvCursor ------------------------------
(***************************************************************************)
(* What env_switch promises a thread: a private cursor.  A switch to an    *)
(* environment is pending until it either fails, leaving the cursor alone, *)
(* or takes effect in one step, which moves the requesting thread's cursor *)
(* (and no other's) to the environment that was asked for together with    *)
(* the cwd resolved for it.                                                *)
(***************************************************************************)
CONSTANTS Threads, Ids, Cwds,
          None     \* no pending switch, no selection yet, or no remote cwd

VARIABLES pending,   \* the id a thread is switching to
          cursor     \* the environment and cwd its last switch selected

vars == <<pending, cursor>>

Unselected == [id |-> None, cwd |-> None]

Init == /\ pending = [t \in Threads |-> None]
        /\ cursor = [t \in Threads |-> Unselected]

Ask(t, id) ==
    /\ pending[t] = None
    /\ pending' = [pending EXCEPT ![t] = id]
    /\ UNCHANGED cursor

Take(t, cwd) ==
    /\ pending[t] # None
    /\ cursor' = [cursor EXCEPT ![t] = [id |-> pending[t], cwd |-> cwd]]
    /\ pending' = [pending EXCEPT ![t] = None]

Fail(t) ==
    /\ pending[t] # None
    /\ pending' = [pending EXCEPT ![t] = None]
    /\ UNCHANGED cursor

Next == \E t \in Threads :
            \/ \E id \in Ids : Ask(t, id)
            \/ \E cwd \in Cwds \cup {None} : Take(t, cwd)
            \/ Fail(t)

Spec == Init /\ [][Next]_vars
==============================================================================
