------------------------------ MODULE CheckGate ------------------------------
(***************************************************************************)
(* What the task service promises the rest of the program, with nothing of *)
(* how it keeps the promise: a key is checked by at most one thread at a   *)
(* time, a thread talks to the network only while it holds the key it      *)
(* checks, and no more than Budget threads talk to it at once.             *)
(* TaskService implements this specification (TaskService!GateSpec).       *)
(***************************************************************************)
EXTENDS Integers, FiniteSets

CONSTANTS Threads,  \* threads that check keys
          Keys,     \* the keys they check
          Budget    \* the most probes there may ever be at once

VARIABLES held,     \* pairs <<thread, key>>: the thread holds the key's lease
          inside    \* threads with a network probe in flight

gateVars == <<held, inside>>

Init == held = {} /\ inside = {}

Lock(a, k) ==
    /\ \A h \in held : h[1] # a /\ h[2] # k
    /\ held' = held \cup {<<a, k>>}
    /\ UNCHANGED inside

Enter(a, k) ==
    /\ <<a, k>> \in held
    /\ a \notin inside
    /\ Cardinality(inside) < Budget
    /\ inside' = inside \cup {a}
    /\ UNCHANGED held

Leave(a) ==
    /\ a \in inside
    /\ inside' = inside \ {a}
    /\ UNCHANGED held

Unlock(a, k) ==
    /\ <<a, k>> \in held
    /\ a \notin inside
    /\ held' = held \ {<<a, k>>}
    /\ UNCHANGED inside

Next == \E a \in Threads, k \in Keys :
            Lock(a, k) \/ Enter(a, k) \/ Leave(a) \/ Unlock(a, k)

Spec == Init /\ [][Next]_gateVars
==============================================================================
