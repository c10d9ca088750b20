---------------------------- MODULE NetworkClaim ----------------------------
(***************************************************************************)
(* What the executions of the module promise about an enclave, whatever    *)
(* order they run in: the enclave holds one network, built by one          *)
(* execution and never taken apart, and an execution that reports success  *)
(* is the builder and has built everything it was asked for.               *)
(***************************************************************************)
CONSTANTS Execs,    \* executions of the module against the enclave
          Nodes     \* the services a network may be made of

VARIABLES wanted,   \* what each execution was asked to build
          builder,  \* the execution the enclave belongs to: {} or {e}
          network,  \* the services of the network that exist
          outcome   \* what each execution has reported

vars == <<wanted, builder, network, outcome>>

Init == /\ wanted \in [Execs -> SUBSET Nodes]
        /\ builder = {}
        /\ network = {}
        /\ outcome = [e \in Execs |-> "pending"]

\* An execution starts the network, or adds to the one it started.
Build(e) ==
    /\ outcome[e] = "pending"
    /\ builder \subseteq {e}
    /\ builder' = {e}
    /\ network' \in SUBSET Nodes
    /\ network \subseteq network'
    /\ UNCHANGED <<wanted, outcome>>

\* The builder reports success, perhaps in the step that adds the last node.
Succeed(e) ==
    /\ outcome[e] = "pending"
    /\ builder = {e}
    /\ network' \in SUBSET Nodes
    /\ network \subseteq network'
    /\ network' = wanted[e]
    /\ outcome' = [outcome EXCEPT ![e] = "succeeded"]
    /\ UNCHANGED <<wanted, builder>>

\* An execution gives up.  What it built stays, and so does its claim.
Fail(e) ==
    /\ outcome[e] = "pending"
    /\ outcome' = [outcome EXCEPT ![e] = "failed"]
    /\ UNCHANGED <<wanted, builder, network>>

Next == \E e \in Execs : Build(e) \/ Succeed(e) \/ Fail(e)

Spec == Init /\ [][Next]_vars
=============================================================================
