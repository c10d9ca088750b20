----------------------------- MODULE Launchers -----------------------------
(***************************************************************************)
(* How the launchers of the client implementations differ, in what the     *)
(* launching of a network depends on.  Each is a record read off its       *)
(* Launch method and the container configurations that method builds.      *)
(***************************************************************************)
EXTENDS ModuleParams

(***************************************************************************)
(* EL launchers.  peers: how many of the clients launched so far, counted  *)
(* from the first, have their enode written into the new client's flags,   *)
(* if there are so many.  needs: how many there must be.  lacking: how the *)
(* launch ends when there are fewer, an error that is returned ("failed")  *)
(* or an index out of range ("panicked").                                  *)
(***************************************************************************)
Geth       == [peers |-> 1, needs |-> 0, lacking |-> "failed"]
Erigon     == [peers |-> 1, needs |-> 1, lacking |-> "panicked"]
Nethermind == [peers |-> 2, needs |-> 2, lacking |-> "failed"]
Besu       == [peers |-> 2, needs |-> 2, lacking |-> "failed"]

ElLauncher(type) == CASE type = "geth"       -> Geth
                      [] type = "erigon"     -> Erigon
                      [] type = "nethermind" -> Nethermind
                      [] type = "besu"       -> Besu

(***************************************************************************)
(* CL launchers.  split: the validator runs in a container of its own,     *)
(* added before the node is asked for its identity (validatorFirst) or     *)
(* after.  boosted: the sidecar's address is written into the beacon       *)
(* node's flags.  validatorMetrics: the context names the validator's      *)
(* metrics as well as the beacon node's.                                   *)
(***************************************************************************)
Lighthouse == [split |-> TRUE,  validatorFirst |-> TRUE,
               boosted |-> TRUE,  validatorMetrics |-> TRUE]
Teku       == [split |-> FALSE, validatorFirst |-> FALSE,
               boosted |-> TRUE,  validatorMetrics |-> FALSE]
Nimbus     == [split |-> FALSE, validatorFirst |-> FALSE,
               boosted |-> FALSE, validatorMetrics |-> FALSE]
Prysm      == [split |-> TRUE,  validatorFirst |-> FALSE,
               boosted |-> TRUE,  validatorMetrics |-> TRUE]
Lodestar   == [split |-> TRUE,  validatorFirst |-> FALSE,
               boosted |-> TRUE,  validatorMetrics |-> FALSE]

ClLauncher(type) == CASE type = "lighthouse" -> Lighthouse
                      [] type = "teku"       -> Teku
                      [] type = "nimbus"     -> Nimbus
                      [] type = "prysm"      -> Prysm
                      [] type = "lodestar"   -> Lodestar

Split            == {type \in CLTypes : ClLauncher(type).split}
ValidatorFirst   == {type \in CLTypes : ClLauncher(type).validatorFirst}
Boosted          == {type \in CLTypes : ClLauncher(type).boosted}
ValidatorMetrics == {type \in CLTypes : ClLauncher(type).validatorMetrics}
=============================================================================
