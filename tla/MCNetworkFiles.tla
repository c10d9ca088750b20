--------------------------- MODULE MCNetworkFiles ---------------------------
(* Instances of NetworkFiles for TLC. *)
EXTENDS NetworkFilesInv

P(elType, clType, mev) == [el |-> elType, cl |-> clType, mevBoost |-> mev]

\* Three nodes: every pair of client types, with a sidecar and without.
AllPairs == {<<P("geth", b, TRUE), P("erigon", c, FALSE), P(e, c, TRUE)>> :
                 b \in {"teku", "prysm"}, c \in CLTypes, e \in ELTypes}

\* An address, and one that reads as the number of the contract's first block.
TwoContracts == {"0x4242", "0"}

Dirnames == <<"node-0-keystores", "node-1-keystores", "node-2-keystores",
             "node-3-keystores">>
=============================================================================
