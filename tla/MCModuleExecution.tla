------------------------- MODULE MCModuleExecution -------------------------
(* Instances of ModuleExecution for TLC. *)
EXTENDS ModuleExecutionInv, TLC

CONSTANTS e1, e2

TwoExecs == {e1, e2}
OneExec  == {e1}
Symmetry == Permutations(Execs)

P(el, cl, mev) == [el |-> el, cl |-> cl, mevBoost |-> mev]

\* Two slots an epoch and eight keys a node are enough validators.
R(participants, additional, verify, finalize) ==
    [participants |-> participants, slotsPerEpoch |-> 2, secondsPerSlot |-> 1,
     keysPerNode |-> 8, textOk |-> TRUE, additional |-> additional,
     verify |-> verify, finalize |-> finalize]

\* Networks of two participants: validators in one container and in two.
SharedRequests == {
    R(<<P("geth", "teku", FALSE), P("erigon", "lighthouse", TRUE)>>, FALSE, FALSE, FALSE),
    R(<<P("geth", "lodestar", FALSE), P("geth", "nimbus", TRUE)>>, TRUE, FALSE, FALSE)}

\* Every client type, three participants, every way to end, and requests that
\* are refused, by the validation or by a launcher.
AllFlags == {<<FALSE, FALSE, FALSE>>, <<TRUE, TRUE, FALSE>>, <<TRUE, FALSE, TRUE>>,
             <<TRUE, FALSE, FALSE>>}
NodeLists == {
    <<P("geth", "lighthouse", TRUE), P("erigon", "prysm", FALSE), P("besu", "teku", TRUE)>>,
    <<P("geth", "nimbus", TRUE), P("geth", "lodestar", TRUE),
      P("nethermind", "lighthouse", FALSE)>>,
    <<P("geth", "teku", FALSE), P("besu", "teku", FALSE)>>,
    <<P("erigon", "teku", FALSE), P("geth", "teku", FALSE)>>,
    <<P("besu", "teku", FALSE)>>}
EveryRequest == {R(nodes, f[1], f[2], f[3]) : nodes \in NodeLists, f \in AllFlags}
=============================================================================
