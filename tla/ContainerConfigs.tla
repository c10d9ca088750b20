-------------------------- MODULE ContainerConfigs --------------------------
(***************************************************************************)
(* The container configurations the launchers build: which files artifacts *)
(* are mounted where, the paths written into the command line, the APIs'   *)
(* ports it opens, and those of other services it names.  A path is the    *)
(* sequence of its names.  Launchers know a file by its path within its    *)
(* artifact, which they join to the place where they mount the artifact.   *)
(***************************************************************************)
EXTENDS Launchers, SequencesExt

Dir(path)  == Front(path)
Base(path) == <<Last(path)>>

Mount(artifact, at) == [artifact |-> artifact, at |-> at]

\* The container of a kind for a node; ports are opened or named by number.
Kinds == {"el", "mevBoost", "beacon", "validator", "spammer", "forkmon",
          "prometheus", "grafana", "verifier"}
Address(kind, node, port) == [kind |-> kind, node |-> node, port |-> port]

----------------------------------------------------------------------------
(* EL clients.  el is the EL genesis data: an artifact and the paths in it *)
(* of the JWT secret and of the genesis in each client's format.           *)

GethConfig(el, prefunded) ==
    [mounts |-> {Mount(el.artifact, <<"genesis">>), Mount(prefunded, <<"prefunded-keys">>)},
     reads  |-> [genesis  |-> <<"genesis">> \o el.genesis["geth"],
                 jwt      |-> <<"genesis">> \o el.jwt,
                 accounts |-> <<"prefunded-keys">>],
     opens  |-> {8545, 8546, 8551}]

ErigonConfig(el) ==
    [mounts |-> {Mount(el.artifact, <<"genesis">>)},
     reads  |-> [genesis |-> <<"genesis">> \o el.genesis["erigon"],
                 jwt     |-> <<"genesis">> \o el.jwt],
     opens  |-> {8545, 8551}]

NethermindConfig(el) ==
    [mounts |-> {Mount(el.artifact, <<"genesis">>)},
     reads  |-> [genesis |-> <<"genesis">> \o el.genesis["nethermind"],
                 jwt     |-> <<"genesis">> \o el.jwt],
     opens  |-> {8545, 8546, 8551}]

\* Besu's engine API is on another port than the others'.
BesuConfig(el) ==
    LET mountpoint == <<"opt", "besu", "genesis">>
    IN  [mounts |-> {Mount(el.artifact, mountpoint)},
         reads  |-> [genesis |-> mountpoint \o el.genesis["besu"],
                     jwt     |-> mountpoint \o el.jwt],
         opens  |-> {8545, 8546, 8550}]

ElConfig(type, el, prefunded) ==
    CASE type = "geth"       -> GethConfig(el, prefunded)
      [] type = "erigon"     -> ErigonConfig(el)
      [] type = "nethermind" -> NethermindConfig(el)
      [] type = "besu"       -> BesuConfig(el)

\* Faulty: the port that Besu declares for the engine's web socket.
UsualEnginePort(type) == 8551

\* The ports in the EL client's context.
RpcPort(type)    == 8545
EnginePort(type) == IF type = "besu" THEN 8550 ELSE 8551

----------------------------------------------------------------------------
(* CL clients.  cl is the CL genesis data: an artifact and the paths in it *)
(* of the JWT secret, the configuration and the genesis state.  keys are   *)
(* one node's keystores: an artifact and the paths of its directories.     *)

LighthouseBeacon(cl) ==
    [mounts |-> {Mount(cl.artifact, <<"genesis">>)},
     reads  |-> [testnet |-> <<"genesis">> \o Dir(cl.config),
                 jwt     |-> <<"genesis">> \o cl.jwt],
     opens  |-> {4000, 5054}]

LighthouseValidator(cl, keys) ==
    [mounts |-> {Mount(cl.artifact, <<"genesis">>), Mount(keys.artifact, <<"validator-keys">>)},
     reads  |-> [testnet |-> <<"genesis">> \o Dir(cl.config),
                 keys    |-> <<"validator-keys">> \o keys.rawKeys,
                 secrets |-> <<"validator-keys">> \o keys.rawSecrets],
     opens  |-> {5042, 5064}]

LodestarBeacon(cl) ==
    [mounts |-> {Mount(cl.artifact, <<"genesis">>)},
     reads  |-> [config |-> <<"genesis">> \o cl.config,
                 state  |-> <<"genesis">> \o cl.ssz,
                 jwt    |-> <<"genesis">> \o cl.jwt],
     opens  |-> {4000, 8008}]

LodestarValidator(cl, keys) ==
    [mounts |-> {Mount(cl.artifact, <<"genesis">>), Mount(keys.artifact, <<"validator-keys">>)},
     reads  |-> [config  |-> <<"genesis">> \o cl.config,
                 keys    |-> <<"validator-keys">> \o keys.rawKeys,
                 secrets |-> <<"validator-keys">> \o keys.rawSecrets],
     opens  |-> {5064}]

PrysmBeacon(cl) ==
    [mounts |-> {Mount(cl.artifact, <<"genesis">>)},
     reads  |-> [config |-> <<"genesis">> \o cl.config,
                 state  |-> <<"genesis">> \o cl.ssz,
                 jwt    |-> <<"genesis">> \o cl.jwt],
     opens  |-> {4000, 3500, 8080}]

PrysmValidator(cl, keys, password) ==
    [mounts |-> {Mount(cl.artifact, <<"genesis">>), Mount(keys.artifact, <<"validator-keys">>),
                 Mount(password.artifact, <<"prysm-password">>)},
     reads  |-> [wallet   |-> <<"validator-keys">> \o keys.prysm,
                 password |-> <<"prysm-password">> \o password.path],
     opens  |-> {8081}]

\* Teku and Nimbus copy their keys to where their own user may read them.
TekuNode(cl, keys) ==
    [mounts |-> {Mount(cl.artifact, <<"genesis">>), Mount(keys.artifact, <<"validator-keys">>)},
     reads  |-> [config  |-> <<"genesis">> \o cl.config,
                 state   |-> <<"genesis">> \o cl.ssz,
                 jwt     |-> <<"genesis">> \o cl.jwt,
                 keys    |-> <<"validator-keys">> \o keys.tekuKeys,
                 secrets |-> <<"validator-keys">> \o keys.tekuSecrets],
     opens  |-> {4000, 8008}]

NimbusNode(cl, keys) ==
    [mounts |-> {Mount(cl.artifact, <<"genesis-data">>),
                 Mount(keys.artifact, <<"validator-keys">>)},
     reads  |-> [testnet |-> <<"genesis-data">> \o Dir(cl.config),
                 jwt     |-> <<"genesis-data">> \o cl.jwt,
                 keys    |-> <<"validator-keys">> \o keys.nimbusKeys,
                 secrets |-> <<"validator-keys">> \o keys.rawSecrets],
     opens  |-> {4000, 8008}]

BeaconConfig(type, cl, keys) ==
    CASE type = "lighthouse" -> LighthouseBeacon(cl)
      [] type = "lodestar"   -> LodestarBeacon(cl)
      [] type = "prysm"      -> PrysmBeacon(cl)
      [] type = "teku"       -> TekuNode(cl, keys)
      [] type = "nimbus"     -> NimbusNode(cl, keys)

ValidatorConfig(type, cl, keys, password) ==
    CASE type = "lighthouse" -> LighthouseValidator(cl, keys)
      [] type = "lodestar"   -> LodestarValidator(cl, keys)
      [] type = "prysm"      -> PrysmValidator(cl, keys, password)

----------------------------------------------------------------------------
(* The addresses in the configurations.                                    *)

\* The HTTP port in a CL client's context, which its health is polled on.
HttpPort(type) == IF type = "prysm" THEN 3500 ELSE 4000

MevBoostPort == 18550

EngineAddress(elType, n) == Address("el", n, EnginePort(elType))

\* The beacon node of node n names its EL client's engine, Lodestar and Teku
\* its RPC port as well, and the sidecar if there is one it makes use of.
BeaconAsks(n, node) ==
    {EngineAddress(node.el, n)}
    \cup (IF node.cl \in {"lodestar", "teku"} THEN {Address("el", n, RpcPort(node.el))} ELSE {})
    \cup (IF node.mevBoost /\ node.cl \in Boosted
          THEN {Address("mevBoost", n, MevBoostPort)} ELSE {})

\* Prysm's validator speaks to two ports of its beacon node.
ValidatorAsks(n, node) ==
    {Address("beacon", n, HttpPort(node.cl))}
    \cup (IF node.cl = "prysm" THEN {Address("beacon", n, 4000)} ELSE {})

\* The metrics in a CL client's context.
BeaconMetricsPort(type)    == CASE type = "lighthouse" -> 5054
                                [] type = "prysm"      -> 8080
                                [] type \notin {"lighthouse", "prysm"} -> 8008
ValidatorMetricsPort(type) == IF type = "lighthouse" THEN 5064 ELSE 8081

Metrics(n, node) ==
    {Address("beacon", n, BeaconMetricsPort(node.cl))}
    \cup (IF node.cl \in ValidatorMetrics
          THEN {Address("validator", n, ValidatorMetricsPort(node.cl))} ELSE {})
----------------------------------------------------------------------------
(* The sidecar and the additional services.                                *)

NoFlags == [flag \in {} |-> <<>>]

\* The transaction spammer and the verifier have neither files nor ports.
BareConfig    == [mounts |-> {}, reads |-> NoFlags, opens |-> {}]
SidecarConfig == [BareConfig EXCEPT !.opens = {MevBoostPort}]

ForkmonConfig(artifact) ==
    [mounts |-> {Mount(artifact, <<"config">>)},
     reads  |-> [config |-> <<"config", "forkmon-config.toml">>],
     opens  |-> {80}]

PrometheusConfig(artifact) ==
    [mounts |-> {Mount(artifact, <<"config">>)},
     reads  |-> [config |-> <<"config", "prometheus-config.yml">>],
     opens  |-> {9090}]

\* The file of the dashboards is named in the providers' configuration.
GrafanaConfig(artifact, dashboards) ==
    [mounts |-> {Mount(artifact, <<"config">>), Mount(dashboards, <<"dashboards">>)},
     reads  |-> [datasource |-> <<"config", "datasources">>,
                 providers  |-> <<"config", "dashboards">>,
                 dashboards |-> <<"dashboards", "dashboard.json">>],
     opens  |-> {3000}]

EveryRpc(net)  == {Address("el", n, RpcPort(net[n].el)) : n \in DOMAIN net}
EveryHttp(net) == {Address("beacon", n, HttpPort(net[n].cl)) : n \in DOMAIN net}

\* What each additional service is told of the network.
ToolAsks(tool, net) ==
    CASE tool = "spammer"    -> {Address("el", 1, RpcPort(net[1].el))}
      [] tool = "forkmon"    -> EveryHttp(net)
      [] tool = "prometheus" -> UNION {Metrics(n, net[n]) : n \in DOMAIN net}
      [] tool = "grafana"    -> {Address("prometheus", 0, 9090)}
      [] tool = "verifier"   -> EveryRpc(net) \cup EveryHttp(net)
=============================================================================
