---------------------------- MODULE NetworkFiles ----------------------------
(***************************************************************************)
(* The files of one network on their way from the data generators, through *)
(* the enclave's files artifacts, into the clients' containers, step by    *)
(* step as LaunchParticipantNetwork and Execute move them.  Three          *)
(* generators write them, one after another, each in a container of its    *)
(* own; what is not stored as an artifact is lost with the container.  Any *)
(* command and any call may fail.                                          *)
(***************************************************************************)
EXTENDS ContainerConfigs

CONSTANTS
    Networks,           \* the lists of participants to be launched
    DepositContracts,   \* values of depositContractAddress: not blank
    NodeDirname         \* "node-%v-keystores" for each index: all different

\* Only participants that the validation accepts are launched.
ASSUME FilesAssumption ==
    /\ \A net \in Networks :
          /\ net \in Seq([el : ELTypes, cl : CLTypes, mevBoost : BOOLEAN]) /\ net # <<>>
          /\ Len(net) <= Len(NodeDirname)
    /\ DepositContracts \subseteq STRING
    /\ NodeDirname \in Seq(STRING) /\ IsInjective(NodeDirname)

VARIABLES
    network,    \* allParticipantSpecs
    deposit,    \* depositContractAddress
    stage,      \* what is being done
    todo,       \* what the present loop over a map has still to do
    disk,       \* the files of the generator in hand
    artifacts,  \* the enclave's files artifacts, in the order they were stored
    keystores,  \* PerNodeKeystores
    password,   \* the Prysm password's artifact and path
    el,         \* the ELGenesisData
    prefunded,  \* the artifact of the keys of Geth's accounts
    cl,         \* the CLGenesisData
    containers  \* the containers of the network

results == <<keystores, password, el, prefunded, cl>>
vars == <<network, deposit, stage, todo, disk, artifacts, results, containers>>

N == Len(network)

(***************************************************************************)
(* Files.  A content is known by where it comes from: what made it, for    *)
(* which node, and of which other contents; a text that is written as it   *)
(* stands, by itself.  A set of files is that of a disk or of an artifact. *)
(***************************************************************************)
Made(tool, node, of) == [tool |-> tool, node |-> node, of |-> of]
Text(text)           == [tool |-> "echo", node |-> 0, of |-> {}, text |-> text]

File(path, content) == [path |-> path, content |-> content]

Under(files, path)  == {f \in files : IsPrefix(path, f.path)}
Has(files, path)    == Under(files, path) # {}
Read(files, path)   == {f.content : f \in Under(files, path)}

Write(files, path, content) ==
    {f \in files : f.path # path} \cup {File(path, content)}

\* What a path leads to when it is taken from its directory to another.
Moved(f, from, to) == File(to \o SubSeq(f.path, Len(from) + 1, Len(f.path)), f.content)

\* cp to a directory, which keeps the file's name.
CopyOf(files, path, dir) == {Moved(f, path, dir \o Base(path)) : f \in Under(files, path)}

\* Faulty: the artifact is taken to hold what is in the directory.
StoredFlat(files, path) == {Moved(f, path, <<>>) : f \in Under(files, path)}

\* StoreServiceFiles: the artifact holds the directory itself.
Stored(files, path) == {Moved(f, path, Base(path)) : f \in Under(files, path)}

\* What a container sees of the artifacts that are mounted in it.
Mounted(store, mounts) ==
    UNION {{Moved(f, <<>>, m.at) : f \in store[m.artifact]} : m \in mounts}

NoArtifact  == [artifact |-> 0]
NewArtifact == Len(artifacts) + 1

Init ==
    /\ network \in Networks /\ deposit \in DepositContracts
    /\ stage = "keystores" /\ todo = {} /\ disk = {}
    /\ artifacts = <<>> /\ keystores = <<>> /\ containers = {}
    /\ password = NoArtifact /\ el = NoArtifact /\ prefunded = NoArtifact /\ cl = NoArtifact

----------------------------------------------------------------------------
(* The validator keystores.                                                *)

\* eth2-val-tools writes each client's format into directories of its own.
KeystoreDirs == {"keys", "secrets", "nimbus-keys", "prysm", "teku-keys", "teku-secrets"}

NodeDir(n) == <<NodeDirname[n]>>

\* Faulty: one output directory for all the nodes.
GenerateKeystoresInPlace ==
    /\ stage = "keystores"
    /\ disk' = {File(NodeDir(n) \o <<dir>>, Made(dir, 1, {})) :
                    n \in 1..N, dir \in KeystoreDirs}
    /\ stage' = "storeKeys"
    /\ UNCHANGED <<network, deposit, todo, artifacts, results, containers>>

\* One command for all the nodes, in a generator that mounts nothing.
GenerateKeystores ==
    /\ stage = "keystores"
    /\ disk' = {File(NodeDir(n) \o <<dir>>, Made(dir, n, {})) :
                    n \in 1..N, dir \in KeystoreDirs}
    /\ stage' = "storeKeys"
    /\ UNCHANGED <<network, deposit, todo, artifacts, results, containers>>

\* Faulty: the loop goes on for one node too many.
StoreKeysAndOneMore ==
    /\ stage = "storeKeys"
    /\ LET n    == Len(keystores) + 1
           base == Base(NodeDir(n))
       IN  /\ artifacts' = Append(artifacts, Stored(disk, NodeDir(n)))
           /\ keystores' = Append(keystores,
                 [artifact    |-> NewArtifact,
                  rawKeys     |-> base \o <<"keys">>,
                  rawSecrets  |-> base \o <<"secrets">>,
                  nimbusKeys  |-> base \o <<"nimbus-keys">>,
                  prysm       |-> base \o <<"prysm">>,
                  tekuKeys    |-> base \o <<"teku-keys">>,
                  tekuSecrets |-> base \o <<"teku-secrets">>])
           /\ stage' = IF n > N THEN "password" ELSE "storeKeys"
    /\ UNCHANGED <<network, deposit, todo, disk, password, el, prefunded, cl, containers>>

StoreKeys ==
    /\ stage = "storeKeys"
    /\ LET n    == Len(keystores) + 1
           base == Base(NodeDir(n))
       IN  /\ artifacts' = Append(artifacts, Stored(disk, NodeDir(n)))
           /\ keystores' = Append(keystores,
                 [artifact    |-> NewArtifact,
                  rawKeys     |-> base \o <<"keys">>,
                  rawSecrets  |-> base \o <<"secrets">>,
                  nimbusKeys  |-> base \o <<"nimbus-keys">>,
                  prysm       |-> base \o <<"prysm">>,
                  tekuKeys    |-> base \o <<"teku-keys">>,
                  tekuSecrets |-> base \o <<"teku-secrets">>])
           /\ stage' = IF n = N THEN "password" ELSE "storeKeys"
    /\ UNCHANGED <<network, deposit, todo, disk, password, el, prefunded, cl, containers>>

PasswordPath == <<"tmp", "prysm-password.txt">>

WritePassword ==
    /\ stage = "password"
    /\ disk' = Write(disk, PasswordPath, Made("password", 0, {}))
    /\ stage' = "storePassword"
    /\ UNCHANGED <<network, deposit, todo, artifacts, results, containers>>

\* The generator is removed on return.
StorePassword ==
    /\ stage = "storePassword"
    /\ artifacts' = Append(artifacts, Stored(disk, PasswordPath))
    /\ password' = [artifact |-> NewArtifact, path |-> Base(PasswordPath)]
    /\ stage' = "elConfig" /\ disk' = {}
    /\ UNCHANGED <<network, deposit, todo, keystores, el, prefunded, cl, containers>>

----------------------------------------------------------------------------
(* The EL genesis data.                                                    *)

ConfigDir == <<"config">>
OutputDir == <<"output">>

ElConfigPath == ConfigDir \o <<"genesis-config.yaml">>

\* Erigon's genesis is made by Geth's script.
GenesisScript   == [geth |-> "genesis_geth.py", erigon |-> "genesis_geth.py",
                    nethermind |-> "genesis_chainspec.py", besu |-> "genesis_besu.py"]
GenesisFilename == [geth |-> "genesis.json", erigon |-> "erigon.json",
                    nethermind |-> "nethermind.json", besu |-> "besu.json"]
JwtFilename     == "jwtsecret"

\* The template is rendered into an artifact, which the generator mounts.
LaunchElGenerator ==
    /\ stage = "elConfig"
    /\ artifacts' = Append(artifacts, {File(<<"genesis-config.yaml">>, Made("elConfig", 0, {}))})
    /\ disk' = Mounted(artifacts', {Mount(NewArtifact, ConfigDir)})
    /\ stage' = "elGenesis" /\ todo' = ELTypes
    /\ UNCHANGED <<network, deposit, results, containers>>

\* The commands are in a map, which Go goes through in any order.
GenerateElGenesis ==
    /\ stage = "elGenesis" /\ Has(disk, ElConfigPath)
    /\ \E type \in todo :
          /\ disk' = Write(disk, OutputDir \o <<GenesisFilename[type]>>,
                           Made(GenesisScript[type], 0, Read(disk, ElConfigPath)))
          /\ todo' = todo \ {type}
          /\ stage' = IF todo' = {} THEN "jwt" ELSE "elGenesis"
    /\ UNCHANGED <<network, deposit, artifacts, results, containers>>

\* Faulty: the secret is left outside the directory that is stored.
GenerateJwtOutside ==
    /\ stage = "jwt"
    /\ disk' = Write(disk, <<JwtFilename>>, Made("elSecret", 0, {}))
    /\ stage' = "storeEl"
    /\ UNCHANGED <<network, deposit, todo, artifacts, results, containers>>

GenerateJwt ==
    /\ stage = "jwt"
    /\ disk' = Write(disk, OutputDir \o <<JwtFilename>>, Made("elSecret", 0, {}))
    /\ stage' = "storeEl"
    /\ UNCHANGED <<network, deposit, todo, artifacts, results, containers>>

StoreEl ==
    /\ stage = "storeEl"
    /\ artifacts' = Append(artifacts, Stored(disk, OutputDir))
    /\ el' = [artifact |-> NewArtifact,
              jwt      |-> Base(OutputDir) \o <<JwtFilename>>,
              genesis  |-> [type \in ELTypes |-> Base(OutputDir) \o <<GenesisFilename[type]>>]]
    /\ stage' = "upload" /\ disk' = {}
    /\ UNCHANGED <<network, deposit, todo, keystores, password, prefunded, cl, containers>>

UploadPrefundedKeys ==
    /\ stage = "upload"
    /\ artifacts' = Append(artifacts, {File(<<"account">>, Made("accounts", 0, {}))})
    /\ prefunded' = [artifact |-> NewArtifact]
    /\ stage' = "el"
    /\ UNCHANGED <<network, deposit, todo, disk, keystores, password, el, cl, containers>>

----------------------------------------------------------------------------
(* The EL clients.                                                         *)

Container(kind, n, config, asks) ==
    [kind |-> kind, node |-> n, config |-> config, asks |-> asks]

Launched(kind)   == {c \in containers : c.kind = kind}
Count(kind)      == Cardinality(Launched(kind))
NodeInHand(kind) == Count(kind) + 1

LaunchEl ==
    /\ stage = "el"
    /\ LET n == NodeInHand("el")
       IN  /\ containers' = containers \cup
                 {Container("el", n, ElConfig(network[n].el, el, prefunded.artifact), {})}
           /\ stage' = IF n = N THEN "clConfig" ELSE "el"
    /\ UNCHANGED <<network, deposit, todo, disk, artifacts, results>>

----------------------------------------------------------------------------
(* The CL genesis data.                                                    *)

ElGenesisDir  == <<"el-genesis">>
ClConfigPath  == ConfigDir \o <<"config.yaml">>
MnemonicsPath == ConfigDir \o <<"mnemonics.yaml">>

LaunchClGenerator ==
    /\ stage = "clConfig"
    /\ artifacts' = Append(artifacts,
                           {File(<<"config.yaml">>, Made("clConfig", 0, {})),
                            File(<<"mnemonics.yaml">>, Made("mnemonics", 0, {}))})
    /\ disk' = Mounted(artifacts', {Mount(NewArtifact, ConfigDir),
                                    Mount(el.artifact, ElGenesisDir)})
    /\ stage' = "copy"
    /\ UNCHANGED <<network, deposit, todo, results, containers>>

\* Faulty: the number of the block is the later entry.
DynamicFilesReordered == [content \in {"0", deposit} |->
                    IF content = "0" THEN "deploy_block.txt" ELSE "deposit_contract.txt"]

\* What the CL generator writes, and in which file: a map keyed by content, of
\* which the deposit contract's entry is the later one.
DynamicFiles == [content \in {"0", deposit} |->
                    IF content = deposit THEN "deposit_contract.txt" ELSE "deploy_block.txt"]

CopiedPaths == {ClConfigPath, MnemonicsPath, ElGenesisDir \o el.jwt}

\* Faulty: the CL genesis data gets a secret of its own.
CopyAndGenerateJwt ==
    /\ stage = "copy" /\ \A path \in CopiedPaths : Has(disk, path)
    /\ disk' = disk \cup {Moved(f, ConfigDir, OutputDir) : f \in Under(disk, ConfigDir)}
                    \cup {File(OutputDir \o <<JwtFilename>>, Made("clSecret", 0, {}))}
    /\ stage' = "dynamic" /\ todo' = DOMAIN DynamicFiles
    /\ UNCHANGED <<network, deposit, artifacts, results, containers>>

CopyToOutput ==
    /\ stage = "copy" /\ \A path \in CopiedPaths : Has(disk, path)
    /\ disk' = disk \cup UNION {CopyOf(disk, path, OutputDir) : path \in CopiedPaths}
    /\ stage' = "dynamic" /\ todo' = DOMAIN DynamicFiles
    /\ UNCHANGED <<network, deposit, artifacts, results, containers>>

WriteDynamicFile ==
    /\ stage = "dynamic"
    /\ \E content \in todo :
          /\ disk' = Write(disk, OutputDir \o <<DynamicFiles[content]>>, Text(content))
          /\ todo' = todo \ {content}
          /\ stage' = IF todo' = {} THEN "clGenesis" ELSE "dynamic"
    /\ UNCHANGED <<network, deposit, artifacts, results, containers>>

\* Faulty: the state is made of Besu's genesis.
StateInputsOfBesu == {OutputDir \o <<"config.yaml">>, OutputDir \o <<"mnemonics.yaml">>,
                      ElGenesisDir \o el.genesis["besu"]}

StateInputs == {OutputDir \o <<"config.yaml">>, OutputDir \o <<"mnemonics.yaml">>,
                ElGenesisDir \o el.genesis["geth"]}

GenerateClGenesis ==
    /\ stage = "clGenesis" /\ \A path \in StateInputs : Has(disk, path)
    /\ disk' = Write(disk, OutputDir \o <<"genesis.ssz">>,
                     Made("eth2-testnet-genesis", 0,
                          UNION {Read(disk, path) : path \in StateInputs}))
    /\ stage' = "storeCl"
    /\ UNCHANGED <<network, deposit, todo, artifacts, results, containers>>

StoreCl ==
    /\ stage = "storeCl"
    /\ artifacts' = Append(artifacts, Stored(disk, OutputDir))
    /\ cl' = [artifact |-> NewArtifact,
              jwt      |-> Base(OutputDir) \o Base(el.jwt),
              config   |-> Base(OutputDir) \o <<"config.yaml">>,
              ssz      |-> Base(OutputDir) \o <<"genesis.ssz">>]
    /\ stage' = "beacon" /\ disk' = {}
    /\ UNCHANGED <<network, deposit, todo, keystores, password, el, prefunded, containers>>

----------------------------------------------------------------------------
(* The CL nodes, each with a sidecar if the participant has builder        *)
(* parameters, and a validator's container if the client's is separate.    *)

LaunchSidecar ==
    LET n == NodeInHand("beacon") IN
    /\ stage = "beacon" /\ network[n].mevBoost
    /\ \A c \in Launched("mevBoost") : c.node # n
    /\ containers' = containers \cup {Container("mevBoost", n, SidecarConfig, {})}
    /\ UNCHANGED <<network, deposit, stage, todo, disk, artifacts, results>>

\* Faulty: the last node is forgotten.
AfterNodeButOne(n) == IF n + 1 < N THEN {"beacon"} ELSE {"spammer", "done"}

\* Execute goes on to the additional services, if they are wanted.
AfterNode(n) == IF n < N THEN {"beacon"} ELSE {"spammer", "done"}

LaunchBeacon ==
    LET n    == NodeInHand("beacon")
        node == network[n]
    IN
    /\ stage = "beacon"
    /\ node.mevBoost => \E c \in Launched("mevBoost") : c.node = n
    /\ containers' = containers \cup
          {Container("beacon", n, BeaconConfig(node.cl, cl, keystores[n]), BeaconAsks(n, node))}
    /\ stage' \in IF node.cl \in Split THEN {"validator"} ELSE AfterNode(n)
    /\ UNCHANGED <<network, deposit, todo, disk, artifacts, results>>

LaunchValidator ==
    LET n    == Count("beacon")
        node == network[n]
    IN
    /\ stage = "validator"
    /\ containers' = containers \cup
          {Container("validator", n, ValidatorConfig(node.cl, cl, keystores[n], password),
                     ValidatorAsks(n, node))}
    /\ stage' \in AfterNode(n)
    /\ UNCHANGED <<network, deposit, todo, disk, artifacts, results>>

----------------------------------------------------------------------------
(* The additional services.  Their configurations are rendered from        *)
(* templates, and Grafana's dashboards uploaded, as artifacts.             *)

NextTool == [spammer |-> "forkmon", forkmon |-> "prometheus", prometheus |-> "grafana",
             grafana |-> "verifier", verifier |-> "done"]

ToolArtifacts(tool) ==
    CASE tool = "forkmon"    -> << {File(<<"forkmon-config.toml">>, Made(tool, 0, {}))} >>
      [] tool = "prometheus" -> << {File(<<"prometheus-config.yml">>, Made(tool, 0, {}))} >>
      [] tool = "grafana"    ->
            << {File(<<"datasources", "datasource.yml">>, Made("datasource", 0, {})),
                File(<<"dashboards", "dashboard-providers.yml">>, Made("providers", 0, {}))},
               {File(<<"dashboard.json">>, Made("dashboards", 0, {}))} >>
      [] tool \in {"spammer", "verifier"} -> <<>>

\* artifact is the first of the tool's own.
ToolConfig(tool, artifact) ==
    CASE tool = "forkmon"    -> ForkmonConfig(artifact)
      [] tool = "prometheus" -> PrometheusConfig(artifact)
      [] tool = "grafana"    -> GrafanaConfig(artifact, artifact + 1)
      [] tool \in {"spammer", "verifier"} -> BareConfig

LaunchTool ==
    /\ stage \in DOMAIN NextTool
    /\ artifacts' = artifacts \o ToolArtifacts(stage)
    /\ containers' = containers \cup
          {Container(stage, 0, ToolConfig(stage, NewArtifact), ToolAsks(stage, network))}
    /\ stage' = NextTool[stage]
    /\ UNCHANGED <<network, deposit, todo, disk, results>>

\* An error of a command, a call, or a wait: the generator in hand is removed.
Fail ==
    /\ stage \notin {"done", "failed"}
    /\ stage' = "failed" /\ disk' = {}
    /\ UNCHANGED <<network, deposit, todo, artifacts, results, containers>>

Next ==
    \/ GenerateKeystores \/ StoreKeys \/ WritePassword \/ StorePassword
    \/ LaunchElGenerator \/ GenerateElGenesis \/ GenerateJwt \/ StoreEl
    \/ UploadPrefundedKeys \/ LaunchEl
    \/ LaunchClGenerator \/ CopyToOutput \/ WriteDynamicFile
    \/ GenerateClGenesis \/ StoreCl
    \/ LaunchSidecar \/ LaunchBeacon \/ LaunchValidator
    \/ LaunchTool \/ Fail

Spec == Init /\ [][Next]_vars
----------------------------------------------------------------------------
(* Properties.                                                             *)

View(c)         == Mounted(artifacts, c.config.mounts)
ReadBy(c, flag) == Read(View(c), c.config.reads[flag])
Reads(c)        == UNION {ReadBy(c, flag) : flag \in DOMAIN c.config.reads}
Of(tool, contents) == {x \in contents : x.tool = tool}

\* The names in the paths of the generators' files.
Names ==
    {NodeDirname[n] : n \in DOMAIN NodeDirname} \cup KeystoreDirs
    \cup {"tmp", "prysm-password.txt", "config", "output", "el-genesis"}
    \cup {"genesis-config.yaml", "genesis.json", "erigon.json", "nethermind.json",
          "besu.json", "jwtsecret", "config.yaml", "mnemonics.yaml", "deposit_contract.txt",
          "deploy_block.txt", "genesis.ssz"}

\* The kinds of the variables, and that artifacts are known by their numbers.
FilesTypeOK ==
    /\ network \in Networks /\ deposit \in DepositContracts
    /\ \A c \in containers : /\ c.kind \in Kinds /\ c.node \in 0..N
                             /\ \A m \in c.config.mounts : m.artifact \in DOMAIN artifacts
    /\ Len(keystores) <= N
    /\ \A f \in disk : f.path \in Seq(Names) /\ f.content.node \in 0..N

\* Every path in a container's flags leads to something in that container: the
\* path within the artifact, which one part of the code computes, and the place
\* where another mounts it, fit together.
FilesThere ==
    \A c \in containers : \A flag \in DOMAIN c.config.reads :
        Has(View(c), c.config.reads[flag])

\* No command of a generator lacks a file it is told to read, among them those
\* that another generator made.
GeneratorInputs ==
    /\ stage = "elGenesis" => Has(disk, ElConfigPath)
    /\ stage = "copy" => \A path \in CopiedPaths : Has(disk, path)
    /\ stage = "clGenesis" => \A path \in StateInputs : Has(disk, path)

\* A beacon node reads the very secret that the EL client it is paired with
\* reads, through another artifact: the engine API refuses any other.
OneSecret ==
    \A c, d \in containers : c.kind = "el" /\ d.kind = "beacon" /\ c.node = d.node =>
        Cardinality(Reads(c) \cap ReadBy(d, "jwt")) = 1 /\ ReadBy(c, "jwt") = ReadBy(d, "jwt")

\* The two layers start from one genesis.  An EL client reads it in its own
\* format; the state that every CL client reads was made of Geth's, from the
\* same parameters, and of the configuration which that CL client reads.
OneGenesis ==
    \A c, d \in containers : c.kind = "el" /\ d.kind = "beacon" =>
        \E state \in Of("eth2-testnet-genesis", Reads(d)) :
            /\ Of("eth2-testnet-genesis", Reads(d)) = {state}
            /\ Of("clConfig", Reads(d)) \subseteq state.of
            /\ \E genesis \in Of("genesis_geth.py", state.of) :
                  ReadBy(c, "genesis") =
                     {Made(GenesisScript[network[c.node].el], 0, genesis.of)}

\* A container that runs validators reads the keys and the secrets of its own
\* node, in its client's format, and of no other node.
KeyFormat(type) == CASE type = "nimbus" -> {"nimbus-keys", "secrets"}
                     [] type = "teku"   -> {"teku-keys", "teku-secrets"}
                     [] type = "prysm"  -> {"prysm"}
                     [] type \in {"lighthouse", "lodestar"} -> {"keys", "secrets"}

RunsValidators(c) ==
    c.kind = IF network[c.node].cl \in Split THEN "validator" ELSE "beacon"

OwnKeys ==
    \A c \in containers : c.kind \in {"beacon", "validator"} =>
        {x \in Reads(c) : x.tool \in KeystoreDirs} =
            IF RunsValidators(c)
            THEN {Made(format, c.node, {}) : format \in KeyFormat(network[c.node].cl)}
            ELSE {}

\* The directory that Lighthouse and Nimbus are given as the testnet's holds the
\* configuration, the state, the deposit contract's address and, unless that
\* address is written as the block's number is, the contract's first block.
TestnetComplete ==
    \A c \in containers : "testnet" \in DOMAIN c.config.reads =>
        LET Named(name) == Read(View(c), c.config.reads.testnet \o <<name>>)
        IN  /\ Of("clConfig", Named("config.yaml")) # {}
            /\ Of("eth2-testnet-genesis", Named("genesis.ssz")) # {}
            /\ Named("deposit_contract.txt") = {Text(deposit)}
            /\ Named("deploy_block.txt") = IF deposit = "0" THEN {} ELSE {Text("0")}

\* An address in a configuration is of a container of the network, and of a port
\* which that container opens.
AddressesOpen ==
    \A c \in containers : \A a \in c.asks :
        \E d \in containers : d.kind = a.kind /\ d.node = a.node /\ a.port \in d.config.opens
=============================================================================
