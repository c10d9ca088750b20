-------------------------- MODULE NetworkFilesInv --------------------------
(***************************************************************************)
(* The inductive invariants of NetworkFiles: who has been launched and     *)
(* with which ports, and what every artifact and every configuration       *)
(* holds.                                                                  *)
(***************************************************************************)
EXTENDS NetworkFiles

----------------------------------------------------------------------------
(* The inductive invariant behind AddressesOpen.                           *)

\* The ports by which others may address a client's containers.
ElPorts(type)        == {RpcPort(type), EnginePort(type)}
BeaconPorts(type)    == {4000, HttpPort(type), BeaconMetricsPort(type)}
ValidatorPorts(type) == {ValidatorMetricsPort(x) : x \in {type} \cap ValidatorMetrics}

Provides(kind, n, ports) ==
    \E d \in containers : d.kind = kind /\ d.node = n /\ ports \subseteq d.config.opens

\* The clients of a layer are those of the first nodes, one of each.
NumbersInv ==
    /\ IsFiniteSet(containers)
    /\ \A kind \in {"el", "beacon"} :
          /\ Count(kind) <= N
          /\ \A c \in Launched(kind) : c.node \in 1..Count(kind)

PortsInv ==
    /\ \A n \in 1..Count("el") : Provides("el", n, ElPorts(network[n].el))
    /\ \A n \in 1..Count("beacon") : Provides("beacon", n, BeaconPorts(network[n].cl))
    /\ \A c \in Launched("mevBoost") : MevBoostPort \in c.config.opens

BeforeEl == {"keystores", "storeKeys", "password", "storePassword",
             "elConfig", "elGenesis", "jwt", "storeEl", "upload"}
BeforeCl == {"clConfig", "copy", "dynamic", "clGenesis", "storeCl"}

\* The nodes whose validators have been launched, if in containers of their own.
Validating == IF stage = "validator" THEN 1..(Count("beacon") - 1) ELSE 1..Count("beacon")

\* What has been launched by the time of each stage.
StageInv ==
    /\ stage \in BeforeEl => containers = {}
    /\ stage = "el" => Count("el") < N
    /\ stage \in BeforeEl \cup {"el"} \cup BeforeCl => Launched("beacon") = {}
    /\ stage \in BeforeCl \cup {"beacon", "validator"} \cup DOMAIN NextTool => Count("el") = N
    /\ stage = "beacon" => Count("beacon") < N
    /\ stage = "validator" => Count("beacon") > 0
    /\ stage \in DOMAIN NextTool => Count("beacon") = N
    /\ stage \notin {"failed", "done"} => \A n \in Validating :
          network[n].cl \in Split => Provides("validator", n, ValidatorPorts(network[n].cl))
    /\ stage = "grafana" => Provides("prometheus", 0, {9090})

NetworkInv == network \in Networks /\ NumbersInv /\ PortsInv /\ StageInv /\ AddressesOpen

----------------------------------------------------------------------------
(* What the artifacts hold.                                                *)

ElConfigMade        == Made("elConfig", 0, {})
ElGenesisMade(type) == Made(GenesisScript[type], 0, {ElConfigMade})
ElSecret            == Made("elSecret", 0, {})
Accounts            == Made("accounts", 0, {})
ClConfigMade        == Made("clConfig", 0, {})
MnemonicsMade       == Made("mnemonics", 0, {})
ClState             == Made("eth2-testnet-genesis", 0,
                            {ClConfigMade, MnemonicsMade, ElGenesisMade("geth")})

ElGenesisFile(type)  == File(<<"output", GenesisFilename[type]>>, ElGenesisMade(type))
JwtFile              == File(<<"output", JwtFilename>>, ElSecret)
DynamicFile(content) == File(<<"output", DynamicFiles[content]>>, Text(content))
CopiedFiles          == {File(<<"output", "config.yaml">>, ClConfigMade),
                         File(<<"output", "mnemonics.yaml">>, MnemonicsMade), JwtFile}
StateFile            == File(<<"output", "genesis.ssz">>, ClState)

KeysFiles(n)   == {File(<<NodeDirname[n], dir>>, Made(dir, n, {})) : dir \in KeystoreDirs}
PasswordFiles  == {File(<<"prysm-password.txt">>, Made("password", 0, {}))}
ElConfigFiles  == {File(<<"genesis-config.yaml">>, ElConfigMade)}
ElFiles        == {ElGenesisFile(type) : type \in ELTypes} \cup {JwtFile}
AccountsFiles  == {File(<<"account">>, Accounts)}
ClConfigFiles  == {File(<<"config.yaml">>, ClConfigMade),
                   File(<<"mnemonics.yaml">>, MnemonicsMade)}
ClFiles        == CopiedFiles \cup {DynamicFile(content) : content \in {"0", deposit}}
                              \cup {StateFile}

ToolFiles(tool) == {ToolArtifacts(tool)[i] : i \in DOMAIN ToolArtifacts(tool)}

Contents ==
    {KeysFiles(n) : n \in 1..N}
    \cup {PasswordFiles, ElConfigFiles, ElFiles, AccountsFiles, ClConfigFiles, ClFiles}
    \cup UNION {ToolFiles(tool) : tool \in {"forkmon", "prometheus", "grafana"}}

----------------------------------------------------------------------------
(* What the results say of them, k being the artifact's number.            *)

KeysRecord(n, k) ==
    [artifact    |-> k,
     rawKeys     |-> <<NodeDirname[n], "keys">>,
     rawSecrets  |-> <<NodeDirname[n], "secrets">>,
     nimbusKeys  |-> <<NodeDirname[n], "nimbus-keys">>,
     prysm       |-> <<NodeDirname[n], "prysm">>,
     tekuKeys    |-> <<NodeDirname[n], "teku-keys">>,
     tekuSecrets |-> <<NodeDirname[n], "teku-secrets">>]

PasswordRecord(k) == [artifact |-> k, path |-> <<"prysm-password.txt">>]

ElRecord(k) ==
    [artifact |-> k, jwt |-> <<"output", JwtFilename>>,
     genesis  |-> [type \in ELTypes |-> <<"output", GenesisFilename[type]>>]]

ClRecord(k) ==
    [artifact |-> k, jwt |-> <<"output", JwtFilename>>,
     config   |-> <<"output", "config.yaml">>, ssz |-> <<"output", "genesis.ssz">>]

Holds(k, files) == k \in DOMAIN artifacts /\ artifacts[k] = files

KeysStored(n) == \E k \in DOMAIN artifacts :
    keystores[n] = KeysRecord(n, k) /\ Holds(k, KeysFiles(n))
PasswordStored == \E k \in DOMAIN artifacts :
    password = PasswordRecord(k) /\ Holds(k, PasswordFiles)
ElStored == \E k \in DOMAIN artifacts : el = ElRecord(k) /\ Holds(k, ElFiles)
PrefundedStored == \E k \in DOMAIN artifacts :
    prefunded = [artifact |-> k] /\ Holds(k, AccountsFiles)
ClStored == \E k \in DOMAIN artifacts : cl = ClRecord(k) /\ Holds(k, ClFiles)

\* The results are there by the time of each stage, and the keystores node by node.
ResultsInv ==
    /\ Len(keystores) <= N
    /\ \A n \in 1..Len(keystores) : KeysStored(n)
    /\ stage = "keystores" => Len(keystores) = 0
    /\ stage = "storeKeys" => Len(keystores) < N
    /\ stage \notin {"keystores", "storeKeys", "failed"} => Len(keystores) = N
    /\ stage \notin {"keystores", "storeKeys", "password", "storePassword", "failed"} =>
          PasswordStored
    /\ stage \notin (BeforeEl \ {"upload"}) \cup {"failed"} => ElStored
    /\ stage \notin BeforeEl \cup {"failed"} => PrefundedStored
    /\ stage \notin BeforeEl \cup {"el", "failed"} \cup BeforeCl => ClStored

----------------------------------------------------------------------------
(* The disk of the generator in hand.                                      *)

KeysWritten  == {File(<<NodeDirname[n], dir>>, Made(dir, n, {})) :
                     n \in 1..N, dir \in KeystoreDirs}
PasswordFile == File(<<"tmp", "prysm-password.txt">>, Made("password", 0, {}))
ElConfigFile == File(<<"config", "genesis-config.yaml">>, ElConfigMade)

ClMounted ==
    {File(<<"config", "config.yaml">>, ClConfigMade),
     File(<<"config", "mnemonics.yaml">>, MnemonicsMade)}
    \cup {File(<<"el-genesis", "output", GenesisFilename[type]>>, ElGenesisMade(type)) :
              type \in ELTypes}
    \cup {File(<<"el-genesis", "output", JwtFilename>>, ElSecret)}

ElWritten(types)     == {ElConfigFile} \cup {ElGenesisFile(type) : type \in types}
ClWritten(contents)  == ClMounted \cup CopiedFiles
                            \cup {DynamicFile(content) : content \in contents}

DiskInv ==
    /\ stage \in {"storeKeys", "password"} => disk = KeysWritten
    /\ stage = "storePassword" => disk = KeysWritten \cup {PasswordFile}
    /\ stage = "elGenesis" => todo \subseteq ELTypes /\ disk = ElWritten(ELTypes \ todo)
    /\ stage = "jwt"       => disk = ElWritten(ELTypes)
    /\ stage = "storeEl"   => disk = ElWritten(ELTypes) \cup {JwtFile}
    /\ stage = "copy"      => disk = ClMounted
    /\ stage = "dynamic"   => /\ todo \subseteq {"0", deposit}
                              /\ disk = ClWritten({"0", deposit} \ todo)
    /\ stage = "clGenesis" => disk = ClWritten({"0", deposit})
    /\ stage = "storeCl"   => disk = ClWritten({"0", deposit}) \cup {StateFile}
    /\ stage \notin {"storeKeys", "password", "storePassword", "elGenesis", "jwt", "storeEl",
                     "copy", "dynamic", "clGenesis", "storeCl"} => disk = {}

----------------------------------------------------------------------------
(* Each container's configuration names artifacts that hold what it is     *)
(* told they hold, whatever is done after it is launched.                  *)

ElConfigured(c) ==
    /\ c.node \in 1..N
    /\ \E k, a \in DOMAIN artifacts : /\ Holds(k, ElFiles) /\ Holds(a, AccountsFiles)
                         /\ c.config = ElConfig(network[c.node].el, ElRecord(k), a)

BeaconConfigured(c) ==
    /\ c.node \in 1..N
    /\ \E k, a \in DOMAIN artifacts :
          /\ Holds(k, ClFiles) /\ Holds(a, KeysFiles(c.node))
          /\ c.config = BeaconConfig(network[c.node].cl, ClRecord(k), KeysRecord(c.node, a))

ValidatorConfigured(c) ==
    /\ c.node \in 1..N /\ network[c.node].cl \in Split
    /\ \E k, a, b \in DOMAIN artifacts :
          /\ Holds(k, ClFiles) /\ Holds(a, KeysFiles(c.node)) /\ Holds(b, PasswordFiles)
          /\ c.config = ValidatorConfig(network[c.node].cl, ClRecord(k),
                                        KeysRecord(c.node, a), PasswordRecord(b))

ToolConfigured(c) ==
    /\ c.node = 0
    /\ \E k \in DOMAIN artifacts : /\ c.config = ToolConfig(c.kind, k)
                      /\ \A i \in DOMAIN ToolArtifacts(c.kind) :
                            Holds(k + i - 1, ToolArtifacts(c.kind)[i])

Configured(c) ==
    \/ c.kind = "el" /\ ElConfigured(c)
    \/ c.kind = "beacon" /\ BeaconConfigured(c)
    \/ c.kind = "validator" /\ ValidatorConfigured(c)
    \/ c.kind = "mevBoost" /\ c.node \in 1..N /\ c.config = SidecarConfig
    \/ c.kind \in DOMAIN NextTool /\ ToolConfigured(c)

KeystoreRecords ==
    [artifact : Nat, rawKeys : Seq(Names), rawSecrets : Seq(Names), nimbusKeys : Seq(Names),
     prysm : Seq(Names), tekuKeys : Seq(Names), tekuSecrets : Seq(Names)]

\* The beacon node last launched is of a client with a validator of its own.
ValidatorDue == stage = "validator" => network[Count("beacon")].cl \in Split

\* Every file that is ever written, stored or mounted is the one it is taken for.
ContentsInv ==
    /\ network \in Networks /\ deposit \in DepositContracts
    /\ artifacts \in Seq(Contents) /\ keystores \in Seq(KeystoreRecords)
    /\ ResultsInv /\ DiskInv /\ ValidatorDue
    /\ \A c \in containers : Configured(c)
=============================================================================
