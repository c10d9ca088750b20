----------------------- MODULE NetworkFiles_contents -----------------------
(***************************************************************************)
(* That every file written, stored or mounted is the one it is taken for,  *)
(* for any list of participants and any order of Go's maps, and from that  *)
(* what the containers read: the properties of NetworkFiles about files.   *)
(***************************************************************************)
EXTENDS NetworkFiles_proofs

----------------------------------------------------------------------------
(* Paths.                                                                  *)

\* A sequence is known by its length and its elements.
LEMMA SingleOf ==
    ASSUME NEW S, NEW s \in Seq(S), NEW a \in S, Len(s) = 1, s[1] = a
    PROVE  s = <<a>>
<1>1. PICK t \in Seq(S) : t = <<a>>
  <2>1. <<a>> \in Seq(S)
      OBVIOUS
  <2> QED
      BY <2>1, Zenon
<1>2. Len(t) = 1 /\ t[1] = a
    BY <1>1
<1> QED
    BY <1>1, <1>2, SeqEqual

LEMMA PairOf ==
    ASSUME NEW S, NEW s \in Seq(S), NEW a \in S, NEW b \in S,
           Len(s) = 2, s[1] = a, s[2] = b
    PROVE  s = <<a, b>>
<1>1. PICK t \in Seq(S) : t = <<a, b>>
  <2>1. <<a, b>> \in Seq(S)
      OBVIOUS
  <2> QED
      BY <2>1, Zenon
<1>2. Len(t) = 2 /\ t[1] = a /\ t[2] = b
    BY <1>1
<1> QED
    BY <1>1, <1>2, SeqEqual

LEMMA TripleOf ==
    ASSUME NEW S, NEW s \in Seq(S), NEW a \in S, NEW b \in S, NEW c \in S,
           Len(s) = 3, s[1] = a, s[2] = b, s[3] = c
    PROVE  s = <<a, b, c>>
<1>1. PICK t \in Seq(S) : t = <<a, b, c>>
  <2>1. <<a, b, c>> \in Seq(S)
      OBVIOUS
  <2> QED
      BY <2>1, Zenon
<1>2. Len(t) = 3 /\ t[1] = a /\ t[2] = b /\ t[3] = c
    BY <1>1
<1> QED
    BY <1>1, <1>2, SeqEqual

\* Short paths joined.
LEMMA Join11 ==
    ASSUME NEW a, NEW b
    PROVE  <<a>> \o <<b>> = <<a, b>>
<1> DEFINE S == {a, b}
<1>1. a \in S /\ b \in S
    OBVIOUS
<1> HIDE DEF S
<1>2. /\ <<a>> \o <<b>> \in Seq(S) /\ Len(<<a>> \o <<b>>) = 2
      /\ (<<a>> \o <<b>>)[1] = a /\ (<<a>> \o <<b>>)[2] = b
    BY <1>1
<1> QED
    BY <1>1, <1>2, PairOf

LEMMA Join12 ==
    ASSUME NEW a, NEW b, NEW c
    PROVE  <<a>> \o <<b, c>> = <<a, b, c>>
<1> DEFINE S == {a, b, c}
<1>1. a \in S /\ b \in S /\ c \in S
    OBVIOUS
<1> HIDE DEF S
<1>2. /\ <<a>> \o <<b, c>> \in Seq(S) /\ Len(<<a>> \o <<b, c>>) = 3
      /\ (<<a>> \o <<b, c>>)[1] = a /\ (<<a>> \o <<b, c>>)[2] = b
      /\ (<<a>> \o <<b, c>>)[3] = c
    BY <1>1
<1> QED
    BY <1>1, <1>2, TripleOf, ZenonT(30)

LEMMA Join21 ==
    ASSUME NEW a, NEW b, NEW c
    PROVE  <<a, b>> \o <<c>> = <<a, b, c>>
<1> DEFINE S == {a, b, c}
<1>1. a \in S /\ b \in S /\ c \in S
    OBVIOUS
<1> HIDE DEF S
<1>2. /\ <<a, b>> \o <<c>> \in Seq(S) /\ Len(<<a, b>> \o <<c>>) = 3
      /\ (<<a, b>> \o <<c>>)[1] = a /\ (<<a, b>> \o <<c>>)[2] = b
      /\ (<<a, b>> \o <<c>>)[3] = c
    BY <1>1
<1> QED
    BY <1>1, <1>2, TripleOf, ZenonT(30)

\* The last name of a path, and the directory it is in.
LEMMA Bases ==
    ASSUME NEW a, NEW b
    PROVE  Base(<<a>>) = <<a>> /\ Base(<<a, b>>) = <<b>>
BY DEF Base, Last

LEMMA DirOfPair ==
    ASSUME NEW a, NEW b
    PROVE  Dir(<<a, b>>) = <<a>>
<1> DEFINE S == {a, b}
<1>1. a \in S /\ b \in S
    OBVIOUS
<1> HIDE DEF S
<1>2. Dir(<<a, b>>) = SubSeq(<<a, b>>, 1, 1)
    BY DEF Dir, Front
<1>3. /\ SubSeq(<<a, b>>, 1, 1) \in Seq(S)
      /\ Len(SubSeq(<<a, b>>, 1, 1)) = 1 /\ SubSeq(<<a, b>>, 1, 1)[1] = a
    BY <1>1
<1> QED
    BY <1>1, <1>2, <1>3, SingleOf

\* What is left of a path without its directory, or of a path without itself.
LEMMA DropOne ==
    ASSUME NEW a, NEW b
    PROVE  SubSeq(<<a, b>>, 2, 2) = <<b>>
<1> DEFINE S == {a, b}
<1>1. a \in S /\ b \in S
    OBVIOUS
<1> HIDE DEF S
<1>2. /\ SubSeq(<<a, b>>, 2, 2) \in Seq(S)
      /\ Len(SubSeq(<<a, b>>, 2, 2)) = 1 /\ SubSeq(<<a, b>>, 2, 2)[1] = b
    BY <1>1
<1> QED
    BY <1>1, <1>2, SingleOf

LEMMA DropNoneOrAll ==
    ASSUME NEW S, NEW s \in Seq(S)
    PROVE  SubSeq(s, 1, Len(s)) = s /\ SubSeq(s, Len(s) + 1, Len(s)) = <<>>
OBVIOUS

LEMMA FileParts == \A path, content : /\ File(path, content).path = path
                                      /\ File(path, content).content = content
BY DEF File

\* A file that is moved with its directory, from the root, or by itself.
LEMMA MovedWithDir ==
    ASSUME NEW a, NEW b, NEW c, NEW x
    PROVE  Moved(File(<<a, b>>, x), <<a>>, <<c>>) = File(<<c, b>>, x)
BY DropOne, Join11 DEF Moved, File

LEMMA MovedFromRoot ==
    ASSUME NEW S, NEW f, f.path \in Seq(S), NEW at
    PROVE  Moved(f, <<>>, at) = File(at \o f.path, f.content)
<1>1. SubSeq(f.path, Len(<<>>) + 1, Len(f.path)) = f.path
    BY DropNoneOrAll
<1> QED
    BY <1>1 DEF Moved

LEMMA MovedItself ==
    ASSUME NEW S, NEW p \in Seq(S), NEW at \in Seq(S), NEW x
    PROVE  Moved(File(p, x), p, at) = File(at, x)
BY DropNoneOrAll DEF Moved, File

\* Prefixes, name by name.
LEMMA PrefixByName ==
    ASSUME NEW S, NEW p \in Seq(S), NEW q \in Seq(S)
    PROVE  IsPrefix(p, q) <=> Len(p) <= Len(q) /\ \A i \in 1..Len(p) : p[i] = q[i]
BY SubSeqProperties DEF IsPrefix

LEMMA Prefix11 ==
    ASSUME NEW a, NEW x
    PROVE  IsPrefix(<<a>>, <<x>>) <=> a = x
BY DEF IsPrefix

LEMMA Prefix12 ==
    ASSUME NEW a, NEW x, NEW y
    PROVE  IsPrefix(<<a>>, <<x, y>>) <=> a = x
BY DEF IsPrefix

LEMMA Prefix13 ==
    ASSUME NEW a, NEW x, NEW y, NEW z
    PROVE  IsPrefix(<<a>>, <<x, y, z>>) <=> a = x
BY DEF IsPrefix

LEMMA Prefix33 ==
    ASSUME NEW a, NEW b, NEW c, NEW x, NEW y, NEW z
    PROVE  IsPrefix(<<a, b, c>>, <<x, y, z>>) <=> a = x /\ b = y /\ c = z
BY DEF IsPrefix

LEMMA Prefix22 ==
    ASSUME NEW a, NEW b, NEW x, NEW y
    PROVE  IsPrefix(<<a, b>>, <<x, y>>) <=> a = x /\ b = y
BY DEF IsPrefix

\* A place in front of both changes nothing.
LEMMA PrefixJoined ==
    ASSUME NEW S, NEW p \in Seq(S), NEW q \in Seq(S), NEW at \in Seq(S)
    PROVE  IsPrefix(at \o p, at \o q) <=> IsPrefix(p, q)
<1>1. PICK s, t : s = at \o p /\ t = at \o q
    OBVIOUS
<1>2. /\ s \in Seq(S) /\ t \in Seq(S)
      /\ Len(s) = Len(at) + Len(p) /\ Len(t) = Len(at) + Len(q)
      /\ Len(at) \in Nat /\ Len(p) \in Nat /\ Len(q) \in Nat
      /\ \A i \in 1..Len(at) : s[i] = at[i] /\ t[i] = at[i]
      /\ \A i \in 1..Len(p) : s[Len(at) + i] = p[i]
      /\ \A i \in 1..Len(q) : t[Len(at) + i] = q[i]
    BY <1>1, ConcatProperties
<1>3. s \in Seq(S) /\ t \in Seq(S)
    BY <1>2
<1>4. IsPrefix(s, t) <=> Len(s) <= Len(t) /\ \A i \in 1..Len(s) : s[i] = t[i]
    BY <1>3, PrefixByName
<1>5. IsPrefix(p, q) <=> Len(p) <= Len(q) /\ \A i \in 1..Len(p) : p[i] = q[i]
    BY PrefixByName
<1>6. ASSUME IsPrefix(s, t) PROVE IsPrefix(p, q)
  <2>1. Len(p) <= Len(q)
      BY <1>2, <1>4, <1>6
  <2>2. ASSUME NEW i \in 1..Len(p) PROVE p[i] = q[i]
    <3>1. Len(at) + i \in 1..Len(s)
        BY <1>2
    <3>2. s[Len(at) + i] = t[Len(at) + i]
        BY <1>4, <1>6, <3>1
    <3> QED
        BY <1>2, <2>1, <3>2
  <2> QED
      BY <1>5, <2>1, <2>2
<1>7. ASSUME IsPrefix(p, q) PROVE IsPrefix(s, t)
  <2>1. Len(p) <= Len(q) /\ \A i \in 1..Len(p) : p[i] = q[i]
      BY <1>5, <1>7
  <2>2. ASSUME NEW i \in 1..Len(s) PROVE s[i] = t[i]
    <3>1. CASE i <= Len(at)
        BY <1>2, <2>1, <3>1
    <3>2. CASE i > Len(at)
      <4>1. i - Len(at) \in 1..Len(p) /\ i = Len(at) + (i - Len(at))
          BY <1>2, <3>2
      <4>2. PICK j \in 1..Len(p) : i = Len(at) + j
          BY <4>1
      <4> QED
          BY <1>2, <2>1, <4>2
    <3> QED
        BY <1>2, <3>1, <3>2
  <2> QED
      BY <1>2, <1>4, <2>1, <2>2
<1> QED
    BY <1>1, <1>6, <1>7

\* Paths that begin with different names do not lead to one another.
LEMMA PrefixOtherName ==
    ASSUME NEW S, NEW p \in Seq(S), NEW q \in Seq(S), NEW at \in Seq(S), NEW to \in Seq(S),
           at # <<>>, to # <<>>, at[1] # to[1]
    PROVE  ~IsPrefix(at \o p, to \o q)
<1>1. PICK s, t : s = at \o p /\ t = to \o q
    OBVIOUS
<1>2. /\ s \in Seq(S) /\ t \in Seq(S) /\ Len(s) > 0
      /\ s[1] = at[1] /\ t[1] = to[1]
    BY <1>1, ConcatProperties
<1>3. IsPrefix(s, t) => \A i \in 1..Len(s) : s[i] = t[i]
    BY <1>2, PrefixByName
<1>4. 1 \in 1..Len(s)
    BY <1>2
<1> QED
    BY <1>1, <1>2, <1>3, <1>4

----------------------------------------------------------------------------
(* What a container reads.                                                 *)

\* A path that begins with the place of one mount leads to what its rest leads to
\* in that mount's artifact, if no other mount's place begins with the same name.
LEMMA ReadThrough ==
    ASSUME NEW S, NEW store, NEW mounts, NEW m \in mounts, NEW p \in Seq(S),
           \A x \in mounts : /\ x.at \in Seq(S) /\ x.at # <<>>
                             /\ x.at[1] = m.at[1] => x = m
                             /\ \A f \in store[x.artifact] : f.path \in Seq(S)
    PROVE  Read(Mounted(store, mounts), m.at \o p) = Read(store[m.artifact], p)
<1>1. ASSUME NEW x \in mounts, NEW f \in store[x.artifact]
      PROVE  /\ Moved(f, <<>>, x.at) \in Mounted(store, mounts)
             /\ Moved(f, <<>>, x.at).path = x.at \o f.path
             /\ Moved(f, <<>>, x.at).content = f.content
  <2>1. f.path \in Seq(S)
      OBVIOUS
  <2>2. Moved(f, <<>>, x.at) = File(x.at \o f.path, f.content)
      BY <2>1, MovedFromRoot
  <2>3. Moved(f, <<>>, x.at) \in Mounted(store, mounts)
      BY DEF Mounted
  <2>4. Moved(f, <<>>, x.at).path = x.at \o f.path
      BY <2>2, FileParts
  <2>5. Moved(f, <<>>, x.at).content = f.content
      BY <2>2, FileParts
  <2> QED
      BY <2>3, <2>4, <2>5
<1>2. ASSUME NEW g \in Under(Mounted(store, mounts), m.at \o p)
      PROVE  \E f \in Under(store[m.artifact], p) : f.content = g.content
  <2>1. PICK x \in mounts : \E f \in store[x.artifact] : g = Moved(f, <<>>, x.at)
      BY DEF Under, Mounted
  <2>2. PICK f \in store[x.artifact] : g = Moved(f, <<>>, x.at)
      BY <2>1
  <2>3. IsPrefix(m.at \o p, x.at \o f.path)
      BY <1>1, <2>2 DEF Under
  <2>4. x = m
      BY <2>3, PrefixOtherName
  <2>5. IsPrefix(p, f.path)
      BY <2>3, <2>4, PrefixJoined
  <2> QED
      BY <1>1, <2>2, <2>4, <2>5 DEF Under
<1>3. ASSUME NEW f \in Under(store[m.artifact], p)
      PROVE  \E g \in Under(Mounted(store, mounts), m.at \o p) : f.content = g.content
  <2>1. f \in store[m.artifact] /\ IsPrefix(p, f.path)
      BY DEF Under
  <2>2. IsPrefix(m.at \o p, m.at \o f.path)
      BY <2>1, PrefixJoined
  <2> QED
      BY <1>1, <2>1, <2>2 DEF Under
<1> QED
    BY <1>2, <1>3 DEF Read

----------------------------------------------------------------------------
(* What a path leads to in each artifact.                                  *)

LEMMA GenesisNames ==
    /\ \A type \in ELTypes : GenesisFilename[type] # JwtFilename
    /\ \A s, t \in ELTypes : GenesisFilename[s] = GenesisFilename[t] => s = t
BY DEF ELTypes, GenesisFilename, JwtFilename

LEMMA ReadKeys ==
    ASSUME NEW n, NEW dir \in KeystoreDirs
    PROVE  Read(KeysFiles(n), <<NodeDirname[n], dir>>) = {Made(dir, n, {})}
<1>1. Under(KeysFiles(n), <<NodeDirname[n], dir>>)
          = {File(<<NodeDirname[n], dir>>, Made(dir, n, {}))}
    BY Prefix22 DEF Under, File, KeysFiles
<1> QED
    BY <1>1, FileParts DEF Read

LEMMA ReadPassword == Read(PasswordFiles, <<"prysm-password.txt">>) = {Made("password", 0, {})}
<1>1. Under(PasswordFiles, <<"prysm-password.txt">>) = PasswordFiles
    BY Prefix11 DEF Under, File, PasswordFiles
<1> QED
    BY <1>1, FileParts DEF Read, PasswordFiles

LEMMA ReadElGenesis ==
    ASSUME NEW type \in ELTypes
    PROVE  Read(ElFiles, <<"output", GenesisFilename[type]>>) = {ElGenesisMade(type)}
<1>1. Under(ElFiles, <<"output", GenesisFilename[type]>>) = {ElGenesisFile(type)}
    BY Prefix22, GenesisNames DEF Under, File, ElFiles, ElGenesisFile, JwtFile
<1> QED
    BY <1>1, FileParts DEF Read, ElGenesisFile

LEMMA ReadElJwt == Read(ElFiles, <<"output", JwtFilename>>) = {ElSecret}
<1>1. Under(ElFiles, <<"output", JwtFilename>>) = {JwtFile}
    BY Prefix22, GenesisNames DEF Under, File, ElFiles, ElGenesisFile, JwtFile
<1> QED
    BY <1>1, FileParts DEF Read, JwtFile

LEMMA ReadAccounts == Read(AccountsFiles, <<>>) = {Accounts}
<1>1. IsPrefix(<<>>, <<"account">>)
    BY DEF IsPrefix
<1>2. Under(AccountsFiles, <<>>) = AccountsFiles
    BY <1>1 DEF Under, File, AccountsFiles
<1> QED
    BY <1>2, FileParts DEF Read, AccountsFiles

LEMMA DynamicNames ==
    \A content \in {"0", deposit} : DynamicFiles[content]
        = IF content = deposit THEN "deposit_contract.txt" ELSE "deploy_block.txt"
BY DEF DynamicFiles

LEMMA ReadCl ==
    /\ Read(ClFiles, <<"output", "config.yaml">>) = {ClConfigMade}
    /\ Read(ClFiles, <<"output", JwtFilename>>) = {ElSecret}
    /\ Read(ClFiles, <<"output", "genesis.ssz">>) = {ClState}
    /\ Read(ClFiles, <<"output", "deposit_contract.txt">>) = {Text(deposit)}
    /\ Read(ClFiles, <<"output", "deploy_block.txt">>)
          = IF deposit = "0" THEN {} ELSE {Text("0")}
<1>1. \A f \in ClFiles : \E name : f.path = <<"output", name>>
    BY FileParts DEF ClFiles, CopiedFiles, JwtFile, DynamicFile, StateFile
<1>2. \A name : Under(ClFiles, <<"output", name>>) = {f \in ClFiles : f.path = <<"output", name>>}
    BY <1>1, Prefix22 DEF Under
<1>3. Under(ClFiles, <<"output", "config.yaml">>)
          = {File(<<"output", "config.yaml">>, ClConfigMade)}
    BY <1>2, FileParts, DynamicNames
    DEF ClFiles, CopiedFiles, JwtFile, DynamicFile, StateFile, JwtFilename
<1>4. Under(ClFiles, <<"output", JwtFilename>>) = {JwtFile}
    BY <1>2, FileParts, DynamicNames
    DEF ClFiles, CopiedFiles, JwtFile, DynamicFile, StateFile, JwtFilename
<1>5. Under(ClFiles, <<"output", "genesis.ssz">>) = {StateFile}
    BY <1>2, FileParts, DynamicNames
    DEF ClFiles, CopiedFiles, JwtFile, DynamicFile, StateFile, JwtFilename
<1>6. Under(ClFiles, <<"output", "deposit_contract.txt">>) = {DynamicFile(deposit)}
    BY <1>2, FileParts, DynamicNames
    DEF ClFiles, CopiedFiles, JwtFile, DynamicFile, StateFile, JwtFilename
<1>7. Under(ClFiles, <<"output", "deploy_block.txt">>)
          = IF deposit = "0" THEN {} ELSE {DynamicFile("0")}
  <2>1. CASE deposit = "0"
      BY <1>2, <2>1, FileParts, DynamicNames
      DEF ClFiles, CopiedFiles, JwtFile, DynamicFile, StateFile, JwtFilename
  <2>2. CASE deposit # "0"
      BY <1>2, <2>2, FileParts, DynamicNames
      DEF ClFiles, CopiedFiles, JwtFile, DynamicFile, StateFile, JwtFilename
  <2> QED
      BY <2>1, <2>2
<1> QED
    BY <1>3, <1>4, <1>5, <1>6, <1>7, FileParts DEF Read, JwtFile, StateFile, DynamicFile

\* The whole directory, which the testnet's is.
LEMMA ReadClDirectory ==
    Read(ClFiles, <<"output">>)
        = {ClConfigMade, MnemonicsMade, ElSecret, ClState, Text("0"), Text(deposit)}
<1>1. \A f \in ClFiles : \E name : f.path = <<"output", name>>
    BY FileParts DEF ClFiles, CopiedFiles, JwtFile, DynamicFile, StateFile
<1>2. Under(ClFiles, <<"output">>) = ClFiles
    BY <1>1, Prefix12 DEF Under
<1>3. ClFiles = {File(<<"output", "config.yaml">>, ClConfigMade),
                 File(<<"output", "mnemonics.yaml">>, MnemonicsMade),
                 JwtFile, StateFile, DynamicFile("0"), DynamicFile(deposit)}
    BY DEF ClFiles, CopiedFiles
<1>4. /\ JwtFile.content = ElSecret /\ StateFile.content = ClState
      /\ DynamicFile("0").content = Text("0") /\ DynamicFile(deposit).content = Text(deposit)
    BY FileParts DEF JwtFile, StateFile, DynamicFile
<1>5. Read(ClFiles, <<"output">>) = {f.content : f \in ClFiles}
    BY <1>2 DEF Read
<1>6. {f.content : f \in ClFiles}
          = {File(<<"output", "config.yaml">>, ClConfigMade).content,
             File(<<"output", "mnemonics.yaml">>, MnemonicsMade).content,
             JwtFile.content, StateFile.content,
             DynamicFile("0").content, DynamicFile(deposit).content}
    BY <1>3, Zenon
<1> QED
    BY <1>4, <1>5, <1>6, FileParts

----------------------------------------------------------------------------
(* The names in all paths, those within the clients' containers among them. *)

AllNames ==
    Names \cup {"genesis", "opt", "besu", "prefunded-keys", "validator-keys", "genesis-data",
                "prysm-password", "dashboards", "datasources", "account",
                "forkmon-config.toml", "prometheus-config.yml", "datasource.yml",
                "dashboard-providers.yml", "dashboard.json"}

AllPaths(files) == \A f \in files : f.path \in Seq(AllNames)

LEMMA AllPathsKeys ==
    ASSUME NEW n \in DOMAIN NodeDirname
    PROVE  AllPaths(KeysFiles(n))
<1>1. NodeDirname[n] \in AllNames /\ KeystoreDirs \subseteq AllNames
    BY DEF AllNames, Names
<1>2. \A dir \in KeystoreDirs : <<NodeDirname[n], dir>> \in Seq(AllNames)
    BY <1>1
<1>3. ASSUME NEW f \in KeysFiles(n) PROVE f.path \in Seq(AllNames)
  <2>1. PICK dir \in KeystoreDirs : f = File(<<NodeDirname[n], dir>>, Made(dir, n, {}))
      BY DEF KeysFiles
  <2>2. f.path = <<NodeDirname[n], dir>>
      BY <2>1, FileParts
  <2> QED
      BY <1>2, <2>2
<1> QED
    BY <1>3 DEF AllPaths

LEMMA AllPathsOthers ==
    /\ AllPaths(PasswordFiles) /\ AllPaths(ElConfigFiles) /\ AllPaths(ElFiles)
    /\ AllPaths(AccountsFiles) /\ AllPaths(ClConfigFiles) /\ AllPaths(ClFiles)
<1>1. {"prysm-password.txt", "genesis-config.yaml", "account", "config.yaml", "mnemonics.yaml",
       "output", "genesis.json", "erigon.json", "nethermind.json", "besu.json", "jwtsecret",
       "deposit_contract.txt", "deploy_block.txt", "genesis.ssz"} \subseteq AllNames
    BY DEF AllNames, Names
<1>2. \A name \in AllNames : <<"output", name>> \in Seq(AllNames) /\ <<name>> \in Seq(AllNames)
    BY <1>1
<1>3. /\ AllPaths(PasswordFiles) /\ AllPaths(ElConfigFiles)
      /\ AllPaths(AccountsFiles) /\ AllPaths(ClConfigFiles)
  <2>1. /\ \A f \in PasswordFiles : f.path = <<"prysm-password.txt">>
        /\ \A f \in ElConfigFiles : f.path = <<"genesis-config.yaml">>
        /\ \A f \in AccountsFiles : f.path = <<"account">>
        /\ \A f \in ClConfigFiles : f.path \in {<<"config.yaml">>, <<"mnemonics.yaml">>}
      BY FileParts DEF PasswordFiles, ElConfigFiles, AccountsFiles, ClConfigFiles
  <2> QED
      BY <1>1, <1>2, <2>1 DEF AllPaths
<1>4. AllPaths(ElFiles)
  <2>1. \A type \in ELTypes : GenesisFilename[type] \in AllNames
      BY <1>1 DEF ELTypes, GenesisFilename
  <2>2. /\ JwtFile.path = <<"output", "jwtsecret">>
        /\ \A type \in ELTypes : ElGenesisFile(type).path = <<"output", GenesisFilename[type]>>
      BY FileParts DEF ElGenesisFile, JwtFile, JwtFilename
  <2> QED
      BY <1>1, <1>2, <2>1, <2>2 DEF AllPaths, ElFiles
<1>5. AllPaths(ClFiles)
  <2>1. \A content \in {"0", deposit} : DynamicFiles[content] \in AllNames
      BY <1>1, DynamicNames
  <2>2. \A f \in ClFiles :
            \/ \E name \in {"config.yaml", "mnemonics.yaml", "jwtsecret", "genesis.ssz"} :
                  f.path = <<"output", name>>
            \/ \E content \in {"0", deposit} : f.path = <<"output", DynamicFiles[content]>>
      BY FileParts DEF ClFiles, CopiedFiles, DynamicFile, JwtFile, JwtFilename, StateFile
  <2> QED
      BY <1>1, <1>2, <2>1, <2>2 DEF AllPaths
<1> QED
    BY <1>3, <1>4, <1>5

\* What is read through one mount, or through either of two or three.
LEMMA OneMount ==
    ASSUME NEW k, AllPaths(artifacts[k]), NEW at \in Seq(AllNames), at # <<>>
    PROVE  \A p \in Seq(AllNames) :
              Read(Mounted(artifacts, {Mount(k, at)}), at \o p) = Read(artifacts[k], p)
<1>1. Mount(k, at).artifact = k /\ Mount(k, at).at = at
    BY DEF Mount
<1> QED
    BY <1>1, ReadThrough DEF AllPaths

LEMMA TwoMounts ==
    ASSUME NEW k, AllPaths(artifacts[k]), NEW x \in AllNames,
           NEW a, AllPaths(artifacts[a]), NEW y \in AllNames, x # y
    PROVE  \A p \in Seq(AllNames) :
              LET view == Mounted(artifacts, {Mount(k, <<x>>), Mount(a, <<y>>)})
              IN  /\ Read(view, <<x>> \o p) = Read(artifacts[k], p)
                  /\ Read(view, <<y>> \o p) = Read(artifacts[a], p)
<1>1. PICK m, mm : m = Mount(k, <<x>>) /\ mm = Mount(a, <<y>>)
    OBVIOUS
<1>2. /\ m.artifact = k /\ m.at = <<x>> /\ mm.artifact = a /\ mm.at = <<y>>
    BY <1>1 DEF Mount
<1>3. /\ m.at \in Seq(AllNames) /\ m.at # <<>> /\ m.at[1] = x
      /\ mm.at \in Seq(AllNames) /\ mm.at # <<>> /\ mm.at[1] = y
    BY <1>2
<1>4. \A p \in Seq(AllNames) :
          /\ Read(Mounted(artifacts, {m, mm}), m.at \o p) = Read(artifacts[m.artifact], p)
          /\ Read(Mounted(artifacts, {m, mm}), mm.at \o p) = Read(artifacts[mm.artifact], p)
  <2> DEFINE mounts == {m, mm}
  <2>1. \A z \in mounts : /\ z.at \in Seq(AllNames) /\ z.at # <<>>
                          /\ z.at[1] = m.at[1] => z = m
                          /\ z.at[1] = mm.at[1] => z = mm
                          /\ \A f \in artifacts[z.artifact] : f.path \in Seq(AllNames)
      BY <1>2, <1>3 DEF AllPaths
  <2>2. m \in mounts /\ mm \in mounts
      OBVIOUS
  <2> HIDE DEF mounts
  <2>3. \A p \in Seq(AllNames) :
            /\ Read(Mounted(artifacts, mounts), m.at \o p) = Read(artifacts[m.artifact], p)
            /\ Read(Mounted(artifacts, mounts), mm.at \o p) = Read(artifacts[mm.artifact], p)
      BY <2>1, <2>2, ReadThrough
  <2> QED
      BY <2>3 DEF mounts
<1> QED
    BY <1>1, <1>2, <1>4

LEMMA ThreeMounts ==
    ASSUME NEW k, AllPaths(artifacts[k]), NEW x \in AllNames,
           NEW a, AllPaths(artifacts[a]), NEW y \in AllNames,
           NEW b, AllPaths(artifacts[b]), NEW z \in AllNames, x # y, x # z, y # z
    PROVE  \A p \in Seq(AllNames) :
              LET view == Mounted(artifacts,
                              {Mount(k, <<x>>), Mount(a, <<y>>), Mount(b, <<z>>)})
              IN  /\ Read(view, <<x>> \o p) = Read(artifacts[k], p)
                  /\ Read(view, <<y>> \o p) = Read(artifacts[a], p)
                  /\ Read(view, <<z>> \o p) = Read(artifacts[b], p)
<1>1. PICK l, m, n : l = Mount(k, <<x>>) /\ m = Mount(a, <<y>>) /\ n = Mount(b, <<z>>)
    OBVIOUS
<1>2. /\ l.artifact = k /\ l.at = <<x>> /\ m.artifact = a /\ m.at = <<y>>
      /\ n.artifact = b /\ n.at = <<z>>
    BY <1>1 DEF Mount
<1>3. /\ l.at \in Seq(AllNames) /\ l.at # <<>> /\ l.at[1] = x
      /\ m.at \in Seq(AllNames) /\ m.at # <<>> /\ m.at[1] = y
      /\ n.at \in Seq(AllNames) /\ n.at # <<>> /\ n.at[1] = z
    BY <1>2
<1> DEFINE mounts == {l, m, n}
<1>4. \A o \in mounts : /\ o.at \in Seq(AllNames) /\ o.at # <<>>
                        /\ o.at[1] = l.at[1] => o = l
                        /\ o.at[1] = m.at[1] => o = m
                        /\ o.at[1] = n.at[1] => o = n
                        /\ \A f \in artifacts[o.artifact] : f.path \in Seq(AllNames)
    BY <1>2, <1>3 DEF AllPaths
<1>5. l \in mounts /\ m \in mounts /\ n \in mounts
    OBVIOUS
<1> HIDE DEF mounts
<1>6. \A p \in Seq(AllNames) :
          /\ Read(Mounted(artifacts, mounts), l.at \o p) = Read(artifacts[l.artifact], p)
          /\ Read(Mounted(artifacts, mounts), m.at \o p) = Read(artifacts[m.artifact], p)
          /\ Read(Mounted(artifacts, mounts), n.at \o p) = Read(artifacts[n.artifact], p)
    BY <1>4, <1>5, ReadThrough
<1> QED
    BY <1>1, <1>2, <1>6 DEF mounts

----------------------------------------------------------------------------
(* What each client reads under each of its flags.                         *)

Sees(config, flag) == Read(Mounted(artifacts, config.mounts), config.reads[flag])
AllSeen(config)    == UNION {Sees(config, flag) : flag \in DOMAIN config.reads}

\* The paths within the artifacts.
LEMMA PathsWithin ==
    /\ \A type \in ELTypes : <<"output", GenesisFilename[type]>> \in Seq(AllNames)
    /\ <<"output", JwtFilename>> \in Seq(AllNames) /\ <<"output">> \in Seq(AllNames)
    /\ <<"output", "config.yaml">> \in Seq(AllNames)
    /\ <<"output", "genesis.ssz">> \in Seq(AllNames)
    /\ <<"output", "deposit_contract.txt">> \in Seq(AllNames)
    /\ <<"output", "deploy_block.txt">> \in Seq(AllNames)
    /\ <<"prysm-password.txt">> \in Seq(AllNames) /\ <<>> \in Seq(AllNames)
<1>1. {"prysm-password.txt", "config.yaml", "output", "genesis.json", "erigon.json",
       "nethermind.json", "besu.json", "jwtsecret", "genesis.ssz",
       "deposit_contract.txt", "deploy_block.txt"} \subseteq AllNames
    BY DEF AllNames, Names
<1>2. \A name \in AllNames : <<"output", name>> \in Seq(AllNames)
    BY <1>1
<1>3. \A type \in ELTypes : GenesisFilename[type] \in AllNames
    BY <1>1 DEF ELTypes, GenesisFilename
<1> QED
    BY <1>1, <1>2, <1>3 DEF JwtFilename

LEMMA ElRecordPaths ==
    ASSUME NEW k
    PROVE  /\ ElRecord(k).artifact = k
           /\ ElRecord(k).jwt = <<"output", JwtFilename>>
           /\ \A type \in ELTypes :
                 ElRecord(k).genesis[type] = <<"output", GenesisFilename[type]>>
BY DEF ElRecord

\* The configurations, mount by mount and flag by flag.
LEMMA GethShape ==
    ASSUME NEW data, NEW keys, NEW config, config = GethConfig(data, keys)
    PROVE  /\ config.mounts = {Mount(data.artifact, <<"genesis">>),
                               Mount(keys, <<"prefunded-keys">>)}
           /\ DOMAIN config.reads = {"genesis", "jwt", "accounts"}
           /\ config.reads["genesis"] = <<"genesis">> \o data.genesis["geth"]
           /\ config.reads["jwt"] = <<"genesis">> \o data.jwt
           /\ config.reads["accounts"] = <<"prefunded-keys">>
BY DEF GethConfig

LEMMA ErigonShape ==
    ASSUME NEW data, NEW config, config = ErigonConfig(data)
    PROVE  /\ config.mounts = {Mount(data.artifact, <<"genesis">>)}
           /\ DOMAIN config.reads = {"genesis", "jwt"}
           /\ config.reads["genesis"] = <<"genesis">> \o data.genesis["erigon"]
           /\ config.reads["jwt"] = <<"genesis">> \o data.jwt
BY DEF ErigonConfig

LEMMA NethermindShape ==
    ASSUME NEW data, NEW config, config = NethermindConfig(data)
    PROVE  /\ config.mounts = {Mount(data.artifact, <<"genesis">>)}
           /\ DOMAIN config.reads = {"genesis", "jwt"}
           /\ config.reads["genesis"] = <<"genesis">> \o data.genesis["nethermind"]
           /\ config.reads["jwt"] = <<"genesis">> \o data.jwt
BY DEF NethermindConfig

LEMMA BesuShape ==
    ASSUME NEW data, NEW config, config = BesuConfig(data)
    PROVE  /\ config.mounts = {Mount(data.artifact, <<"opt", "besu", "genesis">>)}
           /\ DOMAIN config.reads = {"genesis", "jwt"}
           /\ config.reads["genesis"] = <<"opt", "besu", "genesis">> \o data.genesis["besu"]
           /\ config.reads["jwt"] = <<"opt", "besu", "genesis">> \o data.jwt
BY DEF BesuConfig

LighthouseBeaconShape(config, data) ==
    /\ config.mounts = {Mount(data.artifact, <<"genesis">>)}
    /\ DOMAIN config.reads = {"testnet", "jwt"}
    /\ config.reads["testnet"] = <<"genesis">> \o Dir(data.config)
    /\ config.reads["jwt"] = <<"genesis">> \o data.jwt

LEMMA LighthouseBeaconShaped ==
    ASSUME NEW data, NEW config, config = LighthouseBeacon(data)
    PROVE  LighthouseBeaconShape(config, data)
BY DEF LighthouseBeacon, LighthouseBeaconShape

\* Lodestar's beacon node and Prysm's take the same files.
OtherBeaconShape(config, data) ==
    /\ config.mounts = {Mount(data.artifact, <<"genesis">>)}
    /\ DOMAIN config.reads = {"config", "state", "jwt"}
    /\ config.reads["config"] = <<"genesis">> \o data.config
    /\ config.reads["state"] = <<"genesis">> \o data.ssz
    /\ config.reads["jwt"] = <<"genesis">> \o data.jwt

LEMMA LodestarBeaconShaped ==
    ASSUME NEW data, NEW config, config = LodestarBeacon(data)
    PROVE  OtherBeaconShape(config, data)
BY DEF LodestarBeacon, OtherBeaconShape

LEMMA PrysmBeaconShaped ==
    ASSUME NEW data, NEW config, config = PrysmBeacon(data)
    PROVE  OtherBeaconShape(config, data)
BY DEF PrysmBeacon, OtherBeaconShape

TekuShape(config, data, keys) ==
    /\ config.mounts = {Mount(data.artifact, <<"genesis">>),
                        Mount(keys.artifact, <<"validator-keys">>)}
    /\ DOMAIN config.reads = {"config", "state", "jwt", "keys", "secrets"}
    /\ config.reads["config"] = <<"genesis">> \o data.config
    /\ config.reads["state"] = <<"genesis">> \o data.ssz
    /\ config.reads["jwt"] = <<"genesis">> \o data.jwt
    /\ config.reads["keys"] = <<"validator-keys">> \o keys.tekuKeys
    /\ config.reads["secrets"] = <<"validator-keys">> \o keys.tekuSecrets

LEMMA TekuShaped ==
    ASSUME NEW data, NEW keys, NEW config, config = TekuNode(data, keys)
    PROVE  TekuShape(config, data, keys)
<1>1. config.mounts = {Mount(data.artifact, <<"genesis">>),
                        Mount(keys.artifact, <<"validator-keys">>)}
    BY DEF TekuNode
<1>2. PICK p, q, r, s, t :
          /\ p = <<"genesis">> \o data.config
          /\ q = <<"genesis">> \o data.ssz
          /\ r = <<"genesis">> \o data.jwt
          /\ s = <<"validator-keys">> \o keys.tekuKeys
          /\ t = <<"validator-keys">> \o keys.tekuSecrets
    OBVIOUS
<1>3. config.reads = [config |-> p, state |-> q, jwt |-> r, keys |-> s, secrets |-> t]
    BY <1>2 DEF TekuNode
<1>4. /\ DOMAIN config.reads = {"config", "state", "jwt", "keys", "secrets"}
      /\ config.reads["config"] = p
      /\ config.reads["state"] = q
      /\ config.reads["jwt"] = r
      /\ config.reads["keys"] = s
      /\ config.reads["secrets"] = t
    BY <1>3
<1> QED
    BY <1>1, <1>2, <1>4 DEF TekuShape

NimbusShape(config, data, keys) ==
    /\ config.mounts = {Mount(data.artifact, <<"genesis-data">>),
                        Mount(keys.artifact, <<"validator-keys">>)}
    /\ DOMAIN config.reads = {"testnet", "jwt", "keys", "secrets"}
    /\ config.reads["testnet"] = <<"genesis-data">> \o Dir(data.config)
    /\ config.reads["jwt"] = <<"genesis-data">> \o data.jwt
    /\ config.reads["keys"] = <<"validator-keys">> \o keys.nimbusKeys
    /\ config.reads["secrets"] = <<"validator-keys">> \o keys.rawSecrets

LEMMA NimbusShaped ==
    ASSUME NEW data, NEW keys, NEW config, config = NimbusNode(data, keys)
    PROVE  NimbusShape(config, data, keys)
<1>1. config.mounts = {Mount(data.artifact, <<"genesis-data">>),
                        Mount(keys.artifact, <<"validator-keys">>)}
    BY DEF NimbusNode
<1>2. PICK p, q, r, s :
          /\ p = <<"genesis-data">> \o Dir(data.config)
          /\ q = <<"genesis-data">> \o data.jwt
          /\ r = <<"validator-keys">> \o keys.nimbusKeys
          /\ s = <<"validator-keys">> \o keys.rawSecrets
    OBVIOUS
<1>3. config.reads = [testnet |-> p, jwt |-> q, keys |-> r, secrets |-> s]
    BY <1>2 DEF NimbusNode
<1>4. /\ DOMAIN config.reads = {"testnet", "jwt", "keys", "secrets"}
      /\ config.reads["testnet"] = p
      /\ config.reads["jwt"] = q
      /\ config.reads["keys"] = r
      /\ config.reads["secrets"] = s
    BY <1>3
<1> QED
    BY <1>1, <1>2, <1>4 DEF NimbusShape

LighthouseValidatorShape(config, data, keys) ==
    /\ config.mounts = {Mount(data.artifact, <<"genesis">>),
                        Mount(keys.artifact, <<"validator-keys">>)}
    /\ DOMAIN config.reads = {"testnet", "keys", "secrets"}
    /\ config.reads["testnet"] = <<"genesis">> \o Dir(data.config)
    /\ config.reads["keys"] = <<"validator-keys">> \o keys.rawKeys
    /\ config.reads["secrets"] = <<"validator-keys">> \o keys.rawSecrets

LEMMA LighthouseValidatorShaped ==
    ASSUME NEW data, NEW keys, NEW config, config = LighthouseValidator(data, keys)
    PROVE  LighthouseValidatorShape(config, data, keys)
BY DEF LighthouseValidator, LighthouseValidatorShape

LodestarValidatorShape(config, data, keys) ==
    /\ config.mounts = {Mount(data.artifact, <<"genesis">>),
                        Mount(keys.artifact, <<"validator-keys">>)}
    /\ DOMAIN config.reads = {"config", "keys", "secrets"}
    /\ config.reads["config"] = <<"genesis">> \o data.config
    /\ config.reads["keys"] = <<"validator-keys">> \o keys.rawKeys
    /\ config.reads["secrets"] = <<"validator-keys">> \o keys.rawSecrets

LEMMA LodestarValidatorShaped ==
    ASSUME NEW data, NEW keys, NEW config, config = LodestarValidator(data, keys)
    PROVE  LodestarValidatorShape(config, data, keys)
BY DEF LodestarValidator, LodestarValidatorShape

PrysmValidatorShape(config, data, keys, pass) ==
    /\ config.mounts = {Mount(data.artifact, <<"genesis">>),
                        Mount(keys.artifact, <<"validator-keys">>),
                        Mount(pass.artifact, <<"prysm-password">>)}
    /\ DOMAIN config.reads = {"wallet", "password"}
    /\ config.reads["wallet"] = <<"validator-keys">> \o keys.prysm
    /\ config.reads["password"] = <<"prysm-password">> \o pass.path

LEMMA PrysmValidatorShaped ==
    ASSUME NEW data, NEW keys, NEW pass, NEW config, config = PrysmValidator(data, keys, pass)
    PROVE  PrysmValidatorShape(config, data, keys, pass)
BY DEF PrysmValidator, PrysmValidatorShape

\* An EL client reads the genesis in its own format and the shared secret.
LEMMA ElSees ==
    ASSUME NEW k, Holds(k, ElFiles), NEW a, Holds(a, AccountsFiles), NEW type \in ELTypes,
           NEW config, config = ElConfig(type, ElRecord(k), a)
    PROVE  /\ DOMAIN config.reads
                  = {"genesis", "jwt"} \cup (IF type = "geth" THEN {"accounts"} ELSE {})
           /\ Sees(config, "genesis") = {ElGenesisMade(type)}
           /\ Sees(config, "jwt") = {ElSecret}
           /\ type = "geth" => Sees(config, "accounts") = {Accounts}
<1>1. AllPaths(artifacts[k]) /\ AllPaths(artifacts[a])
    BY AllPathsOthers DEF Holds
<1>2. /\ Read(artifacts[k], <<"output", GenesisFilename[type]>>) = {ElGenesisMade(type)}
      /\ Read(artifacts[k], <<"output", JwtFilename>>) = {ElSecret}
      /\ Read(artifacts[a], <<>>) = {Accounts}
    BY ReadElGenesis, ReadElJwt, ReadAccounts DEF Holds
<1>3. {"genesis", "prefunded-keys", "opt", "besu"} \subseteq AllNames
    BY DEF AllNames
<1>4. PICK el0 : el0 = ElRecord(k)
    OBVIOUS
<1>5. /\ el0.artifact = k /\ el0.jwt = <<"output", JwtFilename>>
      /\ el0.genesis[type] = <<"output", GenesisFilename[type]>>
      /\ el0.jwt \in Seq(AllNames) /\ el0.genesis[type] \in Seq(AllNames)
  <2>1. /\ el0.artifact = k /\ el0.jwt = <<"output", JwtFilename>>
        /\ el0.genesis[type] = <<"output", GenesisFilename[type]>>
      BY <1>4, ElRecordPaths
  <2> QED
      BY <2>1, PathsWithin
<1>6. CASE type = "geth"
  <2>1. config = GethConfig(el0, a)
      BY <1>4, <1>6 DEF ElConfig
  <2>2. /\ config.mounts = {Mount(k, <<"genesis">>), Mount(a, <<"prefunded-keys">>)}
        /\ DOMAIN config.reads = {"genesis", "jwt", "accounts"}
        /\ config.reads["genesis"] = <<"genesis">> \o el0.genesis[type]
        /\ config.reads["jwt"] = <<"genesis">> \o el0.jwt
        /\ config.reads["accounts"] = <<"prefunded-keys">>
    <3>1. /\ config.mounts = {Mount(el0.artifact, <<"genesis">>), Mount(a, <<"prefunded-keys">>)}
          /\ DOMAIN config.reads = {"genesis", "jwt", "accounts"}
          /\ config.reads["genesis"] = <<"genesis">> \o el0.genesis["geth"]
          /\ config.reads["jwt"] = <<"genesis">> \o el0.jwt
          /\ config.reads["accounts"] = <<"prefunded-keys">>
        BY <2>1, GethShape
    <3> QED
        BY <1>5, <1>6, <3>1, Zenon
  <2>3. \A p \in Seq(AllNames) :
            /\ Read(Mounted(artifacts, config.mounts), <<"genesis">> \o p)
                  = Read(artifacts[k], p)
            /\ Read(Mounted(artifacts, config.mounts), <<"prefunded-keys">> \o p)
                  = Read(artifacts[a], p)
      BY <1>1, <1>3, <2>2, TwoMounts, SMTT(30)
  <2>4. Sees(config, "genesis") = {ElGenesisMade(type)} /\ Sees(config, "jwt") = {ElSecret}
      BY <1>2, <1>5, <2>2, <2>3, ZenonT(30) DEF Sees
  <2>5. <<>> \in Seq(AllNames) /\ <<"prefunded-keys">> = <<"prefunded-keys">> \o <<>>
      OBVIOUS
  <2>6. Sees(config, "accounts") = {Accounts}
      BY <1>2, <2>2, <2>3, <2>5, ZenonT(30) DEF Sees
  <2> QED
      BY <1>6, <2>2, <2>4, <2>6
<1>7. CASE type \in {"erigon", "nethermind"}
  <2>1. type # "geth"
      BY <1>7
  <2>2. /\ config.mounts = {Mount(k, <<"genesis">>)}
        /\ DOMAIN config.reads = {"genesis", "jwt"}
        /\ config.reads["genesis"] = <<"genesis">> \o el0.genesis[type]
        /\ config.reads["jwt"] = <<"genesis">> \o el0.jwt
    <3>1. CASE type = "erigon"
      <4>1. config = ErigonConfig(el0)
          BY <1>4, <3>1 DEF ElConfig
      <4> QED
          BY <1>5, <3>1, <4>1, ErigonShape
    <3>2. CASE type = "nethermind"
      <4>1. config = NethermindConfig(el0)
          BY <1>4, <3>2 DEF ElConfig
      <4> QED
          BY <1>5, <3>2, <4>1, NethermindShape
    <3> QED
        BY <1>7, <3>1, <3>2
  <2>3. \A p \in Seq(AllNames) :
            Read(Mounted(artifacts, config.mounts), <<"genesis">> \o p) = Read(artifacts[k], p)
    <3>1. <<"genesis">> \in Seq(AllNames) /\ <<"genesis">> # <<>>
        BY <1>3
    <3> QED
        BY <1>1, <2>2, <3>1, OneMount, ZenonT(30)
  <2> QED
      BY <1>2, <1>5, <2>1, <2>2, <2>3, ZenonT(30) DEF Sees
<1>8. CASE type = "besu"
  <2>1. config = BesuConfig(el0)
      BY <1>4, <1>8 DEF ElConfig
  <2>2. PICK at \in Seq(AllNames) : at = <<"opt", "besu", "genesis">>
    <3>1. <<"opt", "besu", "genesis">> \in Seq(AllNames)
        BY <1>3
    <3> QED
        BY <3>1, Zenon
  <2>3. at # <<>>
      BY <2>2
  <2>4. /\ config.mounts = {Mount(k, at)}
        /\ DOMAIN config.reads = {"genesis", "jwt"}
        /\ config.reads["genesis"] = at \o el0.genesis[type]
        /\ config.reads["jwt"] = at \o el0.jwt
      BY <1>5, <1>8, <2>1, <2>2, BesuShape
  <2>5. \A p \in Seq(AllNames) :
            Read(Mounted(artifacts, config.mounts), at \o p) = Read(artifacts[k], p)
      BY <1>1, <2>3, <2>4, OneMount, ZenonT(30)
  <2> QED
      BY <1>2, <1>5, <1>8, <2>4, <2>5, ZenonT(30) DEF Sees
<1> QED
    BY <1>6, <1>7, <1>8 DEF ELTypes

\* The CL genesis data, through a place where its artifact is mounted.
ThroughCl(view, at) ==
    /\ Read(view, at \o <<"output", "config.yaml">>) = {ClConfigMade}
    /\ Read(view, at \o <<"output", "genesis.ssz">>) = {ClState}
    /\ Read(view, at \o <<"output", JwtFilename>>) = {ElSecret}
    /\ Read(view, at \o <<"output", "deposit_contract.txt">>) = {Text(deposit)}
    /\ Read(view, at \o <<"output", "deploy_block.txt">>)
          = IF deposit = "0" THEN {} ELSE {Text("0")}
    /\ Read(view, at \o <<"output">>)
          = {ClConfigMade, MnemonicsMade, ElSecret, ClState, Text("0"), Text(deposit)}

LEMMA ClThrough ==
    ASSUME NEW k, Holds(k, ClFiles), NEW view, NEW at,
           \A p \in Seq(AllNames) : Read(view, at \o p) = Read(artifacts[k], p)
    PROVE  ThroughCl(view, at)
BY PathsWithin, ReadCl, ReadClDirectory DEF Holds, ThroughCl

\* The keystores of a node, likewise.
ThroughKeys(view, at, n) ==
    \A dir \in KeystoreDirs : Read(view, at \o <<NodeDirname[n], dir>>) = {Made(dir, n, {})}

LEMMA KeysThrough ==
    ASSUME NEW n \in DOMAIN NodeDirname, NEW a, Holds(a, KeysFiles(n)), NEW view, NEW at,
           \A p \in Seq(AllNames) : Read(view, at \o p) = Read(artifacts[a], p)
    PROVE  ThroughKeys(view, at, n)
<1>1. NodeDirname[n] \in AllNames /\ KeystoreDirs \subseteq AllNames
    BY DEF AllNames, Names
<1>2. \A dir \in KeystoreDirs : <<NodeDirname[n], dir>> \in Seq(AllNames)
    BY <1>1
<1> QED
    BY <1>2, ReadKeys DEF Holds, ThroughKeys

LEMMA ClRecordPaths ==
    ASSUME NEW k
    PROVE  /\ ClRecord(k).artifact = k
           /\ ClRecord(k).jwt = <<"output", JwtFilename>>
           /\ ClRecord(k).config = <<"output", "config.yaml">>
           /\ ClRecord(k).ssz = <<"output", "genesis.ssz">>
           /\ Dir(ClRecord(k).config) = <<"output">>
BY DirOfPair DEF ClRecord

LEMMA KeysRecordPaths ==
    ASSUME NEW n, NEW k
    PROVE  /\ KeysRecord(n, k).artifact = k
           /\ KeysRecord(n, k).rawKeys = <<NodeDirname[n], "keys">>
           /\ KeysRecord(n, k).rawSecrets = <<NodeDirname[n], "secrets">>
           /\ KeysRecord(n, k).nimbusKeys = <<NodeDirname[n], "nimbus-keys">>
           /\ KeysRecord(n, k).prysm = <<NodeDirname[n], "prysm">>
           /\ KeysRecord(n, k).tekuKeys = <<NodeDirname[n], "teku-keys">>
           /\ KeysRecord(n, k).tekuSecrets = <<NodeDirname[n], "teku-secrets">>
BY DEF KeysRecord

LEMMA PasswordRecordPaths ==
    ASSUME NEW k
    PROVE  PasswordRecord(k).artifact = k /\ PasswordRecord(k).path = <<"prysm-password.txt">>
BY DEF PasswordRecord

\* A container that mounts the CL genesis data alone, or with a node's keystores.
LEMMA ClAlone ==
    ASSUME NEW k, Holds(k, ClFiles)
    PROVE  ThroughCl(Mounted(artifacts, {Mount(k, <<"genesis">>)}), <<"genesis">>)
<1>1. <<"genesis">> \in Seq(AllNames) /\ <<"genesis">> # <<>>
    BY DEF AllNames
<1>2. AllPaths(artifacts[k])
    BY AllPathsOthers DEF Holds
<1>3. PICK view : view = Mounted(artifacts, {Mount(k, <<"genesis">>)})
    OBVIOUS
<1>4. \A p \in Seq(AllNames) : Read(view, <<"genesis">> \o p) = Read(artifacts[k], p)
    BY <1>1, <1>2, <1>3, OneMount
<1>5. ThroughCl(view, <<"genesis">>)
    BY <1>4, ClThrough
<1> QED
    BY <1>3, <1>5

LEMMA ClAndKeys ==
    ASSUME NEW k, Holds(k, ClFiles),
           NEW n \in DOMAIN NodeDirname, NEW a, Holds(a, KeysFiles(n)),
           NEW x \in {"genesis", "genesis-data"}, NEW view,
           view = Mounted(artifacts, {Mount(k, <<x>>), Mount(a, <<"validator-keys">>)})
    PROVE  ThroughCl(view, <<x>>) /\ ThroughKeys(view, <<"validator-keys">>, n)
<1>1. x \in AllNames /\ "validator-keys" \in AllNames /\ x # "validator-keys"
    BY DEF AllNames
<1>2. AllPaths(artifacts[k]) /\ AllPaths(artifacts[a])
    BY AllPathsKeys, AllPathsOthers DEF Holds
<1>3. \A p \in Seq(AllNames) : /\ Read(view, <<x>> \o p) = Read(artifacts[k], p)
                               /\ Read(view, <<"validator-keys">> \o p) = Read(artifacts[a], p)
    BY <1>1, <1>2, TwoMounts
<1>4. \A p \in Seq(AllNames) : Read(view, <<x>> \o p) = Read(artifacts[k], p)
    BY <1>3
<1>5. ThroughCl(view, <<x>>)
    BY <1>4, ClThrough
<1>6. ThroughKeys(view, <<"validator-keys">>, n)
    BY <1>3, KeysThrough
<1> QED
    BY <1>5, <1>6

\* What tells the contents apart.
LEMMA ContentTools ==
    /\ ElSecret.tool = "elSecret" /\ Accounts.tool = "accounts"
    /\ ClConfigMade.tool = "clConfig" /\ MnemonicsMade.tool = "mnemonics"
    /\ ClState.tool = "eth2-testnet-genesis" /\ ElConfigMade.tool = "elConfig"
    /\ \A text : Text(text).tool = "echo"
    /\ \A tool, node, of : Made(tool, node, of).tool = tool
    /\ \A type \in ELTypes : ElGenesisMade(type).tool = GenesisScript[type]
BY DEF ElSecret, Accounts, ClConfigMade, MnemonicsMade, ClState, ElConfigMade, ElGenesisMade,
       Made, Text

\* What the properties ask of a CL client's configuration: each of its paths leads
\* somewhere; it reads the state and the configuration that state was made of; and
\* just these keys.
Complete(config) == \A flag \in DOMAIN config.reads : Sees(config, flag) # {}

TrueGenesis(config) ==
    /\ "jwt" \in DOMAIN config.reads /\ Sees(config, "jwt") = {ElSecret}
    /\ Of("eth2-testnet-genesis", AllSeen(config)) = {ClState}
    /\ Of("clConfig", AllSeen(config)) = {ClConfigMade}

KeysSeen(config) == {x \in AllSeen(config) : x.tool \in KeystoreDirs}

FullTestnet(config) ==
    "testnet" \in DOMAIN config.reads =>
        \E x : /\ config.reads["testnet"] = <<x>> \o <<"output">>
               /\ ThroughCl(Mounted(artifacts, config.mounts), <<x>>)

LEMMA LighthouseBeaconSees ==
    ASSUME NEW k, Holds(k, ClFiles), NEW config, LighthouseBeaconShape(config, ClRecord(k))
    PROVE  /\ Complete(config) /\ TrueGenesis(config) /\ FullTestnet(config)
           /\ KeysSeen(config) = {}
<1>1. PICK data : data = ClRecord(k) /\ LighthouseBeaconShape(config, data)
    OBVIOUS
<1>2. /\ data.artifact = k /\ data.jwt = <<"output", JwtFilename>>
      /\ data.config = <<"output", "config.yaml">> /\ data.ssz = <<"output", "genesis.ssz">>
      /\ Dir(data.config) = <<"output">>
    BY <1>1, ClRecordPaths
<1>3. PICK view : view = Mounted(artifacts, config.mounts)
    OBVIOUS
<1>4. ThroughCl(view, <<"genesis">>)
    BY <1>1, <1>2, <1>3, ClAlone DEF LighthouseBeaconShape
<1>5. /\ Sees(config, "testnet")
            = {ClConfigMade, MnemonicsMade, ElSecret, ClState, Text("0"), Text(deposit)}
      /\ Sees(config, "jwt") = {ElSecret}
    BY <1>1, <1>2, <1>3, <1>4 DEF Sees, ThroughCl, LighthouseBeaconShape
<1>6. AllSeen(config) = {ClConfigMade, MnemonicsMade, ElSecret, ClState, Text("0"), Text(deposit)}
    BY <1>1, <1>5 DEF AllSeen, LighthouseBeaconShape
<1>7. Complete(config)
    BY <1>1, <1>5 DEF Complete, LighthouseBeaconShape
<1>8. TrueGenesis(config)
    BY <1>1, <1>5, <1>6, ContentTools DEF TrueGenesis, Of, LighthouseBeaconShape
<1>9. FullTestnet(config)
    BY <1>1, <1>2, <1>3, <1>4 DEF FullTestnet, LighthouseBeaconShape
<1>10. KeysSeen(config) = {}
    BY <1>6, ContentTools DEF KeysSeen, KeystoreDirs
<1> QED
    BY <1>7, <1>8, <1>9, <1>10

LEMMA OtherBeaconSees ==
    ASSUME NEW k, Holds(k, ClFiles), NEW config, OtherBeaconShape(config, ClRecord(k))
    PROVE  /\ Complete(config) /\ TrueGenesis(config) /\ FullTestnet(config)
           /\ KeysSeen(config) = {}
<1>1. PICK data : data = ClRecord(k) /\ OtherBeaconShape(config, data)
    OBVIOUS
<1>2. /\ data.artifact = k /\ data.jwt = <<"output", JwtFilename>>
      /\ data.config = <<"output", "config.yaml">> /\ data.ssz = <<"output", "genesis.ssz">>
      /\ Dir(data.config) = <<"output">>
    BY <1>1, ClRecordPaths
<1>3. PICK view : view = Mounted(artifacts, config.mounts)
    OBVIOUS
<1>4. ThroughCl(view, <<"genesis">>)
    BY <1>1, <1>2, <1>3, ClAlone DEF OtherBeaconShape
<1>5. /\ Sees(config, "config") = {ClConfigMade}
      /\ Sees(config, "state") = {ClState}
      /\ Sees(config, "jwt") = {ElSecret}
    BY <1>1, <1>2, <1>3, <1>4 DEF Sees, ThroughCl, OtherBeaconShape
<1>6. AllSeen(config) = {ClConfigMade, ClState, ElSecret}
    BY <1>1, <1>5 DEF AllSeen, OtherBeaconShape
<1>7. Complete(config)
    BY <1>1, <1>5 DEF Complete, OtherBeaconShape
<1>8. TrueGenesis(config)
    BY <1>1, <1>5, <1>6, ContentTools DEF TrueGenesis, Of, OtherBeaconShape
<1>9. FullTestnet(config)
    BY <1>1 DEF FullTestnet, OtherBeaconShape
<1>10. KeysSeen(config) = {}
    BY <1>6, ContentTools DEF KeysSeen, KeystoreDirs
<1> QED
    BY <1>7, <1>8, <1>9, <1>10

LEMMA TekuSees ==
    ASSUME NEW k, Holds(k, ClFiles), NEW n \in DOMAIN NodeDirname,
           NEW a, Holds(a, KeysFiles(n)),
           NEW config, TekuShape(config, ClRecord(k), KeysRecord(n, a))
    PROVE  /\ Complete(config) /\ TrueGenesis(config) /\ FullTestnet(config)
           /\ KeysSeen(config) = {Made("teku-keys", n, {}), Made("teku-secrets", n, {})}
<1>1. PICK data, keys : /\ data = ClRecord(k) /\ keys = KeysRecord(n, a)
                        /\ TekuShape(config, data, keys)
    OBVIOUS
<1>2. /\ data.artifact = k /\ data.jwt = <<"output", JwtFilename>>
      /\ data.config = <<"output", "config.yaml">> /\ data.ssz = <<"output", "genesis.ssz">>
      /\ Dir(data.config) = <<"output">>
    BY <1>1, ClRecordPaths
<1>3. PICK view : view = Mounted(artifacts, config.mounts)
    OBVIOUS
<1>4. /\ keys.artifact = a
      /\ keys.tekuKeys = <<NodeDirname[n], "teku-keys">> /\ "teku-keys" \in KeystoreDirs
      /\ keys.tekuSecrets = <<NodeDirname[n], "teku-secrets">> /\ "teku-secrets" \in KeystoreDirs
    BY <1>1, KeysRecordPaths DEF KeystoreDirs
<1>5. ThroughCl(view, <<"genesis">>) /\ ThroughKeys(view, <<"validator-keys">>, n)
  <2>1. view = Mounted(artifacts, {Mount(k, <<"genesis">>), Mount(a, <<"validator-keys">>)})
      BY <1>1, <1>2, <1>3, <1>4 DEF TekuShape
  <2> QED
      BY <2>1, ClAndKeys
<1>6. /\ Sees(config, "config") = {ClConfigMade}
      /\ Sees(config, "state") = {ClState}
      /\ Sees(config, "jwt") = {ElSecret}
    BY <1>1, <1>2, <1>3, <1>5 DEF Sees, ThroughCl, TekuShape
<1>7. /\ Sees(config, "keys") = {Made("teku-keys", n, {})}
      /\ Sees(config, "secrets") = {Made("teku-secrets", n, {})}
  <2>1. /\ Read(view, <<"validator-keys">> \o keys.tekuKeys) = {Made("teku-keys", n, {})}
        /\ Read(view, <<"validator-keys">> \o keys.tekuSecrets) = {Made("teku-secrets", n, {})}
      BY <1>4, <1>5 DEF ThroughKeys
  <2> QED
      BY <1>1, <1>3, <2>1 DEF Sees, TekuShape
<1>8. AllSeen(config) = {ClConfigMade, ClState, ElSecret}
                              \cup {Made("teku-keys", n, {}), Made("teku-secrets", n, {})}
    BY <1>1, <1>6, <1>7 DEF AllSeen, TekuShape
<1>9. Complete(config)
    BY <1>1, <1>6, <1>7 DEF Complete, TekuShape
<1>10. TrueGenesis(config)
    BY <1>1, <1>6, <1>7, <1>8, ContentTools DEF TrueGenesis, Of, TekuShape
<1>11. FullTestnet(config)
    BY <1>1 DEF FullTestnet, TekuShape
<1>12. KeysSeen(config) = {Made("teku-keys", n, {}), Made("teku-secrets", n, {})}
    BY <1>8, ContentTools DEF KeysSeen, KeystoreDirs
<1> QED
    BY <1>9, <1>10, <1>11, <1>12

LEMMA NimbusSees ==
    ASSUME NEW k, Holds(k, ClFiles), NEW n \in DOMAIN NodeDirname,
           NEW a, Holds(a, KeysFiles(n)),
           NEW config, NimbusShape(config, ClRecord(k), KeysRecord(n, a))
    PROVE  /\ Complete(config) /\ TrueGenesis(config) /\ FullTestnet(config)
           /\ KeysSeen(config) = {Made("nimbus-keys", n, {}), Made("secrets", n, {})}
<1>1. PICK data, keys : /\ data = ClRecord(k) /\ keys = KeysRecord(n, a)
                        /\ NimbusShape(config, data, keys)
    OBVIOUS
<1>2. /\ data.artifact = k /\ data.jwt = <<"output", JwtFilename>>
      /\ data.config = <<"output", "config.yaml">> /\ data.ssz = <<"output", "genesis.ssz">>
      /\ Dir(data.config) = <<"output">>
    BY <1>1, ClRecordPaths
<1>3. PICK view : view = Mounted(artifacts, config.mounts)
    OBVIOUS
<1>4. /\ keys.artifact = a
      /\ keys.nimbusKeys = <<NodeDirname[n], "nimbus-keys">> /\ "nimbus-keys" \in KeystoreDirs
      /\ keys.rawSecrets = <<NodeDirname[n], "secrets">> /\ "secrets" \in KeystoreDirs
    BY <1>1, KeysRecordPaths DEF KeystoreDirs
<1>5. ThroughCl(view, <<"genesis-data">>) /\ ThroughKeys(view, <<"validator-keys">>, n)
  <2>1. view = Mounted(artifacts, {Mount(k, <<"genesis-data">>), Mount(a, <<"validator-keys">>)})
      BY <1>1, <1>2, <1>3, <1>4 DEF NimbusShape
  <2> QED
      BY <2>1, ClAndKeys
<1>6. /\ Sees(config, "testnet")
            = {ClConfigMade, MnemonicsMade, ElSecret, ClState, Text("0"), Text(deposit)}
      /\ Sees(config, "jwt") = {ElSecret}
    BY <1>1, <1>2, <1>3, <1>5 DEF Sees, ThroughCl, NimbusShape
<1>7. /\ Sees(config, "keys") = {Made("nimbus-keys", n, {})}
      /\ Sees(config, "secrets") = {Made("secrets", n, {})}
  <2>1. /\ Read(view, <<"validator-keys">> \o keys.nimbusKeys) = {Made("nimbus-keys", n, {})}
        /\ Read(view, <<"validator-keys">> \o keys.rawSecrets) = {Made("secrets", n, {})}
      BY <1>4, <1>5 DEF ThroughKeys
  <2> QED
      BY <1>1, <1>3, <2>1 DEF Sees, NimbusShape
<1>8. AllSeen(config) = {ClConfigMade, MnemonicsMade, ElSecret, ClState, Text("0"), Text(deposit)}
                              \cup {Made("nimbus-keys", n, {}), Made("secrets", n, {})}
    BY <1>1, <1>6, <1>7 DEF AllSeen, NimbusShape
<1>9. Complete(config)
    BY <1>1, <1>6, <1>7 DEF Complete, NimbusShape
<1>10. TrueGenesis(config)
    BY <1>1, <1>6, <1>7, <1>8, ContentTools DEF TrueGenesis, Of, NimbusShape
<1>11. FullTestnet(config)
    BY <1>1, <1>2, <1>3, <1>5 DEF FullTestnet, NimbusShape
<1>12. KeysSeen(config) = {Made("nimbus-keys", n, {}), Made("secrets", n, {})}
    BY <1>8, ContentTools DEF KeysSeen, KeystoreDirs
<1> QED
    BY <1>9, <1>10, <1>11, <1>12

LEMMA LighthouseValidatorSees ==
    ASSUME NEW k, Holds(k, ClFiles), NEW n \in DOMAIN NodeDirname,
           NEW a, Holds(a, KeysFiles(n)),
           NEW config, LighthouseValidatorShape(config, ClRecord(k), KeysRecord(n, a))
    PROVE  /\ Complete(config) /\ FullTestnet(config)
           /\ KeysSeen(config) = {Made("keys", n, {}), Made("secrets", n, {})}
<1>1. PICK data, keys : /\ data = ClRecord(k) /\ keys = KeysRecord(n, a)
                        /\ LighthouseValidatorShape(config, data, keys)
    OBVIOUS
<1>2. /\ data.artifact = k /\ data.jwt = <<"output", JwtFilename>>
      /\ data.config = <<"output", "config.yaml">> /\ data.ssz = <<"output", "genesis.ssz">>
      /\ Dir(data.config) = <<"output">>
    BY <1>1, ClRecordPaths
<1>3. PICK view : view = Mounted(artifacts, config.mounts)
    OBVIOUS
<1>4. /\ keys.artifact = a
      /\ keys.rawKeys = <<NodeDirname[n], "keys">> /\ "keys" \in KeystoreDirs
      /\ keys.rawSecrets = <<NodeDirname[n], "secrets">> /\ "secrets" \in KeystoreDirs
    BY <1>1, KeysRecordPaths DEF KeystoreDirs
<1>5. ThroughCl(view, <<"genesis">>) /\ ThroughKeys(view, <<"validator-keys">>, n)
  <2>1. view = Mounted(artifacts, {Mount(k, <<"genesis">>), Mount(a, <<"validator-keys">>)})
      BY <1>1, <1>2, <1>3, <1>4 DEF LighthouseValidatorShape
  <2> QED
      BY <2>1, ClAndKeys
<1>6. /\ Sees(config, "testnet")
            = {ClConfigMade, MnemonicsMade, ElSecret, ClState, Text("0"), Text(deposit)}
    BY <1>1, <1>2, <1>3, <1>5 DEF Sees, ThroughCl, LighthouseValidatorShape
<1>7. /\ Sees(config, "keys") = {Made("keys", n, {})}
      /\ Sees(config, "secrets") = {Made("secrets", n, {})}
  <2>1. /\ Read(view, <<"validator-keys">> \o keys.rawKeys) = {Made("keys", n, {})}
        /\ Read(view, <<"validator-keys">> \o keys.rawSecrets) = {Made("secrets", n, {})}
      BY <1>4, <1>5 DEF ThroughKeys
  <2> QED
      BY <1>1, <1>3, <2>1 DEF Sees, LighthouseValidatorShape
<1>8. AllSeen(config) = {ClConfigMade, MnemonicsMade, ElSecret, ClState, Text("0"), Text(deposit)}
                              \cup {Made("keys", n, {}), Made("secrets", n, {})}
    BY <1>1, <1>6, <1>7 DEF AllSeen, LighthouseValidatorShape
<1>9. Complete(config)
    BY <1>1, <1>6, <1>7 DEF Complete, LighthouseValidatorShape
<1>10. FullTestnet(config)
    BY <1>1, <1>2, <1>3, <1>5 DEF FullTestnet, LighthouseValidatorShape
<1>11. KeysSeen(config) = {Made("keys", n, {}), Made("secrets", n, {})}
    BY <1>8, ContentTools DEF KeysSeen, KeystoreDirs
<1> QED
    BY <1>9, <1>10, <1>11

LEMMA LodestarValidatorSees ==
    ASSUME NEW k, Holds(k, ClFiles), NEW n \in DOMAIN NodeDirname,
           NEW a, Holds(a, KeysFiles(n)),
           NEW config, LodestarValidatorShape(config, ClRecord(k), KeysRecord(n, a))
    PROVE  /\ Complete(config) /\ FullTestnet(config)
           /\ KeysSeen(config) = {Made("keys", n, {}), Made("secrets", n, {})}
<1>1. PICK data, keys : /\ data = ClRecord(k) /\ keys = KeysRecord(n, a)
                        /\ LodestarValidatorShape(config, data, keys)
    OBVIOUS
<1>2. /\ data.artifact = k /\ data.jwt = <<"output", JwtFilename>>
      /\ data.config = <<"output", "config.yaml">> /\ data.ssz = <<"output", "genesis.ssz">>
      /\ Dir(data.config) = <<"output">>
    BY <1>1, ClRecordPaths
<1>3. PICK view : view = Mounted(artifacts, config.mounts)
    OBVIOUS
<1>4. /\ keys.artifact = a
      /\ keys.rawKeys = <<NodeDirname[n], "keys">> /\ "keys" \in KeystoreDirs
      /\ keys.rawSecrets = <<NodeDirname[n], "secrets">> /\ "secrets" \in KeystoreDirs
    BY <1>1, KeysRecordPaths DEF KeystoreDirs
<1>5. ThroughCl(view, <<"genesis">>) /\ ThroughKeys(view, <<"validator-keys">>, n)
  <2>1. view = Mounted(artifacts, {Mount(k, <<"genesis">>), Mount(a, <<"validator-keys">>)})
      BY <1>1, <1>2, <1>3, <1>4 DEF LodestarValidatorShape
  <2> QED
      BY <2>1, ClAndKeys
<1>6. /\ Sees(config, "config") = {ClConfigMade}
    BY <1>1, <1>2, <1>3, <1>5 DEF Sees, ThroughCl, LodestarValidatorShape
<1>7. /\ Sees(config, "keys") = {Made("keys", n, {})}
      /\ Sees(config, "secrets") = {Made("secrets", n, {})}
  <2>1. /\ Read(view, <<"validator-keys">> \o keys.rawKeys) = {Made("keys", n, {})}
        /\ Read(view, <<"validator-keys">> \o keys.rawSecrets) = {Made("secrets", n, {})}
      BY <1>4, <1>5 DEF ThroughKeys
  <2> QED
      BY <1>1, <1>3, <2>1 DEF Sees, LodestarValidatorShape
<1>8. AllSeen(config) = {ClConfigMade}
                              \cup {Made("keys", n, {}), Made("secrets", n, {})}
    BY <1>1, <1>6, <1>7 DEF AllSeen, LodestarValidatorShape
<1>9. Complete(config)
    BY <1>1, <1>6, <1>7 DEF Complete, LodestarValidatorShape
<1>10. FullTestnet(config)
    BY <1>1 DEF FullTestnet, LodestarValidatorShape
<1>11. KeysSeen(config) = {Made("keys", n, {}), Made("secrets", n, {})}
    BY <1>8, ContentTools DEF KeysSeen, KeystoreDirs
<1> QED
    BY <1>9, <1>10, <1>11

\* Prysm's validator has its wallet and its password, and no testnet's directory.
LEMMA PrysmValidatorSees ==
    ASSUME NEW k, Holds(k, ClFiles), NEW n \in DOMAIN NodeDirname,
           NEW a, Holds(a, KeysFiles(n)), NEW b, Holds(b, PasswordFiles), NEW config,
           PrysmValidatorShape(config, ClRecord(k), KeysRecord(n, a), PasswordRecord(b))
    PROVE  /\ Complete(config) /\ FullTestnet(config)
           /\ KeysSeen(config) = {Made("prysm", n, {})}
<1>1. PICK data, keys, pass :
          /\ data = ClRecord(k) /\ keys = KeysRecord(n, a) /\ pass = PasswordRecord(b)
          /\ PrysmValidatorShape(config, data, keys, pass)
    OBVIOUS
<1>2. data.artifact = k
    BY <1>1, ClRecordPaths
<1>3. /\ keys.artifact = a /\ keys.prysm = <<NodeDirname[n], "prysm">>
      /\ "prysm" \in KeystoreDirs
    BY <1>1, KeysRecordPaths DEF KeystoreDirs
<1>4. pass.artifact = b /\ pass.path = <<"prysm-password.txt">>
    BY <1>1, PasswordRecordPaths
<1>5. PICK view : view = Mounted(artifacts, config.mounts)
    OBVIOUS
<1>6. {"genesis", "validator-keys", "prysm-password"} \subseteq AllNames
    BY DEF AllNames
<1>7. AllPaths(artifacts[k]) /\ AllPaths(artifacts[a]) /\ AllPaths(artifacts[b])
    BY AllPathsKeys, AllPathsOthers DEF Holds
<1>8. \A p \in Seq(AllNames) :
          /\ Read(view, <<"validator-keys">> \o p) = Read(artifacts[a], p)
          /\ Read(view, <<"prysm-password">> \o p) = Read(artifacts[b], p)
  <2>1. view = Mounted(artifacts, {Mount(k, <<"genesis">>), Mount(a, <<"validator-keys">>),
                                   Mount(b, <<"prysm-password">>)})
      BY <1>1, <1>2, <1>3, <1>4, <1>5 DEF PrysmValidatorShape
  <2> QED
      BY <1>6, <1>7, <2>1, ThreeMounts
<1>9. Sees(config, "wallet") = {Made("prysm", n, {})}
  <2>1. ThroughKeys(view, <<"validator-keys">>, n)
      BY <1>8, KeysThrough
  <2>2. Read(view, <<"validator-keys">> \o keys.prysm) = {Made("prysm", n, {})}
      BY <1>3, <2>1 DEF ThroughKeys
  <2> QED
      BY <1>1, <1>5, <2>2 DEF Sees, PrysmValidatorShape
<1>10. Sees(config, "password") = {Made("password", 0, {})}
  <2>1. Read(view, <<"prysm-password">> \o pass.path) = {Made("password", 0, {})}
      BY <1>4, <1>8, PathsWithin, ReadPassword DEF Holds
  <2> QED
      BY <1>1, <1>5, <2>1 DEF Sees, PrysmValidatorShape
<1>11. AllSeen(config) = {Made("prysm", n, {}), Made("password", 0, {})}
    BY <1>1, <1>9, <1>10 DEF AllSeen, PrysmValidatorShape
<1>12. Complete(config) /\ FullTestnet(config)
    BY <1>1, <1>9, <1>10 DEF Complete, FullTestnet, PrysmValidatorShape
<1>13. KeysSeen(config) = {Made("prysm", n, {})}
    BY <1>11, ContentTools DEF KeysSeen, KeystoreDirs
<1> QED
    BY <1>12, <1>13

LEMMA SplitTypes == Split = {"lighthouse", "lodestar", "prysm"}
BY DEF Split, CLTypes, ClLauncher, Lighthouse, Teku, Nimbus, Prysm, Lodestar

\* The keys in a client's format.
KeysOf(type, n) == {Made(format, n, {}) : format \in KeyFormat(type)}

LEMMA BeaconSees ==
    ASSUME NEW type \in CLTypes, NEW k, Holds(k, ClFiles), NEW n \in DOMAIN NodeDirname,
           NEW a, Holds(a, KeysFiles(n)),
           NEW config, config = BeaconConfig(type, ClRecord(k), KeysRecord(n, a))
    PROVE  /\ Complete(config) /\ TrueGenesis(config) /\ FullTestnet(config)
           /\ KeysSeen(config) = IF type \in Split THEN {} ELSE KeysOf(type, n)
<1>1. CASE type = "lighthouse"
  <2>1. LighthouseBeaconShape(config, ClRecord(k))
      BY <1>1, LighthouseBeaconShaped DEF BeaconConfig
  <2> QED
      BY <1>1, <2>1, LighthouseBeaconSees, SplitTypes
<1>2. CASE type \in {"lodestar", "prysm"}
  <2>1. OtherBeaconShape(config, ClRecord(k))
      BY <1>2, LodestarBeaconShaped, PrysmBeaconShaped DEF BeaconConfig
  <2> QED
      BY <1>2, <2>1, OtherBeaconSees, SplitTypes
<1>3. CASE type = "teku"
  <2>1. TekuShape(config, ClRecord(k), KeysRecord(n, a))
      BY <1>3, TekuShaped DEF BeaconConfig
  <2>2. KeysOf(type, n) = {Made("teku-keys", n, {}), Made("teku-secrets", n, {})}
      BY <1>3 DEF KeysOf, KeyFormat
  <2> QED
      BY <1>3, <2>1, <2>2, TekuSees, SplitTypes
<1>4. CASE type = "nimbus"
  <2>1. NimbusShape(config, ClRecord(k), KeysRecord(n, a))
      BY <1>4, NimbusShaped DEF BeaconConfig
  <2>2. KeysOf(type, n) = {Made("nimbus-keys", n, {}), Made("secrets", n, {})}
      BY <1>4 DEF KeysOf, KeyFormat
  <2> QED
      BY <1>4, <2>1, <2>2, NimbusSees, SplitTypes
<1> QED
    BY <1>1, <1>2, <1>3, <1>4 DEF CLTypes

LEMMA ValidatorSees ==
    ASSUME NEW type \in Split, NEW k, Holds(k, ClFiles), NEW n \in DOMAIN NodeDirname,
           NEW a, Holds(a, KeysFiles(n)), NEW b, Holds(b, PasswordFiles), NEW config,
           config = ValidatorConfig(type, ClRecord(k), KeysRecord(n, a), PasswordRecord(b))
    PROVE  /\ Complete(config) /\ FullTestnet(config)
           /\ KeysSeen(config) = KeysOf(type, n)
<1>1. CASE type = "lighthouse"
  <2>1. LighthouseValidatorShape(config, ClRecord(k), KeysRecord(n, a))
      BY <1>1, LighthouseValidatorShaped DEF ValidatorConfig
  <2>2. KeysOf(type, n) = {Made("keys", n, {}), Made("secrets", n, {})}
      BY <1>1 DEF KeysOf, KeyFormat
  <2> QED
      BY <2>1, <2>2, LighthouseValidatorSees
<1>2. CASE type = "lodestar"
  <2>1. LodestarValidatorShape(config, ClRecord(k), KeysRecord(n, a))
      BY <1>2, LodestarValidatorShaped DEF ValidatorConfig
  <2>2. KeysOf(type, n) = {Made("keys", n, {}), Made("secrets", n, {})}
      BY <1>2 DEF KeysOf, KeyFormat
  <2> QED
      BY <2>1, <2>2, LodestarValidatorSees
<1>3. CASE type = "prysm"
  <2>1. PrysmValidatorShape(config, ClRecord(k), KeysRecord(n, a), PasswordRecord(b))
      BY <1>3, PrysmValidatorShaped DEF ValidatorConfig
  <2>2. KeysOf(type, n) = {Made("prysm", n, {})}
      BY <1>3 DEF KeysOf, KeyFormat
  <2> QED
      BY <2>1, <2>2, PrysmValidatorSees
<1> QED
    BY <1>1, <1>2, <1>3, SplitTypes

\* A configuration without flags.
LEMMA BareSees ==
    ASSUME NEW config, config = BareConfig \/ config = SidecarConfig
    PROVE  /\ Complete(config) /\ FullTestnet(config) /\ config.mounts = {}
<1>1. config.reads = NoFlags /\ config.mounts = {}
    BY DEF BareConfig, SidecarConfig
<1>2. DOMAIN config.reads = {}
    BY <1>1 DEF NoFlags
<1> QED
    BY <1>1, <1>2 DEF Complete, FullTestnet

\* A file or a directory that an artifact holds is read where it is mounted.
LEMMA ReadNamed ==
    ASSUME NEW k, AllPaths(artifacts[k]), NEW view, NEW at, NEW name \in AllNames,
           \A p \in Seq(AllNames) : Read(view, at \o p) = Read(artifacts[k], p),
           \E f \in artifacts[k] : IsPrefix(<<name>>, f.path)
    PROVE  Read(view, at \o <<name>>) # {}
<1>1. <<name>> \in Seq(AllNames)
    OBVIOUS
<1>2. Read(artifacts[k], <<name>>) # {}
    BY DEF Read, Under
<1> QED
    BY <1>1, <1>2

LEMMA OneFileSees ==
    ASSUME NEW k, NEW name \in AllNames, NEW content, Holds(k, {File(<<name>>, content)}),
           NEW config, config.mounts = {Mount(k, <<"config">>)},
           DOMAIN config.reads = {"config"}, config.reads["config"] = <<"config", name>>
    PROVE  Complete(config) /\ FullTestnet(config)
<1>1. PICK f : f = File(<<name>>, content)
    OBVIOUS
<1>2. AllPaths(artifacts[k]) /\ \E g \in artifacts[k] : IsPrefix(<<name>>, g.path)
  <2>1. artifacts[k] = {f}
      BY <1>1 DEF Holds
  <2>2. f.path = <<name>> /\ f.path \in Seq(AllNames)
      BY <1>1, FileParts
  <2>3. IsPrefix(<<name>>, f.path)
      BY <2>2, Prefix11
  <2> QED
      BY <2>1, <2>2, <2>3 DEF AllPaths
<1>3. PICK view : view = Mounted(artifacts, config.mounts)
    OBVIOUS
<1>4. <<"config">> \in Seq(AllNames) /\ <<"config">> # <<>>
    BY DEF AllNames, Names
<1>5. \A p \in Seq(AllNames) : Read(view, <<"config">> \o p) = Read(artifacts[k], p)
    BY <1>2, <1>3, <1>4, OneMount
<1>6. Read(view, <<"config">> \o <<name>>) # {}
    BY <1>2, <1>5, ReadNamed
<1>7. <<"config">> \o <<name>> = <<"config", name>>
    BY Join11
<1> QED
    BY <1>3, <1>6, <1>7 DEF Sees, Complete, FullTestnet

LEMMA GrafanaShaped ==
    ASSUME NEW k, NEW j, NEW config, config = GrafanaConfig(k, j)
    PROVE  /\ config.mounts = {Mount(k, <<"config">>), Mount(j, <<"dashboards">>)}
           /\ DOMAIN config.reads = {"datasource", "providers", "dashboards"}
           /\ config.reads["datasource"] = <<"config", "datasources">>
           /\ config.reads["providers"] = <<"config", "dashboards">>
           /\ config.reads["dashboards"] = <<"dashboards", "dashboard.json">>
BY DEF GrafanaConfig

LEMMA GrafanaSees ==
    ASSUME NEW k, NEW j, NEW config, config = GrafanaConfig(k, j),
           Holds(k, ToolArtifacts("grafana")[1]), Holds(j, ToolArtifacts("grafana")[2])
    PROVE  Complete(config) /\ FullTestnet(config)
<1>1. PICK datasources, providers, json :
          /\ datasources = File(<<"datasources", "datasource.yml">>, Made("datasource", 0, {}))
          /\ providers = File(<<"dashboards", "dashboard-providers.yml">>,
                              Made("providers", 0, {}))
          /\ json = File(<<"dashboard.json">>, Made("dashboards", 0, {}))
    OBVIOUS
<1>2. artifacts[k] = {datasources, providers} /\ artifacts[j] = {json}
    BY <1>1 DEF Holds, ToolArtifacts
<1>3. /\ datasources.path = <<"datasources", "datasource.yml">>
      /\ providers.path = <<"dashboards", "dashboard-providers.yml">>
      /\ json.path = <<"dashboard.json">>
    BY <1>1, FileParts
<1>4. {"config", "dashboards", "datasources", "datasource.yml", "dashboard-providers.yml",
       "dashboard.json"} \subseteq AllNames
    BY DEF AllNames, Names
<1>5. AllPaths(artifacts[k]) /\ AllPaths(artifacts[j])
  <2>1. /\ datasources.path \in Seq(AllNames) /\ providers.path \in Seq(AllNames)
        /\ json.path \in Seq(AllNames)
      BY <1>3, <1>4
  <2> QED
      BY <1>2, <2>1 DEF AllPaths
<1>6. /\ IsPrefix(<<"datasources">>, datasources.path)
      /\ IsPrefix(<<"dashboards">>, providers.path)
      /\ IsPrefix(<<"dashboard.json">>, json.path)
    BY <1>3, Prefix11, Prefix12
<1>7. PICK view : view = Mounted(artifacts, config.mounts)
    OBVIOUS
<1>8. /\ \A p \in Seq(AllNames) : Read(view, <<"config">> \o p) = Read(artifacts[k], p)
      /\ \A p \in Seq(AllNames) : Read(view, <<"dashboards">> \o p) = Read(artifacts[j], p)
    BY <1>4, <1>5, <1>7, GrafanaShaped, TwoMounts
<1>9. /\ \A p \in Seq(AllNames) : Read(view, <<"config">> \o p) = Read(artifacts[k], p)
      /\ "datasources" \in AllNames /\ "dashboards" \in AllNames
      /\ \E f \in artifacts[k] : IsPrefix(<<"datasources">>, f.path)
      /\ \E f \in artifacts[k] : IsPrefix(<<"dashboards">>, f.path)
    BY <1>2, <1>4, <1>6, <1>8
<1>10. /\ \A p \in Seq(AllNames) : Read(view, <<"dashboards">> \o p) = Read(artifacts[j], p)
       /\ "dashboard.json" \in AllNames
       /\ \E f \in artifacts[j] : IsPrefix(<<"dashboard.json">>, f.path)
    BY <1>2, <1>4, <1>6, <1>8
<1>11. Read(view, <<"config">> \o <<"datasources">>) # {}
    BY <1>5, <1>9, ReadNamed
<1>12. Read(view, <<"config">> \o <<"dashboards">>) # {}
    BY <1>5, <1>9, ReadNamed
<1>13. Read(view, <<"dashboards">> \o <<"dashboard.json">>) # {}
    BY <1>5, <1>10, ReadNamed
<1>14. /\ Sees(config, "datasource") # {} /\ Sees(config, "providers") # {}
       /\ Sees(config, "dashboards") # {}
  <2>1. Sees(config, "datasource") # {}
      BY <1>7, <1>11, GrafanaShaped, Join11 DEF Sees
  <2>2. Sees(config, "providers") # {}
      BY <1>7, <1>12, GrafanaShaped, Join11 DEF Sees
  <2>3. Sees(config, "dashboards") # {}
      BY <1>7, <1>13, GrafanaShaped, Join11 DEF Sees
  <2> QED
      BY <2>1, <2>2, <2>3
<1> QED
    BY <1>14, GrafanaShaped DEF Complete, FullTestnet

LEMMA ToolSees ==
    ASSUME NEW tool \in DOMAIN NextTool, NEW k \in Nat,
           \A i \in DOMAIN ToolArtifacts(tool) : Holds(k + i - 1, ToolArtifacts(tool)[i]),
           NEW config, config = ToolConfig(tool, k)
    PROVE  Complete(config) /\ FullTestnet(config)
<1>1. CASE tool \in {"spammer", "verifier"}
  <2>1. config = BareConfig
      BY <1>1 DEF ToolConfig
  <2> QED
      BY <2>1, BareSees
<1>2. CASE tool = "forkmon"
  <2>1. Holds(k, {File(<<"forkmon-config.toml">>, Made(tool, 0, {}))})
    <3>1. 1 \in DOMAIN ToolArtifacts(tool) /\ k + 1 - 1 = k
        BY <1>2 DEF ToolArtifacts
    <3>2. ToolArtifacts(tool)[1] = {File(<<"forkmon-config.toml">>, Made(tool, 0, {}))}
        BY <1>2 DEF ToolArtifacts
    <3> QED
        BY <3>1, <3>2
  <2>2. /\ config.mounts = {Mount(k, <<"config">>)} /\ DOMAIN config.reads = {"config"}
        /\ config.reads["config"] = <<"config", "forkmon-config.toml">>
      BY <1>2 DEF ToolConfig, ForkmonConfig
  <2>3. "forkmon-config.toml" \in AllNames
      BY DEF AllNames
  <2> QED
      BY <2>1, <2>2, <2>3, OneFileSees
<1>3. CASE tool = "prometheus"
  <2>1. Holds(k, {File(<<"prometheus-config.yml">>, Made(tool, 0, {}))})
    <3>1. 1 \in DOMAIN ToolArtifacts(tool) /\ k + 1 - 1 = k
        BY <1>3 DEF ToolArtifacts
    <3>2. ToolArtifacts(tool)[1] = {File(<<"prometheus-config.yml">>, Made(tool, 0, {}))}
        BY <1>3 DEF ToolArtifacts
    <3> QED
        BY <3>1, <3>2
  <2>2. /\ config.mounts = {Mount(k, <<"config">>)} /\ DOMAIN config.reads = {"config"}
        /\ config.reads["config"] = <<"config", "prometheus-config.yml">>
      BY <1>3 DEF ToolConfig, PrometheusConfig
  <2>3. "prometheus-config.yml" \in AllNames
      BY DEF AllNames
  <2> QED
      BY <2>1, <2>2, <2>3, OneFileSees
<1>4. CASE tool = "grafana"
  <2>1. 1 \in DOMAIN ToolArtifacts(tool) /\ 2 \in DOMAIN ToolArtifacts(tool)
      BY <1>4 DEF ToolArtifacts
  <2>2. k + 1 - 1 = k /\ k + 2 - 1 = k + 1
      OBVIOUS
  <2>3. Holds(k, ToolArtifacts(tool)[1]) /\ Holds(k + 1, ToolArtifacts(tool)[2])
      BY <2>1, <2>2
  <2>4. config = GrafanaConfig(k, k + 1)
      BY <1>4 DEF ToolConfig
  <2> QED
      BY <1>4, <2>3, <2>4, GrafanaSees
<1> QED
    BY <1>1, <1>2, <1>3, <1>4, ToolOrder

----------------------------------------------------------------------------
(* What the invariant says of the containers.                              *)

LEMMA ViewSees ==
    ASSUME NEW c
    PROVE  /\ \A flag : ReadBy(c, flag) = Sees(c.config, flag)
           /\ Reads(c) = AllSeen(c.config)
           /\ View(c) = Mounted(artifacts, c.config.mounts)
BY DEF ReadBy, View, Sees, Reads, AllSeen

\* There is a directory for each node.
LEMMA NodeDirs ==
    ASSUME network \in Networks
    PROVE  N \in Nat \ {0} /\ 1..N \subseteq DOMAIN NodeDirname
<1>1. N \in Nat \ {0}
    BY NetworkType
<1>2. N <= Len(NodeDirname) /\ NodeDirname \in Seq(STRING)
    BY FilesAssumption DEF FilesAssumption, N
<1>3. DOMAIN NodeDirname = 1..Len(NodeDirname) /\ Len(NodeDirname) \in Nat
    BY <1>2
<1> QED
    BY <1>1, <1>2, <1>3

LEMMA ElContainer ==
    ASSUME ContentsInv, NEW c \in containers, c.kind = "el"
    PROVE  /\ c.node \in 1..N /\ network[c.node].el \in ELTypes
           /\ DOMAIN c.config.reads
                 = {"genesis", "jwt"}
                   \cup (IF network[c.node].el = "geth" THEN {"accounts"} ELSE {})
           /\ Sees(c.config, "genesis") = {ElGenesisMade(network[c.node].el)}
           /\ Sees(c.config, "jwt") = {ElSecret}
           /\ network[c.node].el = "geth" => Sees(c.config, "accounts") = {Accounts}
<1>1. ElConfigured(c)
    BY DEF ContentsInv, Configured, NextTool
<1>2. c.node \in 1..N /\ network[c.node].el \in ELTypes
    BY <1>1, NetworkType DEF ContentsInv, ElConfigured
<1>3. PICK k \in DOMAIN artifacts, a \in DOMAIN artifacts :
          /\ Holds(k, ElFiles) /\ Holds(a, AccountsFiles)
          /\ c.config = ElConfig(network[c.node].el, ElRecord(k), a)
    BY <1>1 DEF ElConfigured
<1> QED
    BY <1>2, <1>3, ElSees

LEMMA BeaconContainer ==
    ASSUME ContentsInv, NEW c \in containers, c.kind = "beacon"
    PROVE  /\ c.node \in 1..N /\ network[c.node].cl \in CLTypes
           /\ Complete(c.config) /\ TrueGenesis(c.config) /\ FullTestnet(c.config)
           /\ KeysSeen(c.config) = IF network[c.node].cl \in Split THEN {}
                                   ELSE KeysOf(network[c.node].cl, c.node)
<1>1. BeaconConfigured(c)
    BY DEF ContentsInv, Configured, NextTool
<1>2. c.node \in 1..N /\ network[c.node].cl \in CLTypes /\ c.node \in DOMAIN NodeDirname
    BY <1>1, NetworkType, NodeDirs DEF ContentsInv, BeaconConfigured
<1>3. PICK k \in DOMAIN artifacts, a \in DOMAIN artifacts :
          /\ Holds(k, ClFiles) /\ Holds(a, KeysFiles(c.node))
          /\ c.config = BeaconConfig(network[c.node].cl, ClRecord(k), KeysRecord(c.node, a))
    BY <1>1 DEF BeaconConfigured
<1>4. PICK config : config = c.config
    OBVIOUS
<1>5. PICK type \in CLTypes, n \in DOMAIN NodeDirname :
          type = network[c.node].cl /\ n = c.node
    BY <1>2
<1>6. /\ Complete(config) /\ TrueGenesis(config) /\ FullTestnet(config)
      /\ KeysSeen(config) = IF type \in Split THEN {} ELSE KeysOf(type, n)
  <2>1. /\ Holds(k, ClFiles) /\ Holds(a, KeysFiles(n))
        /\ config = BeaconConfig(type, ClRecord(k), KeysRecord(n, a))
      BY <1>3, <1>4, <1>5
  <2>2. Complete(config) /\ TrueGenesis(config) /\ FullTestnet(config)
      BY <2>1, BeaconSees
  <2>3. KeysSeen(config) = IF type \in Split THEN {} ELSE KeysOf(type, n)
      BY <2>1, BeaconSees
  <2> QED
      BY <2>2, <2>3
<1> QED
    BY <1>2, <1>4, <1>5, <1>6, Zenon

LEMMA ValidatorContainer ==
    ASSUME ContentsInv, NEW c \in containers, c.kind = "validator"
    PROVE  /\ c.node \in 1..N /\ network[c.node].cl \in Split
           /\ Complete(c.config) /\ FullTestnet(c.config)
           /\ KeysSeen(c.config) = KeysOf(network[c.node].cl, c.node)
<1>1. ValidatorConfigured(c)
    BY DEF ContentsInv, Configured, NextTool
<1>2. c.node \in 1..N /\ network[c.node].cl \in Split /\ c.node \in DOMAIN NodeDirname
    BY <1>1, NodeDirs DEF ContentsInv, ValidatorConfigured
<1>3. PICK k \in DOMAIN artifacts, a \in DOMAIN artifacts, b \in DOMAIN artifacts :
          /\ Holds(k, ClFiles) /\ Holds(a, KeysFiles(c.node)) /\ Holds(b, PasswordFiles)
          /\ c.config = ValidatorConfig(network[c.node].cl, ClRecord(k),
                                        KeysRecord(c.node, a), PasswordRecord(b))
    BY <1>1 DEF ValidatorConfigured
<1> QED
    BY <1>2, <1>3, ValidatorSees

LEMMA OtherContainer ==
    ASSUME ContentsInv, NEW c \in containers, c.kind \notin {"el", "beacon", "validator"}
    PROVE  Complete(c.config) /\ FullTestnet(c.config)
<1>1. CASE c.kind = "mevBoost"
  <2>1. c.config = SidecarConfig
      BY <1>1 DEF ContentsInv, Configured, NextTool
  <2> QED
      BY <2>1, BareSees
<1>2. CASE c.kind \in DOMAIN NextTool
  <2>1. ToolConfigured(c)
      BY <1>2 DEF ContentsInv, Configured, NextTool
  <2>2. PICK k \in DOMAIN artifacts :
            /\ c.config = ToolConfig(c.kind, k)
            /\ \A i \in DOMAIN ToolArtifacts(c.kind) :
                  Holds(k + i - 1, ToolArtifacts(c.kind)[i])
      BY <2>1 DEF ToolConfigured
  <2>3. k \in Nat
      BY DEF ContentsInv
  <2> QED
      BY <1>2, <2>2, <2>3, ToolSees
<1> QED
    BY <1>1, <1>2 DEF ContentsInv, Configured

\* In no configuration does a path lead to nothing.
LEMMA FilesThereFrom == ContentsInv => FilesThere
<1> SUFFICES ASSUME ContentsInv, NEW c \in containers, NEW flag \in DOMAIN c.config.reads
             PROVE  Has(View(c), c.config.reads[flag])
    BY DEF FilesThere
<1>1. Complete(c.config)
  <2>1. CASE c.kind = "el"
      BY <2>1, ElContainer DEF Complete
  <2>2. CASE c.kind = "beacon"
      BY <2>2, BeaconContainer
  <2>3. CASE c.kind = "validator"
      BY <2>3, ValidatorContainer
  <2>4. CASE c.kind \notin {"el", "beacon", "validator"}
      BY <2>4, OtherContainer
  <2> QED
      BY <2>1, <2>2, <2>3, <2>4
<1>2. Read(View(c), c.config.reads[flag]) # {}
    BY <1>1, ViewSees DEF Complete, Sees
<1> QED
    BY <1>2 DEF Has, Read

LEMMA OneSecretFrom == ContentsInv => OneSecret
<1> SUFFICES ASSUME ContentsInv, NEW c \in containers, NEW d \in containers,
                    c.kind = "el", d.kind = "beacon"
             PROVE  /\ Cardinality(Reads(c) \cap ReadBy(d, "jwt")) = 1
                    /\ ReadBy(c, "jwt") = ReadBy(d, "jwt")
    BY DEF OneSecret
<1>1. ReadBy(c, "jwt") = {ElSecret} /\ ReadBy(d, "jwt") = {ElSecret}
  <2>1. Sees(c.config, "jwt") = {ElSecret}
      BY ElContainer
  <2>2. Sees(d.config, "jwt") = {ElSecret}
      BY BeaconContainer DEF TrueGenesis
  <2> QED
      BY <2>1, <2>2, ViewSees
<1>2. ElSecret \in Reads(c)
  <2>1. "jwt" \in DOMAIN c.config.reads
      BY ElContainer
  <2> QED
      BY <1>1, <2>1 DEF Reads
<1>3. Reads(c) \cap ReadBy(d, "jwt") = {ElSecret}
    BY <1>1, <1>2
<1> QED
    BY <1>1, <1>3, FS_Singleton

LEMMA OneGenesisFrom == ContentsInv => OneGenesis
<1> SUFFICES ASSUME ContentsInv, NEW c \in containers, NEW d \in containers,
                    c.kind = "el", d.kind = "beacon"
             PROVE  /\ Of("eth2-testnet-genesis", Reads(d)) = {ClState}
                    /\ Of("clConfig", Reads(d)) \subseteq ClState.of
                    /\ \E genesis \in Of("genesis_geth.py", ClState.of) :
                          ReadBy(c, "genesis") =
                             {Made(GenesisScript[network[c.node].el], 0, genesis.of)}
    BY DEF OneGenesis
<1>1. /\ Of("eth2-testnet-genesis", Reads(d)) = {ClState}
      /\ Of("clConfig", Reads(d)) = {ClConfigMade}
    BY BeaconContainer, ViewSees DEF TrueGenesis
<1>2. ClState.of = {ClConfigMade, MnemonicsMade, ElGenesisMade("geth")}
    BY DEF ClState, Made
<1>3. /\ ElGenesisMade("geth").tool = "genesis_geth.py"
      /\ ElGenesisMade("geth").of = {ElConfigMade}
    BY DEF ElGenesisMade, Made, GenesisScript
<1>4. ReadBy(c, "genesis")
          = {Made(GenesisScript[network[c.node].el], 0, ElGenesisMade("geth").of)}
    BY <1>3, ElContainer, ViewSees, ZenonT(30) DEF ElGenesisMade
<1> QED
    BY <1>1, <1>2, <1>3, <1>4 DEF Of

LEMMA OwnKeysFrom == ContentsInv => OwnKeys
<1> SUFFICES ASSUME ContentsInv, NEW c \in containers, c.kind \in {"beacon", "validator"}
             PROVE  {x \in Reads(c) : x.tool \in KeystoreDirs} =
                       IF RunsValidators(c)
                       THEN {Made(format, c.node, {}) : format \in KeyFormat(network[c.node].cl)}
                       ELSE {}
    BY DEF OwnKeys
<1>1. {x \in Reads(c) : x.tool \in KeystoreDirs} = KeysSeen(c.config)
    BY ViewSees DEF KeysSeen
<1>2. CASE c.kind = "beacon"
    BY <1>1, <1>2, BeaconContainer DEF RunsValidators, KeysOf
<1>3. CASE c.kind = "validator"
    BY <1>1, <1>3, ValidatorContainer DEF RunsValidators, KeysOf
<1> QED
    BY <1>2, <1>3

LEMMA TestnetCompleteFrom == ContentsInv => TestnetComplete
<1> SUFFICES ASSUME ContentsInv, NEW c \in containers, "testnet" \in DOMAIN c.config.reads
             PROVE  LET Named(name) == Read(View(c), c.config.reads["testnet"] \o <<name>>)
                    IN  /\ Of("clConfig", Named("config.yaml")) # {}
                        /\ Of("eth2-testnet-genesis", Named("genesis.ssz")) # {}
                        /\ Named("deposit_contract.txt") = {Text(deposit)}
                        /\ Named("deploy_block.txt")
                              = IF deposit = "0" THEN {} ELSE {Text("0")}
    BY DEF TestnetComplete
<1>1. FullTestnet(c.config)
  <2>1. CASE c.kind = "el"
      BY <2>1, ElContainer DEF FullTestnet
  <2>2. CASE c.kind = "beacon"
      BY <2>2, BeaconContainer
  <2>3. CASE c.kind = "validator"
      BY <2>3, ValidatorContainer
  <2>4. CASE c.kind \notin {"el", "beacon", "validator"}
      BY <2>4, OtherContainer
  <2> QED
      BY <2>1, <2>2, <2>3, <2>4
<1>2. PICK x : /\ c.config.reads["testnet"] = <<x>> \o <<"output">>
               /\ ThroughCl(View(c), <<x>>)
    BY <1>1, ViewSees DEF FullTestnet
<1>3. c.config.reads["testnet"] = <<x, "output">>
    BY <1>2, Join11
<1>4. ASSUME NEW name
      PROVE  c.config.reads["testnet"] \o <<name>> = <<x>> \o <<"output", name>>
  <2>1. <<x, "output">> \o <<name>> = <<x, "output", name>>
      BY Join21
  <2>2. <<x>> \o <<"output", name>> = <<x, "output", name>>
      BY Join12
  <2> QED
      BY <1>3, <2>1, <2>2
<1> DEFINE Named(name) == Read(View(c), c.config.reads["testnet"] \o <<name>>)
<1>5. /\ Named("config.yaml") = {ClConfigMade} /\ Named("genesis.ssz") = {ClState}
      /\ Named("deposit_contract.txt") = {Text(deposit)}
      /\ Named("deploy_block.txt") = IF deposit = "0" THEN {} ELSE {Text("0")}
    BY <1>2, <1>4 DEF ThroughCl
<1> HIDE DEF Named
<1>6. /\ Of("clConfig", Named("config.yaml")) # {}
      /\ Of("eth2-testnet-genesis", Named("genesis.ssz")) # {}
    BY <1>5, ContentTools DEF Of
<1> QED
    BY <1>5, <1>6 DEF Named

----------------------------------------------------------------------------
(* What the generators' commands write, store and mount.                   *)

LEMMA WriteNew ==
    ASSUME NEW files, NEW path, NEW content, \A f \in files : f.path # path
    PROVE  Write(files, path, content) = files \cup {File(path, content)}
BY DEF Write

LEMMA JoinedPaths ==
    /\ ElConfigPath = <<"config", "genesis-config.yaml">>
    /\ ClConfigPath = <<"config", "config.yaml">>
    /\ MnemonicsPath = <<"config", "mnemonics.yaml">>
    /\ \A name : OutputDir \o <<name>> = <<"output", name>>
    /\ \A n, name : NodeDir(n) \o <<name>> = <<NodeDirname[n], name>>
    /\ \A dir, name : ElGenesisDir \o <<dir, name>> = <<"el-genesis", dir, name>>
BY Join11, Join12 DEF ElConfigPath, ClConfigPath, MnemonicsPath, ConfigDir, OutputDir,
   NodeDir, ElGenesisDir

\* The directory of a node is stored whole, and no other node's with it.
LEMMA StoredKeys ==
    ASSUME network \in Networks, NEW n \in 1..N
    PROVE  Stored(KeysWritten, NodeDir(n)) = KeysFiles(n)
<1>1. \A m \in 1..N : NodeDirname[n] = NodeDirname[m] => n = m
    BY NodeDirs, FilesAssumption DEF FilesAssumption, IsInjective
<1>2. \A m, dir : IsPrefix(<<NodeDirname[n]>>, <<NodeDirname[m], dir>>)
                     <=> NodeDirname[n] = NodeDirname[m]
    BY Prefix12
<1>3. Under(KeysWritten, NodeDir(n)) = KeysFiles(n)
    BY <1>1, <1>2, SMTT(30) DEF Under, KeysWritten, KeysFiles, File, NodeDir
<1>4. Base(NodeDir(n)) = NodeDir(n)
    BY Bases DEF NodeDir
<1>5. ASSUME NEW f \in KeysFiles(n) PROVE Moved(f, NodeDir(n), NodeDir(n)) = f
  <2>1. PICK dir \in KeystoreDirs : f = File(<<NodeDirname[n], dir>>, Made(dir, n, {}))
      BY DEF KeysFiles
  <2> QED
      BY <2>1, MovedWithDir DEF NodeDir
<1> QED
    BY <1>3, <1>4, <1>5 DEF Stored

LEMMA StoredPassword ==
    Stored(KeysWritten \cup {PasswordFile}, PasswordPath) = PasswordFiles
<1>1. ASSUME NEW f \in KeysWritten PROVE ~IsPrefix(PasswordPath, f.path)
  <2>1. PICK n \in 1..N : \E dir \in KeystoreDirs :
                f = File(<<NodeDirname[n], dir>>, Made(dir, n, {}))
      BY DEF KeysWritten
  <2>2. PICK dir \in KeystoreDirs : f = File(<<NodeDirname[n], dir>>, Made(dir, n, {}))
      BY <2>1
  <2>3. f.path = <<NodeDirname[n], dir>> /\ dir # "prysm-password.txt"
      BY <2>2, FileParts DEF KeystoreDirs
  <2> QED
      BY <2>3, Prefix22 DEF PasswordPath
<1>2. IsPrefix(PasswordPath, PasswordFile.path)
    BY Prefix22, FileParts DEF PasswordPath, PasswordFile
<1>3. Under(KeysWritten \cup {PasswordFile}, PasswordPath) = {PasswordFile}
    BY <1>1, <1>2 DEF Under
<1>4. Base(PasswordPath) = <<"prysm-password.txt">>
    BY Bases DEF PasswordPath
<1>5. PasswordPath \in Seq(Names) /\ <<"prysm-password.txt">> \in Seq(Names)
    BY DEF PasswordPath, Names
<1>6. Moved(PasswordFile, PasswordPath, <<"prysm-password.txt">>)
          = File(<<"prysm-password.txt">>, Made("password", 0, {}))
    BY <1>5, MovedItself DEF PasswordFile, PasswordPath
<1> QED
    BY <1>3, <1>4, <1>6 DEF Stored, PasswordFiles

\* What is under the output directory is stored as it is.
LEMMA StoredOutput ==
    ASSUME NEW files, NEW others,
           \A f \in files : \E name, x : f = File(<<"output", name>>, x),
           \A f \in others : ~IsPrefix(<<"output">>, f.path)
    PROVE  Stored(files \cup others, OutputDir) = files
<1>1. ASSUME NEW f \in files
      PROVE  IsPrefix(<<"output">>, f.path) /\ Moved(f, <<"output">>, <<"output">>) = f
  <2>1. PICK name, x : f = File(<<"output", name>>, x)
      OBVIOUS
  <2>2. f.path = <<"output", name>>
      BY <2>1, FileParts
  <2> QED
      BY <2>1, <2>2, Prefix12, MovedWithDir
<1>2. Under(files \cup others, <<"output">>) = files
    BY <1>1 DEF Under
<1>3. Base(<<"output">>) = <<"output">>
    BY Bases
<1> QED
    BY <1>1, <1>2, <1>3 DEF Stored, OutputDir

LEMMA StoredEl == Stored(ElWritten(ELTypes) \cup {JwtFile}, OutputDir) = ElFiles
<1>1. ElWritten(ELTypes) \cup {JwtFile} = ElFiles \cup {ElConfigFile}
    BY DEF ElWritten, ElFiles
<1>2. \A f \in ElFiles : \E name, x : f = File(<<"output", name>>, x)
    BY DEF ElFiles, ElGenesisFile, JwtFile
<1>3. ~IsPrefix(<<"output">>, ElConfigFile.path)
    BY Prefix12, FileParts DEF ElConfigFile
<1>4. \A f \in {ElConfigFile} : ~IsPrefix(<<"output">>, f.path)
    BY <1>3
<1>5. Stored(ElFiles \cup {ElConfigFile}, OutputDir) = ElFiles
    BY <1>2, <1>4, StoredOutput
<1> QED
    BY <1>1, <1>5

LEMMA StoredCl == Stored(ClWritten({"0", deposit}) \cup {StateFile}, OutputDir) = ClFiles
<1>1. ClWritten({"0", deposit}) \cup {StateFile} = ClFiles \cup ClMounted
    BY DEF ClWritten, ClFiles
<1>2. \A f \in ClFiles : \E name, x : f = File(<<"output", name>>, x)
    BY DEF ClFiles, CopiedFiles, JwtFile, DynamicFile, StateFile
<1>3. \A a, b, c : IsPrefix(<<"output">>, <<a, b, c>>) <=> "output" = a
    BY Prefix13
<1>4. \A a, b : IsPrefix(<<"output">>, <<a, b>>) <=> "output" = a
    BY Prefix12
<1>5. ASSUME NEW f \in ClMounted PROVE ~IsPrefix(<<"output">>, f.path)
  <2>1. CASE f \in {File(<<"config", "config.yaml">>, ClConfigMade),
                    File(<<"config", "mnemonics.yaml">>, MnemonicsMade)}
      BY <1>4, <2>1, FileParts
  <2>2. CASE f = File(<<"el-genesis", "output", JwtFilename>>, ElSecret)
      BY <1>3, <2>2, FileParts
  <2>3. ASSUME NEW type \in ELTypes,
               f = File(<<"el-genesis", "output", GenesisFilename[type]>>, ElGenesisMade(type))
        PROVE  ~IsPrefix(<<"output">>, f.path)
      BY <1>3, <2>3, FileParts
  <2> QED
      BY <2>1, <2>2, <2>3 DEF ClMounted
<1>6. Stored(ClFiles \cup ClMounted, OutputDir) = ClFiles
    BY <1>2, <1>5, StoredOutput
<1> QED
    BY <1>1, <1>6

\* What is mounted, artifact by artifact.
LEMMA MountedOne ==
    ASSUME NEW store, NEW k, NEW at
    PROVE  Mounted(store, {Mount(k, at)}) = {Moved(f, <<>>, at) : f \in store[k]}
BY DEF Mounted, Mount

LEMMA MountedTwo ==
    ASSUME NEW store, NEW k, NEW at, NEW a, NEW to
    PROVE  Mounted(store, {Mount(k, at), Mount(a, to)})
              = {Moved(f, <<>>, at) : f \in store[k]} \cup {Moved(f, <<>>, to) : f \in store[a]}
<1>1. PICK m, mm : m = Mount(k, at) /\ mm = Mount(a, to)
    OBVIOUS
<1>2. m.artifact = k /\ m.at = at /\ mm.artifact = a /\ mm.at = to
    BY <1>1 DEF Mount
<1>3. Mounted(store, {m, mm})
          = {Moved(f, <<>>, m.at) : f \in store[m.artifact]}
            \cup {Moved(f, <<>>, mm.at) : f \in store[mm.artifact]}
    BY DEF Mounted
<1> QED
    BY <1>1, <1>2, <1>3

LEMMA MovedIn1 ==
    ASSUME NEW a, NEW c, NEW x
    PROVE  Moved(File(<<a>>, x), <<>>, <<c>>) = File(<<c, a>>, x)
<1>1. PICK f : f = File(<<a>>, x)
    OBVIOUS
<1>2. f.path = <<a>> /\ f.content = x /\ <<a>> \in Seq({a})
    BY <1>1, FileParts
<1>3. Moved(f, <<>>, <<c>>) = File(<<c>> \o <<a>>, x)
    BY <1>2, MovedFromRoot
<1> QED
    BY <1>1, <1>3, Join11

LEMMA MovedIn2 ==
    ASSUME NEW a, NEW b, NEW c, NEW x
    PROVE  Moved(File(<<a, b>>, x), <<>>, <<c>>) = File(<<c, a, b>>, x)
<1>1. PICK f : f = File(<<a, b>>, x)
    OBVIOUS
<1>2. f.path = <<a, b>> /\ f.content = x /\ <<a, b>> \in Seq({a, b})
    BY <1>1, FileParts
<1>3. Moved(f, <<>>, <<c>>) = File(<<c>> \o <<a, b>>, x)
    BY <1>2, MovedFromRoot
<1> QED
    BY <1>1, <1>3, Join12

\* The EL generator has its configuration.
LEMMA MountedElConfig ==
    ASSUME NEW store, NEW k, store[k] = ElConfigFiles
    PROVE  Mounted(store, {Mount(k, ConfigDir)}) = ElWritten({})
<1>1. Mounted(store, {Mount(k, ConfigDir)})
          = {Moved(File(<<"genesis-config.yaml">>, ElConfigMade), <<>>, <<"config">>)}
    BY MountedOne DEF ElConfigFiles, ConfigDir
<1>2. Moved(File(<<"genesis-config.yaml">>, ElConfigMade), <<>>, <<"config">>) = ElConfigFile
    BY MovedIn1 DEF ElConfigFile
<1> QED
    BY <1>1, <1>2 DEF ElWritten

\* The CL generator has its configuration and the EL genesis data.
LEMMA MountedCl ==
    ASSUME NEW store, NEW k, store[k] = ClConfigFiles, NEW e, store[e] = ElFiles
    PROVE  Mounted(store, {Mount(k, ConfigDir), Mount(e, ElGenesisDir)}) = ClMounted
<1>1. {Moved(f, <<>>, <<"config">>) : f \in ClConfigFiles}
          = {File(<<"config", "config.yaml">>, ClConfigMade),
             File(<<"config", "mnemonics.yaml">>, MnemonicsMade)}
  <2>1. PICK f, g : /\ f = File(<<"config.yaml">>, ClConfigMade)
                    /\ g = File(<<"mnemonics.yaml">>, MnemonicsMade)
      OBVIOUS
  <2>2. {Moved(h, <<>>, <<"config">>) : h \in {f, g}}
            = {Moved(f, <<>>, <<"config">>), Moved(g, <<>>, <<"config">>)}
      OBVIOUS
  <2> QED
      BY <2>1, <2>2, MovedIn1 DEF ClConfigFiles
<1>2. \A type \in ELTypes : Moved(ElGenesisFile(type), <<>>, <<"el-genesis">>)
          = File(<<"el-genesis", "output", GenesisFilename[type]>>, ElGenesisMade(type))
    BY MovedIn2 DEF ElGenesisFile
<1>3. Moved(JwtFile, <<>>, <<"el-genesis">>)
          = File(<<"el-genesis", "output", JwtFilename>>, ElSecret)
    BY MovedIn2 DEF JwtFile
<1>4. {Moved(f, <<>>, <<"el-genesis">>) : f \in ElFiles}
          = {Moved(ElGenesisFile(type), <<>>, <<"el-genesis">>) : type \in ELTypes}
            \cup {Moved(JwtFile, <<>>, <<"el-genesis">>)}
    BY DEF ElFiles
<1>5. {Moved(ElGenesisFile(type), <<>>, <<"el-genesis">>) : type \in ELTypes}
          = {File(<<"el-genesis", "output", GenesisFilename[type]>>, ElGenesisMade(type)) :
                type \in ELTypes}
    BY <1>2
<1>6. Mounted(store, {Mount(k, ConfigDir), Mount(e, ElGenesisDir)})
          = {Moved(f, <<>>, <<"config">>) : f \in ClConfigFiles}
            \cup {Moved(f, <<>>, <<"el-genesis">>) : f \in ElFiles}
    BY MountedTwo DEF ConfigDir, ElGenesisDir
<1> QED
    BY <1>1, <1>3, <1>4, <1>5, <1>6 DEF ClMounted

LEMMA Prefix23 ==
    ASSUME NEW a, NEW b, NEW x, NEW y, NEW z
    PROVE  IsPrefix(<<a, b>>, <<x, y, z>>) <=> a = x /\ b = y
BY DEF IsPrefix

LEMMA Prefix32 ==
    ASSUME NEW a, NEW b, NEW c, NEW x, NEW y
    PROVE  ~IsPrefix(<<a, b, c>>, <<x, y>>)
BY DEF IsPrefix

LEMMA OnlyFile ==
    ASSUME NEW files, NEW p, NEW file \in files, IsPrefix(p, file.path),
           \A f \in files : IsPrefix(p, f.path) => f = file
    PROVE  Under(files, p) = {file} /\ Read(files, p) = {file.content}
BY DEF Under, Read

\* What each command of the CL generator reads is one file of its disk.
LEMMA ClDiskFile ==
    ASSUME NEW f \in ClWritten({"0", deposit})
    PROVE  /\ IsPrefix(<<"config", "config.yaml">>, f.path)
                 => f = File(<<"config", "config.yaml">>, ClConfigMade)
           /\ IsPrefix(<<"config", "mnemonics.yaml">>, f.path)
                 => f = File(<<"config", "mnemonics.yaml">>, MnemonicsMade)
           /\ IsPrefix(<<"el-genesis", "output", JwtFilename>>, f.path)
                 => f = File(<<"el-genesis", "output", JwtFilename>>, ElSecret)
           /\ IsPrefix(<<"output", "config.yaml">>, f.path)
                 => f = File(<<"output", "config.yaml">>, ClConfigMade)
           /\ IsPrefix(<<"output", "mnemonics.yaml">>, f.path)
                 => f = File(<<"output", "mnemonics.yaml">>, MnemonicsMade)
           /\ IsPrefix(<<"el-genesis", "output", "genesis.json">>, f.path)
                 => f = File(<<"el-genesis", "output", GenesisFilename["geth"]>>,
                             ElGenesisMade("geth"))
<1>1. CASE f = File(<<"config", "config.yaml">>, ClConfigMade)
    BY <1>1, FileParts, Prefix22, Prefix32
<1>2. CASE f = File(<<"config", "mnemonics.yaml">>, MnemonicsMade)
    BY <1>2, FileParts, Prefix22, Prefix32
<1>3. CASE f = File(<<"el-genesis", "output", JwtFilename>>, ElSecret)
    BY <1>3, FileParts, Prefix23, Prefix33 DEF JwtFilename
<1>4. ASSUME NEW type \in ELTypes,
             f = File(<<"el-genesis", "output", GenesisFilename[type]>>, ElGenesisMade(type))
      PROVE  f.path = <<"el-genesis", "output", GenesisFilename[type]>>
    BY <1>4, FileParts
<1>5. \A type \in ELTypes : /\ GenesisFilename[type] # JwtFilename
                            /\ GenesisFilename[type] = "genesis.json" => type = "geth"
    BY DEF ELTypes, GenesisFilename, JwtFilename
<1>6. CASE f = File(<<"output", "config.yaml">>, ClConfigMade)
    BY <1>6, FileParts, Prefix22, Prefix32
<1>7. CASE f = File(<<"output", "mnemonics.yaml">>, MnemonicsMade)
    BY <1>7, FileParts, Prefix22, Prefix32
<1>8. CASE f = JwtFile
    BY <1>8, FileParts, Prefix22, Prefix32 DEF JwtFile, JwtFilename
<1>9. ASSUME NEW content \in {"0", deposit}, f = DynamicFile(content)
      PROVE  /\ f.path = <<"output", DynamicFiles[content]>>
             /\ DynamicFiles[content] \notin {"config.yaml", "mnemonics.yaml"}
    BY <1>9, FileParts, DynamicNames DEF DynamicFile
<1>10. ASSUME NEW type \in ELTypes,
              f = File(<<"el-genesis", "output", GenesisFilename[type]>>, ElGenesisMade(type))
       PROVE  /\ ~IsPrefix(<<"config", "config.yaml">>, f.path)
              /\ ~IsPrefix(<<"config", "mnemonics.yaml">>, f.path)
              /\ ~IsPrefix(<<"el-genesis", "output", JwtFilename>>, f.path)
              /\ ~IsPrefix(<<"output", "config.yaml">>, f.path)
              /\ ~IsPrefix(<<"output", "mnemonics.yaml">>, f.path)
              /\ IsPrefix(<<"el-genesis", "output", "genesis.json">>, f.path) => type = "geth"
    BY <1>4, <1>5, <1>10, Prefix23, Prefix33
<1>11. ASSUME NEW content \in {"0", deposit}, f = DynamicFile(content)
       PROVE  /\ ~IsPrefix(<<"config", "config.yaml">>, f.path)
              /\ ~IsPrefix(<<"config", "mnemonics.yaml">>, f.path)
              /\ ~IsPrefix(<<"el-genesis", "output", JwtFilename>>, f.path)
              /\ ~IsPrefix(<<"output", "config.yaml">>, f.path)
              /\ ~IsPrefix(<<"output", "mnemonics.yaml">>, f.path)
              /\ ~IsPrefix(<<"el-genesis", "output", "genesis.json">>, f.path)
    BY <1>9, <1>11, Prefix22, Prefix32
<1> QED
    BY <1>1, <1>2, <1>3, <1>6, <1>7, <1>8, <1>10, <1>11 DEF ClWritten, ClMounted, CopiedFiles

\* cp of the two configurations and of the secret.
LEMMA Copied ==
    ASSUME NEW k, el = ElRecord(k)
    PROVE  /\ \A path \in CopiedPaths : Has(ClMounted, path)
           /\ UNION {CopyOf(ClMounted, path, OutputDir) : path \in CopiedPaths} = CopiedFiles
<1>1. PICK p, q, r : /\ p = <<"config", "config.yaml">> /\ q = <<"config", "mnemonics.yaml">>
                     /\ r = <<"el-genesis", "output", JwtFilename>>
    OBVIOUS
<1>2. CopiedPaths = {p, q, r}
  <2>1. el.jwt = <<"output", JwtFilename>>
      BY ElRecordPaths
  <2>2. ElGenesisDir \o el.jwt = r
      BY <1>1, <2>1, JoinedPaths
  <2> QED
      BY <1>1, <2>2, JoinedPaths DEF CopiedPaths
<1>3. PICK f, g, h : f = File(p, ClConfigMade) /\ g = File(q, MnemonicsMade)
                     /\ h = File(r, ElSecret)
    OBVIOUS
<1>4. f \in ClMounted /\ g \in ClMounted /\ h \in ClMounted
    BY <1>1, <1>3 DEF ClMounted
<1>5. \A x \in ClMounted : /\ IsPrefix(p, x.path) => x = f
                           /\ IsPrefix(q, x.path) => x = g
                           /\ IsPrefix(r, x.path) => x = h
    BY <1>1, <1>3, ClDiskFile DEF ClWritten
<1>6. IsPrefix(p, f.path) /\ IsPrefix(q, g.path) /\ IsPrefix(r, h.path)
    BY <1>1, <1>3, FileParts, Prefix22, Prefix33
<1>7. /\ Under(ClMounted, p) = {f} /\ Under(ClMounted, q) = {g} /\ Under(ClMounted, r) = {h}
    BY <1>4, <1>5, <1>6, OnlyFile
<1>8. Base(p) = <<"config.yaml">> /\ Base(q) = <<"mnemonics.yaml">> /\ Base(r) = <<JwtFilename>>
    BY <1>1 DEF Base, Last
<1>9. {p, q, r} \subseteq Seq(Names) /\ <<"output", "config.yaml">> \in Seq(Names)
      /\ <<"output", "mnemonics.yaml">> \in Seq(Names) /\ <<"output", JwtFilename>> \in Seq(Names)
    BY <1>1 DEF Names, JwtFilename
<1>10. /\ Moved(f, p, <<"output", "config.yaml">>) = File(<<"output", "config.yaml">>, ClConfigMade)
       /\ Moved(g, q, <<"output", "mnemonics.yaml">>)
             = File(<<"output", "mnemonics.yaml">>, MnemonicsMade)
       /\ Moved(h, r, <<"output", JwtFilename>>) = JwtFile
    BY <1>3, <1>9, MovedItself DEF JwtFile
<1>11. /\ CopyOf(ClMounted, p, OutputDir) = {File(<<"output", "config.yaml">>, ClConfigMade)}
       /\ CopyOf(ClMounted, q, OutputDir) = {File(<<"output", "mnemonics.yaml">>, MnemonicsMade)}
       /\ CopyOf(ClMounted, r, OutputDir) = {JwtFile}
    BY <1>7, <1>8, <1>10, JoinedPaths DEF CopyOf
<1>12. UNION {CopyOf(ClMounted, path, OutputDir) : path \in {p, q, r}} = CopiedFiles
    BY <1>11 DEF CopiedFiles
<1>13. \A path \in {p, q, r} : Has(ClMounted, path)
    BY <1>7 DEF Has
<1> QED
    BY <1>2, <1>12, <1>13

\* eth2-testnet-genesis reads the two configurations and Geth's genesis.
LEMMA StateRead ==
    ASSUME NEW k, el = ElRecord(k)
    PROVE  /\ \A path \in StateInputs : Has(ClWritten({"0", deposit}), path)
           /\ UNION {Read(ClWritten({"0", deposit}), path) : path \in StateInputs}
                 = {ClConfigMade, MnemonicsMade, ElGenesisMade("geth")}
<1>1. PICK p, q, r : /\ p = <<"output", "config.yaml">> /\ q = <<"output", "mnemonics.yaml">>
                     /\ r = <<"el-genesis", "output", "genesis.json">>
    OBVIOUS
<1>2. "geth" \in ELTypes /\ GenesisFilename["geth"] = "genesis.json"
    BY DEF ELTypes, GenesisFilename
<1>3. StateInputs = {p, q, r}
  <2>1. el.genesis["geth"] = <<"output", "genesis.json">>
      BY <1>2, ElRecordPaths
  <2>2. ElGenesisDir \o el.genesis["geth"] = r
      BY <1>1, <2>1, JoinedPaths
  <2>3. /\ OutputDir \o <<"config.yaml">> = p /\ OutputDir \o <<"mnemonics.yaml">> = q
      BY <1>1, JoinedPaths
  <2> QED
      BY <2>2, <2>3 DEF StateInputs
<1>4. PICK files : files = ClWritten({"0", deposit})
    OBVIOUS
<1>5. PICK f, g, h : f = File(p, ClConfigMade) /\ g = File(q, MnemonicsMade)
                     /\ h = File(r, ElGenesisMade("geth"))
    OBVIOUS
<1>6. f \in files /\ g \in files
    BY <1>1, <1>4, <1>5 DEF ClWritten, CopiedFiles
<1>7. h \in files
    BY <1>1, <1>2, <1>4, <1>5 DEF ClWritten, ClMounted
<1>8. \A x \in files : /\ IsPrefix(p, x.path) => x = f
                       /\ IsPrefix(q, x.path) => x = g
                       /\ IsPrefix(r, x.path) => x = h
    BY <1>1, <1>2, <1>4, <1>5, ClDiskFile
<1>9. IsPrefix(p, f.path) /\ IsPrefix(q, g.path) /\ IsPrefix(r, h.path)
    BY <1>1, <1>5, FileParts, Prefix22, Prefix33
<1>10. /\ f.content = ClConfigMade /\ g.content = MnemonicsMade
       /\ h.content = ElGenesisMade("geth")
    BY <1>5, FileParts
<1>11. /\ Read(files, p) = {ClConfigMade} /\ Read(files, q) = {MnemonicsMade}
       /\ Read(files, r) = {ElGenesisMade("geth")}
  <2>1. Read(files, p) = {f.content}
    <3>1. \A x \in files : IsPrefix(p, x.path) => x = f
        BY <1>8
    <3>2. IsPrefix(p, f.path) /\ f \in files
        BY <1>6, <1>9
    <3> QED
        BY <3>1, <3>2, OnlyFile
  <2>2. Read(files, q) = {g.content}
    <3>1. \A x \in files : IsPrefix(q, x.path) => x = g
        BY <1>8
    <3>2. IsPrefix(q, g.path) /\ g \in files
        BY <1>6, <1>9
    <3> QED
        BY <3>1, <3>2, OnlyFile
  <2>3. Read(files, r) = {h.content}
    <3>1. \A x \in files : IsPrefix(r, x.path) => x = h
        BY <1>8
    <3>2. IsPrefix(r, h.path) /\ h \in files
        BY <1>7, <1>9
    <3> QED
        BY <3>1, <3>2, OnlyFile
  <2> QED
      BY <1>10, <2>1, <2>2, <2>3
<1>12. UNION {Read(files, path) : path \in {p, q, r}}
           = {ClConfigMade, MnemonicsMade, ElGenesisMade("geth")}
    BY <1>11
<1>13. \A path \in {p, q, r} : Has(files, path)
    BY <1>11 DEF Read, Has
<1> QED
    BY <1>3, <1>4, <1>12, <1>13

\* Each of the scripts reads the configuration alone.
LEMMA ElConfigRead ==
    ASSUME NEW types
    PROVE  Has(ElWritten(types), ElConfigPath)
           /\ Read(ElWritten(types), ElConfigPath) = {ElConfigMade}
<1>1. PICK files, p : files = ElWritten(types) /\ p = <<"config", "genesis-config.yaml">>
    OBVIOUS
<1>2. ElConfigFile \in files /\ IsPrefix(p, ElConfigFile.path)
      /\ ElConfigFile.content = ElConfigMade
    BY <1>1, FileParts, Prefix22 DEF ElWritten, ElConfigFile
<1>3. ASSUME NEW type PROVE ~IsPrefix(p, ElGenesisFile(type).path)
  <2>1. ElGenesisFile(type).path = <<"output", GenesisFilename[type]>>
      BY FileParts DEF ElGenesisFile
  <2> QED
      BY <1>1, <2>1, Prefix22
<1>4. \A f \in files : IsPrefix(p, f.path) => f = ElConfigFile
    BY <1>1, <1>3 DEF ElWritten
<1>5. Read(files, p) = {ElConfigMade}
    BY <1>2, <1>4, OnlyFile
<1>6. Has(files, p)
    BY <1>5 DEF Read, Has
<1> QED
    BY <1>1, <1>5, <1>6, JoinedPaths

----------------------------------------------------------------------------
(* What every step keeps: artifacts are only ever added.                   *)

Grows == \A k \in DOMAIN artifacts : k \in DOMAIN artifacts' /\ artifacts'[k] = artifacts[k]

Extends ==
    /\ network' = network /\ deposit' = deposit
    /\ Grows /\ artifacts' \in Seq(Contents)

LEMMA SameArtifacts ==
    ASSUME ContentsInv, UNCHANGED <<network, deposit, artifacts>>
    PROVE  Extends
BY DEF ContentsInv, Extends, Grows

LEMMA OneArtifactMore ==
    ASSUME ContentsInv, UNCHANGED <<network, deposit>>, NEW files \in Contents,
           artifacts' = Append(artifacts, files)
    PROVE  /\ Extends /\ NewArtifact \in DOMAIN artifacts' /\ artifacts'[NewArtifact] = files
           /\ NewArtifact \in Nat
<1>1. artifacts \in Seq(Contents)
    BY DEF ContentsInv
<1>2. /\ artifacts' \in Seq(Contents) /\ Len(artifacts') = Len(artifacts) + 1
      /\ \A k \in 1..Len(artifacts) : artifacts'[k] = artifacts[k]
      /\ artifacts'[Len(artifacts) + 1] = files /\ Len(artifacts) \in Nat
    BY <1>1, AppendProperties
<1>3. DOMAIN artifacts = 1..Len(artifacts) /\ DOMAIN artifacts' = 1..Len(artifacts')
    BY <1>1, <1>2
<1> QED
    BY <1>2, <1>3 DEF Extends, Grows, NewArtifact

LEMMA SameContents ==
    ASSUME network' = network, deposit' = deposit
    PROVE  N' = N /\ ClFiles' = ClFiles /\ Contents' = Contents
<1>1. N' = N
    BY DEF N
<1>2. \A content \in {"0", deposit} : DynamicFile(content)' = DynamicFile(content)
    BY DEF DynamicFile, DynamicFiles
<1>3. ClFiles' = ClFiles
    BY <1>2 DEF ClFiles
<1>4. Contents' = Contents
    BY <1>1, <1>3 DEF Contents
<1> QED
    BY <1>1, <1>3, <1>4

LEMMA HoldsKept ==
    ASSUME Extends
    PROVE  /\ \A k \in DOMAIN artifacts : k \in DOMAIN artifacts'
           /\ \A k, files : Holds(k, files) => Holds(k, files)'
           /\ \A k : Holds(k, ClFiles) => Holds(k, ClFiles)'
<1>1. \A k, files : Holds(k, files) => Holds(k, files)'
    BY DEF Extends, Grows, Holds
<1>2. ASSUME NEW k, Holds(k, ClFiles) PROVE Holds(k, ClFiles)'
    BY <1>2, SameContents DEF Extends, Grows, Holds
<1>3. \A k \in DOMAIN artifacts : k \in DOMAIN artifacts'
    BY DEF Extends, Grows
<1> QED
    BY <1>1, <1>2, <1>3

\* A container's configuration stays what it was when the container was launched.
LEMMA ConfiguredKept ==
    ASSUME Extends, NEW c, Configured(c)
    PROVE  Configured(c)'
<1>1. network' = network /\ N' = N
    BY SameContents DEF Extends
<1>2. ASSUME ElConfigured(c) PROVE ElConfigured(c)'
  <2>1. PICK k \in DOMAIN artifacts, a \in DOMAIN artifacts :
            /\ Holds(k, ElFiles) /\ Holds(a, AccountsFiles)
            /\ c.config = ElConfig(network[c.node].el, ElRecord(k), a)
      BY <1>2 DEF ElConfigured
  <2>2. /\ k \in DOMAIN artifacts' /\ a \in DOMAIN artifacts'
        /\ Holds(k, ElFiles)' /\ Holds(a, AccountsFiles)'
      BY <2>1, HoldsKept
  <2> QED
      BY <1>1, <1>2, <2>1, <2>2 DEF ElConfigured
<1>3. ASSUME BeaconConfigured(c) PROVE BeaconConfigured(c)'
  <2>1. PICK k \in DOMAIN artifacts, a \in DOMAIN artifacts :
            /\ Holds(k, ClFiles) /\ Holds(a, KeysFiles(c.node))
            /\ c.config = BeaconConfig(network[c.node].cl, ClRecord(k), KeysRecord(c.node, a))
      BY <1>3 DEF BeaconConfigured
  <2>2. /\ k \in DOMAIN artifacts' /\ a \in DOMAIN artifacts'
        /\ Holds(k, ClFiles)' /\ Holds(a, KeysFiles(c.node))'
      BY <2>1, HoldsKept
  <2> QED
      BY <1>1, <1>3, <2>1, <2>2 DEF BeaconConfigured
<1>4. ASSUME ValidatorConfigured(c) PROVE ValidatorConfigured(c)'
  <2>1. PICK k \in DOMAIN artifacts, a \in DOMAIN artifacts, b \in DOMAIN artifacts :
            /\ Holds(k, ClFiles) /\ Holds(a, KeysFiles(c.node)) /\ Holds(b, PasswordFiles)
            /\ c.config = ValidatorConfig(network[c.node].cl, ClRecord(k),
                                          KeysRecord(c.node, a), PasswordRecord(b))
      BY <1>4 DEF ValidatorConfigured
  <2>2. /\ k \in DOMAIN artifacts' /\ a \in DOMAIN artifacts' /\ b \in DOMAIN artifacts'
        /\ Holds(k, ClFiles)' /\ Holds(a, KeysFiles(c.node))' /\ Holds(b, PasswordFiles)'
      BY <2>1, HoldsKept
  <2> QED
      BY <1>1, <1>4, <2>1, <2>2 DEF ValidatorConfigured
<1>5. ASSUME ToolConfigured(c) PROVE ToolConfigured(c)'
  <2>1. PICK k \in DOMAIN artifacts : /\ c.config = ToolConfig(c.kind, k)
                      /\ \A i \in DOMAIN ToolArtifacts(c.kind) :
                            Holds(k + i - 1, ToolArtifacts(c.kind)[i])
      BY <1>5 DEF ToolConfigured
  <2>2. /\ k \in DOMAIN artifacts'
        /\ \A i \in DOMAIN ToolArtifacts(c.kind) :
              Holds(k + i - 1, ToolArtifacts(c.kind)[i])'
      BY <2>1, HoldsKept
  <2> QED
      BY <1>5, <2>1, <2>2 DEF ToolConfigured
<1> QED
    BY <1>1, <1>2, <1>3, <1>4, <1>5 DEF Configured

\* A result that is kept still names what it named.
LEMMA StoredKept ==
    ASSUME Extends
    PROVE  /\ \A n : KeysStored(n) /\ keystores'[n] = keystores[n] => KeysStored(n)'
           /\ PasswordStored /\ password' = password => PasswordStored'
           /\ ElStored /\ el' = el => ElStored'
           /\ PrefundedStored /\ prefunded' = prefunded => PrefundedStored'
           /\ ClStored /\ cl' = cl => ClStored'
<1>1. ASSUME NEW n, KeysStored(n), keystores'[n] = keystores[n] PROVE KeysStored(n)'
  <2>1. PICK k \in DOMAIN artifacts : keystores[n] = KeysRecord(n, k) /\ Holds(k, KeysFiles(n))
      BY <1>1 DEF KeysStored
  <2>2. k \in DOMAIN artifacts' /\ Holds(k, KeysFiles(n))'
      BY <2>1, HoldsKept
  <2> QED
      BY <1>1, <2>1, <2>2 DEF KeysStored
<1>2. ASSUME PasswordStored, password' = password PROVE PasswordStored'
  <2>1. PICK k \in DOMAIN artifacts : password = PasswordRecord(k) /\ Holds(k, PasswordFiles)
      BY <1>2 DEF PasswordStored
  <2>2. k \in DOMAIN artifacts' /\ Holds(k, PasswordFiles)'
      BY <2>1, HoldsKept
  <2> QED
      BY <1>2, <2>1, <2>2 DEF PasswordStored
<1>3. ASSUME ElStored, el' = el PROVE ElStored'
  <2>1. PICK k \in DOMAIN artifacts : el = ElRecord(k) /\ Holds(k, ElFiles)
      BY <1>3 DEF ElStored
  <2>2. k \in DOMAIN artifacts' /\ Holds(k, ElFiles)'
      BY <2>1, HoldsKept
  <2> QED
      BY <1>3, <2>1, <2>2 DEF ElStored
<1>4. ASSUME PrefundedStored, prefunded' = prefunded PROVE PrefundedStored'
  <2>1. PICK k \in DOMAIN artifacts : prefunded = [artifact |-> k] /\ Holds(k, AccountsFiles)
      BY <1>4 DEF PrefundedStored
  <2>2. k \in DOMAIN artifacts' /\ Holds(k, AccountsFiles)'
      BY <2>1, HoldsKept
  <2> QED
      BY <1>4, <2>1, <2>2 DEF PrefundedStored
<1>5. ASSUME ClStored, cl' = cl PROVE ClStored'
  <2>1. PICK k \in DOMAIN artifacts : cl = ClRecord(k) /\ Holds(k, ClFiles)
      BY <1>5 DEF ClStored
  <2>2. k \in DOMAIN artifacts' /\ Holds(k, ClFiles)'
      BY <2>1, HoldsKept
  <2> QED
      BY <1>5, <2>1, <2>2 DEF ClStored
<1> QED
    BY <1>1, <1>2, <1>3, <1>4, <1>5

LEMMA ContentsFrom ==
    ASSUME ContentsInv, Extends, keystores' \in Seq(KeystoreRecords), ResultsInv', DiskInv',
           stage' # "validator" \/ ValidatorDue',
           \A c \in containers' : c \in containers \/ Configured(c)'
    PROVE  ContentsInv'
<1>1. \A c \in containers' : Configured(c)'
    BY ConfiguredKept DEF ContentsInv
<1>2. artifacts' \in Seq(Contents')
    BY SameContents DEF Extends
<1>3. network' \in Networks /\ deposit' \in DepositContracts
    BY DEF ContentsInv, Extends
<1>4. ValidatorDue'
    BY DEF ValidatorDue
<1> QED
    BY <1>1, <1>2, <1>3, <1>4 DEF ContentsInv, KeystoreRecords, Names

\* A step that stores no result.
LEMMA ResultsKept ==
    ASSUME ContentsInv, Extends, UNCHANGED results
    PROVE  /\ \A n \in 1..Len(keystores) : KeysStored(n)'
           /\ Len(keystores') = Len(keystores) /\ keystores' \in Seq(KeystoreRecords)
           /\ (PasswordStored => PasswordStored') /\ (ElStored => ElStored')
           /\ (PrefundedStored => PrefundedStored') /\ (ClStored => ClStored')
<1>1. /\ keystores' = keystores /\ password' = password /\ el' = el
      /\ prefunded' = prefunded /\ cl' = cl
    BY DEF results
<1> QED
    BY <1>1, StoredKept DEF ContentsInv, ResultsInv

----------------------------------------------------------------------------
(* What each generator's disk is after each of its commands.               *)

LEMMA KeystoresWritten == GenerateKeystores => disk' = KeysWritten
<1> SUFFICES ASSUME GenerateKeystores PROVE disk' = KeysWritten
    OBVIOUS
<1>1. \A n, dir : NodeDir(n) \o <<dir>> = <<NodeDirname[n], dir>>
    BY JoinedPaths
<1>2. \A n, dir : File(NodeDir(n) \o <<dir>>, Made(dir, n, {}))
                    = File(<<NodeDirname[n], dir>>, Made(dir, n, {}))
    BY <1>1, Zenon
<1>3. ASSUME NEW f \in disk' PROVE f \in KeysWritten
  <2>1. PICK n \in 1..N, dir \in KeystoreDirs :
            f = File(NodeDir(n) \o <<dir>>, Made(dir, n, {}))
      BY DEF GenerateKeystores
  <2> QED
      BY <1>2, <2>1 DEF KeysWritten
<1>4. ASSUME NEW f \in KeysWritten PROVE f \in disk'
  <2>1. PICK n \in 1..N, dir \in KeystoreDirs :
            f = File(<<NodeDirname[n], dir>>, Made(dir, n, {}))
      BY DEF KeysWritten
  <2>2. f = File(NodeDir(n) \o <<dir>>, Made(dir, n, {}))
      BY <1>2, <2>1
  <2> QED
      BY <2>2 DEF GenerateKeystores
<1> QED
    BY <1>3, <1>4

LEMMA PasswordWritten ==
    Write(KeysWritten, PasswordPath, Made("password", 0, {})) = KeysWritten \cup {PasswordFile}
<1>1. ASSUME NEW f \in KeysWritten PROVE f.path # PasswordPath
  <2>1. PICK n \in 1..N : \E dir \in KeystoreDirs :
                f = File(<<NodeDirname[n], dir>>, Made(dir, n, {}))
      BY DEF KeysWritten
  <2>2. PICK dir \in KeystoreDirs : f = File(<<NodeDirname[n], dir>>, Made(dir, n, {}))
      BY <2>1
  <2>3. f.path = <<NodeDirname[n], dir>> /\ dir # "prysm-password.txt"
      BY <2>2, FileParts DEF KeystoreDirs
  <2> QED
      BY <2>3 DEF PasswordPath
<1> QED
    BY <1>1, WriteNew DEF PasswordFile, PasswordPath

LEMMA ElGenesisWritten ==
    ASSUME NEW types \in SUBSET ELTypes, NEW type \in types
    PROVE  Write(ElWritten(ELTypes \ types), OutputDir \o <<GenesisFilename[type]>>,
                 Made(GenesisScript[type], 0, Read(ElWritten(ELTypes \ types), ElConfigPath)))
              = ElWritten(ELTypes \ (types \ {type}))
<1>1. PICK files : files = ElWritten(ELTypes \ types)
    OBVIOUS
<1>2. Made(GenesisScript[type], 0, Read(files, ElConfigPath)) = ElGenesisMade(type)
    BY <1>1, ElConfigRead DEF ElGenesisMade
<1>3. OutputDir \o <<GenesisFilename[type]>> = <<"output", GenesisFilename[type]>>
    BY JoinedPaths
<1>4. ElConfigFile.path # <<"output", GenesisFilename[type]>>
    BY FileParts DEF ElConfigFile
<1>5. ASSUME NEW other \in ELTypes \ types
      PROVE  ElGenesisFile(other).path # <<"output", GenesisFilename[type]>>
  <2>1. ElGenesisFile(other).path = <<"output", GenesisFilename[other]>>
      BY FileParts DEF ElGenesisFile
  <2>2. GenesisFilename[other] # GenesisFilename[type]
      BY GenesisNames
  <2> QED
      BY <2>1, <2>2
<1>6. \A f \in files : f.path # <<"output", GenesisFilename[type]>>
    BY <1>1, <1>4, <1>5 DEF ElWritten
<1>7. Write(files, <<"output", GenesisFilename[type]>>, ElGenesisMade(type))
          = files \cup {ElGenesisFile(type)}
    BY <1>6, WriteNew DEF ElGenesisFile
<1>8. files \cup {ElGenesisFile(type)} = ElWritten(ELTypes \ (types \ {type}))
    BY <1>1 DEF ElWritten
<1> QED
    BY <1>1, <1>2, <1>3, <1>7, <1>8

LEMMA JwtWritten ==
    Write(ElWritten(ELTypes), OutputDir \o <<JwtFilename>>, Made("elSecret", 0, {}))
        = ElWritten(ELTypes) \cup {JwtFile}
<1>1. OutputDir \o <<JwtFilename>> = <<"output", JwtFilename>>
    BY JoinedPaths
<1>2. ElConfigFile.path # <<"output", JwtFilename>>
    BY FileParts DEF ElConfigFile
<1>3. ASSUME NEW type \in ELTypes
      PROVE  ElGenesisFile(type).path # <<"output", JwtFilename>>
  <2>1. ElGenesisFile(type).path = <<"output", GenesisFilename[type]>>
      BY FileParts DEF ElGenesisFile
  <2> QED
      BY <2>1, GenesisNames
<1>4. \A f \in ElWritten(ELTypes) : f.path # <<"output", JwtFilename>>
    BY <1>2, <1>3 DEF ElWritten
<1>5. PICK files, p : files = ElWritten(ELTypes) /\ p = <<"output", JwtFilename>>
    OBVIOUS
<1>6. Write(files, p, ElSecret) = files \cup {File(p, ElSecret)}
    BY <1>4, <1>5, WriteNew
<1> QED
    BY <1>1, <1>5, <1>6 DEF JwtFile, ElSecret

\* The CL generator's own files, but for those it has still to write.
LEMMA ClWrittenNames ==
    ASSUME NEW contents, NEW f \in ClWritten(contents), NEW name,
           f.path = <<"output", name>>
    PROVE  \/ name \in {"config.yaml", "mnemonics.yaml", "jwtsecret"}
           \/ \E content \in contents : name = DynamicFiles[content]
<1>1. ASSUME NEW type,
             f = File(<<"el-genesis", "output", GenesisFilename[type]>>, ElGenesisMade(type))
      PROVE  FALSE
  <2>1. f.path = <<"el-genesis", "output", GenesisFilename[type]>>
      BY <1>1, FileParts
  <2> QED
      BY <2>1
<1>2. CASE f = File(<<"el-genesis", "output", JwtFilename>>, ElSecret)
  <2>1. f.path = <<"el-genesis", "output", JwtFilename>>
      BY <1>2, FileParts
  <2> QED
      BY <2>1
<1>3. CASE f \in {File(<<"config", "config.yaml">>, ClConfigMade),
                  File(<<"config", "mnemonics.yaml">>, MnemonicsMade)}
    BY <1>3, FileParts
<1>4. CASE f \in CopiedFiles
    BY <1>4, FileParts DEF CopiedFiles, JwtFile, JwtFilename
<1>5. ASSUME NEW content \in contents, f = DynamicFile(content)
      PROVE  name = DynamicFiles[content]
  <2>1. f.path = <<"output", DynamicFiles[content]>>
      BY <1>5, FileParts DEF DynamicFile
  <2> QED
      BY <2>1
<1> QED
    BY <1>1, <1>2, <1>3, <1>4, <1>5 DEF ClWritten, ClMounted

LEMMA DynamicFileWritten ==
    ASSUME NEW rest \in SUBSET {"0", deposit}, NEW content \in rest
    PROVE  Write(ClWritten({"0", deposit} \ rest), OutputDir \o <<DynamicFiles[content]>>,
                 Text(content))
              = ClWritten({"0", deposit} \ (rest \ {content}))
<1>1. PICK files : files = ClWritten({"0", deposit} \ rest)
    OBVIOUS
<1>2. OutputDir \o <<DynamicFiles[content]>> = <<"output", DynamicFiles[content]>>
    BY JoinedPaths
<1>3. DynamicFiles[content] \notin {"config.yaml", "mnemonics.yaml", "jwtsecret"}
    BY DynamicNames
<1>4. \A other \in {"0", deposit} \ rest : DynamicFiles[other] # DynamicFiles[content]
    BY DynamicNames
<1>5. ASSUME NEW f \in files PROVE f.path # <<"output", DynamicFiles[content]>>
  <2>1. ASSUME f.path = <<"output", DynamicFiles[content]>> PROVE FALSE
    <3>1. PICK name : name = DynamicFiles[content]
        OBVIOUS
    <3>2. f.path = <<"output", name>>
        BY <2>1, <3>1
    <3>3. PICK others : others = {"0", deposit} \ rest
        OBVIOUS
    <3>4. f \in ClWritten(others)
        BY <1>1, <3>3
    <3>5. \/ name \in {"config.yaml", "mnemonics.yaml", "jwtsecret"}
          \/ \E other \in others : name = DynamicFiles[other]
        BY <3>2, <3>4, ClWrittenNames
    <3> QED
        BY <1>3, <1>4, <3>1, <3>3, <3>5
  <2> QED
      BY <2>1
<1>6. Write(files, <<"output", DynamicFiles[content]>>, Text(content))
          = files \cup {DynamicFile(content)}
    BY <1>5, WriteNew DEF DynamicFile
<1>7. files \cup {DynamicFile(content)} = ClWritten({"0", deposit} \ (rest \ {content}))
    BY <1>1 DEF ClWritten
<1> QED
    BY <1>1, <1>2, <1>6, <1>7

LEMMA StateWritten ==
    Write(ClWritten({"0", deposit}), OutputDir \o <<"genesis.ssz">>, ClState)
        = ClWritten({"0", deposit}) \cup {StateFile}
<1>1. OutputDir \o <<"genesis.ssz">> = <<"output", "genesis.ssz">>
    BY JoinedPaths
<1>2. \A content \in {"0", deposit} : DynamicFiles[content] # "genesis.ssz"
    BY DynamicNames
<1>3. ASSUME NEW f \in ClWritten({"0", deposit}) PROVE f.path # <<"output", "genesis.ssz">>
    BY <1>2, ClWrittenNames
<1>4. PICK files, p : files = ClWritten({"0", deposit}) /\ p = <<"output", "genesis.ssz">>
    OBVIOUS
<1>5. \A f \in files : f.path # p
    BY <1>3, <1>4
<1>6. Write(files, p, ClState) = files \cup {File(p, ClState)}
    BY <1>5, WriteNew
<1> QED
    BY <1>1, <1>4, <1>6 DEF StateFile

LEMMA SameDisks ==
    ASSUME Extends
    PROVE  /\ KeysWritten' = KeysWritten
           /\ \A contents \in SUBSET {"0", deposit} : ClWritten(contents)' = ClWritten(contents)
           /\ ClWritten({"0", deposit})' = ClWritten({"0", deposit})
<1>1. N' = N /\ deposit' = deposit
    BY SameContents DEF Extends
<1>2. \A content \in {"0", deposit} : DynamicFile(content)' = DynamicFile(content)
    BY <1>1 DEF DynamicFile, DynamicFiles
<1>3. \A contents \in SUBSET {"0", deposit} : ClWritten(contents)' = ClWritten(contents)
    BY <1>2 DEF ClWritten
<1>4. ClWritten({"0", deposit})' = ClWritten({"0", deposit})
    BY <1>1, <1>2 DEF ClWritten
<1> QED
    BY <1>1, <1>3, <1>4 DEF KeysWritten

----------------------------------------------------------------------------
(* ContentsInv is inductive: action by action.                             *)

LEMMA InContents ==
    /\ \A n \in 1..N : KeysFiles(n) \in Contents
    /\ PasswordFiles \in Contents /\ ElConfigFiles \in Contents /\ ElFiles \in Contents
    /\ AccountsFiles \in Contents /\ ClConfigFiles \in Contents /\ ClFiles \in Contents
    /\ \A tool \in {"forkmon", "prometheus", "grafana"} :
          \A i \in DOMAIN ToolArtifacts(tool) : ToolArtifacts(tool)[i] \in Contents
BY DEF Contents, ToolFiles

LEMMA InitContents == Init => ContentsInv
<1> SUFFICES ASSUME Init PROVE ContentsInv
    OBVIOUS
<1>1. /\ network \in Networks /\ deposit \in DepositContracts
      /\ stage = "keystores" /\ disk = {} /\ artifacts = <<>> /\ keystores = <<>>
      /\ containers = {}
    BY DEF Init
<1>2. N \in Nat \ {0}
    BY <1>1, NodeDirs
<1>3. artifacts \in Seq(Contents) /\ keystores \in Seq(KeystoreRecords) /\ Len(keystores) = 0
    BY <1>1
<1>4. ResultsInv
    BY <1>1, <1>2, <1>3 DEF ResultsInv, BeforeEl, BeforeCl
<1>5. DiskInv
    BY <1>1 DEF DiskInv
<1> QED
    BY <1>1, <1>3, <1>4, <1>5 DEF ContentsInv, ValidatorDue

LEMMA GenerateKeystoresContents ==
    ASSUME ContentsInv, GenerateKeystores
    PROVE  ContentsInv'
<1>1. Extends
    BY SameArtifacts DEF GenerateKeystores
<1>2. /\ stage = "keystores" /\ stage' = "storeKeys"
      /\ UNCHANGED results /\ containers' = containers
    BY DEF GenerateKeystores
<1>3. disk' = KeysWritten'
    BY <1>1, KeystoresWritten, SameDisks
<1>4. N \in Nat \ {0} /\ N' = N
    BY <1>1, NodeDirs, SameContents DEF ContentsInv, Extends
<1>5. ResultsInv'
  <2>1. Len(keystores) = 0
      BY <1>2 DEF ContentsInv, ResultsInv
  <2>2. Len(keystores') = 0 /\ Len(keystores') < N' /\ N' \in Nat
      BY <1>1, <1>2, <1>4, <2>1, ResultsKept
  <2>3. \A n \in 1..Len(keystores') : KeysStored(n)'
      BY <2>2
  <2>4. stage' = "storeKeys" /\ Len(keystores') <= N'
      BY <1>2, <2>2
  <2> QED
      BY <2>2, <2>3, <2>4 DEF ResultsInv, BeforeEl, BeforeCl
<1>6. DiskInv'
    BY <1>2, <1>3 DEF DiskInv
<1> QED
    BY <1>1, <1>2, <1>5, <1>6, ResultsKept, ContentsFrom

LEMMA StoreKeysContents ==
    ASSUME ContentsInv, StoreKeys
    PROVE  ContentsInv'
<1>1. PICK n : n = Len(keystores) + 1
    OBVIOUS
<1>2. /\ stage = "storeKeys" /\ Len(keystores) < N /\ keystores \in Seq(KeystoreRecords)
      /\ Len(keystores) \in Nat /\ N \in Nat
    BY NodeDirs DEF StoreKeys, ContentsInv, ResultsInv
<1>3. n \in 1..N /\ n \in DOMAIN NodeDirname
    BY <1>1, <1>2, NodeDirs DEF ContentsInv
<1>4. Stored(disk, NodeDir(n)) = KeysFiles(n)
    BY <1>2, <1>3, StoredKeys DEF ContentsInv, DiskInv
<1>5. artifacts' = Append(artifacts, KeysFiles(n)) /\ UNCHANGED <<network, deposit>>
    BY <1>1, <1>4 DEF StoreKeys
<1>6. KeysFiles(n) \in Contents
    BY <1>3, InContents
<1>7. /\ Extends /\ NewArtifact \in DOMAIN artifacts' /\ artifacts'[NewArtifact] = KeysFiles(n)
      /\ NewArtifact \in Nat
    BY <1>5, <1>6, OneArtifactMore
<1>8. PICK k : k = NewArtifact
    OBVIOUS
<1>9. PICK record : record = KeysRecord(n, k)
    OBVIOUS
<1>10. keystores' = Append(keystores, record)
  <2>1. PICK base : base = Base(NodeDir(n))
      OBVIOUS
  <2>2. base = <<NodeDirname[n]>>
      BY <2>1, Bases DEF NodeDir
  <2>3. /\ base \o <<"keys">> = <<NodeDirname[n], "keys">>
        /\ base \o <<"secrets">> = <<NodeDirname[n], "secrets">>
        /\ base \o <<"nimbus-keys">> = <<NodeDirname[n], "nimbus-keys">>
        /\ base \o <<"prysm">> = <<NodeDirname[n], "prysm">>
        /\ base \o <<"teku-keys">> = <<NodeDirname[n], "teku-keys">>
        /\ base \o <<"teku-secrets">> = <<NodeDirname[n], "teku-secrets">>
      BY <2>2, Join11
  <2>4. keystores' = Append(keystores,
                 [artifact    |-> k,
                  rawKeys     |-> base \o <<"keys">>,
                  rawSecrets  |-> base \o <<"secrets">>,
                  nimbusKeys  |-> base \o <<"nimbus-keys">>,
                  prysm       |-> base \o <<"prysm">>,
                  tekuKeys    |-> base \o <<"teku-keys">>,
                  tekuSecrets |-> base \o <<"teku-secrets">>])
      BY <1>1, <1>8, <2>1 DEF StoreKeys
  <2> QED
      BY <1>9, <2>3, <2>4 DEF KeysRecord
<1>11. record \in KeystoreRecords
  <2>1. NodeDirname[n] \in Names /\ KeystoreDirs \subseteq Names
      BY <1>3 DEF Names
  <2>2. \A dir \in KeystoreDirs : <<NodeDirname[n], dir>> \in Seq(Names)
      BY <2>1
  <2> QED
      BY <1>7, <1>8, <1>9, <2>2 DEF KeysRecord, KeystoreRecords, KeystoreDirs
<1>12. /\ keystores' \in Seq(KeystoreRecords) /\ Len(keystores') = n
       /\ \A m \in 1..Len(keystores) : keystores'[m] = keystores[m]
       /\ keystores'[n] = record
    BY <1>1, <1>2, <1>10, <1>11, AppendProperties
<1>13. \A m \in 1..Len(keystores) : KeysStored(m)'
    BY <1>7, <1>12, StoredKept DEF ContentsInv, ResultsInv
<1>14. KeysStored(n)'
    BY <1>7, <1>8, <1>9, <1>12 DEF KeysStored, Holds
<1>15. \A m \in 1..n : KeysStored(m)'
  <2>1. \A m \in 1..n : m = n \/ m \in 1..Len(keystores)
      BY <1>1, <1>2
  <2> QED
      BY <1>13, <1>14, <2>1
<1>16. /\ stage' = IF n = N THEN "password" ELSE "storeKeys"
       /\ disk' = disk /\ containers' = containers
    BY <1>1 DEF StoreKeys
<1>17. N' = N /\ KeysWritten' = KeysWritten
    BY <1>7, SameContents, SameDisks DEF Extends
<1>18. ResultsInv'
    BY <1>2, <1>3, <1>12, <1>15, <1>16, <1>17 DEF ResultsInv, BeforeEl, BeforeCl
<1>19. DiskInv'
    BY <1>2, <1>16, <1>17 DEF ContentsInv, DiskInv
<1> QED
    BY <1>7, <1>12, <1>16, <1>18, <1>19, ContentsFrom

LEMMA WritePasswordContents ==
    ASSUME ContentsInv, WritePassword
    PROVE  ContentsInv'
<1>1. Extends
    BY SameArtifacts DEF WritePassword
<1>2. /\ stage = "password" /\ stage' = "storePassword"
      /\ UNCHANGED results /\ containers' = containers
    BY DEF WritePassword
<1>3. disk = KeysWritten
    BY <1>2 DEF ContentsInv, DiskInv
<1>4. disk' = KeysWritten' \cup {PasswordFile}
    BY <1>1, <1>3, PasswordWritten, SameDisks DEF WritePassword
<1>5. N' = N
    BY <1>1, SameContents DEF Extends
<1>6. ResultsInv'
    BY <1>1, <1>2, <1>5, ResultsKept DEF ContentsInv, ResultsInv, BeforeEl, BeforeCl
<1>7. DiskInv'
    BY <1>2, <1>4 DEF DiskInv
<1> QED
    BY <1>1, <1>2, <1>6, <1>7, ResultsKept, ContentsFrom

LEMMA StorePasswordContents ==
    ASSUME ContentsInv, StorePassword
    PROVE  ContentsInv'
<1>1. /\ stage = "storePassword" /\ stage' = "elConfig" /\ disk' = {}
      /\ UNCHANGED <<network, deposit, keystores, containers>>
    BY DEF StorePassword
<1>2. disk = KeysWritten \cup {PasswordFile}
    BY <1>1 DEF ContentsInv, DiskInv
<1>3. artifacts' = Append(artifacts, PasswordFiles)
    BY <1>2, StoredPassword DEF StorePassword
<1>4. /\ Extends /\ NewArtifact \in DOMAIN artifacts' /\ artifacts'[NewArtifact] = PasswordFiles
    BY <1>1, <1>3, InContents, OneArtifactMore
<1>5. PICK k : k = NewArtifact
    OBVIOUS
<1>6. password' = PasswordRecord(k)
    BY <1>5, Bases DEF StorePassword, PasswordPath, PasswordRecord
<1>7. PasswordStored'
    BY <1>4, <1>5, <1>6 DEF PasswordStored, Holds
<1>8. \A n \in 1..Len(keystores) : KeysStored(n)'
    BY <1>1, <1>4, StoredKept DEF ContentsInv, ResultsInv
<1>9. N' = N
    BY <1>4, SameContents DEF Extends
<1>10. ResultsInv'
    BY <1>1, <1>7, <1>8, <1>9 DEF ContentsInv, ResultsInv, BeforeEl, BeforeCl
<1>11. DiskInv'
    BY <1>1 DEF DiskInv
<1> QED
    BY <1>1, <1>4, <1>10, <1>11, ContentsFrom DEF ContentsInv

LEMMA LaunchElGeneratorContents ==
    ASSUME ContentsInv, LaunchElGenerator
    PROVE  ContentsInv'
<1>1. /\ stage = "elConfig" /\ stage' = "elGenesis" /\ todo' = ELTypes
      /\ UNCHANGED <<network, deposit>> /\ UNCHANGED results /\ containers' = containers
    BY DEF LaunchElGenerator
<1>2. artifacts' = Append(artifacts, ElConfigFiles)
    BY DEF LaunchElGenerator, ElConfigFiles, ElConfigMade
<1>3. Extends /\ artifacts'[NewArtifact] = ElConfigFiles
    BY <1>1, <1>2, InContents, OneArtifactMore
<1>4. disk' = ElWritten({})
  <2>1. PICK store, k : store = artifacts' /\ k = NewArtifact
      OBVIOUS
  <2>2. disk' = Mounted(store, {Mount(k, ConfigDir)})
      BY <2>1 DEF LaunchElGenerator
  <2> QED
      BY <1>3, <2>1, <2>2, MountedElConfig
<1>5. N' = N
    BY <1>3, SameContents DEF Extends
<1>6. ResultsInv'
    BY <1>1, <1>3, <1>5, ResultsKept DEF ContentsInv, ResultsInv, BeforeEl, BeforeCl
<1>7. DiskInv'
  <2>1. ELTypes \ ELTypes = {}
      OBVIOUS
  <2> QED
      BY <1>1, <1>4, <2>1 DEF DiskInv
<1> QED
    BY <1>1, <1>3, <1>6, <1>7, ResultsKept, ContentsFrom

LEMMA GenerateElGenesisContents ==
    ASSUME ContentsInv, GenerateElGenesis
    PROVE  ContentsInv'
<1>1. Extends
    BY SameArtifacts DEF GenerateElGenesis
<1>2. stage = "elGenesis" /\ UNCHANGED results /\ containers' = containers
    BY DEF GenerateElGenesis
<1>3. PICK type \in todo :
          /\ disk' = Write(disk, OutputDir \o <<GenesisFilename[type]>>,
                           Made(GenesisScript[type], 0, Read(disk, ElConfigPath)))
          /\ todo' = todo \ {type}
          /\ stage' = IF todo' = {} THEN "jwt" ELSE "elGenesis"
    BY DEF GenerateElGenesis
<1>4. todo \in SUBSET ELTypes /\ disk = ElWritten(ELTypes \ todo)
    BY <1>2 DEF ContentsInv, DiskInv
<1>5. disk' = ElWritten(ELTypes \ todo')
    BY <1>3, <1>4, ElGenesisWritten
<1>6. N' = N
    BY <1>1, SameContents DEF Extends
<1>7. ResultsInv'
    BY <1>1, <1>2, <1>3, <1>6, ResultsKept DEF ContentsInv, ResultsInv, BeforeEl, BeforeCl
<1>8. DiskInv'
  <2>1. CASE todo' = {}
    <3>1. ELTypes \ todo' = ELTypes
        BY <2>1
    <3> QED
        BY <1>3, <1>5, <2>1, <3>1 DEF DiskInv
  <2>2. CASE todo' # {}
    <3>1. todo' \subseteq ELTypes
        BY <1>3, <1>4
    <3> QED
        BY <1>3, <1>5, <2>2, <3>1 DEF DiskInv
  <2> QED
      BY <2>1, <2>2
<1> QED
    BY <1>1, <1>2, <1>3, <1>7, <1>8, ResultsKept, ContentsFrom

LEMMA GenerateJwtContents ==
    ASSUME ContentsInv, GenerateJwt
    PROVE  ContentsInv'
<1>1. Extends
    BY SameArtifacts DEF GenerateJwt
<1>2. /\ stage = "jwt" /\ stage' = "storeEl"
      /\ UNCHANGED results /\ containers' = containers
    BY DEF GenerateJwt
<1>3. disk = ElWritten(ELTypes)
    BY <1>2 DEF ContentsInv, DiskInv
<1>4. disk' = ElWritten(ELTypes) \cup {JwtFile}
    BY <1>3, JwtWritten DEF GenerateJwt
<1>5. N' = N
    BY <1>1, SameContents DEF Extends
<1>6. ResultsInv'
    BY <1>1, <1>2, <1>5, ResultsKept DEF ContentsInv, ResultsInv, BeforeEl, BeforeCl
<1>7. DiskInv'
    BY <1>2, <1>4 DEF DiskInv
<1> QED
    BY <1>1, <1>2, <1>6, <1>7, ResultsKept, ContentsFrom

LEMMA StoreElContents ==
    ASSUME ContentsInv, StoreEl
    PROVE  ContentsInv'
<1>1. /\ stage = "storeEl" /\ stage' = "upload" /\ disk' = {}
      /\ UNCHANGED <<network, deposit, keystores, password, containers>>
    BY DEF StoreEl
<1>2. disk = ElWritten(ELTypes) \cup {JwtFile}
    BY <1>1 DEF ContentsInv, DiskInv
<1>3. artifacts' = Append(artifacts, ElFiles)
    BY <1>2, StoredEl DEF StoreEl
<1>4. /\ Extends /\ NewArtifact \in DOMAIN artifacts' /\ artifacts'[NewArtifact] = ElFiles
    BY <1>1, <1>3, InContents, OneArtifactMore
<1>5. PICK k : k = NewArtifact
    OBVIOUS
<1>6. el' = ElRecord(k)
  <2>1. Base(OutputDir) = <<"output">>
      BY Bases DEF OutputDir
  <2>2. \A name : Base(OutputDir) \o <<name>> = <<"output", name>>
      BY <2>1, Join11
  <2>3. [type \in ELTypes |-> Base(OutputDir) \o <<GenesisFilename[type]>>]
            = [type \in ELTypes |-> <<"output", GenesisFilename[type]>>]
      BY <2>2
  <2>4. Base(OutputDir) \o <<JwtFilename>> = <<"output", JwtFilename>>
      BY <2>2
  <2>5. el' = [artifact |-> k,
               jwt      |-> Base(OutputDir) \o <<JwtFilename>>,
               genesis  |-> [type \in ELTypes |-> Base(OutputDir) \o <<GenesisFilename[type]>>]]
      BY <1>5 DEF StoreEl
  <2> QED
      BY <2>3, <2>4, <2>5 DEF ElRecord
<1>7. ElStored'
    BY <1>4, <1>5, <1>6 DEF ElStored, Holds
<1>8. \A n \in 1..Len(keystores) : KeysStored(n)'
    BY <1>1, <1>4, StoredKept DEF ContentsInv, ResultsInv
<1>9. PasswordStored'
    BY <1>1, <1>4, StoredKept DEF ContentsInv, ResultsInv
<1>10. N' = N
    BY <1>4, SameContents DEF Extends
<1>11. ResultsInv'
    BY <1>1, <1>7, <1>8, <1>9, <1>10 DEF ContentsInv, ResultsInv, BeforeEl, BeforeCl
<1>12. DiskInv'
    BY <1>1 DEF DiskInv
<1> QED
    BY <1>1, <1>4, <1>11, <1>12, ContentsFrom DEF ContentsInv

LEMMA UploadContents ==
    ASSUME ContentsInv, UploadPrefundedKeys
    PROVE  ContentsInv'
<1>1. /\ stage = "upload" /\ stage' = "el" /\ disk' = disk
      /\ UNCHANGED <<network, deposit, keystores, password, el, containers>>
    BY DEF UploadPrefundedKeys
<1>2. artifacts' = Append(artifacts, AccountsFiles)
    BY DEF UploadPrefundedKeys, AccountsFiles, Accounts
<1>3. /\ Extends /\ NewArtifact \in DOMAIN artifacts' /\ artifacts'[NewArtifact] = AccountsFiles
    BY <1>1, <1>2, InContents, OneArtifactMore
<1>4. PICK k : k = NewArtifact
    OBVIOUS
<1>5. prefunded' = [artifact |-> k]
    BY <1>4 DEF UploadPrefundedKeys
<1>6. PrefundedStored'
    BY <1>3, <1>4, <1>5 DEF PrefundedStored, Holds
<1>7. \A n \in 1..Len(keystores) : KeysStored(n)'
    BY <1>1, <1>3, StoredKept DEF ContentsInv, ResultsInv
<1>8. PasswordStored' /\ ElStored'
    BY <1>1, <1>3, StoredKept DEF ContentsInv, ResultsInv, BeforeEl
<1>9. N' = N
    BY <1>3, SameContents DEF Extends
<1>10. ResultsInv'
    BY <1>1, <1>6, <1>7, <1>8, <1>9 DEF ContentsInv, ResultsInv, BeforeEl, BeforeCl
<1>11. DiskInv'
    BY <1>1 DEF ContentsInv, DiskInv
<1> QED
    BY <1>1, <1>3, <1>10, <1>11, ContentsFrom DEF ContentsInv

LEMMA LaunchElContents ==
    ASSUME ContentsInv, NetworkInv, LaunchEl
    PROVE  ContentsInv'
<1>1. PICK n : n = NodeInHand("el")
    OBVIOUS
<1>2. /\ stage = "el" /\ stage' \in {"el", "clConfig"} /\ disk' = disk /\ UNCHANGED results
      /\ UNCHANGED <<network, deposit, artifacts>>
    BY DEF LaunchEl
<1>3. Extends
    BY <1>2, SameArtifacts
<1>4. n \in 1..N /\ N' = N
    BY <1>1, <1>2, <1>3, CountsNat, NodeDirs, SameContents
    DEF NetworkInv, StageInv, NodeInHand, Extends
<1>5. ElStored /\ PrefundedStored
    BY <1>2 DEF ContentsInv, ResultsInv, BeforeEl
<1>6. PICK k \in DOMAIN artifacts : el = ElRecord(k) /\ Holds(k, ElFiles)
    BY <1>5 DEF ElStored
<1>7. PICK a \in DOMAIN artifacts : prefunded = [artifact |-> a] /\ Holds(a, AccountsFiles)
    BY <1>5 DEF PrefundedStored
<1>8. PICK config : config = ElConfig(network[n].el, ElRecord(k), a)
    OBVIOUS
<1>9. PICK c : c = Container("el", n, config, {})
    OBVIOUS
<1>10. containers' = containers \cup {c}
    BY <1>1, <1>6, <1>7, <1>8, <1>9 DEF LaunchEl
<1>11. c.kind = "el" /\ c.node = n /\ c.config = config
    BY <1>9 DEF Container
<1>12. ElConfigured(c)
    BY <1>4, <1>6, <1>7, <1>8, <1>11 DEF ElConfigured
<1>13. Configured(c)'
  <2>1. Configured(c)
      BY <1>11, <1>12 DEF Configured
  <2> QED
      BY <1>3, <2>1, ConfiguredKept
<1>14. ResultsInv'
    BY <1>2, <1>3, <1>4, ResultsKept DEF ContentsInv, ResultsInv, BeforeEl, BeforeCl
<1>15. DiskInv'
    BY <1>2 DEF ContentsInv, DiskInv
<1> QED
    BY <1>2, <1>3, <1>10, <1>13, <1>14, <1>15, ResultsKept, ContentsFrom

LEMMA LaunchClGeneratorContents ==
    ASSUME ContentsInv, LaunchClGenerator
    PROVE  ContentsInv'
<1>1. /\ stage = "clConfig" /\ stage' = "copy"
      /\ UNCHANGED <<network, deposit>> /\ UNCHANGED results /\ containers' = containers
    BY DEF LaunchClGenerator
<1>2. artifacts' = Append(artifacts, ClConfigFiles)
    BY DEF LaunchClGenerator, ClConfigFiles, ClConfigMade, MnemonicsMade
<1>3. Extends /\ artifacts'[NewArtifact] = ClConfigFiles
    BY <1>1, <1>2, InContents, OneArtifactMore
<1>4. PICK e \in DOMAIN artifacts : el = ElRecord(e) /\ Holds(e, ElFiles)
    BY <1>1 DEF ContentsInv, ResultsInv, ElStored, BeforeEl
<1>5. artifacts'[e] = ElFiles
    BY <1>3, <1>4 DEF Holds, Extends, Grows
<1>6. disk' = ClMounted
  <2>1. PICK store, k : store = artifacts' /\ k = NewArtifact
      OBVIOUS
  <2>2. el.artifact = e
      BY <1>4, ElRecordPaths
  <2>3. disk' = Mounted(store, {Mount(k, ConfigDir), Mount(e, ElGenesisDir)})
      BY <2>1, <2>2 DEF LaunchClGenerator
  <2> QED
      BY <1>3, <1>5, <2>1, <2>3, MountedCl
<1>7. N' = N
    BY <1>3, SameContents DEF Extends
<1>8. ResultsInv'
    BY <1>1, <1>3, <1>7, ResultsKept DEF ContentsInv, ResultsInv, BeforeEl, BeforeCl
<1>9. DiskInv'
    BY <1>1, <1>6 DEF DiskInv
<1> QED
    BY <1>1, <1>3, <1>8, <1>9, ResultsKept, ContentsFrom

LEMMA CopyToOutputContents ==
    ASSUME ContentsInv, CopyToOutput
    PROVE  ContentsInv'
<1>1. Extends
    BY SameArtifacts DEF CopyToOutput
<1>2. /\ stage = "copy" /\ stage' = "dynamic" /\ UNCHANGED results /\ containers' = containers
      /\ todo' = {"0", deposit}
    BY DEF CopyToOutput, DynamicFiles
<1>3. disk = ClMounted
    BY <1>2 DEF ContentsInv, DiskInv
<1>4. PICK e \in DOMAIN artifacts : el = ElRecord(e)
    BY <1>2 DEF ContentsInv, ResultsInv, ElStored, BeforeEl
<1>5. disk' = ClMounted \cup CopiedFiles
    BY <1>3, <1>4, Copied DEF CopyToOutput
<1>6. N' = N /\ deposit' = deposit
    BY <1>1, SameContents DEF Extends
<1>7. disk' = ClWritten({"0", deposit} \ todo)'
    BY <1>2, <1>5, <1>6 DEF ClWritten
<1>8. ResultsInv'
    BY <1>1, <1>2, <1>6, ResultsKept DEF ContentsInv, ResultsInv, BeforeEl, BeforeCl
<1>9. DiskInv'
    BY <1>2, <1>6, <1>7 DEF DiskInv
<1> QED
    BY <1>1, <1>2, <1>8, <1>9, ResultsKept, ContentsFrom

LEMMA WriteDynamicFileContents ==
    ASSUME ContentsInv, WriteDynamicFile
    PROVE  ContentsInv'
<1>1. Extends
    BY SameArtifacts DEF WriteDynamicFile
<1>2. stage = "dynamic" /\ UNCHANGED results /\ containers' = containers
    BY DEF WriteDynamicFile
<1>3. PICK content \in todo :
          /\ disk' = Write(disk, OutputDir \o <<DynamicFiles[content]>>, Text(content))
          /\ todo' = todo \ {content}
          /\ stage' = IF todo' = {} THEN "clGenesis" ELSE "dynamic"
    BY DEF WriteDynamicFile
<1>4. todo \in SUBSET {"0", deposit} /\ disk = ClWritten({"0", deposit} \ todo)
    BY <1>2 DEF ContentsInv, DiskInv
<1>5. disk' = ClWritten({"0", deposit} \ (todo \ {content}))
    BY <1>3, <1>4, DynamicFileWritten
<1>6. N' = N /\ deposit' = deposit
    BY <1>1, SameContents DEF Extends
<1>7. PICK contents \in SUBSET {"0", deposit} : contents = {"0", deposit} \ (todo \ {content})
    OBVIOUS
<1>8. disk' = ClWritten(contents)' /\ contents = {"0", deposit'} \ todo'
    BY <1>1, <1>3, <1>5, <1>6, <1>7, SameDisks
<1>9. ResultsInv'
    BY <1>1, <1>2, <1>3, <1>6, ResultsKept DEF ContentsInv, ResultsInv, BeforeEl, BeforeCl
<1>10. DiskInv'
  <2>1. CASE todo' = {}
    <3>1. contents = {"0", deposit'}
        BY <1>8, <2>1
    <3>2. disk' = ClWritten({"0", deposit})'
        BY <1>8, <3>1 DEF ClWritten
    <3> QED
        BY <1>3, <2>1, <3>2 DEF DiskInv
  <2>2. CASE todo' # {}
    <3>1. todo' \subseteq {"0", deposit'}
        BY <1>3, <1>4, <1>6
    <3>2. disk' = ClWritten({"0", deposit} \ todo)'
        BY <1>8 DEF ClWritten
    <3> QED
        BY <1>3, <2>2, <3>1, <3>2 DEF DiskInv
  <2> QED
      BY <2>1, <2>2
<1> QED
    BY <1>1, <1>2, <1>3, <1>9, <1>10, ResultsKept, ContentsFrom

LEMMA GenerateClGenesisContents ==
    ASSUME ContentsInv, GenerateClGenesis
    PROVE  ContentsInv'
<1>1. Extends
    BY SameArtifacts DEF GenerateClGenesis
<1>2. /\ stage = "clGenesis" /\ stage' = "storeCl"
      /\ UNCHANGED results /\ containers' = containers
    BY DEF GenerateClGenesis
<1>3. disk = ClWritten({"0", deposit})
    BY <1>2 DEF ContentsInv, DiskInv
<1>4. PICK e \in DOMAIN artifacts : el = ElRecord(e)
    BY <1>2 DEF ContentsInv, ResultsInv, ElStored, BeforeEl
<1>5. Made("eth2-testnet-genesis", 0, UNION {Read(disk, path) : path \in StateInputs}) = ClState
    BY <1>3, <1>4, StateRead DEF ClState
<1>6. disk' = ClWritten({"0", deposit}) \cup {StateFile}
    BY <1>3, <1>5, StateWritten DEF GenerateClGenesis
<1>7. disk' = ClWritten({"0", deposit})' \cup {StateFile}
    BY <1>1, <1>6, SameDisks
<1>8. N' = N
    BY <1>1, SameContents DEF Extends
<1>9. ResultsInv'
    BY <1>1, <1>2, <1>8, ResultsKept DEF ContentsInv, ResultsInv, BeforeEl, BeforeCl
<1>10. DiskInv'
    BY <1>2, <1>7 DEF DiskInv
<1> QED
    BY <1>1, <1>2, <1>9, <1>10, ResultsKept, ContentsFrom

LEMMA StoreClContents ==
    ASSUME ContentsInv, StoreCl
    PROVE  ContentsInv'
<1>1. /\ stage = "storeCl" /\ stage' = "beacon" /\ disk' = {}
      /\ UNCHANGED <<network, deposit, keystores, password, el, prefunded, containers>>
    BY DEF StoreCl
<1>2. disk = ClWritten({"0", deposit}) \cup {StateFile}
    BY <1>1 DEF ContentsInv, DiskInv
<1>3. artifacts' = Append(artifacts, ClFiles)
    BY <1>2, StoredCl DEF StoreCl
<1>4. /\ Extends /\ NewArtifact \in DOMAIN artifacts' /\ artifacts'[NewArtifact] = ClFiles
    BY <1>1, <1>3, InContents, OneArtifactMore
<1>5. PICK k : k = NewArtifact
    OBVIOUS
<1>6. PasswordStored /\ ElStored /\ PrefundedStored
    BY <1>1 DEF ContentsInv, ResultsInv, BeforeEl
<1>7. el.jwt = <<"output", JwtFilename>>
    BY <1>6, ElRecordPaths DEF ElStored
<1>8. cl' = ClRecord(k)
  <2>1. Base(OutputDir) = <<"output">>
      BY Bases DEF OutputDir
  <2>2. Base(el.jwt) = <<JwtFilename>>
      BY <1>7, Bases
  <2>3. /\ Base(OutputDir) \o Base(el.jwt) = <<"output", JwtFilename>>
        /\ Base(OutputDir) \o <<"config.yaml">> = <<"output", "config.yaml">>
        /\ Base(OutputDir) \o <<"genesis.ssz">> = <<"output", "genesis.ssz">>
      BY <2>1, <2>2, Join11
  <2> QED
      BY <1>5, <2>3 DEF StoreCl, ClRecord
<1>9. ClStored'
    BY <1>1, <1>4, <1>5, <1>8, SameContents DEF ClStored, Holds
<1>10. \A n \in 1..Len(keystores) : KeysStored(n)'
    BY <1>1, <1>4, StoredKept DEF ContentsInv, ResultsInv
<1>11. PasswordStored' /\ ElStored' /\ PrefundedStored'
    BY <1>1, <1>4, <1>6, StoredKept
<1>12. N' = N
    BY <1>4, SameContents DEF Extends
<1>13. ResultsInv'
    BY <1>1, <1>9, <1>10, <1>11, <1>12 DEF ContentsInv, ResultsInv, BeforeEl, BeforeCl
<1>14. DiskInv'
    BY <1>1 DEF DiskInv
<1> QED
    BY <1>1, <1>4, <1>13, <1>14, ContentsFrom DEF ContentsInv

\* A node's keystores, when there are those of all the nodes.
LEMMA KeysInHand ==
    ASSUME ContentsInv, stage \in {"beacon", "validator"}, NEW n \in 1..N
    PROVE  \E a \in DOMAIN artifacts : keystores[n] = KeysRecord(n, a) /\ Holds(a, KeysFiles(n))
<1>1. Len(keystores) = N
    BY DEF ContentsInv, ResultsInv
<1> QED
    BY <1>1 DEF ContentsInv, ResultsInv, KeysStored

LEMMA LaunchSidecarContents ==
    ASSUME ContentsInv, NetworkInv, LaunchSidecar
    PROVE  ContentsInv'
<1>1. PICK n : n = NodeInHand("beacon")
    OBVIOUS
<1>2. /\ stage = "beacon" /\ stage' = stage /\ disk' = disk /\ UNCHANGED results
      /\ UNCHANGED <<network, deposit, artifacts>>
    BY DEF LaunchSidecar
<1>3. Extends
    BY <1>2, SameArtifacts
<1>4. n \in 1..N /\ N' = N
    BY <1>1, <1>2, <1>3, CountsNat, NodeDirs, SameContents
    DEF NetworkInv, StageInv, NodeInHand, Extends
<1>5. PICK c : c = Container("mevBoost", n, SidecarConfig, {})
    OBVIOUS
<1>6. containers' = containers \cup {c}
    BY <1>1, <1>5 DEF LaunchSidecar
<1>7. Configured(c)
    BY <1>4, <1>5 DEF Configured, Container
<1>8. Configured(c)'
    BY <1>3, <1>7, ConfiguredKept
<1>9. ResultsInv'
    BY <1>2, <1>3, <1>4, ResultsKept DEF ContentsInv, ResultsInv, BeforeEl, BeforeCl
<1>10. DiskInv'
    BY <1>2 DEF ContentsInv, DiskInv
<1> QED
    BY <1>2, <1>3, <1>6, <1>8, <1>9, <1>10, ResultsKept, ContentsFrom

LEMMA LaunchBeaconContents ==
    ASSUME ContentsInv, NetworkInv, LaunchBeacon
    PROVE  ContentsInv'
<1>1. PICK n : n = NodeInHand("beacon")
    OBVIOUS
<1>2. /\ stage = "beacon" /\ disk' = disk /\ UNCHANGED results
      /\ UNCHANGED <<network, deposit, artifacts>>
    BY DEF LaunchBeacon
<1>3. stage' \in IF network[n].cl \in Split THEN {"validator"} ELSE AfterNode(n)
    BY <1>1 DEF LaunchBeacon
<1>4. /\ stage' \in {"validator", "beacon", "spammer", "done"}
      /\ stage' = "validator" => network[n].cl \in Split
    BY <1>3 DEF AfterNode
<1>5. Extends
    BY <1>2, SameArtifacts
<1>6. n \in 1..N /\ N' = N
    BY <1>1, <1>2, <1>5, CountsNat, NodeDirs, SameContents
    DEF NetworkInv, StageInv, NodeInHand, Extends
<1>7. PICK k \in DOMAIN artifacts : cl = ClRecord(k) /\ Holds(k, ClFiles)
    BY <1>2 DEF ContentsInv, ResultsInv, ClStored, BeforeEl, BeforeCl
<1>8. PICK a \in DOMAIN artifacts : keystores[n] = KeysRecord(n, a) /\ Holds(a, KeysFiles(n))
    BY <1>2, <1>6, KeysInHand
<1>9. PICK config : config = BeaconConfig(network[n].cl, ClRecord(k), KeysRecord(n, a))
    OBVIOUS
<1>10. PICK c : c = Container("beacon", n, config, BeaconAsks(n, network[n]))
    OBVIOUS
<1>11. containers' = containers \cup {c}
    BY <1>1, <1>7, <1>8, <1>9, <1>10 DEF LaunchBeacon
<1>12. c.kind = "beacon" /\ c.node = n /\ c.config = config
    BY <1>10 DEF Container
<1>13. BeaconConfigured(c)
    BY <1>6, <1>7, <1>8, <1>9, <1>12 DEF BeaconConfigured
<1>14. Configured(c)'
  <2>1. Configured(c)
      BY <1>12, <1>13 DEF Configured
  <2> QED
      BY <1>5, <2>1, ConfiguredKept
<1>15. ValidatorDue'
  <2>1. Count("beacon")' = n
      BY <1>1, <1>11, <1>12, OneMore DEF NetworkInv, NodeInHand
  <2> QED
      BY <1>2, <1>4, <2>1 DEF ValidatorDue
<1>16. ResultsInv'
    BY <1>2, <1>4, <1>5, <1>6, ResultsKept DEF ContentsInv, ResultsInv, BeforeEl, BeforeCl
<1>17. DiskInv'
    BY <1>2, <1>4 DEF ContentsInv, DiskInv
<1> QED
    BY <1>5, <1>2, <1>11, <1>14, <1>15, <1>16, <1>17, ResultsKept, ContentsFrom

LEMMA LaunchValidatorContents ==
    ASSUME ContentsInv, NetworkInv, LaunchValidator
    PROVE  ContentsInv'
<1>1. PICK n : n = Count("beacon")
    OBVIOUS
<1>2. /\ stage = "validator" /\ disk' = disk /\ UNCHANGED results
      /\ UNCHANGED <<network, deposit, artifacts>>
    BY DEF LaunchValidator
<1>3. stage' \in {"beacon", "spammer", "done"}
    BY DEF LaunchValidator, AfterNode
<1>4. Extends
    BY <1>2, SameArtifacts
<1>5. n \in 1..N /\ N' = N
    BY <1>1, <1>2, <1>4, CountsNat, NodeDirs, SameContents
    DEF NetworkInv, NumbersInv, StageInv, Extends
<1>6. network[n].cl \in Split
    BY <1>1, <1>2 DEF ContentsInv, ValidatorDue
<1>7. PICK k \in DOMAIN artifacts : cl = ClRecord(k) /\ Holds(k, ClFiles)
    BY <1>2 DEF ContentsInv, ResultsInv, ClStored, BeforeEl, BeforeCl
<1>8. PICK a \in DOMAIN artifacts : keystores[n] = KeysRecord(n, a) /\ Holds(a, KeysFiles(n))
    BY <1>2, <1>5, KeysInHand
<1>9. PICK b \in DOMAIN artifacts : password = PasswordRecord(b) /\ Holds(b, PasswordFiles)
    BY <1>2 DEF ContentsInv, ResultsInv, PasswordStored
<1>10. PICK config : config = ValidatorConfig(network[n].cl, ClRecord(k), KeysRecord(n, a),
                                              PasswordRecord(b))
    OBVIOUS
<1>11. PICK c : c = Container("validator", n, config, ValidatorAsks(n, network[n]))
    OBVIOUS
<1>12. containers' = containers \cup {c}
    BY <1>1, <1>7, <1>8, <1>9, <1>10, <1>11 DEF LaunchValidator
<1>13. c.kind = "validator" /\ c.node = n /\ c.config = config
    BY <1>11 DEF Container
<1>14. ValidatorConfigured(c)
    BY <1>5, <1>6, <1>7, <1>8, <1>9, <1>10, <1>13 DEF ValidatorConfigured
<1>15. Configured(c)'
  <2>1. Configured(c)
      BY <1>13, <1>14 DEF Configured
  <2> QED
      BY <1>4, <2>1, ConfiguredKept
<1>16. ResultsInv'
    BY <1>2, <1>3, <1>4, <1>5, ResultsKept DEF ContentsInv, ResultsInv, BeforeEl, BeforeCl
<1>17. DiskInv'
    BY <1>2, <1>3 DEF ContentsInv, DiskInv
<1> QED
    BY <1>2, <1>3, <1>4, <1>12, <1>15, <1>16, <1>17, ResultsKept, ContentsFrom

\* A tool's artifacts are stored before it is launched.
LEMMA ToolArtifactsStored ==
    ASSUME ContentsInv, NEW tool \in DOMAIN NextTool, UNCHANGED <<network, deposit>>,
           artifacts' = artifacts \o ToolArtifacts(tool), NEW k, k = NewArtifact
    PROVE  /\ Extends
           /\ \A i \in DOMAIN ToolArtifacts(tool) :
                 Holds(k + i - 1, ToolArtifacts(tool)[i])'
<1>1. PICK s : s = ToolArtifacts(tool)
    OBVIOUS
<1>2. tool \in {"spammer", "forkmon", "prometheus", "grafana", "verifier"}
    BY DEF NextTool
<1>3. s \in Seq(Contents)
  <2>1. CASE tool \in {"spammer", "verifier"}
    <3>1. s = <<>>
        BY <1>1, <2>1 DEF ToolArtifacts
    <3> QED
        BY <3>1
  <2>2. CASE tool \in {"forkmon", "prometheus"}
    <3>1. PICK files : s = <<files>>
        BY <1>1, <2>2 DEF ToolArtifacts
    <3>2. DOMAIN s = {1} /\ s[1] = files
        BY <3>1
    <3>3. files \in Contents
        BY <1>1, <2>2, <3>2, InContents
    <3> QED
        BY <3>1, <3>3
  <2>3. CASE tool = "grafana"
    <3>1. PICK files, others : s = <<files, others>>
        BY <1>1, <2>3 DEF ToolArtifacts
    <3>2. DOMAIN s = {1, 2} /\ s[1] = files /\ s[2] = others
        BY <3>1
    <3>3. files \in Contents /\ others \in Contents
        BY <1>1, <2>3, <3>2, InContents
    <3> QED
        BY <3>1, <3>3
  <2> QED
      BY <1>2, <2>1, <2>2, <2>3
<1>4. artifacts \in Seq(Contents) /\ artifacts' = artifacts \o s
    BY <1>1 DEF ContentsInv
<1>5. /\ artifacts' \in Seq(Contents) /\ Len(artifacts') = Len(artifacts) + Len(s)
      /\ \A j \in 1..Len(artifacts) : artifacts'[j] = artifacts[j]
      /\ \A i \in 1..Len(s) : artifacts'[Len(artifacts) + i] = s[i]
      /\ Len(artifacts) \in Nat /\ Len(s) \in Nat
    BY <1>3, <1>4, ConcatProperties
<1>6. /\ DOMAIN artifacts = 1..Len(artifacts) /\ DOMAIN artifacts' = 1..Len(artifacts')
      /\ DOMAIN s = 1..Len(s)
    BY <1>3, <1>4, <1>5
<1>7. Extends
    BY <1>5, <1>6 DEF Extends, Grows
<1>8. ASSUME NEW i \in DOMAIN s PROVE Holds(k + i - 1, s[i])'
  <2>1. PICK j : j = k + i - 1
      OBVIOUS
  <2>2. k = Len(artifacts) + 1
      BY DEF NewArtifact
  <2>3. i \in 1..Len(s)
      BY <1>6
  <2>4. j = Len(artifacts) + i
      BY <1>5, <2>1, <2>2, <2>3
  <2>5. j \in DOMAIN artifacts' /\ artifacts'[j] = s[i]
      BY <1>5, <1>6, <2>3, <2>4
  <2> QED
      BY <2>1, <2>5 DEF Holds
<1> QED
    BY <1>1, <1>7, <1>8

LEMMA LaunchToolContents ==
    ASSUME ContentsInv, LaunchTool
    PROVE  ContentsInv'
<1>1. PICK tool \in DOMAIN NextTool : tool = stage
    BY DEF LaunchTool
<1>2. /\ artifacts' = artifacts \o ToolArtifacts(tool) /\ stage' = NextTool[tool]
      /\ disk' = disk /\ UNCHANGED results /\ UNCHANGED <<network, deposit>>
    BY <1>1 DEF LaunchTool
<1>3. /\ stage \in {"spammer", "forkmon", "prometheus", "grafana", "verifier"}
      /\ stage' \in {"forkmon", "prometheus", "grafana", "verifier", "done"}
    BY <1>1, <1>2, ToolOrder
<1>4. PICK k : k = NewArtifact
    OBVIOUS
<1>5. /\ Extends
      /\ \A i \in DOMAIN ToolArtifacts(tool) : Holds(k + i - 1, ToolArtifacts(tool)[i])'
    BY <1>2, <1>4, ToolArtifactsStored
<1>6. PICK c : c = Container(tool, 0, ToolConfig(tool, k), ToolAsks(tool, network))
    OBVIOUS
<1>7. containers' = containers \cup {c}
    BY <1>1, <1>4, <1>6 DEF LaunchTool
<1>8. c.kind = tool /\ c.node = 0 /\ c.config = ToolConfig(tool, k)
    BY <1>6 DEF Container
<1>9. ToolConfigured(c)'
  <2>1. CASE tool \in {"spammer", "verifier"}
    <3>1. ToolArtifacts(tool) = <<>> /\ \A j : ToolConfig(tool, j) = BareConfig
        BY <2>1 DEF ToolArtifacts, ToolConfig
    <3>2. PICK j \in DOMAIN artifacts : cl = ClRecord(j)
        BY <1>3 DEF ContentsInv, ResultsInv, ClStored, BeforeEl, BeforeCl
    <3>3. j \in DOMAIN artifacts'
        BY <1>5, <3>2, HoldsKept
    <3>4. c.config = ToolConfig(c.kind, j) /\ DOMAIN ToolArtifacts(c.kind) = {}
        BY <1>8, <3>1
    <3> QED
        BY <1>8, <3>3, <3>4 DEF ToolConfigured
  <2>2. CASE tool \notin {"spammer", "verifier"}
    <3>1. 1 \in DOMAIN ToolArtifacts(tool)
        BY <1>1, <1>3, <2>2 DEF ToolArtifacts
    <3>2. Holds(k + 1 - 1, ToolArtifacts(tool)[1])'
        BY <1>5, <3>1
    <3>3. k \in Nat
        BY <1>4 DEF ContentsInv, NewArtifact
    <3>4. k \in DOMAIN artifacts'
        BY <3>2, <3>3 DEF Holds
    <3> QED
        BY <1>5, <1>8, <3>4 DEF ToolConfigured
  <2> QED
      BY <2>1, <2>2
<1>10. Configured(c)'
    BY <1>8, <1>9 DEF Configured
<1>11. N' = N
    BY <1>5, SameContents DEF Extends
<1>12. ResultsInv'
    BY <1>2, <1>3, <1>5, <1>11, ResultsKept DEF ContentsInv, ResultsInv, BeforeEl, BeforeCl
<1>13. DiskInv'
    BY <1>2, <1>3 DEF ContentsInv, DiskInv
<1> QED
    BY <1>2, <1>3, <1>5, <1>7, <1>10, <1>12, <1>13, ResultsKept, ContentsFrom

LEMMA FailContents ==
    ASSUME ContentsInv, Fail
    PROVE  ContentsInv'
<1>1. /\ stage' = "failed" /\ disk' = {} /\ containers' = containers
      /\ UNCHANGED results /\ UNCHANGED <<network, deposit, artifacts>>
    BY DEF Fail
<1>2. Extends
    BY <1>1, SameArtifacts
<1>3. N' = N
    BY <1>2, SameContents DEF Extends
<1>4. ResultsInv'
    BY <1>1, <1>2, <1>3, ResultsKept DEF ContentsInv, ResultsInv, BeforeEl, BeforeCl
<1>5. DiskInv'
    BY <1>1 DEF DiskInv
<1> QED
    BY <1>1, <1>2, <1>4, <1>5, ResultsKept, ContentsFrom

LEMMA StutterContents ==
    ASSUME ContentsInv, UNCHANGED vars
    PROVE  ContentsInv'
<1>1. /\ UNCHANGED <<network, deposit, artifacts, results, stage, todo, disk, containers>>
      /\ UNCHANGED results
    BY DEF vars
<1>2. Extends
    BY <1>1, SameArtifacts
<1>3. N' = N
    BY <1>2, SameContents DEF Extends
<1>4. ResultsInv'
    BY <1>1, <1>2, <1>3, ResultsKept DEF ContentsInv, ResultsInv
<1>5. DiskInv'
  <2>1. /\ KeysWritten' = KeysWritten /\ deposit' = deposit
        /\ ClWritten({"0", deposit})' = ClWritten({"0", deposit})
      BY <1>1, <1>2, SameDisks
  <2>2. ClWritten({"0", deposit} \ todo)' = ClWritten({"0", deposit} \ todo)
    <3>1. \A content \in {"0", deposit} : DynamicFile(content)' = DynamicFile(content)
        BY <1>1 DEF DynamicFile, DynamicFiles
    <3> QED
        BY <1>1, <3>1 DEF ClWritten
  <2> QED
      BY <1>1, <2>1, <2>2, ZenonT(30) DEF ContentsInv, DiskInv
<1>6. ValidatorDue'
  <2>1. Count("beacon")' = Count("beacon")
      BY <1>1 DEF Count, Launched
  <2> QED
      BY <1>1, <2>1 DEF ContentsInv, ValidatorDue
<1> QED
    BY <1>1, <1>2, <1>4, <1>5, <1>6, ResultsKept, ContentsFrom

LEMMA ContentsStep == NetworkInv /\ ContentsInv /\ [Next]_vars => ContentsInv'
<1> SUFFICES ASSUME NetworkInv, ContentsInv, [Next]_vars PROVE ContentsInv'
    OBVIOUS
<1>1. CASE GenerateKeystores
    BY <1>1, GenerateKeystoresContents
<1>2. CASE StoreKeys
    BY <1>2, StoreKeysContents
<1>3. CASE WritePassword
    BY <1>3, WritePasswordContents
<1>4. CASE StorePassword
    BY <1>4, StorePasswordContents
<1>5. CASE LaunchElGenerator
    BY <1>5, LaunchElGeneratorContents
<1>6. CASE GenerateElGenesis
    BY <1>6, GenerateElGenesisContents
<1>7. CASE GenerateJwt
    BY <1>7, GenerateJwtContents
<1>8. CASE StoreEl
    BY <1>8, StoreElContents
<1>9. CASE UploadPrefundedKeys
    BY <1>9, UploadContents
<1>10. CASE LaunchEl
    BY <1>10, LaunchElContents
<1>11. CASE LaunchClGenerator
    BY <1>11, LaunchClGeneratorContents
<1>12. CASE CopyToOutput
    BY <1>12, CopyToOutputContents
<1>13. CASE WriteDynamicFile
    BY <1>13, WriteDynamicFileContents
<1>14. CASE GenerateClGenesis
    BY <1>14, GenerateClGenesisContents
<1>15. CASE StoreCl
    BY <1>15, StoreClContents
<1>16. CASE LaunchSidecar
    BY <1>16, LaunchSidecarContents
<1>17. CASE LaunchBeacon
    BY <1>17, LaunchBeaconContents
<1>18. CASE LaunchValidator
    BY <1>18, LaunchValidatorContents
<1>19. CASE LaunchTool
    BY <1>19, LaunchToolContents
<1>20. CASE Fail
    BY <1>20, FailContents
<1>21. CASE UNCHANGED vars
    BY <1>21, StutterContents
<1> QED
    BY <1>1, <1>2, <1>3, <1>4, <1>5, <1>6, <1>7, <1>8, <1>9, <1>10, <1>11, <1>12, <1>13,
       <1>14, <1>15, <1>16, <1>17, <1>18, <1>19, <1>20, <1>21 DEF Next

----------------------------------------------------------------------------
(* What the invariant says of the generators and of the kinds.             *)

LEMMA GeneratorInputsFrom == ContentsInv => GeneratorInputs
<1> SUFFICES ASSUME ContentsInv PROVE GeneratorInputs
    OBVIOUS
<1>1. stage = "elGenesis" => Has(disk, ElConfigPath)
    BY ElConfigRead DEF ContentsInv, DiskInv
<1>2. ASSUME stage \in {"copy", "clGenesis"} PROVE \E e : el = ElRecord(e)
    BY <1>2 DEF ContentsInv, ResultsInv, ElStored, BeforeEl
<1>3. stage = "copy" => \A path \in CopiedPaths : Has(disk, path)
    BY <1>2, Copied DEF ContentsInv, DiskInv
<1>4. stage = "clGenesis" => \A path \in StateInputs : Has(disk, path)
    BY <1>2, StateRead DEF ContentsInv, DiskInv
<1> QED
    BY <1>1, <1>3, <1>4 DEF GeneratorInputs

LEMMA MountArtifact == \A k, at : Mount(k, at).artifact = k
BY DEF Mount

LEMMA ElMounts ==
    ASSUME NEW type \in ELTypes, NEW k, NEW a, NEW config,
           config = ElConfig(type, ElRecord(k), a), NEW m \in config.mounts
    PROVE  m.artifact \in {k, a}
<1>1. PICK data : data = ElRecord(k) /\ data.artifact = k
    BY ElRecordPaths
<1>2. CASE type = "geth"
  <2>1. config = GethConfig(data, a)
      BY <1>1, <1>2 DEF ElConfig
  <2>2. config.mounts = {Mount(k, <<"genesis">>), Mount(a, <<"prefunded-keys">>)}
      BY <1>1, <2>1, GethShape
  <2> QED
      BY <2>2, MountArtifact
<1>3. CASE type = "erigon"
    BY <1>1, <1>3, ErigonShape, MountArtifact DEF ElConfig
<1>4. CASE type = "nethermind"
    BY <1>1, <1>4, NethermindShape, MountArtifact DEF ElConfig
<1>5. CASE type = "besu"
    BY <1>1, <1>5, BesuShape, MountArtifact DEF ElConfig
<1> QED
    BY <1>2, <1>3, <1>4, <1>5 DEF ELTypes

LEMMA BeaconMounts ==
    ASSUME NEW type \in CLTypes, NEW k, NEW n, NEW a, NEW config,
           config = BeaconConfig(type, ClRecord(k), KeysRecord(n, a)), NEW m \in config.mounts
    PROVE  m.artifact \in {k, a}
<1>1. PICK data : data = ClRecord(k) /\ data.artifact = k
    BY ClRecordPaths
<1>2. PICK keys : keys = KeysRecord(n, a) /\ keys.artifact = a
    BY KeysRecordPaths
<1>3. config = BeaconConfig(type, data, keys)
    BY <1>1, <1>2
<1>4. CASE type = "lighthouse"
  <2>1. LighthouseBeaconShape(config, data)
      BY <1>3, <1>4, LighthouseBeaconShaped DEF BeaconConfig
  <2>2. config.mounts = {Mount(k, <<"genesis">>)}
      BY <1>1, <2>1 DEF LighthouseBeaconShape
  <2> QED
      BY <2>2, MountArtifact
<1>5. CASE type \in {"lodestar", "prysm"}
  <2>1. OtherBeaconShape(config, data)
      BY <1>3, <1>5, LodestarBeaconShaped, PrysmBeaconShaped DEF BeaconConfig
  <2>2. config.mounts = {Mount(k, <<"genesis">>)}
      BY <1>1, <2>1 DEF OtherBeaconShape
  <2> QED
      BY <2>2, MountArtifact
<1>6. CASE type = "teku"
  <2>1. TekuShape(config, data, keys)
      BY <1>3, <1>6, TekuShaped DEF BeaconConfig
  <2>2. config.mounts = {Mount(k, <<"genesis">>), Mount(a, <<"validator-keys">>)}
      BY <1>1, <1>2, <2>1 DEF TekuShape
  <2> QED
      BY <2>2, MountArtifact
<1>7. CASE type = "nimbus"
  <2>1. NimbusShape(config, data, keys)
      BY <1>3, <1>7, NimbusShaped DEF BeaconConfig
  <2>2. config.mounts = {Mount(k, <<"genesis-data">>), Mount(a, <<"validator-keys">>)}
      BY <1>1, <1>2, <2>1 DEF NimbusShape
  <2> QED
      BY <2>2, MountArtifact
<1> QED
    BY <1>4, <1>5, <1>6, <1>7 DEF CLTypes

LEMMA ValidatorMounts ==
    ASSUME NEW type \in Split, NEW k, NEW n, NEW a, NEW b, NEW config,
           config = ValidatorConfig(type, ClRecord(k), KeysRecord(n, a), PasswordRecord(b)),
           NEW m \in config.mounts
    PROVE  m.artifact \in {k, a, b}
<1>1. PICK data : data = ClRecord(k) /\ data.artifact = k
    BY ClRecordPaths
<1>2. PICK keys : keys = KeysRecord(n, a) /\ keys.artifact = a
    BY KeysRecordPaths
<1>3. PICK pass : pass = PasswordRecord(b) /\ pass.artifact = b
    BY PasswordRecordPaths
<1>4. config = ValidatorConfig(type, data, keys, pass)
    BY <1>1, <1>2, <1>3
<1>5. CASE type = "lighthouse"
  <2>1. LighthouseValidatorShape(config, data, keys)
      BY <1>4, <1>5, LighthouseValidatorShaped DEF ValidatorConfig
  <2>2. config.mounts = {Mount(k, <<"genesis">>), Mount(a, <<"validator-keys">>)}
      BY <1>1, <1>2, <2>1 DEF LighthouseValidatorShape
  <2> QED
      BY <2>2, MountArtifact
<1>6. CASE type = "lodestar"
    BY <1>1, <1>2, <1>4, <1>6, LodestarValidatorShaped, MountArtifact
    DEF ValidatorConfig, LodestarValidatorShape
<1>7. CASE type = "prysm"
    BY <1>1, <1>2, <1>3, <1>4, <1>7, PrysmValidatorShaped, MountArtifact
    DEF ValidatorConfig, PrysmValidatorShape
<1> QED
    BY <1>5, <1>6, <1>7, SplitTypes

LEMMA ToolMounts ==
    ASSUME NEW tool \in DOMAIN NextTool, NEW k \in Nat,
           \A i \in DOMAIN ToolArtifacts(tool) : Holds(k + i - 1, ToolArtifacts(tool)[i]),
           NEW config, config = ToolConfig(tool, k), NEW m \in config.mounts
    PROVE  m.artifact \in DOMAIN artifacts
<1>1. CASE tool \in {"spammer", "verifier"}
  <2>1. config.mounts = {}
      BY <1>1, BareSees DEF ToolConfig
  <2> QED
      BY <2>1
<1>2. CASE tool \in {"forkmon", "prometheus"}
  <2>1. m.artifact = k
      BY <1>2, MountArtifact DEF ToolConfig, ForkmonConfig, PrometheusConfig
  <2>2. 1 \in DOMAIN ToolArtifacts(tool)
      BY <1>2 DEF ToolArtifacts
  <2>3. k + 1 - 1 \in DOMAIN artifacts
      BY <2>2 DEF Holds
  <2> QED
      BY <2>1, <2>3
<1>3. CASE tool = "grafana"
  <2>1. m.artifact \in {k, k + 1}
      BY <1>3, GrafanaShaped, MountArtifact DEF ToolConfig
  <2>2. 1 \in DOMAIN ToolArtifacts(tool) /\ 2 \in DOMAIN ToolArtifacts(tool)
      BY <1>3 DEF ToolArtifacts
  <2>3. k + 1 - 1 \in DOMAIN artifacts /\ k + 2 - 1 \in DOMAIN artifacts
      BY <2>2 DEF Holds
  <2> QED
      BY <2>1, <2>3
<1> QED
    BY <1>1, <1>2, <1>3, ToolOrder

LEMMA ContainerKinds ==
    ASSUME ContentsInv, NEW c \in containers
    PROVE  /\ c.kind \in Kinds /\ c.node \in 0..N
           /\ \A m \in c.config.mounts : m.artifact \in DOMAIN artifacts
<1>1. Configured(c) /\ N \in Nat
    BY NodeDirs DEF ContentsInv
<1>2. c.kind \in Kinds /\ c.node \in 0..N
    BY <1>1 DEF Configured, ElConfigured, BeaconConfigured, ValidatorConfigured, ToolConfigured,
       NextTool, Kinds
<1>3. ASSUME NEW m \in c.config.mounts PROVE m.artifact \in DOMAIN artifacts
  <2>1. CASE c.kind = "el" /\ ElConfigured(c)
    <3>1. PICK k \in DOMAIN artifacts, a \in DOMAIN artifacts :
              c.config = ElConfig(network[c.node].el, ElRecord(k), a)
        BY <2>1 DEF ElConfigured
    <3>2. network[c.node].el \in ELTypes
        BY <2>1, NetworkType DEF ContentsInv, ElConfigured
    <3> QED
        BY <3>1, <3>2, ElMounts
  <2>2. CASE c.kind = "beacon" /\ BeaconConfigured(c)
    <3>1. PICK k \in DOMAIN artifacts, a \in DOMAIN artifacts :
              c.config = BeaconConfig(network[c.node].cl, ClRecord(k), KeysRecord(c.node, a))
        BY <2>2 DEF BeaconConfigured
    <3>2. network[c.node].cl \in CLTypes
        BY <2>2, NetworkType DEF ContentsInv, BeaconConfigured
    <3> QED
        BY <3>1, <3>2, BeaconMounts
  <2>3. CASE c.kind = "validator" /\ ValidatorConfigured(c)
    <3>1. PICK k \in DOMAIN artifacts, a \in DOMAIN artifacts, b \in DOMAIN artifacts :
              c.config = ValidatorConfig(network[c.node].cl, ClRecord(k),
                                         KeysRecord(c.node, a), PasswordRecord(b))
        BY <2>3 DEF ValidatorConfigured
    <3>2. network[c.node].cl \in Split
        BY <2>3 DEF ValidatorConfigured
    <3> QED
        BY <3>1, <3>2, ValidatorMounts
  <2>4. CASE c.kind = "mevBoost" /\ c.config = SidecarConfig
      BY <2>4, BareSees
  <2>5. CASE c.kind \in DOMAIN NextTool /\ ToolConfigured(c)
    <3>1. PICK k \in DOMAIN artifacts :
              /\ c.config = ToolConfig(c.kind, k)
              /\ \A i \in DOMAIN ToolArtifacts(c.kind) :
                    Holds(k + i - 1, ToolArtifacts(c.kind)[i])
        BY <2>5 DEF ToolConfigured
    <3>2. k \in Nat
        BY DEF ContentsInv
    <3> QED
        BY <2>5, <3>1, <3>2, ToolMounts
  <2> QED
      BY <1>1, <2>1, <2>2, <2>3, <2>4, <2>5 DEF Configured
<1> QED
    BY <1>2, <1>3

\* The files of the generators' disks.
DiskKinds(files) == \A f \in files : f.path \in Seq(Names) /\ f.content.node \in 0..N

LEMMA DiskKindsOf ==
    ASSUME network \in Networks
    PROVE  /\ DiskKinds(KeysWritten) /\ DiskKinds({PasswordFile}) /\ DiskKinds(ElWritten(ELTypes))
           /\ DiskKinds({JwtFile}) /\ DiskKinds(ClWritten({"0", deposit}))
           /\ DiskKinds({StateFile})
<1>1. /\ {"tmp", "prysm-password.txt", "config", "output", "el-genesis", "genesis-config.yaml",
          "config.yaml", "mnemonics.yaml", "jwtsecret", "deposit_contract.txt",
          "deploy_block.txt", "genesis.ssz"} \subseteq Names
      /\ \A type \in ELTypes : GenesisFilename[type] \in Names
    BY DEF Names, ELTypes, GenesisFilename
<1>2. /\ \A a, b \in Names : <<a, b>> \in Seq(Names)
      /\ \A a, b, c \in Names : <<a, b, c>> \in Seq(Names)
    OBVIOUS
<1>3. \A tool, n, of : Made(tool, n, of).node = n
    BY DEF Made
<1>4. N \in Nat /\ 0 \in 0..N
    BY NodeDirs
<1>5. DiskKinds(KeysWritten)
  <2>1. ASSUME NEW f \in KeysWritten
        PROVE  f.path \in Seq(Names) /\ f.content.node \in 0..N
    <3>1. PICK n \in 1..N, dir \in KeystoreDirs :
              f = File(<<NodeDirname[n], dir>>, Made(dir, n, {}))
        BY DEF KeysWritten
    <3>2. NodeDirname[n] \in Names /\ dir \in Names
        BY NodeDirs DEF Names
    <3>3. f.path = <<NodeDirname[n], dir>> /\ f.content = Made(dir, n, {})
        BY <3>1, FileParts
    <3> QED
        BY <1>2, <1>3, <1>4, <3>2, <3>3
  <2> QED
      BY <2>1 DEF DiskKinds
<1>6. DiskKinds({PasswordFile})
  <2>1. /\ PasswordFile.path = <<"tmp", "prysm-password.txt">>
        /\ PasswordFile.content = Made("password", 0, {})
        /\ Made("password", 0, {}).node = 0
      BY <1>3, FileParts DEF PasswordFile
  <2> QED
      BY <1>1, <1>2, <1>4, <2>1 DEF DiskKinds
<1>7. \A type : ElGenesisMade(type).node = 0
    BY <1>3 DEF ElGenesisMade
<1>8. DiskKinds(ElWritten(ELTypes))
  <2>1. /\ ElConfigFile.path = <<"config", "genesis-config.yaml">>
        /\ ElConfigFile.content.node = 0
      BY <1>3, FileParts DEF ElConfigFile, ElConfigMade
  <2>2. \A type \in ELTypes : /\ ElGenesisFile(type).path = <<"output", GenesisFilename[type]>>
                              /\ ElGenesisFile(type).content.node = 0
      BY <1>7, FileParts DEF ElGenesisFile
  <2> QED
      BY <1>1, <1>2, <1>4, <2>1, <2>2, ZenonT(30) DEF DiskKinds, ElWritten
<1>9. JwtFile.path = <<"output", "jwtsecret">> /\ JwtFile.content.node = 0
    BY <1>3, FileParts DEF JwtFile, JwtFilename, ElSecret
<1>10. DiskKinds({JwtFile})
    BY <1>1, <1>2, <1>4, <1>9 DEF DiskKinds
<1>11. DiskKinds({StateFile})
  <2>1. StateFile.path = <<"output", "genesis.ssz">> /\ StateFile.content.node = 0
      BY <1>3, FileParts DEF StateFile, ClState
  <2> QED
      BY <1>1, <1>2, <1>4, <2>1 DEF DiskKinds
<1>12. DiskKinds(ClWritten({"0", deposit}))
  <2>1. ASSUME NEW a, a \in {"config", "output"}, NEW b, b \in {"config.yaml", "mnemonics.yaml"},
               NEW x, x \in {ClConfigMade, MnemonicsMade}, NEW f, f = File(<<a, b>>, x)
        PROVE  f.path \in Seq(Names) /\ f.content.node \in 0..N
    <3>1. f.path = <<a, b>> /\ f.content = x /\ x.node = 0
        BY <1>3, <2>1, FileParts DEF ClConfigMade, MnemonicsMade
    <3> QED
        BY <1>1, <1>2, <1>4, <2>1, <3>1, ZenonT(30)
  <2>2. ASSUME NEW type \in ELTypes, NEW f,
               f = File(<<"el-genesis", "output", GenesisFilename[type]>>, ElGenesisMade(type))
        PROVE  f.path \in Seq(Names) /\ f.content.node \in 0..N
    <3>1. /\ f.path = <<"el-genesis", "output", GenesisFilename[type]>>
          /\ f.content = ElGenesisMade(type)
        BY <2>2, FileParts
    <3> QED
        BY <1>1, <1>2, <1>4, <1>7, <3>1
  <2>3. ASSUME NEW f, f = File(<<"el-genesis", "output", JwtFilename>>, ElSecret)
        PROVE  f.path \in Seq(Names) /\ f.content.node \in 0..N
    <3>1. f.path = <<"el-genesis", "output", "jwtsecret">> /\ f.content.node = 0
        BY <1>3, <2>3, FileParts DEF JwtFilename, ElSecret
    <3> QED
        BY <1>1, <1>2, <1>4, <3>1
  <2>4. ASSUME NEW content \in {"0", deposit}, NEW f, f = DynamicFile(content)
        PROVE  f.path \in Seq(Names) /\ f.content.node \in 0..N
    <3>1. f.path = <<"output", DynamicFiles[content]>> /\ f.content.node = 0
        BY <2>4, FileParts DEF DynamicFile, Text
    <3>2. DynamicFiles[content] \in Names
        BY <1>1, DynamicNames
    <3> QED
        BY <1>1, <1>2, <1>4, <3>1, <3>2
  <2> QED
      BY <1>10, <2>1, <2>2, <2>3, <2>4 DEF DiskKinds, ClWritten, ClMounted, CopiedFiles
<1> QED
    BY <1>5, <1>6, <1>8, <1>10, <1>11, <1>12

LEMMA FilesTypeOKFrom == ContentsInv => FilesTypeOK
<1> SUFFICES ASSUME ContentsInv PROVE FilesTypeOK
    OBVIOUS
<1>1. DiskKinds(disk)
  <2>1. \A types \in SUBSET ELTypes : ElWritten(types) \subseteq ElWritten(ELTypes)
      BY DEF ElWritten
  <2>2. \A contents \in SUBSET {"0", deposit} :
            ClWritten(contents) \subseteq ClWritten({"0", deposit})
      BY DEF ClWritten
  <2>3. ClMounted \subseteq ClWritten({"0", deposit})
      BY DEF ClWritten
  <2>4. \/ disk \subseteq KeysWritten \cup {PasswordFile}
        \/ disk \subseteq ElWritten(ELTypes) \cup {JwtFile}
        \/ disk \subseteq ClWritten({"0", deposit}) \cup {StateFile}
    <3>1. CASE stage \in {"storeKeys", "password", "storePassword"}
        BY <3>1 DEF ContentsInv, DiskInv
    <3>2. CASE stage \in {"elGenesis", "jwt", "storeEl"}
      <4>1. \/ disk = ElWritten(ELTypes \ todo) \/ disk = ElWritten(ELTypes)
            \/ disk = ElWritten(ELTypes) \cup {JwtFile}
          BY <3>2 DEF ContentsInv, DiskInv
      <4> QED
          BY <2>1, <4>1
    <3>3. CASE stage \in {"copy", "dynamic", "clGenesis", "storeCl"}
      <4>1. \/ disk = ClMounted \/ disk = ClWritten({"0", deposit} \ todo)
            \/ disk = ClWritten({"0", deposit})
            \/ disk = ClWritten({"0", deposit}) \cup {StateFile}
          BY <3>3 DEF ContentsInv, DiskInv
      <4> QED
          BY <2>2, <2>3, <4>1
    <3>4. CASE stage \notin {"storeKeys", "password", "storePassword", "elGenesis", "jwt",
                             "storeEl", "copy", "dynamic", "clGenesis", "storeCl"}
        BY <3>4 DEF ContentsInv, DiskInv
    <3> QED
        BY <3>1, <3>2, <3>3, <3>4
  <2> QED
      BY <2>4, DiskKindsOf DEF ContentsInv, DiskKinds
<1> QED
    BY <1>1, ContainerKinds DEF ContentsInv, ResultsInv, FilesTypeOK, DiskKinds

----------------------------------------------------------------------------
(* The theorems.                                                           *)

\* Every file that LaunchParticipantNetwork's generators and the enclave's store
\* ever hold is the one it is taken for, and every configuration names artifacts
\* that hold what it is told they hold.
THEOREM ContentsInvHolds == Spec => []ContentsInv
<1>1. Init => ContentsInv
    BY InitContents
<1>2. NetworkInv /\ ContentsInv /\ [Next]_vars => ContentsInv'
    BY ContentsStep
<1> QED
    BY <1>1, <1>2, NetworkInvHolds, PTL DEF Spec

\* The kinds of the variables, and that artifacts are known by their numbers.
THEOREM FilesTypeOKHolds == Spec => []FilesTypeOK
BY ContentsInvHolds, FilesTypeOKFrom, PTL

\* Every path in a container's flags leads to something in that container.
THEOREM FilesThereHolds == Spec => []FilesThere
BY ContentsInvHolds, FilesThereFrom, PTL

\* No command of a generator lacks a file it is told to read.
THEOREM GeneratorInputsHolds == Spec => []GeneratorInputs
BY ContentsInvHolds, GeneratorInputsFrom, PTL

\* A beacon node reads the very secret that its EL client reads.
THEOREM OneSecretHolds == Spec => []OneSecret
BY ContentsInvHolds, OneSecretFrom, PTL

\* Both layers start from one genesis.
THEOREM OneGenesisHolds == Spec => []OneGenesis
BY ContentsInvHolds, OneGenesisFrom, PTL

\* A container that runs validators reads the keys of its own node, in its
\* client's format, and of no other.
THEOREM OwnKeysHolds == Spec => []OwnKeys
BY ContentsInvHolds, OwnKeysFrom, PTL

\* The directory given as the testnet's holds what it must.
THEOREM TestnetCompleteHolds == Spec => []TestnetComplete
BY ContentsInvHolds, TestnetCompleteFrom, PTL
=============================================================================
