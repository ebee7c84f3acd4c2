---------------------------- MODULE StartupProofs ----------------------------
(***************************************************************************)
(* Proofs about start-up, for any configuration file: what config_parse    *)
(* keeps of it, the ports that are served, and what is freed of it.        *)
(***************************************************************************)
EXTENDS Startup, WellFoundedInduction, TLAPS

-----------------------------------------------------------------------------
(* Start-up: where config_parse is *)

\* The numbers of the 16-bit conversion
LEMMA Width == 2^16 = 65536 /\ 2^15 = 32768
  OBVIOUS

\* States in which a configuration is being filled in
Filling == {"port", "index", "tls", "context", "privateKey", "certificate", "dhparams", "duplicate"}

\* States before, in and after the loop over [servers]
Before == {"arguments", "load", "server"}
Loop == {"next", "root"} \union Filling
After == {"parsed", "override", "daemon", "ports", "running"}

\* What a server_config_t may hold
Configs ==
    [id : Nat,
     domain : {config_parseString(Tables[k].domain) : k \in DOMAIN Tables},
     rootDirectory : Files \union {NULL},
     port : Int,
     directoryIndex : {NULL} \union {config_parseArray(Tables[k].directoryIndex) : k \in DOMAIN Tables},
     sslContext : Nat \union {NULL},
     dhparams : Files \union {NULL}]

\* The number of the table that config_parse is at
Current == toml_key_in(i) + 1

\* Where config_parse is: the tables before `i` have been looked at, and what was
\* kept of them is in the order of the file.
Here ==
    /\ document \in Documents
    /\ pc \in Before \union Loop \union After \union {"failed", "exited", "crashed", "stopped"}
    /\ i \in Nat /\ i <= Len(Tables)
    /\ pc \in {"root"} \union Filling => i < Len(Tables) /\ toml_key_in(i) >= 0
    /\ pc \in Filling => server \in Configs /\ server.id = Current
    /\ pc \in After => i = Len(Tables)
    /\ pc \in Before => i = 0
    /\ pc \in Before \union {"failed", "stopped"} => serverConfigs = <<>>
    /\ serverConfigs \in Seq(Configs)
    /\ \A k \in DOMAIN serverConfigs : serverConfigs[k].id \in 1..toml_key_in(i)
    /\ \A j, k \in DOMAIN serverConfigs : j < k => serverConfigs[j].id < serverConfigs[k].id

\* What StartupAssumption says of the document that was loaded
LEMMA TablesSeq ==
    ASSUME StartupAssumption, document \in Documents
    PROVE  /\ document.others \in Nat
           /\ Len(Tables) \in Nat /\ DOMAIN Tables = 1..Len(Tables)
           /\ \A k \in DOMAIN Tables : document.servers[k] = Tables[k] /\ config_parseInt(Tables[k].port) \in Int
<1>0. document.others \in Nat
  BY Zenon DEF StartupAssumption
<1>1. CASE document.servers = NULL
  <2>1. Tables = <<>>
    BY <1>1, Zenon DEF Tables
  <2> QED
    BY <1>0, <2>1
<1>2. CASE document.servers # NULL
  <2>1. /\ document.servers \in Seq({document.servers[k] : k \in DOMAIN document.servers})
        /\ \A k \in DOMAIN document.servers : config_parseInt(document.servers[k].port) \in Int
    BY <1>2, Zenon DEF StartupAssumption
  <2>2. Tables = document.servers
    BY <1>2, Zenon DEF Tables
  <2> QED
    BY <1>0, <2>1, <2>2
<1> QED
  BY <1>1, <1>2, Zenon

\* Nothing was looked at when the process starts.
LEMMA HereInit == StartupAssumption /\ Init => Here
  <1> SUFFICES ASSUME StartupAssumption, Init PROVE Here
    OBVIOUS
  <1>1. document \in Documents
    BY Zenon DEF Init
  <1>2. serverConfigs = <<>>
    BY Zenon DEF Init
  <1> QED
  BY <1>1, <1>2, TablesSeq DEF Init, Here, Before, Loop, After, Filling


\* The table that is being read
LEMMA InTables ==
    ASSUME StartupAssumption, Here, pc \in {"root"} \union Filling
    PROVE  /\ Current \in 1..Len(Tables) /\ Current \in DOMAIN Tables
           /\ Table = Tables[Current]
<1>1. i < Len(Tables) /\ toml_key_in(i) >= 0 /\ i \in Nat
  BY Zenon DEF Here
<1>2. document.others \in Nat /\ Len(Tables) \in Nat /\ DOMAIN Tables = 1..Len(Tables)
  BY TablesSeq, Zenon DEF Here
<1> QED
  BY <1>1, <1>2 DEF Current, Table, toml_key_in

\* A configuration that was kept belongs to a table.
LEMMA KeptTable ==
    ASSUME StartupAssumption, Here, NEW k \in DOMAIN serverConfigs
    PROVE  serverConfigs[k].id \in DOMAIN Tables
<1>1. /\ document.others \in Nat /\ Len(Tables) \in Nat /\ DOMAIN Tables = 1..Len(Tables)
      /\ i \in Nat /\ i <= Len(Tables)
  BY TablesSeq, Zenon DEF Here
<1>2. serverConfigs[k].id \in 1..(i - document.others)
  BY Zenon DEF Here, toml_key_in
<1> QED
  BY <1>1, <1>2

\* The index that toml_key_in is asked for is a number.
LEMMA KeyInt == ASSUME StartupAssumption, Here PROVE toml_key_in(i) \in Int
<1>1. document.others \in Nat /\ i \in Nat
  BY TablesSeq, Zenon DEF Here
<1> QED
  BY <1>1 DEF toml_key_in

\* Only the configuration being filled in changes.
Same == document' = document /\ serverConfigs' = serverConfigs

\* A step that stays at the same table
LEMMA HereStay ==
    ASSUME StartupAssumption, Here, Same, i' = i,
           pc \in {"root"} \union Filling, pc' \in Filling,
           server' \in Configs, server'.id = Current
    PROVE  Here'
<1>1. Tables' = Tables /\ Configs' = Configs /\ Current' = Current
  BY DEF Same, Tables, Configs, Current, toml_key_in
<1>2. \A k : toml_key_in(k)' = toml_key_in(k)
  BY Zenon DEF Same, toml_key_in
<1>3. pc' \notin After /\ pc' \notin Before
  BY Zenon DEF Filling, After, Before
<1>4. pc' \notin Before \union {"failed", "stopped"} /\ pc' \in Loop
  BY Zenon DEF Filling, Before, Loop
<1> QED
  BY <1>1, <1>2, <1>3, <1>4, Zenon DEF Here, Same

\* A step that goes on to the next table without keeping this one
LEMMA HereOn ==
    ASSUME StartupAssumption, Here, Same, i' = i + 1, i < Len(Tables),
           pc \in Loop, pc' \in {"next", "crashed"}
    PROVE  Here'
<1>1. Tables' = Tables /\ Configs' = Configs
  BY DEF Same, Tables, Configs
<1>2. toml_key_in(i)' = toml_key_in(i) + 1 /\ toml_key_in(i) \in Int
  BY TablesSeq DEF Same, toml_key_in, Here
<1>3. \A k \in DOMAIN serverConfigs : serverConfigs[k].id \in 1..(toml_key_in(i) + 1)
  BY <1>2 DEF Here
<1>4. i + 1 \in Nat /\ i + 1 <= Len(Tables)
  <2>1. i \in Nat /\ Len(Tables) \in Nat
    BY TablesSeq, Zenon DEF Here
  <2> QED
    BY <2>1
<1>5. pc' \notin After /\ pc' \notin Before /\ pc' \notin Filling /\ pc' # "root" /\ pc' \in Loop \union {"crashed"}
  BY Zenon DEF Filling, After, Before, Loop
<1> QED
  BY <1>1, <1>2, <1>3, <1>4, <1>5, Zenon DEF Here, Same

\* Every step keeps to the order of the file.
LEMMA HereStep == StartupAssumption /\ Here /\ [Next]_vars => Here'
<1> SUFFICES ASSUME StartupAssumption, Here, [Next]_vars PROVE Here'
  OBVIOUS
<1>t. /\ document.others \in Nat
      /\ Len(Tables) \in Nat /\ DOMAIN Tables = 1..Len(Tables)
  BY TablesSeq, Zenon DEF Here
<1>1. CASE ParseArguments \/ LoadConfig \/ ServerTable \/ Parsed \/ Override \/ Daemonize \/ Ports
  <2>1. Same /\ i' = i
    BY <1>1 DEF ParseArguments, LoadConfig, ServerTable, Parsed, Override, Daemonize,
       Ports, made, Same
  <2>2. Tables' = Tables /\ Configs' = Configs /\ toml_key_in(i)' = toml_key_in(i)
    BY <2>1 DEF Same, Tables, Configs, toml_key_in
  <2>3. pc' \in Before \union {"next"} \union After \union {"failed", "exited"}
    BY <1>1 DEF ParseArguments, LoadConfig, ServerTable, Parsed, Override, Daemonize,
       Ports, Before, After
  <2>4. /\ pc' \in Before \union {"failed"} => pc \in Before
        /\ pc' # "stopped"
        /\ pc' \in After => pc \in After
        /\ pc' \notin Filling /\ pc' # "root"
    BY <1>1 DEF ParseArguments, LoadConfig, ServerTable, Parsed, Override, Daemonize,
       Ports, Before, After, Filling
  <2> QED
    BY <2>1, <2>2, <2>3, <2>4, Zenon DEF Here, Same, Loop
<1>2. CASE NextTable
  <2>1. Same
    BY <1>2, Zenon DEF NextTable, made, Same
  <2>2. CASE i' = i
    <3>1. Tables' = Tables /\ Configs' = Configs /\ toml_key_in(i)' = toml_key_in(i)
      BY <2>1, <2>2 DEF Same, Tables, Configs, toml_key_in
    <3>2. \/ pc' = "parsed" /\ i = Len(Tables)
          \/ pc' = "root" /\ i < Len(Tables) /\ toml_key_in(i) >= 0
      <4>0. i \in Nat
        BY Zenon DEF Here
      <4>1. i' # i + 1
        BY <2>2, <4>0
      <4> QED
        BY <1>2, <2>2, <4>1, Zenon DEF NextTable
    <3> QED
      BY <2>1, <2>2, <3>1, <3>2, Zenon DEF Here, Same, Loop, After, Before, Filling
  <2>3. CASE i' = i + 1 /\ i < Len(Tables) /\ pc' = pc
    BY <1>2, <2>1, <2>3, HereOn, Zenon DEF NextTable, Loop
  <2> QED
    BY <1>2, <2>2, <2>3, Zenon DEF NextTable
<1>3. CASE RootDirectory
  <2>1. Same /\ pc = "root" /\ i < Len(Tables)
    BY <1>3, Zenon DEF RootDirectory, made, Same, Here
  <2>2. CASE i' = i + 1 /\ pc' = "next"
    BY <2>1, <2>2, HereOn, Zenon DEF Loop
  <2>3. CASE i' = i /\ pc' = "port"
    <3>1. Current \in DOMAIN Tables /\ Table = Tables[Current] /\ Current \in Nat
      BY <2>1, InTables
    <3>2. LET root == config_parseString(Table.rootDirectory)
              domain == config_parseString(Table.domain)
          IN  /\ root \in Files \union {NULL}
              /\ server' = [id |-> Current, domain |-> domain, rootDirectory |-> root,
                      port |-> 0, directoryIndex |-> NULL, sslContext |-> NULL,
                      dhparams |-> NULL]
      BY <1>3, <2>3, Zenon DEF RootDirectory, Current
    <3>3. server' \in Configs /\ server'.id = Current
      BY <3>1, <3>2 DEF Configs
    <3> QED
      BY <2>1, <2>3, <3>3, HereStay, Zenon DEF Filling
  <2> QED
    BY <1>3, <2>2, <2>3, Zenon DEF RootDirectory
<1>4. CASE Port \/ DirectoryIndex \/ Keys \/ Context \/ UsePrivateKey \/ UseCertificate \/ DHParams
  <2>1. pc \in Filling /\ Same /\ i < Len(Tables) /\ server \in Configs /\ server.id = Current
    <3>1. pc \in Filling
      BY <1>4, Zenon DEF Port, DirectoryIndex, Keys, Context, UsePrivateKey,
         UseCertificate, DHParams, Filling
    <3>2. Same
      BY <1>4, Zenon DEF Port, DirectoryIndex, Keys, Context, UsePrivateKey,
         UseCertificate, DHParams, made, Same
    <3> QED
      BY <3>1, <3>2, Zenon DEF Here
  <2>2. CASE i' = i + 1 /\ pc' = "next"
    BY <2>1, <2>2, HereOn, Zenon DEF Loop
  <2>3. CASE i' = i /\ pc' \in Filling /\ server' \in Configs /\ server'.id = Current
    BY <2>1, <2>3, HereStay, Zenon
  <2>4. Current \in DOMAIN Tables /\ Table = Tables[Current] /\ Current \in Nat
    BY <2>1, InTables
  <2>5. CASE Port
    <3>1. config_parseInt(Table.port) \in Int
      BY <2>4, TablesSeq, Zenon DEF Here
    <3>2. Int16(config_parseInt(Table.port)) \in Int
      BY <3>1, Width DEF Int16
    <3>3. \A n \in Int : [server EXCEPT !.port = n] \in Configs /\ [server EXCEPT !.port = n].id = Current
      BY <2>1, Zenon DEF Configs
    <3> QED
      BY <2>2, <2>3, <2>5, <3>2, <3>3, Zenon DEF Port, Reject, Filling
  <2>6. CASE DirectoryIndex
    <3>1. server' = [server EXCEPT !.directoryIndex = config_parseArray(Table.directoryIndex)]
      BY <2>6, Zenon DEF DirectoryIndex
    <3>2. config_parseArray(Table.directoryIndex) \in {config_parseArray(Tables[k].directoryIndex) : k \in DOMAIN Tables}
      BY <2>4, Zenon
    <3>3. server' \in Configs /\ server'.id = Current
      BY <2>1, <3>1, <3>2, Zenon DEF Configs
    <3> QED
      BY <2>3, <2>6, <3>3, Zenon DEF DirectoryIndex, Filling
  <2>7. CASE Keys \/ UsePrivateKey \/ UseCertificate
    BY <2>1, <2>2, <2>3, <2>7, Zenon DEF Keys, UsePrivateKey, UseCertificate, Reject, Filling
  <2>8. CASE Context
    <3>1. [server EXCEPT !.sslContext = server.id] \in Configs /\ [server EXCEPT !.sslContext = server.id].id = Current
      BY <2>1, Zenon DEF Configs
    <3> QED
      BY <2>2, <2>3, <2>8, <3>1, Zenon DEF Context, Reject, Filling
  <2>9. CASE DHParams
    <3>1. \A d \in Files \union {NULL} :
             [server EXCEPT !.dhparams = d] \in Configs /\ [server EXCEPT !.dhparams = d].id = Current
      BY <2>1, Zenon DEF Configs
    <3> QED
      BY <2>2, <2>3, <2>9, <3>1, Zenon DEF DHParams, Reject, Filling
  <2> QED
    BY <1>4, <2>5, <2>6, <2>7, <2>8, <2>9, Zenon
<1>5. CASE Duplicate
  <2>1. /\ pc = "duplicate" /\ i < Len(Tables) /\ server \in Configs /\ server.id = Current
        /\ document' = document /\ i' = i + 1
    BY <1>5, Zenon DEF Duplicate, Here, Filling
  <2>2. CASE serverConfigs' = Append(serverConfigs, server) /\ pc' = "next"
    <3>1. Tables' = Tables /\ Configs' = Configs
      BY <2>1 DEF Tables, Configs
    <3>2. toml_key_in(i)' = toml_key_in(i) + 1 /\ toml_key_in(i) \in Int /\ Current = toml_key_in(i) + 1
          /\ toml_key_in(i) >= 0
      <4>1. toml_key_in(i) >= 0 /\ i \in Nat
        BY <2>1, Zenon DEF Here, Filling
      <4> QED
        BY <1>t, <2>1, <4>1 DEF toml_key_in, Current
    <3>3. /\ serverConfigs' \in Seq(Configs) /\ serverConfigs \in Seq(Configs)
          /\ DOMAIN serverConfigs' = 1..(Len(serverConfigs) + 1) /\ DOMAIN serverConfigs = 1..Len(serverConfigs)
          /\ Len(serverConfigs) \in Nat
          /\ \A k \in DOMAIN serverConfigs : serverConfigs'[k] = serverConfigs[k]
          /\ serverConfigs'[Len(serverConfigs) + 1] = server
      BY <2>1, <2>2 DEF Here
    <3>4. \A k \in DOMAIN serverConfigs : serverConfigs[k].id \in 1..toml_key_in(i)
      BY Zenon DEF Here
    <3>5. \A k \in DOMAIN serverConfigs' : serverConfigs'[k].id \in 1..toml_key_in(i)'
      BY <2>1, <3>2, <3>3, <3>4
    <3>6. \A j, k \in DOMAIN serverConfigs' : j < k => serverConfigs'[j].id < serverConfigs'[k].id
      <4> SUFFICES ASSUME NEW j \in DOMAIN serverConfigs', NEW k \in DOMAIN serverConfigs', j < k
                   PROVE  serverConfigs'[j].id < serverConfigs'[k].id
        OBVIOUS
      <4>1. j \in DOMAIN serverConfigs
        BY <3>3
      <4>2. CASE k \in DOMAIN serverConfigs
        BY <3>3, <4>1, <4>2, Zenon DEF Here
      <4>3. CASE k \notin DOMAIN serverConfigs
        <5>1. serverConfigs'[k].id = toml_key_in(i) + 1
          BY <2>1, <3>2, <3>3, <4>3
        <5>2. serverConfigs'[j].id \in 1..toml_key_in(i)
          BY <3>3, <3>4, <4>1, Zenon
        <5> QED
          BY <5>1, <5>2, <3>2
      <4> QED
        BY <4>2, <4>3, Zenon
    <3>7. i' \in Nat /\ i' <= Len(Tables)
      <4>1. i \in Nat
        BY Zenon DEF Here
      <4> QED
        BY <1>t, <2>1, <4>1
    <3> QED
      BY <2>1, <2>2, <3>1, <3>3, <3>5, <3>6, <3>7, Zenon DEF Here, Loop, After, Before, Filling
  <2>3. CASE serverConfigs' = serverConfigs /\ pc' \in {"next", "crashed"}
    BY <2>1, <2>3, HereOn, Zenon DEF Same, Loop, Filling
  <2> QED
    BY <1>5, <2>2, <2>3, Zenon DEF Duplicate
<1>6. CASE ConfigFree
  <2>1. Tables' = Tables /\ Configs' = Configs
    BY <1>6 DEF ConfigFree, Tables, Configs
  <2> QED
    BY <1>6, <2>1 DEF ConfigFree, Here, Loop, After, Before, Filling
<1>7. CASE UNCHANGED vars
  <2>1. Tables' = Tables /\ Configs' = Configs /\ toml_key_in(i)' = toml_key_in(i) /\ Current' = Current
    BY <1>7 DEF vars, made, Tables, Configs, toml_key_in, Current
  <2> QED
    BY <1>7, <2>1, Zenon DEF vars, made, Here
<1> QED
  BY <1>1, <1>2, <1>3, <1>4, <1>5, <1>6, <1>7, Zenon DEF Next, Over


-----------------------------------------------------------------------------
(* What a configuration has from its table *)

\* The index of a configuration comes from its table.
FromTable(config) ==
    config.directoryIndex \in {NULL, config_parseArray(Tables[config.id].directoryIndex)}

\* So does the port, in 16 bits,
PortOf(config) ==
    /\ config_parseInt(Tables[config.id].port) \in 0..2^16
    /\ config.port = Int16(config_parseInt(Tables[config.id].port))

\* and whether there is TLS.
Copy(config) ==
    /\ config.domain = config_parseString(Tables[config.id].domain)
    /\ FromTable(config)
    /\ PortOf(config)
    /\ config.sslContext # NULL <=> HasTLS(Tables[config.id])

\* A string that names a file
FileOf(raw) == config_parseString(raw) \in Files

\* What config_parseServerTable has found out, and has set, at each position
Stage ==
    /\ server.domain = config_parseString(Table.domain)
    /\ FromTable(server)
    /\ config_parseString(Table.rootDirectory) \in Files \union {NULL}
    /\ pc \in {"port", "index"} => server.directoryIndex = NULL
    /\ pc # "port" => PortOf(server)
    /\ pc # "duplicate" => server.dhparams = NULL
    /\ pc \in {"port", "index", "tls", "context"} => server.sslContext = NULL
    /\ pc \in {"context", "privateKey", "certificate", "dhparams"}
          => HasTLS(Table) /\ config_parseString(Table.privateKey) # NULL
    /\ pc \in {"privateKey", "certificate", "dhparams"} => server.sslContext # NULL
    /\ pc \in {"certificate", "dhparams"} => FileOf(Table.privateKey)
    /\ pc = "dhparams" => FileOf(Table.certificate)
    /\ pc = "duplicate" =>
          /\ server.sslContext # NULL <=> HasTLS(Table)
          /\ HasTLS(Table) <=> config_parseString(Table.privateKey) # NULL
          /\ HasTLS(Table) => /\ FileOf(Table.privateKey) /\ FileOf(Table.certificate)
                              /\ config_parseString(Table.dhparams) \in Files \union {NULL}

\* A configuration agrees with its table, and the ports with the configurations.
Copied ==
    /\ pc = "running" => ports = {serverConfigs[k].port : k \in DOMAIN serverConfigs}
    /\ pc \in Filling => Stage
    /\ \A k \in DOMAIN serverConfigs : Copy(serverConfigs[k])

\* Each position of config_parseServerTable is reached past the checks before it.
LEMMA StageStep ==
    ASSUME StartupAssumption, Here, Here', Copied, pc \in {"root"} \union Filling, pc' \in Filling, Next
    PROVE  Stage'
<1>1. /\ Current \in DOMAIN Tables /\ Table = Tables[Current] /\ Current \in Nat
      /\ config_parseInt(Table.port) \in Int
  <2>1. Current \in 1..Len(Tables) /\ Current \in DOMAIN Tables /\ Table = Tables[Current]
    BY InTables, Zenon
  <2>2. \A k \in DOMAIN Tables : config_parseInt(Tables[k].port) \in Int
    BY TablesSeq, Zenon DEF Here
  <2> QED
    BY <2>1, <2>2
<1>2. document' = document /\ (i' = i \/ i' = i + 1)
  BY Zenon DEF Next, ParseArguments, LoadConfig, ServerTable, NextTable, RootDirectory,
     Port,
     DirectoryIndex, Keys, Context, UsePrivateKey, UseCertificate, DHParams, Reject,
     Duplicate, Parsed, Override, Daemonize, Ports, ConfigFree, Over, vars
<1>3. pc \in Filling => Stage /\ server \in Configs /\ server.id = Current
  BY Zenon DEF Copied, Here
<1>4. ASSUME i' = i
      PROVE  Tables' = Tables /\ Current' = Current /\ Table' = Table
  BY <1>2, <1>4, Zenon DEF Tables, Current, Table, toml_key_in
<1>5. CASE RootDirectory
  <2>1. i' = i /\ pc' = "port"
    BY <1>5, Zenon DEF RootDirectory, Filling
  <2>2. LET root == config_parseString(Table.rootDirectory)
            domain == config_parseString(Table.domain)
        IN  /\ root \in Files \union {NULL}
            /\ server' = [id |-> Current, domain |-> domain, rootDirectory |-> root,
                    port |-> 0, directoryIndex |-> NULL, sslContext |-> NULL,
                    dhparams |-> NULL]
    BY <1>5, <2>1, Zenon DEF RootDirectory, Current
  <2> QED
    BY <1>4, <2>1, <2>2, Zenon DEF Stage, FromTable
<1>6. CASE Port
  <2>1. i' = i /\ pc = "port" /\ pc' = "index"
    BY <1>6, Zenon DEF Port, Reject, Filling
  <2>2. /\ server' = [server EXCEPT !.port = Int16(config_parseInt(Table.port))]
        /\ Table.port = NULL \/ ~(config_parseInt(Table.port) < 0 \/ config_parseInt(Table.port) > 2^16)
    BY <1>6, <2>1, Zenon DEF Port, Reject
  <2>3. config_parseInt(Table.port) \in 0..2^16
    <3>1. CASE Table.port = NULL
      <4>1. config_parseInt(Table.port) = 0
        BY <3>1, Zenon DEF config_parseInt
      <4> QED
        BY <4>1, Width
    <3>2. CASE Table.port # NULL
      BY <1>1, <2>2, <3>2, Width
    <3> QED
      BY <3>1, <3>2, Zenon
  <2>4. /\ server'.id = server.id /\ server'.domain = server.domain /\ server'.directoryIndex = server.directoryIndex
        /\ server'.sslContext = server.sslContext /\ server'.dhparams = server.dhparams
        /\ server'.port = Int16(config_parseInt(Table.port))
    BY <1>3, <2>1, <2>2, Zenon DEF Configs, Filling
  <2>5. PortOf(server)'
    BY <1>1, <1>3, <1>4, <2>1, <2>3, <2>4, Zenon DEF PortOf, Filling
  <2>6. FromTable(server)'
    BY <1>3, <1>4, <2>1, <2>4, Zenon DEF Stage, FromTable, Filling
  <2> QED
    BY <1>3, <1>4, <2>1, <2>4, <2>5, <2>6, Zenon DEF Stage, Filling
<1>7. CASE DirectoryIndex
  <2>1. i' = i /\ pc = "index" /\ pc' = "tls"
    BY <1>7, Zenon DEF DirectoryIndex
  <2>2. server' = [server EXCEPT !.directoryIndex = config_parseArray(Table.directoryIndex)]
    BY <1>7, Zenon DEF DirectoryIndex
  <2>4. /\ server'.id = server.id /\ server'.domain = server.domain /\ server'.port = server.port
        /\ server'.sslContext = server.sslContext /\ server'.dhparams = server.dhparams
        /\ server'.directoryIndex = config_parseArray(Table.directoryIndex)
    BY <1>3, <2>1, <2>2, Zenon DEF Configs, Filling
  <2>5. PortOf(server)'
    BY <1>3, <1>4, <2>1, <2>4, Zenon DEF Stage, PortOf, Filling
  <2>6. FromTable(server)'
    BY <1>1, <1>3, <1>4, <2>1, <2>4, Zenon DEF FromTable, Filling
  <2> QED
    BY <1>3, <1>4, <2>1, <2>4, <2>5, <2>6, Zenon DEF Stage, Filling
<1>8. CASE Keys \/ UsePrivateKey \/ UseCertificate
  <2>1. i' = i /\ server' = server
    BY <1>8, Zenon DEF Keys, UsePrivateKey, UseCertificate, Reject, Filling
  <2>2. PortOf(server)' <=> PortOf(server)
    BY <1>4, <2>1, Zenon DEF PortOf
  <2>3. FromTable(server)' <=> FromTable(server)
    BY <1>4, <2>1, Zenon DEF FromTable
  <2>4. CASE Keys
    <3>1. pc = "tls" /\ pc' \in {"duplicate", "context"}
      BY <2>4, Zenon DEF Keys, Reject, Filling
    <3>2. /\ pc' = "duplicate" => ~HasTLS(Table) /\ config_parseString(Table.privateKey) = NULL
          /\ pc' = "context" => HasTLS(Table) /\ config_parseString(Table.privateKey) # NULL
      BY <2>4, Zenon DEF Keys, Reject, HasTLS
    <3> QED
      BY <1>3, <1>4, <2>1, <2>2, <2>3, <3>1, <3>2, Zenon DEF Stage, Filling
  <2>5. CASE UsePrivateKey
    <3>1. pc = "privateKey" /\ pc' = "certificate" /\ FileOf(Table.privateKey)
      BY <2>5, Zenon DEF UsePrivateKey, Reject, Filling, FileOf
    <3> QED
      BY <1>3, <1>4, <2>1, <2>2, <2>3, <3>1, Zenon DEF Stage, Filling
  <2>6. CASE UseCertificate
    <3>1. pc = "certificate" /\ pc' = "dhparams" /\ FileOf(Table.certificate)
      BY <2>6, Zenon DEF UseCertificate, Reject, Filling, FileOf
    <3> QED
      BY <1>3, <1>4, <2>1, <2>2, <2>3, <3>1, Zenon DEF Stage, Filling
  <2> QED
    BY <1>8, <2>4, <2>5, <2>6, Zenon
<1>9. CASE Context
  <2>1. i' = i /\ pc = "context" /\ pc' = "privateKey" /\ server' = [server EXCEPT !.sslContext = server.id]
    BY <1>9, Zenon DEF Context, Reject, Filling
  <2>4. /\ server'.id = server.id /\ server'.domain = server.domain /\ server'.port = server.port
        /\ server'.directoryIndex = server.directoryIndex /\ server'.dhparams = server.dhparams
        /\ server'.sslContext = server.id
    BY <1>3, <2>1, Zenon DEF Configs, Filling
  <2>5. PortOf(server)'
    BY <1>3, <1>4, <2>1, <2>4, Zenon DEF Stage, PortOf, Filling
  <2>6. FromTable(server)'
    BY <1>3, <1>4, <2>1, <2>4, Zenon DEF Stage, FromTable, Filling
  <2>7. server.id # NULL
    BY <1>1, <1>3, <2>1 DEF StartupAssumption, Filling
  <2> QED
    BY <1>3, <1>4, <2>1, <2>4, <2>5, <2>6, <2>7, Zenon DEF Stage, Filling
<1>10. CASE DHParams
  <2>1. i' = i /\ pc = "dhparams" /\ pc' = "duplicate"
    BY <1>10, Zenon DEF DHParams, Reject, Filling
  <2>2. /\ config_parseString(Table.dhparams) \in Files \union {NULL}
        /\ \E d : server' = [server EXCEPT !.dhparams = d]
    BY <1>10, <2>1, Zenon DEF DHParams, Reject
  <2>4. /\ server'.id = server.id /\ server'.domain = server.domain /\ server'.port = server.port
        /\ server'.sslContext = server.sslContext /\ server'.directoryIndex = server.directoryIndex
    BY <1>3, <2>1, <2>2, Zenon DEF Configs, Filling
  <2>5. PortOf(server)'
    BY <1>3, <1>4, <2>1, <2>4, Zenon DEF Stage, PortOf, Filling
  <2>6. FromTable(server)'
    BY <1>3, <1>4, <2>1, <2>4, Zenon DEF Stage, FromTable, Filling
  <2> QED
    BY <1>3, <1>4, <2>1, <2>2, <2>4, <2>5, <2>6, Zenon DEF Stage, Filling
<1> QED
  BY <1>5, <1>6, <1>7, <1>8, <1>9, <1>10, Zenon
     DEF Next, ParseArguments, LoadConfig, ServerTable, NextTable, Duplicate, Parsed,
         Override,
         Daemonize, Ports, ConfigFree, Over, Filling

\* What a configuration has from its table stays, since the document does.
LEMMA CopyKept ==
    ASSUME document' = document, NEW c, Copy(c)
    PROVE  Copy(c)'
  BY Zenon DEF Copy, FromTable, PortOf, Tables

\* There is no configuration when the process starts.
LEMMA CopiedInit == Init => Copied
  BY DEF Init, Copied, Filling

\* A configuration that is added has gone through all of its table.
LEMMA CopiedStep ==
    StartupAssumption /\ Here /\ Here' /\ Copied /\ [Next]_vars => Copied'
<1> SUFFICES ASSUME StartupAssumption, Here, Here', Copied, [Next]_vars PROVE Copied'
  OBVIOUS
<1>1. document' = document
  BY Zenon DEF Next, ParseArguments, LoadConfig, ServerTable, NextTable, RootDirectory,
     Port,
     DirectoryIndex, Keys, Context, UsePrivateKey, UseCertificate, DHParams, Reject,
     Duplicate, Parsed, Override, Daemonize, Ports, ConfigFree, Over, vars
<1>2. pc' \in Filling => Stage'
  <2>1. CASE UNCHANGED vars
    BY <2>1, Zenon DEF vars, Copied, Stage, Table, Tables, toml_key_in, FromTable, PortOf
  <2>2. CASE Next
    <3>1. pc' \in Filling => pc \in {"root"} \union Filling
      BY <2>2, Zenon DEF Next, ParseArguments, LoadConfig, ServerTable, NextTable,
         RootDirectory, Port,
         DirectoryIndex, Keys, Context, UsePrivateKey, UseCertificate, DHParams, Reject,
         Duplicate, Parsed, Override, Daemonize, Ports, ConfigFree, Over, vars, Filling
    <3> QED
      BY <2>2, <3>1, StageStep, Zenon
  <2> QED
    BY <2>1, <2>2, Zenon
<1>0. pc' = "running" => ports' = {serverConfigs'[k].port : k \in DOMAIN serverConfigs'}
  BY DEF Next, ParseArguments, LoadConfig, ServerTable, NextTable, RootDirectory, Port,
     DirectoryIndex, Keys, Context, UsePrivateKey, UseCertificate, DHParams, Reject,
     Duplicate, Parsed, Override, Daemonize, Ports, ConfigFree, Over, vars, made, Copied
<1>3. CASE serverConfigs' = serverConfigs
  BY <1>0, <1>1, <1>2, <1>3, CopyKept, Zenon DEF Copied
<1>4. CASE serverConfigs' = <<>>
  BY <1>0, <1>2, <1>4 DEF Copied
<1>5. CASE pc = "duplicate" /\ serverConfigs' = Append(serverConfigs, server)
  <2>1. Stage /\ server.id = Current /\ Table = Tables[Current]
    BY <1>5, InTables, Zenon DEF Copied, Here, Filling
  <2>2. Copy(server)
    BY <1>5, <2>1, Zenon DEF Copy, Stage
  <2>3. serverConfigs \in Seq(Configs) /\ server \in Configs
    BY <1>5, Zenon DEF Here, Filling
  <2>4. \A k \in DOMAIN serverConfigs' : Copy(serverConfigs'[k])
    <3> SUFFICES ASSUME NEW k \in DOMAIN serverConfigs' PROVE Copy(serverConfigs'[k])
      OBVIOUS
    <3>1. serverConfigs'[k] = server \/ (k \in DOMAIN serverConfigs /\ serverConfigs'[k] = serverConfigs[k])
      BY <1>5, <2>3
    <3> QED
      BY <2>2, <3>1, Zenon DEF Copied
  <2> QED
    BY <1>0, <1>1, <1>2, <2>4, CopyKept, Zenon DEF Copied
<1> QED
  BY <1>3, <1>4, <1>5, Zenon
     DEF Next, ParseArguments, LoadConfig, ServerTable, NextTable, RootDirectory, Port,
         DirectoryIndex, Keys, Context, UsePrivateKey, UseCertificate, DHParams,
         Duplicate, Parsed, Override, Daemonize, Ports, ConfigFree, Over, vars, made

-----------------------------------------------------------------------------
(* Memory *)

\* What belongs to main and to config_parse
MainNames ==
    IF pc \in {"arguments", "failed", "stopped"} THEN {}
    ELSE IF pc = "load" THEN Given("-l", arguments.logfile) \union Given("-c", arguments.config)
    ELSE IF pc \in {"server", "parsed"} \union Loop
    THEN Given("-l", arguments.logfile) \union Given("-c", arguments.config)
         \union {"toml", "config", "serverConfigs"} \union Given("configFile", arguments.config)
         \union Given("logfile", settings.logfile)
    ELSE IF pc = "override"
    THEN Given("-l", arguments.logfile) \union {"config", "serverConfigs"}
         \union Given("logfile", settings.logfile)
    ELSE {"config", "serverConfigs"} \union
         (IF arguments.logfile # NULL THEN {"-l"} ELSE Given("logfile", settings.logfile))

\* The names of the files for TLS, until they are used
Temporaries ==
    IF pc \in {"context", "privateKey"} THEN {"privateKey", "certificate"}
    ELSE IF pc = "certificate" THEN {"certificate"} ELSE {}

\* What belongs to the configuration that is being filled in
Filled == IF pc \in Filling THEN Members(server) \union Own(server.id, Temporaries) ELSE {}

\* The names of Diffie-Hellman files, which config_parseServerTable does not free
Leaks == {<<k, "dhparams name">> : k \in Nat}

\* What is allocated is what main, the configurations kept and the one being filled
\* in hold, and names that leaked.
Memory ==
    /\ pc # "crashed" => live = Own(0, MainNames) \union Kept \union Filled \union (live \intersect Leaks)
    /\ pc \in Before => settings.logfile = NULL
    /\ StringIndices => ~misuse

\* Every name that a configuration may have
Names == {"config", "name", "privateKey", "certificate"} \union Pointers

\* Objects of two owners are different ones.
LEMMA Apart ==
    ASSUME NEW a, NEW b, a # b, NEW S, NEW T
    PROVE  Own(a, S) \intersect Own(b, T) = {}
  BY DEF Own

\* No other object is one that leaks.
LEMMA NoLeak ==
    ASSUME NEW a, NEW S, "dhparams name" \notin S
    PROVE  Own(a, S) \intersect Leaks = {}
<1> SUFFICES ASSUME NEW o, o \in Own(a, S), o \in Leaks PROVE FALSE
  BY Zenon
<1>1. PICK name \in S : o = <<a, name>>
  BY Zenon DEF Own
<1>2. PICK k \in Nat : o = <<k, "dhparams name">>
  BY Zenon DEF Leaks
<1>3. name = "dhparams name"
  <2>1. o[2] = name
    BY <1>1, Zenon
  <2>2. o[2] = "dhparams name"
    BY <1>2, Zenon
  <2> QED
    BY <2>1, <2>2, Zenon
<1> QED
  BY <1>1, <1>3, Zenon

\* The members and temporaries of a configuration, and never the name that leaks
LEMMA InNames ==
    ASSUME NEW c
    PROVE  /\ Members(c) \subseteq Own(c.id, Names)
           /\ Own(c.id, Temporaries) \subseteq Own(c.id, Names)
           /\ "dhparams name" \notin Names
  BY Zenon DEF Members, Own, Names, Temporaries, Pointers

\* The parts of what is allocated have nothing in common.
LEMMA Parts ==
    ASSUME StartupAssumption, Here, pc \in Filling
    PROVE  /\ Own(0, MainNames) \intersect Own(server.id, Names) = {}
           /\ Kept \intersect Own(server.id, Names) = {}
           /\ Leaks \intersect Own(server.id, Names) = {}
<1>1. server.id = toml_key_in(i) + 1 /\ toml_key_in(i) >= 0 /\ toml_key_in(i) \in Int
  <2>1. server.id = toml_key_in(i) + 1 /\ toml_key_in(i) >= 0 /\ i \in Nat
    BY Zenon DEF Here, Current
  <2> QED
    <3>1. document.others \in Nat
      BY TablesSeq, Zenon DEF Here
    <3> QED
      BY <2>1, <3>1 DEF toml_key_in
<1>2. Own(0, MainNames) \intersect Own(server.id, Names) = {}
  <2>1. 0 # server.id
    BY <1>1
  <2> QED
    BY <2>1, Apart, Zenon
<1>3. \A k \in DOMAIN serverConfigs : Members(serverConfigs[k]) \intersect Own(server.id, Names) = {}
  <2> SUFFICES ASSUME NEW k \in DOMAIN serverConfigs
               PROVE  Members(serverConfigs[k]) \intersect Own(server.id, Names) = {}
    OBVIOUS
  <2>1. serverConfigs[k].id \in 1..toml_key_in(i)
    BY Zenon DEF Here
  <2>2. serverConfigs[k].id # server.id
    BY <1>1, <2>1
  <2>3. Own(serverConfigs[k].id, Names) \intersect Own(server.id, Names) = {}
    BY <2>2, Apart, Zenon
  <2> QED
    BY <2>3, InNames, Zenon
<1>4. Kept \intersect Own(server.id, Names) = {}
  BY <1>3, Zenon DEF Kept
<1>5. Leaks \intersect Own(server.id, Names) = {}
  BY NoLeak, InNames, Zenon
<1> QED
  BY <1>2, <1>4, <1>5, Zenon

\* main's names come and go.
LEMMA OwnChanges ==
    ASSUME NEW a, NEW N, NEW F, NEW W
    PROVE  Own(a, (N \ F) \union W) = (Own(a, N) \ Own(a, F)) \union Own(a, W)
<1>1. \A name : <<a, name>> \in Own(a, N) <=> name \in N
  BY Zenon DEF Own
<1>2. \A name : <<a, name>> \in Own(a, F) <=> name \in F
  BY Zenon DEF Own
<1>3. \A o \in Own(a, N) : \E name \in N : o = <<a, name>>
  BY Zenon DEF Own
<1> QED
  BY <1>1, <1>2, <1>3, Zenon DEF Own

\* What the servers own is not main's.
LEMMA KeptApart ==
    ASSUME StartupAssumption, Here, NEW F
    PROVE  Kept \intersect Own(0, F) = {}
<1>1. \A k \in DOMAIN serverConfigs : Members(serverConfigs[k]) \intersect Own(0, F) = {}
  <2> SUFFICES ASSUME NEW k \in DOMAIN serverConfigs
               PROVE  Members(serverConfigs[k]) \intersect Own(0, F) = {}
    OBVIOUS
  <2>1. serverConfigs[k].id # 0
    <3>1. serverConfigs[k].id \in 1..toml_key_in(i)
      BY Zenon DEF Here
    <3> QED
      BY <3>1, KeyInt
  <2>2. Own(serverConfigs[k].id, Names) \intersect Own(0, F) = {}
    BY <2>1, Apart, Zenon
  <2> QED
    BY <2>2, InNames, Zenon
<1> QED
  BY <1>1, Zenon DEF Kept

\* What the configurations hold depends on the list of them alone.
LEMMA KeptSame == serverConfigs' = serverConfigs => Kept' = Kept
  BY DEF Kept, Members

\* What main does to its own objects leaves the others alone.
LEMMA MainPart ==
    ASSUME StartupAssumption, Here, Memory, pc \notin Filling \union {"crashed"}, pc' \notin Filling,
           serverConfigs' = serverConfigs,
           NEW F, NEW W, "dhparams name" \notin F,
           live' = (live \ Own(0, F)) \union Own(0, W),
           MainNames' = (MainNames \ F) \union W
    PROVE  live' = Own(0, MainNames') \union Kept' \union Filled' \union (live' \intersect Leaks)
<1>1. Own(0, (MainNames \ F) \union W) = (Own(0, MainNames) \ Own(0, F)) \union Own(0, W)
  BY ONLY OwnChanges
<1>2. Kept \intersect Own(0, F) = {}
  BY KeptApart, Zenon
<1>3. Kept' = Kept /\ Filled = {} /\ Filled' = {}
  BY KeptSame, Zenon DEF Filled
<1>4. Leaks \intersect Own(0, F) = {}
  BY NoLeak, Zenon
<1>5. live = Own(0, MainNames) \union Kept \union Filled \union (live \intersect Leaks)
  BY Zenon DEF Memory
<1>6. Own(0, MainNames') = (Own(0, MainNames) \ Own(0, F)) \union Own(0, W)
  BY <1>1, Zenon
<1> QED
  BY <1>2, <1>3, <1>4, <1>5, <1>6, Zenon

\* What config_parseServerTable does to its own objects leaves the others alone.
LEMMA FilledPart ==
    ASSUME StartupAssumption, Here, Memory, pc \in Filling, pc' \in Loop,
           serverConfigs' = serverConfigs, arguments' = arguments, settings' = settings,
           NEW leaked \in SUBSET Leaks,
           live' = (live \ Filled) \union Filled' \union leaked
    PROVE  live' = Own(0, MainNames') \union Kept' \union Filled' \union (live' \intersect Leaks)
<1>1. Filled \subseteq Own(server.id, Names)
  BY InNames, Zenon DEF Filled
<1>2. MainNames' = MainNames /\ Kept' = Kept
  BY DEF MainNames, Loop, Filling, Kept, Members
<1>3. live = Own(0, MainNames) \union Kept \union Filled \union (live \intersect Leaks)
  BY Zenon DEF Memory, Filling
<1> QED
  BY <1>1, <1>2, <1>3, Parts, Zenon

\* No directory index but one of strings is freed.
LEMMA OnlyStrings ==
    ASSUME StringIndices, NEW c, FromTable(c), c.id \in DOMAIN Tables
    PROVE  ~FreesNoString(c)
<1>1. LET index == config_parseArray(Tables[c.id].directoryIndex)
      IN  index = NULL \/ index.type = "s" \/ index.length = 0
  BY Zenon DEF StringIndices
<1> QED
  BY <1>1 DEF FromTable, FreesNoString

\* A table that is turned down gives back what its configuration held.
LEMMA RejectMemory ==
    ASSUME StartupAssumption, Here, Copied, Memory, pc \in Filling,
           serverConfigs' = serverConfigs, arguments' = arguments, settings' = settings, document' = document,
           NEW leaked, leaked \subseteq {"dhparams name"}, pc' = "next",
           FreeServerConfig(server, Temporaries, leaked)
    PROVE  Memory'
<1>1. Filled = Members(server) \union Own(server.id, Temporaries) /\ Filled' = {}
  BY Zenon DEF Filled, Filling
<1>2. server.id \in DOMAIN Tables /\ server.id \in Nat
  <2>1. server.id = Current /\ server \in Configs
    BY Zenon DEF Here
  <2>2. Current \in DOMAIN Tables
    BY InTables, Zenon
  <2> QED
    BY <2>1, <2>2, Zenon DEF Configs
<1>3. Own(server.id, leaked) \subseteq Leaks
  BY <1>2, Zenon DEF Own, Leaks
<1>4. live' = (live \ Filled) \union Filled' \union Own(server.id, leaked)
  BY <1>1, Zenon DEF FreeServerConfig
<1>5. live' = Own(0, MainNames') \union Kept' \union Filled' \union (live' \intersect Leaks)
  BY <1>3, <1>4, FilledPart, Zenon DEF Loop
<1>6. Filled \subseteq live
  BY Zenon DEF Memory, Filling
<1>7. StringIndices' => ~misuse'
  <2> SUFFICES ASSUME StringIndices' PROVE ~misuse'
    BY Zenon
  <2>1. StringIndices
    BY Zenon DEF StringIndices, Tables
  <2>2. ~FreesNoString(server)
    BY <1>2, <2>1, OnlyStrings, Zenon DEF Copied, Stage
  <2>3. ~misuse
    BY <2>1, Zenon DEF Memory
  <2> QED
    BY <1>1, <1>6, <2>2, <2>3, Zenon DEF FreeServerConfig
<1> QED
  BY <1>5, <1>7, Zenon DEF Memory, Before

\* Nothing is allocated when the process starts.
LEMMA MemoryInit == Init => Memory
<1> SUFFICES ASSUME Init PROVE Memory
  OBVIOUS
<1>1. MainNames = {} /\ Kept = {} /\ Filled = {}
  BY DEF Init, MainNames, Kept, Filled, Filling
<1> QED
  BY <1>1, Zenon DEF Init, Memory, Own

\* A step of main outside the loop
LEMMA MainMemory ==
    ASSUME StartupAssumption, Here, Memory, document' = document,
           ParseArguments \/ LoadConfig \/ ServerTable \/ NextTable
    PROVE  Memory'
<1>0. /\ pc \notin Filling \union {"crashed"} /\ pc' \notin Filling
      /\ serverConfigs' = serverConfigs /\ arguments' = arguments
  BY Zenon DEF ParseArguments, LoadConfig, ServerTable, NextTable, Filling, made
<1>1. StringIndices' <=> StringIndices
  BY Zenon DEF StringIndices, Tables
<1>2. ASSUME NEW F, NEW W, "dhparams name" \notin F,
             live' = (live \ Own(0, F)) \union Own(0, W),
             MainNames' = (MainNames \ F) \union W, misuse' => misuse,
             pc' \in Before => settings'.logfile = NULL
      PROVE  Memory'
  <2>1. live' = Own(0, MainNames') \union Kept' \union Filled' \union (live' \intersect Leaks)
    BY <1>0, <1>2, MainPart, Zenon
  <2> QED
    BY ONLY <1>1, <1>2, <2>1, Memory, Zenon DEF Memory
<1>3. Own(0, {}) = {}
  BY Zenon DEF Own
<1>4. CASE ParseArguments
  <2>1. pc = "arguments" /\ settings' = settings /\ settings.logfile = NULL
    BY <1>4, Zenon DEF ParseArguments, made, Memory, Before
  <2>2. CASE pc' = "failed" /\ live' = live /\ misuse' = misuse
    <3>1. MainNames' = (MainNames \ {}) \union {}
      BY <2>1, <2>2, Zenon DEF MainNames
    <3> QED
      BY <1>2, <1>3, <2>1, <2>2, <3>1, Zenon
  <2>3. CASE pc' = "load" /\ Allocate(ArgumentStrings)
    <3>1. MainNames' = (MainNames \ {}) \union (Given("-l", arguments.logfile) \union Given("-c", arguments.config))
      BY <1>0, <2>1, <2>3, Zenon DEF MainNames
    <3> QED
      BY <1>2, <1>3, <2>1, <2>3, <3>1, Zenon DEF Allocate, ArgumentStrings
  <2> QED
    BY <1>4, <2>2, <2>3, Zenon DEF ParseArguments, heap
<1>5. CASE LoadConfig
  <2>1. pc = "load" /\ settings' = settings /\ settings.logfile = NULL
    BY <1>5, Zenon DEF LoadConfig, made, Memory, Before
  <2> DEFINE A == Given("-l", arguments.logfile) \union Given("-c", arguments.config)
             C == {"toml", "config", "serverConfigs"} \union Given("configFile", arguments.config)
  <2>2. CASE pc' = "failed" /\ Free(Own(0, A))
    <3>1. MainNames' = (MainNames \ A) \union {} /\ MainNames = A
      BY <2>1, <2>2, Zenon DEF MainNames
    <3>2. "dhparams name" \notin A
      BY Zenon DEF Given
    <3> HIDE DEF A
    <3>3. Own(0, A) \subseteq live
      BY <2>1, <3>1, Zenon DEF Memory
    <3>4. live' = (live \ Own(0, A)) \union Own(0, {}) /\ (misuse' => misuse)
      BY <1>3, <2>2, <3>3, Zenon DEF Free
    <3>5. settings'.logfile = NULL
      BY <2>1, Zenon
    <3> QED
      BY <1>2, <3>1, <3>2, <3>4, <3>5, Zenon
  <2>3. CASE pc' = "server" /\ Allocate(Own(0, C))
    <3>1. MainNames' = (MainNames \ {}) \union C
      BY <1>0, <2>1, <2>3, Zenon DEF MainNames, Loop, Filling, Given
    <3> HIDE DEF C
    <3> QED
      BY <1>2, <1>3, <2>1, <2>3, <3>1, Zenon DEF Allocate
  <2> QED
    BY <1>5, <2>2, <2>3, Zenon DEF LoadConfig, ArgumentStrings
<1>6. CASE ServerTable
  <2>1. pc = "server" /\ pc' = "next" /\ settings.logfile = NULL
    BY <1>6, Zenon DEF ServerTable, Memory, Before
  <2>2. CASE UNCHANGED <<settings, heap>>
    <3>1. MainNames' = (MainNames \ {}) \union {}
      BY <1>0, <2>1, <2>2, Zenon DEF MainNames, Loop
    <3> QED
      BY <1>2, <1>3, <2>1, <2>2, <3>1, Zenon DEF heap, Before
  <2>3. CASE Allocate(Own(0, Given("logfile", settings'.logfile)))
    <3>1. MainNames' = (MainNames \ {}) \union Given("logfile", settings'.logfile)
      BY <1>0, <2>1, Zenon DEF MainNames, Loop, Given
    <3> QED
      BY <1>2, <1>3, <2>1, <2>3, <3>1, Zenon DEF Allocate, Before
  <2> QED
    BY <1>6, <2>2, <2>3, Zenon DEF ServerTable
<1>7. CASE NextTable
  <2>1. pc = "next" /\ pc' \in {"next", "root", "parsed"} /\ UNCHANGED <<settings, live, misuse>>
    BY <1>7, Zenon DEF NextTable, made, heap
  <2>2. MainNames' = (MainNames \ {}) \union {}
    BY <1>0, <2>1, Zenon DEF MainNames, Loop
  <2> QED
    BY <1>2, <1>3, <2>1, <2>2, Zenon DEF Before
<1> QED
  BY <1>4, <1>5, <1>6, <1>7, Zenon

\* A step of main behind config_parse
LEMMA BehindMemory ==
    ASSUME StartupAssumption, Here, Memory, document' = document,
           Parsed \/ Override \/ Daemonize \/ Ports
    PROVE  Memory'
<1>0. /\ pc \notin Filling \union {"crashed"} /\ pc' \notin Filling /\ pc' \notin Before
      /\ serverConfigs' = serverConfigs /\ arguments' = arguments
  BY Zenon DEF Parsed, Override, Daemonize, Ports, Filling, Before, made
<1>1. StringIndices' <=> StringIndices
  BY Zenon DEF StringIndices, Tables
<1>2. ASSUME NEW F, NEW W, "dhparams name" \notin F,
             live' = (live \ Own(0, F)) \union Own(0, W),
             MainNames' = (MainNames \ F) \union W, misuse' => misuse
      PROVE  Memory'
  <2>1. live' = Own(0, MainNames') \union Kept' \union Filled' \union (live' \intersect Leaks)
    BY <1>0, <1>2, MainPart, Zenon
  <2> QED
    BY ONLY <1>0, <1>1, <1>2, <2>1, Memory, Zenon DEF Memory
<1>3. Own(0, {}) = {}
  BY Zenon DEF Own
<1>4. ASSUME NEW F, Free(Own(0, F)), F \subseteq MainNames, "dhparams name" \notin F,
             MainNames' = MainNames \ F
      PROVE  Memory'
  <2>1. Own(0, F) \subseteq Own(0, MainNames)
    BY <1>4, Zenon DEF Own
  <2>2. Own(0, F) \subseteq live
    BY <1>0, <2>1, Zenon DEF Memory
  <2>3. live' = (live \ Own(0, F)) \union Own(0, {}) /\ (misuse' => misuse)
    BY <1>3, <1>4, <2>2, Zenon DEF Free
  <2>4. MainNames' = (MainNames \ F) \union {}
    BY <1>4, Zenon
  <2> QED
    BY <1>2, <1>4, <2>3, <2>4, Zenon
<1>5. CASE Parsed
  <2> DEFINE F == {"toml"} \union Given("configFile", arguments.config) \union Given("-c", arguments.config)
  <2>1. F \subseteq MainNames /\ "dhparams name" \notin F /\ MainNames' = MainNames \ F
    BY <1>0, <1>5, Zenon DEF Parsed, MainNames, Given, Loop, Filling, made
  <2>2. Free(Own(0, F))
    BY <1>5, Zenon DEF Parsed
  <2> QED
    BY <1>4, <2>1, <2>2, Zenon
<1>6. CASE Override
  <2>1. pc = "override" /\ pc' = "daemon"
    BY <1>6, Zenon DEF Override
  <2>2. CASE arguments.logfile # NULL
    <3> DEFINE F == Given("logfile", settings.logfile)
    <3>1. F \subseteq MainNames /\ "dhparams name" \notin F /\ MainNames' = MainNames \ F
      BY <1>0, <2>1, <2>2, Zenon DEF MainNames, Given, Loop, Filling
    <3>2. Free(Own(0, F))
      BY <1>6, <2>2, Zenon DEF Override
    <3> QED
      BY <1>4, <3>1, <3>2, Zenon
  <2>3. CASE arguments.logfile = NULL
    <3>1. settings'.logfile = settings.logfile /\ live' = live /\ misuse' = misuse
      BY <1>6, <2>3 DEF Override, heap
    <3>2. MainNames' = (MainNames \ {}) \union {}
      BY <1>0, <2>1, <2>3, <3>1, Zenon DEF MainNames, Given, Loop, Filling
    <3> QED
      BY <1>2, <1>3, <3>1, <3>2, Zenon
  <2> QED
    BY <2>2, <2>3, Zenon
<1>7. CASE Daemonize \/ Ports
  <2>1. pc \in {"daemon", "ports"} /\ pc' \in {"ports", "exited", "running"} /\ UNCHANGED <<settings, live, misuse>>
    BY <1>7, Zenon DEF Daemonize, Ports, heap
  <2>2. MainNames' = (MainNames \ {}) \union {}
    BY <1>0, <2>1, Zenon DEF MainNames, Loop, Filling
  <2> QED
    BY <1>2, <1>3, <2>1, <2>2, Zenon
<1> QED
  BY <1>5, <1>6, <1>7, Zenon

\* A step of config_parseServerTable
LEMMA FillingMemory ==
    ASSUME StartupAssumption, Here, Here', Copied, Memory, document' = document,
           RootDirectory \/ Port \/ DirectoryIndex \/ Keys \/ Context \/ UsePrivateKey
              \/ UseCertificate \/ DHParams
    PROVE  Memory'
<1>0. /\ serverConfigs' = serverConfigs /\ arguments' = arguments /\ settings' = settings
      /\ pc \in {"root"} \union Filling /\ pc' \in Loop
  BY Zenon DEF RootDirectory, Port, DirectoryIndex, Keys, Context, UsePrivateKey,
     UseCertificate,
         DHParams, Reject, made, Filling, Loop
<1>1. StringIndices' <=> StringIndices
  BY Zenon DEF StringIndices, Tables
<1>2. CASE RootDirectory
  <2>1. MainNames' = MainNames /\ Kept' = Kept /\ Filled = {} /\ pc' \notin Before /\ pc # "crashed"
    BY <1>0, <1>2, KeptSame, Zenon
       DEF RootDirectory, MainNames, Filled, Loop, Filling, Before
  <2>2. live' = live \union Filled' /\ misuse' = misuse
    <3>1. CASE pc' = "port" /\ Allocate(Members(server'))
      <4>1. Temporaries' = {} /\ Own(server'.id, {}) = {}
        BY <3>1, Zenon DEF Temporaries, Own
      <4>2. Filled' = Members(server')
        BY <3>1, <4>1, Zenon DEF Filled, Filling
      <4> QED
        BY <3>1, <4>2, Zenon DEF Allocate
    <3>2. CASE pc' = "next" /\ UNCHANGED heap
      BY <3>2, Zenon DEF Filled, Filling, heap
    <3> QED
      BY <1>2, <3>1, <3>2, Zenon DEF RootDirectory
  <2> QED
    BY <1>1, <2>1, <2>2, Zenon DEF Memory
<1>3. CASE pc \in Filling
  <2>1. server \in Configs /\ Stage
    BY <1>3, Zenon DEF Here, Copied
  <2>2. Filled = Members(server) \union Own(server.id, Temporaries)
    BY <1>3, Zenon DEF Filled
  <2>3. ASSUME NEW temporaries, temporaries = Temporaries,
               NEW leaked, leaked \subseteq {"dhparams name"}, Reject(server, temporaries, leaked)
        PROVE  Memory'
    <3>1. pc' = "next" /\ FreeServerConfig(server, Temporaries, leaked)
      BY <2>3, Zenon DEF Reject
    <3> QED
      BY <1>0, <1>3, <2>3, <3>1, RejectMemory, Zenon
  <2>4. Filled \subseteq live
    BY <1>3, Zenon DEF Memory, Filling
  <2>5. ASSUME live' = (live \ Filled) \union Filled', misuse' => misuse
        PROVE  Memory'
    <3>1. live' = (live \ Filled) \union Filled' \union {}
      BY <2>5, Zenon
    <3>2. live' = Own(0, MainNames') \union Kept' \union Filled' \union (live' \intersect Leaks)
      BY <1>0, <1>3, <3>1, FilledPart, Zenon
    <3>3. pc' \notin Before
      BY <1>0, Zenon DEF Loop, Filling, Before
    <3> QED
      BY ONLY <1>1, <2>5, <3>2, <3>3, Memory, Zenon DEF Memory
  <2>6. ASSUME pc' \in Filling, Allocate(Members(server')), Members(server) \subseteq Members(server'),
               Temporaries' = Temporaries, server'.id = server.id
        PROVE  Memory'
    <3>1. Filled' = Members(server') \union Own(server.id, Temporaries)
      BY <2>6, Zenon DEF Filled, Own
    <3>2. live' = live \union Members(server') /\ (misuse' => misuse)
      BY <2>6, Zenon DEF Allocate
    <3>3. live' = (live \ Filled) \union Filled'
      BY <2>2, <2>4, <2>6, <3>1, <3>2, Zenon
    <3> QED
      BY <2>5, <3>2, <3>3, Zenon
  <2>7. CASE Port
    <3>1. CASE Reject(server, {}, {})
      <4>1. Temporaries = {}
        BY <2>7, Zenon DEF Port, Temporaries
      <4> QED
        BY <2>3, <3>1, <4>1, Zenon
    <3>2. CASE /\ server' = [server EXCEPT !.port = Int16(config_parseInt(Table.port))]
               /\ pc' = "index" /\ UNCHANGED <<i, heap>>
      <4>1. Members(server') = Members(server)
        BY <2>1, <3>2, Zenon DEF Members, Own, Pointers, Configs
      <4>2. Filled' = Filled
        <5>1. server'.id = server.id
          BY <2>1, <3>2, Zenon DEF Configs
        <5>2. Temporaries' = Temporaries
          BY <2>7, <3>2, Zenon DEF Port, Temporaries
        <5>3. Filled' = Members(server') \union Own(server'.id, Temporaries')
          BY <3>2, Zenon DEF Filled, Filling, Own
        <5> QED
          BY <2>2, <4>1, <5>1, <5>2, <5>3, Zenon
      <4> QED
        BY <2>4, <2>5, <3>2, <4>2, Zenon DEF heap
    <3> QED
      BY <2>7, <3>1, <3>2, Zenon DEF Port
  <2>8. CASE DirectoryIndex
    <3>1. server' = [server EXCEPT !.directoryIndex = config_parseArray(Table.directoryIndex)]
      BY <2>8, Zenon DEF DirectoryIndex
    <3>2. server.directoryIndex = NULL
      BY <2>1, <2>8, Zenon DEF Stage, DirectoryIndex
    <3>3. Members(server) \subseteq Members(server') /\ server'.id = server.id
      BY <2>1, <3>1, <3>2, Zenon DEF Members, Own, Pointers, Configs
    <3>4. Temporaries' = Temporaries /\ pc' \in Filling /\ Allocate(Members(server'))
      BY <2>8, Zenon DEF DirectoryIndex, Temporaries, Filling
    <3> QED
      BY <2>6, <3>3, <3>4, Zenon
  <2>9. CASE Keys
    <3>1. Temporaries = {} /\ Own(server.id, {}) = {}
      BY <2>9, Zenon DEF Keys, Temporaries, Own
    <3>2. CASE Reject(server, {}, {})
      BY <2>3, <3>1, <3>2, Zenon
    <3>3. CASE pc' = "duplicate" /\ UNCHANGED <<i, server, heap>>
      <4>1. Temporaries' = {}
        BY <3>3, Zenon DEF Temporaries
      <4>2. Filled' = Members(server') \union Own(server'.id, Temporaries')
        BY <3>3, Zenon DEF Filled, Filling, Own
      <4>3. Members(server') = Members(server) /\ server' = server
        BY <3>3, Zenon
      <4>4. Filled' = Filled
        BY <2>2, <3>1, <4>1, <4>2, <4>3, Zenon
      <4> QED
        BY <2>4, <2>5, <3>3, <4>4, Zenon DEF heap
    <3>4. CASE /\ Allocate(Own(server.id, {"privateKey", "certificate"}))
               /\ pc' = "context" /\ UNCHANGED <<i, server>>
      <4>1. Temporaries' = {"privateKey", "certificate"}
        BY <3>4, Zenon DEF Temporaries
      <4>2. Filled' = Members(server') \union Own(server'.id, Temporaries')
        BY <3>4, Zenon DEF Filled, Filling, Own
      <4>3. Members(server') = Members(server) /\ server' = server
        BY <3>4, Zenon
      <4>4. Filled' = Filled \union Own(server.id, {"privateKey", "certificate"})
        BY <2>2, <3>1, <4>1, <4>2, <4>3, Zenon
      <4>5. live' = live \union Own(server.id, {"privateKey", "certificate"}) /\ (misuse' => misuse)
        BY <3>4, Zenon DEF Allocate
      <4> QED
        BY <2>4, <2>5, <4>4, <4>5, Zenon
    <3> QED
      BY <2>9, <3>2, <3>3, <3>4, Zenon DEF Keys
  <2>10. CASE Context
    <3>1. CASE Reject(server, {"privateKey", "certificate"}, {})
      <4>1. Temporaries = {"privateKey", "certificate"}
        BY <2>10, Zenon DEF Context, Temporaries
      <4>2. Reject(server, Temporaries, {})
        BY <3>1, <4>1, Zenon
      <4> QED
        BY <2>3, <4>2, Zenon
    <3>2. CASE /\ server' = [server EXCEPT !.sslContext = server.id]
               /\ Allocate(Members(server')) /\ pc' = "privateKey"
      <4>1. server.id # NULL
        BY <2>1 DEF Configs, StartupAssumption
      <4>2. Members(server) \subseteq Members(server') /\ server'.id = server.id
        BY <2>1, <3>2, <4>1, Zenon DEF Members, Own, Pointers, Configs
      <4>3. Temporaries' = Temporaries /\ pc' \in Filling
        BY <2>10, <3>2, Zenon DEF Context, Temporaries, Filling
      <4> QED
        BY <2>6, <3>2, <4>2, <4>3, Zenon
    <3> QED
      BY <2>10, <3>1, <3>2, Zenon DEF Context
  <2>11. ASSUME NEW name \in {"privateKey", "certificate"}, Free(Own(server.id, {name})), server' = server,
                Temporaries' = Temporaries \ {name}, name \in Temporaries, pc' \in Filling
         PROVE  Memory'
    <3>1. Filled' = Members(server) \union Own(server.id, Temporaries \ {name})
      BY <2>11, Zenon DEF Filled, Members, Own
    <3>2. Own(server.id, {name}) \subseteq Own(server.id, Temporaries)
      BY <2>11, Zenon DEF Own
    <3>3. live' = live \ Own(server.id, {name}) /\ (misuse' => misuse)
      BY <2>2, <2>4, <2>11, <3>2, Zenon DEF Free
    <3>4. Own(server.id, (Temporaries \ {name}) \union {})
              = (Own(server.id, Temporaries) \ Own(server.id, {name})) \union Own(server.id, {})
      BY ONLY OwnChanges
    <3>5. Own(server.id, Temporaries \ {name}) = Own(server.id, Temporaries) \ Own(server.id, {name})
      <4>1. Own(server.id, {}) = {} /\ (Temporaries \ {name}) \union {} = Temporaries \ {name}
        BY Zenon DEF Own
      <4> QED
        BY <3>4, <4>1, Zenon
    <3>6. Members(server) \intersect Own(server.id, {name}) = {}
      BY <2>11 DEF Members, Own, Pointers
    <3>7. live' = (live \ Filled) \union Filled'
      BY <2>2, <2>4, <3>1, <3>2, <3>3, <3>5, <3>6, Zenon
    <3> QED
      BY <2>5, <3>3, <3>7, Zenon
  <2>12. CASE UsePrivateKey
    <3>1. Temporaries = {"privateKey", "certificate"}
      BY <2>12, Zenon DEF UsePrivateKey, Temporaries
    <3>2. CASE Reject(server, {"privateKey", "certificate"}, {})
      <4>1. Reject(server, Temporaries, {})
        BY <3>1, <3>2, Zenon
      <4> QED
        BY <2>3, <4>1, Zenon
    <3>3. CASE Free(Own(server.id, {"privateKey"})) /\ pc' = "certificate" /\ UNCHANGED <<i, server>>
      <4>1. Temporaries' = Temporaries \ {"privateKey"} /\ pc' \in Filling
        BY <3>1, <3>3, Zenon DEF Temporaries, Filling
      <4> QED
        BY <2>11, <3>1, <3>3, <4>1, Zenon
    <3> QED
      BY <2>12, <3>2, <3>3, Zenon DEF UsePrivateKey
  <2>13. CASE UseCertificate
    <3>1. Temporaries = {"certificate"}
      BY <2>13, Zenon DEF UseCertificate, Temporaries
    <3>2. CASE Reject(server, {"certificate"}, {})
      <4>1. Reject(server, Temporaries, {})
        BY <3>1, <3>2, Zenon
      <4> QED
        BY <2>3, <4>1, Zenon
    <3>3. CASE Free(Own(server.id, {"certificate"})) /\ pc' = "dhparams" /\ UNCHANGED <<i, server>>
      <4>1. Temporaries' = Temporaries \ {"certificate"} /\ pc' \in Filling
        BY <3>1, <3>3, Zenon DEF Temporaries, Filling
      <4> QED
        BY <2>11, <3>1, <3>3, <4>1, Zenon
    <3> QED
      BY <2>13, <3>2, <3>3, Zenon DEF UseCertificate
  <2>14. CASE DHParams
    <3>1. Temporaries = {}
      BY <2>14, Zenon DEF DHParams, Temporaries
    <3>2. CASE Reject(server, {}, {"dhparams name"})
      BY <2>3, <3>1, <3>2, Zenon
    <3>3. CASE /\ \E d : server' = [server EXCEPT !.dhparams = d]
               /\ Allocate(Members(server')) /\ pc' = "duplicate"
      <4>1. server.dhparams = NULL
        BY <2>1, <2>14, Zenon DEF Stage, DHParams
      <4>2. Members(server) \subseteq Members(server') /\ server'.id = server.id
        BY <2>1, <3>3, <4>1, Zenon DEF Members, Own, Pointers, Configs
      <4>3. Temporaries' = Temporaries /\ pc' \in Filling
        BY <3>1, <3>3, Zenon DEF Temporaries, Filling
      <4> QED
        BY <2>6, <3>3, <4>2, <4>3, Zenon
    <3> QED
      BY <2>14, <3>2, <3>3, Zenon DEF DHParams
  <2> QED
    BY <1>3, <2>7, <2>8, <2>9, <2>10, <2>12, <2>13, <2>14, Zenon DEF RootDirectory, Filling
<1> QED
  BY <1>2, <1>3, Zenon DEF Filling, Port, DirectoryIndex, Keys, Context, UsePrivateKey,
     UseCertificate, DHParams

\* A configuration passes to the list, or is freed.
LEMMA DuplicateMemory ==
    ASSUME StartupAssumption, Here, Copied, Memory, document' = document, Duplicate
    PROVE  Memory'
<1>0. /\ pc = "duplicate" /\ pc \in Filling /\ pc' \in {"next", "crashed"} /\ pc' \notin Filling
      /\ arguments' = arguments /\ settings' = settings
  BY Zenon DEF Duplicate, Filling
<1>1. StringIndices' <=> StringIndices
  BY Zenon DEF StringIndices, Tables
<1>2. Temporaries = {} /\ Own(server.id, {}) = {}
  BY <1>0, Zenon DEF Temporaries, Own
<1>3. Filled = Members(server) /\ Filled' = {}
  BY <1>0, <1>2, Zenon DEF Filled
<1>4. CASE serverConfigs' = Append(serverConfigs, server) /\ pc' = "next" /\ UNCHANGED heap
  <2>1. serverConfigs \in Seq(Configs) /\ server \in Configs
    BY <1>0, Zenon DEF Here
  <2>2. Kept' = Kept \union Members(server)
    <3>1. /\ DOMAIN serverConfigs' = DOMAIN serverConfigs \union {Len(serverConfigs) + 1}
          /\ \A k \in DOMAIN serverConfigs : serverConfigs'[k] = serverConfigs[k]
          /\ serverConfigs'[Len(serverConfigs) + 1] = server
      BY <1>4, <2>1
    <3>2. Kept' = UNION {Members(serverConfigs'[k]) : k \in DOMAIN serverConfigs'}
      BY Zenon DEF Kept, Members
    <3> QED
      BY <3>1, <3>2, Zenon DEF Kept
  <2>3. MainNames' = MainNames
    BY <1>0, <1>4, Zenon DEF MainNames, Loop, Filling
  <2>4. pc' \notin Before
    BY <1>4, Zenon DEF Before
  <2> QED
    BY <1>0, <1>1, <1>3, <1>4, <2>2, <2>3, <2>4, Zenon DEF Memory, heap
<1>5. CASE serverConfigs' = serverConfigs /\ pc' = "next" /\ FreeServerConfig(server, {}, {})
  BY <1>0, <1>2, <1>5, RejectMemory, Zenon
<1>6. CASE pc' = "crashed" /\ UNCHANGED heap
  BY <1>1, <1>6, Zenon DEF Memory, heap, Before
<1> QED
  BY <1>4, <1>5, <1>6, Zenon DEF Duplicate

\* config_free
LEMMA FreeMemory ==
    ASSUME StartupAssumption, Here, Copied, Memory, document' = document, ConfigFree
    PROVE  Memory'
<1>1. pc = "running" /\ pc' = "stopped" /\ pc \notin Filling /\ pc' \notin Filling /\ pc' \notin Before
  BY Zenon DEF ConfigFree, Filling, Before
<1>2. StringIndices' <=> StringIndices
  BY Zenon DEF StringIndices, Tables
<1>3. Kept' = {} /\ Filled = {} /\ Filled' = {} /\ MainNames' = {} /\ Own(0, {}) = {}
  <2>1. Kept' = {}
    BY DEF ConfigFree, Kept
  <2>2. MainNames' = {} /\ Own(0, {}) = {}
    BY <1>1, Zenon DEF MainNames, Own
  <2> QED
    BY <1>1, <2>1, <2>2, Zenon DEF Filled
<1>4. {"config", "serverConfigs"} \subseteq MainNames /\ MainNames \subseteq {"config", "serverConfigs", "logfile", "-l"}
  BY <1>1, Zenon DEF MainNames, Given, Loop, Filling
<1>5. /\ Own(0, {"config", "serverConfigs"}) \subseteq Own(0, MainNames)
      /\ Own(0, MainNames) \subseteq Own(0, {"config", "serverConfigs"}) \union Own(0, {"logfile", "-l"})
  BY <1>4, Zenon DEF Own
<1>6. live = Own(0, MainNames) \union Kept \union (live \intersect Leaks)
  BY <1>1, <1>3, Zenon DEF Memory
<1> DEFINE objects == Own(0, {"config", "serverConfigs"})
                      \union (live \intersect Own(0, {"logfile", "-l"})) \union Kept
<1>7. objects \subseteq live
  BY <1>5, <1>6, Zenon
<1>8. live' = live \ objects
  BY Zenon DEF ConfigFree
<1>9. live' = live' \intersect Leaks
  BY <1>5, <1>6, <1>8, Zenon
<1>10. StringIndices => ~misuse'
  <2> SUFFICES ASSUME StringIndices PROVE ~misuse'
    OBVIOUS
  <2>1. \A k \in DOMAIN serverConfigs : ~FreesNoString(serverConfigs[k])
    <3> SUFFICES ASSUME NEW k \in DOMAIN serverConfigs PROVE ~FreesNoString(serverConfigs[k])
      OBVIOUS
    <3>1. FromTable(serverConfigs[k])
      BY Zenon DEF Copied, Copy
    <3>2. serverConfigs[k].id \in DOMAIN Tables
      BY KeptTable, Zenon
    <3> QED
      BY <3>1, <3>2, OnlyStrings, Zenon
  <2>2. ~misuse
    BY Zenon DEF Memory
  <2> QED
    BY <1>7, <2>1, <2>2, Zenon DEF ConfigFree
<1> QED
  BY <1>1, <1>2, <1>3, <1>9, <1>10, Zenon DEF Memory

\* Every step accounts for what it allocates and frees.
LEMMA MemoryStep ==
    StartupAssumption /\ Here /\ Here' /\ Copied /\ Memory /\ [Next]_vars => Memory'
<1> SUFFICES ASSUME StartupAssumption, Here, Here', Copied, Memory, [Next]_vars PROVE Memory'
  OBVIOUS
<1>1. document' = document
  BY Zenon DEF Next, ParseArguments, LoadConfig, ServerTable, NextTable, RootDirectory,
     Port,
     DirectoryIndex, Keys, Context, UsePrivateKey, UseCertificate, DHParams, Reject,
     Duplicate, Parsed, Override, Daemonize, Ports, ConfigFree, Over, vars
<1>2. CASE UNCHANGED vars
  BY <1>2 DEF vars, heap, made, Memory, MainNames, Kept, Filled, Members, Own,
     Temporaries, StringIndices, Tables
<1>3. CASE Next
  BY <1>1, <1>2, <1>3, MainMemory, BehindMemory, FillingMemory, DuplicateMemory,
     FreeMemory, Zenon DEF Next, Over
<1> QED
  BY <1>2, <1>3, Zenon

\* The inductive invariant of start-up
IInv == Here /\ Copied /\ Memory

\* The invariant holds in every state of start-up.
LEMMA IInvAlways == StartupAssumption /\ Spec => []IInv
<1>1. CASE StartupAssumption
  <2>1. Init => IInv
    BY <1>1, HereInit, CopiedInit, MemoryInit, Zenon DEF IInv
  <2>2. IInv /\ [Next]_vars => IInv'
    BY <1>1, HereStep, CopiedStep, MemoryStep, Zenon DEF IInv
  <2> QED
    BY <2>1, <2>2, PTL DEF Spec
<1> QED
  BY <1>1, Zenon

\* For any configuration and arguments, on every path through config_parse: nothing
\* is freed that is not allocated, as long as directory indices are strings, and
\* once main has returned nothing is left but the names of Diffie-Hellman files
\* that could not be opened (config.c, config_free and config_freeServerConfig).
THEOREM NothingLeft == StartupAssumption /\ Spec => []ConfigFreed
<1>1. IInv => ConfigFreed
  <2> SUFFICES ASSUME IInv PROVE ConfigFreed
    OBVIOUS
  <2>1. StringIndices => ~misuse
    BY Zenon DEF IInv, Memory
  <2>2. ASSUME pc \in {"failed", "stopped"}, NEW object \in live
        PROVE  object[2] = "dhparams name"
    <3>1. Kept = {}
      BY <2>2 DEF IInv, Here, Kept
    <3>2. Filled = {} /\ Own(0, MainNames) = {}
      BY <2>2, Zenon DEF Filled, Filling, MainNames, Own
    <3>3. object \in Leaks
      BY <2>2, <3>1, <3>2, Zenon DEF IInv, Memory
    <3>4. PICK k \in Nat : object = <<k, "dhparams name">>
      BY <3>3, Zenon DEF Leaks
    <3> QED
      BY <3>4, Zenon
  <2> QED
    BY <2>1, <2>2, Zenon DEF ConfigFreed
<1> QED
  BY <1>1, IInvAlways, PTL

\* Remainders next to the divisor
LEMMA Remainders ==
    ASSUME NEW m \in Nat, NEW n \in Int
    PROVE  /\ 0 <= n /\ n < m => n % m = n
           /\ m <= n /\ n < 2 * m => n % m = n - m
           /\ -m <= n /\ n < 0 => n % m = n + m
<1>1. 0 <= n /\ n < m => n % m = n
  BY SMT
<1>2. m <= n /\ n < 2 * m => n % m = n - m
  BY SMT
<1>3. -m <= n /\ n < 0 => n % m = n + m
  BY SMT
<1> QED
  BY <1>1, <1>2, <1>3, Zenon

\* What is reduced to half of the range below zero and half above it, and then
\* to the range, is reduced to the range.
LEMMA Wraps ==
    ASSUME NEW h \in Nat, NEW m \in Nat, m = 2 * h, h > 0, NEW p \in Int, 0 <= p, p <= m
    PROVE  (((p + h) % m) - h) % m = p % m
<1>0. PICK q : q = p + h
  OBVIOUS
<1>q. /\ q \in Int
      /\ 0 <= q /\ q < m => q % m = q
      /\ m <= q /\ q < 2 * m => q % m = q - m
  <2>1. q \in Int
    BY <1>0, SMT
  <2> QED
    BY <2>1, Remainders, Zenon
<1>1. CASE p < h
  <2>1. (p + h) % m = p + h
    <3>1. 0 <= q /\ q < m
      BY <1>0, <1>1, SMT
    <3> QED
      BY <1>0, <1>q, <3>1, Zenon
  <2>2. ((p + h) % m) - h = p
    BY <2>1, SMT
  <2> QED
    BY <2>2, Zenon
<1>2. CASE h <= p /\ p < m
  <2>1. (p + h) % m = p + h - m
    <3>1. m <= q /\ q < 2 * m
      BY <1>0, <1>2, SMT
    <3> QED
      BY <1>0, <1>q, <3>1
  <2>2. ((p + h) % m) - h = p - m
    BY <2>1, SMT
  <2>3. (p - m) % m = (p - m) + m
    BY <1>2, Remainders, SMT
  <2>4. p % m = p
    BY <1>2, Remainders, SMT
  <2> QED
    BY <2>2, <2>3, <2>4, SMT
<1>3. CASE p = m
  <2>1. (p + h) % m = p + h - m
    <3>1. m <= q /\ q < 2 * m
      BY <1>0, <1>3, SMT
    <3> QED
      BY <1>0, <1>q, <3>1
  <2>2. ((p + h) % m) - h = 0
    BY <1>3, <2>1, SMT
  <2>3. 0 % m = 0
    BY Remainders, SMT
  <2>4. p % m = p - m
    BY <1>3, Remainders, SMT
  <2> QED
    BY <1>3, <2>2, <2>3, <2>4, SMT
<1> QED
  BY <1>1, <1>2, <1>3, SMT

\* What passes through an int16_t comes out of it as a uint16_t.
LEMMA RoundTrip ==
    ASSUME NEW p, p \in 0..2^16 PROVE UInt16(Int16(p)) = p % 2^16
<1>1. PICK h : h = 2^15
  OBVIOUS
<1>2. PICK m : m = 2^16
  OBVIOUS
<1>3. h \in Nat /\ m \in Nat /\ m = 2 * h /\ h > 0
  BY <1>1, <1>2, Width, SMT
<1>4. p \in Int /\ 0 <= p /\ p <= m
  BY <1>2, <1>3, SMT
<1>5. (((p + h) % m) - h) % m = p % m
  BY <1>3, <1>4, Wraps, Zenon
<1> QED
  BY <1>1, <1>2, <1>5, Zenon DEF UInt16, Int16

\* Min of a set of numbers is its least.
LEMMA MinOf ==
  ASSUME NEW S, S \subseteq Nat, S # {}
  PROVE  Min(S) \in S /\ \A y \in S : Min(S) <= y
<1> DEFINE R == OpToRel(<, Nat)
<1>1. PICK x \in S : \A y \in S : ~ (<<y, x>> \in R)
  BY NatLessThanWellFounded, WFMin, Zenon
<1>2. \A y \in S : ~ (y < x)
  BY <1>1, Zenon DEF OpToRel
<1>3. \A y \in S : x <= y
  BY <1>2
<1> QED
  BY <1>3, Zenon DEF Min

\* For any configuration: every port below 2^16 of a table that was kept is listened
\* on in spite of the signed 16-bit member that holds it, and a request for its
\* domain and port finds a configuration (config.c, config_getServerConfigByDomain).
THEOREM EveryPort == StartupAssumption /\ Spec => []PortsServed
<1>1. StartupAssumption /\ IInv => PortsServed
  <2> SUFFICES ASSUME StartupAssumption, IInv, pc = "running", NEW k \in DOMAIN serverConfigs,
                      config_parseInt(document.servers[serverConfigs[k].id].port) < 2^16
               PROVE  LET port == config_parseInt(document.servers[serverConfigs[k].id].port)
                          found == ByDomain(serverConfigs[k].domain, port)
                      IN  /\ port \in {UInt16(p) : p \in ports}
                          /\ found # {}
                          /\ config_parseInt(document.servers[First(found).id].port) % 2^16 = port
    BY Zenon DEF PortsServed
  <2>1. Here /\ Copied
    BY Zenon DEF IInv
  <2>2. \A j \in DOMAIN serverConfigs :
           /\ document.servers[serverConfigs[j].id] = Tables[serverConfigs[j].id]
           /\ PortOf(serverConfigs[j])
    BY <2>1, KeptTable, TablesSeq, Zenon DEF Here, Copied, Copy
  <2>3. \A j \in DOMAIN serverConfigs :
           UInt16(serverConfigs[j].port) = config_parseInt(document.servers[serverConfigs[j].id].port) % 2^16
    BY <2>2, RoundTrip, Zenon DEF PortOf
  <2> DEFINE port == config_parseInt(document.servers[serverConfigs[k].id].port)
             found == ByDomain(serverConfigs[k].domain, port)
  <2>4. port % 2^16 = port
    <3>1. port \in 0..2^16 /\ port < 2^16
      BY <2>2, Zenon DEF PortOf
    <3> HIDE DEF port
    <3> QED
      BY <3>1, Width
  <2>5. UInt16(serverConfigs[k].port) = port
    BY <2>3, <2>4, Zenon
  <2>6. port \in {UInt16(p) : p \in ports}
    BY <2>1, <2>5, Zenon DEF Copied
  <2>7. k \in found
    BY <2>5, Zenon DEF ByDomain
  <2>8. found \subseteq Nat
    BY <2>1 DEF ByDomain, Here
  <2>9. Min(found) \in found
    BY <2>7, <2>8, MinOf, Zenon
  <2>10. First(found) = serverConfigs[Min(found)] /\ Min(found) \in DOMAIN serverConfigs
         /\ UInt16(serverConfigs[Min(found)].port) = port
    BY <2>7, <2>9, Zenon DEF First, ByDomain
  <2> QED
    BY <2>3, <2>6, <2>7, <2>10, Zenon
<1>2. CASE StartupAssumption
  BY <1>1, <1>2, IInvAlways, PTL
<1> QED
  BY <1>2, Zenon

-----------------------------------------------------------------------------
(* Which tables are kept *)

KeptIds == {serverConfigs[j].id : j \in DOMAIN serverConfigs}

\* A good table with TLS has its domain in the list, its own or an earlier one.
Served(k) ==
    \E j \in DOMAIN serverConfigs :
       /\ serverConfigs[j].sslContext # NULL
       /\ serverConfigs[j].domain = config_parseString(document.servers[k].domain)

\* What config_parse has made of the first `i` tables: no two configurations with
\* TLS have one domain, so the clash with any of them is found.
Chosen ==
    /\ noContext \subseteq 1..i
    /\ \A k \in 1..i : k \in KeptIds <=> Good(k) /\ ~SetAside(k)
    /\ \A k \in 1..i : Good(k) /\ HasTLS(document.servers[k]) => Served(k)
    /\ \A j, k \in DOMAIN serverConfigs :
          BothHaveSSL(serverConfigs[j], serverConfigs[k])
             /\ serverConfigs[j].domain = serverConfigs[k].domain => j = k

\* That holds for a file with nothing but [server] and [servers] in it.
Choice ==
    document.others = 0 /\ pc \in Before \union Loop \union After => Chosen

\* What was found out of a table stays.
LEMMA Judged ==
    ASSUME document' = document, i \in Nat,
           noContext' = noContext \/ noContext' = noContext \union {i + 1}
    PROVE  /\ \A k \in 1..i : Good(k)' <=> Good(k)
           /\ \A k \in 1..(i + 1) : SetAside(k)' <=> SetAside(k)
<1>1. \A k \in 1..i : (k \in noContext)' <=> k \in noContext
  OBVIOUS
<1>2. \A k \in 1..i : Good(k)' <=> Good(k)
  BY <1>1, Zenon DEF Good
<1>3. \A k \in 1..(i + 1) : \A j \in 1..(k - 1) : j \in 1..i
  OBVIOUS
<1> QED
  BY <1>2, <1>3, Zenon DEF SetAside

\* A table that is turned down was not good.
LEMMA ChosenOn ==
    ASSUME Chosen, document' = document, serverConfigs' = serverConfigs,
           i \in Nat, i' = i + 1, NEW n, n = i + 1, ~Good(n)', n \notin KeptIds,
           noContext' = noContext \/ noContext' = noContext \union {i + 1}
    PROVE  Chosen'
<1>1. KeptIds' = KeptIds /\ \A k : Served(k)' <=> Served(k)
  BY Zenon DEF KeptIds, Served
<1>2. \A k \in 1..(i + 1) : k \in 1..i \/ k = i + 1
  OBVIOUS
<1>3. /\ noContext \subseteq 1..i
      /\ \A k \in 1..i : k \in KeptIds <=> Good(k) /\ ~SetAside(k)
      /\ \A k \in 1..i : Good(k) /\ HasTLS(document.servers[k]) => Served(k)
  BY Zenon DEF Chosen
<1>4. /\ \A k \in 1..i : Good(k)' <=> Good(k)
      /\ \A k \in 1..(i + 1) : SetAside(k)' <=> SetAside(k)
  BY Judged, Zenon
<1>5. noContext' \subseteq 1..(i + 1)
  <2> SUFFICES ASSUME NEW k \in noContext' PROVE k \in 1..(i + 1)
    OBVIOUS
  <2>1. k \in 1..i \/ k = i + 1
    BY <1>3, Zenon
  <2> QED
    BY ONLY <2>1, i \in Nat
<1>6. \A k \in 1..(i + 1) : k \in KeptIds' <=> Good(k)' /\ ~SetAside(k)'
  BY <1>1, <1>2, <1>3, <1>4, Zenon
<1>7. \A k \in 1..(i + 1) : Good(k)' /\ HasTLS(document.servers[k]) => Served(k)'
  BY <1>1, <1>2, <1>3, <1>4, Zenon
<1>8. \A j, k \in DOMAIN serverConfigs :
          BothHaveSSL(serverConfigs[j], serverConfigs[k])
             /\ serverConfigs[j].domain = serverConfigs[k].domain => j = k
  BY Zenon DEF Chosen
<1> QED
  BY <1>5, <1>6, <1>7, <1>8, Zenon DEF Chosen

\* Of a good table it is known whether it is set aside.
LEMMA Clash ==
    ASSUME StartupAssumption, Here, Copied, Chosen, document.others = 0, pc = "duplicate",
           NEW n, n = i + 1
    PROVE  /\ n = server.id /\ n \in Nat /\ n \notin KeptIds /\ i \in Nat
           /\ Good(n)
           /\ HasTLS(document.servers[n]) <=> server.sslContext # NULL
           /\ server.domain = config_parseString(document.servers[n].domain)
           /\ SetAside(n) <=> Clashes(server) # {}
<1>1. i \in Nat /\ toml_key_in(i) = i /\ n \in Nat /\ n = Current
  <2>1. i \in Nat
    BY Zenon DEF Here
  <2> QED
    BY <2>1 DEF Current, toml_key_in
<1>2. /\ n = server.id /\ Stage /\ Table = document.servers[n]
      /\ Tables[n] = document.servers[n]
  <2>1. pc \in Filling
    BY Zenon DEF Filling
  <2>2. Current \in DOMAIN Tables /\ Table = Tables[Current]
    BY <2>1, InTables, Zenon
  <2>3. document.servers[Current] = Tables[Current]
    BY <2>2, TablesSeq, Zenon DEF Here
  <2>4. server.id = Current /\ Stage
    BY <2>1, Zenon DEF Here, Copied
  <2> QED
    BY <1>1, <2>2, <2>3, <2>4, Zenon
<1>3. /\ HasTLS(document.servers[n]) <=> server.sslContext # NULL
      /\ server.domain = config_parseString(document.servers[n].domain)
  BY <1>2, Zenon DEF Stage
<1>4. \A k \in DOMAIN serverConfigs : serverConfigs[k].id \in 1..i
  BY <1>1, Zenon DEF Here
<1>5. n \notin KeptIds /\ n \notin noContext
  <2>1. n \notin 1..i
    BY <1>1
  <2> QED
    BY <1>4, <2>1, Zenon DEF KeptIds, Chosen
<1>6. Good(n)
  <2>1. config_parseInt(document.servers[n].port) \in 0..2^16
    BY <1>2, Zenon DEF Stage, PortOf
  <2>2. HasTLS(document.servers[n]) = (config_parseString(document.servers[n].privateKey) # NULL)
    BY <1>2, Zenon DEF Stage, HasTLS
  <2> QED
    BY <1>2, <1>5, <2>1, <2>2, Zenon DEF Stage, Good, FileOf
<1>7. ASSUME NEW k \in Clashes(server) PROVE SetAside(n)
  <2>1. /\ k \in DOMAIN serverConfigs /\ serverConfigs[k].domain = server.domain
        /\ serverConfigs[k].sslContext # NULL /\ server.sslContext # NULL
    BY <1>7, Zenon DEF Clashes, BothHaveSSL
  <2> DEFINE j == serverConfigs[k].id
  <2>2. j \in 1..i /\ j \in 1..(n - 1) /\ j \in KeptIds
    BY <1>1, <1>4, <2>1 DEF KeptIds
  <2>3. document.servers[j] = Tables[j]
    BY <2>1, KeptTable, TablesSeq, Zenon DEF Here
  <2>4. Copy(serverConfigs[k])
    BY <2>1, Zenon DEF Copied
  <2>5. HasTLS(document.servers[j]) /\ server.domain = config_parseString(document.servers[j].domain)
    BY <2>1, <2>3, <2>4, Zenon DEF Copy
  <2>6. Good(j)
    BY <2>2, Zenon DEF Chosen
  <2> HIDE DEF j
  <2> QED
    BY <1>3, <2>1, <2>2, <2>5, <2>6, Zenon DEF SetAside
<1>8. ASSUME SetAside(n) PROVE Clashes(server) # {}
  <2>1. PICK j \in 1..(n - 1) : /\ Good(j) /\ HasTLS(document.servers[j])
                                /\ config_parseString(document.servers[j].domain)
                                      = config_parseString(document.servers[n].domain)
    BY <1>8, Zenon DEF SetAside
  <2>2. j \in 1..i
    BY <1>1, <2>1
  <2>3. Served(j)
    BY <2>1, <2>2, Zenon DEF Chosen
  <2>4. server.sslContext # NULL
    BY <1>3, <1>8, Zenon DEF SetAside
  <2> QED
    BY <1>3, <2>1, <2>3, <2>4, Zenon DEF Served, Clashes, BothHaveSSL
<1> QED
  BY <1>1, <1>2, <1>3, <1>5, <1>6, <1>7, <1>8, Zenon

\* A good table has been dealt with.
LEMMA ChosenNext ==
    ASSUME Chosen, document' = document, noContext' = noContext,
           i \in Nat, i' = i + 1, NEW n, n = i + 1, Good(n),
           n \in KeptIds' <=> ~SetAside(n),
           \A k \in 1..i : k \in KeptIds' <=> k \in KeptIds,
           \A k : Served(k) => Served(k)',
           HasTLS(document.servers[n]) => Served(n)',
           \A j, k \in DOMAIN serverConfigs' :
              BothHaveSSL(serverConfigs'[j], serverConfigs'[k])
                 /\ serverConfigs'[j].domain = serverConfigs'[k].domain => j = k
    PROVE  Chosen'
<1>1. \A k \in 1..(i + 1) : k \in 1..i \/ k = n
  OBVIOUS
<1>2. \A k : (Good(k)' <=> Good(k)) /\ (SetAside(k)' <=> SetAside(k))
  BY Zenon DEF Good, SetAside
<1>3. /\ noContext \subseteq 1..i
      /\ \A k \in 1..i : k \in KeptIds <=> Good(k) /\ ~SetAside(k)
      /\ \A k \in 1..i : Good(k) /\ HasTLS(document.servers[k]) => Served(k)
  BY Zenon DEF Chosen
<1>4. noContext' \subseteq 1..(i + 1)
  <2>1. 1..i \subseteq 1..(i + 1)
    BY ONLY i \in Nat
  <2> QED
    BY <1>3, <2>1, Zenon
<1>5. \A k \in 1..(i + 1) : k \in KeptIds' <=> Good(k)' /\ ~SetAside(k)'
  BY <1>1, <1>2, <1>3, Zenon
<1>6. \A k \in 1..(i + 1) : Good(k)' /\ HasTLS(document.servers[k]) => Served(k)'
  BY <1>1, <1>2, <1>3, Zenon
<1> QED
  BY <1>4, <1>5, <1>6, Zenon DEF Chosen

\* The check for a duplicate sets aside the tables it should.
LEMMA ChosenDuplicate ==
    ASSUME StartupAssumption, Here, Copied, Chosen, document.others = 0, Duplicate, pc' = "next"
    PROVE  Chosen'
<1>0. /\ pc = "duplicate" /\ document' = document /\ noContext' = noContext /\ i' = i + 1
  BY Zenon DEF Duplicate
<1>1. PICK n : n = i + 1
  OBVIOUS
<1>2. /\ n = server.id /\ n \in Nat /\ n \notin KeptIds /\ i \in Nat /\ Good(n)
      /\ HasTLS(document.servers[n]) <=> server.sslContext # NULL
      /\ server.domain = config_parseString(document.servers[n].domain)
      /\ SetAside(n) <=> Clashes(server) # {}
  BY <1>0, <1>1, Clash, Zenon
<1>3. serverConfigs \in Seq(Configs) /\ server \in Configs
  BY <1>0, Zenon DEF Here, Filling
<1>4. \A j, k \in DOMAIN serverConfigs :
          BothHaveSSL(serverConfigs[j], serverConfigs[k])
             /\ serverConfigs[j].domain = serverConfigs[k].domain => j = k
  BY Zenon DEF Chosen
<1>5. CASE Clashes(server) = {} /\ serverConfigs' = Append(serverConfigs, server)
  <2> DEFINE m == Len(serverConfigs) + 1
  <2>1. /\ DOMAIN serverConfigs' = DOMAIN serverConfigs \union {m}
        /\ \A k \in DOMAIN serverConfigs : serverConfigs'[k] = serverConfigs[k]
        /\ serverConfigs'[m] = server
    BY <1>3, <1>5
  <2> HIDE DEF m
  <2>2. KeptIds' = KeptIds \union {n}
    <3>1. KeptIds' = {serverConfigs'[j].id : j \in DOMAIN serverConfigs'}
      BY Zenon DEF KeptIds
    <3> QED
      BY <1>2, <2>1, <3>1 DEF KeptIds
  <2>3. \A k \in 1..i : k \in KeptIds' <=> k \in KeptIds
    <3>1. n \notin 1..i
      BY <1>1, <1>2
    <3> QED
      BY <2>2, <3>1, Zenon
  <2>4. \A k : Served(k) => Served(k)'
    BY <1>0, <2>1, Zenon DEF Served
  <2>5. HasTLS(document.servers[n]) => Served(n)'
    BY <1>0, <1>2, <2>1, Zenon DEF Served
  <2>6. \A j, k \in DOMAIN serverConfigs' :
          BothHaveSSL(serverConfigs'[j], serverConfigs'[k])
             /\ serverConfigs'[j].domain = serverConfigs'[k].domain => j = k
    BY <1>4, <1>5, <2>1 DEF Clashes, BothHaveSSL
  <2> QED
    BY <1>0, <1>1, <1>2, <1>5, <2>2, <2>3, <2>4, <2>5, <2>6, ChosenNext, Zenon
<1>6. CASE Clashes(server) # {} /\ serverConfigs' = serverConfigs
  <2>1. KeptIds' = KeptIds /\ \A k : Served(k)' <=> Served(k)
    BY <1>0, <1>6, Zenon DEF KeptIds, Served
  <2>2. HasTLS(document.servers[n]) => Served(n)
    BY <1>2, <1>6, Zenon DEF Clashes, BothHaveSSL, Served
  <2> QED
    BY <1>0, <1>1, <1>2, <1>4, <1>6, <2>1, <2>2, ChosenNext, Zenon
<1>7. CASE /\ Clashes(server) \union Unset(server) # {}
           /\ Min(Clashes(server) \union Unset(server)) \notin Unset(server)
           /\ serverConfigs' = serverConfigs
  <2>1. Clashes(server) \union Unset(server) \subseteq Nat
    BY <1>3 DEF Clashes, Unset
  <2>2. Min(Clashes(server) \union Unset(server)) \in Clashes(server) \union Unset(server)
    BY <1>7, <2>1, MinOf, Zenon
  <2> QED
    BY <1>6, <1>7, <2>2, Zenon
<1> QED
  BY <1>5, <1>7, Zenon DEF Duplicate

\* A table is turned down for a reason.
LEMMA TurnedDown ==
    ASSUME StartupAssumption, Here, Copied, document.others = 0,
           RootDirectory \/ Port \/ DirectoryIndex \/ Keys \/ Context \/ UsePrivateKey
              \/ UseCertificate \/ DHParams,
           pc' = "next", NEW n, n = i + 1
    PROVE  /\ document' = document /\ serverConfigs' = serverConfigs /\ i' = i + 1
           /\ noContext' = noContext \/ noContext' = noContext \union {n}
           /\ ~Good(n)'
<1>0. pc \in {"root"} \union Filling /\ document' = document /\ serverConfigs' = serverConfigs
  BY Zenon DEF RootDirectory, Port, DirectoryIndex, Keys, Context, UsePrivateKey,
     UseCertificate,
         DHParams, made, Filling
<1>1. n = Current
  <2>1. i \in Nat
    BY Zenon DEF Here
  <2> QED
    BY <2>1 DEF Current, toml_key_in
<1>2. Table = document.servers[n] /\ config_parseInt(Table.port) \in Int
  <2>1. Current \in DOMAIN Tables /\ Table = Tables[Current]
    BY <1>0, InTables, Zenon
  <2>2. document.servers[Current] = Tables[Current] /\ config_parseInt(Tables[Current].port) \in Int
    BY <2>1, TablesSeq, Zenon DEF Here
  <2> QED
    BY <1>1, <2>1, <2>2, Zenon
<1>3. pc \in Filling => Stage /\ server.id = n
  BY <1>1, Zenon DEF Copied, Here
<1>4. document.servers' = document.servers
  BY <1>0, Zenon
<1>5. CASE RootDirectory
  <2>1. i' = i + 1 /\ noContext' = noContext /\ config_parseString(Table.rootDirectory) \notin Files \union {NULL}
    BY <1>5, Zenon DEF RootDirectory, made
  <2> QED
    BY <1>0, <1>2, <1>4, <2>1, Zenon DEF Good
<1>6. CASE Port
  <2>1. i' = i + 1 /\ noContext' = noContext /\ (config_parseInt(Table.port) < 0 \/ config_parseInt(Table.port) > 2^16)
    BY <1>6, Zenon DEF Port, Reject, made
  <2>2. config_parseInt(Table.port) \notin 0..2^16
    <3>1. PICK m : m = 2^16
      OBVIOUS
    <3>2. PICK p : p = config_parseInt(Table.port)
      OBVIOUS
    <3>3. m \in Int
      BY <3>1, Width, SMT
    <3>4. p \in Int /\ (p < 0 \/ p > m)
      BY <1>2, <2>1, <3>1, <3>2, Zenon
    <3>5. p \notin 0..m
      BY ONLY <3>3, <3>4, SMT
    <3> QED
      BY <3>1, <3>2, <3>5, Zenon
  <2> QED
    BY <1>0, <1>2, <1>4, <2>1, <2>2, Zenon DEF Good
<1>7. CASE DirectoryIndex
  BY <1>7, Zenon DEF DirectoryIndex
<1>8. CASE Keys
  <2>1. /\ i' = i + 1 /\ noContext' = noContext
        /\ (config_parseString(Table.privateKey) = NULL) # (config_parseString(Table.certificate) = NULL)
    BY <1>8, Zenon DEF Keys, Reject, made
  <2>2. HasTLS(Table) # (config_parseString(Table.privateKey) # NULL)
    BY <2>1, Zenon DEF HasTLS
  <2> QED
    BY <1>0, <1>2, <1>4, <2>1, <2>2, Zenon DEF Good
<1>9. CASE Context
  <2>1. i' = i + 1 /\ noContext' = noContext \union {server.id} /\ pc = "context"
    BY <1>9, Zenon DEF Context, Reject
  <2>2. server.id = n
    BY <1>3, <2>1, Zenon DEF Filling
  <2> QED
    BY <1>0, <2>1, <2>2, Zenon DEF Good
<1>10. CASE UsePrivateKey
  <2>1. i' = i + 1 /\ noContext' = noContext /\ config_parseString(Table.privateKey) \notin Files /\ pc = "privateKey"
    BY <1>10, Zenon DEF UsePrivateKey, Reject, made
  <2>2. HasTLS(Table) /\ config_parseString(Table.privateKey) # NULL
    BY <1>3, <2>1, Zenon DEF Stage, Filling
  <2> QED
    BY <1>0, <1>2, <1>4, <2>1, <2>2, Zenon DEF Good
<1>11. CASE UseCertificate
  <2>1. i' = i + 1 /\ noContext' = noContext /\ config_parseString(Table.certificate) \notin Files /\ pc = "certificate"
    BY <1>11, Zenon DEF UseCertificate, Reject, made
  <2>2. HasTLS(Table) /\ config_parseString(Table.certificate) # NULL
    BY <1>3, <2>1, Zenon DEF Stage, Filling, HasTLS
  <2> QED
    BY <1>0, <1>2, <1>4, <2>1, <2>2, Zenon DEF Good
<1>12. CASE DHParams
  <2>1. i' = i + 1 /\ noContext' = noContext /\ config_parseString(Table.dhparams) \notin Files \union {NULL} /\ pc = "dhparams"
    BY <1>12, Zenon DEF DHParams, Reject, made
  <2>2. HasTLS(Table)
    BY <1>3, <2>1, Zenon DEF Stage, Filling
  <2> QED
    BY <1>0, <1>2, <1>4, <2>1, <2>2, Zenon DEF Good
<1> QED
  BY <1>5, <1>6, <1>7, <1>8, <1>9, <1>10, <1>11, <1>12, Zenon

\* A step that looks at no table decides on none.
LEMMA ChosenSame ==
    ASSUME Chosen, UNCHANGED <<document, serverConfigs, i, noContext>>
    PROVE  Chosen'
<1>1. /\ KeptIds' = KeptIds
      /\ \A k : Served(k)' <=> Served(k)
      /\ \A k : Good(k)' <=> Good(k)
  BY Zenon DEF KeptIds, Served, Good
<1>2. \A k : SetAside(k)' <=> SetAside(k)
  BY <1>1, Zenon DEF SetAside
<1> QED
  BY <1>1, <1>2, Zenon DEF Chosen

\* No table was looked at when the process starts.
LEMMA ChoiceInit == Init => Choice
  BY DEF Init, Choice, Chosen, KeptIds

\* Every step decides on the next table, or on none.
LEMMA ChoiceStep ==
    StartupAssumption /\ Here /\ Copied /\ Choice /\ [Next]_vars => Choice'
<1> SUFFICES ASSUME StartupAssumption, Here, Copied, Choice, [Next]_vars,
                    (document.others = 0 /\ pc \in Before \union Loop \union After)'
             PROVE  Chosen'
  BY Zenon DEF Choice
<1>1. document' = document
  BY Zenon DEF Next, ParseArguments, LoadConfig, ServerTable, NextTable, RootDirectory,
     Port,
     DirectoryIndex, Keys, Context, UsePrivateKey, UseCertificate, DHParams, Reject,
     Duplicate, Parsed, Override, Daemonize, Ports, ConfigFree, Over, vars
<1>2. pc' \notin {"failed", "exited", "crashed", "stopped"}
  BY Zenon DEF Before, Loop, After, Filling
<1>3. pc \in Before \union Loop \union After
  BY <1>2, Zenon DEF Here, Next, ParseArguments, LoadConfig, ServerTable, NextTable,
     RootDirectory, Port,
     DirectoryIndex, Keys, Context, UsePrivateKey, UseCertificate, DHParams, Reject,
     Duplicate, Parsed, Override, Daemonize, Ports, ConfigFree, Over, vars
<1>4. Chosen /\ document.others = 0
  BY <1>1, <1>3, Zenon DEF Choice
<1>5. CASE UNCHANGED <<serverConfigs, i, noContext>>
  BY <1>1, <1>4, <1>5, ChosenSame, Zenon
<1>6. CASE ParseArguments \/ LoadConfig \/ ServerTable \/ Parsed \/ Override \/ Daemonize \/ Ports
  BY <1>5, <1>6 DEF ParseArguments, LoadConfig, ServerTable, Parsed, Override, Daemonize,
     Ports, made
<1>7. CASE NextTable
  <2>1. toml_key_in(i) >= 0
    <3>1. i \in Nat
      BY Zenon DEF Here
    <3> QED
      BY <1>4, <3>1 DEF toml_key_in
  <2>2. ~(toml_key_in(i) < 0)
    BY <2>1, KeyInt
  <2> QED
    BY <1>5, <1>7, <2>2, Zenon DEF NextTable, made
<1>8. CASE RootDirectory \/ Port \/ DirectoryIndex \/ Keys \/ Context \/ UsePrivateKey
              \/ UseCertificate \/ DHParams
  <2>1. CASE pc' = "next"
    <3>1. PICK n : n = i + 1
      OBVIOUS
    <3>2. /\ document' = document /\ serverConfigs' = serverConfigs /\ i' = i + 1
          /\ noContext' = noContext \/ noContext' = noContext \union {n}
          /\ ~Good(n)'
      BY <1>4, <1>8, <2>1, <3>1, TurnedDown, Zenon
    <3>3. i \in Nat /\ n \notin KeptIds
      <4>1. i \in Nat /\ \A k \in DOMAIN serverConfigs : serverConfigs[k].id \in 1..toml_key_in(i)
        BY Zenon DEF Here
      <4>2. toml_key_in(i) = i /\ n \notin 1..i
        BY <1>4, <3>1, <4>1 DEF toml_key_in
      <4> QED
        BY <4>1, <4>2, Zenon DEF KeptIds
    <3> QED
      BY <1>4, <3>1, <3>2, <3>3, ChosenOn, Zenon
  <2>2. CASE pc' # "next"
    BY <1>5, <1>8, <2>2, Zenon DEF RootDirectory, Port, DirectoryIndex, Keys, Context,
       UsePrivateKey,
       UseCertificate, DHParams, Reject, made
  <2> QED
    BY <2>1, <2>2, Zenon
<1>9. CASE Duplicate
  <2>1. pc' = "next"
    BY <1>2, <1>9, Zenon DEF Duplicate
  <2> QED
    BY <1>4, <1>9, <2>1, ChosenDuplicate, Zenon
<1>10. CASE ConfigFree
  BY <1>2, <1>10, Zenon DEF ConfigFree
<1>11. CASE UNCHANGED vars
  BY <1>5, <1>11, Zenon DEF vars, made
<1> QED
  BY <1>6, <1>7, <1>8, <1>9, <1>10, <1>11, Zenon DEF Next, Over

\* For any configuration of [server] and [servers] alone: the configurations are
\* those of the good tables that no earlier one with TLS sets aside, in the order of
\* the file, and a domain with TLS has its first good table (config.c, config_parse).
THEOREM GoodTablesKept == StartupAssumption /\ Spec => []ServersKept
<1>1. StartupAssumption /\ Here /\ Copied /\ Choice => ServersKept
  <2> SUFFICES ASSUME StartupAssumption, Here, Copied, Choice, pc = "running", document.others = 0
               PROVE  /\ KeptIds = {k \in DOMAIN Tables : Good(k) /\ ~SetAside(k)}
                      /\ \A j, k \in DOMAIN serverConfigs :
                            j < k => serverConfigs[j].id < serverConfigs[k].id
                      /\ \A k \in DOMAIN serverConfigs : serverConfigs[k].sslContext # NULL =>
                            First(ByHTTPSDomain(serverConfigs[k].domain)) = serverConfigs[k]
    BY Zenon DEF ServersKept, KeptIds
  <2>1. Chosen /\ i = Len(Tables) /\ serverConfigs \in Seq(Configs)
    BY Zenon DEF Choice, After, Here
  <2>2. DOMAIN Tables = 1..i
    BY <2>1, TablesSeq, Zenon DEF Here
  <2>3. KeptIds \subseteq DOMAIN Tables
    BY KeptTable, Zenon DEF KeptIds
  <2>4. KeptIds = {k \in DOMAIN Tables : Good(k) /\ ~SetAside(k)}
    BY <2>1, <2>2, <2>3, Zenon DEF Chosen
  <2>5. ASSUME NEW k \in DOMAIN serverConfigs, serverConfigs[k].sslContext # NULL
        PROVE  First(ByHTTPSDomain(serverConfigs[k].domain)) = serverConfigs[k]
    <3> DEFINE found == ByHTTPSDomain(serverConfigs[k].domain)
    <3>1. found = {k}
      BY <2>1, <2>5, Zenon DEF ByHTTPSDomain, Chosen, BothHaveSSL
    <3>2. k \in Nat
      BY <2>1
    <3>3. Min(found) = k
      BY <3>1, <3>2, MinOf, Zenon
    <3> QED
      BY <3>1, <3>3, Zenon DEF First
  <2> QED
    BY <2>4, <2>5, Zenon DEF Here
<1>2. CASE StartupAssumption
  <2>1. Init => Here /\ Copied /\ Choice
    BY <1>2, HereInit, CopiedInit, ChoiceInit, Zenon
  <2>2. Here /\ Copied /\ Choice /\ [Next]_vars => (Here /\ Copied /\ Choice)'
    BY <1>2, HereStep, CopiedStep, ChoiceStep, Zenon
  <2> QED
    BY <1>1, <1>2, <2>1, <2>2, PTL DEF Spec
<1> QED
  BY <1>2, Zenon

=============================================================================
