------------------------------- MODULE Startup -------------------------------
(***************************************************************************)
(* From the command line to the first server process: config_parse and     *)
(* config_parseServerTable of config.c on the tree that toml_parse built   *)
(* (module Toml), the first part of main, daemonize, and config_free at    *)
(* the end.  Memory can always be had.                                     *)
(***************************************************************************)
EXTENDS Integers, Sequences, FiniteSetsExt

CONSTANTS
    Documents,  \* configurations: the tables server and servers
    Arguments,  \* command lines: -d, -v, the file names of -l and -c, other words
    Files,      \* names that realpath, fopen and OpenSSL find a good file under
    SOMAXCONN,
    NULL

VARIABLES
    pc,             \* where main is
    arguments,
    document,
    i,              \* tables of [servers] done
    server,         \* the server_config_t that is being filled in
    serverConfigs,  \* config->serverConfigs
    settings,       \* the other members of config
    ports,          \* the set given to server_createInstance
    daemonized,
    live,           \* objects allocated and not freed
    misuse,         \* an object was freed that was not live
    noContext       \* history: tables for which OpenSSL gave no context

heap == <<live, misuse>>
made == <<serverConfigs, settings, ports, daemonized, noContext>>
vars == <<pc, arguments, document, i, server, heap, made>>

\* Objects: those of the k-th table of [servers]; main's are those of 0
Own(k, names) == {<<k, name>> : name \in names}

\* The string of an argument or a setting, if it is set
Given(name, value) == IF value = NULL THEN {} ELSE {name}
ArgumentStrings == Own(0, Given("-l", arguments.logfile) \union Given("-c", arguments.config))

Init ==
    /\ pc = "arguments"
    /\ arguments \in Arguments
    /\ document \in Documents
    /\ i = 0 /\ server = NULL /\ serverConfigs = <<>>
    /\ settings = [daemon |-> 0, logfile |-> NULL, loggingLevel |-> 0,
                   threads |-> 0, backlog |-> 0]
    /\ ports = {} /\ daemonized = FALSE /\ noContext = {}
    /\ live = {} /\ misuse = FALSE

Allocate(objects) == live' = live \union objects /\ UNCHANGED misuse

Free(objects) ==
    /\ live' = live \ objects
    /\ misuse' = (misuse \/ ~(objects \subseteq live))

-----------------------------------------------------------------------------
(* Reading a table.  A raw value is its type and what it stands for. *)

config_parseString(raw) == IF raw # NULL /\ raw[1] = "s" THEN raw[2] ELSE NULL
config_parseInt(raw) == IF raw # NULL /\ raw[1] = "i" THEN raw[2] ELSE 0
config_parseBool(raw) == IF raw # NULL /\ raw[1] = "b" THEN raw[2] ELSE -1

\* An array is the type of its values and their number; one of arrays or of
\* tables has none that toml_raw_at would return, and only integers, strings and
\* booleans are added to the list.
config_parseArray(array) ==
    IF array = NULL THEN NULL
    ELSE IF array.type \in {"array", "table"} /\ array.length > 0 THEN NULL
    ELSE IF array.type \in {"i", "s", "b"} THEN array
    ELSE [array EXCEPT !.length = 0]

\* What the proofs need to know: [servers] is a list of tables, and toml_rtoi
\* gives a number.
StartupAssumption ==
    /\ SOMAXCONN \in Nat
    /\ NULL \notin Files \union Int
    /\ \A d \in Documents :
          /\ d.others \in Nat
          /\ d.servers # NULL =>
                /\ d.servers \in Seq({d.servers[k] : k \in DOMAIN d.servers})
                /\ \A k \in DOMAIN d.servers : config_parseInt(d.servers[k].port) \in Int

\* Mutant: values are kept in 15 bits.
Int16_Short(n) == n % 2^15

\* A conversion to int16_t, and one from there to uint16_t
Int16(n) == ((n + 2^15) % 2^16) - 2^15

UInt16(n) == n % 2^16

-----------------------------------------------------------------------------
(* main, up to the configuration *)

ParseArguments ==
    /\ pc = "arguments"
    /\ IF arguments.unexpected THEN pc' = "failed" /\ UNCHANGED heap
       ELSE pc' = "load" /\ Allocate(ArgumentStrings)
    /\ UNCHANGED <<arguments, document, i, server, made>>

\* resources_loadFile and toml_parse each may fail for a file; without one the
\* built-in configuration is read, which is some document that parses.
LoadConfig ==
    /\ pc = "load"
    /\ \/ arguments.config # NULL /\ pc' = "failed" /\ Free(ArgumentStrings)
       \/ /\ pc' = "server"
          /\ Allocate(Own(0, {"toml", "config", "serverConfigs"}
                              \union Given("configFile", arguments.config)))
    /\ UNCHANGED <<arguments, document, i, server, made>>

-----------------------------------------------------------------------------
(* config_parse *)

\* [server]; without it everything stays 0
ServerTable ==
    /\ pc = "server"
    /\ LET table == document.server
       IN  IF table = NULL THEN UNCHANGED <<settings, heap>>
           ELSE /\ settings' =
                     [daemon |-> config_parseBool(table.daemon),
                      logfile |-> config_parseString(table.logfile),
                      loggingLevel |-> IF table.loggingLevel = NULL THEN 5
                                       ELSE config_parseInt(table.loggingLevel) % 2^8,
                      threads |-> IF config_parseInt(table.threads) <= 1 THEN 32
                                  ELSE config_parseInt(table.threads),
                      backlog |-> IF config_parseInt(table.backlog) \notin 2..SOMAXCONN
                                  THEN SOMAXCONN ELSE config_parseInt(table.backlog)]
                /\ Allocate(Own(0, Given("logfile", settings'.logfile)))
    /\ pc' = "next"
    /\ UNCHANGED <<arguments, document, i, server, serverConfigs, ports, daemonized, noContext>>

Tables == IF document.servers = NULL THEN <<>> ELSE document.servers

\* toml_key_in numbers the values and arrays of [servers] first, its tables
\* after them; as many keys are tried as there are tables.
toml_key_in(k) == k - document.others

NextTable ==
    /\ pc = "next"
    /\ \/ i = Len(Tables) /\ pc' = "parsed" /\ UNCHANGED i
       \/ i < Len(Tables) /\ toml_key_in(i) < 0 /\ i' = i + 1 /\ UNCHANGED pc
       \/ i < Len(Tables) /\ toml_key_in(i) >= 0 /\ pc' = "root" /\ UNCHANGED i
    /\ UNCHANGED <<arguments, document, server, heap, made>>

Table == Tables[toml_key_in(i) + 1]

-----------------------------------------------------------------------------
(* config_parseServerTable *)

Pointers == {"domain", "rootDirectory", "directoryIndex", "sslContext", "dhparams"}

\* What config_freeServerConfig frees: the members that are set
Members(config) ==
    Own(config.id, {"config", "name"} \union {p \in Pointers : config[p] # NULL})

\* The elements of directoryIndex are freed as strings.
FreesNoString(config) ==
    /\ config.directoryIndex # NULL
    /\ config.directoryIndex.type # "s" /\ config.directoryIndex.length > 0

FreeServerConfig(config, temporaries, leaked) ==
    /\ live' = (live \ (Members(config) \union Own(config.id, temporaries)))
                   \union Own(config.id, leaked)
    /\ misuse' = \/ misuse \/ FreesNoString(config)
                 \/ ~(Members(config) \union Own(config.id, temporaries) \subseteq live)

\* An early return
Reject(config, temporaries, leaked) ==
    /\ FreeServerConfig(config, temporaries, leaked)
    /\ server' = NULL
    /\ i' = i + 1
    /\ pc' = "next"

RootDirectory ==
    /\ pc = "root"
    /\ LET root == config_parseString(Table.rootDirectory)
           domain == config_parseString(Table.domain)
           config == [id |-> toml_key_in(i) + 1, domain |-> domain, rootDirectory |-> root,
                      port |-> 0, directoryIndex |-> NULL, sslContext |-> NULL,
                      dhparams |-> NULL]
       IN  IF root # NULL /\ root \notin Files
           THEN \* realpath fails: nothing that was allocated is left
                i' = i + 1 /\ pc' = "next" /\ UNCHANGED <<server, heap>>
           ELSE server' = config /\ Allocate(Members(config)) /\ pc' = "port" /\ UNCHANGED i
    /\ UNCHANGED <<arguments, document, made>>

Port ==
    /\ pc = "port"
    /\ LET port == config_parseInt(Table.port)
       IN  IF Table.port # NULL /\ (port < 0 \/ port > 2^16) THEN Reject(server, {}, {})
           ELSE /\ server' = [server EXCEPT !.port = Int16(port)]
                /\ pc' = "index" /\ UNCHANGED <<i, heap>>
    /\ UNCHANGED <<arguments, document, made>>

DirectoryIndex ==
    /\ pc = "index"
    /\ server' = [server EXCEPT !.directoryIndex = config_parseArray(Table.directoryIndex)]
    /\ Allocate(Members(server'))
    /\ pc' = "tls"
    /\ UNCHANGED <<arguments, document, i, made>>

\* Both of privateKey and certificate, or none
Keys ==
    /\ pc = "tls"
    /\ LET privateKey == config_parseString(Table.privateKey)
           certificate == config_parseString(Table.certificate)
       IN  \/ /\ privateKey = NULL /\ certificate = NULL
              /\ pc' = "duplicate" /\ UNCHANGED <<i, server, heap>>
           \/ /\ (privateKey = NULL) # (certificate = NULL)
              /\ Reject(server, {}, {})
           \/ /\ privateKey # NULL /\ certificate # NULL
              /\ Allocate(Own(server.id, {"privateKey", "certificate"}))
              /\ pc' = "context" /\ UNCHANGED <<i, server>>
    /\ UNCHANGED <<arguments, document, made>>

Context ==
    /\ pc = "context"
    /\ \/ /\ server' = [server EXCEPT !.sslContext = server.id]
          /\ Allocate(Members(server'))
          /\ pc' = "privateKey" /\ UNCHANGED <<i, noContext>>
       \/ /\ Reject(server, {"privateKey", "certificate"}, {})
          /\ noContext' = noContext \union {server.id}
    /\ UNCHANGED <<arguments, document, serverConfigs, settings, ports, daemonized>>

\* Mutant: the name of a private key that cannot be read is left behind.
UsePrivateKey_Leak ==
    /\ pc = "privateKey"
    /\ IF config_parseString(Table.privateKey) \notin Files
       THEN Reject(server, {"certificate"}, {})
       ELSE Free(Own(server.id, {"privateKey"})) /\ pc' = "certificate" /\ UNCHANGED <<i, server>>
    /\ UNCHANGED <<arguments, document, made>>

UsePrivateKey ==
    /\ pc = "privateKey"
    /\ IF config_parseString(Table.privateKey) \notin Files
       THEN Reject(server, {"privateKey", "certificate"}, {})
       ELSE Free(Own(server.id, {"privateKey"})) /\ pc' = "certificate" /\ UNCHANGED <<i, server>>
    /\ UNCHANGED <<arguments, document, made>>

UseCertificate ==
    /\ pc = "certificate"
    /\ IF config_parseString(Table.certificate) \notin Files
       THEN Reject(server, {"certificate"}, {})
       ELSE Free(Own(server.id, {"certificate"})) /\ pc' = "dhparams" /\ UNCHANGED <<i, server>>
    /\ UNCHANGED <<arguments, document, made>>

\* Curves, ciphers and validation are handed to OpenSSL and freed at once.  A
\* file may hold no parameters; the name of one that cannot be opened is not
\* freed.
DHParams ==
    /\ pc = "dhparams"
    /\ LET file == config_parseString(Table.dhparams)
       IN  IF file # NULL /\ file \notin Files
           THEN Reject(server, {}, {"dhparams name"})
           ELSE /\ server' \in {[server EXCEPT !.dhparams = d] : d \in {file, NULL}}
                /\ Allocate(Members(server'))
                /\ pc' = "duplicate" /\ UNCHANGED i
    /\ UNCHANGED <<arguments, document, made>>

-----------------------------------------------------------------------------
(* config_parse goes on *)

BothHaveSSL(c, d) == c.sslContext # NULL /\ d.sslContext # NULL

\* Mutant: only the configuration before it is looked at.
Clashes_LastOnly(config) ==
    {k \in DOMAIN serverConfigs : /\ k = Len(serverConfigs)
                                  /\ serverConfigs[k].domain = config.domain
                                  /\ BothHaveSSL(serverConfigs[k], config)}

Clashes(config) ==
    {k \in DOMAIN serverConfigs : /\ serverConfigs[k].domain = config.domain
                                  /\ BothHaveSSL(serverConfigs[k], config)}

\* string_equals does not bear a domain that is not set.
Unset(config) ==
    {k \in DOMAIN serverConfigs : NULL \in {serverConfigs[k].domain, config.domain}}

Duplicate ==
    /\ pc = "duplicate"
    /\ LET stops == Clashes(server) \union Unset(server)
       IN  \/ /\ stops = {}
              /\ serverConfigs' = Append(serverConfigs, server)
              /\ pc' = "next" /\ UNCHANGED heap
           \/ /\ stops # {} /\ Min(stops) \notin Unset(server)
              /\ FreeServerConfig(server, {}, {})
              /\ pc' = "next" /\ UNCHANGED serverConfigs
           \/ /\ stops # {} /\ Min(stops) \in Unset(server)
              /\ pc' = "crashed" /\ UNCHANGED <<serverConfigs, heap>>
    /\ server' = NULL
    /\ i' = i + 1
    /\ UNCHANGED <<arguments, document, settings, ports, daemonized, noContext>>

\* config_parse frees the tree; main frees the text and the name of the file.
Parsed ==
    /\ pc = "parsed"
    /\ Free(Own(0, {"toml"} \union Given("configFile", arguments.config)
                         \union Given("-c", arguments.config)))
    /\ pc' = "override"
    /\ UNCHANGED <<arguments, document, i, server, made>>

-----------------------------------------------------------------------------
(* main, behind the configuration *)

\* Arguments replace what the file says.
Override ==
    /\ pc = "override"
    /\ settings' = [settings EXCEPT
          !.daemon = IF arguments.daemon THEN 1 ELSE @,
          !.loggingLevel = IF arguments.verbose THEN 7 ELSE @,
          !.logfile = IF arguments.logfile # NULL THEN arguments.logfile ELSE @]
    /\ IF arguments.logfile # NULL THEN Free(Own(0, Given("logfile", settings.logfile)))
       ELSE UNCHANGED heap
    /\ pc' = "daemon"
    /\ UNCHANGED <<arguments, document, i, server, serverConfigs, ports, daemonized, noContext>>

\* daemonize: fork, setsid and chdir may fail.  Any value but 0 asks for it.
Daemonize ==
    /\ pc = "daemon"
    /\ \/ settings.daemon = 0 /\ pc' = "ports" /\ UNCHANGED daemonized
       \/ settings.daemon # 0 /\ pc' = "ports" /\ daemonized' = TRUE
       \/ settings.daemon # 0 /\ pc' = "exited" /\ UNCHANGED daemonized
    /\ UNCHANGED <<arguments, document, i, server, serverConfigs, settings, ports, noContext, heap>>

\* The set of ports, and then the server process: see Supervisor and Server
Ports ==
    /\ pc = "ports"
    /\ ports' = {serverConfigs[k].port : k \in DOMAIN serverConfigs}
    /\ pc' = "running"
    /\ UNCHANGED <<arguments, document, i, server, serverConfigs, settings, daemonized,
                   noContext, heap>>

\* What belongs to the servers that were kept
Kept == UNION {Members(serverConfigs[k]) : k \in DOMAIN serverConfigs}

\* config_free; the log file's name is that of the arguments or of the file
ConfigFree ==
    /\ pc = "running"
    /\ LET objects == Own(0, {"config", "serverConfigs"})
                      \union (live \intersect Own(0, {"logfile", "-l"})) \union Kept
       IN  /\ live' = live \ objects
           /\ misuse' = \/ misuse \/ ~(objects \subseteq live)
                        \/ \E k \in DOMAIN serverConfigs : FreesNoString(serverConfigs[k])
    /\ serverConfigs' = <<>>
    /\ pc' = "stopped"
    /\ UNCHANGED <<arguments, document, i, server, settings, ports, daemonized, noContext>>

Over == pc \in {"failed", "exited", "crashed", "stopped"} /\ UNCHANGED vars

Next ==
    \/ ParseArguments \/ LoadConfig \/ ServerTable \/ NextTable \/ RootDirectory \/ Port
    \/ DirectoryIndex \/ Keys \/ Context \/ UsePrivateKey \/ UseCertificate \/ DHParams
    \/ Duplicate \/ Parsed \/ Override \/ Daemonize \/ Ports \/ ConfigFree \/ Over

Spec == Init /\ [][Next]_vars

-----------------------------------------------------------------------------
(* Looking up a server while the server runs *)

ByDomain(domain, port) ==
    {k \in DOMAIN serverConfigs : /\ UInt16(serverConfigs[k].port) = port
                                  /\ serverConfigs[k].domain = domain}

ByHTTPSDomain(domain) ==
    {k \in DOMAIN serverConfigs : /\ serverConfigs[k].domain = domain
                                  /\ serverConfigs[k].sslContext # NULL}

\* config_getServerConfigByDomain, config_getServerConfigByHTTPSDomain: the first
First(indices) == IF indices = {} THEN NULL ELSE serverConfigs[Min(indices)]

-----------------------------------------------------------------------------
(* Properties *)

\* What README.md asks of a server's table, line 142 and following: files that
\* can be read, a port in range, both or none of the files for TLS.
HasTLS(table) == config_parseString(table.certificate) # NULL

Good(k) ==
    LET table == document.servers[k]
        Usable(raw) == config_parseString(raw) \in Files \union {NULL}
    IN  /\ Usable(table.rootDirectory)
        /\ config_parseInt(table.port) \in 0..2^16
        /\ HasTLS(table) = (config_parseString(table.privateKey) # NULL)
        /\ HasTLS(table) => /\ Usable(table.privateKey) /\ Usable(table.certificate)
                            /\ Usable(table.dhparams)
        /\ k \notin noContext

\* A table is set aside for an earlier one that has its domain, both with TLS.
SetAside(k) ==
    /\ HasTLS(document.servers[k])
    /\ \E j \in 1..(k - 1) :
          /\ Good(j) /\ HasTLS(document.servers[j])
          /\ config_parseString(document.servers[j].domain)
                = config_parseString(document.servers[k].domain)

\* When the server starts, config_parse has kept every good table of [servers]
\* in the order of the document, except those that are set aside, and
\* config_getServerConfigByHTTPSDomain finds each of those with TLS: a bad
\* table costs no other one its place.  (A value or an array in [servers] does.)
ServersKept ==
    pc = "running" /\ document.others = 0 =>
       /\ {serverConfigs[k].id : k \in DOMAIN serverConfigs} =
              {k \in DOMAIN Tables : Good(k) /\ ~SetAside(k)}
       /\ \A j, k \in DOMAIN serverConfigs : j < k => serverConfigs[j].id < serverConfigs[k].id
       /\ \A k \in DOMAIN serverConfigs : serverConfigs[k].sslContext # NULL =>
              First(ByHTTPSDomain(serverConfigs[k].domain)) = serverConfigs[k]

\* The port of every server kept is bound, and a request for its domain on that
\* port finds a server of this domain and port, although the port is stored in
\* an int16_t, handed on as a pointer and compared as a uint16_t.  (65536,
\* which config_parseServerTable lets pass, is port 0.)
PortsServed ==
    pc = "running" =>
       \A k \in DOMAIN serverConfigs :
          LET table == document.servers[serverConfigs[k].id]
              port == config_parseInt(table.port)
          IN  port < 2^16 /\ serverConfigs[k].domain # NULL =>
                 /\ port \in {UInt16(p) : p \in ports}
                 /\ LET found == ByDomain(serverConfigs[k].domain, port)
                    IN  /\ found # {}
                        /\ config_parseInt(document.servers[First(found).id].port) % 2^16
                              = port

\* README.md, line 145: directoryIndex is an "Array of strings".
StringIndices ==
    \A k \in DOMAIN Tables : LET index == config_parseArray(Tables[k].directoryIndex)
                             IN  index = NULL \/ index.type = "s" \/ index.length = 0

\* On no path through config_parse, its early returns included, is anything
\* freed that is not allocated, provided that directory indices are strings, and
\* config_free leaves nothing behind but the name of a dhparams file that could
\* not be opened.
ConfigFreed ==
    /\ StringIndices => ~misuse
    /\ pc \in {"failed", "stopped"} =>
          \A object \in live : object[2] = "dhparams name"

\* README.md, line 130: daemon "Defaults to `false`": the process goes to the
\* background only if an argument or the file says so.
DaemonOnRequest ==
    daemonized => \/ arguments.daemon
                  \/ document.server # NULL /\ document.server.daemon = <<"b", 1>>

=============================================================================
