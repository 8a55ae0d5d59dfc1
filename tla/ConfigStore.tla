----------------------------- MODULE ConfigStore -----------------------------
(***************************************************************************)
(* The configuration and the SSH identity of the example firmware on       *)
(* flash: wifi_provisioning.cpp (portal pages, writeConfig, saveKeys,      *)
(* loadConfig, the requests of the BOOT button), ssh_key_provisioning.cpp  *)
(* (ensure) and the start-up and managed update of main.cpp.               *)
(*                                                                         *)
(* A handler is the sequence of the file operations it makes.  One step of *)
(* the model executes the next one, lets it fail, or cuts the power before *)
(* it.  LittleFS makes each single operation atomic (external); nothing    *)
(* makes a sequence of them atomic.                                        *)
(***************************************************************************)
EXTENDS Naturals, Sequences, FiniteSets

CONSTANTS
    Wifis,         \* WiFi settings, MAC profile included
    Devices,       \* SSH server, user, ports and targets of the tunnel
    Absent,        \* no file, no setting, no key
    MaxKeys,       \* bound: key pairs made or submitted
    MaxEdits,      \* bound: saves and requests
    MaxFaults,     \* bound: file operations that fail
    MaxPowerLoss   \* bound: power failures

ASSUME StoreAssumption ==
    /\ MaxKeys \in Nat \ {0} /\ MaxEdits \in Nat
    /\ MaxFaults \in Nat /\ MaxPowerLoss \in Nat
    /\ Absent \notin Wifis \cup Devices

VARIABLES
    files,         \* LittleFS: content of each file
    now,           \* deviceConfig in RAM
    phase,         \* where the main task stands
    handler,       \* the handler it runs, and the configuration that one saves
    todo,          \* file operations the handler has left to do
    failed,        \* an operation whose failure matters to the handler failed
    edit,          \* configEditRequested
    wifiReset,     \* wifiResetRequested
    identityTried, \* automaticIdentityAttempted
    tunnel,        \* key pair handed to globalSSHConfig
    keys,          \* key pairs made so far
    edits, faults, powerLosses,
    committed,     \* history: configuration files a boot may rightly find
    cfgRisk,       \* history: a short write was taken for a whole one, or a
                   \* backup that holds the only copy was not restored
    identity,      \* history: key pairs a saved set-up may use; {}: any
    keyRisk,       \* history: an exchange of the key files was cut, or a
                   \* factory reset could not remove every file
    forgotten      \* history: key pairs that a factory reset wiped

ram == <<now, edit, wifiReset, identityTried, tunnel>>
control == <<phase, handler, todo, failed>>
bounds == <<keys, edits, faults, powerLosses>>
history == <<committed, cfgRisk, identity, keyRisk, forgotten>>
vars == <<files, ram, control, bounds, history>>

\* /esp32tun.cfg with its temporary and its backup, the two key files with
\* their temporaries, and the markers of the two requests.
Names == {"cfg", "cfgTmp", "cfgBak", "key", "keyTmp", "pub", "pubTmp",
          "edit", "wifiReset"}
Pairs == 1..MaxKeys
\* A private key: its pair, and whether it is an EC key as ensure() makes them.
PrivateKeys == [pair : Pairs, ec : BOOLEAN]

\* What the configuration file says: an incomplete set-up stores the WiFi part
\* only, and a truncated file may not even hold that.
CfgFiles ==
    [done : {TRUE}, wifi : Wifis, dev : Devices, auth : {"password", "key"}]
    \cup [done : {FALSE}, wifi : Wifis \cup {Absent}, dev : {Absent},
          auth : {"password"}]

\* Nothing that a file or a setting holds stands for its absence.
ASSUME AbsentAssumption ==
    Absent \notin CfgFiles \cup PrivateKeys \cup Pairs \cup {"1"}

Configs == [done : BOOLEAN, wifi : Wifis \cup {Absent},
            dev : Devices \cup {Absent}, auth : {"password", "key"},
            key : PrivateKeys \cup {Absent}, pub : Pairs \cup {Absent}]

\* DeviceRuntimeConfig as it is constructed.
Defaults == [done |-> FALSE, wifi |-> Absent, dev |-> Absent,
             auth |-> "password", key |-> Absent, pub |-> Absent]

Idle == [name |-> "none", cfg |-> Defaults]

\* The configuration file that a boot would read.
BootContent == IF files["cfg"] # Absent THEN files["cfg"] ELSE files["cfgBak"]

TypeOK ==
    /\ DOMAIN files = Names
    /\ \A f \in {"cfg", "cfgTmp", "cfgBak"} : files[f] \in CfgFiles \cup {Absent}
    /\ \A f \in {"key", "keyTmp"} : files[f] \in PrivateKeys \cup {Absent}
    /\ \A f \in {"pub", "pubTmp"} : files[f] \in Pairs \cup {Absent}
    /\ \A f \in {"edit", "wifiReset"} : files[f] \in {"1", Absent}
    /\ now \in Configs
    /\ phase \in {"off", "load", "connect", "setup", "wifiPortal",
                  "wifiJoined", "transition", "devicePortal", "paused",
                  "halted", "running"}
    /\ handler \in [name : {"none", "boot", "wifi", "wifiRestart", "device",
                            "managed", "identity", "request", "factory"},
                    cfg : Configs]
    /\ \A i \in DOMAIN todo : todo[i].file \in Names
    /\ {failed, edit, wifiReset, identityTried, cfgRisk, keyRisk}
         \subseteq BOOLEAN
    /\ tunnel \in [key : PrivateKeys, pub : Pairs \cup {Absent}] \cup {Absent}
    /\ keys \in 0..MaxKeys /\ edits \in 0..MaxEdits
    /\ faults \in 0..MaxFaults /\ powerLosses \in 0..MaxPowerLoss
    /\ committed \subseteq CfgFiles \cup {Absent}
    /\ identity \subseteq Pairs /\ forgotten \subseteq Pairs

-----------------------------------------------------------------------------
\* File operations.  undo is what the code does when the operation fails; a
\* failed removal is not noticed, a failed restore neither.

Rm(f) == [op |-> "rm", file |-> f]
Put(f, content, undo) ==
    [op |-> "put", file |-> f, content |-> content, undo |-> undo]
Mv(f, to, undo) == [op |-> "mv", file |-> f, to |-> to, undo |-> undo]
Restore(f, to) == [op |-> "restore", file |-> f, to |-> to]

\* removeIfExists, open-print-close, and rename, which replaces its target.
Done(fs, o) ==
    CASE o.op = "rm" -> [fs EXCEPT ![o.file] = Absent]
      [] o.op = "put" -> [fs EXCEPT ![o.file] = o.content]
      [] OTHER -> [fs EXCEPT ![o.to] = fs[o.file], ![o.file] = Absent]

When(condition, ops) == IF condition THEN ops ELSE <<>>

\* Faulty variant: every file claims a complete set-up.
StoredAlways(c) == [done |-> TRUE, wifi |-> c.wifi, dev |-> c.dev, auth |-> c.auth]

\* The text that writeConfig prints.
Stored(c) ==
    IF c.done
    THEN [done |-> TRUE, wifi |-> c.wifi, dev |-> c.dev, auth |-> c.auth]
    ELSE [done |-> FALSE, wifi |-> c.wifi, dev |-> Absent, auth |-> "password"]

\* What a file system that runs full makes of it.
ShortWrites(content) ==
    {[done |-> FALSE, wifi |-> w, dev |-> Absent, auth |-> "password"] :
        w \in {content.wifi, Absent}}

\* Faulty variant: the old file is removed instead of renamed.
WriteConfigInPlace(c) ==
    <<Put("cfgTmp", Stored(c), <<>>), Rm("cfgBak"), Rm("cfg"),
      Mv("cfgTmp", "cfg", <<Rm("cfgTmp")>>)>>

\* writeConfig: the old file stays as the backup until the new one has its name.
WriteConfig(c) ==
    IF files["cfg"] # Absent
    THEN <<Put("cfgTmp", Stored(c), <<>>), Rm("cfgBak"),
           Mv("cfg", "cfgBak", <<Rm("cfgTmp")>>),
           Mv("cfgTmp", "cfg", <<Restore("cfgBak", "cfg"), Rm("cfgTmp")>>),
           Rm("cfgBak")>>
    ELSE <<Put("cfgTmp", Stored(c), <<>>), Rm("cfgBak"),
           Mv("cfgTmp", "cfg", <<Rm("cfgTmp")>>), Rm("cfgBak")>>

\* Faulty variant: an old public key is only replaced, never removed.
SaveKeysKeepingPublic(c) ==
    <<Rm("keyTmp"), Rm("pubTmp"), Put("keyTmp", c.key, <<>>)>>
    \o When(c.pub # Absent, <<Put("pubTmp", c.pub, <<Rm("keyTmp")>>)>>)
    \o <<Rm("key"), Mv("keyTmp", "key", <<Rm("pubTmp")>>)>>
    \o When(c.pub # Absent, <<Mv("pubTmp", "pub", <<>>)>>)

\* saveKeys: the private key is exchanged first, then the public one.
SaveKeys(c) ==
    <<Rm("keyTmp"), Rm("pubTmp"), Put("keyTmp", c.key, <<>>)>>
    \o When(c.pub # Absent, <<Put("pubTmp", c.pub, <<Rm("keyTmp")>>)>>)
    \o <<Rm("key"), Mv("keyTmp", "key", <<Rm("pubTmp")>>), Rm("pub")>>
    \o When(c.pub # Absent, <<Mv("pubTmp", "pub", <<>>)>>)

\* persistKeyPair of ensure(): both old files go before either new one comes.
PersistKeyPair(c) ==
    LET temporaries == <<Rm("keyTmp"), Rm("pubTmp")>>
    IN  temporaries
        \o <<Put("keyTmp", c.key, temporaries), Put("pubTmp", c.pub, temporaries)>>
        \o <<Rm("key"), Rm("pub"), Mv("keyTmp", "key", temporaries),
             Mv("pubTmp", "pub", <<Rm("key"), Rm("pubTmp")>>)>>

\* Faulty variant: the temporaries of the key files are forgotten.
WipeWithoutTemporaries ==
    <<Rm("cfg"), Rm("cfgTmp"), Rm("cfgBak"), Rm("key"), Rm("pub"),
      Rm("edit"), Rm("wifiReset")>>

\* The removals of a factory reset, in the order of the code, but for the files
\* of the heartbeat task and the notice marker, which no module here reads.
Wipe ==
    <<Rm("cfg"), Rm("cfgTmp"), Rm("cfgBak"), Rm("key"), Rm("keyTmp"),
      Rm("pub"), Rm("pubTmp"), Rm("edit"), Rm("wifiReset")>>

-----------------------------------------------------------------------------
\* The main task begins a handler: c is the configuration it saves.
Begin(name, c, ops) ==
    /\ handler' = [name |-> name, cfg |-> c]
    /\ todo' = ops
    /\ failed' = FALSE

\* The RAM and the control state that power-up and ESP.restart() leave.
Reset ==
    /\ now' = Defaults /\ edit' = FALSE /\ wifiReset' = FALSE
    /\ identityTried' = FALSE /\ tunnel' = Absent
    /\ phase' = "off" /\ handler' = Idle /\ todo' = <<>> /\ failed' = FALSE

Init ==
    /\ now = Defaults /\ edit = FALSE /\ wifiReset = FALSE
    /\ identityTried = FALSE /\ tunnel = Absent
    /\ phase = "off" /\ handler = Idle /\ todo = <<>> /\ failed = FALSE
    /\ edits = 0 /\ faults = 0 /\ powerLosses = 0
    /\ cfgRisk = FALSE /\ keyRisk = FALSE /\ forgotten = {}
    /\ LET blank == [f \in Names |-> Absent]
       IN \/ files = blank /\ keys = 0 /\ identity = {}
          \/ \E w \in Wifis, d \in Devices :
               /\ files = [blank EXCEPT !["cfg"] =
                    [done |-> TRUE, wifi |-> w, dev |-> d, auth |-> "password"]]
               /\ keys = 0 /\ identity = {}
          \/ \E w \in Wifis, d \in Devices, ec \in BOOLEAN, pub \in {1, Absent} :
               /\ files = [blank EXCEPT
                    !["cfg"] = [done |-> TRUE, wifi |-> w, dev |-> d,
                                auth |-> "key"],
                    !["key"] = [pair |-> 1, ec |-> ec], !["pub"] = pub]
               /\ keys = 1 /\ identity = {1}
    /\ committed = {files["cfg"]}

\* begin(): the markers are read, and loadConfig repairs an interrupted write.
Boot ==
    /\ phase = "off"
    /\ phase' = "load"
    /\ edit' = (files["edit"] # Absent)
    /\ wifiReset' = (files["wifiReset"] # Absent)
    /\ Begin("boot", now,
             IF files["cfg"] = Absent
             THEN When(files["cfgBak"] # Absent, <<Restore("cfgBak", "cfg")>>)
             ELSE When(files["cfgBak"] # Absent, <<Rm("cfgBak")>>))
    /\ UNCHANGED <<files, now, identityTried, tunnel, bounds, history>>

\* mountStorage formats a file system that it cannot mount.
FormatStorage ==
    /\ phase = "off" /\ faults < MaxFaults
    /\ files' = [f \in Names |-> Absent]
    /\ faults' = faults + 1
    /\ committed' = {Absent} /\ identity' = {}
    /\ UNCHANGED <<ram, control, keys, edits, powerLosses, cfgRisk, keyRisk,
                   forgotten>>

\* loadKeys: the public key may be missing.
LoadKeys == files["key"] # Absent

\* loadConfig's result: loaded or not, and the configuration in RAM.
Loaded == files["cfg"] # Absent /\ files["cfg"].wifi # Absent
LoadedConfig ==
    LET f == files["cfg"]
    IN  CASE ~Loaded -> Defaults
          [] Loaded /\ ~f.done -> [Defaults EXCEPT !.wifi = f.wifi]
          [] OTHER ->
               LET byKey == f.auth = "key"
               IN  [done |-> ~byKey \/ LoadKeys, wifi |-> f.wifi, dev |-> f.dev,
                    auth |-> f.auth,
                    key |-> IF byKey THEN files["key"] ELSE Absent,
                    pub |-> IF byKey /\ LoadKeys THEN files["pub"] ELSE Absent]

\* The rest of begin(): the WiFi portal, or the connection.  It is "halted"
\* when the MAC profile or the access point cannot be set up.
Load ==
    /\ handler.name = "boot" /\ todo = <<>>
    /\ handler' = Idle
    /\ now' = LoadedConfig
    /\ phase' \in {IF wifiReset \/ ~Loaded THEN "wifiPortal" ELSE "connect",
                   "halted"}
    /\ committed' = {BootContent}
    /\ UNCHANGED <<files, todo, failed, edit, wifiReset, identityTried, tunnel,
                   bounds, cfgRisk, identity, keyRisk, forgotten>>

AtRest(phases) == handler = Idle /\ phase \in phases

\* connectWiFi: thirty attempts, then the start-up is given up.
ConnectWiFi ==
    /\ AtRest({"connect"})
    /\ phase' \in {"setup", "paused"}
    /\ UNCHANGED <<files, ram, handler, todo, failed, bounds, history>>

\* loadExisting of ensure(): an EC private key and its public key.
LoadExisting ==
    files["key"] # Absent /\ files["key"].ec /\ files["pub"] # Absent

WithKeys(c, key, pub) ==
    [c EXCEPT !.auth = "key", !.key = key, !.pub = pub]

\* Faulty variant: a complete device gets an identity as well.
NeedsIdentityAlways == ~identityTried
NeedsIdentity == ~now.done /\ ~identityTried

\* generateKeyPair: a pair like no other, of an EC key.
Generated(c, pair) == WithKeys(c, [pair |-> pair, ec |-> TRUE], pair)

\* ensureMinisControlPlane with WiFi up, in setup() or in loop(): the identity
\* of a device that is not set up, tried once per boot.
EnsureIdentity ==
    /\ AtRest({"setup", "wifiJoined", "transition", "devicePortal", "paused"})
    /\ NeedsIdentity
    /\ identityTried' = TRUE
    /\ \/ /\ LoadExisting
          /\ now' = WithKeys(now, files["key"], files["pub"])
          /\ UNCHANGED <<handler, todo, failed, keys>>
       \/ /\ ~LoadExisting /\ keys < MaxKeys
          /\ keys' = keys + 1
          /\ Begin("identity", Generated(now, keys'),
                   PersistKeyPair(Generated(now, keys')))
          /\ UNCHANGED now
       \/ /\ ~LoadExisting  \* the generation fails
          /\ UNCHANGED <<now, handler, todo, failed, keys>>
    /\ UNCHANGED <<files, phase, edit, wifiReset, tunnel, edits, faults,
                   powerLosses, history>>

\* setSSHKeyAuthFromMemory or setSSHServer: what the session logs in with.
HandedOver(c) ==
    IF c.auth = "key" THEN [key |-> c.key, pub |-> c.pub] ELSE Absent

\* setup() of a complete device: configureSSHTunnel hands the keys over.
StartTunnel ==
    /\ AtRest({"setup"})
    /\ now.done /\ ~edit
    /\ tunnel' = HandedOver(now)
    /\ now' = [now EXCEPT !.key = Absent, !.pub = Absent]
    /\ phase' = "running"
    /\ UNCHANGED <<files, handler, todo, failed, edit, wifiReset, identityTried,
                   bounds, history>>

\* setup() otherwise, and loop() some time after the WiFi settings were saved.
OpenDevicePortal ==
    /\ \/ AtRest({"setup"}) /\ (~now.done \/ edit)
       \/ AtRest({"transition"})
    /\ phase' \in {"devicePortal", "paused"}
    /\ UNCHANGED <<files, ram, handler, todo, failed, bounds, history>>

-----------------------------------------------------------------------------
\* A handler that a request starts, within the bound.
Serve(name, c, ops) ==
    /\ edits < MaxEdits
    /\ edits' = edits + 1
    /\ Begin(name, c, ops)
    /\ UNCHANGED <<files, edit, wifiReset, identityTried, tunnel, faults,
                   powerLosses, cfgRisk, keyRisk, forgotten>>

\* A save makes c a configuration that the next boot may find.
Save(name, c, ops) ==
    /\ Serve(name, c, ops)
    /\ committed' = committed \cup {Stored(c)}

\* Faulty variant: every WiFi set-up starts the device set-up again.
NeverPreserve == FALSE
\* handleWifiSave keeps the tunnel part on a WiFi reset of a complete device.
PreserveDeviceConfig == wifiReset /\ now.done

\* handleWifiSave once the station joined the network.
WifiSave(w, vendorChanged) ==
    /\ AtRest({"wifiPortal", "wifiJoined", "transition"})
    /\ now' = [now EXCEPT !.wifi = w, !.done = PreserveDeviceConfig]
    /\ phase' = IF phase = "transition" THEN phase ELSE "wifiJoined"
    /\ Save(IF PreserveDeviceConfig \/ vendorChanged THEN "wifiRestart" ELSE "wifi",
            now', WriteConfig(now') \o When(wifiReset, <<Rm("wifiReset")>>))
    /\ UNCHANGED <<keys, identity>>

\* What the page of /save-device may submit: a password, a new private key with
\* or without its public key, or nothing new for a stored key.  The operator
\* gives the public key of the same pair: validPublicKey checks only its form.
Submissions ==
    {[now EXCEPT !.auth = "password", !.key = Absent, !.pub = Absent]}
    \cup {WithKeys(now, [pair |-> k, ec |-> ec], pub) :
            k \in {keys + 1} \cap Pairs, ec \in BOOLEAN,
            pub \in {keys + 1, Absent}}
    \cup IF now.auth = "key" /\ now.key # Absent
         THEN {WithKeys(now, now.key, pub) : pub \in {now.pub, now.key.pair}}
         ELSE {}

\* The POST handler of /save-device: the key files first, then the file.
DeviceSave(d, submitted) ==
    LET c == [submitted EXCEPT !.done = TRUE, !.dev = d]
        byKey == c.auth = "key"
        new == byKey /\ c.key # now.key
    IN  /\ AtRest({"devicePortal"})
        /\ Save("device", c,
                (IF byKey THEN SaveKeys(c) ELSE <<Rm("key"), Rm("pub")>>)
                \o WriteConfig(c) \o <<Rm("edit")>>)
        /\ keys' = IF new THEN keys + 1 ELSE keys
        /\ identity' = IF byKey /\ identity # {}
                       THEN identity \cup {c.key.pair} ELSE {}
        /\ UNCHANGED <<now, phase>>

\* applyPendingMinisConfig: a changed cfg.txt of the control centre.  A portal
\* that an edit request opened does not look for one.
ManagedSave(d) ==
    LET c == [now EXCEPT !.done = TRUE, !.dev = d]
    IN  /\ \/ AtRest({"running", "paused"})
           \/ AtRest({"wifiJoined", "transition", "devicePortal"}) /\ ~edit
        /\ ~(now.done /\ now.dev = d)
        /\ now.auth = "key"
        /\ Save("managed", c, WriteConfig(c))
        /\ UNCHANGED <<now, phase, keys, identity>>

\* pollConfigResetButton, called from loop() and from connectWiFi.
RequestEdit ==
    /\ AtRest({"connect", "wifiPortal", "wifiJoined", "transition",
               "devicePortal", "paused", "halted", "running"})
    /\ Serve("request", now, <<Put("edit", "1", <<>>)>>)
    /\ UNCHANGED <<now, phase, keys, committed, identity>>

RequestWifiReset ==
    /\ AtRest({"connect", "wifiPortal", "wifiJoined", "transition",
               "devicePortal", "paused", "halted", "running"})
    /\ Serve("request", now, <<Put("wifiReset", "1", <<>>), Rm("edit")>>)
    /\ UNCHANGED <<now, phase, keys, committed, identity>>

FactoryReset ==
    /\ AtRest({"connect", "wifiPortal", "wifiJoined", "transition",
               "devicePortal", "paused", "halted", "running"})
    /\ Serve("factory", now, Wipe)
    /\ committed' = committed \cup {Absent, files["cfgBak"]}
    /\ identity' = {}
    /\ UNCHANGED <<now, phase, keys>>

-----------------------------------------------------------------------------
\* The key files do not hold what the handler found, nor yet what it leaves.  A
\* switch to a password lasts until the configuration says so.
KeysInFlux ==
    LET left == {todo[i] : i \in DOMAIN todo}
        targets == {o.file : o \in {l \in left : l.op = "rm"}}
                   \cup {o.to : o \in {l \in left : l.op = "mv"}}
    IN  /\ handler.name \in {"device", "identity"}
        /\ Rm("key") \notin left
        /\ \/ targets \cap {"key", "pub"} # {}
           \/ handler.cfg.auth = "password" /\ "cfg" \in targets

\* The next file operation succeeds.
FileOp ==
    /\ todo # <<>>
    /\ files' = Done(files, Head(todo))
    /\ todo' = Tail(todo)
    /\ UNCHANGED <<ram, phase, handler, failed, bounds, history>>

\* It fails: a removal or a restore goes unnoticed, anything else ends the
\* handler after the code has tidied up.
FileOpFails ==
    LET o == Head(todo)
        noticed == o.op \in {"put", "mv"}
    IN  /\ todo # <<>> /\ faults < MaxFaults
        /\ faults' = faults + 1
        /\ todo' = IF noticed THEN o.undo ELSE Tail(todo)
        /\ failed' = (failed \/ noticed \/ handler.name = "factory")
        /\ cfgRisk' = (cfgRisk \/ o.op = "restore")
        /\ keyRisk' = (keyRisk \/ KeysInFlux \/ handler.name = "factory")
        /\ identity' = IF KeysInFlux \/ o.op = "restore" THEN {} ELSE identity
        /\ UNCHANGED <<files, ram, phase, handler, keys, edits, powerLosses,
                       committed, forgotten>>

\* writeConfig does not count the bytes it printed.
ShortWrite ==
    /\ todo # <<>> /\ faults < MaxFaults
    /\ Head(todo).file = "cfgTmp" /\ Head(todo).op = "put"
    /\ \E content \in ShortWrites(Head(todo).content) :
         files' = [files EXCEPT !["cfgTmp"] = content]
    /\ faults' = faults + 1
    /\ todo' = Tail(todo)
    /\ cfgRisk' = TRUE /\ identity' = {}
    /\ UNCHANGED <<ram, phase, handler, failed, keys, edits, powerLosses,
                   committed, keyRisk, forgotten>>

\* The handler is through.
Returns(names) == handler.name \in names /\ todo = <<>>

\* The public key file is that of c, and c's keys belong together.
WellPaired(c) ==
    files["pub"] = c.pub
    /\ (c.pub # Absent => c.key # Absent /\ c.pub = c.key.pair)

\* The configuration is stored: what is left of a risk taken before?
Stores ==
    /\ committed' = {Stored(handler.cfg)}
    /\ cfgRisk' = (cfgRisk /\ files["cfg"] # Stored(handler.cfg))
    /\ keyRisk' = (keyRisk /\ (handler.name = "device" => ~WellPaired(handler.cfg)))
    /\ identity' = IF cfgRisk' THEN {}
                   ELSE CASE handler.name = "device" /\ handler.cfg.auth = "key" ->
                               {handler.cfg.key.pair}
                          [] handler.name = "managed" /\ identity = {}
                             /\ files["key"] # Absent -> {files["key"].pair}
                          [] OTHER -> identity

\* A save that worked ends in ESP.restart().
SavedAndRestart ==
    /\ Returns({"wifiRestart", "device", "managed"}) /\ ~failed
    /\ Stores
    /\ Reset
    /\ UNCHANGED <<files, bounds, forgotten>>

\* handleWifiSave of a device that is not set up goes on to the next page.
SavedAndContinue ==
    /\ Returns({"wifi"}) /\ ~failed
    /\ Stores
    /\ handler' = Idle /\ phase' = "transition" /\ wifiReset' = FALSE
    /\ UNCHANGED <<files, now, todo, failed, edit, identityTried, tunnel,
                   bounds, forgotten>>

\* The page or the log reports an error and the device goes on.
SaveFailed ==
    /\ Returns({"wifi", "wifiRestart", "device", "managed", "identity",
                "request"}) /\ failed
    /\ handler' = Idle /\ failed' = FALSE
    /\ UNCHANGED <<files, ram, phase, todo, bounds, history>>

\* ensure() puts the new pair into the configuration in RAM.
IdentityReady ==
    /\ Returns({"identity"}) /\ ~failed
    /\ now' = handler.cfg
    /\ handler' = Idle
    /\ UNCHANGED <<files, edit, wifiReset, identityTried, tunnel, phase, todo,
                   failed, bounds, history>>

RequestStored ==
    /\ Returns({"request"}) /\ ~failed
    /\ Reset
    /\ UNCHANGED <<files, bounds, history>>

Wiped ==
    /\ Returns({"factory"})
    /\ forgotten' = IF failed THEN forgotten ELSE 1..keys
    /\ Reset
    /\ UNCHANGED <<files, bounds, committed, cfgRisk, identity, keyRisk>>

PowerLoss ==
    /\ phase # "off" /\ powerLosses < MaxPowerLoss
    /\ powerLosses' = powerLosses + 1
    /\ keyRisk' = (keyRisk \/ KeysInFlux)
    /\ identity' = IF KeysInFlux THEN {} ELSE identity
    /\ Reset
    /\ UNCHANGED <<files, keys, edits, faults, committed, cfgRisk, forgotten>>

Next ==
    \/ Boot \/ FormatStorage \/ Load \/ ConnectWiFi \/ EnsureIdentity
    \/ StartTunnel \/ OpenDevicePortal
    \/ \E w \in Wifis, vendorChanged \in BOOLEAN : WifiSave(w, vendorChanged)
    \/ \E d \in Devices : \E s \in Submissions : DeviceSave(d, s)
    \/ \E d \in Devices : ManagedSave(d)
    \/ RequestEdit \/ RequestWifiReset \/ FactoryReset
    \/ FileOp \/ FileOpFails \/ ShortWrite
    \/ SavedAndRestart \/ SavedAndContinue \/ SaveFailed \/ IdentityReady
    \/ RequestStored \/ Wiped \/ PowerLoss

Spec == Init /\ [][Next]_vars

-----------------------------------------------------------------------------
\* The boot after a save finds the configuration from before it or the saved
\* one, wherever the power was cut or an operation failed: writeConfig keeps a
\* backup until the new file has its name, and loadConfig restores it.  The two
\* exceptions are the short write that writeConfig does not notice and a backup
\* that could not be restored.
OldOrNew == BootContent \in committed \/ cfgRisk

\* As long as the operator submits matching halves, the tunnel never presents a
\* public key that does not belong to its private key: saveKeys and
\* persistKeyPair exchange both files, and only an exchange that was cut, by a
\* power failure or a failing operation, leaves one of each.
PairMatches ==
    tunnel # Absent => tunnel.pub \in {tunnel.key.pair, Absent} \/ keyRisk

\* "A normal reboot, WiFi-only reset, MAC-vendor change, or managed tunnel
\* update preserves this identity" (docs/SSH_KEYS_MEMORY.md): once a set-up with
\* a key is saved, the tunnel uses that key or one the operator submitted later.
IdentityKept ==
    tunnel # Absent => identity = {} \/ tunnel.key.pair \in identity

\* A complete set-up on flash keeps its tunnel part through everything but a
\* save of the tunnel part, a factory reset and a formatted file system: the WiFi
\* portal writes the whole file from RAM, where a set-up whose key a boot could
\* not read is incomplete.  A set-up with a key counts once its save came through
\* (identity): a backup from before a switch to a password, which a cut factory
\* reset can bring back, names a key that is gone.
SetupSurvives ==
    [][/\ BootContent # Absent /\ BootContent.done
       /\ BootContent.auth = "key" => identity # {}
       /\ handler.name \notin {"device", "managed", "factory"}
       => \/ /\ BootContent' # Absent /\ BootContent'.done
             /\ BootContent'.dev = BootContent.dev
             /\ BootContent'.auth = BootContent.auth
          \/ cfgRisk' \/ committed' = {Absent}]_vars

\* A factory reset that came through leaves no key of the device behind: not in
\* the key files, not in their temporaries, and so not in a later tunnel.
ResetForgets ==
    /\ \A f \in {"key", "keyTmp"} :
         files[f] # Absent => files[f].pair \notin forgotten
    /\ \A f \in {"pub", "pubTmp"} : files[f] \notin forgotten
    /\ tunnel # Absent => tunnel.key.pair \notin forgotten
=============================================================================
