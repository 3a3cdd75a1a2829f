------------------------------- MODULE Startup -------------------------------
(* From the start of the container to the listening server: the encryption key *)
(* (config.go), the TLS files (tlsutil.go), the database and its migrations    *)
(* (store), as main.go calls them, and what a crash between any two of them    *)
(* leaves for the next start.  Docker starts the process again whenever it     *)
(* ends ("restart: unless-stopped").                                           *)
(*                                                                             *)
(* Keys are known by their identity.  A file the program renames into place    *)
(* or writes without a sync can be found empty after a power loss, and the     *)
(* database falls back to its last checkpoint (synchronous NORMAL); the TLS    *)
(* pair is synced before it is renamed, and is assumed to stay.                *)
EXTENDS Naturals, FiniteSets

CONSTANTS
    EncKeys,    \* encryption keys
    TlsKeys,    \* private keys of certificates
    Tokens,     \* GitHub tokens
    None,       \* no key, no host, no token
    Empty,      \* what is in a file that was lost before it reached the disk
    DnsHosts,   \* container hostnames that are DNS names
    IpHosts,    \* those that are IPv4 addresses, but for 127.0.0.1
    PlainHosts, \* localhost, and those that are neither
    Confs,      \* what the container may be given: hostname, ENCRYPTION_KEY, TLS or not
    Alters,     \* the migrations that add a column
    Latest,     \* the last migration
    MaxEvents   \* bound: crashes, power losses, changes by the operator or time

Hosts == DnsHosts \cup IpHosts \cup PlainHosts

ASSUME NoneAssumption  == /\ None # Empty
                          /\ {None, Empty} \cap (EncKeys \cup TlsKeys \cup Hosts \cup Tokens) = {}
ASSUME KindsAssumption == DnsHosts \cap IpHosts = {} /\ PlainHosts \cap (DnsHosts \cup IpHosts) = {}
ASSUME ConfsAssumption == Confs \subseteq [host : Hosts, key : EncKeys \cup {None}, tls : BOOLEAN]
ASSUME NewKeysAssumption ==
    /\ \A k \in EncKeys \cup {None} : EncKeys \ ({c.key : c \in Confs} \cup {k}) # {}
    /\ \A a, b, c \in TlsKeys \cup {None, Empty} : TlsKeys \ {a, b, c} # {}
ASSUME LatestAssumption == Latest \in Nat \ {0} /\ Alters \subseteq 1..Latest
ASSUME EventsAssumption == MaxEvents \in Nat

VARIABLES
    at,         \* where the process is
    conf,       \* what it is given now
    enc,        \* <DATA_DIR>/encryption_key
    cert,       \* tls/cert.pem
    tlsKey,     \* tls/key.pem
    fp,         \* tls/key.fp, as the key it is the fingerprint of
    db,         \* gh-vault.db
    unsynced,   \* the files a power loss empties
    kept,       \* the database a power loss leaves
    encKey,     \* in memory: cfg.EncryptionKey
    made,       \* in memory: the private key being written
    served,     \* in memory: the pair the server presents
    events,     \* bound: how many events have happened
    touched,    \* history: the TLS files or the hostname may have changed since
                \* a start last left them in order
    rekeyed     \* history: the operator gave another encryption key

files   == <<enc, cert, tlsKey, fp>>
memory  == <<encKey, made, served>>
history == <<touched, rekeyed>>
vars    == <<at, conf, files, db, unsynced, kept, memory, events, history>>

Labels  == {"down", "load", "cert", "write_cert", "write_key", "write_fp",
            "open", "migrate", "listen", "serve"}

NoCert  == [key |-> None, host |-> None, fresh |-> FALSE]
Certs   == [key : TlsKeys \cup {None}, host : Hosts \cup {None}, fresh : BOOLEAN]

NoSecret == [token |-> None, key |-> None]
Secrets  == {NoSecret} \cup [token : Tokens, key : EncKeys]

NoDb    == [version |-> 0, done |-> {}, secret |-> NoSecret, exists |-> FALSE]
Dbs     == [version : 0..Latest, done : SUBSET (1..Latest), secret : Secrets,
            exists : BOOLEAN]

(* Which key is new does not matter. *)
Unused(keys, used) == CHOOSE k \in keys : k \notin used

Step(from, to) == at = from /\ at' = to
Event == events < MaxEvents /\ events' = events + 1
Calm  == UNCHANGED events

(* The process ends by itself: os.Exit(1). *)
Forgotten  == encKey' = None /\ made' = None /\ served' = NoCert
Exit(from) == Step(from, "down") /\ Forgotten

-----------------------------------------------------------------------------
(* loadEncryptionKey.                                                          *)

Start == /\ Step("down", "load")
         /\ Calm /\ UNCHANGED <<conf, files, db, unsynced, kept, memory, history>>

(* The first source that is not empty. *)
Configured == IF conf.key # None THEN conf.key ELSE enc

GoOn == IF conf.tls THEN "cert" ELSE "open"

LoadKey ==
    /\ Step("load", GoOn) /\ Configured \in EncKeys
    /\ encKey' = Configured
    /\ Calm /\ UNCHANGED <<conf, files, db, unsynced, kept, made, served, history>>

(* Mutation: a new key is made whether there is a database or not. *)
MayGenerate_Always == TRUE

MayGenerate == ~db.exists

(* The file is written beside its place and renamed, without a sync. *)
GenerateKey ==
    /\ Step("load", GoOn) /\ Configured \notin EncKeys /\ MayGenerate
    /\ encKey' = Unused(EncKeys, {c.key : c \in Confs} \cup {db.secret.key})
    /\ enc' = encKey'
    /\ unsynced' = unsynced \cup {"enc"}
    /\ Calm /\ UNCHANGED <<conf, cert, tlsKey, fp, db, kept, made, served, history>>

RefuseKey ==
    /\ Exit("load") /\ Configured \notin EncKeys /\ ~MayGenerate
    /\ Calm /\ UNCHANGED <<conf, files, db, unsynced, kept, history>>

-----------------------------------------------------------------------------
(* EnsureSelfSignedCert.                                                       *)

(* The hostname a new certificate names besides localhost: an address of       *)
(* digits and dots passes for a DNS name.                                      *)
NameFor(h) == IF h \in DnsHosts \cup IpHosts THEN h ELSE None

(* Mutation: a hostname no certificate can name is not covered. *)
HostnameCovered_Strict(h, c) == h \in DnsHosts /\ c.host = h

(* An address is looked for among the certificate's addresses, where it never  *)
(* is.                                                                         *)
HostnameCovered(h, c) == h \in PlainHosts \/ (h \in DnsHosts /\ c.host = h)

(* Mutation: the keys of the pair are not compared. *)
CertKeyValid_NoPair == /\ cert.key # None /\ tlsKey # None /\ fp = tlsKey
                       /\ cert.fresh /\ HostnameCovered(conf.host, cert)

CertKeyValid == /\ cert.key # None /\ tlsKey = cert.key /\ fp = tlsKey
                /\ cert.fresh /\ HostnameCovered(conf.host, cert)

KeepPair ==
    /\ Step("cert", "open") /\ CertKeyValid
    /\ touched' = FALSE
    /\ Calm /\ UNCHANGED <<conf, files, db, unsynced, kept, memory, rekeyed>>

NewPair ==
    /\ Step("cert", "write_cert") /\ ~CertKeyValid
    /\ made' = Unused(TlsKeys, {cert.key, tlsKey, fp})
    /\ Calm /\ UNCHANGED <<conf, files, db, unsynced, kept, encKey, served, history>>

(* Each file is written beside its place, synced and renamed. *)
WriteCert ==
    /\ Step("write_cert", "write_key")
    /\ cert' = [key |-> made, host |-> NameFor(conf.host), fresh |-> TRUE]
    /\ Calm /\ UNCHANGED <<conf, enc, tlsKey, fp, db, unsynced, kept, memory, history>>

WriteKey ==
    /\ Step("write_key", "write_fp")
    /\ tlsKey' = made
    /\ Calm /\ UNCHANGED <<conf, enc, cert, fp, db, unsynced, kept, memory, history>>

(* The fingerprint of what is in the key file, written in place. *)
WriteFingerprint ==
    /\ Step("write_fp", "open")
    /\ fp' = tlsKey
    /\ unsynced' = unsynced \cup {"fp"}
    /\ made' = None /\ touched' = FALSE
    /\ Calm /\ UNCHANGED <<conf, enc, cert, tlsKey, db, kept, encKey, served, rekeyed>>

(* A write that fails ends the process; the fingerprint may be left empty. *)
WriteFails ==
    /\ \E l \in {"write_cert", "write_key", "write_fp"} : Exit(l)
    /\ fp' \in IF at = "write_fp" THEN {fp, Empty} ELSE {fp}
    /\ touched' = TRUE
    /\ Event /\ UNCHANGED <<conf, enc, cert, tlsKey, db, unsynced, kept, rekeyed>>

-----------------------------------------------------------------------------
(* store.New, and the listening.                                               *)

Open ==
    /\ Step("open", "migrate")
    /\ db' = [db EXCEPT !.exists = TRUE]
    /\ Calm /\ UNCHANGED <<conf, files, unsynced, kept, memory, history>>

(* Mutation: the version recorded is that of the next migration. *)
Applied_Next(m) == [db EXCEPT !.version = m + 1, !.done = @ \cup {m}]

Applied(m) == [db EXCEPT !.version = m, !.done = @ \cup {m}]

(* A column cannot be added twice. *)
Applicable(m) == m \notin Alters \cap db.done

Migrate ==
    /\ at = "migrate" /\ db.version < Latest
    /\ IF Applicable(db.version + 1)
       THEN db' = Applied(db.version + 1) /\ UNCHANGED <<at, memory>>
       ELSE at' = "down" /\ Forgotten /\ UNCHANGED db
    /\ Calm /\ UNCHANGED <<conf, files, unsynced, kept, history>>

(* Mutation: the version is written outside of the migration's transaction. *)
Interrupted_Apart == {db, [db EXCEPT !.done = @ \cup {db.version + 1}]}

(* What a crash in the middle of a migration leaves: its transaction never was. *)
Interrupted == {db}

Migrated ==
    /\ Step("migrate", "listen") /\ db.version = Latest
    /\ Calm /\ UNCHANGED <<conf, files, db, unsynced, kept, memory, history>>

(* The pair is read again, and refused when its keys differ. *)
Presentable == conf.tls => cert.key # None /\ cert.key = tlsKey

Listen ==
    /\ at = "listen"
    /\ IF Presentable
       THEN /\ at' = "serve" /\ UNCHANGED <<encKey, made>>
            /\ served' = IF conf.tls THEN cert ELSE NoCert
       ELSE at' = "down" /\ Forgotten
    /\ Calm /\ UNCHANGED <<conf, files, db, unsynced, kept, history>>

-----------------------------------------------------------------------------
(* Crashes, the operator, time.                                                *)

(* The process is killed; what it has written is there.  It may be in the      *)
(* middle of a migration, or of writing the fingerprint.                       *)
Killed ==
    /\ at # "down" /\ at' = "down" /\ Forgotten
    /\ touched' = (touched \/ fp' # fp \/ at \in {"write_key", "write_fp"})

Crash ==
    /\ fp' \in IF at = "write_fp" THEN {fp, Empty} ELSE {fp}
    /\ Killed
    /\ db' \in IF at = "migrate" /\ db.version < Latest THEN Interrupted ELSE {db}
    /\ Event /\ UNCHANGED <<conf, enc, cert, tlsKey, unsynced, kept, rekeyed>>

PowerLoss ==
    /\ \E lost \in SUBSET unsynced :
          /\ enc' = IF "enc" \in lost THEN Empty ELSE enc
          /\ fp'  = IF "fp" \in lost \/ at = "write_fp" THEN Empty ELSE fp
    /\ db' = kept
    /\ unsynced' = {}
    /\ Killed
    /\ Event /\ UNCHANGED <<conf, cert, tlsKey, kept, rekeyed>>

(* The system writes back what it holds, and SQLite makes a checkpoint. *)
WriteBack == \/ unsynced # {} /\ unsynced' = {} /\ UNCHANGED kept
             \/ kept # db /\ kept' = db /\ UNCHANGED unsynced

Flush == WriteBack /\ Calm /\ UNCHANGED <<at, conf, files, db, memory, history>>

(* The operator recreates the container, with another hostname, key or mode. *)
Reconfigure ==
    /\ at = "down"
    /\ conf' \in {c \in Confs : c # conf}
    /\ touched' = (touched \/ conf'.host # conf.host)
    /\ rekeyed' = (rekeyed \/ conf'.key # conf.key)
    /\ Event /\ UNCHANGED <<at, files, db, unsynced, kept, memory>>

(* Somebody replaces or removes the private key while the process is down. *)
ReplaceKey ==
    /\ at = "down"
    /\ tlsKey' \in {None, Unused(TlsKeys, {cert.key, tlsKey, fp})}
    /\ touched' = TRUE
    /\ Event /\ UNCHANGED <<at, conf, enc, cert, fp, db, unsynced, kept, memory, rekeyed>>

(* A year has passed; what the server presents does not change any more. *)
Age ==
    /\ at \in {"down", "serve"} /\ cert.fresh
    /\ cert' = [cert EXCEPT !.fresh = FALSE]
    /\ served' = [served EXCEPT !.fresh = FALSE]
    /\ touched' = TRUE
    /\ Event /\ UNCHANGED <<at, conf, enc, tlsKey, fp, db, unsynced, kept, encKey, made, rekeyed>>

-----------------------------------------------------------------------------

(* Nothing is there yet, or an older release was in use: its database, its key *)
(* and a token under that key, and a pair of TLS files that may be a year old. *)
Older(v, s) == [version |-> v, done |-> 1..v, secret |-> s, exists |-> TRUE]

Init ==
    /\ at = "down"
    /\ conf \in Confs
    /\ \/ /\ enc = None /\ db = NoDb
          /\ cert = NoCert /\ tlsKey = None /\ fp = None
       \/ /\ conf.key = None
          /\ enc = Unused(EncKeys, {})
          /\ \E v \in 2..Latest, t \in Tokens :
                db = Older(v, [token |-> t, key |-> enc])
          /\ tlsKey = Unused(TlsKeys, {}) /\ fp = tlsKey
          /\ \E new \in BOOLEAN :
                cert = [key |-> tlsKey, host |-> NameFor(conf.host), fresh |-> new]
    /\ unsynced = {} /\ kept = db
    /\ encKey = None /\ made = None /\ served = NoCert
    /\ events = 0 /\ touched = TRUE /\ rekeyed = FALSE

Booting == \/ Start \/ LoadKey \/ GenerateKey \/ RefuseKey
           \/ KeepPair \/ NewPair \/ WriteCert \/ WriteKey \/ WriteFingerprint
           \/ Open \/ Migrate \/ Migrated \/ Listen

Happening == \/ WriteFails \/ Crash \/ PowerLoss \/ Flush
             \/ Reconfigure \/ ReplaceKey \/ Age

=============================================================================
