---------------------------- MODULE ProcessProofs ----------------------------
(* Theorems about Process, for every set of keys, hostnames, tokens, forms and *)
(* migrations, and any number of crashes, power losses and changes.            *)
EXTENDS Process, FiniteSetTheorems, TLAPS

(* What happens leaves all of the requests, or nothing when the process ends.  *)
Apart == IF at' = "down" THEN Nobody ELSE UNCHANGED tokens

-----------------------------------------------------------------------------
(* Types.  What is in files and in the memory of the start, and the rest.      *)

StartupType ==
    /\ at \in Labels /\ conf \in Confs /\ enc \in EncKeys \cup {None, Empty}
    /\ cert \in Certs /\ tlsKey \in TlsKeys \cup {None} /\ fp \in TlsKeys \cup {None, Empty}
    /\ db \in Dbs /\ kept \in Dbs /\ unsynced \subseteq {"enc", "fp"}
    /\ encKey \in EncKeys \cup {None} /\ made \in TlsKeys \cup {None} /\ served \in Certs
    /\ events \in 0..MaxEvents /\ touched \in BOOLEAN /\ rekeyed \in BOOLEAN

RequestType ==
    /\ cache \in Tokens \cup {None, Unread}
    /\ pc \in [Forms \cup {Asking} -> {"idle", "set", "clear", "asking"}]
    /\ given \in [Forms -> Tokens \cup {None}] /\ posts \in 0..Cardinality(Forms)
    /\ rate \in Tokens \cup {None} /\ asked \in Tokens \cup {None}

(* A form that is about to store a token has one. *)
Carrying == \A h \in Forms : pc[h] = "set" => given[h] \in Tokens

(* Past its loading the key in memory is the one that would be loaded again. *)
KeyLoaded == at \notin {"down", "load"} => encKey = Configured /\ encKey \in EncKeys

LEMMA TypeSplit == TypeOK <=> StartupType /\ RequestType
BY DEF TypeOK, StartupType, RequestType

LEMMA NewEncKey ==
    ASSUME StartupType
    PROVE  Unused(EncKeys, {c.key : c \in Confs} \cup {db.secret.key}) \in EncKeys
<1>1. db.secret.key \in EncKeys \cup {None}
  BY DEF StartupType, Dbs, Secrets, NoSecret
<1>2. EncKeys \ ({c.key : c \in Confs} \cup {db.secret.key}) # {}
  BY <1>1, NewKeysAssumption
<1> QED
  BY <1>2 DEF Unused

LEMMA NewTlsKey ==
    ASSUME StartupType
    PROVE  Unused(TlsKeys, {cert.key, tlsKey, fp}) \in TlsKeys
<1>1. cert.key \in TlsKeys \cup {None, Empty} /\ tlsKey \in TlsKeys \cup {None, Empty}
        /\ fp \in TlsKeys \cup {None, Empty}
  BY DEF StartupType, Certs
<1>2. TlsKeys \ {cert.key, tlsKey, fp} # {}
  BY <1>1, NewKeysAssumption
<1> QED
  BY <1>2 DEF Unused

LEMMA HostOf == \A c \in Confs : c.host \in Hosts /\ c.key \in EncKeys \cup {None} /\ c.tls \in BOOLEAN
BY ConfsAssumption

LEMMA SomeTlsKey == Unused(TlsKeys, {}) \in TlsKeys
BY NewKeysAssumption DEF Unused

LEMMA SomeEncKey == Unused(EncKeys, {}) \in EncKeys
BY NewKeysAssumption DEF Unused

LEMMA InitType == ProcessInit => StartupType /\ RequestType /\ Carrying
<1> SUFFICES ASSUME ProcessInit PROVE StartupType /\ RequestType /\ Carrying
  OBVIOUS
<1> USE DEF ProcessInit, Init
<1>1. NoSecret \in Secrets /\ NoDb \in Dbs /\ NoCert \in Certs
  BY LatestAssumption DEF NoSecret, Secrets, NoDb, Dbs, NoCert, Certs
<1>2. db \in Dbs /\ enc \in EncKeys \cup {None, Empty}
  <2>1. CASE enc = None /\ db = NoDb
    BY <2>1, <1>1
  <2>2. CASE /\ enc = Unused(EncKeys, {})
             /\ \E v \in 2..Latest, t \in Tokens : db = Older(v, [token |-> t, key |-> enc])
    BY <2>2, SomeEncKey, LatestAssumption DEF Older, Dbs, Secrets
  <2> QED
    BY <2>1, <2>2
<1>3. cert \in Certs /\ tlsKey \in TlsKeys \cup {None} /\ fp \in TlsKeys \cup {None, Empty}
  <2>1. CASE cert = NoCert /\ tlsKey = None /\ fp = None
    BY <2>1, <1>1
  <2>2. CASE /\ tlsKey = Unused(TlsKeys, {}) /\ fp = tlsKey
             /\ \E new \in BOOLEAN :
                   cert = [key |-> tlsKey, host |-> NameFor(conf.host), fresh |-> new]
    BY <2>2, SomeTlsKey, HostOf DEF NameFor, Certs, Hosts
  <2> QED
    BY <2>1, <2>2
<1>4. StartupType
  <2>1. at \in Labels /\ events \in 0..MaxEvents
    BY EventsAssumption DEF Labels
  <2>2. kept \in Dbs /\ served \in Certs /\ conf \in Confs /\ unsynced \subseteq {"enc", "fp"}
    BY <1>1, <1>2
  <2>3. encKey \in EncKeys \cup {None} /\ made \in TlsKeys \cup {None}
          /\ touched \in BOOLEAN /\ rekeyed \in BOOLEAN
    OBVIOUS
  <2> QED
    BY <1>2, <1>3, <2>1, <2>2, <2>3 DEF StartupType
<1>5. Cardinality(Forms) \in Nat
  BY AskingAssumption, FS_CardinalityType
<1>6. RequestType /\ Carrying
  BY <1>5 DEF RequestType, Carrying
<1> QED
  BY <1>4, <1>6

LEMMA NextVersion == \A v \in 0..Latest : v < Latest => v + 1 \in 1..Latest
BY LatestAssumption

LEMMA AppliedType == \A m \in 1..Latest : db \in Dbs => Applied(m) \in Dbs
<1> SUFFICES ASSUME NEW m \in 1..Latest, db \in Dbs PROVE Applied(m) \in Dbs
  OBVIOUS
<1>1. m \in 0..Latest
  BY LatestAssumption
<1>2. db.done \cup {m} \in SUBSET (1..Latest)
  BY DEF Dbs
<1> QED
  BY <1>1, <1>2 DEF Applied, Dbs

LEMMA BootType == StartupType /\ Booting => StartupType'
<1> SUFFICES ASSUME StartupType, Booting PROVE StartupType'
  OBVIOUS
<1> USE DEF StartupType, Labels, Step, Calm, files, memory, history
<1>1. CASE Start
  BY <1>1 DEF Start
<1>2. CASE LoadKey
  BY <1>2 DEF LoadKey, GoOn
<1>3. CASE GenerateKey
  BY <1>3, NewEncKey DEF GenerateKey, GoOn
<1>4. CASE RefuseKey
  <2>1. NoCert \in Certs
    BY DEF NoCert, Certs
  <2> QED
    BY <1>4, <2>1 DEF RefuseKey, Exit, Forgotten
<1>5. CASE KeepPair
  BY <1>5 DEF KeepPair
<1>6. CASE NewPair
  BY <1>6, NewTlsKey DEF NewPair
<1>7. CASE WriteCert
  <2>1. cert' \in Certs
    BY <1>7, HostOf DEF WriteCert, Certs, NameFor
  <2> QED
    BY <1>7, <2>1 DEF WriteCert
<1>8. CASE WriteKey
  BY <1>8 DEF WriteKey
<1>9. CASE WriteFingerprint
  BY <1>9 DEF WriteFingerprint
<1>10. CASE Open
  <2>1. db' \in Dbs
    BY <1>10 DEF Open, Dbs
  <2> QED
    BY <1>10, <2>1 DEF Open
<1>11. CASE Migrate
  <2>1. NoCert \in Certs
    BY DEF NoCert, Certs
  <2>2. db' \in Dbs
    <3>1. db.version \in 0..Latest /\ db.done \subseteq 1..Latest
      BY DEF Dbs
    <3>2. db.version < Latest
      BY <1>11 DEF Migrate
    <3>3. db.version + 1 \in 1..Latest
      BY <3>1, <3>2, NextVersion
    <3>4. Applied(db.version + 1) \in Dbs
      BY <3>3, AppliedType
    <3> QED
      BY <1>11, <3>4 DEF Migrate
  <2> QED
    BY <1>11, <2>1, <2>2 DEF Migrate, Forgotten
<1>12. CASE Migrated
  BY <1>12 DEF Migrated
<1>13. CASE Listen
  <2>1. NoCert \in Certs
    BY DEF NoCert, Certs
  <2> QED
    BY <1>13, <2>1 DEF Listen, Forgotten
<1> QED
  BY <1>1, <1>2, <1>3, <1>4, <1>5, <1>6, <1>7, <1>8, <1>9, <1>10, <1>11, <1>12, <1>13
  DEF Booting

LEMMA NextEvent == StartupType /\ Event => events' \in 0..MaxEvents
BY EventsAssumption DEF StartupType, Event

LEMMA KilledType ==
    StartupType /\ Killed =>
        /\ at' \in Labels /\ encKey' \in EncKeys \cup {None}
        /\ made' \in TlsKeys \cup {None} /\ served' \in Certs /\ touched' \in BOOLEAN
BY DEF StartupType, Killed, Forgotten, NoCert, Certs, Labels

LEMMA HappenType == StartupType /\ Happening => StartupType'
<1> SUFFICES ASSUME StartupType, Happening PROVE StartupType'
  OBVIOUS
<1> USE DEF StartupType, files, memory, history
<1>1. CASE WriteFails
  <2>1. NoCert \in Certs /\ "down" \in Labels
    BY DEF NoCert, Certs, Labels
  <2> QED
    BY <1>1, <2>1, NextEvent DEF WriteFails, Exit, Step, Forgotten
<1>2. CASE Crash
  <2>1. db' \in Dbs
    BY <1>2 DEF Crash, Interrupted
  <2> QED
    BY <1>2, <2>1, NextEvent, KilledType DEF Crash
<1>3. CASE PowerLoss
  BY <1>3, NextEvent, KilledType DEF PowerLoss
<1>4. CASE Flush
  BY <1>4 DEF Flush, WriteBack, Calm
<1>5. CASE Reconfigure
  BY <1>5, NextEvent DEF Reconfigure
<1>6. CASE ReplaceKey
  BY <1>6, NextEvent, NewTlsKey DEF ReplaceKey
<1>7. CASE Age
  <2>1. cert' \in Certs /\ served' \in Certs
    BY <1>7 DEF Age, Certs
  <2> QED
    BY <1>7, <2>1, NextEvent DEF Age
<1> QED
  BY <1>1, <1>2, <1>3, <1>4, <1>5, <1>6, <1>7 DEF Happening

LEMMA Secret == \A t \in Tokens, k \in EncKeys : [token |-> t, key |-> k] \in Secrets
BY DEF Secrets

LEMMA ServeType ==
    StartupType /\ RequestType /\ Carrying /\ KeyLoaded /\ Serving =>
        StartupType' /\ RequestType' /\ Carrying'
<1> SUFFICES ASSUME StartupType, RequestType, Carrying, KeyLoaded, Serving
             PROVE  StartupType' /\ RequestType' /\ Carrying'
  OBVIOUS
<1>0. Cardinality(Forms) \in Nat
  BY AskingAssumption, FS_CardinalityType
<1>1. Quiet => StartupType'
  BY DEF Quiet, vars, files, memory, history, StartupType
<1>r. at = "serve" => Readable \subseteq Tokens \cup {None}
  <2>1. db.secret \in Secrets
    BY DEF StartupType, Dbs
  <2>2. Decrypt(db.secret, encKey) \subseteq Tokens \cup {None}
    BY <2>1 DEF Decrypt, Secrets
  <2> QED
    BY <2>2 DEF Readable, RequestType
<1>2. CASE GetToken
  BY <1>1, <1>r, <1>2 DEF GetToken, RequestType, Carrying
<1>3. CASE AskRateLimit
  <2>1. cache' \in Tokens \cup {None, Unread} /\ asked' \in Tokens
    BY <1>3, <1>r DEF AskRateLimit
  <2> QED
    BY <1>1, <1>3, <2>1, AskingAssumption DEF AskRateLimit, RequestType, Carrying
<1>4. CASE RateLimitAnswered
  BY <1>1, <1>4, AskingAssumption DEF RateLimitAnswered, RequestType, Carrying
<1>5. ASSUME NEW h \in Forms, PostToken(h) PROVE StartupType' /\ RequestType' /\ Carrying'
  <2>1. posts' \in 0..Cardinality(Forms)
    BY <1>0, <1>5 DEF PostToken, RequestType
  <2>2. given' \in [Forms -> Tokens \cup {None}] /\ Carrying'
    BY <1>5, AskingAssumption DEF PostToken, RequestType, Carrying
  <2> QED
    BY <1>1, <1>5, <2>1, <2>2 DEF PostToken, RequestType
<1>6. ASSUME NEW h \in Forms, SetToken(h) PROVE StartupType' /\ RequestType' /\ Carrying'
  <2>1. given[h] \in Tokens /\ encKey \in EncKeys
    BY <1>6 DEF SetToken, Carrying, KeyLoaded
  <2>2. db' \in Dbs
    BY <1>6, <2>1, Secret DEF SetToken, StartupType, Dbs
  <2>3. events' \in 0..MaxEvents
    BY <1>6, NextEvent DEF SetToken, Calm, StartupType
  <2>4. cache' \in Tokens \cup {None, Unread}
    BY <1>6, <2>1 DEF SetToken, Cached, RequestType
  <2>5. pc' \in [Forms \cup {Asking} -> {"idle", "set", "clear", "asking"}] /\ Carrying'
    BY <1>6 DEF SetToken, RequestType, Carrying
  <2>6. StartupType'
    BY <1>6, <2>2, <2>3 DEF SetToken, StartupType, files, memory, history
  <2> QED
    BY <1>6, <2>4, <2>5, <2>6 DEF SetToken, RequestType
<1>7. ASSUME NEW h \in Forms, ClearRateLimitCache(h)
      PROVE  StartupType' /\ RequestType' /\ Carrying'
  BY <1>1, <1>7, AskingAssumption DEF ClearRateLimitCache, RequestType, Carrying
<1> QED
  BY <1>2, <1>3, <1>4, <1>5, <1>6, <1>7 DEF Serving

LEMMA ApartType ==
    RequestType /\ Carrying /\ (Apart \/ UNCHANGED tokens) /\ UNCHANGED posts =>
        RequestType' /\ Carrying'
BY AskingAssumption DEF RequestType, Carrying, Apart, Nobody, tokens

-----------------------------------------------------------------------------
(* Keys.                                                                       *)

(* What is stored, now or at the last checkpoint, is under the key that a      *)
(* start will find, if it finds any and the operator gave no other.            *)
KeyFor(d) ==
    d.secret # NoSecret =>
        /\ d.exists
        /\ \/ rekeyed
           \/ conf.key = d.secret.key
           \/ conf.key = None /\ enc \in {d.secret.key, Empty}

KeysKept == /\ kept.exists \/ at \in {"migrate", "listen", "serve"} => db.exists
            /\ KeyFor(db) /\ KeyFor(kept)

LEMMA InitKeys == ProcessInit => KeyLoaded /\ KeysKept
<1> SUFFICES ASSUME ProcessInit PROVE KeyLoaded /\ KeysKept
  OBVIOUS
<1> USE DEF ProcessInit, Init
<1>1. KeyLoaded
  BY DEF KeyLoaded
<1>2. kept = db
  OBVIOUS
<1>3. KeyFor(db)
  <2>1. CASE db = NoDb
    BY <2>1 DEF KeyFor, NoDb
  <2>2. CASE conf.key = None /\ \E v \in 2..Latest, t \in Tokens :
                                   db = Older(v, [token |-> t, key |-> enc])
    BY <2>2 DEF KeyFor, Older
  <2> QED
    BY <2>1, <2>2
<1> QED
  BY <1>1, <1>2, <1>3 DEF KeysKept

LEMMA BootKeys == StartupType /\ KeyLoaded /\ KeysKept /\ Booting => KeyLoaded' /\ KeysKept'
<1> SUFFICES ASSUME StartupType, KeyLoaded, KeysKept, Booting PROVE KeyLoaded' /\ KeysKept'
  OBVIOUS
<1> USE DEF KeyLoaded, KeysKept, KeyFor, Configured, Step, files, memory, history
<1>1. CASE Start
  BY <1>1 DEF Start
<1>2. CASE LoadKey
  BY <1>2 DEF LoadKey, GoOn
<1>3. CASE GenerateKey
  <2>0. at' \in {"cert", "open"}
    BY <1>3 DEF GenerateKey, GoOn
  <2>1. ~db.exists /\ ~kept.exists /\ UNCHANGED <<conf, db, kept, rekeyed>>
    BY <1>3 DEF GenerateKey, MayGenerate, StartupType, Dbs
  <2>2. conf.key = None
    BY <1>3, HostOf DEF GenerateKey, StartupType
  <2>3. encKey' = enc' /\ encKey' \in EncKeys
    BY <1>3, NewEncKey DEF GenerateKey
  <2> QED
    BY <2>0, <2>1, <2>2, <2>3
<1>4. CASE RefuseKey
  BY <1>4 DEF RefuseKey, Exit
<1>5. CASE KeepPair
  BY <1>5 DEF KeepPair
<1>6. CASE NewPair
  BY <1>6 DEF NewPair
<1>7. CASE WriteCert
  BY <1>7 DEF WriteCert
<1>8. CASE WriteKey
  BY <1>8 DEF WriteKey
<1>9. CASE WriteFingerprint
  BY <1>9 DEF WriteFingerprint
<1>10. CASE Open
  <2>1. db'.exists /\ db'.secret = db.secret
    BY <1>10 DEF Open, StartupType, Dbs
  <2> QED
    BY <1>10, <2>1 DEF Open
<1>11. CASE Migrate
  <2>1. db'.exists = db.exists /\ db'.secret = db.secret
    BY <1>11 DEF Migrate, Applied, StartupType, Dbs
  <2> QED
    BY <1>11, <2>1 DEF Migrate
<1>12. CASE Migrated
  BY <1>12 DEF Migrated
<1>13. CASE Listen
  BY <1>13 DEF Listen
<1> QED
  BY <1>1, <1>2, <1>3, <1>4, <1>5, <1>6, <1>7, <1>8, <1>9, <1>10, <1>11, <1>12, <1>13
  DEF Booting

LEMMA HappenKeys == StartupType /\ KeyLoaded /\ KeysKept /\ Happening => KeyLoaded' /\ KeysKept'
<1> SUFFICES ASSUME StartupType, KeyLoaded, KeysKept, Happening PROVE KeyLoaded' /\ KeysKept'
  OBVIOUS
<1> USE DEF KeyLoaded, KeysKept, KeyFor, Configured, files, memory, history
<1>1. CASE WriteFails
  BY <1>1 DEF WriteFails, Exit, Step
<1>2. CASE Crash
  BY <1>2 DEF Crash, Killed, Interrupted
<1>3. CASE PowerLoss
  <2>1. at' = "down" /\ db' = kept /\ kept' = kept /\ conf' = conf /\ rekeyed' = rekeyed
    BY <1>3 DEF PowerLoss, Killed
  <2>2. enc' \in {enc, Empty}
    BY <1>3 DEF PowerLoss
  <2> QED
    BY <2>1, <2>2
<1>4. CASE Flush
  BY <1>4 DEF Flush, WriteBack
<1>5. CASE Reconfigure
  BY <1>5 DEF Reconfigure, StartupType
<1>6. CASE ReplaceKey
  BY <1>6 DEF ReplaceKey
<1>7. CASE Age
  BY <1>7 DEF Age
<1> QED
  BY <1>1, <1>2, <1>3, <1>4, <1>5, <1>6, <1>7 DEF Happening

LEMMA ServeKeys ==
    StartupType /\ Carrying /\ KeyLoaded /\ KeysKept /\ Serving => KeyLoaded' /\ KeysKept'
<1> SUFFICES ASSUME StartupType, Carrying, KeyLoaded, KeysKept, Serving
             PROVE  KeyLoaded' /\ KeysKept'
  OBVIOUS
<1> USE DEF KeyLoaded, KeysKept, KeyFor, Configured, files, memory, history
<1>1. CASE Quiet
  BY <1>1 DEF Quiet, vars
<1>2. ASSUME NEW h \in Forms, SetToken(h) PROVE KeyLoaded' /\ KeysKept'
  <2>0. at = "serve" /\ UNCHANGED <<at, conf, enc, kept, encKey, rekeyed>>
    BY <1>2 DEF SetToken
  <2>1. CASE UNCHANGED db
    BY <2>0, <2>1
  <2>2. CASE db' = [db EXCEPT !.secret = [token |-> given[h], key |-> encKey]]
    <3>1. db'.exists = db.exists /\ db'.secret = [token |-> given[h], key |-> encKey]
      BY <2>2 DEF StartupType, Dbs
    <3>2. encKey \in EncKeys /\ db.exists
      BY <2>0
    <3> QED
      BY <2>0, <3>1, <3>2, HostOf DEF StartupType
  <2> QED
    BY <1>2, <2>1, <2>2 DEF SetToken
<1> QED
  BY <1>1, <1>2 DEF Serving, GetToken, AskRateLimit, RateLimitAnswered, PostToken, ClearRateLimitCache

-----------------------------------------------------------------------------
(* Certificates.                                                               *)

InOrder ==
    /\ cert.key # None /\ tlsKey = cert.key /\ fp = cert.key /\ cert.fresh
    /\ conf.host \in IpHosts \/ HostnameCovered(conf.host, cert)

Writing == at \in {"write_cert", "write_key", "write_fp"}

(* How far a pair being written has got; what is in order stays so until       *)
(* something is touched.                                                       *)
PairsKept ==
    /\ Writing => made \in TlsKeys
    /\ at \in {"write_key", "write_fp"} =>
          cert = [key |-> made, host |-> NameFor(conf.host), fresh |-> TRUE]
    /\ at = "write_fp" => tlsKey = made
    /\ at \in {"open", "migrate", "listen"} /\ conf.tls => InOrder
    /\ ~touched /\ conf.host \notin IpHosts => InOrder /\ ~Writing

LEMMA Covered == \A h \in Hosts : \A k, b :
    h \in IpHosts \/ HostnameCovered(h, [key |-> k, host |-> NameFor(h), fresh |-> b])
BY DEF Hosts, HostnameCovered, NameFor

LEMMA NotNone == None \notin TlsKeys
BY NoneAssumption

LEMMA ValidInOrder == CertKeyValid => InOrder
BY DEF CertKeyValid, InOrder

LEMMA InOrderValid == InOrder /\ conf.host \notin IpHosts => CertKeyValid
BY DEF CertKeyValid, InOrder

LEMMA SameOrder == InOrder /\ UNCHANGED <<conf, cert, tlsKey, fp>> => InOrder'
BY DEF InOrder

LEMMA InitPairs == ProcessInit => PairsKept
BY DEF ProcessInit, Init, PairsKept, Writing

LEMMA BootPairs == StartupType /\ PairsKept /\ Booting => PairsKept'
<1> SUFFICES ASSUME StartupType, PairsKept, Booting PROVE PairsKept'
  OBVIOUS
<1> USE DEF PairsKept, Writing, Step, files, memory, history
<1>1. CASE Start
  BY <1>1, SameOrder DEF Start
<1>2. CASE LoadKey
  BY <1>2, SameOrder DEF LoadKey, GoOn
<1>3. CASE GenerateKey
  BY <1>3, SameOrder DEF GenerateKey, GoOn
<1>4. CASE RefuseKey
  BY <1>4, SameOrder DEF RefuseKey, Exit
<1>5. CASE KeepPair
  BY <1>5, SameOrder, ValidInOrder DEF KeepPair
<1>6. CASE NewPair
  BY <1>6, SameOrder, InOrderValid, NewTlsKey DEF NewPair
<1>7. CASE WriteCert
  BY <1>7 DEF WriteCert
<1>8. CASE WriteKey
  BY <1>8 DEF WriteKey
<1>9. CASE WriteFingerprint
  <2>1. made \in TlsKeys /\ tlsKey = made
          /\ cert = [key |-> made, host |-> NameFor(conf.host), fresh |-> TRUE]
    BY <1>9 DEF WriteFingerprint
  <2>2. conf.host \in IpHosts \/ HostnameCovered(conf.host, cert)
    BY <2>1, HostOf, Covered DEF StartupType
  <2>3. at' = "open" /\ fp' = tlsKey /\ UNCHANGED <<conf, cert, tlsKey>>
    BY <1>9 DEF WriteFingerprint
  <2>4. cert.key = made /\ cert.fresh
    BY <2>1
  <2>5. InOrder'
    BY <2>1, <2>2, <2>3, <2>4, NotNone DEF InOrder
  <2> QED
    BY <2>3, <2>5
<1>10. CASE Open
  BY <1>10, SameOrder DEF Open
<1>11. CASE Migrate
  BY <1>11, SameOrder DEF Migrate
<1>12. CASE Migrated
  BY <1>12, SameOrder DEF Migrated
<1>13. CASE Listen
  BY <1>13, SameOrder DEF Listen
<1> QED
  BY <1>1, <1>2, <1>3, <1>4, <1>5, <1>6, <1>7, <1>8, <1>9, <1>10, <1>11, <1>12, <1>13
  DEF Booting

LEMMA HappenPairs == StartupType /\ PairsKept /\ Happening => PairsKept'
<1> SUFFICES ASSUME StartupType, PairsKept, Happening PROVE PairsKept'
  OBVIOUS
<1> USE DEF PairsKept, Writing, files, memory, history
<1>1. CASE WriteFails
  BY <1>1 DEF WriteFails, Exit, Step
<1>2. CASE Crash
  <2>1. at' = "down" /\ UNCHANGED <<conf, cert, tlsKey>>
    BY <1>2 DEF Crash, Killed
  <2>2. ~touched' => ~touched /\ fp' = fp
    BY <1>2 DEF Crash, Killed
  <2> QED
    BY <2>1, <2>2, SameOrder
<1>3. CASE PowerLoss
  <2>1. at' = "down" /\ UNCHANGED <<conf, cert, tlsKey>>
    BY <1>3 DEF PowerLoss, Killed
  <2>2. ~touched' => ~touched /\ fp' = fp
    BY <1>3 DEF PowerLoss, Killed
  <2> QED
    BY <2>1, <2>2, SameOrder
<1>4. CASE Flush
  BY <1>4, SameOrder DEF Flush
<1>5. CASE Reconfigure
  <2>1. at' = "down" /\ UNCHANGED <<cert, tlsKey, fp>>
    BY <1>5 DEF Reconfigure
  <2>2. ~touched' => ~touched /\ conf'.host = conf.host
    BY <1>5 DEF Reconfigure
  <2> QED
    BY <2>1, <2>2 DEF InOrder
<1>6. CASE ReplaceKey
  BY <1>6 DEF ReplaceKey
<1>7. CASE Age
  BY <1>7 DEF Age
<1> QED
  BY <1>1, <1>2, <1>3, <1>4, <1>5, <1>6, <1>7 DEF Happening

LEMMA ServePairs == PairsKept /\ Serving => PairsKept'
<1> SUFFICES ASSUME PairsKept, Serving PROVE PairsKept'
  OBVIOUS
<1>1. UNCHANGED <<at, conf, cert, tlsKey, fp, made, touched>>
  BY DEF Serving, GetToken, AskRateLimit, RateLimitAnswered, PostToken, SetToken,
         ClearRateLimitCache, Quiet, vars, files, memory, history
<1> QED
  BY <1>1, SameOrder DEF PairsKept, Writing

-----------------------------------------------------------------------------
(* Migrations.                                                                 *)

(* What has been migrated is what the version says, in the database and at its *)
(* last checkpoint: the two are written in one transaction.                    *)
UpTo(d) == d.done \subseteq 1..d.version

MigrationsKept == UpTo(db) /\ UpTo(kept)

LEMMA InitMigrations == ProcessInit => MigrationsKept
BY DEF ProcessInit, Init, MigrationsKept, UpTo, NoDb, Older

LEMMA AppliedMigrated ==
    ASSUME db \in Dbs, UpTo(db), NEW m, m = db.version + 1
    PROVE  UpTo(Applied(m))
<1>1. db.version \in Nat
  BY LatestAssumption DEF Dbs
<1>2. Applied(m).version = m /\ Applied(m).done = db.done \cup {m}
  BY DEF Applied, Dbs
<1> QED
  BY <1>1, <1>2 DEF UpTo

LEMMA StepMigrations ==
    ASSUME StartupType, MigrationsKept, Booting \/ Happening \/ Serving
    PROVE  MigrationsKept'
<1> USE DEF MigrationsKept, StartupType
<1>1. CASE UNCHANGED <<db, kept>>
  BY <1>1
<1>2. CASE db'.done = db.done /\ db'.version = db.version /\ UNCHANGED kept
  BY <1>2 DEF UpTo
<1>3. CASE Open
  BY <1>2, <1>3 DEF Open, Dbs
<1>4. CASE Migrate
  BY <1>4, AppliedMigrated DEF Migrate
<1>5. CASE Crash
  BY <1>5 DEF Crash, Interrupted
<1>6. CASE PowerLoss
  BY <1>6 DEF PowerLoss
<1>7. CASE Flush
  BY <1>7 DEF Flush, WriteBack
<1>8. ASSUME NEW h \in Forms, SetToken(h) PROVE MigrationsKept'
  BY <1>1, <1>2, <1>8 DEF SetToken, Dbs
<1> QED
  BY <1>1, <1>3, <1>4, <1>5, <1>6, <1>7, <1>8
  DEF Booting, Start, LoadKey, GenerateKey, RefuseKey, KeepPair, NewPair, WriteCert,
      WriteKey, WriteFingerprint, Migrated, Listen, Happening, WriteFails, Reconfigure,
      ReplaceKey, Age, Serving, GetToken, AskRateLimit, RateLimitAnswered, PostToken,
      ClearRateLimitCache, Quiet, vars

-----------------------------------------------------------------------------
(* Requests.                                                                   *)

Labelled ==
    /\ pc[Asking] \in {"idle", "asking"}
    /\ \A h \in Forms : pc[h] \in {"idle", "set", "clear"}
    /\ asked # None => pc[Asking] = "asking"
    /\ cache = Unread => rate = None /\ asked = None

NoClear == \A h \in Forms : pc[h] # "clear"

(* What GitHub is being asked for, too, is for the token in use. *)
Current == NoClear => rate \in {None, cache} /\ asked \in {None, cache}

RequestsKept == CacheAgrees /\ Labelled /\ Current

LEMMA InitRequests == ProcessInit => RequestsKept
BY AskingAssumption
DEF ProcessInit, RequestsKept, CacheAgrees, Labelled, Current, NoClear

LEMMA DownRequests == Nobody => RequestsKept'
BY AskingAssumption
DEF Nobody, RequestsKept, CacheAgrees, Labelled, Current, NoClear

(* While there is no service nothing is cached. *)
LEMMA IdleRequests ==
    RequestsKept /\ UNCHANGED tokens
        /\ (at # "serve" \/ UNCHANGED <<at, db, encKey>>) => RequestsKept'
BY DEF RequestsKept, CacheAgrees, Labelled, Current, NoClear, tokens

LEMMA BootRequests == RequestsKept /\ Booting /\ UNCHANGED tokens => RequestsKept'
<1>1. Booting => at # "serve"
  BY DEF Booting, Start, LoadKey, GenerateKey, RefuseKey, KeepPair, NewPair,
     WriteCert, WriteKey, WriteFingerprint, Open, Migrate, Migrated, Listen, Exit, Step
<1> QED
  BY <1>1, IdleRequests

LEMMA HappenRequests == RequestsKept /\ Happening /\ Apart => RequestsKept'
<1> SUFFICES ASSUME RequestsKept, Happening, Apart PROVE RequestsKept'
  OBVIOUS
<1>1. CASE at' = "down"
  BY <1>1, DownRequests DEF Apart
<1>2. CASE at' # "down"
  <2>1. Flush \/ Age
    BY <1>2 DEF Happening, WriteFails, Exit, Step, Crash, PowerLoss, Killed,
       Reconfigure, ReplaceKey
  <2>2. UNCHANGED <<at, db, encKey>>
    BY <2>1 DEF Flush, Age, memory
  <2> QED
    BY <1>2, <2>2, IdleRequests DEF Apart
<1> QED
  BY <1>1, <1>2

LEMMA ServeRequests ==
    StartupType /\ RequestType /\ Carrying /\ KeyLoaded /\ RequestsKept /\ Serving => RequestsKept'
<1> SUFFICES ASSUME StartupType, RequestType, Carrying, KeyLoaded, RequestsKept, Serving
             PROVE  RequestsKept'
  OBVIOUS
<1> USE DEF RequestsKept, Labelled
<1>t. Unread \notin Tokens \cup {None} /\ None \notin Tokens
  BY UnreadAssumption, NoneAssumption
<1>q. Quiet => UNCHANGED <<at, db, encKey>>
  BY DEF Quiet, vars, memory
<1>r. \A t \in Readable : /\ t # Unread
                          /\ cache # Unread => t = cache
                          /\ t = None => db.secret = NoSecret
                          /\ t # None => db.secret = [token |-> t, key |-> encKey]
  <2>1. CASE cache # Unread
    BY <2>1 DEF Readable, CacheAgrees
  <2>2. CASE cache = Unread
    <3>1. db.secret \in Secrets
      BY DEF StartupType, Dbs
    <3>2. CASE db.secret = NoSecret
      BY <2>2, <3>2, <1>t DEF Readable, Decrypt
    <3>3. CASE db.secret # NoSecret
      <4>1. db.secret \in [token : Tokens, key : EncKeys]
        BY <3>1, <3>3 DEF Secrets
      <4> QED
        BY <2>2, <3>3, <4>1, <1>t DEF Readable, Decrypt
    <3> QED
      BY <3>2, <3>3
  <2> QED
    BY <2>1, <2>2
<1>2. CASE GetToken
  <2>1. cache' \in Readable /\ at = "serve" /\ UNCHANGED <<at, db, encKey, pc, rate, asked>>
    BY <1>2, <1>q DEF GetToken
  <2>2. CacheAgrees'
    BY <2>1, <1>r DEF CacheAgrees
  <2>3. Current' /\ Labelled'
    BY <2>1, <1>r DEF Current, NoClear
  <2> QED
    BY <2>2, <2>3
<1>3. CASE AskRateLimit
  <2>1. /\ cache' \in Readable /\ cache' # None /\ asked' = cache'
        /\ at = "serve" /\ UNCHANGED <<at, db, encKey, rate>>
        /\ pc' = [pc EXCEPT ![Asking] = "asking"]
    BY <1>3, <1>q DEF AskRateLimit
  <2>2. CacheAgrees'
    BY <2>1, <1>r DEF CacheAgrees
  <2>3. \A h \in Forms : pc'[h] = pc[h]
    BY <2>1, AskingAssumption DEF RequestType
  <2>4. Labelled'
    BY <2>1, <2>3, <1>r, AskingAssumption DEF RequestType
  <2>5. Current'
    BY <2>1, <2>3, <1>r DEF Current, NoClear
  <2> QED
    BY <2>2, <2>4, <2>5
<1>4. CASE RateLimitAnswered
  <2>1. /\ rate' \in {rate, asked} /\ asked' = None /\ UNCHANGED <<at, db, encKey, cache>>
        /\ pc' = [pc EXCEPT ![Asking] = "idle"]
    BY <1>4, <1>q DEF RateLimitAnswered
  <2>2. \A h \in Forms : pc'[h] = pc[h]
    BY <2>1, AskingAssumption DEF RequestType
  <2>3. CacheAgrees'
    BY <2>1 DEF CacheAgrees
  <2>4. Labelled'
    BY <2>1, <2>2, AskingAssumption DEF RequestType
  <2>5. Current'
    BY <2>1, <2>2 DEF Current, NoClear
  <2> QED
    BY <2>3, <2>4, <2>5
<1>5. ASSUME NEW h \in Forms, PostToken(h) PROVE RequestsKept'
  <2>1. /\ UNCHANGED <<at, db, encKey, cache, rate, asked>>
        /\ pc[h] = "idle" /\ pc' = [pc EXCEPT ![h] = "set"]
    BY <1>5, <1>q DEF PostToken
  <2>2. CacheAgrees'
    BY <2>1 DEF CacheAgrees
  <2>3. Labelled'
    BY <2>1, AskingAssumption DEF RequestType
  <2>4. Current'
    BY <2>1, AskingAssumption DEF Current, NoClear, RequestType
  <2> QED
    BY <2>2, <2>3, <2>4
<1>6. ASSUME NEW h \in Forms, SetToken(h) PROVE RequestsKept'
  <2>0. at = "serve" /\ at' = at /\ encKey' = encKey /\ UNCHANGED <<rate, asked>>
    BY <1>6 DEF SetToken, memory
  <2>1. CASE /\ db' = [db EXCEPT !.secret = [token |-> given[h], key |-> encKey]]
             /\ cache' = given[h] /\ pc' = [pc EXCEPT ![h] = "clear"]
    <3>1. given[h] \in Tokens
      BY <1>6 DEF SetToken, Carrying
    <3>2. db'.secret = [token |-> given[h], key |-> encKey]
      BY <2>1 DEF StartupType, Dbs
    <3>3. CacheAgrees'
      BY <2>0, <2>1, <3>1, <3>2, <1>t DEF CacheAgrees
    <3>4. Labelled'
      BY <2>0, <2>1, <3>1, <1>t, AskingAssumption DEF RequestType
    <3>5. pc'[h] = "clear"
      BY <2>1 DEF RequestType
    <3> QED
      BY <3>3, <3>4, <3>5 DEF Current, NoClear
  <2>2. CASE /\ cache' = cache /\ UNCHANGED db
             /\ pc[h] = "set" /\ pc' = [pc EXCEPT ![h] = "idle"]
    <3>1. CacheAgrees'
      BY <2>0, <2>2 DEF CacheAgrees
    <3>2. Labelled'
      BY <2>0, <2>2, AskingAssumption DEF RequestType
    <3>3. Current'
      BY <2>0, <2>2 DEF Current, NoClear, RequestType
    <3> QED
      BY <3>1, <3>2, <3>3
  <2> QED
    BY <1>6, <2>1, <2>2 DEF SetToken, Cached
<1>7. ASSUME NEW h \in Forms, ClearRateLimitCache(h) PROVE RequestsKept'
  <2>1. /\ UNCHANGED <<at, db, encKey, cache, asked>> /\ rate' = None
        /\ pc[Asking] = "idle" /\ pc' = [pc EXCEPT ![h] = "idle"]
    BY <1>7, <1>q DEF ClearRateLimitCache, Unlocked
  <2>2. asked = None
    BY <2>1
  <2>3. CacheAgrees'
    BY <2>1 DEF CacheAgrees
  <2>4. Labelled'
    BY <2>1, <2>2, AskingAssumption DEF RequestType
  <2>5. Current'
    BY <2>1, <2>2 DEF Current
  <2> QED
    BY <2>3, <2>4, <2>5
<1> QED
  BY <1>2, <1>3, <1>4, <1>5, <1>6, <1>7 DEF Serving

-----------------------------------------------------------------------------
(* The invariant, and what it implies.                                         *)

IInv == /\ StartupType /\ RequestType /\ Carrying
        /\ KeyLoaded /\ KeysKept /\ PairsKept /\ MigrationsKept /\ RequestsKept

LEMMA Inductive == Spec => []IInv
<1>1. ProcessInit => IInv
  BY InitType, InitKeys, InitPairs, InitMigrations, InitRequests DEF IInv
<1>2. IInv /\ [Next]_all => IInv'
  <2> SUFFICES ASSUME IInv, [Next]_all PROVE IInv'
    OBVIOUS
  <2> USE DEF IInv
  <2>1. CASE Serving
    BY <2>1, ServeType, ServeKeys, ServePairs, StepMigrations, ServeRequests
  <2>2. CASE Booting /\ UNCHANGED <<tokens, posts>>
    BY <2>2, BootType, ApartType, BootKeys, BootPairs, StepMigrations, BootRequests
  <2>3. CASE Happening /\ Apart /\ UNCHANGED posts
    BY <2>3, HappenType, ApartType, HappenKeys, HappenPairs, StepMigrations, HappenRequests
  <2>4. CASE UNCHANGED all
    BY <2>4
    DEF all, vars, tokens, files, memory, history, StartupType, RequestType, Carrying,
        KeyLoaded, Configured, KeysKept, KeyFor, PairsKept, Writing, InOrder, MigrationsKept, RequestsKept,
        CacheAgrees, Labelled, Current, NoClear
  <2> QED
    BY <2>1, <2>2, <2>3, <2>4 DEF Next, Apart
<1> QED
  BY <1>1, <1>2, PTL DEF Spec

(* The state has its types. *)
THEOREM TypeCorrect == Spec => []TypeOK
<1>1. IInv => TypeOK
  BY TypeSplit DEF IInv
<1> QED
  BY <1>1, Inductive, PTL

(* However often a start was interrupted, one that gets past                   *)
(* EnsureSelfSignedCert has a certificate, a key and a fingerprint that belong *)
(* together and to its hostname.                                               *)
THEOREM PairAlwaysInOrder == Spec => []PairInOrder
<1>1. IInv => PairInOrder
  BY DEF IInv, PairsKept, InOrder, PairInOrder
<1> QED
  BY <1>1, Inductive, PTL

(* A token that was stored is never met by a key the program made itself: the  *)
(* key file is lost or it is the right one.                                    *)
THEOREM TokenAlwaysReadable == Spec => []TokenReadable
<1>1. IInv => TokenReadable
  <2> SUFFICES ASSUME IInv, at = "serve", ~rekeyed, db.secret # NoSecret
               PROVE  db.secret.key = encKey
    BY DEF TokenReadable
  <2>1. encKey = Configured /\ encKey \in EncKeys
    BY DEF IInv, KeyLoaded
  <2>2. conf.key = db.secret.key \/ (conf.key = None /\ enc \in {db.secret.key, Empty})
    BY DEF IInv, KeysKept, KeyFor
  <2>3. db.secret.key \in EncKeys
    BY DEF IInv, StartupType, Dbs, Secrets
  <2> QED
    BY <2>1, <2>2, <2>3, NoneAssumption DEF Configured
<1> QED
  BY <1>1, Inductive, PTL

(* The token the provider hands out is the one the database holds, whatever    *)
(* forms, failed writes and restarts there were.                               *)
THEOREM CacheAlwaysAgrees == Spec => []CacheAgrees
<1>1. IInv => CacheAgrees
  BY DEF IInv, RequestsKept
<1> QED
  BY <1>1, Inductive, PTL

(* The rate limit shown is that of the token in use once no form is under way. *)
THEOREM RateAlwaysCurrent == Spec => []RateCurrent
<1>1. IInv => RateCurrent
  BY DEF IInv, RequestsKept, Labelled, Current, NoClear, RateCurrent
<1> QED
  BY <1>1, Inductive, PTL

(* A start after which nothing was touched makes no new certificate. *)
THEOREM CertAlwaysStable == Spec => CertStable
<1>1. IInv /\ [Next]_all =>
         [at = "cert" /\ at' = "write_cert" => touched \/ conf.host \in IpHosts]_all
  <2> SUFFICES ASSUME IInv, Next, at = "cert", at' = "write_cert",
                      ~touched, conf.host \notin IpHosts
               PROVE  FALSE
    BY DEF IInv
  <2>1. CertKeyValid
    BY InOrderValid DEF IInv, PairsKept
  <2>2. ~Serving
    BY DEF Serving, GetToken, AskRateLimit, RateLimitAnswered, PostToken, SetToken,
       ClearRateLimitCache
  <2>3. ~Booting
    BY <2>1 DEF Booting, Start, LoadKey, GenerateKey, RefuseKey, KeepPair, NewPair,
       WriteCert, WriteKey, WriteFingerprint, Open, Migrate, Migrated, Listen, Exit, Step
  <2>4. ~Happening
    BY DEF Happening, WriteFails, Exit, Step, Crash, PowerLoss, Killed, Flush,
       Reconfigure, ReplaceKey, Age
  <2> QED
    BY <2>2, <2>3, <2>4 DEF Next
<1> QED
  BY <1>1, Inductive, PTL DEF Spec, CertStable

(* A start that gives up by itself has no key: interrupted migrations and      *)
(* writes of the TLS files stop no later start.                                *)
THEOREM StartAlwaysGoesThrough == Spec => StartGoesThrough
<1>1. IInv /\ [Next]_all => [Booting /\ at' = "down" => KeyLost]_all
  <2> SUFFICES ASSUME IInv, Booting, at' = "down" PROVE KeyLost
    OBVIOUS
  <2> USE DEF IInv
  <2>1. CASE RefuseKey
    BY <2>1 DEF RefuseKey, MayGenerate, KeyLost
  <2>2. CASE Migrate
    <3>1. db.version \in Nat /\ db.done \subseteq 1..db.version
      BY LatestAssumption DEF MigrationsKept, UpTo, StartupType, Dbs
    <3>2. Applicable(db.version + 1)
      BY <3>1 DEF Applicable
    <3> QED
      BY <2>2, <3>2 DEF Migrate
  <2>3. CASE Listen
    <3>1. Presentable
      BY <2>3 DEF Listen, PairsKept, InOrder, Presentable
    <3> QED
      BY <2>3, <3>1 DEF Listen
  <2> QED
    BY <2>1, <2>2, <2>3
    DEF Booting, Start, LoadKey, GenerateKey, GoOn, KeepPair, NewPair, WriteCert,
        WriteKey, WriteFingerprint, Open, Migrated, Step
<1> QED
  BY <1>1, Inductive, PTL DEF Spec, StartGoesThrough

=============================================================================
