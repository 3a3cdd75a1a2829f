------------------------------- MODULE Process -------------------------------
(* The process that Startup has brought up: the token it keeps encrypted in    *)
(* the database and decrypted in memory (dbtokenprovider.go), the forms that   *)
(* replace it, and the cached answer about its rate limit (handlers.go).  All  *)
(* that is in memory goes with the process.                                    *)
EXTENDS Startup

CONSTANTS
    Forms,      \* requests that store a token
    Asking      \* one that asks for the rate limit


VARIABLES
    cache,      \* the provider's cache
    pc,         \* where each request is
    given,      \* the token a form brought
    rate,       \* whose rate limit is cached
    asked,      \* whose rate limit GitHub is being asked for
    posts       \* bound: how many forms have been sent

tokens == <<cache, pc, given, rate, asked>>
all    == <<vars, tokens, posts>>

Unread == "unread"

ASSUME AskingAssumption == Asking \notin Forms /\ IsFiniteSet(Forms)
ASSUME UnreadAssumption == Unread \notin Tokens \cup {None}

(* What a row of secrets decrypts to under k: None when there is no row, the   *)
(* empty set when the key is another.                                          *)
Decrypt(s, k) == IF s = NoSecret THEN {None}
                 ELSE {t \in {s.token} : s.key = k}

(* GetToken: the cache, or what the row decrypts to, which is cached. *)
Readable == IF cache # Unread THEN {cache} ELSE Decrypt(db.secret, encKey)

Quiet == UNCHANGED vars

-----------------------------------------------------------------------------

(* Any caller of GetToken. *)
GetToken ==
    /\ at = "serve"
    /\ cache' \in Readable
    /\ Quiet /\ UNCHANGED <<pc, given, rate, asked, posts>>

(* GitHub has accepted the new token. *)
PostToken(h) ==
    /\ at = "serve" /\ pc[h] = "idle" /\ posts > 0
    /\ pc' = [pc EXCEPT ![h] = "set"]
    /\ \E t \in Tokens : given' = [given EXCEPT ![h] = t]
    /\ posts' = posts - 1
    /\ Quiet /\ UNCHANGED <<cache, rate, asked>>

(* Mutation: the cache is written before the row is. *)
Cached_First(h) == {given[h]}

(* The cache after the row could not be written. *)
Cached(h) == {cache}

(* SetToken, under the provider's mutex. *)
SetToken(h) ==
    /\ at = "serve" /\ pc[h] = "set"
    /\ \/ /\ db' = [db EXCEPT !.secret = [token |-> given[h], key |-> encKey]]
          /\ cache' = given[h]
          /\ pc' = [pc EXCEPT ![h] = "clear"]
          /\ Calm
       \/ /\ cache' \in Cached(h)
          /\ pc' = [pc EXCEPT ![h] = "idle"]
          /\ Event /\ UNCHANGED db
    /\ UNCHANGED <<at, conf, files, unsynced, kept, memory, history, given, rate, asked, posts>>

(* Mutation: the mutex is not held while GitHub is asked. *)
Unlocked_Always == TRUE

(* rateLimitMu is held from the look at the cache to the answer of GitHub. *)
Unlocked == pc[Asking] = "idle"

ClearRateLimitCache(h) ==
    /\ at = "serve" /\ pc[h] = "clear" /\ Unlocked
    /\ rate' = None
    /\ pc' = [pc EXCEPT ![h] = "idle"]
    /\ Quiet /\ UNCHANGED <<cache, given, asked, posts>>

(* getRateLimit: with a token, GitHub is asked when nothing is cached, or what *)
(* is has become old.                                                          *)
AskRateLimit ==
    /\ at = "serve" /\ pc[Asking] = "idle"
    /\ \E t \in Readable : /\ cache' = t
                           /\ t # None
                           /\ asked' = t
    /\ pc' = [pc EXCEPT ![Asking] = "asking"]
    /\ Quiet /\ UNCHANGED <<given, rate, posts>>

(* The answer, or none. *)
RateLimitAnswered ==
    /\ at = "serve" /\ pc[Asking] = "asking"
    /\ rate' \in {rate, asked} /\ asked' = None
    /\ pc' = [pc EXCEPT ![Asking] = "idle"]
    /\ Quiet /\ UNCHANGED <<cache, given, posts>>

Nobody == /\ cache' = Unread /\ rate' = None /\ asked' = None
          /\ pc' = [h \in Forms \cup {Asking} |-> "idle"]
          /\ given' = [h \in Forms |-> None]

-----------------------------------------------------------------------------

ProcessInit ==
    /\ Init
    /\ cache = Unread /\ rate = None /\ asked = None
    /\ pc = [h \in Forms \cup {Asking} |-> "idle"]
    /\ given = [h \in Forms |-> None]
    /\ posts \in 1..Cardinality(Forms)

Serving ==
    \/ GetToken \/ AskRateLimit \/ RateLimitAnswered
    \/ \E h \in Forms : PostToken(h) \/ SetToken(h) \/ ClearRateLimitCache(h)

Next ==
    \/ Serving
    \/ Booting /\ UNCHANGED <<tokens, posts>>
    \/ Happening /\ (IF at' = "down" THEN Nobody ELSE UNCHANGED tokens) /\ UNCHANGED posts

Spec == ProcessInit /\ [][Next]_all

(* Docker starts the process again, and a start goes on. *)
FairSpec == Spec /\ WF_all(Booting /\ UNCHANGED <<tokens, posts>>)

-----------------------------------------------------------------------------
(* Properties.                                                                 *)

(* The types of the state. *)
TypeOK ==
    /\ at \in Labels /\ conf \in Confs /\ enc \in EncKeys \cup {None, Empty}
    /\ cert \in Certs /\ tlsKey \in TlsKeys \cup {None} /\ fp \in TlsKeys \cup {None, Empty}
    /\ db \in Dbs /\ kept \in Dbs /\ unsynced \subseteq {"enc", "fp"}
    /\ encKey \in EncKeys \cup {None} /\ made \in TlsKeys \cup {None} /\ served \in Certs
    /\ events \in 0..MaxEvents /\ touched \in BOOLEAN /\ rekeyed \in BOOLEAN
    /\ cache \in Tokens \cup {None, Unread}
    /\ pc \in [Forms \cup {Asking} -> {"idle", "set", "clear", "asking"}]
    /\ given \in [Forms -> Tokens \cup {None}] /\ posts \in 0..Cardinality(Forms)
    /\ rate \in Tokens \cup {None} /\ asked \in Tokens \cup {None}

(* A start that goes on from EnsureSelfSignedCert has a certificate and a key  *)
(* that belong together, a fingerprint of that key, and a certificate that     *)
(* names the host and is not out of date, whatever write was interrupted       *)
(* before.  A hostname that is an address is not asked about.                  *)
PairInOrder ==
    at \in {"open", "migrate", "listen"} /\ conf.tls =>
        /\ cert.key # None /\ tlsKey = cert.key /\ fp = cert.key /\ cert.fresh
        /\ conf.host \in IpHosts \/ HostnameCovered(conf.host, cert)

(* No silent key rotation: what is stored under one key is never met by        *)
(* another, unless the operator gave that one.                                 *)
TokenReadable ==
    at = "serve" /\ ~rekeyed /\ db.secret # NoSecret => db.secret.key = encKey

(* The provider's cache is what a new process would read from the database. *)
CacheAgrees ==
    cache # Unread => (at = "serve" /\ (cache = None => db.secret = NoSecret)
                         /\ (cache # None => db.secret = [token |-> cache, key |-> encKey]))

(* When no form is between SetToken and clearRateLimitCache, the rate limit    *)
(* that is shown is that of the token in use: the next status request reflects *)
(* the new token's quota instead of a stale entry from the previous identity.  *)
RateCurrent ==
    rate # None /\ (\A h \in Forms : pc[h] # "clear") => rate = cache

(* A start that finds nothing changed keeps the certificate that browsers have *)
(* been told to trust: what EnsureSelfSignedCert writes, certKeyValid accepts. *)
(* It does not for a hostname that is an address.                              *)
CertStable ==
    [][at = "cert" /\ at' = "write_cert" => touched \/ conf.host \in IpHosts]_all

(* The key cannot be had: ENCRYPTION_KEY is not set, and the file is gone or   *)
(* empty although there is a database.                                         *)
KeyLost == Configured \notin EncKeys /\ db.exists

(* A start gives up by itself, and Docker begins one after the other, only     *)
(* when the key is lost: whatever was interrupted before, each migration that  *)
(* it finds to do can be done, and the pair of TLS files can be presented.     *)
StartGoesThrough == [][Booting /\ at' = "down" => KeyLost]_all

(* Whatever was interrupted, and however often, the process in the end listens *)
(* again, but for a key that is lost.                                          *)
UpAgain == <>[](at = "serve" \/ KeyLost)

=============================================================================
