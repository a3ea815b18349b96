----------------------------- MODULE TokenCache -----------------------------
(***************************************************************************)
(* The OAuth2 token cache of the Iceberg REST catalog client               *)
(* (IcebergRestCatalog::get_token and get in                               *)
(* crates/semstrait-catalog/src/iceberg.rs).                               *)
(*                                                                         *)
(* Clients are tasks that share the catalog through its Arc.  The cache is *)
(* read under a read lock, the token is fetched without any lock, and the  *)
(* result is written under a write lock, so the fetches of several tasks   *)
(* overlap and end in any order.  A token is represented by the instant at *)
(* which the server stops accepting it, the only thing that tells tokens   *)
(* apart here.                                                             *)
(***************************************************************************)
EXTENDS Integers

CONSTANTS
  Clients,
  Lifetimes,   (* the values of expires_in, besides its absence            *)
  Buffer,      (* the 30 s that are subtracted                             *)
  MaxDelay,    (* how long an answer of the token server takes at most     *)
  MaxTime,     (* bound on the clock                                       *)
  Never,       (* no expires_in: no expiry is known                        *)
  NoCache

ASSUME CacheAssumption ==
  /\ Lifetimes \subseteq Nat
  /\ Buffer \in Nat /\ MaxDelay \in Nat /\ MaxTime \in Nat
  /\ Never \notin Nat
  /\ NoCache \notin [expires : Nat \cup {Never}, until : Nat \cup {Never}]

Instant == Nat \cup {Never}
Entry == [expires : Instant, until : Instant]

VARIABLES
  now,
  token_cache,
  at,          (* where each client is in get_token and get                *)
  since,       (* when the server issued the token a client waits for      *)
  token,       (* the token a client has                                   *)
  until        (* the expiry it computed for it                            *)

cacheVars == <<now, token_cache, at, since, token, until>>

CacheInit ==
  /\ now = 0
  /\ token_cache = NoCache
  /\ at = [c \in Clients |-> "idle"]
  /\ since = [c \in Clients |-> 0]
  /\ token = [c \in Clients |-> Never]
  /\ until = [c \in Clients |-> Never]

(* A slip: the last instant still counts.                                  *)
StillValidInclusive(exp) == exp # Never => now <= exp

(* expiry.is_none_or(|exp| Instant::now() < exp)                           *)
StillValid(exp) == exp # Never => now < exp

(* The check of the cache under the read lock: a valid token is returned.  *)
CacheHit(c) ==
  /\ at[c] = "idle"
  /\ token_cache # NoCache
  /\ StillValid(token_cache.until)
  /\ token' = [token EXCEPT ![c] = token_cache.expires]
  /\ at' = [at EXCEPT ![c] = "send"]
  /\ UNCHANGED <<now, token_cache, since, until>>

(* ... otherwise the lock is released and a token request is sent.         *)
CacheMiss(c) ==
  /\ at[c] = "idle"
  /\ token_cache # NoCache => ~StillValid(token_cache.until)
  /\ at' = [at EXCEPT ![c] = "fetch"]
  /\ UNCHANGED <<now, token_cache, since, token, until>>

(* The token server issues a token.                                        *)
Issue(c, life) ==
  /\ at[c] = "fetch"
  /\ since' = [since EXCEPT ![c] = now]
  /\ token' = [token EXCEPT ![c] = IF life = Never THEN Never ELSE now + life]
  /\ at' = [at EXCEPT ![c] = "answer"]
  /\ UNCHANGED <<now, token_cache, until>>

(* The request fails, is refused, or its answer does not parse.            *)
FetchFails(c) ==
  /\ at[c] \in {"fetch", "answer"}
  /\ at' = [at EXCEPT ![c] = "idle"]
  /\ UNCHANGED <<now, token_cache, since, token, until>>

(* now + expires_in.saturating_sub(30)                                     *)
Expiry(exp, issued) ==
  IF exp = Never THEN Never
  ELSE now + (IF exp - issued > Buffer THEN exp - issued - Buffer ELSE 0)

(* The answer has arrived: its expiry is computed before the write lock is *)
(* asked for.                                                              *)
Answer(c) ==
  /\ at[c] = "answer"
  /\ until' = [until EXCEPT ![c] = Expiry(token[c], since[c])]
  /\ at' = [at EXCEPT ![c] = "store"]
  /\ UNCHANGED <<now, token_cache, since, token>>

(* Whatever another client has stored meanwhile is overwritten.            *)
StoreToken(c) ==
  /\ at[c] = "store"
  /\ token_cache' = [expires |-> token[c], until |-> until[c]]
  /\ at' = [at EXCEPT ![c] = "send"]
  /\ UNCHANGED <<now, since, token, until>>

(* get sends the request with the token; its outcome leaves the cache as   *)
(* it is.                                                                  *)
Send(c) ==
  /\ at[c] = "send"
  /\ at' = [at EXCEPT ![c] = "idle"]
  /\ UNCHANGED <<now, token_cache, since, token, until>>

(* Time passes; an answer is under way for MaxDelay at most.               *)
Tick ==
  /\ now < MaxTime
  /\ \A c \in Clients : at[c] = "answer" => now < since[c] + MaxDelay
  /\ now' = now + 1
  /\ UNCHANGED <<token_cache, at, since, token, until>>

CacheNext ==
  \/ \E c \in Clients :
       \/ CacheHit(c) \/ CacheMiss(c) \/ FetchFails(c) \/ Answer(c) \/ StoreToken(c) \/ Send(c)
       \/ \E life \in Lifetimes \cup {Never} : Issue(c, life)
  \/ Tick

CacheSpec == CacheInit /\ [][CacheNext]_cacheVars

-----------------------------------------------------------------------------
(* Type invariant.                                                         *)
CacheTypeOK ==
  /\ now \in Nat
  /\ token_cache \in Entry \cup {NoCache}
  /\ at \in [Clients -> {"idle", "fetch", "answer", "store", "send"}]
  /\ since \in [Clients -> Nat]
  /\ token \in [Clients -> Instant]
  /\ until \in [Clients -> Instant]

(* "subtract 30s buffer so we refresh before actual expiry": the token the *)
(* cache would hand out now is one the server still accepts, in whatever   *)
(* order overlapping fetches ended and overwrote each other, and for the   *)
(* tokens that live shorter than the buffer too.                           *)
HandsOutLiveTokens ==
  token_cache # NoCache /\ StillValid(token_cache.until) /\ token_cache.expires # Never =>
    now < token_cache.expires
=============================================================================
