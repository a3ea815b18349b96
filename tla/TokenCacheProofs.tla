-------------------------- MODULE TokenCacheProofs --------------------------
(* The token cache hands out live tokens, for any number of clients, any   *)
(* lifetimes and any buffer, as long as no answer is under way for longer  *)
(* than the buffer.                                                        *)
EXTENDS TokenCache, TLAPS

AnswersInTime == MaxDelay <= Buffer

(* A computed expiry is never later than the token's own, unless it has    *)
(* passed already.                                                         *)
Sound(exp, unt) ==
  /\ exp = Never <=> unt = Never
  /\ exp # Never => unt <= exp \/ unt <= now

ClientInv ==
  \A c \in Clients :
    /\ at[c] = "answer" =>
         /\ since[c] <= now /\ now <= since[c] + MaxDelay
         /\ token[c] # Never => since[c] <= token[c]
    /\ at[c] = "store" => Sound(token[c], until[c])

CacheInv == token_cache # NoCache => Sound(token_cache.expires, token_cache.until)

IInv == CacheTypeOK /\ ClientInv /\ CacheInv

LEMMA InitIInv == CacheInit => IInv
  BY CacheAssumption DEF CacheInit, IInv, CacheTypeOK, ClientInv, CacheInv, Instant

(* The expiry computed for an answer that took no longer than the buffer.  *)
LEMMA ExpirySound ==
  ASSUME AnswersInTime, now \in Nat, NEW exp \in Instant, NEW issued \in Nat,
         issued <= now, now <= issued + MaxDelay, exp # Never => issued <= exp
  PROVE  Expiry(exp, issued) \in Instant /\ Sound(exp, Expiry(exp, issued))
<1>1. CASE exp = Never
  BY <1>1 DEF Expiry, Sound, Instant
<1>2. CASE exp # Never /\ exp - issued > Buffer
  <2>1. exp \in Nat /\ Expiry(exp, issued) = now + (exp - issued - Buffer)
    BY <1>2 DEF Expiry, Instant
  <2>2. Expiry(exp, issued) \in Nat /\ Expiry(exp, issued) <= exp
    BY <1>2, <2>1, CacheAssumption DEF AnswersInTime
  <2> QED BY <2>1, <2>2, CacheAssumption DEF Sound, Instant
<1>3. CASE exp # Never /\ ~(exp - issued > Buffer)
  <2>1. Expiry(exp, issued) = now
    BY <1>3 DEF Expiry
  <2> QED BY <1>3, <2>1, CacheAssumption DEF Sound, Instant
<1> QED BY <1>1, <1>2, <1>3

LEMMA StepIInv ==
  ASSUME AnswersInTime, IInv, [CacheNext]_cacheVars
  PROVE  IInv'
<1> USE CacheAssumption
<1>t. CacheTypeOK /\ ClientInv /\ CacheInv
  BY DEF IInv
<1>1. ASSUME NEW c \in Clients, CacheHit(c) PROVE IInv'
  <2>1. token_cache \in Entry /\ token_cache.expires \in Instant
    BY <1>1, <1>t DEF CacheHit, CacheTypeOK, Entry
  <2>2. CacheTypeOK'
    BY <1>1, <1>t, <2>1 DEF CacheHit, CacheTypeOK
  <2>3. ClientInv'
    BY <1>1, <1>t DEF CacheHit, CacheTypeOK, ClientInv, Sound
  <2>4. CacheInv'
    BY <1>1, <1>t DEF CacheHit, CacheInv, Sound
  <2> QED BY <2>2, <2>3, <2>4 DEF IInv
<1>2. ASSUME NEW c \in Clients, CacheMiss(c) \/ FetchFails(c) \/ Send(c) PROVE IInv'
  <2>1. CacheTypeOK'
    BY <1>2, <1>t DEF CacheMiss, FetchFails, Send, CacheTypeOK
  <2>2. ClientInv'
    BY <1>2, <1>t DEF CacheMiss, FetchFails, Send, CacheTypeOK, ClientInv, Sound
  <2>3. CacheInv'
    BY <1>2, <1>t DEF CacheMiss, FetchFails, Send, CacheInv, Sound
  <2> QED BY <2>1, <2>2, <2>3 DEF IInv
<1>3. ASSUME NEW c \in Clients, NEW life \in Lifetimes \cup {Never}, Issue(c, life) PROVE IInv'
  <2>0. PICK exp : exp = IF life = Never THEN Never ELSE now + life
    OBVIOUS
  <2>a. exp \in Instant /\ (exp # Never => exp \in Nat /\ now <= exp)
    BY <1>3, <1>t, <2>0 DEF CacheTypeOK, Instant
  <2>b. token' = [token EXCEPT ![c] = exp]
    BY <1>3, <2>0 DEF Issue
  <2>1. /\ exp \in Instant /\ (exp # Never => exp \in Nat /\ now <= exp)
        /\ token' = [token EXCEPT ![c] = exp]
    BY <2>a, <2>b
  <2>2. CacheTypeOK'
    BY <1>3, <1>t, <2>1 DEF Issue, CacheTypeOK
  <2>3. ClientInv'
    BY <1>3, <1>t, <2>1 DEF Issue, CacheTypeOK, ClientInv, Sound
  <2>4. CacheInv'
    BY <1>3, <1>t DEF Issue, CacheInv, Sound
  <2> QED BY <2>2, <2>3, <2>4 DEF IInv
<1>4. ASSUME NEW c \in Clients, Answer(c) PROVE IInv'
  <2>1. /\ at[c] = "answer" /\ now \in Nat /\ token[c] \in Instant /\ since[c] \in Nat
        /\ since[c] <= now /\ now <= since[c] + MaxDelay
        /\ token[c] # Never => since[c] <= token[c]
    BY <1>4, <1>t DEF Answer, CacheTypeOK, ClientInv
  <2>2. PICK u \in Instant : u = Expiry(token[c], since[c]) /\ Sound(token[c], u)
    BY <2>1, ExpirySound
  <2>3. /\ until' = [until EXCEPT ![c] = u]
        /\ at' = [at EXCEPT ![c] = "store"]
        /\ UNCHANGED <<now, token_cache, since, token>>
    BY <1>4, <2>2 DEF Answer
  <2>4. CacheTypeOK'
    BY <1>t, <2>2, <2>3 DEF CacheTypeOK
  <2>5. ClientInv'
    BY <1>t, <2>2, <2>3 DEF CacheTypeOK, ClientInv, Sound
  <2>6. CacheInv'
    BY <1>t, <2>3 DEF CacheInv, Sound
  <2> QED BY <2>4, <2>5, <2>6 DEF IInv
<1>5. ASSUME NEW c \in Clients, StoreToken(c) PROVE IInv'
  <2>1. at[c] = "store" /\ token[c] \in Instant /\ until[c] \in Instant /\ Sound(token[c], until[c])
    BY <1>5, <1>t DEF StoreToken, CacheTypeOK, ClientInv
  <2>2. CacheTypeOK'
    BY <1>5, <1>t, <2>1 DEF StoreToken, CacheTypeOK, Entry
  <2>3. ClientInv'
    BY <1>5, <1>t DEF StoreToken, CacheTypeOK, ClientInv, Sound
  <2>4. CacheInv'
    BY <1>5, <2>1 DEF StoreToken, CacheInv, Sound
  <2> QED BY <2>2, <2>3, <2>4 DEF IInv
<1>6. CASE Tick
  <2>1. now' = now + 1 /\ now \in Nat /\ UNCHANGED <<token_cache, at, since, token, until>>
    BY <1>6, <1>t DEF Tick, CacheTypeOK
  <2>2. CacheTypeOK'
    BY <1>t, <2>1 DEF CacheTypeOK
  <2>3. ClientInv'
    <3>1. ASSUME NEW c \in Clients, at[c] = "answer"
          PROVE  /\ since[c] <= now + 1 /\ now + 1 <= since[c] + MaxDelay
                 /\ token[c] # Never => since[c] <= token[c]
      BY <1>6, <1>t, <2>1, <3>1 DEF Tick, ClientInv, CacheTypeOK
    <3>2. ASSUME NEW c \in Clients, at[c] = "store" PROVE Sound(token[c], until[c])'
      <4>1. Sound(token[c], until[c]) /\ token[c] \in Instant /\ until[c] \in Instant
        BY <1>t, <3>2 DEF ClientInv, CacheTypeOK
      <4> QED BY <2>1, <4>1 DEF Sound, Instant
    <3> QED BY <2>1, <3>1, <3>2 DEF ClientInv
  <2>4. CacheInv'
    <3>1. ASSUME token_cache # NoCache
          PROVE  Sound(token_cache.expires, token_cache.until)'
      <4>1. /\ Sound(token_cache.expires, token_cache.until)
            /\ token_cache.expires \in Instant /\ token_cache.until \in Instant
        BY <1>t, <3>1 DEF CacheInv, CacheTypeOK, Entry
      <4> QED BY <2>1, <4>1 DEF Sound, Instant
    <3> QED BY <2>1, <3>1 DEF CacheInv
  <2> QED BY <2>2, <2>3, <2>4 DEF IInv
<1>7. CASE UNCHANGED cacheVars
  BY <1>7, <1>t DEF cacheVars, IInv, CacheTypeOK, ClientInv, CacheInv, Sound
<1> QED BY <1>1, <1>2, <1>3, <1>4, <1>5, <1>6, <1>7 DEF CacheNext

(* The invariant holds in every behaviour.                                 *)
THEOREM Invariance ==
  ASSUME AnswersInTime
  PROVE  CacheSpec => []IInv
<1>1. CacheInit => IInv BY InitIInv
<1>2. IInv /\ [CacheNext]_cacheVars => IInv' BY StepIInv
<1> QED BY <1>1, <1>2, PTL DEF CacheSpec

(* The buffer works: if answers take no longer than the buffer, the token  *)
(* that get_token takes from the cache is one the server still accepts.    *)
THEOREM BufferSuffices ==
  ASSUME AnswersInTime
  PROVE  CacheSpec => []HandsOutLiveTokens
<1>1. ASSUME IInv PROVE HandsOutLiveTokens
  <2> SUFFICES ASSUME token_cache # NoCache, StillValid(token_cache.until),
                      token_cache.expires # Never
               PROVE  now < token_cache.expires
    BY DEF HandsOutLiveTokens
  <2>1. /\ Sound(token_cache.expires, token_cache.until)
        /\ token_cache.expires \in Nat /\ token_cache.until \in Instant /\ now \in Nat
    BY <1>1 DEF IInv, CacheInv, CacheTypeOK, Entry, Instant
  <2>2. token_cache.until \in Nat /\ now < token_cache.until
    BY <2>1 DEF Sound, StillValid, Instant
  <2> QED BY <2>1, <2>2 DEF Sound
<1> QED BY <1>1, Invariance, PTL
=============================================================================
