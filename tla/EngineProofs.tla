---------------------------- MODULE EngineProofs ----------------------------
(***************************************************************************)
(* What holds of every decision, for any keys, any size and time to live   *)
(* of the cache and any failures of the calls: it fits its key, it is not  *)
(* stale, the cache stays within its size, errors and back-offs are what   *)
(* they are said to be, and the costs on file are true.                    *)
(***************************************************************************)
EXTENDS Metering, FiniteSetTheorems, TLAPS

-----------------------------------------------------------------------------
(* The inductive invariant.                                                *)

\* An entry is kept under the key its decision was made for, and is as old as
\* its decision.
CacheInv ==
  /\ cache \in [DOMAIN cache -> Entry]
  /\ IsFiniteSet(DOMAIN cache)
  /\ \A k \in DOMAIN cache :
       cache[k].for = k /\ cache[k].at = cache[k].made /\ cache[k].made <= now

\* A request in progress has no outcome yet; its failed calls are those of the
\* tries before this one, and the flags are about all of them.
CallInv ==
  /\ pc # "idle" => outcome = Nothing
  /\ pc \in {"lookup", "ask"} => Len(seen) = try - 1
  /\ pc = "backoff" => Len(seen) = try /\ try < MaxTries
  /\ isTimeout = Met("timeout")
  /\ isRateLimit = Met("rate")

EngineInv ==
  /\ TypeOK /\ CacheInv /\ CallInv
  /\ DecisionFitsKey /\ ServedFresh /\ CacheBounded
  /\ ErrorNamesWorst /\ BackoffAtLeast

-----------------------------------------------------------------------------
(* The cache.                                                              *)

\* Removing entries keeps the cache what it is.
LEMMA WithoutCache ==
  ASSUME TypeOK, CacheInv, NEW ks
  PROVE  LET old == Without(ks) IN
         /\ DOMAIN old = DOMAIN cache \ ks
         /\ old \in [DOMAIN old -> Entry]
         /\ \A k \in DOMAIN old : old[k] = cache[k]
         /\ IsFiniteSet(DOMAIN old)
         /\ Cardinality(DOMAIN old) <= Cardinality(DOMAIN cache)
<1>. DEFINE old == Without(ks)
<1>1. DOMAIN old = DOMAIN cache \ ks /\ \A k \in DOMAIN old : old[k] = cache[k]
  BY DEF Without
<1>2. old \in [DOMAIN old -> Entry]
  BY <1>1 DEF CacheInv, Without
<1>3. IsFiniteSet(DOMAIN old) /\ Cardinality(DOMAIN old) <= Cardinality(DOMAIN cache)
  BY <1>1, FS_Subset DEF CacheInv
<1>. QED
  BY <1>1, <1>2, <1>3

\* Storing an entry over `old`, a part of the cache.
LEMMA PutCache ==
  ASSUME TypeOK, CacheInv, NEW old, Put(old),
         DOMAIN old \subseteq DOMAIN cache,
         \A k \in DOMAIN old : old[k] = cache[k],
         key \in DOMAIN old \/ Cardinality(DOMAIN old) < MaxSize,
         Cardinality(DOMAIN cache) <= MaxSize, UNCHANGED now
  PROVE  /\ CacheInv'
         /\ DOMAIN cache' \subseteq Keys
         /\ Cardinality(DOMAIN cache') <= MaxSize
<1>1. DOMAIN cache' = DOMAIN old \cup {key}
  BY DEF Put
<1>2. IsFiniteSet(DOMAIN old) /\ Cardinality(DOMAIN old) <= Cardinality(DOMAIN cache)
      /\ Cardinality(DOMAIN old) \in Nat /\ Cardinality(DOMAIN cache) \in Nat
  BY FS_Subset, FS_CardinalityType DEF CacheInv
<1>3. /\ IsFiniteSet(DOMAIN old \cup {key})
      /\ Cardinality(DOMAIN old \cup {key}) =
           IF key \in DOMAIN old THEN Cardinality(DOMAIN old)
                                 ELSE Cardinality(DOMAIN old) + 1
  BY <1>2, FS_AddElement
<1>4. Cardinality(DOMAIN cache') <= MaxSize
  BY <1>1, <1>2, <1>3, EngineAssumption
<1>5. ASSUME NEW k \in DOMAIN cache'
      PROVE  /\ cache'[k] \in Entry /\ cache'[k].for = k
             /\ cache'[k].at = cache'[k].made /\ cache'[k].made <= now
  <2>1. CASE k = key
    <3>1. cache'[k] = [for |-> key, at |-> now, made |-> now, used |-> now]
      BY <1>1, <2>1 DEF Put
    <3>. QED
      BY <2>1, <3>1 DEF TypeOK, Entry
  <2>2. CASE k # key
    <3>1. k \in DOMAIN old /\ cache'[k] = cache[k] /\ k \in DOMAIN cache
      BY <1>1, <2>2 DEF Put
    <3>. QED
      BY <3>1 DEF TypeOK, CacheInv
  <2>. QED
    BY <2>1, <2>2
<1>6. cache' \in [DOMAIN cache' -> Entry]
  <2>1. cache' = [k \in DOMAIN cache' |-> cache'[k]]
    BY DEF Put
  <2>. QED
    BY <1>5, <2>1
<1>7. DOMAIN cache' \subseteq Keys
  BY <1>1 DEF TypeOK
<1>. QED
  BY <1>1, <1>3, <1>4, <1>5, <1>6, <1>7 DEF CacheInv

-----------------------------------------------------------------------------
(* The invariant is kept, action by action.                                *)

LEMMA OutcomeTypes ==
  LET T == [kind : {"nothing", "raised", "decision"},
            error : {"none", "parse"} \cup Failed,
            cached : BOOLEAN, for : SUBSET Keys, age : Nat] IN
  /\ Nothing \in T
  /\ \A err \in {"parse"} \cup Failed : Raised(err) \in T
  /\ \A k \in Keys, n \in Nat, b \in BOOLEAN : Returned({k}, n, b) \in T
BY DEF Nothing, Raised, Returned

\* No call has failed in a new request.
LEMMA NoneMet == ASSUME NEW a, seen' = <<>> PROVE Met(a)' = FALSE
<1>1. DOMAIN seen' = {}
  OBVIOUS
<1>. QED
  BY <1>1 DEF Met

LEMMA RequestStep ==
  ASSUME EngineInv, NEW k \in Keys, NEW c \in BOOLEAN, Request(k, c)
  PROVE  EngineInv'
<1>. USE DEF EngineInv, Request
<1>1. TypeOK'
  <2>1. seen' = <<>> /\ seen' \in Seq(Failed) /\ try' = 1 /\ 1 \in 1 .. MaxTries
    BY EngineAssumption
  <2>2. outcome' = Nothing
    OBVIOUS
  <2>. QED
    BY <2>1, <2>2, OutcomeTypes DEF TypeOK
<1>2. CacheInv'
  BY DEF CacheInv
<1>3. CallInv'
  <2>1. Met("timeout")' = FALSE /\ Met("rate")' = FALSE
    BY NoneMet
  <2>2. seen' = <<>> /\ try' = 1 /\ pc' \in {"lookup", "ask"} /\ Len(<<>>) = 1 - 1
    OBVIOUS
  <2>3. (isTimeout' = Met("timeout")') /\ (isRateLimit' = Met("rate")')
    BY <2>1
  <2>. QED
    BY <2>2, <2>3 DEF CallInv
<1>4. outcome' = Nothing /\ pc' \in {"lookup", "ask"} /\ cache' = cache
  OBVIOUS
<1>5. DecisionFitsKey' /\ ServedFresh' /\ CacheBounded' /\ ErrorNamesWorst'
      /\ BackoffAtLeast'
  BY <1>4 DEF DecisionFitsKey, ServedFresh, CacheBounded, ErrorNamesWorst,
     BackoffAtLeast, Nothing
<1>. QED
  BY <1>1, <1>2, <1>3, <1>5

\* A step that leaves the calls alone keeps what is said of them.
LEMMA CallsKept ==
  ASSUME CallInv, ErrorNamesWorst, UNCHANGED callVars
  PROVE  /\ isTimeout' = Met("timeout")' /\ isRateLimit' = Met("rate")'
         /\ (Met("timeout")' <=> Met("timeout")) /\ (Met("rate")' <=> Met("rate"))
BY DEF CallInv, Met, callVars

LEMMA LookupStep ==
  ASSUME EngineInv, Lookup
  PROVE  EngineInv'
<1>. USE DEF EngineInv
<1>0. /\ pc = "lookup" /\ outcome = Nothing /\ UNCHANGED <<now, callVars>>
      /\ Len(seen) = try - 1
  BY DEF Lookup, CallInv
<1>1. CASE Found = {} /\ pc' = "ask" /\ UNCHANGED <<cache, outcome>>
  BY <1>0, <1>1, CallsKept DEF callVars, TypeOK, CacheInv, CallInv, DecisionFitsKey,
     ServedFresh, CacheBounded, ErrorNamesWorst, BackoffAtLeast, Nothing
<1>2. ASSUME NEW k \in Found, cache' = Without({k}), pc' = "ask", UNCHANGED outcome
      PROVE  EngineInv'
  <2>1. /\ DOMAIN cache' = DOMAIN cache \ {k}
        /\ cache' \in [DOMAIN cache' -> Entry]
        /\ \A j \in DOMAIN cache' : cache'[j] = cache[j]
        /\ IsFiniteSet(DOMAIN cache')
        /\ Cardinality(DOMAIN cache') <= Cardinality(DOMAIN cache)
    BY <1>2, WithoutCache
  <2>2. Cardinality(DOMAIN cache') \in Nat /\ Cardinality(DOMAIN cache) \in Nat
    BY <2>1, FS_CardinalityType DEF CacheInv
  <2>3. CacheBounded'
    BY <2>1, <2>2, EngineAssumption DEF CacheBounded
  <2>4. CacheInv'
    BY <1>0, <2>1 DEF CacheInv
  <2>5. TypeOK'
    BY <1>0, <1>2, <2>1 DEF TypeOK, callVars
  <2>6. CallInv'
    BY <1>0, <1>2, CallsKept DEF CallInv, callVars
  <2>. QED
    BY <1>0, <1>2, <2>3, <2>4, <2>5, <2>6 DEF DecisionFitsKey, ServedFresh,
       ErrorNamesWorst, BackoffAtLeast, Nothing
<1>3. ASSUME NEW k \in Found, ~ Expired(cache[k]),
             cache' = [cache EXCEPT ![k].used = now],
             outcome' = Returned({cache[k].for}, now - cache[k].at, TRUE),
             pc' = "idle"
      PROVE  EngineInv'
  <2>1. k \in DOMAIN cache /\ k = key /\ cache[k].for = k /\ k \in Keys
    <3>1. k \in DOMAIN cache /\ k[1] = key[1] /\ k[2] = key[2]
      BY DEF Found, Matches
    <3>2. k \in Keys /\ key \in Keys
      BY <3>1 DEF TypeOK
    <3>. QED
      BY <3>1, <3>2 DEF Keys, CacheInv
  <2>2. /\ cache[k] \in Entry /\ now \in Nat
        /\ cache[k].at = cache[k].made /\ cache[k].made <= now
    BY <2>1 DEF CacheInv, TypeOK
  <2>3. /\ DOMAIN cache' = DOMAIN cache
        /\ cache' \in [DOMAIN cache' -> Entry]
        /\ \A j \in DOMAIN cache : /\ cache'[j].for = cache[j].for
                                   /\ cache'[j].at = cache[j].at
                                   /\ cache'[j].made = cache[j].made
    BY <1>3, <2>1, <2>2 DEF CacheInv, Entry
  <2>4. CacheInv'
    BY <1>0, <2>3 DEF CacheInv
  <2>5. now - cache[k].at \in Nat /\ (TTL > 0 => now - cache[k].at <= TTL)
    BY <1>3, <2>2, EngineAssumption DEF Expired, Entry
  <2>6. TypeOK'
    <3>1. outcome' = Returned({k}, now - cache[k].at, TRUE)
      BY <1>3, <2>1
    <3>2. outcome' \in [kind : {"nothing", "raised", "decision"},
                        error : {"none", "parse"} \cup Failed,
                        cached : BOOLEAN, for : SUBSET Keys, age : Nat]
      BY <2>1, <2>5, <3>1, OutcomeTypes
    <3>. QED
      BY <1>0, <1>3, <2>3, <3>2 DEF TypeOK, callVars
  <2>7. CallInv'
    BY <1>0, <1>3, CallsKept DEF CallInv
  <2>8. DecisionFitsKey' /\ ServedFresh' /\ ErrorNamesWorst'
    BY <1>0, <1>3, <2>1, <2>5 DEF DecisionFitsKey, ServedFresh, ErrorNamesWorst,
       Returned, callVars
  <2>. QED
    BY <1>3, <2>3, <2>4, <2>6, <2>7, <2>8 DEF CacheBounded, BackoffAtLeast
<1>. QED
  BY <1>1, <1>2, <1>3 DEF Lookup

LEMMA StoreStep ==
  ASSUME EngineInv, Store
  PROVE  EngineInv'
<1>. USE DEF EngineInv
<1>0. /\ pc = "store" /\ outcome = Nothing /\ UNCHANGED <<now, callVars>>
      /\ outcome' = Returned({key}, 0, FALSE) /\ pc' = "idle"
      /\ Cardinality(DOMAIN cache) \in Nat
  BY FS_CardinalityType DEF Store, CallInv, CacheInv
<1>1. CacheInv' /\ DOMAIN cache' \subseteq Keys /\ CacheBounded'
  <2>1. ASSUME NEW v \in DOMAIN cache, key \notin DOMAIN cache, Put(Without({v}))
        PROVE  CacheInv' /\ DOMAIN cache' \subseteq Keys /\ CacheBounded'
    <3>. DEFINE old == Without({v})
    <3>1. /\ DOMAIN old = DOMAIN cache \ {v}
          /\ \A k \in DOMAIN old : old[k] = cache[k]
      BY WithoutCache
    <3>2. Cardinality(DOMAIN cache \ {v}) = Cardinality(DOMAIN cache) - 1
      BY FS_RemoveElement DEF CacheInv
    <3>3. Cardinality(DOMAIN old) < MaxSize
      BY <1>0, <3>1, <3>2, EngineAssumption DEF CacheBounded
    <3>. HIDE DEF old
    <3>. QED
      BY <1>0, <2>1, <3>1, <3>3, PutCache DEF CacheBounded, old
  <2>2. ASSUME ~ Full \/ key \in DOMAIN cache, Put(cache)
        PROVE  CacheInv' /\ DOMAIN cache' \subseteq Keys /\ CacheBounded'
    <3>1. key \in DOMAIN cache \/ Cardinality(DOMAIN cache) < MaxSize
      BY <1>0, <2>2, EngineAssumption DEF Full
    <3>. QED
      BY <1>0, <2>2, <3>1, PutCache DEF CacheBounded
  <2>. QED
    BY <2>1, <2>2 DEF Store, Victims
<1>2. TypeOK'
  <2>1. \A k \in DOMAIN cache' : cache'[k] \in Entry
    BY <1>1 DEF CacheInv
  <2>2. Returned({key}, 0, FALSE) \in
          [kind : {"nothing", "raised", "decision"},
           error : {"none", "parse"} \cup Failed,
           cached : BOOLEAN, for : SUBSET Keys, age : Nat]
    BY OutcomeTypes DEF TypeOK
  <2>. QED
    BY <1>0, <1>1, <2>1, <2>2 DEF TypeOK, callVars
<1>3. CallInv'
  BY <1>0, CallsKept DEF CallInv
<1>4. DecisionFitsKey' /\ ServedFresh' /\ ErrorNamesWorst' /\ BackoffAtLeast'
  BY <1>0 DEF DecisionFitsKey, ServedFresh, ErrorNamesWorst, BackoffAtLeast,
     Returned, callVars
<1>. QED
  BY <1>1, <1>2, <1>3, <1>4

LEMMA InvalidateStep ==
  ASSUME EngineInv, Invalidate
  PROVE  EngineInv'
<1>. USE DEF EngineInv
<1>1. PICK ks : cache' = Without(ks)
  BY DEF Invalidate
<1>2. pc = "idle" /\ UNCHANGED <<now, pc, callVars, outcome>>
  BY DEF Invalidate
<1>3. /\ DOMAIN cache' = DOMAIN cache \ ks
      /\ cache' \in [DOMAIN cache' -> Entry]
      /\ \A j \in DOMAIN cache' : cache'[j] = cache[j]
      /\ IsFiniteSet(DOMAIN cache')
      /\ Cardinality(DOMAIN cache') <= Cardinality(DOMAIN cache)
  BY <1>1, WithoutCache
<1>4. Cardinality(DOMAIN cache') \in Nat /\ Cardinality(DOMAIN cache) \in Nat
  BY <1>3, FS_CardinalityType DEF CacheInv
<1>5. CacheBounded' /\ CacheInv'
  BY <1>2, <1>3, <1>4, EngineAssumption DEF CacheBounded, CacheInv
<1>6. TypeOK'
  BY <1>2, <1>3 DEF TypeOK, callVars
<1>7. CallInv'
  BY <1>2, CallsKept DEF CallInv, callVars
<1>8. ErrorNamesWorst'
  BY <1>2, CallsKept DEF ErrorNamesWorst, callVars, CallInv
<1>. QED
  BY <1>2, <1>5, <1>6, <1>7, <1>8 DEF DecisionFitsKey, ServedFresh,
     BackoffAtLeast, callVars

\* One more call has failed, with kind `a`.
LEMMA MetStep ==
  ASSUME TypeOK, NEW a \in Failed, seen' = Append(seen, a), NEW b
  PROVE  Met(b)' <=> (Met(b) \/ a = b)
<1>1. Len(seen) \in Nat /\ DOMAIN seen = 1 .. Len(seen)
  BY DEF TypeOK
<1>2. /\ DOMAIN seen' = 1 .. Len(seen) + 1
      /\ \A i \in 1 .. Len(seen) : seen'[i] = seen[i]
      /\ seen'[Len(seen) + 1] = a
  BY DEF TypeOK
<1>3. 1 .. Len(seen) + 1 = (1 .. Len(seen)) \cup {Len(seen) + 1}
  BY <1>1
<1>. QED
  BY <1>1, <1>2, <1>3 DEF Met

LEMMA DelayBound ==
  ASSUME NEW n \in 1 .. 3, NEW limited \in BOOLEAN,
         NEW hint \in {{}} \cup {{h} : h \in Hints}
  PROVE  Delay(n, limited, hint) \in Nat /\ Delay(n, limited, hint) >= Backoffs[n]
<1>1. Backoffs[n] \in Nat /\ 6 * n \in Nat
  BY DEF Backoffs
<1>2. hint # {} => (CHOOSE h \in hint : TRUE) + 2 \in Nat
  <2>1. hint # {} => (CHOOSE h \in hint : TRUE) \in Hints
    OBVIOUS
  <2>. QED
    BY <2>1, EngineAssumption
<1>3. \A i, j \in Nat : Larger(i, j) \in Nat /\ Larger(i, j) >= j /\ Larger(i, j) >= i
  BY DEF Larger
<1>4. CASE ~ limited
  BY <1>1, <1>4 DEF Delay
<1>5. CASE limited /\ hint = {}
  <2>1. Delay(n, limited, hint) = Larger(Backoffs[n], 6 * n)
    BY <1>5 DEF Delay
  <2>. QED
    BY <1>1, <1>3, <2>1
<1>6. CASE limited /\ hint # {}
  <2>1. Delay(n, limited, hint) = Larger((CHOOSE h \in hint : TRUE) + 2, Backoffs[n])
    BY <1>6 DEF Delay
  <2>. QED
    BY <1>1, <1>2, <1>3, <1>6, <2>1
<1>. QED
  BY <1>4, <1>5, <1>6

LEMMA CallFailsStep ==
  ASSUME EngineInv, NEW a \in Failed, NEW hint \in {{}} \cup {{h} : h \in Hints},
         CallFails(a, hint)
  PROVE  EngineInv'
<1>. USE DEF EngineInv
<1>0. /\ pc = "ask" /\ outcome = Nothing /\ Len(seen) = try - 1
      /\ UNCHANGED <<now, cache, key, useCache, try>>
      /\ seen' = Append(seen, a) /\ try \in 1 .. MaxTries
  BY DEF CallFails, CallInv, TypeOK
<1>1. /\ seen' \in Seq(Failed) /\ Len(seen') = try
  BY <1>0, EngineAssumption DEF TypeOK
<1>2. /\ isTimeout' \in BOOLEAN /\ isRateLimit' \in BOOLEAN
      /\ isTimeout' <=> (isTimeout \/ a = "timeout")
      /\ isRateLimit' <=> (isRateLimit \/ a = "rate")
  BY DEF CallFails, Flag, TypeOK
<1>3. (isTimeout' <=> Met("timeout")') /\ (isRateLimit' <=> Met("rate")')
  BY <1>0, <1>2, MetStep DEF CallInv
<1>4. (isTimeout' = Met("timeout")') /\ (isRateLimit' = Met("rate")')
  BY <1>2, <1>3 DEF Met
<1>5. CacheInv' /\ CacheBounded'
  BY <1>0 DEF CacheInv, CacheBounded
<1>6. CASE LastTry /\ outcome' = Raised(ErrorKind(isTimeout', isRateLimit'))
           /\ pc' = "idle" /\ UNCHANGED delay
  <2>1. Len(seen') = MaxTries
    BY <1>0, <1>1, <1>6, EngineAssumption DEF LastTry
  <2>2. ErrorKind(isTimeout', isRateLimit') =
          IF Met("timeout")' THEN "timeout"
          ELSE IF Met("rate")' THEN "rate" ELSE "error"
    BY <1>3 DEF ErrorKind
  <2>3. ErrorKind(isTimeout', isRateLimit') \in Failed
    BY DEF ErrorKind, Failed
  <2>4. /\ outcome'.kind = "raised" /\ ~ outcome'.cached
        /\ outcome'.error = ErrorKind(isTimeout', isRateLimit')
    BY <1>6 DEF Raised
  <2>5. ErrorNamesWorst'
    BY <2>1, <2>2, <2>4 DEF ErrorNamesWorst
  <2>6. TypeOK'
    <3>1. outcome' \in [kind : {"nothing", "raised", "decision"},
                        error : {"none", "parse"} \cup Failed,
                        cached : BOOLEAN, for : SUBSET Keys, age : Nat]
      BY <1>6, <2>3, OutcomeTypes
    <3>. QED
      BY <1>0, <1>1, <1>2, <1>6, <3>1 DEF TypeOK
  <2>7. CallInv'
    BY <1>4, <1>6 DEF CallInv
  <2>. QED
    BY <1>5, <1>6, <2>4, <2>5, <2>6, <2>7 DEF DecisionFitsKey, ServedFresh,
       BackoffAtLeast
<1>7. CASE ~ LastTry /\ delay' = Delay(try, isRateLimit', hint)
           /\ pc' = "backoff" /\ UNCHANGED outcome
  <2>1. try \in 1 .. 3 /\ try < MaxTries
    BY <1>0, <1>7, EngineAssumption DEF LastTry
  <2>2. delay' \in Nat /\ delay' >= Backoffs[try]
    BY <1>2, <1>7, <2>1, DelayBound
  <2>3. TypeOK'
    BY <1>0, <1>1, <1>2, <1>7, <2>2 DEF TypeOK
  <2>4. CallInv'
    BY <1>0, <1>1, <1>4, <1>7, <2>1 DEF CallInv
  <2>5. BackoffAtLeast'
    BY <1>0, <2>2 DEF BackoffAtLeast, Backoffs
  <2>. QED
    BY <1>0, <1>5, <1>7, <2>3, <2>4, <2>5 DEF DecisionFitsKey, ServedFresh,
       ErrorNamesWorst, Nothing
<1>. QED
  BY <1>6, <1>7 DEF CallFails

LEMMA BackoffStep ==
  ASSUME EngineInv, Backoff
  PROVE  EngineInv'
<1>. USE DEF EngineInv
<1>1. /\ pc = "backoff" /\ pc' = "ask" /\ outcome = Nothing /\ try < MaxTries
      /\ Len(seen) = try /\ try' = try + 1
      /\ UNCHANGED <<now, cache, key, useCache, isTimeout, isRateLimit, delay,
                     outcome, seen>>
  BY DEF Backoff, CallInv
<1>2. try' \in 1 .. MaxTries /\ Len(seen') = try' - 1
  BY <1>1, EngineAssumption DEF TypeOK
<1>3. TypeOK'
  BY <1>1, <1>2 DEF TypeOK
<1>4. CallInv'
  BY <1>1, <1>2 DEF CallInv, Met
<1>. QED
  BY <1>1, <1>3, <1>4 DEF CacheInv, CacheBounded, DecisionFitsKey, ServedFresh,
     ErrorNamesWorst, BackoffAtLeast, Nothing

LEMMA AnswerStep ==
  ASSUME EngineInv, CallAnswers
  PROVE  EngineInv'
<1>. USE DEF EngineInv
<1>1. /\ pc = "ask" /\ pc' = "parse" /\ outcome = Nothing
      /\ UNCHANGED <<now, cache, callVars, outcome>>
  BY DEF CallAnswers, CallInv
<1>2. TypeOK'
  BY <1>1 DEF TypeOK, callVars
<1>3. CallInv'
  BY <1>1, CallsKept DEF CallInv
<1>. QED
  BY <1>1, <1>2, <1>3 DEF CacheInv, CacheBounded, DecisionFitsKey, ServedFresh,
     ErrorNamesWorst, BackoffAtLeast, Nothing, callVars

LEMMA ParseStep ==
  ASSUME EngineInv, ParseDecision
  PROVE  EngineInv'
<1>. USE DEF EngineInv
<1>1. pc = "parse" /\ outcome = Nothing /\ UNCHANGED <<now, cache, callVars>>
  BY DEF ParseDecision, CallInv
<1>2. \/ outcome' = Raised("parse") /\ pc' = "idle"
      \/ pc' = "store" /\ UNCHANGED outcome
      \/ outcome' = Returned({key}, 0, FALSE) /\ pc' = "idle"
  BY DEF ParseDecision
<1>3. TypeOK'
  <2>. DEFINE T == [kind : {"nothing", "raised", "decision"},
                    error : {"none", "parse"} \cup Failed,
                    cached : BOOLEAN, for : SUBSET Keys, age : Nat]
  <2>1. outcome' \in T
    <3>1. /\ outcome \in T /\ Raised("parse") \in T
          /\ Returned({key}, 0, FALSE) \in T
      BY OutcomeTypes DEF TypeOK
    <3>. HIDE DEF T
    <3>. QED
      BY <1>2, <3>1
  <2>. QED
    BY <1>1, <1>2, <2>1 DEF TypeOK, callVars
<1>4. CallInv'
  BY <1>1, <1>2, CallsKept DEF CallInv
<1>5. DecisionFitsKey' /\ ServedFresh' /\ ErrorNamesWorst' /\ BackoffAtLeast'
  BY <1>1, <1>2 DEF DecisionFitsKey, ServedFresh, ErrorNamesWorst, BackoffAtLeast,
     Nothing, Raised, Returned, callVars
<1>. QED
  BY <1>1, <1>3, <1>4, <1>5 DEF CacheInv, CacheBounded

LEMMA TickStep ==
  ASSUME EngineInv, Tick
  PROVE  EngineInv'
<1>. USE DEF EngineInv
<1>1. now' = now + 1 /\ now \in Nat /\ UNCHANGED <<cache, pc, callVars, outcome>>
  BY DEF Tick, TypeOK
<1>2. TypeOK'
  BY <1>1 DEF TypeOK, callVars
<1>3. CacheInv'
  <2>1. \A k \in DOMAIN cache : cache[k].made <= now + 1
    BY <1>1 DEF CacheInv, Entry
  <2>. QED
    BY <1>1, <2>1 DEF CacheInv
<1>4. CallInv' /\ ErrorNamesWorst'
  BY <1>1, CallsKept DEF CallInv, ErrorNamesWorst, callVars
<1>. QED
  BY <1>1, <1>2, <1>3, <1>4 DEF CacheBounded, DecisionFitsKey, ServedFresh,
     BackoffAtLeast, callVars

LEMMA EngineStep ==
  ASSUME EngineInv, [Next]_vars
  PROVE  EngineInv'
<1>1. CASE UNCHANGED vars
  BY <1>1 DEF vars, EngineInv, TypeOK, CacheInv, CallInv, Met, DecisionFitsKey,
     ServedFresh, CacheBounded, ErrorNamesWorst, BackoffAtLeast
<1>. QED
  BY <1>1, RequestStep, LookupStep, StoreStep, InvalidateStep, CallFailsStep,
     BackoffStep, AnswerStep, ParseStep, TickStep DEF Next, Step

LEMMA EngineStart == Init => EngineInv
<1>. SUFFICES ASSUME Init PROVE EngineInv
  OBVIOUS
<1>1. DOMAIN cache = {} /\ cache \in [DOMAIN cache -> Entry]
  BY DEF Init
<1>2. IsFiniteSet(DOMAIN cache) /\ Cardinality(DOMAIN cache) = 0
  BY <1>1, FS_EmptySet
<1>3. TypeOK
  <2>1. 1 \in 1 .. MaxTries /\ <<>> \in Seq(Failed) /\ 0 \in Nat
    BY EngineAssumption
  <2>2. outcome \in [kind : {"nothing", "raised", "decision"},
                     error : {"none", "parse"} \cup Failed,
                     cached : BOOLEAN, for : SUBSET Keys, age : Nat]
    BY OutcomeTypes DEF Init
  <2>. QED
    BY <1>1, <2>1, <2>2 DEF Init, TypeOK
<1>4. Met("timeout") = FALSE /\ Met("rate") = FALSE
  <2>1. DOMAIN seen = {}
    BY DEF Init
  <2>. QED
    BY <2>1 DEF Met
<1>5. CacheInv /\ CallInv
  BY <1>1, <1>2, <1>4 DEF Init, CacheInv, CallInv
<1>6. CacheBounded
  BY <1>2, EngineAssumption DEF CacheBounded
<1>. QED
  BY <1>3, <1>5, <1>6 DEF Init, EngineInv, DecisionFitsKey, ServedFresh,
     ErrorNamesWorst, BackoffAtLeast, Nothing

\* The strengthening that the single properties are read off from.
THEOREM EngineInvariant == Spec => []EngineInv
BY EngineStart, EngineStep, PTL DEF Spec

-----------------------------------------------------------------------------
(* What callers rely on.                                                   *)

\* Every variable keeps its type.
THEOREM TypeCorrect == Spec => []TypeOK
BY EngineInvariant, PTL DEF EngineInv

\* A decision fits the failure type and merchant category it is returned for.
THEOREM Fits == Spec => []DecisionFitsKey
BY EngineInvariant, PTL DEF EngineInv

\* No decision is served later than its time to live after it was stored: an
\* entry is always as old as its decision, whatever accesses it has seen.
THEOREM Fresh == Spec => []ServedFresh
BY EngineInvariant, PTL DEF EngineInv

\* The cache stays within its maximum.
THEOREM Bounded == Spec => []CacheBounded
BY EngineInvariant, PTL DEF EngineInv

\* An error of the API is raised after all tries and named for the worst.
THEOREM NamesWorst == Spec => []ErrorNamesWorst
BY EngineInvariant, PTL DEF EngineInv

\* No back-off is shorter than documented.
THEOREM BacksOff == Spec => []BackoffAtLeast
BY EngineInvariant, PTL DEF EngineInv

-----------------------------------------------------------------------------
(* A request ends: the steps it may still take are bounded.                *)

\* How many steps the request in progress takes at most: two for each try that
\* fails, and from an answer on two more.
Rank ==
  IF pc = "idle" THEN 0
  ELSE IF pc = "store" THEN 1
  ELSE IF pc = "parse" THEN 2
  ELSE IF pc = "backoff" THEN 2 * (MaxTries - try) + 2
  ELSE IF pc = "ask" THEN 2 * (MaxTries - try) + 3
  ELSE 2 * (MaxTries - try) + 4

\* Each step of a request brings its end nearer, and nothing else puts it off.
ProgressIsMade ==
  [][/\ Step => Rank' < Rank
     /\ pc # "idle" => Rank' <= Rank]_vars

RankBounded == Rank \in 0 .. 2 * MaxTries + 2 /\ (Rank = 0 <=> pc = "idle")

LEMMA RankOf ==
  ASSUME EngineInv
  PROVE  RankBounded
<1>1. /\ MaxTries \in Nat /\ try \in Nat /\ 1 <= try /\ try <= MaxTries
      /\ pc \in {"idle", "lookup", "ask", "backoff", "parse", "store"}
  BY EngineAssumption DEF EngineInv, TypeOK
<1>. QED
  BY <1>1 DEF RankBounded, Rank

\* A call retries at most MaxTries times and every other step goes forward:
\* a request is over after at most 2 * MaxTries + 2 steps, whatever fails.
THEOREM Progress == Spec => []RankBounded /\ ProgressIsMade
<1>1. EngineInv /\ [Next]_vars
      => /\ Step => Rank' < Rank
         /\ pc # "idle" => Rank' <= Rank
  <2>. SUFFICES ASSUME EngineInv, [Next]_vars
                PROVE  /\ Step => Rank' < Rank
                       /\ pc # "idle" => Rank' <= Rank
    OBVIOUS
  <2>1. /\ MaxTries \in Nat /\ try \in Nat /\ 1 <= try /\ try <= MaxTries
        /\ pc = "backoff" => try < MaxTries
        /\ RankBounded
    BY EngineAssumption, RankOf DEF EngineInv, TypeOK, CallInv
  <2>2. ASSUME Step
        PROVE  Rank' < Rank /\ Rank' <= Rank
    <3>1. CASE Lookup
      <4>1. pc = "lookup" /\ pc' \in {"ask", "idle"} /\ try' = try
        BY <3>1 DEF Lookup, callVars
      <4>. QED
        BY <2>1, <4>1 DEF Rank
    <3>2. CASE Store
      BY <2>1, <3>2 DEF Store, Rank
    <3>3. CASE Backoff
      BY <2>1, <3>3 DEF Backoff, Rank
    <3>4. CASE CallAnswers
      BY <2>1, <3>4 DEF CallAnswers, Rank
    <3>5. CASE ParseDecision
      <4>1. pc = "parse" /\ pc' \in {"idle", "store"}
        BY <3>5 DEF ParseDecision
      <4>. QED
        BY <4>1 DEF Rank
    <3>6. ASSUME NEW a, NEW hint, CallFails(a, hint)
          PROVE  Rank' < Rank /\ Rank' <= Rank
      <4>1. pc = "ask" /\ pc' \in {"backoff", "idle"} /\ try' = try
        BY <3>6 DEF CallFails
      <4>. QED
        BY <2>1, <4>1 DEF Rank
    <3>. QED
      BY <2>2, <3>1, <3>2, <3>3, <3>4, <3>5, <3>6 DEF Step
  <2>3. ASSUME ~ Step, pc # "idle"
        PROVE  Rank' <= Rank
    <3>1. pc' = pc /\ try' = try
      BY <2>3 DEF Next, Request, Invalidate, Tick, vars, callVars
    <3>2. Rank' = Rank
      BY <3>1 DEF Rank
    <3>. QED
      BY <2>1, <3>2 DEF RankBounded
  <2>. QED
    BY <2>2, <2>3
<1>2. EngineInv => RankBounded
  BY RankOf
<1>. QED
  BY <1>1, <1>2, EngineInvariant, PTL DEF Spec, ProgressIsMade

-----------------------------------------------------------------------------
(* The bookkeeping.                                                        *)

Counters == [rows : Nat, lost : Nat, hits : Nat, misses : Nat]

\* What has been charged so far, by the place of the request.
ChargeInv ==
  /\ pc \in {"lookup", "ask", "backoff"} => Charged = 0
  /\ pc \in {"parse", "store"} => Charged = 1
  /\ pc = "lookup" => useCache /\ bill.hits = 0 /\ bill.misses = 0
  /\ pc \in {"ask", "backoff", "parse", "store"} =>
       bill.hits = 0 /\ bill.misses = One(useCache)

\* Nothing is tallied before the run ends.
TallyInv == pc # "idle" \/ open => tally = NoTally

MeterInv ==
  /\ bill \in Counters /\ Charged <= 1
  /\ pc = "idle" /\ outcome = Nothing => Charged = 0
  /\ ChargeInv /\ TallyInv /\ CostsAreTrue /\ RunCountedOnce

\* The bookkeeping adds to the engine and changes nothing of it.
LEMMA MeteredIsEngine == [MeteredNext]_allVars => [Next]_vars
BY DEF MeteredNext, MeteredStep, Begin, CountedLookup, FreeStep, EndRun,
   BilledAnswer, Purge, Next, Step, allVars

\* Whatever is proved of the engine holds of the engine with its bookkeeping:
\* recording costs and metrics never changes what is decided.
THEOREM MeteredRefines == MeteredSpec => Spec
BY MeteredIsEngine, PTL DEF MeteredSpec, Spec, MeteredInit

LEMMA OneType == \A b \in BOOLEAN : One(b) \in {0, 1}
BY DEF One

LEMMA TallyTrue ==
  ASSUME NEW ok \in BOOLEAN, NEW gemini \in BOOLEAN, NEW act \in Actions,
         NEW wait \in BOOLEAN, gemini => ~ ok
  PROVE  LET t == RunTally(ok, gemini, act, wait) IN
         /\ t.scheduled + t.failed <= 1
         /\ t.calls + t.failed >= 1
         /\ t.errors <= t.failed
         /\ gemini => t.errors = 1
BY DEF RunTally, One

LEMMA MeterStep ==
  ASSUME EngineInv, EngineInv', MeterInv, [MeteredNext]_allVars
  PROVE  MeterInv'
<1>0. bill \in Counters /\ useCache \in BOOLEAN
  BY DEF MeterInv, EngineInv, TypeOK
<1>1. ASSUME NEW k \in Keys, NEW c \in BOOLEAN, Begin(k, c)
      PROVE  MeterInv'
  <2>1. /\ bill' = NoBill /\ tally' = NoTally /\ outcome' = Nothing
        /\ useCache' = c /\ pc' = IF c THEN "lookup" ELSE "ask"
    BY <1>1 DEF Begin, Request
  <2>. QED
    BY <2>1 DEF MeterInv, ChargeInv, TallyInv, CostsAreTrue, RunCountedOnce, Counters,
       Charged, NoBill, NoTally, Nothing, One, Failed
<1>2. CASE CountedLookup
  <2>1. /\ pc = "lookup" /\ outcome = Nothing /\ useCache /\ Charged = 0
        /\ UNCHANGED <<open, tally, callVars>> /\ tally = NoTally
        /\ bill' = [bill EXCEPT !.hits = One(outcome'.cached),
                                !.misses = One(~ outcome'.cached)]
    BY <1>2 DEF CountedLookup, Lookup, EngineInv, CallInv, MeterInv, ChargeInv, TallyInv
  <2>2. /\ bill'.hits = One(outcome'.cached) /\ bill'.misses = One(~ outcome'.cached)
        /\ bill'.rows = bill.rows /\ bill'.lost = bill.lost
    BY <1>0, <2>1 DEF Counters
  <2>3. \/ pc' = "ask" /\ outcome' = Nothing
        \/ pc' = "idle" /\ outcome'.kind = "decision" /\ outcome'.error = "none"
           /\ outcome'.cached = TRUE
    <3>1. CASE pc' = "ask" /\ outcome' = outcome
      BY <2>1, <3>1
    <3>2. ASSUME NEW ks, NEW a, outcome' = Returned(ks, a, TRUE), pc' = "idle"
          PROVE  /\ pc' = "idle" /\ outcome'.kind = "decision"
                 /\ outcome'.error = "none" /\ outcome'.cached = TRUE
      BY <3>2 DEF Returned
    <3>. QED
      BY <1>2, <3>1, <3>2 DEF CountedLookup, Lookup
  <2>4. bill' \in Counters /\ Charged' = 0
    <3>1. One(outcome'.cached) \in Nat /\ One(~ outcome'.cached) \in Nat
      BY DEF One
    <3>. QED
      BY <1>0, <2>1, <2>2, <3>1 DEF Counters, Charged
  <2>5. CASE pc' = "ask" /\ outcome' = Nothing
    BY <2>1, <2>2, <2>4, <2>5 DEF MeterInv, ChargeInv, TallyInv, CostsAreTrue,
       RunCountedOnce, Nothing, NoTally, One, Failed, callVars
  <2>6. CASE pc' = "idle" /\ outcome'.kind = "decision" /\ outcome'.error = "none"
             /\ outcome'.cached = TRUE
    BY <2>1, <2>2, <2>4, <2>6 DEF MeterInv, ChargeInv, TallyInv, CostsAreTrue,
       RunCountedOnce, Nothing, NoTally, One, Failed
  <2>. QED
    BY <2>3, <2>5, <2>6
<1>3. ASSUME NEW logged \in BOOLEAN, BilledAnswer(logged)
      PROVE  MeterInv'
  <2>1. /\ pc = "ask" /\ pc' = "parse" /\ outcome' = Nothing /\ Charged = 0
        /\ UNCHANGED <<open, tally, callVars>> /\ tally = NoTally
        /\ bill' = [bill EXCEPT !.rows = @ + One(logged), !.lost = @ + One(~ logged)]
        /\ bill.hits = 0 /\ bill.misses = One(useCache)
    BY <1>3 DEF BilledAnswer, CallAnswers, EngineInv, CallInv, MeterInv, ChargeInv,
       TallyInv
  <2>2. /\ bill'.rows = bill.rows + One(logged) /\ bill'.lost = bill.lost + One(~ logged)
        /\ bill'.hits = bill.hits /\ bill'.misses = bill.misses
    BY <1>0, <2>1 DEF Counters
  <2>3. bill' \in Counters /\ Charged' = 1
    <3>1. /\ One(logged) \in Nat /\ One(~ logged) \in Nat
          /\ One(logged) + One(~ logged) = 1
      BY DEF One
    <3>2. /\ bill.rows \in Nat /\ bill.lost \in Nat /\ bill.rows + bill.lost = 0
      BY <1>0, <2>1 DEF Counters, Charged
    <3>3. bill.rows + One(logged) \in Nat /\ bill.lost + One(~ logged) \in Nat
      BY <3>1, <3>2
    <3>4. bill' \in Counters
      BY <1>0, <2>1, <3>3 DEF Counters
    <3>5. bill'.rows + bill'.lost = 1
      BY <2>2, <3>1, <3>2
    <3>. QED
      BY <3>4, <3>5 DEF Charged
  <2>. QED
    BY <2>1, <2>2, <2>3 DEF MeterInv, ChargeInv, TallyInv, CostsAreTrue,
       RunCountedOnce, Nothing, NoTally, Failed, callVars
<1>4. CASE FreeStep
  <2>0. UNCHANGED meterVars /\ Charged' = Charged
    BY <1>4 DEF FreeStep, meterVars, Charged
  <2>1. CASE Store
    BY <1>0, <2>0, <2>1 DEF Store, Returned, MeterInv, ChargeInv, TallyInv,
       CostsAreTrue, RunCountedOnce, Nothing, NoTally, One, Failed, callVars, meterVars
  <2>2. CASE Backoff
    BY <1>0, <2>0, <2>2 DEF Backoff, MeterInv, ChargeInv, TallyInv, CostsAreTrue,
       RunCountedOnce, Nothing, NoTally, One, Failed, meterVars
  <2>3. CASE ParseDecision
    BY <1>0, <2>0, <2>3 DEF ParseDecision, Returned, Raised, MeterInv, ChargeInv,
       TallyInv, CostsAreTrue, RunCountedOnce, Nothing, NoTally, One, Failed,
       callVars, meterVars
  <2>4. ASSUME NEW a \in Failed, NEW hint, CallFails(a, hint)
        PROVE  MeterInv'
    <3>1. ErrorKind(isTimeout', isRateLimit') \in Failed
      BY DEF ErrorKind, Failed
    <3>2. /\ pc = "ask" /\ Charged = 0 /\ useCache' = useCache
          /\ \/ pc' = "idle" /\ outcome' = Raised(ErrorKind(isTimeout', isRateLimit'))
             \/ pc' = "backoff" /\ outcome' = outcome
      BY <2>4 DEF CallFails, MeterInv, ChargeInv
    <3>. QED
      BY <1>0, <2>0, <3>1, <3>2 DEF Raised, MeterInv, ChargeInv, TallyInv,
         CostsAreTrue, RunCountedOnce, Nothing, NoTally, Failed, meterVars
  <2>. QED
    BY <1>4, <2>1, <2>2, <2>3, <2>4 DEF FreeStep
<1>5. CASE EndRun
  <2>1. PICK act \in Actions, wait \in BOOLEAN, dispatched \in BOOLEAN :
          tally' = RunTally(outcome.kind = "decision" /\ dispatched,
                            outcome.kind = "raised", act, wait)
    BY <1>5 DEF EndRun
  <2>2. /\ open' = FALSE /\ pc = "idle" /\ UNCHANGED <<vars, bill>>
    BY <1>5 DEF EndRun
  <2>3. RunCountedOnce'
    BY <2>1, <2>2, TallyTrue DEF RunCountedOnce, vars
  <2>. QED
    BY <2>2, <2>3 DEF MeterInv, ChargeInv, TallyInv, CostsAreTrue, Charged, vars,
       callVars
<1>6. CASE Purge \/ (Tick /\ UNCHANGED meterVars) \/ UNCHANGED allVars
  <2>1. UNCHANGED <<pc, callVars, outcome, meterVars>>
    BY <1>6 DEF Purge, Invalidate, Tick, allVars, vars, callVars
  <2>. QED
    BY <2>1 DEF MeterInv, ChargeInv, TallyInv, CostsAreTrue, RunCountedOnce, Charged,
       callVars, meterVars
<1>. QED
  BY <1>1, <1>2, <1>3, <1>4, <1>5, <1>6 DEF MeteredNext, MeteredStep

LEMMA MeterStart == MeteredInit => MeterInv
BY DEF MeteredInit, Init, MeterInv, ChargeInv, TallyInv, CostsAreTrue, RunCountedOnce,
   Counters, Charged, NoBill, NoTally, Nothing, Failed

\* The bookkeeping of a request agrees with how far the request has come.
THEOREM MeterInvariant == MeteredSpec => []MeterInv
<1>1. MeteredSpec => []EngineInv
  BY MeteredRefines, EngineInvariant
<1>. QED
  BY <1>1, MeterStart, MeterStep, PTL DEF MeteredSpec

\* What is on file as spent is what Gemini was asked for, whatever fails.
THEOREM Costs == MeteredSpec => []CostsAreTrue
BY MeterInvariant, PTL DEF MeterInv

\* Every run of the pipeline is counted to its end once.
THEOREM Runs == MeteredSpec => []RunCountedOnce
BY MeterInvariant, PTL DEF MeterInv
=============================================================================
