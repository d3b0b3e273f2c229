--------------------------- MODULE DecisionEngine ---------------------------
(***************************************************************************)
(* How a recovery decision is made: RecoveryEngine.process looks in the    *)
(* decision cache, asks Gemini with retries and back-off when it finds     *)
(* nothing, and stores the answer.  The engine serves one request at a     *)
(* time; the clock goes on throughout.                                     *)
(***************************************************************************)
EXTENDS Naturals, Sequences, FiniteSets

CONSTANTS
  Failures,   \* failure types, as normalised in cache keys
  Merchants,  \* merchant categories, as normalised in cache keys
  MaxSize,    \* LLMResponseCache.max_size (1000)
  TTL,        \* LLMResponseCache.ttl_seconds (86400); 0 is for ever
  MaxTries,   \* GeminiAgent._MAX_RETRIES (3)
  Hints,      \* retry delays, in seconds, a 429 may ask for
  MaxTime     \* bound on the clock

ASSUME EngineAssumption ==
  /\ Failures # {} /\ Merchants # {}
  /\ MaxSize \in Nat \ {0}
  /\ TTL \in Nat
  /\ MaxTries \in 1 .. 3
  /\ Hints \subseteq Nat
  /\ MaxTime \in Nat

Keys == Failures \X Merchants

VARIABLES
  now,          \* time.time()
  cache,        \* the entries of LLMResponseCache
  pc,           \* what process() does next
  key,          \* cache key of the request
  useCache,     \* its parameter use_cache
  try,          \* attempt of _call_api
  isTimeout, isRateLimit,  \* flags of _call_api
  delay,        \* seconds of the last back-off
  outcome,      \* what process() last returned or raised
  seen          \* history: how each call of this request failed

callVars == <<key, useCache, try, isTimeout, isRateLimit, delay, seen>>
vars == <<now, cache, pc, key, useCache, try, isTimeout, isRateLimit, delay,
          outcome, seen>>

-----------------------------------------------------------------------------
(* Values.                                                                 *)

Failed == {"timeout", "rate", "error"}

\* A decision is known by the key it was made for and the time it was put in
\* the cache, which no access changes.  `made` and `used` are created_at and
\* last_accessed of the entry that holds it.
Entry == [for : Keys, at : Nat, made : Nat, used : Nat]

Expired(e) == TTL > 0 /\ now - e.made > TTL

Nothing == [kind |-> "nothing", error |-> "none", cached |-> FALSE,
            for |-> {}, age |-> 0]

Raised(err) == [kind |-> "raised", error |-> err, cached |-> FALSE,
                for |-> {}, age |-> 0]

\* A decision made for the keys in `ks`, `age` seconds ago.
Returned(ks, age, hit) == [kind |-> "decision", error |-> "none",
                           cached |-> hit, for |-> ks, age |-> age]

\* Mutant: the merchant category is left out of the key.
Matches_ByFailure(k, f, m) == k[1] = f

\* An entry concerns a failure type and a merchant category.
Matches(k, f, m) == k[1] = f /\ k[2] = m

Found == {k \in DOMAIN cache : Matches(k, key[1], key[2])}

Without(ks) == [k \in DOMAIN cache \ ks |-> cache[k]]

-----------------------------------------------------------------------------
(* The request and the cache.                                              *)

Request(k, c) ==
  /\ pc = "idle"
  /\ key' = k /\ useCache' = c
  /\ pc' = IF c THEN "lookup" ELSE "ask"
  /\ try' = 1 /\ isTimeout' = FALSE /\ isRateLimit' = FALSE /\ delay' = 0
  /\ seen' = <<>>
  /\ outcome' = Nothing
  /\ UNCHANGED <<now, cache>>

\* Mutant: an expired entry is looked up again, and is still there.
Lookup_Again ==
  /\ pc = "lookup"
  /\ \/ /\ Found = {}
        /\ pc' = "ask"
        /\ UNCHANGED <<cache, outcome>>
     \/ \E k \in Found : Expired(cache[k]) /\ UNCHANGED <<cache, pc, outcome>>
     \/ \E k \in Found :
          /\ ~ Expired(cache[k])
          /\ cache' = [cache EXCEPT ![k].used = now]
          /\ outcome' = Returned({cache[k].for}, now - cache[k].at, TRUE)
          /\ pc' = "idle"
  /\ UNCHANGED <<now, callVars>>

\* Mutant: a hit starts the entry's time to live anew.
Lookup_Renews ==
  /\ pc = "lookup"
  /\ \/ /\ Found = {}
        /\ pc' = "ask"
        /\ UNCHANGED <<cache, outcome>>
     \/ \E k \in Found :
          /\ Expired(cache[k])
          /\ cache' = Without({k})
          /\ pc' = "ask"
          /\ UNCHANGED outcome
     \/ \E k \in Found :
          /\ ~ Expired(cache[k])
          /\ cache' = [cache EXCEPT ![k].used = now, ![k].made = now]
          /\ outcome' = Returned({cache[k].for}, now - cache[k].at, TRUE)
          /\ pc' = "idle"
  /\ UNCHANGED <<now, callVars>>

\* A hit returns a copy; an expired entry is only noticed, and removed, here.
Lookup ==
  /\ pc = "lookup"
  /\ \/ /\ Found = {}
        /\ pc' = "ask"
        /\ UNCHANGED <<cache, outcome>>
     \/ \E k \in Found :
          /\ Expired(cache[k])
          /\ cache' = Without({k})
          /\ pc' = "ask"
          /\ UNCHANGED outcome
     \/ \E k \in Found :
          /\ ~ Expired(cache[k])
          /\ cache' = [cache EXCEPT ![k].used = now]
          /\ outcome' = Returned({cache[k].for}, now - cache[k].at, TRUE)
          /\ pc' = "idle"
  /\ UNCHANGED <<now, callVars>>

\* The least recently accessed entries; ties are broken by dictionary order.
Victims ==
  {k \in DOMAIN cache : \A j \in DOMAIN cache : cache[k].used <= cache[j].used}

\* Mutant: one entry too many.
Full_OffByOne == Cardinality(DOMAIN cache) > MaxSize

Full == Cardinality(DOMAIN cache) >= MaxSize

Put(old) ==
  cache' = [k \in DOMAIN old \cup {key} |->
              IF k = key THEN [for |-> key, at |-> now, made |-> now, used |-> now]
                         ELSE old[k]]

Store ==
  /\ pc = "store"
  /\ \/ /\ Full /\ key \notin DOMAIN cache
        /\ \E v \in Victims : Put(Without({v}))
     \/ /\ ~ Full \/ key \in DOMAIN cache
        /\ Put(cache)
  /\ outcome' = Returned({key}, 0, FALSE)
  /\ pc' = "idle"
  /\ UNCHANGED <<now, callVars>>

\* The class also offers to drop all entries, or those of a failure type, of
\* a merchant category, or of both.
Invalidate ==
  /\ pc = "idle"
  /\ \E fs \in SUBSET Failures, ms \in SUBSET Merchants :
       /\ fs = Failures \/ Cardinality(fs) = 1
       /\ ms = Merchants \/ Cardinality(ms) = 1
       /\ cache' = Without(fs \X ms)
  /\ UNCHANGED <<now, pc, callVars, outcome>>

-----------------------------------------------------------------------------
(* The call to Gemini.                                                     *)

\* Mutant: the flags describe the last error only.
Flag_LastOnly(old, a, kind) == a = kind

\* A flag once set stays set for the rest of the call.
Flag(old, a, kind) == old \/ a = kind

ErrorKind(timedOut, limited) ==
  IF timedOut THEN "timeout" ELSE IF limited THEN "rate" ELSE "error"

Larger(a, b) == IF a >= b THEN a ELSE b

\* backoff_delays, in seconds.
Backoffs == <<2, 4, 8>>

\* Mutant: the delay the server asked for replaces the back-off.
Delay_AsAsked(n, limited, hint) ==
  IF hint # {} THEN CHOOSE h \in hint : TRUE ELSE Backoffs[n]

\* More after a rate limit, and more than the server asked for.
Delay(n, limited, hint) ==
  IF ~ limited THEN Backoffs[n]
  ELSE IF hint = {} THEN Larger(Backoffs[n], 6 * n)
  ELSE Larger((CHOOSE h \in hint : TRUE) + 2, Backoffs[n])

\* Mutant: one try more than the limit.
LastTry_OffByOne == try > MaxTries

LastTry == try >= MaxTries

\* A 429 may carry the delay the server asks for.
CallFails(a, hint) ==
  /\ pc = "ask"
  /\ hint # {} => a = "rate"
  /\ isTimeout' = Flag(isTimeout, a, "timeout")
  /\ isRateLimit' = Flag(isRateLimit, a, "rate")
  /\ seen' = Append(seen, a)
  /\ \/ /\ LastTry
        /\ outcome' = Raised(ErrorKind(isTimeout', isRateLimit'))
        /\ pc' = "idle"
        /\ UNCHANGED delay
     \/ /\ ~ LastTry
        /\ delay' = Delay(try, isRateLimit', hint)
        /\ pc' = "backoff"
        /\ UNCHANGED outcome
  /\ UNCHANGED <<now, cache, key, useCache, try>>

Backoff ==
  /\ pc = "backoff"
  /\ try' = try + 1
  /\ pc' = "ask"
  /\ UNCHANGED <<now, cache, key, useCache, isTimeout, isRateLimit, delay,
                 outcome, seen>>

\* Gemini answers.
CallAnswers ==
  /\ pc = "ask"
  /\ pc' = "parse"
  /\ UNCHANGED <<now, cache, callVars, outcome>>

\* Mutant: a text that is refused is asked for again, without counting.
ParseDecision_AskAgain ==
  /\ pc = "parse"
  /\ pc' = "ask"
  /\ UNCHANGED <<now, cache, callVars, outcome>>

\* _parse_response accepts the text or raises; a text that is refused is not
\* asked for again.
ParseDecision ==
  /\ pc = "parse"
  /\ \/ /\ outcome' = Raised("parse")
        /\ pc' = "idle"
     \/ /\ useCache
        /\ pc' = "store"
        /\ UNCHANGED outcome
     \/ /\ ~ useCache
        /\ outcome' = Returned({key}, 0, FALSE)
        /\ pc' = "idle"
  /\ UNCHANGED <<now, cache, callVars>>

Tick ==
  /\ now < MaxTime
  /\ now' = now + 1
  /\ UNCHANGED <<cache, pc, callVars, outcome>>

-----------------------------------------------------------------------------
Init ==
  /\ now = 0
  /\ cache = [k \in {} |-> {}]
  /\ pc = "idle"
  /\ key \in Keys
  /\ useCache = TRUE
  /\ try = 1 /\ isTimeout = FALSE /\ isRateLimit = FALSE /\ delay = 0
  /\ outcome = Nothing
  /\ seen = <<>>

Step ==
  \/ Lookup \/ Store \/ Backoff \/ CallAnswers \/ ParseDecision
  \/ \E a \in Failed, hint \in {{}} \cup {{h} : h \in Hints} : CallFails(a, hint)

Next ==
  \/ \E k \in Keys, c \in BOOLEAN : Request(k, c)
  \/ Invalidate
  \/ Step
  \/ Tick

Spec == Init /\ [][Next]_vars

\* A call that has begun goes on; requests and time are not fair.
FairSpec == Spec /\ WF_vars(Step)

-----------------------------------------------------------------------------
(* Properties.                                                             *)

\* Every variable has its type.
TypeOK ==
  /\ now \in Nat
  /\ DOMAIN cache \subseteq Keys
  /\ \A k \in DOMAIN cache : cache[k] \in Entry
  /\ pc \in {"idle", "lookup", "ask", "backoff", "parse", "store"}
  /\ key \in Keys
  /\ useCache \in BOOLEAN
  /\ try \in 1 .. MaxTries
  /\ isTimeout \in BOOLEAN /\ isRateLimit \in BOOLEAN
  /\ delay \in Nat
  /\ outcome \in [kind : {"nothing", "raised", "decision"},
                  error : {"none", "parse"} \cup Failed,
                  cached : BOOLEAN, for : SUBSET Keys, age : Nat]
  /\ seen \in Seq(Failed)

\* A decision that is returned was made for the failure type and merchant
\* category it is returned for, from the cache or not.
DecisionFitsKey == outcome.kind = "decision" => outcome.for = {key}

\* However often it is asked for in between, no decision is served from the
\* cache once its time to live has passed since it was stored: accesses renew
\* the place of an entry in the order of eviction, never its time to live.
ServedFresh == TTL > 0 /\ outcome.cached => outcome.age <= TTL

\* The cache never holds more entries than its maximum.
CacheBounded == Cardinality(DOMAIN cache) <= MaxSize

\* The kinds of failure met in this request.
Met(a) == \E i \in DOMAIN seen : seen[i] = a

\* An error of the API is raised after exactly MaxTries failed calls, and is
\* named for the worst of them, not for the last: a timeout before a rate
\* limit before anything else.
ErrorNamesWorst ==
  outcome.kind = "raised" /\ outcome.error # "parse" =>
    /\ Len(seen) = MaxTries
    /\ outcome.error = IF Met("timeout") THEN "timeout"
                       ELSE IF Met("rate") THEN "rate" ELSE "error"

\* No back-off is shorter than the documented 2, 4, 8 seconds.
BackoffAtLeast == pc = "backoff" => delay >= Backoffs[try]

\* Every request is answered.
RequestEnds == pc # "idle" ~> pc = "idle"
=============================================================================
