---------------------------- MODULE ChecksProofs ----------------------------
(***************************************************************************)
(* Proofs about the checks that a call meets: the schema cache, the rate   *)
(* limiter, the Cedar authorizer, the ePCA guardrail and the egress        *)
(* inspector, each for every instance of its own constants.                *)
(***************************************************************************)
EXTENDS Checks, ToolRegistryProofs, FiniteSetTheorems

-----------------------------------------------------------------------------
(* The schema cache is transparent for every schema that shares its key     *)
(* with no other.  CacheTypeOK is inductive as it stands: the cache holds   *)
(* under a key only a compiled schema with that key.  The outcome of a call *)
(* follows from what the cache held before it, so exactness is carried      *)
(* along with it.                                                           *)
SchemaInvariant == CacheTypeOK /\ UnsharedKeysAreExact

(* What is used for a schema is a compiled schema with the same key, or     *)
(* nothing, and then the schema does not compile.                           *)
LEMMA CompiledHasKey ==
  ASSUME CacheTypeOK, NEW s \in Documents
  PROVE  /\ Compiled(s) \in Compilable \union {NoSchema}
         /\ Compiled(s) # NoSchema => KeyOf[Compiled(s)] = KeyOf[s]
         /\ Compiled(s) = NoSchema => s \notin Compilable
  BY SchemaAssumption DEF CacheTypeOK, Compiled

(* Every call keeps the cache keyed rightly and answers exactly.            *)
LEMMA SchemaStep ==
  ASSUME SchemaInvariant, [SchemaNext]_schemaVars
  PROVE  SchemaInvariant'
<1> USE SchemaAssumption DEF SchemaInvariant
<1>1. ASSUME NEW s \in Documents, NEW i \in Instances, Validate(s, i)
      PROVE  SchemaInvariant'
  <2>1. CASE cache' = cache /\ s \in Foreign \union SplitsChar
    BY <1>1, <2>1 DEF Validate, Returns, CacheTypeOK, UnsharedKeysAreExact, Exact, Alone
  <2>2. CASE s \notin SplitsChar \union Foreign
    <3>1. /\ Compiled(s) \in Compilable \union {NoSchema}
          /\ Compiled(s) # NoSchema => KeyOf[Compiled(s)] = KeyOf[s]
          /\ Compiled(s) = NoSchema => s \notin Compilable
      BY CompiledHasKey
    <3>2. /\ cache' = [cache EXCEPT ![KeyOf[s]] = Compiled(s)]
          /\ outcome' = [op |-> "validate", schema |-> s, instance |-> i,
                         result |-> IF Compiled(s) = NoSchema THEN "uncompilable"
                                    ELSE IF Compiled(s) \in Compilable /\ i \in Accepts[Compiled(s)]
                                    THEN "ok" ELSE "invalid"]
      BY <1>1, <2>2 DEF Validate, Returns
    <3>3. CacheTypeOK'
      BY <3>1, <3>2 DEF CacheTypeOK
    <3>4. s \in Alone => Compiled(s) = NoSchema \/ Compiled(s) = s
      BY <3>1 DEF Alone
    <3>5. UnsharedKeysAreExact'
      BY <3>1, <3>2, <3>4 DEF UnsharedKeysAreExact, Exact, Reference, Alone
    <3> QED BY <3>3, <3>5
  <2> QED BY <1>1, <2>1, <2>2 DEF Validate
<1>2. ASSUME NEW s \in Documents, Precompile(s)
      PROVE  SchemaInvariant'
  <2>1. /\ Compiled(s) \in Compilable \union {NoSchema}
        /\ Compiled(s) # NoSchema => KeyOf[Compiled(s)] = KeyOf[s]
    BY CompiledHasKey
  <2> QED BY <1>2, <2>1 DEF Precompile, Returns, CacheTypeOK, UnsharedKeysAreExact, Exact
<1>3. CASE ClearCache
  BY <1>3 DEF ClearCache, Returns, CacheTypeOK, UnsharedKeysAreExact, Exact
<1>4. CASE UNCHANGED schemaVars
  BY <1>4 DEF schemaVars, CacheTypeOK, UnsharedKeysAreExact, Exact
<1> QED BY <1>1, <1>2, <1>3, <1>4 DEF SchemaNext

(* The cache never changes what validation says of a schema that shares its *)
(* key with no other, and holds only compiled schemas under their own keys. *)
(* (validate, precompile and clear_cache)                                   *)
THEOREM CacheIsTransparent == SchemaSpec => [](CacheTypeOK /\ UnsharedKeysAreExact)
<1>1. SchemaInit => SchemaInvariant
  BY SchemaAssumption DEF SchemaInit, NoCall, SchemaInvariant, CacheTypeOK, UnsharedKeysAreExact, Exact
<1>2. SchemaInvariant /\ [SchemaNext]_schemaVars => SchemaInvariant'
  BY SchemaStep
<1> QED BY <1>1, <1>2, PTL DEF SchemaSpec, SchemaInvariant

(* A schema whose text is not cut shares its key with no other, so the      *)
(* cache is transparent for it.  (schema_key)                               *)
THEOREM ShortSchemasAreExact == SchemaSpec => []WholeTextsAreExact
<1>1. CacheTypeOK /\ UnsharedKeysAreExact => WholeTextsAreExact
  <2>1. Documents \ (Long \union Foreign) \subseteq Alone
    BY SchemaAssumption DEF Alone
  <2> QED BY <2>1 DEF UnsharedKeysAreExact, WholeTextsAreExact, Exact
<1> QED BY <1>1, CacheIsTransparent, PTL

-----------------------------------------------------------------------------
(* The token-bucket promise, proved for every set of callers, keys and      *)
(* rules, every unit and every length of time.                              *)
(*                                                                          *)
(* The bound on a stretch of time is not inductive: how much a bucket may   *)
(* admit next depends on its tokens.  The invariant adds that the calls     *)
(* admitted since any of them, plus the tokens left, are within the         *)
(* capacity and the refill up to last_refill.                               *)

(* Multiplication under a name of its own: its laws are proved here, and    *)
(* every later step is linear in the products it meets.                    *)
Times(a, b) == a * b

LEMMA TimesType ==
  ASSUME NEW a \in Int, NEW b \in Int
  PROVE  Times(a, b) \in Int
BY DEF Times

LEMMA TimesNat ==
  ASSUME NEW a \in Nat, NEW b \in Nat
  PROVE  Times(a, b) \in Nat
BY DEF Times

LEMMA TimesSplit ==
  ASSUME NEW r \in Int, NEW x \in Int, NEW y \in Int
  PROVE  Times(r, x) + Times(r, y) = Times(r, x + y)
BY DEF Times

LEMMA TimesNext ==
  ASSUME NEW x \in Int, NEW u \in Int
  PROVE  Times(x + 1, u) = Times(x, u) + u
BY DEF Times

LEMMA TimesSmall ==
  ASSUME NEW r \in Int
  PROVE  Times(1, r) = r /\ Times(r, 0) = 0
BY DEF Times

LEMMA TimesSwap ==
  ASSUME NEW x \in Int, NEW y \in Int
  PROVE  Times(x, y) = Times(y, x)
BY DEF Times

LEMMA Gaps ==
  ASSUME NEW t0 \in Nat, NEW t1 \in Nat, NEW t2 \in Nat
  PROVE  t1 - t0 \in Int /\ t2 - t1 \in Int /\ t2 - t0 \in Int /\ t2 - t0 = (t1 - t0) + (t2 - t1)
OBVIOUS

(* What a refill d2 units after the last one may add to a stretch that      *)
(* began d1 units before that one.                                          *)
LEMMA RefillSum ==
  ASSUME NEW rate \in Nat, NEW d1 \in Int, NEW d2 \in Int, NEW d \in Int, d = d1 + d2,
         NEW x \in Int, NEW cap \in Nat, NEW old \in Nat, NEW new \in Nat,
         x + old <= cap + Times(rate, d1), new <= old + Times(rate, d2)
  PROVE  x + new <= cap + Times(rate, d)
<1>1. Times(rate, d1) + Times(rate, d2) = Times(rate, d)
  BY TimesSplit
<1>2. Times(rate, d1) \in Int /\ Times(rate, d2) \in Int /\ Times(rate, d) \in Int
  BY TimesType
<1> QED  BY <1>1, <1>2

(* What taking a token adds to a stretch of n calls. *)
LEMMA SpendSum ==
  ASSUME NEW n \in Int, NEW u \in Nat, NEW left \in Nat, NEW cap \in Nat, NEW gain \in Int,
         u <= left, Times(n, u) + left <= cap + gain
  PROVE  /\ Times(n + 1, u) + (left - u) <= cap + gain
         /\ Times(n + 1, u) <= cap + gain
<1>1. Times(n + 1, u) = Times(n, u) + u /\ Times(n, u) \in Int
  BY TimesNext, TimesType
<1> QED  BY <1>1

Sound(b, log) ==
  /\ b.tokens <= Times(b.capacity, Unit)
  /\ \A i \in 1..Len(log) :
       /\ log[i] <= b.last
       /\ Times(Len(log) - i + 1, Unit) + b.tokens
            <= Times(b.capacity, Unit) + Times(b.rate, b.last - log[i])
  /\ \A i, j \in 1..Len(log) :
       i <= j => Times(j - i + 1, Unit)
                   <= Times(b.capacity, Unit) + Times(b.rate, log[j] - log[i])

LimiterInv ==
  /\ now \in Nat
  /\ buckets \in [LimitKeys -> Bucket \union {NoBucket}]
  /\ calls \in [Callers -> {Idle} \union [kind : {"check", "peek"}, key : LimitKeys, rule : AllRules]]
  /\ admitted \in [LimitKeys -> Seq(Nat)]
  /\ \A k \in LimitKeys : buckets[k] = NoBucket => admitted[k] = <<>>
  /\ \A k \in LimitKeys : buckets[k] # NoBucket =>
       buckets[k].last <= now /\ Sound(buckets[k], admitted[k])

(* A fresh bucket has admitted nothing. *)
LEMMA NewIsSound ==
  ASSUME NEW r \in AllRules, now \in Nat
  PROVE  NewBucket(r) \in Bucket /\ NewBucket(r).last = now /\ Sound(NewBucket(r), <<>>)
<1>1. r.capacity \in Nat /\ r.rate \in Nat /\ Unit \in Nat
  BY LimiterAssumption
<1>2. r.capacity * Unit = Times(r.capacity, Unit) /\ Times(r.capacity, Unit) \in Nat
  BY <1>1, TimesNat DEF Times
<1> DEFINE full == r.capacity * Unit
<1>3. full = Times(r.capacity, Unit) /\ full \in Nat
  BY <1>2
<1>4. NewBucket(r) = [tokens |-> full, capacity |-> r.capacity, rate |-> r.rate, last |-> now]
  BY DEF NewBucket
<1> HIDE DEF full
<1> QED  BY <1>1, <1>3, <1>4 DEF Bucket, Sound

(* A refill adds no more than the rate allows for the time that passed. *)
LEMMA RefillIsSound ==
  ASSUME now \in Nat, NEW b \in Bucket, b.last <= now, NEW log \in Seq(Nat), Sound(b, log)
  PROVE  Refilled(b) \in Bucket /\ Refilled(b).last = now /\ Sound(Refilled(b), log)
<1> DEFINE c == Refilled(b)
           gain == Times(b.rate, now - b.last)
           cap == Times(b.capacity, Unit)
           t == Least(b.tokens + gain, cap)
<1>1. /\ b.tokens \in Nat /\ b.last \in Nat /\ b.capacity \in Nat /\ b.rate \in Nat
      /\ Unit \in Nat /\ now - b.last \in Nat
  BY LimiterAssumption DEF Bucket
<1>2. gain \in Nat /\ cap \in Nat
  BY <1>1, TimesNat
<1>3. (now - b.last) * b.rate = gain /\ b.capacity * Unit = cap
  <2>1. (now - b.last) * b.rate = Times(now - b.last, b.rate) /\ b.capacity * Unit = cap
    BY DEF Times
  <2> HIDE DEF gain, cap
  <2>2. Times(now - b.last, b.rate) = gain
    BY <1>1, TimesSwap DEF gain
  <2> QED  BY <2>1, <2>2
<1>4. c = [b EXCEPT !.tokens = t, !.last = now]
  <2>1. c = [b EXCEPT !.tokens = Least(b.tokens + (now - b.last) * b.rate, b.capacity * Unit), !.last = now]
    BY DEF Refilled
  <2> QED  BY <1>3, <2>1
<1> HIDE DEF c, gain, cap
<1>5. t \in Nat /\ t <= cap /\ t <= b.tokens + gain
  BY <1>1, <1>2 DEF Least
<1> HIDE DEF t
<1>6. /\ c \in Bucket /\ c.last = now /\ c.capacity = b.capacity /\ c.rate = b.rate /\ c.tokens = t
  BY <1>1, <1>4, <1>5 DEF Bucket
<1>7. ASSUME NEW i \in 1..Len(log)
      PROVE  /\ log[i] <= c.last
             /\ Times(Len(log) - i + 1, Unit) + c.tokens
                  <= Times(c.capacity, Unit) + Times(c.rate, c.last - log[i])
  <2> DEFINE m == Len(log) - i + 1
             d1 == b.last - log[i]
             d2 == now - b.last
             d == now - log[i]
  <2>1. log[i] \in Nat /\ m \in Int
    OBVIOUS
  <2>2. log[i] <= b.last /\ Times(m, Unit) + b.tokens <= cap + Times(b.rate, d1)
    BY DEF Sound, cap
  <2>3. d1 \in Int /\ d2 \in Int /\ d \in Int /\ d = d1 + d2
    BY <1>1, <2>1, Gaps, Zenon
  <2>4. t <= b.tokens + Times(b.rate, d2)
    BY <1>5 DEF gain
  <2>5. log[i] <= now
    BY <1>1, <2>1, <2>2
  <2>6. log[i] <= c.last /\ Times(m, Unit) + t <= cap + Times(b.rate, d)
    <3> HIDE DEF m, d1, d2, d
    <3>1. Unit \in Int
      BY <1>1
    <3>2. Times(m, Unit) \in Int
      BY <2>1, <3>1, TimesType, Zenon
    <3>3. Times(m, Unit) + t <= cap + Times(b.rate, d)
      BY <1>1, <1>2, <1>5, <2>2, <2>3, <2>4, <3>2, RefillSum, Zenon
    <3> QED  BY <1>6, <2>5, <3>3
  <2> QED  BY <1>6, <2>6 DEF cap
<1>8. \A i, j \in 1..Len(log) :
        i <= j => Times(j - i + 1, Unit) <= Times(c.capacity, Unit) + Times(c.rate, log[j] - log[i])
  BY <1>6 DEF Sound
<1>9. Sound(c, log)
  BY <1>5, <1>6, <1>7, <1>8 DEF Sound, cap
<1> QED  BY <1>6, <1>9 DEF c

(* Taking a token for a call admitted now keeps the bucket sound. *)
LEMMA SpendIsSound ==
  ASSUME now \in Nat, NEW b \in Bucket, b.last = now, b.tokens >= Unit,
         NEW log \in Seq(Nat), Sound(b, log)
  PROVE  /\ [b EXCEPT !.tokens = @ - Unit] \in Bucket
         /\ [b EXCEPT !.tokens = @ - Unit].last = now
         /\ Append(log, now) \in Seq(Nat)
         /\ Sound([b EXCEPT !.tokens = @ - Unit], Append(log, now))
<1> DEFINE c == [b EXCEPT !.tokens = @ - Unit]
           n == Len(log)
           log2 == Append(log, now)
           cap == Times(b.capacity, Unit)
<1>1. /\ b.tokens \in Nat /\ b.last \in Nat /\ b.capacity \in Nat /\ b.rate \in Nat
      /\ Unit \in Nat /\ n \in Nat
  BY LimiterAssumption DEF Bucket
<1>2. cap \in Nat
  BY <1>1, TimesNat
<1>3. /\ c \in Bucket /\ c.last = now /\ c.capacity = b.capacity /\ c.rate = b.rate
      /\ c.tokens = b.tokens - Unit /\ c.tokens \in Nat
  BY <1>1 DEF Bucket
<1>4. log2 \in Seq(Nat) /\ Len(log2) = n + 1 /\ log2[n + 1] = now /\ \A i \in 1..n : log2[i] = log[i]
  OBVIOUS
<1>5. b.tokens <= cap
  BY DEF Sound
<1>6. ASSUME NEW i \in 1..n
      PROVE  /\ log[i] \in Nat /\ log[i] <= now
             /\ Times(n - i + 1, Unit) + b.tokens <= cap + Times(b.rate, now - log[i])
             /\ \A j \in 1..n :
                  i <= j => Times(j - i + 1, Unit) <= cap + Times(b.rate, log[j] - log[i])
  BY DEF Sound
<1> HIDE DEF c, n, log2, cap
<1>7. ASSUME NEW i \in 1..(n + 1)
      PROVE  /\ log2[i] <= c.last
             /\ Times((n + 1) - i + 1, Unit) + c.tokens <= cap + Times(c.rate, c.last - log2[i])
             /\ Times((n + 1) - i + 1, Unit) <= cap + Times(c.rate, c.last - log2[i])
  <2>1. CASE i \in 1..n
    <3> DEFINE m == n - i + 1
               d == now - log[i]
               g == Times(b.rate, d)
    <3>1. log2[i] = log[i] /\ log[i] \in Nat /\ log[i] <= now /\ Times(m, Unit) + b.tokens <= cap + g
      BY <1>4, <1>6, <2>1
    <3>2. m \in Int /\ (n + 1) - i + 1 = m + 1 /\ d \in Int
      BY <1>1, <2>1, <3>1
    <3>3. g \in Int
      <4> HIDE DEF d
      <4>1. b.rate \in Int
        BY <1>1
      <4> QED  BY <3>2, <4>1, TimesType, Zenon
    <3>4. Unit <= b.tokens
      BY <1>1
    <3>5. /\ Times(m + 1, Unit) + (b.tokens - Unit) <= cap + g
          /\ Times(m + 1, Unit) <= cap + g
      <4> HIDE DEF m, g
      <4> QED  BY <1>1, <1>2, <3>1, <3>2, <3>3, <3>4, SpendSum, Zenon
    <3> QED  BY <1>3, <3>1, <3>2, <3>5
  <2>2. CASE i = n + 1
    <3>1. (n + 1) - i + 1 = 1 /\ now - log2[i] = 0 /\ log2[i] = now
      BY <1>1, <1>4, <2>2
    <3>2. Times((n + 1) - i + 1, Unit) = Unit /\ Times(b.rate, now - log2[i]) = 0
      BY <1>1, <3>1, TimesSmall
    <3> QED  BY <1>1, <1>2, <1>3, <1>5, <3>1, <3>2
  <2> QED  BY <1>1, <2>1, <2>2
<1>8. ASSUME NEW i \in 1..(n + 1), NEW j \in 1..(n + 1), i <= j
      PROVE  Times(j - i + 1, Unit) <= cap + Times(c.rate, log2[j] - log2[i])
  <2>1. CASE j \in 1..n
    <3>1. i \in 1..n
      BY <1>1, <1>8, <2>1
    <3>2. Times(j - i + 1, Unit) <= cap + Times(b.rate, log[j] - log[i])
      BY <1>6, <1>8, <2>1, <3>1
    <3> QED  BY <1>3, <1>4, <2>1, <3>1, <3>2
  <2>2. CASE j = n + 1
    <3>1. c.last = log2[j] /\ (n + 1) - i + 1 = j - i + 1
      BY <1>3, <1>4, <2>2
    <3> QED  BY <1>7, <3>1
  <2> QED  BY <1>1, <2>1, <2>2
<1>9. c.tokens <= cap
  BY <1>1, <1>2, <1>3, <1>5
<1>10. cap = Times(c.capacity, Unit)
  BY <1>3 DEF cap
<1>11. Sound(c, log2)
  BY <1>4, <1>7, <1>8, <1>9, <1>10 DEF Sound
<1> QED  BY <1>3, <1>4, <1>11 DEF c, log2

(* The bucket a call works on is sound and up to date. *)
LEMMA BucketAtHand ==
  ASSUME LimiterInv, NEW c \in Callers, calls[c] # Idle
  PROVE  LET b == Refilled(BucketFor(calls[c].key, calls[c].rule))
         IN  b \in Bucket /\ b.last = now /\ Sound(b, admitted[calls[c].key])
<1> DEFINE k == calls[c].key
           r == calls[c].rule
           b == BucketFor(k, r)
<1>1. k \in LimitKeys /\ r \in AllRules /\ now \in Nat /\ admitted[k] \in Seq(Nat)
  BY DEF LimiterInv
<1>2. b \in Bucket /\ b.last <= now /\ Sound(b, admitted[k])
  <2>1. CASE buckets[k] = NoBucket
    BY <1>1, <2>1, NewIsSound DEF BucketFor, LimiterInv
  <2>2. CASE buckets[k] # NoBucket
    BY <1>1, <2>2 DEF BucketFor, LimiterInv
  <2> QED  BY <2>1, <2>2
<1> HIDE DEF b, k, r
<1>3. Refilled(b) \in Bucket /\ Refilled(b).last = now /\ Sound(Refilled(b), admitted[k])
  BY <1>1, <1>2, RefillIsSound
<1> QED  BY <1>3 DEF b, k, r

(* Storing a sound bucket and its log keeps the invariant. *)
LEMMA StoreInv ==
  ASSUME LimiterInv, NEW c \in Callers, NEW k \in LimitKeys, NEW b \in Bucket, NEW log \in Seq(Nat),
         b.last = now, Sound(b, log), now' = now,
         buckets' = [buckets EXCEPT ![k] = b], calls' = [calls EXCEPT ![c] = Idle],
         admitted' = [admitted EXCEPT ![k] = log]
  PROVE  LimiterInv'
<1>1. NoBucket \notin Bucket
  BY LimiterAssumption DEF Bucket
<1>2. /\ now' \in Nat /\ now' <= now' /\ buckets' \in [LimitKeys -> Bucket \union {NoBucket}]
      /\ calls' \in [Callers -> {Idle} \union [kind : {"check", "peek"}, key : LimitKeys, rule : AllRules]]
      /\ admitted' \in [LimitKeys -> Seq(Nat)]
  BY DEF LimiterInv
<1>3. /\ buckets'[k] = b /\ admitted'[k] = log
      /\ \A l \in LimitKeys \ {k} : buckets'[l] = buckets[l] /\ admitted'[l] = admitted[l]
  BY DEF LimiterInv
<1>4. \A l \in LimitKeys : buckets'[l] = NoBucket => admitted'[l] = <<>>
  BY <1>1, <1>3 DEF LimiterInv
<1>5. \A l \in LimitKeys : buckets'[l] # NoBucket => buckets'[l].last <= now' /\ Sound(buckets'[l], admitted'[l])
  BY <1>2, <1>3 DEF LimiterInv
<1>6. \A l \in LimitKeys : buckets'[l] # NoBucket => (buckets[l].last <= now /\ Sound(buckets[l], admitted[l]))'
  BY <1>5 DEF Sound
<1> QED  BY <1>2, <1>4, <1>6 DEF LimiterInv

LEMMA LimiterStep == LimiterInv /\ [LimiterNext]_limiterVars => LimiterInv'
<1> SUFFICES ASSUME LimiterInv, [LimiterNext]_limiterVars PROVE LimiterInv'
  OBVIOUS
<1>1. CASE \E c \in Callers, kind \in {"check", "peek"}, k \in LimitKeys : FindRule(c, kind, k)
  BY <1>1 DEF FindRule, LimiterInv, Sound
<1>2. ASSUME NEW c \in Callers, Consume(c) PROVE LimiterInv'
  <2> DEFINE k == calls[c].key
             b == Refilled(BucketFor(k, calls[c].rule))
             spent == [b EXCEPT !.tokens = @ - Unit]
  <2>1. calls[c] # Idle /\ k \in LimitKeys
    BY <1>2 DEF Consume, LimiterInv, Idle
  <2>2. b \in Bucket /\ b.last = now /\ Sound(b, admitted[k])
    BY <2>1, BucketAtHand
  <2>3. now \in Nat /\ admitted[k] \in Seq(Nat)
    BY <2>1 DEF LimiterInv
  <2>4. CASE b.tokens >= Unit /\ buckets' = [buckets EXCEPT ![k] = spent]
             /\ admitted' = [admitted EXCEPT ![k] = Append(@, now)]
    <3>1. /\ spent \in Bucket /\ spent.last = now /\ Append(admitted[k], now) \in Seq(Nat)
          /\ Sound(spent, Append(admitted[k], now))
      BY <2>2, <2>3, <2>4, SpendIsSound
    <3>2. admitted' = [admitted EXCEPT ![k] = Append(admitted[k], now)]
      BY <2>4
    <3>3. now' = now /\ calls' = [calls EXCEPT ![c] = Idle]
      BY <1>2 DEF Consume, Reply
    <3> HIDE DEF spent, b, k
    <3> QED  BY <2>1, <2>4, <3>1, <3>2, <3>3, StoreInv
  <2>5. CASE buckets' = [buckets EXCEPT ![k] = b] /\ admitted' = admitted
    <3>1. now' = now /\ calls' = [calls EXCEPT ![c] = Idle]
      BY <1>2 DEF Consume, Reply
    <3>2. admitted' = [admitted EXCEPT ![k] = admitted[k]]
      BY <2>5 DEF LimiterInv
    <3> HIDE DEF b, k
    <3> QED  BY <2>1, <2>2, <2>3, <2>5, <3>1, <3>2, StoreInv
  <2> QED  BY <1>2, <2>4, <2>5 DEF Consume, Reply
<1>3. ASSUME NEW c \in Callers, Peek(c) PROVE LimiterInv'
  <2> DEFINE k == calls[c].key
             b == Refilled(BucketFor(k, calls[c].rule))
  <2>1. calls[c] # Idle /\ k \in LimitKeys
    BY <1>3 DEF Peek, LimiterInv, Idle
  <2>2. b \in Bucket /\ b.last = now /\ Sound(b, admitted[k])
    BY <2>1, BucketAtHand
  <2>3. now \in Nat /\ admitted[k] \in Seq(Nat) /\ admitted = [admitted EXCEPT ![k] = admitted[k]]
    BY <2>1 DEF LimiterInv
  <2>4. /\ now' = now /\ calls' = [calls EXCEPT ![c] = Idle]
        /\ buckets' = [buckets EXCEPT ![k] = b] /\ admitted' = admitted
    BY <1>3 DEF Peek, Reply
  <2> HIDE DEF b, k
  <2> QED  BY <2>1, <2>2, <2>3, <2>4, StoreInv
<1>4. ASSUME NEW c \in Callers, Abandon(c) PROVE LimiterInv'
  BY <1>4 DEF Abandon, LimiterInv, Sound
<1>5. ASSUME NEW k \in LimitKeys, Reset(k) PROVE LimiterInv'
  <2>1. /\ buckets' = [buckets EXCEPT ![k] = NoBucket] /\ admitted' = [admitted EXCEPT ![k] = <<>>]
        /\ now' = now /\ calls' = calls
    BY <1>5 DEF Reset
  <2>2. /\ buckets'[k] = NoBucket /\ admitted'[k] = <<>>
        /\ \A l \in LimitKeys \ {k} : buckets'[l] = buckets[l] /\ admitted'[l] = admitted[l]
    BY <2>1 DEF LimiterInv
  <2>3. buckets' \in [LimitKeys -> Bucket \union {NoBucket}] /\ admitted' \in [LimitKeys -> Seq(Nat)]
    BY <2>1 DEF LimiterInv
  <2>4. \A l \in LimitKeys : buckets'[l] # NoBucket => buckets'[l].last <= now' /\ Sound(buckets'[l], admitted'[l])
    BY <2>1, <2>2 DEF LimiterInv
  <2>5. \A l \in LimitKeys : buckets'[l] # NoBucket => (buckets[l].last <= now /\ Sound(buckets[l], admitted[l]))'
    BY <2>4 DEF Sound
  <2> QED  BY <2>1, <2>2, <2>3, <2>5 DEF LimiterInv
<1>6. CASE \E r \in RuleSet : AddRule(r) \/ RemoveRule(r.id)
  BY <1>6 DEF AddRule, RemoveRule, LimiterInv, Sound
<1>7. CASE Tick
  BY <1>7 DEF Tick, LimiterInv, Sound, Bucket
<1>8. CASE UNCHANGED limiterVars
  BY <1>8 DEF limiterVars, LimiterInv, Sound
<1> QED  BY <1>1, <1>2, <1>3, <1>4, <1>5, <1>6, <1>7, <1>8 DEF LimiterNext

THEOREM LimiterInvariant == LimiterSpec => []LimiterInv
<1>1. LimiterInit => LimiterInv
  BY DEF LimiterInit, LimiterInv
<1> QED  BY <1>1, LimiterStep, PTL DEF LimiterSpec

(* In no stretch of time does a bucket admit more calls than its capacity   *)
(* and what its rate refills in that stretch, for any callers, keys, rules  *)
(* and interleaving of check, peek, reset and rule changes.                 *)
THEOREM BucketsKeepTheirPromise == LimiterSpec => []WithinCapacityAndRate
<1>1. LimiterInv => WithinCapacityAndRate
  <2> SUFFICES ASSUME LimiterInv, NEW k \in LimitKeys, NEW i \in DOMAIN admitted[k],
                      NEW j \in DOMAIN admitted[k], i <= j, buckets[k] # NoBucket
               PROVE  (j - i + 1) * Unit <=
                        buckets[k].capacity * Unit + buckets[k].rate * (admitted[k][j] - admitted[k][i])
    BY DEF WithinCapacityAndRate
  <2>1. admitted[k] \in Seq(Nat) /\ DOMAIN admitted[k] = 1..Len(admitted[k])
    BY DEF LimiterInv
  <2>2. Times(j - i + 1, Unit)
          <= Times(buckets[k].capacity, Unit) + Times(buckets[k].rate, admitted[k][j] - admitted[k][i])
    BY <2>1 DEF LimiterInv, Sound
  <2> QED  BY <2>2 DEF Times
<1> QED  BY <1>1, LimiterInvariant, PTL

-----------------------------------------------------------------------------
(* Which rule decides.  A stable sort is the permutation that puts an        *)
(* element at the number of those that go before it; that there is one for  *)
(* every number is a pigeonhole argument.  So the rules stay in order, and   *)
(* the one found is the first of those that match.                          *)

(* The rules of a list that go before the one at i, itself included. *)
Ahead(list, i) == {j \in DOMAIN list : GoesBefore(list, j, i)}
Place(list, i) == Cardinality(Ahead(list, i))

LEMMA SortKeyType ==
  ASSUME NEW r \in RuleSet
  PROVE  SortKey(r) \in Int
BY LimiterAssumption DEF SortKey, AllRules

(* GoesBefore puts the places of a list into a total order. *)
LEMMA OrderOfPlaces ==
  ASSUME NEW list \in Seq(RuleSet)
  PROVE  /\ DOMAIN list = 1..Len(list)
         /\ \A i \in DOMAIN list : GoesBefore(list, i, i)
         /\ \A i, j \in DOMAIN list : GoesBefore(list, i, j) \/ GoesBefore(list, j, i)
         /\ \A i, j \in DOMAIN list : GoesBefore(list, i, j) /\ GoesBefore(list, j, i) => i = j
         /\ \A i, j, k \in DOMAIN list :
              GoesBefore(list, i, j) /\ GoesBefore(list, j, k) => GoesBefore(list, i, k)
<1> DEFINE key(i) == SortKey(list[i])
<1>1. DOMAIN list = 1..Len(list) /\ \A i \in DOMAIN list : i \in Int /\ key(i) \in Int
  BY SortKeyType
<1>2. \A i, j : GoesBefore(list, i, j) <=> key(i) < key(j) \/ (key(i) = key(j) /\ i <= j)
  BY DEF GoesBefore
<1> HIDE DEF key
<1> QED BY <1>1, <1>2

(* A rule's place is a number of the list's, and the order of the places is *)
(* that of the rules.                                                       *)
LEMMA PlacesAreInOrder ==
  ASSUME NEW list \in Seq(RuleSet)
  PROVE  /\ \A i \in DOMAIN list : Place(list, i) \in DOMAIN list
         /\ \A i, j \in DOMAIN list : i # j /\ GoesBefore(list, i, j) => Place(list, i) < Place(list, j)
<1>1. /\ DOMAIN list = 1..Len(list) /\ Len(list) \in Nat
      /\ IsFiniteSet(DOMAIN list) /\ Cardinality(DOMAIN list) = Len(list)
  <2>1. DOMAIN list = 1..Len(list) /\ Len(list) \in Nat
    OBVIOUS
  <2> QED BY <2>1, FS_Interval
<1>2. \A i \in DOMAIN list : i \in Ahead(list, i)
  BY OrderOfPlaces DEF Ahead
<1>3. ASSUME NEW i \in DOMAIN list
      PROVE  IsFiniteSet(Ahead(list, i)) /\ Place(list, i) \in 1..Len(list)
  <2>1. Ahead(list, i) \in SUBSET DOMAIN list /\ Ahead(list, i) # {}
    BY <1>2 DEF Ahead
  <2>2. IsFiniteSet(Ahead(list, i)) /\ Cardinality(Ahead(list, i)) <= Len(list)
    BY <1>1, <2>1, FS_Subset
  <2>3. Cardinality(Ahead(list, i)) \in Nat /\ Cardinality(Ahead(list, i)) # 0
    BY <2>1, <2>2, FS_CardinalityType, FS_EmptySet
  <2> QED BY <1>1, <2>2, <2>3 DEF Place
<1>4. ASSUME NEW i \in DOMAIN list, NEW j \in DOMAIN list, i # j, GoesBefore(list, i, j)
      PROVE  Place(list, i) < Place(list, j)
  <2>1. Ahead(list, i) \in SUBSET Ahead(list, j)
    BY <1>4, OrderOfPlaces DEF Ahead
  <2>2. j \in Ahead(list, j) /\ j \notin Ahead(list, i)
    BY <1>2, <1>4, OrderOfPlaces DEF Ahead
  <2>3. Cardinality(Ahead(list, i)) <= Cardinality(Ahead(list, j))
        /\ Cardinality(Ahead(list, i)) # Cardinality(Ahead(list, j))
    BY <1>3, <2>1, <2>2, FS_Subset
  <2> QED BY <1>3, <2>3 DEF Place
<1> QED BY <1>1, <1>3, <1>4

(* Every place of the list is some rule's: as many rules as places, and no  *)
(* two rules at one.                                                        *)
LEMMA EveryPlaceIsTaken ==
  ASSUME NEW list \in Seq(RuleSet), NEW p \in DOMAIN list
  PROVE  \E i \in DOMAIN list : Place(list, i) = p
<1> DEFINE f == [i \in DOMAIN list |-> Place(list, i)]
<1>1. f \in [DOMAIN list -> DOMAIN list]
  BY PlacesAreInOrder
<1>2. \A i, j \in DOMAIN list : i # j => f[i] # f[j]
  <2>1. \A i \in DOMAIN list : Place(list, i) \in Int
    BY PlacesAreInOrder, OrderOfPlaces
  <2> QED BY <2>1, PlacesAreInOrder, OrderOfPlaces
<1>3. f \in Injection(DOMAIN list, DOMAIN list)
  BY <1>1, <1>2 DEF Injection, IsInjective
<1>4. IsFiniteSet(DOMAIN list)
  <2>1. DOMAIN list = 1..Len(list) /\ Len(list) \in Nat
    OBVIOUS
  <2> QED BY <2>1, FS_Interval
<1>5. f \in Surjection(DOMAIN list, DOMAIN list)
  <2> HIDE DEF f
  <2> QED BY <1>3, <1>4, FS_Injection
<1> QED BY <1>5 DEF Surjection

(* StableSort permutes its list, and puts it in order. *)
LEMMA SortPermutes ==
  ASSUME NEW list \in Seq(RuleSet)
  PROVE  /\ StableSort(list) \in Seq(RuleSet)
         /\ Len(StableSort(list)) = Len(list)
         /\ \E at \in Bijection(DOMAIN list, DOMAIN list) :
              /\ \A p \in DOMAIN list : StableSort(list)[p] = list[at[p]]
              /\ \A p, q \in DOMAIN list : p <= q => GoesBefore(list, at[p], at[q])
<1> DEFINE at == [p \in DOMAIN list |-> CHOOSE i \in DOMAIN list : Place(list, i) = p]
<1>1. ASSUME NEW p \in DOMAIN list PROVE at[p] \in DOMAIN list /\ Place(list, at[p]) = p
  BY EveryPlaceIsTaken
<1>2. StableSort(list) = [p \in DOMAIN list |-> list[at[p]]]
  BY DEF StableSort, Place, Ahead
<1> HIDE DEF at
<1>3. DOMAIN list = 1..Len(list) /\ Len(list) \in Nat /\ \A i \in DOMAIN list : list[i] \in RuleSet
  OBVIOUS
<1>4. StableSort(list) \in Seq(RuleSet) /\ Len(StableSort(list)) = Len(list)
  <2>1. StableSort(list) \in [1..Len(list) -> RuleSet]
    BY <1>1, <1>2, <1>3
  <2> QED BY <1>3, <2>1
<1>5. at \in Bijection(DOMAIN list, DOMAIN list)
  <2>1. at \in [DOMAIN list -> DOMAIN list]
    BY <1>1 DEF at
  <2>2. \A p, q \in DOMAIN list : at[p] = at[q] => p = q
    BY <1>1
  <2>3. ASSUME NEW i \in DOMAIN list PROVE \E p \in DOMAIN list : at[p] = i
    <3>1. Place(list, i) \in DOMAIN list /\ at[Place(list, i)] \in DOMAIN list
          /\ Place(list, at[Place(list, i)]) = Place(list, i)
      BY <1>1, PlacesAreInOrder
    <3>2. \A j \in DOMAIN list : Place(list, j) \in Int
      BY <1>3, PlacesAreInOrder
    <3>3. at[Place(list, i)] = i
      BY <3>1, <3>2, PlacesAreInOrder, OrderOfPlaces
    <3> QED BY <3>1, <3>3
  <2>4. at \in Injection(DOMAIN list, DOMAIN list)
    BY <2>1, <2>2 DEF Injection, IsInjective
  <2>5. at \in Surjection(DOMAIN list, DOMAIN list)
    BY <2>1, <2>3 DEF Surjection
  <2> QED BY <2>4, <2>5 DEF Bijection
<1>6. ASSUME NEW p \in DOMAIN list, NEW q \in DOMAIN list, p <= q
      PROVE  GoesBefore(list, at[p], at[q])
  <2>1. at[p] \in DOMAIN list /\ at[q] \in DOMAIN list /\ Place(list, at[p]) = p /\ Place(list, at[q]) = q
    BY <1>1
  <2>2. ~ (Place(list, at[q]) < Place(list, at[p]))
    BY <1>3, <1>6, <2>1
  <2> QED BY <2>1, <2>2, PlacesAreInOrder, OrderOfPlaces
<1> QED BY <1>2, <1>4, <1>5, <1>6

(* Of some places of a list, one goes before the others. *)
LEMMA OneGoesFirst ==
  ASSUME NEW list \in Seq(RuleSet), NEW S \in SUBSET DOMAIN list, S # {}
  PROVE  \E i \in S : \A j \in S : GoesBefore(list, i, j)
<1> DEFINE R == {ss \in Nat \X Nat : ss[1] < ss[2]}
           T == {Place(list, i) : i \in S}
<1>1. IsWellFoundedOn(R, Nat)
  BY NatLessThanWellFounded DEF OpToRel
<1>2. \A i \in DOMAIN list : Place(list, i) \in Nat
  BY PlacesAreInOrder, OrderOfPlaces
<1>3. T \subseteq Nat /\ T # {}
  BY <1>2
<1>4. PICK n \in T : \A m \in T : <<m, n>> \notin R
  <2> HIDE DEF T, R
  <2> QED BY <1>1, <1>3, WFMin
<1>5. PICK i \in S : n = Place(list, i)
  BY <1>4
<1>6. \A j \in S : ~ (Place(list, j) < Place(list, i))
  BY <1>2, <1>4, <1>5
<1> QED BY <1>6, PlacesAreInOrder, OrderOfPlaces
(* Rules are listed by their keys, and have different ids. *)
RulesInOrder ==
  /\ rules \in Seq(RuleSet)
  /\ \A i, j \in DOMAIN rules :
       i < j => rules[i].id # rules[j].id /\ SortKey(rules[i]) <= SortKey(rules[j])

(* A rule is added only under an id that no other has. *)
LEMMA AddKeepsOrder ==
  ASSUME RulesInOrder, NEW r \in RuleSet, AddRule(r)
  PROVE  RulesInOrder'
<1> DEFINE list == Append(rules, r)
<1>1. rules \in Seq(RuleSet) /\ list \in Seq(RuleSet)
  BY DEF RulesInOrder
<1>2. \A i, j \in DOMAIN list : i # j => list[i].id # list[j].id
  <2>1. \A i, j \in DOMAIN rules : i # j => rules[i].id # rules[j].id
    <3>1. \A i \in DOMAIN rules : i \in Int
      BY <1>1
    <3> QED BY <3>1 DEF RulesInOrder
  <2>2. \A i \in DOMAIN rules : rules[i].id # r.id
    BY DEF AddRule
  <2>3. DOMAIN rules = 1..Len(rules) /\ DOMAIN list = 1..(Len(rules) + 1) /\ Len(rules) \in Nat
        /\ list[Len(rules) + 1] = r /\ \A i \in DOMAIN rules : list[i] = rules[i]
    BY <1>1
  <2>4. \A i \in DOMAIN list : i \in DOMAIN rules \/ i = Len(rules) + 1
    BY <2>3
  <2> QED BY <2>1, <2>2, <2>3, <2>4
<1>3. rules' = StableSort(list)
  BY DEF AddRule
<1> HIDE DEF list
<1>4. PICK at \in Bijection(DOMAIN list, DOMAIN list) :
        /\ \A p \in DOMAIN list : StableSort(list)[p] = list[at[p]]
        /\ \A p, q \in DOMAIN list : p <= q => GoesBefore(list, at[p], at[q])
  BY <1>1, SortPermutes
<1>5. rules' \in Seq(RuleSet) /\ DOMAIN rules' = DOMAIN list /\ DOMAIN list = 1..Len(list) /\ Len(list) \in Nat
  <2>1. StableSort(list) \in Seq(RuleSet) /\ Len(StableSort(list)) = Len(list)
    BY <1>1, SortPermutes
  <2> QED BY <1>1, <1>3, <2>1
<1>6. ASSUME NEW p \in DOMAIN list, NEW q \in DOMAIN list, p < q
      PROVE  rules'[p].id # rules'[q].id /\ SortKey(rules'[p]) <= SortKey(rules'[q])
  <2>1. at[p] \in DOMAIN list /\ at[q] \in DOMAIN list /\ at[p] # at[q]
    BY <1>5, <1>6 DEF Bijection, Injection, IsInjective
  <2>2. GoesBefore(list, at[p], at[q])
    BY <1>4, <1>5, <1>6
  <2>3. rules'[p] = list[at[p]] /\ rules'[q] = list[at[q]] /\ list[at[p]] \in RuleSet /\ list[at[q]] \in RuleSet
    BY <1>1, <1>3, <1>4, <2>1
  <2>4. SortKey(list[at[p]]) \in Int /\ SortKey(list[at[q]]) \in Int
    BY <2>3, SortKeyType
  <2> QED BY <1>2, <2>1, <2>2, <2>3, <2>4 DEF GoesBefore
<1>7. \A i, j \in DOMAIN rules' : i < j => (rules'[i].id # rules'[j].id /\ SortKey(rules'[i]) <= SortKey(rules'[j]))
  BY <1>5, <1>6
<1> QED BY <1>5, <1>7 DEF RulesInOrder, SortKey

(* What Vec::remove leaves: the rules before the place, and those after it, *)
(* one place earlier.                                                       *)
LEMMA RemovedAt ==
  ASSUME NEW list \in Seq(RuleSet), NEW i \in DOMAIN list
  PROVE  LET left == SubSeq(list, 1, i - 1) \o SubSeq(list, i + 1, Len(list))
         IN  /\ left \in Seq(RuleSet)
             /\ DOMAIN left = 1..(Len(list) - 1)
             /\ \A p \in DOMAIN left : left[p] = IF p < i THEN list[p] ELSE list[p + 1]
<1> DEFINE low == SubSeq(list, 1, i - 1)
           high == SubSeq(list, i + 1, Len(list))
           left == low \o high
<1>1. DOMAIN list = 1..Len(list) /\ Len(list) \in Nat /\ i \in 1..Len(list)
  OBVIOUS
<1>2. low \in Seq(RuleSet) /\ Len(low) = i - 1 /\ \A p \in 1..(i - 1) : low[p] = list[p]
  BY <1>1
<1>3. high \in Seq(RuleSet) /\ Len(high) = Len(list) - i /\ \A p \in 1..(Len(list) - i) : high[p] = list[p + i]
  BY <1>1
<1> HIDE DEF low, high
<1>4. left \in Seq(RuleSet) /\ Len(left) = Len(list) - 1
  <2>1. left \in Seq(RuleSet)
    BY <1>2, <1>3
  <2>2. Len(left) = Len(low) + Len(high)
    BY <1>2, <1>3
  <2> QED BY <1>1, <1>2, <1>3, <2>1, <2>2
<1>5. \A p \in 1..(Len(list) - 1) : left[p] = IF p < i THEN low[p] ELSE high[p - (i - 1)]
  BY <1>1, <1>2, <1>3
<1>6. ASSUME NEW p \in 1..(Len(list) - 1) PROVE left[p] = IF p < i THEN list[p] ELSE list[p + 1]
  <2>1. CASE p < i
    BY <1>1, <1>2, <1>5, <2>1
  <2>2. CASE ~ (p < i)
    <3>1. p - (i - 1) \in 1..(Len(list) - i) /\ p - (i - 1) + i = p + 1
      BY <1>1, <2>2
    <3> QED BY <1>3, <1>5, <2>2, <3>1
  <2> QED BY <2>1, <2>2
<1>7. DOMAIN left = 1..(Len(list) - 1)
  BY <1>4
<1> QED BY <1>4, <1>6, <1>7 DEF low, high

(* A rule goes, the others stay in order. *)
LEMMA RemoveKeepsOrder ==
  ASSUME RulesInOrder, NEW id, RemoveRule(id)
  PROVE  RulesInOrder'
<1>1. PICK i \in DOMAIN rules : rules' = SubSeq(rules, 1, i - 1) \o SubSeq(rules, i + 1, Len(rules))
  BY DEF RemoveRule
<1>2. rules \in Seq(RuleSet) /\ DOMAIN rules = 1..Len(rules) /\ Len(rules) \in Nat
  BY DEF RulesInOrder
<1>3. /\ rules' \in Seq(RuleSet)
      /\ DOMAIN rules' = 1..(Len(rules) - 1)
      /\ \A p \in DOMAIN rules' : rules'[p] = IF p < i THEN rules[p] ELSE rules[p + 1]
  BY <1>1, <1>2, RemovedAt
<1>4. ASSUME NEW p \in DOMAIN rules', NEW q \in DOMAIN rules', p < q
      PROVE  rules'[p].id # rules'[q].id /\ SortKey(rules'[p]) <= SortKey(rules'[q])
  <2> DEFINE from(n) == IF n < i THEN n ELSE n + 1
  <2>1. from(p) \in DOMAIN rules /\ from(q) \in DOMAIN rules /\ from(p) < from(q)
    BY <1>2, <1>3, <1>4
  <2>2. rules'[p] = rules[from(p)] /\ rules'[q] = rules[from(q)]
    BY <1>3
  <2> HIDE DEF from
  <2> QED BY <2>1, <2>2 DEF RulesInOrder
<1> QED BY <1>3, <1>4 DEF RulesInOrder, SortKey

(* The rule found is one of those that match, and goes before the others.   *)
LEMMA RuleFound ==
  ASSUME rules \in Seq(RuleSet), NEW k, NEW i \in DOMAIN rules, RuleMatches(rules[i], k)
  PROVE  \E f \in DOMAIN rules :
           /\ FindMatchingRule(k) = rules[f] /\ RuleMatches(rules[f], k)
           /\ \A j \in DOMAIN rules : RuleMatches(rules[j], k) => GoesBefore(rules, f, j)
<1> DEFINE matching == {j \in DOMAIN rules : RuleMatches(rules[j], k)}
           f == CHOOSE j \in matching : \A l \in matching : GoesBefore(rules, j, l)
<1>1. \E j \in matching : \A l \in matching : GoesBefore(rules, j, l)
  <2>1. matching \in SUBSET DOMAIN rules /\ matching # {}
    OBVIOUS
  <2> HIDE DEF matching
  <2> QED BY <2>1, OneGoesFirst
<1>2. f \in matching /\ \A l \in matching : GoesBefore(rules, f, l)
  BY <1>1
<1>3. FindMatchingRule(k) = rules[f]
  BY <1>1 DEF FindMatchingRule
<1> HIDE DEF f
<1> QED BY <1>2, <1>3

(* The rule found for a key has the highest priority of those that match,   *)
(* as long as no priority is the least one of its type, whose sort key does *)
(* not change sign.  (find_matching_rule)                                   *)
HighestPriorityDecides ==
  \A k \in LimitKeys : \A i \in DOMAIN rules :
    (RuleMatches(rules[i], k) /\ \A j \in DOMAIN rules : rules[j].priority # MinPriority)
      => FindMatchingRule(k).priority >= rules[i].priority

(* The order of the keys is the other way round from that of the           *)
(* priorities, but for the least one.                                       *)
LEMMA PriorityDecides == RulesInOrder => HighestPriorityDecides
<1> SUFFICES ASSUME RulesInOrder, NEW k \in LimitKeys, NEW i \in DOMAIN rules, RuleMatches(rules[i], k),
                    \A j \in DOMAIN rules : rules[j].priority # MinPriority
             PROVE  FindMatchingRule(k).priority >= rules[i].priority
  BY DEF HighestPriorityDecides
<1>1. rules \in Seq(RuleSet)
  BY DEF RulesInOrder
<1>2. PICK f \in DOMAIN rules : FindMatchingRule(k) = rules[f] /\ GoesBefore(rules, f, i)
  BY <1>1, RuleFound
<1>3. rules[f].priority \in Int /\ rules[i].priority \in Int
  BY <1>1, LimiterAssumption DEF AllRules
<1>4. - rules[f].priority <= - rules[i].priority
  BY <1>2, <1>3 DEF GoesBefore, SortKey
<1> QED BY <1>2, <1>3, <1>4

LimiterTypesInv ==
  /\ LimiterInv /\ RulesInOrder
  /\ undisturbed \in [Callers -> BOOLEAN]

LEMMA LimiterTypesStep == LimiterTypesInv /\ [LimiterNext]_limiterVars => LimiterTypesInv'
<1> SUFFICES ASSUME LimiterTypesInv, [LimiterNext]_limiterVars PROVE LimiterTypesInv'
  OBVIOUS
<1>1. LimiterInv'
  BY LimiterStep DEF LimiterTypesInv
<1>2. RulesInOrder'
  <2>1. CASE \E r \in RuleSet : AddRule(r)
    BY <2>1, AddKeepsOrder DEF LimiterTypesInv
  <2>2. CASE \E r \in RuleSet : RemoveRule(r.id)
    BY <2>2, RemoveKeepsOrder DEF LimiterTypesInv
  <2>3. CASE rules' = rules
    BY <2>3 DEF LimiterTypesInv, RulesInOrder, SortKey
  <2> QED BY <2>1, <2>2, <2>3
          DEF LimiterNext, FindRule, Consume, Peek, Reply, Abandon, Reset, Tick, limiterVars
<1>3. undisturbed' \in [Callers -> BOOLEAN]
  BY DEF LimiterTypesInv, LimiterNext, FindRule, Consume, Peek, Reply, Abandon, Reset, AddRule, RemoveRule,
         Tick, limiterVars
<1> QED BY <1>1, <1>2, <1>3 DEF LimiterTypesInv

(* Types of the limiter's state, buckets that are never over-full and never *)
(* younger than their last refill, and rules that stay sorted, each id once, *)
(* whatever is added and removed.  (add_rule, remove_rule, with_bucket)     *)
THEOREM LimiterTypes == LimiterSpec => [](LimiterTypeOK /\ RulesInOrder)
<1>1. LimiterInit => LimiterTypesInv
  BY DEF LimiterInit, LimiterTypesInv, LimiterInv, RulesInOrder
<1>2. LimiterTypesInv => LimiterTypeOK /\ RulesInOrder
  BY DEF LimiterTypesInv, LimiterInv, LimiterTypeOK, RulesInOrder, Sound, Times
<1> QED BY <1>1, <1>2, LimiterTypesStep, PTL DEF LimiterSpec

(* For any rules and keys: of the rules in force that match a key, one of   *)
(* the highest priority is found, as long as no priority is i32::MIN.        *)
(* (find_matching_rule)                                                      *)
THEOREM HighestPriorityIsFound == LimiterSpec => []HighestPriorityDecides
BY LimiterTypes, PriorityDecides, PTL

-----------------------------------------------------------------------------
(* Waiting as long as reset_after_secs said is enough, for rules of at      *)
(* least one token.  (A bucket of capacity zero never holds a token, and    *)
(* reset_after_secs does not say so.)                                       *)
(*                                                                          *)
(* The promise is made in terms of a moment, now + reset, and is kept by a  *)
(* bucket that others refill meanwhile.  The invariant says of the bucket   *)
(* as it stands that the token is due by that moment.                       *)
Due(b, t) ==
  \/ b.tokens >= Unit
  \/ b.tokens + Times(b.rate, t - b.last) >= Unit

Promised(c) ==
  LET a == answers[c] IN
  /\ a.kind # "none"
  /\ a.key \in LimitKeys
  /\ a.at \in Nat
  /\ buckets[a.key] # NoBucket
  /\ a.reset # Never => a.reset \in Nat /\ Due(buckets[a.key], a.at + a.reset)

WaitInv ==
  /\ answers = [c \in Callers |-> answers[c]]
  /\ undisturbed \in [Callers -> BOOLEAN]
  /\ \A k \in LimitKeys : buckets[k] # NoBucket => buckets[k].capacity > 0
  /\ \A c \in Callers : undisturbed[c] => Promised(c)

LEMMA DivDef ==
  ASSUME NEW y \in Nat, NEW r \in Nat \ {0}
  PROVE  y \div r \in Nat /\ y % r \in 0..(r - 1) /\ y = r * (y \div r) + (y % r)
OBVIOUS

(* Division rounded up. *)
LEMMA DivEnough ==
  ASSUME NEW x \in Nat, NEW r \in Nat \ {0}
  PROVE  (x + r - 1) \div r \in Nat /\ Times(r, (x + r - 1) \div r) >= x
<1> DEFINE y == x + r - 1
           q == y \div r
<1>1. y \in Nat
  OBVIOUS
<1>2. q \in Nat /\ y % r \in 0..(r - 1) /\ y = r * q + (y % r)
  BY <1>1, DivDef
<1>3. r * q \in Int
  BY <1>2
<1> QED  BY <1>1, <1>2, <1>3 DEF Times

(* What a refill leaves in a bucket. *)
LEMMA RefillTokens ==
  ASSUME now \in Nat, NEW b \in Bucket, b.last <= now
  PROVE  LET gain == Times(b.rate, now - b.last)
             cap == Times(b.capacity, Unit)
         IN  /\ gain \in Nat /\ cap \in Nat
             /\ Refilled(b) = [b EXCEPT !.tokens = Least(b.tokens + gain, cap), !.last = now]
<1>1. /\ b.tokens \in Nat /\ b.last \in Nat /\ b.capacity \in Nat /\ b.rate \in Nat
      /\ Unit \in Nat /\ now - b.last \in Nat
  BY LimiterAssumption DEF Bucket
<1>2. Times(b.rate, now - b.last) \in Nat /\ Times(b.capacity, Unit) \in Nat
  BY <1>1, TimesNat
<1>3. Times(now - b.last, b.rate) = Times(b.rate, now - b.last)
  BY <1>1, TimesSwap
<1>4. (now - b.last) * b.rate = Times(now - b.last, b.rate) /\ b.capacity * Unit = Times(b.capacity, Unit)
  BY DEF Times
<1> QED  BY <1>2, <1>3, <1>4 DEF Refilled

(* A refill leaves what is due by a moment due by it, and makes it there    *)
(* from that moment on.                                                     *)
LEMMA RefillKeepsDue ==
  ASSUME now \in Nat, NEW b \in Bucket, b.last <= now, b.capacity > 0,
         NEW t \in Nat, Due(b, t)
  PROVE  Due(Refilled(b), t) /\ (now >= t => Refilled(b).tokens >= Unit)
<1> DEFINE gain == Times(b.rate, now - b.last)
           cap == Times(b.capacity, Unit)
           c == Refilled(b)
           early == Times(b.rate, t - b.last)
           late == Times(b.rate, t - now)
<1>1. /\ b.tokens \in Nat /\ b.last \in Nat /\ b.capacity \in Nat \ {0} /\ b.rate \in Nat
      /\ Unit \in Nat
  BY LimiterAssumption DEF Bucket
<1>2. gain \in Nat /\ cap \in Nat /\ c = [b EXCEPT !.tokens = Least(b.tokens + gain, cap), !.last = now]
  BY RefillTokens
<1>3. c.tokens = Least(b.tokens + gain, cap) /\ c.last = now /\ c.rate = b.rate
  BY <1>2 DEF Bucket
<1>4. cap >= Unit
  <2>1. PICK n \in Nat : b.capacity = n + 1
    BY <1>1
  <2>2. n \in Int /\ Unit \in Int
    BY <1>1
  <2>3. Times(n + 1, Unit) = Times(n, Unit) + Unit /\ Times(n, Unit) \in Nat
    BY <1>1, <2>2, TimesNext, TimesNat, Zenon
  <2> QED  BY <1>1, <2>1, <2>3
<1>5. early \in Int /\ late \in Int
  <2>1. b.rate \in Int /\ t - b.last \in Int /\ t - now \in Int
    BY <1>1
  <2> QED  BY <2>1, TimesType, Zenon
<1>6. early = gain + late
  <2>1. t - b.last = (now - b.last) + (t - now) /\ now - b.last \in Int /\ t - now \in Int /\ b.rate \in Int
    BY <1>1
  <2>2. Times(b.rate, now - b.last) + Times(b.rate, t - now) = Times(b.rate, (now - b.last) + (t - now))
    BY <2>1, TimesSplit, Zenon
  <2> QED  BY <2>1, <2>2
<1>7. now >= t => late <= 0
  <2> SUFFICES ASSUME now >= t PROVE late <= 0
    OBVIOUS
  <2> DEFINE w == now - t
  <2>1. w \in Nat /\ t - now \in Int /\ w + (t - now) = 0 /\ b.rate \in Int
    BY <1>1
  <2>2. Times(b.rate, w) \in Nat
    BY <1>1, <2>1, TimesNat
  <2>3. Times(b.rate, w) + Times(b.rate, t - now) = Times(b.rate, 0)
    <3>1. Times(b.rate, w) + Times(b.rate, t - now) = Times(b.rate, w + (t - now))
      <4> HIDE DEF w
      <4>1. w \in Int
        BY <2>1
      <4> QED  BY <2>1, <4>1, TimesSplit, Zenon
    <3> HIDE DEF w
    <3> QED  BY <2>1, <3>1
  <2>4. Times(b.rate, 0) = 0
    BY <2>1, TimesSmall
  <2> HIDE DEF w
  <2> QED  BY <1>5, <2>2, <2>3, <2>4
<1>8. b.tokens >= Unit \/ b.tokens + early >= Unit
  BY DEF Due
<1>9. c.tokens >= Unit \/ c.tokens + late >= Unit
  <2> HIDE DEF gain, cap, c, early, late
  <2> QED  BY <1>1, <1>2, <1>3, <1>4, <1>5, <1>6, <1>8 DEF Least
<1>10. now >= t => c.tokens >= Unit
  <2> HIDE DEF gain, cap, c, early, late
  <2>1. c.tokens \in Nat
    BY <1>1, <1>2, <1>3 DEF Least
  <2> QED  BY <1>1, <1>5, <1>7, <1>9, <2>1
<1> HIDE DEF c
<1> QED  BY <1>3, <1>9, <1>10 DEF Due, c

(* A caller is told of a moment by which a token is due. *)
LEMMA AnswerIsDue ==
  ASSUME now \in Nat, NEW b \in Bucket, b.last = now, ResetAfter(b) # Never
  PROVE  ResetAfter(b) \in Nat /\ Due(b, now + ResetAfter(b))
<1>1. b.tokens \in Nat /\ b.rate \in Nat /\ Unit \in Nat
  BY LimiterAssumption DEF Bucket
<1>2. CASE b.tokens >= Unit
  BY <1>1, <1>2 DEF ResetAfter, Due
<1>3. CASE ~ (b.tokens >= Unit)
  <2> DEFINE x == Unit - b.tokens
             s == (x + b.rate - 1) \div b.rate
  <2>1. x \in Nat /\ b.rate \in Nat \ {0} /\ ResetAfter(b) = s
    BY <1>1, <1>3 DEF ResetAfter
  <2>2. s \in Nat /\ Times(b.rate, s) >= x
    <3> HIDE DEF x
    <3> QED  BY <2>1, DivEnough
  <2>3. Times(b.rate, s) \in Nat
    BY <2>1, <2>2, TimesNat
  <2>4. (now + s) - b.last = s
    <3> HIDE DEF s
    <3> QED  BY <2>2
  <2>5. b.tokens + Times(b.rate, (now + s) - b.last) >= Unit
    <3> HIDE DEF s
    <3> QED  BY <1>1, <2>2, <2>3, <2>4
  <2> HIDE DEF s
  <2> QED  BY <2>1, <2>2, <2>5 DEF Due
<1> QED  BY <1>2, <1>3

RulesHoldAToken == \A r \in AllRules : r.capacity > 0

(* Besides what LimiterInv says, the bucket a call works on can hold a      *)
(* token, and what was due from the key's former bucket by some moment is   *)
(* due from it.                                                             *)
LEMMA BucketAtHandIsDue ==
  ASSUME LimiterInv, WaitInv, RulesHoldAToken, NEW c \in Callers, calls[c] # Idle
  PROVE  LET k == calls[c].key
             b == Refilled(BucketFor(k, calls[c].rule))
         IN  /\ b.capacity > 0
             /\ buckets[k] # NoBucket => \A t \in Nat : Due(buckets[k], t) => Due(b, t)
<1> DEFINE k == calls[c].key
           r == calls[c].rule
           b == BucketFor(k, r)
<1>1. k \in LimitKeys /\ r \in AllRules /\ now \in Nat
  BY DEF LimiterInv
<1>2. b \in Bucket /\ b.last <= now /\ b.capacity > 0
  <2>1. CASE buckets[k] = NoBucket
    BY <1>1, <2>1, NewIsSound DEF BucketFor, NewBucket, RulesHoldAToken
  <2>2. CASE buckets[k] # NoBucket
    BY <1>1, <2>2 DEF BucketFor, LimiterInv, WaitInv
  <2> QED  BY <2>1, <2>2
<1>3. buckets[k] # NoBucket => b = buckets[k]
  BY DEF BucketFor
<1> HIDE DEF b
<1>4. Refilled(b).capacity = b.capacity
  BY <1>1, <1>2, RefillTokens DEF Bucket
<1>5. \A t \in Nat : Due(b, t) => Due(Refilled(b), t)
  BY <1>1, <1>2, RefillKeepsDue
<1> QED  BY <1>2, <1>3, <1>4, <1>5 DEF b

(* The promises that are still to be kept after a call has its answer: its  *)
(* own, and those of the other keys or of its key if nothing was taken.     *)
LEMMA ReplyKeepsPromises ==
  ASSUME LimiterInv, WaitInv, NEW c \in Callers, NEW k \in LimitKeys, NEW b \in Bucket,
         b.last = now, b.capacity > 0, NEW a, Reply(c, k, b, a),
         a.kind # "none", a.key = k, a.at = now, a.reset = ResetAfter(b),
         undisturbed' \in [Callers -> BOOLEAN],
         \A d \in Callers \ {c} : undisturbed'[d] =>
           undisturbed[d] /\ (answers[d].key = k =>
             \A t \in Nat : Due(buckets[k], t) => Due(b, t))
  PROVE  WaitInv'
<1>1. /\ buckets' = [buckets EXCEPT ![k] = b] /\ now' = now /\ now \in Nat
      /\ answers' = [answers EXCEPT ![c] = a]
      /\ buckets \in [LimitKeys -> Bucket \union {NoBucket}]
  BY DEF Reply, LimiterInv
<1>2. buckets'[k] = b /\ \A l \in LimitKeys \ {k} : buckets'[l] = buckets[l]
  BY <1>1
<1>3. answers'[c] = a /\ \A d \in Callers \ {c} : answers'[d] = answers[d]
  BY <1>1 DEF WaitInv
<1>4. NoBucket \notin Bucket
  BY LimiterAssumption
<1>5. a.reset # Never => a.reset \in Nat /\ Due(b, a.at + a.reset)
  BY <1>1, AnswerIsDue
<1>6. ASSUME NEW d \in Callers, undisturbed'[d]
      PROVE  LET e == answers'[d] IN
             /\ e.kind # "none" /\ e.key \in LimitKeys /\ e.at \in Nat /\ buckets'[e.key] # NoBucket
             /\ e.reset # Never => e.reset \in Nat /\ Due(buckets'[e.key], e.at + e.reset)
  <2>1. CASE d = c
    BY <1>1, <1>2, <1>3, <1>4, <1>5, <2>1
  <2>2. CASE d # c
    <3>1. Promised(d) /\ answers'[d] = answers[d]
      BY <1>3, <1>6, <2>2 DEF WaitInv
    <3>2. CASE answers[d].key = k
      <4>1. \A t \in Nat : Due(buckets[k], t) => Due(b, t)
        BY <1>6, <2>2, <3>2
      <4>2. answers[d].reset # Never =>
              answers[d].reset \in Nat /\ answers[d].at + answers[d].reset \in Nat
        BY <3>1 DEF Promised
      <4> QED  BY <1>2, <1>4, <3>1, <3>2, <4>1, <4>2 DEF Promised
    <3>3. CASE answers[d].key # k
      BY <1>2, <3>1, <3>3 DEF Promised
    <3> QED  BY <3>2, <3>3
  <2> QED  BY <2>1, <2>2
<1>7. \A d \in Callers : undisturbed'[d] => Promised(d)'
  BY <1>6 DEF Promised, Due
<1>8. \A l \in LimitKeys : buckets'[l] # NoBucket => buckets'[l].capacity > 0
  BY <1>2 DEF WaitInv
<1>9. answers' = [d \in Callers |-> answers'[d]]
  BY <1>1 DEF WaitInv
<1> QED  BY <1>7, <1>8, <1>9 DEF WaitInv

(* A step that leaves the answers and the buckets they came from alone. *)
LEMMA OthersKeepPromises ==
  ASSUME WaitInv, answers' = answers, undisturbed' \in [Callers -> BOOLEAN],
         \A l \in LimitKeys : buckets'[l] # NoBucket => buckets'[l] = buckets[l],
         \A d \in Callers : undisturbed'[d] =>
           undisturbed[d] /\ buckets'[answers[d].key] = buckets[answers[d].key]
  PROVE  WaitInv'
<1>1. \A d \in Callers : undisturbed'[d] => Promised(d)'
  BY DEF WaitInv, Promised, Due
<1>2. \A l \in LimitKeys : buckets'[l] # NoBucket => buckets'[l].capacity > 0
  BY DEF WaitInv
<1> QED  BY <1>1, <1>2 DEF WaitInv

LEMMA WaitStep ==
  ASSUME LimiterInv, WaitInv, RulesHoldAToken, [LimiterNext]_limiterVars
  PROVE  WaitInv'
<1>1. ASSUME NEW c \in Callers, Consume(c) \/ Peek(c) PROVE WaitInv'
  <2> DEFINE k == calls[c].key
             r == calls[c].rule
             b == Refilled(BucketFor(k, r))
             spent == [b EXCEPT !.tokens = @ - Unit]
  <2>1. calls[c] # Idle /\ k \in LimitKeys
    <3>1. calls[c].kind \in {"check", "peek"}
      BY <1>1 DEF Consume, Peek
    <3>2. calls[c] # Idle
      BY <3>1 DEF Idle
    <3> QED  BY <3>2 DEF LimiterInv
  <2>2. b \in Bucket /\ b.last = now /\ Sound(b, admitted[k])
    BY <2>1, BucketAtHand
  <2>3. b.capacity > 0 /\ (buckets[k] # NoBucket => \A t \in Nat : Due(buckets[k], t) => Due(b, t))
    BY <2>1, BucketAtHandIsDue
  <2>4. \A d \in Callers : undisturbed[d] => Promised(d)
    BY DEF WaitInv
  <2>5. CASE /\ b.tokens >= Unit
             /\ Reply(c, k, spent, Answer("check", TRUE, spent, k, r))
             /\ undisturbed' = [d \in Callers |-> d = c \/ (undisturbed[d] /\ d \notin AnsweredFrom(k))]
    <3>1. now \in Nat /\ admitted[k] \in Seq(Nat)
      BY <2>1 DEF LimiterInv
    <3>2. spent \in Bucket /\ spent.last = now
      BY <2>2, <2>5, <3>1, SpendIsSound
    <3>3. spent.capacity > 0
      BY <2>2, <2>3 DEF Bucket
    <3>4. undisturbed' \in [Callers -> BOOLEAN]
      BY <2>5 DEF WaitInv
    <3>5. \A d \in Callers \ {c} : undisturbed'[d] => undisturbed[d] /\ answers[d].key # k
      BY <2>4, <2>5 DEF AnsweredFrom, Promised
    <3> DEFINE a == Answer("check", TRUE, spent, k, r)
    <3>6. a.kind # "none" /\ a.key = k /\ a.at = now /\ a.reset = ResetAfter(spent)
      BY DEF Answer
    <3>7. Reply(c, k, spent, a)
      BY <2>5
    <3> HIDE DEF a, spent, b, k, r
    <3> QED  BY <2>1, <3>2, <3>3, <3>4, <3>5, <3>6, <3>7, ReplyKeepsPromises
  <2>6. CASE /\ undisturbed' = [undisturbed EXCEPT ![c] = TRUE]
             /\ \E kind \in {"check", "peek"}, allowed \in BOOLEAN :
                  Reply(c, k, b, Answer(kind, allowed, b, k, r))
    <3>1. undisturbed' \in [Callers -> BOOLEAN]
      BY <2>6 DEF WaitInv
    <3>2. \A d \in Callers \ {c} : undisturbed'[d] => undisturbed[d]
      BY <2>6 DEF WaitInv
    <3>3. \A d \in Callers \ {c} : undisturbed'[d] =>
            undisturbed[d] /\ (answers[d].key = k => \A t \in Nat : Due(buckets[k], t) => Due(b, t))
      <4> HIDE DEF b, k
      <4> QED  BY <2>3, <2>4, <3>2 DEF Promised
    <3>4. PICK kind \in {"check", "peek"}, allowed \in BOOLEAN :
            Reply(c, k, b, Answer(kind, allowed, b, k, r))
      BY <2>6
    <3> DEFINE a == Answer(kind, allowed, b, k, r)
    <3>5. a.kind # "none" /\ a.key = k /\ a.at = now /\ a.reset = ResetAfter(b)
      BY DEF Answer
    <3>6. Reply(c, k, b, a)
      BY <3>4
    <3> HIDE DEF a, spent, b, k, r
    <3> QED  BY <2>1, <2>2, <2>3, <3>1, <3>3, <3>5, <3>6, ReplyKeepsPromises
  <2>7. (b.tokens >= Unit) \in BOOLEAN
    OBVIOUS
  <2> QED  BY <1>1, <2>5, <2>6, <2>7, Zenon DEF Consume, Peek
<1>2. ASSUME NEW k \in LimitKeys, Reset(k) PROVE WaitInv'
  <2>1. /\ buckets' = [buckets EXCEPT ![k] = NoBucket] /\ answers' = answers
        /\ undisturbed' = [c \in Callers |-> undisturbed[c] /\ c \notin AnsweredFrom(k)]
    BY <1>2 DEF Reset
  <2>2. undisturbed' \in [Callers -> BOOLEAN]
    BY <2>1 DEF WaitInv
  <2>3. \A l \in LimitKeys : buckets'[l] # NoBucket => buckets'[l] = buckets[l]
    BY <2>1 DEF LimiterInv
  <2>4. \A d \in Callers : undisturbed'[d] =>
          undisturbed[d] /\ answers[d].key \in LimitKeys \ {k}
    BY <2>1 DEF AnsweredFrom, WaitInv, Promised
  <2>5. \A d \in Callers : undisturbed'[d] =>
          undisturbed[d] /\ buckets'[answers[d].key] = buckets[answers[d].key]
    BY <2>1, <2>4 DEF LimiterInv
  <2> QED  BY <2>1, <2>2, <2>3, <2>5, OthersKeepPromises
<1>3. ASSUME buckets' = buckets, answers' = answers, undisturbed' = undisturbed PROVE WaitInv'
  <2>1. undisturbed' \in [Callers -> BOOLEAN]
    BY <1>3 DEF WaitInv
  <2> QED  BY <1>3, <2>1, OthersKeepPromises
<1> QED  BY <1>1, <1>2, <1>3
         DEF LimiterNext, FindRule, AddRule, RemoveRule, Abandon, Tick, limiterVars

(* Whoever waits as long as it was told, while nobody else takes a token    *)
(* from its bucket, finds one there: for rules that hold at least a token   *)
(* each, and for any callers, keys, rules, unit and interleaving.           *)
(* (reset_after_secs, rounded up, against refill's cap)                     *)
THEOREM WaitingIsEnough ==
  ASSUME RulesHoldAToken
  PROVE  LimiterSpec => []ResetAfterIsEnough
<1>1. LimiterInit => WaitInv
  BY DEF LimiterInit, WaitInv, Promised
<1>2. LimiterInv /\ WaitInv /\ [LimiterNext]_limiterVars => WaitInv'
  BY WaitStep
<1>3. LimiterInv /\ WaitInv => ResetAfterIsEnough
  <2> SUFFICES ASSUME LimiterInv, WaitInv, NEW c \in Callers, undisturbed[c],
                      answers[c].reset # Never, now >= answers[c].at + answers[c].reset
               PROVE  /\ buckets[answers[c].key] # NoBucket
                      /\ Refilled(buckets[answers[c].key]).tokens >= Unit
    BY DEF ResetAfterIsEnough
  <2> DEFINE b == buckets[answers[c].key]
             t == answers[c].at + answers[c].reset
  <2>1. Promised(c)
    BY DEF WaitInv
  <2>2. b # NoBucket /\ t \in Nat /\ Due(b, t) /\ now >= t
    BY <2>1 DEF Promised
  <2>3. now \in Nat /\ b \in Bucket /\ b.last <= now /\ b.capacity > 0
    BY <2>1, <2>2 DEF Promised, LimiterInv, WaitInv
  <2> HIDE DEF b, t
  <2>4. Refilled(b).tokens >= Unit
    BY <2>2, <2>3, RefillKeepsDue
  <2> QED  BY <2>2, <2>4 DEF b
<1> QED  BY <1>1, <1>2, <1>3, LimiterInvariant, PTL DEF LimiterSpec

-----------------------------------------------------------------------------
(* The Cedar authorizer.  A decision that was made is the one that the      *)
(* policies in force make of its query: a reload stores what is in force    *)
(* already, because the kept text never changes.                            *)
CedarInv ==
  /\ source \in PolicyFiles /\ policies = source /\ reload \in {None, source}
  /\ \A c \in Evaluations : query[c] # None => query[c].granted = granted[c]
  /\ \A c \in Evaluations : Answered(c) =>
       query[c] # None /\ answer[c] = Decision(policies, query[c])

(* Without a principal in any policy, the principal does not matter. *)
LEMMA PrincipalIsIgnored ==
  ASSUME NEW set, NamesNoPrincipal(set), NEW p, NEW q,
         p.action = q.action, p.resource = q.resource, p.granted = q.granted
  PROVE  Decision(set, p) = Decision(set, q)
<1>1. \A policy \in set : Applies(policy, p) <=> Applies(policy, q)
  BY DEF NamesNoPrincipal, Applies, ResourceType, ScopesOf
<1> QED  BY <1>1 DEF Decision

LEMMA CedarTypes ==
  ASSUME CedarTypeOK, [CedarNext]_cedarVars
  PROVE  CedarTypeOK'
<1> USE DEF CedarTypeOK
<1>1. ASSUME NEW c \in Evaluations, Ask(c) PROVE CedarTypeOK'
  <2>1. PICK scopes \in SUBSET Scopes, method \in Methods, name \in ResourceNames \union {AnyName} :
          \E principal \in RoutersPrincipals(scopes) :
            /\ granted' = [granted EXCEPT ![c] = scopes]
            /\ query' = [query EXCEPT ![c] = [principal |-> principal, action |-> method,
                                             resource |-> name, granted |-> scopes]]
            /\ UNCHANGED <<file, source, policies, reload, answer>>
    BY <1>1 DEF Ask
  <2>2. PICK principal \in RoutersPrincipals(scopes) :
          /\ granted' = [granted EXCEPT ![c] = scopes]
          /\ query' = [query EXCEPT ![c] = [principal |-> principal, action |-> method,
                                           resource |-> name, granted |-> scopes]]
          /\ UNCHANGED <<file, source, policies, reload, answer>>
    BY <2>1
  <2>3. principal \in Ids /\ principal \in scopes \union {Anonymous}
    BY DEF RoutersPrincipals, Ids
  <2>4. [principal |-> principal, action |-> method, resource |-> name, granted |-> scopes] \in Query
    BY <2>3 DEF Query
  <2> QED  BY <2>2, <2>3, <2>4
<1>2. ASSUME NEW c \in Evaluations, Authorize(c) PROVE CedarTypeOK'
  BY <1>2 DEF Authorize, Decision
<1> QED  BY <1>1, <1>2, CedarAssumption
         DEF CedarNext, BeginReload, EndReload, EditFile, cedarVars

LEMMA CedarStep ==
  ASSUME CedarTypeOK, CedarInv, [CedarNext]_cedarVars
  PROVE  CedarInv'
<1>1. ASSUME NEW c \in Evaluations, Ask(c) PROVE CedarInv'
  <2>1. PICK scopes, q :
          /\ query[c] = None /\ q.granted = scopes
          /\ granted' = [granted EXCEPT ![c] = scopes]
          /\ query' = [query EXCEPT ![c] = q]
          /\ UNCHANGED <<source, policies, reload, answer>>
    BY <1>1 DEF Ask
  <2>2. \A d \in Evaluations \ {c} : granted'[d] = granted[d] /\ query'[d] = query[d]
    BY <2>1 DEF CedarTypeOK
  <2>3. granted'[c] = scopes /\ query'[c] = q /\ ~Answered(c) /\ ~Answered(c)'
    BY <2>1 DEF CedarTypeOK, CedarInv, Answered
  <2> QED  BY <2>1, <2>2, <2>3 DEF CedarInv, Answered
<1>2. ASSUME NEW c \in Evaluations, Authorize(c) PROVE CedarInv'
  <2>1. /\ query[c] # None
        /\ answer' = [answer EXCEPT ![c] = IF Builds(query[c]) THEN Decision(policies, query[c])
                                           ELSE "EvaluationError"]
        /\ UNCHANGED <<source, policies, reload, granted, query>>
    BY <1>2 DEF Authorize
  <2>2. answer'[c] \in {Decision(policies, query[c]), "EvaluationError"}
        /\ \A d \in Evaluations \ {c} : answer'[d] = answer[d]
    BY <2>1 DEF CedarTypeOK
  <2> QED  BY <2>1, <2>2 DEF CedarInv, Answered
<1> QED  BY <1>1, <1>2, CedarAssumption
         DEF CedarNext, BeginReload, EndReload, EditFile, cedarVars, CedarInv, Answered

THEOREM CedarInvariant == CedarSpec => [](CedarTypeOK /\ CedarInv)
<1>1. CedarInit => CedarTypeOK /\ CedarInv
  BY DEF CedarInit, CedarTypeOK, CedarInv, Answered
<1>2. CedarTypeOK /\ CedarInv /\ [CedarNext]_cedarVars => (CedarTypeOK /\ CedarInv)'
  BY CedarTypes, CedarStep
<1> QED  BY <1>1, <1>2, PTL DEF CedarSpec

(* Where no policy names a principal, two clients with the same scopes that *)
(* ask for the same thing get the same decision, for any policies, scopes   *)
(* and names, whatever scope a HashSet yields first and whatever is         *)
(* reloaded or edited in between.  (handle_request, reload_policies)        *)
THEOREM OrderOfScopesIsIgnored == CedarSpec => []ScopesAloneDecide
<1>1. CedarTypeOK /\ CedarInv => ScopesAloneDecide
  <2> SUFFICES ASSUME CedarTypeOK, CedarInv, NamesNoPrincipal(policies), NEW c \in Evaluations,
                      NEW d \in Evaluations, Alike(c, d), granted[c] = granted[d]
               PROVE  answer[c] = answer[d]
    BY DEF ScopesAloneDecide
  <2>1. /\ answer[c] = Decision(policies, query[c]) /\ query[c].granted = granted[c]
        /\ answer[d] = Decision(policies, query[d]) /\ query[d].granted = granted[d]
    BY DEF CedarInv, Alike
  <2>2. query[c].action = query[d].action /\ query[c].resource = query[d].resource
    BY DEF Alike
  <2> QED  BY <2>1, <2>2, PrincipalIsIgnored
<1> QED  BY <1>1, CedarInvariant, PTL

-----------------------------------------------------------------------------
(* The ePCA guardrail.  A predicate's places are numbered from one. *)
WellMade(set) ==
  \A p \in Elements(set.predicates) :
    Len(p.fields) \in Nat /\ DOMAIN p.fields = 1..Len(p.fields)

Enforceable(set) == set # NoSet => Compiles(set) /\ WellMade(set)

EcpaInv ==
  /\ EcpaTypeOK
  /\ constraints = [t \in Tools |-> constraints[t]]
  /\ \A t \in Tools : Enforceable(constraints[t])
  /\ phase = "serving" => pending = {}
  /\ phase # "refused" =>
       \A f \in directory \ pending : Usable(f) /\ constraints[Content[f].tool] # NoSet
  /\ verdict # NoVerdict =>
       Enforceable(verdict.set) /\ verdict.result = Evaluation(verdict.set, verdict.args)

(* Both the sets that are registered and the default ones are well made. *)
LEMMA SetsAreWellMade == \A set \in Sets : WellMade(set)
<1> SUFFICES ASSUME NEW set \in Sets, NEW i \in DOMAIN set.predicates
             PROVE  LET p == set.predicates[i] IN
                    Len(p.fields) \in Nat /\ DOMAIN p.fields = 1..Len(p.fields)
  BY DEF WellMade, Elements
<1>1. set.predicates \in Seq(Predicate)
  BY EcpaAssumption DEF ToolConstraint
<1>2. set.predicates[i] \in Predicate
  BY <1>1
<1>3. set.predicates[i].fields \in Seq(Fields)
  BY <1>2 DEF Predicate
<1> QED  BY <1>3

LEMMA PairsOf ==
  ASSUME NEW a, NEW b
  PROVE  /\ Len(<<a>>) \in Nat /\ DOMAIN <<a>> = 1..Len(<<a>>)
         /\ Len(<<a, b>>) \in Nat /\ DOMAIN <<a, b>> = 1..Len(<<a, b>>)
         /\ Elements(<<a, b>>) = {a, b}
BY DEF Elements

LEMMA ThreeElements ==
  ASSUME NEW a, NEW b, NEW c
  PROVE  Elements(Append(<<a, b>>, c)) = {a, b, c}
<1> DEFINE S == {a, b, c}
<1>1. a \in S /\ b \in S /\ c \in S
  OBVIOUS
<1> HIDE DEF S
<1>2. <<a, b>> \in Seq(S)
  BY <1>1
<1> QED  BY <1>1, <1>2 DEF Elements, S

LEMMA DefaultsAreWellMade ==
  ASSUME NEW t \in Tools
  PROVE  Enforceable(DefaultSet(t))
<1> DEFINE Made(p) == p.compiles /\ Len(p.fields) \in Nat /\ DOMAIN p.fields = 1..Len(p.fields)
<1>1. \A name, f : Made(Required(name, <<f>>))
  BY PairsOf DEF Required
<1>2. \A name, f, g : Made(Required(name, <<f, g>>))
  BY PairsOf DEF Required
<1> HIDE DEF Made
<1> DEFINE a == Required("path_within_root", <<"path">>)
           b == Required("no_path_traversal", <<"path">>)
           c == Required("not_system_path", <<"path">>)
           d == Required("command_in_allowlist", <<"command">>)
           e == Required("no_dangerous_patterns", <<"command", "args">>)
           g == Required("url_host_in_allowlist", <<"url">>)
           h == Required("url_scheme_allowed", <<"url">>)
<1>3. Made(a) /\ Made(b) /\ Made(c) /\ Made(d) /\ Made(e) /\ Made(g) /\ Made(h)
  BY <1>1, <1>2
<1>4. /\ Reading = <<a, b>> /\ Writing = Append(<<a, b>>, c)
      /\ Running = <<d, e>> /\ Fetching = <<g, h>>
  BY DEF Reading, Writing, Running, Fetching
<1> HIDE DEF a, b, c, d, e, g, h
<1>5. /\ Elements(Reading) = {a, b} /\ Elements(Writing) = {a, b, c}
      /\ Elements(Running) = {d, e} /\ Elements(Fetching) = {g, h}
  BY <1>4, PairsOf, ThreeElements
<1>6. \A p \in Elements(Reading) \union Elements(Writing) \union Elements(Running)
               \union Elements(Fetching) : Made(p)
  BY <1>3, <1>5
<1>7. DefaultSet(t) \in {NoSet, [predicates |-> Reading], [predicates |-> Writing],
                         [predicates |-> Running], [predicates |-> Fetching]}
  BY DEF DefaultSet
<1> QED  BY <1>6, <1>7 DEF Enforceable, Compiles, WellMade, Made

LEMMA EcpaStart == EcpaInit => EcpaInv
<1> SUFFICES ASSUME EcpaInit PROVE EcpaInv
  OBVIOUS
<1>1. \A t \in Tools : constraints[t] \in {NoSet, DefaultSet(t)} /\ Enforceable(constraints[t])
  BY DefaultsAreWellMade DEF EcpaInit, Enforceable
<1>2. \A t \in Tools : constraints[t] # NoSet =>
        \A p \in Elements(constraints[t].predicates) : p.compiles
  BY <1>1 DEF Enforceable, Compiles
<1> QED  BY <1>1, <1>2 DEF EcpaInit, EcpaInv, EcpaTypeOK

(* A usable set that takes the place of a tool's former one. *)
LEMMA InsertKeepsSets ==
  ASSUME EcpaInv, NEW t \in Tools, NEW set \in Sets, Compiles(set), Insert(t, set)
  PROVE  /\ constraints' = [u \in Tools |-> constraints'[u]]
         /\ \A u \in Tools : constraints'[u] \in Sets \union {NoSet, DefaultSet(u)}
         /\ \A u \in Tools : Enforceable(constraints'[u])
         /\ \A u \in Tools : constraints'[u] # NoSet =>
              \A p \in Elements(constraints'[u].predicates) : p.compiles
         /\ constraints'[t] # NoSet
         /\ \A u \in Tools : constraints[u] # NoSet => constraints'[u] # NoSet
<1>1. constraints'[t] = set /\ \A u \in Tools \ {t} : constraints'[u] = constraints[u]
  BY DEF Insert, EcpaInv
<1>2. set # NoSet /\ Enforceable(set)
  BY EcpaAssumption, SetsAreWellMade DEF Enforceable
<1>3. \A u \in Tools : Enforceable(constraints'[u])
  BY <1>1, <1>2 DEF EcpaInv
<1>4. \A u \in Tools : constraints'[u] # NoSet =>
        \A p \in Elements(constraints'[u].predicates) : p.compiles
  BY <1>3 DEF Enforceable, Compiles
<1> QED  BY <1>1, <1>2, <1>3, <1>4 DEF Insert, EcpaInv, EcpaTypeOK

LEMMA EcpaStep ==
  ASSUME EcpaInv, [EcpaNext]_ecpaVars
  PROVE  EcpaInv'
<1>1. ASSUME NEW f \in Files, LoadFile(f) PROVE EcpaInv'
  <2>1. CASE Usable(f)
    <3>1. Content[f].tool \in Tools /\ Content[f].set \in Sets /\ Compiles(Content[f].set)
      BY <2>1, EcpaAssumption DEF Usable
    <3>2. Insert(Content[f].tool, Content[f].set) /\ phase' = phase /\ phase = "loading"
      BY <1>1, <2>1 DEF LoadFile
    <3>3. \A g \in directory \ pending : Usable(g) /\ Content[g].tool \in Tools /\ constraints[Content[g].tool] # NoSet
      BY <3>2, EcpaAssumption DEF EcpaInv, EcpaTypeOK, Usable
    <3>4. \A g \in directory' \ pending' : Usable(g) /\ constraints'[Content[g].tool] # NoSet
      <4> SUFFICES ASSUME NEW g \in directory' \ pending'
                   PROVE  Usable(g) /\ constraints'[Content[g].tool] # NoSet
        OBVIOUS
      <4>1. g = f \/ g \in directory \ pending
        BY <1>1 DEF LoadFile
      <4> QED  BY <2>1, <3>1, <3>2, <3>3, <4>1, InsertKeepsSets
    <3>5. directory' = directory /\ pending' = pending \ {f} /\ verdict' = verdict
      BY <1>1 DEF LoadFile
    <3>6. EcpaTypeOK'
      BY <3>1, <3>2, <3>5, InsertKeepsSets DEF EcpaTypeOK, EcpaInv
    <3> QED  BY <3>1, <3>2, <3>4, <3>5, <3>6, InsertKeepsSets DEF EcpaInv
  <2>2. CASE ~Usable(f)
    BY <1>1, <2>2 DEF LoadFile, EcpaInv, EcpaTypeOK
  <2> QED  BY <2>1, <2>2
<1>2. CASE Loaded
  BY <1>2 DEF Loaded, EcpaInv, EcpaTypeOK
<1>3. ASSUME NEW t \in Tools, NEW set \in Sets, Register(t, set) PROVE EcpaInv'
  <2>1. CASE Compiles(set) /\ Insert(t, set)
    <3>1. /\ UNCHANGED <<phase, directory, pending, verdict>> /\ phase = "serving"
      BY <1>3 DEF Register
    <3>2. EcpaTypeOK'
      BY <2>1, <3>1, InsertKeepsSets DEF EcpaTypeOK, EcpaInv
    <3>3. \A g \in directory \ pending : Usable(g) /\ constraints'[Content[g].tool] # NoSet
      BY <2>1, <3>1, InsertKeepsSets, EcpaAssumption DEF EcpaInv, EcpaTypeOK, Usable
    <3> QED  BY <2>1, <3>1, <3>2, <3>3, InsertKeepsSets DEF EcpaInv
  <2>2. CASE UNCHANGED ecpaVars
    BY <2>2 DEF ecpaVars, EcpaInv, EcpaTypeOK
  <2> QED  BY <1>3, <2>1, <2>2 DEF Register, ecpaVars
<1>4. ASSUME NEW t \in Tools, NEW args \in Arguments, Evaluate(t, args) PROVE EcpaInv'
  <2>1. /\ verdict'.set = constraints[t] /\ verdict'.args = args
        /\ verdict'.result = Evaluation(constraints[t], args)
        /\ UNCHANGED <<constraints, phase, directory, pending>>
    BY <1>4 DEF Evaluate
  <2>2. Enforceable(constraints[t])
    BY DEF EcpaInv
  <2>3. verdict'.result # "RegexError"
    BY <2>1, <2>2 DEF Evaluation, Enforceable
  <2> QED  BY <2>1, <2>2, <2>3 DEF EcpaInv, EcpaTypeOK
<1>5. CASE UNCHANGED ecpaVars
  BY <1>5 DEF ecpaVars, EcpaInv, EcpaTypeOK
<1> QED  BY <1>1, <1>2, <1>3, <1>4, <1>5 DEF EcpaNext

(* No set is in force that does not compile, and no call fails over one,    *)
(* for any tools, sets and files and any registration between the calls.    *)
(* (register_constraints, from_directory)                                   *)
THEOREM EcpaInvariant == EcpaSpec => []EcpaInv
BY EcpaStart, EcpaStep, PTL DEF EcpaSpec

(* A guardrail that serves has been given every file of its directory. *)
THEOREM DirectoryIsLoadedWhole == EcpaSpec => [](EcpaTypeOK /\ LoadedWhole)
<1>1. EcpaInv => EcpaTypeOK /\ LoadedWhole
  BY DEF EcpaInv, LoadedWhole
<1> QED  BY <1>1, EcpaInvariant, PTL

(* A predicate that does not stop early says of the arguments what it says  *)
(* of each of its fields.                                                   *)
LEMMA SimpleIsExact ==
  ASSUME NEW p, Len(p.fields) \in Nat, DOMAIN p.fields = 1..Len(p.fields), p.required = TRUE,
         Simple(p), NEW args
  PROVE  EvaluatePredicate(p, args) <=> HoldsEverywhere(p, args)
<1> DEFINE value(i) == args[p.fields[i]]
           First(i) == Decides(p, value(i)) /\ \A j \in 1..(i - 1) : ~Decides(p, value(j))
           Passes(v) == \/ v # Missing /\ p.name \in Searches /\ v \in p.hits
                        \/ v # Missing /\ p.name \in Detects /\ v \notin p.hits
<1>1. HoldsEverywhere(p, args) <=> \A i \in DOMAIN p.fields : Holds(p, value(i))
  BY DEF HoldsEverywhere, Elements
<1>2. EvaluatePredicate(p, args) <=> \A i \in DOMAIN p.fields : First(i) => Passes(value(i))
  BY DEF EvaluatePredicate
<1>3. CASE p.name \in Compares
  <2>1. \A v : ~Passes(v) /\ (Holds(p, v) <=> ~Decides(p, v))
    BY <1>3 DEF Decides, Holds, Compares, Searches, Detects
  <2>2. (\E i \in DOMAIN p.fields : Decides(p, value(i))) => \E i \in DOMAIN p.fields : First(i)
    <3> SUFFICES ASSUME NEW i \in DOMAIN p.fields, Decides(p, value(i))
                 PROVE  \E j \in DOMAIN p.fields : First(j)
      OBVIOUS
    <3> DEFINE S == {j \in DOMAIN p.fields : Decides(p, value(j))}
    <3>1. S \subseteq Nat /\ S # {}
      OBVIOUS
    <3> DEFINE R == {ss \in Nat \X Nat : ss[1] < ss[2]}
    <3>2. IsWellFoundedOn(R, Nat)
      BY NatLessThanWellFounded DEF OpToRel
    <3>3. PICK j \in S : \A k \in S : <<k, j>> \notin R
      <4> HIDE DEF S, R
      <4> QED  BY <3>1, <3>2, WFMin
    <3>4. \A k \in S : ~ (k < j)
      BY <3>1, <3>3
    <3>5. First(j)
      BY <3>4
    <3> QED  BY <3>5
  <2> QED  BY <1>1, <1>2, <2>1, <2>2
<1>4. CASE p.name \notin Compares
  <2>1. Len(p.fields) = 1
    BY <1>4 DEF Simple
  <2>2. DOMAIN p.fields = {1} /\ 1..(1 - 1) = {}
    BY <2>1
  <2>3. \A v : Decides(p, v) /\ (Passes(v) <=> Holds(p, v))
    BY <1>4 DEF Decides, Holds, Searches, Detects
  <2> QED  BY <1>1, <1>2, <2>2, <2>3
<1> QED  BY <1>3, <1>4

(* For any tools, fields, values and sets: a set of predicates with one     *)
(* field each, or of required comparisons, is satisfied if and only if      *)
(* every required one holds of every field it names, whatever was           *)
(* registered before the call.  (evaluate_predicate's early returns)        *)
THEOREM SimpleSetsMeanWhatTheySay == EcpaSpec => []SimpleSetsAreExact
<1>1. EcpaInv => SimpleSetsAreExact
  <2> SUFFICES ASSUME EcpaInv, verdict # NoVerdict, verdict.set # NoSet,
                      \A p \in Elements(verdict.set.predicates) : Simple(p)
               PROVE  verdict.result = "satisfied" <=>
                        \A p \in Elements(verdict.set.predicates) :
                          p.required => HoldsEverywhere(p, verdict.args)
    BY DEF SimpleSetsAreExact
  <2>1. Compiles(verdict.set) /\ WellMade(verdict.set)
        /\ verdict.result = Evaluation(verdict.set, verdict.args)
    BY DEF EcpaInv, Enforceable
  <2>2. verdict.result = "satisfied" <=>
          \A p \in Elements(verdict.set.predicates) : p.required => EvaluatePredicate(p, verdict.args)
    BY <2>1 DEF Evaluation
  <2>3. \A p \in Elements(verdict.set.predicates) : p.required =>
          (EvaluatePredicate(p, verdict.args) <=> HoldsEverywhere(p, verdict.args))
    BY <2>1, SimpleIsExact DEF WellMade
  <2> QED  BY <2>2, <2>3
<1> QED  BY <1>1, EcpaInvariant, PTL

-----------------------------------------------------------------------------
(* The egress inspector.  `modified` says of the blocks inspected so far    *)
(* what it says in the end of all of them.                                  *)
HasFinding(n) == result.content[n].form # "other" /\ Found(result.content[n].text)

EgressInv ==
  /\ Len(result.content) \in Nat /\ DOMAIN result.content = 1..Len(result.content)
  /\ done \in 0..Len(result.content) /\ modified \in BOOLEAN
  /\ modified <=> \E n \in 1..done : HasFinding(n)
  /\ returned # NotYet =>
       done = Len(result.content) /\ (~modified => returned.content = result.content)

LEMMA EgressStep == EgressInv /\ [EgressNext]_egressVars => EgressInv'
<1> SUFFICES ASSUME EgressInv, [EgressNext]_egressVars PROVE EgressInv'
  OBVIOUS
<1>1. CASE InspectBlock
  <2>1. /\ done' = done + 1 /\ result' = result /\ returned' = NotYet /\ done < Len(result.content)
        /\ modified' = (modified \/ HasFinding(done + 1))
    BY <1>1 DEF InspectBlock, Current, HasFinding
  <2>2. \A n : HasFinding(n)' <=> HasFinding(n)
    BY <2>1 DEF HasFinding
  <2>3. 1..done' = (1..done) \union {done + 1}
    BY <2>1 DEF EgressInv
  <2>4. modified' <=> \E n \in 1..done' : HasFinding(n)
    BY <2>1, <2>3 DEF EgressInv
  <2> QED  BY <2>1, <2>2, <2>4 DEF EgressInv
<1>2. CASE Return
  BY <1>2 DEF Return, EgressInv, HasFinding
<1>3. CASE UNCHANGED egressVars
  BY <1>3 DEF egressVars, EgressInv, HasFinding
<1> QED  BY <1>1, <1>2, <1>3 DEF EgressNext

(* For any patterns, texts and number of blocks: the router is told of a    *)
(* finding if and only if there is one, in whichever block, and a result    *)
(* without any is returned as it is.  (sanitize_response, handle_tools_call)*)
THEOREM FindingsAreTold == EgressSpec => []FindingsReachTheRouter
<1>1. EgressInit => EgressInv
  <2> SUFFICES ASSUME EgressInit PROVE EgressInv
    OBVIOUS
  <2>1. Len(result.content) \in Nat /\ DOMAIN result.content = 1..Len(result.content)
    <3>1. CASE result.content \in Contents
      <4>1. PICK n \in 0..MaxBlocks : result.content \in [1..n -> Block]
        BY <3>1 DEF Contents
      <4>2. n \in Nat
        BY EgressAssumption
      <4>3. result.content \in Seq(Block) /\ Len(result.content) = n
        BY <4>1, <4>2
      <4> QED  BY <4>2, <4>3
    <3>2. CASE result.content \in [{1} -> Block]
      <4>1. PICK n \in Nat : n = 1
        OBVIOUS
      <4>2. result.content \in [1..n -> Block]
        BY <3>2, <4>1
      <4>3. result.content \in Seq(Block) /\ Len(result.content) = n
        BY <4>2
      <4> QED  BY <4>1, <4>3
    <3>3. result.content \in Contents \union [{1} -> Block]
      BY DEF EgressInit, Results
    <3> QED  BY <3>1, <3>2, <3>3
  <2>2. done = 0 /\ modified = FALSE /\ returned = NotYet
    BY DEF EgressInit
  <2>3. ~ \E n \in 1..done : HasFinding(n)
    BY <2>2
  <2>4. done \in 0..Len(result.content)
    BY <2>1, <2>2
  <2>5. modified \in BOOLEAN
    BY <2>2
  <2>6. modified <=> \E n \in 1..done : HasFinding(n)
    BY <2>2, <2>3, Zenon
  <2> QED  BY <2>1, <2>2, <2>4, <2>5, <2>6, Zenon DEF EgressInv
<1>2. EgressInv => FindingsReachTheRouter
  BY DEF EgressInv, FindingsReachTheRouter, HasFinding
<1> QED  BY <1>1, <1>2, EgressStep, PTL DEF EgressSpec

-----------------------------------------------------------------------------
(* What the inspector's patterns leave.  replace_all and the loop over the  *)
(* patterns are recursive functions, so first that each is the one that its *)
(* equation describes, by induction over the places it has a value for;     *)
(* then what they keep of a text, by induction again.                       *)
(* Induction, for a set of numbers: an operator for a property is more than *)
(* the provers take.                                                        *)
LEMMA EveryNumber ==
  ASSUME NEW S \in SUBSET Nat, 0 \in S, \A n \in Nat : n \in S => n + 1 \in S
  PROVE  S = Nat
<1> SUFFICES ASSUME Nat \ S # {} PROVE FALSE
  OBVIOUS
<1> DEFINE R == {ss \in Nat \X Nat : ss[1] < ss[2]}
           T == Nat \ S
<1>1. IsWellFoundedOn(R, Nat)
  BY NatLessThanWellFounded DEF OpToRel
<1>2. T \subseteq Nat /\ T # {}
  OBVIOUS
<1>3. PICK n \in T : \A k \in T : <<k, n>> \notin R
  <2> HIDE DEF T, R
  <2> QED  BY <1>1, <1>2, WFMin
<1>4. n # 0 /\ n - 1 \in Nat /\ n - 1 < n
  OBVIOUS
<1>5. n - 1 \notin T
  BY <1>3, <1>4
<1> QED  BY <1>4, <1>5

CellTexts == Seq(Cell)
Places(text) == 1..(Len(text) + 1)

(* The last of the places where a match that begins at n may end. *)
LEMMA LastEnd ==
  ASSUME NEW p, NEW text \in CellTexts, NEW n \in 1..Len(text), Ends(p, text, n) # {}
  PROVE  EndOf(p, text, n) \in n..Len(text)
<1> DEFINE E == Ends(p, text, n)
           R == {ss \in Nat \X Nat : ss[1] < ss[2]}
           T == {k \in Nat : \E m \in E : k = Len(text) - m}
<1>1. Len(text) \in Nat /\ E \subseteq n..Len(text)
  BY DEF Ends, CellTexts
<1>2. IsWellFoundedOn(R, Nat)
  BY NatLessThanWellFounded DEF OpToRel
<1>3. T \subseteq Nat /\ T # {}
  <2>1. PICK m \in E : TRUE
    OBVIOUS
  <2>2. Len(text) - m \in Nat
    BY <1>1, <2>1
  <2> QED  BY <2>1, <2>2
<1>4. PICK k \in T : \A i \in T : <<i, k>> \notin R
  <2> HIDE DEF T, R
  <2> QED  BY <1>2, <1>3, WFMin
<1>5. PICK m \in E : k = Len(text) - m
  BY <1>4
<1>6. \A i \in E : i <= m
  <2> SUFFICES ASSUME NEW i \in E, i > m PROVE FALSE
    BY <1>1, <1>5
  <2>1. Len(text) - i \in T /\ Len(text) - i < k
    BY <1>1, <1>5
  <2> QED  BY <1>3, <1>4, <2>1
<1>7. EndOf(p, text, n) \in E
  <2> HIDE DEF E
  <2>1. \E e \in E : \A i \in E : i <= e
    BY <1>5, <1>6
  <2> QED  BY <2>1 DEF EndOf, E
<1> QED  BY <1>1, <1>7

(* What replace_all and find_iter have from a place on, given what they     *)
(* have from later ones.                                                    *)
Onward(p, text, f, n) ==
  IF n > Len(text) THEN [left |-> <<>>, found |-> 0]
  ELSE IF Ends(p, text, n) = {}
    THEN [left |-> <<text[n]>> \o f[n + 1].left, found |-> f[n + 1].found]
    ELSE [left |-> Marked(Replacement, "new") \o AfterCut(f[EndOf(p, text, n) + 1].left),
          found |-> f[EndOf(p, text, n) + 1].found + 1]

LEMMA ReplaceAllUnfolds ==
  ASSUME NEW text \in CellTexts, NEW p
  PROVE  \E f : f = [n \in Places(text) |-> Onward(p, text, f, n)] /\ ReplaceAll(p, text) = f[1]
<1> DEFINE N == Len(text) + 1
           Upto(k) == \E g : g = [n \in 1..N |-> g[n]]
                            /\ \A n \in 1..N : n > N - k => g[n] = Onward(p, text, g, n)
           Ks == {k \in Nat : Upto(k)}
<1>1. N \in Nat /\ Len(text) \in Nat
  BY DEF CellTexts
<1>2. Upto(0)
  <2> DEFINE g == [n \in 1..N |-> <<>>]
  <2>1. g = [n \in 1..N |-> g[n]]
    OBVIOUS
  <2>2. \A n \in 1..N : ~(n > N - 0)
    BY <1>1
  <2> QED  BY <2>1, <2>2
<1>3. ASSUME NEW k \in Nat, Upto(k) PROVE Upto(k + 1)
  <2>1. PICK g : g = [n \in 1..N |-> g[n]] /\ \A n \in 1..N : n > N - k => g[n] = Onward(p, text, g, n)
    BY <1>3
  <2>2. CASE N - k < 1
    <3>1. \A n \in 1..N : n > N - k
      BY <1>1, <2>2
    <3> QED  BY <2>1, <3>1
  <2>3. CASE N - k >= 1
    <3> DEFINE x == N - k
               h == [n \in 1..N |-> IF n = x THEN Onward(p, text, g, x) ELSE g[n]]
    <3>1. x \in 1..N
      BY <1>1, <2>3
    <3> HIDE DEF x
    <3>2. h = [n \in 1..N |-> h[n]]
      OBVIOUS
    <3>3. \A n \in 1..N : n > x - 1 => n = x \/ n > x
      BY <1>1, <3>1
    <3>4. ASSUME NEW n \in 1..N, n >= x PROVE Onward(p, text, h, n) = Onward(p, text, g, n)
      <4> DEFINE e == EndOf(p, text, n) + 1
      <4>1. n <= Len(text) => n + 1 \in 1..N /\ n + 1 # x
        BY <1>1, <3>1, <3>4
      <4>2. n <= Len(text) /\ Ends(p, text, n) # {} => e \in 1..N /\ e # x
        <5> SUFFICES ASSUME n <= Len(text), Ends(p, text, n) # {} PROVE e \in 1..N /\ e # x
          OBVIOUS
        <5>1. EndOf(p, text, n) \in n..Len(text)
          BY <1>1, LastEnd
        <5> QED  BY <1>1, <3>1, <3>4, <5>1
      <4>3. n <= Len(text) => h[n + 1] = g[n + 1]
        BY <4>1
      <4>4. n <= Len(text) /\ Ends(p, text, n) # {} => h[e] = g[e]
        <5> HIDE DEF e
        <5> QED  BY <4>2
      <4>5. ~(n > Len(text)) => n <= Len(text)
        BY <1>1
      <4> HIDE DEF h, N
      <4> QED  BY <4>3, <4>4, <4>5 DEF Onward
    <3>5. ASSUME NEW n \in 1..N, n > N - (k + 1) PROVE h[n] = Onward(p, text, h, n)
      <4>1. n > x - 1 /\ (n = x \/ n > x) /\ (n > x => n > N - k)
        BY <1>1, <3>5, <3>3 DEF x
      <4>2. Onward(p, text, h, n) = Onward(p, text, g, n)
        BY <4>1, <3>4, <1>1, <3>1
      <4>3. CASE n = x
        BY <4>2, <4>3
      <4>4. CASE n > x
        <5>1. n # x
          BY <3>1, <1>1, <4>4
        <5>2. h[n] = g[n]
          BY <5>1
        <5> HIDE DEF h
        <5> QED  BY <2>1, <4>1, <4>2, <4>4, <5>2
      <4> QED  BY <4>1, <4>3, <4>4
    <3> HIDE DEF h
    <3> QED  BY <3>2, <3>5
  <2> QED  BY <1>1, <2>2, <2>3
<1>4. Upto(N)
  <2> HIDE DEF Upto
  <2>1. 0 \in Ks /\ \A k \in Nat : k \in Ks => k + 1 \in Ks
    BY <1>2, <1>3
  <2>2. Ks = Nat
    <3> HIDE DEF Ks
    <3>1. Ks \in SUBSET Nat
      BY DEF Ks
    <3> QED  BY <2>1, <3>1, EveryNumber
  <2> QED  BY <1>1, <2>2
<1>5. PICK g : g = [n \in 1..N |-> g[n]] /\ \A n \in 1..N : n > N - N => g[n] = Onward(p, text, g, n)
  BY <1>4
<1>6. g = [n \in Places(text) |-> Onward(p, text, g, n)]
  <2>1. \A n \in 1..N : n > N - N
    BY <1>1
  <2>2. \A n \in 1..N : g[n] = Onward(p, text, g, n)
    BY <1>5, <2>1
  <2> QED  BY <1>5, <2>2 DEF Places
<1> DEFINE f == CHOOSE from : from = [n \in Places(text) |-> Onward(p, text, from, n)]
<1>7. f = [n \in Places(text) |-> Onward(p, text, f, n)]
  BY <1>6
<1>8. ReplaceAll(p, text) = f[1]
  BY DEF ReplaceAll, Places, Onward
<1> QED  BY <1>7, <1>8

(* The text after the first patterns, given what it was after fewer, and    *)
(* after so many rounds of one, given what it was after fewer.              *)
AfterPattern(text, f, i) ==
  IF i = 0 THEN text
  ELSE RedactedTimes(Patterns[i], f[i - 1], MatchCount(Patterns[i], text))

AfterRound(p, text, f, k) == IF k = 0 THEN text ELSE Redacted(p, f[k - 1])

LEMMA RedactedTimesUnfolds ==
  ASSUME NEW p, NEW text, NEW N \in Nat
  PROVE  \E f : /\ f = [k \in 0..N |-> AfterRound(p, text, f, k)]
                /\ RedactedTimes(p, text, N) = f[N]
<1> DEFINE Upto(k) == \E g : g = [i \in 0..N |-> g[i]] /\ \A i \in 0..N : i < k => g[i] = AfterRound(p, text, g, i)
           Ks == {k \in Nat : Upto(k)}
<1>2. Upto(0)
  <2> DEFINE g == [i \in 0..N |-> text]
  <2>1. g = [i \in 0..N |-> g[i]]
    OBVIOUS
  <2>2. \A i \in 0..N : ~(i < 0)
    OBVIOUS
  <2> QED  BY <2>1, <2>2
<1>3. ASSUME NEW k \in Nat, Upto(k) PROVE Upto(k + 1)
  <2>1. PICK g : g = [i \in 0..N |-> g[i]] /\ \A i \in 0..N : i < k => g[i] = AfterRound(p, text, g, i)
    BY <1>3
  <2> DEFINE h == [i \in 0..N |-> IF i = k THEN AfterRound(p, text, g, k) ELSE g[i]]
  <2>2. h = [i \in 0..N |-> h[i]]
    OBVIOUS
  <2>3. ASSUME NEW i \in 0..N, i < k + 1 PROVE h[i] = AfterRound(p, text, h, i)
    <3>1. i = k \/ (i < k /\ i # k)
      BY <2>3
    <3>2. i # 0 => i - 1 \in 0..N /\ i - 1 # k
      BY <2>3
    <3>3. i # 0 => h[i - 1] = g[i - 1]
      BY <3>2
    <3>4. AfterRound(p, text, h, i) = AfterRound(p, text, g, i)
      <4> HIDE DEF h
      <4> QED  BY <3>3 DEF AfterRound
    <3>5. h[i] = IF i = k THEN AfterRound(p, text, g, k) ELSE g[i]
      OBVIOUS
    <3> HIDE DEF h
    <3> QED  BY <2>1, <3>1, <3>4, <3>5
  <2> HIDE DEF h
  <2> QED  BY <2>2, <2>3
<1>4. Upto(N + 1)
  <2> HIDE DEF Upto
  <2>1. 0 \in Ks /\ \A k \in Nat : k \in Ks => k + 1 \in Ks
    BY <1>2, <1>3
  <2>2. Ks = Nat
    <3> HIDE DEF Ks
    <3>1. Ks \in SUBSET Nat
      BY DEF Ks
    <3> QED  BY <2>1, <3>1, EveryNumber
  <2> QED  BY <2>2
<1>5. PICK g : g = [i \in 0..N |-> g[i]] /\ \A i \in 0..N : i < N + 1 => g[i] = AfterRound(p, text, g, i)
  BY <1>4
<1>6. g = [i \in 0..N |-> AfterRound(p, text, g, i)]
  <2>1. \A i \in 0..N : g[i] = AfterRound(p, text, g, i)
    BY <1>5
  <2> QED  BY <1>5, <2>1
<1> DEFINE f == CHOOSE again : again = [i \in 0..N |-> AfterRound(p, text, again, i)]
<1>7. f = [i \in 0..N |-> AfterRound(p, text, f, i)]
  BY <1>6
<1>8. RedactedTimes(p, text, N) = f[N]
  BY DEF RedactedTimes, AfterRound
<1> QED  BY <1>7, <1>8

LEMMA InspectTextUnfolds ==
  ASSUME NEW text
  PROVE  \E f : /\ f = [i \in 0..Len(Patterns) |-> AfterPattern(text, f, i)]
                /\ InspectText(text) = f[Len(Patterns)]
<1> DEFINE N == Len(Patterns)
           Upto(k) == \E g : g = [i \in 0..N |-> g[i]] /\ \A i \in 0..N : i < k => g[i] = AfterPattern(text, g, i)
           Ks == {k \in Nat : Upto(k)}
<1>1. N \in Nat
  BY EgressAssumption
<1>2. Upto(0)
  <2> DEFINE g == [i \in 0..N |-> text]
  <2>1. g = [i \in 0..N |-> g[i]]
    OBVIOUS
  <2>2. \A i \in 0..N : ~(i < 0)
    BY <1>1
  <2> QED  BY <2>1, <2>2
<1>3. ASSUME NEW k \in Nat, Upto(k) PROVE Upto(k + 1)
  <2>1. PICK g : g = [i \in 0..N |-> g[i]] /\ \A i \in 0..N : i < k => g[i] = AfterPattern(text, g, i)
    BY <1>3
  <2> DEFINE h == [i \in 0..N |-> IF i = k THEN AfterPattern(text, g, k) ELSE g[i]]
  <2>2. h = [i \in 0..N |-> h[i]]
    OBVIOUS
  <2>3. ASSUME NEW i \in 0..N, i < k + 1 PROVE h[i] = AfterPattern(text, h, i)
    <3>1. i = k \/ (i < k /\ i # k)
      BY <1>1, <2>3
    <3>2. i # 0 => i - 1 \in 0..N /\ i - 1 # k
      BY <1>1, <2>3
    <3>3. i # 0 => h[i - 1] = g[i - 1]
      BY <3>2
    <3>4. AfterPattern(text, h, i) = AfterPattern(text, g, i)
      <4> HIDE DEF h
      <4> QED  BY <3>3 DEF AfterPattern
    <3>5. h[i] = IF i = k THEN AfterPattern(text, g, k) ELSE g[i]
      OBVIOUS
    <3> HIDE DEF h
    <3> QED  BY <2>1, <3>1, <3>4, <3>5
  <2> HIDE DEF h
  <2> QED  BY <2>2, <2>3
<1>4. Upto(N + 1)
  <2> HIDE DEF Upto
  <2>1. 0 \in Ks /\ \A k \in Nat : k \in Ks => k + 1 \in Ks
    BY <1>2, <1>3
  <2>2. Ks = Nat
    <3> HIDE DEF Ks
    <3>1. Ks \in SUBSET Nat
      BY DEF Ks
    <3> QED  BY <2>1, <3>1, EveryNumber
  <2> QED  BY <1>1, <2>2
<1>5. PICK g : g = [i \in 0..N |-> g[i]] /\ \A i \in 0..N : i < N + 1 => g[i] = AfterPattern(text, g, i)
  BY <1>4
<1>6. g = [i \in 0..N |-> AfterPattern(text, g, i)]
  <2>1. \A i \in 0..N : g[i] = AfterPattern(text, g, i)
    BY <1>1, <1>5
  <2> QED  BY <1>5, <2>1
<1> DEFINE f == CHOOSE after : after = [i \in 0..N |-> AfterPattern(text, after, i)]
<1>7. f = [i \in 0..N |-> AfterPattern(text, f, i)]
  BY <1>6
<1>8. InspectText(text) = f[N]
  BY DEF InspectText, AfterPattern
<1> QED  BY <1>7, <1>8

-----------------------------------------------------------------------------
(* What a replacement keeps of the upstream's stretches. *)
LEMMA InsertedCells ==
  /\ Marked(Replacement, "new") \in CellTexts
  /\ \A k \in DOMAIN Marked(Replacement, "new") : Marked(Replacement, "new")[k].mark = "new"
<1> DEFINE new == Marked(Replacement, "new")
<1>1. Len(Replacement) \in Nat /\ DOMAIN Replacement = 1..Len(Replacement)
      /\ \A k \in DOMAIN Replacement : Replacement[k] \in Words
  BY EgressAssumption
<1>2. new = [k \in 1..Len(Replacement) |-> [word |-> Replacement[k], mark |-> "new"]]
  BY <1>1 DEF Marked
<1>3. \A k \in 1..Len(Replacement) : [word |-> Replacement[k], mark |-> "new"] \in Cell
  BY <1>1 DEF Cell
<1>4. new \in [1..Len(Replacement) -> Cell]
  BY <1>2, <1>3
<1>5. new \in CellTexts
  <2> HIDE DEF new
  <2> QED  BY <1>1, <1>4 DEF CellTexts
<1>6. \A k \in DOMAIN new : new[k].mark = "new"
  BY <1>1, <1>2
<1> QED  BY <1>5, <1>6

LEMMA CutCells ==
  ASSUME NEW r \in CellTexts
  PROVE  /\ AfterCut(r) \in CellTexts /\ Len(AfterCut(r)) = Len(r)
         /\ \A k \in 1..Len(r) :
              /\ AfterCut(r)[k].word = r[k].word
              /\ AfterCut(r)[k].mark = "new" <=> r[k].mark = "new"
              /\ AfterCut(r)[k].mark = "own" => k # 1 /\ r[k].mark = "own"
<1>1. DOMAIN r = 1..Len(r) /\ Len(r) \in Nat /\ \A k \in 1..Len(r) : r[k] \in Cell
  BY DEF CellTexts
<1>2. ASSUME NEW k \in 1..Len(r)
      PROVE  /\ AfterCut(r)[k] \in Cell
             /\ AfterCut(r)[k].word = r[k].word
             /\ AfterCut(r)[k].mark = "new" <=> r[k].mark = "new"
             /\ AfterCut(r)[k].mark = "own" => k # 1 /\ r[k].mark = "own"
  <2>1. AfterCut(r)[k] = IF k = 1 /\ r[k].mark = "own" THEN [r[k] EXCEPT !.mark = "cut"] ELSE r[k]
    BY <1>1 DEF AfterCut
  <2>2. r[k] \in Cell
    BY <1>1
  <2> QED  BY <2>1, <2>2 DEF Cell
<1>3. AfterCut(r) = [k \in 1..Len(r) |-> AfterCut(r)[k]]
  BY <1>1 DEF AfterCut
<1>4. AfterCut(r) \in [1..Len(r) -> Cell]
  BY <1>2, <1>3
<1>5. AfterCut(r) \in CellTexts
  BY <1>1, <1>4 DEF CellTexts
<1>6. Len(AfterCut(r)) = Len(r)
  BY <1>1, <1>4, <1>5 DEF CellTexts
<1> QED  BY <1>2, <1>5, <1>6

LEMMA Joined ==
  ASSUME NEW S, NEW x \in Seq(S), NEW y \in Seq(S)
  PROVE  /\ x \o y \in Seq(S) /\ Len(x \o y) = Len(x) + Len(y)
         /\ \A k \in 1..(Len(x) + Len(y)) : (x \o y)[k] = IF k <= Len(x) THEN x[k] ELSE y[k - Len(x)]
OBVIOUS

(* What is left from a match on, if r is left from its end on. *)
Inserted == Marked(Replacement, "new")
AfterMatch(r) == Inserted \o AfterCut(r)

(* From a to b, the first of the texts reads as the other does from c on.   *)
ReadsAs(s, a, b, r, c) ==
  /\ c \in 1..Len(r) /\ c + (b - a) \in c..Len(r)
  /\ Stretch(r, c, c + (b - a))
  /\ \A k \in 0..(b - a) : s[a + k].word = r[c + k].word

(* A stretch after a match was one in what follows the match. *)
LEMMA StretchAfterMatch ==
  ASSUME NEW r \in CellTexts, NEW s, s = AfterMatch(r),
         NEW a \in 1..Len(s), NEW b \in a..Len(s), Stretch(s, a, b)
  PROVE  /\ ReadsAs(s, a, b, r, a - Len(Inserted))
         /\ s[a].mark = "own" => r[a - Len(Inserted)].mark = "own" /\ a # 1
<1> DEFINE c == a - Len(Inserted)
           new == Inserted
           L == Len(new)
           t == AfterCut(r)
<1>1. /\ L \in Nat /\ DOMAIN new = 1..L /\ Len(r) \in Nat
      /\ t \in CellTexts /\ Len(t) = Len(r) /\ Len(t) \in Nat
      /\ s = new \o t /\ new \in CellTexts /\ \A k \in 1..L : new[k].mark = "new"
  BY CutCells, InsertedCells DEF CellTexts, AfterMatch, Inserted
<1> SUFFICES ReadsAs(s, a, b, r, c) /\ (s[a].mark = "own" => r[c].mark = "own" /\ a # 1)
  OBVIOUS
<1>2. c = a - L
  OBVIOUS
<1> HIDE DEF new, c
<1>3. \A k \in 1..Len(r) : /\ t[k].word = r[k].word
                           /\ t[k].mark = "new" <=> r[k].mark = "new"
                           /\ t[k].mark = "own" => k # 1 /\ r[k].mark = "own"
  BY CutCells
<1>4. /\ s \in CellTexts /\ Len(s) = L + Len(r)
      /\ \A k \in 1..Len(s) : s[k] = IF k <= L THEN new[k] ELSE t[k - L]
  <2> HIDE DEF t
  <2>1. new \in Seq(Cell) /\ t \in Seq(Cell)
    BY <1>1 DEF CellTexts
  <2>2. /\ new \o t \in Seq(Cell) /\ Len(new \o t) = Len(new) + Len(t)
        /\ \A k \in 1..(Len(new) + Len(t)) : (new \o t)[k] = IF k <= Len(new) THEN new[k] ELSE t[k - Len(new)]
    BY <2>1, Joined
  <2> QED  BY <1>1, <2>2 DEF CellTexts
<1>5. a \in Nat /\ b \in Nat /\ a >= 1 /\ a <= b /\ b <= L + Len(r)
  BY <1>1, <1>4
<1>6. a > L
  <2> SUFFICES ASSUME a <= L PROVE FALSE
    BY <1>1, <1>5, <1>2
  <2>1. a \in 1..L
    BY <1>1, <1>5, <1>2
  <2>2. s[a] = new[a] /\ new[a].mark = "new"
    BY <1>1, <1>4, <2>1
  <2> QED  BY <2>2 DEF Stretch
<1>7. c \in 1..Len(r) /\ c + (b - a) \in c..Len(r)
  BY <1>1, <1>5, <1>6, <1>2
<1>8. ASSUME NEW k \in 0..(b - a)
      PROVE  s[a + k] = t[c + k] /\ c + k \in 1..Len(r) /\ a + k \in a..b
  <2>1. a + k \in 1..Len(s) /\ ~(a + k <= L) /\ (a + k) - L = c + k /\ c + k \in 1..Len(r) /\ a + k \in a..b
    BY <1>1, <1>4, <1>5, <1>6, <1>2
  <2> HIDE DEF t
  <2> QED  BY <1>4, <2>1
<1> HIDE DEF t
<1>9. 0 \in 0..(b - a) /\ a + 0 = a /\ c + 0 = c
  BY <1>1, <1>5, <1>2
<1>10. s[a] = t[c]
  BY <1>8, <1>9
<1>11. r[c].mark # "new"
  BY <1>3, <1>7, <1>10 DEF Stretch
<1>12. ASSUME NEW n \in (c + 1)..(c + (b - a)) PROVE r[n].mark = "own"
  <2> DEFINE k == n - c
  <2>1. k \in 0..(b - a) /\ c + k = n /\ a + k \in (a + 1)..b
    BY <1>1, <1>5, <1>2
  <2>2. s[a + k].mark = "own"
    BY <2>1 DEF Stretch
  <2>3. s[a + k] = t[n] /\ n \in 1..Len(r)
    <3> HIDE DEF k
    <3> QED  BY <1>8, <2>1
  <2> QED  BY <1>3, <2>2, <2>3
<1>13. \A k \in 0..(b - a) : s[a + k].word = r[c + k].word
  BY <1>3, <1>8
<1>14. s[a].mark = "own" => r[c].mark = "own" /\ a # 1
  <2> SUFFICES ASSUME s[a].mark = "own" PROVE r[c].mark = "own" /\ a # 1
    OBVIOUS
  <2>1. r[c].mark = "own" /\ c # 1
    BY <1>3, <1>7, <1>10
  <2>2. a # 1
    BY <1>1, <1>5, <1>6, <1>7, <1>2, <2>1
  <2> QED  BY <2>1, <2>2
<1> QED  BY <1>7, <1>11, <1>12, <1>13, <1>14 DEF Stretch, ReadsAs

(* From which place of the text, n or a later one, a stretch of what is     *)
(* left of it comes; the pattern did not match there.                       *)
ComesFrom(p, text, n, s, a, b, j) ==
  /\ j \in n..Len(text) /\ j + (b - a) \in j..Len(text)
  /\ Stretch(text, j, j + (b - a))
  /\ \A k \in 0..(b - a) : s[a + k].word = text[j + k].word
  /\ Ends(p, text, j) = {}
  /\ s[a].mark = "own" => text[j].mark = "own" /\ (a = 1 => j = n)

Kept(p, text, n, s) ==
  /\ s \in CellTexts
  /\ \A a \in 1..Len(s) : \A b \in a..Len(s) :
       Stretch(s, a, b) => \E j : ComesFrom(p, text, n, s, a, b, j)

LEMMA KeptAfterMatch ==
  ASSUME NEW text \in CellTexts, NEW p, NEW n \in 1..Len(text), NEW e \in (n + 1)..(Len(text) + 1),
         NEW r, Kept(p, text, e, r)
  PROVE  Kept(p, text, n, AfterMatch(r))
<1> DEFINE s == AfterMatch(r)
<1>1. r \in CellTexts /\ Len(text) \in Nat /\ Len(Inserted) \in Nat
  BY InsertedCells DEF Kept, CellTexts, Inserted
<1>2. s \in CellTexts
  <2> DEFINE t == AfterCut(r)
  <2>3. Inserted \in Seq(Cell) /\ t \in Seq(Cell)
    BY <1>1, InsertedCells, CutCells DEF CellTexts, Inserted
  <2>4. Inserted \o t \in Seq(Cell)
    <3> HIDE DEF t
    <3> QED  BY <2>3, Joined
  <2> QED  BY <2>4 DEF AfterMatch, CellTexts
<1>3. s = AfterMatch(r)
  OBVIOUS
<1> HIDE DEF s
<1>4. ASSUME NEW a \in 1..Len(s), NEW b \in a..Len(s), Stretch(s, a, b)
      PROVE  \E j : ComesFrom(p, text, n, s, a, b, j)
  <2> DEFINE c == a - Len(Inserted)
             d == c + (b - a)
  <2>1. c = a - Len(Inserted) /\ d = c + (b - a)
    OBVIOUS
  <2> HIDE DEF c, d
  <2>2. ReadsAs(s, a, b, r, c) /\ (s[a].mark = "own" => r[c].mark = "own" /\ a # 1)
    BY <1>1, <1>4, <1>3, StretchAfterMatch DEF c
  <2>3. /\ c \in 1..Len(r) /\ d \in c..Len(r) /\ Stretch(r, c, d)
        /\ \A k \in 0..(b - a) : s[a + k].word = r[c + k].word
        /\ s[a].mark = "own" => r[c].mark = "own" /\ a # 1
    BY <2>1, <2>2 DEF ReadsAs
  <2>4. d - c = b - a
    BY <1>1, <1>2, <2>1 DEF CellTexts
  <2>5. PICK j : ComesFrom(p, text, e, r, c, d, j)
    BY <2>3 DEF Kept
  <2>6. j \in n..Len(text)
    BY <1>1, <2>5 DEF ComesFrom
  <2>7. \A k \in 0..(b - a) : s[a + k].word = text[j + k].word
    BY <2>3, <2>4, <2>5 DEF ComesFrom
  <2> QED  BY <2>3, <2>4, <2>5, <2>6, <2>7 DEF ComesFrom
<1> QED  BY <1>2, <1>4 DEF Kept, s

LEMMA KeptWithoutMatch ==
  ASSUME NEW text \in CellTexts, NEW p, NEW n \in 1..Len(text), Ends(p, text, n) = {},
         NEW r, Kept(p, text, n + 1, r)
  PROVE  Kept(p, text, n, <<text[n]>> \o r)
<1> DEFINE s == <<text[n]>> \o r
<1>1. /\ r \in CellTexts /\ Len(text) \in Nat /\ text[n] \in Cell /\ Len(r) \in Nat
  BY DEF Kept, CellTexts
<1>2. /\ s \in CellTexts /\ Len(s) = Len(r) + 1 /\ s[1] = text[n]
      /\ \A k \in 2..Len(s) : s[k] = r[k - 1]
  BY <1>1 DEF CellTexts
<1> HIDE DEF s
<1>3. ASSUME NEW a \in 1..Len(s), NEW b \in a..Len(s), Stretch(s, a, b)
      PROVE  \E j : ComesFrom(p, text, n, s, a, b, j)
  <2>0. a \in Nat /\ b \in Nat /\ 1 <= a /\ a <= b /\ b <= Len(r) + 1 /\ n \in Nat
    BY <1>1, <1>2
  <2>1. CASE a # 1
    <3> DEFINE c == a - 1
               d == b - 1
    <3>1. c \in 1..Len(r) /\ d \in c..Len(r) /\ d - c = b - a
      BY <1>1, <2>0, <2>1
    <3>2. \A k \in 0..(b - a) : s[a + k] = r[c + k]
      <4> SUFFICES ASSUME NEW k \in 0..(b - a) PROVE s[a + k] = r[c + k]
        OBVIOUS
      <4>1. a + k \in 2..Len(s) /\ (a + k) - 1 = c + k
        BY <1>1, <1>2, <2>0, <2>1
      <4> HIDE DEF c
      <4> QED  BY <1>2, <4>1
    <3>3. s[a] = r[c]
      <4>1. 0 \in 0..(b - a) /\ a + 0 = a /\ c + 0 = c
        BY <2>0
      <4> HIDE DEF c
      <4> QED  BY <3>2, <4>1
    <3>4. \A i \in (c + 1)..d : r[i].mark = "own"
      <4> SUFFICES ASSUME NEW i \in (c + 1)..d PROVE r[i].mark = "own"
        OBVIOUS
      <4>1. i - c \in 0..(b - a) /\ a + (i - c) = i + 1 /\ c + (i - c) = i /\ i + 1 \in (a + 1)..b
        BY <2>0
      <4>2. s[i + 1] = r[i]
        <5> HIDE DEF c, d
        <5> QED  BY <3>2, <4>1
      <4> QED  BY <1>3, <4>1, <4>2 DEF Stretch
    <3> HIDE DEF c, d
    <3>5. Stretch(r, c, d)
      BY <1>3, <3>3, <3>4 DEF Stretch
    <3>6. PICK j : ComesFrom(p, text, n + 1, r, c, d, j)
      BY <3>1, <3>5 DEF Kept
    <3>7. j \in n..Len(text)
      BY <1>1, <2>0, <3>6 DEF ComesFrom
    <3>8. \A k \in 0..(b - a) : s[a + k].word = text[j + k].word
      BY <3>1, <3>2, <3>6 DEF ComesFrom
    <3> QED  BY <2>1, <3>1, <3>3, <3>6, <3>7, <3>8 DEF ComesFrom
  <2>2. CASE a = 1 /\ b = 1
    <3>1. b - a = 0 /\ n + 0 = n /\ 1 + 0 = 1 /\ n \in n..Len(text) /\ 0..0 = {0}
      BY <1>1, <2>0, <2>2
    <3>2. Stretch(text, n, n)
      <4>1. (n + 1)..n = {}
        BY <2>0
      <4> QED  BY <1>2, <1>3, <2>2, <4>1 DEF Stretch
    <3> QED  BY <1>2, <2>2, <3>1, <3>2 DEF ComesFrom
  <2>3. CASE a = 1 /\ b # 1
    <3> DEFINE d == b - 1
    <3>1. d \in 1..Len(r) /\ 1 \in 1..Len(r) /\ d - 1 = b - 2
      BY <1>1, <2>0, <2>3
    <3>2. \A k \in 1..d : s[k + 1] = r[k] /\ s[k + 1].mark = "own"
      <4> SUFFICES ASSUME NEW k \in 1..d PROVE s[k + 1] = r[k] /\ s[k + 1].mark = "own"
        OBVIOUS
      <4>1. k + 1 \in 2..Len(s) /\ (k + 1) - 1 = k /\ k + 1 \in (a + 1)..b
        BY <1>1, <1>2, <2>0, <2>3
      <4>2. s[k + 1].mark = "own"
        BY <1>3, <4>1 DEF Stretch
      <4> QED  BY <1>2, <4>1, <4>2
    <3>3. Stretch(r, 1, d) /\ r[1].mark = "own"
      <4>1. r[1].mark = "own"
        BY <3>1, <3>2
      <4>2. \A k \in (1 + 1)..d : k \in 1..d
        OBVIOUS
      <4> QED  BY <3>2, <4>1, <4>2 DEF Stretch
    <3>4. PICK j : ComesFrom(p, text, n + 1, r, 1, d, j)
      BY <3>1, <3>3 DEF Kept
    <3>5. /\ j = n + 1 /\ text[j].mark = "own"
          /\ j + (d - 1) \in j..Len(text) /\ Stretch(text, j, j + (d - 1))
          /\ \A k \in 0..(d - 1) : r[1 + k].word = text[j + k].word
      BY <3>3, <3>4 DEF ComesFrom
    <3>6. j + (d - 1) = n + (b - a) /\ n + (b - a) \in n..Len(text) /\ n \in n..Len(text)
      <4>1. j = n + 1 /\ j + (d - 1) <= Len(text)
        BY <1>1, <2>0, <3>5
      <4> QED  BY <1>1, <2>0, <2>3, <4>1
    <3>7. Stretch(text, n, n + (b - a))
      <4>1. text[n].mark # "new"
        BY <1>2, <1>3, <2>3 DEF Stretch
      <4>2. ASSUME NEW k \in (n + 1)..(n + (b - a)) PROVE text[k].mark = "own"
        <5>1. CASE k = j
          BY <3>5, <5>1
        <5>2. CASE k # j
          <6>1. k \in (j + 1)..(j + (d - 1))
            BY <2>0, <3>5, <3>6, <5>2
          <6> QED  BY <3>5, <6>1 DEF Stretch
        <5> QED  BY <5>1, <5>2
      <4> QED  BY <4>1, <4>2 DEF Stretch
    <3>8. ASSUME NEW k \in 0..(b - a) PROVE s[a + k].word = text[n + k].word
      <4>1. CASE k = 0
        BY <1>2, <2>0, <2>3, <4>1
      <4>2. CASE k # 0
        <5>1. k - 1 \in 0..(d - 1) /\ j + (k - 1) = n + k /\ 1 + (k - 1) = k /\ k \in 1..d /\ a + k = k + 1
          BY <2>0, <2>3, <3>5, <4>2
        <5>2. r[k].word = text[n + k].word
          <6> HIDE DEF d
          <6> QED  BY <3>5, <5>1
        <5> QED  BY <3>2, <5>1, <5>2
      <4> QED  BY <4>1, <4>2
    <3>9. s[a].mark = "own" => text[n].mark = "own"
      BY <1>2, <2>3
    <3> QED  BY <3>6, <3>7, <3>8, <3>9 DEF ComesFrom
  <2> QED  BY <2>0, <2>1, <2>2, <2>3
<1> QED  BY <1>2, <1>3 DEF Kept, s

(* All that holds of what replace_all does from a place on: stretches are   *)
(* kept, and matches are found if and only if there are any.                *)
Replaced(p, text, n, v) ==
  /\ Kept(p, text, n, v.left)
  /\ v.found \in Nat
  /\ v.found = 0 <=> \A m \in n..Len(text) : Ends(p, text, m) = {}

LEMMA ReplacedOnward ==
  ASSUME NEW text \in CellTexts, NEW p, NEW f, NEW n \in Places(text),
         \A m \in (n + 1)..(Len(text) + 1) : Replaced(p, text, m, f[m])
  PROVE  Replaced(p, text, n, Onward(p, text, f, n))
<1> DEFINE v == Onward(p, text, f, n)
<1>1. Len(text) \in Nat /\ n \in Nat /\ n >= 1 /\ n <= Len(text) + 1 /\ text \in Seq(Cell)
  BY DEF CellTexts, Places
<1>2. CASE n > Len(text)
  <2>1. v = [left |-> <<>>, found |-> 0]
    BY <1>2 DEF Onward
  <2>2. n..Len(text) = {}
    BY <1>1, <1>2
  <2>3. <<>> \in CellTexts /\ 1..Len(<<>>) = {}
    BY DEF CellTexts
  <2> QED  BY <2>1, <2>2, <2>3 DEF Replaced, Kept
<1>3. CASE ~(n > Len(text)) /\ Ends(p, text, n) = {}
  <2> DEFINE w == f[n + 1]
  <2>1. v = [left |-> <<text[n]>> \o w.left, found |-> w.found]
    BY <1>3 DEF Onward
  <2>2. n \in 1..Len(text) /\ n + 1 \in (n + 1)..(Len(text) + 1)
    BY <1>1, <1>3
  <2>3. Replaced(p, text, n + 1, w)
    BY <2>2
  <2> HIDE DEF w
  <2>4. Kept(p, text, n, <<text[n]>> \o w.left)
    BY <1>3, <2>2, <2>3, KeptWithoutMatch DEF Replaced
  <2>5. n..Len(text) = {n} \union (n + 1)..Len(text)
    BY <1>1, <2>2
  <2> HIDE DEF v
  <2>6. v.left = <<text[n]>> \o w.left /\ v.found = w.found
    BY <2>1
  <2>7. w.found \in Nat /\ (w.found = 0 <=> \A m \in (n + 1)..Len(text) : Ends(p, text, m) = {})
    BY <2>3 DEF Replaced
  <2>8. v.found = 0 <=> \A m \in n..Len(text) : Ends(p, text, m) = {}
    BY <1>3, <2>5, <2>6, <2>7
  <2> QED  BY <2>4, <2>6, <2>7, <2>8 DEF Replaced, v
<1>4. CASE ~(n > Len(text)) /\ Ends(p, text, n) # {}
  <2> DEFINE e == EndOf(p, text, n) + 1
             w == f[e]
  <2>1. v = [left |-> AfterMatch(w.left), found |-> w.found + 1]
    BY <1>4 DEF Onward, AfterMatch, Inserted
  <2>2. n \in 1..Len(text)
    BY <1>1, <1>4
  <2>3. e \in (n + 1)..(Len(text) + 1)
    <3>1. EndOf(p, text, n) \in n..Len(text)
      BY <1>4, <2>2, LastEnd
    <3> QED  BY <1>1, <3>1
  <2> HIDE DEF e
  <2>4. Replaced(p, text, e, w)
    BY <2>3
  <2> HIDE DEF w
  <2>5. Kept(p, text, n, AfterMatch(w.left))
    BY <2>2, <2>3, <2>4, KeptAfterMatch DEF Replaced
  <2>6. w.found + 1 \in Nat /\ w.found + 1 # 0
    BY <2>4 DEF Replaced
  <2>7. n \in n..Len(text)
    BY <1>1, <2>2
  <2> QED  BY <1>4, <2>1, <2>5, <2>6, <2>7 DEF Replaced
<1> QED  BY <1>2, <1>3, <1>4

LEMMA AllIsReplaced ==
  ASSUME NEW text \in CellTexts, NEW p
  PROVE  Replaced(p, text, 1, ReplaceAll(p, text))
<1> DEFINE N == Len(text) + 1
<1>1. N \in Nat /\ N >= 1 /\ Places(text) = 1..N /\ 1 \in 1..N
  BY DEF CellTexts, Places
<1>2. PICK f : f = [n \in Places(text) |-> Onward(p, text, f, n)] /\ ReplaceAll(p, text) = f[1]
  BY ReplaceAllUnfolds
<1> DEFINE Last(k) == \A n \in 1..N : n > N - k => Replaced(p, text, n, f[n])
           Ks == {k \in Nat : Last(k)}
<1>3. Last(0)
  <2>1. \A n \in 1..N : ~(n > N - 0)
    BY <1>1
  <2> QED  BY <2>1
<1>4. ASSUME NEW k \in Nat, Last(k) PROVE Last(k + 1)
  <2>1. SUFFICES ASSUME NEW n \in 1..N, n > N - (k + 1) PROVE Replaced(p, text, n, f[n])
    OBVIOUS
  <2>2. \A m \in (n + 1)..N : m \in 1..N /\ m > N - k
    BY <1>1, <2>1
  <2>3. \A m \in (n + 1)..N : Replaced(p, text, m, f[m])
    BY <1>4, <2>2
  <2>4. n \in Places(text) /\ f[n] = Onward(p, text, f, n)
    BY <1>1, <1>2
  <2> QED  BY <2>3, <2>4, ReplacedOnward
<1>5. Last(N)
  <2> HIDE DEF Last
  <2>1. 0 \in Ks /\ \A k \in Nat : k \in Ks => k + 1 \in Ks
    BY <1>3, <1>4
  <2>2. Ks = Nat
    <3> HIDE DEF Ks
    <3>1. Ks \in SUBSET Nat
      BY DEF Ks
    <3> QED  BY <2>1, <3>1, EveryNumber
  <2> QED  BY <1>1, <2>2
<1>6. 1 > N - N
  BY <1>1
<1> QED  BY <1>1, <1>2, <1>5, <1>6

-----------------------------------------------------------------------------
(* A match that the upstream wrote and that is whole. *)
LeftWhole(q, text) == \E a \in DOMAIN text : \E b \in Ends(q, text, a) : Stretch(text, a, b)

(* replace_all leaves no match of its pattern whole and makes none of       *)
(* another's.                                                               *)
LEMMA RedactedIsClean ==
  ASSUME NEW text \in CellTexts, NEW p
  PROVE  /\ Redacted(p, text) \in CellTexts
         /\ ~LeftWhole(p, Redacted(p, text))
         /\ \A q : LeftWhole(q, Redacted(p, text)) => LeftWhole(q, text)
<1> DEFINE s == Redacted(p, text)
<1>1. Kept(p, text, 1, s)
  BY AllIsReplaced DEF Replaced, Redacted
<1> HIDE DEF s
<1>2. s \in CellTexts /\ DOMAIN s = 1..Len(s) /\ Len(s) \in Nat
  BY <1>1 DEF Kept, CellTexts
<1>3. DOMAIN text = 1..Len(text) /\ Len(text) \in Nat
  BY DEF CellTexts
<1>4. ASSUME NEW q, LeftWhole(q, s)
      PROVE  \E j \in DOMAIN text : /\ Ends(p, text, j) = {}
                                    /\ \E m \in Ends(q, text, j) : Stretch(text, j, m)
  <2>0. PICK a \in 1..Len(s) : \E b \in Ends(q, s, a) : Stretch(s, a, b)
    BY <1>2, <1>4 DEF LeftWhole
  <2>1. PICK b \in Ends(q, s, a) : Stretch(s, a, b)
    BY <2>0
  <2>2. b \in a..Len(s) /\ Said(s, a, b) \in q
    BY DEF Ends
  <2>3. PICK j : ComesFrom(p, text, 1, s, a, b, j)
    BY <1>1, <2>1, <2>2 DEF Kept
  <2> DEFINE m == j + (b - a)
  <2>4. /\ j \in 1..Len(text) /\ m \in j..Len(text) /\ Stretch(text, j, m) /\ Ends(p, text, j) = {}
        /\ \A k \in 0..(b - a) : s[a + k].word = text[j + k].word
    BY <2>3 DEF ComesFrom
  <2>5. Said(text, j, m) = Said(s, a, b)
    <3>1. m - j + 1 = b - a + 1
      BY <1>2, <1>3, <2>2, <2>4
    <3>2. ASSUME NEW k \in 1..(b - a + 1) PROVE text[j + k - 1].word = s[a + k - 1].word
      <4>1. k - 1 \in 0..(b - a) /\ a + (k - 1) = a + k - 1 /\ j + (k - 1) = j + k - 1
        BY <1>2, <1>3, <2>2, <2>4
      <4> HIDE DEF m
      <4> QED  BY <2>4, <4>1
    <3> HIDE DEF m
    <3> QED  BY <3>1, <3>2 DEF Said
  <2> HIDE DEF m
  <2>6. m \in Ends(q, text, j)
    BY <2>2, <2>4, <2>5 DEF Ends
  <2> QED  BY <1>3, <2>4, <2>6
<1>5. \A q : LeftWhole(q, s) => LeftWhole(q, text)
  BY <1>4 DEF LeftWhole
<1>6. ~LeftWhole(p, s)
  BY <1>4
<1> QED  BY <1>2, <1>5, <1>6 DEF s

LEMMA MatchesAreCounted ==
  ASSUME NEW text \in CellTexts, NEW p
  PROVE  MatchCount(p, text) \in Nat /\ (MatchCount(p, text) = 0 <=> ~Matches(p, text))
<1>1. Replaced(p, text, 1, ReplaceAll(p, text)) /\ DOMAIN text = 1..Len(text)
  BY AllIsReplaced DEF CellTexts
<1> QED  BY <1>1 DEF Replaced, MatchCount, Matches

(* So do several rounds, if there is one at all. *)
LEMMA RoundsAreClean ==
  ASSUME NEW text \in CellTexts, NEW p, NEW N \in Nat
  PROVE  /\ RedactedTimes(p, text, N) \in CellTexts
         /\ N # 0 => ~LeftWhole(p, RedactedTimes(p, text, N))
         /\ \A q : LeftWhole(q, RedactedTimes(p, text, N)) => LeftWhole(q, text)
         /\ N = 0 => RedactedTimes(p, text, N) = text
<1>1. PICK f : f = [k \in 0..N |-> AfterRound(p, text, f, k)] /\ RedactedTimes(p, text, N) = f[N]
  BY RedactedTimesUnfolds
<1> DEFINE CleanUpto(k) ==
             k \in 0..N =>
               /\ f[k] \in CellTexts
               /\ k # 0 => ~LeftWhole(p, f[k])
               /\ \A q : LeftWhole(q, f[k]) => LeftWhole(q, text)
               /\ k = 0 => f[k] = text
           Ks == {k \in Nat : CleanUpto(k)}
<1>2. CleanUpto(0)
  <2>1. f[0] = text
    BY <1>1 DEF AfterRound
  <2> QED  BY <2>1
<1>3. ASSUME NEW k \in Nat, CleanUpto(k) PROVE CleanUpto(k + 1)
  <2>1. SUFFICES ASSUME k + 1 \in 0..N
                 PROVE  /\ f[k + 1] \in CellTexts
                        /\ ~LeftWhole(p, f[k + 1])
                        /\ \A q : LeftWhole(q, f[k + 1]) => LeftWhole(q, text)
    OBVIOUS
  <2>2. k \in 0..N /\ k + 1 # 0 /\ (k + 1) - 1 = k
    BY <2>1
  <2>3. f[k + 1] = Redacted(p, f[k])
    BY <1>1, <2>1, <2>2 DEF AfterRound
  <2>4. f[k] \in CellTexts /\ \A q : LeftWhole(q, f[k]) => LeftWhole(q, text)
    BY <1>3, <2>2
  <2> QED  BY <2>3, <2>4, RedactedIsClean
<1>4. CleanUpto(N)
  <2> HIDE DEF CleanUpto
  <2>1. 0 \in Ks /\ \A k \in Nat : k \in Ks => k + 1 \in Ks
    BY <1>2, <1>3
  <2>2. Ks = Nat
    <3> HIDE DEF Ks
    <3>1. Ks \in SUBSET Nat
      BY DEF Ks
    <3> QED  BY <2>1, <3>1, EveryNumber
  <2> QED  BY <2>2
<1> QED  BY <1>1, <1>4

(* The patterns before a place are gone, and none is there that was not.    *)
LEMMA InspectedIsClean ==
  ASSUME NEW text \in CellTexts
  PROVE  /\ InspectText(text) \in CellTexts
         /\ \A i \in DOMAIN Patterns : ~LeftWhole(Patterns[i], InspectText(text))
         /\ ~Found(text) => InspectText(text) = text
<1> DEFINE N == Len(Patterns)
<1>1. N \in Nat /\ DOMAIN Patterns = 1..N
  BY EgressAssumption
<1>2. PICK f : f = [i \in 0..N |-> AfterPattern(text, f, i)] /\ InspectText(text) = f[N]
  BY InspectTextUnfolds
<1> DEFINE CleanUpto(k) ==
             k \in 0..N =>
               /\ f[k] \in CellTexts
               /\ \A q : LeftWhole(q, f[k]) => LeftWhole(q, text)
               /\ \A i \in 1..k : ~LeftWhole(Patterns[i], f[k])
               /\ ~Found(text) => f[k] = text
           Ks == {k \in Nat : CleanUpto(k)}
<1>3. CleanUpto(0)
  <2>1. 0 \in 0..N /\ f[0] = text
    BY <1>1, <1>2 DEF AfterPattern
  <2> QED  BY <2>1
<1>4. ASSUME NEW k \in Nat, CleanUpto(k) PROVE CleanUpto(k + 1)
  <2> DEFINE p == Patterns[k + 1]
             count == MatchCount(p, text)
  <2>1. SUFFICES ASSUME k + 1 \in 0..N
                 PROVE  /\ f[k + 1] \in CellTexts
                        /\ \A q : LeftWhole(q, f[k + 1]) => LeftWhole(q, text)
                        /\ \A i \in 1..(k + 1) : ~LeftWhole(Patterns[i], f[k + 1])
                        /\ ~Found(text) => f[k + 1] = text
    OBVIOUS
  <2>2. k \in 0..N /\ k + 1 \in 1..N /\ k + 1 # 0 /\ (k + 1) - 1 = k /\ 1..(k + 1) = (1..k) \union {k + 1}
    BY <1>1, <2>1
  <2>3. /\ f[k] \in CellTexts
        /\ \A q : LeftWhole(q, f[k]) => LeftWhole(q, text)
        /\ ~Found(text) => f[k] = text
    BY <1>4, <2>2
  <2>4. f[k + 1] = RedactedTimes(p, f[k], count)
    BY <1>2, <2>1, <2>2 DEF AfterPattern
  <2>5. count \in Nat /\ (count = 0 <=> ~Matches(p, text)) /\ (Matches(p, text) => Found(text))
    BY <1>1, <2>2, MatchesAreCounted DEF Found
  <2>6. count = 0 => ~LeftWhole(p, text)
    BY <2>5 DEF LeftWhole, Matches
  <2> HIDE DEF count
  <2>7. /\ f[k + 1] \in CellTexts
        /\ count # 0 => ~LeftWhole(p, f[k + 1])
        /\ \A q : LeftWhole(q, f[k + 1]) => LeftWhole(q, f[k])
        /\ count = 0 => f[k + 1] = f[k]
    BY <2>3, <2>4, <2>5, RoundsAreClean
  <2>8. ~LeftWhole(p, f[k + 1])
    BY <2>3, <2>6, <2>7
  <2>9. \A i \in 1..k : ~LeftWhole(Patterns[i], f[k + 1])
    BY <1>4, <2>2, <2>7
  <2> QED  BY <2>2, <2>3, <2>5, <2>7, <2>8, <2>9
<1>5. CleanUpto(N)
  <2> HIDE DEF CleanUpto
  <2>1. 0 \in Ks /\ \A k \in Nat : k \in Ks => k + 1 \in Ks
    BY <1>3, <1>4
  <2>2. Ks = Nat
    <3> HIDE DEF Ks
    <3>1. Ks \in SUBSET Nat
      BY DEF Ks
    <3> QED  BY <2>1, <3>1, EveryNumber
  <2> QED  BY <1>1, <2>2
<1>6. N \in 0..N
  BY <1>1
<1> QED  BY <1>1, <1>2, <1>5, <1>6

-----------------------------------------------------------------------------
(* What the inspector has made of a block. *)
AfterInspection(b) == IF b.form = "object" THEN [b EXCEPT !.text = InspectText(@)] ELSE b

SanitizedBlock == [form : {"object", "string", "other"}, text : CellTexts]

SanitizedInv ==
  /\ result \in Results
  /\ done \in 0..Len(result.content) /\ modified \in BOOLEAN
  /\ sanitized \in Seq(SanitizedBlock) /\ Len(sanitized) = done
  /\ \A n \in 1..done : sanitized[n] = AfterInspection(result.content[n])
  /\ returned.place \in {"nowhere", "content", "result"}

LEMMA BlocksOf ==
  ASSUME NEW r \in Results
  PROVE  /\ Len(r.content) \in Nat /\ DOMAIN r.content = 1..Len(r.content)
         /\ \A n \in 1..Len(r.content) : r.content[n] \in Block
<1>1. PICK k \in Nat : r.content \in [1..k -> Block]
  <2>1. CASE r.shape = "array"
    <3>1. r.content \in Contents
      BY <2>1 DEF Results
    <3> QED  BY <3>1, EgressAssumption DEF Contents
  <2>2. CASE r.shape # "array"
    <3>1. r.content \in [{1} -> Block] /\ {1} = 1..1
      BY <2>2 DEF Results
    <3> QED  BY <3>1
  <2> QED  BY <2>1, <2>2
<1>2. r.content \in Seq(Block)
  BY <1>1
<1> QED  BY <1>2

LEMMA TextsAreCells ==
  ASSUME NEW b \in Block
  PROVE  b.text \in CellTexts
<1>1. PICK words \in Texts : b.text = Marked(words, "own")
  BY DEF Block
<1>2. Len(words) \in Nat /\ DOMAIN words = 1..Len(words) /\ \A k \in DOMAIN words : words[k] \in Words
  BY EgressAssumption
<1>3. b.text = [k \in 1..Len(words) |-> [word |-> words[k], mark |-> "own"]]
  BY <1>1, <1>2 DEF Marked
<1>4. \A k \in 1..Len(words) : [word |-> words[k], mark |-> "own"] \in Cell
  BY <1>2 DEF Cell
<1>5. b.text \in [1..Len(words) -> Cell]
  BY <1>3, <1>4
<1> QED  BY <1>2, <1>5 DEF CellTexts

LEMMA InspectedBlock ==
  ASSUME NEW b \in Block
  PROVE  /\ AfterInspection(b) \in SanitizedBlock /\ AfterInspection(b).form = b.form
         /\ b.form = "object" => AfterInspection(b).text = InspectText(b.text)
         /\ (b.form = "object" => ~Found(b.text)) => AfterInspection(b) = b
<1>1. b.text \in CellTexts
  BY TextsAreCells
<1>2. InspectText(b.text) \in CellTexts /\ (~Found(b.text) => InspectText(b.text) = b.text)
  BY <1>1, InspectedIsClean
<1>3. b = [form |-> b.form, text |-> b.text] /\ b.form \in {"object", "string", "other"}
  BY DEF Block
<1>4. b.form = "object" => AfterInspection(b) = [form |-> b.form, text |-> InspectText(b.text)]
  BY <1>3 DEF AfterInspection
<1> QED  BY <1>1, <1>2, <1>3, <1>4 DEF AfterInspection, SanitizedBlock

LEMMA SanitizedStep ==
  ASSUME SanitizedInv, [EgressNext]_egressVars
  PROVE  SanitizedInv'
<1>1. CASE InspectBlock
  <2> DEFINE b == result.content[done + 1]
  <2>1. /\ done < Len(result.content) /\ done' = done + 1 /\ UNCHANGED <<result, returned>>
        /\ sanitized' = Append(sanitized, AfterInspection(b)) /\ modified' \in BOOLEAN
    BY <1>1 DEF InspectBlock, Current, AfterInspection, SanitizedInv
  <2>2. /\ Len(result.content) \in Nat /\ done \in Nat /\ done + 1 \in 1..Len(result.content)
        /\ b \in Block
    BY <2>1, BlocksOf DEF SanitizedInv
  <2>3. AfterInspection(b) \in SanitizedBlock
    BY <2>2, InspectedBlock
  <2>4. sanitized \in Seq(SanitizedBlock) /\ Len(sanitized) = done
    BY DEF SanitizedInv
  <2>5. /\ sanitized' \in Seq(SanitizedBlock) /\ Len(sanitized') = done + 1
        /\ sanitized'[done + 1] = AfterInspection(b) /\ \A n \in 1..done : sanitized'[n] = sanitized[n]
    <3> HIDE DEF b
    <3> QED  BY <2>1, <2>3, <2>4
  <2>6. 1..done' = (1..done) \union {done + 1}
    BY <2>1, <2>2
  <2>7. \A n \in 1..done' : sanitized'[n] = AfterInspection(result'.content[n])
    BY <2>1, <2>5, <2>6 DEF SanitizedInv
  <2> QED  BY <2>1, <2>2, <2>5, <2>7 DEF SanitizedInv, AfterInspection
<1>2. CASE Return
  BY <1>2 DEF Return, SanitizedInv, AfterInspection
<1>3. CASE UNCHANGED egressVars
  BY <1>3 DEF egressVars, SanitizedInv, AfterInspection
<1> QED  BY <1>1, <1>2, <1>3 DEF EgressNext

(* For any patterns, texts and replacement, the empty one and one that has  *)
(* a pattern itself included: no match the upstream wrote is left whole,    *)
(* whichever patterns overlap and in whatever order and how often they are  *)
(* replaced, and a text without any is as it was.                           *)
(* (inspect_text, sanitize_response)                                        *)
THEOREM NoWholeMatchIsLeft == EgressSpec => [](EgressTypeOK /\ NoMatchIsLeftWhole)
<1>1. EgressInit => SanitizedInv
  <2> SUFFICES ASSUME EgressInit PROVE SanitizedInv
    OBVIOUS
  <2>1. result \in Results /\ Len(result.content) \in Nat
    BY BlocksOf DEF EgressInit
  <2>2. done = 0 /\ 1..done = {} /\ done \in 0..Len(result.content)
    BY <2>1 DEF EgressInit
  <2>3. sanitized \in Seq(SanitizedBlock) /\ Len(sanitized) = 0
    BY DEF EgressInit
  <2>4. modified \in BOOLEAN /\ returned.place = "nowhere"
    BY DEF EgressInit, NotYet
  <2> QED  BY <2>1, <2>2, <2>3, <2>4 DEF SanitizedInv
<1>2. SanitizedInv => EgressTypeOK /\ NoMatchIsLeftWhole
  <2> SUFFICES ASSUME SanitizedInv PROVE EgressTypeOK /\ NoMatchIsLeftWhole
    OBVIOUS
  <2>1. ASSUME NEW n \in 1..done
        PROVE  LET b == result.content[n] IN
               /\ sanitized[n].form = b.form
               /\ (b.form = "object" => ~Found(b.text)) => sanitized[n] = b
               /\ b.form = "object" =>
                    \A i \in DOMAIN Patterns : ~LeftWhole(Patterns[i], sanitized[n].text)
    <3>1. result.content[n] \in Block
      BY BlocksOf DEF SanitizedInv
    <3>2. result.content[n].text \in CellTexts
      BY <3>1, TextsAreCells
    <3> QED  BY <3>1, <3>2, InspectedBlock, InspectedIsClean DEF SanitizedInv
  <2>2. EgressTypeOK
    BY <2>1 DEF EgressTypeOK, SanitizedInv
  <2>3. NoMatchIsLeftWhole
    BY <2>1 DEF NoMatchIsLeftWhole, LeftWhole
  <2> QED  BY <2>2, <2>3
<1> QED  BY <1>1, <1>2, SanitizedStep, PTL DEF EgressSpec

-----------------------------------------------------------------------------
(* The parts beside each other: a step of one is none of the others', so    *)
(* each keeps what is proved of it alone.                                   *)
THEOREM ChecksAreEachPart ==
  ChecksSpec => RegistrySpec /\ SchemaSpec /\ EcpaSpec /\ EgressSpec /\ CedarSpec /\ LimiterSpec
<1> DEFINE checksVars == <<part, registryVars, schemaVars, ecpaVars, egressVars, cedarVars, limiterVars>>
<1>1. ChecksInit => RegistryInit /\ SchemaInit /\ EcpaInit /\ EgressInit /\ CedarInit /\ LimiterInit
  BY DEF ChecksInit
<1>2. [ChecksNext]_checksVars => [RegistryNext]_registryVars
  BY DEF ChecksNext
<1>3. [ChecksNext]_checksVars => [SchemaNext]_schemaVars
  BY DEF ChecksNext
<1>4. [ChecksNext]_checksVars => [EcpaNext]_ecpaVars
  BY DEF ChecksNext
<1>5. [ChecksNext]_checksVars => [EgressNext]_egressVars
  BY DEF ChecksNext
<1>6. [ChecksNext]_checksVars => [CedarNext]_cedarVars
  BY DEF ChecksNext
<1>7. [ChecksNext]_checksVars => [LimiterNext]_limiterVars
  BY DEF ChecksNext
<1> QED BY <1>1, <1>2, <1>3, <1>4, <1>5, <1>6, <1>7, PTL
        DEF ChecksSpec, RegistrySpec, SchemaSpec, EcpaSpec, EgressSpec, CedarSpec, LimiterSpec

(* Every part's state is of its types, for any instance of any part.        *)
THEOREM ChecksTypes == ChecksSpec => [](part \in Parts /\ ChecksTypeOK)
<1>1. ChecksInit => part \in Parts
  BY DEF ChecksInit
<1>2. part \in Parts
        /\ [ChecksNext]_<<part, registryVars, schemaVars, ecpaVars, egressVars, cedarVars, limiterVars>>
          => (part \in Parts)'
  BY DEF ChecksNext
<1>3. part \in Parts /\ RegistryInv /\ CacheTypeOK /\ EcpaTypeOK /\ EgressTypeOK /\ CedarTypeOK /\ LimiterTypeOK
        => ChecksTypeOK
  BY DEF ChecksTypeOK, Parts
<1>4. ChecksSpec => [](part \in Parts)
  BY <1>1, <1>2, PTL DEF ChecksSpec
<1> QED BY <1>3, <1>4, ChecksAreEachPart, RegistryInvariant, CacheIsTransparent, DirectoryIsLoadedWhole,
           NoWholeMatchIsLeft, CedarInvariant, LimiterTypes, PTL
=============================================================================
