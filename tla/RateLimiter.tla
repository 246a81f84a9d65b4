---------------------------- MODULE RateLimiter ----------------------------
(***************************************************************************)
(* The token-bucket rate limiter (src/telemetry/rate_limiter.rs).          *)
(*                                                                         *)
(* check and peek first read the rules, give that lock back, and then take *)
(* the lock of the buckets: rules and buckets may change in between, so    *)
(* they are two actions.  Buckets are kept per key and remember the        *)
(* capacity and the rate of the rule they were made under.                 *)
(*                                                                         *)
(* Time is counted in ticks and tokens in parts, Unit parts to the token,  *)
(* so that the refill of one tick is a whole number of parts; the code has *)
(* floating-point seconds and tokens.  Both clocks are read while the      *)
(* buckets are locked, so every bucket sees them in order.                 *)
(***************************************************************************)
EXTENDS Integers, Sequences, FiniteSets

CONSTANTS
  Callers,      \* tasks that call the limiter
  LimitKeys,    \* rate-limit keys, as records [scope, value]
  RuleSet,      \* the rules that may be configured
  DefaultRule,  \* with_default_rule, or NoRule
  NoRule,
  AnyValue,     \* scope_value = None
  NoBucket,
  Unit,         \* parts of a token
  MinPriority,  \* i32::MIN, at the width of the model
  Never         \* reset_after_secs = infinity

(* A RateLimitRule is a record [id, scope, value, enabled, capacity, rate, *)
(* limit, priority]: whom it matches, the capacity (the burst allowance,   *)
(* or without one the requests per window), the refill in parts per tick,  *)
(* the requests per window it reports, and its priority.                   *)
Bucket == [tokens : Nat, last : Nat, capacity : Nat, rate : Nat]

AllRules == RuleSet \union ({DefaultRule} \ {NoRule})

ASSUME LimiterAssumption ==
  /\ Unit \in Nat \ {0}
  /\ NoRule \notin RuleSet
  /\ \A r \in AllRules : r.capacity \in Nat /\ r.rate \in Nat /\ r.priority \in Int
  /\ MinPriority \in Int
  /\ NoBucket \notin Bucket

VARIABLES
  now,        \* Instant::now(), in ticks
  rules,      \* TokenBucketRateLimiter.rules, in list order
  buckets,    \* TokenBucketRateLimiter.buckets
  calls,      \* per caller: nothing, or a check or peek with the rule it found
  answers,    \* per caller: the last RateLimitResult
  admitted,   \* history: when the bucket that is there now admitted calls
  undisturbed \* history: since the caller's last answer the bucket behind
              \* it was neither reset nor drawn from

limiterVars == <<now, rules, buckets, calls, answers, admitted, undisturbed>>

Idle == [kind |-> "idle"]
NoAnswer == [kind |-> "none"]

LimiterInit ==
  /\ now = 0
  /\ rules = <<>>
  /\ buckets = [k \in LimitKeys |-> NoBucket]
  /\ calls = [c \in Callers |-> Idle]
  /\ answers = [c \in Callers |-> NoAnswer]
  /\ admitted = [k \in LimitKeys |-> <<>>]
  /\ undisturbed = [c \in Callers |-> FALSE]

-----------------------------------------------------------------------------
(* Rules.                                                                  *)

(* `-r.priority` on an i32: the least value is its own negation (release   *)
(* builds wrap).                                                           *)
SortKey(r) == IF r.priority = MinPriority THEN MinPriority ELSE -r.priority

(* A rule goes before those with a greater key, and among equals before the *)
(* later ones.                                                              *)
GoesBefore(list, i, j) ==
  \/ SortKey(list[i]) < SortKey(list[j])
  \/ SortKey(list[i]) = SortKey(list[j]) /\ i <= j

(* sort_by_key, which is stable: an element's place is the number of those  *)
(* that go before it.                                                       *)
StableSort(list) ==
  LET place(i) == Cardinality({j \in DOMAIN list : GoesBefore(list, j, i)})
  IN  [p \in DOMAIN list |-> list[CHOOSE i \in DOMAIN list : place(i) = p]]

RuleMatches(r, k) ==
  /\ r.enabled
  /\ r.scope = "global" \/ (r.scope = k.scope /\ r.value \in {AnyValue, k.value})

(* find_matching_rule: of the rules that match, sorted, the first one; or   *)
(* the default.                                                             *)
FindMatchingRule(k) ==
  LET matching == {i \in DOMAIN rules : RuleMatches(rules[i], k)}
  IN  IF matching = {} THEN DefaultRule
      ELSE rules[CHOOSE i \in matching : \A j \in matching : GoesBefore(rules, i, j)]

AddRule(r) ==
  /\ \A i \in DOMAIN rules : rules[i].id # r.id
  /\ rules' = StableSort(Append(rules, r))
  /\ UNCHANGED <<now, buckets, calls, answers, admitted, undisturbed>>

RemoveRule(id) ==
  \E i \in DOMAIN rules :
    /\ rules[i].id = id /\ \A j \in 1..(i - 1) : rules[j].id # id
    /\ rules' = SubSeq(rules, 1, i - 1) \o SubSeq(rules, i + 1, Len(rules))
    /\ UNCHANGED <<now, buckets, calls, answers, admitted, undisturbed>>

-----------------------------------------------------------------------------
(* Buckets.                                                                *)
NewBucket(r) == [tokens |-> r.capacity * Unit, last |-> now, capacity |-> r.capacity, rate |-> r.rate]

Least(a, b) == IF a <= b THEN a ELSE b

(* Slip: the refill forgets to move last_refill. *)
RefilledTwice(b) ==
  [b EXCEPT !.tokens = Least(b.tokens + (now - b.last) * b.rate, b.capacity * Unit)]

(* TokenBucket::refill *)
Refilled(b) ==
  [b EXCEPT !.tokens = Least(b.tokens + (now - b.last) * b.rate, b.capacity * Unit), !.last = now]

(* with_bucket: the key's bucket, or one made under the rule at hand. *)
BucketFor(k, r) == IF buckets[k] = NoBucket THEN NewBucket(r) ELSE buckets[k]

(* Slip: rounded down, a caller is told to come back a moment too early. *)
ResetAfterEarly(b) ==
  IF b.tokens >= Unit THEN 0 ELSE IF b.rate = 0 THEN Never ELSE (Unit - b.tokens) \div b.rate

(* reset_after_secs, rounded up to a tick. *)
ResetAfter(b) ==
  IF b.tokens >= Unit THEN 0
  ELSE IF b.rate = 0 THEN Never ELSE (Unit - b.tokens + b.rate - 1) \div b.rate

(* check and peek, first half.  No rule and no default is an error. *)
FindRule(c, kind, k) ==
  /\ calls[c] = Idle
  /\ FindMatchingRule(k) \in AllRules
  /\ calls' = [calls EXCEPT ![c] = [kind |-> kind, key |-> k, rule |-> FindMatchingRule(k)]]
  /\ UNCHANGED <<now, rules, buckets, answers, admitted, undisturbed>>

(* The RateLimitResult, with the rule it reports and, as history, its key  *)
(* and time.                                                               *)
Answer(kind, allowed, b, k, r) ==
  [kind |-> kind, allowed |-> allowed, remaining |-> b.tokens \div Unit, reset |-> ResetAfter(b),
   rule |-> r, key |-> k, at |-> now]

(* The bucket b is stored under k and the caller has its answer. *)
Reply(c, k, b, answer) ==
  /\ buckets' = [buckets EXCEPT ![k] = b]
  /\ answers' = [answers EXCEPT ![c] = answer]
  /\ calls' = [calls EXCEPT ![c] = Idle]
  /\ UNCHANGED <<now, rules>>

(* Callers whose last answer came from the key's bucket. *)
AnsweredFrom(k) == {c \in Callers : answers[c].kind # "none" /\ answers[c].key = k}

(* check, second half: try_consume(1.0). *)
Consume(c) ==
  /\ calls[c].kind = "check"
  /\ LET k == calls[c].key
         r == calls[c].rule
         b == Refilled(BucketFor(k, r))
         spent == [b EXCEPT !.tokens = @ - Unit]
     IN  \/ /\ b.tokens >= Unit
            /\ Reply(c, k, spent, Answer("check", TRUE, spent, k, r))
            /\ admitted' = [admitted EXCEPT ![k] = Append(@, now)]
            /\ undisturbed' = [d \in Callers |-> d = c \/ (undisturbed[d] /\ d \notin AnsweredFrom(k))]
         \/ /\ b.tokens < Unit
            /\ Reply(c, k, b, Answer("check", FALSE, b, k, r))
            /\ undisturbed' = [undisturbed EXCEPT ![c] = TRUE]
            /\ UNCHANGED admitted

(* peek, second half: the bucket is made and refilled, nothing is taken. *)
Peek(c) ==
  /\ calls[c].kind = "peek"
  /\ LET k == calls[c].key
         r == calls[c].rule
         b == Refilled(BucketFor(k, r))
     IN  Reply(c, k, b, Answer("peek", b.tokens >= Unit, b, k, r))
  /\ undisturbed' = [undisturbed EXCEPT ![c] = TRUE]
  /\ UNCHANGED admitted

(* reset: the bucket goes; the next call makes a new, full one. *)
Reset(k) ==
  /\ buckets' = [buckets EXCEPT ![k] = NoBucket]
  /\ admitted' = [admitted EXCEPT ![k] = <<>>]
  /\ undisturbed' = [c \in Callers |-> undisturbed[c] /\ c \notin AnsweredFrom(k)]
  /\ UNCHANGED <<now, rules, calls, answers>>

(* The caller's future is dropped between the two halves. *)
Abandon(c) ==
  /\ calls[c] # Idle
  /\ calls' = [calls EXCEPT ![c] = Idle]
  /\ UNCHANGED <<now, rules, buckets, answers, admitted, undisturbed>>

Tick ==
  /\ now' = now + 1
  /\ UNCHANGED <<rules, buckets, calls, answers, admitted, undisturbed>>

LimiterNext ==
  \/ \E c \in Callers, kind \in {"check", "peek"}, k \in LimitKeys : FindRule(c, kind, k)
  \/ \E c \in Callers : Consume(c) \/ Peek(c) \/ Abandon(c)
  \/ \E k \in LimitKeys : Reset(k)
  \/ \E r \in RuleSet : AddRule(r)
  \/ \E r \in RuleSet : RemoveRule(r.id)
  \/ Tick

LimiterSpec == LimiterInit /\ [][LimiterNext]_limiterVars

-----------------------------------------------------------------------------
(* Buckets are never over-full and never younger than their last refill.    *)
LimiterTypeOK ==
  /\ now \in Nat
  /\ rules \in Seq(RuleSet)
  /\ buckets \in [LimitKeys -> Bucket \union {NoBucket}]
  /\ calls \in [Callers -> {Idle} \union [kind : {"check", "peek"}, key : LimitKeys,
                                         rule : AllRules]]
  /\ admitted \in [LimitKeys -> Seq(Nat)]
  /\ undisturbed \in [Callers -> BOOLEAN]
  /\ \A k \in LimitKeys : buckets[k] # NoBucket =>
       buckets[k].tokens <= buckets[k].capacity * Unit /\ buckets[k].last <= now

(* The promise of a token bucket.  In any stretch of time, however checks,  *)
(* peeks, rule changes and other keys interleave, a bucket admits no more   *)
(* calls than its capacity plus what its rate refills in that stretch.      *)
(* (TokenBucket::try_consume under with_bucket)                             *)
WithinCapacityAndRate ==
  \A k \in LimitKeys : \A i, j \in DOMAIN admitted[k] :
    (i <= j /\ buckets[k] # NoBucket) =>
      (j - i + 1) * Unit <=
        buckets[k].capacity * Unit + buckets[k].rate * (admitted[k][j] - admitted[k][i])

(* A caller that waits as long as reset_after_secs said, while nobody else  *)
(* draws from its bucket, finds a token there.                              *)
ResetAfterIsEnough ==
  \A c \in Callers :
    LET a == answers[c] IN
    (undisturbed[c] /\ a.reset # Never /\ now >= a.at + a.reset)
      => buckets[a.key] # NoBucket /\ Refilled(buckets[a.key]).tokens >= Unit
=============================================================================
