---------------------------- MODULE RequestGate ----------------------------
(***************************************************************************)
(* What lets a request or a job through once, and how often.               *)
(*                                                                         *)
(*   "request"  a signed HTTP request at the Gateway: the timestamp and    *)
(*              nonce of transportauth/signature.go, the Bolt replay store *)
(*              of replay/store.go, then the rate limiter of gateway.go;   *)
(*   "exec"     a job at the Exec supervisor: execworker/capability.go;    *)
(*   "worker"   a job at a File, Network or Remote Worker:                  *)
(*              capability/token.go, networkworker/token.go,               *)
(*              remoteworker/job.go.                                       *)
(*                                                                         *)
(* All three read the clock and check the token's time first and look at   *)
(* their table of used ids later, under a lock: a verification is two      *)
(* steps, the second with the time of the first.  So is rateLimiter.allow. *)
(* A token may arrive any number of times, each arrival being an attempt.  *)
(***************************************************************************)
EXTENDS Integers, FiniteSets

CONSTANTS
    Kinds,      \* the gates checked, among the three above
    Tokens,     \* nonces, or capability ids
    Attempts,   \* arrivals
    Principals, \* subjects of the rate limiter: principal and address
    MaxAge,     \* Verifier.maxAge
    Lifetime,   \* maxTokenLifetime and maxCapabilityLifetime
    Rate, Burst, BucketTTL, MaxBuckets, \* of the rate limiter
    MaxNow      \* bound on the clock

ASSUME GateAssumption ==
    /\ Kinds \subseteq {"request", "exec", "worker"}
    /\ {MaxAge, Lifetime, Rate, Burst, BucketTTL, MaxBuckets} \subseteq Nat \ {0} /\ MaxNow \in Nat

VARIABLES
    kind,     \* which gate this is
    now,
    signed,   \* token -> its timestamp or its expiry, once signed
    attempt,  \* progress of each arrival, its token, subject and the clock it has read
    used,     \* the table of used ids: id -> expiry of the record
    buckets,  \* rateLimiter.buckets; birth and admitted are history
    passed    \* history: how often a token has been accepted, and until when it is guarded

vars == <<kind, now, signed, attempt, used, buckets, passed>>

Never == MaxNow + MaxAge + Lifetime + 1 \* a record that does not expire
Empty == << >>

Init ==
    /\ kind \in Kinds
    /\ now = 0
    /\ signed = Empty
    /\ attempt = [a \in Attempts |-> [pc |-> "idle"]]
    /\ used = Empty
    /\ buckets = Empty
    /\ passed = [i \in Tokens |-> [times |-> 0, until |-> 0]]

Extend(f, k, v) == [x \in DOMAIN f \cup {k} |-> IF x = k THEN v ELSE f[x]]

\* The entries of the table that are not expired at t.
Unexpired(t) == [i \in {j \in DOMAIN used : used[j] > t} |-> used[i]]

\* The time of a token against the clock t: a request's timestamp may lie on
\* either side, a capability's expiry ahead and not too far.
RequestFresh(time, t)    == time >= t - MaxAge /\ time <= t + MaxAge
CapabilityFresh(time, t) == t < time /\ time <= t + Lifetime
Fresh(time, t) == IF kind = "request" THEN RequestFresh(time, t) ELSE CapabilityFresh(time, t)

\* The times a token may be signed with: a client's clock is off by the allowed
\* age at most, the Gateway signs a capability for at most its lifetime.
RequestTimes    == (now - MaxAge)..(now + MaxAge)
CapabilityTimes == (now + 1)..(now + Lifetime)

\* Bolt.Consume takes a record whose expiry is past for none; the exec verifier
\* deletes the expired records first; the workers' verifiers keep theirs.
NonceUnused(i, t) == ~(i \in DOMAIN used /\ used[i] > t)
ExecUnused(i, t)  == i \notin DOMAIN Unexpired(t)
WorkerUnused(i)   == i \notin DOMAIN used

\* The expiry of the record an acceptance leaves.
Record(i, t) == CASE kind = "request" -> t + MaxAge
                  [] kind = "exec" -> signed[i]
                  [] OTHER -> Never

\* evictOldest: a bucket with the earliest lastSeen.
Oldest(bs) == {p \in DOMAIN bs : \A q \in DOMAIN bs : bs[p].lastSeen <= bs[q].lastSeen}

----------------------------------------------------------------------------
(* Faulty variants of the definitions below.  No specification uses them:  *)
(* each shows that a property can fail.                                    *)

\* The lookup and the insertion are not under one lock: a verification believes
\* the table it has seen when it read the clock.
AcceptedUnlocked(a) == TRUE

\* A bucket's update time follows the clock that was read, backwards too.
BucketBackwards(bs, p, t) ==
    IF p \notin DOMAIN bs
    THEN [tokens |-> Burst, updated |-> t, lastSeen |-> t, birth |-> t, admitted |-> 0]
    ELSE LET b == bs[p]
             full == b.tokens + (IF t > b.updated THEN (t - b.updated) * Rate ELSE 0)
         IN  [b EXCEPT !.tokens = IF full > Burst THEN Burst ELSE full, !.updated = t, !.lastSeen = t]

----------------------------------------------------------------------------

\* allow: the bucket as it is when a request of p has read the time t.
Bucket(bs, p, t) ==
    IF p \notin DOMAIN bs
    THEN [tokens |-> Burst, updated |-> t, lastSeen |-> t, birth |-> t, admitted |-> 0]
    ELSE LET b == bs[p]
             full == b.tokens + (t - b.updated) * Rate
         IN  IF t > b.updated
             THEN [b EXCEPT !.tokens = IF full > Burst THEN Burst ELSE full, !.updated = t, !.lastSeen = t]
             ELSE [b EXCEPT !.lastSeen = t]

\* SignRequest, or Sign.
Sign(i, time) ==
    /\ i \notin DOMAIN signed
    /\ time \in IF kind = "request" THEN RequestTimes ELSE CapabilityTimes
    /\ signed' = Extend(signed, i, time)
    /\ UNCHANGED <<kind, now, attempt, used, buckets, passed>>

\* The signature, the claims and the time of the token hold at the time read now.
CheckFreshness(a, i, p) ==
    /\ attempt[a].pc = "idle" /\ i \in DOMAIN signed
    /\ attempt' = [attempt EXCEPT ![a] =
          IF Fresh(signed[i], now) THEN [pc |-> "fresh", id |-> i, subject |-> p, read |-> now]
          ELSE [pc |-> "refused"]]
    /\ UNCHANGED <<kind, now, signed, used, buckets, passed>>

Accepted(a) ==
    LET r == attempt[a] IN
    CASE kind = "request" -> NonceUnused(r.id, r.read)
      [] kind = "exec" -> ExecUnused(r.id, r.read)
      [] OTHER -> WorkerUnused(r.id)

\* Consume, or the locked part of Verify, as of the time read before.
Consume(a) ==
    /\ attempt[a].pc = "fresh"
    /\ LET r == attempt[a]
           kept == IF kind = "worker" THEN used ELSE Unexpired(r.read)
       IN  IF Accepted(a)
           THEN /\ used' = Extend(kept, r.id, Record(r.id, r.read))
                /\ passed' = [passed EXCEPT ![r.id] =
                                 [times |-> @.times + 1, until |-> Record(r.id, r.read)]]
                /\ attempt' = [attempt EXCEPT ![a] =
                                  IF kind = "request" THEN [pc |-> "verified", subject |-> r.subject]
                                  ELSE [pc |-> "admitted"]]
           ELSE /\ used' = IF kind = "exec" THEN kept ELSE used
                /\ attempt' = [attempt EXCEPT ![a] = [pc |-> "refused"]]
                /\ UNCHANGED passed
    /\ UNCHANGED <<kind, now, signed, buckets>>

\* rateLimiter.allow reads the clock ...
RateClock(a) ==
    /\ attempt[a].pc = "verified"
    /\ attempt' = [attempt EXCEPT ![a] = [pc |-> "limiting", subject |-> @.subject, read |-> now]]
    /\ UNCHANGED <<kind, now, signed, used, buckets, passed>>

\* removeExpired
RemoveExpired(t) == [p \in {q \in DOMAIN buckets : buckets[q].lastSeen + BucketTTL > t} |-> buckets[p]]

\* The tables left when a bucket for p is wanted.
Room(bs, p) ==
    IF p \in DOMAIN bs \/ Cardinality(DOMAIN bs) < MaxBuckets THEN {bs}
    ELSE {[q \in DOMAIN bs \ {o} |-> bs[q]] : o \in Oldest(bs)}

\* ... and then takes the lock.
Allow(a) ==
    /\ attempt[a].pc = "limiting"
    /\ \E bs \in Room(RemoveExpired(attempt[a].read), attempt[a].subject) :
          LET p == attempt[a].subject
              b == Bucket(bs, p, attempt[a].read)
          IN  IF b.tokens < 1
              THEN /\ buckets' = Extend(bs, p, b)
                   /\ attempt' = [attempt EXCEPT ![a] = [pc |-> "refused"]]
              ELSE /\ buckets' = Extend(bs, p, [b EXCEPT !.tokens = @ - 1, !.admitted = @ + 1])
                   /\ attempt' = [attempt EXCEPT ![a] = [pc |-> "admitted"]]
    /\ UNCHANGED <<kind, now, signed, used, passed>>

\* The Gateway stops and starts again: the replay database stays, the buckets
\* and the requests under way are gone.
Restart ==
    /\ kind = "request"
    /\ \E a \in Attempts : attempt[a].pc \in {"fresh", "verified", "limiting"}
    /\ attempt' = [a \in Attempts |-> IF attempt[a].pc \in {"fresh", "verified", "limiting"}
                                      THEN [pc |-> "refused"] ELSE attempt[a]]
    /\ buckets' = Empty
    /\ UNCHANGED <<kind, now, signed, used, passed>>

Tick ==
    /\ now < MaxNow
    /\ now' = now + 1
    /\ UNCHANGED <<kind, signed, attempt, used, buckets, passed>>

Next ==
    \/ Tick \/ Restart
    \/ \E i \in Tokens, time \in (-MaxAge)..Never : Sign(i, time)
    \/ \E a \in Attempts : \/ \E i \in Tokens, p \in Principals : CheckFreshness(a, i, p)
                           \/ Consume(a) \/ RateClock(a) \/ Allow(a)

Spec == Init /\ [][Next]_vars

----------------------------------------------------------------------------
(* Properties. *)

\* A token is accepted a second time only after the record of its first use has
\* expired, whatever attempts overlap, however late a verification comes to the
\* table, and across a restart of the Gateway.  A File or Network Worker never
\* accepts one twice.
SingleUse ==
    [][\A i \in Tokens : passed[i].times > 0 /\ passed'[i].times > passed[i].times
                         => passed[i].until <= now]_vars

\* From the birth of its bucket a subject is admitted at most Burst requests and
\* Rate more per unit of time, although requests update the bucket with clocks
\* read in another order than they take the lock.
BoundedRate ==
    \A p \in DOMAIN buckets :
        buckets[p].admitted <= Burst + Rate * (now - buckets[p].birth)
=============================================================================
