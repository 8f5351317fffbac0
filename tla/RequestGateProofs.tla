------------------------- MODULE RequestGateProofs -------------------------
(***************************************************************************)
(* TLAPS proofs about RequestGate, for every gate, any tokens, arrivals    *)
(* and subjects, and any ages, lifetimes, rates and capacities.            *)
(*                                                                         *)
(* A clock that was read is behind the clock.  So whatever a verification  *)
(* forgets at the time it has read is expired now, and whatever it does    *)
(* not find was never recorded or is expired now.  A bucket holds what its *)
(* subject has not used of the burst and of the rate since its birth, up   *)
(* to its last update, which is behind the clock too.                      *)
(***************************************************************************)
EXTENDS RequestGate, TLAPS

Clock == 0..MaxNow

\* The records that describe the progress of an attempt.
Progress ==
    [pc : {"idle", "refused", "admitted"}]
        \cup [pc : {"fresh"}, id : Tokens, subject : Principals, read : Clock]
        \cup [pc : {"verified"}, subject : Principals]
        \cup [pc : {"limiting"}, subject : Principals, read : Clock]

BucketRecords == [tokens : Nat, updated : Clock, lastSeen : Clock, birth : Clock, admitted : Nat]

TypeOK ==
    /\ kind \in {"request", "exec", "worker"}
    /\ now \in Clock
    /\ signed \in [DOMAIN signed -> Int] /\ DOMAIN signed \subseteq Tokens
    /\ attempt \in [Attempts -> Progress]
    /\ used \in [DOMAIN used -> Int] /\ DOMAIN used \subseteq Tokens
    /\ buckets \in [DOMAIN buckets -> BucketRecords] /\ DOMAIN buckets \subseteq Principals
    /\ passed \in [Tokens -> [times : Nat, until : Int]]

\* What was read of the clock is not ahead of it.
ClockRead ==
    \A a \in Attempts : attempt[a].pc \in {"fresh", "limiting"} => attempt[a].read <= now

\* Only a token that was signed is verified.
SignedFirst == \A a \in Attempts : attempt[a].pc = "fresh" => attempt[a].id \in DOMAIN signed

\* A token that was accepted has its record, until the record expires.
Recorded ==
    \A i \in Tokens : passed[i].times > 0 /\ passed[i].until > now
        => i \in DOMAIN used /\ used[i] = passed[i].until

\* A bucket that was updated at or before t has given out, and still holds, no
\* more than the burst and what the rate has added since its birth.
Sound(b, t) ==
    /\ b.birth <= b.updated /\ b.updated <= t
    /\ b.admitted + b.tokens <= Burst + Rate * (b.updated - b.birth)

BucketsSound == \A p \in DOMAIN buckets : Sound(buckets[p], now)

IInv ==
    /\ TypeOK
    /\ ClockRead
    /\ SignedFirst
    /\ Recorded
    /\ BucketsSound

----------------------------------------------------------------------------
(* The operators. *)

USE DEF vars

\* The constants are numbers.
LEMMA Numbers ==
    /\ MaxAge \in Nat /\ Lifetime \in Nat /\ Rate \in Nat /\ Burst \in Nat \ {0} /\ BucketTTL \in Nat
    /\ MaxNow \in Nat /\ Never \in Nat /\ Never > MaxNow /\ Clock \subseteq Int
  BY GateAssumption DEF Never, Clock

\* What the progress of an attempt carries.
LEMMA Shapes ==
    \A r \in Progress :
        /\ r.pc \in {"idle", "refused", "admitted", "fresh", "verified", "limiting"}
        /\ r.pc = "fresh" => r.id \in Tokens /\ r.subject \in Principals /\ r.read \in Clock
        /\ r.pc = "verified" => r.subject \in Principals
        /\ r.pc = "limiting" => r.subject \in Principals /\ r.read \in Clock
  BY DEF Progress

\* A table with one more entry.
LEMMA ExtendTypes ==
    ASSUME NEW S, NEW f, NEW D, f \in [D -> S], NEW k, NEW v \in S
    PROVE  /\ Extend(f, k, v) \in [D \cup {k} -> S] /\ DOMAIN Extend(f, k, v) = D \cup {k}
           /\ Extend(f, k, v)[k] = v
           /\ \A x \in D : x # k => Extend(f, k, v)[x] = f[x]
  BY DEF Extend

\* The rate adds up over two stretches of time, and adds nothing negative.
LEMMA RateAdds ==
    \A x, y \in Nat : Rate * (x + y) = Rate * x + Rate * y /\ Rate * x >= 0
  BY Numbers

\* Every table evictOldest may leave is a part of the table.
LEMMA RoomIsPart ==
    ASSUME NEW bs, NEW D, bs \in [D -> BucketRecords], NEW p, NEW c \in Room(bs, p)
    PROVE  DOMAIN c \subseteq D /\ c \in [DOMAIN c -> BucketRecords] /\ \A q \in DOMAIN c : c[q] = bs[q]
  <1>1. CASE c = bs
    BY <1>1
  <1>2. CASE \E o \in Oldest(bs) : c = [q \in DOMAIN bs \ {o} |-> bs[q]]
    BY <1>2
  <1> QED BY <1>1, <1>2 DEF Room

\* The bucket of a request that has read t, which is behind the clock.
LEMMA BucketIsSound ==
    ASSUME NEW bs, NEW D, bs \in [D -> BucketRecords], NEW p, NEW t \in Clock, NEW n \in Clock, t <= n,
           \A q \in D : Sound(bs[q], n)
    PROVE  Bucket(bs, p, t) \in BucketRecords /\ Sound(Bucket(bs, p, t), n)
  <1>0. t \in Int /\ n \in Int
    BY Numbers
  <1>1. CASE p \notin D
    <2>1. Bucket(bs, p, t) = [tokens |-> Burst, updated |-> t, lastSeen |-> t, birth |-> t, admitted |-> 0]
      BY <1>1 DEF Bucket
    <2>2. Bucket(bs, p, t) \in BucketRecords
      BY <2>1, Numbers DEF BucketRecords
    <2> QED BY <1>0, <2>1, <2>2, Numbers DEF Sound
  <1>2. CASE p \in D /\ ~(t > bs[p].updated)
    <2>1. Bucket(bs, p, t) = [bs[p] EXCEPT !.lastSeen = t] /\ bs[p] \in BucketRecords
      BY <1>2 DEF Bucket
    <2>2. /\ Bucket(bs, p, t) \in BucketRecords
          /\ Bucket(bs, p, t).birth = bs[p].birth /\ Bucket(bs, p, t).updated = bs[p].updated
          /\ Bucket(bs, p, t).tokens = bs[p].tokens /\ Bucket(bs, p, t).admitted = bs[p].admitted
      BY <2>1 DEF BucketRecords
    <2> QED BY <1>2, <2>2 DEF Sound
  <1>3. CASE p \in D /\ t > bs[p].updated
    <2> DEFINE b == bs[p]
               full == b.tokens + (t - b.updated) * Rate
               filled == IF full > Burst THEN Burst ELSE full
    <2>1. b \in BucketRecords /\ Sound(b, n)
      BY <1>3
    <2>2. /\ b.tokens \in Nat /\ b.admitted \in Nat /\ b.updated \in Int /\ b.birth \in Int
          /\ t - b.updated \in Nat /\ b.updated - b.birth \in Nat
      <3>1. b.tokens \in Nat /\ b.admitted \in Nat /\ b.updated \in Int /\ b.birth \in Int
        BY <2>1, Numbers DEF BucketRecords
      <3> QED BY <1>0, <1>3, <2>1, <3>1 DEF Sound
    <2>3. (t - b.updated) * Rate = Rate * (t - b.updated) /\ (t - b.updated) * Rate \in Nat
      BY <2>2, Numbers
    <2>4. filled \in Nat /\ filled <= b.tokens + Rate * (t - b.updated)
      BY <2>2, <2>3, Numbers
    <2>5. Rate * (t - b.birth) = Rate * (b.updated - b.birth) + Rate * (t - b.updated)
      <3>1. t - b.birth = (b.updated - b.birth) + (t - b.updated)
        BY <1>0, <2>2
      <3> QED BY <2>2, <3>1, RateAdds
    <2>6. Bucket(bs, p, t) = [b EXCEPT !.tokens = filled, !.updated = t, !.lastSeen = t]
      BY <1>3 DEF Bucket
    <2> HIDE DEF filled, full
    <2>7. /\ Bucket(bs, p, t) \in BucketRecords
          /\ Bucket(bs, p, t).birth = b.birth /\ Bucket(bs, p, t).updated = t
          /\ Bucket(bs, p, t).tokens = filled /\ Bucket(bs, p, t).admitted = b.admitted
      BY <2>1, <2>4, <2>6 DEF BucketRecords
    <2>8. b.admitted + filled <= Burst + Rate * (t - b.birth)
      <3>1. /\ b.admitted + b.tokens <= Burst + Rate * (b.updated - b.birth)
            /\ Rate * (b.updated - b.birth) \in Int /\ Rate * (t - b.updated) \in Int /\ Burst \in Int
        BY <2>1, <2>2, Numbers DEF Sound
      <3> QED BY <2>2, <2>4, <2>5, <3>1
    <2>9. b.birth <= t
      BY <1>0, <2>2
    <2> QED BY <2>7, <2>8, <2>9 DEF Sound
  <1> QED BY <1>1, <1>2, <1>3

\* The bucket of a request that is admitted: what it takes, it has.
LEMMA TakingIsSound ==
    ASSUME NEW b \in BucketRecords, NEW n \in Clock, Sound(b, n), ~(b.tokens < 1)
    PROVE  /\ [b EXCEPT !.tokens = @ - 1, !.admitted = @ + 1] \in BucketRecords
           /\ Sound([b EXCEPT !.tokens = @ - 1, !.admitted = @ + 1], n)
  <1>1. b.tokens \in Nat /\ b.admitted \in Nat /\ b.tokens - 1 \in Nat /\ b.admitted + 1 \in Nat
    BY DEF BucketRecords
  <1> DEFINE c == [b EXCEPT !.tokens = b.tokens - 1, !.admitted = b.admitted + 1]
  <1>2. /\ c \in BucketRecords /\ c.birth = b.birth /\ c.updated = b.updated
        /\ c.tokens = b.tokens - 1 /\ c.admitted = b.admitted + 1
    BY <1>1 DEF BucketRecords
  <1>3. c.admitted + c.tokens = b.admitted + b.tokens
    BY <1>1, <1>2
  <1> HIDE DEF c
  <1>4. Sound(c, n)
    BY <1>2, <1>3 DEF Sound
  <1> QED BY <1>2, <1>4 DEF c

----------------------------------------------------------------------------
(* The inductive invariant. *)

\* The table without its expired entries: none that is needed later is missing.
LEMMA UnexpiredIsPart ==
    ASSUME TypeOK, NEW t
    PROVE  /\ Unexpired(t) \in [DOMAIN Unexpired(t) -> Int] /\ DOMAIN Unexpired(t) \subseteq Tokens
           /\ \A i \in Tokens : i \in DOMAIN Unexpired(t) <=> i \in DOMAIN used /\ used[i] > t
           /\ \A i \in DOMAIN Unexpired(t) : Unexpired(t)[i] = used[i]
  BY DEF TypeOK, Unexpired

\* Nobody has used the token, or the record of it has expired: the gate does not
\* accept a token whose record is due now.
LEMMA AcceptedIsDue ==
    ASSUME IInv, NEW a \in Attempts, attempt[a].pc = "fresh", Accepted(a),
           passed[attempt[a].id].times > 0
    PROVE  passed[attempt[a].id].until <= now
  <1> DEFINE r == attempt[a]
  <1>1. r.id \in Tokens /\ r.read \in Int /\ r.read <= now /\ now \in Int
    BY Shapes, Numbers DEF IInv, TypeOK, ClockRead
  <1>2. passed[r.id].until \in Int
    BY <1>1 DEF IInv, TypeOK
  <1> SUFFICES ASSUME passed[r.id].until > now PROVE FALSE
    BY <1>1, <1>2
  <1>3. r.id \in DOMAIN used /\ used[r.id] = passed[r.id].until
    BY <1>1 DEF IInv, Recorded
  <1>4. used[r.id] > r.read
    BY <1>1, <1>2, <1>3
  <1>5. r.id \in DOMAIN Unexpired(r.read)
    BY <1>1, <1>3, <1>4, UnexpiredIsPart DEF IInv
  <1> QED BY <1>3, <1>4, <1>5 DEF Accepted, NonceUnused, ExecUnused, WorkerUnused, IInv, TypeOK

\* Every step preserves the inductive invariant.
LEMMA StepPreserves == IInv /\ [Next]_vars => IInv'
  <1> SUFFICES ASSUME IInv, [Next]_vars PROVE IInv'
    OBVIOUS
  <1>0. TypeOK /\ now \in Int
    BY Numbers DEF IInv, TypeOK
  <1>1. ASSUME Tick PROVE IInv'
    <2>1. now' = now + 1 /\ now' \in Clock /\ UNCHANGED <<kind, signed, attempt, used, buckets, passed>>
      BY <1>0, <1>1, Numbers DEF Tick, TypeOK, Clock
    <2>2. TypeOK'
      BY <1>0, <2>1 DEF TypeOK
    <2>3. ClockRead' /\ SignedFirst'
      <3>1. \A a \in Attempts : attempt[a].pc \in {"fresh", "limiting"} => attempt[a].read \in Int
        BY <1>0, Shapes, Numbers DEF TypeOK
      <3> QED BY <1>0, <2>1, <3>1 DEF IInv, ClockRead, SignedFirst
    <2>4. Recorded'
      <3>1. \A i \in Tokens : passed[i].until \in Int
        BY <1>0 DEF TypeOK
      <3> QED BY <1>0, <2>1, <3>1 DEF IInv, Recorded
    <2>5. BucketsSound'
      <3>1. \A p \in DOMAIN buckets : buckets[p].updated \in Int
        BY <1>0, Numbers DEF TypeOK, BucketRecords
      <3> QED BY <1>0, <2>1, <3>1 DEF IInv, BucketsSound, Sound
    <2> QED BY <2>2, <2>3, <2>4, <2>5 DEF IInv
  <1>2. ASSUME Restart PROVE IInv'
    <2>1. /\ UNCHANGED <<kind, now, signed, used, passed>> /\ buckets' = << >>
          /\ attempt' = [a \in Attempts |-> IF attempt[a].pc \in {"fresh", "verified", "limiting"}
                                               THEN [pc |-> "refused"] ELSE attempt[a]]
      BY <1>2 DEF Restart, Empty
    <2>2. [pc |-> "refused"] \in Progress /\ [pc |-> "refused"].pc = "refused"
      BY DEF Progress
    <2>3. attempt' \in [Attempts -> Progress]
      BY <1>0, <2>1, <2>2 DEF TypeOK
    <2>4. DOMAIN buckets' = {} /\ buckets' \in [DOMAIN buckets' -> BucketRecords]
      BY <2>1
    <2>5. TypeOK'
      BY <1>0, <2>1, <2>3, <2>4 DEF TypeOK
    <2>6. ClockRead' /\ SignedFirst'
      BY <2>1, <2>2 DEF IInv, ClockRead, SignedFirst
    <2>7. Recorded' /\ BucketsSound'
      BY <2>1, <2>4 DEF IInv, Recorded, BucketsSound
    <2> QED BY <2>5, <2>6, <2>7 DEF IInv
  <1>3. ASSUME NEW i \in Tokens, NEW time \in (-MaxAge)..Never, Sign(i, time) PROVE IInv'
    <2>1. signed' = Extend(signed, i, time) /\ UNCHANGED <<kind, now, attempt, used, buckets, passed>>
      BY <1>3 DEF Sign
    <2>2. time \in Int
      BY Numbers
    <2>3. /\ signed' \in [DOMAIN signed' -> Int] /\ DOMAIN signed' \subseteq Tokens
          /\ DOMAIN signed \subseteq DOMAIN signed'
      BY <1>0, <2>1, <2>2 DEF Extend, TypeOK
    <2>4. TypeOK'
      BY <1>0, <2>1, <2>3 DEF TypeOK
    <2>5. ClockRead' /\ SignedFirst' /\ Recorded' /\ BucketsSound'
      BY <2>1, <2>3 DEF IInv, ClockRead, SignedFirst, Recorded, BucketsSound
    <2> QED BY <2>4, <2>5 DEF IInv
  <1>4. ASSUME NEW a \in Attempts, NEW i \in Tokens, NEW p \in Principals, CheckFreshness(a, i, p)
        PROVE  IInv'
    <2> DEFINE fresh == [pc |-> "fresh", id |-> i, subject |-> p, read |-> now]
               refused == [pc |-> "refused"]
    <2>1. UNCHANGED <<kind, now, signed, used, buckets, passed>>
      BY <1>4 DEF CheckFreshness
    <2>2. PICK r \in {fresh, refused} : attempt' = [attempt EXCEPT ![a] = r]
      BY <1>4 DEF CheckFreshness
    <2>3. /\ r \in Progress /\ (r.pc \in {"fresh", "limiting"} => r.read = now)
          /\ r.pc = "fresh" => r.id \in DOMAIN signed
      BY <1>0, <1>4 DEF Progress, TypeOK, CheckFreshness
    <2> HIDE DEF fresh, refused
    <2>4. TypeOK'
      BY <1>0, <2>1, <2>2, <2>3 DEF TypeOK
    <2>5. ClockRead' /\ SignedFirst'
      BY <1>0, <2>1, <2>2, <2>3 DEF IInv, ClockRead, SignedFirst, TypeOK
    <2>6. Recorded' /\ BucketsSound'
      BY <2>1 DEF IInv, Recorded, BucketsSound
    <2> QED BY <2>4, <2>5, <2>6 DEF IInv
  <1>5. ASSUME NEW a \in Attempts, Consume(a) PROVE IInv'
    <2> DEFINE r == attempt[a]
               record == Record(r.id, r.read)
    <2>1. UNCHANGED <<kind, now, signed, buckets>> /\ attempt[a].pc = "fresh"
      BY <1>5 DEF Consume
    <2>2. r.id \in Tokens /\ r.subject \in Principals /\ r.read \in Int /\ r.read <= now
      BY <1>0, <2>1, Shapes, Numbers DEF TypeOK, IInv, ClockRead
    \* Whatever is forgotten at the time read is expired now.
    <2>3. PICK kept : /\ kept = (IF kind = "worker" THEN used ELSE Unexpired(r.read))
                      /\ kept \in [DOMAIN kept -> Int] /\ DOMAIN kept \subseteq Tokens
                      /\ \A i \in DOMAIN used : used[i] > now => i \in DOMAIN kept
                      /\ \A i \in DOMAIN kept : kept[i] = used[i]
      <3>1. CASE kind = "worker"
        BY <1>0, <3>1 DEF TypeOK
      <3>2. CASE kind # "worker"
        <4>1. \A i \in DOMAIN used : i \in Tokens /\ used[i] \in Int
          BY <1>0 DEF TypeOK
        <4> QED BY <1>0, <2>2, <3>2, <4>1, UnexpiredIsPart
      <3> QED BY <3>1, <3>2
    <2>4. CASE /\ Accepted(a)
               /\ used' = Extend(kept, r.id, record)
               /\ passed' = [passed EXCEPT ![r.id] = [times |-> @.times + 1, until |-> record]]
               /\ attempt' = [attempt EXCEPT ![a] =
                                 IF kind = "request" THEN [pc |-> "verified", subject |-> r.subject]
                                 ELSE [pc |-> "admitted"]]
      <3>1. record \in Int
        <4>1. kind = "exec" => signed[r.id] \in Int
          BY <1>0, <2>1 DEF SignedFirst, IInv, TypeOK
        <4> QED BY <1>0, <2>2, <4>1, Numbers DEF Record, TypeOK
      <3>2. PICK q \in {[pc |-> "verified", subject |-> r.subject], [pc |-> "admitted"]} :
               attempt' = [attempt EXCEPT ![a] = q]
        BY <2>4
      <3>3. q \in Progress /\ q.pc \notin {"fresh", "limiting"}
        BY <2>2 DEF Progress
      <3>4. [times |-> passed[r.id].times + 1, until |-> record] \in [times : Nat, until : Int]
        <4>1. passed[r.id].times \in Nat
          BY <1>0, <2>2 DEF TypeOK
        <4> HIDE DEF record
        <4> QED BY <3>1, <4>1
      <3> HIDE DEF record
      <3>5. /\ passed' \in [Tokens -> [times : Nat, until : Int]]
            /\ passed'[r.id].until = record /\ \A i \in Tokens : i # r.id => passed'[i] = passed[i]
        BY <1>0, <2>2, <2>4, <3>4 DEF TypeOK
      <3>6. /\ used' \in [DOMAIN used' -> Int] /\ DOMAIN used' = DOMAIN kept \cup {r.id}
            /\ used'[r.id] = record /\ \A i \in DOMAIN kept : i # r.id => used'[i] = kept[i]
        BY <2>3, <2>4, <3>1 DEF Extend
      <3>7. TypeOK'
        <4>1. attempt' \in [Attempts -> Progress]
          BY <1>0, <3>2, <3>3 DEF TypeOK
        <4>2. DOMAIN used' \subseteq Tokens
          BY <2>2, <2>3, <3>6
        <4> QED BY <1>0, <2>1, <3>5, <3>6, <4>1, <4>2 DEF TypeOK
      <3>8. ClockRead' /\ SignedFirst'
        BY <1>0, <2>1, <3>2, <3>3 DEF IInv, ClockRead, SignedFirst, TypeOK
      <3>9. Recorded'
        BY <2>1, <2>2, <2>3, <3>5, <3>6 DEF IInv, Recorded
      <3>10. BucketsSound'
        BY <2>1 DEF IInv, BucketsSound
      <3> QED BY <3>7, <3>8, <3>9, <3>10 DEF IInv
    <2>5. CASE /\ used' = IF kind = "exec" THEN kept ELSE used
               /\ attempt' = [attempt EXCEPT ![a] = [pc |-> "refused"]]
               /\ UNCHANGED passed
      <3>1. [pc |-> "refused"] \in Progress /\ [pc |-> "refused"].pc = "refused"
        BY DEF Progress
      <3>2. /\ used' \in [DOMAIN used' -> Int] /\ DOMAIN used' \subseteq Tokens
            /\ \A i \in DOMAIN used : used[i] > now => i \in DOMAIN used' /\ used'[i] = used[i]
        BY <1>0, <2>3, <2>5 DEF TypeOK
      <3>3. TypeOK'
        BY <1>0, <2>1, <2>5, <3>1, <3>2 DEF TypeOK
      <3>4. ClockRead' /\ SignedFirst'
        BY <1>0, <2>1, <2>5, <3>1 DEF IInv, ClockRead, SignedFirst, TypeOK
      <3>5. Recorded' /\ BucketsSound'
        BY <2>1, <2>5, <3>2 DEF IInv, Recorded, BucketsSound
      <3> QED BY <3>3, <3>4, <3>5 DEF IInv
    <2> QED BY <1>5, <2>3, <2>4, <2>5 DEF Consume
  <1>6. ASSUME NEW a \in Attempts, RateClock(a) PROVE IInv'
    <2> DEFINE r == [pc |-> "limiting", subject |-> attempt[a].subject, read |-> now]
    <2>1. UNCHANGED <<kind, now, signed, used, buckets, passed>> /\ attempt' = [attempt EXCEPT ![a] = r]
      BY <1>6 DEF RateClock
    <2>2. r \in Progress /\ r.read = now /\ r.pc = "limiting"
      <3>1. attempt[a].subject \in Principals
        BY <1>0, <1>6, Shapes DEF RateClock, TypeOK
      <3> QED BY <1>0, <3>1 DEF Progress, TypeOK
    <2> HIDE DEF r
    <2>3. TypeOK'
      BY <1>0, <2>1, <2>2 DEF TypeOK
    <2>4. ClockRead' /\ SignedFirst'
      BY <1>0, <2>1, <2>2 DEF IInv, ClockRead, SignedFirst, TypeOK
    <2>5. Recorded' /\ BucketsSound'
      BY <2>1 DEF IInv, Recorded, BucketsSound
    <2> QED BY <2>3, <2>4, <2>5 DEF IInv
  <1>7. ASSUME NEW a \in Attempts, Allow(a) PROVE IInv'
    <2> DEFINE p == attempt[a].subject
               t == attempt[a].read
               left == RemoveExpired(t)
    <2>1. UNCHANGED <<kind, now, signed, used, passed>> /\ attempt[a].pc = "limiting"
      BY <1>7 DEF Allow
    <2>2. p \in Principals /\ t \in Clock /\ t <= now
      BY <1>0, <2>1, Shapes DEF TypeOK, IInv, ClockRead
    <2>3. PICK bs \in Room(left, p) :
             LET b == Bucket(bs, p, t)
             IN  IF b.tokens < 1
                 THEN /\ buckets' = Extend(bs, p, b)
                      /\ attempt' = [attempt EXCEPT ![a] = [pc |-> "refused"]]
                 ELSE /\ buckets' = Extend(bs, p, [b EXCEPT !.tokens = @ - 1, !.admitted = @ + 1])
                      /\ attempt' = [attempt EXCEPT ![a] = [pc |-> "admitted"]]
      BY <1>7 DEF Allow
    <2>4. left \in [DOMAIN left -> BucketRecords] /\ DOMAIN left \subseteq DOMAIN buckets
          /\ \A q \in DOMAIN left : left[q] = buckets[q]
      BY <1>0 DEF TypeOK, RemoveExpired
    <2>5. /\ bs \in [DOMAIN bs -> BucketRecords] /\ DOMAIN bs \subseteq DOMAIN left
          /\ \A q \in DOMAIN bs : bs[q] = left[q]
      BY <2>4, RoomIsPart
    <2>6. \A q \in DOMAIN bs : Sound(bs[q], now)
      BY <2>4, <2>5 DEF IInv, BucketsSound
    <2> DEFINE b == Bucket(bs, p, t)
    <2>7. b \in BucketRecords /\ Sound(b, now)
      BY <1>0, <2>2, <2>5, <2>6, BucketIsSound DEF TypeOK
    <2>8. PICK c \in BucketRecords : Sound(c, now) /\ buckets' = Extend(bs, p, c)
      <3>1. CASE b.tokens < 1
        BY <2>3, <2>7, <3>1
      <3>2. CASE ~(b.tokens < 1)
        BY <1>0, <2>3, <2>7, <3>2, TakingIsSound DEF TypeOK
      <3> QED BY <3>1, <3>2
    <2>9. PICK l \in {"refused", "admitted"} : attempt' = [attempt EXCEPT ![a] = [pc |-> l]]
      BY <2>3
    <2>10. [pc |-> l] \in Progress /\ [pc |-> l].pc = l
      BY DEF Progress
    <2> HIDE DEF b, left, p, t
    <2>11. /\ DOMAIN buckets' = DOMAIN bs \cup {p} /\ buckets' \in [DOMAIN buckets' -> BucketRecords]
           /\ buckets'[p] = c /\ \A q \in DOMAIN bs : q # p => buckets'[q] = bs[q]
      BY <2>5, <2>8 DEF Extend
    <2>12. TypeOK'
      <3>1. attempt' \in [Attempts -> Progress]
        BY <1>0, <2>9, <2>10 DEF TypeOK
      <3>2. DOMAIN buckets' \subseteq Principals
        BY <1>0, <2>2, <2>4, <2>5, <2>11 DEF TypeOK
      <3> QED BY <1>0, <2>1, <2>11, <3>1, <3>2 DEF TypeOK
    <2>13. ClockRead' /\ SignedFirst'
      BY <1>0, <2>1, <2>9, <2>10 DEF IInv, ClockRead, SignedFirst, TypeOK
    <2>14. Recorded'
      BY <2>1 DEF IInv, Recorded
    <2>15. BucketsSound'
      BY <2>1, <2>6, <2>8, <2>11 DEF BucketsSound
    <2> QED BY <2>12, <2>13, <2>14, <2>15 DEF IInv
  <1>8. CASE UNCHANGED vars
    BY <1>8 DEF IInv, TypeOK, ClockRead, SignedFirst, Recorded, BucketsSound
  <1> QED BY <1>1, <1>2, <1>3, <1>4, <1>5, <1>6, <1>7, <1>8 DEF Next

\* Every initial state satisfies the inductive invariant.
LEMMA InitEstablishes == Init => IInv
  <1> SUFFICES ASSUME Init PROVE IInv
    OBVIOUS
  <1>1. [pc |-> "idle"] \in Progress /\ [pc |-> "idle"].pc = "idle"
    BY DEF Progress
  <1>2. /\ signed = << >> /\ used = << >> /\ buckets = << >> /\ now = 0 /\ kind \in Kinds
        /\ attempt = [a \in Attempts |-> [pc |-> "idle"]]
        /\ passed = [i \in Tokens |-> [times |-> 0, until |-> 0]]
    BY DEF Init, Empty
  <1>3. /\ DOMAIN signed = {} /\ signed \in [DOMAIN signed -> Int]
        /\ DOMAIN used = {} /\ used \in [DOMAIN used -> Int]
        /\ DOMAIN buckets = {} /\ buckets \in [DOMAIN buckets -> BucketRecords]
    BY <1>2
  <1>4. passed \in [Tokens -> [times : Nat, until : Int]] /\ \A i \in Tokens : passed[i].times = 0
    BY <1>2
  <1>5. attempt \in [Attempts -> Progress] /\ \A a \in Attempts : attempt[a].pc = "idle"
    BY <1>1, <1>2
  <1>6. TypeOK
    BY <1>2, <1>3, <1>4, <1>5, GateAssumption DEF TypeOK, Clock
  <1>7. ClockRead /\ SignedFirst /\ Recorded /\ BucketsSound
    BY <1>3, <1>4, <1>5 DEF ClockRead, SignedFirst, Recorded, BucketsSound
  <1> QED BY <1>6, <1>7 DEF IInv

\* The inductive invariant holds in every reachable state.
THEOREM Inductive == Spec => []IInv
  BY InitEstablishes, StepPreserves, PTL DEF Spec

\* Every variable keeps its type.
THEOREM TypeCorrect == Spec => []TypeOK
  BY Inductive, PTL DEF IInv

\* Bolt.Consume and the capability verifiers: a token is not accepted again
\* before the record of its use has expired.
THEOREM UsedOnce == Spec => SingleUse
  <1> DEFINE Again == \A i \in Tokens : passed[i].times > 0 /\ passed'[i].times > passed[i].times
                                        => passed[i].until <= now
  <1>1. IInv /\ [Next]_vars => [Again]_vars
    <2> SUFFICES ASSUME IInv, Next PROVE Again
      OBVIOUS
    <2>1. \A i \in Tokens : passed[i].times \in Nat
      BY DEF IInv, TypeOK
    <2>2. CASE UNCHANGED passed
      BY <2>1, <2>2
    <2>3. ASSUME NEW a \in Attempts, Consume(a) PROVE Again
      <3>1. CASE UNCHANGED passed
        BY <2>1, <3>1
      <3>2. CASE Accepted(a) /\ \A i \in Tokens : i # attempt[a].id => passed'[i] = passed[i]
        <4>1. attempt[a].pc = "fresh"
          BY <2>3 DEF Consume
        <4> QED BY <2>1, <3>2, <4>1, AcceptedIsDue
      <3> QED BY <2>3, <3>1, <3>2 DEF Consume, IInv, TypeOK
    <2> QED
      BY <2>2, <2>3 DEF Next, Tick, Restart, Sign, CheckFreshness, RateClock, Allow
  <1> QED BY <1>1, Inductive, PTL DEF Spec, SingleUse

\* rateLimiter.allow: a subject is admitted at most the burst and the rate.
THEOREM RateHolds == Spec => []BoundedRate
  <1>1. IInv => BoundedRate
    <2> SUFFICES ASSUME IInv, NEW p \in DOMAIN buckets
                 PROVE  buckets[p].admitted <= Burst + Rate * (now - buckets[p].birth)
      BY DEF BoundedRate
    <2> DEFINE b == buckets[p]
    <2>1. /\ b.tokens \in Nat /\ b.admitted \in Nat /\ b.updated \in Int /\ b.birth \in Int /\ now \in Int
          /\ Sound(b, now)
      BY Numbers DEF IInv, TypeOK, BucketRecords, BucketsSound
    <2> HIDE DEF b
    <2>2. b.updated - b.birth \in Nat /\ now - b.updated \in Nat
      BY <2>1 DEF Sound
    <2>3. now - b.birth = (b.updated - b.birth) + (now - b.updated)
      BY <2>1
    <2>4. /\ Rate * (now - b.birth) = Rate * (b.updated - b.birth) + Rate * (now - b.updated)
          /\ Rate * (now - b.updated) >= 0
      BY <2>2, <2>3, RateAdds
    <2>5. /\ Rate * (b.updated - b.birth) \in Int /\ Rate * (now - b.updated) \in Int /\ Burst \in Int
      BY <2>2, Numbers
    <2>6. b.admitted <= Burst + Rate * (now - b.birth)
      BY <2>1, <2>4, <2>5 DEF Sound
    <2> QED BY <2>6 DEF b
  <1> QED BY <1>1, Inductive, PTL
=============================================================================
