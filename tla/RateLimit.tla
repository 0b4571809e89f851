------------------------------- MODULE RateLimit -------------------------------
(***************************************************************************)
(* The leaky buckets that limit how often an address is answered.          *)
(*                                                                         *)
(* An address has a bucket from a table of fixed size, found through hash  *)
(* chains.  A query fills the bucket by one, up to a limit that depends on *)
(* the query; every period empties it by one.  A bucket that has had the   *)
(* time to run empty may be given to another address.                      *)
(*                                                                         *)
(* Times are microseconds in 64 bits, but an interval is kept in an int    *)
(* and the level of a bucket in a signed char: both wrap around here, at   *)
(* smaller widths.  Not modelled: the buckets for all addresses together,  *)
(* which work as one bucket here, IPv6, and LAN addresses, which are never *)
(* limited.                                                                *)
(***************************************************************************)
EXTENDS Integers, Sequences, FiniteSetsExt

CONSTANTS
  Address,      \* addresses
  Hash,         \* SVC_HashForAddress
  MaxBuckets,   \* max_buckets
  Bursts,       \* the limits of the queries: 2 for the status, 4 for the info
  Period,       \* sv_queryIgnoreTime
  IntRange,     \* 2^32 in the code
  CharRange,    \* 2^8 in the code
  Steps,        \* how far the time may go between two queries
  MaxTime       \* bound: the time

Slot == 0 .. MaxBuckets - 1
None == -1

\* A limit is below half the range of the level, whose half is exact, and two periods are below
\* half that of an interval; a bucket is never taken while it holds an answer of the last period.
RateAssumption ==
  /\ "none" \notin Address /\ Hash \in [Address -> Nat]
  /\ MaxBuckets \in Nat \ {0} /\ Period \in Nat \ {0}
  /\ IntRange \in Nat /\ 2 * Period <= IntRange \div 2
  /\ CharRange \in Nat /\ CharRange % 2 = 0
  /\ Bursts \subseteq 2 .. (CharRange \div 2) - 1 /\ Bursts # {}
  /\ Steps \subseteq Nat /\ MaxTime \in Nat \ {0}

VARIABLES
  now,       \* com_uFrameTime
  buckets,   \* the table: the address (or "none", NA_BAD), lastTime, burst, hash,
             \* and the links of the chain, prev and next
  heads,     \* bucketHashes
  answered,  \* for each address, when it was answered within the last period
  asked,     \* for each address, when it asked last; 0: never
  sure       \* the addresses that never paused for half the range of an int or more

table == <<buckets, heads>>
vars == <<now, table, answered, asked, sure>>

-----------------------------------------------------------------------------
\* Conversion to a signed integer with this many values.
Wrapped(x, range) == ((x + (range \div 2)) % range) - (range \div 2)

\* A conversion to int of the time since t.
Interval(t) == Wrapped(now - t, IntRange)

\* C divides towards zero.
Quotient(x, y) == IF x < 0 THEN -((-x) \div y) ELSE x \div y

Free == [address |-> "none", lastTime |-> 0, burst |-> 0, hash |-> 0, prev |-> None, next |-> None]

\* The buckets of the chain that begins at b, at most n of them.
Chain(b, n) ==
  LET chain[i \in 1 .. n] == IF i = 1 THEN b
                             ELSE IF chain[i - 1] = None THEN None ELSE buckets[chain[i - 1]].next
  IN  {chain[i] : i \in 1 .. n} \ {None}

\* The bucket of the address a, in a set.
Found(a) == {b \in Chain(heads[Hash[a]], MaxBuckets) : buckets[b].address = a}

\* The bucket has had the time to run empty.
Expired(b, burst) ==
  /\ buckets[b].lastTime > 0
  /\ Interval(buckets[b].lastTime) > burst * Period \/ Interval(buckets[b].lastTime) < 0

\* The first bucket that is free or may be taken, in a set.
Usable(burst) ==
  LET usable == {b \in Slot : buckets[b].address = "none" \/ Expired(b, burst)}
  IN  IF usable = {} THEN {} ELSE {Min(usable)}

\* A slip of Unlinked: the chain still begins with the bucket.
UnlinkedInside(b) ==
  [table |-> [i \in Slot |->
     CASE i = b -> Free
       [] i # b /\ i = buckets[b].prev -> [buckets[i] EXCEPT !.next = buckets[b].next]
       [] i # b /\ i = buckets[b].next -> [buckets[i] EXCEPT !.prev = buckets[b].prev]
       [] OTHER -> buckets[i]],
   heads |-> heads]

\* The table without the bucket b, if it is in use.
Unlinked(b) ==
  [table |-> [i \in Slot |->
     CASE i = b -> Free
       [] i # b /\ i = buckets[b].prev -> [buckets[i] EXCEPT !.next = buckets[b].next]
       [] i # b /\ i = buckets[b].next -> [buckets[i] EXCEPT !.prev = buckets[b].prev]
       [] OTHER -> buckets[i]],
   heads |-> IF buckets[b].address # "none" /\ buckets[b].prev = None
               THEN [heads EXCEPT ![buckets[b].hash] = buckets[b].next] ELSE heads]

\* The bucket b for the address a, at the head of its chain.
Taken(a, b) ==
  LET without == Unlinked(b)
      first == without.heads[Hash[a]]
      bucket == [address |-> a, lastTime |-> now, burst |-> 0, hash |-> Hash[a],
                 prev |-> None, next |-> first]
  IN  [table |-> [i \in Slot |-> IF i = b THEN bucket
                                 ELSE IF i = first THEN [without.table[i] EXCEPT !.prev = b]
                                 ELSE without.table[i]],
       heads |-> [without.heads EXCEPT ![Hash[a]] = b]]

\* A slip of Drained: a bucket that has run empty keeps its level.
DrainedUnreset(bucket) ==
  LET interval == Interval(bucket.lastTime)
      expired == Quotient(interval, Period)
  IN  IF expired > bucket.burst
        THEN [bucket EXCEPT !.lastTime = now]
        ELSE [bucket EXCEPT !.burst = Wrapped(@ - expired, CharRange),
                            !.lastTime = now - (interval - expired * Period)]

\* A slip of Drained: the level is compared after it has been lowered.
DrainedTwice(bucket) ==
  LET interval == Interval(bucket.lastTime)
      expired == Quotient(interval, Period)
  IN  [bucket EXCEPT !.burst = Wrapped(@ - expired, CharRange),
                     !.lastTime = now - (interval - expired * Period)]

\* What has run out of a bucket by now.
Drained(bucket) ==
  LET interval == Interval(bucket.lastTime)
      expired == Quotient(interval, Period)
  IN  IF expired > bucket.burst
        THEN [bucket EXCEPT !.burst = 0, !.lastTime = now]
        ELSE [bucket EXCEPT !.burst = Wrapped(@ - expired, CharRange),
                            !.lastTime = now - (interval - expired * Period)]

\* SVC_RateLimit of the bucket b in the table t.
Limited(t, b, burst) ==
  LET drained == Drained(t[b])
  IN  IF drained.burst < burst
        THEN [table |-> [t EXCEPT ![b] = [drained EXCEPT !.burst = @ + 1]], answer |-> TRUE]
        ELSE [table |-> [t EXCEPT ![b] = drained], answer |-> FALSE]

-----------------------------------------------------------------------------
Asks(a, answer) ==
  /\ answered' = IF answer THEN [answered EXCEPT ![a] = Append(@, now)] ELSE answered
  /\ asked' = [asked EXCEPT ![a] = now]
  /\ sure' = IF asked[a] > 0 /\ now - asked[a] >= (IntRange \div 2) - Period THEN sure \ {a} ELSE sure
  /\ UNCHANGED now

\* SVC_RateLimitAddress for an address that has a bucket.
QueryKnown(a, burst) ==
  \E b \in Found(a) :
    LET limited == Limited(buckets, b, burst) IN
    /\ buckets' = limited.table /\ UNCHANGED heads
    /\ Asks(a, limited.answer)

\* SVC_RateLimitAddress for an address that gets one.
QueryNew(a, burst) ==
  /\ Found(a) = {}
  /\ \E b \in Usable(burst) :
       LET taken == Taken(a, b)
           limited == Limited(taken.table, b, burst)
       IN  /\ buckets' = limited.table /\ heads' = taken.heads
           /\ Asks(a, limited.answer)

\* SVC_RateLimitAddress for an address when all buckets are in use.
QueryFull(a, burst) ==
  /\ Found(a) = {} /\ Usable(burst) = {}
  /\ UNCHANGED table
  /\ Asks(a, FALSE)

\* Those of the times that are less than a period ago.
Recent(times, t) ==
  LET recent == {i \in 1 .. Len(times) : t - times[i] < Period}
  IN  SubSeq(times, Min(recent \cup {Len(times) + 1}), Len(times))

\* A later frame.
Tick ==
  /\ \E d \in Steps : now + d <= MaxTime /\ now' = now + d
  /\ answered' = [a \in Address |-> Recent(answered[a], now')]
  /\ UNCHANGED <<table, asked, sure>>

Init ==
  /\ now = 1
  /\ buckets = [b \in Slot |-> Free]
  /\ heads = [h \in {Hash[a] : a \in Address} |-> None]
  /\ answered = [a \in Address |-> << >>]
  /\ asked = [a \in Address |-> 0]
  /\ sure = Address

Next ==
  \/ \E a \in Address, burst \in Bursts : QueryKnown(a, burst) \/ QueryNew(a, burst) \/ QueryFull(a, burst)
  \/ Tick

Spec == Init /\ [][Next]_vars

-----------------------------------------------------------------------------
(* What must hold.                                                         *)

\* The types of the variables.
TypeOK ==
  /\ now \in 1 .. MaxTime
  /\ buckets \in [Slot -> [address : Address \cup {"none"}, lastTime : 0 .. MaxTime + Period,
                           burst : -(CharRange \div 2) .. (CharRange \div 2) - 1,
                           hash : {Hash[a] : a \in Address} \cup {0},
                           prev : Slot \cup {None}, next : Slot \cup {None}]]
  /\ heads \in [{Hash[a] : a \in Address} -> Slot \cup {None}]
  /\ \A a \in Address : answered[a] \in Seq(1 .. now) /\ asked[a] \in 0 .. now
  /\ sure \subseteq Address

\* Through taking, unlinking and taking again, the chains hold exactly the buckets in
\* use, each where the hash of its address leads, and nobody has two.
ChainsSound ==
  /\ \A b \in Slot : buckets[b].address # "none" => b \in Found(buckets[b].address)
  /\ \A h \in DOMAIN heads : \A b \in Chain(heads[h], MaxBuckets + 1) :
       /\ buckets[b].address # "none" /\ buckets[b].hash = h
       /\ IF buckets[b].prev = None THEN heads[h] = b ELSE buckets[buckets[b].prev].next = b
  /\ \A a \in Address : \A b, c \in Found(a) : b = c

\* Within less than a period nobody is answered more often than the limit and once more,
\* even if the bucket went to another address in between.
AnswersLimited == \A a \in sure : Len(answered[a]) <= Max(Bursts) + 1

\* Who has not asked for as long as a full bucket takes to run empty, and gets a bucket,
\* is answered.
PatientIsAnswered ==
  \A a \in sure' : asked'[a] - asked[a] >= (Max(Bursts) + 1) * Period /\ Found(a)' # {}
    => answered'[a] # answered[a]

PatientAnswered == [][PatientIsAnswered]_vars
=============================================================================
