---------------------------- MODULE LimitsProofs ----------------------------
(***************************************************************************)
(* Theorems about Limits, for every set of calls, accounts and requests,   *)
(* and every value of the limits, the windows and the bounds.              *)
(***************************************************************************)
EXTENDS Limits, FiniteSetTheorems, WellFoundedInduction, TLAPS

Counting == [pc : {"expire", "ttl"}, call : Calls]
Verifying == [pc : {"verify", "acctExpire"}, acct : Accounts]
Forms == {Idle} \union Counting \union Verifying

\* Only a fault takes Redis away.
UpAtFirst == faults = 0 => redisUp

\* A call that is being counted has a counter; the one that opened a window is
\* alone with its EXPIRE, and until then the key cannot vanish.
Opens(q, b) == q.pc = "expire" /\ bucketOf(q.call) = b

Counted(q) == q.pc \in {"expire", "ttl"} => bucketOf(q.call) # None

OneOpener ==
    /\ \A r \in Requests : Counted(req[r])
    /\ \A b \in Buckets, r \in Requests : Opens(req[r], b) =>
          /\ window[b].n >= 1 /\ window[b].ttl = None
          /\ \A q \in Requests : Opens(req[q], b) => q = r

WindowsEnd == \A b \in Buckets : window[b].ttl \in (1..WINDOW) \union {None}

\* A key without expiry has a request that is going to set it.
Supervised(b) ==
    window[b] # Missing /\ window[b].ttl = None => \E r \in Requests : Opens(req[r], b)

Expires(q, a) == q.pc = "acctExpire" /\ q.acct = a

AccountSupervised(a) ==
    failures[a] # Missing /\ failures[a].ttl = None => \E r \in Requests : Expires(req[r], a)

\* The calls a subscriber was granted within the last window: those counted by
\* the key that is there (cur), and those of the key before it, which was gone
\* by the time the expiry of this one was set.
Quota(granted, cur, key, opening) ==
    /\ Cardinality(cur) + opening <= key.n /\ Cardinality(cur) + opening <= LIMIT
    /\ Cardinality(granted \ cur) <= LIMIT
    /\ key.ttl # None => \A e \in granted \ cur : e[1] + key.ttl >= WINDOW

HasQuota(granted, key, opening) == \E cur \in SUBSET granted : Quota(granted, cur, key, opening)

Opening(b) == IF \E r \in Requests : Opens(req[r], b) THEN 1 ELSE 0

TwoQuotas ==
    \A c \in Calls :
        /\ bucketOf(c) = None => grants[Subscriber(c)] = {}
        /\ bucketOf(c) # None =>
              HasQuota(grants[Subscriber(c)], window[bucketOf(c)], Opening(bucketOf(c)))

\* The same for the counter of the process, whose window has an age.
LocalQuota(admitted, cur, d) ==
    /\ Cardinality(cur) <= d.count /\ Cardinality(cur) <= DEGRADED_IP_MAX
    /\ Cardinality(admitted \ cur) <= DEGRADED_IP_MAX
    /\ \A e \in admitted \ cur : e[1] >= d.age
    /\ d.count = 0 => admitted = {}

HasLocalQuota(admitted, d) == \E cur \in SUBSET admitted : LocalQuota(admitted, cur, d)

TwoLocalQuotas ==
    \A c \in Calls :
        /\ c.by # "checkIp" => local[Subscriber(c)] = {}
        /\ c.by = "checkIp" => HasLocalQuota(local[Subscriber(c)], degraded[bucketOf(c)])

Finite == \A s \in Subscribers : IsFiniteSet(grants[s]) /\ IsFiniteSet(local[s])

\* The inductive invariant: Redis' windows, its back-off keys, the process's
\* own windows.
WindowSide ==
    /\ OneOpener
    /\ WindowsEnd
    /\ faults = 0 => \A b \in Buckets : Supervised(b)
    /\ TwoQuotas

AccountSide == faults = 0 => \A a \in Accounts : AccountSupervised(a)

IInv ==
    /\ TypeOK
    /\ UpAtFirst
    /\ Finite
    /\ WindowSide
    /\ AccountSide
    /\ TwoLocalQuotas

\* Failures whose EXPIREs are under way, and the bound on a key without
\* expiry: a fault loses at most the EXPIREs of all requests.
Expiring(a) == {r \in Requests : Expires(req[r], a)}

FewLost ==
    \A a \in Accounts : failures[a].ttl = None =>
        failures[a].n <= faults * Cardinality(Requests)
                         + (IF redisUp THEN Cardinality(Expiring(a)) ELSE 0)

-----------------------------------------------------------------------------
\* The place a request has reached tells what it is doing.
LEMMA FormByPlace ==
    ASSUME NEW q \in Forms
    PROVE  /\ q.pc \in {"expire", "ttl"} => q \in Counting /\ q.call \in Calls
           /\ q.pc \in {"verify", "acctExpire"} => q \in Verifying /\ q.acct \in Accounts
  BY DEF Forms, Idle, Counting, Verifying

\* A key is missing or has a positive number.
LEMMA KeyParts ==
    ASSUME NEW key \in Key
    PROVE  /\ key.n \in 0..MaxCount
           /\ key.ttl \in (Nat \ {0}) \union {None}
           /\ key = Missing <=> key.n = 0
           /\ key.n = 0 => key.ttl = None
  BY LimitsAssumption DEF Key, Missing

LEMMA IncrKey ==
    ASSUME NEW key \in Key, key.n < MaxCount
    PROVE  /\ Incr(key) \in Key /\ Incr(key) # Missing
           /\ Incr(key).n = key.n + 1 /\ Incr(key).ttl = key.ttl
<1>1. key \in [n : 0..MaxCount, ttl : (Nat \ {0}) \union {None}]
  BY LimitsAssumption DEF Key, Missing
<1>2. Incr(key) = [n |-> key.n + 1, ttl |-> key.ttl]
  BY <1>1 DEF Incr
<1> QED
  BY <1>1, <1>2, LimitsAssumption DEF Key, Missing

LEMMA ExpireKey ==
    ASSUME NEW key \in Key, NEW t \in Nat \ {0}
    PROVE  /\ Expire(key, t) \in Key /\ Expire(key, t).n = key.n
           /\ key # Missing => Expire(key, t).ttl = t
           /\ key = Missing => Expire(key, t) = Missing
  BY LimitsAssumption DEF Key, Missing, Expire

LEMMA AgedKey ==
    ASSUME NEW key \in Key
    PROVE  /\ Aged(key) \in Key
           /\ key.ttl = None => Aged(key) = key
           /\ key.ttl = 1 => Aged(key) = Missing
           /\ key.ttl \notin {1, None} =>
                 /\ Aged(key).n = key.n /\ Aged(key).ttl = key.ttl - 1
                 /\ Aged(key).ttl # None
<1>1. CASE key.ttl = None
  BY <1>1, LimitsAssumption DEF Aged
<1>2. CASE key.ttl = 1
  BY <1>2, LimitsAssumption DEF Aged, Key
<1>3. CASE key.ttl \notin {1, None}
  <2>1. key \in [n : 1..MaxCount, ttl : (Nat \ {0}) \union {None}] /\ key.ttl - 1 \in Nat \ {0}
    BY <1>3 DEF Key, Missing
  <2>2. Aged(key) = [key EXCEPT !.ttl = @ - 1]
    BY <1>3 DEF Aged
  <2>3. Aged(key) = [n |-> key.n, ttl |-> key.ttl - 1]
    BY <2>1, <2>2
  <2> QED
    BY <1>3, <2>1, <2>3, LimitsAssumption DEF Key
<1> QED
  BY <1>1, <1>2, <1>3

\* However a subscriber writes its address, it is counted in one counter.
LEMMA SameBucket ==
    ASSUME NEW c \in Calls, NEW d \in Calls, Subscriber(c) = Subscriber(d)
    PROVE  bucketOf(c) = bucketOf(d)
<1>1. c.by = d.by
  BY DEF Subscriber
<1>2. CASE c.by \notin {"ip", "checkIp"}
  <2>1. c.user = d.user /\ c.org = d.org
    BY <1>1, <1>2 DEF Subscriber
  <2> QED
    BY <1>1, <1>2, <2>1 DEF bucketOf, resolveBucket
<1>3. CASE c.by \in {"ip", "checkIp"}
  <2>1. /\ c.addr.net = d.addr.net
        /\ (IF c.addr.form = "v6" THEN None ELSE c.addr.host)
           = (IF d.addr.form = "v6" THEN None ELSE d.addr.host)
    BY <1>1, <1>3 DEF Subscriber
  <2>2. clientIpKey(c.addr) = clientIpKey(d.addr)
    BY <2>1, AddressAssumption DEF clientIpKey
  <2> QED
    BY <1>1, <1>3, <2>2 DEF bucketOf, resolveBucket
<1> QED
  BY <1>2, <1>3

-----------------------------------------------------------------------------
\* A finite set of admitted calls has room for one more number.
LEMMA AnotherNumber ==
    ASSUME NEW S, IsFiniteSet(S)
    PROVE  \E k \in 1..(Cardinality(S) + 1) : <<0, k>> \notin S
<1> DEFINE n == Cardinality(S) + 1
           f == [k \in 1..n |-> <<0, k>>]
<1>1. Cardinality(S) \in Nat
  BY FS_CardinalityType
<1> SUFFICES ASSUME \A k \in 1..n : <<0, k>> \in S
             PROVE  FALSE
  OBVIOUS
<1>2. f \in Injection(1..n, S)
  BY DEF Injection, IsInjective
<1>3. Cardinality(1..n) <= Cardinality(S)
  BY <1>2, FS_Injection
<1>4. Cardinality(1..n) = n
  BY <1>1, FS_Interval
<1> QED
  BY <1>1, <1>3, <1>4

\* One more call is admitted, now.
LEMMA AdmitOne ==
    ASSUME NEW history \in [Subscribers -> SUBSET (Recent \X Nat)], NEW s \in Subscribers,
           IsFiniteSet(history[s])
    PROVE  \E e \in Recent \X Nat : Admit(history, s) = [history EXCEPT ![s] = @ \union {e}]
<1> DEFINE number == CHOOSE k \in 1..(Cardinality(history[s]) + 1) : <<0, k>> \notin history[s]
<1>1. Cardinality(history[s]) \in Nat
  BY FS_CardinalityType
<1>2. number \in 1..(Cardinality(history[s]) + 1)
  BY AnotherNumber
<1>3. Admit(history, s) = [history EXCEPT ![s] = @ \union {<<0, number>>}]
  BY DEF Admit
<1> HIDE DEF number
<1>4. number \in Nat
  BY <1>1, <1>2
<1>5. 0 \in Recent
  BY LimitsAssumption DEF Recent
<1> QED
  BY <1>3, <1>4, <1>5

\* A tick takes away the calls that leave the window.
LEMMA OlderCalls ==
    ASSUME NEW S \in SUBSET (Recent \X Nat), IsFiniteSet(S)
    PROVE  /\ Older(S) \in SUBSET (Recent \X Nat)
           /\ IsFiniteSet(Older(S))
           /\ Cardinality(Older(S)) <= Cardinality(S)
<1> DEFINE stay == {e \in S : e[1] + 1 \in Recent}
           f == [e \in stay |-> <<e[1] + 1, e[2]>>]
<1>1. IsFiniteSet(stay) /\ Cardinality(stay) <= Cardinality(S)
  BY FS_Subset
<1>2. f \in Surjection(stay, Older(S))
  BY DEF Surjection, Older
<1>3. IsFiniteSet(Older(S)) /\ Cardinality(Older(S)) <= Cardinality(stay)
  BY <1>1, <1>2, FS_Surjection
<1>4. Cardinality(S) \in Nat /\ Cardinality(stay) \in Nat /\ Cardinality(Older(S)) \in Nat
  BY <1>1, <1>3, FS_CardinalityType
<1>5. Older(S) \in SUBSET (Recent \X Nat)
  BY DEF Older
<1> QED
  BY <1>1, <1>3, <1>4, <1>5

\* What is older and not of the present window is the older rest.
LEMMA OlderRest ==
    ASSUME NEW S \in SUBSET (Recent \X Nat), NEW T \in SUBSET S
    PROVE  /\ Older(T) \subseteq Older(S)
           /\ Older(S) \ Older(T) \subseteq Older(S \ T)
           /\ \A e \in Older(S \ T) : \E f \in S \ T : e[1] = f[1] + 1
<1>1. Older(T) \subseteq Older(S) /\ Older(S) \ Older(T) \subseteq Older(S \ T)
  BY DEF Older
<1>2. \A e \in Older(S \ T) : \E f \in S \ T : e[1] = f[1] + 1
  BY DEF Older
<1> QED
  BY <1>1, <1>2

-----------------------------------------------------------------------------
\* The empty history is within every quota.
LEMMA EmptyQuota ==
    ASSUME NEW key \in Key, NEW opening \in {0, 1}, opening <= key.n
    PROVE  HasQuota({}, key, opening)
<1>1. Cardinality({}) = 0 /\ {} \in SUBSET {}
  BY FS_EmptySet
<1>2. key.n \in Nat
  BY KeyParts
<1>3. Quota({}, {}, key, opening)
  BY <1>1, <1>2, LimitsAssumption DEF Quota
<1> QED
  BY <1>1, <1>3 DEF HasQuota

\* A quota bounds what was granted.
LEMMA QuotaBounds ==
    ASSUME NEW S, IsFiniteSet(S), NEW key \in Key, NEW opening \in {0, 1},
           HasQuota(S, key, opening)
    PROVE  Cardinality(S) <= 2 * LIMIT
<1>1. PICK cur \in SUBSET S : Quota(S, cur, key, opening)
  BY DEF HasQuota
<1>2. IsFiniteSet(cur) /\ IsFiniteSet(S \ cur) /\ cur \union (S \ cur) = S
      /\ cur \intersect (S \ cur) = {}
  BY FS_Subset, FS_Difference
<1>3. Cardinality(S) = Cardinality(cur) + Cardinality(S \ cur) - Cardinality(cur \intersect (S \ cur))
  BY <1>2, FS_Union
<1>4. Cardinality(cur \intersect (S \ cur)) = 0
  BY <1>2, FS_EmptySet
<1>5. Cardinality(cur) \in Nat /\ Cardinality(S \ cur) \in Nat
  BY <1>2, FS_CardinalityType
<1> QED
  BY <1>1, <1>3, <1>4, <1>5, LimitsAssumption DEF Quota

\* A key that counts on, under the same expiry and with no more to open it,
\* covers what it covered; so does a first count, which opens a window.
LEMMA QuotaLasts ==
    ASSUME NEW S \in SUBSET (Recent \X Nat), IsFiniteSet(S),
           NEW key \in Key, NEW new \in Key, NEW opening \in {0, 1}, NEW o \in {0, 1},
           HasQuota(S, key, opening), new.n >= key.n, new.ttl = key.ttl,
           o <= opening \/ (key.n = 0 /\ new.n >= 1)
    PROVE  HasQuota(S, new, o)
<1>1. PICK cur \in SUBSET S : Quota(S, cur, key, opening)
  BY DEF HasQuota
<1>2. Cardinality(cur) \in Nat
  BY FS_Subset, FS_CardinalityType
<1>3. key.n \in Nat /\ new.n \in Nat
  BY KeyParts
<1>4. Cardinality(cur) + o <= new.n /\ Cardinality(cur) + o <= LIMIT
  BY <1>1, <1>2, <1>3, LimitsAssumption DEF Quota
<1> QED
  BY <1>1, <1>4 DEF Quota, HasQuota

\* One more call e, of the present window.
Joins(S, cur, e) ==
    LET now == cur \union {e}
        rest == (S \union {e}) \ now
    IN  /\ now \in SUBSET (S \union {e}) /\ rest \subseteq S \ cur
        /\ Cardinality(cur) \in Nat /\ Cardinality(now) \in Nat
        /\ Cardinality(now) <= Cardinality(cur) + 1
        /\ Cardinality(S \ cur) \in Nat /\ Cardinality(rest) \in Nat
        /\ Cardinality(rest) <= Cardinality(S \ cur)

LEMMA OneMore ==
    ASSUME NEW S, IsFiniteSet(S), NEW cur \in SUBSET S, NEW e
    PROVE  Joins(S, cur, e)
<1> DEFINE now == cur \union {e}
           rest == (S \union {e}) \ now
<1>1. IsFiniteSet(cur) /\ IsFiniteSet(S \ cur)
  BY FS_Subset, FS_Difference
<1>2. /\ IsFiniteSet(now)
      /\ Cardinality(now) = IF e \in cur THEN Cardinality(cur) ELSE Cardinality(cur) + 1
  BY <1>1, FS_AddElement
<1>3. rest \in SUBSET (S \ cur)
  OBVIOUS
<1>4. IsFiniteSet(rest) /\ Cardinality(rest) <= Cardinality(S \ cur)
  BY <1>1, <1>3, FS_Subset
<1> HIDE DEF now, rest
<1>5. /\ Cardinality(cur) \in Nat /\ Cardinality(now) \in Nat
      /\ Cardinality(S \ cur) \in Nat /\ Cardinality(rest) \in Nat
  BY <1>1, <1>2, <1>4, FS_CardinalityType
<1>6. Cardinality(now) <= Cardinality(cur) + 1
  BY <1>2, <1>5
<1> QED
  BY <1>3, <1>4, <1>5, <1>6 DEF now, rest, Joins

\* A call counted within the limit may be granted, ...
LEMMA GrantCounted ==
    ASSUME NEW S \in SUBSET (Recent \X Nat), IsFiniteSet(S), NEW e \in Recent \X Nat,
           NEW key \in Key, NEW new \in Key, NEW opening \in {0, 1},
           HasQuota(S, key, opening), new.n = key.n + 1, new.n <= LIMIT, new.ttl = key.ttl
    PROVE  HasQuota(S \union {e}, new, opening)
<1>1. PICK cur \in SUBSET S : Quota(S, cur, key, opening)
  BY DEF HasQuota
<1> DEFINE now == cur \union {e}
           rest == (S \union {e}) \ now
<1>2. /\ now \in SUBSET (S \union {e}) /\ rest \subseteq S \ cur
      /\ Cardinality(cur) \in Nat /\ Cardinality(now) \in Nat
      /\ Cardinality(now) <= Cardinality(cur) + 1
      /\ Cardinality(S \ cur) \in Nat /\ Cardinality(rest) \in Nat
      /\ Cardinality(rest) <= Cardinality(S \ cur)
  <2>1. Joins(S, cur, e)
    BY OneMore
  <2> QED
    BY <2>1 DEF Joins
<1>3. key.n \in Nat
  BY KeyParts
<1> HIDE DEF now
<1>4. Cardinality(now) + opening <= new.n /\ Cardinality(now) + opening <= LIMIT
  <2>1. Cardinality(cur) + opening <= key.n
    BY <1>1 DEF Quota
  <2> QED
    BY <1>2, <1>3, <2>1, LimitsAssumption
<1>5. Cardinality(rest) <= LIMIT
  BY <1>1, <1>2, LimitsAssumption DEF Quota
<1>6. new.ttl # None => \A x \in rest : x[1] + new.ttl >= WINDOW
  BY <1>1, <1>2 DEF Quota
<1> QED
  BY <1>2, <1>4, <1>5, <1>6 DEF Quota, HasQuota

\* ... and so may the call that sets the expiry of the window it opened, from
\* which on what is not of this window is at most one window old.
LEMMA GrantOpener ==
    ASSUME NEW S \in SUBSET (Recent \X Nat), IsFiniteSet(S), NEW e \in Recent \X Nat,
           NEW key \in Key, NEW new \in Key,
           HasQuota(S, key, 1), new.n = key.n, new.ttl = WINDOW
    PROVE  HasQuota(S \union {e}, new, 0)
<1>1. PICK cur \in SUBSET S : Quota(S, cur, key, 1)
  BY DEF HasQuota
<1> DEFINE now == cur \union {e}
           rest == (S \union {e}) \ now
<1>2. /\ now \in SUBSET (S \union {e}) /\ rest \subseteq S \ cur
      /\ Cardinality(cur) \in Nat /\ Cardinality(now) \in Nat
      /\ Cardinality(now) <= Cardinality(cur) + 1
      /\ Cardinality(S \ cur) \in Nat /\ Cardinality(rest) \in Nat
      /\ Cardinality(rest) <= Cardinality(S \ cur)
  <2>1. Joins(S, cur, e)
    BY OneMore
  <2> QED
    BY <2>1 DEF Joins
<1>3. key.n \in Nat
  BY KeyParts
<1> HIDE DEF now
<1>4. Cardinality(now) + 0 <= new.n /\ Cardinality(now) + 0 <= LIMIT
  <2>1. Cardinality(cur) + 1 <= key.n /\ Cardinality(cur) + 1 <= LIMIT
    BY <1>1 DEF Quota
  <2> QED
    BY <1>2, <1>3, <2>1, LimitsAssumption
<1>5. Cardinality(rest) <= LIMIT
  BY <1>1, <1>2, LimitsAssumption DEF Quota
<1>6. \A x \in rest : x[1] + new.ttl >= WINDOW
  <2>1. \A x \in S : x[1] \in Nat
    BY DEF Recent
  <2> QED
    BY <1>2, <2>1, LimitsAssumption
<1> QED
  BY <1>2, <1>4, <1>5, <1>6 DEF Quota, HasQuota

\* Its expiry changes nothing for the other subscribers of the counter.
LEMMA RestartQuota ==
    ASSUME NEW S \in SUBSET (Recent \X Nat), IsFiniteSet(S),
           NEW key \in Key, NEW new \in Key,
           HasQuota(S, key, 1), new.n = key.n, new.ttl = WINDOW
    PROVE  HasQuota(S, new, 0)
<1>1. PICK cur \in SUBSET S : Quota(S, cur, key, 1)
  BY DEF HasQuota
<1>2. Cardinality(cur) \in Nat /\ key.n \in Nat
  BY FS_Subset, FS_CardinalityType, KeyParts
<1>3. Cardinality(cur) + 0 <= new.n /\ Cardinality(cur) + 0 <= LIMIT /\ Cardinality(S \ cur) <= LIMIT
  BY <1>1, <1>2, LimitsAssumption DEF Quota
<1>4. \A x \in S \ cur : x[1] + new.ttl >= WINDOW
  <2>1. \A x \in S : x[1] \in Nat
    BY DEF Recent
  <2> QED
    BY <2>1, LimitsAssumption
<1> QED
  BY <1>3, <1>4 DEF Quota, HasQuota

\* A tick keeps the quota; with the key goes the share of the key before.
LEMMA QuotaAges ==
    ASSUME NEW S \in SUBSET (Recent \X Nat), IsFiniteSet(S), NEW key \in Key,
           key.ttl \in (1..WINDOW) \union {None}, NEW opening \in {0, 1},
           key.ttl # None => opening = 0,
           HasQuota(S, key, opening)
    PROVE  HasQuota(Older(S), Aged(key), opening)
<1>1. PICK cur \in SUBSET S : Quota(S, cur, key, opening)
  BY DEF HasQuota
<1> DEFINE rest == Older(S) \ Older(cur)
<1>2. IsFiniteSet(cur) /\ IsFiniteSet(S \ cur) /\ cur \in SUBSET (Recent \X Nat)
      /\ S \ cur \in SUBSET (Recent \X Nat)
  BY FS_Subset, FS_Difference
<1>3. /\ Cardinality(Older(cur)) <= Cardinality(cur) /\ IsFiniteSet(Older(cur))
      /\ Cardinality(Older(S \ cur)) <= Cardinality(S \ cur) /\ IsFiniteSet(Older(S \ cur))
  BY <1>2, OlderCalls
<1>4. Older(cur) \subseteq Older(S) /\ rest \subseteq Older(S \ cur)
  BY OlderRest
<1>5. Cardinality(rest) <= Cardinality(Older(S \ cur)) /\ IsFiniteSet(rest)
  BY <1>3, <1>4, FS_Subset
<1>6. {Cardinality(cur), Cardinality(Older(cur)), Cardinality(S \ cur),
       Cardinality(Older(S \ cur)), Cardinality(rest)} \subseteq Nat
  BY <1>2, <1>3, <1>5, FS_CardinalityType
<1>7. key.n \in Nat
  BY KeyParts
<1>8. Cardinality(rest) <= LIMIT
  BY <1>1, <1>3, <1>5, <1>6, LimitsAssumption DEF Quota
<1>9. Cardinality(Older(cur)) + opening <= key.n /\ Cardinality(Older(cur)) + opening <= LIMIT
  BY <1>1, <1>3, <1>6, <1>7, LimitsAssumption DEF Quota
<1>10. CASE key.ttl = None
  <2>1. Quota(Older(S), Older(cur), Aged(key), opening)
    BY <1>8, <1>9, <1>10, AgedKey DEF Quota
  <2> QED
    BY <1>4, <2>1 DEF HasQuota
<1>11. CASE key.ttl = 1
  <2>1. \A f \in S \ cur : f[1] + 1 >= WINDOW
    BY <1>1, <1>11, LimitsAssumption DEF Quota
  <2>2. Older(S) = Older(cur)
    <3>1. \A f \in S \ cur : f[1] + 1 \notin Recent
      <4> SUFFICES ASSUME NEW f \in S \ cur PROVE f[1] + 1 \notin Recent
        OBVIOUS
      <4>1. f[1] \in Recent /\ f[1] + 1 >= WINDOW
        BY <1>2, <2>1
      <4> QED
        BY <4>1, LimitsAssumption DEF Recent
    <3>2. Older(S \ cur) = {}
      BY <3>1 DEF Older
    <3> QED
      BY <1>4, <3>2
  <2>3. Older(S) \ {} = Older(cur) /\ {} \in SUBSET Older(S) /\ Cardinality({}) = 0
    BY <2>2, FS_EmptySet
  <2>4. Aged(key) = Missing /\ Missing.n = 0 /\ Missing.ttl = None /\ opening = 0
    BY <1>11, AgedKey, LimitsAssumption DEF Missing
  <2>5. Cardinality(Older(cur)) <= LIMIT
    BY <1>6, <1>9, LimitsAssumption
  <2>6. Quota(Older(S), {}, Aged(key), opening)
    BY <2>3, <2>4, <2>5, LimitsAssumption DEF Quota
  <2> QED
    BY <2>3, <2>6 DEF HasQuota
<1>12. CASE key.ttl \notin {1, None}
  <2>1. Aged(key).n = key.n /\ Aged(key).ttl = key.ttl - 1 /\ Aged(key).ttl # None
    BY <1>12, AgedKey
  <2>2. \A f \in S \ cur : f[1] \in Nat /\ f[1] + key.ttl >= WINDOW
    BY <1>1, <1>12 DEF Quota, Recent
  <2>3. \A e \in rest : e[1] + Aged(key).ttl >= WINDOW
    <3> SUFFICES ASSUME NEW e \in rest PROVE e[1] + Aged(key).ttl >= WINDOW
      OBVIOUS
    <3>1. PICK f \in S \ cur : e[1] = f[1] + 1
      BY <1>4, OlderRest
    <3> QED
      BY <1>12, <2>1, <2>2, <3>1, LimitsAssumption
  <2>4. Quota(Older(S), Older(cur), Aged(key), opening)
    BY <1>8, <1>9, <2>1, <2>3 DEF Quota
  <2> QED
    BY <1>4, <2>4 DEF HasQuota
<1> QED
  BY <1>10, <1>11, <1>12

-----------------------------------------------------------------------------
\* The counters of the process.
Counter == [count : 0..MaxCount, age : 0..(WINDOW + 1)]

LEMMA EmptyLocalQuota ==
    ASSUME NEW d \in Counter
    PROVE  HasLocalQuota({}, d)
<1>1. Cardinality({}) = 0 /\ {} \in SUBSET {}
  BY FS_EmptySet
<1>2. LocalQuota({}, {}, d)
  BY <1>1, LimitsAssumption DEF LocalQuota, Counter
<1> QED
  BY <1>1, <1>2 DEF HasLocalQuota

LEMMA LocalQuotaBounds ==
    ASSUME NEW S, IsFiniteSet(S), NEW d \in Counter, HasLocalQuota(S, d)
    PROVE  Cardinality(S) <= 2 * DEGRADED_IP_MAX
<1>1. PICK cur \in SUBSET S : LocalQuota(S, cur, d)
  BY DEF HasLocalQuota
<1>2. IsFiniteSet(cur) /\ IsFiniteSet(S \ cur) /\ cur \union (S \ cur) = S
      /\ cur \intersect (S \ cur) = {}
  BY FS_Subset, FS_Difference
<1>3. Cardinality(S) = Cardinality(cur) + Cardinality(S \ cur) - Cardinality(cur \intersect (S \ cur))
  BY <1>2, FS_Union
<1>4. Cardinality(cur \intersect (S \ cur)) = 0
  BY <1>2, FS_EmptySet
<1>5. Cardinality(cur) \in Nat /\ Cardinality(S \ cur) \in Nat
  BY <1>2, FS_CardinalityType
<1> QED
  BY <1>1, <1>3, <1>4, <1>5, LimitsAssumption DEF LocalQuota

\* What a window that is over admitted before is out of sight.
LEMMA RestartedWindow ==
    ASSUME NEW S \in SUBSET (Recent \X Nat), IsFiniteSet(S), NEW e \in Recent \X Nat,
           NEW d \in Counter, HasLocalQuota(S, d), d.count = 0 \/ d.age > WINDOW,
           NEW new \in Counter, new.count = 1, new.age = 0
    PROVE  HasLocalQuota(S \union {e}, new)
<1>1. PICK cur \in SUBSET S : LocalQuota(S, cur, d)
  BY DEF HasLocalQuota
<1>2. \A x \in S : x[1] \in Nat /\ x[1] < WINDOW
  BY LimitsAssumption DEF Recent
<1>3. S \ cur = {}
  <2>1. CASE d.count = 0
    BY <1>1, <2>1 DEF LocalQuota
  <2>2. CASE d.age > WINDOW
    BY <1>1, <1>2, <2>2, LimitsAssumption DEF LocalQuota, Counter
  <2> QED
    BY <2>1, <2>2
<1> DEFINE rest == (S \union {e}) \ {e}
<1>4. rest \in SUBSET cur
  BY <1>3
<1>5. IsFiniteSet(cur)
  BY FS_Subset
<1>6. Cardinality(rest) <= Cardinality(cur) /\ Cardinality(rest) \in Nat /\ Cardinality(cur) \in Nat
  BY <1>4, <1>5, FS_Subset, FS_CardinalityType
<1>7. Cardinality(rest) <= DEGRADED_IP_MAX
  BY <1>1, <1>6, LimitsAssumption DEF LocalQuota
<1>8. \A x \in rest : x[1] >= new.age
  BY <1>2
<1>9. Cardinality({e}) = 1 /\ {e} \in SUBSET (S \union {e})
  BY FS_Singleton
<1>10. LocalQuota(S \union {e}, {e}, new)
  BY <1>7, <1>8, <1>9, LimitsAssumption DEF LocalQuota
<1> QED
  BY <1>9, <1>10 DEF HasLocalQuota

\* The other subscribers of the counter have the past to show, and no more.
LEMMA RestartedElsewhere ==
    ASSUME NEW S \in SUBSET (Recent \X Nat), IsFiniteSet(S),
           NEW d \in Counter, HasLocalQuota(S, d), d.count = 0 \/ d.age > WINDOW,
           NEW new \in Counter, new.count = 1, new.age = 0
    PROVE  HasLocalQuota(S, new)
<1>1. PICK cur \in SUBSET S : LocalQuota(S, cur, d)
  BY DEF HasLocalQuota
<1>2. \A x \in S : x[1] \in Nat /\ x[1] < WINDOW
  BY LimitsAssumption DEF Recent
<1>3. S = cur
  <2>1. CASE d.count = 0
    BY <1>1, <2>1 DEF LocalQuota
  <2>2. CASE d.age > WINDOW
    BY <1>1, <1>2, <2>2, LimitsAssumption DEF LocalQuota, Counter
  <2> QED
    BY <2>1, <2>2
<1>4. Cardinality({}) = 0 /\ {} \in SUBSET S /\ S \ {} = cur
  BY <1>3, FS_EmptySet
<1>5. LocalQuota(S, {}, new)
  BY <1>1, <1>2, <1>4, LimitsAssumption DEF LocalQuota
<1> QED
  BY <1>4, <1>5 DEF HasLocalQuota

\* A window that is not over counts on, and admits up to its limit.
LEMMA CountedOn ==
    ASSUME NEW S \in SUBSET (Recent \X Nat), IsFiniteSet(S),
           NEW d \in Counter, HasLocalQuota(S, d), d.count # 0,
           NEW new \in Counter, new.count = d.count + 1, new.age = d.age
    PROVE  /\ HasLocalQuota(S, new)
           /\ \A e : new.count <= DEGRADED_IP_MAX => HasLocalQuota(S \union {e}, new)
<1>1. PICK cur \in SUBSET S : LocalQuota(S, cur, d)
  BY DEF HasLocalQuota
<1>2. Cardinality(cur) \in Nat /\ d.count \in Nat
  BY FS_Subset, FS_CardinalityType DEF Counter
<1>3. LocalQuota(S, cur, new)
  BY <1>1, <1>2, LimitsAssumption DEF LocalQuota
<1>4. ASSUME NEW e, new.count <= DEGRADED_IP_MAX
      PROVE  HasLocalQuota(S \union {e}, new)
  <2> DEFINE now == cur \union {e}
             rest == (S \union {e}) \ now
  <2>1. Joins(S, cur, e)
    BY OneMore
  <2>2. /\ now \in SUBSET (S \union {e}) /\ rest \subseteq S \ cur
        /\ Cardinality(now) \in Nat /\ Cardinality(now) <= Cardinality(cur) + 1
        /\ Cardinality(S \ cur) \in Nat /\ Cardinality(rest) \in Nat
        /\ Cardinality(rest) <= Cardinality(S \ cur)
    BY <2>1 DEF Joins
  <2> HIDE DEF now
  <2>3. Cardinality(now) <= new.count /\ Cardinality(now) <= DEGRADED_IP_MAX
    <3>1. Cardinality(cur) <= d.count
      BY <1>1 DEF LocalQuota
    <3> QED
      BY <1>2, <1>4, <2>2, <3>1, LimitsAssumption
  <2>4. Cardinality(rest) <= DEGRADED_IP_MAX
    BY <1>1, <2>2, LimitsAssumption DEF LocalQuota
  <2>5. \A x \in rest : x[1] >= new.age
    BY <1>1, <2>2 DEF LocalQuota
  <2>6. new.count # 0
    BY <1>2
  <2> QED
    BY <2>2, <2>3, <2>4, <2>5, <2>6 DEF LocalQuota, HasLocalQuota
<1> QED
  BY <1>3, <1>4 DEF HasLocalQuota

\* A tick makes the window older, and what it admitted.
LEMMA LocalQuotaAges ==
    ASSUME NEW S \in SUBSET (Recent \X Nat), IsFiniteSet(S), NEW d \in Counter,
           NEW new \in Counter, HasLocalQuota(S, d), new.count = d.count,
           new.age = IF d.count = 0 \/ d.age > WINDOW THEN d.age ELSE d.age + 1
    PROVE  HasLocalQuota(Older(S), new)
<1>1. PICK cur \in SUBSET S : LocalQuota(S, cur, d)
  BY DEF HasLocalQuota
<1> DEFINE rest == Older(S) \ Older(cur)
<1>2. IsFiniteSet(cur) /\ IsFiniteSet(S \ cur) /\ cur \in SUBSET (Recent \X Nat)
      /\ S \ cur \in SUBSET (Recent \X Nat)
  BY FS_Subset, FS_Difference
<1>3. /\ Cardinality(Older(cur)) <= Cardinality(cur) /\ IsFiniteSet(Older(cur))
      /\ Cardinality(Older(S \ cur)) <= Cardinality(S \ cur) /\ IsFiniteSet(Older(S \ cur))
  BY <1>2, OlderCalls
<1>4. Older(cur) \subseteq Older(S) /\ rest \subseteq Older(S \ cur)
  BY OlderRest
<1>5. Cardinality(rest) <= Cardinality(Older(S \ cur)) /\ IsFiniteSet(rest)
  BY <1>3, <1>4, FS_Subset
<1>6. {Cardinality(cur), Cardinality(Older(cur)), Cardinality(S \ cur),
       Cardinality(Older(S \ cur)), Cardinality(rest)} \subseteq Nat
  BY <1>2, <1>3, <1>5, FS_CardinalityType
<1>7. d.count \in Nat /\ d.age \in Nat
  BY LimitsAssumption DEF Counter
<1>8. Cardinality(rest) <= DEGRADED_IP_MAX
  BY <1>1, <1>3, <1>5, <1>6, LimitsAssumption DEF LocalQuota
<1>9. Cardinality(Older(cur)) <= new.count /\ Cardinality(Older(cur)) <= DEGRADED_IP_MAX
  BY <1>1, <1>3, <1>6, <1>7, LimitsAssumption DEF LocalQuota
<1>10. \A e \in rest : e[1] >= new.age
  <2> SUFFICES ASSUME NEW e \in rest PROVE e[1] >= new.age
    OBVIOUS
  <2>1. PICK f \in S \ cur : e[1] = f[1] + 1
    BY <1>4, OlderRest
  <2>2. f[1] \in Nat /\ f[1] >= d.age
    BY <1>1 DEF LocalQuota, Recent
  <2> QED
    BY <1>7, <2>1, <2>2, LimitsAssumption
<1>11. new.count = 0 => Older(S) = {}
  BY <1>1 DEF LocalQuota, Older
<1>12. LocalQuota(Older(S), Older(cur), new)
  BY <1>8, <1>9, <1>10, <1>11 DEF LocalQuota
<1> QED
  BY <1>4, <1>12 DEF HasLocalQuota

-----------------------------------------------------------------------------
\* A step that counts and grants nothing, and loses the opener of a window
\* only with a fault.
LEMMA WindowFrame ==
    ASSUME IInv, UNCHANGED <<window, grants>>,
           \A r \in Requests : req'[r].pc \in {"expire", "ttl"} => req'[r] = req[r],
           faults' = 0 => /\ faults = 0
                          /\ \A r \in Requests : req[r].pc = "expire" => req'[r] = req[r]
    PROVE  WindowSide'
<1>1. OneOpener'
  BY DEF IInv, WindowSide, OneOpener, Counted, Opens
<1>2. WindowsEnd'
  BY DEF IInv, WindowSide, WindowsEnd
<1>3. faults' = 0 => \A b \in Buckets : Supervised(b)'
  BY DEF IInv, WindowSide, Supervised, Opens
<1>4. TwoQuotas'
  <2> SUFFICES ASSUME NEW c \in Calls
               PROVE  /\ bucketOf(c) = None => grants[Subscriber(c)] = {}
                      /\ bucketOf(c) # None =>
                            HasQuota(grants[Subscriber(c)], window[bucketOf(c)], Opening(bucketOf(c))')
    BY DEF TwoQuotas
  <2> DEFINE b == bucketOf(c)
             S == grants[Subscriber(c)]
  <2>1. /\ b = None => S = {}
        /\ b # None => HasQuota(S, window[b], Opening(b))
    BY DEF IInv, WindowSide, TwoQuotas
  <2>2. Opening(b) \in {0, 1} /\ Opening(b)' \in {0, 1} /\ Opening(b)' <= Opening(b)
    BY DEF Opening, Opens
  <2>3. b # None => window[b] \in Key
    BY DEF IInv, TypeOK, Buckets
  <2>4. S \in SUBSET (Recent \X Nat) /\ IsFiniteSet(S)
    BY DEF IInv, TypeOK, Finite, Subscribers
  <2>5. b # None => window[b].n \in Nat
    BY <2>3, KeyParts
  <2> HIDE DEF b, S
  <2>6. b # None => HasQuota(S, window[b], Opening(b)')
    BY <2>1, <2>2, <2>3, <2>4, <2>5, QuotaLasts
  <2> QED
    BY <2>1, <2>6 DEF b, S
<1> QED
  BY <1>1, <1>2, <1>3, <1>4 DEF WindowSide

LEMMA AccountFrame ==
    ASSUME IInv, UNCHANGED failures,
           faults' = 0 => /\ faults = 0
                          /\ \A r \in Requests : req[r].pc = "acctExpire" => req'[r] = req[r]
    PROVE  AccountSide'
  BY DEF IInv, AccountSide, AccountSupervised, Expires

LEMMA LocalFrame ==
    ASSUME IInv, UNCHANGED <<degraded, local>>
    PROVE  TwoLocalQuotas'
  BY DEF IInv, TwoLocalQuotas

-----------------------------------------------------------------------------
\* One request moves, the others stand.
LEMMA OneMoves ==
    ASSUME IInv, NEW r \in Requests, NEW new \in Forms, req' = [req EXCEPT ![r] = new]
    PROVE  /\ req' \in [Requests -> Forms] /\ req'[r] = new
           /\ \A q \in Requests \ {r} : req'[q] = req[q]
  BY DEF IInv, TypeOK, Forms, Counting, Verifying

\* Where the conjuncts of the invariant come from.
LEMMA Parts ==
    ASSUME redisUp' \in BOOLEAN, window' \in [Buckets -> Key], failures' \in [Accounts -> Key],
           degraded' \in [Buckets -> Counter], req' \in [Requests -> Forms],
           faults' \in 0..MaxFaults,
           grants' \in [Subscribers -> SUBSET (Recent \X Nat)],
           local' \in [Subscribers -> SUBSET (Recent \X Nat)],
           UpAtFirst', Finite', WindowSide', AccountSide', TwoLocalQuotas'
    PROVE  IInv'
  BY DEF IInv, TypeOK, Forms, Counting, Verifying, Counter

LEMMA Typed ==
    ASSUME IInv
    PROVE  /\ redisUp \in BOOLEAN /\ window \in [Buckets -> Key]
           /\ failures \in [Accounts -> Key] /\ degraded \in [Buckets -> Counter]
           /\ req \in [Requests -> Forms] /\ faults \in 0..MaxFaults
           /\ grants \in [Subscribers -> SUBSET (Recent \X Nat)]
           /\ local \in [Subscribers -> SUBSET (Recent \X Nat)]
  BY DEF IInv, TypeOK, Forms, Counting, Verifying, Counter

\* A request that only reads, or that Redis does not answer.
LEMMA QuietStep ==
    ASSUME IInv, NEW r \in Requests, NEW new \in Forms, req' = [req EXCEPT ![r] = new],
           UNCHANGED <<Around, failures, QuotaVars>>,
           new.pc \notin {"expire", "ttl"},
           redisUp => req[r].pc \notin {"expire", "acctExpire"}
    PROVE  IInv'
<1>1. /\ UNCHANGED <<redisUp, faults>> /\ UNCHANGED failures
      /\ UNCHANGED <<window, grants>> /\ UNCHANGED <<degraded, local>>
  BY DEF Around, QuotaVars
<1>2. req' \in [Requests -> Forms] /\ req'[r] = new /\ \A q \in Requests \ {r} : req'[q] = req[q]
  BY OneMoves
<1>3. faults = 0 => req[r].pc \notin {"expire", "acctExpire"}
  BY DEF IInv, UpAtFirst
<1>4. WindowSide'
  BY <1>1, <1>2, <1>3, WindowFrame
<1>5. AccountSide'
  BY <1>1, <1>2, <1>3, AccountFrame
<1>6. TwoLocalQuotas'
  BY <1>1, LocalFrame
<1>7. UpAtFirst' /\ Finite'
  BY <1>1 DEF IInv, UpAtFirst, Finite
<1> QED
  BY <1>1, <1>2, <1>4, <1>5, <1>6, <1>7, Typed, Parts

LEMMA ReadersKeepIInv ==
    ASSUME IInv, NEW r \in Requests, RefuseOverLimit(r) \/ FailOpenGuard(r)
    PROVE  IInv'
<1>1. Idle \in Forms /\ Idle.pc = "idle"
  BY DEF Forms, Idle
<1>2. /\ req' = [req EXCEPT ![r] = Idle] /\ UNCHANGED <<Around, failures, QuotaVars>>
      /\ redisUp => req[r].pc = "ttl"
  BY DEF RefuseOverLimit, FailOpenGuard, Done
<1> QED
  BY <1>1, <1>2, QuietStep

LEMMA CheckAccountKeepsIInv ==
    ASSUME IInv, NEW r \in Requests, NEW a \in Accounts, CheckAccount(r, a)
    PROVE  IInv'
<1> DEFINE new == [pc |-> "verify", acct |-> a]
<1>1. new \in Forms /\ new.pc = "verify"
  BY DEF Forms, Verifying
<1>2. req' = [req EXCEPT ![r] = new] /\ UNCHANGED <<Around, failures, QuotaVars>> /\ req[r].pc = "idle"
  BY DEF CheckAccount, Idle
<1> HIDE DEF new
<1> QED
  BY <1>1, <1>2, QuietStep

\* A step on the back-off key of one account.
LEMMA AccountStep ==
    ASSUME IInv, NEW r \in Requests, NEW new \in Forms, req' = [req EXCEPT ![r] = new],
           UNCHANGED <<Around, QuotaVars>>,
           req[r].pc \in {"verify", "acctExpire"}, new.pc \in {"idle", "acctExpire"},
           failures' \in [Accounts -> Key], AccountSide'
    PROVE  IInv'
<1>1. /\ UNCHANGED <<redisUp, faults>>
      /\ UNCHANGED <<window, grants>> /\ UNCHANGED <<degraded, local>>
  BY DEF Around, QuotaVars
<1>2. req' \in [Requests -> Forms] /\ req'[r] = new /\ \A q \in Requests \ {r} : req'[q] = req[q]
  BY OneMoves
<1>3. WindowSide'
  BY <1>1, <1>2, WindowFrame
<1>4. TwoLocalQuotas'
  BY <1>1, LocalFrame
<1>5. UpAtFirst' /\ Finite'
  BY <1>1 DEF IInv, UpAtFirst, Finite
<1> QED
  BY <1>1, <1>2, <1>3, <1>4, <1>5, Typed, Parts

LEMMA RecordFailureKeepsIInv ==
    ASSUME IInv, NEW r \in Requests, RecordFailure(r)
    PROVE  IInv'
<1> DEFINE a == req[r].acct
           new == [req[r] EXCEPT !.pc = "acctExpire"]
<1>1. req[r].pc = "verify" /\ req[r] \in Verifying /\ a \in Accounts
  BY FormByPlace, Typed DEF RecordFailure
<1>2. CASE ~ redisUp
  <2>1. Idle \in Forms /\ Idle.pc = "idle"
    BY DEF Forms, Idle
  <2>2. req' = [req EXCEPT ![r] = Idle] /\ UNCHANGED <<Around, failures, QuotaVars>>
    BY <1>2 DEF RecordFailure, Done
  <2> QED
    BY <1>1, <2>1, <2>2, QuietStep
<1>3. CASE redisUp
  <2>1. /\ failures' = [failures EXCEPT ![a] = Incr(@)] /\ failures[a].n < MaxCount
        /\ UNCHANGED <<Around, QuotaVars>>
    BY <1>3 DEF RecordFailure
  <2>2. req' = [req EXCEPT ![r] = new]
    BY <1>3, Typed DEF RecordFailure
  <2>3. new \in Verifying /\ new.pc = "acctExpire" /\ new.acct = a
    BY <1>1 DEF Verifying
  <2> HIDE DEF new, a
  <2>4. new \in Forms
    BY <2>3 DEF Forms
  <2>5. failures[a] \in Key /\ Incr(failures[a]) \in Key
    BY <1>1, <2>1, IncrKey, Typed
  <2>6. failures' \in [Accounts -> Key]
    BY <2>1, <2>5, Typed
  <2>7. req'[r] = new /\ \A q \in Requests \ {r} : req'[q] = req[q]
    BY <2>2, <2>4, OneMoves
  <2>8. AccountSide'
    <3> SUFFICES ASSUME faults' = 0, NEW x \in Accounts PROVE AccountSupervised(x)'
      BY DEF AccountSide
    <3>1. CASE x = a
      BY <2>3, <2>7, <3>1 DEF AccountSupervised, Expires
    <3>2. CASE x # a
      <4>1. failures'[x] = failures[x] /\ AccountSupervised(x)
        BY <2>1, <3>2, Typed DEF IInv, AccountSide, Around
      <4>2. \A q \in Requests : Expires(req[q], x) => Expires(req'[q], x)
        BY <1>1, <2>7 DEF Expires
      <4> QED
        BY <4>1, <4>2 DEF AccountSupervised
    <3> QED
      BY <3>1, <3>2
  <2> QED
    BY <1>1, <2>1, <2>2, <2>3, <2>4, <2>6, <2>8, AccountStep
<1> QED
  BY <1>2, <1>3

LEMMA ExpireFailuresKeepsIInv ==
    ASSUME IInv, NEW r \in Requests, ExpireFailures(r)
    PROVE  IInv'
<1> DEFINE a == req[r].acct
<1>0. Idle \in Forms /\ Idle.pc = "idle"
  BY DEF Forms, Idle
<1>1. req[r].pc = "acctExpire" /\ a \in Accounts
  BY FormByPlace, Typed DEF ExpireFailures
<1>2. req' = [req EXCEPT ![r] = Idle] /\ UNCHANGED <<Around, QuotaVars>>
  BY DEF ExpireFailures, Done
<1>3. CASE ~ redisUp
  <2>1. UNCHANGED <<Around, failures, QuotaVars>>
    BY <1>2, <1>3 DEF ExpireFailures
  <2> QED
    BY <1>0, <1>2, <1>3, <2>1, QuietStep
<1>4. CASE redisUp
  <2>1. failures' = [failures EXCEPT ![a] = Expire(@, ACCT_COUNTER_TTL)]
    BY <1>4 DEF ExpireFailures
  <2> HIDE DEF a
  <2>2. failures[a] \in Key /\ ACCT_COUNTER_TTL \in Nat \ {0}
    BY <1>1, Typed, LimitsAssumption
  <2>3. /\ Expire(failures[a], ACCT_COUNTER_TTL) \in Key
        /\ \/ Expire(failures[a], ACCT_COUNTER_TTL) = Missing
           \/ Expire(failures[a], ACCT_COUNTER_TTL).ttl # None
    BY <2>2, ExpireKey, LimitsAssumption
  <2>4. failures' \in [Accounts -> Key]
    BY <2>1, <2>3, Typed
  <2>5. \A q \in Requests \ {r} : req'[q] = req[q]
    BY <1>0, <1>2, OneMoves
  <2>6. AccountSide'
    <3> SUFFICES ASSUME faults' = 0, NEW x \in Accounts PROVE AccountSupervised(x)'
      BY DEF AccountSide
    <3>1. CASE x = a
      <4>1. failures'[x] = Expire(failures[a], ACCT_COUNTER_TTL)
        BY <1>1, <2>1, <3>1, Typed
      <4> QED
        BY <2>3, <4>1 DEF AccountSupervised
    <3>2. CASE x # a
      <4>1. failures'[x] = failures[x] /\ AccountSupervised(x)
        BY <1>2, <2>1, <3>2, Typed DEF IInv, AccountSide, Around
      <4>2. \A q \in Requests : Expires(req[q], x) => Expires(req'[q], x)
        BY <1>1, <2>5, <3>2 DEF Expires, a
      <4> QED
        BY <4>1, <4>2 DEF AccountSupervised
    <3> QED
      BY <3>1, <3>2
  <2> QED
    BY <1>0, <1>1, <1>2, <2>4, <2>6, AccountStep
<1> QED
  BY <1>3, <1>4

LEMMA ClearFailuresKeepsIInv ==
    ASSUME IInv, NEW r \in Requests, ClearFailures(r)
    PROVE  IInv'
<1> DEFINE a == req[r].acct
<1>0. Idle \in Forms /\ Idle.pc = "idle"
  BY DEF Forms, Idle
<1>1. req[r].pc = "verify" /\ a \in Accounts
  BY FormByPlace, Typed DEF ClearFailures
<1>2. req' = [req EXCEPT ![r] = Idle] /\ UNCHANGED <<Around, QuotaVars>>
  BY DEF ClearFailures, Done
<1>3. failures' = failures \/ failures' = [failures EXCEPT ![a] = Missing]
  BY DEF ClearFailures
<1>4. failures' \in [Accounts -> Key]
  <2>1. Missing \in Key
    BY DEF Key
  <2> QED
    BY <1>3, <2>1, Typed
<1>5. \A q \in Requests \ {r} : req'[q] = req[q]
  BY <1>0, <1>2, OneMoves
<1> HIDE DEF a
<1>6. AccountSide'
  <2> SUFFICES ASSUME faults' = 0, NEW x \in Accounts PROVE AccountSupervised(x)'
    BY DEF AccountSide
  <2>1. failures'[x] = Missing \/ failures'[x] = failures[x]
    BY <1>3, Typed
  <2>2. AccountSupervised(x)
    BY <1>2 DEF IInv, AccountSide, Around
  <2>3. \A q \in Requests : Expires(req[q], x) => Expires(req'[q], x)
    BY <1>1, <1>5 DEF Expires
  <2> QED
    BY <2>1, <2>2, <2>3 DEF AccountSupervised
<1> QED
  BY <1>0, <1>1, <1>2, <1>4, <1>6, AccountStep

-----------------------------------------------------------------------------
\* What a call of its own is about: its counter, and those of its subscriber.
LEMMA CallParts ==
    ASSUME NEW c \in Calls
    PROVE  /\ Subscriber(c) \in Subscribers
           /\ bucketOf(c) # None => bucketOf(c) \in Buckets
  BY DEF Subscribers, Buckets

\* A step of a request on one window, which may grant its call.
LEMMA WindowStep ==
    ASSUME IInv, NEW r \in Requests, NEW new \in Forms, req' = [req EXCEPT ![r] = new],
           UNCHANGED <<Around, failures, degraded, local>>,
           req[r].pc # "acctExpire",
           window' \in [Buckets -> Key], WindowSide',
           \/ grants' = grants
           \/ \E c \in Calls : Grant(c)
    PROVE  IInv'
<1>1. UNCHANGED <<redisUp, faults>> /\ UNCHANGED failures /\ UNCHANGED <<degraded, local>>
  BY DEF Around
<1>2. req' \in [Requests -> Forms] /\ \A q \in Requests \ {r} : req'[q] = req[q]
  BY OneMoves
<1>3. AccountSide'
  BY <1>1, <1>2, AccountFrame
<1>4. TwoLocalQuotas'
  BY <1>1, LocalFrame
<1>5. /\ grants' \in [Subscribers -> SUBSET (Recent \X Nat)]
      /\ \A s \in Subscribers : IsFiniteSet(grants'[s])
  <2>1. CASE grants' = grants
    BY <2>1, Typed DEF IInv, Finite
  <2>2. ASSUME NEW c \in Calls, Grant(c)
        PROVE  /\ grants' \in [Subscribers -> SUBSET (Recent \X Nat)]
               /\ \A s \in Subscribers : IsFiniteSet(grants'[s])
    <3>1. Subscriber(c) \in Subscribers /\ IsFiniteSet(grants[Subscriber(c)])
      BY CallParts DEF IInv, Finite
    <3>2. PICK e \in Recent \X Nat : grants' = [grants EXCEPT ![Subscriber(c)] = @ \union {e}]
      BY <2>2, <3>1, AdmitOne, Typed DEF Grant
    <3>3. IsFiniteSet(grants[Subscriber(c)] \union {e})
      BY <3>1, FS_AddElement
    <3> QED
      BY <3>1, <3>2, <3>3, Typed DEF IInv, Finite
  <2> QED
    BY <2>1, <2>2
<1>6. UpAtFirst' /\ Finite'
  BY <1>1, <1>5 DEF IInv, UpAtFirst, Finite
<1> QED
  BY <1>1, <1>2, <1>3, <1>4, <1>5, <1>6, Typed, Parts

\* The quotas of one counter, before a step.
LEMMA QuotaBefore ==
    ASSUME IInv, NEW c \in Calls, bucketOf(c) # None
    PROVE  /\ HasQuota(grants[Subscriber(c)], window[bucketOf(c)], Opening(bucketOf(c)))
           /\ window[bucketOf(c)] \in Key
           /\ grants[Subscriber(c)] \in SUBSET (Recent \X Nat)
           /\ IsFiniteSet(grants[Subscriber(c)])
           /\ Opening(bucketOf(c)) \in {0, 1}
<1>1. Subscriber(c) \in Subscribers /\ bucketOf(c) \in Buckets
  BY CallParts
<1>2. HasQuota(grants[Subscriber(c)], window[bucketOf(c)], Opening(bucketOf(c)))
  BY DEF IInv, WindowSide, TwoQuotas
<1>3. window[bucketOf(c)] \in Key /\ grants[Subscriber(c)] \in SUBSET (Recent \X Nat)
  BY <1>1, Typed
<1>4. IsFiniteSet(grants[Subscriber(c)])
  BY <1>1 DEF IInv, Finite
<1>5. Opening(bucketOf(c)) \in {0, 1}
  BY DEF Opening
<1> QED
  BY <1>2, <1>3, <1>4, <1>5

\* INCR: the first count of a window has its EXPIRE to follow.
LEMMA CountKeepsIInv ==
    ASSUME IInv, NEW r \in Requests, NEW c \in Calls, Count(r, c)
    PROVE  IInv'
<1> DEFINE b == bucketOf(c)
           key == Incr(window[b])
           opener == [pc |-> "expire", call |-> c]
           refused == [pc |-> "ttl", call |-> c]
<1>1. /\ req[r] = Idle /\ b # None /\ window[b].n < MaxCount
      /\ window' = [window EXCEPT ![b] = Incr(@)]
      /\ UNCHANGED <<Around, failures, degraded, local>>
  BY DEF Count
<1>2. b \in Buckets /\ window[b] \in Key
  BY <1>1, CallParts, QuotaBefore
<1>3. key \in Key /\ key.n = window[b].n + 1 /\ key.ttl = window[b].ttl /\ key # Missing
  BY <1>1, <1>2, IncrKey
<1>4. window' = [window EXCEPT ![b] = key]
  BY <1>1
<1>5. PICK new \in Forms :
         /\ req' = [req EXCEPT ![r] = new]
         /\ \/ key.n = 1 /\ new = opener /\ grants' = grants
            \/ key.n \in 2..LIMIT /\ new = Idle /\ Grant(c)
            \/ key.n > 1 /\ key.n > LIMIT /\ new = refused /\ grants' = grants
  <2>1. opener \in Forms /\ refused \in Forms /\ Idle \in Forms
    BY DEF Forms, Counting
  <2>2. window'[b].n = key.n
    BY <1>2, <1>4, Typed
  <2>3. CASE window'[b].n = 1 /\ req' = [req EXCEPT ![r] = opener] /\ UNCHANGED grants
    BY <2>1, <2>2, <2>3
  <2>4. CASE window'[b].n \in 2..LIMIT /\ Grant(c) /\ UNCHANGED req
    <3>1. req' = [req EXCEPT ![r] = Idle]
      BY <1>1, <2>4, Typed
    <3> QED
      BY <2>1, <2>2, <2>4, <3>1
  <2>5. CASE /\ window'[b].n > 1 /\ window'[b].n > LIMIT
             /\ req' = [req EXCEPT ![r] = refused] /\ UNCHANGED grants
    BY <2>1, <2>2, <2>5
  <2> QED
    BY <2>3, <2>4, <2>5 DEF Count
<1>6. /\ Idle.pc = "idle" /\ opener.pc = "expire" /\ opener.call = c
      /\ refused.pc = "ttl" /\ refused.call = c
  BY DEF Idle
<1>7. req'[r] = new /\ \A q \in Requests \ {r} : req'[q] = req[q]
  BY <1>5, OneMoves
<1> HIDE DEF b, key, opener, refused
<1>8. window' \in [Buckets -> Key]
  BY <1>2, <1>3, <1>4, Typed
<1>9. window'[b] = key /\ \A x \in Buckets \ {b} : window'[x] = window[x]
  BY <1>2, <1>4, Typed
<1>10. \A q \in Requests, x \in Buckets :
          /\ Opens(req[q], x) => Opens(req'[q], x)
          /\ Opens(req'[q], x) =>
                \/ Opens(req[q], x)
                \/ q = r /\ x = b /\ key.n = 1 /\ new = opener
  BY <1>1, <1>5, <1>6, <1>7 DEF Opens, b
<1>11. \A x \in Buckets : (\E q \in Requests : Opens(req[q], x)) => window[x].n >= 1
  BY DEF IInv, WindowSide, OneOpener
<1>12. window[b].n \in Nat /\ (window[b].n = 0 => window[b].ttl = None)
  BY <1>2, KeyParts
<1>13. OneOpener'
  <2>1. \A q \in Requests : Counted(req'[q])
    <3>1. \A q \in Requests : Counted(req[q])
      BY DEF IInv, WindowSide, OneOpener
    <3> QED
      BY <1>1, <1>5, <1>6, <1>7, <3>1 DEF Counted, b
  <2>2. ASSUME NEW x \in Buckets, NEW p \in Requests, Opens(req'[p], x)
        PROVE  /\ window'[x].n >= 1 /\ window'[x].ttl = None
               /\ \A q \in Requests : Opens(req'[q], x) => q = p
    <3>1. CASE Opens(req[p], x)
      <4>1. window[x].n >= 1 /\ window[x].ttl = None /\ \A q \in Requests : Opens(req[q], x) => q = p
        BY <3>1 DEF IInv, WindowSide, OneOpener
      <4>2. x = b => key.n # 1
        BY <1>3, <1>12, <4>1
      <4>3. window'[x].n >= 1 /\ window'[x].ttl = None
        BY <1>3, <1>9, <1>12, <4>1
      <4> QED
        BY <1>10, <4>1, <4>2, <4>3
    <3>2. CASE ~ Opens(req[p], x)
      <4>1. p = r /\ x = b /\ key.n = 1
        BY <1>10, <2>2, <3>2
      <4>2. window[b].n = 0 /\ key.ttl = None
        BY <1>3, <1>12, <4>1
      <4>3. \A q \in Requests : ~ Opens(req[q], b)
        BY <1>2, <1>11, <4>2
      <4> QED
        BY <1>9, <1>10, <4>1, <4>2, <4>3
    <3> QED
      BY <3>1, <3>2
  <2> QED
    BY <2>1, <2>2 DEF OneOpener
<1>14. WindowsEnd'
  BY <1>2, <1>3, <1>9 DEF IInv, WindowSide, WindowsEnd
<1>15. faults' = 0 => \A x \in Buckets : Supervised(x)'
  <2> SUFFICES ASSUME faults' = 0, NEW x \in Buckets,
                      window'[x] # Missing, window'[x].ttl = None
               PROVE  \E q \in Requests : Opens(req'[q], x)
    BY DEF Supervised
  <2>1. Supervised(x)
    BY <1>1 DEF IInv, WindowSide, Around
  <2>2. CASE x = b /\ window[b] = Missing
    <3>1. key.n = 1
      BY <1>2, <1>3, <2>2, KeyParts
    <3>2. new = opener
      BY <1>5, <3>1
    <3> QED
      BY <1>6, <1>7, <2>2, <3>2 DEF Opens, b
  <2>3. CASE window[x] # Missing
    BY <1>3, <1>9, <1>10, <2>1, <2>3 DEF Supervised
  <2>4. CASE x # b
    BY <1>9, <1>10, <2>1, <2>4 DEF Supervised
  <2> QED
    BY <2>2, <2>3, <2>4
<1>16. \A x \in Buckets : Opening(x)' \in {0, 1} /\ (Opening(x)' = Opening(x) \/ (x = b /\ key.n = 1))
  BY <1>10 DEF Opening
<1>17. TwoQuotas'
  <2> SUFFICES ASSUME NEW d \in Calls
               PROVE  /\ bucketOf(d) = None => grants'[Subscriber(d)] = {}
                      /\ bucketOf(d) # None =>
                            HasQuota(grants'[Subscriber(d)], window'[bucketOf(d)], Opening(bucketOf(d))')
    BY DEF TwoQuotas
  <2> DEFINE x == bucketOf(d)
             S == grants[Subscriber(d)]
  <2>1. x = None => S = {}
    BY DEF IInv, WindowSide, TwoQuotas
  <2>2. x # None => /\ HasQuota(S, window[x], Opening(x)) /\ window[x] \in Key
                    /\ S \in SUBSET (Recent \X Nat) /\ IsFiniteSet(S)
                    /\ Opening(x) \in {0, 1} /\ x \in Buckets
    BY QuotaBefore, CallParts
  <2>3. CASE Subscriber(d) = Subscriber(c) /\ key.n \in 2..LIMIT /\ Grant(c)
    <3>1. x = b
      BY <2>3, SameBucket DEF b
    <3>2. Subscriber(c) \in Subscribers
      BY CallParts
    <3>3. PICK e \in Recent \X Nat : grants' = [grants EXCEPT ![Subscriber(c)] = @ \union {e}]
      BY <1>1, <2>2, <2>3, <3>1, <3>2, AdmitOne, Typed DEF Grant
    <3>4. grants'[Subscriber(d)] = S \union {e}
      BY <2>3, <3>2, <3>3, Typed
    <3>5. Opening(x)' = Opening(x)
      BY <1>2, <1>16, <2>3, <3>1
    <3>6. key.n <= LIMIT
      BY <2>3
    <3> HIDE DEF S, x
    <3>7. HasQuota(S \union {e}, key, Opening(x))
      BY <1>1, <1>3, <2>2, <3>1, <3>6, GrantCounted
    <3> QED
      BY <1>1, <1>9, <3>1, <3>4, <3>5, <3>7 DEF x
  <2>4. CASE grants'[Subscriber(d)] = S
    <3> HIDE DEF S
    <3>1. ASSUME x # None
          PROVE  HasQuota(S, window'[x], Opening(x)')
      <4> HIDE DEF x
      <4>1. CASE x # b
        BY <1>9, <1>16, <2>2, <3>1, <4>1
      <4>2. CASE x = b
        <5>1. Opening(x)' \in {0, 1} /\ (Opening(x)' <= Opening(x) \/ (window[b].n = 0 /\ key.n >= 1))
          BY <1>2, <1>3, <1>12, <1>16, <2>2, <3>1, <4>2
        <5> QED
          BY <1>3, <1>9, <1>12, <2>2, <3>1, <4>2, <5>1, QuotaLasts
      <4> QED
        BY <4>1, <4>2
    <3> QED
      BY <2>1, <2>4, <3>1
  <2>5. \/ grants'[Subscriber(d)] = S
        \/ Subscriber(d) = Subscriber(c) /\ key.n \in 2..LIMIT /\ Grant(c)
    <3>1. CASE grants' = grants
      BY <3>1
    <3>2. CASE key.n \in 2..LIMIT /\ Grant(c) /\ Subscriber(d) # Subscriber(c)
      <4>1. Subscriber(c) \in Subscribers /\ Subscriber(d) \in Subscribers
            /\ IsFiniteSet(grants[Subscriber(c)])
        BY CallParts DEF IInv, Finite
      <4>2. PICK e \in Recent \X Nat : grants' = [grants EXCEPT ![Subscriber(c)] = @ \union {e}]
        BY <3>2, <4>1, AdmitOne, Typed DEF Grant
      <4> QED
        BY <3>2, <4>1, <4>2, Typed
    <3> QED
      BY <1>5, <3>1, <3>2
  <2> QED
    BY <2>3, <2>4, <2>5
<1>18. WindowSide'
  BY <1>13, <1>14, <1>15, <1>17 DEF WindowSide
<1> QED
  BY <1>1, <1>5, <1>6, <1>8, <1>18, WindowStep

\* EXPIRE: the window ends one WINDOW from now.
LEMMA StartWindowKeepsIInv ==
    ASSUME IInv, NEW r \in Requests, StartWindow(r)
    PROVE  IInv'
<1>0. PICK c \in Calls : c = req[r].call
  BY FormByPlace, Typed DEF StartWindow
<1> DEFINE b == bucketOf(c)
           key == Expire(window[b], WINDOW)
<1>1. /\ req[r].pc = "expire"
      /\ req' = [req EXCEPT ![r] = Idle] /\ Grant(c)
      /\ UNCHANGED <<Around, failures, degraded, local>>
  BY <1>0 DEF StartWindow, Done
<1>2. window' = [window EXCEPT ![b] = key]
  BY <1>0 DEF StartWindow
<1>3. b # None /\ b \in Buckets /\ window[b] \in Key
  <2>1. b # None
    BY <1>0, <1>1 DEF IInv, WindowSide, OneOpener, Counted
  <2> QED
    BY <1>1, <2>1, CallParts, QuotaBefore
<1>4. /\ window[b].n >= 1 /\ window[b].ttl = None
      /\ Opens(req[r], b) /\ \A q \in Requests : Opens(req[q], b) => q = r
  BY <1>0, <1>1, <1>3 DEF IInv, WindowSide, OneOpener, Opens
<1>5. window[b] # Missing /\ WINDOW \in Nat \ {0}
  BY <1>3, <1>4, KeyParts, LimitsAssumption
<1>6. key \in Key /\ key.n = window[b].n /\ key.ttl = WINDOW
  BY <1>3, <1>5, ExpireKey
<1>7. Idle \in Forms /\ Idle.pc = "idle"
  BY DEF Forms, Idle
<1>8. req'[r] = Idle /\ \A q \in Requests \ {r} : req'[q] = req[q]
  BY <1>1, <1>7, OneMoves
<1> HIDE DEF b, key
<1>9. window' \in [Buckets -> Key]
  BY <1>2, <1>3, <1>6, Typed
<1>10. window'[b] = key /\ \A x \in Buckets \ {b} : window'[x] = window[x]
  BY <1>2, <1>3, Typed
<1>11. \A q \in Requests, x \in Buckets : Opens(req'[q], x) <=> Opens(req[q], x) /\ x # b
  BY <1>0, <1>1, <1>4, <1>7, <1>8 DEF Opens, b
<1>12. OneOpener'
  <2>1. \A q \in Requests : Counted(req'[q])
    BY <1>7, <1>8 DEF IInv, WindowSide, OneOpener, Counted
  <2> QED
    BY <1>10, <1>11, <2>1 DEF IInv, WindowSide, OneOpener
<1>13. WindowsEnd'
  BY <1>5, <1>6, <1>10 DEF IInv, WindowSide, WindowsEnd
<1>14. WINDOW # None
  BY LimitsAssumption
<1>15. faults' = 0 => \A x \in Buckets : Supervised(x)'
  <2> SUFFICES ASSUME faults' = 0, NEW x \in Buckets PROVE Supervised(x)'
    OBVIOUS
  <2>1. Supervised(x)
    BY <1>1 DEF IInv, WindowSide, Around
  <2> QED
    BY <1>6, <1>10, <1>11, <1>14, <2>1 DEF Supervised
<1>16. /\ \A x \in Buckets \ {b} : Opening(x)' = Opening(x)
       /\ Opening(b) = 1 /\ Opening(b)' = 0
  BY <1>3, <1>4, <1>11 DEF Opening
<1>17. TwoQuotas'
  <2> SUFFICES ASSUME NEW d \in Calls
               PROVE  /\ bucketOf(d) = None => grants'[Subscriber(d)] = {}
                      /\ bucketOf(d) # None =>
                            HasQuota(grants'[Subscriber(d)], window'[bucketOf(d)], Opening(bucketOf(d))')
    BY DEF TwoQuotas
  <2> DEFINE x == bucketOf(d)
             S == grants[Subscriber(d)]
  <2>1. x = None => S = {}
    BY DEF IInv, WindowSide, TwoQuotas
  <2>2. x # None => /\ HasQuota(S, window[x], Opening(x)) /\ window[x] \in Key
                    /\ S \in SUBSET (Recent \X Nat) /\ IsFiniteSet(S)
                    /\ x \in Buckets
    BY QuotaBefore, CallParts
  <2>3. Subscriber(c) \in Subscribers /\ Subscriber(d) \in Subscribers
        /\ IsFiniteSet(grants[Subscriber(c)])
    BY <1>1, CallParts DEF IInv, Finite
  <2>4. PICK e \in Recent \X Nat : grants' = [grants EXCEPT ![Subscriber(c)] = @ \union {e}]
    BY <1>1, <2>3, AdmitOne, Typed DEF Grant
  <2>5. CASE Subscriber(d) = Subscriber(c)
    <3>1. x = b
      BY <1>1, <2>5, SameBucket DEF b
    <3>2. grants'[Subscriber(d)] = S \union {e}
      BY <2>3, <2>4, <2>5, Typed
    <3> HIDE DEF S, x
    <3>3. HasQuota(S, window[b], 1)
      BY <1>3, <1>16, <2>2, <3>1
    <3>4. HasQuota(S \union {e}, key, 0)
      BY <1>3, <1>6, <2>2, <3>1, <3>3, GrantOpener
    <3> QED
      BY <1>3, <1>10, <1>16, <3>1, <3>2, <3>4 DEF x
  <2>6. CASE Subscriber(d) # Subscriber(c)
    <3>1. grants'[Subscriber(d)] = S
      BY <2>3, <2>4, <2>6, Typed
    <3>2. ASSUME x # None PROVE HasQuota(S, window'[x], Opening(x)')
      <4>1. CASE x # b
        BY <1>10, <1>16, <2>2, <3>2, <4>1
      <4>2. CASE x = b
        <5> HIDE DEF S, x
        <5>1. HasQuota(S, window[b], 1) /\ S \in SUBSET (Recent \X Nat) /\ IsFiniteSet(S)
          BY <1>3, <1>16, <2>2, <4>2
        <5>2. HasQuota(S, key, 0)
          BY <1>3, <1>6, <5>1, RestartQuota
        <5> QED
          BY <1>10, <1>16, <4>2, <5>2
      <4> QED
        BY <4>1, <4>2
    <3> QED
      BY <2>1, <3>1, <3>2
  <2> QED
    BY <2>5, <2>6
<1>18. WindowSide'
  BY <1>12, <1>13, <1>15, <1>17 DEF WindowSide
<1> QED
  BY <1>1, <1>7, <1>9, <1>18, WindowStep

\* Redis is away: the process counts a call of checkIp itself.
LEMMA FailOpenKeepsIInv ==
    ASSUME IInv, NEW r \in Requests, NEW c \in Calls, FailOpen(r, c)
    PROVE  IInv'
<1> DEFINE b == bucketOf(c)
           d == degraded[b]
           restarts == d.count = 0 \/ d.age > WINDOW
           counted == IF restarts THEN [count |-> 1, age |-> 0] ELSE [d EXCEPT !.count = @ + 1]
<1>1. /\ ~ redisUp /\ c.by = "checkIp" /\ counted.count <= MaxCount
      /\ degraded' = [degraded EXCEPT ![b] = counted]
      /\ local' = IF counted.count > DEGRADED_IP_MAX THEN local ELSE Admit(local, Subscriber(c))
      /\ req' = [req EXCEPT ![r] = Idle]
      /\ UNCHANGED <<Around, failures, window, grants>>
  BY DEF FailOpen, Done
<1>2. b # None /\ b \in Buckets /\ Subscriber(c) \in Subscribers
  BY <1>1, BucketAssumption, CallParts
<1>3. d \in Counter /\ IsFiniteSet(local[Subscriber(c)])
  BY <1>2, Typed DEF IInv, Finite
<1>4. /\ counted \in Counter
      /\ restarts => counted.count = 1 /\ counted.age = 0
      /\ ~ restarts => counted.count = d.count + 1 /\ counted.age = d.age
  <2>1. CASE restarts
    BY <1>1, <2>1, LimitsAssumption DEF Counter
  <2>2. CASE ~ restarts
    <3>1. counted = [count |-> d.count + 1, age |-> d.age]
      BY <1>3, <2>2 DEF Counter
    <3> QED
      BY <1>1, <1>3, <2>2, <3>1, LimitsAssumption DEF Counter
  <2> QED
    BY <2>1, <2>2
<1>5. Idle \in Forms /\ Idle.pc = "idle"
  BY DEF Forms, Idle
<1>6. req' \in [Requests -> Forms] /\ req'[r] = Idle /\ \A q \in Requests \ {r} : req'[q] = req[q]
  BY <1>1, <1>5, OneMoves
<1>7. faults' = faults /\ faults # 0
  BY <1>1 DEF IInv, UpAtFirst, Around
<1>8. WindowSide'
  BY <1>1, <1>5, <1>6, <1>7, WindowFrame
<1>9. AccountSide'
  BY <1>7 DEF AccountSide
<1> HIDE DEF b, d, counted, restarts
<1>10. degraded' \in [Buckets -> Counter] /\ degraded'[b] = counted
       /\ \A x \in Buckets \ {b} : degraded'[x] = degraded[x]
  BY <1>1, <1>2, <1>4, Typed
<1>11. PICK e \in Recent \X Nat : Admit(local, Subscriber(c)) = [local EXCEPT ![Subscriber(c)] = @ \union {e}]
  BY <1>2, <1>3, AdmitOne, Typed
<1>12. /\ local' \in [Subscribers -> SUBSET (Recent \X Nat)]
       /\ \A s \in Subscribers : IsFiniteSet(local'[s])
  <2>1. IsFiniteSet(local[Subscriber(c)] \union {e})
    BY <1>3, FS_AddElement
  <2> QED
    BY <1>1, <1>2, <1>11, <2>1, Typed DEF IInv, Finite
<1>13. TwoLocalQuotas'
  <2> SUFFICES ASSUME NEW x \in Calls
               PROVE  /\ x.by # "checkIp" => local'[Subscriber(x)] = {}
                      /\ x.by = "checkIp" => HasLocalQuota(local'[Subscriber(x)], degraded'[bucketOf(x)])
    BY DEF TwoLocalQuotas
  <2> DEFINE S == local[Subscriber(x)]
  <2>1. /\ x.by # "checkIp" => S = {}
        /\ x.by = "checkIp" => HasLocalQuota(S, degraded[bucketOf(x)])
    BY DEF IInv, TwoLocalQuotas
  <2>2. Subscriber(x) \in Subscribers /\ S \in SUBSET (Recent \X Nat) /\ IsFiniteSet(S)
    BY CallParts, Typed DEF IInv, Finite
  <2>3. CASE x.by # "checkIp"
    <3>1. Subscriber(x) # Subscriber(c)
      BY <1>1, <2>3 DEF Subscriber
    <3>2. local'[Subscriber(x)] = S
      BY <1>1, <1>2, <1>11, <2>2, <3>1, Typed
    <3> QED
      BY <2>1, <2>3, <3>2
  <2>4. CASE x.by = "checkIp" /\ bucketOf(x) # b
    <3>1. Subscriber(x) # Subscriber(c)
      BY <2>4, SameBucket DEF b
    <3>2. local'[Subscriber(x)] = S
      BY <1>1, <1>2, <1>11, <2>2, <3>1, Typed
    <3>3. bucketOf(x) \in Buckets
      BY <2>4, BucketAssumption, CallParts
    <3> QED
      BY <1>10, <2>1, <2>4, <3>2, <3>3
  <2>5. CASE x.by = "checkIp" /\ bucketOf(x) = b
    <3>1. \/ local'[Subscriber(x)] = S
          \/ local'[Subscriber(x)] = S \union {e} /\ counted.count <= DEGRADED_IP_MAX
      <4>1. counted.count \in Nat /\ DEGRADED_IP_MAX \in Nat
        BY <1>4, LimitsAssumption DEF Counter
      <4>2. CASE counted.count > DEGRADED_IP_MAX
        BY <1>1, <4>2
      <4>3. CASE ~ (counted.count > DEGRADED_IP_MAX)
        BY <1>1, <1>2, <1>11, <2>2, <4>1, <4>3, Typed
      <4> QED
        BY <4>2, <4>3
    <3> HIDE DEF S
    <3>2. HasLocalQuota(S, d)
      BY <2>1, <2>5 DEF d
    <3>3. HasLocalQuota(S, counted) /\ (counted.count <= DEGRADED_IP_MAX => HasLocalQuota(S \union {e}, counted))
      <4>1. CASE restarts
        <5>1. d.count = 0 \/ d.age > WINDOW
          BY <4>1 DEF restarts
        <5>2. HasLocalQuota(S \union {e}, counted)
          BY <1>3, <1>4, <2>2, <3>2, <4>1, <5>1, RestartedWindow
        <5>3. HasLocalQuota(S, counted)
          BY <1>3, <1>4, <2>2, <3>2, <4>1, <5>1, RestartedElsewhere
        <5> QED
          BY <5>2, <5>3
      <4>2. CASE ~ restarts
        <5>1. d.count # 0
          BY <4>2 DEF restarts
        <5> QED
          BY <1>3, <1>4, <2>2, <3>2, <4>2, <5>1, CountedOn
      <4> QED
        BY <4>1, <4>2
    <3> QED
      BY <1>10, <2>5, <3>1, <3>3
  <2> QED
    BY <2>3, <2>4, <2>5
<1>14. UpAtFirst' /\ Finite'
  BY <1>1, <1>7, <1>12 DEF IInv, UpAtFirst, Finite
<1> QED
  BY <1>1, <1>6, <1>8, <1>9, <1>10, <1>12, <1>13, <1>14, Typed, Parts DEF Around

-----------------------------------------------------------------------------
\* A tick.
LEMMA PassTimeKeepsIInv ==
    ASSUME IInv, PassTime
    PROVE  IInv'
<1>1. /\ window' = [b \in Buckets |-> Aged(window[b])]
      /\ failures' = [a \in Accounts |-> Aged(failures[a])]
      /\ grants' = [s \in Subscribers |-> Older(grants[s])]
      /\ local' = [s \in Subscribers |-> Older(local[s])]
      /\ UNCHANGED <<req, redisUp, faults>>
  BY DEF PassTime
<1>2. window' \in [Buckets -> Key] /\ failures' \in [Accounts -> Key]
  BY <1>1, AgedKey, Typed
<1>3. /\ grants' \in [Subscribers -> SUBSET (Recent \X Nat)]
      /\ local' \in [Subscribers -> SUBSET (Recent \X Nat)]
      /\ Finite'
  <2>1. \A s \in Subscribers :
           /\ Older(grants[s]) \in SUBSET (Recent \X Nat) /\ IsFiniteSet(Older(grants[s]))
           /\ Older(local[s]) \in SUBSET (Recent \X Nat) /\ IsFiniteSet(Older(local[s]))
    BY OlderCalls, Typed DEF IInv, Finite
  <2> QED
    BY <1>1, <2>1 DEF Finite
<1>4. /\ degraded' \in [Buckets -> Counter]
      /\ \A b \in Buckets :
            /\ degraded'[b].count = degraded[b].count
            /\ degraded'[b].age = IF degraded[b].count = 0 \/ degraded[b].age > WINDOW
                                  THEN degraded[b].age ELSE degraded[b].age + 1
  <2> DEFINE new(b) == IF degraded[b].count = 0 \/ degraded[b].age > WINDOW THEN degraded[b]
                       ELSE [degraded[b] EXCEPT !.age = @ + 1]
  <2>1. degraded' = [b \in Buckets |-> new(b)]
    BY DEF PassTime
  <2>2. ASSUME NEW b \in Buckets
        PROVE  /\ new(b) \in Counter /\ new(b).count = degraded[b].count
               /\ new(b).age = IF degraded[b].count = 0 \/ degraded[b].age > WINDOW
                               THEN degraded[b].age ELSE degraded[b].age + 1
    <3>1. degraded[b] \in Counter
      BY Typed
    <3>2. CASE degraded[b].count = 0 \/ degraded[b].age > WINDOW
      BY <3>1, <3>2
    <3>3. CASE ~ (degraded[b].count = 0 \/ degraded[b].age > WINDOW)
      <4>1. degraded[b].age + 1 \in 0..(WINDOW + 1)
        BY <3>1, <3>3, LimitsAssumption DEF Counter
      <4> QED
        BY <3>1, <3>3, <4>1 DEF Counter
    <3> QED
      BY <3>2, <3>3
  <2> HIDE DEF new
  <2> QED
    BY <2>1, <2>2
<1>5. OneOpener'
  <2>1. ASSUME NEW b \in Buckets, window[b].n >= 1, window[b].ttl = None
        PROVE  window'[b] = window[b]
    BY <1>1, <2>1, AgedKey, Typed
  <2> QED
    BY <1>1, <2>1 DEF IInv, WindowSide, OneOpener
<1>6. \A b \in Buckets :
         /\ window'[b].ttl = None => window'[b] = Missing \/ window'[b] = window[b]
         /\ window'[b].ttl \in (1..WINDOW) \union {None}
  <2> SUFFICES ASSUME NEW b \in Buckets
               PROVE  /\ window'[b].ttl = None => window'[b] = Missing \/ window'[b] = window[b]
                      /\ window'[b].ttl \in (1..WINDOW) \union {None}
    OBVIOUS
  <2>1. window[b] \in Key /\ window'[b] = Aged(window[b])
        /\ window[b].ttl \in (1..WINDOW) \union {None}
    BY <1>1, Typed DEF IInv, WindowSide, WindowsEnd
  <2>2. CASE window[b].ttl \in {1, None}
    BY <2>1, <2>2, AgedKey DEF Missing
  <2>3. CASE window[b].ttl \notin {1, None}
    BY <2>1, <2>3, AgedKey, LimitsAssumption
  <2> QED
    BY <2>2, <2>3
<1>7. faults' = 0 => \A b \in Buckets : Supervised(b)'
  BY <1>1, <1>6 DEF IInv, WindowSide, Supervised
<1>8. TwoQuotas'
  <2> SUFFICES ASSUME NEW c \in Calls
               PROVE  /\ bucketOf(c) = None => grants'[Subscriber(c)] = {}
                      /\ bucketOf(c) # None =>
                            HasQuota(grants'[Subscriber(c)], window'[bucketOf(c)], Opening(bucketOf(c))')
    BY DEF TwoQuotas
  <2> DEFINE b == bucketOf(c)
             S == grants[Subscriber(c)]
  <2>1. grants'[Subscriber(c)] = Older(S)
    BY <1>1, CallParts
  <2>2. CASE b = None
    <3>1. S = {}
      BY <2>2 DEF IInv, WindowSide, TwoQuotas
    <3> QED
      BY <2>1, <2>2, <3>1 DEF Older
  <2>3. CASE b # None
    <3>1. /\ HasQuota(S, window[b], Opening(b)) /\ window[b] \in Key
          /\ S \in SUBSET (Recent \X Nat) /\ IsFiniteSet(S) /\ Opening(b) \in {0, 1}
      BY <2>3, QuotaBefore
    <3>2. b \in Buckets /\ window'[b] = Aged(window[b]) /\ Opening(b)' = Opening(b)
      BY <1>1, <2>3, CallParts DEF Opening
    <3>3. /\ window[b].ttl \in (1..WINDOW) \union {None}
          /\ window[b].ttl # None => Opening(b) = 0
      BY <3>2 DEF IInv, WindowSide, WindowsEnd, OneOpener, Opening
    <3> HIDE DEF b, S
    <3>4. HasQuota(Older(S), Aged(window[b]), Opening(b))
      BY <3>1, <3>3, QuotaAges
    <3> QED
      BY <2>1, <2>3, <3>2, <3>4 DEF b
  <2> QED
    BY <2>2, <2>3
<1>9. WindowSide'
  BY <1>5, <1>6, <1>7, <1>8 DEF WindowSide, WindowsEnd
<1>10. AccountSide'
  <2>1. \A a \in Accounts : failures'[a].ttl = None =>
           failures'[a] = Missing \/ failures'[a] = failures[a]
    BY <1>1, AgedKey, Typed
  <2> QED
    BY <1>1, <2>1 DEF IInv, AccountSide, AccountSupervised
<1>11. TwoLocalQuotas'
  <2> SUFFICES ASSUME NEW c \in Calls
               PROVE  /\ c.by # "checkIp" => local'[Subscriber(c)] = {}
                      /\ c.by = "checkIp" => HasLocalQuota(local'[Subscriber(c)], degraded'[bucketOf(c)])
    BY DEF TwoLocalQuotas
  <2> DEFINE S == local[Subscriber(c)]
  <2>1. local'[Subscriber(c)] = Older(S)
    BY <1>1, CallParts
  <2>2. CASE c.by # "checkIp"
    <3>1. S = {}
      BY <2>2 DEF IInv, TwoLocalQuotas
    <3> QED
      BY <2>1, <2>2, <3>1 DEF Older
  <2>3. CASE c.by = "checkIp"
    <3>1. bucketOf(c) \in Buckets /\ Subscriber(c) \in Subscribers
      BY <2>3, BucketAssumption, CallParts
    <3>2. HasLocalQuota(S, degraded[bucketOf(c)]) /\ S \in SUBSET (Recent \X Nat) /\ IsFiniteSet(S)
      BY <2>3, <3>1, Typed DEF IInv, TwoLocalQuotas, Finite
    <3>3. degraded[bucketOf(c)] \in Counter /\ degraded'[bucketOf(c)] \in Counter
      BY <1>4, <3>1, Typed
    <3> HIDE DEF S
    <3>4. HasLocalQuota(Older(S), degraded'[bucketOf(c)])
      BY <1>4, <3>1, <3>2, <3>3, LocalQuotaAges
    <3> QED
      BY <2>1, <2>3, <3>4
  <2> QED
    BY <2>2, <2>3
<1>12. UpAtFirst'
  BY <1>1 DEF IInv, UpAtFirst
<1> QED
  BY <1>1, <1>2, <1>3, <1>4, <1>9, <1>10, <1>11, <1>12, Typed, Parts

\* Redis goes away and comes back.
LEMMA OutageKeepsIInv ==
    ASSUME IInv, Outage \/ Recover
    PROVE  IInv'
<1>1. /\ UNCHANGED <<req, window, grants, degraded, local, failures>>
      /\ redisUp' \in BOOLEAN /\ faults' \in 0..MaxFaults
      /\ faults' = 0 => redisUp' /\ faults = 0
  <2>1. faults \in 0..MaxFaults
    BY Typed
  <2>2. CASE Outage
    <3>1. faults < MaxFaults /\ faults' = faults + 1
      BY <2>2 DEF Outage
    <3>2. faults' \in 0..MaxFaults /\ faults' # 0
      BY <2>1, <3>1, LimitsAssumption
    <3>3. redisUp' \in BOOLEAN /\ UNCHANGED <<req, window, grants, degraded, local, failures>>
      BY <2>2 DEF Outage, QuotaVars
    <3> QED
      BY <3>2, <3>3
  <2>3. CASE Recover
    BY <2>1, <2>3 DEF Recover, QuotaVars
  <2> QED
    BY <2>2, <2>3
<1>2. WindowSide'
  BY <1>1, WindowFrame
<1>3. AccountSide'
  BY <1>1, AccountFrame
<1>4. TwoLocalQuotas'
  BY <1>1, LocalFrame
<1>5. UpAtFirst' /\ Finite'
  BY <1>1 DEF IInv, UpAtFirst, Finite
<1> QED
  BY <1>1, <1>2, <1>3, <1>4, <1>5, Typed, Parts

\* The process dies and starts again.
LEMMA CrashKeepsIInv ==
    ASSUME IInv, Crash
    PROVE  IInv'
<1>1. /\ req' = [r \in Requests |-> Idle]
      /\ degraded' = [b \in Buckets |-> Fresh]
      /\ local' = [s \in Subscribers |-> {}]
      /\ UNCHANGED <<redisUp, window, grants, failures>>
      /\ faults' \in 0..MaxFaults /\ faults' # 0
  <2>1. faults \in 0..MaxFaults /\ faults < MaxFaults /\ faults' = faults + 1
    BY Typed DEF Crash
  <2>2. faults' \in 0..MaxFaults /\ faults' # 0
    BY <2>1, LimitsAssumption
  <2> QED
    BY <2>2 DEF Crash
<1>2. Idle \in Forms /\ Idle.pc = "idle"
  BY DEF Forms, Idle
<1>3. Fresh \in Counter
  BY LimitsAssumption DEF Fresh, Counter
<1>4. /\ req' \in [Requests -> Forms] /\ degraded' \in [Buckets -> Counter]
      /\ local' \in [Subscribers -> SUBSET (Recent \X Nat)]
  BY <1>1, <1>2, <1>3
<1>5. \A r \in Requests : req'[r].pc = "idle"
  BY <1>1, <1>2
<1>6. WindowSide'
  BY <1>1, <1>5, WindowFrame
<1>7. AccountSide'
  BY <1>1 DEF AccountSide
<1>8. TwoLocalQuotas'
  <2> SUFFICES ASSUME NEW c \in Calls
               PROVE  /\ local'[Subscriber(c)] = {}
                      /\ c.by = "checkIp" => HasLocalQuota(local'[Subscriber(c)], degraded'[bucketOf(c)])
    BY DEF TwoLocalQuotas
  <2>1. local'[Subscriber(c)] = {}
    BY <1>1, CallParts
  <2>2. c.by = "checkIp" => degraded'[bucketOf(c)] \in Counter
    BY <1>4, BucketAssumption, CallParts
  <2> QED
    BY <2>1, <2>2, EmptyLocalQuota
<1>9. Finite'
  <2>1. \A s \in Subscribers : local'[s] = {}
    BY <1>1
  <2> QED
    BY <1>1, <2>1, FS_EmptySet DEF IInv, Finite
<1>10. UpAtFirst'
  BY <1>1 DEF UpAtFirst
<1> QED
  BY <1>1, <1>4, <1>6, <1>7, <1>8, <1>9, <1>10, Typed, Parts

\* At the start nothing is counted.
LEMMA InitIInv == Init => IInv
<1> SUFFICES ASSUME Init PROVE IInv
  OBVIOUS
<1>1. Missing \in Key /\ Missing.n = 0 /\ Missing.ttl = None /\ Idle \in Forms /\ Idle.pc = "idle"
      /\ Fresh \in Counter
  BY LimitsAssumption DEF Missing, Key, Forms, Idle, Fresh, Counter
<1>2. /\ redisUp = TRUE /\ faults = 0
      /\ \A b \in Buckets : window[b] = Missing /\ degraded[b] = Fresh
      /\ \A a \in Accounts : failures[a] = Missing
      /\ \A r \in Requests : req[r] = Idle
      /\ \A s \in Subscribers : grants[s] = {} /\ local[s] = {}
  BY DEF Init
<1>3. TypeOK
  <2>1. 0 \in 0..MaxFaults
    BY LimitsAssumption
  <2> QED
    BY <1>1, <2>1 DEF Init, TypeOK, Forms, Counting, Verifying, Counter
<1>4. UpAtFirst /\ Finite
  BY <1>2, FS_EmptySet DEF UpAtFirst, Finite
<1>5. \A r \in Requests, b \in Buckets : ~ Opens(req[r], b)
  BY <1>1, <1>2 DEF Opens
<1>6. TwoQuotas
  <2> SUFFICES ASSUME NEW c \in Calls
               PROVE  /\ grants[Subscriber(c)] = {}
                      /\ bucketOf(c) # None =>
                            HasQuota(grants[Subscriber(c)], window[bucketOf(c)], Opening(bucketOf(c)))
    BY DEF TwoQuotas
  <2>1. grants[Subscriber(c)] = {}
    BY <1>2, CallParts
  <2>2. bucketOf(c) # None => window[bucketOf(c)] = Missing /\ Opening(bucketOf(c)) = 0
    BY <1>2, <1>5, CallParts DEF Opening
  <2> QED
    BY <1>1, <2>1, <2>2, EmptyQuota
<1>7. WindowSide
  BY <1>1, <1>2, <1>5, <1>6 DEF WindowSide, OneOpener, Counted, WindowsEnd, Supervised
<1>8. AccountSide
  BY <1>2 DEF AccountSide, AccountSupervised
<1>9. TwoLocalQuotas
  <2> SUFFICES ASSUME NEW c \in Calls
               PROVE  /\ local[Subscriber(c)] = {}
                      /\ c.by = "checkIp" => HasLocalQuota(local[Subscriber(c)], degraded[bucketOf(c)])
    BY DEF TwoLocalQuotas
  <2>1. local[Subscriber(c)] = {} /\ (c.by = "checkIp" => degraded[bucketOf(c)] \in Counter)
    BY <1>1, <1>2, BucketAssumption, CallParts
  <2> QED
    BY <2>1, EmptyLocalQuota
<1> QED
  BY <1>3, <1>4, <1>7, <1>8, <1>9 DEF IInv

LEMMA StutterKeepsIInv ==
    ASSUME IInv, UNCHANGED vars
    PROVE  IInv'
<1>1. UNCHANGED <<window, grants, degraded, local, failures, req, redisUp, faults>>
  BY DEF vars
<1>2. WindowSide'
  BY <1>1, WindowFrame
<1>3. AccountSide'
  BY <1>1, AccountFrame
<1>4. TwoLocalQuotas'
  BY <1>1, LocalFrame
<1>5. UpAtFirst' /\ Finite'
  BY <1>1 DEF IInv, UpAtFirst, Finite
<1> QED
  BY <1>1, <1>2, <1>3, <1>4, <1>5, Typed, Parts

-----------------------------------------------------------------------------
\* The inductive invariant holds of every reachable state.
THEOREM Invariant == Spec => []IInv
<1>1. IInv /\ [Next]_vars => IInv'
  <2> SUFFICES ASSUME IInv, [Next]_vars PROVE IInv'
    OBVIOUS
  <2>1. CASE UNCHANGED vars
    BY <2>1, StutterKeepsIInv
  <2>2. ASSUME NEW r \in Requests, Step(r) PROVE IInv'
    BY <2>2, StartWindowKeepsIInv, ReadersKeepIInv, RecordFailureKeepsIInv,
       ExpireFailuresKeepsIInv, ClearFailuresKeepsIInv DEF Step
  <2>3. ASSUME NEW r \in Requests, NEW c \in Calls, Count(r, c) \/ FailOpen(r, c) PROVE IInv'
    BY <2>3, CountKeepsIInv, FailOpenKeepsIInv
  <2>4. ASSUME NEW r \in Requests, NEW a \in Accounts, CheckAccount(r, a) PROVE IInv'
    BY <2>4, CheckAccountKeepsIInv
  <2>5. CASE PassTime \/ Outage \/ Recover \/ Crash
    BY <2>5, PassTimeKeepsIInv, OutageKeepsIInv, CrashKeepsIInv
  <2> QED
    BY <2>1, <2>2, <2>3, <2>4, <2>5 DEF Next
<1> QED
  BY InitIInv, <1>1, PTL DEF Spec

\* OrgRateLimitGuard.consume and checkIp: in any span of one window Redis admits
\* at most two quotas of a subscriber, however its address is written and
\* wherever processes and connections are lost between INCR and EXPIRE.
THEOREM BurstsBounded == Spec => []BurstBounded
<1>1. IInv => BurstBounded
  <2> SUFFICES ASSUME IInv, NEW s \in Subscribers PROVE Cardinality(grants[s]) <= 2 * LIMIT
    BY DEF BurstBounded, IInv
  <2>1. PICK c \in Calls : s = Subscriber(c)
    BY DEF Subscribers
  <2>2. CASE bucketOf(c) = None
    <3>1. grants[s] = {}
      BY <2>1, <2>2 DEF IInv, WindowSide, TwoQuotas
    <3> QED
      BY <3>1, FS_EmptySet, LimitsAssumption
  <2>3. CASE bucketOf(c) # None
    BY <2>1, <2>3, QuotaBefore, QuotaBounds
  <2> QED
    BY <2>2, <2>3
<1> QED
  BY Invariant, <1>1, PTL

\* failOpenIp: while Redis is away a process admits at most two local quotas
\* of a subscriber in any span of one window.
THEOREM OutagesBounded == Spec => []OutageBounded
<1>1. IInv => OutageBounded
  <2> SUFFICES ASSUME IInv, NEW s \in Subscribers PROVE Cardinality(local[s]) <= 2 * DEGRADED_IP_MAX
    BY DEF OutageBounded
  <2>1. PICK c \in Calls : s = Subscriber(c)
    BY DEF Subscribers
  <2>2. CASE c.by # "checkIp"
    <3>1. local[s] = {}
      BY <2>1, <2>2 DEF IInv, TwoLocalQuotas
    <3> QED
      BY <3>1, FS_EmptySet, LimitsAssumption
  <2>3. CASE c.by = "checkIp"
    <3>1. HasLocalQuota(local[s], degraded[bucketOf(c)]) /\ IsFiniteSet(local[s])
      BY <2>1, <2>3 DEF IInv, TwoLocalQuotas, Finite
    <3>2. degraded[bucketOf(c)] \in Counter
      BY <2>3, BucketAssumption, CallParts, Typed
    <3> QED
      BY <3>1, <3>2, LocalQuotaBounds
  <2> QED
    BY <2>2, <2>3
<1> QED
  BY Invariant, <1>1, PTL

\* INCR and EXPIRE, of a window and of an account's failures: until a process
\* or a connection is lost, every key without expiry has a request about to set it.
THEOREM StuckByFaultOnly == Spec => []StuckOnlyByFault
<1>1. IInv => StuckOnlyByFault
  BY DEF IInv, WindowSide, AccountSide, Supervised, AccountSupervised, Opens, Expires,
         StuckOnlyByFault
<1> QED
  BY Invariant, <1>1, PTL

-----------------------------------------------------------------------------
\* How many EXPIREs are under way: between none and one per request.
LEMMA ExpiringCount ==
    ASSUME IsFiniteSet(Requests), NEW a
    PROVE  /\ IsFiniteSet(Expiring(a)) /\ Cardinality(Expiring(a)) \in Nat
           /\ Cardinality(Requests) \in Nat
           /\ Cardinality(Expiring(a)) <= Cardinality(Requests)
<1>1. Expiring(a) \in SUBSET Requests
  BY DEF Expiring
<1> QED
  BY <1>1, FS_Subset, FS_CardinalityType

\* A step that leaves the key of an account missing or with an expiry, or that
\* counts no failure and lets a fault go by for every EXPIRE it loses.
Lossless(a) ==
    failures'[a].ttl = None =>
        \/ failures'[a].n = 0
        \/ /\ failures'[a].n <= failures[a].n /\ failures[a].ttl = None
           /\ \/ ~ redisUp
              \/ faults' > faults
              \/ redisUp' /\ Expiring(a) \subseteq Expiring(a)'

\* Every fault brings the bound one more Cardinality(Requests).
LEMMA Products ==
    ASSUME NEW f \in Nat, NEW g \in Nat, NEW R \in Nat, g >= f
    PROVE  /\ f * R \in Nat /\ g * R \in Nat /\ g * R >= f * R
           /\ g > f => g * R >= f * R + R
<1>1. PICK k \in Nat : g = f + k
  <2>1. g - f \in Nat /\ g = f + (g - f)
    OBVIOUS
  <2> QED
    BY <2>1
<1>2. f * R \in Nat /\ k * R \in Nat
  OBVIOUS
<1>3. (f + k) * R = f * R + k * R
  OBVIOUS
<1>4. ASSUME k # 0 PROVE k * R >= R
  <2>1. PICK j \in Nat : k = j + 1
    <3>1. k - 1 \in Nat /\ k = (k - 1) + 1
      BY <1>4
    <3> QED
      BY <3>1
  <2>2. (j + 1) * R = j * R + R /\ j * R \in Nat
    OBVIOUS
  <2> QED
    BY <2>1, <2>2
<1> QED
  BY <1>1, <1>2, <1>3, <1>4

LEMMA BoundMoves ==
    ASSUME NEW n \in Nat, NEW m \in Nat, NEW f \in Nat, NEW g \in Nat, NEW R \in Nat,
           NEW before \in 0..R, NEW now \in Nat, g >= f,
           n <= f * R + before, m <= n,
           before = 0 \/ g > f \/ before <= now
    PROVE  m <= g * R + now
<1>1. /\ f * R \in Nat /\ g * R \in Nat /\ g * R >= f * R
      /\ g > f => g * R >= f * R + R
  BY Products
<1> DEFINE p == f * R
           q == g * R
<1>2. p \in Nat /\ q \in Nat /\ q >= p /\ (g > f => q >= p + R) /\ n <= p + before
  BY <1>1
<1> HIDE DEF p, q
<1>3. m <= q + now
  BY <1>2
<1> QED
  BY <1>3 DEF q

LEMMA LosslessStep ==
    ASSUME IsFiniteSet(Requests), IInv, IInv', NEW a \in Accounts, Lossless(a),
           faults' >= faults, FewLost, failures'[a].ttl = None
    PROVE  failures'[a].n <= faults' * Cardinality(Requests)
                             + (IF redisUp' THEN Cardinality(Expiring(a)') ELSE 0)
<1> DEFINE R == Cardinality(Requests)
           E == Cardinality(Expiring(a))
           F == Cardinality(Expiring(a)')
           before == IF redisUp THEN E ELSE 0
           now == IF redisUp' THEN F ELSE 0
<1>1. R \in Nat /\ E \in Nat /\ E <= R
  BY ExpiringCount
<1>2. Expiring(a)' \in SUBSET Requests
  BY DEF Expiring
<1>3. IsFiniteSet(Expiring(a)') /\ F \in Nat
  BY <1>2, FS_Subset, FS_CardinalityType
<1>4. failures[a].n \in Nat /\ failures'[a].n \in Nat /\ faults \in Nat /\ faults' \in Nat
  <2>1. failures[a] \in Key /\ failures'[a] \in Key /\ faults \in Nat /\ faults' \in Nat
    BY LimitsAssumption DEF IInv, TypeOK
  <2> QED
    BY <2>1, KeyParts
<1>5. Expiring(a) \subseteq Expiring(a)' => E <= F
  BY <1>3, FS_Subset
<1>6. now \in Nat /\ before \in 0..R
  BY <1>1, <1>3
<1>7. failures[a].ttl = None => failures[a].n <= faults * R + before
  BY DEF FewLost
<1>8. CASE failures'[a].n = 0
  <2> HIDE DEF R, now
  <2>1. faults' * R \in Nat
    BY <1>1, <1>4
  <2>2. 0 <= faults' * R + now
    BY <2>1, <1>6
  <2> QED
    BY <1>8, <2>2 DEF R, now
<1>9. CASE failures'[a].n # 0
  <2>1. failures'[a].n <= failures[a].n /\ failures[a].ttl = None
    BY <1>9 DEF Lossless
  <2>2. before = 0 \/ faults' > faults \/ before <= now
    <3>1. CASE ~ redisUp
      BY <3>1
    <3>2. CASE faults' > faults
      BY <3>2
    <3>3. CASE redisUp' /\ Expiring(a) \subseteq Expiring(a)'
      <4>1. now = F /\ E <= F
        BY <1>5, <3>3
      <4>2. before <= E
        BY <1>1
      <4> HIDE DEF R, E, F, before, now
      <4> QED
        BY <1>1, <1>3, <1>6, <4>1, <4>2
    <3> QED
      BY <1>9, <3>1, <3>2, <3>3 DEF Lossless
  <2> HIDE DEF R, E, F, before, now
  <2>3. failures'[a].n <= faults' * R + now
    <3>1. failures[a].n <= faults * R + before
      BY <1>7, <2>1
    <3> QED
      BY <1>1, <1>4, <1>6, <2>1, <2>2, <3>1, BoundMoves
  <2> QED
    BY <2>3 DEF R, F, now
<1> QED
  BY <1>8, <1>9

\* A step that leaves the account's key and its EXPIREs alone.
LEMMA KeyStands ==
    ASSUME IInv, NEW a \in Accounts, failures'[a] = failures[a], redisUp' = redisUp,
           ~ redisUp \/ \A q \in Requests : Expires(req[q], a) => Expires(req'[q], a)
    PROVE  Lossless(a)
<1>1. failures[a].n <= failures[a].n
  <2>1. failures[a].n \in 0..MaxCount
    BY Typed, KeyParts
  <2> QED
    BY <2>1, LimitsAssumption
<1>2. redisUp => Expiring(a) \subseteq Expiring(a)'
  BY DEF Expiring
<1> QED
  BY <1>1, <1>2 DEF Lossless

\* The steps of one request that count no failure of account a.
LEMMA RequestLossless ==
    ASSUME IInv, NEW r \in Requests, NEW a \in Accounts,
           ~ (RecordFailure(r) /\ redisUp /\ req[r].acct = a),
           \/ Step(r)
           \/ \E c \in Calls : Count(r, c) \/ FailOpen(r, c)
           \/ \E b \in Accounts : CheckAccount(r, b)
    PROVE  Lossless(a) /\ faults' = faults /\ redisUp' = redisUp
<1>1. faults' = faults /\ redisUp' = redisUp
  BY DEF Step, StartWindow, RefuseOverLimit, FailOpenGuard, RecordFailure, ExpireFailures,
         ClearFailures, Count, FailOpen, CheckAccount, Around
<1> SUFFICES Lossless(a)
  BY <1>1
<1>2. \A q \in Requests \ {r} : req'[q] = req[q]
  <2>1. \/ req' = req
        \/ \E new : req' = [req EXCEPT ![r] = new]
    BY DEF Step, StartWindow, RefuseOverLimit, FailOpenGuard, RecordFailure, ExpireFailures,
           ClearFailures, Count, FailOpen, CheckAccount, Done
  <2> QED
    BY <2>1, Typed
<1>3. failures \in [Accounts -> Key] /\ failures[a] \in Key
  BY Typed
<1>4. req[r].pc # "acctExpire" /\ failures'[a] = failures[a] => Lossless(a)
  <2> SUFFICES ASSUME req[r].pc # "acctExpire", failures'[a] = failures[a] PROVE Lossless(a)
    OBVIOUS
  <2>1. \A q \in Requests : Expires(req[q], a) => Expires(req'[q], a)
    BY <1>2 DEF Expires
  <2> QED
    BY <1>1, <2>1, KeyStands
<1>5. CASE StartWindow(r) \/ RefuseOverLimit(r) \/ FailOpenGuard(r)
  <2>1. failures' = failures /\ req[r].pc # "acctExpire"
    BY <1>5 DEF StartWindow, RefuseOverLimit, FailOpenGuard
  <2> QED
    BY <1>4, <2>1
<1>6. CASE RecordFailure(r)
  <2>1. ~ redisUp \/ req[r].acct # a
    BY <1>6
  <2>2. failures'[a] = failures[a] /\ req[r].pc = "verify"
    BY <1>3, <1>6, <2>1 DEF RecordFailure
  <2> QED
    BY <1>4, <2>2
<1>7. CASE ExpireFailures(r)
  <2>1. CASE ~ redisUp
    <3>1. failures' = failures
      BY <1>7, <2>1 DEF ExpireFailures
    <3> QED
      BY <1>1, <2>1, <3>1, KeyStands
  <2>2. CASE redisUp /\ req[r].acct # a
    <3>1. failures'[a] = failures[a]
      BY <1>3, <1>7, <2>2 DEF ExpireFailures
    <3> QED
      BY <1>1, <1>2, <2>2, <3>1, KeyStands DEF Expires
  <2>3. CASE redisUp /\ req[r].acct = a
    <3>1. failures'[a] = Expire(failures[a], ACCT_COUNTER_TTL)
      BY <1>3, <1>7, <2>3 DEF ExpireFailures
    <3>2. ACCT_COUNTER_TTL \in Nat \ {0} /\ ACCT_COUNTER_TTL # None
      BY LimitsAssumption
    <3>3. CASE failures[a] = Missing
      BY <1>3, <3>1, <3>2, <3>3, ExpireKey DEF Lossless, Missing
    <3>4. CASE failures[a] # Missing
      BY <1>3, <3>1, <3>2, <3>4, ExpireKey DEF Lossless
    <3> QED
      BY <3>3, <3>4
  <2> QED
    BY <2>1, <2>2, <2>3
<1>8. CASE ClearFailures(r)
  <2>1. req[r].pc = "verify"
    BY <1>8 DEF ClearFailures
  <2>2. failures'[a] = failures[a] \/ failures'[a] = Missing
    BY <1>3, <1>8 DEF ClearFailures
  <2> QED
    BY <1>4, <2>1, <2>2 DEF Lossless, Missing
<1>9. CASE (\E c \in Calls : Count(r, c)) \/ \E b \in Accounts : CheckAccount(r, b)
  <2>1. failures' = failures /\ req[r] = Idle
    BY <1>9 DEF Count, CheckAccount
  <2> QED
    BY <1>4, <2>1 DEF Idle
<1>10. CASE \E c \in Calls : FailOpen(r, c)
  <2>1. failures' = failures /\ (req[r] = Idle \/ req[r].pc \in {"expire", "ttl"})
    BY <1>10 DEF FailOpen
  <2> QED
    BY <1>4, <2>1 DEF Idle
<1> QED
  BY <1>1, <1>5, <1>6, <1>7, <1>8, <1>9, <1>10 DEF Step

LEMMA AroundLossless ==
    ASSUME IInv, NEW a \in Accounts, PassTime \/ Outage \/ Recover \/ Crash \/ UNCHANGED vars
    PROVE  Lossless(a) /\ faults' >= faults
<1>1. faults \in Nat /\ failures \in [Accounts -> Key] /\ failures[a] \in Key
  BY Typed, LimitsAssumption
<1>2. faults' = faults \/ faults' = faults + 1
  BY DEF PassTime, Outage, Recover, Crash, vars
<1> SUFFICES Lossless(a)
  BY <1>1, <1>2
<1>3. failures[a].n <= failures[a].n
  BY <1>1, KeyParts, LimitsAssumption
<1>4. CASE PassTime
  <2>1. failures'[a] = Aged(failures[a]) /\ redisUp' = redisUp /\ req' = req
    BY <1>4 DEF PassTime
  <2>2. CASE failures[a].ttl = None
    BY <1>1, <2>1, <2>2, AgedKey, KeyStands
  <2>3. CASE failures[a].ttl = 1
    BY <1>1, <2>1, <2>3, AgedKey DEF Lossless, Missing
  <2>4. CASE failures[a].ttl \notin {1, None}
    <3>1. failures'[a].ttl = failures[a].ttl - 1 /\ failures[a].ttl \in Nat \ {0}
      BY <1>1, <2>1, <2>4, AgedKey, KeyParts
    <3>2. failures'[a].ttl # None
      BY <3>1, LimitsAssumption
    <3> QED
      BY <3>2 DEF Lossless
  <2> QED
    BY <2>2, <2>3, <2>4
<1>5. CASE Outage \/ Crash
  <2>1. failures' = failures /\ faults' > faults
    BY <1>1, <1>5 DEF Outage, Crash
  <2> QED
    BY <1>3, <2>1 DEF Lossless
<1>6. CASE Recover
  <2>1. failures' = failures /\ ~ redisUp
    BY <1>6 DEF Recover
  <2> QED
    BY <1>3, <2>1 DEF Lossless
<1>7. CASE UNCHANGED vars
  <2>1. failures' = failures /\ redisUp' = redisUp /\ req' = req
    BY <1>7 DEF vars
  <2> QED
    BY <2>1, KeyStands
<1> QED
  BY <1>4, <1>5, <1>6, <1>7

\* A failure counted is one more EXPIRE under way.
LEMMA FailureCounted ==
    ASSUME IsFiniteSet(Requests), IInv, FewLost, NEW r \in Requests, RecordFailure(r), redisUp,
           NEW a \in Accounts, req[r].acct = a, failures'[a].ttl = None
    PROVE  failures'[a].n <= faults' * Cardinality(Requests)
                             + (IF redisUp' THEN Cardinality(Expiring(a)') ELSE 0)
<1>1. /\ failures' = [failures EXCEPT ![a] = Incr(@)] /\ failures[a].n < MaxCount
      /\ req' = [req EXCEPT ![r].pc = "acctExpire"] /\ req[r].pc = "verify"
      /\ faults' = faults /\ redisUp' = redisUp
  BY DEF RecordFailure, Around
<1>2. failures[a] \in Key /\ failures'[a] = Incr(failures[a]) /\ faults \in Nat
  BY <1>1, Typed, LimitsAssumption
<1>3. failures'[a].n = failures[a].n + 1 /\ failures[a].ttl = None /\ failures[a].n \in Nat
  BY <1>1, <1>2, IncrKey, KeyParts
<1>4. Expires(req'[r], a) /\ \A q \in Requests \ {r} : req'[q] = req[q]
  <2>1. req[r] \in Verifying /\ req \in [Requests -> Forms]
    BY <1>1, Typed, FormByPlace
  <2> QED
    BY <1>1, <2>1 DEF Expires, Verifying
<1>5. r \notin Expiring(a) /\ Expiring(a)' = Expiring(a) \union {r}
  <2>1. ~ Expires(req[r], a)
    BY <1>1 DEF Expires
  <2> QED
    BY <1>4, <2>1 DEF Expiring
<1>6. Cardinality(Expiring(a)') = Cardinality(Expiring(a)) + 1
  BY <1>5, ExpiringCount, FS_AddElement
<1>7. failures[a].n <= faults * Cardinality(Requests) + Cardinality(Expiring(a))
  BY <1>3 DEF FewLost
<1>8. failures'[a].n <= faults * Cardinality(Requests) + Cardinality(Expiring(a)')
  <2> DEFINE p == faults * Cardinality(Requests)
             e == Cardinality(Expiring(a))
             f == Cardinality(Expiring(a)')
  <2>1. p \in Nat /\ e \in Nat /\ f = e + 1 /\ failures[a].n <= p + e
    BY <1>2, <1>6, <1>7, ExpiringCount
  <2> HIDE DEF p, e, f
  <2>2. failures'[a].n <= p + f
    BY <1>3, <2>1
  <2> QED
    BY <2>2 DEF p, f
<1> QED
  BY <1>1, <1>8

\* BACKOFF and EXPIRE: as long as the EXPIREs that faults can lose are fewer than
\* the failures it takes to be backed off, a back-off always has an end.
THEOREM BackoffIsNoLockout ==
    ASSUME IsFiniteSet(Requests), MaxFaults * Cardinality(Requests) < BACKOFF_THRESHOLD
    PROVE  Spec => []BackoffEnds
<1>1. Init => FewLost
  <2> SUFFICES ASSUME Init, NEW a \in Accounts
               PROVE  failures[a].n <= faults * Cardinality(Requests)
                                       + (IF redisUp THEN Cardinality(Expiring(a)) ELSE 0)
    BY DEF FewLost
  <2>1. failures[a].n = 0 /\ faults = 0 /\ redisUp
    BY DEF Init, Missing
  <2>2. Cardinality(Requests) \in Nat /\ Cardinality(Expiring(a)) \in Nat
    BY ExpiringCount
  <2>3. 0 * Cardinality(Requests) = 0
    BY <2>2
  <2> QED
    BY <2>1, <2>2, <2>3
<1>2. IInv /\ IInv' /\ FewLost /\ [Next]_vars => FewLost'
  <2> SUFFICES ASSUME IInv, IInv', FewLost, [Next]_vars, NEW a \in Accounts, failures'[a].ttl = None
               PROVE  failures'[a].n <= faults' * Cardinality(Requests)
                                        + (IF redisUp' THEN Cardinality(Expiring(a)') ELSE 0)
    BY DEF FewLost
  <2>1. CASE PassTime \/ Outage \/ Recover \/ Crash \/ UNCHANGED vars
    BY <2>1, AroundLossless, LosslessStep
  <2>2. ASSUME NEW r \in Requests,
               \/ Step(r)
               \/ \E c \in Calls : Count(r, c) \/ FailOpen(r, c)
               \/ \E b \in Accounts : CheckAccount(r, b)
        PROVE  failures'[a].n <= faults' * Cardinality(Requests)
                                 + (IF redisUp' THEN Cardinality(Expiring(a)') ELSE 0)
    <3>1. CASE RecordFailure(r) /\ redisUp /\ req[r].acct = a
      BY <3>1, FailureCounted
    <3>2. CASE ~ (RecordFailure(r) /\ redisUp /\ req[r].acct = a)
      <4>1. Lossless(a) /\ faults' = faults
        BY <2>2, <3>2, RequestLossless
      <4>2. faults' >= faults
        BY <4>1, Typed, LimitsAssumption
      <4> QED
        BY <4>1, <4>2, LosslessStep
    <3> QED
      BY <3>1, <3>2
  <2> QED
    BY <2>1, <2>2 DEF Next
<1>3. IInv /\ FewLost => BackoffEnds
  <2> SUFFICES ASSUME IInv, FewLost, NEW a \in Accounts, backoffSeconds(failures[a].n) > 0,
                      failures[a].ttl = None, \A r \in Requests : ~ Expires(req[r], a)
               PROVE  FALSE
    BY DEF BackoffEnds, Expires
  <2>1. failures[a].n \in Nat /\ faults \in Nat /\ faults <= MaxFaults
    BY Typed, KeyParts, LimitsAssumption
  <2>2. failures[a].n >= BACKOFF_THRESHOLD
    BY <2>1, LimitsAssumption DEF backoffSeconds
  <2>3. Expiring(a) = {}
    BY DEF Expiring
  <2>4. Cardinality(Expiring(a)) = 0
    BY <2>3, FS_EmptySet
  <2>5. failures[a].n <= faults * Cardinality(Requests) + 0
    BY <2>4 DEF FewLost
  <2> DEFINE R == Cardinality(Requests)
             p == faults * R
             q == MaxFaults * R
  <2>6. R \in Nat
    BY ExpiringCount
  <2> HIDE DEF R
  <2>7. p \in Nat /\ q \in Nat /\ q >= p
    BY <2>1, <2>6, LimitsAssumption, Products
  <2>8. failures[a].n <= p + 0 /\ q < BACKOFF_THRESHOLD
    BY <2>5 DEF R
  <2> HIDE DEF p, q
  <2> QED
    BY <2>1, <2>2, <2>7, <2>8, LimitsAssumption
<1> QED
  BY <1>1, <1>2, <1>3, Invariant, PTL DEF Spec
=============================================================================
