---------------------------- MODULE MemLS_proofs ----------------------------
(***************************************************************************)
(* Proofs about the in-memory lock system, for every tree of names, every  *)
(* number of tokens and every set of durations and instants.               *)
(*                                                                         *)
(* Good(s) is the inductive invariant of the lock state; each helper of    *)
(* the methods preserves it (one lemma per helper), and the actions are    *)
(* compositions of the helpers.                                            *)
(***************************************************************************)
EXTENDS MemLS, FiniteSetTheorems, TLAPS

Good(s) ==
    /\ s \in LockState
    /\ TokenIndexed(s)
    /\ RefCounted(s)
    /\ ExpiryIndexed(s)
    /\ ConflictFree(s)

USE NameAssumption

\* The set whose cardinality a reference count is
Below(s, n) == {m \in Locked(s) : n \in Walk[m]}

\* Sets of names are finite, so their cardinalities behave.
LEMMA FiniteNames == \A S \in SUBSET Name : IsFiniteSet(S)
  BY FS_Subset

\* A name is in byName exactly when something at or below it is locked.
LEMMA InByNameIsBelow ==
  ASSUME NEW s, Good(s), NEW n \in Name
  PROVE  InByName(s, n) <=> Below(s, n) # {}
<1>1. Below(s, n) \in SUBSET Name
  BY DEF Below, Locked
<1>2. Cardinality(Below(s, n)) \in Nat /\ (Cardinality(Below(s, n)) = 0 <=> Below(s, n) = {})
  BY <1>1, FiniteNames, FS_CardinalityType, FS_EmptySet
<1>3. s.refCount[n] = Cardinality(Below(s, n))
  BY DEF Good, RefCounted, Below
<1>4. QED
  BY <1>2, <1>3 DEF InByName

\* A new lock system is consistent.
LEMMA NewGood == Good(NewMemLS)
<1>1. NewMemLS \in LockState
  BY BoundAssumption DEF NewMemLS, LockState, Token
<1>2. Locked(NewMemLS) = {}
  BY DEF Locked, NewMemLS
<1>3. RefCounted(NewMemLS)
  <2>1. \A n \in Name : {m \in Locked(NewMemLS) : n \in Walk[m]} = {}
    BY <1>2
  <2>2. \A n \in Name : NewMemLS.refCount[n] = 0
    BY DEF NewMemLS
  <2>3. QED
    BY <2>1, <2>2, FS_EmptySet DEF RefCounted
<1>4. TokenIndexed(NewMemLS) /\ ExpiryIndexed(NewMemLS) /\ ConflictFree(NewMemLS)
  <2>1. \A t \in Token : NewMemLS.byToken[t] = NoNode
    BY DEF NewMemLS
  <2>2. NewMemLS.byExpiry = {}
    BY DEF NewMemLS
  <2>3. QED
    BY <1>2, <2>1, <2>2 DEF TokenIndexed, ExpiryIndexed, ConflictFree
<1>5. QED
  BY <1>1, <1>3, <1>4 DEF Good

\* Removing locks drops exactly those locks and disturbs no index.
LEMMA RemovedGood ==
  ASSUME NEW s, Good(s), NEW gone \in SUBSET Locked(s)
  PROVE  /\ Good(Removed(s, gone))
         /\ Locked(Removed(s, gone)) = Locked(s) \ gone
         /\ \A n \in Name \ gone : Removed(s, gone).lock[n] = s.lock[n]
         /\ Removed(s, gone).gen = s.gen
<1> DEFINE r == Removed(s, gone)
<1>0. gone \subseteq Name /\ Locked(s) \subseteq Name
  BY DEF Locked
<1>1. /\ r.lock = [n \in Name |-> IF n \in gone THEN NoLock ELSE s.lock[n]]
      /\ r.refCount = [n \in Name |->
            s.refCount[n] - Cardinality({m \in gone : n \in Walk[m]})]
      /\ r.byToken = [t \in Token |-> IF \E n \in gone : s.lock[n].token = t
                                      THEN NoNode ELSE s.byToken[t]]
      /\ r.byExpiry = s.byExpiry \ gone
      /\ r.gen = s.gen
  BY DEF Removed
<1>2. Locked(r) = Locked(s) \ gone
  BY <1>0, <1>1 DEF Locked
<1>3. RefCounted(r)
  <2> SUFFICES ASSUME NEW n \in Name
               PROVE  r.refCount[n] = Cardinality(Below(r, n))
    BY DEF RefCounted, Below
  <2> DEFINE A == Below(s, n)
             B == {m \in gone : n \in Walk[m]}
  <2>1. Below(r, n) = A \ B /\ A \cap B = B /\ A \in SUBSET Name
    BY <1>0, <1>2 DEF Below
  <2>2. Cardinality(A \ B) = Cardinality(A) - Cardinality(B)
    BY <2>1, FiniteNames, FS_Difference
  <2>3. s.refCount[n] = Cardinality(A)
    BY DEF Good, RefCounted, Below
  <2>4. r.refCount[n] = s.refCount[n] - Cardinality(B)
    BY <1>1
  <2>5. QED
    BY <2>1, <2>2, <2>3, <2>4
<1>4. r \in LockState
  <2>1. r.refCount \in [Name -> Int]
    <3> SUFFICES ASSUME NEW n \in Name
                 PROVE  s.refCount[n] - Cardinality({m \in gone : n \in Walk[m]}) \in Int
      BY <1>1
    <3>1. IsFiniteSet({m \in gone : n \in Walk[m]})
      <4>1. {m \in gone : n \in Walk[m]} \in SUBSET Name
        BY <1>0
      <4>2. QED
        BY <4>1, FiniteNames
    <3>2. Cardinality({m \in gone : n \in Walk[m]}) \in Nat
      BY <3>1, FS_CardinalityType
    <3>3. s.refCount[n] \in Int
      BY DEF Good, LockState
    <3>4. QED
      BY <3>2, <3>3
  <2>2. r.lock \in [Name -> LockDetails \cup {NoLock}]
    BY <1>1 DEF Good, LockState
  <2>3. r.byToken \in [Token -> Name \cup {NoNode}]
    BY <1>1 DEF Good, LockState
  <2>4. r.byExpiry \in SUBSET Name /\ r.gen \in 0 .. MaxToken
    BY <1>1 DEF Good, LockState
  <2>5. QED
    BY <2>1, <2>2, <2>3, <2>4 DEF Removed, LockState
<1>5. TokenIndexed(r)
  <2>1. TokenIndexed(s)
    BY DEF Good
  <2>2. \A n \in Locked(s) : s.lock[n].token \in Token
    BY DEF Good, LockState, LockDetails, Locked
  <2>3. \A n \in Locked(r) : n \in Locked(s) /\ n \notin gone /\ r.lock[n] = s.lock[n]
    BY <1>0, <1>1, <1>2
  <2>4. ASSUME NEW n \in Locked(r)
        PROVE  r.byToken[r.lock[n].token] = n
    <3>1. ~ \E m \in gone : s.lock[m].token = s.lock[n].token
      BY <2>1, <2>3, <2>4 DEF TokenIndexed
    <3>2. s.lock[n].token \in Token /\ r.lock[n] = s.lock[n]
      BY <2>2, <2>3, <2>4
    <3>3. r.byToken[s.lock[n].token] = s.byToken[s.lock[n].token]
      BY <3>1, <3>2, <1>1
    <3>4. QED
      BY <3>2, <3>3, <2>1, <2>3, <2>4 DEF TokenIndexed
  <2>5. ASSUME NEW t \in Token, r.byToken[t] # NoNode
        PROVE  /\ r.byToken[t] \in Locked(r)
               /\ r.lock[r.byToken[t]].token = t
               /\ t \in 1 .. r.gen
    <3>1. r.byToken[t] = s.byToken[t] /\ ~ \E n \in gone : s.lock[n].token = t
      BY <2>5, <1>1
    <3>2. /\ s.byToken[t] \in Locked(s)
          /\ s.lock[s.byToken[t]].token = t
          /\ t \in 1 .. s.gen
      BY <3>1, <2>1, <2>5 DEF TokenIndexed
    <3>3. s.byToken[t] \notin gone
      BY <3>1, <3>2
    <3>4. QED
      BY <3>1, <3>2, <3>3, <1>0, <1>1, <1>2
  <2>6. QED
    BY <2>4, <2>5 DEF TokenIndexed
<1>6. ExpiryIndexed(r)
  BY <1>0, <1>1, <1>2 DEF Good, ExpiryIndexed
<1>7. ConflictFree(r)
  BY <1>0, <1>1, <1>2 DEF Good, ConflictFree, Covers
<1>8. QED
  BY <1>1, <1>2, <1>3, <1>4, <1>5, <1>6, <1>7 DEF Good

\* Collecting the expired locks touches no held lock and creates none.
LEMMA CollectedGood ==
  ASSUME NEW s, Good(s), NEW now
  PROVE  /\ Good(Collected(s, now))
         /\ Locked(Collected(s, now)) \subseteq Locked(s)
         /\ \A n \in Locked(s) : s.lock[n].duration < 0 =>
               n \in Locked(Collected(s, now))
         /\ \A n \in Locked(Collected(s, now)) :
               Collected(s, now).lock[n] = s.lock[n]
         /\ HeldNodes(Collected(s, now)) = HeldNodes(s)
         /\ Collected(s, now).gen = s.gen
<1>1. Expired(s, now) \in SUBSET Locked(s)
  BY DEF Expired, Good, ExpiryIndexed
<1>2. \A n \in Expired(s, now) : ~s.lock[n].held /\ s.lock[n].duration >= 0
  BY DEF Expired, Good, ExpiryIndexed
<1>3. Locked(s) \subseteq Name
  BY DEF Locked
<1>4. \A n \in Locked(s) : s.lock[n].duration < 0 => n \notin Expired(s, now)
  <2>1. \A n \in Locked(s) : s.lock[n].duration \in Int
    BY DEF Good, LockState, LockDetails, Locked
  <2>2. QED
    BY <1>2, <2>1
<1>5. QED
  BY <1>1, <1>2, <1>3, <1>4, RemovedGood DEF Collected, HeldNodes

\* canCreate, which reads reference counts on the way to the root, decides
\* whether a new lock would conflict with any lock there is.
LEMMA CanCreateNoConflict ==
  ASSUME NEW s, Good(s), NEW name \in Name, NEW zeroDepth \in BOOLEAN
  PROVE  CanCreate(s, name, zeroDepth) <=>
           /\ name \notin Locked(s)
           /\ \A m \in Locked(s) : ~Covers(s, m, name)
           /\ ~zeroDepth => \A m \in Locked(s) : name \notin Walk[m]
<1>1. \A a \in Walk[name] : a \in Name
  BY WalkAssumption
<1>2. \A a \in Walk[name] : InByName(s, a) <=> \E m \in Locked(s) : a \in Walk[m]
  BY <1>1, InByNameIsBelow DEF Below
<1>3. \A m \in Locked(s) : m \in Name /\ m \in Walk[m] /\ s.lock[m] # NoLock
  BY WalkAssumption DEF Locked
<1>4. name \in Walk[name]
  BY WalkAssumption
<1>5. ASSUME CanCreate(s, name, zeroDepth)
      PROVE  /\ name \notin Locked(s)
             /\ \A m \in Locked(s) : ~Covers(s, m, name)
             /\ ~zeroDepth => \A m \in Locked(s) : name \notin Walk[m]
  <2>1. InByName(s, name) => s.lock[name] = NoLock /\ zeroDepth
    BY <1>4, <1>5 DEF CanCreate
  <2>2. name \notin Locked(s)
    BY <2>1, <1>2, <1>3, <1>4
  <2>3. ~zeroDepth => \A m \in Locked(s) : name \notin Walk[m]
    BY <2>1, <1>2, <1>4
  <2>4. ASSUME NEW m \in Locked(s) PROVE ~Covers(s, m, name)
    <3>1. SUFFICES ASSUME m # name, m \in Walk[name] PROVE s.lock[m].zeroDepth
      BY <2>2, <2>4 DEF Covers
    <3>2. InByName(s, m)
      BY <1>2, <1>3, <2>4, <3>1
    <3>3. QED
      BY <1>3, <1>5, <2>4, <3>1, <3>2 DEF CanCreate
  <2>5. QED
    BY <2>2, <2>3, <2>4
<1>6. ASSUME name \notin Locked(s),
             \A m \in Locked(s) : ~Covers(s, m, name),
             ~zeroDepth => \A m \in Locked(s) : name \notin Walk[m]
      PROVE  CanCreate(s, name, zeroDepth)
  <2> SUFFICES ASSUME NEW a \in Walk[name], InByName(s, a)
               PROVE  IF a = name THEN s.lock[a] = NoLock /\ zeroDepth
                      ELSE s.lock[a] # NoLock => s.lock[a].zeroDepth
    BY DEF CanCreate
  <2>1. CASE a = name
    BY <2>1, <1>2, <1>6 DEF Locked
  <2>2. CASE a # name
    BY <2>2, <1>1, <1>6 DEF Locked, Covers
  <2>3. QED
    BY <2>1, <2>2
<1>7. QED
  BY <1>5, <1>6

\* Creating a lock canCreate agreed to leaves every index consistent.
LEMMA CreatedGood ==
  ASSUME NEW s, Good(s), s.gen < MaxToken, NEW name \in Name,
         NEW zeroDepth \in BOOLEAN, NEW d \in Int, NEW now \in Nat,
         CanCreate(s, name, zeroDepth)
  PROVE  /\ Good(Created(s, now, name, zeroDepth, d))
         /\ Locked(Created(s, now, name, zeroDepth, d)) = Locked(s) \cup {name}
         /\ HeldNodes(Created(s, now, name, zeroDepth, d)) = HeldNodes(s)
         /\ Created(s, now, name, zeroDepth, d).lock[name] =
               [token |-> s.gen + 1, zeroDepth |-> zeroDepth, duration |-> d,
                held |-> FALSE, expiry |-> ExpiryOf(now, d)]
         /\ \A n \in Locked(s) :
               n # name /\ Created(s, now, name, zeroDepth, d).lock[n] = s.lock[n]
<1> DEFINE r == Created(s, now, name, zeroDepth, d)
           new == [token |-> s.gen + 1, zeroDepth |-> zeroDepth,
                   duration |-> d, held |-> FALSE, expiry |-> ExpiryOf(now, d)]
<1>1. /\ r.lock = [s.lock EXCEPT ![name] = new]
      /\ r.refCount = [n \in Name |->
                         s.refCount[n] + (IF n \in Walk[name] THEN 1 ELSE 0)]
      /\ r.byToken = [s.byToken EXCEPT ![s.gen + 1] = name]
      /\ r.byExpiry = (IF d >= 0 THEN s.byExpiry \cup {name} ELSE s.byExpiry)
      /\ r.gen = s.gen + 1
  BY DEF Created
<1>2. /\ s \in LockState
      /\ s.gen \in Nat /\ s.gen + 1 \in Token /\ s.gen + 1 # 0
      /\ DOMAIN s.lock = Name /\ DOMAIN s.byToken = Token
  BY BoundAssumption DEF Good, LockState, Token
<1>3. new \in LockDetails /\ new # NoLock
  <2>1. d \in Int /\ ExpiryOf(now, d) \in Int
    BY DEF ExpiryOf
  <2>2. new \in LockDetails
    BY <1>2, <2>1 DEF LockDetails
  <2>3. QED
    BY <2>2, NoLockAssumption
<1>4. /\ name \notin Locked(s)
      /\ \A m \in Locked(s) : ~Covers(s, m, name)
      /\ ~zeroDepth => \A m \in Locked(s) : name \notin Walk[m]
  BY CanCreateNoConflict
<1>5. /\ r.lock[name] = new
      /\ \A n \in Name \ {name} : r.lock[n] = s.lock[n]
      /\ Locked(r) = Locked(s) \cup {name}
      /\ Locked(s) \subseteq Name
  BY <1>1, <1>2, <1>3 DEF Locked
<1>6. RefCounted(r)
  <2> SUFFICES ASSUME NEW n \in Name PROVE r.refCount[n] = Cardinality(Below(r, n))
    BY DEF RefCounted, Below
  <2>1. IsFiniteSet(Below(s, n)) /\ name \notin Below(s, n)
    BY <1>4, <1>5, FiniteNames DEF Below
  <2>2. s.refCount[n] = Cardinality(Below(s, n)) /\ Cardinality(Below(s, n)) \in Nat
    BY <2>1, FS_CardinalityType DEF Good, RefCounted, Below
  <2>3. CASE n \in Walk[name]
    <3>1. Below(r, n) = Below(s, n) \cup {name}
      BY <2>3, <1>5 DEF Below
    <3>2. QED
      <4>1. Cardinality(Below(r, n)) = Cardinality(Below(s, n)) + 1
        BY <3>1, <2>1, FS_AddElement
      <4>2. r.refCount[n] = s.refCount[n] + 1
        BY <2>3, <1>1
      <4>3. QED
        BY <4>1, <4>2, <2>2
  <2>4. CASE n \notin Walk[name]
    <3>1. Below(r, n) = Below(s, n)
      BY <2>4, <1>5 DEF Below
    <3>2. QED
      BY <3>1, <2>2, <2>4, <1>1
  <2>5. QED
    BY <2>3, <2>4
<1>7. r \in LockState
  <2>1. r.lock \in [Name -> LockDetails \cup {NoLock}]
    BY <1>1, <1>2, <1>3 DEF LockState
  <2>2. r.refCount \in [Name -> Int]
    BY <1>1, <1>2 DEF LockState
  <2>3. r.byToken \in [Token -> Name \cup {NoNode}]
    BY <1>1, <1>2 DEF LockState
  <2>4. r.byExpiry \in SUBSET Name /\ r.gen \in 0 .. MaxToken
    BY <1>1, <1>2, BoundAssumption DEF LockState
  <2>5. QED
    BY <2>1, <2>2, <2>3, <2>4 DEF Created, LockState
<1>8. TokenIndexed(r)
  <2>1. TokenIndexed(s) /\ NoNode \notin Locked(s)
    BY <1>5 DEF Good
  <2>2. s.byToken[s.gen + 1] = NoNode
    BY <2>1, <1>2 DEF TokenIndexed
  <2>3. ASSUME NEW n \in Locked(s)
        PROVE  s.lock[n].token \in Token /\ s.lock[n].token # s.gen + 1
    BY <1>2, <1>5, <2>1, <2>2 DEF TokenIndexed, LockState, LockDetails, Locked
  <2>4. ASSUME NEW n \in Locked(r) PROVE r.byToken[r.lock[n].token] = n
    <3>1. CASE n = name
      BY <3>1, <1>1, <1>2, <1>5
    <3>2. CASE n # name
      BY <3>2, <1>1, <1>2, <1>5, <2>1, <2>3 DEF TokenIndexed
    <3>3. QED
      BY <3>1, <3>2
  <2>5. ASSUME NEW t \in Token, r.byToken[t] # NoNode
        PROVE  /\ r.byToken[t] \in Locked(r)
               /\ r.lock[r.byToken[t]].token = t
               /\ t \in 1 .. r.gen
    <3>1. CASE t = s.gen + 1
      BY <3>1, <1>1, <1>2, <1>5
    <3>2. CASE t # s.gen + 1
      <4>1. r.byToken[t] = s.byToken[t]
        BY <3>2, <1>1, <1>2
      <4>2. s.byToken[t] \in Locked(s) /\ s.lock[s.byToken[t]].token = t /\ t \in 1 .. s.gen
        BY <4>1, <2>1, <2>5 DEF TokenIndexed
      <4>3. s.byToken[t] # name
        BY <4>2, <1>4
      <4>4. QED
        BY <4>1, <4>2, <4>3, <1>1, <1>2, <1>5
    <3>3. QED
      BY <3>1, <3>2
  <2>6. QED
    BY <2>4, <2>5 DEF TokenIndexed
<1>9. ExpiryIndexed(r)
  BY <1>1, <1>4, <1>5 DEF Good, ExpiryIndexed
<1>10. ConflictFree(r)
  BY <1>4, <1>5 DEF Good, ConflictFree, Covers
<1>11. HeldNodes(r) = HeldNodes(s)
  BY <1>4, <1>5 DEF HeldNodes
<1>12. QED
  BY <1>4, <1>5, <1>6, <1>7, <1>8, <1>9, <1>10, <1>11 DEF Good

\* A change that leaves tokens, depths and counts alone keeps every index but
\* the heap, which must be looked at.
LEMMA DetailsGood ==
  ASSUME NEW s, Good(s), NEW r,
         r \in LockState, r.refCount = s.refCount, r.byToken = s.byToken,
         r.gen = s.gen, Locked(r) = Locked(s),
         \A n \in Locked(s) : /\ r.lock[n].token = s.lock[n].token
                              /\ r.lock[n].zeroDepth = s.lock[n].zeroDepth,
         ExpiryIndexed(r)
  PROVE  Good(r)
<1>1. TokenIndexed(r)
  BY DEF Good, TokenIndexed
<1>2. RefCounted(r)
  BY DEF Good, RefCounted
<1>3. ConflictFree(r)
  BY DEF Good, ConflictFree, Covers
<1>4. QED
  BY <1>1, <1>2, <1>3 DEF Good

\* From s to r no lock comes or goes, and none but those on "changed" differs in
\* more than its duration, its expiry and whether it is held.
Resembles(s, r, changed) ==
    /\ Locked(r) = Locked(s) /\ r.gen = s.gen
    /\ \A n \in Locked(s) : /\ r.lock[n].token = s.lock[n].token
                            /\ r.lock[n].zeroDepth = s.lock[n].zeroDepth
                            /\ n \notin changed => r.lock[n] = s.lock[n]

\* Refresh of a lock nobody holds
LEMMA RefreshedGood ==
  ASSUME NEW s, Good(s), NEW n \in Locked(s), ~s.lock[n].held,
         NEW now \in Nat, NEW d \in Int
  PROVE  /\ Good(Refreshed(s, n, now, d))
         /\ HeldNodes(Refreshed(s, n, now, d)) = HeldNodes(s)
         /\ Resembles(s, Refreshed(s, n, now, d), {n})
<1> DEFINE r == Refreshed(s, n, now, d)
           new == [s.lock[n] EXCEPT !.duration = d, !.expiry = ExpiryOf(now, d)]
<1>1. /\ s \in LockState /\ s.lock[n] \in LockDetails /\ n \in Name
      /\ Locked(s) \subseteq Name
  BY DEF Good, LockState, Locked
<1>2. /\ r.lock = [s.lock EXCEPT ![n] = new]
      /\ r.byExpiry = (IF d >= 0 THEN s.byExpiry \cup {n} ELSE s.byExpiry \ {n})
      /\ r.refCount = s.refCount /\ r.byToken = s.byToken /\ r.gen = s.gen
  BY <1>1 DEF Refreshed, LockState
<1>3. /\ new \in LockDetails /\ new # NoLock
      /\ new.token = s.lock[n].token /\ new.zeroDepth = s.lock[n].zeroDepth
      /\ new.held = s.lock[n].held /\ new.duration = d
  <2>1. d \in Int /\ ExpiryOf(now, d) \in Int
    BY DEF ExpiryOf
  <2>2. QED
    BY <1>1, <2>1, NoLockAssumption DEF LockDetails
<1>4. /\ r.lock[n] = new /\ \A m \in Name \ {n} : r.lock[m] = s.lock[m]
      /\ Locked(r) = Locked(s)
  BY <1>1, <1>2, <1>3 DEF LockState, Locked
<1>5. r \in LockState
  <2>1. r.lock \in [Name -> LockDetails \cup {NoLock}] /\ r.byExpiry \in SUBSET Name
    BY <1>1, <1>2, <1>3 DEF LockState
  <2>2. QED
    BY <1>1, <2>1 DEF LockState, Refreshed
<1>6. ExpiryIndexed(r)
  <2>1. s.byExpiry = {m \in Locked(s) : s.lock[m].duration >= 0 /\ ~s.lock[m].held}
    BY DEF Good, ExpiryIndexed
  <2>2. \A m \in Name \ {n} : m \in r.byExpiry <=>
          (m \in Locked(r) /\ r.lock[m].duration >= 0 /\ ~r.lock[m].held)
    BY <2>1, <1>1, <1>2, <1>4
  <2>3. n \in r.byExpiry <=>
          (n \in Locked(r) /\ r.lock[n].duration >= 0 /\ ~r.lock[n].held)
    <3>1. n \in r.byExpiry <=> d >= 0
      BY <1>2
    <3>2. n \in Locked(r) /\ r.lock[n].duration = d /\ ~r.lock[n].held
      BY <1>3, <1>4
    <3>3. QED
      BY <3>1, <3>2
  <2>4. r.byExpiry \subseteq Name /\ Locked(r) \subseteq Name
    BY <2>1, <1>1, <1>2, <1>4
  <2>5. QED
    BY <2>2, <2>3, <2>4, <1>1 DEF ExpiryIndexed
<1>7. Good(r)
  <2>1. \A m \in Locked(s) : /\ r.lock[m].token = s.lock[m].token
                             /\ r.lock[m].zeroDepth = s.lock[m].zeroDepth
    BY <1>1, <1>3, <1>4
  <2>2. QED
    BY <1>2, <1>4, <1>5, <1>6, <2>1, DetailsGood
<1>8. HeldNodes(r) = HeldNodes(s)
  BY <1>1, <1>3, <1>4 DEF HeldNodes
<1>9. Resembles(s, r, {n})
  BY <1>1, <1>2, <1>3, <1>4 DEF Resembles
<1>10. QED
  BY <1>7, <1>8, <1>9

\* hold takes locks nobody holds out of the heap, unhold puts them back.
LEMMA HoldGood ==
  ASSUME NEW s, Good(s), NEW nodes \in SUBSET Locked(s),
         \A n \in nodes : ~s.lock[n].held
  PROVE  /\ Good(Hold(s, nodes))
         /\ HeldNodes(Hold(s, nodes)) = HeldNodes(s) \cup nodes
         /\ Resembles(s, Hold(s, nodes), nodes)
<1> DEFINE r == Hold(s, nodes)
<1>1. /\ s \in LockState /\ nodes \subseteq Name /\ Locked(s) \subseteq Name
      /\ \A n \in Locked(s) : s.lock[n] \in LockDetails
  BY DEF Good, LockState, Locked
<1>2. /\ r.lock = [n \in Name |-> IF n \in nodes
                                  THEN [s.lock[n] EXCEPT !.held = TRUE]
                                  ELSE s.lock[n]]
      /\ r.byExpiry = s.byExpiry \ {n \in nodes : s.lock[n].duration >= 0}
      /\ r.refCount = s.refCount /\ r.byToken = s.byToken /\ r.gen = s.gen
  BY <1>1 DEF Hold, LockState
<1>3. ASSUME NEW n \in nodes
      PROVE  /\ r.lock[n] \in LockDetails /\ r.lock[n].held
             /\ r.lock[n].token = s.lock[n].token
             /\ r.lock[n].zeroDepth = s.lock[n].zeroDepth
             /\ r.lock[n].duration = s.lock[n].duration
  <2>1. n \in Name /\ s.lock[n] \in LockDetails
    BY <1>1, <1>3
  <2>2. r.lock[n] = [s.lock[n] EXCEPT !.held = TRUE]
    BY <1>2, <1>3, <2>1
  <2>3. QED
    BY <2>1, <2>2 DEF LockDetails
<1>4. \A n \in Name \ nodes : r.lock[n] = s.lock[n]
  BY <1>1, <1>2
<1>5. Locked(r) = Locked(s)
  BY <1>1, <1>3, <1>4, NoLockAssumption DEF Locked
<1>6. r \in LockState
  <2>1. r.lock \in [Name -> LockDetails \cup {NoLock}]
    <3>1. \A n \in Name : r.lock[n] \in LockDetails \cup {NoLock}
      BY <1>1, <1>3, <1>4 DEF LockState
    <3>2. r.lock = [n \in Name |-> r.lock[n]]
      BY <1>2
    <3>3. QED
      BY <3>1, <3>2
  <2>2. r.byExpiry \in SUBSET Name
    BY <1>1, <1>2 DEF LockState
  <2>3. QED
    BY <1>1, <2>1, <2>2 DEF LockState, Hold
<1>7. ExpiryIndexed(r)
  BY <1>1, <1>2, <1>3, <1>4, <1>5 DEF Good, ExpiryIndexed
<1>8. Good(r)
  <2>1. \A m \in Locked(s) : /\ r.lock[m].token = s.lock[m].token
                             /\ r.lock[m].zeroDepth = s.lock[m].zeroDepth
    BY <1>1, <1>3, <1>4
  <2>2. QED
    BY <1>2, <1>5, <1>6, <1>7, <2>1, DetailsGood
<1>9. HeldNodes(r) = HeldNodes(s) \cup nodes
  BY <1>1, <1>3, <1>4, <1>5 DEF HeldNodes
<1>10. Resembles(s, r, nodes)
  BY <1>1, <1>2, <1>3, <1>4, <1>5 DEF Resembles
<1>11. QED
  BY <1>8, <1>9, <1>10

\* Release (memLS.unhold): what is no longer held keeps the state good, and goes
\* back to the heap.
LEMMA UnholdGood ==
  ASSUME NEW s, Good(s), NEW nodes \in SUBSET HeldNodes(s)
  PROVE  /\ Good(Unhold(s, nodes))
         /\ HeldNodes(Unhold(s, nodes)) = HeldNodes(s) \ nodes
         /\ Resembles(s, Unhold(s, nodes), nodes)
<1> DEFINE r == Unhold(s, nodes)
<1>1. /\ s \in LockState /\ nodes \subseteq Locked(s) /\ Locked(s) \subseteq Name
      /\ \A n \in Locked(s) : s.lock[n] \in LockDetails
      /\ \A n \in nodes : s.lock[n].held
  BY DEF Good, LockState, Locked, HeldNodes
<1>2. /\ r.lock = [n \in Name |-> IF n \in nodes
                                  THEN [s.lock[n] EXCEPT !.held = FALSE]
                                  ELSE s.lock[n]]
      /\ r.byExpiry = s.byExpiry \cup {n \in nodes : s.lock[n].duration >= 0}
      /\ r.refCount = s.refCount /\ r.byToken = s.byToken /\ r.gen = s.gen
  BY <1>1 DEF Unhold, LockState
<1>3. ASSUME NEW n \in nodes
      PROVE  /\ r.lock[n] \in LockDetails /\ ~r.lock[n].held
             /\ r.lock[n].token = s.lock[n].token
             /\ r.lock[n].zeroDepth = s.lock[n].zeroDepth
             /\ r.lock[n].duration = s.lock[n].duration
  <2>1. n \in Name /\ s.lock[n] \in LockDetails
    BY <1>1, <1>3
  <2>2. r.lock[n] = [s.lock[n] EXCEPT !.held = FALSE]
    BY <1>2, <1>3, <2>1
  <2>3. QED
    BY <2>1, <2>2 DEF LockDetails
<1>4. \A n \in Name \ nodes : r.lock[n] = s.lock[n]
  BY <1>1, <1>2
<1>5. Locked(r) = Locked(s)
  BY <1>1, <1>3, <1>4, NoLockAssumption DEF Locked
<1>6. r \in LockState
  <2>1. r.lock \in [Name -> LockDetails \cup {NoLock}]
    <3>1. \A n \in Name : r.lock[n] \in LockDetails \cup {NoLock}
      BY <1>1, <1>3, <1>4 DEF LockState
    <3>2. r.lock = [n \in Name |-> r.lock[n]]
      BY <1>2
    <3>3. QED
      BY <3>1, <3>2
  <2>2. r.byExpiry \in SUBSET Name
    BY <1>1, <1>2 DEF LockState
  <2>3. QED
    BY <1>1, <2>1, <2>2 DEF LockState, Unhold
<1>7. ExpiryIndexed(r)
  BY <1>1, <1>2, <1>3, <1>4, <1>5 DEF Good, ExpiryIndexed
<1>8. Good(r)
  <2>1. \A m \in Locked(s) : /\ r.lock[m].token = s.lock[m].token
                             /\ r.lock[m].zeroDepth = s.lock[m].zeroDepth
    BY <1>1, <1>3, <1>4
  <2>2. QED
    BY <1>2, <1>5, <1>6, <1>7, <2>1, DetailsGood
<1>9. HeldNodes(r) = HeldNodes(s) \ nodes
  BY <1>1, <1>3, <1>4, <1>5 DEF HeldNodes
<1>10. Resembles(s, r, nodes)
  BY <1>1, <1>2, <1>3, <1>4, <1>5 DEF Resembles
<1>11. QED
  BY <1>8, <1>9, <1>10


-----------------------------------------------------------------------------

\* The inductive invariant: a consistent lock state whose held nodes are those
\* of the outstanding claims.
IInv == Good(ls) /\ HeldByClaims

\* An empty lock system without claims satisfies the invariant.
LEMMA InitIInv == Init => IInv
<1>1. ASSUME Init PROVE IInv
  <2>1. Good(ls) /\ claims = {} /\ Locked(ls) = {}
    BY <1>1, NewGood DEF Init, NewMemLS, Locked
  <2>2. QED
    BY <2>1 DEF IInv, HeldByClaims, HeldNodes
<1>2. QED
  BY <1>1

\* What lookup finds is a lock nobody holds, with one of the tokens shown, that
\* protects the name.
LEMMA LookupFree ==
  ASSUME NEW s, Good(s), NEW name, NEW conditions \in SUBSET Token,
         NEW n \in Lookup(s, name, conditions)
  PROVE  /\ n \in Locked(s) /\ ~s.lock[n].held
         /\ s.lock[n].token \in conditions
         /\ Covers(s, n, name)
BY DEF Lookup, Good, TokenIndexed, Covers

\* The lock that n has in s is the one it has in r.
SameLock(s, r, n) ==
    /\ n \in Locked(r)
    /\ r.lock[n].token = s.lock[n].token
    /\ r.lock[n].zeroDepth = s.lock[n].zeroDepth

\* From s to r held locks stay, and so do those that never expire and are not
\* named by a token of T; what is new has a new token.
Kept(s, r, T) ==
    /\ s.gen <= r.gen
    /\ \A n \in HeldNodes(s) : SameLock(s, r, n)
    /\ \A n \in Locked(s) :
          ~s.lock[n].held /\ s.lock[n].duration < 0 /\ s.lock[n].token \notin T =>
              n \in Locked(r) /\ r.lock[n] = s.lock[n]
    /\ \A n \in Locked(r) :
          \/ n \in Locked(s) /\ SameLock(s, r, n)
          \/ r.lock[n].token = s.gen + 1 /\ r.gen = s.gen + 1

\* A lock state and its types
LEMMA GoodTypes ==
  ASSUME NEW s, Good(s)
  PROVE  /\ s.gen \in Nat /\ s.gen <= MaxToken
         /\ Locked(s) \subseteq Name /\ HeldNodes(s) \subseteq Locked(s)
         /\ \A n \in Locked(s) :
               /\ s.lock[n] \in LockDetails
               /\ s.lock[n].token \in 1 .. s.gen
               /\ s.byToken[s.lock[n].token] = n
         /\ \A m, n \in Locked(s) : s.lock[m].token = s.lock[n].token => m = n
<1>1. Locked(s) \subseteq Name /\ HeldNodes(s) \subseteq Locked(s)
  BY DEF Locked, HeldNodes
<1>2. s.gen \in Nat /\ s.gen <= MaxToken
  BY BoundAssumption DEF Good, LockState
<1>3. \A n \in Locked(s) : s.lock[n] \in LockDetails /\ s.lock[n].token \in Token
  BY DEF Locked, Good, LockState, LockDetails
<1>4. \A n \in Locked(s) : s.byToken[s.lock[n].token] = n
  BY DEF Good, TokenIndexed
<1>5. \A n \in Locked(s) : s.lock[n].token \in 1 .. s.gen
  BY <1>1, <1>3, <1>4 DEF Good, TokenIndexed
<1>6. QED
  BY <1>1, <1>2, <1>3, <1>4, <1>5

\* An action that leaves the claims alone need only keep Good and the held nodes.
LEMMA SameClaims ==
  ASSUME IInv, Good(ls'), HeldNodes(ls') = HeldNodes(ls), UNCHANGED claims
  PROVE  IInv'
BY DEF IInv, HeldByClaims, Good, HeldNodes, LockState, LockDetails,
   TokenIndexed, RefCounted, ExpiryIndexed, ConflictFree, Covers, Locked

\* A refused call collects the expired locks and does nothing else.
LEMMA CollectKeeps ==
  ASSUME IInv, NEW now, ls' = Collected(ls, now), UNCHANGED claims
  PROVE  IInv' /\ Kept(ls, ls', {}) /\ ls'.gen = ls.gen
<1>1. Good(ls)
  BY DEF IInv
<1>2. IInv'
  BY <1>1, CollectedGood, SameClaims
<1>3. ls.gen \in Nat
  BY <1>1, GoodTypes
<1>4. QED
  BY <1>1, <1>2, <1>3, CollectedGood DEF Kept, SameLock, HeldNodes

\* A Create that is granted
LEMMA CreateKeeps ==
  ASSUME IInv, NEW now \in Nat, NEW name \in Name, NEW zeroDepth \in BOOLEAN,
         NEW d \in Int, CreateOk(now, name, zeroDepth, d)
  PROVE  /\ IInv' /\ Kept(ls, ls', {})
         /\ ls'.gen = ls.gen + 1
         /\ name \in Locked(ls')
         /\ ls'.lock[name].token = ls.gen + 1
         /\ ls'.lock[name].zeroDepth = zeroDepth
         /\ ls'.lock[name].duration = d
         /\ ~ls'.lock[name].held
<1> DEFINE s == Collected(ls, now)
<1>1. Good(ls) /\ ls.gen \in Nat
  BY GoodTypes DEF IInv
<1>2. /\ Good(s) /\ s.gen = ls.gen /\ HeldNodes(s) = HeldNodes(ls)
      /\ Locked(s) \subseteq Locked(ls)
      /\ \A n \in Locked(s) : s.lock[n] = ls.lock[n]
      /\ \A n \in Locked(ls) : ls.lock[n].duration < 0 => n \in Locked(s)
  BY <1>1, CollectedGood
<1>3. /\ ls' = Created(s, now, name, zeroDepth, d) /\ claims' = claims
      /\ CanCreate(s, name, zeroDepth) /\ s.gen < MaxToken
  BY <1>2 DEF CreateOk
<1> HIDE DEF s
<1>4. /\ Good(ls') /\ HeldNodes(ls') = HeldNodes(s)
      /\ Locked(ls') = Locked(s) \cup {name}
      /\ ls'.lock[name] = [token |-> s.gen + 1, zeroDepth |-> zeroDepth,
                           duration |-> d, held |-> FALSE, expiry |-> ExpiryOf(now, d)]
      /\ \A n \in Locked(s) : n # name /\ ls'.lock[n] = s.lock[n]
  BY <1>2, <1>3, CreatedGood
<1>5. IInv'
  BY <1>2, <1>3, <1>4, SameClaims
<1>6. ls'.gen = ls.gen + 1
  BY <1>2, <1>3 DEF Created
<1>7. Kept(ls, ls', {})
  BY <1>1, <1>2, <1>4, <1>6 DEF Kept, SameLock, HeldNodes
<1>8. QED
  BY <1>2, <1>4, <1>5, <1>6, <1>7

\* The lock that a token not refused names
LEMMA NotRefused ==
  ASSUME NEW s, Good(s), NEW t \in Token, ~Refusable(s, t)
  PROVE  /\ s.byToken[t] \in Locked(s)
         /\ ~s.lock[s.byToken[t]].held
         /\ s.lock[s.byToken[t]].token = t
BY DEF Refusable, Good, TokenIndexed

\* A Refresh
LEMMA RefreshKeeps ==
  ASSUME IInv, NEW now \in Nat, NEW t \in Token, NEW d \in Int, RefreshOk(now, t, d)
  PROVE  IInv' /\ Kept(ls, ls', {t}) /\ ls'.gen = ls.gen
<1> DEFINE s == Collected(ls, now)
           n0 == s.byToken[t]
<1>1. Good(ls) /\ ls.gen \in Nat
  BY GoodTypes DEF IInv
<1>2. /\ Good(s) /\ s.gen = ls.gen /\ HeldNodes(s) = HeldNodes(ls)
      /\ Locked(s) \subseteq Locked(ls)
      /\ \A n \in Locked(s) : s.lock[n] = ls.lock[n]
      /\ \A n \in Locked(ls) : ls.lock[n].duration < 0 => n \in Locked(s)
  BY <1>1, CollectedGood
<1>3. /\ ls' = Refreshed(s, n0, now, d) /\ claims' = claims
      /\ ~Refusable(s, t)
  BY <1>2 DEF RefreshOk
<1> HIDE DEF s
<1>4. n0 \in Locked(s) /\ ~s.lock[n0].held /\ s.lock[n0].token = t
  BY <1>2, <1>3, NotRefused
<1> HIDE DEF n0
<1>5. /\ Good(ls') /\ HeldNodes(ls') = HeldNodes(s)
      /\ Resembles(s, ls', {n0})
  BY <1>2, <1>3, <1>4, RefreshedGood
<1>6. IInv'
  BY <1>2, <1>3, <1>5, SameClaims
<1>7. Kept(ls, ls', {t}) /\ ls'.gen = ls.gen
  BY <1>1, <1>2, <1>4, <1>5 DEF Kept, SameLock, HeldNodes, Resembles
<1>8. QED
  BY <1>6, <1>7

\* An Unlock
LEMMA UnlockKeeps ==
  ASSUME IInv, NEW now, NEW t \in Token, UnlockOk(now, t)
  PROVE  /\ IInv' /\ Kept(ls, ls', {t}) /\ ls'.gen = ls.gen
         /\ \A n \in Locked(ls') : ls'.lock[n].token # t
<1> DEFINE s == Collected(ls, now)
           n0 == s.byToken[t]
<1>1. Good(ls) /\ ls.gen \in Nat
  BY GoodTypes DEF IInv
<1>2. /\ Good(s) /\ s.gen = ls.gen /\ HeldNodes(s) = HeldNodes(ls)
      /\ Locked(s) \subseteq Locked(ls)
      /\ \A n \in Locked(s) : s.lock[n] = ls.lock[n]
      /\ \A n \in Locked(ls) : ls.lock[n].duration < 0 => n \in Locked(s)
  BY <1>1, CollectedGood
<1>3. /\ ls' = Removed(s, {n0}) /\ claims' = claims
      /\ ~Refusable(s, t)
  BY <1>2 DEF UnlockOk
<1> HIDE DEF s
<1>4. n0 \in Locked(s) /\ ~s.lock[n0].held /\ s.lock[n0].token = t
  BY <1>2, <1>3, NotRefused
<1>5. \A n \in Locked(s) : s.lock[n].token = t => n = n0
  BY <1>2, <1>4, GoodTypes
<1> HIDE DEF n0
<1>6. /\ Good(ls') /\ Locked(ls') = Locked(s) \ {n0} /\ ls'.gen = s.gen
      /\ \A n \in Name \ {n0} : ls'.lock[n] = s.lock[n]
  BY <1>2, <1>3, <1>4, RemovedGood
<1>7. Locked(s) \subseteq Name
  BY DEF Locked
<1>8. HeldNodes(ls') = HeldNodes(s)
  BY <1>4, <1>6, <1>7 DEF HeldNodes
<1>9. IInv'
  BY <1>2, <1>3, <1>6, <1>8, SameClaims
<1>10. Kept(ls, ls', {t}) /\ ls'.gen = ls.gen
  BY <1>1, <1>2, <1>4, <1>6, <1>7 DEF Kept, SameLock, HeldNodes
<1>11. QED
  BY <1>5, <1>6, <1>7, <1>9, <1>10

\* The locks "nodes" protect each of the names, and each has one of the tokens.
Protect(s, nodes, names, tokens) ==
    /\ \A n \in names : \E m \in nodes : Covers(s, m, n)
    /\ \A m \in nodes : s.lock[m].token \in tokens

\* A claim of locks that nobody held is added to the claims.
Claims(names, tokens) ==
    \E nodes \in SUBSET Locked(ls') :
        /\ nodes # {} /\ nodes \cap UNION claims = {}
        /\ claims' = claims \cup {nodes}
        /\ Protect(ls', nodes, names, tokens)

\* A Confirm: the locks it takes are nobody else's, each named by a condition,
\* and each name is protected by one of them.
LEMMA ConfirmKeeps ==
  ASSUME IInv, NEW now, NEW names \in SUBSET Name, names # {},
         NEW conditions \in SUBSET Token, ConfirmOk(now, names, conditions)
  PROVE  /\ IInv' /\ Kept(ls, ls', conditions) /\ ls'.gen = ls.gen
         /\ Claims(names, conditions)
<1> DEFINE s == Collected(ls, now)
<1>1. Good(ls) /\ ls.gen \in Nat
  BY GoodTypes DEF IInv
<1>2. /\ Good(s) /\ s.gen = ls.gen /\ HeldNodes(s) = HeldNodes(ls)
      /\ Locked(s) \subseteq Locked(ls)
      /\ \A n \in Locked(s) : s.lock[n] = ls.lock[n]
      /\ \A n \in Locked(ls) : ls.lock[n].duration < 0 => n \in Locked(s)
  BY <1>1, CollectedGood
<1>3. PICK node \in [names -> Name] :
           /\ \A n \in names : node[n] \in Lookup(s, n, conditions)
           /\ ls' = Hold(s, {node[n] : n \in names})
           /\ claims' = claims \cup {{node[n] : n \in names}}
  BY DEF ConfirmOk
<1> HIDE DEF s
<1> DEFINE N == {node[n] : n \in names}
<1>4. \A n \in names : /\ node[n] \in Locked(s) /\ ~s.lock[node[n]].held
                       /\ s.lock[node[n]].token \in conditions
                       /\ Covers(s, node[n], n)
  BY <1>2, <1>3, LookupFree
<1>5. /\ N \in SUBSET Locked(s) /\ N # {}
      /\ \A n \in N : ~s.lock[n].held /\ s.lock[n].token \in conditions
      /\ \A n \in names : \E m \in N : Covers(s, m, n)
  BY <1>4
<1>6. ls' = Hold(s, N) /\ claims' = claims \cup {N}
  BY <1>3
<1> HIDE DEF N
<1>7. /\ Good(ls') /\ HeldNodes(ls') = HeldNodes(s) \cup N
      /\ Resembles(s, ls', N)
  BY <1>2, <1>5, <1>6, HoldGood
<1>8. /\ HeldNodes(ls) = UNION claims /\ {} \notin claims
      /\ \A c, d \in claims : c \cap d # {} => c = d
  BY DEF IInv, HeldByClaims
<1>9. N \cap UNION claims = {}
  BY <1>2, <1>5, <1>8 DEF HeldNodes
<1>10. HeldByClaims'
  <2>1. UNION (claims \cup {N}) = (UNION claims) \cup N
    OBVIOUS
  <2>2. \A c, d \in claims \cup {N} : c \cap d # {} => c = d
    BY <1>8, <1>9
  <2>3. QED
    BY <1>2, <1>5, <1>6, <1>7, <1>8, <2>1, <2>2 DEF HeldByClaims, HeldNodes, Locked
<1>11. IInv'
  BY <1>7, <1>10 DEF IInv, Good, LockState, LockDetails, TokenIndexed,
     RefCounted, ExpiryIndexed, ConflictFree, Covers, Locked
<1>12. Kept(ls, ls', conditions) /\ ls'.gen = ls.gen
  BY <1>1, <1>2, <1>5, <1>7 DEF Kept, SameLock, HeldNodes, Resembles
<1>13. N \in SUBSET Locked(ls') /\ Protect(ls', N, names, conditions)
  BY <1>5, <1>7 DEF Resembles, Covers, Protect
<1>14. Claims(names, conditions)
  BY <1>5, <1>6, <1>9, <1>13 DEF Claims
<1>15. QED
  BY <1>11, <1>12, <1>14

\* A release closure
LEMMA ReleaseKeeps ==
  ASSUME IInv, NEW nodes, Release(nodes)
  PROVE  /\ IInv' /\ Kept(ls, ls', {}) /\ ls'.gen = ls.gen
         /\ Resembles(ls, ls', nodes)
<1>1. Good(ls) /\ ls.gen \in Nat
  BY GoodTypes DEF IInv
<1>2. ls' = Unhold(ls, nodes) /\ claims' = claims \ {nodes} /\ nodes \in claims
  BY DEF Release
<1>3. /\ HeldNodes(ls) = UNION claims /\ {} \notin claims
      /\ \A c, d \in claims : c \cap d # {} => c = d
  BY DEF IInv, HeldByClaims
<1>4. nodes \in SUBSET HeldNodes(ls)
  BY <1>2, <1>3
<1>5. /\ Good(ls') /\ HeldNodes(ls') = HeldNodes(ls) \ nodes
      /\ Resembles(ls, ls', nodes)
  BY <1>1, <1>2, <1>4, UnholdGood
<1>6. UNION (claims \ {nodes}) = (UNION claims) \ nodes
  BY <1>2, <1>3
<1>7. HeldByClaims'
  BY <1>2, <1>3, <1>5, <1>6 DEF HeldByClaims, HeldNodes, Locked
<1>8. IInv'
  BY <1>5, <1>7 DEF IInv, Good, LockState, LockDetails, TokenIndexed,
     RefCounted, ExpiryIndexed, ConflictFree, Covers, Locked
<1>9. Kept(ls, ls', {}) /\ ls'.gen = ls.gen
  BY <1>1, <1>4, <1>5 DEF Kept, SameLock, HeldNodes, Resembles
<1>10. QED
  BY <1>5, <1>8, <1>9

\* Every method and every release closure preserves the invariant.
LEMMA NextIInv == IInv /\ [Next]_lsVars => IInv'
<1> SUFFICES ASSUME IInv, [Next]_lsVars PROVE IInv'
  OBVIOUS
<1>1. Time \subseteq Nat /\ Duration \subseteq Int
  BY BoundAssumption
<1>2. ASSUME NEW now \in Time, NEW name \in Name, NEW zeroDepth \in BOOLEAN,
             NEW d \in Duration, CreateOk(now, name, zeroDepth, d)
      PROVE  IInv'
  BY <1>1, <1>2, CreateKeeps
<1>3. ASSUME NEW now \in Time, NEW name \in Name, NEW zeroDepth \in BOOLEAN,
             CreateRefused(now, name, zeroDepth)
      PROVE  IInv'
  BY <1>3, CollectKeeps DEF CreateRefused
<1>4. ASSUME NEW now \in Time, NEW t \in Token, NEW d \in Duration,
             RefreshOk(now, t, d)
      PROVE  IInv'
  BY <1>1, <1>4, RefreshKeeps
<1>5. ASSUME NEW now \in Time, NEW t \in Token, UnlockOk(now, t) PROVE IInv'
  BY <1>5, UnlockKeeps
<1>6. ASSUME NEW now \in Time, NEW t \in Token, TokenRefused(now, t) PROVE IInv'
  BY <1>6, CollectKeeps DEF TokenRefused
<1>7. ASSUME NEW now \in Time, NEW names \in NameSets,
             NEW conditions \in SUBSET Token, ConfirmOk(now, names, conditions)
      PROVE  IInv'
  <2>1. names \in SUBSET Name /\ names # {}
    BY DEF NameSets
  <2>2. QED
    BY <1>7, <2>1, ConfirmKeeps
<1>8. ASSUME NEW now \in Time, NEW names \in NameSets,
             NEW conditions \in SUBSET Token, ConfirmFailed(now, names, conditions)
      PROVE  IInv'
  BY <1>8, CollectKeeps DEF ConfirmFailed
<1>9. ASSUME NEW nodes \in claims, Release(nodes) PROVE IInv'
  BY <1>9, ReleaseKeeps
<1>10. CASE UNCHANGED lsVars
  BY <1>10 DEF lsVars, IInv, HeldByClaims, Good, HeldNodes, LockState, LockDetails,
     TokenIndexed, RefCounted, ExpiryIndexed, ConflictFree, Covers, Locked
<1>11. QED
  BY <1>2, <1>3, <1>4, <1>5, <1>6, <1>7, <1>8, <1>9, <1>10 DEF Next

\* The lock system keeps its inductive invariant for ever.
THEOREM Consistent == Spec => []IInv
<1>1. QED
  BY InitIInv, NextIInv, PTL DEF Spec

\* Type correctness of the lock system's state
THEOREM TypeCorrect == Spec => []TypeOK
<1>1. IInv => TypeOK
  BY DEF IInv, Good, HeldByClaims, HeldNodes, Locked, TypeOK
<1>2. QED
  BY <1>1, Consistent, PTL

\* The token index and the lock nodes agree, in every reachable state.
THEOREM TokensIndexed == Spec => []TokenIndex
<1>1. IInv => TokenIndex
  BY DEF IInv, Good, TokenIndex
<1>2. QED
  BY <1>1, Consistent, PTL

\* Every reference count is the number of locks at or below its name.
THEOREM CountsExact == Spec => []RefCounts
<1>1. IInv => RefCounts
  BY DEF IInv, Good, RefCounts
<1>2. QED
  BY <1>1, Consistent, PTL

\* Exactly the finite locks that nobody holds may expire.
THEOREM HeapExact == Spec => []ExpiryIndex
<1>1. IInv => ExpiryIndex
  BY DEF IInv, Good, ExpiryIndex
<1>2. QED
  BY <1>1, Consistent, PTL

\* No two locks ever conflict.
THEOREM LocksExclusive == Spec => []NoConflict
<1>1. IInv => NoConflict
  BY DEF IInv, Good, NoConflict
<1>2. QED
  BY <1>1, Consistent, PTL

\* No lock is ever held by two claims, and no claim loses its lock.
THEOREM ClaimsExact == Spec => []HeldByClaims
<1>1. IInv => HeldByClaims
  BY DEF IInv
<1>2. QED
  BY <1>1, Consistent, PTL

=============================================================================
