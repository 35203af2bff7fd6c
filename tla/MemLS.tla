------------------------------- MODULE MemLS -------------------------------
(***************************************************************************)
(* The in-memory WebDAV lock system of server/webdav/lock.go.              *)
(*                                                                         *)
(* memLS keeps three indexes under one mutex: byName (a tree of nodes with *)
(* a reference count each), byToken (the locks by token) and byExpiry (a   *)
(* heap of the locks that may expire).  Confirm hands the caller a release *)
(* closure; between the two the lock is "held" and out of the heap.  The   *)
(* mutex makes each method one atomic step, and every method except the    *)
(* release closure first collects the expired locks.                       *)
(*                                                                         *)
(* A node of byName that carries no token is never read for anything but   *)
(* its existence, so the details of a lock live in lock[n] and a name is   *)
(* in byName exactly while its refCount is positive.  The heap is the set  *)
(* of its members: only its minimum is ever read, and reading it in a loop *)
(* removes exactly the members that have expired.                          *)
(***************************************************************************)
EXTENDS Integers, FiniteSets

CONSTANTS
    Name,       \* the clean resource names
    Root,       \* "/"
    Walk,       \* Walk[n]: the names walkToRoot(n) visits, n itself included
    MaxToken,   \* bound on the number of tokens issued
    Duration,   \* the lock durations asked for; a negative one is infinite
    Time,       \* the instants a caller may pass as "now"
    NoLock,     \* a node without a token
    NoNode      \* an absent byToken entry

ASSUME NameAssumption ==
    /\ IsFiniteSet(Name)
    /\ Root \in Name
    /\ NoNode \notin Name

\* Paths form a tree: the walk of a name is a chain that ends in the root.
ASSUME WalkAssumption ==
    /\ Walk \in [Name -> SUBSET Name]
    /\ \A n \in Name : n \in Walk[n] /\ Root \in Walk[n]
    /\ \A n \in Name : \A a \in Walk[n] : Walk[a] \subseteq Walk[n]
    /\ \A n \in Name : \A a \in Walk[n] : n \in Walk[a] => a = n
    /\ \A n \in Name : \A a, b \in Walk[n] : a \in Walk[b] \/ b \in Walk[a]

ASSUME BoundAssumption ==
    /\ MaxToken \in Nat
    /\ Duration \subseteq Int
    /\ Time \subseteq Nat

\* Tokens are issued from 1 on; 0 stands for any token that never was.
Token == 0 .. MaxToken

LockDetails == [token : Token, zeroDepth : BOOLEAN, duration : Int,
                expiry : Int, held : BOOLEAN]

ASSUME NoLockAssumption == NoLock \notin LockDetails

LockState == [lock     : [Name -> LockDetails \cup {NoLock}],
              refCount : [Name -> Int],
              byToken  : [Token -> Name \cup {NoNode}],
              byExpiry : SUBSET Name,
              gen      : 0 .. MaxToken]

-----------------------------------------------------------------------------
(* The state of the lock system, and the helpers of its methods as          *)
(* functions from lock states to lock states.                               *)

NewMemLS == [lock     |-> [n \in Name |-> NoLock],
             refCount |-> [n \in Name |-> 0],
             byToken  |-> [t \in Token |-> NoNode],
             byExpiry |-> {},
             gen      |-> 0]

Locked(s) == {n \in Name : s.lock[n] # NoLock}

\* The lock on m, if there is one, protects n.
Covers(s, m, n) ==
    /\ m \in Locked(s)
    /\ m = n \/ (~s.lock[m].zeroDepth /\ m \in Walk[n])

\* Mutants of remove: the token stays in byToken; only the name itself is counted
\* down, not the names above it.
Removed_KeepsToken(s, gone) ==
    [s EXCEPT !.lock = [n \in Name |-> IF n \in gone THEN NoLock ELSE @[n]],
              !.refCount = [n \in Name |->
                     @[n] - Cardinality({m \in gone : n \in Walk[m]})],
              !.byExpiry = @ \ gone]

Removed_NoWalk(s, gone) ==
    [lock     |-> [n \in Name |-> IF n \in gone THEN NoLock ELSE s.lock[n]],
     refCount |-> [n \in Name |-> s.refCount[n] - (IF n \in gone THEN 1 ELSE 0)],
     byToken  |-> [t \in Token |->
                     IF \E n \in gone : s.lock[n].token = t
                     THEN NoNode ELSE s.byToken[t]],
     byExpiry |-> s.byExpiry \ gone,
     gen      |-> s.gen]

\* remove, for every lock of the set "gone" at once.
Removed(s, gone) ==
    [lock     |-> [n \in Name |-> IF n \in gone THEN NoLock ELSE s.lock[n]],
     refCount |-> [n \in Name |->
                     s.refCount[n] - Cardinality({m \in gone : n \in Walk[m]})],
     byToken  |-> [t \in Token |->
                     IF \E n \in gone : s.lock[n].token = t
                     THEN NoNode ELSE s.byToken[t]],
     byExpiry |-> s.byExpiry \ gone,
     gen      |-> s.gen]

Expired(s, now) == {n \in s.byExpiry : s.lock[n].expiry <= now}

\* collectExpiredNodes
Collected(s, now) == Removed(s, Expired(s, now))

InByName(s, n) == s.refCount[n] > 0

\* Mutant: an infinite lock is not stopped by locks below its name.
CanCreate_NotBelow(s, name, zeroDepth) ==
    \A a \in Walk[name] : InByName(s, a) =>
        IF a = name THEN s.lock[a] = NoLock
                    ELSE s.lock[a] # NoLock => s.lock[a].zeroDepth

\* canCreate walks from the name to the root: the name itself must carry no
\* lock and, for an infinite lock, must not even exist (a descendant would be
\* locked); no other name on the way may carry an infinite lock.
CanCreate(s, name, zeroDepth) ==
    \A a \in Walk[name] : InByName(s, a) =>
        IF a = name THEN s.lock[a] = NoLock /\ zeroDepth
                    ELSE s.lock[a] # NoLock => s.lock[a].zeroDepth

\* An expiry is meaningful for a finite lock only.
ExpiryOf(now, duration) == IF duration >= 0 THEN now + duration ELSE 0

\* Mutant: nextToken is called twice.
Created_TwoTokens(s, now, name, zeroDepth, duration) ==
    [s EXCEPT !.lock[name] =
                 [token |-> s.gen + 1, zeroDepth |-> zeroDepth,
                  duration |-> duration, held |-> FALSE,
                  expiry |-> ExpiryOf(now, duration)],
              !.refCount = [n \in Name |-> @[n] + (IF n \in Walk[name] THEN 1 ELSE 0)],
              !.byToken[s.gen + 1] = name,
              !.byExpiry = IF duration >= 0 THEN @ \cup {name} ELSE @,
              !.gen = s.gen + 2]

\* create, and the rest of Create once canCreate has agreed
Created(s, now, name, zeroDepth, duration) ==
    [lock     |-> [s.lock EXCEPT ![name] =
                     [token |-> s.gen + 1, zeroDepth |-> zeroDepth,
                      duration |-> duration, held |-> FALSE,
                      expiry |-> ExpiryOf(now, duration)]],
     refCount |-> [n \in Name |->
                     s.refCount[n] + (IF n \in Walk[name] THEN 1 ELSE 0)],
     byToken  |-> [s.byToken EXCEPT ![s.gen + 1] = name],
     byExpiry |-> IF duration >= 0 THEN s.byExpiry \cup {name} ELSE s.byExpiry,
     gen      |-> s.gen + 1]

\* The part of Refresh that follows its early returns
Refreshed(s, n, now, duration) ==
    [s EXCEPT !.lock[n] = [@ EXCEPT !.duration = duration,
                                    !.expiry = ExpiryOf(now, duration)],
              !.byExpiry = IF duration >= 0 THEN @ \cup {n} ELSE @ \ {n}]

\* Mutant: lookup does not look whether the lock is held.
Lookup_Held(s, name, conditions) ==
    {n \in Name : /\ \E t \in conditions : s.byToken[t] = n
                  /\ n = name \/ (~s.lock[n].zeroDepth /\ n \in Walk[name])}

\* lookup: the locks named by one of the conditions that protect the name and
\* that nobody holds.
Lookup(s, name, conditions) ==
    {n \in Name : /\ \E t \in conditions : s.byToken[t] = n
                  /\ ~s.lock[n].held
                  /\ n = name \/ (~s.lock[n].zeroDepth /\ n \in Walk[name])}

\* Mutants: a held lock stays in the heap; unhold does not push it back.
Hold_MayExpire(s, nodes) ==
    [s EXCEPT !.lock = [n \in Name |-> IF n \in nodes
                                       THEN [s.lock[n] EXCEPT !.held = TRUE]
                                       ELSE s.lock[n]]]

Unhold_NotPushed(s, nodes) ==
    [s EXCEPT !.lock = [n \in Name |-> IF n \in nodes
                                       THEN [s.lock[n] EXCEPT !.held = FALSE]
                                       ELSE s.lock[n]]]

\* hold and unhold, for the one or two nodes of a Confirm
Hold(s, nodes) ==
    [s EXCEPT !.lock = [n \in Name |-> IF n \in nodes
                                       THEN [s.lock[n] EXCEPT !.held = TRUE]
                                       ELSE s.lock[n]],
              !.byExpiry = @ \ {n \in nodes : s.lock[n].duration >= 0}]

Unhold(s, nodes) ==
    [s EXCEPT !.lock = [n \in Name |-> IF n \in nodes
                                       THEN [s.lock[n] EXCEPT !.held = FALSE]
                                       ELSE s.lock[n]],
              !.byExpiry = @ \cup {n \in nodes : s.lock[n].duration >= 0}]

-----------------------------------------------------------------------------
VARIABLES
    ls,     \* the lock system
    claims  \* the node sets of the release closures not called yet

lsVars == <<ls, claims>>

Init ==
    /\ ls = NewMemLS
    /\ claims = {}

\* Create, granted and refused (ErrLocked)
CreateOk(now, name, zeroDepth, duration) ==
    LET s == Collected(ls, now) IN
    /\ ls.gen < MaxToken
    /\ CanCreate(s, name, zeroDepth)
    /\ ls' = Created(s, now, name, zeroDepth, duration)
    /\ UNCHANGED claims

CreateRefused(now, name, zeroDepth) ==
    LET s == Collected(ls, now) IN
    /\ ~CanCreate(s, name, zeroDepth)
    /\ ls' = s
    /\ UNCHANGED claims

\* Mutant: only an unknown token is refused.
Refusable_NotHeld(s, token) == s.byToken[token] = NoNode

\* Refresh and Unlock return early for an unknown token (ErrNoSuchLock) and for
\* a held lock (ErrLocked); the expired locks have been collected even so.
Refusable(s, token) ==
    s.byToken[token] # NoNode => s.lock[s.byToken[token]].held

RefreshOk(now, token, duration) ==
    LET s == Collected(ls, now) IN
    /\ ~Refusable(s, token)
    /\ ls' = Refreshed(s, s.byToken[token], now, duration)
    /\ UNCHANGED claims

UnlockOk(now, token) ==
    LET s == Collected(ls, now) IN
    /\ ~Refusable(s, token)
    /\ ls' = Removed(s, {s.byToken[token]})
    /\ UNCHANGED claims

TokenRefused(now, token) ==
    LET s == Collected(ls, now) IN
    /\ Refusable(s, token)
    /\ ls' = s
    /\ UNCHANGED claims

\* Confirm of one or two names; the two may be protected by the same node,
\* which is then held once.
ConfirmOk(now, names, conditions) ==
    LET s == Collected(ls, now) IN
    \E node \in [names -> Name] :
        /\ \A n \in names : node[n] \in Lookup(s, n, conditions)
        /\ ls' = Hold(s, {node[n] : n \in names})
        /\ claims' = claims \cup {{node[n] : n \in names}}

ConfirmFailed(now, names, conditions) ==
    LET s == Collected(ls, now) IN
    /\ \E n \in names : Lookup(s, n, conditions) = {}
    /\ ls' = s
    /\ UNCHANGED claims

\* The release closure a Confirm returned; it collects nothing.
Release(nodes) ==
    /\ nodes \in claims
    /\ ls' = Unhold(ls, nodes)
    /\ claims' = claims \ {nodes}

NameSets == {{a, b} : a, b \in Name}

Next ==
    \/ \E now \in Time, name \in Name, zeroDepth \in BOOLEAN, d \in Duration :
          CreateOk(now, name, zeroDepth, d)
    \/ \E now \in Time, name \in Name, zeroDepth \in BOOLEAN :
          CreateRefused(now, name, zeroDepth)
    \/ \E now \in Time, t \in Token, d \in Duration : RefreshOk(now, t, d)
    \/ \E now \in Time, t \in Token : UnlockOk(now, t)
    \/ \E now \in Time, t \in Token : TokenRefused(now, t)
    \/ \E now \in Time, names \in NameSets, conditions \in SUBSET Token :
          ConfirmOk(now, names, conditions)
    \/ \E now \in Time, names \in NameSets, conditions \in SUBSET Token :
          ConfirmFailed(now, names, conditions)
    \/ \E nodes \in claims : Release(nodes)

Spec == Init /\ [][Next]_lsVars

-----------------------------------------------------------------------------
(* Invariants                                                               *)

\* The state has its types: every index holds names, tokens and counters.
TypeOK ==
    /\ ls \in LockState
    /\ claims \subseteq SUBSET Name

\* What each index of a lock state s must satisfy
TokenIndexed(s) ==
    /\ \A n \in Locked(s) : s.byToken[s.lock[n].token] = n
    /\ \A t \in Token : s.byToken[t] # NoNode =>
          /\ s.byToken[t] \in Locked(s)
          /\ s.lock[s.byToken[t]].token = t
          /\ t \in 1 .. s.gen

RefCounted(s) ==
    \A n \in Name : s.refCount[n] = Cardinality({m \in Locked(s) : n \in Walk[m]})

ExpiryIndexed(s) ==
    s.byExpiry = {n \in Locked(s) : s.lock[n].duration >= 0 /\ ~s.lock[n].held}

ConflictFree(s) == \A m, n \in Locked(s) : Covers(s, m, n) => m = n

\* byToken and the nodes agree, both ways, so no token outlives its lock and no
\* lock is unreachable by its token; tokens are never reused.
TokenIndex == TokenIndexed(ls)

\* The reference count of a name is the number of locked names at or below it
\* (what the repository's own test helper "consistent" recomputes), so a name
\* leaves byName exactly when nothing at or below it is locked.
RefCounts == RefCounted(ls)

\* A lock is in the heap exactly when it is finite and not held: a finite lock
\* always gets its chance to expire, a held or infinite one never expires.
ExpiryIndex == ExpiryIndexed(ls)

\* No two locks conflict: a name an infinite lock protects carries no other lock.
NoConflict == ConflictFree(ls)

HeldNodes(s) == {n \in Locked(s) : s.lock[n].held}

\* Exactly the nodes of outstanding release closures are held, and no node
\* belongs to two of them: hold and unhold never find an "inconsistent held
\* state" and no claim is confirmed twice.
HeldByClaims ==
    /\ HeldNodes(ls) = UNION claims
    /\ \A c, d \in claims : c \cap d # {} => c = d
    /\ {} \notin claims

=============================================================================
