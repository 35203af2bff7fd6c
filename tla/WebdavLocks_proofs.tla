-------------------------- MODULE WebdavLocks_proofs ------------------------
(***************************************************************************)
(* Proofs about the WebDAV handler and its lock system, for every number   *)
(* of clients, every tree of names and every bound on tokens and time.     *)
(*                                                                         *)
(* What the handlers rely on is said of one request and one lock state by  *)
(* RequestOk, so that "a call of somebody else changes nothing for this    *)
(* request" is one lemma (Undisturbed), and each action only has to look   *)
(* at the request that takes it.                                           *)
(***************************************************************************)
EXTENDS WebdavLocks, MemLS_proofs

ReqPc == {"idle", "lockSrc", "lockDst", "if", "write", "unlockDst", "unlockSrc"}

Request == [pc : ReqPc, names : [{1, 2} -> Name \cup {NoName}], target : SUBSET Name,
            now : Nat, token : [{1, 2} -> {NoToken} \cup Token], claim : SUBSET Name,
            shown : SUBSET Token]

\* The lock of token t on n is one that confirmLocks took for a request: it is
\* of zero depth, never expires, and no Confirm holds it.
TempLock(s, t, n) ==
    /\ n \in Locked(s)
    /\ s.lock[n].token = t
    /\ s.lock[n].zeroDepth
    /\ s.lock[n].duration < 0
    /\ ~s.lock[n].held

\* A request at work has a lock of its own for each name it guards.
Backed(s, r) ==
    \A n \in {r.names[1], r.names[2]} \ {NoName} :
        IF r.claim = {}
        THEN \E i \in {1, 2} : r.token[i] # NoToken /\ TempLock(s, r.token[i], n)
        ELSE \E m \in r.claim : Covers(s, m, n) /\ s.lock[m].token \in r.shown

\* A token in the hands of a request is of a temporary lock that stands, and that
\* no client was told of.
Standing(s, g, r) ==
    \A i \in {1, 2} : r.token[i] # NoToken =>
        r.token[i] \notin g /\ \E n \in Name : TempLock(s, r.token[i], n)

\* What holds of a request wherever it is
RequestOk(s, g, r) ==
    /\ Standing(s, g, r)
    /\ r.shown \subseteq g \cup {NoToken}
    /\ r.pc # "write" => r.claim = {}
    /\ r.claim # {} => r.token[1] = NoToken /\ r.token[2] = NoToken
    /\ r.pc \in {"idle", "if", "lockSrc"} =>
          r.token[1] = NoToken /\ r.token[2] = NoToken
    /\ r.pc = "if" => r.names[1] # NoName \/ r.names[2] # NoName
    /\ r.pc = "lockSrc" => r.names[1] # NoName
    /\ r.pc = "lockDst" =>
          /\ r.names[2] # NoName /\ r.token[2] = NoToken
          /\ r.names[1] # NoName =>
                r.token[1] # NoToken /\ TempLock(s, r.token[1], r.names[1])
    /\ r.pc = "write" => Backed(s, r)
    /\ r.pc = "unlockDst" => r.token[2] # NoToken
    /\ r.pc = "unlockSrc" => r.token[1] # NoToken /\ r.token[2] = NoToken

Typed ==
    /\ req \in [Client -> Request]
    /\ clock \in 0 .. MaxTime
    /\ granted \subseteq 1 .. ls.gen

Served == \A c \in Client : RequestOk(ls, granted, req[c])

\* No temporary lock belongs to two requests, or twice to one.
Apart ==
    \A c, d \in Client : \A i, j \in {1, 2} :
        req[c].token[i] = req[d].token[j] /\ req[c].token[i] # NoToken =>
            c = d /\ i = j

\* No lock is claimed by two requests.
Disjoint ==
    \A c, d \in Client : c # d => req[c].claim \cap req[d].claim = {}

\* The inductive invariant: the lock system's own, and what ties its locks to
\* the requests, both ways.
WInv ==
    /\ IInv
    /\ Typed
    /\ Served
    /\ Apart
    /\ Disjoint
    /\ ClaimsOwned
    /\ NoLeakedTempLock

-----------------------------------------------------------------------------
(* Requests                                                                  *)

\* Tokens are numbers, and none is not one that was given.
LEMMA TokenFacts ==
    ASSUME IInv
    PROVE  /\ NoToken \in Token /\ ls.gen \in Nat /\ ls.gen <= MaxToken
           /\ 1 .. ls.gen \subseteq Token
           /\ ls.gen + 1 # NoToken /\ ls.gen + 1 \notin 1 .. ls.gen
<1>1. ls.gen \in Nat /\ ls.gen <= MaxToken BY GoodTypes DEF IInv
<1>2. MaxToken \in Nat BY BoundAssumption
<1> QED BY <1>1, <1>2 DEF Token, NoToken

\* The fields of a request, and that a new one is well formed
LEMMA RequestFields ==
    ASSUME NEW r \in Request
    PROVE  /\ r.pc \in ReqPc /\ r.names \in [{1, 2} -> Name \cup {NoName}]
           /\ r.target \subseteq Name /\ r.now \in Nat
           /\ r.token \in [{1, 2} -> {NoToken} \cup Token]
           /\ r.claim \subseteq Name /\ r.shown \subseteq Token
BY DEF Request

\* A request that is idle asks nothing of the lock system.
LEMMA IdleOk ==
    ASSUME NEW s, NEW g
    PROVE  Idle \in Request /\ RequestOk(s, g, Idle)
<1>1. Idle \in Request BY DEF Idle, Request, ReqPc, NoToken
<1>2. /\ Idle.pc = "idle" /\ Idle.token[1] = NoToken /\ Idle.token[2] = NoToken
      /\ Idle.claim = {} /\ Idle.shown = {}
  BY DEF Idle
<1> QED BY <1>1, <1>2 DEF RequestOk, Standing

\* What other requests hold in their hands is held by the lock system.
LEMMA ClaimHeld ==
    ASSUME WInv, NEW c \in Client
    PROVE  req[c].claim \subseteq HeldNodes(ls)
BY DEF WInv, ClaimsOwned, IInv, HeldByClaims

\* A temporary lock that the call does not name is left as it is.
LEMMA TempKept ==
    ASSUME NEW s, NEW r, NEW T, Kept(s, r, T), NEW t, t \notin T, NEW n, TempLock(s, t, n)
    PROVE  TempLock(r, t, n)
BY DEF Kept, TempLock

\* A call of the lock system that does not name one of its tokens changes nothing
\* for a request, whatever token it is the first to give out.
LEMMA Undisturbed ==
    ASSUME WInv, NEW c \in Client, NEW T, Kept(ls, ls', T),
           NEW g, granted \subseteq g, g \subseteq granted \cup {ls.gen + 1},
           \A i \in {1, 2} : req[c].token[i] # NoToken => req[c].token[i] \notin T
    PROVE  RequestOk(ls', g, req[c])
<1> DEFINE r == req[c]
<1>1. RequestOk(ls, granted, r) BY DEF WInv, Served
<1>2. r \in Request BY DEF WInv, Typed
<1>3. r.claim \subseteq HeldNodes(ls) BY ClaimHeld
<1>4. IInv BY DEF WInv
<1> HIDE DEF r
<1>5. \A i \in {1, 2}, n \in Name :
        r.token[i] # NoToken /\ TempLock(ls, r.token[i], n) => TempLock(ls', r.token[i], n)
  BY TempKept DEF r
<1>6. Standing(ls', g, r)
  <2> SUFFICES ASSUME NEW i \in {1, 2}, r.token[i] # NoToken
               PROVE  r.token[i] \notin g /\ \E n \in Name : TempLock(ls', r.token[i], n)
    BY DEF Standing
  <2>1. PICK n \in Name : TempLock(ls, r.token[i], n)
    BY <1>1 DEF RequestOk, Standing
  <2>2. r.token[i] \notin granted BY <1>1 DEF RequestOk, Standing
  <2>3. r.token[i] # ls.gen + 1
    BY <2>1, <1>4, GoodTypes DEF IInv, TempLock
  <2> QED BY <1>5, <2>1, <2>2, <2>3
<1>7. Backed(ls, r) => Backed(ls', r)
  <2> SUFFICES ASSUME Backed(ls, r), NEW n \in {r.names[1], r.names[2]} \ {NoName}
               PROVE  IF r.claim = {}
                      THEN \E i \in {1, 2} : r.token[i] # NoToken /\ TempLock(ls', r.token[i], n)
                      ELSE \E m \in r.claim : /\ Covers(ls', m, n)
                                              /\ ls'.lock[m].token \in r.shown
    BY DEF Backed
  <2>1. n \in Name BY <1>2, RequestFields
  <2>2. CASE r.claim = {}
    BY <1>5, <2>1, <2>2 DEF Backed
  <2>3. CASE r.claim # {}
    BY <1>3, <2>3 DEF Backed, Kept, SameLock, Covers
  <2> QED BY <2>2, <2>3
<1>8. r.names[1] # NoName => r.names[1] \in Name BY <1>2, RequestFields
<1> QED BY <1>1, <1>5, <1>6, <1>7, <1>8 DEF RequestOk, r

\* The requests after a step of one of them that hands no token on
LEMMA ApartKept ==
    ASSUME WInv, NEW c \in Client, NEW r, req' = [req EXCEPT ![c] = r],
           \A i \in {1, 2} : r.token[i] \in {NoToken, req[c].token[i]}
    PROVE  Apart'
<1>1. /\ req'[c] = r /\ \A d \in Client \ {c} : req'[d] = req[d]
      /\ Apart
  BY DEF WInv, Typed
<1> QED BY <1>1 DEF Apart

\* The same after a step that gives a request the token just made
LEMMA ApartNew ==
    ASSUME WInv, NEW c \in Client, NEW r, req' = [req EXCEPT ![c] = r],
           NEW k \in {1, 2}, r.token[k] = ls.gen + 1,
           \A i \in {1, 2} \ {k} : r.token[i] = req[c].token[i]
    PROVE  Apart'
<1>1. /\ req'[c] = r /\ \A d \in Client \ {c} : req'[d] = req[d]
      /\ Apart
  BY DEF WInv, Typed
<1>2. \A d \in Client, i \in {1, 2} : req[d].token[i] # ls.gen + 1
  <2> SUFFICES ASSUME NEW d \in Client, NEW i \in {1, 2}, req[d].token[i] = ls.gen + 1
               PROVE  FALSE
    OBVIOUS
  <2>1. ls.gen + 1 # NoToken BY TokenFacts DEF WInv
  <2>2. PICK n \in Name : TempLock(ls, ls.gen + 1, n)
    BY <2>1 DEF WInv, Served, RequestOk, Standing
  <2> QED BY <2>2, TokenFacts, GoodTypes DEF WInv, IInv, TempLock
<1> QED BY <1>1, <1>2 DEF Apart

\* The claims after a step that neither confirms nor releases
LEMMA ClaimsKept ==
    ASSUME WInv, NEW c \in Client, NEW r, req' = [req EXCEPT ![c] = r],
           r.claim = req[c].claim, UNCHANGED claims
    PROVE  Disjoint' /\ ClaimsOwned'
<1>1. /\ req'[c] = r /\ \A d \in Client \ {c} : req'[d] = req[d]
  BY DEF WInv, Typed
<1>2. \A d \in Client : req'[d].claim = req[d].claim BY <1>1
<1> QED BY <1>2 DEF WInv, Disjoint, ClaimsOwned

\* The locks after a call, when the request that makes it keeps its tokens or
\* their locks are gone.
LEMMA NoneLeaked ==
    ASSUME WInv, NEW T, Kept(ls, ls', T), granted \subseteq granted',
           NEW c \in Client, NEW r, req' = [req EXCEPT ![c] = r],
           \A i \in {1, 2} : \/ r.token[i] = req[c].token[i]
                             \/ \A n \in Locked(ls') : ls'.lock[n].token # req[c].token[i],
           ls'.gen = ls.gen + 1 =>
              ls.gen + 1 \in granted' \cup {r.token[1], r.token[2]}
    PROVE  NoLeakedTempLock'
<1>1. /\ req'[c] = r /\ \A d \in Client \ {c} : req'[d] = req[d]
  BY DEF WInv, Typed
<1> SUFFICES ASSUME NEW n \in Locked(ls')
             PROVE  \/ ls'.lock[n].token \in granted'
                    \/ \E d \in Client : ls'.lock[n].token \in {req'[d].token[1], req'[d].token[2]}
  BY DEF NoLeakedTempLock
<1>2. CASE ls'.lock[n].token = ls.gen + 1 /\ ls'.gen = ls.gen + 1
  BY <1>1, <1>2
<1>3. CASE n \in Locked(ls) /\ SameLock(ls, ls', n)
  <2>1. ls'.lock[n].token = ls.lock[n].token BY <1>3 DEF SameLock
  <2>2. CASE ls.lock[n].token \in granted BY <2>1, <2>2
  <2>3. CASE \E d \in Client : ls.lock[n].token \in {req[d].token[1], req[d].token[2]}
    <3>1. PICK d \in Client : \E i \in {1, 2} : ls.lock[n].token = req[d].token[i]
      BY <2>3
    <3>2. PICK i \in {1, 2} : ls.lock[n].token = req[d].token[i] BY <3>1
    <3>3. req'[d].token[i] = req[d].token[i]
      BY <1>1, <2>1, <3>2
    <3> QED BY <2>1, <3>2, <3>3
  <2> QED BY <1>3, <2>2, <2>3 DEF WInv, NoLeakedTempLock
<1> QED BY <1>2, <1>3 DEF Kept

\* A call of the lock system by one request, put together
LEMMA Called ==
    ASSUME WInv, IInv', ls.gen <= ls'.gen, UNCHANGED <<clock, granted>>,
           NEW c \in Client, NEW r, r \in Request, req' = [req EXCEPT ![c] = r],
           RequestOk(ls', granted, r),
           \A d \in Client \ {c} : RequestOk(ls', granted, req[d])
    PROVE  Typed' /\ Served'
<1>1. /\ req'[c] = r /\ \A d \in Client \ {c} : req'[d] = req[d]
      /\ req' \in [Client -> Request]
  BY DEF WInv, Typed
<1>2. ls.gen \in Nat /\ ls'.gen \in Nat /\ ls.gen <= ls'.gen
  <2>1. ls'.gen \in Nat BY GoodTypes DEF IInv
  <2> QED BY <2>1, TokenFacts DEF WInv
<1>3. Typed' BY <1>1, <1>2 DEF WInv, Typed
<1> QED BY <1>1, <1>3 DEF Served

\* A token that a client may show is nobody's temporary lock.
LEMMA ShownIsNoTemp ==
    ASSUME WInv, NEW c \in Client, NEW i \in {1, 2}, req[c].token[i] # NoToken
    PROVE  req[c].token[i] \notin Shown
BY DEF WInv, Served, RequestOk, Standing, Shown

\* What a client may show is a token or none.
LEMMA ShownIsToken ==
    ASSUME WInv
    PROVE  Shown \subseteq Token
BY TokenFacts DEF WInv, Typed, Shown

\* Nobody's temporary lock is another's.
LEMMA OwnToken ==
    ASSUME WInv, NEW c \in Client, NEW i \in {1, 2}, req[c].token[i] # NoToken
    PROVE  /\ \A d \in Client \ {c} : \A j \in {1, 2} : req[d].token[j] # req[c].token[i]
           /\ \A j \in {1, 2} \ {i} : req[c].token[j] # req[c].token[i]
BY DEF WInv, Apart

-----------------------------------------------------------------------------
(* The actions                                                               *)

\* At the start there are neither locks nor requests.
LEMMA WInitInv == WInit => WInv
<1> SUFFICES ASSUME WInit PROVE WInv
  OBVIOUS
<1>1. IInv BY InitIInv DEF WInit
<1>2. Idle \in Request /\ RequestOk(ls, granted, Idle) BY IdleOk
<1>3. /\ req = [c \in Client |-> Idle] /\ granted = {} /\ clock = 0
      /\ claims = {} /\ Locked(ls) = {}
  BY DEF WInit, Init, NewMemLS, Locked
<1>4. Typed BY <1>2, <1>3, RequestAssumption DEF Typed
<1>5. Served BY <1>2, <1>3 DEF Served
<1>6. Idle.token[1] = NoToken /\ Idle.token[2] = NoToken /\ Idle.claim = {}
  BY DEF Idle
<1>7. Apart /\ Disjoint /\ ClaimsOwned /\ NoLeakedTempLock
  BY <1>3, <1>6 DEF Apart, Disjoint, ClaimsOwned, NoLeakedTempLock
<1> QED BY <1>1, <1>4, <1>5, <1>7 DEF WInv

\* A call that changes no request
LEMMA CalledIdle ==
    ASSUME WInv, IInv', NEW T, Kept(ls, ls', T), UNCHANGED <<claims, clock, req>>,
           granted \subseteq granted', granted' \subseteq granted \cup {ls.gen + 1},
           ls.gen + 1 \in granted' => ls'.gen = ls.gen + 1,
           ls'.gen = ls.gen + 1 => ls.gen + 1 \in granted',
           \A d \in Client : \A i \in {1, 2} :
              req[d].token[i] # NoToken => req[d].token[i] \notin T
    PROVE  WInv'
<1>1. ls.gen \in Nat /\ ls'.gen \in Nat /\ ls.gen <= ls'.gen
  <2>1. ls'.gen \in Nat BY GoodTypes DEF IInv
  <2> QED BY <2>1, TokenFacts DEF WInv, Kept
<1>2. Typed' BY <1>1 DEF WInv, Typed
<1>3. Served' BY Undisturbed DEF Served
<1>4. Apart' /\ Disjoint' /\ ClaimsOwned' BY DEF WInv, Apart, Disjoint, ClaimsOwned
<1>5. NoLeakedTempLock'
  <2> SUFFICES ASSUME NEW n \in Locked(ls')
               PROVE  \/ ls'.lock[n].token \in granted'
                      \/ \E d \in Client : ls'.lock[n].token \in {req[d].token[1], req[d].token[2]}
    BY DEF NoLeakedTempLock
  <2>1. CASE ls'.lock[n].token = ls.gen + 1 /\ ls'.gen = ls.gen + 1
    BY <2>1
  <2>2. CASE n \in Locked(ls) /\ SameLock(ls, ls', n)
    BY <2>2 DEF WInv, NoLeakedTempLock, SameLock
  <2> QED BY <2>1, <2>2 DEF Kept
<1> QED BY <1>2, <1>3, <1>4, <1>5 DEF WInv

\* LOCK
LEMMA HandleLockInv ==
    ASSUME WInv, NEW c \in Client, NEW p \in Requestable(c), NEW zeroDepth \in BOOLEAN,
           NEW duration \in Duration, NEW now \in Now,
           HandleLock(c, p, zeroDepth, duration, now)
    PROVE  WInv'
<1>1. IInv /\ now \in Nat /\ duration \in Int /\ Resolve(c, p) \in Name
  BY BoundAssumption, RequestAssumption DEF WInv, Now, Typed, Requestable
<1>2. CASE CreateOk(now, Resolve(c, p), zeroDepth, duration)
           /\ granted' = granted \cup {ls.gen + 1}
  <2>1. /\ IInv' /\ Kept(ls, ls', {}) /\ ls'.gen = ls.gen + 1
    BY <1>1, <1>2, CreateKeeps
  <2>2. UNCHANGED <<claims, clock, req>> BY <1>2 DEF HandleLock, CreateOk
  <2> QED BY <1>2, <2>1, <2>2, CalledIdle
<1>3. CASE CreateRefused(now, Resolve(c, p), zeroDepth) /\ UNCHANGED granted
  <2>1. /\ IInv' /\ Kept(ls, ls', {}) /\ ls'.gen = ls.gen
    BY <1>1, <1>3, CollectKeeps DEF CreateRefused
  <2>2. UNCHANGED <<claims, clock, req>> BY <1>3 DEF HandleLock, CreateRefused
  <2>3. ls.gen + 1 \notin granted /\ ls.gen # ls.gen + 1
    BY <1>1, TokenFacts DEF WInv, Typed
  <2> QED BY <1>3, <2>1, <2>2, <2>3, CalledIdle
<1> QED BY <1>2, <1>3 DEF HandleLock

\* LOCK without a body: a refresh
LEMMA HandleRefreshInv ==
    ASSUME WInv, NEW c \in Client, NEW t \in Shown, NEW duration \in Duration,
           NEW now \in Now, HandleRefresh(c, t, duration, now)
    PROVE  WInv'
<1>1. IInv /\ now \in Nat /\ duration \in Int /\ t \in Token
  BY BoundAssumption, RequestAssumption, ShownIsToken DEF WInv, Now, Typed
<1>2. IInv' /\ Kept(ls, ls', {t}) /\ ls'.gen = ls.gen
  <2>1. CASE RefreshOk(now, t, duration) BY <1>1, <2>1, RefreshKeeps
  <2>2. CASE TokenRefused(now, t)
    <3>1. IInv' /\ Kept(ls, ls', {}) /\ ls'.gen = ls.gen
      BY <1>1, <2>2, CollectKeeps DEF TokenRefused
    <3> QED BY <3>1 DEF Kept
  <2> QED BY <2>1, <2>2 DEF HandleRefresh
<1>3. UNCHANGED <<claims, clock, req, granted>>
  BY DEF HandleRefresh, RefreshOk, TokenRefused
<1>4. ls.gen + 1 \notin granted /\ ls.gen # ls.gen + 1
  BY <1>1, TokenFacts DEF WInv, Typed
<1> QED BY <1>2, <1>3, <1>4, ShownIsNoTemp, CalledIdle

\* UNLOCK
LEMMA HandleUnlockInv ==
    ASSUME WInv, NEW c \in Client, NEW t \in Shown, NEW now \in Now,
           HandleUnlock(c, t, now)
    PROVE  WInv'
<1>1. IInv /\ t \in Token BY ShownIsToken DEF WInv
<1>2. IInv' /\ Kept(ls, ls', {t}) /\ ls'.gen = ls.gen
  <2>1. CASE UnlockOk(now, t) BY <1>1, <2>1, UnlockKeeps
  <2>2. CASE TokenRefused(now, t)
    <3>1. IInv' /\ Kept(ls, ls', {}) /\ ls'.gen = ls.gen
      BY <1>1, <2>2, CollectKeeps DEF TokenRefused
    <3> QED BY <3>1 DEF Kept
  <2> QED BY <2>1, <2>2 DEF HandleUnlock
<1>3. UNCHANGED <<claims, clock, req, granted>>
  BY DEF HandleUnlock, UnlockOk, TokenRefused
<1>4. ls.gen + 1 \notin granted /\ ls.gen # ls.gen + 1
  BY <1>1, TokenFacts DEF WInv, Typed
<1> QED BY <1>2, <1>3, <1>4, ShownIsNoTemp, CalledIdle

\* A request that comes in has no lock yet.
LEMMA ArriveInv ==
    ASSUME WInv, NEW c \in Client, NEW names \in [{1, 2} -> Name \cup {NoName}],
           names[1] # NoName \/ names[2] # NoName, NEW target \in SUBSET Name,
           NEW hasIf \in BOOLEAN, NEW now \in Now, Arrive(c, names, target, hasIf, now)
    PROVE  WInv'
<1> DEFINE pc == IF hasIf THEN "if"
                 ELSE IF names[1] # NoName THEN "lockSrc" ELSE "lockDst"
           since == IF hasIf THEN 0 ELSE now
           r == [Idle EXCEPT !.names = names, !.target = target, !.now = since,
                             !.pc = pc]
<1>1. /\ req[c].pc = "idle" /\ req' = [req EXCEPT ![c] = r]
      /\ UNCHANGED <<ls, claims, clock, granted>>
  BY DEF Arrive
<1>2. now \in Nat BY RequestAssumption DEF WInv, Typed, Now
<1>3. since \in Nat /\ pc \in ReqPc BY <1>2 DEF ReqPc
<1> HIDE DEF since
<1>4. r \in Request
  <2> HIDE DEF pc
  <2>1. Idle \in Request BY IdleOk
  <2> QED BY <1>3, <2>1 DEF Idle, Request
<1>5. /\ r.names = names /\ r.token[1] = NoToken /\ r.token[2] = NoToken
       /\ r.claim = {} /\ r.shown = {} /\ r.pc = pc
  <2> HIDE DEF pc
  <2> QED BY DEF Idle
<1> HIDE DEF r
<1>6. RequestOk(ls, granted, r)
  BY <1>5 DEF RequestOk, Standing
<1>7. IInv' /\ Kept(ls, ls', {})
  <2>1. ls.gen \in Nat BY TokenFacts DEF WInv
  <2> QED BY <1>1, <2>1 DEF WInv, IInv, HeldByClaims, Good, HeldNodes, LockState,
          LockDetails, TokenIndexed, RefCounted, ExpiryIndexed, ConflictFree, Covers,
          Locked, Kept, SameLock
<1>8. ls.gen + 1 \notin granted /\ ls.gen # ls.gen + 1
  BY TokenFacts DEF WInv, Typed
<1>9. Typed' /\ Served'
  <2>1. \A d \in Client \ {c} : RequestOk(ls', granted, req[d])
    BY <1>1, <1>7, Undisturbed
  <2>2. ls.gen <= ls'.gen /\ RequestOk(ls', granted, r) BY <1>1, <1>6, <1>7 DEF Kept
  <2> QED BY <1>1, <1>4, <1>7, <2>1, <2>2, Called
<1>10. RequestOk(ls, granted, req[c]) /\ req[c].pc # "write"
  BY <1>1 DEF WInv, Served
<1>11. \A i \in {1, 2} : r.token[i] = req[c].token[i]
  BY <1>1, <1>5, <1>10 DEF RequestOk
<1>12. Apart' BY <1>1, <1>11, ApartKept
<1>13. Disjoint' /\ ClaimsOwned'
  BY <1>1, <1>5, <1>10, ClaimsKept DEF RequestOk
<1>14. NoLeakedTempLock'
  BY <1>1, <1>7, <1>8, <1>11, NoneLeaked
<1> QED BY <1>7, <1>9, <1>12, <1>13, <1>14 DEF WInv

\* PUT, DELETE, MKCOL, PROPPATCH
LEMMA HandleWriteInv ==
    ASSUME WInv, NEW c \in Client, NEW p \in Requestable(c), NEW hasIf \in BOOLEAN,
           NEW now \in Now, HandleWrite(c, p, hasIf, now)
    PROVE  WInv'
<1> DEFINE names == <<p, NoName>>
<1>1. p \in Name /\ Resolve(c, p) \in Name /\ p # NoName
  BY RequestAssumption DEF Requestable
<1>2. names \in [{1, 2} -> Name \cup {NoName}] /\ names[1] # NoName
  BY <1>1
<1>3. Arrive(c, names, {Resolve(c, p)}, hasIf, now) BY DEF HandleWrite
<1> HIDE DEF names
<1> QED BY <1>1, <1>2, <1>3, ArriveInv

\* COPY and MOVE
LEMMA HandleCopyMoveInv ==
    ASSUME WInv, NEW c \in Client, NEW p \in Requestable(c), NEW q \in Requestable(c),
           NEW move \in BOOLEAN, NEW hasIf \in BOOLEAN, NEW now \in Now,
           HandleCopyMove(c, p, q, move, hasIf, now)
    PROVE  WInv'
<1> DEFINE src == Resolve(c, p)
           dst == Resolve(c, q)
           names == <<IF move THEN src ELSE NoName, dst>>
           target == IF move THEN {src, dst} ELSE {dst}
<1>1. src \in Name /\ dst \in Name /\ dst # NoName
  BY RequestAssumption DEF Requestable
<1>2. names \in [{1, 2} -> Name \cup {NoName}] /\ names[2] # NoName
  BY <1>1
<1>3. Arrive(c, names, target, hasIf, now) BY DEF HandleCopyMove
<1>4. target \in SUBSET Name BY <1>1
<1> HIDE DEF names, target, src, dst
<1> QED BY <1>2, <1>3, <1>4, ArriveInv

\* The request that gives up keeps the lock of its source until it unlocks it.
LEMMA LeaveFields ==
    ASSUME NEW c \in Client, req \in [Client -> Request], Leave(c)
    PROVE  \E r \in Request :
              /\ req' = [req EXCEPT ![c] = r]
              /\ r.token[1] = req[c].token[1] /\ r.token[2] = req[c].token[2]
              /\ r.claim = {} /\ r.shown = {}
              /\ r.pc = IF r.token[2] # NoToken THEN "unlockDst"
                        ELSE IF r.token[1] # NoToken THEN "unlockSrc" ELSE "idle"
<1>1. req[c] \in Request /\ Idle \in Request BY IdleOk
<1>2. /\ Idle.token[1] = NoToken /\ Idle.token[2] = NoToken /\ Idle.claim = {}
      /\ Idle.shown = {} /\ Idle.pc = "idle"
  BY DEF Idle
<1>3. CASE req[c].token = <<NoToken, NoToken>>
  <2>1. req' = [req EXCEPT ![c] = Idle] BY <1>3 DEF Leave
  <2>2. req[c].token[1] = NoToken /\ req[c].token[2] = NoToken BY <1>3
  <2> QED BY <1>1, <1>2, <2>1, <2>2
<1>4. CASE req[c].token # <<NoToken, NoToken>>
  <2> DEFINE r == [Idle EXCEPT !.token = req[c].token, !.now = req[c].now,
                               !.pc = IF req[c].token[2] # NoToken THEN "unlockDst"
                                                                   ELSE "unlockSrc"]
  <2>1. req' = [req EXCEPT ![c] = r] BY <1>4 DEF Leave
  <2>2. /\ r.token = req[c].token /\ r.claim = {} /\ r.shown = {}
        /\ r.pc = IF req[c].token[2] # NoToken THEN "unlockDst" ELSE "unlockSrc"
    BY DEF Idle
  <2>3. r \in Request BY <1>1 DEF Request, ReqPc, Idle
  <2>4. req[c].token \in [{1, 2} -> {NoToken} \cup Token] BY <1>1, RequestFields
  <2>5. req[c].token[1] # NoToken \/ req[c].token[2] # NoToken BY <1>4, <2>4
  <2> HIDE DEF r
  <2> QED BY <2>1, <2>2, <2>3, <2>5
<1> QED BY <1>3, <1>4

\* A request that leaves with its tokens is as it should be.
LEMMA LeaveOk ==
    ASSUME WInv, NEW c \in Client, Kept(ls, ls', {}), granted' = granted, NEW r,
           r.token[1] = req[c].token[1], r.token[2] = req[c].token[2],
           r.claim = {}, r.shown = {},
           r.pc = IF r.token[2] # NoToken THEN "unlockDst"
                  ELSE IF r.token[1] # NoToken THEN "unlockSrc" ELSE "idle"
    PROVE  RequestOk(ls', granted', r)
<1>1. RequestOk(ls', granted', req[c]) BY Undisturbed
<1> QED BY <1>1 DEF RequestOk, Standing

\* confirmLocks takes the lock of the source, or gives up.
LEMMA LockSrcInv ==
    ASSUME WInv, NEW c \in Client, LockSrc(c)
    PROVE  WInv'
<1> DEFINE src == req[c].names[1]
           dst == req[c].names[2]
<1>1. /\ req \in [Client -> Request] /\ req[c] \in Request /\ RequestOk(ls, granted, req[c])
      /\ req[c].pc = "lockSrc" /\ IInv
      /\ UNCHANGED <<clock, granted>>
  BY DEF WInv, Typed, Served, LockSrc
<1>2. /\ src \in Name /\ req[c].now \in Nat /\ dst \in Name \cup {NoName}
      /\ req[c].token[1] = NoToken /\ req[c].token[2] = NoToken /\ req[c].claim = {}
      /\ req[c].token \in [{1, 2} -> {NoToken} \cup Token] /\ src # NoName
  BY <1>1, RequestFields DEF RequestOk
<1>3. ls.gen + 1 \notin granted /\ ls.gen # ls.gen + 1
  BY TokenFacts DEF WInv, Typed
<1>4. CASE CreateOk(req[c].now, src, TRUE, -1)
           /\ req' = [req EXCEPT ![c].token[1] = ls.gen + 1,
                                 ![c].pc = IF dst = NoName THEN "write" ELSE "lockDst"]
  <2> DEFINE r == [req[c] EXCEPT !.token = [@ EXCEPT ![1] = ls.gen + 1],
                                 !.pc = IF dst = NoName THEN "write" ELSE "lockDst"]
  <2>1. /\ IInv' /\ Kept(ls, ls', {}) /\ ls'.gen = ls.gen + 1
        /\ TempLock(ls', ls.gen + 1, src)
        /\ claims' = claims
    <3>1. -1 \in Int /\ -1 < 0 OBVIOUS
    <3>2. PICK t \in Nat, n \in Name, z \in BOOLEAN, e \in Int :
              n = src /\ z = TRUE /\ e = -1 /\ CreateOk(t, n, z, e)
      <4> CreateOk(req[c].now, src, TRUE, -1) BY <1>4
      <4> QED BY <1>2, <3>1
    <3>3. /\ IInv' /\ Kept(ls, ls', {}) /\ ls'.gen = ls.gen + 1
          /\ n \in Locked(ls')
          /\ ls'.lock[n].token = ls.gen + 1
          /\ ls'.lock[n].zeroDepth = z
          /\ ls'.lock[n].duration = e
          /\ ~ls'.lock[n].held
      <4> IInv BY <1>1
      <4> CreateOk(t, n, z, e) BY <3>2
      <4> QED BY CreateKeeps
    <3>4. claims' = claims BY <1>4 DEF CreateOk
    <3> QED BY <3>1, <3>2, <3>3, <3>4 DEF TempLock
  <2>2. ls.gen + 1 \in Token /\ ls.gen + 1 # NoToken
    BY <2>1, TokenFacts, GoodTypes DEF WInv, IInv, Token
  <2>3. req' = [req EXCEPT ![c] = r] BY <1>1, <1>4
  <2>4. /\ r.token[1] = ls.gen + 1 /\ r.token[2] = NoToken /\ r.names = req[c].names
        /\ r.claim = {} /\ r.shown = req[c].shown
        /\ r.pc = IF dst = NoName THEN "write" ELSE "lockDst"
    BY <1>1, <1>2 DEF Request
  <2>5. r \in Request BY <1>1, <1>2, <2>2 DEF Request, ReqPc
  <2> HIDE DEF r
  <2>6. RequestOk(ls', granted', req[c]) BY <2>1, <1>1, Undisturbed
  <2>7. Standing(ls', granted', r)
    BY <1>1, <1>2, <1>3, <2>1, <2>4 DEF Standing
  <2>8. RequestOk(ls', granted', r)
    BY <1>2, <2>1, <2>2, <2>4, <2>6, <2>7 DEF RequestOk, Backed
  <2>9. Typed' /\ Served'
    <3>1. \A d \in Client \ {c} : RequestOk(ls', granted, req[d])
      BY <2>1, Undisturbed
    <3>2. ls.gen <= ls'.gen BY <2>1 DEF Kept
    <3> QED BY <1>1, <3>1, <3>2, <2>1, <2>3, <2>5, <2>8, Called
  <2>10. Apart'
    <3>1. \A i \in {1, 2} \ {1} : r.token[i] = req[c].token[i] BY <1>2, <2>4
    <3> QED BY <2>3, <2>4, <3>1, ApartNew
  <2>11. Disjoint' /\ ClaimsOwned' BY <1>2, <2>1, <2>3, <2>4, ClaimsKept
  <2>12. NoLeakedTempLock'
    <3>1. \A n \in Locked(ls') : ls'.lock[n].token # NoToken
      BY <2>1, GoodTypes DEF IInv, NoToken
    <3> QED BY <1>1, <1>2, <2>1, <2>3, <2>4, <3>1, NoneLeaked
  <2> QED BY <2>1, <2>9, <2>10, <2>11, <2>12 DEF WInv
<1>5. CASE CreateRefused(req[c].now, src, TRUE) /\ Finish(c)
  <2>1. /\ IInv' /\ Kept(ls, ls', {}) /\ ls'.gen = ls.gen /\ claims' = claims
    BY <1>1, <1>5, CollectKeeps DEF CreateRefused
  <2>2. req' = [req EXCEPT ![c] = Idle] BY <1>5 DEF Finish
  <2>3. Idle \in Request /\ RequestOk(ls', granted', Idle) BY IdleOk
  <2>4. Idle.token[1] = NoToken /\ Idle.token[2] = NoToken /\ Idle.claim = {}
    BY DEF Idle
  <2>5. Typed' /\ Served'
    <3>1. \A d \in Client \ {c} : RequestOk(ls', granted, req[d])
      BY <2>1, Undisturbed
    <3>2. ls.gen <= ls'.gen BY <2>1 DEF Kept
    <3> QED BY <1>1, <3>1, <3>2, <2>1, <2>2, <2>3, Called
  <2>6. Apart' BY <2>2, <2>4, ApartKept
  <2>7. Disjoint' /\ ClaimsOwned' BY <1>2, <2>1, <2>2, <2>4, ClaimsKept
  <2>8. NoLeakedTempLock' BY <1>1, <1>2, <1>3, <2>1, <2>2, <2>4, NoneLeaked
  <2> QED BY <2>1, <2>5, <2>6, <2>7, <2>8 DEF WInv
<1> QED BY <1>4, <1>5 DEF LockSrc

\* confirmLocks takes the lock of the destination, or gives the first one back.
LEMMA LockDstInv ==
    ASSUME WInv, NEW c \in Client, LockDst(c)
    PROVE  WInv'
<1> DEFINE src == req[c].names[1]
           dst == req[c].names[2]
<1>1. /\ req \in [Client -> Request] /\ req[c] \in Request /\ RequestOk(ls, granted, req[c])
      /\ req[c].pc = "lockDst" /\ IInv
      /\ UNCHANGED <<clock, granted>>
  BY DEF WInv, Typed, Served, LockDst
<1>2. /\ dst \in Name /\ req[c].now \in Nat /\ src \in Name \cup {NoName}
      /\ req[c].token[2] = NoToken /\ req[c].claim = {}
      /\ req[c].token \in [{1, 2} -> {NoToken} \cup Token] /\ dst # NoName
  BY <1>1, RequestFields DEF RequestOk
<1>3. ls.gen + 1 \notin granted /\ ls.gen # ls.gen + 1
  BY TokenFacts DEF WInv, Typed
<1>4. CASE CreateOk(req[c].now, dst, TRUE, -1)
           /\ req' = [req EXCEPT ![c].pc = "write", ![c].token[2] = ls.gen + 1]
  <2> DEFINE r == [req[c] EXCEPT !.pc = "write",
                                 !.token = [@ EXCEPT ![2] = ls.gen + 1]]
  <2>1. /\ IInv' /\ Kept(ls, ls', {}) /\ ls'.gen = ls.gen + 1
        /\ TempLock(ls', ls.gen + 1, dst)
        /\ claims' = claims
    <3>1. -1 \in Int /\ -1 < 0 OBVIOUS
    <3>2. PICK t \in Nat, n \in Name, z \in BOOLEAN, e \in Int :
              n = dst /\ z = TRUE /\ e = -1 /\ CreateOk(t, n, z, e)
      <4> CreateOk(req[c].now, dst, TRUE, -1) BY <1>4
      <4> QED BY <1>2, <3>1
    <3>3. /\ IInv' /\ Kept(ls, ls', {}) /\ ls'.gen = ls.gen + 1
          /\ n \in Locked(ls')
          /\ ls'.lock[n].token = ls.gen + 1
          /\ ls'.lock[n].zeroDepth = z
          /\ ls'.lock[n].duration = e
          /\ ~ls'.lock[n].held
      <4> IInv BY <1>1
      <4> CreateOk(t, n, z, e) BY <3>2
      <4> QED BY CreateKeeps
    <3>4. claims' = claims BY <1>4 DEF CreateOk
    <3> QED BY <3>1, <3>2, <3>3, <3>4 DEF TempLock
  <2>2. ls.gen + 1 \in Token /\ ls.gen + 1 # NoToken
    BY <2>1, TokenFacts, GoodTypes DEF WInv, IInv, Token
  <2>3. req' = [req EXCEPT ![c] = r] BY <1>1, <1>4
  <2>4. /\ r.token[2] = ls.gen + 1 /\ r.token[1] = req[c].token[1]
        /\ r.names = req[c].names
        /\ r.claim = {} /\ r.shown = req[c].shown /\ r.pc = "write"
    BY <1>1, <1>2 DEF Request
  <2>5. r \in Request BY <1>1, <1>2, <2>2 DEF Request, ReqPc
  <2> HIDE DEF r
  <2>6. RequestOk(ls', granted', req[c]) BY <2>1, <1>1, Undisturbed
  <2>7. Standing(ls', granted', r)
    BY <1>1, <1>2, <1>3, <2>1, <2>4, <2>6 DEF Standing, RequestOk
  <2>8. RequestOk(ls', granted', r)
    BY <1>1, <1>2, <2>1, <2>2, <2>4, <2>6, <2>7 DEF RequestOk, Backed
  <2>9. Typed' /\ Served'
    <3>1. \A d \in Client \ {c} : RequestOk(ls', granted, req[d])
      BY <2>1, Undisturbed
    <3>2. ls.gen <= ls'.gen BY <2>1 DEF Kept
    <3> QED BY <1>1, <3>1, <3>2, <2>1, <2>3, <2>5, <2>8, Called
  <2>10. Apart'
    <3>1. \A i \in {1, 2} \ {2} : r.token[i] = req[c].token[i] BY <1>2, <2>4
    <3> QED BY <2>3, <2>4, <3>1, ApartNew
  <2>11. Disjoint' /\ ClaimsOwned' BY <1>2, <2>1, <2>3, <2>4, ClaimsKept
  <2>12. NoLeakedTempLock'
    <3>1. \A n \in Locked(ls') : ls'.lock[n].token # NoToken
      BY <2>1, GoodTypes DEF IInv, NoToken
    <3> QED BY <1>1, <1>2, <2>1, <2>3, <2>4, <3>1, NoneLeaked
  <2> QED BY <2>1, <2>9, <2>10, <2>11, <2>12 DEF WInv
<1>5. CASE CreateRefused(req[c].now, dst, TRUE) /\ Leave(c)
  <2>1. /\ IInv' /\ Kept(ls, ls', {}) /\ ls'.gen = ls.gen /\ claims' = claims
    BY <1>1, <1>5, CollectKeeps DEF CreateRefused
  <2>2. PICK r \in Request :
              /\ req' = [req EXCEPT ![c] = r]
              /\ r.token[1] = req[c].token[1] /\ r.token[2] = req[c].token[2]
              /\ r.claim = {} /\ r.shown = {}
              /\ r.pc = IF r.token[2] # NoToken THEN "unlockDst"
                        ELSE IF r.token[1] # NoToken THEN "unlockSrc" ELSE "idle"
    BY <1>1, <1>5, LeaveFields
  <2>3. RequestOk(ls', granted', r) BY <1>1, <2>1, <2>2, LeaveOk
  <2>4. Typed' /\ Served'
    <3>1. \A d \in Client \ {c} : RequestOk(ls', granted, req[d])
      BY <2>1, Undisturbed
    <3>2. ls.gen <= ls'.gen BY <2>1 DEF Kept
    <3> QED BY <1>1, <3>1, <3>2, <2>1, <2>2, <2>3, Called
  <2>5. Apart' BY <2>2, ApartKept
  <2>6. Disjoint' /\ ClaimsOwned' BY <1>2, <2>1, <2>2, ClaimsKept
  <2>7. NoLeakedTempLock' BY <1>1, <1>2, <1>3, <2>1, <2>2, NoneLeaked
  <2> QED BY <2>1, <2>4, <2>5, <2>6, <2>7 DEF WInv
<1> QED BY <1>4, <1>5 DEF LockDst

\* One list of the If header is tried.
LEMMA TryListInv ==
    ASSUME WInv, NEW c \in Client, NEW list \in IfList, NEW now \in Now,
           TryList(c, list, now)
    PROVE  WInv'
<1> DEFINE src == IF list.tag = NoName THEN req[c].names[1] ELSE list.tag
           names == {src, req[c].names[2]} \ {NoName}
           shown == list.conditions
<1>1. /\ req \in [Client -> Request] /\ req[c] \in Request /\ RequestOk(ls, granted, req[c])
      /\ req[c].pc = "if" /\ IInv
      /\ UNCHANGED <<clock, granted>>
  BY DEF WInv, Typed, Served, TryList
<1>2. /\ req[c].token[1] = NoToken /\ req[c].token[2] = NoToken /\ req[c].claim = {}
      /\ req[c].names \in [{1, 2} -> Name \cup {NoName}]
      /\ req[c].names[1] # NoName \/ req[c].names[2] # NoName
  BY <1>1, RequestFields DEF RequestOk
<1>3. /\ shown \in SUBSET Token /\ shown \subseteq granted \cup {NoToken}
      /\ list.tag \in Tags \cup {NoName}
  BY TokenFacts DEF IfList, WInv, Typed
<1>4. src \in Name \cup {NoName} /\ names \in SUBSET Name /\ names # {}
  BY <1>2, <1>3, RequestAssumption
<1>5. ls.gen + 1 \notin granted /\ ls.gen # ls.gen + 1
  BY TokenFacts DEF WInv, Typed
<1>6. \A d \in Client, i \in {1, 2} : req[d].token[i] # NoToken => req[d].token[i] \notin shown
  BY <1>3, ShownIsNoTemp DEF Shown
<1>7. CASE /\ ConfirmOk(now, names, shown)
           /\ \E nodes \in claims' \ claims :
                 req' = [req EXCEPT ![c].pc = "write", ![c].names[1] = src,
                                    ![c].shown = shown, ![c].claim = nodes]
  <2> HIDE DEF src, names, shown
  <2>1. IInv' /\ Kept(ls, ls', shown) /\ ls'.gen = ls.gen /\ Claims(names, shown)
    BY <1>1, <1>3, <1>4, <1>7, ConfirmKeeps
  <2>2. PICK nodes \in SUBSET Locked(ls') :
           /\ nodes # {} /\ nodes \cap UNION claims = {}
           /\ claims' = claims \cup {nodes}
           /\ Protect(ls', nodes, names, shown)
    BY <2>1 DEF Claims
  <2>3. claims' \ claims = {nodes} BY <2>2
  <2> DEFINE r == [req[c] EXCEPT !.pc = "write", !.names = [@ EXCEPT ![1] = src],
                                 !.shown = shown, !.claim = nodes]
  <2>4. req' = [req EXCEPT ![c] = r]
    <3>1. req' = [req EXCEPT ![c].pc = "write", ![c].names[1] = src,
                             ![c].shown = shown, ![c].claim = nodes]
      BY <1>7, <2>3
    <3> QED BY <1>1, <3>1
  <2>5. nodes \subseteq Name BY <2>2 DEF Locked
  <2>6. /\ r.pc = "write" /\ r.names[1] = src /\ r.names[2] = req[c].names[2]
        /\ r.shown = shown /\ r.claim = nodes /\ r.token = req[c].token
    BY <1>1, <1>2 DEF Request
  <2>7. r \in Request
    <3>1. [req[c].names EXCEPT ![1] = src] \in [{1, 2} -> Name \cup {NoName}] BY <1>2, <1>4
    <3> QED BY <1>1, <1>3, <2>5, <3>1 DEF Request, ReqPc
  <2> HIDE DEF r
  <2>8. Backed(ls', r)
    <3> SUFFICES ASSUME NEW n \in names
                 PROVE  \E m \in nodes : Covers(ls', m, n) /\ ls'.lock[m].token \in shown
      BY <2>2, <2>6 DEF Backed, names
    <3> QED BY <2>2 DEF Protect
  <2>9. RequestOk(ls', granted, r)
    BY <1>2, <1>3, <2>6, <2>8 DEF RequestOk, Standing
  <2>10. Typed' /\ Served'
    <3>1. \A d \in Client \ {c} : RequestOk(ls', granted, req[d])
      BY <1>6, <2>1, Undisturbed
    <3>2. ls.gen <= ls'.gen BY <2>1 DEF Kept
    <3> QED BY <1>1, <2>1, <2>4, <2>7, <2>9, <3>1, <3>2, Called
  <2>11. Apart' BY <2>4, <2>6, ApartKept
  <2>12. /\ req'[c].claim = nodes
         /\ \A d \in Client \ {c} : req'[d].claim = req[d].claim
    BY <1>1, <2>4, <2>6
  <2>13. \A d \in Client : req[d].claim \subseteq UNION claims
    BY DEF WInv, ClaimsOwned
  <2>14. Disjoint' BY <2>2, <2>12, <2>13 DEF Disjoint, WInv
  <2>15. ClaimsOwned'
    <3>1. claims = {req[d].claim : d \in Client} \ {{}} BY DEF WInv, ClaimsOwned
    <3>2. {req'[d].claim : d \in Client} = {req[d].claim : d \in Client \ {c}} \cup {nodes}
      BY <2>12
    <3>3. {req[d].claim : d \in Client} = {req[d].claim : d \in Client \ {c}} \cup {{}}
      BY <1>2
    <3>4. claims' = {req'[d].claim : d \in Client} \ {{}}
      BY <2>2, <3>1, <3>2, <3>3
    <3> QED BY <3>4 DEF ClaimsOwned
  <2>16. NoLeakedTempLock' BY <1>1, <1>5, <2>1, <2>4, <2>6, NoneLeaked
  <2> QED BY <2>1, <2>10, <2>11, <2>14, <2>15, <2>16 DEF WInv
<1>8. CASE ConfirmFailed(now, names, shown) /\ Finish(c)
  <2>1. IInv' /\ Kept(ls, ls', {}) /\ ls'.gen = ls.gen /\ claims' = claims
    BY <1>1, <1>8, CollectKeeps DEF ConfirmFailed
  <2>2. req' = [req EXCEPT ![c] = Idle] BY <1>8 DEF Finish
  <2>3. Idle \in Request /\ RequestOk(ls', granted, Idle) BY IdleOk
  <2>4. Idle.token[1] = NoToken /\ Idle.token[2] = NoToken /\ Idle.claim = {}
    BY DEF Idle
  <2>5. Typed' /\ Served'
    <3>1. \A d \in Client \ {c} : RequestOk(ls', granted, req[d])
      BY <2>1, Undisturbed
    <3>2. ls.gen <= ls'.gen BY <2>1 DEF Kept
    <3> QED BY <1>1, <3>1, <3>2, <2>1, <2>2, <2>3, Called
  <2>6. Apart' BY <2>2, <2>4, ApartKept
  <2>7. Disjoint' /\ ClaimsOwned' BY <1>2, <2>1, <2>2, <2>4, ClaimsKept
  <2>8. NoLeakedTempLock' BY <1>1, <1>2, <1>5, <2>1, <2>2, <2>4, NoneLeaked
  <2> QED BY <2>1, <2>5, <2>6, <2>7, <2>8 DEF WInv
<1>9. CASE ConfirmFailed(now, names, shown) /\ UNCHANGED req
  <2>1. IInv' /\ Kept(ls, ls', {}) /\ ls'.gen = ls.gen /\ claims' = claims
    BY <1>1, <1>9, CollectKeeps DEF ConfirmFailed
  <2> QED BY <1>1, <1>5, <1>9, <2>1, CalledIdle
<1> QED BY <1>7, <1>8, <1>9 DEF TryList

\* A step of a request that leaves the lock system alone disturbs nothing.
LEMMA SameLocks ==
    ASSUME WInv, UNCHANGED lsVars
    PROVE  IInv' /\ Kept(ls, ls', {}) /\ ls'.gen = ls.gen
<1>1. ls.gen \in Nat BY TokenFacts DEF WInv
<1> QED BY <1>1 DEF lsVars, WInv, IInv, HeldByClaims, Good, HeldNodes, LockState,
        LockDetails, TokenIndexed, RefCounted, ExpiryIndexed, ConflictFree, Covers,
        Locked, Kept, SameLock

\* The handler is done: the claim is returned, or the locks are to be unlocked.
LEMMA WorkInv ==
    ASSUME WInv, NEW c \in Client, Work(c)
    PROVE  WInv'
<1>1. /\ req \in [Client -> Request] /\ req[c] \in Request /\ RequestOk(ls, granted, req[c])
      /\ req[c].pc = "write" /\ IInv
      /\ UNCHANGED <<clock, granted>>
  BY DEF WInv, Typed, Served, Work
<1>2. ls.gen + 1 \notin granted /\ ls.gen # ls.gen + 1
  BY TokenFacts DEF WInv, Typed
<1>3. CASE req[c].claim # {} /\ Release(req[c].claim) /\ Finish(c)
  <2> DEFINE nodes == req[c].claim
  <2>1. /\ IInv' /\ Kept(ls, ls', {}) /\ ls'.gen = ls.gen
        /\ claims' = claims \ {nodes}
    BY <1>1, <1>3, ReleaseKeeps DEF Release
  <2>2. req' = [req EXCEPT ![c] = Idle] BY <1>3 DEF Finish
  <2>3. Idle \in Request /\ RequestOk(ls', granted, Idle) BY IdleOk
  <2>4. Idle.token[1] = NoToken /\ Idle.token[2] = NoToken /\ Idle.claim = {}
    BY DEF Idle
  <2>5. Typed' /\ Served'
    <3>1. \A d \in Client \ {c} : RequestOk(ls', granted, req[d])
      BY <2>1, Undisturbed
    <3>2. ls.gen <= ls'.gen BY <2>1 DEF Kept
    <3> QED BY <1>1, <3>1, <3>2, <2>1, <2>2, <2>3, Called
  <2>6. Apart' BY <2>2, <2>4, ApartKept
  <2>7. /\ req'[c].claim = {}
        /\ \A d \in Client \ {c} : req'[d].claim = req[d].claim
    BY <1>1, <2>2, <2>4
  <2>8. Disjoint' BY <2>7 DEF Disjoint, WInv
  <2>9. ClaimsOwned'
    <3>1. claims = {req[d].claim : d \in Client} \ {{}} BY DEF WInv, ClaimsOwned
    <3>2. {req'[d].claim : d \in Client} = {req[d].claim : d \in Client \ {c}} \cup {{}}
      BY <2>7
    <3>3. {req[d].claim : d \in Client} = {req[d].claim : d \in Client \ {c}} \cup {nodes}
      OBVIOUS
    <3>4. nodes \notin {req[d].claim : d \in Client \ {c}}
      BY <1>3 DEF WInv, Disjoint
    <3>5. claims' = {req'[d].claim : d \in Client} \ {{}}
      BY <1>3, <2>1, <3>1, <3>2, <3>3, <3>4
    <3> QED BY <3>5 DEF ClaimsOwned
  <2>10. \A i \in {1, 2} : Idle.token[i] = req[c].token[i]
    BY <1>1, <1>3, <2>4 DEF RequestOk
  <2>11. NoLeakedTempLock' BY <1>1, <1>2, <2>1, <2>2, <2>10, NoneLeaked
  <2> QED BY <2>1, <2>5, <2>6, <2>8, <2>9, <2>11 DEF WInv
<1>4. CASE req[c].claim = {} /\ Leave(c) /\ UNCHANGED lsVars
  <2>1. IInv' /\ Kept(ls, ls', {}) /\ ls'.gen = ls.gen /\ claims' = claims
    BY <1>4, SameLocks DEF lsVars
  <2>2. PICK r \in Request :
              /\ req' = [req EXCEPT ![c] = r]
              /\ r.token[1] = req[c].token[1] /\ r.token[2] = req[c].token[2]
              /\ r.claim = {} /\ r.shown = {}
              /\ r.pc = IF r.token[2] # NoToken THEN "unlockDst"
                        ELSE IF r.token[1] # NoToken THEN "unlockSrc" ELSE "idle"
    BY <1>1, <1>4, LeaveFields
  <2>3. RequestOk(ls', granted, r) BY <1>1, <2>1, <2>2, LeaveOk
  <2>4. Typed' /\ Served'
    <3>1. \A d \in Client \ {c} : RequestOk(ls', granted, req[d])
      BY <2>1, Undisturbed
    <3>2. ls.gen <= ls'.gen BY <2>1 DEF Kept
    <3> QED BY <1>1, <3>1, <3>2, <2>1, <2>2, <2>3, Called
  <2>5. Apart' BY <2>2, ApartKept
  <2>6. Disjoint' /\ ClaimsOwned' BY <1>4, <2>1, <2>2, ClaimsKept
  <2>7. NoLeakedTempLock' BY <1>1, <1>2, <2>1, <2>2, NoneLeaked
  <2> QED BY <2>1, <2>4, <2>5, <2>6, <2>7 DEF WInv
<1> QED BY <1>3, <1>4 DEF Work

\* The error of a temporary lock's Unlock, which the code drops, never comes.
LEMMA UnlockTempWorks ==
    ASSUME WInv, NEW c \in Client, NEW i \in {1, 2}, req[c].token[i] # NoToken,
           NEW now, UnlockTemp(now, req[c].token[i])
    PROVE  /\ IInv' /\ Kept(ls, ls', {req[c].token[i]}) /\ ls'.gen = ls.gen
           /\ UNCHANGED claims
           /\ \A n \in Locked(ls') : ls'.lock[n].token # req[c].token[i]
<1> DEFINE t == req[c].token[i]
           s == Collected(ls, now)
<1>1. IInv /\ t \in Token
  BY RequestFields DEF WInv, Typed, NoToken
<1>2. PICK n \in Name : TempLock(ls, t, n)
  BY DEF WInv, Served, RequestOk, Standing
<1>3. /\ Good(s) /\ \A m \in Locked(s) : s.lock[m] = ls.lock[m]
      /\ \A m \in Locked(ls) : ls.lock[m].duration < 0 => m \in Locked(s)
  BY <1>1, CollectedGood DEF IInv
<1>4. n \in Locked(s) /\ s.lock[n].token = t /\ ~s.lock[n].held
  BY <1>2, <1>3 DEF TempLock
<1>5. s.byToken[t] = n BY <1>3, <1>4, GoodTypes
<1>6. ~Refusable(s, t)
  BY <1>4, <1>5, NameAssumption DEF Refusable
<1>7. ~TokenRefused(now, t) BY <1>6 DEF TokenRefused
<1>8. UnlockOk(now, t) BY <1>7 DEF UnlockTemp
<1> HIDE DEF t, s
<1>9. /\ IInv' /\ Kept(ls, ls', {t}) /\ ls'.gen = ls.gen
      /\ \A m \in Locked(ls') : ls'.lock[m].token # t
  BY <1>1, <1>8, UnlockKeeps
<1>10. UNCHANGED claims BY <1>8 DEF UnlockOk
<1> QED BY <1>9, <1>10 DEF t

\* The release function unlocks the destination first.
LEMMA UnlockDstInv ==
    ASSUME WInv, NEW c \in Client, UnlockDst(c)
    PROVE  WInv'
<1> DEFINE t == req[c].token[2]
           r == IF req[c].token[1] = NoToken THEN Idle
                ELSE [req[c] EXCEPT !.pc = "unlockSrc",
                                    !.token = [@ EXCEPT ![2] = NoToken]]
<1>1. /\ req \in [Client -> Request] /\ req[c] \in Request /\ RequestOk(ls, granted, req[c])
      /\ req[c].pc = "unlockDst" /\ UnlockTemp(req[c].now, t)
      /\ UNCHANGED <<clock, granted>>
  BY DEF WInv, Typed, Served, UnlockDst
<1>2. /\ t # NoToken /\ req[c].claim = {}
      /\ req[c].token \in [{1, 2} -> {NoToken} \cup Token]
  BY <1>1, RequestFields DEF RequestOk
<1>3. req' = [req EXCEPT ![c] = r] BY <1>1 DEF UnlockDst
<1>4. Idle.token[1] = NoToken /\ Idle.token[2] = NoToken /\ Idle.claim = {}
      /\ Idle.pc = "idle" /\ Idle.shown = {}
  BY DEF Idle
<1>5. /\ r.token[1] = req[c].token[1] /\ r.token[2] = NoToken /\ r.claim = {}
      /\ r.shown \in {{}, req[c].shown}
      /\ r.pc = IF req[c].token[1] = NoToken THEN "idle" ELSE "unlockSrc"
  BY <1>1, <1>2, <1>4 DEF Request
<1>6. r \in Request BY <1>1, <1>2, IdleOk DEF Request, ReqPc
<1> HIDE DEF r
<1>7. /\ IInv' /\ Kept(ls, ls', {t}) /\ ls'.gen = ls.gen /\ UNCHANGED claims
      /\ \A n \in Locked(ls') : ls'.lock[n].token # t
  BY <1>1, <1>2, UnlockTempWorks
<1>8. /\ \A d \in Client \ {c} : \A j \in {1, 2} : req[d].token[j] # t
      /\ req[c].token[1] # t
  BY <1>2, OwnToken
<1>9. ls.gen + 1 \notin granted /\ ls.gen # ls.gen + 1
  BY TokenFacts DEF WInv, Typed
<1>10. Standing(ls', granted, r)
  <2> SUFFICES ASSUME r.token[1] # NoToken
               PROVE  r.token[1] \notin granted /\ \E n \in Name : TempLock(ls', r.token[1], n)
    BY <1>5 DEF Standing
  <2>1. /\ r.token[1] \notin granted /\ r.token[1] \notin {t}
        /\ \E n \in Name : TempLock(ls, r.token[1], n)
    BY <1>1, <1>5, <1>8 DEF RequestOk, Standing
  <2> QED BY <1>7, <2>1, TempKept
<1>11. RequestOk(ls', granted, r)
  BY <1>1, <1>5, <1>10 DEF RequestOk
<1>12. Typed' /\ Served'
  <2>1. \A d \in Client \ {c} : RequestOk(ls', granted, req[d])
    BY <1>7, <1>8, Undisturbed
  <2>2. ls.gen <= ls'.gen BY <1>7 DEF Kept
  <2> QED BY <1>1, <1>3, <1>6, <1>7, <1>11, <2>1, <2>2, Called
<1>13. Apart' BY <1>3, <1>5, ApartKept
<1>14. Disjoint' /\ ClaimsOwned' BY <1>2, <1>3, <1>5, <1>7, ClaimsKept
<1>15. NoLeakedTempLock' BY <1>1, <1>3, <1>5, <1>7, <1>9, NoneLeaked
<1> QED BY <1>7, <1>12, <1>13, <1>14, <1>15 DEF WInv

\* The last lock is unlocked, and the request is over.
LEMMA UnlockSrcInv ==
    ASSUME WInv, NEW c \in Client, UnlockSrc(c)
    PROVE  WInv'
<1> DEFINE t == req[c].token[1]
<1>1. /\ req \in [Client -> Request] /\ req[c] \in Request /\ RequestOk(ls, granted, req[c])
      /\ req[c].pc = "unlockSrc" /\ UnlockTemp(req[c].now, t)
      /\ UNCHANGED <<clock, granted>> /\ req' = [req EXCEPT ![c] = Idle]
  BY DEF WInv, Typed, Served, UnlockSrc, Finish
<1>2. t # NoToken /\ req[c].token[2] = NoToken /\ req[c].claim = {}
  BY <1>1 DEF RequestOk
<1>3. Idle.token[1] = NoToken /\ Idle.token[2] = NoToken /\ Idle.claim = {}
  BY DEF Idle
<1>4. Idle \in Request /\ RequestOk(ls', granted, Idle) BY IdleOk
<1>5. /\ IInv' /\ Kept(ls, ls', {t}) /\ ls'.gen = ls.gen /\ UNCHANGED claims
      /\ \A n \in Locked(ls') : ls'.lock[n].token # t
  BY <1>1, <1>2, UnlockTempWorks
<1>6. \A d \in Client \ {c} : \A j \in {1, 2} : req[d].token[j] # t
  BY <1>2, OwnToken
<1>7. ls.gen + 1 \notin granted /\ ls.gen # ls.gen + 1
  BY TokenFacts DEF WInv, Typed
<1>8. Typed' /\ Served'
  <2>1. \A d \in Client \ {c} : RequestOk(ls', granted, req[d])
    BY <1>5, <1>6, Undisturbed
  <2>2. ls.gen <= ls'.gen BY <1>5 DEF Kept
  <2> QED BY <1>1, <1>4, <1>5, <2>1, <2>2, Called
<1>9. Apart' BY <1>1, <1>3, ApartKept
<1>10. Disjoint' /\ ClaimsOwned' BY <1>1, <1>2, <1>3, <1>5, ClaimsKept
<1>11. NoLeakedTempLock' BY <1>1, <1>2, <1>3, <1>5, <1>7, NoneLeaked
<1> QED BY <1>5, <1>8, <1>9, <1>10, <1>11 DEF WInv

\* Every step keeps the invariant.
LEMMA WNextInv == WInv /\ [WNext]_vars => WInv'
<1> SUFFICES ASSUME WInv, [WNext]_vars PROVE WInv'
  OBVIOUS
<1>1. ASSUME Tick PROVE WInv'
  <2>1. /\ clock \in 0 .. MaxTime /\ clock < MaxTime /\ clock' = clock + 1
        /\ UNCHANGED <<req, granted, lsVars>>
    BY <1>1 DEF Tick, WInv, Typed, lsVars
  <2>2. IInv' /\ Kept(ls, ls', {}) /\ ls'.gen = ls.gen
    BY <2>1, SameLocks
  <2>3. clock' \in 0 .. MaxTime BY <2>1, RequestAssumption
  <2>4. Typed' BY <2>1, <2>2, <2>3 DEF WInv, Typed
  <2>5. Served' BY <2>1, <2>2, Undisturbed DEF Served
  <2>6. Apart' /\ Disjoint' /\ ClaimsOwned' /\ NoLeakedTempLock'
    BY <2>1 DEF WInv, lsVars, Apart, Disjoint, ClaimsOwned, NoLeakedTempLock, Locked
  <2> QED BY <2>2, <2>4, <2>5, <2>6 DEF WInv
<1>2. ASSUME NEW c \in Client, NEW now \in Now, NEW p \in Requestable(c),
             NEW zeroDepth \in BOOLEAN, NEW d \in Duration,
             HandleLock(c, p, zeroDepth, d, now)
      PROVE  WInv'
  BY <1>2, HandleLockInv
<1>3. ASSUME NEW c \in Client, NEW now \in Now, NEW t \in Shown, NEW d \in Duration,
             HandleRefresh(c, t, d, now)
      PROVE  WInv'
  BY <1>3, HandleRefreshInv
<1>4. ASSUME NEW c \in Client, NEW now \in Now, NEW t \in Shown, HandleUnlock(c, t, now)
      PROVE  WInv'
  BY <1>4, HandleUnlockInv
<1>5. ASSUME NEW c \in Client, NEW now \in Now, NEW p \in Requestable(c),
             NEW hasIf \in BOOLEAN, HandleWrite(c, p, hasIf, now)
      PROVE  WInv'
  BY <1>5, HandleWriteInv
<1>6. ASSUME NEW c \in Client, NEW now \in Now, NEW p \in Requestable(c),
             NEW q \in Requestable(c), NEW move \in BOOLEAN, NEW hasIf \in BOOLEAN,
             HandleCopyMove(c, p, q, move, hasIf, now)
      PROVE  WInv'
  BY <1>6, HandleCopyMoveInv
<1>7. ASSUME NEW c \in Client, Step(c) PROVE WInv'
  BY <1>7, LockSrcInv, LockDstInv, WorkInv, UnlockDstInv, UnlockSrcInv, TryListInv DEF Step
<1>8. CASE UNCHANGED vars
  <2>1. UNCHANGED <<req, granted, clock, lsVars>> BY <1>8 DEF vars, lsVars
  <2>2. IInv' BY <2>1, SameLocks
  <2> QED
    BY <2>1, <2>2 DEF WInv, lsVars, Typed, Served, Apart, Disjoint, ClaimsOwned,
       NoLeakedTempLock, Locked, RequestOk, Standing, Backed, TempLock, Covers
<1>9. CASE WNext
  BY <1>1, <1>2, <1>3, <1>4, <1>5, <1>6, <1>7, <1>9 DEF WNext
<1> QED BY <1>8, <1>9

\* The handlers and the lock system keep their inductive invariant for ever.
THEOREM HandlersInvariant == WSpec => []WInv
BY WInitInv, WNextInv, PTL DEF WSpec

\* Requests and locks have their types (WTypeOK).
THEOREM HandlersTypeCorrect == WSpec => []WTypeOK
<1>1. WInv => WTypeOK
  <2> SUFFICES ASSUME WInv PROVE WTypeOK
    OBVIOUS
  <2>1. TypeOK BY DEF WInv, IInv, Good, HeldByClaims, HeldNodes, Locked, TypeOK
  <2>2. granted \subseteq Token BY TokenFacts DEF WInv, Typed
  <2> QED BY <2>1, <2>2, RequestFields DEF WInv, Typed, WTypeOK, ReqPc
<1> QED BY <1>1, HandlersInvariant, PTL

\* The indexes of the lock system stay consistent under the handlers' calls, with
\* locks of any duration.
THEOREM HandlersKeepIndexes ==
    WSpec => [](TokenIndex /\ RefCounts /\ ExpiryIndex /\ NoConflict /\ HeldByClaims)
<1>1. WInv => TokenIndex /\ RefCounts /\ ExpiryIndex /\ NoConflict /\ HeldByClaims
  BY DEF WInv, IInv, Good, TokenIndex, RefCounts, ExpiryIndex, NoConflict
<1> QED BY <1>1, HandlersInvariant, PTL

\* One lock at most protects a name.
LEMMA OneCover ==
    ASSUME NEW s, Good(s), NEW n \in Name, NEW l \in Name, NEW m \in Name,
           Covers(s, l, n), Covers(s, m, n)
    PROVE  l = m
<1>1. ConflictFree(s) /\ l \in Locked(s) /\ m \in Locked(s)
  BY DEF Good, Covers
<1>2. CASE l = n BY <1>1, <1>2 DEF ConflictFree
<1>3. CASE m = n BY <1>1, <1>3 DEF ConflictFree
<1>4. CASE l # n /\ m # n
  <2>1. /\ l \in Walk[n] /\ ~s.lock[l].zeroDepth
        /\ m \in Walk[n] /\ ~s.lock[m].zeroDepth
    BY <1>4 DEF Covers
  <2>2. l \in Walk[m] \/ m \in Walk[l] BY <2>1, WalkAssumption
  <2>3. Covers(s, l, m) \/ Covers(s, m, l) BY <1>1, <2>1, <2>2 DEF Covers
  <2> QED BY <1>1, <2>3 DEF ConflictFree
<1> QED BY <1>2, <1>3, <1>4

\* The lock that protects a name while a request works on it
LEMMA OwnCover ==
    ASSUME WInv, NEW c \in Client, Writing(c), NEW n \in Guarded(c)
    PROVE  /\ n \in Name
           /\ \E m \in Name : /\ Covers(ls, m, n) /\ ls.lock[m].token \in Own(c)
                              /\ IF req[c].claim = {}
                                 THEN \E i \in {1, 2} : /\ req[c].token[i] # NoToken
                                                        /\ ls.lock[m].token = req[c].token[i]
                                 ELSE m \in req[c].claim /\ ls.lock[m].token \in req[c].shown
<1>1. /\ req[c] \in Request /\ Backed(ls, req[c])
      /\ n \in {req[c].names[1], req[c].names[2]} \ {NoName}
  BY DEF WInv, Typed, Served, RequestOk, Writing, Guarded
<1>2. n \in Name /\ req[c].claim \subseteq Name BY <1>1, RequestFields
<1>3. CASE req[c].claim = {}
  <2>1. PICK i \in {1, 2} : req[c].token[i] # NoToken /\ TempLock(ls, req[c].token[i], n)
    BY <1>1, <1>3 DEF Backed
  <2>2. Covers(ls, n, n) /\ ls.lock[n].token = req[c].token[i]
    BY <2>1 DEF TempLock, Covers
  <2>3. ls.lock[n].token \in Own(c) BY <2>2 DEF Own
  <2> QED BY <1>2, <1>3, <2>1, <2>2, <2>3
<1>4. CASE req[c].claim # {}
  <2>1. PICK m \in req[c].claim : Covers(ls, m, n) /\ ls.lock[m].token \in req[c].shown
    BY <1>1, <1>4 DEF Backed
  <2> QED BY <1>2, <1>4, <2>1 DEF Own
<1> QED BY <1>3, <1>4

\* While a request works, what it guards is locked by its own locks only.
THEOREM WorkIsBacked == WSpec => []ClaimBacked
<1>1. WInv => ClaimBacked
  <2> SUFFICES ASSUME WInv, NEW c \in Client, Writing(c), NEW n \in Guarded(c)
               PROVE  /\ \E m \in Name : Covers(ls, m, n) /\ ls.lock[m].token \in Own(c)
                      /\ \A m \in Name : Covers(ls, m, n) => ls.lock[m].token \in Own(c)
    BY DEF ClaimBacked
  <2>1. n \in Name BY OwnCover
  <2>2. PICK m \in Name : Covers(ls, m, n) /\ ls.lock[m].token \in Own(c)
    BY OwnCover
  <2>3. \A l \in Name : Covers(ls, l, n) => l = m
    BY <2>1, <2>2, OneCover DEF WInv, IInv
  <2> QED BY <2>2, <2>3
<1> QED BY <1>1, HandlersInvariant, PTL

\* Two requests never work on the same guarded resource, however each of them
\* claimed it.
THEOREM WorkIsExclusive == WSpec => []ClaimExclusion
<1>1. WInv => ClaimExclusion
  <2> SUFFICES ASSUME WInv, NEW c \in Client, NEW d \in Client, c # d,
                      Writing(c), Writing(d), NEW n \in Guarded(c), n \in Guarded(d)
               PROVE  FALSE
    BY DEF ClaimExclusion
  <2>1. n \in Name BY OwnCover
  <2>2. PICK l \in Name :
           /\ Covers(ls, l, n)
           /\ IF req[c].claim = {}
              THEN \E i \in {1, 2} : /\ req[c].token[i] # NoToken
                                     /\ ls.lock[l].token = req[c].token[i]
              ELSE l \in req[c].claim /\ ls.lock[l].token \in req[c].shown
    BY OwnCover
  <2>3. PICK m \in Name :
           /\ Covers(ls, m, n)
           /\ IF req[d].claim = {}
              THEN \E i \in {1, 2} : /\ req[d].token[i] # NoToken
                                     /\ ls.lock[m].token = req[d].token[i]
              ELSE m \in req[d].claim /\ ls.lock[m].token \in req[d].shown
    BY OwnCover
  <2>4. l = m BY <2>1, <2>2, <2>3, OneCover DEF WInv, IInv
  <2>5. /\ req[c].shown \subseteq granted \cup {NoToken}
        /\ req[d].shown \subseteq granted \cup {NoToken}
    BY DEF WInv, Served, RequestOk
  <2>6. \A e \in Client, i \in {1, 2} :
           req[e].token[i] # NoToken => req[e].token[i] \notin granted \cup {NoToken}
    BY DEF WInv, Served, RequestOk, Standing
  <2>7. CASE req[c].claim = {} /\ req[d].claim = {}
    <3>1. PICK i \in {1, 2} : req[c].token[i] # NoToken /\ ls.lock[l].token = req[c].token[i]
      BY <2>2, <2>7
    <3>2. PICK j \in {1, 2} : req[d].token[j] # NoToken /\ ls.lock[m].token = req[d].token[j]
      BY <2>3, <2>7
    <3> QED BY <2>4, <3>1, <3>2 DEF WInv, Apart
  <2>8. CASE req[c].claim = {} /\ req[d].claim # {}
    BY <2>2, <2>3, <2>4, <2>5, <2>6, <2>8
  <2>9. CASE req[c].claim # {} /\ req[d].claim = {}
    BY <2>2, <2>3, <2>4, <2>5, <2>6, <2>9
  <2>10. CASE req[c].claim # {} /\ req[d].claim # {}
    BY <2>2, <2>3, <2>4, <2>10 DEF WInv, Disjoint
  <2> QED BY <2>7, <2>8, <2>9, <2>10
<1> QED BY <1>1, HandlersInvariant, PTL

\* No temporary lock outlives its request.
THEOREM NothingLeaked == WSpec => []NoLeakedTempLock
<1>1. WInv => NoLeakedTempLock BY DEF WInv
<1> QED BY <1>1, HandlersInvariant, PTL

\* Every claim belongs to a request that will return it.
THEOREM EveryClaimOwned == WSpec => []ClaimsOwned
<1>1. WInv => ClaimsOwned BY DEF WInv
<1> QED BY <1>1, HandlersInvariant, PTL

-----------------------------------------------------------------------------
(* The lock table that the lock system implements                            *)

\* The locks, the claimed tokens and the count of tokens, as LockTable has them
Row(s, n) == [token |-> s.lock[n].token, root |-> n, zeroDepth |-> s.lock[n].zeroDepth]
Rows(s) == {Row(s, n) : n \in Locked(s)}
ClaimedTokens(s, nodes) == {s.lock[n].token : n \in Locked(s) \cap nodes}

\* The refinement mapping, written with the names above
LEMMA TableIs ==
    /\ {[token |-> ls.lock[n].token, root |-> n,
         zeroDepth |-> ls.lock[n].zeroDepth] : n \in Locked(ls)} = Rows(ls)
    /\ {ls.lock[n].token : n \in Locked(ls) \cap UNION claims} =
          ClaimedTokens(ls, UNION claims)
BY DEF Rows, Row, ClaimedTokens

\* Locks that go, because they expired or were unlocked, are in no claim.
LEMMA Dropped ==
    ASSUME NEW s, Good(s), NEW r, Good(r), NEW T, Kept(s, r, T), r.gen = s.gen
    PROVE  /\ Rows(r) \in SUBSET Rows(s)
           /\ \A l \in Rows(s) \ Rows(r) : l.token \notin ClaimedTokens(s, HeldNodes(s))
           /\ ClaimedTokens(r, HeldNodes(s)) = ClaimedTokens(s, HeldNodes(s))
<1>1. \A n \in Locked(r) : n \in Locked(s) /\ SameLock(s, r, n)
  <2>1. s.gen # s.gen + 1 BY GoodTypes
  <2> QED BY <2>1 DEF Kept
<1>2. \A n \in Locked(r) : n \in Locked(s) /\ Row(r, n) = Row(s, n)
  BY <1>1 DEF SameLock, Row
<1>3. Rows(r) \in SUBSET Rows(s) BY <1>2 DEF Rows
<1>4. HeldNodes(s) \subseteq Locked(s) /\ \A n \in HeldNodes(s) : SameLock(s, r, n)
  BY DEF HeldNodes, Kept
<1>5. ASSUME NEW l \in Rows(s) \ Rows(r), l.token \in ClaimedTokens(s, HeldNodes(s))
      PROVE  FALSE
  <2>1. PICK n \in Locked(s) : l = Row(s, n) BY <1>5 DEF Rows
  <2>2. PICK m \in Locked(s) \cap HeldNodes(s) : l.token = s.lock[m].token
    BY <1>5 DEF ClaimedTokens
  <2>3. l.token = s.lock[n].token BY <2>1 DEF Row
  <2>4. m = n BY <2>2, <2>3, GoodTypes
  <2>5. n \in Locked(r) BY <1>4, <2>2, <2>4 DEF SameLock
  <2>6. l \in Rows(r) BY <1>2, <2>1, <2>5 DEF Rows
  <2> QED BY <1>5, <2>6
<1>6. /\ Locked(r) \cap HeldNodes(s) = HeldNodes(s)
      /\ Locked(s) \cap HeldNodes(s) = HeldNodes(s)
      /\ \A n \in HeldNodes(s) : r.lock[n].token = s.lock[n].token
  BY <1>4 DEF SameLock
<1>7. ClaimedTokens(r, HeldNodes(s)) = ClaimedTokens(s, HeldNodes(s))
  BY <1>6 DEF ClaimedTokens
<1> QED BY <1>3, <1>5, <1>7

\* Refusals, refreshes and unlocks drop locks and do nothing else.
LEMMA ForgetTable ==
    ASSUME WInv, WInv', NEW T, Kept(ls, ls', T), ls'.gen = ls.gen, UNCHANGED claims
    PROVE  Table!Next
<1> DEFINE kept == Rows(ls')
<1>1. Good(ls) /\ Good(ls') /\ HeldNodes(ls) = UNION claims
  BY DEF WInv, IInv, HeldByClaims, Good, LockState, LockDetails, TokenIndexed, RefCounted,
     ExpiryIndexed, ConflictFree, Covers, Locked
<1>2. /\ kept \in SUBSET Rows(ls)
      /\ \A l \in Rows(ls) \ kept : l.token \notin ClaimedTokens(ls, UNION claims)
      /\ ClaimedTokens(ls', UNION claims) = ClaimedTokens(ls, UNION claims)
  BY <1>1, Dropped
<1> HIDE DEF kept
<1>3. PICK K \in SUBSET Rows(ls) : K = kept BY <1>2
<1>4. Table!Drop(K) BY <1>2, <1>3, TableIs DEF Table!Drop
<1>5. Table!Forget(K)
  BY <1>2, <1>3, <1>4, TableIs DEF Table!Forget, kept, Rows, Row, ClaimedTokens
<1> QED BY <1>5, TableIs DEF Table!Next

\* A granted Create drops the expired locks and adds one that conflicts with none.
LEMMA GrantTable ==
    ASSUME WInv, WInv', NEW now \in Nat, NEW name \in Name, NEW zeroDepth \in BOOLEAN,
           NEW d \in Int, CreateOk(now, name, zeroDepth, d)
    PROVE  Table!Next
<1> DEFINE s == Collected(ls, now)
<1>1. Good(ls) /\ HeldNodes(ls) = UNION claims
  BY DEF WInv, IInv, HeldByClaims
<1>2. /\ Good(s) /\ s.gen = ls.gen /\ HeldNodes(s) = HeldNodes(ls)
      /\ Locked(s) \subseteq Locked(ls)
      /\ \A n \in Locked(s) : s.lock[n] = ls.lock[n]
      /\ \A n \in Locked(ls) : ls.lock[n].duration < 0 => n \in Locked(s)
  BY <1>1, CollectedGood
<1>3. /\ ls' = Created(s, now, name, zeroDepth, d) /\ claims' = claims
      /\ CanCreate(s, name, zeroDepth) /\ s.gen < MaxToken
  BY <1>2 DEF CreateOk
<1> HIDE DEF s
<1>4. /\ Locked(ls') = Locked(s) \cup {name} /\ ls'.gen = s.gen + 1
      /\ ls'.lock[name].token = s.gen + 1 /\ ls'.lock[name].zeroDepth = zeroDepth
      /\ \A n \in Locked(s) : n # name /\ ls'.lock[n] = s.lock[n]
  BY <1>2, <1>3, CreatedGood DEF Created
<1>5. /\ ls.gen \in Nat /\ Locked(s) \subseteq Name
      /\ HeldNodes(ls) \subseteq Locked(ls) /\ HeldNodes(s) \subseteq Locked(s)
  BY <1>1, <1>2, GoodTypes
<1>6. Kept(ls, s, {})
  BY <1>2, <1>5 DEF Kept, SameLock, HeldNodes
<1>7. /\ Rows(s) \in SUBSET Rows(ls)
      /\ \A l \in Rows(ls) \ Rows(s) : l.token \notin ClaimedTokens(ls, UNION claims)
      /\ ClaimedTokens(s, UNION claims) = ClaimedTokens(ls, UNION claims)
  BY <1>1, <1>2, <1>6, Dropped
<1>8. PICK K \in SUBSET Rows(ls) : K = Rows(s) BY <1>7
<1>9. Table!Drop(K) BY <1>7, <1>8, TableIs DEF Table!Drop
<1>10. \A l \in K : ~Table!Conflicts(l, name, zeroDepth)
  <2> SUFFICES ASSUME NEW n \in Locked(s), Table!Conflicts(Row(s, n), name, zeroDepth)
               PROVE  FALSE
    BY <1>8 DEF Rows
  <2>1. /\ name \notin Locked(s)
        /\ ~Covers(s, n, name)
        /\ ~zeroDepth => name \notin Walk[n]
    BY <1>2, <1>3, CanCreateNoConflict
  <2>2. \/ n = name
        \/ ~s.lock[n].zeroDepth /\ n \in Walk[name]
        \/ ~zeroDepth /\ name \in Walk[n]
    BY DEF Table!Conflicts, Row
  <2> QED BY <2>1, <2>2 DEF Covers
<1>11. Rows(ls') = K \cup {[token |-> ls.gen + 1, root |-> name, zeroDepth |-> zeroDepth]}
  <2>1. \A n \in Locked(s) : Row(ls', n) = Row(s, n) BY <1>4 DEF Row
  <2>2. Row(ls', name) = [token |-> ls.gen + 1, root |-> name, zeroDepth |-> zeroDepth]
    BY <1>2, <1>4 DEF Row
  <2> QED BY <1>4, <1>8, <2>1, <2>2 DEF Rows
<1>12. ClaimedTokens(ls', UNION claims) = ClaimedTokens(s, UNION claims)
  <2>1. /\ UNION claims \subseteq Locked(s)
        /\ Locked(ls') \cap UNION claims = Locked(s) \cap UNION claims
    BY <1>1, <1>2, <1>4, <1>5
  <2> QED BY <1>4, <2>1 DEF ClaimedTokens
<1>13. Table!Grant(K, name, zeroDepth)
  BY <1>2, <1>3, <1>4, <1>7, <1>9, <1>10, <1>11, <1>12, TableIs
     DEF Table!Grant, Rows, Row, ClaimedTokens
<1> QED BY <1>13, TableIs DEF Table!Next

\* A Confirm claims locks that nobody had claimed.
LEMMA ClaimTable ==
    ASSUME WInv, WInv', NEW T, Kept(ls, ls', T), ls'.gen = ls.gen,
           NEW names, NEW tokens, Claims(names, tokens)
    PROVE  Table!Next
<1>1. PICK nodes \in SUBSET Locked(ls') :
           /\ nodes # {} /\ nodes \cap UNION claims = {}
           /\ claims' = claims \cup {nodes}
  BY DEF Claims
<1>2. Good(ls) /\ Good(ls') /\ HeldNodes(ls) = UNION claims
  BY DEF WInv, IInv, HeldByClaims, Good, LockState, LockDetails, TokenIndexed, RefCounted,
     ExpiryIndexed, ConflictFree, Covers, Locked
<1>3. /\ Rows(ls') \in SUBSET Rows(ls)
      /\ \A l \in Rows(ls) \ Rows(ls') : l.token \notin ClaimedTokens(ls, UNION claims)
      /\ ClaimedTokens(ls', UNION claims) = ClaimedTokens(ls, UNION claims)
  BY <1>2, Dropped
<1>4. PICK K \in SUBSET Rows(ls) : K = Rows(ls') BY <1>3
<1>5. Table!Drop(K) BY <1>3, <1>4, TableIs DEF Table!Drop
<1> DEFINE P == {ls'.lock[n].token : n \in nodes}
<1>6. PICK C : C = P OBVIOUS
<1>7. C \subseteq {l.token : l \in K}
  <2>1. \A n \in nodes : Row(ls', n) \in K /\ Row(ls', n).token = ls'.lock[n].token
    BY <1>1, <1>4 DEF Rows, Row
  <2> QED BY <1>6, <2>1
<1>8. C \cap ClaimedTokens(ls, UNION claims) = {}
  <2> SUFFICES ASSUME NEW n \in nodes, NEW m \in Locked(ls') \cap UNION claims,
                      ls'.lock[n].token = ls'.lock[m].token
               PROVE  FALSE
    BY <1>3, <1>6 DEF ClaimedTokens
  <2>1. n = m BY <1>1, <1>2, GoodTypes
  <2> QED BY <1>1, <2>1
<1>9. ClaimedTokens(ls', UNION claims') = ClaimedTokens(ls, UNION claims) \cup C
  <2>1. UNION claims' = (UNION claims) \cup nodes BY <1>1
  <2>2. Locked(ls') \cap UNION claims' = (Locked(ls') \cap UNION claims) \cup nodes
    BY <1>1, <2>1
  <2>3. ClaimedTokens(ls', UNION claims') = ClaimedTokens(ls', UNION claims) \cup P
    BY <2>2 DEF ClaimedTokens
  <2> QED BY <1>3, <1>6, <2>3
<1>10. Table!Claim(K, C)
  BY <1>3, <1>4, <1>5, <1>7, <1>8, <1>9, TableIs
     DEF Table!Claim, Rows, Row, ClaimedTokens
<1> QED BY <1>7, <1>10, TableIs DEF Table!Next

\* A release gives the claimed locks back.
LEMMA UnclaimTable ==
    ASSUME WInv, WInv', NEW nodes, Resembles(ls, ls', nodes), nodes \in claims,
           claims' = claims \ {nodes}
    PROVE  Table!Next
<1>1. /\ Good(ls) /\ HeldNodes(ls) = UNION claims
      /\ \A c, d \in claims : c \cap d # {} => c = d
  BY DEF WInv, IInv, HeldByClaims
<1>2. /\ Locked(ls') = Locked(ls) /\ ls'.gen = ls.gen
      /\ \A n \in Locked(ls) : /\ ls'.lock[n].token = ls.lock[n].token
                               /\ ls'.lock[n].zeroDepth = ls.lock[n].zeroDepth
  BY DEF Resembles
<1>3. Rows(ls') = Rows(ls) BY <1>2 DEF Rows, Row
<1>4. UNION claims' = (UNION claims) \ nodes BY <1>1
<1>5. PICK C : C = ClaimedTokens(ls, nodes) OBVIOUS
<1>6. C \subseteq ClaimedTokens(ls, UNION claims) BY <1>5 DEF ClaimedTokens
<1>7. ClaimedTokens(ls', UNION claims') = ClaimedTokens(ls, UNION claims) \ C
  <2>1. ClaimedTokens(ls', UNION claims') = ClaimedTokens(ls, (UNION claims) \ nodes)
    BY <1>2, <1>4 DEF ClaimedTokens
  <2>2. \A m, n \in Locked(ls) : ls.lock[m].token = ls.lock[n].token => m = n
    BY <1>1, GoodTypes
  <2> QED BY <1>5, <2>1, <2>2 DEF ClaimedTokens
<1>8. Table!Unclaim(C)
  BY <1>2, <1>3, <1>6, <1>7, TableIs DEF Table!Unclaim, Rows, Row, ClaimedTokens
<1> QED BY <1>6, <1>8, TableIs DEF Table!Next

\* A step that leaves the lock system alone leaves the table alone.
LEMMA SameTable ==
    ASSUME UNCHANGED lsVars
    PROVE  UNCHANGED Table!tableVars
BY DEF lsVars, Table!tableVars, Locked

\* Every step of the handlers is one of the table, or leaves it alone.
LEMMA TableStep ==
    ASSUME WInv, WInv', [WNext]_vars
    PROVE  [Table!Next]_Table!tableVars
<1>1. IInv /\ \A now \in Now : now \in Nat
  BY RequestAssumption DEF WInv, Now, Typed
<1>2. ASSUME NEW now, \/ \E name, zeroDepth : CreateRefused(now, name, zeroDepth)
                      \/ \E t : TokenRefused(now, t)
                      \/ \E names, conditions : ConfirmFailed(now, names, conditions)
      PROVE  Table!Next
  <2>1. ls' = Collected(ls, now) /\ UNCHANGED claims
    BY <1>2 DEF CreateRefused, TokenRefused, ConfirmFailed
  <2> QED BY <1>1, <2>1, CollectKeeps, ForgetTable
<1>3. ASSUME NEW now, NEW t \in Token, UnlockOk(now, t) PROVE Table!Next
  BY <1>1, <1>3, UnlockKeeps, ForgetTable DEF UnlockOk
<1>4. ASSUME NEW c \in Client, NEW now \in Now, NEW p \in Requestable(c),
             NEW zeroDepth \in BOOLEAN, NEW d \in Duration,
             HandleLock(c, p, zeroDepth, d, now)
      PROVE  Table!Next
  <2>1. Resolve(c, p) \in Name /\ d \in Int BY BoundAssumption DEF Requestable
  <2> QED BY <1>1, <1>2, <1>4, <2>1, GrantTable DEF HandleLock
<1>5. ASSUME NEW c \in Client, NEW now \in Now, NEW t \in Shown, NEW d \in Duration,
             HandleRefresh(c, t, d, now)
      PROVE  Table!Next
  <2>1. CASE RefreshOk(now, t, d)
    <3>1. t \in Token /\ d \in Int BY ShownIsToken, BoundAssumption
    <3> QED BY <1>1, <2>1, <3>1, RefreshKeeps, ForgetTable DEF RefreshOk
  <2> QED BY <1>2, <1>5, <2>1 DEF HandleRefresh
<1>6. ASSUME NEW c \in Client, NEW now \in Now, NEW t \in Shown, HandleUnlock(c, t, now)
      PROVE  Table!Next
  BY <1>2, <1>3, <1>6, ShownIsToken DEF HandleUnlock
<1>7. ASSUME NEW c \in Client, Step(c) PROVE [Table!Next]_Table!tableVars
  <2>1. /\ req[c] \in Request /\ RequestOk(ls, granted, req[c])
        /\ -1 \in Int
    BY DEF WInv, Typed, Served
  <2>2. CASE LockSrc(c)
    <3>1. req[c].names[1] \in Name /\ req[c].now \in Nat
      BY <2>1, <2>2, RequestFields DEF LockSrc, RequestOk
    <3> QED BY <1>2, <2>1, <2>2, <3>1, GrantTable DEF LockSrc
  <2>3. CASE LockDst(c)
    <3>1. req[c].names[2] \in Name /\ req[c].now \in Nat
      BY <2>1, <2>3, RequestFields DEF LockDst, RequestOk
    <3> QED BY <1>2, <2>1, <2>3, <3>1, GrantTable DEF LockDst
  <2>4. CASE Work(c)
    <3>1. CASE Release(req[c].claim)
      BY <1>1, <3>1, ReleaseKeeps, UnclaimTable DEF Release
    <3> QED BY <2>4, <3>1, SameTable DEF Work
  <2>5. CASE UnlockDst(c)
    <3>1. req[c].token[2] \in Token BY <2>1, RequestFields, TokenFacts DEF WInv
    <3> QED BY <1>2, <1>3, <2>5, <3>1 DEF UnlockDst, UnlockTemp
  <2>6. CASE UnlockSrc(c)
    <3>1. req[c].token[1] \in Token BY <2>1, RequestFields, TokenFacts DEF WInv
    <3> QED BY <1>2, <1>3, <2>6, <3>1 DEF UnlockSrc, UnlockTemp
  <2>7. ASSUME NEW list \in IfList, NEW now \in Now, TryList(c, list, now)
        PROVE  Table!Next
    <3> DEFINE src == IF list.tag = NoName THEN req[c].names[1] ELSE list.tag
               names == {src, req[c].names[2]} \ {NoName}
    <3>1. /\ list.conditions \in SUBSET Token /\ list.tag \in Tags \cup {NoName}
      BY TokenFacts DEF IfList, WInv, Typed
    <3>2. /\ req[c].names \in [{1, 2} -> Name \cup {NoName}]
          /\ req[c].names[1] # NoName \/ req[c].names[2] # NoName
      BY <2>1, <2>7, RequestFields DEF TryList, RequestOk
    <3>3. names \in SUBSET Name /\ names # {} BY <3>1, <3>2, RequestAssumption
    <3>4. \/ ConfirmOk(now, names, list.conditions)
          \/ ConfirmFailed(now, names, list.conditions)
      BY <2>7 DEF TryList
    <3> HIDE DEF names, src
    <3>5. CASE ConfirmOk(now, names, list.conditions)
      <4>1. Kept(ls, ls', list.conditions) /\ ls'.gen = ls.gen /\ Claims(names, list.conditions)
        BY <1>1, <3>1, <3>3, <3>5, ConfirmKeeps
      <4> QED BY <4>1, ClaimTable
    <3> QED BY <1>2, <3>4, <3>5
  <2> QED BY <1>7, <2>2, <2>3, <2>4, <2>5, <2>6, <2>7 DEF Step
<1>8. ASSUME UNCHANGED lsVars PROVE [Table!Next]_Table!tableVars
  BY <1>8, SameTable
<1>9. CASE WNext
  <2>1. CASE Tick BY <1>8, <2>1 DEF Tick, lsVars
  <2>2. ASSUME NEW c \in Client, NEW now \in Now, NEW p \in Requestable(c),
               NEW hasIf \in BOOLEAN, HandleWrite(c, p, hasIf, now)
        PROVE  [Table!Next]_Table!tableVars
    BY <1>8, <2>2 DEF HandleWrite, Arrive, lsVars
  <2>3. ASSUME NEW c \in Client, NEW now \in Now, NEW p \in Requestable(c),
               NEW q \in Requestable(c), NEW move \in BOOLEAN, NEW hasIf \in BOOLEAN,
               HandleCopyMove(c, p, q, move, hasIf, now)
        PROVE  [Table!Next]_Table!tableVars
    BY <1>8, <2>3 DEF HandleCopyMove, Arrive, lsVars
  <2> QED BY <1>4, <1>5, <1>6, <1>7, <1>9, <2>1, <2>2, <2>3 DEF WNext
<1> QED BY <1>8, <1>9 DEF vars, lsVars

\* The lock system under the handlers' calls implements the table of locks: no
\* conflicting grant, no token given twice, no claimed lock dropped or claimed again.
THEOREM ImplementsTable == WSpec => TableSpec
<1>1. WInit => Table!Init
  BY DEF WInit, Init, NewMemLS, Locked, Table!Init
<1>2. WInv /\ WInv' /\ [WNext]_vars => [Table!Next]_Table!tableVars
  BY TableStep
<1> QED BY <1>1, <1>2, HandlersInvariant, PTL DEF WSpec, TableSpec, Table!Spec

=============================================================================
