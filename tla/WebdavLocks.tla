---------------------------- MODULE WebdavLocks ----------------------------
(***************************************************************************)
(* The WebDAV handler's use of the lock system (server/webdav/webdav.go):  *)
(* LOCK, refresh and UNLOCK requests, and the requests that change the     *)
(* tree, which claim their resources with confirmLocks, work, and release. *)
(* Requests run in goroutines of their own, so everything between two      *)
(* critical sections of memLS interleaves.                                 *)
(*                                                                         *)
(* A request without an If header takes a temporary lock on each resource, *)
(* one critical section each; a request with an If header tries its lists  *)
(* in order, one Confirm each.  The header is input, so each list is       *)
(* chosen when it is tried.  time.Now() is read before the mutex is taken, *)
(* so "now" may be any instant up to the clock by then.                    *)
(***************************************************************************)
EXTENDS MemLS, Sequences

CONSTANTS
    Client,    \* request goroutines
    Path,      \* the paths requests name
    Base,      \* Base[c]: the base path of the user behind c
    Join,      \* Join[b][p]: path.Join(b, p)
    MaxTime,   \* bound on the clock
    Tags,      \* the resource tags used in If headers
    NoName     \* "", no resource

ASSUME RequestAssumption ==
    /\ Path \cup Tags \subseteq Name
    /\ NoName \notin Name
    /\ MaxTime \in Nat

VARIABLES
    clock,    \* time.Now()
    req,      \* the request each goroutine is serving
    granted   \* the tokens LOCK responses handed to clients

vars == <<ls, claims, clock, req, granted>>

NoToken == 0

\* The tokens a client may present: one a LOCK response gave out, still live
\* or not, or an unknown one.
Shown == granted \cup {NoToken}

Idle == [pc |-> "idle", names |-> <<NoName, NoName>>, target |-> {},
         now |-> 0, token |-> <<NoToken, NoToken>>,
         claim |-> {}, shown |-> {}]

\* ResolvePath: the base path stands in for "/", is prefixed to a path outside
\* it, and leaves a path inside it alone.
Resolve(c, p) ==
    IF p = Root THEN Base[c]
    ELSE IF Base[c] = Root \/ Base[c] \in Walk[p] THEN p
    ELSE Join[Base[c]][p]

\* The paths for which the model has the resolved name
Requestable(c) == {p \in Path : Resolve(c, p) \in Name}

IfList == [tag : Tags \cup {NoName},
           conditions : {{NoToken}} \cup {{t, u} : t, u \in granted}]

WInit ==
    /\ Init
    /\ clock = 0
    /\ req = [c \in Client |-> Idle]
    /\ granted = {}

Tick ==
    /\ clock < MaxTime
    /\ clock' = clock + 1
    /\ UNCHANGED <<ls, claims, req, granted>>

Now == 0 .. clock

\* The temporary locks that requests under way have yet to create: the bound on
\* tokens is applied to the requests that come in, so that it stops none midway.
Reserved ==
    Cardinality({x \in Client \X {1, 2} :
        /\ req[x[1]].names[x[2]] # NoName
        /\ req[x[1]].pc \in IF x[2] = 1 THEN {"lockSrc"} ELSE {"lockSrc", "lockDst"}})

WithinBound(n) == ls.gen + Reserved + n <= MaxToken

-----------------------------------------------------------------------------
(* handleLock and handleUnlock: one call of the lock system each.           *)

HandleLock(c, p, zeroDepth, duration, now) ==
    /\ req[c].pc = "idle"
    /\ \/ /\ WithinBound(1)
          /\ CreateOk(now, Resolve(c, p), zeroDepth, duration)
          /\ granted' = granted \cup {ls.gen + 1}
       \/ /\ CreateRefused(now, Resolve(c, p), zeroDepth)
          /\ UNCHANGED granted
    /\ UNCHANGED <<clock, req>>

HandleRefresh(c, token, duration, now) ==
    /\ req[c].pc = "idle"
    /\ \/ RefreshOk(now, token, duration)
       \/ TokenRefused(now, token)
    /\ UNCHANGED <<clock, req, granted>>

HandleUnlock(c, token, now) ==
    /\ req[c].pc = "idle"
    /\ \/ UnlockOk(now, token)
       \/ TokenRefused(now, token)
    /\ UNCHANGED <<clock, req, granted>>

-----------------------------------------------------------------------------
(* confirmLocks, the work, and the release.                                 *)

Arrive(c, names, target, hasIf, now) ==
    /\ req[c].pc = "idle"
    /\ ~hasIf => WithinBound(Cardinality({i \in {1, 2} : names[i] # NoName}))
    /\ req' = [req EXCEPT ![c] =
                 [Idle EXCEPT !.names = names, !.target = target,
                              !.now = IF hasIf THEN 0 ELSE now,
                              !.pc = IF hasIf THEN "if"
                                     ELSE IF names[1] # NoName THEN "lockSrc"
                                     ELSE "lockDst"]]
    /\ UNCHANGED <<ls, claims, clock, granted>>

\* PUT, DELETE, MKCOL and PROPPATCH confirm the path of the URL and resolve it
\* against the base path afterwards.
HandleWrite(c, p, hasIf, now) ==
    Arrive(c, <<p, NoName>>, {Resolve(c, p)}, hasIf, now)

\* COPY and MOVE resolve both paths first; COPY confirms the destination only.
HandleCopyMove(c, p, q, move, hasIf, now) ==
    LET src == Resolve(c, p)
        dst == Resolve(c, q)
    IN  /\ p # q
        /\ Arrive(c, <<IF move THEN src ELSE NoName, dst>>,
                  IF move THEN {src, dst} ELSE {dst}, hasIf, now)

Finish(c) == req' = [req EXCEPT ![c] = Idle]

\* The temporary locks left to unlock, the one on dst first
Leave(c) ==
    LET token == req[c].token IN
    req' = [req EXCEPT ![c] =
              IF token = <<NoToken, NoToken>> THEN Idle
              ELSE [Idle EXCEPT !.token = token, !.now = req[c].now,
                                !.pc = IF token[2] # NoToken THEN "unlockDst"
                                                             ELSE "unlockSrc"]]

\* h.lock(now, src): a temporary lock of zero depth that never expires
LockSrc(c) ==
    LET src == req[c].names[1]
        dst == req[c].names[2]
    IN  /\ req[c].pc = "lockSrc"
        /\ \/ /\ CreateOk(req[c].now, src, TRUE, -1)
              /\ req' = [req EXCEPT ![c].token[1] = ls.gen + 1,
                                    ![c].pc = IF dst = NoName THEN "write"
                                                              ELSE "lockDst"]
           \/ CreateRefused(req[c].now, src, TRUE) /\ Finish(c)
        /\ UNCHANGED <<clock, granted>>

\* Mutant: the error of h.lock for dst is not looked at.
LockDst_Unchecked(c) ==
    /\ req[c].pc = "lockDst"
    /\ \/ /\ CreateOk(req[c].now, req[c].names[2], TRUE, -1)
          /\ req' = [req EXCEPT ![c].pc = "write", ![c].token[2] = ls.gen + 1]
       \/ /\ CreateRefused(req[c].now, req[c].names[2], TRUE)
          /\ req' = [req EXCEPT ![c].pc = "write"]
    /\ UNCHANGED <<clock, granted>>

LockDst(c) ==
    /\ req[c].pc = "lockDst"
    /\ \/ /\ CreateOk(req[c].now, req[c].names[2], TRUE, -1)
          /\ req' = [req EXCEPT ![c].pc = "write", ![c].token[2] = ls.gen + 1]
       \/ /\ CreateRefused(req[c].now, req[c].names[2], TRUE)
          /\ Leave(c)
    /\ UNCHANGED <<clock, granted>>

\* One list of the If header: its tag, if it has one, stands in for src.  When it
\* fails the request goes on to the next list, or fails (412) after the last.
TryList(c, list, now) ==
    LET src   == IF list.tag = NoName THEN req[c].names[1] ELSE list.tag
        names == {src, req[c].names[2]} \ {NoName}
    IN  /\ req[c].pc = "if"
        /\ \/ /\ ConfirmOk(now, names, list.conditions)
              /\ \E nodes \in claims' \ claims :
                    req' = [req EXCEPT ![c].pc = "write", ![c].names[1] = src,
                                       ![c].shown = list.conditions,
                                       ![c].claim = nodes]
           \/ /\ ConfirmFailed(now, names, list.conditions)
              /\ Finish(c) \/ UNCHANGED req
        /\ UNCHANGED <<clock, granted>>

\* Mutant: the handler does not call the release function of a Confirm.
Work_NoRelease(c) ==
    /\ req[c].pc = "write"
    /\ Leave(c)
    /\ UNCHANGED <<clock, granted, lsVars>>

\* The handler is done with the file system and calls the release function.
Work(c) ==
    /\ req[c].pc = "write"
    /\ IF req[c].claim # {}
       THEN Release(req[c].claim) /\ Finish(c)
       ELSE Leave(c) /\ UNCHANGED lsVars
    /\ UNCHANGED <<clock, granted>>

\* Unlock of a temporary lock, with the "now" the request started with; the
\* error, if there is one, is dropped.
UnlockTemp(now, token) == UnlockOk(now, token) \/ TokenRefused(now, token)

\* Mutant: of the two temporary locks only the one on dst is unlocked.
UnlockDst_Only(c) ==
    /\ req[c].pc = "unlockDst"
    /\ UnlockTemp(req[c].now, req[c].token[2])
    /\ Finish(c)
    /\ UNCHANGED <<clock, granted>>

UnlockDst(c) ==
    /\ req[c].pc = "unlockDst"
    /\ UnlockTemp(req[c].now, req[c].token[2])
    /\ req' = [req EXCEPT ![c] = IF @.token[1] = NoToken THEN Idle
                                 ELSE [@ EXCEPT !.pc = "unlockSrc",
                                                !.token[2] = NoToken]]
    /\ UNCHANGED <<clock, granted>>

UnlockSrc(c) ==
    /\ req[c].pc = "unlockSrc"
    /\ UnlockTemp(req[c].now, req[c].token[1])
    /\ Finish(c)
    /\ UNCHANGED <<clock, granted>>

Step(c) ==
    \/ LockSrc(c) \/ LockDst(c) \/ Work(c) \/ UnlockDst(c) \/ UnlockSrc(c)
    \/ \E list \in IfList, now \in Now : TryList(c, list, now)

WNext ==
    \/ Tick
    \/ \E c \in Client, now \in Now :
          \/ \E p \in Requestable(c), zeroDepth \in BOOLEAN, d \in Duration :
                HandleLock(c, p, zeroDepth, d, now)
          \/ \E t \in Shown, d \in Duration : HandleRefresh(c, t, d, now)
          \/ \E t \in Shown : HandleUnlock(c, t, now)
          \/ \E p \in Requestable(c), hasIf \in BOOLEAN :
                HandleWrite(c, p, hasIf, now)
          \/ \E p, q \in Requestable(c), move, hasIf \in BOOLEAN :
                HandleCopyMove(c, p, q, move, hasIf, now)
    \/ \E c \in Client : Step(c)

WSpec == WInit /\ [][WNext]_vars

-----------------------------------------------------------------------------
(* Properties of the composition.  They speak of the window in which a       *)
(* handler works on the tree, between confirmLocks and the release.          *)

Writing(c) == req[c].pc = "write"

\* The names the request asked the lock system to guard
Guarded(c) == {req[c].names[1], req[c].names[2]} \ {NoName}

\* The tokens that entitle the request to a locked resource
Own(c) == {req[c].token[1], req[c].token[2]} \cup req[c].shown

\* The requests are well formed; tokens and names are in range.
WTypeOK ==
    /\ TypeOK
    /\ clock \in 0 .. MaxTime
    /\ granted \subseteq Token
    /\ \A c \in Client :
          /\ req[c].pc \in {"idle", "lockSrc", "lockDst", "if", "write",
                            "unlockDst", "unlockSrc"}
          /\ req[c].token \in [{1, 2} -> {NoToken} \cup Token]
          /\ req[c].names \in [{1, 2} -> Name \cup {NoName}]
          /\ req[c].claim \subseteq Name /\ req[c].target \subseteq Name

\* Two requests never work on a resource both asked to guard, whichever way
\* each of them claimed it (temporary lock, lock of a client, or an infinite
\* lock above): Confirm promises "exclusive access to all of the named
\* resources" (lock.go:38), confirmLocks the same without an If header.
ClaimExclusion ==
    \A c, d \in Client : c # d /\ Writing(c) /\ Writing(d) =>
        Guarded(c) \cap Guarded(d) = {}

\* While a request works, each resource it guards stays locked by a lock of its
\* own (no expiry, refresh or UNLOCK of another client takes it away) and by no
\* lock of anybody else.
ClaimBacked ==
    \A c \in Client : Writing(c) => \A n \in Guarded(c) :
        /\ \E m \in Name : Covers(ls, m, n) /\ ls.lock[m].token \in Own(c)
        /\ \A m \in Name : Covers(ls, m, n) => ls.lock[m].token \in Own(c)

\* The temporary locks, which never expire, do not outlive their request: every
\* lock is one a LOCK response named or one a running request will unlock.
NoLeakedTempLock ==
    \A n \in Locked(ls) :
        \/ ls.lock[n].token \in granted
        \/ \E c \in Client : ls.lock[n].token \in {req[c].token[1], req[c].token[2]}

\* Every claim the lock system still carries belongs to a request that will
\* call its release function, so no client lock stays held for ever.
ClaimsOwned == claims = {req[c].claim : c \in Client} \ {{}}

\* The resource a request really changes is not locked by somebody else ("we
\* still need to check that the resources aren't locked by another client",
\* webdav.go:120): what confirmLocks guards must be what the handler changes.
TargetRespected ==
    \A c \in Client : Writing(c) => \A n \in req[c].target, m \in Name :
        Covers(ls, m, n) => ls.lock[m].token \in Own(c)

\* The lock system with its indexes keeps the promises of LockTable.
Table == INSTANCE LockTable WITH
    locks   <- {[token |-> ls.lock[n].token, root |-> n,
                 zeroDepth |-> ls.lock[n].zeroDepth] : n \in Locked(ls)},
    claimed <- {ls.lock[n].token : n \in Locked(ls) \cap UNION claims},
    issued  <- ls.gen

TableSpec == Table!Spec

=============================================================================
