------------------------------ MODULE Accounts ------------------------------
(***************************************************************************)
(* One user who logs in from several devices and changes the password:     *)
(* the login and logout handlers (server/handles/auth.go, session.go), the *)
(* middleware Auth (server/middlewares), the tokens (server/common), the   *)
(* cache of users (internal/op/user.go), and the device sessions.          *)
(*                                                                         *)
(* A password is a number, which is also its PwdTS: two changes in one     *)
(* second are not told apart by the code and not represented here.  A user *)
(* in memory is an object that requests share: UpdateCurrent edits the one *)
(* that may be in the cache.  GetUserByName looks into the cache, joins or *)
(* makes the call in userG, and hands the user over; the caller tests the  *)
(* password of that object later.  Of the valid tokens the model keeps the *)
(* password times: any Client-Id may come with any of them (Auth).         *)
(***************************************************************************)
EXTENDS DeviceSessions

CONSTANTS
    Obj,          \* users in memory, one more than there are goroutines
    MaxPwd,       \* bound on the passwords
    MaxRequests,  \* bound on the requests
    MaxRestarts,  \* bound on the restarts of the server
    Fails         \* whether the table of users may fail

ASSUME AccountsAssumption ==
    /\ {MaxRequests, MaxRestarts} \subseteq Nat
    /\ MaxPwd \in Nat \ {0}
    /\ Fails \in BOOLEAN

NoObj == "none"
Nobody == "nobody"

ASSUME NobodyAssumption == NoObj \notin Obj /\ Nobody \notin Proc

VARIABLES
    pwd,       \* the password in the table of users
    obj,       \* the passwords of the users in memory, 0 for garbage
    cache,     \* userCache: the user in it
    leader,    \* userG: who reads the user from the table
    tokens,    \* the password times of the tokens that are valid
    request,   \* what each goroutine serves
    issued,    \* the passwords so far
    requests,  \* how many requests came
    restarts,  \* how often the server was restarted
    outdated,  \* history: the cached user was read around a change of the table
    edited     \* history: a change failed after it edited the cached user

accountVars == <<pwd, obj, cache, leader, tokens, request, issued, requests,
                 restarts, outdated, edited>>

vars == <<rows, purges, visit, out, revived, raced, accountVars>>

\* kind: login, or what the handler does.  user: the object it works with.
\* pwd: the password typed, or the time in the token.  floor: the oldest password
\* that was in the table since the request came; of two changes that overlap, the
\* one that began last may be overwritten.  overlap: a change overlapped the call in
\* userG that read the user in its hands, or that cached it.
NoRequest == [pc |-> "idle", kind |-> "none", dev |-> AnyDevice, user |-> NoObj,
              pwd |-> 0, floor |-> 0, overlap |-> FALSE]

\* The user has logged in before; the session was deleted for its age.
Init ==
    /\ SessionsInit
    /\ pwd = 1
    /\ obj = [o \in Obj |-> 0]
    /\ cache = NoObj
    /\ leader = Nobody
    /\ tokens = {1}
    /\ request = [p \in Proc |-> NoRequest]
    /\ issued = 1
    /\ requests = 0
    /\ restarts = 0
    /\ outdated = FALSE
    /\ edited = FALSE

At(p, pc) == request[p].pc = pc

Goes(p, pc) == request' = [request EXCEPT ![p].pc = pc]

\* The users in memory, without those nobody refers to any more
Kept(objects, c) ==
    [o \in Obj |-> IF c = o \/ \E p \in Proc : request'[p].user = o
                   THEN objects[o] ELSE 0]

\* The goroutine is done.
Ends(p) ==
    /\ request' = [request EXCEPT ![p] = NoRequest]
    /\ obj' = Kept(obj, cache)

-----------------------------------------------------------------------------
(* Requests arrive *)

\* A login with a password that was right once, or a request with a token; the
\* device is the Client-Id the request brings.
Begin(p) ==
    /\ At(p, "idle")
    /\ requests < MaxRequests
    /\ requests' = requests + 1
    /\ \E d \in Device :
          \/ \E typed \in 1..issued :
                request' = [request EXCEPT ![p] =
                    [NoRequest EXCEPT !.pc = "user", !.kind = "login", !.dev = d,
                                      !.pwd = typed, !.floor = pwd]]
          \/ \E kind \in {"plain", "logout", "evict", "password"}, time \in tokens :
                request' = [request EXCEPT ![p] =
                    [NoRequest EXCEPT !.pc = "user", !.kind = kind, !.dev = d,
                                      !.pwd = time, !.floor = pwd]]
    /\ UNCHANGED <<sessionVars, pwd, obj, cache, leader, tokens, issued, restarts,
                   outdated, edited>>

-----------------------------------------------------------------------------
(* GetUserByName, and the test of the password or of the token's time *)

\* Mutant: the time in a token is not looked at.
Fits_AnyToken(p, password) ==
    request[p].kind = "login" => request[p].pwd = password

\* ValidatePwdStaticHash, or the test of PwdTS in Auth
Fits(p, password) == request[p].pwd = password

\* The request q has the user it asked for, with what overlapped the reading.
Gets(q, user, overlap) ==
    [request[q] EXCEPT !.pc = "test", !.user = user, !.overlap = overlap]

CacheHit(p) ==
    /\ At(p, "user")
    /\ cache # NoObj
    /\ request' = [request EXCEPT ![p] = Gets(p, cache, outdated)]
    /\ UNCHANGED <<sessionVars, pwd, obj, cache, leader, tokens, issued, requests,
                   restarts, outdated, edited>>

CacheMiss(p) ==
    /\ At(p, "user")
    /\ cache = NoObj
    /\ Goes(p, "miss")
    /\ UNCHANGED <<sessionVars, pwd, obj, cache, leader, tokens, issued, requests,
                   restarts, outdated, edited>>

\* userG.Do: a call is made, or the one that is registered is joined; it may have
\* been answered already (singleflight.go:151).
JoinFlight(p) ==
    /\ At(p, "miss")
    /\ \/ /\ leader = Nobody
          /\ leader' = p
          /\ Goes(p, "load")
       \/ /\ leader # Nobody
          /\ leader' = leader
          /\ IF At(leader, "done")
             THEN request' = [request EXCEPT ![p] =
                      Gets(p, request[leader].user, request[leader].overlap)]
             ELSE Goes(p, "wait")
    /\ UNCHANGED <<sessionVars, pwd, obj, cache, tokens, issued, requests, restarts,
                   outdated, edited>>

\* db.GetUserByName
LoadUser(p) ==
    /\ At(p, "load")
    /\ \E o \in Obj :
          /\ obj[o] = 0
          /\ obj' = [obj EXCEPT ![o] = pwd]
          /\ request' = [request EXCEPT ![p].pc = "fill", ![p].user = o,
                                        ![p].overlap = \E q \in Proc : At(q, "store")]
    /\ UNCHANGED <<sessionVars, pwd, cache, leader, tokens, issued, requests,
                   restarts, outdated, edited>>

\* userCache.Set, and the answer to everybody who waits: the function has returned
FillCache(p) ==
    /\ At(p, "fill")
    /\ cache' = request[p].user
    /\ outdated' = request[p].overlap
    /\ edited' = FALSE
    /\ request' = [q \in Proc |->
           CASE q = p -> [request[q] EXCEPT !.pc = "done"]
             [] q # p /\ At(q, "wait") -> Gets(q, request[p].user, request[p].overlap)
             [] OTHER -> request[q]]
    /\ obj' = Kept(obj, cache')
    /\ UNCHANGED <<sessionVars, pwd, leader, tokens, issued, requests, restarts>>

\* The call is taken out of userG.
LeaveFlight(p) ==
    /\ At(p, "done")
    /\ leader' = Nobody
    /\ Goes(p, "test")
    /\ UNCHANGED <<sessionVars, pwd, obj, cache, tokens, issued, requests, restarts,
                   outdated, edited>>

\* The password of the user, as it is now, must be the one of the request.
TestUser(p) ==
    LET kind == request[p].kind
    IN  /\ At(p, "test")
        /\ IF ~Fits(p, obj[request[p].user])
           THEN request' = [request EXCEPT ![p] = NoRequest] /\ visit' = visit
           ELSE /\ request' = [request EXCEPT
                     ![p].pc = "device",
                     ![p].overlap = FALSE,
                     ![p].user = IF kind \in {"login", "password"} THEN @ ELSE NoObj]
                /\ visit' = [visit EXCEPT ![p] =
                     [NoVisit(request[p].dev) EXCEPT
                        !.pc = IF kind = "login" THEN "get" ELSE "purge",
                        !.login = kind = "login"]]
        /\ obj' = Kept(obj, cache)
        /\ UNCHANGED <<rows, purges, out, revived, raced, pwd, cache, leader, tokens,
                       issued, requests, restarts, outdated, edited>>

-----------------------------------------------------------------------------
(* HandleSession *)

SessionStep(p) ==
    /\ At(p, "device")
    /\ CheckDevice(p)
    /\ UNCHANGED accountVars

LeaveDevice(p) == visit' = [visit EXCEPT ![p] = NoVisit(AnyDevice)]

Passed(p) ==
    /\ At(p, "device")
    /\ Standing(p, "passed")
    /\ LeaveDevice(p)
    /\ Goes(p, IF request[p].kind = "plain" THEN "refresh" ELSE request[p].kind)
    /\ UNCHANGED <<rows, purges, out, revived, raced, pwd, obj, cache, leader, tokens,
                   issued, requests, restarts, outdated, edited>>

\* InvalidateToken, of the token that came with the request; another token of the
\* same time may be left.
InvalidateToken(p) == tokens' \in {tokens, tokens \ {request[p].pwd}}

\* Refused; the token that came from a device that was put out is invalidated.
TurnedAway(p) ==
    /\ At(p, "device")
    /\ visit[p].pc \in {"inactive", "denied", "failed"}
    /\ LeaveDevice(p)
    /\ IF Standing(p, "inactive") THEN InvalidateToken(p) ELSE UNCHANGED tokens
    /\ Ends(p)
    /\ UNCHANGED <<rows, purges, out, revived, raced, pwd, cache, leader, issued,
                   requests, restarts, outdated, edited>>

-----------------------------------------------------------------------------
(* The handlers *)

\* GenerateToken, from the user in memory as it is now
Token(p) ==
    /\ At(p, "login")
    /\ tokens' = tokens \cup {obj[request[p].user]}
    /\ Ends(p)
    /\ UNCHANGED <<sessionVars, pwd, cache, leader, issued, requests, restarts,
                   outdated, edited>>

\* LogOut: first the session, then the token
LogOut(p) ==
    /\ At(p, "logout")
    /\ MarkInactive(request[p].dev)
    /\ Goes(p, "forget")
    /\ UNCHANGED <<purges, visit, raced, pwd, obj, cache, leader, tokens, issued,
                   requests, restarts, outdated, edited>>

ForgetToken(p) ==
    /\ At(p, "forget")
    /\ InvalidateToken(p)
    /\ Ends(p)
    /\ UNCHANGED <<sessionVars, pwd, cache, leader, issued, requests, restarts,
                   outdated, edited>>

\* EvictMySession, of a device that has a session
EvictMySession(p) ==
    /\ At(p, "evict")
    /\ \E d \in Device : Row(d) # {} /\ MarkInactive(d)
    /\ Goes(p, "refresh")
    /\ UNCHANGED <<purges, visit, raced, pwd, obj, cache, leader, tokens, issued,
                   requests, restarts, outdated, edited>>

\* EvictSession, by an administrator
EvictSession(d) ==
    /\ MarkInactive(d)
    /\ UNCHANGED <<purges, visit, raced, accountVars>>

\* UpdateCurrent edits the user it was given, which others may share, and then
\* calls UpdateUser.
EditUser(p) ==
    /\ At(p, "password")
    /\ issued < MaxPwd
    /\ issued' = issued + 1
    /\ obj' = [obj EXCEPT ![request[p].user] = issued + 1]
    /\ Goes(p, "old")
    /\ UNCHANGED <<sessionVars, pwd, cache, leader, tokens, requests, restarts,
                   outdated, edited>>

\* UpdateUser failed: the user is left as it was edited.
LeavesUser(p) ==
    /\ request' = [request EXCEPT ![p].pc = "refresh", ![p].user = NoObj]
    /\ obj' = Kept(obj, cache)

\* UpdateUser reads the old user, whose name is the key of the cache.
OldUser(p) ==
    /\ At(p, "old")
    /\ \/ /\ Goes(p, "uncache")
          /\ UNCHANGED <<obj, edited>>
       \/ /\ Fails
          /\ edited' = (edited \/ cache = request[p].user)
          /\ LeavesUser(p)
    /\ UNCHANGED <<sessionVars, pwd, cache, leader, tokens, issued, requests,
                   restarts, outdated>>

\* A change of the table overlaps with a call in userG that has read it.
Overlaps(next) ==
    request' = [p \in Proc |->
        IF At(p, "fill") \/ At(p, "done") THEN [next[p] EXCEPT !.overlap = TRUE]
        ELSE next[p]]

\* Mutant: the user stays in the cache.
Uncache_Kept(p) ==
    /\ At(p, "uncache")
    /\ Overlaps([request EXCEPT ![p].pc = "store"])
    /\ UNCHANGED <<sessionVars, pwd, obj, cache, leader, tokens, issued, requests,
                   restarts, outdated, edited>>

\* userCache.Del
Uncache(p) ==
    /\ At(p, "uncache")
    /\ cache' = NoObj
    /\ outdated' = FALSE
    /\ edited' = FALSE
    /\ Overlaps([request EXCEPT ![p].pc = "store"])
    /\ obj' = Kept(obj, NoObj)
    /\ UNCHANGED <<sessionVars, pwd, leader, tokens, issued, requests, restarts>>

\* The requests under way, with the password that the table now has
Lowered(next, password) ==
    [p \in Proc |-> IF password < next[p].floor
                    THEN [next[p] EXCEPT !.floor = password] ELSE next[p]]

\* db.UpdateUser: only now the table changes.
StoreUser(p) ==
    /\ At(p, "store")
    /\ \/ /\ pwd' = obj[request[p].user]
          /\ Overlaps(Lowered([request EXCEPT ![p].pc = "refresh", ![p].user = NoObj],
                              pwd'))
          /\ obj' = Kept(obj, cache)
       \/ /\ Fails
          /\ LeavesUser(p)
          /\ UNCHANGED pwd
    /\ UNCHANGED <<sessionVars, cache, leader, tokens, issued, requests, restarts,
                   outdated, edited>>

\* SessionRefresh, after the handler: an error, too, is answered with status 200.
SessionRefresh(p) ==
    /\ At(p, "refresh")
    /\ Refresh(request[p].dev)
    /\ Ends(p)
    /\ UNCHANGED <<purges, visit, out, revived, raced, pwd, cache, leader, tokens,
                   issued, requests, restarts, outdated, edited>>

-----------------------------------------------------------------------------
(* The environment *)

\* A user stays in the cache for an hour.
Expire ==
    /\ cache # NoObj
    /\ cache' = NoObj
    /\ outdated' = FALSE
    /\ edited' = FALSE
    /\ request' = request
    /\ obj' = Kept(obj, NoObj)
    /\ UNCHANGED <<sessionVars, pwd, leader, tokens, issued, requests, restarts>>

\* The tables are all that is left, and tokens are only good while the server
\* that gave them runs.
Restart ==
    /\ restarts < MaxRestarts
    /\ restarts' = restarts + 1
    /\ visit' = [p \in Proc |-> NoVisit(AnyDevice)]
    /\ obj' = [o \in Obj |-> 0]
    /\ cache' = NoObj
    /\ leader' = Nobody
    /\ tokens' = {}
    /\ request' = [p \in Proc |-> NoRequest]
    /\ outdated' = FALSE
    /\ edited' = FALSE
    /\ UNCHANGED <<rows, purges, out, revived, raced, pwd, issued, requests>>

Handle(p) ==
    \/ CacheHit(p) \/ CacheMiss(p) \/ JoinFlight(p) \/ LoadUser(p) \/ FillCache(p)
    \/ LeaveFlight(p) \/ TestUser(p)
    \/ SessionStep(p) \/ Passed(p) \/ TurnedAway(p)
    \/ Token(p) \/ LogOut(p) \/ ForgetToken(p) \/ EvictMySession(p)
    \/ EditUser(p) \/ OldUser(p) \/ Uncache(p) \/ StoreUser(p)
    \/ SessionRefresh(p)

Next ==
    \/ \E p \in Proc : Begin(p) \/ Handle(p)
    \/ \E d \in Device : EvictSession(d)
    \/ Expire
    \/ Restart

Spec == Init /\ [][Next]_vars

-----------------------------------------------------------------------------
(* Properties *)

VisitPc == {"none", "purge", "get", "count", "oldest", "evict", "save", "passed",
            "inactive", "denied", "failed"}

RequestPc == {"idle", "user", "miss", "wait", "load", "fill", "done", "test", "device",
              "login", "logout", "forget", "evict", "password", "old", "uncache",
              "store", "refresh"}

\* Each variable keeps its type, and a device has at most one session.
TypeOK ==
    /\ rows \in Seq([dev : Device, status : {"active", "inactive"}])
    /\ \A i, j \in DOMAIN rows : rows[i].dev = rows[j].dev => i = j
    /\ purges \in 0..MaxPurges
    /\ visit \in [Proc -> [pc : VisitPc, dev : Device, login : BOOLEAN,
                           victim : Device, found : {"none", "active", "inactive"},
                           counted : BOOLEAN, stale : BOOLEAN]]
    /\ out \subseteq Device /\ revived \subseteq out
    /\ {raced, outdated, edited} \subseteq BOOLEAN
    /\ {pwd, issued} \subseteq 1..MaxPwd
    /\ obj \in [Obj -> 0..MaxPwd]
    /\ cache \in Obj \cup {NoObj}
    /\ leader \in Proc \cup {Nobody}
    /\ tokens \subseteq 1..MaxPwd
    /\ request \in [Proc -> [pc : RequestPc, dev : Device, user : Obj \cup {NoObj},
                             kind : {"none", "login", "plain", "logout", "evict",
                                     "password"},
                             pwd : 0..MaxPwd, floor : 0..MaxPwd,
                             overlap : BOOLEAN]]
    /\ requests \in 0..MaxRequests
    /\ restarts \in 0..MaxRestarts

\* No user has more active sessions than max_devices, across logins, evictions,
\* expiries and restarts, except where a session became active on an outdated
\* count: two requests that count before either writes, and the row of a device
\* put out in between that is written back (session.go:35, 43, 77, 99, 107).
DeviceLimit == raced \/ Unlimited \/ Cardinality(Active) <= MaxDevices

\* A device that was put out has no active session before its next login
\* ("EnsureActiveOnLogin is used only in login flow", session.go:65), except
\* where a request under way wrote the row back that it had read before, or
\* where the row of the device was deleted for its age.
PutOutStaysOut == out \cap Active \subseteq revived

\* The cached user has the password of the table, unless a change is under way
\* or failed after it edited the cached user, or the user was read while a change
\* went on, which invalidates before it writes (user.go:99, 159-172).
CacheTruth ==
    cache # NoObj =>
        \/ obj[cache] = pwd
        \/ outdated \/ edited
        \/ \E p \in Proc : request[p].pc \in {"old", "uncache"} /\ request[p].user = cache

\* A password or token older than every one the table had since the request came
\* is refused (middlewares/auth.go:79), although the user is tested some time after
\* it was got.  The exception is a user that came from a call in userG, or from the
\* cache filled by one, which a change overlapped: the user it read is old, and a
\* request may join the call after the change (singleflight.go:151-156).
OldRefused ==
    [][\A p \in Proc :
          ~At(p, "device") /\ At(p, "device")' =>
              request[p].pwd >= request[p].floor \/ request[p].overlap]_vars

=============================================================================
