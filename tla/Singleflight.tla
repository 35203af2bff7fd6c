---------------------------- MODULE Singleflight ----------------------------
(***************************************************************************)
(* Duplicate call suppression: one Group of pkg/singleflight.              *)
(*                                                                         *)
(* The mutex makes each visit to the map one step.  The steps between are  *)
(* the function that is called, wg.Done (which wakes the duplicates) and,  *)
(* only later and again under the mutex, the removal from the map with the *)
(* answers on the channels: a duplicate can still join in that window.     *)
(*                                                                         *)
(* The function may return (a value or an error: "value"), panic, or call  *)
(* runtime.Goexit.  A call structure is garbage once no caller refers to   *)
(* it; the model clears it and takes it again for a later call, so that as *)
(* many call structures as callers are enough.  MaxDups bounds the duplicates of a   *)
(* call, which may come and go without end until it leaves the map.        *)
(***************************************************************************)
EXTENDS Integers, FiniteSets

CONSTANTS
    Key,      \* the keys of the group
    Caller,   \* goroutines that use the group
    Call,     \* call structures
    NoCall,   \* no call structure
    NoKey,    \* the key of a call structure never used
    Uses,     \* Uses[p]: the methods that caller p calls
    MaxDups   \* bound on the duplicates of one call

ASSUME SentinelAssumption == NoCall \notin Call /\ NoKey \notin Key

ASSUME DupsAssumption == MaxDups \in Nat

Outcome == {"value", "panic", "goexit"}
NoOutcome == "none"

VARIABLES
    m,        \* Group.m: the call in flight for each key
    call,     \* the call structures
    caller,   \* where each goroutine stands
    crashed   \* an unrecoverable panic ended the process

vars == <<m, call, caller, crashed>>

NewCall(k, chans) ==
    [key |-> k, phase |-> "running", outcome |-> NoOutcome,
     forgotten |-> FALSE, dups |-> 0, chans |-> chans]

Unused ==
    [key |-> NoKey, phase |-> "closed", outcome |-> NoOutcome,
     forgotten |-> FALSE, dups |-> 0, chans |-> {}]

Init ==
    /\ m = [k \in Key |-> NoCall]
    /\ call = [c \in Call |-> Unused]
    /\ caller = [p \in Caller |-> [pc |-> "ready", call |-> NoCall,
                                   shared |-> FALSE]]
    /\ crashed = FALSE

\* The calls somebody else than p refers to
InUse(p) == {caller[q].call : q \in Caller \ {p}}

\* Caller p turns to call c, which is now as given; a call that only p referred
\* to before is garbage.
Turns(p, pc, c, record) ==
    /\ caller' = [caller EXCEPT ![p] = [pc |-> pc, call |-> c,
                                        shared |-> FALSE]]
    /\ call' = [d \in Call |-> IF d = c THEN record
                               ELSE IF d \in InUse(p) THEN call[d]
                               ELSE Unused]

\* Mutant: a duplicate is not counted.
Join_Uncounted(p, k, pc, ch) ==
    /\ m[k] # NoCall
    /\ Turns(p, pc, m[k], [call[m[k]] EXCEPT !.chans = @ \cup ch])
    /\ UNCHANGED m

\* The two branches of Do and DoChan.  ch is the channel of p, or none.
Join(p, k, pc, ch) ==
    /\ m[k] # NoCall
    /\ call[m[k]].dups < MaxDups
    /\ Turns(p, pc, m[k], [call[m[k]] EXCEPT !.dups = @ + 1,
                                             !.chans = @ \cup ch])
    /\ UNCHANGED m

Launch(p, k, pc, ch) ==
    /\ m[k] = NoCall
    /\ \E c \in Call \ InUse(p) :
          /\ m' = [m EXCEPT ![k] = c]
          /\ Turns(p, pc, c, NewCall(k, ch))

\* Mutant: the leader starts doCall in a goroutine and waits like a duplicate.
Do_LeaderWaits(p, k) ==
    /\ "Do" \in Uses[p]
    /\ caller[p].pc = "ready"
    /\ Join(p, k, "wait", {}) \/ Launch(p, k, "wait", {})
    /\ UNCHANGED crashed

\* The leader runs the call itself; a duplicate waits for the wait group.
Do(p, k) ==
    /\ "Do" \in Uses[p]
    /\ caller[p].pc = "ready"
    /\ Join(p, k, "wait", {}) \/ Launch(p, k, "lead", {})
    /\ UNCHANGED crashed

\* DoChan returns at once; the caller then waits for its channel.
DoChan(p, k) ==
    /\ "DoChan" \in Uses[p]
    /\ caller[p].pc = "ready"
    /\ Join(p, k, "chan", {p}) \/ Launch(p, k, "chan", {p})
    /\ UNCHANGED crashed

\* Mutant: the call taken out of the map is not marked as forgotten.
Forget_Unmarked(p, k) ==
    /\ "Forget" \in Uses[p]
    /\ caller[p].pc = "ready"
    /\ m' = [m EXCEPT ![k] = NoCall]
    /\ UNCHANGED <<call, caller, crashed>>

Forget(p, k) ==
    /\ "Forget" \in Uses[p]
    /\ caller[p].pc = "ready"
    /\ m' = [m EXCEPT ![k] = NoCall]
    /\ call' = IF m[k] = NoCall THEN call
               ELSE [call EXCEPT ![m[k]].forgotten = TRUE]
    /\ UNCHANGED <<caller, crashed>>

\* Mutant: the end of the function counts down the duplicates.
Done_Uncounts(c, outcome) ==
    /\ call[c].phase = "running"
    /\ call' = [call EXCEPT ![c].outcome = outcome, ![c].phase = "done",
                            ![c].dups = @ - 1]
    /\ UNCHANGED <<m, caller, crashed>>

\* The function ends, its outcome is recorded, and wg.Done.
Done(c, outcome) ==
    /\ call[c].phase = "running"
    /\ call' = [call EXCEPT ![c].outcome = outcome, ![c].phase = "done"]
    /\ UNCHANGED <<m, caller, crashed>>

\* Mutant: a duplicate does not wait for the wait group.
Wake_Early(p) ==
    /\ caller[p].pc = "wait"
    /\ caller' = [caller EXCEPT ![p].pc = "ready", ![p].shared = TRUE]
    /\ UNCHANGED <<m, call, crashed>>

\* A duplicate returns from wg.Wait.  It shares the panic and the Goexit too.
Wake(p) ==
    /\ caller[p].pc = "wait"
    /\ call[caller[p].call].phase # "running"
    /\ caller' = [caller EXCEPT ![p].pc = "ready", ![p].shared = TRUE]
    /\ UNCHANGED <<m, call, crashed>>

\* Mutant: the channels of a call are not answered.
Answered_Leader(c) ==
    {p \in Caller : caller[p].call = c /\ caller[p].pc = "lead"}

\* Who hears of the end of c when it is closed: the goroutine that ran it, and
\* after a normal return each channel.  A Goexit leaves the channels unanswered.
Answered(c) ==
    {p \in Caller : /\ caller[p].call = c
                    /\ \/ caller[p].pc = "lead"
                       \/ p \in call[c].chans /\ call[c].outcome = "value"}

\* The locked part of doCall's deferred function, then the return of its Do.
\* A panic that somebody awaits on a channel takes the whole process down.
Close(c) ==
    /\ call[c].phase = "done"
    /\ call' = [call EXCEPT ![c].phase = "closed"]
    /\ m' = IF call[c].forgotten THEN m
                                 ELSE [m EXCEPT ![call[c].key] = NoCall]
    /\ IF call[c].outcome = "panic" /\ call[c].chans # {}
       THEN crashed' = TRUE /\ UNCHANGED caller
       ELSE /\ caller' = [p \in Caller |->
                            IF p \in Answered(c)
                            THEN [caller[p] EXCEPT !.pc = "ready",
                                                   !.shared = call[c].dups > 0]
                            ELSE caller[p]]
            /\ UNCHANGED crashed

Step ==
    \/ \E p \in Caller, k \in Key : Do(p, k) \/ DoChan(p, k) \/ Forget(p, k)
    \/ \E c \in Call, outcome \in Outcome : Done(c, outcome)
    \/ \E p \in Caller : Wake(p)
    \/ \E c \in Call : Close(c)

Next == ~crashed /\ Step

\* The functions return and the scheduler runs every goroutine that can go on;
\* nobody has to call Do, DoChan or Forget.
Fairness ==
    /\ \A c \in Call : WF_vars(~crashed /\ \E o \in Outcome : Done(c, o))
    /\ \A c \in Call : WF_vars(~crashed /\ Close(c))
    /\ \A p \in Caller : WF_vars(~crashed /\ Wake(p))

Safety == Init /\ [][Next]_vars

Spec == Safety /\ Fairness

-----------------------------------------------------------------------------
CallRecord == [key : Key \cup {NoKey}, phase : {"running", "done", "closed"},
               outcome : Outcome \cup {NoOutcome}, forgotten : BOOLEAN,
               dups : Nat, chans : SUBSET Caller]

CallerRecord == [pc : {"ready", "wait", "lead", "chan"},
                 call : Call \cup {NoCall}, shared : BOOLEAN]

\* The map, the call structures and the callers have their types.
TypeOK ==
    /\ m \in [Key -> Call \cup {NoCall}]
    /\ call \in [Call -> CallRecord]
    /\ caller \in [Caller -> CallerRecord]
    /\ crashed \in BOOLEAN

Blocked(p) == caller[p].pc # "ready"

\* The map holds exactly the calls that are neither closed nor forgotten, each
\* under its own key: "only one execution is in-flight for a given key at a
\* time" (Do), and the removal of an old, forgotten call never takes a newer
\* call of the key out of the map.
FlightsRegistered ==
    /\ \A c \in Call : call[c].phase # "closed" /\ ~call[c].forgotten =>
          call[c].key \in Key /\ m[call[c].key] = c
    /\ \A k \in Key : m[k] # NoCall =>
          /\ call[m[k]].key = k
          /\ call[m[k]].phase # "closed"
          /\ ~call[m[k]].forgotten

\* Whoever is told that its result is not shared may do with it what it likes:
\* nobody else has, or still waits for, the result of that call.
SharedExact ==
    \A p, q \in Caller :
        /\ p # q
        /\ caller[p].call # NoCall
        /\ caller[p].call = caller[q].call
        /\ ~Blocked(p)
        => caller[p].shared

\* A call that has not been closed is still referred to by a goroutine that only
\* its closing lets go on, so nobody is answered from a structure that serves
\* another call by now.
CallsReferenced ==
    \A c \in Call : call[c].phase # "closed" =>
        \E p \in Caller : caller[p].call = c /\ caller[p].pc \in {"lead", "chan"}

\* singleflight keeps the promises of Dedup.
Promise == INSTANCE Dedup WITH
    Flight   <- Call,
    NoFlight <- NoCall,
    current  <- m,
    result   <- [c \in Call |-> call[c].outcome],
    ride     <- [p \in Caller |->
                   [flight   |-> caller[p].call,
                    answered |-> ~Blocked(p),
                    alone    |-> /\ ~Blocked(p)
                                 /\ caller[p].call # NoCall
                                 /\ ~caller[p].shared]]

DedupSpec == Promise!Spec

\* A waiter on a channel whose call ended by Goexit is never answered.
Stranded(p) ==
    /\ caller[p].pc = "chan"
    /\ call[caller[p].call].phase = "closed"
    /\ call[caller[p].call].outcome = "goexit"

\* Every caller gets its answer in the end, unless the process dies of a panic
\* or the caller waits on a channel of a call that ended by Goexit.
Served == \A p \in Caller : Blocked(p) ~> (~Blocked(p) \/ crashed \/ Stranded(p))

=============================================================================
