----------------------------- MODULE FrpManager -----------------------------
(***************************************************************************)
(* The manager of the embedded FRP client (internal/frp/frp.go).  Requests *)
(* save settings and restart the client (SetFRP), save settings and leave  *)
(* it alone (SaveSettings), stop it (StopFRP) or read settings; a service  *)
(* runs in a goroutine of its own and may fail.  The mutex mu covers       *)
(* Start, and short parts of Stop and of the goroutine of a service, but   *)
(* not the wait in between.                                                *)
(*                                                                         *)
(* Of sync.WaitGroup (external) the model keeps what callers see: Wait     *)
(* returns at once if nothing is counted; the Done that brings the counter *)
(* to 0 wakes every waiter; a waiter that wakes up and finds the counter   *)
(* raised again panics ("WaitGroup is reused before previous Wait has      *)
(* returned"), and gin.Recovery ends that request.  svr.Run (external)     *)
(* ends some time after its context was cancelled, and otherwise only with *)
(* an error.  The settings of the client are one item of Settings.         *)
(***************************************************************************)
EXTENDS Settings

CONSTANTS
    MaxServices,  \* bound on the services started
    MaxCalls      \* bound on the requests

\* One service may run from the start; the bound on the saves never holds a
\* request up.
ASSUME CallBound ==
    /\ MaxServices \in Nat \ {0}
    /\ {MaxCalls, MaxSaves} \subseteq Nat
    /\ MaxCalls <= MaxSaves

ASSUME NoneAssumption == None \notin Nat /\ None \notin Proc

Service == 1 .. MaxServices

VARIABLES
    mu,        \* the holder of the mutex across steps (only Start), or None
    cancel,    \* m.cancel: the service it would cancel, or None
    status,    \* m.status
    state,     \* the goroutine of each service
    config,    \* the settings each service was started with
    cancelled, \* the services whose context was cancelled
    pc,        \* where each request is
    call,      \* what each request does
    mine,      \* the service each running Stop has taken
    calls,     \* the requests made
    orphans,   \* history: services whose cancel function the goroutine of
               \* another service cleared
    late       \* history: a Stop set the status after the Start of another

managerVars == <<mu, cancel, status, state, config, cancelled, pc, call, mine,
                 calls, orphans, late>>
vars == <<settingVars, managerVars>>

Counted(s) == state[s] \notin {"new", "ended"}
Running(s) == state[s] = "running" /\ s \notin cancelled
Fresh == {s \in Service : state[s] = "new"}

\* InitFRP has run: the client is not enabled, could not start, or runs.
Init ==
    /\ SettingsInit
    /\ mu = None
    /\ cancel \in {None, 1}
    /\ status \in (IF cancel = None THEN {"stopped", "error"} ELSE {"running"})
    /\ state = [s \in Service |-> IF s = cancel THEN "running" ELSE "new"]
    /\ config = [s \in Service |-> IF s = cancel THEN 0 ELSE None]
    /\ cancelled = {}
    /\ pc = [p \in Proc |-> "idle"]
    /\ call = [p \in Proc |-> "none"]
    /\ mine = [p \in Proc |-> None]
    /\ calls = 0
    /\ orphans = {}
    /\ late = FALSE

Goto(p, at) == pc' = [pc EXCEPT ![p] = at]
EndCall(p) ==
    /\ Goto(p, "idle")
    /\ call' = [call EXCEPT ![p] = "none"]
    /\ mine' = [mine EXCEPT ![p] = None]

-----------------------------------------------------------------------------
(* Requests: SetFRP, SaveSettings, StopFRP, and those that read settings    *)

Request(p) ==
    /\ pc[p] = "idle" /\ calls < MaxCalls
    /\ calls' = calls + 1
    /\ \/ /\ call' = [call EXCEPT ![p] = "set"]
          /\ Goto(p, "save") /\ UNCHANGED look
       \/ /\ call' = [call EXCEPT ![p] = "write"]
          /\ Goto(p, "save") /\ UNCHANGED look
       \/ /\ call' = [call EXCEPT ![p] = "stop"]
          /\ Goto(p, "take") /\ UNCHANGED look
       \/ /\ call' = [call EXCEPT ![p] = "get"]
          /\ Goto(p, "look") /\ Ask(p)
    /\ UNCHANGED <<row, cached, value, due, overtaken, mu, cancel, status, state,
                   config, cancelled, mine, orphans, late>>

\* Only SetFRP goes on to Restart.
Restarts(p) == call[p] = "set"

Save(p) ==
    /\ pc[p] = "save"
    /\ WriteRow(Restarts(p))
    /\ Goto(p, "update")
    /\ UNCHANGED <<mu, cancel, status, state, config, cancelled, call, mine,
                   calls, orphans, late>>

Update(p) ==
    /\ pc[p] = "update"
    /\ SettingCacheUpdate(Restarts(p))
    /\ IF Restarts(p) THEN Goto(p, "take") /\ UNCHANGED <<call, mine>>
                      ELSE EndCall(p)
    /\ UNCHANGED <<mu, cancel, status, state, config, cancelled, calls, orphans, late>>

Look(p) == GetSettingItem(p) /\ UNCHANGED managerVars

\* A request that only reads ends with its look-up.
Looked(p) ==
    /\ call[p] = "get"
    /\ Taken(p)
    /\ EndCall(p)
    /\ UNCHANGED <<row, cached, due, overtaken, mu, cancel, status, state, config,
                   cancelled, calls, orphans, late>>

-----------------------------------------------------------------------------
(* Stop                                                                     *)

Take(p) ==
    /\ pc[p] = "take" /\ mu = None
    /\ mine' = [mine EXCEPT ![p] = cancel]
    /\ cancel' = None
    /\ Goto(p, IF cancel = None THEN "settle" ELSE "cancel")
    /\ UNCHANGED <<settingVars, mu, status, state, config, cancelled, call, calls,
                   orphans, late>>

\* appendLog, which takes the mutex, and cancel()
Cancel(p) ==
    /\ pc[p] = "cancel" /\ mu = None
    /\ cancelled' = cancelled \cup {mine[p]}
    /\ Goto(p, "wait")
    /\ UNCHANGED <<settingVars, mu, cancel, status, state, config, call, mine,
                   calls, orphans, late>>

Wait(p) ==
    /\ pc[p] = "wait"
    /\ Goto(p, IF \E s \in Service : Counted(s) THEN "waiting" ELSE "settle")
    /\ UNCHANGED <<settingVars, mu, cancel, status, state, config, cancelled, call,
                   mine, calls, orphans, late>>

\* A waiter wakes up; another Start may have raised the counter meanwhile.
Wake(p) ==
    /\ pc[p] = "woken"
    /\ IF \E s \in Service : Counted(s)
       THEN EndCall(p)
       ELSE Goto(p, "settle") /\ UNCHANGED <<call, mine>>
    /\ UNCHANGED <<settingVars, mu, cancel, status, state, config, cancelled, calls,
                   orphans, late>>

Settle(p) ==
    /\ pc[p] = "settle" /\ mu = None
    /\ status' = "stopped"
    /\ late' = (cancel # None)
    /\ IF Restarts(p) THEN Goto(p, "start") /\ UNCHANGED <<call, mine>>
                        ELSE EndCall(p)
    /\ UNCHANGED <<settingVars, mu, cancel, state, config, cancelled, calls, orphans>>

-----------------------------------------------------------------------------
(* Start: the mutex is held to the end, while buildConfig reads settings    *)

\* Mutant: Start does not look whether the client is running.
AlreadyRunning_Never == FALSE

AlreadyRunning == cancel # None

Skip(p) ==
    /\ pc[p] = "start" /\ mu = None
    /\ AlreadyRunning
    /\ EndCall(p)
    /\ UNCHANGED <<settingVars, mu, cancel, status, state, config, cancelled, calls,
                   orphans, late>>

BuildConfig(p) ==
    /\ pc[p] = "start" /\ mu = None
    /\ ~AlreadyRunning
    /\ mu' = p
    /\ Ask(p)
    /\ Goto(p, "look")
    /\ UNCHANGED <<row, cached, value, due, overtaken, cancel, status, state, config,
                   cancelled, call, mine, calls, orphans, late>>

\* The settings are incomplete, or the log directory or the service cannot be made.
StartFails(p) ==
    /\ mu = p
    /\ Taken(p)
    /\ status' = "error"
    /\ late' = FALSE
    /\ mu' = None
    /\ EndCall(p)
    /\ UNCHANGED <<row, cached, due, overtaken, cancel, state, config, cancelled, calls,
                   orphans>>

Start(p) ==
    /\ mu = p
    /\ Taken(p)
    /\ \E s \in Fresh :
         /\ \A t \in Fresh : s <= t
         /\ cancel' = s
         /\ state' = [state EXCEPT ![s] = "running"]
         /\ config' = [config EXCEPT ![s] = value[p]]
    /\ status' = "running"
    /\ late' = FALSE
    /\ mu' = None
    /\ EndCall(p)
    /\ UNCHANGED <<row, cached, due, overtaken, cancelled, calls, orphans>>

-----------------------------------------------------------------------------
(* The goroutine of a service                                               *)

\* svr.Run returns an error and the context is not cancelled.
Breaks(s) ==
    /\ Running(s)
    /\ state' = [state EXCEPT ![s] = "failing"]
    /\ UNCHANGED <<settingVars, mu, cancel, status, config, cancelled, pc, call, mine,
                   calls, orphans, late>>

\* Mutant: a failure returns before the wait group is told.
AfterFailure_NotDone == "gone"

AfterFailure == "leaving"

\* The error is recorded, and whatever m.cancel is now, it is cleared.
RecordFailure(s) ==
    /\ state[s] = "failing" /\ mu = None
    /\ status' = "error"
    /\ cancel' = None
    /\ orphans' = orphans \cup ({cancel} \ {s, None})
    /\ late' = FALSE
    /\ state' = [state EXCEPT ![s] = AfterFailure]
    /\ UNCHANGED <<settingVars, mu, config, cancelled, pc, call, mine, calls>>

\* svr.Run returns after the context was cancelled.
Ends(s) ==
    /\ state[s] = "running" /\ s \in cancelled
    /\ state' = [state EXCEPT ![s] = "leaving"]
    /\ UNCHANGED <<settingVars, mu, cancel, status, config, cancelled, pc, call, mine,
                   calls, orphans, late>>

\* wg.Done
Leaves(s) ==
    /\ state[s] = "leaving"
    /\ state' = [state EXCEPT ![s] = "ended"]
    /\ pc' = [p \in Proc |->
                IF pc[p] = "waiting" /\ \A t \in Service \ {s} : ~Counted(t)
                THEN "woken" ELSE pc[p]]
    /\ UNCHANGED <<settingVars, mu, cancel, status, config, cancelled, call, mine,
                   calls, orphans, late>>

Expire == ItemExpires /\ UNCHANGED managerVars

-----------------------------------------------------------------------------
Step(p) ==
    \/ Save(p) \/ Update(p) \/ Look(p) \/ Looked(p)
    \/ Take(p) \/ Cancel(p) \/ Wait(p) \/ Wake(p) \/ Settle(p)
    \/ Skip(p) \/ BuildConfig(p) \/ StartFails(p) \/ Start(p)

Goroutine(s) == RecordFailure(s) \/ Ends(s) \/ Leaves(s)

Next ==
    \/ \E p \in Proc : Request(p) \/ Step(p)
    \/ \E s \in Service : Breaks(s) \/ Goroutine(s)
    \/ Expire

\* Goroutines go on; nothing makes requests arrive, services fail or entries expire.
Spec ==
    /\ Init /\ [][Next]_vars
    /\ \A p \in Proc : WF_vars(Step(p))
    /\ \A s \in Service : WF_vars(Goroutine(s))

-----------------------------------------------------------------------------
(* Properties                                                               *)

\* Every service that is meant to run can be stopped: m.cancel or a Stop under way
\* will cancel it.  The exception is a service whose cancel function the goroutine
\* of an older, failed one cleared (frp.go:115), and there is no other.
Reachable ==
    \A s \in Service :
        Running(s) =>
            \/ s = cancel
            \/ \E p \in Proc : pc[p] = "cancel" /\ mine[p] = s
            \/ s \in orphans

Quiet ==
    /\ \A p \in Proc : call[p] \in {"none", "get", "write"}
    /\ \A s \in Service : state[s] # "failing"

\* When no call is at work on the client the status says "running" exactly if a
\* service is in the hands of the manager.  The exception is a Stop that set "stopped"
\* after the Start of another request (frp.go:136-137).
StatusTrue == Quiet => ((status = "running") <=> (cancel # None /\ ~late))

\* When no call is at work on the client the service in hand has the settings that the last
\* SetFRP saved, or newer ones ("starts a fresh one with current settings",
\* frp.go:142), although Start may have been skipped, or a Restart have ended in a
\* panic.  What SaveSettings saves after that is used at the next Restart.  The
\* exception is a look-up of the settings that the save overtook: its old item was
\* cached again or handed on (op/setting.go:97-101 and 178-180).
SettingsInUse == Quiet /\ cancel # None => config[cancel] >= due \/ overtaken

\* The service of the manager is in hand: it can be stopped, the status tells the
\* truth about it and it has the settings that SetFRP saved.
InHand == Reachable /\ StatusTrue /\ SettingsInUse

\* A Stop that waits although a service runs which nobody has cancelled: the wait
\* group counts that newer service too (frp.go:133).
Held(p) == pc[p] = "waiting" /\ \E s \in Service : Running(s)

\* Every call returns, whatever fails, unless a newer service holds its Stop up: the
\* goroutine of a failed service takes the mutex and ends although Stop waits for it.
CallsReturn == \A p \in Proc : []<>(pc[p] = "idle") \/ <>[]Held(p)

============================================================================
