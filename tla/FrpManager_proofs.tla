------------------------- MODULE FrpManager_proofs --------------------------
(***************************************************************************)
(* Safety proofs about FrpManager, for any number of requests, services,   *)
(* saves and look-ups: the service of the manager is in hand, and the only *)
(* exceptions are those that InHand names.                                 *)
(***************************************************************************)
EXTENDS FrpManager, TLAPS

LookPc == {"none", "ask", "miss", "wait", "read", "store", "close", "got"}

CallPc == {"idle", "save", "update", "take", "cancel", "wait", "waiting", "woken",
           "settle", "start", "look"}

ServiceState == {"new", "running", "failing", "leaving", "ended"}

\* The types of the variables
FTypeOK ==
    /\ row \in Value
    /\ cached \in Value \cup {None}
    /\ look \in [Proc -> LookPc]
    /\ value \in [Proc -> Value \cup {None}]
    /\ due \in Value
    /\ overtaken \in BOOLEAN
    /\ mu \in Proc \cup {None}
    /\ cancel \in Service \cup {None}
    /\ status \in {"stopped", "running", "error"}
    /\ state \in [Service -> ServiceState]
    /\ config \in [Service -> Value \cup {None}]
    /\ cancelled \subseteq Service
    /\ pc \in [Proc -> CallPc]
    /\ call \in [Proc -> {"none", "set", "write", "stop", "get"}]
    /\ mine \in [Proc -> Service \cup {None}]
    /\ calls \in Nat
    /\ orphans \subseteq Service
    /\ late \in BOOLEAN

\* Where a request can be, by what it does; a Stop cancels what it took.
Places ==
    \A p \in Proc :
        /\ pc[p] = "idle" <=> call[p] = "none"
        /\ pc[p] \in {"save", "update"} => call[p] \in {"set", "write"}
        /\ pc[p] = "start" => call[p] = "set"
        /\ pc[p] \in {"take", "cancel", "wait", "waiting", "woken", "settle"}
              => call[p] \in {"set", "stop"}
        /\ pc[p] = "cancel" => mine[p] # None

\* Start holds the mutex, and keeps it only if nothing was running.
Holder ==
    /\ \A p \in Proc : mu = p => pc[p] = "look" /\ call[p] = "set"
    /\ mu # None => cancel = None

\* A Stop between the taking of the cancel function and the setting of the status;
\* one that was woken finds nothing counted.
Stopping(p) ==
    \/ pc[p] \in {"cancel", "wait", "waiting", "settle"}
    \/ pc[p] = "woken" /\ \A s \in Service : ~Counted(s)

\* What the status says about the service in hand, and who corrects it when there
\* is none
StatusKept ==
    /\ cancel # None => status = (IF late THEN "stopped" ELSE "running")
    /\ status = "running" /\ cancel = None => \E p \in Proc : Stopping(p)

\* What was read of the row is no newer than the row.
RowsRead ==
    /\ due \in 0 .. row
    /\ \A p \in Proc : look[p] \in {"store", "close"} => value[p] \in 0 .. row

\* A SetFRP that saved and has not cleared the cache, or not taken the old service yet
Saving == \E p \in Proc : pc[p] = "update" /\ call[p] = "set"
Pending == \E p \in Proc : pc[p] \in {"update", "take"} /\ call[p] = "set"

\* Once the cache was cleared it has, as does whoever is about to fill it, what the
\* last SetFRP saved, or what SaveSettings saved after that.
CacheFresh ==
    ~Saving /\ ~overtaken =>
        /\ cached = None \/ cached \in due .. row
        /\ \A p \in Proc : look[p] \in {"store", "close"} => value[p] \in due .. row

\* A service started after the last SetFRP saved, or about to be, has what was saved.
ConfigFresh ==
    ~Pending /\ ~overtaken =>
        /\ cancel # None => config[cancel] \in due .. row
        /\ \A p \in Proc : mu = p /\ look[p] = "got" => value[p] \in due .. row

IInv ==
    /\ FTypeOK
    /\ Places
    /\ Holder
    /\ Reachable
    /\ StatusKept
    /\ RowsRead
    /\ CacheFresh
    /\ ConfigFresh

\* The definitions that unfold a state into its parts
USE NoneAssumption DEF Restarts, Value, Service, Running, Counted, LookPc, CallPc,
    ServiceState

-----------------------------------------------------------------------------
\* Initially nothing is asked, saved or stopped, and at most one service runs.
LEMMA InitIInv == Init => IInv
<1> SUFFICES ASSUME Init PROVE IInv OBVIOUS
<1> USE DEF Init, SettingsInit
<1>1. FTypeOK
  <2>1. 0 \in Value /\ (cancel = None \/ cancel \in Service) BY CallBound
  <2>2. config \in [Service -> Value \cup {None}] BY <2>1
  <2>3. cached \in Value \cup {None} /\ row \in Value BY <2>1
  <2> QED BY <2>1, <2>2, <2>3 DEF FTypeOK
<1>2. Places /\ Holder BY DEF Places, Holder
<1>3. Reachable BY DEF Reachable
<1>4. StatusKept BY DEF StatusKept
<1>5. CacheFresh BY DEF CacheFresh
<1>6. ConfigFresh BY CallBound DEF ConfigFresh
<1>7. RowsRead BY DEF RowsRead
<1> QED BY <1>1, <1>2, <1>3, <1>4, <1>5, <1>6, <1>7 DEF IInv

-----------------------------------------------------------------------------
(* Requests *)

\* A request that comes does nothing yet but to be somewhere.
LEMMA RequestIInv ==
    ASSUME IInv, NEW p \in Proc, Request(p)
    PROVE  IInv'
<1> USE DEF Request, Ask, Goto, IInv
<1>1. FTypeOK'
  <2>1. calls' \in Nat BY DEF FTypeOK
  <2>2. call' \in [Proc -> {"none", "set", "write", "stop", "get"}] BY DEF FTypeOK
  <2>3. pc' \in [Proc -> CallPc] BY DEF FTypeOK
  <2>4. look' \in [Proc -> LookPc] BY DEF FTypeOK
  <2> HIDE DEF CallPc, LookPc
  <2> QED BY <2>1, <2>2, <2>3, <2>4 DEF FTypeOK
<1>2. Places' BY DEF FTypeOK, Places
<1>3. Holder' BY DEF FTypeOK, Holder, Places
<1>4. Reachable' BY DEF FTypeOK, Reachable, Holder, Places
<1>5. StatusKept' BY DEF FTypeOK, StatusKept, Stopping, Holder, Places
<1>6. CacheFresh' BY DEF FTypeOK, CacheFresh, RowsRead, Saving, Places
<1>7. ConfigFresh'
  BY DEF FTypeOK, ConfigFresh, CacheFresh, RowsRead, Saving, Pending, Holder, Places
<1>8. RowsRead' BY DEF FTypeOK, RowsRead
<1> QED BY <1>1, <1>2, <1>3, <1>4, <1>5, <1>6, <1>7, <1>8

\* A SetFRP that saves makes everything too old, until it has taken the service.
LEMMA SaveIInv ==
    ASSUME IInv, NEW p \in Proc, Save(p)
    PROVE  IInv'
<1> USE DEF Save, WriteRow, Goto, managerVars, IInv
<1>1. FTypeOK' BY CallBound DEF FTypeOK
<1>2. Places' BY DEF FTypeOK, Places
<1>3. Holder' BY DEF FTypeOK, Holder, Places
<1>4. Reachable' BY DEF FTypeOK, Reachable, Holder, Places
<1>5. StatusKept' BY DEF FTypeOK, StatusKept, Stopping, Holder, Places
<1>6. CacheFresh' BY DEF FTypeOK, CacheFresh, RowsRead, Saving, Places
<1>7. ConfigFresh'
  BY DEF FTypeOK, ConfigFresh, CacheFresh, RowsRead, Saving, Pending, Holder, Places
<1>8. RowsRead' BY DEF FTypeOK, RowsRead
<1> QED BY <1>1, <1>2, <1>3, <1>4, <1>5, <1>6, <1>7, <1>8

\* The cache is cleared: a SetFRP notes whether something too old is to be stored.
LEMMA UpdateIInv ==
    ASSUME IInv, NEW p \in Proc, Update(p)
    PROVE  IInv'
<1> USE DEF Update, SettingCacheUpdate, EndCall, Goto, managerVars, IInv
<1>1. FTypeOK' BY DEF FTypeOK
<1>2. Places' BY DEF FTypeOK, Places
<1>3. Holder' BY DEF FTypeOK, Holder, Places
<1>4. Reachable' BY DEF FTypeOK, Reachable, Holder, Places
<1>5. StatusKept' BY DEF FTypeOK, StatusKept, Stopping, Holder, Places
<1>6. CacheFresh' BY DEF FTypeOK, CacheFresh, RowsRead, Saving, Places
<1>7. ConfigFresh'
  BY DEF FTypeOK, ConfigFresh, CacheFresh, RowsRead, Saving, Pending, Holder, Places
<1>8. RowsRead' BY DEF FTypeOK, RowsRead
<1> QED BY <1>1, <1>2, <1>3, <1>4, <1>5, <1>6, <1>7, <1>8

\* A request that only reads ends with its look-up.
LEMMA LookedIInv ==
    ASSUME IInv, NEW p \in Proc, Looked(p)
    PROVE  IInv'
<1> USE DEF Looked, Taken, EndCall, Goto, IInv
<1>1. FTypeOK' BY DEF FTypeOK
<1>2. Places' BY DEF FTypeOK, Places
<1>3. Holder' BY DEF FTypeOK, Holder, Places
<1>4. Reachable' BY DEF FTypeOK, Reachable, Holder, Places
<1>5. StatusKept' BY DEF FTypeOK, StatusKept, Stopping, Holder, Places
<1>6. CacheFresh' BY DEF FTypeOK, CacheFresh, RowsRead, Saving, Places
<1>7. ConfigFresh'
  BY DEF FTypeOK, ConfigFresh, CacheFresh, RowsRead, Saving, Pending, Holder, Places
<1>8. RowsRead' BY DEF FTypeOK, RowsRead
<1> QED BY <1>1, <1>2, <1>3, <1>4, <1>5, <1>6, <1>7, <1>8

-----------------------------------------------------------------------------
(* Stop *)

\* The service taken is now in the hands of the Stop.
LEMMA TakeIInv ==
    ASSUME IInv, NEW p \in Proc, Take(p)
    PROVE  IInv'
<1> USE DEF Take, Goto, settingVars, IInv
<1>1. FTypeOK' BY DEF FTypeOK
<1>2. Places' BY DEF FTypeOK, Places
<1>3. Holder' BY DEF FTypeOK, Holder, Places
<1>4. Reachable' BY DEF FTypeOK, Reachable, Holder, Places
<1>5. StatusKept' BY DEF FTypeOK, StatusKept, Stopping, Holder, Places
<1>6. CacheFresh' BY DEF FTypeOK, CacheFresh, RowsRead, Saving, Places
<1>7. ConfigFresh'
  BY DEF FTypeOK, ConfigFresh, CacheFresh, RowsRead, Saving, Pending, Holder, Places
<1>8. RowsRead' BY DEF FTypeOK, RowsRead
<1> QED BY <1>1, <1>2, <1>3, <1>4, <1>5, <1>6, <1>7, <1>8

\* Stop cancels the service that it found.
LEMMA CancelIInv ==
    ASSUME IInv, NEW p \in Proc, Cancel(p)
    PROVE  IInv'
<1> USE DEF Cancel, Goto, settingVars, IInv
<1>1. FTypeOK' BY DEF FTypeOK, Places
<1>2. Places' BY DEF FTypeOK, Places
<1>3. Holder' BY DEF FTypeOK, Holder, Places
<1>4. Reachable' BY DEF FTypeOK, Reachable, Holder, Places
<1>5. StatusKept' BY DEF FTypeOK, StatusKept, Stopping, Holder, Places
<1>6. CacheFresh' BY DEF FTypeOK, CacheFresh, RowsRead, Saving, Places
<1>7. ConfigFresh'
  BY DEF FTypeOK, ConfigFresh, CacheFresh, RowsRead, Saving, Pending, Holder, Places
<1>8. RowsRead' BY DEF FTypeOK, RowsRead
<1> QED BY <1>1, <1>2, <1>3, <1>4, <1>5, <1>6, <1>7, <1>8

\* Stop waits for the end of the service that it cancelled.
LEMMA WaitIInv ==
    ASSUME IInv, NEW p \in Proc, Wait(p)
    PROVE  IInv'
<1> USE DEF Wait, Goto, settingVars, IInv
<1>1. FTypeOK' BY DEF FTypeOK
<1>2. Places' BY DEF FTypeOK, Places
<1>3. Holder' BY DEF FTypeOK, Holder, Places
<1>4. Reachable' BY DEF FTypeOK, Reachable, Holder, Places
<1>5. StatusKept' BY DEF FTypeOK, StatusKept, Stopping, Holder, Places
<1>6. CacheFresh' BY DEF FTypeOK, CacheFresh, RowsRead, Saving, Places
<1>7. ConfigFresh'
  BY DEF FTypeOK, ConfigFresh, CacheFresh, RowsRead, Saving, Pending, Holder, Places
<1>8. RowsRead' BY DEF FTypeOK, RowsRead
<1> QED BY <1>1, <1>2, <1>3, <1>4, <1>5, <1>6, <1>7, <1>8

\* A Stop that panics leaves a service of another request in hand.
LEMMA WakeIInv ==
    ASSUME IInv, NEW p \in Proc, Wake(p)
    PROVE  IInv'
<1> USE DEF Wake, EndCall, Goto, settingVars, IInv
<1>1. FTypeOK' BY ZenonT(40) DEF FTypeOK
<1>2. Places' BY DEF FTypeOK, Places
<1>3. Holder' BY DEF FTypeOK, Holder, Places
<1>4. Reachable' BY DEF FTypeOK, Reachable, Holder, Places
<1>5. StatusKept' BY DEF FTypeOK, StatusKept, Stopping, Holder, Places
<1>6. CacheFresh' BY DEF FTypeOK, CacheFresh, RowsRead, Saving, Places
<1>7. ConfigFresh'
  BY DEF FTypeOK, ConfigFresh, CacheFresh, RowsRead, Saving, Pending, Holder, Places
<1>8. RowsRead' BY DEF FTypeOK, RowsRead
<1> QED BY <1>1, <1>2, <1>3, <1>4, <1>5, <1>6, <1>7, <1>8

\* Stop ends by setting the status, whatever runs by then.
LEMMA SettleIInv ==
    ASSUME IInv, NEW p \in Proc, Settle(p)
    PROVE  IInv'
<1> USE DEF Settle, EndCall, Goto, settingVars, IInv
<1>1. FTypeOK' BY DEF FTypeOK
<1>2. Places' BY DEF FTypeOK, Places
<1>3. Holder' BY DEF FTypeOK, Holder, Places
<1>4. Reachable' BY DEF FTypeOK, Reachable, Holder, Places
<1>5. StatusKept' BY DEF FTypeOK, StatusKept, Stopping, Holder, Places
<1>6. CacheFresh' BY DEF FTypeOK, CacheFresh, RowsRead, Saving, Places
<1>7. ConfigFresh'
  BY DEF FTypeOK, ConfigFresh, CacheFresh, RowsRead, Saving, Pending, Holder, Places
<1>8. RowsRead' BY DEF FTypeOK, RowsRead
<1> QED BY <1>1, <1>2, <1>3, <1>4, <1>5, <1>6, <1>7, <1>8

-----------------------------------------------------------------------------
(* Start *)

LEMMA SkipIInv ==
    ASSUME IInv, NEW p \in Proc, Skip(p)
    PROVE  IInv'
<1> USE DEF Skip, EndCall, Goto, settingVars, IInv
<1>1. FTypeOK' BY DEF FTypeOK
<1>2. Places' BY DEF FTypeOK, Places
<1>3. Holder' BY DEF FTypeOK, Holder, Places
<1>4. Reachable' BY DEF FTypeOK, Reachable, Holder, Places
<1>5. StatusKept' BY DEF FTypeOK, StatusKept, Stopping, Holder, Places
<1>6. CacheFresh' BY DEF FTypeOK, CacheFresh, RowsRead, Saving, Places
<1>7. ConfigFresh'
  BY DEF FTypeOK, ConfigFresh, CacheFresh, RowsRead, Saving, Pending, Holder, Places
<1>8. RowsRead' BY DEF FTypeOK, RowsRead
<1> QED BY <1>1, <1>2, <1>3, <1>4, <1>5, <1>6, <1>7, <1>8

\* Start reads the settings, one after the other.
LEMMA BuildConfigIInv ==
    ASSUME IInv, NEW p \in Proc, BuildConfig(p)
    PROVE  IInv'
<1> USE DEF BuildConfig, AlreadyRunning, Ask, Goto, IInv
<1>1. FTypeOK' BY DEF FTypeOK
<1>2. Places' BY DEF FTypeOK, Places
<1>3. Holder' BY DEF FTypeOK, Holder, Places
<1>4. Reachable' BY DEF FTypeOK, Reachable, Holder, Places
<1>5. StatusKept' BY DEF FTypeOK, StatusKept, Stopping, Holder, Places
<1>6. CacheFresh' BY DEF FTypeOK, CacheFresh, RowsRead, Saving, Places
<1>7. ConfigFresh'
  BY DEF FTypeOK, ConfigFresh, CacheFresh, RowsRead, Saving, Pending, Holder, Places
<1>8. RowsRead' BY DEF FTypeOK, RowsRead
<1> QED BY <1>1, <1>2, <1>3, <1>4, <1>5, <1>6, <1>7, <1>8

\* A service that could not be made leaves the table as it was.
LEMMA StartFailsIInv ==
    ASSUME IInv, NEW p \in Proc, StartFails(p)
    PROVE  IInv'
<1> USE DEF StartFails, Taken, EndCall, Goto, IInv
<1>1. FTypeOK' BY DEF FTypeOK
<1>2. Places' BY DEF FTypeOK, Places
<1>3. Holder' BY DEF FTypeOK, Holder, Places
<1>4. Reachable' BY DEF FTypeOK, Reachable, Holder, Places
<1>5. StatusKept' BY DEF FTypeOK, StatusKept, Stopping, Holder, Places
<1>6. CacheFresh'
  <2>1. look' = [look EXCEPT ![p] = "none"] /\ value' = [value EXCEPT ![p] = None]
    OBVIOUS
  <2>2. \A q \in Proc : look'[q] \in {"store", "close"} =>
           look[q] = look'[q] /\ value[q] = value'[q]
    BY <2>1 DEF FTypeOK
  <2>3. Saving' <=> Saving BY DEF FTypeOK, Holder, Saving
  <2>4. UNCHANGED <<cached, row, due, overtaken>> OBVIOUS
  <2> QED BY <2>2, <2>3, <2>4 DEF CacheFresh
<1>7. ConfigFresh'
  BY DEF FTypeOK, ConfigFresh, CacheFresh, RowsRead, Saving, Pending, Holder, Places
<1>8. RowsRead' BY DEF FTypeOK, RowsRead
<1> QED BY <1>1, <1>2, <1>3, <1>4, <1>5, <1>6, <1>7, <1>8

\* The new service is in hand, and its settings are those just looked up.
LEMMA StartIInv ==
    ASSUME IInv, NEW p \in Proc, Start(p)
    PROVE  IInv'
<1> USE DEF Start, Taken, EndCall, Goto, Fresh, IInv
<1>1. FTypeOK'
  <2>1. PICK s \in Service : /\ cancel' = s
                             /\ state' = [state EXCEPT ![s] = "running"]
                             /\ config' = [config EXCEPT ![s] = value[p]]
    BY DEF Fresh
  <2>2. state' \in [Service -> ServiceState] BY <2>1 DEF FTypeOK
  <2>3. config' \in [Service -> Value \cup {None}] BY <2>1 DEF FTypeOK
  <2>4. pc' \in [Proc -> CallPc] /\ call' \in [Proc -> {"none", "set", "write", "stop", "get"}]
    BY DEF FTypeOK
  <2>5. look' \in [Proc -> LookPc] /\ value' \in [Proc -> Value \cup {None}]
    BY DEF FTypeOK
  <2>6. mine' \in [Proc -> Service \cup {None}] BY DEF FTypeOK
  <2> HIDE DEF CallPc, LookPc, ServiceState, Service, Value
  <2> QED BY <2>1, <2>2, <2>3, <2>4, <2>5, <2>6 DEF FTypeOK
<1>2. Places' BY DEF FTypeOK, Places
<1>3. Holder' BY DEF FTypeOK, Holder, Places
<1>4. Reachable' BY DEF FTypeOK, Reachable, Holder, Places
<1>5. StatusKept' BY DEF FTypeOK, StatusKept, Stopping, Holder, Places
<1>6. CacheFresh'
  <2>1. look' = [look EXCEPT ![p] = "none"] /\ value' = [value EXCEPT ![p] = None]
    OBVIOUS
  <2>2. \A q \in Proc : look'[q] \in {"store", "close"} =>
           look[q] = look'[q] /\ value[q] = value'[q]
    BY <2>1 DEF FTypeOK
  <2>3. Saving' <=> Saving BY DEF FTypeOK, Holder, Saving
  <2>4. UNCHANGED <<cached, row, due, overtaken>> OBVIOUS
  <2> QED BY <2>2, <2>3, <2>4 DEF CacheFresh
<1>7. ConfigFresh'
  BY DEF FTypeOK, ConfigFresh, CacheFresh, RowsRead, Saving, Pending, Holder, Places
<1>8. RowsRead' BY DEF FTypeOK, RowsRead
<1> QED BY <1>1, <1>2, <1>3, <1>4, <1>5, <1>6, <1>7, <1>8

-----------------------------------------------------------------------------
(* The steps of a look-up *)

LEMMA HitIInv ==
    ASSUME IInv, NEW p \in Proc, Hit(p), UNCHANGED managerVars
    PROVE  IInv'
<1> USE DEF Hit, managerVars, IInv
<1>1. FTypeOK' BY DEF FTypeOK
<1>2. Places' BY DEF FTypeOK, Places
<1>3. Holder' BY DEF FTypeOK, Holder, Places
<1>4. Reachable' BY DEF FTypeOK, Reachable, Holder, Places
<1>5. StatusKept' BY DEF FTypeOK, StatusKept, Stopping, Holder, Places
<1>6. CacheFresh' BY DEF FTypeOK, CacheFresh, RowsRead, Saving, Places
<1>7. ConfigFresh'
  BY DEF FTypeOK, ConfigFresh, CacheFresh, RowsRead, Saving, Pending, Holder, Places
<1>8. RowsRead' BY DEF FTypeOK, RowsRead
<1> QED BY <1>1, <1>2, <1>3, <1>4, <1>5, <1>6, <1>7, <1>8

\* A setting that is not in the cache is asked for.
LEMMA MissIInv ==
    ASSUME IInv, NEW p \in Proc, Miss(p), UNCHANGED managerVars
    PROVE  IInv'
<1> USE DEF Miss, managerVars, IInv
<1>1. FTypeOK' BY DEF FTypeOK
<1>2. Places' BY DEF FTypeOK, Places
<1>3. Holder' BY DEF FTypeOK, Holder, Places
<1>4. Reachable' BY DEF FTypeOK, Reachable, Holder, Places
<1>5. StatusKept' BY DEF FTypeOK, StatusKept, Stopping, Holder, Places
<1>6. CacheFresh' BY DEF FTypeOK, CacheFresh, RowsRead, Saving, Places
<1>7. ConfigFresh'
  BY DEF FTypeOK, ConfigFresh, CacheFresh, RowsRead, Saving, Pending, Holder, Places
<1>8. RowsRead' BY DEF FTypeOK, RowsRead
<1> QED BY <1>1, <1>2, <1>3, <1>4, <1>5, <1>6, <1>7, <1>8

\* The first to ask reads the row for all.
LEMMA FlyIInv ==
    ASSUME IInv, NEW p \in Proc, Fly(p), UNCHANGED managerVars
    PROVE  IInv'
<1> USE DEF Fly, Flight, Leads, managerVars, IInv
<1>1. FTypeOK' BY DEF FTypeOK
<1>2. Places' BY DEF FTypeOK, Places
<1>3. Holder' BY DEF FTypeOK, Holder, Places
<1>4. Reachable' BY DEF FTypeOK, Reachable, Holder, Places
<1>5. StatusKept' BY DEF FTypeOK, StatusKept, Stopping, Holder, Places
<1>6. CacheFresh' BY DEF FTypeOK, CacheFresh, RowsRead, Saving, Places
<1>7. ConfigFresh'
  BY DEF FTypeOK, ConfigFresh, CacheFresh, RowsRead, Saving, Pending, Holder, Places
<1>8. RowsRead' BY DEF FTypeOK, RowsRead
<1> QED BY <1>1, <1>2, <1>3, <1>4, <1>5, <1>6, <1>7, <1>8

\* The row is read as it is now.
LEMMA ReadRowIInv ==
    ASSUME IInv, NEW p \in Proc, ReadRow(p), UNCHANGED managerVars
    PROVE  IInv'
<1> USE DEF ReadRow, managerVars, IInv
<1>1. FTypeOK' BY DEF FTypeOK
<1>2. Places' BY DEF FTypeOK, Places
<1>3. Holder' BY DEF FTypeOK, Holder, Places
<1>4. Reachable' BY DEF FTypeOK, Reachable, Holder, Places
<1>5. StatusKept' BY DEF FTypeOK, StatusKept, Stopping, Holder, Places
<1>6. CacheFresh' BY DEF FTypeOK, CacheFresh, RowsRead, Saving, Places
<1>7. ConfigFresh'
  BY DEF FTypeOK, ConfigFresh, CacheFresh, RowsRead, Saving, Pending, Holder, Places
<1>8. RowsRead' BY DEF FTypeOK, RowsRead
<1> QED BY <1>1, <1>2, <1>3, <1>4, <1>5, <1>6, <1>7, <1>8

\* What was read is put into the cache.
LEMMA StoreItemIInv ==
    ASSUME IInv, NEW p \in Proc, StoreItem(p), UNCHANGED managerVars
    PROVE  IInv'
<1> USE DEF StoreItem, managerVars, IInv
<1>1. FTypeOK' BY DEF FTypeOK
<1>2. Places' BY DEF FTypeOK, Places
<1>3. Holder' BY DEF FTypeOK, Holder, Places
<1>4. Reachable' BY DEF FTypeOK, Reachable, Holder, Places
<1>5. StatusKept' BY DEF FTypeOK, StatusKept, Stopping, Holder, Places
<1>6. CacheFresh' BY DEF FTypeOK, CacheFresh, RowsRead, Saving, Places
<1>7. ConfigFresh'
  BY DEF FTypeOK, ConfigFresh, CacheFresh, RowsRead, Saving, Pending, Holder, Places
<1>8. RowsRead' BY DEF FTypeOK, RowsRead
<1> QED BY <1>1, <1>2, <1>3, <1>4, <1>5, <1>6, <1>7, <1>8

\* The value goes to those that wait for it.
LEMMA LandIInv ==
    ASSUME IInv, NEW p \in Proc, Land(p), UNCHANGED managerVars
    PROVE  IInv'
<1> USE DEF Land, Answered, managerVars, IInv
<1>1. FTypeOK' BY DEF FTypeOK
<1>2. Places' BY DEF FTypeOK, Places
<1>3. Holder' BY DEF FTypeOK, Holder, Places
<1>4. Reachable' BY DEF FTypeOK, Reachable, Holder, Places
<1>5. StatusKept' BY DEF FTypeOK, StatusKept, Stopping, Holder, Places
<1>6. CacheFresh' BY DEF FTypeOK, CacheFresh, RowsRead, Saving, Places
<1>7. ConfigFresh'
  BY DEF FTypeOK, ConfigFresh, CacheFresh, RowsRead, Saving, Pending, Holder, Places
<1>8. RowsRead' BY DEF FTypeOK, RowsRead
<1> QED BY <1>1, <1>2, <1>3, <1>4, <1>5, <1>6, <1>7, <1>8

-----------------------------------------------------------------------------
(* Services, and the cache *)

LEMMA BreaksIInv ==
    ASSUME IInv, NEW s \in Service, Breaks(s)
    PROVE  IInv'
<1> USE DEF Breaks, settingVars, IInv
<1>1. FTypeOK' BY DEF FTypeOK
<1>2. Places' BY DEF FTypeOK, Places
<1>3. Holder' BY DEF FTypeOK, Holder, Places
<1>4. Reachable' BY DEF FTypeOK, Reachable, Holder, Places
<1>5. StatusKept' BY DEF FTypeOK, StatusKept, Stopping, Holder, Places
<1>6. CacheFresh' BY DEF FTypeOK, CacheFresh, RowsRead, Saving, Places
<1>7. ConfigFresh'
  BY DEF FTypeOK, ConfigFresh, CacheFresh, RowsRead, Saving, Pending, Holder, Places
<1>8. RowsRead' BY DEF FTypeOK, RowsRead
<1> QED BY <1>1, <1>2, <1>3, <1>4, <1>5, <1>6, <1>7, <1>8

\* Whatever service the failure lets go of becomes an orphan.
LEMMA RecordFailureIInv ==
    ASSUME IInv, NEW s \in Service, RecordFailure(s)
    PROVE  IInv'
<1> USE DEF RecordFailure, AfterFailure, settingVars, IInv
<1>1. FTypeOK' BY DEF FTypeOK
<1>2. Places' BY DEF FTypeOK, Places
<1>3. Holder' BY DEF FTypeOK, Holder, Places
<1>4. Reachable' BY DEF FTypeOK, Reachable, Holder, Places
<1>5. StatusKept' BY DEF FTypeOK, StatusKept, Stopping, Holder, Places
<1>6. CacheFresh' BY DEF FTypeOK, CacheFresh, RowsRead, Saving, Places
<1>7. ConfigFresh'
  BY DEF FTypeOK, ConfigFresh, CacheFresh, RowsRead, Saving, Pending, Holder, Places
<1>8. RowsRead' BY DEF FTypeOK, RowsRead
<1> QED BY <1>1, <1>2, <1>3, <1>4, <1>5, <1>6, <1>7, <1>8

\* A service ends by itself.
LEMMA EndsIInv ==
    ASSUME IInv, NEW s \in Service, Ends(s)
    PROVE  IInv'
<1> USE DEF Ends, settingVars, IInv
<1>1. FTypeOK' BY DEF FTypeOK
<1>2. Places' BY DEF FTypeOK, Places
<1>3. Holder' BY DEF FTypeOK, Holder, Places
<1>4. Reachable' BY DEF FTypeOK, Reachable, Holder, Places
<1>5. StatusKept' BY DEF FTypeOK, StatusKept, Stopping, Holder, Places
<1>6. CacheFresh' BY DEF FTypeOK, CacheFresh, RowsRead, Saving, Places
<1>7. ConfigFresh'
  BY DEF FTypeOK, ConfigFresh, CacheFresh, RowsRead, Saving, Pending, Holder, Places
<1>8. RowsRead' BY DEF FTypeOK, RowsRead
<1> QED BY <1>1, <1>2, <1>3, <1>4, <1>5, <1>6, <1>7, <1>8

\* Whoever is woken finds nothing counted.
LEMMA LeavesIInv ==
    ASSUME IInv, NEW s \in Service, Leaves(s)
    PROVE  IInv'
<1> USE DEF Leaves, settingVars, IInv
<1>1. FTypeOK' BY DEF FTypeOK
<1>2. Places' BY DEF FTypeOK, Places
<1>3. Holder' BY DEF FTypeOK, Holder, Places
<1>4. Reachable' BY DEF FTypeOK, Reachable, Holder, Places
<1>5. StatusKept' BY DEF FTypeOK, StatusKept, Stopping, Holder, Places
<1>6. CacheFresh' BY DEF FTypeOK, CacheFresh, RowsRead, Saving, Places
<1>7. ConfigFresh'
  BY DEF FTypeOK, ConfigFresh, CacheFresh, RowsRead, Saving, Pending, Holder, Places
<1>8. RowsRead' BY DEF FTypeOK, RowsRead
<1> QED BY <1>1, <1>2, <1>3, <1>4, <1>5, <1>6, <1>7, <1>8

\* A cached setting gets too old.
LEMMA ExpireIInv ==
    ASSUME IInv, Expire
    PROVE  IInv'
<1> USE DEF Expire, ItemExpires, managerVars, IInv
<1>1. FTypeOK' BY DEF FTypeOK
<1>2. Places' BY DEF FTypeOK, Places
<1>3. Holder' BY DEF FTypeOK, Holder, Places
<1>4. Reachable' BY DEF FTypeOK, Reachable, Holder, Places
<1>5. StatusKept' BY DEF FTypeOK, StatusKept, Stopping, Holder, Places
<1>6. CacheFresh' BY DEF FTypeOK, CacheFresh, RowsRead, Saving, Places
<1>7. ConfigFresh'
  BY DEF FTypeOK, ConfigFresh, CacheFresh, RowsRead, Saving, Pending, Holder, Places
<1>8. RowsRead' BY DEF FTypeOK, RowsRead
<1> QED BY <1>1, <1>2, <1>3, <1>4, <1>5, <1>6, <1>7, <1>8

-----------------------------------------------------------------------------
\* Every step keeps the invariant.
LEMMA NextIInv == IInv /\ [Next]_vars => IInv'
<1> SUFFICES ASSUME IInv, [Next]_vars PROVE IInv' OBVIOUS
<1>1. ASSUME NEW p \in Proc, Request(p) PROVE IInv' BY <1>1, RequestIInv
<1>2. ASSUME NEW p \in Proc, Step(p) PROVE IInv'
  <2>1. CASE Save(p) \/ Update(p) \/ Looked(p)
    BY <2>1, SaveIInv, UpdateIInv, LookedIInv
  <2>2. CASE Look(p)
    BY <2>2, HitIInv, MissIInv, FlyIInv, ReadRowIInv, StoreItemIInv, LandIInv
       DEF Look, GetSettingItem
  <2>3. CASE Take(p) \/ Cancel(p) \/ Wait(p) \/ Wake(p) \/ Settle(p)
    BY <2>3, TakeIInv, CancelIInv, WaitIInv, WakeIInv, SettleIInv
  <2>4. CASE Skip(p) \/ BuildConfig(p) \/ StartFails(p) \/ Start(p)
    BY <2>4, SkipIInv, BuildConfigIInv, StartFailsIInv, StartIInv
  <2> QED BY <1>2, <2>1, <2>2, <2>3, <2>4 DEF Step
<1>3. ASSUME NEW s \in Service, Breaks(s) \/ Goroutine(s) PROVE IInv'
  BY <1>3, BreaksIInv, RecordFailureIInv, EndsIInv, LeavesIInv DEF Goroutine
<1>4. CASE Expire BY <1>4, ExpireIInv
<1>5. CASE UNCHANGED vars
  <2> USE <1>5 DEF vars, settingVars, managerVars, IInv
  <2>1. FTypeOK' BY DEF FTypeOK
  <2>2. Places' /\ Holder' BY DEF Places, Holder
  <2>3. Reachable' BY DEF Reachable
  <2>4. StatusKept' BY DEF StatusKept, Stopping
  <2>5. CacheFresh' BY DEF CacheFresh, Saving
  <2>6. ConfigFresh' BY DEF ConfigFresh, Pending
  <2>7. RowsRead' BY DEF RowsRead
  <2> QED BY <2>1, <2>2, <2>3, <2>4, <2>5, <2>6, <2>7
<1> QED BY <1>1, <1>2, <1>3, <1>4, <1>5 DEF Next

-----------------------------------------------------------------------------
\* The invariant holds in every state, with and without fairness.
THEOREM Invariant == Spec => []IInv
<1> QED BY InitIInv, NextIInv, PTL DEF Spec

\* Each variable of the manager and of the settings keeps its type.
THEOREM TypeCorrect == Spec => []FTypeOK
<1>1. IInv => FTypeOK BY DEF IInv
<1> QED BY <1>1, Invariant, PTL

\* The running service can be stopped, the status tells the truth about it and its
\* settings are at least as new as those SetFRP saved last: frp.go loses hold of it in
\* no other way than the three that InHand names.
THEOREM ServiceInHand == Spec => []InHand
<1>1. IInv => InHand
  <2> SUFFICES ASSUME IInv PROVE InHand OBVIOUS
  <2>1. Quiet => ~Pending /\ \A p \in Proc : ~Stopping(p)
    BY DEF IInv, FTypeOK, Places, Quiet, Pending, Stopping
  <2>2. StatusTrue BY <2>1 DEF IInv, StatusKept, StatusTrue, FTypeOK
  <2>3. SettingsInUse BY <2>1 DEF IInv, FTypeOK, RowsRead, ConfigFresh, SettingsInUse
  <2> QED BY <2>2, <2>3 DEF IInv, InHand
<1> QED BY <1>1, Invariant, PTL

=============================================================================
