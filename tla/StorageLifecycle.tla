-------------------------- MODULE StorageLifecycle --------------------------
(***************************************************************************)
(* The life of storages in internal/op/storage.go: the rows of the         *)
(* database, the driver objects in memory, and storagesMap, which mounts   *)
(* drivers at paths.  Administrators create, enable, disable, update and   *)
(* delete storages concurrently and no lock covers an operation, so each   *)
(* statement, driver call and access to the map is a step.  A loader       *)
(* mounts the enabled storages after a restart, or again on request.       *)
(*                                                                         *)
(* A driver object carries a copy of its row, which the driver saves on    *)
(* its own whenever it likes (a refreshed token).  db.Save inserts the row *)
(* if it is gone.  The column mount_path is unique.  A process runs one    *)
(* operation; its frame says which, how far it is, and what it has read.   *)
(* Of a row the model keeps the mount path, the disabled flag and the      *)
(* status; the database itself does not fail.                              *)
(***************************************************************************)
EXTENDS Integers, FiniteSets

CONSTANTS
    Proc,        \* the goroutines that serve administrators
    Loader,      \* the goroutine that loads storages
    Path,        \* mount paths
    Driver,      \* driver objects
    MaxId,       \* bound on the storages created
    MaxOps,      \* bound on the operations
    MaxSaves,    \* bound on the saves of drivers
    MaxRestarts, \* bound on the restarts
    NoRow, NoDriver, NoFrame, NoId

Process == Proc \cup {Loader}
Id == 1 .. MaxId
Status == {"new", "work", "failed", "disabled"}

RowRecord == [path : Path, disabled : BOOLEAN, status : Status]

FrameRecord ==
    [fn : {"create", "enable", "disable", "update", "delete", "load"},
     at : {"insert", "read", "write", "lookup", "unmount", "drop", "erase", "set",
           "init", "mount", "save", "recover", "recovered"},
     id : Id \cup {NoId}, old : RowRecord \cup {NoRow}, new : RowRecord \cup {NoRow},
     driver : Driver \cup {NoDriver}]

ASSUME BoundAssumption ==
    /\ IsFiniteSet(Proc) /\ Loader \notin Proc
    /\ {MaxId, MaxOps, MaxSaves, MaxRestarts} \subseteq Nat

ASSUME SentinelAssumption ==
    /\ NoRow \notin RowRecord
    /\ NoDriver \notin Driver
    /\ NoFrame \notin FrameRecord
    /\ NoId \notin Nat

VARIABLES
    rows,     \* the table of storages
    issued,   \* the last id given out
    drivers,  \* the driver objects
    mounted,  \* storagesMap
    frame,    \* the operation each process is at
    todo,     \* the rows the loader has yet to load
    reload,   \* the loader drops drivers before it loads (LoadAllStorages)
    bound,    \* what is left of the bounds
    spoiled   \* history: storages whose memory and row may differ (see below)

memory == <<drivers, mounted>>
vars == <<rows, issued, drivers, mounted, frame, todo, reload, bound, spoiled>>

Row(path, disabled, status) ==
    [path |-> path, disabled |-> disabled, status |-> status]

RowOf(d) == Row(drivers[d].path, drivers[d].disabled, drivers[d].status)

NewDriver == [id |-> NoId, path |-> NoRow, disabled |-> FALSE, status |-> "new",
              live |-> FALSE]

\* A driver object nobody has any more
Unreferenced ==
    {d \in Driver : /\ ~drivers[d].live
                    /\ \A path \in Path : mounted[path] # d
                    /\ \A p \in Process :
                          frame[p] # NoFrame => frame[p].driver # d}

Frame(fn, at, id, new) ==
    [fn |-> fn, at |-> at, id |-> id, old |-> NoRow, new |-> new,
     driver |-> NoDriver]

At(p, at) == frame[p] # NoFrame /\ frame[p].at = at

Goto(p, f) == frame' = [frame EXCEPT ![p] = f]
Return(p) == Goto(p, NoFrame)

\* LoadStorage takes a new driver object and goes on to initStorage.
Load(p, f) ==
    \E d \in Unreferenced :
        /\ d = CHOOSE e \in Unreferenced : TRUE
        /\ Goto(p, [f EXCEPT !.driver = d, !.at = "set"])

-----------------------------------------------------------------------------
(* The database                                                             *)

Unique(i, path) == \A j \in Id \ {i} : rows[j] # NoRow => rows[j].path # path

Saved(i, row) == rows' = [rows EXCEPT ![i] = row]

\* saveDriverStorage; MustSaveDriverStorage logs the error and goes on.
SaveDriver(d) ==
    IF Unique(drivers[d].id, drivers[d].path)
    THEN Saved(drivers[d].id, RowOf(d)) ELSE UNCHANGED rows

-----------------------------------------------------------------------------
(* The steps of the operations                                              *)

\* CreateStorage, which does not look whether the new storage is disabled.
Insert(p) ==
    LET f == frame[p] IN
    /\ At(p, "insert")
    /\ IF Unique(NoId, f.new.path)
       THEN /\ issued' = issued + 1
            /\ Saved(issued + 1, f.new)
            /\ Load(p, [f EXCEPT !.id = issued + 1])
       ELSE Return(p) /\ UNCHANGED <<rows, issued>>
    /\ UNCHANGED memory

\* The row an operation starts from, and its early returns.  Roles and users
\* that refer to the path keep a storage from being deleted.  The row an update
\* brings has the status the administrator saw, taken to be the one in the table.
Read(p) ==
    LET f   == frame[p]
        row == rows[f.id]
        Go(at, new) == Goto(p, [f EXCEPT !.old = row, !.new = new, !.at = at])
    IN  /\ At(p, "read")
        /\ \/ row = NoRow /\ Return(p)
           \/ /\ row # NoRow /\ f.fn = "enable"
              /\ IF row.disabled THEN Go("write", [row EXCEPT !.disabled = FALSE])
                                 ELSE Return(p)
           \/ /\ row # NoRow /\ f.fn = "disable"
              /\ IF row.disabled THEN Return(p)
                 ELSE Go("lookup", [row EXCEPT !.disabled = TRUE, !.status = "disabled"])
           \/ /\ row # NoRow /\ f.fn = "update"
              /\ Go("write", [f.new EXCEPT !.status = row.status])
           \/ /\ row # NoRow /\ f.fn = "delete"
              /\ Return(p) \/ Go(IF row.disabled THEN "erase" ELSE "lookup", row)
        /\ UNCHANGED <<rows, issued, memory>>

\* db.UpdateStorage
Write(p) ==
    LET f == frame[p] IN
    /\ At(p, "write")
    /\ IF ~Unique(f.id, f.new.path) THEN Return(p) /\ UNCHANGED rows
       ELSE /\ Saved(f.id, f.new)
            /\ CASE f.fn = "enable"  -> Load(p, f)
                 [] f.fn = "disable" -> Goto(p, [f EXCEPT !.at = "unmount"])
                 [] f.fn = "update"  -> Goto(p, [f EXCEPT !.at = "lookup"])
    /\ UNCHANGED <<issued, memory>>

\* Mutant: the driver at the old path stays mounted there when the path changes.
Lookup_KeepsOld(p) ==
    LET f == frame[p]
        d == mounted[f.old.path]
    IN  /\ At(p, "lookup")
        /\ IF d = NoDriver \/ (f.fn = "update" /\ f.new.disabled)
           THEN Return(p)
           ELSE Goto(p, [f EXCEPT !.driver = d, !.at = "drop"])
        /\ UNCHANGED <<rows, issued, memory>>

\* GetStorageByMountPath of the path read before.  An update that disables the
\* storage ends here; one that moves it takes it from the old path first, and
\* looks at the result of the look-up only after that.
Lookup(p) ==
    LET f == frame[p]
        d == mounted[f.old.path]
    IN  /\ At(p, "lookup")
        /\ IF f.fn = "update" /\ ~f.new.disabled /\ f.new.path # f.old.path
           THEN Goto(p, [f EXCEPT !.driver = d, !.at = "unmount"])
           ELSE IF d = NoDriver \/ (f.fn = "update" /\ f.new.disabled)
           THEN Return(p)
           ELSE Goto(p, [f EXCEPT !.driver = d, !.at = "drop"])
        /\ UNCHANGED <<rows, issued, memory>>

\* Mutant: an update that moved the storage drops a driver it did not find.
Unmount_Unchecked(p) ==
    LET f == frame[p] IN
    /\ At(p, "unmount")
    /\ mounted' = [mounted EXCEPT ![f.old.path] = NoDriver]
    /\ \/ f.fn \in {"disable", "update"} /\ Return(p)
       \/ f.fn = "delete" /\ Goto(p, [f EXCEPT !.at = "erase"])
       \/ f.fn = "update" /\ Goto(p, [f EXCEPT !.at = "drop"])
    /\ UNCHANGED <<rows, issued, drivers>>

\* The update of the roles' paths, between here and the drop, may fail.
Unmount(p) ==
    LET f == frame[p] IN
    /\ At(p, "unmount")
    /\ mounted' = [mounted EXCEPT ![f.old.path] = NoDriver]
    /\ \/ f.fn \in {"disable", "update"} /\ Return(p)
       \/ f.fn = "delete" /\ Goto(p, [f EXCEPT !.at = "erase"])
       \/ f.fn = "update" /\ f.driver # NoDriver /\ Goto(p, [f EXCEPT !.at = "drop"])
    /\ UNCHANGED <<rows, issued, drivers>>

\* Mutant: a failed drop is not noticed.
Drop_Ignored(p) ==
    LET f == frame[p] IN
    /\ At(p, "drop")
    /\ \E ok \in BOOLEAN :
          drivers' = IF ok THEN [drivers EXCEPT ![f.driver].live = FALSE] ELSE drivers
    /\ CASE f.fn = "disable" -> Goto(p, [f EXCEPT !.at = "write"])
         [] f.fn = "delete"  -> Goto(p, [f EXCEPT !.at = "unmount"])
         [] f.fn = "update"  -> Goto(p, [f EXCEPT !.at = "set"])
         [] f.fn = "load"    -> Load(p, f)
    /\ UNCHANGED <<rows, issued, mounted>>

\* storageDriver.Drop, which may fail.
Drop(p) ==
    LET f == frame[p] IN
    /\ At(p, "drop")
    /\ \/ /\ drivers' = [drivers EXCEPT ![f.driver].live = FALSE]
          /\ CASE f.fn = "disable" -> Goto(p, [f EXCEPT !.at = "write"])
               [] f.fn = "delete"  -> Goto(p, [f EXCEPT !.at = "unmount"])
               [] f.fn = "update"  -> Goto(p, [f EXCEPT !.at = "set"])
               [] f.fn = "load"    -> Load(p, f)
       \/ Return(p) /\ UNCHANGED drivers
    /\ UNCHANGED <<rows, issued, mounted>>

Erase(p) ==
    /\ At(p, "erase")
    /\ Saved(frame[p].id, NoRow)
    /\ Return(p)
    /\ UNCHANGED <<issued, memory>>

\* initStorage: SetStorage; then Init, which succeeds, fails or panics; then the
\* driver is mounted, at the path it carries by then, gets its status and is
\* saved.  After a panic it is saved first and mounted last.
SetStorage(p) ==
    LET f == frame[p] IN
    /\ At(p, "set")
    /\ drivers' = [drivers EXCEPT ![f.driver] =
                     [@ EXCEPT !.id = f.id, !.path = f.new.path,
                               !.disabled = f.new.disabled, !.status = f.new.status]]
    /\ Goto(p, [f EXCEPT !.at = "init"])
    /\ UNCHANGED <<rows, issued, mounted>>

InitDriver(p) ==
    LET f == frame[p] IN
    /\ At(p, "init")
    /\ \/ /\ drivers' = [drivers EXCEPT ![f.driver].live = TRUE]
          /\ Goto(p, [f EXCEPT !.at = "mount", !.new.status = "work"])
       \/ /\ Goto(p, [f EXCEPT !.at = "mount", !.new.status = "failed"])
          /\ UNCHANGED drivers
       \/ /\ drivers' = [drivers EXCEPT ![f.driver].status = "failed"]
          /\ Goto(p, [f EXCEPT !.at = "recover"])
    /\ UNCHANGED <<rows, issued, mounted>>

\* Mutant: a driver that failed to start is not mounted.
Mount_Working(p) ==
    LET f == frame[p] IN
    /\ At(p, "mount")
    /\ mounted' = IF f.new.status # "work" THEN mounted
                  ELSE [mounted EXCEPT ![drivers[f.driver].path] = f.driver]
    /\ drivers' = [drivers EXCEPT ![f.driver].status = f.new.status]
    /\ Goto(p, [f EXCEPT !.at = "save"])
    /\ UNCHANGED <<rows, issued>>

Mount(p) ==
    LET f == frame[p] IN
    /\ At(p, "mount")
    /\ mounted' = [mounted EXCEPT ![drivers[f.driver].path] = f.driver]
    /\ drivers' = [drivers EXCEPT ![f.driver].status = f.new.status]
    /\ Goto(p, [f EXCEPT !.at = "save"])
    /\ UNCHANGED <<rows, issued>>

Save(p) ==
    /\ At(p, "save")
    /\ SaveDriver(frame[p].driver)
    /\ Return(p)
    /\ UNCHANGED <<issued, memory>>

RecoverSave(p) ==
    /\ At(p, "recover")
    /\ SaveDriver(frame[p].driver)
    /\ Goto(p, [frame[p] EXCEPT !.at = "recovered"])
    /\ UNCHANGED <<issued, memory>>

RecoverMount(p) ==
    /\ At(p, "recovered")
    /\ mounted' = [mounted EXCEPT ![drivers[frame[p].driver].path] = frame[p].driver]
    /\ Return(p)
    /\ UNCHANGED <<rows, issued, drivers>>

-----------------------------------------------------------------------------
(* History.  An operation that has read its row, or the loader with its rows, *)
(* is at work on storages and on mount paths: those of its rows, and the one  *)
(* that the driver it starts carries, which another operation may have set.   *)
(* A storage is spoiled, until the next restart, when two of them are at work *)
(* on it or on one of its paths, and by the places where the code gives up    *)
(* halfway or takes what it finds:                                            *)
(*   - an update that writes the row and returns before initStorage, because  *)
(*     the new row is disabled, nothing is mounted, or Drop or the roles fail;*)
(*   - a creation of a disabled storage, whose driver is started and mounted  *)
(*     all the same;                                                          *)
(*   - an operation that finds another storage's driver at its old path, left *)
(*     there by such an update or creation, and goes on with that one;        *)
(*   - a driver that saves its row while an operation is at work on it, or    *)
(*     after it was unmounted.                                                *)

\* initStorage has given the driver its row.
Started == {"init", "mount", "save", "recover", "recovered"}

\* An operation that has read its row
Busy(p) == frame[p] # NoFrame /\ ~At(p, "insert") /\ ~At(p, "read")

AtWork(p) ==
    (IF p = Loader THEN {i \in Id : todo[i] # NoRow} ELSE {})
    \cup (IF Busy(p) THEN {frame[p].id} ELSE {})

PathsOf(p) ==
    LET f == frame[p] IN
    (IF p = Loader THEN {todo[i].path : i \in {j \in Id : todo[j] # NoRow}} ELSE {})
    \cup (IF ~Busy(p) THEN {}
          ELSE {f.new.path} \cup (IF f.old = NoRow THEN {} ELSE {f.old.path})
               \cup (IF f.at \in Started THEN {drivers[f.driver].path} ELSE {}))

Overlapping ==
    {i \in Id : \E p, q \in Process :
                   /\ p # q
                   /\ i \in AtWork(p)
                   /\ \/ AtWork(p) \cap AtWork(q) # {}
                      \/ PathsOf(p) \cap PathsOf(q) # {}}

GivenUp(p) ==
    LET f == frame[p] IN
    IF /\ f.fn = "update" /\ f.at \in {"lookup", "unmount", "drop"}
       /\ frame'[p] = NoFrame
       /\ ~(f.new.disabled /\ mounted[f.old.path] = NoDriver)
    THEN {f.id} ELSE {}

\* The driver is loaded for the disabled row that was just inserted.
MountsDisabled(p) ==
    IF issued' # issued /\ frame[p].new.disabled THEN {issued'} ELSE {}

Foreign(p) ==
    IF At(p, "lookup")
    THEN LET d == mounted[frame[p].old.path]
         IN  IF d # NoDriver /\ drivers[d].id # frame[p].id THEN {frame[p].id} ELSE {}
    ELSE {}

Observe(more) == spoiled' = spoiled \cup Overlapping' \cup more

-----------------------------------------------------------------------------
Init ==
    /\ rows = [i \in Id |-> NoRow]
    /\ issued = 0
    /\ drivers = [d \in Driver |-> NewDriver]
    /\ mounted = [path \in Path |-> NoDriver]
    /\ frame = [p \in Process |-> NoFrame]
    /\ todo = [i \in Id |-> NoRow]
    /\ reload = FALSE
    /\ bound = [ops |-> MaxOps, saves |-> MaxSaves, restarts |-> MaxRestarts]
    /\ spoiled = {}

\* A request comes in.  The bound on ids stops no request midway.
Begin(p, f) ==
    /\ p \in Proc /\ frame[p] = NoFrame
    /\ bound.ops > 0
    /\ bound' = [bound EXCEPT !.ops = @ - 1]
    /\ Goto(p, f)
    /\ UNCHANGED <<rows, issued, memory, todo, reload, spoiled>>

CreateStorage(p, path, disabled) ==
    /\ issued + Cardinality({q \in Proc : At(q, "insert")}) < MaxId
    /\ Begin(p, Frame("create", "insert", NoId, Row(path, disabled, "new")))

EnableStorage(p, i)  == Begin(p, Frame("enable", "read", i, NoRow))
DisableStorage(p, i) == Begin(p, Frame("disable", "read", i, NoRow))
DeleteStorage(p, i)  == Begin(p, Frame("delete", "read", i, NoRow))
UpdateStorage(p, i, path, disabled) ==
    Begin(p, Frame("update", "read", i, Row(path, disabled, "new")))

Enabled == [i \in Id |-> IF rows[i] = NoRow \/ rows[i].disabled THEN NoRow ELSE rows[i]]

\* LoadAllStorages reads the enabled rows and leaves the rest to a goroutine.
LoadAllStorages ==
    /\ bound.ops > 0
    /\ frame[Loader] = NoFrame /\ \A i \in Id : todo[i] = NoRow
    /\ bound' = [bound EXCEPT !.ops = @ - 1]
    /\ todo' = Enabled /\ reload' = TRUE
    /\ UNCHANGED <<rows, issued, memory, frame>>
    /\ Observe({})

\* The process ends at any time and starts again (LoadStorages).
Restart ==
    /\ bound.restarts > 0
    /\ bound' = [bound EXCEPT !.restarts = @ - 1]
    /\ drivers' = [d \in Driver |-> NewDriver]
    /\ mounted' = [path \in Path |-> NoDriver]
    /\ frame' = [p \in Process |-> NoFrame]
    /\ todo' = Enabled /\ reload' = FALSE
    /\ spoiled' = {}
    /\ UNCHANGED <<rows, issued>>

\* The loader turns to its next row.
NextLoad ==
    /\ frame[Loader] = NoFrame
    /\ \E i \in Id :
          LET f == [Frame("load", "lookup", i, todo[i]) EXCEPT !.old = todo[i]] IN
          /\ todo[i] # NoRow
          /\ todo' = [todo EXCEPT ![i] = NoRow]
          /\ IF reload THEN Goto(Loader, f) ELSE Load(Loader, f)
    /\ UNCHANGED <<rows, issued, memory, reload, bound>>
    /\ Observe({})

\* A driver saves its row: mounted, or still in the hands of a request.
DriverSaves(d) ==
    /\ bound.saves > 0
    /\ drivers[d].id # NoId
    /\ bound' = [bound EXCEPT !.saves = @ - 1]
    /\ SaveDriver(d)
    /\ UNCHANGED <<issued, memory, frame, todo, reload>>
    /\ Observe(IF \/ \A path \in Path : mounted[path] # d
                  \/ \E p \in Process : drivers[d].id \in AtWork(p)
               THEN {drivers[d].id} ELSE {})

Step(p) ==
    /\ \/ Insert(p) \/ Read(p) \/ Write(p) \/ Lookup(p) \/ Unmount(p) \/ Drop(p)
       \/ Erase(p) \/ SetStorage(p) \/ InitDriver(p) \/ Mount(p) \/ Save(p)
       \/ RecoverSave(p) \/ RecoverMount(p)
    /\ UNCHANGED <<todo, reload, bound>>
    /\ Observe(GivenUp(p) \cup MountsDisabled(p) \cup Foreign(p))

Next ==
    \/ \E p \in Proc :
          \/ \E path \in Path, disabled \in BOOLEAN : CreateStorage(p, path, disabled)
          \/ \E i \in 1 .. issued :
                \/ EnableStorage(p, i) \/ DisableStorage(p, i) \/ DeleteStorage(p, i)
                \/ \E path \in Path, disabled \in BOOLEAN :
                      UpdateStorage(p, i, path, disabled)
    \/ LoadAllStorages
    \/ Restart
    \/ NextLoad
    \/ \E d \in Driver : DriverSaves(d)
    \/ \E p \in Process : Step(p)

Spec == Init /\ [][Next]_vars

-----------------------------------------------------------------------------
(* Properties                                                               *)

DriverRecord == [id : Id \cup {NoId}, path : Path \cup {NoRow}, disabled : BOOLEAN,
                 status : Status, live : BOOLEAN]

\* Rows, driver objects, the map and the frames have their types; an operation
\* that drops, starts, mounts or saves a driver has one.
TypeOK ==
    /\ rows \in [Id -> RowRecord \cup {NoRow}]
    /\ todo \in [Id -> RowRecord \cup {NoRow}]
    /\ issued \in 0 .. MaxId
    /\ drivers \in [Driver -> DriverRecord]
    /\ mounted \in [Path -> Driver \cup {NoDriver}]
    /\ \A p \in Process : frame[p] # NoFrame =>
          frame[p].driver \in
             IF frame[p].at \in {"insert", "read", "write", "lookup", "unmount", "erase"}
             THEN Driver \cup {NoDriver} ELSE Driver
    /\ spoiled \subseteq Id

\* Storages that nothing is at work on and that nothing has spoiled
Settled == Id \ (spoiled \cup UNION {AtWork(p) : p \in Process})

\* storagesMap mirrors the table: the driver of a settled storage is mounted, at
\* the storage's path and nowhere else, exactly when the storage exists and is
\* enabled, and it carries the storage's row.  Operations on other storages,
\* failures of drivers, saves and restarts in between make no difference.
Mirrored ==
    \A i \in Settled :
        /\ rows[i] # NoRow /\ ~rows[i].disabled =>
              /\ mounted[rows[i].path] # NoDriver
              /\ drivers[mounted[rows[i].path]].id = i
              /\ RowOf(mounted[rows[i].path]) = rows[i]
        /\ \A path \in Path :
              mounted[path] # NoDriver /\ drivers[mounted[path]].id = i =>
                 /\ rows[i] # NoRow /\ ~rows[i].disabled
                 /\ rows[i].path = path

\* No driver of a settled storage is left running when it is no longer mounted,
\* and none is mounted as working when it has been dropped.
DriversAccounted ==
    \A i \in Settled : \A d \in Driver : drivers[d].id = i =>
        (drivers[d].live <=> /\ \E path \in Path : mounted[path] = d
                             /\ drivers[d].status = "work")

\* "All storage store in op.storagesMap" (internal/db/storage.go:11): when no
\* operation is under way every enabled storage is mounted.
AllMounted ==
    (\A p \in Process : AtWork(p) = {}) =>
        \A i \in Id : rows[i] # NoRow /\ ~rows[i].disabled =>
            \E path \in Path : /\ mounted[path] # NoDriver
                               /\ drivers[mounted[path]].id = i

=============================================================================
