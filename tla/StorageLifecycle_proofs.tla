----------------------- MODULE StorageLifecycle_proofs -----------------------
(***************************************************************************)
(* Proofs about the life of storages, for any number of administrators,    *)
(* storages, mount paths, drivers, operations, saves and restarts.         *)
(*                                                                         *)
(* What is claimed of a storage is claimed while it is not spoiled, and    *)
(* then at most one process is at work on it.  Stage says what the table,  *)
(* the drivers and storagesMap look like for the storage of a process at   *)
(* each of its steps; Clean what they look like when nobody is at work.    *)
(* The rest says why no other process gets in between: a driver in the     *)
(* hands of a process is no other's (Holds, Sole), and the paths of a      *)
(* process are of its own storage only (Apart).                            *)
(***************************************************************************)
EXTENDS StorageLifecycle, FiniteSetTheorems, TLAPS

USE SentinelAssumption DEF Process

-----------------------------------------------------------------------------
(* The inductive invariant *)

Typed ==
    /\ rows \in [Id -> RowRecord \cup {NoRow}]
    /\ todo \in [Id -> RowRecord \cup {NoRow}]
    /\ issued \in 0 .. MaxId
    /\ drivers \in [Driver -> DriverRecord]
    /\ mounted \in [Path -> Driver \cup {NoDriver}]
    /\ frame \in [Process -> FrameRecord \cup {NoFrame}]
    /\ reload \in BOOLEAN
    /\ spoiled \subseteq Id

\* The steps of each operation
InPlace(f) ==
    /\ f.fn = "create"  => f.at \in {"insert", "set"} \cup Started
    /\ f.fn = "enable"  => f.at \in {"read", "write", "set"} \cup Started
    /\ f.fn = "disable" => f.at \in {"read", "lookup", "drop", "write", "unmount"}
    /\ f.fn = "update"  => f.at \in {"read", "write", "lookup", "unmount", "drop", "set"} \cup Started
    /\ f.fn = "delete"  => f.at \in {"read", "lookup", "drop", "unmount", "erase"}
    /\ f.fn = "load"    => f.at \in {"lookup", "drop", "set"} \cup Started

\* An operation at work has the row it read and the one it writes.
Shape(f) ==
    /\ f.new \in RowRecord
    /\ IF f.fn = "create" THEN f.old = NoRow ELSE f.old \in RowRecord
    /\ f.fn \in {"enable", "load"} => ~f.new.disabled
    /\ f.fn = "update" /\ f.at \notin {"write", "lookup"} => ~f.new.disabled
    /\ f.fn = "update" /\ f.at = "unmount" => f.new.path # f.old.path
    /\ f.fn \in {"enable", "disable", "delete", "load"} => f.new.path = f.old.path
    /\ f.fn = "enable" => f.old.disabled
    /\ f.fn \in {"disable", "load"} \/ (f.fn = "delete" /\ f.at # "erase") => ~f.old.disabled
    /\ f.fn = "disable" => f.new.disabled
    /\ f.at = "lookup" \/ (f.at = "write" /\ f.fn # "disable") => f.driver = NoDriver
    /\ f.at \in Started \cup {"set", "drop"} => f.driver \in Driver

FrameOk(p) ==
    LET f == frame[p] IN
    /\ f.fn = "load" <=> p = Loader
    /\ InPlace(f)
    /\ IF f.at = "insert" THEN f.id = NoId ELSE f.id \in 1 .. issued
    /\ f.at \in {"insert", "read"} => f.driver = NoDriver
    /\ f.at = "insert" \/ (f.at = "read" /\ f.fn = "update") => f.new \in RowRecord
    /\ f.fn = "create" => f.old = NoRow
    /\ f.at \notin {"insert", "read"} => Shape(f)

FramesOk == \A p \in Process : frame[p] # NoFrame => FrameOk(p)

Inserting == {q \in Proc : At(q, "insert")}

\* Mount paths are unique, and nothing has an id that was not given out.
RowsNumbered ==
    /\ \A i, j \in Id : i # j /\ rows[i] # NoRow /\ rows[j] # NoRow =>
          rows[i].path # rows[j].path
    /\ \A i \in Id : rows[i] # NoRow => i <= issued

TodoNumbered == \A i \in Id : todo[i] # NoRow => i <= issued /\ ~todo[i].disabled

DriversNumbered ==
    \A d \in Driver : drivers[d].id # NoId =>
        drivers[d].id \in 1 .. issued /\ drivers[d].path \in Path

Numbered ==
    /\ RowsNumbered
    /\ TodoNumbered
    /\ DriversNumbered
    /\ issued + Cardinality(Inserting) <= MaxId

\* The rows of the loader are of different storages and paths.
Listed ==
    /\ \A i, j \in Id : i # j /\ todo[i] # NoRow /\ todo[j] # NoRow =>
          todo[i].path # todo[j].path
    /\ frame[Loader] # NoFrame => \A i \in Id : todo[i] # NoRow =>
          i # frame[Loader].id /\ todo[i].path # frame[Loader].new.path

\* The paths of a process that the table has given to its storage
Own(p) ==
    LET f == frame[p] IN
    (IF f.old # NoRow THEN {f.old.path} ELSE {})
    \cup (IF f.fn = "update" /\ f.at = "write" THEN {} ELSE {f.new.path})
    \cup (IF f.at \in Started THEN {drivers[f.driver].path} ELSE {})

\* No storage has a path of a process at work on another one.
Apart ==
    \A i \in Id \ spoiled : rows[i] # NoRow =>
        /\ \A p \in Process : Busy(p) /\ frame[p].id # i => rows[i].path \notin Own(p)
        /\ \A j \in Id : j # i /\ todo[j] # NoRow => rows[i].path # todo[j].path

Held(p) == IF frame[p] = NoFrame THEN NoDriver ELSE frame[p].driver

Unmounted(e) == \A path \in Path : mounted[path] # e

\* The driver of a storage is in no other storage's hands, unless it is garbage
\* that was just taken to be used again.
Holds ==
    \A p \in Process : \A e \in Driver :
        Held(p) = e /\ drivers[e].id \notin spoiled \cup {NoId} =>
            \/ frame[p].id = drivers[e].id
            \/ frame[p].at = "set" /\ ~drivers[e].live /\ Unmounted(e)

\* Nobody else has a driver that is in hand for a storage.
Sole ==
    \A p, q \in Process :
        p # q /\ Held(p) # NoDriver /\ Held(p) = Held(q) => frame[p].id \in spoiled

MountedIn(e, paths) == \A path \in Path : mounted[path] = e => path \in paths

\* The drivers of storage i, or all but one, do not run.
DownBut(i, e, paths) ==
    \A c \in Driver : c # e /\ drivers[c].id = i =>
        ~drivers[c].live /\ MountedIn(c, paths)

Down(i, paths) == DownBut(i, NoDriver, paths)

\* Driver e, mounted on these paths only, is all that is left of storage i.
Alone(i, e, paths) ==
    /\ e \in Driver
    /\ drivers[e].id = i
    /\ MountedIn(e, paths)
    /\ DownBut(i, e, {})

Serves(i, e) ==
    /\ Alone(i, e, {rows[i].path})
    /\ RowOf(e) = rows[i]
    /\ drivers[e].live <=> drivers[e].status = "work"

Wanted(i) == rows[i] # NoRow /\ ~rows[i].disabled

\* Memory has what the table has of storage i.
Clean(i) ==
    /\ ~Wanted(i) => Down(i, {})
    /\ Wanted(i) => Serves(i, mounted[rows[i].path])

\* initStorage
Starting(p) ==
    LET f == frame[p]
        i == f.id
        e == f.driver
    IN  /\ Wanted(i) /\ rows[i].path = f.new.path /\ ~f.new.disabled
        /\ f.at = "set" => ~drivers[e].live /\ MountedIn(e, {f.new.path})
        /\ f.at \in Started => drivers[e].path = f.new.path /\ ~drivers[e].disabled
        /\ f.at \in {"set", "init", "recover", "recovered"} => Down(i, {f.new.path})
        /\ f.at = "mount" => /\ DownBut(i, e, {f.new.path})
                             /\ MountedIn(e, {f.new.path})
                             /\ drivers[e].live <=> f.new.status = "work"
        /\ f.at = "save" => /\ Alone(i, e, {f.new.path})
                            /\ mounted[f.new.path] = e
                            /\ drivers[e].live <=> drivers[e].status = "work"
        /\ f.at \in {"recover", "recovered"} => drivers[e].status = "failed"
        /\ f.at = "recovered" => rows[i] = RowOf(e)

\* An update between its row and initStorage
Moving(p) ==
    LET f == frame[p]
        i == f.id
        e == f.driver
    IN  /\ rows[i] = f.new
        /\ f.at = "lookup" =>
              IF f.old.disabled THEN Down(i, {})
              ELSE Alone(i, mounted[f.old.path], {f.old.path})
        /\ f.at = "unmount" =>
              IF e = NoDriver THEN Down(i, {}) ELSE Alone(i, e, {f.old.path})
        /\ f.at = "drop" => Alone(i, e, {f.new.path})

\* What is read is what is there, and memory has it.
Before(p) == rows[frame[p].id] = frame[p].old /\ Clean(frame[p].id)

\* What the storage of a process looks like.
Stage(p) ==
    LET f == frame[p] IN
    /\ f.driver # NoDriver /\ f.at # "set" => drivers[f.driver].id = f.id
    /\ f.at \in Started \cup {"set"} => Starting(p)
    /\ f.fn = "update" /\ f.at \in {"lookup", "unmount", "drop"} => Moving(p)
    /\ f.fn # "update" /\ f.at \in {"lookup", "drop"} => Before(p)
    /\ f.fn # "update" /\ f.at = "drop" => mounted[f.old.path] = f.driver
    /\ f.fn # "disable" /\ f.at = "write" => Before(p)
    /\ f.fn = "disable" /\ f.at = "write" => rows[f.id] = f.old /\ Down(f.id, {f.old.path})
    /\ f.fn = "disable" /\ f.at = "unmount" => rows[f.id] = f.new
    /\ f.fn # "update" /\ f.at = "unmount" => Down(f.id, {f.old.path})
    /\ f.at = "erase" => Down(f.id, {})

Stages ==
    \A i \in Id \ spoiled :
        /\ (\A p \in Process : i \notin AtWork(p)) => Clean(i)
        /\ todo[i] # NoRow => /\ rows[i] = todo[i]
                              /\ IF reload THEN Clean(i) ELSE Down(i, {})
        /\ \A p \in Process : Busy(p) /\ frame[p].id = i => Stage(p)

Base ==
    /\ Typed
    /\ FramesOk
    /\ Numbered
    /\ Listed

IInv ==
    /\ Base
    /\ Overlapping \subseteq spoiled
    /\ Apart
    /\ Holds
    /\ Sole
    /\ Stages

-----------------------------------------------------------------------------
(* Frames and who is at work *)

\* A frame of a process has its type.
LEMMA FrameHas ==
    ASSUME Typed, FramesOk, NEW p \in Process, frame[p] # NoFrame
    PROVE  /\ frame[p] \in FrameRecord /\ FrameOk(p)
           /\ frame[p].id # NoId => frame[p].id \in Id /\ frame[p].id \in 1 .. issued
           /\ frame[p].driver # NoDriver => frame[p].driver \in Driver
BY DEF Typed, FramesOk, FrameOk, FrameRecord, Id

\* So has that of an operation at work.
LEMMA BusyHas ==
    ASSUME Typed, FramesOk, NEW p \in Process, Busy(p)
    PROVE  /\ frame[p] # NoFrame /\ frame[p] \in FrameRecord
           /\ Shape(frame[p])
           /\ frame[p].id \in Id /\ frame[p].id \in 1 .. issued
           /\ frame[p].new.path \in Path
           /\ frame[p].old # NoRow => frame[p].old.path \in Path
           /\ frame[p].at \notin {"insert", "read"} /\ InPlace(frame[p])
           /\ frame[p].fn = "load" <=> p = Loader
<1>1. frame[p] # NoFrame /\ frame[p].at # "insert" /\ frame[p].at # "read"
  BY DEF Busy, At
<1>2. frame[p] \in FrameRecord /\ FrameOk(p) BY <1>1, FrameHas
<1>3. Shape(frame[p]) /\ frame[p].id \in 1 .. issued
      /\ (frame[p].fn = "load" <=> p = Loader) /\ InPlace(frame[p])
  BY <1>1, <1>2 DEF FrameOk
<1>4. frame[p].id \in Id BY <1>3, BoundAssumption DEF Typed, Id
<1>5. frame[p].new.path \in Path /\ (frame[p].old # NoRow => frame[p].old.path \in Path)
  BY <1>2, <1>3 DEF Shape, RowRecord, FrameRecord
<1> QED BY <1>1, <1>2, <1>3, <1>4, <1>5

\* Who has a driver in hand is at work.
LEMMA HolderBusy ==
    ASSUME Typed, FramesOk, NEW p \in Process, Held(p) # NoDriver
    PROVE  Busy(p) /\ Held(p) = frame[p].driver /\ Held(p) \in Driver
<1>1. frame[p] # NoFrame /\ Held(p) = frame[p].driver BY DEF Held
<1>2. FrameOk(p) /\ frame[p].driver \in Driver BY <1>1, FrameHas
<1> QED BY <1>1, <1>2 DEF FrameOk, Busy, At

\* No two processes are at work on a storage that is not spoiled, nor on its paths.
Separate ==
    \A i \in Id \ spoiled : \A p, q \in Process :
        p # q /\ i \in AtWork(p) => i \notin AtWork(q) /\ PathsOf(p) \cap PathsOf(q) = {}

\* So the history keeps them separate.
LEMMA NotOverlapping == Overlapping \subseteq spoiled => Separate
BY DEF Overlapping, Separate

\* The same after a step
LEMMA NotOverlappingNext == (Overlapping \subseteq spoiled)' => Separate'
BY NotOverlapping, PTL

\* What an operation at work has in AtWork and PathsOf
LEMMA BusyWorks ==
    ASSUME NEW p, Busy(p)
    PROVE  /\ frame[p].id \in AtWork(p)
           /\ frame[p].new.path \in PathsOf(p)
           /\ frame[p].old # NoRow => frame[p].old.path \in PathsOf(p)
           /\ frame[p].at \in Started => drivers[frame[p].driver].path \in PathsOf(p)
           /\ Own(p) \subseteq PathsOf(p)
BY DEF AtWork, PathsOf, Own

\* The same after a step
LEMMA BusyWorksNext ==
    ASSUME NEW p, Busy(p)'
    PROVE  /\ frame'[p].id \in AtWork(p)'
           /\ frame'[p].new.path \in PathsOf(p)'
           /\ frame'[p].old # NoRow => frame'[p].old.path \in PathsOf(p)'
           /\ Own(p)' \subseteq PathsOf(p)'
BY DEF AtWork, PathsOf, Own

\* The loader is at work on what it has yet to load.
LEMMA LoaderWorks ==
    ASSUME NEW i \in Id, todo[i] # NoRow
    PROVE  i \in AtWork(Loader) /\ todo[i].path \in PathsOf(Loader)
BY DEF AtWork, PathsOf

\* The same after a step
LEMMA LoaderWorksNext ==
    ASSUME NEW i \in Id, todo'[i] # NoRow
    PROVE  i \in AtWork(Loader)' /\ todo'[i].path \in PathsOf(Loader)'
BY DEF AtWork, PathsOf

\* One operation at work on a storage that is not spoiled, and nobody else
LEMMA OneWorker ==
    ASSUME Overlapping \subseteq spoiled, NEW p \in Process, Busy(p),
           frame[p].id \in Id \ spoiled
    PROVE  /\ \A q \in Process \ {p} : /\ frame[p].id \notin AtWork(q)
                                      /\ PathsOf(p) \cap PathsOf(q) = {}
                                      /\ Busy(q) => frame[q].id # frame[p].id
           /\ p # Loader => todo[frame[p].id] = NoRow
<1>1. Separate BY NotOverlapping
<1>2. frame[p].id \in AtWork(p) BY BusyWorks
<1>3. \A q \in Process \ {p} : /\ frame[p].id \notin AtWork(q)
                               /\ PathsOf(p) \cap PathsOf(q) = {}
  BY <1>1, <1>2 DEF Separate
<1>4. \A q \in Process : Busy(q) => frame[q].id \in AtWork(q) BY BusyWorks
<1>5. Loader \in Process OBVIOUS
<1>6. p # Loader => todo[frame[p].id] = NoRow BY <1>3, <1>5, LoaderWorks
<1> QED BY <1>3, <1>4, <1>6

-----------------------------------------------------------------------------
(* Types and numbers: the part of the invariant that holds of every storage *)

\* Drivers are given their frames' ids and paths, so a row they save has its type.
LEMMA Saving ==
    ASSUME Base, NEW d \in Driver, SaveDriver(d), issued' = issued
    PROVE  rows' \in [Id -> RowRecord \cup {NoRow}] /\ RowsNumbered'
<1>1. /\ rows \in [Id -> RowRecord \cup {NoRow}] /\ drivers[d] \in DriverRecord
      /\ RowsNumbered /\ issued \in Nat
  BY BoundAssumption DEF Base, Typed, Numbered
<1>2. CASE rows' = rows BY <1>1, <1>2 DEF RowsNumbered
<1>3. CASE rows' = [rows EXCEPT ![drivers[d].id] = RowOf(d)] /\ drivers[d].id = NoId
  <2>1. NoId \notin Id BY BoundAssumption DEF Id
  <2>2. rows' = rows BY <1>1, <1>3, <2>1
  <2> QED BY <1>2, <2>2
<1>4. CASE /\ Unique(drivers[d].id, drivers[d].path)
           /\ rows' = [rows EXCEPT ![drivers[d].id] = RowOf(d)]
           /\ drivers[d].id # NoId
  <2>1. drivers[d].id \in 1 .. issued /\ drivers[d].path \in Path
    BY <1>4 DEF Base, Numbered, DriversNumbered
  <2>2. RowOf(d) \in RowRecord /\ RowOf(d).path = drivers[d].path
    BY <1>1, <2>1 DEF RowOf, Row, RowRecord, DriverRecord
  <2>3. rows' \in [Id -> RowRecord \cup {NoRow}] BY <1>1, <1>4, <2>2
  <2>4. drivers[d].id \in Id BY <2>1, BoundAssumption DEF Base, Typed, Id
  <2>5. \A i \in Id : rows'[i] = IF i = drivers[d].id THEN RowOf(d) ELSE rows[i]
    BY <1>1, <1>4
  <2>6. \A j \in Id \ {drivers[d].id} : rows[j] # NoRow => rows[j].path # drivers[d].path
    BY <1>4 DEF Unique
  <2>7. \A i \in Id : rows'[i] # NoRow => i <= issued'
    BY <1>1, <2>1, <2>5 DEF RowsNumbered
  <2> QED BY <1>1, <2>2, <2>3, <2>5, <2>6, <2>7 DEF RowsNumbered
<1> QED BY <1>2, <1>3, <1>4 DEF SaveDriver, Saved

\* A step of a process that leaves its frame as g
FrameBecomes(p, g) ==
    /\ frame[p] # NoFrame
    /\ frame' = [frame EXCEPT ![p] = g]
    /\ g \in FrameRecord \cup {NoFrame}
    /\ g # NoFrame => /\ g.at \notin {"insert", "read"}
                      /\ p = Loader => g.id = frame[p].id /\ g.new.path = frame[p].new.path

\* Only CreateStorage gives out an id.
Issues(p) == issued' = issued \/ (At(p, "insert") /\ issued' = issued + 1)

\* A step that changes the frame of one process and nothing the loader has yet to
\* do keeps the types when what it writes has them.
LEMMA StepBase ==
    ASSUME Base, NEW p \in Process, NEW g, FrameBecomes(p, g), Issues(p),
           g # NoFrame => FrameOk(p)',
           todo' = todo, reload' = reload, spoiled' \subseteq Id,
           rows' \in [Id -> RowRecord \cup {NoRow}], RowsNumbered',
           drivers' \in [Driver -> DriverRecord], DriversNumbered',
           mounted' \in [Path -> Driver \cup {NoDriver}]
    PROVE  Base'
<1>0. /\ frame[p] # NoFrame /\ frame' = [frame EXCEPT ![p] = g]
      /\ g \in FrameRecord \cup {NoFrame}
      /\ g # NoFrame => g.at \notin {"insert", "read"}
      /\ g # NoFrame => (p = Loader => g.id = frame[p].id /\ g.new.path = frame[p].new.path)
  BY Zenon DEF FrameBecomes
<1>1. Typed /\ FramesOk /\ Numbered /\ Listed BY DEF Base
<1>2. issued \in Nat /\ MaxId \in Nat BY <1>1, BoundAssumption DEF Typed
<1>3. issued' \in Nat /\ issued <= issued' BY <1>2 DEF Issues
<1>4. frame \in [Process -> FrameRecord \cup {NoFrame}] BY <1>1 DEF Typed
<1>5. /\ frame' \in [Process -> FrameRecord \cup {NoFrame}]
      /\ frame'[p] = g /\ \A q \in Process \ {p} : frame'[q] = frame[q]
  BY <1>0, <1>4
<1>6. FramesOk'
  <2> SUFFICES ASSUME NEW q \in Process, frame'[q] # NoFrame PROVE FrameOk(q)'
    BY DEF FramesOk
  <2>1. CASE q = p BY <1>5, <2>1, Zenon
  <2>2. CASE q # p
    <3>1. frame'[q] = frame[q] BY <1>5, <2>2
    <3>2. FrameOk(q) BY <1>1, <3>1 DEF FramesOk
    <3>3. frame[q].id \in 1 .. issued => frame[q].id \in 1 .. issued' BY <1>2, <1>3
    <3> QED BY <3>1, <3>2, <3>3 DEF FrameOk
  <2> QED BY <2>1, <2>2
<1>7. issued' + Cardinality(Inserting)' <= MaxId
  <2>1. IsFiniteSet(Inserting) /\ Cardinality(Inserting) \in Nat
    BY BoundAssumption, FS_Subset, FS_CardinalityType DEF Inserting
  <2>2. issued + Cardinality(Inserting) <= MaxId BY <1>1 DEF Numbered
  <2>3. CASE At(p, "insert")
    <3>1. p \in Proc
      <4>1. FrameOk(p) BY <1>0, <1>1 DEF FramesOk
      <4> QED BY <2>3, <4>1 DEF FrameOk, InPlace, Started, At
    <3>2. Inserting' = Inserting \ {p}
      BY <1>0, <1>5, <3>1 DEF Inserting, At
    <3>3. p \in Inserting BY <2>3, <3>1 DEF Inserting
    <3>4. Cardinality(Inserting \ {p}) = Cardinality(Inserting) - 1
      BY <2>1, <3>3, FS_RemoveElement
    <3> QED BY <1>2, <2>1, <2>2, <3>2, <3>4 DEF Issues
  <2>4. CASE ~At(p, "insert")
    <3>1. Inserting' = Inserting BY <1>0, <1>5, <2>4 DEF Inserting, At
    <3> QED BY <2>2, <2>4, <3>1 DEF Issues
  <2> QED BY <2>3, <2>4
<1>8. issued' \in 0 .. MaxId
  <2>1. IsFiniteSet(Inserting') BY BoundAssumption, FS_Subset DEF Inserting
  <2>2. Cardinality(Inserting') \in Nat BY <2>1, FS_CardinalityType
  <2> QED BY <1>2, <1>3, <1>7, <2>2
<1>9. Numbered'
  <2>1. TodoNumbered' BY <1>1, <1>2, <1>3 DEF Numbered, TodoNumbered, Id
  <2> QED BY <1>7, <2>1 DEF Numbered
<1>10. Typed' BY <1>1, <1>5, <1>8 DEF Typed
<1>11. Listed'
  <2>1. Loader \in Process OBVIOUS
  <2>2. frame'[Loader] # NoFrame =>
           /\ frame[Loader] # NoFrame
           /\ frame'[Loader].id = frame[Loader].id
           /\ frame'[Loader].new.path = frame[Loader].new.path
    BY <1>0, <1>5, <2>1
  <2> QED BY <1>1, <2>2 DEF Listed
<1> QED BY <1>6, <1>9, <1>10, <1>11 DEF Base

\* There is an id left for a storage whose creation was begun.
LEMMA IdLeft ==
    ASSUME Base, NEW p \in Process, At(p, "insert")
    PROVE  issued + 1 \in Id
<1>1. FrameOk(p) /\ Typed /\ issued + Cardinality(Inserting) <= MaxId
  BY DEF Base, FramesOk, At, Numbered
<1>2. p \in Inserting BY <1>1 DEF FrameOk, InPlace, Started, At, Inserting
<1>3. IsFiniteSet(Inserting) BY BoundAssumption, FS_Subset DEF Inserting
<1>4. Cardinality(Inserting) # 0 /\ Cardinality(Inserting) \in Nat
  BY <1>2, <1>3, FS_EmptySet, FS_CardinalityType
<1>5. issued \in Nat /\ MaxId \in Nat BY <1>1, BoundAssumption DEF Typed
<1> QED BY <1>1, <1>4, <1>5 DEF Id

\* What a step says about spoiled has its type.
LEMMA SpoiledTyped ==
    ASSUME Base, NEW p \in Process, frame[p] # NoFrame, Issues(p),
           Observe(GivenUp(p) \cup MountsDisabled(p) \cup Foreign(p))
    PROVE  spoiled' \subseteq Id
<1>1. Typed /\ FrameOk(p) /\ MaxId \in Nat BY BoundAssumption DEF Base, FramesOk
<1>2. frame[p].at \notin {"insert"} => frame[p].id \in Id
  BY <1>1 DEF FrameOk, Id, Typed
<1>3. GivenUp(p) \subseteq Id BY <1>2 DEF GivenUp
<1>4. Foreign(p) \subseteq Id BY <1>2 DEF Foreign, At
<1>5. MountsDisabled(p) \subseteq Id BY IdLeft DEF MountsDisabled, Issues
<1>6. Overlapping' \subseteq Id BY DEF Overlapping
<1> QED BY <1>1, <1>3, <1>4, <1>5, <1>6 DEF Observe, Typed

\* A new driver object is one of the drivers.
LEMMA LoadTakes ==
    ASSUME NEW p, NEW f, Load(p, f)
    PROVE  \E d \in Unreferenced :
              frame' = [frame EXCEPT ![p] = [f EXCEPT !.driver = d, !.at = "set"]]
BY DEF Load, Goto

\* What a step leaves alone keeps its types.
LEMMA SameRows ==
    ASSUME Base, NEW p, Issues(p), rows' = rows
    PROVE  rows' \in [Id -> RowRecord \cup {NoRow}] /\ RowsNumbered'
<1>1. issued \in Nat /\ MaxId \in Nat BY BoundAssumption DEF Base, Typed
<1>2. issued' \in Nat /\ issued <= issued' BY <1>1 DEF Issues
<1> QED BY <1>1, <1>2 DEF Base, Typed, Numbered, RowsNumbered, Id

\* So do the drivers.
LEMMA SameDrivers ==
    ASSUME Base, NEW p, Issues(p), drivers' = drivers
    PROVE  drivers' \in [Driver -> DriverRecord] /\ DriversNumbered'
<1>1. issued \in Nat BY BoundAssumption DEF Base, Typed
<1>2. issued' \in Nat /\ issued <= issued' BY <1>1 DEF Issues
<1> QED BY <1>1, <1>2 DEF Base, Typed, Numbered, DriversNumbered

\* What every step of a process starts from
LEMMA BaseHas ==
    ASSUME Base, NEW p \in Process, frame[p] # NoFrame
    PROVE  /\ frame[p] \in FrameRecord /\ FrameOk(p)
           /\ rows \in [Id -> RowRecord \cup {NoRow}]
           /\ drivers \in [Driver -> DriverRecord]
           /\ mounted \in [Path -> Driver \cup {NoDriver}]
           /\ issued \in Nat /\ MaxId \in Nat /\ issued <= MaxId
           /\ frame[p].fn \in {"create", "enable", "disable", "update", "delete", "load"}
           /\ frame[p].at \notin {"insert", "read"} => Shape(frame[p])
BY BoundAssumption DEF Base, Typed, FramesOk, FrameOk, FrameRecord

\* A step that returns keeps the types when what it writes has them.
LEMMA ReturnBecomes ==
    ASSUME Base, NEW p \in Process, frame[p] # NoFrame, Return(p)
    PROVE  FrameBecomes(p, NoFrame)
BY DEF FrameBecomes, Return, Goto

Aside == todo' = todo /\ reload' = reload /\ spoiled' \subseteq Id

\* CreateStorage gives its storage the next id.
LEMMA InsertBase ==
    ASSUME Base, NEW p \in Process, Insert(p), Aside
    PROVE  Base'
<1> DEFINE f == frame[p]
<1>1. frame[p] # NoFrame /\ f.at = "insert" /\ drivers' = drivers /\ mounted' = mounted
  BY DEF Insert, At, memory
<1>2. CASE Return(p) /\ rows' = rows /\ issued' = issued
  <2>1. Issues(p) BY <1>2 DEF Issues
  <2>2. FrameBecomes(p, NoFrame) BY <1>1, <1>2, ReturnBecomes
  <2> QED BY <1>1, <1>2, <2>1, <2>2, StepBase, SameRows, SameDrivers, BaseHas DEF Aside
<1>3. CASE /\ Unique(NoId, f.new.path)
           /\ issued' = issued + 1 /\ Saved(issued + 1, f.new)
           /\ Load(p, [f EXCEPT !.id = issued + 1])
  <2>1. Issues(p) BY <1>1, <1>3 DEF Issues, At
  <2>2. PICK d \in Unreferenced : frame' = [frame EXCEPT ![p] =
           [[f EXCEPT !.id = issued + 1] EXCEPT !.driver = d, !.at = "set"]]
    <3>1. PICK h : h = [f EXCEPT !.id = issued + 1] OBVIOUS
    <3>2. Load(p, h) BY <1>3, <3>1
    <3>3. \E d \in Unreferenced :
             frame' = [frame EXCEPT ![p] = [h EXCEPT !.driver = d, !.at = "set"]]
      BY <3>2, LoadTakes
    <3> QED BY <3>1, <3>3
  <2> DEFINE g == [[f EXCEPT !.id = issued + 1] EXCEPT !.driver = d, !.at = "set"]
  <2>3. /\ f \in FrameRecord /\ FrameOk(p) /\ issued \in Nat /\ MaxId \in Nat
        /\ rows \in [Id -> RowRecord \cup {NoRow}]
        /\ f.fn \in {"create", "enable", "disable", "update", "delete", "load"}
    BY <1>1, BaseHas
  <2>4. f.fn = "create" /\ p # Loader /\ f.new \in RowRecord /\ f.old = NoRow
    BY <1>1, <2>3 DEF FrameOk, InPlace, Started
  <2>5. issued + 1 \in Id BY <1>1, IdLeft DEF At
  <2>6. d \in Driver BY DEF Unreferenced
  <2>7. g \in FrameRecord /\ g.at = "set" /\ g.id = issued + 1 /\ g.fn = "create"
        /\ g.new = f.new /\ g.old = NoRow /\ g.driver = d
    BY <2>3, <2>4, <2>5, <2>6 DEF FrameRecord
  <2>8. frame' = [frame EXCEPT ![p] = g] BY <2>2
  <2>9. frame'[p] = g BY <2>8 DEF Base, Typed
  <2> HIDE DEF g
  <2>10. FrameBecomes(p, g) BY <1>1, <2>4, <2>7, <2>8 DEF FrameBecomes
  <2>11. FrameOk(p)'
    <3>1. Shape(g) BY <2>4, <2>6, <2>7 DEF Shape, Started
    <3>2. InPlace(g) BY <2>7 DEF InPlace
    <3>3. g.id \in 1 .. issued' BY <1>3, <2>3, <2>7
    <3> QED BY <2>4, <2>7, <2>9, <3>1, <3>2, <3>3 DEF FrameOk
  <2>12. rows' \in [Id -> RowRecord \cup {NoRow}] BY <1>3, <2>3, <2>4 DEF Saved
  <2>13. RowsNumbered'
    <3>1. \A i \in Id : rows'[i] = IF i = issued + 1 THEN f.new ELSE rows[i]
      BY <1>3, <2>3 DEF Saved
    <3>2. \A j \in Id : rows[j] # NoRow => rows[j].path # f.new.path
      BY <1>3, BoundAssumption DEF Unique, Id
    <3>3. RowsNumbered BY DEF Base, Numbered
    <3>4. \A i \in Id : rows'[i] # NoRow => i <= issued'
      BY <1>3, <2>3, <3>1, <3>3 DEF RowsNumbered, Id
    <3> QED BY <3>1, <3>2, <3>3, <3>4 DEF RowsNumbered
  <2> QED BY <1>1, <2>1, <2>10, <2>11, <2>12, <2>13, StepBase, SameDrivers, BaseHas DEF Aside
<1> QED BY <1>2, <1>3 DEF Insert

\* An operation that has read its row has the one it will write.
LEMMA ReadBase ==
    ASSUME Base, NEW p \in Process, Read(p), Aside
    PROVE  Base'
<1> DEFINE f == frame[p]
           row == rows[f.id]
           G(at, new) == [f EXCEPT !.old = row, !.new = new, !.at = at]
<1>1. /\ frame[p] # NoFrame /\ f.at = "read" /\ drivers' = drivers /\ mounted' = mounted
      /\ rows' = rows /\ issued' = issued
  BY DEF Read, At, memory
<1>2. Issues(p) BY <1>1 DEF Issues
<1>3. /\ f \in FrameRecord /\ FrameOk(p) /\ issued \in Nat /\ MaxId \in Nat
      /\ rows \in [Id -> RowRecord \cup {NoRow}] /\ issued <= MaxId
      /\ f.fn \in {"create", "enable", "disable", "update", "delete", "load"}
  BY <1>1, BaseHas
<1>4. /\ f.id \in 1 .. issued /\ f.id \in Id /\ f.driver = NoDriver
      /\ f.fn = "update" => f.new \in RowRecord
      /\ f.fn = "load" <=> p = Loader
  BY <1>1, <1>3 DEF FrameOk, Id
<1>5. rows' \in [Id -> RowRecord \cup {NoRow}] /\ RowsNumbered' BY <1>1, <1>2, SameRows
<1>6. drivers' \in [Driver -> DriverRecord] /\ DriversNumbered' BY <1>1, <1>2, SameDrivers
<1>7. mounted' \in [Path -> Driver \cup {NoDriver}] BY <1>1, BaseHas
<1>8. f.fn # "load" BY <1>1, <1>3 DEF FrameOk, InPlace, Started
<1>9. ASSUME NEW at, NEW new \in RowRecord, Goto(p, G(at, new)), row \in RowRecord,
             \/ f.fn = "enable" /\ row.disabled /\ at = "write"
                /\ ~new.disabled /\ new.path = row.path
             \/ f.fn = "disable" /\ ~row.disabled /\ at = "lookup"
                /\ new.disabled /\ new.path = row.path
             \/ f.fn = "update" /\ at = "write"
             \/ f.fn = "delete" /\ at = (IF row.disabled THEN "erase" ELSE "lookup")
                /\ new = row
      PROVE  Base'
  <2> DEFINE g == G(at, new)
  <2>1. at \in {"write", "lookup", "erase"} BY <1>9
  <2>2. g \in FrameRecord /\ g.at = at /\ g.id = f.id /\ g.fn = f.fn
        /\ g.new = new /\ g.old = row /\ g.driver = NoDriver
    BY <1>3, <1>4, <1>9, <2>1 DEF FrameRecord
  <2>3. frame' = [frame EXCEPT ![p] = g] BY <1>9 DEF Goto
  <2>4. frame'[p] = g BY <2>3 DEF Base, Typed
  <2> HIDE DEF g
  <2>5. FrameBecomes(p, g) BY <1>1, <1>4, <1>8, <2>1, <2>2, <2>3 DEF FrameBecomes
  <2>6. FrameOk(p)'
    <3>1. Shape(g) BY <1>9, <2>1, <2>2 DEF Shape, Started
    <3>2. InPlace(g) BY <1>9, <2>2 DEF InPlace
    <3>3. g.id \in 1 .. issued' BY <1>1, <1>4, <2>2
    <3> QED BY <1>4, <1>9, <2>1, <2>2, <2>4, <3>1, <3>2, <3>3 DEF FrameOk
  <2> QED BY <1>2, <1>5, <1>6, <1>7, <2>5, <2>6, StepBase DEF Aside
<1>10. CASE Return(p)
  <2>1. FrameBecomes(p, NoFrame) BY <1>1, <1>10, ReturnBecomes
  <2> QED BY <1>2, <1>5, <1>6, <1>7, <2>1, StepBase DEF Aside
<1>11. row # NoRow => row \in RowRecord BY <1>3, <1>4
<1>12. CASE row # NoRow /\ f.fn = "enable" /\ row.disabled
            /\ Goto(p, G("write", [row EXCEPT !.disabled = FALSE]))
  <2>1. [row EXCEPT !.disabled = FALSE] \in RowRecord
        /\ [row EXCEPT !.disabled = FALSE].path = row.path
        /\ ~[row EXCEPT !.disabled = FALSE].disabled
    BY <1>11, <1>12 DEF RowRecord
  <2> QED BY <1>9, <1>11, <1>12, <2>1
<1>13. CASE row # NoRow /\ f.fn = "disable" /\ ~row.disabled
            /\ Goto(p, G("lookup", [row EXCEPT !.disabled = TRUE, !.status = "disabled"]))
  <2> DEFINE new == [row EXCEPT !.disabled = TRUE, !.status = "disabled"]
  <2>1. new \in RowRecord /\ new.path = row.path /\ new.disabled
    BY <1>11, <1>13 DEF RowRecord, Status
  <2> QED BY <1>9, <1>11, <1>13, <2>1
<1>14. CASE row # NoRow /\ f.fn = "update"
            /\ Goto(p, G("write", [f.new EXCEPT !.status = row.status]))
  <2>1. [f.new EXCEPT !.status = row.status] \in RowRecord
    BY <1>4, <1>11, <1>14 DEF RowRecord
  <2> QED BY <1>9, <1>11, <1>14, <2>1
<1>15. CASE row # NoRow /\ f.fn = "delete"
            /\ Goto(p, G(IF row.disabled THEN "erase" ELSE "lookup", row))
  BY <1>9, <1>11, <1>15
<1> HIDE DEF row
<1> QED BY <1>10, <1>12, <1>13, <1>14, <1>15 DEF Read, row

\* An operation that goes on keeps its kind, its storage and its paths.
GoesOn(p, g) ==
    /\ g \in FrameRecord
    /\ frame' = [frame EXCEPT ![p] = g]
    /\ g.fn = frame[p].fn /\ g.id = frame[p].id /\ g.old = frame[p].old
    /\ g.new.path = frame[p].new.path /\ g.new.disabled = frame[p].new.disabled
    /\ g.at \notin {"insert", "read"} /\ InPlace(g) /\ Shape(g)

\* A step that goes on or returns keeps the types when what it writes has them.
LEMMA OnwardBase ==
    ASSUME Base, NEW p \in Process, Busy(p), Aside, issued' = issued,
           Return(p) \/ \E g : GoesOn(p, g),
           rows' \in [Id -> RowRecord \cup {NoRow}], RowsNumbered',
           drivers' \in [Driver -> DriverRecord], DriversNumbered',
           mounted' \in [Path -> Driver \cup {NoDriver}]
    PROVE  Base'
<1>1. frame[p] # NoFrame /\ frame[p].id \in 1 .. issued /\ FrameOk(p)
  BY BusyHas, FrameHas DEF Base
<1>2. Issues(p) BY DEF Issues
<1>3. CASE Return(p)
  <2>1. FrameBecomes(p, NoFrame) BY <1>1, <1>3, ReturnBecomes
  <2> QED BY <1>2, <2>1, StepBase DEF Aside
<1>4. ASSUME NEW g, GoesOn(p, g) PROVE Base'
  <2>1. frame'[p] = g BY <1>4 DEF Base, Typed, GoesOn
  <2>2. FrameBecomes(p, g) BY <1>1, <1>4 DEF FrameBecomes, GoesOn
  <2>3. /\ g.fn = frame[p].fn /\ g.id = frame[p].id /\ g.old = frame[p].old
        /\ g.new.disabled = frame[p].new.disabled
        /\ g.at \notin {"insert", "read"} /\ InPlace(g) /\ Shape(g)
    BY <1>4 DEF GoesOn
  <2>4. (g.fn = "load" <=> p = Loader) /\ (g.fn = "create" => g.old = NoRow)
    BY <1>1, <2>3 DEF FrameOk
  <2>5. g.id \in 1 .. issued' BY <1>1, <2>3
  <2>6. FrameOk(p)' BY <2>1, <2>3, <2>4, <2>5 DEF FrameOk
  <2> QED BY <1>2, <2>2, <2>6, StepBase DEF Aside
<1> QED BY <1>3, <1>4

\* What a step of an operation at work starts from
LEMMA WorkerHas ==
    ASSUME Base, NEW p \in Process, NEW at, At(p, at), at \notin {"insert", "read"}
    PROVE  /\ Busy(p) /\ frame[p].at = at
           /\ frame[p] \in FrameRecord /\ Shape(frame[p]) /\ InPlace(frame[p])
           /\ frame[p].id \in Id
           /\ frame[p].fn \in {"create", "enable", "disable", "update", "delete", "load"}
           /\ rows \in [Id -> RowRecord \cup {NoRow}] /\ RowsNumbered
           /\ drivers \in [Driver -> DriverRecord] /\ DriversNumbered
           /\ mounted \in [Path -> Driver \cup {NoDriver}]
<1>1. Busy(p) /\ frame[p] # NoFrame BY DEF Busy, At
<1> QED BY <1>1, BusyHas, BaseHas DEF Base, At, Numbered

\* A driver taken by Load
LEMMA LoadGoesOn ==
    ASSUME Base, NEW p \in Process, Busy(p), Load(p, frame[p]),
           frame[p].fn \in {"enable", "load"}
    PROVE  \E g : GoesOn(p, g)
<1>1. PICK d \in Unreferenced :
         frame' = [frame EXCEPT ![p] = [frame[p] EXCEPT !.driver = d, !.at = "set"]]
  BY DEF Load, Goto
<1> DEFINE f == frame[p]
<1> DEFINE g == [f EXCEPT !.driver = d, !.at = "set"]
<1>2. f \in FrameRecord /\ Shape(f) BY BusyHas DEF Base
<1>3. d \in Driver BY DEF Unreferenced
<1>4. g \in FrameRecord /\ g.at = "set" /\ g.driver = d /\ g.fn = f.fn /\ g.id = f.id
      /\ g.old = f.old /\ g.new = f.new
  BY <1>2, <1>3 DEF FrameRecord
<1>5. Shape(g) BY <1>2, <1>3, <1>4 DEF Shape, Started
<1>6. InPlace(g) BY <1>4 DEF InPlace
<1>7. GoesOn(p, g) BY <1>1, <1>4, <1>5, <1>6 DEF GoesOn
<1> QED BY <1>7

\* The row that is written has its type and a path of its own.
LEMMA WriteBase ==
    ASSUME Base, NEW p \in Process, Write(p), Aside
    PROVE  Base'
<1> DEFINE f == frame[p]
<1>1. At(p, "write") /\ issued' = issued /\ drivers' = drivers /\ mounted' = mounted
  BY DEF Write, memory
<1>2. /\ Busy(p) /\ f.at = "write" /\ f \in FrameRecord /\ Shape(f) /\ InPlace(f) /\ f.id \in Id
      /\ f.fn \in {"create", "enable", "disable", "update", "delete", "load"}
      /\ rows \in [Id -> RowRecord \cup {NoRow}] /\ RowsNumbered
      /\ mounted' \in [Path -> Driver \cup {NoDriver}]
  BY <1>1, WorkerHas
<1>3. Issues(p) BY <1>1 DEF Issues
<1>4. drivers' \in [Driver -> DriverRecord] /\ DriversNumbered' BY <1>1, <1>3, SameDrivers
<1>5. f.fn \in {"enable", "disable", "update"} BY <1>2 DEF InPlace, Started
<1>6. CASE Return(p) /\ rows' = rows
  <2>1. rows' \in [Id -> RowRecord \cup {NoRow}] /\ RowsNumbered' BY <1>3, <1>6, SameRows
  <2> QED BY <1>1, <1>2, <1>4, <1>6, <2>1, OnwardBase
<1>7. CASE Unique(f.id, f.new.path) /\ Saved(f.id, f.new)
  <2>1. f.new \in RowRecord BY <1>2 DEF Shape
  <2>2. rows' \in [Id -> RowRecord \cup {NoRow}] BY <1>2, <1>7, <2>1 DEF Saved
  <2>3. \A i \in Id : rows'[i] = IF i = f.id THEN f.new ELSE rows[i]
    BY <1>2, <1>7 DEF Saved
  <2>4. \A j \in Id \ {f.id} : rows[j] # NoRow => rows[j].path # f.new.path
    BY <1>7 DEF Unique
  <2>5. f.id <= issued
    <3>1. f.id \in 1 .. issued /\ issued \in Nat BY <1>2, BusyHas, BoundAssumption DEF Base, Typed
    <3> QED BY <3>1
  <2>6. RowsNumbered' BY <1>1, <1>2, <2>3, <2>4, <2>5 DEF RowsNumbered
  <2>7. Return(p) \/ \E g : GoesOn(p, g)
    <3>1. CASE f.fn = "enable"
      <4>1. Load(p, f) BY <1>2, <1>7, <3>1 DEF Write
      <4> QED BY <1>2, <3>1, <4>1, LoadGoesOn
    <3>2. ASSUME NEW at, (at = "unmount" /\ f.fn = "disable") \/ (at = "lookup" /\ f.fn = "update"),
                 Goto(p, [f EXCEPT !.at = at])
          PROVE  \E g : GoesOn(p, g)
      <4> DEFINE g == [f EXCEPT !.at = at]
      <4>1. g \in FrameRecord /\ g.at = at /\ g.driver = f.driver /\ g.fn = f.fn /\ g.id = f.id
            /\ g.old = f.old /\ g.new = f.new
        BY <1>2, <3>2 DEF FrameRecord
      <4>2. Shape(g) BY <1>2, <3>2, <4>1 DEF Shape, Started
      <4>3. InPlace(g) BY <3>2, <4>1 DEF InPlace
      <4>4. GoesOn(p, g) BY <3>2, <4>1, <4>2, <4>3 DEF GoesOn, Goto
      <4> QED BY <4>4
    <3>3. CASE f.fn = "disable"
      <4>1. Goto(p, [f EXCEPT !.at = "unmount"]) BY <1>2, <1>7, <3>3 DEF Write
      <4> QED BY <3>2, <3>3, <4>1
    <3>4. CASE f.fn = "update"
      <4>1. Goto(p, [f EXCEPT !.at = "lookup"]) BY <1>2, <1>7, <3>4 DEF Write
      <4> QED BY <3>2, <3>4, <4>1
    <3> QED BY <1>5, <3>1, <3>3, <3>4
  <2> QED BY <1>1, <1>2, <1>4, <2>2, <2>6, <2>7, OnwardBase
<1> QED BY <1>6, <1>7 DEF Write

\* What is found in storagesMap is a driver, or there is none.
LEMMA LookupBase ==
    ASSUME Base, NEW p \in Process, Lookup(p), Aside
    PROVE  Base'
<1> DEFINE f == frame[p]
           d == mounted[f.old.path]
<1>1. /\ At(p, "lookup") /\ issued' = issued /\ rows' = rows
      /\ drivers' = drivers /\ mounted' = mounted
  BY DEF Lookup, memory
<1>2. /\ Busy(p) /\ f.at = "lookup" /\ f \in FrameRecord /\ Shape(f) /\ InPlace(f)
      /\ f.fn \in {"create", "enable", "disable", "update", "delete", "load"}
      /\ mounted' \in [Path -> Driver \cup {NoDriver}]
  BY <1>1, WorkerHas
<1>3. Issues(p) BY <1>1 DEF Issues
<1>4. drivers' \in [Driver -> DriverRecord] /\ DriversNumbered' BY <1>1, <1>3, SameDrivers
<1>5. rows' \in [Id -> RowRecord \cup {NoRow}] /\ RowsNumbered' BY <1>1, <1>3, SameRows
<1>6. f.fn \in {"disable", "delete", "load", "update"} /\ f.old.path \in Path
  BY <1>2 DEF InPlace, Started, Shape, RowRecord
<1>7. d \in Driver \cup {NoDriver} BY <1>1, <1>2, <1>6
<1>8. ASSUME NEW at, Goto(p, [f EXCEPT !.driver = d, !.at = at]),
             \/ at = "unmount" /\ f.fn = "update" /\ ~f.new.disabled /\ f.new.path # f.old.path
             \/ at = "drop" /\ d # NoDriver /\ (f.fn = "update" => ~f.new.disabled)
      PROVE  \E g : GoesOn(p, g)
  <2> DEFINE g == [f EXCEPT !.driver = d, !.at = at]
  <2>1. g \in FrameRecord /\ g.at = at /\ g.driver = d /\ g.fn = f.fn /\ g.id = f.id
        /\ g.old = f.old /\ g.new = f.new
    BY <1>2, <1>7, <1>8 DEF FrameRecord
  <2>2. Shape(g) BY <1>2, <1>6, <1>7, <1>8, <2>1 DEF Shape, Started
  <2>3. InPlace(g) BY <1>6, <1>8, <2>1 DEF InPlace
  <2>4. GoesOn(p, g) BY <1>8, <2>1, <2>2, <2>3 DEF GoesOn, Goto
  <2> QED BY <2>4
<1>9. Return(p) \/ \E g : GoesOn(p, g)
  <2>1. CASE f.fn = "update" /\ ~f.new.disabled /\ f.new.path # f.old.path
    <3>1. Goto(p, [f EXCEPT !.driver = d, !.at = "unmount"]) BY <2>1 DEF Lookup
    <3> QED BY <1>8, <2>1, <3>1
  <2>2. CASE ~(f.fn = "update" /\ ~f.new.disabled /\ f.new.path # f.old.path)
    <3>1. CASE d = NoDriver \/ (f.fn = "update" /\ f.new.disabled) BY <2>2, <3>1 DEF Lookup
    <3>2. CASE ~(d = NoDriver \/ (f.fn = "update" /\ f.new.disabled))
      <4>1. Goto(p, [f EXCEPT !.driver = d, !.at = "drop"]) BY <2>2, <3>2 DEF Lookup
      <4> QED BY <1>8, <3>2, <4>1
    <3> QED BY <3>1, <3>2
  <2> QED BY <2>1, <2>2
<1> QED BY <1>1, <1>2, <1>4, <1>5, <1>9, OnwardBase

\* An operation that goes on to another step with the driver and the row it has
LEMMA GoesOnTo ==
    ASSUME Base, NEW p \in Process, Busy(p), NEW at,
           Goto(p, [frame[p] EXCEPT !.at = at]),
           \/ at = "erase" /\ frame[p].fn = "delete" /\ frame[p].at # "lookup"
           \/ at \in {"drop", "set"} /\ frame[p].fn = "update" /\ frame[p].driver # NoDriver
              /\ frame[p].at \notin {"lookup", "write"}
           \/ at = "write" /\ frame[p].fn = "disable"
           \/ at = "unmount" /\ frame[p].fn = "delete" /\ frame[p].at # "erase"
           \/ at \in Started /\ frame[p].at \in Started \cup {"set"}
    PROVE  \E g : GoesOn(p, g)
<1> DEFINE f == frame[p]
           g == [f EXCEPT !.at = at]
<1>1. f \in FrameRecord /\ Shape(f) /\ InPlace(f) BY BusyHas DEF Base
<1>2. /\ g \in FrameRecord /\ g.at = at /\ g.driver = f.driver /\ g.fn = f.fn /\ g.id = f.id
      /\ g.old = f.old /\ g.new = f.new
  BY <1>1 DEF FrameRecord, Started
<1>3. f.driver \in Driver \cup {NoDriver}
      /\ f.fn \in {"create", "enable", "disable", "update", "delete", "load"}
  BY <1>1 DEF FrameRecord
<1>4. Shape(g) BY <1>1, <1>2, <1>3 DEF Shape, Started
<1>5. InPlace(g) BY <1>1, <1>2, <1>3 DEF InPlace, Started
<1>6. g.at \notin {"insert", "read"} BY <1>2 DEF Started
<1>7. frame' = [frame EXCEPT ![p] = g] BY DEF Goto
<1>8. GoesOn(p, g) BY <1>2, <1>4, <1>5, <1>6, <1>7 DEF GoesOn
<1> QED BY <1>8

\* The entry of a path is emptied.
LEMMA UnmountBase ==
    ASSUME Base, NEW p \in Process, Unmount(p), Aside
    PROVE  Base'
<1> DEFINE f == frame[p]
<1>1. /\ At(p, "unmount") /\ issued' = issued /\ rows' = rows /\ drivers' = drivers
      /\ mounted' = [mounted EXCEPT ![f.old.path] = NoDriver]
  BY DEF Unmount
<1>2. Busy(p) /\ f.at = "unmount" BY <1>1, WorkerHas
<1>3. Issues(p) BY <1>1 DEF Issues
<1>4. drivers' \in [Driver -> DriverRecord] /\ DriversNumbered' BY <1>1, <1>3, SameDrivers
<1>5. rows' \in [Id -> RowRecord \cup {NoRow}] /\ RowsNumbered' BY <1>1, <1>3, SameRows
<1>6. mounted' \in [Path -> Driver \cup {NoDriver}]
  <2>1. mounted \in [Path -> Driver \cup {NoDriver}] BY <1>1, WorkerHas
  <2> QED BY <1>1, <2>1
<1>7. CASE Return(p) BY <1>1, <1>2, <1>4, <1>5, <1>6, <1>7, OnwardBase
<1>8. CASE f.fn = "delete" /\ Goto(p, [f EXCEPT !.at = "erase"])
  <2>1. \E g : GoesOn(p, g) BY <1>2, <1>8, GoesOnTo
  <2> QED BY <1>1, <1>2, <1>4, <1>5, <1>6, <2>1, OnwardBase
<1>9. CASE f.fn = "update" /\ f.driver # NoDriver /\ Goto(p, [f EXCEPT !.at = "drop"])
  <2>1. \E g : GoesOn(p, g) BY <1>2, <1>9, GoesOnTo
  <2> QED BY <1>1, <1>2, <1>4, <1>5, <1>6, <2>1, OnwardBase
<1> QED BY <1>7, <1>8, <1>9 DEF Unmount

\* A field of a driver that is set to a value of its type
LEMMA DriverTyped ==
    ASSUME Base, NEW e \in Driver,
           \/ \E b \in BOOLEAN : drivers' = [drivers EXCEPT ![e].live = b]
           \/ \E st \in Status : drivers' = [drivers EXCEPT ![e].status = st],
           issued' = issued
    PROVE  drivers' \in [Driver -> DriverRecord] /\ DriversNumbered'
<1>1. drivers \in [Driver -> DriverRecord] /\ DriversNumbered
  BY DEF Base, Typed, Numbered
<1>2. ASSUME NEW b \in BOOLEAN, drivers' = [drivers EXCEPT ![e].live = b]
      PROVE  drivers' \in [Driver -> DriverRecord] /\ DriversNumbered'
  <2>1. drivers' \in [Driver -> DriverRecord] BY <1>1, <1>2 DEF DriverRecord
  <2>2. \A d \in Driver : drivers'[d].id = drivers[d].id /\ drivers'[d].path = drivers[d].path
    BY <1>1, <1>2 DEF DriverRecord
  <2> QED BY <1>1, <2>1, <2>2 DEF DriversNumbered
<1>3. ASSUME NEW st \in Status, drivers' = [drivers EXCEPT ![e].status = st]
      PROVE  drivers' \in [Driver -> DriverRecord] /\ DriversNumbered'
  <2>1. drivers' \in [Driver -> DriverRecord] BY <1>1, <1>3 DEF DriverRecord
  <2>2. \A d \in Driver : drivers'[d].id = drivers[d].id /\ drivers'[d].path = drivers[d].path
    BY <1>1, <1>3 DEF DriverRecord
  <2> QED BY <1>1, <2>1, <2>2 DEF DriversNumbered
<1> QED BY <1>2, <1>3

\* A drop changes whether the driver runs.
LEMMA DropBase ==
    ASSUME Base, NEW p \in Process, Drop(p), Aside
    PROVE  Base'
<1> DEFINE f == frame[p]
<1>1. /\ At(p, "drop") /\ issued' = issued /\ rows' = rows /\ mounted' = mounted
  BY DEF Drop
<1>2. /\ Busy(p) /\ f.at = "drop" /\ f \in FrameRecord /\ Shape(f) /\ InPlace(f)
      /\ f.fn \in {"create", "enable", "disable", "update", "delete", "load"}
      /\ mounted' \in [Path -> Driver \cup {NoDriver}]
  BY <1>1, WorkerHas
<1>3. Issues(p) BY <1>1 DEF Issues
<1>4. rows' \in [Id -> RowRecord \cup {NoRow}] /\ RowsNumbered' BY <1>1, <1>3, SameRows
<1>5. f.driver \in Driver /\ f.driver # NoDriver BY <1>2 DEF Shape
<1>6. CASE Return(p) /\ drivers' = drivers
  <2>1. drivers' \in [Driver -> DriverRecord] /\ DriversNumbered' BY <1>3, <1>6, SameDrivers
  <2> QED BY <1>1, <1>2, <1>4, <1>6, <2>1, OnwardBase
<1>7. CASE /\ drivers' = [drivers EXCEPT ![f.driver].live = FALSE]
           /\ CASE f.fn = "disable" -> Goto(p, [f EXCEPT !.at = "write"])
                [] f.fn = "delete"  -> Goto(p, [f EXCEPT !.at = "unmount"])
                [] f.fn = "update"  -> Goto(p, [f EXCEPT !.at = "set"])
                [] f.fn = "load"    -> Load(p, f)
  <2>1. drivers' \in [Driver -> DriverRecord] /\ DriversNumbered'
    BY <1>1, <1>5, <1>7, DriverTyped
  <2>2. f.fn \in {"disable", "delete", "update", "load"} BY <1>2 DEF InPlace, Started
  <2>3. CASE f.fn = "disable"
    <3>1. Goto(p, [f EXCEPT !.at = "write"]) BY <1>7, <2>3
    <3>2. \E g : GoesOn(p, g) BY <1>2, <2>3, <3>1, GoesOnTo
    <3> QED BY <1>1, <1>2, <1>4, <2>1, <3>2, OnwardBase
  <2>4. CASE f.fn = "delete"
    <3>1. Goto(p, [f EXCEPT !.at = "unmount"]) BY <1>7, <2>4
    <3>2. \E g : GoesOn(p, g) BY <1>2, <2>4, <3>1, GoesOnTo
    <3> QED BY <1>1, <1>2, <1>4, <2>1, <3>2, OnwardBase
  <2>5. CASE f.fn = "update"
    <3>1. Goto(p, [f EXCEPT !.at = "set"]) BY <1>7, <2>5
    <3>2. \E g : GoesOn(p, g) BY <1>2, <1>5, <2>5, <3>1, GoesOnTo
    <3> QED BY <1>1, <1>2, <1>4, <2>1, <3>2, OnwardBase
  <2>6. CASE f.fn = "load"
    <3>1. Load(p, frame[p]) BY <1>7, <2>6
    <3>2. \E g : GoesOn(p, g) BY <1>2, <2>6, <3>1, LoadGoesOn
    <3> QED BY <1>1, <1>2, <1>4, <2>1, <3>2, OnwardBase
  <2> QED BY <2>2, <2>3, <2>4, <2>5, <2>6
<1> QED BY <1>6, <1>7 DEF Drop

\* A row is deleted.
LEMMA EraseBase ==
    ASSUME Base, NEW p \in Process, Erase(p), Aside
    PROVE  Base'
<1>1. /\ At(p, "erase") /\ issued' = issued /\ drivers' = drivers /\ mounted' = mounted
      /\ rows' = [rows EXCEPT ![frame[p].id] = NoRow] /\ Return(p)
  BY DEF Erase, memory, Saved
<1>2. /\ Busy(p) /\ rows \in [Id -> RowRecord \cup {NoRow}] /\ RowsNumbered
      /\ mounted' \in [Path -> Driver \cup {NoDriver}]
  BY <1>1, WorkerHas
<1>3. Issues(p) BY <1>1 DEF Issues
<1>4. drivers' \in [Driver -> DriverRecord] /\ DriversNumbered' BY <1>1, <1>3, SameDrivers
<1>5. rows' \in [Id -> RowRecord \cup {NoRow}] BY <1>1, <1>2
<1>6. \A i \in Id : rows'[i] # NoRow => rows'[i] = rows[i] BY <1>1, <1>2
<1>7. RowsNumbered' BY <1>1, <1>2, <1>6 DEF RowsNumbered
<1> QED BY <1>1, <1>2, <1>4, <1>5, <1>7, OnwardBase

\* A driver is given its row, and with it an id that was given out.
LEMMA SetStorageBase ==
    ASSUME Base, NEW p \in Process, SetStorage(p), Aside
    PROVE  Base'
<1> DEFINE f == frame[p]
           e == f.driver
<1>1. /\ At(p, "set") /\ issued' = issued /\ rows' = rows /\ mounted' = mounted
      /\ drivers' = [drivers EXCEPT ![e] =
                       [drivers[e] EXCEPT !.id = f.id, !.path = f.new.path,
                                 !.disabled = f.new.disabled, !.status = f.new.status]]
      /\ Goto(p, [f EXCEPT !.at = "init"])
  BY DEF SetStorage
<1>2. /\ Busy(p) /\ f.at = "set" /\ Shape(f) /\ f.id \in Id
      /\ mounted' \in [Path -> Driver \cup {NoDriver}]
      /\ drivers \in [Driver -> DriverRecord] /\ DriversNumbered
  BY <1>1, WorkerHas
<1>3. Issues(p) BY <1>1 DEF Issues
<1>4. rows' \in [Id -> RowRecord \cup {NoRow}] /\ RowsNumbered' BY <1>1, <1>3, SameRows
<1>5. e \in Driver /\ f.new \in RowRecord /\ f.id \in 1 .. issued
  BY <1>2, BusyHas DEF Shape, Base
<1>a. PICK r, o, new : /\ r = [drivers[e] EXCEPT !.id = f.id, !.path = f.new.path,
                                 !.disabled = f.new.disabled, !.status = f.new.status]
                       /\ o = drivers[e] /\ new = f.new
  OBVIOUS
<1>6. r \in DriverRecord /\ r.id = f.id /\ r.path = f.new.path
  <2>1. o \in DriverRecord /\ new \in RowRecord /\ f.id \in Id BY <1>2, <1>5, <1>a
  <2>2. r = [o EXCEPT !.id = f.id, !.path = new.path, !.disabled = new.disabled,
                      !.status = new.status]
    BY <1>a
  <2> QED BY <1>a, <2>1, <2>2 DEF DriverRecord, RowRecord
<1>7. drivers' = [drivers EXCEPT ![e] = r] BY <1>1, <1>a
<1>8. drivers' \in [Driver -> DriverRecord] BY <1>2, <1>6, <1>7
<1>9. \A d \in Driver : drivers'[d] = IF d = e THEN r ELSE drivers[d] BY <1>2, <1>7
<1>10. f.new.path \in Path BY <1>5 DEF RowRecord
<1>11. DriversNumbered' BY <1>1, <1>2, <1>5, <1>6, <1>9, <1>10 DEF DriversNumbered
<1>12. \E g : GoesOn(p, g) BY <1>1, <1>2, GoesOnTo DEF Started
<1> QED BY <1>1, <1>2, <1>4, <1>8, <1>11, <1>12, OnwardBase

\* Init has one of three outcomes.
LEMMA InitDriverBase ==
    ASSUME Base, NEW p \in Process, InitDriver(p), Aside
    PROVE  Base'
<1> DEFINE f == frame[p]
           e == f.driver
<1>1. At(p, "init") /\ issued' = issued /\ rows' = rows /\ mounted' = mounted
  BY DEF InitDriver
<1>2. /\ Busy(p) /\ f.at = "init" /\ f \in FrameRecord /\ Shape(f) /\ InPlace(f)
      /\ mounted' \in [Path -> Driver \cup {NoDriver}]
  BY <1>1, WorkerHas
<1>3. Issues(p) BY <1>1 DEF Issues
<1>4. rows' \in [Id -> RowRecord \cup {NoRow}] /\ RowsNumbered' BY <1>1, <1>3, SameRows
<1>5. e \in Driver BY <1>2 DEF Shape, Started
<1>6. ASSUME NEW st \in {"work", "failed"},
             Goto(p, [f EXCEPT !.at = "mount", !.new.status = st])
      PROVE  \E g : GoesOn(p, g)
  <2> DEFINE g == [f EXCEPT !.at = "mount", !.new.status = st]
  <2>1. f.new \in RowRecord BY <1>2 DEF Shape
  <2>2. [f.new EXCEPT !.status = st] \in RowRecord BY <2>1 DEF RowRecord, Status
  <2>3. /\ g \in FrameRecord /\ g.at = "mount" /\ g.driver = f.driver /\ g.fn = f.fn
        /\ g.id = f.id /\ g.old = f.old /\ g.new = [f.new EXCEPT !.status = st]
    BY <1>2, <2>2 DEF FrameRecord
  <2>4. g.new \in RowRecord /\ g.new.path = f.new.path /\ g.new.disabled = f.new.disabled
    BY <2>1, <2>2, <2>3 DEF RowRecord
  <2>5. frame' = [frame EXCEPT ![p] = g] BY <1>6 DEF Goto
  <2> HIDE DEF g
  <2>6. Shape(g) BY <1>2, <1>5, <2>3, <2>4 DEF Shape, Started
  <2>7. InPlace(g) BY <1>2, <2>3 DEF InPlace, Started
  <2>8. GoesOn(p, g) BY <2>3, <2>4, <2>5, <2>6, <2>7 DEF GoesOn
  <2> QED BY <2>8
<1>7. CASE /\ drivers' = [drivers EXCEPT ![e].live = TRUE]
           /\ Goto(p, [f EXCEPT !.at = "mount", !.new.status = "work"])
  <2>1. drivers' \in [Driver -> DriverRecord] /\ DriversNumbered'
    BY <1>1, <1>5, <1>7, DriverTyped
  <2>2. \E g : GoesOn(p, g) BY <1>6, <1>7
  <2> QED BY <1>1, <1>2, <1>4, <2>1, <2>2, OnwardBase
<1>8. CASE /\ drivers' = drivers
           /\ Goto(p, [f EXCEPT !.at = "mount", !.new.status = "failed"])
  <2>1. drivers' \in [Driver -> DriverRecord] /\ DriversNumbered' BY <1>3, <1>8, SameDrivers
  <2>2. \E g : GoesOn(p, g) BY <1>6, <1>8
  <2> QED BY <1>1, <1>2, <1>4, <2>1, <2>2, OnwardBase
<1>9. CASE /\ drivers' = [drivers EXCEPT ![e].status = "failed"]
           /\ Goto(p, [f EXCEPT !.at = "recover"])
  <2>1. drivers' \in [Driver -> DriverRecord] /\ DriversNumbered'
    BY <1>1, <1>5, <1>9, DriverTyped DEF Status
  <2>2. \E g : GoesOn(p, g) BY <1>2, <1>9, GoesOnTo DEF Started
  <2> QED BY <1>1, <1>2, <1>4, <2>1, <2>2, OnwardBase
<1> QED BY <1>7, <1>8, <1>9 DEF InitDriver

\* The driver is mounted where its row says.
LEMMA MountBase ==
    ASSUME Base, NEW p \in Process, Mount(p), Aside
    PROVE  Base'
<1> DEFINE f == frame[p]
           e == f.driver
<1>1. /\ At(p, "mount") /\ issued' = issued /\ rows' = rows
      /\ mounted' = [mounted EXCEPT ![drivers[e].path] = e]
      /\ drivers' = [drivers EXCEPT ![e].status = f.new.status]
      /\ Goto(p, [f EXCEPT !.at = "save"])
  BY DEF Mount
<1>2. /\ Busy(p) /\ f.at = "mount" /\ Shape(f)
      /\ mounted \in [Path -> Driver \cup {NoDriver}]
  BY <1>1, WorkerHas
<1>3. Issues(p) BY <1>1 DEF Issues
<1>4. rows' \in [Id -> RowRecord \cup {NoRow}] /\ RowsNumbered' BY <1>1, <1>3, SameRows
<1>5. e \in Driver /\ f.new.status \in Status BY <1>2 DEF Shape, Started, RowRecord
<1>6. drivers' \in [Driver -> DriverRecord] /\ DriversNumbered'
  BY <1>1, <1>5, DriverTyped
<1>7. mounted' \in [Path -> Driver \cup {NoDriver}] BY <1>1, <1>2, <1>5
<1>8. \E g : GoesOn(p, g) BY <1>1, <1>2, GoesOnTo DEF Started
<1> QED BY <1>1, <1>2, <1>4, <1>6, <1>7, <1>8, OnwardBase

\* initStorage ends with the row of its driver,
LEMMA SaveBase ==
    ASSUME Base, NEW p \in Process, Save(p), Aside
    PROVE  Base'
<1>1. /\ At(p, "save") /\ issued' = issued /\ drivers' = drivers /\ mounted' = mounted
      /\ SaveDriver(frame[p].driver) /\ Return(p)
  BY DEF Save, memory
<1>2. /\ Busy(p) /\ Shape(frame[p]) /\ frame[p].at = "save"
      /\ mounted' \in [Path -> Driver \cup {NoDriver}]
  BY <1>1, WorkerHas
<1>3. Issues(p) BY <1>1 DEF Issues
<1>4. drivers' \in [Driver -> DriverRecord] /\ DriversNumbered' BY <1>1, <1>3, SameDrivers
<1>5. frame[p].driver \in Driver BY <1>2 DEF Shape, Started
<1>6. rows' \in [Id -> RowRecord \cup {NoRow}] /\ RowsNumbered' BY <1>1, <1>5, Saving
<1> QED BY <1>1, <1>2, <1>4, <1>6, OnwardBase

\* which it saves first after a panic
LEMMA RecoverSaveBase ==
    ASSUME Base, NEW p \in Process, RecoverSave(p), Aside
    PROVE  Base'
<1>1. /\ At(p, "recover") /\ issued' = issued /\ drivers' = drivers /\ mounted' = mounted
      /\ SaveDriver(frame[p].driver) /\ Goto(p, [frame[p] EXCEPT !.at = "recovered"])
  BY DEF RecoverSave, memory
<1>2. /\ Busy(p) /\ Shape(frame[p]) /\ frame[p].at = "recover"
      /\ mounted' \in [Path -> Driver \cup {NoDriver}]
  BY <1>1, WorkerHas
<1>3. Issues(p) BY <1>1 DEF Issues
<1>4. drivers' \in [Driver -> DriverRecord] /\ DriversNumbered' BY <1>1, <1>3, SameDrivers
<1>5. frame[p].driver \in Driver BY <1>2 DEF Shape, Started
<1>6. rows' \in [Id -> RowRecord \cup {NoRow}] /\ RowsNumbered' BY <1>1, <1>5, Saving
<1>7. \E g : GoesOn(p, g) BY <1>1, <1>2, GoesOnTo DEF Started
<1> QED BY <1>1, <1>2, <1>4, <1>6, <1>7, OnwardBase

\* and mounts last.
LEMMA RecoverMountBase ==
    ASSUME Base, NEW p \in Process, RecoverMount(p), Aside
    PROVE  Base'
<1> DEFINE e == frame[p].driver
<1>1. /\ At(p, "recovered") /\ issued' = issued /\ drivers' = drivers /\ rows' = rows
      /\ mounted' = [mounted EXCEPT ![drivers[e].path] = e] /\ Return(p)
  BY DEF RecoverMount
<1>2. /\ Busy(p) /\ Shape(frame[p]) /\ frame[p].at = "recovered"
      /\ mounted \in [Path -> Driver \cup {NoDriver}]
  BY <1>1, WorkerHas
<1>3. Issues(p) BY <1>1 DEF Issues
<1>4. drivers' \in [Driver -> DriverRecord] /\ DriversNumbered' BY <1>1, <1>3, SameDrivers
<1>5. rows' \in [Id -> RowRecord \cup {NoRow}] /\ RowsNumbered' BY <1>1, <1>3, SameRows
<1>6. e \in Driver BY <1>2 DEF Shape, Started
<1>7. mounted' \in [Path -> Driver \cup {NoDriver}] BY <1>1, <1>2, <1>6
<1> QED BY <1>1, <1>2, <1>4, <1>5, <1>7, OnwardBase

\* Every step of an operation keeps types and numbers.
LEMMA ProcessBase ==
    ASSUME Base, NEW p \in Process, Step(p)
    PROVE  Base'
<1>1. /\ todo' = todo /\ reload' = reload
      /\ Observe(GivenUp(p) \cup MountsDisabled(p) \cup Foreign(p))
  BY DEF Step
<1>2. frame[p] # NoFrame
  BY DEF Step, Insert, Read, Write, Lookup, Unmount, Drop, Erase, SetStorage, InitDriver,
         Mount, Save, RecoverSave, RecoverMount, At
<1>3. Issues(p)
  BY DEF Step, Insert, Read, Write, Lookup, Unmount, Drop, Erase, SetStorage, InitDriver,
         Mount, Save, RecoverSave, RecoverMount, Issues
<1>4. spoiled' \subseteq Id BY <1>1, <1>2, <1>3, SpoiledTyped
<1>5. Aside BY <1>1, <1>4 DEF Aside
<1> QED BY <1>5, InsertBase, ReadBase, WriteBase, LookupBase, UnmountBase, DropBase, EraseBase,
           SetStorageBase, InitDriverBase, MountBase, SaveBase, RecoverSaveBase,
           RecoverMountBase DEF Step

\* A request leaves everything but its own frame.
LEMMA BeginBase ==
    ASSUME Base, NEW p \in Proc, NEW f \in FrameRecord, Begin(p, f),
           \/ /\ f.fn = "create" /\ f.at = "insert" /\ f.id = NoId
              /\ f.new \in RowRecord /\ f.old = NoRow
              /\ issued + Cardinality(Inserting) < MaxId
           \/ /\ f.fn \in {"enable", "disable", "delete", "update"} /\ f.at = "read"
              /\ f.id \in 1 .. issued
              /\ f.fn = "update" => f.new \in RowRecord,
           f.driver = NoDriver
    PROVE  Base'
<1>1. /\ frame[p] = NoFrame /\ frame' = [frame EXCEPT ![p] = f]
      /\ rows' = rows /\ issued' = issued /\ drivers' = drivers /\ mounted' = mounted
      /\ todo' = todo /\ reload' = reload /\ spoiled' = spoiled
  BY DEF Begin, Goto, memory
<1>2. Typed /\ FramesOk /\ Numbered /\ Listed BY DEF Base
<1>3. p \in Process /\ p # Loader BY BoundAssumption
<1>4. /\ frame' \in [Process -> FrameRecord \cup {NoFrame}]
      /\ frame'[p] = f /\ \A q \in Process \ {p} : frame'[q] = frame[q]
  BY <1>1, <1>2, <1>3 DEF Typed
<1>5. Typed' BY <1>1, <1>2, <1>4 DEF Typed
<1>6. FramesOk'
  <2> SUFFICES ASSUME NEW q \in Process, frame'[q] # NoFrame PROVE FrameOk(q)'
    BY DEF FramesOk
  <2>1. CASE q = p
    <3>1. InPlace(f) BY DEF InPlace
    <3> QED BY <1>1, <1>3, <1>4, <2>1, <3>1 DEF FrameOk
  <2>2. CASE q # p
    <3>1. frame'[q] = frame[q] BY <1>4, <2>2
    <3>2. FrameOk(q) BY <1>2, <3>1 DEF FramesOk
    <3> QED BY <1>1, <3>1, <3>2 DEF FrameOk
  <2> QED BY <2>1, <2>2
<1>7. issued' + Cardinality(Inserting)' <= MaxId
  <2>1. IsFiniteSet(Inserting) /\ Cardinality(Inserting) \in Nat
    BY BoundAssumption, FS_Subset, FS_CardinalityType DEF Inserting
  <2>2. issued + Cardinality(Inserting) <= MaxId BY <1>2 DEF Numbered
  <2>3. issued \in Nat /\ MaxId \in Nat BY <1>2, BoundAssumption DEF Typed
  <2>4. CASE f.at = "insert"
    <3>1. Inserting' = Inserting \cup {p} BY <1>1, <1>3, <1>4, <2>4 DEF Inserting, At
    <3>2. p \notin Inserting BY <1>1 DEF Inserting, At
    <3>3. Cardinality(Inserting \cup {p}) = Cardinality(Inserting) + 1
      BY <2>1, <3>2, FS_AddElement
    <3> QED BY <1>1, <2>1, <2>3, <2>4, <3>1, <3>3
  <2>5. CASE f.at # "insert"
    <3>1. Inserting' = Inserting BY <1>1, <1>4, <2>5 DEF Inserting, At
    <3> QED BY <1>1, <2>2, <3>1
  <2> QED BY <2>4, <2>5
<1>8. Numbered'
  BY <1>1, <1>2, <1>7 DEF Numbered, RowsNumbered, TodoNumbered, DriversNumbered
<1>9. Listed'
  <2>1. Loader \in Process OBVIOUS
  <2>2. frame'[Loader] = frame[Loader] BY <1>3, <1>4, <2>1
  <2> QED BY <1>1, <1>2, <2>2 DEF Listed
<1> QED BY <1>5, <1>6, <1>8, <1>9 DEF Base

\* So does a request that comes in,
LEMMA RequestBase ==
    ASSUME Base, NEW p \in Proc,
           \/ \E path \in Path, disabled \in BOOLEAN : CreateStorage(p, path, disabled)
           \/ \E i \in 1 .. issued :
                 \/ EnableStorage(p, i) \/ DisableStorage(p, i) \/ DeleteStorage(p, i)
                 \/ \E path \in Path, disabled \in BOOLEAN :
                       UpdateStorage(p, i, path, disabled)
    PROVE  Base'
<1>1. ASSUME NEW path \in Path, NEW disabled \in BOOLEAN, CreateStorage(p, path, disabled)
      PROVE  Base'
  <2> DEFINE f == Frame("create", "insert", NoId, Row(path, disabled, "new"))
  <2>1. /\ f \in FrameRecord /\ f.fn = "create" /\ f.at = "insert" /\ f.id = NoId
        /\ f.new \in RowRecord /\ f.old = NoRow /\ f.driver = NoDriver
    BY DEF Frame, Row, FrameRecord, RowRecord, Status
  <2>2. Begin(p, f) /\ issued + Cardinality(Inserting) < MaxId
    BY <1>1 DEF CreateStorage, Inserting
  <2> HIDE DEF f
  <2> QED BY <2>1, <2>2, BeginBase
<1>2. \A i \in 1 .. issued : i \in Id BY BoundAssumption DEF Base, Typed, Id
<1>3. ASSUME NEW i \in 1 .. issued, NEW fn \in {"enable", "disable", "delete", "update"},
             NEW new \in RowRecord \cup {NoRow}, fn = "update" => new \in RowRecord,
             Begin(p, Frame(fn, "read", i, new))
      PROVE  Base'
  <2> DEFINE f == Frame(fn, "read", i, new)
  <2>1. /\ f \in FrameRecord /\ f.fn = fn /\ f.at = "read" /\ f.id = i
        /\ f.new = new /\ f.old = NoRow /\ f.driver = NoDriver
    BY <1>2 DEF Frame, FrameRecord
  <2>2. Begin(p, f) BY <1>3
  <2> HIDE DEF f
  <2> QED BY <1>3, <2>1, <2>2, BeginBase
<1>4. ASSUME NEW i \in 1 .. issued, EnableStorage(p, i) PROVE Base'
  BY <1>3, <1>4 DEF EnableStorage
<1>5. ASSUME NEW i \in 1 .. issued, DisableStorage(p, i) PROVE Base'
  BY <1>3, <1>5 DEF DisableStorage
<1>6. ASSUME NEW i \in 1 .. issued, DeleteStorage(p, i) PROVE Base'
  BY <1>3, <1>6 DEF DeleteStorage
<1>7. ASSUME NEW i \in 1 .. issued, NEW path \in Path, NEW disabled \in BOOLEAN,
             UpdateStorage(p, i, path, disabled)
      PROVE  Base'
  <2>1. Row(path, disabled, "new") \in RowRecord BY DEF Row, RowRecord, Status
  <2> QED BY <1>3, <1>7, <2>1 DEF UpdateStorage
<1> QED BY <1>1, <1>4, <1>5, <1>6, <1>7

\* The rows a load starts from
LEMMA EnabledHas ==
    ASSUME Base
    PROVE  /\ Enabled \in [Id -> RowRecord \cup {NoRow}]
           /\ \A i \in Id : Enabled[i] # NoRow =>
                 rows[i] # NoRow /\ ~rows[i].disabled /\ Enabled[i] = rows[i]
BY DEF Base, Typed, Enabled

\* the request to load all storages,
LEMMA LoadAllBase ==
    ASSUME Base, LoadAllStorages
    PROVE  Base'
<1>1. /\ rows' = rows /\ issued' = issued /\ drivers' = drivers /\ mounted' = mounted
      /\ frame' = frame /\ todo' = Enabled /\ reload' = TRUE /\ frame[Loader] = NoFrame
      /\ Observe({})
  BY DEF LoadAllStorages, memory
<1>2. Typed /\ FramesOk /\ Numbered /\ Listed BY DEF Base
<1>3. Overlapping' \subseteq Id BY DEF Overlapping
<1>4. spoiled' \subseteq Id BY <1>1, <1>2, <1>3 DEF Observe, Typed
<1>5. Typed' BY <1>1, <1>2, <1>4, EnabledHas DEF Typed
<1>6. FramesOk' BY <1>1, <1>2 DEF FramesOk, FrameOk
<1>7. Inserting' = Inserting BY <1>1 DEF Inserting, At
<1>8. TodoNumbered' BY <1>1, <1>2, EnabledHas DEF TodoNumbered, Numbered, RowsNumbered
<1>9. Numbered'
  BY <1>1, <1>2, <1>7, <1>8 DEF Numbered, RowsNumbered, DriversNumbered
<1>10. Listed' BY <1>1, <1>2, EnabledHas DEF Listed, Numbered, RowsNumbered
<1> QED BY <1>5, <1>6, <1>9, <1>10 DEF Base

\* a restart,
LEMMA RestartBase ==
    ASSUME Base, Restart
    PROVE  Base'
<1>1. /\ rows' = rows /\ issued' = issued /\ drivers' = [d \in Driver |-> NewDriver]
      /\ mounted' = [path \in Path |-> NoDriver] /\ frame' = [p \in Process |-> NoFrame]
      /\ todo' = Enabled /\ reload' = FALSE /\ spoiled' = {}
  BY DEF Restart
<1>2. Typed /\ FramesOk /\ Numbered /\ Listed BY DEF Base
<1>3. NewDriver \in DriverRecord /\ NewDriver.id = NoId
  BY DEF NewDriver, DriverRecord, Status
<1>4. Typed' BY <1>1, <1>2, <1>3, EnabledHas DEF Typed
<1>5. FramesOk' BY <1>1 DEF FramesOk
<1>6. Inserting' = {} BY <1>1 DEF Inserting, At
<1>7. Cardinality(Inserting') = 0 BY <1>6, FS_EmptySet
<1>8. issued' + Cardinality(Inserting)' <= MaxId
  <2>1. issued \in Nat /\ issued <= MaxId /\ MaxId \in Nat
    BY <1>2, BoundAssumption DEF Typed
  <2> QED BY <1>1, <1>7, <2>1
<1>9. TodoNumbered' BY <1>1, <1>2, EnabledHas DEF TodoNumbered, Numbered, RowsNumbered
<1>10. Numbered'
  BY <1>1, <1>2, <1>3, <1>8, <1>9 DEF Numbered, RowsNumbered, DriversNumbered
<1>11. frame'[Loader] = NoFrame BY <1>1
<1>12. Listed' BY <1>1, <1>2, <1>11, EnabledHas DEF Listed, Numbered, RowsNumbered
<1> QED BY <1>4, <1>5, <1>10, <1>12 DEF Base

\* What the loader's next row gives
LEMMA NextLoadGives ==
    ASSUME Base, NextLoad
    PROVE  /\ rows' = rows /\ issued' = issued /\ drivers' = drivers /\ mounted' = mounted
           /\ reload' = reload /\ Observe({}) /\ frame[Loader] = NoFrame
           /\ \E i \in Id, g \in FrameRecord :
                 /\ todo[i] # NoRow /\ todo' = [todo EXCEPT ![i] = NoRow]
                 /\ frame' = [frame EXCEPT ![Loader] = g]
                 /\ g.fn = "load" /\ g.id = i /\ g.old = todo[i] /\ g.new = todo[i]
                 /\ IF reload THEN g.at = "lookup" /\ g.driver = NoDriver
                    ELSE g.at = "set" /\ g.driver \in Unreferenced
<1>1. /\ rows' = rows /\ issued' = issued /\ drivers' = drivers /\ mounted' = mounted
      /\ reload' = reload /\ Observe({}) /\ frame[Loader] = NoFrame
  BY DEF NextLoad, memory
<1>2. PICK i \in Id :
         /\ todo[i] # NoRow /\ todo' = [todo EXCEPT ![i] = NoRow]
         /\ IF reload
            THEN Goto(Loader, [Frame("load", "lookup", i, todo[i]) EXCEPT !.old = todo[i]])
            ELSE Load(Loader, [Frame("load", "lookup", i, todo[i]) EXCEPT !.old = todo[i]])
  BY DEF NextLoad
<1> DEFINE f == [Frame("load", "lookup", i, todo[i]) EXCEPT !.old = todo[i]]
<1>3. todo[i] \in RowRecord BY <1>2 DEF Base, Typed
<1>4. /\ f \in FrameRecord /\ f.fn = "load" /\ f.at = "lookup" /\ f.id = i /\ f.old = todo[i]
      /\ f.new = todo[i] /\ f.driver = NoDriver
  BY <1>3 DEF Frame, FrameRecord
<1>5. CASE reload
  <2>1. frame' = [frame EXCEPT ![Loader] = f] BY <1>2, <1>5 DEF Goto
  <2> HIDE DEF f
  <2> QED BY <1>1, <1>2, <1>4, <1>5, <2>1
<1>6. CASE ~reload
  <2>1. Load(Loader, f) BY <1>2, <1>6
  <2> HIDE DEF f
  <2>2. PICK d \in Unreferenced :
           frame' = [frame EXCEPT ![Loader] = [f EXCEPT !.driver = d, !.at = "set"]]
    BY <2>1 DEF Load, Goto
  <2> DEFINE g == [f EXCEPT !.driver = d, !.at = "set"]
  <2>3. d \in Driver BY DEF Unreferenced
  <2>4. /\ g \in FrameRecord /\ g.fn = "load" /\ g.at = "set" /\ g.id = i /\ g.old = todo[i]
        /\ g.new = todo[i] /\ g.driver = d
    BY <1>4, <2>3 DEF FrameRecord
  <2>5. frame' = [frame EXCEPT ![Loader] = g] BY <2>2
  <2> HIDE DEF g
  <2> QED BY <1>1, <1>2, <1>6, <2>4, <2>5
<1> QED BY <1>5, <1>6

\* the loader that turns to its next row,
LEMMA NextLoadBase ==
    ASSUME Base, NextLoad
    PROVE  Base'
<1>1. /\ rows' = rows /\ issued' = issued /\ drivers' = drivers /\ mounted' = mounted
      /\ reload' = reload /\ Observe({}) /\ frame[Loader] = NoFrame
  BY NextLoadGives
<1>2. PICK i \in Id, g \in FrameRecord :
         /\ todo[i] # NoRow /\ todo' = [todo EXCEPT ![i] = NoRow]
         /\ frame' = [frame EXCEPT ![Loader] = g]
         /\ g.fn = "load" /\ g.id = i /\ g.old = todo[i] /\ g.new = todo[i]
         /\ IF reload THEN g.at = "lookup" /\ g.driver = NoDriver
            ELSE g.at = "set" /\ g.driver \in Unreferenced
  BY NextLoadGives
<1>3. Typed /\ FramesOk /\ Numbered /\ Listed BY DEF Base
<1>4. Loader \in Process OBVIOUS
<1>5. /\ frame' \in [Process -> FrameRecord \cup {NoFrame}]
      /\ frame'[Loader] = g /\ \A q \in Process \ {Loader} : frame'[q] = frame[q]
  BY <1>2, <1>3, <1>4 DEF Typed
<1>6. /\ todo' \in [Id -> RowRecord \cup {NoRow}]
      /\ todo'[i] = NoRow /\ \A j \in Id \ {i} : todo'[j] = todo[j]
  BY <1>2, <1>3 DEF Typed
<1>7. Overlapping' \subseteq Id BY DEF Overlapping
<1>8. spoiled' \subseteq Id BY <1>1, <1>3, <1>7 DEF Observe, Typed
<1>9. Typed' BY <1>1, <1>3, <1>5, <1>6, <1>8 DEF Typed
<1>10. FramesOk'
  <2> SUFFICES ASSUME NEW q \in Process, frame'[q] # NoFrame PROVE FrameOk(q)'
    BY DEF FramesOk
  <2>1. CASE q = Loader
    <3>1. todo[i] \in RowRecord /\ ~todo[i].disabled /\ i <= issued /\ issued \in Nat
          /\ i \in 1 .. issued
      BY <1>2, <1>3, BoundAssumption DEF Typed, Numbered, TodoNumbered, Id
    <3>2. g.at \in {"lookup", "set"} BY <1>2
    <3>3. g.at = "set" => g.driver \in Driver BY <1>2 DEF Unreferenced
    <3>4. g.at = "lookup" => g.driver = NoDriver BY <1>2
    <3>5. Shape(g) BY <1>2, <3>1, <3>2, <3>3, <3>4 DEF Shape, Started
    <3>6. InPlace(g) BY <1>2, <3>2 DEF InPlace
    <3> QED BY <1>1, <1>2, <1>5, <2>1, <3>1, <3>2, <3>5, <3>6 DEF FrameOk
  <2>2. CASE q # Loader
    <3>1. frame'[q] = frame[q] BY <1>5, <2>2
    <3>2. FrameOk(q) BY <1>3, <3>1 DEF FramesOk
    <3> QED BY <1>1, <3>1, <3>2 DEF FrameOk
  <2> QED BY <2>1, <2>2
<1>11. Inserting' = Inserting
  <2>1. \A q \in Proc : q # Loader BY BoundAssumption
  <2> QED BY <1>5, <2>1 DEF Inserting, At
<1>12. TodoNumbered' BY <1>1, <1>3, <1>6 DEF TodoNumbered, Numbered
<1>13. Numbered'
  BY <1>1, <1>3, <1>11, <1>12 DEF Numbered, RowsNumbered, DriversNumbered
<1>14. Listed' BY <1>2, <1>3, <1>5, <1>6 DEF Listed
<1> QED BY <1>9, <1>10, <1>13, <1>14 DEF Base

\* and a driver that saves its row.
LEMMA DriverSavesBase ==
    ASSUME Base, NEW d \in Driver, DriverSaves(d)
    PROVE  Base'
<1>1. /\ issued' = issued /\ drivers' = drivers /\ mounted' = mounted /\ frame' = frame
      /\ todo' = todo /\ reload' = reload /\ SaveDriver(d) /\ drivers[d].id # NoId
  BY DEF DriverSaves, memory
<1>2. Typed /\ FramesOk /\ Numbered /\ Listed BY DEF Base
<1>3. rows' \in [Id -> RowRecord \cup {NoRow}] /\ RowsNumbered' BY <1>1, Saving
<1>4. drivers[d].id \in Id
  BY <1>1, <1>2, BoundAssumption DEF Typed, Numbered, DriversNumbered, Id
<1>5. spoiled' \subseteq Id
  <2>1. Overlapping' \subseteq Id BY DEF Overlapping
  <2>2. spoiled \subseteq Id BY <1>2 DEF Typed
  <2> QED BY <1>4, <2>1, <2>2 DEF DriverSaves, Observe
<1>6. Typed' BY <1>1, <1>2, <1>3, <1>5 DEF Typed
<1>7. FramesOk' BY <1>1, <1>2 DEF FramesOk, FrameOk
<1>8. Inserting' = Inserting BY <1>1 DEF Inserting, At
<1>9. Numbered' BY <1>1, <1>2, <1>3, <1>8 DEF Numbered, TodoNumbered, DriversNumbered
<1>10. Listed' BY <1>1, <1>2 DEF Listed
<1> QED BY <1>6, <1>7, <1>9, <1>10 DEF Base

\* They hold at first.
LEMMA InitBase == Init => Base
<1> SUFFICES ASSUME Init PROVE Base OBVIOUS
<1>1. /\ rows = [i \in Id |-> NoRow] /\ todo = [i \in Id |-> NoRow] /\ issued = 0
      /\ drivers = [d \in Driver |-> NewDriver] /\ mounted = [path \in Path |-> NoDriver]
      /\ frame = [p \in Process |-> NoFrame] /\ reload = FALSE /\ spoiled = {}
  BY DEF Init
<1>2. NewDriver \in DriverRecord /\ NewDriver.id = NoId
  BY DEF NewDriver, DriverRecord, Status
<1>3. Typed
  <2>1. issued \in 0 .. MaxId BY <1>1, BoundAssumption
  <2> QED BY <1>1, <1>2, <2>1 DEF Typed
<1>4. FramesOk BY <1>1 DEF FramesOk
<1>5. Inserting = {} BY <1>1 DEF Inserting, At
<1>6. Cardinality(Inserting) = 0 BY <1>5, FS_EmptySet
<1>7. Numbered
  BY <1>1, <1>2, <1>6, BoundAssumption DEF Numbered, RowsNumbered, TodoNumbered, DriversNumbered
<1>8. Listed BY <1>1 DEF Listed
<1> QED BY <1>3, <1>4, <1>7, <1>8 DEF Base

\* No step breaks them.
LEMMA NextBase == Base /\ [Next]_vars => Base'
<1> SUFFICES ASSUME Base, [Next]_vars PROVE Base' OBVIOUS
<1>1. CASE UNCHANGED vars
  <2>1. /\ rows' = rows /\ issued' = issued /\ drivers' = drivers /\ mounted' = mounted
        /\ frame' = frame /\ todo' = todo /\ reload' = reload /\ spoiled' = spoiled
    BY <1>1 DEF vars
  <2> QED BY <2>1 DEF Base, Typed, FramesOk, FrameOk, Numbered, RowsNumbered, TodoNumbered,
             DriversNumbered, Inserting, At, Listed
<1>2. ASSUME NEW p \in Proc,
             \/ \E path \in Path, disabled \in BOOLEAN : CreateStorage(p, path, disabled)
             \/ \E i \in 1 .. issued :
                   \/ EnableStorage(p, i) \/ DisableStorage(p, i) \/ DeleteStorage(p, i)
                   \/ \E path \in Path, disabled \in BOOLEAN :
                         UpdateStorage(p, i, path, disabled)
      PROVE  Base'
  BY <1>2, RequestBase
<1>3. ASSUME NEW d \in Driver, DriverSaves(d) PROVE Base' BY <1>3, DriverSavesBase
<1>4. ASSUME NEW p \in Process, Step(p) PROVE Base' BY <1>4, ProcessBase
<1> QED BY <1>1, <1>2, <1>3, <1>4, LoadAllBase, RestartBase, NextLoadBase DEF Next

\* The types of TypeOK are those of the invariant: what an operation that drops,
\* starts, mounts or saves a driver has in hand is one.
LEMMA BaseTypeOK == Base => TypeOK
<1> SUFFICES ASSUME Base PROVE TypeOK OBVIOUS
<1>1. Typed BY DEF Base
<1>2. ASSUME NEW p \in Process, frame[p] # NoFrame
      PROVE  frame[p].driver \in
                IF frame[p].at \in {"insert", "read", "write", "lookup", "unmount", "erase"}
                THEN Driver \cup {NoDriver} ELSE Driver
  <2>1. frame[p] \in FrameRecord
        /\ (frame[p].at \notin {"insert", "read"} => Shape(frame[p]))
    BY <1>2, BaseHas
  <2> QED BY <2>1 DEF FrameRecord, Shape, Started
<1> QED BY <1>1, <1>2 DEF Typed, TypeOK

\* Type correctness, for any number of administrators, storages and requests.
THEOREM TypeCorrect == Spec => []TypeOK
<1>1. Spec => []Base BY InitBase, NextBase, PTL DEF Spec
<1> QED BY <1>1, BaseTypeOK, PTL

-----------------------------------------------------------------------------
(* Where a driver may be mounted *)

\* A driver of a storage in hand is mounted at the paths of its process.
LEMMA MountedByFrame ==
    ASSUME Base, NEW p \in Process, Busy(p), Stage(p), NEW e \in Driver,
           drivers[e].id = frame[p].id, NEW path \in Path, mounted[path] = e
    PROVE  \/ path = frame[p].new.path
           \/ frame[p].old # NoRow /\ path = frame[p].old.path
<1> DEFINE f == frame[p]
<1>a. f \in FrameRecord /\ Shape(f) /\ InPlace(f) /\ f.at \notin {"insert", "read"}
  BY BusyHas DEF Base
<1>0. f.fn \in {"create", "enable", "disable", "update", "delete", "load"}
  BY <1>a DEF FrameRecord
<1>1. f.fn # "create" => f.old # NoRow BY <1>a DEF Shape
<1>2. ASSUME NEW S, Down(f.id, S) PROVE path \in S
  <2>1. e # NoDriver OBVIOUS
  <2> QED BY <1>2, <2>1 DEF Down, DownBut, MountedIn
<1>3. ASSUME NEW S, NEW c, Alone(f.id, c, S) PROVE path \in S
  BY <1>3 DEF Alone, DownBut, MountedIn
<1>4. ASSUME Before(p), f.old # NoRow PROVE path = f.old.path
  <2>1. rows[f.id] = f.old /\ Clean(f.id) BY <1>4 DEF Before
  <2>2. CASE Wanted(f.id)
    <3>1. Alone(f.id, mounted[rows[f.id].path], {rows[f.id].path})
      BY <2>1, <2>2 DEF Clean, Serves
    <3> QED BY <1>3, <2>1, <3>1
  <2>3. CASE ~Wanted(f.id)
    <3>1. Down(f.id, {}) BY <2>1, <2>3 DEF Clean
    <3> QED BY <1>2, <3>1
  <2> QED BY <2>2, <2>3
<1>5. CASE f.at \in Started \cup {"set"}
  <2>1. Starting(p) BY <1>5 DEF Stage
  <2>2. CASE f.at = "mount" BY <2>1, <2>2 DEF Starting, DownBut, MountedIn
  <2>3. CASE f.at = "save" BY <1>3, <2>1, <2>3 DEF Starting
  <2>4. CASE f.at \in {"set", "init", "recover", "recovered"} BY <1>2, <2>1, <2>4 DEF Starting
  <2> QED BY <1>5, <2>2, <2>3, <2>4 DEF Started
<1>6. CASE f.fn = "update" /\ f.at \in {"lookup", "unmount", "drop"}
  <2>1. Moving(p) BY <1>6 DEF Stage
  <2>2. CASE f.at = "lookup" BY <1>1, <1>2, <1>3, <1>6, <2>1, <2>2 DEF Moving
  <2>3. CASE f.at = "unmount" BY <1>1, <1>2, <1>3, <1>6, <2>1, <2>3 DEF Moving
  <2>4. CASE f.at = "drop" BY <1>3, <2>1, <2>4 DEF Moving
  <2> QED BY <1>6, <2>2, <2>3, <2>4
<1>7. CASE (f.fn # "update" /\ f.at \in {"lookup", "drop"}) \/ (f.fn # "disable" /\ f.at = "write")
  <2>1. Before(p) BY <1>7 DEF Stage
  <2>2. f.fn # "create" BY <1>a, <1>7 DEF InPlace, Started
  <2> QED BY <1>1, <1>4, <2>1, <2>2
<1>8. CASE (f.fn = "disable" /\ f.at = "write") \/ (f.fn # "update" /\ f.at = "unmount")
  <2>1. Down(f.id, {f.old.path}) BY <1>8 DEF Stage
  <2>2. f.fn # "create" BY <1>a, <1>8 DEF InPlace, Started
  <2> QED BY <1>1, <1>2, <2>1, <2>2
<1>9. CASE f.at = "erase" BY <1>2, <1>9 DEF Stage
<1>10. f.at \in Started \cup {"set", "lookup", "drop", "write", "unmount", "erase"}
  BY <1>0, <1>a DEF InPlace, Started
<1> QED BY <1>5, <1>6, <1>7, <1>8, <1>9, <1>10

\* A driver of a storage that is not spoiled is mounted at the storage's path, or
\* at one of the process at work on it.
LEMMA MountedWhere ==
    ASSUME IInv, NEW e \in Driver, drivers[e].id \in Id \ spoiled,
           NEW path \in Path, mounted[path] = e
    PROVE  \/ /\ rows[drivers[e].id] # NoRow
              /\ rows[drivers[e].id].path = path
           \/ \E p \in Process : /\ Busy(p) /\ frame[p].id = drivers[e].id
                                 /\ \/ path = frame[p].new.path
                                    \/ frame[p].old # NoRow /\ path = frame[p].old.path
<1> DEFINE i == drivers[e].id
<1>1. ASSUME Clean(i) PROVE rows[i] # NoRow /\ rows[i].path = path
  <2>1. ~Down(i, {})
    BY DEF Down, DownBut, MountedIn
  <2>2. Wanted(i) /\ Alone(i, mounted[rows[i].path], {rows[i].path})
    BY <1>1, <2>1 DEF Clean, Serves
  <2> QED BY <2>2 DEF Alone, DownBut, MountedIn, Wanted
<1>2. CASE \A p \in Process : i \notin AtWork(p)
  <2>1. Clean(i) BY <1>2 DEF IInv, Stages
  <2> QED BY <1>1, <2>1
<1>3. CASE \E p \in Process : i \in AtWork(p)
  <2>1. PICK p \in Process : i \in AtWork(p) BY <1>3
  <2>2. CASE todo[i] # NoRow
    <3>1. Clean(i) \/ Down(i, {}) BY <2>2 DEF IInv, Stages
    <3>2. ~Down(i, {}) BY DEF Down, DownBut, MountedIn
    <3> QED BY <1>1, <3>1, <3>2
  <2>3. CASE todo[i] = NoRow
    <3>1. Busy(p) /\ frame[p].id = i BY <2>1, <2>3 DEF AtWork
    <3>2. Stage(p) BY <3>1 DEF IInv, Stages
    <3> QED BY <3>1, <3>2, MountedByFrame DEF IInv
  <2> QED BY <2>2, <2>3
<1> QED BY <1>2, <1>3

-----------------------------------------------------------------------------
(* What a step of process p leaves alone.  Local and Effect say how far a step   *)
(* reaches; then the storages it is not at work on stay as they are.             *)

\* Storage i is that of process p, before the step or after it.
Mine(p, i) ==
    \/ Busy(p) /\ frame[p].id = i
    \/ Busy(p)' /\ frame'[p].id = i

Local(p) ==
    /\ Base'
    /\ \A q \in Process \ {p} : frame'[q] = frame[q]
    /\ todo' = todo /\ reload' = reload
    /\ spoiled \subseteq spoiled' /\ Overlapping' \subseteq spoiled'
    /\ Busy(p) /\ Busy(p)' => frame'[p].id = frame[p].id

Effect(p) ==
    /\ \A d \in Driver : d # Held(p) => drivers'[d] = drivers[d]
    /\ Held(p) # NoDriver => drivers'[Held(p)].id =
          IF frame[p].at = "set" THEN frame[p].id ELSE drivers[Held(p)].id
    /\ Held(p) # NoDriver => drivers'[Held(p)].path =
          IF frame[p].at = "set" THEN frame[p].new.path ELSE drivers[Held(p)].path
    /\ \A path \in Path : mounted'[path] # mounted[path] =>
          Busy(p) /\ path \in Own(p) /\ mounted'[path] \in {NoDriver, Held(p)}
    /\ \A i \in Id \ spoiled' : rows'[i] # rows[i] => Mine(p, i)

\* Storage i is as it was, but for a driver h that is not its own.
Untouched(i, h) ==
    /\ rows'[i] = rows[i]
    /\ \A d \in Driver : d # h => /\ drivers'[d] = drivers[d]
                                  /\ \A path \in Path : mounted'[path] = d => mounted[path] = d
    /\ \A d \in Driver : d # h /\ drivers[d].id = i =>
          \A path \in Path : mounted[path] = d => mounted'[path] = d
    /\ h \in Driver => drivers'[h].id # i
    /\ h \in Driver /\ drivers[h].id = i => ~drivers[h].live /\ Unmounted(h)

\* A step of a process leaves every storage alone that it is not at work on.
LEMMA Bystander ==
    ASSUME IInv, NEW p \in Process, Local(p), Effect(p),
           NEW i \in Id \ spoiled', ~Mine(p, i)
    PROVE  Untouched(i, Held(p))
<1> DEFINE h == Held(p)
<1>1. Base /\ Apart /\ Holds /\ Typed /\ FramesOk BY DEF IInv, Base
<1>2. i \in Id \ spoiled /\ i # NoId BY BoundAssumption DEF Local, Id
<1>3. rows'[i] = rows[i] BY DEF Effect
<1>4. h # NoDriver => Busy(p) /\ h = frame[p].driver /\ h \in Driver /\ frame[p].id # i
  BY <1>1, HolderBusy DEF Mine
<1>5. h \in Driver => h # NoDriver BY SentinelAssumption
<1>6. h \in Driver /\ drivers[h].id = i => frame[p].at = "set" /\ ~drivers[h].live /\ Unmounted(h)
  BY <1>1, <1>2, <1>4, <1>5 DEF Holds
<1>7. h \in Driver => drivers'[h].id # i BY <1>4, <1>5, <1>6 DEF Effect
<1>8. ASSUME NEW d \in Driver, d # h, NEW path \in Path, mounted'[path] = d
      PROVE  mounted[path] = d
  BY <1>8, SentinelAssumption DEF Effect
<1>9. ASSUME NEW d \in Driver, drivers[d].id = i, NEW path \in Path, mounted[path] = d,
             mounted'[path] # d
      PROVE  FALSE
  <2>1. Busy(p) /\ path \in Own(p) BY <1>9 DEF Effect
  <2>2. frame[p].id # i BY <2>1 DEF Mine
  <2>3. Separate BY NotOverlapping DEF IInv
  <2>4. CASE rows[i] # NoRow /\ rows[i].path = path BY <1>1, <1>2, <2>1, <2>2, <2>4 DEF Apart
  <2>5. ASSUME NEW q \in Process, Busy(q), frame[q].id = i,
               path = frame[q].new.path \/ (frame[q].old # NoRow /\ path = frame[q].old.path)
        PROVE  FALSE
    <3>1. i \in AtWork(q) /\ path \in PathsOf(q) BY <2>5, BusyWorks
    <3>2. path \in PathsOf(p) BY <2>1, BusyWorks
    <3>3. q # p BY <2>2, <2>5
    <3> QED BY <1>2, <2>3, <3>1, <3>2, <3>3 DEF Separate
  <2> QED BY <1>2, <1>9, <2>4, <2>5, MountedWhere
<1>10. \A d \in Driver : d # h => drivers'[d] = drivers[d] BY DEF Effect
<1> HIDE DEF h
<1>11. Untouched(i, h) BY <1>3, <1>6, <1>7, <1>8, <1>9, <1>10 DEF Untouched
<1> QED BY <1>11 DEF h

\* What is said of an untouched storage remains true.
LEMMA DownKept ==
    ASSUME NEW i, NEW h, Untouched(i, h), NEW c, NEW S, DownBut(i, c, S)
    PROVE  DownBut(i, c, S)'
<1> SUFFICES ASSUME NEW d \in Driver, d # c, drivers'[d].id = i
             PROVE  ~drivers'[d].live /\ MountedIn(d, S)'
  BY DEF DownBut
<1>1. d # h BY DEF Untouched
<1>2. drivers'[d] = drivers[d] BY <1>1 DEF Untouched
<1>3. ~drivers[d].live /\ MountedIn(d, S) BY <1>2 DEF DownBut
<1>4. \A path \in Path : mounted'[path] = d => mounted[path] = d BY <1>1 DEF Untouched
<1> QED BY <1>2, <1>3, <1>4 DEF MountedIn

\* So does what is said of the one driver that is left of it.
LEMMA AloneKept ==
    ASSUME NEW i, NEW h, Untouched(i, h), NEW c, c # h, NEW S, Alone(i, c, S)
    PROVE  Alone(i, c, S)' /\ drivers'[c] = drivers[c]
<1>1. c \in Driver /\ drivers[c].id = i /\ MountedIn(c, S) /\ DownBut(i, c, {}) BY DEF Alone
<1>2. DownBut(i, c, {})' BY <1>1, DownKept
<1>3. drivers'[c] = drivers[c] BY <1>1 DEF Untouched
<1>4. MountedIn(c, S)' BY <1>1 DEF Untouched, MountedIn
<1> QED BY <1>1, <1>2, <1>3, <1>4 DEF Alone

\* A mounted driver of an untouched storage stays mounted.
LEMMA MountKept ==
    ASSUME NEW i, NEW h, Untouched(i, h), NEW path \in Path, mounted[path] \in Driver,
           drivers[mounted[path]].id = i
    PROVE  mounted'[path] = mounted[path] /\ mounted[path] # h
<1>1. mounted[path] # h BY DEF Untouched, Unmounted
<1> QED BY <1>1 DEF Untouched

\* Memory and table keep agreeing on an untouched storage.
LEMMA CleanKept ==
    ASSUME Base, NEW i \in Id, NEW h, Untouched(i, h), Clean(i)
    PROVE  Clean(i)'
<1>1. rows'[i] = rows[i] BY DEF Untouched
<1>2. CASE ~Wanted(i)
  <2>1. Down(i, {}) BY <1>2 DEF Clean
  <2>2. Down(i, {})' BY <2>1, DownKept DEF Down
  <2>3. ~Wanted(i)' BY <1>1, <1>2 DEF Wanted
  <2> QED BY <2>2, <2>3 DEF Clean
<1>3. CASE Wanted(i)
  <2>1. PICK path, c : path = rows[i].path /\ c = mounted[path] OBVIOUS
  <2>2. Serves(i, c) BY <1>3, <2>1 DEF Clean
  <2>3. Alone(i, c, {path}) /\ RowOf(c) = rows[i] /\ (drivers[c].live <=> drivers[c].status = "work")
    BY <2>1, <2>2 DEF Serves
  <2>4. path \in Path BY <1>3, <2>1 DEF Wanted, Base, Typed, RowRecord
  <2>5. c \in Driver /\ drivers[c].id = i BY <2>3 DEF Alone
  <2>6. mounted'[path] = c /\ c # h BY <2>1, <2>4, <2>5, MountKept
  <2>7. Alone(i, c, {path})' /\ drivers'[c] = drivers[c] BY <2>3, <2>6, AloneKept
  <2>8. rows'[i].path = path /\ RowOf(c)' = rows'[i] BY <1>1, <2>1, <2>3, <2>7 DEF RowOf
  <2>9. Serves(i, c)' BY <2>3, <2>7, <2>8 DEF Serves
  <2>10. Serves(i, mounted[rows[i].path])'
    BY <2>6, <2>8, <2>9 DEF Serves, Alone, RowOf, MountedIn, DownBut
  <2>11. Wanted(i)' BY <1>1, <1>3 DEF Wanted
  <2> QED BY <2>10, <2>11 DEF Clean
<1> QED BY <1>2, <1>3

\* So does what is said of the stage of another process.
LEMMA StageKept ==
    ASSUME Base, NEW q \in Process, Busy(q), frame'[q] = frame[q], Stage(q),
           NEW h, frame[q].driver = NoDriver \/ frame[q].driver # h,
           Untouched(frame[q].id, h), h \in Driver \cup {NoDriver}
    PROVE  Stage(q)'
<1>1. PICK f, i, e : f = frame[q] /\ i = f.id /\ e = f.driver OBVIOUS
<1>2. frame'[q] = f BY <1>1
<1>3. /\ i \in Id /\ f.at \notin {"insert", "read"} /\ f \in FrameRecord
      /\ Shape(f) /\ InPlace(f)
  BY <1>1, BusyHas DEF Base
<1>4. Untouched(i, h) /\ rows'[i] = rows[i] BY <1>1 DEF Untouched
<1>5. e \in Driver => /\ drivers'[e] = drivers[e] /\ e # h
                      /\ \A S : MountedIn(e, S) => MountedIn(e, S)'
  BY <1>1, <1>4 DEF Untouched, MountedIn
<1>6. f.at \in Started \cup {"set", "drop"} => e \in Driver BY <1>1, <1>3 DEF Shape
<1>7. e \in Driver \cup {NoDriver} BY <1>1, <1>3 DEF FrameRecord
<1>8. \A S : Down(i, S) => Down(i, S)' BY <1>4, DownKept DEF Down
<1>9. Clean(i) => Clean(i)' BY <1>3, <1>4, CleanKept
<1>10. ASSUME f.at \in Started \cup {"set"} PROVE Starting(q)'
  <2>1. Starting(q) BY <1>1, <1>10 DEF Stage
  <2>2. e \in Driver /\ drivers'[e] = drivers[e] /\ e # h BY <1>5, <1>6, <1>10
  <2>3. Wanted(i)' /\ rows'[i].path = f.new.path /\ ~f.new.disabled
    BY <1>1, <1>4, <2>1 DEF Starting, Wanted
  <2>4. f.at = "set" => ~drivers'[e].live /\ MountedIn(e, {f.new.path})'
    BY <1>1, <1>5, <2>1, <2>2 DEF Starting
  <2>5. f.at \in Started => drivers'[e].path = f.new.path /\ ~drivers'[e].disabled
    BY <1>1, <2>1, <2>2 DEF Starting
  <2>6. f.at \in {"set", "init", "recover", "recovered"} => Down(i, {f.new.path})'
    BY <1>1, <1>8, <2>1 DEF Starting
  <2>7. f.at = "mount" => /\ DownBut(i, e, {f.new.path})'
                          /\ MountedIn(e, {f.new.path})'
                          /\ drivers'[e].live <=> f.new.status = "work"
    <3>1. f.at = "mount" => /\ DownBut(i, e, {f.new.path}) /\ MountedIn(e, {f.new.path})
                            /\ drivers[e].live <=> f.new.status = "work"
      BY <1>1, <2>1 DEF Starting
    <3>2. DownBut(i, e, {f.new.path}) => DownBut(i, e, {f.new.path})' BY <1>4, DownKept
    <3> QED BY <1>5, <2>2, <3>1, <3>2
  <2>8. f.at = "save" => /\ Alone(i, e, {f.new.path})'
                         /\ mounted'[f.new.path] = e
                         /\ drivers'[e].live <=> drivers'[e].status = "work"
    <3> SUFFICES ASSUME f.at = "save"
                 PROVE  /\ Alone(i, e, {f.new.path})'
                        /\ mounted'[f.new.path] = e
                        /\ drivers'[e].live <=> drivers'[e].status = "work"
      OBVIOUS
    <3>1. /\ Alone(i, e, {f.new.path}) /\ mounted[f.new.path] = e
          /\ drivers[e].live <=> drivers[e].status = "work"
      BY <1>1, <2>1 DEF Starting
    <3>2. Alone(i, e, {f.new.path})' BY <1>4, <2>2, <3>1, AloneKept
    <3>3. f.new.path \in Path BY <1>3 DEF Shape, RowRecord
    <3>4. drivers[e].id = i BY <3>1 DEF Alone
    <3>5. mounted'[f.new.path] = e BY <1>4, <2>2, <3>1, <3>3, <3>4 DEF Untouched
    <3> QED BY <2>2, <3>1, <3>2, <3>5
  <2>9. f.at \in {"recover", "recovered"} => drivers'[e].status = "failed"
    BY <1>1, <2>1, <2>2 DEF Starting
  <2>10. f.at = "recovered" => rows'[i] = RowOf(e)'
    <3>1. RowOf(e)' = RowOf(e) BY <2>2 DEF RowOf
    <3> QED BY <1>1, <1>4, <2>1, <3>1 DEF Starting
  <2> QED BY <1>1, <1>2, <2>3, <2>4, <2>5, <2>6, <2>7, <2>8, <2>9, <2>10 DEF Starting
<1>11. ASSUME f.fn = "update" /\ f.at \in {"lookup", "unmount", "drop"} PROVE Moving(q)'
  <2>1. Moving(q) BY <1>1, <1>11 DEF Stage
  <2>2. rows'[i] = f.new BY <1>1, <1>4, <2>1 DEF Moving
  <2>3. ASSUME NEW c, NEW S, Alone(i, c, S), c # h PROVE Alone(i, c, S)'
    BY <1>4, <2>3, AloneKept
  <2>4. CASE f.at = "lookup"
    <3>1. CASE f.old.disabled
      <4>1. Down(i, {})' BY <1>1, <1>8, <2>1, <2>4, <3>1 DEF Moving
      <4> QED BY <1>1, <1>2, <2>2, <2>4, <3>1, <4>1 DEF Moving
    <3>2. CASE ~f.old.disabled
      <4>1. PICK c : c = mounted[f.old.path] OBVIOUS
      <4>2. Alone(i, c, {f.old.path}) BY <1>1, <2>1, <2>4, <3>2, <4>1 DEF Moving
      <4>3. c \in Driver /\ drivers[c].id = i BY <4>2 DEF Alone
      <4>4. f.old.path \in Path BY <1>3, <1>11 DEF Shape, RowRecord
      <4>5. mounted'[f.old.path] = c /\ c # h BY <1>4, <4>1, <4>3, <4>4, MountKept
      <4>6. Alone(i, c, {f.old.path})' BY <2>3, <4>2, <4>5
      <4>7. Alone(i, mounted[f.old.path], {f.old.path})'
        BY <4>5, <4>6 DEF Alone, MountedIn, DownBut
      <4> QED BY <1>1, <1>2, <2>2, <2>4, <3>2, <4>7 DEF Moving
    <3> QED BY <3>1, <3>2
  <2>5. CASE f.at = "unmount"
    <3>1. CASE e = NoDriver
      <4>1. Down(i, {})' BY <1>1, <1>8, <2>1, <2>5, <3>1 DEF Moving
      <4> QED BY <1>1, <1>2, <2>2, <2>5, <3>1, <4>1 DEF Moving
    <3>2. CASE e # NoDriver
      <4>1. Alone(i, e, {f.old.path}) BY <1>1, <2>1, <2>5, <3>2 DEF Moving
      <4>2. Alone(i, e, {f.old.path})' BY <1>5, <1>7, <2>3, <3>2, <4>1
      <4> QED BY <1>1, <1>2, <2>2, <2>5, <3>2, <4>2 DEF Moving
    <3> QED BY <3>1, <3>2
  <2>6. CASE f.at = "drop"
    <3>1. Alone(i, e, {f.new.path}) BY <1>1, <2>1, <2>6 DEF Moving
    <3>2. Alone(i, e, {f.new.path})' BY <1>5, <1>6, <2>3, <2>6, <3>1
    <3> QED BY <1>1, <1>2, <2>2, <2>6, <3>2 DEF Moving
  <2> QED BY <1>11, <2>4, <2>5, <2>6
<1>12. Before(q) => Before(q)'
  <2>1. Before(q) => rows[i] = f.old /\ Clean(i) BY <1>1 DEF Before
  <2>2. rows'[i] = f.old /\ Clean(i)' => Before(q)'
    <3>1. frame'[q].id = i BY <1>1, <1>2
    <3> QED BY <1>1, <1>2, <3>1 DEF Before, Clean, Wanted, Down, DownBut, Serves, Alone,
                                    MountedIn, RowOf
  <2> QED BY <1>4, <1>9, <2>1, <2>2
<1>13. f.driver # NoDriver /\ f.at # "set" => drivers'[f.driver].id = f.id
  BY <1>1, <1>5, <1>7 DEF Stage
<1>14. f.fn # "update" /\ f.at = "drop" => mounted'[f.old.path] = f.driver
  <2> SUFFICES ASSUME f.fn # "update" /\ f.at = "drop" PROVE mounted'[f.old.path] = f.driver
    OBVIOUS
  <2>1. mounted[f.old.path] = e /\ e \in Driver /\ drivers[e].id = i
    BY <1>1, <1>6, <1>7 DEF Stage
  <2>2. f.old.path \in Path BY <1>3 DEF Shape, RowRecord, InPlace, Started, FrameRecord
  <2> QED BY <1>1, <1>4, <2>1, <2>2, MountKept
<1>15. f.fn = "disable" /\ f.at = "write" => rows'[f.id] = f.old /\ Down(f.id, {f.old.path})'
  BY <1>1, <1>4, <1>8 DEF Stage
<1>16. f.fn = "disable" /\ f.at = "unmount" => rows'[f.id] = f.new BY <1>1, <1>4 DEF Stage
<1>17. f.fn # "update" /\ f.at = "unmount" => Down(f.id, {f.old.path})'
  BY <1>1, <1>8 DEF Stage
<1>18. f.at = "erase" => Down(f.id, {})' BY <1>1, <1>8 DEF Stage
<1>19. (f.fn # "update" /\ f.at \in {"lookup", "drop"}) \/ (f.fn # "disable" /\ f.at = "write")
       => Before(q)'
  BY <1>1, <1>12 DEF Stage
<1> QED BY <1>1, <1>2, <1>10, <1>11, <1>13, <1>14, <1>15, <1>16, <1>17, <1>18, <1>19 DEF Stage

-----------------------------------------------------------------------------
(* What a step of process p owes: what it leaves of its own storage, and that it *)
(* takes no path and no driver of another one.                                   *)

\* The storage of the process is at its next stage, or clean when it returns.
OwnStage(p) ==
    \A i \in Id \ spoiled' : Mine(p, i) =>
        IF Busy(p)' THEN frame'[p].id = i /\ Stage(p)' ELSE Clean(i)'

\* The process takes no path from another storage.
OwnApart(p) ==
    \A i \in Id \ spoiled' :
        rows'[i] # NoRow /\ Busy(p)' /\ frame'[p].id # i => rows'[i].path \notin Own(p)'

\* The row of its storage keeps its path or gets the one the operation writes.
RowKept(p) ==
    \A i \in Id \ spoiled' : Mine(p, i) /\ rows'[i] # NoRow =>
        \/ rows[i] # NoRow /\ rows'[i].path = rows[i].path
        \/ Busy(p)' /\ frame'[p].id = i /\ rows'[i].path = frame'[p].new.path

\* The driver it has is its storage's, or garbage just taken.
OwnHolds(p) ==
    \A e \in Driver : Held(p)' = e /\ drivers'[e].id \notin spoiled' \cup {NoId} =>
        \/ frame'[p].id = drivers'[e].id
        \/ frame'[p].at = "set" /\ ~drivers'[e].live /\ Unmounted(e)'

\* A driver that it takes from another process costs both storages their claims.
OwnSole(p) ==
    \A q \in Process \ {p} :
        Held(p)' # NoDriver /\ Held(p)' = Held(q) =>
            frame'[p].id \in spoiled' /\ frame[q].id \in spoiled'

Owed(p) == OwnStage(p) /\ OwnApart(p) /\ RowKept(p) /\ OwnHolds(p) /\ OwnSole(p)

\* Whom the storages belong to after a step
LEMMA NobodyElse ==
    ASSUME IInv, NEW p \in Process, Local(p), NEW i \in Id \ spoiled', Mine(p, i)
    PROVE  /\ todo'[i] = NoRow
           /\ \A q \in Process \ {p} : ~(Busy(q)' /\ frame'[q].id = i) /\ i \notin AtWork(q)'
<1>1. (Overlapping \subseteq spoiled)' BY DEF Local
<1>2. Separate /\ Separate' BY <1>1, NotOverlapping, NotOverlappingNext DEF IInv
<1>3. i \in Id \ spoiled /\ Base /\ Base' BY DEF Local, IInv
<1>4. ASSUME NEW q \in Process \ {p} PROVE i \notin AtWork(q)'
  <2>1. AtWork(q)' = AtWork(q) BY DEF Local, AtWork, Busy, At
  <2>2. CASE Busy(p) /\ frame[p].id = i
    <3>1. i \in AtWork(p) BY <2>2, BusyWorks
    <3> QED BY <1>2, <1>3, <2>1, <3>1 DEF Separate
  <2>3. CASE Busy(p)' /\ frame'[p].id = i
    <3>1. i \in AtWork(p)' BY <2>3, BusyWorksNext
    <3> QED BY <1>2, <3>1 DEF Separate
  <2> QED BY <2>2, <2>3 DEF Mine
<1>5. ASSUME NEW q \in Process \ {p}, Busy(q)', frame'[q].id = i PROVE FALSE
  BY <1>4, <1>5, BusyWorksNext
<1>6. todo'[i] = NoRow
  <2>1. CASE p # Loader
    <3>1. Loader \in Process \ {p} BY <2>1
    <3> QED BY <1>4, <3>1, LoaderWorksNext
  <2>2. CASE p = Loader
    <3>1. (frame[Loader] # NoFrame /\ frame[Loader].id = i) => todo[i] = NoRow
      BY <1>3 DEF Base, Listed
    <3>2. (frame'[Loader] # NoFrame /\ frame'[Loader].id = i) => todo'[i] = NoRow
      BY <1>3 DEF Base, Listed
    <3> QED BY <2>2, <3>1, <3>2 DEF Mine, Local, Busy
  <2> QED BY <2>1, <2>2
<1> QED BY <1>4, <1>5, <1>6

\* Every storage is at the stage its process has reached: that of the process that
\* steps by what it owes, all others because they are untouched.
LEMMA KeepsStages ==
    ASSUME IInv, NEW p \in Process, Local(p), Effect(p), OwnStage(p)
    PROVE  Stages'
<1> SUFFICES ASSUME NEW i \in Id, i \notin spoiled'
             PROVE  /\ (\A q \in Process : i \notin AtWork(q)') => Clean(i)'
                    /\ todo'[i] # NoRow =>
                          /\ rows'[i] = todo'[i]
                          /\ IF reload' THEN Clean(i)' ELSE Down(i, {})'
                    /\ \A q \in Process : Busy(q)' /\ frame'[q].id = i => Stage(q)'
  BY DEF Stages
<1>1. i \in Id \ spoiled' /\ i \in Id \ spoiled BY DEF Local
<1>2. Base /\ Typed /\ FramesOk /\ Sole /\ Stages BY DEF IInv, Base
<1>3. CASE Mine(p, i)
  <2>1. /\ todo'[i] = NoRow
        /\ \A q \in Process \ {p} : ~(Busy(q)' /\ frame'[q].id = i)
    BY <1>1, <1>3, NobodyElse
  <2>2. CASE Busy(p)'
    <3>1. frame'[p].id = i /\ Stage(p)' BY <1>1, <1>3, <2>2 DEF OwnStage
    <3>2. i \in AtWork(p)' BY <2>2, <3>1, BusyWorksNext
    <3> QED BY <2>1, <3>1, <3>2
  <2>3. CASE ~Busy(p)'
    <3>1. Clean(i)' BY <1>1, <1>3, <2>3 DEF OwnStage
    <3> QED BY <2>1, <2>3, <3>1
  <2> QED BY <2>2, <2>3
<1>4. CASE ~Mine(p, i)
  <2>1. PICK h : h = Held(p) OBVIOUS
  <2>2. Untouched(i, h) BY <1>1, <1>4, <2>1, Bystander
  <2>3. h \in Driver \cup {NoDriver}
    <3>1. Held(p) # NoDriver => Held(p) \in Driver BY <1>2, HolderBusy
    <3> QED BY <2>1, <3>1
  <2>4. rows'[i] = rows[i] BY <2>2 DEF Untouched
  <2>5. Clean(i) => Clean(i)' BY <1>2, <2>2, CleanKept
  <2>6. Down(i, {}) => Down(i, {})' BY <2>2, DownKept DEF Down
  <2>7. ASSUME \A q \in Process : i \notin AtWork(q)' PROVE Clean(i)'
    <3>1. ASSUME NEW q \in Process PROVE i \notin AtWork(q)
      <4>1. CASE q # p
        <5>1. AtWork(q)' = AtWork(q) BY <4>1 DEF Local, AtWork, Busy, At
        <5> QED BY <2>7, <5>1
      <4>2. CASE q = p
        <5>1. ~(Busy(p) /\ frame[p].id = i) BY <1>4 DEF Mine
        <5>2. todo[i] # NoRow => p # Loader
          <6>1. todo'[i] # NoRow => i \in AtWork(Loader)' BY LoaderWorksNext
          <6> QED BY <2>7, <6>1 DEF Local
        <5> QED BY <4>2, <5>1, <5>2 DEF AtWork
      <4> QED BY <4>1, <4>2
    <3>2. Clean(i) BY <1>1, <1>2, <3>1 DEF Stages
    <3> QED BY <2>5, <3>2
  <2>8. ASSUME todo'[i] # NoRow
        PROVE  rows'[i] = todo'[i] /\ IF reload' THEN Clean(i)' ELSE Down(i, {})'
    <3>1. todo'[i] = todo[i] /\ reload' = reload BY DEF Local
    <3>2. rows[i] = todo[i] /\ IF reload THEN Clean(i) ELSE Down(i, {})
      BY <1>1, <1>2, <2>8, <3>1 DEF Stages
    <3> QED BY <2>4, <2>5, <2>6, <3>1, <3>2
  <2>9. ASSUME NEW q \in Process, Busy(q)', frame'[q].id = i PROVE Stage(q)'
    <3>1. q # p BY <1>4, <2>9 DEF Mine
    <3>2. frame'[q] = frame[q] BY <3>1 DEF Local
    <3>3. Busy(q) /\ frame[q].id = i BY <2>9, <3>2 DEF Busy, At
    <3>4. Stage(q) BY <1>1, <1>2, <3>3 DEF Stages
    <3>5. frame[q].driver = NoDriver \/ frame[q].driver # h
      <4>1. Held(q) = frame[q].driver BY <3>3 DEF Held, Busy
      <4> QED BY <1>1, <1>2, <2>1, <3>1, <3>3, <4>1 DEF Sole
    <3>6. Untouched(frame[q].id, h) BY <2>2, <3>3
    <3> QED BY <1>2, <2>3, <3>2, <3>3, <3>4, <3>5, <3>6, StageKept
  <2> QED BY <2>7, <2>8, <2>9
<1> QED BY <1>3, <1>4

\* A driver of a storage remains in its own storage's hands.
LEMMA KeepsHolds ==
    ASSUME IInv, NEW p \in Process, Local(p), Effect(p), OwnHolds(p)
    PROVE  Holds'
<1> SUFFICES ASSUME NEW q \in Process, NEW e \in Driver, Held(q)' = e,
                    drivers'[e].id \notin spoiled' \cup {NoId}
             PROVE  \/ frame'[q].id = drivers'[e].id
                    \/ frame'[q].at = "set" /\ ~drivers'[e].live /\ Unmounted(e)'
  BY DEF Holds
<1>1. Holds /\ Sole /\ Typed /\ FramesOk BY DEF IInv, Base
<1>2. CASE q = p BY <1>2 DEF OwnHolds
<1>3. CASE q # p
  <2>1. frame'[q] = frame[q] BY <1>3 DEF Local
  <2>2. Held(q) = e /\ e # NoDriver BY <2>1 DEF Held
  <2>3. CASE e # Held(p)
    <3>1. drivers'[e] = drivers[e] BY <2>3 DEF Effect
    <3>2. drivers[e].id \notin spoiled \cup {NoId} BY <3>1 DEF Local
    <3>3. \/ frame[q].id = drivers[e].id
          \/ frame[q].at = "set" /\ ~drivers[e].live /\ Unmounted(e)
      BY <1>1, <2>2, <3>2 DEF Holds
    <3>4. Unmounted(e) => Unmounted(e)' BY <2>2, <2>3 DEF Effect, Unmounted
    <3> QED BY <2>1, <3>1, <3>3, <3>4
  <2>4. CASE e = Held(p)
    <3>1. frame[p].id \in spoiled BY <1>1, <1>3, <2>2, <2>4 DEF Sole
    <3>2. frame[p].at # "set" /\ drivers'[e].id = drivers[e].id
      BY <2>2, <2>4, <3>1 DEF Effect, Local
    <3>3. drivers[e].id \notin spoiled \cup {NoId} BY <3>2 DEF Local
    <3> QED BY <1>1, <2>4, <3>1, <3>2, <3>3 DEF Holds
  <2> QED BY <2>3, <2>4
<1> QED BY <1>2, <1>3

\* No two processes come to have the same driver.
LEMMA KeepsSole ==
    ASSUME IInv, NEW p \in Process, Local(p), OwnSole(p)
    PROVE  Sole'
<1> SUFFICES ASSUME NEW q \in Process, NEW r \in Process, q # r,
                    Held(q)' # NoDriver, Held(q)' = Held(r)'
             PROVE  frame'[q].id \in spoiled'
  BY DEF Sole
<1>1. Sole /\ spoiled \subseteq spoiled' BY DEF IInv, Local
<1>2. \A x \in Process \ {p} : frame'[x] = frame[x] BY DEF Local
<1>3. \A x \in Process \ {p} : Held(x)' = Held(x) BY <1>2 DEF Held
<1>4. CASE q = p
  <2>1. Held(r)' = Held(r) BY <1>3, <1>4
  <2> QED BY <1>4, <2>1 DEF OwnSole
<1>5. CASE r = p
  <2>1. Held(q)' = Held(q) /\ frame'[q] = frame[q] BY <1>2, <1>3, <1>5
  <2> QED BY <1>5, <2>1 DEF OwnSole
<1>6. CASE q # p /\ r # p
  <2>1. Held(q)' = Held(q) /\ Held(r)' = Held(r) /\ frame'[q] = frame[q] BY <1>2, <1>3, <1>6
  <2> QED BY <1>1, <2>1 DEF Sole
<1> QED BY <1>4, <1>5, <1>6

\* The paths of another process, after the step
LEMMA OwnOfOthers ==
    ASSUME IInv, NEW p \in Process, Local(p), Effect(p), NEW q \in Process \ {p}, Busy(q)'
    PROVE  /\ Busy(q) /\ frame'[q] = frame[q]
           /\ \/ Own(q)' = Own(q)
              \/ /\ Busy(p) /\ frame[p].id \in spoiled
                 /\ Own(q)' \subseteq Own(q) \cup Own(p)
<1>1. Base /\ Typed /\ FramesOk /\ Sole BY DEF IInv, Base
<1>2. frame'[q] = frame[q] BY DEF Local
<1>3. Busy(q) BY <1>2 DEF Busy, At
<1>4. CASE frame[q].at \notin Started BY <1>2, <1>3, <1>4 DEF Own
<1>5. CASE frame[q].at \in Started
  <2>1. Shape(frame[q]) BY <1>1, <1>3, BusyHas
  <2>2. frame[q].driver \in Driver BY <1>5, <2>1 DEF Shape
  <2>3. Held(q) = frame[q].driver BY <1>3 DEF Held, Busy
  <2>4. CASE drivers'[frame[q].driver].path = drivers[frame[q].driver].path
    <3>1. Own(q)' = Own(q) BY <1>2, <2>4 DEF Own
    <3> QED BY <1>2, <1>3, <3>1
  <2>5. CASE drivers'[frame[q].driver].path # drivers[frame[q].driver].path
    <3>1. frame[q].driver = Held(p) /\ Held(p) # NoDriver BY <2>2, <2>5 DEF Effect
    <3>2. frame[p].id \in spoiled BY <1>1, <2>3, <3>1 DEF Sole
    <3>3. frame[p].at = "set" /\ drivers'[frame[q].driver].path = frame[p].new.path
      BY <2>5, <3>1 DEF Effect
    <3>4. Busy(p) BY <1>1, <3>1, HolderBusy
    <3>5. frame[p].new.path \in Own(p) BY <3>3 DEF Own
    <3>6. Own(q)' \subseteq Own(q) \cup {frame[p].new.path} BY <1>2, <3>3 DEF Own
    <3> QED BY <1>2, <1>3, <3>2, <3>4, <3>5, <3>6
  <2> QED BY <1>2, <1>3, <2>4, <2>5
<1> QED BY <1>2, <1>3, <1>4, <1>5

\* No storage gets a path of a process at work on another one.
LEMMA KeepsApart ==
    ASSUME IInv, NEW p \in Process, Local(p), Effect(p), OwnApart(p), RowKept(p)
    PROVE  Apart'
<1> SUFFICES ASSUME NEW i \in Id, i \notin spoiled', rows'[i] # NoRow
             PROVE  /\ \A q \in Process : Busy(q)' /\ frame'[q].id # i =>
                          rows'[i].path \notin Own(q)'
                    /\ \A j \in Id : j # i /\ todo'[j] # NoRow =>
                          rows'[i].path # todo'[j].path
  BY DEF Apart
<1>1. i \in Id \ spoiled /\ i \in Id \ spoiled' BY DEF Local
<1>2. Apart /\ Base /\ Base' BY DEF IInv, Local
<1>3. (Overlapping \subseteq spoiled)' BY DEF Local
<1>4. Separate' BY <1>3, NotOverlappingNext
<1>5. CASE rows[i] # NoRow /\ rows'[i].path = rows[i].path
  <2>1. ASSUME NEW q \in Process, Busy(q)', frame'[q].id # i PROVE rows'[i].path \notin Own(q)'
    <3>1. CASE q = p BY <1>1, <2>1, <3>1 DEF OwnApart
    <3>2. CASE q # p
      <4>1. /\ Busy(q) /\ frame'[q] = frame[q]
            /\ \/ Own(q)' = Own(q)
               \/ /\ Busy(p) /\ frame[p].id \in spoiled
                  /\ Own(q)' \subseteq Own(q) \cup Own(p)
        BY <2>1, <3>2, OwnOfOthers
      <4>2. rows[i].path \notin Own(q) BY <1>1, <1>2, <1>5, <2>1, <4>1 DEF Apart
      <4>3. Busy(p) /\ frame[p].id \in spoiled => rows[i].path \notin Own(p)
        BY <1>1, <1>2, <1>5 DEF Apart
      <4> QED BY <1>5, <4>1, <4>2, <4>3
    <3> QED BY <3>1, <3>2
  <2>2. ASSUME NEW j \in Id, j # i, todo'[j] # NoRow PROVE rows'[i].path # todo'[j].path
    BY <1>1, <1>2, <1>5, <2>2 DEF Apart, Local
  <2> QED BY <2>1, <2>2
<1>6. CASE Busy(p)' /\ frame'[p].id = i /\ rows'[i].path = frame'[p].new.path
  <2>1. i \in AtWork(p)' /\ rows'[i].path \in PathsOf(p)' BY <1>6, BusyWorksNext
  <2>2. ASSUME NEW q \in Process, Busy(q)', frame'[q].id # i PROVE rows'[i].path \notin Own(q)'
    <3>1. q # p BY <1>6, <2>2
    <3>2. Own(q)' \subseteq PathsOf(q)' BY <2>2, BusyWorksNext
    <3>3. PathsOf(p)' \cap PathsOf(q)' = {} BY <1>1, <1>4, <2>1, <3>1 DEF Separate
    <3> QED BY <2>1, <3>2, <3>3
  <2>3. ASSUME NEW j \in Id, j # i, todo'[j] # NoRow PROVE rows'[i].path # todo'[j].path
    <3>1. CASE p # Loader
      <4>1. todo'[j].path \in PathsOf(Loader)' BY <2>3, LoaderWorksNext
      <4>2. Loader \in Process /\ PathsOf(p)' \cap PathsOf(Loader)' = {}
        BY <1>1, <1>4, <2>1, <3>1 DEF Separate
      <4> QED BY <2>1, <4>1, <4>2
    <3>2. CASE p = Loader
      <4>1. frame'[Loader] # NoFrame BY <1>6, <3>2 DEF Busy
      <4>2. todo'[j].path # frame'[Loader].new.path BY <1>2, <2>3, <4>1 DEF Base, Listed
      <4> QED BY <1>6, <3>2, <4>2
    <3> QED BY <3>1, <3>2
  <2> QED BY <2>2, <2>3
<1>7. CASE Mine(p, i) BY <1>1, <1>5, <1>6, <1>7 DEF RowKept
<1>8. CASE ~Mine(p, i)
  <2>1. rows'[i] = rows[i] BY <1>1, <1>8 DEF Effect
  <2> QED BY <1>5, <2>1
<1> QED BY <1>7, <1>8

\* A step that reaches no further than it may, and does what it owes, keeps the invariant.
LEMMA KeepsIInv ==
    ASSUME IInv, NEW p \in Process, Local(p), Effect(p), Owed(p)
    PROVE  IInv'
<1>1. Stages' BY KeepsStages DEF Owed
<1>2. Holds' BY KeepsHolds DEF Owed
<1>3. Sole' BY KeepsSole DEF Owed
<1>4. Apart' BY KeepsApart DEF Owed
<1>5. Base' /\ (Overlapping \subseteq spoiled)' BY DEF Local
<1> QED BY <1>1, <1>2, <1>3, <1>4, <1>5 DEF IInv

-----------------------------------------------------------------------------
(* The steps of the operations, one by one *)

Watched(p) ==
    /\ todo' = todo /\ reload' = reload
    /\ Observe(GivenUp(p) \cup MountsDisabled(p) \cup Foreign(p))
    /\ Base'

\* What a step changes besides the frame of its process
LEMMA StepLocal ==
    ASSUME IInv, NEW p \in Process, Watched(p), NEW g, frame' = [frame EXCEPT ![p] = g],
           Busy(p) /\ g # NoFrame => g.id = frame[p].id
    PROVE  /\ Local(p) /\ frame'[p] = g
           /\ GivenUp(p) \cup Foreign(p) \subseteq spoiled'
           /\ MountsDisabled(p) \subseteq spoiled'
<1>1. frame'[p] = g /\ \A q \in Process \ {p} : frame'[q] = frame[q]
  BY DEF IInv, Base, Typed
<1>2. spoiled \subseteq spoiled' /\ Overlapping' \subseteq spoiled'
      /\ GivenUp(p) \cup Foreign(p) \subseteq spoiled' /\ MountsDisabled(p) \subseteq spoiled'
  BY DEF Watched, Observe
<1>3. Busy(p)' => g # NoFrame BY <1>1 DEF Busy
<1> QED BY <1>1, <1>2, <1>3 DEF Local, Watched

\* What holds of the storage of an operation at work
LEMMA StageHas ==
    ASSUME IInv, NEW p \in Process, Busy(p), spoiled \subseteq spoiled', frame[p].id \notin spoiled'
    PROVE  Stage(p) /\ frame[p].id \in Id \ spoiled
BY BusyHas DEF IInv, Base, Stages

\* A step that touches neither the table nor memory
LEMMA QuietEffect ==
    ASSUME NEW p \in Process, frame[p].at # "set",
           rows' = rows, drivers' = drivers, mounted' = mounted
    PROVE  Effect(p) /\ RowKept(p)
BY DEF Effect, RowKept

\* The storage of an operation that returns is clean.
Cleaned(p) == \A i \in Id \ spoiled' : Busy(p) /\ frame[p].id = i => Clean(i)'

\* An operation that returns owes a clean storage.
LEMMA ReturnOwes ==
    ASSUME NEW p \in Process, frame'[p] = NoFrame, RowKept(p), Cleaned(p)
    PROVE  Owed(p)
<1>1. ~Busy(p)' /\ Held(p)' = NoDriver BY DEF Busy, Held
<1>2. OwnStage(p) BY <1>1 DEF OwnStage, Cleaned, Mine
<1>3. OwnHolds(p) BY <1>1 DEF OwnHolds
<1>4. OwnSole(p) BY <1>1 DEF OwnSole
<1> QED BY <1>1, <1>2, <1>3, <1>4 DEF Owed, OwnApart

\* The storage of an operation that goes on is at its next stage.
Staged(p) == frame[p].id \notin spoiled' => Stage(p)'

\* An operation that keeps its driver and its paths owes the next stage.
LEMMA GoOnOwes ==
    ASSUME IInv, NEW p \in Process, Local(p), Effect(p), Busy(p), Busy(p)',
           Held(p)' \in {Held(p), NoDriver}, Own(p)' \subseteq Own(p), RowKept(p), Staged(p)
    PROVE  Owed(p)
<1>1. Apart /\ Holds /\ Sole /\ Typed BY DEF IInv, Base
<1>2. frame'[p].id = frame[p].id /\ spoiled \subseteq spoiled' BY DEF Local
<1>3. OwnStage(p) BY <1>2 DEF OwnStage, Mine, Staged
<1>4. OwnApart(p)
  <2> SUFFICES ASSUME NEW i \in Id \ spoiled', rows'[i] # NoRow, frame'[p].id # i
               PROVE  rows'[i].path \notin Own(p)
    BY DEF OwnApart
  <2>1. ~Mine(p, i) BY <1>2 DEF Mine
  <2>2. rows'[i] = rows[i] BY <2>1 DEF Effect
  <2> QED BY <1>1, <1>2, <2>2 DEF Apart
<1>5. OwnHolds(p)
  <2> SUFFICES ASSUME NEW e \in Driver, Held(p)' = e, drivers'[e].id \notin spoiled' \cup {NoId}
               PROVE  frame'[p].id = drivers'[e].id
    BY DEF OwnHolds
  <2>1. Held(p) = e /\ e # NoDriver OBVIOUS
  <2>2. CASE frame[p].at = "set" BY <1>2, <2>1, <2>2 DEF Effect
  <2>3. CASE frame[p].at # "set"
    <3>1. drivers'[e].id = drivers[e].id BY <2>1, <2>3 DEF Effect
    <3>2. drivers[e].id \notin spoiled \cup {NoId} BY <1>2, <3>1
    <3> QED BY <1>1, <1>2, <2>1, <2>3, <3>1, <3>2 DEF Holds
  <2> QED BY <2>2, <2>3
<1>6. OwnSole(p)
  <2> SUFFICES ASSUME NEW q \in Process \ {p}, Held(p)' # NoDriver, Held(p)' = Held(q)
               PROVE  frame'[p].id \in spoiled' /\ frame[q].id \in spoiled'
    BY DEF OwnSole
  <2>1. Held(p) = Held(q) /\ Held(p) # NoDriver OBVIOUS
  <2>2. frame[p].id \in spoiled /\ frame[q].id \in spoiled BY <1>1, <2>1 DEF Sole
  <2> QED BY <1>2, <2>2
<1> QED BY <1>3, <1>4, <1>5, <1>6 DEF Owed

\* A driver object just taken is nobody's.
LEMMA TakenOwes ==
    ASSUME IInv, NEW p \in Process, NEW d \in Unreferenced, Held(p)' = d,
           frame'[p].at = "set", drivers'[d] = drivers[d], mounted' = mounted
    PROVE  OwnHolds(p) /\ OwnSole(p)
<1>1. d \in Driver /\ ~drivers[d].live /\ Unmounted(d) BY DEF Unreferenced, Unmounted
<1>2. \A q \in Process : Held(q) # d BY <1>1 DEF Unreferenced, Held
<1>3. Unmounted(d)' BY <1>1 DEF Unmounted
<1>4. OwnHolds(p) BY <1>1, <1>3 DEF OwnHolds
<1>5. OwnSole(p) BY <1>2 DEF OwnSole
<1> QED BY <1>4, <1>5

\* A driver mounted at a path of an operation is of its storage, or of a spoiled one.
LEMMA MountedMine ==
    ASSUME IInv, NEW p \in Process, Busy(p), NEW path \in Path, path \in Own(p),
           NEW d \in Driver, mounted[path] = d, drivers[d].id \in Id \ spoiled
    PROVE  drivers[d].id = frame[p].id
<1> SUFFICES ASSUME drivers[d].id # frame[p].id PROVE FALSE OBVIOUS
<1>1. PICK k \in Id \ spoiled : k = drivers[d].id OBVIOUS
<1>2. Apart /\ Separate BY NotOverlapping DEF IInv
<1>3. CASE rows[k] # NoRow /\ rows[k].path = path BY <1>1, <1>2, <1>3 DEF Apart
<1>4. ASSUME NEW q \in Process, Busy(q), frame[q].id = k,
             path = frame[q].new.path \/ (frame[q].old # NoRow /\ path = frame[q].old.path)
      PROVE  FALSE
  <2>1. k \in AtWork(q) /\ path \in PathsOf(q) BY <1>4, BusyWorks
  <2>2. path \in PathsOf(p) BY BusyWorks
  <2>3. q # p BY <1>1, <1>4
  <2> QED BY <1>2, <2>1, <2>2, <2>3 DEF Separate
<1> QED BY <1>1, <1>3, <1>4, MountedWhere

\* CreateStorage: its storage is new and on a path that no other has.
LEMMA InsertKeeps ==
    ASSUME IInv, NEW p \in Process, Insert(p), Watched(p)
    PROVE  IInv'
<1> DEFINE f == frame[p]
<1>1. /\ frame[p] # NoFrame /\ f.at = "insert" /\ ~Busy(p)
      /\ drivers' = drivers /\ mounted' = mounted
  BY DEF Insert, At, memory, Busy
<1>2. Base BY DEF IInv
<1>3. CASE Return(p) /\ rows' = rows
  <2>1. frame' = [frame EXCEPT ![p] = NoFrame] BY <1>3 DEF Return, Goto
  <2>2. Local(p) /\ frame'[p] = NoFrame BY <1>1, <2>1, StepLocal
  <2>3. Effect(p) /\ RowKept(p) BY <1>1, <1>3, QuietEffect
  <2>4. Cleaned(p) BY <1>1 DEF Cleaned
  <2>5. Owed(p) BY <2>2, <2>3, <2>4, ReturnOwes
  <2> QED BY <2>2, <2>3, <2>5, KeepsIInv
<1>4. CASE /\ Unique(NoId, f.new.path)
           /\ issued' = issued + 1 /\ Saved(issued + 1, f.new)
           /\ Load(p, [f EXCEPT !.id = issued + 1])
  <2>1. PICK d \in Unreferenced : frame' = [frame EXCEPT ![p] =
           [[f EXCEPT !.id = issued + 1] EXCEPT !.driver = d, !.at = "set"]]
    <3>1. PICK h : h = [f EXCEPT !.id = issued + 1] OBVIOUS
    <3>2. Load(p, h) BY <1>4, <3>1
    <3>3. \E d \in Unreferenced :
             frame' = [frame EXCEPT ![p] = [h EXCEPT !.driver = d, !.at = "set"]]
      BY <3>2, LoadTakes
    <3> QED BY <3>1, <3>3
  <2>2. PICK g, i : /\ g = [[f EXCEPT !.id = issued + 1] EXCEPT !.driver = d, !.at = "set"]
                    /\ i = issued + 1
    OBVIOUS
  <2>3. /\ f \in FrameRecord /\ FrameOk(p) /\ issued \in Nat
        /\ rows \in [Id -> RowRecord \cup {NoRow}] /\ DriversNumbered
    BY <1>1, <1>2, BaseHas DEF Base, Numbered
  <2>4. f.new \in RowRecord /\ f.fn = "create" /\ f.old = NoRow /\ f.driver = NoDriver
    BY <1>1, <2>3 DEF FrameOk, InPlace, Started, FrameRecord
  <2>5. /\ g.fn = "create" /\ g.at = "set" /\ g.id = i /\ g.new = f.new /\ g.old = NoRow
        /\ g.driver = d
    BY <2>2, <2>3, <2>4 DEF FrameRecord
  <2>6. frame' = [frame EXCEPT ![p] = g] BY <2>1, <2>2
  <2>7. /\ Local(p) /\ frame'[p] = g
        /\ f.new.disabled => i \in spoiled'
    <3>1. Local(p) /\ frame'[p] = g /\ MountsDisabled(p) \subseteq spoiled'
      BY <1>1, <2>6, StepLocal
    <3>2. f.new.disabled => MountsDisabled(p) = {i}
      BY <1>4, <2>2, <2>3 DEF MountsDisabled
    <3> QED BY <3>1, <3>2
  <2>8. g # NoFrame /\ Busy(p)'
    <3>1. frame'[p] \in FrameRecord \cup {NoFrame} BY DEF Watched, Base, Typed
    <3>2. g \in FrameRecord
      <4>1. i \in Id
        <5>1. issued' \in 0 .. MaxId BY DEF Watched, Base, Typed
        <5> QED BY <1>4, <2>2, <2>3, <5>1, BoundAssumption DEF Id
      <4>2. d \in Driver BY DEF Unreferenced
      <4> QED BY <2>2, <2>3, <4>1, <4>2 DEF FrameRecord
    <3>3. g # NoFrame BY <3>2
    <3> QED BY <2>5, <2>7, <3>3 DEF Busy, At
  <2>9. rows' = [rows EXCEPT ![i] = f.new] BY <1>4, <2>2 DEF Saved
  <2>10. \A j \in Id : rows'[j] = IF j = i THEN f.new ELSE rows[j] BY <2>3, <2>9
  <2>11. Effect(p)
    <3>1. Held(p) = NoDriver BY <1>1, <2>4 DEF Held
    <3>2. Mine(p, i) BY <2>5, <2>7, <2>8 DEF Mine
    <3> QED BY <1>1, <2>10, <3>1, <3>2 DEF Effect
  <2>12. RowKept(p)
    <3> SUFFICES ASSUME NEW j \in Id \ spoiled', Mine(p, j)
                 PROVE  Busy(p)' /\ frame'[p].id = j /\ rows'[j].path = frame'[p].new.path
      BY DEF RowKept
    <3>1. j = i BY <1>1, <2>5, <2>7 DEF Mine
    <3> QED BY <2>5, <2>7, <2>8, <2>10, <3>1
  <2>13. OwnApart(p)
    <3>1. Own(p)' = {f.new.path}
      BY <2>4, <2>5, <2>7 DEF Own, Started
    <3> SUFFICES ASSUME NEW j \in Id \ spoiled', rows'[j] # NoRow, j # i
                 PROVE  rows'[j].path # f.new.path
      BY <2>5, <2>7, <3>1 DEF OwnApart
    <3>2. rows'[j] = rows[j] BY <2>10
    <3> QED BY <1>4, <3>2, BoundAssumption DEF Unique, Id
  <2>14. OwnHolds(p) /\ OwnSole(p)
    <3>1. Held(p)' = d BY <2>5, <2>7, <2>8 DEF Held
    <3> QED BY <1>1, <2>5, <2>7, <3>1, TakenOwes
  <2>15. i \in Id \ spoiled' => Stage(p)'
    <3> SUFFICES ASSUME i \in Id, i \notin spoiled' PROVE Stage(p)' OBVIOUS
    <3>1. \A c \in Driver : drivers'[c].id # i
      BY <1>1, <2>2, <2>3, BoundAssumption DEF DriversNumbered, Id
    <3>2. Down(i, {f.new.path})' BY <3>1 DEF Down, DownBut
    <3>3. ~drivers'[d].live /\ MountedIn(d, {f.new.path})'
      BY <1>1 DEF Unreferenced, MountedIn
    <3>4. Wanted(i)' /\ rows'[i].path = f.new.path /\ ~f.new.disabled
      BY <2>4, <2>7, <2>10 DEF Wanted
    <3>5. Starting(p)' BY <2>5, <2>7, <3>2, <3>3, <3>4 DEF Starting, Started
    <3> QED BY <2>5, <2>7, <3>5 DEF Stage, Started
  <2>16. OwnStage(p) BY <1>1, <2>5, <2>7, <2>8, <2>15 DEF OwnStage, Mine
  <2> QED BY <2>7, <2>11, <2>12, <2>13, <2>14, <2>16, KeepsIInv DEF Owed
<1> QED BY <1>3, <1>4 DEF Insert

\* A storage that is not spoiled is clean when its row is read: from then on nobody but
\* the operation is at work on it.
LEMMA ReadKeeps ==
    ASSUME IInv, NEW p \in Process, Read(p), Watched(p)
    PROVE  IInv'
<1>1. PICK f, i, row : f = frame[p] /\ i = f.id /\ row = rows[i] OBVIOUS
<1>2. /\ f # NoFrame /\ f.at = "read" /\ ~Busy(p)
      /\ drivers' = drivers /\ mounted' = mounted /\ rows' = rows
  BY <1>1 DEF Read, At, memory, Busy
<1>3. Base /\ Stages BY DEF IInv
<1>4. Effect(p) /\ RowKept(p) BY <1>1, <1>2, QuietEffect
<1>5. CASE Return(p)
  <2>1. frame' = [frame EXCEPT ![p] = NoFrame] BY <1>5 DEF Return, Goto
  <2>2. Local(p) /\ frame'[p] = NoFrame BY <1>2, <2>1, StepLocal
  <2>3. Cleaned(p) BY <1>2 DEF Cleaned
  <2>4. Owed(p) BY <1>4, <2>2, <2>3, ReturnOwes
  <2> QED BY <1>4, <2>2, <2>4, KeepsIInv
<1>6. /\ f \in FrameRecord /\ FrameOk(p) /\ issued \in Nat
      /\ rows \in [Id -> RowRecord \cup {NoRow}] /\ RowsNumbered
  BY <1>1, <1>2, <1>3, BaseHas DEF Base, Numbered
<1>7. /\ i \in Id /\ f.driver = NoDriver /\ f.fn # "load" /\ p # Loader
      /\ f.fn = "update" => f.new \in RowRecord
  BY <1>1, <1>2, <1>3, <1>6, BoundAssumption
     DEF FrameOk, InPlace, Started, Base, Typed, Id, FrameRecord
<1>8. row # NoRow => row \in RowRecord BY <1>1, <1>6, <1>7
<1>9. ASSUME NEW at, NEW new \in RowRecord, row # NoRow,
             Goto(p, [f EXCEPT !.old = row, !.new = new, !.at = at]),
             \/ f.fn = "enable" /\ row.disabled /\ at = "write" /\ new.path = row.path
             \/ f.fn = "disable" /\ ~row.disabled /\ at = "lookup" /\ new.path = row.path
             \/ f.fn = "update" /\ at = "write"
             \/ f.fn = "delete" /\ at = (IF row.disabled THEN "erase" ELSE "lookup")
                /\ new = row
      PROVE  IInv'
  <2>1. PICK g : g = [f EXCEPT !.old = row, !.new = new, !.at = at] OBVIOUS
  <2>2. at \in {"write", "lookup", "erase"} BY <1>9
  <2>3. /\ g \in FrameRecord /\ g.fn = f.fn /\ g.at = at /\ g.id = i /\ g.old = row
        /\ g.new = new /\ g.driver = NoDriver
    <3>1. f.id = i /\ row \in RowRecord /\ new \in RowRecord BY <1>1, <1>8, <1>9
    <3>2. f \in FrameRecord /\ f.driver = NoDriver /\ i \in Id BY <1>6, <1>7
    <3>3. at \in {"write", "lookup", "erase"} BY <2>2
    <3> QED BY <2>1, <3>1, <3>2, <3>3 DEF FrameRecord
  <2>4. frame' = [frame EXCEPT ![p] = g] BY <1>9, <2>1 DEF Goto
  <2>5. Local(p) /\ frame'[p] = g BY <1>2, <2>4, StepLocal
  <2>6. Busy(p)'
    <3>1. g # NoFrame BY <2>3
    <3> QED BY <2>2, <2>3, <2>5, <3>1 DEF Busy, At
  <2>7. Held(p)' = NoDriver BY <2>3, <2>5 DEF Held
  <2>8. OwnHolds(p) /\ OwnSole(p) BY <2>7 DEF OwnHolds, OwnSole
  <2>9. OwnApart(p)
    <3>1. Own(p)' \subseteq {row.path}
      <4>1. at \notin Started BY <2>2 DEF Started
      <4> QED BY <1>9, <2>3, <2>5, <4>1 DEF Own
    <3> SUFFICES ASSUME NEW j \in Id \ spoiled', rows'[j] # NoRow, j # i
                 PROVE  rows'[j].path # row.path
      BY <2>3, <2>5, <3>1 DEF OwnApart
    <3> QED BY <1>1, <1>2, <1>6, <1>7, <1>9 DEF RowsNumbered
  <2>10. i \notin spoiled' => Stage(p)'
    <3> SUFFICES ASSUME i \notin spoiled' PROVE Stage(p)' OBVIOUS
    <3>1. i \in Id \ spoiled' /\ i \in Id \ spoiled BY <1>7, <2>5 DEF Local
    <3>2. Mine(p, i) BY <2>3, <2>5, <2>6 DEF Mine
    <3>3. \A q \in Process : i \notin AtWork(q)
      <4>1. \A q \in Process \ {p} : i \notin AtWork(q)' BY <2>5, <3>1, <3>2, NobodyElse
      <4>2. \A q \in Process \ {p} : AtWork(q)' = AtWork(q)
        BY <2>5 DEF Local, AtWork, Busy, At
      <4>3. i \notin AtWork(p) BY <1>2, <1>7 DEF AtWork
      <4> QED BY <4>1, <4>2, <4>3
    <3>4. Clean(i) BY <1>3, <3>1, <3>3 DEF Stages
    <3>5. Clean(i)' BY <1>2, <3>4
          DEF Clean, Wanted, Down, DownBut, Serves, Alone, MountedIn, RowOf
    <3>6. rows'[i] = row BY <1>1, <1>2
    <3>7. Before(p)' BY <2>3, <2>5, <3>5, <3>6
          DEF Before, Clean, Wanted, Down, DownBut, Serves, Alone, MountedIn, RowOf
    <3>8. row.disabled => Down(i, {})' BY <3>5, <3>6 DEF Clean, Wanted
    <3> QED BY <1>9, <2>2, <2>3, <2>5, <3>7, <3>8 DEF Stage, Started
  <2>11. OwnStage(p) BY <1>2, <2>3, <2>5, <2>6, <2>10 DEF OwnStage, Mine
  <2>12. Owed(p) BY <1>4, <2>8, <2>9, <2>11 DEF Owed
  <2> QED BY <1>4, <2>5, <2>12, KeepsIInv
<1>10. CASE row # NoRow /\ f.fn = "enable" /\ row.disabled
            /\ Goto(p, [f EXCEPT !.old = row, !.new = [row EXCEPT !.disabled = FALSE], !.at = "write"])
  <2>1. [row EXCEPT !.disabled = FALSE] \in RowRecord
        /\ [row EXCEPT !.disabled = FALSE].path = row.path
    BY <1>8, <1>10 DEF RowRecord
  <2> QED BY <1>9, <1>10, <2>1
<1>11. CASE row # NoRow /\ f.fn = "disable" /\ ~row.disabled
            /\ Goto(p, [f EXCEPT !.old = row,
                                 !.new = [row EXCEPT !.disabled = TRUE, !.status = "disabled"],
                                 !.at = "lookup"])
  <2> DEFINE new == [row EXCEPT !.disabled = TRUE, !.status = "disabled"]
  <2>1. new \in RowRecord /\ new.path = row.path
    BY <1>8, <1>11 DEF RowRecord, Status
  <2> QED BY <1>9, <1>11, <2>1
<1>12. CASE row # NoRow /\ f.fn = "update"
            /\ Goto(p, [f EXCEPT !.old = row, !.new = [f.new EXCEPT !.status = row.status],
                                 !.at = "write"])
  <2>1. [f.new EXCEPT !.status = row.status] \in RowRecord
    BY <1>7, <1>8, <1>12 DEF RowRecord
  <2> QED BY <1>9, <1>12, <2>1
<1>13. CASE row # NoRow /\ f.fn = "delete"
            /\ Goto(p, [f EXCEPT !.old = row, !.new = row,
                                 !.at = IF row.disabled THEN "erase" ELSE "lookup"])
  BY <1>8, <1>9, <1>13
<1> QED BY <1>1, <1>5, <1>10, <1>11, <1>12, <1>13 DEF Read

\* Load from here leaves the operation with a driver nobody has, and nothing else.
LEMMA LoadOwes ==
    ASSUME IInv, NEW p \in Process, Watched(p), Busy(p), frame[p].fn \in {"enable", "load"},
           Load(p, frame[p])
    PROVE  \E d \in Unreferenced, g \in FrameRecord :
              /\ g.fn = frame[p].fn /\ g.at = "set" /\ g.id = frame[p].id
              /\ g.old = frame[p].old /\ g.new = frame[p].new /\ g.driver = d
              /\ frame'[p] = g /\ Local(p) /\ Busy(p)' /\ Held(p)' = d
              /\ Own(p)' \subseteq Own(p)
<1>1. PICK d \in Unreferenced :
         frame' = [frame EXCEPT ![p] = [frame[p] EXCEPT !.driver = d, !.at = "set"]]
  BY DEF Load, Goto
<1>2. PICK f, g : f = frame[p] /\ g = [f EXCEPT !.driver = d, !.at = "set"] OBVIOUS
<1>3. f \in FrameRecord BY <1>2, BusyHas DEF IInv, Base
<1>4. d \in Driver BY DEF Unreferenced
<1>5. /\ g \in FrameRecord /\ g.fn = f.fn /\ g.at = "set" /\ g.id = f.id
      /\ g.old = f.old /\ g.new = f.new /\ g.driver = d
  BY <1>2, <1>3, <1>4 DEF FrameRecord
<1>6. frame' = [frame EXCEPT ![p] = g] BY <1>1, <1>2
<1>7. Local(p) /\ frame'[p] = g
  <2>1. Busy(p) /\ g # NoFrame => g.id = frame[p].id BY <1>2, <1>5
  <2> QED BY <1>6, <2>1, StepLocal
<1>8. g # NoFrame BY <1>5
<1>9. Busy(p)' BY <1>5, <1>7, <1>8 DEF Busy, At
<1>10. Held(p)' = d BY <1>5, <1>7, <1>8 DEF Held
<1>11. Own(p)' \subseteq Own(p)
  <2>1. f.fn # "update" BY <1>2
  <2> QED BY <1>2, <1>5, <1>7, <2>1 DEF Own, Started
<1> QED BY <1>2, <1>5, <1>7, <1>9, <1>10, <1>11

\* Then the storage waits for its driver to be started.
LEMMA LoadStage ==
    ASSUME NEW p \in Process, NEW d \in Unreferenced, NEW g, frame'[p] = g, g.at = "set",
           g.driver = d, g.id \in Id, drivers'[d] = drivers[d], mounted' = mounted,
           Wanted(g.id)', rows'[g.id].path = g.new.path, ~g.new.disabled,
           Down(g.id, {g.new.path})'
    PROVE  Stage(p)'
<1>1. ~drivers'[d].live /\ MountedIn(d, {g.new.path})' BY DEF Unreferenced, MountedIn
<1>2. Starting(p)' BY <1>1 DEF Starting, Started
<1> QED BY <1>2 DEF Stage, Started

\* db.UpdateStorage: the path it writes is unique, so no other storage has it.
LEMMA WriteKeeps ==
    ASSUME IInv, NEW p \in Process, Write(p), Watched(p)
    PROVE  IInv'
<1>1. PICK f, i : f = frame[p] /\ i = f.id OBVIOUS
<1>2. At(p, "write") /\ drivers' = drivers /\ mounted' = mounted
  BY DEF Write, memory
<1>3. Base BY DEF IInv
<1>4. /\ Busy(p) /\ f.at = "write" /\ f \in FrameRecord /\ Shape(f) /\ i \in Id
      /\ rows \in [Id -> RowRecord \cup {NoRow}] /\ RowsNumbered
  BY <1>1, <1>2, <1>3, WorkerHas
<1>5. f.fn \in {"enable", "disable", "update"} /\ f.new \in RowRecord /\ f.old \in RowRecord
      /\ f.driver \in Driver \cup {NoDriver} /\ f # NoFrame
  <2>1. InPlace(f) BY <1>1, <1>2, <1>3, WorkerHas
  <2> QED BY <1>4, <2>1 DEF InPlace, Started, Shape, FrameRecord
<1>6. ASSUME spoiled \subseteq spoiled', i \notin spoiled'
      PROVE  /\ rows[i] = f.old
             /\ f.fn # "disable" => Clean(i)
             /\ f.fn = "disable" => Down(i, {f.old.path})
             /\ f.driver # NoDriver => drivers[f.driver].id = i
    BY <1>1, <1>4, <1>5, <1>6, StageHas DEF Stage, Before
<1>7. CASE Return(p) /\ rows' = rows /\ ~Unique(i, f.new.path)
  <2>1. frame' = [frame EXCEPT ![p] = NoFrame] BY <1>7 DEF Return, Goto
  <2>2. Local(p) /\ frame'[p] = NoFrame BY <2>1, StepLocal
  <2>3. Effect(p) /\ RowKept(p) BY <1>1, <1>2, <1>4, <1>7, QuietEffect
  <2>4. Cleaned(p)
    <3> SUFFICES ASSUME i \notin spoiled' PROVE Clean(i)' BY <1>1 DEF Cleaned
    <3>1. spoiled \subseteq spoiled' BY <2>2 DEF Local
    <3>2. f.fn # "disable"
      <4>1. f.fn = "disable" => f.new.path = f.old.path BY <1>4 DEF Shape
      <4>2. rows[i] = f.old /\ f.old # NoRow BY <1>5, <1>6, <3>1
      <4> QED BY <1>4, <1>7, <4>1, <4>2 DEF RowsNumbered, Unique
    <3>3. Clean(i) BY <1>6, <3>1, <3>2
    <3> QED BY <1>2, <1>7, <3>3
            DEF Clean, Wanted, Down, DownBut, Serves, Alone, MountedIn, RowOf
  <2>5. Owed(p) BY <2>2, <2>3, <2>4, ReturnOwes
  <2> QED BY <2>2, <2>3, <2>5, KeepsIInv
<1>8. CASE Unique(i, f.new.path) /\ Saved(i, f.new)
  <2>1. \A j \in Id : rows'[j] = IF j = i THEN f.new ELSE rows[j]
    BY <1>4, <1>8 DEF Saved
  <2>2. \A j \in Id : j # i /\ rows'[j] # NoRow => rows'[j].path # f.new.path
    BY <1>8, <2>1 DEF Unique
  <2>3. Effect(p) /\ (Busy(p)' /\ frame'[p].id = i /\ frame'[p].new.path = f.new.path => RowKept(p))
    <3>1. \A j \in Id : rows'[j] # rows[j] => j = i BY <2>1
    <3>2. Mine(p, i) BY <1>1, <1>4 DEF Mine
    <3>3. Effect(p) BY <1>1, <1>2, <1>4, <3>1, <3>2 DEF Effect
    <3>4. ASSUME Busy(p)', frame'[p].id = i, frame'[p].new.path = f.new.path PROVE RowKept(p)
      <4> SUFFICES ASSUME NEW j \in Id \ spoiled', Mine(p, j)
                   PROVE  Busy(p)' /\ frame'[p].id = j /\ rows'[j].path = frame'[p].new.path
        BY DEF RowKept
      <4>1. j = i BY <1>1, <3>4 DEF Mine
      <4> QED BY <2>1, <3>4, <4>1
    <3> QED BY <3>3, <3>4
  <2>4. CASE f.fn = "enable"
    <3>1. Load(p, frame[p]) BY <1>1, <1>8, <2>4 DEF Write
    <3>2. PICK d \in Unreferenced, g \in FrameRecord :
             /\ g.fn = f.fn /\ g.at = "set" /\ g.id = i
             /\ g.old = f.old /\ g.new = f.new /\ g.driver = d
             /\ frame'[p] = g /\ Local(p) /\ Busy(p)' /\ Held(p)' = d
             /\ Own(p)' \subseteq Own(p)
      BY <1>1, <1>4, <2>4, <3>1, LoadOwes
    <3>3. OwnHolds(p) /\ OwnSole(p) BY <1>2, <3>2, TakenOwes
    <3>4. RowKept(p) BY <2>3, <3>2
    <3>5. OwnApart(p)
      <4>1. Own(p)' \subseteq {f.new.path}
        <5>1. f.old.path = f.new.path BY <1>4, <2>4 DEF Shape
        <5> QED BY <2>4, <3>2, <5>1 DEF Own, Started
      <4> QED BY <2>2, <3>2, <4>1 DEF OwnApart
    <3>6. Staged(p)
      <4> SUFFICES ASSUME i \notin spoiled' PROVE Stage(p)' BY <1>1 DEF Staged
      <4>1. rows[i] = f.old /\ Clean(i) /\ f.old.disabled /\ ~f.new.disabled
        BY <1>4, <1>6, <2>4, <3>2 DEF Local, Shape
      <4>2. Down(i, {}) BY <4>1 DEF Clean, Wanted
      <4>3. Down(i, {f.new.path})' BY <1>2, <4>2 DEF Down, DownBut, MountedIn
      <4>4. Wanted(i)' /\ rows'[i].path = f.new.path BY <1>4, <1>5, <2>1, <4>1 DEF Wanted
      <4> QED BY <1>2, <1>4, <3>2, <4>1, <4>3, <4>4, LoadStage
    <3>7. OwnStage(p) BY <1>1, <1>4, <3>2, <3>6 DEF OwnStage, Mine, Staged
    <3>8. Owed(p) BY <3>3, <3>4, <3>5, <3>7 DEF Owed
    <3> QED BY <2>3, <3>2, <3>8, KeepsIInv
  <2>5. CASE f.fn \in {"disable", "update"}
    <3>1. PICK at : at = IF f.fn = "disable" THEN "unmount" ELSE "lookup" OBVIOUS
    <3>2. Goto(p, [f EXCEPT !.at = at]) BY <1>1, <1>8, <2>5, <3>1 DEF Write
    <3>3. PICK g : g = [f EXCEPT !.at = at] OBVIOUS
    <3>4. /\ g \in FrameRecord /\ g.fn = f.fn /\ g.at = at /\ g.id = i
          /\ g.old = f.old /\ g.new = f.new /\ g.driver = f.driver
      BY <1>1, <1>4, <3>1, <3>3 DEF FrameRecord
    <3>5. frame' = [frame EXCEPT ![p] = g] BY <3>2, <3>3 DEF Goto
    <3>6. Local(p) /\ frame'[p] = g
      <4>1. Busy(p) /\ g # NoFrame => g.id = frame[p].id BY <1>1, <3>4
      <4> QED BY <3>5, <4>1, StepLocal
    <3>7. g # NoFrame BY <3>4
    <3>8. Busy(p)' BY <3>1, <3>4, <3>6, <3>7 DEF Busy, At
    <3>9. Held(p)' = Held(p) BY <1>1, <1>5, <3>4, <3>6, <3>7 DEF Held
    <3>10. RowKept(p) BY <2>3, <3>4, <3>6, <3>8
    <3>11. Staged(p)
      <4> SUFFICES ASSUME i \notin spoiled' PROVE Stage(p)' BY <1>1 DEF Staged
      <4>1. rows'[i] = f.new BY <1>4, <2>1
      <4>2. spoiled \subseteq spoiled' BY <3>6 DEF Local
      <4>3. CASE f.fn = "disable"
        <5>1. Down(i, {f.old.path})' BY <1>2, <1>6, <4>2, <4>3 DEF Down, DownBut, MountedIn
        <5>2. f.driver # NoDriver => drivers'[f.driver].id = i BY <1>2, <1>6, <4>2
        <5> QED BY <3>1, <3>4, <3>6, <4>1, <4>3, <5>1, <5>2 DEF Stage, Started
      <4>4. CASE f.fn = "update"
        <5>1. rows[i] = f.old /\ Clean(i) BY <1>6, <4>2, <4>4
        <5>2. f.old.disabled => Down(i, {})
          BY <5>1 DEF Clean, Wanted
        <5>3. ~f.old.disabled => Alone(i, mounted[f.old.path], {f.old.path})
          BY <1>5, <5>1 DEF Clean, Wanted, Serves
        <5>4. f.old.disabled => Down(i, {})'
          BY <1>2, <5>2 DEF Down, DownBut, MountedIn
        <5>5. ~f.old.disabled => Alone(i, mounted[f.old.path], {f.old.path})'
          BY <1>2, <5>3 DEF Alone, DownBut, MountedIn
        <5>6. Moving(p)' BY <3>1, <3>4, <3>6, <4>1, <4>4, <5>4, <5>5 DEF Moving
        <5>7. f.driver = NoDriver BY <1>4, <4>4 DEF Shape
        <5> QED BY <3>1, <3>4, <3>6, <4>4, <5>6, <5>7 DEF Stage, Started
      <4> QED BY <2>5, <4>3, <4>4
    <3>12. OwnApart(p)
      <4>1. f.old # NoRow BY <1>5
      <4>2. Own(p)' \subseteq {f.old.path, f.new.path} BY <3>1, <3>4, <3>6 DEF Own, Started
      <4>3. f.old.path \in Own(p) BY <1>1, <4>1 DEF Own
      <4>4. ASSUME NEW j \in Id \ spoiled', rows'[j] # NoRow, j # i PROVE rows'[j].path \notin Own(p)'
        <5>1. rows'[j] = rows[j] /\ j \in Id \ spoiled BY <2>1, <3>6, <4>4 DEF Local
        <5>2. rows[j].path # f.old.path BY <1>1, <1>4, <4>3, <4>4, <5>1 DEF IInv, Apart
        <5> QED BY <2>2, <4>2, <4>4, <5>1, <5>2
      <4> QED BY <3>4, <3>6, <4>4 DEF OwnApart
    <3>13. OwnHolds(p) /\ OwnSole(p)
      <4>1. OwnHolds(p)
        <5> SUFFICES ASSUME NEW e \in Driver, Held(p)' = e,
                            drivers'[e].id \notin spoiled' \cup {NoId}
                     PROVE  frame'[p].id = drivers'[e].id
          BY DEF OwnHolds
        <5> QED BY <1>1, <1>2, <1>4, <3>4, <3>6, <3>9 DEF IInv, Holds, Local
      <4>2. OwnSole(p) BY <1>1, <3>4, <3>6, <3>9 DEF OwnSole, IInv, Sole, Local
      <4> QED BY <4>1, <4>2
    <3>14. OwnStage(p) BY <1>1, <1>4, <3>4, <3>6, <3>8, <3>11 DEF OwnStage, Mine, Staged
    <3>15. Owed(p) BY <3>10, <3>12, <3>13, <3>14 DEF Owed
    <3> QED BY <2>3, <3>6, <3>15, KeepsIInv
  <2> QED BY <1>5, <2>4, <2>5
<1> QED BY <1>1, <1>7, <1>8 DEF Write

\* An operation at work goes on at another place, with this driver and this row.
Goes(p, at, d, new) ==
    /\ Busy(p)
    /\ at \in {"write", "lookup", "unmount", "drop", "erase", "set"} \cup Started
    /\ d \in Driver \cup {NoDriver}
    /\ new \in RowRecord /\ new.path = frame[p].new.path
    /\ frame' = [frame EXCEPT ![p] = [frame[p] EXCEPT !.driver = d, !.new = new, !.at = at]]

Gone(p, at, d, new) ==
    /\ frame'[p].fn = frame[p].fn /\ frame'[p].id = frame[p].id
    /\ frame'[p].old = frame[p].old /\ frame'[p].at = at
    /\ frame'[p].new = new /\ frame'[p].driver = d
    /\ Local(p) /\ Busy(p)' /\ Held(p)' = d
    /\ at \notin Started => Own(p)' \subseteq Own(p) \cup {new.path}
    /\ GivenUp(p) \cup Foreign(p) \subseteq spoiled'

\* What has become of it
LEMMA AtGoes ==
    ASSUME IInv, NEW p \in Process, Watched(p), NEW at, NEW d, NEW new, Goes(p, at, d, new)
    PROVE  Gone(p, at, d, new)
<1>0. PICK f, g : f = frame[p] /\ g = [f EXCEPT !.driver = d, !.new = new, !.at = at]
  OBVIOUS
<1>1. /\ f \in FrameRecord /\ d \in Driver \cup {NoDriver} /\ new \in RowRecord
      /\ frame' = [frame EXCEPT ![p] = g] /\ new.path = f.new.path
  BY <1>0, BusyHas DEF IInv, Base, Goes
<1>2. at \in {"insert", "read", "write", "lookup", "unmount", "drop", "erase", "set",
           "init", "mount", "save", "recover", "recovered"} /\ at \notin {"insert", "read"}
  BY DEF Started, Goes
<1>3. /\ g \in FrameRecord /\ g.fn = f.fn /\ g.at = at /\ g.id = f.id
      /\ g.old = f.old /\ g.new = new /\ g.driver = d
  <2>1. g = [[[f EXCEPT !.driver = d] EXCEPT !.new = new] EXCEPT !.at = at] BY <1>0
  <2>2. PICK g1 : g1 = [f EXCEPT !.driver = d] OBVIOUS
  <2>3. PICK g2 : g2 = [g1 EXCEPT !.new = new] OBVIOUS
  <2>4. g1 \in FrameRecord /\ g1.fn = f.fn /\ g1.id = f.id /\ g1.old = f.old /\ g1.driver = d
    BY <1>1, <2>2 DEF FrameRecord
  <2>5. /\ g2 \in FrameRecord /\ g2.fn = f.fn /\ g2.id = f.id /\ g2.old = f.old
        /\ g2.driver = d /\ g2.new = new
    BY <1>1, <2>3, <2>4 DEF FrameRecord
  <2>6. g = [g2 EXCEPT !.at = at] BY <2>1, <2>2, <2>3
  <2> QED BY <1>2, <2>5, <2>6 DEF FrameRecord
<1>4. g # NoFrame BY <1>3
<1>5. Local(p) /\ frame'[p] = g /\ GivenUp(p) \cup Foreign(p) \subseteq spoiled'
  <2>1. Busy(p) /\ g # NoFrame => g.id = frame[p].id BY <1>0, <1>3
  <2> QED BY <1>1, <2>1, StepLocal
<1>6. Busy(p)' BY <1>2, <1>3, <1>4, <1>5 DEF Busy, At
<1>7. Held(p)' = d BY <1>3, <1>4, <1>5 DEF Held
<1>8. at \notin Started => Own(p)' \subseteq Own(p) \cup {new.path}
  BY <1>0, <1>3, <1>5 DEF Own
<1> QED BY <1>0, <1>3, <1>4, <1>5, <1>6, <1>7, <1>8 DEF Gone

\* So does one whose place is all that changes.
LEMMA AtMoves ==
    ASSUME IInv, NEW p \in Process, Watched(p), Busy(p), NEW at,
           at \in {"write", "lookup", "unmount", "drop", "erase", "set"} \cup Started,
           Goto(p, [frame[p] EXCEPT !.at = at])
    PROVE  Gone(p, at, frame[p].driver, frame[p].new)
<1>1. PICK f, d, new : f = frame[p] /\ d = f.driver /\ new = f.new OBVIOUS
<1>2. f \in FrameRecord /\ new \in RowRecord /\ d \in Driver \cup {NoDriver}
  BY <1>1, BusyHas DEF IInv, Base, Shape, FrameRecord
<1>3. [f EXCEPT !.at = at] = [f EXCEPT !.driver = d, !.new = new, !.at = at]
  BY <1>1, <1>2 DEF FrameRecord
<1>4. Goes(p, at, d, new) BY <1>1, <1>2, <1>3 DEF Goes, Goto
<1>5. Gone(p, at, d, new) BY <1>4, AtGoes
<1> QED BY <1>1, <1>5

\* A step that leaves the table and memory alone leaves what is said of them.
LEMMA QuietSays ==
    ASSUME rows' = rows, drivers' = drivers, mounted' = mounted
    PROVE  /\ \A i : Clean(i)' <=> Clean(i)
           /\ \A i, S : Down(i, S)' <=> Down(i, S)
           /\ \A i, e, S : Alone(i, e, S)' <=> Alone(i, e, S)
BY DEF Clean, Wanted, Down, DownBut, Serves, Alone, MountedIn, RowOf

\* GetStorageByMountPath: what is mounted at the old path is the storage's driver,
\* unless the storage is spoiled by this very step.
LEMMA LookupKeeps ==
    ASSUME IInv, NEW p \in Process, Lookup(p), Watched(p)
    PROVE  IInv'
<1>1. PICK f, i, d : f = frame[p] /\ i = f.id /\ d = mounted[f.old.path] OBVIOUS
<1>2. At(p, "lookup") /\ rows' = rows /\ drivers' = drivers /\ mounted' = mounted
  BY DEF Lookup, memory
<1>3. Base BY DEF IInv
<1>4. /\ Busy(p) /\ f.at = "lookup" /\ f \in FrameRecord /\ Shape(f) /\ i \in Id /\ InPlace(f)
      /\ mounted \in [Path -> Driver \cup {NoDriver}] /\ drivers \in [Driver -> DriverRecord]
      /\ DriversNumbered
  BY <1>1, <1>2, <1>3, WorkerHas
<1>5. f.fn \in {"disable", "delete", "load", "update"} /\ f.new \in RowRecord
      /\ f.old \in RowRecord /\ f.old # NoRow /\ f.old.path \in Path /\ f # NoFrame
  BY <1>4 DEF InPlace, Started, Shape, FrameRecord, RowRecord
<1>6. d \in Driver \cup {NoDriver} /\ (d \in Driver <=> d # NoDriver) BY <1>1, <1>4, <1>5
<1>7. Effect(p) /\ RowKept(p) BY <1>1, <1>2, <1>4, QuietEffect
<1>8. Foreign(p) \subseteq spoiled' /\ i \notin spoiled' /\ d # NoDriver => drivers[d].id = i
  BY <1>1, <1>2 DEF Foreign
<1>9. ASSUME spoiled \subseteq spoiled', i \notin spoiled'
      PROVE  /\ f.fn # "update" => rows[i] = f.old /\ Clean(i)
             /\ f.fn = "update" => rows[i] = f.new
             /\ f.fn = "update" /\ f.old.disabled => Down(i, {})
             /\ f.fn = "update" /\ ~f.old.disabled => Alone(i, d, {f.old.path})
             /\ Separate /\ i \in Id \ spoiled
  <2>1. Stage(p) /\ i \in Id \ spoiled BY <1>1, <1>4, <1>9, StageHas
  <2>2. f.fn # "update" => rows[i] = f.old /\ Clean(i) BY <1>1, <1>4, <2>1 DEF Stage, Before
  <2>3. f.fn = "update" => Moving(p) BY <1>1, <1>4, <2>1 DEF Stage
  <2>4. Separate BY NotOverlapping DEF IInv
  <2> QED BY <1>1, <1>4, <2>1, <2>2, <2>3, <2>4 DEF Moving
<1>10. CASE Return(p)
            /\ (d = NoDriver \/ (f.fn = "update" /\ f.new.disabled))
  <2>1. frame' = [frame EXCEPT ![p] = NoFrame] BY <1>10 DEF Return, Goto
  <2>2. Local(p) /\ frame'[p] = NoFrame /\ GivenUp(p) \cup Foreign(p) \subseteq spoiled'
    BY <2>1, StepLocal
  <2>3. Cleaned(p)
    <3> SUFFICES ASSUME i \notin spoiled' PROVE Clean(i)' BY <1>1 DEF Cleaned
    <3>1. spoiled \subseteq spoiled' BY <2>2 DEF Local
    <3>2. CASE f.fn # "update" BY <1>2, <1>9, <3>1, <3>2, QuietSays
    <3>3. CASE f.fn = "update"
      <4>1. f.new.disabled /\ d = NoDriver
        <5>1. ~(f.new.disabled /\ d = NoDriver) => i \in GivenUp(p)
          BY <1>1, <1>4, <2>2, <3>3 DEF GivenUp
        <5> QED BY <2>2, <5>1
      <4>2. ~Alone(i, d, {f.old.path}) BY <4>1 DEF Alone
      <4>3. Down(i, {}) /\ ~Wanted(i) BY <1>9, <3>1, <3>3, <4>1, <4>2 DEF Wanted
      <4>4. Clean(i) BY <4>3 DEF Clean
      <4> QED BY <1>2, <4>4, QuietSays
    <3> QED BY <3>2, <3>3
  <2>4. Owed(p) BY <1>7, <2>2, <2>3, ReturnOwes
  <2> QED BY <1>7, <2>2, <2>4, KeepsIInv
<1>11. ASSUME NEW at, Goto(p, [f EXCEPT !.driver = d, !.at = at]),
              \/ at = "unmount" /\ f.fn = "update" /\ ~f.new.disabled /\ f.new.path # f.old.path
              \/ /\ at = "drop" /\ d # NoDriver
                 /\ f.fn = "update" => f.new.path = f.old.path /\ ~f.new.disabled
       PROVE  IInv'
  <2>1. at \in {"write", "lookup", "unmount", "drop", "erase", "set"} \cup Started
        /\ at \notin Started
    BY <1>11 DEF Started
  <2>2. PICK new : new = f.new OBVIOUS
  <2>3. [f EXCEPT !.driver = d, !.at = at] = [f EXCEPT !.driver = d, !.new = new, !.at = at]
    BY <1>4, <2>2 DEF FrameRecord
  <2>4. Gone(p, at, d, new)
    <3>1. Goes(p, at, d, new) BY <1>1, <1>4, <1>5, <1>6, <1>11, <2>1, <2>2, <2>3 DEF Goes, Goto
    <3> QED BY <3>1, AtGoes
  <2>5. /\ frame'[p].fn = f.fn /\ frame'[p].at = at /\ frame'[p].id = f.id
        /\ frame'[p].old = f.old /\ frame'[p].new = f.new /\ frame'[p].driver = d
        /\ Local(p) /\ Busy(p)' /\ Held(p)' = d
        /\ Own(p)' \subseteq Own(p) \cup {f.new.path}
        /\ GivenUp(p) \cup Foreign(p) \subseteq spoiled'
    BY <1>1, <2>1, <2>2, <2>4 DEF Gone
  <2>6. spoiled \subseteq spoiled' BY <2>5 DEF Local
  <2>7. f.old.path \in Own(p) /\ f.new.path \in Own(p) BY <1>1, <1>4, <1>5 DEF Own
  <2>8. OwnApart(p)
    <3> SUFFICES ASSUME NEW j \in Id \ spoiled', rows'[j] # NoRow, j # i
                 PROVE  rows'[j].path \notin Own(p)
      BY <1>1, <2>5, <2>7 DEF OwnApart
    <3> QED BY <1>1, <1>2, <1>4, <2>6 DEF IInv, Apart
  <2>9. OwnHolds(p)
    <3> SUFFICES ASSUME d \in Driver, drivers[d].id \notin spoiled' \cup {NoId}
                 PROVE  i = drivers[d].id
      BY <1>1, <1>2, <2>5 DEF OwnHolds
    <3>1. drivers[d].id \in Id \ spoiled
      BY <1>3, <2>6, BoundAssumption DEF Base, Numbered, DriversNumbered, Typed, Id
    <3> QED BY <1>1, <1>4, <1>5, <2>7, <3>1, MountedMine
  <2>10. OwnSole(p)
    <3> SUFFICES ASSUME NEW q \in Process \ {p}, d # NoDriver, Held(q) = d
                 PROVE  i \in spoiled' /\ frame[q].id \in spoiled'
      BY <1>1, <2>5 DEF OwnSole
    <3>1. d \in Driver /\ Busy(q) /\ frame[q].driver = d
      BY <1>3, <1>6, HolderBusy DEF Base
    <3>2. Separate BY NotOverlapping DEF IInv
    <3>3. i \in AtWork(p) /\ frame[q].id \in AtWork(q) /\ frame[q].id \in Id
      BY <1>1, <1>3, <1>4, <3>1, BusyWorks, BusyHas DEF Base
    <3>4. i \in spoiled'
      <4> SUFFICES ASSUME i \notin spoiled' PROVE FALSE OBVIOUS
      <4>1. drivers[d].id = i /\ i \notin spoiled \cup {NoId}
        BY <1>4, <1>8, <2>5, <2>6, <3>1, BoundAssumption DEF Id
      <4>2. ~Unmounted(d) BY <1>1, <1>5 DEF Unmounted
      <4>3. frame[q].id = i BY <3>1, <4>1, <4>2 DEF IInv, Holds
      <4> QED BY <1>4, <2>6, <3>2, <3>3, <4>3 DEF Separate
    <3>5. frame[q].id \in spoiled'
      <4> SUFFICES ASSUME frame[q].id \notin spoiled' PROVE FALSE OBVIOUS
      <4>1. Stage(q) /\ frame[q].id \in Id \ spoiled BY <2>6, <3>1, StageHas
      <4>2. CASE frame[q].at # "set"
        <5>1. drivers[d].id = frame[q].id BY <1>6, <3>1, <4>1, <4>2 DEF Stage
        <5>2. frame[q].id = i BY <1>1, <1>4, <1>5, <2>7, <3>1, <4>1, <5>1, MountedMine
        <5> QED BY <3>4, <5>2
      <4>3. CASE frame[q].at = "set"
        <5>1. MountedIn(d, {frame[q].new.path}) BY <3>1, <4>1, <4>3 DEF Stage, Starting
        <5>2. f.old.path = frame[q].new.path BY <1>1, <1>5, <5>1 DEF MountedIn
        <5>3. f.old.path \in PathsOf(p) /\ f.old.path \in PathsOf(q)
          BY <1>1, <1>4, <1>5, <3>1, <5>2, BusyWorks
        <5> QED BY <3>2, <3>3, <4>1, <5>3 DEF Separate
      <4> QED BY <4>2, <4>3
    <3> QED BY <3>4, <3>5
  <2>11. Staged(p)
    <3> SUFFICES ASSUME i \notin spoiled' PROVE Stage(p)' BY <1>1 DEF Staged
    <3>1. d # NoDriver => drivers[d].id = i BY <1>8, <2>5
    <3>2. d # NoDriver => ~Down(i, {})
      <4> SUFFICES ASSUME d # NoDriver, Down(i, {}) PROVE FALSE OBVIOUS
      <4> QED BY <1>1, <1>5, <1>6, <3>1 DEF Down, DownBut, MountedIn
    <3>3. CASE f.fn = "update"
      <4>1. rows[i] = f.new /\ (IF d = NoDriver THEN Down(i, {}) ELSE Alone(i, d, {f.old.path}))
        <5>1. d = NoDriver => ~Alone(i, d, {f.old.path}) BY DEF Alone
        <5> QED BY <1>9, <2>6, <3>2, <3>3, <5>1
      <4>2. Moving(p)'
        <5>1. rows'[i] = f.new /\ (IF d = NoDriver THEN Down(i, {})' ELSE Alone(i, d, {f.old.path})')
          BY <1>2, <4>1, QuietSays
        <5>2. at = "drop" => Alone(i, d, {f.new.path})' BY <1>11, <3>3, <5>1
        <5> QED BY <1>1, <1>11, <2>5, <5>1, <5>2 DEF Moving
      <4> QED BY <1>1, <1>2, <1>11, <2>5, <3>1, <3>3, <4>2 DEF Stage, Started
    <3>4. CASE f.fn # "update"
      <4>1. at = "drop" /\ d # NoDriver BY <1>11, <3>4
      <4>2. rows'[i] = f.old /\ Clean(i)' BY <1>2, <1>9, <2>6, <3>4, QuietSays
      <4>3. Before(p)' BY <1>1, <2>5, <4>2
            DEF Before, Clean, Wanted, Down, DownBut, Serves, Alone, MountedIn, RowOf
      <4>4. mounted'[f.old.path] = d BY <1>1, <1>2
      <4> QED BY <1>1, <1>2, <2>5, <3>1, <3>4, <4>1, <4>3, <4>4 DEF Stage, Started
    <3> QED BY <3>3, <3>4
  <2>12. OwnStage(p) BY <1>1, <1>4, <2>5, <2>11 DEF OwnStage, Mine, Staged
  <2>13. Owed(p) BY <1>7, <2>8, <2>9, <2>10, <2>12 DEF Owed
  <2> QED BY <1>7, <2>5, <2>13, KeepsIInv
<1>12. CASE f.fn = "update" /\ ~f.new.disabled /\ f.new.path # f.old.path
  <2>1. Goto(p, [f EXCEPT !.driver = d, !.at = "unmount"]) BY <1>1, <1>12 DEF Lookup
  <2> QED BY <1>11, <1>12, <2>1
<1>13. CASE ~(f.fn = "update" /\ ~f.new.disabled /\ f.new.path # f.old.path)
            /\ ~(d = NoDriver \/ (f.fn = "update" /\ f.new.disabled))
  <2>1. Goto(p, [f EXCEPT !.driver = d, !.at = "drop"]) BY <1>1, <1>13 DEF Lookup
  <2> QED BY <1>11, <1>13, <2>1
<1>14. CASE ~(f.fn = "update" /\ ~f.new.disabled /\ f.new.path # f.old.path)
            /\ (d = NoDriver \/ (f.fn = "update" /\ f.new.disabled))
  <2>1. Return(p) BY <1>1, <1>14 DEF Lookup
  <2> QED BY <1>10, <1>14, <2>1
<1> QED BY <1>12, <1>13, <1>14

\* An operation that goes on with what it has, or puts its driver down.
LEMMA GoneKeeps ==
    ASSUME IInv, NEW p \in Process, Busy(p), NEW at, NEW d, NEW new, Gone(p, at, d, new),
           d \in {Held(p), NoDriver}, Own(p)' \subseteq Own(p),
           Effect(p), RowKept(p), Staged(p)
    PROVE  IInv'
<1>1. Local(p) /\ Busy(p)' /\ Held(p)' \in {Held(p), NoDriver} BY DEF Gone
<1>2. Owed(p) BY <1>1, GoOnOwes
<1> QED BY <1>1, <1>2, KeepsIInv

\* An operation that returns
LEMMA ReturnKeeps ==
    ASSUME IInv, NEW p \in Process, Watched(p), Return(p), Effect(p), RowKept(p),
           spoiled \subseteq spoiled' /\ GivenUp(p) \subseteq spoiled' => Cleaned(p)
    PROVE  IInv'
<1>1. frame' = [frame EXCEPT ![p] = NoFrame] BY DEF Return, Goto
<1>2. Local(p) /\ frame'[p] = NoFrame /\ GivenUp(p) \cup Foreign(p) \subseteq spoiled'
  BY <1>1, StepLocal
<1>3. Cleaned(p) BY <1>2 DEF Local
<1>4. Owed(p) BY <1>2, <1>3, ReturnOwes
<1> QED BY <1>2, <1>4, KeepsIInv

\* The old path is emptied, and with it the last of the storage that was mounted.
LEMMA UnmountKeeps ==
    ASSUME IInv, NEW p \in Process, Unmount(p), Watched(p)
    PROVE  IInv'
<1>1. PICK f, i, e : f = frame[p] /\ i = f.id /\ e = f.driver OBVIOUS
<1>2. /\ At(p, "unmount") /\ rows' = rows /\ drivers' = drivers
      /\ mounted' = [mounted EXCEPT ![f.old.path] = NoDriver]
  BY <1>1 DEF Unmount
<1>3. Base BY DEF IInv
<1>4. /\ Busy(p) /\ f.at = "unmount" /\ f \in FrameRecord /\ Shape(f) /\ i \in Id /\ InPlace(f)
      /\ mounted \in [Path -> Driver \cup {NoDriver}]
  BY <1>1, <1>2, <1>3, WorkerHas
<1>5. f.fn \in {"disable", "delete", "update"} /\ f.new \in RowRecord
      /\ f.old \in RowRecord /\ f.old # NoRow /\ f.old.path \in Path
      /\ e \in Driver \cup {NoDriver}
  BY <1>1, <1>4 DEF InPlace, Started, Shape, FrameRecord, RowRecord
<1>6. \A path \in Path : mounted'[path] = IF path = f.old.path THEN NoDriver ELSE mounted[path]
  BY <1>2, <1>4
<1>7. Effect(p)
  <2>1. f.old.path \in Own(p) BY <1>1, <1>5 DEF Own
  <2> QED BY <1>1, <1>2, <1>4, <1>6, <2>1 DEF Effect
<1>8. RowKept(p) BY <1>2 DEF RowKept
<1>9. \A S : \A c \in Driver : MountedIn(c, S \cup {f.old.path}) => MountedIn(c, S)'
  BY <1>6 DEF MountedIn
<1>10. ASSUME spoiled \subseteq spoiled', i \notin spoiled'
       PROVE  /\ e # NoDriver => drivers[e].id = i
              /\ f.fn = "disable" => rows[i] = f.new
              /\ f.fn # "update" => Down(i, {})'
              /\ f.fn = "update" => rows[i] = f.new
              /\ f.fn = "update" /\ e # NoDriver => Alone(i, e, {f.new.path})'
  <2>1. Stage(p) BY <1>1, <1>4, <1>10, StageHas
  <2>2. /\ e # NoDriver => drivers[e].id = i
        /\ f.fn = "disable" => rows[i] = f.new
        /\ f.fn # "update" => Down(i, {f.old.path})
        /\ f.fn = "update" => Moving(p)
    BY <1>1, <1>4, <2>1 DEF Stage
  <2>3. Down(i, {f.old.path}) => Down(i, {})' BY <1>2, <1>9 DEF Down, DownBut
  <2>4. f.fn = "update" => rows[i] = f.new BY <1>1, <2>2 DEF Moving
  <2>5. f.fn = "update" /\ e # NoDriver => Alone(i, e, {f.old.path})
    BY <1>1, <1>4, <2>2 DEF Moving
  <2>6. Alone(i, e, {f.old.path}) => Alone(i, e, {f.new.path})'
    <3>1. \A c \in Driver : MountedIn(c, {}) => MountedIn(c, {})' BY <1>6 DEF MountedIn
    <3>2. \A c \in Driver : MountedIn(c, {f.old.path}) => MountedIn(c, {f.new.path})'
      BY <1>6 DEF MountedIn
    <3> QED BY <1>2, <3>1, <3>2 DEF Alone, DownBut
  <2> QED BY <2>2, <2>3, <2>4, <2>5, <2>6
<1>11. CASE f.fn \in {"disable", "update"} /\ Return(p)
  <2>1. ASSUME spoiled \subseteq spoiled', GivenUp(p) \subseteq spoiled' PROVE Cleaned(p)
    <3> SUFFICES ASSUME i \notin spoiled' PROVE Clean(i)' BY <1>1 DEF Cleaned
    <3>1. f.fn # "update"
      <4> SUFFICES ASSUME f.fn = "update" PROVE FALSE OBVIOUS
      <4>1. ~f.new.disabled BY <1>4 DEF Shape
      <4>2. frame'[p] = NoFrame BY <1>3, <1>11 DEF Return, Goto, Base, Typed
      <4>3. i \in GivenUp(p) BY <1>1, <1>4, <4>1, <4>2 DEF GivenUp
      <4> QED BY <2>1, <4>3
    <3>2. rows'[i] = f.new /\ Down(i, {})' BY <1>2, <1>10, <1>11, <2>1, <3>1
    <3>3. f.new.disabled BY <1>4, <1>11, <3>1 DEF Shape
    <3> QED BY <3>2, <3>3 DEF Clean, Wanted
  <2> QED BY <1>7, <1>8, <1>11, <2>1, ReturnKeeps
<1>12. ASSUME NEW at \in {"erase", "drop"}, Goto(p, [f EXCEPT !.at = at]),
              at = "erase" => f.fn = "delete",
              at = "drop" => f.fn = "update" /\ e # NoDriver
       PROVE  IInv'
  <2>1. Gone(p, at, e, f.new) BY <1>1, <1>4, <1>12, AtMoves
  <2>2. /\ frame'[p].fn = f.fn /\ frame'[p].at = at /\ frame'[p].id = f.id
        /\ frame'[p].old = f.old /\ frame'[p].new = f.new /\ frame'[p].driver = e
        /\ Own(p)' \subseteq Own(p) \cup {f.new.path} /\ spoiled \subseteq spoiled'
    BY <1>1, <1>12, <2>1 DEF Gone, Local, Started
  <2>3. f.new.path \in Own(p) /\ e = Held(p) BY <1>1, <1>4 DEF Own, Held, Busy
  <2>4. Own(p)' \subseteq Own(p) BY <2>2, <2>3
  <2>5. Staged(p)
    <3> SUFFICES ASSUME i \notin spoiled' PROVE Stage(p)' BY <1>1 DEF Staged
    <3>1. CASE at = "erase"
      BY <1>1, <1>2, <1>10, <1>12, <2>2, <3>1 DEF Stage, Started
    <3>2. CASE at = "drop"
      <4>1. Moving(p)' BY <1>1, <1>2, <1>10, <1>12, <2>2, <3>2 DEF Moving
      <4> QED BY <1>1, <1>2, <1>10, <1>12, <2>2, <3>2, <4>1 DEF Stage, Started
    <3> QED BY <1>12, <3>1, <3>2
  <2>6. e \in {Held(p), NoDriver} BY <2>3
  <2> QED BY <1>4, <1>7, <1>8, <2>1, <2>4, <2>5, <2>6, GoneKeeps
<1> QED BY <1>1, <1>11, <1>12 DEF Unmount

\* A step at work takes no path.
LEMMA OwnApartKept ==
    ASSUME IInv, NEW p \in Process, Local(p), Effect(p), Busy(p), Own(p)' \subseteq Own(p)
    PROVE  OwnApart(p)
<1> SUFFICES ASSUME NEW i \in Id \ spoiled', rows'[i] # NoRow, Busy(p)', frame'[p].id # i
             PROVE  rows'[i].path \notin Own(p)
  BY DEF OwnApart
<1>1. frame'[p].id = frame[p].id /\ i \in Id \ spoiled BY DEF Local
<1>2. ~Mine(p, i) BY <1>1 DEF Mine
<1>3. rows'[i] = rows[i] BY <1>2 DEF Effect
<1> QED BY <1>1, <1>3 DEF IInv, Apart

\* The driver stops.  One that is loaded again leaves a new driver to be started.
LEMMA DropKeeps ==
    ASSUME IInv, NEW p \in Process, Drop(p), Watched(p)
    PROVE  IInv'
<1>1. PICK f, i, e : f = frame[p] /\ i = f.id /\ e = f.driver OBVIOUS
<1>2. At(p, "drop") /\ rows' = rows /\ mounted' = mounted
  BY DEF Drop
<1>3. Base BY DEF IInv
<1>4. /\ Busy(p) /\ f.at = "drop" /\ f \in FrameRecord /\ Shape(f) /\ i \in Id /\ InPlace(f)
      /\ mounted \in [Path -> Driver \cup {NoDriver}] /\ drivers \in [Driver -> DriverRecord]
  BY <1>1, <1>2, <1>3, WorkerHas
<1>5. f.fn \in {"disable", "delete", "update", "load"} /\ f.new \in RowRecord
      /\ f.old \in RowRecord /\ f.old # NoRow /\ f.old.path \in Path
      /\ e \in Driver /\ e # NoDriver
  BY <1>1, <1>4 DEF InPlace, Started, Shape, FrameRecord, RowRecord
<1>6. RowKept(p) /\ e = Held(p) BY <1>1, <1>2, <1>4 DEF RowKept, Held, Busy
<1>7. ASSUME spoiled \subseteq spoiled', i \notin spoiled'
      PROVE  /\ drivers[e].id = i
             /\ f.fn = "update" => rows[i] = f.new /\ Alone(i, e, {f.new.path})
             /\ f.fn # "update" => /\ rows[i] = f.old /\ Clean(i)
                                   /\ ~f.old.disabled /\ mounted[f.old.path] = e
                                   /\ Alone(i, e, {f.old.path})
  <2>1. Stage(p) BY <1>1, <1>4, <1>7, StageHas
  <2>2. drivers[e].id = i BY <1>1, <1>4, <1>5, <2>1 DEF Stage
  <2>3. CASE f.fn = "update"
    <3>1. Moving(p) BY <1>1, <1>4, <2>1, <2>3 DEF Stage
    <3> QED BY <1>1, <1>4, <2>2, <2>3, <3>1 DEF Moving
  <2>4. CASE f.fn # "update"
    <3>1. rows[i] = f.old /\ Clean(i) /\ mounted[f.old.path] = e
      BY <1>1, <1>4, <2>1, <2>4 DEF Stage, Before
    <3>2. ~f.old.disabled BY <1>4, <1>5, <2>4 DEF Shape
    <3>3. Alone(i, e, {f.old.path}) BY <1>5, <3>1, <3>2 DEF Clean, Wanted, Serves
    <3> QED BY <2>2, <2>4, <3>1, <3>2, <3>3
  <2> QED BY <2>3, <2>4
<1>8. CASE Return(p) /\ drivers' = drivers
  <2>1. Effect(p) BY <1>1, <1>2, <1>4, <1>8, QuietEffect
  <2>2. ASSUME spoiled \subseteq spoiled', GivenUp(p) \subseteq spoiled' PROVE Cleaned(p)
    <3> SUFFICES ASSUME i \notin spoiled' PROVE Clean(i)' BY <1>1 DEF Cleaned
    <3>1. f.fn # "update"
      <4> SUFFICES ASSUME f.fn = "update" PROVE FALSE OBVIOUS
      <4>1. ~f.new.disabled BY <1>4 DEF Shape
      <4>2. frame'[p] = NoFrame BY <1>3, <1>8 DEF Return, Goto, Base, Typed
      <4>3. i \in GivenUp(p) BY <1>1, <1>4, <4>1, <4>2 DEF GivenUp
      <4> QED BY <2>2, <4>3
    <3>2. Clean(i) BY <1>7, <2>2, <3>1
    <3> QED BY <1>2, <1>8, <3>2, QuietSays
  <2> QED BY <1>6, <1>8, <2>1, <2>2, ReturnKeeps
<1>9. CASE /\ drivers' = [drivers EXCEPT ![e].live = FALSE]
           /\ CASE f.fn = "disable" -> Goto(p, [f EXCEPT !.at = "write"])
                [] f.fn = "delete"  -> Goto(p, [f EXCEPT !.at = "unmount"])
                [] f.fn = "update"  -> Goto(p, [f EXCEPT !.at = "set"])
                [] f.fn = "load"    -> Load(p, f)
  <2>1. /\ \A c \in Driver : c # e => drivers'[c] = drivers[c]
        /\ drivers'[e].id = drivers[e].id /\ drivers'[e].path = drivers[e].path
        /\ ~drivers'[e].live
    BY <1>4, <1>5, <1>9 DEF DriverRecord
  <2>2. Effect(p) BY <1>1, <1>2, <1>4, <1>5, <1>6, <2>1 DEF Effect
  <2>3. ASSUME NEW S, Alone(i, e, S) PROVE Down(i, S)'
    <3> SUFFICES ASSUME NEW c \in Driver, drivers'[c].id = i
                 PROVE  ~drivers'[c].live /\ MountedIn(c, S)'
      BY DEF Down, DownBut
    <3>1. CASE c = e BY <1>2, <2>1, <2>3, <3>1 DEF Alone, MountedIn
    <3>2. CASE c # e
      <4>1. ~drivers[c].live /\ MountedIn(c, {}) BY <2>1, <2>3, <3>2 DEF Alone, DownBut
      <4> QED BY <1>2, <2>1, <3>2, <4>1 DEF MountedIn
    <3> QED BY <3>1, <3>2
  <2>4. ASSUME NEW at \in {"write", "unmount", "set"}, Goto(p, [f EXCEPT !.at = at]),
               at = "write" => f.fn = "disable",
               at = "unmount" => f.fn = "delete",
               at = "set" => f.fn = "update"
        PROVE  IInv'
    <3>1. Gone(p, at, e, f.new) BY <1>1, <1>4, <2>4, AtMoves
    <3>2. /\ frame'[p].fn = f.fn /\ frame'[p].at = at /\ frame'[p].id = f.id
          /\ frame'[p].old = f.old /\ frame'[p].new = f.new /\ frame'[p].driver = e
          /\ Own(p)' \subseteq Own(p) \cup {f.new.path} /\ spoiled \subseteq spoiled'
      BY <1>1, <2>4, <3>1 DEF Gone, Local, Started
    <3>3. f.new.path \in Own(p) BY <1>1, <1>4 DEF Own
    <3>4. Own(p)' \subseteq Own(p) BY <3>2, <3>3
    <3>5. Staged(p)
      <4> SUFFICES ASSUME i \notin spoiled' PROVE Stage(p)' BY <1>1 DEF Staged
      <4>0. drivers'[e].id = i BY <1>7, <2>1, <3>2
      <4>1. CASE at \in {"write", "unmount"}
        <5>1. rows'[i] = f.old /\ Down(i, {f.old.path})'
          BY <1>2, <1>7, <2>3, <2>4, <3>2, <4>1
        <5> QED BY <1>1, <2>4, <3>2, <4>0, <4>1, <5>1 DEF Stage, Started
      <4>2. CASE at = "set"
        <5>1. rows'[i] = f.new /\ ~f.new.disabled /\ f.new # NoRow
          BY <1>2, <1>4, <1>5, <1>7, <2>4, <3>2, <4>2 DEF Shape
        <5>2. Alone(i, e, {f.new.path}) BY <1>7, <2>4, <3>2, <4>2
        <5>3. Down(i, {f.new.path})' BY <2>3, <5>2
        <5>4. MountedIn(e, {f.new.path})' BY <1>2, <5>2 DEF Alone, MountedIn
        <5>5. Starting(p)' BY <1>1, <2>1, <3>2, <4>2, <5>1, <5>3, <5>4
              DEF Starting, Wanted, Started
        <5> QED BY <3>2, <4>2, <5>5 DEF Stage, Started
      <4> QED BY <2>4, <4>1, <4>2
    <3>6. e \in {Held(p), NoDriver} BY <1>6
    <3> QED BY <1>4, <1>6, <2>2, <3>1, <3>4, <3>5, <3>6, GoneKeeps
  <2>5. CASE f.fn = "load"
    <3>1. Load(p, frame[p]) BY <1>1, <1>9, <2>5
    <3>2. PICK d \in Unreferenced, g \in FrameRecord :
             /\ g.fn = f.fn /\ g.at = "set" /\ g.id = i
             /\ g.old = f.old /\ g.new = f.new /\ g.driver = d
             /\ frame'[p] = g /\ Local(p) /\ Busy(p)' /\ Held(p)' = d
             /\ Own(p)' \subseteq Own(p)
      BY <1>1, <1>4, <2>5, <3>1, LoadOwes
    <3>3. d \in Driver /\ d # e BY <1>1, <1>4 DEF Unreferenced, Busy
    <3>4. drivers'[d] = drivers[d] BY <2>1, <3>3
    <3>5. OwnHolds(p) /\ OwnSole(p) BY <1>2, <3>2, <3>4, TakenOwes
    <3>6. OwnApart(p) BY <1>4, <2>2, <3>2, OwnApartKept
    <3>7. Staged(p)
      <4> SUFFICES ASSUME i \notin spoiled' PROVE Stage(p)' BY <1>1 DEF Staged
      <4>1. rows[i] = f.old /\ ~f.old.disabled /\ Alone(i, e, {f.old.path})
        BY <1>7, <2>5, <3>2 DEF Local
      <4>2. f.new.path = f.old.path BY <1>4, <2>5 DEF Shape
      <4>3. Down(i, {f.new.path})' BY <2>3, <4>1, <4>2
      <4>4. Wanted(i)' /\ rows'[i].path = f.new.path BY <1>2, <1>5, <4>1, <4>2 DEF Wanted
      <4>5. ~f.new.disabled BY <1>4, <2>5 DEF Shape
      <4> QED BY <1>2, <1>4, <3>2, <3>4, <4>3, <4>4, <4>5, LoadStage
    <3>8. OwnStage(p) BY <1>1, <1>4, <3>2, <3>7 DEF OwnStage, Mine, Staged
    <3>9. Owed(p) BY <1>6, <3>5, <3>6, <3>8 DEF Owed
    <3> QED BY <2>2, <3>2, <3>9, KeepsIInv
  <2>6. CASE f.fn = "disable"
    <3>1. Goto(p, [f EXCEPT !.at = "write"]) BY <1>9, <2>6
    <3> QED BY <2>4, <2>6, <3>1
  <2>7. CASE f.fn = "delete"
    <3>1. Goto(p, [f EXCEPT !.at = "unmount"]) BY <1>9, <2>7
    <3> QED BY <2>4, <2>7, <3>1
  <2>8. CASE f.fn = "update"
    <3>1. Goto(p, [f EXCEPT !.at = "set"]) BY <1>9, <2>8
    <3> QED BY <2>4, <2>8, <3>1
  <2> QED BY <1>5, <2>5, <2>6, <2>7, <2>8
<1> QED BY <1>1, <1>8, <1>9 DEF Drop

\* The row of a storage that is down is deleted.
LEMMA EraseKeeps ==
    ASSUME IInv, NEW p \in Process, Erase(p), Watched(p)
    PROVE  IInv'
<1>1. PICK f, i : f = frame[p] /\ i = f.id OBVIOUS
<1>2. /\ At(p, "erase") /\ drivers' = drivers /\ mounted' = mounted
      /\ rows' = [rows EXCEPT ![i] = NoRow] /\ Return(p)
  BY <1>1 DEF Erase, memory, Saved
<1>3. Base BY DEF IInv
<1>4. Busy(p) /\ f.at = "erase" /\ i \in Id /\ rows \in [Id -> RowRecord \cup {NoRow}]
  BY <1>1, <1>2, <1>3, WorkerHas
<1>5. \A j \in Id : rows'[j] = IF j = i THEN NoRow ELSE rows[j] BY <1>2, <1>4
<1>6. Effect(p)
  <2>1. \A j \in Id : rows'[j] # rows[j] => j = i BY <1>5
  <2>2. Mine(p, i) BY <1>1, <1>4 DEF Mine
  <2> QED BY <1>1, <1>2, <1>4, <2>1, <2>2 DEF Effect
<1>7. RowKept(p)
  <2> SUFFICES ASSUME NEW j \in Id, Mine(p, j) PROVE rows'[j] = NoRow
    BY DEF RowKept
  <2>1. frame'[p] = NoFrame BY <1>2, <1>3 DEF Return, Goto, Base, Typed
  <2> QED BY <1>1, <1>5, <2>1 DEF Mine, Busy
<1>8. ASSUME spoiled \subseteq spoiled' PROVE Cleaned(p)
  <2> SUFFICES ASSUME i \notin spoiled' PROVE Clean(i)' BY <1>1 DEF Cleaned
  <2>1. Down(i, {}) BY <1>1, <1>4, <1>8, StageHas DEF Stage
  <2>2. Down(i, {})' BY <1>2, <2>1 DEF Down, DownBut, MountedIn
  <2>3. rows'[i] = NoRow BY <1>4, <1>5
  <2> QED BY <2>2, <2>3 DEF Clean, Wanted
<1> QED BY <1>2, <1>6, <1>7, <1>8, ReturnKeeps

\* What initStorage starts from
LEMMA StarterHas ==
    ASSUME IInv, NEW p \in Process, NEW at \in Started \cup {"set"}, At(p, at)
    PROVE  /\ Busy(p) /\ frame[p].at = at /\ frame[p] \in FrameRecord
           /\ frame[p].id \in Id
           /\ frame[p].new \in RowRecord /\ frame[p].new.path \in Path
           /\ frame[p].fn \in {"create", "enable", "update", "load"}
           /\ frame[p].driver \in Driver /\ frame[p].driver # NoDriver
           /\ Held(p) = frame[p].driver
           /\ rows \in [Id -> RowRecord \cup {NoRow}] /\ RowsNumbered
           /\ drivers \in [Driver -> DriverRecord] /\ DriversNumbered
           /\ mounted \in [Path -> Driver \cup {NoDriver}]
           /\ spoiled \subseteq spoiled' /\ frame[p].id \notin spoiled' =>
                Starting(p) /\ (at # "set" => drivers[frame[p].driver].id = frame[p].id)
<1>1. Base BY DEF IInv
<1>2. at \notin {"insert", "read", "write", "lookup", "unmount", "drop", "erase"}
  BY DEF Started
<1>3. /\ Busy(p) /\ frame[p].at = at /\ frame[p] \in FrameRecord
      /\ Shape(frame[p]) /\ InPlace(frame[p]) /\ frame[p].id \in Id
      /\ rows \in [Id -> RowRecord \cup {NoRow}] /\ RowsNumbered
      /\ drivers \in [Driver -> DriverRecord] /\ DriversNumbered
      /\ mounted \in [Path -> Driver \cup {NoDriver}]
      /\ frame[p].fn \in {"create", "enable", "disable", "update", "delete", "load"}
  BY <1>1, <1>2, WorkerHas
<1>4. frame[p].fn \in {"create", "enable", "update", "load"}
  BY <1>2, <1>3 DEF InPlace
<1>5. frame[p].new \in RowRecord /\ frame[p].new.path \in Path
      /\ frame[p].driver \in Driver
  BY <1>2, <1>3, <1>4 DEF Shape, RowRecord
<1>6. frame[p].driver # NoDriver /\ Held(p) = frame[p].driver
  BY <1>3, <1>5 DEF Held, Busy
<1>7. ASSUME spoiled \subseteq spoiled', frame[p].id \notin spoiled'
      PROVE  Starting(p) /\ (at # "set" => drivers[frame[p].driver].id = frame[p].id)
  <2>1. Stage(p) BY <1>3, <1>7, StageHas
  <2> QED BY <1>3, <1>6, <2>1 DEF Stage
<1> QED BY <1>3, <1>4, <1>5, <1>6, <1>7

\* The driver takes the storage's row; until then it was nobody's, or the storage's own.
LEMMA SetStorageKeeps ==
    ASSUME IInv, NEW p \in Process, SetStorage(p), Watched(p)
    PROVE  IInv'
<1>1. PICK f, i, e : f = frame[p] /\ i = f.id /\ e = f.driver OBVIOUS
<1>2. PICK r : r = [drivers[e] EXCEPT !.id = f.id, !.path = f.new.path,
                                 !.disabled = f.new.disabled, !.status = f.new.status]
  OBVIOUS
<1>3. /\ At(p, "set") /\ rows' = rows /\ mounted' = mounted
      /\ drivers' = [drivers EXCEPT ![e] = r]
      /\ Goto(p, [f EXCEPT !.at = "init"])
  BY <1>1, <1>2 DEF SetStorage
<1>4. /\ Busy(p) /\ f.at = "set" /\ f \in FrameRecord /\ i \in Id
      /\ f.new \in RowRecord /\ f.new.path \in Path
      /\ f.fn \in {"create", "enable", "update", "load"}
      /\ e \in Driver /\ e # NoDriver /\ Held(p) = e
      /\ drivers \in [Driver -> DriverRecord]
      /\ spoiled \subseteq spoiled' /\ i \notin spoiled' => Starting(p)
  BY <1>1, <1>3, StarterHas
<1>5. r.id = i /\ r.path = f.new.path /\ r.disabled = f.new.disabled /\ r.live = drivers[e].live
  BY <1>1, <1>2, <1>4 DEF DriverRecord
<1>6. drivers'[e] = r /\ \A c \in Driver : c # e => drivers'[c] = drivers[c]
  BY <1>3, <1>4
<1>7. RowKept(p) BY <1>3 DEF RowKept
<1>8. Effect(p) BY <1>1, <1>3, <1>4, <1>5, <1>6 DEF Effect
<1>9. Gone(p, "init", e, f.new) BY <1>1, <1>3, <1>4, AtMoves DEF Started
<1>10. /\ frame'[p].fn = f.fn /\ frame'[p].at = "init" /\ frame'[p].id = i
       /\ frame'[p].old = f.old /\ frame'[p].new = f.new /\ frame'[p].driver = e
       /\ spoiled \subseteq spoiled'
  BY <1>1, <1>9 DEF Gone, Local
<1>11. Own(p)' \subseteq Own(p)
  <2>1. drivers'[e].path = f.new.path BY <1>5, <1>6
  <2> QED BY <1>1, <1>4, <1>10, <2>1 DEF Own
<1>12. Staged(p)
  <2> SUFFICES ASSUME i \notin spoiled' PROVE Stage(p)' BY <1>1 DEF Staged
  <2>1. Starting(p) BY <1>4, <1>10
  <2>2. /\ Wanted(i) /\ rows[i].path = f.new.path /\ ~f.new.disabled
        /\ ~drivers[e].live /\ MountedIn(e, {f.new.path}) /\ Down(i, {f.new.path})
    BY <1>1, <1>4, <2>1 DEF Starting
  <2>3. Down(i, {f.new.path})'
    <3> SUFFICES ASSUME NEW c \in Driver, drivers'[c].id = i
                 PROVE  ~drivers'[c].live /\ MountedIn(c, {f.new.path})'
      BY DEF Down, DownBut
    <3>1. CASE c = e BY <1>3, <1>5, <1>6, <2>2, <3>1 DEF MountedIn
    <3>2. CASE c # e
      <4>1. c # NoDriver OBVIOUS
      <4> QED BY <1>3, <1>6, <2>2, <3>2, <4>1 DEF Down, DownBut, MountedIn
    <3> QED BY <3>1, <3>2
  <2>4. Wanted(i)' /\ rows'[i].path = f.new.path BY <1>3, <2>2 DEF Wanted
  <2>5. drivers'[e].path = f.new.path /\ ~drivers'[e].disabled /\ drivers'[e].id = i
    BY <1>4, <1>5, <1>6, <2>2
  <2>6. Starting(p)' BY <1>10, <2>2, <2>3, <2>4, <2>5 DEF Starting, Started
  <2> QED BY <1>10, <2>5, <2>6 DEF Stage, Started
<1>13. e \in {Held(p), NoDriver} BY <1>4
<1> QED BY <1>4, <1>7, <1>8, <1>9, <1>11, <1>12, <1>13, GoneKeeps

\* The driver starts, or fails, or panics.
LEMMA InitDriverKeeps ==
    ASSUME IInv, NEW p \in Process, InitDriver(p), Watched(p)
    PROVE  IInv'
<1>1. PICK f, i, e : f = frame[p] /\ i = f.id /\ e = f.driver OBVIOUS
<1>2. /\ At(p, "init") /\ rows' = rows /\ mounted' = mounted
  BY DEF InitDriver
<1>3. /\ Busy(p) /\ f.at = "init" /\ f \in FrameRecord /\ i \in Id
      /\ f.new \in RowRecord /\ f.new.path \in Path
      /\ f.fn \in {"create", "enable", "update", "load"}
      /\ e \in Driver /\ e # NoDriver /\ Held(p) = e
      /\ drivers \in [Driver -> DriverRecord]
      /\ (spoiled \subseteq spoiled' /\ i \notin spoiled' => Starting(p) /\ drivers[e].id = i)
  BY <1>1, <1>2, StarterHas DEF Started
<1>4. RowKept(p) BY <1>2 DEF RowKept
<1>5. ASSUME NEW at \in {"mount", "recover"}, NEW new, Gone(p, at, e, new),
             new.path = f.new.path /\ new.disabled = f.new.disabled,
             \A c \in Driver : c # e => drivers'[c] = drivers[c],
             drivers'[e].id = drivers[e].id /\ drivers'[e].path = drivers[e].path
               /\ drivers'[e].disabled = drivers[e].disabled,
             at = "mount" /\ ~drivers[e].live => (drivers'[e].live <=> new.status = "work"),
             at = "recover" => drivers'[e].status = "failed" /\ drivers'[e].live = drivers[e].live
      PROVE  IInv'
  <2>1. Effect(p) BY <1>1, <1>2, <1>3, <1>5 DEF Effect
  <2>2. /\ frame'[p].fn = f.fn /\ frame'[p].at = at /\ frame'[p].id = i
        /\ frame'[p].old = f.old /\ frame'[p].new = new /\ frame'[p].driver = e
        /\ spoiled \subseteq spoiled'
    BY <1>1, <1>5 DEF Gone, Local
  <2>3. Own(p)' \subseteq Own(p) BY <1>1, <1>3, <1>5, <2>2 DEF Own, Started
  <2>4. Staged(p)
    <3> SUFFICES ASSUME i \notin spoiled' PROVE Stage(p)' BY <1>1 DEF Staged
    <3>1. Starting(p) /\ drivers[e].id = i BY <1>3, <2>2
    <3>2. /\ Wanted(i) /\ rows[i].path = f.new.path /\ ~f.new.disabled
          /\ drivers[e].path = f.new.path /\ ~drivers[e].disabled /\ Down(i, {f.new.path})
      BY <1>1, <1>3, <3>1 DEF Starting, Started
    <3>3. ~drivers[e].live /\ MountedIn(e, {f.new.path})
      BY <1>3, <3>1, <3>2 DEF Down, DownBut
    <3>4. DownBut(i, e, {f.new.path})'
      <4> SUFFICES ASSUME NEW c \in Driver, c # e, drivers'[c].id = i
                   PROVE  ~drivers'[c].live /\ MountedIn(c, {f.new.path})'
        BY DEF DownBut
      <4>1. c # NoDriver /\ drivers'[c] = drivers[c] BY <1>5
      <4> QED BY <1>2, <3>2, <4>1 DEF Down, DownBut, MountedIn
    <3>5. MountedIn(e, {f.new.path})' BY <1>2, <3>3 DEF MountedIn
    <3>6. at = "recover" => Down(i, {f.new.path})'
      BY <1>5, <3>3, <3>4, <3>5 DEF Down, DownBut
    <3>7. Wanted(i)' /\ rows'[i].path = f.new.path BY <1>2, <3>2 DEF Wanted
    <3>8. /\ drivers'[e].path = f.new.path /\ ~drivers'[e].disabled /\ drivers'[e].id = i
          /\ at = "mount" => (drivers'[e].live <=> new.status = "work")
      BY <1>5, <3>1, <3>2, <3>3
    <3>9. Starting(p)'
      BY <1>5, <2>2, <3>2, <3>4, <3>5, <3>6, <3>7, <3>8 DEF Starting, Started
    <3> QED BY <1>5, <2>2, <3>8, <3>9 DEF Stage, Started
  <2>5. e \in {Held(p), NoDriver} BY <1>3
  <2> QED BY <1>3, <1>4, <1>5, <2>1, <2>3, <2>4, <2>5, GoneKeeps
<1>6. ASSUME NEW st \in {"work", "failed"},
             Goto(p, [f EXCEPT !.at = "mount", !.new.status = st])
      PROVE  \E new : /\ Gone(p, "mount", e, new)
                      /\ new.path = f.new.path /\ new.disabled = f.new.disabled
                      /\ new.status = st
  <2>1. PICK new : new = [f.new EXCEPT !.status = st] OBVIOUS
  <2>2. /\ new \in RowRecord /\ new.path = f.new.path /\ new.disabled = f.new.disabled
        /\ new.status = st
    BY <1>3, <2>1 DEF RowRecord, Status
  <2>3. [f EXCEPT !.at = "mount", !.new.status = st]
          = [f EXCEPT !.driver = e, !.new = new, !.at = "mount"]
    BY <1>1, <1>3, <2>1 DEF FrameRecord
  <2>4. Goes(p, "mount", e, new) BY <1>1, <1>3, <1>6, <2>2, <2>3 DEF Goes, Goto, Started
  <2>5. Gone(p, "mount", e, new) BY <2>4, AtGoes
  <2> QED BY <2>2, <2>5
<1>7. CASE /\ drivers' = [drivers EXCEPT ![e].live = TRUE]
           /\ Goto(p, [f EXCEPT !.at = "mount", !.new.status = "work"])
  <2>1. PICK new : /\ Gone(p, "mount", e, new) /\ new.path = f.new.path
                   /\ new.disabled = f.new.disabled /\ new.status = "work"
    BY <1>6, <1>7
  <2>2. /\ \A c \in Driver : c # e => drivers'[c] = drivers[c]
        /\ drivers'[e].id = drivers[e].id /\ drivers'[e].path = drivers[e].path
        /\ drivers'[e].disabled = drivers[e].disabled /\ drivers'[e].live
    BY <1>3, <1>7 DEF DriverRecord
  <2> QED BY <1>5, <2>1, <2>2
<1>8. CASE /\ drivers' = drivers
           /\ Goto(p, [f EXCEPT !.at = "mount", !.new.status = "failed"])
  <2>1. PICK new : /\ Gone(p, "mount", e, new) /\ new.path = f.new.path
                   /\ new.disabled = f.new.disabled /\ new.status = "failed"
    BY <1>6, <1>8
  <2> QED BY <1>5, <1>8, <2>1
<1>9. CASE /\ drivers' = [drivers EXCEPT ![e].status = "failed"]
           /\ Goto(p, [f EXCEPT !.at = "recover"])
  <2>1. Gone(p, "recover", e, f.new) BY <1>1, <1>3, <1>9, AtMoves DEF Started
  <2>2. /\ \A c \in Driver : c # e => drivers'[c] = drivers[c]
        /\ drivers'[e].id = drivers[e].id /\ drivers'[e].path = drivers[e].path
        /\ drivers'[e].disabled = drivers[e].disabled /\ drivers'[e].live = drivers[e].live
        /\ drivers'[e].status = "failed"
    BY <1>3, <1>9 DEF DriverRecord
  <2> QED BY <1>5, <2>1, <2>2
<1> QED BY <1>1, <1>7, <1>8, <1>9 DEF InitDriver

\* Whatever was mounted at the path gives way to the driver.
LEMMA MountKeeps ==
    ASSUME IInv, NEW p \in Process, Mount(p), Watched(p)
    PROVE  IInv'
<1>1. PICK f, i, e, path : f = frame[p] /\ i = f.id /\ e = f.driver /\ path = drivers[e].path
  OBVIOUS
<1>2. /\ At(p, "mount") /\ rows' = rows
      /\ mounted' = [mounted EXCEPT ![path] = e]
      /\ drivers' = [drivers EXCEPT ![e].status = f.new.status]
      /\ Goto(p, [f EXCEPT !.at = "save"])
  BY <1>1 DEF Mount
<1>3. /\ Busy(p) /\ f.at = "mount" /\ f \in FrameRecord /\ i \in Id
      /\ f.new \in RowRecord /\ f.new.path \in Path
      /\ f.fn \in {"create", "enable", "update", "load"}
      /\ e \in Driver /\ e # NoDriver /\ Held(p) = e
      /\ drivers \in [Driver -> DriverRecord]
      /\ mounted \in [Path -> Driver \cup {NoDriver}]
      /\ (spoiled \subseteq spoiled' /\ i \notin spoiled' => Starting(p) /\ drivers[e].id = i)
  BY <1>1, <1>2, StarterHas DEF Started
<1>4. /\ \A c \in Driver : c # e => drivers'[c] = drivers[c]
      /\ drivers'[e].id = drivers[e].id /\ drivers'[e].path = path
      /\ drivers'[e].disabled = drivers[e].disabled /\ drivers'[e].live = drivers[e].live
      /\ drivers'[e].status = f.new.status
  BY <1>1, <1>2, <1>3 DEF DriverRecord
<1>5. \A x \in Path : mounted'[x] = IF x = path THEN e ELSE mounted[x] BY <1>2, <1>3
<1>6. RowKept(p) BY <1>2 DEF RowKept
<1>7. Effect(p)
  <2>1. path \in Own(p) BY <1>1, <1>3 DEF Own, Started
  <2> QED BY <1>1, <1>2, <1>3, <1>4, <1>5, <2>1 DEF Effect
<1>8. Gone(p, "save", e, f.new) BY <1>1, <1>2, <1>3, AtMoves DEF Started
<1>9. /\ frame'[p].fn = f.fn /\ frame'[p].at = "save" /\ frame'[p].id = i
      /\ frame'[p].old = f.old /\ frame'[p].new = f.new /\ frame'[p].driver = e
      /\ spoiled \subseteq spoiled'
  BY <1>1, <1>8 DEF Gone, Local
<1>10. Own(p)' \subseteq Own(p) BY <1>1, <1>3, <1>4, <1>9 DEF Own, Started
<1>11. Staged(p)
  <2> SUFFICES ASSUME i \notin spoiled' PROVE Stage(p)' BY <1>1 DEF Staged
  <2>1. Starting(p) /\ drivers[e].id = i BY <1>3, <1>9
  <2>2. /\ Wanted(i) /\ rows[i].path = f.new.path /\ ~f.new.disabled
        /\ path = f.new.path /\ ~drivers[e].disabled
        /\ DownBut(i, e, {f.new.path}) /\ MountedIn(e, {f.new.path})
        /\ drivers[e].live <=> f.new.status = "work"
    BY <1>1, <1>3, <2>1 DEF Starting, Started
  <2>3. DownBut(i, e, {})'
    <3> SUFFICES ASSUME NEW c \in Driver, c # e, drivers'[c].id = i
                 PROVE  ~drivers'[c].live /\ MountedIn(c, {})'
      BY DEF DownBut
    <3>1. drivers'[c] = drivers[c] /\ ~drivers[c].live /\ MountedIn(c, {f.new.path})
      BY <1>4, <2>2 DEF DownBut
    <3> QED BY <1>5, <2>2, <3>1 DEF MountedIn
  <2>4. MountedIn(e, {f.new.path})' BY <1>5, <2>2 DEF MountedIn
  <2>5. Alone(i, e, {f.new.path})' BY <1>3, <1>4, <2>1, <2>3, <2>4 DEF Alone
  <2>6. mounted'[f.new.path] = e BY <1>3, <1>5, <2>2
  <2>7. Wanted(i)' /\ rows'[i].path = f.new.path BY <1>2, <2>2 DEF Wanted
  <2>8. /\ drivers'[e].path = f.new.path /\ ~drivers'[e].disabled /\ drivers'[e].id = i
        /\ drivers'[e].live <=> drivers'[e].status = "work"
    BY <1>4, <2>1, <2>2
  <2>9. Starting(p)' BY <1>9, <2>2, <2>5, <2>6, <2>7, <2>8 DEF Starting, Started
  <2> QED BY <1>9, <2>8, <2>9 DEF Stage, Started
<1>12. e \in {Held(p), NoDriver} BY <1>3
<1> QED BY <1>3, <1>6, <1>7, <1>8, <1>10, <1>11, <1>12, GoneKeeps

\* The row that initStorage saves is of its own storage and keeps its path.
LEMMA StarterSaves ==
    ASSUME IInv, NEW p \in Process, NEW at \in {"save", "recover"}, At(p, at),
           SaveDriver(frame[p].driver), drivers' = drivers, mounted' = mounted,
           spoiled \subseteq spoiled'
    PROVE  /\ Effect(p)
           /\ frame'[p] = NoFrame \/ frame'[p].id = frame[p].id => RowKept(p)
           /\ frame[p].id \notin spoiled' => rows'[frame[p].id] = RowOf(frame[p].driver)
<1>1. PICK f, i, e : f = frame[p] /\ i = f.id /\ e = f.driver OBVIOUS
<1>2. /\ Busy(p) /\ f.at = at /\ i \in Id
      /\ f.new \in RowRecord /\ f.new.path \in Path
      /\ e \in Driver /\ e # NoDriver /\ Held(p) = e
      /\ rows \in [Id -> RowRecord \cup {NoRow}] /\ RowsNumbered
      /\ DriversNumbered /\ drivers \in [Driver -> DriverRecord]
      /\ (i \notin spoiled' => Starting(p) /\ drivers[e].id = i)
  BY <1>1, StarterHas DEF Started
<1>3. \A j \in Id : rows'[j] # rows[j] => j = drivers[e].id
  BY <1>1, <1>2 DEF SaveDriver, Saved
<1>4. \A j \in Id \ spoiled' : rows'[j] # rows[j] => j = i
  <2> SUFFICES ASSUME NEW j \in Id \ spoiled', j = drivers[e].id PROVE j = i
    BY <1>3
  <2>1. j \notin spoiled \cup {NoId} BY BoundAssumption DEF Id
  <2> QED BY <1>1, <1>2, <2>1 DEF IInv, Holds
<1>5. Effect(p)
  <2>1. Mine(p, i) BY <1>1, <1>2 DEF Mine
  <2> QED BY <1>1, <1>2, <1>4, <2>1 DEF Effect
<1>6. ASSUME i \notin spoiled'
      PROVE  rows'[i] = RowOf(e) /\ rows[i] # NoRow /\ rows'[i].path = rows[i].path
  <2>1. rows[i] # NoRow /\ rows[i].path = f.new.path /\ drivers[e].path = f.new.path
        /\ drivers[e].id = i
    BY <1>1, <1>2, <1>6 DEF Starting, Wanted, Started
  <2>2. Unique(i, drivers[e].path) BY <1>2, <2>1 DEF RowsNumbered, Unique
  <2>3. rows' = [rows EXCEPT ![i] = RowOf(e)] BY <1>1, <2>1, <2>2 DEF SaveDriver, Saved
  <2>4. RowOf(e).path = drivers[e].path BY DEF RowOf, Row
  <2> QED BY <1>2, <2>1, <2>3, <2>4
<1>7. ASSUME frame'[p] = NoFrame \/ frame'[p].id = i PROVE RowKept(p)
  <2> SUFFICES ASSUME NEW j \in Id \ spoiled', Mine(p, j), rows'[j] # NoRow
               PROVE  rows[j] # NoRow /\ rows'[j].path = rows[j].path
    BY DEF RowKept
  <2>1. j = i BY <1>1, <1>7 DEF Mine, Busy
  <2> QED BY <1>6, <2>1
<1> QED BY <1>1, <1>5, <1>6, <1>7

\* The row that is saved is the storage's, so memory and table agree when it is done.
LEMMA SaveKeeps ==
    ASSUME IInv, NEW p \in Process, Save(p), Watched(p)
    PROVE  IInv'
<1>1. PICK f, i, e : f = frame[p] /\ i = f.id /\ e = f.driver OBVIOUS
<1>2. /\ At(p, "save") /\ drivers' = drivers /\ mounted' = mounted
      /\ SaveDriver(e) /\ Return(p)
  BY <1>1 DEF Save, memory
<1>3. /\ f.at = "save" /\ i \in Id /\ f.new.path \in Path /\ e \in Driver
      /\ (spoiled \subseteq spoiled' /\ i \notin spoiled' => Starting(p) /\ drivers[e].id = i)
  BY <1>1, <1>2, StarterHas DEF Started
<1>4. frame'[p] = NoFrame /\ spoiled \subseteq spoiled'
  BY <1>2 DEF Return, Goto, IInv, Base, Typed, Watched, Observe
<1>5. /\ Effect(p) /\ RowKept(p)
      /\ i \notin spoiled' => rows'[i] = RowOf(e)
  BY <1>1, <1>2, <1>4, StarterSaves
<1>6. Cleaned(p)
  <2> SUFFICES ASSUME i \notin spoiled' PROVE Clean(i)' BY <1>1 DEF Cleaned
  <2>1. Starting(p) BY <1>3, <1>4
  <2>2. /\ drivers[e].path = f.new.path /\ ~drivers[e].disabled
        /\ Alone(i, e, {f.new.path}) /\ mounted[f.new.path] = e
        /\ drivers[e].live <=> drivers[e].status = "work"
    BY <1>1, <1>3, <2>1 DEF Starting, Started
  <2>3. RowOf(e)' = RowOf(e) /\ Alone(i, e, {f.new.path})'
    BY <1>2, <2>2 DEF RowOf, Alone, DownBut, MountedIn
  <2>4. rows'[i].path = f.new.path /\ ~rows'[i].disabled
    BY <1>5, <2>2 DEF RowOf, Row
  <2>5. Serves(i, e)' BY <1>2, <1>5, <2>2, <2>3, <2>4 DEF Serves
  <2>6. mounted'[rows'[i].path] = e BY <1>2, <2>2, <2>4
  <2>7. Serves(i, mounted[rows[i].path])'
    BY <2>4, <2>5, <2>6 DEF Serves, Alone, RowOf, MountedIn, DownBut
  <2>8. Wanted(i)'
    <3>1. Base' BY DEF Watched
    <3>2. rows'[i] # NoRow
      <4>1. RowOf(e) \in RowRecord
        <5>1. drivers[e] \in DriverRecord BY <1>3 DEF IInv, Base, Typed
        <5> QED BY <1>3, <2>2, <5>1 DEF RowOf, Row, RowRecord, DriverRecord
      <4> QED BY <1>5, <4>1
    <3> QED BY <2>4, <3>2 DEF Wanted
  <2> QED BY <2>7, <2>8 DEF Clean
<1> QED BY <1>2, <1>5, <1>6, ReturnKeeps

\* The same after a panic, before the driver is mounted
LEMMA RecoverSaveKeeps ==
    ASSUME IInv, NEW p \in Process, RecoverSave(p), Watched(p)
    PROVE  IInv'
<1>1. PICK f, i, e : f = frame[p] /\ i = f.id /\ e = f.driver OBVIOUS
<1>2. /\ At(p, "recover") /\ drivers' = drivers /\ mounted' = mounted
      /\ SaveDriver(e) /\ Goto(p, [f EXCEPT !.at = "recovered"])
  BY <1>1 DEF RecoverSave, memory
<1>3. /\ Busy(p) /\ f.at = "recover" /\ i \in Id /\ f.new.path \in Path /\ e \in Driver
      /\ e # NoDriver /\ Held(p) = e /\ drivers \in [Driver -> DriverRecord]
      /\ f.fn \in {"create", "enable", "update", "load"}
      /\ (spoiled \subseteq spoiled' /\ i \notin spoiled' => Starting(p) /\ drivers[e].id = i)
  BY <1>1, <1>2, StarterHas DEF Started
<1>4. Gone(p, "recovered", e, f.new) BY <1>1, <1>2, <1>3, AtMoves DEF Started
<1>5. /\ frame'[p].fn = f.fn /\ frame'[p].at = "recovered" /\ frame'[p].id = i
      /\ frame'[p].old = f.old /\ frame'[p].new = f.new /\ frame'[p].driver = e
      /\ spoiled \subseteq spoiled'
  BY <1>1, <1>4 DEF Gone, Local
<1>6. /\ Effect(p) /\ RowKept(p)
      /\ i \notin spoiled' => rows'[i] = RowOf(e)
  BY <1>1, <1>2, <1>5, StarterSaves
<1>7. Own(p)' \subseteq Own(p) BY <1>1, <1>2, <1>3, <1>5 DEF Own, Started
<1>8. Staged(p)
  <2> SUFFICES ASSUME i \notin spoiled' PROVE Stage(p)' BY <1>1 DEF Staged
  <2>1. Starting(p) /\ drivers[e].id = i BY <1>3, <1>5
  <2>2. /\ drivers[e].path = f.new.path /\ ~drivers[e].disabled /\ ~f.new.disabled
        /\ Down(i, {f.new.path}) /\ drivers[e].status = "failed"
    BY <1>1, <1>3, <2>1 DEF Starting, Started
  <2>3. Down(i, {f.new.path})' /\ RowOf(e)' = RowOf(e)
    BY <1>2, <2>2 DEF Down, DownBut, MountedIn, RowOf
  <2>4. rows'[i].path = f.new.path /\ ~rows'[i].disabled BY <1>6, <2>2 DEF RowOf, Row
  <2>5. Wanted(i)'
    <3>1. RowOf(e) \in RowRecord
      <4>1. drivers[e] \in DriverRecord BY <1>3
      <4> QED BY <1>3, <2>2, <4>1 DEF RowOf, Row, RowRecord, DriverRecord
    <3> QED BY <1>6, <2>4, <3>1 DEF Wanted
  <2>6. Starting(p)' BY <1>2, <1>5, <1>6, <2>2, <2>3, <2>4, <2>5 DEF Starting, Started
  <2> QED BY <1>2, <1>5, <2>1, <2>6 DEF Stage, Started
<1>9. e \in {Held(p), NoDriver} BY <1>3
<1> QED BY <1>3, <1>4, <1>6, <1>7, <1>8, <1>9, GoneKeeps

\* and when it is: it is mounted as failed and does not run.
LEMMA RecoverMountKeeps ==
    ASSUME IInv, NEW p \in Process, RecoverMount(p), Watched(p)
    PROVE  IInv'
<1>1. PICK f, i, e, path : f = frame[p] /\ i = f.id /\ e = f.driver /\ path = drivers[e].path
  OBVIOUS
<1>2. /\ At(p, "recovered") /\ rows' = rows /\ drivers' = drivers
      /\ mounted' = [mounted EXCEPT ![path] = e] /\ Return(p)
  BY <1>1 DEF RecoverMount
<1>3. /\ Busy(p) /\ f.at = "recovered" /\ i \in Id /\ f.new.path \in Path /\ e \in Driver
      /\ e # NoDriver /\ Held(p) = e /\ mounted \in [Path -> Driver \cup {NoDriver}]
      /\ (spoiled \subseteq spoiled' /\ i \notin spoiled' => Starting(p) /\ drivers[e].id = i)
  BY <1>1, <1>2, StarterHas DEF Started
<1>4. RowKept(p) BY <1>2 DEF RowKept
<1>5. \A x \in Path : mounted'[x] = IF x = path THEN e ELSE mounted[x] BY <1>2, <1>3
<1>6. Effect(p)
  <2>1. path \in Own(p) BY <1>1, <1>3 DEF Own, Started
  <2> QED BY <1>1, <1>2, <1>3, <1>5, <2>1 DEF Effect
<1>7. ASSUME spoiled \subseteq spoiled' PROVE Cleaned(p)
  <2> SUFFICES ASSUME i \notin spoiled' PROVE Clean(i)' BY <1>1 DEF Cleaned
  <2>1. Starting(p) /\ drivers[e].id = i BY <1>3, <1>7
  <2>2. /\ Wanted(i) /\ rows[i].path = f.new.path
        /\ path = f.new.path /\ ~drivers[e].disabled /\ Down(i, {f.new.path})
        /\ drivers[e].status = "failed" /\ rows[i] = RowOf(e)
    BY <1>1, <1>3, <2>1 DEF Starting, Started
  <2>3. ~drivers[e].live /\ MountedIn(e, {f.new.path})
    BY <1>3, <2>1, <2>2 DEF Down, DownBut
  <2>4. DownBut(i, e, {})'
    <3> SUFFICES ASSUME NEW c \in Driver, c # e, drivers[c].id = i
                 PROVE  ~drivers[c].live /\ MountedIn(c, {})'
      BY <1>2 DEF DownBut
    <3>1. c # NoDriver OBVIOUS
    <3>2. ~drivers[c].live /\ MountedIn(c, {f.new.path}) BY <2>2, <3>1 DEF Down, DownBut
    <3> QED BY <1>5, <2>2, <3>2 DEF MountedIn
  <2>5. MountedIn(e, {f.new.path})' BY <1>5, <2>2, <2>3 DEF MountedIn
  <2>6. Alone(i, e, {f.new.path})' BY <1>2, <1>3, <2>1, <2>4, <2>5 DEF Alone
  <2>7. rows'[i].path = f.new.path /\ mounted'[f.new.path] = e /\ rows'[i] = rows[i]
        /\ RowOf(e)' = RowOf(e)
    BY <1>2, <1>3, <1>5, <2>2 DEF RowOf
  <2>8. Serves(i, e)' BY <1>2, <2>2, <2>3, <2>6, <2>7 DEF Serves
  <2>9. Serves(i, mounted[rows[i].path])'
    BY <2>7, <2>8 DEF Serves, Alone, RowOf, MountedIn, DownBut
  <2>10. Wanted(i)' BY <1>2, <2>2 DEF Wanted
  <2> QED BY <2>9, <2>10 DEF Clean
<1> QED BY <1>2, <1>4, <1>6, <1>7, ReturnKeeps

\* Every step of an operation keeps the invariant.
LEMMA StepKeeps ==
    ASSUME IInv, NEW p \in Process, Step(p)
    PROVE  IInv'
<1>1. Base' BY ProcessBase DEF IInv
<1>2. Watched(p) BY <1>1 DEF Step, Watched
<1> QED BY <1>2, InsertKeeps, ReadKeeps, WriteKeeps, LookupKeeps, UnmountKeeps, DropKeeps,
           EraseKeeps, SetStorageKeeps, InitDriverKeeps, MountKeeps, SaveKeeps,
           RecoverSaveKeeps, RecoverMountKeeps DEF Step

-----------------------------------------------------------------------------
(* The steps of Next that are not those of an operation *)

\* Memory stays, and so do the rows of the storages that are not spoiled.
Still ==
    /\ Base' /\ drivers' = drivers /\ mounted' = mounted
    /\ spoiled \subseteq spoiled' /\ Overlapping' \subseteq spoiled'
    /\ \A i \in Id \ spoiled' : rows'[i] = rows[i]

\* Then what is said of those storages, and of who is at work on them, stays true.
LEMMA StillSays ==
    ASSUME IInv, Still, NEW i \in Id \ spoiled'
    PROVE  /\ i \in Id \ spoiled /\ rows'[i] = rows[i]
           /\ Clean(i) => Clean(i)'
           /\ \A S : Down(i, S) => Down(i, S)'
           /\ \A q \in Process : Busy(q) /\ frame'[q] = frame[q] /\ frame[q].id = i /\ Stage(q)
                => Stage(q)'
<1>1. Untouched(i, NoDriver) BY SentinelAssumption DEF Still, Untouched
<1>2. Base BY DEF IInv
<1>3. \A S : Down(i, S) => Down(i, S)' BY <1>1, DownKept DEF Down
<1>4. Clean(i) => Clean(i)' BY <1>1, <1>2, CleanKept
<1>5. ASSUME NEW q \in Process, Busy(q), frame'[q] = frame[q], frame[q].id = i, Stage(q)
      PROVE  Stage(q)'
  <2>1. PICK h : h = NoDriver OBVIOUS
  <2>2. Untouched(frame[q].id, h) /\ h \in Driver \cup {NoDriver} BY <1>1, <1>5, <2>1
  <2>3. frame[q].driver = NoDriver \/ frame[q].driver # h BY <2>1
  <2> QED BY <1>2, <1>5, <2>2, <2>3, StageKept
<1> QED BY <1>3, <1>4, <1>5 DEF Still

\* The loader has turned to a storage.
Turned ==
    /\ OwnApart(Loader) /\ OwnHolds(Loader) /\ OwnSole(Loader)
    /\ frame'[Loader].id \notin spoiled' => Stage(Loader)'

\* A process has what it had.
Kept(q) == Busy(q) /\ frame'[q] = frame[q]

\* Whom the storages and the rows yet to be loaded belong to
Waiting(i) ==
    /\ (\A q \in Process : i \notin AtWork(q)') => \A q \in Process : i \notin AtWork(q)
    /\ todo'[i] # NoRow =>
          /\ rows[i] = todo'[i]
          /\ IF reload' THEN Clean(i) ELSE Down(i, {})
    /\ rows[i] # NoRow => \A j \in Id : j # i /\ todo'[j] # NoRow =>
          rows[i].path # todo'[j].path

\* A step that leaves memory alone keeps the invariant when every process has what
\* it had, or is the loader that has turned to a storage.
LEMMA StillKeeps ==
    ASSUME IInv, Still,
           \A q \in Process : Busy(q)' \/ Held(q)' # NoDriver =>
              Kept(q) \/ (q = Loader /\ Turned),
           \A i \in Id \ spoiled' : Waiting(i)
    PROVE  IInv'
<1>1. Base /\ Base' /\ drivers' = drivers /\ mounted' = mounted /\ spoiled \subseteq spoiled'
      /\ (Overlapping \subseteq spoiled)'
  BY DEF IInv, Still
<1>2. \A q \in Process : Kept(q) => Held(q)' = Held(q) /\ Own(q)' = Own(q)
  BY <1>1 DEF Kept, Held, Own
<1>3. Stages'
  <2> SUFFICES ASSUME NEW i \in Id, i \notin spoiled'
               PROVE  /\ (\A q \in Process : i \notin AtWork(q)') => Clean(i)'
                      /\ todo'[i] # NoRow =>
                            /\ rows'[i] = todo'[i]
                            /\ IF reload' THEN Clean(i)' ELSE Down(i, {})'
                      /\ \A q \in Process : Busy(q)' /\ frame'[q].id = i => Stage(q)'
    BY DEF Stages
  <2>1. /\ i \in Id \ spoiled /\ rows'[i] = rows[i] /\ Waiting(i)
        /\ Clean(i) => Clean(i)'
        /\ Down(i, {}) => Down(i, {})'
        /\ \A q \in Process : Busy(q) /\ frame'[q] = frame[q] /\ frame[q].id = i /\ Stage(q)
                => Stage(q)'
    BY StillSays
  <2>2. (\A q \in Process : i \notin AtWork(q)') => Clean(i)' BY <2>1 DEF Waiting, IInv, Stages
  <2>3. todo'[i] # NoRow =>
            rows'[i] = todo'[i] /\ IF reload' THEN Clean(i)' ELSE Down(i, {})'
    BY <2>1 DEF Waiting
  <2>4. ASSUME NEW q \in Process, Busy(q)', frame'[q].id = i PROVE Stage(q)'
    <3>1. CASE Kept(q)
      <4>1. Busy(q) /\ frame[q].id = i /\ frame'[q] = frame[q] BY <2>4, <3>1 DEF Kept
      <4>2. Stage(q) BY <2>1, <4>1 DEF IInv, Stages
      <4> QED BY <2>1, <4>1, <4>2
    <3>2. CASE q = Loader /\ Turned BY <2>4, <3>2 DEF Turned
    <3> QED BY <2>4, <3>1, <3>2
  <2> QED BY <2>2, <2>3, <2>4
<1>4. Apart'
  <2> SUFFICES ASSUME NEW i \in Id, i \notin spoiled', rows'[i] # NoRow
               PROVE  /\ \A q \in Process : Busy(q)' /\ frame'[q].id # i =>
                            rows'[i].path \notin Own(q)'
                      /\ \A j \in Id : j # i /\ todo'[j] # NoRow =>
                            rows'[i].path # todo'[j].path
    BY DEF Apart
  <2>1. i \in Id \ spoiled' /\ i \in Id \ spoiled /\ rows'[i] = rows[i] BY DEF Still
  <2>2. ASSUME NEW q \in Process, Busy(q)', frame'[q].id # i PROVE rows'[i].path \notin Own(q)'
    <3>1. CASE Kept(q)
      <4>1. Busy(q) /\ frame[q].id # i /\ Own(q)' = Own(q) BY <1>2, <2>2, <3>1 DEF Kept
      <4> QED BY <2>1, <4>1 DEF IInv, Apart
    <3>2. CASE q = Loader /\ Turned BY <2>1, <2>2, <3>2 DEF Turned, OwnApart
    <3> QED BY <2>2, <3>1, <3>2
  <2>3. Waiting(i) BY <2>1
  <2> QED BY <2>1, <2>2, <2>3 DEF Waiting
<1>5. Holds'
  <2> SUFFICES ASSUME NEW q \in Process, NEW e \in Driver, Held(q)' = e,
                      drivers'[e].id \notin spoiled' \cup {NoId}
               PROVE  \/ frame'[q].id = drivers'[e].id
                      \/ frame'[q].at = "set" /\ ~drivers'[e].live /\ Unmounted(e)'
    BY DEF Holds
  <2>1. Held(q)' # NoDriver OBVIOUS
  <2>2. CASE Kept(q)
    <3>1. Held(q) = e /\ drivers[e].id \notin spoiled \cup {NoId} /\ frame'[q] = frame[q]
      BY <1>1, <1>2, <2>2 DEF Kept
    <3>2. \/ frame[q].id = drivers[e].id
          \/ frame[q].at = "set" /\ ~drivers[e].live /\ Unmounted(e)
      BY <3>1 DEF IInv, Holds
    <3> QED BY <1>1, <3>1, <3>2 DEF Unmounted
  <2>3. CASE q = Loader /\ Turned BY <2>3 DEF Turned, OwnHolds
  <2> QED BY <2>1, <2>2, <2>3
<1>6. Sole'
  <2> SUFFICES ASSUME NEW q \in Process, NEW r \in Process, q # r,
                      Held(q)' # NoDriver, Held(q)' = Held(r)'
               PROVE  frame'[q].id \in spoiled'
    BY DEF Sole
  <2>1. CASE Kept(q) /\ Kept(r)
    <3>1. Held(q) = Held(r) /\ Held(q) # NoDriver /\ frame'[q] = frame[q]
      BY <1>2, <2>1 DEF Kept
    <3> QED BY <1>1, <3>1 DEF IInv, Sole
  <2>2. CASE q = Loader /\ Turned /\ Kept(r)
    <3>1. Held(r)' = Held(r) /\ r \in Process \ {Loader} BY <1>2, <2>2
    <3> QED BY <2>2, <3>1 DEF Turned, OwnSole
  <2>3. CASE r = Loader /\ Turned /\ Kept(q)
    <3>1. Held(q)' = Held(q) /\ q \in Process \ {Loader} /\ frame'[q] = frame[q]
      BY <1>2, <2>3 DEF Kept
    <3> QED BY <2>3, <3>1 DEF Turned, OwnSole
  <2> QED BY <2>1, <2>2, <2>3
<1> QED BY <1>1, <1>3, <1>4, <1>5, <1>6 DEF IInv

\* A request is not at work before it has read its row.
LEMMA BeginKeeps ==
    ASSUME IInv, NEW p \in Proc, NEW f, Begin(p, f), f.at \in {"insert", "read"},
           f.driver = NoDriver, Base'
    PROVE  IInv'
<1>1. /\ frame[p] = NoFrame /\ frame' = [frame EXCEPT ![p] = f] /\ p \in Process
      /\ rows' = rows /\ drivers' = drivers /\ mounted' = mounted
      /\ todo' = todo /\ reload' = reload /\ spoiled' = spoiled
  BY DEF Begin, Goto, memory
<1>2. frame'[p] = f /\ \A q \in Process \ {p} : frame'[q] = frame[q]
  BY <1>1 DEF IInv, Base, Typed
<1>3. ~Busy(p) /\ ~Busy(p)' /\ Held(p)' = NoDriver /\ Held(p) = NoDriver
  BY <1>1, <1>2 DEF Busy, At, Held
<1>4. \A q \in Process \ {p} : (Busy(q)' <=> Busy(q)) /\ Held(q)' = Held(q)
  BY <1>2 DEF Busy, At, Held
<1>5. \A q \in Process : AtWork(q)' = AtWork(q) /\ PathsOf(q)' = PathsOf(q)
  <2> SUFFICES ASSUME NEW q \in Process
               PROVE  AtWork(q)' = AtWork(q) /\ PathsOf(q)' = PathsOf(q)
    OBVIOUS
  <2>1. CASE q = p BY <1>1, <1>3, <2>1 DEF AtWork, PathsOf
  <2>2. CASE q # p
    <3>1. frame'[q] = frame[q] /\ (Busy(q)' <=> Busy(q)) BY <1>2, <1>4, <2>2
    <3> QED BY <1>1, <3>1 DEF AtWork, PathsOf
  <2> QED BY <2>1, <2>2
<1>6. Overlapping' = Overlapping BY <1>5 DEF Overlapping
<1>7. Still BY <1>1, <1>6 DEF Still, IInv
<1>8. \A q \in Process : Busy(q)' \/ Held(q)' # NoDriver => Kept(q)
  <2> SUFFICES ASSUME NEW q \in Process \ {p}, Busy(q)' \/ Held(q)' # NoDriver
               PROVE  Busy(q)
    BY <1>2, <1>3 DEF Kept
  <2> QED BY <1>4, HolderBusy DEF IInv, Base
<1>9. \A i \in Id \ spoiled' : Waiting(i)
  BY <1>1, <1>5 DEF Waiting, IInv, Stages, Apart
<1> QED BY <1>7, <1>8, <1>9, StillKeeps

\* Requests of administrators
LEMMA RequestKeeps ==
    ASSUME IInv, NEW p \in Proc,
           \/ \E path \in Path, disabled \in BOOLEAN : CreateStorage(p, path, disabled)
           \/ \E i \in 1 .. issued :
                 \/ EnableStorage(p, i) \/ DisableStorage(p, i) \/ DeleteStorage(p, i)
                 \/ \E path \in Path, disabled \in BOOLEAN :
                       UpdateStorage(p, i, path, disabled)
    PROVE  IInv'
<1>1. Base' BY RequestBase DEF IInv
<1>2. ASSUME NEW fn, NEW at \in {"insert", "read"}, NEW id, NEW new,
             Begin(p, Frame(fn, at, id, new))
      PROVE  IInv'
  <2>1. Frame(fn, at, id, new).at \in {"insert", "read"}
        /\ Frame(fn, at, id, new).driver = NoDriver
    BY DEF Frame
  <2> QED BY <1>1, <1>2, <2>1, BeginKeeps
<1>3. CASE \E path \in Path, disabled \in BOOLEAN : CreateStorage(p, path, disabled)
  BY <1>2, <1>3 DEF CreateStorage
<1>4. ASSUME NEW i \in 1 .. issued,
             \/ EnableStorage(p, i) \/ DisableStorage(p, i) \/ DeleteStorage(p, i)
             \/ \E path \in Path, disabled \in BOOLEAN : UpdateStorage(p, i, path, disabled)
      PROVE  IInv'
  <2>1. CASE EnableStorage(p, i) BY <1>2, <2>1 DEF EnableStorage
  <2>2. CASE DisableStorage(p, i) BY <1>2, <2>2 DEF DisableStorage
  <2>3. CASE DeleteStorage(p, i) BY <1>2, <2>3 DEF DeleteStorage
  <2>4. CASE \E path \in Path, disabled \in BOOLEAN : UpdateStorage(p, i, path, disabled)
    BY <1>2, <2>4 DEF UpdateStorage
  <2> QED BY <1>4, <2>1, <2>2, <2>3, <2>4
<1> QED BY <1>3, <1>4

\* LoadAllStorages: its rows are those of clean storages, or the storages are spoiled
\* because somebody else is at work on them.
LEMMA LoadAllKeeps ==
    ASSUME IInv, LoadAllStorages
    PROVE  IInv'
<1>1. /\ rows' = rows /\ drivers' = drivers /\ mounted' = mounted
      /\ frame' = frame /\ todo' = Enabled /\ reload' = TRUE /\ frame[Loader] = NoFrame
      /\ \A i \in Id : todo[i] = NoRow
      /\ spoiled \subseteq spoiled' /\ Overlapping' \subseteq spoiled'
  BY DEF LoadAllStorages, memory, Observe
<1>2. Base /\ Base' BY LoadAllBase DEF IInv
<1>3. Still BY <1>1, <1>2 DEF Still
<1>4. \A q \in Process : Busy(q)' \/ Held(q)' # NoDriver => Kept(q)
  <2> SUFFICES ASSUME NEW q \in Process, Busy(q) \/ Held(q) # NoDriver PROVE Busy(q)
    BY <1>1 DEF Kept, Busy, At, Held
  <2> QED BY <1>2, HolderBusy DEF Base
<1>5. ASSUME NEW i \in Id \ spoiled' PROVE Waiting(i)
  <2>1. i \notin AtWork(Loader) BY <1>1 DEF AtWork, Busy
  <2>2. \A q \in Process \ {Loader} : AtWork(q)' = AtWork(q) BY <1>1 DEF AtWork, Busy, At
  <2>3. (\A q \in Process \ {Loader} : i \notin AtWork(q)') =>
           \A q \in Process : i \notin AtWork(q)
    BY <2>1, <2>2
  <2>4. ASSUME todo'[i] # NoRow PROVE rows[i] = todo'[i] /\ Clean(i)
    <3>1. rows[i] = todo'[i] BY <1>1, <1>2, <2>4, EnabledHas
    <3>2. i \in AtWork(Loader)' BY <2>4, LoaderWorksNext
    <3>3. (Overlapping \subseteq spoiled)' BY <1>1
    <3>4. \A q \in Process \ {Loader} : i \notin AtWork(q)'
      BY <3>2, <3>3, NotOverlappingNext DEF Separate
    <3>5. \A q \in Process : i \notin AtWork(q) BY <2>3, <3>4
    <3>6. i \in Id \ spoiled BY <1>1
    <3> QED BY <3>1, <3>5, <3>6 DEF IInv, Stages
  <2>5. \A j \in Id : rows[i] # NoRow /\ j # i /\ todo'[j] # NoRow =>
           rows[i].path # todo'[j].path
    BY <1>1, <1>2, EnabledHas DEF Base, Numbered, RowsNumbered
  <2> QED BY <1>1, <2>3, <2>4, <2>5 DEF Waiting
<1> QED BY <1>3, <1>4, <1>5, StillKeeps

\* After a restart nothing is in memory, and the loader has everything to do.
LEMMA RestartKeeps ==
    ASSUME IInv, Restart
    PROVE  IInv'
<1>1. /\ rows' = rows /\ drivers' = [d \in Driver |-> NewDriver]
      /\ mounted' = [path \in Path |-> NoDriver] /\ frame' = [p \in Process |-> NoFrame]
      /\ todo' = Enabled /\ reload' = FALSE /\ spoiled' = {}
  BY DEF Restart
<1>2. Base /\ Base' BY RestartBase DEF IInv
<1>3. \A p \in Process : ~Busy(p)' /\ Held(p)' = NoDriver BY <1>1 DEF Busy, Held
<1>4. \A p \in Process \ {Loader} : AtWork(p)' = {} /\ PathsOf(p)' = {}
  BY <1>3 DEF AtWork, PathsOf
<1>5. (Overlapping \subseteq spoiled)' BY <1>4 DEF Overlapping
<1>6. \A i \in Id : Down(i, {})'
  <2>1. \A d \in Driver : drivers'[d].id = NoId BY <1>1 DEF NewDriver
  <2>2. NoId \notin Id BY BoundAssumption DEF Id
  <2> QED BY <2>1, <2>2 DEF Down, DownBut
<1>7. Apart'
  <2>1. \A i, j \in Id : rows'[i] # NoRow /\ j # i /\ todo'[j] # NoRow =>
           rows'[i].path # todo'[j].path
    BY <1>1, <1>2, EnabledHas DEF Base, Numbered, RowsNumbered
  <2> QED BY <1>3, <2>1 DEF Apart
<1>8. Holds' BY <1>3 DEF Holds
<1>9. Sole' BY <1>3 DEF Sole
<1>10. Stages'
  <2> SUFFICES ASSUME NEW i \in Id
               PROVE  /\ (\A p \in Process : i \notin AtWork(p)') => Clean(i)'
                      /\ todo'[i] # NoRow => rows'[i] = todo'[i]
    BY <1>1, <1>3, <1>6 DEF Stages
  <2>1. todo'[i] # NoRow => rows'[i] = todo'[i] BY <1>1, <1>2, EnabledHas
  <2>2. ASSUME \A p \in Process : i \notin AtWork(p)' PROVE Clean(i)'
    <3>1. todo'[i] = NoRow BY <2>2, LoaderWorksNext
    <3>2. ~Wanted(i)'
      BY <1>1, <1>2, <3>1 DEF Enabled, Wanted
    <3> QED BY <1>6, <3>2 DEF Clean
  <2> QED BY <2>1, <2>2
<1> QED BY <1>2, <1>5, <1>7, <1>8, <1>9, <1>10 DEF IInv

\* The loader turns to a storage that it left clean, or down after a restart.
LEMMA NextLoadKeeps ==
    ASSUME IInv, NextLoad
    PROVE  IInv'
<1>1. Base /\ Base' BY NextLoadBase DEF IInv
<1>2. /\ rows' = rows /\ drivers' = drivers /\ mounted' = mounted
      /\ reload' = reload /\ frame[Loader] = NoFrame
      /\ spoiled \subseteq spoiled' /\ Overlapping' \subseteq spoiled'
  BY <1>1, NextLoadGives DEF Observe
<1>3. PICK i \in Id, g \in FrameRecord :
         /\ todo[i] # NoRow /\ todo' = [todo EXCEPT ![i] = NoRow]
         /\ frame' = [frame EXCEPT ![Loader] = g]
         /\ g.fn = "load" /\ g.id = i /\ g.old = todo[i] /\ g.new = todo[i]
         /\ IF reload THEN g.at = "lookup" /\ g.driver = NoDriver
            ELSE g.at = "set" /\ g.driver \in Unreferenced
  BY <1>1, NextLoadGives
<1>4. /\ frame'[Loader] = g /\ \A q \in Process \ {Loader} : frame'[q] = frame[q]
      /\ todo'[i] = NoRow /\ \A j \in Id \ {i} : todo'[j] = todo[j]
      /\ todo[i] \in RowRecord /\ g # NoFrame
  BY <1>1, <1>3 DEF Base, Typed
<1>5. Still BY <1>1, <1>2 DEF Still
<1>6. Busy(Loader)' /\ Held(Loader)' = g.driver BY <1>3, <1>4 DEF Busy, At, Held
<1>7. Own(Loader)' = {todo[i].path} BY <1>3, <1>4 DEF Own, Started
<1>8. OwnApart(Loader)
  <2> SUFFICES ASSUME NEW j \in Id \ spoiled', rows[j] # NoRow, j # i
               PROVE  rows[j].path # todo[i].path
    BY <1>2, <1>3, <1>4, <1>7 DEF OwnApart
  <2> QED BY <1>2, <1>3 DEF IInv, Apart
<1>9. OwnHolds(Loader) /\ OwnSole(Loader)
  <2>1. CASE reload BY <1>3, <1>6, <2>1 DEF OwnHolds, OwnSole
  <2>2. CASE ~reload
    <3>1. PICK d \in Unreferenced : d = g.driver BY <1>3, <2>2
    <3>2. frame'[Loader].at = "set" /\ Held(Loader)' = d /\ drivers'[d] = drivers[d]
      BY <1>2, <1>3, <1>4, <1>6, <2>2, <3>1
    <3> QED BY <1>2, <3>2, TakenOwes
  <2> QED BY <2>1, <2>2
<1>10. ASSUME i \notin spoiled' PROVE Stage(Loader)'
  <2>1. rows[i] = todo[i] /\ IF reload THEN Clean(i) ELSE Down(i, {})
    BY <1>2, <1>3, <1>10 DEF IInv, Stages
  <2>2. CASE reload
    <3>1. Clean(i)' BY <1>2, <2>1, <2>2, QuietSays
    <3>2. Before(Loader)'
      BY <1>2, <1>3, <1>4, <2>1, <3>1
      DEF Before, Clean, Wanted, Down, DownBut, Serves, Alone, MountedIn, RowOf
    <3> QED BY <1>3, <1>4, <2>2, <3>2 DEF Stage, Started
  <2>3. CASE ~reload
    <3>1. PICK d \in Unreferenced : d = g.driver BY <1>3, <2>3
    <3>2. Down(i, {g.new.path})' BY <1>2, <2>1, <2>3 DEF Down, DownBut, MountedIn
    <3>3. Wanted(i)' /\ rows'[i].path = g.new.path /\ ~g.new.disabled
      BY <1>1, <1>2, <1>3, <1>4, <2>1 DEF Wanted, Base, Numbered, TodoNumbered
    <3> QED BY <1>2, <1>3, <1>4, <2>3, <3>1, <3>2, <3>3, LoadStage
  <2> QED BY <2>2, <2>3
<1>11. Turned BY <1>3, <1>4, <1>8, <1>9, <1>10 DEF Turned
<1>12. ASSUME NEW q \in Process, Busy(q)' \/ Held(q)' # NoDriver
       PROVE  Kept(q) \/ (q = Loader /\ Turned)
  <2>1. CASE q = Loader BY <1>11, <2>1
  <2>2. CASE q # Loader
    <3>1. frame'[q] = frame[q] BY <1>4, <2>2
    <3>2. Busy(q) \/ Held(q) # NoDriver BY <1>12, <3>1 DEF Busy, At, Held
    <3>3. Busy(q) BY <1>1, <3>2, HolderBusy DEF Base
    <3> QED BY <3>1, <3>3 DEF Kept
  <2> QED BY <2>1, <2>2
<1>13. ASSUME NEW j \in Id \ spoiled' PROVE Waiting(j)
  <2>1. todo'[j] # NoRow => todo'[j] = todo[j] /\ todo[j] # NoRow BY <1>4
  <2>2. ASSUME \A q \in Process : j \notin AtWork(q)', NEW q \in Process PROVE j \notin AtWork(q)
    <3>1. CASE q # Loader
      <4>1. AtWork(q)' = AtWork(q) BY <1>4, <3>1 DEF AtWork, Busy, At
      <4> QED BY <2>2, <4>1
    <3>2. CASE q = Loader
      <4>1. j \notin AtWork(Loader)' BY <2>2
      <4>2. j # i BY <1>3, <1>4, <1>6, <4>1 DEF AtWork
      <4>3. todo[j] = NoRow BY <1>4, <4>1, <4>2 DEF AtWork
      <4> QED BY <1>2, <3>2, <4>3 DEF AtWork, Busy
    <3> QED BY <3>1, <3>2
  <2>3. j \in Id \ spoiled BY <1>2
  <2>4. todo'[j] # NoRow => rows[j] = todo'[j] /\ IF reload' THEN Clean(j) ELSE Down(j, {})
    BY <1>2, <2>1, <2>3 DEF IInv, Stages
  <2>5. rows[j] # NoRow => \A k \in Id : k # j /\ todo'[k] # NoRow =>
           rows[j].path # todo'[k].path
    BY <1>4, <2>3 DEF IInv, Apart
  <2> QED BY <2>2, <2>4, <2>5 DEF Waiting
<1> QED BY <1>5, <1>12, <1>13, StillKeeps

\* A driver that saves its row changes nothing, or spoils its storage.
LEMMA DriverSavesKeeps ==
    ASSUME IInv, NEW d \in Driver, DriverSaves(d)
    PROVE  IInv'
<1>1. /\ drivers' = drivers /\ mounted' = mounted /\ frame' = frame
      /\ todo' = todo /\ reload' = reload /\ SaveDriver(d) /\ drivers[d].id # NoId
      /\ spoiled \subseteq spoiled' /\ Overlapping' \subseteq spoiled'
      /\ drivers[d].id \notin spoiled' =>
            /\ \E path \in Path : mounted[path] = d
            /\ \A p \in Process : drivers[d].id \notin AtWork(p)
  BY DEF DriverSaves, memory, Observe
<1>2. Base /\ Base' BY DriverSavesBase DEF IInv
<1>3. ASSUME NEW i \in Id \ spoiled' PROVE rows'[i] = rows[i]
  <2>1. CASE i # drivers[d].id BY <1>1, <1>2, <2>1 DEF SaveDriver, Saved, Base, Typed
  <2>2. CASE i = drivers[d].id
    <3>1. Clean(i) BY <1>1, <2>2 DEF IInv, Stages
    <3>2. ~Down(i, {})
      <4>1. d # NoDriver OBVIOUS
      <4> QED BY <1>1, <2>2, <4>1 DEF Down, DownBut, MountedIn
    <3>3. PICK e : e = mounted[rows[i].path] OBVIOUS
    <3>4. Serves(i, e) BY <3>1, <3>2, <3>3 DEF Clean
    <3>5. d = e BY <1>1, <2>2, <3>4 DEF Serves, Alone, DownBut, MountedIn
    <3>6. RowOf(d) = rows[i] BY <3>4, <3>5 DEF Serves
    <3> QED BY <1>1, <1>2, <2>2, <3>6 DEF SaveDriver, Saved, Base, Typed
  <2> QED BY <2>1, <2>2
<1>4. Still BY <1>1, <1>2, <1>3 DEF Still
<1>5. \A q \in Process : Busy(q)' \/ Held(q)' # NoDriver => Kept(q)
  <2> SUFFICES ASSUME NEW q \in Process, Busy(q) \/ Held(q) # NoDriver PROVE Busy(q)
    BY <1>1 DEF Kept, Busy, At, Held
  <2> QED BY <1>2, HolderBusy DEF Base
<1>6. ASSUME NEW i \in Id \ spoiled' PROVE Waiting(i)
  <2>1. \A q \in Process : AtWork(q)' = AtWork(q) BY <1>1 DEF AtWork, Busy, At
  <2>2. i \in Id \ spoiled BY <1>1
  <2> QED BY <1>1, <2>1, <2>2 DEF Waiting, IInv, Stages, Apart
<1> QED BY <1>4, <1>5, <1>6, StillKeeps

\* At first there are no storages.
LEMMA InitIInv == Init => IInv
<1> SUFFICES ASSUME Init PROVE IInv OBVIOUS
<1>1. Base BY InitBase
<1>2. /\ rows = [i \in Id |-> NoRow] /\ todo = [i \in Id |-> NoRow]
      /\ drivers = [d \in Driver |-> NewDriver] /\ mounted = [path \in Path |-> NoDriver]
      /\ frame = [p \in Process |-> NoFrame] /\ reload = FALSE /\ spoiled = {}
  BY DEF Init
<1>3. \A p \in Process : ~Busy(p) /\ Held(p) = NoDriver BY <1>2 DEF Busy, Held
<1>4. \A p \in Process : AtWork(p) = {} BY <1>2, <1>3 DEF AtWork
<1>5. Overlapping \subseteq spoiled BY <1>4 DEF Overlapping
<1>6. Apart BY <1>2 DEF Apart
<1>7. Holds /\ Sole BY <1>3 DEF Holds, Sole
<1>8. Stages
  <2>1. \A d \in Driver : drivers[d].id = NoId BY <1>2 DEF NewDriver
  <2>2. NoId \notin Id BY BoundAssumption DEF Id
  <2>3. \A i \in Id : Down(i, {}) BY <2>1, <2>2 DEF Down, DownBut
  <2>4. \A i \in Id : Clean(i) BY <1>2, <2>3 DEF Clean, Wanted
  <2> QED BY <1>2, <1>3, <2>4 DEF Stages
<1> QED BY <1>1, <1>5, <1>6, <1>7, <1>8 DEF IInv

\* A step that changes nothing
LEMMA StutterKeeps ==
    ASSUME IInv, UNCHANGED vars
    PROVE  IInv'
<1>1. /\ rows' = rows /\ issued' = issued /\ drivers' = drivers /\ mounted' = mounted
      /\ frame' = frame /\ todo' = todo /\ reload' = reload /\ spoiled' = spoiled
  BY DEF vars
<1>2. Base /\ Base' BY NextBase DEF IInv
<1>3. \A q \in Process : AtWork(q)' = AtWork(q) /\ PathsOf(q)' = PathsOf(q)
  BY <1>1 DEF AtWork, PathsOf, Busy, At
<1>4. Overlapping' = Overlapping BY <1>3 DEF Overlapping
<1>5. Still BY <1>1, <1>2, <1>4 DEF Still, IInv
<1>6. \A q \in Process : Busy(q)' \/ Held(q)' # NoDriver => Kept(q)
  <2> SUFFICES ASSUME NEW q \in Process, Busy(q) \/ Held(q) # NoDriver PROVE Busy(q)
    BY <1>1 DEF Kept, Busy, At, Held
  <2> QED BY <1>2, HolderBusy DEF Base
<1>7. \A i \in Id \ spoiled' : Waiting(i)
  BY <1>1, <1>3 DEF Waiting, IInv, Stages, Apart
<1> QED BY <1>5, <1>6, <1>7, StillKeeps

\* No step breaks the invariant.
LEMMA NextIInv == IInv /\ [Next]_vars => IInv'
<1> SUFFICES ASSUME IInv, [Next]_vars PROVE IInv' OBVIOUS
<1>1. CASE UNCHANGED vars BY <1>1, StutterKeeps
<1>2. ASSUME NEW p \in Proc,
             \/ \E path \in Path, disabled \in BOOLEAN : CreateStorage(p, path, disabled)
             \/ \E i \in 1 .. issued :
                   \/ EnableStorage(p, i) \/ DisableStorage(p, i) \/ DeleteStorage(p, i)
                   \/ \E path \in Path, disabled \in BOOLEAN :
                         UpdateStorage(p, i, path, disabled)
      PROVE  IInv'
  BY <1>2, RequestKeeps
<1>3. ASSUME NEW d \in Driver, DriverSaves(d) PROVE IInv' BY <1>3, DriverSavesKeeps
<1>4. ASSUME NEW p \in Process, Step(p) PROVE IInv' BY <1>4, StepKeeps
<1> QED BY <1>1, <1>2, <1>3, <1>4, LoadAllKeeps, RestartKeeps, NextLoadKeeps DEF Next

-----------------------------------------------------------------------------
(* What the invariant says of settled storages *)

\* Nobody is at work on a settled storage, so memory has what the table has of it.
LEMMA SettledClean ==
    ASSUME IInv, NEW i \in Settled
    PROVE  i \in Id /\ Clean(i)
<1>1. i \in Id \ spoiled /\ \A p \in Process : i \notin AtWork(p) BY DEF Settled
<1> QED BY <1>1 DEF IInv, Stages

\* A clean storage is mirrored.
LEMMA MirroredHolds == IInv => Mirrored
<1> SUFFICES ASSUME IInv, NEW i \in Settled
             PROVE  /\ rows[i] # NoRow /\ ~rows[i].disabled =>
                          /\ mounted[rows[i].path] # NoDriver
                          /\ drivers[mounted[rows[i].path]].id = i
                          /\ RowOf(mounted[rows[i].path]) = rows[i]
                    /\ \A path \in Path :
                          mounted[path] # NoDriver /\ drivers[mounted[path]].id = i =>
                             /\ rows[i] # NoRow /\ ~rows[i].disabled
                             /\ rows[i].path = path
  BY DEF Mirrored
<1>1. i \in Id /\ Clean(i) BY SettledClean
<1>2. CASE ~Wanted(i)
  <2>1. Down(i, {}) BY <1>1, <1>2 DEF Clean
  <2>2. ASSUME NEW path \in Path, mounted[path] # NoDriver, drivers[mounted[path]].id = i
        PROVE  FALSE
    <3>1. mounted[path] \in Driver BY <2>2 DEF IInv, Base, Typed
    <3> QED BY <2>1, <2>2, <3>1 DEF Down, DownBut, MountedIn
  <2> QED BY <1>2, <2>2 DEF Wanted
<1>3. CASE Wanted(i)
  <2>1. PICK e : e = mounted[rows[i].path] OBVIOUS
  <2>2. Alone(i, e, {rows[i].path}) /\ RowOf(e) = rows[i]
    BY <1>1, <1>3, <2>1 DEF Clean, Serves
  <2>3. e \in Driver /\ e # NoDriver /\ drivers[e].id = i BY <2>2 DEF Alone
  <2>4. ASSUME NEW path \in Path, mounted[path] # NoDriver, drivers[mounted[path]].id = i
        PROVE  rows[i].path = path
    <3>1. mounted[path] \in Driver BY <2>4 DEF IInv, Base, Typed
    <3> QED BY <2>2, <2>4, <3>1 DEF Alone, DownBut, MountedIn
  <2> QED BY <1>3, <2>1, <2>2, <2>3, <2>4 DEF Wanted
<1> QED BY <1>2, <1>3

\* The drivers of a clean storage run exactly when they are mounted as working.
LEMMA AccountedHolds == IInv => DriversAccounted
<1> SUFFICES ASSUME IInv, NEW i \in Settled, NEW d \in Driver, drivers[d].id = i
             PROVE  drivers[d].live <=> /\ \E path \in Path : mounted[path] = d
                                        /\ drivers[d].status = "work"
  BY DEF DriversAccounted
<1>1. i \in Id /\ Clean(i) /\ d # NoDriver BY SettledClean
<1>2. drivers[d].live \in BOOLEAN BY DEF IInv, Base, Typed, DriverRecord
<1>3. ASSUME ~drivers[d].live /\ MountedIn(d, {})
      PROVE  drivers[d].live <=> /\ \E path \in Path : mounted[path] = d
                                 /\ drivers[d].status = "work"
  BY <1>2, <1>3 DEF MountedIn
<1>4. CASE ~Wanted(i)
  <2>1. Down(i, {}) BY <1>1, <1>4 DEF Clean
  <2>2. ~drivers[d].live /\ MountedIn(d, {}) BY <1>1, <2>1 DEF Down, DownBut
  <2> QED BY <1>3, <2>2
<1>5. CASE Wanted(i)
  <2>1. PICK e : e = mounted[rows[i].path] OBVIOUS
  <2>2. Alone(i, e, {rows[i].path}) /\ (drivers[e].live <=> drivers[e].status = "work")
    BY <1>1, <1>5, <2>1 DEF Clean, Serves
  <2>3. CASE d = e
    <3>1. rows[i].path \in Path BY <1>1, <1>5 DEF Wanted, IInv, Base, Typed, RowRecord
    <3> QED BY <2>1, <2>2, <2>3, <3>1
  <2>4. CASE d # e
    <3>1. ~drivers[d].live /\ MountedIn(d, {}) BY <2>2, <2>4 DEF Alone, DownBut
    <3> QED BY <1>3, <3>1
  <2> QED BY <2>3, <2>4
<1> QED BY <1>4, <1>5

\* The inductive invariant
THEOREM Invariant == Spec => []IInv
BY InitIInv, NextIInv, PTL DEF Spec

\* storagesMap mirrors the table for every settled storage.
THEOREM Mirroring == Spec => []Mirrored
BY Invariant, MirroredHolds, PTL

\* The drivers that run are those that are mounted as working.
THEOREM DriversKept == Spec => []DriversAccounted
BY Invariant, AccountedHolds, PTL
=============================================================================
