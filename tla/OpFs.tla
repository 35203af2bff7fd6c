-------------------------------- MODULE OpFs --------------------------------
(***************************************************************************)
(* The operations of internal/op/fs.go on one storage: the directory       *)
(* listings of the driver behind listCache and the flights of listG and    *)
(* mkdirG.  Requests run concurrently and nothing locks a directory, so    *)
(* every access to the cache and every driver call is a step of its own.   *)
(*                                                                         *)
(* The functions call each other, so each process has a stack of frames,   *)
(* the running function first; ret is what the last finished call of the   *)
(* process returned.  Get is List of the parent and a look at one name, so *)
(* it is a frame of List with a name to look for.  A flight is one call of *)
(* singleflight as Dedup specifies it: who finds it open waits for it, and *)
(* its result answers every waiter when it closes.                         *)
(*                                                                         *)
(* Paths are sequences of names; the root is <<>> and always exists.  Of   *)
(* an object only its kind matters: a directory, a file, or an empty file. *)
(* A driver call is one step, by path, that succeeds or fails as a whole.  *)
(***************************************************************************)
EXTENDS Integers, FiniteSets, SequencesExt

CONSTANTS
    Proc,         \* the goroutines that serve requests
    Path,         \* the paths of the storage
    Requests,     \* the calls clients make (frames, see below)
    InitDisks,    \* the trees the storage may start with
    Temp,         \* Temp[n]: the name n.alist_to_delete
    Result,       \* whether driver calls return the new object (a set of Booleans)
    NoOverwrite,  \* Config().NoOverwriteUpload
    Fails,        \* driver calls may fail for reasons of their own
    MaxOps,       \* bound on the calls made
    NoName,       \* no name, no entry
    NoListing     \* a directory that is not cached

Root == <<>>

Parent(path) == Front(path)
Child(dir, name) == Append(dir, name)
Below(path) == {x \in Path : IsPrefix(path, x)}

\* The directories of the model: the paths that have room for children
Dir == {Parent(path) : path \in Path \ {Root}}

Kind == {"dir", "file", "empty"}
Absent == "none"
Failed == "fail"
Done == "ok"

Name == UNION {Range(path) : path \in Path}
Entries == [name : Name, kind : Kind]

\* A tree: only what has room for children is a directory, and what exists is in one.
IsTree(tree) ==
    /\ tree \in [Path -> Kind \cup {Absent}]
    /\ tree[Root] = "dir"
    /\ \A x \in Path : tree[x] = "dir" => x \in Dir
    /\ \A x \in Path \ {Root} : tree[x] # Absent => tree[Parent(x)] = "dir"

ASSUME PathAssumption ==
    /\ Path \subseteq Seq(Name)
    /\ Root \in Path /\ Root \in Dir
    /\ \A path \in Path \ {Root} : Parent(path) \in Path
    /\ \A tree \in InitDisks : IsTree(tree)

ASSUME BoundAssumption == IsFiniteSet(Proc) /\ MaxOps \in Nat

ASSUME ChoiceAssumption ==
    Result \subseteq BOOLEAN /\ NoOverwrite \in BOOLEAN /\ Fails \in BOOLEAN

ASSUME SentinelAssumption == NoName \notin Name \cup Entries /\ "flight" \notin Proc

VARIABLES
    disk,    \* the kind of the object at each path
    cache,   \* listCache: the listing of each directory, if it has one
    listG,   \* the flights of listG
    mkdirG,  \* the paths with a flight in mkdirG
    stack,   \* the frames of each process
    ret,     \* what the last finished call of each process returned
    left,    \* how many calls may still be made
    race,    \* history: changes of a directory that overlap (see below)
    suspect  \* history: the directories whose listing, cached or being edited, may
             \* be spoiled

fsVars == <<disk, cache, listG, mkdirG, stack, ret, left>>
vars == <<disk, cache, listG, mkdirG, stack, ret, left, race, suspect>>

-----------------------------------------------------------------------------
(* Listings and frames                                                      *)

Entry(name, kind) == [name |-> name, kind |-> kind]

OnDisk(dir) == {Entry(Last(x), disk[x]) :
                  x \in {y \in Path \ {Root} : Parent(y) = dir /\ disk[y] # Absent}}

\* What a caller of List (no name) or Get learns from a listing
Found(listing, name) ==
    IF name = NoName THEN Done
    ELSE IF \E e \in listing : e.name = name
         THEN (CHOOSE e \in listing : e.name = name).kind
         ELSE Absent

ListFrame(dir, want, refresh) ==
    [fn |-> "list", at |-> "start", path |-> dir, want |-> want,
     refresh |-> refresh, changed |-> {}]

\* Calls that change the tree.  to is the new name of Rename, the directory of
\* Move and Copy; kind is what Put uploads; kept says that Put renamed the old
\* object away, ok that its upload succeeded.
OpFrame(fn, path, to, kind, lazy) ==
    [fn |-> fn, at |-> "start", path |-> path, to |-> to, kind |-> kind,
     lazy |-> lazy, kept |-> FALSE, ok |-> FALSE, changed |-> {}]

MkdirFrame(path)      == OpFrame("mkdir", path, NoName, "dir", FALSE)
RemoveFrame(path)     == OpFrame("remove", path, NoName, NoName, FALSE)
RenameFrame(path, to) == OpFrame("rename", path, to, NoName, FALSE)

\* updateCacheObj, delCacheObj and addCacheObj, and ClearCache
EditFrame(dir, old, new) ==
    [fn |-> "edit", at |-> "start", path |-> dir, old |-> old, new |-> new,
     listing |-> {}, changed |-> {}]

ClearFrame(dir) ==
    [fn |-> "clear", at |-> "start", path |-> dir, todo |-> {}, changed |-> {}]

\* What a client may ask for: to list a directory, or to look for a name in it;
\* and to change anything but the root.  Only a driver that cannot overwrite
\* needs the temporary name.
ASSUME RequestAssumption ==
    \A f \in Requests :
        \/ /\ f.fn = "list"
           /\ \E dir \in Dir, want \in Name \cup {NoName}, refresh \in BOOLEAN :
                 f = ListFrame(dir, want, refresh)
        \/ /\ f.fn = "mkdir"
           /\ \E dir \in Dir, lazy \in BOOLEAN : f = OpFrame("mkdir", dir, NoName, "dir", lazy)
        \/ /\ f.fn = "remove"
           /\ \E path \in Path \ {Root} : f = RemoveFrame(path)
        \/ /\ f.fn = "rename"
           /\ \E path \in Path \ {Root}, to \in Name, lazy \in BOOLEAN :
                 f = OpFrame("rename", path, to, NoName, lazy)
        \/ /\ f.fn \in {"move", "copy"}
           /\ \E path \in Path \ {Root}, to \in Path, lazy \in BOOLEAN :
                 f = OpFrame(f.fn, path, to, NoName, lazy)
        \/ /\ f.fn \in {"put", "puturl"}
           /\ \E path \in Path \ {Root}, kind \in {"file", "empty"}, lazy \in BOOLEAN :
                 /\ f = OpFrame(f.fn, path, NoName, kind, lazy)
                 /\ f.fn = "put" /\ NoOverwrite =>
                       /\ Last(path) \in DOMAIN Temp
                       /\ Child(Parent(path), Temp[Last(path)]) \in Path

Top(p) == Head(stack[p])
At(p, fn, at) == stack[p] # <<>> /\ Top(p).fn = fn /\ Top(p).at = at

Replace(p, frames) == stack' = [stack EXCEPT ![p] = frames \o Tail(@)]
Goto(p, at) == Replace(p, <<[Top(p) EXCEPT !.at = at]>>) /\ UNCHANGED ret
Call(p, frame, at) ==
    Replace(p, <<frame, [Top(p) EXCEPT !.at = at]>>) /\ UNCHANGED ret

\* The processes of ps return from their running functions.
Return(ps, value) ==
    /\ stack' = [q \in Proc |-> IF q \in ps THEN Tail(stack[q]) ELSE stack[q]]
    /\ ret' = [q \in Proc |-> IF q \in ps THEN value[q] ELSE ret[q]]

Returns(p, v) == Return({p}, [q \in {p} |-> v])

\* Get: the root is always there, any other object is looked up in the listing
\* of its parent.
Get(p, path, at) ==
    IF path = Root
    THEN Replace(p, <<[Top(p) EXCEPT !.at = at]>>) /\ ret' = [ret EXCEPT ![p] = "dir"]
    ELSE Call(p, ListFrame(Parent(path), Last(path), FALSE), at)

Missing(v) == v \in {Absent, Failed}

-----------------------------------------------------------------------------
(* List                                                                     *)

NoFlight == [stage |-> "none", listing |-> {}]

ListStart(p) ==
    LET f == Top(p) IN
    /\ At(p, "list", "start")
    /\ IF ~f.refresh /\ cache[f.path] # NoListing
       THEN Returns(p, Found(cache[f.path], f.want))
       ELSE Get(p, f.path, "dir")
    /\ UNCHANGED <<disk, cache, listG, mkdirG, left>>

\* Mutant: the listing is not a flight of listG.
ListDo_Alone(p) ==
    LET dir == Top(p).path IN
    /\ At(p, "list", "dir")
    /\ IF ret[p] # "dir"
       THEN Returns(p, IF ret[p] = Absent THEN Absent ELSE Failed) /\ UNCHANGED listG
       ELSE listG' = [listG EXCEPT ![dir].stage = "open"] /\ Goto(p, "read")
    /\ UNCHANGED <<disk, cache, mkdirG, left>>

\* The directory is known: lead the flight of its key, or wait for it.
ListDo(p) ==
    LET dir == Top(p).path IN
    /\ At(p, "list", "dir")
    /\ IF ret[p] # "dir"
       THEN Returns(p, IF ret[p] = Absent THEN Absent ELSE Failed) /\ UNCHANGED listG
       ELSE IF listG[dir] = NoFlight
            THEN listG' = [listG EXCEPT ![dir].stage = "open"] /\ Goto(p, "read")
            ELSE Goto(p, "wait") /\ UNCHANGED listG
    /\ UNCHANGED <<disk, cache, mkdirG, left>>

\* storage.List
ListRead(p) ==
    LET dir == Top(p).path IN
    /\ At(p, "list", "read")
    /\ \/ /\ disk[dir] = "dir"
          /\ listG' = [listG EXCEPT ![dir] = [stage |-> "read", listing |-> OnDisk(dir)]]
          /\ Goto(p, "store")
       \/ /\ disk[dir] = "dir" => Fails
          /\ listG' = [listG EXCEPT ![dir].stage = "failed"]
          /\ Goto(p, "close")
    /\ UNCHANGED <<disk, cache, mkdirG, left>>

\* An empty listing is not cached, and drops the one that is.
ListStore(p) ==
    LET dir == Top(p).path IN
    /\ At(p, "list", "store")
    /\ cache' = [cache EXCEPT ![dir] = IF listG[dir].listing = {} THEN NoListing
                                       ELSE listG[dir].listing]
    /\ listG' = [listG EXCEPT ![dir].stage = "stored"]
    /\ Goto(p, "close")
    /\ UNCHANGED <<disk, mkdirG, left>>

\* Mutant: those who wait for the flight are not answered.
ListClose_Leader(p) ==
    LET dir == Top(p).path IN
    /\ At(p, "list", "close")
    /\ Returns(p, IF listG[dir].stage = "failed" THEN Failed
                  ELSE Found(listG[dir].listing, Top(p).want))
    /\ listG' = [listG EXCEPT ![dir] = NoFlight]
    /\ UNCHANGED <<disk, cache, mkdirG, left>>

ListClose(p) ==
    LET dir == Top(p).path
        answered == {p} \cup {q \in Proc : At(q, "list", "wait") /\ Top(q).path = dir}
    IN  /\ At(p, "list", "close")
        /\ Return(answered,
                  [q \in answered |->
                     IF listG[dir].stage = "failed" THEN Failed
                     ELSE Found(listG[dir].listing, Top(q).want)])
        /\ listG' = [listG EXCEPT ![dir] = NoFlight]
        /\ UNCHANGED <<disk, cache, mkdirG, left>>

-----------------------------------------------------------------------------
(* The cache is edited, by a Get and a Set of it, and cleared.              *)

Named(listing, e) == {x \in listing : x.name = e.name}

\* The three edits of a listing: old replaced by new (updateCacheObj drops an
\* entry with the new name first), old deleted, new added.
Edited(listing, old, new) ==
    IF new = NoName THEN listing \ Named(listing, old)
    ELSE IF old = NoName THEN listing \cup {new}
    ELSE LET others == listing \ Named(listing, new) IN
         IF Named(others, old) = {} THEN others
         ELSE (others \ Named(others, old)) \cup {new}

\* addCacheObj overwrites an entry of the same name in place.
EditGet(p) ==
    LET f == Top(p) IN
    /\ At(p, "edit", "start")
    /\ IF cache[f.path] = NoListing
       THEN Returns(p, Done) /\ UNCHANGED cache
       ELSE IF f.old = NoName /\ Named(cache[f.path], f.new) # {}
            THEN /\ cache' = [cache EXCEPT ![f.path] =
                                (@ \ Named(@, f.new)) \cup {f.new}]
                 /\ Returns(p, Done)
            ELSE /\ Replace(p, <<[f EXCEPT !.at = "set",
                                    !.listing = Edited(cache[f.path], f.old, f.new)]>>)
                 /\ UNCHANGED <<cache, ret>>
    /\ UNCHANGED <<disk, listG, mkdirG, left>>

EditSet(p) ==
    /\ At(p, "edit", "set")
    /\ cache' = [cache EXCEPT ![Top(p).path] = Top(p).listing]
    /\ Returns(p, Done)
    /\ UNCHANGED <<disk, listG, mkdirG, left>>

\* ClearCache goes down the cached listings, children first.
ClearStart(p) ==
    LET f == Top(p)
        kids == IF cache[f.path] = NoListing THEN {}
                ELSE {e.name : e \in {x \in cache[f.path] : x.kind = "dir"}}
    IN  /\ At(p, "clear", "start")
        /\ Replace(p, <<[f EXCEPT !.at = "kids", !.todo = kids]>>)
        /\ UNCHANGED <<disk, cache, listG, mkdirG, ret, left>>

ClearKids(p) ==
    LET f == Top(p) IN
    /\ At(p, "clear", "kids")
    /\ IF f.todo # {}
       THEN /\ \E name \in f.todo :
                  Replace(p, <<ClearFrame(Child(f.path, name)),
                               [f EXCEPT !.todo = @ \ {name}]>>)
            /\ UNCHANGED <<cache, ret>>
       ELSE /\ cache' = [cache EXCEPT ![f.path] = NoListing]
            /\ Returns(p, Done)
    /\ UNCHANGED <<disk, listG, mkdirG, left>>

-----------------------------------------------------------------------------
(* Calls of the driver that change the tree                                 *)

\* Mutant: what is below the path stays behind.
Without_Shallow(tree, path) == [tree EXCEPT ![path] = Absent]

Without(tree, path) == [x \in Path |-> IF IsPrefix(path, x) THEN Absent ELSE tree[x]]

\* The path x, below old, when old is called new
Under(x, old, new) == new \o SubSeq(x, Len(old) + 1, Len(x))

\* The tree with the subtree at src also at dst
Duplicated(tree, src, dst) ==
    [x \in Path |-> IF IsPrefix(dst, x)
                    THEN LET y == Under(x, dst, src)
                         IN  IF y \in Path THEN tree[y] ELSE Absent
                    ELSE tree[x]]

\* What moves has room among the paths of the model.
CanArrive(src, dst) ==
    /\ disk[src] # Absent
    /\ \A x \in Below(src) : disk[x] # Absent =>
          Under(x, src, dst) \in IF disk[x] = "dir" THEN Dir ELSE Path
    /\ disk[Parent(dst)] = "dir"
    /\ disk[dst] = Absent
    /\ ~IsPrefix(src, dst)

\* The directories whose listings differ between the trees
Changed(tree) == {d \in Dir : \E x \in Path \ {Root} :
                                Parent(x) = d /\ tree[x] # disk[x]}

\* The driver succeeded: the tree is new, and so is the frame, once the frames
\* of the cache upkeep have run.
Driven(p, tree, frame, upkeep) ==
    /\ disk' = tree
    /\ Replace(p, upkeep \o <<[frame EXCEPT
                     !.changed = Changed(tree) \cup {u.path : u \in Range(upkeep)}]>>)
    /\ UNCHANGED <<cache, listG, mkdirG, ret, left>>

\* The upkeep for a new object in dir, which takes the place of old if there is
\* an old one.  A driver that returns the object (MkdirResult and its like) gets
\* the listing edited; otherwise the listing is cleared, unless the caller asked
\* for a lazy cache.
Upkeeps(dir, old, new, lazy) ==
    {IF result THEN <<EditFrame(dir, old, new)>>
     ELSE IF lazy THEN <<>> ELSE <<ClearFrame(dir)>> : result \in Result}

\* Mutant: delCacheObj is not called.
Disappears_Silently(path, kind) == <<>>

Disappears(path, kind) ==
    <<EditFrame(Parent(path), Entry(Last(path), kind), NoName)>>

Refused(p, able) ==
    /\ able => Fails
    /\ Returns(p, Failed)
    /\ UNCHANGED <<disk, cache, listG, mkdirG, left>>

-----------------------------------------------------------------------------
(* MakeDir: the whole of it is a flight of mkdirG.                          *)

MkdirClose(p, v) ==
    LET path == Top(p).path
        answered == {p} \cup {q \in Proc : At(q, "mkdir", "wait") /\ Top(q).path = path}
    IN  /\ Return(answered, [q \in answered |-> v])
        /\ mkdirG' = mkdirG \ {path}

\* The root exists; its flight has no effect and is left out.
MkdirStart(p) ==
    LET path == Top(p).path IN
    /\ At(p, "mkdir", "start")
    /\ IF path = Root THEN Returns(p, Done) /\ UNCHANGED mkdirG
       ELSE IF path \in mkdirG THEN Goto(p, "wait") /\ UNCHANGED mkdirG
       ELSE Get(p, path, "check") /\ mkdirG' = mkdirG \cup {path}
    /\ UNCHANGED <<disk, cache, listG, left>>

MkdirCheck(p) ==
    /\ At(p, "mkdir", "check")
    /\ IF ret[p] = Absent
       THEN Call(p, MkdirFrame(Parent(Top(p).path)), "parent") /\ UNCHANGED mkdirG
       ELSE MkdirClose(p, IF ret[p] = "dir" THEN Done ELSE Failed)
    /\ UNCHANGED <<disk, cache, listG, left>>

MkdirParent(p) ==
    /\ At(p, "mkdir", "parent")
    /\ IF ret[p] = Done
       THEN Get(p, Parent(Top(p).path), "got") /\ UNCHANGED mkdirG
       ELSE MkdirClose(p, Failed)
    /\ UNCHANGED <<disk, cache, listG, left>>

MkdirDrive(p) ==
    LET f == Top(p)
        able == disk[Parent(f.path)] = "dir" /\ disk[f.path] \in {Absent, "dir"}
    IN  /\ At(p, "mkdir", "got")
        /\ \/ /\ ~Missing(ret[p]) /\ able
              /\ \E upkeep \in Upkeeps(Parent(f.path), NoName,
                                       Entry(Last(f.path), "dir"), f.lazy) :
                    Driven(p, [disk EXCEPT ![f.path] = "dir"],
                           [f EXCEPT !.at = "end"], upkeep)
           \/ /\ Missing(ret[p]) \/ (able => Fails)
              /\ MkdirClose(p, Failed)
              /\ UNCHANGED <<disk, cache, listG, left>>

MkdirEnd(p) ==
    /\ At(p, "mkdir", "end")
    /\ MkdirClose(p, Done)
    /\ UNCHANGED <<disk, cache, listG, left>>

-----------------------------------------------------------------------------
(* Remove, Rename, Move and Copy                                            *)

OpStart(p) ==
    /\ \E fn \in {"remove", "rename", "move", "copy", "put", "puturl"} :
          At(p, fn, "start")
    /\ Get(p, Top(p).path,
           CASE Top(p).fn \in {"remove", "rename"} -> "got"
             [] Top(p).fn \in {"move", "copy"}     -> "src"
             [] OTHER                              -> "old")
    /\ UNCHANGED <<disk, cache, listG, mkdirG, left>>

\* The last step of an operation whose driver call and upkeep are done
OpEnd(p) ==
    /\ \E fn \in {"remove", "rename", "move", "copy", "puturl"} : At(p, fn, "end")
    /\ Returns(p, Done)
    /\ UNCHANGED <<disk, cache, listG, mkdirG, left>>

\* An object that is gone already has been removed.
RemoveDrive(p) ==
    LET f == Top(p)
        able == disk[f.path] # Absent
    IN  /\ At(p, "remove", "got")
        /\ \/ /\ Missing(ret[p])
              /\ Returns(p, IF ret[p] = Absent THEN Done ELSE Failed)
              /\ UNCHANGED <<disk, cache, listG, mkdirG, left>>
           \/ /\ ~Missing(ret[p]) /\ able
              /\ Driven(p, Without(disk, f.path), [f EXCEPT !.at = "end"],
                        Disappears(f.path, ret[p]) \o
                        IF ret[p] = "dir" THEN <<ClearFrame(f.path)>> ELSE <<>>)
           \/ ~Missing(ret[p]) /\ Refused(p, able)

RenameDrive(p) ==
    LET f   == Top(p)
        dir == Parent(f.path)
        dst == Child(dir, f.to)
        able == disk[f.path] # Absent /\ (dst = f.path \/ CanArrive(f.path, dst))
    IN  /\ At(p, "rename", "got")
        /\ \/ /\ ~Missing(ret[p]) /\ able
              /\ \E upkeep \in Upkeeps(dir, Entry(Last(f.path), ret[p]),
                                       Entry(f.to, disk[f.path]), f.lazy) :
                    Driven(p, IF dst = f.path THEN disk
                              ELSE Without(Duplicated(disk, f.path, dst), f.path),
                           [f EXCEPT !.at = "end"], upkeep)
           \/ Refused(p, able /\ ~Missing(ret[p]))

\* The kind that src had is kept for the upkeep of its listing.
MoveSrc(p) ==
    /\ At(p, "move", "src") \/ At(p, "copy", "src")
    /\ IF Missing(ret[p]) THEN Returns(p, Failed)
       ELSE LET f == [Top(p) EXCEPT !.kind = ret[p], !.at = "got"] IN
            IF f.to = Root
            THEN Replace(p, <<f>>) /\ ret' = [ret EXCEPT ![p] = "dir"]
            ELSE /\ Replace(p, <<ListFrame(Parent(f.to), Last(f.to), FALSE), f>>)
                 /\ UNCHANGED ret
    /\ UNCHANGED <<disk, cache, listG, mkdirG, left>>

MoveDrive(p) ==
    LET f    == Top(p)
        dst  == Child(f.to, Last(f.path))
        able == CanArrive(f.path, dst)
        both == Duplicated(disk, f.path, dst)
    IN  /\ At(p, "move", "got") \/ At(p, "copy", "got")
        /\ \/ /\ ~Missing(ret[p]) /\ able
              /\ \E upkeep \in Upkeeps(f.to, NoName,
                                       Entry(Last(f.path), disk[f.path]), f.lazy) :
                    IF f.fn = "move"
                    THEN Driven(p, Without(both, f.path), [f EXCEPT !.at = "end"],
                                Disappears(f.path, f.kind) \o upkeep)
                    ELSE Driven(p, both, [f EXCEPT !.at = "end"], upkeep)
           \/ Refused(p, able /\ ~Missing(ret[p]))

-----------------------------------------------------------------------------
(* Put and PutURL                                                           *)

MakeParent(p, frame) ==
    Replace(p, <<MkdirFrame(Parent(frame.path)), [frame EXCEPT !.at = "parent"]>>)
    /\ UNCHANGED ret

\* An existing object of size 0 is deleted first; another one is renamed away if
\* the driver cannot overwrite.  Directories have size 0.
PutOld(p) ==
    LET f == Top(p) IN
    /\ At(p, "put", "old")
    /\ IF ret[p] \in {"empty", "dir"}
       THEN Call(p, RemoveFrame(f.path), "cleared")
       ELSE IF ret[p] = "file" /\ NoOverwrite
            THEN /\ Replace(p, <<RenameFrame(f.path, Temp[Last(f.path)]),
                                 [f EXCEPT !.at = "cleared", !.kept = TRUE]>>)
                 /\ UNCHANGED ret
            ELSE MakeParent(p, f)
    /\ UNCHANGED <<disk, cache, listG, mkdirG, left>>

PutCleared(p) ==
    /\ At(p, "put", "cleared")
    /\ IF ret[p] = Done THEN MakeParent(p, Top(p)) ELSE Returns(p, Failed)
    /\ UNCHANGED <<disk, cache, listG, mkdirG, left>>

\* Any error of the look-up means to PutURL that the object is not there.
PutURLOld(p) ==
    /\ At(p, "puturl", "old")
    /\ IF Missing(ret[p]) THEN MakeParent(p, Top(p)) ELSE Returns(p, Failed)
    /\ UNCHANGED <<disk, cache, listG, mkdirG, left>>

PutParent(p) ==
    /\ At(p, "put", "parent") \/ At(p, "puturl", "parent")
    /\ IF ret[p] = Done THEN Get(p, Parent(Top(p).path), "got") ELSE Returns(p, Failed)
    /\ UNCHANGED <<disk, cache, listG, mkdirG, left>>

\* storage.Put and storage.PutURL.  A failed upload goes on to the recovery.
PutDrive(p) ==
    LET f    == Top(p)
        able == /\ disk[Parent(f.path)] = "dir"
                /\ disk[f.path] # "dir"
                /\ NoOverwrite => disk[f.path] = Absent
        next == [f EXCEPT !.at = IF f.fn = "put" THEN "done" ELSE "end"]
    IN  /\ At(p, "put", "got") \/ At(p, "puturl", "got")
        /\ \/ /\ ~Missing(ret[p]) /\ able
              /\ \E upkeep \in Upkeeps(Parent(f.path), NoName,
                                       Entry(Last(f.path), f.kind), f.lazy) :
                    Driven(p, [disk EXCEPT ![f.path] = f.kind],
                           [next EXCEPT !.ok = TRUE], upkeep)
           \/ Missing(ret[p]) /\ Refused(p, FALSE)
           \/ /\ ~Missing(ret[p]) /\ (able => Fails)
              /\ IF f.fn = "put" THEN Replace(p, <<next>>) /\ UNCHANGED ret
                                 ELSE Returns(p, Failed)
              /\ UNCHANGED <<disk, cache, listG, mkdirG, left>>

\* Mutant: the old object is removed after a failed upload too.
PutDone_NoRecovery(p) ==
    LET f == Top(p) IN
    /\ At(p, "put", "done")
    /\ IF ~f.kept THEN Returns(p, IF f.ok THEN Done ELSE Failed)
       ELSE Call(p, RemoveFrame(Child(Parent(f.path), Temp[Last(f.path)])), "end")
    /\ UNCHANGED <<disk, cache, listG, mkdirG, left>>

\* The old object under its temporary name: recovered, or removed.
PutDone(p) ==
    LET f    == Top(p)
        temp == Child(Parent(f.path), Temp[Last(f.path)])
    IN  /\ At(p, "put", "done")
        /\ IF ~f.kept THEN Returns(p, IF f.ok THEN Done ELSE Failed)
           ELSE IF f.ok THEN Call(p, RemoveFrame(temp), "end")
           ELSE Call(p, RenameFrame(temp, Last(f.path)), "end")
        /\ UNCHANGED <<disk, cache, listG, mkdirG, left>>

PutEnd(p) ==
    /\ At(p, "put", "end")
    /\ Returns(p, IF Top(p).ok THEN ret[p] ELSE Failed)
    /\ UNCHANGED <<disk, cache, listG, mkdirG, left>>

-----------------------------------------------------------------------------
(* History.  A change of a directory is open from the driver call until the  *)
(* operation is done with its upkeep, and a listing from the driver call     *)
(* until it is stored.  A directory has a race while two of these overlap.   *)

Open(dir) ==
    {p \in Proc : \E i \in DOMAIN stack[p] : dir \in stack[p][i].changed} \cup
    IF listG[dir].stage = "read" THEN {"flight"} ELSE {}

\* Cached listings that a step of p leaves without the upkeep they need:
\* those of a directory that gets another path, those below a directory that is
\* removed, which ClearCache reaches only as far as the listings above them are
\* cached (and its own, if it was taken for a file), those behind a lazy cache,
\* and that of the directory in which an object is renamed to its own name.
Neglected(p) ==
    LET f == Top(p) IN
    {d \in Dir :
        \/ /\ f.at = "got" /\ disk' # disk
           /\ \/ f.fn \in {"rename", "move"} /\ IsPrefix(f.path, d)
              \/ /\ f.fn = "remove" /\ IsPrefix(f.path, d)
                 /\ d = f.path => ret[p] # "dir"
              \/ /\ f.lazy /\ d \in Changed(disk')
                 /\ d \notin {g.path : g \in Range(stack'[p])}
        \/ /\ f.at = "end" /\ f.fn = "rename"
           /\ f.to = Last(f.path) /\ d = Parent(f.path)}

Observe(neglected) ==
    /\ race' = [d \in Dir |-> /\ Open(d)' # {}
                              /\ race[d] \/ Cardinality(Open(d)') > 1]
    /\ suspect' = {d \in Dir :
                     /\ cache'[d] # NoListing \/ Open(d)' # {}
                     /\ \/ race[d] \/ race'[d] \/ d \in neglected
                        \/ /\ d \in suspect
                           /\ ~(listG[d].stage = "read" /\ listG'[d].stage = "stored")}

-----------------------------------------------------------------------------
Init ==
    /\ disk \in InitDisks
    /\ cache = [d \in Dir |-> NoListing]
    /\ listG = [d \in Dir |-> NoFlight]
    /\ mkdirG = {}
    /\ stack = [p \in Proc |-> <<>>]
    /\ ret = [p \in Proc |-> Done]
    /\ left = MaxOps
    /\ race = [d \in Dir |-> FALSE]
    /\ suspect = {}

Begin(p, frame) ==
    /\ stack[p] = <<>>
    /\ left > 0
    /\ left' = left - 1
    /\ stack' = [stack EXCEPT ![p] = <<frame>>]
    /\ UNCHANGED <<disk, cache, listG, mkdirG, ret, race, suspect>>

\* A cached listing expires.
Expire(d) ==
    /\ cache[d] # NoListing
    /\ cache' = [cache EXCEPT ![d] = NoListing]
    /\ UNCHANGED <<disk, listG, mkdirG, stack, ret, left>>
    /\ Observe({})

Step(p) ==
    /\ stack[p] # <<>>
    /\ \/ ListStart(p) \/ ListDo(p) \/ ListRead(p) \/ ListStore(p) \/ ListClose(p)
       \/ EditGet(p) \/ EditSet(p) \/ ClearStart(p) \/ ClearKids(p)
       \/ MkdirStart(p) \/ MkdirCheck(p) \/ MkdirParent(p) \/ MkdirDrive(p) \/ MkdirEnd(p)
       \/ OpStart(p) \/ OpEnd(p) \/ RemoveDrive(p) \/ RenameDrive(p) \/ MoveSrc(p) \/ MoveDrive(p)
       \/ PutOld(p) \/ PutCleared(p) \/ PutURLOld(p) \/ PutParent(p) \/ PutDrive(p)
       \/ PutDone(p) \/ PutEnd(p)
    /\ Observe(Neglected(p))

AllDone == left = 0 /\ \A p \in Proc : stack[p] = <<>>

Next ==
    \/ \E p \in Proc, frame \in Requests : Begin(p, frame)
    \/ \E p \in Proc : Step(p)
    \/ \E d \in Dir : Expire(d)
    \/ AllDone /\ UNCHANGED vars

\* Goroutines are scheduled, and the driver answers.
Spec == Init /\ [][Next]_vars /\ \A p \in Proc : WF_vars(Step(p))

-----------------------------------------------------------------------------
(* Properties                                                               *)

Flying == {"read", "store", "close"}
\* The processes that lead, or wait for, the flight of listG for dir
Listers(dir, stages) == {p \in Proc : \E at \in stages : At(p, "list", at) /\ Top(p).path = dir}

\* The frames that lead the flight of mkdirG for path
Makers(path) ==
    UNION {{<<p, i>> : i \in {j \in DOMAIN stack[p] :
                                /\ stack[p][j].fn = "mkdir"
                                /\ stack[p][j].path = path
                                /\ stack[p][j].at \notin {"start", "wait"}}} :
           p \in Proc}

\* Disk, cache, flights and history have their types; the disk is a tree.
TypeOK ==
    /\ IsTree(disk)
    /\ \A d \in Dir : cache[d] = NoListing \/
          \A e \in cache[d] : Child(d, e.name) \in Path /\ e.kind \in Kind
    /\ mkdirG \subseteq Path
    /\ \A d \in Dir : listG[d].stage \in {"none", "open", "read", "stored", "failed"}
    /\ left \in 0 .. MaxOps /\ suspect \subseteq Dir

\* "Concurrent requests for the same key become one actual call": each open
\* flight has exactly one leader, whoever waits waits for an open flight, and so
\* the driver never lists a directory, or makes one, twice at a time.
FlightsLed ==
    /\ \A d \in Dir :
          /\ Cardinality(Listers(d, Flying)) = IF listG[d] = NoFlight THEN 0 ELSE 1
          /\ Listers(d, {"wait"}) # {} => listG[d] # NoFlight
    /\ \A x \in Path : Cardinality(Makers(x)) = IF x \in mkdirG THEN 1 ELSE 0
    /\ \A p \in Proc : At(p, "mkdir", "wait") => Top(p).path \in mkdirG

\* A cached listing is what the storage holds, except while an operation is at
\* work on the directory, and except for the listings the code can spoil: two
\* overlapping changes of a directory, a flight that overlaps a change, and the
\* kinds of neglect.  In particular requests that do not overlap may rely
\* on the cache whatever calls, failures and expiries came before.
Coherent ==
    \A d \in Dir : \/ cache[d] = NoListing
                   \/ d \in suspect
                   \/ Open(d) # {}
                   \/ cache[d] = OnDisk(d)

\* Every call returns: flights, waits and nested calls never block each other.
CallsReturn == \A p \in Proc : (stack[p] # <<>>) ~> (stack[p] = <<>>)

\* The object of path x is there, under its own name or the temporary one.
Kept(x) == \E n \in {Last(x), Temp[Last(x)]} : disk[Child(Parent(x), n)] = "file"

\* When only uploads and listings run, an object that is there stays there, under
\* its name or the temporary one, however uploads overlap, fail or overwrite.
ObjectKept ==
    [][\A x \in Path \ {Root} : Last(x) \in DOMAIN Temp /\ Kept(x) => Kept(x)']_vars

\* After MakeDir has succeeded the directory is found: an error there "should not
\* happen" (fs.go:323, 553) as long as nothing fails and nobody removes anything.
ParentFound ==
    \A p \in Proc : At(p, "put", "got") \/ At(p, "mkdir", "got") => ~Missing(ret[p])

=============================================================================
