----------------------------- MODULE OpFs_proofs -----------------------------
(***************************************************************************)
(* Proofs about file operations and the listing cache, for any number of   *)
(* goroutines and calls, any set of paths and any requests.                *)
(***************************************************************************)
EXTENDS OpFs, FiniteSetTheorems, SequenceTheorems, TLAPS, WellFoundedInduction

-----------------------------------------------------------------------------
(* Paths *)

\* A path other than the root has a parent, which is a directory, and a name.
LEMMA PathHas ==
    ASSUME NEW x \in Path, x # Root
    PROVE  /\ x \in Seq(Name) /\ Len(x) \in Nat /\ Len(x) > 0
           /\ Parent(x) \in Dir /\ Parent(x) \in Path /\ Len(Parent(x)) = Len(x) - 1
           /\ \A i \in 1 .. Len(x) - 1 : Parent(x)[i] = x[i]
           /\ Last(x) \in Name
           /\ Child(Parent(x), Last(x)) = x
           /\ Parent(x) # x
<1>1. x \in Seq(Name) /\ Parent(x) \in Path BY PathAssumption
<1>2. Len(x) \in Nat /\ x \in [1 .. Len(x) -> Name] BY <1>1, LenProperties
<1>3. Len(x) > 0 BY <1>1, <1>2, EmptySeq DEF Root
<1>4. Parent(x) \in Dir BY DEF Dir
<1>5. /\ Parent(x) \in Seq(Name) /\ Len(Parent(x)) = Len(x) - 1
      /\ \A i \in 1 .. Len(x) - 1 : Parent(x)[i] = x[i]
  BY <1>1, <1>2, <1>3, SubSeqProperties DEF Parent, Front
<1>6. Last(x) \in Name BY <1>2, <1>3 DEF Last
<1>7. Child(Parent(x), Last(x)) = x
  <2>1. Child(Parent(x), Last(x)) = Append(Parent(x), Last(x)) BY DEF Child
  <2>2. /\ Child(Parent(x), Last(x)) \in Seq(Name)
        /\ Len(Child(Parent(x), Last(x))) = Len(Parent(x)) + 1
        /\ \A i \in 1 .. Len(Parent(x)) : Child(Parent(x), Last(x))[i] = Parent(x)[i]
        /\ Child(Parent(x), Last(x))[Len(Parent(x)) + 1] = Last(x)
    BY <2>1, <1>5, <1>6, AppendProperties
  <2>3. x[Len(x)] = Last(x) BY DEF Last
  <2>4. \A i \in 1 .. Len(x) : Child(Parent(x), Last(x))[i] = x[i]
    BY <2>2, <2>3, <1>2, <1>3, <1>5
  <2>5. Len(Child(Parent(x), Last(x))) = Len(x) BY <2>2, <1>2, <1>5
  <2> QED BY <2>2, <2>4, <2>5, <1>1, SeqEqual
<1> QED BY <1>1, <1>2, <1>3, <1>4, <1>5, <1>6, <1>7

\* Directories are paths, and paths are sequences of names.
LEMMA DirsArePaths == Dir \subseteq Path /\ Path \subseteq Seq(Name)
<1>1. ASSUME NEW d \in Dir PROVE d \in Path
  <2>1. PICK x \in Path \ {Root} : d = Parent(x) BY DEF Dir
  <2> QED BY <2>1, PathAssumption
<1> QED BY <1>1, PathAssumption

\* A child has its directory as parent, and its name.
LEMMA ChildHas ==
    ASSUME NEW d \in Path, NEW n \in Name
    PROVE  /\ Child(d, n) \in Seq(Name) /\ Child(d, n) # Root
           /\ Parent(Child(d, n)) = d /\ Last(Child(d, n)) = n
           /\ Child(d, n) \in Path => d \in Dir
<1>1. d \in Seq(Name) /\ Len(d) \in Nat BY PathAssumption, LenProperties
<1>2. /\ Child(d, n) \in Seq(Name) /\ Len(Child(d, n)) = Len(d) + 1
      /\ \A i \in 1 .. Len(d) + 1 : Child(d, n)[i] = IF i = Len(d) + 1 THEN n ELSE d[i]
  BY <1>1, AppendProperties DEF Child
<1>3. Child(d, n) # Root BY <1>1, <1>2, EmptySeq DEF Root
<1>4. Last(Child(d, n)) = n BY <1>1, <1>2 DEF Last
<1>5. Parent(Child(d, n)) = d
  <2>1. /\ Parent(Child(d, n)) \in Seq(Name) /\ Len(Parent(Child(d, n))) = Len(d)
        /\ \A i \in 1 .. Len(d) : Parent(Child(d, n))[i] = Child(d, n)[i]
    BY <1>1, <1>2, SubSeqProperties DEF Parent, Front
  <2> QED BY <2>1, <1>1, <1>2, SeqEqual
<1>6. Child(d, n) \in Path => d \in Dir BY <1>3, <1>5 DEF Dir
<1> QED BY <1>2, <1>3, <1>4, <1>5, <1>6

\* Different children have different names.
LEMMA ChildrenDiffer ==
    ASSUME NEW x \in Path \ {Root}, NEW y \in Path \ {Root}, Parent(x) = Parent(y)
    PROVE  Last(x) = Last(y) <=> x = y
BY PathHas

\* What it means to be a prefix
LEMMA PrefixMeans ==
    ASSUME NEW x \in Seq(Name), NEW y \in Seq(Name)
    PROVE  IsPrefix(x, y) <=> Len(x) <= Len(y) /\ \A i \in 1 .. Len(x) : x[i] = y[i]
<1>1. Len(x) \in Nat /\ Len(y) \in Nat BY LenProperties
<1>2. CASE Len(x) <= Len(y)
  <2>1. /\ SubSeq(x, 1, Len(x)) \in Seq(Name) /\ Len(SubSeq(x, 1, Len(x))) = Len(x)
        /\ \A i \in 1 .. Len(x) : SubSeq(x, 1, Len(x))[i] = x[i]
    BY <1>1, SubSeqProperties
  <2>2. /\ SubSeq(y, 1, Len(x)) \in Seq(Name) /\ Len(SubSeq(y, 1, Len(x))) = Len(x)
        /\ \A i \in 1 .. Len(x) : SubSeq(y, 1, Len(x))[i] = y[i]
    BY <1>1, <1>2, SubSeqProperties
  <2>3. ASSUME \A i \in 1 .. Len(x) : x[i] = y[i]
        PROVE  SubSeq(x, 1, Len(x)) = SubSeq(y, 1, Len(x))
    BY <2>1, <2>2, <2>3, SeqEqual
  <2> QED BY <1>2, <2>1, <2>2, <2>3 DEF IsPrefix
<1>3. CASE ~(Len(x) <= Len(y)) BY <1>3 DEF IsPrefix
<1> QED BY <1>2, <1>3

\* A path is a prefix of another, if it is not the path itself, when it is one of
\* the path's parent.
LEMMA PrefixOfParent ==
    ASSUME NEW x \in Path, NEW y \in Path, y # Root
    PROVE  /\ IsPrefix(x, x)
           /\ IsPrefix(x, y) <=> x = y \/ IsPrefix(x, Parent(y))
           /\ ~IsPrefix(y, Parent(y))
<1>1. x \in Seq(Name) /\ y \in Seq(Name) /\ Parent(y) \in Seq(Name)
      /\ Len(x) \in Nat /\ Len(y) \in Nat
  BY PathHas, DirsArePaths, LenProperties
<1>2. Len(Parent(y)) = Len(y) - 1 /\ \A i \in 1 .. Len(y) - 1 : Parent(y)[i] = y[i]
  BY PathHas
<1>3. IsPrefix(x, x) BY <1>1, PrefixMeans
<1>4. IsPrefix(x, y) <=> Len(x) <= Len(y) /\ \A i \in 1 .. Len(x) : x[i] = y[i]
  BY <1>1, PrefixMeans
<1>5. IsPrefix(x, Parent(y)) <=>
        Len(x) <= Len(y) - 1 /\ \A i \in 1 .. Len(x) : x[i] = Parent(y)[i]
  BY <1>1, <1>2, PrefixMeans
<1>6. ~IsPrefix(y, Parent(y)) BY <1>1, <1>2, PrefixMeans
<1>7. ASSUME IsPrefix(x, y), ~IsPrefix(x, Parent(y)) PROVE x = y
  <2>1. Len(x) = Len(y) BY <1>1, <1>2, <1>4, <1>5, <1>7
  <2> QED BY <2>1, <1>1, <1>4, <1>7, SeqEqual
<1>8. ASSUME IsPrefix(x, Parent(y)) PROVE IsPrefix(x, y)
  BY <1>1, <1>2, <1>4, <1>5, <1>8
<1> QED BY <1>3, <1>6, <1>7, <1>8

\* Only the root is above the root.
LEMMA AboveRoot ==
    ASSUME NEW x \in Path, x # Root
    PROVE  ~IsPrefix(x, Root)
<1>1. Len(x) > 0 /\ Len(x) \in Nat BY PathHas
<1>2. Len(Root) = 0 BY DEF Root
<1>3. ~(Len(x) <= Len(Root)) BY <1>1, <1>2
<1> QED BY <1>3 DEF IsPrefix

-----------------------------------------------------------------------------
(* Frames *)

Op == {"mkdir", "remove", "rename", "move", "copy", "put", "puturl"}
Answer == Kind \cup {Absent, Failed}

\* What a listing of d may hold
ListingOk(d, listing) ==
    /\ listing \subseteq Entries
    /\ \A e \in listing : /\ Child(d, e.name) \in Path
                          /\ e.kind = "dir" => Child(d, e.name) \in Dir

\* Frames that keep the cache
IsUpkeep(f) == f.fn \in {"edit", "clear"}

\* Frames that wait for the answer of a Get, and the path they ask for
Asks(f) ==
    \/ f.fn = "list" /\ f.at = "dir"
    \/ f.fn = "mkdir" /\ f.at \in {"check", "got"}
    \/ f.fn \in {"remove", "rename"} /\ f.at = "got"
    \/ f.fn \in {"move", "copy"} /\ f.at \in {"src", "got"}
    \/ f.fn \in {"put", "puturl"} /\ f.at \in {"old", "got"}

Asked(f) ==
    IF f.fn \in {"mkdir", "put", "puturl"} /\ f.at = "got" THEN Parent(f.path)
    ELSE IF f.fn \in {"move", "copy"} /\ f.at = "got" THEN f.to
    ELSE f.path

Temporary(path) == Child(Parent(path), Temp[Last(path)])

InPlace(f) ==
    /\ f.fn = "mkdir"  => f.at \in {"start", "wait", "check", "parent", "got", "end"}
    /\ f.fn = "remove" => f.at \in {"start", "got", "end"}
    /\ f.fn = "rename" => f.at \in {"start", "got", "end"}
    /\ f.fn = "move"   => f.at \in {"start", "src", "got", "end"}
    /\ f.fn = "copy"   => f.at \in {"start", "src", "got", "end"}
    /\ f.fn = "put"    =>
          f.at \in {"start", "old", "cleared", "parent", "got", "done", "end"}
    /\ f.fn = "puturl" => f.at \in {"start", "old", "parent", "got", "end"}

OpOk(f) ==
    /\ InPlace(f)
    /\ f.fn = "mkdir" => f.path \in Dir
    /\ f.fn # "mkdir" \/ f.at \notin {"start", "wait"} => f.path # Root
    /\ f.fn = "rename" => f.to \in Name
    /\ f.fn \in {"move", "copy"} => f.to \in Path
    /\ f.fn \in {"move", "copy"} /\ f.at \in {"got", "end"} => f.kind \in Kind
    /\ f.fn \in {"put", "puturl"} => f.kind \in {"file", "empty"}
    /\ f.fn = "put" /\ NoOverwrite =>
          Last(f.path) \in DOMAIN Temp /\ Temporary(f.path) \in Path
    /\ f.kept => NoOverwrite
    /\ f.changed # {} => f.at \in {"end", "done"}

ListFrames ==
    [fn : {"list"}, at : {"start", "dir", "read", "store", "close", "wait"}, path : Dir,
     want : Name \cup {NoName}, refresh : BOOLEAN, changed : {{}}]

OpFrames ==
    [fn : Op, at : {"start", "wait", "check", "parent", "got", "end", "src", "old",
                    "cleared", "done"},
     path : Path, to : Name \cup Path \cup {NoName}, kind : Kind \cup {NoName},
     lazy : BOOLEAN, kept : BOOLEAN, ok : BOOLEAN, changed : SUBSET Dir]

EditFrames ==
    [fn : {"edit"}, at : {"start", "set"}, path : Dir, old : Entries \cup {NoName},
     new : Entries \cup {NoName}, listing : SUBSET Entries, changed : {{}}]

ClearFrames ==
    [fn : {"clear"}, at : {"start", "kids"}, path : Dir, todo : SUBSET Name, changed : {{}}]

EditFit(f) ==
    /\ ListingOk(f.path, f.listing)
    /\ f.new # NoName => ListingOk(f.path, {f.new})
    /\ f.old # NoName \/ f.new # NoName

FrameSet ==
    ListFrames
    \cup {f \in OpFrames : OpOk(f)}
    \cup {f \in EditFrames : EditFit(f)}
    \cup {f \in ClearFrames : \A name \in f.todo : Child(f.path, name) \in Dir}

\* Frames whose driver call succeeded and whose upkeep is not done
UnderUpkeep(f) ==
    \/ IsUpkeep(f)
    \/ f.fn = "put" /\ f.at = "done"
    \/ f.fn \in Op \ {"put"} /\ f.at = "end"

\* Which frame may stand on which: a function on the one that called it
Above(g, f) ==
    \/ /\ Asks(f) /\ Asked(f) # Root
       /\ g.fn = "list" /\ g.path = Parent(Asked(f)) /\ g.want = Last(Asked(f))
    \/ /\ f.fn \in {"mkdir", "put", "puturl"} /\ f.at = "parent"
       /\ g.fn = "mkdir" /\ ~g.lazy
    \/ /\ f.fn = "put" /\ f.at \in {"cleared", "end"}
       /\ g.fn \in {"remove", "rename"} /\ ~g.lazy
    \/ UnderUpkeep(f) /\ IsUpkeep(g)

\* A frame that leads a flight of mkdirG
Making(f, x) == f.fn = "mkdir" /\ f.path = x /\ f.at \notin {"start", "wait"}

IsEdit(f, d) == f.fn = "edit" /\ f.path = d

\* Two frames that may not stand on one stack
Clash(f, g) ==
    \/ f.fn = "edit" /\ IsEdit(g, f.path)
    \/ Making(f, f.path) /\ Making(g, f.path)

\* The stacks that calls make: each frame stands on the one that called it, only
\* frames that keep the cache stand on one under upkeep, and no two clash.
GoodStack(s) ==
    /\ \A i \in 1 .. Len(s) - 1 : Above(s[i], s[i + 1])
    /\ \A i, j \in 1 .. Len(s) : i < j /\ UnderUpkeep(s[j]) => IsUpkeep(s[i])
    /\ \A i, j \in 1 .. Len(s) : i # j => ~Clash(s[i], s[j])

-----------------------------------------------------------------------------
(* Stacks *)

\* A stack that is not empty has a top and a rest.
LEMMA StackHas ==
    ASSUME NEW S, NEW s \in Seq(S), s # <<>>
    PROVE  /\ Len(s) \in Nat /\ Len(s) > 0 /\ DOMAIN s = 1 .. Len(s)
           /\ Head(s) = s[1] /\ Head(s) \in S
           /\ Tail(s) \in Seq(S) /\ Len(Tail(s)) = Len(s) - 1
           /\ \A i \in 1 .. Len(s) - 1 : Tail(s)[i] = s[i + 1]
           /\ Range(s) = {Head(s)} \cup Range(Tail(s))
           /\ Range(s) \subseteq S
<1>1. Len(s) \in Nat /\ DOMAIN s = 1 .. Len(s) /\ s \in [1 .. Len(s) -> S]
  BY LenProperties
<1>2. Len(s) > 0 BY <1>1, EmptySeq
<1>3. /\ Head(s) \in S /\ Tail(s) \in Seq(S) /\ Len(Tail(s)) = Len(s) - 1
      /\ \A i \in 1 .. Len(s) - 1 : Tail(s)[i] = s[i + 1]
  BY HeadTailProperties
<1>4. Head(s) = s[1] BY <1>1, <1>2
<1>5. DOMAIN Tail(s) = 1 .. Len(s) - 1 BY <1>3, LenProperties
<1>6. Range(s) = {Head(s)} \cup Range(Tail(s))
  <2>1. ASSUME NEW f \in Range(s) PROVE f \in {Head(s)} \cup Range(Tail(s))
    <3>1. PICK i \in 1 .. Len(s) : f = s[i] BY <1>1 DEF Range
    <3>2. CASE i = 1 BY <3>1, <3>2, <1>4
    <3>3. CASE i # 1
      <4>1. i - 1 \in 1 .. Len(s) - 1 /\ Tail(s)[i - 1] = f BY <3>1, <3>3, <1>1, <1>3
      <4> QED BY <4>1, <1>5 DEF Range
    <3> QED BY <3>2, <3>3
  <2>2. ASSUME NEW f \in Range(Tail(s)) PROVE f \in Range(s)
    <3>1. PICK i \in 1 .. Len(s) - 1 : f = Tail(s)[i] BY <1>5 DEF Range
    <3>2. i + 1 \in DOMAIN s /\ f = s[i + 1] BY <3>1, <1>1, <1>3
    <3> QED BY <3>2 DEF Range
  <2>3. Head(s) \in Range(s) BY <1>1, <1>2, <1>4 DEF Range
  <2> QED BY <2>1, <2>2, <2>3
<1>7. Range(s) \subseteq S BY <1>1 DEF Range
<1> QED BY <1>1, <1>2, <1>3, <1>4, <1>6, <1>7

\* A frame is pushed.
LEMMA PushHas ==
    ASSUME NEW S, NEW s \in Seq(S), NEW c \in S
    PROVE  /\ <<c>> \o s \in Seq(S) /\ Len(<<c>> \o s) = Len(s) + 1
           /\ <<c>> \o s # <<>>
           /\ (<<c>> \o s)[1] = c
           /\ \A i \in 1 .. Len(s) : (<<c>> \o s)[i + 1] = s[i]
           /\ Head(<<c>> \o s) = c /\ Tail(<<c>> \o s) = s
           /\ Range(<<c>> \o s) = {c} \cup Range(s)
<1>1. <<c>> \in Seq(S) /\ Len(<<c>>) = 1 /\ <<c>>[1] = c OBVIOUS
<1>2. Len(s) \in Nat BY LenProperties
<1>3. /\ <<c>> \o s \in Seq(S) /\ Len(<<c>> \o s) = Len(s) + 1
      /\ \A i \in 1 .. 1 + Len(s) : (<<c>> \o s)[i] = IF i <= 1 THEN <<c>>[i] ELSE s[i - 1]
  BY <1>1, <1>2, ConcatProperties
<1>4. (<<c>> \o s)[1] = c BY <1>1, <1>2, <1>3
<1>5. \A i \in 1 .. Len(s) : (<<c>> \o s)[i + 1] = s[i] BY <1>2, <1>3
<1>6. <<c>> \o s # <<>> BY <1>2, <1>3, EmptySeq
<1>7. Head(<<c>> \o s) = c BY <1>3, <1>4, <1>6, StackHas
<1>8. Tail(<<c>> \o s) = s
  <2>1. /\ Tail(<<c>> \o s) \in Seq(S) /\ Len(Tail(<<c>> \o s)) = Len(s)
        /\ \A i \in 1 .. Len(s) : Tail(<<c>> \o s)[i] = (<<c>> \o s)[i + 1]
    BY <1>2, <1>3, <1>6, StackHas
  <2> QED BY <2>1, <1>5, SeqEqual
<1>9. Range(<<c>> \o s) = {c} \cup Range(s) BY <1>3, <1>6, <1>7, <1>8, StackHas
<1> QED BY <1>3, <1>4, <1>5, <1>6, <1>7, <1>8, <1>9

\* Two frames clash both ways or not at all.
LEMMA ClashBothWays == ASSUME NEW f, NEW g PROVE Clash(f, g) <=> Clash(g, f)
BY DEF Clash, IsEdit, Making

\* A stack whose top is not there to keep the cache has no such frame, and none
\* under upkeep, below.
LEMMA BelowTop ==
    ASSUME NEW s \in Seq(FrameSet), s # <<>>, GoodStack(s)
    PROVE  /\ ~IsUpkeep(Head(s)) => \A f \in Range(Tail(s)) : ~UnderUpkeep(f)
           /\ \A f \in Range(Tail(s)) : ~Clash(Head(s), f)
           /\ Tail(s) # <<>> => Above(Head(s), Head(Tail(s)))
<1>1. /\ Len(s) \in Nat /\ Len(s) > 0 /\ Head(s) = s[1]
      /\ Tail(s) \in Seq(FrameSet) /\ Len(Tail(s)) = Len(s) - 1
      /\ \A i \in 1 .. Len(s) - 1 : Tail(s)[i] = s[i + 1]
  BY StackHas
<1>2. ASSUME NEW f \in Range(Tail(s))
      PROVE  \E i \in 2 .. Len(s) : f = s[i]
  <2>1. DOMAIN Tail(s) = 1 .. Len(s) - 1 BY <1>1, LenProperties
  <2>2. PICK i \in 1 .. Len(s) - 1 : f = Tail(s)[i] BY <1>2, <2>1 DEF Range
  <2>3. i + 1 \in 2 .. Len(s) /\ f = s[i + 1] BY <1>1, <2>2
  <2> QED BY <2>3
<1>3. ASSUME NEW f \in Range(Tail(s)), ~IsUpkeep(Head(s)) PROVE ~UnderUpkeep(f)
  <2>1. PICK i \in 2 .. Len(s) : f = s[i] BY <1>2
  <2>2. i \in 1 .. Len(s) /\ 1 \in 1 .. Len(s) /\ 1 < i BY <1>1, <2>1
  <2> QED BY <1>1, <1>3, <2>1, <2>2 DEF GoodStack
<1>4. ASSUME NEW f \in Range(Tail(s)) PROVE ~Clash(Head(s), f)
  <2>1. PICK i \in 2 .. Len(s) : f = s[i] BY <1>2
  <2>2. i \in 1 .. Len(s) /\ 1 \in 1 .. Len(s) /\ 1 # i BY <1>1, <2>1
  <2> QED BY <1>1, <2>1, <2>2 DEF GoodStack
<1>5. ASSUME Tail(s) # <<>> PROVE Above(Head(s), Head(Tail(s)))
  <2>1. Len(Tail(s)) > 0 /\ Head(Tail(s)) = Tail(s)[1] BY <1>1, <1>5, StackHas
  <2>2. 1 \in 1 .. Len(s) - 1 /\ Tail(s)[1] = s[2] BY <1>1, <2>1
  <2> QED BY <1>1, <2>1, <2>2 DEF GoodStack
<1> QED BY <1>3, <1>4, <1>5

\* A good stack stays good when a function returns.
LEMMA TailGood ==
    ASSUME NEW s \in Seq(FrameSet), s # <<>>, GoodStack(s)
    PROVE  GoodStack(Tail(s))
<1>1. /\ Len(s) \in Nat /\ Len(Tail(s)) = Len(s) - 1
      /\ \A i \in 1 .. Len(s) - 1 : Tail(s)[i] = s[i + 1]
  BY StackHas
<1>2. ASSUME NEW i \in 1 .. Len(Tail(s)) - 1 PROVE Above(Tail(s)[i], Tail(s)[i + 1])
  <2>1. /\ i + 1 \in 1 .. Len(s) - 1
        /\ Tail(s)[i] = s[i + 1] /\ Tail(s)[i + 1] = s[(i + 1) + 1]
    BY <1>1
  <2> QED BY <2>1 DEF GoodStack
<1>3. ASSUME NEW i \in 1 .. Len(Tail(s)), NEW j \in 1 .. Len(Tail(s))
      PROVE  /\ i < j /\ UnderUpkeep(Tail(s)[j]) => IsUpkeep(Tail(s)[i])
             /\ i # j => ~Clash(Tail(s)[i], Tail(s)[j])
  <2>1. /\ i + 1 \in 1 .. Len(s) /\ j + 1 \in 1 .. Len(s)
        /\ Tail(s)[i] = s[i + 1] /\ Tail(s)[j] = s[j + 1]
        /\ i < j => i + 1 < j + 1
        /\ i # j => i + 1 # j + 1
    BY <1>1
  <2> QED BY <2>1 DEF GoodStack
<1> QED BY <1>2, <1>3 DEF GoodStack

\* It does when a frame is called that may stand on its top.
LEMMA PushGood ==
    ASSUME NEW s \in Seq(FrameSet), GoodStack(s),
           NEW c \in FrameSet,
           s # <<>> => Above(c, Head(s)),
           s # <<>> /\ UnderUpkeep(Head(s)) => IsUpkeep(c),
           \A f \in Range(s) : ~Clash(c, f)
    PROVE  GoodStack(<<c>> \o s)
<1> DEFINE t == <<c>> \o s
<1>1. /\ Len(s) \in Nat /\ Len(t) = Len(s) + 1 /\ t[1] = c
      /\ \A i \in 1 .. Len(s) : t[i + 1] = s[i]
  BY PushHas, LenProperties
<1>2. \A i \in 2 .. Len(t) : i - 1 \in 1 .. Len(s) /\ t[i] = s[i - 1]
  <2> TAKE i \in 2 .. Len(t)
  <2>1. i - 1 \in 1 .. Len(s) /\ (i - 1) + 1 = i BY <1>1
  <2> QED BY <2>1, <1>1
<1>3. \A i \in 1 .. Len(s) : s[i] \in Range(s) BY LenProperties DEF Range
<1>4. Len(s) > 0 => s # <<>> /\ Head(s) = s[1] BY <1>1, StackHas, EmptySeq
<1>5. ASSUME NEW i \in 1 .. Len(t) - 1 PROVE Above(t[i], t[i + 1])
  <2>1. i + 1 \in 2 .. Len(t) BY <1>1
  <2>2. t[i + 1] = s[i] /\ i \in 1 .. Len(s) BY <1>1, <1>2, <2>1
  <2>3. CASE i = 1 BY <2>2, <2>3, <1>1, <1>4
  <2>4. CASE i # 1
    <3>1. i \in 2 .. Len(t) /\ i - 1 \in 1 .. Len(s) - 1 /\ (i - 1) + 1 = i BY <1>1, <2>4
    <3>2. t[i] = s[i - 1] BY <3>1, <1>2
    <3> QED BY <3>1, <3>2, <2>2 DEF GoodStack
  <2> QED BY <2>3, <2>4
<1>6. ASSUME NEW j \in 2 .. Len(t), UnderUpkeep(t[j]) PROVE IsUpkeep(c)
  <2>1. j - 1 \in 1 .. Len(s) /\ t[j] = s[j - 1] /\ Len(s) > 0 BY <1>1, <1>2
  <2>2. CASE j = 2 BY <2>1, <2>2, <1>4, <1>6
  <2>3. CASE j # 2
    <3>1. 1 \in 1 .. Len(s) /\ 1 < j - 1 BY <2>1, <2>3, <1>1
    <3>2. IsUpkeep(s[1]) BY <3>1, <2>1, <1>6 DEF GoodStack
    <3>3. UnderUpkeep(Head(s)) BY <3>2, <2>1, <1>4 DEF UnderUpkeep
    <3> QED BY <3>3, <2>1, <1>4
  <2> QED BY <2>2, <2>3
<1>7. ASSUME NEW i \in 1 .. Len(t), NEW j \in 1 .. Len(t), i < j, UnderUpkeep(t[j])
      PROVE  IsUpkeep(t[i])
  <2>1. j \in 2 .. Len(t) BY <1>1, <1>7
  <2>2. CASE i = 1 BY <2>1, <2>2, <1>1, <1>6, <1>7
  <2>3. CASE i # 1
    <3>1. i \in 2 .. Len(t) /\ i - 1 < j - 1 BY <1>1, <1>7, <2>3
    <3>2. /\ i - 1 \in 1 .. Len(s) /\ j - 1 \in 1 .. Len(s)
          /\ t[i] = s[i - 1] /\ t[j] = s[j - 1]
      BY <3>1, <2>1, <1>2
    <3> QED BY <3>1, <3>2, <1>7 DEF GoodStack
  <2> QED BY <2>2, <2>3
<1>8. ASSUME NEW i \in 1 .. Len(t), NEW j \in 1 .. Len(t), i # j PROVE ~Clash(t[i], t[j])
  <2>1. CASE i = 1
    <3>1. j \in 2 .. Len(t) BY <1>1, <1>8, <2>1
    <3> QED BY <2>1, <3>1, <1>1, <1>2, <1>3
  <2>2. CASE j = 1
    <3>1. i \in 2 .. Len(t) BY <1>1, <1>8, <2>2
    <3> QED BY <2>2, <3>1, <1>1, <1>2, <1>3, ClashBothWays
  <2>3. CASE i # 1 /\ j # 1
    <3>1. i \in 2 .. Len(t) /\ j \in 2 .. Len(t) /\ i - 1 # j - 1 BY <1>1, <1>8, <2>3
    <3>2. /\ i - 1 \in 1 .. Len(s) /\ j - 1 \in 1 .. Len(s)
          /\ t[i] = s[i - 1] /\ t[j] = s[j - 1]
      BY <3>1, <1>2
    <3> QED BY <3>1, <3>2 DEF GoodStack
  <2> QED BY <2>1, <2>2, <2>3
<1> QED BY <1>5, <1>7, <1>8 DEF GoodStack

\* What a caller knows of a frame
SameCall(g, f) ==
    /\ g.fn = f.fn /\ g.path = f.path
    /\ f.fn = "list" => g.want = f.want
    /\ f.fn \in Op => g.lazy = f.lazy

\* It does when the top goes on to another of its steps.
LEMMA TopGood ==
    ASSUME NEW s \in Seq(FrameSet), s # <<>>, GoodStack(s),
           NEW g \in FrameSet, SameCall(g, Head(s)),
           \A f \in Range(Tail(s)) : ~Clash(g, f)
    PROVE  GoodStack(<<g>> \o Tail(s))
<1>1. Head(s) \in FrameSet /\ Tail(s) \in Seq(FrameSet) BY StackHas
<1>2. GoodStack(Tail(s)) BY TailGood
<1>3. IsUpkeep(g) <=> IsUpkeep(Head(s)) BY DEF SameCall, IsUpkeep
<1>4. ASSUME Tail(s) # <<>>
      PROVE  /\ Above(g, Head(Tail(s)))
             /\ UnderUpkeep(Head(Tail(s))) => IsUpkeep(g)
  <2>1. Above(Head(s), Head(Tail(s))) BY <1>4, BelowTop
  <2>2. Above(g, Head(Tail(s))) BY <2>1, <1>3 DEF Above, SameCall, Op
  <2>3. Head(Tail(s)) \in Range(Tail(s)) BY ZenonT(40), <1>1, <1>4, StackHas
  <2>4. UnderUpkeep(Head(Tail(s))) => IsUpkeep(g) BY <2>3, <1>3, BelowTop
  <2> QED BY <2>2, <2>4
<1> QED BY <1>1, <1>2, <1>4, PushGood

-----------------------------------------------------------------------------
(* The inductive invariant *)

\* What a stack says of a directory, or of a path: who has a change of it open,
\* the edits and the clearing of its listing that are pending, the renaming of an
\* object in it to its own name, the making of a directory.
OpensOn(s, d)  == \E f \in Range(s) : d \in f.changed
EditsOn(s, d)  == {f \in Range(s) : IsEdit(f, d)}
ClearsOn(s, d) == \E f \in Range(s) : f.fn = "clear" /\ f.path = d
SelfOn(s, d)   == \E f \in Range(s) : /\ f.fn = "rename" /\ f.at = "end"
                                      /\ f.to = Last(f.path) /\ Parent(f.path) = d
                                      /\ d \in f.changed
MakesOn(s, x)  == \E f \in Range(s) : Making(f, x)

\* The top of a stack leads a flight of listG, or waits for a flight.
Flies(s, d)      == s # <<>> /\ Head(s).fn = "list" /\ Head(s).at \in Flying /\ Head(s).path = d
WaitsList(s, d)  == s # <<>> /\ Head(s).fn = "list" /\ Head(s).at = "wait" /\ Head(s).path = d
WaitsMkdir(s, x) == s # <<>> /\ Head(s).fn = "mkdir" /\ Head(s).at = "wait" /\ Head(s).path = x

\* The answer a frame waits for is one.
AnswerFor(s, v) ==
    s # <<>> /\ Asks(Head(s)) => v \in Answer /\ (v = "dir" => Asked(Head(s)) \in Dir)

Stacks ==
    /\ stack \in [Proc -> Seq(FrameSet)]
    /\ ret \in [Proc -> Answer \cup {Done}]
    /\ \A p \in Proc : GoodStack(stack[p]) /\ AnswerFor(stack[p], ret[p])

FlightRecord == [stage : {"none", "open", "read", "stored", "failed"}, listing : SUBSET Entries]

Data ==
    /\ IsTree(disk)
    /\ cache \in [Dir -> (SUBSET Entries) \cup {NoListing}]
    /\ \A d \in Dir : cache[d] # NoListing => ListingOk(d, cache[d])
    /\ listG \in [Dir -> FlightRecord]
    /\ \A d \in Dir : ListingOk(d, listG[d].listing)
    /\ \A d \in Dir : listG[d].stage = "none" => listG[d] = NoFlight
    /\ mkdirG \subseteq Path
    /\ left \in 0 .. MaxOps
    /\ race \in [Dir -> BOOLEAN]
    /\ suspect \subseteq Dir

\* The stage of a flight is the one its leader has brought it to.
InStep(at, stage) ==
    \/ at = "read"  /\ stage = "open"
    \/ at = "store" /\ stage = "read"
    \/ at = "close" /\ stage \in {"stored", "failed"}

ListFlights ==
    \A d \in Dir :
        /\ \A p \in Proc : Flies(stack[p], d) => InStep(Top(p).at, listG[d].stage)
        /\ \A p, q \in Proc : Flies(stack[p], d) /\ Flies(stack[q], d) => p = q
        /\ listG[d].stage # "none" => \E p \in Proc : Flies(stack[p], d)
        /\ \A p \in Proc : WaitsList(stack[p], d) => listG[d].stage # "none"

MkdirFlights ==
    \A x \in Path :
        /\ \A p, q \in Proc : MakesOn(stack[p], x) /\ MakesOn(stack[q], x) => p = q
        /\ x \in mkdirG <=> \E p \in Proc : MakesOn(stack[p], x)
        /\ \A p \in Proc : WaitsMkdir(stack[p], x) => x \in mkdirG

Base == Stacks /\ Data /\ ListFlights /\ MkdirFlights

-----------------------------------------------------------------------------
(* How stacks change *)

\* Nobody waits or leads on this stack.
Idle(s) ==
    s # <<>> => /\ ~(Head(s).fn = "list" /\ Head(s).at \in Flying \cup {"wait"})
                /\ ~(Head(s).fn = "mkdir" /\ Head(s).at = "wait")

\* The same flights of mkdirG are led.
SameMaking(s, t) == \A x : MakesOn(t, x) <=> MakesOn(s, x)

\* The same changes and upkeep are pending.
Calm(s, t) ==
    \A d : /\ OpensOn(t, d) <=> OpensOn(s, d)
           /\ EditsOn(t, d) = EditsOn(s, d)
           /\ ClearsOn(t, d) <=> ClearsOn(s, d)
           /\ SelfOn(t, d) <=> SelfOn(s, d)

\* A frame that nothing pending depends on
IsCalm(f) == f.changed = {} /\ ~IsUpkeep(f)

\* A frame on which something stands is at a call.
LEMMA AboveMeans ==
    ASSUME NEW g \in FrameSet, NEW f \in FrameSet, Above(g, f)
    PROVE  /\ f.fn = "list" => f.at = "dir"
           /\ f.fn = "mkdir" => f.at \notin {"start", "wait"}
BY DEF Above, Asks, UnderUpkeep, IsUpkeep, Op

\* What a frame is
LEMMA FrameHas ==
    ASSUME NEW f \in FrameSet
    PROVE  /\ f.path \in Path /\ f.changed \subseteq Dir
           /\ f.fn \in Op \cup {"list", "edit", "clear"}
           /\ f.fn = "list" <=> f \in ListFrames
           /\ f.fn \in Op <=> f \in OpFrames
           /\ f.fn \in Op => OpOk(f)
           /\ f.fn = "edit" <=> f \in EditFrames
           /\ f.fn = "edit" => EditFit(f)
           /\ f.fn = "clear" <=> f \in ClearFrames
           /\ f.fn = "clear" => \A name \in f.todo : Child(f.path, name) \in Dir
           /\ f.fn \notin Op => f.path \in Dir /\ f.changed = {}
<1> USE DirsArePaths
<1>1. CASE f \in ListFrames BY <1>1 DEF ListFrames, Op, OpFrames, EditFrames, ClearFrames
<1>2. CASE f \in OpFrames /\ OpOk(f)
  BY <1>2 DEF ListFrames, Op, OpFrames, EditFrames, ClearFrames
<1>3. CASE f \in EditFrames /\ EditFit(f)
  BY <1>3 DEF ListFrames, Op, OpFrames, EditFrames, ClearFrames
<1>4. CASE f \in ClearFrames /\ \A name \in f.todo : Child(f.path, name) \in Dir
  BY <1>4 DEF ListFrames, Op, OpFrames, EditFrames, ClearFrames
<1> QED BY <1>1, <1>2, <1>3, <1>4 DEF FrameSet

\* What is asked for is a path; an operation asks before its driver call.
LEMMA AskedHas ==
    ASSUME NEW f \in FrameSet, Asks(f)
    PROVE  Asked(f) \in Path /\ f.changed = {} /\ ~IsUpkeep(f) /\ ~UnderUpkeep(f)
<1> USE FrameHas
<1>1. CASE f.fn = "list" BY <1>1 DEF Asks, Asked, IsUpkeep, UnderUpkeep, Op
<1>2. CASE f.fn \in Op
  <2>1. f.changed = {} /\ ~IsUpkeep(f) /\ ~UnderUpkeep(f)
    BY <1>2 DEF Asks, OpOk, IsUpkeep, UnderUpkeep, Op
  <2>2. f.fn \in {"mkdir", "put", "puturl"} /\ f.at = "got" => f.path # Root
    BY <1>2 DEF OpOk
  <2>3. Asked(f) \in Path BY <1>2, <2>2, PathHas DEF OpOk, Asked
  <2> QED BY <2>1, <2>3
<1> QED BY <1>1, <1>2 DEF Asks, Op

\* A function returns: nothing is led or pending that was not.
LEMMA PopStack ==
    ASSUME NEW s \in Seq(FrameSet), s # <<>>, GoodStack(s)
    PROVE  /\ Tail(s) \in Seq(FrameSet) /\ GoodStack(Tail(s)) /\ Idle(Tail(s))
           /\ ~Making(Head(s), Head(s).path) => SameMaking(s, Tail(s))
           /\ IsCalm(Head(s)) => Calm(s, Tail(s))
<1>1. /\ Tail(s) \in Seq(FrameSet) /\ Range(s) = {Head(s)} \cup Range(Tail(s))
      /\ Head(s) \in FrameSet
  BY StackHas
<1>2. GoodStack(Tail(s)) BY TailGood
<1>3. ASSUME Tail(s) # <<>> PROVE Idle(Tail(s))
  <2>1. Head(Tail(s)) \in FrameSet BY <1>1, <1>3, StackHas
  <2>2. Above(Head(s), Head(Tail(s))) BY <1>3, BelowTop
  <2> QED BY <2>1, <2>2, <1>1, AboveMeans DEF Idle, Flying
<1>4. ~Making(Head(s), Head(s).path) => SameMaking(s, Tail(s))
  BY <1>1 DEF SameMaking, MakesOn, Making
<1>5. ASSUME IsCalm(Head(s)) PROVE Calm(s, Tail(s))
  BY <1>1, <1>5 DEF IsCalm, IsUpkeep, Calm, OpensOn, EditsOn, ClearsOn, SelfOn, IsEdit
<1> QED BY <1>1, <1>2, <1>3, <1>4, <1>5 DEF Idle

\* Short sequences after each other
LEMMA PairIs ==
    ASSUME NEW c, NEW g
    PROVE  <<c>> \o <<g>> = <<c, g>> /\ <<c>> \o <<>> = <<c>>
<1> DEFINE S == {c, g}
<1>1. /\ <<c>> \in Seq(S) /\ Len(<<c>>) = 1 /\ <<c>>[1] = c
      /\ <<g>> \in Seq(S) /\ Len(<<g>>) = 1 /\ <<g>>[1] = g
      /\ <<c, g>> \in Seq(S) /\ Len(<<c, g>>) = 2 /\ <<c, g>>[1] = c /\ <<c, g>>[2] = g
  <2>1. c \in S /\ g \in S OBVIOUS
  <2> HIDE DEF S
  <2> QED BY <2>1
<1> HIDE DEF S
<1>2. /\ <<c>> \o <<g>> \in Seq(S) /\ Len(<<c>> \o <<g>>) = 2
      /\ \A i \in 1 .. 2 : (<<c>> \o <<g>>)[i] = IF i <= 1 THEN <<c>>[i] ELSE <<g>>[i - 1]
  BY <1>1, ConcatProperties
<1>3. \A i \in 1 .. 2 : (<<c>> \o <<g>>)[i] = <<c, g>>[i] BY <1>1, <1>2
<1>4. <<c>> \o <<g>> = <<c, g>> BY <1>1, <1>2, <1>3, SeqEqual
<1>5. <<c>> \o <<>> = <<c>> BY <1>1, ConcatEmptySeq
<1> QED BY <1>4, <1>5

\* Two frames are pushed one after the other.
LEMMA TwoPushed ==
    ASSUME NEW S, NEW s \in Seq(S), NEW c \in S, NEW g \in S
    PROVE  <<c, g>> \o s = <<c>> \o (<<g>> \o s)
<1>1. <<c>> \in Seq(S) /\ <<g>> \in Seq(S) OBVIOUS
<1>2. (<<c>> \o <<g>>) \o s = <<c>> \o (<<g>> \o s) BY <1>1, ConcatAssociative
<1> QED BY <1>2, PairIs

-----------------------------------------------------------------------------
(* One process takes a turn: only its stack changes, and its answer. *)

Turn(p, t) ==
    /\ t \in Seq(FrameSet) /\ GoodStack(t)
    /\ stack' = [stack EXCEPT ![p] = t]
    /\ ret' \in [Proc -> Answer \cup {Done}]
    /\ \A q \in Proc \ {p} : ret'[q] = ret[q]
    /\ AnswerFor(t, ret'[p])

\* The turn neither ends a change nor opens one, and leads no other flight.
Quiet(p) ==
    \E t : /\ Turn(p, t)
           /\ Idle(t)
           /\ SameMaking(stack[p], t)
           /\ t = Tail(stack[p]) \/ Calm(stack[p], t)

\* What is known of the process whose turn it is
LEMMA TopHas ==
    ASSUME Stacks, NEW p \in Proc, stack[p] # <<>>
    PROVE  /\ stack[p] \in Seq(FrameSet) /\ GoodStack(stack[p])
           /\ Top(p) = Head(stack[p])
           /\ Top(p) \in FrameSet /\ Top(p) \in Range(stack[p])
           /\ Tail(stack[p]) \in Seq(FrameSet)
           /\ Range(stack[p]) = {Top(p)} \cup Range(Tail(stack[p]))
           /\ AnswerFor(stack[p], ret[p])
           /\ ret \in [Proc -> Answer \cup {Done}]
           /\ stack \in [Proc -> Seq(FrameSet)]
BY StackHas DEF Stacks, Top

\* A turn keeps the stacks in order.
LEMMA TurnKeepsStacks ==
    ASSUME Stacks, NEW p \in Proc, NEW t, Turn(p, t)
    PROVE  /\ Stacks'
           /\ stack'[p] = t /\ \A q \in Proc \ {p} : stack'[q] = stack[q]
<1>1. stack'[p] = t /\ \A q \in Proc \ {p} : stack'[q] = stack[q]
  BY DEF Turn, Stacks
<1>2. stack' \in [Proc -> Seq(FrameSet)] BY DEF Turn, Stacks
<1>3. ASSUME NEW q \in Proc PROVE GoodStack(stack'[q]) /\ AnswerFor(stack'[q], ret'[q])
  <2>1. CASE q = p BY <2>1, <1>1 DEF Turn
  <2>2. CASE q # p
    <3>1. stack'[q] = stack[q] /\ ret'[q] = ret[q] BY <2>2, <1>1 DEF Turn
    <3> QED BY <3>1 DEF Stacks
  <2> QED BY <2>1, <2>2
<1> QED BY <1>1, <1>2, <1>3 DEF Stacks, Turn

\* It keeps the flights of listG, if none is led by the process or begun.
LEMMA TurnKeepsLists ==
    ASSUME Stacks, ListFlights, NEW p \in Proc, NEW t, Turn(p, t),
           \A d \in Dir : ~Flies(t, d) /\ (WaitsList(t, d) => listG[d].stage # "none"),
           stack[p] # <<>>, ~(Top(p).fn = "list" /\ Top(p).at \in Flying), listG' = listG
    PROVE  ListFlights'
<1>1. stack'[p] = t /\ \A q \in Proc \ {p} : stack'[q] = stack[q] BY TurnKeepsStacks
<1> SUFFICES ASSUME NEW d \in Dir
             PROVE  /\ \A q \in Proc : Flies(stack'[q], d) => InStep(Top(q)'.at, listG[d].stage)
                    /\ \A q, r \in Proc : Flies(stack'[q], d) /\ Flies(stack'[r], d) => q = r
                    /\ listG[d].stage # "none" => \E q \in Proc : Flies(stack'[q], d)
                    /\ \A q \in Proc : WaitsList(stack'[q], d) => listG[d].stage # "none"
  BY DEF ListFlights
<1>2. ~Flies(stack[p], d) BY DEF Flies, Top
<1>3. ~Flies(t, d) /\ (WaitsList(t, d) => listG[d].stage # "none") OBVIOUS
<1>4. ASSUME NEW q \in Proc PROVE Flies(stack'[q], d) <=> Flies(stack[q], d)
  BY <1>1, <1>2, <1>3
<1>5. ASSUME NEW q \in Proc, Flies(stack'[q], d)
      PROVE  InStep(Top(q)'.at, listG[d].stage)
  <2>1. q # p BY <1>1, <1>3, <1>5
  <2>2. Top(q)' = Top(q) BY <1>1, <2>1 DEF Top
  <2> QED BY <1>4, <1>5, <2>2 DEF ListFlights
<1>6. ASSUME NEW q \in Proc, WaitsList(stack'[q], d) PROVE listG[d].stage # "none"
  <2>1. CASE q = p BY <2>1, <1>1, <1>3, <1>6
  <2>2. CASE q # p BY <1>1, <1>6, <2>2 DEF ListFlights
  <2> QED BY <2>1, <2>2
<1> QED BY <1>4, <1>5, <1>6 DEF ListFlights

\* It keeps the flights of mkdirG, if it leads the same.
LEMMA TurnKeepsMkdir ==
    ASSUME Stacks, MkdirFlights, NEW p \in Proc, NEW t, Turn(p, t),
           \A x \in Path : WaitsMkdir(t, x) => x \in mkdirG,
           SameMaking(stack[p], t), mkdirG' = mkdirG
    PROVE  MkdirFlights'
<1>1. stack'[p] = t /\ \A q \in Proc \ {p} : stack'[q] = stack[q] BY TurnKeepsStacks
<1>2. ASSUME NEW q \in Proc, NEW x PROVE MakesOn(stack'[q], x) <=> MakesOn(stack[q], x)
  BY <1>1 DEF SameMaking
<1>3. ASSUME NEW q \in Proc, NEW x \in Path, WaitsMkdir(stack'[q], x) PROVE x \in mkdirG
  <2>1. CASE q = p BY <2>1, <1>1, <1>3
  <2>2. CASE q # p BY <1>1, <1>3, <2>2 DEF MkdirFlights
  <2> QED BY <2>1, <2>2
<1> QED BY <1>2, <1>3 DEF MkdirFlights

\* In place of the top of s, g does not make what is being made below.
MakesAlone(g, s) ==
    Making(g, g.path) => Making(Head(s), g.path) \/ ~MakesOn(Tail(s), g.path)

\* The top of a stack goes on to another of its steps.
LEMMA GoStack ==
    ASSUME NEW s \in Seq(FrameSet), s # <<>>, GoodStack(s),
           NEW g \in FrameSet, SameCall(g, Head(s)),
           MakesAlone(g, s)
    PROVE  /\ <<g>> \o Tail(s) \in Seq(FrameSet) /\ GoodStack(<<g>> \o Tail(s))
           /\ <<g>> \o Tail(s) # <<>> /\ Head(<<g>> \o Tail(s)) = g
           /\ Range(<<g>> \o Tail(s)) = {g} \cup Range(Tail(s))
           /\ (Making(g, g.path) <=> Making(Head(s), g.path)) => SameMaking(s, <<g>> \o Tail(s))
           /\ ~IsUpkeep(g) /\ g.changed = Head(s).changed /\ ~(g.fn = "rename" /\ g.at = "end") 
                 /\ ~(g.fn = "rename" /\ Head(s).at = "end")
              => Calm(s, <<g>> \o Tail(s))
<1>1. /\ Head(s) \in FrameSet /\ Tail(s) \in Seq(FrameSet)
      /\ Range(s) = {Head(s)} \cup Range(Tail(s))
  BY StackHas
<1>2. /\ <<g>> \o Tail(s) \in Seq(FrameSet) /\ <<g>> \o Tail(s) # <<>>
      /\ Head(<<g>> \o Tail(s)) = g
      /\ Range(<<g>> \o Tail(s)) = {g} \cup Range(Tail(s))
  <2> DEFINE r == Tail(s)
  <2>1. r \in Seq(FrameSet) BY <1>1
  <2> HIDE DEF r
  <2>2. /\ <<g>> \o r \in Seq(FrameSet) /\ <<g>> \o r # <<>> /\ Head(<<g>> \o r) = g
        /\ Range(<<g>> \o r) = {g} \cup Range(r)
    BY <2>1, PushHas
  <2> QED BY <2>2 DEF r
<1>3. ASSUME NEW f \in Range(Tail(s)) PROVE ~Clash(g, f)
  <2>1. ~Clash(Head(s), f) BY BelowTop
  <2> QED BY <2>1 DEF Clash, IsEdit, SameCall, Making, MakesOn, MakesAlone
<1>4. GoodStack(<<g>> \o Tail(s)) BY <1>3, TopGood
<1>5. ASSUME Making(g, g.path) <=> Making(Head(s), g.path)
      PROVE  SameMaking(s, <<g>> \o Tail(s))
  BY <1>1, <1>2, <1>5 DEF SameMaking, MakesOn, Making, SameCall
<1>6. ASSUME ~IsUpkeep(g), g.changed = Head(s).changed, ~(g.fn = "rename" /\ g.at = "end"),
             ~(g.fn = "rename" /\ Head(s).at = "end")
      PROVE  Calm(s, <<g>> \o Tail(s))
  <2>1. ~IsUpkeep(Head(s)) BY <1>6 DEF IsUpkeep, SameCall
  <2> QED
    BY <1>1, <1>2, <1>6, <2>1 DEF Calm, OpensOn, EditsOn, ClearsOn, SelfOn, IsEdit, IsUpkeep, SameCall
<1> QED BY <1>2, <1>4, <1>5, <1>6

\* The top goes on to another step, and calls a function.
LEMMA CallStack ==
    ASSUME NEW s \in Seq(FrameSet), s # <<>>, GoodStack(s),
           NEW g \in FrameSet, SameCall(g, Head(s)),
           MakesAlone(g, s),
           NEW c \in FrameSet, c.at = "start", c.fn # "edit", Above(c, g),
           UnderUpkeep(g) => IsUpkeep(c)
    PROVE  /\ <<c, g>> \o Tail(s) \in Seq(FrameSet) /\ GoodStack(<<c, g>> \o Tail(s))
           /\ <<c, g>> \o Tail(s) # <<>> /\ Head(<<c, g>> \o Tail(s)) = c
           /\ Range(<<c, g>> \o Tail(s)) = {c, g} \cup Range(Tail(s))
           /\ (Making(g, g.path) <=> Making(Head(s), g.path))
                 => SameMaking(s, <<c, g>> \o Tail(s))
           /\ ~IsUpkeep(g) /\ g.changed = Head(s).changed /\ g.fn # "rename" /\ IsCalm(c)
              => Calm(s, <<c, g>> \o Tail(s))
<1> DEFINE r == <<g>> \o Tail(s)
           t == <<c>> \o r
<1>1. Head(s) \in FrameSet /\ Tail(s) \in Seq(FrameSet) BY StackHas
<1>2. <<c, g>> \o Tail(s) = t BY <1>1, TwoPushed
<1>3. /\ r \in Seq(FrameSet) /\ GoodStack(r) /\ r # <<>> /\ Head(r) = g
      /\ Range(r) = {g} \cup Range(Tail(s))
      /\ (Making(g, g.path) <=> Making(Head(s), g.path)) => SameMaking(s, r)
      /\ ~IsUpkeep(g) /\ g.changed = Head(s).changed /\ g.fn # "rename" => Calm(s, r)
  BY GoStack
<1> HIDE DEF r
<1>4. /\ t \in Seq(FrameSet) /\ t # <<>> /\ Head(t) = c
      /\ Range(t) = {c} \cup Range(r)
  BY <1>3, PushHas
<1>5. \A f \in Range(r) : ~Clash(c, f) BY DEF Clash, Making
<1>6. GoodStack(t) BY <1>3, <1>5, PushGood
<1>7. ASSUME SameMaking(s, r) PROVE SameMaking(s, t)
  BY <1>4, <1>7 DEF SameMaking, MakesOn, Making
<1>8. ASSUME Calm(s, r), IsCalm(c) PROVE Calm(s, t)
  <2>1. \A d : /\ OpensOn(t, d) <=> OpensOn(r, d)
               /\ ClearsOn(t, d) <=> ClearsOn(r, d)
               /\ SelfOn(t, d) <=> SelfOn(r, d)
    BY <1>4, <1>8 DEF IsCalm, IsUpkeep, OpensOn, ClearsOn, SelfOn
  <2>2. \A d : EditsOn(t, d) = EditsOn(r, d)
    BY <1>4, <1>8 DEF IsCalm, IsUpkeep, EditsOn, IsEdit
  <2> QED BY <1>8, <2>1, <2>2 DEF Calm
<1> QED BY <1>2, <1>3, <1>4, <1>6, <1>7, <1>8

\* The values a call may return
Fits(f, v) ==
    /\ v \in Answer \cup {Done}
    /\ f.fn = "list" /\ f.want # NoName =>
          v \in Answer /\ (v = "dir" => Child(f.path, f.want) \in Dir)

\* What a function returns answers its caller.
LEMMA Answers ==
    ASSUME NEW s \in Seq(FrameSet), s # <<>>, GoodStack(s), NEW v, Fits(Head(s), v)
    PROVE  AnswerFor(Tail(s), v)
<1> DEFINE f == Head(Tail(s))
<1> SUFFICES ASSUME Tail(s) # <<>>, Asks(f)
             PROVE  v \in Answer /\ (v = "dir" => Asked(f) \in Dir)
  BY DEF AnswerFor
<1>1. Head(s) \in FrameSet /\ Tail(s) \in Seq(FrameSet) BY StackHas
<1>2. f \in FrameSet BY <1>1, StackHas
<1>3. Above(Head(s), f) BY BelowTop
<1>4. Asked(f) \in Path /\ ~UnderUpkeep(f) BY <1>2, AskedHas
<1>5. /\ Asked(f) # Root
      /\ Head(s).fn = "list" /\ Head(s).path = Parent(Asked(f)) /\ Head(s).want = Last(Asked(f))
  BY <1>3, <1>4 DEF Above, Asks
<1>6. Child(Head(s).path, Head(s).want) = Asked(f) /\ Last(Asked(f)) \in Name
  BY <1>4, <1>5, PathHas
<1>7. Head(s).want # NoName BY <1>5, <1>6, SentinelAssumption
<1> QED BY <1>5, <1>6, <1>7 DEF Fits

\* The three ways to take a turn: the running function returns.
LEMMA TurnReturns ==
    ASSUME Stacks, NEW p \in Proc, stack[p] # <<>>,
           NEW v, Fits(Top(p), v), Returns(p, v), ~Making(Top(p), Top(p).path)
    PROVE  Quiet(p)
<1> DEFINE s == stack[p]
<1>1. /\ s \in Seq(FrameSet) /\ GoodStack(s) /\ Top(p) = Head(s)
      /\ stack \in [Proc -> Seq(FrameSet)] /\ ret \in [Proc -> Answer \cup {Done}]
  BY TopHas
<1>2. /\ Tail(s) \in Seq(FrameSet) /\ GoodStack(Tail(s)) /\ Idle(Tail(s))
      /\ SameMaking(s, Tail(s))
  BY <1>1, PopStack
<1>3. stack' = [stack EXCEPT ![p] = Tail(s)] BY <1>1 DEF Returns, Return
<1>4. ret' = [ret EXCEPT ![p] = v] BY <1>1 DEF Returns, Return
<1>5. v \in Answer \cup {Done} BY DEF Fits
<1>6. /\ ret' \in [Proc -> Answer \cup {Done}] /\ ret'[p] = v
      /\ \A q \in Proc \ {p} : ret'[q] = ret[q]
  BY <1>1, <1>4, <1>5
<1>7. AnswerFor(Tail(s), v) BY <1>1, Answers
<1>8. Turn(p, Tail(s)) BY <1>2, <1>3, <1>6, <1>7 DEF Turn
<1> QED BY <1>2, <1>8 DEF Quiet

\* It goes on to another of its steps.
LEMMA TurnGoes ==
    ASSUME Stacks, NEW p \in Proc, stack[p] # <<>>,
           NEW g \in FrameSet, SameCall(g, Top(p)),
           MakesAlone(g, stack[p]),
           stack' = [stack EXCEPT ![p] = <<g>> \o Tail(@)],
           NEW v \in Answer \cup {Done}, ret' = [ret EXCEPT ![p] = v],
           Asks(g) => v \in Answer /\ (v = "dir" => Asked(g) \in Dir)
    PROVE  Turn(p, <<g>> \o Tail(stack[p]))
<1> DEFINE t == <<g>> \o Tail(stack[p])
<1>1. /\ stack[p] \in Seq(FrameSet) /\ GoodStack(stack[p]) /\ Top(p) = Head(stack[p])
      /\ stack \in [Proc -> Seq(FrameSet)] /\ ret \in [Proc -> Answer \cup {Done}]
  BY TopHas
<1>2. t \in Seq(FrameSet) /\ GoodStack(t) /\ t # <<>> /\ Head(t) = g BY <1>1, GoStack
<1>3. stack' = [stack EXCEPT ![p] = t] OBVIOUS
<1> HIDE DEF t
<1>4. /\ ret' \in [Proc -> Answer \cup {Done}] /\ ret'[p] = v
      /\ \A q \in Proc \ {p} : ret'[q] = ret[q]
  BY <1>1
<1>5. AnswerFor(t, ret'[p]) BY <1>2, <1>4 DEF AnswerFor
<1> QED BY <1>2, <1>3, <1>4, <1>5 DEF Turn, t

\* It calls another function.
LEMMA TurnCalls ==
    ASSUME Stacks, NEW p \in Proc, stack[p] # <<>>,
           NEW g \in FrameSet, SameCall(g, Top(p)),
           MakesAlone(g, stack[p]),
           NEW c \in FrameSet, c.at = "start", c.fn # "edit", Above(c, g),
           UnderUpkeep(g) => IsUpkeep(c),
           stack' = [stack EXCEPT ![p] = <<c, g>> \o Tail(@)], ret' = ret
    PROVE  Turn(p, <<c, g>> \o Tail(stack[p]))
<1> DEFINE t == <<c, g>> \o Tail(stack[p])
<1>1. /\ stack[p] \in Seq(FrameSet) /\ GoodStack(stack[p]) /\ Top(p) = Head(stack[p])
      /\ stack \in [Proc -> Seq(FrameSet)] /\ ret \in [Proc -> Answer \cup {Done}]
  BY TopHas
<1>2. t \in Seq(FrameSet) /\ GoodStack(t) /\ t # <<>> /\ Head(t) = c BY <1>1, CallStack
<1>3. stack' = [stack EXCEPT ![p] = t] OBVIOUS
<1> HIDE DEF t
<1>4. ~Asks(c) BY DEF Asks
<1> QED BY <1>1, <1>2, <1>3, <1>4 DEF Turn, AnswerFor, t

\* A call of List, and what it asks for
LEMMA AsksWith ==
    ASSUME NEW path \in Path, path # Root
    PROVE  LET c == ListFrame(Parent(path), Last(path), FALSE) IN
           /\ c \in FrameSet /\ c.at = "start" /\ c.fn = "list" /\ IsCalm(c)
           /\ c.path = Parent(path) /\ c.want = Last(path)
BY PathHas DEF ListFrame, ListFrames, FrameSet, IsCalm, IsUpkeep

\* Get answers, or has List answer.
LEMMA TurnGets ==
    ASSUME Stacks, NEW p \in Proc, stack[p] # <<>>, NEW path, NEW at,
           [Top(p) EXCEPT !.at = at] \in FrameSet,
           Asks([Top(p) EXCEPT !.at = at]), Asked([Top(p) EXCEPT !.at = at]) = path,
           MakesAlone([Top(p) EXCEPT !.at = at], stack[p]),
           Get(p, path, at)
    PROVE  LET g == [Top(p) EXCEPT !.at = at] IN
           \E t : /\ Turn(p, t)
                  /\ Idle(t)
                  /\ \A x : MakesOn(t, x) <=> Making(g, x) \/ MakesOn(Tail(stack[p]), x)
                  /\ ~(Top(p).fn = "rename" /\ Top(p).at = "end") => Calm(stack[p], t)
<1> DEFINE g == [Top(p) EXCEPT !.at = at]
           s == stack[p]
<1>1. /\ s \in Seq(FrameSet) /\ GoodStack(s) /\ Top(p) = Head(s)
      /\ Top(p) \in FrameSet /\ Tail(s) \in Seq(FrameSet)
      /\ stack \in [Proc -> Seq(FrameSet)] /\ ret \in [Proc -> Answer \cup {Done}]
  BY TopHas
<1>2. g.fn = Top(p).fn /\ g.path = Top(p).path /\ g.changed = Top(p).changed /\ g.at = at
      /\ SameCall(g, Top(p))
  <2>1. Top(p).fn = "list" => g.want = Top(p).want
    BY <1>1, FrameHas DEF ListFrames
  <2>2. Top(p).fn \in Op => g.lazy = Top(p).lazy
    BY <1>1, FrameHas DEF OpFrames
  <2>3. g.fn = Top(p).fn /\ g.path = Top(p).path /\ g.changed = Top(p).changed /\ g.at = at
    BY <1>1 DEF FrameSet, ListFrames, OpFrames, EditFrames, ClearFrames
  <2> QED BY <2>1, <2>2, <2>3 DEF SameCall
<1>3. g \in FrameSet /\ Asks(g) /\ Asked(g) = path OBVIOUS
<1>4. path \in Path /\ g.changed = {} /\ ~IsUpkeep(g) /\ ~UnderUpkeep(g) BY <1>3, AskedHas
<1>5. ~(g.fn = "rename" /\ g.at = "end") BY <1>3 DEF Asks
<1>6. MakesAlone(g, s) OBVIOUS
<1> HIDE DEF g
<1>7. CASE path = Root
  <2> DEFINE t == <<g>> \o Tail(s)
  <2>1. stack' = [stack EXCEPT ![p] = <<g>> \o Tail(@)] /\ ret' = [ret EXCEPT ![p] = "dir"]
    BY <1>7 DEF Get, Replace, g
  <2>2. "dir" \in Answer /\ Asked(g) \in Dir BY <1>3, <1>7, PathAssumption DEF Answer, Kind
  <2>3. Turn(p, t) BY <1>2, <1>3, <1>6, <2>1, <2>2, TurnGoes
  <2>4. /\ t # <<>> /\ Head(t) = g /\ Range(t) = {g} \cup Range(Tail(s))
        /\ ~(Top(p).fn = "rename" /\ Top(p).at = "end") => Calm(s, t)
    BY <1>1, <1>2, <1>3, <1>4, <1>5, <1>6, GoStack
  <2> HIDE DEF t
  <2>5. Idle(t) BY <2>4, <1>3 DEF Idle, Asks, Flying
  <2>6. \A x : MakesOn(t, x) <=> Making(g, x) \/ MakesOn(Tail(s), x) BY <2>4 DEF MakesOn
  <2> QED BY <2>3, <2>4, <2>5, <2>6 DEF g
<1>8. CASE path # Root
  <2> DEFINE c == ListFrame(Parent(path), Last(path), FALSE)
             t == <<c, g>> \o Tail(s)
  <2>1. stack' = [stack EXCEPT ![p] = <<c, g>> \o Tail(@)] /\ ret' = ret
    BY <1>8 DEF Get, Call, Replace, g
  <2>2. /\ c \in FrameSet /\ c.at = "start" /\ c.fn = "list" /\ IsCalm(c)
        /\ c.path = Parent(path) /\ c.want = Last(path)
    BY <1>4, <1>8, AsksWith
  <2> HIDE DEF c
  <2>3. Above(c, g) BY <1>3, <1>8, <2>2 DEF Above
  <2>4. Turn(p, t) BY <1>2, <1>3, <1>4, <1>6, <2>1, <2>2, <2>3, TurnCalls
  <2>5. /\ t # <<>> /\ Head(t) = c /\ Range(t) = {c, g} \cup Range(Tail(s))
        /\ g.fn # "rename" => Calm(s, t)
    BY <1>1, <1>2, <1>3, <1>4, <1>6, <2>2, <2>3, CallStack
  <2>6. /\ <<g>> \o Tail(s) \in Seq(FrameSet) /\ Range(<<g>> \o Tail(s)) = {g} \cup Range(Tail(s))
        /\ ~(Top(p).fn = "rename" /\ Top(p).at = "end") => Calm(s, <<g>> \o Tail(s))
    BY <1>1, <1>2, <1>3, <1>4, <1>5, <1>6, GoStack
  <2> HIDE DEF t
  <2>7. Idle(t) BY <2>2, <2>5 DEF Idle, Flying
  <2>8. \A x : MakesOn(t, x) <=> Making(g, x) \/ MakesOn(Tail(s), x)
    BY <2>2, <2>5 DEF MakesOn, Making
  <2>9. ASSUME ~(Top(p).fn = "rename" /\ Top(p).at = "end") PROVE Calm(s, t)
    <3> DEFINE r == <<g>> \o Tail(s)
    <3>1. Range(t) = {c} \cup Range(r) /\ Calm(s, r) BY <2>5, <2>6, <2>9
    <3> HIDE DEF r
    <3>2. \A d : /\ OpensOn(t, d) <=> OpensOn(r, d)
                 /\ ClearsOn(t, d) <=> ClearsOn(r, d)
                 /\ SelfOn(t, d) <=> SelfOn(r, d)
      BY <2>2, <3>1 DEF IsCalm, IsUpkeep, OpensOn, ClearsOn, SelfOn
    <3>3. \A d : EditsOn(t, d) = EditsOn(r, d)
      BY <2>2, <3>1 DEF IsCalm, IsUpkeep, EditsOn, IsEdit
    <3> QED BY <3>1, <3>2, <3>3 DEF Calm
  <2> QED BY <2>4, <2>7, <2>8, <2>9 DEF g
<1> QED BY <1>7, <1>8

\* Get in a function that leads what it led before
LEMMA QuietGets ==
    ASSUME Stacks, NEW p \in Proc, stack[p] # <<>>, NEW path, NEW at,
           [Top(p) EXCEPT !.at = at] \in FrameSet,
           Asks([Top(p) EXCEPT !.at = at]), Asked([Top(p) EXCEPT !.at = at]) = path,
           \A x : Making([Top(p) EXCEPT !.at = at], x) <=> Making(Top(p), x),
           ~(Top(p).fn = "rename" /\ Top(p).at = "end"),
           Get(p, path, at)
    PROVE  Quiet(p)
<1> DEFINE g == [Top(p) EXCEPT !.at = at]
<1>1. Range(stack[p]) = {Top(p)} \cup Range(Tail(stack[p])) /\ Top(p) = Head(stack[p])
  BY TopHas
<1>2. MakesAlone(g, stack[p]) BY <1>1 DEF MakesAlone
<1>3. PICK t : /\ Turn(p, t)
               /\ Idle(t)
               /\ \A x : MakesOn(t, x) <=> Making(g, x) \/ MakesOn(Tail(stack[p]), x)
               /\ Calm(stack[p], t)
  BY <1>2, TurnGets
<1>4. SameMaking(stack[p], t) BY <1>1, <1>3 DEF SameMaking, MakesOn
<1> QED BY <1>3, <1>4 DEF Quiet

\* Another step of the same function
LEMMA QuietGoes ==
    ASSUME Stacks, NEW p \in Proc, stack[p] # <<>>,
           NEW g \in FrameSet, SameCall(g, Top(p)), g.changed = Top(p).changed,
           g.fn \notin {"list", "rename", "edit", "clear"},
           g.fn = "mkdir" => g.at # "wait",
           \A x : Making(g, x) <=> Making(Top(p), x),
           stack' = [stack EXCEPT ![p] = <<g>> \o Tail(@)],
           NEW v \in Answer \cup {Done}, ret' = [ret EXCEPT ![p] = v],
           Asks(g) => v \in Answer /\ (v = "dir" => Asked(g) \in Dir)
    PROVE  Quiet(p)
<1> DEFINE t == <<g>> \o Tail(stack[p])
<1>1. /\ stack[p] \in Seq(FrameSet) /\ GoodStack(stack[p]) /\ Top(p) = Head(stack[p])
  BY TopHas
<1>2. MakesAlone(g, stack[p]) BY <1>1 DEF MakesAlone
<1>3. Turn(p, t) BY <1>2, TurnGoes
<1>4. /\ t # <<>> /\ Head(t) = g
      /\ SameMaking(stack[p], t)
      /\ Calm(stack[p], t)
  BY <1>1, <1>2, GoStack DEF IsUpkeep
<1> HIDE DEF t
<1>5. Idle(t) BY <1>4 DEF Idle, Flying
<1> QED BY <1>3, <1>4, <1>5 DEF Quiet

\* A call of a function, other than one that keeps the cache
LEMMA QuietCalls ==
    ASSUME Stacks, NEW p \in Proc, stack[p] # <<>>,
           NEW g \in FrameSet, SameCall(g, Top(p)), g.changed = Top(p).changed,
           g.fn \notin {"list", "rename", "edit", "clear"}, ~UnderUpkeep(g),
           \A x : Making(g, x) <=> Making(Top(p), x),
           NEW c \in FrameSet, c.at = "start", IsCalm(c), Above(c, g),
           stack' = [stack EXCEPT ![p] = <<c, g>> \o Tail(@)], ret' = ret
    PROVE  Quiet(p)
<1> DEFINE t == <<c, g>> \o Tail(stack[p])
<1>1. /\ stack[p] \in Seq(FrameSet) /\ GoodStack(stack[p]) /\ Top(p) = Head(stack[p])
  BY TopHas
<1>2. MakesAlone(g, stack[p]) /\ c.fn # "edit" BY <1>1 DEF MakesAlone, IsCalm, IsUpkeep
<1>3. Turn(p, t) BY <1>2, TurnCalls
<1>4. /\ t # <<>> /\ Head(t) = c
      /\ SameMaking(stack[p], t)
      /\ Calm(stack[p], t)
  BY <1>1, <1>2, CallStack DEF IsUpkeep
<1> HIDE DEF t
<1>5. Idle(t) BY <1>4 DEF Idle, Flying
<1> QED BY <1>3, <1>4, <1>5 DEF Quiet

\* The frame of a function that goes on to another of its steps
LEMMA GoesHas ==
    ASSUME NEW f \in FrameSet, f.fn \in Op \cup {"list"}, NEW at
    PROVE  LET g == [f EXCEPT !.at = at] IN
           /\ g.fn = f.fn /\ g.path = f.path /\ g.changed = f.changed /\ g.at = at
           /\ SameCall(g, f) /\ ~IsUpkeep(g)
           /\ f.fn = "list" /\ at \in {"start", "dir", "read", "store", "close", "wait"}
                 => g \in FrameSet /\ g.want = f.want
           /\ f.fn \in Op => /\ g.to = f.to /\ g.kind = f.kind /\ g.lazy = f.lazy
                             /\ g.kept = f.kept /\ g.ok = f.ok
           /\ /\ f.fn \in Op /\ OpOk(g)
              /\ at \in {"start", "wait", "check", "parent", "got", "end", "src", "old",
                         "cleared", "done"}
              => g \in FrameSet
<1> DEFINE g == [f EXCEPT !.at = at]
<1>1. CASE f.fn = "list"
  <2>1. f \in ListFrames BY <1>1, FrameHas
  <2> QED BY <1>1, <2>1 DEF ListFrames, FrameSet, SameCall, IsUpkeep, Op
<1>2. CASE f.fn \in Op
  <2>1. f \in OpFrames BY <1>2, FrameHas
  <2>2. /\ g.fn = f.fn /\ g.path = f.path /\ g.changed = f.changed /\ g.at = at
        /\ g.to = f.to /\ g.kind = f.kind /\ g.lazy = f.lazy /\ g.kept = f.kept /\ g.ok = f.ok
    BY <2>1 DEF OpFrames
  <2>3. SameCall(g, f) /\ ~IsUpkeep(g) BY <1>2, <2>2 DEF SameCall, IsUpkeep, Op
  <2>4. at \in {"start", "wait", "check", "parent", "got", "end", "src", "old",
                "cleared", "done"} => g \in OpFrames
    BY <2>1 DEF OpFrames
  <2> QED BY <1>2, <2>2, <2>3, <2>4 DEF FrameSet, Op
<1> QED BY <1>1, <1>2

\* What is found in a listing fits the call.
LEMMA FoundFits ==
    ASSUME NEW f \in FrameSet, f.fn = "list", NEW listing, ListingOk(f.path, listing)
    PROVE  Fits(f, Found(listing, f.want))
<1>1. CASE f.want = NoName BY <1>1 DEF Found, Fits
<1>2. CASE f.want # NoName /\ \E e \in listing : e.name = f.want
  <2> DEFINE e == CHOOSE e \in listing : e.name = f.want
  <2>1. e \in listing /\ e.name = f.want BY <1>2
  <2>2. Found(listing, f.want) = e.kind BY <1>2 DEF Found
  <2>3. e.kind \in Kind /\ (e.kind = "dir" => Child(f.path, f.want) \in Dir)
    BY <2>1 DEF ListingOk, Entries
  <2> QED BY <2>2, <2>3 DEF Fits, Answer
<1>3. CASE f.want # NoName /\ ~\E e \in listing : e.name = f.want
  BY <1>3 DEF Found, Fits, Answer, Absent
<1> QED BY <1>1, <1>2, <1>3

\* A failure fits any call, and so does Done one that does not look for a name.
LEMMA EasyFits ==
    ASSUME NEW f
    PROVE  /\ Fits(f, Failed) /\ Fits(f, Absent)
           /\ f.fn # "list" => Fits(f, Done)
BY DEF Fits, Answer, Failed, Absent

\* List begins: the cached listing answers, or the directory is looked up.
LEMMA ListStartQuiet ==
    ASSUME Stacks, Data, NEW p \in Proc, stack[p] # <<>>, ListStart(p)
    PROVE  Quiet(p) /\ Top(p).fn = "list" /\ Top(p).at \notin Flying
<1> DEFINE f == Top(p)
<1>1. f \in FrameSet /\ f.fn = "list" /\ f.at = "start" BY TopHas DEF ListStart, At
<1>2. f.path \in Dir BY <1>1, FrameHas DEF Op
<1>3. ~Making(f, f.path) BY <1>1 DEF Making
<1>4. CASE ~f.refresh /\ cache[f.path] # NoListing
  <2>1. Returns(p, Found(cache[f.path], f.want)) BY <1>4 DEF ListStart
  <2>2. ListingOk(f.path, cache[f.path]) BY <1>2, <1>4 DEF Data
  <2>3. Fits(f, Found(cache[f.path], f.want)) BY <1>1, <2>2, FoundFits
  <2> QED BY <1>1, <1>3, <2>1, <2>3, TurnReturns DEF Flying
<1>5. CASE ~(~f.refresh /\ cache[f.path] # NoListing)
  <2> DEFINE g == [f EXCEPT !.at = "dir"]
  <2>1. Get(p, f.path, "dir") BY <1>5 DEF ListStart
  <2>2. g \in FrameSet /\ g.fn = "list" /\ g.at = "dir" /\ g.path = f.path BY <1>1, GoesHas
  <2>3. Asks(g) /\ Asked(g) = f.path BY <2>2 DEF Asks, Asked
  <2>4. \A x : Making(g, x) <=> Making(f, x) BY <1>1, <2>2 DEF Making
  <2>5. Quiet(p) BY <1>1, <2>1, <2>2, <2>3, <2>4, QuietGets
  <2> QED BY <1>1, <2>5 DEF Flying
<1> QED BY <1>4, <1>5

\* What fits a name after a directory is a name.
LEMMA NameOf ==
    ASSUME NEW d \in Path, NEW n, Child(d, n) \in Path
    PROVE  /\ n \in Name /\ Child(d, n) # Root
           /\ Parent(Child(d, n)) = d /\ Last(Child(d, n)) = n
<1> DEFINE S == Name \cup {n}
<1>1. d \in Seq(Name) /\ d \in Seq(S) /\ Len(d) \in Nat
  <2>1. d \in Seq(Name) BY DirsArePaths
  <2>2. Len(d) \in Nat /\ d \in [1 .. Len(d) -> Name] BY <2>1, LenProperties
  <2>3. d \in [1 .. Len(d) -> S] BY <2>2
  <2> QED BY <2>1, <2>2, <2>3, SeqDef
<1>2. Append(d, n) \in Seq(S) /\ Len(Append(d, n)) = Len(d) + 1 /\ Append(d, n)[Len(d) + 1] = n
  BY <1>1, AppendProperties
<1>3. Append(d, n) \in Seq(Name) BY DirsArePaths DEF Child
<1>4. Append(d, n) \in [1 .. Len(d) + 1 -> Name] BY <1>2, <1>3, LenProperties
<1>5. n \in Name
  <2> DEFINE a == Append(d, n)
  <2>1. a \in [1 .. Len(d) + 1 -> Name] /\ a[Len(d) + 1] = n BY <1>2, <1>4
  <2> HIDE DEF a
  <2>2. Len(d) + 1 \in 1 .. Len(d) + 1 BY <1>1
  <2> QED BY <2>1, <2>2
<1> QED BY <1>5, ChildHas

\* The frames of calls
LEMMA CallFrames ==
    /\ \A d \in Dir : MkdirFrame(d) \in FrameSet
    /\ \A x \in Path \ {Root} : RemoveFrame(x) \in FrameSet
    /\ \A x \in Path \ {Root}, n \in Name : RenameFrame(x, n) \in FrameSet
    /\ \A x, n : \A c \in {MkdirFrame(x), RemoveFrame(x), RenameFrame(x, n)} :
          c.at = "start" /\ IsCalm(c) /\ ~c.lazy /\ c.path = x
    /\ \A x : MkdirFrame(x).fn = "mkdir" /\ RemoveFrame(x).fn = "remove"
    /\ \A x, n : RenameFrame(x, n).fn = "rename"
<1>1. \A d \in Dir : MkdirFrame(d) \in FrameSet
  BY DirsArePaths DEF MkdirFrame, OpFrame, FrameSet, OpFrames, Op, OpOk, InPlace, Kind
<1>2. \A x \in Path \ {Root} : RemoveFrame(x) \in FrameSet
  BY DEF RemoveFrame, OpFrame, FrameSet, OpFrames, Op, OpOk, InPlace
<1>3. \A x \in Path \ {Root}, n \in Name : RenameFrame(x, n) \in FrameSet
  BY DEF RenameFrame, OpFrame, FrameSet, OpFrames, Op, OpOk, InPlace
<1> QED
  BY <1>1, <1>2, <1>3 DEF MkdirFrame, RemoveFrame, RenameFrame, OpFrame, IsCalm, IsUpkeep

\* An operation begins with a look at its object.
LEMMA OpStartQuiet ==
    ASSUME Stacks, NEW p \in Proc, stack[p] # <<>>, OpStart(p)
    PROVE  Quiet(p) /\ Top(p).fn \in Op /\ Top(p).at = "start"
<1> DEFINE f == Top(p)
           at == CASE f.fn \in {"remove", "rename"} -> "got"
                   [] f.fn \in {"move", "copy"}     -> "src"
                   [] OTHER                         -> "old"
           g == [f EXCEPT !.at = at]
<1>1. /\ f \in FrameSet /\ f.at = "start"
      /\ f.fn \in {"remove", "rename", "move", "copy", "put", "puturl"}
  BY TopHas DEF OpStart, At
<1>2. f.fn \in Op /\ OpOk(f) BY <1>1, FrameHas DEF Op
<1>3. Get(p, f.path, at) BY DEF OpStart
<1>4. /\ f.fn \in {"remove", "rename"} => at = "got"
      /\ f.fn \in {"move", "copy"} => at = "src"
      /\ f.fn \in {"put", "puturl"} => at = "old"
  BY <1>1
<1> HIDE DEF at
<1>5. /\ g.fn = f.fn /\ g.path = f.path /\ g.at = at /\ g.changed = f.changed
      /\ g.to = f.to /\ g.kind = f.kind /\ g.lazy = f.lazy /\ g.kept = f.kept
  BY <1>1, <1>2, GoesHas
<1>6. OpOk(g)
  BY <1>1, <1>2, <1>4, <1>5 DEF OpOk, InPlace
<1>7. g \in FrameSet BY <1>1, <1>2, <1>4, <1>6, GoesHas
<1>8. Asks(g) /\ Asked(g) = f.path BY <1>1, <1>4, <1>5 DEF Asks, Asked
<1>9. \A x : Making(g, x) <=> Making(f, x) BY <1>1, <1>5 DEF Making
<1> QED BY <1>1, <1>2, <1>3, <1>7, <1>8, <1>9, QuietGets

\* An operation returns.
LEMMA OpReturns ==
    ASSUME Stacks, NEW p \in Proc, stack[p] # <<>>, Top(p).fn \in Op \ {"mkdir"},
           NEW v \in Answer \cup {Done}, Returns(p, v)
    PROVE  Quiet(p)
<1>1. Fits(Top(p), v) BY DEF Fits, Op
<1>2. ~Making(Top(p), Top(p).path) BY DEF Making
<1> QED BY <1>1, <1>2, TurnReturns

\* Put goes on to make the directory.
LEMMA MakesParent ==
    ASSUME Stacks, NEW p \in Proc, stack[p] # <<>>,
           Top(p).fn \in {"put", "puturl"}, Top(p).at \in {"old", "cleared"},
           MakeParent(p, Top(p))
    PROVE  Quiet(p)
<1> DEFINE f == Top(p)
           g == [f EXCEPT !.at = "parent"]
           c == MkdirFrame(Parent(f.path))
<1>1. f \in FrameSet /\ f.fn \in Op /\ OpOk(f) BY TopHas, FrameHas DEF Op
<1>2. f.path \in Path /\ f.path # Root BY <1>1, FrameHas DEF OpOk
<1>3. /\ g.fn = f.fn /\ g.path = f.path /\ g.at = "parent" /\ g.changed = f.changed
      /\ g.to = f.to /\ g.kind = f.kind /\ g.lazy = f.lazy /\ g.kept = f.kept
      /\ SameCall(g, f)
  BY <1>1, GoesHas
<1>4. OpOk(g)
  BY <1>1, <1>3 DEF OpOk, InPlace
<1>5. g \in FrameSet BY <1>1, <1>4, GoesHas
<1>6. c \in FrameSet /\ c.at = "start" /\ IsCalm(c) /\ ~c.lazy /\ c.fn = "mkdir"
  BY <1>2, PathHas, CallFrames
<1>7. stack' = [stack EXCEPT ![p] = <<c, g>> \o Tail(@)] /\ ret' = ret
  BY DEF MakeParent, Replace
<1> HIDE DEF c, g
<1>8. Above(c, g) BY <1>3, <1>6 DEF Above
<1>9. ~UnderUpkeep(g) BY <1>3 DEF UnderUpkeep, IsUpkeep, Op
<1>10. \A x : Making(g, x) <=> Making(f, x) BY <1>3 DEF Making
<1>11. g.fn \notin {"list", "rename", "edit", "clear"} BY <1>3
<1> QED BY <1>3, <1>5, <1>6, <1>7, <1>8, <1>9, <1>10, <1>11, QuietCalls

\* What the look-up of the parent of a path, or of the path, may answer
LEMMA AnswerHas ==
    ASSUME Stacks, NEW p \in Proc, stack[p] # <<>>, Asks(Top(p))
    PROVE  /\ ret[p] \in Answer /\ (ret[p] = "dir" => Asked(Top(p)) \in Dir)
           /\ ~Missing(ret[p]) => ret[p] \in Kind
BY TopHas DEF AnswerFor, Missing, Answer

\* Remove of an object that is not there, or that the driver refuses
LEMMA RemoveReturns ==
    ASSUME Stacks, NEW p \in Proc, stack[p] # <<>>, At(p, "remove", "got"),
           NEW v \in {Done, Failed}, Returns(p, v)
    PROVE  Quiet(p)
BY OpReturns DEF At, Op, Answer

\* An operation that the driver refuses
LEMMA RefusedQuiet ==
    ASSUME Stacks, NEW p \in Proc, stack[p] # <<>>, Top(p).fn \in Op \ {"mkdir"},
           NEW able, Refused(p, able)
    PROVE  Quiet(p)
BY OpReturns DEF Refused, Answer

\* An operation is done.
LEMMA OpEndQuiet ==
    ASSUME Stacks, NEW p \in Proc, stack[p] # <<>>, OpEnd(p)
    PROVE  Quiet(p) /\ Top(p).fn \in Op
BY OpReturns DEF OpEnd, At, Op

\* Move and Copy look at the destination when they know the source.
LEMMA MoveSrcQuiet ==
    ASSUME Stacks, NEW p \in Proc, stack[p] # <<>>, MoveSrc(p)
    PROVE  Quiet(p) /\ Top(p).fn \in Op
<1> DEFINE f == Top(p)
           g == [f EXCEPT !.kind = ret[p], !.at = "got"]
           c == ListFrame(Parent(g.to), Last(g.to), FALSE)
<1>1. f \in FrameSet /\ f.fn \in {"move", "copy"} /\ f.at = "src" BY TopHas DEF MoveSrc, At
<1>2. f.fn \in Op /\ f \in OpFrames /\ OpOk(f) BY <1>1, FrameHas DEF Op
<1>3. CASE Missing(ret[p])
  <2>1. Returns(p, Failed) BY <1>3 DEF MoveSrc
  <2> QED BY <1>1, <1>2, <2>1, OpReturns DEF Answer
<1>4. CASE ~Missing(ret[p])
  <2>1. ret[p] \in Kind BY <1>1, <1>4, AnswerHas DEF Asks
  <2>2. /\ g.fn = f.fn /\ g.path = f.path /\ g.at = "got" /\ g.changed = f.changed
        /\ g.to = f.to /\ g.kind = ret[p] /\ g.lazy = f.lazy /\ g.kept = f.kept
    BY <1>2 DEF OpFrames
  <2>3. g \in OpFrames BY <1>2, <2>1 DEF OpFrames
  <2>4. OpOk(g)
    BY <1>1, <1>2, <2>1, <2>2 DEF OpOk, InPlace
  <2>5. g \in FrameSet BY <2>3, <2>4 DEF FrameSet
  <2>6. SameCall(g, f) /\ g.fn \notin {"list", "rename", "edit", "clear"}
    BY <1>1, <2>2 DEF SameCall
  <2>7. Asks(g) /\ Asked(g) = f.to /\ f.to \in Path
    BY <1>1, <1>2, <2>2 DEF Asks, Asked, OpOk
  <2>8. \A x : Making(g, x) <=> Making(f, x) BY <1>1, <2>2 DEF Making
  <2>9. /\ f.to = Root => /\ stack' = [stack EXCEPT ![p] = <<g>> \o Tail(@)]
                          /\ ret' = [ret EXCEPT ![p] = "dir"]
        /\ f.to # Root => stack' = [stack EXCEPT ![p] = <<c, g>> \o Tail(@)] /\ ret' = ret
    BY <1>4, <2>2 DEF MoveSrc, Replace
  <2>10. c = ListFrame(Parent(f.to), Last(f.to), FALSE) BY <2>2
  <2> HIDE DEF g, c
  <2>11. CASE f.to = Root
    <3>1. "dir" \in Answer /\ Asked(g) \in Dir
      BY <2>7, <2>11, PathAssumption DEF Answer, Kind
    <3>2. "dir" \in Answer \cup {Done} BY <3>1
    <3>3. \A v \in {"dir"} : Asks(g) => v \in Answer /\ (v = "dir" => Asked(g) \in Dir)
      BY <3>1
    <3>4. Quiet(p)
      BY <1>1, <2>2, <2>5, <2>6, <2>8, <2>9, <2>11, <3>2, <3>3, QuietGoes
    <3> QED BY <1>2, <3>4
  <2>12. CASE f.to # Root
    <3>1. /\ c \in FrameSet /\ c.at = "start" /\ c.fn = "list" /\ IsCalm(c)
          /\ c.path = Parent(f.to) /\ c.want = Last(f.to)
      BY <2>7, <2>10, <2>12, AsksWith
    <3>2. Above(c, g) BY <2>7, <2>12, <3>1 DEF Above
    <3>3. ~UnderUpkeep(g) BY <2>5, <2>7, AskedHas
    <3>4. Quiet(p) BY <2>2, <2>5, <2>6, <2>8, <2>9, <2>12, <3>1, <3>2, <3>3, QuietCalls
    <3> QED BY <1>2, <3>4
  <2> QED BY <2>11, <2>12
<1> QED BY <1>3, <1>4

\* Put on an object that is there: it is removed, renamed away or overwritten.
LEMMA PutOldQuiet ==
    ASSUME Stacks, NEW p \in Proc, stack[p] # <<>>, PutOld(p)
    PROVE  Quiet(p) /\ Top(p).fn \in Op
<1> DEFINE f == Top(p)
           g == [f EXCEPT !.at = "cleared"]
           h == [f EXCEPT !.at = "cleared", !.kept = TRUE]
<1>1. f \in FrameSet /\ f.fn = "put" /\ f.at = "old" BY TopHas DEF PutOld, At
<1>2. f.fn \in Op /\ f \in OpFrames /\ OpOk(f) BY <1>1, FrameHas DEF Op
<1>3. f.path \in Path /\ f.path # Root BY <1>1, <1>2, FrameHas DEF OpOk
<1>4. CASE ret[p] \in {"empty", "dir"}
  <2> DEFINE c == RemoveFrame(f.path)
  <2>1. stack' = [stack EXCEPT ![p] = <<c, g>> \o Tail(@)] /\ ret' = ret
    BY <1>4 DEF PutOld, Call, Replace
  <2>2. /\ g.fn = f.fn /\ g.path = f.path /\ g.at = "cleared" /\ g.changed = f.changed
        /\ g.to = f.to /\ g.kind = f.kind /\ g.lazy = f.lazy /\ g.kept = f.kept
        /\ SameCall(g, f)
    BY <1>1, <1>2, GoesHas
  <2>3. OpOk(g) BY <1>1, <1>2, <2>2 DEF OpOk, InPlace
  <2>4. g \in FrameSet BY <1>1, <1>2, <2>3, GoesHas
  <2>5. c \in FrameSet /\ c.at = "start" /\ IsCalm(c) /\ ~c.lazy /\ c.fn = "remove"
    BY <1>3, CallFrames
  <2> HIDE DEF c, g
  <2>6. Above(c, g) BY <1>1, <2>2, <2>5 DEF Above
  <2>7. ~UnderUpkeep(g) /\ g.fn \notin {"list", "rename", "edit", "clear"}
    BY <1>1, <2>2 DEF UnderUpkeep, IsUpkeep, Op
  <2>8. \A x : Making(g, x) <=> Making(f, x) BY <1>1, <2>2 DEF Making
  <2> QED BY <1>2, <2>1, <2>2, <2>4, <2>5, <2>6, <2>7, <2>8, QuietCalls
<1>5. CASE ret[p] \notin {"empty", "dir"} /\ ret[p] = "file" /\ NoOverwrite
  <2> DEFINE c == RenameFrame(f.path, Temp[Last(f.path)])
  <2>1. stack' = [stack EXCEPT ![p] = <<c, h>> \o Tail(@)] /\ ret' = ret
    BY <1>5 DEF PutOld, Replace
  <2>2. /\ h.fn = f.fn /\ h.path = f.path /\ h.at = "cleared" /\ h.changed = f.changed
        /\ h.to = f.to /\ h.kind = f.kind /\ h.lazy = f.lazy /\ h.kept = TRUE
        /\ h \in OpFrames
    BY <1>2 DEF OpFrames
  <2>3. OpOk(h) BY <1>1, <1>2, <1>5, <2>2 DEF OpOk, InPlace
  <2>4. h \in FrameSet /\ SameCall(h, f) BY <1>1, <2>2, <2>3 DEF FrameSet, SameCall
  <2>5. Temp[Last(f.path)] \in Name
    BY <1>1, <1>2, <1>3, <1>5, PathHas, NameOf DEF OpOk, Temporary
  <2>6. c \in FrameSet /\ c.at = "start" /\ IsCalm(c) /\ ~c.lazy /\ c.fn = "rename"
    BY <1>3, <2>5, CallFrames
  <2> HIDE DEF c, h
  <2>7. Above(c, h) BY <1>1, <2>2, <2>6 DEF Above
  <2>8. ~UnderUpkeep(h) /\ h.fn \notin {"list", "rename", "edit", "clear"}
    BY <1>1, <2>2 DEF UnderUpkeep, IsUpkeep, Op
  <2>9. \A x : Making(h, x) <=> Making(f, x) BY <1>1, <2>2 DEF Making
  <2> QED BY <1>2, <2>1, <2>2, <2>4, <2>6, <2>7, <2>8, <2>9, QuietCalls
<1>6. CASE ret[p] \notin {"empty", "dir"} /\ ~(ret[p] = "file" /\ NoOverwrite)
  <2>1. MakeParent(p, f) BY <1>6 DEF PutOld
  <2> QED BY <1>1, <1>2, <2>1, MakesParent
<1> QED BY <1>4, <1>5, <1>6

\* The way was cleared: Put goes on to make the directory, or gives up.
LEMMA PutClearedQuiet ==
    ASSUME Stacks, NEW p \in Proc, stack[p] # <<>>, PutCleared(p) \/ PutURLOld(p)
    PROVE  Quiet(p) /\ Top(p).fn \in Op
<1>1. Top(p).fn \in {"put", "puturl"} /\ Top(p).at \in {"old", "cleared"}
  BY DEF PutCleared, PutURLOld, At
<1>2. MakeParent(p, Top(p)) \/ Returns(p, Failed) BY DEF PutCleared, PutURLOld
<1> QED BY <1>1, <1>2, MakesParent, OpReturns DEF Op, Answer

\* The directory was made: it is looked up.
LEMMA PutParentQuiet ==
    ASSUME Stacks, NEW p \in Proc, stack[p] # <<>>, PutParent(p)
    PROVE  Quiet(p) /\ Top(p).fn \in Op
<1> DEFINE f == Top(p)
           g == [f EXCEPT !.at = "got"]
<1>1. f \in FrameSet /\ f.fn \in {"put", "puturl"} /\ f.at = "parent"
  BY TopHas DEF PutParent, At
<1>2. f.fn \in Op /\ OpOk(f) BY <1>1, FrameHas DEF Op
<1>3. CASE Returns(p, Failed) BY <1>1, <1>2, <1>3, OpReturns DEF Answer
<1>4. CASE Get(p, Parent(f.path), "got")
  <2>1. /\ g.fn = f.fn /\ g.path = f.path /\ g.at = "got" /\ g.changed = f.changed
        /\ g.to = f.to /\ g.kind = f.kind /\ g.lazy = f.lazy /\ g.kept = f.kept
    BY <1>1, <1>2, GoesHas
  <2>2. OpOk(g) BY <1>1, <1>2, <2>1 DEF OpOk, InPlace
  <2>3. g \in FrameSet BY <1>1, <1>2, <2>2, GoesHas
  <2>4. Asks(g) /\ Asked(g) = Parent(f.path) BY <1>1, <2>1 DEF Asks, Asked
  <2>5. \A x : Making(g, x) <=> Making(f, x) BY <1>1, <2>1 DEF Making
  <2> QED BY <1>1, <1>2, <1>4, <2>3, <2>4, <2>5, QuietGets
<1> QED BY <1>3, <1>4 DEF PutParent

\* The upload is over: the old object is recovered or removed.
LEMMA PutDoneQuiet ==
    ASSUME Stacks, NEW p \in Proc, stack[p] # <<>>, PutDone(p)
    PROVE  Quiet(p) /\ Top(p).fn \in Op
<1> DEFINE f == Top(p)
           g == [f EXCEPT !.at = "end"]
           temp == Child(Parent(f.path), Temp[Last(f.path)])
<1>1. f \in FrameSet /\ f.fn = "put" /\ f.at = "done" BY TopHas DEF PutDone, At
<1>2. f.fn \in Op /\ OpOk(f) BY <1>1, FrameHas DEF Op
<1>3. f.path \in Path /\ f.path # Root BY <1>1, <1>2, FrameHas DEF OpOk
<1>4. CASE ~f.kept
  <2>1. Returns(p, IF f.ok THEN Done ELSE Failed) BY <1>4 DEF PutDone
  <2> QED BY <1>1, <1>2, <2>1, OpReturns DEF Answer
<1>5. CASE f.kept
  <2>1. temp \in Path /\ temp # Root /\ Last(f.path) \in Name
    BY <1>1, <1>2, <1>3, <1>5, PathHas, NameOf DEF OpOk, Temporary
  <2>2. PICK c \in {RemoveFrame(temp), RenameFrame(temp, Last(f.path))} :
           stack' = [stack EXCEPT ![p] = <<c, g>> \o Tail(@)] /\ ret' = ret
    BY <1>5 DEF PutDone, Call, Replace
  <2>3. c \in FrameSet /\ c.at = "start" /\ IsCalm(c) /\ ~c.lazy /\ c.fn \in {"remove", "rename"}
    BY <2>1, CallFrames
  <2>4. /\ g.fn = f.fn /\ g.path = f.path /\ g.at = "end" /\ g.changed = f.changed
        /\ g.to = f.to /\ g.kind = f.kind /\ g.lazy = f.lazy /\ g.kept = f.kept
        /\ SameCall(g, f)
    BY <1>1, <1>2, GoesHas
  <2>5. OpOk(g) BY <1>1, <1>2, <2>4 DEF OpOk, InPlace
  <2>6. g \in FrameSet BY <1>1, <1>2, <2>5, GoesHas
  <2> HIDE DEF g, temp
  <2>7. Above(c, g) BY <1>1, <2>3, <2>4 DEF Above
  <2>8. ~UnderUpkeep(g) /\ g.fn \notin {"list", "rename", "edit", "clear"}
    BY <1>1, <2>4 DEF UnderUpkeep, IsUpkeep, Op
  <2>9. \A x : Making(g, x) <=> Making(f, x) BY <1>1, <2>4 DEF Making
  <2> QED BY <1>2, <2>2, <2>3, <2>4, <2>6, <2>7, <2>8, <2>9, QuietCalls
<1> QED BY <1>4, <1>5

\* The last step of Put
LEMMA PutEndQuiet ==
    ASSUME Stacks, NEW p \in Proc, stack[p] # <<>>, PutEnd(p)
    PROVE  Quiet(p) /\ Top(p).fn \in Op
<1>1. Top(p).fn \in Op \ {"mkdir"} BY DEF PutEnd, At, Op
<1>2. (IF Top(p).ok THEN ret[p] ELSE Failed) \in Answer \cup {Done} BY TopHas DEF Answer
<1> QED BY <1>1, <1>2, OpReturns DEF PutEnd

\* An upload that fails
LEMMA PutFails ==
    ASSUME Stacks, NEW p \in Proc, stack[p] # <<>>, At(p, "put", "got"),
           stack' = [stack EXCEPT ![p] = <<[Top(p) EXCEPT !.at = "done"]>> \o Tail(@)],
           ret' = ret
    PROVE  Quiet(p)
<1> DEFINE f == Top(p)
           g == [f EXCEPT !.at = "done"]
<1>1. f \in FrameSet /\ f.fn = "put" /\ f.at = "got" BY TopHas DEF At
<1>2. f.fn \in Op /\ OpOk(f) BY <1>1, FrameHas DEF Op
<1>3. /\ g.fn = f.fn /\ g.path = f.path /\ g.at = "done" /\ g.changed = f.changed
      /\ g.to = f.to /\ g.kind = f.kind /\ g.lazy = f.lazy /\ g.kept = f.kept
      /\ SameCall(g, f)
  BY <1>1, <1>2, GoesHas
<1>4. OpOk(g) BY <1>1, <1>2, <1>3 DEF OpOk, InPlace
<1>5. g \in FrameSet BY <1>1, <1>2, <1>4, GoesHas
<1>6. stack' = [stack EXCEPT ![p] = <<g>> \o Tail(@)] OBVIOUS
<1> HIDE DEF g
<1>7. ~Asks(g) /\ g.fn \notin {"list", "rename", "edit", "clear"} BY <1>1, <1>3 DEF Asks
<1>8. \A x : Making(g, x) <=> Making(f, x) BY <1>1, <1>3 DEF Making
<1>9. ret[p] \in Answer \cup {Done} /\ ret' = [ret EXCEPT ![p] = ret[p]] BY TopHas
<1> QED BY <1>1, <1>3, <1>5, <1>6, <1>7, <1>8, <1>9, QuietGoes

-----------------------------------------------------------------------------
(* What the driver makes of the tree *)

\* The path x, below old, when old is called new, and back
LEMMA UnderHas ==
    ASSUME NEW x \in Seq(Name), NEW old \in Seq(Name), NEW new \in Seq(Name), IsPrefix(old, x)
    PROVE  /\ Under(x, old, new) \in Seq(Name) /\ IsPrefix(new, Under(x, old, new))
           /\ Len(Under(x, old, new)) = Len(new) + (Len(x) - Len(old))
           /\ Under(Under(x, old, new), new, old) = x
           /\ Under(old, old, new) = new
           /\ \A i \in 1 .. Len(x) - Len(old) : Under(x, old, new)[Len(new) + i] = x[Len(old) + i]
<1>1. Len(x) \in Nat /\ Len(old) \in Nat /\ Len(new) \in Nat BY LenProperties
<1>2. Len(old) <= Len(x) /\ \A i \in 1 .. Len(old) : old[i] = x[i] BY PrefixMeans
<1>3. ASSUME NEW y \in Seq(Name), NEW o \in Seq(Name), NEW n \in Seq(Name), Len(o) <= Len(y)
      PROVE  /\ Under(y, o, n) \in Seq(Name) /\ Len(Under(y, o, n)) = Len(n) + (Len(y) - Len(o))
             /\ \A i \in 1 .. Len(n) : Under(y, o, n)[i] = n[i]
             /\ \A i \in 1 .. Len(y) - Len(o) : Under(y, o, n)[Len(n) + i] = y[Len(o) + i]
  <2> DEFINE r == SubSeq(y, Len(o) + 1, Len(y))
  <2>1. Len(y) \in Nat /\ Len(o) \in Nat /\ Len(n) \in Nat BY LenProperties
  <2>2. /\ r \in Seq(Name) /\ Len(r) = Len(y) - Len(o)
        /\ \A i \in 1 .. Len(y) - Len(o) : r[i] = y[Len(o) + i]
    <3>1. y \in [1 .. Len(y) -> Name] BY LenProperties
    <3>2. \A i \in Len(o) + 1 .. Len(y) : y[i] \in Name BY <2>1, <3>1
    <3>3. CASE Len(o) + 1 > Len(y)
      <4>1. r = <<>> BY <2>1, <3>3, SubSeqProperties
      <4> QED BY <4>1, <2>1, <1>3, <3>3
    <3>4. CASE Len(o) + 1 <= Len(y)
      <4>1. /\ r \in Seq(Name) /\ Len(r) = Len(y) - (Len(o) + 1) + 1
            /\ \A i \in 1 .. Len(y) - (Len(o) + 1) + 1 : r[i] = y[(Len(o) + 1) + i - 1]
        BY <2>1, <3>4, SubSeqProperties
      <4>2. Len(r) = Len(y) - Len(o) BY <4>1, <2>1
      <4>3. ASSUME NEW i \in 1 .. Len(y) - Len(o) PROVE r[i] = y[Len(o) + i]
        <5>1. i \in 1 .. Len(y) - (Len(o) + 1) + 1 /\ (Len(o) + 1) + i - 1 = Len(o) + i
          BY <2>1
        <5> QED BY <5>1, <4>1
      <4> QED BY <4>1, <4>2, <4>3
    <3> QED BY <2>1, <3>3, <3>4
  <2>3. Under(y, o, n) = n \o r BY DEF Under
  <2> HIDE DEF r
  <2>4. /\ n \o r \in Seq(Name) /\ Len(n \o r) = Len(n) + Len(r)
        /\ \A i \in 1 .. Len(n) + Len(r) : (n \o r)[i] = IF i <= Len(n) THEN n[i] ELSE r[i - Len(n)]
    BY <2>2, ConcatProperties
  <2>5. \A i \in 1 .. Len(n) : (n \o r)[i] = n[i] BY <2>1, <2>2, <2>4, <1>3
  <2>6. ASSUME NEW i \in 1 .. Len(y) - Len(o) PROVE (n \o r)[Len(n) + i] = y[Len(o) + i]
    <3>1. /\ Len(n) + i \in 1 .. Len(n) + Len(r) /\ ~(Len(n) + i <= Len(n))
          /\ (Len(n) + i) - Len(n) = i
      BY <2>1, <2>2, <1>3
    <3> QED BY <3>1, <2>2, <2>4
  <2> QED BY <2>2, <2>3, <2>4, <2>5, <2>6
<1> DEFINE u == Under(x, old, new)
<1>4. /\ u \in Seq(Name) /\ Len(u) = Len(new) + (Len(x) - Len(old))
      /\ \A i \in 1 .. Len(new) : u[i] = new[i]
      /\ \A i \in 1 .. Len(x) - Len(old) : u[Len(new) + i] = x[Len(old) + i]
  BY <1>2, <1>3
<1> HIDE DEF u
<1>5. IsPrefix(new, u) BY <1>1, <1>2, <1>4, PrefixMeans
<1>6. Under(u, new, old) = x
  <2> DEFINE w == Under(u, new, old)
  <2>1. Len(new) <= Len(u) /\ Len(u) - Len(new) = Len(x) - Len(old) BY <1>1, <1>2, <1>4
  <2>2. /\ w \in Seq(Name) /\ Len(w) = Len(old) + (Len(u) - Len(new))
        /\ \A i \in 1 .. Len(old) : w[i] = old[i]
        /\ \A i \in 1 .. Len(u) - Len(new) : w[Len(old) + i] = u[Len(new) + i]
    BY <1>3, <1>4, <2>1
  <2> HIDE DEF w
  <2>3. Len(w) = Len(x) BY <1>1, <2>1, <2>2
  <2>4. ASSUME NEW i \in 1 .. Len(x) PROVE w[i] = x[i]
    <3>1. CASE i <= Len(old)
      <4>1. i \in 1 .. Len(old) BY <3>1, <1>1
      <4> QED BY <4>1, <1>2, <2>2
    <3>2. CASE ~(i <= Len(old))
      <4> DEFINE j == i - Len(old)
      <4>1. j \in 1 .. Len(x) - Len(old) /\ Len(old) + j = i BY <3>2, <1>1, <1>2
      <4> HIDE DEF j
      <4>2. w[Len(old) + j] = u[Len(new) + j] BY <4>1, <2>1, <2>2
      <4>3. u[Len(new) + j] = x[Len(old) + j] BY <4>1, <1>4
      <4> QED BY <4>1, <4>2, <4>3
    <3> QED BY <3>1, <3>2
  <2>5. w = x BY <2>2, <2>3, <2>4, SeqEqual
  <2> QED BY <2>5 DEF w
<1>7. Under(old, old, new) = new
  <2>1. /\ Under(old, old, new) \in Seq(Name)
        /\ Len(Under(old, old, new)) = Len(new) + (Len(old) - Len(old))
        /\ \A i \in 1 .. Len(new) : Under(old, old, new)[i] = new[i]
    <3>1. Len(old) <= Len(old) BY <1>1
    <3> QED BY <3>1, <1>3
  <2>2. Len(Under(old, old, new)) = Len(new) BY <1>1, <2>1
  <2> QED BY <2>1, <2>2, SeqEqual
<1> QED BY <1>4, <1>5, <1>6, <1>7 DEF u

\* Below old, the parent goes where the path goes.
LEMMA UnderParent ==
    ASSUME NEW x \in Path, x # Root, NEW old \in Path, NEW new \in Seq(Name),
           IsPrefix(old, Parent(x)), Under(x, old, new) \in Path
    PROVE  /\ Under(x, old, new) # Root
           /\ Parent(Under(x, old, new)) = Under(Parent(x), old, new)
<1> DEFINE u == Under(x, old, new)
           v == Under(Parent(x), old, new)
<1>1. /\ x \in Seq(Name) /\ old \in Seq(Name) /\ Parent(x) \in Path /\ Parent(x) \in Seq(Name)
      /\ Len(x) \in Nat /\ Len(old) \in Nat /\ Len(new) \in Nat
      /\ Len(Parent(x)) = Len(x) - 1 /\ \A i \in 1 .. Len(x) - 1 : Parent(x)[i] = x[i]
  BY PathHas, DirsArePaths, LenProperties
<1>2. IsPrefix(old, x) BY PrefixOfParent
<1>3. Len(old) <= Len(x) - 1 BY <1>1, PrefixMeans
<1>4. /\ u \in Seq(Name) /\ IsPrefix(new, u) /\ Len(u) = Len(new) + (Len(x) - Len(old))
      /\ \A i \in 1 .. Len(x) - Len(old) : u[Len(new) + i] = x[Len(old) + i]
  BY <1>1, <1>2, UnderHas
<1>5. /\ v \in Seq(Name) /\ IsPrefix(new, v) /\ Len(v) = Len(new) + ((Len(x) - 1) - Len(old))
      /\ \A i \in 1 .. (Len(x) - 1) - Len(old) : v[Len(new) + i] = Parent(x)[Len(old) + i]
  <2> DEFINE z == Parent(x)
  <2>1. z \in Seq(Name) /\ Len(z) = Len(x) - 1 /\ IsPrefix(old, z) BY <1>1
  <2> HIDE DEF z
  <2>2. /\ Under(z, old, new) \in Seq(Name) /\ IsPrefix(new, Under(z, old, new))
        /\ Len(Under(z, old, new)) = Len(new) + (Len(z) - Len(old))
        /\ \A i \in 1 .. Len(z) - Len(old) : Under(z, old, new)[Len(new) + i] = z[Len(old) + i]
    BY ZenonT(40), <1>1, <2>1, UnderHas
  <2>3. /\ Under(z, old, new) \in Seq(Name) /\ IsPrefix(new, Under(z, old, new))
        /\ Len(Under(z, old, new)) = Len(new) + ((Len(x) - 1) - Len(old))
        /\ \A i \in 1 .. (Len(x) - 1) - Len(old) : Under(z, old, new)[Len(new) + i] = z[Len(old) + i]
    BY <2>1, <2>2
  <2> QED BY <2>3 DEF z
<1>6. u \in Path OBVIOUS
<1> HIDE DEF u, v
<1>7. Len(u) > 0 /\ Len(v) = Len(u) - 1 BY <1>1, <1>3, <1>4, <1>5
<1>8. u # Root BY <1>7, EmptySeq DEF Root
<1>9. /\ Len(Parent(u)) = Len(u) - 1 /\ Parent(u) \in Seq(Name)
      /\ \A i \in 1 .. Len(u) - 1 : Parent(u)[i] = u[i]
  BY <1>6, <1>8, PathHas, DirsArePaths
<1>10. \A i \in 1 .. Len(new) : u[i] = new[i] /\ v[i] = new[i]
  BY <1>4, <1>5, PrefixMeans
<1>11. ASSUME NEW i \in 1 .. Len(v) PROVE Parent(u)[i] = v[i]
  <2>1. i \in 1 .. Len(u) - 1 /\ Parent(u)[i] = u[i] BY <1>7, <1>9
  <2>2. CASE i <= Len(new)
    <3>1. i \in 1 .. Len(new) BY <2>2, <1>1
    <3> QED BY <2>1, <3>1, <1>10
  <2>3. CASE ~(i <= Len(new))
    <3> DEFINE j == i - Len(new)
    <3>1. /\ j \in 1 .. (Len(x) - 1) - Len(old) /\ j \in 1 .. Len(x) - Len(old)
          /\ Len(new) + j = i /\ Len(old) + j \in 1 .. Len(x) - 1
      BY <2>3, <1>1, <1>3, <1>5
    <3> HIDE DEF j
    <3>2. u[Len(new) + j] = x[Len(old) + j] BY <3>1, <1>4
    <3>3. v[Len(new) + j] = Parent(x)[Len(old) + j] BY <3>1, <1>5
    <3>4. Parent(x)[Len(old) + j] = x[Len(old) + j] BY <3>1, <1>1
    <3> QED BY <2>1, <3>1, <3>2, <3>3, <3>4
  <2> QED BY <2>2, <2>3
<1>12. Parent(u) = v BY <1>5, <1>7, <1>9, <1>11, SeqEqual
<1> QED BY <1>8, <1>12 DEF u, v

\* Removing a subtree leaves a tree.
LEMMA WithoutTree ==
    ASSUME NEW tree, IsTree(tree), NEW path \in Path, path # Root
    PROVE  IsTree(Without(tree, path))
<1> DEFINE new == Without(tree, path)
<1>1. tree \in [Path -> Kind \cup {Absent}] BY DEF IsTree
<1>2. \A x \in Path : new[x] = IF IsPrefix(path, x) THEN Absent ELSE tree[x] BY DEF Without
<1>3. new \in [Path -> Kind \cup {Absent}] BY <1>1 DEF Without
<1> HIDE DEF new
<1>4. ~IsPrefix(path, Root) BY AboveRoot
<1>5. new[Root] = "dir" BY <1>2, <1>4, PathAssumption DEF IsTree
<1>6. \A x \in Path : new[x] = "dir" => x \in Dir BY <1>2 DEF IsTree, Absent
<1>7. ASSUME NEW x \in Path \ {Root}, new[x] # Absent PROVE new[Parent(x)] = "dir"
  <2>1. ~IsPrefix(path, x) /\ tree[x] # Absent BY <1>2, <1>7
  <2>2. Parent(x) \in Path /\ ~IsPrefix(path, Parent(x)) BY <2>1, PathHas, PrefixOfParent
  <2> QED BY <1>2, <2>1, <2>2 DEF IsTree
<1> QED BY <1>3, <1>5, <1>6, <1>7 DEF IsTree, new

\* Placing an object where there is room leaves a tree, if no directory is lost.
LEMMA PlacedTree ==
    ASSUME NEW tree, IsTree(tree), NEW path \in Path, path # Root, tree[Parent(path)] = "dir",
           NEW kind \in Kind, kind = "dir" => path \in Dir,
           kind # "dir" => tree[path] # "dir"
    PROVE  IsTree([tree EXCEPT ![path] = kind])
<1> DEFINE new == [tree EXCEPT ![path] = kind]
<1>1. tree \in [Path -> Kind \cup {Absent}] BY DEF IsTree
<1>2. \A x \in Path : new[x] = IF x = path THEN kind ELSE tree[x] BY <1>1
<1>3. new \in [Path -> Kind \cup {Absent}] BY <1>1
<1>4. ASSUME NEW x \in Path, tree[x] = "dir" PROVE new[x] = "dir" BY <1>2, <1>4
<1> HIDE DEF new
<1>5. new[Root] = "dir" BY <1>4, PathAssumption DEF IsTree
<1>6. \A x \in Path : new[x] = "dir" => x \in Dir BY <1>2 DEF IsTree
<1>7. ASSUME NEW x \in Path \ {Root}, new[x] # Absent PROVE new[Parent(x)] = "dir"
  <2>1. Parent(x) \in Path BY PathHas
  <2>2. tree[Parent(x)] = "dir"
    <3>1. CASE x = path BY <3>1
    <3>2. CASE x # path BY <1>2, <1>7, <3>2 DEF IsTree
    <3> QED BY <3>1, <3>2
  <2> QED BY <1>4, <2>1, <2>2
<1> QED BY <1>3, <1>5, <1>6, <1>7 DEF IsTree, new

\* What arrives finds room at its new path.
LEMMA ArrivesAt ==
    ASSUME NEW src \in Path, NEW dst \in Seq(Name), CanArrive(src, dst)
    PROVE  dst \in Path /\ (disk[src] = "dir" => dst \in Dir)
<1>1. src \in Seq(Name) BY DirsArePaths
<1>2. IsPrefix(src, src) BY <1>1, PrefixMeans
<1>3. src \in Below(src) BY <1>2 DEF Below
<1>4. Under(src, src, dst) = dst BY <1>1, <1>2, UnderHas
<1>5. dst \in IF disk[src] = "dir" THEN Dir ELSE Path BY <1>3, <1>4 DEF CanArrive
<1> QED BY <1>5, DirsArePaths

\* A copy of a subtree where there is room leaves a tree.
LEMMA DuplicatedTree ==
    ASSUME IsTree(disk), NEW src \in Path, NEW dst \in Path, dst # Root, CanArrive(src, dst)
    PROVE  IsTree(Duplicated(disk, src, dst))
<1> DEFINE new == Duplicated(disk, src, dst)
<1>1. disk \in [Path -> Kind \cup {Absent}] BY DEF IsTree
<1>2. src \in Seq(Name) /\ dst \in Seq(Name) /\ Path \subseteq Seq(Name) BY DirsArePaths
<1>3. \A x \in Path : ~IsPrefix(dst, x) => new[x] = disk[x] BY DEF Duplicated
<1>4. \A x \in Path : IsPrefix(dst, x) =>
         new[x] = IF Under(x, dst, src) \in Path THEN disk[Under(x, dst, src)] ELSE Absent
  BY DEF Duplicated
<1>5. new \in [Path -> Kind \cup {Absent}]
  <2>1. \A x \in Path : new[x] \in Kind \cup {Absent} BY <1>1, <1>3, <1>4
  <2>2. new = [x \in Path |-> new[x]] BY DEF Duplicated
  <2> HIDE DEF new
  <2> QED BY <2>1, <2>2
<1> HIDE DEF new
<1>6. ~IsPrefix(dst, Root) BY AboveRoot
<1>7. new[Root] = "dir" BY <1>3, <1>6, PathAssumption DEF IsTree
<1>8. ASSUME NEW x \in Path, IsPrefix(dst, x), new[x] # Absent
      PROVE  LET y == Under(x, dst, src) IN
             y \in Path /\ y \in Below(src) /\ new[x] = disk[y] /\ Under(y, src, dst) = x
  <2> DEFINE y == Under(x, dst, src)
  <2>1. y \in Path /\ new[x] = disk[y] BY <1>4, <1>8
  <2>2. IsPrefix(src, y) /\ Under(y, src, dst) = x BY <1>2, <1>8, UnderHas
  <2> QED BY <2>1, <2>2 DEF Below
<1>9. ASSUME NEW x \in Path, new[x] = "dir" PROVE x \in Dir
  <2>1. CASE IsPrefix(dst, x)
    <3> DEFINE y == Under(x, dst, src)
    <3>1. y \in Below(src) /\ disk[y] = "dir" /\ Under(y, src, dst) = x
      BY <1>8, <1>9, <2>1 DEF Absent
    <3> HIDE DEF y
    <3>2. Under(y, src, dst) \in Dir BY <3>1 DEF CanArrive, Absent
    <3> QED BY <3>1, <3>2
  <2>2. CASE ~IsPrefix(dst, x) BY <1>3, <1>9, <2>2 DEF IsTree
  <2> QED BY <2>1, <2>2
<1>10. ASSUME NEW x \in Path \ {Root}, new[x] # Absent PROVE new[Parent(x)] = "dir"
  <2>1. Parent(x) \in Path BY PathHas
  <2>2. CASE x = dst
    <3>1. ~IsPrefix(dst, Parent(x)) BY <2>2, PrefixOfParent
    <3> QED BY <1>3, <2>1, <2>2, <3>1 DEF CanArrive
  <2>3. CASE ~IsPrefix(dst, x)
    <3>1. ~IsPrefix(dst, Parent(x)) BY <2>3, PrefixOfParent
    <3>2. disk[x] # Absent BY <1>3, <1>10, <2>3
    <3> QED BY <1>3, <2>1, <3>1, <3>2 DEF IsTree
  <2>4. CASE IsPrefix(dst, x) /\ x # dst
    <3> DEFINE y == Under(x, dst, src)
    <3>1. y \in Path /\ disk[y] # Absent BY <1>8, <1>10, <2>4
    <3>2. IsPrefix(dst, Parent(x)) BY <2>4, PrefixOfParent
    <3>3. y # Root /\ Parent(y) = Under(Parent(x), dst, src) BY <1>2, <3>1, <3>2, UnderParent
    <3> HIDE DEF y
    <3>4. Parent(y) \in Path /\ disk[Parent(y)] = "dir" BY <3>1, <3>3, PathHas DEF IsTree
    <3> QED BY <1>4, <2>1, <3>2, <3>3, <3>4
  <2> QED BY <2>2, <2>3, <2>4
<1> QED BY <1>5, <1>7, <1>9, <1>10 DEF IsTree, new

-----------------------------------------------------------------------------
(* The driver succeeds, and the frames of the upkeep are pushed. *)

\* What stands in short sequences
LEMMA RangeOf ==
    /\ Range(<<>>) = {}
    /\ \A u : Range(<<u>>) = {u}
    /\ \A e, u : Range(<<e, u>>) = {e, u}
<1>1. Range(<<>>) = {} BY DEF Range
<1>2. ASSUME NEW u PROVE Range(<<u>>) = {u}
  <2>1. DOMAIN <<u>> = {1} /\ <<u>>[1] = u OBVIOUS
  <2> QED BY <2>1 DEF Range
<1>3. ASSUME NEW e, NEW u PROVE Range(<<e, u>>) = {e, u}
  <2>1. DOMAIN <<e, u>> = {1, 2} /\ <<e, u>>[1] = e /\ <<e, u>>[2] = u OBVIOUS
  <2> QED BY <2>1 DEF Range
<1> QED BY <1>1, <1>2, <1>3

\* Frames of the upkeep that wait for their turn, one or two
IsUpkeepSeq(upkeep) ==
    \/ upkeep = <<>>
    \/ \E u \in FrameSet : IsUpkeep(u) /\ u.at = "start" /\ upkeep = <<u>>
    \/ \E e, u \in FrameSet : /\ IsUpkeep(e) /\ e.at = "start" /\ IsUpkeep(u) /\ u.at = "start"
                              /\ ~Clash(e, u)
                              /\ upkeep = <<e, u>>

\* A frame of the upkeep is pushed.
LEMMA UpkeepPush ==
    ASSUME NEW s \in Seq(FrameSet), s # <<>>, GoodStack(s), UnderUpkeep(Head(s)),
           NEW u \in FrameSet, IsUpkeep(u), \A f \in Range(s) : ~Clash(u, f)
    PROVE  /\ <<u>> \o s \in Seq(FrameSet) /\ <<u>> \o s # <<>> /\ GoodStack(<<u>> \o s)
           /\ Head(<<u>> \o s) = u /\ UnderUpkeep(u)
           /\ Range(<<u>> \o s) = {u} \cup Range(s)
<1>1. Above(u, Head(s)) BY DEF Above
<1>2. GoodStack(<<u>> \o s) BY <1>1, PushGood
<1> QED BY <1>2, PushHas DEF UnderUpkeep

\* The frames of the upkeep on a stack without any
LEMMA UpkeepStack ==
    ASSUME NEW s \in Seq(FrameSet), s # <<>>, GoodStack(s), UnderUpkeep(Head(s)),
           \A f \in Range(s) : ~IsUpkeep(f), NEW upkeep, IsUpkeepSeq(upkeep)
    PROVE  /\ upkeep \o s \in Seq(FrameSet) /\ upkeep \o s # <<>> /\ GoodStack(upkeep \o s)
           /\ Head(upkeep \o s) \in {Head(s)} \cup Range(upkeep)
           /\ Range(upkeep \o s) = Range(upkeep) \cup Range(s)
           /\ \A u \in Range(upkeep) : u \in FrameSet /\ IsUpkeep(u) /\ u.at = "start"
<1>1. CASE upkeep = <<>>
  <2>1. upkeep \o s = s BY <1>1, ConcatEmptySeq
  <2> QED BY <1>1, <2>1, RangeOf
<1>2. ASSUME NEW u \in FrameSet, IsUpkeep(u), u.at = "start" PROVE \A f \in Range(s) : ~Clash(u, f)
  <2> TAKE f \in Range(s)
  <2>1. ~IsUpkeep(f) OBVIOUS
  <2> QED BY <1>2, <2>1 DEF Clash, IsEdit, Making, IsUpkeep
<1>3. ASSUME NEW u \in FrameSet, IsUpkeep(u), u.at = "start", upkeep = <<u>>
      PROVE  /\ upkeep \o s \in Seq(FrameSet) /\ upkeep \o s # <<>> /\ GoodStack(upkeep \o s)
             /\ Head(upkeep \o s) \in {Head(s)} \cup Range(upkeep)
             /\ Range(upkeep \o s) = Range(upkeep) \cup Range(s)
             /\ \A v \in Range(upkeep) : v \in FrameSet /\ IsUpkeep(v) /\ v.at = "start"
  BY <1>2, <1>3, UpkeepPush, RangeOf
<1>4. ASSUME NEW e \in FrameSet, NEW u \in FrameSet, IsUpkeep(e), e.at = "start",
             IsUpkeep(u), u.at = "start", ~Clash(e, u), upkeep = <<e, u>>
      PROVE  /\ upkeep \o s \in Seq(FrameSet) /\ upkeep \o s # <<>> /\ GoodStack(upkeep \o s)
             /\ Head(upkeep \o s) \in {Head(s)} \cup Range(upkeep)
             /\ Range(upkeep \o s) = Range(upkeep) \cup Range(s)
             /\ \A v \in Range(upkeep) : v \in FrameSet /\ IsUpkeep(v) /\ v.at = "start"
  <2> DEFINE r == <<u>> \o s
  <2>1. /\ r \in Seq(FrameSet) /\ r # <<>> /\ GoodStack(r)
        /\ Head(r) = u /\ UnderUpkeep(u) /\ Range(r) = {u} \cup Range(s)
    BY <1>2, <1>4, UpkeepPush
  <2> HIDE DEF r
  <2>2. \A f \in Range(r) : ~Clash(e, f) BY <1>2, <1>4, <2>1
  <2>3. /\ <<e>> \o r \in Seq(FrameSet) /\ <<e>> \o r # <<>> /\ GoodStack(<<e>> \o r)
        /\ Head(<<e>> \o r) = e /\ Range(<<e>> \o r) = {e} \cup Range(r)
    BY <1>4, <2>1, <2>2, UpkeepPush
  <2>4. upkeep \o s = <<e>> \o r BY <1>4, TwoPushed DEF r
  <2>5. Range(upkeep) = {e, u} BY <1>4, RangeOf
  <2>6. \A v \in Range(upkeep) : v \in FrameSet /\ IsUpkeep(v) /\ v.at = "start"
    BY <1>4, <2>5
  <2> QED BY <2>1, <2>3, <2>4, <2>5, <2>6
<1> QED BY <1>1, <1>3, <1>4 DEF IsUpkeepSeq

\* The turn of a process whose driver call succeeded: its frame is the given one,
\* with what was changed, and the upkeep is to be done.
Changing(frame, upkeep) ==
    [frame EXCEPT !.changed = Changed(disk') \cup {u.path : u \in Range(upkeep)}]

Drives(p, frame, upkeep) ==
    /\ IsUpkeepSeq(upkeep)
    /\ \E t : /\ Turn(p, t)
              /\ Idle(t)
              /\ SameMaking(stack[p], t)
              /\ Range(t) = Range(upkeep) \cup {Changing(frame, upkeep)} \cup Range(Tail(stack[p]))
    /\ UNCHANGED <<cache, listG, mkdirG, ret, left>>

\* A driver call that succeeds is such a turn.
LEMMA DrivenTurns ==
    ASSUME Stacks, NEW p \in Proc, stack[p] # <<>>, NEW tree, NEW frame \in FrameSet,
           NEW upkeep, Driven(p, tree, frame, upkeep), IsUpkeepSeq(upkeep),
           frame.fn \in Op, SameCall(frame, Top(p)), UnderUpkeep(frame),
           \A x : Making(frame, x) <=> Making(Top(p), x)
    PROVE  disk' = tree /\ Drives(p, frame, upkeep)
<1> DEFINE C == Changed(tree) \cup {u.path : u \in Range(upkeep)}
           g == [frame EXCEPT !.changed = C]
           s == stack[p]
           r == <<g>> \o Tail(s)
           t == upkeep \o r
<1>1. /\ s \in Seq(FrameSet) /\ GoodStack(s) /\ Top(p) = Head(s) /\ Top(p) \in FrameSet
      /\ Tail(s) \in Seq(FrameSet) /\ Range(s) = {Top(p)} \cup Range(Tail(s))
      /\ stack \in [Proc -> Seq(FrameSet)] /\ ret \in [Proc -> Answer \cup {Done}]
  BY TopHas
<1>2. frame \in OpFrames /\ OpOk(frame) BY FrameHas
<1>3. \A u \in Range(upkeep) : u \in FrameSet /\ IsUpkeep(u) /\ u.at = "start"
  BY RangeOf DEF IsUpkeepSeq
<1>4. C \subseteq Dir
  <2>1. \A u \in Range(upkeep) : u.path \in Dir BY <1>3, FrameHas DEF IsUpkeep, Op
  <2> QED BY <2>1 DEF Changed
<1>5. frame.at \in {"end", "done"} /\ (frame.fn = "put" => frame.at = "done") /\ ~IsUpkeep(frame)
  BY DEF UnderUpkeep, IsUpkeep, Op
<1>6. stack' = [stack EXCEPT ![p] = (upkeep \o <<g>>) \o Tail(s)] /\ ret' = ret
  BY <1>1 DEF Driven, Replace
<1> HIDE DEF C
<1>7. /\ g.fn = frame.fn /\ g.path = frame.path /\ g.at = frame.at /\ g.changed = C
      /\ g.to = frame.to /\ g.kind = frame.kind /\ g.lazy = frame.lazy /\ g.kept = frame.kept
      /\ g \in OpFrames
  BY <1>2, <1>4 DEF OpFrames
<1>8. OpOk(g) BY <1>2, <1>5, <1>7 DEF OpOk, InPlace
<1>9. g \in FrameSet /\ SameCall(g, Top(p)) BY <1>2, <1>7, <1>8 DEF FrameSet, SameCall, Op
<1> HIDE DEF g
<1>10. UnderUpkeep(g) /\ ~IsUpkeep(g) /\ ~Asks(g) BY <1>5, <1>7 DEF UnderUpkeep, IsUpkeep, Asks, Op
<1>11. \A x : Making(g, x) <=> Making(Top(p), x) BY <1>7 DEF Making
<1>12. MakesAlone(g, s) BY <1>1, <1>11 DEF MakesAlone
<1>13. /\ r \in Seq(FrameSet) /\ GoodStack(r) /\ r # <<>> /\ Head(r) = g
       /\ Range(r) = {g} \cup Range(Tail(s)) /\ SameMaking(s, r)
  BY <1>1, <1>9, <1>11, <1>12, GoStack
<1>14. \A f \in Range(r) : ~IsUpkeep(f)
  <2>1. ~IsUpkeep(Top(p)) BY <1>5, <1>7, <1>9 DEF IsUpkeep, SameCall
  <2>2. \A f \in Range(Tail(s)) : ~UnderUpkeep(f) BY <1>1, <2>1, BelowTop
  <2> QED BY <1>10, <1>13, <2>2 DEF UnderUpkeep
<1>15. (upkeep \o <<g>>) \o Tail(s) = t
  <2> DEFINE S == FrameSet
  <2>1. /\ <<>> \in Seq(S) /\ \A u \in S : <<u>> \in Seq(S)
        /\ \A e, u \in S : <<e, u>> \in Seq(S)
    <3> HIDE DEF S
    <3> QED OBVIOUS
  <2>2. upkeep \in Seq(FrameSet) BY <2>1 DEF IsUpkeepSeq
  <2>3. <<g>> \in Seq(FrameSet) BY <1>9, <2>1
  <2> QED BY <1>1, <2>2, <2>3, ConcatAssociative
<1> HIDE DEF r
<1>16. /\ t \in Seq(FrameSet) /\ t # <<>> /\ GoodStack(t)
       /\ Head(t) \in {g} \cup Range(upkeep)
       /\ Range(t) = Range(upkeep) \cup Range(r)
  BY <1>10, <1>13, <1>14, UpkeepStack
<1>17. stack' = [stack EXCEPT ![p] = t] BY <1>6, <1>15
<1> HIDE DEF t
<1>18. \A u \in Range(upkeep) : ~Asks(u) /\ u.fn \in {"edit", "clear"} BY <1>3 DEF Asks, IsUpkeep
<1>19. Turn(p, t) BY <1>1, <1>6, <1>10, <1>16, <1>17, <1>18 DEF Turn, AnswerFor
<1>20. Idle(t)
  <2>1. ~(g.fn = "mkdir" /\ g.at = "wait") /\ g.fn # "list" BY <1>5, <1>7 DEF Op
  <2> QED BY <1>16, <1>18, <2>1 DEF Idle
<1>21. SameMaking(s, t) BY <1>13, <1>16, <1>18 DEF SameMaking, MakesOn, Making
<1>22. Range(t) = Range(upkeep) \cup {g} \cup Range(Tail(s)) BY <1>13, <1>16
<1> QED BY <1>19, <1>20, <1>21, <1>22 DEF Drives, Changing, Driven, g, C

\* The upkeep for a new object
LEMMA UpkeepsAre ==
    ASSUME NEW dir \in Dir, NEW old \in Entries \cup {NoName}, NEW new \in Entries,
           ListingOk(dir, {new}), NEW lazy \in BOOLEAN,
           NEW upkeep \in Upkeeps(dir, old, new, lazy)
    PROVE  /\ EditFrame(dir, old, new) \in FrameSet /\ ClearFrame(dir) \in FrameSet
           /\ \/ upkeep = <<EditFrame(dir, old, new)>>
              \/ upkeep = <<ClearFrame(dir)>>
              \/ upkeep = <<>> /\ lazy
           /\ IsUpkeepSeq(upkeep)
<1>1. new # NoName BY SentinelAssumption
<1>2. EditFrame(dir, old, new) \in FrameSet
  <2>1. EditFrame(dir, old, new) \in EditFrames BY DEF EditFrame, EditFrames
  <2>2. ListingOk(dir, {}) BY DEF ListingOk
  <2>3. EditFit(EditFrame(dir, old, new)) BY <1>1, <2>2 DEF EditFrame, EditFit
  <2> QED BY <2>1, <2>3 DEF FrameSet
<1>3. ClearFrame(dir) \in FrameSet BY DEF ClearFrame, FrameSet, ClearFrames
<1>4. \/ upkeep = <<EditFrame(dir, old, new)>>
      \/ upkeep = <<ClearFrame(dir)>>
      \/ upkeep = <<>> /\ lazy
  BY DEF Upkeeps
<1>5. /\ IsUpkeep(EditFrame(dir, old, new)) /\ EditFrame(dir, old, new).at = "start"
      /\ IsUpkeep(ClearFrame(dir)) /\ ClearFrame(dir).at = "start"
  BY DEF EditFrame, ClearFrame, IsUpkeep
<1> QED BY <1>2, <1>3, <1>4, <1>5 DEF IsUpkeepSeq

\* The upkeep for an object that is gone
LEMMA DisappearsIs ==
    ASSUME NEW path \in Path, path # Root, NEW kind \in Kind
    PROVE  LET e == EditFrame(Parent(path), Entry(Last(path), kind), NoName) IN
           /\ Disappears(path, kind) = <<e>>
           /\ e \in FrameSet /\ IsUpkeep(e) /\ e.at = "start"
<1> DEFINE e == EditFrame(Parent(path), Entry(Last(path), kind), NoName)
<1>1. Entry(Last(path), kind) \in Entries BY PathHas DEF Entry, Entries
<1>2. Entry(Last(path), kind) # NoName BY <1>1, SentinelAssumption
<1>3. e \in EditFrames BY <1>1, PathHas DEF EditFrame, EditFrames
<1>4. ListingOk(Parent(path), {}) BY DEF ListingOk
<1>5. EditFit(e) BY <1>2, <1>4 DEF EditFrame, EditFit
<1>6. IsUpkeep(e) /\ e.at = "start" BY DEF EditFrame, IsUpkeep
<1> QED BY <1>3, <1>5, <1>6 DEF FrameSet, Disappears

\* A new entry of a directory
LEMMA EntryFits ==
    ASSUME NEW path \in Path, path # Root, NEW kind \in Kind, kind = "dir" => path \in Dir
    PROVE  /\ Entry(Last(path), kind) \in Entries
           /\ ListingOk(Parent(path), {Entry(Last(path), kind)})
<1>1. Entry(Last(path), kind) \in Entries BY PathHas DEF Entry, Entries
<1>2. Child(Parent(path), Last(path)) = path BY PathHas
<1>3. Entry(Last(path), kind).name = Last(path) /\ Entry(Last(path), kind).kind = kind
  BY DEF Entry
<1> QED BY <1>1, <1>2, <1>3 DEF ListingOk

\* The frame of an operation whose driver call succeeded
LEMMA EndedHas ==
    ASSUME NEW f \in FrameSet, f.fn \in Op \ {"put"}, f.at = "got"
    PROVE  LET g == [f EXCEPT !.at = "end"] IN
           /\ g \in FrameSet /\ g.fn = f.fn /\ g.path = f.path /\ g.at = "end"
           /\ g.to = f.to /\ g.kind = f.kind /\ g.lazy = f.lazy
           /\ SameCall(g, f) /\ UnderUpkeep(g)
           /\ \A x : Making(g, x) <=> Making(f, x)
<1> DEFINE g == [f EXCEPT !.at = "end"]
<1>1. OpOk(f) BY FrameHas
<1>2. /\ g.fn = f.fn /\ g.path = f.path /\ g.at = "end" /\ g.changed = f.changed
      /\ g.to = f.to /\ g.kind = f.kind /\ g.lazy = f.lazy /\ g.kept = f.kept
      /\ SameCall(g, f)
  BY GoesHas
<1>3. OpOk(g) BY <1>1, <1>2 DEF OpOk, InPlace, Op
<1>4. g \in FrameSet BY <1>3, GoesHas
<1>5. UnderUpkeep(g) BY <1>2 DEF UnderUpkeep
<1>6. \A x : Making(g, x) <=> Making(f, x) BY <1>2 DEF Making
<1> QED BY <1>2, <1>4, <1>5, <1>6

\* The driver makes a directory.
LEMMA MkdirDriven ==
    ASSUME Stacks, Data, NEW p \in Proc, stack[p] # <<>>, MkdirDrive(p)
    PROVE  LET f == Top(p) IN
           /\ f \in FrameSet /\ f.fn = "mkdir" /\ f.at = "got"
           /\ f.path \in Dir /\ f.path # Root
           /\ \/ MkdirClose(p, Failed) /\ UNCHANGED <<disk, cache, listG, left>>
              \/ /\ disk[Parent(f.path)] = "dir" /\ disk[f.path] \in {Absent, "dir"}
                 /\ disk' = [disk EXCEPT ![f.path] = "dir"] /\ IsTree(disk')
                 /\ \E upkeep \in Upkeeps(Parent(f.path), NoName, Entry(Last(f.path), "dir"), f.lazy) :
                       Drives(p, [f EXCEPT !.at = "end"], upkeep)
<1> DEFINE f == Top(p)
           g == [f EXCEPT !.at = "end"]
<1>1. f \in FrameSet /\ f.fn = "mkdir" /\ f.at = "got" BY TopHas DEF MkdirDrive, At
<1>2. f \in OpFrames /\ f.path \in Dir /\ f.path # Root BY <1>1, FrameHas DEF Op, OpOk
<1>3. ASSUME disk[Parent(f.path)] = "dir", disk[f.path] \in {Absent, "dir"},
             NEW upkeep \in Upkeeps(Parent(f.path), NoName, Entry(Last(f.path), "dir"), f.lazy),
             Driven(p, [disk EXCEPT ![f.path] = "dir"], g, upkeep)
      PROVE  /\ disk' = [disk EXCEPT ![f.path] = "dir"] /\ IsTree(disk')
             /\ Drives(p, g, upkeep)
  <2>1. f.path \in Path /\ Parent(f.path) \in Dir BY <1>2, DirsArePaths, PathHas
  <2>2. f.lazy \in BOOLEAN BY <1>2 DEF OpFrames
  <2>3. /\ Entry(Last(f.path), "dir") \in Entries
        /\ ListingOk(Parent(f.path), {Entry(Last(f.path), "dir")})
    BY <1>2, <2>1, EntryFits DEF Kind
  <2>4. IsUpkeepSeq(upkeep) BY <2>1, <2>2, <2>3, <1>3, UpkeepsAre
  <2>5. /\ g \in FrameSet /\ g.fn = f.fn /\ SameCall(g, f) /\ UnderUpkeep(g)
        /\ \A x : Making(g, x) <=> Making(f, x)
    BY <1>1, EndedHas DEF Op
  <2> HIDE DEF g
  <2>6. disk' = [disk EXCEPT ![f.path] = "dir"] /\ Drives(p, g, upkeep)
    BY <1>1, <1>3, <2>4, <2>5, DrivenTurns DEF Op
  <2>7. IsTree([disk EXCEPT ![f.path] = "dir"])
    BY <1>2, <1>3, <2>1, PlacedTree DEF Data, Kind
  <2> QED BY <2>6, <2>7
<1> QED BY <1>1, <1>2, <1>3 DEF MkdirDrive

\* The upkeep after a removal
RemoveUpkeep(path, kind) ==
    Disappears(path, kind) \o IF kind = "dir" THEN <<ClearFrame(path)>> ELSE <<>>

\* The upkeep of a removal: one edit of the parent's listing and, for a directory, a drop
LEMMA RemoveUpkeepIs ==
    ASSUME NEW path \in Path, path # Root, NEW kind \in Kind, kind = "dir" => path \in Dir
    PROVE  LET e == EditFrame(Parent(path), Entry(Last(path), kind), NoName) IN
           /\ e \in FrameSet /\ ClearFrame(path).path = path
           /\ RemoveUpkeep(path, kind) = IF kind = "dir" THEN <<e, ClearFrame(path)>> ELSE <<e>>
           /\ IsUpkeepSeq(RemoveUpkeep(path, kind))
<1> DEFINE e == EditFrame(Parent(path), Entry(Last(path), kind), NoName)
           c == ClearFrame(path)
<1>1. Disappears(path, kind) = <<e>> /\ e \in FrameSet /\ IsUpkeep(e) /\ e.at = "start"
  BY DisappearsIs
<1>2. IsUpkeep(c) /\ c.at = "start" /\ c.fn = "clear" /\ c.path = path
  BY DEF ClearFrame, IsUpkeep
<1>3. kind = "dir" => c \in FrameSet BY DEF ClearFrame, FrameSet, ClearFrames
<1>4. ~Clash(e, c) BY <1>1, <1>2 DEF Clash, IsEdit, Making
<1> HIDE DEF e, c
<1>5. <<e>> \o <<c>> = <<e, c>> /\ <<e>> \o <<>> = <<e>> BY PairIs
<1>6. RemoveUpkeep(path, kind) = IF kind = "dir" THEN <<e, c>> ELSE <<e>>
  BY <1>1, <1>5 DEF RemoveUpkeep, c
<1>7. IsUpkeepSeq(RemoveUpkeep(path, kind)) BY <1>1, <1>2, <1>3, <1>4, <1>6 DEF IsUpkeepSeq
<1> QED BY <1>1, <1>2, <1>6, <1>7 DEF e, c

\* The driver removes an object.
LEMMA RemoveDriven ==
    ASSUME Stacks, Data, NEW p \in Proc, stack[p] # <<>>, RemoveDrive(p)
    PROVE  LET f == Top(p) IN
           /\ f \in FrameSet /\ f.fn = "remove" /\ f.at = "got"
           /\ f.path \in Path /\ f.path # Root
           /\ \/ Quiet(p) /\ UNCHANGED <<disk, cache, listG, mkdirG, left>>
              \/ /\ ret[p] \in Kind /\ (ret[p] = "dir" => f.path \in Dir)
                 /\ disk[f.path] # Absent
                 /\ disk' = Without(disk, f.path) /\ IsTree(disk')
                 /\ Drives(p, [f EXCEPT !.at = "end"], RemoveUpkeep(f.path, ret[p]))
<1> DEFINE f == Top(p)
           g == [f EXCEPT !.at = "end"]
<1>1. f \in FrameSet /\ f.fn = "remove" /\ f.at = "got" BY TopHas DEF RemoveDrive, At
<1>2. f.path \in Path /\ f.path # Root BY <1>1, FrameHas DEF Op, OpOk
<1>3. CASE UNCHANGED <<disk, cache, listG, mkdirG, left>> /\ \E v \in {Done, Failed} : Returns(p, v)
  BY <1>1, <1>2, <1>3, RemoveReturns DEF At
<1>4. ASSUME ~Missing(ret[p]), disk[f.path] # Absent,
             Driven(p, Without(disk, f.path), g, RemoveUpkeep(f.path, ret[p]))
      PROVE  /\ ret[p] \in Kind /\ (ret[p] = "dir" => f.path \in Dir)
             /\ disk' = Without(disk, f.path) /\ IsTree(disk')
             /\ Drives(p, g, RemoveUpkeep(f.path, ret[p]))
  <2>1. ret[p] \in Kind /\ (ret[p] = "dir" => f.path \in Dir)
    BY <1>1, <1>4, AnswerHas DEF Asks, Asked
  <2>2. IsUpkeepSeq(RemoveUpkeep(f.path, ret[p])) BY <1>2, <2>1, RemoveUpkeepIs
  <2>3. /\ g \in FrameSet /\ g.fn = f.fn /\ SameCall(g, f) /\ UnderUpkeep(g)
        /\ \A x : Making(g, x) <=> Making(f, x)
    BY <1>1, EndedHas DEF Op
  <2> HIDE DEF g
  <2>4. disk' = Without(disk, f.path) /\ Drives(p, g, RemoveUpkeep(f.path, ret[p]))
    BY <1>1, <1>4, <2>2, <2>3, DrivenTurns DEF Op
  <2> QED BY <1>2, <2>1, <2>4, WithoutTree DEF Data
<1>5. \/ UNCHANGED <<disk, cache, listG, mkdirG, left>> /\ \E v \in {Done, Failed} : Returns(p, v)
      \/ ~Missing(ret[p]) /\ disk[f.path] # Absent
            /\ Driven(p, Without(disk, f.path), g, RemoveUpkeep(f.path, ret[p]))
  BY DEF RemoveDrive, Refused, RemoveUpkeep
<1> QED BY <1>1, <1>2, <1>3, <1>4, <1>5

\* The tree after a rename
Renamed(path, dst) ==
    IF dst = path THEN disk ELSE Without(Duplicated(disk, path, dst), path)

\* What is renamed arrives.
LEMMA RenameArrives ==
    ASSUME Data, NEW path \in Path, path # Root, NEW to \in Name, disk[path] # Absent,
           Child(Parent(path), to) = path \/ CanArrive(path, Child(Parent(path), to))
    PROVE  LET dst == Child(Parent(path), to) IN
           /\ dst \in Path /\ dst # Root /\ Parent(dst) = Parent(path) /\ Last(dst) = to
           /\ disk[path] \in Kind /\ (disk[path] = "dir" => dst \in Dir)
           /\ IsTree(Renamed(path, dst))
<1> DEFINE dst == Child(Parent(path), to)
<1>1. Parent(path) \in Path BY PathHas
<1>2. dst \in Seq(Name) /\ dst # Root /\ Parent(dst) = Parent(path) /\ Last(dst) = to
  BY <1>1, ChildHas
<1>3. IsTree(disk) /\ disk[path] \in Kind BY DEF Data, IsTree
<1> HIDE DEF dst
<1>4. CASE dst = path BY <1>2, <1>3, <1>4 DEF Renamed, IsTree, dst
<1>5. CASE dst # path
  <2>1. CanArrive(path, dst) BY <1>5 DEF dst
  <2>2. dst \in Path /\ (disk[path] = "dir" => dst \in Dir) BY <1>2, <2>1, ArrivesAt
  <2>3. IsTree(Duplicated(disk, path, dst)) BY <1>2, <1>3, <2>1, <2>2, DuplicatedTree
  <2>4. IsTree(Renamed(path, dst)) BY <1>5, <2>3, WithoutTree DEF Renamed
  <2> QED BY <1>2, <1>3, <2>2, <2>4 DEF dst
<1> QED BY <1>4, <1>5

\* The driver renames an object.
LEMMA RenameDriven ==
    ASSUME Stacks, Data, NEW p \in Proc, stack[p] # <<>>, RenameDrive(p)
    PROVE  LET f == Top(p)
               dst == Child(Parent(f.path), f.to)
           IN
           /\ f \in FrameSet /\ f.fn = "rename" /\ f.at = "got"
           /\ f.path \in Path /\ f.path # Root /\ f.to \in Name /\ f.lazy \in BOOLEAN
           /\ \/ Quiet(p) /\ UNCHANGED <<disk, cache, listG, mkdirG, left>>
              \/ /\ ret[p] \in Kind
                 /\ disk[f.path] # Absent /\ (dst = f.path \/ CanArrive(f.path, dst))
                 /\ disk' = Renamed(f.path, dst) /\ IsTree(disk')
                 /\ \E upkeep \in Upkeeps(Parent(f.path), Entry(Last(f.path), ret[p]),
                                          Entry(f.to, disk[f.path]), f.lazy) :
                       Drives(p, [f EXCEPT !.at = "end"], upkeep)
<1> DEFINE f == Top(p)
           g == [f EXCEPT !.at = "end"]
           dst == Child(Parent(f.path), f.to)
<1>1. f \in FrameSet /\ f.fn = "rename" /\ f.at = "got" BY TopHas DEF RenameDrive, At
<1>2. f.path \in Path /\ f.path # Root /\ f.to \in Name /\ f.lazy \in BOOLEAN
  BY <1>1, FrameHas DEF Op, OpOk, OpFrames
<1>3. CASE \E able : Refused(p, able)
  <2>1. Quiet(p) /\ UNCHANGED <<disk, cache, listG, mkdirG, left>>
    BY <1>1, <1>3, RefusedQuiet DEF Refused, Op
  <2> QED BY <1>1, <1>2, <2>1
<1>4. ASSUME ~Missing(ret[p]), disk[f.path] # Absent, dst = f.path \/ CanArrive(f.path, dst),
             NEW upkeep \in Upkeeps(Parent(f.path), Entry(Last(f.path), ret[p]),
                                    Entry(f.to, disk[f.path]), f.lazy),
             Driven(p, Renamed(f.path, dst), g, upkeep)
      PROVE  /\ ret[p] \in Kind
             /\ disk' = Renamed(f.path, dst) /\ IsTree(disk')
             /\ Drives(p, g, upkeep)
  <2>1. ret[p] \in Kind BY <1>1, <1>4, AnswerHas DEF Asks
  <2>2. /\ dst \in Path /\ dst # Root /\ Parent(dst) = Parent(f.path) /\ Last(dst) = f.to
        /\ disk[f.path] \in Kind /\ (disk[f.path] = "dir" => dst \in Dir)
        /\ IsTree(Renamed(f.path, dst))
    BY <1>2, <1>4, RenameArrives
  <2>3. /\ Entry(f.to, disk[f.path]) \in Entries
        /\ ListingOk(Parent(f.path), {Entry(f.to, disk[f.path])})
    BY <2>2, EntryFits
  <2>4. Entry(Last(f.path), ret[p]) \in Entries /\ Parent(f.path) \in Dir
    BY <1>2, <2>1, PathHas DEF Entry, Entries
  <2>5. IsUpkeepSeq(upkeep) BY <1>2, <1>4, <2>3, <2>4, UpkeepsAre
  <2>6. /\ g \in FrameSet /\ g.fn = f.fn /\ SameCall(g, f) /\ UnderUpkeep(g)
        /\ \A x : Making(g, x) <=> Making(f, x)
    BY <1>1, EndedHas DEF Op
  <2> HIDE DEF g, dst
  <2>7. disk' = Renamed(f.path, dst) /\ Drives(p, g, upkeep)
    BY <1>1, <1>4, <2>5, <2>6, DrivenTurns DEF Op
  <2> QED BY <2>1, <2>2, <2>7
<1>5. \/ \E able : Refused(p, able)
      \/ /\ ~Missing(ret[p]) /\ disk[f.path] # Absent /\ (dst = f.path \/ CanArrive(f.path, dst))
         /\ \E upkeep \in Upkeeps(Parent(f.path), Entry(Last(f.path), ret[p]),
                                  Entry(f.to, disk[f.path]), f.lazy) :
               Driven(p, Renamed(f.path, dst), g, upkeep)
  BY DEF RenameDrive, Renamed
<1> QED BY <1>1, <1>2, <1>3, <1>4, <1>5

\* The upkeep after a move
LEMMA MoveUpkeepIs ==
    ASSUME NEW path \in Path, path # Root, NEW kind \in Kind,
           NEW to \in Dir, to # Parent(path), NEW new \in Entries, ListingOk(to, {new}),
           NEW lazy \in BOOLEAN, NEW upkeep \in Upkeeps(to, NoName, new, lazy)
    PROVE  LET e == EditFrame(Parent(path), Entry(Last(path), kind), NoName) IN
           /\ e \in FrameSet
           /\ \/ Disappears(path, kind) \o upkeep = <<e, EditFrame(to, NoName, new)>>
              \/ Disappears(path, kind) \o upkeep = <<e, ClearFrame(to)>>
              \/ Disappears(path, kind) \o upkeep = <<e>> /\ lazy
           /\ IsUpkeepSeq(Disappears(path, kind) \o upkeep)
<1> DEFINE e == EditFrame(Parent(path), Entry(Last(path), kind), NoName)
           a == EditFrame(to, NoName, new)
           c == ClearFrame(to)
<1>1. Disappears(path, kind) = <<e>> /\ e \in FrameSet /\ IsUpkeep(e) /\ e.at = "start"
  BY DisappearsIs
<1>2. /\ a \in FrameSet /\ c \in FrameSet
      /\ upkeep = <<a>> \/ upkeep = <<c>> \/ (upkeep = <<>> /\ lazy)
  BY UpkeepsAre
<1>3. /\ e.fn = "edit" /\ e.path = Parent(path)
      /\ a.fn = "edit" /\ a.path = to /\ a.at = "start" /\ IsUpkeep(a)
      /\ c.fn = "clear" /\ c.at = "start" /\ IsUpkeep(c)
  BY DEF EditFrame, ClearFrame, IsUpkeep
<1>4. ~Clash(e, a) /\ ~Clash(e, c) BY <1>3 DEF Clash, IsEdit, Making
<1> HIDE DEF e, a, c
<1>5. /\ <<e>> \o <<a>> = <<e, a>> /\ <<e>> \o <<c>> = <<e, c>> /\ <<e>> \o <<>> = <<e>>
  BY PairIs
<1>6. \/ Disappears(path, kind) \o upkeep = <<e, a>>
      \/ Disappears(path, kind) \o upkeep = <<e, c>>
      \/ Disappears(path, kind) \o upkeep = <<e>> /\ lazy
  BY <1>1, <1>2, <1>5
<1>7. IsUpkeepSeq(Disappears(path, kind) \o upkeep)
  BY <1>1, <1>2, <1>3, <1>4, <1>6 DEF IsUpkeepSeq
<1> QED BY <1>1, <1>6, <1>7 DEF e, a, c

\* What moves or is copied arrives elsewhere.
LEMMA MoveArrives ==
    ASSUME Data, NEW path \in Path, path # Root, NEW to \in Path,
           CanArrive(path, Child(to, Last(path)))
    PROVE  LET dst == Child(to, Last(path)) IN
           /\ dst \in Path /\ dst # Root /\ Parent(dst) = to /\ Last(dst) = Last(path)
           /\ to \in Dir /\ disk[to] = "dir" /\ to # Parent(path)
           /\ disk[path] \in Kind /\ (disk[path] = "dir" => dst \in Dir)
           /\ Entry(Last(path), disk[path]) \in Entries
           /\ ListingOk(to, {Entry(Last(path), disk[path])})
           /\ IsTree(Duplicated(disk, path, dst))
           /\ IsTree(Without(Duplicated(disk, path, dst), path))
<1> DEFINE dst == Child(to, Last(path))
<1>1. Last(path) \in Name BY PathHas
<1>2. dst \in Seq(Name) /\ dst # Root /\ Parent(dst) = to /\ Last(dst) = Last(path)
  BY <1>1, ChildHas
<1>3. IsTree(disk) /\ disk[path] \in Kind BY DEF Data, IsTree, CanArrive
<1>4. dst \in Path /\ (disk[path] = "dir" => dst \in Dir) BY <1>2, ArrivesAt
<1>5. to \in Dir BY <1>1, <1>4, ChildHas
<1>6. to # Parent(path)
  <2>1. Child(Parent(path), Last(path)) = path BY PathHas
  <2>2. disk[dst] = Absent /\ disk[path] # Absent BY DEF CanArrive
  <2> QED BY <2>1, <2>2
<1>7. IsTree(Duplicated(disk, path, dst)) BY <1>2, <1>3, <1>4, DuplicatedTree
<1>8. IsTree(Without(Duplicated(disk, path, dst), path)) BY <1>7, WithoutTree
<1>9. /\ Entry(Last(dst), disk[path]) \in Entries
      /\ ListingOk(Parent(dst), {Entry(Last(dst), disk[path])})
  BY <1>2, <1>3, <1>4, EntryFits
<1>10. disk[to] = "dir" BY <1>2 DEF CanArrive
<1> HIDE DEF dst
<1> QED BY <1>2, <1>3, <1>4, <1>5, <1>6, <1>7, <1>8, <1>9, <1>10 DEF dst

\* The driver moves or copies an object.
LEMMA MoveDriven ==
    ASSUME Stacks, Data, NEW p \in Proc, stack[p] # <<>>, MoveDrive(p)
    PROVE  LET f == Top(p)
               dst == Child(f.to, Last(f.path))
               both == Duplicated(disk, f.path, dst)
           IN
           /\ f \in FrameSet /\ f.fn \in {"move", "copy"} /\ f.at = "got"
           /\ f.path \in Path /\ f.path # Root /\ f.to \in Path /\ f.kind \in Kind
           /\ f.lazy \in BOOLEAN
           /\ \/ Quiet(p) /\ UNCHANGED <<disk, cache, listG, mkdirG, left>>
              \/ /\ CanArrive(f.path, dst)
                 /\ \E upkeep \in Upkeeps(f.to, NoName, Entry(Last(f.path), disk[f.path]), f.lazy) :
                       \/ /\ f.fn = "move"
                          /\ disk' = Without(both, f.path) /\ IsTree(disk')
                          /\ Drives(p, [f EXCEPT !.at = "end"], Disappears(f.path, f.kind) \o upkeep)
                       \/ /\ f.fn = "copy"
                          /\ disk' = both /\ IsTree(disk')
                          /\ Drives(p, [f EXCEPT !.at = "end"], upkeep)
<1> DEFINE f == Top(p)
           g == [f EXCEPT !.at = "end"]
           dst == Child(f.to, Last(f.path))
           both == Duplicated(disk, f.path, dst)
           new == Entry(Last(f.path), disk[f.path])
<1>1. f \in FrameSet /\ f.fn \in {"move", "copy"} /\ f.at = "got" BY TopHas DEF MoveDrive, At
<1>2. /\ f.path \in Path /\ f.path # Root /\ f.to \in Path /\ f.kind \in Kind
      /\ f.lazy \in BOOLEAN
  BY <1>1, FrameHas DEF Op, OpOk, OpFrames
<1>3. CASE \E able : Refused(p, able)
  <2>1. Quiet(p) /\ UNCHANGED <<disk, cache, listG, mkdirG, left>>
    BY <1>1, <1>3, RefusedQuiet DEF Refused, Op
  <2> QED BY <1>1, <1>2, <2>1
<1>4. ASSUME CanArrive(f.path, dst), NEW upkeep \in Upkeeps(f.to, NoName, new, f.lazy)
      PROVE  /\ f.fn = "move" /\ Driven(p, Without(both, f.path), g, Disappears(f.path, f.kind) \o upkeep)
                => /\ disk' = Without(both, f.path) /\ IsTree(disk')
                   /\ Drives(p, g, Disappears(f.path, f.kind) \o upkeep)
             /\ f.fn = "copy" /\ Driven(p, both, g, upkeep)
                => disk' = both /\ IsTree(disk') /\ Drives(p, g, upkeep)
  <2>1. /\ f.to \in Dir /\ f.to # Parent(f.path)
        /\ new \in Entries /\ ListingOk(f.to, {new})
        /\ IsTree(both) /\ IsTree(Without(both, f.path))
    BY <1>2, <1>4, MoveArrives
  <2>2. IsUpkeepSeq(upkeep) BY <1>2, <1>4, <2>1, UpkeepsAre
  <2>3. IsUpkeepSeq(Disappears(f.path, f.kind) \o upkeep) BY <1>2, <1>4, <2>1, MoveUpkeepIs
  <2>4. /\ g \in FrameSet /\ g.fn = f.fn /\ SameCall(g, f) /\ UnderUpkeep(g)
        /\ \A x : Making(g, x) <=> Making(f, x)
    BY <1>1, EndedHas DEF Op
  <2> HIDE DEF g, dst, both
  <2>5. ASSUME NEW tree, NEW u, Driven(p, tree, g, u), IsUpkeepSeq(u)
        PROVE  disk' = tree /\ Drives(p, g, u)
    BY <1>1, <2>4, <2>5, DrivenTurns DEF Op
  <2> QED BY <2>1, <2>2, <2>3, <2>5
<1>5. \/ \E able : Refused(p, able)
      \/ /\ CanArrive(f.path, dst)
         /\ \E upkeep \in Upkeeps(f.to, NoName, new, f.lazy) :
               \/ f.fn = "move" /\ Driven(p, Without(both, f.path), g, Disappears(f.path, f.kind) \o upkeep)
               \/ f.fn = "copy" /\ Driven(p, both, g, upkeep)
  BY <1>1 DEF MoveDrive
<1> QED BY <1>1, <1>2, <1>3, <1>4, <1>5

\* The frame of an upload that succeeded
Uploaded(f) == [[f EXCEPT !.at = IF f.fn = "put" THEN "done" ELSE "end"] EXCEPT !.ok = TRUE]

\* The driver uploads an object.
LEMMA PutDriven ==
    ASSUME Stacks, Data, NEW p \in Proc, stack[p] # <<>>, PutDrive(p)
    PROVE  LET f == Top(p) IN
           /\ f \in FrameSet /\ f.fn \in {"put", "puturl"} /\ f.at = "got"
           /\ f.path \in Path /\ f.path # Root /\ f.kind \in {"file", "empty"}
           /\ f.lazy \in BOOLEAN
           /\ \/ Quiet(p) /\ UNCHANGED <<disk, cache, listG, mkdirG, left>>
              \/ /\ disk[Parent(f.path)] = "dir" /\ disk[f.path] # "dir"
                 /\ disk' = [disk EXCEPT ![f.path] = f.kind] /\ IsTree(disk')
                 /\ \E upkeep \in Upkeeps(Parent(f.path), NoName, Entry(Last(f.path), f.kind), f.lazy) :
                       Drives(p, Uploaded(f), upkeep)
<1> DEFINE f == Top(p)
           g == Uploaded(f)
           n == [f EXCEPT !.at = IF f.fn = "put" THEN "done" ELSE "end"]
<1>1. f \in FrameSet /\ f.fn \in {"put", "puturl"} /\ f.at = "got" BY TopHas DEF PutDrive, At
<1>2. /\ f.path \in Path /\ f.path # Root /\ f.kind \in {"file", "empty"}
      /\ f.lazy \in BOOLEAN /\ f \in OpFrames /\ OpOk(f)
  BY <1>1, FrameHas DEF Op, OpOk, OpFrames
<1>3. CASE Missing(ret[p]) /\ Refused(p, FALSE)
  <2>1. Quiet(p) /\ UNCHANGED <<disk, cache, listG, mkdirG, left>>
    BY <1>1, <1>3, RefusedQuiet DEF Refused, Op
  <2> QED BY <1>1, <1>2, <2>1
<1>4. CASE /\ IF f.fn = "put" THEN Replace(p, <<n>>) /\ UNCHANGED ret ELSE Returns(p, Failed)
           /\ UNCHANGED <<disk, cache, listG, mkdirG, left>>
  <2>1. Quiet(p)
    <3>1. CASE f.fn = "put" /\ Replace(p, <<n>>) /\ UNCHANGED ret
      <4>1. At(p, "put", "got") BY <1>1, <3>1 DEF At
      <4>2. stack' = [stack EXCEPT ![p] = <<[f EXCEPT !.at = "done"]>> \o Tail(@)] /\ ret' = ret
        BY <3>1 DEF Replace
      <4> QED BY <4>1, <4>2, PutFails
    <3>2. CASE Returns(p, Failed) BY <1>1, <3>2, OpReturns DEF Op, Answer
    <3> QED BY <1>4, <3>1, <3>2
  <2> QED BY <1>1, <1>2, <1>4, <2>1
<1>5. ASSUME disk[Parent(f.path)] = "dir", disk[f.path] # "dir",
             NEW upkeep \in Upkeeps(Parent(f.path), NoName, Entry(Last(f.path), f.kind), f.lazy),
             Driven(p, [disk EXCEPT ![f.path] = f.kind], g, upkeep)
      PROVE  /\ disk' = [disk EXCEPT ![f.path] = f.kind] /\ IsTree(disk')
             /\ Drives(p, g, upkeep)
  <2>1. f.kind \in Kind /\ f.kind # "dir" BY <1>2 DEF Kind
  <2>2. /\ Entry(Last(f.path), f.kind) \in Entries
        /\ ListingOk(Parent(f.path), {Entry(Last(f.path), f.kind)})
    BY <1>2, <2>1, EntryFits
  <2>3. IsUpkeepSeq(upkeep) BY <1>2, <1>5, <2>2, PathHas, UpkeepsAre
  <2>4. /\ g.fn = f.fn /\ g.path = f.path /\ g.at = (IF f.fn = "put" THEN "done" ELSE "end")
        /\ g.changed = f.changed /\ g.to = f.to /\ g.kind = f.kind /\ g.lazy = f.lazy
        /\ g.kept = f.kept /\ g \in OpFrames
    BY <1>2 DEF OpFrames, Uploaded
  <2>5. OpOk(g) BY <1>1, <1>2, <2>4 DEF OpOk, InPlace
  <2>6. g \in FrameSet /\ SameCall(g, f) /\ UnderUpkeep(g) /\ g.fn \in Op
    BY <1>1, <2>4, <2>5 DEF FrameSet, SameCall, UnderUpkeep, Op
  <2> HIDE DEF g
  <2>7. \A x : Making(g, x) <=> Making(f, x) BY <1>1, <2>4 DEF Making
  <2>8. disk' = [disk EXCEPT ![f.path] = f.kind] /\ Drives(p, g, upkeep)
    BY <1>5, <2>3, <2>6, <2>7, DrivenTurns
  <2>9. IsTree([disk EXCEPT ![f.path] = f.kind]) BY <1>2, <1>5, <2>1, PlacedTree DEF Data
  <2> QED BY <2>8, <2>9
<1>6. \/ Missing(ret[p]) /\ Refused(p, FALSE)
      \/ /\ IF f.fn = "put" THEN Replace(p, <<n>>) /\ UNCHANGED ret ELSE Returns(p, Failed)
         /\ UNCHANGED <<disk, cache, listG, mkdirG, left>>
      \/ /\ disk[Parent(f.path)] = "dir" /\ disk[f.path] # "dir"
         /\ \E upkeep \in Upkeeps(Parent(f.path), NoName, Entry(Last(f.path), f.kind), f.lazy) :
               Driven(p, [disk EXCEPT ![f.path] = f.kind], g, upkeep)
  BY DEF PutDrive, Uploaded
<1> QED BY <1>1, <1>2, <1>3, <1>4, <1>5, <1>6

-----------------------------------------------------------------------------
(* Flights of mkdirG *)

\* What the step of p does to the stacks, as far as changes and upkeep go: nothing,
\* or the running function of p returns.
Steady(p) ==
    /\ \A q \in Proc \ {p} : Calm(stack[q], stack'[q])
    /\ stack'[p] = Tail(stack[p]) \/ Calm(stack[p], stack'[p])

Orderly(p) == Stacks' /\ ListFlights' /\ MkdirFlights' /\ Steady(p)

\* A turn that neither ends a change nor leads another flight
LEMMA QuietOrderly ==
    ASSUME Base, NEW p \in Proc, stack[p] # <<>>, Quiet(p),
           ~(Top(p).fn = "list" /\ Top(p).at \in Flying), listG' = listG, mkdirG' = mkdirG
    PROVE  Orderly(p)
<1>1. PICK t : /\ Turn(p, t)
               /\ Idle(t)
               /\ SameMaking(stack[p], t)
               /\ t = Tail(stack[p]) \/ Calm(stack[p], t)
  BY DEF Quiet
<1>2. Stacks' /\ stack'[p] = t /\ \A q \in Proc \ {p} : stack'[q] = stack[q]
  BY <1>1, TurnKeepsStacks DEF Base
<1>3. \A d \in Dir : ~Flies(t, d) /\ ~WaitsList(t, d) BY <1>1 DEF Idle, Flies, WaitsList
<1>4. \A x \in Path : ~WaitsMkdir(t, x) BY <1>1 DEF Idle, WaitsMkdir
<1>5. ListFlights' BY <1>1, <1>3, TurnKeepsLists DEF Base
<1>6. MkdirFlights' BY <1>1, <1>4, TurnKeepsMkdir DEF Base
<1>7. Steady(p) BY <1>1, <1>2 DEF Steady, Calm
<1> QED BY <1>2, <1>5, <1>6, <1>7 DEF Orderly

\* MakeDir begins: the root is there; another directory is looked up, under the
\* flight of its path, or the flight that is there is waited for.
LEMMA MkdirStartOrderly ==
    ASSUME Base, NEW p \in Proc, stack[p] # <<>>, MkdirStart(p)
    PROVE  Orderly(p) /\ Top(p).fn \in Op /\ mkdirG' \subseteq Path
<1> DEFINE f == Top(p)
           s == stack[p]
<1>1. /\ f \in FrameSet /\ f.fn = "mkdir" /\ f.at = "start"
      /\ s \in Seq(FrameSet) /\ GoodStack(s) /\ Top(p) = Head(s)
      /\ Range(s) = {f} \cup Range(Tail(s)) /\ Tail(s) \in Seq(FrameSet)
  BY TopHas DEF MkdirStart, At, Base
<1>2. f.fn \in Op /\ OpOk(f) /\ f.path \in Dir /\ f.path \in Path
  BY <1>1, FrameHas, DirsArePaths DEF Op, OpOk
<1>3. Stacks /\ listG' = listG /\ mkdirG \subseteq Path BY DEF MkdirStart, Base, Data
<1>4. ~Making(f, f.path) BY <1>1 DEF Making
<1>5. CASE f.path = Root
  <2>1. Returns(p, Done) /\ mkdirG' = mkdirG BY <1>5 DEF MkdirStart
  <2>2. Fits(f, Done) BY <1>1, EasyFits
  <2>3. Quiet(p) BY <1>3, <1>4, <2>1, <2>2, TurnReturns
  <2> QED BY <1>1, <1>2, <1>3, <2>1, <2>3, QuietOrderly
<1>6. CASE f.path # Root /\ f.path \in mkdirG
  <2> DEFINE g == [f EXCEPT !.at = "wait"]
             t == <<g>> \o Tail(s)
  <2>1. stack' = [stack EXCEPT ![p] = <<g>> \o Tail(@)] /\ ret' = ret /\ mkdirG' = mkdirG
    BY <1>6 DEF MkdirStart, Goto, Replace
  <2>2. /\ g.fn = f.fn /\ g.path = f.path /\ g.at = "wait" /\ g.changed = f.changed
        /\ g.to = f.to /\ g.kind = f.kind /\ g.lazy = f.lazy /\ g.kept = f.kept
        /\ SameCall(g, f) /\ ~IsUpkeep(g)
    BY ZenonT(40), <1>1, <1>2, GoesHas
  <2>3. OpOk(g) BY <1>1, <1>2, <2>2 DEF OpOk, InPlace
  <2>4. g \in FrameSet BY <1>1, <1>2, <2>3, GoesHas
  <2> HIDE DEF g
  <2>5. ~Making(g, g.path) /\ ~Asks(g) BY <1>1, <2>2 DEF Making, Asks
  <2>6. MakesAlone(g, s) BY <2>5 DEF MakesAlone
  <2>7. ret[p] \in Answer \cup {Done} /\ ret' = [ret EXCEPT ![p] = ret[p]]
    BY <1>3, <2>1, TopHas
  <2>8. Turn(p, t) BY <1>3, <2>1, <2>2, <2>4, <2>5, <2>6, <2>7, TurnGoes
  <2>9. /\ t # <<>> /\ Head(t) = g /\ SameMaking(s, t) /\ Calm(s, t)
    <3>1. Making(g, g.path) <=> Making(Head(s), g.path) BY <1>1, <1>4, <2>2, <2>5
    <3> QED BY <1>1, <2>2, <2>4, <2>6, <3>1, GoStack
  <2> HIDE DEF t
  <2>10. Stacks' /\ stack'[p] = t /\ \A q \in Proc \ {p} : stack'[q] = stack[q]
    BY <1>3, <2>8, TurnKeepsStacks
  <2>11. \A d \in Dir : ~Flies(t, d) /\ ~WaitsList(t, d)
    BY <1>1, <2>2, <2>9 DEF Flies, WaitsList
  <2>12. \A x \in Path : WaitsMkdir(t, x) => x \in mkdirG
    BY <1>6, <2>2, <2>9 DEF WaitsMkdir
  <2>13. ListFlights' BY <1>1, <1>3, <2>8, <2>11, TurnKeepsLists DEF Base
  <2>14. MkdirFlights' BY <1>3, <2>1, <2>8, <2>9, <2>12, TurnKeepsMkdir DEF Base
  <2>15. Steady(p) BY <2>9, <2>10 DEF Steady, Calm
  <2> QED BY <1>2, <1>3, <2>1, <2>10, <2>13, <2>14, <2>15 DEF Orderly
<1>7. CASE f.path # Root /\ f.path \notin mkdirG
  <2> DEFINE g == [f EXCEPT !.at = "check"]
  <2>1. Get(p, f.path, "check") /\ mkdirG' = mkdirG \cup {f.path} BY <1>7 DEF MkdirStart
  <2>2. /\ g.fn = f.fn /\ g.path = f.path /\ g.at = "check" /\ g.changed = f.changed
        /\ g.to = f.to /\ g.kind = f.kind /\ g.lazy = f.lazy /\ g.kept = f.kept
    BY <1>1, <1>2, GoesHas
  <2>3. OpOk(g) BY <1>1, <1>2, <1>7, <2>2 DEF OpOk, InPlace
  <2>4. g \in FrameSet BY <1>1, <1>2, <2>3, GoesHas
  <2>5. Asks(g) /\ Asked(g) = f.path BY <1>1, <2>2 DEF Asks, Asked
  <2>6. \A q \in Proc : ~MakesOn(stack[q], f.path) BY <1>2, <1>7 DEF Base, MkdirFlights
  <2>7. MakesAlone(g, s) BY <1>1, <2>2, <2>6 DEF MakesAlone, MakesOn
  <2>8. PICK t : /\ Turn(p, t)
                 /\ Idle(t)
                 /\ \A x : MakesOn(t, x) <=> Making(g, x) \/ MakesOn(Tail(s), x)
                 /\ Calm(s, t)
    BY <1>1, <1>3, <2>1, <2>4, <2>5, <2>7, TurnGets
  <2>9. Stacks' /\ stack'[p] = t /\ \A q \in Proc \ {p} : stack'[q] = stack[q]
    BY <1>3, <2>8, TurnKeepsStacks
  <2>10. \A d \in Dir : ~Flies(t, d) /\ ~WaitsList(t, d) BY <2>8 DEF Idle, Flies, WaitsList
  <2>11. ListFlights' BY <1>1, <1>3, <2>8, <2>10, TurnKeepsLists DEF Base
  <2>12. \A x : MakesOn(t, x) <=> x = f.path \/ MakesOn(s, x)
    <3> TAKE x
    <3>1. MakesOn(s, x) <=> MakesOn(Tail(s), x) BY <1>1 DEF MakesOn, Making
    <3>2. Making(g, x) <=> x = f.path BY <1>1, <2>2 DEF Making
    <3> QED BY <2>8, <3>1, <3>2
  <2>13. MkdirFlights'
    <3> SUFFICES ASSUME NEW x \in Path
                 PROVE  /\ \A q, r \in Proc : MakesOn(stack'[q], x) /\ MakesOn(stack'[r], x) => q = r
                        /\ x \in mkdirG' <=> \E q \in Proc : MakesOn(stack'[q], x)
                        /\ \A q \in Proc : WaitsMkdir(stack'[q], x) => x \in mkdirG'
      BY DEF MkdirFlights
    <3>1. \A q \in Proc : WaitsMkdir(stack'[q], x) => WaitsMkdir(stack[q], x)
      <4>1. ~WaitsMkdir(t, x) BY <2>8 DEF Idle, WaitsMkdir
      <4> QED BY <4>1, <2>9
    <3>2. CASE x = f.path
      <4>1. \A q \in Proc : MakesOn(stack'[q], x) <=> q = p
        BY <2>6, <2>9, <2>12, <3>2
      <4> QED BY <4>1, <2>1, <3>2
    <3>3. CASE x # f.path
      <4>1. \A q \in Proc : MakesOn(stack'[q], x) <=> MakesOn(stack[q], x)
        BY <2>9, <2>12, <3>3
      <4> QED BY <4>1, <2>1, <3>1, <3>3 DEF Base, MkdirFlights
    <3> QED BY <3>2, <3>3
  <2>14. Steady(p) BY <2>8, <2>9 DEF Steady, Calm
  <2> QED BY <1>2, <1>3, <2>1, <2>9, <2>11, <2>13, <2>14 DEF Orderly
<1> QED BY <1>5, <1>6, <1>7

\* The flight of a path closes: who leads it and who waits for it return.
LEMMA MkdirCloseOrderly ==
    ASSUME Base, NEW p \in Proc, stack[p] # <<>>, Making(Top(p), Top(p).path),
           NEW v \in {Done, Failed}, MkdirClose(p, v), listG' = listG
    PROVE  Orderly(p) /\ mkdirG' \subseteq Path
<1> DEFINE path == Top(p).path
           answered == {p} \cup {q \in Proc : At(q, "mkdir", "wait") /\ Top(q).path = path}
<1>1. /\ stack \in [Proc -> Seq(FrameSet)] /\ ret \in [Proc -> Answer \cup {Done}]
      /\ \A q \in Proc : GoodStack(stack[q]) /\ AnswerFor(stack[q], ret[q])
  BY DEF Base, Stacks
<1>2. /\ stack' = [q \in Proc |-> IF q \in answered THEN Tail(stack[q]) ELSE stack[q]]
      /\ ret' = [q \in Proc |-> IF q \in answered THEN v ELSE ret[q]]
      /\ mkdirG' = mkdirG \ {path}
  BY DEF MkdirClose, Return
<1>3. path \in Path /\ Top(p).fn = "mkdir" /\ MakesOn(stack[p], path)
  <2>1. Top(p) \in FrameSet /\ Top(p) \in Range(stack[p]) BY TopHas DEF Base
  <2> QED BY <2>1, FrameHas DEF MakesOn, Making
<1>4. \A q \in answered : q \in Proc /\ stack[q] # <<>> /\ Top(q).fn = "mkdir" /\ Top(q).path = path
  BY <1>3 DEF At
<1>5. p \in answered OBVIOUS
<1>6. \A q \in answered \ {p} : Top(q).at = "wait" BY DEF At
<1>7. \A q \in Proc : WaitsMkdir(stack[q], path) => q \in answered
  BY DEF WaitsMkdir, At, Top
<1> HIDE DEF answered
<1>8. ASSUME NEW q \in answered
      PROVE  /\ Tail(stack[q]) \in Seq(FrameSet) /\ GoodStack(Tail(stack[q])) /\ Idle(Tail(stack[q]))
             /\ ~Making(Top(q), Top(q).path) => SameMaking(stack[q], Tail(stack[q]))
             /\ IsCalm(Top(q)) => Calm(stack[q], Tail(stack[q]))
             /\ AnswerFor(Tail(stack[q]), v)
  <2>1. q \in Proc /\ stack[q] # <<>> /\ Top(q).fn = "mkdir" BY <1>4
  <2>2. stack[q] \in Seq(FrameSet) /\ GoodStack(stack[q]) /\ Top(q) = Head(stack[q])
    BY <1>1, <2>1 DEF Top
  <2>3. Fits(Head(stack[q]), v) BY <2>1, <2>2, EasyFits
  <2> QED BY <2>1, <2>2, <2>3, PopStack, Answers
<1>9. Stacks'
  <2>1. stack' \in [Proc -> Seq(FrameSet)] BY <1>1, <1>2, <1>8
  <2>2. ret' \in [Proc -> Answer \cup {Done}] BY <1>1, <1>2 DEF Answer
  <2>3. ASSUME NEW q \in Proc PROVE GoodStack(stack'[q]) /\ AnswerFor(stack'[q], ret'[q])
    <3>1. CASE q \in answered BY <3>1, <1>2, <1>8
    <3>2. CASE q \notin answered BY <3>2, <1>1, <1>2
    <3> QED BY <3>1, <3>2
  <2> QED BY <2>1, <2>2, <2>3 DEF Stacks
<1>10. ASSUME NEW q \in Proc, NEW d \in Dir
       PROVE  /\ Flies(stack'[q], d) <=> Flies(stack[q], d)
              /\ Flies(stack[q], d) => Top(q)' = Top(q)
              /\ WaitsList(stack'[q], d) => WaitsList(stack[q], d)
  <2>1. CASE q \in answered
    <3>1. ~Flies(stack[q], d) BY <2>1, <1>4 DEF Flies, Top
    <3>2. ~Flies(stack'[q], d) /\ ~WaitsList(stack'[q], d)
      BY <2>1, <1>2, <1>8 DEF Idle, Flies, WaitsList
    <3> QED BY <3>1, <3>2
  <2>2. CASE q \notin answered BY <2>2, <1>2 DEF Top
  <2> QED BY <2>1, <2>2
<1>11. ListFlights' BY <1>10 DEF Base, ListFlights
<1>12. ASSUME NEW q \in Proc, NEW x \in Path
       PROVE  MakesOn(stack'[q], x) <=> MakesOn(stack[q], x) /\ ~(q = p /\ x = path)
  <2>1. CASE q = p
    <3>1. stack'[q] = Tail(stack[q]) BY <2>1, <1>2, <1>5
    <3>2. /\ Range(stack[q]) = {Top(q)} \cup Range(Tail(stack[q]))
          /\ stack[q] \in Seq(FrameSet) /\ GoodStack(stack[q]) /\ Top(q) = Head(stack[q])
      BY <2>1, TopHas DEF Base
    <3>3. \A f \in Range(Tail(stack[q])) : ~Clash(Top(q), f) BY <2>1, <3>2, BelowTop
    <3>4. ~MakesOn(Tail(stack[q]), path) BY <2>1, <3>3 DEF MakesOn, Clash
    <3>5. MakesOn(stack[q], x) <=> Making(Top(q), x) \/ MakesOn(Tail(stack[q]), x)
      BY <3>2 DEF MakesOn
    <3>6. Making(Top(q), x) <=> x = path BY <2>1 DEF Making
    <3> QED BY <2>1, <3>1, <3>4, <3>5, <3>6
  <2>2. CASE q # p /\ q \in answered
    <3>1. ~Making(Top(q), Top(q).path) BY <2>2, <1>6 DEF Making
    <3> QED BY <2>2, <3>1, <1>2, <1>8 DEF SameMaking
  <2>3. CASE q \notin answered BY <2>3, <1>2, <1>5
  <2> QED BY <2>1, <2>2, <2>3
<1>13. ASSUME NEW q \in Proc, NEW x \in Path, WaitsMkdir(stack'[q], x) PROVE x \in mkdirG'
  <2>1. q \notin answered BY <1>2, <1>8, <1>13 DEF Idle, WaitsMkdir
  <2>2. WaitsMkdir(stack[q], x) BY <2>1, <1>2, <1>13
  <2>3. x # path BY <2>1, <2>2, <1>7
  <2> QED BY <2>2, <2>3, <1>2 DEF Base, MkdirFlights
<1>14. MkdirFlights'
  <2> SUFFICES ASSUME NEW x \in Path
               PROVE  /\ \A q, r \in Proc : MakesOn(stack'[q], x) /\ MakesOn(stack'[r], x) => q = r
                      /\ x \in mkdirG' <=> \E q \in Proc : MakesOn(stack'[q], x)
                      /\ \A q \in Proc : WaitsMkdir(stack'[q], x) => x \in mkdirG'
    BY DEF MkdirFlights
  <2>1. CASE x = path
    <3>1. \A q \in Proc : ~MakesOn(stack'[q], x)
      BY <2>1, <1>3, <1>12 DEF Base, MkdirFlights
    <3> QED BY <2>1, <3>1, <1>2, <1>13
  <2>2. CASE x # path
    <3>1. \A q \in Proc : MakesOn(stack'[q], x) <=> MakesOn(stack[q], x) BY <2>2, <1>12
    <3> QED BY <2>2, <3>1, <1>2, <1>13 DEF Base, MkdirFlights
  <2> QED BY <2>1, <2>2
<1>15. Steady(p)
  <2>1. ASSUME NEW q \in Proc \ {p} PROVE Calm(stack[q], stack'[q])
    <3>1. CASE q \in answered
      <4>1. Top(q) \in FrameSet /\ Top(q).fn = "mkdir" /\ Top(q).at = "wait"
        BY <3>1, <1>4, <1>6, TopHas DEF Base
      <4>2. IsCalm(Top(q)) BY <4>1, FrameHas DEF IsCalm, IsUpkeep, OpOk, Op
      <4> QED BY <3>1, <4>2, <1>2, <1>8
    <3>2. CASE q \notin answered BY <3>2, <1>2 DEF Calm
    <3> QED BY <3>1, <3>2
  <2> QED BY <2>1, <1>2, <1>5 DEF Steady
<1>16. mkdirG' \subseteq Path BY <1>2 DEF Base, Data
<1> QED BY <1>9, <1>11, <1>14, <1>15, <1>16 DEF Orderly

\* The directory was looked up: it is there, or its parent is made first.
LEMMA MkdirCheckOrderly ==
    ASSUME Base, NEW p \in Proc, stack[p] # <<>>, MkdirCheck(p)
    PROVE  Orderly(p) /\ Top(p).fn \in Op /\ mkdirG' \subseteq Path
<1> DEFINE f == Top(p)
           g == [f EXCEPT !.at = "parent"]
           c == MkdirFrame(Parent(f.path))
<1>1. f \in FrameSet /\ f.fn = "mkdir" /\ f.at = "check" BY TopHas DEF MkdirCheck, At, Base
<1>2. f.fn \in Op /\ OpOk(f) /\ f.path \in Path /\ f.path # Root
  BY <1>1, FrameHas DEF Op, OpOk
<1>3. Stacks /\ listG' = listG /\ mkdirG \subseteq Path BY DEF MkdirCheck, Base, Data
<1>4. CASE ret[p] # Absent
  <2>1. MkdirClose(p, IF ret[p] = "dir" THEN Done ELSE Failed) BY <1>4 DEF MkdirCheck
  <2>2. Making(f, f.path) BY <1>1 DEF Making
  <2> QED BY <1>2, <1>3, <2>1, <2>2, MkdirCloseOrderly
<1>5. CASE ret[p] = Absent
  <2>1. stack' = [stack EXCEPT ![p] = <<c, g>> \o Tail(@)] /\ ret' = ret /\ mkdirG' = mkdirG
    BY <1>5 DEF MkdirCheck, Call, Replace
  <2>2. /\ g.fn = f.fn /\ g.path = f.path /\ g.at = "parent" /\ g.changed = f.changed
        /\ g.to = f.to /\ g.kind = f.kind /\ g.lazy = f.lazy /\ g.kept = f.kept
        /\ SameCall(g, f)
    BY <1>1, <1>2, GoesHas
  <2>3. OpOk(g) BY <1>1, <1>2, <2>2 DEF OpOk, InPlace
  <2>4. g \in FrameSet BY <1>1, <1>2, <2>3, GoesHas
  <2>5. c \in FrameSet /\ c.at = "start" /\ IsCalm(c) /\ ~c.lazy /\ c.fn = "mkdir"
    BY <1>2, PathHas, CallFrames
  <2> HIDE DEF c, g
  <2>6. Above(c, g) BY <1>1, <2>2, <2>5 DEF Above
  <2>7. ~UnderUpkeep(g) /\ g.fn \notin {"list", "rename", "edit", "clear"}
    BY <1>1, <2>2 DEF UnderUpkeep, IsUpkeep, Op
  <2>8. \A x : Making(g, x) <=> Making(f, x) BY <1>1, <2>2 DEF Making
  <2>9. Quiet(p) BY <1>3, <2>1, <2>2, <2>4, <2>5, <2>6, <2>7, <2>8, QuietCalls
  <2> QED BY <1>1, <1>2, <1>3, <2>1, <2>9, QuietOrderly
<1> QED BY <1>4, <1>5

\* The parent was made: it is looked up.
LEMMA MkdirParentOrderly ==
    ASSUME Base, NEW p \in Proc, stack[p] # <<>>, MkdirParent(p)
    PROVE  Orderly(p) /\ Top(p).fn \in Op /\ mkdirG' \subseteq Path
<1> DEFINE f == Top(p)
           g == [f EXCEPT !.at = "got"]
<1>1. f \in FrameSet /\ f.fn = "mkdir" /\ f.at = "parent" BY TopHas DEF MkdirParent, At, Base
<1>2. f.fn \in Op /\ OpOk(f) /\ f.path \in Path /\ f.path # Root
  BY <1>1, FrameHas DEF Op, OpOk
<1>3. Stacks /\ listG' = listG /\ mkdirG \subseteq Path BY DEF MkdirParent, Base, Data
<1>4. CASE ret[p] # Done
  <2>1. MkdirClose(p, Failed) BY <1>4 DEF MkdirParent
  <2>2. Making(f, f.path) BY <1>1 DEF Making
  <2> QED BY <1>2, <1>3, <2>1, <2>2, MkdirCloseOrderly
<1>5. CASE ret[p] = Done
  <2>1. Get(p, Parent(f.path), "got") /\ mkdirG' = mkdirG BY <1>5 DEF MkdirParent
  <2>2. /\ g.fn = f.fn /\ g.path = f.path /\ g.at = "got" /\ g.changed = f.changed
        /\ g.to = f.to /\ g.kind = f.kind /\ g.lazy = f.lazy /\ g.kept = f.kept
    BY <1>1, <1>2, GoesHas
  <2>3. OpOk(g) BY <1>1, <1>2, <2>2 DEF OpOk, InPlace
  <2>4. g \in FrameSet BY <1>1, <1>2, <2>3, GoesHas
  <2>5. Asks(g) /\ Asked(g) = Parent(f.path) BY <1>1, <2>2 DEF Asks, Asked
  <2>6. \A x : Making(g, x) <=> Making(f, x) BY <1>1, <2>2 DEF Making
  <2>7. Quiet(p) BY <1>1, <1>3, <2>1, <2>4, <2>5, <2>6, QuietGets
  <2> QED BY <1>1, <1>2, <1>3, <2>1, <2>7, QuietOrderly
<1> QED BY <1>4, <1>5

-----------------------------------------------------------------------------
(* Flights of listG *)

\* The frame of List goes on to a step in which it leads a flight, or waits.
LEMMA ListGoes ==
    ASSUME Base, NEW p \in Proc, stack[p] # <<>>, Top(p).fn = "list",
           NEW at \in Flying \cup {"wait"},
           stack' = [stack EXCEPT ![p] = <<[Top(p) EXCEPT !.at = at]>> \o Tail(@)], ret' = ret,
           mkdirG' = mkdirG
    PROVE  LET t == <<[Top(p) EXCEPT !.at = at]>> \o Tail(stack[p]) IN
           /\ Turn(p, t)
           /\ t # <<>> /\ Head(t).fn = "list" /\ Head(t).at = at /\ Head(t).path = Top(p).path
           /\ Stacks' /\ MkdirFlights' /\ Steady(p)
           /\ stack'[p] = t /\ \A q \in Proc \ {p} : stack'[q] = stack[q]
<1> DEFINE f == Top(p)
           s == stack[p]
           g == [f EXCEPT !.at = at]
           t == <<g>> \o Tail(s)
<1>1. /\ f \in FrameSet /\ s \in Seq(FrameSet) /\ GoodStack(s) /\ f = Head(s) /\ Stacks
      /\ ret[p] \in Answer \cup {Done} /\ ret' = [ret EXCEPT ![p] = ret[p]]
  BY TopHas DEF Base
<1>2. /\ g \in FrameSet /\ g.fn = "list" /\ g.path = f.path /\ g.changed = f.changed /\ g.at = at
      /\ SameCall(g, f) /\ ~IsUpkeep(g)
  BY ZenonT(40), <1>1, GoesHas DEF Flying
<1>3. stack' = [stack EXCEPT ![p] = <<g>> \o Tail(@)] OBVIOUS
<1> HIDE DEF g
<1>4. ~Asks(g) BY <1>2 DEF Asks, Flying
<1>5. ~Making(g, g.path) /\ ~Making(f, g.path) BY <1>2 DEF Making
<1>6. MakesAlone(g, s) BY <1>5 DEF MakesAlone
<1>7. Turn(p, t) BY <1>1, <1>2, <1>3, <1>4, <1>6, TurnGoes
<1>8. t # <<>> /\ Head(t) = g /\ SameMaking(s, t) /\ Calm(s, t)
  <2>1. (Making(g, g.path) <=> Making(Head(s), g.path)) /\ g.fn # "rename" BY <1>1, <1>2, <1>5
  <2> QED BY <1>1, <1>2, <1>6, <2>1, GoStack
<1> HIDE DEF t
<1>9. Stacks' /\ stack'[p] = t /\ \A q \in Proc \ {p} : stack'[q] = stack[q]
  BY <1>1, <1>7, TurnKeepsStacks
<1>10. \A x \in Path : ~WaitsMkdir(t, x) BY <1>2, <1>8 DEF WaitsMkdir
<1>11. MkdirFlights' BY <1>1, <1>7, <1>8, <1>10, TurnKeepsMkdir DEF Base
<1>12. Steady(p) BY <1>8, <1>9 DEF Steady, Calm
<1> QED BY <1>2, <1>7, <1>8, <1>9, <1>11, <1>12 DEF g, t

\* The leader of a flight, old or new, brings it to its next stage.
LEMMA LeaderGoes ==
    ASSUME Base, NEW p \in Proc, stack[p] # <<>>, Top(p).fn = "list",
           NEW at \in Flying,
           stack' = [stack EXCEPT ![p] = <<[Top(p) EXCEPT !.at = at]>> \o Tail(@)], ret' = ret,
           mkdirG' = mkdirG,
           \A d \in Dir \ {Top(p).path} : listG'[d] = listG[d],
           InStep(at, listG'[Top(p).path].stage),
           Flies(stack[p], Top(p).path) \/ listG[Top(p).path].stage = "none"
    PROVE  Orderly(p)
<1> DEFINE dir == Top(p).path
           t == <<[Top(p) EXCEPT !.at = at]>> \o Tail(stack[p])
<1>1. /\ t # <<>> /\ Head(t).fn = "list" /\ Head(t).at = at /\ Head(t).path = dir
      /\ Stacks' /\ MkdirFlights' /\ Steady(p)
      /\ stack'[p] = t /\ \A q \in Proc \ {p} : stack'[q] = stack[q]
  BY ListGoes
<1> HIDE DEF t
<1>2. \A d \in Dir : (Flies(t, d) <=> d = dir) /\ ~WaitsList(t, d)
  BY <1>1 DEF Flies, WaitsList, Flying
<1>3. Top(p)'.at = at /\ \A q \in Proc \ {p} : Top(q)' = Top(q) BY <1>1 DEF Top
<1>4. listG'[dir].stage # "none" BY DEF InStep
<1>5. ASSUME NEW q \in Proc, dir \in Dir, Flies(stack[q], dir) PROVE q = p
  <2>1. InStep(Top(q).at, listG[dir].stage) BY <1>5 DEF Base, ListFlights
  <2>2. Flies(stack[p], dir) BY <2>1 DEF InStep
  <2> QED BY <1>5, <2>2 DEF Base, ListFlights
<1> SUFFICES ASSUME NEW d \in Dir
             PROVE  /\ \A q \in Proc : Flies(stack'[q], d) => InStep(Top(q)'.at, listG'[d].stage)
                    /\ \A q, r \in Proc : Flies(stack'[q], d) /\ Flies(stack'[r], d) => q = r
                    /\ listG'[d].stage # "none" => \E q \in Proc : Flies(stack'[q], d)
                    /\ \A q \in Proc : WaitsList(stack'[q], d) => listG'[d].stage # "none"
  BY <1>1 DEF Orderly, ListFlights
<1>6. CASE d = dir
  <2>1. \A q \in Proc : Flies(stack'[q], d) <=> q = p
    BY <1>1, <1>2, <1>5, <1>6
  <2> QED BY <2>1, <1>3, <1>4, <1>6
<1>7. CASE d # dir
  <2>1. \A q \in Proc \ {p} : /\ Flies(stack'[q], d) <=> Flies(stack[q], d)
                              /\ WaitsList(stack'[q], d) <=> WaitsList(stack[q], d)
    BY <1>1
  <2>2. ~Flies(stack'[p], d) /\ ~WaitsList(stack'[p], d) BY <1>1, <1>2, <1>7
  <2>3. ~Flies(stack[p], d) BY <1>7 DEF Flies, Top
  <2>4. listG'[d] = listG[d] BY <1>7
  <2> QED BY <2>1, <2>2, <2>3, <2>4, <1>3 DEF Base, ListFlights
<1> QED BY <1>6, <1>7

\* Who leads a flight, and its stage
LEMMA LeaderHas ==
    ASSUME Base, NEW p \in Proc, NEW at \in Flying, At(p, "list", at)
    PROVE  /\ stack[p] # <<>> /\ Top(p) \in FrameSet /\ Top(p).path \in Dir
           /\ Flies(stack[p], Top(p).path) /\ InStep(at, listG[Top(p).path].stage)
           /\ listG[Top(p).path] \in FlightRecord
<1>1. stack[p] # <<>> /\ Top(p).fn = "list" /\ Top(p).at = at BY DEF At
<1>2. Top(p) \in FrameSet BY <1>1, TopHas DEF Base
<1>3. Top(p).path \in Dir BY <1>1, <1>2, FrameHas DEF Op
<1>4. Flies(stack[p], Top(p).path) BY <1>1 DEF Flies, Top
<1> QED BY <1>1, <1>2, <1>3, <1>4 DEF Base, ListFlights, Data

\* What a directory holds makes a listing.
LEMMA OnDiskOk ==
    ASSUME NEW dir \in Dir, NEW tree, IsTree(tree)
    PROVE  ListingOk(dir, {Entry(Last(x), tree[x]) :
              x \in {y \in Path \ {Root} : Parent(y) = dir /\ tree[y] # Absent}})
<1> DEFINE L == {Entry(Last(x), tree[x]) :
                   x \in {y \in Path \ {Root} : Parent(y) = dir /\ tree[y] # Absent}}
<1>1. ASSUME NEW e \in L
      PROVE  e \in Entries /\ Child(dir, e.name) \in Path
             /\ (e.kind = "dir" => Child(dir, e.name) \in Dir)
  <2>1. PICK x \in Path \ {Root} : Parent(x) = dir /\ tree[x] # Absent /\ e = Entry(Last(x), tree[x])
    OBVIOUS
  <2>2. Last(x) \in Name /\ Child(dir, Last(x)) = x BY <2>1, PathHas
  <2>3. tree[x] \in Kind BY <2>1 DEF IsTree
  <2>4. e.name = Last(x) /\ e.kind = tree[x] /\ e \in Entries
    BY <2>1, <2>2, <2>3 DEF Entry, Entries
  <2> QED BY <2>2, <2>4 DEF IsTree
<1> QED BY <1>1 DEF ListingOk

\* List at the flight: lead it or wait for it.
LEMMA ListDoOrderly ==
    ASSUME Base, NEW p \in Proc, stack[p] # <<>>, ListDo(p)
    PROVE  /\ Orderly(p) /\ Top(p).fn = "list" /\ Top(p).path \in Dir
           /\ \/ listG' = listG
              \/ /\ listG[Top(p).path] = NoFlight
                 /\ listG' = [listG EXCEPT ![Top(p).path] = [stage |-> "open", listing |-> {}]]
<1> DEFINE f == Top(p)
           dir == f.path
<1>1. f \in FrameSet /\ f.fn = "list" /\ f.at = "dir" BY TopHas DEF ListDo, At, Base
<1>2. dir \in Dir BY <1>1, FrameHas DEF Op
<1>3. mkdirG' = mkdirG /\ listG \in [Dir -> FlightRecord] BY DEF ListDo, Base, Data
<1>4. CASE ret[p] # "dir"
  <2>1. PICK v \in {Absent, Failed} : Returns(p, v) /\ listG' = listG BY <1>4 DEF ListDo
  <2>2. Fits(f, v) BY EasyFits
  <2>3. ~Making(f, f.path) BY <1>1 DEF Making
  <2>4. Quiet(p) BY <2>1, <2>2, <2>3, TurnReturns DEF Base
  <2> QED BY <1>1, <1>2, <1>3, <2>1, <2>4, QuietOrderly DEF Flying
<1>5. CASE ret[p] = "dir" /\ listG[dir] = NoFlight
  <2>1. /\ listG' = [listG EXCEPT ![dir].stage = "open"]
        /\ stack' = [stack EXCEPT ![p] = <<[f EXCEPT !.at = "read"]>> \o Tail(@)] /\ ret' = ret
    BY <1>5 DEF ListDo, Goto, Replace
  <2>2. listG[dir].stage = "none" /\ listG' = [listG EXCEPT ![dir] = [stage |-> "open", listing |-> {}]]
    <3>1. listG' = [listG EXCEPT ![dir] = [listG[dir] EXCEPT !.stage = "open"]] BY <1>3, <2>1
    <3>2. [NoFlight EXCEPT !.stage = "open"] = [stage |-> "open", listing |-> {}]
      BY SMTT(30) DEF NoFlight
    <3>3. listG[dir].stage = "none" BY <1>5 DEF NoFlight
    <3> QED BY <1>5, <3>1, <3>2, <3>3
  <2>3. InStep("read", listG'[dir].stage) /\ \A d \in Dir \ {dir} : listG'[d] = listG[d]
    BY <1>2, <1>3, <2>2 DEF InStep
  <2>4. Orderly(p) BY <1>1, <1>3, <2>1, <2>2, <2>3, LeaderGoes DEF Flying
  <2> QED BY <1>1, <1>2, <1>5, <2>2, <2>4
<1>6. CASE ret[p] = "dir" /\ listG[dir] # NoFlight
  <2> DEFINE t == <<[f EXCEPT !.at = "wait"]>> \o Tail(stack[p])
  <2>1. /\ listG' = listG
        /\ stack' = [stack EXCEPT ![p] = <<[f EXCEPT !.at = "wait"]>> \o Tail(@)] /\ ret' = ret
    BY <1>6 DEF ListDo, Goto, Replace
  <2>2. /\ t # <<>> /\ Head(t).fn = "list" /\ Head(t).at = "wait" /\ Head(t).path = dir
        /\ Turn(p, t) /\ Stacks' /\ MkdirFlights' /\ Steady(p)
    BY <1>1, <1>3, <2>1, ListGoes
  <2> HIDE DEF t
  <2>3. listG[dir].stage # "none" BY <1>2, <1>6 DEF Base, Data
  <2>4. \A d \in Dir : ~Flies(t, d) /\ (WaitsList(t, d) => listG[d].stage # "none")
    BY <2>2, <2>3 DEF Flies, WaitsList, Flying
  <2>5. ListFlights' BY <1>1, <2>1, <2>2, <2>4, TurnKeepsLists DEF Base, Flying
  <2> QED BY <1>1, <1>2, <2>1, <2>2, <2>5 DEF Orderly
<1> QED BY <1>4, <1>5, <1>6

\* The driver lists the directory, or fails to.
LEMMA ListReadOrderly ==
    ASSUME Base, NEW p \in Proc, stack[p] # <<>>, ListRead(p)
    PROVE  /\ Orderly(p) /\ Top(p).fn = "list" /\ Top(p).path \in Dir
           /\ listG[Top(p).path].stage = "open"
           /\ \E flight \in FlightRecord :
                 /\ listG' = [listG EXCEPT ![Top(p).path] = flight]
                 /\ \/ flight = [stage |-> "read", listing |-> OnDisk(Top(p).path)]
                       /\ disk[Top(p).path] = "dir"
                    \/ flight.stage = "failed" /\ flight.listing = listG[Top(p).path].listing
           /\ ListingOk(Top(p).path, listG'[Top(p).path].listing)
<1> DEFINE f == Top(p)
           dir == f.path
<1>1. /\ f \in FrameSet /\ f.fn = "list" /\ dir \in Dir /\ Flies(stack[p], dir)
      /\ listG[dir].stage = "open" /\ listG[dir] \in FlightRecord
  BY LeaderHas DEF ListRead, At, Flying, InStep
<1>2. mkdirG' = mkdirG /\ listG \in [Dir -> FlightRecord] /\ ListingOk(dir, listG[dir].listing)
  BY <1>1 DEF ListRead, Base, Data
<1>3. ListingOk(dir, OnDisk(dir)) BY <1>1, OnDiskOk DEF Base, Data, OnDisk
<1>4. CASE /\ disk[dir] = "dir"
           /\ listG' = [listG EXCEPT ![dir] = [stage |-> "read", listing |-> OnDisk(dir)]]
           /\ Goto(p, "store")
  <2> DEFINE flight == [stage |-> "read", listing |-> OnDisk(dir)]
  <2>1. flight \in FlightRecord BY <1>3 DEF FlightRecord, ListingOk
  <2>2. listG'[dir] = flight /\ \A d \in Dir \ {dir} : listG'[d] = listG[d] BY <1>1, <1>2, <1>4
  <2>3. InStep("store", listG'[dir].stage) BY <2>2 DEF InStep
  <2>4. Orderly(p) BY <1>1, <1>2, <1>4, <2>2, <2>3, LeaderGoes DEF Flying, Goto, Replace
  <2>5. ListingOk(dir, listG'[dir].listing) BY <1>3, <2>2
  <2> QED BY <1>1, <1>4, <2>1, <2>4, <2>5
<1>5. CASE listG' = [listG EXCEPT ![dir].stage = "failed"] /\ Goto(p, "close")
  <2> DEFINE flight == [listG[dir] EXCEPT !.stage = "failed"]
  <2>1. flight \in FlightRecord /\ flight.stage = "failed" /\ flight.listing = listG[dir].listing
    BY <1>1 DEF FlightRecord
  <2>2. listG' = [listG EXCEPT ![dir] = flight] BY <1>1, <1>2, <1>5
  <2> HIDE DEF flight
  <2>3. listG'[dir] = flight /\ \A d \in Dir \ {dir} : listG'[d] = listG[d] BY <1>1, <1>2, <2>2
  <2>4. InStep("close", listG'[dir].stage) BY <2>1, <2>3 DEF InStep
  <2>5. Orderly(p) BY <1>1, <1>2, <1>5, <2>3, <2>4, LeaderGoes DEF Flying, Goto, Replace
  <2> QED BY <1>1, <1>2, <2>1, <2>2, <2>3, <2>5
<1> QED BY <1>4, <1>5 DEF ListRead

\* The listing is stored, unless it is empty.
LEMMA ListStoreOrderly ==
    ASSUME Base, NEW p \in Proc, stack[p] # <<>>, ListStore(p)
    PROVE  LET dir == Top(p).path IN
           /\ Orderly(p) /\ Top(p).fn = "list" /\ dir \in Dir
           /\ listG[dir].stage = "read"
           /\ listG' = [listG EXCEPT ![dir].stage = "stored"]
           /\ \A d \in Dir \ {dir} : listG'[d] = listG[d]
           /\ listG'[dir] \in FlightRecord /\ listG'[dir].stage = "stored"
           /\ listG'[dir].listing = listG[dir].listing
           /\ cache' = [cache EXCEPT ![dir] =
                           IF listG[dir].listing = {} THEN NoListing ELSE listG[dir].listing]
<1> DEFINE f == Top(p)
           dir == f.path
           flight == [listG[dir] EXCEPT !.stage = "stored"]
<1>1. /\ f \in FrameSet /\ f.fn = "list" /\ dir \in Dir /\ Flies(stack[p], dir)
      /\ listG[dir].stage = "read" /\ listG[dir] \in FlightRecord
  BY LeaderHas DEF ListStore, At, Flying, InStep
<1>2. mkdirG' = mkdirG /\ listG \in [Dir -> FlightRecord] BY DEF ListStore, Base, Data
<1>3. /\ listG' = [listG EXCEPT ![dir].stage = "stored"]
      /\ stack' = [stack EXCEPT ![p] = <<[f EXCEPT !.at = "close"]>> \o Tail(@)] /\ ret' = ret
  BY DEF ListStore, Goto, Replace
<1>4. flight \in FlightRecord /\ flight.stage = "stored" /\ flight.listing = listG[dir].listing
  BY <1>1 DEF FlightRecord
<1>5. listG' = [listG EXCEPT ![dir] = flight] BY <1>1, <1>2, <1>3
<1> HIDE DEF flight
<1>6. listG'[dir] = flight /\ \A d \in Dir \ {dir} : listG'[d] = listG[d] BY <1>1, <1>2, <1>5
<1>7. InStep("close", listG'[dir].stage) BY <1>4, <1>6 DEF InStep
<1>8. Orderly(p) BY <1>1, <1>2, <1>3, <1>6, <1>7, LeaderGoes DEF Flying
<1> QED BY <1>1, <1>3, <1>4, <1>6, <1>8 DEF ListStore

\* The flight of a directory closes: who leads it and who waits for it learn
\* what it found.
LEMMA ListCloseOrderly ==
    ASSUME Base, NEW p \in Proc, stack[p] # <<>>, ListClose(p)
    PROVE  LET dir == Top(p).path IN
           /\ Orderly(p) /\ Top(p).fn = "list" /\ dir \in Dir
           /\ listG[dir].stage \in {"stored", "failed"}
           /\ listG' = [listG EXCEPT ![dir] = NoFlight]
<1> DEFINE dir == Top(p).path
           answered == {p} \cup {q \in Proc : At(q, "list", "wait") /\ Top(q).path = dir}
           v(q) == IF listG[dir].stage = "failed" THEN Failed ELSE Found(listG[dir].listing, Top(q).want)
<1>1. /\ stack \in [Proc -> Seq(FrameSet)] /\ ret \in [Proc -> Answer \cup {Done}]
      /\ \A q \in Proc : GoodStack(stack[q]) /\ AnswerFor(stack[q], ret[q])
  BY DEF Base, Stacks
<1>2. /\ stack' = [q \in Proc |-> IF q \in answered THEN Tail(stack[q]) ELSE stack[q]]
      /\ ret' = [q \in Proc |-> IF q \in answered THEN v(q) ELSE ret[q]]
      /\ listG' = [listG EXCEPT ![dir] = NoFlight] /\ mkdirG' = mkdirG
  BY DEF ListClose, Return
<1>3. /\ Top(p) \in FrameSet /\ Top(p).fn = "list" /\ dir \in Dir /\ Flies(stack[p], dir)
      /\ listG[dir].stage \in {"stored", "failed"}
  BY LeaderHas DEF ListClose, At, Flying, InStep
<1>4. \A q \in answered : q \in Proc /\ stack[q] # <<>> /\ Top(q).fn = "list" /\ Top(q).path = dir
  BY <1>3 DEF At
<1>5. p \in answered OBVIOUS
<1>6. \A q \in answered \ {p} : Top(q).at = "wait" BY DEF At
<1>7. \A q \in Proc : WaitsList(stack[q], dir) => q \in answered
  BY DEF WaitsList, At, Top
<1> HIDE DEF answered
<1>8. ASSUME NEW q \in answered
      PROVE  /\ Tail(stack[q]) \in Seq(FrameSet) /\ GoodStack(Tail(stack[q])) /\ Idle(Tail(stack[q]))
             /\ SameMaking(stack[q], Tail(stack[q])) /\ Calm(stack[q], Tail(stack[q]))
             /\ v(q) \in Answer \cup {Done} /\ AnswerFor(Tail(stack[q]), v(q))
  <2>1. q \in Proc /\ stack[q] # <<>> /\ Top(q).fn = "list" /\ Top(q).path = dir BY <1>4
  <2>2. stack[q] \in Seq(FrameSet) /\ GoodStack(stack[q]) /\ Top(q) = Head(stack[q])
        /\ Top(q) \in FrameSet
    BY <1>1, <2>1, StackHas DEF Top
  <2>3. ListingOk(dir, listG[dir].listing) BY <1>3 DEF Base, Data
  <2>4. Fits(Head(stack[q]), v(q)) BY <2>1, <2>2, <2>3, EasyFits, FoundFits
  <2>5. ~Making(Head(stack[q]), Head(stack[q]).path) BY <2>1, <2>2 DEF Making
  <2>6. IsCalm(Head(stack[q])) BY <2>1, <2>2, FrameHas DEF IsCalm, IsUpkeep, Op
  <2>7. v(q) \in Answer \cup {Done} BY <2>4 DEF Fits
  <2> HIDE DEF v
  <2> QED BY <2>1, <2>2, <2>4, <2>5, <2>6, <2>7, PopStack, Answers
<1> HIDE DEF v
<1>9. Stacks'
  <2>1. stack' \in [Proc -> Seq(FrameSet)] BY <1>1, <1>2, <1>8
  <2>2. ret' \in [Proc -> Answer \cup {Done}] BY <1>1, <1>2, <1>8
  <2>3. ASSUME NEW q \in Proc PROVE GoodStack(stack'[q]) /\ AnswerFor(stack'[q], ret'[q])
    <3>1. CASE q \in answered BY <3>1, <1>2, <1>8
    <3>2. CASE q \notin answered BY <3>2, <1>1, <1>2
    <3> QED BY <3>1, <3>2
  <2> QED BY <2>1, <2>2, <2>3 DEF Stacks
<1>10. listG'[dir].stage = "none" /\ \A d \in Dir \ {dir} : listG'[d] = listG[d]
  BY <1>2, <1>3 DEF Base, Data, NoFlight
<1>11. ASSUME NEW q \in Proc, NEW d \in Dir, d # dir
       PROVE  /\ Flies(stack'[q], d) <=> Flies(stack[q], d)
              /\ Flies(stack[q], d) => Top(q)' = Top(q)
              /\ WaitsList(stack'[q], d) => WaitsList(stack[q], d)
  <2>1. CASE q \in answered
    <3>1. ~Flies(stack[q], d) BY <1>11, <2>1, <1>4 DEF Flies, Top
    <3>2. ~Flies(stack'[q], d) /\ ~WaitsList(stack'[q], d)
      BY <2>1, <1>2, <1>8 DEF Idle, Flies, WaitsList
    <3> QED BY <3>1, <3>2
  <2>2. CASE q \notin answered BY <2>2, <1>2 DEF Top
  <2> QED BY <2>1, <2>2
<1>12. ASSUME NEW q \in Proc PROVE ~Flies(stack'[q], dir) /\ ~WaitsList(stack'[q], dir)
  <2>1. CASE q \in answered BY <2>1, <1>2, <1>8 DEF Idle, Flies, WaitsList
  <2>2. CASE q \notin answered
    <3>1. stack'[q] = stack[q] /\ q # p BY <2>2, <1>2, <1>5
    <3>2. ~Flies(stack[q], dir) BY <3>1, <1>3 DEF Base, ListFlights
    <3> QED BY <2>2, <3>1, <3>2, <1>7
  <2> QED BY <2>1, <2>2
<1>13. ListFlights'
  <2> SUFFICES ASSUME NEW d \in Dir
               PROVE  /\ \A q \in Proc : Flies(stack'[q], d) => InStep(Top(q)'.at, listG'[d].stage)
                      /\ \A q, r \in Proc : Flies(stack'[q], d) /\ Flies(stack'[r], d) => q = r
                      /\ listG'[d].stage # "none" => \E q \in Proc : Flies(stack'[q], d)
                      /\ \A q \in Proc : WaitsList(stack'[q], d) => listG'[d].stage # "none"
    BY DEF ListFlights
  <2>1. CASE d = dir BY <2>1, <1>10, <1>12
  <2>2. CASE d # dir BY <2>2, <1>10, <1>11 DEF Base, ListFlights
  <2> QED BY <2>1, <2>2
<1>14. MkdirFlights'
  <2>1. ASSUME NEW q \in Proc, NEW x PROVE MakesOn(stack'[q], x) <=> MakesOn(stack[q], x)
    <3>1. CASE q \in answered BY <3>1, <1>2, <1>8 DEF SameMaking
    <3>2. CASE q \notin answered BY <3>2, <1>2
    <3> QED BY <3>1, <3>2
  <2>2. ASSUME NEW q \in Proc, NEW x \in Path, WaitsMkdir(stack'[q], x) PROVE x \in mkdirG
    <3>1. q \notin answered BY <1>2, <1>8, <2>2 DEF Idle, WaitsMkdir
    <3> QED BY <3>1, <1>2, <2>2 DEF Base, MkdirFlights
  <2> QED BY <2>1, <2>2, <1>2 DEF Base, MkdirFlights
<1>15. Steady(p)
  <2>1. ASSUME NEW q \in Proc PROVE Calm(stack[q], stack'[q])
    <3>1. CASE q \in answered BY <3>1, <1>2, <1>8
    <3>2. CASE q \notin answered BY <3>2, <1>2 DEF Calm
    <3> QED BY <3>1, <3>2
  <2> QED BY <2>1 DEF Steady
<1> QED BY <1>2, <1>3, <1>9, <1>13, <1>14, <1>15 DEF Orderly

-----------------------------------------------------------------------------
(* The upkeep of the cache *)

\* A turn after which the process neither waits nor leads another flight
LEMMA TurnOrderly ==
    ASSUME Base, NEW p \in Proc, stack[p] # <<>>, NEW t,
           Turn(p, t), Idle(t), SameMaking(stack[p], t),
           ~(Top(p).fn = "list" /\ Top(p).at \in Flying), listG' = listG, mkdirG' = mkdirG
    PROVE  /\ Stacks' /\ ListFlights' /\ MkdirFlights'
           /\ stack'[p] = t /\ \A q \in Proc \ {p} : stack'[q] = stack[q]
<1>1. \A d \in Dir : ~Flies(t, d) /\ ~WaitsList(t, d) BY DEF Idle, Flies, WaitsList
<1>2. \A x \in Path : ~WaitsMkdir(t, x) BY DEF Idle, WaitsMkdir
<1> QED BY <1>1, <1>2, TurnKeepsStacks, TurnKeepsLists, TurnKeepsMkdir DEF Base

\* The driver call of an operation succeeded.
LEMMA DrivesOrderly ==
    ASSUME Base, NEW p \in Proc, stack[p] # <<>>, Top(p).fn \in Op, NEW frame, NEW upkeep,
           Drives(p, frame, upkeep)
    PROVE  /\ Stacks' /\ ListFlights' /\ MkdirFlights'
           /\ UNCHANGED <<cache, listG, mkdirG, left>>
           /\ \A q \in Proc \ {p} : stack'[q] = stack[q]
           /\ Range(stack'[p]) =
                 Range(upkeep) \cup {Changing(frame, upkeep)} \cup Range(Tail(stack[p]))
<1>1. PICK t : /\ Turn(p, t)
               /\ Idle(t)
               /\ SameMaking(stack[p], t)
               /\ Range(t) = Range(upkeep) \cup {Changing(frame, upkeep)} \cup Range(Tail(stack[p]))
  BY DEF Drives
<1>2. UNCHANGED <<cache, listG, mkdirG, left>> BY DEF Drives
<1>3. Top(p).fn # "list" BY DEF Op
<1> QED BY <1>1, <1>2, <1>3, TurnOrderly

\* An edit leaves a listing.
LEMMA EditedOk ==
    ASSUME NEW d, NEW listing, ListingOk(d, listing),
           NEW old \in Entries \cup {NoName}, NEW new \in Entries \cup {NoName},
           new # NoName => ListingOk(d, {new}), old # NoName \/ new # NoName
    PROVE  /\ ListingOk(d, Edited(listing, old, new))
           /\ new # NoName => ListingOk(d, (listing \ Named(listing, new)) \cup {new})
BY DEF ListingOk, Edited, Named

\* What is known of a frame that edits a listing
LEMMA EditHas ==
    ASSUME Base, NEW p \in Proc, NEW at, At(p, "edit", at)
    PROVE  LET f == Top(p) IN
           /\ stack[p] # <<>> /\ stack[p] \in Seq(FrameSet) /\ GoodStack(stack[p])
           /\ f = Head(stack[p]) /\ f \in EditFrames /\ f \in FrameSet /\ f.fn = "edit" /\ f.at = at
           /\ f.path \in Dir /\ f.old \in Entries \cup {NoName} /\ f.new \in Entries \cup {NoName}
           /\ EditFit(f) /\ ListingOk(f.path, f.listing)
           /\ cache \in [Dir -> (SUBSET Entries) \cup {NoListing}]
           /\ cache[f.path] # NoListing => ListingOk(f.path, cache[f.path])
           /\ \A v \in {Done} : Returns(p, v) /\ listG' = listG /\ mkdirG' = mkdirG =>
                 Orderly(p) /\ stack'[p] = Tail(stack[p])
<1> DEFINE f == Top(p)
<1>1. stack[p] # <<>> /\ f.fn = "edit" /\ f.at = at BY DEF At
<1>2. /\ stack[p] \in Seq(FrameSet) /\ GoodStack(stack[p]) /\ f = Head(stack[p]) /\ f \in FrameSet
      /\ stack \in [Proc -> Seq(FrameSet)]
  BY <1>1, TopHas DEF Base
<1>3. f \in EditFrames /\ EditFit(f) BY <1>1, <1>2, FrameHas
<1>4. /\ f.path \in Dir /\ f.old \in Entries \cup {NoName} /\ f.new \in Entries \cup {NoName}
      /\ ListingOk(f.path, f.listing)
  BY <1>3 DEF EditFrames, EditFit
<1>5. ASSUME Returns(p, Done), listG' = listG, mkdirG' = mkdirG
      PROVE  Orderly(p) /\ stack'[p] = Tail(stack[p])
  <2>1. Fits(f, Done) BY <1>1, EasyFits
  <2>2. ~Making(f, f.path) /\ ~(f.fn = "list" /\ f.at \in Flying) BY <1>1 DEF Making
  <2>3. Quiet(p) BY <1>1, <1>5, <2>1, <2>2, TurnReturns DEF Base
  <2>4. stack'[p] = Tail(stack[p]) BY <1>5 DEF Returns, Return
  <2> QED BY <1>1, <1>5, <2>2, <2>3, <2>4, QuietOrderly
<1> QED BY <1>1, <1>2, <1>3, <1>4, <1>5 DEF Base, Data

\* The frame of an edit that has read the listing and is to write it back
Editing(f, listing) == [f EXCEPT !.at = "set", !.listing = Edited(listing, f.old, f.new)]

\* The cached listing is read: there is none, an entry is overwritten in place, or
\* the new listing is worked out.
LEMMA EditGetIs ==
    ASSUME Base, NEW p \in Proc, stack[p] # <<>>, EditGet(p)
    PROVE  LET f == Top(p)
               d == f.path
           IN
           /\ Stacks' /\ ListFlights' /\ MkdirFlights'
           /\ \A q \in Proc \ {p} : stack'[q] = stack[q]
           /\ UNCHANGED <<disk, listG, mkdirG, left>>
           /\ At(p, "edit", "start") /\ d \in Dir
           /\ \/ cache[d] = NoListing /\ cache' = cache /\ stack'[p] = Tail(stack[p])
              \/ /\ cache[d] # NoListing /\ f.old = NoName
                 /\ cache' = [cache EXCEPT ![d] = (cache[d] \ Named(cache[d], f.new)) \cup {f.new}]
                 /\ ListingOk(d, cache'[d]) /\ stack'[p] = Tail(stack[p])
              \/ /\ cache[d] # NoListing /\ cache' = cache
                 /\ f.old = NoName => Named(cache[d], f.new) = {}
                 /\ Range(stack'[p]) = {Editing(f, cache[d])} \cup Range(Tail(stack[p]))
<1> DEFINE f == Top(p)
           d == f.path
           s == stack[p]
<1>1. At(p, "edit", "start") /\ UNCHANGED <<disk, listG, mkdirG, left>> BY DEF EditGet
<1>2. /\ s \in Seq(FrameSet) /\ GoodStack(s) /\ f = Head(s) /\ f \in EditFrames /\ f.fn = "edit"
      /\ f \in FrameSet /\ f.at = "start"
      /\ d \in Dir /\ f.old \in Entries \cup {NoName} /\ f.new \in Entries \cup {NoName}
      /\ EditFit(f) /\ cache \in [Dir -> (SUBSET Entries) \cup {NoListing}]
      /\ cache[d] # NoListing => ListingOk(d, cache[d])
      /\ Returns(p, Done) => Orderly(p) /\ stack'[p] = Tail(s)
  BY <1>1, EditHas
<1>3. ASSUME Returns(p, Done)
      PROVE  /\ Stacks' /\ ListFlights' /\ MkdirFlights' /\ stack'[p] = Tail(s)
             /\ \A q \in Proc \ {p} : stack'[q] = stack[q]
  BY <1>2, <1>3 DEF Orderly, Returns, Return
<1>4. CASE cache[d] = NoListing
  BY <1>1, <1>2, <1>3, <1>4 DEF EditGet
<1>5. CASE cache[d] # NoListing /\ f.old = NoName /\ Named(cache[d], f.new) # {}
  <2>1. /\ cache' = [cache EXCEPT ![d] = (cache[d] \ Named(cache[d], f.new)) \cup {f.new}]
        /\ Returns(p, Done)
    BY <1>2, <1>5 DEF EditGet
  <2>2. ListingOk(d, cache'[d]) BY <1>2, <1>5, <2>1, EditedOk DEF EditFit
  <2> QED BY <1>1, <1>2, <1>3, <1>5, <2>1, <2>2
<1>6. CASE cache[d] # NoListing /\ ~(f.old = NoName /\ Named(cache[d], f.new) # {})
  <2> DEFINE g == Editing(f, cache[d])
             t == <<g>> \o Tail(s)
  <2>1. stack' = [stack EXCEPT ![p] = <<g>> \o Tail(@)] /\ ret' = ret /\ cache' = cache
    BY <1>6 DEF EditGet, Replace, Editing
  <2>2. ListingOk(d, Edited(cache[d], f.old, f.new)) BY <1>2, <1>6, EditedOk DEF EditFit
  <2>3. /\ g \in EditFrames /\ g.fn = "edit" /\ g.path = d /\ g.at = "set"
        /\ g.old = f.old /\ g.new = f.new /\ g.listing = Edited(cache[d], f.old, f.new)
    BY <1>2, <2>2 DEF EditFrames, Editing, ListingOk
  <2> HIDE DEF g
  <2>4. EditFit(g) BY <1>2, <2>2, <2>3 DEF EditFit
  <2>5. g \in FrameSet /\ SameCall(g, f) BY <1>2, <2>3, <2>4 DEF FrameSet, SameCall, Op
  <2>6. ~Making(g, g.path) /\ ~Making(f, g.path) /\ ~Asks(g) BY <1>2, <2>3 DEF Making, Asks, Op
  <2>7. MakesAlone(g, s) BY <2>6 DEF MakesAlone
  <2>8. ret[p] \in Answer \cup {Done} /\ ret' = [ret EXCEPT ![p] = ret[p]]
    BY <2>1 DEF Base, Stacks
  <2>9. Turn(p, t) BY <1>1, <1>2, <2>1, <2>5, <2>6, <2>7, <2>8, TurnGoes DEF Base
  <2>10. t # <<>> /\ Head(t) = g /\ Range(t) = {g} \cup Range(Tail(s)) /\ SameMaking(s, t)
    BY <1>1, <1>2, <2>5, <2>6, <2>7, GoStack
  <2> HIDE DEF t
  <2>11. Idle(t) BY <2>3, <2>10 DEF Idle
  <2>12. ~(f.fn = "list" /\ f.at \in Flying) BY <1>2
  <2>13. /\ Stacks' /\ ListFlights' /\ MkdirFlights'
         /\ stack'[p] = t /\ \A q \in Proc \ {p} : stack'[q] = stack[q]
    BY <1>1, <2>9, <2>10, <2>11, <2>12, TurnOrderly
  <2> QED BY <1>1, <1>2, <1>6, <2>1, <2>10, <2>13 DEF g
<1> QED BY <1>4, <1>5, <1>6

\* The new listing is written back.
LEMMA EditSetIs ==
    ASSUME Base, NEW p \in Proc, stack[p] # <<>>, EditSet(p)
    PROVE  LET f == Top(p)
               d == f.path
           IN
           /\ Stacks' /\ ListFlights' /\ MkdirFlights'
           /\ \A q \in Proc \ {p} : stack'[q] = stack[q]
           /\ UNCHANGED <<disk, listG, mkdirG, left>>
           /\ At(p, "edit", "set") /\ d \in Dir /\ ListingOk(d, f.listing)
           /\ cache' = [cache EXCEPT ![d] = f.listing] /\ stack'[p] = Tail(stack[p])
<1>1. /\ At(p, "edit", "set") /\ UNCHANGED <<disk, listG, mkdirG, left>> /\ Returns(p, Done)
      /\ cache' = [cache EXCEPT ![Top(p).path] = Top(p).listing]
  BY DEF EditSet
<1>2. /\ Top(p).path \in Dir /\ ListingOk(Top(p).path, Top(p).listing)
      /\ Orderly(p) /\ stack'[p] = Tail(stack[p])
  BY <1>1, EditHas
<1>3. \A q \in Proc \ {p} : stack'[q] = stack[q] BY <1>1 DEF Returns, Return
<1> QED BY <1>1, <1>2, <1>3 DEF Orderly

\* What is known of a frame that clears a listing, and of the next step of it
LEMMA ClearHas ==
    ASSUME Base, NEW p \in Proc, NEW at, At(p, "clear", at)
    PROVE  LET f == Top(p) IN
           /\ stack[p] # <<>> /\ stack[p] \in Seq(FrameSet) /\ GoodStack(stack[p])
           /\ f = Head(stack[p]) /\ f \in ClearFrames /\ f \in FrameSet
           /\ f.fn = "clear" /\ f.at = at /\ f.path \in Dir /\ f.todo \subseteq Name
           /\ \A name \in f.todo : Child(f.path, name) \in Dir
           /\ f.changed = {}
           /\ \A todo \in SUBSET Name :
                 (\A name \in todo : Child(f.path, name) \in Dir) =>
                 LET g == [f EXCEPT !.at = "kids", !.todo = todo] IN
                 /\ g \in FrameSet /\ g.fn = "clear" /\ g.path = f.path /\ g.changed = {}
                 /\ SameCall(g, f) /\ MakesAlone(g, stack[p]) /\ ~Making(g, g.path)
                 /\ ~Making(f, g.path) /\ ~Asks(g)
<1> DEFINE f == Top(p)
<1>1. stack[p] # <<>> /\ f.fn = "clear" /\ f.at = at BY DEF At
<1>2. stack[p] \in Seq(FrameSet) /\ GoodStack(stack[p]) /\ f = Head(stack[p]) /\ f \in FrameSet
  BY <1>1, TopHas DEF Base
<1>3. f \in ClearFrames /\ \A name \in f.todo : Child(f.path, name) \in Dir
  BY <1>1, <1>2, FrameHas
<1>4. f.path \in Dir /\ f.todo \subseteq Name /\ f.changed = {} BY <1>3 DEF ClearFrames
<1>5. ASSUME NEW todo \in SUBSET Name, \A name \in todo : Child(f.path, name) \in Dir
      PROVE  LET g == [f EXCEPT !.at = "kids", !.todo = todo] IN
             /\ g \in FrameSet /\ g.fn = "clear" /\ g.path = f.path /\ g.changed = {}
             /\ SameCall(g, f) /\ MakesAlone(g, stack[p]) /\ ~Making(g, g.path)
             /\ ~Making(f, g.path) /\ ~Asks(g)
  <2> DEFINE g == [f EXCEPT !.at = "kids", !.todo = todo]
  <2>1. /\ g \in ClearFrames /\ g.fn = "clear" /\ g.path = f.path /\ g.changed = {}
        /\ g.todo = todo /\ g.at = "kids"
    BY <1>3, <1>5 DEF ClearFrames
  <2> HIDE DEF g
  <2>2. g \in FrameSet /\ SameCall(g, f) BY <1>1, <1>5, <2>1 DEF FrameSet, SameCall, Op
  <2>3. ~Making(g, g.path) /\ ~Making(f, g.path) /\ ~Asks(g) BY <1>1, <2>1 DEF Making, Asks, Op
  <2>4. MakesAlone(g, stack[p]) BY <2>3 DEF MakesAlone
  <2> QED BY <2>1, <2>2, <2>3, <2>4 DEF g
<1> QED BY <1>1, <1>2, <1>3, <1>4, <1>5

\* ClearCache has looked at the cached listing.
LEMMA ClearStartIs ==
    ASSUME Base, NEW p \in Proc, stack[p] # <<>>, ClearStart(p)
    PROVE  /\ Stacks' /\ ListFlights' /\ MkdirFlights'
           /\ \A q \in Proc \ {p} : stack'[q] = stack[q]
           /\ UNCHANGED <<disk, cache, listG, mkdirG, left>>
           /\ At(p, "clear", "start")
           /\ \E g : /\ g.fn = "clear" /\ g.path = Top(p).path /\ g.changed = {}
                     /\ Range(stack'[p]) = {g} \cup Range(Tail(stack[p]))
<1> DEFINE f == Top(p)
           d == f.path
           s == stack[p]
           kids == IF cache[d] = NoListing THEN {}
                   ELSE {e.name : e \in {x \in cache[d] : x.kind = "dir"}}
           g == [f EXCEPT !.at = "kids", !.todo = kids]
           t == <<g>> \o Tail(s)
<1>1. At(p, "clear", "start") /\ UNCHANGED <<disk, cache, listG, mkdirG, left>> BY DEF ClearStart
<1>2. /\ s \in Seq(FrameSet) /\ GoodStack(s) /\ f = Head(s) /\ f.fn = "clear" /\ d \in Dir
      /\ \A todo \in SUBSET Name :
            (\A name \in todo : Child(f.path, name) \in Dir) =>
            LET h == [f EXCEPT !.at = "kids", !.todo = todo] IN
            /\ h \in FrameSet /\ h.fn = "clear" /\ h.path = f.path /\ h.changed = {}
            /\ SameCall(h, f) /\ MakesAlone(h, stack[p]) /\ ~Making(h, h.path)
            /\ ~Making(f, h.path) /\ ~Asks(h)
  BY <1>1, ClearHas
<1>3. kids \in SUBSET Name /\ \A name \in kids : Child(f.path, name) \in Dir
  <2>1. cache[d] # NoListing => ListingOk(d, cache[d]) BY <1>2 DEF Base, Data
  <2> QED BY <2>1 DEF ListingOk, Entries
<1>4. stack' = [stack EXCEPT ![p] = <<g>> \o Tail(@)] /\ ret' = ret BY DEF ClearStart, Replace
<1> HIDE DEF kids
<1>5. /\ g \in FrameSet /\ g.fn = "clear" /\ g.path = f.path /\ g.changed = {}
      /\ SameCall(g, f) /\ MakesAlone(g, s) /\ ~Making(g, g.path)
      /\ ~Making(f, g.path) /\ ~Asks(g)
  BY <1>2, <1>3
<1> HIDE DEF g
<1>6. ret[p] \in Answer \cup {Done} /\ ret' = [ret EXCEPT ![p] = ret[p]]
  BY <1>4 DEF Base, Stacks
<1>7. Turn(p, t) BY <1>2, <1>4, <1>5, <1>6, TurnGoes DEF Base
<1>8. t # <<>> /\ Head(t) = g /\ Range(t) = {g} \cup Range(Tail(s)) /\ SameMaking(s, t)
  BY ZenonT(40), <1>2, <1>5, GoStack
<1> HIDE DEF t
<1>9. Idle(t) BY <1>5, <1>8 DEF Idle
<1>10. ~(f.fn = "list" /\ f.at \in Flying) BY <1>2
<1>11. /\ Stacks' /\ ListFlights' /\ MkdirFlights'
       /\ stack'[p] = t /\ \A q \in Proc \ {p} : stack'[q] = stack[q]
  BY <1>1, <1>7, <1>8, <1>9, <1>10, TurnOrderly
<1> QED BY <1>1, <1>5, <1>8, <1>11

\* ClearCache goes on with a child, or drops the listing when it is done with them.
LEMMA ClearKidsIs ==
    ASSUME Base, NEW p \in Proc, stack[p] # <<>>, ClearKids(p)
    PROVE  LET d == Top(p).path IN
           /\ Stacks' /\ ListFlights' /\ MkdirFlights'
           /\ \A q \in Proc \ {p} : stack'[q] = stack[q]
           /\ UNCHANGED <<disk, listG, mkdirG, left>>
           /\ At(p, "clear", "kids") /\ d \in Dir
           /\ \/ /\ cache' = [cache EXCEPT ![d] = NoListing]
                 /\ stack'[p] = Tail(stack[p])
              \/ /\ cache' = cache
                 /\ \E c, g : /\ c.fn = "clear" /\ c.changed = {}
                              /\ g.fn = "clear" /\ g.path = d /\ g.changed = {}
                              /\ Range(stack'[p]) = {c, g} \cup Range(Tail(stack[p]))
<1> DEFINE f == Top(p)
           d == f.path
           s == stack[p]
<1>1. At(p, "clear", "kids") /\ UNCHANGED <<disk, listG, mkdirG, left>> BY DEF ClearKids
<1>2. /\ s \in Seq(FrameSet) /\ GoodStack(s) /\ f = Head(s) /\ f \in FrameSet
      /\ f.fn = "clear" /\ f.at = "kids" /\ d \in Dir /\ f.todo \subseteq Name
      /\ f \in ClearFrames
      /\ \A name \in f.todo : Child(d, name) \in Dir
      /\ \A todo \in SUBSET Name :
            (\A name \in todo : Child(f.path, name) \in Dir) =>
            LET h == [f EXCEPT !.at = "kids", !.todo = todo] IN
            /\ h \in FrameSet /\ h.fn = "clear" /\ h.path = f.path /\ h.changed = {}
            /\ SameCall(h, f) /\ MakesAlone(h, stack[p]) /\ ~Making(h, h.path)
            /\ ~Making(f, h.path) /\ ~Asks(h)
  BY <1>1, ClearHas
<1>3. ~(f.fn = "list" /\ f.at \in Flying) /\ ~Making(f, f.path) BY <1>2 DEF Making
<1>4. CASE f.todo = {}
  <2>1. cache' = [cache EXCEPT ![d] = NoListing] /\ Returns(p, Done) BY <1>4 DEF ClearKids
  <2>2. Fits(f, Done) BY <1>2, EasyFits
  <2>3. Quiet(p) BY <1>3, <2>1, <2>2, TurnReturns DEF Base
  <2>4. stack'[p] = Tail(s) /\ \A q \in Proc \ {p} : stack'[q] = stack[q]
    BY <1>2, <2>1 DEF Returns, Return, Base, Stacks
  <2>5. Orderly(p) BY <1>1, <1>3, <2>3, QuietOrderly
  <2> QED BY <1>1, <1>2, <2>1, <2>4, <2>5 DEF Orderly
<1>5. CASE f.todo # {}
  <2>1. PICK name \in f.todo :
           stack' = [stack EXCEPT ![p] = <<ClearFrame(Child(d, name)),
                                           [f EXCEPT !.todo = @ \ {name}]>> \o Tail(@)]
    BY <1>5 DEF ClearKids, Replace
  <2> DEFINE c == ClearFrame(Child(d, name))
             g == [f EXCEPT !.at = "kids", !.todo = f.todo \ {name}]
             t == <<c, g>> \o Tail(s)
  <2>2. stack' = [stack EXCEPT ![p] = <<c, g>> \o Tail(@)] /\ ret' = ret /\ cache' = cache
    <3>1. g = [f EXCEPT !.todo = @ \ {name}] BY <1>2 DEF ClearFrames
    <3> QED BY <1>5, <2>1, <3>1 DEF ClearKids
  <2>3. /\ g \in FrameSet /\ g.fn = "clear" /\ g.path = f.path /\ g.changed = {}
        /\ SameCall(g, f) /\ MakesAlone(g, s) /\ ~Making(g, g.path)
        /\ ~Making(f, g.path) /\ ~Asks(g)
    <3> DEFINE rest == f.todo \ {name}
    <3>1. rest \in SUBSET Name /\ \A n \in rest : Child(f.path, n) \in Dir BY <1>2
    <3> HIDE DEF rest
    <3>2. LET h == [f EXCEPT !.at = "kids", !.todo = rest] IN
          /\ h \in FrameSet /\ h.fn = "clear" /\ h.path = f.path /\ h.changed = {}
          /\ SameCall(h, f) /\ MakesAlone(h, stack[p]) /\ ~Making(h, h.path)
          /\ ~Making(f, h.path) /\ ~Asks(h)
      BY <1>2, <3>1
    <3> QED BY <3>2 DEF rest
  <2>4. /\ c.fn = "clear" /\ c.changed = {} /\ c.at = "start" /\ c \in FrameSet
    <3>1. c \in ClearFrames /\ c.todo = {} /\ c.fn = "clear" /\ c.changed = {} /\ c.at = "start"
      BY <1>2 DEF ClearFrame, ClearFrames
    <3> QED BY <3>1 DEF FrameSet
  <2> HIDE DEF c, g
  <2>5. UnderUpkeep(g) /\ IsUpkeep(c) /\ Above(c, g) BY <2>3, <2>4 DEF UnderUpkeep, IsUpkeep, Above
  <2>6. Turn(p, t) BY <1>2, <2>2, <2>3, <2>4, <2>5, TurnCalls DEF Base
  <2>7. t # <<>> /\ Head(t) = c /\ Range(t) = {c, g} \cup Range(Tail(s)) /\ SameMaking(s, t)
    BY <1>2, <2>3, <2>4, <2>5, CallStack
  <2> HIDE DEF t
  <2>8. Idle(t) BY <2>4, <2>7 DEF Idle
  <2>9. /\ Stacks' /\ ListFlights' /\ MkdirFlights'
        /\ stack'[p] = t /\ \A q \in Proc \ {p} : stack'[q] = stack[q]
    BY <1>1, <1>3, <2>6, <2>7, <2>8, TurnOrderly
  <2> QED BY ZenonT(40), <1>1, <1>2, <2>2, <2>3, <2>4, <2>7, <2>9
<1> QED BY <1>4, <1>5

-----------------------------------------------------------------------------
(* The kinds of step *)

\* A step that leaves disk, cache and listings alone and keeps no cache
Plain(p) ==
    /\ Orderly(p) /\ Top(p).fn \in Op \cup {"list"}
    /\ UNCHANGED <<disk, cache, listG, left>> /\ mkdirG' \subseteq Path

\* Quiet steps are plain.
LEMMA QuietPlain ==
    ASSUME Base, NEW p \in Proc, stack[p] # <<>>, Quiet(p),
           Top(p).fn \in Op \cup {"list"}, Top(p).fn = "list" => Top(p).at \notin Flying,
           UNCHANGED <<disk, cache, listG, mkdirG, left>>
    PROVE  Plain(p)
<1>1. ~(Top(p).fn = "list" /\ Top(p).at \in Flying) OBVIOUS
<1>2. mkdirG' \subseteq Path BY DEF Base, Data
<1>3. listG' = listG /\ mkdirG' = mkdirG OBVIOUS
<1>4. Orderly(p) BY <1>1, <1>3, QuietOrderly
<1> QED BY <1>2, <1>4 DEF Plain

\* The last step of MakeDir
LEMMA MkdirEndOrderly ==
    ASSUME Base, NEW p \in Proc, stack[p] # <<>>, MkdirEnd(p)
    PROVE  Orderly(p) /\ Top(p).fn \in Op /\ mkdirG' \subseteq Path
<1>1. Top(p).fn = "mkdir" /\ Top(p).at = "end" /\ MkdirClose(p, Done) /\ listG' = listG
  BY DEF MkdirEnd, At
<1>2. Making(Top(p), Top(p).path) BY <1>1 DEF Making
<1> QED BY <1>1, <1>2, MkdirCloseOrderly DEF Op

\* Quiet steps of operations are.
LEMMA OpQuietPlain ==
    ASSUME Base, NEW p \in Proc, stack[p] # <<>>, Quiet(p), Top(p).fn \in Op,
           UNCHANGED <<disk, cache, listG, mkdirG, left>>
    PROVE  Plain(p)
BY QuietPlain DEF Op

\* Most steps are plain: all between the calls of the driver, but those of List at
\* its flight.
LEMMA PlainSteps ==
    ASSUME Base, NEW p \in Proc, stack[p] # <<>>,
           \/ ListStart(p) \/ MkdirStart(p) \/ MkdirCheck(p) \/ MkdirParent(p) \/ MkdirEnd(p)
           \/ OpStart(p) \/ OpEnd(p) \/ MoveSrc(p)
           \/ PutOld(p) \/ PutCleared(p) \/ PutURLOld(p) \/ PutParent(p)
           \/ PutDone(p) \/ PutEnd(p)
    PROVE  Plain(p)
<1>1. CASE ListStart(p)
  <2>1. UNCHANGED <<disk, cache, listG, mkdirG, left>> BY <1>1 DEF ListStart
  <2>2. Quiet(p) /\ Top(p).fn = "list" /\ Top(p).at \notin Flying
    BY <1>1, ListStartQuiet DEF Base
  <2> QED BY <2>1, <2>2, QuietPlain
<1>2. CASE MkdirStart(p)
  <2>1. UNCHANGED <<disk, cache, listG, left>> BY <1>2 DEF MkdirStart
  <2> QED BY <1>2, <2>1, MkdirStartOrderly DEF Plain
<1>3. CASE MkdirCheck(p)
  <2>1. UNCHANGED <<disk, cache, listG, left>> BY <1>3 DEF MkdirCheck
  <2> QED BY <1>3, <2>1, MkdirCheckOrderly DEF Plain
<1>4. CASE MkdirParent(p)
  <2>1. UNCHANGED <<disk, cache, listG, left>> BY <1>4 DEF MkdirParent
  <2> QED BY <1>4, <2>1, MkdirParentOrderly DEF Plain
<1>5. CASE MkdirEnd(p)
  <2>1. UNCHANGED <<disk, cache, listG, left>> BY <1>5 DEF MkdirEnd
  <2> QED BY <1>5, <2>1, MkdirEndOrderly DEF Plain
<1>6. CASE OpStart(p)
  <2>1. UNCHANGED <<disk, cache, listG, mkdirG, left>> BY <1>6 DEF OpStart
  <2>2. Quiet(p) /\ Top(p).fn \in Op BY <1>6, OpStartQuiet DEF Base
  <2> QED BY <2>1, <2>2, OpQuietPlain
<1>7. CASE OpEnd(p)
  <2>1. UNCHANGED <<disk, cache, listG, mkdirG, left>> BY <1>7 DEF OpEnd
  <2>2. Quiet(p) /\ Top(p).fn \in Op BY <1>7, OpEndQuiet DEF Base
  <2> QED BY <2>1, <2>2, OpQuietPlain
<1>8. CASE MoveSrc(p)
  <2>1. UNCHANGED <<disk, cache, listG, mkdirG, left>> BY <1>8 DEF MoveSrc
  <2>2. Quiet(p) /\ Top(p).fn \in Op BY <1>8, MoveSrcQuiet DEF Base
  <2> QED BY <2>1, <2>2, OpQuietPlain
<1>9. CASE PutOld(p)
  <2>1. UNCHANGED <<disk, cache, listG, mkdirG, left>> BY <1>9 DEF PutOld
  <2>2. Quiet(p) /\ Top(p).fn \in Op BY <1>9, PutOldQuiet DEF Base
  <2> QED BY <2>1, <2>2, OpQuietPlain
<1>10. CASE PutCleared(p) \/ PutURLOld(p)
  <2>1. UNCHANGED <<disk, cache, listG, mkdirG, left>> BY <1>10 DEF PutCleared, PutURLOld
  <2>2. Quiet(p) /\ Top(p).fn \in Op BY <1>10, PutClearedQuiet DEF Base
  <2> QED BY <2>1, <2>2, OpQuietPlain
<1>11. CASE PutParent(p)
  <2>1. UNCHANGED <<disk, cache, listG, mkdirG, left>> BY <1>11 DEF PutParent
  <2>2. Quiet(p) /\ Top(p).fn \in Op BY <1>11, PutParentQuiet DEF Base
  <2> QED BY <2>1, <2>2, OpQuietPlain
<1>12. CASE PutDone(p)
  <2>1. UNCHANGED <<disk, cache, listG, mkdirG, left>> BY <1>12 DEF PutDone
  <2>2. Quiet(p) /\ Top(p).fn \in Op BY <1>12, PutDoneQuiet DEF Base
  <2> QED BY <2>1, <2>2, OpQuietPlain
<1>13. CASE PutEnd(p)
  <2>1. UNCHANGED <<disk, cache, listG, mkdirG, left>> BY <1>13 DEF PutEnd
  <2>2. Quiet(p) /\ Top(p).fn \in Op BY <1>13, PutEndQuiet DEF Base
  <2> QED BY <2>1, <2>2, OpQuietPlain
<1> QED BY <1>1, <1>2, <1>3, <1>4, <1>5, <1>6, <1>7, <1>8, <1>9, <1>10, <1>11, <1>12, <1>13

\* A step in which the driver changed the tree
DrivesTree(p, frame, upkeep) ==
    /\ Top(p).fn \in Op /\ Top(p).at = "got"
    /\ IsTree(disk') /\ Drives(p, frame, upkeep)

\* The steps in which the driver is to change the tree: it does, or the step is
\* plain.
LEMMA DriverSteps ==
    ASSUME Base, NEW p \in Proc, stack[p] # <<>>,
           MkdirDrive(p) \/ RemoveDrive(p) \/ RenameDrive(p) \/ MoveDrive(p) \/ PutDrive(p)
    PROVE  Plain(p) \/ \E frame, upkeep : DrivesTree(p, frame, upkeep)
<1>1. Stacks /\ Data BY DEF Base
<1>2. CASE MkdirDrive(p)
  <2>1. Top(p).fn = "mkdir" /\ Top(p).at = "got" BY <1>1, <1>2, MkdirDriven
  <2>2. CASE MkdirClose(p, Failed) /\ UNCHANGED <<disk, cache, listG, left>>
    <3>1. Making(Top(p), Top(p).path) BY <2>1 DEF Making
    <3> QED BY <2>1, <2>2, <3>1, MkdirCloseOrderly DEF Plain, Op
  <2> QED BY <1>1, <1>2, <2>1, <2>2, MkdirDriven DEF DrivesTree, Op
<1>3. CASE RemoveDrive(p)
  <2>1. Top(p).fn \in Op /\ Top(p).at = "got" BY <1>1, <1>3, RemoveDriven DEF Op
  <2>2. ASSUME Quiet(p), UNCHANGED <<disk, cache, listG, mkdirG, left>> PROVE Plain(p)
    BY <2>1, <2>2, OpQuietPlain
  <2> QED BY <1>1, <1>3, <2>1, <2>2, RemoveDriven DEF DrivesTree
<1>4. CASE RenameDrive(p)
  <2>1. Top(p).fn \in Op /\ Top(p).at = "got" BY <1>1, <1>4, RenameDriven DEF Op
  <2>2. ASSUME Quiet(p), UNCHANGED <<disk, cache, listG, mkdirG, left>> PROVE Plain(p)
    BY <2>1, <2>2, OpQuietPlain
  <2> QED BY <1>1, <1>4, <2>1, <2>2, RenameDriven DEF DrivesTree
<1>5. CASE MoveDrive(p)
  <2>1. Top(p).fn \in Op /\ Top(p).at = "got" BY <1>1, <1>5, MoveDriven DEF Op
  <2>2. ASSUME Quiet(p), UNCHANGED <<disk, cache, listG, mkdirG, left>> PROVE Plain(p)
    BY <2>1, <2>2, OpQuietPlain
  <2> QED BY <1>1, <1>5, <2>1, <2>2, MoveDriven DEF DrivesTree
<1>6. CASE PutDrive(p)
  <2>1. Top(p).fn \in Op /\ Top(p).at = "got" BY <1>1, <1>6, PutDriven DEF Op
  <2>2. ASSUME Quiet(p), UNCHANGED <<disk, cache, listG, mkdirG, left>> PROVE Plain(p)
    BY <2>1, <2>2, OpQuietPlain
  <2> QED BY <1>1, <1>6, <2>1, <2>2, PutDriven DEF DrivesTree
<1> QED BY <1>2, <1>3, <1>4, <1>5, <1>6

-----------------------------------------------------------------------------
(* The invariant is inductive. *)

\* The history keeps its types.
LEMMA ObserveTypes ==
    ASSUME NEW neglected, Observe(neglected)
    PROVE  race' \in [Dir -> BOOLEAN] /\ suspect' \subseteq Dir
BY DEF Observe

\* The flights of listG keep their types when the one of dir changes.
LEMMA FlightsTyped ==
    ASSUME Data, NEW dir \in Dir, NEW flight \in FlightRecord,
           listG' = [listG EXCEPT ![dir] = flight], ListingOk(dir, flight.listing),
           flight.stage = "none" => flight = NoFlight
    PROVE  /\ listG' \in [Dir -> FlightRecord]
           /\ \A d \in Dir : ListingOk(d, listG'[d].listing)
           /\ \A d \in Dir : listG'[d].stage = "none" => listG'[d] = NoFlight
<1>1. /\ listG \in [Dir -> FlightRecord]
      /\ \A d \in Dir : ListingOk(d, listG[d].listing)
      /\ \A d \in Dir : listG[d].stage = "none" => listG[d] = NoFlight
  BY DEF Data
<1>2. listG' \in [Dir -> FlightRecord] BY <1>1
<1>3. listG'[dir] = flight /\ \A d \in Dir \ {dir} : listG'[d] = listG[d] BY <1>1
<1> QED BY <1>1, <1>2, <1>3

\* So does the cache when the listing of one directory changes.
LEMMA CacheTyped ==
    ASSUME Data, NEW dir \in Dir, NEW listing, listing # NoListing => ListingOk(dir, listing),
           cache' = [cache EXCEPT ![dir] = listing]
    PROVE  /\ cache' \in [Dir -> (SUBSET Entries) \cup {NoListing}]
           /\ \A d \in Dir : cache'[d] # NoListing => ListingOk(d, cache'[d])
<1>1. /\ cache \in [Dir -> (SUBSET Entries) \cup {NoListing}]
      /\ \A d \in Dir : cache[d] # NoListing => ListingOk(d, cache[d])
  BY DEF Data
<1>2. listing \in (SUBSET Entries) \cup {NoListing}
  <2>1. CASE listing = NoListing BY <2>1
  <2>2. CASE listing # NoListing
    <3>1. listing \subseteq Entries BY <2>2 DEF ListingOk
    <3> QED BY <3>1
  <2> QED BY <2>1, <2>2
<1>3. cache' \in [Dir -> (SUBSET Entries) \cup {NoListing}] BY <1>1, <1>2
<1>4. cache'[dir] = listing /\ \A d \in Dir \ {dir} : cache'[d] = cache[d] BY <1>1
<1> QED BY <1>1, <1>3, <1>4

\* A plain step keeps the invariant.
LEMMA PlainBase ==
    ASSUME Base, NEW p \in Proc, Plain(p), NEW neglected, Observe(neglected)
    PROVE  Base'
<1>1. race' \in [Dir -> BOOLEAN] /\ suspect' \subseteq Dir BY ObserveTypes
<1>2. Data' BY <1>1 DEF Base, Data, Plain
<1> QED BY <1>2 DEF Base, Plain, Orderly

\* The steps of List at its flight keep it.
LEMMA ListBase ==
    ASSUME Base, NEW p \in Proc, stack[p] # <<>>,
           ListDo(p) \/ ListRead(p) \/ ListStore(p) \/ ListClose(p),
           NEW neglected, Observe(neglected)
    PROVE  Base' /\ Orderly(p) /\ Top(p).fn = "list"
<1> DEFINE dir == Top(p).path
<1>1. race' \in [Dir -> BOOLEAN] /\ suspect' \subseteq Dir BY ObserveTypes
<1>2. Data BY DEF Base
<1>3. CASE ListDo(p)
  <2>1. /\ Orderly(p) /\ Top(p).fn = "list" /\ dir \in Dir
        /\ \/ listG' = listG
           \/ /\ listG[dir] = NoFlight
              /\ listG' = [listG EXCEPT ![dir] = [stage |-> "open", listing |-> {}]]
    BY <1>3, ListDoOrderly
  <2>2. UNCHANGED <<disk, cache, mkdirG, left>> BY <1>3 DEF ListDo
  <2>3. CASE listG' = listG
    <3>1. Data' BY <1>1, <1>2, <2>2, <2>3 DEF Data
    <3> QED BY <2>1, <3>1 DEF Base, Orderly
  <2>4. CASE listG' = [listG EXCEPT ![dir] = [stage |-> "open", listing |-> {}]]
    <3> DEFINE flight == [stage |-> "open", listing |-> {}]
    <3>1. flight \in FlightRecord /\ ListingOk(dir, flight.listing) /\ flight.stage # "none"
      BY DEF FlightRecord, ListingOk
    <3> HIDE DEF flight
    <3>2. listG' = [listG EXCEPT ![dir] = flight] BY <2>4 DEF flight
    <3>3. /\ listG' \in [Dir -> FlightRecord]
          /\ \A d \in Dir : ListingOk(d, listG'[d].listing)
          /\ \A d \in Dir : listG'[d].stage = "none" => listG'[d] = NoFlight
      BY <1>2, <2>1, <3>1, <3>2, FlightsTyped
    <3>4. Data' BY <1>1, <1>2, <2>2, <3>3 DEF Data
    <3> QED BY <2>1, <3>4 DEF Base, Orderly
  <2> QED BY <2>1, <2>3, <2>4
<1>4. CASE ListRead(p)
  <2>1. Orderly(p) /\ Top(p).fn = "list" /\ dir \in Dir /\ ListingOk(dir, listG'[dir].listing)
    BY <1>4, ListReadOrderly
  <2>2. PICK flight \in FlightRecord :
           /\ listG' = [listG EXCEPT ![dir] = flight]
           /\ flight.stage \in {"read", "failed"}
    BY <1>4, ListReadOrderly
  <2>3. UNCHANGED <<disk, cache, mkdirG, left>> BY <1>4 DEF ListRead
  <2>4. listG'[dir] = flight BY <1>2, <2>1, <2>2 DEF Data
  <2>5. /\ listG' \in [Dir -> FlightRecord]
        /\ \A d \in Dir : ListingOk(d, listG'[d].listing)
        /\ \A d \in Dir : listG'[d].stage = "none" => listG'[d] = NoFlight
    BY <1>2, <2>1, <2>2, <2>4, FlightsTyped
  <2>6. Data' BY <1>1, <1>2, <2>3, <2>5 DEF Data
  <2> QED BY <2>1, <2>6 DEF Base, Orderly
<1>5. CASE ListStore(p)
  <2>1. /\ Orderly(p) /\ Top(p).fn = "list" /\ dir \in Dir
        /\ \A d \in Dir \ {dir} : listG'[d] = listG[d]
        /\ listG'[dir] \in FlightRecord /\ listG'[dir].stage = "stored"
        /\ listG'[dir].listing = listG[dir].listing
        /\ listG' = [listG EXCEPT ![dir].stage = "stored"]
        /\ cache' = [cache EXCEPT ![dir] =
                        IF listG[dir].listing = {} THEN NoListing ELSE listG[dir].listing]
    BY <1>5, ListStoreOrderly
  <2>2. UNCHANGED <<disk, mkdirG, left>> BY <1>5 DEF ListStore
  <2>3. ListingOk(dir, listG[dir].listing) BY <1>2, <2>1 DEF Data
  <2>4. /\ cache' \in [Dir -> (SUBSET Entries) \cup {NoListing}]
        /\ \A d \in Dir : cache'[d] # NoListing => ListingOk(d, cache'[d])
    BY <1>2, <2>1, <2>3, CacheTyped
  <2>5. /\ listG' \in [Dir -> FlightRecord]
        /\ \A d \in Dir : ListingOk(d, listG'[d].listing)
        /\ \A d \in Dir : listG'[d].stage = "none" => listG'[d] = NoFlight
    <3>1. \A d \in Dir \ {dir} : /\ listG'[d] \in FlightRecord /\ ListingOk(d, listG'[d].listing)
                                 /\ listG'[d].stage = "none" => listG'[d] = NoFlight
      BY <1>2, <2>1 DEF Data
    <3>2. \A d \in Dir : /\ listG'[d] \in FlightRecord /\ ListingOk(d, listG'[d].listing)
                         /\ listG'[d].stage = "none" => listG'[d] = NoFlight
      BY <2>1, <2>3, <3>1
    <3>3. listG' = [d \in Dir |-> listG'[d]] BY <1>2, <2>1 DEF Data
    <3> QED BY <3>2, <3>3
  <2>6. Data' BY <1>1, <1>2, <2>2, <2>4, <2>5 DEF Data
  <2> QED BY <2>1, <2>6 DEF Base, Orderly
<1>6. CASE ListClose(p)
  <2>1. /\ Orderly(p) /\ Top(p).fn = "list" /\ dir \in Dir
        /\ listG' = [listG EXCEPT ![dir] = NoFlight]
    BY <1>6, ListCloseOrderly
  <2>2. UNCHANGED <<disk, cache, mkdirG, left>> BY <1>6 DEF ListClose
  <2>3. NoFlight \in FlightRecord /\ ListingOk(dir, NoFlight.listing)
    BY DEF NoFlight, FlightRecord, ListingOk
  <2>4. /\ listG' \in [Dir -> FlightRecord]
        /\ \A d \in Dir : ListingOk(d, listG'[d].listing)
        /\ \A d \in Dir : listG'[d].stage = "none" => listG'[d] = NoFlight
    BY <1>2, <2>1, <2>3, FlightsTyped
  <2>5. Data' BY <1>1, <1>2, <2>2, <2>4 DEF Data
  <2> QED BY <2>1, <2>5 DEF Base, Orderly
<1> QED BY <1>3, <1>4, <1>5, <1>6

\* A change of the tree keeps it.
LEMMA DrivesBase ==
    ASSUME Base, NEW p \in Proc, stack[p] # <<>>, NEW frame, NEW upkeep,
           DrivesTree(p, frame, upkeep), NEW neglected, Observe(neglected)
    PROVE  Base'
<1>1. race' \in [Dir -> BOOLEAN] /\ suspect' \subseteq Dir BY ObserveTypes
<1>2. /\ Stacks' /\ ListFlights' /\ MkdirFlights'
      /\ UNCHANGED <<cache, listG, mkdirG, left>> /\ IsTree(disk')
  BY DrivesOrderly DEF DrivesTree
<1>3. Data' BY <1>1, <1>2 DEF Base, Data
<1> QED BY <1>2, <1>3 DEF Base

\* So does the upkeep of the cache.
LEMMA UpkeepBase ==
    ASSUME Base, NEW p \in Proc, stack[p] # <<>>,
           EditGet(p) \/ EditSet(p) \/ ClearStart(p) \/ ClearKids(p),
           NEW neglected, Observe(neglected)
    PROVE  Base'
<1> DEFINE d == Top(p).path
<1>1. race' \in [Dir -> BOOLEAN] /\ suspect' \subseteq Dir BY ObserveTypes
<1>2. Data BY DEF Base
<1>3. ASSUME Stacks', ListFlights', MkdirFlights', UNCHANGED <<disk, listG, mkdirG, left>>,
             \/ cache' = cache
             \/ d \in Dir /\ \E listing : /\ cache' = [cache EXCEPT ![d] = listing]
                                          /\ listing # NoListing => ListingOk(d, listing)
      PROVE  Base'
  <2>1. /\ cache' \in [Dir -> (SUBSET Entries) \cup {NoListing}]
        /\ \A e \in Dir : cache'[e] # NoListing => ListingOk(e, cache'[e])
    <3>1. CASE cache' = cache BY <1>2, <3>1 DEF Data
    <3>2. CASE cache' # cache
      <4> HIDE DEF d
      <4> QED BY <1>2, <1>3, <3>2, CacheTyped
    <3> QED BY <3>1, <3>2
  <2>2. Data' BY <1>1, <1>2, <1>3, <2>1 DEF Data
  <2> QED BY <1>3, <2>2 DEF Base
<1>4. CASE EditGet(p)
  <2>1. cache \in [Dir -> (SUBSET Entries) \cup {NoListing}] BY <1>2 DEF Data
  <2> QED BY <1>3, <1>4, <2>1, EditGetIs
<1>5. CASE EditSet(p) BY <1>3, <1>5, EditSetIs
<1>6. CASE ClearStart(p) BY <1>3, <1>6, ClearStartIs
<1>7. CASE ClearKids(p) BY <1>3, <1>7, ClearKidsIs
<1> QED BY <1>4, <1>5, <1>6, <1>7

\* The kinds of step of a process
LEMMA StepKinds ==
    ASSUME Base, NEW p \in Proc, Step(p)
    PROVE  /\ stack[p] # <<>> /\ Observe(Neglected(p))
           /\ \/ Plain(p)
              \/ ListDo(p) \/ ListRead(p) \/ ListStore(p) \/ ListClose(p)
              \/ \E frame, upkeep : DrivesTree(p, frame, upkeep)
              \/ EditGet(p) \/ EditSet(p) \/ ClearStart(p) \/ ClearKids(p)
<1>1. stack[p] # <<>> /\ Observe(Neglected(p)) BY DEF Step
<1>2. CASE \/ ListStart(p) \/ MkdirStart(p) \/ MkdirCheck(p) \/ MkdirParent(p) \/ MkdirEnd(p)
           \/ OpStart(p) \/ OpEnd(p) \/ MoveSrc(p)
           \/ PutOld(p) \/ PutCleared(p) \/ PutURLOld(p) \/ PutParent(p)
           \/ PutDone(p) \/ PutEnd(p)
  BY <1>1, <1>2, PlainSteps
<1>3. CASE MkdirDrive(p) \/ RemoveDrive(p) \/ RenameDrive(p) \/ MoveDrive(p) \/ PutDrive(p)
  BY <1>1, <1>3, DriverSteps
<1> QED BY <1>1, <1>2, <1>3 DEF Step

\* A step of a process keeps the invariant.
LEMMA StepBase ==
    ASSUME Base, NEW p \in Proc, Step(p)
    PROVE  Base'
<1>1. stack[p] # <<>> /\ Observe(Neglected(p)) BY StepKinds
<1>2. CASE Plain(p) BY <1>1, <1>2, PlainBase
<1>3. CASE ListDo(p) \/ ListRead(p) \/ ListStore(p) \/ ListClose(p) BY <1>1, <1>3, ListBase
<1>4. CASE \E frame, upkeep : DrivesTree(p, frame, upkeep) BY <1>1, <1>4, DrivesBase
<1>5. CASE EditGet(p) \/ EditSet(p) \/ ClearStart(p) \/ ClearKids(p) BY <1>1, <1>5, UpkeepBase
<1> QED BY <1>2, <1>3, <1>4, <1>5, StepKinds

\* A call that a client makes starts as a function with nothing pending.
LEMMA RequestHas ==
    ASSUME NEW frame \in Requests
    PROVE  /\ frame \in FrameSet /\ frame.at = "start" /\ IsCalm(frame)
           /\ frame.fn \in Op \cup {"list"}
<1>1. CASE frame.fn = "list"
  <2>1. PICK dir \in Dir, want \in Name \cup {NoName}, refresh \in BOOLEAN :
               frame = ListFrame(dir, want, refresh)
    BY <1>1, RequestAssumption
  <2>2. frame \in ListFrames BY <2>1 DEF ListFrame, ListFrames
  <2> QED BY <2>1, <2>2 DEF FrameSet, ListFrame, IsCalm, IsUpkeep
<1>2. CASE frame.fn = "mkdir"
  <2>1. PICK dir \in Dir, lazy \in BOOLEAN : frame = OpFrame("mkdir", dir, NoName, "dir", lazy)
    BY <1>2, RequestAssumption
  <2>2. frame \in OpFrames /\ OpOk(frame)
    BY <2>1, DirsArePaths DEF OpFrame, OpFrames, OpOk, InPlace, Op, Kind
  <2> QED BY <2>1, <2>2 DEF FrameSet, OpFrame, IsCalm, IsUpkeep, Op
<1>3. CASE frame.fn = "remove"
  <2>1. PICK path \in Path \ {Root} : frame = RemoveFrame(path)
    BY <1>3, RequestAssumption
  <2>2. frame \in OpFrames /\ OpOk(frame)
    BY <2>1 DEF RemoveFrame, OpFrame, OpFrames, OpOk, InPlace, Op, Kind
  <2> QED BY <2>1, <2>2 DEF FrameSet, RemoveFrame, OpFrame, IsCalm, IsUpkeep, Op
<1>4. CASE frame.fn = "rename"
  <2>1. PICK path \in Path \ {Root}, to \in Name, lazy \in BOOLEAN :
               frame = OpFrame("rename", path, to, NoName, lazy)
    BY <1>4, RequestAssumption
  <2>2. frame \in OpFrames /\ OpOk(frame)
    BY <2>1 DEF OpFrame, OpFrames, OpOk, InPlace, Op, Kind
  <2> QED BY <2>1, <2>2 DEF FrameSet, OpFrame, IsCalm, IsUpkeep, Op
<1>5. CASE frame.fn \in {"move", "copy"}
  <2>1. PICK fn \in {"move", "copy"}, path \in Path \ {Root}, to \in Path, lazy \in BOOLEAN :
               frame = OpFrame(fn, path, to, NoName, lazy)
    BY <1>5, RequestAssumption
  <2>2. frame \in OpFrames /\ OpOk(frame)
    BY <2>1 DEF OpFrame, OpFrames, OpOk, InPlace, Op, Kind
  <2> QED BY <2>1, <2>2 DEF FrameSet, OpFrame, IsCalm, IsUpkeep, Op
<1>6. CASE frame.fn \in {"put", "puturl"}
  <2>1. PICK fn \in {"put", "puturl"}, path \in Path \ {Root}, kind \in {"file", "empty"},
             lazy \in BOOLEAN :
               /\ frame = OpFrame(fn, path, NoName, kind, lazy)
               /\ fn = "put" /\ NoOverwrite =>
                     /\ Last(path) \in DOMAIN Temp
                     /\ Child(Parent(path), Temp[Last(path)]) \in Path
    BY <1>6, RequestAssumption
  <2>2. frame \in OpFrames /\ OpOk(frame)
    BY <2>1 DEF OpFrame, OpFrames, OpOk, InPlace, Op, Kind, Temporary
  <2> QED BY <2>1, <2>2 DEF FrameSet, OpFrame, IsCalm, IsUpkeep, Op
<1> QED BY <1>1, <1>2, <1>3, <1>4, <1>5, <1>6, RequestAssumption

\* A stack of one frame
LEMMA SingleHas ==
    ASSUME NEW f \in FrameSet
    PROVE  /\ <<f>> \in Seq(FrameSet) /\ <<f>> # <<>> /\ Head(<<f>>) = f /\ Tail(<<f>>) = <<>>
           /\ Range(<<f>>) = {f} /\ Range(<<>>) = {}
           /\ GoodStack(<<f>>)
<1>1. /\ <<f>> \in Seq(FrameSet) /\ <<f>> # <<>> /\ Head(<<f>>) = f /\ Tail(<<f>>) = <<>>
      /\ Len(<<f>>) = 1
  OBVIOUS
<1>2. Range(<<f>>) = {f} /\ Range(<<>>) = {} BY DEF Range
<1>3. GoodStack(<<f>>) BY <1>1 DEF GoodStack
<1> QED BY <1>1, <1>2, <1>3

\* A client makes a call: nothing is led, waited for, or pending that was not.
LEMMA BeginOrderly ==
    ASSUME Base, NEW p \in Proc, NEW frame \in Requests, Begin(p, frame)
    PROVE  /\ Stacks' /\ ListFlights' /\ MkdirFlights'
           /\ \A q \in Proc : Calm(stack[q], stack'[q])
<1>1. /\ frame \in FrameSet /\ frame.at = "start" /\ IsCalm(frame)
      /\ frame.fn \in Op \cup {"list"}
  BY RequestHas
<1>2. /\ <<frame>> \in Seq(FrameSet) /\ <<frame>> # <<>> /\ Head(<<frame>>) = frame
      /\ Range(<<frame>>) = {frame} /\ Range(<<>>) = {} /\ GoodStack(<<frame>>)
  BY <1>1, SingleHas
<1>3. stack[p] = <<>> /\ stack' = [stack EXCEPT ![p] = <<frame>>] /\ ret' = ret
      /\ UNCHANGED <<listG, mkdirG>>
  BY DEF Begin
<1>4. /\ stack \in [Proc -> Seq(FrameSet)] /\ ret \in [Proc -> Answer \cup {Done}]
      /\ \A q \in Proc : GoodStack(stack[q]) /\ AnswerFor(stack[q], ret[q])
  BY DEF Base, Stacks
<1>5. stack'[p] = <<frame>> /\ \A q \in Proc \ {p} : stack'[q] = stack[q] BY <1>3, <1>4
<1>6. AnswerFor(<<frame>>, ret'[p]) BY <1>1, <1>2 DEF AnswerFor, Asks
<1>7. Stacks'
  <2>1. stack' \in [Proc -> Seq(FrameSet)] BY <1>2, <1>3, <1>4
  <2>2. ASSUME NEW q \in Proc PROVE GoodStack(stack'[q]) /\ AnswerFor(stack'[q], ret'[q])
    BY <1>2, <1>3, <1>4, <1>5, <1>6
  <2> QED BY <1>3, <1>4, <2>1, <2>2 DEF Stacks
<1>8. ASSUME NEW d
      PROVE  /\ ~Flies(stack'[p], d) /\ ~Flies(stack[p], d)
             /\ ~WaitsList(stack'[p], d) /\ ~WaitsMkdir(stack'[p], d)
             /\ ~MakesOn(stack'[p], d) /\ ~MakesOn(stack[p], d)
  <2>1. ~Making(frame, d) BY <1>1 DEF Making
  <2>2. ~MakesOn(<<frame>>, d) /\ ~MakesOn(<<>>, d) BY <1>2, <2>1 DEF MakesOn
  <2> QED BY <1>1, <1>2, <1>3, <1>5, <2>2 DEF Flies, WaitsList, WaitsMkdir, Flying
<1>9. ASSUME NEW q \in Proc, NEW d
      PROVE  /\ Flies(stack'[q], d) <=> Flies(stack[q], d)
             /\ WaitsList(stack'[q], d) => WaitsList(stack[q], d)
             /\ WaitsMkdir(stack'[q], d) => WaitsMkdir(stack[q], d)
             /\ MakesOn(stack'[q], d) <=> MakesOn(stack[q], d)
  BY <1>5, <1>8
<1>10. ListFlights'
  <2>1. ASSUME NEW d \in Dir, NEW q \in Proc, Flies(stack'[q], d)
        PROVE  InStep(Top(q)'.at, listG[d].stage)
    <3>1. q # p BY <1>8, <2>1
    <3>2. Top(q)' = Top(q) BY <1>5, <3>1 DEF Top
    <3> QED BY <1>9, <2>1, <3>2 DEF Base, ListFlights
  <2> QED BY <1>3, <1>9, <2>1 DEF Base, ListFlights
<1>11. MkdirFlights' BY <1>3, <1>9 DEF Base, MkdirFlights
<1>12. ASSUME NEW q \in Proc PROVE Calm(stack[q], stack'[q])
  <2>1. CASE q = p
    <3>1. Calm(<<>>, <<frame>>)
      BY <1>1, <1>2 DEF Calm, OpensOn, EditsOn, ClearsOn, SelfOn, IsEdit, IsCalm, IsUpkeep
    <3> QED BY <2>1, <3>1, <1>3, <1>5
  <2>2. CASE q # p BY <2>2, <1>5 DEF Calm
  <2> QED BY <2>1, <2>2
<1> QED BY <1>7, <1>10, <1>11, <1>12

\* The beginning of a call keeps the invariant.
LEMMA BeginBase ==
    ASSUME Base, NEW p \in Proc, NEW frame \in Requests, Begin(p, frame)
    PROVE  Base'
<1>1. left \in 0 .. MaxOps /\ left > 0 /\ left' = left - 1 /\ MaxOps \in Nat
  BY BoundAssumption DEF Base, Data, Begin
<1>2. left' \in 0 .. MaxOps BY <1>1
<1>3. UNCHANGED <<disk, cache, listG, mkdirG, race, suspect>> BY DEF Begin
<1>4. Data' BY <1>2, <1>3 DEF Base, Data
<1> QED BY <1>4, BeginOrderly DEF Base

\* So does a listing that expires.
LEMMA ExpireBase ==
    ASSUME Base, NEW d \in Dir, Expire(d)
    PROVE  Base'
<1>1. race' \in [Dir -> BOOLEAN] /\ suspect' \subseteq Dir BY ObserveTypes DEF Expire
<1>2. Data BY DEF Base
<1>3. /\ cache' = [cache EXCEPT ![d] = NoListing]
      /\ UNCHANGED <<disk, listG, mkdirG, stack, ret, left>>
  BY DEF Expire
<1>4. /\ cache' \in [Dir -> (SUBSET Entries) \cup {NoListing}]
      /\ \A e \in Dir : cache'[e] # NoListing => ListingOk(e, cache'[e])
  BY <1>2, <1>3, CacheTyped
<1>5. Data' BY <1>1, <1>2, <1>3, <1>4 DEF Data
<1>6. Stacks' BY <1>3 DEF Base, Stacks
<1>7. ListFlights' BY <1>3 DEF Base, ListFlights, Top
<1>8. MkdirFlights' BY <1>3 DEF Base, MkdirFlights
<1> QED BY <1>5, <1>6, <1>7, <1>8 DEF Base

\* It holds when nothing runs yet.
LEMMA BaseInit == Init => Base
<1> SUFFICES ASSUME Init PROVE Base OBVIOUS
<1>1. <<>> \in Seq(FrameSet) /\ Len(<<>>) = 0 BY EmptySeq
<1>2. Range(<<>>) = {} BY DEF Range
<1>3. \A p \in Proc : stack[p] = <<>> BY DEF Init
<1>4. Stacks
  <2>1. stack \in [Proc -> Seq(FrameSet)] /\ ret \in [Proc -> Answer \cup {Done}]
    BY <1>1 DEF Init
  <2>2. GoodStack(<<>>) BY <1>1 DEF GoodStack
  <2> QED BY <1>3, <2>1, <2>2 DEF Stacks, AnswerFor
<1>5. Data
  <2>1. IsTree(disk) BY PathAssumption DEF Init
  <2>2. /\ cache \in [Dir -> (SUBSET Entries) \cup {NoListing}]
        /\ \A d \in Dir : cache[d] = NoListing
    <3>1. cache = [d \in Dir |-> NoListing] BY DEF Init
    <3> QED BY <3>1
  <2>3. NoFlight \in FlightRecord BY DEF NoFlight, FlightRecord
  <2>4. listG \in [Dir -> FlightRecord] /\ \A d \in Dir : listG[d] = NoFlight
    BY <2>3 DEF Init
  <2>5. \A d \in Dir : ListingOk(d, NoFlight.listing) BY DEF NoFlight, ListingOk
  <2>6. left \in 0 .. MaxOps BY BoundAssumption DEF Init
  <2> QED BY <2>1, <2>2, <2>4, <2>5, <2>6 DEF Data, Init
<1>6. ListFlights
  <2>1. \A d \in Dir : listG[d].stage = "none" BY DEF Init, NoFlight
  <2> QED BY <1>3, <2>1 DEF ListFlights, Flies, WaitsList
<1>7. MkdirFlights
  <2>1. mkdirG = {} BY DEF Init
  <2> QED BY <1>2, <1>3, <2>1 DEF MkdirFlights, MakesOn, WaitsMkdir
<1> QED BY <1>4, <1>5, <1>6, <1>7 DEF Base

\* Every step keeps it.
LEMMA BaseNext == Base /\ [Next]_vars => Base'
<1> SUFFICES ASSUME Base, [Next]_vars PROVE Base' OBVIOUS
<1>1. CASE UNCHANGED vars
  BY <1>1 DEF vars, Base, Stacks, Data, ListFlights, MkdirFlights, Top
<1>2. ASSUME NEW p \in Proc, NEW frame \in Requests, Begin(p, frame) PROVE Base'
  BY <1>2, BeginBase
<1>3. ASSUME NEW p \in Proc, Step(p) PROVE Base' BY <1>3, StepBase
<1>4. ASSUME NEW d \in Dir, Expire(d) PROVE Base' BY <1>4, ExpireBase
<1> QED BY <1>1, <1>2, <1>3, <1>4 DEF Next

\* The frames of every stack stand on those that called them, and the flights are
\* the ones their leaders have brought on, in every state that is reached.
THEOREM BaseHolds == Spec => []Base
<1>1. Init => Base BY BaseInit
<1>2. Base /\ [Next]_vars => Base' BY BaseNext
<1> QED BY <1>1, <1>2, PTL DEF Spec

\* The disk stays a tree, the cache and the flights list entries that have a place
\* there, and no bound is passed.
THEOREM TypeCorrect == Spec => []TypeOK
<1>1. Base => TypeOK
  <2> SUFFICES ASSUME Base PROVE TypeOK OBVIOUS
  <2>1. ASSUME NEW d \in Dir, cache[d] # NoListing, NEW e \in cache[d]
        PROVE  Child(d, e.name) \in Path /\ e.kind \in Kind
    <3>1. cache[d] \subseteq Entries /\ Child(d, e.name) \in Path
      BY <2>1 DEF Base, Data, ListingOk
    <3> QED BY <2>1, <3>1 DEF Entries
  <2>2. ASSUME NEW d \in Dir
        PROVE  listG[d].stage \in {"none", "open", "read", "stored", "failed"}
    <3>1. listG[d] \in FlightRecord BY DEF Base, Data
    <3> QED BY <3>1 DEF FlightRecord
  <2> QED BY <2>1, <2>2 DEF TypeOK, Base, Data
<1> QED BY <1>1, BaseHolds, PTL

\* Where a stack leads the flight of mkdirG for a path
LEMMA MakerAt ==
    ASSUME Stacks, NEW p \in Proc, NEW x
    PROVE  /\ DOMAIN stack[p] = 1 .. Len(stack[p]) /\ Len(stack[p]) \in Nat
           /\ MakesOn(stack[p], x) <=> \E i \in DOMAIN stack[p] : Making(stack[p][i], x)
           /\ \A i, j \in DOMAIN stack[p] :
                 Making(stack[p][i], x) /\ Making(stack[p][j], x) => i = j
<1>1. stack[p] \in Seq(FrameSet) /\ GoodStack(stack[p]) BY DEF Stacks
<1>2. DOMAIN stack[p] = 1 .. Len(stack[p]) /\ Len(stack[p]) \in Nat BY <1>1, LenProperties
<1>3. MakesOn(stack[p], x) <=> \E i \in DOMAIN stack[p] : Making(stack[p][i], x)
  BY DEF MakesOn, Range
<1>4. ASSUME NEW i \in DOMAIN stack[p], NEW j \in DOMAIN stack[p],
             Making(stack[p][i], x), Making(stack[p][j], x)
      PROVE  i = j
  <2>1. Clash(stack[p][i], stack[p][j]) BY <1>4 DEF Clash, Making
  <2> QED BY <1>1, <1>2, <1>4, <2>1 DEF GoodStack
<1> QED BY <1>2, <1>3, <1>4

\* "Concurrent requests for the same key become one actual call": an open flight of
\* listG or mkdirG has exactly one leader, and whoever waits waits for an open one.
THEOREM FlightsAreLed == Spec => []FlightsLed
<1>1. Base => FlightsLed
  <2> SUFFICES ASSUME Base PROVE FlightsLed OBVIOUS
  <2>1. Stacks /\ ListFlights /\ MkdirFlights BY DEF Base
  <2>2. ASSUME NEW d \in Dir
        PROVE  /\ Cardinality(Listers(d, Flying)) = IF listG[d] = NoFlight THEN 0 ELSE 1
               /\ Listers(d, {"wait"}) # {} => listG[d] # NoFlight
    <3>1. /\ \A p \in Proc : Flies(stack[p], d) => InStep(Top(p).at, listG[d].stage)
          /\ \A p, q \in Proc : Flies(stack[p], d) /\ Flies(stack[q], d) => p = q
          /\ listG[d].stage # "none" => \E p \in Proc : Flies(stack[p], d)
          /\ \A p \in Proc : WaitsList(stack[p], d) => listG[d].stage # "none"
      BY <2>1 DEF ListFlights
    <3>2. listG[d] = NoFlight <=> listG[d].stage = "none" BY DEF Base, Data, NoFlight
    <3>3. \A p \in Proc : p \in Listers(d, Flying) <=> Flies(stack[p], d)
      BY DEF Listers, Flies, At, Top
    <3>4. \A p \in Proc : p \in Listers(d, {"wait"}) <=> WaitsList(stack[p], d)
      BY DEF Listers, WaitsList, At, Top
    <3>5. Listers(d, Flying) \subseteq Proc /\ Listers(d, {"wait"}) \subseteq Proc
      BY DEF Listers
    <3>6. CASE listG[d] = NoFlight
      <4>1. \A p \in Proc : ~Flies(stack[p], d) BY <3>1, <3>2, <3>6 DEF InStep
      <4>2. Listers(d, Flying) = {} BY <3>3, <3>5, <4>1
      <4>3. Listers(d, {"wait"}) = {} BY <3>1, <3>2, <3>4, <3>5, <3>6
      <4> QED BY <3>6, <4>2, <4>3, FS_EmptySet
    <3>7. CASE listG[d] # NoFlight
      <4>1. PICK p \in Proc : Flies(stack[p], d) BY <3>1, <3>2, <3>7
      <4>2. Listers(d, Flying) = {p} BY <3>1, <3>3, <3>5, <4>1
      <4> QED BY <3>7, <4>2, FS_Singleton
    <3> QED BY <3>6, <3>7
  <2>3. ASSUME NEW x \in Path
        PROVE  Cardinality(Makers(x)) = IF x \in mkdirG THEN 1 ELSE 0
    <3>1. /\ \A p, q \in Proc : MakesOn(stack[p], x) /\ MakesOn(stack[q], x) => p = q
          /\ x \in mkdirG <=> \E p \in Proc : MakesOn(stack[p], x)
      BY <2>1 DEF MkdirFlights
    <3>2. \A m : m \in Makers(x) <=>
             \E p \in Proc : \E i \in DOMAIN stack[p] : m = <<p, i>> /\ Making(stack[p][i], x)
      BY DEF Makers, Making
    <3>3. CASE x \notin mkdirG
      <4>1. ASSUME NEW m \in Makers(x) PROVE FALSE
        <5>1. PICK p \in Proc : \E i \in DOMAIN stack[p] : Making(stack[p][i], x) BY <3>2
        <5> QED BY <2>1, <3>1, <3>3, <5>1, MakerAt
      <4>2. Makers(x) = {} BY <4>1
      <4> QED BY <3>3, <4>2, FS_EmptySet
    <3>4. CASE x \in mkdirG
      <4>1. PICK p \in Proc : MakesOn(stack[p], x) BY <3>1, <3>4
      <4>2. PICK i \in DOMAIN stack[p] : Making(stack[p][i], x) BY <2>1, <4>1, MakerAt
      <4>3. <<p, i>> \in Makers(x) BY <3>2, <4>2
      <4>4. ASSUME NEW m \in Makers(x) PROVE m = <<p, i>>
        <5>1. PICK q \in Proc : \E j \in DOMAIN stack[q] : m = <<q, j>> /\ Making(stack[q][j], x)
          BY <3>2
        <5>2. q = p BY <2>1, <3>1, <4>1, <5>1, MakerAt
        <5>3. PICK j \in DOMAIN stack[p] : m = <<p, j>> /\ Making(stack[p][j], x) BY <5>1, <5>2
        <5>4. i = j BY <2>1, <4>2, <5>3, MakerAt
        <5> QED BY <5>3, <5>4
      <4>5. Makers(x) = {<<p, i>>} BY <4>3, <4>4
      <4> QED BY <3>4, <4>5, FS_Singleton
    <3> QED BY <3>3, <3>4
  <2>4. ASSUME NEW p \in Proc, At(p, "mkdir", "wait") PROVE Top(p).path \in mkdirG
    <3>1. stack[p] # <<>> BY <2>4 DEF At
    <3>2. Top(p).path \in Path BY <2>1, <3>1, TopHas, FrameHas
    <3>3. WaitsMkdir(stack[p], Top(p).path) BY <2>4 DEF At, Top, WaitsMkdir
    <3> QED BY <2>1, <3>2, <3>3 DEF MkdirFlights
  <2> QED BY <2>2, <2>3, <2>4 DEF FlightsLed
<1> QED BY <1>1, BaseHolds, PTL

-----------------------------------------------------------------------------
(* What the listings become *)

\* A set of naturals that is not empty has a least one.
LEMMA Least ==
    ASSUME NEW T \in SUBSET Nat, T # {}
    PROVE  \E n \in T : \A m \in T : n <= m
<1> DEFINE R == {ss \in Nat \X Nat : ss[1] < ss[2]}
<1>1. IsWellFoundedOn(R, Nat) BY NatLessThanWellFounded DEF OpToRel
<1> HIDE DEF R
<1>2. PICK n \in T : \A m \in T : ~(<<m, n>> \in R) BY <1>1, WFMin
<1>3. ASSUME NEW m \in T PROVE n <= m
  <2>1. ~(<<m, n>> \in R) BY <1>2
  <2>2. <<m, n>> \in Nat \X Nat OBVIOUS
  <2>3. ~(m < n) BY <2>1, <2>2 DEF R
  <2> QED BY <2>3
<1> QED BY <1>3

\* In a tree nothing is below what is not a directory.
LEMMA NothingBelow ==
    ASSUME NEW tree, IsTree(tree), NEW top \in Path, tree[top] # "dir",
           NEW x \in Path, IsPrefix(top, x), x # top
    PROVE  tree[x] = Absent
<1> DEFINE T == {y \in Path : IsPrefix(top, y) /\ y # top /\ tree[y] # Absent}
           N == {Len(y) : y \in T}
<1> SUFFICES ASSUME tree[x] # Absent PROVE FALSE OBVIOUS
<1>1. \A y \in Path : Len(y) \in Nat BY DirsArePaths, LenProperties
<1>2. N \in SUBSET Nat /\ N # {}
  <2>1. x \in T OBVIOUS
  <2> QED BY <1>1, <2>1
<1>3. PICK n \in N : \A m \in N : n <= m BY <1>2, Least
<1>4. PICK y \in T : n = Len(y) BY <1>3
<1>5. y # Root BY AboveRoot
<1>6. /\ Parent(y) \in Path /\ Len(Parent(y)) = Len(y) - 1
      /\ IsPrefix(top, Parent(y)) /\ tree[Parent(y)] = "dir"
  BY <1>5, PathHas, PrefixOfParent DEF IsTree
<1>7. Parent(y) \in T BY <1>6 DEF Absent
<1>8. Len(Parent(y)) \in N BY <1>7
<1>9. Len(y) <= Len(Parent(y)) BY <1>3, <1>4, <1>8
<1> QED BY <1>1, <1>6, <1>9

\* The listing of a directory in a tree
Listed(tree, dir) == {Entry(Last(x), tree[x]) :
                        x \in {y \in Path \ {Root} : Parent(y) = dir /\ tree[y] # Absent}}

\* It is what the driver lists.
LEMMA ListedIs ==
    /\ \A d : OnDisk(d) = Listed(disk, d) /\ OnDisk(d)' = Listed(disk', d)
    /\ \A tree, d, e : e \in Listed(tree, d) <=>
          \E x \in Path \ {Root} : Parent(x) = d /\ tree[x] # Absent /\ e = Entry(Last(x), tree[x])
<1>1. \A d : OnDisk(d) = Listed(disk, d) /\ OnDisk(d)' = Listed(disk', d) BY DEF OnDisk, Listed
<1>2. ASSUME NEW tree, NEW d, NEW e
      PROVE  e \in Listed(tree, d) <=>
                \E x \in Path \ {Root} :
                   Parent(x) = d /\ tree[x] # Absent /\ e = Entry(Last(x), tree[x])
  BY DEF Listed
<1> QED BY <1>1, <1>2

\* A listing depends on what is in its directory only.
LEMMA ListedSame ==
    ASSUME NEW d, NEW old, NEW new, \A x \in Path \ {Root} : Parent(x) = d => new[x] = old[x]
    PROVE  Listed(new, d) = Listed(old, d)
<1>1. ASSUME NEW e PROVE e \in Listed(new, d) <=> e \in Listed(old, d) BY ListedIs
<1> QED BY <1>1

\* The listing of a directory in which one object is placed or replaced
LEMMA ListedPut ==
    ASSUME NEW path \in Path \ {Root}, NEW old, NEW new, new[path] # Absent,
           \A x \in Path \ {Root, path} : Parent(x) = Parent(path) => new[x] = old[x]
    PROVE  LET e == Entry(Last(path), new[path])
               L == Listed(old, Parent(path))
           IN  Listed(new, Parent(path)) = (L \ Named(L, e)) \cup {e}
<1> DEFINE d == Parent(path)
           e == Entry(Last(path), new[path])
           L == Listed(old, d)
<1>1. ASSUME NEW x \in Path \ {Root}, Parent(x) = d PROVE Last(x) = Last(path) <=> x = path
  BY <1>1, ChildrenDiffer
<1>2. ASSUME NEW g PROVE g \in Listed(new, d) <=> g \in (L \ Named(L, e)) \cup {e}
  <2>1. ASSUME g \in Listed(new, d) PROVE g \in (L \ Named(L, e)) \cup {e}
    <3>1. PICK x \in Path \ {Root} : Parent(x) = d /\ new[x] # Absent /\ g = Entry(Last(x), new[x])
      BY <2>1, ListedIs
    <3>2. CASE x = path BY <3>1, <3>2
    <3>3. CASE x # path
      <4>1. new[x] = old[x] BY <3>1, <3>3
      <4>2. g \in L BY <3>1, <4>1, ListedIs
      <4>3. g.name # e.name BY <1>1, <3>1, <3>3 DEF Entry
      <4> QED BY <4>2, <4>3 DEF Named
    <3> QED BY <3>2, <3>3
  <2>2. ASSUME g \in L \ Named(L, e) PROVE g \in Listed(new, d)
    <3>1. PICK x \in Path \ {Root} : Parent(x) = d /\ old[x] # Absent /\ g = Entry(Last(x), old[x])
      BY <2>2, ListedIs
    <3>2. g.name # e.name BY <2>2 DEF Named
    <3>3. x # path BY <3>1, <3>2 DEF Entry
    <3>4. new[x] = old[x] BY <3>1, <3>3
    <3> QED BY <3>1, <3>4, ListedIs
  <2>3. e \in Listed(new, d) BY ListedIs
  <2> QED BY <2>1, <2>2, <2>3
<1> QED BY <1>2

\* The listing of a directory from which one object is gone
LEMMA ListedGone ==
    ASSUME NEW path \in Path \ {Root}, NEW old, NEW new, new[path] = Absent, NEW kind,
           \A x \in Path \ {Root, path} : Parent(x) = Parent(path) => new[x] = old[x]
    PROVE  LET e == Entry(Last(path), kind)
               L == Listed(old, Parent(path))
           IN  Listed(new, Parent(path)) = L \ Named(L, e)
<1> DEFINE d == Parent(path)
           e == Entry(Last(path), kind)
           L == Listed(old, d)
<1>1. ASSUME NEW x \in Path \ {Root}, Parent(x) = d PROVE Last(x) = Last(path) <=> x = path
  BY <1>1, ChildrenDiffer
<1>2. ASSUME NEW g PROVE g \in Listed(new, d) <=> g \in L \ Named(L, e)
  <2>1. ASSUME g \in Listed(new, d) PROVE g \in L \ Named(L, e)
    <3>1. PICK x \in Path \ {Root} : Parent(x) = d /\ new[x] # Absent /\ g = Entry(Last(x), new[x])
      BY <2>1, ListedIs
    <3>2. x # path BY <3>1
    <3>3. new[x] = old[x] BY <3>1, <3>2
    <3>4. g \in L BY <3>1, <3>3, ListedIs
    <3>5. g.name # e.name BY <1>1, <3>1, <3>2 DEF Entry
    <3> QED BY <3>4, <3>5 DEF Named
  <2>2. ASSUME g \in L \ Named(L, e) PROVE g \in Listed(new, d)
    <3>1. PICK x \in Path \ {Root} : Parent(x) = d /\ old[x] # Absent /\ g = Entry(Last(x), old[x])
      BY <2>2, ListedIs
    <3>2. g.name # e.name BY <2>2 DEF Named
    <3>3. x # path BY <3>1, <3>2 DEF Entry
    <3>4. new[x] = old[x] BY <3>1, <3>3
    <3> QED BY <3>1, <3>4, ListedIs
  <2> QED BY <2>1, <2>2
<1> QED BY <1>2

\* The listing of a directory in which an object gets another name
LEMMA ListedRenamed ==
    ASSUME NEW path \in Path \ {Root}, NEW dst \in Path \ {Root}, path # dst,
           Parent(dst) = Parent(path), NEW old, NEW new,
           old[path] # Absent, old[dst] = Absent, new[path] = Absent, new[dst] = old[path],
           \A x \in Path \ {Root, path, dst} : Parent(x) = Parent(path) => new[x] = old[x],
           NEW kind, Entry(Last(dst), old[path]) # NoName, Entry(Last(path), kind) # NoName
    PROVE  Listed(new, Parent(path)) =
              Edited(Listed(old, Parent(path)), Entry(Last(path), kind), Entry(Last(dst), old[path]))
<1> DEFINE d == Parent(path)
           L == Listed(old, d)
           e == Entry(Last(path), kind)
           g == Entry(Last(dst), old[path])
           mid == [x \in Path |-> IF x = path THEN Absent ELSE old[x]]
<1>1. Last(path) # Last(dst) BY ChildrenDiffer
<1>2. Named(L, g) = {}
  <2>1. ASSUME NEW h \in L, h.name = Last(dst) PROVE FALSE
    <3>1. PICK x \in Path \ {Root} : Parent(x) = d /\ old[x] # Absent /\ h = Entry(Last(x), old[x])
      BY ListedIs
    <3>2. Last(x) = Last(dst) BY <2>1, <3>1 DEF Entry
    <3>3. x = dst BY <3>1, <3>2, ChildrenDiffer
    <3> QED BY <3>1, <3>3
  <2> QED BY <2>1 DEF Named, Entry
<1>3. Named(L, e) # {}
  <2>1. Entry(Last(path), old[path]) \in L BY ListedIs
  <2> QED BY <2>1 DEF Named, Entry
<1>4. Edited(L, e, g) = (L \ Named(L, e)) \cup {g}
  <2>1. L \ Named(L, g) = L BY <1>2
  <2> QED BY <1>3, <2>1 DEF Edited
<1>5. Listed(mid, d) = L \ Named(L, e)
  <2>1. mid[path] = Absent /\ \A x \in Path \ {Root, path} : Parent(x) = Parent(path) => mid[x] = old[x]
    OBVIOUS
  <2> HIDE DEF mid
  <2> QED BY <2>1, ListedGone
<1>6. Listed(new, d) = (Listed(mid, d) \ Named(Listed(mid, d), g)) \cup {g}
  <2>1. \A x \in Path \ {Root, dst} : Parent(x) = Parent(dst) => new[x] = mid[x] OBVIOUS
  <2> HIDE DEF mid
  <2>2. new[dst] # Absent /\ g = Entry(Last(dst), new[dst]) OBVIOUS
  <2> HIDE DEF g
  <2> QED BY <2>1, <2>2, ListedPut
<1>7. Named(Listed(mid, d), g) = {} BY <1>2, <1>5 DEF Named
<1> QED BY <1>4, <1>5, <1>6, <1>7

-----------------------------------------------------------------------------
(* A change of the tree, and the upkeep it calls for *)

\* An edit in which an object keeps its name
SameNames(e) == e.old # NoName /\ e.new # NoName /\ e.old.name = e.new.name

\* What an edit makes of a listing
After(listing, e) ==
    IF e.old = NoName THEN (listing \ Named(listing, e.new)) \cup {e.new}
    ELSE Edited(listing, e.old, e.new)

\* The upkeep makes good what the change of the tree spoils, but for what is
\* neglected: the listings of directories that are gone are cleared, those of
\* directories that changed are edited or cleared, and an edit makes the old
\* listing the new one.
Covers(p, frame, upkeep) ==
    /\ \A d \in Dir : disk[d] = "dir" /\ disk'[d] # "dir" =>
          d \in Neglected(p) \/ \E u \in Range(upkeep) : u.fn = "clear" /\ u.path = d
    /\ \A d \in Changed(disk') :
          disk[d] # "dir" \/ d \in Neglected(p) \/ \E u \in Range(upkeep) : u.path = d
    /\ \A e \in Range(upkeep) : e.fn = "edit" =>
          /\ disk'[e.path] = "dir"
          /\ IF SameNames(e)
             THEN frame.fn = "rename" /\ frame.at = "end" /\ frame.to = Last(frame.path)
                     /\ Parent(frame.path) = e.path
             ELSE After(Listed(disk, e.path), e) = Listed(disk', e.path)

\* What is neglected when the driver changed the tree
LEMMA NeglectedIs ==
    ASSUME NEW p, Top(p).at = "got", disk' # disk, NEW d \in Dir,
           \/ Top(p).fn \in {"rename", "move"} /\ IsPrefix(Top(p).path, d)
           \/ Top(p).fn = "remove" /\ IsPrefix(Top(p).path, d) /\ (d = Top(p).path => ret[p] # "dir")
           \/ Top(p).lazy /\ d \in Changed(disk') /\ d \notin {g.path : g \in Range(stack'[p])}
    PROVE  d \in Neglected(p)
BY DEF Neglected

\* Only the call of a client has a lazy cache.
LEMMA LazyAlone ==
    ASSUME Stacks, NEW p \in Proc, stack[p] # <<>>, Top(p).fn \in Op, Top(p).lazy
    PROVE  Tail(stack[p]) = <<>>
<1>1. stack[p] \in Seq(FrameSet) /\ GoodStack(stack[p]) /\ Top(p) = Head(stack[p]) BY TopHas
<1>2. Tail(stack[p]) # <<>> => Above(Top(p), Head(Tail(stack[p]))) BY <1>1, BelowTop
<1> QED BY <1>2 DEF Above, IsUpkeep, Op

\* A lazy cache is neglected where the tree changed and no upkeep goes.
LEMMA LazyNeglected ==
    ASSUME Base, NEW p \in Proc, stack[p] # <<>>, Top(p).fn \in Op, Top(p).at = "got", Top(p).lazy,
           NEW frame, NEW upkeep, Drives(p, frame, upkeep), frame \in FrameSet,
           NEW d \in Changed(disk'), frame.path # d, \A u \in Range(upkeep) : u.path # d
    PROVE  d \in Neglected(p)
<1>1. Range(stack'[p]) = Range(upkeep) \cup {Changing(frame, upkeep)} \cup Range(Tail(stack[p]))
  BY DrivesOrderly
<1>2. Tail(stack[p]) = <<>> BY LazyAlone DEF Base
<1>3. Range(<<>>) = {} BY RangeOf
<1>4. frame.fn \in Op => Changing(frame, upkeep).path = frame.path
  BY FrameHas DEF Changing, OpFrames
<1>5. Changing(frame, upkeep).path = frame.path
  <2>1. DOMAIN frame = DOMAIN Changing(frame, upkeep) BY DEF Changing
  <2>2. "path" \in DOMAIN frame
    BY FrameHas DEF ListFrames, OpFrames, EditFrames, ClearFrames, Op
  <2> QED BY <2>1, <2>2 DEF Changing
<1>6. d \notin {g.path : g \in Range(stack'[p])} BY <1>1, <1>2, <1>3, <1>5
<1>7. disk' # disk /\ d \in Dir BY DEF Changed
<1> QED BY <1>6, <1>7, NeglectedIs

\* An object is made or replaced.
LEMMA PlaceCovers ==
    ASSUME Base, NEW p \in Proc, stack[p] # <<>>, Top(p).fn \in Op, Top(p).at = "got",
           NEW frame \in FrameSet, NEW upkeep, Drives(p, frame, upkeep),
           frame.path = Top(p).path, frame.path # Root,
           NEW kind \in Kind, disk[Parent(frame.path)] = "dir",
           disk[frame.path] = "dir" => kind = "dir",
           kind = "dir" => frame.path \in Dir,
           disk' = [disk EXCEPT ![frame.path] = kind],
           upkeep \in Upkeeps(Parent(frame.path), NoName, Entry(Last(frame.path), kind), Top(p).lazy)
    PROVE  Covers(p, frame, upkeep)
<1> DEFINE path == frame.path
           dir == Parent(path)
           e == EditFrame(dir, NoName, Entry(Last(path), kind))
<1>1. path \in Path /\ path # Root BY FrameHas
<1>2. dir \in Dir /\ dir \in Path /\ dir # path /\ dir \in Path BY <1>1, PathHas
<1>3. disk \in [Path -> Kind \cup {Absent}] BY DEF Base, Data, IsTree
<1>4. disk'[path] = kind /\ \A x \in Path \ {path} : disk'[x] = disk[x] BY <1>1, <1>3
<1>5. Entry(Last(path), kind) \in Entries /\ ListingOk(dir, {Entry(Last(path), kind)})
  BY <1>1, EntryFits
<1>6. Top(p).lazy \in BOOLEAN
  <2>1. Top(p) \in FrameSet BY TopHas DEF Base
  <2> QED BY <2>1, FrameHas DEF OpFrames
<1>7. \/ upkeep = <<e>> \/ upkeep = <<ClearFrame(dir)>> \/ (upkeep = <<>> /\ Top(p).lazy)
  BY <1>2, <1>5, <1>6, UpkeepsAre
<1>8. e.path = dir /\ e.fn = "edit" /\ ClearFrame(dir).path = dir /\ ClearFrame(dir).fn = "clear"
      /\ e.old = NoName /\ e.new = Entry(Last(path), kind)
  BY DEF EditFrame, ClearFrame
<1> HIDE DEF e
<1>9. ASSUME NEW d \in Dir, disk[d] = "dir" PROVE disk'[d] = "dir"
  BY <1>4, <1>9, DirsArePaths
<1>10. ASSUME NEW d \in Changed(disk')
       PROVE  d \in Neglected(p) \/ \E u \in Range(upkeep) : u.path = d
  <2>1. PICK x \in Path \ {Root} : Parent(x) = d /\ disk'[x] # disk[x] BY DEF Changed
  <2>2. d = dir BY <1>4, <2>1
  <2>3. CASE upkeep = <<>> /\ Top(p).lazy
    <3>1. \A u \in Range(upkeep) : u.path # d BY <2>3, RangeOf
    <3> QED BY <1>2, <2>2, <2>3, <3>1, LazyNeglected
  <2> QED BY <1>7, <1>8, <2>2, <2>3, RangeOf
<1>11. ASSUME NEW g \in Range(upkeep), g.fn = "edit"
       PROVE  /\ disk'[g.path] = "dir" /\ ~SameNames(g)
              /\ After(Listed(disk, g.path), g) = Listed(disk', g.path)
  <2>1. g = e BY <1>7, <1>8, <1>11, RangeOf
  <2>2. disk'[dir] = "dir" BY <1>2, <1>4
  <2>3. ~SameNames(e) BY <1>8 DEF SameNames
  <2>4. kind # Absent BY DEF Kind, Absent
  <2>5. /\ disk'[path] # Absent
        /\ \A x \in Path \ {Root, path} : Parent(x) = dir => disk'[x] = disk[x]
    BY <1>4, <2>4
  <2>6. Listed(disk', dir) =
           (Listed(disk, dir) \ Named(Listed(disk, dir), e.new)) \cup {e.new}
    <3> DEFINE new == disk'
    <3>1. new[path] = kind /\ new[path] # Absent
          /\ \A x \in Path \ {Root, path} : Parent(x) = dir => new[x] = disk[x]
      BY <1>4, <2>5
    <3> HIDE DEF new
    <3>2. Listed(new, dir) = (Listed(disk, dir) \ Named(Listed(disk, dir), Entry(Last(path), new[path])))
             \cup {Entry(Last(path), new[path])}
      BY <1>1, <3>1, ListedPut
    <3> QED BY <1>8, <3>1, <3>2 DEF new
  <2> QED BY <1>8, <2>1, <2>2, <2>3, <2>6 DEF After
<1> QED BY <1>9, <1>10, <1>11 DEF Covers

\* An object is removed.
LEMMA RemoveCovers ==
    ASSUME Base, NEW p \in Proc, stack[p] # <<>>, Top(p).fn = "remove", Top(p).at = "got",
           Top(p).path \in Path, Top(p).path # Root, NEW frame,
           ret[p] \in Kind, ret[p] = "dir" => Top(p).path \in Dir,
           disk[Top(p).path] # Absent, disk' = Without(disk, Top(p).path)
    PROVE  Covers(p, frame, RemoveUpkeep(Top(p).path, ret[p]))
<1> DEFINE path == Top(p).path
           dir == Parent(path)
           e == EditFrame(dir, Entry(Last(path), ret[p]), NoName)
           upkeep == RemoveUpkeep(path, ret[p])
<1>1. dir \in Dir /\ dir \in Path /\ dir # path /\ Last(path) \in Name BY PathHas
<1>2. IsTree(disk) /\ disk \in [Path -> Kind \cup {Absent}] BY DEF Base, Data, IsTree
<1>3. /\ upkeep = IF ret[p] = "dir" THEN <<e, ClearFrame(path)>> ELSE <<e>>
  BY RemoveUpkeepIs
<1>4. Range(upkeep) = IF ret[p] = "dir" THEN {e, ClearFrame(path)} ELSE {e} BY <1>3, RangeOf
<1>5. /\ e.path = dir /\ e.fn = "edit" /\ e.old = Entry(Last(path), ret[p]) /\ e.new = NoName
      /\ ClearFrame(path).path = path /\ ClearFrame(path).fn = "clear"
  BY DEF EditFrame, ClearFrame
<1> HIDE DEF e, upkeep
<1>6. \A x \in Path : disk'[x] = IF IsPrefix(path, x) THEN Absent ELSE disk[x] BY DEF Without
<1>7. IsPrefix(path, path) /\ ~IsPrefix(path, dir) BY PrefixOfParent
<1>8. disk' # disk BY <1>6, <1>7
<1>9. ASSUME NEW d \in Dir, IsPrefix(path, d)
      PROVE  d \in Neglected(p) \/ \E u \in Range(upkeep) : u.fn = "clear" /\ u.path = d
  <2>1. CASE d = path /\ ret[p] = "dir" BY <2>1, <1>4, <1>5
  <2>2. CASE ~(d = path /\ ret[p] = "dir") BY <2>2, <1>8, <1>9, NeglectedIs
  <2> QED BY <2>1, <2>2
<1>10. ASSUME NEW d \in Dir, disk[d] = "dir", disk'[d] # "dir"
       PROVE  d \in Neglected(p) \/ \E u \in Range(upkeep) : u.fn = "clear" /\ u.path = d
  <2>1. IsPrefix(path, d) BY <1>6, <1>10, DirsArePaths
  <2> QED BY <1>9, <2>1
<1>11. ASSUME NEW d \in Changed(disk')
       PROVE  d \in Neglected(p) \/ \E u \in Range(upkeep) : u.path = d
  <2>1. PICK x \in Path \ {Root} : Parent(x) = d /\ disk'[x] # disk[x] BY DEF Changed
  <2>2. IsPrefix(path, x) /\ d \in Dir BY <1>6, <2>1, PathHas
  <2>3. CASE x = path BY <1>4, <1>5, <2>1, <2>3
  <2>4. CASE x # path
    <3>1. IsPrefix(path, d) BY <2>1, <2>2, <2>4, PrefixOfParent
    <3> QED BY <1>9, <2>2, <3>1
  <2> QED BY <2>3, <2>4
<1>12. ASSUME NEW g \in Range(upkeep), g.fn = "edit"
       PROVE  /\ disk'[g.path] = "dir" /\ ~SameNames(g)
              /\ After(Listed(disk, g.path), g) = Listed(disk', g.path)
  <2>1. g = e BY <1>4, <1>5, <1>12
  <2>2. disk[dir] = "dir" BY <1>2 DEF IsTree
  <2>3. disk'[dir] = "dir" BY <1>1, <1>6, <1>7, <2>2
  <2>4. e.old # NoName
    <3>1. Entry(Last(path), ret[p]) \in Entries BY <1>1 DEF Entry, Entries
    <3> QED BY <1>5, <3>1, SentinelAssumption
  <2>5. ASSUME NEW x \in Path \ {Root, path}, Parent(x) = dir PROVE disk'[x] = disk[x]
    <3>1. ~IsPrefix(path, x) BY <1>7, <2>5, PrefixOfParent
    <3> QED BY <1>6, <3>1
  <2>6. Listed(disk', dir) = Listed(disk, dir) \ Named(Listed(disk, dir), e.old)
    <3> DEFINE new == disk'
    <3>1. new[path] = Absent /\ \A x \in Path \ {Root, path} : Parent(x) = dir => new[x] = disk[x]
      BY <1>6, <1>7, <2>5
    <3> HIDE DEF new
    <3>2. Listed(new, dir) = Listed(disk, dir) \ Named(Listed(disk, dir), Entry(Last(path), ret[p]))
      BY <3>1, ListedGone
    <3> QED BY <1>5, <3>2 DEF new
  <2>7. After(Listed(disk, dir), e) = Listed(disk', dir)
    BY <1>5, <2>4, <2>6 DEF After, Edited
  <2> QED BY <1>5, <2>1, <2>3, <2>7 DEF SameNames
<1> QED BY <1>10, <1>11, <1>12 DEF Covers, upkeep

\* What arrives elsewhere leaves what is not below its old path, and nothing was
\* below its new one.
LEMMA ArrivedHas ==
    ASSUME Data, NEW path \in Path, path # Root, NEW dst \in Path, dst # Root,
           CanArrive(path, dst),
           NEW tree \in {Duplicated(disk, path, dst), Without(Duplicated(disk, path, dst), path)}
    PROVE  /\ \A x \in Path : disk[x] = "dir" => ~IsPrefix(dst, x)
           /\ \A x \in Path : disk[x] = "dir" /\ ~IsPrefix(path, x) => tree[x] = "dir"
           /\ tree[dst] = disk[path]
           /\ \A x \in Path \ {Root, dst} :
                 disk[Parent(x)] = "dir" /\ ~IsPrefix(path, x) => tree[x] = disk[x]
           /\ tree = Without(Duplicated(disk, path, dst), path) => tree[path] = Absent
           /\ tree = Duplicated(disk, path, dst) =>
                 \A x \in Path : ~IsPrefix(dst, x) => tree[x] = disk[x]
           /\ disk[Parent(path)] = "dir" /\ disk[Parent(dst)] = "dir"
           /\ ~IsPrefix(path, Parent(path)) /\ ~IsPrefix(path, Parent(dst))
           /\ ~IsPrefix(path, dst) /\ path # dst
<1> DEFINE both == Duplicated(disk, path, dst)
<1>1. IsTree(disk) /\ disk[path] # Absent /\ disk[dst] = Absent /\ disk[Parent(dst)] = "dir"
      /\ ~IsPrefix(path, dst)
  BY DEF Data, CanArrive
<1>2. path \in Seq(Name) /\ dst \in Seq(Name) BY DirsArePaths
<1>3. ASSUME NEW x \in Path, disk[x] = "dir" PROVE ~IsPrefix(dst, x)
  <2>1. disk[dst] # "dir" /\ x # dst BY <1>1, <1>3 DEF Absent
  <2>2. IsPrefix(dst, x) => disk[x] = Absent BY <1>1, <2>1, NothingBelow
  <2> QED BY <1>3, <2>2 DEF Absent
<1>4. \A x \in Path : ~IsPrefix(dst, x) => both[x] = disk[x] BY DEF Duplicated
<1>5. both[dst] = disk[path]
  <2>1. IsPrefix(dst, dst) BY PrefixOfParent
  <2>2. Under(dst, dst, path) = path BY <1>2, <2>1, UnderHas
  <2> QED BY <2>1, <2>2 DEF Duplicated
<1> HIDE DEF both
<1>6. \A x \in Path : ~IsPrefix(path, x) => tree[x] = both[x] BY DEF Without, both
<1>7. IsPrefix(path, path) BY PrefixOfParent
<1>8. ~IsPrefix(path, Parent(path)) /\ ~IsPrefix(path, Parent(dst))
  BY <1>1, PrefixOfParent
<1>9. disk[Parent(path)] = "dir" BY <1>1 DEF IsTree
<1>10. ASSUME NEW x \in Path, disk[x] = "dir", ~IsPrefix(path, x) PROVE tree[x] = "dir"
  BY <1>3, <1>4, <1>6, <1>10
<1>11. tree[dst] = disk[path] BY <1>1, <1>5, <1>6
<1>12. ASSUME NEW x \in Path \ {Root, dst}, disk[Parent(x)] = "dir", ~IsPrefix(path, x)
       PROVE  tree[x] = disk[x]
  <2>1. Parent(x) \in Path BY PathHas
  <2>2. ~IsPrefix(dst, Parent(x)) BY <1>3, <1>12, <2>1
  <2>3. ~IsPrefix(dst, x) BY <2>2, PrefixOfParent
  <2> QED BY <1>4, <1>6, <1>12, <2>3
<1>13. tree = Without(both, path) => tree[path] = Absent BY <1>7 DEF Without
<1> QED BY <1>1, <1>3, <1>4, <1>7, <1>8, <1>9, <1>10, <1>11, <1>12, <1>13 DEF both

\* The listings that such a change touches
LEMMA ArrivedChanges ==
    ASSUME Data, NEW path \in Path, path # Root, NEW dst \in Path, dst # Root,
           CanArrive(path, dst),
           disk' \in {Duplicated(disk, path, dst), Without(Duplicated(disk, path, dst), path)},
           NEW d \in Changed(disk'), disk[d] = "dir"
    PROVE  /\ d \in {Parent(path), Parent(dst)} \/ IsPrefix(path, d)
           /\ disk' = Duplicated(disk, path, dst) => d = Parent(dst)
<1> DEFINE new == disk'
<1>1. PICK x \in Path \ {Root} : Parent(x) = d /\ new[x] # disk[x] BY DEF Changed
<1>2. new \in {Duplicated(disk, path, dst), Without(Duplicated(disk, path, dst), path)} OBVIOUS
<1> HIDE DEF new
<1>3. /\ \A y \in Path : disk[y] = "dir" => ~IsPrefix(dst, y)
      /\ \A y \in Path \ {Root, dst} :
            disk[Parent(y)] = "dir" /\ ~IsPrefix(path, y) => new[y] = disk[y]
      /\ new = Duplicated(disk, path, dst) =>
            \A y \in Path : ~IsPrefix(dst, y) => new[y] = disk[y]
  BY <1>2, ArrivedHas
<1>4. x = dst \/ IsPrefix(path, x) BY <1>1, <1>3
<1>5. d \in {Parent(path), Parent(dst)} \/ IsPrefix(path, d)
  <2>1. CASE x = dst BY <1>1, <2>1
  <2>2. CASE IsPrefix(path, x) BY <1>1, <2>2, PrefixOfParent
  <2> QED BY <1>4, <2>1, <2>2
<1>6. ASSUME new = Duplicated(disk, path, dst) PROVE d = Parent(dst)
  <2>1. IsPrefix(dst, x) BY <1>1, <1>3, <1>6
  <2>2. d \in Path BY <1>1, PathHas
  <2>3. ~IsPrefix(dst, d) BY <1>3, <2>2
  <2>4. x = dst BY <1>1, <2>1, <2>3, PrefixOfParent
  <2> QED BY <1>1, <2>4
<1> QED BY <1>5, <1>6 DEF new

\* An object is renamed.
LEMMA RenameCovers ==
    ASSUME Base, NEW p \in Proc, stack[p] # <<>>, Top(p).fn = "rename", Top(p).at = "got",
           Top(p).path \in Path, Top(p).path # Root, Top(p).to \in Name, Top(p).lazy \in BOOLEAN,
           NEW dst, dst = Child(Parent(Top(p).path), Top(p).to), ret[p] \in Kind,
           disk[Top(p).path] # Absent, dst = Top(p).path \/ CanArrive(Top(p).path, dst),
           disk' = Renamed(Top(p).path, dst),
           NEW frame \in FrameSet, frame.fn = "rename", frame.at = "end",
           frame.path = Top(p).path, frame.to = Top(p).to,
           NEW upkeep \in Upkeeps(Parent(Top(p).path), Entry(Last(Top(p).path), ret[p]),
                                  Entry(Top(p).to, disk[Top(p).path]), Top(p).lazy),
           Drives(p, frame, upkeep)
    PROVE  Covers(p, frame, upkeep)
<1> DEFINE path == Top(p).path
           dir == Parent(path)
           old == Entry(Last(path), ret[p])
           new == Entry(Top(p).to, disk[path])
           e == EditFrame(dir, old, new)
<1>1. dir \in Dir /\ dir \in Path /\ dir # path /\ Last(path) \in Name BY PathHas
<1>2. Data /\ IsTree(disk) /\ disk \in [Path -> Kind \cup {Absent}] BY DEF Base, Data, IsTree
<1>3. /\ dst \in Path /\ dst # Root /\ Parent(dst) = dir /\ Last(dst) = Top(p).to
      /\ disk[path] \in Kind /\ (disk[path] = "dir" => dst \in Dir)
  BY <1>2, RenameArrives
<1>4. new \in Entries /\ ListingOk(dir, {new}) BY <1>3, EntryFits
<1>5. old \in Entries BY <1>1 DEF Entry, Entries
<1>6. old # NoName /\ new # NoName BY <1>4, <1>5, SentinelAssumption
<1>7. old.name = Last(path) /\ new.name = Top(p).to BY DEF Entry
<1> HIDE DEF old, new
<1>8. upkeep = <<e>> \/ upkeep = <<ClearFrame(dir)>> \/ (upkeep = <<>> /\ Top(p).lazy)
  BY <1>1, <1>4, <1>5, UpkeepsAre DEF old, new
<1>9. /\ e.path = dir /\ e.fn = "edit" /\ e.old = old /\ e.new = new
      /\ ClearFrame(dir).path = dir /\ ClearFrame(dir).fn = "clear"
  BY DEF EditFrame, ClearFrame
<1> HIDE DEF e
<1>10. disk[dir] = "dir" BY <1>2 DEF IsTree
<1>11. SameNames(e) <=> dst = path
  <2>1. dst = path <=> Last(dst) = Last(path) BY <1>3, ChildrenDiffer
  <2> QED BY <1>3, <1>6, <1>7, <1>9, <2>1 DEF SameNames
<1>12. \A g \in Range(upkeep) : g.path = dir /\ (g.fn = "edit" => g = e)
  BY <1>8, <1>9, RangeOf
<1>13. CASE dst = path
  <2>1. disk' = disk BY <1>13 DEF Renamed
  <2>2. Changed(disk') = {} BY <2>1 DEF Changed
  <2>3. disk'[dir] = "dir" BY <1>10, <2>1
  <2>4. frame.to = Last(frame.path) BY <1>3, <1>13
  <2> QED BY <1>9, <1>11, <1>12, <1>13, <2>1, <2>2, <2>3, <2>4 DEF Covers
<1>14. CASE dst # path
  <2> DEFINE tree == Without(Duplicated(disk, path, dst), path)
  <2>1. CanArrive(path, dst) /\ disk' = tree BY <1>14 DEF Renamed
  <2>2. /\ \A x \in Path : disk[x] = "dir" /\ ~IsPrefix(path, x) => tree[x] = "dir"
        /\ tree[dst] = disk[path] /\ tree[path] = Absent
        /\ \A x \in Path \ {Root, dst} :
              disk[Parent(x)] = "dir" /\ ~IsPrefix(path, x) => tree[x] = disk[x]
        /\ ~IsPrefix(path, dir)
    BY <1>2, <1>3, <2>1, ArrivedHas
  <2>3. disk' # disk
    <3>1. disk'[path] = Absent BY <2>1, <2>2
    <3> QED BY <3>1
  <2>4. ASSUME NEW d \in Dir, disk[d] = "dir", disk'[d] # "dir" PROVE d \in Neglected(p)
    <3>1. IsPrefix(path, d) BY <2>1, <2>2, <2>4, DirsArePaths
    <3> QED BY <2>3, <3>1, NeglectedIs
  <2>5. ASSUME NEW d \in Changed(disk'), disk[d] = "dir"
        PROVE  d \in Neglected(p) \/ \E u \in Range(upkeep) : u.path = d
    <3>1. d = dir \/ IsPrefix(path, d) BY <1>2, <1>3, <2>1, <2>5, ArrivedChanges
    <3>2. CASE IsPrefix(path, d) BY <2>3, <3>2, NeglectedIs DEF Changed
    <3>3. CASE d = dir /\ upkeep = <<>> /\ Top(p).lazy
      <4>1. \A u \in Range(upkeep) : u.path # d BY <3>3, RangeOf
      <4>2. Top(p).fn \in Op BY DEF Op
      <4> QED BY <1>1, <2>5, <3>3, <4>1, <4>2, LazyNeglected
    <3>4. CASE d = dir /\ (upkeep = <<e>> \/ upkeep = <<ClearFrame(dir)>>) BY <1>9, <3>4, RangeOf
    <3> QED BY <1>8, <3>1, <3>2, <3>3, <3>4
  <2>6. disk'[dir] = "dir" BY <1>1, <1>10, <2>1, <2>2
  <2>7. After(Listed(disk, dir), e) = Listed(disk', dir)
    <3>1. ASSUME NEW x \in Path \ {Root, path, dst}, Parent(x) = dir PROVE tree[x] = disk[x]
      <4>1. ~IsPrefix(path, x) BY <2>2, <3>1, PrefixOfParent
      <4> QED BY <1>10, <2>2, <3>1, <4>1
    <3>2. disk[dst] = Absent BY <2>1 DEF CanArrive
    <3> HIDE DEF tree
    <3>3. Listed(tree, dir) = Edited(Listed(disk, dir), Entry(Last(path), ret[p]), Entry(Last(dst), disk[path]))
      BY <1>3, <1>6, <1>14, <2>2, <3>1, <3>2, ListedRenamed DEF old, new
    <3>4. Listed(tree, dir) = Edited(Listed(disk, dir), old, new) BY <1>3, <3>3 DEF old, new
    <3> QED BY <1>6, <1>9, <2>1, <3>4 DEF After
  <2> QED BY <1>9, <1>11, <1>12, <1>14, <2>4, <2>5, <2>6, <2>7 DEF Covers
<1> QED BY <1>13, <1>14

\* The edits after a move or a copy
LEMMA ArrivalEdits ==
    ASSUME Base, NEW path \in Path, path # Root, NEW dst \in Path, dst # Root,
           CanArrive(path, dst), Parent(dst) # Parent(path), Last(dst) = Last(path),
           disk' \in {Duplicated(disk, path, dst), Without(Duplicated(disk, path, dst), path)},
           NEW kind \in Kind
    PROVE  /\ disk'[Parent(path)] = "dir" /\ disk'[Parent(dst)] = "dir"
           /\ LET e == EditFrame(Parent(path), Entry(Last(path), kind), NoName) IN
              /\ ~SameNames(e)
              /\ disk' = Without(Duplicated(disk, path, dst), path) =>
                    After(Listed(disk, Parent(path)), e) = Listed(disk', Parent(path))
           /\ LET e == EditFrame(Parent(dst), NoName, Entry(Last(path), disk[path])) IN
              /\ ~SameNames(e)
              /\ After(Listed(disk, Parent(dst)), e) = Listed(disk', Parent(dst))
<1> DEFINE from == Parent(path)
           to == Parent(dst)
           e == EditFrame(from, Entry(Last(path), kind), NoName)
           g == EditFrame(to, NoName, Entry(Last(path), disk[path]))
           tree == disk'
<1>1. tree \in {Duplicated(disk, path, dst), Without(Duplicated(disk, path, dst), path)} OBVIOUS
<1> HIDE DEF tree
<1>2. Data BY DEF Base
<1>3. /\ \A x \in Path : disk[x] = "dir" /\ ~IsPrefix(path, x) => tree[x] = "dir"
      /\ tree[dst] = disk[path]
      /\ \A x \in Path \ {Root, dst} :
            disk[Parent(x)] = "dir" /\ ~IsPrefix(path, x) => tree[x] = disk[x]
      /\ tree = Without(Duplicated(disk, path, dst), path) => tree[path] = Absent
      /\ disk[from] = "dir" /\ disk[to] = "dir"
      /\ ~IsPrefix(path, from) /\ ~IsPrefix(path, to)
  BY <1>1, <1>2, ArrivedHas
<1>4. from \in Path /\ to \in Path /\ Last(path) \in Name BY PathHas
<1>5. tree[from] = "dir" /\ tree[to] = "dir" BY <1>3, <1>4
<1>6. Entry(Last(path), kind) # NoName
  <2>1. Entry(Last(path), kind) \in Entries BY <1>4 DEF Entry, Entries
  <2> QED BY <2>1, SentinelAssumption
<1>7. ~SameNames(e) /\ ~SameNames(g) BY DEF SameNames, EditFrame
<1>8. ASSUME NEW x \in Path \ {Root, path, dst}, Parent(x) \in {from, to}
      PROVE  tree[x] = disk[x]
  <2>1. ~IsPrefix(path, x) BY <1>3, <1>8, PrefixOfParent
  <2> QED BY <1>3, <1>8, <2>1
<1>9. ASSUME tree = Without(Duplicated(disk, path, dst), path)
      PROVE  After(Listed(disk, from), e) = Listed(tree, from)
  <2>1. tree[path] = Absent BY <1>3, <1>9
  <2>2. \A x \in Path \ {Root, path} : Parent(x) = from => tree[x] = disk[x] BY <1>8
  <2>3. Listed(tree, from) =
           Listed(disk, from) \ Named(Listed(disk, from), Entry(Last(path), kind))
    BY <2>1, <2>2, ListedGone
  <2> QED BY <1>6, <2>3 DEF After, Edited, EditFrame
<1>10. After(Listed(disk, to), g) = Listed(tree, to)
  <2>1. disk[path] # Absent BY DEF CanArrive
  <2>2. \A x \in Path \ {Root, dst} : Parent(x) = to => tree[x] = disk[x] BY <1>8
  <2>3. tree[dst] # Absent BY <1>3, <2>1
  <2>4. Listed(tree, to) =
           (Listed(disk, to) \ Named(Listed(disk, to), Entry(Last(dst), tree[dst])))
              \cup {Entry(Last(dst), tree[dst])}
    BY <2>2, <2>3, ListedPut
  <2> QED BY <1>3, <2>4 DEF After, EditFrame
<1> QED BY <1>5, <1>7, <1>9, <1>10 DEF tree

\* An object is moved or copied.
LEMMA MoveCovers ==
    ASSUME Base, NEW p \in Proc, stack[p] # <<>>,
           Top(p).fn \in {"move", "copy"}, Top(p).at = "got",
           Top(p).path \in Path, Top(p).path # Root, Top(p).to \in Path, Top(p).kind \in Kind,
           Top(p).lazy \in BOOLEAN,
           NEW dst, dst = Child(Top(p).to, Last(Top(p).path)), CanArrive(Top(p).path, dst),
           NEW frame \in FrameSet, frame.path = Top(p).path,
           NEW added \in Upkeeps(Top(p).to, NoName, Entry(Last(Top(p).path), disk[Top(p).path]),
                                 Top(p).lazy),
           NEW upkeep, Drives(p, frame, upkeep),
           \/ /\ Top(p).fn = "move"
              /\ disk' = Without(Duplicated(disk, Top(p).path, dst), Top(p).path)
              /\ upkeep = Disappears(Top(p).path, Top(p).kind) \o added
           \/ /\ Top(p).fn = "copy"
              /\ disk' = Duplicated(disk, Top(p).path, dst)
              /\ upkeep = added
    PROVE  Covers(p, frame, upkeep)
<1> DEFINE path == Top(p).path
           to == Top(p).to
           from == Parent(path)
           new == Entry(Last(path), disk[path])
           e == EditFrame(from, Entry(Last(path), Top(p).kind), NoName)
           g == EditFrame(to, NoName, new)
           c == ClearFrame(to)
<1>1. Data /\ Top(p).fn \in Op BY DEF Base, Op
<1>2. /\ dst \in Path /\ dst # Root /\ Parent(dst) = to /\ Last(dst) = Last(path)
      /\ to \in Dir /\ disk[to] = "dir" /\ to # from
      /\ new \in Entries /\ ListingOk(to, {new})
  BY <1>1, MoveArrives
<1>3. disk' \in {Duplicated(disk, path, dst), Without(Duplicated(disk, path, dst), path)} OBVIOUS
<1>4. /\ e.path = from /\ e.fn = "edit" /\ g.path = to /\ g.fn = "edit"
      /\ c.path = to /\ c.fn = "clear"
  BY DEF EditFrame, ClearFrame
<1>5. \/ added = <<g>> \/ added = <<c>> \/ (added = <<>> /\ Top(p).lazy)
  <2>1. to \in Dir /\ new \in Entries /\ ListingOk(to, {new}) BY <1>2
  <2>2. added \in Upkeeps(to, NoName, new, Top(p).lazy) OBVIOUS
  <2> HIDE DEF new
  <2>3. \A d \in Dir, n \in Entries, lazy \in BOOLEAN : \A u \in Upkeeps(d, NoName, n, lazy) :
           ListingOk(d, {n}) =>
              u \in {<<EditFrame(d, NoName, n)>>, <<ClearFrame(d)>>} \/ (u = <<>> /\ lazy = TRUE)
    BY UpkeepsAre
  <2>4. Top(p).lazy \in BOOLEAN OBVIOUS
  <2>5. \/ added \in {<<EditFrame(to, NoName, new)>>, <<ClearFrame(to)>>}
        \/ added = <<>> /\ Top(p).lazy = TRUE
    BY <2>1, <2>2, <2>3, <2>4
  <2> QED BY <2>5
<1>6. Top(p).fn = "move" =>
         \/ upkeep = <<e, g>> \/ upkeep = <<e, c>> \/ (upkeep = <<e>> /\ Top(p).lazy)
  BY ZenonT(40), <1>2, MoveUpkeepIs
<1>7. /\ disk'[from] = "dir" /\ disk'[to] = "dir" /\ ~SameNames(e) /\ ~SameNames(g)
      /\ disk' = Without(Duplicated(disk, path, dst), path) =>
            After(Listed(disk, from), e) = Listed(disk', from)
      /\ After(Listed(disk, to), g) = Listed(disk', to)
  BY <1>2, <1>3, ArrivalEdits
<1>8. /\ \A x \in Path : disk[x] = "dir" /\ ~IsPrefix(path, x) => disk'[x] = "dir"
      /\ disk'[dst] = disk[path] /\ disk[path] # Absent /\ disk[dst] = Absent
      /\ ~IsPrefix(path, to)
      /\ disk' = Duplicated(disk, path, dst) =>
            \A x \in Path : ~IsPrefix(dst, x) => disk'[x] = disk[x]
      /\ \A x \in Path : disk[x] = "dir" => ~IsPrefix(dst, x)
  <2> DEFINE tree == disk'
  <2>1. tree \in {Duplicated(disk, path, dst), Without(Duplicated(disk, path, dst), path)} OBVIOUS
  <2> HIDE DEF tree
  <2>2. /\ \A x \in Path : disk[x] = "dir" /\ ~IsPrefix(path, x) => tree[x] = "dir"
        /\ tree[dst] = disk[path] /\ ~IsPrefix(path, to)
        /\ tree = Duplicated(disk, path, dst) =>
              \A x \in Path : ~IsPrefix(dst, x) => tree[x] = disk[x]
        /\ \A x \in Path : disk[x] = "dir" => ~IsPrefix(dst, x)
    BY <1>1, <1>2, <2>1, ArrivedHas
  <2> QED BY <2>2 DEF CanArrive, tree
<1>9. disk' # disk BY <1>8
<1>10. to # path
  <2>1. IsPrefix(path, path) BY PrefixOfParent
  <2> QED BY <1>8, <2>1
<1> HIDE DEF new, e, g, c
<1>11. ASSUME Top(p).lazy, to \in Changed(disk'), \A u \in Range(upkeep) : u.path # to
       PROVE  to \in Neglected(p)
  <2>1. frame.path # to BY <1>10
  <2> QED BY <1>1, <1>11, <2>1, LazyNeglected
<1>12. CASE Top(p).fn = "move"
  <2>1. disk' = Without(Duplicated(disk, path, dst), path) BY <1>12
  <2>2. Range(upkeep) \in {{e, g}, {e, c}} \/ (Range(upkeep) = {e} /\ Top(p).lazy)
    <3>1. CASE upkeep = <<e, g>>
      <4>1. Range(upkeep) = {e, g} BY <3>1, RangeOf
      <4> QED BY <4>1
    <3>2. CASE upkeep = <<e, c>>
      <4>1. Range(upkeep) = {e, c} BY <3>2, RangeOf
      <4> QED BY <4>1
    <3>3. CASE upkeep = <<e>> /\ Top(p).lazy BY <3>3, RangeOf
    <3> QED BY <1>6, <1>12, <3>1, <3>2, <3>3
  <2>3. ASSUME NEW d \in Dir, IsPrefix(path, d) PROVE d \in Neglected(p)
    BY <1>9, <1>12, <2>3, NeglectedIs
  <2>4. ASSUME NEW d \in Dir, disk[d] = "dir", disk'[d] # "dir" PROVE d \in Neglected(p)
    <3>1. IsPrefix(path, d) BY <1>8, <2>4, DirsArePaths
    <3> QED BY <2>3, <3>1
  <2>5. ASSUME NEW d \in Changed(disk'), disk[d] = "dir"
        PROVE  d \in Neglected(p) \/ \E u \in Range(upkeep) : u.path = d
    <3>1. d \in {from, to} \/ IsPrefix(path, d) BY <1>1, <1>2, <1>3, <2>5, ArrivedChanges
    <3>2. CASE IsPrefix(path, d) BY <2>3, <3>2 DEF Changed
    <3>3. CASE d = from BY <1>4, <2>2, <3>3
    <3>4. CASE d = to
      <4>1. CASE Range(upkeep) \in {{e, g}, {e, c}} BY <1>4, <3>4, <4>1
      <4>2. CASE Range(upkeep) = {e} /\ Top(p).lazy BY <1>2, <1>4, <1>11, <2>5, <3>4, <4>2
      <4> QED BY <2>2, <4>1, <4>2
    <3> QED BY <3>1, <3>2, <3>3, <3>4
  <2>6. ASSUME NEW u \in Range(upkeep), u.fn = "edit"
        PROVE  /\ disk'[u.path] = "dir" /\ ~SameNames(u)
               /\ After(Listed(disk, u.path), u) = Listed(disk', u.path)
    <3>1. u = e \/ u = g BY <1>4, <2>2, <2>6
    <3> QED BY <1>4, <1>7, <2>1, <3>1
  <2> QED BY <2>4, <2>5, <2>6 DEF Covers
<1>13. CASE Top(p).fn = "copy"
  <2>1. disk' = Duplicated(disk, path, dst) BY <1>13
  <2>2. Range(upkeep) \in {{g}, {c}} \/ (Range(upkeep) = {} /\ Top(p).lazy)
    BY <1>5, <1>13, RangeOf
  <2>3. ASSUME NEW d \in Dir, disk[d] = "dir" PROVE disk'[d] = "dir"
    <3>1. ~IsPrefix(dst, d) BY <1>8, <2>3, DirsArePaths
    <3> QED BY <1>8, <2>1, <2>3, <3>1, DirsArePaths
  <2>4. ASSUME NEW d \in Changed(disk'), disk[d] = "dir"
        PROVE  d \in Neglected(p) \/ \E u \in Range(upkeep) : u.path = d
    <3>1. d = to BY <1>1, <1>2, <1>3, <2>1, <2>4, ArrivedChanges
    <3>2. CASE Range(upkeep) \in {{g}, {c}} BY <1>4, <3>1, <3>2
    <3>3. CASE Range(upkeep) = {} /\ Top(p).lazy BY <1>11, <2>4, <3>1, <3>3
    <3> QED BY <2>2, <3>2, <3>3
  <2>5. ASSUME NEW u \in Range(upkeep), u.fn = "edit"
        PROVE  /\ disk'[u.path] = "dir" /\ ~SameNames(u)
               /\ After(Listed(disk, u.path), u) = Listed(disk', u.path)
    <3>1. u = g BY <1>4, <2>2, <2>5
    <3> QED BY <1>4, <1>7, <3>1
  <2> QED BY <2>3, <2>4, <2>5 DEF Covers
<1> QED BY <1>12, <1>13

\* The frame of an upload that succeeded
LEMMA UploadedHas ==
    ASSUME NEW f \in FrameSet, f.fn \in {"put", "puturl"}, f.at = "got"
    PROVE  Uploaded(f) \in FrameSet /\ Uploaded(f).path = f.path /\ Uploaded(f).fn = f.fn
<1> DEFINE g == Uploaded(f)
<1>1. f \in OpFrames /\ OpOk(f) BY FrameHas DEF Op
<1>2. /\ g.fn = f.fn /\ g.path = f.path /\ g.at = (IF f.fn = "put" THEN "done" ELSE "end")
      /\ g.changed = f.changed /\ g.to = f.to /\ g.kind = f.kind /\ g.lazy = f.lazy
      /\ g.kept = f.kept /\ g \in OpFrames
  BY <1>1 DEF OpFrames, Uploaded
<1>3. OpOk(g) BY <1>1, <1>2 DEF OpOk, InPlace
<1> QED BY <1>2, <1>3 DEF FrameSet

\* A step in which the driver changed the tree and the upkeep covers the change
Drove(p, frame, upkeep) ==
    /\ DrivesTree(p, frame, upkeep)
    /\ frame \in FrameSet /\ frame.fn \in Op /\ frame.path = Top(p).path
    /\ Covers(p, frame, upkeep)

\* MakeDir
LEMMA MkdirDrove ==
    ASSUME Base, NEW p \in Proc, stack[p] # <<>>, MkdirDrive(p)
    PROVE  Plain(p) \/ \E frame, upkeep : Drove(p, frame, upkeep)
<1> DEFINE f == Top(p)
           g == [f EXCEPT !.at = "end"]
<1>1. /\ f \in FrameSet /\ f.fn = "mkdir" /\ f.at = "got"
      /\ f.path \in Dir /\ f.path # Root
      /\ \/ MkdirClose(p, Failed) /\ UNCHANGED <<disk, cache, listG, left>>
         \/ /\ disk[Parent(f.path)] = "dir" /\ disk[f.path] \in {Absent, "dir"}
            /\ disk' = [disk EXCEPT ![f.path] = "dir"] /\ IsTree(disk')
            /\ \E upkeep \in Upkeeps(Parent(f.path), NoName, Entry(Last(f.path), "dir"), f.lazy) :
                  Drives(p, g, upkeep)
  BY MkdirDriven DEF Base
<1>2. CASE MkdirClose(p, Failed) /\ UNCHANGED <<disk, cache, listG, left>>
  <2>1. Making(Top(p), Top(p).path) BY <1>1 DEF Making
  <2> QED BY <1>1, <1>2, <2>1, MkdirCloseOrderly DEF Plain, Op
<1>3. ASSUME disk[Parent(f.path)] = "dir", disk[f.path] \in {Absent, "dir"},
             disk' = [disk EXCEPT ![f.path] = "dir"], IsTree(disk'),
             NEW upkeep \in Upkeeps(Parent(f.path), NoName, Entry(Last(f.path), "dir"), f.lazy),
             Drives(p, g, upkeep)
      PROVE  Drove(p, g, upkeep)
  <2>1. g \in FrameSet /\ g.path = f.path /\ g.fn = f.fn /\ f.fn \in Op BY <1>1, EndedHas DEF Op
  <2> HIDE DEF g
  <2>2. "dir" \in Kind BY DEF Kind
  <2>3. Covers(p, g, upkeep) BY <1>1, <1>3, <2>1, <2>2, PlaceCovers
  <2> QED BY <1>1, <1>3, <2>1, <2>3 DEF Drove, DrivesTree
<1> QED BY <1>1, <1>2, <1>3

\* Remove
LEMMA RemoveDrove ==
    ASSUME Base, NEW p \in Proc, stack[p] # <<>>, RemoveDrive(p)
    PROVE  Plain(p) \/ \E frame, upkeep : Drove(p, frame, upkeep)
<1> DEFINE f == Top(p)
           g == [f EXCEPT !.at = "end"]
<1>1. /\ f \in FrameSet /\ f.fn = "remove" /\ f.at = "got"
      /\ f.path \in Path /\ f.path # Root
      /\ \/ Quiet(p) /\ UNCHANGED <<disk, cache, listG, mkdirG, left>>
         \/ /\ ret[p] \in Kind /\ (ret[p] = "dir" => f.path \in Dir)
            /\ disk[f.path] # Absent
            /\ disk' = Without(disk, f.path) /\ IsTree(disk')
            /\ Drives(p, g, RemoveUpkeep(f.path, ret[p]))
  BY RemoveDriven DEF Base
<1>2. g \in FrameSet /\ g.path = f.path /\ g.fn = f.fn /\ f.fn \in Op BY <1>1, EndedHas DEF Op
<1> HIDE DEF g
<1>3. CASE Quiet(p) /\ UNCHANGED <<disk, cache, listG, mkdirG, left>>
  BY <1>2, <1>3, OpQuietPlain
<1>4. ASSUME ret[p] \in Kind, ret[p] = "dir" => f.path \in Dir, disk[f.path] # Absent,
             disk' = Without(disk, f.path), IsTree(disk'),
             Drives(p, g, RemoveUpkeep(f.path, ret[p]))
      PROVE  Drove(p, g, RemoveUpkeep(f.path, ret[p]))
  <2>1. Covers(p, g, RemoveUpkeep(f.path, ret[p])) BY <1>1, <1>4, RemoveCovers
  <2> QED BY <1>1, <1>2, <1>4, <2>1 DEF Drove, DrivesTree
<1> QED BY <1>1, <1>3, <1>4

\* Rename
LEMMA RenameDrove ==
    ASSUME Base, NEW p \in Proc, stack[p] # <<>>, RenameDrive(p)
    PROVE  Plain(p) \/ \E frame, upkeep : Drove(p, frame, upkeep)
<1> DEFINE f == Top(p)
           g == [f EXCEPT !.at = "end"]
           dst == Child(Parent(f.path), f.to)
<1>1. /\ f \in FrameSet /\ f.fn = "rename" /\ f.at = "got"
      /\ f.path \in Path /\ f.path # Root /\ f.to \in Name /\ f.lazy \in BOOLEAN
      /\ \/ Quiet(p) /\ UNCHANGED <<disk, cache, listG, mkdirG, left>>
         \/ /\ ret[p] \in Kind
            /\ disk[f.path] # Absent /\ (dst = f.path \/ CanArrive(f.path, dst))
            /\ disk' = Renamed(f.path, dst) /\ IsTree(disk')
            /\ \E upkeep \in Upkeeps(Parent(f.path), Entry(Last(f.path), ret[p]),
                                     Entry(f.to, disk[f.path]), f.lazy) :
                  Drives(p, g, upkeep)
  BY RenameDriven DEF Base
<1>2. /\ g \in FrameSet /\ g.path = f.path /\ g.fn = "rename" /\ g.at = "end" /\ g.to = f.to
      /\ f.fn \in Op
  BY <1>1, EndedHas DEF Op
<1> HIDE DEF g
<1>3. CASE Quiet(p) /\ UNCHANGED <<disk, cache, listG, mkdirG, left>>
  BY <1>2, <1>3, OpQuietPlain
<1>4. ASSUME ret[p] \in Kind, disk[f.path] # Absent, dst = f.path \/ CanArrive(f.path, dst),
             disk' = Renamed(f.path, dst), IsTree(disk'),
             NEW upkeep \in Upkeeps(Parent(f.path), Entry(Last(f.path), ret[p]),
                                    Entry(f.to, disk[f.path]), f.lazy),
             Drives(p, g, upkeep)
      PROVE  Drove(p, g, upkeep)
  <2>1. Covers(p, g, upkeep) BY <1>1, <1>2, <1>4, RenameCovers
  <2> QED BY <1>1, <1>2, <1>4, <2>1 DEF Drove, DrivesTree
<1> QED BY <1>1, <1>3, <1>4

\* Move and Copy
LEMMA MoveDrove ==
    ASSUME Base, NEW p \in Proc, stack[p] # <<>>, MoveDrive(p)
    PROVE  Plain(p) \/ \E frame, upkeep : Drove(p, frame, upkeep)
<1> DEFINE f == Top(p)
           g == [f EXCEPT !.at = "end"]
           dst == Child(f.to, Last(f.path))
           both == Duplicated(disk, f.path, dst)
<1>1. /\ f \in FrameSet /\ f.fn \in {"move", "copy"} /\ f.at = "got"
      /\ f.path \in Path /\ f.path # Root /\ f.to \in Path /\ f.kind \in Kind
      /\ f.lazy \in BOOLEAN
      /\ \/ Quiet(p) /\ UNCHANGED <<disk, cache, listG, mkdirG, left>>
         \/ /\ CanArrive(f.path, dst)
            /\ \E upkeep \in Upkeeps(f.to, NoName, Entry(Last(f.path), disk[f.path]), f.lazy) :
                  \/ /\ f.fn = "move"
                     /\ disk' = Without(both, f.path) /\ IsTree(disk')
                     /\ Drives(p, g, Disappears(f.path, f.kind) \o upkeep)
                  \/ /\ f.fn = "copy"
                     /\ disk' = both /\ IsTree(disk')
                     /\ Drives(p, g, upkeep)
  BY MoveDriven DEF Base
<1>2. g \in FrameSet /\ g.path = f.path /\ g.fn = f.fn /\ f.fn \in Op BY <1>1, EndedHas DEF Op
<1> HIDE DEF g
<1>3. CASE Quiet(p) /\ UNCHANGED <<disk, cache, listG, mkdirG, left>>
  BY <1>2, <1>3, OpQuietPlain
<1>4. ASSUME CanArrive(f.path, dst),
             NEW added \in Upkeeps(f.to, NoName, Entry(Last(f.path), disk[f.path]), f.lazy),
             NEW upkeep, Drives(p, g, upkeep), IsTree(disk'),
             \/ /\ f.fn = "move" /\ disk' = Without(both, f.path)
                /\ upkeep = Disappears(f.path, f.kind) \o added
             \/ f.fn = "copy" /\ disk' = both /\ upkeep = added
      PROVE  Drove(p, g, upkeep)
  <2>1. Covers(p, g, upkeep) BY <1>1, <1>2, <1>4, MoveCovers
  <2> QED BY <1>1, <1>2, <1>4, <2>1 DEF Drove, DrivesTree
<1> QED BY <1>1, <1>3, <1>4

\* Put and PutURL
LEMMA PutDrove ==
    ASSUME Base, NEW p \in Proc, stack[p] # <<>>, PutDrive(p)
    PROVE  Plain(p) \/ \E frame, upkeep : Drove(p, frame, upkeep)
<1> DEFINE f == Top(p)
           g == Uploaded(f)
<1>1. /\ f \in FrameSet /\ f.fn \in {"put", "puturl"} /\ f.at = "got"
      /\ f.path \in Path /\ f.path # Root /\ f.kind \in {"file", "empty"}
      /\ f.lazy \in BOOLEAN
      /\ \/ Quiet(p) /\ UNCHANGED <<disk, cache, listG, mkdirG, left>>
         \/ /\ disk[Parent(f.path)] = "dir" /\ disk[f.path] # "dir"
            /\ disk' = [disk EXCEPT ![f.path] = f.kind] /\ IsTree(disk')
            /\ \E upkeep \in Upkeeps(Parent(f.path), NoName, Entry(Last(f.path), f.kind), f.lazy) :
                  Drives(p, g, upkeep)
  BY PutDriven DEF Base
<1>2. g \in FrameSet /\ g.path = f.path /\ g.fn = f.fn /\ f.fn \in Op BY <1>1, UploadedHas DEF Op
<1> HIDE DEF g
<1>3. CASE Quiet(p) /\ UNCHANGED <<disk, cache, listG, mkdirG, left>>
  BY <1>2, <1>3, OpQuietPlain
<1>4. ASSUME disk[Parent(f.path)] = "dir", disk[f.path] # "dir",
             disk' = [disk EXCEPT ![f.path] = f.kind], IsTree(disk'),
             NEW upkeep \in Upkeeps(Parent(f.path), NoName, Entry(Last(f.path), f.kind), f.lazy),
             Drives(p, g, upkeep)
      PROVE  Drove(p, g, upkeep)
  <2>1. f.kind \in Kind /\ f.kind # "dir" BY <1>1 DEF Kind
  <2>2. Covers(p, g, upkeep) BY <1>1, <1>2, <1>4, <2>1, PlaceCovers
  <2> QED BY <1>1, <1>2, <1>4, <2>2 DEF Drove, DrivesTree
<1> QED BY <1>1, <1>3, <1>4


\* The steps in which the driver is to change the tree: it does, and the upkeep covers
\* the change, or the step is plain.
LEMMA DriverCovers ==
    ASSUME Base, NEW p \in Proc, stack[p] # <<>>,
           MkdirDrive(p) \/ RemoveDrive(p) \/ RenameDrive(p) \/ MoveDrive(p) \/ PutDrive(p)
    PROVE  Plain(p) \/ \E frame, upkeep : Drove(p, frame, upkeep)
BY MkdirDrove, RemoveDrove, RenameDrove, MoveDrove, PutDrove

-----------------------------------------------------------------------------
(* What the history says *)

\* Two elements make a set of more than one.
LEMMA TwoInSet ==
    ASSUME NEW S, IsFiniteSet(S), NEW x \in S, NEW y \in S, x # y
    PROVE  Cardinality(S) > 1
<1>1. IsFiniteSet(S \ {x}) /\ Cardinality(S \ {x}) = Cardinality(S) - 1 BY FS_RemoveElement
<1>2. Cardinality(S) \in Nat /\ Cardinality(S \ {x}) \in Nat BY <1>1, FS_CardinalityType
<1>3. Cardinality(S \ {x}) # 0 BY <1>1, FS_EmptySet
<1> QED BY <1>1, <1>2, <1>3

\* Who has a change, or a listing, of a directory open
LEMMA OpenIs ==
    ASSUME NEW d
    PROVE  /\ \A p \in Proc : p \in Open(d) <=> OpensOn(stack[p], d)
           /\ \A p \in Proc : p \in Open(d)' <=> OpensOn(stack'[p], d)
           /\ "flight" \in Open(d) <=> listG[d].stage = "read"
           /\ "flight" \in Open(d)' <=> listG'[d].stage = "read"
           /\ \A x \in Open(d) \cup Open(d)' : x \in Proc \/ x = "flight"
           /\ IsFiniteSet(Open(d)')
<1>1. /\ \A p \in Proc : p \in Open(d) <=> OpensOn(stack[p], d)
      /\ "flight" \in Open(d) <=> listG[d].stage = "read"
      /\ \A x \in Open(d) : x \in Proc \/ x = "flight"
  BY SentinelAssumption DEF Open, OpensOn, Range
<1>2. /\ \A p \in Proc : p \in Open(d)' <=> OpensOn(stack'[p], d)
      /\ "flight" \in Open(d)' <=> listG'[d].stage = "read"
      /\ \A x \in Open(d)' : x \in Proc \/ x = "flight"
  BY SentinelAssumption DEF Open, OpensOn, Range
<1>3. IsFiniteSet(Proc \cup {"flight"}) BY BoundAssumption, FS_AddElement
<1>4. Open(d)' \subseteq Proc \cup {"flight"} BY <1>2
<1>5. IsFiniteSet(Open(d)') BY <1>3, <1>4, FS_Subset
<1> QED BY <1>1, <1>2, <1>5

\* What a step leaves in the history of a directory
LEMMA ObserveHas ==
    ASSUME NEW neglected, Observe(neglected), NEW d \in Dir
    PROVE  /\ race'[d] => d \in suspect' /\ Open(d)' # {}
           /\ race[d] /\ Open(d)' # {} => race'[d]
           /\ \A x, y \in Open(d)' : x # y => race'[d]
           /\ d \notin suspect' =>
                 \/ cache'[d] = NoListing /\ Open(d)' = {}
                 \/ /\ ~race[d] /\ ~race'[d] /\ d \notin neglected
                    /\ d \in suspect => listG[d].stage = "read" /\ listG'[d].stage = "stored"
<1> DEFINE O == Open(d)'
<1>1. race'[d] <=> O # {} /\ (race[d] \/ Cardinality(O) > 1) BY DEF Observe
<1>2. d \in suspect' <=>
         /\ cache'[d] # NoListing \/ O # {}
         /\ \/ race[d] \/ race'[d] \/ d \in neglected
            \/ d \in suspect /\ ~(listG[d].stage = "read" /\ listG'[d].stage = "stored")
  BY DEF Observe
<1>3. IsFiniteSet(O) BY OpenIs
<1> HIDE DEF O
<1>4. \A x, y \in O : x # y => race'[d] BY <1>1, <1>3, TwoInSet
<1> QED BY <1>1, <1>2, <1>4 DEF O

-----------------------------------------------------------------------------
(* The invariant of the cache *)

\* The listing of d is being cleared by who changed d; an object of d is being renamed
\* to its own name; the cached listing of d, if there is one, is right.
Clears(s, d) == OpensOn(s, d) /\ ClearsOn(s, d)
Clearing(d) == \E p \in Proc : Clears(stack[p], d)
Selfing(d) == \E p \in Proc : SelfOn(stack[p], d)
Pending(d) == \E p \in Proc : EditsOn(stack[p], d) # {}
Exact(d) == cache[d] \in {NoListing, OnDisk(d)}

\* A pending edit of d is about to make the cached listing right.
EditOk(d, e) ==
    /\ disk[d] = "dir"
    /\ \/ SameNames(e)
       \/ /\ e.at = "start" => cache[d] = NoListing \/ After(cache[d], e) = OnDisk(d)
          /\ e.at = "set" => e.listing = OnDisk(d)

\* A cached listing is one of a directory and right, or it is about to be.
SoundAt(d) ==
    /\ cache[d] # NoListing => disk[d] = "dir" \/ Clearing(d)
    /\ Clearing(d) \/ Pending(d) \/ Selfing(d) \/ Exact(d)
    /\ \A p \in Proc : \A e \in EditsOn(stack[p], d) : EditOk(d, e)

Sound == \A d \in Dir \ suspect : SoundAt(d)

\* Who edits the listing of a directory has a change of it open.
OwnedBy(s, d) ==
    \A e \in EditsOn(s, d) : OpensOn(s, d) /\ (SameNames(e) => SelfOn(s, d))
Owned == \A p \in Proc, d \in Dir : OwnedBy(stack[p], d)

\* A race is a suspicion, and two who have a directory open are a race.
Raced ==
    \A d \in Dir : /\ race[d] => d \in suspect /\ Open(d) # {}
                   /\ \A x, y \in Open(d) : x # y => race[d]

\* Without a race a listing that was read and not stored yet is right.
Fresh ==
    \A d \in Dir : ~race[d] /\ listG[d].stage = "read" => listG[d].listing = OnDisk(d)

\* What a step leaves of the concerns of a stack with d
Carries(s, t, d) ==
    /\ EditsOn(t, d) = EditsOn(s, d)
    /\ Clears(s, d) => Clears(t, d)
    /\ SelfOn(s, d) => SelfOn(t, d)

\* Steps that are observed keep what the history says.
LEMMA RacedKept ==
    ASSUME NEW neglected, Observe(neglected)
    PROVE  Raced'
<1>1. ASSUME NEW d \in Dir
      PROVE  /\ race'[d] => d \in suspect' /\ Open(d)' # {}
             /\ \A x, y \in Open(d)' : x # y => race'[d]
  BY ObserveHas
<1> QED BY <1>1 DEF Raced

\* The listing of a flight stays right while the directory stays as it is.
LEMMA FreshKept ==
    ASSUME Fresh, NEW neglected, Observe(neglected),
           \A d \in Dir : listG'[d].stage = "read" /\ ~race'[d] =>
              \/ listG'[d].listing = OnDisk(d)'
              \/ listG'[d] = listG[d] /\ OnDisk(d)' = OnDisk(d)
    PROVE  Fresh'
<1>1. ASSUME NEW d \in Dir, ~race'[d], listG'[d].stage = "read"
      PROVE  listG'[d].listing = OnDisk(d)'
  <2>1. "flight" \in Open(d)' BY <1>1, OpenIs
  <2>2. ~race[d] BY <1>1, <2>1, ObserveHas
  <2> QED BY <1>1, <2>2 DEF Fresh
<1> QED BY <1>1 DEF Fresh

\* A cached listing stays right while the directory stays as it is, and whoever works
\* on it works on, or when it is dropped.
LEMMA SoundKept ==
    ASSUME NEW d, SoundAt(d), disk[d] = "dir" => disk'[d] = "dir", OnDisk(d)' = OnDisk(d),
           \A q \in Proc : EditsOn(stack'[q], d) \subseteq EditsOn(stack[q], d),
           \/ cache'[d] = NoListing
           \/ cache'[d] = cache[d] /\ \A q \in Proc : Carries(stack[q], stack'[q], d)
    PROVE  SoundAt(d)'
<1>1. ASSUME NEW q \in Proc, NEW e \in EditsOn(stack'[q], d) PROVE EditOk(d, e)'
  <2>1. EditOk(d, e) BY <1>1 DEF SoundAt
  <2> QED BY <2>1 DEF EditOk
<1>2. CASE cache'[d] = NoListing
  <2>1. Exact(d)' BY <1>2 DEF Exact
  <2> QED BY <1>1, <1>2, <2>1 DEF SoundAt
<1>3. CASE cache'[d] = cache[d] /\ \A q \in Proc : Carries(stack[q], stack'[q], d)
  <2>1. Clearing(d) => Clearing(d)' BY <1>3 DEF Clearing, Carries
  <2>2. Selfing(d) => Selfing(d)' BY <1>3 DEF Selfing, Carries
  <2>3. Pending(d) => Pending(d)' BY <1>3 DEF Pending, Carries
  <2>4. Exact(d) => Exact(d)' BY <1>3 DEF Exact
  <2> QED BY <1>1, <1>3, <2>1, <2>2, <2>3, <2>4 DEF SoundAt
<1> QED BY <1>2, <1>3

\* A step that is observed keeps the invariant where there is neither race nor neglect.
LEMMA SoundSteps ==
    ASSUME Sound, Owned', NEW neglected, Observe(neglected),
           \A d \in Dir \ neglected : SoundAt(d) /\ ~race[d] /\ ~race'[d] => SoundAt(d)',
           \A d \in Dir : /\ listG[d].stage = "read" /\ listG'[d].stage = "stored"
                          /\ ~race[d] /\ ~race'[d]
                          => SoundAt(d)'
    PROVE  Sound'
<1>1. ASSUME NEW d \in Dir, d \notin suspect' PROVE SoundAt(d)'
  <2>1. CASE cache'[d] = NoListing /\ Open(d)' = {}
    <3>1. Exact(d)' BY <2>1 DEF Exact
    <3>2. ASSUME NEW q \in Proc PROVE EditsOn(stack'[q], d) = {}
      <4>1. ~OpensOn(stack'[q], d) BY <2>1, OpenIs
      <4> QED BY <4>1 DEF Owned, OwnedBy
    <3> QED BY <2>1, <3>1, <3>2 DEF SoundAt
  <2>2. CASE /\ ~race[d] /\ ~race'[d] /\ d \notin neglected
             /\ d \in suspect => listG[d].stage = "read" /\ listG'[d].stage = "stored"
    <3>1. CASE d \in suspect BY <2>2, <3>1
    <3>2. CASE d \notin suspect BY <2>2, <3>2 DEF Sound
    <3> QED BY <3>1, <3>2
  <2> QED BY <1>1, <2>1, <2>2, ObserveHas
<1> QED BY <1>1 DEF Sound

-----------------------------------------------------------------------------
(* Steps that are not the driver's *)

\* Unless the top of a stack is upkeep, nothing in the stack is at work on a cached
\* listing, but for the renaming of an object to its own name when it ends.
LEMMA NothingUnder ==
    ASSUME Base, NEW p \in Proc, stack[p] # <<>>, ~IsUpkeep(Top(p)), NEW d
    PROVE  LET s == stack[p] IN
           /\ \A f \in Range(Tail(s)) : ~UnderUpkeep(f)
           /\ EditsOn(s, d) = {} /\ EditsOn(Tail(s), d) = {}
           /\ ~Clears(s, d) /\ ~SelfOn(Tail(s), d)
           /\ SelfOn(s, d) => /\ Top(p).fn = "rename" /\ Top(p).at = "end"
                              /\ Top(p).to = Last(Top(p).path) /\ Parent(Top(p).path) = d
<1> DEFINE s == stack[p]
<1>1. /\ s \in Seq(FrameSet) /\ GoodStack(s) /\ Top(p) = Head(s)
      /\ Range(s) = {Top(p)} \cup Range(Tail(s))
  BY TopHas DEF Base
<1> HIDE DEF s
<1>2. \A f \in Range(Tail(s)) : ~UnderUpkeep(f) BY <1>1, BelowTop DEF s
<1>3. \A f \in Range(Tail(s)) : ~IsUpkeep(f) /\ ~(f.fn = "rename" /\ f.at = "end")
  BY <1>2 DEF UnderUpkeep, Op
<1>4. \A f \in Range(s) : ~IsUpkeep(f) BY <1>1, <1>3
<1>5. EditsOn(s, d) = {} /\ EditsOn(Tail(s), d) = {} /\ ~Clears(s, d)
  BY <1>3, <1>4 DEF EditsOn, IsEdit, IsUpkeep, Clears, ClearsOn
<1>6. ~SelfOn(Tail(s), d) BY <1>3 DEF SelfOn
<1>7. SelfOn(s, d) => /\ Top(p).fn = "rename" /\ Top(p).at = "end"
                      /\ Top(p).to = Last(Top(p).path) /\ Parent(Top(p).path) = d
  BY <1>1, <1>3 DEF SelfOn
<1> QED BY <1>2, <1>5, <1>6, <1>7 DEF s

\* A step that is calm for a stack keeps what it has to do with a directory.
LEMMA CalmCarries ==
    ASSUME NEW s, NEW t, Calm(s, t), NEW d
    PROVE  Carries(s, t, d) /\ (OwnedBy(s, d) => OwnedBy(t, d))
BY DEF Calm, Carries, Clears, OwnedBy

\* A steady step keeps what the stacks have to do with a directory that it does not
\* neglect.
LEMMA SteadyCarries ==
    ASSUME Base, Owned, NEW p \in Proc, stack[p] # <<>>, ~IsUpkeep(Top(p)), Steady(p)
    PROVE  /\ Owned'
           /\ \A d \in Dir, q \in Proc : EditsOn(stack'[q], d) = EditsOn(stack[q], d)
           /\ \A d \in Dir \ Neglected(p), q \in Proc : Carries(stack[q], stack'[q], d)
<1>1. ASSUME NEW q \in Proc, NEW d \in Dir
      PROVE  /\ OwnedBy(stack'[q], d)
             /\ EditsOn(stack'[q], d) = EditsOn(stack[q], d)
             /\ d \notin Neglected(p) => Carries(stack[q], stack'[q], d)
  <2>1. CASE Calm(stack[q], stack'[q]) BY <2>1, CalmCarries DEF Owned, Carries
  <2>2. CASE q = p /\ stack'[p] = Tail(stack[p])
    <3>1. /\ EditsOn(stack[p], d) = {} /\ EditsOn(stack'[p], d) = {} /\ ~Clears(stack[p], d)
          /\ SelfOn(stack[p], d) => /\ Top(p).fn = "rename" /\ Top(p).at = "end"
                                    /\ Top(p).to = Last(Top(p).path) /\ Parent(Top(p).path) = d
      BY <2>2, NothingUnder
    <3>2. SelfOn(stack[p], d) => d \in Neglected(p) BY <3>1 DEF Neglected
    <3> QED BY <2>2, <3>1, <3>2 DEF Carries, OwnedBy
  <2> QED BY <2>1, <2>2 DEF Steady
<1> QED BY <1>1 DEF Owned

\* A directory that is listed is a directory.
LEMMA ListedAreDirs ==
    ASSUME NEW d, IsTree(disk), OnDisk(d) # {}
    PROVE  disk[d] = "dir"
<1>1. PICK e : e \in Listed(disk, d) BY ListedIs
<1>2. PICK x \in Path \ {Root} : Parent(x) = d /\ disk[x] # Absent BY <1>1, ListedIs
<1> QED BY <1>2 DEF IsTree

\* The parts of the invariant that only Coherent needs
Reliable == Owned /\ Raced /\ Fresh /\ Sound

\* A steady step that touches neither disk nor cache, and lists nothing
LEMMA SteadyReliable ==
    ASSUME Base, Reliable, NEW p \in Proc, stack[p] # <<>>, ~IsUpkeep(Top(p)), Steady(p),
           Observe(Neglected(p)), disk' = disk, cache' = cache,
           \A d \in Dir : /\ ~(listG[d].stage = "read" /\ listG'[d].stage = "stored")
                          /\ listG'[d].stage = "read" =>
                                listG'[d] = listG[d] \/ listG'[d].listing = OnDisk(d)
    PROVE  Reliable'
<1>1. Owned /\ Raced /\ Fresh /\ Sound BY DEF Reliable
<1>2. Owned' BY <1>1, SteadyCarries
<1>3. Raced' BY RacedKept
<1>4. \A d : OnDisk(d)' = OnDisk(d) BY DEF OnDisk
<1>5. Fresh' BY <1>1, <1>4, FreshKept
<1>6. ASSUME NEW d \in Dir \ Neglected(p), SoundAt(d) PROVE SoundAt(d)'
  <2>1. \A q \in Proc : Carries(stack[q], stack'[q], d) BY <1>1, SteadyCarries
  <2>2. \A q \in Proc : EditsOn(stack'[q], d) \subseteq EditsOn(stack[q], d) BY <2>1 DEF Carries
  <2> QED BY <1>4, <1>6, <2>1, <2>2, SoundKept
<1>7. Sound' BY <1>1, <1>2, <1>6, SoundSteps
<1> QED BY <1>2, <1>3, <1>5, <1>7 DEF Reliable

\* Who has a directory open that is not raced has it alone.
LEMMA Alone ==
    ASSUME Raced, NEW d \in Dir, ~race[d], NEW x \in Open(d), NEW q \in Proc, q # x
    PROVE  ~OpensOn(stack[q], d)
<1>1. q \in Open(d) => race[d] BY DEF Raced
<1> QED BY <1>1, OpenIs

\* The listing of a flight is cached.
LEMMA StoreReliable ==
    ASSUME Base, Reliable, NEW p \in Proc, stack[p] # <<>>, ListStore(p), Observe(Neglected(p))
    PROVE  Reliable'
<1>0. PICK dir \in Dir : dir = Top(p).path BY ListStoreOrderly
<1>1. Owned /\ Raced /\ Fresh /\ Sound BY DEF Reliable
<1>2. /\ Orderly(p) /\ Top(p).fn = "list" /\ dir \in Dir
      /\ listG[dir].stage = "read"
      /\ \A d \in Dir \ {dir} : listG'[d] = listG[d]
      /\ listG'[dir].stage = "stored"
      /\ cache' = [cache EXCEPT ![dir] =
                      IF listG[dir].listing = {} THEN NoListing ELSE listG[dir].listing]
  BY <1>0, ListStoreOrderly
<1>3. disk' = disk BY DEF ListStore
<1>4. \A d : OnDisk(d)' = OnDisk(d) BY <1>3 DEF OnDisk
<1>5. ~IsUpkeep(Top(p)) /\ Steady(p) BY <1>2 DEF IsUpkeep, Orderly
<1>6. Owned' BY <1>1, <1>5, SteadyCarries
<1>7. Raced' BY RacedKept
<1>8. \A d \in Dir : listG'[d].stage = "read" => listG'[d] = listG[d] BY <1>2
<1>9. Fresh' BY <1>1, <1>4, <1>8, FreshKept
<1>10. IsTree(disk) /\ cache \in [Dir -> (SUBSET Entries) \cup {NoListing}] BY DEF Base, Data
<1>11. \A d \in Dir \ {dir} : cache'[d] = cache[d] BY <1>2, <1>10
<1>12. cache'[dir] = IF listG[dir].listing = {} THEN NoListing ELSE listG[dir].listing
  BY <1>2, <1>10
<1>13. ASSUME ~race[dir] PROVE SoundAt(dir)'
  <2>1. "flight" \in Open(dir) BY <1>2, OpenIs
  <2>2. \A q \in Proc : ~OpensOn(stack[q], dir) BY <1>1, <1>2, <1>13, <2>1, Alone, SentinelAssumption
  <2>3. \A q \in Proc : EditsOn(stack[q], dir) = {} BY <1>1, <1>2, <2>2 DEF Owned, OwnedBy
  <2>4. \A q \in Proc : EditsOn(stack'[q], dir) = {} BY <1>1, <1>2, <1>5, <2>3, SteadyCarries
  <2>5. listG[dir].listing = OnDisk(dir) BY <1>1, <1>2, <1>13 DEF Fresh
  <2>6. cache'[dir] # NoListing => disk'[dir] = "dir" BY <1>3, <1>10, <1>12, <2>5, ListedAreDirs
  <2>7. Exact(dir)' BY <1>4, <1>12, <2>5 DEF Exact
  <2> QED BY <2>4, <2>6, <2>7 DEF SoundAt
<1>14. ASSUME NEW d \in Dir \ Neglected(p), SoundAt(d), d # dir PROVE SoundAt(d)'
  <2>1. \A q \in Proc : Carries(stack[q], stack'[q], d) BY <1>1, <1>5, SteadyCarries
  <2>2. \A q \in Proc : EditsOn(stack'[q], d) \subseteq EditsOn(stack[q], d) BY <2>1 DEF Carries
  <2> QED BY <1>3, <1>4, <1>11, <1>14, <2>1, <2>2, SoundKept
<1>15. \A d \in Dir : listG[d].stage = "read" /\ listG'[d].stage = "stored" => d = dir
  BY <1>2
<1>16. Sound' BY <1>1, <1>6, <1>13, <1>14, <1>15, SoundSteps
<1> QED BY <1>6, <1>7, <1>9, <1>16 DEF Reliable

\* The steps of List at its flight
LEMMA ListReliable ==
    ASSUME Base, Reliable, NEW p \in Proc, stack[p] # <<>>, Observe(Neglected(p)),
           ListDo(p) \/ ListRead(p) \/ ListStore(p) \/ ListClose(p)
    PROVE  Reliable'
<1>1. listG \in [Dir -> FlightRecord] BY DEF Base, Data
<1>2. CASE ListDo(p)
  <2>1. /\ Orderly(p) /\ Top(p).fn = "list" /\ Top(p).path \in Dir
        /\ \/ listG' = listG
           \/ /\ listG[Top(p).path] = NoFlight
              /\ listG' = [listG EXCEPT ![Top(p).path] = [stage |-> "open", listing |-> {}]]
    BY <1>2, ListDoOrderly
  <2>2. \A d \in Dir : listG'[d] = listG[d] \/ listG'[d].stage = "open" BY <1>1, <2>1
  <2>3. disk' = disk /\ cache' = cache BY <1>2 DEF ListDo
  <2>4. ~IsUpkeep(Top(p)) /\ Steady(p) BY <2>1 DEF IsUpkeep, Orderly
  <2> QED BY <2>2, <2>3, <2>4, SteadyReliable
<1>3. CASE ListRead(p)
  <2>1. /\ Orderly(p) /\ Top(p).fn = "list" /\ Top(p).path \in Dir
        /\ \E flight \in FlightRecord :
              /\ listG' = [listG EXCEPT ![Top(p).path] = flight]
              /\ \/ flight = [stage |-> "read", listing |-> OnDisk(Top(p).path)]
                 \/ flight.stage = "failed"
    BY <1>3, ListReadOrderly
  <2>2. \A d \in Dir : \/ listG'[d] = listG[d]
                       \/ listG'[d].stage = "read" /\ listG'[d].listing = OnDisk(d)
                       \/ listG'[d].stage = "failed"
    BY <1>1, <2>1
  <2>3. disk' = disk /\ cache' = cache BY <1>3 DEF ListRead
  <2>4. ~IsUpkeep(Top(p)) /\ Steady(p) BY <2>1 DEF IsUpkeep, Orderly
  <2> QED BY <2>2, <2>3, <2>4, SteadyReliable
<1>4. CASE ListStore(p) BY <1>4, StoreReliable
<1>5. CASE ListClose(p)
  <2>1. /\ Orderly(p) /\ Top(p).fn = "list" /\ Top(p).path \in Dir
        /\ listG' = [listG EXCEPT ![Top(p).path] = NoFlight]
    BY <1>5, ListCloseOrderly
  <2>2. \A d \in Dir : listG'[d] = listG[d] \/ listG'[d].stage = "none"
    BY <1>1, <2>1 DEF NoFlight
  <2>3. disk' = disk /\ cache' = cache BY <1>5 DEF ListClose
  <2>4. ~IsUpkeep(Top(p)) /\ Steady(p) BY <2>1 DEF IsUpkeep, Orderly
  <2> QED BY <2>2, <2>3, <2>4, SteadyReliable
<1> QED BY <1>2, <1>3, <1>4, <1>5

\* Plain steps
LEMMA PlainReliable ==
    ASSUME Base, Reliable, NEW p \in Proc, stack[p] # <<>>, Plain(p), Observe(Neglected(p))
    PROVE  Reliable'
<1>1. Steady(p) /\ disk' = disk /\ cache' = cache /\ listG' = listG BY DEF Plain, Orderly
<1>2. ~IsUpkeep(Top(p)) BY DEF Plain, IsUpkeep, Op
<1> QED BY <1>1, <1>2, SteadyReliable

-----------------------------------------------------------------------------
(* Steps of the driver *)

\* The frames of the upkeep are fresh.
LEMMA UpkeepHas ==
    ASSUME NEW upkeep, IsUpkeepSeq(upkeep), NEW u \in Range(upkeep)
    PROVE  u \in FrameSet /\ IsUpkeep(u) /\ u.at = "start" /\ u.path \in Dir /\ u.changed = {}
<1>1. u \in FrameSet /\ IsUpkeep(u) /\ u.at = "start" BY RangeOf DEF IsUpkeepSeq
<1>2. u.fn \notin Op BY <1>1 DEF IsUpkeep, Op
<1> QED BY <1>1, <1>2, FrameHas

\* What the stacks have to do with a directory before and after the driver changed
\* the tree
LEMMA DroveStacks ==
    ASSUME Base, NEW p \in Proc, stack[p] # <<>>, NEW frame, NEW upkeep, Drove(p, frame, upkeep)
    PROVE  /\ \A q \in Proc \ {p} : stack'[q] = stack[q]
           /\ UNCHANGED <<cache, listG>>
           /\ \A d : EditsOn(stack[p], d) = {} /\ ~Clears(stack[p], d) /\ ~SelfOn(stack[p], d)
           /\ \A d, u : u \in EditsOn(stack'[p], d) <=> u \in Range(upkeep) /\ IsEdit(u, d)
           /\ \A d : d \in Changed(disk') \/ (\E u \in Range(upkeep) : u.path = d) =>
                        OpensOn(stack'[p], d)
           /\ \A d : (\E u \in Range(upkeep) : u.fn = "clear" /\ u.path = d) =>
                        Clears(stack'[p], d)
           /\ \A d : /\ \E u \in Range(upkeep) : u.path = d
                     /\ frame.fn = "rename" /\ frame.at = "end" /\ frame.to = Last(frame.path)
                     /\ Parent(frame.path) = d
                     => SelfOn(stack'[p], d)
<1> DEFINE F == Changing(frame, upkeep)
<1>1. /\ Top(p).fn \in Op /\ Top(p).at = "got" /\ Drives(p, frame, upkeep)
      /\ frame \in FrameSet /\ frame.fn \in Op
  BY DEF Drove, DrivesTree
<1>2. /\ \A q \in Proc \ {p} : stack'[q] = stack[q]
      /\ UNCHANGED <<cache, listG>>
      /\ Range(stack'[p]) = Range(upkeep) \cup {F} \cup Range(Tail(stack[p]))
  BY <1>1, DrivesOrderly
<1>3. ~IsUpkeep(Top(p)) BY <1>1 DEF IsUpkeep, Op
<1>4. \A d : EditsOn(stack[p], d) = {} /\ EditsOn(Tail(stack[p]), d) = {} /\ ~Clears(stack[p], d)
             /\ ~SelfOn(stack[p], d)
  BY <1>1, <1>3, NothingUnder
<1>5. /\ F.fn = frame.fn /\ F.at = frame.at /\ F.to = frame.to /\ F.path = frame.path
      /\ F.changed = Changed(disk') \cup {u.path : u \in Range(upkeep)}
  <2>1. frame \in OpFrames BY <1>1, FrameHas
  <2> QED BY <2>1 DEF OpFrames, Changing
<1> HIDE DEF F
<1>6. F.fn # "edit" BY <1>1, <1>5 DEF Op
<1>7. \A d, u : u \in EditsOn(stack'[p], d) <=> u \in Range(upkeep) /\ IsEdit(u, d)
  BY <1>2, <1>4, <1>6 DEF EditsOn, IsEdit
<1>8. \A d : d \in Changed(disk') \/ (\E u \in Range(upkeep) : u.path = d) =>
                OpensOn(stack'[p], d)
  BY <1>2, <1>5 DEF OpensOn
<1>9. \A d : (\E u \in Range(upkeep) : u.fn = "clear" /\ u.path = d) => Clears(stack'[p], d)
  BY <1>2, <1>8 DEF Clears, ClearsOn
<1>10. \A d : /\ \E u \in Range(upkeep) : u.path = d
              /\ frame.fn = "rename" /\ frame.at = "end" /\ frame.to = Last(frame.path)
              /\ Parent(frame.path) = d
              => SelfOn(stack'[p], d)
  BY <1>2, <1>5 DEF SelfOn
<1> QED BY <1>2, <1>4, <1>7, <1>8, <1>9, <1>10

\* The listing of a directory that the driver left alone
LEMMA UnchangedListing ==
    ASSUME NEW d \in Dir, d \notin Changed(disk')
    PROVE  OnDisk(d)' = OnDisk(d)
<1>1. \A x \in Path \ {Root} : Parent(x) = d => disk'[x] = disk[x] BY DEF Changed
<1>2. Listed(disk', d) = Listed(disk, d)
  <2> DEFINE new == disk'
  <2>1. \A x \in Path \ {Root} : Parent(x) = d => new[x] = disk[x] BY <1>1
  <2> HIDE DEF new
  <2>2. Listed(new, d) = Listed(disk, d) BY <2>1, ListedSame
  <2> QED BY <2>2 DEF new
<1> QED BY <1>2, ListedIs

\* A directory of which the driver's step opens a change: nobody else is at work on its
\* listing, and the upkeep is what the listing needs.
LEMMA DroveChanged ==
    ASSUME Base, Reliable, NEW p \in Proc, stack[p] # <<>>, NEW frame, NEW upkeep,
           Drove(p, frame, upkeep), NEW d \in Dir \ Neglected(p),
           \A q \in Proc \ {p} : ~OpensOn(stack[q], d), SoundAt(d)
    PROVE  SoundAt(d)'
<1>1. /\ \A q \in Proc \ {p} : stack'[q] = stack[q]
      /\ cache' = cache
      /\ EditsOn(stack[p], d) = {} /\ ~Clears(stack[p], d) /\ ~SelfOn(stack[p], d)
      /\ \A u : u \in EditsOn(stack'[p], d) <=> u \in Range(upkeep) /\ IsEdit(u, d)
  BY DroveStacks
<1>2. Owned BY DEF Reliable
<1>3. ASSUME NEW q \in Proc
      PROVE  EditsOn(stack[q], d) = {} /\ ~Clears(stack[q], d) /\ ~SelfOn(stack[q], d)
  <2>1. CASE q = p BY <1>1, <2>1
  <2>2. CASE ~OpensOn(stack[q], d)
    BY <1>2, <2>2 DEF Owned, OwnedBy, Clears, SelfOn, OpensOn
  <2> QED BY <2>1, <2>2
<1>4. Exact(d) /\ (cache[d] # NoListing => disk[d] = "dir")
  BY <1>3 DEF SoundAt, Clearing, Pending, Selfing
<1>5. Covers(p, frame, upkeep) /\ Drives(p, frame, upkeep) BY DEF Drove, DrivesTree
<1>6. IsUpkeepSeq(upkeep) BY <1>5 DEF Drives
<1>7. OnDisk(d) = Listed(disk, d) /\ OnDisk(d)' = Listed(disk', d) BY ListedIs
<1>8. ASSUME cache[d] # NoListing, disk'[d] # "dir" PROVE Clearing(d)'
  <2>1. \E u \in Range(upkeep) : u.fn = "clear" /\ u.path = d BY <1>4, <1>5, <1>8 DEF Covers
  <2>2. Clears(stack'[p], d) BY ZenonT(40), <2>1, DroveStacks
  <2> QED BY <2>2 DEF Clearing
<1>9. Clearing(d)' \/ Pending(d)' \/ Exact(d)'
  <2>1. CASE cache[d] = NoListing BY <1>1, <2>1 DEF Exact
  <2>2. CASE d \notin Changed(disk') BY <1>1, <1>4, <2>2, UnchangedListing DEF Exact
  <2>3. CASE cache[d] # NoListing /\ d \in Changed(disk')
    <3>1. PICK u \in Range(upkeep) : u.path = d BY <1>4, <1>5, <2>3 DEF Covers
    <3>2. u.fn = "edit" \/ u.fn = "clear" BY <1>6, UpkeepHas DEF IsUpkeep
    <3>3. CASE u.fn = "edit"
      <4>1. u \in EditsOn(stack'[p], d) BY <1>1, <3>1, <3>3 DEF IsEdit
      <4> QED BY <4>1 DEF Pending
    <3>4. CASE u.fn = "clear"
      <4>1. \E v \in Range(upkeep) : v.fn = "clear" /\ v.path = d BY <3>1, <3>4
      <4>2. Clears(stack'[p], d) BY ZenonT(40), <4>1, DroveStacks
      <4> QED BY <4>2 DEF Clearing
    <3> QED BY <3>2, <3>3, <3>4
  <2> QED BY <2>1, <2>2, <2>3
<1>10. ASSUME NEW q \in Proc, NEW e \in EditsOn(stack'[q], d) PROVE EditOk(d, e)'
  <2>1. q = p BY <1>1, <1>3, <1>10
  <2>2. e \in Range(upkeep) /\ e.fn = "edit" /\ e.path = d BY <1>1, <1>10, <2>1 DEF IsEdit
  <2>3. e.at = "start" BY <1>6, <2>2, UpkeepHas
  <2>4. disk'[d] = "dir" /\ (SameNames(e) \/ After(Listed(disk, d), e) = Listed(disk', d))
    BY <1>5, <2>2 DEF Covers
  <2>5. cache[d] = NoListing \/ cache[d] = Listed(disk, d) BY <1>4, <1>7 DEF Exact
  <2>6. SameNames(e) \/ cache'[d] = NoListing \/ After(cache'[d], e) = OnDisk(d)'
    BY <1>1, <1>7, <2>4, <2>5
  <2>7. e.at # "set" BY <2>3
  <2> QED BY <2>4, <2>6, <2>7 DEF EditOk
<1> QED BY <1>1, <1>8, <1>9, <1>10 DEF SoundAt

\* A directory that the driver's step does not open
LEMMA DroveElsewhere ==
    ASSUME Base, NEW p \in Proc, stack[p] # <<>>, NEW frame, NEW upkeep,
           Drove(p, frame, upkeep), NEW d \in Dir \ Neglected(p), d \notin Changed(disk'),
           \A u \in Range(upkeep) : u.path # d, SoundAt(d)
    PROVE  SoundAt(d)'
<1>1. /\ \A q \in Proc \ {p} : stack'[q] = stack[q]
      /\ cache' = cache
      /\ EditsOn(stack[p], d) = {} /\ ~Clears(stack[p], d) /\ ~SelfOn(stack[p], d)
      /\ \A u : u \in EditsOn(stack'[p], d) <=> u \in Range(upkeep) /\ IsEdit(u, d)
  BY DroveStacks
<1>2. EditsOn(stack'[p], d) = {} BY <1>1 DEF IsEdit
<1>3. \A q \in Proc : Carries(stack[q], stack'[q], d) BY <1>1, <1>2 DEF Carries
<1>4. \A q \in Proc : EditsOn(stack'[q], d) \subseteq EditsOn(stack[q], d) BY <1>3 DEF Carries
<1>5. disk[d] = "dir" => disk'[d] = "dir" BY DEF Drove, Covers
<1>6. OnDisk(d)' = OnDisk(d) BY UnchangedListing
<1> QED BY <1>1, <1>3, <1>4, <1>5, <1>6, SoundKept

\* The driver changes the tree.
LEMMA DroveReliable ==
    ASSUME Base, Reliable, NEW p \in Proc, stack[p] # <<>>, NEW frame, NEW upkeep,
           Drove(p, frame, upkeep), Observe(Neglected(p))
    PROVE  Reliable'
<1>1. Owned /\ Raced /\ Fresh /\ Sound BY DEF Reliable
<1>2. /\ \A q \in Proc \ {p} : stack'[q] = stack[q]
      /\ listG' = listG
      /\ \A d, u : u \in EditsOn(stack'[p], d) <=> u \in Range(upkeep) /\ IsEdit(u, d)
      /\ \A d : d \in Changed(disk') \/ (\E u \in Range(upkeep) : u.path = d) =>
                   OpensOn(stack'[p], d)
      /\ \A d : /\ \E u \in Range(upkeep) : u.path = d
                /\ frame.fn = "rename" /\ frame.at = "end" /\ frame.to = Last(frame.path)
                /\ Parent(frame.path) = d
                => SelfOn(stack'[p], d)
  BY ZenonT(40), DroveStacks
<1>3. Owned'
  <2>1. ASSUME NEW d \in Dir PROVE OwnedBy(stack'[p], d)
    <3>1. ASSUME NEW e \in EditsOn(stack'[p], d)
          PROVE  OpensOn(stack'[p], d) /\ (SameNames(e) => SelfOn(stack'[p], d))
      <4>1. e \in Range(upkeep) /\ e.fn = "edit" /\ e.path = d BY <1>2, <3>1 DEF IsEdit
      <4>2. SameNames(e) => frame.fn = "rename" /\ frame.at = "end" /\ frame.to = Last(frame.path)
                            /\ Parent(frame.path) = d
        BY <4>1 DEF Drove, Covers
      <4> QED BY <1>2, <4>1, <4>2
    <3> QED BY <3>1 DEF OwnedBy
  <2>2. ASSUME NEW q \in Proc \ {p}, NEW d \in Dir PROVE OwnedBy(stack'[q], d)
    BY <1>1, <1>2 DEF Owned
  <2> QED BY <2>1, <2>2 DEF Owned
<1>4. Raced' BY RacedKept
<1>5. ASSUME NEW d \in Dir, OpensOn(stack'[p], d), ~race'[d]
      PROVE  /\ \A q \in Proc \ {p} : ~OpensOn(stack[q], d)
             /\ listG'[d].stage # "read"
  <2>1. p \in Open(d)' BY <1>5, OpenIs
  <2>2. \A x \in Open(d)' : x = p BY <1>5, <2>1, ObserveHas
  <2>3. \A q \in Proc \ {p} : ~OpensOn(stack'[q], d) BY <2>2, OpenIs
  <2>4. listG'[d].stage # "read" BY <2>2, OpenIs, SentinelAssumption
  <2> QED BY <1>2, <2>3, <2>4
<1>6. Fresh'
  <2>1. ASSUME NEW d \in Dir, listG'[d].stage = "read", ~race'[d]
        PROVE  listG'[d] = listG[d] /\ OnDisk(d)' = OnDisk(d)
    <3>1. d \notin Changed(disk') BY <1>2, <1>5, <2>1
    <3> QED BY <1>2, <3>1, UnchangedListing
  <2> QED BY <1>1, <2>1, FreshKept
<1>7. ASSUME NEW d \in Dir \ Neglected(p), SoundAt(d), ~race'[d] PROVE SoundAt(d)'
  <2>1. CASE d \in Changed(disk') \/ \E u \in Range(upkeep) : u.path = d
    <3>1. \A q \in Proc \ {p} : ~OpensOn(stack[q], d) BY <1>2, <1>5, <1>7, <2>1
    <3> QED BY <1>7, <3>1, DroveChanged
  <2>2. CASE d \notin Changed(disk') /\ \A u \in Range(upkeep) : u.path # d
    BY <1>7, <2>2, DroveElsewhere
  <2> QED BY <2>1, <2>2
<1>8. \A d \in Dir : ~(listG[d].stage = "read" /\ listG'[d].stage = "stored") BY <1>2
<1>9. Sound' BY <1>1, <1>3, <1>7, <1>8, SoundSteps
<1> QED BY <1>3, <1>4, <1>6, <1>9 DEF Reliable

-----------------------------------------------------------------------------
(* Steps of the upkeep *)

\* The frames N take the place of a running frame of upkeep.
LEMMA UpkeepFrames ==
    ASSUME Base, NEW p \in Proc, stack[p] # <<>>, IsUpkeep(Top(p)),
           NEW N, Range(stack'[p]) = N \cup Range(Tail(stack[p])),
           \A g \in N : IsUpkeep(g) /\ g.changed = {}
    PROVE  /\ \A d : OpensOn(stack'[p], d) <=> OpensOn(stack[p], d)
           /\ \A d : SelfOn(stack'[p], d) <=> SelfOn(stack[p], d)
           /\ \A d, e : e \in EditsOn(stack'[p], d) <=>
                           (e \in N /\ IsEdit(e, d)) \/ e \in EditsOn(Tail(stack[p]), d)
           /\ \A d, e : e \in EditsOn(stack[p], d) <=>
                           (e = Top(p) /\ IsEdit(e, d)) \/ e \in EditsOn(Tail(stack[p]), d)
           /\ \A d : ClearsOn(stack[p], d) =>
                        \/ ClearsOn(stack'[p], d)
                        \/ Top(p).fn = "clear" /\ Top(p).path = d
           /\ Top(p).fn = "edit" => EditsOn(Tail(stack[p]), Top(p).path) = {}
           /\ Top(p).path \in Dir
<1> DEFINE s == stack[p]
           t == stack'[p]
<1>1. /\ s \in Seq(FrameSet) /\ GoodStack(s) /\ Top(p) = Head(s) /\ Top(p) \in FrameSet
      /\ Range(s) = {Top(p)} \cup Range(Tail(s))
  BY TopHas DEF Base
<1>2. Range(t) = N \cup Range(Tail(s)) OBVIOUS
<1>3. Top(p).changed = {} /\ Top(p).path \in Dir /\ (Top(p).fn = "edit" \/ Top(p).fn = "clear")
  <2>1. Top(p).fn \notin Op BY DEF IsUpkeep, Op
  <2> QED BY <1>1, <2>1, FrameHas DEF IsUpkeep
<1>4. \A f \in Range(Tail(s)) : ~Clash(Top(p), f) BY <1>1, BelowTop
<1>5. \A g \in N : g.changed = {} /\ g.fn # "rename" BY DEF IsUpkeep
<1> HIDE DEF s, t
<1>6. ASSUME NEW d
      PROVE  /\ OpensOn(t, d) <=> OpensOn(s, d)
             /\ SelfOn(t, d) <=> SelfOn(s, d)
             /\ ClearsOn(s, d) => ClearsOn(t, d) \/ (Top(p).fn = "clear" /\ Top(p).path = d)
  <2>1. OpensOn(t, d) <=> OpensOn(s, d) BY <1>1, <1>2, <1>3, <1>5 DEF OpensOn
  <2>2. SelfOn(t, d) <=> SelfOn(s, d) BY <1>1, <1>2, <1>3, <1>5 DEF SelfOn
  <2>3. ClearsOn(s, d) => ClearsOn(t, d) \/ (Top(p).fn = "clear" /\ Top(p).path = d)
    BY <1>1, <1>2 DEF ClearsOn
  <2> QED BY <2>1, <2>2, <2>3
<1>7. ASSUME NEW d, NEW e
      PROVE  /\ e \in EditsOn(t, d) <=> (e \in N /\ IsEdit(e, d)) \/ e \in EditsOn(Tail(s), d)
             /\ e \in EditsOn(s, d) <=> (e = Top(p) /\ IsEdit(e, d)) \/ e \in EditsOn(Tail(s), d)
  BY <1>1, <1>2 DEF EditsOn
<1>8. Top(p).fn = "edit" => EditsOn(Tail(s), Top(p).path) = {}
  BY <1>4 DEF EditsOn, Clash
<1> QED BY <1>3, <1>6, <1>7, <1>8 DEF s, t

\* Steps that leave disk and flights alone
LEMMA UpkeepReliable ==
    ASSUME Reliable, NEW neglected, Observe(neglected), disk' = disk, listG' = listG, Owned',
           \A d \in Dir : SoundAt(d) /\ ~race[d] => SoundAt(d)'
    PROVE  Reliable'
<1>1. Owned /\ Raced /\ Fresh /\ Sound BY DEF Reliable
<1>2. \A d : OnDisk(d)' = OnDisk(d) BY DEF OnDisk
<1>3. Fresh' BY <1>1, <1>2, FreshKept
<1>4. \A d \in Dir : ~(listG[d].stage = "read" /\ listG'[d].stage = "stored") OBVIOUS
<1>5. Sound' BY <1>1, <1>4, SoundSteps
<1> QED BY <1>3, <1>5, RacedKept DEF Reliable

\* Frames of upkeep come and go.
LEMMA UpkeepOwned ==
    ASSUME Base, Reliable, NEW p \in Proc, stack[p] # <<>>, IsUpkeep(Top(p)),
           \A q \in Proc \ {p} : stack'[q] = stack[q],
           NEW N, Range(stack'[p]) = N \cup Range(Tail(stack[p])),
           \A g \in N : IsUpkeep(g) /\ g.changed = {},
           \A g \in N : g.fn = "edit" => /\ Top(p).fn = "edit" /\ g.path = Top(p).path
                                         /\ SameNames(g) => SameNames(Top(p))
    PROVE  Owned'
<1>1. Owned BY DEF Reliable
<1>2. ASSUME NEW d \in Dir, NEW e \in EditsOn(stack'[p], d)
      PROVE  OpensOn(stack'[p], d) /\ (SameNames(e) => SelfOn(stack'[p], d))
  <2>1. PICK f \in EditsOn(stack[p], d) : SameNames(e) => SameNames(f)
    <3>1. CASE e \in EditsOn(Tail(stack[p]), d) BY <3>1, UpkeepFrames
    <3>2. CASE e \in N /\ IsEdit(e, d)
      <4>1. Top(p).fn = "edit" /\ Top(p).path = d /\ (SameNames(e) => SameNames(Top(p)))
        BY <3>2 DEF IsEdit
      <4>2. IsEdit(Top(p), d) BY <4>1 DEF IsEdit
      <4>3. Top(p) \in EditsOn(stack[p], d) BY <4>2, UpkeepFrames
      <4> QED BY <4>1, <4>3
    <3> QED BY <1>2, <3>1, <3>2, UpkeepFrames
  <2>2. OpensOn(stack[p], d) /\ (SameNames(e) => SelfOn(stack[p], d))
    BY <1>1, <2>1 DEF Owned, OwnedBy
  <2> QED BY <2>2, UpkeepFrames
<1>3. ASSUME NEW q \in Proc \ {p}, NEW d \in Dir PROVE OwnedBy(stack'[q], d)
  BY <1>1, <1>3 DEF Owned
<1> QED BY <1>2, <1>3 DEF Owned, OwnedBy

\* ClearCache goes down.
LEMMA ClearReliable ==
    ASSUME Base, Reliable, NEW p \in Proc, stack[p] # <<>>, Top(p).fn = "clear",
           Observe(Neglected(p)), disk' = disk, listG' = listG,
           \A q \in Proc \ {p} : stack'[q] = stack[q],
           NEW N, Range(stack'[p]) = N \cup Range(Tail(stack[p])),
           \A g \in N : g.fn = "clear" /\ g.changed = {},
           \/ cache' = cache /\ \E g \in N : g.path = Top(p).path
           \/ cache' = [cache EXCEPT ![Top(p).path] = NoListing]
    PROVE  Reliable'
<1>1. IsUpkeep(Top(p)) /\ \A g \in N : IsUpkeep(g) BY DEF IsUpkeep
<1>2. Owned' BY <1>1, UpkeepOwned
<1>3. \A d : OnDisk(d)' = OnDisk(d) BY DEF OnDisk
<1>4. cache \in [Dir -> (SUBSET Entries) \cup {NoListing}] BY DEF Base, Data
<1>5. ASSUME NEW d \in Dir, SoundAt(d) PROVE SoundAt(d)'
  <2>1. \A e : e \in EditsOn(stack'[p], d) <=> e \in EditsOn(stack[p], d)
    BY <1>1, UpkeepFrames DEF IsEdit
  <2>2. EditsOn(stack'[p], d) = EditsOn(stack[p], d) BY <2>1
  <2>3. \A q \in Proc : EditsOn(stack'[q], d) \subseteq EditsOn(stack[q], d) BY <2>2
  <2>4. CASE cache'[d] = NoListing BY <1>3, <1>5, <2>3, <2>4, SoundKept
  <2>5. CASE cache'[d] # NoListing
    <3>1. cache'[d] = cache[d] BY <1>4, <2>5
    <3>2. ClearsOn(stack[p], d) => ClearsOn(stack'[p], d)
      <4>1. CASE Top(p).path = d
        <5>1. \E g \in N : g.path = d BY <1>4, <2>5, <4>1
        <5> QED BY <5>1 DEF ClearsOn
      <4>2. CASE Top(p).path # d BY <1>1, <4>2, UpkeepFrames
      <4> QED BY <4>1, <4>2
    <3>3. /\ OpensOn(stack'[p], d) <=> OpensOn(stack[p], d)
          /\ SelfOn(stack'[p], d) <=> SelfOn(stack[p], d)
      BY <1>1, UpkeepFrames
    <3>4. \A q \in Proc : Carries(stack[q], stack'[q], d)
      BY <2>2, <3>2, <3>3 DEF Carries, Clears
    <3> QED BY <1>3, <1>5, <2>3, <3>1, <3>4, SoundKept
  <2> QED BY <2>4, <2>5
<1> QED BY <1>2, <1>5, UpkeepReliable

\* A listing is edited: whatever else is at work goes on.
LEMMA EditReliable ==
    ASSUME Base, Reliable, NEW p \in Proc, stack[p] # <<>>, Top(p).fn = "edit",
           Observe(Neglected(p)), disk' = disk, listG' = listG,
           \A q \in Proc \ {p} : stack'[q] = stack[q],
           NEW N, Range(stack'[p]) = N \cup Range(Tail(stack[p])),
           \A g \in N : /\ g.fn = "edit" /\ g.path = Top(p).path /\ g.changed = {}
                        /\ SameNames(g) => SameNames(Top(p)),
           NEW dir \in Dir, dir = Top(p).path,
           \A d \in Dir \ {dir} : cache'[d] = cache[d],
           SoundAt(dir) /\ ~race[dir] => SoundAt(dir)'
    PROVE  Reliable'
<1>1. IsUpkeep(Top(p)) /\ \A g \in N : IsUpkeep(g) /\ g.changed = {} BY DEF IsUpkeep
<1>2. Owned' BY <1>1, UpkeepOwned
<1>3. \A d : OnDisk(d)' = OnDisk(d) BY DEF OnDisk
<1>4. ASSUME NEW d \in Dir, d # dir, SoundAt(d) PROVE SoundAt(d)'
  <2>1. ~IsEdit(Top(p), d) /\ \A g \in N : ~IsEdit(g, d) BY <1>4 DEF IsEdit
  <2>2. EditsOn(stack'[p], d) = EditsOn(stack[p], d)
    <3>1. \A e : e \in EditsOn(stack'[p], d) <=>
                    (e \in N /\ IsEdit(e, d)) \/ e \in EditsOn(Tail(stack[p]), d)
      BY <1>1, UpkeepFrames
    <3>2. \A e : e \in EditsOn(stack[p], d) <=>
                    (e = Top(p) /\ IsEdit(e, d)) \/ e \in EditsOn(Tail(stack[p]), d)
      BY <1>1, UpkeepFrames
    <3>3. \A e : e \in EditsOn(stack'[p], d) <=> e \in EditsOn(stack[p], d)
      BY <2>1, <3>1, <3>2
    <3> QED BY <3>3
  <2>3. /\ OpensOn(stack'[p], d) <=> OpensOn(stack[p], d)
        /\ SelfOn(stack'[p], d) <=> SelfOn(stack[p], d)
        /\ ClearsOn(stack[p], d) => ClearsOn(stack'[p], d)
    BY <1>1, UpkeepFrames
  <2>4. \A q \in Proc : Carries(stack[q], stack'[q], d)
    BY <2>2, <2>3 DEF Carries, Clears
  <2>5. \A q \in Proc : EditsOn(stack'[q], d) \subseteq EditsOn(stack[q], d) BY <2>2
  <2> QED BY <1>3, <1>4, <2>4, <2>5, SoundKept
<1> QED BY <1>2, <1>4, UpkeepReliable

\* Who edits the listing of a directory that is not raced is alone with it.
LEMMA EditsAlone ==
    ASSUME Base, Reliable, NEW p \in Proc, stack[p] # <<>>, Top(p).fn = "edit",
           \A q \in Proc \ {p} : stack'[q] = stack[q],
           NEW N, Range(stack'[p]) = N \cup Range(Tail(stack[p])),
           \A g \in N : g.fn = "edit" /\ g.path = Top(p).path /\ g.changed = {},
           NEW dir \in Dir, dir = Top(p).path, SoundAt(dir), ~race[dir]
    PROVE  /\ EditOk(dir, Top(p)) /\ (SameNames(Top(p)) => SelfOn(stack'[p], dir))
           /\ \A q \in Proc : \A e \in EditsOn(stack'[q], dir) : q = p /\ e \in N
           /\ N \subseteq EditsOn(stack'[p], dir)
<1>1. IsUpkeep(Top(p)) /\ (\A g \in N : IsUpkeep(g)) /\ IsEdit(Top(p), dir) BY DEF IsUpkeep, IsEdit
<1>2. Owned /\ Raced BY DEF Reliable
<1>3. Top(p) \in EditsOn(stack[p], dir) BY ZenonT(40), <1>1, UpkeepFrames
<1>4. EditOk(dir, Top(p)) BY <1>3 DEF SoundAt
<1>5. OpensOn(stack[p], dir) /\ (SameNames(Top(p)) => SelfOn(stack[p], dir))
  BY <1>2, <1>3 DEF Owned, OwnedBy
<1>6. SelfOn(stack[p], dir) <=> SelfOn(stack'[p], dir) BY <1>1, UpkeepFrames
<1>7. p \in Open(dir) BY <1>5, OpenIs
<1>8. \A q \in Proc \ {p} : ~OpensOn(stack[q], dir) BY <1>2, <1>7, Alone
<1>9. \A q \in Proc \ {p} : EditsOn(stack'[q], dir) = {} BY <1>2, <1>8 DEF Owned, OwnedBy
<1>10. EditsOn(Tail(stack[p]), dir) = {} BY <1>1, UpkeepFrames
<1>11. \A e : e \in EditsOn(stack'[p], dir) <=> e \in N /\ IsEdit(e, dir)
  BY <1>1, <1>10, UpkeepFrames
<1>12. \A e \in N : IsEdit(e, dir) BY DEF IsEdit
<1> QED BY <1>4, <1>5, <1>6, <1>9, <1>11, <1>12

\* The last step of an edit
LEMMA EditDone ==
    ASSUME Base, Reliable, NEW p \in Proc, stack[p] # <<>>, Top(p).fn = "edit",
           Observe(Neglected(p)), disk' = disk, listG' = listG,
           \A q \in Proc \ {p} : stack'[q] = stack[q], stack'[p] = Tail(stack[p]),
           NEW dir \in Dir, dir = Top(p).path,
           \A d \in Dir \ {dir} : cache'[d] = cache[d],
           EditOk(dir, Top(p)) =>
              SameNames(Top(p)) \/ cache'[dir] = NoListing \/ cache'[dir] = OnDisk(dir)
    PROVE  Reliable'
<1> DEFINE N == {}
<1>1. /\ Range(stack'[p]) = N \cup Range(Tail(stack[p]))
      /\ \A g \in N : /\ g.fn = "edit" /\ g.path = Top(p).path /\ g.changed = {}
                      /\ SameNames(g) => SameNames(Top(p))
      /\ \A g : g \notin N
  OBVIOUS
<1> HIDE DEF N
<1>2. ASSUME SoundAt(dir), ~race[dir] PROVE SoundAt(dir)'
  <2>1. /\ EditOk(dir, Top(p)) /\ (SameNames(Top(p)) => SelfOn(stack'[p], dir))
        /\ \A q \in Proc : \A e \in EditsOn(stack'[q], dir) : q = p /\ e \in N
    BY <1>1, <1>2, EditsAlone
  <2>2. disk'[dir] = "dir" BY <2>1 DEF EditOk
  <2>3. SameNames(Top(p)) => Selfing(dir)' BY <2>1 DEF Selfing
  <2>4. OnDisk(dir)' = OnDisk(dir) BY DEF OnDisk
  <2>5. ~SameNames(Top(p)) => Exact(dir)' BY <2>1, <2>4 DEF Exact
  <2> QED BY <1>1, <2>1, <2>2, <2>3, <2>5 DEF SoundAt
<1> QED BY <1>1, <1>2, EditReliable

\* A listing is taken out of the cache and edited.
LEMMA EditGetReliable ==
    ASSUME Base, Reliable, NEW p \in Proc, stack[p] # <<>>, EditGet(p), Observe(Neglected(p))
    PROVE  Reliable'
<1> DEFINE f == Top(p)
<1>1. PICK dir \in Dir : dir = f.path BY EditGetIs
<1>2. /\ \A q \in Proc \ {p} : stack'[q] = stack[q]
      /\ disk' = disk /\ listG' = listG
      /\ At(p, "edit", "start")
      /\ \/ cache[dir] = NoListing /\ cache' = cache /\ stack'[p] = Tail(stack[p])
         \/ /\ cache[dir] # NoListing /\ f.old = NoName
            /\ cache' = [cache EXCEPT ![dir] =
                            (cache[dir] \ Named(cache[dir], f.new)) \cup {f.new}]
            /\ stack'[p] = Tail(stack[p])
         \/ /\ cache[dir] # NoListing /\ cache' = cache
            /\ f.old = NoName => Named(cache[dir], f.new) = {}
            /\ Range(stack'[p]) = {Editing(f, cache[dir])} \cup Range(Tail(stack[p]))
  BY <1>1, EditGetIs
<1>3. f.fn = "edit" /\ f.at = "start" BY <1>2 DEF At
<1>4. f \in EditFrames /\ EditFit(f) BY <1>2, EditHas
<1>5. cache \in [Dir -> (SUBSET Entries) \cup {NoListing}] BY DEF Base, Data
<1>6. CASE cache[dir] = NoListing /\ cache' = cache /\ stack'[p] = Tail(stack[p])
  BY <1>1, <1>2, <1>3, <1>6, EditDone
<1>7. CASE /\ cache[dir] # NoListing /\ f.old = NoName
           /\ cache' = [cache EXCEPT ![dir] =
                           (cache[dir] \ Named(cache[dir], f.new)) \cup {f.new}]
           /\ stack'[p] = Tail(stack[p])
  <2>1. \A d \in Dir \ {dir} : cache'[d] = cache[d] BY <1>5, <1>7
  <2>2. cache'[dir] = After(cache[dir], f) BY <1>5, <1>7 DEF After
  <2>3. ~SameNames(f) BY <1>7 DEF SameNames
  <2>4. EditOk(dir, f) => cache'[dir] = OnDisk(dir) BY <1>3, <1>7, <2>2, <2>3 DEF EditOk
  <2> QED BY <1>1, <1>2, <1>3, <1>7, <2>1, <2>4, EditDone
<1>8. CASE /\ cache[dir] # NoListing /\ cache' = cache
           /\ f.old = NoName => Named(cache[dir], f.new) = {}
           /\ Range(stack'[p]) = {Editing(f, cache[dir])} \cup Range(Tail(stack[p]))
  <2>0. PICK g : g = Editing(f, cache[dir]) OBVIOUS
  <2> DEFINE N == {g}
  <2>1. /\ g.fn = "edit" /\ g.path = f.path /\ g.changed = {} /\ g.at = "set"
        /\ g.old = f.old /\ g.new = f.new /\ g.listing = Edited(cache[dir], f.old, f.new)
    BY <1>4, <2>0 DEF Editing, EditFrames
  <2>2. SameNames(g) <=> SameNames(f) BY <2>1 DEF SameNames
  <2>3. /\ Range(stack'[p]) = N \cup Range(Tail(stack[p]))
        /\ \A h \in N : /\ h.fn = "edit" /\ h.path = Top(p).path /\ h.changed = {}
                        /\ SameNames(h) => SameNames(Top(p))
        /\ \A h : h \in N <=> h = g
    BY <1>8, <2>0, <2>1, <2>2
  <2> HIDE DEF N
  <2>6. \A h \in N : h.fn = "edit" /\ h.path = Top(p).path /\ h.changed = {} BY <2>3
  <2>7. \A d \in Dir \ {dir} : cache'[d] = cache[d] BY <1>8
  <2>4. g.listing = After(cache[dir], f)
    <3>1. CASE f.old # NoName BY <2>1, <3>1 DEF After
    <3>2. CASE f.old = NoName
      <4>1. f.new # NoName BY <1>4, <3>2 DEF EditFit
      <4>2. g.listing = cache[dir] \cup {f.new} BY <2>1, <3>2, <4>1 DEF Edited
      <4> QED BY <1>8, <3>2, <4>2 DEF After
    <3> QED BY <3>1, <3>2
  <2>5. ASSUME SoundAt(dir), ~race[dir] PROVE SoundAt(dir)'
    <3>1. /\ EditOk(dir, f)
          /\ \A q \in Proc : \A e \in EditsOn(stack'[q], dir) : q = p /\ e \in N
          /\ N \subseteq EditsOn(stack'[p], dir)
      BY <1>1, <1>2, <1>3, <2>3, <2>5, <2>6, EditsAlone
    <3>2. Pending(dir)' BY <2>3, <3>1 DEF Pending
    <3>3. OnDisk(dir)' = OnDisk(dir) BY <1>2 DEF OnDisk
    <3>4. EditOk(dir, g)' BY <1>2, <1>3, <1>8, <2>1, <2>2, <2>4, <3>1, <3>3 DEF EditOk
    <3>5. disk'[dir] = "dir" BY <1>2, <3>1 DEF EditOk
    <3> QED BY <2>3, <3>1, <3>2, <3>4, <3>5 DEF SoundAt
  <2> QED BY <1>1, <1>2, <1>3, <2>3, <2>5, <2>7, EditReliable
<1> QED BY <1>2, <1>6, <1>7, <1>8

\* The edited listing is put into the cache.
LEMMA EditSetReliable ==
    ASSUME Base, Reliable, NEW p \in Proc, stack[p] # <<>>, EditSet(p), Observe(Neglected(p))
    PROVE  Reliable'
<1>1. PICK dir \in Dir : dir = Top(p).path BY EditSetIs
<1>2. /\ \A q \in Proc \ {p} : stack'[q] = stack[q]
      /\ disk' = disk /\ listG' = listG
      /\ At(p, "edit", "set") /\ stack'[p] = Tail(stack[p])
      /\ cache' = [cache EXCEPT ![dir] = Top(p).listing]
  BY <1>1, EditSetIs
<1>3. Top(p).fn = "edit" /\ Top(p).at = "set" BY <1>2 DEF At
<1>4. cache \in [Dir -> (SUBSET Entries) \cup {NoListing}] BY DEF Base, Data
<1>5. \A d \in Dir \ {dir} : cache'[d] = cache[d] BY <1>2, <1>4
<1>6. cache'[dir] = Top(p).listing BY <1>2, <1>4
<1>7. EditOk(dir, Top(p)) => SameNames(Top(p)) \/ cache'[dir] = OnDisk(dir)
  BY <1>3, <1>6 DEF EditOk
<1> QED BY <1>1, <1>2, <1>3, <1>5, <1>7, EditDone

\* ClearCache
LEMMA ClearsReliable ==
    ASSUME Base, Reliable, NEW p \in Proc, stack[p] # <<>>, ClearStart(p) \/ ClearKids(p),
           Observe(Neglected(p))
    PROVE  Reliable'
<1>1. CASE ClearStart(p)
  <2>1. /\ \A q \in Proc \ {p} : stack'[q] = stack[q]
        /\ disk' = disk /\ cache' = cache /\ listG' = listG
        /\ At(p, "clear", "start")
    BY <1>1, ClearStartIs
  <2>2. PICK g : /\ g.fn = "clear" /\ g.path = Top(p).path /\ g.changed = {}
                 /\ Range(stack'[p]) = {g} \cup Range(Tail(stack[p]))
    BY <1>1, ClearStartIs
  <2>3. Top(p).fn = "clear" BY <2>1 DEF At
  <2> DEFINE N == {g}
  <2>4. /\ Range(stack'[p]) = N \cup Range(Tail(stack[p]))
        /\ \A h \in N : h.fn = "clear" /\ h.changed = {}
        /\ \E h \in N : h.path = Top(p).path
    BY <2>2
  <2> HIDE DEF N
  <2> QED BY <2>1, <2>3, <2>4, ClearReliable
<1>2. CASE ClearKids(p)
  <2>1. /\ \A q \in Proc \ {p} : stack'[q] = stack[q]
        /\ disk' = disk /\ listG' = listG
        /\ At(p, "clear", "kids")
        /\ \/ /\ cache' = [cache EXCEPT ![Top(p).path] = NoListing]
              /\ stack'[p] = Tail(stack[p])
           \/ /\ cache' = cache
              /\ \E c, g : /\ c.fn = "clear" /\ c.changed = {}
                           /\ g.fn = "clear" /\ g.path = Top(p).path /\ g.changed = {}
                           /\ Range(stack'[p]) = {c, g} \cup Range(Tail(stack[p]))
    BY <1>2, ClearKidsIs
  <2>2. Top(p).fn = "clear" BY <2>1 DEF At
  <2>3. CASE /\ cache' = [cache EXCEPT ![Top(p).path] = NoListing]
             /\ stack'[p] = Tail(stack[p])
    <3>1. Range(stack'[p]) = {} \cup Range(Tail(stack[p])) BY <2>3
    <3> QED BY <2>1, <2>2, <2>3, <3>1, ClearReliable
  <2>4. CASE /\ cache' = cache
             /\ \E c, g : /\ c.fn = "clear" /\ c.changed = {}
                          /\ g.fn = "clear" /\ g.path = Top(p).path /\ g.changed = {}
                          /\ Range(stack'[p]) = {c, g} \cup Range(Tail(stack[p]))
    <3>1. PICK c, g : /\ c.fn = "clear" /\ c.changed = {}
                      /\ g.fn = "clear" /\ g.path = Top(p).path /\ g.changed = {}
                      /\ Range(stack'[p]) = {c, g} \cup Range(Tail(stack[p]))
      BY <2>4
    <3> DEFINE N == {c, g}
    <3>2. /\ Range(stack'[p]) = N \cup Range(Tail(stack[p]))
          /\ \A h \in N : h.fn = "clear" /\ h.changed = {}
          /\ \E h \in N : h.path = Top(p).path
      BY <3>1
    <3> HIDE DEF N
    <3> QED BY <2>1, <2>2, <2>4, <3>2, ClearReliable
  <2> QED BY <2>1, <2>3, <2>4
<1> QED BY <1>1, <1>2

-----------------------------------------------------------------------------
(* Coherent *)

\* Every step of a process keeps the invariant.
LEMMA StepReliable ==
    ASSUME Base, Reliable, NEW p \in Proc, Step(p)
    PROVE  Reliable'
<1>1. stack[p] # <<>> /\ Observe(Neglected(p)) BY DEF Step
<1>2. \/ \/ ListStart(p) \/ MkdirStart(p) \/ MkdirCheck(p) \/ MkdirParent(p) \/ MkdirEnd(p)
         \/ OpStart(p) \/ OpEnd(p) \/ MoveSrc(p)
         \/ PutOld(p) \/ PutCleared(p) \/ PutURLOld(p) \/ PutParent(p)
         \/ PutDone(p) \/ PutEnd(p)
      \/ ListDo(p) \/ ListRead(p) \/ ListStore(p) \/ ListClose(p)
      \/ MkdirDrive(p) \/ RemoveDrive(p) \/ RenameDrive(p) \/ MoveDrive(p) \/ PutDrive(p)
      \/ EditGet(p) \/ EditSet(p) \/ ClearStart(p) \/ ClearKids(p)
  BY DEF Step
<1>3. ASSUME Plain(p) PROVE Reliable' BY <1>1, <1>3, PlainReliable
<1>4. CASE \/ ListStart(p) \/ MkdirStart(p) \/ MkdirCheck(p) \/ MkdirParent(p) \/ MkdirEnd(p)
           \/ OpStart(p) \/ OpEnd(p) \/ MoveSrc(p)
           \/ PutOld(p) \/ PutCleared(p) \/ PutURLOld(p) \/ PutParent(p)
           \/ PutDone(p) \/ PutEnd(p)
  BY <1>1, <1>3, <1>4, PlainSteps
<1>5. CASE ListDo(p) \/ ListRead(p) \/ ListStore(p) \/ ListClose(p)
  BY <1>1, <1>5, ListReliable
<1>6. CASE MkdirDrive(p) \/ RemoveDrive(p) \/ RenameDrive(p) \/ MoveDrive(p) \/ PutDrive(p)
  <2>1. Plain(p) \/ \E frame, upkeep : Drove(p, frame, upkeep) BY <1>1, <1>6, DriverCovers
  <2>2. ASSUME NEW frame, NEW upkeep, Drove(p, frame, upkeep) PROVE Reliable'
    BY <1>1, <2>2, DroveReliable
  <2> QED BY <1>3, <2>1, <2>2
<1>7. CASE EditGet(p) BY <1>1, <1>7, EditGetReliable
<1>8. CASE EditSet(p) BY <1>1, <1>8, EditSetReliable
<1>9. CASE ClearStart(p) \/ ClearKids(p) BY <1>1, <1>9, ClearsReliable
<1> QED BY <1>2, <1>4, <1>5, <1>6, <1>7, <1>8, <1>9

\* So does the start of a call.
LEMMA BeginReliable ==
    ASSUME Base, Reliable, NEW p \in Proc, NEW frame \in Requests, Begin(p, frame)
    PROVE  Reliable'
<1>1. Owned /\ Raced /\ Fresh /\ Sound BY DEF Reliable
<1>2. UNCHANGED <<disk, cache, listG, race, suspect>> BY DEF Begin
<1>3. \A q \in Proc : Calm(stack[q], stack'[q]) BY BeginOrderly
<1>4. \A d : OnDisk(d)' = OnDisk(d) BY <1>2 DEF OnDisk
<1>5. Owned' BY <1>1, <1>3, CalmCarries DEF Owned
<1>6. ASSUME NEW d PROVE Open(d)' = Open(d)
  <2>1. \A q \in Proc : q \in Open(d)' <=> q \in Open(d) BY <1>3, OpenIs DEF Calm
  <2>2. "flight" \in Open(d)' <=> "flight" \in Open(d) BY <1>2, OpenIs
  <2>3. ASSUME NEW x PROVE x \in Open(d)' <=> x \in Open(d) BY <2>1, <2>2, OpenIs
  <2> QED BY <2>3
<1>7. Raced' BY <1>1, <1>2, <1>6 DEF Raced
<1>8. Fresh' BY <1>1, <1>2, <1>4 DEF Fresh
<1>9. ASSUME NEW d \in Dir \ suspect PROVE SoundAt(d)'
  <2>1. SoundAt(d) BY <1>1 DEF Sound
  <2>2. \A q \in Proc : Carries(stack[q], stack'[q], d) BY <1>3, CalmCarries
  <2>3. \A q \in Proc : EditsOn(stack'[q], d) \subseteq EditsOn(stack[q], d) BY <2>2 DEF Carries
  <2> QED BY <1>2, <1>4, <2>1, <2>2, <2>3, SoundKept
<1>10. Sound' BY <1>2, <1>9 DEF Sound
<1> QED BY <1>5, <1>7, <1>8, <1>10 DEF Reliable

\* And the expiry of a listing.
LEMMA ExpireReliable ==
    ASSUME Base, Reliable, NEW dir \in Dir, Expire(dir)
    PROVE  Reliable'
<1>1. Owned /\ Raced /\ Fresh /\ Sound BY DEF Reliable
<1>2. /\ UNCHANGED <<disk, listG, stack>> /\ Observe({})
      /\ cache' = [cache EXCEPT ![dir] = NoListing]
  BY DEF Expire
<1>3. \A d : OnDisk(d)' = OnDisk(d) BY <1>2 DEF OnDisk
<1>4. Owned' BY <1>1, <1>2 DEF Owned
<1>5. cache \in [Dir -> (SUBSET Entries) \cup {NoListing}] BY DEF Base, Data
<1>6. ASSUME NEW d \in Dir, SoundAt(d) PROVE SoundAt(d)'
  <2>1. \A q \in Proc : Carries(stack[q], stack'[q], d) BY <1>2 DEF Carries
  <2>2. \A q \in Proc : EditsOn(stack'[q], d) \subseteq EditsOn(stack[q], d) BY <1>2
  <2>3. cache'[d] = NoListing \/ cache'[d] = cache[d] BY <1>2, <1>5
  <2> QED BY <1>2, <1>3, <1>6, <2>1, <2>2, <2>3, SoundKept
<1> QED BY <1>2, <1>4, <1>6, UpkeepReliable

\* At the start nothing is cached and nothing runs.
LEMMA ReliableInit == Init => Reliable
<1> SUFFICES ASSUME Init PROVE Reliable OBVIOUS
<1>1. /\ \A d \in Dir : cache[d] = NoListing /\ listG[d].stage = "none" /\ ~race[d]
      /\ \A q \in Proc : stack[q] = <<>>
  BY DEF Init, NoFlight
<1>2. \A q \in Proc : Range(stack[q]) = {} BY <1>1, RangeOf
<1>3. \A q \in Proc, d \in Dir : EditsOn(stack[q], d) = {} /\ ~OpensOn(stack[q], d)
  BY <1>2 DEF EditsOn, OpensOn
<1>4. Owned BY <1>3 DEF Owned, OwnedBy
<1>5. \A d \in Dir : Open(d) = {} BY <1>1, <1>3, OpenIs
<1>6. Raced BY <1>1, <1>5 DEF Raced
<1>7. Fresh BY <1>1 DEF Fresh
<1>8. Sound BY <1>1, <1>3 DEF Sound, SoundAt, Exact
<1> QED BY <1>4, <1>6, <1>7, <1>8 DEF Reliable

\* The invariant is inductive.
LEMMA ReliableNext == Base /\ Reliable /\ [Next]_vars => Reliable'
<1> SUFFICES ASSUME Base, Reliable, [Next]_vars PROVE Reliable' OBVIOUS
<1>1. ASSUME NEW p \in Proc, NEW frame \in Requests, Begin(p, frame) PROVE Reliable'
  BY <1>1, BeginReliable
<1>2. ASSUME NEW p \in Proc, Step(p) PROVE Reliable' BY <1>2, StepReliable
<1>3. ASSUME NEW d \in Dir, Expire(d) PROVE Reliable' BY <1>3, ExpireReliable
<1>4. CASE UNCHANGED vars
  <2>1. Owned /\ Raced /\ Fresh /\ Sound BY DEF Reliable
  <2>2. UNCHANGED <<disk, cache, listG, stack, race, suspect>> BY <1>4 DEF vars
  <2>3. \A d : OnDisk(d)' = OnDisk(d) BY <2>2 DEF OnDisk
  <2>4. \A d : Open(d)' = Open(d) BY <2>2 DEF Open
  <2>5. Owned' BY <2>1, <2>2 DEF Owned
  <2>6. Raced' BY <2>1, <2>2, <2>4 DEF Raced
  <2>7. Fresh' BY <2>1, <2>2, <2>3 DEF Fresh
  <2>8. ASSUME NEW d \in Dir \ suspect PROVE SoundAt(d)'
    <3>1. SoundAt(d) BY <2>1 DEF Sound
    <3>2. \A q \in Proc : Carries(stack[q], stack'[q], d) BY <2>2 DEF Carries
    <3>3. \A q \in Proc : EditsOn(stack'[q], d) \subseteq EditsOn(stack[q], d) BY <2>2
    <3> QED BY <2>2, <2>3, <3>1, <3>2, <3>3, SoundKept
  <2>9. Sound' BY <2>2, <2>8 DEF Sound
  <2> QED BY <2>5, <2>6, <2>7, <2>9 DEF Reliable
<1> QED BY <1>1, <1>2, <1>3, <1>4 DEF Next

\* In every reachable state the work in progress on the listings of directories without
\* suspicion is about to make them right.
THEOREM ReliableHolds == Spec => []Reliable
<1>1. Init => Base /\ Reliable BY BaseInit, ReliableInit
<1>2. Base /\ Reliable /\ [Next]_vars => (Base /\ Reliable)' BY BaseNext, ReliableNext
<1> QED BY <1>1, <1>2, PTL DEF Spec

\* A cached listing that is not under suspicion is what the storage holds, whenever no
\* operation is at work on its directory (listCache of fs.go).
THEOREM CoherentHolds == Spec => []Coherent
<1>1. Reliable => Coherent
  <2> SUFFICES ASSUME Reliable, NEW d \in Dir, d \notin suspect, Open(d) = {}
               PROVE  cache[d] = NoListing \/ cache[d] = OnDisk(d)
    BY DEF Coherent
  <2>1. Owned /\ SoundAt(d) BY DEF Reliable, Sound
  <2>2. \A q \in Proc : ~OpensOn(stack[q], d) BY OpenIs
  <2>3. ~Clearing(d) BY <2>2 DEF Clearing, Clears
  <2>4. ~Pending(d) BY <2>1, <2>2 DEF Pending, Owned, OwnedBy
  <2>5. ~Selfing(d) BY <2>2 DEF Selfing, SelfOn, OpensOn
  <2> QED BY <2>1, <2>3, <2>4, <2>5 DEF SoundAt, Exact
<1> QED BY <1>1, ReliableHolds, PTL

-----------------------------------------------------------------------------
(* Nothing but additions: uploads, copies, new directories and listings *)

\* The hypothesis under which uploads keep the object. It is about the constants only:
\* the driver cannot overwrite, the requests only add, no file is empty, and a temporary
\* name belongs to one name that is uploaded, is not itself uploaded and names no
\* directory. Without it a request may well remove the object, or an upload replace it.
OnlyAdds ==
    /\ NoOverwrite
    /\ \A f \in Requests : /\ f.fn \in {"list", "mkdir", "copy", "put", "puturl"}
                           /\ f.fn \in {"put", "puturl"} => f.kind = "file"
    /\ \A tree \in InitDisks, x \in Path : tree[x] # "empty"
    /\ \A n \in DOMAIN Temp : /\ Temp[n] \notin DOMAIN Temp
                              /\ \A m \in DOMAIN Temp : Temp[m] = Temp[n] => m = n
    /\ \A x \in Path \ {Root} : Last(x) \in DOMAIN Temp =>
          x \notin Dir /\ Temporary(x) \in Path \ Dir

\* The paths that may be uploaded
Target == {x \in Path \ {Root} : Last(x) \in DOMAIN Temp}

\* A listing that shows no empty file
Filled(listing) == \A e \in listing : e.kind # "empty"

\* The frames that move the object, and the ones they leave alone
Moving == {"put", "remove", "rename"}
Movers(s) == {f \in Range(s) : f.fn \in Moving}

\* A remove or rename that g makes for the upload f
Serves(g, f) ==
    /\ f.fn = "put" /\ f.kept
    /\ \/ /\ f.at = "end" /\ f.ok
          /\ g.fn = "remove" /\ g.path = Temporary(f.path)
       \/ /\ f.at = "cleared"
          /\ g.fn = "rename" /\ g.path = f.path /\ g.to = Temp[Last(f.path)]
       \/ /\ f.at = "end" /\ ~f.ok
          /\ g.fn = "rename" /\ g.path = Temporary(f.path) /\ g.to = Last(f.path)

\* A frame that the requests of OnlyAdds lead to
FrameAdds(f) ==
    /\ f.fn # "move"
    /\ f.fn \in {"put", "puturl"} => f.kind = "file"
    /\ f.fn = "put" => /\ f.kept => f.at \notin {"start", "old"}
                       /\ f.ok => f.at \in {"done", "end"}
    /\ f.fn = "edit" => Filled(f.listing) /\ (f.new # NoName => f.new.kind # "empty")

\* On a stack of such frames, only uploads remove and rename.
StackAdds(s) ==
    \A g \in Range(s) : /\ FrameAdds(g)
                        /\ g.fn \in {"remove", "rename"} => \E f \in Range(s) : Serves(g, f)

\* The upload f has the object under its temporary name; v is the last answer.
Keeps(f, s, v) ==
    /\ f.fn = "put" /\ f.kept
    /\ \/ f.at \in {"parent", "got", "done"}
       \/ /\ f.at = "cleared"
          /\ \/ \E g \in Range(s) : g.fn = "rename" /\ g.at = "end"
             \/ v = Done /\ \A g \in Range(s) : g.fn \notin {"remove", "rename"}
       \/ /\ f.at = "end"
          /\ \E g \in Range(s) : g.fn \in {"remove", "rename"} /\ g.at \in {"start", "got"}

\* The stack s has the object x under its temporary name; or has uploaded it.
Holds(s, v, x) == \E f \in Range(s) : f.path = x /\ Keeps(f, s, v)
Landed(s, x) == \E f \in Range(s) : f.fn = "put" /\ f.path = x /\ f.ok

\* No empty file shows in a listing, on the storage or in an answer.
ListingsFilled ==
    \A d \in Dir : /\ cache[d] # NoListing => Filled(cache[d])
                   /\ Filled(listG[d].listing)

NothingEmpty ==
    /\ \A x \in Path : disk[x] # "empty"
    /\ \A p \in Proc : ret[p] # "empty"
    /\ ListingsFilled

\* One upload at most holds an object, and the storage has it.
Holding ==
    \A x \in Target :
        /\ \A p, q \in Proc : Holds(stack[p], ret[p], x) /\ Holds(stack[q], ret[q], x) => p = q
        /\ \A p \in Proc : Holds(stack[p], ret[p], x) =>
              /\ disk[Temporary(x)] = "file"
              /\ Landed(stack[p], x) => disk[x] = "file"

Adding == NothingEmpty /\ (\A p \in Proc : StackAdds(stack[p])) /\ Holding

\* An object that is uploaded has a temporary name of its own, and neither is a
\* directory's.
LEMMA TempHas ==
    ASSUME OnlyAdds, NEW x \in Target
    PROVE  LET t == Temporary(x) IN
           /\ x \in Path /\ x # Root /\ x \notin Dir
           /\ t \in Path /\ t # Root /\ t \notin Dir /\ t # x
           /\ Parent(t) = Parent(x) /\ Last(t) = Temp[Last(x)] /\ Temp[Last(x)] \in Name
           /\ Child(Parent(x), Temp[Last(x)]) = t /\ Child(Parent(t), Last(x)) = x
           /\ \A y \in Target : y # t /\ (Temporary(y) = t => y = x)
<1> DEFINE t == Temporary(x)
<1>1. x \in Path /\ x # Root /\ Last(x) \in DOMAIN Temp BY DEF Target
<1>2. x \notin Dir /\ t \in Path \ Dir BY <1>1 DEF OnlyAdds
<1>3. Parent(x) \in Path /\ Child(Parent(x), Last(x)) = x BY <1>1, PathHas
<1>4. /\ Temp[Last(x)] \in Name /\ t # Root
      /\ Parent(t) = Parent(x) /\ Last(t) = Temp[Last(x)]
  BY <1>2, <1>3, NameOf DEF Temporary
<1>5. ASSUME NEW y \in Target PROVE y # t /\ (Temporary(y) = t => y = x)
  <2>1. y \in Path /\ y # Root /\ Last(y) \in DOMAIN Temp BY DEF Target
  <2>2. y # t BY <1>1, <1>4, <2>1 DEF OnlyAdds
  <2>3. ASSUME Temporary(y) = t PROVE y = x
    <3>1. Parent(y) \in Path /\ Temporary(y) \in Path BY <2>1, PathHas DEF OnlyAdds
    <3>2. Parent(t) = Parent(y) /\ Last(t) = Temp[Last(y)]
      BY <2>3, <3>1, NameOf DEF Temporary
    <3>3. Last(x) = Last(y) BY <1>1, <1>4, <2>1, <3>2 DEF OnlyAdds
    <3> QED BY <1>1, <1>4, <2>1, <3>2, <3>3, ChildrenDiffer
  <2> QED BY <2>2, <2>3
<1>6. t # x BY <1>5
<1> QED BY <1>1, <1>2, <1>3, <1>4, <1>5, <1>6 DEF Temporary

\* An upload is at the bottom of its stack.
LEMMA PutBottom ==
    ASSUME NEW s \in Seq(FrameSet), s # <<>>, GoodStack(s), Head(s).fn = "put"
    PROVE  Tail(s) = <<>> /\ Range(Tail(s)) = {} /\ Range(s) = {Head(s)}
<1>1. Tail(s) # <<>> => Above(Head(s), Head(Tail(s))) BY BelowTop
<1>2. ~Above(Head(s), Head(Tail(s))) BY DEF Above, IsUpkeep
<1>3. Range(s) = {Head(s)} \cup Range(Tail(s)) BY StackHas
<1> QED BY <1>1, <1>2, <1>3, RangeOf

\* A remove or rename stands on the upload it is made for.
LEMMA MoverBottom ==
    ASSUME NEW s \in Seq(FrameSet), s # <<>>, GoodStack(s), StackAdds(s),
           Head(s).fn \in {"remove", "rename"}
    PROVE  /\ Tail(s) # <<>> /\ Head(Tail(s)) \in FrameSet /\ Tail(Tail(s)) = <<>>
           /\ Range(s) = {Head(s), Head(Tail(s))} /\ Range(Tail(s)) = {Head(Tail(s))}
           /\ Serves(Head(s), Head(Tail(s)))
<1> DEFINE r == Tail(s)
<1>1. r \in Seq(FrameSet) /\ Range(s) = {Head(s)} \cup Range(r) BY StackHas
<1>2. Head(s) \in Range(s) BY <1>1
<1>3. PICK f \in Range(s) : Serves(Head(s), f) BY <1>2 DEF StackAdds
<1>4. f \in Range(r) BY <1>1, <1>3 DEF Serves
<1>5. r # <<>> BY <1>4, RangeOf
<1>6. Above(Head(s), Head(r)) /\ GoodStack(r) BY <1>5, BelowTop, TailGood
<1>7. Head(r).fn = "put" BY <1>6 DEF Above, IsUpkeep
<1>8. Head(r) \in FrameSet BY <1>1, <1>5, StackHas
<1> HIDE DEF r
<1>9. Tail(r) = <<>> /\ Range(r) = {Head(r)} BY <1>1, <1>5, <1>6, <1>7, PutBottom
<1> QED BY <1>1, <1>3, <1>4, <1>5, <1>8, <1>9 DEF r

\* Something stands on an upload that is at a call: what it called.
LEMMA ClearedUnder ==
    ASSUME NEW s \in Seq(FrameSet), s # <<>>, GoodStack(s), Head(s).fn \notin Moving,
           NEW f \in Range(s), f.fn = "put", f.at = "cleared"
    PROVE  \E g \in Range(s) : g.fn \in {"remove", "rename"}
<1>1. /\ Len(s) \in Nat /\ Len(s) > 0 /\ DOMAIN s = 1 .. Len(s) /\ Head(s) = s[1]
  BY StackHas
<1>2. PICK i \in 1 .. Len(s) : f = s[i] BY <1>1 DEF Range
<1>3. i # 1 BY <1>1, <1>2 DEF Moving
<1>4. i - 1 \in 1 .. Len(s) - 1 /\ i - 1 \in 1 .. Len(s) /\ (i - 1) + 1 = i BY <1>1, <1>2, <1>3
<1>5. Above(s[i - 1], f) BY <1>2, <1>4 DEF GoodStack
<1>6. s[i - 1].fn \in {"remove", "rename"} BY <1>5 DEF Above, Asks, UnderUpkeep, IsUpkeep, Op
<1>7. s[i - 1] \in Range(s) BY <1>1, <1>4 DEF Range
<1> QED BY <1>6, <1>7

\* What the frames that move the object say does not depend on the others.
LEMMA HoldsSame ==
    ASSUME NEW s \in Seq(FrameSet), s # <<>>, GoodStack(s), Head(s).fn \notin Moving,
           NEW t, Movers(t) = Movers(s), NEW v, NEW w, NEW x
    PROVE  /\ Holds(t, w, x) => Holds(s, v, x)
           /\ Landed(t, x) <=> Landed(s, x)
<1>1. \A f : f.fn \in Moving => (f \in Range(t) <=> f \in Range(s)) BY DEF Movers
<1>2. Landed(t, x) <=> Landed(s, x) BY <1>1 DEF Landed, Moving
<1>3. ASSUME Holds(t, w, x) PROVE Holds(s, v, x)
  <2>1. PICK f \in Range(t) : f.path = x /\ Keeps(f, t, w) BY <1>3 DEF Holds
  <2>2. f.fn = "put" /\ f \in Range(s) BY <1>1, <2>1 DEF Keeps, Moving
  <2>3. Keeps(f, s, v)
    <3>1. CASE f.at # "cleared" BY <1>1, <2>1, <3>1 DEF Keeps, Moving
    <3>2. CASE f.at = "cleared"
      <4>1. \E g \in Range(s) : g.fn \in {"remove", "rename"} BY <2>2, <3>2, ClearedUnder
      <4>2. \E g \in Range(t) : g.fn = "rename" /\ g.at = "end"
        BY <1>1, <2>1, <3>2, <4>1 DEF Keeps, Moving
      <4> QED BY <1>1, <2>1, <3>2, <4>2 DEF Keeps, Moving
    <3> QED BY <3>1, <3>2
  <2> QED BY <2>1, <2>2, <2>3 DEF Holds
<1> QED BY <1>2, <1>3

\* Files stay where they are.
Grows == \A y \in Path : disk[y] = "file" => disk'[y] = "file"

\* Whoever holds an object held it before.
LEMMA HoldingKept ==
    ASSUME OnlyAdds, Holding, Grows,
           \A q \in Proc, x \in Target : Holds(stack'[q], ret'[q], x) =>
              /\ Holds(stack[q], ret[q], x)
              /\ Landed(stack'[q], x) => Landed(stack[q], x) \/ disk'[x] = "file"
    PROVE  Holding'
<1> SUFFICES ASSUME NEW x \in Target
             PROVE  /\ \A p, q \in Proc : Holds(stack'[p], ret'[p], x)
                                          /\ Holds(stack'[q], ret'[q], x) => p = q
                    /\ \A p \in Proc : Holds(stack'[p], ret'[p], x) =>
                          /\ disk'[Temporary(x)] = "file"
                          /\ Landed(stack'[p], x) => disk'[x] = "file"
  BY DEF Holding
<1>1. x \in Path /\ Temporary(x) \in Path BY TempHas
<1>2. \A p, q \in Proc : Holds(stack'[p], ret'[p], x) /\ Holds(stack'[q], ret'[q], x) => p = q
  BY DEF Holding
<1>3. ASSUME NEW p \in Proc, Holds(stack'[p], ret'[p], x)
      PROVE  /\ disk'[Temporary(x)] = "file"
             /\ Landed(stack'[p], x) => disk'[x] = "file"
  BY <1>1, <1>3 DEF Holding, Grows
<1> QED BY <1>2, <1>3

\* Frames that move nothing come and go on a stack.
LEMMA AddsKept ==
    ASSUME NEW s \in Seq(FrameSet), s # <<>>, Head(s).fn \notin Moving, StackAdds(s),
           NEW N, NEW t, Range(t) = N \cup Range(Tail(s)),
           \A g \in N : FrameAdds(g) /\ g.fn \notin Moving
    PROVE  StackAdds(t) /\ Movers(t) = Movers(s)
<1>1. Range(s) = {Head(s)} \cup Range(Tail(s)) BY StackHas
<1>2. \A f : f.fn \in Moving => (f \in Range(t) <=> f \in Range(s)) BY <1>1
<1>3. Movers(t) = Movers(s) BY <1>2 DEF Movers
<1>4. ASSUME NEW g \in Range(t)
      PROVE  /\ FrameAdds(g)
             /\ g.fn \in {"remove", "rename"} => \E f \in Range(t) : Serves(g, f)
  <2>1. CASE g \in N BY <2>1 DEF Moving
  <2>2. CASE g \in Range(Tail(s))
    <3>1. g \in Range(s) BY <1>1, <2>2
    <3>2. ASSUME g.fn \in {"remove", "rename"} PROVE \E f \in Range(t) : Serves(g, f)
      <4>1. PICK f \in Range(s) : Serves(g, f) BY <3>1, <3>2 DEF StackAdds
      <4>2. f \in Range(t) BY <1>2, <4>1 DEF Serves, Moving
      <4> QED BY <4>1, <4>2
    <3> QED BY <3>1, <3>2 DEF StackAdds
  <2> QED BY <2>1, <2>2
<1> QED BY <1>3, <1>4 DEF StackAdds

\* A process that takes no turn, or one that does not move an object
Aside(q) ==
    \/ stack'[q] = stack[q] /\ ret'[q] = ret[q]
    \/ /\ stack[q] # <<>> /\ Top(q).fn \notin Moving
       /\ \E N : /\ Range(stack'[q]) = N \cup Range(Tail(stack[q]))
                 /\ \A g \in N : FrameAdds(g) /\ g.fn \notin Moving

\* A step in which no object is moved, and no file lost
LEMMA AsideKeeps ==
    ASSUME OnlyAdds, Stacks, Adding, NothingEmpty', Grows, \A q \in Proc : Aside(q)
    PROVE  Adding'
<1>1. ASSUME NEW q \in Proc
      PROVE  /\ StackAdds(stack'[q])
             /\ \A x : Holds(stack'[q], ret'[q], x) =>
                   Holds(stack[q], ret[q], x) /\ (Landed(stack'[q], x) => Landed(stack[q], x))
  <2>1. CASE stack'[q] = stack[q] /\ ret'[q] = ret[q] BY <2>1 DEF Adding
  <2>2. ASSUME stack[q] # <<>>, Top(q).fn \notin Moving,
               NEW N, Range(stack'[q]) = N \cup Range(Tail(stack[q])),
               \A g \in N : FrameAdds(g) /\ g.fn \notin Moving
        PROVE  /\ StackAdds(stack'[q])
               /\ \A x : Holds(stack'[q], ret'[q], x) =>
                     Holds(stack[q], ret[q], x) /\ (Landed(stack'[q], x) => Landed(stack[q], x))
    <3>1. stack[q] \in Seq(FrameSet) /\ GoodStack(stack[q]) /\ Top(q) = Head(stack[q])
      BY <2>2, TopHas
    <3>2. StackAdds(stack'[q]) /\ Movers(stack'[q]) = Movers(stack[q])
      BY <2>2, <3>1, AddsKept DEF Adding
    <3> QED BY <2>2, <3>1, <3>2, HoldsSame
  <2> QED BY <2>1, <2>2 DEF Aside
<1>2. Holding' BY <1>1, HoldingKept DEF Adding
<1> QED BY <1>1, <1>2 DEF Adding

-----------------------------------------------------------------------------
(* The steps of calls that move nothing *)

\* Frames in front of a stack, whatever they are
LEMMA FrontHas ==
    ASSUME NEW s \in Seq(FrameSet), NEW c, NEW g
    PROVE  /\ Range(<<g>> \o s) = {g} \cup Range(s)
           /\ Range(<<c, g>> \o s) = {c, g} \cup Range(s)
<1> DEFINE S == FrameSet \cup {c, g}
           r == <<g>> \o s
<1>1. s \in Seq(S) /\ c \in S /\ g \in S
  <2>1. Len(s) \in Nat /\ s \in [1 .. Len(s) -> FrameSet] BY LenProperties
  <2>2. s \in [1 .. Len(s) -> S] BY <2>1
  <2> QED BY <2>1, <2>2, SeqDef
<1> HIDE DEF S
<1>2. r \in Seq(S) /\ Range(r) = {g} \cup Range(s) BY <1>1, PushHas DEF r
<1>3. <<c, g>> \o s = <<c>> \o r BY <1>1, TwoPushed DEF r
<1> HIDE DEF r
<1>4. Range(<<c>> \o r) = {c} \cup Range(r) BY <1>1, <1>2, PushHas
<1>5. Range(<<c, g>> \o s) = {c, g} \cup Range(s) BY <1>2, <1>3, <1>4
<1> QED BY <1>2, <1>5 DEF r

\* The running function goes on, or calls another.
LEMMA GoesAside ==
    ASSUME Stacks, NEW p \in Proc, stack[p] # <<>>, Top(p).fn \notin Moving,
           NEW g, FrameAdds(g), g.fn \notin Moving, NEW c, FrameAdds(c), c.fn \notin Moving,
           Replace(p, <<g>>) \/ Replace(p, <<c, g>>),
           \A q \in Proc \ {p} : ret'[q] = ret[q]
    PROVE  \A q \in Proc : Aside(q)
<1>1. /\ stack[p] \in Seq(FrameSet) /\ Tail(stack[p]) \in Seq(FrameSet)
      /\ stack \in [Proc -> Seq(FrameSet)]
  BY TopHas
<1>2. stack'[p] \in {<<g>> \o Tail(stack[p]), <<c, g>> \o Tail(stack[p])} BY <1>1 DEF Replace
<1>3. \A q \in Proc \ {p} : stack'[q] = stack[q] BY <1>1 DEF Replace
<1>4. \/ Range(stack'[p]) = {g} \cup Range(Tail(stack[p]))
      \/ Range(stack'[p]) = {c, g} \cup Range(Tail(stack[p]))
  BY <1>1, <1>2, FrontHas
<1>5. ASSUME NEW N \in {{g}, {c, g}}, Range(stack'[p]) = N \cup Range(Tail(stack[p]))
      PROVE  Aside(p)
  <2>1. \A h \in N : FrameAdds(h) /\ h.fn \notin Moving OBVIOUS
  <2> QED BY <1>5, <2>1 DEF Aside
<1>6. Aside(p) BY <1>4, <1>5
<1> QED BY <1>3, <1>6 DEF Aside

\* Running functions return.
LEMMA ReturnsAside ==
    ASSUME Stacks, NEW ps \in SUBSET Proc, NEW value, Return(ps, value),
           \A q \in ps : stack[q] # <<>> /\ Top(q).fn \notin Moving
    PROVE  /\ \A q \in Proc : Aside(q)
           /\ \A q \in Proc : ret'[q] = IF q \in ps THEN value[q] ELSE ret[q]
<1>1. \A q \in Proc : ret'[q] = IF q \in ps THEN value[q] ELSE ret[q] BY DEF Return
<1>2. \A q \in Proc : stack'[q] = IF q \in ps THEN Tail(stack[q]) ELSE stack[q]
  BY DEF Return
<1>3. ASSUME NEW q \in ps PROVE Aside(q)
  <2>1. Range(stack'[q]) = {} \cup Range(Tail(stack[q])) BY <1>2
  <2> QED BY <2>1 DEF Aside
<1> QED BY <1>1, <1>2, <1>3 DEF Aside

\* What a frame promises does not depend on its step, but for an upload's.
LEMMA GoesAdds ==
    ASSUME NEW f \in FrameSet, f.fn \in (Op \cup {"list"}) \ Moving, FrameAdds(f), NEW at
    PROVE  LET g == [f EXCEPT !.at = at] IN
           FrameAdds(g) /\ g.fn = f.fn /\ g.fn \notin Moving
<1> DEFINE g == [f EXCEPT !.at = at]
<1>1. g.fn = f.fn /\ (f.fn \in Op => g.kind = f.kind) BY GoesHas
<1> HIDE DEF g
<1>2. FrameAdds(g) BY <1>1 DEF FrameAdds, Op, Moving
<1> QED BY <1>1, <1>2 DEF g

\* Calls of List and MakeDir promise nothing.
LEMMA CallsAdd ==
    ASSUME NEW d, NEW want, NEW refresh
    PROVE  /\ FrameAdds(ListFrame(d, want, refresh)) /\ ListFrame(d, want, refresh).fn = "list"
           /\ FrameAdds(MkdirFrame(d)) /\ MkdirFrame(d).fn = "mkdir"
           /\ FrameAdds(ClearFrame(d)) /\ ClearFrame(d).fn = "clear"
BY DEF ListFrame, MkdirFrame, OpFrame, ClearFrame, FrameAdds

\* What was read of a listing without empty files is not one.
LEMMA FoundFilled ==
    ASSUME NEW listing, Filled(listing), NEW n
    PROVE  Found(listing, n) # "empty"
<1>1. CASE n # NoName /\ \E e \in listing : e.name = n
  <2>1. (CHOOSE e \in listing : e.name = n) \in listing BY <1>1
  <2> QED BY <1>1, <2>1 DEF Found, Filled
<1>2. CASE ~(n # NoName /\ \E e \in listing : e.name = n) BY <1>2 DEF Found, Done, Absent
<1> QED BY <1>1, <1>2

\* A step that leaves the disk alone
LEMMA StillAdding ==
    ASSUME OnlyAdds, Stacks, Adding, UNCHANGED disk, ListingsFilled',
           \A q \in Proc : Aside(q), \A q \in Proc : ret'[q] # "empty"
    PROVE  Adding'
<1>1. Grows BY DEF Grows
<1>2. NothingEmpty' BY DEF Adding, NothingEmpty
<1> QED BY <1>1, <1>2, AsideKeeps

\* Listings that stay are as filled as they were.
LEMMA SameListings ==
    ASSUME Adding, UNCHANGED <<cache, listG>>
    PROVE  ListingsFilled'
BY DEF Adding, NothingEmpty, ListingsFilled

\* A function that moves nothing returns.
LEMMA ReturnsAdding ==
    ASSUME OnlyAdds, Stacks, Adding, NEW p \in Proc, stack[p] # <<>>, Top(p).fn \notin Moving,
           NEW v, v # "empty", Returns(p, v), UNCHANGED disk, ListingsFilled'
    PROVE  Adding'
<1>1. /\ \A q \in Proc : Aside(q)
      /\ \A q \in Proc : ret'[q] = IF q \in {p} THEN [r \in {p} |-> v][q] ELSE ret[q]
  BY ReturnsAside DEF Returns
<1>2. \A q \in Proc : ret'[q] # "empty" BY <1>1 DEF Adding, NothingEmpty
<1> QED BY <1>1, <1>2, StillAdding

\* It goes on, or calls another function.
LEMMA GoesAdding ==
    ASSUME OnlyAdds, Stacks, Adding, NEW p \in Proc, stack[p] # <<>>, Top(p).fn \notin Moving,
           NEW g, FrameAdds(g), g.fn \notin Moving, NEW c, FrameAdds(c), c.fn \notin Moving,
           Replace(p, <<g>>) \/ Replace(p, <<c, g>>),
           ret' = ret \/ ret' = [ret EXCEPT ![p] = "dir"],
           UNCHANGED disk, ListingsFilled'
    PROVE  Adding'
<1>1. ret \in [Proc -> Answer \cup {Done}] BY TopHas
<1>2. \A q \in Proc : ret'[q] = ret[q] \/ (q = p /\ ret'[q] = "dir") BY <1>1
<1>3. \A q \in Proc : Aside(q) BY <1>2, GoesAside
<1>4. \A q \in Proc : ret'[q] # "empty" BY <1>2 DEF Adding, NothingEmpty
<1> QED BY <1>3, <1>4, StillAdding

\* It goes on to another of its steps, or calls another function then.
LEMMA NextAdding ==
    ASSUME OnlyAdds, Stacks, Adding, NEW p \in Proc, stack[p] # <<>>,
           Top(p).fn \in (Op \cup {"list"}) \ Moving,
           NEW at, NEW c, FrameAdds(c), c.fn \notin Moving,
           Goto(p, at) \/ Call(p, c, at), UNCHANGED disk, ListingsFilled'
    PROVE  Adding'
<1> DEFINE g == [Top(p) EXCEPT !.at = at]
<1>1. Top(p) \in FrameSet /\ Top(p) \in Range(stack[p]) BY TopHas
<1>2. FrameAdds(Top(p)) BY <1>1 DEF Adding, StackAdds
<1>3. FrameAdds(g) /\ g.fn \notin Moving BY <1>1, <1>2, GoesAdds
<1>4. (Replace(p, <<g>>) \/ Replace(p, <<c, g>>)) /\ ret' = ret BY DEF Goto, Call
<1> HIDE DEF g
<1> QED BY <1>3, <1>4, GoesAdding

\* It looks an object up.
LEMMA GetsAdding ==
    ASSUME OnlyAdds, Stacks, Adding, NEW p \in Proc, stack[p] # <<>>,
           Top(p).fn \in (Op \cup {"list"}) \ Moving,
           NEW path, NEW at, Get(p, path, at), UNCHANGED disk, ListingsFilled'
    PROVE  Adding'
<1> DEFINE g == [Top(p) EXCEPT !.at = at]
           c == ListFrame(Parent(path), Last(path), FALSE)
<1>1. Top(p) \in FrameSet /\ Top(p) \in Range(stack[p]) BY TopHas
<1>2. FrameAdds(Top(p)) BY <1>1 DEF Adding, StackAdds
<1>3. FrameAdds(g) /\ g.fn \notin Moving BY <1>1, <1>2, GoesAdds
<1>4. FrameAdds(c) /\ c.fn \notin Moving BY CallsAdd DEF Moving
<1>5. /\ Replace(p, <<g>>) \/ Replace(p, <<c, g>>)
      /\ ret' = ret \/ ret' = [ret EXCEPT ![p] = "dir"]
  BY DEF Get, Call
<1> HIDE DEF g, c
<1> QED BY <1>3, <1>4, <1>5, GoesAdding

\* What a running function that moves nothing promises
LEMMA AddsTop ==
    ASSUME Stacks, Adding, NEW p \in Proc, stack[p] # <<>>
    PROVE  Top(p) \in FrameSet /\ FrameAdds(Top(p))
BY TopHas DEF Adding, StackAdds

\* Functions that move nothing return together, with the answer of their flight.
LEMMA AnswersAdding ==
    ASSUME OnlyAdds, Stacks, Adding, NEW ps \in SUBSET Proc, NEW value, Return(ps, value),
           \A q \in ps : stack[q] # <<>> /\ Top(q).fn \notin Moving /\ value[q] # "empty",
           UNCHANGED disk, ListingsFilled'
    PROVE  Adding'
<1>1. /\ \A q \in Proc : Aside(q)
      /\ \A q \in Proc : ret'[q] = IF q \in ps THEN value[q] ELSE ret[q]
  BY ReturnsAside
<1>2. \A q \in Proc : ret'[q] # "empty" BY <1>1 DEF Adding, NothingEmpty
<1> QED BY <1>1, <1>2, StillAdding

\* List begins.
LEMMA ListStartAdding ==
    ASSUME OnlyAdds, Base, Adding, NEW p \in Proc, ListStart(p)
    PROVE  Adding'
<1> DEFINE f == Top(p)
<1>1. stack[p] # <<>> /\ f.fn = "list" BY DEF ListStart, At
<1>2. Stacks /\ f \in FrameSet /\ f.path \in Dir BY <1>1, TopHas, FrameHas DEF Base, Op
<1>3. UNCHANGED disk /\ ListingsFilled' BY SameListings DEF ListStart
<1>4. CASE cache[f.path] # NoListing /\ Returns(p, Found(cache[f.path], f.want))
  <2>1. Found(cache[f.path], f.want) # "empty"
    BY <1>2, <1>4, FoundFilled DEF Adding, NothingEmpty, ListingsFilled
  <2> QED BY <1>1, <1>2, <1>3, <1>4, <2>1, ReturnsAdding DEF Moving
<1>5. CASE Get(p, f.path, "dir") BY <1>1, <1>2, <1>3, <1>5, GetsAdding DEF Moving
<1> QED BY <1>4, <1>5 DEF ListStart

\* It leads the flight, or waits for it.
LEMMA ListDoAdding ==
    ASSUME OnlyAdds, Base, Adding, NEW p \in Proc, ListDo(p)
    PROVE  Adding'
<1> DEFINE f == Top(p)
           c == ListFrame(Root, NoName, FALSE)
<1>1. stack[p] # <<>> /\ f.fn = "list" BY DEF ListDo, At
<1>2. Stacks /\ f \in FrameSet /\ f.path \in Dir BY <1>1, TopHas, FrameHas DEF Base, Op
<1>3. UNCHANGED <<disk, cache>> BY DEF ListDo
<1>4. \/ listG' = listG
      \/ listG' = [listG EXCEPT ![f.path].stage = "open"]
  BY DEF ListDo
<1>5. \A d \in Dir : listG'[d].listing = listG[d].listing
  BY <1>4 DEF Base, Data, FlightRecord
<1>6. ListingsFilled' BY <1>3, <1>5 DEF Adding, NothingEmpty, ListingsFilled
<1>7. CASE \E v \in {Absent, Failed} : Returns(p, v)
  BY <1>1, <1>2, <1>3, <1>6, <1>7, ReturnsAdding DEF Absent, Failed, Moving
<1>8. CASE \E at : Goto(p, at)
  <2>1. FrameAdds(c) /\ c.fn \notin Moving BY CallsAdd DEF Moving
  <2> HIDE DEF c
  <2> QED BY <1>1, <1>2, <1>3, <1>6, <1>8, <2>1, NextAdding DEF Moving
<1> QED BY <1>7, <1>8 DEF ListDo

\* It reads the directory.
LEMMA ListReadAdding ==
    ASSUME OnlyAdds, Base, Adding, NEW p \in Proc, ListRead(p)
    PROVE  Adding'
<1> DEFINE f == Top(p)
           c == ListFrame(Root, NoName, FALSE)
<1>1. stack[p] # <<>> /\ f.fn = "list" BY DEF ListRead, At
<1>2. Stacks /\ f \in FrameSet /\ f.path \in Dir BY <1>1, TopHas, FrameHas DEF Base, Op
<1>3. UNCHANGED <<disk, cache>> BY DEF ListRead
<1>4. Filled(OnDisk(f.path))
  <2>1. ASSUME NEW x \in Path PROVE Entry(Last(x), disk[x]).kind # "empty"
    BY DEF Entry, Adding, NothingEmpty
  <2> QED BY <2>1 DEF Filled, OnDisk
<1>5. \/ listG' = [listG EXCEPT ![f.path] = [stage |-> "read", listing |-> OnDisk(f.path)]]
      \/ listG' = [listG EXCEPT ![f.path].stage = "failed"]
  BY DEF ListRead
<1>6. \A d \in Dir : listG'[d].listing \in {listG[d].listing, OnDisk(f.path)}
  BY <1>5 DEF Base, Data, FlightRecord
<1>7. ListingsFilled' BY <1>3, <1>4, <1>6 DEF Adding, NothingEmpty, ListingsFilled
<1>8. \E at : Goto(p, at) BY DEF ListRead
<1>9. FrameAdds(c) /\ c.fn \notin Moving BY CallsAdd DEF Moving
<1> HIDE DEF c
<1> QED BY <1>1, <1>2, <1>3, <1>7, <1>8, <1>9, NextAdding DEF Moving

\* It caches what it read.
LEMMA ListStoreAdding ==
    ASSUME OnlyAdds, Base, Adding, NEW p \in Proc, ListStore(p)
    PROVE  Adding'
<1> DEFINE f == Top(p)
           c == ListFrame(Root, NoName, FALSE)
<1>1. stack[p] # <<>> /\ f.fn = "list" BY DEF ListStore, At
<1>2. Stacks /\ f \in FrameSet /\ f.path \in Dir BY <1>1, TopHas, FrameHas DEF Base, Op
<1>3. UNCHANGED disk BY DEF ListStore
<1>4. \A d \in Dir : cache'[d] \in {cache[d], NoListing, listG[f.path].listing}
  BY DEF ListStore, Base, Data
<1>5. \A d \in Dir : listG'[d].listing = listG[d].listing
  <2>1. listG' = [listG EXCEPT ![f.path].stage = "stored"] BY DEF ListStore
  <2> QED BY <2>1 DEF Base, Data, FlightRecord
<1>6. ListingsFilled' BY <1>2, <1>4, <1>5 DEF Adding, NothingEmpty, ListingsFilled
<1>7. Goto(p, "close") BY DEF ListStore
<1>8. FrameAdds(c) /\ c.fn \notin Moving BY CallsAdd DEF Moving
<1> HIDE DEF c
<1> QED BY <1>1, <1>2, <1>3, <1>6, <1>7, <1>8, NextAdding DEF Moving

\* The flight ends.
LEMMA ListCloseAdding ==
    ASSUME OnlyAdds, Base, Adding, NEW p \in Proc, ListClose(p)
    PROVE  Adding'
<1> DEFINE dir == Top(p).path
           answered == {p} \cup {q \in Proc : At(q, "list", "wait") /\ Top(q).path = dir}
           value == [q \in answered |-> IF listG[dir].stage = "failed" THEN Failed
                                        ELSE Found(listG[dir].listing, Top(q).want)]
<1>1. stack[p] # <<>> /\ Top(p).fn = "list" BY DEF ListClose, At
<1>2. Stacks /\ Top(p) \in FrameSet /\ dir \in Dir BY <1>1, TopHas, FrameHas DEF Base, Op
<1>3. UNCHANGED <<disk, cache>> BY DEF ListClose
<1>4. Return(answered, value) /\ listG' = [listG EXCEPT ![dir] = NoFlight] BY DEF ListClose
<1>5. Filled({}) BY DEF Filled
<1>6. \A d \in Dir : listG'[d].listing \in {listG[d].listing, {}}
  BY <1>4 DEF Base, Data, NoFlight
<1>7. ListingsFilled' BY <1>3, <1>5, <1>6 DEF Adding, NothingEmpty, ListingsFilled
<1>8. \A q \in answered : stack[q] # <<>> /\ Top(q).fn \notin Moving BY <1>1 DEF At, Moving
<1>9. ASSUME NEW q \in answered PROVE value[q] # "empty"
  <2>1. Filled(listG[dir].listing) BY <1>2 DEF Adding, NothingEmpty, ListingsFilled
  <2>2. Found(listG[dir].listing, Top(q).want) # "empty" BY <2>1, FoundFilled
  <2> QED BY <2>2 DEF Failed
<1>10. answered \in SUBSET Proc OBVIOUS
<1> HIDE DEF answered, value
<1> QED BY <1>2, <1>3, <1>4, <1>7, <1>8, <1>9, <1>10, AnswersAdding

\* A listing without empty files is edited.
LEMMA EditedFilled ==
    ASSUME NEW listing, Filled(listing), NEW old, NEW new, new # NoName => new.kind # "empty"
    PROVE  /\ Filled(Edited(listing, old, new))
           /\ new # NoName => Filled((listing \ Named(listing, new)) \cup {new})
BY DEF Filled, Edited, Named

\* The edit of a listing begins.
LEMMA EditGetAdding ==
    ASSUME OnlyAdds, Base, Adding, NEW p \in Proc, EditGet(p)
    PROVE  Adding'
<1> DEFINE f == Top(p)
           g == [f EXCEPT !.at = "set", !.listing = Edited(cache[f.path], f.old, f.new)]
<1>1. At(p, "edit", "start") /\ UNCHANGED <<disk, listG>> BY DEF EditGet
<1>2. /\ stack[p] # <<>> /\ f.fn = "edit" /\ f.path \in Dir /\ f \in EditFrames /\ Stacks
      /\ EditFit(f)
  BY <1>1, EditHas DEF Base
<1>3. FrameAdds(f) BY <1>2, AddsTop
<1>4. cache[f.path] # NoListing => Filled(cache[f.path])
  BY <1>2 DEF Adding, NothingEmpty, ListingsFilled
<1>5. f.new # NoName => f.new.kind # "empty" BY <1>2, <1>3 DEF FrameAdds
<1>6. CASE Returns(p, Done) /\ UNCHANGED cache
  BY <1>1, <1>2, <1>6, SameListings, ReturnsAdding DEF Moving, Done
<1>7. CASE /\ cache[f.path] # NoListing /\ f.old = NoName /\ Returns(p, Done)
           /\ cache' = [cache EXCEPT ![f.path] = (@ \ Named(@, f.new)) \cup {f.new}]
  <2>1. f.new # NoName BY <1>2, <1>7 DEF EditFit
  <2>2. Filled((cache[f.path] \ Named(cache[f.path], f.new)) \cup {f.new})
    BY <1>4, <1>5, <1>7, <2>1, EditedFilled
  <2>3. \A d \in Dir : cache'[d] = IF d = f.path
           THEN (cache[f.path] \ Named(cache[f.path], f.new)) \cup {f.new} ELSE cache[d]
    BY <1>2, <1>7 DEF Base, Data
  <2>4. ListingsFilled' BY <1>1, <2>2, <2>3 DEF Adding, NothingEmpty, ListingsFilled
  <2> QED BY <1>1, <1>2, <1>7, <2>4, ReturnsAdding DEF Moving, Done
<1>8. CASE cache[f.path] # NoListing /\ Replace(p, <<g>>) /\ UNCHANGED <<cache, ret>>
  <2>1. g.fn = "edit" /\ g.new = f.new /\ g.listing = Edited(cache[f.path], f.old, f.new)
    BY <1>2 DEF EditFrames
  <2>2. Filled(Edited(cache[f.path], f.old, f.new)) BY <1>4, <1>5, <1>8, EditedFilled
  <2> HIDE DEF g
  <2>3. FrameAdds(g) /\ g.fn \notin Moving BY <1>5, <2>1, <2>2 DEF FrameAdds, Moving
  <2> QED BY <1>1, <1>2, <1>8, <2>3, SameListings, GoesAdding DEF Moving
<1> QED BY <1>6, <1>7, <1>8 DEF EditGet

\* It is written back.
LEMMA EditSetAdding ==
    ASSUME OnlyAdds, Base, Adding, NEW p \in Proc, EditSet(p)
    PROVE  Adding'
<1> DEFINE f == Top(p)
<1>1. At(p, "edit", "set") /\ UNCHANGED <<disk, listG>> BY DEF EditSet
<1>2. stack[p] # <<>> /\ f.fn = "edit" /\ f.path \in Dir /\ Stacks BY <1>1, EditHas DEF Base
<1>3. Filled(f.listing) BY <1>2, AddsTop DEF FrameAdds
<1>4. \A d \in Dir : cache'[d] \in {cache[d], f.listing} BY DEF EditSet, Base, Data
<1>5. ListingsFilled' BY <1>1, <1>3, <1>4 DEF Adding, NothingEmpty, ListingsFilled
<1> QED BY <1>1, <1>2, <1>5, ReturnsAdding DEF EditSet, Moving, Done

\* The drop of a listing begins.
LEMMA ClearStartAdding ==
    ASSUME OnlyAdds, Base, Adding, NEW p \in Proc, ClearStart(p)
    PROVE  Adding'
<1> DEFINE f == Top(p)
<1>1. At(p, "clear", "start") /\ UNCHANGED <<disk, cache, listG, ret>> BY DEF ClearStart
<1>2. stack[p] # <<>> /\ f.fn = "clear" /\ f \in ClearFrames /\ Stacks BY <1>1, ClearHas DEF Base
<1>3. PICK todo : Replace(p, <<[f EXCEPT !.at = "kids", !.todo = todo]>>) BY DEF ClearStart
<1> DEFINE g == [f EXCEPT !.at = "kids", !.todo = todo]
<1>4. g.fn = "clear" BY <1>2 DEF ClearFrames
<1>5. Replace(p, <<g>>) BY <1>3
<1> HIDE DEF g
<1>6. FrameAdds(g) /\ g.fn \notin Moving BY <1>4 DEF FrameAdds, Moving
<1> QED BY <1>1, <1>2, <1>5, <1>6, SameListings, GoesAdding DEF Moving

\* It goes down, or ends.
LEMMA ClearKidsAdding ==
    ASSUME OnlyAdds, Base, Adding, NEW p \in Proc, ClearKids(p)
    PROVE  Adding'
<1> DEFINE f == Top(p)
<1>1. At(p, "clear", "kids") /\ UNCHANGED <<disk, listG>> BY DEF ClearKids
<1>2. stack[p] # <<>> /\ f.fn = "clear" /\ f \in ClearFrames /\ Stacks BY <1>1, ClearHas DEF Base
<1>3. ASSUME NEW name, UNCHANGED <<cache, ret>>,
             Replace(p, <<ClearFrame(Child(f.path, name)), [f EXCEPT !.todo = @ \ {name}]>>)
      PROVE  Adding'
  <2> DEFINE g == [f EXCEPT !.todo = @ \ {name}]
             c == ClearFrame(Child(f.path, name))
  <2>1. g.fn = "clear" BY <1>2 DEF ClearFrames
  <2>2. Replace(p, <<c, g>>) BY <1>3
  <2>3. FrameAdds(c) /\ c.fn \notin Moving BY CallsAdd DEF Moving
  <2> HIDE DEF g, c
  <2>4. FrameAdds(g) /\ g.fn \notin Moving BY <2>1 DEF FrameAdds, Moving
  <2> QED BY <1>1, <1>2, <1>3, <2>2, <2>3, <2>4, SameListings, GoesAdding DEF Moving
<1>4. CASE cache' = [cache EXCEPT ![f.path] = NoListing] /\ Returns(p, Done)
  <2>1. \A d \in Dir : cache'[d] \in {cache[d], NoListing} BY <1>4 DEF Base, Data
  <2>2. ListingsFilled' BY <1>1, <2>1 DEF Adding, NothingEmpty, ListingsFilled
  <2> QED BY <1>1, <1>2, <1>4, <2>2, ReturnsAdding DEF Moving, Done
<1> QED BY <1>3, <1>4 DEF ClearKids

\* A frame whose driver call succeeded is the same but for what changed.
LEMMA ChangingHas ==
    ASSUME NEW frame \in FrameSet, frame.fn \in Op, NEW upkeep
    PROVE  LET g == Changing(frame, upkeep) IN
           /\ g.fn = frame.fn /\ g.at = frame.at /\ g.path = frame.path /\ g.to = frame.to
           /\ g.kind = frame.kind /\ g.kept = frame.kept /\ g.ok = frame.ok
           /\ FrameAdds(frame) => FrameAdds(g)
<1> DEFINE g == Changing(frame, upkeep)
<1>1. /\ g.fn = frame.fn /\ g.at = frame.at /\ g.path = frame.path /\ g.to = frame.to
      /\ g.kind = frame.kind /\ g.kept = frame.kept /\ g.ok = frame.ok
  <2>1. frame \in OpFrames BY FrameHas
  <2> QED BY <2>1 DEF OpFrames, Changing
<1> HIDE DEF g
<1>2. FrameAdds(frame) => FrameAdds(g) BY <1>1 DEF FrameAdds, Op
<1> QED BY <1>1, <1>2 DEF g

\* The upkeep for an object that is no empty file
LEMMA UpkeepAdds ==
    ASSUME NEW dir, NEW old, NEW new, new.kind # "empty", NEW lazy,
           NEW upkeep \in Upkeeps(dir, old, new, lazy)
    PROVE  \A u \in Range(upkeep) : FrameAdds(u) /\ u.fn \notin Moving
<1>1. FrameAdds(EditFrame(dir, old, new)) /\ EditFrame(dir, old, new).fn = "edit"
  BY DEF EditFrame, FrameAdds, Filled
<1>2. FrameAdds(ClearFrame(dir)) /\ ClearFrame(dir).fn = "clear" BY CallsAdd
<1>3. upkeep \in {<<EditFrame(dir, old, new)>>, <<>>, <<ClearFrame(dir)>>} BY DEF Upkeeps
<1>4. Range(upkeep) \subseteq {EditFrame(dir, old, new), ClearFrame(dir)} BY <1>3, RangeOf
<1> QED BY <1>1, <1>2, <1>4 DEF Moving

\* A driver call that moves nothing
LEMMA DrivesAdding ==
    ASSUME OnlyAdds, Stacks, Adding, NEW p \in Proc, stack[p] # <<>>, Top(p).fn \notin Moving,
           NEW frame \in FrameSet, frame.fn \in Op \ Moving, FrameAdds(frame),
           NEW upkeep, \A u \in Range(upkeep) : FrameAdds(u) /\ u.fn \notin Moving,
           Drives(p, frame, upkeep), Grows, \A x \in Path : disk'[x] # "empty"
    PROVE  Adding'
<1> DEFINE g == Changing(frame, upkeep)
           N == Range(upkeep) \cup {g}
<1>1. FrameAdds(g) /\ g.fn \notin Moving BY ChangingHas
<1>2. PICK t : Turn(p, t) /\ Range(t) = Range(upkeep) \cup {g} \cup Range(Tail(stack[p]))
  BY DEF Drives
<1>3. stack' = [stack EXCEPT ![p] = t] /\ stack \in [Proc -> Seq(FrameSet)]
  BY <1>2, TopHas DEF Turn
<1>4. ret' = ret /\ UNCHANGED <<cache, listG>> BY DEF Drives
<1>5. \A h \in N : FrameAdds(h) /\ h.fn \notin Moving BY <1>1
<1>6. Range(stack'[p]) = N \cup Range(Tail(stack[p])) BY <1>2, <1>3
<1> HIDE DEF N
<1>7. \A q \in Proc : Aside(q) BY <1>3, <1>4, <1>5, <1>6 DEF Aside
<1>8. NothingEmpty' BY <1>4, SameListings DEF Adding, NothingEmpty
<1> QED BY <1>7, <1>8, AsideKeeps

\* The flight of MakeDir ends.
LEMMA MkdirCloseAdding ==
    ASSUME OnlyAdds, Base, Adding, NEW p \in Proc, stack[p] # <<>>, Top(p).fn = "mkdir",
           NEW v \in {Done, Failed}, MkdirClose(p, v), UNCHANGED <<disk, cache, listG>>
    PROVE  Adding'
<1> DEFINE path == Top(p).path
           answered == {p} \cup {q \in Proc : At(q, "mkdir", "wait") /\ Top(q).path = path}
<1>1. Return(answered, [q \in answered |-> v]) BY DEF MkdirClose
<1>2. \A q \in answered : stack[q] # <<>> /\ Top(q).fn \notin Moving BY DEF At, Moving
<1>3. answered \in SUBSET Proc OBVIOUS
<1>4. ListingsFilled' BY SameListings
<1> HIDE DEF answered
<1>5. \A q \in answered : [r \in answered |-> v][q] # "empty" BY DEF Done, Failed
<1> QED BY <1>1, <1>2, <1>3, <1>4, <1>5, AnswersAdding DEF Base

\* MakeDir begins, and looks.
LEMMA MkdirAdding ==
    ASSUME OnlyAdds, Base, Adding, NEW p \in Proc,
           MkdirStart(p) \/ MkdirCheck(p) \/ MkdirParent(p) \/ MkdirEnd(p)
    PROVE  Adding'
<1> DEFINE f == Top(p)
           c == ListFrame(Root, NoName, FALSE)
           m == MkdirFrame(Parent(f.path))
<1>1. /\ stack[p] # <<>> /\ f.fn = "mkdir" /\ UNCHANGED <<disk, cache, listG>>
  BY DEF MkdirStart, MkdirCheck, MkdirParent, MkdirEnd, At
<1>2. Stacks /\ f \in FrameSet /\ f.fn \in (Op \cup {"list"}) \ Moving
  BY <1>1, TopHas DEF Base, Op, Moving
<1>3. UNCHANGED disk /\ ListingsFilled' BY <1>1, SameListings
<1>4. CASE Returns(p, Done) BY <1>1, <1>2, <1>3, <1>4, ReturnsAdding DEF Done
<1>5. CASE \E path, at : Get(p, path, at) BY <1>1, <1>2, <1>3, <1>5, GetsAdding
<1>6. CASE \E v \in {Done, Failed} : MkdirClose(p, v) BY <1>1, <1>6, MkdirCloseAdding
<1>7. CASE Goto(p, "wait")
  <2>1. FrameAdds(c) /\ c.fn \notin Moving BY CallsAdd DEF Moving
  <2> HIDE DEF c
  <2> QED BY <1>1, <1>2, <1>3, <1>7, <2>1, NextAdding
<1>8. CASE \E at : Call(p, m, at)
  <2>1. FrameAdds(m) /\ m.fn \notin Moving BY CallsAdd DEF Moving
  <2> HIDE DEF m
  <2> QED BY <1>1, <1>2, <1>3, <1>8, <2>1, NextAdding
<1>9. \/ Returns(p, Done)
      \/ \E path, at : Get(p, path, at)
      \/ \E v \in {Done, Failed} : MkdirClose(p, v)
      \/ Goto(p, "wait")
      \/ \E at : Call(p, m, at)
  BY DEF MkdirStart, MkdirCheck, MkdirParent, MkdirEnd
<1> QED BY <1>4, <1>5, <1>6, <1>7, <1>8, <1>9

\* The driver makes a directory.
LEMMA MkdirDriveAdding ==
    ASSUME OnlyAdds, Base, Adding, NEW p \in Proc, MkdirDrive(p)
    PROVE  Adding' /\ Grows
<1> DEFINE f == Top(p)
           g == [f EXCEPT !.at = "end"]
           new == Entry(Last(f.path), "dir")
<1>1. stack[p] # <<>> /\ Stacks /\ Data BY DEF MkdirDrive, At, Base
<1>2. /\ f \in FrameSet /\ f.fn = "mkdir" /\ f.at = "got" /\ f.path \in Dir
      /\ \/ MkdirClose(p, Failed) /\ UNCHANGED <<disk, cache, listG, left>>
         \/ /\ disk[Parent(f.path)] = "dir" /\ disk[f.path] \in {Absent, "dir"}
            /\ disk' = [disk EXCEPT ![f.path] = "dir"] /\ IsTree(disk')
            /\ \E upkeep \in Upkeeps(Parent(f.path), NoName, new, f.lazy) : Drives(p, g, upkeep)
  BY <1>1, MkdirDriven
<1>3. CASE MkdirClose(p, Failed) /\ UNCHANGED <<disk, cache, listG, left>>
  <2>1. Grows BY <1>3 DEF Grows
  <2> QED BY <1>1, <1>2, <1>3, <2>1, MkdirCloseAdding
<1>4. ASSUME disk[f.path] \in {Absent, "dir"}, disk' = [disk EXCEPT ![f.path] = "dir"],
             NEW upkeep \in Upkeeps(Parent(f.path), NoName, new, f.lazy), Drives(p, g, upkeep)
      PROVE  Adding' /\ Grows
  <2>1. g \in FrameSet /\ g.fn = "mkdir" BY <1>2, EndedHas DEF Op
  <2>2. disk \in [Path -> Kind \cup {Absent}] BY <1>1 DEF Data, IsTree
  <2>3. Grows /\ \A x \in Path : disk'[x] # "empty"
    BY <1>4, <2>2 DEF Grows, Adding, NothingEmpty, Absent
  <2>4. new.kind # "empty" BY DEF Entry
  <2> HIDE DEF g, new
  <2>5. \A u \in Range(upkeep) : FrameAdds(u) /\ u.fn \notin Moving BY <1>4, <2>4, UpkeepAdds
  <2>6. FrameAdds(g) BY <2>1 DEF FrameAdds
  <2> QED BY <1>1, <1>2, <1>4, <2>1, <2>3, <2>5, <2>6, DrivesAdding DEF Op, Moving
<1> QED BY <1>2, <1>3, <1>4

\* A copy or an upload from a URL begins and ends.
LEMMA OpAdding ==
    ASSUME OnlyAdds, Base, Adding, NEW p \in Proc, OpStart(p) \/ OpEnd(p) \/ PutParent(p),
           stack[p] # <<>>, Top(p).fn \notin Moving
    PROVE  Adding'
<1> DEFINE f == Top(p)
<1>1. Stacks /\ f.fn \in (Op \cup {"list"}) \ Moving /\ UNCHANGED <<disk, cache, listG>>
  BY DEF Base, OpStart, OpEnd, PutParent, At, Op
<1>2. UNCHANGED disk /\ ListingsFilled' BY <1>1, SameListings
<1>3. CASE \E v \in {Done, Failed} : Returns(p, v)
  BY <1>1, <1>2, <1>3, ReturnsAdding DEF Done, Failed
<1>4. CASE \E path, at : Get(p, path, at) BY <1>1, <1>2, <1>4, GetsAdding
<1>5. (\E v \in {Done, Failed} : Returns(p, v)) \/ (\E path, at : Get(p, path, at))
  BY DEF OpStart, OpEnd, PutParent
<1> QED BY <1>3, <1>4, <1>5

\* An upload from a URL makes its parent directory, or fails.
LEMMA PutURLOldAdding ==
    ASSUME OnlyAdds, Base, Adding, NEW p \in Proc, PutURLOld(p)
    PROVE  Adding'
<1> DEFINE f == Top(p)
           m == MkdirFrame(Parent(f.path))
           g == [f EXCEPT !.at = "parent"]
<1>1. /\ stack[p] # <<>> /\ f.fn = "puturl" /\ Stacks /\ UNCHANGED <<disk, cache, listG>>
      /\ f.fn \notin Moving
  BY DEF Base, PutURLOld, At, Moving
<1>2. UNCHANGED disk /\ ListingsFilled' BY <1>1, SameListings
<1>3. CASE Returns(p, Failed) BY <1>1, <1>2, <1>3, ReturnsAdding DEF Failed
<1>4. CASE MakeParent(p, f)
  <2>1. Replace(p, <<m, g>>) /\ ret' = ret BY <1>4 DEF MakeParent
  <2>2. FrameAdds(m) /\ m.fn \notin Moving BY CallsAdd DEF Moving
  <2>3. f \in FrameSet /\ FrameAdds(f) BY <1>1, AddsTop
  <2>4. FrameAdds(g) /\ g.fn \notin Moving BY <1>1, <2>3, GoesAdds DEF Op
  <2> HIDE DEF m, g
  <2> QED BY <1>1, <1>2, <2>1, <2>2, <2>4, GoesAdding
<1> QED BY <1>3, <1>4 DEF PutURLOld

\* A copy looks at its destination.
LEMMA MoveSrcAdding ==
    ASSUME OnlyAdds, Base, Adding, NEW p \in Proc, MoveSrc(p)
    PROVE  Adding'
<1> DEFINE f == Top(p)
           g == [f EXCEPT !.kind = ret[p], !.at = "got"]
           c == ListFrame(Parent(f.to), Last(f.to), FALSE)
<1>1. stack[p] # <<>> /\ Stacks /\ UNCHANGED <<disk, cache, listG>> BY DEF MoveSrc, At, Base
<1>2. f \in FrameSet /\ FrameAdds(f) BY <1>1, AddsTop
<1>3. f.fn = "copy" /\ f.fn \notin Moving BY <1>1, <1>2 DEF MoveSrc, At, FrameAdds, Moving
<1>4. UNCHANGED disk /\ ListingsFilled' BY <1>1, SameListings
<1>5. CASE Returns(p, Failed) BY <1>1, <1>3, <1>4, <1>5, ReturnsAdding DEF Failed
<1>6. CASE /\ Replace(p, <<g>>) \/ Replace(p, <<c, g>>)
           /\ ret' = ret \/ ret' = [ret EXCEPT ![p] = "dir"]
  <2>1. g.fn = "copy"
    <3>1. f \in OpFrames BY <1>2, <1>3, FrameHas DEF Op
    <3> QED BY <1>3, <3>1 DEF OpFrames
  <2>2. FrameAdds(c) /\ c.fn \notin Moving BY CallsAdd DEF Moving
  <2> HIDE DEF g, c
  <2>3. FrameAdds(g) /\ g.fn \notin Moving BY <2>1 DEF FrameAdds, Moving
  <2> QED BY <1>1, <1>3, <1>4, <1>6, <2>2, <2>3, GoesAdding
<1>7. \/ Returns(p, Failed)
      \/ /\ Replace(p, <<g>>) \/ Replace(p, <<c, g>>)
         /\ ret' = ret \/ ret' = [ret EXCEPT ![p] = "dir"]
  BY DEF MoveSrc
<1> QED BY <1>5, <1>6, <1>7

\* Nothing is lost by a copy, and it is what was there.
LEMMA CopyGrows ==
    ASSUME Data, Adding, NEW src \in Path, NEW dst \in Path, CanArrive(src, dst),
           disk' = Duplicated(disk, src, dst)
    PROVE  Grows /\ \A x \in Path : disk'[x] # "empty"
<1>1. IsTree(disk) /\ disk[dst] = Absent BY DEF Data, CanArrive
<1>2. ASSUME NEW x \in Path, disk[x] = "file" PROVE disk'[x] = "file"
  <2>1. ~IsPrefix(dst, x)
    <3>1. IsPrefix(dst, x) /\ x # dst => disk[x] = Absent BY <1>1, NothingBelow DEF Absent
    <3> QED BY <1>1, <1>2, <3>1 DEF Absent
  <2> QED BY <1>2, <2>1 DEF Duplicated
<1>3. \A x \in Path : disk'[x] # "empty" BY DEF Duplicated, Adding, NothingEmpty, Absent
<1> QED BY <1>2, <1>3 DEF Grows

\* The driver copies an object.
LEMMA MoveDriveAdding ==
    ASSUME OnlyAdds, Base, Adding, NEW p \in Proc, MoveDrive(p)
    PROVE  Adding' /\ Grows
<1> DEFINE f == Top(p)
           g == [f EXCEPT !.at = "end"]
           dst == Child(f.to, Last(f.path))
           new == Entry(Last(f.path), disk[f.path])
<1>1. stack[p] # <<>> /\ Stacks /\ Data BY DEF MoveDrive, At, Base
<1>2. f \in FrameSet /\ FrameAdds(f) BY <1>1, AddsTop
<1>3. /\ f.fn = "copy" /\ f.at = "got" /\ f.path \in Path /\ f.path # Root /\ f.to \in Path
      /\ f.fn \notin Moving
  BY <1>1, <1>2, MoveDriven DEF FrameAdds, Moving
<1>4. CASE \E able : Refused(p, able)
  <2>1. Returns(p, Failed) /\ UNCHANGED <<disk, cache, listG>> BY <1>4 DEF Refused
  <2>2. Grows BY <2>1 DEF Grows
  <2> QED BY <1>1, <1>3, <2>1, <2>2, SameListings, ReturnsAdding DEF Failed
<1>5. ASSUME CanArrive(f.path, dst), disk' = Duplicated(disk, f.path, dst),
             NEW upkeep \in Upkeeps(f.to, NoName, new, f.lazy), Drives(p, g, upkeep)
      PROVE  Adding' /\ Grows
  <2>1. g \in FrameSet /\ g.fn = "copy" BY <1>2, <1>3, EndedHas DEF Op
  <2>2. dst \in Path BY <1>1, <1>3, <1>5, MoveArrives
  <2>3. Grows /\ \A x \in Path : disk'[x] # "empty" BY <1>1, <1>3, <1>5, <2>2, CopyGrows
  <2>4. new.kind # "empty" BY <1>3 DEF Entry, Adding, NothingEmpty
  <2> HIDE DEF g, new
  <2>5. \A u \in Range(upkeep) : FrameAdds(u) /\ u.fn \notin Moving BY <1>5, <2>4, UpkeepAdds
  <2>6. FrameAdds(g) BY <2>1 DEF FrameAdds
  <2> QED BY <1>1, <1>3, <1>5, <2>1, <2>3, <2>5, <2>6, DrivesAdding DEF Op, Moving
<1>6. ASSUME CanArrive(f.path, dst), NEW upkeep \in Upkeeps(f.to, NoName, new, f.lazy),
             Driven(p, Duplicated(disk, f.path, dst), g, upkeep)
      PROVE  disk' = Duplicated(disk, f.path, dst) /\ Drives(p, g, upkeep)
  <2>1. f.to \in Dir /\ new \in Entries /\ ListingOk(f.to, {new}) BY <1>1, <1>3, <1>6, MoveArrives
  <2>2. f.lazy \in BOOLEAN BY <1>2, <1>3, FrameHas DEF Op, OpFrames
  <2>3. IsUpkeepSeq(upkeep) BY <1>6, <2>1, <2>2, UpkeepsAre
  <2>4. /\ g \in FrameSet /\ g.fn = f.fn /\ SameCall(g, f) /\ UnderUpkeep(g)
        /\ \A x : Making(g, x) <=> Making(f, x)
    BY <1>2, <1>3, EndedHas DEF Op
  <2> HIDE DEF g
  <2> QED BY <1>1, <1>3, <1>6, <2>3, <2>4, DrivenTurns DEF Op
<1>7. \/ \E able : Refused(p, able)
      \/ /\ CanArrive(f.path, dst)
         /\ \E upkeep \in Upkeeps(f.to, NoName, new, f.lazy) :
               Driven(p, Duplicated(disk, f.path, dst), g, upkeep)
  BY <1>3 DEF MoveDrive
<1> QED BY <1>4, <1>5, <1>6, <1>7

-----------------------------------------------------------------------------
(* The steps of uploads, and of the removes and renames they make *)

\* What is known when an upload, or what it called, takes a step
LEMMA MoverAdds ==
    ASSUME OnlyAdds, Adding, NothingEmpty', Grows, NEW p \in Proc,
           \A q \in Proc \ {p} : stack'[q] = stack[q] /\ ret'[q] = ret[q],
           StackAdds(stack'[p]),
           \A x \in Target : Holds(stack'[p], ret'[p], x) =>
              /\ Holds(stack[p], ret[p], x)
              /\ Landed(stack'[p], x) => Landed(stack[p], x) \/ disk'[x] = "file"
    PROVE  Adding'
<1>1. \A q \in Proc : StackAdds(stack'[q]) BY DEF Adding
<1>2. \A q \in Proc, x \in Target : Holds(stack'[q], ret'[q], x) =>
         /\ Holds(stack[q], ret[q], x)
         /\ Landed(stack'[q], x) => Landed(stack[q], x) \/ disk'[x] = "file"
  OBVIOUS
<1>3. Holding' BY <1>2, HoldingKept DEF Adding
<1> QED BY <1>1, <1>3 DEF Adding

\* The answers stay no empty files.
LEMMA StillFilled ==
    ASSUME Adding, UNCHANGED <<disk, cache, listG>>, \A q \in Proc : ret'[q] # "empty"
    PROVE  NothingEmpty' /\ Grows
<1>1. ListingsFilled' BY SameListings
<1> QED BY <1>1 DEF Adding, NothingEmpty, Grows

\* What is known of an upload that runs
LEMMA PutHas ==
    ASSUME OnlyAdds, Base, Adding, NEW p \in Proc, stack[p] # <<>>, Top(p).fn = "put"
    PROVE  LET f == Top(p) IN
           /\ f \in FrameSet /\ f \in OpFrames /\ OpOk(f) /\ FrameAdds(f)
           /\ f.path \in Target /\ f.kind = "file"
           /\ Range(stack[p]) = {f} /\ Tail(stack[p]) = <<>>
           /\ ret \in [Proc -> Answer \cup {Done}] /\ stack \in [Proc -> Seq(FrameSet)]
<1> DEFINE f == Top(p)
<1>1. /\ stack[p] \in Seq(FrameSet) /\ GoodStack(stack[p]) /\ f = Head(stack[p]) /\ f \in FrameSet
      /\ ret \in [Proc -> Answer \cup {Done}] /\ stack \in [Proc -> Seq(FrameSet)]
  BY TopHas DEF Base
<1>2. f \in OpFrames /\ OpOk(f) /\ f.path \in Path BY <1>1, FrameHas DEF Op
<1>3. FrameAdds(f) BY AddsTop DEF Base
<1>4. f.path # Root /\ Last(f.path) \in DOMAIN Temp BY <1>2 DEF OpOk, OnlyAdds
<1>5. Range(stack[p]) = {f} /\ Tail(stack[p]) = <<>> BY <1>1, PutBottom
<1> QED BY <1>1, <1>2, <1>3, <1>4, <1>5 DEF Target, FrameAdds

\* An upload returns.
LEMMA PutReturnsAdding ==
    ASSUME OnlyAdds, Base, Adding, NEW p \in Proc, stack[p] # <<>>, Top(p).fn = "put",
           NEW v, v # "empty", Returns(p, v), UNCHANGED <<disk, cache, listG>>
    PROVE  Adding'
<1>1. Tail(stack[p]) = <<>> BY PutHas
<1>2. stack'[p] = <<>> /\ \A q \in Proc \ {p} : stack'[q] = stack[q] /\ ret'[q] = ret[q]
  BY <1>1 DEF Returns, Return
<1>3. ret'[p] = v BY DEF Returns, Return
<1>4. \A q \in Proc : ret'[q] # "empty" BY <1>2, <1>3 DEF Adding, NothingEmpty
<1>5. StackAdds(stack'[p]) /\ \A x : ~Holds(stack'[p], ret'[p], x)
  BY <1>2, RangeOf DEF StackAdds, Holds
<1> QED BY <1>2, <1>4, <1>5, StillFilled, MoverAdds

\* An upload goes on, or calls another function.
LEMMA PutGoesAdding ==
    ASSUME OnlyAdds, Base, Adding, NEW p \in Proc, stack[p] # <<>>, Top(p).fn = "put",
           NEW g, FrameAdds(g), g.fn = "put", g.path = Top(p).path, g.ok = Top(p).ok,
           NEW c, FrameAdds(c), c.fn # "put", c.fn \in Moving => Serves(c, g),
           NEW N \in {{g}, {c, g}}, Replace(p, IF N = {g} THEN <<g>> ELSE <<c, g>>),
           ret' = ret \/ ret' = [ret EXCEPT ![p] = "dir"],
           Keeps(g, <<g>>, ret'[p]) /\ N = {g} => Keeps(Top(p), stack[p], ret[p]),
           Keeps(g, <<c, g>>, ret'[p]) /\ N # {g} => Keeps(Top(p), stack[p], ret[p]),
           UNCHANGED <<disk, cache, listG>>
    PROVE  Adding'
<1> DEFINE f == Top(p)
<1>1. /\ Range(stack[p]) = {f} /\ Tail(stack[p]) = <<>> /\ stack \in [Proc -> Seq(FrameSet)]
      /\ ret \in [Proc -> Answer \cup {Done}]
  BY PutHas
<1>2. stack'[p] = IF N = {g} THEN <<g>> ELSE <<c, g>>
  <2>1. <<g>> \o <<>> = <<g>> /\ <<c, g>> \o <<>> = <<c, g>>
    OBVIOUS
  <2> QED BY <1>1, <2>1 DEF Replace
<1>3. \A q \in Proc \ {p} : stack'[q] = stack[q] /\ ret'[q] = ret[q] BY <1>1 DEF Replace
<1>4. Range(stack'[p]) = N
  <2>1. CASE N = {g} BY <1>2, <2>1, RangeOf
  <2>2. CASE N # {g}
    <3>1. N = {c, g} /\ stack'[p] = <<c, g>> BY <1>2, <2>2
    <3>2. Range(<<c, g>>) = {c, g} BY RangeOf
    <3> QED BY <3>1, <3>2
  <2> QED BY <2>1, <2>2
<1>5. StackAdds(stack'[p]) BY <1>4 DEF StackAdds, Moving
<1>6. ASSUME NEW x \in Target, Holds(stack'[p], ret'[p], x)
      PROVE  Holds(stack[p], ret[p], x) /\ (Landed(stack'[p], x) => Landed(stack[p], x))
  <2>1. g.path = x /\ Keeps(g, stack'[p], ret'[p]) BY <1>4, <1>6 DEF Holds, Keeps
  <2>2. Keeps(f, stack[p], ret[p]) BY <1>2, <2>1
  <2>3. Landed(stack'[p], x) => f.ok BY <1>4 DEF Landed
  <2> QED BY <1>1, <2>1, <2>2, <2>3 DEF Holds, Landed
<1>7. \A q \in Proc : ret'[q] # "empty"
  <2>1. \A q \in Proc : ret'[q] = ret[q] \/ ret'[q] = "dir" BY <1>1
  <2> QED BY <2>1 DEF Adding, NothingEmpty
<1> QED BY <1>3, <1>5, <1>6, <1>7, StillFilled, MoverAdds

\* An upload looks an object up.
LEMMA PutGetsAdding ==
    ASSUME OnlyAdds, Base, Adding, NEW p \in Proc, stack[p] # <<>>, Top(p).fn = "put",
           NEW path, NEW at \in {"old", "got"}, Get(p, path, at),
           Top(p).kept => Top(p).at = "parent" /\ at = "got", ~Top(p).ok,
           UNCHANGED <<disk, cache, listG>>
    PROVE  Adding'
<1> DEFINE f == Top(p)
           g == [f EXCEPT !.at = at]
           c == ListFrame(Parent(path), Last(path), FALSE)
           N == IF path = Root THEN {g} ELSE {c, g}
<1>1. f \in FrameSet /\ FrameAdds(f) /\ f.kind = "file" BY PutHas
<1>2. /\ g.fn = "put" /\ g.path = f.path /\ g.at = at /\ g.kept = f.kept /\ g.ok = f.ok
      /\ g.kind = f.kind
  BY <1>1, GoesHas DEF Op
<1>3. FrameAdds(c) /\ c.fn = "list" BY CallsAdd
<1>4. /\ Replace(p, IF path = Root THEN <<g>> ELSE <<c, g>>)
      /\ ret' = ret \/ ret' = [ret EXCEPT ![p] = "dir"]
  BY DEF Get, Call
<1>5. \A s, v : Keeps(g, s, v) => Keeps(f, stack[p], ret[p]) BY <1>2 DEF Keeps
<1> HIDE DEF g, c
<1>6. FrameAdds(g) BY <1>1, <1>2 DEF FrameAdds
<1>7. c # g BY <1>2, <1>3
<1>8. N = {g} <=> path = Root BY <1>7
<1>9. N \in {{g}, {c, g}} /\ Replace(p, IF N = {g} THEN <<g>> ELSE <<c, g>>) BY <1>4, <1>8
<1> HIDE DEF N
<1> QED BY <1>2, <1>3, <1>4, <1>5, <1>6, <1>9, PutGoesAdding DEF Moving

\* An upload makes its parent directory.
LEMMA PutMakesAdding ==
    ASSUME OnlyAdds, Base, Adding, NEW p \in Proc, stack[p] # <<>>, Top(p).fn = "put",
           MakeParent(p, Top(p)), ~Top(p).ok,
           Top(p).kept => Keeps(Top(p), stack[p], ret[p]),
           UNCHANGED <<disk, cache, listG>>
    PROVE  Adding'
<1> DEFINE f == Top(p)
           g == [f EXCEPT !.at = "parent"]
           c == MkdirFrame(Parent(f.path))
<1>1. f \in FrameSet /\ FrameAdds(f) /\ f.kind = "file" BY PutHas
<1>2. /\ g.fn = "put" /\ g.path = f.path /\ g.at = "parent" /\ g.kept = f.kept /\ g.ok = f.ok
      /\ g.kind = f.kind
  BY <1>1, GoesHas DEF Op
<1>3. FrameAdds(c) /\ c.fn = "mkdir" BY CallsAdd
<1>4. Replace(p, <<c, g>>) /\ ret' = ret BY DEF MakeParent
<1>5. \A s, v : Keeps(g, s, v) => Keeps(f, stack[p], ret[p]) BY <1>2 DEF Keeps
<1> HIDE DEF g, c
<1>6. FrameAdds(g) BY <1>1, <1>2 DEF FrameAdds
<1>7. {c, g} # {g} BY <1>2, <1>3
<1> QED BY <1>2, <1>3, <1>4, <1>5, <1>6, <1>7, PutGoesAdding DEF Moving

\* An upload calls what it needs to be done with the old object.
LEMMA PutCallsAdding ==
    ASSUME OnlyAdds, Base, Adding, NEW p \in Proc, stack[p] # <<>>, Top(p).fn = "put",
           NEW g, FrameAdds(g), g.fn = "put", g.path = Top(p).path, g.ok = Top(p).ok,
           NEW c, FrameAdds(c), c.at = "start", Serves(c, g), Replace(p, <<c, g>>), UNCHANGED ret,
           g.at = "end" => Keeps(Top(p), stack[p], ret[p]),
           UNCHANGED <<disk, cache, listG>>
    PROVE  Adding'
<1>1. c.fn \in {"remove", "rename"} /\ g.at \in {"cleared", "end"} BY DEF Serves
<1>2. {c, g} # {g} BY <1>1
<1>3. Range(<<c, g>>) = {c, g} BY RangeOf
<1>4. \A v : Keeps(g, <<c, g>>, v) => Keeps(Top(p), stack[p], ret[p])
  BY <1>1, <1>3 DEF Keeps
<1> QED BY <1>1, <1>2, <1>4, PutGoesAdding DEF Moving

\* The frames an upload calls promise nothing but what they are called for.
LEMMA ServantsAdd ==
    ASSUME NEW path, NEW to
    PROVE  /\ FrameAdds(RemoveFrame(path)) /\ RemoveFrame(path).fn = "remove"
           /\ RemoveFrame(path).at = "start" /\ RemoveFrame(path).path = path
           /\ FrameAdds(RenameFrame(path, to)) /\ RenameFrame(path, to).fn = "rename"
           /\ RenameFrame(path, to).at = "start" /\ RenameFrame(path, to).path = path
           /\ RenameFrame(path, to).to = to
BY DEF RemoveFrame, RenameFrame, OpFrame, FrameAdds

\* An upload has found what is there: the old object is renamed away, never removed.
LEMMA PutOldAdding ==
    ASSUME OnlyAdds, Base, Adding, NEW p \in Proc, PutOld(p)
    PROVE  Adding'
<1> DEFINE f == Top(p)
           g == [f EXCEPT !.at = "cleared", !.kept = TRUE]
           c == RenameFrame(f.path, Temp[Last(f.path)])
<1>1. /\ stack[p] # <<>> /\ f.fn = "put" /\ f.at = "old" /\ UNCHANGED <<disk, cache, listG>>
  BY DEF PutOld, At
<1>2. /\ f \in FrameSet /\ f \in OpFrames /\ FrameAdds(f) /\ f.path \in Target /\ f.kind = "file"
  BY <1>1, PutHas
<1>3. ~f.kept /\ ~f.ok BY <1>1, <1>2 DEF FrameAdds
<1>4. ret[p] \notin {"empty", "dir"}
  <2>1. ret[p] = "dir" => f.path \in Dir BY <1>1, AnswerHas DEF Asks, Asked, Base
  <2>2. f.path \notin Dir BY <1>2, TempHas
  <2> QED BY <2>1, <2>2 DEF Adding, NothingEmpty
<1>5. CASE MakeParent(p, f) BY <1>1, <1>3, <1>5, PutMakesAdding
<1>6. CASE Replace(p, <<c, g>>) /\ UNCHANGED ret
  <2>1. /\ g.fn = "put" /\ g.path = f.path /\ g.at = "cleared" /\ g.kept = TRUE /\ g.ok = f.ok
        /\ g.kind = f.kind
    BY <1>1, <1>2 DEF OpFrames
  <2>2. /\ FrameAdds(c) /\ c.fn = "rename" /\ c.at = "start" /\ c.path = f.path
        /\ c.to = Temp[Last(f.path)]
    BY ServantsAdd
  <2> HIDE DEF g, c
  <2>3. FrameAdds(g) BY <1>2, <1>3, <2>1 DEF FrameAdds
  <2>4. Serves(c, g) BY <2>1, <2>2 DEF Serves
  <2> QED BY <1>1, <1>6, <2>1, <2>2, <2>3, <2>4, PutCallsAdding
<1> QED BY <1>4, <1>5, <1>6 DEF PutOld

\* The old object is out of the way, or the upload fails.
LEMMA PutClearedAdding ==
    ASSUME OnlyAdds, Base, Adding, NEW p \in Proc, PutCleared(p)
    PROVE  Adding'
<1> DEFINE f == Top(p)
<1>1. /\ stack[p] # <<>> /\ f.fn = "put" /\ f.at = "cleared" /\ UNCHANGED <<disk, cache, listG>>
  BY DEF PutCleared, At
<1>2. FrameAdds(f) /\ Range(stack[p]) = {f} BY <1>1, PutHas
<1>3. ~f.ok BY <1>1, <1>2 DEF FrameAdds
<1>4. CASE Returns(p, Failed) BY <1>1, <1>4, PutReturnsAdding DEF Failed
<1>5. CASE ret[p] = Done /\ MakeParent(p, f)
  <2>1. f.kept => Keeps(f, stack[p], ret[p]) BY <1>1, <1>2, <1>5 DEF Keeps
  <2> QED BY <1>1, <1>3, <1>5, <2>1, PutMakesAdding
<1> QED BY <1>4, <1>5 DEF PutCleared

\* An upload begins, or goes on when its parent directory is made.
LEMMA PutStartAdding ==
    ASSUME OnlyAdds, Base, Adding, NEW p \in Proc, OpStart(p) \/ PutParent(p),
           stack[p] # <<>>, Top(p).fn = "put"
    PROVE  Adding'
<1> DEFINE f == Top(p)
<1>1. UNCHANGED <<disk, cache, listG>> BY DEF OpStart, PutParent
<1>2. FrameAdds(f) BY PutHas
<1>3. CASE Returns(p, Failed) BY <1>1, <1>3, PutReturnsAdding DEF Failed
<1>4. CASE f.at = "parent" /\ Get(p, Parent(f.path), "got")
  BY <1>1, <1>2, <1>4, PutGetsAdding DEF FrameAdds
<1>5. CASE f.at = "start" /\ Get(p, f.path, "old")
  BY <1>1, <1>2, <1>5, PutGetsAdding DEF FrameAdds
<1> QED BY <1>3, <1>4, <1>5 DEF OpStart, PutParent, At

\* The upload is done, and the object under its temporary name is to be removed or
\* recovered.
LEMMA PutDoneAdding ==
    ASSUME OnlyAdds, Base, Adding, NEW p \in Proc, PutDone(p)
    PROVE  Adding'
<1> DEFINE f == Top(p)
           g == [f EXCEPT !.at = "end"]
           temp == Child(Parent(f.path), Temp[Last(f.path)])
           c == IF f.ok THEN RemoveFrame(temp) ELSE RenameFrame(temp, Last(f.path))
<1>1. /\ stack[p] # <<>> /\ f.fn = "put" /\ f.at = "done" /\ UNCHANGED <<disk, cache, listG>>
  BY DEF PutDone, At
<1>2. f \in FrameSet /\ FrameAdds(f) /\ f.kind = "file" BY <1>1, PutHas
<1>3. CASE \E v \in {Done, Failed} : Returns(p, v)
  BY <1>1, <1>3, PutReturnsAdding DEF Done, Failed
<1>4. CASE f.kept /\ Replace(p, <<c, g>>) /\ UNCHANGED ret
  <2>1. /\ g.fn = "put" /\ g.path = f.path /\ g.at = "end" /\ g.kept = f.kept /\ g.ok = f.ok
        /\ g.kind = f.kind
    BY <1>1, <1>2, GoesHas DEF Op
  <2>2. /\ FrameAdds(c) /\ c.at = "start" /\ c.path = temp
        /\ f.ok => c.fn = "remove"
        /\ ~f.ok => c.fn = "rename" /\ c.to = Last(f.path)
    BY ServantsAdd
  <2>3. temp = Temporary(f.path) BY DEF Temporary
  <2> HIDE DEF g, c, temp
  <2>4. FrameAdds(g) BY <1>2, <2>1 DEF FrameAdds
  <2>5. Serves(c, g) BY <1>4, <2>1, <2>2, <2>3 DEF Serves
  <2>6. Keeps(f, stack[p], ret[p]) BY <1>1, <1>4 DEF Keeps
  <2> QED BY <1>1, <1>4, <2>1, <2>2, <2>4, <2>5, <2>6, PutCallsAdding
<1>5. \/ \E v \in {Done, Failed} : Returns(p, v)
      \/ f.kept /\ Replace(p, <<c, g>>) /\ UNCHANGED ret
  BY DEF PutDone, Call
<1> QED BY <1>3, <1>4, <1>5

\* The upload returns.
LEMMA PutEndAdding ==
    ASSUME OnlyAdds, Base, Adding, NEW p \in Proc, PutEnd(p)
    PROVE  Adding'
<1>1. stack[p] # <<>> /\ Top(p).fn = "put" /\ UNCHANGED <<disk, cache, listG>>
  BY DEF PutEnd, At
<1>2. ret[p] # "empty" BY DEF Adding, NothingEmpty
<1> DEFINE v == IF Top(p).ok THEN ret[p] ELSE Failed
<1>3. v # "empty" /\ Returns(p, v) BY <1>2 DEF Failed, PutEnd
<1> HIDE DEF v
<1> QED BY <1>1, <1>3, PutReturnsAdding

\* What an upload does at the driver: it fails, goes on after its failure, or succeeds.
LEMMA PutDriveIs ==
    ASSUME Stacks, Data, NEW p \in Proc, stack[p] # <<>>, PutDrive(p)
    PROVE  LET f == Top(p) IN
           /\ f \in FrameSet /\ f.fn \in {"put", "puturl"} /\ f.at = "got"
           /\ f.path \in Path /\ f.path # Root
           /\ \/ Returns(p, Failed) /\ UNCHANGED <<disk, cache, listG>>
              \/ /\ f.fn = "put" /\ Replace(p, <<[f EXCEPT !.at = "done"]>>) /\ UNCHANGED ret
                 /\ UNCHANGED <<disk, cache, listG>>
              \/ /\ disk' = [disk EXCEPT ![f.path] = f.kind]
                 /\ \E upkeep \in Upkeeps(Parent(f.path), NoName, Entry(Last(f.path), f.kind), f.lazy) :
                       Drives(p, Uploaded(f), upkeep)
<1> DEFINE f == Top(p)
           g == Uploaded(f)
           n == [f EXCEPT !.at = IF f.fn = "put" THEN "done" ELSE "end"]
<1>1. f \in FrameSet /\ f.fn \in {"put", "puturl"} /\ f.at = "got" BY TopHas DEF PutDrive, At
<1>2. /\ f.path \in Path /\ f.path # Root /\ f.kind \in {"file", "empty"}
      /\ f.lazy \in BOOLEAN /\ f \in OpFrames /\ OpOk(f)
  BY <1>1, FrameHas DEF Op, OpOk, OpFrames
<1>3. ASSUME NEW upkeep \in Upkeeps(Parent(f.path), NoName, Entry(Last(f.path), f.kind), f.lazy),
             Driven(p, [disk EXCEPT ![f.path] = f.kind], g, upkeep)
      PROVE  disk' = [disk EXCEPT ![f.path] = f.kind] /\ Drives(p, g, upkeep)
  <2>1. f.kind \in Kind /\ f.kind # "dir" BY <1>2 DEF Kind
  <2>2. /\ Entry(Last(f.path), f.kind) \in Entries
        /\ ListingOk(Parent(f.path), {Entry(Last(f.path), f.kind)})
    BY <1>2, <2>1, EntryFits
  <2>3. IsUpkeepSeq(upkeep) BY <1>2, <1>3, <2>2, PathHas, UpkeepsAre
  <2>4. /\ g.fn = f.fn /\ g.path = f.path /\ g.at = (IF f.fn = "put" THEN "done" ELSE "end")
        /\ g.changed = f.changed /\ g.to = f.to /\ g.kind = f.kind /\ g.lazy = f.lazy
        /\ g.kept = f.kept
    BY <1>2 DEF OpFrames, Uploaded
  <2>5. g \in FrameSet BY <1>1, UploadedHas
  <2> HIDE DEF g
  <2>6. SameCall(g, f) /\ UnderUpkeep(g) /\ g.fn \in Op /\ \A x : Making(g, x) <=> Making(f, x)
    BY <1>1, <2>4 DEF SameCall, UnderUpkeep, Op, Making
  <2> QED BY <1>3, <2>3, <2>5, <2>6, DrivenTurns
<1>4. \/ Returns(p, Failed) /\ UNCHANGED <<disk, cache, listG>>
      \/ f.fn = "put" /\ Replace(p, <<n>>) /\ UNCHANGED ret /\ UNCHANGED <<disk, cache, listG>>
      \/ \E upkeep \in Upkeeps(Parent(f.path), NoName, Entry(Last(f.path), f.kind), f.lazy) :
            Driven(p, [disk EXCEPT ![f.path] = f.kind], g, upkeep)
  BY DEF PutDrive, Uploaded, Refused
<1>5. f.fn = "put" => n = [f EXCEPT !.at = "done"] OBVIOUS
<1> QED BY <1>1, <1>2, <1>3, <1>4, <1>5

\* What a driver call leaves of the stacks
LEMMA DrivesHas ==
    ASSUME Stacks, NEW p \in Proc, NEW frame, NEW upkeep, Drives(p, frame, upkeep)
    PROVE  /\ Range(stack'[p]) = Range(upkeep) \cup {Changing(frame, upkeep)} \cup Range(Tail(stack[p]))
           /\ \A q \in Proc \ {p} : stack'[q] = stack[q]
           /\ ret' = ret /\ UNCHANGED <<cache, listG>>
<1>1. PICK t : /\ Turn(p, t)
               /\ Range(t) = Range(upkeep) \cup {Changing(frame, upkeep)} \cup Range(Tail(stack[p]))
  BY DEF Drives
<1>2. stack' = [stack EXCEPT ![p] = t] /\ stack \in [Proc -> Seq(FrameSet)] BY <1>1 DEF Turn, Stacks
<1> QED BY <1>1, <1>2 DEF Drives

\* An upload succeeds: the old object stays under its temporary name.
LEMMA UploadAdding ==
    ASSUME OnlyAdds, Base, Adding, NEW p \in Proc, stack[p] # <<>>, Top(p).fn = "put",
           Top(p).at = "got", Grows, \A x \in Path : disk'[x] # "empty",
           disk'[Top(p).path] = "file",
           NEW upkeep, \A u \in Range(upkeep) : FrameAdds(u) /\ u.fn \notin Moving,
           Drives(p, Uploaded(Top(p)), upkeep)
    PROVE  Adding'
<1> DEFINE f == Top(p)
           g == Changing(Uploaded(f), upkeep)
<1>1. /\ f \in FrameSet /\ f \in OpFrames /\ FrameAdds(f) /\ f.path \in Target
      /\ Range(stack[p]) = {f} /\ Tail(stack[p]) = <<>>
  BY PutHas
<1>2. /\ Range(stack'[p]) = Range(upkeep) \cup {g}
      /\ \A q \in Proc \ {p} : stack'[q] = stack[q] /\ ret'[q] = ret[q]
      /\ ret' = ret /\ UNCHANGED <<cache, listG>>
  BY <1>1, RangeOf, DrivesHas DEF Base
<1>3. /\ Uploaded(f) \in FrameSet /\ Uploaded(f).fn = "put" /\ Uploaded(f).path = f.path
      /\ Uploaded(f).at = "done" /\ Uploaded(f).kept = f.kept /\ Uploaded(f).kind = f.kind
  <2>1. Uploaded(f) \in FrameSet BY <1>1, UploadedHas
  <2> QED BY <1>1, <2>1 DEF OpFrames, Uploaded
<1>4. g.fn = "put" /\ g.path = f.path /\ g.at = "done" /\ g.kept = f.kept /\ g.kind = f.kind
  BY <1>3, ChangingHas DEF Op
<1> HIDE DEF g
<1>5. FrameAdds(g) BY <1>1, <1>4 DEF FrameAdds
<1>6. StackAdds(stack'[p]) BY <1>2, <1>4, <1>5 DEF StackAdds, Moving
<1>7. NothingEmpty' BY <1>2, SameListings DEF Adding, NothingEmpty
<1>8. ASSUME NEW x \in Target, Holds(stack'[p], ret'[p], x)
      PROVE  Holds(stack[p], ret[p], x) /\ disk'[x] = "file"
  <2>1. g.path = x /\ g.kept BY <1>2, <1>4, <1>8 DEF Holds, Keeps, Moving
  <2> QED BY <1>1, <1>4, <2>1 DEF Holds, Keeps
<1> QED BY <1>2, <1>6, <1>7, <1>8, MoverAdds

\* The driver uploads an object.
LEMMA PutDriveAdding ==
    ASSUME OnlyAdds, Base, Adding, NEW p \in Proc, PutDrive(p)
    PROVE  Adding' /\ Grows
<1> DEFINE f == Top(p)
           new == Entry(Last(f.path), f.kind)
           n == [f EXCEPT !.at = "done"]
           c == ListFrame(Root, NoName, FALSE)
<1>1. stack[p] # <<>> /\ Stacks /\ Data BY DEF PutDrive, At, Base
<1>2. f \in FrameSet /\ FrameAdds(f) BY <1>1, AddsTop
<1>3. /\ f.fn \in {"put", "puturl"} /\ f.at = "got" /\ f.path \in Path
      /\ \/ Returns(p, Failed) /\ UNCHANGED <<disk, cache, listG>>
         \/ /\ f.fn = "put" /\ Replace(p, <<n>>) /\ UNCHANGED ret /\ UNCHANGED <<disk, cache, listG>>
         \/ /\ disk' = [disk EXCEPT ![f.path] = f.kind]
            /\ \E upkeep \in Upkeeps(Parent(f.path), NoName, new, f.lazy) :
                  Drives(p, Uploaded(f), upkeep)
  BY <1>1, PutDriveIs
<1>4. f.kind = "file" BY <1>2, <1>3 DEF FrameAdds
<1>5. UNCHANGED disk => Grows BY DEF Grows
<1>6. CASE Returns(p, Failed) /\ UNCHANGED <<disk, cache, listG>>
  <2>1. CASE f.fn = "put" BY <1>1, <1>5, <1>6, <2>1, PutReturnsAdding DEF Failed
  <2>2. CASE f.fn = "puturl"
    BY <1>1, <1>5, <1>6, <2>2, SameListings, ReturnsAdding DEF Failed, Moving
  <2> QED BY <1>3, <2>1, <2>2
<1>7. CASE f.fn = "put" /\ Replace(p, <<n>>) /\ UNCHANGED ret /\ UNCHANGED <<disk, cache, listG>>
  <2>1. /\ n.fn = "put" /\ n.path = f.path /\ n.at = "done" /\ n.kept = f.kept /\ n.ok = f.ok
        /\ n.kind = f.kind
    BY <1>2, <1>7, GoesHas DEF Op
  <2>2. FrameAdds(c) /\ c.fn = "list" BY CallsAdd
  <2> HIDE DEF n, c
  <2>3. FrameAdds(n) BY <1>2, <1>3, <1>4, <2>1 DEF FrameAdds
  <2>4. f.fn = "put" /\ f.at = "got" BY <1>3, <1>7
  <2>5. \A s, v : Keeps(n, s, v) => Keeps(f, stack[p], ret[p]) BY <2>1, <2>4 DEF Keeps
  <2>6. Adding' BY <1>1, <1>7, <2>1, <2>2, <2>3, <2>5, PutGoesAdding DEF Moving
  <2> QED BY <1>5, <1>7, <2>6
<1>8. ASSUME disk' = [disk EXCEPT ![f.path] = f.kind],
             NEW upkeep \in Upkeeps(Parent(f.path), NoName, new, f.lazy),
             Drives(p, Uploaded(f), upkeep)
      PROVE  Adding' /\ Grows
  <2>1. disk \in [Path -> Kind \cup {Absent}] BY <1>1 DEF Data, IsTree
  <2>2. Grows /\ (\A x \in Path : disk'[x] # "empty") /\ disk'[f.path] = "file"
    BY <1>3, <1>4, <1>8, <2>1 DEF Grows, Adding, NothingEmpty
  <2>3. new.kind # "empty" BY <1>4 DEF Entry
  <2> HIDE DEF new
  <2>4. \A u \in Range(upkeep) : FrameAdds(u) /\ u.fn \notin Moving BY <1>8, <2>3, UpkeepAdds
  <2>5. CASE f.fn = "put" BY <1>1, <1>3, <1>8, <2>2, <2>4, <2>5, UploadAdding
  <2>6. CASE f.fn = "puturl"
    <3>1. Uploaded(f) \in FrameSet /\ Uploaded(f).fn = "puturl" /\ Uploaded(f).kind = "file"
      <4>1. f \in OpFrames BY <1>2, <2>6, FrameHas DEF Op
      <4> QED BY <1>2, <1>3, <1>4, <2>6, <4>1, UploadedHas DEF OpFrames, Uploaded
    <3>2. FrameAdds(Uploaded(f)) BY <3>1 DEF FrameAdds
    <3> QED BY <1>1, <1>8, <2>2, <2>4, <2>6, <3>1, <3>2, DrivesAdding DEF Op, Moving
  <2> QED BY <1>3, <2>5, <2>6
<1> QED BY <1>3, <1>6, <1>7, <1>8

\* What is known when a remove or a rename runs: it runs for the upload below it.
LEMMA ServantHas ==
    ASSUME OnlyAdds, Base, Adding, NEW p \in Proc, stack[p] # <<>>,
           Top(p).fn \in {"remove", "rename"}
    PROVE  LET g == Top(p)
               f == Head(Tail(stack[p]))
           IN
           /\ g \in FrameSet /\ g \in OpFrames /\ FrameAdds(g) /\ f \in FrameSet /\ FrameAdds(f)
           /\ Range(stack[p]) = {g, f} /\ Range(Tail(stack[p])) = {f}
           /\ Tail(stack[p]) # <<>> /\ Tail(Tail(stack[p])) = <<>>
           /\ Tail(stack[p]) \in Seq(FrameSet)
           /\ Serves(g, f) /\ f.fn = "put" /\ f.kept /\ f.path \in Target
           /\ ret \in [Proc -> Answer \cup {Done}] /\ stack \in [Proc -> Seq(FrameSet)]
<1> DEFINE g == Top(p)
           f == Head(Tail(stack[p]))
<1>1. /\ stack[p] \in Seq(FrameSet) /\ GoodStack(stack[p]) /\ g = Head(stack[p]) /\ g \in FrameSet
      /\ Tail(stack[p]) \in Seq(FrameSet)
      /\ ret \in [Proc -> Answer \cup {Done}] /\ stack \in [Proc -> Seq(FrameSet)]
  BY TopHas DEF Base
<1>2. StackAdds(stack[p]) BY DEF Adding
<1>3. /\ Tail(stack[p]) # <<>> /\ f \in FrameSet /\ Tail(Tail(stack[p])) = <<>>
      /\ Range(stack[p]) = {g, f} /\ Range(Tail(stack[p])) = {f} /\ Serves(g, f)
  BY <1>1, <1>2, MoverBottom
<1>4. FrameAdds(g) /\ FrameAdds(f) BY <1>2, <1>3 DEF StackAdds
<1>5. g \in OpFrames BY <1>1, FrameHas DEF Op
<1>6. f.fn = "put" /\ f.kept BY <1>3 DEF Serves
<1>7. f.path \in Target
  <2>1. f.path \in Path /\ OpOk(f) BY <1>3, <1>6, FrameHas DEF Op
  <2> QED BY <1>6, <2>1 DEF OpOk, OnlyAdds, Target
<1> QED BY <1>1, <1>3, <1>4, <1>5, <1>6, <1>7

\* A remove or a rename returns to its upload.
LEMMA ServantReturns ==
    ASSUME OnlyAdds, Base, Adding, NEW p \in Proc, stack[p] # <<>>,
           Top(p).fn \in {"remove", "rename"}, NEW v \in {Done, Failed}, Returns(p, v),
           Top(p).fn = "rename" /\ v = Done => Top(p).at = "end",
           UNCHANGED <<disk, cache, listG>>
    PROVE  Adding'
<1> DEFINE g == Top(p)
           f == Head(Tail(stack[p]))
<1>1. /\ FrameAdds(f) /\ Range(stack[p]) = {g, f} /\ Range(Tail(stack[p])) = {f}
      /\ Serves(g, f) /\ f.fn = "put" /\ f.kept
  BY ServantHas
<1>2. stack'[p] = Tail(stack[p]) /\ \A q \in Proc \ {p} : stack'[q] = stack[q] /\ ret'[q] = ret[q]
  BY DEF Returns, Return
<1>3. ret'[p] = v BY DEF Returns, Return
<1>4. \A q \in Proc : ret'[q] # "empty" BY <1>2, <1>3 DEF Adding, NothingEmpty, Done, Failed
<1>5. NothingEmpty' /\ Grows BY <1>4, StillFilled
<1>6. StackAdds(stack'[p]) BY <1>1, <1>2 DEF StackAdds
<1>7. ASSUME NEW x, Holds(stack'[p], ret'[p], x)
      PROVE  Holds(stack[p], ret[p], x) /\ (Landed(stack'[p], x) => Landed(stack[p], x))
  <2>1. f.path = x /\ Keeps(f, stack'[p], v) BY <1>1, <1>2, <1>3, <1>7 DEF Holds
  <2>2. f.at = "cleared" /\ v = Done BY <1>1, <1>2, <2>1 DEF Keeps, Serves
  <2>3. g.fn = "rename" /\ g.at = "end" BY <1>1, <2>2 DEF Serves
  <2>4. Keeps(f, stack[p], ret[p]) BY <1>1, <2>2, <2>3 DEF Keeps
  <2> QED BY <1>1, <1>2, <2>1, <2>4 DEF Holds, Landed
<1> QED BY <1>2, <1>5, <1>6, <1>7, MoverAdds

\* A remove or a rename looks its object up.
LEMMA ServantStarts ==
    ASSUME OnlyAdds, Base, Adding, NEW p \in Proc, OpStart(p), stack[p] # <<>>,
           Top(p).fn \in {"remove", "rename"}
    PROVE  Adding'
<1> DEFINE g == Top(p)
           f == Head(Tail(stack[p]))
           h == [g EXCEPT !.at = "got"]
           c == ListFrame(Parent(g.path), Last(g.path), FALSE)
<1>1. /\ g \in FrameSet /\ FrameAdds(g) /\ FrameAdds(f) /\ Range(stack[p]) = {g, f}
      /\ Range(Tail(stack[p])) = {f} /\ Tail(stack[p]) \in Seq(FrameSet)
      /\ Serves(g, f) /\ f.fn = "put" /\ f.kept
      /\ ret \in [Proc -> Answer \cup {Done}] /\ stack \in [Proc -> Seq(FrameSet)]
  BY ServantHas
<1>2. g.at = "start" /\ Get(p, g.path, "got") /\ UNCHANGED <<disk, cache, listG>>
  BY DEF OpStart, At
<1>3. h.fn = g.fn /\ h.path = g.path /\ h.to = g.to /\ h.at = "got"
  BY <1>1, GoesHas DEF Op
<1>4. c.fn = "list" /\ FrameAdds(c) BY CallsAdd
<1>5. stack'[p] \in {<<h>> \o Tail(stack[p]), <<c, h>> \o Tail(stack[p])}
  BY <1>1, <1>2 DEF Get, Call, Replace
<1>6. /\ \A q \in Proc \ {p} : stack'[q] = stack[q] /\ ret'[q] = ret[q]
      /\ ret'[p] \in {ret[p], "dir"}
  BY <1>1, <1>2 DEF Get, Call, Replace
<1> HIDE DEF h, c
<1>7. Range(stack'[p]) = {h, f} \/ Range(stack'[p]) = {c, h, f}
  <2> DEFINE r == Tail(stack[p])
  <2>1. r \in Seq(FrameSet) /\ Range(r) = {f} BY <1>1
  <2>2. stack'[p] \in {<<h>> \o r, <<c, h>> \o r} BY <1>5
  <2> HIDE DEF r
  <2>3. Range(<<h>> \o r) = {h} \cup Range(r) /\ Range(<<c, h>> \o r) = {c, h} \cup Range(r)
    BY <2>1, FrontHas
  <2> QED BY <2>1, <2>2, <2>3
<1>8. FrameAdds(h) /\ Serves(h, f) BY <1>1, <1>3 DEF FrameAdds, Serves
<1>9. StackAdds(stack'[p]) BY <1>1, <1>4, <1>7, <1>8 DEF StackAdds
<1>10. \A q \in Proc : ret'[q] # "empty" BY <1>6 DEF Adding, NothingEmpty
<1>11. NothingEmpty' /\ Grows BY <1>2, <1>10, StillFilled
<1>12. ASSUME NEW x, Holds(stack'[p], ret'[p], x)
       PROVE  Holds(stack[p], ret[p], x) /\ (Landed(stack'[p], x) => Landed(stack[p], x))
  <2>1. PICK k \in Range(stack'[p]) : k.path = x /\ Keeps(k, stack'[p], ret'[p])
    BY <1>12 DEF Holds
  <2>2. f.path = x /\ Keeps(f, stack'[p], ret'[p])
    <3>1. k.fn = "put" BY <2>1 DEF Keeps
    <3>2. k = f BY <1>1, <1>3, <1>4, <1>7, <3>1
    <3> QED BY <2>1, <3>2
  <2>3. h \in Range(stack'[p]) BY <1>7
  <2>4. f.at = "end"
    BY <1>1, <1>2, <1>3, <1>4, <1>7, <2>2, <2>3 DEF Keeps, Serves
  <2>5. Keeps(f, stack[p], ret[p]) BY <1>1, <1>2, <2>4 DEF Keeps
  <2> QED BY <1>1, <1>3, <1>4, <1>7, <2>2, <2>5 DEF Holds, Landed
<1> QED BY <1>6, <1>9, <1>11, <1>12, MoverAdds

\* What a removal or a rename takes away: the object under its path, and no other
LEMMA TakesOne ==
    ASSUME IsTree(disk), NEW path \in Path, path # Root, disk[path] # "dir", NEW tree,
           \/ tree = Without(disk, path)
           \/ \E dst \in Path : /\ disk[dst] = Absent /\ dst # Root
                                /\ tree = Without(Duplicated(disk, path, dst), path)
    PROVE  \A y \in Path \ {path} : disk[y] = "file" => tree[y] = "file"
<1> SUFFICES ASSUME NEW y \in Path, y # path, disk[y] = "file" PROVE tree[y] = "file" OBVIOUS
<1>1. ~IsPrefix(path, y) BY NothingBelow DEF Absent
<1>2. ASSUME NEW dst \in Path, disk[dst] = Absent PROVE ~IsPrefix(dst, y)
  BY <1>2, NothingBelow DEF Absent
<1>3. \A dst \in Path : ~IsPrefix(dst, y) => Duplicated(disk, path, dst)[y] = disk[y]
  BY DEF Duplicated
<1>4. \A t : Without(t, path)[y] = t[y] BY <1>1 DEF Without
<1> QED BY <1>2, <1>3, <1>4

\* The holders of the objects when one is moved: x is lost at one of its two names.
LEMMA MovesKept ==
    ASSUME OnlyAdds, Adding, NothingEmpty', NEW x \in Target, NEW lost \in {x, Temporary(x)},
           \A y \in Path \ {lost} : disk[y] = "file" => disk'[y] = "file",
           NEW p \in Proc, \A q \in Proc \ {p} : stack'[q] = stack[q] /\ ret'[q] = ret[q],
           \A q \in Proc \ {p} : ~Holds(stack[q], ret[q], x),
           StackAdds(stack'[p]),
           \A y \in Target : Holds(stack'[p], ret'[p], y) =>
              y = x /\ disk'[Temporary(x)] = "file" /\ ~Landed(stack'[p], x)
    PROVE  Adding'
<1> SUFFICES ASSUME NEW y \in Target
             PROVE  /\ \A q, r \in Proc : Holds(stack'[q], ret'[q], y)
                                          /\ Holds(stack'[r], ret'[r], y) => q = r
                    /\ \A q \in Proc : Holds(stack'[q], ret'[q], y) =>
                          /\ disk'[Temporary(y)] = "file"
                          /\ Landed(stack'[q], y) => disk'[y] = "file"
  <2>1. \A q \in Proc : StackAdds(stack'[q]) BY DEF Adding
  <2> QED BY <2>1 DEF Adding, Holding
<1>1. \A q \in Proc \ {p} : Holds(stack'[q], ret'[q], y) => y # x /\ Holds(stack[q], ret[q], y)
  OBVIOUS
<1>2. \A q, r \in Proc : Holds(stack'[q], ret'[q], y) /\ Holds(stack'[r], ret'[r], y) => q = r
  <2>1. \A q, r \in Proc : Holds(stack[q], ret[q], y) /\ Holds(stack[r], ret[r], y) => q = r
    BY DEF Adding, Holding
  <2> QED BY <1>1, <2>1
<1>3. ASSUME NEW q \in Proc \ {p}, Holds(stack'[q], ret'[q], y)
      PROVE  disk'[Temporary(y)] = "file" /\ (Landed(stack'[q], y) => disk'[y] = "file")
  <2>1. y # x /\ Holds(stack[q], ret[q], y) BY <1>1, <1>3
  <2>2. y \in Path /\ Temporary(y) \in Path /\ y # lost /\ Temporary(y) # lost
    BY <2>1, TempHas
  <2>3. disk[Temporary(y)] = "file" /\ (Landed(stack[q], y) => disk[y] = "file")
    BY <2>1 DEF Adding, Holding
  <2> QED BY <2>2, <2>3
<1>4. Holds(stack'[p], ret'[p], y) => disk'[Temporary(y)] = "file" /\ ~Landed(stack'[p], y)
  OBVIOUS
<1> QED BY <1>2, <1>3, <1>4

\* Every object stays, under one name or the other.
Keeping == \A x \in Target : Kept(x) => Kept(x)'

\* What it means that an object is kept
LEMMA KeptIs ==
    ASSUME OnlyAdds, NEW x \in Target
    PROVE  /\ Kept(x) <=> disk[x] = "file" \/ disk[Temporary(x)] = "file"
           /\ Kept(x)' <=> disk'[x] = "file" \/ disk'[Temporary(x)] = "file"
<1>1. Child(Parent(x), Last(x)) = x BY PathHas DEF Target
<1>2. Child(Parent(x), Temp[Last(x)]) = Temporary(x) BY DEF Temporary
<1> QED BY <1>1, <1>2 DEF Kept

\* Objects stay in a step that loses no file, or one of which there is the other name.
LEMMA StaysKept ==
    ASSUME OnlyAdds
    PROVE  /\ Grows => Keeping
           /\ \A x \in Target : \A lost \in {x, Temporary(x)} :
                 /\ disk'[x] = "file" \/ disk'[Temporary(x)] = "file"
                 /\ \A y \in Path \ {lost} : disk[y] = "file" => disk'[y] = "file"
                 => Keeping
<1>1. \A x \in Target : x \in Path /\ Temporary(x) \in Path BY TempHas
<1>2. Grows => Keeping BY <1>1, KeptIs DEF Grows, Keeping
<1>3. ASSUME NEW x \in Target, NEW lost \in {x, Temporary(x)},
             disk'[x] = "file" \/ disk'[Temporary(x)] = "file",
             \A y \in Path \ {lost} : disk[y] = "file" => disk'[y] = "file"
      PROVE  Keeping
  <2> SUFFICES ASSUME NEW y \in Target, Kept(y) PROVE Kept(y)' BY DEF Keeping
  <2>1. CASE y = x BY <1>3, <2>1, KeptIs
  <2>2. CASE y # x
    <3>1. y # lost /\ Temporary(y) # lost BY <2>2, TempHas
    <3> QED BY <1>1, <1>3, <3>1, KeptIs
  <2> QED BY <2>1, <2>2
<1> QED BY <1>2, <1>3

\* The upkeep of a removal adds nothing.
LEMMA RemovalAdds ==
    ASSUME NEW path \in Path, path # Root, NEW kind \in Kind, kind = "dir" => path \in Dir
    PROVE  \A u \in Range(RemoveUpkeep(path, kind)) : FrameAdds(u) /\ u.fn \notin Moving
<1> DEFINE e == EditFrame(Parent(path), Entry(Last(path), kind), NoName)
           c == ClearFrame(path)
<1>1. FrameAdds(e) /\ e.fn = "edit" BY DEF EditFrame, FrameAdds, Filled
<1>2. FrameAdds(c) /\ c.fn = "clear" BY CallsAdd
<1>3. RemoveUpkeep(path, kind) = IF kind = "dir" THEN <<e, c>> ELSE <<e>> BY RemoveUpkeepIs
<1> HIDE DEF e, c
<1>4. Range(RemoveUpkeep(path, kind)) \subseteq {e, c} BY <1>3, RangeOf
<1> QED BY <1>1, <1>2, <1>4 DEF Moving

\* What is left when the driver has served an upload
LEMMA ServedHas ==
    ASSUME OnlyAdds, Base, Adding, NEW p \in Proc, stack[p] # <<>>,
           Top(p).fn \in {"remove", "rename"}, Top(p).at = "got",
           NEW upkeep, \A u \in Range(upkeep) : FrameAdds(u) /\ u.fn \notin Moving,
           Drives(p, [Top(p) EXCEPT !.at = "end"], upkeep)
    PROVE  LET f == Head(Tail(stack[p])) IN
           /\ StackAdds(stack'[p])
           /\ \A q \in Proc \ {p} : stack'[q] = stack[q] /\ ret'[q] = ret[q]
           /\ ret' = ret /\ UNCHANGED <<cache, listG>>
           /\ \A y : Holds(stack'[p], ret'[p], y) => y = f.path /\ f.at = "cleared"
           /\ \A y : Landed(stack'[p], y) => y = f.path /\ f.ok
<1> DEFINE g == Top(p)
           f == Head(Tail(stack[p]))
           k == [g EXCEPT !.at = "end"]
           h == Changing(k, upkeep)
<1>1. /\ g \in FrameSet /\ FrameAdds(g) /\ FrameAdds(f) /\ Range(Tail(stack[p])) = {f}
      /\ Serves(g, f) /\ f.fn = "put" /\ f.kept
  BY ServantHas
<1>2. /\ Range(stack'[p]) = Range(upkeep) \cup {h} \cup {f}
      /\ \A q \in Proc \ {p} : stack'[q] = stack[q] /\ ret'[q] = ret[q]
      /\ ret' = ret /\ UNCHANGED <<cache, listG>>
  BY <1>1, DrivesHas DEF Base
<1>3. k \in FrameSet /\ k.fn = g.fn /\ k.path = g.path /\ k.to = g.to /\ k.at = "end"
  BY <1>1, EndedHas DEF Op
<1> HIDE DEF k
<1>4. h.fn = g.fn /\ h.path = g.path /\ h.to = g.to /\ h.at = "end" BY <1>3, ChangingHas DEF Op
<1> HIDE DEF h
<1>5. FrameAdds(h) /\ Serves(h, f) BY <1>1, <1>4 DEF FrameAdds, Serves
<1>6. StackAdds(stack'[p])
  <2> SUFFICES ASSUME NEW a \in Range(stack'[p])
               PROVE  /\ FrameAdds(a)
                      /\ a.fn \in {"remove", "rename"} => \E b \in Range(stack'[p]) : Serves(a, b)
    BY DEF StackAdds
  <2>1. CASE a \in Range(upkeep) BY <2>1 DEF Moving
  <2>2. CASE a \in {h, f} BY <1>1, <1>2, <1>5, <2>2
  <2> QED BY <1>2, <2>1, <2>2
<1>7. \A a \in Range(stack'[p]) : a.fn = "put" => a = f BY <1>1, <1>2, <1>4 DEF Moving
<1>8. \A a \in Range(stack'[p]) : a.fn \in {"remove", "rename"} => a = h
  BY <1>1, <1>2 DEF Moving
<1>9. ASSUME NEW y, Holds(stack'[p], ret'[p], y) PROVE y = f.path /\ f.at = "cleared"
  <2>1. PICK a \in Range(stack'[p]) : a.path = y /\ Keeps(a, stack'[p], ret'[p]) BY <1>9 DEF Holds
  <2>2. a = f BY <1>7, <2>1 DEF Keeps
  <2>3. f.at \in {"cleared", "end"} BY <1>1 DEF Serves
  <2>4. f.at # "end" BY <1>4, <1>8, <2>1, <2>2 DEF Keeps
  <2> QED BY <2>1, <2>2, <2>3, <2>4
<1>10. \A y : Landed(stack'[p], y) => y = f.path /\ f.ok BY <1>7 DEF Landed
<1> QED BY <1>2, <1>6, <1>9, <1>10

\* The temporary object is removed, when its upload has succeeded.
LEMMA RemoveDriveAdding ==
    ASSUME OnlyAdds, Base, Adding, NEW p \in Proc, RemoveDrive(p)
    PROVE  Adding' /\ Keeping
<1> DEFINE g == Top(p)
           f == Head(Tail(stack[p]))
           k == [g EXCEPT !.at = "end"]
           x == f.path
           t == Temporary(f.path)
           upkeep == RemoveUpkeep(g.path, ret[p])
<1>1. stack[p] # <<>> /\ g.fn = "remove" /\ g.at = "got" /\ Stacks /\ Data
  BY DEF RemoveDrive, At, Base
<1>2. /\ g \in FrameSet /\ FrameAdds(f) /\ Serves(g, f) /\ f.fn = "put" /\ f.kept /\ x \in Target
      /\ Range(stack[p]) = {g, f}
  BY <1>1, ServantHas
<1>3. f.at = "end" /\ f.ok /\ g.path = t BY <1>1, <1>2 DEF Serves
<1>4. x \in Path /\ t \in Path /\ t # Root /\ t \notin Dir /\ t # x BY <1>2, TempHas
<1>5. CASE UNCHANGED <<disk, cache, listG>> /\ \E v \in {Done, Failed} : Returns(p, v)
  <2>1. Adding' BY <1>1, <1>5, ServantReturns
  <2>2. Grows BY <1>5 DEF Grows
  <2> QED BY <2>1, <2>2, StaysKept
<1>6. ASSUME ~Missing(ret[p]), Driven(p, Without(disk, g.path), k, upkeep)
      PROVE  Adding' /\ Keeping
  <2>1. ret[p] \in Kind /\ (ret[p] = "dir" => g.path \in Dir)
    BY <1>1, <1>6, AnswerHas DEF Asks, Asked
  <2>2. /\ IsUpkeepSeq(upkeep)
        /\ \A u \in Range(upkeep) : FrameAdds(u) /\ u.fn \notin Moving
    BY <1>3, <1>4, <2>1, RemoveUpkeepIs, RemovalAdds
  <2>3. /\ k \in FrameSet /\ k.fn = g.fn /\ SameCall(k, g) /\ UnderUpkeep(k)
        /\ \A y : Making(k, y) <=> Making(g, y)
    BY <1>1, <1>2, EndedHas DEF Op
  <2> HIDE DEF upkeep
  <2>4. disk' = Without(disk, t) /\ Drives(p, k, upkeep)
    <3> HIDE DEF k
    <3> QED BY <1>1, <1>3, <1>6, <2>2, <2>3, DrivenTurns DEF Op
  <2>5. /\ StackAdds(stack'[p]) /\ UNCHANGED <<cache, listG, ret>>
        /\ \A q \in Proc \ {p} : stack'[q] = stack[q] /\ ret'[q] = ret[q]
        /\ \A y : ~Holds(stack'[p], ret'[p], y)
    BY <1>1, <1>3, <2>2, <2>4, ServedHas
  <2>6. Holds(stack[p], ret[p], x) /\ Landed(stack[p], x)
    BY <1>1, <1>2, <1>3 DEF Holds, Keeps, Landed
  <2>7. /\ disk[t] = "file" /\ disk[x] = "file"
        /\ \A q \in Proc \ {p} : ~Holds(stack[q], ret[q], x)
    BY <1>2, <2>6 DEF Adding, Holding
  <2>8. \A y \in Path \ {t} : disk[y] = "file" => disk'[y] = "file"
    <3>1. IsTree(disk) /\ disk[t] # "dir" BY <1>1, <2>7 DEF Data
    <3> HIDE DEF t
    <3>2. \A y \in Path \ {t} : disk[y] = "file" => Without(disk, t)[y] = "file"
      BY <1>4, <3>1, TakesOne
    <3> QED BY <2>4, <3>2
  <2>9. NothingEmpty'
    <3>1. \A y \in Path : disk'[y] # "empty" BY <2>4 DEF Without, Absent, Adding, NothingEmpty
    <3> QED BY <2>5, <3>1, SameListings DEF Adding, NothingEmpty
  <2>10. Adding' BY <1>2, <2>5, <2>7, <2>8, <2>9, MovesKept
  <2>11. disk'[x] = "file" BY <1>4, <2>7, <2>8
  <2>12. Keeping BY <1>2, <2>8, <2>11, StaysKept
  <2> QED BY <2>10, <2>12
<1>7. \/ UNCHANGED <<disk, cache, listG>> /\ \E v \in {Done, Failed} : Returns(p, v)
      \/ ~Missing(ret[p]) /\ Driven(p, Without(disk, g.path), k, upkeep)
  BY DEF RemoveDrive, Refused, RemoveUpkeep
<1> QED BY <1>5, <1>6, <1>7

\* The object is renamed to its temporary name or back.
LEMMA RenameDriveAdding ==
    ASSUME OnlyAdds, Base, Adding, NEW p \in Proc, RenameDrive(p)
    PROVE  Adding' /\ Keeping
<1> DEFINE g == Top(p)
           f == Head(Tail(stack[p]))
           k == [g EXCEPT !.at = "end"]
           x == f.path
           t == Temporary(f.path)
           dst == Child(Parent(g.path), g.to)
           old == Entry(Last(g.path), ret[p])
           new == Entry(g.to, disk[g.path])
<1>1. stack[p] # <<>> /\ g.fn = "rename" /\ g.at = "got" /\ Stacks /\ Data
  BY DEF RenameDrive, At, Base
<1>2. /\ g \in FrameSet /\ FrameAdds(f) /\ Serves(g, f) /\ f.fn = "put" /\ f.kept /\ x \in Target
      /\ Range(stack[p]) = {g, f}
  BY <1>1, ServantHas
<1>3. /\ x \in Path /\ x # Root /\ x \notin Dir
      /\ t \in Path /\ t # Root /\ t \notin Dir /\ t # x
      /\ Child(Parent(x), Temp[Last(x)]) = t /\ Child(Parent(t), Last(x)) = x
  BY <1>2, TempHas
<1>4. \/ f.at = "cleared" /\ g.path = x /\ dst = t
      \/ f.at = "end" /\ ~f.ok /\ g.path = t /\ dst = x
  BY <1>1, <1>2, <1>3 DEF Serves
<1>5. CASE \E able : Refused(p, able)
  <2>1. UNCHANGED <<disk, cache, listG>> /\ Returns(p, Failed) BY <1>5 DEF Refused
  <2>2. Adding' BY <1>1, <2>1, ServantReturns DEF Done, Failed
  <2>3. Grows BY <2>1 DEF Grows
  <2> QED BY <2>2, <2>3, StaysKept
<1>6. ASSUME ~Missing(ret[p]), disk[g.path] # Absent, dst = g.path \/ CanArrive(g.path, dst),
             NEW upkeep \in Upkeeps(Parent(g.path), old, new, g.lazy),
             Driven(p, Renamed(g.path, dst), k, upkeep)
      PROVE  Adding' /\ Keeping
  <2> DEFINE s == g.path
  <2>1. s \in {x, t} /\ dst \in {x, t} /\ dst # s /\ s \in Path /\ s # Root /\ dst \in Path /\ dst # Root
        /\ s \notin Dir
    BY <1>3, <1>4
  <2>2. ret[p] \in Kind BY <1>1, <1>6, AnswerHas DEF Asks
  <2>3. g.to \in Name /\ g.lazy \in BOOLEAN BY <1>1, <1>2, FrameHas DEF Op, OpOk, OpFrames
  <2>4. disk[s] = "file"
    BY <1>1, <1>6, <2>1 DEF Data, IsTree, Kind, Adding, NothingEmpty
  <2>5. /\ CanArrive(s, dst) /\ disk[dst] = Absent
        /\ Renamed(s, dst) = Without(Duplicated(disk, s, dst), s)
    BY <1>6, <2>1 DEF CanArrive, Renamed
  <2>6. new.kind # "empty" /\ new \in Entries /\ old \in Entries /\ ListingOk(Parent(s), {new})
    <3>1. Parent(dst) = Parent(s) /\ Last(dst) = g.to
      BY <1>1, <1>6, <2>1, <2>3, RenameArrives
    <3>2. /\ Entry(Last(dst), disk[s]) \in Entries
          /\ ListingOk(Parent(dst), {Entry(Last(dst), disk[s])})
      BY <2>1, <2>4, EntryFits DEF Kind
    <3>3. old \in Entries BY <2>1, <2>2, PathHas DEF Entry, Entries
    <3>4. new.kind = "file" BY <2>4 DEF Entry
    <3> QED BY <3>1, <3>2, <3>3, <3>4
  <2>7. Parent(s) \in Dir BY <2>1, PathHas
  <2> HIDE DEF old, new, dst
  <2>8. IsUpkeepSeq(upkeep) BY <1>6, <2>3, <2>6, <2>7, UpkeepsAre
  <2>9. \A u \in Range(upkeep) : FrameAdds(u) /\ u.fn \notin Moving BY <1>6, <2>6, UpkeepAdds
  <2>10. /\ k \in FrameSet /\ k.fn = g.fn /\ SameCall(k, g) /\ UnderUpkeep(k)
         /\ \A y : Making(k, y) <=> Making(g, y)
    BY <1>1, <1>2, EndedHas DEF Op
  <2>11. disk' = Renamed(s, dst) /\ Drives(p, k, upkeep)
    <3> HIDE DEF k
    <3> QED BY <1>1, <1>6, <2>8, <2>10, DrivenTurns DEF Op
  <2>12. /\ StackAdds(stack'[p]) /\ UNCHANGED <<cache, listG, ret>>
         /\ \A q \in Proc \ {p} : stack'[q] = stack[q] /\ ret'[q] = ret[q]
         /\ \A y : Holds(stack'[p], ret'[p], y) => y = x /\ f.at = "cleared"
         /\ \A y : Landed(stack'[p], y) => f.ok
    BY <1>1, <2>9, <2>11, ServedHas
  <2>13. disk'[dst] = "file" BY <1>1, <2>1, <2>4, <2>5, <2>11, ArrivedHas
  <2>14. \A y \in Path \ {s} : disk[y] = "file" => disk'[y] = "file"
    BY <1>1, <2>1, <2>4, <2>5, <2>11, TakesOne DEF Data
  <2>15. NothingEmpty'
    <3>1. \A y \in Path : disk'[y] # "empty"
      BY <2>5, <2>11 DEF Without, Duplicated, Absent, Adding, NothingEmpty
    <3> QED BY <2>12, <3>1, SameListings DEF Adding, NothingEmpty
  <2>16. \A q \in Proc \ {p} : ~Holds(stack[q], ret[q], x)
    <3>1. CASE dst = t
      <4>1. disk[t] # "file" BY <2>5, <3>1 DEF Absent
      <4> QED BY <1>2, <4>1 DEF Adding, Holding
    <3>2. CASE dst # t
      <4>1. f.at = "end" BY <1>4, <3>2
      <4>2. Holds(stack[p], ret[p], x) BY <1>1, <1>2, <4>1 DEF Holds, Keeps
      <4> QED BY <1>2, <4>2 DEF Adding, Holding
    <3> QED BY <3>1, <3>2
  <2>17. ASSUME NEW y, Holds(stack'[p], ret'[p], y)
         PROVE  y = x /\ disk'[t] = "file" /\ ~Landed(stack'[p], x)
    <3>1. y = x /\ f.at = "cleared" BY <2>12, <2>17
    <3>2. ~f.ok BY <1>2, <3>1 DEF FrameAdds
    <3>3. dst = t BY <1>4, <3>1
    <3> QED BY <2>12, <2>13, <3>1, <3>2, <3>3
  <2>18. Adding' BY <1>2, <2>1, <2>12, <2>14, <2>15, <2>16, <2>17, MovesKept
  <2>19. Keeping BY <1>2, <2>1, <2>13, <2>14, StaysKept
  <2> QED BY <2>18, <2>19
<1>7. \/ \E able : Refused(p, able)
      \/ /\ ~Missing(ret[p]) /\ disk[g.path] # Absent /\ (dst = g.path \/ CanArrive(g.path, dst))
         /\ \E upkeep \in Upkeeps(Parent(g.path), old, new, g.lazy) :
               Driven(p, Renamed(g.path, dst), k, upkeep)
  BY DEF RenameDrive, Renamed
<1> QED BY <1>5, <1>6, <1>7

\* A request comes in.
LEMMA BeginAdding ==
    ASSUME OnlyAdds, Base, Adding, NEW p \in Proc, NEW frame \in Requests, Begin(p, frame)
    PROVE  Adding' /\ Keeping
<1>1. /\ stack[p] = <<>> /\ stack' = [stack EXCEPT ![p] = <<frame>>]
      /\ UNCHANGED <<disk, cache, listG, ret>>
      /\ stack \in [Proc -> Seq(FrameSet)]
  BY DEF Begin, Base, Stacks
<1>2. /\ frame.fn \in {"list", "mkdir", "copy", "put", "puturl"} /\ frame.at = "start"
      /\ frame.fn \in {"put", "puturl"} => frame.kind = "file"
  BY RequestHas DEF OnlyAdds
<1>3. frame.fn = "put" => ~frame.kept /\ ~frame.ok
  <2> SUFFICES ASSUME frame.fn = "put" PROVE ~frame.kept /\ ~frame.ok OBVIOUS
  <2>1. PICK path, kind, lazy : frame = OpFrame("put", path, NoName, kind, lazy)
    BY RequestAssumption
  <2> QED BY <2>1 DEF OpFrame
<1>4. FrameAdds(frame) BY <1>2, <1>3 DEF FrameAdds
<1>5. stack'[p] = <<frame>> /\ \A q \in Proc \ {p} : stack'[q] = stack[q] /\ ret'[q] = ret[q]
  BY <1>1
<1>6. Range(stack'[p]) = {frame} BY <1>5, RangeOf
<1>7. StackAdds(stack'[p]) BY <1>2, <1>4, <1>6 DEF StackAdds
<1>8. \A x : ~Holds(stack'[p], ret'[p], x) BY <1>2, <1>6 DEF Holds, Keeps
<1>9. NothingEmpty' /\ Grows
  <2>1. \A q \in Proc : ret'[q] # "empty" BY <1>1 DEF Adding, NothingEmpty
  <2> QED BY <1>1, <2>1, StillFilled
<1>10. Adding' BY <1>5, <1>7, <1>8, <1>9, MoverAdds
<1> QED BY <1>9, <1>10, StaysKept

\* A cached listing expires.
LEMMA ExpireAdding ==
    ASSUME OnlyAdds, Base, Adding, NEW d \in Dir, Expire(d)
    PROVE  Adding' /\ Keeping
<1>1. /\ cache' = [cache EXCEPT ![d] = NoListing] /\ UNCHANGED <<disk, listG, stack, ret>>
  BY DEF Expire
<1>2. \A e \in Dir : cache'[e] \in {cache[e], NoListing} BY <1>1 DEF Base, Data
<1>3. ListingsFilled' BY <1>1, <1>2 DEF Adding, NothingEmpty, ListingsFilled
<1>4. NothingEmpty' BY <1>1, <1>3 DEF Adding, NothingEmpty
<1>5. Holding' BY <1>1 DEF Adding, Holding
<1>6. \A p \in Proc : StackAdds(stack'[p]) BY <1>1 DEF Adding
<1>7. Grows BY <1>1 DEF Grows
<1> QED BY <1>4, <1>5, <1>6, <1>7, StaysKept DEF Adding

\* Nothing is held when nothing runs yet.
LEMMA AddingInit == ASSUME OnlyAdds PROVE Init => Adding
<1> SUFFICES ASSUME Init PROVE Adding OBVIOUS
<1>1. /\ disk \in InitDisks /\ cache = [d \in Dir |-> NoListing]
      /\ listG = [d \in Dir |-> NoFlight] /\ ret = [p \in Proc |-> Done]
      /\ \A p \in Proc : stack[p] = <<>>
  BY DEF Init
<1>2. ListingsFilled BY <1>1 DEF ListingsFilled, NoFlight, Filled
<1>3. NothingEmpty BY <1>1, <1>2 DEF NothingEmpty, OnlyAdds, Done
<1>4. \A p \in Proc : StackAdds(stack[p]) BY <1>1, RangeOf DEF StackAdds
<1>5. \A p \in Proc : \A x : ~Holds(stack[p], ret[p], x) BY <1>1, RangeOf DEF Holds
<1> QED BY <1>3, <1>4, <1>5 DEF Adding, Holding

\* A step of a call keeps the objects, and the uploads in order.
LEMMA StepAdding ==
    ASSUME OnlyAdds, Base, Adding, NEW p \in Proc, Step(p)
    PROVE  Adding' /\ Keeping
<1>1. stack[p] # <<>> BY DEF Step
<1>2. UNCHANGED disk => Keeping BY StaysKept DEF Grows
<1>3. CASE ListStart(p) \/ ListDo(p) \/ ListRead(p) \/ ListStore(p) \/ ListClose(p)
  <2>1. UNCHANGED disk BY <1>3 DEF ListStart, ListDo, ListRead, ListStore, ListClose
  <2> QED BY <1>2, <1>3, <2>1, ListStartAdding, ListDoAdding, ListReadAdding, ListStoreAdding,
             ListCloseAdding
<1>4. CASE EditGet(p) \/ EditSet(p) \/ ClearStart(p) \/ ClearKids(p)
  <2>1. UNCHANGED disk BY <1>4 DEF EditGet, EditSet, ClearStart, ClearKids
  <2> QED BY <1>2, <1>4, <2>1, EditGetAdding, EditSetAdding, ClearStartAdding, ClearKidsAdding
<1>5. CASE MkdirStart(p) \/ MkdirCheck(p) \/ MkdirParent(p) \/ MkdirEnd(p)
  <2>1. UNCHANGED disk BY <1>5 DEF MkdirStart, MkdirCheck, MkdirParent, MkdirEnd
  <2> QED BY <1>2, <1>5, <2>1, MkdirAdding
<1>6. CASE OpStart(p) \/ PutParent(p)
  <2>1. UNCHANGED disk BY <1>6 DEF OpStart, PutParent
  <2>2. CASE Top(p).fn \notin Moving BY <1>1, <1>2, <1>6, <2>1, <2>2, OpAdding
  <2>3. CASE Top(p).fn = "put" BY <1>1, <1>2, <1>6, <2>1, <2>3, PutStartAdding
  <2>4. CASE Top(p).fn \in {"remove", "rename"}
    <3>1. OpStart(p) BY <1>6, <2>4 DEF PutParent, At
    <3> QED BY <1>1, <1>2, <2>1, <2>4, <3>1, ServantStarts
  <2> QED BY <2>2, <2>3, <2>4 DEF Moving
<1>7. CASE OpEnd(p)
  <2>1. UNCHANGED <<disk, cache, listG>> /\ Returns(p, Done) /\ Top(p).at = "end"
        /\ Top(p).fn # "put"
    BY <1>7 DEF OpEnd, At
  <2>2. CASE Top(p).fn \notin Moving BY <1>1, <1>2, <1>7, <2>1, <2>2, OpAdding
  <2>3. CASE Top(p).fn \in {"remove", "rename"} BY <1>1, <1>2, <2>1, <2>3, ServantReturns
  <2> QED BY <2>1, <2>2, <2>3 DEF Moving
<1>8. CASE MoveSrc(p) \/ PutOld(p) \/ PutCleared(p) \/ PutURLOld(p) \/ PutDone(p) \/ PutEnd(p)
  <2>1. UNCHANGED disk BY <1>8 DEF MoveSrc, PutOld, PutCleared, PutURLOld, PutDone, PutEnd
  <2> QED BY <1>2, <1>8, <2>1, MoveSrcAdding, PutOldAdding, PutClearedAdding, PutURLOldAdding,
             PutDoneAdding, PutEndAdding
<1>9. CASE MkdirDrive(p) \/ MoveDrive(p) \/ PutDrive(p)
  BY <1>9, MkdirDriveAdding, MoveDriveAdding, PutDriveAdding, StaysKept
<1>10. CASE RemoveDrive(p) \/ RenameDrive(p)
  BY <1>10, RemoveDriveAdding, RenameDriveAdding
<1> QED BY <1>3, <1>4, <1>5, <1>6, <1>7, <1>8, <1>9, <1>10 DEF Step

\* Every step does.
LEMMA AddingNext ==
    ASSUME OnlyAdds
    PROVE  Base /\ Adding /\ [Next]_vars => Adding' /\ Keeping
<1> SUFFICES ASSUME Base, Adding, [Next]_vars PROVE Adding' /\ Keeping OBVIOUS
<1>1. CASE UNCHANGED vars
  <2>1. UNCHANGED <<disk, cache, listG, stack, ret>> BY <1>1 DEF vars
  <2>2. Adding' BY <2>1 DEF Adding, NothingEmpty, ListingsFilled, Holding
  <2>3. Grows BY <2>1 DEF Grows
  <2> QED BY <2>2, <2>3, StaysKept
<1>2. ASSUME NEW p \in Proc, NEW frame \in Requests, Begin(p, frame) PROVE Adding' /\ Keeping
  BY <1>2, BeginAdding
<1>3. ASSUME NEW p \in Proc, Step(p) PROVE Adding' /\ Keeping BY <1>3, StepAdding
<1>4. ASSUME NEW d \in Dir, Expire(d) PROVE Adding' /\ Keeping BY <1>4, ExpireAdding
<1> QED BY <1>1, <1>2, <1>3, <1>4 DEF Next

\* When calls only add, as OnlyAdds says, whoever has an object under its temporary
\* name is one upload, and the object is there.
THEOREM AddingHolds == ASSUME OnlyAdds PROVE Spec => []Adding
<1>1. Init => Base /\ Adding BY BaseInit, AddingInit
<1>2. Base /\ Adding /\ [Next]_vars => (Base /\ Adding)' BY BaseNext, AddingNext
<1> QED BY <1>1, <1>2, PTL DEF Spec

\* When calls only add, an object that is there stays there, under its own name or the
\* temporary one, however uploads overlap, fail or overwrite (Put of fs.go).
THEOREM ObjectStays == ASSUME OnlyAdds PROVE Spec => ObjectKept
<1>1. Base /\ Adding /\ [Next]_vars =>
         [\A x \in Path \ {Root} : Last(x) \in DOMAIN Temp /\ Kept(x) => Kept(x)']_vars
  <2> SUFFICES ASSUME Base, Adding, [Next]_vars
               PROVE  \A x \in Path \ {Root} : Last(x) \in DOMAIN Temp /\ Kept(x) => Kept(x)'
    OBVIOUS
  <2> QED BY AddingNext DEF Keeping, Target
<1> QED BY <1>1, BaseHolds, AddingHolds, PTL DEF Spec, ObjectKept

=============================================================================
