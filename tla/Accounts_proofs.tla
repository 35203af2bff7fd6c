-------------------------- MODULE Accounts_proofs ---------------------------
(***************************************************************************)
(* Safety proofs about Accounts and the device sessions below it, for any  *)
(* number of goroutines, devices, passwords, requests and restarts.        *)
(***************************************************************************)
EXTENDS Accounts, FiniteSetTheorems, SequenceTheorems, TLAPS

Session == [dev : Device, status : {"active", "inactive"}]

Visit == [pc : VisitPc, dev : Device, login : BOOLEAN, victim : Device,
          found : {"none", "active", "inactive"}, counted : BOOLEAN, stale : BOOLEAN]

\* The table has one row for a device.
TableTyped ==
    /\ rows \in Seq(Session)
    /\ \A i, j \in DOMAIN rows : rows[i].dev = rows[j].dev => i = j

VisitsTyped == visit \in [Proc -> Visit]

HistoryTyped ==
    /\ purges \in 0..MaxPurges
    /\ out \subseteq Device /\ revived \subseteq out
    /\ raced \in BOOLEAN

\* Sessions are counted once in a visit, and only where there is a limit.
Limited ==
    \A p \in Proc :
        /\ visit[p].counted \/ visit[p].pc \in {"count", "oldest", "evict"} => ~Unlimited
        /\ visit[p].pc \in {"purge", "get", "count"} => ~visit[p].counted

\* What was counted is still a bound, unless a session became active since.
HasRoom(v) ==
    v.counted /\ ~v.stale =>
        /\ v.pc = "evict" => Cardinality(Active \ {v.victim}) < MaxDevices
        /\ v.pc = "save" => Cardinality(Active) < MaxDevices

Room ==
    raced \/ Unlimited \/ /\ Cardinality(Active) <= MaxDevices
                          /\ \A p \in Proc : HasRoom(visit[p])

\* Without a login no inactive session is written back.
FoundActive ==
    \A p \in Proc :
        visit[p].pc \in {"count", "oldest", "evict", "save"} /\ ~visit[p].login
            => visit[p].found # "inactive"

Sessions ==
    /\ TableTyped
    /\ VisitsTyped
    /\ HistoryTyped
    /\ IsFiniteSet(Active)
    /\ Limited
    /\ Room
    /\ FoundActive
    /\ PutOutStaysOut

\* The bounds are numbers.
LEMMA Bounds ==
    /\ MaxDevices \in Nat /\ MaxPurges \in Nat /\ MaxRequests \in Nat
    /\ MaxRestarts \in Nat /\ MaxPwd \in Nat /\ MaxPwd > 0
<1>1. MaxDevices \in Nat /\ MaxPurges \in Nat BY SessionsAssumption
<1>2. MaxRequests \in Nat /\ MaxRestarts \in Nat BY AccountsAssumption
<1>3. MaxPwd \in Nat /\ MaxPwd > 0 BY AccountsAssumption
<1> QED BY <1>1, <1>2, <1>3

USE Bounds, NobodyAssumption

-----------------------------------------------------------------------------
(* The table *)

\* What the status of a device says about the rows
StatusOfRows ==
    /\ \A d \in Device :
          Status(d) = "none" <=> \A i \in DOMAIN rows : rows[i].dev # d
    /\ \A i \in DOMAIN rows : Status(rows[i].dev) = rows[i].status

\* The status looked up for a device is the one of its row.
LEMMA RowsStatus == TableTyped => StatusOfRows
<1> SUFFICES ASSUME TableTyped PROVE StatusOfRows OBVIOUS
<1> USE DEF TableTyped
<1>3. \A i \in DOMAIN rows : rows[i] \in Session
  OBVIOUS
<1> USE DEF Session
<1>1. ASSUME NEW i \in DOMAIN rows PROVE Row(rows[i].dev) = {i} /\ Place(rows[i].dev) = i
  BY DEF Row, Place
<1>2. \A i \in DOMAIN rows : Status(rows[i].dev) = rows[i].status
  BY <1>1 DEF Status
<1>4. ASSUME NEW d \in Device
      PROVE  Status(d) = "none" <=> \A i \in DOMAIN rows : rows[i].dev # d
  BY <1>2, <1>3 DEF Status, Row
<1> QED BY <1>2, <1>4 DEF StatusOfRows

\* The same of the next state.
LEMMA RowsStatusNext == TableTyped' => StatusOfRows'
<1>1. (TableTyped => StatusOfRows)' BY RowsStatus, PTL
<1> QED BY <1>1

\* A status is one of three.
LEMMA StatusType == TableTyped => \A d \in Device : Status(d) \in {"none", "active", "inactive"}
<1> SUFFICES ASSUME TableTyped, NEW d \in Device
             PROVE  Status(d) \in {"none", "active", "inactive"} OBVIOUS
<1>1. CASE \A i \in DOMAIN rows : rows[i].dev # d
  BY <1>1, RowsStatus DEF StatusOfRows
<1>2. ASSUME NEW i \in DOMAIN rows, rows[i].dev = d
      PROVE  Status(d) \in {"none", "active", "inactive"}
  <2>1. rows[i] \in Session BY DEF TableTyped
  <2>2. Status(d) = rows[i].status BY <1>2, RowsStatus DEF StatusOfRows
  <2> QED BY <2>1, <2>2 DEF Session
<1> QED BY <1>1, <1>2

\* The table without the row of d has the others, in order.
LEMMA OthersRows ==
    ASSUME TableTyped, NEW d \in Device
    PROVE  /\ Others(d) \in Seq(Session)
           /\ \A i, j \in DOMAIN Others(d) : Others(d)[i].dev = Others(d)[j].dev => i = j
           /\ \A i \in DOMAIN Others(d) : Others(d)[i].dev # d
           /\ \A i \in DOMAIN Others(d) : \E j \in DOMAIN rows : Others(d)[i] = rows[j]
           /\ \A j \in DOMAIN rows : rows[j].dev # d =>
                 \E i \in DOMAIN Others(d) : Others(d)[i] = rows[j]
<1> USE DEF TableTyped
<1>1. CASE Row(d) = {} BY <1>1 DEF Others, Row
<1>2. CASE Row(d) # {}
  <2> DEFINE k == Place(d)
             n == Len(rows) - 1
  <2>1. k \in DOMAIN rows /\ rows[k].dev = d /\ \A j \in DOMAIN rows : rows[j].dev = d <=> j = k
    BY <1>2 DEF Row, Place
  <2>2. n \in Nat /\ k \in 1..(n + 1) /\ DOMAIN rows = 1..(n + 1)
    BY <2>1
  <2>3. Others(d) = [i \in 1..n |-> IF i < k THEN rows[i] ELSE rows[i + 1]]
    BY <1>2 DEF Others
  <2> HIDE DEF k, n
  <2>4. Others(d) \in Seq(Session) /\ DOMAIN Others(d) = 1..n
    <3>1. \A i \in 1..n : (IF i < k THEN rows[i] ELSE rows[i + 1]) \in Session BY <2>2
    <3> QED BY <2>2, <2>3, <3>1
  <2>5. \A i, j \in 1..n : Others(d)[i].dev = Others(d)[j].dev => i = j
    <3> DEFINE at(i) == IF i < k THEN i ELSE i + 1
    <3>1. \A i \in 1..n : at(i) \in DOMAIN rows /\ Others(d)[i] = rows[at(i)]
      BY <2>2, <2>3
    <3>2. \A i, j \in 1..n : at(i) = at(j) => i = j
      BY <2>2
    <3> HIDE DEF at
    <3> QED BY <3>1, <3>2
  <2>6. \A i \in 1..n : \E j \in DOMAIN rows : j # k /\ Others(d)[i] = rows[j]
    <3> SUFFICES ASSUME NEW i \in 1..n
                 PROVE  \E j \in DOMAIN rows : j # k /\ Others(d)[i] = rows[j] OBVIOUS
    <3>1. CASE i < k
      <4>1. i \in DOMAIN rows /\ Others(d)[i] = rows[i] BY <2>2, <2>3, <3>1
      <4> QED BY <2>2, <3>1, <4>1
    <3>2. CASE i >= k
      <4>1. i + 1 \in DOMAIN rows /\ Others(d)[i] = rows[i + 1] BY <2>2, <2>3, <3>2
      <4> QED BY <2>2, <3>2, <4>1
    <3> QED BY <2>2, <3>1, <3>2
  <2>7. \A j \in DOMAIN rows : j # k => \E i \in 1..n : Others(d)[i] = rows[j]
    <3> SUFFICES ASSUME NEW j \in DOMAIN rows, j # k
                 PROVE  \E i \in 1..n : Others(d)[i] = rows[j] OBVIOUS
    <3>1. CASE j < k
      <4>1. j \in 1..n /\ Others(d)[j] = rows[j] BY <2>2, <2>3, <3>1
      <4> QED BY <4>1
    <3>2. CASE j > k
      <4>1. j - 1 \in 1..n /\ Others(d)[j - 1] = rows[j] BY <2>2, <2>3, <3>2
      <4> QED BY <4>1
    <3> QED BY <2>2, <3>1, <3>2
  <2>8. \A i \in 1..n : Others(d)[i].dev # d
    <3> SUFFICES ASSUME NEW i \in 1..n PROVE Others(d)[i].dev # d OBVIOUS
    <3>1. PICK j \in DOMAIN rows : j # k /\ Others(d)[i] = rows[j] BY <2>6
    <3> QED BY <2>1, <3>1
  <2>9. \A i \in 1..n : \E j \in DOMAIN rows : Others(d)[i] = rows[j] BY <2>6
  <2>10. \A j \in DOMAIN rows : rows[j].dev # d => \E i \in 1..n : Others(d)[i] = rows[j]
    BY <2>1, <2>7
  <2>11. DOMAIN Others(d) = 1..n /\ Others(d) \in Seq(Session) BY <2>4
  <2> HIDE DEF TableTyped
  <2> QED BY <2>5, <2>8, <2>9, <2>10, <2>11
<1> QED BY <1>1, <1>2

\* A session that is stored is active, and the others are as they were.
LEMMA StoredRows ==
    ASSUME TableTyped, NEW d \in Device, rows' = Stored(d)
    PROVE  TableTyped' /\ Active' = Active \cup {d}
<1> DEFINE r == [dev |-> d, status |-> "active"]
           s == Others(d)
<1>1. r \in Session BY DEF Session
<1>2. /\ rows' \in Seq(Session)
      /\ DOMAIN rows' = 1..(Len(s) + 1)
      /\ rows'[Len(s) + 1] = r
      /\ \A i \in 1..Len(s) : rows'[i] = s[i]
  BY <1>1, OthersRows DEF Stored
<1>3. Len(s) \in Nat /\ DOMAIN s = 1..Len(s) BY OthersRows
<1> HIDE DEF r, s
<1>4. \A i \in DOMAIN rows' : i = Len(s) + 1 \/ i \in DOMAIN s
  BY <1>2, <1>3
<1>5. TableTyped'
  <2>1. \A i, j \in DOMAIN rows' : rows'[i].dev = rows'[j].dev => i = j
    <3>1. \A i \in DOMAIN s : rows'[i] = s[i] /\ s[i].dev # d
      BY <1>2, <1>3, OthersRows DEF s
    <3>2. \A i, j \in DOMAIN s : s[i].dev = s[j].dev => i = j BY OthersRows DEF s
    <3>3. rows'[Len(s) + 1].dev = d BY <1>2 DEF r
    <3> QED BY <1>4, <3>1, <3>2, <3>3
  <2> QED BY <2>1, <1>2 DEF TableTyped
<1>6. StatusOfRows /\ StatusOfRows' BY <1>5, RowsStatus, RowsStatusNext
<1>7. Status(d)' = "active"
  BY <1>2, <1>3, <1>6 DEF StatusOfRows, r
<1>8. ASSUME NEW e \in Device, e # d
      PROVE  Status(e)' = "active" <=> Status(e) = "active"
  <2>1. ASSUME NEW i \in DOMAIN rows, rows[i].dev = e
        PROVE  Status(e)' = Status(e)
    <3>1. PICK j \in DOMAIN s : s[j] = rows[i] BY <2>1, <1>8, OthersRows DEF s
    <3>2. j \in DOMAIN rows' /\ rows'[j] = rows[i] BY <3>1, <1>2, <1>3
    <3> QED BY <2>1, <3>2, <1>6 DEF StatusOfRows
  <2>2. ASSUME \A i \in DOMAIN rows : rows[i].dev # e
        PROVE  Status(e)' = "none" /\ Status(e) = "none"
    <3>1. \A j \in DOMAIN s : s[j].dev # e
      <4> SUFFICES ASSUME NEW j \in DOMAIN s PROVE s[j].dev # e OBVIOUS
      <4>1. PICK i \in DOMAIN rows : s[j] = rows[i] BY OthersRows DEF s
      <4> QED BY <2>2, <4>1
    <3>2. \A j \in DOMAIN rows' : rows'[j].dev # e
      BY <1>2, <1>3, <1>4, <1>8, <3>1 DEF r
    <3> QED BY <2>2, <3>2, <1>6 DEF StatusOfRows
  <2> QED BY <2>1, <2>2
<1> QED BY <1>5, <1>7, <1>8 DEF Active

\* Marking a session inactive takes it from the active ones.
LEMMA MarkedRows ==
    ASSUME TableTyped, NEW d \in Device, rows' = Marked(d)
    PROVE  TableTyped' /\ Active' = Active \ {d}
<1> DEFINE r == [dev |-> d, status |-> "inactive"]
<1>1. r \in Session /\ r.dev = d /\ r.status = "inactive" BY DEF Session
<1>2. \A i \in DOMAIN rows : rows[i] \in Session BY DEF TableTyped
<1>3. /\ DOMAIN rows' = DOMAIN rows
      /\ \A i \in DOMAIN rows : rows'[i] = IF rows[i].dev = d THEN r ELSE rows[i]
  BY DEF Marked
<1>4. rows' \in Seq(Session)
  <2>1. DOMAIN rows = 1..Len(rows) /\ Len(rows) \in Nat BY DEF TableTyped
  <2>2. rows' = [i \in 1..Len(rows) |-> IF rows[i].dev = d THEN r ELSE rows[i]]
    BY <2>1 DEF Marked
  <2> HIDE DEF r
  <2>3. \A i \in 1..Len(rows) : (IF rows[i].dev = d THEN r ELSE rows[i]) \in Session
    BY <1>1, <1>2, <2>1
  <2> QED BY <2>1, <2>2, <2>3
<1> HIDE DEF r
<1>5. \A i \in DOMAIN rows : rows'[i].dev = rows[i].dev BY <1>1, <1>3
<1>6. TableTyped' BY <1>3, <1>4, <1>5 DEF TableTyped
<1>7. StatusOfRows /\ StatusOfRows' BY <1>6, RowsStatus, RowsStatusNext
<1>8. ASSUME NEW e \in Device
      PROVE  Status(e)' = "active" <=> Status(e) = "active" /\ e # d
  <2>1. ASSUME NEW i \in DOMAIN rows, rows[i].dev = e
        PROVE  Status(e)' = IF e = d THEN "inactive" ELSE Status(e)
    BY <2>1, <1>1, <1>3, <1>5, <1>7 DEF StatusOfRows
  <2>2. ASSUME \A i \in DOMAIN rows : rows[i].dev # e
        PROVE  Status(e)' = "none" /\ Status(e) = "none"
    BY <2>2, <1>3, <1>5, <1>7 DEF StatusOfRows
  <2> QED BY <2>1, <2>2
<1> QED BY <1>6, <1>8 DEF Active

\* A use of a session moves its row, and changes no status.
LEMMA TouchedRows ==
    ASSUME TableTyped, NEW d \in Device, rows' = Touched(d)
    PROVE  TableTyped' /\ Active' = Active
<1>1. CASE Row(d) = {}
  <2>1. rows' = rows BY <1>1 DEF Touched
  <2> QED BY <2>1 DEF TableTyped, Active, Status, Place, Row
<1>2. CASE Row(d) # {}
  <2> DEFINE k == Place(d)
             s == Others(d)
  <2>1. k \in DOMAIN rows /\ rows[k].dev = d BY <1>2 DEF Row, Place
  <2>2. rows[k] \in Session BY <2>1 DEF TableTyped
  <2>3. rows' = Append(s, rows[k]) BY <1>2 DEF Touched
  <2> HIDE DEF k, s
  <2>4. s \in Seq(Session) BY OthersRows DEF s
  <2>5. Len(s) \in Nat /\ DOMAIN s = 1..Len(s) BY <2>4
  <2>6. /\ rows' \in Seq(Session)
        /\ DOMAIN rows' = 1..(Len(s) + 1)
        /\ rows'[Len(s) + 1] = rows[k]
        /\ \A i \in 1..Len(s) : rows'[i] = s[i]
    BY <2>2, <2>3, <2>4
  <2>7. \A i \in DOMAIN rows' : i = Len(s) + 1 \/ i \in DOMAIN s BY <2>5, <2>6
  <2>8. \A i \in DOMAIN s : rows'[i] = s[i] /\ s[i].dev # d
    BY <2>5, <2>6, OthersRows DEF s
  <2>9. \A i, j \in DOMAIN s : s[i].dev = s[j].dev => i = j BY OthersRows DEF s
  <2>10. TableTyped'
    <3>1. \A i, j \in DOMAIN rows' : rows'[i].dev = rows'[j].dev => i = j
      BY <2>1, <2>6, <2>7, <2>8, <2>9
    <3> QED BY <2>6, <3>1 DEF TableTyped
  <2>11. StatusOfRows /\ StatusOfRows' BY <2>10, RowsStatus, RowsStatusNext
  <2>12. ASSUME NEW e \in Device PROVE Status(e)' = Status(e)
    <3>1. CASE e = d
      <4>1. Len(s) + 1 \in DOMAIN rows' BY <2>5, <2>6
      <4> QED BY <3>1, <4>1, <2>1, <2>6, <2>11 DEF StatusOfRows
    <3>2. ASSUME e # d, NEW i \in DOMAIN rows, rows[i].dev = e
          PROVE  Status(e)' = Status(e)
      <4>1. PICK j \in DOMAIN s : s[j] = rows[i] BY <3>2, OthersRows DEF s
      <4>2. j \in DOMAIN rows' /\ rows'[j] = rows[i] BY <4>1, <2>5, <2>6
      <4> QED BY <3>2, <4>2, <2>11 DEF StatusOfRows
    <3>3. ASSUME e # d, \A i \in DOMAIN rows : rows[i].dev # e
          PROVE  Status(e)' = "none" /\ Status(e) = "none"
      <4>1. \A j \in DOMAIN s : s[j].dev # e
        <5> SUFFICES ASSUME NEW j \in DOMAIN s PROVE s[j].dev # e OBVIOUS
        <5>1. PICK i \in DOMAIN rows : s[j] = rows[i] BY OthersRows DEF s
        <5> QED BY <3>3, <5>1
      <4>2. \A j \in DOMAIN rows' : rows'[j].dev # e
        BY <2>1, <2>6, <2>7, <2>8, <3>3, <4>1
      <4> QED BY <3>3, <4>2, <2>11 DEF StatusOfRows
    <3> QED BY <3>1, <3>2, <3>3
  <2> QED BY <2>10, <2>12 DEF Active
<1> QED BY <1>1, <1>2

\* The purge takes the rows in front, and activates nothing.
LEMMA PurgedRows ==
    ASSUME TableTyped, NEW n \in 0..Len(rows), rows' = Purged(n)
    PROVE  TableTyped' /\ Active' \subseteq Active
<1>1. rows \in Seq(Session) /\ Len(rows) \in Nat /\ DOMAIN rows = 1..Len(rows) BY DEF TableTyped
<1>2. /\ rows' \in Seq(Session)
      /\ DOMAIN rows' = 1..(Len(rows) - n)
      /\ \A i \in 1..(Len(rows) - n) : rows'[i] = rows[n + i]
  <2>1. n \in Nat /\ n <= Len(rows) BY <1>1
  <2>2. rows' = SubSeq(rows, n + 1, Len(rows)) BY DEF Purged
  <2>3. \A i \in (n + 1)..Len(rows) : rows[i] \in Session BY <1>1, <2>1
  <2>4. /\ rows' \in Seq(Session)
        /\ Len(rows') = IF n + 1 <= Len(rows) THEN Len(rows) - (n + 1) + 1 ELSE 0
        /\ \A i \in 1..(Len(rows) - (n + 1) + 1) : rows'[i] = rows[n + 1 + i - 1]
    BY <1>1, <2>1, <2>2, <2>3, SubSeqProperties
  <2>5. Len(rows') = Len(rows) - n
    <3>1. Len(rows') = IF n + 1 <= Len(rows) THEN Len(rows) - (n + 1) + 1 ELSE 0 BY <2>4
    <3>2. Len(rows) \in Nat BY <1>1
    <3> HIDE <1>1, <2>4
    <3> QED BY <2>1, <3>1, <3>2
  <2>6. ASSUME NEW i \in 1..(Len(rows) - n) PROVE rows'[i] = rows[n + i]
    <3>1. Len(rows) - (n + 1) + 1 = Len(rows) - n /\ n + 1 + i - 1 = n + i BY <1>1, <2>1
    <3>2. rows'[i] = rows[n + 1 + i - 1] BY <2>4, <3>1
    <3> QED BY <3>1, <3>2
  <2> QED BY <2>4, <2>5, <2>6
<1>3. \A i \in DOMAIN rows' : n + i \in DOMAIN rows /\ rows'[i] = rows[n + i]
  <2> DEFINE len == Len(rows)
  <2>1. n \in Nat /\ n <= len /\ len \in Nat BY <1>1
  <2>2. DOMAIN rows' = 1..(len - n) /\ \A i \in 1..(len - n) : rows'[i] = rows[n + i]
    BY <1>2
  <2>3. DOMAIN rows = 1..len BY <1>1
  <2> HIDE DEF len
  <2>4. \A i \in 1..(len - n) : n + i \in 1..len BY <2>1
  <2> QED BY <2>2, <2>3, <2>4
<1>4. TableTyped'
  <2>1. \A i, j \in DOMAIN rows : rows[i].dev = rows[j].dev => i = j BY DEF TableTyped
  <2>2. \A i, j \in DOMAIN rows' : rows'[i].dev = rows'[j].dev => i = j
    BY <1>1, <1>2, <1>3, <2>1
  <2> QED BY <1>2, <2>2 DEF TableTyped
<1>5. StatusOfRows /\ StatusOfRows' BY <1>4, RowsStatus, RowsStatusNext
<1>6. ASSUME NEW e \in Device, Status(e)' = "active"
      PROVE  Status(e) = "active"
  <2>1. PICK i \in DOMAIN rows' : rows'[i].dev = e
    BY <1>5, <1>6 DEF StatusOfRows
  <2>2. Status(e)' = rows'[i].status BY <2>1, <1>5 DEF StatusOfRows
  <2>3. n + i \in DOMAIN rows /\ rows[n + i].dev = e /\ rows[n + i].status = "active"
    BY <1>3, <1>6, <2>1, <2>2
  <2> QED BY <2>3, <1>5 DEF StatusOfRows
<1> QED BY <1>4, <1>6 DEF Active

-----------------------------------------------------------------------------
(* The sessions *)

\* Fewer are active: so are those without one of them.
LEMMA FewerActive ==
    ASSUME IsFiniteSet(Active), Active' \subseteq Active
    PROVE  /\ IsFiniteSet(Active')
           /\ Cardinality(Active') \in Nat /\ Cardinality(Active) \in Nat
           /\ Cardinality(Active') <= Cardinality(Active)
           /\ \A d : /\ Cardinality(Active' \ {d}) \in Nat
                     /\ Cardinality(Active \ {d}) \in Nat
                     /\ Cardinality(Active' \ {d}) <= Cardinality(Active \ {d})
<1>1. IsFiniteSet(Active') /\ Cardinality(Active') <= Cardinality(Active)
  BY FS_Subset
<1>2. \A T \in SUBSET Active : Cardinality(T) \in Nat BY FS_Subset, FS_CardinalityType
<1>3. ASSUME NEW d
      PROVE  /\ Cardinality(Active' \ {d}) \in Nat /\ Cardinality(Active \ {d}) \in Nat
             /\ Cardinality(Active' \ {d}) <= Cardinality(Active \ {d})
  <2>1. IsFiniteSet(Active \ {d}) /\ Active' \ {d} \in SUBSET (Active \ {d}) BY FS_RemoveElement
  <2>2. Cardinality(Active' \ {d}) <= Cardinality(Active \ {d}) BY <2>1, FS_Subset
  <2> QED BY <1>2, <2>1, <2>2
<1> QED BY <1>1, <1>2, <1>3

\* Fewer active sessions leave the room there was to those who counted before.
LEMMA RoomKept ==
    ASSUME IsFiniteSet(Active), Active' \subseteq Active, Room, raced' = raced,
           \A p \in Proc : HasRoom(visit[p]) => HasRoom(visit'[p])
    PROVE  IsFiniteSet(Active') /\ Room'
<1>1. CASE raced \/ Unlimited BY <1>1, FewerActive DEF Room, Unlimited
<1>2. CASE ~raced /\ ~Unlimited
  <2>1. Cardinality(Active') <= MaxDevices BY <1>2, FewerActive DEF Room
  <2>2. ASSUME NEW p \in Proc PROVE HasRoom(visit[p])'
    <3>1. HasRoom(visit'[p]) BY <1>2 DEF Room
    <3>2. Cardinality(Active' \ {visit'[p].victim}) <= Cardinality(Active \ {visit'[p].victim})
          /\ Cardinality(Active' \ {visit'[p].victim}) \in Nat
          /\ Cardinality(Active \ {visit'[p].victim}) \in Nat
      BY FewerActive
    <3> QED BY <3>1, <3>2, FewerActive DEF HasRoom
  <2> QED BY <2>1, <2>2, FewerActive DEF Room
<1> QED BY <1>1, <1>2

\* Visits that begin, end or go on before anything is counted
Quiet(p) ==
    \/ visit'[p] = visit[p]
    \/ /\ ~visit'[p].counted
       /\ visit'[p].pc \notin {"count", "oldest", "evict", "save"}

\* Requests that come to the check or leave it change nothing of the table.
LEMMA VisitsSessions ==
    ASSUME Sessions, VisitsTyped', \A p \in Proc : Quiet(p),
           UNCHANGED <<rows, purges, out, revived, raced>>
    PROVE  Sessions'
<1> USE DEF Sessions
<1>1. TableTyped' BY DEF TableTyped
<1>2. Active' = Active BY DEF Active, Status, Place, Row
<1>3. HistoryTyped' BY DEF HistoryTyped
<1>4. Limited' BY DEF Limited, Quiet, Unlimited
<1>5. Room' BY <1>2 DEF Room, HasRoom, Quiet, Unlimited
<1>6. FoundActive' BY DEF FoundActive, Quiet
<1>7. PutOutStaysOut' BY <1>2 DEF PutOutStaysOut
<1> QED BY <1>1, <1>2, <1>3, <1>4, <1>5, <1>6, <1>7

\* Whoever puts a device out takes its session from the active ones.
LEMMA PutOutSessions ==
    ASSUME Sessions, NEW d \in Device, MarkInactive(d), UNCHANGED <<purges, visit, raced>>
    PROVE  Sessions'
<1> USE DEF Sessions, MarkInactive
<1>1. TableTyped' /\ Active' = Active \ {d} BY MarkedRows
<1>2. VisitsTyped' BY DEF VisitsTyped
<1>3. HistoryTyped' BY DEF HistoryTyped
<1>4. Limited' BY DEF Limited, Unlimited
<1>5. IsFiniteSet(Active') /\ Room' BY <1>1, RoomKept
<1>6. FoundActive' BY DEF FoundActive
<1>7. PutOutStaysOut' BY <1>1 DEF PutOutStaysOut
<1> QED BY <1>1, <1>2, <1>3, <1>4, <1>5, <1>6, <1>7

\* A use of a session changes its place only.
LEMMA RefreshSessions ==
    ASSUME Sessions, NEW d \in Device, Refresh(d),
           UNCHANGED <<purges, visit, out, revived, raced>>
    PROVE  Sessions'
<1> USE DEF Sessions, Refresh
<1>1. TableTyped' /\ Active' = Active BY TouchedRows
<1>2. VisitsTyped' BY DEF VisitsTyped
<1>3. HistoryTyped' BY DEF HistoryTyped
<1>4. Limited' BY DEF Limited, Unlimited
<1>5. IsFiniteSet(Active') /\ Room' BY <1>1, RoomKept
<1>6. FoundActive' BY DEF FoundActive
<1>7. PutOutStaysOut' BY <1>1 DEF PutOutStaysOut
<1> QED BY <1>1, <1>2, <1>3, <1>4, <1>5, <1>6, <1>7

\* The purge makes nothing active.
LEMMA PurgeSessions ==
    ASSUME Sessions, NEW p \in Proc, Purge(p)
    PROVE  Sessions'
<1> USE DEF Sessions, Purge, Then, Standing
<1>1. TableTyped' /\ Active' \subseteq Active BY PurgedRows
<1>2. VisitsTyped' BY DEF VisitsTyped, Visit, VisitPc
<1>3. HistoryTyped' BY DEF HistoryTyped
<1>4. Limited' BY DEF Limited, Unlimited, VisitsTyped, Visit
<1>5. IsFiniteSet(Active') /\ Room'
  <2>1. \A q \in Proc : HasRoom(visit[q]) => HasRoom(visit'[q])
    BY DEF HasRoom, VisitsTyped, Visit
  <2> QED BY <1>1, <2>1, RoomKept
<1>6. FoundActive' BY DEF FoundActive, VisitsTyped, Visit
<1>7. PutOutStaysOut' BY <1>1 DEF PutOutStaysOut
<1> QED BY <1>1, <1>2, <1>3, <1>4, <1>5, <1>6, <1>7

\* Whoever finds an inactive session without a login goes no further.
LEMMA GetSessions ==
    ASSUME Sessions, NEW p \in Proc, GetSession(p)
    PROVE  Sessions'
<1> USE DEF Sessions, GetSession, Standing
<1>0. /\ Status(visit[p].dev) \in {"none", "active", "inactive"}
      /\ AfterGet(p) \in {"save", "inactive", "count"}
      /\ AfterGet(p) = "count" => ~Unlimited
      /\ AfterGet(p) # "inactive" /\ ~visit[p].login => Status(visit[p].dev) # "inactive"
  <2>1. visit[p].dev \in Device BY DEF VisitsTyped, Visit
  <2>2. Status(visit[p].dev) \in {"none", "active", "inactive"} BY <2>1, StatusType
  <2> QED BY <2>2 DEF AfterGet
<1>1. TableTyped' /\ Active' = Active
  BY DEF TableTyped, Active, Status, Place, Row
<1> HIDE DEF AfterGet
<1>2. VisitsTyped'
  <2>1. AfterGet(p) \in VisitPc BY <1>0 DEF VisitPc
  <2> HIDE DEF Sessions
  <2> QED BY ZenonT(40), <1>0, <2>1 DEF VisitsTyped, Visit, Sessions
<1>3. HistoryTyped' BY DEF HistoryTyped
<1>4. Limited' BY <1>0 DEF Limited, Unlimited, VisitsTyped, Visit
<1>5. IsFiniteSet(Active') /\ Room'
  <2>1. \A q \in Proc : HasRoom(visit[q]) => HasRoom(visit'[q])
    BY DEF HasRoom, VisitsTyped, Visit, Limited
  <2> QED BY <1>1, <2>1, RoomKept
<1>6. FoundActive' BY <1>0 DEF FoundActive, VisitsTyped, Visit
<1>7. PutOutStaysOut' BY <1>1 DEF PutOutStaysOut
<1> QED BY <1>1, <1>2, <1>3, <1>4, <1>5, <1>6, <1>7

\* A session is counted against the limit only if there is room, or one goes.
LEMMA CountSessionsKept ==
    ASSUME Sessions, NEW p \in Proc, CountSessions(p)
    PROVE  Sessions'
<1> USE DEF Sessions, Standing
<1>1. TableTyped' /\ Active' = Active
  BY DEF TableTyped, Active, Status, Place, Row, CountSessions
<1>2. PICK then \in {"save", "denied", "oldest"} :
         /\ visit' = [visit EXCEPT ![p].counted = TRUE, ![p].stale = FALSE, ![p].pc = then]
         /\ then = "save" => ~Full
  BY DEF CountSessions
<1>3. visit[p].pc = "count" /\ UNCHANGED <<rows, purges, out, revived, raced>>
  BY DEF CountSessions
<1>4. VisitsTyped'
  <2>1. then \in VisitPc BY DEF VisitPc
  <2>2. visit[p] \in Visit BY DEF VisitsTyped
  <2>3. [visit[p] EXCEPT !.counted = TRUE, !.stale = FALSE, !.pc = then] \in Visit
    BY <2>1, <2>2 DEF Visit
  <2> QED BY <1>2, <2>3 DEF VisitsTyped
<1>5. HistoryTyped' BY <1>3 DEF HistoryTyped
<1>6. Limited' BY <1>2, <1>3 DEF Limited, Unlimited, VisitsTyped, Visit
<1>7. IsFiniteSet(Active') /\ Room'
  <2>1. \A q \in Proc : HasRoom(visit[q]) => HasRoom(visit'[q])
    <3>1. ~Full => Cardinality(Active) < MaxDevices
      BY FS_CardinalityType DEF Full
    <3> QED BY <1>2, <1>3, <3>1 DEF HasRoom, VisitsTyped, Visit
  <2> QED BY <1>1, <1>3, <2>1, RoomKept
<1>8. FoundActive' BY <1>2, <1>3 DEF FoundActive, VisitsTyped, Visit
<1>9. PutOutStaysOut' BY <1>1, <1>3 DEF PutOutStaysOut
<1> QED BY <1>1, <1>4, <1>5, <1>6, <1>7, <1>8, <1>9

\* The oldest session is one of those that are counted.
LEMMA GetOldestSessions ==
    ASSUME Sessions, NEW p \in Proc, GetOldest(p)
    PROVE  Sessions'
<1> USE DEF Sessions, Standing, Then
<1>1. TableTyped' /\ Active' = Active
  BY DEF TableTyped, Active, Status, Place, Row, GetOldest
<1>2. visit[p].pc = "oldest" /\ UNCHANGED <<rows, purges, out, revived, raced>>
  BY DEF GetOldest
<1>3. PICK next \in {"save", "evict"}, victim \in Device :
         /\ visit' = [visit EXCEPT ![p].pc = next, ![p].victim = victim]
         /\ next = "save" => Active = {}
         /\ next = "evict" => victim \in Active
  <2>1. CASE {i \in DOMAIN rows : rows[i].status = "active"} = {}
    <3>1. Active = {} BY <2>1, RowsStatus DEF Active, StatusOfRows, TableTyped
    <3>2. visit[p].victim \in Device BY DEF VisitsTyped, Visit
    <3>3. visit' = [visit EXCEPT ![p].pc = "save", ![p].victim = visit[p].victim]
      BY <2>1 DEF GetOldest, VisitsTyped, Visit
    <3> QED BY <3>1, <3>2, <3>3
  <2>2. ASSUME NEW i \in DOMAIN rows, rows[i].status = "active",
               visit' = [visit EXCEPT ![p].pc = "evict", ![p].victim = rows[i].dev]
        PROVE  rows[i].dev \in Device /\ rows[i].dev \in Active
    <3>1. rows[i] \in Session BY DEF TableTyped
    <3>2. rows[i].dev \in Device BY <3>1 DEF Session
    <3> QED BY <2>2, <3>2, RowsStatus DEF StatusOfRows, Active
  <2> QED BY <2>1, <2>2 DEF GetOldest
<1>4. VisitsTyped'
  <2>1. visit[p] \in Visit /\ next \in VisitPc BY DEF VisitsTyped, VisitPc
  <2>2. [visit[p] EXCEPT !.pc = next, !.victim = victim] \in Visit BY <2>1 DEF Visit
  <2> QED BY <1>3, <2>2 DEF VisitsTyped
<1>5. HistoryTyped' BY <1>2 DEF HistoryTyped
<1>6. Limited' BY <1>2, <1>3 DEF Limited, Unlimited, VisitsTyped, Visit
<1>7. IsFiniteSet(Active') /\ Room'
  <2>1. CASE raced \/ Unlimited BY <2>1, <1>1, <1>2 DEF Room, Unlimited
  <2>2. CASE ~raced /\ ~Unlimited
    <3>1. Cardinality(Active) <= MaxDevices BY <2>2 DEF Room
    <3>2. next = "save" => Cardinality(Active) < MaxDevices
      BY <1>3, <2>2, FS_EmptySet DEF Unlimited
    <3>3. next = "evict" => Cardinality(Active \ {victim}) < MaxDevices
      <4>1. Cardinality(Active) \in Nat BY <1>1, FewerActive
      <4>2. victim \in Active => Cardinality(Active \ {victim}) = Cardinality(Active) - 1
        BY FS_RemoveElement
      <4> QED BY <1>3, <3>1, <4>1, <4>2
    <3>4. \A q \in Proc : HasRoom(visit[q]) => HasRoom(visit'[q])
      <4>1. /\ visit'[p].pc = next /\ visit'[p].victim = victim
            /\ \A q \in Proc \ {p} : visit'[q] = visit[q]
        BY <1>3 DEF VisitsTyped, Visit
      <4> QED BY <1>2, <3>2, <3>3, <4>1 DEF HasRoom
    <3> QED BY <1>1, <1>2, <3>4, RoomKept
  <2> QED BY <2>1, <2>2
<1>8. FoundActive' BY <1>2, <1>3 DEF FoundActive, VisitsTyped, Visit
<1>9. PutOutStaysOut' BY <1>1, <1>2 DEF PutOutStaysOut
<1> QED BY <1>1, <1>4, <1>5, <1>6, <1>7, <1>8, <1>9

\* An eviction makes the room the session needs that is written next.
LEMMA EvictSessions ==
    ASSUME Sessions, NEW p \in Proc, Evict(p)
    PROVE  Sessions'
<1> USE DEF Sessions, Standing, Then, Evict, MarkInactive
<1> DEFINE d == visit[p].victim
<1>0. d \in Device BY DEF VisitsTyped, Visit
<1>1. TableTyped' /\ Active' = Active \ {d} BY <1>0, MarkedRows
<1>2. VisitsTyped' BY DEF VisitsTyped, Visit, VisitPc
<1>3. HistoryTyped' BY <1>0 DEF HistoryTyped
<1>4. Limited' BY DEF Limited, Unlimited, VisitsTyped, Visit
<1>5. IsFiniteSet(Active') /\ Room'
  <2>1. CASE raced \/ Unlimited BY <2>1, <1>1, FS_RemoveElement DEF Room, Unlimited
  <2>2. CASE ~raced /\ ~Unlimited
    <3>1. ASSUME NEW q \in Proc PROVE HasRoom(visit[q])'
      <4>1. HasRoom(visit[q]) BY <2>2 DEF Room
      <4>2. CASE q = p
        <5>1. /\ visit'[q].pc = "save" /\ visit[q].pc = "evict"
              /\ visit'[q].counted = visit[q].counted /\ visit'[q].stale = visit[q].stale
          BY <4>2 DEF VisitsTyped, Visit
        <5> QED BY <1>1, <4>1, <4>2, <5>1 DEF HasRoom
      <4>3. CASE q # p
        <5>1. visit'[q] = visit[q] BY <4>3 DEF VisitsTyped
        <5>2. Cardinality(Active' \ {visit[q].victim}) <= Cardinality(Active \ {visit[q].victim})
              /\ Cardinality(Active' \ {visit[q].victim}) \in Nat
              /\ Cardinality(Active \ {visit[q].victim}) \in Nat
          BY <1>1, FewerActive
        <5>3. Cardinality(Active') <= Cardinality(Active)
              /\ Cardinality(Active') \in Nat /\ Cardinality(Active) \in Nat
          BY <1>1, FewerActive
        <5>4. MaxDevices \in Nat BY SessionsAssumption
        <5> HIDE DEF Sessions, Evict
        <5> QED BY <4>1, <5>1, <5>2, <5>3, <5>4 DEF HasRoom
      <4> QED BY <4>2, <4>3
    <3>2. Cardinality(Active') <= MaxDevices BY <1>1, <2>2, FewerActive DEF Room
    <3> QED BY <1>1, <3>1, <3>2, FewerActive DEF Room
  <2> QED BY <2>1, <2>2
<1>6. FoundActive' BY DEF FoundActive, VisitsTyped, Visit
<1>7. PutOutStaysOut' BY <1>1 DEF PutOutStaysOut
<1> QED BY <1>1, <1>2, <1>3, <1>4, <1>5, <1>6, <1>7

\* A session that becomes active on a count that is not outdated finds room; all
\* others who counted are told.
LEMMA SaveSessions ==
    ASSUME Sessions, NEW p \in Proc, Save(p)
    PROVE  Sessions'
<1> USE DEF Sessions
<1> DEFINE d == visit[p].dev
           wakes == Status(d) # "active"
           fails == visit[p].found = "none" /\ Row(d) # {}
<1>0. d \in Device /\ visit[p] \in Visit /\ visit[p].pc = "save" /\ purges' = purges
  BY DEF VisitsTyped, Visit, Save, Standing
<1>1. CASE fails
  <2>1. visit' = [visit EXCEPT ![p].pc = "failed"] /\ UNCHANGED <<rows, out, revived, raced>>
    BY <1>1 DEF Save, Then
  <2>2. VisitsTyped' BY <2>1 DEF VisitsTyped, Visit, VisitPc
  <2>3. \A q \in Proc : HasRoom(visit[q]) => HasRoom(visit'[q])
    BY <2>1 DEF HasRoom, VisitsTyped, Visit
  <2>4. TableTyped' /\ Active' = Active
    BY <2>1 DEF TableTyped, Active, Status, Place, Row
  <2>5. IsFiniteSet(Active') /\ Room' BY <2>1, <2>3, <2>4, RoomKept
  <2>6. HistoryTyped' BY <1>0, <2>1 DEF HistoryTyped
  <2>7. Limited' BY <2>1 DEF Limited, Unlimited, VisitsTyped, Visit
  <2>8. FoundActive' BY <2>1 DEF FoundActive, VisitsTyped, Visit
  <2>9. PutOutStaysOut' BY <2>1, <2>4 DEF PutOutStaysOut
  <2> QED BY <2>2, <2>4, <2>5, <2>6, <2>7, <2>8, <2>9
<1>2. CASE ~fails
  <2>1. /\ rows' = Stored(d)
        /\ visit' = [q \in Proc |->
               IF q = p THEN [NoVisit(d) EXCEPT !.pc = "passed", !.login = visit[p].login]
               ELSE [visit[q] EXCEPT !.stale = @ \/ (wakes /\ visit[q].counted)]]
        /\ out' = IF visit[p].login THEN out \ {d} ELSE out
        /\ revived' = CASE visit[p].login -> revived \ {d}
                        [] ~visit[p].login /\ d \in out
                              /\ visit[p].found # "inactive" -> revived \cup {d}
                        [] OTHER -> revived
        /\ raced' = (raced \/ (wakes /\ (~visit[p].counted \/ visit[p].stale)))
    BY <1>2 DEF Save
  <2>2. TableTyped' /\ Active' = Active \cup {d} BY <1>0, <2>1, StoredRows
  <2>3. wakes <=> d \notin Active BY <1>0 DEF Active
  <2> HIDE DEF d, wakes, fails
  <2>4. /\ visit'[p].pc = "passed" /\ ~visit'[p].counted
        /\ visit'[p] \in Visit
    <3>1. visit'[p] = [NoVisit(d) EXCEPT !.pc = "passed", !.login = visit[p].login]
      BY <2>1
    <3> QED BY <1>0, <3>1 DEF NoVisit, Visit, VisitPc
  <2>5. ASSUME NEW q \in Proc, q # p
        PROVE  /\ visit'[q] \in Visit
               /\ visit'[q].pc = visit[q].pc /\ visit'[q].counted = visit[q].counted
               /\ visit'[q].victim = visit[q].victim /\ visit'[q].login = visit[q].login
               /\ visit'[q].found = visit[q].found
               /\ visit'[q].stale = (visit[q].stale \/ (wakes /\ visit[q].counted))
    <3>1. visit'[q] = [visit[q] EXCEPT !.stale = @ \/ (wakes /\ visit[q].counted)]
      BY <2>1, <2>5
    <3>2. visit[q] \in Visit BY DEF VisitsTyped
    <3>3. (visit[q].stale \/ (wakes /\ visit[q].counted)) \in BOOLEAN
      BY <3>2 DEF Visit
    <3> QED BY <3>1, <3>2, <3>3 DEF Visit
  <2>6. VisitsTyped' BY <2>1, <2>4, <2>5 DEF VisitsTyped
  <2>7. HistoryTyped'
    <3>1. raced' \in BOOLEAN BY <2>1 DEF HistoryTyped
    <3>2. out' \subseteq Device /\ revived' \subseteq out'
      BY <1>0, <2>1 DEF HistoryTyped, Visit
    <3> QED BY <1>0, <3>1, <3>2 DEF HistoryTyped
  <2>8. Limited' BY <2>4, <2>5 DEF Limited, Unlimited
  <2>9. IsFiniteSet(Active') BY <2>2, FS_AddElement
  <2>10. Room'
    <3> SUFFICES ASSUME ~raced', ~Unlimited PROVE Room' BY DEF Room, Unlimited
    <3>1. ~raced BY <2>1 DEF HistoryTyped
    <3>2. CASE wakes
      <4>1. visit[p].counted /\ ~visit[p].stale BY <2>1, <3>2, <1>0 DEF Visit
      <4>2. Cardinality(Active) < MaxDevices BY <1>0, <3>1, <4>1 DEF Room, HasRoom
      <4>3. Cardinality(Active') <= MaxDevices
        <5>1. Cardinality(Active) \in Nat /\ MaxDevices \in Nat
          BY FS_CardinalityType, SessionsAssumption
        <5>2. Cardinality(Active \cup {d}) \in {Cardinality(Active), Cardinality(Active) + 1}
          BY FS_AddElement
        <5>3. Cardinality(Active \cup {d}) \in Nat BY <2>2, <2>9, FS_CardinalityType
        <5> QED BY <2>2, <4>2, <5>1, <5>2, <5>3
      <4>4. \A q \in Proc : HasRoom(visit[q])'
        BY <2>4, <2>5, <3>2 DEF HasRoom
      <4> QED BY <4>3, <4>4 DEF Room
    <3>3. CASE ~wakes
      <4>1. Active' = Active BY <2>2, <2>3, <3>3
      <4>2. \A q \in Proc : HasRoom(visit[q])'
        BY <2>4, <2>5, <3>1, <3>3, <4>1 DEF Room, HasRoom
      <4> QED BY <3>1, <4>1, <4>2 DEF Room
    <3> QED BY <3>2, <3>3
  <2>11. FoundActive' BY <2>4, <2>5 DEF FoundActive
  <2>12. PutOutStaysOut'
    <3>1. visit[p].login \/ visit[p].found # "inactive" BY <1>0 DEF FoundActive
    <3> QED BY <1>0, <2>1, <2>2, <3>1 DEF PutOutStaysOut, Visit
  <2> QED BY <2>2, <2>6, <2>7, <2>8, <2>9, <2>10, <2>11, <2>12
<1> QED BY <1>1, <1>2

\* Every statement of the check keeps what the sessions promise.
LEMMA CheckDeviceSessions ==
    ASSUME Sessions, NEW p \in Proc, CheckDevice(p)
    PROVE  Sessions'
BY PurgeSessions, GetSessions, CountSessionsKept, GetOldestSessions, EvictSessions,
   SaveSessions DEF CheckDevice

-----------------------------------------------------------------------------
(* The accounts *)

Request == [pc : RequestPc, dev : Device, user : Obj \cup {NoObj},
            kind : {"none", "login", "plain", "logout", "evict", "password"},
            pwd : 0..MaxPwd, floor : 0..MaxPwd, overlap : BOOLEAN]

AccountsTyped ==
    /\ outdated \in BOOLEAN /\ edited \in BOOLEAN
    /\ pwd \in 1..MaxPwd /\ issued \in 1..MaxPwd
    /\ obj \in [Obj -> 0..MaxPwd]
    /\ cache \in Obj \cup {NoObj}
    /\ leader \in Proc \cup {Nobody}
    /\ tokens \subseteq 1..MaxPwd
    /\ request \in [Proc -> Request]
    /\ requests \in 0..MaxRequests
    /\ restarts \in 0..MaxRestarts

\* A request that came is of a kind, and has the user it works with.
Serves(r) ==
    /\ r.pc # "idle" => r.kind # "none"
    /\ \/ r.pc \in {"fill", "done", "test", "password", "old", "uncache", "store",
                    "login"}
       \/ r.pc = "device" /\ r.kind \in {"login", "password"}
       => r.user # NoObj

Serving == \A p \in Proc : Serves(request[p])

\* Users somebody refers to are no garbage.
Referenced ==
    /\ cache # NoObj => obj[cache] # 0
    /\ \A p \in Proc : request[p].user # NoObj => obj[request[p].user] # 0

\* A user just read from the table is nobody else's.
Fresh ==
    \A p \in Proc : At(p, "fill") =>
        /\ cache # request[p].user
        /\ \A q \in Proc \ {p} : request[q].user # request[p].user

\* No password is newer than the last, no floor above the table's.
Bounded ==
    /\ pwd <= issued
    /\ \A o \in Obj : obj[o] <= issued
    /\ \A p \in Proc : request[p].floor <= pwd

\* What was read is what the table has, unless a change went on.
ReadRight ==
    \A p \in Proc : At(p, "fill") => request[p].overlap \/ obj[request[p].user] = pwd

\* A user that was handed over is not older than the table that the request has seen,
\* and that of a call still registered not older than the table is, unless a change
\* overlapped the call.
NotOlder ==
    \A p \in Proc :
        /\ At(p, "done") => request[p].overlap \/ obj[request[p].user] >= pwd
        /\ At(p, "test") => request[p].overlap \/ obj[request[p].user] >= request[p].floor

\* While a change is about to be written, what is cached or read counts as outdated.
Storing ==
    (\E q \in Proc : At(q, "store")) =>
        /\ cache # NoObj => outdated
        /\ \A p \in Proc : At(p, "fill") => request[p].overlap

\* The cached user is never older than the table, unless it is known to be outdated.
Current == ~outdated /\ cache # NoObj => obj[cache] >= pwd

Users ==
    /\ AccountsTyped
    /\ Serving
    /\ Referenced
    /\ Fresh
    /\ Bounded
    /\ ReadRight
    /\ NotOlder
    /\ Storing
    /\ Current
    /\ CacheTruth

IInv == Sessions /\ Users

Same(p) ==
    /\ request'[p].pc = request[p].pc
    /\ request'[p].kind = request[p].kind
    /\ request'[p].user = request[p].user
    /\ request'[p].floor = request[p].floor
    /\ request'[p].overlap = request[p].overlap

\* A user that is not just being read for the cache
Known(u) ==
    \/ u \in {cache, NoObj}
    \/ \E q \in Proc : request[q].pc # "fill" /\ request[q].user = u

\* Steps of a request that neither read nor write the table of users
Calm(p) ==
    \/ Same(p)
    \/ /\ request'[p].pc \notin {"fill", "done", "store"}
       /\ Known(request'[p].user)
       /\ request'[p].pc = "test" => request'[p].overlap \/ obj[request'[p].user] >= pwd
       /\ request'[p].floor <= pwd
       /\ Serves(request'[p])
       /\ request[p].pc \in {"old", "uncache"} /\ request[p].user = cache =>
             \/ edited'
             \/ request'[p].pc \in {"old", "uncache"} /\ request'[p].user = cache

\* What is referred to stays in memory.
Spared ==
    \A o \in Obj :
        /\ obj'[o] \in {0, obj[o]}
        /\ cache' = o \/ (\E p \in Proc : request'[p].user = o) => obj'[o] = obj[o]

\* Only users that nobody refers to any more are given up.
LEMMA KeptSpares ==
    ASSUME AccountsTyped, obj' = Kept(obj, cache')
    PROVE  Spared /\ obj' \in [Obj -> 0..MaxPwd]
BY DEF Kept, Spared, AccountsTyped

\* A step that leaves the users alone keeps what is proved of them.
LEMMA CalmUsers ==
    ASSUME Users, AccountsTyped', \A p \in Proc : Calm(p), Spared,
           UNCHANGED <<pwd, cache, issued, outdated>>, edited => edited'
    PROVE  Users'
<1> USE DEF Users
<1>1. \A p \in Proc : request[p] \in Request /\ request'[p] \in Request
  BY DEF AccountsTyped
<1>2. \A p \in Proc : request'[p].pc \in {"fill", "done", "store"} => Same(p)
  BY DEF Calm
<1>3. \A p \in Proc : request'[p].user = request[p].user \/ Known(request'[p].user)
  BY DEF Calm, Same
<1>4. \A p \in Proc : request'[p].user \in Obj \cup {NoObj} BY <1>1 DEF Request
<1>5. Serving' BY DEF Serving, Serves, Calm, Same
<1>6. \A p \in Proc : request'[p].user # NoObj => obj'[request'[p].user] = obj[request'[p].user]
  BY <1>4 DEF Spared
<1>7. cache # NoObj => obj'[cache] = obj[cache] BY DEF Spared, AccountsTyped
<1>8. Referenced' BY <1>3, <1>6, <1>7 DEF Referenced, Known
<1>9. Fresh'
  <2> SUFFICES ASSUME NEW p \in Proc, request'[p].pc = "fill"
               PROVE  /\ cache # request'[p].user
                      /\ \A q \in Proc \ {p} : request'[q].user # request'[p].user
    BY DEF Fresh, At
  <2>1. request[p].pc = "fill" /\ request'[p].user = request[p].user BY <1>2 DEF Same
  <2>2. /\ cache # request[p].user /\ request[p].user # NoObj
        /\ \A q \in Proc \ {p} : request[q].user # request[p].user
    BY <2>1 DEF Fresh, At, Serving, Serves
  <2>3. ~Known(request[p].user) BY <2>1, <2>2 DEF Known
  <2> QED BY <1>3, <2>1, <2>2, <2>3
<1>10. Bounded'
  <2>1. \A p \in Proc : request'[p].floor <= pwd BY DEF Calm, Bounded, Same
  <2>2. \A o \in Obj : obj'[o] <= issued BY DEF Spared, Bounded, AccountsTyped
  <2> QED BY <2>1, <2>2 DEF Bounded
<1>11. ReadRight' BY <1>2, <1>6 DEF ReadRight, At, Serving, Serves, Same
<1>15. NotOlder'
  <2>1. ASSUME NEW p \in Proc, request'[p].pc = "done"
        PROVE  request'[p].overlap \/ obj'[request'[p].user] >= pwd
    BY <1>2, <1>6, <2>1 DEF NotOlder, At, Serving, Serves, Same
  <2>2. ASSUME NEW p \in Proc, request'[p].pc = "test"
        PROVE  request'[p].overlap \/ obj'[request'[p].user] >= request'[p].floor
    <3>1. request'[p].user \in Obj /\ obj'[request'[p].user] = obj[request'[p].user]
      BY <1>4, <1>5, <1>6, <2>2 DEF Serving, Serves
    <3>2. CASE Same(p) BY <2>2, <3>1, <3>2 DEF Same, NotOlder, At
    <3>3. CASE ~Same(p)
      <4>1. /\ request'[p].overlap \/ obj[request'[p].user] >= pwd
            /\ request'[p].floor <= pwd
        BY <2>2, <3>3 DEF Calm
      <4>2. obj[request'[p].user] \in Nat /\ pwd \in Nat /\ request'[p].floor \in Nat
        BY <1>1, <3>1 DEF AccountsTyped, Request
      <4> QED BY <3>1, <4>1, <4>2
    <3> QED BY <3>2, <3>3
  <2> QED BY <2>1, <2>2 DEF NotOlder, At
<1>12. Storing' BY <1>2 DEF Storing, At, Same
<1>13. Current' BY <1>7 DEF Current
<1>14. CacheTruth'
  <2> SUFFICES ASSUME cache # NoObj, obj[cache] # pwd, ~outdated, ~edited'
               PROVE  \E p \in Proc : request'[p].pc \in {"old", "uncache"} /\ request'[p].user = cache
    BY <1>7 DEF CacheTruth
  <2>1. PICK p \in Proc : request[p].pc \in {"old", "uncache"} /\ request[p].user = cache
    BY DEF CacheTruth
  <2> QED BY <2>1 DEF Calm, Same
<1> QED BY <1>5, <1>8, <1>9, <1>10, <1>11, <1>12, <1>13, <1>14, <1>15

\* One request goes on calmly, and the others stand still.
LEMMA OneRequest ==
    ASSUME Users, NEW p \in Proc, NEW r \in Request,
           request' = [request EXCEPT ![p] = r],
           r.pc \notin {"fill", "done", "store"},
           Known(r.user),
           r.pc = "test" => r.overlap \/ obj[r.user] >= pwd,
           r.floor <= pwd,
           Serves(r),
           request[p].pc \in {"old", "uncache"} /\ request[p].user = cache =>
              edited' \/ (r.pc \in {"old", "uncache"} /\ r.user = cache),
           obj' \in {obj, Kept(obj, cache)},
           UNCHANGED <<pwd, cache, issued, outdated, restarts>>,
           leader' \in Proc \cup {Nobody}, tokens' \subseteq 1..MaxPwd,
           requests' \in 0..MaxRequests, edited' \in BOOLEAN, edited => edited'
    PROVE  Users'
<1>1. request \in [Proc -> Request] BY DEF Users, AccountsTyped
<1>2. request'[p] = r /\ \A q \in Proc \ {p} : request'[q] = request[q] BY <1>1
<1>3. Spared /\ obj' \in [Obj -> 0..MaxPwd]
  BY KeptSpares DEF Spared, Users, AccountsTyped
<1>4. \A q \in Proc : Calm(q)
  BY <1>2 DEF Calm, Same
<1>5. request' \in [Proc -> Request] BY <1>1
<1>6. AccountsTyped' BY <1>3, <1>5 DEF Users, AccountsTyped
<1> QED BY <1>3, <1>4, <1>6, CalmUsers

\* The device that stands for "none given" is a device.
LEMMA AnyDeviceType == AnyDevice \in Device
BY SessionsAssumption DEF AnyDevice

\* A request that is done
LEMMA NoRequestServes == NoRequest \in Request /\ Serves(NoRequest)
BY AnyDeviceType DEF NoRequest, Request, Serves, RequestPc

\* A request that ends keeps the part about users.
LEMMA EndsUsers ==
    ASSUME Users, NEW p \in Proc, Ends(p),
           request[p].pc \notin {"old", "uncache"},
           UNCHANGED <<pwd, cache, leader, issued, requests, restarts, outdated, edited>>,
           tokens' \subseteq 1..MaxPwd
    PROVE  Users'
<1>1. NoRequest.pc = "idle" /\ NoRequest.user = NoObj /\ NoRequest.floor = 0
  BY DEF NoRequest
<1>2. /\ pwd \in Nat /\ leader \in Proc \cup {Nobody}
      /\ requests \in 0..MaxRequests /\ edited \in BOOLEAN
  BY DEF Users, AccountsTyped
<1>3. NoRequest.floor <= pwd BY <1>1, <1>2
<1>4. Known(NoRequest.user) BY <1>1 DEF Known
<1> QED BY <1>1, <1>2, <1>3, <1>4, OneRequest, NoRequestServes DEF Ends

\* A request that goes on to another place with the same user
LEMMA GoesUsers ==
    ASSUME Users, NEW p \in Proc, NEW pc \in RequestPc, Goes(p, pc),
           pc \notin {"fill", "done", "store"}, request[p].pc # "fill",
           pc = "test" => request[p].overlap \/ obj[request[p].user] >= pwd,
           Serves([request[p] EXCEPT !.pc = pc]),
           request[p].pc \in {"old", "uncache"} => pc \in {"old", "uncache"},
           UNCHANGED <<pwd, obj, cache, tokens, issued, requests, restarts, outdated, edited>>,
           leader' \in Proc \cup {Nobody}
    PROVE  Users'
<1> DEFINE r == [request[p] EXCEPT !.pc = pc]
<1>1. request[p] \in Request BY DEF Users, AccountsTyped
<1>2. /\ r \in Request /\ r.pc = pc /\ r.user = request[p].user
      /\ r.floor = request[p].floor /\ r.overlap = request[p].overlap
  BY <1>1 DEF Request
<1>5. Known(r.user) BY <1>2 DEF Known
<1>3. request' = [request EXCEPT ![p] = r] BY DEF Goes
<1>4. r.floor <= pwd BY <1>2 DEF Users, Bounded
<1> HIDE DEF r
<1> QED BY <1>2, <1>3, <1>4, <1>5, OneRequest DEF r, Users, AccountsTyped

-----------------------------------------------------------------------------
(* Initially and in every step *)

\* At the start there are neither rows nor requests.
LEMMA InitIInv == Init => IInv
<1> SUFFICES ASSUME Init PROVE IInv OBVIOUS
<1> USE DEF Init, SessionsInit
<1>1. Active = {} BY DEF Active, Status, Row
<1>2. Sessions
  <2>1. TableTyped BY DEF TableTyped
  <2>2. VisitsTyped BY AnyDeviceType DEF VisitsTyped, NoVisit, Visit, VisitPc
  <2>3. HistoryTyped
    <3>1. purges \in 0..MaxPurges OBVIOUS
    <3>2. raced \in BOOLEAN /\ out \subseteq Device /\ revived \subseteq out OBVIOUS
    <3> QED BY <3>1, <3>2 DEF HistoryTyped
  <2>4. Limited /\ FoundActive BY DEF Limited, FoundActive, NoVisit
  <2>5. Room BY <1>1, FS_EmptySet DEF Room, HasRoom, NoVisit
  <2>6. PutOutStaysOut BY DEF PutOutStaysOut
  <2> QED BY <1>1, <2>1, <2>2, <2>3, <2>4, <2>5, <2>6, FS_EmptySet DEF Sessions
<1>3. Users
  <2>1. AccountsTyped
    <3>1. pwd \in 1..MaxPwd /\ issued \in 1..MaxPwd OBVIOUS
    <3>2. requests \in 0..MaxRequests /\ restarts \in 0..MaxRestarts OBVIOUS
    <3>3. obj \in [Obj -> 0..MaxPwd] /\ tokens \subseteq 1..MaxPwd OBVIOUS
    <3>4. request \in [Proc -> Request] BY NoRequestServes
    <3> QED BY <3>1, <3>2, <3>3, <3>4 DEF AccountsTyped
  <2>2. Serving BY NoRequestServes DEF Serving
  <2>3. /\ Referenced /\ Fresh /\ Bounded /\ ReadRight /\ NotOlder /\ Storing
        /\ Current /\ CacheTruth
    BY DEF Referenced, Fresh, Bounded, ReadRight, NotOlder, Storing, Current, CacheTruth, At, NoRequest
  <2> QED BY <2>1, <2>2, <2>3 DEF Users
<1> QED BY <1>2, <1>3 DEF IInv

\* Nothing of the sessions changes.
LEMMA SameSessions ==
    ASSUME Sessions, UNCHANGED sessionVars
    PROVE  Sessions'
<1>1. VisitsTyped' BY DEF Sessions, VisitsTyped, sessionVars
<1> QED BY <1>1, VisitsSessions DEF Quiet, sessionVars

\* Nor of the accounts.
LEMMA SameUsers ==
    ASSUME Users, UNCHANGED accountVars
    PROVE  Users'
<1>1. AccountsTyped' BY DEF Users, AccountsTyped, accountVars
<1> QED BY <1>1, CalmUsers DEF Calm, Same, Spared, accountVars

\* A request that begins has read nothing yet.
LEMMA BeginIInv ==
    ASSUME IInv, NEW p \in Proc, Begin(p)
    PROVE  IInv'
<1> USE DEF IInv
<1>1. Sessions' BY SameSessions DEF Begin
<1>2. PICK r \in Request :
         /\ request' = [request EXCEPT ![p] = r]
         /\ r.pc = "user" /\ r.user = NoObj /\ r.floor = pwd /\ r.kind # "none"
  <2>1. AnyDevice \in Device /\ pwd \in 0..MaxPwd /\ 1..issued \subseteq 0..MaxPwd
    BY AnyDeviceType DEF Users, AccountsTyped
  <2>2. CASE \E d \in Device : \E typed \in 1..issued :
                request' = [request EXCEPT ![p] =
                    [NoRequest EXCEPT !.pc = "user", !.kind = "login", !.dev = d,
                                      !.pwd = typed, !.floor = pwd]]
    <3>1. PICK d \in Device, typed \in 1..issued :
                request' = [request EXCEPT ![p] =
                    [NoRequest EXCEPT !.pc = "user", !.kind = "login", !.dev = d,
                                      !.pwd = typed, !.floor = pwd]]
      BY <2>2
    <3> DEFINE r == [NoRequest EXCEPT !.pc = "user", !.kind = "login", !.dev = d,
                                      !.pwd = typed, !.floor = pwd]
    <3>2. r \in Request /\ r.pc = "user" /\ r.user = NoObj /\ r.floor = pwd /\ r.kind # "none"
      BY <2>1 DEF NoRequest, Request, RequestPc
    <3>3. request' = [request EXCEPT ![p] = r] BY <3>1
    <3> HIDE DEF r
    <3> QED BY <3>2, <3>3
  <2>3. CASE \E d \in Device :
                \E kind \in {"plain", "logout", "evict", "password"}, time \in tokens :
                   request' = [request EXCEPT ![p] =
                       [NoRequest EXCEPT !.pc = "user", !.kind = kind, !.dev = d,
                                         !.pwd = time, !.floor = pwd]]
    <3>1. PICK d \in Device, kind \in {"plain", "logout", "evict", "password"},
               time \in tokens :
                   request' = [request EXCEPT ![p] =
                       [NoRequest EXCEPT !.pc = "user", !.kind = kind, !.dev = d,
                                         !.pwd = time, !.floor = pwd]]
      BY <2>3
    <3> DEFINE r == [NoRequest EXCEPT !.pc = "user", !.kind = kind, !.dev = d,
                                      !.pwd = time, !.floor = pwd]
    <3>2. time \in 0..MaxPwd BY DEF Users, AccountsTyped
    <3>3. r \in Request /\ r.pc = "user" /\ r.user = NoObj /\ r.floor = pwd /\ r.kind # "none"
      BY <2>1, <3>2 DEF NoRequest, Request, RequestPc
    <3>4. request' = [request EXCEPT ![p] = r] BY <3>1
    <3> HIDE DEF r
    <3> QED BY <3>3, <3>4
  <2> QED BY <2>2, <2>3 DEF Begin
<1>3. Users'
  <2>1. /\ requests' \in 0..MaxRequests
        /\ UNCHANGED <<pwd, obj, cache, leader, tokens, issued, restarts, outdated, edited>>
    <3>1. requests < MaxRequests /\ requests' = requests + 1 BY DEF Begin
    <3>2. requests \in 0..MaxRequests BY DEF Users, AccountsTyped
    <3>3. UNCHANGED <<pwd, obj, cache, leader, tokens, issued, restarts, outdated, edited>>
      BY DEF Begin
    <3> QED BY <3>1, <3>2, <3>3
  <2>2. Serves(r) BY <1>2 DEF Serves
  <2>3. request[p].pc = "idle" BY DEF Begin, At
  <2>4. /\ pwd \in Nat /\ leader \in Proc \cup {Nobody} /\ edited \in BOOLEAN
        /\ tokens \subseteq 1..MaxPwd
    BY DEF Users, AccountsTyped
  <2>5. r.floor <= pwd BY <1>2, <2>4
  <2>6. Known(r.user) BY <1>2 DEF Known
  <2> QED BY <1>2, <2>1, <2>2, <2>3, <2>4, <2>5, <2>6, OneRequest
<1> QED BY <1>1, <1>3

-----------------------------------------------------------------------------
(* GetUserByName and the test that follows it *)

\* A request that has its user is otherwise what it was.
LEMMA GetsRequest ==
    ASSUME NEW q \in Proc, request[q] \in Request, NEW user \in Obj,
           NEW overlap \in BOOLEAN
    PROVE  /\ Gets(q, user, overlap) \in Request
           /\ Gets(q, user, overlap).pc = "test"
           /\ Gets(q, user, overlap).user = user
           /\ Gets(q, user, overlap).overlap = overlap
           /\ Gets(q, user, overlap).kind = request[q].kind
           /\ Gets(q, user, overlap).floor = request[q].floor
BY DEF Gets, Request, RequestPc

\* A request may be handed any user that is as new as the table, or known to be old.
LEMMA GetsUsers ==
    ASSUME Users, NEW p \in Proc, NEW user \in Obj, NEW overlap \in BOOLEAN,
           request' = [request EXCEPT ![p] = Gets(p, user, overlap)],
           request[p].pc \in {"user", "miss"}, Known(user),
           overlap \/ obj[user] >= pwd,
           UNCHANGED <<pwd, obj, cache, leader, tokens, issued, requests, restarts,
                       outdated, edited>>
    PROVE  Users'
<1> DEFINE r == Gets(p, user, overlap)
<1>1. request[p] \in Request BY DEF Users, AccountsTyped
<1>2. /\ r \in Request /\ r.pc = "test" /\ r.user = user /\ r.overlap = overlap
      /\ r.kind = request[p].kind /\ r.floor = request[p].floor
  BY <1>1, GetsRequest
<1>3. request' = [request EXCEPT ![p] = r] OBVIOUS
<1> HIDE DEF r
<1>4. Serves(r) BY <1>2, NobodyAssumption DEF Serves, Users, Serving
<1>5. r.floor <= pwd BY <1>2 DEF Users, Bounded
<1>6. /\ leader \in Proc \cup {Nobody} /\ tokens \subseteq 1..MaxPwd
      /\ requests \in 0..MaxRequests /\ edited \in BOOLEAN
  BY DEF Users, AccountsTyped
<1> QED BY <1>2, <1>3, <1>4, <1>5, <1>6, OneRequest

\* A user found in the cache is as current as the cache.
LEMMA CacheHitIInv ==
    ASSUME IInv, NEW p \in Proc, CacheHit(p)
    PROVE  IInv'
<1> USE DEF IInv
<1>1. Sessions' BY SameSessions DEF CacheHit
<1>2. cache \in Obj /\ outdated \in BOOLEAN BY DEF CacheHit, Users, AccountsTyped
<1>3. outdated \/ obj[cache] >= pwd BY <1>2, NobodyAssumption DEF Users, Current
<1>4. Known(cache) BY DEF Known
<1>5. Users' BY <1>2, <1>3, <1>4, GetsUsers DEF CacheHit, At
<1> QED BY <1>1, <1>5

\* A user not found is asked for.
LEMMA CacheMissIInv ==
    ASSUME IInv, NEW p \in Proc, CacheMiss(p)
    PROVE  IInv'
<1> USE DEF IInv
<1>1. Sessions' BY SameSessions DEF CacheMiss
<1>2. request[p].pc = "user" /\ request[p] \in Request /\ leader \in Proc \cup {Nobody}
  BY DEF CacheMiss, At, Users, AccountsTyped
<1>3. Serves([request[p] EXCEPT !.pc = "miss"])
  BY <1>2 DEF Serves, Request, Users, Serving
<1>4. "miss" \in RequestPc BY DEF RequestPc
<1>5. Users' BY <1>2, <1>3, <1>4, GoesUsers DEF CacheMiss
<1> QED BY <1>1, <1>5

\* Who joins a call that was answered gets its user, who joins another waits.
LEMMA JoinFlightIInv ==
    ASSUME IInv, NEW p \in Proc, JoinFlight(p)
    PROVE  IInv'
<1> USE DEF IInv
<1>1. Sessions' BY SameSessions DEF JoinFlight
<1>2. /\ request[p].pc = "miss"
      /\ UNCHANGED <<pwd, obj, cache, tokens, issued, requests, restarts, outdated, edited>>
  BY DEF JoinFlight, At
<1>3. request \in [Proc -> Request] /\ leader \in Proc \cup {Nobody}
  BY DEF Users, AccountsTyped
<1>4. ASSUME NEW pc \in {"load", "wait"}, Goes(p, pc), leader' \in {leader, p}
      PROVE  Users'
  <2>1. leader' \in Proc \cup {Nobody} BY <1>3, <1>4
  <2>2. Serves([request[p] EXCEPT !.pc = pc])
    BY <1>2, <1>3 DEF Serves, Request, Users, Serving
  <2>3. pc \in RequestPc BY DEF RequestPc
  <2> QED BY <1>2, <1>4, <2>1, <2>2, <2>3, GoesUsers
<1>5. CASE /\ leader # Nobody /\ leader' = leader /\ At(leader, "done")
           /\ request' = [request EXCEPT ![p] =
                 Gets(p, request[leader].user, request[leader].overlap)]
  <2> DEFINE user == request[leader].user
             overlap == request[leader].overlap
  <2>1. leader \in Proc /\ request[leader] \in Request /\ request[leader].pc = "done"
    BY <1>3, <1>5 DEF At
  <2>2. user \in Obj /\ overlap \in BOOLEAN
    BY <2>1 DEF Request, Users, Serving, Serves
  <2>3. Known(user) BY <2>1 DEF Known
  <2>4. overlap \/ obj[user] >= pwd BY <2>1 DEF Users, NotOlder, At
  <2>5. request' = [request EXCEPT ![p] = Gets(p, user, overlap)] BY <1>5
  <2>6. /\ request[p].pc \in {"user", "miss"}
        /\ UNCHANGED <<pwd, obj, cache, leader, tokens, issued, requests, restarts,
                       outdated, edited>>
    BY <1>2, <1>5
  <2> HIDE DEF user, overlap
  <2> QED BY <1>1, <2>2, <2>3, <2>4, <2>5, <2>6, GetsUsers
<1>6. Users' BY <1>4, <1>5 DEF JoinFlight
<1> QED BY <1>1, <1>6

\* A user is read into memory nobody refers to.
LEMMA LoadUserIInv ==
    ASSUME IInv, NEW p \in Proc, LoadUser(p)
    PROVE  IInv'
<1> USE DEF IInv
<1>1. Sessions' BY SameSessions DEF LoadUser
<1>2. PICK o \in Obj :
         /\ obj[o] = 0
         /\ obj' = [obj EXCEPT ![o] = pwd]
         /\ request' = [request EXCEPT ![p].pc = "fill", ![p].user = o,
                                       ![p].overlap = \E q \in Proc : At(q, "store")]
  BY DEF LoadUser
<1>3. /\ request[p].pc = "load"
      /\ UNCHANGED <<pwd, cache, leader, tokens, issued, requests, restarts, outdated, edited>>
  BY DEF LoadUser, At
<1> DEFINE stores == \E q \in Proc : At(q, "store")
           r == [request[p] EXCEPT !.pc = "fill", !.user = o, !.overlap = stores]
<1>4. stores \in BOOLEAN OBVIOUS
<1>5. request[p] \in Request /\ request \in [Proc -> Request] BY DEF Users, AccountsTyped
<1>6. request' = [request EXCEPT ![p] = r] BY <1>2
<1> HIDE DEF stores
<1>7. /\ r \in Request /\ r.pc = "fill" /\ r.user = o /\ r.overlap = stores
      /\ r.kind = request[p].kind /\ r.floor = request[p].floor
  BY <1>4, <1>5 DEF Request, RequestPc
<1> HIDE DEF r
<1>8. request'[p] = r /\ \A q \in Proc \ {p} : request'[q] = request[q] BY <1>5, <1>6
<1>9. Users'
  <2> USE DEF Users
  <2>1. AccountsTyped'
    <3>1. request' \in [Proc -> Request] BY <1>5, <1>6, <1>7
    <3>2. obj' \in [Obj -> 0..MaxPwd] BY <1>2 DEF AccountsTyped
    <3> QED BY <1>3, <3>1, <3>2 DEF AccountsTyped
  <2>2. Serving' BY <1>3, <1>7, <1>8 DEF Serving, Serves
  <2>3. /\ cache # o /\ \A q \in Proc : request[q].user # o
        /\ obj'[o] = pwd /\ pwd # 0 /\ \A u \in Obj \ {o} : obj'[u] = obj[u]
    BY <1>2, NobodyAssumption DEF Referenced, AccountsTyped
  <2>4. \A q \in Proc : request[q].user \in Obj \cup {NoObj} BY DEF AccountsTyped, Request
  <2>5. Referenced' BY <1>3, <1>7, <1>8, <2>3, <2>4 DEF Referenced, AccountsTyped
  <2>6. Fresh' BY <1>3, <1>7, <1>8, <2>3 DEF Fresh, At
  <2>7. Bounded' BY <1>3, <1>7, <1>8, <2>3 DEF Bounded
  <2>8. ReadRight'
    BY <1>3, <1>7, <1>8, <2>3, <2>4 DEF ReadRight, At, Serving, Serves
  <2>12. NotOlder'
    BY <1>3, <1>7, <1>8, <2>3, <2>4 DEF NotOlder, At, Serving, Serves
  <2>9. Storing' BY <1>3, <1>7, <1>8 DEF Storing, At, stores
  <2>10. Current' BY <1>3, <2>3 DEF Current, AccountsTyped
  <2>11. CacheTruth' BY <1>3, <1>8, <2>3 DEF CacheTruth, AccountsTyped
  <2> QED BY <2>1, <2>2, <2>5, <2>6, <2>7, <2>8, <2>9, <2>10, <2>11, <2>12
<1> QED BY <1>1, <1>9

\* The user in the cache is then the one that was read, and whoever waited has it.
LEMMA FillCacheIInv ==
    ASSUME IInv, NEW p \in Proc, FillCache(p)
    PROVE  IInv'
<1> USE DEF IInv
<1>1. Sessions' BY SameSessions DEF FillCache
<1> DEFINE o == request[p].user
           v == request[p].overlap
           r == [request[p] EXCEPT !.pc = "done"]
<1>2. /\ request[p].pc = "fill" /\ cache' = o /\ outdated' = v /\ edited' = FALSE
      /\ request' = [q \in Proc |-> CASE q = p -> r
                                     [] q # p /\ request[q].pc = "wait" -> Gets(q, o, v)
                                     [] OTHER -> request[q]]
      /\ obj' = Kept(obj, cache')
      /\ UNCHANGED <<pwd, leader, tokens, issued, requests, restarts>>
  BY DEF FillCache, At
<1>3. AccountsTyped /\ \A q \in Proc : request[q] \in Request
  BY DEF Users, AccountsTyped
<1>4. o \in Obj /\ o # NoObj /\ v \in BOOLEAN
  BY <1>2, <1>3 DEF Users, Serving, Serves, Request
<1>5. /\ r \in Request /\ r.pc = "done" /\ r.user = o /\ r.overlap = v
      /\ r.kind = request[p].kind /\ r.floor = request[p].floor
  BY <1>3 DEF Request, RequestPc
<1>6. obj[o] # 0 /\ obj[o] <= issued /\ (obj[o] = pwd \/ v)
  BY <1>2, <1>4 DEF Users, Referenced, Bounded, ReadRight, At
<1>7. /\ o # cache
      /\ \A q \in Proc \ {p} : request[q].user # o
  BY <1>2 DEF Users, Fresh, At
<1>8. request[p].user = o OBVIOUS
<1> HIDE DEF o, v, r
<1>9. \A q \in Proc : request[q].pc = "wait" =>
         /\ Gets(q, o, v) \in Request
         /\ Gets(q, o, v).pc = "test" /\ Gets(q, o, v).user = o
         /\ Gets(q, o, v).overlap = v
         /\ Gets(q, o, v).kind = request[q].kind
         /\ Gets(q, o, v).floor = request[q].floor
  BY <1>3, <1>4, GetsRequest
<1>10. request'[p] = r BY <1>2
<1>11. ASSUME NEW q \in Proc, q # p, request[q].pc = "wait"
       PROVE  request'[q] = Gets(q, o, v)
  BY <1>2, <1>11
<1>12. ASSUME NEW q \in Proc, q # p, request[q].pc # "wait"
       PROVE  request'[q] = request[q]
  BY <1>2, <1>12
<1>13. \A q \in Proc :
          /\ request'[q] \in Request
          /\ request'[q].kind = request[q].kind /\ request'[q].floor = request[q].floor
          /\ \/ request'[q].pc \in {"done", "test"}
                /\ request'[q].user = o /\ request'[q].overlap = v
                /\ request[q].pc # "idle"
             \/ q # p /\ request'[q] = request[q]
  <2> SUFFICES ASSUME NEW q \in Proc
      PROVE  /\ request'[q] \in Request
             /\ request'[q].kind = request[q].kind /\ request'[q].floor = request[q].floor
             /\ \/ request'[q].pc \in {"done", "test"}
                   /\ request'[q].user = o /\ request'[q].overlap = v
                   /\ request[q].pc # "idle"
                \/ q # p /\ request'[q] = request[q]
    OBVIOUS
  <2>1. CASE q = p BY <1>2, <1>5, <1>10, <2>1
  <2>2. CASE q # p /\ request[q].pc = "wait" BY <1>9, <1>11, <2>2
  <2>3. CASE q # p /\ request[q].pc # "wait" BY <1>3, <1>12, <2>3
  <2> QED BY <2>1, <2>2, <2>3
<1>14. request' \in [Proc -> Request] BY <1>2, <1>13
<1>15. Spared /\ obj' \in [Obj -> 0..MaxPwd] BY <1>2, <1>3, KeptSpares
<1>16. /\ obj'[o] = obj[o]
       /\ \A q \in Proc : request'[q].user # NoObj =>
             request'[q].user \in Obj /\ obj'[request'[q].user] = obj[request'[q].user]
  BY <1>2, <1>4, <1>13, <1>15 DEF Spared, Request
<1>17. Users'
  <2> USE DEF Users
  <2>1. AccountsTyped' BY <1>2, <1>3, <1>4, <1>14, <1>15 DEF AccountsTyped
  <2>2. Serving' BY <1>4, <1>13 DEF Serving, Serves
  <2>3. Referenced' BY <1>2, <1>6, <1>13, <1>16 DEF Referenced
  <2>4. Fresh'
    <3> SUFFICES ASSUME NEW q \in Proc, request'[q].pc = "fill"
                 PROVE  /\ o # request'[q].user
                        /\ \A t \in Proc \ {q} : request'[t].user # request'[q].user
      BY <1>2 DEF Fresh, At
    <3>1. q # p /\ request'[q] = request[q] BY <1>13
    <3>2. \A t \in Proc \ {q} : request[t].user # request[q].user
      BY <3>1 DEF Fresh, At
    <3>3. o # request[q].user BY <1>7, <3>1
    <3> QED BY <1>13, <3>1, <3>2, <3>3
  <2>5. Bounded'
    <3>1. \A q \in Proc : request'[q].floor <= pwd BY <1>13 DEF Bounded
    <3>2. \A u \in Obj : obj'[u] <= issued BY <1>15 DEF Spared, Bounded, AccountsTyped
    <3> QED BY <1>2, <3>1, <3>2 DEF Bounded
  <2>6. ReadRight' BY <1>2, <1>13, <1>16 DEF ReadRight, At, Serving, Serves
  <2>7. NotOlder'
    <3>1. ASSUME NEW q \in Proc, request'[q].user = o, request'[q].overlap = v
          PROVE  request'[q].overlap \/ (obj'[o] >= pwd /\ obj'[o] >= request'[q].floor)
      <4>1. request'[q].floor <= pwd BY <1>13 DEF Bounded
      <4>2. request'[q].floor \in Nat /\ pwd \in Nat BY <1>13 DEF Request, AccountsTyped
      <4> QED BY <1>6, <1>16, <3>1, <4>1, <4>2
    <3>2. ASSUME NEW q \in Proc, request'[q] = request[q]
          PROVE  /\ request'[q].pc = "done" =>
                       request'[q].overlap \/ obj'[request'[q].user] >= pwd
                 /\ request'[q].pc = "test" =>
                       request'[q].overlap \/ obj'[request'[q].user] >= request'[q].floor
      BY <1>16, <3>2 DEF NotOlder, At, Serving, Serves
    <3> QED BY <1>2, <1>13, <3>1, <3>2 DEF NotOlder, At
  <2>8. Storing'
    <3> SUFFICES ASSUME NEW q \in Proc, request'[q].pc = "store"
                 PROVE  /\ v
                        /\ \A t \in Proc : request'[t].pc = "fill" => request'[t].overlap
      BY <1>2 DEF Storing, At
    <3>1. request[q].pc = "store" BY <1>13
    <3>2. v BY <1>2, <3>1 DEF Storing, At, v
    <3> QED BY <1>13, <3>1, <3>2 DEF Storing, At
  <2>9. Current' BY <1>2, <1>6, <1>16 DEF Current, AccountsTyped
  <2>10. CacheTruth' BY <1>2, <1>6, <1>16 DEF CacheTruth
  <2> QED BY <2>1, <2>2, <2>3, <2>4, <2>5, <2>6, <2>7, <2>8, <2>9, <2>10
<1> QED BY <1>1, <1>17

\* The leader goes on with what the call has read.
LEMMA LeaveFlightIInv ==
    ASSUME IInv, NEW p \in Proc, LeaveFlight(p)
    PROVE  IInv'
<1> USE DEF IInv
<1>1. Sessions' BY SameSessions DEF LeaveFlight
<1>2. request[p].pc = "done" /\ request[p] \in Request
  BY DEF LeaveFlight, At, Users, AccountsTyped
<1>3. Serves([request[p] EXCEPT !.pc = "test"])
  BY <1>2 DEF Serves, Request, Users, Serving
<1>4. "test" \in RequestPc BY DEF RequestPc
<1>5. request[p].overlap \/ obj[request[p].user] >= pwd BY <1>2 DEF Users, NotOlder, At
<1>6. Users' BY <1>2, <1>3, <1>4, <1>5, GoesUsers DEF LeaveFlight
<1> QED BY <1>1, <1>6

\* What the test makes of a request
LEMMA TestedRequest ==
    ASSUME AccountsTyped, NEW p \in Proc, TestUser(p)
    PROVE  /\ \/ request' = [request EXCEPT ![p] = NoRequest] /\ visit' = visit
              \/ \E r \in Request :
                    /\ request' = [request EXCEPT ![p] = r]
                    /\ r.pc = "device" /\ r.kind = request[p].kind
                    /\ r.floor = request[p].floor
                    /\ r.user = IF request[p].kind \in {"login", "password"}
                                THEN request[p].user ELSE NoObj
                    /\ request[p].pwd = obj[request[p].user]
                    /\ \E w \in Visit : /\ ~w.counted /\ w.pc \in {"get", "purge"}
                                        /\ visit' = [visit EXCEPT ![p] = w]
           /\ request[p].pc = "test" /\ obj' = Kept(obj, cache)
           /\ UNCHANGED <<rows, purges, out, revived, raced, pwd, cache, leader, tokens,
                          issued, requests, restarts, outdated, edited>>
<1>1. request[p] \in Request BY DEF AccountsTyped
<1> DEFINE kind == request[p].kind
           user == IF kind \in {"login", "password"} THEN request[p].user ELSE NoObj
           r == [request[p] EXCEPT !.pc = "device", !.overlap = FALSE, !.user = user]
           w == [NoVisit(request[p].dev) EXCEPT
                    !.pc = IF kind = "login" THEN "get" ELSE "purge",
                    !.login = kind = "login"]
<1>2. user \in Obj \cup {NoObj} BY <1>1 DEF Request
<1> HIDE DEF user
<1>3. /\ r \in Request /\ r.pc = "device" /\ r.kind = request[p].kind
      /\ r.floor = request[p].floor /\ r.user = user
  BY <1>1, <1>2 DEF Request, RequestPc
<1>4. w \in Visit /\ ~w.counted /\ w.pc \in {"get", "purge"}
  <2>1. request[p].dev \in Device BY <1>1 DEF Request
  <2> QED BY <2>1 DEF NoVisit, Visit, VisitPc
<1>5. CASE ~Fits(p, obj[request[p].user]) BY <1>5 DEF TestUser, At
<1>6. CASE Fits(p, obj[request[p].user])
  <2>1. request' = [request EXCEPT ![p] = r] /\ visit' = [visit EXCEPT ![p] = w]
    BY <1>6 DEF TestUser, user
  <2>2. request[p].pwd = obj[request[p].user] BY <1>6 DEF Fits
  <2> HIDE DEF r, w
  <2> QED BY <1>3, <1>4, <2>1, <2>2 DEF TestUser, At, user
<1> QED BY <1>5, <1>6

\* The test changes no user, and who passes it comes to the check of its device.
LEMMA TestUserIInv ==
    ASSUME IInv, NEW p \in Proc, TestUser(p)
    PROVE  IInv'
<1> USE DEF IInv
<1>1. AccountsTyped /\ request[p] \in Request BY DEF Users, AccountsTyped
<1>2. /\ request[p].pc = "test" /\ obj' = Kept(obj, cache)
      /\ UNCHANGED <<rows, purges, out, revived, raced, pwd, cache, leader, tokens,
                     issued, requests, restarts, outdated, edited>>
  BY <1>1, TestedRequest
<1>3. Sessions'
  <2>1. CASE visit' = visit
    <3>1. VisitsTyped' BY <2>1 DEF Sessions, VisitsTyped
    <3> QED BY <1>2, <2>1, <3>1, VisitsSessions DEF Quiet
  <2>2. CASE \E w \in Visit : /\ ~w.counted /\ w.pc \in {"get", "purge"}
                             /\ visit' = [visit EXCEPT ![p] = w]
    <3>1. VisitsTyped' BY <2>2 DEF Sessions, VisitsTyped
    <3>2. \A q \in Proc : Quiet(q) BY <2>2 DEF Quiet, Sessions, VisitsTyped
    <3> QED BY <1>2, <3>1, <3>2, VisitsSessions
  <2> QED BY <1>1, <2>1, <2>2, TestedRequest
<1>4. CASE request' = [request EXCEPT ![p] = NoRequest]
  <2>1. Ends(p) BY <1>2, <1>4 DEF Ends
  <2>2. Users' BY <1>1, <1>2, <2>1, EndsUsers DEF AccountsTyped
  <2> QED BY <1>3, <2>2
<1>5. ASSUME NEW r \in Request,
             request' = [request EXCEPT ![p] = r],
             r.pc = "device", r.kind = request[p].kind, r.floor = request[p].floor,
             r.user = IF request[p].kind \in {"login", "password"}
                      THEN request[p].user ELSE NoObj
      PROVE  Users'
  <2>1. Known(r.user) BY <1>2, <1>5 DEF Known
  <2>2. Serves(r) BY <1>2, <1>5 DEF Serves, Users, Serving
  <2>3. r.floor <= pwd BY <1>5 DEF Users, Bounded
  <2> QED BY <1>1, <1>2, <1>5, <2>1, <2>2, <2>3, OneRequest DEF AccountsTyped
<1> QED BY <1>1, <1>3, <1>4, <1>5, TestedRequest

-----------------------------------------------------------------------------
(* HandleSession *)

\* A step of a session handler that keeps the sessions' part keeps all.
LEMMA SessionStepIInv ==
    ASSUME IInv, NEW p \in Proc, SessionStep(p)
    PROVE  IInv'
BY CheckDeviceSessions, SameUsers DEF IInv, SessionStep

\* To leave the handler of a device keeps the sessions' part.
LEMMA LeaveDeviceSessions ==
    ASSUME Sessions, NEW p \in Proc, LeaveDevice(p),
           UNCHANGED <<rows, purges, out, revived, raced>>
    PROVE  Sessions'
<1>1. NoVisit(AnyDevice) \in Visit /\ ~NoVisit(AnyDevice).counted /\ NoVisit(AnyDevice).pc = "none"
  BY AnyDeviceType DEF NoVisit, Visit, VisitPc
<1>2. VisitsTyped' BY <1>1 DEF LeaveDevice, Sessions, VisitsTyped
<1>3. \A q \in Proc : Quiet(q) BY <1>1 DEF LeaveDevice, Quiet, Sessions, VisitsTyped
<1> QED BY <1>2, <1>3, VisitsSessions

\* The request that passed the handler of its device ends.
LEMMA PassedIInv ==
    ASSUME IInv, NEW p \in Proc, Passed(p)
    PROVE  IInv'
<1> USE DEF IInv
<1>1. Sessions' BY LeaveDeviceSessions DEF Passed
<1> DEFINE pc == IF request[p].kind = "plain" THEN "refresh" ELSE request[p].kind
<1>2. /\ request[p].pc = "device" /\ Goes(p, pc)
      /\ UNCHANGED <<pwd, obj, cache, leader, tokens, issued, requests, restarts, outdated, edited>>
  BY DEF Passed, At
<1>3. request[p] \in Request /\ leader \in Proc \cup {Nobody}
  BY DEF Users, AccountsTyped
<1>4. pc \in {"refresh", "login", "logout", "evict", "password"}
  BY <1>2, <1>3 DEF Request, Users, Serving, Serves
<1>5. Serves([request[p] EXCEPT !.pc = pc])
  BY <1>2, <1>3, <1>4 DEF Serves, Request, Users, Serving
<1> HIDE DEF pc
<1>6. pc \in RequestPc BY <1>4 DEF RequestPc
<1>7. Users' BY <1>2, <1>3, <1>4, <1>5, <1>6, GoesUsers
<1> QED BY <1>1, <1>7

\* Tokens that are left were tokens.
LEMMA InvalidatedType ==
    ASSUME AccountsTyped, NEW p \in Proc, InvalidateToken(p) \/ UNCHANGED tokens
    PROVE  tokens' \subseteq 1..MaxPwd
BY DEF AccountsTyped, InvalidateToken

\* The request turned away ends.
LEMMA TurnedAwayIInv ==
    ASSUME IInv, NEW p \in Proc, TurnedAway(p)
    PROVE  IInv'
<1> USE DEF IInv
<1>1. Sessions' BY LeaveDeviceSessions DEF TurnedAway
<1>2. tokens' \subseteq 1..MaxPwd BY InvalidatedType DEF TurnedAway, Users
<1>3. request[p].pc = "device" BY DEF TurnedAway, At
<1>4. Users' BY <1>2, <1>3, EndsUsers DEF TurnedAway
<1> QED BY <1>1, <1>4

-----------------------------------------------------------------------------
(* The handlers *)

\* A token is made of the password that the user in memory has.
LEMMA TokenIInv ==
    ASSUME IInv, NEW p \in Proc, Token(p)
    PROVE  IInv'
<1> USE DEF IInv
<1>1. Sessions' BY SameSessions DEF Token
<1>2. request[p].pc = "login" BY DEF Token, At
<1>3. request[p] \in Request /\ AccountsTyped BY DEF Users, AccountsTyped
<1>4. obj[request[p].user] \in 1..MaxPwd
  BY <1>2, <1>3 DEF Users, Serving, Serves, Referenced, Request, AccountsTyped
<1>5. tokens' \subseteq 1..MaxPwd BY <1>3, <1>4 DEF Token, AccountsTyped
<1>6. Users' BY <1>2, <1>5, EndsUsers DEF Token
<1> QED BY <1>1, <1>6

\* Logging out puts one device out.
LEMMA LogOutIInv ==
    ASSUME IInv, NEW p \in Proc, LogOut(p)
    PROVE  IInv'
<1> USE DEF IInv
<1>1. request[p] \in Request /\ leader \in Proc \cup {Nobody} BY DEF Users, AccountsTyped
<1>2. Sessions' BY <1>1, PutOutSessions DEF LogOut, Request
<1>3. request[p].pc = "logout" BY DEF LogOut, At
<1>4. Serves([request[p] EXCEPT !.pc = "forget"])
  BY <1>1, <1>3 DEF Serves, Request, Users, Serving
<1>5. "forget" \in RequestPc BY DEF RequestPc
<1>6. Users' BY <1>1, <1>3, <1>4, <1>5, GoesUsers DEF LogOut
<1> QED BY <1>2, <1>6

\* Forgetting a token leaves tables and caches alone.
LEMMA ForgetTokenIInv ==
    ASSUME IInv, NEW p \in Proc, ForgetToken(p)
    PROVE  IInv'
<1> USE DEF IInv
<1>1. Sessions' BY SameSessions DEF ForgetToken
<1>2. request[p].pc = "forget" BY DEF ForgetToken, At
<1>3. tokens' \subseteq 1..MaxPwd BY InvalidatedType DEF ForgetToken, Users
<1>4. Users' BY <1>2, <1>3, EndsUsers DEF ForgetToken
<1> QED BY <1>1, <1>4

\* Putting out one of one's own devices
LEMMA EvictMySessionIInv ==
    ASSUME IInv, NEW p \in Proc, EvictMySession(p)
    PROVE  IInv'
<1> USE DEF IInv
<1>1. request[p] \in Request /\ leader \in Proc \cup {Nobody} BY DEF Users, AccountsTyped
<1>2. Sessions' BY PutOutSessions DEF EvictMySession
<1>3. request[p].pc = "evict" BY DEF EvictMySession, At
<1>4. Serves([request[p] EXCEPT !.pc = "refresh"])
  BY <1>1, <1>3 DEF Serves, Request, Users, Serving
<1>5. "refresh" \in RequestPc BY DEF RequestPc
<1>6. Users' BY <1>1, <1>3, <1>4, <1>5, GoesUsers DEF EvictMySession
<1> QED BY <1>2, <1>6

\* The administrator puts out a device.
LEMMA EvictSessionIInv ==
    ASSUME IInv, NEW d \in Device, EvictSession(d)
    PROVE  IInv'
<1>1. Sessions' BY PutOutSessions DEF IInv, EvictSession
<1>2. Users' BY SameUsers DEF IInv, EvictSession
<1> QED BY <1>1, <1>2 DEF IInv

\* A session is refreshed.
LEMMA SessionRefreshIInv ==
    ASSUME IInv, NEW p \in Proc, SessionRefresh(p)
    PROVE  IInv'
<1> USE DEF IInv
<1>1. request[p] \in Request /\ tokens \subseteq 1..MaxPwd BY DEF Users, AccountsTyped
<1>2. Sessions' BY <1>1, RefreshSessions DEF SessionRefresh, Request
<1>3. request[p].pc = "refresh" BY DEF SessionRefresh, At
<1>4. Users' BY <1>1, <1>3, EndsUsers DEF SessionRefresh
<1> QED BY <1>2, <1>4

\* The user that is edited is the newest.
LEMMA EditUserIInv ==
    ASSUME IInv, NEW p \in Proc, EditUser(p)
    PROVE  IInv'
<1> USE DEF IInv
<1>1. Sessions' BY SameSessions DEF EditUser
<1> DEFINE o == request[p].user
           r == [request[p] EXCEPT !.pc = "old"]
<1>2. /\ request[p].pc = "password" /\ issued < MaxPwd /\ issued' = issued + 1
      /\ obj' = [obj EXCEPT ![o] = issued + 1]
      /\ request' = [request EXCEPT ![p] = r]
      /\ UNCHANGED <<pwd, cache, leader, tokens, requests, restarts, outdated, edited>>
  BY DEF EditUser, At, Goes
<1>3. request \in [Proc -> Request] /\ request[p] \in Request /\ issued \in Nat /\ pwd \in Nat
  BY DEF Users, AccountsTyped
<1>4. o \in Obj BY <1>2, <1>3 DEF Users, Serving, Serves, Request
<1>5. /\ r \in Request /\ r.pc = "old" /\ r.user = o
      /\ r.kind = request[p].kind /\ r.floor = request[p].floor
  BY <1>3 DEF Request, RequestPc
<1> HIDE DEF r
<1>6. request'[p] = r /\ \A q \in Proc \ {p} : request'[q] = request[q] BY <1>2, <1>3
<1>7. obj'[o] = issued + 1 /\ \A u \in Obj \ {o} : obj'[u] = obj[u]
  BY <1>2, <1>4 DEF Users, AccountsTyped
<1>8. o = request[p].user OBVIOUS
<1> HIDE DEF o
<1>9. Users'
  <2> USE DEF Users
  <2>1. AccountsTyped'
    <3>1. request' \in [Proc -> Request] BY <1>2, <1>3, <1>5
    <3>2. issued' \in 1..MaxPwd BY <1>2, <1>3
    <3>3. issued + 1 \in 0..MaxPwd BY <1>2, <1>3
    <3>4. obj' \in [Obj -> 0..MaxPwd] BY <1>2, <3>3 DEF AccountsTyped
    <3> QED BY <1>2, <3>1, <3>2, <3>4 DEF AccountsTyped
  <2>2. Serving' BY <1>2, <1>5, <1>6, <1>4 DEF Serving, Serves
  <2>3. \A q \in Proc : request'[q].user = request[q].user BY <1>5, <1>6, <1>8
  <2>4. \A q \in Proc : request[q].user \in Obj \cup {NoObj} BY <1>3 DEF Request
  <2>5. Referenced' BY <1>2, <1>3, <1>7, <2>3, <2>4 DEF Referenced, AccountsTyped
  <2>6. Fresh' BY <1>2, <1>5, <1>6, <2>3 DEF Fresh, At
  <2>7. Bounded'
    <3>1. \A u \in Obj : obj'[u] <= issued' BY <1>2, <1>3, <1>4, <1>7 DEF Bounded, AccountsTyped
    <3> QED BY <1>2, <1>3, <1>5, <1>6, <3>1 DEF Bounded
  <2>8. ReadRight'
    <3> SUFFICES ASSUME NEW q \in Proc, request'[q].pc = "fill"
                 PROVE  request'[q].overlap \/ obj'[request'[q].user] = pwd
      BY <1>2 DEF ReadRight, At
    <3>1. q # p /\ request'[q] = request[q] BY <1>5, <1>6
    <3>2. request[q].user # o /\ request[q].user \in Obj
      BY <1>8, <2>4, <3>1 DEF Fresh, At, Serving, Serves
    <3> QED BY <1>7, <3>1, <3>2 DEF ReadRight, At
  <2>12. NotOlder'
    <3> SUFFICES ASSUME NEW q \in Proc, request'[q].pc \in {"done", "test"}
                 PROVE  /\ request'[q].pc = "done" =>
                              request'[q].overlap \/ obj'[request'[q].user] >= pwd
                        /\ request'[q].pc = "test" =>
                              \/ request'[q].overlap
                              \/ obj'[request'[q].user] >= request'[q].floor
      BY <1>2 DEF NotOlder, At
    <3>1. q # p /\ request'[q] = request[q] BY <1>5, <1>6
    <3>2. request[q].user \in Obj BY <2>4, <3>1 DEF Serving, Serves
    <3>3. CASE request[q].user = o
      <4>1. request[q].floor <= pwd /\ pwd <= issued BY DEF Bounded
      <4>2. request[q].floor \in Nat BY <1>3 DEF Request
      <4> QED BY <1>3, <1>7, <3>1, <3>3, <4>1, <4>2
    <3>4. CASE request[q].user # o
      BY <1>7, <3>1, <3>2, <3>4 DEF NotOlder, At
    <3> QED BY <3>3, <3>4
  <2>9. Storing' BY <1>2, <1>5, <1>6 DEF Storing, At
  <2>10. Current'
    <3>1. cache # o /\ cache # NoObj => obj'[cache] = obj[cache]
      BY <1>7 DEF AccountsTyped
    <3>2. pwd <= issued + 1 BY <1>3 DEF Bounded
    <3> QED BY <1>2, <1>7, <3>1, <3>2 DEF Current
  <2>11. CacheTruth'
    <3>1. CASE cache = o BY <1>2, <1>5, <1>6, <3>1 DEF CacheTruth
    <3>2. CASE cache # o
      <4>1. cache # NoObj => obj'[cache] = obj[cache] BY <1>7, <3>2 DEF AccountsTyped
      <4>2. ASSUME NEW q \in Proc, request[q].pc \in {"old", "uncache"}
            PROVE  request'[q] = request[q]
        BY <1>2, <1>6, <4>2
      <4> QED BY <1>2, <4>1, <4>2 DEF CacheTruth
    <3> QED BY <3>1, <3>2
  <2> QED BY <2>1, <2>2, <2>5, <2>6, <2>7, <2>8, <2>9, <2>10, <2>11, <2>12
<1> QED BY <1>1, <1>9

\* A failed UpdateUser lets its user go.
LEMMA LeavesUserUsers ==
    ASSUME Users, NEW p \in Proc, LeavesUser(p), request[p].pc \in {"old", "store"},
           UNCHANGED <<pwd, cache, leader, tokens, issued, requests, restarts, outdated>>,
           edited' \in BOOLEAN, edited => edited',
           request[p].pc = "old" /\ cache = request[p].user => edited'
    PROVE  Users'
<1> DEFINE r == [request[p] EXCEPT !.pc = "refresh", !.user = NoObj]
<1>1. request[p] \in Request BY DEF Users, AccountsTyped
<1>2. /\ r \in Request /\ r.pc = "refresh" /\ r.user = NoObj
      /\ r.kind = request[p].kind /\ r.floor = request[p].floor
  BY <1>1 DEF Request, RequestPc
<1>3. request' = [request EXCEPT ![p] = r] /\ obj' = Kept(obj, cache) BY DEF LeavesUser
<1> HIDE DEF r
<1>4. Serves(r) BY <1>2 DEF Serves, Users, Serving
<1>5. r.floor <= pwd BY <1>2 DEF Users, Bounded
<1>6. /\ leader \in Proc \cup {Nobody} /\ tokens \subseteq 1..MaxPwd
      /\ requests \in 0..MaxRequests
  BY DEF Users, AccountsTyped
<1>7. Known(r.user) BY <1>2 DEF Known
<1> QED BY <1>2, <1>3, <1>4, <1>5, <1>6, <1>7, OneRequest

\* The old row is read before it is saved.
LEMMA OldUserIInv ==
    ASSUME IInv, NEW p \in Proc, OldUser(p)
    PROVE  IInv'
<1> USE DEF IInv
<1>1. Sessions' BY SameSessions DEF OldUser
<1>2. /\ request[p].pc = "old"
      /\ UNCHANGED <<pwd, cache, leader, tokens, issued, requests, restarts, outdated>>
  BY DEF OldUser, At
<1>3. CASE Goes(p, "uncache") /\ UNCHANGED <<obj, edited>>
  <2>1. request[p] \in Request /\ leader \in Proc \cup {Nobody} BY DEF Users, AccountsTyped
  <2>2. Serves([request[p] EXCEPT !.pc = "uncache"])
    BY <1>2, <2>1 DEF Serves, Request, Users, Serving
  <2>3. "uncache" \in RequestPc BY DEF RequestPc
  <2>4. Users' BY <1>2, <1>3, <2>1, <2>2, <2>3, GoesUsers
  <2> QED BY <1>1, <2>4
<1>4. CASE edited' = (edited \/ cache = request[p].user) /\ LeavesUser(p)
  <2>1. edited' \in BOOLEAN BY <1>4 DEF Users, AccountsTyped
  <2>2. Users' BY <1>2, <1>4, <2>1, LeavesUserUsers
  <2> QED BY <1>1, <2>2
<1> QED BY <1>3, <1>4 DEF OldUser

\* What a change of the table does to the requests under way
LEMMA OverlapsRequests ==
    ASSUME NEW next \in [Proc -> Request], Overlaps(next)
    PROVE  /\ request' \in [Proc -> Request]
           /\ \A q \in Proc :
                 /\ request'[q].pc = next[q].pc /\ request'[q].kind = next[q].kind
                 /\ request'[q].user = next[q].user /\ request'[q].floor = next[q].floor
                 /\ request[q].pc \in {"fill", "done"} \/ next[q].overlap
                       => request'[q].overlap
<1> DEFINE r(q) == [next[q] EXCEPT !.overlap = TRUE]
<1>1. ASSUME NEW q \in Proc
      PROVE  /\ r(q) \in Request /\ r(q).pc = next[q].pc /\ r(q).kind = next[q].kind
             /\ r(q).user = next[q].user /\ r(q).floor = next[q].floor /\ r(q).overlap
  BY DEF Request
<1>2. request' = [q \in Proc |-> IF request[q].pc \in {"fill", "done"} THEN r(q)
                             ELSE next[q]]
  BY DEF Overlaps, At
<1> HIDE DEF r
<1> QED BY <1>1, <1>2

\* With the cache cleared nothing in it is outdated.
LEMMA UncacheIInv ==
    ASSUME IInv, NEW p \in Proc, Uncache(p)
    PROVE  IInv'
<1> USE DEF IInv
<1>1. Sessions' BY SameSessions DEF Uncache
<1> DEFINE next == [request EXCEPT ![p].pc = "store"]
           r == [request[p] EXCEPT !.pc = "store"]
<1>2. /\ request[p].pc = "uncache" /\ cache' = NoObj /\ outdated' = FALSE /\ edited' = FALSE
      /\ Overlaps(next) /\ obj' = Kept(obj, NoObj)
      /\ UNCHANGED <<pwd, leader, tokens, issued, requests, restarts>>
  BY DEF Uncache, At
<1>3. request \in [Proc -> Request] /\ request[p] \in Request BY DEF Users, AccountsTyped
<1>4. /\ r \in Request /\ r.pc = "store" /\ r.user = request[p].user
      /\ r.kind = request[p].kind /\ r.floor = request[p].floor
  BY <1>3 DEF Request, RequestPc
<1>5. next = [request EXCEPT ![p] = r] OBVIOUS
<1> HIDE DEF r, next
<1>6. /\ next \in [Proc -> Request] /\ next[p] = r
      /\ \A q \in Proc \ {p} : next[q] = request[q]
  BY <1>3, <1>4, <1>5
<1>7. /\ request' \in [Proc -> Request]
      /\ \A q \in Proc :
            /\ request'[q].pc = next[q].pc /\ request'[q].kind = next[q].kind
            /\ request'[q].user = next[q].user /\ request'[q].floor = next[q].floor
            /\ request[q].pc \in {"fill", "done"} \/ next[q].overlap
                  => request'[q].overlap
  BY <1>2, <1>6, OverlapsRequests
<1>8. \A q \in Proc : /\ request'[q].user = request[q].user
                      /\ request'[q].floor = request[q].floor
                      /\ request'[q].pc \in {"fill", "done", "test"} =>
                            request[q].pc = request'[q].pc /\ next[q] = request[q]
  BY <1>4, <1>6, <1>7
<1>9. \A q \in Proc : request[q].user \in Obj \cup {NoObj} BY <1>3 DEF Request
<1>10. /\ obj' \in [Obj -> 0..MaxPwd]
       /\ \A o \in Obj : obj'[o] \in {0, obj[o]}
       /\ \A q \in Proc : request[q].user # NoObj => obj'[request[q].user] = obj[request[q].user]
  BY <1>2, <1>8, <1>9 DEF Kept, Users, AccountsTyped
<1>11. Users'
  <2> USE DEF Users
  <2>1. AccountsTyped' BY <1>2, <1>7, <1>10 DEF AccountsTyped
  <2>2. Serving' BY <1>2, <1>4, <1>6, <1>7 DEF Serving, Serves
  <2>3. Referenced' BY <1>2, <1>8, <1>10 DEF Referenced
  <2>4. Fresh'
    <3> SUFFICES ASSUME NEW q \in Proc, request'[q].pc = "fill"
                 PROVE  /\ NoObj # request'[q].user
                        /\ \A s \in Proc \ {q} : request'[s].user # request'[q].user
      BY <1>2 DEF Fresh, At
    <3> QED BY <1>8 DEF Fresh, At, Serving, Serves
  <2>5. Bounded'
    <3>1. \A o \in Obj : obj'[o] <= issued BY <1>10 DEF Bounded, AccountsTyped
    <3> QED BY <1>2, <1>8, <3>1 DEF Bounded
  <2>6. ReadRight' BY <1>7, <1>8 DEF ReadRight, At
  <2>7. Storing' BY <1>2, <1>7, <1>8 DEF Storing, At
  <2>8. Current' /\ CacheTruth' BY <1>2 DEF Current, CacheTruth
  <2>9. NotOlder'
    <3>1. ASSUME NEW q \in Proc, request'[q].pc = "done" PROVE request'[q].overlap
      BY <1>7, <1>8, <3>1
    <3>2. ASSUME NEW q \in Proc, request'[q].pc = "test"
          PROVE  request'[q].overlap \/ obj'[request'[q].user] >= request'[q].floor
      <4>1. request[q].pc = "test" /\ next[q] = request[q] BY <1>8, <3>2
      <4>2. request[q].user # NoObj BY <4>1 DEF Serving, Serves
      <4> QED BY <1>7, <1>8, <1>10, <4>1, <4>2 DEF NotOlder, At
    <3> QED BY <3>1, <3>2 DEF NotOlder, At
  <2> QED BY <2>1, <2>2, <2>3, <2>4, <2>5, <2>6, <2>7, <2>8, <2>9
<1> QED BY <1>1, <1>11

\* Lowering the floors changes nothing else.
LEMMA LoweredRequests ==
    ASSUME NEW next \in [Proc -> Request], NEW password \in 0..MaxPwd
    PROVE  /\ Lowered(next, password) \in [Proc -> Request]
           /\ \A q \in Proc :
                 LET r == Lowered(next, password)[q]
                 IN  /\ r.pc = next[q].pc /\ r.kind = next[q].kind /\ r.user = next[q].user
                     /\ r.overlap = next[q].overlap
                     /\ r.floor <= password /\ r.floor <= next[q].floor
<1> DEFINE r(q) == [next[q] EXCEPT !.floor = password]
<1>1. ASSUME NEW q \in Proc
      PROVE  /\ r(q) \in Request /\ r(q).pc = next[q].pc /\ r(q).kind = next[q].kind
             /\ r(q).user = next[q].user /\ r(q).floor = password
             /\ r(q).overlap = next[q].overlap /\ next[q].floor \in 0..MaxPwd
  BY DEF Request
<1>2. Lowered(next, password) =
         [q \in Proc |-> IF password < next[q].floor THEN r(q) ELSE next[q]]
  BY DEF Lowered
<1> HIDE DEF r
<1> QED BY <1>1, <1>2

\* Whatever is cached or being read while the table changes is outdated.
LEMMA StoreUserIInv ==
    ASSUME IInv, NEW p \in Proc, StoreUser(p)
    PROVE  IInv'
<1> USE DEF IInv
<1>1. Sessions' BY SameSessions DEF StoreUser
<1>2. /\ request[p].pc = "store"
      /\ UNCHANGED <<cache, leader, tokens, issued, requests, restarts, outdated, edited>>
  BY DEF StoreUser, At
<1>3. request \in [Proc -> Request] /\ request[p] \in Request /\ edited \in BOOLEAN
  BY DEF Users, AccountsTyped
<1>4. CASE LeavesUser(p) /\ UNCHANGED pwd
  <2>1. Users' BY <1>2, <1>3, <1>4, LeavesUserUsers
  <2> QED BY <1>1, <2>1
<1> DEFINE next == [request EXCEPT ![p].pc = "refresh", ![p].user = NoObj]
           r == [request[p] EXCEPT !.pc = "refresh", !.user = NoObj]
<1>5. CASE /\ pwd' = obj[request[p].user]
           /\ Overlaps(Lowered(next, pwd'))
           /\ obj' = Kept(obj, cache)
  <2>1. request[p].user \in Obj
    BY <1>2, <1>3 DEF Users, Serving, Serves, Request
  <2>2. pwd' \in 1..MaxPwd /\ pwd' <= issued /\ pwd' \in 0..MaxPwd
    BY <1>5, <2>1 DEF Users, Referenced, Bounded, AccountsTyped
  <2>3. /\ r \in Request /\ r.pc = "refresh" /\ r.user = NoObj /\ r.kind = request[p].kind
    BY <1>3 DEF Request, RequestPc
  <2>4. next = [request EXCEPT ![p] = r] OBVIOUS
  <2>5. Overlaps(Lowered(next, pwd')) /\ obj' = Kept(obj, cache) BY <1>5
  <2> HIDE DEF r, next
  <2>6. /\ next \in [Proc -> Request] /\ next[p] = r
        /\ \A q \in Proc \ {p} : next[q] = request[q]
    BY <1>3, <2>3, <2>4
  <2> DEFINE low == Lowered(next, pwd')
  <2>7. /\ low \in [Proc -> Request]
        /\ \A q \in Proc : /\ low[q].pc = next[q].pc /\ low[q].kind = next[q].kind
                           /\ low[q].user = next[q].user /\ low[q].floor <= pwd'
                           /\ low[q].overlap = next[q].overlap
                           /\ low[q].floor <= next[q].floor
    BY <2>2, <2>6, LoweredRequests
  <2>8. Overlaps(low) BY <2>5
  <2> HIDE DEF low
  <2>9. /\ request' \in [Proc -> Request]
        /\ \A q \in Proc :
              /\ request'[q].pc = low[q].pc /\ request'[q].kind = low[q].kind
              /\ request'[q].user = low[q].user /\ request'[q].floor = low[q].floor
              /\ request[q].pc \in {"fill", "done"} \/ low[q].overlap
                    => request'[q].overlap
    BY <2>7, <2>8, OverlapsRequests
  <2>10. \A q \in Proc \ {p} :
            /\ request'[q].pc = request[q].pc /\ request'[q].kind = request[q].kind
            /\ request'[q].user = request[q].user
            /\ request'[q].floor <= request[q].floor
            /\ request[q].overlap => request'[q].overlap
    BY <2>6, <2>7, <2>9
  <2>11. /\ request'[p].pc = "refresh" /\ request'[p].user = NoObj
         /\ request'[p].kind = request[p].kind
    BY <2>3, <2>6, <2>7, <2>9
  <2>12. \A q \in Proc : request'[q].floor <= pwd' BY <2>7, <2>9
  <2>13. Spared /\ obj' \in [Obj -> 0..MaxPwd] BY <1>2, <2>5, KeptSpares DEF Users
  <2>14. \A q \in Proc : request'[q].user \in Obj \cup {NoObj} BY <2>9 DEF Request
  <2>15. /\ \A q \in Proc : request'[q].user # NoObj => obj'[request'[q].user] = obj[request'[q].user]
         /\ cache # NoObj => obj'[cache] = obj[cache]
         /\ \A o \in Obj : obj'[o] \in {0, obj[o]}
    BY <1>2, <2>13, <2>14 DEF Spared, Users, AccountsTyped
  <2>16. Users'
    <3> USE DEF Users
    <3>1. AccountsTyped' BY <1>2, <2>2, <2>9, <2>13 DEF AccountsTyped
    <3>2. Serving' BY <1>2, <2>10, <2>11 DEF Serving, Serves
    <3>3. Referenced' BY <1>2, <2>10, <2>11, <2>15 DEF Referenced
    <3>4. Fresh' BY <1>2, <2>10, <2>11 DEF Fresh, At, Serving, Serves
    <3>5. Bounded'
      <4>1. \A o \in Obj : obj'[o] <= issued BY <2>15 DEF Bounded, AccountsTyped
      <4> QED BY <1>2, <2>2, <2>12, <4>1 DEF Bounded
    <3>6. ReadRight' BY <2>9, <2>10, <2>11 DEF ReadRight, At
    <3>7. cache # NoObj => outdated BY <1>2 DEF Storing, At
    <3>8. Storing' BY <1>2, <2>9, <2>10, <2>11, <3>7 DEF Storing, At
    <3>9. Current' /\ CacheTruth' BY <1>2, <3>7 DEF Current, CacheTruth
    <3>10. NotOlder'
      <4>1. ASSUME NEW q \in Proc, request'[q].pc = "done" PROVE request'[q].overlap
        BY <2>9, <2>10, <2>11, <4>1
      <4>2. ASSUME NEW q \in Proc, request'[q].pc = "test"
            PROVE  request'[q].overlap \/ obj'[request'[q].user] >= request'[q].floor
        <5>1. q # p /\ request[q].pc = "test" BY <2>10, <2>11, <4>2
        <5>2. request'[q].user = request[q].user /\ request[q].user # NoObj
          BY <2>10, <5>1 DEF Serving, Serves
        <5>3. obj'[request'[q].user] = obj[request[q].user] BY <2>15, <5>2
        <5>4. request[q].overlap \/ obj[request[q].user] >= request[q].floor
          BY <5>1 DEF NotOlder, At
        <5>5. request'[q].floor <= request[q].floor BY <2>10, <5>1
        <5>6. /\ obj[request[q].user] \in Nat
              /\ request[q].floor \in Nat /\ request'[q].floor \in Nat
          BY <1>3, <2>9, <5>2 DEF AccountsTyped, Request
        <5> QED BY <2>10, <5>1, <5>3, <5>4, <5>5, <5>6
      <4> QED BY <4>1, <4>2 DEF NotOlder, At
    <3> QED BY <3>1, <3>2, <3>3, <3>4, <3>5, <3>6, <3>8, <3>9, <3>10
  <2> QED BY <1>1, <2>16
<1> QED BY <1>4, <1>5 DEF StoreUser

-----------------------------------------------------------------------------
(* The environment *)

\* The time runs out of an entry of the cache.
LEMMA ExpireIInv ==
    ASSUME IInv, Expire
    PROVE  IInv'
<1> USE DEF IInv
<1>1. Sessions' BY SameSessions DEF Expire
<1>2. /\ cache' = NoObj /\ outdated' = FALSE /\ edited' = FALSE
      /\ request' = request /\ obj' = Kept(obj, NoObj)
      /\ UNCHANGED <<pwd, leader, tokens, issued, requests, restarts>>
  BY DEF Expire
<1>3. \A q \in Proc : request[q].user \in Obj \cup {NoObj}
  BY DEF Users, AccountsTyped, Request
<1>4. /\ obj' \in [Obj -> 0..MaxPwd]
      /\ \A o \in Obj : obj'[o] \in {0, obj[o]}
      /\ \A q \in Proc : request[q].user # NoObj => obj'[request[q].user] = obj[request[q].user]
  BY <1>2, <1>3 DEF Kept, Users, AccountsTyped
<1>5. Users'
  <2> USE DEF Users
  <2>1. AccountsTyped' BY <1>2, <1>4 DEF AccountsTyped
  <2>2. Serving' BY <1>2 DEF Serving
  <2>3. Referenced' BY <1>2, <1>4 DEF Referenced
  <2>4. Fresh' BY <1>2 DEF Fresh, At, Serving, Serves
  <2>5. Bounded'
    <3>1. \A o \in Obj : obj'[o] <= issued BY <1>4 DEF Bounded, AccountsTyped
    <3> QED BY <1>2, <3>1 DEF Bounded
  <2>6. ReadRight' BY <1>2, <1>4 DEF ReadRight, At, Serving, Serves
  <2>7. Storing' BY <1>2 DEF Storing, At
  <2>8. Current' /\ CacheTruth' BY <1>2 DEF Current, CacheTruth
  <2>9. NotOlder' BY <1>2, <1>4 DEF NotOlder, At, Serving, Serves
  <2> QED BY <2>1, <2>2, <2>3, <2>4, <2>5, <2>6, <2>7, <2>8, <2>9
<1> QED BY <1>1, <1>5

\* A restart empties the caches, ends the requests and keeps the tables.
LEMMA RestartIInv ==
    ASSUME IInv, Restart
    PROVE  IInv'
<1> USE DEF IInv
<1>1. Sessions'
  <2>1. NoVisit(AnyDevice) \in Visit /\ ~NoVisit(AnyDevice).counted /\ NoVisit(AnyDevice).pc = "none"
    BY AnyDeviceType DEF NoVisit, Visit, VisitPc
  <2>2. VisitsTyped' BY <2>1 DEF Restart, VisitsTyped
  <2>3. \A q \in Proc : Quiet(q) BY <2>1 DEF Restart, Quiet
  <2> QED BY <2>2, <2>3, VisitsSessions DEF Restart
<1>2. /\ restarts < MaxRestarts /\ restarts' = restarts + 1
      /\ obj' = [o \in Obj |-> 0] /\ cache' = NoObj /\ leader' = Nobody
      /\ tokens' = {} /\ request' = [p \in Proc |-> NoRequest]
      /\ outdated' = FALSE /\ edited' = FALSE
      /\ UNCHANGED <<pwd, issued, requests>>
  BY DEF Restart
<1>3. NoRequest.pc = "idle" /\ NoRequest.user = NoObj /\ NoRequest.floor = 0
  BY DEF NoRequest
<1>4. pwd \in Nat /\ issued \in Nat /\ restarts \in 0..MaxRestarts
  BY DEF Users, AccountsTyped
<1>5. Users'
  <2>1. AccountsTyped'
    <3>1. request' \in [Proc -> Request] BY <1>2, NoRequestServes
    <3>2. restarts' \in 0..MaxRestarts BY <1>2, <1>4
    <3>3. obj' \in [Obj -> 0..MaxPwd] /\ tokens' \subseteq 1..MaxPwd BY <1>2
    <3> QED BY <1>2, <3>1, <3>2, <3>3 DEF AccountsTyped, Users
  <2>2. Serving' BY <1>2, NoRequestServes DEF Serving
  <2>3. /\ Referenced' /\ Fresh' /\ ReadRight' /\ NotOlder' /\ Storing'
        /\ Current' /\ CacheTruth'
    BY <1>2, <1>3 DEF Referenced, Fresh, ReadRight, NotOlder, Storing, Current, CacheTruth, At
  <2>4. Bounded'
    <3>1. \A o \in Obj : obj'[o] <= issued BY <1>2, <1>4
    <3>2. \A q \in Proc : request'[q].floor <= pwd BY <1>2, <1>3, <1>4
    <3> QED BY <1>2, <3>1, <3>2 DEF Bounded, Users
  <2> QED BY <2>1, <2>2, <2>3, <2>4 DEF Users
<1> QED BY <1>1, <1>5

-----------------------------------------------------------------------------
(* The theorems *)

\* Every step keeps the invariant.
LEMMA NextIInv == IInv /\ [Next]_vars => IInv'
<1> SUFFICES ASSUME IInv, [Next]_vars PROVE IInv' OBVIOUS
<1>1. ASSUME NEW p \in Proc, Begin(p) PROVE IInv' BY <1>1, BeginIInv
<1>2. ASSUME NEW p \in Proc, Handle(p) PROVE IInv'
  BY <1>2, CacheHitIInv, CacheMissIInv, JoinFlightIInv, LoadUserIInv, FillCacheIInv,
     LeaveFlightIInv, TestUserIInv, SessionStepIInv, PassedIInv, TurnedAwayIInv,
     TokenIInv, LogOutIInv, ForgetTokenIInv, EvictMySessionIInv, EditUserIInv,
     OldUserIInv, UncacheIInv, StoreUserIInv, SessionRefreshIInv DEF Handle
<1>3. ASSUME NEW d \in Device, EvictSession(d) PROVE IInv' BY <1>3, EvictSessionIInv
<1>4. CASE Expire BY <1>4, ExpireIInv
<1>5. CASE Restart BY <1>5, RestartIInv
<1>6. CASE UNCHANGED vars
  <2>1. UNCHANGED sessionVars /\ UNCHANGED accountVars
    BY <1>6 DEF vars, sessionVars, accountVars
  <2> QED BY <2>1, SameSessions, SameUsers DEF IInv
<1> QED BY <1>1, <1>2, <1>3, <1>4, <1>5, <1>6 DEF Next

\* The inductive invariant: what the sessions promise, and what the users do.
THEOREM Invariant == Spec => []IInv
BY InitIInv, NextIInv, PTL DEF Spec

\* Each variable keeps its type, and a device has at most one session.
THEOREM TypeCorrect == Spec => []TypeOK
<1>1. IInv => TypeOK
  BY DEF IInv, Sessions, Users, TableTyped, VisitsTyped, HistoryTyped, AccountsTyped,
         TypeOK, Session, Visit, Request
<1> QED BY <1>1, Invariant, PTL

\* No user has more active sessions than max_devices, unless a session became
\* active on an outdated count (session.go:43, 77, 107).
THEOREM SessionsLimited == Spec => []DeviceLimit
<1>1. IInv => DeviceLimit BY DEF IInv, Sessions, Room, DeviceLimit
<1> QED BY <1>1, Invariant, PTL

\* A device that was put out has no active session before its next login, unless
\* its row was written back or deleted (session.go:65).
THEOREM OutStaysOut == Spec => []PutOutStaysOut
<1>1. IInv => PutOutStaysOut BY DEF IInv, Sessions
<1> QED BY <1>1, Invariant, PTL

\* The cached user has the password of the table, unless a change is under way or
\* failed, or overlapped with the read of the user (user.go:99, 159-172).
THEOREM CacheTrue == Spec => []CacheTruth
<1>1. IInv => CacheTruth BY DEF IInv, Users
<1> QED BY <1>1, Invariant, PTL

\* Only the test of a password or token lets a request come to the check of its
\* device, and it lets nothing outdated through.
LEMMA OldRefusedStep ==
    ASSUME IInv, [Next]_vars, NEW p \in Proc, ~At(p, "device"), At(p, "device")'
    PROVE  request[p].pwd >= request[p].floor \/ request[p].overlap
<1>1. request[p].pc # "device" /\ request'[p].pc = "device" BY DEF At
<1>2. request \in [Proc -> Request] /\ AccountsTyped BY DEF IInv, Users, AccountsTyped
<1>3. NoRequest.pc = "idle" BY DEF NoRequest
<1>4. ASSUME NEW q \in Proc, TestUser(q)
      PROVE  request[p].pwd >= request[p].floor \/ request[p].overlap
  <2>1. \E r : request' = [request EXCEPT ![q] = r] BY <1>2, <1>4, TestedRequest
  <2>2. q = p BY <1>1, <1>2, <2>1
  <2>3. request' # [request EXCEPT ![p] = NoRequest] BY <1>1, <1>2, <1>3
  <2>4. request[p].pc = "test" /\ request[p].pwd = obj[request[p].user]
    BY <1>2, <1>4, <2>2, <2>3, TestedRequest
  <2> QED BY <2>4 DEF IInv, Users, NotOlder, At
<1>7. ASSUME NEW q \in Proc, NEW pc, pc # "device", Goes(q, pc) PROVE FALSE
  BY <1>1, <1>2, <1>7 DEF Goes
<1>8. ASSUME NEW q \in Proc, Ends(q) PROVE FALSE
  BY <1>1, <1>2, <1>3, <1>8 DEF Ends
<1>9. ASSUME NEW q \in Proc, LeavesUser(q) PROVE FALSE
  BY <1>1, <1>2, <1>9 DEF LeavesUser
<1>10. ASSUME request' = request PROVE FALSE BY <1>1, <1>10
<1>5. ASSUME NEW q \in Proc, NEW user, NEW overlap, request[q].pc # "device"
      PROVE  Gets(q, user, overlap).pc = "test"
  BY <1>2 DEF Gets, Request
<1>6. ASSUME NEW q \in Proc, NEW user, NEW overlap,
             request' = [request EXCEPT ![q] = Gets(q, user, overlap)]
      PROVE  FALSE
  <2>1. Gets(q, user, overlap).pc = "test" BY <1>2 DEF Gets, Request
  <2> QED BY <1>1, <1>2, <1>6, <2>1
<1>11. ASSUME NEW q \in Proc, Begin(q) PROVE FALSE
  <2>1. CASE \E d \in Device : \E typed \in 1..issued :
                request' = [request EXCEPT ![q] =
                    [NoRequest EXCEPT !.pc = "user", !.kind = "login", !.dev = d,
                                      !.pwd = typed, !.floor = pwd]]
    BY <1>1, <1>2, <2>1 DEF NoRequest
  <2>2. CASE \E d \in Device :
                \E kind \in {"plain", "logout", "evict", "password"}, time \in tokens :
                   request' = [request EXCEPT ![q] =
                       [NoRequest EXCEPT !.pc = "user", !.kind = kind, !.dev = d,
                                         !.pwd = time, !.floor = pwd]]
    BY <1>1, <1>2, <2>2 DEF NoRequest
  <2> QED BY <1>11, <2>1, <2>2 DEF Begin
<1>12. ASSUME NEW q \in Proc, CacheHit(q) \/ JoinFlight(q) PROVE FALSE
  <2>1. CASE CacheHit(q) BY <1>6, <2>1 DEF CacheHit
  <2>2. CASE JoinFlight(q) BY <1>6, <1>7, <2>2 DEF JoinFlight
  <2> QED BY <1>12, <2>1, <2>2
<1>13. ASSUME NEW q \in Proc, Passed(q) PROVE FALSE
  <2>1. request[q] \in Request /\ request[q].kind # "none"
    BY <1>2, <1>13 DEF IInv, Users, Serving, Serves, Passed, At
  <2>2. (IF request[q].kind = "plain" THEN "refresh" ELSE request[q].kind) # "device"
    BY <2>1 DEF Request
  <2> QED BY <1>7, <1>13, <2>2 DEF Passed
<1>14. ASSUME NEW q \in Proc, LoadUser(q) PROVE FALSE
  BY <1>1, <1>2, <1>14 DEF LoadUser
<1>22. ASSUME NEW q \in Proc, FillCache(q) PROVE FALSE
  <2> DEFINE r == [request[q] EXCEPT !.pc = "done"]
             g == Gets(p, request[q].user, request[q].overlap)
  <2>1. r.pc = "done" BY <1>2 DEF Request
  <2>2. g.pc = "test" BY <1>1, <1>5
  <2>3. request' = [t \in Proc |->
           CASE t = q -> r
             [] t # q /\ At(t, "wait") -> Gets(t, request[q].user, request[q].overlap)
             [] OTHER -> request[t]]
    BY <1>22 DEF FillCache
  <2>4. g = Gets(p, request[q].user, request[q].overlap) OBVIOUS
  <2> HIDE DEF r, g
  <2>5. request'[p] \in {r, g, request[p]} BY <2>3, <2>4
  <2> QED BY <1>1, <2>1, <2>2, <2>5
<1>15. ASSUME NEW q \in Proc, Uncache(q) PROVE FALSE
  BY <1>1, <1>2, <1>15 DEF Uncache, Overlaps
<1>16. ASSUME NEW q \in Proc, StoreUser(q) PROVE FALSE
  <2> DEFINE next == [request EXCEPT ![q].pc = "refresh", ![q].user = NoObj]
             r == [request[q] EXCEPT !.pc = "refresh", !.user = NoObj]
  <2>1. CASE pwd' = obj[request[q].user] /\ Overlaps(Lowered(next, pwd'))
    <3>1. request[q] \in Request /\ request[q].user # NoObj
      BY <1>2, <1>16 DEF StoreUser, At, IInv, Users, Serving, Serves
    <3>2. pwd' \in 0..MaxPwd BY <1>2, <2>1, <3>1 DEF AccountsTyped, Request
    <3>3. r \in Request /\ r.pc = "refresh" BY <3>1 DEF Request, RequestPc
    <3>4. next = [request EXCEPT ![q] = r] /\ Overlaps(Lowered(next, pwd')) BY <2>1
    <3> HIDE DEF r, next
    <3>5. next \in [Proc -> Request] /\ next[p].pc # "device" BY <1>1, <1>2, <3>3, <3>4
    <3> DEFINE low == Lowered(next, pwd')
    <3>6. low \in [Proc -> Request] /\ low[p].pc = next[p].pc
      BY <3>2, <3>5, LoweredRequests
    <3>7. Overlaps(low) BY <3>4
    <3> HIDE DEF low
    <3>8. request'[p].pc = low[p].pc BY <3>6, <3>7, OverlapsRequests
    <3> QED BY <1>1, <3>5, <3>6, <3>8
  <2> QED BY <1>9, <1>16, <2>1 DEF StoreUser
<1>17. ASSUME NEW q \in Proc, Handle(q), ~TestUser(q) PROVE FALSE
  <2>1. CASE CacheMiss(q) \/ LeaveFlight(q) BY <1>7, <2>1 DEF CacheMiss, LeaveFlight
  <2>2. CASE SessionStep(q) BY <1>10, <2>2 DEF SessionStep, accountVars
  <2>3. CASE TurnedAway(q) BY <1>8, <2>3 DEF TurnedAway
  <2>4. CASE LogOut(q) BY <1>7, <2>4 DEF LogOut
  <2>5. CASE ForgetToken(q) \/ Token(q) BY <1>8, <2>5 DEF ForgetToken, Token
  <2>6. CASE EvictMySession(q) BY <1>7, <2>6 DEF EvictMySession
  <2>7. CASE EditUser(q) BY <1>7, <2>7 DEF EditUser
  <2>8. CASE OldUser(q) BY <1>7, <1>9, <2>8 DEF OldUser
  <2>9. CASE SessionRefresh(q) BY <1>8, <2>9 DEF SessionRefresh
  <2> QED BY <1>12, <1>13, <1>14, <1>15, <1>16, <1>17, <1>22, <2>1, <2>2, <2>3, <2>4, <2>5,
             <2>6, <2>7, <2>8, <2>9 DEF Handle
<1>18. ASSUME NEW d \in Device, EvictSession(d) PROVE FALSE
  BY <1>10, <1>18 DEF EvictSession, accountVars
<1>19. CASE Expire BY <1>10, <1>19 DEF Expire
<1>20. CASE Restart BY <1>1, <1>3, <1>20 DEF Restart
<1>21. CASE UNCHANGED vars BY <1>10, <1>21 DEF vars, accountVars
<1> QED BY <1>4, <1>11, <1>17, <1>18, <1>19, <1>20, <1>21 DEF Next

\* A password or token older than every one the table had since the request came
\* is refused, except by a user whose reading a change overlapped
\* (middlewares/auth.go:79).
THEOREM OldAreRefused == Spec => OldRefused
<1>1. IInv /\ [Next]_vars =>
         [\A p \in Proc :
             ~At(p, "device") /\ At(p, "device")' =>
                 request[p].pwd >= request[p].floor \/ request[p].overlap]_vars
  BY OldRefusedStep
<1> QED BY <1>1, Invariant, PTL DEF Spec, OldRefused

=============================================================================
