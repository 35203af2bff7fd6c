--------------------------- MODULE DeviceSessions ---------------------------
(***************************************************************************)
(* The device sessions of one user (internal/device/session.go): every     *)
(* request and every login looks its device up in the table of sessions,   *)
(* and a device without an active session gets one if the user may have    *)
(* another.  Each database statement is one step.                          *)
(*                                                                         *)
(* The table is the sequence of its rows in the order of last_active: a    *)
(* write of now puts the row at the end.  The callers are in module        *)
(* Accounts.                                                               *)
(***************************************************************************)
EXTENDS Integers, Sequences, FiniteSets

CONSTANTS
    Proc,        \* the goroutines that serve requests
    Device,      \* device keys of the user
    MaxDevices,  \* setting max_devices, 0 for no limit
    Policies,    \* what the setting device_evict_policy may say
    MaxPurges    \* bound: how often sessions outlive device_session_ttl

ASSUME SessionsAssumption ==
    /\ {MaxDevices, MaxPurges} \subseteq Nat
    /\ Policies \subseteq {"deny", "evict_oldest"}
    /\ Device # {}

VARIABLES
    rows,     \* the table of sessions
    purges,   \* how often the ttl passed
    visit,    \* where each goroutine stands in the check of its device
    out,      \* history: devices put out since they last logged in
    revived,  \* history: those whose session came back with no login
    raced     \* history: a session became active on an outdated count

sessionVars == <<rows, purges, visit, out, revived, raced>>

\* pc: the next statement.  login: within EnsureActiveOnLogin.  found: the
\* status that was read.  counted: the sessions were counted, and stale: one
\* became active since.
NoVisit(d) == [pc |-> "none", dev |-> d, login |-> FALSE, victim |-> d,
               found |-> "none", counted |-> FALSE, stale |-> FALSE]

AnyDevice == CHOOSE d \in Device : TRUE

SessionsInit ==
    /\ rows = <<>>
    /\ purges = 0
    /\ visit = [p \in Proc |-> NoVisit(AnyDevice)]
    /\ out = {}
    /\ revived = {}
    /\ raced = FALSE

-----------------------------------------------------------------------------
(* The statements of internal/db/session.go *)

Row(d) == {i \in DOMAIN rows : rows[i].dev = d}

Place(d) == CHOOSE i \in Row(d) : TRUE

Status(d) == IF Row(d) = {} THEN "none" ELSE rows[Place(d)].status

Active == {d \in Device : Status(d) = "active"}

\* The table without the row of d
Others(d) ==
    IF Row(d) = {} THEN rows
    ELSE [i \in 1..(Len(rows) - 1) |-> IF i < Place(d) THEN rows[i] ELSE rows[i + 1]]

\* UpdateSessionLastActive
Touched(d) == IF Row(d) = {} THEN rows ELSE Append(Others(d), rows[Place(d)])

\* Mutant: the row is inserted without regard to the key.
Stored_Twice(d) == Append(rows, [dev |-> d, status |-> "active"])

\* CreateSession and UpsertSession, of an active session
Stored(d) == Append(Others(d), [dev |-> d, status |-> "active"])

\* MarkInactive
Marked(d) ==
    [i \in DOMAIN rows |->
        IF rows[i].dev = d THEN [dev |-> d, status |-> "inactive"] ELSE rows[i]]

\* DeleteSessionsBefore: the rows that were not used for long
Purged(n) == SubSeq(rows, n + 1, Len(rows))

-----------------------------------------------------------------------------
(* Handle and EnsureActiveOnLogin *)

Standing(p, pc) == visit[p].pc = pc

Then(p, pc) == visit' = [visit EXCEPT ![p].pc = pc]

\* Handle begins by deleting the sessions that are too old.
Purge(p) ==
    /\ Standing(p, "purge")
    /\ Then(p, "get")
    /\ \E n \in 0..Len(rows) :
          /\ n > 0 => purges < MaxPurges
          /\ rows' = Purged(n)
          /\ purges' = IF n > 0 THEN purges + 1 ELSE purges
    /\ UNCHANGED <<out, revived, raced>>

Unlimited == MaxDevices = 0

\* Mutant: Handle takes an inactive session for a device to be counted anew.
AfterGet_Lenient(p) ==
    CASE Status(visit[p].dev) = "active" -> "save"
      [] Status(visit[p].dev) # "active" /\ ~Unlimited -> "count"
      [] OTHER -> "save"

\* Where the row that was found leads
AfterGet(p) ==
    CASE Status(visit[p].dev) = "active" -> "save"
      [] Status(visit[p].dev) = "inactive" /\ ~visit[p].login -> "inactive"
      [] Status(visit[p].dev) # "active" /\ ~Unlimited
             /\ (visit[p].login \/ Status(visit[p].dev) = "none") -> "count"
      [] OTHER -> "save"

GetSession(p) ==
    /\ Standing(p, "get")
    /\ visit' = [visit EXCEPT ![p].pc = AfterGet(p),
                              ![p].found = Status(visit[p].dev)]
    /\ UNCHANGED <<rows, purges, out, revived, raced>>

\* Mutant: one device too many.
Full_OneMore == Cardinality(Active) > MaxDevices

Full == Cardinality(Active) >= MaxDevices

CountSessions(p) ==
    /\ Standing(p, "count")
    /\ \E policy \in Policies :
          visit' = [visit EXCEPT ![p].counted = TRUE,
                                 ![p].stale = FALSE,
                                 ![p].pc = CASE ~Full -> "save"
                                             [] Full /\ policy = "deny" -> "denied"
                                             [] OTHER -> "oldest"]
    /\ UNCHANGED <<rows, purges, out, revived, raced>>

\* The active session that was used least recently, if there is one
GetOldest(p) ==
    LET actives == {i \in DOMAIN rows : rows[i].status = "active"}
    IN  /\ Standing(p, "oldest")
        /\ \/ actives = {} /\ Then(p, "save")
           \/ \E oldest \in actives :
                 /\ \A i \in actives : oldest <= i
                 /\ visit' = [visit EXCEPT ![p].pc = "evict",
                                          ![p].victim = rows[oldest].dev]
        /\ UNCHANGED <<rows, purges, out, revived, raced>>

\* Whoever marks d inactive puts it out.
MarkInactive(d) ==
    /\ rows' = Marked(d)
    /\ out' = IF Row(d) = {} THEN out ELSE out \cup {d}
    /\ revived' = revived \ {d}

Evict(p) ==
    /\ Standing(p, "evict")
    /\ MarkInactive(visit[p].victim)
    /\ Then(p, "save")
    /\ UNCHANGED <<purges, raced>>

\* A row found is written back as active, whatever became of it meanwhile; a
\* new row fails if another request made it first.
Save(p) ==
    LET d == visit[p].dev
        wakes == Status(d) # "active"
        fails == visit[p].found = "none" /\ Row(d) # {}
    IN  /\ Standing(p, "save")
        /\ IF fails
           THEN /\ Then(p, "failed")
                /\ UNCHANGED <<rows, out, revived, raced>>
           ELSE /\ rows' = Stored(d)
                /\ visit' = [q \in Proc |->
                       IF q = p THEN [NoVisit(d) EXCEPT !.pc = "passed",
                                                            !.login = visit[p].login]
                       ELSE [visit[q] EXCEPT !.stale = @ \/ (wakes /\ visit[q].counted)]]
                /\ out' = IF visit[p].login THEN out \ {d} ELSE out
                /\ revived' = CASE visit[p].login -> revived \ {d}
                                [] ~visit[p].login /\ d \in out
                                       /\ visit[p].found # "inactive" -> revived \cup {d}
                                [] OTHER -> revived
                /\ raced' = (raced \/ (wakes /\ (~visit[p].counted \/ visit[p].stale)))
        /\ UNCHANGED purges

CheckDevice(p) ==
    Purge(p) \/ GetSession(p) \/ CountSessions(p) \/ GetOldest(p) \/ Evict(p) \/ Save(p)

\* Refresh, after a request that was let in
Refresh(d) == rows' = Touched(d)

=============================================================================
