------------------------ MODULE Singleflight_proofs ------------------------
(***************************************************************************)
(* Safety proofs about Singleflight: its invariants hold for any number of *)
(* keys, callers and call structures, and it implements Dedup.             *)
(***************************************************************************)
EXTENDS Singleflight, TLAPS

\* A blocked caller waits for a call structure.
BlockedOnCall == \A p \in Caller : Blocked(p) => caller[p].call \in Call

\* A call that two callers refer to has counted a duplicate.
DupsCounted ==
    \A p, q \in Caller :
        p # q /\ caller[p].call \in Call /\ caller[p].call = caller[q].call
        => call[caller[p].call].dups > 0

\* Only the closing of a call hands out results that are not shared, and only
\* when the call has no duplicate.
UnsharedClosed ==
    \A p \in Caller :
        ~Blocked(p) /\ ~caller[p].shared /\ caller[p].call \in Call
        => call[caller[p].call].phase = "closed" /\ call[caller[p].call].dups = 0

\* A call has an outcome exactly from the end of its function on.
OutcomeKnown ==
    /\ \A c \in Call : call[c].phase = "running" => call[c].outcome = NoOutcome
    /\ \A p \in Caller :
          caller[p].call \in Call /\ call[caller[p].call].phase # "running"
          => call[caller[p].call].outcome # NoOutcome

\* A channel that is still to be answered belongs to a caller that waits for it.
ChannelsWait ==
    \A c \in Call, p \in Caller :
        call[c].phase # "closed" /\ p \in call[c].chans
        => caller[p].call = c /\ caller[p].pc = "chan"

IInv ==
    /\ TypeOK
    /\ FlightsRegistered
    /\ CallsReferenced
    /\ BlockedOnCall
    /\ DupsCounted
    /\ UnsharedClosed
    /\ OutcomeKnown
    /\ ChannelsWait

\* The definitions that unfold a state into its parts
USE DEF Blocked, CallRecord, CallerRecord, Outcome, NoOutcome

-----------------------------------------------------------------------------
\* Initially nobody refers to a call structure.
LEMMA InitIInv == Init => IInv
<1> SUFFICES ASSUME Init PROVE IInv OBVIOUS
<1> USE SentinelAssumption DEF Init
<1>1. TypeOK BY DEF TypeOK, Unused, NewCall
<1>2. FlightsRegistered BY DEF FlightsRegistered, Unused, NewCall
<1>3. CallsReferenced BY DEF CallsReferenced, Unused, NewCall
<1>4. BlockedOnCall BY DEF BlockedOnCall
<1>5. DupsCounted BY DEF DupsCounted
<1>6. UnsharedClosed BY DEF UnsharedClosed
<1>7. OutcomeKnown BY DEF OutcomeKnown, Unused, NewCall
<1>8. ChannelsWait BY DEF ChannelsWait, Unused
<1> QED BY <1>1, <1>2, <1>3, <1>4, <1>5, <1>6, <1>7, <1>8 DEF IInv

\* Turning to another call keeps every call that is not closed: some blocked
\* goroutine other than the one that turns refers to it.
LEMMA StillInUse ==
    ASSUME IInv, NEW p \in Caller, caller[p].pc = "ready",
           NEW c \in Call, call[c].phase # "closed"
    PROVE  c \in InUse(p)
BY DEF IInv, CallsReferenced, InUse


\* The records of a call that p joins and of a call that p launches, and what
\* turning to it does to the state.
LEMMA TurnsType ==
    ASSUME TypeOK, NEW p \in Caller, NEW pc \in {"wait", "lead", "chan"},
           NEW c \in Call, NEW record \in CallRecord, Turns(p, pc, c, record)
    PROVE  /\ call' \in [Call -> CallRecord]
           /\ caller' \in [Caller -> CallerRecord]
           /\ caller'[p] = [pc |-> pc, call |-> c, shared |-> FALSE]
           /\ \A q \in Caller \ {p} : caller'[q] = caller[q]
           /\ call'[c] = record
           /\ \A d \in InUse(p) \ {c} : d \in Call => call'[d] = call[d]
           /\ \A d \in Call \ {c} : d \notin InUse(p) => call'[d] = Unused
<1>1. Unused \in CallRecord BY DEF Unused
<1>2. call' \in [Call -> CallRecord] BY <1>1 DEF Turns, TypeOK
<1>3. caller' \in [Caller -> CallerRecord] BY DEF Turns, TypeOK
<1> QED BY <1>2, <1>3 DEF Turns, TypeOK

\* A ready caller that joins the call in flight is its duplicate.
LEMMA JoinIInv ==
    ASSUME IInv, NEW p \in Caller, NEW k \in Key, caller[p].pc = "ready",
           NEW pc \in {"wait", "chan"}, NEW ch \in SUBSET Caller,
           ch = {} \/ (ch = {p} /\ pc = "chan"),
           Join(p, k, pc, ch), crashed' = crashed
    PROVE  IInv'
<1> USE SentinelAssumption
<1> DEFINE c == m[k]
           record == [call[c] EXCEPT !.dups = @ + 1, !.chans = @ \cup ch]
<1>1. /\ c \in Call /\ call[c].key = k
      /\ call[c].phase # "closed" /\ ~call[c].forgotten
  BY DEF IInv, TypeOK, FlightsRegistered, Join
<1>2. /\ record \in CallRecord /\ record.dups > 0 /\ record.phase = call[c].phase
      /\ record.key = k /\ ~record.forgotten /\ record.outcome = call[c].outcome
      /\ record.chans = call[c].chans \cup ch
  <2> DEFINE r == call[c]
  <2>1. r \in CallRecord BY <1>1 DEF IInv, TypeOK
  <2>2. /\ r.dups \in Nat /\ r.dups + 1 \in Nat /\ r.dups + 1 > 0
        /\ r.chans \cup ch \in SUBSET Caller
    BY <2>1
  <2>3. record = [r EXCEPT !.dups = r.dups + 1, !.chans = r.chans \cup ch]
    OBVIOUS
  <2>4. r.key = k /\ r.forgotten = FALSE BY <1>1, <2>1
  <2> HIDE DEF r, c
  <2>5. PICK counted : counted = [r EXCEPT !.dups = r.dups + 1] OBVIOUS
  <2>6. record = [counted EXCEPT !.chans = r.chans \cup ch]
    BY <2>3, <2>5, Zenon
  <2>7. /\ counted \in CallRecord /\ counted.key = r.key
        /\ counted.phase = r.phase /\ counted.forgotten = r.forgotten
        /\ counted.outcome = r.outcome /\ counted.dups = r.dups + 1
    BY <2>1, <2>2, <2>5
  <2> HIDE DEF record
  <2> QED BY <2>2, <2>4, <2>6, <2>7 DEF r
<1>3. Turns(p, pc, c, record) /\ m' = m BY DEF Join
<1>4. TypeOK BY DEF IInv
<1> HIDE DEF c, record
<1>5. /\ call' \in [Call -> CallRecord]
      /\ caller' \in [Caller -> CallerRecord]
      /\ caller'[p] = [pc |-> pc, call |-> c, shared |-> FALSE]
      /\ \A q \in Caller \ {p} : caller'[q] = caller[q]
      /\ call'[c] = record
      /\ \A d \in InUse(p) \ {c} : d \in Call => call'[d] = call[d]
      /\ \A d \in Call \ {c} : d \notin InUse(p) => call'[d] = Unused
  BY <1>1, <1>2, <1>3, <1>4, TurnsType
<1>6. \A d \in Call : call[d].phase # "closed" => d \in InUse(p) BY StillInUse
<1>7. \A d \in Call : call'[d].phase # "closed" =>
         call[d].phase # "closed" /\ d \in InUse(p)
  BY <1>1, <1>5, <1>6 DEF Unused
<1>8. \A d \in Call : d \in InUse(p) =>
         /\ call'[d].key = call[d].key /\ call'[d].forgotten = call[d].forgotten
         /\ call'[d].phase = call[d].phase /\ call'[d].outcome = call[d].outcome
  <2>1. call'[c].forgotten = call[c].forgotten
    BY <1>1, <1>2, <1>4, <1>5 DEF TypeOK
  <2> QED BY <1>1, <1>2, <1>5, <2>1
<1>9. TypeOK' BY <1>3, <1>4, <1>5 DEF TypeOK
<1>10. FlightsRegistered'
  BY <1>3, <1>4, <1>6, <1>7, <1>8 DEF IInv, FlightsRegistered, TypeOK
<1>11. CallsReferenced'
  BY <1>5, <1>7 DEF IInv, CallsReferenced
<1>12. BlockedOnCall'
  BY <1>1, <1>5 DEF IInv, BlockedOnCall
<1>13. \A q \in Caller \ {p} : caller[q].call \in InUse(p) BY DEF InUse
<1>14. DupsCounted'
  BY <1>2, <1>5, <1>13 DEF IInv, DupsCounted
<1>15. UnsharedClosed'
  BY <1>1, <1>2, <1>5, <1>13 DEF IInv, UnsharedClosed
<1>16. OutcomeKnown'
  <2>1. call[c].phase # "running" => call[c].outcome # NoOutcome
    BY <1>1 DEF IInv, OutcomeKnown, CallsReferenced
  <2>2. ASSUME NEW d \in Call, call'[d].phase = "running"
        PROVE  call'[d].outcome = NoOutcome
    BY <1>7, <1>8, <2>2 DEF IInv, OutcomeKnown
  <2>3. ASSUME NEW q \in Caller, caller'[q].call \in Call,
               call'[caller'[q].call].phase # "running"
        PROVE  call'[caller'[q].call].outcome # NoOutcome
    <3>1. CASE caller'[q].call = c BY <1>2, <1>5, <2>1, <2>3, <3>1
    <3>2. CASE caller'[q].call # c
      BY <1>5, <1>13, <2>3, <3>2 DEF IInv, OutcomeKnown
    <3> QED BY <3>1, <3>2
  <2> QED BY <2>2, <2>3 DEF OutcomeKnown
<1>17. ChannelsWait'
  <2> SUFFICES ASSUME NEW d \in Call, NEW q \in Caller,
                      call'[d].phase # "closed", q \in call'[d].chans
               PROVE  caller'[q].call = d /\ caller'[q].pc = "chan"
    BY DEF ChannelsWait
  <2>1. CASE q \in call[d].chans
    BY <1>5, <1>7, <2>1 DEF IInv, ChannelsWait
  <2>2. CASE q \notin call[d].chans
    <3>1. d = c /\ q = p /\ pc = "chan" BY <1>1, <1>2, <1>5, <1>7, <2>2
    <3> QED BY <1>5, <3>1
  <2> QED BY <2>1, <2>2
<1> QED BY <1>9, <1>10, <1>11, <1>12, <1>14, <1>15, <1>16, <1>17 DEF IInv

\* A ready caller that finds no call in flight starts one nobody refers to.
LEMMA LaunchIInv ==
    ASSUME IInv, NEW p \in Caller, NEW k \in Key, caller[p].pc = "ready",
           NEW pc \in {"lead", "chan"}, NEW ch \in SUBSET Caller,
           ch = {} \/ (ch = {p} /\ pc = "chan"),
           Launch(p, k, pc, ch), crashed' = crashed
    PROVE  IInv'
<1> USE SentinelAssumption
<1>1. PICK c \in Call \ InUse(p) :
         m' = [m EXCEPT ![k] = c] /\ Turns(p, pc, c, NewCall(k, ch))
  BY DEF Launch
<1>2. m[k] = NoCall BY DEF Launch
<1> DEFINE record == NewCall(k, ch)
<1>3. /\ record \in CallRecord /\ record.phase = "running" /\ record.key = k
      /\ ~record.forgotten /\ record.outcome = NoOutcome /\ record.chans = ch
  BY DEF NewCall
<1>4. TypeOK BY DEF IInv
<1> HIDE DEF record
<1>5. /\ call' \in [Call -> CallRecord]
      /\ caller' \in [Caller -> CallerRecord]
      /\ caller'[p] = [pc |-> pc, call |-> c, shared |-> FALSE]
      /\ \A q \in Caller \ {p} : caller'[q] = caller[q]
      /\ call'[c] = record
      /\ \A d \in InUse(p) \ {c} : d \in Call => call'[d] = call[d]
      /\ \A d \in Call \ {c} : d \notin InUse(p) => call'[d] = Unused
  BY <1>1, <1>3, <1>4, TurnsType DEF record
<1>6. \A d \in Call : call[d].phase # "closed" => d \in InUse(p) BY StillInUse
<1>7. \A d \in Call \ {c} : call'[d].phase # "closed" =>
         d \in InUse(p) /\ call'[d] = call[d]
  BY <1>5 DEF Unused
<1>8. \A d \in Call \ {c} : call[d].phase # "closed" => call'[d] = call[d]
  BY <1>5, <1>6
<1>9. TypeOK' BY <1>1, <1>4, <1>5 DEF TypeOK
<1>10. FlightsRegistered'
  <2>1. ASSUME NEW d \in Call, call'[d].phase # "closed", ~call'[d].forgotten
        PROVE  call'[d].key \in Key /\ m'[call'[d].key] = d
    <3>1. CASE d = c BY <1>1, <1>3, <1>4, <1>5, <3>1 DEF TypeOK
    <3>2. CASE d # c
      <4>1. call[d].key \in Key /\ m[call[d].key] = d /\ call'[d] = call[d]
        BY <1>7, <2>1, <3>2 DEF IInv, FlightsRegistered
      <4>2. call[d].key # k BY <1>2, <4>1
      <4> QED BY <1>1, <1>4, <4>1, <4>2 DEF TypeOK
    <3> QED BY <3>1, <3>2
  <2>2. ASSUME NEW l \in Key, m'[l] # NoCall
        PROVE  /\ call'[m'[l]].key = l /\ call'[m'[l]].phase # "closed"
               /\ ~call'[m'[l]].forgotten
    <3>1. CASE l = k BY <1>1, <1>3, <1>4, <1>5, <3>1 DEF TypeOK
    <3>2. CASE l # k
      <4>1. m'[l] = m[l] /\ m[l] \in Call
        BY <1>1, <1>4, <2>2, <3>2 DEF TypeOK
      <4>2. /\ call[m[l]].key = l /\ call[m[l]].phase # "closed"
            /\ ~call[m[l]].forgotten
        BY <2>2, <4>1 DEF IInv, FlightsRegistered
      <4>3. m[l] # c BY <1>6, <4>1, <4>2
      <4> QED BY <1>8, <4>1, <4>2, <4>3
    <3> QED BY <3>1, <3>2
  <2> QED BY <2>1, <2>2 DEF FlightsRegistered
<1>11. CallsReferenced'
  <2> SUFFICES ASSUME NEW d \in Call, call'[d].phase # "closed"
               PROVE  \E q \in Caller :
                         caller'[q].call = d /\ caller'[q].pc \in {"lead", "chan"}
    BY DEF CallsReferenced
  <2>1. CASE d = c BY <1>5, <2>1
  <2>2. CASE d # c BY <1>5, <1>7, <2>2 DEF IInv, CallsReferenced
  <2> QED BY <2>1, <2>2
<1>12. BlockedOnCall' BY <1>1, <1>5 DEF IInv, BlockedOnCall
<1>13. \A q \in Caller \ {p} : caller[q].call \in InUse(p) BY DEF InUse
<1>14. DupsCounted' BY <1>1, <1>5, <1>13 DEF IInv, DupsCounted
<1>15. UnsharedClosed' BY <1>1, <1>5, <1>13 DEF IInv, UnsharedClosed
<1>16. OutcomeKnown'
  <2>1. ASSUME NEW d \in Call, call'[d].phase = "running"
        PROVE  call'[d].outcome = NoOutcome
    BY <1>3, <1>5, <1>7, <2>1 DEF IInv, OutcomeKnown
  <2>2. ASSUME NEW q \in Caller, caller'[q].call \in Call,
               call'[caller'[q].call].phase # "running"
        PROVE  call'[caller'[q].call].outcome # NoOutcome
    <3>1. q # p BY <1>3, <1>5, <2>2
    <3>2. caller'[q] = caller[q] /\ caller[q].call # c BY <1>1, <1>5, <1>13, <3>1
    <3>3. call'[caller[q].call] = call[caller[q].call]
      BY <1>5, <1>13, <2>2, <3>1, <3>2
    <3> QED BY <2>2, <3>2, <3>3 DEF IInv, OutcomeKnown
  <2> QED BY <2>1, <2>2 DEF OutcomeKnown
<1>17. ChannelsWait'
  <2> SUFFICES ASSUME NEW d \in Call, NEW q \in Caller,
                      call'[d].phase # "closed", q \in call'[d].chans
               PROVE  caller'[q].call = d /\ caller'[q].pc = "chan"
    BY DEF ChannelsWait
  <2>1. CASE d = c BY <1>3, <1>5, <2>1
  <2>2. CASE d # c BY <1>5, <1>7, <2>2 DEF IInv, ChannelsWait
  <2> QED BY <2>1, <2>2
<1> QED BY <1>9, <1>10, <1>11, <1>12, <1>14, <1>15, <1>16, <1>17 DEF IInv

\* Forgetting a key marks its call in the step that takes it out of the map.
LEMMA ForgetIInv ==
    ASSUME IInv, NEW p \in Caller, NEW k \in Key, Forget(p, k)
    PROVE  IInv'
<1> USE SentinelAssumption
<1>1. /\ m' = [m EXCEPT ![k] = NoCall] /\ caller' = caller
      /\ crashed' = crashed
      /\ call' = IF m[k] = NoCall THEN call
                 ELSE [call EXCEPT ![m[k]].forgotten = TRUE]
  BY DEF Forget
<1>2. TypeOK BY DEF IInv
<1>3. call' \in [Call -> CallRecord]
  <2>1. CASE m[k] = NoCall BY <1>1, <1>2, <2>1 DEF TypeOK
  <2>2. CASE m[k] # NoCall
    <3>1. PICK c \in Call : c = m[k] BY <1>2, <2>2 DEF TypeOK
    <3>2. PICK r \in CallRecord : r = call[c] BY <1>2 DEF TypeOK
    <3>3. [r EXCEPT !.forgotten = TRUE] \in CallRecord BY <3>2
    <3>4. call' = [call EXCEPT ![c] = [r EXCEPT !.forgotten = TRUE]]
      BY <1>1, <2>2, <3>1, <3>2, Zenon
    <3> QED BY <1>2, <3>3, <3>4 DEF TypeOK
  <2> QED BY <2>1, <2>2
<1>4. TypeOK' BY <1>1, <1>2, <1>3 DEF TypeOK
<1>5. \A c \in Call :
         /\ call'[c].key = call[c].key /\ call'[c].phase = call[c].phase
         /\ call'[c].outcome = call[c].outcome /\ call'[c].dups = call[c].dups
         /\ call'[c].chans = call[c].chans
  BY <1>1, <1>2 DEF TypeOK
<1>6. \A c \in Call : c # m[k] => call'[c] = call[c]
  BY <1>1, <1>2 DEF TypeOK
<1>7. m[k] # NoCall => call'[m[k]].forgotten
  BY <1>1, <1>2 DEF TypeOK
<1>8. FlightsRegistered'
  <2>1. ASSUME NEW c \in Call, call'[c].phase # "closed", ~call'[c].forgotten
        PROVE  call'[c].key \in Key /\ m'[call'[c].key] = c
    <3>1. c # m[k] BY <1>7, <2>1
    <3>2. call[c].key \in Key /\ m[call[c].key] = c
      BY <1>6, <2>1, <3>1 DEF IInv, FlightsRegistered
    <3> QED BY <1>1, <1>2, <1>5, <3>1, <3>2 DEF TypeOK
  <2>2. ASSUME NEW l \in Key, m'[l] # NoCall
        PROVE  /\ call'[m'[l]].key = l /\ call'[m'[l]].phase # "closed"
               /\ ~call'[m'[l]].forgotten
    <3>1. l # k /\ m'[l] = m[l] /\ m[l] \in Call
      BY <1>1, <1>2, <2>2 DEF TypeOK
    <3>2. call[m[l]].key = l /\ call[m[l]].phase # "closed" /\ ~call[m[l]].forgotten
      BY <2>2, <3>1 DEF IInv, FlightsRegistered
    <3>3. m[k] # NoCall => call[m[k]].key = k BY DEF IInv, FlightsRegistered
    <3>4. m[l] # m[k] BY <3>1, <3>2, <3>3, <2>2
    <3> QED BY <1>6, <3>1, <3>2, <3>4
  <2> QED BY <2>1, <2>2 DEF FlightsRegistered
<1>9. CallsReferenced' BY <1>1, <1>5 DEF IInv, CallsReferenced
<1>10. BlockedOnCall' BY <1>1 DEF IInv, BlockedOnCall
<1>11. DupsCounted' BY <1>1, <1>5 DEF IInv, DupsCounted
<1>12. UnsharedClosed' BY <1>1, <1>5 DEF IInv, UnsharedClosed
<1>13. OutcomeKnown' BY <1>1, <1>5 DEF IInv, OutcomeKnown
<1>14. ChannelsWait' BY <1>1, <1>5 DEF IInv, ChannelsWait
<1> QED BY <1>4, <1>8, <1>9, <1>10, <1>11, <1>12, <1>13, <1>14 DEF IInv

\* The end of the function leaves the call in the map.
LEMMA DoneIInv ==
    ASSUME IInv, NEW c \in Call, NEW outcome \in Outcome, Done(c, outcome)
    PROVE  IInv'
<1> USE SentinelAssumption
<1>1. TypeOK BY DEF IInv
<1>2. PICK half : half = [call EXCEPT ![c].outcome = outcome] OBVIOUS
<1>3. call' = [half EXCEPT ![c].phase = "done"] BY <1>2, Zenon DEF Done
<1>4. half \in [Call -> CallRecord] BY <1>1, <1>2 DEF TypeOK
<1>5. call' \in [Call -> CallRecord] BY <1>3, <1>4
<1>6. \A d \in Call \ {c} : call'[d] = call[d]
  BY <1>1, <1>2, <1>3, <1>4 DEF TypeOK
<1>7. /\ call[c].phase = "running" /\ call'[c].phase = "done"
      /\ call'[c].outcome = outcome /\ call'[c].key = call[c].key
      /\ call'[c].forgotten = call[c].forgotten /\ call'[c].dups = call[c].dups
      /\ call'[c].chans = call[c].chans
  BY <1>1, <1>2, <1>3, <1>4 DEF TypeOK, Done
<1>8. m' = m /\ caller' = caller /\ crashed' = crashed BY DEF Done
<1>9. TypeOK' BY <1>1, <1>5, <1>8 DEF TypeOK
<1>10. \A d \in Call :
         /\ call'[d].key = call[d].key /\ call'[d].forgotten = call[d].forgotten
         /\ call'[d].dups = call[d].dups /\ call'[d].chans = call[d].chans
         /\ (call'[d].phase = "closed") <=> (call[d].phase = "closed")
  BY <1>6, <1>7
<1>11. FlightsRegistered'
  BY <1>1, <1>8, <1>10 DEF IInv, FlightsRegistered, TypeOK
<1>12. CallsReferenced' BY <1>8, <1>10 DEF IInv, CallsReferenced
<1>13. BlockedOnCall' BY <1>8 DEF IInv, BlockedOnCall
<1>14. DupsCounted' BY <1>8, <1>10 DEF IInv, DupsCounted
<1>15. UnsharedClosed' BY <1>8, <1>10 DEF IInv, UnsharedClosed
<1>16. OutcomeKnown' BY <1>6, <1>7, <1>8 DEF IInv, OutcomeKnown
<1>17. ChannelsWait' BY <1>8, <1>10 DEF IInv, ChannelsWait
<1> QED BY <1>9, <1>11, <1>12, <1>13, <1>14, <1>15, <1>16, <1>17 DEF IInv

\* A duplicate that wakes up always shares the result.
LEMMA WakeIInv ==
    ASSUME IInv, NEW p \in Caller, Wake(p)
    PROVE  IInv'
<1> USE SentinelAssumption
<1>1. TypeOK BY DEF IInv
<1>2. PICK half : half = [caller EXCEPT ![p].pc = "ready"] OBVIOUS
<1>3. caller' = [half EXCEPT ![p].shared = TRUE] BY <1>2, Zenon DEF Wake
<1>4. half \in [Caller -> CallerRecord] BY <1>1, <1>2 DEF TypeOK
<1>5. caller' \in [Caller -> CallerRecord] BY <1>3, <1>4
<1>6. \A q \in Caller \ {p} : caller'[q] = caller[q]
  BY <1>1, <1>2, <1>3, <1>4 DEF TypeOK
<1>7. /\ caller'[p].pc = "ready" /\ caller'[p].shared
      /\ caller'[p].call = caller[p].call /\ caller[p].pc = "wait"
  BY <1>1, <1>2, <1>3, <1>4 DEF TypeOK, Wake
<1>8. m' = m /\ call' = call /\ crashed' = crashed BY DEF Wake
<1>9. TypeOK' BY <1>1, <1>5, <1>8 DEF TypeOK
<1>10. FlightsRegistered' BY <1>8 DEF IInv, FlightsRegistered
<1>11. CallsReferenced' BY <1>6, <1>7, <1>8 DEF IInv, CallsReferenced
<1>12. BlockedOnCall' BY <1>6, <1>7 DEF IInv, BlockedOnCall
<1>13. DupsCounted' BY <1>6, <1>7, <1>8 DEF IInv, DupsCounted
<1>14. UnsharedClosed' BY <1>6, <1>7, <1>8 DEF IInv, UnsharedClosed
<1>15. OutcomeKnown' BY <1>6, <1>7, <1>8 DEF IInv, OutcomeKnown
<1>16. ChannelsWait' BY <1>6, <1>7, <1>8 DEF IInv, ChannelsWait
<1> QED BY <1>9, <1>10, <1>11, <1>12, <1>13, <1>14, <1>15, <1>16 DEF IInv

\* Closing a call takes at most that call out of the map and answers only callers
\* that refer to it.
LEMMA CloseIInv ==
    ASSUME IInv, NEW c \in Call, Close(c)
    PROVE  IInv'
<1> USE SentinelAssumption
<1>1. TypeOK BY DEF IInv
<1>2. call[c].phase = "done" /\ call' = [call EXCEPT ![c].phase = "closed"]
  BY DEF Close
<1>3. call' \in [Call -> CallRecord] BY <1>1, <1>2 DEF TypeOK
<1>4. \A d \in Call :
         /\ call'[d].key = call[d].key /\ call'[d].outcome = call[d].outcome
         /\ call'[d].forgotten = call[d].forgotten
         /\ call'[d].dups = call[d].dups
  BY <1>1, <1>2 DEF TypeOK
<1>5. /\ \A d \in Call \ {c} : call'[d] = call[d]
      /\ call'[c].phase = "closed"
  BY <1>1, <1>2 DEF TypeOK
<1>6. m' = IF call[c].forgotten THEN m ELSE [m EXCEPT ![call[c].key] = NoCall]
  BY DEF Close
<1>7. m' \in [Key -> Call \cup {NoCall}] BY <1>1, <1>6 DEF TypeOK
<1>8. /\ caller' \in [Caller -> CallerRecord] /\ crashed' \in BOOLEAN
      /\ \A p \in Caller : caller'[p].call = caller[p].call
      /\ \A p \in Caller : caller'[p] = caller[p] \/
            /\ caller[p].call = c /\ caller'[p].pc = "ready"
            /\ caller[p].pc # "ready"
            /\ caller'[p].shared = (call[c].dups > 0)
  <2>1. CASE call[c].outcome = "panic" /\ call[c].chans # {}
    BY <1>1, <2>1 DEF Close, TypeOK
  <2>2. CASE ~(call[c].outcome = "panic" /\ call[c].chans # {})
    <3>1. /\ crashed' = crashed
          /\ caller' = [p \in Caller |->
                            IF p \in Answered(c)
                            THEN [caller[p] EXCEPT !.pc = "ready",
                                                   !.shared = call[c].dups > 0]
                            ELSE caller[p]]
      BY <2>2 DEF Close
    <3>2. \A p \in Answered(c) :
             p \in Caller /\ caller[p].call = c /\ caller[p].pc # "ready"
      BY <1>2 DEF Answered, IInv, ChannelsWait
    <3>3. ASSUME NEW p \in Answered(c)
          PROVE  /\ caller'[p] \in CallerRecord
                 /\ caller'[p].call = c /\ caller'[p].pc = "ready"
                 /\ caller'[p].shared = (call[c].dups > 0)
      <4>1. PICK half : half = [caller[p] EXCEPT !.pc = "ready"] OBVIOUS
      <4>2. caller'[p] = [half EXCEPT !.shared = call[c].dups > 0]
        BY <3>1, <3>2, <4>1, Zenon
      <4>3. half \in CallerRecord /\ half.call = c /\ half.pc = "ready"
        BY <1>1, <3>2, <4>1 DEF TypeOK
      <4>4. (call[c].dups > 0) \in BOOLEAN OBVIOUS
      <4> QED BY <4>2, <4>3, <4>4
    <3>4. \A p \in Caller \ Answered(c) : caller'[p] = caller[p] BY <3>1
    <3>5. caller' \in [Caller -> CallerRecord]
      <4>1. \A p \in Caller : caller'[p] \in CallerRecord
        BY <1>1, <3>3, <3>4 DEF TypeOK
      <4> HIDE DEF CallerRecord
      <4>2. caller' = [p \in Caller |-> caller'[p]] BY <3>1, Zenon
      <4> QED BY <4>1, <4>2
    <3>6. \A p \in Caller : caller'[p].call = caller[p].call BY <3>2, <3>3, <3>4
    <3>7. crashed' \in BOOLEAN BY <1>1, <3>1 DEF TypeOK
    <3> QED BY <3>2, <3>3, <3>4, <3>5, <3>6, <3>7
  <2> QED BY <2>1, <2>2
<1>9. TypeOK' BY <1>3, <1>7, <1>8 DEF TypeOK
<1>10. FlightsRegistered'
  <2>1. ASSUME NEW d \in Call, call'[d].phase # "closed", ~call'[d].forgotten
        PROVE  call'[d].key \in Key /\ m'[call'[d].key] = d
    <3>1. d # c /\ call'[d] = call[d] BY <1>5, <2>1
    <3>2. call[d].key \in Key /\ m[call[d].key] = d
      BY <2>1, <3>1 DEF IInv, FlightsRegistered
    <3>3. ~call[c].forgotten => call[c].key \in Key /\ m[call[c].key] = c
      BY <1>2 DEF IInv, FlightsRegistered
    <3> QED BY <1>1, <1>6, <3>1, <3>2, <3>3 DEF TypeOK
  <2>2. ASSUME NEW l \in Key, m'[l] # NoCall
        PROVE  /\ call'[m'[l]].key = l /\ call'[m'[l]].phase # "closed"
               /\ ~call'[m'[l]].forgotten
    <3>1. m'[l] = m[l] /\ m[l] \in Call BY <1>1, <1>6, <2>2 DEF TypeOK
    <3>2. call[m[l]].key = l /\ call[m[l]].phase # "closed" /\ ~call[m[l]].forgotten
      BY <2>2, <3>1 DEF IInv, FlightsRegistered
    <3>3. m[l] # c
      <4>1. SUFFICES ASSUME m[l] = c PROVE FALSE OBVIOUS
      <4>2. ~call[c].forgotten /\ call[c].key = l BY <3>2, <4>1
      <4> QED BY <1>1, <1>6, <2>2, <4>2 DEF TypeOK
    <3> QED BY <1>5, <3>1, <3>2, <3>3
  <2> QED BY <2>1, <2>2 DEF FlightsRegistered
<1>11. CallsReferenced' BY <1>5, <1>8 DEF IInv, CallsReferenced
<1>12. BlockedOnCall' BY <1>8 DEF IInv, BlockedOnCall
<1>13. DupsCounted' BY <1>4, <1>8 DEF IInv, DupsCounted
<1>14. UnsharedClosed'
  <2>1. call[c].dups \in Nat BY <1>1 DEF TypeOK
  <2>2. ASSUME NEW p \in Caller, caller'[p].pc = "ready", ~caller'[p].shared,
               caller'[p].call \in Call
        PROVE  /\ call'[caller'[p].call].phase = "closed"
               /\ call'[caller'[p].call].dups = 0
    <3>1. CASE caller'[p] = caller[p]
      BY <1>4, <1>5, <2>2, <3>1 DEF IInv, UnsharedClosed
    <3>2. CASE caller'[p] # caller[p] BY <1>4, <1>5, <1>8, <2>1, <2>2, <3>2
    <3> QED BY <3>1, <3>2
  <2> QED BY <2>2 DEF UnsharedClosed
<1>15. OutcomeKnown'
  <2>1. call[c].outcome # NoOutcome
    BY <1>2 DEF IInv, OutcomeKnown, CallsReferenced
  <2> QED BY <1>2, <1>4, <1>5, <1>8, <2>1 DEF IInv, OutcomeKnown
<1>16. ChannelsWait' BY <1>5, <1>8 DEF IInv, ChannelsWait
<1> QED BY <1>9, <1>10, <1>11, <1>12, <1>13, <1>14, <1>15, <1>16 DEF IInv

\* Every step keeps the invariant.
LEMMA NextIInv == IInv /\ [Next]_vars => IInv'
<1> SUFFICES ASSUME IInv, [Next]_vars PROVE IInv' OBVIOUS
<1>1. ASSUME NEW p \in Caller, NEW k \in Key, Do(p, k) PROVE IInv'
  BY <1>1, JoinIInv, LaunchIInv DEF Do
<1>2. ASSUME NEW p \in Caller, NEW k \in Key, DoChan(p, k) PROVE IInv'
  <2>1. {p} \in SUBSET Caller OBVIOUS
  <2> QED BY <1>2, <2>1, JoinIInv, LaunchIInv DEF DoChan
<1>3. ASSUME NEW p \in Caller, NEW k \in Key, Forget(p, k) PROVE IInv'
  BY <1>3, ForgetIInv
<1>4. ASSUME NEW c \in Call, NEW outcome \in Outcome, Done(c, outcome)
      PROVE  IInv'
  BY <1>4, DoneIInv
<1>5. ASSUME NEW p \in Caller, Wake(p) PROVE IInv' BY <1>5, WakeIInv
<1>6. ASSUME NEW c \in Call, Close(c) PROVE IInv' BY <1>6, CloseIInv
<1>7. CASE UNCHANGED vars
  BY <1>7 DEF vars, IInv, TypeOK, FlightsRegistered, CallsReferenced,
     BlockedOnCall, DupsCounted, UnsharedClosed, OutcomeKnown, ChannelsWait
<1> QED BY <1>1, <1>2, <1>3, <1>4, <1>5, <1>6, <1>7 DEF Next, Step

-----------------------------------------------------------------------------
\* The inductive invariant holds in every reachable state.
THEOREM Invariant == Safety => []IInv
BY InitIInv, NextIInv, PTL DEF Safety

\* Every variable keeps its type.
THEOREM TypeCorrect == Safety => []TypeOK
<1>1. IInv => TypeOK BY DEF IInv
<1> QED BY <1>1, Invariant, PTL

\* The map holds exactly the calls in flight: at most one for a key.
THEOREM OneFlight == Safety => []FlightsRegistered
<1>1. IInv => FlightsRegistered BY DEF IInv
<1> QED BY <1>1, Invariant, PTL

\* A result is called unshared only for its one receiver.
THEOREM UnsharedAlone == Safety => []SharedExact
<1>1. IInv => SharedExact
  <2> SUFFICES ASSUME IInv, NEW p \in Caller, NEW q \in Caller, p # q,
                      caller[p].call # NoCall, caller[p].call = caller[q].call,
                      ~Blocked(p), ~caller[p].shared
               PROVE  FALSE
    BY DEF SharedExact
  <2>1. caller[p].call \in Call BY DEF IInv, TypeOK
  <2>2. call[caller[p].call].dups > 0 BY <2>1 DEF IInv, DupsCounted
  <2>3. call[caller[p].call].dups = 0 BY <2>1 DEF IInv, UnsharedClosed
  <2> QED BY <2>2, <2>3
<1> QED BY <1>1, Invariant, PTL

\* A call structure that is not closed has a goroutine that waits for its closing.
THEOREM NoReuse == Safety => []CallsReferenced
<1>1. IInv => CallsReferenced BY DEF IInv
<1> QED BY <1>1, Invariant, PTL

-----------------------------------------------------------------------------
\* What Dedup sees of a caller and of the calls
HasAnswer(p) == ~Blocked(p)

Alone(p) ==
    /\ ~Blocked(p)
    /\ caller[p].call # NoCall
    /\ ~caller[p].shared

Ride(p) == [flight   |-> caller[p].call,
            answered |-> HasAnswer(p),
            alone    |-> Alone(p)]

Rides == [p \in Caller |-> Ride(p)]

Results == [c \in Call |-> call[c].outcome]

\* Turning to a call is boarding its flight.
LEMMA TurnsBoards ==
    ASSUME TypeOK, NEW p \in Caller, NEW pc \in {"wait", "lead", "chan"},
           NEW c \in Call, NEW record \in CallRecord, Turns(p, pc, c, record),
           caller[p].pc = "ready", NEW known, known = record.outcome
    PROVE  Promise!Boards(p, c, known)
<1>1. /\ caller'[p] = [pc |-> pc, call |-> c, shared |-> FALSE]
      /\ \A q \in Caller \ {p} : caller'[q] = caller[q]
      /\ call'[c] = record
      /\ \A d \in InUse(p) \ {c} : d \in Call => call'[d] = call[d]
      /\ \A d \in Call \ {c} : d \notin InUse(p) => call'[d] = Unused
  BY TurnsType
<1>2. Ride(p)' = [flight |-> c, answered |-> FALSE, alone |-> FALSE]
  <2>1. HasAnswer(p)' = FALSE BY <1>1 DEF HasAnswer
  <2>2. Alone(p)' = FALSE BY <1>1 DEF Alone
  <2>3. caller'[p].call = c BY <1>1
  <2> QED BY <2>1, <2>2, <2>3, Zenon DEF Ride
<1>3. \A q \in Caller \ {p} : Ride(q)' = Ride(q)
  BY <1>1 DEF Ride, HasAnswer, Alone
<1>4. Rides' = [Rides EXCEPT ![p] = [flight |-> c, answered |-> FALSE,
                                     alone |-> FALSE]]
  BY <1>2, <1>3 DEF Rides
<1>5. \A d \in Call : d \in InUse(p) <=> \E q \in Caller \ {p} : Rides[q].flight = d
  BY DEF Rides, Ride, InUse
<1>6. ASSUME NEW d \in Call
      PROVE  call'[d].outcome =
                IF d = c THEN known
                ELSE IF \E q \in Caller \ {p} : Rides[q].flight = d
                     THEN Results[d] ELSE NoOutcome
  BY <1>1, <1>5 DEF Results, Unused
<1>7. Results' = [d \in Call |->
                    IF d = c THEN known
                    ELSE IF \E q \in Caller \ {p} : Rides[q].flight = d
                         THEN Results[d] ELSE NoOutcome]
  BY <1>6 DEF Results
<1>8. Rides[p].answered BY DEF Rides, Ride, HasAnswer
<1> QED BY <1>4, <1>7, <1>8 DEF Rides, Ride, HasAnswer, Alone, Results,
                                Promise!Boards

\* Joining and launching are those of Dedup.
LEMMA JoinBoards ==
    ASSUME TypeOK, NEW p \in Caller, NEW k \in Key, caller[p].pc = "ready",
           NEW pc \in {"wait", "chan"}, NEW ch \in SUBSET Caller,
           Join(p, k, pc, ch)
    PROVE  Promise!Join(p, k)
<1>1. PICK c \in Call : c = m[k] BY DEF TypeOK, Join
<1>2. PICK r \in CallRecord : r = call[c] BY DEF TypeOK
<1>3. PICK counted : counted = [r EXCEPT !.dups = r.dups + 1] OBVIOUS
<1>4. counted \in CallRecord /\ counted.outcome = r.outcome
      /\ counted.chans = r.chans
  BY <1>2, <1>3
<1>5. PICK record : record = [counted EXCEPT !.chans = r.chans \cup ch] OBVIOUS
<1>6. record \in CallRecord /\ record.outcome = call[c].outcome
  BY <1>2, <1>4, <1>5
<1>7. record = [call[c] EXCEPT !.dups = @ + 1, !.chans = @ \cup ch]
  BY <1>2, <1>3, <1>5, Zenon
<1>8. Turns(p, pc, c, record) /\ m' = m /\ m[k] # NoCall
  BY <1>1, <1>7, Zenon DEF Join
<1>9. PICK known : known = Results[m[k]] OBVIOUS
<1>10. known = record.outcome BY <1>1, <1>6, <1>9 DEF Results
<1>11. pc \in {"wait", "lead", "chan"} OBVIOUS
<1>12. Promise!Boards(p, c, known) BY <1>6, <1>8, <1>10, <1>11, TurnsBoards
<1>13. c = m[k] /\ known = Results[c] BY <1>1, <1>9
<1>14. m[k] # NoCall /\ UNCHANGED m BY <1>8
<1> HIDE DEF Results
<1>15. Promise!Boards(p, m[k], Results[m[k]])
  BY <1>12, <1>13 DEF Promise!Boards
<1> QED BY <1>14, <1>15 DEF Promise!Join, Results

\* The caller that finds no call under its key makes one: it boards, alone.
LEMMA LaunchBoards ==
    ASSUME TypeOK, NEW p \in Caller, NEW k \in Key, caller[p].pc = "ready",
           NEW pc \in {"lead", "chan"}, NEW ch \in SUBSET Caller,
           Launch(p, k, pc, ch)
    PROVE  \E c \in Call : Promise!Launch(p, k, c)
<1>1. PICK c \in Call \ InUse(p) :
         m' = [m EXCEPT ![k] = c] /\ Turns(p, pc, c, NewCall(k, ch))
  BY DEF Launch
<1>2. NewCall(k, ch) \in CallRecord /\ NewCall(k, ch).outcome = NoOutcome
  BY DEF NewCall
<1>3. Promise!Boards(p, c, NoOutcome) BY <1>1, <1>2, TurnsBoards
<1>4. Promise!Riders(c) \subseteq {p}
  BY <1>1 DEF Promise!Riders, InUse
<1>5. m[k] = NoCall BY DEF Launch
<1> QED BY <1>1, <1>3, <1>4, <1>5 DEF Promise!Launch

\* The end of the function is the landing of the flight.
LEMMA DoneLands ==
    ASSUME IInv, NEW c \in Call, NEW outcome \in Outcome, Done(c, outcome)
    PROVE  Promise!Land(c, outcome)
<1>1. TypeOK BY DEF IInv
<1>2. PICK half : half = [call EXCEPT ![c].outcome = outcome] OBVIOUS
<1>3. call' = [half EXCEPT ![c].phase = "done"] BY <1>2, Zenon DEF Done
<1>4. half \in [Call -> CallRecord] BY <1>1, <1>2 DEF TypeOK
<1>5. \A d \in Call : call'[d].outcome = IF d = c THEN outcome ELSE call[d].outcome
  BY <1>1, <1>2, <1>3, <1>4 DEF TypeOK
<1>6. Results' = [Results EXCEPT ![c] = outcome] BY <1>5 DEF Results
<1>7. call[c].outcome = NoOutcome BY DEF Done, IInv, OutcomeKnown
<1>8. Results[c] = NoOutcome BY <1>7 DEF Results
<1>9. PICK p \in Caller : caller[p].call = c
  BY DEF Done, IInv, CallsReferenced
<1>10. Promise!Riders(c) # {} BY <1>9 DEF Promise!Riders
<1>11. m' = m /\ caller' = caller BY DEF Done
<1> QED BY <1>6, <1>8, <1>10, <1>11 DEF Results, Promise!Land

\* The return of a duplicate settles its ride.
LEMMA WakeSettles ==
    ASSUME IInv, NEW p \in Caller, Wake(p)
    PROVE  p \in {q \in Caller : ~Rides[q].answered} /\ Promise!Settle({p}, {})
<1>1. TypeOK BY DEF IInv
<1>2. PICK half : half = [caller EXCEPT ![p].pc = "ready"] OBVIOUS
<1>3. caller' = [half EXCEPT ![p].shared = TRUE] BY <1>2, Zenon DEF Wake
<1>4. half \in [Caller -> CallerRecord] BY <1>1, <1>2 DEF TypeOK
<1>5. \A q \in Caller \ {p} : caller'[q] = caller[q]
  BY <1>1, <1>2, <1>3, <1>4 DEF TypeOK
<1>6. /\ caller'[p].pc = "ready" /\ caller'[p].shared
      /\ caller'[p].call = caller[p].call /\ caller[p].pc = "wait"
      /\ caller[p].call \in Call
  BY <1>1, <1>2, <1>3, <1>4 DEF TypeOK, Wake, IInv, BlockedOnCall
<1>7. Results[caller[p].call] # NoOutcome
  BY <1>6 DEF Wake, Results, IInv, OutcomeKnown
<1>8. Rides[p].flight = caller[p].call BY DEF Rides, Ride
<1>9. \A q \in Caller \ {p} : Ride(q)' = Ride(q)
  BY <1>5 DEF Ride, HasAnswer, Alone
<1>10. Ride(p)' = [flight |-> caller[p].call, answered |-> TRUE, alone |-> FALSE]
  <2>1. HasAnswer(p)' = TRUE BY <1>6 DEF HasAnswer
  <2>2. Alone(p)' = FALSE BY <1>6 DEF Alone
  <2> QED BY <1>6, <2>1, <2>2, Zenon DEF Ride
<1> DEFINE alone == [q \in {p} |-> FALSE]
<1>11. Rides' = [q \in Caller |->
                    IF q \in {p}
                    THEN [flight |-> Rides[q].flight, answered |-> TRUE,
                          alone |-> alone[q]]
                    ELSE Rides[q]]
  <2>1. Rides' = [q \in Caller |-> Ride(q)'] BY DEF Rides
  <2>2. \A q \in Caller : Rides[q] = Ride(q) BY DEF Rides
  <2>3. alone[p] = FALSE OBVIOUS
  <2> HIDE DEF alone
  <2>4. Ride(p)' = [flight |-> Rides[p].flight, answered |-> TRUE,
                    alone |-> alone[p]]
    BY <1>8, <1>10, <2>3, Zenon
  <2> QED BY <1>9, <2>1, <2>2, <2>4, Zenon
<1>12. m' = m /\ Results' = Results BY DEF Wake, Results
<1>13. m' = [k \in Key |-> IF k \in {} THEN NoCall ELSE m[k]]
  BY <1>1, <1>12 DEF TypeOK
<1>14. ~Rides[p].answered BY <1>6 DEF Rides, Ride, HasAnswer
<1>15. \A q \in {p} : Results[Rides[q].flight] # NoOutcome BY <1>7, <1>8
<1>16. /\ alone \in [{p} -> BOOLEAN]
       /\ \A q \in {p} : alone[q] => Promise!Riders(Rides[q].flight) = {q}
  OBVIOUS
<1> HIDE DEF alone
<1>17. Promise!Settle({p}, {})
  BY <1>11, <1>12, <1>13, <1>15, <1>16, Zenon
     DEF Promise!Settle, Rides, Ride, HasAnswer, Alone, Results
<1> QED BY <1>14, <1>17

\* The closing of a call settles the rides of those it answers and ends the flight,
\* unless a Forget did so before; in a crash it answers nobody.
LEMMA CloseSettles ==
    ASSUME IInv, NEW c \in Call, Close(c)
    PROVE  \E callers \in SUBSET {q \in Caller : ~Rides[q].answered} :
              \E keys \in SUBSET Key : Promise!Settle(callers, keys)
<1>1. TypeOK BY DEF IInv
<1>2. call[c].phase = "done" BY DEF Close
<1>3. Results[c] # NoOutcome
  BY <1>2 DEF Results, IInv, OutcomeKnown, CallsReferenced
<1>4. Results' = Results
  <2>1. \A d \in Call : call'[d].outcome = call[d].outcome
    BY <1>1 DEF TypeOK, Close
  <2> QED BY <2>1 DEF Results
<1>8. PICK keys : keys = IF call[c].forgotten THEN {} ELSE {call[c].key}
  OBVIOUS
<1>5. /\ keys \in SUBSET Key
      /\ \A k \in keys : m[k] # NoCall /\ Results[m[k]] # NoOutcome
      /\ m' = [k \in Key |-> IF k \in keys THEN NoCall ELSE m[k]]
  <2>1. m' = IF call[c].forgotten THEN m ELSE [m EXCEPT ![call[c].key] = NoCall]
    BY DEF Close
  <2>2. ~call[c].forgotten => call[c].key \in Key /\ m[call[c].key] = c
    BY <1>2 DEF IInv, FlightsRegistered
  <2> QED BY <1>1, <1>3, <1>8, <2>1, <2>2, SentinelAssumption DEF TypeOK
<1>6. CASE call[c].outcome = "panic" /\ call[c].chans # {}
  <2>1. caller' = caller BY <1>6 DEF Close
  <2> DEFINE alone == [q \in {} |-> FALSE]
  <2>2. alone \in [{} -> BOOLEAN] OBVIOUS
  <2> HIDE DEF alone
  <2>3. Rides' = [q \in Caller |->
                    IF q \in {}
                    THEN [flight |-> Rides[q].flight, answered |-> TRUE,
                          alone |-> alone[q]]
                    ELSE Rides[q]]
    BY <2>1 DEF Rides, Ride, HasAnswer, Alone
  <2>4. \A q \in {} : Results[Rides[q].flight] # NoOutcome OBVIOUS
  <2>5. \A q \in {} : alone[q] => Promise!Riders(Rides[q].flight) = {q} OBVIOUS
  <2>6. Promise!Settle({}, keys)
    BY <1>4, <1>5, <2>2, <2>3, <2>4, <2>5, Zenon
       DEF Promise!Settle, Rides, Ride, HasAnswer, Alone, Results
  <2>7. {} \in SUBSET {q \in Caller : ~Rides[q].answered} OBVIOUS
  <2> QED BY <1>5, <2>6, <2>7, Zenon
<1>7. CASE ~(call[c].outcome = "panic" /\ call[c].chans # {})
  <2>1. caller' = [p \in Caller |->
                            IF p \in Answered(c)
                            THEN [caller[p] EXCEPT !.pc = "ready",
                                                   !.shared = call[c].dups > 0]
                            ELSE caller[p]]
    BY <1>7 DEF Close
  <2>2. \A p \in Answered(c) :
           p \in Caller /\ caller[p].call = c /\ caller[p].pc # "ready"
    BY <1>2 DEF Answered, IInv, ChannelsWait
  <2>3. ASSUME NEW p \in Answered(c)
        PROVE  /\ caller'[p].call = c /\ caller'[p].pc = "ready"
               /\ caller'[p].shared = (call[c].dups > 0)
    <3>1. PICK half : half = [caller[p] EXCEPT !.pc = "ready"] OBVIOUS
    <3>2. caller'[p] = [half EXCEPT !.shared = call[c].dups > 0]
      BY <2>1, <2>2, <3>1, Zenon
    <3>3. half \in CallerRecord /\ half.call = c /\ half.pc = "ready"
      BY <1>1, <2>2, <3>1 DEF TypeOK
    <3> QED BY <3>2, <3>3
  <2>4. \A p \in Caller \ Answered(c) : caller'[p] = caller[p] BY <2>1
  <2> DEFINE alone == [p \in Answered(c) |-> Alone(p)']
  <2>5. alone \in [Answered(c) -> BOOLEAN] BY DEF Alone
  <2>6. \A p \in Answered(c) : Rides[p].flight = c /\ ~Rides[p].answered
    BY <2>2 DEF Rides, Ride, HasAnswer
  <2>7. ASSUME NEW p \in Answered(c), alone[p]
        PROVE  Promise!Riders(Rides[p].flight) = {p}
    <3>1. call[c].dups \in Nat BY <1>1 DEF TypeOK
    <3>2. ~(call[c].dups > 0) BY <2>3, <2>7 DEF Alone
    <3>3. \A q \in Caller : caller[q].call = c => q = p
      BY <2>2, <3>2 DEF IInv, DupsCounted
    <3>4. {q \in Caller : Rides[q].flight = c} = {p}
      BY <2>2, <3>3 DEF Rides, Ride
    <3> QED BY <2>6, <3>4 DEF Promise!Riders, Rides, Ride, HasAnswer, Alone
  <2>8. Rides' = [q \in Caller |->
                    IF q \in Answered(c)
                    THEN [flight |-> Rides[q].flight, answered |-> TRUE,
                          alone |-> alone[q]]
                    ELSE Rides[q]]
    <3>1. Rides' = [q \in Caller |-> Ride(q)'] BY DEF Rides
    <3>2. \A q \in Caller : Rides[q] = Ride(q) BY DEF Rides
    <3>3. \A q \in Caller \ Answered(c) : Ride(q)' = Ride(q)
      BY <2>4 DEF Ride, HasAnswer, Alone
    <3>4. ASSUME NEW q \in Answered(c)
          PROVE  Ride(q)' = [flight |-> Rides[q].flight, answered |-> TRUE,
                             alone |-> alone[q]]
      <4>1. HasAnswer(q)' = TRUE BY <2>3 DEF HasAnswer
      <4>2. caller'[q].call = Rides[q].flight BY <2>3, <2>6
      <4>3. alone[q] = Alone(q)' OBVIOUS
      <4> HIDE DEF alone
      <4> QED BY <4>1, <4>2, <4>3, Zenon DEF Ride
    <3> QED BY <3>1, <3>2, <3>3, <3>4, Zenon
  <2>9. \A p \in Answered(c) : Results[Rides[p].flight] # NoOutcome
    BY <1>3, <2>6
  <2>10. Answered(c) \in SUBSET {q \in Caller : ~Rides[q].answered}
    BY <2>2, <2>6
  <2> HIDE DEF alone
  <2>11. PICK callers : callers = Answered(c) OBVIOUS
  <2>12. /\ alone \in [callers -> BOOLEAN]
         /\ \A p \in callers : Results[Rides[p].flight] # NoOutcome
         /\ \A p \in callers : alone[p] =>
               Promise!Riders(Rides[p].flight) = {p}
         /\ Rides' = [q \in Caller |->
                    IF q \in callers
                    THEN [flight |-> Rides[q].flight, answered |-> TRUE,
                          alone |-> alone[q]]
                    ELSE Rides[q]]
    BY <2>5, <2>7, <2>8, <2>9, <2>11
  <2>13. Promise!Settle(callers, keys)
    BY <1>4, <1>5, <2>12, Zenon
       DEF Promise!Settle, Rides, Ride, HasAnswer, Alone, Results
  <2> QED BY <1>5, <2>10, <2>11, <2>13, Zenon
<1> QED BY <1>6, <1>7

\* Every step of the code is a step of Dedup or leaves its view unchanged.
LEMMA StepImplements == IInv /\ [Next]_vars => [Promise!Next]_(Promise!dedupVars)
<1> SUFFICES ASSUME IInv, [Next]_vars
             PROVE  [Promise!Next]_(Promise!dedupVars)
  OBVIOUS
<1>1. TypeOK BY DEF IInv
<1>2. ASSUME NEW p \in Caller, NEW k \in Key, Do(p, k) \/ DoChan(p, k)
      PROVE  Promise!Next
  <2>1. {p} \in SUBSET Caller /\ {} \in SUBSET Caller OBVIOUS
  <2>2. Promise!Join(p, k) \/ \E c \in Call : Promise!Launch(p, k, c)
    BY <1>1, <1>2, <2>1, JoinBoards, LaunchBoards DEF Do, DoChan
  <2> QED BY <2>2 DEF Promise!Next
<1>3. ASSUME NEW p \in Caller, NEW k \in Key, Forget(p, k)
      PROVE  Promise!Next
  <2>1. \A d \in Call : call'[d].outcome = call[d].outcome
    <3>1. CASE m[k] = NoCall BY <1>3, <3>1 DEF Forget
    <3>2. CASE m[k] # NoCall
      <4>1. PICK c \in Call : c = m[k] BY <1>1, <3>2 DEF TypeOK
      <4>2. call' = [call EXCEPT ![c].forgotten = TRUE]
        BY <1>3, <3>2, <4>1 DEF Forget
      <4> QED BY <1>1, <4>2 DEF TypeOK
    <3> QED BY <3>1, <3>2
  <2>2. Results' = Results BY <2>1 DEF Results
  <2>3. m' = [m EXCEPT ![k] = NoCall] /\ caller' = caller BY <1>3 DEF Forget
  <2>4. Rides' = Rides BY <2>3 DEF Rides, Ride, HasAnswer, Alone
  <2>5. Promise!Forget(k)
    BY <2>2, <2>3, <2>4, Zenon
       DEF Promise!Forget, Rides, Ride, HasAnswer, Alone, Results
  <2> QED BY <2>5 DEF Promise!Next
<1>4. ASSUME NEW c \in Call, NEW outcome \in Outcome, Done(c, outcome)
      PROVE  Promise!Next
  <2>1. Promise!Land(c, outcome) BY <1>4, DoneLands
  <2> QED BY <2>1 DEF Promise!Next
<1>5. ASSUME NEW p \in Caller, Wake(p) PROVE Promise!Next
  <2>1. {p} \in SUBSET {q \in Caller : ~Rides[q].answered}
    BY <1>5, WakeSettles
  <2>2. Promise!Settle({p}, {}) BY <1>5, WakeSettles
  <2>3. {} \in SUBSET Key OBVIOUS
  <2> QED BY <2>1, <2>2, <2>3, Zenon
          DEF Promise!Next, Rides, Ride, HasAnswer, Alone
<1>6. ASSUME NEW c \in Call, Close(c) PROVE Promise!Next
  BY <1>6, CloseSettles, Zenon DEF Promise!Next, Rides, Ride, HasAnswer, Alone
<1>7. CASE UNCHANGED vars
  BY <1>7 DEF vars, Promise!dedupVars
<1> QED BY <1>2, <1>3, <1>4, <1>5, <1>6, <1>7 DEF Next, Step

\* singleflight keeps the promises of Dedup, for any number of keys and callers.
THEOREM Implements == Safety => DedupSpec
<1>1. Init => Promise!Init
  <2> SUFFICES ASSUME Init PROVE Promise!Init OBVIOUS
  <2>1. ASSUME NEW p \in Caller
        PROVE  Ride(p) = [flight |-> NoCall, answered |-> TRUE, alone |-> FALSE]
    <3>1. caller[p].pc = "ready" /\ caller[p].call = NoCall BY DEF Init
    <3>2. HasAnswer(p) = TRUE BY <3>1 DEF HasAnswer
    <3>3. Alone(p) = FALSE BY <3>1 DEF Alone
    <3> QED BY <3>1, <3>2, <3>3, Zenon DEF Ride
  <2>2. Rides = [p \in Caller |-> [flight |-> NoCall, answered |-> TRUE,
                                   alone |-> FALSE]]
    BY <2>1, Zenon DEF Rides
  <2>3. Results = [c \in Call |-> NoOutcome] BY DEF Init, Unused, Results
  <2>4. m = [k \in Key |-> NoCall] BY DEF Init
  <2> QED BY <2>2, <2>3, <2>4, Zenon
          DEF Promise!Init, Rides, Ride, HasAnswer, Alone, Results
<1> QED BY <1>1, StepImplements, Invariant, PTL DEF Safety, DedupSpec, Promise!Spec

=============================================================================
