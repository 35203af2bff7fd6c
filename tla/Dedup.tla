------------------------------- MODULE Dedup -------------------------------
(***************************************************************************)
(* What duplicate call suppression promises its callers, without the map,  *)
(* the wait group and the channels of pkg/singleflight: a caller that asks *)
(* for a key with a current flight rides on that flight, any other caller  *)
(* launches one; a caller is answered only once its flight has landed, and *)
(* is told that the result is its own alone only when nobody shares it.    *)
(***************************************************************************)
CONSTANTS Key, Caller, Flight, Outcome, NoFlight, NoOutcome

VARIABLES
    current,  \* the flight new callers of a key join
    result,   \* what each flight brought back
    ride      \* the flight of each caller, whether it has its answer, and
              \* whether the answer is its own alone

dedupVars == <<current, result, ride>>

Init ==
    /\ current = [k \in Key |-> NoFlight]
    /\ result = [f \in Flight |-> NoOutcome]
    /\ ride = [p \in Caller |-> [flight |-> NoFlight, answered |-> TRUE,
                                 alone |-> FALSE]]

Riders(f) == {p \in Caller : ride[p].flight = f}

\* Caller p boards flight f, whose result is given; of a flight nobody rides any
\* more the result is gone.
Boards(p, f, known) ==
    /\ ride[p].answered
    /\ ride' = [ride EXCEPT ![p] = [flight |-> f, answered |-> FALSE,
                                    alone |-> FALSE]]
    /\ result' = [g \in Flight |->
                    IF g = f THEN known
                    ELSE IF \E q \in Caller \ {p} : ride[q].flight = g
                         THEN result[g] ELSE NoOutcome]

Launch(p, k, f) ==
    /\ current[k] = NoFlight
    /\ Riders(f) \subseteq {p}
    /\ current' = [current EXCEPT ![k] = f]
    /\ Boards(p, f, NoOutcome)

Join(p, k) ==
    /\ current[k] # NoFlight
    /\ Boards(p, current[k], result[current[k]])
    /\ UNCHANGED current

Land(f, outcome) ==
    /\ Riders(f) # {} /\ result[f] = NoOutcome
    /\ result' = [result EXCEPT ![f] = outcome]
    /\ UNCHANGED <<current, ride>>

\* Callers of landed flights get their answers, and landed flights stop being
\* current, any number of each at once.
Settle(callers, keys) ==
    /\ \A p \in callers : result[ride[p].flight] # NoOutcome
    /\ \A k \in keys : current[k] # NoFlight /\ result[current[k]] # NoOutcome
    /\ current' = [k \in Key |-> IF k \in keys THEN NoFlight ELSE current[k]]
    /\ \E alone \in [callers -> BOOLEAN] :
          /\ \A p \in callers : alone[p] => Riders(ride[p].flight) = {p}
          /\ ride' = [p \in Caller |->
                        IF p \in callers
                        THEN [flight |-> ride[p].flight, answered |-> TRUE,
                              alone |-> alone[p]]
                        ELSE ride[p]]
    /\ UNCHANGED result

Forget(k) ==
    /\ current' = [current EXCEPT ![k] = NoFlight]
    /\ UNCHANGED <<result, ride>>

Next ==
    \/ \E p \in Caller, k \in Key :
          \/ Join(p, k)
          \/ \E f \in Flight : Launch(p, k, f)
    \/ \E f \in Flight, outcome \in Outcome : Land(f, outcome)
    \/ \E callers \in SUBSET {p \in Caller : ~ride[p].answered} :
          \E keys \in SUBSET Key : Settle(callers, keys)
    \/ \E k \in Key : Forget(k)

Spec == Init /\ [][Next]_dedupVars

=============================================================================
