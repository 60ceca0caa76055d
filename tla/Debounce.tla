------------------------------ MODULE Debounce ------------------------------
(***************************************************************************)
(* dio.c: the debounced inputs.  The seven DIP switches are one value, as  *)
(* in the code; the enable input is the other.                             *)
(***************************************************************************)
EXTENDS Naturals

CONSTANTS
    Levels,     \* Levels[i]: what input i may read
    Ticks       \* DIO_DEBOUNCE_TICKS

DioAssumption == Ticks \in Nat

Inputs == DOMAIN Levels

VARIABLES
    pin,             \* what the pins read
    debounced, candidate, stable,     \* s_<input>_debounced, ..._candidate, ..._stable_count
    steady           \* history: polls in a row that read the same

dioVars == <<pin, debounced, candidate, stable, steady>>

\* Polls of one value, the first of which makes it the candidate, that change the input.
Needs == Ticks + 2

\* dio_init: the first reading is trusted.
DioInit ==
    /\ pin \in {p \in [Inputs -> UNION {Levels[i] : i \in Inputs}] : \A i \in Inputs : p[i] \in Levels[i]}
    /\ debounced = pin /\ candidate = pin
    /\ stable = [i \in Inputs |-> 0]
    /\ steady = [i \in Inputs |-> 0]

Restarts(i) == 0

\* dio_poll
DioPoll ==
    /\ stable' = [i \in Inputs |-> IF pin[i] # candidate[i] THEN Restarts(i)
                                   ELSE IF stable[i] < Ticks THEN stable[i] + 1 ELSE Ticks]
    /\ debounced' = [i \in Inputs |-> IF pin[i] = candidate[i] /\ stable[i] = Ticks
                                        THEN candidate[i] ELSE debounced[i]]
    /\ candidate' = pin
    /\ steady' = [i \in Inputs |-> IF pin[i] # candidate[i] THEN 1
                                   ELSE IF steady[i] < Needs THEN steady[i] + 1 ELSE Needs]
    /\ UNCHANGED pin

\* A switch moves or a contact bounces, between two polls.
Bounce(i, level) ==
    /\ level # pin[i]
    /\ pin' = [pin EXCEPT ![i] = level]
    /\ UNCHANGED <<debounced, candidate, stable, steady>>

DioNext == DioPoll \/ \E i \in Inputs : \E level \in Levels[i] : Bounce(i, level)

-----------------------------------------------------------------------------
\* An input changes to a value that was read at Needs polls in a row, and one that is
\* read so often is taken: a contact that bounces, through other values or back to its
\* old one, neither changes an input early nor holds its change up.
NoBouncePasses ==
    [][\A i \in Inputs :
          /\ debounced'[i] # debounced[i] => steady'[i] = Needs
          /\ steady'[i] = Needs => debounced'[i] = candidate'[i]]_dioVars
=============================================================================
