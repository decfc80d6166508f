----------------------------- MODULE PollService -----------------------------
(***************************************************************************)
(* What the health status poll promises, without timers, maps and          *)
(* suspended coroutines: up to a number of loops ask drives in memory for  *)
(* their health, one drive each at a time; a drive counts its failures in  *)
(* a row, and one that has reached the limit is asked no more.             *)
(*                                                                         *)
(* Application shows that the daemon does no more than this.               *)
(***************************************************************************)
EXTENDS Integers

CONSTANTS
    DriveObj,  \* drive objects
    Loop,      \* loops that ask
    NULL,      \* no drive
    Limit      \* failures that exclude a drive

VARIABLES
    alive,     \* the objects in memory
    request,   \* the drive each loop awaits an answer from
    failures   \* failures of each drive since its last answer

vars == <<alive, request, failures>>

Asked == {request[l] : l \in Loop} \ {NULL}

Init ==
    /\ alive = {}
    /\ request = [l \in Loop |-> NULL]
    /\ failures = [o \in DriveObj |-> 0]

(* New objects have not failed; they take the place of no other.           *)
Come(new) ==
    /\ alive' = alive \cup new
    /\ failures' = [o \in DriveObj |-> IF o \in new THEN 0 ELSE failures[o]]
    /\ UNCHANGED request

(* Objects nobody asks may be freed.                                       *)
Go ==
    /\ alive' \subseteq alive
    /\ Asked \subseteq alive'
    /\ UNCHANGED <<request, failures>>

(* A loop's request ends, if it has one, and it asks the next drive, if    *)
(* there is one left to ask.                                               *)
Turn(l) ==
    /\ IF request[l] = NULL
       THEN UNCHANGED failures
       ELSE \E count \in {0, failures[request[l]] + 1} :
               failures' = [failures EXCEPT ![request[l]] = count]
    /\ \E next \in {NULL} \cup {o \in alive : failures'[o] < Limit} :
          request' = [request EXCEPT ![l] = next]
    /\ alive' \subseteq alive
    /\ Asked' \subseteq alive'

Next ==
    \/ \E new \in SUBSET (DriveObj \ alive) : Come(new)
    \/ Go
    \/ \E l \in Loop : Turn(l)

Spec == Init /\ [][Next]_vars
=============================================================================
