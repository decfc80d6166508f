--------------------------- MODULE SchmittTrigger ---------------------------
(***************************************************************************)
(* What the comment in NumericSensor::getThresholdAssertions promises of   *)
(* an alarm: raised at once when the value reaches the threshold, lowered  *)
(* only when the value has fallen a distance Band below it.  A threshold   *)
(* may be moved at any time; the alarm is then as it was until the next    *)
(* value.  last is a history variable: the value at which the alarm last   *)
(* changed, NaN if it did not change since the threshold was moved.        *)
(***************************************************************************)
EXTENDS Integers

CONSTANTS Band,     \* hysteresisTrigger
          Samples,  \* values
          Limits,   \* thresholds
          NaN       \* not a number, as a threshold or for no value

(* What the theorems of module SchmittTriggerProofs assume of them.        *)
TriggerAssumption ==
    /\ Band \in Nat
    /\ NaN \notin Int
    /\ Samples \subseteq Int
    /\ Limits \subseteq Int \cup {NaN}

VARIABLES limit, alarm, last

trigger == <<limit, alarm, last>>

TypeOK ==
    /\ limit \in Limits
    /\ alarm \in BOOLEAN
    /\ last \in Samples \cup {NaN}

Init ==
    /\ limit \in Limits
    /\ alarm = FALSE
    /\ last = NaN

(* Comparisons with NaN are false.                                         *)
Reaches(x) == limit # NaN /\ x >= limit

FallsBelow(x) == limit # NaN /\ x < limit - Band

Rise(x) == ~alarm /\ Reaches(x) /\ alarm' = TRUE /\ last' = x
Fall(x) == alarm /\ FallsBelow(x) /\ alarm' = FALSE /\ last' = x
Keep(x) ==
    /\ IF alarm THEN ~FallsBelow(x) ELSE ~Reaches(x)
    /\ UNCHANGED <<alarm, last>>

Sample(x) == (Rise(x) \/ Fall(x) \/ Keep(x)) /\ UNCHANGED limit

MoveLimit(n) == limit' = n /\ last' = NaN /\ UNCHANGED alarm

Next ==
    \/ \E x \in Samples : Sample(x)
    \/ \E n \in Limits : MoveLimit(n)

Spec == Init /\ [][Next]_trigger

-----------------------------------------------------------------------------
(* The alarm's last change was on its side of the dead band.               *)
LastChange ==
    last # NaN => /\ limit # NaN
                  /\ IF alarm THEN last >= limit ELSE last < limit - Band

(* No chatter: between two changes of the alarm with the threshold left    *)
(* alone the value moves by more than the dead band.                       *)
NoChatter ==
    [][alarm' # alarm /\ last # NaN =>
          IF alarm' THEN last' - last > Band ELSE last - last' > Band]_trigger
=============================================================================
