--------------------------- MODULE NumericSensor ---------------------------
(***************************************************************************)
(* A drive's temperature sensor (numeric_sensor.cpp): the value, the four  *)
(* default thresholds, the D-Bus properties Value, Available, Functional   *)
(* and the alarms, and the D-Bus clients that write to them.               *)
(*                                                                         *)
(* A double is an integer in units chosen by the constants, or NaN.        *)
(* Signals: assertThreshold sends ThresholdAsserted exactly when it        *)
(* changes an alarm.                                                       *)
(*                                                                         *)
(* reading and turn are history variables.  Definitions named Bug... are   *)
(* faults that break a property; no definition uses them.                  *)
(***************************************************************************)
EXTENDS Integers

CONSTANTS
    NaN,
    Reading,            \* temperatures a drive reports
    Limit,              \* values D-Bus clients give a threshold
    ClientValue,        \* values D-Bus clients write to Value
    DefaultThreshold,   \* getDefaultThresholds
    HysteresisTrigger,  \* (max - min) * 0.01
    HysteresisPublish,  \* (max - min) * 0.0001
    StackLimit          \* nested calls of updateValue the stack has room for

ThresholdId == {"CriticalHigh", "CriticalLow", "WarningHigh", "WarningLow"}
High == {"CriticalHigh", "WarningHigh"}
Low == ThresholdId \ High

(* Thresholds for which selectThresholdInterface finds an interface: the   *)
(* others have no D-Bus property and no alarm.                             *)
Exported == High

ASSUME SensorAssumption ==
    /\ NaN \notin Int
    /\ Reading \subseteq Int
    /\ Limit \in [Exported -> SUBSET (Int \cup {NaN})]
    /\ ClientValue \subseteq Int \cup {NaN}
    /\ DefaultThreshold \in [ThresholdId -> Int]
    /\ \A t \in Exported : DefaultThreshold[t] \in Limit[t]
    /\ HysteresisTrigger \in Nat
    /\ HysteresisPublish \in Nat
    /\ StackLimit \in Nat \ {0}

VARIABLES
    value,         \* NumericSensor::value
    threshold,     \* NumericSensor::thresholds
    valueProp,     \* D-Bus property Value
    available,     \* D-Bus property Available
    functional,    \* D-Bus property Functional
    alarm,         \* the alarm properties; FALSE where there is none
    frames,        \* calls of updateValue(NaN) on the stack
    overflown,     \* the stack has overflown
    reading,       \* the last temperature passed to updateValue
    turn           \* value at which each alarm last changed since its
                   \* threshold was written, NaN if it did not

vars == <<value, threshold, valueProp, available, functional, alarm, frames,
          overflown, reading, turn>>

Number == Int \cup {NaN}

TypeOK ==
    /\ value \in Reading \cup {NaN}
    /\ threshold \in [ThresholdId -> Number]
    /\ \A t \in Exported : threshold[t] \in Limit[t]
    /\ valueProp \in Reading \cup ClientValue \cup {NaN}
    /\ available \in BOOLEAN
    /\ functional \in BOOLEAN
    /\ alarm \in [ThresholdId -> BOOLEAN]
    /\ frames \in 0 .. StackLimit
    /\ overflown \in BOOLEAN
    /\ reading \in Reading \cup {NaN}
    /\ turn \in [ThresholdId -> Reading \cup {NaN}]

-----------------------------------------------------------------------------
Distance(a, b) == IF a <= b THEN b - a ELSE a - b

BugRequiresTrigger(lVal, rVal) ==
    \/ lVal = NaN \/ rVal = NaN
    \/ Distance(lVal, rVal) > HysteresisTrigger

requiresUpdate(lVal, rVal) ==
    \/ lVal = NaN \/ rVal = NaN
    \/ Distance(lVal, rVal) > HysteresisPublish

(* The changes getThresholdAssertions finds for value v: raise, lower or   *)
(* (neither) leave the alarm of t alone.  Comparisons with NaN are false.  *)
Raises(t, v) ==
    /\ v # NaN /\ threshold[t] # NaN
    /\ IF t \in High THEN v >= threshold[t] ELSE v <= threshold[t]

BugLowers(t, v) == v # NaN /\ ~Raises(t, v)

Lowers(t, v) ==
    /\ v # NaN /\ threshold[t] # NaN
    /\ IF t \in High
       THEN v < threshold[t] - HysteresisTrigger
       ELSE v > threshold[t] + HysteresisTrigger

BugCheckFirstOnly(v) ==
    alarm' = [t \in ThresholdId |->
                 IF t # "CriticalHigh" THEN alarm[t]
                 ELSE Raises(t, v) \/ (alarm[t] /\ ~Lowers(t, v))]

(* assertThreshold drops the change of a threshold that is not exported.   *)
checkThresholds(v) ==
    alarm' = [t \in ThresholdId |->
                 IF t \notin Exported THEN alarm[t]
                 ELSE Raises(t, v) \/ (alarm[t] /\ ~Lowers(t, v))]

History(v) ==
    turn' = [t \in ThresholdId |-> IF alarm'[t] # alarm[t] THEN v ELSE turn[t]]

Init ==
    /\ value = NaN
    /\ threshold = DefaultThreshold
    /\ valueProp = NaN
    /\ available = TRUE
    /\ functional = TRUE
    /\ alarm = [t \in ThresholdId |-> FALSE]
    /\ frames = 0
    /\ overflown = FALSE
    /\ reading = NaN
    /\ turn = [t \in ThresholdId |-> NaN]

(* The thread is not inside updateValue(NaN).                              *)
Idle == frames = 0

(* A poll response with temperature r.                                     *)
updateValue(r) ==
    LET v == IF requiresUpdate(value, r) THEN r ELSE value
    IN  /\ Idle
        /\ value' = v
        /\ valueProp' = IF requiresUpdate(value, r) THEN r ELSE valueProp
        /\ checkThresholds(v)
        /\ functional' = TRUE
        /\ available' = TRUE
        /\ reading' = r
        /\ History(v)
        /\ UNCHANGED <<threshold, frames, overflown>>

(* updateValue(NaN) up to its call of markFunctional(FALSE), which sets    *)
(* Functional and calls updateValue(NaN) again: one more frame, the same   *)
(* effects.  The thresholds compare to nothing, markAvailable is not       *)
(* reached.                                                                *)
EnterUpdateNaN ==
    /\ value' = NaN
    /\ valueProp' = NaN
    /\ functional' = FALSE
    /\ frames' = frames + 1
    /\ UNCHANGED <<threshold, alarm, overflown, reading, turn>>

Recurse ==
    /\ ~Idle
    /\ frames < StackLimit
    /\ EnterUpdateNaN
    /\ UNCHANGED available

StackOverflow ==
    /\ frames = StackLimit
    /\ ~overflown
    /\ overflown' = TRUE
    /\ UNCHANGED <<value, threshold, valueProp, available, functional, alarm,
                   frames, reading, turn>>

-----------------------------------------------------------------------------
(* Property writes by D-Bus clients                                        *)

BugWriteLastThreshold(t, n) ==
    /\ Idle
    /\ threshold' = [threshold EXCEPT !["WarningHigh"] = n]
    /\ value' = NaN
    /\ turn' = [turn EXCEPT ![t] = NaN]
    /\ UNCHANGED <<valueProp, available, functional, alarm, frames, overflown,
                   reading>>

BugWriteKeepsValue(t, n) ==
    /\ Idle
    /\ threshold' = [threshold EXCEPT ![t] = n]
    /\ UNCHANGED <<value, valueProp, available, functional, alarm, frames,
                   overflown, reading, turn>>

(* Forgets the value, so that the next reading is published and checked.   *)
WriteThreshold(t, n) ==
    /\ Idle
    /\ threshold' = [threshold EXCEPT ![t] = n]
    /\ value' = NaN
    /\ turn' = [turn EXCEPT ![t] = NaN]
    /\ UNCHANGED <<valueProp, available, functional, alarm, frames, overflown,
                   reading>>

(* Value is registered readWrite: the write changes the property alone.    *)
WriteValue(x) ==
    /\ Idle
    /\ valueProp' = x
    /\ UNCHANGED <<value, threshold, available, functional, alarm, frames,
                   overflown, reading, turn>>

WriteAvailable(propIn) ==
    /\ Idle
    /\ propIn # available
    /\ available' = propIn
    /\ IF propIn
       THEN UNCHANGED <<value, threshold, valueProp, functional, alarm, frames,
                        overflown, reading, turn>>
       ELSE EnterUpdateNaN

Next ==
    \/ \E r \in Reading : updateValue(r)
    \/ Recurse
    \/ StackOverflow
    \/ \E t \in Exported : \E n \in Limit[t] : WriteThreshold(t, n)
    \/ \E x \in ClientValue : WriteValue(x)
    \/ \E propIn \in BOOLEAN : WriteAvailable(propIn)

Spec == Init /\ [][Next]_vars

-----------------------------------------------------------------------------
(* Properties                                                              *)

(* However slowly the temperature drifts, the value the alarms are decided *)
(* on stays within the publishing hysteresis of the last reading.          *)
ValueTracksReading ==
    value # NaN => reading # NaN /\ Distance(value, reading) <= HysteresisPublish

(* After a reading each alarm is on if the reading has reached the         *)
(* threshold and off if it is below the dead band, allowing for the        *)
(* publishing hysteresis, whatever thresholds were written before.         *)
AlarmFollowsReading ==
    \A t \in Exported :
        value # NaN /\ threshold[t] # NaN =>
            /\ reading >= threshold[t] + HysteresisPublish => alarm[t]
            /\ reading < threshold[t] - HysteresisTrigger - HysteresisPublish
                   => ~alarm[t]

(* If clients keep every warning threshold at or below the critical ones,  *)
(* no critical alarm is on without the warning alarm, though the two have  *)
(* dead bands of their own and are written separately.                     *)
OrderedLimits ==
    \A w \in Limit["WarningHigh"], c \in Limit["CriticalHigh"] :
        w # NaN /\ c # NaN /\ w <= c

CriticalImpliesWarning ==
    OrderedLimits => (alarm["CriticalHigh"] => alarm["WarningHigh"])

(* The alarms keep the promise of the Schmitt trigger comment.             *)
CriticalTrigger ==
    INSTANCE SchmittTrigger
        WITH Band <- HysteresisTrigger, Samples <- Reading,
             Limits <- Limit["CriticalHigh"], limit <- threshold["CriticalHigh"],
             alarm <- alarm["CriticalHigh"], last <- turn["CriticalHigh"]
WarningTrigger ==
    INSTANCE SchmittTrigger
        WITH Band <- HysteresisTrigger, Samples <- Reading,
             Limits <- Limit["WarningHigh"], limit <- threshold["WarningHigh"],
             alarm <- alarm["WarningHigh"], last <- turn["WarningHigh"]

CriticalIsTrigger == CriticalTrigger!Spec
WarningIsTrigger == WarningTrigger!Spec

(* A temperature that hovers at a threshold does not make its alarm        *)
(* flicker: between two changes, with the threshold left alone, the value  *)
(* crosses the whole dead band, however the readings and the writes of the *)
(* other threshold fall (the comment's "threshold trigger spam").          *)
AlarmsNeverChatter == CriticalTrigger!NoChatter /\ WarningTrigger!NoChatter

(* Unless clients write Value it is the last reading, but for the          *)
(* publishing hysteresis, also after thresholds were written.              *)
PublishedValue == Idle /\ value # NaN =>
    valueProp # NaN /\ Distance(valueProp, reading) <= HysteresisPublish
=============================================================================
