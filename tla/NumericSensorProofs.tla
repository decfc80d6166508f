------------------------ MODULE NumericSensorProofs ------------------------
(* Theorems about module NumericSensor, for any temperatures, thresholds   *)
(* and hysteresis.                                                         *)
EXTENDS NumericSensor, TLAPS

-----------------------------------------------------------------------------
(* Type correctness                                                        *)

LEMMA TypeStep ==
    ASSUME TypeOK, [Next]_vars
    PROVE  TypeOK'
<1>1. ASSUME NEW r \in Reading, updateValue(r)
      PROVE  TypeOK'
  <2>1. value' \in Reading
    BY <1>1 DEF updateValue, TypeOK, requiresUpdate
  <2>2. alarm' \in [ThresholdId -> BOOLEAN]
    <3>1. \A t \in ThresholdId, v \in Reading :
            Raises(t, v) \in BOOLEAN /\ Lowers(t, v) \in BOOLEAN
      BY DEF Raises, Lowers
    <3>. QED
      BY <1>1, <3>1 DEF updateValue, checkThresholds, TypeOK
  <2>3. turn' \in [ThresholdId -> Reading \cup {NaN}]
    BY <1>1, <2>1 DEF updateValue, History, TypeOK
  <2>. QED
    BY <1>1, <2>1, <2>2, <2>3 DEF updateValue, TypeOK
<1>2. CASE Recurse
  <2>1. frames' \in 0 .. StackLimit
    BY <1>2, SensorAssumption DEF Recurse, EnterUpdateNaN, TypeOK
  <2>. QED
    BY <1>2, <2>1 DEF Recurse, EnterUpdateNaN, TypeOK
<1>3. CASE StackOverflow
  BY <1>3 DEF StackOverflow, TypeOK
<1>4. ASSUME NEW t \in Exported, NEW n \in Limit[t], WriteThreshold(t, n)
      PROVE  TypeOK'
  <2>1. n \in Number
    BY SensorAssumption DEF Number
  <2>2. threshold' \in [ThresholdId -> Number]
    BY <1>4, <2>1 DEF WriteThreshold, TypeOK
  <2>3. \A u \in Exported : threshold'[u] \in Limit[u]
    BY <1>4 DEF WriteThreshold, TypeOK, Exported, High, ThresholdId
  <2>4. turn' \in [ThresholdId -> Reading \cup {NaN}]
    BY <1>4 DEF WriteThreshold, TypeOK
  <2>. QED
    BY <1>4, <2>2, <2>3, <2>4 DEF WriteThreshold, TypeOK
<1>5. ASSUME NEW x \in ClientValue, WriteValue(x)
      PROVE  TypeOK'
  BY <1>5 DEF WriteValue, TypeOK
<1>6. ASSUME NEW propIn \in BOOLEAN, WriteAvailable(propIn)
      PROVE  TypeOK'
  <2>1. frames' \in 0 .. StackLimit
    BY <1>6, SensorAssumption DEF WriteAvailable, EnterUpdateNaN, Idle, TypeOK
  <2>2. CASE propIn
    BY <1>6, <2>2 DEF WriteAvailable, TypeOK
  <2>3. CASE ~propIn
    BY <1>6, <2>1, <2>3 DEF WriteAvailable, EnterUpdateNaN, TypeOK
  <2>. QED
    BY <2>2, <2>3
<1>7. CASE UNCHANGED vars
  BY <1>7 DEF vars, TypeOK
<1>. QED
  BY <1>1, <1>2, <1>3, <1>4, <1>5, <1>6, <1>7 DEF Next

(* Every variable keeps its type.                                          *)
THEOREM SensorTypeCorrect == Spec => []TypeOK
<1>1. Init => TypeOK
  <2>. SUFFICES ASSUME Init PROVE TypeOK
    OBVIOUS
  <2>1. frames \in 0 .. StackLimit
    BY SensorAssumption DEF Init
  <2>2. /\ threshold \in [ThresholdId -> Number]
        /\ \A t \in Exported : threshold[t] \in Limit[t]
    BY SensorAssumption DEF Init, Number
  <2>3. /\ alarm \in [ThresholdId -> BOOLEAN]
        /\ turn \in [ThresholdId -> Reading \cup {NaN}]
    BY DEF Init
  <2>. QED
    BY <2>1, <2>2, <2>3 DEF Init, TypeOK
<1>2. TypeOK /\ [Next]_vars => TypeOK'
  BY TypeStep
<1>. QED
  BY <1>1, <1>2, PTL DEF Spec

-----------------------------------------------------------------------------
(* Steps as the alarms see them                                            *)

(* A step that is not a reading.                                           *)
LEMMA OtherSteps ==
    ASSUME [Next]_vars, ~ \E r \in Reading : updateValue(r)
    PROVE  /\ alarm' = alarm
           /\ reading' = reading
           /\ \/ value' = NaN
              \/ value' = value /\ threshold' = threshold
  BY DEF Next, Recurse, StackOverflow, WriteThreshold, WriteValue, WriteAvailable,
         EnterUpdateNaN, vars

(* The value after a reading is the reading but for the hysteresis.        *)
LEMMA ReadingStep ==
    ASSUME TypeOK, NEW r \in Reading, updateValue(r)
    PROVE  /\ value' \in Int /\ reading' = r /\ r \in Int /\ r # NaN /\ value' # NaN
           /\ Distance(value', r) <= HysteresisPublish
           /\ threshold' = threshold
           /\ \A t \in Exported :
                alarm'[t] = (Raises(t, value') \/ (alarm[t] /\ ~Lowers(t, value')))
<1>1. r \in Int /\ r # NaN /\ Reading \subseteq Int /\ HysteresisPublish \in Nat
  BY SensorAssumption
<1>2. value' = IF requiresUpdate(value, r) THEN r ELSE value
  BY DEF updateValue
<1>3. value' \in Int /\ value' # NaN
  BY <1>1, <1>2, SensorAssumption DEF requiresUpdate, TypeOK
<1>4. Distance(value', r) <= HysteresisPublish
  <2>1. CASE requiresUpdate(value, r)
    BY <1>1, <1>2, <2>1 DEF Distance
  <2>2. CASE ~requiresUpdate(value, r)
    <3>1. value \in Int /\ ~(Distance(value, r) > HysteresisPublish)
      BY <1>1, <2>2 DEF requiresUpdate, TypeOK
    <3>. QED
      BY <1>1, <1>2, <2>2, <3>1 DEF Distance
  <2>. QED
    BY <2>1, <2>2
<1>5. \A t \in Exported :
        alarm'[t] = (Raises(t, value') \/ (alarm[t] /\ ~Lowers(t, value')))
  <2>1. checkThresholds(value')
    BY DEF updateValue
  <2>2. Exported \subseteq ThresholdId
    BY DEF Exported, High, ThresholdId
  <2>. QED
    BY <2>1, <2>2 DEF checkThresholds
<1>. QED
  BY <1>1, <1>3, <1>4, <1>5 DEF updateValue

-----------------------------------------------------------------------------
(* The value and the reading                                               *)

LEMMA TracksStep ==
    ASSUME TypeOK, ValueTracksReading, [Next]_vars
    PROVE  ValueTracksReading'
<1>1. ASSUME NEW r \in Reading, updateValue(r)
      PROVE  ValueTracksReading'
  BY <1>1, ReadingStep DEF ValueTracksReading
<1>2. CASE ~ \E r \in Reading : updateValue(r)
  BY <1>2, OtherSteps DEF ValueTracksReading
<1>. QED
  BY <1>1, <1>2

(* The value never drifts away from the readings.                          *)
THEOREM ValueFollowsReading == Spec => []ValueTracksReading
<1>1. Init => ValueTracksReading
  BY DEF Init, ValueTracksReading
<1>2. TypeOK /\ ValueTracksReading /\ [Next]_vars => ValueTracksReading'
  BY TracksStep
<1>. QED
  BY <1>1, <1>2, SensorTypeCorrect, PTL DEF Spec

-----------------------------------------------------------------------------
(* The alarms and the value                                                *)

(* AlarmFollowsReading is not inductive: it speaks of the reading, while   *)
(* the alarms are decided on the value.                                    *)
AlarmFollowsValue ==
    \A t \in Exported :
        value # NaN /\ threshold[t] # NaN =>
            /\ value >= threshold[t] => alarm[t]
            /\ value < threshold[t] - HysteresisTrigger => ~alarm[t]

LEMMA AlarmStep ==
    ASSUME TypeOK, AlarmFollowsValue, [Next]_vars
    PROVE  AlarmFollowsValue'
<1>1. ASSUME NEW r \in Reading, updateValue(r)
      PROVE  AlarmFollowsValue'
  <2>. SUFFICES ASSUME NEW t \in Exported, threshold[t] # NaN
                PROVE  /\ value' >= threshold[t] => alarm'[t]
                       /\ value' < threshold[t] - HysteresisTrigger => ~alarm'[t]
    BY <1>1, ReadingStep DEF AlarmFollowsValue
  <2>1. t \in High /\ threshold[t] \in Int /\ HysteresisTrigger \in Nat
    BY SensorAssumption DEF Exported, TypeOK, Number, High, ThresholdId
  <2>2. value' \in Int /\ value' # NaN
    BY <1>1, ReadingStep
  <2>3. alarm'[t] = (Raises(t, value') \/ (alarm[t] /\ ~Lowers(t, value')))
    BY <1>1, ReadingStep
  <2>4. Raises(t, value') <=> value' >= threshold[t]
    BY <2>1, <2>2 DEF Raises
  <2>5. Lowers(t, value') <=> value' < threshold[t] - HysteresisTrigger
    BY <2>1, <2>2 DEF Lowers
  <2>6. ~(value' >= threshold[t] /\ value' < threshold[t] - HysteresisTrigger)
    BY <2>1, <2>2
  <2>. QED
    BY <2>3, <2>4, <2>5, <2>6
<1>2. CASE ~ \E r \in Reading : updateValue(r)
  BY <1>2, OtherSteps DEF AlarmFollowsValue
<1>. QED
  BY <1>1, <1>2

THEOREM AlarmsFollowValue == Spec => []AlarmFollowsValue
<1>1. Init => AlarmFollowsValue
  BY DEF Init, AlarmFollowsValue
<1>2. TypeOK /\ AlarmFollowsValue /\ [Next]_vars => AlarmFollowsValue'
  BY AlarmStep
<1>. QED
  BY <1>1, <1>2, SensorTypeCorrect, PTL DEF Spec

(* Whatever was written before, the alarms agree with the last reading.    *)
THEOREM AlarmsFollowReading == Spec => []AlarmFollowsReading
<1>1. TypeOK /\ ValueTracksReading /\ AlarmFollowsValue => AlarmFollowsReading
  <2>. SUFFICES ASSUME TypeOK, ValueTracksReading, AlarmFollowsValue,
                       NEW t \in Exported, value # NaN, threshold[t] # NaN
                PROVE  /\ reading >= threshold[t] + HysteresisPublish => alarm[t]
                       /\ reading < threshold[t] - HysteresisTrigger - HysteresisPublish
                              => ~alarm[t]
    BY DEF AlarmFollowsReading
  <2>1. value \in Int /\ reading \in Int /\ threshold[t] \in Int
    BY SensorAssumption
    DEF TypeOK, Number, ValueTracksReading, Exported, High, ThresholdId
  <2>2. Distance(value, reading) <= HysteresisPublish
    BY DEF ValueTracksReading
  <2>3. /\ value >= threshold[t] => alarm[t]
        /\ value < threshold[t] - HysteresisTrigger => ~alarm[t]
    BY DEF AlarmFollowsValue
  <2>4. /\ reading >= threshold[t] + HysteresisPublish => value >= threshold[t]
        /\ reading < threshold[t] - HysteresisTrigger - HysteresisPublish
               => value < threshold[t] - HysteresisTrigger
    BY <2>1, <2>2, SensorAssumption DEF Distance
  <2>. QED
    BY <2>3, <2>4
<1>. QED
  BY <1>1, SensorTypeCorrect, ValueFollowsReading, AlarmsFollowValue, PTL

-----------------------------------------------------------------------------
(* Critical and warning                                                    *)

LEMMA NestingStep ==
    ASSUME TypeOK, OrderedLimits, CriticalImpliesWarning, [Next]_vars
    PROVE  CriticalImpliesWarning'
<1>1. ASSUME NEW r \in Reading, updateValue(r)
      PROVE  CriticalImpliesWarning'
  <2>. DEFINE c == "CriticalHigh"
              w == "WarningHigh"
              v == value'
  <2>1. c \in Exported /\ w \in Exported /\ c \in High /\ w \in High
    BY DEF Exported, High
  <2>2. /\ threshold[c] # NaN /\ threshold[w] # NaN
        /\ threshold[w] <= threshold[c]
    BY <2>1 DEF OrderedLimits, TypeOK
  <2>3. threshold[c] \in Int /\ threshold[w] \in Int /\ HysteresisTrigger \in Nat
    BY <2>1, <2>2, SensorAssumption DEF TypeOK, Number, Exported, High, ThresholdId
  <2>4. v \in Int /\ v # NaN
    BY <1>1, ReadingStep
  <2>5. Raises(c, v) => Raises(w, v)
    BY <2>1, <2>2, <2>3, <2>4 DEF Raises
  <2>6. Lowers(w, v) => Lowers(c, v)
    BY <2>1, <2>2, <2>3, <2>4 DEF Lowers
  <2>7. /\ alarm'[c] = (Raises(c, v) \/ (alarm[c] /\ ~Lowers(c, v)))
        /\ alarm'[w] = (Raises(w, v) \/ (alarm[w] /\ ~Lowers(w, v)))
    BY <1>1, <2>1, ReadingStep
  <2>8. alarm[c] => alarm[w]
    BY DEF CriticalImpliesWarning
  <2>9. alarm'[c] => alarm'[w]
    BY <2>5, <2>6, <2>7, <2>8
  <2>. QED
    BY <2>9 DEF CriticalImpliesWarning
<1>2. CASE ~ \E r \in Reading : updateValue(r)
  BY <1>2, OtherSteps DEF CriticalImpliesWarning
<1>. QED
  BY <1>1, <1>2

(* With ordered thresholds a critical alarm never comes without a warning. *)
THEOREM CriticalNeverAlone == Spec => []CriticalImpliesWarning
<1>1. Init => CriticalImpliesWarning
  BY DEF Init, CriticalImpliesWarning, ThresholdId
<1>2. TypeOK /\ CriticalImpliesWarning /\ [Next]_vars => CriticalImpliesWarning'
  <2>1. CASE OrderedLimits
    BY <2>1, NestingStep
  <2>2. CASE ~OrderedLimits
    BY <2>2 DEF CriticalImpliesWarning
  <2>. QED
    BY <2>1, <2>2
<1>. QED
  BY <1>1, <1>2, SensorTypeCorrect, PTL DEF Spec

-----------------------------------------------------------------------------
(* The published value                                                     *)

PropertyIsValue == Idle /\ value # NaN => valueProp = value

LEMMA PropertyStep ==
    ASSUME ClientValue = {}, TypeOK, PropertyIsValue, [Next]_vars
    PROVE  PropertyIsValue'
<1>1. ASSUME NEW r \in Reading, updateValue(r)
      PROVE  PropertyIsValue'
  <2>1. CASE requiresUpdate(value, r)
    BY <1>1, <2>1 DEF updateValue, PropertyIsValue
  <2>2. CASE ~requiresUpdate(value, r)
    BY <1>1, <2>2 DEF updateValue, PropertyIsValue, requiresUpdate
  <2>. QED
    BY <2>1, <2>2
<1>2. CASE Recurse \/ StackOverflow
  BY <1>2 DEF Recurse, StackOverflow, EnterUpdateNaN, PropertyIsValue, Idle
<1>3. ASSUME NEW t \in Exported, NEW n \in Limit[t], WriteThreshold(t, n)
      PROVE  PropertyIsValue'
  BY <1>3 DEF WriteThreshold, PropertyIsValue
<1>4. ASSUME NEW propIn \in BOOLEAN, WriteAvailable(propIn)
      PROVE  PropertyIsValue'
  <2>1. CASE propIn
    BY <1>4, <2>1 DEF WriteAvailable, PropertyIsValue, Idle
  <2>2. CASE ~propIn
    BY <1>4, <2>2 DEF WriteAvailable, EnterUpdateNaN, PropertyIsValue
  <2>. QED
    BY <2>1, <2>2
<1>5. CASE UNCHANGED vars
  BY <1>5 DEF vars, PropertyIsValue, Idle
<1>. QED
  BY <1>1, <1>2, <1>3, <1>4, <1>5 DEF Next

(* As long as no client writes Value it shows the last reading.            *)
THEOREM ValueIsPublished ==
    ASSUME ClientValue = {}
    PROVE  Spec => []PublishedValue
<1>1. Init => PropertyIsValue
  BY DEF Init, PropertyIsValue
<1>2. TypeOK /\ PropertyIsValue /\ [Next]_vars => PropertyIsValue'
  BY PropertyStep
<1>3. PropertyIsValue /\ ValueTracksReading => PublishedValue
  BY DEF PropertyIsValue, ValueTracksReading, PublishedValue
<1>. QED
  BY <1>1, <1>2, <1>3, SensorTypeCorrect, ValueFollowsReading, PTL DEF Spec

-----------------------------------------------------------------------------
(* Each alarm implements SchmittTrigger                                    *)

(* What a step does to one exported threshold and its alarm.               *)
TriggerEffect(t) ==
    \/ UNCHANGED <<threshold[t], alarm[t], turn[t]>>
    \/ /\ threshold'[t] = threshold[t]
       /\ \E x \in Reading :
            \/ ~alarm[t] /\ Raises(t, x) /\ alarm'[t] = TRUE /\ turn'[t] = x
            \/ alarm[t] /\ Lowers(t, x) /\ alarm'[t] = FALSE /\ turn'[t] = x
    \/ /\ alarm'[t] = alarm[t]
       /\ turn'[t] = NaN
       /\ threshold'[t] \in Limit[t]

LEMMA TriggerEffectStep ==
    ASSUME TypeOK, [Next]_vars, NEW t \in Exported
    PROVE  TriggerEffect(t)
<1>1. t \in ThresholdId /\ t \in High
  BY DEF Exported, High, ThresholdId
<1>2. ASSUME NEW r \in Reading, updateValue(r)
      PROVE  TriggerEffect(t)
  <2>1. value' \in Reading
    BY <1>2 DEF updateValue, TypeOK, requiresUpdate
  <2>2. alarm'[t] = (Raises(t, value') \/ (alarm[t] /\ ~Lowers(t, value')))
    BY <1>2, ReadingStep
  <2>3. /\ turn'[t] = IF alarm'[t] # alarm[t] THEN value' ELSE turn[t]
        /\ threshold' = threshold
    BY <1>1, <1>2 DEF updateValue, History
  <2>4. alarm[t] \in BOOLEAN /\ alarm'[t] \in BOOLEAN
    BY <1>1, TypeStep DEF TypeOK
  <2>5. CASE alarm'[t] = alarm[t]
    BY <2>3, <2>5 DEF TriggerEffect
  <2>6. CASE ~alarm[t] /\ alarm'[t]
    <3>1. Raises(t, value') /\ turn'[t] = value'
      BY <2>2, <2>3, <2>6
    <3>. QED
      BY <2>1, <2>3, <2>4, <2>6, <3>1 DEF TriggerEffect
  <2>7. CASE alarm[t] /\ ~alarm'[t]
    <3>1. Lowers(t, value') /\ turn'[t] = value'
      BY <2>2, <2>3, <2>7
    <3>. QED
      BY <2>1, <2>3, <2>4, <2>7, <3>1 DEF TriggerEffect
  <2>. QED
    BY <2>4, <2>5, <2>6, <2>7
<1>3. ASSUME NEW u \in Exported, NEW n \in Limit[u], WriteThreshold(u, n)
      PROVE  TriggerEffect(t)
  <2>1. u \in ThresholdId
    BY DEF Exported, High, ThresholdId
  <2>. QED
    BY <1>1, <1>3, <2>1 DEF WriteThreshold, TriggerEffect, TypeOK
<1>4. CASE \/ Recurse \/ StackOverflow \/ UNCHANGED vars
           \/ \E x \in ClientValue : WriteValue(x)
           \/ \E propIn \in BOOLEAN : WriteAvailable(propIn)
  BY <1>4 DEF Recurse, StackOverflow, WriteValue, WriteAvailable, EnterUpdateNaN,
              vars, TriggerEffect
<1>. QED
  BY <1>2, <1>3, <1>4 DEF Next

(* The critical alarm keeps the promise of module SchmittTrigger.          *)
THEOREM CriticalImplementsTrigger == Spec => CriticalIsTrigger
<1>1. Init => CriticalTrigger!Init
  BY SensorAssumption DEF Init, CriticalTrigger!Init, Exported, High, ThresholdId
<1>2. TypeOK /\ [Next]_vars => [CriticalTrigger!Next]_(CriticalTrigger!trigger)
  <2>. SUFFICES ASSUME TypeOK, TriggerEffect("CriticalHigh")
                PROVE  [CriticalTrigger!Next]_(CriticalTrigger!trigger)
    BY TriggerEffectStep DEF Exported, High
  <2>. QED
    BY DEF TriggerEffect, Raises, Lowers, High, CriticalTrigger!Next,
           CriticalTrigger!Sample, CriticalTrigger!Rise, CriticalTrigger!Fall,
           CriticalTrigger!Reaches, CriticalTrigger!FallsBelow,
           CriticalTrigger!MoveLimit, CriticalTrigger!trigger
<1>. QED
  BY <1>1, <1>2, SensorTypeCorrect, PTL DEF Spec, CriticalIsTrigger, CriticalTrigger!Spec

(* So does the warning alarm.                                              *)
THEOREM WarningImplementsTrigger == Spec => WarningIsTrigger
<1>1. Init => WarningTrigger!Init
  BY SensorAssumption DEF Init, WarningTrigger!Init, Exported, High, ThresholdId
<1>2. TypeOK /\ [Next]_vars => [WarningTrigger!Next]_(WarningTrigger!trigger)
  <2>. SUFFICES ASSUME TypeOK, TriggerEffect("WarningHigh")
                PROVE  [WarningTrigger!Next]_(WarningTrigger!trigger)
    BY TriggerEffectStep DEF Exported, High
  <2>. QED
    BY DEF TriggerEffect, Raises, Lowers, High, WarningTrigger!Next,
           WarningTrigger!Sample, WarningTrigger!Rise, WarningTrigger!Fall,
           WarningTrigger!Reaches, WarningTrigger!FallsBelow,
           WarningTrigger!MoveLimit, WarningTrigger!trigger
<1>. QED
  BY <1>1, <1>2, SensorTypeCorrect, PTL DEF Spec, WarningIsTrigger, WarningTrigger!Spec

-----------------------------------------------------------------------------
(* No chatter                                                              *)

(* Each alarm last changed on its side of the dead band of the threshold   *)
(* it still has: a write of the threshold forgets the change.              *)
TurnedOutsideBand ==
    \A t \in Exported : turn[t] # NaN =>
        /\ threshold[t] # NaN
        /\ IF alarm[t] THEN turn[t] >= threshold[t]
           ELSE turn[t] < threshold[t] - HysteresisTrigger

LEMMA TurnStep ==
    ASSUME TypeOK, TurnedOutsideBand, [Next]_vars
    PROVE  TurnedOutsideBand'
<1>. SUFFICES ASSUME NEW t \in Exported, turn'[t] # NaN
              PROVE  /\ threshold'[t] # NaN
                     /\ IF alarm'[t] THEN turn'[t] >= threshold'[t]
                        ELSE turn'[t] < threshold'[t] - HysteresisTrigger
  BY DEF TurnedOutsideBand
<1>1. TriggerEffect(t)
  BY TriggerEffectStep
<1>2. t \in High
  BY DEF Exported
<1>3. CASE UNCHANGED <<threshold[t], alarm[t], turn[t]>>
  BY <1>3 DEF TurnedOutsideBand
<1>4. ASSUME NEW x \in Reading, threshold'[t] = threshold[t],
             Raises(t, x), alarm'[t] = TRUE, turn'[t] = x
      PROVE  threshold'[t] # NaN /\ alarm'[t] /\ turn'[t] >= threshold'[t]
  BY <1>2, <1>4 DEF Raises
<1>5. ASSUME NEW x \in Reading, threshold'[t] = threshold[t],
             Lowers(t, x), alarm'[t] = FALSE, turn'[t] = x
      PROVE  /\ threshold'[t] # NaN /\ ~alarm'[t]
             /\ turn'[t] < threshold'[t] - HysteresisTrigger
  BY <1>2, <1>5 DEF Lowers
<1>. QED
  BY <1>1, <1>3, <1>4, <1>5 DEF TriggerEffect

(* A change of an alarm is a dead band away from the one before.           *)
LEMMA TurnCrossesBand ==
    ASSUME TypeOK, TurnedOutsideBand, [Next]_vars, NEW t \in Exported,
           alarm'[t] # alarm[t], turn[t] # NaN
    PROVE  IF alarm'[t] THEN turn'[t] - turn[t] > HysteresisTrigger
           ELSE turn[t] - turn'[t] > HysteresisTrigger
<1>1. TriggerEffect(t)
  BY TriggerEffectStep
<1>2. t \in High /\ t \in ThresholdId
  BY DEF Exported, High, ThresholdId
<1>3. turn[t] \in Int /\ threshold[t] \in Int /\ HysteresisTrigger \in Nat
  BY <1>2, SensorAssumption DEF TypeOK, TurnedOutsideBand, Number
<1>4. ASSUME NEW x \in Reading, ~alarm[t], Raises(t, x), alarm'[t] = TRUE,
             turn'[t] = x
      PROVE  alarm'[t] /\ turn'[t] - turn[t] > HysteresisTrigger
  <2>1. x \in Int /\ x >= threshold[t]
    BY <1>2, <1>4, SensorAssumption DEF Raises
  <2>2. turn[t] < threshold[t] - HysteresisTrigger
    BY <1>4 DEF TurnedOutsideBand
  <2>. QED
    BY <1>3, <1>4, <2>1, <2>2
<1>5. ASSUME NEW x \in Reading, alarm[t], Lowers(t, x), alarm'[t] = FALSE,
             turn'[t] = x
      PROVE  ~alarm'[t] /\ turn[t] - turn'[t] > HysteresisTrigger
  <2>1. x \in Int /\ x < threshold[t] - HysteresisTrigger
    BY <1>2, <1>5, SensorAssumption DEF Lowers
  <2>2. turn[t] >= threshold[t]
    BY <1>5 DEF TurnedOutsideBand
  <2>. QED
    BY <1>3, <1>5, <2>1, <2>2
<1>. QED
  BY <1>1, <1>4, <1>5 DEF TriggerEffect

(* Between two changes of an alarm with its threshold left alone the value *)
(* crosses the whole dead band.                                            *)
THEOREM SensorNeverChatters == Spec => AlarmsNeverChatter
<1>1. Init => TurnedOutsideBand
  BY DEF Init, TurnedOutsideBand, Exported, High, ThresholdId
<1>2. TypeOK /\ TurnedOutsideBand /\ [Next]_vars => TurnedOutsideBand'
  BY TurnStep
<1>3. Spec => []TurnedOutsideBand
  BY <1>1, <1>2, SensorTypeCorrect, PTL DEF Spec
<1>4. TypeOK /\ TurnedOutsideBand /\ [Next]_vars =>
        (alarm["CriticalHigh"]' # alarm["CriticalHigh"] /\ turn["CriticalHigh"] # NaN =>
            IF alarm["CriticalHigh"]'
            THEN turn["CriticalHigh"]' - turn["CriticalHigh"] > HysteresisTrigger
            ELSE turn["CriticalHigh"] - turn["CriticalHigh"]' > HysteresisTrigger)
  BY TurnCrossesBand DEF Exported, High
<1>5. TypeOK /\ TurnedOutsideBand /\ [Next]_vars =>
        (alarm["WarningHigh"]' # alarm["WarningHigh"] /\ turn["WarningHigh"] # NaN =>
            IF alarm["WarningHigh"]'
            THEN turn["WarningHigh"]' - turn["WarningHigh"] > HysteresisTrigger
            ELSE turn["WarningHigh"] - turn["WarningHigh"]' > HysteresisTrigger)
  BY TurnCrossesBand DEF Exported, High
<1>6. Spec => CriticalTrigger!NoChatter
  BY <1>3, <1>4, SensorTypeCorrect, PTL DEF Spec, CriticalTrigger!NoChatter
<1>7. Spec => WarningTrigger!NoChatter
  BY <1>3, <1>5, SensorTypeCorrect, PTL DEF Spec, WarningTrigger!NoChatter
<1>. QED
  BY <1>6, <1>7 DEF AlarmsNeverChatter
=============================================================================
