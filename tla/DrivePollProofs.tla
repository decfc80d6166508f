--------------------------- MODULE DrivePollProofs ---------------------------
(* What the poll makes of a temperature byte, and how it uses the sensor.    *)
EXTENDS DrivePoll, TLAPS

(* convertToCelsius throws or returns a temperature the drive can mean: a  *)
(* number from -59 to 126 whose two's complement is the byte.              *)
THEOREM ConversionIsSound ==
    ASSUME NEW tempByte \in 0 .. 255, ~Unreadable(tempByte)
    PROVE  /\ convertToCelsius(tempByte) \in Celsius
           /\ (convertToCelsius(tempByte) - tempByte) % 256 = 0
BY DEF Unreadable, convertToCelsius, Celsius

(* And no temperature in that range is refused.                            *)
THEOREM ConversionIsComplete ==
    ASSUME NEW celsius \in Celsius
    PROVE  LET tempByte == celsius % 256
           IN  ~Unreadable(tempByte) /\ convertToCelsius(tempByte) = celsius
BY DEF Unreadable, convertToCelsius, Celsius

(* The test for the data keeps the temperature inside the response: the    *)
(* byte it converts is the drive's when there are three bytes of data, and *)
(* one of the response's own CRC when there are fewer.                     *)
THEOREM TemperatureIsInside ==
    ASSUME NEW rsp \in ResponseRecord, HasData(rsp)
    PROVE  /\ Reports(rsp) <=> OptionalDataLength(rsp) >= 3
           /\ ~Reports(rsp) =>
                ByteKind(ManagementResponseMin, rsp, cTempOffset) = "crc"
<1>1. rsp.size \in Nat /\ rsp.size >= 13
  BY DEF ResponseRecord, HasData, OptionalDataLength, DataLength,
         ManagementResponseMin, NVMeResponseMin, CommonHeader, StatusCode,
         NVMeManagementResponse, CRC32C
<1> DEFINE at == ManagementResponseMin + cTempOffset
<1>2. at = 10 /\ CRC32C = 4 /\ OptionalDataLength(rsp) = rsp.size - 12
  BY DEF OptionalDataLength, DataLength, ManagementResponseMin, cTempOffset,
         NVMeResponseMin, CommonHeader, StatusCode, NVMeManagementResponse,
         CRC32C
<1>3. CASE rsp.size >= 15
  BY <1>1, <1>2, <1>3 DEF Reports, ByteKind
<1>4. CASE rsp.size < 15
  <2>1. ~(at < rsp.size - CRC32C)
    BY <1>1, <1>2, <1>4
  <2>2. at \in rsp.size - CRC32C .. rsp.size - 1
    BY <1>1, <1>2, <1>4
  <2>3. ByteKind(ManagementResponseMin, rsp, cTempOffset) = "crc"
    BY <1>1, <1>2, <2>1, <2>2 DEF ByteKind
  <2> QED  BY <1>1, <1>2, <1>4, <2>3 DEF Reports
<1> QED  BY <1>1, <1>3, <1>4

LEMMA StepUsesSensor ==
    ASSUME [Next]_vars
    PROVE  [Sensor!Next]_sensorVars
<1>1. CASE PollFailed
  BY <1>1 DEF PollFailed, sensorVars
<1>2. ASSUME NEW rsp \in Response,
             PollRefused(rsp) \/ PollThrows(rsp) \/ NoData(rsp)
      PROVE  UNCHANGED sensorVars
  BY <1>2 DEF PollRefused, PollFailed, PollThrows, NoData, sensorVars
<1>3. ASSUME NEW rsp \in Response, NEW tempByte \in TempByte,
             NEW cwarn \in BOOLEAN, PollAnswered(rsp, tempByte, cwarn)
      PROVE  [Sensor!Next]_sensorVars
  <2>1. CASE Unreadable(tempByte)
    BY <1>3, <2>1 DEF PollAnswered, sensorVars
  <2>2. CASE ~Unreadable(tempByte)
    <3>1. convertToCelsius(tempByte) \in Celsius
      BY <2>2, ConversionIsSound, TempByteAssumption
    <3>2. Sensor!updateValue(convertToCelsius(tempByte))
      BY <1>3, <2>2 DEF PollAnswered
    <3> QED  BY <3>1, <3>2 DEF Sensor!Next
  <2> QED  BY <2>1, <2>2
<1>4. ASSUME NEW t \in Sensor!Exported, NEW n \in Limit[t], WriteThreshold(t, n)
      PROVE  Sensor!Next
  BY <1>4 DEF WriteThreshold, Sensor!Next
<1>5. CASE SensorStep
  BY <1>5 DEF SensorStep, Sensor!Next
<1>6. CASE UNCHANGED vars
  BY <1>6 DEF vars, sensorVars
<1> QED  BY <1>1, <1>2, <1>3, <1>4, <1>5, <1>6 DEF Next

(* Whatever bytes a drive answers, the poll uses the sensor as the module  *)
(* NumericSensor says, with temperatures from -59 to 126: what is proved   *)
(* of that module for such readings holds of a polled drive.               *)
THEOREM PollUsesSensor == Spec => SensorIsUsed
<1>1. Init => Sensor!Init
  BY DEF Init
<1>2. [Next]_vars => [Sensor!Next]_Sensor!vars
  BY StepUsesSensor DEF Sensor!vars, sensorVars
<1> QED  BY <1>1, <1>2, PTL DEF Spec, SensorIsUsed, Sensor!Spec

-----------------------------------------------------------------------------
(* Types                                                                   *)

LEMMA SensorTypeStep ==
    ASSUME Sensor!TypeOK, [Sensor!Next]_sensorVars
    PROVE  Sensor!TypeOK'
<1>1. ASSUME NEW r \in Celsius, Sensor!updateValue(r)
      PROVE  Sensor!TypeOK'
  <2>1. value' \in Celsius
    BY <1>1 DEF Sensor!updateValue, Sensor!TypeOK, Sensor!requiresUpdate
  <2>2. alarm' \in [Sensor!ThresholdId -> BOOLEAN]
    <3>1. \A t \in Sensor!ThresholdId, v \in Celsius :
            Sensor!Raises(t, v) \in BOOLEAN /\ Sensor!Lowers(t, v) \in BOOLEAN
      BY DEF Sensor!Raises, Sensor!Lowers
    <3> QED  BY <1>1, <3>1
             DEF Sensor!updateValue, Sensor!checkThresholds, Sensor!TypeOK
  <2>3. turn' \in [Sensor!ThresholdId -> Celsius \cup {NaN}]
    BY <1>1, <2>1 DEF Sensor!updateValue, Sensor!History, Sensor!TypeOK
  <2> QED  BY <1>1, <2>1, <2>2, <2>3 DEF Sensor!updateValue, Sensor!TypeOK
<1>2. CASE Sensor!Recurse
  <2>1. frames' \in 0 .. StackLimit
    BY <1>2, PollSensorAssumption
    DEF Sensor!Recurse, Sensor!EnterUpdateNaN, Sensor!TypeOK
  <2> QED  BY <1>2, <2>1
           DEF Sensor!Recurse, Sensor!EnterUpdateNaN, Sensor!TypeOK
<1>3. CASE Sensor!StackOverflow
  BY <1>3 DEF Sensor!StackOverflow, Sensor!TypeOK
<1>4. ASSUME NEW t \in Sensor!Exported, NEW n \in Limit[t],
             Sensor!WriteThreshold(t, n)
      PROVE  Sensor!TypeOK'
  <2>1. n \in Sensor!Number
    BY PollSensorAssumption DEF Sensor!Number
  <2>2. threshold' \in [Sensor!ThresholdId -> Sensor!Number]
    BY <1>4, <2>1 DEF Sensor!WriteThreshold, Sensor!TypeOK
  <2>3. \A u \in Sensor!Exported : threshold'[u] \in Limit[u]
    BY <1>4 DEF Sensor!WriteThreshold, Sensor!TypeOK, Sensor!Exported,
       Sensor!High, Sensor!ThresholdId
  <2>4. turn' \in [Sensor!ThresholdId -> Celsius \cup {NaN}]
    BY <1>4 DEF Sensor!WriteThreshold, Sensor!TypeOK
  <2> QED  BY <1>4, <2>2, <2>3, <2>4 DEF Sensor!WriteThreshold, Sensor!TypeOK
<1>5. ASSUME NEW x \in ClientValue, Sensor!WriteValue(x)
      PROVE  Sensor!TypeOK'
  BY <1>5 DEF Sensor!WriteValue, Sensor!TypeOK
<1>6. ASSUME NEW propIn \in BOOLEAN, Sensor!WriteAvailable(propIn)
      PROVE  Sensor!TypeOK'
  <2>1. frames' \in 0 .. StackLimit
    BY <1>6, PollSensorAssumption
    DEF Sensor!WriteAvailable, Sensor!EnterUpdateNaN, Sensor!Idle, Sensor!TypeOK
  <2>2. CASE propIn
    BY <1>6, <2>2 DEF Sensor!WriteAvailable, Sensor!TypeOK
  <2>3. CASE ~propIn
    BY <1>6, <2>1, <2>3
    DEF Sensor!WriteAvailable, Sensor!EnterUpdateNaN, Sensor!TypeOK
  <2> QED  BY <2>2, <2>3
<1>7. CASE UNCHANGED sensorVars
  BY <1>7 DEF sensorVars, Sensor!TypeOK
<1> QED  BY <1>1, <1>2, <1>3, <1>4, <1>5, <1>6, <1>7 DEF Sensor!Next

LEMMA PollTypeStep ==
    ASSUME TypeOK, [Next]_vars
    PROVE  TypeOK'
<1>1. Sensor!TypeOK'
  BY StepUsesSensor, SensorTypeStep DEF TypeOK
<1>2. curErrorCount' \in 0 .. MaxHealthStatusCount
  BY CountAssumption DEF TypeOK, Next, PollRefused, PollFailed, PollThrows,
     NoData, PollAnswered, Polled, WriteThreshold, SensorStep, vars
<1>3. cwarnState' \in BOOLEAN
  BY DEF TypeOK, Next, PollRefused, PollFailed, PollThrows,
     NoData, PollAnswered, WriteThreshold, SensorStep, vars
<1>4. running' \in BOOLEAN
  BY DEF TypeOK, Next, PollRefused, PollFailed, PollThrows,
     NoData, PollAnswered, WriteThreshold, SensorStep, vars
<1>5. cTemp' \in TempByte \cup {NaN}
  BY DEF TypeOK, Next, PollRefused, PollFailed, PollThrows,
     NoData, PollAnswered, WriteThreshold, SensorStep, vars
<1> QED  BY <1>1, <1>2, <1>3, <1>4, <1>5 DEF TypeOK

(* Every variable keeps its type: the error count, a uint8_t, stays at or  *)
(* below maxHealthStatusCount, and the sensor's value is a temperature the *)
(* conversion can return, whatever the drive answers.                      *)
THEOREM DrivePollTypeCorrect == Spec => []TypeOK
<1>1. Init => TypeOK
  <2> SUFFICES ASSUME Init PROVE TypeOK
    OBVIOUS
  <2>1. /\ frames \in 0 .. StackLimit
        /\ curErrorCount \in 0 .. MaxHealthStatusCount
    BY PollSensorAssumption, CountAssumption DEF Init, Sensor!Init
  <2>2. /\ threshold \in [Sensor!ThresholdId -> Sensor!Number]
        /\ \A t \in Sensor!Exported : threshold[t] \in Limit[t]
    BY PollSensorAssumption DEF Init, Sensor!Init, Sensor!Number
  <2>3. /\ alarm \in [Sensor!ThresholdId -> BOOLEAN]
        /\ turn \in [Sensor!ThresholdId -> Celsius \cup {NaN}]
    BY DEF Init, Sensor!Init
  <2>4. Sensor!TypeOK
    BY <2>1, <2>2, <2>3 DEF Init, Sensor!Init, Sensor!TypeOK
  <2> QED  BY <2>1, <2>4 DEF Init, TypeOK
<1>2. TypeOK /\ [Next]_vars => TypeOK'
  BY PollTypeStep
<1> QED  BY <1>1, <1>2, PTL DEF Spec

-----------------------------------------------------------------------------
(* The drive's temperature, the sensor's reading and its value             *)

(* A sensor that knows a value knows it from the byte of the last answer   *)
(* that had one.                                                           *)
ReadingIsTheDrives ==
    (cTemp # NaN /\ ~Unreadable(cTemp) /\ value # NaN) =>
        reading = convertToCelsius(cTemp)

AlarmFollowsValue ==
    \A t \in Sensor!Exported :
        value # NaN /\ threshold[t] # NaN =>
            /\ value >= threshold[t] => alarm[t]
            /\ value < threshold[t] - HysteresisTrigger => ~alarm[t]

PollInv ==
    /\ ReadingIsTheDrives
    /\ Sensor!ValueTracksReading
    /\ AlarmFollowsValue

LEMMA UpdateStep ==
    ASSUME TypeOK, NEW r \in Celsius, Sensor!updateValue(r)
    PROVE  /\ value' \in Celsius /\ value' # NaN
           /\ reading' = r /\ r # NaN
           /\ Sensor!Distance(value', r) <= HysteresisPublish
           /\ threshold' = threshold
           /\ \A t \in Sensor!Exported :
                alarm'[t] = (Sensor!Raises(t, value')
                                \/ (alarm[t] /\ ~Sensor!Lowers(t, value')))
<1>1. /\ value \in Celsius \cup {NaN} /\ HysteresisPublish \in Nat
      /\ NaN \notin Int
  BY PollSensorAssumption DEF TypeOK, Sensor!TypeOK
<1>2. value' \in Celsius
  BY <1>1 DEF Sensor!updateValue, Sensor!requiresUpdate
<1>3. value' # NaN /\ r # NaN
  BY <1>1, <1>2 DEF Celsius
<1>4. Sensor!Distance(value', r) <= HysteresisPublish
  <2>1. CASE Sensor!requiresUpdate(value, r)
    <3>1. value' = r
      BY <2>1 DEF Sensor!updateValue
    <3> QED  BY <1>1, <3>1 DEF Sensor!Distance, Celsius
  <2>2. CASE ~Sensor!requiresUpdate(value, r)
    <3>1. value' = value /\ ~(Sensor!Distance(value, r) > HysteresisPublish)
      BY <2>2 DEF Sensor!updateValue, Sensor!requiresUpdate
    <3> QED  BY <1>1, <1>2, <3>1 DEF Sensor!Distance, Celsius
  <2> QED  BY <2>1, <2>2
<1>5. \A t \in Sensor!Exported :
        alarm'[t] = (Sensor!Raises(t, value')
                        \/ (alarm[t] /\ ~Sensor!Lowers(t, value')))
  <2>1. Sensor!checkThresholds(value')
    BY DEF Sensor!updateValue
  <2>2. Sensor!Exported \subseteq Sensor!ThresholdId
    BY DEF Sensor!Exported, Sensor!High, Sensor!ThresholdId
  <2> QED  BY <2>1, <2>2 DEF Sensor!checkThresholds
<1> QED  BY <1>2, <1>3, <1>4, <1>5 DEF Sensor!updateValue

LEMMA UpdateFollows ==
    ASSUME TypeOK, NEW r \in Celsius, Sensor!updateValue(r)
    PROVE  Sensor!ValueTracksReading' /\ AlarmFollowsValue'
<1>1. Sensor!ValueTracksReading'
  BY UpdateStep DEF Sensor!ValueTracksReading
<1>2. ASSUME NEW t \in Sensor!Exported, threshold[t] # NaN
      PROVE  /\ value' >= threshold[t] => alarm'[t]
             /\ value' < threshold[t] - HysteresisTrigger => ~alarm'[t]
  <2>1. t \in Sensor!High /\ threshold[t] \in Int /\ HysteresisTrigger \in Nat
    BY <1>2, PollSensorAssumption DEF Sensor!Exported, TypeOK, Sensor!TypeOK,
       Sensor!Number, Sensor!High, Sensor!ThresholdId
  <2>2. value' \in Int /\ value' # NaN
    BY UpdateStep DEF Celsius
  <2>3. alarm'[t] = (Sensor!Raises(t, value')
                        \/ (alarm[t] /\ ~Sensor!Lowers(t, value')))
    BY UpdateStep
  <2>4. Sensor!Raises(t, value') <=> value' >= threshold[t]
    BY <1>2, <2>1, <2>2 DEF Sensor!Raises
  <2>5. Sensor!Lowers(t, value') <=> value' < threshold[t] - HysteresisTrigger
    BY <1>2, <2>1, <2>2 DEF Sensor!Lowers
  <2>6. ~(value' >= threshold[t] /\ value' < threshold[t] - HysteresisTrigger)
    BY <2>1, <2>2
  <2> QED  BY <2>3, <2>4, <2>5, <2>6
<1> QED  BY <1>1, <1>2, UpdateStep DEF AlarmFollowsValue

(* The steps that leave the reading alone forget the value or keep it.     *)
Quiet ==
    /\ alarm' = alarm /\ reading' = reading
    /\ value' = NaN \/ (value' = value /\ threshold' = threshold)
    /\ cTemp' = cTemp \/ cTemp' = NaN \/ Unreadable(cTemp')

LEMMA QuietStep ==
    ASSUME PollInv, Quiet
    PROVE  PollInv'
<1>1. ReadingIsTheDrives'
  BY DEF PollInv, Quiet, ReadingIsTheDrives
<1>2. Sensor!ValueTracksReading'
  BY DEF PollInv, Quiet, Sensor!ValueTracksReading
<1>3. AlarmFollowsValue'
  BY DEF PollInv, Quiet, AlarmFollowsValue
<1> QED  BY <1>1, <1>2, <1>3 DEF PollInv

LEMMA PollInvStep ==
    ASSUME TypeOK, PollInv, [Next]_vars
    PROVE  PollInv'
<1>1. ASSUME NEW rsp \in Response, NEW tempByte \in TempByte,
             NEW cwarn \in BOOLEAN, PollAnswered(rsp, tempByte, cwarn)
      PROVE  PollInv'
  <2>1. CASE Unreadable(tempByte)
    <3>1. cTemp' \in {tempByte, NaN} /\ UNCHANGED sensorVars
      BY <1>1, <2>1 DEF PollAnswered
    <3>2. Quiet
      BY <2>1, <3>1 DEF Quiet, sensorVars
    <3> QED  BY <3>2, QuietStep
  <2>2. CASE ~Unreadable(tempByte)
    <3> DEFINE r == convertToCelsius(tempByte)
    <3>1. r \in Celsius /\ Sensor!updateValue(r) /\ cTemp' \in {tempByte, NaN}
      BY <1>1, <2>2, ConversionIsSound, TempByteAssumption DEF PollAnswered
    <3>2. reading' = r
      BY <3>1, UpdateStep
    <3>3. ReadingIsTheDrives'
      BY <3>1, <3>2 DEF ReadingIsTheDrives
    <3> HIDE DEF r
    <3> QED  BY <3>1, <3>3, UpdateFollows DEF PollInv
  <2> QED  BY <2>1, <2>2
<1>2. ASSUME NEW rsp \in Response,
             PollRefused(rsp) \/ PollThrows(rsp) \/ NoData(rsp)
      PROVE  Quiet
  <2>1. UNCHANGED <<sensorVars, cTemp>>
    BY <1>2 DEF PollRefused, PollFailed, PollThrows, NoData
  <2> QED  BY <2>1 DEF sensorVars, Quiet
<1>3. ASSUME PollFailed \/ UNCHANGED vars
      PROVE  Quiet
  <2>1. UNCHANGED <<sensorVars, cTemp>>
    BY <1>3 DEF PollFailed, vars
  <2> QED  BY <2>1 DEF sensorVars, Quiet
<1>4. ASSUME NEW t \in Sensor!Exported, NEW n \in Limit[t], WriteThreshold(t, n)
      PROVE  Quiet
  BY <1>4 DEF WriteThreshold, Sensor!WriteThreshold, Quiet
<1>5. ASSUME SensorStep
      PROVE  Quiet
  BY <1>5 DEF SensorStep, Sensor!WriteValue, Sensor!WriteAvailable,
     Sensor!Recurse, Sensor!StackOverflow, Sensor!EnterUpdateNaN, Quiet
<1>6. Quiet \/ PollInv'
  BY <1>1, <1>2, <1>3, <1>4, <1>5 DEF Next
<1> QED  BY <1>6, QuietStep

LEMMA PollInvariant == Spec => [](TypeOK /\ PollInv)
<1>1. Init => PollInv
  BY DEF Init, Sensor!Init, PollInv, ReadingIsTheDrives,
     Sensor!ValueTracksReading, AlarmFollowsValue
<1>2. TypeOK /\ PollInv /\ [Next]_vars => PollInv'
  BY PollInvStep
<1> QED  BY <1>1, <1>2, DrivePollTypeCorrect, PTL DEF Spec

(* The sensor says what the drive said.  The publishing hysteresis, 0.0255 *)
(* degrees, is below a degree, which is all a drive reports                *)
(* (convertToCelsius, updateValue).                                        *)
THEOREM ValueStaysTheDrives ==
    ASSUME HysteresisPublish = 0
    PROVE  Spec => []ValueIsTheDrives
<1>1. TypeOK /\ PollInv => ValueIsTheDrives
  <2> SUFFICES ASSUME TypeOK, PollInv,
                      cTemp # NaN, ~Unreadable(cTemp), value # NaN
               PROVE  value \in Celsius /\ (value - cTemp) % 256 = 0
    BY DEF ValueIsTheDrives
  <2>1. value \in Celsius /\ cTemp \in 0 .. 255
    BY TempByteAssumption DEF TypeOK, Sensor!TypeOK
  <2>2. reading = convertToCelsius(cTemp)
    BY DEF PollInv, ReadingIsTheDrives
  <2>3. /\ convertToCelsius(cTemp) \in Celsius
        /\ (convertToCelsius(cTemp) - cTemp) % 256 = 0
    BY <2>1, ConversionIsSound
  <2>4. Sensor!Distance(value, reading) <= 0
    BY DEF PollInv, Sensor!ValueTracksReading
  <2>5. value = reading
    BY <2>1, <2>2, <2>3, <2>4 DEF Sensor!Distance, Celsius
  <2> QED  BY <2>1, <2>2, <2>3, <2>5
<1> QED  BY <1>1, PollInvariant, PTL

(* And so do the alarms, for any thresholds and hystereses                 *)
(* (pollSubsystemHealthStatus, checkThresholds).                           *)
THEOREM AlarmsStayTheDrives == Spec => []AlarmIsTheDrives
<1>1. TypeOK /\ PollInv => AlarmIsTheDrives
  <2> SUFFICES ASSUME TypeOK, PollInv, NEW t \in Sensor!Exported,
                      cTemp # NaN, ~Unreadable(cTemp),
                      value # NaN, threshold[t] # NaN
               PROVE  LET celsius == convertToCelsius(cTemp)
                      IN  /\ celsius >= threshold[t] + HysteresisPublish
                                 => alarm[t]
                          /\ celsius < threshold[t] - HysteresisTrigger
                                           - HysteresisPublish
                                 => ~alarm[t]
    BY DEF AlarmIsTheDrives
  <2> DEFINE celsius == convertToCelsius(cTemp)
  <2>1. /\ value \in Int /\ cTemp \in 0 .. 255 /\ threshold[t] \in Int
        /\ HysteresisTrigger \in Nat /\ HysteresisPublish \in Nat
    <3>1. value \in Int /\ cTemp \in 0 .. 255
      BY TempByteAssumption DEF TypeOK, Sensor!TypeOK, Celsius
    <3>2. threshold[t] \in Int
      BY DEF TypeOK, Sensor!TypeOK, Sensor!Number, Sensor!Exported,
         Sensor!High, Sensor!ThresholdId
    <3> QED  BY <3>1, <3>2, PollSensorAssumption
  <2>2. reading = celsius /\ celsius \in Int
    <3>1. celsius \in Celsius
      BY <2>1, ConversionIsSound
    <3> QED  BY <3>1 DEF PollInv, ReadingIsTheDrives, Celsius
  <2>3. Sensor!Distance(value, celsius) <= HysteresisPublish
    BY <2>2 DEF PollInv, Sensor!ValueTracksReading
  <2>4. /\ value >= threshold[t] => alarm[t]
        /\ value < threshold[t] - HysteresisTrigger => ~alarm[t]
    BY DEF PollInv, AlarmFollowsValue
  <2> HIDE DEF celsius
  <2>5. /\ celsius >= threshold[t] + HysteresisPublish => value >= threshold[t]
        /\ celsius < threshold[t] - HysteresisTrigger - HysteresisPublish
               => value < threshold[t] - HysteresisTrigger
    BY <2>1, <2>2, <2>3 DEF Sensor!Distance
  <2>6. /\ celsius >= threshold[t] + HysteresisPublish => alarm[t]
        /\ celsius < threshold[t] - HysteresisTrigger - HysteresisPublish
               => ~alarm[t]
    BY <2>4, <2>5
  <2> QED  BY <2>6 DEF celsius
<1> QED  BY <1>1, PollInvariant, PTL
=============================================================================
