------------------------------ MODULE DrivePoll ------------------------------
(***************************************************************************)
(* The health status poll of one drive (Drive::pollSubsystemHealthStatus,  *)
(* drive.cpp) and the sensor it feeds: the answer's status, the errors in  *)
(* a row, the conversion of the composite temperature, the sensor's value  *)
(* and alarms (module NumericSensor) and the critical warning.             *)
(*                                                                         *)
(* The polls follow one another here; when and with what overlap they are  *)
(* sent is the business of module Application.  Temperatures are in        *)
(* degrees Celsius.                                                        *)
(*                                                                         *)
(* cTemp is a history variable.  Definitions named Bug... are faults that  *)
(* break a property; no definition uses them.                              *)
(***************************************************************************)
EXTENDS Message

CONSTANTS NaN, Limit, ClientValue, DefaultThreshold, HysteresisTrigger,
          HysteresisPublish, StackLimit,
          TempByte,             \* bytes read for the temperature
          Response,             \* responses drives send to the poll
          MaxHealthStatusCount  \* maxHealthStatusCount

VARIABLES value, threshold, valueProp, available, functional, alarm, frames,
          overflown, reading, turn,
          curErrorCount,    \* Drive::curErrorCount, a uint8_t
          cwarnState,       \* Drive::cwarnState
          running,          \* no exception has ended the daemon
          cTemp             \* temperature byte of the last answer; NaN before
                            \* it, when it had none and after a threshold
                            \* was written

sensorVars == <<value, threshold, valueProp, available, functional, alarm,
                frames, overflown, reading, turn>>
vars == <<sensorVars, curErrorCount, cwarnState, running, cTemp>>

ASSUME TempByteAssumption == TempByte \subseteq 0 .. 255
ASSUME ResponseAssumption == Response \subseteq ResponseRecord
ASSUME CountAssumption == MaxHealthStatusCount \in 1 .. 255

Celsius == -59 .. 126

Sensor == INSTANCE NumericSensor WITH Reading <- Celsius

(* What NumericSensor assumes of its constants.                            *)
ASSUME PollSensorAssumption ==
    /\ NaN \notin Int
    /\ Limit \in [Sensor!Exported -> SUBSET (Int \cup {NaN})]
    /\ ClientValue \subseteq Int \cup {NaN}
    /\ DefaultThreshold \in [Sensor!ThresholdId -> Int]
    /\ \A t \in Sensor!Exported : DefaultThreshold[t] \in Limit[t]
    /\ HysteresisTrigger \in Nat
    /\ HysteresisPublish \in Nat
    /\ StackLimit \in Nat \ {0}

(* convertToCelsius: the bytes it throws for, and two's complement.        *)
BugUnreadable(tempByte) == tempByte \in {127, 128, 129, 196}
Unreadable(tempByte) == tempByte \in {127} \cup 128 .. 196

BugConvertToCelsius(tempByte) == tempByte
convertToCelsius(tempByte) ==
    IF tempByte >= 197 THEN tempByte - 256 ELSE tempByte

TypeOK ==
    /\ Sensor!TypeOK
    /\ curErrorCount \in 0 .. MaxHealthStatusCount
    /\ cwarnState \in BOOLEAN
    /\ running \in BOOLEAN
    /\ cTemp \in TempByte \cup {NaN}

Init ==
    /\ Sensor!Init
    /\ curErrorCount = 0
    /\ cwarnState = FALSE
    /\ running = TRUE
    /\ cTemp = NaN

-----------------------------------------------------------------------------
BugPolled ==
    /\ running
    /\ Sensor!Idle

Polled ==
    /\ running
    /\ Sensor!Idle
    /\ curErrorCount < MaxHealthStatusCount

(* No answer in time, or one with an error status.                         *)
PollFailed ==
    /\ Polled
    /\ curErrorCount' = curErrorCount + 1
    /\ UNCHANGED <<sensorVars, cwarnState, running, cTemp>>

PollRefused(rsp) ==
    /\ NVMeResponse(rsp) /\ ~rsp.success
    /\ PollFailed

(* validateResponse throws, and nothing catches it.                        *)
PollThrows(rsp) ==
    /\ Polled
    /\ ~NVMeResponse(rsp)
    /\ running' = FALSE
    /\ UNCHANGED <<sensorVars, curErrorCount, cwarnState, cTemp>>

(* The test for the data: one byte of it is enough.                        *)
HasData(rsp) ==
    /\ ManagementInterfaceResponse(rsp)
    /\ OptionalDataLength(rsp) > 0

NoData(rsp) ==
    /\ Polled
    /\ NVMeResponse(rsp) /\ rsp.success /\ ~HasData(rsp)
    /\ curErrorCount' = 0
    /\ UNCHANGED <<sensorVars, cwarnState, running, cTemp>>

(* Where ResponseData has the temperature.  The drive reports one when the *)
(* data go that far; if not, a byte of the CRC is read instead.            *)
cTempOffset == 2
Reports(rsp) ==
    ByteKind(ManagementResponseMin, rsp, cTempOffset) = "data"

BugPollAnswered(rsp, tempByte, cwarn) ==
    /\ Polled
    /\ rsp.success /\ HasData(rsp)
    /\ curErrorCount' = 0
    /\ cTemp' = IF Reports(rsp) THEN tempByte ELSE NaN
    /\ IF Unreadable(tempByte) \/ curErrorCount > 0
       THEN UNCHANGED <<sensorVars, cwarnState>>
       ELSE /\ Sensor!updateValue(convertToCelsius(tempByte))
            /\ cwarnState' = cwarn
    /\ UNCHANGED running

(* The conversion throws before the sensor or the warning is touched.      *)
PollAnswered(rsp, tempByte, cwarn) ==
    /\ Polled
    /\ rsp.success /\ HasData(rsp)
    /\ curErrorCount' = 0
    /\ cTemp' = IF Reports(rsp) THEN tempByte ELSE NaN
    /\ IF Unreadable(tempByte)
       THEN UNCHANGED <<sensorVars, cwarnState>>
       ELSE /\ Sensor!updateValue(convertToCelsius(tempByte))
            /\ cwarnState' = cwarn
    /\ UNCHANGED running

(* D-Bus clients, and the recursion of updateValue(NaN).                   *)
WriteThreshold(t, n) ==
    /\ Sensor!WriteThreshold(t, n)
    /\ cTemp' = NaN
    /\ UNCHANGED <<curErrorCount, cwarnState, running>>

SensorStep ==
    /\ \/ \E x \in ClientValue : Sensor!WriteValue(x)
       \/ \E propIn \in BOOLEAN : Sensor!WriteAvailable(propIn)
       \/ Sensor!Recurse
       \/ Sensor!StackOverflow
    /\ UNCHANGED <<curErrorCount, cwarnState, running, cTemp>>

Next ==
    \/ PollFailed
    \/ \E rsp \in Response :
          \/ PollRefused(rsp)
          \/ PollThrows(rsp)
          \/ NoData(rsp)
          \/ \E tempByte \in TempByte, cwarn \in BOOLEAN :
                PollAnswered(rsp, tempByte, cwarn)
    \/ /\ running
       /\ \/ \E t \in Sensor!Exported : \E n \in Limit[t] : WriteThreshold(t, n)
          \/ SensorStep

Spec == Init /\ [][Next]_vars

-----------------------------------------------------------------------------
(* Properties                                                              *)

(* The drive uses the sensor as the sensor's module says: whatever byte it *)
(* answers, only temperatures from -59 to 126 reach updateValue, one at a  *)
(* time, and no poll runs inside another update (pollSubsystemHealthStatus *)
(* and NumericSensor).                                                     *)
SensorIsUsed == Sensor!Spec

(* The sensor says what the drive said: after a poll that reported a       *)
(* temperature the value is the two's complement of its byte, whatever     *)
(* shorter answers made of it before, unless a client marked the sensor    *)
(* unavailable since (convertToCelsius, updateValue).                      *)
ValueIsTheDrives ==
    (cTemp # NaN /\ ~Unreadable(cTemp) /\ value # NaN) =>
        /\ value \in Celsius
        /\ (value - cTemp) % 256 = 0

(* And so do the alarms, across the conversion, the publishing hysteresis  *)
(* and thresholds written at any time: on at the threshold, off below the  *)
(* dead band (pollSubsystemHealthStatus, checkThresholds).                 *)
AlarmIsTheDrives ==
    \A t \in Sensor!Exported :
        LET celsius == convertToCelsius(cTemp)
        IN  (cTemp # NaN /\ ~Unreadable(cTemp)
                /\ value # NaN /\ threshold[t] # NaN) =>
              /\ celsius >= threshold[t] + HysteresisPublish => alarm[t]
              /\ celsius < threshold[t] - HysteresisTrigger - HysteresisPublish
                     => ~alarm[t]

(* A drive that reports a temperature at or above a threshold raises its   *)
(* alarm (README: the value is checked against the thresholds).  The byte  *)
(* 127 reports 127 degrees or more.                                        *)
HotDriveAlarms ==
    \A t \in Sensor!Exported :
        (Sensor!Idle /\ value # NaN /\ cTemp # NaN /\ cTemp <= 127
            /\ threshold[t] # NaN /\ cTemp >= threshold[t]) => alarm[t]
=============================================================================
