------------------------- MODULE ApplicationProofs -------------------------
(* Theorems about module Application, for any endpoints, drives, coroutines*)
(* and collectors.                                                         *)
EXTENDS Application, FiniteSetTheorems, TLAPS

-----------------------------------------------------------------------------
(* What the parts of the actions do                                        *)

(* Construct registers objects, names them and resets their counters, no   *)
(* more; the objects in memory stay as they are.                           *)
LEMMA ConstructType ==
    ASSUME TypeOK, NEW found \in SUBSET Eid, Construct(found)
    PROVE  /\ drives' \in [Eid -> DriveObj \cup {NULL}]
           /\ path' \in [DriveObj -> ObjectPath \cup {NULL}]
           /\ curErrorCount' \in [DriveObj -> 0 .. 255]
           /\ \A e \in Eid : drives'[e] # NULL <=> e \in found \/ drives[e] # NULL
           /\ \A o \in DriveObj : curErrorCount'[o] \in {0, curErrorCount[o]}
           /\ \A o \in Alive : curErrorCount'[o] = curErrorCount[o]
<1>1. PICK place \in Injection(found \ Connected, Free) :
        /\ drives' = [e \in Eid |-> IF e \in found \ Connected
                                    THEN place[e] ELSE drives[e]]
        /\ curErrorCount' = [o \in DriveObj |->
                                IF o \in Range(place) THEN 0 ELSE curErrorCount[o]]
        /\ path' \in [DriveObj -> ObjectPath \cup {NULL}]
  BY DEF Construct
<1>2. place \in [found \ Connected -> Free]
  BY <1>1 DEF Injection
<1>3. \A e \in found \ Connected : place[e] # NULL
  BY <1>2, ConstantsAssumption DEF Free
<1>4. \A o \in Alive : o \in DriveObj /\ o \notin Range(place)
  BY <1>2 DEF Free, Range, Alive, Registered, Connected, Held, TypeOK
<1>5. drives' \in [Eid -> DriveObj \cup {NULL}]
  BY <1>1, <1>2 DEF TypeOK, Free
<1>. QED
  BY <1>1, <1>3, <1>4, <1>5 DEF TypeOK, Connected

(* A sweep sends one request or is back at the top of the loop.            *)
LEMMA SweepType ==
    ASSUME TypeOK, NEW l \in Coroutine, NEW held \in SUBSET DriveObj,
           NEW rest \in SUBSET DriveObj, Sweep(l, held, rest)
    PROVE  /\ task' \in [Coroutine -> TaskState]
           /\ copyDrives' \in [Coroutine -> SUBSET DriveObj]
           /\ todo' \in [Coroutine -> SUBSET DriveObj]
           /\ request' \in [Coroutine -> DriveObj \cup {NULL}]
<1>1. CASE LoopHead(l)
  <2>1. CancelWaits(task) \in [Coroutine -> TaskState]
    BY DEF TypeOK, CancelWaits, TaskState
  <2>2. task' \in [Coroutine -> TaskState]
    BY <1>1, <2>1 DEF TypeOK, LoopHead, Wait, TaskState
  <2>. QED
    BY <1>1, <2>2 DEF TypeOK, LoopHead, Idle
<1>2. ASSUME NEW o \in rest, NEW skipped,
             /\ task' = [task EXCEPT ![l] = "polling"]
             /\ copyDrives' = [copyDrives EXCEPT ![l] = held]
             /\ todo' = [todo EXCEPT ![l] = rest \ (skipped \cup {o})]
             /\ request' = [request EXCEPT ![l] = o]
      PROVE  /\ task' \in [Coroutine -> TaskState]
             /\ copyDrives' \in [Coroutine -> SUBSET DriveObj]
             /\ todo' \in [Coroutine -> SUBSET DriveObj]
             /\ request' \in [Coroutine -> DriveObj \cup {NULL}]
  BY <1>2 DEF TypeOK, TaskState
<1>. QED
  BY <1>1, <1>2 DEF Sweep

LEMMA PauseType ==
    ASSUME TypeOK, pauseHealthStatusPolling
    PROVE  /\ pollTimer' \in BOOLEAN
           /\ task' \in [Coroutine -> TaskState]
           /\ copyDrives' \in [Coroutine -> SUBSET DriveObj]
           /\ todo' \in [Coroutine -> SUBSET DriveObj]
           /\ request' \in [Coroutine -> DriveObj \cup {NULL}]
  BY DEF TypeOK, pauseHealthStatusPolling, CancelWaits, TaskState

LEMMA ResumeType ==
    ASSUME TypeOK, resumeHealthStatusPolling
    PROVE  /\ pollTimer' \in BOOLEAN
           /\ task' \in [Coroutine -> TaskState]
           /\ copyDrives' \in [Coroutine -> SUBSET DriveObj]
           /\ todo' \in [Coroutine -> SUBSET DriveObj]
           /\ request' \in [Coroutine -> DriveObj \cup {NULL}]
  BY DEF TypeOK, resumeHealthStatusPolling, pollVars, TaskState

LEMMA UnchangedPollType ==
    ASSUME TypeOK, UNCHANGED pollVars
    PROVE  /\ pollTimer' \in BOOLEAN
           /\ task' \in [Coroutine -> TaskState]
           /\ copyDrives' \in [Coroutine -> SUBSET DriveObj]
           /\ todo' \in [Coroutine -> SUBSET DriveObj]
           /\ request' \in [Coroutine -> DriveObj \cup {NULL}]
  BY DEF TypeOK, pollVars

(* The counter wraps like a uint8_t.                                       *)
LEMMA CountType ==
    ASSUME TypeOK, NEW o,
           curErrorCount' = [curErrorCount EXCEPT ![o] = (@ + 1) % 256]
    PROVE  curErrorCount' \in [DriveObj -> 0 .. 255]
<1>1. \A n \in 0 .. 255 : (n + 1) % 256 \in 0 .. 255
  OBVIOUS
<1>. QED
  BY <1>1 DEF TypeOK

-----------------------------------------------------------------------------
(* Type correctness                                                        *)

LEMMA TypeStep ==
    ASSUME TypeOK, Next
    PROVE  TypeOK'
<1>1. CASE Step /\ UNCHANGED daemon
  <2>1. ASSUME NEW found \in SUBSET Eid, DetectMctpEndpoints(found)
        PROVE  TypeOK'
    BY <1>1, <2>1, ConstructType, ResumeType, UnchangedPollType
    DEF TypeOK, collectVars, DetectMctpEndpoints
  <2>2. ASSUME NEW e \in Eid, DeviceAdded(e)
        PROVE  TypeOK'
    BY <1>1, <2>2, ConstructType, ResumeType, UnchangedPollType
    DEF TypeOK, collectVars, DeviceAdded
  <2>3. ASSUME NEW e \in Eid, DeviceRemoved(e)
        PROVE  TypeOK'
    BY <1>1, <2>3, PauseType, UnchangedPollType DEF TypeOK, collectVars, DeviceRemoved
  <2>4. ASSUME NEW pause \in BOOLEAN, PauseHealthStatusPoll(pause)
        PROVE  TypeOK'
    BY <1>1, <2>4, PauseType, ResumeType DEF TypeOK, collectVars, PauseHealthStatusPoll
  <2>5. ASSUME NEW l \in Coroutine, TaskStep(l)
        PROVE  TypeOK'
    <3>1. CASE TimerExpires(l)
      BY <1>1, <3>1 DEF TypeOK, collectVars, TimerExpires, TaskState
    <3>2. CASE PollTimerAborted(l)
      BY <1>1, <3>2 DEF TypeOK, collectVars, PollTimerAborted, TaskState
    <3>3. CASE StartSweep(l)
      <4>1. Registered \in SUBSET DriveObj
        BY DEF TypeOK, Registered, Connected
      <4>. QED
        BY <1>1, <3>3, <4>1, SweepType DEF TypeOK, collectVars, StartSweep
    <3>4. CASE PollFailed(l)
      <4>1. Sweep(l, copyDrives[l], todo[l])
        BY <3>4 DEF PollFailed
      <4>2. curErrorCount' \in [DriveObj -> 0 .. 255]
        BY <3>4, CountType DEF PollFailed
      <4>3. copyDrives[l] \in SUBSET DriveObj /\ todo[l] \in SUBSET DriveObj
        BY DEF TypeOK
      <4>. QED
        BY <1>1, <3>4, <4>1, <4>2, <4>3, SweepType DEF TypeOK, collectVars, PollFailed
    <3>5. CASE PollAnswered(l)
      <4>1. Sweep(l, copyDrives[l], todo[l])
        BY <3>5 DEF PollAnswered
      <4>2. curErrorCount' \in [DriveObj -> 0 .. 255]
        <5>1. 0 \in 0 .. 255
          OBVIOUS
        <5>. QED
          BY <3>5, <5>1 DEF PollAnswered, TypeOK
      <4>3. copyDrives[l] \in SUBSET DriveObj /\ todo[l] \in SUBSET DriveObj
        BY DEF TypeOK
      <4>. QED
        BY <1>1, <3>5, <4>1, <4>2, <4>3, SweepType DEF TypeOK, collectVars, PollAnswered
    <3>. QED
      BY <2>5, <3>1, <3>2, <3>3, <3>4, <3>5 DEF TaskStep
  <2>6. ASSUME NEW c \in Collector, NEW o \in DriveObj, CollectLog(c, o)
        PROVE  TypeOK'
    BY <1>1, <2>6, UnchangedPollType DEF TypeOK, CollectLog
  <2>7. ASSUME NEW c \in Collector, CollectLogReturns(c)
        PROVE  TypeOK'
    BY <1>1, <2>7, UnchangedPollType DEF TypeOK, CollectLogReturns, Leaves
  <2>. QED
    BY <1>1, <2>1, <2>2, <2>3, <2>4, <2>5, <2>6, <2>7 DEF Step
<1>2. ASSUME NEW l \in Coroutine, PollThrows(l)
      PROVE  TypeOK'
  BY <1>2, UnchangedPollType DEF TypeOK, collectVars, PollThrows
<1>3. ASSUME NEW c \in Collector, CollectLogDangles(c)
      PROVE  TypeOK'
  BY <1>3, UnchangedPollType DEF TypeOK, collectVars, CollectLogDangles
<1>4. CASE PathRefused
  BY <1>4, UnchangedPollType DEF TypeOK, collectVars, PathRefused
<1>5. CASE Stop
  BY <1>5, UnchangedPollType DEF TypeOK, collectVars, Stop
<1>. QED
  BY <1>1, <1>2, <1>3, <1>4, <1>5 DEF Next

(* Every variable keeps its type; the failure counter stays a uint8_t.     *)
THEOREM TypeCorrect == Spec => []TypeOK
<1>1. Init => TypeOK
  <2>1. Init => curErrorCount \in [DriveObj -> 0 .. 255]
    <3>1. 0 \in 0 .. 255
      OBVIOUS
    <3>. QED
      BY <3>1 DEF Init
  <2>2. Init => /\ copyDrives \in [Coroutine -> SUBSET DriveObj]
                /\ todo \in [Coroutine -> SUBSET DriveObj]
    BY DEF Init
  <2>3. Init => /\ request \in [Coroutine -> DriveObj \cup {NULL}]
                /\ drives \in [Eid -> DriveObj \cup {NULL}]
                /\ path \in [DriveObj -> ObjectPath \cup {NULL}]
                /\ collecting \in [Collector -> DriveObj \cup {NULL}]
    BY DEF Init
  <2>4. Init => task \in [Coroutine -> TaskState]
    BY DEF Init, TaskState
  <2>. QED
    BY <2>1, <2>2, <2>3, <2>4 DEF Init, TypeOK
<1>2. TypeOK /\ [Next]_vars => TypeOK'
  <2>1. TypeOK /\ UNCHANGED vars => TypeOK'
    BY DEF TypeOK, vars, pollVars, collectVars
  <2>. QED
    BY <2>1, TypeStep
<1>. QED
  BY <1>1, <1>2, PTL DEF Spec

-----------------------------------------------------------------------------
(* What a step does to the poll's variables                                *)

Ticks(l) ==
    /\ task[l] = "waiting"
    /\ task' = [task EXCEPT ![l] = "expired"]
    /\ UNCHANGED <<pollTimer, copyDrives, todo, request>>

Ends(l) ==
    /\ task[l] = "aborted"
    /\ task' = [task EXCEPT ![l] = "none"]
    /\ UNCHANGED <<pollTimer, copyDrives, todo, request>>

Sweeps(l) ==
    /\ task[l] \in {"expired", "polling"}
    /\ pollTimer' = pollTimer
    /\ drives' = drives
    /\ \/ Sweep(l, Registered, Registered)
       \/ Sweep(l, copyDrives[l], todo[l])

LEMMA PollEffect ==
    ASSUME [Next]_vars
    PROVE  \/ UNCHANGED pollVars
           \/ pauseHealthStatusPolling
           \/ resumeHealthStatusPolling
           \/ \E l \in Coroutine : Ticks(l) \/ Ends(l) \/ Sweeps(l)
<1>1. CASE Step
  <2>1. ASSUME NEW found \in SUBSET Eid, DetectMctpEndpoints(found)
        PROVE  UNCHANGED pollVars \/ resumeHealthStatusPolling
    BY <2>1 DEF DetectMctpEndpoints
  <2>2. ASSUME NEW e \in Eid, DeviceAdded(e)
        PROVE  UNCHANGED pollVars \/ resumeHealthStatusPolling
    BY <2>2 DEF DeviceAdded
  <2>3. ASSUME NEW e \in Eid, DeviceRemoved(e)
        PROVE  UNCHANGED pollVars \/ pauseHealthStatusPolling
    BY <2>3 DEF DeviceRemoved
  <2>4. ASSUME NEW pause \in BOOLEAN, PauseHealthStatusPoll(pause)
        PROVE  pauseHealthStatusPolling \/ resumeHealthStatusPolling
    BY <2>4 DEF PauseHealthStatusPoll
  <2>5. ASSUME NEW l \in Coroutine, TaskStep(l)
        PROVE  Ticks(l) \/ Ends(l) \/ Sweeps(l)
    <3>1. TimerExpires(l) => Ticks(l)
      BY DEF TimerExpires, Ticks
    <3>2. PollTimerAborted(l) => Ends(l)
      BY DEF PollTimerAborted, Ends
    <3>3. StartSweep(l) => Sweeps(l)
      BY DEF StartSweep, Sweeps
    <3>4. PollFailed(l) => Sweeps(l)
      BY DEF PollFailed, Sweeps
    <3>5. PollAnswered(l) => Sweeps(l)
      BY DEF PollAnswered, Sweeps
    <3>. QED
      BY <2>5, <3>1, <3>2, <3>3, <3>4, <3>5 DEF TaskStep
  <2>6. ASSUME NEW c \in Collector, NEW o \in DriveObj, CollectLog(c, o)
        PROVE  UNCHANGED pollVars
    BY <2>6 DEF CollectLog
  <2>7. ASSUME NEW c \in Collector, CollectLogReturns(c)
        PROVE  UNCHANGED pollVars
    BY <2>7 DEF CollectLogReturns
  <2>. QED
    BY <1>1, <2>1, <2>2, <2>3, <2>4, <2>5, <2>6, <2>7 DEF Step
<1>2. CASE \/ \E l \in Coroutine : PollThrows(l)
           \/ \E c \in Collector : CollectLogDangles(c)
           \/ PathRefused
           \/ Stop
           \/ UNCHANGED vars
  BY <1>2 DEF PollThrows, CollectLogDangles, PathRefused, Stop, vars
<1>. QED
  BY <1>1, <1>2 DEF Next

(* Where a sweep leaves its coroutine and the others.                      *)
LEMMA SweepTask ==
    ASSUME TypeOK, NEW l \in Coroutine, Sweeps(l)
    PROVE  \/ /\ task' = [task EXCEPT ![l] = "polling"]
              /\ request'[l] # NULL
           \/ /\ pollTimer
              /\ task' = [CancelWaits(task) EXCEPT ![l] = "waiting"]
              /\ Idle(l)
           \/ /\ ~pollTimer
              /\ task' = [task EXCEPT ![l] = "none"]
              /\ Idle(l)
<1>1. PICK held, rest \in SUBSET DriveObj : Sweep(l, held, rest)
  BY DEF Sweeps, TypeOK, Registered, Connected
<1>2. CASE LoopHead(l)
  BY <1>2 DEF LoopHead, Wait
<1>3. ASSUME NEW o \in rest,
             task' = [task EXCEPT ![l] = "polling"],
             request' = [request EXCEPT ![l] = o]
      PROVE  request'[l] # NULL
  BY <1>3, ConstantsAssumption DEF TypeOK
<1>. QED
  BY <1>1, <1>2, <1>3 DEF Sweep

-----------------------------------------------------------------------------
(* The poll loop                                                           *)

LEMMA LoopStep ==
    ASSUME TypeOK, PollingHasTask, OneWaiter, [Next]_vars
    PROVE  PollingHasTask' /\ OneWaiter'
<1>1. CASE UNCHANGED pollVars
  BY <1>1 DEF pollVars, PollingHasTask, OneWaiter
<1>2. CASE pauseHealthStatusPolling
  <2>1. \A l \in Coroutine : task'[l] # "waiting"
    BY <1>2 DEF pauseHealthStatusPolling, CancelWaits, TypeOK, OneWaiter
  <2>2. ~pollTimer'
    BY <1>2 DEF pauseHealthStatusPolling
  <2>. QED
    BY <2>1, <2>2 DEF PollingHasTask, OneWaiter
<1>3. CASE resumeHealthStatusPolling
  <2>1. CASE UNCHANGED pollVars
    BY <1>1, <2>1
  <2>2. CASE ~pollTimer /\ pollTimer'
    <3>1. PICK l \in Coroutine : task' = [task EXCEPT ![l] = "waiting"]
      BY <1>3, <2>2 DEF resumeHealthStatusPolling, pollVars
    <3>2. task'[l] = "waiting"
      BY <3>1 DEF TypeOK
    <3>3. \A m \in Coroutine \ {l} : task'[m] # "waiting"
      BY <2>2, <3>1 DEF OneWaiter, TypeOK
    <3>. QED
      BY <2>2, <3>2, <3>3 DEF PollingHasTask, OneWaiter
  <2>. QED
    BY <1>3, <2>1, <2>2 DEF resumeHealthStatusPolling
<1>4. ASSUME NEW l \in Coroutine, Ticks(l)
      PROVE  PollingHasTask' /\ OneWaiter'
  BY <1>4 DEF Ticks, PollingHasTask, OneWaiter, TypeOK
<1>5. ASSUME NEW l \in Coroutine, Ends(l)
      PROVE  PollingHasTask' /\ OneWaiter'
  BY <1>5 DEF Ends, PollingHasTask, OneWaiter, TypeOK
<1>6. ASSUME NEW l \in Coroutine, Sweeps(l)
      PROVE  PollingHasTask' /\ OneWaiter'
  <2>1. pollTimer' = pollTimer
    BY <1>6 DEF Sweeps
  <2>2. CASE task' = [task EXCEPT ![l] = "polling"]
    BY <2>1, <2>2 DEF PollingHasTask, OneWaiter, TypeOK
  <2>3. CASE pollTimer /\ task' = [CancelWaits(task) EXCEPT ![l] = "waiting"]
    <3>1. task'[l] = "waiting"
      BY <2>3 DEF CancelWaits
    <3>2. \A m \in Coroutine \ {l} : task'[m] # "waiting"
      BY <2>3 DEF CancelWaits
    <3>. QED
      BY <2>1, <2>3, <3>1, <3>2 DEF PollingHasTask, OneWaiter
  <2>4. CASE ~pollTimer /\ task' = [task EXCEPT ![l] = "none"]
    BY <2>1, <2>4 DEF PollingHasTask, OneWaiter, TypeOK
  <2>. QED
    BY <1>6, <2>2, <2>3, <2>4, SweepTask
<1>. QED
  BY <1>1, <1>2, <1>3, <1>4, <1>5, <1>6, PollEffect

(* While the timer is set a coroutine is in the loop, and no two coroutines*)
(* ever wait on the timer.                                                 *)
THEOREM PollLoopInvariant == Spec => [](PollingHasTask /\ OneWaiter)
<1>1. Init => PollingHasTask /\ OneWaiter
  BY DEF Init, PollingHasTask, OneWaiter
<1>2. TypeOK /\ (PollingHasTask /\ OneWaiter) /\ [Next]_vars
        => (PollingHasTask /\ OneWaiter)'
  BY LoopStep
<1>. QED
  BY <1>1, <1>2, TypeCorrect, PTL DEF Spec

-----------------------------------------------------------------------------
(* Polling follows the drives                                              *)

LEMMA ResumeSets ==
    ASSUME TypeOK, resumeHealthStatusPolling
    PROVE  pollTimer'
  BY DEF resumeHealthStatusPolling, pollVars

LEMMA SameDrives ==
    ASSUME PollingIffDrives, drives' = drives, pollTimer' = pollTimer
    PROVE  PollingIffDrives'
  BY DEF PollingIffDrives, Connected

LEMMA PollingIffDrivesStep ==
    ASSUME TypeOK, PollingIffDrives, [Next]_vars
    PROVE  PollingIffDrives'
<1>1. ASSUME NEW found \in SUBSET Eid, DetectMctpEndpoints(found)
      PROVE  PollingIffDrives'
  <2>1. Connected' = found \cup Connected
    BY <1>1, ConstructType DEF DetectMctpEndpoints, Connected
  <2>2. CASE found \cup Connected = {}
    BY <1>1, <2>1, <2>2 DEF DetectMctpEndpoints, pollVars, PollingIffDrives
  <2>3. CASE found \cup Connected # {}
    BY <1>1, <2>1, <2>3, ResumeSets DEF DetectMctpEndpoints, PollingIffDrives
  <2>. QED
    BY <2>2, <2>3
<1>2. ASSUME NEW e \in Eid, DeviceAdded(e)
      PROVE  PollingIffDrives'
  <2>1. Connected' = Connected \cup {e}
    BY <1>2, ConstructType DEF DeviceAdded, Connected
  <2>2. CASE Connected \cup {e} = {e}
    BY <1>2, <2>1, <2>2, ResumeSets DEF DeviceAdded, PollingIffDrives
  <2>3. CASE Connected \cup {e} # {e}
    <3>1. Connected # {}
      BY <2>3
    <3>. QED
      BY <1>2, <2>1, <2>3, <3>1 DEF DeviceAdded, pollVars, PollingIffDrives
  <2>. QED
    BY <2>2, <2>3
<1>3. ASSUME NEW e \in Eid, DeviceRemoved(e)
      PROVE  PollingIffDrives'
  <2>1. Connected' = Connected \ {e}
    BY <1>3 DEF DeviceRemoved, Connected, TypeOK
  <2>2. CASE Connected \subseteq {e}
    BY <1>3, <2>1, <2>2
    DEF DeviceRemoved, pauseHealthStatusPolling, PollingIffDrives
  <2>3. CASE ~(Connected \subseteq {e})
    BY <1>3, <2>1, <2>3 DEF DeviceRemoved, pollVars, PollingIffDrives
  <2>. QED
    BY <2>2, <2>3
<1>4. ASSUME NEW pause \in BOOLEAN, PauseHealthStatusPoll(pause)
      PROVE  PollingIffDrives'
  BY <1>4 DEF PauseHealthStatusPoll, PollingIffDrives
<1>5. ASSUME NEW l \in Coroutine, TaskStep(l)
      PROVE  PollingIffDrives'
  BY <1>5, SameDrives
  DEF TaskStep, TimerExpires, PollTimerAborted, StartSweep, PollFailed, PollAnswered
<1>6. ASSUME NEW c \in Collector,
             \/ \E o \in DriveObj : CollectLog(c, o)
             \/ CollectLogReturns(c)
      PROVE  PollingIffDrives'
  BY <1>6, SameDrives DEF CollectLog, CollectLogReturns, pollVars
<1>7. CASE \/ \E l \in Coroutine : PollThrows(l)
           \/ \E c \in Collector : CollectLogDangles(c)
           \/ PathRefused
           \/ Stop
           \/ UNCHANGED vars
  BY <1>7, SameDrives DEF PollThrows, CollectLogDangles, PathRefused, Stop, vars, pollVars
<1>. QED
  BY <1>1, <1>2, <1>3, <1>4, <1>5, <1>6, <1>7 DEF Next, Step

(* Without the debug interface polling is on exactly while a drive is      *)
(* registered, whatever the order of detection and hot-plug events.        *)
THEOREM PollingFollowsDrives == Spec => []PollingIffDrives
<1>1. Init => PollingIffDrives
  BY DEF Init, PollingIffDrives, Connected
<1>2. TypeOK /\ PollingIffDrives /\ [Next]_vars => PollingIffDrives'
  BY PollingIffDrivesStep
<1>. QED
  BY <1>1, <1>2, TypeCorrect, PTL DEF Spec

-----------------------------------------------------------------------------
(* The drives of a sweep                                                   *)

(* What a coroutine still has to do with a drive it does with one of its   *)
(* copy, never twice with the same; it awaits an answer only when polling. *)
SweepHolds ==
    \A l \in Coroutine :
        /\ request[l] # NULL => request[l] \in copyDrives[l]
        /\ todo[l] \subseteq copyDrives[l]
        /\ request[l] \notin todo[l]
        /\ task[l] = "polling" <=> request[l] # NULL

LEMMA SweepHoldsStep ==
    ASSUME TypeOK, SweepHolds, [Next]_vars
    PROVE  SweepHolds'
<1>1. CASE UNCHANGED pollVars
  BY <1>1 DEF pollVars, SweepHolds
<1>2. CASE pauseHealthStatusPolling
  BY <1>2 DEF pauseHealthStatusPolling, CancelWaits, SweepHolds
<1>3. CASE resumeHealthStatusPolling
  BY <1>3 DEF resumeHealthStatusPolling, pollVars, SweepHolds, TypeOK
<1>4. ASSUME NEW l \in Coroutine, Ticks(l) \/ Ends(l)
      PROVE  SweepHolds'
  BY <1>4 DEF Ticks, Ends, SweepHolds, TypeOK
<1>5. ASSUME NEW l \in Coroutine, Sweeps(l)
      PROVE  SweepHolds'
  <2>1. PICK held, rest \in SUBSET DriveObj :
          Sweep(l, held, rest) /\ rest \subseteq held
    BY <1>5 DEF Sweeps, SweepHolds, TypeOK, Registered, Connected
  <2>2. CASE LoopHead(l)
    <3>1. \A m \in Coroutine : task'[m] = "polling" <=> task[m] = "polling" /\ m # l
      BY <2>2 DEF LoopHead, Wait, CancelWaits, TypeOK
    <3>2. request'[l] = NULL /\ todo'[l] = {}
      BY <2>2 DEF LoopHead, Idle, TypeOK
    <3>3. \A m \in Coroutine \ {l} :
            /\ request'[m] = request[m]
            /\ todo'[m] = todo[m]
            /\ copyDrives'[m] = copyDrives[m]
      BY <2>2 DEF LoopHead, Idle, TypeOK
    <3>. QED
      BY <3>1, <3>2, <3>3 DEF SweepHolds
  <2>3. ASSUME NEW o \in rest, NEW skipped,
               /\ task' = [task EXCEPT ![l] = "polling"]
               /\ copyDrives' = [copyDrives EXCEPT ![l] = held]
               /\ todo' = [todo EXCEPT ![l] = rest \ (skipped \cup {o})]
               /\ request' = [request EXCEPT ![l] = o]
        PROVE  SweepHolds'
    BY <2>1, <2>3, ConstantsAssumption DEF SweepHolds, TypeOK
  <2>. QED
    BY <2>1, <2>2, <2>3 DEF Sweep
<1>. QED
  BY <1>1, <1>2, <1>3, <1>4, <1>5, PollEffect

THEOREM SweepInvariant == Spec => []SweepHolds
<1>1. Init => SweepHolds
  BY DEF Init, SweepHolds
<1>2. TypeOK /\ SweepHolds /\ [Next]_vars => SweepHolds'
  BY SweepHoldsStep
<1>. QED
  BY <1>1, <1>2, TypeCorrect, PTL DEF Spec

(* No request, nor the rest of a sweep, refers to a freed drive.           *)
THEOREM PolledDrivesLive == Spec => []PolledDriveAlive
<1>1. SweepHolds => PolledDriveAlive
  BY DEF SweepHolds, PolledDriveAlive, Alive, Held
<1>. QED
  BY <1>1, SweepInvariant, PTL

-----------------------------------------------------------------------------
(* The failure counter                                                     *)

LEMMA InFlightBound ==
    ASSUME NEW o
    PROVE  /\ Cardinality(InFlight(o)) \in Nat
           /\ Cardinality(InFlight(o)) <= Cardinality(Coroutine)
           /\ Cardinality(Coroutine) \in Nat
           /\ InFlight(o)' \subseteq Coroutine
           /\ IsFiniteSet(InFlight(o))
  BY ConstantsAssumption, FS_Subset, FS_CardinalityType DEF InFlight

LEMMA InFlightBoundNext ==
    ASSUME NEW o
    PROVE  /\ Cardinality(InFlight(o)') \in Nat
           /\ Cardinality(InFlight(o)') <= Cardinality(Coroutine)
  BY InFlightBound, ConstantsAssumption, FS_Subset, FS_CardinalityType

(* A counter below the limit obeys the bound however many polls of its     *)
(* drive are in flight.                                                    *)
LEMMA BelowLimitIsBounded ==
    ASSUME NEW o \in DriveObj, NEW n \in Nat, n < MaxHealthStatusCount
    PROVE  n + Cardinality(InFlight(o)')
               <= MaxHealthStatusCount - 1 + Cardinality(Coroutine)
<1>1. MaxHealthStatusCount \in Nat
  BY ConstantsAssumption
<1>. QED
  BY <1>1, InFlightBound, InFlightBoundNext

(* Counters that are kept or cleared, and no request sent.                 *)
LEMMA BoundKept ==
    ASSUME TypeOK, ErrorCountBound, request' = request,
           \A o \in DriveObj : curErrorCount'[o] \in {0, curErrorCount[o]}
    PROVE  ErrorCountBound'
<1>. SUFFICES ASSUME NEW o \in DriveObj
              PROVE  curErrorCount'[o] + Cardinality(InFlight(o)')
                       <= MaxHealthStatusCount - 1 + Cardinality(Coroutine)
  BY DEF ErrorCountBound
<1>1. CASE curErrorCount'[o] = curErrorCount[o]
  <2>1. InFlight(o)' = InFlight(o)
    BY DEF InFlight
  <2>. QED
    BY <1>1, <2>1 DEF ErrorCountBound
<1>2. CASE curErrorCount'[o] = 0
  <2>1. 0 < MaxHealthStatusCount
    BY ConstantsAssumption
  <2>. QED
    BY <1>2, <2>1, BelowLimitIsBounded
<1>. QED
  BY <1>1, <1>2

(* A sweep step of coroutine l adds l only to the polls of a drive that is *)
(* below the limit.                                                        *)
LEMMA SweepInFlight ==
    ASSUME TypeOK, NEW l \in Coroutine, NEW held, NEW rest \in SUBSET DriveObj,
           Sweep(l, held, rest), NEW o \in DriveObj
    PROVE  \/ o \in rest /\ curErrorCount[o] < MaxHealthStatusCount
           \/ InFlight(o)' = InFlight(o) \ {l}
<1>1. CASE LoopHead(l)
  BY <1>1, ConstantsAssumption DEF LoopHead, Idle, InFlight, TypeOK
<1>2. ASSUME NEW p \in rest, Ready(p), request' = [request EXCEPT ![l] = p]
      PROVE  \/ o \in rest /\ curErrorCount[o] < MaxHealthStatusCount
             \/ InFlight(o)' = InFlight(o) \ {l}
  <2>1. CASE p = o
    BY <1>2, <2>1 DEF Ready
  <2>2. CASE p # o
    BY <1>2, <2>2 DEF InFlight, TypeOK
  <2>. QED
    BY <2>1, <2>2
<1>. QED
  BY <1>1, <1>2 DEF Sweep

(* The end of a poll: the failure it adds is the one its coroutine had in  *)
(* flight.                                                                 *)
LEMMA BoundSwept ==
    ASSUME TypeOK, SweepHolds, ErrorCountBound,
           NEW l \in Coroutine, NEW held, NEW rest \in SUBSET DriveObj,
           Sweep(l, held, rest),
           NEW f,
           curErrorCount' = [curErrorCount EXCEPT ![request[l]] = f],
           request[l] \in DriveObj => f \in Nat /\ f <= curErrorCount[request[l]] + 1,
           request[l] \notin rest
    PROVE  ErrorCountBound'
<1>. SUFFICES ASSUME NEW o \in DriveObj
              PROVE  curErrorCount'[o] + Cardinality(InFlight(o)')
                       <= MaxHealthStatusCount - 1 + Cardinality(Coroutine)
  BY DEF ErrorCountBound
<1>1. curErrorCount[o] \in Nat
  BY DEF TypeOK
<1>2. curErrorCount[o] + Cardinality(InFlight(o))
        <= MaxHealthStatusCount - 1 + Cardinality(Coroutine)
  BY DEF ErrorCountBound
<1>3. CASE o \in rest /\ curErrorCount[o] < MaxHealthStatusCount
  <2>1. curErrorCount'[o] = curErrorCount[o]
    BY <1>3 DEF TypeOK
  <2>. QED
    BY <1>1, <1>3, <2>1, BelowLimitIsBounded
<1>4. CASE InFlight(o)' = InFlight(o) \ {l}
  <2>1. CASE request[l] = o
    <3>1. Cardinality(InFlight(o)') = Cardinality(InFlight(o)) - 1
      <4>1. l \in InFlight(o)
        BY <2>1 DEF InFlight
      <4>. QED
        BY <1>4, <4>1, InFlightBound, FS_RemoveElement
    <3>2. curErrorCount'[o] \in Nat /\ curErrorCount'[o] <= curErrorCount[o] + 1
      BY <2>1 DEF TypeOK
    <3>3. MaxHealthStatusCount \in Nat
      BY ConstantsAssumption
    <3>. QED
      BY <1>1, <1>2, <3>1, <3>2, <3>3, InFlightBound
  <2>2. CASE request[l] # o
    <3>1. InFlight(o)' = InFlight(o)
      BY <1>4, <2>2 DEF InFlight
    <3>2. curErrorCount'[o] = curErrorCount[o]
      BY <2>2 DEF TypeOK
    <3>. QED
      BY <1>2, <3>1, <3>2
  <2>. QED
    BY <2>1, <2>2
<1>. QED
  BY <1>3, <1>4, SweepInFlight

LEMMA ErrorCountStep ==
    ASSUME TypeOK, SweepHolds, ErrorCountBound, [Next]_vars
    PROVE  ErrorCountBound'
<1>1. ASSUME NEW found \in SUBSET Eid, Construct(found), request' = request
      PROVE  ErrorCountBound'
  BY <1>1, ConstructType, BoundKept
<1>2. ASSUME curErrorCount' = curErrorCount, request' = request
      PROVE  ErrorCountBound'
  BY <1>2, BoundKept
<1>3. ASSUME resumeHealthStatusPolling \/ pauseHealthStatusPolling
      PROVE  request' = request
  BY <1>3 DEF resumeHealthStatusPolling, pauseHealthStatusPolling, pollVars
<1>4. ASSUME NEW found \in SUBSET Eid, DetectMctpEndpoints(found)
      PROVE  ErrorCountBound'
  BY <1>1, <1>3, <1>4 DEF DetectMctpEndpoints, pollVars
<1>5. ASSUME NEW e \in Eid, DeviceAdded(e)
      PROVE  ErrorCountBound'
  BY <1>1, <1>3, <1>5 DEF DeviceAdded, pollVars
<1>6. ASSUME NEW e \in Eid, DeviceRemoved(e)
      PROVE  ErrorCountBound'
  BY <1>2, <1>3, <1>6 DEF DeviceRemoved, pollVars
<1>7. ASSUME NEW pause \in BOOLEAN, PauseHealthStatusPoll(pause)
      PROVE  ErrorCountBound'
  BY <1>2, <1>3, <1>7 DEF PauseHealthStatusPoll
<1>8. ASSUME NEW l \in Coroutine, TaskStep(l)
      PROVE  ErrorCountBound'
  <2>1. CASE TimerExpires(l) \/ PollTimerAborted(l)
    BY <1>2, <2>1 DEF TimerExpires, PollTimerAborted
  <2>2. CASE StartSweep(l)
    <3>. SUFFICES ASSUME NEW o \in DriveObj
                  PROVE  curErrorCount'[o] + Cardinality(InFlight(o)')
                           <= MaxHealthStatusCount - 1 + Cardinality(Coroutine)
      BY DEF ErrorCountBound
    <3>1. Sweep(l, Registered, Registered) /\ curErrorCount' = curErrorCount
      BY <2>2 DEF StartSweep
    <3>2. Registered \in SUBSET DriveObj
      BY DEF TypeOK, Registered, Connected
    <3>3. curErrorCount[o] \in Nat
      BY DEF TypeOK
    <3>4. CASE curErrorCount[o] < MaxHealthStatusCount
      BY <3>1, <3>3, <3>4, BelowLimitIsBounded
    <3>5. CASE InFlight(o)' = InFlight(o) \ {l}
      <4>1. Cardinality(InFlight(o)') <= Cardinality(InFlight(o))
        BY <3>5, InFlightBound, FS_Subset
      <4>2. MaxHealthStatusCount \in Nat
        BY ConstantsAssumption
      <4>. QED
        BY <3>1, <3>3, <4>1, <4>2, InFlightBound, InFlightBoundNext DEF ErrorCountBound
    <3>. QED
      BY <3>1, <3>2, <3>4, <3>5, SweepInFlight
  <2>3. todo[l] \in SUBSET DriveObj /\ request[l] \notin todo[l]
    BY DEF TypeOK, SweepHolds
  <2>4. CASE PollFailed(l)
    <3>1. Sweep(l, copyDrives[l], todo[l])
      BY <2>4 DEF PollFailed
    <3>2. curErrorCount' =
            [curErrorCount EXCEPT ![request[l]] = (curErrorCount[request[l]] + 1) % 256]
      BY <2>4 DEF PollFailed
    <3>3. \A n \in 0 .. 255 : (n + 1) % 256 \in Nat /\ (n + 1) % 256 <= n + 1
      OBVIOUS
    <3>4. request[l] \in DriveObj =>
            /\ (curErrorCount[request[l]] + 1) % 256 \in Nat
            /\ (curErrorCount[request[l]] + 1) % 256 <= curErrorCount[request[l]] + 1
      BY <3>3 DEF TypeOK
    <3>. QED
      BY <2>3, <3>1, <3>2, <3>4, BoundSwept
  <2>5. CASE PollAnswered(l)
    <3>1. Sweep(l, copyDrives[l], todo[l])
      BY <2>5 DEF PollAnswered
    <3>2. curErrorCount' = [curErrorCount EXCEPT ![request[l]] = 0]
      BY <2>5 DEF PollAnswered
    <3>3. request[l] \in DriveObj => 0 \in Nat /\ 0 <= curErrorCount[request[l]] + 1
      BY DEF TypeOK
    <3>. QED
      BY <2>3, <3>1, <3>2, <3>3, BoundSwept
  <2>. QED
    BY <1>8, <2>1, <2>2, <2>4, <2>5 DEF TaskStep
<1>9. ASSUME NEW c \in Collector,
             \/ \E o \in DriveObj : CollectLog(c, o)
             \/ CollectLogReturns(c)
      PROVE  ErrorCountBound'
  BY <1>2, <1>9 DEF CollectLog, CollectLogReturns, pollVars
<1>10. CASE \/ \E l \in Coroutine : PollThrows(l)
            \/ \E c \in Collector : CollectLogDangles(c)
            \/ PathRefused
            \/ Stop
            \/ UNCHANGED vars
  BY <1>2, <1>10 DEF PollThrows, CollectLogDangles, PathRefused, Stop, vars, pollVars
<1>. QED
  BY <1>4, <1>5, <1>6, <1>7, <1>8, <1>9, <1>10 DEF Next, Step

(* Overlapping sweeps add at most one failure each beyond the limit.       *)
THEOREM ErrorCountBounded == Spec => []ErrorCountBound
<1>1. Init => ErrorCountBound
  <2>. SUFFICES ASSUME Init, NEW o \in DriveObj
                PROVE  curErrorCount[o] + Cardinality(InFlight(o))
                         <= MaxHealthStatusCount - 1 + Cardinality(Coroutine)
    BY DEF ErrorCountBound
  <2>1. curErrorCount[o] = 0
    BY DEF Init
  <2>2. MaxHealthStatusCount \in Nat /\ MaxHealthStatusCount >= 1
    BY ConstantsAssumption
  <2>. QED
    BY <2>1, <2>2, InFlightBound
<1>2. TypeOK /\ SweepHolds /\ ErrorCountBound /\ [Next]_vars => ErrorCountBound'
  BY ErrorCountStep
<1>. QED
  BY <1>1, <1>2, TypeCorrect, SweepInvariant, PTL DEF Spec

-----------------------------------------------------------------------------
(* Exclusion                                                               *)

Excluded(o) == curErrorCount[o] >= MaxHealthStatusCount /\ InFlight(o) = {}

LEMMA ExclusionStep ==
    ASSUME TypeOK, [Next]_vars, NEW o \in Alive, Excluded(o)
    PROVE  curErrorCount'[o] = curErrorCount[o] /\ InFlight(o)' = {}
<1>1. o \in DriveObj
  BY DEF Alive, Registered, Connected, Held, TypeOK
<1>2. ~(curErrorCount[o] < MaxHealthStatusCount)
  BY <1>1, ConstantsAssumption DEF Excluded, TypeOK
<1>3. ASSUME request' = request
      PROVE  InFlight(o)' = {}
  BY <1>3 DEF InFlight, Excluded
<1>4. ASSUME UNCHANGED pollVars \/ pauseHealthStatusPolling \/ resumeHealthStatusPolling
      PROVE  request' = request
  BY <1>4 DEF resumeHealthStatusPolling, pauseHealthStatusPolling, pollVars
<1>5. ASSUME NEW l \in Coroutine, NEW held, NEW rest \in SUBSET DriveObj,
             Sweep(l, held, rest)
      PROVE  InFlight(o)' = {}
  BY <1>1, <1>2, <1>5, SweepInFlight DEF Excluded
<1>6. ASSUME NEW found \in SUBSET Eid, DetectMctpEndpoints(found)
      PROVE  curErrorCount'[o] = curErrorCount[o] /\ request' = request
  BY <1>4, <1>6, ConstructType DEF DetectMctpEndpoints
<1>7. ASSUME NEW e \in Eid, DeviceAdded(e)
      PROVE  curErrorCount'[o] = curErrorCount[o] /\ request' = request
  BY <1>4, <1>7, ConstructType DEF DeviceAdded
<1>8. ASSUME NEW e \in Eid, DeviceRemoved(e)
      PROVE  curErrorCount' = curErrorCount /\ request' = request
  BY <1>4, <1>8 DEF DeviceRemoved
<1>9. ASSUME NEW pause \in BOOLEAN, PauseHealthStatusPoll(pause)
      PROVE  curErrorCount' = curErrorCount /\ request' = request
  BY <1>4, <1>9 DEF PauseHealthStatusPoll
<1>10. ASSUME NEW l \in Coroutine, TaskStep(l)
       PROVE  curErrorCount'[o] = curErrorCount[o] /\ InFlight(o)' = {}
  <2>1. CASE TimerExpires(l) \/ PollTimerAborted(l)
    BY <1>3, <2>1 DEF TimerExpires, PollTimerAborted
  <2>2. CASE StartSweep(l)
    <3>1. Registered \in SUBSET DriveObj
      BY DEF TypeOK, Registered, Connected
    <3>. QED
      BY <1>5, <2>2, <3>1 DEF StartSweep
  <2>3. CASE PollFailed(l) \/ PollAnswered(l)
    <3>1. InFlight(o)' = {}
      BY <1>5, <2>3 DEF PollFailed, PollAnswered, TypeOK
    <3>2. request[l] # o
      BY DEF Excluded, InFlight
    <3>3. curErrorCount'[o] = curErrorCount[o]
      BY <1>1, <2>3, <3>2 DEF PollFailed, PollAnswered, TypeOK
    <3>. QED
      BY <3>1, <3>3
  <2>. QED
    BY <1>10, <2>1, <2>2, <2>3 DEF TaskStep
<1>11. CASE \/ \E c \in Collector, p \in DriveObj : CollectLog(c, p)
            \/ \E c \in Collector : CollectLogReturns(c)
            \/ \E l \in Coroutine : PollThrows(l)
            \/ \E c \in Collector : CollectLogDangles(c)
            \/ PathRefused
            \/ Stop
            \/ UNCHANGED vars
  BY <1>3, <1>4, <1>11
  DEF CollectLog, CollectLogReturns, PollThrows, CollectLogDangles, PathRefused,
      Stop, vars, pollVars
<1>. QED
  BY <1>3, <1>6, <1>7, <1>8, <1>9, <1>10, <1>11 DEF Next, Step

(* A drive that reached the limit of failures, with no answer outstanding, *)
(* is never polled again as long as its object lives.                      *)
THEOREM ExclusionHolds == Spec => ExclusionIsFinal
<1>1. TypeOK /\ [Next]_vars =>
        \A o \in Alive :
            curErrorCount[o] >= MaxHealthStatusCount /\ InFlight(o) = {} =>
                curErrorCount'[o] = curErrorCount[o] /\ InFlight(o)' = {}
  BY ExclusionStep DEF Excluded
<1>. QED
  BY <1>1, TypeCorrect, PTL DEF Spec, ExclusionIsFinal

-----------------------------------------------------------------------------
(* The daemon implements PollService                                       *)

LEMMA AskedAreAlive ==
    ASSUME SweepHolds
    PROVE  Polls!Asked \subseteq Alive
  BY DEF SweepHolds, Polls!Asked, Alive, Held

(* New objects come with a count of zero, where no object was.             *)
LEMMA ConstructComes ==
    ASSUME TypeOK, NEW found \in SUBSET Eid, Construct(found),
           UNCHANGED <<copyDrives, request>>
    PROVE  \E new \in SUBSET (DriveObj \ Alive) : Polls!Come(new)
<1>1. PICK place \in Injection(found \ Connected, Free) :
        /\ drives' = [e \in Eid |-> IF e \in found \ Connected
                                    THEN place[e] ELSE drives[e]]
        /\ curErrorCount' = [o \in DriveObj |->
                                IF o \in Range(place) THEN 0 ELSE curErrorCount[o]]
  BY DEF Construct
<1>2. place \in [found \ Connected -> Free]
  BY <1>1 DEF Injection
<1>3. Range(place) \in SUBSET (DriveObj \ Alive)
  BY <1>2 DEF Free, Range
<1>4. NULL \notin Range(place)
  BY <1>3, ConstantsAssumption
<1>5. \A e \in Eid : drives'[e] = IF e \in found \ Connected
                                  THEN place[e] ELSE drives[e]
  BY <1>1
<1>6. Registered' = Registered \cup Range(place)
  <2>1. Registered' = {drives'[e] : e \in {f \in Eid : drives'[f] # NULL}}
    BY DEF Registered, Connected
  <2>2. \A o \in Range(place) : \E e \in found \ Connected : o = place[e]
    BY <1>2 DEF Range
  <2>3. \A e \in found \ Connected : place[e] \in Range(place)
    BY <1>2 DEF Range
  <2>. QED
    BY <1>4, <1>5, <2>1, <2>2, <2>3 DEF Registered, Connected
<1>7. Alive' = Alive \cup Range(place)
  BY <1>6 DEF Alive, Held
<1>. QED
  BY <1>1, <1>3, <1>7 DEF Polls!Come

(* A request that is answered or fails leaves room in the counter.         *)
LEMMA CountHasRoom ==
    ASSUME TypeOK, ErrorCountBound, NEW l \in Coroutine, request[l] # NULL
    PROVE  (curErrorCount[request[l]] + 1) % 256 = curErrorCount[request[l]] + 1
<1>. DEFINE o == request[l]
<1>1. o \in DriveObj
  BY DEF TypeOK
<1>2. l \in InFlight(o)
  BY DEF InFlight
<1>3. Cardinality(InFlight(o)) >= 1
  <2>1. Cardinality(InFlight(o)) # 0
    BY <1>2, InFlightBound, FS_EmptySet
  <2>. QED
    BY <2>1, InFlightBound
<1>4. curErrorCount[o] + Cardinality(InFlight(o))
        <= MaxHealthStatusCount - 1 + Cardinality(Coroutine)
  BY <1>1 DEF ErrorCountBound
<1>5. curErrorCount[o] \in Nat /\ curErrorCount[o] + 1 <= 255
  <2>1. MaxHealthStatusCount \in Nat /\ Cardinality(Coroutine) \in Nat
    BY ConstantsAssumption, InFlightBound
  <2>2. MaxHealthStatusCount + Cardinality(Coroutine) <= 256
    BY ConstantsAssumption
  <2>3. curErrorCount[o] \in Nat
    BY <1>1 DEF TypeOK
  <2>. QED
    BY <1>3, <1>4, <2>1, <2>2, <2>3, InFlightBound
<1>. QED
  BY <1>5

(* A step of the sweep is a turn, if it does to the counters what a turn   *)
(* does.                                                                   *)
LEMMA SweepTurns ==
    ASSUME TypeOK, SweepHolds, SweepHolds', NEW l \in Coroutine,
           NEW held \in SUBSET Alive, NEW rest \in SUBSET held,
           Sweep(l, held, rest), drives' = drives, request[l] \notin rest,
           \/ request[l] = NULL /\ curErrorCount' = curErrorCount
           \/ /\ request[l] # NULL
              /\ \E count \in {0, curErrorCount[request[l]] + 1} :
                    curErrorCount' = [curErrorCount EXCEPT ![request[l]] = count]
    PROVE  Polls!Turn(l)
<1>1. Polls!Asked' \subseteq Alive'
  BY DEF SweepHolds, Polls!Asked, Alive, Held
<1>2. Registered' = Registered
  BY DEF Registered, Connected
<1>3. copyDrives' = [copyDrives EXCEPT ![l] = {}]
      \/ copyDrives' = [copyDrives EXCEPT ![l] = held]
  BY DEF Sweep, LoopHead, Idle
<1>4. Alive' \subseteq Alive
  <2>1. \A m \in Coroutine : copyDrives'[m] \subseteq copyDrives[m] \cup held
    BY <1>3 DEF TypeOK
  <2>. QED
    BY <1>2, <2>1 DEF Alive, Held
<1>5. \E next \in {NULL} \cup {o \in Alive : curErrorCount'[o] < MaxHealthStatusCount} :
        request' = [request EXCEPT ![l] = next]
  <2>1. CASE LoopHead(l)
    BY <2>1 DEF LoopHead, Idle
  <2>2. ASSUME NEW o \in rest, Ready(o), request' = [request EXCEPT ![l] = o]
        PROVE  o \in Alive /\ curErrorCount'[o] < MaxHealthStatusCount
    <3>1. o # request[l]
      BY <2>2
    <3>2. o \in DriveObj
      BY DEF Alive, Registered, Connected, Held, TypeOK
    <3>3. curErrorCount'[o] = curErrorCount[o]
      BY <3>1, <3>2 DEF TypeOK
    <3>. QED
      BY <2>2, <3>3 DEF Ready
  <2>. QED
    BY <2>1, <2>2 DEF Sweep
<1>. QED
  BY <1>1, <1>4, <1>5 DEF Polls!Turn

LEMMA PollServiceStep ==
    ASSUME TypeOK, SweepHolds, SweepHolds', ErrorCountBound, [Next]_vars
    PROVE  [Polls!Next]_(Polls!vars)
<1>1. ASSUME UNCHANGED <<drives, copyDrives, request, curErrorCount>>
      PROVE  UNCHANGED Polls!vars
  BY <1>1 DEF Polls!vars, Alive, Registered, Connected, Held
<1>2. ASSUME UNCHANGED pollVars \/ pauseHealthStatusPolling \/ resumeHealthStatusPolling
      PROVE  UNCHANGED <<copyDrives, request>>
  BY <1>2 DEF resumeHealthStatusPolling, pauseHealthStatusPolling, pollVars
<1>3. ASSUME NEW found \in SUBSET Eid, DetectMctpEndpoints(found)
      PROVE  Polls!Next
  BY <1>2, <1>3, ConstructComes DEF DetectMctpEndpoints, Polls!Next
<1>4. ASSUME NEW e \in Eid, DeviceAdded(e)
      PROVE  Polls!Next
  BY <1>2, <1>4, ConstructComes DEF DeviceAdded, Polls!Next
<1>5. ASSUME NEW e \in Eid, DeviceRemoved(e)
      PROVE  Polls!Next
  <2>1. UNCHANGED <<copyDrives, request, curErrorCount>>
    BY <1>2, <1>5 DEF DeviceRemoved
  <2>2. Alive' \subseteq Alive
    BY <1>5, <2>1, ConstantsAssumption
    DEF DeviceRemoved, Alive, Held, Registered, Connected, TypeOK
  <2>3. Polls!Asked \subseteq Alive'
    BY <2>1 DEF SweepHolds, Polls!Asked, Alive, Held
  <2>. QED
    BY <2>1, <2>2, <2>3 DEF Polls!Go, Polls!Next
<1>6. ASSUME NEW pause \in BOOLEAN, PauseHealthStatusPoll(pause)
      PROVE  UNCHANGED Polls!vars
  BY <1>1, <1>2, <1>6 DEF PauseHealthStatusPoll
<1>7. ASSUME NEW l \in Coroutine, TaskStep(l)
      PROVE  [Polls!Next]_(Polls!vars)
  <2>1. CASE TimerExpires(l) \/ PollTimerAborted(l)
    BY <1>1, <2>1 DEF TimerExpires, PollTimerAborted
  <2>2. CASE StartSweep(l)
    <3>1. Registered \in SUBSET Alive
      BY DEF Alive
    <3>2. request[l] = NULL
      BY <2>2 DEF StartSweep, SweepHolds
    <3>3. NULL \notin Registered
      BY DEF Registered, Connected
    <3>4. Polls!Turn(l)
      BY <2>2, <3>1, <3>2, <3>3, SweepTurns DEF StartSweep
    <3>. QED
      BY <3>4 DEF Polls!Next
  <2>3. CASE PollFailed(l) \/ PollAnswered(l)
    <3>1. request[l] # NULL
      BY <2>3 DEF PollFailed, PollAnswered, SweepHolds
    <3>2. copyDrives[l] \in SUBSET Alive /\ todo[l] \in SUBSET copyDrives[l]
      BY DEF SweepHolds, Alive, Held
    <3>3. request[l] \notin todo[l]
      BY DEF SweepHolds
    <3>4. Sweep(l, copyDrives[l], todo[l]) /\ drives' = drives
      BY <2>3 DEF PollFailed, PollAnswered
    <3>5. \E count \in {0, curErrorCount[request[l]] + 1} :
             curErrorCount' = [curErrorCount EXCEPT ![request[l]] = count]
      BY <2>3, <3>1, CountHasRoom DEF PollFailed, PollAnswered
    <3>6. Polls!Turn(l)
      BY <3>1, <3>2, <3>3, <3>4, <3>5, SweepTurns
    <3>. QED
      BY <3>6 DEF Polls!Next
  <2>. QED
    BY <1>7, <2>1, <2>2, <2>3 DEF TaskStep
<1>8. CASE \/ \E c \in Collector, p \in DriveObj : CollectLog(c, p)
           \/ \E c \in Collector : CollectLogReturns(c)
           \/ \E l \in Coroutine : PollThrows(l)
           \/ \E c \in Collector : CollectLogDangles(c)
           \/ PathRefused
           \/ Stop
           \/ UNCHANGED vars
  BY <1>1, <1>8
  DEF CollectLog, CollectLogReturns, PollThrows, CollectLogDangles, PathRefused,
      Stop, vars, pollVars
<1>. QED
  BY <1>3, <1>4, <1>5, <1>6, <1>7, <1>8 DEF Next, Step

(* Whatever drives come and go and however loops overlap, the daemon asks  *)
(* and counts as PollService specifies.                                    *)
THEOREM ImplementsPollService == Spec => IsPollService
<1>1. Init => Polls!Init
  BY DEF Init, Polls!Init, Alive, Registered, Connected, Held
<1>2. /\ TypeOK /\ SweepHolds /\ SweepHolds' /\ ErrorCountBound
      /\ [Next]_vars
      => [Polls!Next]_(Polls!vars)
  BY PollServiceStep
<1>. QED
  BY <1>1, <1>2, TypeCorrect, SweepInvariant, ErrorCountBounded, PTL
  DEF Spec, IsPollService, Polls!Spec

-----------------------------------------------------------------------------
(* The flag that silences the poll                                         *)

(* What a step does to the flag and to the collections in progress.        *)
LEMMA CollectEffect ==
    ASSUME [Next]_vars
    PROVE  \/ UNCHANGED collectVars
           \/ \E c \in Collector, o \in DriveObj : CollectLog(c, o)
           \/ \E c \in Collector : CollectLogReturns(c)
  BY DEF Next, Step, DetectMctpEndpoints, DeviceAdded, DeviceRemoved,
         PauseHealthStatusPoll, TaskStep, TimerExpires, PollTimerAborted, StartSweep,
         PollFailed, PollAnswered, PollThrows, CollectLogDangles, PathRefused, Stop, vars

(* Whenever polls are silenced a CollectLog call is in progress.           *)
THEOREM FlagIsReleased == Spec => []FlagHasCollector
<1>1. Init => FlagHasCollector
  BY DEF Init, FlagHasCollector
<1>2. TypeOK /\ FlagHasCollector /\ [Next]_vars => FlagHasCollector'
  <2>. SUFFICES ASSUME TypeOK, FlagHasCollector, [Next]_vars
                PROVE  FlagHasCollector'
    OBVIOUS
  <2>1. CASE UNCHANGED collectVars
    BY <2>1 DEF FlagHasCollector, collectVars
  <2>2. ASSUME NEW c \in Collector, NEW o \in DriveObj, CollectLog(c, o)
        PROVE  FlagHasCollector'
    BY <2>2, ConstantsAssumption DEF CollectLog, FlagHasCollector, TypeOK
  <2>3. ASSUME NEW c \in Collector, CollectLogReturns(c)
        PROVE  FlagHasCollector'
    BY <2>3 DEF CollectLogReturns, FlagHasCollector
  <2>. QED
    BY <2>1, <2>2, <2>3, CollectEffect
<1>. QED
  BY <1>1, <1>2, TypeCorrect, PTL DEF Spec

(* The converse holds for the collections that no other one has left: the  *)
(* first of several to end clears the flag, and marks all that stay.       *)
SilentUntilOverlapped ==
    \A c \in Collector :
        collecting[c] # NULL /\ c \notin overlapped => pausePollRequested

LEMMA SilentStep ==
    ASSUME TypeOK, SilentUntilOverlapped, [Next]_vars
    PROVE  SilentUntilOverlapped'
<1>1. CASE UNCHANGED collectVars
  BY <1>1 DEF SilentUntilOverlapped, collectVars
<1>2. ASSUME NEW c \in Collector, NEW o \in DriveObj, CollectLog(c, o)
      PROVE  SilentUntilOverlapped'
  BY <1>2 DEF CollectLog, SilentUntilOverlapped
<1>3. ASSUME NEW c \in Collector, CollectLogReturns(c)
      PROVE  SilentUntilOverlapped'
  <2>1. collecting' = [collecting EXCEPT ![c] = NULL]
    BY <1>3 DEF CollectLogReturns, Leaves
  <2>2. \A d \in Collector : collecting'[d] # NULL =>
          d # c /\ collecting[d] # NULL
    BY <2>1 DEF TypeOK
  <2>3. overlapped' = {d \in Collector \ {c} : collecting[d] # NULL}
    BY <1>3 DEF CollectLogReturns, Leaves
  <2>. QED
    BY <2>2, <2>3 DEF SilentUntilOverlapped
<1>. QED
  BY <1>1, <1>2, <1>3, CollectEffect

THEOREM CollectIsSilent == Spec => []SilentUntilOverlapped
<1>1. Init => SilentUntilOverlapped
  BY DEF Init, SilentUntilOverlapped
<1>2. TypeOK /\ SilentUntilOverlapped /\ [Next]_vars => SilentUntilOverlapped'
  BY SilentStep
<1>. QED
  BY <1>1, <1>2, TypeCorrect, PTL DEF Spec

(* A sweep sends nothing while the flag is set.                            *)
LEMMA SweepSilent ==
    ASSUME TypeOK, NEW l \in Coroutine, NEW held, NEW rest, Sweep(l, held, rest),
           NEW m \in Coroutine, request'[m] \notin {NULL, request[m]}
    PROVE  ~pausePollRequested
<1>1. CASE LoopHead(l)
  BY <1>1 DEF LoopHead, Idle, TypeOK
<1>2. ASSUME NEW o \in rest, Ready(o)
      PROVE  ~pausePollRequested
  BY <1>2 DEF Ready
<1>. QED
  BY <1>1, <1>2 DEF Sweep

(* While a CollectLog call runs no poll request is sent, until the first   *)
(* of the calls it overlaps with has returned.                             *)
THEOREM CollectKeepsPollsOut == Spec => NoPollDuringCollect
<1>. DEFINE Silent ==
       \A l \in Coroutine :
           request'[l] \notin {NULL, request[l]} =>
               \A c \in Collector : collecting[c] = NULL \/ c \in overlapped
<1>1. TypeOK /\ SilentUntilOverlapped /\ [Next]_vars => Silent
  <2>. SUFFICES ASSUME TypeOK, SilentUntilOverlapped, [Next]_vars,
                       NEW m \in Coroutine, request'[m] \notin {NULL, request[m]}
                PROVE  ~pausePollRequested
    BY DEF SilentUntilOverlapped
  <2>1. ASSUME UNCHANGED pollVars \/ pauseHealthStatusPolling \/ resumeHealthStatusPolling
        PROVE  FALSE
    BY <2>1 DEF pollVars, pauseHealthStatusPolling, resumeHealthStatusPolling
  <2>2. ASSUME NEW l \in Coroutine, Ticks(l) \/ Ends(l)
        PROVE  FALSE
    BY <2>2 DEF Ticks, Ends
  <2>3. ASSUME NEW l \in Coroutine, Sweeps(l)
        PROVE  ~pausePollRequested
    BY <2>3, SweepSilent DEF Sweeps
  <2>. QED
    BY <2>1, <2>2, <2>3, PollEffect
<1>2. Spec => [][Silent]_vars
  BY <1>1, TypeCorrect, CollectIsSilent, PTL DEF Spec
<1>. QED
  BY <1>2 DEF NoPollDuringCollect

=============================================================================
