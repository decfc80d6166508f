---------------------------- MODULE Application ----------------------------
(***************************************************************************)
(* The daemon's control: which drives it knows (main.cpp), the timer that  *)
(* paces the health status poll, the coroutines that run Application::     *)
(* doPoll, the poll requests the drives have in flight, and the CollectLog *)
(* calls that keep the poll silent while they run (drive.cpp).             *)
(*                                                                         *)
(* The daemon has one thread.  A coroutine runs without interruption from  *)
(* one suspension point (a wait on the timer, an MCTP request) to the      *)
(* next, so a step of this module is everything a handler does between two *)
(* suspension points.  boost::asio::spawn enters the new coroutine inside  *)
(* the call of spawn, up to its first wait.                                *)
(*                                                                         *)
(* A removed drive lives on while a sweep holds it in its copy of the map  *)
(* (shared_ptr); DriveObj are the objects in memory, Eid the MCTP          *)
(* endpoints they are registered under.                                    *)
(*                                                                         *)
(* overlapped is a history variable: no guard reads it.                    *)
(*                                                                         *)
(* Definitions named Bug... are faults this control could have had.  No    *)
(* definition uses them; each stands above the one it would replace and    *)
(* breaks a property below.                                                *)
(***************************************************************************)
EXTENDS Integers, FiniteSets, Functions

CONSTANTS
    Eid,                   \* MCTP endpoint ids
    DriveObj,              \* Drive objects; memory is recycled
    Coroutine,             \* coroutines that may run doPoll at the same time
    Collector,             \* D-Bus calls of CollectLog in progress at a time
    ObjectPath,            \* D-Bus paths that the locations of drives give
    NULL,                  \* no drive; for a path, a numbered one
    MaxHealthStatusCount,  \* maxHealthStatusCount, failures before exclusion
    Debug                  \* NVME_DEBUG=1: PauseHealthStatusPoll is exported

ASSUME ConstantsAssumption ==
    /\ NULL \notin DriveObj \cup ObjectPath
    /\ IsFiniteSet(Coroutine)
    /\ MaxHealthStatusCount \in 1 .. 255
    /\ MaxHealthStatusCount + Cardinality(Coroutine) <= 256  \* uint8_t
    /\ Debug \in BOOLEAN

VARIABLES
    daemon,              \* "running", "stopped" by a signal, "crashed", or
                         \* ended by the exception for a path "refused"
    detecting,           \* the first coroutine is in detectMctpEndpoints
    drives,              \* Application::drives
    path,                \* the D-Bus path each drive object has
    pollTimer,           \* Application::pollTimer is not null
    task,                \* where each doPoll coroutine is suspended
    copyDrives,          \* the drives each sweep's copy of the map holds
    todo,                \* the drives of the copy the sweep has not visited
    request,             \* the drive each coroutine awaits an answer from
    curErrorCount,       \* Drive::curErrorCount, a uint8_t
    pausePollRequested,  \* Drive::pausePollRequested, one flag for all drives
    collecting,          \* the drive whose log each CollectLog call collects
    overlapped           \* CollectLog calls during which another one ended

pollVars == <<pollTimer, task, copyDrives, todo, request>>
collectVars == <<pausePollRequested, collecting, overlapped>>
vars == <<daemon, detecting, drives, path, pollVars, curErrorCount,
          collectVars>>

(***************************************************************************)
(* "waiting": the wait on pollTimer is pending; "expired" and "aborted":   *)
(* the wait has ended and its handler is queued, and cancel() no longer    *)
(* reaches it; "polling": a request is in flight.                          *)
(***************************************************************************)
TaskState == {"none", "waiting", "expired", "aborted", "polling"}

TypeOK ==
    /\ daemon \in {"running", "stopped", "crashed", "refused"}
    /\ detecting \in BOOLEAN
    /\ drives \in [Eid -> DriveObj \cup {NULL}]
    /\ path \in [DriveObj -> ObjectPath \cup {NULL}]
    /\ pollTimer \in BOOLEAN
    /\ task \in [Coroutine -> TaskState]
    /\ copyDrives \in [Coroutine -> SUBSET DriveObj]
    /\ todo \in [Coroutine -> SUBSET DriveObj]
    /\ request \in [Coroutine -> DriveObj \cup {NULL}]
    /\ curErrorCount \in [DriveObj -> 0 .. 255]
    /\ pausePollRequested \in BOOLEAN
    /\ collecting \in [Collector -> DriveObj \cup {NULL}]
    /\ overlapped \subseteq Collector

-----------------------------------------------------------------------------
Connected == {e \in Eid : drives[e] # NULL}
Registered == {drives[e] : e \in Connected}
Held == UNION {copyDrives[l] : l \in Coroutine}

(* A Drive object exists while the map or a sweep's copy refers to it.     *)
Alive == Registered \cup Held

(* Memory for new drives: not a live one, nor the one a CollectLog call    *)
(* still runs in (the model does not let a new drive appear there).        *)
Free == DriveObj \ (Alive \cup {collecting[c] : c \in Collector})

Init ==
    /\ daemon = "running"
    /\ detecting = TRUE
    /\ drives = [e \in Eid |-> NULL]
    /\ path = [o \in DriveObj |-> NULL]
    /\ pollTimer = FALSE
    /\ task = [l \in Coroutine |-> "none"]
    /\ copyDrives = [l \in Coroutine |-> {}]
    /\ todo = [l \in Coroutine |-> {}]
    /\ request = [l \in Coroutine |-> NULL]
    /\ curErrorCount = [o \in DriveObj |-> 0]
    /\ pausePollRequested = FALSE
    /\ collecting = [c \in Collector |-> NULL]
    /\ overlapped = {}

-----------------------------------------------------------------------------
(* The poll timer and the loop of doPoll                                   *)

(* cancel() on the timer, or expires_after() by another coroutine: every   *)
(* pending wait ends with operation_aborted; expired ones are out of reach.*)
CancelWaits(t) ==
    [l \in Coroutine |-> IF t[l] = "waiting" THEN "aborted" ELSE t[l]]

(* Top of doPoll's loop with the timer set: restart it and wait on it.     *)
BugWaitKeepsOthers(l) == task' = [task EXCEPT ![l] = "waiting"]
Wait(l) == task' = [CancelWaits(task) EXCEPT ![l] = "waiting"]

BugIdleKeepsCopy(l) ==
    /\ todo' = [todo EXCEPT ![l] = {}]
    /\ request' = [request EXCEPT ![l] = NULL]
    /\ UNCHANGED copyDrives

(* The coroutine holds no copy of the map and no request.                  *)
Idle(l) ==
    /\ copyDrives' = [copyDrives EXCEPT ![l] = {}]
    /\ todo' = [todo EXCEPT ![l] = {}]
    /\ request' = [request EXCEPT ![l] = NULL]

BugLoopIgnoresTimer(l) ==
    /\ Idle(l)
    /\ Wait(l)

LoopHead(l) ==
    /\ Idle(l)
    /\ IF pollTimer THEN Wait(l) ELSE task' = [task EXCEPT ![l] = "none"]

(* pollSubsystemHealthStatus returns at once unless the drive is ready.    *)
BugReadyIgnoresPause(o) == curErrorCount[o] < MaxHealthStatusCount
BugReadyIgnoresCount(o) == ~pausePollRequested
BugReadyPastLimit(o) ==
    /\ curErrorCount[o] # MaxHealthStatusCount
    /\ ~pausePollRequested
Ready(o) ==
    /\ curErrorCount[o] < MaxHealthStatusCount
    /\ ~pausePollRequested

BugSweepStopsAtFirst(l, held, rest) ==
    LET ready == {o \in rest : Ready(o)}
    IN  \/ \E o \in ready :
              /\ task' = [task EXCEPT ![l] = "polling"]
              /\ copyDrives' = [copyDrives EXCEPT ![l] = held]
              /\ todo' = [todo EXCEPT ![l] = {}]
              /\ request' = [request EXCEPT ![l] = o]
        \/ /\ ready = {}
           /\ LoopHead(l)

(* The sweep goes on over rest, in the order of the hash map: it passes    *)
(* the drives in skipped, which return at once, and sends to the next one; *)
(* when none is ready it is back at the top of the loop.                   *)
Sweep(l, held, rest) ==
    LET ready == {o \in rest : Ready(o)}
    IN  \/ \E o \in ready, skipped \in SUBSET (rest \ ready) :
              /\ task' = [task EXCEPT ![l] = "polling"]
              /\ copyDrives' = [copyDrives EXCEPT ![l] = held]
              /\ todo' = [todo EXCEPT ![l] = rest \ (skipped \cup {o})]
              /\ request' = [request EXCEPT ![l] = o]
        \/ /\ ready = {}
           /\ LoopHead(l)

-----------------------------------------------------------------------------
(* Pause and resume                                                        *)

BugPauseKeepsTimer ==
    /\ task' = IF pollTimer THEN CancelWaits(task) ELSE task
    /\ UNCHANGED <<pollTimer, copyDrives, todo, request>>

pauseHealthStatusPolling ==
    /\ pollTimer' = FALSE
    /\ task' = IF pollTimer THEN CancelWaits(task) ELSE task
    /\ UNCHANGED <<copyDrives, todo, request>>

resumeHealthStatusPolling ==
    \/ /\ ~pollTimer
       /\ pollTimer' = TRUE
       /\ \E l \in Coroutine :
             /\ task[l] = "none"
             /\ task' = [task EXCEPT ![l] = "waiting"]
       /\ UNCHANGED <<copyDrives, todo, request>>
    \/ /\ pollTimer
       /\ UNCHANGED pollVars

PauseHealthStatusPoll(pause) ==
    /\ Debug
    /\ IF pause THEN pauseHealthStatusPolling ELSE resumeHealthStatusPolling
    /\ UNCHANGED <<detecting, drives, path, curErrorCount, collectVars>>

-----------------------------------------------------------------------------
(* Drives come and go                                                      *)

BugConstructKeepsCount(found) ==
    \E place \in Injection(found \ Connected, Free) :
        /\ drives' = [e \in Eid |-> IF e \in found \ Connected
                                    THEN place[e] ELSE drives[e]]
        /\ path' \in [DriveObj -> ObjectPath \cup {NULL}]
        /\ \A o \in DriveObj \ Range(place) : path'[o] = path[o]
        /\ \A o \in Range(place), p \in Alive \cup Range(place) :
              path'[o] = path'[p] => o = p \/ path'[o] = NULL
        /\ UNCHANGED curErrorCount

(* getDriveName and the constructors it feeds: each drive is named after   *)
(* its location, by a regex that gives several locations the same path, or *)
(* after the counter driveCounter, which gives no name twice (NULL).       *)
(*                                                                         *)
(* New Drive objects for the endpoints in found that have none, with paths *)
(* no other object in memory has; the others are as they were.  An         *)
(* endpoint that has a drive gets a second object as well, which emplace   *)
(* drops at once: it leaves nothing behind.                                *)
Construct(found) ==
    \E place \in Injection(found \ Connected, Free) :
        /\ drives' = [e \in Eid |-> IF e \in found \ Connected
                                    THEN place[e] ELSE drives[e]]
        /\ curErrorCount' = [o \in DriveObj |->
                                IF o \in Range(place) THEN 0 ELSE curErrorCount[o]]
        /\ path' \in [DriveObj -> ObjectPath \cup {NULL}]
        /\ \A o \in DriveObj \ Range(place) : path'[o] = path[o]
        /\ \A o \in Range(place), p \in Alive \cup Range(place) :
              path'[o] = path'[p] => o = p \/ path'[o] = NULL

(* A path that constructing the drives of found may ask for is another     *)
(* object's already: one in memory, or one that the same loop made.        *)
PathTaken(found) ==
    \/ found # {} /\ \E o \in Alive : path[o] # NULL
    \/ ObjectPath # {} /\ \E e \in found \ Connected : found # {e}

(* End of the first coroutine: a drive for every endpoint found that has   *)
(* none (emplace keeps the drive an event registered meanwhile).           *)
DetectMctpEndpoints(found) ==
    /\ detecting
    /\ detecting' = FALSE
    /\ Construct(found)
    /\ IF found \cup Connected = {}
       THEN UNCHANGED pollVars
       ELSE resumeHealthStatusPolling
    /\ UNCHANGED collectVars

(* An added endpoint that has a drive already keeps it.                    *)
DeviceAdded(e) ==
    /\ Construct({e})
    /\ IF Connected \cup {e} = {e}
       THEN resumeHealthStatusPolling
       ELSE UNCHANGED pollVars
    /\ UNCHANGED <<detecting, collectVars>>

(* D-Bus refuses an interface that the path has already: initialize()      *)
(* throws out of the constructor, and nothing up to main catches.          *)
PathRefused ==
    /\ \/ detecting /\ \E found \in SUBSET Eid : PathTaken(found)
       \/ \E e \in Eid : PathTaken({e})
    /\ daemon' = "refused"
    /\ UNCHANGED <<detecting, drives, path, pollVars, curErrorCount, collectVars>>

BugRemovedPausesAtOne(e) ==
    /\ drives' = [drives EXCEPT ![e] = NULL]
    /\ IF Cardinality(Connected \ {e}) = 1
       THEN pauseHealthStatusPolling
       ELSE UNCHANGED pollVars
    /\ UNCHANGED <<detecting, path, curErrorCount, collectVars>>

DeviceRemoved(e) ==
    /\ drives' = [drives EXCEPT ![e] = NULL]
    /\ IF Connected \subseteq {e}
       THEN pauseHealthStatusPolling
       ELSE UNCHANGED pollVars
    /\ UNCHANGED <<detecting, path, curErrorCount, collectVars>>

-----------------------------------------------------------------------------
(* Steps of a doPoll coroutine                                             *)

(* The timer's deadline passes: the handler of the wait is queued.         *)
TimerExpires(l) ==
    /\ task[l] = "waiting"
    /\ task' = [task EXCEPT ![l] = "expired"]
    /\ UNCHANGED <<detecting, drives, path, pollTimer, copyDrives, todo,
                   request, curErrorCount, collectVars>>

(* The wait ended with operation_aborted: doPoll returns.                  *)
PollTimerAborted(l) ==
    /\ task[l] = "aborted"
    /\ task' = [task EXCEPT ![l] = "none"]
    /\ UNCHANGED <<detecting, drives, path, pollTimer, copyDrives, todo,
                   request, curErrorCount, collectVars>>

BugSweepWithoutCopy(l) ==
    /\ task[l] = "expired"
    /\ Sweep(l, {}, Registered)
    /\ UNCHANGED <<detecting, drives, path, pollTimer, curErrorCount, collectVars>>

(* The wait ended in time: copy the map and poll the drives of the copy.   *)
StartSweep(l) ==
    /\ task[l] = "expired"
    /\ Sweep(l, Registered, Registered)
    /\ UNCHANGED <<detecting, drives, path, pollTimer, curErrorCount, collectVars>>

BugFailureCountsDown(l) ==
    /\ task[l] = "polling"
    /\ curErrorCount' = [curErrorCount EXCEPT ![request[l]] = @ - 1]
    /\ Sweep(l, copyDrives[l], todo[l])
    /\ UNCHANGED <<detecting, drives, path, pollTimer, collectVars>>

(* sendReceiveYield reports an error or times out, or the response carries *)
(* a status other than success.                                            *)
PollFailed(l) ==
    /\ task[l] = "polling"
    /\ curErrorCount' = [curErrorCount EXCEPT ![request[l]] = (@ + 1) % 256]
    /\ Sweep(l, copyDrives[l], todo[l])
    /\ UNCHANGED <<detecting, drives, path, pollTimer, collectVars>>

(* A valid response.  What it does to the sensor is module NumericSensor's.*)
PollAnswered(l) ==
    /\ task[l] = "polling"
    /\ curErrorCount' = [curErrorCount EXCEPT ![request[l]] = 0]
    /\ Sweep(l, copyDrives[l], todo[l])
    /\ UNCHANGED <<detecting, drives, path, pollTimer, collectVars>>

(* A response that NVMeResponse rejects (too short, wrong CRC): its        *)
(* constructor throws in validateResponse, outside pollSubsystemHealth-    *)
(* Status's try block, and nothing up to main catches.                     *)
PollThrows(l) ==
    /\ task[l] = "polling"
    /\ daemon' = "crashed"
    /\ UNCHANGED <<detecting, drives, path, pollVars, curErrorCount, collectVars>>

-----------------------------------------------------------------------------
(* The CollectLog method of a drive, whose D-Bus interface is there as     *)
(* long as the object is.                                                  *)

CollectLog(c, o) ==
    /\ collecting[c] = NULL
    /\ o \in Alive
    /\ collecting' = [collecting EXCEPT ![c] = o]
    /\ pausePollRequested' = TRUE
    /\ UNCHANGED <<detecting, drives, path, pollVars, curErrorCount, overlapped>>

(* The call is over; the calls still in progress have been overlapped.     *)
Leaves(c) ==
    /\ collecting[c] # NULL
    /\ collecting' = [collecting EXCEPT ![c] = NULL]
    /\ overlapped' = {d \in Collector \ {c} : collecting[d] # NULL}

BugFlagLeftOnThrow(c) ==
    /\ Leaves(c)
    /\ pausePollRequested' \in {FALSE, pausePollRequested}
    /\ UNCHANGED <<detecting, drives, path, pollVars, curErrorCount>>

BugFlagUntilLast(c) ==
    /\ Leaves(c)
    /\ pausePollRequested' = \E d \in Collector \ {c} : collecting[d] # NULL
    /\ UNCHANGED <<detecting, drives, path, pollVars, curErrorCount>>

(* collectDriveLog returned or threw a std::exception; the flag is cleared *)
(* whoever else is collecting.                                             *)
CollectLogReturns(c) ==
    /\ Leaves(c)
    /\ pausePollRequested' = FALSE
    /\ UNCHANGED <<detecting, drives, path, pollVars, curErrorCount>>

(* collectDriveLog resumes with a this pointer to a drive that was removed *)
(* and freed while it waited: undefined behaviour.                         *)
CollectLogDangles(c) ==
    /\ collecting[c] \notin Alive \cup {NULL}
    /\ daemon' = "crashed"
    /\ UNCHANGED <<detecting, drives, path, pollVars, curErrorCount, collectVars>>

(* SIGINT or SIGTERM.                                                      *)
Stop ==
    /\ daemon' = "stopped"
    /\ UNCHANGED <<detecting, drives, path, pollVars, curErrorCount, collectVars>>

-----------------------------------------------------------------------------
TaskStep(l) ==
    \/ TimerExpires(l)
    \/ PollTimerAborted(l)
    \/ StartSweep(l)
    \/ PollFailed(l)
    \/ PollAnswered(l)

(* Steps the daemon survives.                                              *)
Step ==
    \/ \E found \in SUBSET Eid : DetectMctpEndpoints(found)
    \/ \E e \in Eid : DeviceAdded(e) \/ DeviceRemoved(e)
    \/ \E pause \in BOOLEAN : PauseHealthStatusPoll(pause)
    \/ \E l \in Coroutine : TaskStep(l)
    \/ \E c \in Collector, o \in DriveObj : CollectLog(c, o)
    \/ \E c \in Collector : CollectLogReturns(c)

Next ==
    /\ daemon = "running"
    /\ \/ Step /\ UNCHANGED daemon
       \/ \E l \in Coroutine : PollThrows(l)
       \/ \E c \in Collector : CollectLogDangles(c)
       \/ PathRefused
       \/ Stop

(***************************************************************************)
(* Fairness.  The timer expires one second after it was set, the event     *)
(* loop runs every queued handler, and a poll request ends after at most   *)
(* hsPollTimeout (100 ms): each of a coroutine's own steps happens when it *)
(* stays possible.  A collection returns, which CallReturns of module      *)
(* CollectLog shows.  Nothing is assumed of devices, D-Bus clients and     *)
(* signals.                                                                *)
(***************************************************************************)
Fairness ==
    /\ \A l \in Coroutine :
          WF_vars(daemon = "running" /\ TaskStep(l) /\ UNCHANGED daemon)
    /\ \A c \in Collector :
          WF_vars(daemon = "running" /\ CollectLogReturns(c) /\ UNCHANGED daemon)

Spec == Init /\ [][Next]_vars
FairSpec == Spec /\ Fairness

-----------------------------------------------------------------------------
(* Properties                                                              *)

(* While the timer is set some doPoll coroutine is in its loop: neither a  *)
(* cancelled wait nor a pause and resume in the middle of a sweep leaves   *)
(* the timer set with nobody to wait on it, which resume would never mend. *)
PollingHasTask ==
    pollTimer => \E l \in Coroutine : task[l] \in {"waiting", "expired", "polling"}

(* Coroutines left over by pause and resume never wait side by side: at    *)
(* most one wait is pending, and only while the timer is set.              *)
OneWaiter ==
    /\ \A l, m \in Coroutine :
          task[l] = "waiting" /\ task[m] = "waiting" => l = m
    /\ \A l \in Coroutine : task[l] = "waiting" => pollTimer

(* Without the debug interface the daemon polls exactly while it has a     *)
(* drive, whatever the order of detection, added and removed events.       *)
PollingIffDrives == ~Debug => (pollTimer <=> Connected # {})

(* A drive with a request in flight, or still to be visited by a sweep, is *)
(* a live object even when it was removed meanwhile.                       *)
PolledDriveAlive ==
    \A l \in Coroutine : (todo[l] \cup {request[l]}) \ {NULL} \subseteq Alive

InFlight(o) == {l \in Coroutine : request[l] = o}

(* Polls of one drive by overlapping sweeps may each add a failure after   *)
(* the check of the count, one per coroutine and no more, so the uint8_t   *)
(* never wraps around and lets an excluded drive in again.                 *)
ErrorCountBound ==
    \A o \in DriveObj :
        curErrorCount[o] + Cardinality(InFlight(o))
            <= MaxHealthStatusCount - 1 + Cardinality(Coroutine)

(* The flag that silences all polls is never left set by a CollectLog call *)
(* that is over, however it ended.                                         *)
FlagHasCollector == pausePollRequested => \E c \in Collector : collecting[c] # NULL

(* No poll request is sent while a log is being collected, except during a *)
(* collection that another one overlapped and left first, taking the flag  *)
(* of all with it: polls resume neither while one collection runs alone    *)
(* nor before the first of several has ended (drive.cpp, CollectLog).      *)
NoPollDuringCollect ==
    [][\A l \in Coroutine :
          request'[l] \notin {NULL, request[l]} =>
              \A c \in Collector : collecting[c] = NULL \/ c \in overlapped]_vars

(* Every registered drive is polled again and again, unless polling is     *)
(* paused, a log is being collected, or the drive is excluded.             *)
EveryDrivePolled ==
    \A e \in Eid :
        []<>(\/ daemon # "running"
             \/ drives[e] = NULL
             \/ ~pollTimer
             \/ pausePollRequested
             \/ curErrorCount[drives[e]] >= MaxHealthStatusCount
             \/ \E l \in Coroutine : request[l] = drives[e])

(* Once polling is paused every doPoll coroutine ends, unless it resumes.  *)
PauseEndsTasks ==
    ~pollTimer ~> \/ pollTimer
                  \/ daemon # "running"
                  \/ \A l \in Coroutine : task[l] = "none"

(* CollectLog calls, even when they overlap without end, do not silence    *)
(* the polls for good: each one that returns lets them in (CollectLog).    *)
SilenceEnds == []<>(~pausePollRequested \/ daemon # "running")

(* A drive that failed too often stays excluded, count and all, as long as *)
(* its object lives: no poll reaches it again, although polls that overlap *)
(* may push its count past the limit.  Only the answer to a request that   *)
(* was in flight already lets it in again (pollSubsystemHealthStatus).     *)
ExclusionIsFinal ==
    [][\A o \in Alive :
          curErrorCount[o] >= MaxHealthStatusCount /\ InFlight(o) = {} =>
              curErrorCount'[o] = curErrorCount[o] /\ InFlight(o)' = {}]_vars

(* An object that was removed is freed in the end: no sweep keeps its copy *)
(* of the map for ever, in whatever order loops are paused and resumed.    *)
(* Its path is free from then on (doPoll's copyDrives).                    *)
RemovedDriveIsFreed ==
    \A o \in DriveObj :
        []<>(o \notin Held \ Registered \/ daemon # "running")

(* Timers, sweeps, copies of the map, recycled memory and the pause flag   *)
(* together do no more than PollService: only objects in memory are asked, *)
(* one that reached the limit never again, a new one has no failures of    *)
(* another that was in its place, and no count wraps around (doPoll and    *)
(* pollSubsystemHealthStatus).                                             *)
Polls == INSTANCE PollService
    WITH alive <- Alive, failures <- curErrorCount, Loop <- Coroutine,
         Limit <- MaxHealthStatusCount
IsPollService == Polls!Spec

(* A response a drive should not have sent does not end the daemon.        *)
DaemonSurvives == daemon # "crashed"

(* A drive that comes up gets its object (README: new drive object will be *)
(* created): if its path is taken, then by the drive of another endpoint   *)
(* that is there, not by a drive that was removed (deviceAdded).           *)
RefusalHasOwner ==
    daemon = "refused" => \E e \in Connected : path[drives[e]] # NULL
=============================================================================
