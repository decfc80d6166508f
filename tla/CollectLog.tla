----------------------------- MODULE CollectLog -----------------------------
(***************************************************************************)
(* One call of CollectLog (Drive::collectDriveLog, drive.cpp): the         *)
(* requests it sends, one after the other, what it does with each answer,  *)
(* and the JSON object it writes.  A step is the code from one answer to   *)
(* the next request.                                                       *)
(*                                                                         *)
(* The JSON object is a function from the entries it has to where the      *)
(* bytes of each come from; objects and lists it puts around them are left *)
(* out.  An entry is named by its section and its place there.             *)
(*                                                                         *)
(* getNVMeDatastructOptionalData returns a pointer into a response that is *)
(* freed when it returns, so what its callers read is what the allocator   *)
(* left there: the entry is Freed, and what the call goes on with is one   *)
(* of PortReads and one of ControllerReads, the values that can be read    *)
(* for the number of ports and for the list of controllers.                *)
(*                                                                         *)
(* lost and faults are history variables.  Definitions named Bug... are    *)
(* faults that break a property; no definition uses them.                  *)
(***************************************************************************)
EXTENDS Message, Sequences, Functions

CONSTANTS
    NULL,             \* std::nullopt
    DrivePorts,       \* the drive's last port: its number of ports less one
    DriveControllers, \* ids in the drive's controller list, in its order
    DriveNamespaces,  \* ids in the drive's active namespace list
    MaxNamespaces,    \* maxNamespacesExpected: ids a page has room for
    FaultyResponses,  \* what a connected drive may send by mistake
    PortReads,        \* what may be read for numberOfPorts
    ControllerReads,  \* what may be read for the controller list
    PortMod,          \* values of uint8_t, the type of the port counters
    MaxFaults         \* bound on the requests a connected drive fails

(* The place values of the bytes of a uint32_t, the low one first.         *)
Place == <<1, 256, 65536, 16777216>>

ASSUME CollectAssumption ==
    /\ PortMod \in Nat \ {0}
    /\ PortReads \subseteq 0 .. PortMod - 1
    /\ DrivePorts \in PortReads
    /\ NULL \notin Int
    /\ MaxNamespaces \in Nat \ {0}
    /\ FaultyResponses \subseteq ResponseRecord
    /\ MaxFaults \in Nat

ControllerId == 0 .. 65535  \* uint16_t

(* The ids of namespaces are uint32_t.                                     *)
ASSUME ListAssumption ==
    /\ ControllerReads \subseteq Seq(ControllerId) \ {<<>>}
    /\ DriveControllers \in ControllerReads
    /\ DriveNamespaces \in Seq(Nat \ {0})
    /\ \A id \in Range(DriveNamespaces) : id \div Place[4] < 256

SubsystemInfoSize == 32  \* sizeof(SubsystemInfo)

(* A response with everything asked for, one that refuses, and none: a     *)
(* timeout throws as a response of no bytes does.                          *)
NoResponse == [size |-> 0, intact |-> FALSE, success |-> FALSE]
Whole == [size |-> AdminResponseMin + SubsystemInfoSize + 4 * MaxNamespaces
                       + CRC32C, intact |-> TRUE, success |-> TRUE]
Refusal(minSize) ==
    [size |-> minSize + CRC32C, intact |-> TRUE, success |-> FALSE]

Answer == {NoResponse, Whole} \cup FaultyResponses
              \cup {Refusal(ManagementResponseMin), Refusal(AdminResponseMin)}

(* The answers each command makes an entry of.  Data structures and health *)
(* status polls are used whatever the status, configurations and features  *)
(* whatever the data.                                                      *)
StructureUsable ==
    {k \in Answer : ManagementInterfaceResponse(k) /\ OptionalDataLength(k) > 0}
SubsystemInfoUsable ==
    {k \in StructureUsable : OptionalDataLength(k) >= SubsystemInfoSize}
ControllerListUsable ==
    {k \in StructureUsable : OptionalDataLength(k) % 2 = 0}
ControllerHSUsable == {k \in Answer : ManagementInterfaceResponse(k)}
SubsystemHSUsable ==
    {k \in Answer : ManagementInterfaceResponse(k) /\ OptionalDataLength(k) > 0}
ConfigUsable ==
    {k \in Answer : ManagementInterfaceResponse(k) /\ k.success}
FeatureUsable == {k \in Answer : AdminCommandResponse(k) /\ k.success}
LogPageUsable == {k \in FeatureUsable : AdminDataLength(k) > 0}
IdentifyUsable == {k \in FeatureUsable : AdminDataLength(k) > 0}

Section == {"SubsystemInfo", "Ports", "Controllers", "ControllerInfo",
            "OptionalCommands", "ControllerHSPoll", "SubsystemHSPoll",
            "ConfigGet", "GetFeatures", "GetLogPage", "ActiveNamespaces",
            "NamespaceIdDescList", "IdentifyControllers",
            "CommonNamespaceCapablity", "WriteDump", "Returned"}
AdminSection == {"GetFeatures", "GetLogPage", "ActiveNamespaces",
                 "NamespaceIdDescList", "IdentifyControllers",
                 "CommonNamespaceCapablity"}

(* Entries of GetFeatures with the feature that is asked for.              *)
Feature == <<
    <<"Arbitration", "arbitration">>,
    <<"ThresholdUpper", "arbitration">>,
    <<"ThresholdLower", "temperatureThreshold">>,
    <<"Power", "power">>,
    <<"ErrorRecovery", "errorRecovery">>,
    <<"NumberOfQueues", "numberOfQueues">>,
    <<"InterruptCoalescing", "interruptCoalescing">>,
    <<"InterruptVector", "interruptVectorConfiguration">>,
    <<"WriteAtomicity", "writeAtomicityNormal">>,
    <<"AsyncEventConfig", "asynchronousEventConfiguration">> >>

LogPage == <<"Error", "SMARTHealth", "FirmwareSlot", "ChangedNamespaces",
             "CommandSupported", "DeviceSelfTest", "TelemetryHostInitiated",
             "TelemetryControllerInitiated", "EnduranceGroupInformation",
             "PredictableLatencyPerNVMSet",
             "PredictableLatencyEventAggregate", "AsymmetricNamespaceAccess",
             "PersistentEventLog", "EnduranceGroupEventAggregate">>

VARIABLES
    section,           \* where collectDriveLog is
    item,              \* the loop counter of that section
    second,            \* the first of the item's two requests is answered
    numberOfPorts,     \* subsystemInfo->numberOfPorts, NULL without one
    controllerIds,     \* empty when there is none: a list read is not empty
    activeNamespaces,
    dump,              \* jsonObject
    result,            \* what the call returned
    present,           \* the drive is connected
    lost,              \* entries whose request had no usable answer
    faults             \* requests the connected drive failed

cursor == <<section, item, second>>
found == <<numberOfPorts, controllerIds, activeNamespaces>>
environment == <<present, faults>>
vars == <<cursor, found, dump, result, environment, lost>>

(* Where the bytes of an entry come from: the answer to question q; the    *)
(* memory the answer to q had been in, which may hold that answer still, a *)
(* part of it or anything else; or no answer.                              *)
Kept(q) == <<"kept", q>>
Freed(q) == <<"freed", q>>
Unanswered == <<"unanswered">>

PortCount == IF numberOfPorts = NULL THEN 0 ELSE numberOfPorts + 1

(* The entries the dump should have, from what the drive reported so far.  *)
Expected ==
    {<<s, 0>> : s \in {"SubsystemInfo", "Controllers", "OptionalCommands",
                       "ControllerHSPoll", "SubsystemHSPoll",
                       "ActiveNamespaces", "CommonNamespaceCapablity"}}
    \cup {"Ports", "ConfigGet"} \X (0 .. PortCount - 1)
    \cup {"ControllerInfo", "IdentifyControllers"} \X Range(controllerIds)
    \cup {"GetFeatures"} \X DOMAIN Feature
    \cup {"GetLogPage"} \X DOMAIN LogPage
    \cup {"NamespaceIdDescList"} \X Range(activeNamespaces)

TypeOK ==
    /\ section \in Section
    /\ item \in Nat
    /\ second \in BOOLEAN
    /\ numberOfPorts \in PortReads \cup {NULL}
    /\ controllerIds \in ControllerReads \cup {<<>>}
    /\ activeNamespaces \in Seq(Nat \ {0})
    /\ DOMAIN dump \subseteq Expected
    /\ result \in {"pending", "success", "fileSystem", "exception"}
    /\ present \in BOOLEAN
    /\ lost \subseteq Expected
    /\ faults \in 0 .. MaxFaults

Init ==
    /\ section = "SubsystemInfo"
    /\ item = 0
    /\ second = FALSE
    /\ numberOfPorts = NULL
    /\ controllerIds = <<>>
    /\ activeNamespaces = <<>>
    /\ dump = [e \in {} |-> Unanswered]
    /\ result = "pending"
    /\ present = TRUE
    /\ lost = {}
    /\ faults = 0

-----------------------------------------------------------------------------
(* The drive answers a request for something it has or has not; a drive    *)
(* that is gone answers nothing.                                           *)
Reply(k, has) ==
    /\ \/ ~present /\ k = NoResponse
       \/ /\ present /\ ~has
          /\ k = Refusal(IF section \in AdminSection
                         THEN AdminResponseMin ELSE ManagementResponseMin)
       \/ present /\ has /\ (k = Whole \/ faults < MaxFaults)
    /\ faults' = IF present /\ has /\ k # Whole THEN faults + 1 ELSE faults
    /\ UNCHANGED present

Keep(entry, bytes) ==
    /\ dump' = [e \in DOMAIN dump \cup {entry} |->
                   IF e = entry THEN bytes ELSE dump[e]]
    /\ UNCHANGED lost

Lose(entry) ==
    /\ lost' = lost \cup {entry}
    /\ UNCHANGED dump

Record(usable, entry, bytes) ==
    IF usable THEN Keep(entry, bytes) ELSE Lose(entry)

(* A request whose answer is used if it is one of answers.                 *)
Ask(answers, has, entry, bytes) ==
    \E k \in Answer : Reply(k, has) /\ Record(k \in answers, entry, bytes)

Goto(s) ==
    /\ section' = s
    /\ item' = 0
    /\ second' = FALSE

(* A loop over a list: items 1 .. Len(list), then on to the next section.  *)
StartList(s) ==
    /\ section' = s
    /\ item' = 1
    /\ second' = FALSE

NextItem ==
    /\ item' = item + 1
    /\ second' = FALSE
    /\ UNCHANGED section

EndOfList(list, next) ==
    /\ item > Len(list)
    /\ next
    /\ UNCHANGED <<found, dump, result, environment, lost>>

BugMorePorts == item < numberOfPorts
BugOnePortTooMany == item <= numberOfPorts + 1
(* The loops over the ports: uint8_t currentPort <= numberOfPorts.         *)
MorePorts == item <= numberOfPorts

BugSamePort == second' = FALSE /\ UNCHANGED <<section, item>>
NextPort ==
    /\ item' = (item + 1) % PortMod
    /\ second' = FALSE
    /\ UNCHANGED section

-----------------------------------------------------------------------------
SubsystemInfo ==
    /\ section = "SubsystemInfo"
    /\ \E k \in Answer :
          LET usable == k \in SubsystemInfoUsable
              entry == <<"SubsystemInfo", 0>>
          IN  /\ Reply(k, TRUE)
              /\ Record(usable, entry, Freed(entry))
              /\ \/ usable /\ numberOfPorts' \in PortReads /\ Goto("Ports")
                 \/ ~usable /\ UNCHANGED numberOfPorts /\ Goto("Controllers")
    /\ UNCHANGED <<controllerIds, activeNamespaces, result>>

BugPortInfo ==
    /\ section = "Ports"
    /\ MorePorts
    /\ \E k \in Answer :
          /\ Reply(k, item <= DrivePorts)
          /\ Record(k \in StructureUsable, <<"Ports", item>>,
                    Freed(<<"Ports", item>>))
          /\ NextPort
    /\ UNCHANGED <<found, result>>

(* getPortInfo throws; no handler in collectDriveLog: the call is over.    *)
PortInfo ==
    /\ section = "Ports"
    /\ MorePorts
    /\ \E k \in Answer :
          LET usable == k \in StructureUsable
              port == <<"Ports", item>>
          IN  /\ Reply(k, item <= DrivePorts)
              /\ Record(usable, port, Freed(port))
              /\ \/ usable /\ NextPort /\ UNCHANGED result
                 \/ ~usable /\ Goto("Returned") /\ result' = "exception"
    /\ UNCHANGED found

PortsDone ==
    /\ section = "Ports"
    /\ ~MorePorts
    /\ Goto("Controllers")
    /\ UNCHANGED <<found, dump, result, environment, lost>>

BugControllersAbort ==
    /\ section = "Controllers"
    /\ \E k \in Answer :
          LET usable == k \in ControllerListUsable
              entry == <<"Controllers", 0>>
          IN  /\ Reply(k, TRUE)
              /\ Record(usable, entry, Freed(entry))
              /\ \/ /\ usable
                    /\ controllerIds' \in ControllerReads
                    /\ StartList("ControllerInfo")
                    /\ UNCHANGED result
                 \/ /\ ~usable
                    /\ Goto("Returned")
                    /\ result' = "exception"
                    /\ UNCHANGED controllerIds
    /\ UNCHANGED <<numberOfPorts, activeNamespaces>>

Controllers ==
    /\ section = "Controllers"
    /\ \E k \in Answer :
          LET usable == k \in ControllerListUsable
              entry == <<"Controllers", 0>>
          IN  /\ Reply(k, TRUE)
              /\ Record(usable, entry, Freed(entry))
              /\ \/ /\ usable
                    /\ controllerIds' \in ControllerReads
                    /\ StartList("ControllerInfo")
                 \/ /\ ~usable
                    /\ UNCHANGED controllerIds
                    /\ Goto("OptionalCommands")
    /\ UNCHANGED <<numberOfPorts, activeNamespaces, result>>

(* htobe32(controllerId) stored in the request's uint16_t.                 *)
RequestedId(id) == (((id \div 65536) % 256) * 256) + (id \div 16777216)

ControllerInfo ==
    /\ section = "ControllerInfo"
    /\ \/ EndOfList(controllerIds, Goto("OptionalCommands"))
       \/ /\ item <= Len(controllerIds)
          /\ LET id == controllerIds[item]
                 asked == RequestedId(id)
             IN  Ask(StructureUsable, asked \in Range(DriveControllers),
                     <<"ControllerInfo", id>>,
                     Freed(<<"ControllerInfo", asked>>))
          /\ NextItem
          /\ UNCHANGED <<found, result>>

OptionalCommands ==
    /\ section = "OptionalCommands"
    /\ LET entry == <<"OptionalCommands", 0>>
       IN  Ask(StructureUsable, TRUE, entry, Freed(entry))
    /\ Goto("ControllerHSPoll")
    /\ UNCHANGED <<found, result>>

(* One answer stands for the whole of getControllerHSPollResponse (module  *)
(* ControllerHSPoll); giving up there makes no entry, as silence does.     *)
ControllerHSPoll ==
    /\ section = "ControllerHSPoll"
    /\ LET entry == <<"ControllerHSPoll", 0>>
       IN  Ask(ControllerHSUsable, TRUE, entry, Kept(entry))
    /\ Goto("SubsystemHSPoll")
    /\ UNCHANGED <<found, result>>

SubsystemHSPoll ==
    /\ section = "SubsystemHSPoll"
    /\ LET entry == <<"SubsystemHSPoll", 0>>
       IN  Ask(SubsystemHSUsable, TRUE, entry, Kept(entry))
    /\ IF numberOfPorts = NULL
       THEN StartList("GetFeatures") ELSE Goto("ConfigGet")
    /\ UNCHANGED <<found, result>>

BugConfigGet ==
    /\ section = "ConfigGet"
    /\ MorePorts
    /\ LET port == <<"ConfigGet", item>>
       IN  \E k \in Answer :
             /\ Reply(k, item <= DrivePorts)
             /\ \/ k \notin ConfigUsable /\ Lose(port) /\ NextPort
                \/ /\ k \in ConfigUsable /\ second
                   /\ Keep(port, Kept(port)) /\ NextPort
                \/ /\ k \in ConfigUsable /\ ~second
                   /\ Keep(port, Kept(port))
                   /\ second' = TRUE
                   /\ UNCHANGED <<section, item>>
    /\ UNCHANGED <<found, result>>

(* The bus frequency, then the MCTP unit; without both there is no entry.  *)
ConfigGet ==
    /\ section = "ConfigGet"
    /\ MorePorts
    /\ LET port == <<"ConfigGet", item>>
       IN  \E k \in Answer :
             /\ Reply(k, item <= DrivePorts)
             /\ \/ k \notin ConfigUsable /\ Lose(port) /\ NextPort
                \/ /\ k \in ConfigUsable /\ second
                   /\ Keep(port, Kept(port)) /\ NextPort
                \/ /\ k \in ConfigUsable /\ ~second
                   /\ second' = TRUE
                   /\ UNCHANGED <<section, item, dump, lost>>
    /\ UNCHANGED <<found, result>>

ConfigGetDone ==
    /\ section = "ConfigGet"
    /\ ~MorePorts
    /\ StartList("GetFeatures")
    /\ UNCHANGED <<found, dump, result, environment, lost>>

GetFeatures ==
    /\ section = "GetFeatures"
    /\ \/ EndOfList(Feature, StartList("GetLogPage"))
       \/ /\ item <= Len(Feature)
          /\ Ask(FeatureUsable, TRUE, <<"GetFeatures", item>>,
                 Kept(<<"GetFeatures", Feature[item][2]>>))
          /\ NextItem
          /\ UNCHANGED <<found, result>>

(* CommandSupported is the two halves of its page, or nothing.             *)
GetLogPage ==
    /\ section = "GetLogPage"
    /\ \/ EndOfList(LogPage, Goto("ActiveNamespaces"))
       \/ /\ item <= Len(LogPage)
          /\ LET page == <<"GetLogPage", item>>
                 half == LogPage[item] = "CommandSupported" /\ ~second
             IN  \E k \in Answer :
                   /\ Reply(k, TRUE)
                   /\ \/ k \notin LogPageUsable /\ Lose(page) /\ NextItem
                      \/ /\ k \in LogPageUsable /\ ~half
                         /\ Keep(page, Kept(page)) /\ NextItem
                      \/ /\ k \in LogPageUsable /\ half
                         /\ second' = TRUE
                         /\ UNCHANGED <<section, item, dump, lost>>
          /\ UNCHANGED <<found, result>>

(* The drive's list as the bytes of its answer: four for each id, the low  *)
(* one first, then zeros, cut where the answer ends.                       *)
ListByte(i) ==
    LET w == (i - 1) \div 4 + 1
    IN  IF w > Len(DriveNamespaces) THEN 0
        ELSE (DriveNamespaces[w] \div Place[((i - 1) % 4) + 1]) % 256
ListBytes(k) ==
    LET page == 4 * MaxNamespaces
        len == AdminDataLength(k)
    IN  [i \in 1 .. IF len < page THEN len ELSE page |-> ListByte(i)]

(* The id made of the w-th four bytes, those past the end being zero.      *)
BugNamespaceId(bytes, w) ==
    LET b(j) == IF 4 * (w - 1) + j \in DOMAIN bytes
                THEN bytes[4 * (w - 1) + j] ELSE 0
    IN  b(4) + b(3) * Place[2] + b(2) * Place[3] + b(1) * Place[4]
NamespaceId(bytes, w) ==
    LET b(j) == IF 4 * (w - 1) + j \in DOMAIN bytes
                THEN bytes[4 * (w - 1) + j] ELSE 0
    IN  b(1) + b(2) * Place[2] + b(3) * Place[3] + b(4) * Place[4]

(* The ids before the first that is zero.                                  *)
getIdentifyActiveNamespaceIdList(bytes) ==
    LET n == CHOOSE n \in 0 .. Len(bytes) :
                 /\ NamespaceId(bytes, n + 1) = 0
                 /\ \A w \in 1 .. n : NamespaceId(bytes, w) # 0
    IN  [w \in 1 .. n |-> NamespaceId(bytes, w)]

(* An unusable answer leaves an empty list, and the entry is made.         *)
ActiveNamespaces ==
    /\ section = "ActiveNamespaces"
    /\ \E k \in Answer :
          LET usable == k \in IdentifyUsable
              entry == <<"ActiveNamespaces", 0>>
          IN  /\ Reply(k, TRUE)
              /\ Keep(entry, IF usable THEN Kept(entry) ELSE Unanswered)
              /\ activeNamespaces' =
                     IF usable
                     THEN getIdentifyActiveNamespaceIdList(ListBytes(k))
                     ELSE <<>>
    /\ StartList("NamespaceIdDescList")
    /\ UNCHANGED <<numberOfPorts, controllerIds, result>>

NamespaceIdDescList ==
    /\ section = "NamespaceIdDescList"
    /\ \/ EndOfList(activeNamespaces, StartList("IdentifyControllers"))
       \/ /\ item <= Len(activeNamespaces)
          /\ LET nsId == activeNamespaces[item]
                 entry == <<"NamespaceIdDescList", nsId>>
             IN  Ask(IdentifyUsable, nsId \in Range(DriveNamespaces),
                     entry, Kept(entry))
          /\ NextItem
          /\ UNCHANGED <<found, result>>

IdentifyControllers ==
    /\ section = "IdentifyControllers"
    /\ \/ EndOfList(controllerIds, Goto("CommonNamespaceCapablity"))
       \/ /\ item <= Len(controllerIds)
          /\ LET cntrlId == controllerIds[item]
                 controller == <<"IdentifyControllers", cntrlId>>
             IN  Ask(IdentifyUsable, cntrlId \in Range(DriveControllers),
                     controller, Kept(controller))
          /\ NextItem
          /\ UNCHANGED <<found, result>>

CommonNamespace ==
    /\ section = "CommonNamespaceCapablity"
    /\ LET entry == <<"CommonNamespaceCapablity", 0>>
       IN  Ask(IdentifyUsable, TRUE, entry, Kept(entry))
    /\ Goto("WriteDump")
    /\ UNCHANGED <<found, result>>

(* The object has its sections even when they are empty, so the test for   *)
(* an empty object never succeeds; its result would be dropped anyway.     *)
WriteDump ==
    /\ section = "WriteDump"
    /\ result' \in {"success", "fileSystem"}
    /\ Goto("Returned")
    /\ UNCHANGED <<found, dump, environment, lost>>

(* The drive is pulled, or resets, and answers no more in this call.       *)
Unplugged ==
    /\ section # "Returned"
    /\ present
    /\ present' = FALSE
    /\ UNCHANGED <<cursor, found, dump, result, lost, faults>>

Collect ==
    \/ SubsystemInfo \/ PortInfo \/ PortsDone
    \/ Controllers \/ ControllerInfo \/ OptionalCommands
    \/ ControllerHSPoll \/ SubsystemHSPoll
    \/ ConfigGet \/ ConfigGetDone
    \/ GetFeatures \/ GetLogPage
    \/ ActiveNamespaces \/ NamespaceIdDescList
    \/ IdentifyControllers \/ CommonNamespace
    \/ WriteDump

Next == Collect \/ Unplugged

Spec == Init /\ [][Next]_vars

(* Every request ends with an answer or the timeout it is sent with.       *)
FairSpec == Spec /\ WF_vars(Collect)

-----------------------------------------------------------------------------
(* Properties                                                              *)

(* A dump that was written accounts for every command: each port up to the *)
(* number of ports, each controller, namespace, feature and log page has   *)
(* an entry, or its request had no usable answer (collectDriveLog).        *)
DumpIsComplete ==
    result \in {"success", "fileSystem"} =>
        Expected = DOMAIN dump \cup lost

(* A port's turn comes again only if the port counter wraps before it is   *)
(* past the last port; an id is asked about as often as its list has it.   *)
ListedTwice(id, list) ==
    \E i, j \in DOMAIN list : i # j /\ list[i] = id /\ list[j] = id
AskedTwice(e) ==
    \/ e[1] \in {"Ports", "ConfigGet"} /\ numberOfPorts = PortMod - 1
    \/ /\ e[1] \in {"ControllerInfo", "IdentifyControllers"}
       /\ ListedTwice(e[2], controllerIds)
    \/ e[1] = "NamespaceIdDescList" /\ ListedTwice(e[2], activeNamespaces)

(* An entry is in the dump or was lost, never both, unless it was asked    *)
(* for twice: a half-answered pair (ConfigGet, CommandSupported) leaves    *)
(* nothing behind.                                                         *)
NoHalfEntry == \A e \in DOMAIN dump \cap lost : AskedTwice(e)

(* One command that fails costs its own entry, and nothing else, with one  *)
(* exception: no dump at all is made when a port's information is missing. *)
OnlyPortsAbort ==
    result = "exception" => \E p \in 0 .. PortMod - 1 : <<"Ports", p>> \in lost

(* The namespaces a page of the drive's list has room for.                 *)
Room == IF Len(DriveNamespaces) < MaxNamespaces
        THEN Len(DriveNamespaces) ELSE MaxNamespaces

(* The request made for the entry is for something the drive has.          *)
Answerable(e) ==
    /\ e[1] = "ControllerInfo" => RequestedId(e[2]) \in Range(DriveControllers)
    /\ e[1] = "IdentifyControllers" => e[2] \in Range(DriveControllers)

(* A drive that answers every request for something it has is dumped whole *)
(* (README: the method dumps the output of the NVMe MI commands), unless   *)
(* the freed response is read as more ports than it has: every entry is    *)
(* there but those of controllers it has not, and of its own namespaces    *)
(* none is left out (collectDriveLog).                                     *)
HealthyDriveIsDumped ==
    (/\ result # "pending" /\ present /\ faults = 0
     /\ PortCount <= DrivePorts + 1)
    => /\ result \in {"success", "fileSystem"}
       /\ \A e \in Expected : Answerable(e) => e \in DOMAIN dump
       /\ \A w \in 1 .. Room :
             <<"NamespaceIdDescList", DriveNamespaces[w]>> \in DOMAIN dump

(* The namespaces asked about are the drive's: all of them that a page has *)
(* room for when the drive answers, in its order; of an answer that is cut *)
(* short, those in it, and at most the last one is another id, made of the *)
(* bytes that were left of it (getIdentifyActiveNamespaceIdList).          *)
NamespacesAreTheDrives ==
    LET n == Len(activeNamespaces)
    IN  /\ n <= Room
        /\ \A w \in 1 .. n - 1 : activeNamespaces[w] = DriveNamespaces[w]
        /\ n > 0 =>
             \/ activeNamespaces[n] = DriveNamespaces[n]
             \/ \E j \in 2 .. 4 :
                  activeNamespaces[n] = DriveNamespaces[n] % Place[j]
        /\ <<"ActiveNamespaces", 0>> \in DOMAIN dump /\ present /\ faults = 0
             => n = Room

(* The request made for the entry of a controller is for that controller   *)
(* (README: one entry per controller id; getControllerInfo).               *)
ControllerInfoIsItsOwn ==
    \A e \in DOMAIN dump : e[1] = "ControllerInfo" => dump[e][2] = e

(* The order of the sections in the code.                                  *)
Rank == [
    SubsystemInfo |-> 1, Ports |-> 2, Controllers |-> 3,
    ControllerInfo |-> 4, OptionalCommands |-> 5, ControllerHSPoll |-> 6,
    SubsystemHSPoll |-> 7, ConfigGet |-> 8, GetFeatures |-> 9,
    GetLogPage |-> 10, ActiveNamespaces |-> 11, NamespaceIdDescList |-> 12,
    IdentifyControllers |-> 13, CommonNamespaceCapablity |-> 14,
    WriteDump |-> 15, Returned |-> 16]

MovesOn ==
    \/ Rank[section'] > Rank[section]
    \/ /\ section' = section
       /\ item' > item \/ (item' = item /\ ~second /\ second')

(* No item of a section is taken up again: each answer or timeout takes    *)
(* the call to the second half of the item, to a later item or to a later  *)
(* section, however many ports were read, as a port without information    *)
(* ends the call before the port counter can wrap (the loops of            *)
(* collectDriveLog).                                                       *)
CallMovesOn == [][DrivePorts < PortMod - 1 /\ Collect => MovesOn]_vars

(* The call returns, and with it the pause of the health status polls      *)
(* ends, whatever the drive answers; but for a drive with as many ports as *)
(* the port counter can count, whose loop never ends.                      *)
CallReturns == DrivePorts < PortMod - 1 => <>(result # "pending")
=============================================================================
