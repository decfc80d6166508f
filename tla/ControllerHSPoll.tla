-------------------------- MODULE ControllerHSPoll --------------------------
(***************************************************************************)
(* getControllerHSPollResponse (drive.cpp): the controller health status   *)
(* poll, repeated page by page while a page is full, and the JSON object   *)
(* with the number of entries and the pages' bytes it returns.             *)
(*                                                                         *)
(* The entries of a drive are numbered from 0 and a page is the entries    *)
(* from its start id on, the reading the code's nextStartId has.  The      *)
(* bytes in hexString are counted in entries.                              *)
(*                                                                         *)
(* controllers is a parameter of the behaviour; inOrder and faults are     *)
(* history variables.  Definitions named Bug... are faults that break a     *)
(* property; no definition uses them.                                      *)
(***************************************************************************)
EXTENDS Integers

CONSTANTS
    Controllers,  \* numbers of controllers a drive may have
    PageSize,     \* entries a drive puts in a page for maximumEntries
    MaxFaults     \* bound on the answers that are lost, broken or empty

maximumEntries == 254  \* 0xFE
maxLoopCount == 32
Byte == 0 .. 255       \* uint8_t

ASSUME PollAssumption ==
    /\ Controllers \subseteq Nat
    /\ PageSize \in Byte \ {0}
    /\ MaxFaults \in Nat

VARIABLES
    pc,                \* "next" and "sent" in the loop, or what was returned
    nextStartId,       \* a uint8_t
    totalRespEntries,  \* a uint8_t
    responseCount,     \* a uint8_t
    hexEntries,        \* entries whose bytes are in hexString
    controllers,       \* controllers of the drive
    inOrder,           \* each page began with the entry after the last one
    faults

vars == <<pc, nextStartId, totalRespEntries, responseCount, hexEntries,
          controllers, inOrder, faults>>

(* That responseCount stops at maxLoopCount is what ends the call, and with *)
(* it the silence of the health status polls, for a drive whose pages are   *)
(* all full.                                                                *)
TypeOK ==
    /\ pc \in {"next", "sent", "json", "nullopt", "exception"}
    /\ nextStartId \in Byte
    /\ totalRespEntries \in Byte
    /\ responseCount \in 0 .. maxLoopCount
    /\ hexEntries \in Nat
    /\ controllers \in Controllers
    /\ inOrder \in BOOLEAN
    /\ faults \in 0 .. MaxFaults

Init ==
    /\ pc = "next"
    /\ nextStartId = 0
    /\ totalRespEntries = 0
    /\ responseCount = 0
    /\ hexEntries = 0
    /\ controllers \in Controllers
    /\ inOrder = TRUE
    /\ faults = 0

-----------------------------------------------------------------------------
(* The drive's page: empty past its last controller.                       *)
Page(start) ==
    IF start >= controllers THEN 0
    ELSE IF controllers - start < PageSize THEN controllers - start
    ELSE PageSize

BugLimit == FALSE
Limit == responseCount + 1 >= maxLoopCount

SendRequest ==
    /\ pc = "next"
    /\ responseCount' = responseCount + 1
    /\ IF Limit
       THEN pc' = "nullopt"
       ELSE pc' = "sent"
    /\ UNCHANGED <<nextStartId, totalRespEntries, hexEntries, controllers,
                   inOrder, faults>>

BugNeverFull(respEntries) == respEntries > maximumEntries
(* The loop goes on.  `continue' on a page without data tests it too.      *)
Full(respEntries) == respEntries = maximumEntries

BugCount(respEntries) ==
    /\ totalRespEntries' = (totalRespEntries + respEntries) % 256
    /\ pc' = IF Full(respEntries) THEN "next" ELSE "json"
    /\ UNCHANGED <<nextStartId, responseCount, controllers>>

Count(respEntries) ==
    /\ totalRespEntries' = (totalRespEntries + respEntries) % 256
    /\ nextStartId' = (nextStartId + respEntries) % 256
    /\ pc' = IF Full(respEntries) THEN "next" ELSE "json"
    /\ UNCHANGED <<responseCount, controllers>>

PageReceived ==
    /\ pc = "sent"
    /\ LET page == Page(nextStartId)
       IN  /\ Count(page)
           /\ hexEntries' = hexEntries + page
           /\ inOrder' = (inOrder /\ (page = 0 \/ nextStartId = hexEntries))
    /\ UNCHANGED faults

(* An error status or an empty page with some number of entries; the       *)
(* status is not looked at.                                                *)
EmptyReceived ==
    /\ pc = "sent"
    /\ faults < MaxFaults
    /\ faults' = faults + 1
    /\ \E respEntries \in Byte : Count(respEntries)
    /\ UNCHANGED <<hexEntries, inOrder>>

(* No answer in time, or one that is not a management response.            *)
NothingReceived ==
    /\ pc = "sent"
    /\ faults < MaxFaults
    /\ faults' = faults + 1
    /\ pc' \in {"nullopt", "exception"}
    /\ UNCHANGED <<nextStartId, totalRespEntries, responseCount, hexEntries,
                   controllers, inOrder>>

Next == SendRequest \/ PageReceived \/ EmptyReceived \/ NothingReceived

Spec == Init /\ [][Next]_vars

-----------------------------------------------------------------------------
(* Properties                                                              *)

(* The object returned for a drive that answered every request has each    *)
(* controller's entry, once, in order, although the start id wraps at 256  *)
(* (getControllerHSPollResponse; README: the controller health status      *)
(* poll's output is dumped).                                               *)
DataIsComplete ==
    (pc = "json" /\ faults = 0) => inOrder /\ hexEntries = controllers

(* The number of entries in it is right but for the width of a byte.       *)
EntriesModuloByte ==
    (pc = "json" /\ faults = 0) => totalRespEntries = controllers % 256

(* Only a drive with two full pages of controllers or more makes the loop  *)
(* run into its limit, and so have no entry in the dump.                   *)
LimitMeansManyControllers ==
    (pc = "nullopt" /\ faults = 0) => controllers >= 2 * maximumEntries
=============================================================================
