----------------------- MODULE ControllerHSPollProofs -----------------------
(* What getControllerHSPollResponse returns, for every number of controllers, *)
(* from a drive whose pages have maximumEntries entries.                      *)
EXTENDS ControllerHSPoll, TLAPS

InLoop == pc \in {"next", "sent"}

(* No page yet; one full page; two or more.  From then on the start id is  *)
(* even, so 254 at most, and every page of such a drive is full: the loop  *)
(* can only end at its limit, never with the entries of a wrapped start.   *)
FirstPage ==
    /\ nextStartId = 0 /\ totalRespEntries = 0 /\ hexEntries = 0
    /\ inOrder
    /\ responseCount = IF pc = "next" THEN 0 ELSE 1

SecondPage ==
    /\ nextStartId = 254 /\ totalRespEntries = 254 /\ hexEntries = 254
    /\ inOrder
    /\ responseCount = IF pc = "next" THEN 1 ELSE 2
    /\ controllers >= 254

LaterPage ==
    /\ nextStartId % 2 = 0
    /\ controllers >= 508

Answered == faults = 0

IInv ==
    /\ TypeOK
    /\ pc = "next" => responseCount < maxLoopCount
    /\ pc = "sent" => responseCount < maxLoopCount
    /\ Answered =>
         /\ InLoop => FirstPage \/ SecondPage \/ LaterPage
         /\ DataIsComplete
         /\ EntriesModuloByte
         /\ LimitMeansManyControllers

LEMMA InitHolds == Init => IInv
BY PollAssumption DEF Init, IInv, TypeOK, InLoop, FirstPage, DataIsComplete,
    EntriesModuloByte, LimitMeansManyControllers, maxLoopCount, Byte

LEMMA StepKeeps ==
    ASSUME PageSize = maximumEntries, IInv, [Next]_vars
    PROVE  IInv'
<1> USE PollAssumption DEF IInv, TypeOK, InLoop, FirstPage, SecondPage,
        LaterPage, DataIsComplete, EntriesModuloByte, maxLoopCount,
        maximumEntries, Byte, LimitMeansManyControllers, Answered
<1>1. CASE SendRequest
  BY <1>1 DEF SendRequest, Limit
<1>2. CASE PageReceived
  <2> DEFINE page == Page(nextStartId)
  <2>1. page \in 0 .. 254
    BY DEF Page
  <2>2. /\ pc = "sent"
        /\ pc' = IF page = 254 THEN "next" ELSE "json"
        /\ totalRespEntries' = (totalRespEntries + page) % 256
        /\ nextStartId' = (nextStartId + page) % 256
        /\ hexEntries' = hexEntries + page
        /\ responseCount' = responseCount
        /\ controllers' = controllers
        /\ faults' = faults
    BY <1>2 DEF PageReceived, Count, Full
  <2>3. inOrder' = (inOrder /\ (page = 0 \/ nextStartId = hexEntries))
    BY <1>2 DEF PageReceived
  <2>4. inOrder' \in BOOLEAN
    BY <2>3
  <2>5. TypeOK'
    <3> HIDE DEF page
    <3> QED  BY <2>1, <2>2, <2>4
  <2>6. CASE Answered /\ FirstPage
    <3>1. /\ page = 254 => controllers >= 254
          /\ page # 254 => page = controllers /\ controllers < 254
      BY <2>1, <2>6 DEF Page
    <3>2. inOrder'
      BY <2>3, <2>6
    <3> HIDE DEF page
    <3>3. CASE page = 254
      <4>1. SecondPage'
        BY <2>2, <2>6, <3>1, <3>2, <3>3
      <4> QED  BY <2>2, <2>5, <2>6, <3>3, <4>1
    <3>4. CASE page # 254
      BY <2>1, <2>2, <2>5, <2>6, <3>1, <3>2, <3>4
    <3> QED  BY <3>3, <3>4
  <2>7. CASE Answered /\ SecondPage
    <3>1. /\ page = 254 => controllers >= 508
          /\ page # 254 => page = controllers - 254 /\ controllers < 508
      BY <2>1, <2>7 DEF Page
    <3>2. inOrder'
      BY <2>3, <2>7
    <3> HIDE DEF page
    <3> QED  BY <2>1, <2>2, <2>5, <2>7, <3>1, <3>2
  <2>8. CASE Answered /\ LaterPage
    <3>1. page = 254
      BY <2>8 DEF Page
    <3> HIDE DEF page
    <3>2. nextStartId' % 2 = 0
      BY <2>2, <2>8, <3>1
    <3> QED  BY <2>2, <2>5, <2>8, <3>1, <3>2
  <2>9. CASE ~Answered
    <3> HIDE DEF page
    <3> QED  BY <2>2, <2>5, <2>9
  <2> QED  BY <2>2, <2>6, <2>7, <2>8, <2>9
<1>3. CASE EmptyReceived
  BY <1>3 DEF EmptyReceived, Count
<1>4. CASE NothingReceived
  BY <1>4 DEF NothingReceived
<1>5. CASE UNCHANGED vars
  BY <1>5 DEF vars
<1> QED  BY <1>1, <1>2, <1>3, <1>4, <1>5 DEF Next

(* The loop has a request left whenever it goes on, so the count of them    *)
(* stays within its limit, for a page of any size and whatever the drive    *)
(* fails to answer: the call ends.                                         *)
TypeInv ==
    /\ TypeOK
    /\ InLoop => responseCount < maxLoopCount

LEMMA TypeStep ==
    ASSUME TypeInv, [Next]_vars
    PROVE  TypeInv'
<1> USE PollAssumption DEF TypeInv, TypeOK, InLoop, maxLoopCount, Byte
<1>1. CASE SendRequest
  BY <1>1 DEF SendRequest, Limit
<1>2. CASE PageReceived
  <2> DEFINE page == Page(nextStartId)
  <2>1. page \in Nat
    BY DEF Page
  <2>2. /\ pc = "sent"
        /\ pc' \in {"next", "json"}
        /\ totalRespEntries' = (totalRespEntries + page) % 256
        /\ nextStartId' = (nextStartId + page) % 256
        /\ hexEntries' = hexEntries + page
        /\ UNCHANGED <<responseCount, controllers, faults>>
    BY <1>2 DEF PageReceived, Count
  <2>3. inOrder' \in BOOLEAN
    BY <1>2 DEF PageReceived
  <2> HIDE DEF page
  <2> QED  BY <2>1, <2>2, <2>3
<1>3. CASE EmptyReceived
  BY <1>3 DEF EmptyReceived, Count
<1>4. CASE NothingReceived
  BY <1>4 DEF NothingReceived
<1>5. CASE UNCHANGED vars
  BY <1>5 DEF vars
<1> QED  BY <1>1, <1>2, <1>3, <1>4, <1>5 DEF Next

(* responseCount never passes maxLoopCount, and with every variable of the  *)
(* poll keeps its type, for a page of any size.                            *)
THEOREM PollTypeCorrect == Spec => []TypeOK
<1>1. Init => TypeInv
  BY PollAssumption DEF Init, TypeInv, TypeOK, InLoop, maxLoopCount, Byte
<1>2. TypeInv => TypeOK
  BY DEF TypeInv
<1> QED  BY TypeStep, <1>1, <1>2, PTL DEF Spec

(* A byte is enough for the start id: what the poll returns for a drive    *)
(* that answers is all of its controllers, once, whatever their number.    *)
THEOREM PollIsComplete ==
    ASSUME PageSize = maximumEntries
    PROVE  Spec => [](TypeOK /\ DataIsComplete)
<1>1. IInv => TypeOK /\ DataIsComplete
  BY DEF IInv, DataIsComplete, Answered
<1> QED  BY InitHolds, StepKeeps, <1>1, PTL DEF Spec

(* And the count is their number in a byte.                                *)
THEOREM PollCountsModuloByte ==
    ASSUME PageSize = maximumEntries
    PROVE  Spec => []EntriesModuloByte
<1>1. IInv => EntriesModuloByte
  BY DEF IInv, EntriesModuloByte, Answered
<1> QED  BY InitHolds, StepKeeps, <1>1, PTL DEF Spec

(* The limit costs no drive with less than two full pages its entry.       *)
THEOREM LimitSparesSmallDrives ==
    ASSUME PageSize = maximumEntries
    PROVE  Spec => []LimitMeansManyControllers
<1>1. IInv => LimitMeansManyControllers
  BY DEF IInv, LimitMeansManyControllers, Answered
<1> QED  BY InitHolds, StepKeeps, <1>1, PTL DEF Spec
=============================================================================
