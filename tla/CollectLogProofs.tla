-------------------------- MODULE CollectLogProofs --------------------------
(***************************************************************************)
(* What a CollectLog call leaves behind, for any drive, any answers and    *)
(* any number of failures.                                                 *)
(*                                                                         *)
(* The sections are visited in the order of Rank, and within a section the *)
(* items in theirs, so that the cursor says which entries the call is past *)
(* (Passed).  Progress relates that to the dump: an entry the call is past *)
(* is in the dump or lost, and no other is, but for a loop over the ports  *)
(* that wraps.  The types and Progress are one inductive invariant: what   *)
(* is expected grows while the call runs, and an entry that is expected    *)
(* late must not be one the call is past already.                          *)
(***************************************************************************)
EXTENDS CollectLog, SequenceTheorems, WellFoundedInduction, TLAPS

(* The id is one of the list's before the item that is next.               *)
Before(id, list) == \E i \in DOMAIN list : i < item /\ list[i] = id

(* The entry the call is at.                                               *)
Counted == {"Ports", "ConfigGet", "GetFeatures", "GetLogPage"}
OfControllers == {"ControllerInfo", "IdentifyControllers"}

Current ==
    <<section, IF section \in Counted THEN item
               ELSE IF section \in OfControllers THEN controllerIds[item]
               ELSE IF section = "NamespaceIdDescList"
                    THEN activeNamespaces[item]
               ELSE 0>>

(* The call is past an entry: in the section it is in ... *)
PassedHere(e) ==
    \/ e[1] \in Counted /\ e[2] < item
    \/ e[1] \in OfControllers /\ Before(e[2], controllerIds)
    \/ e[1] = "NamespaceIdDescList" /\ Before(e[2], activeNamespaces)

(* ... or in an earlier one.  *)
Passed(e) ==
    \/ Rank[e[1]] < Rank[section]
    \/ e[1] = section /\ PassedHere(e)

Accounted == DOMAIN dump \cup lost

(* One entry is kept or lost.                                              *)
Adds(e) ==
    /\ Accounted' = Accounted \cup {e}
    /\ DOMAIN dump' \cap lost' \subseteq
          (DOMAIN dump \cap lost) \cup ({e} \cap Accounted)

PortsWrap == numberOfPorts = PortMod - 1
PortEntry(e) == e[1] \in {"Ports", "ConfigGet"}

CursorInv ==
    /\ section = "SubsystemInfo" => numberOfPorts = NULL
    /\ Rank[section] <= 3 => controllerIds = <<>>
    /\ Rank[section] <= 11 => activeNamespaces = <<>>
    /\ section \in {"Ports", "ConfigGet"} =>
         numberOfPorts # NULL /\ item < PortMod
    /\ section \in {"ControllerInfo", "IdentifyControllers", "GetFeatures",
                    "GetLogPage", "NamespaceIdDescList"} => item >= 1
    /\ section = "Returned" <=> result # "pending"

TypeInv == TypeOK /\ CursorInv

AccountedWasPassed ==
    \A e \in Accounted : Passed(e) \/ (PortEntry(e) /\ PortsWrap)

PassedIsAccounted ==
    result # "exception" => \A e \in Expected : Passed(e) => e \in Accounted

AbortHasCause ==
    result = "exception" =>
        ~present \/ faults > 0 \/ PortCount > DrivePorts + 1

Progress == AccountedWasPassed /\ PassedIsAccounted /\ NoHalfEntry

(* What NamespacesAreTheDrives says of a list at any time.                 *)
AreTheDrives(ids) ==
    LET n == Len(ids)
    IN  /\ n <= Room
        /\ \A w \in 1 .. n - 1 : ids[w] = DriveNamespaces[w]
        /\ n > 0 =>
             \/ ids[n] = DriveNamespaces[n]
             \/ \E j \in 2 .. 4 : ids[n] = DriveNamespaces[n] % Place[j]

AreAllTheDrives(ids) ==
    Len(ids) = Room /\ \A w \in 1 .. Room : ids[w] = DriveNamespaces[w]

-----------------------------------------------------------------------------
(* Rank is one to one, from 1 to 16.                                       *)
LEMMA RankIsOrder ==
    /\ \A s \in Section : Rank[s] \in 1 .. 16
    /\ \A s, t \in Section : Rank[s] = Rank[t] => s = t
    /\ Rank["SubsystemInfo"] = 1
    /\ Rank["Ports"] = 2
    /\ Rank["Controllers"] = 3
    /\ Rank["ControllerInfo"] = 4
    /\ Rank["OptionalCommands"] = 5
    /\ Rank["ControllerHSPoll"] = 6
    /\ Rank["SubsystemHSPoll"] = 7
    /\ Rank["ConfigGet"] = 8
    /\ Rank["GetFeatures"] = 9
    /\ Rank["GetLogPage"] = 10
    /\ Rank["ActiveNamespaces"] = 11
    /\ Rank["NamespaceIdDescList"] = 12
    /\ Rank["IdentifyControllers"] = 13
    /\ Rank["CommonNamespaceCapablity"] = 14
    /\ Rank["WriteDump"] = 15
    /\ Rank["Returned"] = 16
BY DEF Rank, Section

Simple == {"SubsystemInfo", "Controllers", "OptionalCommands",
           "ControllerHSPoll", "SubsystemHSPoll", "ActiveNamespaces",
           "CommonNamespaceCapablity"}

LEMMA ConstantLists ==
    /\ DOMAIN Feature = 1 .. 10 /\ Len(Feature) = 10
    /\ DOMAIN LogPage = 1 .. 14 /\ Len(LogPage) = 14
BY DEF Feature, LogPage

(* Which pairs are entries, and that nothing else is.                      *)
IsEntry(e) ==
    /\ e = <<e[1], e[2]>>
    /\ \/ e[1] \in Simple /\ e[2] = 0
       \/ e[1] \in {"Ports", "ConfigGet"} /\ e[2] \in 0 .. PortCount - 1
       \/ /\ e[1] \in {"ControllerInfo", "IdentifyControllers"}
          /\ e[2] \in Range(controllerIds)
       \/ e[1] = "GetFeatures" /\ e[2] \in 1 .. 10
       \/ e[1] = "GetLogPage" /\ e[2] \in 1 .. 14
       \/ e[1] = "NamespaceIdDescList" /\ e[2] \in Range(activeNamespaces)

LEMMA ExpectedIsPairs == \A e \in Expected : IsEntry(e)
BY ConstantLists DEF Expected, Simple, IsEntry

LEMMA ExpectedStaysPairs == \A e \in Expected' : IsEntry(e)'
<1>1. (\A e \in Expected : IsEntry(e))'
  BY ExpectedIsPairs, PTL
<1> QED  BY <1>1

LEMMA PairIsExpected ==
    ASSUME NEW s, NEW v,
           \/ s \in Simple /\ v = 0
           \/ s \in {"Ports", "ConfigGet"} /\ v \in 0 .. PortCount - 1
           \/ /\ s \in {"ControllerInfo", "IdentifyControllers"}
              /\ v \in Range(controllerIds)
           \/ s = "GetFeatures" /\ v \in 1 .. 10
           \/ s = "GetLogPage" /\ v \in 1 .. 14
           \/ s = "NamespaceIdDescList" /\ v \in Range(activeNamespaces)
    PROVE  <<s, v>> \in Expected
BY ConstantLists DEF Expected, Simple

-----------------------------------------------------------------------------
(* The answers.                                                            *)
LEMMA MessageSizes ==
    /\ ManagementResponseMin = 8
    /\ AdminResponseMin = 20
    /\ CRC32C = 4
    /\ SubsystemInfoSize = 32
BY DEF ManagementResponseMin, NVMeResponseMin, CommonHeader, StatusCode,
   NVMeManagementResponse, AdminResponseMin, AdminResponseData, CRC32C,
   SubsystemInfoSize

LEMMA AnswersAreRecords == Answer \subseteq ResponseRecord
<1>1. MaxNamespaces \in Nat
  BY CollectAssumption
<1>2. FaultyResponses \subseteq ResponseRecord
  BY CollectAssumption, Zenon
<1>3. /\ NoResponse \in ResponseRecord
      /\ Whole \in ResponseRecord
      /\ Refusal(ManagementResponseMin) \in ResponseRecord
      /\ Refusal(AdminResponseMin) \in ResponseRecord
  BY <1>1, MessageSizes DEF NoResponse, Whole, Refusal, ResponseRecord
<1> QED  BY <1>2, <1>3 DEF Answer

(* A drive that answers with everything asked for has its answer used.     *)
LEMMA WholeIsUsable ==
    /\ Whole \in SubsystemInfoUsable
    /\ Whole \in StructureUsable
    /\ Whole \in ControllerListUsable
    /\ Whole \in ControllerHSUsable
    /\ Whole \in SubsystemHSUsable
    /\ Whole \in ConfigUsable
    /\ Whole \in FeatureUsable
    /\ Whole \in LogPageUsable
    /\ Whole \in IdentifyUsable
<1>1. MaxNamespaces \in Nat
  BY CollectAssumption
<1>2. /\ Whole.size = 56 + 4 * MaxNamespaces
      /\ Whole.intact /\ Whole.success
  BY <1>1, MessageSizes DEF Whole
<1>3. Whole \in Answer
  BY DEF Answer
<1> HIDE DEF Whole
<1>4. ManagementInterfaceResponse(Whole) /\ AdminCommandResponse(Whole)
  BY <1>1, <1>2, MessageSizes DEF ManagementInterfaceResponse,
     AdminCommandResponse, NVMeResponse, NVMeMessage, Holds,
     NVMeResponseMin, CommonHeader, StatusCode
<1>5. /\ OptionalDataLength(Whole) = 44 + 4 * MaxNamespaces
      /\ AdminDataLength(Whole) = 32 + 4 * MaxNamespaces
  BY <1>1, <1>2, MessageSizes DEF OptionalDataLength, AdminDataLength,
     DataLength
<1> QED  BY <1>1, <1>2, <1>3, <1>4, <1>5, MessageSizes
         DEF SubsystemInfoUsable, StructureUsable, ControllerListUsable,
             ControllerHSUsable, SubsystemHSUsable, ConfigUsable,
             FeatureUsable, LogPageUsable, IdentifyUsable

-----------------------------------------------------------------------------
(* The list of namespaces.                                                 *)

LEMMA LessThan ==
    \E R : /\ IsWellFoundedOn(R, Nat)
           /\ \A m, k \in Nat : k < m => <<k, m>> \in R
<1>1. IsWellFoundedOn(OpToRel(<, Nat), Nat)
  BY NatLessThanWellFounded, Zenon
<1>2. \A m, k \in Nat : k < m => <<k, m>> \in OpToRel(<, Nat)
  BY Zenon DEF OpToRel
<1> QED  BY <1>1, <1>2, Zenon

LEMMA LeastNumber ==
    ASSUME NEW T, T \subseteq Nat, T # {}
    PROVE  \E m \in T : \A k \in T : m <= k
<1>1. PICK R : /\ IsWellFoundedOn(R, Nat)
               /\ \A m, k \in Nat : k < m => <<k, m>> \in R
  BY LessThan
<1>2. PICK m \in T : \A k \in T : ~ (<<k, m>> \in R)
  BY <1>1, WFMin
<1>3. ASSUME NEW k \in T PROVE m <= k
  <2>1. m \in Nat /\ k \in Nat
    OBVIOUS
  <2>2. ~ (<<k, m>> \in R)
    BY <1>2
  <2>3. ~ (k < m)
    BY <1>1, <2>1, <2>2
  <2> QED  BY <2>1, <2>3
<1> QED  BY <1>3

LEMMA DriveIds ==
    /\ Len(DriveNamespaces) \in Nat
    /\ \A w \in 1 .. Len(DriveNamespaces) :
          /\ DriveNamespaces[w] \in Nat \ {0}
          /\ DriveNamespaces[w] \div 16777216 < 256
<1>1. /\ DriveNamespaces \in Seq(Nat \ {0})
      /\ \A id \in Range(DriveNamespaces) : id \div Place[4] < 256
  BY ListAssumption
<1>2. \A w \in 1 .. Len(DriveNamespaces) :
          /\ DriveNamespaces[w] \in Nat \ {0}
          /\ DriveNamespaces[w] \in Range(DriveNamespaces)
  BY <1>1, ElementOfSeq, LenProperties DEF Range
<1>3. Place[4] = 16777216
  BY SMT DEF Place
<1> QED  BY <1>1, <1>2, <1>3, LenProperties, SMT

(* The bytes of the w-th four.                                             *)
LEMMA ByteOfId ==
    ASSUME NEW w \in Nat \ {0}, NEW j \in 1 .. 4
    PROVE  ListByte(4 * (w - 1) + j) =
               IF w > Len(DriveNamespaces) THEN 0
               ELSE (DriveNamespaces[w] \div Place[j]) % 256
<1>1. /\ ((4 * (w - 1) + j) - 1) \div 4 + 1 = w
      /\ (((4 * (w - 1) + j) - 1) % 4) + 1 = j
  OBVIOUS
<1> QED  BY <1>1 DEF ListByte

(* What the lowest bytes of a number make.                                 *)
LEMMA BytesOfNumber ==
    ASSUME NEW d \in Nat
    PROVE  /\ (d % 256) + ((d \div 256) % 256) * 256 = d % 65536
           /\ (d % 65536) + ((d \div 65536) % 256) * 65536 = d % 16777216
           /\ d \div 16777216 < 256 =>
                 (d % 16777216) + ((d \div 16777216) % 256) * 16777216 = d
BY SMT

(* Four bytes, or those that are left, make the id or what is left of it.  *)
LEMMA IdOfBytes ==
    ASSUME NEW L \in Nat, NEW w \in Nat \ {0}
    PROVE  LET id == NamespaceId([i \in 1 .. L |-> ListByte(i)], w)
           IN  /\ id \in Nat
               /\ 4 * (w - 1) >= L \/ w > Len(DriveNamespaces) => id = 0
               /\ 4 * w <= L /\ w <= Len(DriveNamespaces) =>
                     id = DriveNamespaces[w]
               /\ 4 * (w - 1) < L /\ w <= Len(DriveNamespaces) =>
                     \/ id = DriveNamespaces[w]
                     \/ \E j \in 2 .. 4 : id = DriveNamespaces[w] % Place[j]
<1> DEFINE bytes == [i \in 1 .. L |-> ListByte(i)]
           b(j) == IF 4 * (w - 1) + j \in DOMAIN bytes
                   THEN bytes[4 * (w - 1) + j] ELSE 0
           id == NamespaceId(bytes, w)
           d == DriveNamespaces[w]
<1>1. id = b(1) + b(2) * 256 + b(3) * 65536 + b(4) * 16777216
  BY SMT DEF NamespaceId, Place
<1>2. \A j \in 1 .. 4 :
         b(j) = IF 4 * (w - 1) + j <= L
                THEN ListByte(4 * (w - 1) + j) ELSE 0
  OBVIOUS
<1> HIDE DEF b, id
<1>3. CASE w > Len(DriveNamespaces)
  <2>1. \A j \in 1 .. 4 : ListByte(4 * (w - 1) + j) = 0
    BY <1>3, ByteOfId, Zenon
  <2>2. b(1) = 0 /\ b(2) = 0 /\ b(3) = 0 /\ b(4) = 0
    BY <1>2, <2>1, SMT
  <2> QED  BY <1>1, <1>3, <2>2, DriveIds, SMT DEF id
<1>4. CASE w <= Len(DriveNamespaces)
  <2>1. d \in Nat /\ d \div 16777216 < 256
    BY <1>4, DriveIds, SMT
  <2>2. \A j \in 1 .. 4 : ListByte(4 * (w - 1) + j) = (d \div Place[j]) % 256
    <3>1. ~ (w > Len(DriveNamespaces))
      BY <1>4, DriveIds, SMT
    <3> QED  BY <3>1, ByteOfId, Zenon
  <2> HIDE DEF d
  <2>3. /\ b(1) = IF 4 * (w - 1) + 1 <= L THEN d % 256 ELSE 0
        /\ b(2) = IF 4 * (w - 1) + 2 <= L THEN (d \div 256) % 256 ELSE 0
        /\ b(3) = IF 4 * (w - 1) + 3 <= L THEN (d \div 65536) % 256 ELSE 0
        /\ b(4) = IF 4 * (w - 1) + 4 <= L THEN (d \div 16777216) % 256 ELSE 0
    BY <1>2, <2>1, <2>2, SMT DEF Place
  <2> DEFINE b1 == d % 256
             b2 == (d \div 256) % 256
             b3 == (d \div 65536) % 256
             b4 == (d \div 16777216) % 256
  <2>6. /\ b1 + b2 * 256 = d % 65536
        /\ (d % 65536) + b3 * 65536 = d % 16777216
        /\ (d % 16777216) + b4 * 16777216 = d
    BY <2>1, BytesOfNumber, SMT
  <2>7. /\ b1 \in Nat /\ b2 \in Nat /\ b3 \in Nat /\ b4 \in Nat
        /\ d % 65536 \in Nat /\ d % 16777216 \in Nat
    BY <2>1, SMT
  <2>4. CASE 4 * w <= L
    <3>1. b(1) = b1 /\ b(2) = b2 /\ b(3) = b3 /\ b(4) = b4
      BY <2>3, <2>4, SMT
    <3> HIDE DEF b1, b2, b3, b4
    <3>2. id = d
      BY <1>1, <2>1, <2>6, <2>7, <3>1, SMT
    <3> QED  BY <1>4, <2>1, <2>4, <3>2, DriveIds, SMT DEF id, d
  <2>5. CASE 4 * w > L
    <3>1. CASE 4 * (w - 1) + 3 = L
      <4>1. b(1) = b1 /\ b(2) = b2 /\ b(3) = b3 /\ b(4) = 0
        BY <2>3, <3>1, SMT
      <4> HIDE DEF b1, b2, b3, b4
      <4>2. id = d % 16777216
        BY <1>1, <2>6, <2>7, <4>1, SMT
      <4> QED  BY <1>4, <2>1, <3>1, <4>2, DriveIds, SMT DEF id, d, Place
    <3>2. CASE 4 * (w - 1) + 2 = L
      <4>1. b(1) = b1 /\ b(2) = b2 /\ b(3) = 0 /\ b(4) = 0
        BY <2>3, <3>2, SMT
      <4> HIDE DEF b1, b2, b3, b4
      <4>2. id = d % 65536
        BY <1>1, <2>6, <2>7, <4>1, SMT
      <4> QED  BY <1>4, <2>1, <3>2, <4>2, DriveIds, SMT DEF id, d, Place
    <3>3. CASE 4 * (w - 1) + 1 = L
      <4>1. id = d % 256
        BY <1>1, <2>1, <2>3, <3>3, BytesOfNumber, SMT
      <4> QED  BY <1>4, <2>1, <3>3, <4>1, DriveIds, SMT DEF id, d, Place
    <3>4. CASE 4 * (w - 1) >= L
      <4>1. id = 0
        BY <1>1, <2>1, <2>3, <3>4, SMT
      <4> QED  BY <1>4, <3>4, <4>1, DriveIds, SMT DEF id
    <3> QED  BY <2>5, <3>1, <3>2, <3>3, <3>4, SMT
  <2> QED  BY <2>4, <2>5, SMT
<1> QED  BY <1>3, <1>4, DriveIds, SMT

(* getIdentifyActiveNamespaceIdList is what it should be for any drive, any *)
(* number of ids and any length of the answer.                             *)
LEMMA ListIsTheDrives ==
    ASSUME NEW k \in IdentifyUsable
    PROVE  LET ids == getIdentifyActiveNamespaceIdList(ListBytes(k))
           IN  /\ ids \in Seq(Nat \ {0})
               /\ AreTheDrives(ids)
               /\ k = Whole => AreAllTheDrives(ids)
<1> DEFINE page == 4 * MaxNamespaces
           len == AdminDataLength(k)
           L == IF len < page THEN len ELSE page
           bytes == [i \in 1 .. L |-> ListByte(i)]
           Id(w) == NamespaceId(bytes, w)
           Ends(n) == /\ Id(n + 1) = 0
                      /\ \A w \in 1 .. n : Id(w) # 0
           ids == getIdentifyActiveNamespaceIdList(bytes)
           D == Len(DriveNamespaces)
<1>1. /\ MaxNamespaces \in Nat \ {0}
      /\ len \in Nat
      /\ k = Whole => len > page
  <2>1. MaxNamespaces \in Nat \ {0}
    BY CollectAssumption
  <2>2. len = k.size - 24 /\ k \in Answer /\ AdminDataLength(k) > 0
    BY MessageSizes DEF IdentifyUsable, FeatureUsable, AdminDataLength,
       DataLength
  <2>3. len \in Nat
    BY <2>2, AnswersAreRecords DEF ResponseRecord
  <2>4. k = Whole => len = page + 32
    BY <2>1, <2>2, MessageSizes DEF Whole
  <2> QED  BY <2>1, <2>3, <2>4
<1>2. L \in Nat /\ L <= page /\ (k = Whole => L = page)
  BY <1>1
<1>3. ListBytes(k) = bytes
  BY DEF ListBytes
<1>4. bytes = [i \in 1 .. L |-> ListByte(i)]
  OBVIOUS
<1> HIDE DEF L, len
<1>5. \A w \in Nat \ {0} :
         /\ Id(w) \in Nat
         /\ 4 * (w - 1) >= L \/ w > D => Id(w) = 0
         /\ 4 * w <= L /\ w <= D => Id(w) = DriveNamespaces[w]
         /\ 4 * (w - 1) < L /\ w <= D =>
               \/ Id(w) = DriveNamespaces[w]
               \/ \E j \in 2 .. 4 : Id(w) = DriveNamespaces[w] % Place[j]
  BY <1>2, IdOfBytes
<1>6. Len(bytes) = L
  <2>1. bytes \in Seq({ListByte(i) : i \in 1 .. L})
    BY <1>2
  <2> QED  BY <1>2, <2>1, LenProperties
<1>7. \E n \in 0 .. L : Ends(n)
  <2> HIDE DEF bytes
  <2> DEFINE T == {n \in 0 .. L : Id(n + 1) = 0}
  <2>1. L \in T
    <3> HIDE DEF Id
    <3> QED  BY <1>2, <1>5
  <2>2. PICK m \in T : \A n \in T : m <= n
    <3>1. T \subseteq Nat /\ T # {}
      BY <1>2, <2>1
    <3> HIDE DEF T
    <3> QED  BY <3>1, LeastNumber
  <2>3. ASSUME NEW w \in 1 .. m PROVE Id(w) # 0
    <3>1. w - 1 \in 0 .. L /\ ~ (m <= w - 1) /\ (w - 1) + 1 = w
      BY <1>2, <2>2
    <3> HIDE DEF Id
    <3> QED  BY <2>2, <3>1
  <2> QED  BY <2>2, <2>3
<1>8. PICK n \in 0 .. L : Ends(n) /\ ids = [w \in 1 .. n |-> Id(w)]
  <2> DEFINE c == CHOOSE n \in 0 .. Len(bytes) :
                     /\ NamespaceId(bytes, n + 1) = 0
                     /\ \A w \in 1 .. n : NamespaceId(bytes, w) # 0
  <2>1. ids = [w \in 1 .. c |-> Id(w)]
    BY DEF getIdentifyActiveNamespaceIdList
  <2>2. c \in 0 .. L /\ Ends(c)
    <3> HIDE DEF bytes
    <3> QED  BY <1>6, <1>7, Zenon
  <2> QED  BY <2>1, <2>2
<1> HIDE DEF bytes, Id, ids
<1>9. n \in Nat /\ Id(n + 1) = 0 /\ \A w \in 1 .. n : Id(w) # 0
  BY <1>2, <1>8
<1>10. ids \in Seq(Nat \ {0}) /\ Len(ids) = n
  <2>1. \A w \in 1 .. n : Id(w) \in Nat \ {0}
    BY <1>5, <1>9
  <2>2. ids \in Seq(Nat \ {0})
    BY <1>8, <1>9, <2>1
  <2> QED  BY <1>8, <1>9, <2>2, LenProperties
<1>11. /\ n <= D
       /\ n > 0 => 4 * (n - 1) < L
  <2>1. CASE n = 0
    BY <2>1, DriveIds
  <2>2. CASE n > 0
    <3>1. Id(n) # 0 /\ n \in Nat \ {0}
      BY <1>9, <2>2
    <3>2. ~ (4 * (n - 1) >= L \/ n > D)
      BY <1>5, <3>1
    <3> QED  BY <1>2, <3>1, <3>2, DriveIds
  <2> QED  BY <1>9, <2>1, <2>2
<1>12. n <= Room
  BY <1>1, <1>2, <1>9, <1>11, DriveIds DEF Room
<1>13. ASSUME NEW w \in 1 .. n, w < n \/ k = Whole
       PROVE  ids[w] = DriveNamespaces[w]
  <2>1. w \in Nat \ {0} /\ w <= D
    BY <1>9, <1>11, DriveIds
  <2>2. w < n => 4 * w <= L
    BY <1>2, <1>9, <1>11
  <2>3. k = Whole => 4 * w <= L
    BY <1>1, <1>2, <1>9, <1>12, DriveIds DEF Room
  <2>4. Id(w) = DriveNamespaces[w]
    BY <1>5, <1>13, <2>1, <2>2, <2>3
  <2> QED  BY <1>8, <2>4
<1>14. ASSUME n > 0
       PROVE  \/ ids[n] = DriveNamespaces[n]
              \/ \E j \in 2 .. 4 : ids[n] = DriveNamespaces[n] % Place[j]
  <2>1. n \in Nat \ {0} /\ n \in 1 .. n /\ 4 * (n - 1) < L /\ n <= D
    BY <1>9, <1>11, <1>14
  <2>2. ids[n] = Id(n)
    BY <1>8, <2>1
  <2> QED  BY <1>5, <2>1, <2>2
<1>15. ASSUME k = Whole PROVE n = Room
  <2>1. CASE n < Room
    <3>1. n + 1 \in Nat \ {0} /\ 4 * (n + 1) <= L /\ n + 1 <= D
      BY <1>1, <1>2, <1>9, <1>15, <2>1, DriveIds DEF Room
    <3>2. Id(n + 1) = DriveNamespaces[n + 1] /\ DriveNamespaces[n + 1] # 0
      <4>1. Id(n + 1) = DriveNamespaces[n + 1]
        BY <1>5, <3>1
      <4> QED  BY <3>1, <4>1, DriveIds
    <3> QED  BY <1>9, <3>2
  <2>2. Room \in Nat
    BY <1>1, DriveIds DEF Room
  <2> QED  BY <1>9, <1>12, <2>1, <2>2
<1>16. AreTheDrives(ids)
  <2>1. \A w \in 1 .. n - 1 : w \in 1 .. n /\ w < n
    BY <1>9
  <2>2. \A w \in 1 .. n - 1 : ids[w] = DriveNamespaces[w]
    BY <1>13, <2>1
  <2> QED  BY <1>10, <1>12, <1>14, <2>2 DEF AreTheDrives
<1>17. k = Whole => AreAllTheDrives(ids)
  BY <1>10, <1>13, <1>15 DEF AreAllTheDrives
<1> QED  BY <1>3, <1>10, <1>16, <1>17 DEF ids

-----------------------------------------------------------------------------
(* The types of the variables, and where a list or a number is known.      *)

LEMMA RecordAdds ==
    ASSUME NEW e, NEW bytes, Keep(e, bytes) \/ Lose(e)
    PROVE  Adds(e)
BY DEF Keep, Lose, Adds, Accounted

LEMMA InList ==
    ASSUME NEW S, NEW list \in Seq(S), NEW i \in Nat, 1 <= i, i <= Len(list)
    PROVE  i \in DOMAIN list /\ list[i] \in Range(list)
BY LenProperties DEF Range

LEMMA ListTypes ==
    ASSUME TypeOK
    PROVE  /\ controllerIds \in Seq(ControllerId)
           /\ activeNamespaces \in Seq(Nat \ {0})
           /\ Len(controllerIds) \in Nat
           /\ Len(activeNamespaces) \in Nat
<1>1. controllerIds \in Seq(ControllerId)
  <2>1. ControllerReads \subseteq Seq(ControllerId)
    BY ListAssumption, Zenon
  <2>2. <<>> \in Seq(ControllerId)
    BY EmptySeq
  <2>3. controllerIds \in ControllerReads \cup {<<>>}
    BY DEF TypeOK
  <2> QED  BY <2>1, <2>2, <2>3, Zenon
<1>2. activeNamespaces \in Seq(Nat \ {0})
  BY DEF TypeOK
<1>3. Len(controllerIds) \in Nat
  BY <1>1, LenProperties
<1>4. Len(activeNamespaces) \in Nat
  BY <1>2, LenProperties
<1> QED  BY <1>1, <1>2, <1>3, <1>4, SMT

LEMMA PortNumbers ==
    ASSUME TypeOK
    PROVE  /\ PortMod \in Nat \ {0}
           /\ DrivePorts \in 0 .. PortMod - 1
           /\ numberOfPorts # NULL =>
                 /\ numberOfPorts \in 0 .. PortMod - 1
                 /\ PortCount = numberOfPorts + 1
           /\ numberOfPorts = NULL => PortCount = 0
BY CollectAssumption DEF TypeOK, PortCount

(* A request fails at most as often as it may.                             *)
LEMMA ReplyTypes ==
    ASSUME TypeOK, NEW k \in Answer, NEW has \in BOOLEAN, Reply(k, has)
    PROVE  /\ present' = present
           /\ faults' \in 0 .. MaxFaults
           /\ faults' >= faults
BY CollectAssumption DEF Reply, TypeOK

LEMMA AskAdds ==
    ASSUME TypeOK, NEW answers, NEW has \in BOOLEAN, NEW e, NEW bytes,
           Ask(answers, has, e, bytes)
    PROVE  /\ Adds(e)
           /\ present' = present
           /\ faults' \in 0 .. MaxFaults
           /\ faults' >= faults
<1>1. PICK k \in Answer : Reply(k, has) /\ Record(k \in answers, e, bytes)
  BY DEF Ask
<1>2. Keep(e, bytes) \/ Lose(e)
  BY <1>1 DEF Record
<1> QED  BY <1>1, <1>2, RecordAdds, ReplyTypes

(* Nothing that is known is forgotten, so every entry expected stays so.   *)
FoundGrows ==
    /\ numberOfPorts' = numberOfPorts \/ numberOfPorts = NULL
    /\ controllerIds' = controllerIds \/ controllerIds = <<>>
    /\ activeNamespaces' = activeNamespaces \/ activeNamespaces = <<>>

LEMMA ExpectedGrows ==
    ASSUME TypeOK, FoundGrows
    PROVE  Expected \subseteq Expected'
<1>1. PortCount' = PortCount \/ PortCount = 0
  BY PortNumbers DEF FoundGrows, PortCount
<1>2. Range(controllerIds) = Range(controllerIds)' \/ Range(controllerIds) = {}
  BY DEF FoundGrows, Range
<1>3. \/ Range(activeNamespaces) = Range(activeNamespaces)'
      \/ Range(activeNamespaces) = {}
  BY DEF FoundGrows, Range
<1>4. \/ 0 .. PortCount - 1 = (0 .. PortCount - 1)'
      \/ 0 .. PortCount - 1 = {}
  BY <1>1
<1> QED  BY <1>2, <1>3, <1>4 DEF Expected


LEMMA CursorMoves ==
    ASSUME TypeOK,
           \/ \E s \in Section : Goto(s) \/ StartList(s)
           \/ NextItem
           \/ NextPort
    PROVE  section' \in Section /\ item' \in Nat /\ second' \in BOOLEAN
<1>1. section \in Section /\ item \in Nat
  BY DEF TypeOK
<1>2. second' \in BOOLEAN
  BY DEF Goto, StartList, NextItem, NextPort
<1>3. section' \in Section
  BY <1>1 DEF Goto, StartList, NextItem, NextPort
<1>4. item' \in Nat
  BY <1>1, CollectAssumption DEF Goto, StartList, NextItem, NextPort
<1> QED  BY <1>2, <1>3, <1>4

-----------------------------------------------------------------------------
(* How far the call is.                                                    *)

LEMMA TwiceStays ==
    ASSUME FoundGrows, NEW e, AskedTwice(e)
    PROVE  AskedTwice(e)'
<1>1. CASE e[1] \in {"Ports", "ConfigGet"} /\ numberOfPorts = PortMod - 1
  <2>1. numberOfPorts # NULL
    BY <1>1, CollectAssumption
  <2> QED  BY <1>1, <2>1 DEF FoundGrows, AskedTwice
<1>2. CASE /\ e[1] \in {"ControllerInfo", "IdentifyControllers"}
           /\ ListedTwice(e[2], controllerIds)
  <2>1. controllerIds # <<>>
    BY <1>2 DEF ListedTwice
  <2> QED  BY <1>2, <2>1 DEF FoundGrows, AskedTwice, ListedTwice
<1>3. CASE /\ e[1] = "NamespaceIdDescList"
           /\ ListedTwice(e[2], activeNamespaces)
  <2>1. activeNamespaces # <<>>
    BY <1>3 DEF ListedTwice
  <2> QED  BY <1>3, <2>1 DEF FoundGrows, AskedTwice, ListedTwice
<1> QED  BY <1>1, <1>2, <1>3 DEF AskedTwice

LEMMA WrapStays ==
    ASSUME FoundGrows, PortsWrap
    PROVE  PortsWrap'
BY CollectAssumption DEF FoundGrows, PortsWrap

(* A step whose entries are those the cursor goes past keeps the progress. *)
LEMMA Advance ==
    ASSUME TypeOK, Progress, result # "exception", FoundGrows,
           NEW E \in SUBSET Expected,
           Accounted' = Accounted \cup E,
           DOMAIN dump' \cap lost' \subseteq
               (DOMAIN dump \cap lost) \cup (E \cap Accounted),
           \A e \in E \cap Accounted : AskedTwice(e),
           \A e \in Expected : Passed(e) \/ e \in E =>
               Passed(e)' \/ (PortEntry(e) /\ PortsWrap)',
           result' # "exception" =>
               \A e \in Expected' : Passed(e)' =>
                   e \in Expected /\ (Passed(e) \/ e \in E)
    PROVE  Progress'
<1>1. AccountedWasPassed'
  <2> SUFFICES ASSUME NEW e \in Accounted'
               PROVE  Passed(e)' \/ (PortEntry(e) /\ PortsWrap)'
    BY DEF AccountedWasPassed
  <2>1. CASE e \in E
    BY <2>1
  <2>2. CASE e \in Accounted
    <3>1. e \in Expected /\ (Passed(e) \/ (PortEntry(e) /\ PortsWrap))
      BY <2>2 DEF Progress, AccountedWasPassed, Accounted, TypeOK
    <3>2. PortEntry(e) /\ PortsWrap => (PortEntry(e) /\ PortsWrap)'
      BY WrapStays DEF PortEntry
    <3> QED  BY <3>1, <3>2
  <2> QED  BY <2>1, <2>2
<1>2. PassedIsAccounted'
  BY DEF Progress, PassedIsAccounted
<1>3. NoHalfEntry'
  <2> SUFFICES ASSUME NEW e \in DOMAIN dump' \cap lost'
               PROVE  AskedTwice(e)'
    BY DEF NoHalfEntry
  <2>1. AskedTwice(e)
    BY DEF Progress, NoHalfEntry
  <2> QED  BY <2>1, TwiceStays
<1> QED  BY <1>1, <1>2, <1>3 DEF Progress

(* An entry the call is at is not accounted for yet.                       *)
LEMMA CurrentIsNew ==
    ASSUME TypeOK, Progress, NEW e \in Accounted, e[1] = section
    PROVE  AskedTwice(e) \/ PassedHere(e)
<1>1. Passed(e) \/ (PortEntry(e) /\ PortsWrap)
  BY DEF Progress, AccountedWasPassed
<1>2. Rank[section] \in 1 .. 16
  BY RankIsOrder DEF TypeOK
<1> QED  BY <1>1, <1>2 DEF Passed, PortEntry, PortsWrap, AskedTwice

(* What the moves of the cursor leave behind.                              *)
LEMMA ListDomains ==
    TypeOK => /\ DOMAIN controllerIds \subseteq Nat \ {0}
              /\ DOMAIN activeNamespaces \subseteq Nat \ {0}
<1>1. ASSUME TypeOK
      PROVE  /\ DOMAIN controllerIds \subseteq Nat \ {0}
             /\ DOMAIN activeNamespaces \subseteq Nat \ {0}
  <2>1. /\ DOMAIN controllerIds = 1 .. Len(controllerIds)
        /\ DOMAIN activeNamespaces = 1 .. Len(activeNamespaces)
    BY <1>1, ListTypes, LenProperties
  <2> QED  BY <2>1
<1> QED  BY <1>1

LEMMA ListDomainsNext ==
    TypeOK' => /\ DOMAIN controllerIds' \subseteq Nat \ {0}
               /\ DOMAIN activeNamespaces' \subseteq Nat \ {0}
<1>1. (TypeOK => /\ DOMAIN controllerIds \subseteq Nat \ {0}
                 /\ DOMAIN activeNamespaces \subseteq Nat \ {0})'
  BY ListDomains, PTL
<1> QED  BY <1>1

LEMMA SectionEnds ==
    ASSUME TypeOK', NEW t \in Section,
           Goto(t) \/ (StartList(t) /\ t \notin {"Ports", "ConfigGet"})
    PROVE  \A e \in Expected' : Passed(e)' <=> Rank[e[1]] < Rank[t]
<1>1. /\ DOMAIN controllerIds' \subseteq Nat \ {0}
      /\ DOMAIN activeNamespaces' \subseteq Nat \ {0}
  BY ListDomainsNext
<1>2. ASSUME NEW e \in Expected', e[1] = t
      PROVE  ~ PassedHere(e)'
  <2>1. IsEntry(e)'
    BY ExpectedStaysPairs
  <2>2. /\ section' = t /\ item' \in {0, 1}
        /\ t \in {"Ports", "ConfigGet"} => item' = 0
    BY DEF Goto, StartList
  <2>3. ~ Before(e[2], controllerIds)' /\ ~ Before(e[2], activeNamespaces)'
    BY <1>1, <2>2 DEF Before
  <2>4. e[1] \in Counted => ~ (e[2] < item')
    BY <1>2, <2>1, <2>2 DEF IsEntry, Counted, Simple
  <2> QED  BY <2>3, <2>4 DEF PassedHere
<1>3. section' = t
  BY DEF Goto, StartList
<1> QED  BY <1>2, <1>3 DEF Passed

LEMMA ItemPasses ==
    ASSUME TypeOK, UNCHANGED <<found, section>>, item' = item + 1
    PROVE  /\ Expected' = Expected
           /\ \A e \in Expected : Passed(e)' => Passed(e) \/ e = Current
           /\ \A e \in Expected : Passed(e) => Passed(e)'
<1>1. Expected' = Expected
  BY DEF Expected, PortCount, found
<1>2. item \in Nat
  BY DEF TypeOK
<1>3. ASSUME NEW e \in Expected, e[1] = section
      PROVE  /\ PassedHere(e)' => PassedHere(e) \/ e = Current
             /\ PassedHere(e) => PassedHere(e)'
  <2>1. IsEntry(e)
    BY ExpectedIsPairs
  <2>2. CASE e[1] \in Counted
    <3>1. e[2] \in Int
      BY <2>1, <2>2 DEF IsEntry, Counted, Simple
    <3>2. e[2] < item' <=> e[2] < item \/ e[2] = item
      BY <1>2, <3>1
    <3>3. e[2] = item => e = Current
      BY <1>3, <2>1, <2>2 DEF IsEntry, Current
    <3> QED  BY <2>2, <3>2, <3>3 DEF PassedHere, Counted, OfControllers
  <2>3. CASE e[1] \in OfControllers
    <3>1. Before(e[2], controllerIds)' <=>
             Before(e[2], controllerIds) \/
             (item \in DOMAIN controllerIds /\ controllerIds[item] = e[2])
      BY <1>2, ListDomains DEF Before, found
    <3>2. controllerIds[item] = e[2] => e = Current
      BY <1>3, <2>1, <2>3 DEF IsEntry, Current, Counted, OfControllers
    <3> QED  BY <2>3, <3>1, <3>2 DEF PassedHere, Counted, OfControllers
  <2>4. CASE e[1] = "NamespaceIdDescList"
    <3>1. Before(e[2], activeNamespaces)' <=>
             Before(e[2], activeNamespaces) \/
             (item \in DOMAIN activeNamespaces /\ activeNamespaces[item] = e[2])
      BY <1>2, ListDomains DEF Before, found
    <3>2. activeNamespaces[item] = e[2] => e = Current
      BY <1>3, <2>1, <2>4 DEF IsEntry, Current, Counted, OfControllers
    <3> QED  BY <2>4, <3>1, <3>2 DEF PassedHere, Counted, OfControllers
  <2>5. CASE e[1] \notin Counted \cup OfControllers \cup {"NamespaceIdDescList"}
    BY <2>5 DEF PassedHere
  <2> QED  BY <2>2, <2>3, <2>4, <2>5
<1> QED  BY <1>1, <1>3 DEF Passed

LEMMA ExpectedSame ==
    ASSUME UNCHANGED found
    PROVE  Expected' = Expected /\ FoundGrows
BY DEF Expected, PortCount, found, FoundGrows

LEMMA PortPasses ==
    ASSUME TypeInv, NextPort, UNCHANGED found, item <= numberOfPorts,
           section \in {"Ports", "ConfigGet"}
    PROVE  /\ Expected' = Expected
           /\ \A e \in Expected : Passed(e)' => Passed(e) \/ e = Current
           /\ \A e \in Expected :
                 Passed(e) => Passed(e)' \/ (PortEntry(e) /\ PortsWrap)'
<1>1. /\ TypeOK /\ item \in Nat /\ item < PortMod /\ PortMod \in Nat
      /\ numberOfPorts \in 0 .. PortMod - 1
      /\ section' = section
  BY PortNumbers DEF TypeInv, TypeOK, CursorInv, NextPort
<1>2. CASE item + 1 < PortMod
  <2>1. item' = item + 1
    BY <1>1, <1>2 DEF NextPort
  <2> QED  BY <1>1, <2>1, ItemPasses
<1>3. CASE item + 1 = PortMod
  <2>1. item' = 0 /\ PortsWrap'
    BY <1>1, <1>3 DEF NextPort, PortsWrap, found
  <2>2. Expected' = Expected
    BY ExpectedSame
  <2>3. ASSUME NEW e \in Expected, e[1] = section
        PROVE  PortEntry(e)' /\ ~ PassedHere(e)'
    <3>1. e[2] \in Nat
      BY <2>3, ExpectedIsPairs DEF IsEntry, Simple
    <3> QED  BY <2>1, <2>3, <3>1 DEF PortEntry, PassedHere, OfControllers
  <2> QED  BY <1>1, <2>1, <2>2, <2>3 DEF Passed
<1> QED  BY <1>1, <1>2, <1>3

LEMMA CurrentOnce ==
    ASSUME TypeOK, Progress, Current \in Accounted,
           section \in OfControllers => item \in DOMAIN controllerIds,
           section = "NamespaceIdDescList" => item \in DOMAIN activeNamespaces
    PROVE  AskedTwice(Current)
<1>1. Current[1] = section
  BY DEF Current
<1>2. ASSUME PassedHere(Current) PROVE AskedTwice(Current)
  <2>1. CASE section \in Counted
    <3>1. Current[2] = item /\ item \in Nat
      BY <2>1 DEF Current, TypeOK
    <3> QED  BY <1>1, <1>2, <2>1, <3>1 DEF PassedHere, Counted, OfControllers
  <2>2. CASE section \in OfControllers
    <3>1. Current[2] = controllerIds[item] /\ item \in Nat
      BY <2>2 DEF Current, Counted, OfControllers, TypeOK
    <3>2. Before(Current[2], controllerIds)
      BY <1>1, <1>2, <2>2 DEF PassedHere, Counted, OfControllers
    <3>3. ListedTwice(Current[2], controllerIds)
      BY <2>2, <3>1, <3>2 DEF Before, ListedTwice
    <3> QED  BY <1>1, <2>2, <3>3 DEF AskedTwice, OfControllers
  <2>3. CASE section = "NamespaceIdDescList"
    <3>1. Current[2] = activeNamespaces[item] /\ item \in Nat
      BY <2>3 DEF Current, Counted, OfControllers, TypeOK
    <3>2. Before(Current[2], activeNamespaces)
      BY <1>1, <1>2, <2>3 DEF PassedHere, Counted, OfControllers
    <3>3. ListedTwice(Current[2], activeNamespaces)
      BY <2>3, <3>1, <3>2 DEF Before, ListedTwice
    <3> QED  BY <1>1, <2>3, <3>3 DEF AskedTwice
  <2> QED  BY <1>1, <1>2, <2>1, <2>2, <2>3 DEF PassedHere
<1> QED  BY <1>1, <1>2, CurrentIsNew

LEMMA CurrentPasses ==
    ASSUME TypeOK, UNCHANGED <<found, section>>, item' = item + 1,
           NEW e, e = Current,
           \/ section \in Counted
           \/ section \in OfControllers /\ item \in DOMAIN controllerIds
           \/ /\ section = "NamespaceIdDescList"
              /\ item \in DOMAIN activeNamespaces
    PROVE  Passed(e)'
<1>1. e[1] = section /\ item \in Nat /\ item < item'
  BY DEF Current, TypeOK
<1>2. CASE section \in Counted
  <2>1. e[2] < item'
    BY <1>1, <1>2 DEF Current
  <2> QED  BY <1>1, <1>2, <2>1 DEF Passed, PassedHere
<1>3. CASE section \in OfControllers /\ item \in DOMAIN controllerIds
  <2>1. e[2] = controllerIds[item]
    BY <1>3 DEF Current, Counted, OfControllers
  <2>2. Before(e[2], controllerIds)'
    BY <1>1, <1>3, <2>1 DEF Before, found
  <2> QED  BY <1>1, <1>3, <2>2 DEF Passed, PassedHere
<1>4. CASE section = "NamespaceIdDescList" /\ item \in DOMAIN activeNamespaces
  <2>1. e[2] = activeNamespaces[item]
    BY <1>4 DEF Current, Counted, OfControllers
  <2>2. Before(e[2], activeNamespaces)'
    BY <1>1, <1>4, <2>1 DEF Before, found
  <2> QED  BY <1>1, <1>4, <2>2 DEF Passed, PassedHere
<1> QED  BY <1>2, <1>3, <1>4

(* A step that makes the current entry.                                    *)
LEMMA EntryStep ==
    ASSUME TypeInv, Progress, section # "Returned", FoundGrows,
           NEW e \in Expected, e = Current, Adds(e),
           section \in OfControllers => item \in DOMAIN controllerIds,
           section = "NamespaceIdDescList" => item \in DOMAIN activeNamespaces,
           \A x \in Expected : Passed(x) \/ x = e =>
               Passed(x)' \/ (PortEntry(x) /\ PortsWrap)',
           result' # "exception" =>
               \A x \in Expected' : Passed(x)' =>
                   x \in Expected /\ (Passed(x) \/ x = e)
    PROVE  Progress'
<1>1. TypeOK /\ result # "exception"
  BY DEF TypeInv, CursorInv
<1>2. e \in Accounted => AskedTwice(e)
  BY <1>1, CurrentOnce
<1>3. /\ {e} \in SUBSET Expected
      /\ Accounted' = Accounted \cup {e}
      /\ DOMAIN dump' \cap lost' \subseteq
             (DOMAIN dump \cap lost) \cup ({e} \cap Accounted)
      /\ \A x \in {e} \cap Accounted : AskedTwice(x)
  BY <1>2 DEF Adds
<1> DEFINE E == {e}
<1>4. /\ \A x \in Expected : Passed(x) \/ x \in E =>
             Passed(x)' \/ (PortEntry(x) /\ PortsWrap)'
      /\ result' # "exception" =>
             \A x \in Expected' : Passed(x)' =>
                 x \in Expected /\ (Passed(x) \/ x \in E)
  OBVIOUS
<1> HIDE DEF E
<1> QED  BY <1>1, <1>3, <1>4, Advance DEF E

(* The next item of the section is next.                                   *)
LEMMA ItemStep ==
    ASSUME TypeInv, Progress, section # "Returned",
           UNCHANGED <<found, section>>, item' = item + 1,
           NEW e \in Expected, e = Current, Adds(e),
           \/ section \in Counted
           \/ section \in OfControllers /\ item \in DOMAIN controllerIds
           \/ /\ section = "NamespaceIdDescList"
              /\ item \in DOMAIN activeNamespaces
    PROVE  Progress'
<1>1. TypeOK
  BY DEF TypeInv
<1>2. /\ Expected' = Expected
      /\ \A x \in Expected : Passed(x)' => Passed(x) \/ x = e
      /\ \A x \in Expected : Passed(x) => Passed(x)'
  BY <1>1, ItemPasses
<1>3. Passed(e)'
  BY <1>1, CurrentPasses
<1>4. FoundGrows
  BY ExpectedSame
<1>5. /\ section \in OfControllers => item \in DOMAIN controllerIds
      /\ section = "NamespaceIdDescList" => item \in DOMAIN activeNamespaces
  BY DEF Counted, OfControllers
<1> QED  BY <1>2, <1>3, <1>4, <1>5, EntryStep

(* The next port is next, or the first one again.                          *)
LEMMA PortStep ==
    ASSUME TypeInv, Progress, NextPort, UNCHANGED found,
           section \in {"Ports", "ConfigGet"}, item <= numberOfPorts,
           NEW e \in Expected, e = Current, Adds(e)
    PROVE  Progress'
<1>1. TypeOK /\ section' = section /\ section # "Returned"
  BY DEF TypeInv, NextPort
<1>2. /\ Expected' = Expected
      /\ \A x \in Expected : Passed(x)' => Passed(x) \/ x = e
      /\ \A x \in Expected :
            Passed(x) => Passed(x)' \/ (PortEntry(x) /\ PortsWrap)'
  BY PortPasses
<1>3. FoundGrows
  BY ExpectedSame
<1>4. Passed(e)' \/ (PortEntry(e) /\ PortsWrap)'
  <2>1. /\ item \in Nat /\ item < PortMod /\ PortMod \in Nat
        /\ numberOfPorts \in 0 .. PortMod - 1
    BY <1>1, PortNumbers DEF TypeInv, TypeOK, CursorInv
  <2>2. CASE item + 1 < PortMod
    <3>1. item' = item + 1
      BY <2>1, <2>2 DEF NextPort
    <3>2. section \in Counted
      BY DEF Counted
    <3> QED  BY <1>1, <3>1, <3>2, CurrentPasses
  <2>3. CASE item + 1 = PortMod
    <3>1. PortsWrap'
      BY <2>1, <2>3 DEF PortsWrap, found
    <3>2. PortEntry(e)'
      BY DEF PortEntry, Current
    <3> QED  BY <3>1, <3>2
  <2> QED  BY <2>1, <2>2, <2>3
<1>5. section \notin OfControllers /\ section # "NamespaceIdDescList"
  BY DEF OfControllers
<1> QED  BY <1>1, <1>2, <1>3, <1>4, <1>5, EntryStep

(* The next section is next, perhaps past others that have no entries.     *)
NoneLeft(t, E) ==
    \A e \in Expected' :
        /\ Rank[e[1]] < Rank[section] => e \in Expected
        /\ Rank[section] <= Rank[e[1]] /\ Rank[e[1]] < Rank[t] =>
              e \in E \/ (e \in Expected /\ e[1] = section /\ PassedHere(e))

LEMMA SectionPasses ==
    ASSUME TypeOK, TypeOK', NEW t \in Section, Rank[section] < Rank[t],
           Goto(t) \/ (StartList(t) /\ t \notin {"Ports", "ConfigGet"}),
           FoundGrows
    PROVE  /\ \A e \in Expected : Passed(e) \/ e[1] = section => Passed(e)'
           /\ \A E \in SUBSET Expected : NoneLeft(t, E) =>
                 \A e \in Expected' : Passed(e)' =>
                     e \in Expected /\ (Passed(e) \/ e \in E)
<1>1. \A e \in Expected' : Passed(e)' <=> Rank[e[1]] < Rank[t]
  BY SectionEnds
<1>2. \A e \in Expected : e \in Expected'
  BY ExpectedGrows
<1>3. /\ Rank[section] \in Int /\ Rank[t] \in Int
      /\ \A s \in Section : Rank[s] \in Int
  <2>1. \A s \in Section : Rank[s] \in Int
    BY RankIsOrder
  <2>2. section \in Section
    BY DEF TypeOK
  <2> QED  BY <2>1, <2>2
<1>4. \A e \in Expected' : e[1] \in Section
  BY ExpectedStaysPairs DEF IsEntry, Section, Simple
<1>5. \A e \in Expected : Passed(e) \/ e[1] = section => Passed(e)'
  BY <1>1, <1>2, <1>3, <1>4 DEF Passed
<1>6. ASSUME NEW E \in SUBSET Expected, NoneLeft(t, E),
             NEW e \in Expected', Passed(e)'
      PROVE  e \in Expected /\ (Passed(e) \/ e \in E)
  <2>1. Rank[e[1]] < Rank[t] /\ Rank[e[1]] \in Int
    BY <1>1, <1>3, <1>4, <1>6
  <2> QED  BY <1>3, <1>6, <2>1 DEF NoneLeft, Passed
<1> QED  BY <1>5, <1>6

LEMMA SectionStep ==
    ASSUME TypeInv, TypeOK', Progress, section # "Returned",
           NEW t \in Section, Rank[section] < Rank[t],
           Goto(t) \/ (StartList(t) /\ t \notin {"Ports", "ConfigGet"}),
           FoundGrows,
           NEW e \in Expected, e = Current, Adds(e),
           section \in OfControllers => item \in DOMAIN controllerIds,
           section = "NamespaceIdDescList" => item \in DOMAIN activeNamespaces,
           result' # "exception" => NoneLeft(t, {e})
    PROVE  Progress'
<1>1. TypeOK
  BY DEF TypeInv
<1>2. /\ \A x \in Expected : Passed(x) \/ x[1] = section => Passed(x)'
      /\ \A E \in SUBSET Expected : NoneLeft(t, E) =>
            \A x \in Expected' : Passed(x)' =>
                x \in Expected /\ (Passed(x) \/ x \in E)
  BY <1>1, SectionPasses
<1>3. e[1] = section
  BY DEF Current
<1>4. result' # "exception" =>
          \A x \in Expected' : Passed(x)' =>
              x \in Expected /\ (Passed(x) \/ x = e)
  BY <1>2
<1> QED  BY <1>2, <1>3, <1>4, EntryStep

(* The section has nothing left.                                           *)
LEMMA EndStep ==
    ASSUME TypeInv, TypeOK', Progress, section # "Returned",
           NEW t \in Section, Rank[section] < Rank[t],
           Goto(t) \/ (StartList(t) /\ t \notin {"Ports", "ConfigGet"}),
           UNCHANGED <<found, dump, lost>>, NoneLeft(t, {})
    PROVE  Progress'
<1>1. TypeOK /\ result # "exception"
  BY DEF TypeInv, CursorInv
<1>2. Expected' = Expected /\ FoundGrows
  BY ExpectedSame
<1>3. /\ \A x \in Expected : Passed(x) \/ x[1] = section => Passed(x)'
      /\ \A E \in SUBSET Expected : NoneLeft(t, E) =>
            \A x \in Expected' : Passed(x)' =>
                x \in Expected /\ (Passed(x) \/ x \in E)
  BY <1>1, <1>2, SectionPasses
<1> DEFINE E == {}
<1>4. /\ E \in SUBSET Expected
      /\ Accounted' = Accounted \cup E
      /\ DOMAIN dump' \cap lost' \subseteq
             (DOMAIN dump \cap lost) \cup (E \cap Accounted)
      /\ \A x \in E \cap Accounted : AskedTwice(x)
      /\ \A x \in Expected : Passed(x) \/ x \in E =>
             Passed(x)' \/ (PortEntry(x) /\ PortsWrap)'
  BY <1>3 DEF Accounted
<1>5. \A x \in Expected' : Passed(x)' =>
          x \in Expected /\ (Passed(x) \/ x \in E)
  BY <1>3, <1>4
<1> HIDE DEF E
<1> QED  BY <1>1, <1>2, <1>4, <1>5, Advance

(* Neither the entries nor the cursor move.                                *)
LEMMA NothingStep ==
    ASSUME Progress, UNCHANGED <<section, item, found, dump, lost, result>>
    PROVE  Progress'
BY DEF Progress, AccountedWasPassed, PassedIsAccounted, NoHalfEntry,
   Accounted, Passed, PassedHere, Before, PortEntry, PortsWrap, AskedTwice,
   ListedTwice, Expected, PortCount, found

-----------------------------------------------------------------------------
(* Types and progress together: the inductive invariant of the call.       *)

LEMMA TypesHold ==
    ASSUME TypeOK, FoundGrows,
           NEW E \in SUBSET Expected, Accounted' = Accounted \cup E,
           section' \in Section, item' \in Nat, second' \in BOOLEAN,
           numberOfPorts' \in PortReads \cup {NULL},
           controllerIds' \in ControllerReads \cup {<<>>},
           activeNamespaces' \in Seq(Nat \ {0}),
           result' \in {"pending", "success", "fileSystem", "exception"},
           present' \in BOOLEAN, faults' \in 0 .. MaxFaults
    PROVE  TypeOK'
<1>1. DOMAIN dump' \subseteq Expected' /\ lost' \subseteq Expected'
  BY ExpectedGrows DEF TypeOK, Accounted
<1> QED  BY <1>1 DEF TypeOK

FoundTypes ==
    /\ numberOfPorts \in PortReads \cup {NULL}
    /\ controllerIds \in ControllerReads \cup {<<>>}
    /\ activeNamespaces \in Seq(Nat \ {0})

LEMMA FoundStays ==
    ASSUME TypeOK, UNCHANGED found
    PROVE  FoundGrows /\ FoundTypes'
BY DEF TypeOK, found, FoundGrows, FoundTypes

(* What a reply does to the variables that are not the program's.          *)
Replied == present' = present /\ faults' \in 0 .. MaxFaults

Listed == OfControllers
    \cup {"NamespaceIdDescList", "GetFeatures", "GetLogPage"}

LEMMA ItemKeeps ==
    ASSUME TypeInv, Progress, section \in Listed,
           NextItem, UNCHANGED <<found, result>>, Replied,
           NEW e \in Expected, e = Current, Adds(e),
           section \in OfControllers => item \in DOMAIN controllerIds,
           section = "NamespaceIdDescList" => item \in DOMAIN activeNamespaces
    PROVE  TypeInv' /\ Progress'
<1>1. TypeOK /\ CursorInv /\ present \in BOOLEAN
  BY DEF TypeInv, TypeOK
<1>2. FoundGrows /\ FoundTypes'
  BY <1>1, FoundStays
<1>3. /\ section # "Returned" /\ section' = section /\ item' = item + 1
      /\ item \in Nat
  BY <1>1 DEF NextItem, Listed, OfControllers, TypeOK
<1>4. {e} \in SUBSET Expected /\ Accounted' = Accounted \cup {e}
  BY DEF Adds
<1>5. section' \in Section /\ item' \in Nat /\ second' \in BOOLEAN
  BY <1>1, CursorMoves
<1>6. result' = result
  OBVIOUS
<1>7. TypeOK'
  <2>1. /\ result' \in {"pending", "success", "fileSystem", "exception"}
        /\ present' \in BOOLEAN
    BY <1>1, <1>6 DEF TypeOK, Replied
  <2> QED  BY <1>1, <1>2, <1>4, <1>5, <2>1, TypesHold DEF FoundTypes, Replied
<1>8. CursorInv'
  BY <1>1, <1>3, <1>6 DEF CursorInv, found, Listed, OfControllers
<1>9. Progress'
  BY <1>3, ItemStep DEF Listed, Counted
<1> QED  BY <1>7, <1>8, <1>9 DEF TypeInv

LEMMA PortKeeps ==
    ASSUME TypeInv, Progress, section \in {"Ports", "ConfigGet"}, MorePorts,
           NextPort, UNCHANGED <<found, result>>, Replied,
           NEW e \in Expected, e = Current, Adds(e)
    PROVE  TypeInv' /\ Progress'
<1>1. TypeOK /\ CursorInv /\ present \in BOOLEAN
  BY DEF TypeInv, TypeOK
<1>2. FoundGrows /\ FoundTypes'
  BY <1>1, FoundStays
<1>3. /\ section # "Returned" /\ section' = section
      /\ item' < PortMod
  BY <1>1, PortNumbers DEF NextPort, TypeOK
<1>4. {e} \in SUBSET Expected /\ Accounted' = Accounted \cup {e}
  BY DEF Adds
<1>5. section' \in Section /\ item' \in Nat /\ second' \in BOOLEAN
  BY <1>1, CursorMoves
<1>6. result' = result
  OBVIOUS
<1>7. TypeOK'
  <2>1. /\ result' \in {"pending", "success", "fileSystem", "exception"}
        /\ present' \in BOOLEAN
    BY <1>1, <1>6 DEF TypeOK, Replied
  <2> QED  BY <1>1, <1>2, <1>4, <1>5, <2>1, TypesHold DEF FoundTypes, Replied
<1>8. CursorInv'
  BY <1>1, <1>3, <1>6 DEF CursorInv, found
<1>9. Progress'
  BY PortStep DEF MorePorts
<1> QED  BY <1>7, <1>8, <1>9 DEF TypeInv

(* The section that is next is one that may be.                            *)
Opens(t) ==
    /\ t \in Section /\ Rank[section] < Rank[t]
    /\ \/ Goto(t) /\ t \notin Listed
       \/ StartList(t) /\ t \notin {"Ports", "ConfigGet"}
    /\ FoundGrows /\ FoundTypes'
    /\ t \in {"Ports", "ConfigGet"} => numberOfPorts' # NULL
    /\ Rank[t] <= 3 => controllerIds' = <<>>
    /\ Rank[t] <= 11 => activeNamespaces' = <<>>
    /\ t = "Returned" <=> result' # "pending"
    /\ result' \in {"pending", "success", "fileSystem", "exception"}
    /\ Replied

LEMMA OpensTypes ==
    ASSUME TypeInv, NEW t, Opens(t),
           NEW E \in SUBSET Expected, Accounted' = Accounted \cup E
    PROVE  TypeInv'
<1>1. TypeOK /\ CursorInv /\ present \in BOOLEAN
  BY DEF TypeInv, TypeOK
<1>2. /\ t \in Section /\ Rank["SubsystemInfo"] = 1
      /\ Rank[section] \in 1 .. 16
      /\ section' = t /\ item' \in {0, 1}
      /\ t \in Listed => item' = 1
      /\ t \in {"Ports", "ConfigGet"} => item' = 0
  BY <1>1, RankIsOrder DEF Opens, Goto, StartList, TypeOK
<1>3. section' \in Section /\ item' \in Nat /\ second' \in BOOLEAN
  BY <1>1, CursorMoves DEF Opens
<1>4. TypeOK'
  <2>1. present' \in BOOLEAN
    BY <1>1 DEF Opens, Replied
  <2> QED  BY <1>1, <1>3, <2>1, TypesHold DEF Opens, FoundTypes, Replied
<1>5. CursorInv'
  <2>1. PortMod > 0 /\ t # "SubsystemInfo"
    BY <1>1, <1>2, PortNumbers DEF Opens
  <2>2. section' = "SubsystemInfo" => numberOfPorts' = NULL
    BY <1>2, <2>1
  <2>3. /\ Rank[section'] <= 3 => controllerIds' = <<>>
        /\ Rank[section'] <= 11 => activeNamespaces' = <<>>
        /\ section' = "Returned" <=> result' # "pending"
    BY <1>2 DEF Opens
  <2>4. /\ section' \in {"Ports", "ConfigGet"} =>
             numberOfPorts' # NULL /\ item' < PortMod
        /\ section' \in Listed => item' >= 1
    BY <1>2, <2>1, PortNumbers DEF Opens
  <2> QED  BY <2>2, <2>3, <2>4 DEF CursorInv, Listed, OfControllers
<1> QED  BY <1>4, <1>5 DEF TypeInv

LEMMA SectionKeeps ==
    ASSUME TypeInv, Progress, section # "Returned", NEW t, Opens(t),
           NEW e \in Expected, e = Current, Adds(e),
           section \in OfControllers => item \in DOMAIN controllerIds,
           section = "NamespaceIdDescList" => item \in DOMAIN activeNamespaces,
           result' # "exception" => NoneLeft(t, {e})
    PROVE  TypeInv' /\ Progress'
<1>1. {e} \in SUBSET Expected /\ Accounted' = Accounted \cup {e}
  BY DEF Adds
<1>2. TypeInv'
  BY <1>1, OpensTypes
<1> QED  BY <1>2, SectionStep DEF TypeInv, Opens

LEMMA EndKeeps ==
    ASSUME TypeInv, Progress, section # "Returned", NEW t, Opens(t),
           UNCHANGED <<found, dump, lost>>, NoneLeft(t, {})
    PROVE  TypeInv' /\ Progress'
<1>1. {} \in SUBSET Expected /\ Accounted' = Accounted \cup {}
  BY DEF Accounted
<1>2. TypeInv'
  BY <1>1, OpensTypes
<1> QED  BY <1>2, EndStep DEF TypeInv, Opens

LEMMA RankNext ==
    ASSUME TypeOK, NEW t, Rank[t] = Rank[section] + 1,
           NEW e \in Expected',
           Rank[section] <= Rank[e[1]], Rank[e[1]] < Rank[t]
    PROVE  e[1] = section
<1>1. e[1] \in Section
  BY ExpectedStaysPairs DEF IsEntry, Section, Simple
<1>2. section \in Section
  BY DEF TypeOK
<1>3. Rank[e[1]] \in Int /\ Rank[section] \in Int
  BY <1>1, <1>2, RankIsOrder
<1>4. Rank[e[1]] = Rank[section]
  BY <1>3
<1> QED  BY <1>1, <1>2, <1>4, RankIsOrder

(* A section of one entry has no other.                                    *)
LEMMA SingleEnds ==
    ASSUME TypeOK, NEW t, Rank[t] = Rank[section] + 1,
           section \in Simple, UNCHANGED found
    PROVE  NoneLeft(t, {<<section, 0>>})
<1>1. Expected' = Expected
  BY ExpectedSame
<1>2. ASSUME NEW e \in Expected',
             Rank[section] <= Rank[e[1]], Rank[e[1]] < Rank[t]
      PROVE  e = <<section, 0>>
  <2>1. e[1] = section
    BY <1>2, RankNext
  <2> QED  BY <2>1, ExpectedStaysPairs DEF IsEntry, Simple
<1> QED  BY <1>1, <1>2 DEF NoneLeft

LEMMA SingleKeeps ==
    ASSUME TypeInv, Progress, section \in Simple, NEW t, Opens(t),
           Rank[t] = Rank[section] + 1, UNCHANGED found,
           Adds(<<section, 0>>)
    PROVE  TypeInv' /\ Progress'
<1>1. TypeOK
  BY DEF TypeInv
<1> DEFINE e == <<section, 0>>
<1>2. e \in Expected
  BY PairIsExpected
<1>3. e = Current
  BY DEF Current, Simple, Counted, OfControllers
<1>4. section # "Returned" /\ section \notin OfControllers
      /\ section # "NamespaceIdDescList"
  BY DEF Simple, OfControllers
<1>5. NoneLeft(t, {e})
  BY <1>1, SingleEnds
<1> HIDE DEF e
<1>6. Adds(e)
  BY DEF e
<1> QED  BY <1>2, <1>3, <1>4, <1>5, <1>6, SectionKeeps

LEMMA SubsystemInfoKeeps ==
    ASSUME TypeInv, Progress, SubsystemInfo
    PROVE  TypeInv' /\ Progress'
<1> DEFINE e == <<"SubsystemInfo", 0>>
<1>1. /\ TypeOK /\ CursorInv
      /\ section = "SubsystemInfo" /\ numberOfPorts = NULL
      /\ result = "pending"
      /\ UNCHANGED <<controllerIds, activeNamespaces, result>>
  BY DEF TypeInv, CursorInv, SubsystemInfo
<1>2. PICK k \in Answer :
        /\ Reply(k, TRUE)
        /\ Record(k \in SubsystemInfoUsable, e, Freed(e))
        /\ \/ numberOfPorts' \in PortReads /\ Goto("Ports")
           \/ UNCHANGED numberOfPorts /\ Goto("Controllers")
  BY DEF SubsystemInfo
<1>3. Replied
  BY <1>1, <1>2, ReplyTypes DEF Replied
<1>4. Adds(e) /\ e \in Expected /\ e = Current
  BY <1>1, <1>2, RecordAdds, PairIsExpected
  DEF Record, Simple, Current, Counted, OfControllers
<1>5. /\ controllerIds = <<>> /\ activeNamespaces = <<>>
      /\ Rank[section] = 1
  BY <1>1, RankIsOrder DEF CursorInv
<1>6. FoundGrows
  BY <1>1 DEF FoundGrows
<1>7. FoundTypes'
  BY <1>1, <1>2 DEF FoundTypes, TypeOK
<1>8. ASSUME NEW x \in Expected'
      PROVE  /\ Rank[x[1]] \in 1 .. 16
             /\ Rank[x[1]] < 3 => x = e \/ x[1] = "Ports"
             /\ Rank[x[1]] < 2 => x = e
             /\ UNCHANGED numberOfPorts => x[1] # "Ports"
  <2>1. IsEntry(x)'
    BY ExpectedStaysPairs
  <2>2. x[1] \in Section
    BY <2>1 DEF IsEntry, Simple, Section
  <2>3. Rank[x[1]] \in 1 .. 16
    BY <2>2, RankIsOrder
  <2>4. Rank[x[1]] < 3 => x[1] \in {"SubsystemInfo", "Ports"}
    BY <2>2, <2>3, RankIsOrder DEF Section
  <2>5. x[1] = "SubsystemInfo" => x = e
    BY <2>1 DEF IsEntry, Simple
  <2>6. UNCHANGED numberOfPorts => x[1] # "Ports"
    BY <1>1, <2>1 DEF IsEntry, Simple, PortCount
  <2> QED  BY <2>3, <2>4, <2>5, <2>6, RankIsOrder
<1>9. section # "Returned" /\ section \notin OfControllers
      /\ section # "NamespaceIdDescList"
  BY <1>1 DEF OfControllers
<1> HIDE DEF e
<1>10. CASE numberOfPorts' \in PortReads /\ Goto("Ports")
  <2>1. numberOfPorts' # NULL
    BY <1>10, CollectAssumption
  <2>2. Opens("Ports")
    BY <1>1, <1>3, <1>5, <1>6, <1>7, <1>10, <2>1, RankIsOrder
    DEF Opens, Section, Listed, OfControllers
  <2>3. NoneLeft("Ports", {e})
    <3>1. Rank["Ports"] = 2
      BY RankIsOrder
    <3> QED  BY <1>5, <1>8, <3>1 DEF NoneLeft
  <2> QED  BY <1>4, <1>9, <2>2, <2>3, SectionKeeps
<1>11. CASE UNCHANGED numberOfPorts /\ Goto("Controllers")
  <2>1. Opens("Controllers")
    BY <1>1, <1>3, <1>5, <1>6, <1>7, <1>11, RankIsOrder
    DEF Opens, Section, Listed, OfControllers
  <2>2. NoneLeft("Controllers", {e})
    <3>1. Rank["Controllers"] = 3
      BY RankIsOrder
    <3> QED  BY <1>5, <1>8, <1>11, <3>1 DEF NoneLeft
  <2> QED  BY <1>4, <1>9, <2>1, <2>2, SectionKeeps
<1> QED  BY <1>2, <1>10, <1>11

LEMMA PortInfoKeeps ==
    ASSUME TypeInv, Progress, PortInfo
    PROVE  TypeInv' /\ Progress'
<1> DEFINE e == <<"Ports", item>>
<1>1. /\ TypeOK /\ CursorInv
      /\ section = "Ports" /\ MorePorts
      /\ result = "pending" /\ UNCHANGED found
      /\ (item <= DrivePorts) \in BOOLEAN
  BY DEF TypeInv, CursorInv, PortInfo
<1>2. PICK k \in Answer :
        /\ Reply(k, item <= DrivePorts)
        /\ Record(k \in StructureUsable, e, Freed(e))
        /\ \/ NextPort /\ UNCHANGED result
           \/ Goto("Returned") /\ result' = "exception"
  BY DEF PortInfo
<1>3. Replied
  BY <1>1, <1>2, ReplyTypes DEF Replied
<1>4. item \in 0 .. PortCount - 1
  BY <1>1, PortNumbers DEF CursorInv, MorePorts, TypeOK
<1>5. Adds(e) /\ e \in Expected /\ e = Current
  BY <1>1, <1>2, <1>4, RecordAdds, PairIsExpected
  DEF Record, Current, Counted
<1> HIDE DEF e
<1>6. CASE NextPort /\ UNCHANGED result
  BY <1>1, <1>3, <1>5, <1>6, PortKeeps
<1>7. CASE Goto("Returned") /\ result' = "exception"
  <2>1. FoundGrows /\ FoundTypes'
    BY <1>1, FoundStays
  <2>2. Opens("Returned")
    BY <1>1, <1>3, <1>7, <2>1, RankIsOrder
    DEF Opens, Section, Listed, OfControllers
  <2>3. section # "Returned" /\ section \notin OfControllers
        /\ section # "NamespaceIdDescList"
    BY <1>1 DEF OfControllers
  <2> QED  BY <1>5, <1>7, <2>2, <2>3, SectionKeeps
<1> QED  BY <1>2, <1>6, <1>7

LEMMA PortsEnd ==
    ASSUME TypeInv, section \in {"Ports", "ConfigGet"}, ~ MorePorts,
           UNCHANGED found, NEW t, Rank[t] = Rank[section] + 1
    PROVE  NoneLeft(t, {})
<1>1. TypeOK /\ Expected' = Expected
  BY ExpectedSame DEF TypeInv
<1>2. ASSUME NEW e \in Expected',
             Rank[section] <= Rank[e[1]], Rank[e[1]] < Rank[t]
      PROVE  e[1] = section /\ PassedHere(e)
  <2>1. e[1] = section
    BY <1>1, <1>2, RankNext
  <2>2. e[2] \in 0 .. PortCount - 1
    BY <1>1, <1>2, <2>1, ExpectedIsPairs DEF IsEntry, Simple
  <2>3. e[2] < item
    BY <1>1, <2>2, PortNumbers DEF TypeInv, CursorInv, MorePorts, TypeOK
  <2> QED  BY <2>1, <2>3 DEF PassedHere, Counted
<1> QED  BY <1>1, <1>2 DEF NoneLeft

LEMMA ListEnds ==
    ASSUME TypeInv, section \in Listed, UNCHANGED found,
           section \in OfControllers => item > Len(controllerIds),
           section = "NamespaceIdDescList" => item > Len(activeNamespaces),
           section = "GetFeatures" => item > Len(Feature),
           section = "GetLogPage" => item > Len(LogPage),
           NEW t, Rank[t] = Rank[section] + 1
    PROVE  NoneLeft(t, {})
<1>1. TypeOK /\ Expected' = Expected
  BY ExpectedSame DEF TypeInv
<1>2. /\ item \in Nat
      /\ Len(controllerIds) \in Nat /\ Len(activeNamespaces) \in Nat
      /\ DOMAIN controllerIds = 1 .. Len(controllerIds)
      /\ DOMAIN activeNamespaces = 1 .. Len(activeNamespaces)
  BY <1>1, ListTypes, LenProperties DEF TypeOK
<1>3. ASSUME NEW e \in Expected',
             Rank[section] <= Rank[e[1]], Rank[e[1]] < Rank[t]
      PROVE  e[1] = section /\ PassedHere(e)
  <2>1. e[1] = section
    BY <1>1, <1>3, RankNext
  <2>2. IsEntry(e)
    BY <1>1, <1>3, ExpectedIsPairs
  <2>3. CASE section \in OfControllers
    <3>1. PICK i \in DOMAIN controllerIds : controllerIds[i] = e[2]
      BY <2>1, <2>2, <2>3 DEF IsEntry, Simple, OfControllers, Range
    <3>2. i < item
      BY <1>2, <2>3
    <3> QED  BY <2>1, <2>3, <3>1, <3>2 DEF PassedHere, Before
  <2>4. CASE section = "NamespaceIdDescList"
    <3>1. PICK i \in DOMAIN activeNamespaces : activeNamespaces[i] = e[2]
      BY <2>1, <2>2, <2>4 DEF IsEntry, Simple, Range
    <3>2. i < item
      BY <1>2, <2>4
    <3> QED  BY <2>1, <2>4, <3>1, <3>2 DEF PassedHere, Before
  <2>5. CASE section \in {"GetFeatures", "GetLogPage"}
    <3>1. e[2] < item
      BY <1>2, <2>1, <2>2, <2>5, ConstantLists DEF IsEntry, Simple
    <3> QED  BY <2>1, <2>5, <3>1 DEF PassedHere, Counted
  <2> QED  BY <2>3, <2>4, <2>5 DEF Listed
<1> QED  BY <1>1, <1>3 DEF NoneLeft

(* The loop over the section's items is over.                              *)
LEMMA LoopEndKeeps ==
    ASSUME TypeInv, Progress,
           section \in Listed \cup {"Ports", "ConfigGet"},
           NEW t \in Section, Rank[t] = Rank[section] + 1, t # "Returned",
           \/ Goto(t) /\ t \notin Listed /\ t \notin {"Ports", "ConfigGet"}
           \/ StartList(t) /\ t \notin {"Ports", "ConfigGet"},
           UNCHANGED <<found, dump, result, environment, lost>>,
           Rank[t] <= 3 => controllerIds = <<>>,
           Rank[t] <= 11 => activeNamespaces = <<>>,
           NoneLeft(t, {})
    PROVE  TypeInv' /\ Progress'
<1>1. /\ TypeOK /\ CursorInv /\ section # "Returned"
      /\ result = "pending" /\ result' = result
  BY DEF TypeInv, CursorInv, Listed, OfControllers
<1>2. Rank[section] \in Int
  <2>1. \A s \in Section : Rank[s] \in Int
    BY RankIsOrder
  <2>2. section \in Section
    BY <1>1 DEF TypeOK
  <2> QED  BY <2>1, <2>2
<1>3. FoundGrows /\ FoundTypes'
  BY <1>1, FoundStays
<1>4. Replied
  BY <1>1 DEF TypeOK, Replied, environment
<1>5. Opens(t)
  BY <1>1, <1>2, <1>3, <1>4 DEF Opens, found
<1> QED  BY <1>1, <1>5, EndKeeps

LEMMA PortsDoneKeeps ==
    ASSUME TypeInv, Progress, PortsDone \/ ConfigGetDone
    PROVE  TypeInv' /\ Progress'
<1>1. CASE PortsDone
  <2>1. /\ section = "Ports" /\ ~ MorePorts /\ Goto("Controllers")
        /\ UNCHANGED <<found, dump, result, environment, lost>>
    BY <1>1 DEF PortsDone
  <2>2. /\ Rank["Controllers"] = Rank[section] + 1
        /\ controllerIds = <<>> /\ activeNamespaces = <<>>
    BY <2>1, RankIsOrder DEF TypeInv, CursorInv
  <2>3. NoneLeft("Controllers", {})
    BY <2>1, <2>2, PortsEnd
  <2>4. "Controllers" \in Section /\ "Controllers" \notin Listed
    BY DEF Section, Listed, OfControllers
  <2> QED  BY <2>1, <2>2, <2>3, <2>4, LoopEndKeeps
<1>2. CASE ConfigGetDone
  <2>1. /\ section = "ConfigGet" /\ ~ MorePorts /\ StartList("GetFeatures")
        /\ UNCHANGED <<found, dump, result, environment, lost>>
    BY <1>2 DEF ConfigGetDone
  <2>2. /\ Rank["GetFeatures"] = Rank[section] + 1
        /\ Rank["GetFeatures"] = 9
        /\ activeNamespaces = <<>>
    BY <2>1, RankIsOrder DEF TypeInv, CursorInv
  <2>3. NoneLeft("GetFeatures", {})
    BY <2>1, <2>2, PortsEnd
  <2>4. "GetFeatures" \in Section
    BY DEF Section
  <2> QED  BY <2>1, <2>2, <2>3, <2>4, LoopEndKeeps
<1> QED  BY <1>1, <1>2

LEMMA ControllersKeeps ==
    ASSUME TypeInv, Progress, Controllers
    PROVE  TypeInv' /\ Progress'
<1> DEFINE e == <<"Controllers", 0>>
<1>1. /\ TypeOK /\ CursorInv
      /\ section = "Controllers" /\ result = "pending"
      /\ UNCHANGED <<numberOfPorts, activeNamespaces, result>>
  BY DEF TypeInv, CursorInv, Controllers
<1>2. PICK k \in Answer :
        /\ Reply(k, TRUE)
        /\ Record(k \in ControllerListUsable, e, Freed(e))
        /\ \/ controllerIds' \in ControllerReads /\ StartList("ControllerInfo")
           \/ UNCHANGED controllerIds /\ Goto("OptionalCommands")
  BY DEF Controllers
<1>3. Replied
  BY <1>1, <1>2, ReplyTypes DEF Replied
<1>4. Adds(e) /\ e \in Expected /\ e = Current
  BY <1>1, <1>2, RecordAdds, PairIsExpected
  DEF Record, Simple, Current, Counted, OfControllers
<1>5. /\ controllerIds = <<>> /\ activeNamespaces = <<>>
      /\ Rank[section] = 3
  BY <1>1, RankIsOrder DEF CursorInv
<1>6. FoundGrows
  BY <1>1, <1>5 DEF FoundGrows
<1>7. FoundTypes'
  BY <1>1, <1>2 DEF FoundTypes, TypeOK
<1>8. ASSUME NEW x \in Expected'
      PROVE  /\ Rank[x[1]] \in 1 .. 16
             /\ Rank[x[1]] < 3 => x \in Expected
             /\ Rank[x[1]] = 3 => x = e
             /\ UNCHANGED controllerIds => Rank[x[1]] # 4
  <2>1. IsEntry(x)'
    BY ExpectedStaysPairs
  <2>2. x[1] \in Section
    BY <2>1 DEF IsEntry, Simple, Section
  <2>3. Rank[x[1]] \in 1 .. 16
    BY <2>2, RankIsOrder
  <2>4. /\ Rank[x[1]] < 3 => x[1] \in {"SubsystemInfo", "Ports"}
        /\ Rank[x[1]] = 3 => x[1] = "Controllers"
        /\ Rank[x[1]] = 4 => x[1] = "ControllerInfo"
    BY <2>2, <2>3, RankIsOrder DEF Section
  <2>5. x[1] \in {"SubsystemInfo", "Ports"} => x \in Expected
    <3>1. PortCount' = PortCount
      BY <1>1 DEF PortCount
    <3>2. /\ x = <<x[1], x[2]>>
          /\ x[1] = "SubsystemInfo" => x[2] = 0
          /\ x[1] = "Ports" => x[2] \in 0 .. PortCount - 1
      BY <2>1, <3>1 DEF IsEntry, Simple
    <3>3. x[1] \in {"SubsystemInfo", "Ports"} => <<x[1], x[2]>> \in Expected
      BY <3>2, PairIsExpected DEF Simple
    <3> QED  BY <3>2, <3>3
  <2>6. x[1] = "Controllers" => x = e
    BY <2>1 DEF IsEntry, Simple
  <2>7. UNCHANGED controllerIds => x[1] # "ControllerInfo"
    BY <1>5, <2>1 DEF IsEntry, Simple, Range
  <2> QED  BY <2>3, <2>4, <2>5, <2>6, <2>7
<1>9. section # "Returned" /\ section \notin OfControllers
      /\ section # "NamespaceIdDescList"
  BY <1>1 DEF OfControllers
<1> HIDE DEF e
<1>10. CASE controllerIds' \in ControllerReads /\ StartList("ControllerInfo")
  <2>1. Rank["ControllerInfo"] = 4
    BY RankIsOrder
  <2>2. Opens("ControllerInfo")
    BY <1>1, <1>3, <1>5, <1>6, <1>7, <1>10, <2>1
    DEF Opens, Section, Listed, OfControllers
  <2>3. NoneLeft("ControllerInfo", {e})
    BY <1>5, <1>8, <2>1 DEF NoneLeft
  <2> QED  BY <1>4, <1>9, <2>2, <2>3, SectionKeeps
<1>11. CASE UNCHANGED controllerIds /\ Goto("OptionalCommands")
  <2>1. Rank["OptionalCommands"] = 5
    BY RankIsOrder
  <2>2. Opens("OptionalCommands")
    BY <1>1, <1>3, <1>5, <1>6, <1>7, <1>11, <2>1
    DEF Opens, Section, Listed, OfControllers
  <2>3. NoneLeft("OptionalCommands", {e})
    BY <1>5, <1>8, <1>11, <2>1 DEF NoneLeft
  <2> QED  BY <1>4, <1>9, <2>2, <2>3, SectionKeeps
<1> QED  BY <1>2, <1>10, <1>11

(* One request and on to the next section.                                 *)
LEMMA AskedKeeps ==
    ASSUME TypeInv, Progress, section \in Simple, Rank[section] >= 5,
           NEW answers, NEW bytes, Ask(answers, TRUE, <<section, 0>>, bytes),
           NEW t \in Section, Rank[t] = Rank[section] + 1, t # "Returned",
           Goto(t), t \notin Listed, t = "ConfigGet" => numberOfPorts # NULL,
           t # "Ports",
           UNCHANGED <<found, result>>
    PROVE  TypeInv' /\ Progress'
<1>1. /\ TypeOK /\ CursorInv /\ section # "Returned"
      /\ result = "pending" /\ result' = result
  BY DEF TypeInv, CursorInv, Simple
<1>2. Rank[section] \in Int
  <2>1. \A s \in Section : Rank[s] \in Int
    BY RankIsOrder
  <2>2. section \in Section
    BY <1>1 DEF TypeOK
  <2> QED  BY <2>1, <2>2
<1>3. FoundGrows /\ FoundTypes'
  BY <1>1, FoundStays
<1> DEFINE e == <<section, 0>>
<1>4. Adds(e) /\ Replied
  <2>1. Ask(answers, TRUE, e, bytes)
    OBVIOUS
  <2> HIDE DEF e
  <2> QED  BY <1>1, <2>1, AskAdds DEF Replied
<1> HIDE DEF e
<1>5. Rank[t] > 5 /\ (Rank[t] <= 11 => activeNamespaces = <<>>)
  BY <1>1, <1>2 DEF CursorInv
<1>6. Opens(t)
  <2>1. Rank[section] < Rank[t] /\ ~ (Rank[t] <= 3)
    BY <1>2, <1>5
  <2>2. t \in {"Ports", "ConfigGet"} => numberOfPorts' # NULL
    BY DEF found
  <2>3. Rank[t] <= 11 => activeNamespaces' = <<>>
    BY <1>5 DEF found
  <2> QED  BY <1>1, <1>3, <1>4, <2>1, <2>2, <2>3 DEF Opens
<1> QED  BY <1>4, <1>6, SingleKeeps DEF e

LEMMA SingleSectionsKeep ==
    ASSUME TypeInv, Progress,
           OptionalCommands \/ ControllerHSPoll \/ CommonNamespace
    PROVE  TypeInv' /\ Progress'
<1>1. CASE OptionalCommands
  <2>1. /\ section = "OptionalCommands"
        /\ Ask(StructureUsable, TRUE, <<section, 0>>, Freed(<<section, 0>>))
        /\ Goto("ControllerHSPoll") /\ UNCHANGED <<found, result>>
    BY <1>1 DEF OptionalCommands
  <2>2. /\ section \in Simple /\ Rank[section] >= 5
        /\ Rank["ControllerHSPoll"] = Rank[section] + 1
        /\ "ControllerHSPoll" \in Section
        /\ "ControllerHSPoll" \notin Listed
    BY <2>1, RankIsOrder DEF Simple, Section, Listed, OfControllers
  <2> QED  BY <2>1, <2>2, AskedKeeps
<1>2. CASE ControllerHSPoll
  <2>1. /\ section = "ControllerHSPoll"
        /\ Ask(ControllerHSUsable, TRUE, <<section, 0>>, Kept(<<section, 0>>))
        /\ Goto("SubsystemHSPoll") /\ UNCHANGED <<found, result>>
    BY <1>2 DEF ControllerHSPoll
  <2>2. /\ section \in Simple /\ Rank[section] >= 5
        /\ Rank["SubsystemHSPoll"] = Rank[section] + 1
        /\ "SubsystemHSPoll" \in Section
        /\ "SubsystemHSPoll" \notin Listed
    BY <2>1, RankIsOrder DEF Simple, Section, Listed, OfControllers
  <2> QED  BY <2>1, <2>2, AskedKeeps
<1>3. CASE CommonNamespace
  <2>1. /\ section = "CommonNamespaceCapablity"
        /\ Ask(IdentifyUsable, TRUE, <<section, 0>>, Kept(<<section, 0>>))
        /\ Goto("WriteDump") /\ UNCHANGED <<found, result>>
    BY <1>3 DEF CommonNamespace
  <2>2. /\ section \in Simple /\ Rank[section] >= 5
        /\ Rank["WriteDump"] = Rank[section] + 1
        /\ "WriteDump" \in Section
        /\ "WriteDump" \notin Listed
    BY <2>1, RankIsOrder DEF Simple, Section, Listed, OfControllers
  <2> QED  BY <2>1, <2>2, AskedKeeps
<1> QED  BY <1>1, <1>2, <1>3

(* Without a number of ports ConfigGet is left out: it has no entries.     *)
LEMMA SubsystemHSPollKeeps ==
    ASSUME TypeInv, Progress, SubsystemHSPoll
    PROVE  TypeInv' /\ Progress'
<1>1. /\ TypeOK /\ CursorInv
      /\ section = "SubsystemHSPoll" /\ result = "pending"
      /\ Ask(SubsystemHSUsable, TRUE, <<section, 0>>, Kept(<<section, 0>>))
      /\ UNCHANGED <<found, result>>
  BY DEF TypeInv, CursorInv, SubsystemHSPoll
<1>2. /\ Rank[section] = 7 /\ Rank["ConfigGet"] = 8
      /\ Rank["GetFeatures"] = 9 /\ section \in Simple
  BY <1>1, RankIsOrder DEF Simple
<1>3. CASE numberOfPorts # NULL
  <2>1. Goto("ConfigGet")
    BY <1>3 DEF SubsystemHSPoll
  <2>2. "ConfigGet" \in Section /\ "ConfigGet" \notin Listed
    BY DEF Section, Listed, OfControllers
  <2>3. Rank[section] >= 5 /\ Rank["ConfigGet"] = Rank[section] + 1
    BY <1>2
  <2>4. /\ "ConfigGet" # "Returned" /\ "ConfigGet" # "Ports"
        /\ section \in Simple
    BY <1>2
  <2> QED  BY <1>1, <1>3, <2>1, <2>2, <2>3, <2>4, AskedKeeps
<1>4. CASE numberOfPorts = NULL
  <2> DEFINE e == <<"SubsystemHSPoll", 0>>
  <2>1. StartList("GetFeatures")
    BY <1>4 DEF SubsystemHSPoll
  <2>2. e \in Expected /\ e = Current
    BY <1>1, PairIsExpected DEF Simple, Current, Counted, OfControllers
  <2>3. Adds(e) /\ Replied
    <3>1. Ask(SubsystemHSUsable, TRUE, e, Kept(e))
      BY <1>1
    <3> HIDE DEF e
    <3> QED  BY <1>1, <3>1, AskAdds DEF Replied
  <2>4. Expected' = Expected /\ FoundGrows /\ FoundTypes'
    BY <1>1, ExpectedSame, FoundStays
  <2>5. ASSUME NEW x \in Expected
        PROVE  /\ Rank[x[1]] \in 1 .. 16
               /\ Rank[x[1]] = 7 => x = e
               /\ Rank[x[1]] # 8
    <3>1. IsEntry(x)
      BY ExpectedIsPairs
    <3>2. x[1] \in Section
      BY <3>1 DEF IsEntry, Simple, Section
    <3>3. /\ Rank[x[1]] \in 1 .. 16
          /\ Rank[x[1]] = 7 => x[1] = "SubsystemHSPoll"
          /\ Rank[x[1]] = 8 => x[1] = "ConfigGet"
      BY <3>2, RankIsOrder DEF Section
    <3>4. x[1] = "SubsystemHSPoll" => x = e
      BY <3>1 DEF IsEntry, Simple
    <3>5. x[1] # "ConfigGet"
      BY <1>4, <3>1 DEF IsEntry, Simple, PortCount
    <3> QED  BY <3>3, <3>4, <3>5
  <2> HIDE DEF e
  <2>6. NoneLeft("GetFeatures", {e})
    BY <1>2, <2>4, <2>5 DEF NoneLeft
  <2>7. section # "Returned" /\ section \notin OfControllers
        /\ section # "NamespaceIdDescList"
    BY <1>1 DEF OfControllers
  <2>8. activeNamespaces' = <<>>
    BY <1>1, <1>2 DEF CursorInv, found
  <2>9. Opens("GetFeatures")
    BY <1>1, <1>2, <2>1, <2>3, <2>4, <2>8 DEF Opens, Section
  <2> QED  BY <2>2, <2>3, <2>6, <2>7, <2>9, SectionKeeps
<1> QED  BY <1>3, <1>4

(* One request of a loop.                                                  *)
LEMMA LoopAskKeeps ==
    ASSUME TypeInv, Progress, section \in Listed,
           NEW answers, NEW has \in BOOLEAN, NEW bytes, NEW e \in Expected,
           e = Current, Ask(answers, has, e, bytes),
           NextItem, UNCHANGED <<found, result>>,
           section \in OfControllers => item \in DOMAIN controllerIds,
           section = "NamespaceIdDescList" => item \in DOMAIN activeNamespaces
    PROVE  TypeInv' /\ Progress'
<1>1. TypeOK
  BY DEF TypeInv
<1>2. Adds(e) /\ Replied
  BY <1>1, AskAdds DEF Replied
<1> QED  BY <1>2, ItemKeeps

LEMMA ControllerInfoKeeps ==
    ASSUME TypeInv, Progress, ControllerInfo
    PROVE  TypeInv' /\ Progress'
<1>1. /\ TypeOK /\ CursorInv /\ section = "ControllerInfo"
      /\ section \in Listed /\ section \in OfControllers
      /\ item \in Nat /\ item >= 1
  BY DEF TypeInv, CursorInv, ControllerInfo, Listed, OfControllers, TypeOK
<1>2. CASE EndOfList(controllerIds, Goto("OptionalCommands"))
  <2>1. /\ item > Len(controllerIds) /\ Goto("OptionalCommands")
        /\ UNCHANGED <<found, dump, result, environment, lost>>
    BY <1>2 DEF EndOfList
  <2>2. /\ Rank["OptionalCommands"] = Rank[section] + 1
        /\ Rank["OptionalCommands"] = 5
        /\ activeNamespaces = <<>>
    BY <1>1, RankIsOrder DEF CursorInv
  <2>3. NoneLeft("OptionalCommands", {})
    BY <1>1, <2>1, <2>2, ListEnds
  <2>4. "OptionalCommands" \in Section /\ "OptionalCommands" \notin Listed
    BY DEF Section, Listed, OfControllers
  <2> QED  BY <1>1, <2>1, <2>2, <2>3, <2>4, LoopEndKeeps
<1>3. CASE /\ item <= Len(controllerIds)
           /\ LET id == controllerIds[item]
                  asked == RequestedId(id)
              IN  Ask(StructureUsable, asked \in Range(DriveControllers),
                      <<"ControllerInfo", id>>,
                      Freed(<<"ControllerInfo", asked>>))
           /\ NextItem
           /\ UNCHANGED <<found, result>>
  <2> DEFINE e == <<"ControllerInfo", controllerIds[item]>>
             asked == RequestedId(controllerIds[item])
             has == asked \in Range(DriveControllers)
  <2>1. item \in DOMAIN controllerIds
        /\ controllerIds[item] \in Range(controllerIds)
    BY <1>1, <1>3, ListTypes, InList
  <2>2. e \in Expected /\ e = Current
    BY <1>1, <2>1, PairIsExpected DEF Current, Counted, OfControllers
  <2>3. has \in BOOLEAN
    OBVIOUS
  <2>4. Ask(StructureUsable, has, e, Freed(<<"ControllerInfo", asked>>))
    BY <1>3
  <2>5. section # "NamespaceIdDescList"
    BY <1>1
  <2>6. NextItem /\ UNCHANGED <<found, result>>
    BY <1>3
  <2> HIDE DEF e, has
  <2> QED  BY <1>1, <2>1, <2>2, <2>3, <2>4, <2>5, <2>6, LoopAskKeeps
<1> QED  BY <1>2, <1>3 DEF ControllerInfo

LEMMA IdentifyControllersKeeps ==
    ASSUME TypeInv, Progress, IdentifyControllers
    PROVE  TypeInv' /\ Progress'
<1>1. /\ TypeOK /\ CursorInv /\ section = "IdentifyControllers"
      /\ section \in Listed /\ section \in OfControllers
      /\ item \in Nat /\ item >= 1
  BY DEF TypeInv, CursorInv, IdentifyControllers, Listed, OfControllers, TypeOK
<1>2. CASE EndOfList(controllerIds, Goto("CommonNamespaceCapablity"))
  <2>1. /\ item > Len(controllerIds) /\ Goto("CommonNamespaceCapablity")
        /\ UNCHANGED <<found, dump, result, environment, lost>>
    BY <1>2 DEF EndOfList
  <2>2. /\ Rank["CommonNamespaceCapablity"] = Rank[section] + 1
        /\ Rank["CommonNamespaceCapablity"] = 14
    BY <1>1, RankIsOrder
  <2>3. NoneLeft("CommonNamespaceCapablity", {})
    BY <1>1, <2>1, <2>2, ListEnds
  <2>4. /\ "CommonNamespaceCapablity" \in Section
        /\ "CommonNamespaceCapablity" \notin Listed
    BY DEF Section, Listed, OfControllers
  <2> QED  BY <1>1, <2>1, <2>2, <2>3, <2>4, LoopEndKeeps
<1>3. CASE /\ item <= Len(controllerIds)
           /\ LET cntrlId == controllerIds[item]
                  controller == <<"IdentifyControllers", cntrlId>>
              IN  Ask(IdentifyUsable, cntrlId \in Range(DriveControllers),
                      controller, Kept(controller))
           /\ NextItem
           /\ UNCHANGED <<found, result>>
  <2> DEFINE e == <<"IdentifyControllers", controllerIds[item]>>
             has == controllerIds[item] \in Range(DriveControllers)
  <2>1. item \in DOMAIN controllerIds
        /\ controllerIds[item] \in Range(controllerIds)
    BY <1>1, <1>3, ListTypes, InList
  <2>2. e \in Expected /\ e = Current
    BY <1>1, <2>1, PairIsExpected DEF Current, Counted, OfControllers
  <2>3. has \in BOOLEAN
    OBVIOUS
  <2>4. Ask(IdentifyUsable, has, e, Kept(e))
    BY <1>3
  <2>5. section # "NamespaceIdDescList"
    BY <1>1
  <2>6. NextItem /\ UNCHANGED <<found, result>>
    BY <1>3
  <2> HIDE DEF e, has
  <2> QED  BY <1>1, <2>1, <2>2, <2>3, <2>4, <2>5, <2>6, LoopAskKeeps
<1> QED  BY <1>2, <1>3 DEF IdentifyControllers

LEMMA NamespaceIdDescListKeeps ==
    ASSUME TypeInv, Progress, NamespaceIdDescList
    PROVE  TypeInv' /\ Progress'
<1>1. /\ TypeOK /\ CursorInv /\ section = "NamespaceIdDescList"
      /\ section \in Listed /\ section \notin OfControllers
      /\ item \in Nat /\ item >= 1
  BY DEF TypeInv, CursorInv, NamespaceIdDescList, Listed, OfControllers, TypeOK
<1>2. CASE EndOfList(activeNamespaces, StartList("IdentifyControllers"))
  <2>1. /\ item > Len(activeNamespaces) /\ StartList("IdentifyControllers")
        /\ UNCHANGED <<found, dump, result, environment, lost>>
    BY <1>2 DEF EndOfList
  <2>2. /\ Rank["IdentifyControllers"] = Rank[section] + 1
        /\ Rank["IdentifyControllers"] = 13
    BY <1>1, RankIsOrder
  <2>3. NoneLeft("IdentifyControllers", {})
    BY <1>1, <2>1, <2>2, ListEnds
  <2>4. "IdentifyControllers" \in Section
    BY DEF Section
  <2> QED  BY <1>1, <2>1, <2>2, <2>3, <2>4, LoopEndKeeps
<1>3. CASE /\ item <= Len(activeNamespaces)
           /\ LET nsId == activeNamespaces[item]
                  entry == <<"NamespaceIdDescList", nsId>>
              IN  Ask(IdentifyUsable, nsId \in Range(DriveNamespaces),
                      entry, Kept(entry))
           /\ NextItem
           /\ UNCHANGED <<found, result>>
  <2> DEFINE e == <<"NamespaceIdDescList", activeNamespaces[item]>>
             has == activeNamespaces[item] \in Range(DriveNamespaces)
  <2>1. item \in DOMAIN activeNamespaces
        /\ activeNamespaces[item] \in Range(activeNamespaces)
    BY <1>1, <1>3, ListTypes, InList
  <2>2. e \in Expected /\ e = Current
    BY <1>1, <2>1, PairIsExpected DEF Current, Counted, OfControllers
  <2>3. has \in BOOLEAN
    OBVIOUS
  <2>4. Ask(IdentifyUsable, has, e, Kept(e))
    BY <1>3
  <2>6. NextItem /\ UNCHANGED <<found, result>>
    BY <1>3
  <2> HIDE DEF e, has
  <2> QED  BY <1>1, <2>1, <2>2, <2>3, <2>4, <2>6, LoopAskKeeps
<1> QED  BY <1>2, <1>3 DEF NamespaceIdDescList

LEMMA GetFeaturesKeeps ==
    ASSUME TypeInv, Progress, GetFeatures
    PROVE  TypeInv' /\ Progress'
<1>1. /\ TypeOK /\ CursorInv /\ section = "GetFeatures"
      /\ section \in Listed /\ section \notin OfControllers
      /\ item \in Nat /\ item >= 1
  BY DEF TypeInv, CursorInv, GetFeatures, Listed, OfControllers, TypeOK
<1>2. CASE EndOfList(Feature, StartList("GetLogPage"))
  <2>1. /\ item > Len(Feature) /\ StartList("GetLogPage")
        /\ UNCHANGED <<found, dump, result, environment, lost>>
    BY <1>2 DEF EndOfList
  <2>2. /\ Rank["GetLogPage"] = Rank[section] + 1
        /\ Rank["GetLogPage"] = 10
        /\ activeNamespaces = <<>>
    BY <1>1, RankIsOrder DEF CursorInv
  <2>3. NoneLeft("GetLogPage", {})
    BY <1>1, <2>1, <2>2, ListEnds
  <2>4. "GetLogPage" \in Section
    BY DEF Section
  <2> QED  BY <1>1, <2>1, <2>2, <2>3, <2>4, LoopEndKeeps
<1>3. CASE /\ item <= Len(Feature)
           /\ Ask(FeatureUsable, TRUE, <<"GetFeatures", item>>,
                  Kept(<<"GetFeatures", Feature[item][2]>>))
           /\ NextItem
           /\ UNCHANGED <<found, result>>
  <2> DEFINE e == <<"GetFeatures", item>>
  <2>1. item \in 1 .. 10
    BY <1>1, <1>3, ConstantLists
  <2>2. e \in Expected /\ e = Current
    BY <1>1, <2>1, PairIsExpected DEF Current, Counted
  <2>4. PICK bytes : Ask(FeatureUsable, TRUE, e, bytes)
    BY <1>3
  <2>5. section # "NamespaceIdDescList"
    BY <1>1
  <2>6. NextItem /\ UNCHANGED <<found, result>>
    BY <1>3
  <2> HIDE DEF e
  <2> QED  BY <1>1, <2>2, <2>4, <2>5, <2>6, LoopAskKeeps
<1> QED  BY <1>2, <1>3 DEF GetFeatures
(* A step that keeps the cursor's section and item, and all entries.       *)
LEMMA WaitKeeps ==
    ASSUME TypeInv, Progress,
           UNCHANGED <<section, item, found, dump, lost, result>>,
           second' \in BOOLEAN, present' \in BOOLEAN, faults' \in 0 .. MaxFaults
    PROVE  TypeInv' /\ Progress'
<1>1. TypeOK /\ CursorInv
  BY DEF TypeInv
<1>2. FoundGrows /\ FoundTypes'
  BY <1>1, FoundStays
<1>3. {} \in SUBSET Expected /\ Accounted' = Accounted \cup {}
  BY DEF Accounted
<1>4. /\ section' \in Section /\ item' \in Nat
      /\ result' \in {"pending", "success", "fileSystem", "exception"}
  BY <1>1 DEF TypeOK
<1>5. TypeOK'
  BY <1>1, <1>2, <1>3, <1>4, TypesHold DEF FoundTypes
<1>6. CursorInv'
  BY <1>1 DEF CursorInv, found
<1>7. Progress'
  BY NothingStep
<1> QED  BY <1>5, <1>6, <1>7 DEF TypeInv

LEMMA ConfigGetKeeps ==
    ASSUME TypeInv, Progress, ConfigGet
    PROVE  TypeInv' /\ Progress'
<1> DEFINE e == <<"ConfigGet", item>>
<1>1. /\ TypeOK /\ CursorInv
      /\ section = "ConfigGet" /\ MorePorts
      /\ UNCHANGED <<found, result>>
      /\ (item <= DrivePorts) \in BOOLEAN
  BY DEF TypeInv, CursorInv, ConfigGet
<1>2. PICK k \in Answer :
        /\ Reply(k, item <= DrivePorts)
        /\ \/ Lose(e) /\ NextPort
           \/ Keep(e, Kept(e)) /\ NextPort
           \/ second' = TRUE /\ UNCHANGED <<section, item, dump, lost>>
  BY DEF ConfigGet
<1>3. Replied
  BY <1>1, <1>2, ReplyTypes DEF Replied
<1>4. item \in 0 .. PortCount - 1
  BY <1>1, PortNumbers DEF CursorInv, MorePorts, TypeOK
<1>5. e \in Expected /\ e = Current
  BY <1>1, <1>4, PairIsExpected DEF Current, Counted
<1> HIDE DEF e
<1>6. CASE (Lose(e) \/ Keep(e, Kept(e))) /\ NextPort
  <2>1. Adds(e)
    BY <1>6, RecordAdds
  <2> QED  BY <1>1, <1>3, <1>5, <1>6, <2>1, PortKeeps
<1>7. CASE second' = TRUE /\ UNCHANGED <<section, item, dump, lost>>
  <2>1. second' \in BOOLEAN
    BY <1>7
  <2>2. present' \in BOOLEAN /\ faults' \in 0 .. MaxFaults
    BY <1>1, <1>3 DEF Replied, TypeOK
  <2>3. UNCHANGED <<section, item, found, dump, lost, result>>
    BY <1>1, <1>7
  <2> QED  BY <2>1, <2>2, <2>3, WaitKeeps
<1> QED  BY <1>2, <1>6, <1>7

LEMMA GetLogPageKeeps ==
    ASSUME TypeInv, Progress, GetLogPage
    PROVE  TypeInv' /\ Progress'
<1>1. /\ TypeOK /\ CursorInv /\ section = "GetLogPage"
      /\ section \in Listed /\ section \notin OfControllers
      /\ item \in Nat /\ item >= 1
  BY DEF TypeInv, CursorInv, GetLogPage, Listed, OfControllers, TypeOK
<1>2. CASE EndOfList(LogPage, Goto("ActiveNamespaces"))
  <2>1. /\ item > Len(LogPage) /\ Goto("ActiveNamespaces")
        /\ UNCHANGED <<found, dump, result, environment, lost>>
    BY <1>2 DEF EndOfList
  <2>2. /\ Rank["ActiveNamespaces"] = Rank[section] + 1
        /\ Rank["ActiveNamespaces"] = 11
        /\ activeNamespaces = <<>>
    BY <1>1, RankIsOrder DEF CursorInv
  <2>3. NoneLeft("ActiveNamespaces", {})
    BY <1>1, <2>1, <2>2, ListEnds
  <2>4. "ActiveNamespaces" \in Section /\ "ActiveNamespaces" \notin Listed
    BY DEF Section, Listed, OfControllers
  <2> QED  BY <1>1, <2>1, <2>2, <2>3, <2>4, LoopEndKeeps
<1>3. CASE /\ item <= Len(LogPage)
           /\ LET page == <<"GetLogPage", item>>
                  half == LogPage[item] = "CommandSupported" /\ ~second
              IN  \E k \in Answer :
                    /\ Reply(k, TRUE)
                    /\ \/ k \notin LogPageUsable /\ Lose(page) /\ NextItem
                       \/ /\ k \in LogPageUsable /\ ~half
                          /\ Keep(page, Kept(page)) /\ NextItem
                       \/ /\ k \in LogPageUsable /\ half
                          /\ second' = TRUE
                          /\ UNCHANGED <<section, item, dump, lost>>
           /\ UNCHANGED <<found, result>>
  <2> DEFINE e == <<"GetLogPage", item>>
  <2>1. item \in 1 .. 14
    BY <1>1, <1>3, ConstantLists
  <2>2. e \in Expected /\ e = Current
    BY <1>1, <2>1, PairIsExpected DEF Current, Counted
  <2>3. PICK k \in Answer :
          /\ Reply(k, TRUE)
          /\ \/ Lose(e) /\ NextItem
             \/ Keep(e, Kept(e)) /\ NextItem
             \/ second' = TRUE /\ UNCHANGED <<section, item, dump, lost>>
    BY <1>3
  <2>4. Replied
    BY <1>1, <2>3, ReplyTypes DEF Replied
  <2>5. section # "NamespaceIdDescList" /\ UNCHANGED <<found, result>>
    BY <1>1, <1>3
  <2> HIDE DEF e
  <2>6. CASE (Lose(e) \/ Keep(e, Kept(e))) /\ NextItem
    <3>1. Adds(e)
      BY <2>6, RecordAdds
    <3> QED  BY <1>1, <2>2, <2>4, <2>5, <2>6, <3>1, ItemKeeps
  <2>7. CASE second' = TRUE /\ UNCHANGED <<section, item, dump, lost>>
    <3>1. second' \in BOOLEAN
      BY <2>7
    <3>2. present' \in BOOLEAN /\ faults' \in 0 .. MaxFaults
      BY <1>1, <2>4 DEF Replied, TypeOK
    <3>3. UNCHANGED <<section, item, found, dump, lost, result>>
      BY <2>5, <2>7
    <3> QED  BY <3>1, <3>2, <3>3, WaitKeeps
  <2> QED  BY <2>3, <2>6, <2>7
<1> QED  BY <1>2, <1>3 DEF GetLogPage

(* What the list becomes.                                                  *)
LEMMA ListRead ==
    ASSUME ActiveNamespaces
    PROVE  /\ activeNamespaces' \in Seq(Nat \ {0})
           /\ AreTheDrives(activeNamespaces')
<1>1. PICK k \in Answer :
          activeNamespaces' =
              IF k \in IdentifyUsable
              THEN getIdentifyActiveNamespaceIdList(ListBytes(k)) ELSE <<>>
  BY DEF ActiveNamespaces
<1>2. CASE k \in IdentifyUsable
  BY <1>1, <1>2, ListIsTheDrives
<1>3. CASE k \notin IdentifyUsable
  <2>1. activeNamespaces' = <<>>
    BY <1>1, <1>3
  <2>2. <<>> \in Seq(Nat \ {0}) /\ Len(<<>>) = 0
    BY EmptySeq
  <2>3. Room \in Nat
    BY DriveIds, CollectAssumption DEF Room
  <2>4. AreTheDrives(<<>>)
    BY <2>2, <2>3 DEF AreTheDrives
  <2> QED  BY <2>1, <2>2, <2>4
<1> QED  BY <1>2, <1>3

LEMMA ActiveNamespacesKeeps ==
    ASSUME TypeInv, Progress, ActiveNamespaces
    PROVE  TypeInv' /\ Progress'
<1> DEFINE e == <<"ActiveNamespaces", 0>>
<1>1. /\ TypeOK /\ CursorInv
      /\ section = "ActiveNamespaces" /\ result = "pending"
      /\ UNCHANGED <<numberOfPorts, controllerIds, result>>
      /\ StartList("NamespaceIdDescList")
  BY DEF TypeInv, CursorInv, ActiveNamespaces
<1>2. PICK k \in Answer, bytes \in {Kept(e), Unanswered} :
        Reply(k, TRUE) /\ Keep(e, bytes)
  BY DEF ActiveNamespaces
<1>3. Replied
  BY <1>1, <1>2, ReplyTypes DEF Replied
<1>4. Adds(e) /\ e \in Expected /\ e = Current
  BY <1>1, <1>2, RecordAdds, PairIsExpected
  DEF Simple, Current, Counted, OfControllers
<1>5. activeNamespaces = <<>> /\ Rank[section] = 11
  BY <1>1, RankIsOrder DEF CursorInv
<1>6. FoundGrows
  BY <1>1, <1>5 DEF FoundGrows
<1>7. FoundTypes'
  BY <1>1, ListRead DEF FoundTypes, TypeOK
<1>8. ASSUME NEW x \in Expected'
      PROVE  /\ Rank[x[1]] \in 1 .. 16
             /\ Rank[x[1]] < 11 => x \in Expected
             /\ Rank[x[1]] = 11 => x = e
  <2>1. IsEntry(x)'
    BY ExpectedStaysPairs
  <2>2. x[1] \in Section
    BY <2>1 DEF IsEntry, Simple, Section
  <2>3. Rank[x[1]] \in 1 .. 16
    BY <2>2, RankIsOrder
  <2>4. Rank[x[1]] < 11 => x[1] # "NamespaceIdDescList"
    BY RankIsOrder
  <2>5. x[1] # "NamespaceIdDescList" => x \in Expected
    <3>1. PortCount' = PortCount /\ controllerIds' = controllerIds
      BY <1>1 DEF PortCount
    <3> DEFINE s == x[1]
               v == x[2]
    <3>2. /\ x = <<s, v>>
          /\ \/ s \in Simple /\ v = 0
             \/ s \in {"Ports", "ConfigGet"} /\ v \in 0 .. PortCount - 1
             \/ /\ s \in {"ControllerInfo", "IdentifyControllers"}
                /\ v \in Range(controllerIds)
             \/ s = "GetFeatures" /\ v \in 1 .. 10
             \/ s = "GetLogPage" /\ v \in 1 .. 14
             \/ s = "NamespaceIdDescList"
      BY <2>1, <3>1 DEF IsEntry
    <3> HIDE DEF s, v
    <3>3. s # "NamespaceIdDescList" => <<s, v>> \in Expected
      BY <3>2, PairIsExpected
    <3> QED  BY <3>2, <3>3 DEF s
  <2>6. Rank[x[1]] = 11 => x[1] = "ActiveNamespaces"
    BY <2>2, RankIsOrder DEF Section
  <2>7. x[1] = "ActiveNamespaces" => x = e
    BY <2>1 DEF IsEntry, Simple
  <2> QED  BY <2>3, <2>4, <2>5, <2>6, <2>7
<1>9. section # "Returned" /\ section \notin OfControllers
      /\ section # "NamespaceIdDescList"
  BY <1>1 DEF OfControllers
<1> HIDE DEF e
<1>10. Rank["NamespaceIdDescList"] = 12
  BY RankIsOrder
<1>11. Opens("NamespaceIdDescList")
  BY <1>1, <1>3, <1>5, <1>6, <1>7, <1>10 DEF Opens, Section
<1>12. NoneLeft("NamespaceIdDescList", {e})
  BY <1>5, <1>8, <1>10 DEF NoneLeft
<1> QED  BY <1>4, <1>9, <1>11, <1>12, SectionKeeps

LEMMA WriteDumpKeeps ==
    ASSUME TypeInv, Progress, WriteDump
    PROVE  TypeInv' /\ Progress'
<1>1. /\ TypeOK /\ CursorInv
      /\ section = "WriteDump" /\ result' \in {"success", "fileSystem"}
      /\ Goto("Returned")
      /\ UNCHANGED <<found, dump, environment, lost>>
  BY DEF TypeInv, WriteDump
<1>2. Rank[section] = 15 /\ Rank["Returned"] = 16
  BY <1>1, RankIsOrder
<1>3. Expected' = Expected /\ FoundGrows /\ FoundTypes'
  BY <1>1, ExpectedSame, FoundStays
<1>4. Replied
  BY <1>1 DEF TypeOK, Replied, environment
<1>5. Opens("Returned")
  BY <1>1, <1>2, <1>3, <1>4 DEF Opens, Section, Listed, OfControllers
<1>6. NoneLeft("Returned", {})
  <2>1. ASSUME NEW x \in Expected, Rank["Returned"] = Rank[section] + 1,
               Rank[section] <= Rank[x[1]], Rank[x[1]] < Rank["Returned"]
        PROVE  FALSE
    <3>1. x[1] = section
      BY <1>1, <1>3, <2>1, RankNext
    <3> QED  BY <1>1, <3>1, ExpectedIsPairs DEF IsEntry, Simple
  <2> QED  BY <1>2, <1>3, <2>1 DEF NoneLeft
<1> QED  BY <1>1, <1>5, <1>6, EndKeeps
-----------------------------------------------------------------------------
(* The inductive invariant.                                                *)
LEMMA CallStarts == Init => TypeInv /\ Progress
<1> SUFFICES ASSUME Init PROVE TypeInv /\ Progress
  OBVIOUS
<1>1. /\ section = "SubsystemInfo" /\ item = 0 /\ second = FALSE
      /\ numberOfPorts = NULL /\ controllerIds = <<>>
      /\ activeNamespaces = <<>> /\ DOMAIN dump = {}
      /\ result = "pending" /\ present = TRUE /\ lost = {} /\ faults = 0
  BY DEF Init
<1>2. TypeOK
  <2>1. <<>> \in Seq(Nat \ {0})
    BY EmptySeq
  <2>2. 0 \in 0 .. MaxFaults
    BY CollectAssumption
  <2>3. second \in BOOLEAN /\ present \in BOOLEAN
    BY <1>1
  <2> QED  BY <1>1, <2>1, <2>2, <2>3 DEF TypeOK, Section
<1>3. CursorInv
  BY <1>1 DEF CursorInv
<1>4. Accounted = {} /\ DOMAIN dump \cap lost = {}
  BY <1>1 DEF Accounted
<1>5. ASSUME NEW e \in Expected PROVE ~ Passed(e)
  <2>1. IsEntry(e)
    BY ExpectedIsPairs
  <2>2. e[1] \in Section
    BY <2>1 DEF IsEntry, Simple, Section
  <2>3. Rank[e[1]] \in 1 .. 16 /\ Rank[section] = 1
    BY <1>1, <2>2, RankIsOrder
  <2>4. e[1] = section => ~ PassedHere(e)
    BY <1>1 DEF PassedHere, Counted, OfControllers
  <2> QED  BY <2>3, <2>4 DEF Passed
<1>6. Progress
  BY <1>4, <1>5 DEF Progress, AccountedWasPassed, PassedIsAccounted, NoHalfEntry
<1> QED  BY <1>2, <1>3, <1>6 DEF TypeInv

LEMMA CallSteps ==
    TypeInv /\ Progress /\ [Next]_vars => TypeInv' /\ Progress'
<1> SUFFICES ASSUME TypeInv, Progress, [Next]_vars
             PROVE  TypeInv' /\ Progress'
  OBVIOUS
<1>1. CASE SubsystemInfo
  BY <1>1, SubsystemInfoKeeps
<1>2. CASE PortInfo
  BY <1>2, PortInfoKeeps
<1>3. CASE PortsDone \/ ConfigGetDone
  BY <1>3, PortsDoneKeeps
<1>4. CASE Controllers
  BY <1>4, ControllersKeeps
<1>5. CASE ControllerInfo
  BY <1>5, ControllerInfoKeeps
<1>6. CASE OptionalCommands \/ ControllerHSPoll \/ CommonNamespace
  BY <1>6, SingleSectionsKeep
<1>7. CASE SubsystemHSPoll
  BY <1>7, SubsystemHSPollKeeps
<1>8. CASE ConfigGet
  BY <1>8, ConfigGetKeeps
<1>9. CASE GetFeatures
  BY <1>9, GetFeaturesKeeps
<1>10. CASE GetLogPage
  BY <1>10, GetLogPageKeeps
<1>11. CASE ActiveNamespaces
  BY <1>11, ActiveNamespacesKeeps
<1>12. CASE NamespaceIdDescList
  BY <1>12, NamespaceIdDescListKeeps
<1>13. CASE IdentifyControllers
  BY <1>13, IdentifyControllersKeeps
<1>14. CASE WriteDump
  BY <1>14, WriteDumpKeeps
<1>15. CASE Unplugged
  <2>1. /\ UNCHANGED <<section, item, found, dump, lost, result>>
        /\ second' = second /\ faults' = faults /\ present' = FALSE
    BY <1>15 DEF Unplugged, cursor
  <2>2. second \in BOOLEAN /\ faults \in 0 .. MaxFaults
    BY DEF TypeInv, TypeOK
  <2>3. /\ second' \in BOOLEAN /\ present' \in BOOLEAN
        /\ faults' \in 0 .. MaxFaults
    BY <2>1, <2>2
  <2> QED  BY <2>1, <2>3, WaitKeeps
<1>16. CASE UNCHANGED vars
  <2>1. /\ UNCHANGED <<section, item, found, dump, lost, result>>
        /\ second' = second /\ faults' = faults /\ present' = present
    BY <1>16 DEF vars, cursor, environment
  <2>2. second \in BOOLEAN /\ present \in BOOLEAN
    BY DEF TypeInv, TypeOK
  <2>3. faults' \in 0 .. MaxFaults
    BY <2>1 DEF TypeInv, TypeOK
  <2>4. second' \in BOOLEAN /\ present' \in BOOLEAN
    BY <2>1, <2>2
  <2> QED  BY <2>1, <2>3, <2>4, WaitKeeps
<1> QED  BY <1>1, <1>2, <1>3, <1>4, <1>5, <1>6, <1>7, <1>8, <1>9, <1>10,
            <1>11, <1>12, <1>13, <1>14, <1>15, <1>16 DEF Next, Collect

LEMMA CallInvariant == Spec => [](TypeInv /\ Progress)
BY CallStarts, CallSteps, PTL DEF Spec

(* The variables keep their types, and an entry of the dump, or a lost     *)
(* one, is of a port, controller or namespace that was read: every index   *)
(* into the lists, and every port number, is one there is                  *)
(* (collectDriveLog).                                                      *)
THEOREM CallTypeCorrect == Spec => []TypeOK
<1>1. TypeInv /\ Progress => TypeOK
  BY DEF TypeInv
<1> QED  BY CallInvariant, <1>1, PTL

(* A dump that is written accounts for every command, for any number of    *)
(* ports, controllers and namespaces, also those read by mistake           *)
(* (collectDriveLog).                                                      *)
THEOREM DumpIsAlwaysComplete == Spec => []DumpIsComplete
<1>1. TypeInv /\ Progress => DumpIsComplete
  <2> SUFFICES ASSUME TypeInv, Progress, result \in {"success", "fileSystem"}
               PROVE  Expected = DOMAIN dump \cup lost
    BY DEF DumpIsComplete
  <2>1. TypeOK /\ section = "Returned" /\ result # "exception"
    BY DEF TypeInv, CursorInv
  <2>2. ASSUME NEW e \in Expected PROVE Passed(e)
    <3>1. e[1] \in Section \ {"Returned"}
      BY <2>2, ExpectedIsPairs DEF IsEntry, Simple, Section
    <3>2. Rank[e[1]] \in 1 .. 16 /\ Rank[e[1]] # 16 /\ Rank[section] = 16
      BY <2>1, <3>1, RankIsOrder DEF Section
    <3> QED  BY <3>2 DEF Passed
  <2>3. Expected \subseteq DOMAIN dump \cup lost
    BY <2>1, <2>2 DEF Progress, PassedIsAccounted, Accounted
  <2>4. DOMAIN dump \cup lost \subseteq Expected
    BY <2>1 DEF TypeOK
  <2> QED  BY <2>3, <2>4
<1> QED  BY CallInvariant, <1>1, PTL

(* A pair of requests of which one fails leaves no entry (ConfigGet, the   *)
(* CommandSupported page), whatever the number of failures.                *)
THEOREM NoEntryIsHalf == Spec => []NoHalfEntry
<1>1. TypeInv /\ Progress => NoHalfEntry
  BY DEF Progress
<1> QED  BY CallInvariant, <1>1, PTL

-----------------------------------------------------------------------------
(* A call that is over changes nothing.                                    *)
LEMMA ReturnedIsOver ==
    ASSUME section = "Returned", [Next]_vars
    PROVE  UNCHANGED vars
BY DEF Next, Collect, SubsystemInfo, PortInfo, PortsDone, Controllers,
   ControllerInfo, OptionalCommands, ControllerHSPoll, SubsystemHSPoll,
   ConfigGet, ConfigGetDone, GetFeatures, GetLogPage, ActiveNamespaces,
   NamespaceIdDescList, IdentifyControllers, CommonNamespace, WriteDump,
   Unplugged

(* Only PortInfo throws.                                                   *)
LEMMA OnlyPortInfoThrows ==
    ASSUME TypeInv, [Next]_vars, result' = "exception", result # "exception"
    PROVE  /\ PortInfo
           /\ \E k \in Answer \ StructureUsable :
                 Reply(k, item <= DrivePorts) /\ Lose(<<"Ports", item>>)
<1>1. PortInfo
  BY DEF Next, Collect, SubsystemInfo, PortInfo, PortsDone, Controllers,
     ControllerInfo, OptionalCommands, ControllerHSPoll, SubsystemHSPoll,
     ConfigGet, ConfigGetDone, GetFeatures, GetLogPage, ActiveNamespaces,
     NamespaceIdDescList, IdentifyControllers, CommonNamespace, WriteDump,
     Unplugged, EndOfList, vars
<1>2. PICK k \in Answer :
        LET usable == k \in StructureUsable
        IN  /\ Reply(k, item <= DrivePorts)
            /\ Record(usable, <<"Ports", item>>, Freed(<<"Ports", item>>))
            /\ \/ usable /\ NextPort /\ UNCHANGED result
               \/ ~usable /\ Goto("Returned") /\ result' = "exception"
  BY <1>1 DEF PortInfo
<1>3. k \notin StructureUsable
  BY <1>2
<1> QED  BY <1>1, <1>2, <1>3 DEF Record

LEMMA AbortSteps ==
    TypeInv /\ OnlyPortsAbort /\ AbortHasCause /\ [Next]_vars =>
        OnlyPortsAbort' /\ AbortHasCause'
<1> SUFFICES ASSUME TypeInv, OnlyPortsAbort, AbortHasCause, [Next]_vars,
                    result' = "exception"
             PROVE  OnlyPortsAbort' /\ AbortHasCause'
  BY DEF OnlyPortsAbort, AbortHasCause
<1>1. CASE result = "exception"
  <2>1. section = "Returned"
    BY <1>1 DEF TypeInv, CursorInv
  <2>2. UNCHANGED vars
    BY <2>1, ReturnedIsOver
  <2> QED  BY <1>1, <2>2 DEF OnlyPortsAbort, AbortHasCause, vars, found,
              environment, PortCount
<1>2. CASE result # "exception"
  <2>1. PICK k \in Answer \ StructureUsable :
          Reply(k, item <= DrivePorts) /\ Lose(<<"Ports", item>>)
    BY <1>2, OnlyPortInfoThrows
  <2>2. /\ section = "Ports" /\ item <= numberOfPorts
        /\ numberOfPorts' = numberOfPorts
    BY <1>2, OnlyPortInfoThrows DEF PortInfo, MorePorts, found
  <2>3. /\ item \in 0 .. PortMod - 1
        /\ PortCount' = numberOfPorts + 1
        /\ numberOfPorts \in Nat /\ DrivePorts \in Nat /\ faults \in Nat
    BY <2>2, PortNumbers, CollectAssumption
    DEF TypeInv, TypeOK, CursorInv, PortCount
  <2>4. <<"Ports", item>> \in lost'
    BY <2>1 DEF Lose
  <2>5. k # Whole
    BY <2>1, WholeIsUsable
  <2>6. ~ present' \/ faults' > 0 \/ PortCount' > DrivePorts + 1
    BY <2>1, <2>2, <2>3, <2>5 DEF Reply
  <2> QED  BY <2>3, <2>4, <2>6 DEF OnlyPortsAbort, AbortHasCause
<1> QED  BY <1>1, <1>2

LEMMA AbortInvariant == Spec => []OnlyPortsAbort /\ []AbortHasCause
<1>1. Init => OnlyPortsAbort /\ AbortHasCause
  BY DEF Init, OnlyPortsAbort, AbortHasCause
<1> QED  BY CallInvariant, <1>1, AbortSteps, PTL DEF Spec

(* The call throws for a port without information, and for nothing else    *)
(* (getPortInfo has no handler in collectDriveLog).                        *)
THEOREM OnlyAPortAborts == Spec => []OnlyPortsAbort
BY AbortInvariant, PTL

-----------------------------------------------------------------------------
(* What a step does to the entries, wherever the call is: at most one of   *)
(* its section is made or lost, and lost only if the drive fails the       *)
(* request or has nothing to answer it with.                               *)
Failing == ~present \/ faults > 0

(* The drive does not come back, and what it failed stays failed.          *)
DriveFails ==
    faults' \in Nat /\ faults' >= faults /\ (present' => present)

Unowned(e) ==
    \/ e[1] \in {"Ports", "ConfigGet"} /\ e[2] > DrivePorts
    \/ /\ e[1] = "ControllerInfo"
       /\ RequestedId(e[2]) \notin Range(DriveControllers)
    \/ e[1] = "IdentifyControllers" /\ e[2] \notin Range(DriveControllers)
    \/ e[1] = "NamespaceIdDescList" /\ e[2] \notin Range(DriveNamespaces)

RequestStep ==
    /\ DriveFails
    /\ \/ UNCHANGED <<dump, lost>>
       \/ \E e, bytes : e[1] = section /\ Keep(e, bytes)
       \/ \E e : e[1] = section /\ Lose(e) /\ (Failing' \/ Unowned(e))

LEMMA SilentStep ==
    ASSUME TypeOK, UNCHANGED <<dump, lost, environment>>
    PROVE  RequestStep
<1>1. present' = present /\ faults' = faults /\ faults \in Nat
  BY CollectAssumption DEF environment, TypeOK
<1> QED  BY <1>1 DEF DriveFails, RequestStep

LEMMA ReplyFails ==
    ASSUME TypeOK, NEW k \in Answer, NEW has \in BOOLEAN, Reply(k, has)
    PROVE  DriveFails
<1>1. present' = present /\ faults' \in Nat /\ faults' >= faults
  BY ReplyTypes, CollectAssumption
<1> QED  BY <1>1 DEF DriveFails

LEMMA KeepStep ==
    ASSUME TypeOK, NEW k \in Answer, NEW has \in BOOLEAN, Reply(k, has),
           \/ UNCHANGED <<dump, lost>>
           \/ \E e, bytes : e[1] = section /\ Keep(e, bytes)
    PROVE  RequestStep
BY ReplyFails DEF RequestStep

LEMMA LoseStep ==
    ASSUME TypeOK, NEW k \in Answer, NEW has \in BOOLEAN, Reply(k, has),
           k # Whole, NEW e, e[1] = section, has \/ Unowned(e), Lose(e)
    PROVE  RequestStep
<1>1. faults \in Nat
  BY CollectAssumption DEF TypeOK
<1>2. Failing' \/ Unowned(e)
  BY <1>1 DEF Reply, Failing
<1> QED  BY <1>2, ReplyFails DEF RequestStep

LEMMA RecordStep ==
    ASSUME TypeOK, NEW k \in Answer, NEW has \in BOOLEAN, Reply(k, has),
           NEW answers, Whole \in answers, NEW e, NEW bytes,
           e[1] = section, has \/ Unowned(e), Record(k \in answers, e, bytes)
    PROVE  RequestStep
<1>1. CASE k \in answers
  BY <1>1, KeepStep DEF Record
<1>2. CASE k \notin answers
  <2>1. Lose(e) /\ k # Whole
    BY <1>2 DEF Record
  <2> QED  BY <2>1, LoseStep
<1> QED  BY <1>1, <1>2

LEMMA AskStep ==
    ASSUME TypeOK, NEW answers, Whole \in answers, NEW has \in BOOLEAN,
           NEW e, NEW bytes, e[1] = section, has \/ Unowned(e),
           Ask(answers, has, e, bytes)
    PROVE  RequestStep
BY RecordStep DEF Ask

LEMMA RequestSteps ==
    ASSUME TypeInv, [Next]_vars
    PROVE  RequestStep
<1>0. TypeOK /\ item \in Nat /\ DrivePorts \in Int
  BY PortNumbers DEF TypeInv, TypeOK
<1>1. CASE SubsystemInfo
  <2> DEFINE e == <<"SubsystemInfo", 0>>
  <2>1. PICK k \in Answer :
          Reply(k, TRUE) /\ Record(k \in SubsystemInfoUsable, e, Freed(e))
    BY <1>1 DEF SubsystemInfo
  <2>2. e[1] = section
    BY <1>1 DEF SubsystemInfo
  <2> HIDE DEF e
  <2> QED  BY <1>0, <2>1, <2>2, WholeIsUsable, RecordStep
<1>2. CASE PortInfo
  <2> DEFINE e == <<"Ports", item>>
             has == item <= DrivePorts
  <2>1. PICK k \in Answer :
          Reply(k, has) /\ Record(k \in StructureUsable, e, Freed(e))
    BY <1>2 DEF PortInfo
  <2>2. e[1] = section /\ (has \/ Unowned(e)) /\ has \in BOOLEAN
    BY <1>0, <1>2 DEF PortInfo, Unowned
  <2> HIDE DEF e, has
  <2> QED  BY <1>0, <2>1, <2>2, WholeIsUsable, RecordStep
<1>3. CASE PortsDone \/ ConfigGetDone
  BY <1>0, <1>3, SilentStep DEF PortsDone, ConfigGetDone
<1>4. CASE Controllers
  <2> DEFINE e == <<"Controllers", 0>>
  <2>1. PICK k \in Answer :
          Reply(k, TRUE) /\ Record(k \in ControllerListUsable, e, Freed(e))
    BY <1>4 DEF Controllers
  <2>2. e[1] = section
    BY <1>4 DEF Controllers
  <2> HIDE DEF e
  <2> QED  BY <1>0, <2>1, <2>2, WholeIsUsable, RecordStep
<1>5. CASE ControllerInfo
  <2> DEFINE id == controllerIds[item]
             e == <<"ControllerInfo", id>>
             had == Freed(<<"ControllerInfo", RequestedId(id)>>)
             has == RequestedId(id) \in Range(DriveControllers)
  <2>1. \/ UNCHANGED <<dump, lost, environment>>
        \/ Ask(StructureUsable, has, e, had)
    BY <1>5 DEF ControllerInfo, EndOfList
  <2>2. e[1] = section /\ (has \/ Unowned(e)) /\ has \in BOOLEAN
    BY <1>5 DEF ControllerInfo, Unowned
  <2> HIDE DEF e, had, has
  <2> QED  BY <1>0, <2>1, <2>2, WholeIsUsable, SilentStep, AskStep
<1>6. CASE OptionalCommands
  <2> DEFINE e == <<"OptionalCommands", 0>>
  <2>1. Ask(StructureUsable, TRUE, e, Freed(e)) /\ e[1] = section
    BY <1>6 DEF OptionalCommands
  <2> HIDE DEF e
  <2> QED  BY <1>0, <2>1, WholeIsUsable, AskStep
<1>7. CASE ControllerHSPoll
  <2> DEFINE e == <<"ControllerHSPoll", 0>>
  <2>1. Ask(ControllerHSUsable, TRUE, e, Kept(e)) /\ e[1] = section
    BY <1>7 DEF ControllerHSPoll
  <2> HIDE DEF e
  <2> QED  BY <1>0, <2>1, WholeIsUsable, AskStep
<1>8. CASE SubsystemHSPoll
  <2> DEFINE e == <<"SubsystemHSPoll", 0>>
  <2>1. Ask(SubsystemHSUsable, TRUE, e, Kept(e)) /\ e[1] = section
    BY <1>8 DEF SubsystemHSPoll
  <2> HIDE DEF e
  <2> QED  BY <1>0, <2>1, WholeIsUsable, AskStep
<1>9. CASE ConfigGet
  <2> DEFINE e == <<"ConfigGet", item>>
             has == item <= DrivePorts
  <2>1. PICK k \in Answer :
          /\ Reply(k, has)
          /\ \/ k \notin ConfigUsable /\ Lose(e)
             \/ Keep(e, Kept(e))
             \/ UNCHANGED <<dump, lost>>
    BY <1>9 DEF ConfigGet
  <2>2. e[1] = section /\ (has \/ Unowned(e)) /\ has \in BOOLEAN
    BY <1>0, <1>9 DEF ConfigGet, Unowned
  <2> HIDE DEF e, has
  <2>3. CASE k \notin ConfigUsable /\ Lose(e)
    BY <1>0, <2>1, <2>2, <2>3, WholeIsUsable, LoseStep
  <2>4. CASE Keep(e, Kept(e)) \/ UNCHANGED <<dump, lost>>
    BY <1>0, <2>1, <2>2, <2>4, KeepStep
  <2> QED  BY <2>1, <2>3, <2>4
<1>10. CASE GetFeatures
  <2> DEFINE e == <<"GetFeatures", item>>
             had == Kept(<<"GetFeatures", Feature[item][2]>>)
  <2>1. \/ UNCHANGED <<dump, lost, environment>>
        \/ Ask(FeatureUsable, TRUE, e, had)
    BY <1>10 DEF GetFeatures, EndOfList
  <2>2. e[1] = section
    BY <1>10 DEF GetFeatures
  <2> HIDE DEF e, had
  <2> QED  BY <1>0, <2>1, <2>2, WholeIsUsable, SilentStep, AskStep
<1>11. CASE GetLogPage
  <2> DEFINE e == <<"GetLogPage", item>>
  <2>1. \/ UNCHANGED <<dump, lost, environment>>
        \/ \E k \in Answer :
             /\ Reply(k, TRUE)
             /\ \/ k \notin LogPageUsable /\ Lose(e)
                \/ Keep(e, Kept(e))
                \/ UNCHANGED <<dump, lost>>
    BY <1>11 DEF GetLogPage, EndOfList
  <2>2. e[1] = section
    BY <1>11 DEF GetLogPage
  <2> HIDE DEF e
  <2>3. ASSUME NEW k \in Answer, Reply(k, TRUE),
               k \notin LogPageUsable /\ Lose(e)
        PROVE  RequestStep
    BY <1>0, <2>2, <2>3, WholeIsUsable, LoseStep
  <2>4. ASSUME NEW k \in Answer, Reply(k, TRUE),
               Keep(e, Kept(e)) \/ UNCHANGED <<dump, lost>>
        PROVE  RequestStep
    BY <1>0, <2>2, <2>4, KeepStep
  <2> QED  BY <1>0, <2>1, <2>3, <2>4, SilentStep
<1>12. CASE ActiveNamespaces
  <2> DEFINE e == <<"ActiveNamespaces", 0>>
  <2>1. PICK k \in Answer, bytes \in {Kept(e), Unanswered} :
          Reply(k, TRUE) /\ Keep(e, bytes)
    BY <1>12 DEF ActiveNamespaces
  <2>2. e[1] = section
    BY <1>12 DEF ActiveNamespaces
  <2> HIDE DEF e
  <2> QED  BY <1>0, <2>1, <2>2, KeepStep
<1>13. CASE NamespaceIdDescList
  <2> DEFINE e == <<"NamespaceIdDescList", activeNamespaces[item]>>
             has == activeNamespaces[item] \in Range(DriveNamespaces)
  <2>1. \/ UNCHANGED <<dump, lost, environment>>
        \/ Ask(IdentifyUsable, has, e, Kept(e))
    BY <1>13 DEF NamespaceIdDescList, EndOfList
  <2>2. e[1] = section /\ (has \/ Unowned(e)) /\ has \in BOOLEAN
    BY <1>13 DEF NamespaceIdDescList, Unowned
  <2> HIDE DEF e, has
  <2> QED  BY <1>0, <2>1, <2>2, WholeIsUsable, SilentStep, AskStep
<1>14. CASE IdentifyControllers
  <2> DEFINE e == <<"IdentifyControllers", controllerIds[item]>>
             has == controllerIds[item] \in Range(DriveControllers)
  <2>1. \/ UNCHANGED <<dump, lost, environment>>
        \/ Ask(IdentifyUsable, has, e, Kept(e))
    BY <1>14 DEF IdentifyControllers, EndOfList
  <2>2. e[1] = section /\ (has \/ Unowned(e)) /\ has \in BOOLEAN
    BY <1>14 DEF IdentifyControllers, Unowned
  <2> HIDE DEF e, has
  <2> QED  BY <1>0, <2>1, <2>2, WholeIsUsable, SilentStep, AskStep
<1>15. CASE CommonNamespace
  <2> DEFINE e == <<"CommonNamespaceCapablity", 0>>
  <2>1. Ask(IdentifyUsable, TRUE, e, Kept(e)) /\ e[1] = section
    BY <1>15 DEF CommonNamespace
  <2> HIDE DEF e
  <2> QED  BY <1>0, <2>1, WholeIsUsable, AskStep
<1>16. CASE WriteDump \/ UNCHANGED vars
  BY <1>0, <1>16, SilentStep DEF WriteDump, vars
<1>17. CASE Unplugged
  <2>1. faults \in Nat
    BY <1>0, CollectAssumption DEF TypeOK
  <2> QED  BY <1>17, <2>1 DEF Unplugged, DriveFails, RequestStep
<1> QED  BY <1>1, <1>2, <1>3, <1>4, <1>5, <1>6, <1>7, <1>8, <1>9, <1>10,
            <1>11, <1>12, <1>13, <1>14, <1>15, <1>16, <1>17
         DEF Next, Collect

(* What is lost, a drive that has failed nothing could not answer.         *)
LossHasCause == Failing \/ \A e \in lost : Unowned(e)

LEMMA FailingStays ==
    ASSUME TypeInv, [Next]_vars, Failing
    PROVE  Failing'
<1>1. faults \in Nat
  BY CollectAssumption DEF TypeInv, TypeOK
<1>2. faults' \in Nat /\ faults' >= faults /\ (present' => present)
  BY RequestSteps DEF RequestStep, DriveFails
<1>3. faults > 0 => faults' > 0
  BY <1>1, <1>2
<1> QED  BY <1>2, <1>3 DEF Failing

LEMMA LossSteps ==
    TypeInv /\ LossHasCause /\ [Next]_vars => LossHasCause'
<1> SUFFICES ASSUME TypeInv, LossHasCause, [Next]_vars, ~ Failing',
                    NEW e \in lost'
             PROVE  Unowned(e)
  BY DEF LossHasCause, Unowned
<1>1. ~ Failing
  BY FailingStays
<1>2. e \in lost \/ Unowned(e)
  BY RequestSteps DEF RequestStep, Keep, Lose
<1> QED  BY <1>1, <1>2 DEF LossHasCause

-----------------------------------------------------------------------------
(* Once a list was read whole it is the drive's to the end of the call.    *)
ListInv ==
    /\ AreTheDrives(activeNamespaces)
    /\ <<"ActiveNamespaces", 0>> \in DOMAIN dump =>
         Failing \/ AreAllTheDrives(activeNamespaces)

LEMMA OnlyOneReads ==
    ASSUME [Next]_vars, ~ ActiveNamespaces
    PROVE  /\ UNCHANGED activeNamespaces
           /\ section = "ActiveNamespaces" => UNCHANGED dump
BY DEF Next, Collect, SubsystemInfo, PortInfo, PortsDone, Controllers,
   ControllerInfo, OptionalCommands, ControllerHSPoll, SubsystemHSPoll,
   ConfigGet, ConfigGetDone, GetFeatures, GetLogPage,
   NamespaceIdDescList, IdentifyControllers, CommonNamespace, WriteDump,
   Unplugged, EndOfList, vars, found

LEMMA ListSteps ==
    TypeInv /\ ListInv /\ [Next]_vars => ListInv'
<1> SUFFICES ASSUME TypeInv, ListInv, [Next]_vars
             PROVE  ListInv'
  OBVIOUS
<1> DEFINE read == <<"ActiveNamespaces", 0>>
<1>1. TypeOK /\ RequestStep /\ (Failing => Failing')
  BY RequestSteps, FailingStays DEF TypeInv
<1>2. Room' = Room
  BY DEF Room
<1>3. CASE ActiveNamespaces
  <2>1. AreTheDrives(activeNamespaces')
    BY <1>3, ListRead
  <2>2. ASSUME ~ Failing'
        PROVE  AreAllTheDrives(activeNamespaces')
    <3>1. PICK k \in Answer :
            /\ Reply(k, TRUE)
            /\ activeNamespaces' =
                   IF k \in IdentifyUsable
                   THEN getIdentifyActiveNamespaceIdList(ListBytes(k))
                   ELSE <<>>
      BY <1>3 DEF ActiveNamespaces
    <3>2. faults \in Nat
      BY <1>1, CollectAssumption DEF TypeOK
    <3>3. k = Whole
      BY <1>1, <2>2, <3>1, <3>2 DEF Reply, Failing
    <3>4. k \in IdentifyUsable
      BY <3>3, WholeIsUsable
    <3> QED  BY <3>1, <3>3, <3>4, ListIsTheDrives
  <2> QED  BY <1>2, <2>1, <2>2 DEF ListInv, AreTheDrives, AreAllTheDrives
<1>4. CASE ~ ActiveNamespaces
  <2>1. /\ UNCHANGED activeNamespaces
        /\ section = "ActiveNamespaces" => UNCHANGED dump
    BY <1>4, OnlyOneReads
  <2>2. read \in DOMAIN dump' => read \in DOMAIN dump
    <3>1. ASSUME NEW e, NEW bytes, e[1] = section, Keep(e, bytes),
                 section # "ActiveNamespaces"
          PROVE  read \in DOMAIN dump' => read \in DOMAIN dump
      BY <3>1 DEF Keep
    <3> QED  BY <1>1, <2>1, <3>1 DEF RequestStep, Lose
  <2> QED  BY <1>1, <1>2, <2>1, <2>2
           DEF ListInv, AreTheDrives, AreAllTheDrives
<1> QED  BY <1>3, <1>4

LEMMA DriveInvariant == Spec => []ListInv /\ []LossHasCause
<1>1. Init => ListInv /\ LossHasCause
  <2>1. Room \in Nat
    BY DriveIds, CollectAssumption DEF Room
  <2>2. <<>> \in Seq(Nat) /\ Len(<<>>) = 0
    BY EmptySeq
  <2> QED  BY <2>1, <2>2 DEF Init, ListInv, AreTheDrives, LossHasCause
<1> QED  BY CallInvariant, <1>1, ListSteps, LossSteps, PTL DEF Spec

(* The namespaces asked about are the drive's, for any list of ids and an  *)
(* answer cut anywhere (getIdentifyActiveNamespaceIdList).                 *)
THEOREM NamespacesStayTheDrives == Spec => []NamespacesAreTheDrives
<1>1. TypeInv /\ ListInv => NamespacesAreTheDrives
  <2> SUFFICES ASSUME TypeInv, ListInv PROVE NamespacesAreTheDrives
    OBVIOUS
  <2>1. present /\ faults = 0 => ~ Failing
    BY DEF Failing
  <2> QED  BY <2>1 DEF ListInv, AreTheDrives, AreAllTheDrives,
              NamespacesAreTheDrives
<1> QED  BY CallInvariant, DriveInvariant, <1>1, PTL

(* A drive that answers all it should has all of it dumped, unless more    *)
(* ports were read than it has: what aborts the call, or loses an entry,   *)
(* is a request that the drive failed or that is for something it has not, *)
(* and its list of namespaces is read whole (collectDriveLog).             *)
THEOREM HealthyDriveHasADump == Spec => []HealthyDriveIsDumped
<1>1. ASSUME TypeInv, DumpIsComplete, AbortHasCause, ListInv, LossHasCause,
             result # "pending", present, faults = 0,
             PortCount <= DrivePorts + 1
      PROVE  /\ result \in {"success", "fileSystem"}
             /\ \A e \in Expected : Answerable(e) => e \in DOMAIN dump
             /\ \A w \in 1 .. Room :
                  <<"NamespaceIdDescList", DriveNamespaces[w]>> \in DOMAIN dump
  <2>1. /\ TypeOK /\ PortCount \in Int /\ DrivePorts \in Int
        /\ Len(DriveNamespaces) \in Nat /\ Room \in Nat
        /\ Room <= Len(DriveNamespaces)
    BY <1>1, PortNumbers, DriveIds, CollectAssumption DEF TypeInv, Room
  <2>2. result \in {"success", "fileSystem"}
    <3>1. result # "exception"
      BY <1>1, <2>1 DEF AbortHasCause
    <3> QED  BY <1>1, <2>1, <3>1 DEF TypeOK
  <2>3. Expected = DOMAIN dump \cup lost
    BY <1>1, <2>2 DEF DumpIsComplete
  <2>4. \A e \in lost : Unowned(e)
    BY <1>1 DEF LossHasCause, Failing
  <2>5. AreAllTheDrives(activeNamespaces)
    <3> DEFINE read == <<"ActiveNamespaces", 0>>
    <3>1. read \in Expected
      BY PairIsExpected DEF Simple
    <3>2. ~ Unowned(read)
      BY DEF Unowned
    <3> HIDE DEF read
    <3>3. read \in DOMAIN dump
      BY <2>3, <2>4, <3>1, <3>2
    <3> QED  BY <1>1, <3>3 DEF ListInv, Failing, read
  <2>6. Range(activeNamespaces) \subseteq Range(DriveNamespaces)
    <3>1. activeNamespaces \in Seq(Nat \ {0}) /\ DriveNamespaces \in Seq(Nat \ {0})
      BY <2>1, ListAssumption DEF TypeOK
    <3>2. /\ DOMAIN activeNamespaces = 1 .. Room
          /\ 1 .. Room \subseteq DOMAIN DriveNamespaces
      BY <2>1, <2>5, <3>1, LenProperties DEF AreAllTheDrives
    <3> QED  BY <2>5, <3>2 DEF AreAllTheDrives, Range
  <2>7. ASSUME NEW e \in Expected, Answerable(e)
        PROVE  e \in DOMAIN dump
    <3>1. IsEntry(e)
      BY ExpectedIsPairs
    <3>2. ~ Unowned(e)
      BY <1>1, <2>1, <2>6, <2>7, <3>1 DEF IsEntry, Unowned, Answerable, Simple
    <3> QED  BY <2>3, <2>4, <3>2
  <2>8. ASSUME NEW w \in 1 .. Room
        PROVE  <<"NamespaceIdDescList", DriveNamespaces[w]>> \in DOMAIN dump
    <3> DEFINE e == <<"NamespaceIdDescList", DriveNamespaces[w]>>
    <3>1. /\ DriveNamespaces[w] \in Range(activeNamespaces)
      <4>1. Len(activeNamespaces) = Room /\ activeNamespaces \in Seq(Nat \ {0})
        BY <2>1, <2>5 DEF AreAllTheDrives, TypeOK
      <4>2. activeNamespaces[w] \in Range(activeNamespaces)
        BY <2>1, <4>1, InList
      <4> QED  BY <2>5, <4>2 DEF AreAllTheDrives
    <3>2. e \in Expected
      BY <3>1, PairIsExpected
    <3>3. Answerable(e)
      BY DEF Answerable
    <3> QED  BY <2>7, <3>2, <3>3
  <2> QED  BY <2>2, <2>7, <2>8
<1>2. TypeInv /\ DumpIsComplete /\ AbortHasCause /\ ListInv /\ LossHasCause
        => HealthyDriveIsDumped
  BY <1>1 DEF HealthyDriveIsDumped
<1> QED  BY CallInvariant, DumpIsAlwaysComplete, AbortInvariant,
            DriveInvariant, <1>2, PTL

-----------------------------------------------------------------------------
(* Every step of the call takes it further.                                *)

(* The loop over the ports stops at the first that the drive has not.      *)
PortsAnswered ==
    /\ section = "Ports" => item <= DrivePorts + 1
    /\ Rank[section] \in 3 .. 15 /\ numberOfPorts # NULL =>
          numberOfPorts <= DrivePorts

(* What a drive has not it does not answer with a data structure.          *)
LEMMA NoStructureUnasked ==
    ASSUME NEW k \in StructureUsable, NEW has \in BOOLEAN, Reply(k, has),
           section \notin AdminSection
    PROVE  has
<1>1. OptionalDataLength(k) > 0
  BY DEF StructureUsable
<1>2. OptionalDataLength(NoResponse) = 0 - 12
  BY MessageSizes DEF OptionalDataLength, DataLength, NoResponse
<1>3. OptionalDataLength(Refusal(ManagementResponseMin)) = 0
  BY MessageSizes DEF OptionalDataLength, DataLength, Refusal
<1> QED  BY <1>1, <1>2, <1>3 DEF Reply

LEMMA RanksAreNumbers ==
    ASSUME TypeOK
    PROVE  section \in Section /\ Rank[section] \in 1 .. 16
<1>1. section \in Section
  BY DEF TypeOK
<1> QED  BY <1>1, RankIsOrder

(* On to a later section.                                                  *)
LEMMA LaterSection ==
    ASSUME NEW t, Goto(t) \/ StartList(t), Rank[t] > Rank[section]
    PROVE  MovesOn
BY DEF Goto, StartList, MovesOn

LEMMA NextItemMovesOn ==
    ASSUME TypeOK, NextItem
    PROVE  MovesOn
BY DEF TypeOK, NextItem, MovesOn

(* The steps after the loop over the ports.                                *)
LEMMA LaterSteps ==
    ASSUME TypeInv, PortsAnswered, DrivePorts < PortMod - 1, Collect,
           section # "SubsystemInfo", section # "Ports"
    PROVE  MovesOn /\ numberOfPorts' = numberOfPorts
<1>1. TypeOK /\ CursorInv
  BY DEF TypeInv
<1>2. numberOfPorts' = numberOfPorts
  BY DEF Collect, SubsystemInfo, PortInfo, PortsDone, Controllers,
     ControllerInfo, OptionalCommands, ControllerHSPoll, SubsystemHSPoll,
     ConfigGet, ConfigGetDone, GetFeatures, GetLogPage, ActiveNamespaces,
     NamespaceIdDescList, IdentifyControllers, CommonNamespace, WriteDump,
     EndOfList, found
<1>3. ASSUME NEW t \in Section, Goto(t) \/ StartList(t),
             Rank[t] > Rank[section]
      PROVE  MovesOn
  BY <1>3, LaterSection
<1>4. ASSUME Controllers
      PROVE  MovesOn
  <2>1. Goto("OptionalCommands") \/ StartList("ControllerInfo")
    BY <1>4 DEF Controllers
  <2>2. /\ Rank["OptionalCommands"] > Rank[section]
        /\ Rank["ControllerInfo"] > Rank[section]
    BY <1>4, RankIsOrder DEF Controllers
  <2> QED  BY <2>1, <2>2, LaterSection
<1>5. ASSUME ControllerInfo
      PROVE  MovesOn
  <2>1. NextItem \/ Goto("OptionalCommands")
    BY <1>5 DEF ControllerInfo, EndOfList
  <2>2. Rank["OptionalCommands"] > Rank[section]
    BY <1>5, RankIsOrder DEF ControllerInfo
  <2> QED  BY <1>1, <2>1, <2>2, LaterSection, NextItemMovesOn
<1>6. ASSUME OptionalCommands
      PROVE  MovesOn
  <2>1. Goto("ControllerHSPoll")
    BY <1>6 DEF OptionalCommands
  <2>2. Rank["ControllerHSPoll"] > Rank[section]
    BY <1>6, RankIsOrder DEF OptionalCommands
  <2> QED  BY <2>1, <2>2, LaterSection
<1>7. ASSUME ControllerHSPoll
      PROVE  MovesOn
  <2>1. Goto("SubsystemHSPoll")
    BY <1>7 DEF ControllerHSPoll
  <2>2. Rank["SubsystemHSPoll"] > Rank[section]
    BY <1>7, RankIsOrder DEF ControllerHSPoll
  <2> QED  BY <2>1, <2>2, LaterSection
<1>8. ASSUME SubsystemHSPoll
      PROVE  MovesOn
  <2>1. StartList("GetFeatures") \/ Goto("ConfigGet")
    BY <1>8 DEF SubsystemHSPoll
  <2>2. /\ Rank["GetFeatures"] > Rank[section]
        /\ Rank["ConfigGet"] > Rank[section]
    BY <1>8, RankIsOrder DEF SubsystemHSPoll
  <2> QED  BY <2>1, <2>2, LaterSection
<1>9. ASSUME ConfigGet
      PROVE  MovesOn
  <2>1. /\ section = "ConfigGet" /\ item <= numberOfPorts
        /\ \/ NextPort
           \/ ~second /\ second' = TRUE /\ UNCHANGED <<section, item>>
    BY <1>9 DEF ConfigGet, MorePorts
  <2>2. /\ item \in Nat /\ PortMod \in Nat
        /\ DrivePorts \in Nat /\ numberOfPorts \in Nat
        /\ numberOfPorts <= DrivePorts
    <3>1. numberOfPorts # NULL /\ Rank[section] = 8
      BY <1>1, <2>1, RankIsOrder DEF CursorInv
    <3> QED  BY <1>1, <3>1, PortNumbers DEF PortsAnswered, TypeOK
  <2>3. CASE NextPort
    <3>1. item + 1 < PortMod
      BY <2>1, <2>2
    <3>2. item' = item + 1 /\ section' = section
      BY <2>2, <2>3, <3>1 DEF NextPort
    <3> QED  BY <2>2, <3>2 DEF MovesOn
  <2>4. CASE ~second /\ second' = TRUE /\ UNCHANGED <<section, item>>
    BY <2>4 DEF MovesOn
  <2> QED  BY <2>1, <2>3, <2>4
<1>10. ASSUME ConfigGetDone
      PROVE  MovesOn
  <2>1. StartList("GetFeatures")
    BY <1>10 DEF ConfigGetDone
  <2>2. Rank["GetFeatures"] > Rank[section]
    BY <1>10, RankIsOrder DEF ConfigGetDone
  <2> QED  BY <2>1, <2>2, LaterSection
<1>11. ASSUME GetFeatures
      PROVE  MovesOn
  <2>1. NextItem \/ StartList("GetLogPage")
    BY <1>11 DEF GetFeatures, EndOfList
  <2>2. Rank["GetLogPage"] > Rank[section]
    BY <1>11, RankIsOrder DEF GetFeatures
  <2> QED  BY <1>1, <2>1, <2>2, LaterSection, NextItemMovesOn
<1>12. ASSUME GetLogPage
      PROVE  MovesOn
  <2>1. \/ NextItem \/ Goto("ActiveNamespaces")
        \/ ~second /\ second' = TRUE /\ UNCHANGED <<section, item>>
    BY <1>12 DEF GetLogPage, EndOfList
  <2>2. Rank["ActiveNamespaces"] > Rank[section]
    BY <1>12, RankIsOrder DEF GetLogPage
  <2>3. ASSUME ~second, second' = TRUE, UNCHANGED <<section, item>>
        PROVE  MovesOn
    BY <2>3 DEF MovesOn
  <2> QED  BY <1>1, <2>1, <2>2, <2>3, LaterSection, NextItemMovesOn
<1>13. ASSUME ActiveNamespaces
      PROVE  MovesOn
  <2>1. StartList("NamespaceIdDescList")
    BY <1>13 DEF ActiveNamespaces
  <2>2. Rank["NamespaceIdDescList"] > Rank[section]
    BY <1>13, RankIsOrder DEF ActiveNamespaces
  <2> QED  BY <2>1, <2>2, LaterSection
<1>14. ASSUME NamespaceIdDescList
      PROVE  MovesOn
  <2>1. NextItem \/ StartList("IdentifyControllers")
    BY <1>14 DEF NamespaceIdDescList, EndOfList
  <2>2. Rank["IdentifyControllers"] > Rank[section]
    BY <1>14, RankIsOrder DEF NamespaceIdDescList
  <2> QED  BY <1>1, <2>1, <2>2, LaterSection, NextItemMovesOn
<1>15. ASSUME IdentifyControllers
      PROVE  MovesOn
  <2>1. NextItem \/ Goto("CommonNamespaceCapablity")
    BY <1>15 DEF IdentifyControllers, EndOfList
  <2>2. Rank["CommonNamespaceCapablity"] > Rank[section]
    BY <1>15, RankIsOrder DEF IdentifyControllers
  <2> QED  BY <1>1, <2>1, <2>2, LaterSection, NextItemMovesOn
<1>16. ASSUME CommonNamespace
      PROVE  MovesOn
  <2>1. Goto("WriteDump")
    BY <1>16 DEF CommonNamespace
  <2>2. Rank["WriteDump"] > Rank[section]
    BY <1>16, RankIsOrder DEF CommonNamespace
  <2> QED  BY <2>1, <2>2, LaterSection
<1>17. ASSUME WriteDump
      PROVE  MovesOn
  <2>1. Goto("Returned")
    BY <1>17 DEF WriteDump
  <2>2. Rank["Returned"] > Rank[section]
    BY <1>17, RankIsOrder DEF WriteDump
  <2> QED  BY <2>1, <2>2, LaterSection
<1>18. ~ (SubsystemInfo \/ PortInfo \/ PortsDone)
  BY DEF SubsystemInfo, PortInfo, PortsDone
<1>19. MovesOn
  BY <1>4, <1>5, <1>6, <1>7, <1>8, <1>9, <1>10, <1>11, <1>12, <1>13, <1>14,
     <1>15, <1>16, <1>17, <1>18 DEF Collect
<1> QED  BY <1>2, <1>19

LEMMA MoveSteps ==
    ASSUME TypeInv, TypeOK', PortsAnswered, DrivePorts < PortMod - 1, Collect
    PROVE  MovesOn /\ PortsAnswered'
<1>1. /\ TypeOK /\ CursorInv
      /\ DrivePorts \in Nat /\ PortMod \in Nat /\ item \in Nat
  BY PortNumbers DEF TypeInv, TypeOK
<1>2. CASE section = "SubsystemInfo"
  <2>1. /\ numberOfPorts = NULL
        /\ Goto("Ports") \/ (Goto("Controllers") /\ UNCHANGED numberOfPorts)
    <3>1. SubsystemInfo
      BY <1>2 DEF Collect, SubsystemInfo, PortInfo, PortsDone, Controllers,
         ControllerInfo, OptionalCommands, ControllerHSPoll, SubsystemHSPoll,
         ConfigGet, ConfigGetDone, GetFeatures, GetLogPage, ActiveNamespaces,
         NamespaceIdDescList, IdentifyControllers, CommonNamespace, WriteDump
    <3> QED  BY <1>1, <1>2, <3>1 DEF SubsystemInfo, CursorInv
  <2>2. Rank["Ports"] = 2 /\ Rank["Controllers"] = 3 /\ Rank[section] = 1
    BY <1>2, RankIsOrder
  <2>3. MovesOn
    BY <2>1, <2>2, LaterSection
  <2>4. PortsAnswered'
    BY <1>1, <2>1, <2>2 DEF Goto, PortsAnswered
  <2> QED  BY <2>3, <2>4
<1>3. CASE section = "Ports"
  <2>1. PortInfo \/ PortsDone
    BY <1>3 DEF Collect, SubsystemInfo, PortInfo, PortsDone, Controllers,
       ControllerInfo, OptionalCommands, ControllerHSPoll, SubsystemHSPoll,
       ConfigGet, ConfigGetDone, GetFeatures, GetLogPage, ActiveNamespaces,
       NamespaceIdDescList, IdentifyControllers, CommonNamespace, WriteDump
  <2>2. /\ Rank["Ports"] = 2 /\ Rank["Controllers"] = 3
        /\ Rank["Returned"] = 16 /\ Rank[section] = 2
    BY <1>3, RankIsOrder
  <2>3. CASE PortInfo
    <3> DEFINE has == item <= DrivePorts
    <3>1. PICK k \in Answer :
            /\ Reply(k, has)
            /\ \/ k \in StructureUsable /\ NextPort
               \/ Goto("Returned")
      BY <2>3 DEF PortInfo
    <3>2. CASE k \in StructureUsable /\ NextPort
      <4>1. has \in BOOLEAN /\ section \notin AdminSection
        BY <1>3 DEF AdminSection
      <4>2. has
        <5> HIDE DEF has
        <5> QED  BY <3>1, <3>2, <4>1, NoStructureUnasked
      <4>3. item + 1 < PortMod /\ item + 1 <= DrivePorts + 1
        BY <1>1, <4>2
      <4>4. item' = item + 1 /\ section' = "Ports"
        BY <1>1, <1>3, <3>2, <4>3 DEF NextPort
      <4>5. MovesOn
        BY <1>1, <1>3, <4>4 DEF MovesOn
      <4>6. PortsAnswered'
        BY <2>2, <4>3, <4>4 DEF PortsAnswered
      <4> QED  BY <4>5, <4>6
    <3>3. CASE Goto("Returned")
      <4>1. MovesOn
        BY <2>2, <3>3, LaterSection
      <4>2. PortsAnswered'
        BY <2>2, <3>3 DEF Goto, PortsAnswered
      <4> QED  BY <4>1, <4>2
    <3> QED  BY <3>1, <3>2, <3>3
  <2>4. CASE PortsDone
    <3>1. /\ Goto("Controllers") /\ numberOfPorts' = numberOfPorts
          /\ ~ (item <= numberOfPorts)
      BY <2>4 DEF PortsDone, MorePorts, found
    <3>2. /\ numberOfPorts # NULL /\ item <= DrivePorts + 1
          /\ numberOfPorts \in Nat
      BY <1>1, <1>3, PortNumbers DEF CursorInv, PortsAnswered
    <3>3. MovesOn
      BY <2>2, <3>1, LaterSection
    <3>4. PortsAnswered'
      BY <1>1, <3>1, <3>2 DEF Goto, PortsAnswered
    <3> QED  BY <3>3, <3>4
  <2> QED  BY <2>1, <2>3, <2>4
<1>4. CASE section # "SubsystemInfo" /\ section # "Ports"
  <2>1. MovesOn /\ numberOfPorts' = numberOfPorts
    BY <1>4, LaterSteps
  <2>2. /\ section \in Section /\ section' \in Section
        /\ Rank[section] \in 1 .. 16 /\ Rank[section'] \in 1 .. 16
        /\ Rank[section] >= 3 /\ Rank["Ports"] = 2
    <3>1. section \in Section /\ section' \in Section
      BY <1>1 DEF TypeOK
    <3>2. \A s \in Section : s # "SubsystemInfo" /\ s # "Ports" =>
             Rank[s] # 1 /\ Rank[s] # 2
      BY RankIsOrder DEF Section
    <3>3. \A s \in Section : Rank[s] \in 1 .. 16
      BY RankIsOrder
    <3>4. Rank[section] # 1 /\ Rank[section] # 2 /\ Rank[section] \in 1 .. 16
      BY <1>4, <3>1, <3>2, <3>3
    <3>5. Rank[section] >= 3
      BY <3>4
    <3> QED  BY <3>1, <3>3, <3>5, RankIsOrder
  <2>3. Rank[section'] >= Rank[section]
    BY <2>1, <2>2 DEF MovesOn
  <2>4. /\ section' # "Ports"
        /\ Rank[section'] \in 3 .. 15 => Rank[section] \in 3 .. 15
    BY <2>2, <2>3
  <2> QED  BY <2>1, <2>4 DEF PortsAnswered
<1> QED  BY <1>2, <1>3, <1>4

(* Every answer and every timeout takes the call further, for any number   *)
(* of ports that is read: the call is finite, but for a drive with as many *)
(* ports as the counter counts (the loops of collectDriveLog).             *)
THEOREM CallAlwaysMovesOn == Spec => CallMovesOn
<1>1. CASE DrivePorts < PortMod - 1
  <2>1. Init => PortsAnswered
    <3>1. Rank["SubsystemInfo"] = 1
      BY RankIsOrder
    <3> QED  BY <3>1 DEF Init, PortsAnswered
  <2>2. TypeInv /\ TypeOK' /\ PortsAnswered /\ [Next]_vars => PortsAnswered'
    <3>1. ASSUME UNCHANGED <<section, item, numberOfPorts>>, PortsAnswered
          PROVE  PortsAnswered'
      BY <3>1 DEF PortsAnswered
    <3>2. Unplugged \/ UNCHANGED vars =>
              UNCHANGED <<section, item, numberOfPorts>>
      BY DEF Unplugged, vars, cursor, found
    <3> QED  BY <1>1, <3>1, <3>2, MoveSteps DEF Next
  <2>3. Spec => []PortsAnswered
    BY <2>1, <2>2, CallInvariant, CallTypeCorrect, PTL DEF Spec
  <2>4. TypeInv /\ TypeOK' /\ PortsAnswered =>
            [DrivePorts < PortMod - 1 /\ Collect => MovesOn]_vars
    BY <1>1, MoveSteps
  <2> QED  BY <2>3, <2>4, CallInvariant, CallTypeCorrect, PTL DEF CallMovesOn
<1>2. CASE ~ (DrivePorts < PortMod - 1)
  <2>1. [DrivePorts < PortMod - 1 /\ Collect => MovesOn]_vars
    BY <1>2
  <2> QED  BY <2>1, PTL DEF CallMovesOn
<1> QED  BY <1>1, <1>2

-----------------------------------------------------------------------------
(* The wrong controller                                                    *)

(* Whatever controller getControllerInfo is called for, it asks for the    *)
(* information of controller 0: htobe32 of a uint16_t has zeros where the  *)
(* request's uint16_t is taken from.                                       *)
THEOREM RequestedIdIsZero == \A id \in ControllerId : RequestedId(id) = 0
<1> SUFFICES ASSUME NEW id \in ControllerId
             PROVE  RequestedId(id) = 0
  OBVIOUS
<1>1. id \in Nat /\ id < 65536
  BY SMT DEF ControllerId
<1>2. id < 16777216
  BY <1>1, SMT
<1>3. id \div 65536 = 0
  BY <1>1, SMT
<1>4. id \div 16777216 = 0
  BY <1>1, <1>2, SMT
<1>5. RequestedId(id) = ((0 % 256) * 256) + 0
  BY <1>3, <1>4, SMT DEF RequestedId
<1> QED  BY <1>5, SMT
=============================================================================
