------------------------ MODULE SchmittTriggerProofs ------------------------
(* The promise of module SchmittTrigger rules out chatter, for every dead  *)
(* band and any values; whatever implements it inherits this.              *)
EXTENDS SchmittTrigger, TLAPS

LEMMA TriggerInit == Init => TypeOK /\ LastChange
  BY DEF Init, TypeOK, LastChange

LEMMA TriggerStep ==
    ASSUME TriggerAssumption, TypeOK, LastChange, [Next]_trigger
    PROVE  TypeOK' /\ LastChange'
<1>1. ASSUME NEW x \in Samples, Sample(x)
      PROVE  TypeOK' /\ LastChange'
  <2>1. x # NaN
    BY DEF TriggerAssumption
  <2>2. CASE Rise(x)
    BY <1>1, <2>1, <2>2 DEF Sample, Rise, Reaches, TypeOK, LastChange
  <2>3. CASE Fall(x)
    BY <1>1, <2>1, <2>3 DEF Sample, Fall, FallsBelow, TypeOK, LastChange
  <2>4. CASE Keep(x)
    BY <1>1, <2>4 DEF Sample, Keep, TypeOK, LastChange
  <2>. QED
    BY <1>1, <2>2, <2>3, <2>4 DEF Sample
<1>2. ASSUME NEW n \in Limits, MoveLimit(n)
      PROVE  TypeOK' /\ LastChange'
  BY <1>2 DEF MoveLimit, TypeOK, LastChange
<1>3. CASE UNCHANGED trigger
  BY <1>3 DEF trigger, TypeOK, LastChange
<1>. QED
  BY <1>1, <1>2, <1>3 DEF Next

(* The alarm's last change was on its side of the dead band, always.       *)
THEOREM TriggerInvariant ==
    ASSUME TriggerAssumption
    PROVE  Spec => [](TypeOK /\ LastChange)
<1>1. TypeOK /\ LastChange /\ [Next]_trigger => (TypeOK /\ LastChange)'
  BY TriggerStep
<1>. QED
  BY TriggerInit, <1>1, PTL DEF Spec

LEMMA ChangeCrossesBand ==
    ASSUME TriggerAssumption, TypeOK, LastChange, [Next]_trigger, alarm' # alarm, last # NaN
    PROVE  IF alarm' THEN last' - last > Band ELSE last - last' > Band
<1>1. PICK x \in Samples : Sample(x)
  BY DEF Next, MoveLimit, trigger
<1>2. last \in Int /\ limit \in Int /\ Band \in Int
  BY DEF TriggerAssumption, TypeOK, LastChange
<1>0. x \in Int
  BY DEF TriggerAssumption
<1>3. CASE Rise(x)
  BY <1>2, <1>0, <1>3 DEF Rise, Reaches, LastChange
<1>4. CASE Fall(x)
  BY <1>2, <1>0, <1>4 DEF Fall, FallsBelow, LastChange
<1>. QED
  BY <1>1, <1>3, <1>4 DEF Sample, Keep

(* An alarm that follows the promise never chatters.                       *)
THEOREM TriggerNeverChatters ==
    ASSUME TriggerAssumption
    PROVE  Spec => NoChatter
<1>1. TypeOK /\ LastChange /\ [Next]_trigger =>
        (alarm' # alarm /\ last # NaN =>
            IF alarm' THEN last' - last > Band ELSE last - last' > Band)
  BY ChangeCrossesBand
<1>. QED
  BY <1>1, TriggerInvariant, PTL DEF Spec, NoChatter
=============================================================================
