---------------------------- MODULE MCDrivePoll ----------------------------
(* The default thresholds, and bytes on both sides of each of them, of the *)
(* dead bands and of the codes that are no temperature.  The hystereses,   *)
(* 2.55 and 0.0255 degrees, compare with whole degrees as 2 and 0 do.      *)
EXTENDS DrivePoll

MCTempByte == {107, 110, 112, 113, 126, 127, 130, 196, 197, 255}

(* Sizes around those that each view and the temperature need: 8 bytes are *)
(* no NVMe response, 10 no management response, 12 hold no data, 13 one    *)
(* byte of it, 20 all the data.                                            *)
MCResponse ==
    {[size |-> n, intact |-> TRUE, success |-> b] :
        n \in {8, 10, 12, 13, 20}, b \in BOOLEAN}
    \cup {[size |-> 20, intact |-> FALSE, success |-> TRUE]}

MCDefault ==
    [CriticalHigh |-> 115, CriticalLow |-> 0,
     WarningHigh |-> 110, WarningLow |-> 5]
MCLimit == [CriticalHigh |-> {115, -5}, WarningHigh |-> {110}]
=============================================================================
