-------------------------- MODULE MCNumericSensor --------------------------
(* Instances of NumericSensor for TLC.  One unit is the publishing         *)
(* hysteresis; the dead band is four of them and the temperatures cover    *)
(* both bands and the low thresholds, unit by unit.                        *)
EXTENDS NumericSensor

MCReading == 0 .. 14
MCDefault ==
    [CriticalHigh |-> 12, CriticalLow |-> 0, WarningHigh |-> 9, WarningLow |-> 2]

(* Any warning threshold is below any critical one ...                     *)
OrderedLimit == [CriticalHigh |-> {10, 12}, WarningHigh |-> {6, 9, 10}]
(* ... or they cross, and clients may write NaN.                           *)
CrossedLimit == [CriticalHigh |-> {7, 12, NaN}, WarningHigh |-> {9, 11, NaN}]

MCClientValue == {3, NaN}
NoClientValue == {}
=============================================================================
