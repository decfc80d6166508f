---------------------------- MODULE MCCollectLog ----------------------------
(* A drive with two ports, two controllers and two namespaces, for TLC.    *)
(* Its freed answers are read back as they were, as fewer or more ports,   *)
(* or as one controller it does not have, listed twice.                    *)
EXTENDS CollectLog

MCControllers == <<0, 1>>
MCControllerReads == {MCControllers, <<7, 7>>}
MCNamespaces == <<1, 258>>

(* 12 and 24 bytes are a management and an admin response without data, 13 *)
(* has one byte of data, 24 less than SubsystemInfo, 29 cuts the namespace *)
(* list within its second id, leaving 2 of the 258.                        *)
MCFaultyResponses ==
    {[size |-> n, intact |-> TRUE, success |-> b] :
        n \in {12, 13, 24, 29}, b \in BOOLEAN}
    \cup {[size |-> 29, intact |-> FALSE, success |-> TRUE]}
=============================================================================
