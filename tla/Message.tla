------------------------------- MODULE Message -------------------------------
(***************************************************************************)
(* The responses of NVMe-MI as the views of src/protocol see them.  A view *)
(* is laid over the bytes received; its constructor throws when they are   *)
(* too few or when their CRC is wrong, and its getters return a pointer to *)
(* the data and their length, but nothing keeps a caller within it.        *)
(*                                                                         *)
(* A response is a record: how many bytes it has, whether the last four    *)
(* are the CRC of the others, and whether the status byte says success.    *)
(* What the data bytes are is left to the module that uses them.           *)
(***************************************************************************)
EXTENDS Integers

ResponseRecord == [size : Nat, intact : BOOLEAN, success : BOOLEAN]

(* Bytes of the parts of a message.                                        *)
CommonHeader == 4
CRC32C == 4
StatusCode == 1
NVMeManagementResponse == 3
AdminResponseData == 16

(* minSize of each view: the bytes before the data.                        *)
NVMeResponseMin == CommonHeader + StatusCode
ManagementResponseMin == NVMeResponseMin + NVMeManagementResponse
AdminResponseMin == CommonHeader + AdminResponseData

Holds(minSize, rsp) == rsp.size >= minSize + CRC32C

(* The views that can be made of a response; another one throws.           *)
NVMeMessage(rsp) == Holds(CommonHeader, rsp)

NVMeResponse(rsp) ==
    /\ NVMeMessage(rsp)
    /\ Holds(NVMeResponseMin, rsp)
    /\ rsp.intact

ManagementInterfaceResponse(rsp) ==
    /\ NVMeResponse(rsp)
    /\ Holds(ManagementResponseMin, rsp)

AdminCommandResponse(rsp) ==
    /\ NVMeResponse(rsp)
    /\ Holds(AdminResponseMin, rsp)

(* The lengths that getOptionalResponseData and getAdminResponseData give. *)
DataLength(minSize, rsp) == rsp.size - (minSize + CRC32C)
OptionalDataLength(rsp) == DataLength(ManagementResponseMin, rsp)
AdminDataLength(rsp) == DataLength(AdminResponseMin, rsp)

(* What a byte at an offset from the data pointer is.                      *)
ByteKind(minSize, rsp, offset) ==
    CASE minSize + offset < rsp.size - CRC32C -> "data"
      [] minSize + offset \in rsp.size - CRC32C .. rsp.size - 1 -> "crc"
      [] minSize + offset >= rsp.size -> "beyond"
=============================================================================
