--------------------------------- MODULE Calls ---------------------------------
(***************************************************************************)
(* The parts of the repository that keep nothing between two calls and     *)
(* know nothing of each other: the reader of /proc/mdstat, the methods of  *)
(* OpcUaClient no channel uses, AVLicensing and ReadConfig.  Every         *)
(* behaviour is a call of one of them.                                     *)
(***************************************************************************)
EXTENDS Mdstat, OpcReadWrite, AVLicensing, AvDriverConfig

VARIABLE called   \* the part the call is for

mdstatVars == <<pc, read, current_raid, current_states>>
readWriteVars == <<opcVars, rwVars>>
callsVars == <<mdstatVars, readWriteVars, licVars, driverVars, called>>

CallsTypeOK ==
  /\ MdstatTypeOK
  /\ OpcReadWriteTypeOK
  /\ AVLicensingTypeOK
  /\ AvDriverConfigTypeOK

(***************************************************************************)
(* Of a part that is not called one initial state will do.                 *)
(***************************************************************************)
CallsInit ==
  /\ called \in {"mdstat", "client", "licensing", "driver"}
  /\ called # "client" => serverUp = TRUE
  /\ called # "licensing" => method = "Checker" /\ dongle = NoDongle
  /\ called # "driver" => devices = <<>> /\ old_addr = <<>>
  /\ MdstatInit
  /\ OpcReadWriteInit
  /\ AVLicensingInit
  /\ AvDriverConfigInit

MdstatCall ==
  /\ called = "mdstat"
  /\ MdstatNext
  /\ UNCHANGED <<readWriteVars, licVars, driverVars, called>>

ClientCall ==
  /\ called = "client"
  /\ OpcReadWriteNext
  /\ UNCHANGED <<mdstatVars, licVars, driverVars, called>>

LicensingCall ==
  /\ called = "licensing"
  /\ AVLicensingNext
  /\ UNCHANGED <<mdstatVars, readWriteVars, driverVars, called>>

DriverCall ==
  /\ called = "driver"
  /\ AvDriverConfigNext
  /\ UNCHANGED <<mdstatVars, readWriteVars, licVars, called>>

CallsNext == MdstatCall \/ ClientCall \/ LicensingCall \/ DriverCall

CallsSpec == CallsInit /\ [][CallsNext]_callsVars
===============================================================================
