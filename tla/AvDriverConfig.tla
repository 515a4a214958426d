----------------------------- MODULE AvDriverConfig ----------------------------
(***************************************************************************)
(* ReadConfig of src/industrialprotocolutils.cpp: the settings of the      *)
(* devices in AvDriver.xml go into structures of the caller, one device    *)
(* after the other; then the file of the last <config> is looked into.     *)
(*                                                                         *)
(* A device has numbers as IntText gives them (0 for no number) or Absent  *)
(* where it has no element, and connections.  A connection is the sequence *)
(* of its pieces between dots: a number of an octet, a bigger one, one no  *)
(* int holds, an empty piece, or one with something but digits in it.      *)
(***************************************************************************)
EXTENDS Integers, Sequences, FiniteSets, SequencesExt

CONSTANTS
  DeviceLists,  \* the sequences of devices AvDriver.xml may name
  Absent,       \* an element a device does not have
  SomeAddress   \* an address the caller's structure may hold beforehand

Pieces == {"octet", "big", "huge", "empty", "alpha"}

Number == Int \cup {Absent}

Devices ==
  [type : {"ModbusTcpClient", "OpcUaClient", "other"},
   max_socket : Number, max_request : Number, port : Number, timeout : Number,
   connections : Seq(Seq(Pieces))]

ASSUME AvDriverConfigAssumption ==
  /\ DeviceLists \subseteq Seq(Devices) /\ <<>> \in DeviceLists
  /\ Absent \notin Int

VARIABLES
  devices,          \* what AvDriver.xml holds
  driver_pc,
  device,           \* how many devices have been handled
  connection,       \* how many connections of the last one
  modbus,           \* modbus_tcp_client_device_config without addr; Absent
  addr,             \* as long as it was not touched, like
  opc,              \* opc_ua_client_device_config
  old_addr          \* history: addr at the call

driverVars ==
  <<devices, driver_pc, device, connection, modbus, addr, opc, old_addr>>

(***************************************************************************)
(* Split: getline gives no last piece when nothing is behind the last dot. *)
(***************************************************************************)
SplitAll(pieces) == pieces   \* mutant: a last piece that is empty counts

Split(pieces) ==
  IF pieces # <<>> /\ pieces[Len(pieces)] = "empty" THEN Front(pieces) ELSE pieces

(***************************************************************************)
(* IsIpAddress: four tokens, of which the first that is not the number of  *)
(* an octet decides; stoi throws on an empty one and on one out of range.  *)
(***************************************************************************)
IsIpAddress(pieces) ==
  LET tokens == Split(pieces)
      wrong == {i \in DOMAIN tokens : tokens[i] # "octet"}
      first == CHOOSE i \in wrong : \A j \in wrong : i <= j
  IN  IF Len(tokens) # 4 THEN "no"
      ELSE IF wrong = {} THEN "yes"
      ELSE IF tokens[first] \in {"big", "alpha"} THEN "no" ELSE "throws"

Or(value, default) == IF value = Absent THEN default ELSE value

InRange(value, low, high) == value \in low..high

Within(value, low, high, default) ==
  IF value < low \/ value > high THEN default ELSE value

-------------------------------------------------------------------------------
AvDriverConfigTypeOK ==
  /\ devices \in Seq(Devices)
  /\ driver_pc \in {"devices", "connections", "configs", "returned", "thrown",
                   "crashed"}
  /\ device \in 0..Len(devices)
  /\ driver_pc = "connections" =>
       device > 0 /\ connection \in 0..Len(devices[device].connections)
  /\ modbus # Absent => /\ InRange(modbus.max_socket, 1, 16)
                        /\ InRange(modbus.max_request, 1, 32)
                        /\ InRange(modbus.port, 0, 65535)
                        /\ InRange(modbus.timeout, 1000, 32000)
  /\ addr \in Seq(Seq(Pieces) \cup {SomeAddress})

AvDriverConfigInit ==
  /\ devices \in DeviceLists
  /\ driver_pc = "devices"
  /\ device = 0
  /\ connection = 0
  /\ modbus = Absent
  /\ old_addr \in {<<>>, <<SomeAddress>>}
  /\ addr = old_addr
  /\ opc = [port |-> Absent, ip |-> Absent]

(***************************************************************************)
(* A file that cannot be loaded or is empty is logged, one without the     *)
(* elements expected is run into.                                          *)
(***************************************************************************)
NoFile ==
  /\ driver_pc = "devices"
  /\ device = 0
  /\ driver_pc' \in {"returned", "crashed"}
  /\ UNCHANGED <<devices, device, connection, modbus, addr, opc, old_addr>>

Device == devices[device + 1]

NextDevice(type) ==
  /\ driver_pc = "devices"
  /\ device < Len(devices)
  /\ Device.type = type
  /\ device' = device + 1
  /\ connection' = 0
  /\ UNCHANGED <<devices, old_addr>>

ModbusOf(d) ==
  [max_socket |-> Within(Or(d.max_socket, 1), 1, 16, 1),
   max_request |-> Within(Or(d.max_request, 1), 1, 32, 1),
   port |-> Within(Or(d.port, 502), 0, 65535, 502),
   timeout |-> Within(Or(d.timeout, 2000), 1000, 32000, 1000)]

ModbusDeviceFirst ==         \* mutant: the settings of the first device stay
  /\ NextDevice("ModbusTcpClient")
  /\ modbus' = IF modbus = Absent THEN ModbusOf(Device) ELSE modbus
  /\ driver_pc' = "connections"
  /\ UNCHANGED <<addr, opc>>

ModbusDevice ==
  /\ NextDevice("ModbusTcpClient")
  /\ modbus' = ModbusOf(Device)
  /\ driver_pc' = "connections"
  /\ UNCHANGED <<addr, opc>>

(***************************************************************************)
(* The loop over the connections, which an exception of IsIpAddress ends.  *)
(***************************************************************************)
Connections == devices[device].connections

Connection ==
  LET is_ip == IsIpAddress(Connections[connection + 1])
  IN  /\ driver_pc = "connections"
      /\ connection < Len(Connections)
      /\ connection' = connection + 1
      /\ addr' = IF is_ip = "yes" THEN Append(addr, Connections[connection + 1])
                 ELSE addr
      /\ driver_pc' = IF is_ip = "throws" THEN "thrown" ELSE "connections"
      /\ UNCHANGED <<devices, device, modbus, opc, old_addr>>

ConnectionsDone ==
  /\ driver_pc = "connections"
  /\ connection = Len(Connections)
  /\ driver_pc' = "devices"
  /\ UNCHANGED <<devices, device, connection, modbus, addr, opc, old_addr>>

(***************************************************************************)
(* Of an OPC UA client only the first connection is looked at.             *)
(***************************************************************************)
FirstIs(connections, what) ==
  connections # <<>> /\ IsIpAddress(connections[1]) = what

OpcUaDevice ==
  /\ NextDevice("OpcUaClient")
  /\ opc' = [port |-> Within(Or(Device.port, 502), 0, 65535, 502),
             ip |-> IF FirstIs(Device.connections, "yes")
                      THEN Device.connections[1] ELSE opc.ip]
  /\ driver_pc' = IF FirstIs(Device.connections, "throws") THEN "thrown"
                  ELSE "devices"
  /\ UNCHANGED <<modbus, addr>>

OtherDevice ==
  /\ NextDevice("other")
  /\ UNCHANGED <<driver_pc, modbus, addr, opc>>

DevicesDone ==
  /\ driver_pc = "devices"
  /\ device = Len(devices)
  /\ driver_pc' = "configs"
  /\ UNCHANGED <<devices, device, connection, modbus, addr, opc, old_addr>>

(***************************************************************************)
(* The configs: a version that is not "0.2" and a file that cannot be      *)
(* loaded end the call, and so does one without variables.  The loop over  *)
(* the transfers of a variable asks whether the variable is null, never    *)
(* the transfer, so that it runs off the end of the list.                  *)
(***************************************************************************)
Configs ==
  /\ driver_pc = "configs"
  /\ \E version02, loaded, variable \in BOOLEAN :
       driver_pc' = IF version02 /\ loaded /\ variable THEN "crashed"
                    ELSE "returned"
  /\ UNCHANGED <<devices, device, connection, modbus, addr, opc, old_addr>>

AvDriverConfigNext ==
  \/ NoFile \/ ModbusDevice \/ Connection \/ ConnectionsDone \/ OpcUaDevice
  \/ OtherDevice \/ DevicesDone \/ Configs

-------------------------------------------------------------------------------
Handled(type) == {i \in 1..device : devices[i].type = type}

Fits(value, low, high, default, got) ==
  got = IF InRange(value, low, high) THEN value ELSE default

SettingsFit(d) ==
  /\ Fits(d.max_socket, 1, 16, 1, modbus.max_socket)
  /\ Fits(d.max_request, 1, 32, 1, modbus.max_request)
  /\ Fits(d.port, 0, 65535, 502, modbus.port)
  /\ Fits(d.timeout, 1000, 32000, IF d.timeout = Absent THEN 2000 ELSE 1000,
          modbus.timeout)

IsIp(pieces) ==
  /\ Len(pieces) = 4 \/ (Len(pieces) = 5 /\ pieces[5] = "empty")
  /\ \A i \in 1..4 : pieces[i] = "octet"

(***************************************************************************)
(* However a call of ReadConfig ends, by itself or by an exception: the    *)
(* settings are those of the last Modbus device handled, made to fit,      *)
(* whatever the devices before it said; without one the caller's structure *)
(* is as it was.                                                           *)
(***************************************************************************)
SettingsAreTheLast ==
  /\ Handled("ModbusTcpClient") = {} => modbus = Absent /\ addr = old_addr
  /\ \A i \in Handled("ModbusTcpClient") :
       (\A j \in Handled("ModbusTcpClient") : j <= i) => SettingsFit(devices[i])

(***************************************************************************)
(* The places of the addresses in the connections looked at so far, and    *)
(* their order in AvDriver.xml.                                            *)
(***************************************************************************)
LookedAt(i) == 1..(IF i = device THEN connection ELSE Len(devices[i].connections))

At(place) == devices[place[1]].connections[place[2]]

Places ==
  UNION {{i} \X {c \in LookedAt(i) : IsIp(devices[i].connections[c])} :
           i \in Handled("ModbusTcpClient")}

Precedes(p, q) == p[1] < q[1] \/ (p[1] = q[1] /\ p[2] < q[2])

UpTo(place) == {p \in Places : p = place \/ Precedes(p, place)}

(***************************************************************************)
(* The addresses are those of all the Modbus devices handled, a dot at     *)
(* their end or not, in the order of the file and behind the ones the      *)
(* caller's structure had, without those an exception kept from being      *)
(* looked at.  So a second call with the same structure doubles them.      *)
(***************************************************************************)
AddressesAreAll ==
  /\ Len(addr) = Len(old_addr) + Cardinality(Places)
  /\ \A k \in DOMAIN old_addr : addr[k] = old_addr[k]
  /\ \A p \in Places : addr[Len(old_addr) + Cardinality(UpTo(p))] = At(p)
===============================================================================
