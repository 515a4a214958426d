-------------------------------- MODULE MCCalls --------------------------------
(***************************************************************************)
(* mdstat: files of at most MaxLines lines over two configured arrays and  *)
(* one that is not; four lines hold two sections with a detail each, or    *)
(* one with a detail, a blank line or a foreign header, and a stray detail.*)
(*                                                                         *)
(* The client: a node of 16 or of 32 bits and one of the two types that    *)
(* cannot be read, with zero and the largest value of 16 bits.             *)
(*                                                                         *)
(* AvDriver.xml: two devices, with the numbers at and beyond both ends of  *)
(* their ranges, and connections of every kind in either order.            *)
(***************************************************************************)
EXTENDS Calls

CONSTANTS md0, md1, md9, none, nodeA, nodeB, before

MCNames == {md0, md1, md9}
MCConfigured == {md0, md1}
Symmetry == {[n \in MCConfigured |-> IF n = md0 THEN md1 ELSE md0],
             [n \in MCConfigured |-> n]}

MCNodeIds == {nodeA, nodeB}
Types(t, u) == [n \in MCNodeIds |-> IF n = nodeA THEN t ELSE u]
MCNodeTypes == {Types("INT", "BOOL"), Types("DINT", "STRING")}

Octets == [i \in 1..4 |-> "octet"]
With(piece) == [Octets EXCEPT ![2] = piece]
Ip == Octets
Dotted == Append(Octets, "empty")
Wrong == <<"octet", "empty">>
Big == <<"octet", "big", "empty", "octet">>
Huge == With("huge")
Gap == With("empty")

Numbers(socket, request, port, timeout) ==
  [max_socket |-> socket, max_request |-> request, port |-> port,
   timeout |-> timeout]

NumberSets == {Numbers(Absent, Absent, Absent, Absent), Numbers(1, 32, 0, 1000),
               Numbers(17, 33, 65536, 999), Numbers(16, 0, 65535, 32000),
               Numbers(0, 1, -1, 32001)}

ConnectionSets == {<<>>, <<Ip>>, <<Dotted, Wrong, Ip>>, <<Ip, Huge, Dotted>>,
                   <<Gap, Ip>>, <<Big, Dotted>>}

Device_(type, numbers, connections) ==
  [type |-> type, connections |-> connections,
   max_socket |-> numbers.max_socket, max_request |-> numbers.max_request,
   port |-> numbers.port, timeout |-> numbers.timeout]

MCDeviceTypes == {"ModbusTcpClient", "OpcUaClient", "other"}

MCDevices == {Device_(t, n, c) : t \in MCDeviceTypes \ {"other"}, n \in NumberSets,
                                 c \in ConnectionSets}
               \cup {Device_("other", Numbers(1, 1, 1, 1000), <<>>)}

MCDeviceLists == {<<>>} \cup {<<d, e>> : d, e \in MCDevices}
===============================================================================
