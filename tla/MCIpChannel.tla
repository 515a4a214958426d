------------------------------ MODULE MCIpChannel ------------------------------
(***************************************************************************)
(* An AND group and an OR group over two addresses they share; an edit may *)
(* take out the AND group or the address b, and a read may fail.           *)
(***************************************************************************)
EXTENDS IpChannel

CONSTANTS a, b, g1, g2, empty

MCIps == {a, b}
MCGroups == {g1, g2}
MCNodeIds == {g1, g2, empty}
MCMembers == [g \in MCGroups |-> {a, b}]
MCAndGroups == {g1}
MCGroupFiles == {{}, {g2}, {g1, g2}}
MCAddressFiles == {{}, {a}, {a, b}}
===============================================================================
