----------------------------- MODULE AvDiagnostics -----------------------------
(***************************************************************************)
(* class AvDiagnostics (src/avdiagnostics.cpp): its six parts.  They share *)
(* the document and the client and no other member, so one at a time is    *)
(* looked at (see AvDocument).                                             *)
(***************************************************************************)
EXTENDS AvCpu, AvDisks, AvRam, AvProcesses, AvRaids, AvIps

avVars == <<opcVars, callVars, avCpuVars, avDiskVars, avRamVars, avProcVars,
            avRaidVars, avIpVars>>

-------------------------------------------------------------------------------
(***************************************************************************)
(* Every part keeps its data in shape, whatever documents are loaded.      *)
(***************************************************************************)
AvTypeOK ==
  /\ AvDocumentTypeOK
  /\ AvCpuTypeOK
  /\ AvDisksTypeOK
  /\ AvRamTypeOK
  /\ AvProcessesTypeOK
  /\ AvRaidsTypeOK
  /\ AvIpsTypeOK

(***************************************************************************)
(* The RamState of a part that is not looked at is of no interest.         *)
(***************************************************************************)
AvInit ==
  /\ AvDocumentInit
  /\ AvCpuInit
  /\ AvDisksInit
  /\ AvRamInit
  /\ part # "ram" => /\ data = last_sent_ram_
                     /\ data = CHOOSE state \in AvReadings : TRUE
  /\ AvProcessesInit
  /\ AvRaidsInit
  /\ AvIpsInit

CpuPart ==
  /\ part = "cpu"
  /\ AvCpuStep
  /\ UNCHANGED <<avDiskVars, avRamVars, avProcVars, avRaidVars, avIpVars>>

DisksPart ==
  /\ part = "disks"
  /\ AvDisksStep
  /\ UNCHANGED <<avCpuVars, avRamVars, avProcVars, avRaidVars, avIpVars>>

RamPart ==
  /\ part = "ram"
  /\ AvRamStep
  /\ UNCHANGED <<avCpuVars, avDiskVars, avProcVars, avRaidVars, avIpVars>>

ProcessesPart ==
  /\ part = "processes"
  /\ AvProcessesStep
  /\ UNCHANGED <<avCpuVars, avDiskVars, avRamVars, avRaidVars, avIpVars>>

RaidsPart ==
  /\ part = "raids"
  /\ AvRaidsStep
  /\ UNCHANGED <<avCpuVars, avDiskVars, avRamVars, avProcVars, avIpVars>>

IpsPart ==
  /\ part = "ips"
  /\ AvIpsStep
  /\ UNCHANGED <<avCpuVars, avDiskVars, avRamVars, avProcVars, avRaidVars>>

AnyPart ==
  /\ \/ loadXml
     \/ ServerStep /\ UNCHANGED callVars
  /\ UNCHANGED <<avCpuVars, avDiskVars, avRamVars, avProcVars, avRaidVars,
                 avIpVars>>

AvNext ==
  \/ CpuPart \/ DisksPart \/ RamPart \/ ProcessesPart \/ RaidsPart \/ IpsPart
  \/ AnyPart

AvSpec == AvInit /\ [][AvNext]_avVars

-------------------------------------------------------------------------------
(***************************************************************************)
(* The parts for CPUs, processes, arrays and addresses implement           *)
(* Publication: what their caches hold the server shows, except for what   *)
(* is known to be missed or is still on its way.                           *)
(***************************************************************************)
AvSentCpu(c) ==
  IF c \in DOMAIN last_sent_cpu_usages_
    THEN Wire(AvCpuConfig(c, handed_types[c], last_sent_cpu_usages_[c]))
    ELSE NoValue

AvSentGroup(g, sent_) ==
  IF g \in DOMAIN sent_ THEN AsNumber(sent_[g]) ELSE NoValue

AvSentRaid(r) ==
  IF r \in DOMAIN last_sent_raids_ THEN last_sent_raids_[r].status ELSE NoValue

AvSent(n) ==
  IF part = "cpu" /\ \E c \in AvCpus : AvCpuNode[c] = n
    THEN AvSentCpu(CHOOSE c \in AvCpus : AvCpuNode[c] = n)
  ELSE IF part = "raids" /\ \E r \in AvRaidNames : AvStatusNode[r] = n
    THEN AvSentRaid(CHOOSE r \in AvRaidNames : AvStatusNode[r] = n)
  ELSE IF part = "processes" THEN AvSentGroup(n, last_sent_process_states_)
  ELSE IF part = "ips" THEN AvSentGroup(n, last_sent_ips_)
  ELSE NoValue

AvKeys ==
  {AvCpuNode[c] : c \in AvCpus} \cup AvGroups \cup AvIpGroups
    \cup {AvStatusNode[r] : r \in AvRaidNames}

AvValues ==
  Usages \cup {Int16(u) : u \in Usages} \cup {0, 1, Garbage}
    \cup {state.status : state \in AvRaidStates}

(***************************************************************************)
(* The nodes of the disks, of the memory and of the health of the arrays,  *)
(* whose parts keep other books.  No node of a key is one of them, or goes *)
(* by the name of an address.                                              *)
(***************************************************************************)
AvOtherNodes ==
  (UNION {AvAmountNodes[d] \cup AvUnitsNodes[d] : d \in AvDiskNames})
    \cup (UNION {AvRamNodes[f] : f \in AvFields})
    \cup {AvHealthNode[r] : r \in AvRaidNames}

ASSUME AvKeysAssumption ==
  /\ AvKeys \cap (AvOtherNodes \cup AvAddresses) = {}
  /\ NoValue \notin AvValues

OnItsWay == NodesOf(batch) \cup NodesOf(RaidBatch) \cup ChangedGroups

AvPub == INSTANCE Publication WITH
           Keys <- AvKeys, Values <- AvValues,
           sent <- [n \in AvKeys |-> AvSent(n)],
           shown <- [n \in AvKeys |-> nodes[n]],
           missed <- (missed \cup OnItsWay) \cap AvKeys

AvPublishes == AvPub!PubSpec
===============================================================================
