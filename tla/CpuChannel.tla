------------------------------ MODULE CpuChannel -------------------------------
(***************************************************************************)
(* The CPU channel of the monitor (src/main.cpp, section CPU): a cycle of  *)
(* the main loop reads /proc/stat twice, one second apart, compares the    *)
(* usages with the ones it sent last, and hands all of them to the OPC UA  *)
(* client when one of them moved.                                          *)
(*                                                                         *)
(* The kernel lists the CPUs that are online, in the order of their        *)
(* numbers; the code numbers the lines it finds from 0.                    *)
(*                                                                         *)
(* A usage is what unsigned differences of two lines give: a percent when  *)
(* the counters went up, zero when their sum stayed, and any int below     *)
(* when one of them went back or the two lines are of different CPUs, the  *)
(* least int when the quotient is beyond all ints.                         *)
(***************************************************************************)
EXTENDS OpcUaClient, IntNumbers, Maps

CONSTANTS
  Cpus,      \* the numbers of the CPUs the machine has
  CpuNode,   \* cpu_config.cpu_nodes: the node of each configured CPU
  CpuType,   \* cpu_config.type: one for all nodes, the last one config.xml has
  Usages,    \* what the counters may give: percents, or less
  Hotplug    \* whether CPUs may go offline and come back while we run

Configured == DOMAIN CpuNode

ASSUME CpuAssumption ==
  /\ Cpus \subseteq Nat
  /\ Configured \subseteq Nat
  /\ \A c \in Configured : CpuNode[c] \in NodeIds
  /\ \A c, d \in Configured : CpuNode[c] = CpuNode[d] => c = d
  /\ \A u \in Usages : u \in Int /\ LeastInt <= u /\ u <= 100
  /\ CpuType \in types_ \cup {""}    \* "": any that Write does not know
  /\ Hotplug \in BOOLEAN

VARIABLES
  pc,                    \* where the cycle is
  online,                \* the CPUs /proc/stat lists now
  t1,                    \* the CPUs it listed at the first read
  sample,                \* history: the usage of each CPU over the second
  config_loaded,         \* the static of collect_cpu_usages
  current_usages,        \* its result: usages by CPU number
  last_sent_cpu_usages

cpuVars == <<pc, online, t1, sample, config_loaded, current_usages,
             last_sent_cpu_usages>>
vars == <<opcVars, cpuVars>>

threshold == 1

(***************************************************************************)
(* detect_cpu_changes: whether abs(last - usage) > threshold.              *)
(***************************************************************************)
Near(a, b) == IsNear(threshold, a, b)

Moved(c) ==
  c \in DOMAIN last_sent_cpu_usages =>
    /\ ~Near(last_sent_cpu_usages[c], current_usages[c])
    /\ ~Overflows(last_sent_cpu_usages[c], current_usages[c])

PerhapsMoved(c) ==
  /\ c \in DOMAIN last_sent_cpu_usages
  /\ Overflows(last_sent_cpu_usages[c], current_usages[c])

SurelyChanged ==
  \/ Cardinality(DOMAIN last_sent_cpu_usages)
       # Cardinality(DOMAIN current_usages)
  \/ \E c \in DOMAIN current_usages : Moved(c)

PerhapsChanged == \E c \in DOMAIN current_usages : PerhapsMoved(c)

Changed == SurelyChanged \/ PerhapsChanged

(***************************************************************************)
(* The configs send_cpu_metrics builds: STRING stores s, INT stores i, any *)
(* other type stores f.                                                    *)
(***************************************************************************)
CpuMember ==
  IF CpuType = "STRING" THEN "s" ELSE IF CpuType = "INT" THEN "i" ELSE "f"

CpuConfig(c, usage) == WriteConfig(CpuNode[c], CpuType, CpuMember, usage)

CpuConfigs(usages) == {CpuConfig(c, usages[c]) : c \in DOMAIN usages}

-------------------------------------------------------------------------------
CpuTypeOK ==
  /\ OpcTypeOK
  /\ pc \in {"collect", "sleep", "detect"}
  /\ online \subseteq Cpus /\ t1 \subseteq Cpus
  /\ sample \in PartialMaps(Cpus, Usages)
  /\ config_loaded \in BOOLEAN
  /\ current_usages \in PartialMaps(Configured, Usages)
  /\ last_sent_cpu_usages \in PartialMaps(Configured, Usages)

CpuInit ==
  /\ OpcInit
  /\ pc = "collect"
  /\ online \in IF Hotplug THEN (SUBSET Cpus) \ {{}} ELSE {Cpus}
  /\ t1 = {}
  /\ sample = EmptyMap
  /\ config_loaded = FALSE
  /\ current_usages = EmptyMap
  /\ last_sent_cpu_usages = EmptyMap

(***************************************************************************)
(* collect_cpu_usages.  The configuration is loaded once, by the first     *)
(* cycle that can read config.xml; until then there are no usages.         *)
(***************************************************************************)
CollectUnloaded ==
  /\ pc = "collect"
  /\ ~config_loaded
  /\ current_usages' = EmptyMap
  /\ pc' = "detect"
  /\ UNCHANGED <<opcVars, online, t1, sample, config_loaded,
                 last_sent_cpu_usages>>

ReadFirst ==
  /\ pc = "collect"
  /\ config_loaded' = TRUE
  /\ t1' = online
  /\ sample' = EmptyMap           \* those of the last cycle are gone
  /\ current_usages' = EmptyMap
  /\ pc' = "sleep"
  /\ UNCHANGED <<opcVars, online, last_sent_cpu_usages>>

(***************************************************************************)
(* Line i gives a usage when it is the line of one CPU in both reads;      *)
(* otherwise it is that of two CPUs' counters, or of memory past the end   *)
(* of t2, and has nothing to do with either of them.                       *)
(***************************************************************************)
Line(S, c) == Cardinality({d \in S : d < c})

OnLine(i) == {c \in t1 \cap online : Line(t1, c) = i /\ Line(online, c) = i}

Lines == {i \in Configured : i < Cardinality(t1)}

ReadSecond ==
  /\ pc = "sleep"
  /\ \E usage \in [t1 \cap online -> Usages],
        any \in [{i \in Lines : OnLine(i) = {}} -> Usages] :
       /\ sample' = usage
       /\ current_usages' =
            [i \in Lines |->
               IF OnLine(i) = {} THEN any[i]
               ELSE usage[CHOOSE c \in OnLine(i) : TRUE]]
  /\ t1' = {}
  /\ pc' = "detect"
  /\ UNCHANGED <<opcVars, online, config_loaded, last_sent_cpu_usages>>

(***************************************************************************)
(* detect_cpu_changes, then send_cpu_metrics when it answers true.  The    *)
(* cache takes the usages whatever Write met.                              *)
(***************************************************************************)
KeepSilent ==
  /\ pc = "detect"
  /\ ~SurelyChanged \/ CpuConfigs(current_usages) = {}
  /\ pc' = "collect"
  /\ UNCHANGED <<opcVars, online, t1, sample, config_loaded, current_usages,
                 last_sent_cpu_usages>>

MovedConfigs == {CpuConfig(c, current_usages[c]) :
                    c \in {d \in DOMAIN current_usages : Moved(d)}}

SendMovedCachingAll ==  \* mutant: sends what moved, caches everything
  /\ pc = "detect"
  /\ Changed
  /\ CpuConfigs(current_usages) # {}
  /\ Write(MovedConfigs)
  /\ last_sent_cpu_usages' = current_usages
  /\ pc' = "collect"
  /\ UNCHANGED <<online, t1, sample, config_loaded, current_usages>>

SendMovedOnly ==      \* mutant: sends and caches what moved
  /\ pc = "detect"
  /\ Changed
  /\ CpuConfigs(current_usages) # {}
  /\ Write(MovedConfigs)
  /\ last_sent_cpu_usages' =
       [c \in DOMAIN current_usages |->
          IF Moved(c) THEN current_usages[c] ELSE last_sent_cpu_usages[c]]
  /\ pc' = "collect"
  /\ UNCHANGED <<online, t1, sample, config_loaded, current_usages>>

Send ==
  /\ pc = "detect"
  /\ Changed
  /\ CpuConfigs(current_usages) # {}
  /\ Write(CpuConfigs(current_usages))
  /\ last_sent_cpu_usages' = current_usages
  /\ pc' = "collect"
  /\ UNCHANGED <<online, t1, sample, config_loaded, current_usages>>

Cycle == CollectUnloaded \/ ReadFirst \/ ReadSecond \/ KeepSilent \/ Send

HotplugStep ==
  /\ Hotplug
  /\ \E S \in (SUBSET Cpus) \ {{}} : online' = S
  /\ UNCHANGED <<opcVars, pc, t1, sample, config_loaded, current_usages,
                 last_sent_cpu_usages>>

Environment == ServerStep /\ UNCHANGED cpuVars

CpuNext == Cycle \/ HotplugStep \/ Environment

CpuSpec == CpuInit /\ [][CpuNext]_vars

-------------------------------------------------------------------------------
(***************************************************************************)
(* Between two cycles the node of every CPU of the last sample shows, in   *)
(* the form its type has, a usage within the threshold of the sampled one, *)
(* unless the server missed the value handed over last; except that where  *)
(* the subtraction overflows, as it does between an idle CPU and one whose *)
(* counter went back, the CPU may pass for unmoved.  Concerns              *)
(* detect_cpu_changes and send_cpu_metrics: the cache they compare with    *)
(* stands for the server.                                                  *)
(***************************************************************************)
StandsFor(c, usage) ==
  \E u \in Usages :
    /\ nodes[CpuNode[c]] = Wire(CpuConfig(c, u))
    /\ Near(u, usage) \/ Overflows(u, usage)

ShownIsCurrent ==
  pc = "collect" =>
    \A c \in DOMAIN current_usages :
      CpuNode[c] \notin missed => StandsFor(c, current_usages[c])

(***************************************************************************)
(* The value shown in the node of CPU c is the usage of the CPU that has   *)
(* that number, as config.xml's attribute number promises.                 *)
(***************************************************************************)
ShownOfThatCpu ==
  pc = "collect" =>
    \A c \in DOMAIN current_usages \cap DOMAIN sample :
      CpuNode[c] \notin missed => StandsFor(c, sample[c])

(***************************************************************************)
(* A value the server missed is made up for once the server stays up and   *)
(* usages keep moving while the CPU has a line: no node stays missed for   *)
(* good.  Concerns the cache send_cpu_metrics replaces as a whole: one CPU *)
(* that moves sends them all.                                              *)
(***************************************************************************)
MissedIsMadeUpFor ==
  \A c \in Configured \cap Cpus :
    (/\ CpuNode[c] \in Accepted
     /\ CpuType \in types_
     /\ <>[]serverUp
     /\ []<>(pc = "detect" /\ SurelyChanged /\ c \in DOMAIN current_usages))
      => []<>(CpuNode[c] \notin missed)
===============================================================================
