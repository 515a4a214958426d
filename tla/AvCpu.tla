--------------------------------- MODULE AvCpu ---------------------------------
(***************************************************************************)
(* The CPU part of class AvDiagnostics.  It differs from the CPU channel   *)
(* of the monitor in that every CPU has a type of its own and the nodes    *)
(* may be loaded again, over those loaded before.                          *)
(*                                                                         *)
(* A usage is what unsigned differences of two lines of /proc/stat give:   *)
(* a percent, or, after a counter went back or when the lines are of two   *)
(* CPUs, any int below, the least int if the quotient is beyond all ints.  *)
(***************************************************************************)
EXTENDS AvDocument, IntNumbers

CONSTANTS
  AvCpus,       \* the numbers of the CPUs config.xml may name
  AvCpuNode,    \* AvCpuNode[c]: the node of CPU c
  Usages        \* what the counters may give: percents, or less

(***************************************************************************)
(* A section gives the type of every CPU it names.                         *)
(***************************************************************************)
ASSUME AvCpuAssumption ==
  /\ AvCpus \subseteq Nat
  /\ \A c \in AvCpus : AvCpuNode[c] \in NodeIds
  /\ \A c, d \in AvCpus : AvCpuNode[c] = AvCpuNode[d] => c = d
  /\ Editions("cpu") \subseteq PartialMaps(AvCpus, types_ \cup {""})
  /\ \A u \in Usages : u \in Int /\ LeastInt <= u /\ u <= 100

VARIABLES
  cpu_nodes_,            \* the type of every CPU ever loaded
  current_cpu_usages_,
  last_sent_cpu_usages_,
  handed_types           \* history: the types of the last handover

avCpuVars == <<cpu_nodes_, current_cpu_usages_, last_sent_cpu_usages_,
               handed_types>>

AvThreshold == 1

(***************************************************************************)
(* checkForCpuChanges: whether abs(last - usage) > threshold.              *)
(***************************************************************************)
Near(a, b) == IsNear(AvThreshold, a, b)

AvMovedDown(c) ==         \* mutant: abs is missing
  c \in DOMAIN last_sent_cpu_usages_ =>
    last_sent_cpu_usages_[c] > current_cpu_usages_[c] + AvThreshold

AvMoved(c) ==
  c \in DOMAIN last_sent_cpu_usages_ =>
    LET a == last_sent_cpu_usages_[c]
        b == current_cpu_usages_[c]
    IN  ~Near(a, b) /\ ~Overflows(a, b)

PerhapsMoved(c) ==
  /\ c \in DOMAIN last_sent_cpu_usages_
  /\ Overflows(last_sent_cpu_usages_[c], current_cpu_usages_[c])

SurelyChanged ==
  \/ Cardinality(DOMAIN last_sent_cpu_usages_)
       # Cardinality(DOMAIN current_cpu_usages_)
  \/ \E c \in DOMAIN current_cpu_usages_ : AvMoved(c)

PerhapsChanged == \E c \in DOMAIN current_cpu_usages_ : PerhapsMoved(c)

AvCpuMember(type) ==
  IF type = "STRING" THEN "s" ELSE IF type = "INT" THEN "i" ELSE "f"

AvCpuConfig(c, type, usage) ==
  WriteConfig(AvCpuNode[c], type, AvCpuMember(type), usage)

AvCpuConfigs ==
  {AvCpuConfig(c, cpu_nodes_[c], current_cpu_usages_[c]) :
     c \in DOMAIN current_cpu_usages_ \cap DOMAIN cpu_nodes_}

-------------------------------------------------------------------------------
AvCpuTypeOK ==
  /\ cpu_nodes_ \in PartialMaps(AvCpus, types_ \cup {""})
  /\ current_cpu_usages_ \in PartialMaps(DOMAIN cpu_nodes_, Usages)
  /\ last_sent_cpu_usages_ \in PartialMaps(DOMAIN cpu_nodes_, Usages)
  /\ DOMAIN handed_types = DOMAIN last_sent_cpu_usages_

AvCpuInit ==
  /\ cpu_nodes_ = EmptyMap
  /\ current_cpu_usages_ = EmptyMap
  /\ last_sent_cpu_usages_ = EmptyMap
  /\ handed_types = EmptyMap

loadCpuConfigAnew ==      \* mutant: the nodes loaded before are dropped
  /\ av_pc = "idle"
  /\ doc_ \notin {NoRoot, NoSection}
  /\ cpu_nodes_' = doc_
  /\ UNCHANGED <<opcVars, callVars, current_cpu_usages_,
                 last_sent_cpu_usages_, handed_types>>

loadCpuConfig ==
  /\ av_pc = "idle"
  /\ doc_ \notin {NoRoot, NoSection}
  /\ cpu_nodes_' = Merge(cpu_nodes_, doc_)
  /\ UNCHANGED <<opcVars, callVars, current_cpu_usages_,
                 last_sent_cpu_usages_, handed_types>>

loadCpuConfigCrash ==
  /\ av_pc = "idle"
  /\ doc_ \in {NoRoot, NoSection}
  /\ Crash
  /\ UNCHANGED avCpuVars

(***************************************************************************)
(* collectCpuUsage.  The first read of /proc/stat has n lines of CPUs; the *)
(* usages of the lines the nodes are for may come out as anything.         *)
(***************************************************************************)
collectCpuUsage ==
  /\ Goes("idle", "collected")
  /\ \E n \in 1..(Cardinality(AvCpus) + 1) :
       current_cpu_usages_' \in
         [DOMAIN cpu_nodes_ \cap 0..(n - 1) -> Usages]
  /\ UNCHANGED <<opcVars, batch, cpu_nodes_, last_sent_cpu_usages_,
                 handed_types>>

AvCpuKept ==
  /\ Goes("collected", "idle")
  /\ ~SurelyChanged \/ AvCpuConfigs = {}
  /\ UNCHANGED <<opcVars, batch, avCpuVars>>

HandedTypes ==
  [c \in DOMAIN current_cpu_usages_ |-> cpu_nodes_[c]]

sendCpuUsage ==
  /\ Goes("collected", "idle")
  /\ SurelyChanged \/ PerhapsChanged
  /\ AvCpuConfigs # {}
  /\ Write(AvCpuConfigs)
  /\ last_sent_cpu_usages_' = current_cpu_usages_
  /\ handed_types' = HandedTypes
  /\ UNCHANGED <<batch, cpu_nodes_, current_cpu_usages_>>

AvCpuStep ==
  \/ loadCpuConfig \/ loadCpuConfigCrash \/ collectCpuUsage \/ AvCpuKept
  \/ sendCpuUsage

-------------------------------------------------------------------------------
(***************************************************************************)
(* Between two cycles the node of every CPU collected last shows a usage   *)
(* within the threshold of the collected one, in the form its type had     *)
(* when it was handed over, unless the server missed it; except where the  *)
(* subtraction overflows: a CPU that idles after its counter went back, or *)
(* the other way round, may pass for unmoved, and its node may go on to    *)
(* show the least int.  Concerns checkForCpuChanges and sendCpuUsage.      *)
(***************************************************************************)
AvCpuShown ==
  av_pc = "idle" =>
    \A c \in DOMAIN current_cpu_usages_ :
      AvCpuNode[c] \notin missed =>
        \E u \in Usages :
          /\ nodes[AvCpuNode[c]] = Wire(AvCpuConfig(c, handed_types[c], u))
          /\ Near(u, current_cpu_usages_[c])
               \/ Overflows(u, current_cpu_usages_[c])
===============================================================================
