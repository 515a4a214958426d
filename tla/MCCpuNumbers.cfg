SPECIFICATION CpuSpec
CONSTANTS
  cpu0 = cpu0
  cpu1 = cpu1
  NodeIds <- MCNodeIds
  Accepted <- MCNodeIds
  NoValue = NoValue
  Garbage = Garbage
  Cpus <- MCTwoCpus
  CpuNode <- MCCpuNode
  CpuType = "INT"
  Usages <- MCUsages
  Hotplug = TRUE
INVARIANTS
  ShownOfThatCpu
