SPECIFICATION ScrapeSpec
CONSTANTS
  Numbers = {"n", "0", "1"}
  ShortNames = {"x"}
  Things <- MCThings
  DiskNames <- MCDiskNames
  IfNames <- MCIfNames
  Mounts <- MCMounts
  Cpus <- MCCpus
  MemKeys <- MCMemKeys
  VmKeys <- MCVmKeys
  Protocols <- MCProtocols
  Fates <- MCFates
  MaxTime = 2
  Pids <- MCPids
  Search = "20"
  Cmdline <- MCCmdline
  Keys = {"live_a", "live_b", "live_c"}
INVARIANTS SamplesOwn SamplesOnce
PROPERTY ScrapeEnds
