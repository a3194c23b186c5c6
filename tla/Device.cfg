SPECIFICATION FairSpec
CONSTANTS
  MaxFaults = 2
  BackupBlocks = 2
  FirstUsable = 1
  FirstSlotLun = 1
  SlotALun = 1
  Devices <- McDevices
  Jobs <- McJobs
  MaxAsks = 1
  Kits <- McKits
  Requests <- McRequests
  Partitions <- McPartitions
  Chunks <- McChunks
  BadPackages = {3}
  Channels = {1, 2}
  Commands <- McCommands
  Packets = 2
  EraseOnly = {"boot"}
  ScriptPackages <- McPackages
  UserNames = {"u", "v"}
  Libraries <- McLibraries
  MaxPriority = 2
  UpdaterDir <- McDir
  Words <- McWords
  Layouts <- McLayouts
  PartLists <- McPartLists
  Mounted <- McMounted
  Mb = 2
INVARIANTS
  TablesKept
  DisksHold
  ModesHold
  FlashdHolds
  ScriptsHold
PROPERTIES
  Settles
CHECK_DEADLOCK FALSE
