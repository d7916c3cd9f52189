SPECIFICATION Spec
CONSTANTS
  Pids <- MCPids
  Self = 5
  Mine <- MCMine
  Inodes <- MCInodes
  Sock <- MCSock
  Hidden = {14}
  Boots <- MCBoots
  HostFS = "host"
  NoContainer = "none"
  NoExe = "unread"
  UnreadableExe = "unread"
  NoArgv <- MCNoArgv
  FibTrie <- MCFibTrie
  Loopback = {"lo4"}
  Reuse = FALSE
  MaxChanges = 2
  PathOf <- MCPathOf
  Fold <- MCFold
  OSPaths = {}
  AddressKind <- MCKinds
  Configs <- MCConfigs
  FileOwners <- MCFileOwners
  Installed <- MCInstalled
  Filesystems <- MCFilesystems
  NoFS <- MCNoFS
  Engine <- MCEngine
  Node <- MCNode
  Canon <- MCCanon
  SymlinkHops = 4
  NoImage = "noimage"
  DockerMeta <- MCMeta
  BundleMeta <- MCEmpty
INVARIANTS
  OpenPortsHaveRows
  ContainersStayOffHost
  ForwardersNameTheBackend
  ContainerSoftwareIsItsOwn
