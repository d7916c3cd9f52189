SPECIFICATION Spec
CONSTANTS
  Disks <- MCDisks
  Installed <- MCInstalled
  Specs <- MCSpecs
  Ntfs = {"C", "D"}
  ExecutableNames <- MCExecutableNames
  ManifestNames = {"package.json"}
  NoVersionNames = {"c.exe"}
  PeImports <- MCPeImports
  Workers = {1, 2}
  BatchSize = 3
  MaxChanges = 1
INVARIANT SuccessIsComplete
