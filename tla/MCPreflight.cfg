SPECIFICATION PreflightSpec
CONSTANTS
  Modules <- MCModules
  DeviceLists <- MCDeviceLists
  Configs <- MCConfigs
  Dispatches <- MCDispatches
  MemoryBits <- MCMemoryBits
INVARIANTS
  LimitsSeeTheRealSize
  BindingsExact
  ProfileAccepted
  OpensOnlyTheNamed
  BaselineSuffices
  MemorySuits
