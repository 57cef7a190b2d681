CONSTANTS
  Value = {0, 1}
  Sizes = {1, 2}
  Descriptors <- MCDescriptors
  Groups = {1}
  Fences = {}
  ExecutorFence = private
  MaxPipelines = 1
  MaxBuffers = 2
  MaxInvocations = 2
  MaxBindings = 2
  BindingSlots = 2
  MaxBindingBytes = 2
  MaxBoundBytes = 2
  Align = 1
  Handles = {1, 2}
  GuestIds = {1}
  CommandLists <- MCCommandLists
  MaxResources = 2
  MaxKernels = 1
  MaxResourceBytes = 2
  MaxTotalResourceBytes = 3
  MaxCommands = 2
  CounterMax = 3

SPECIFICATION Spec

INVARIANTS
  RegistrySound
  AccountingExact
  OnlyBackendFails

PROPERTIES
  GuestConfined
  ImplementsContract
