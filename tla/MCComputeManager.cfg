CONSTANTS
  Value = {0, 1}
  Sizes = {2, 4}
  Descriptors <- MCDescriptors
  Groups = {0, 1, 2}
  Fences = {f1}
  ExecutorFence = private
  MaxPipelines = 2
  MaxBuffers = 2
  MaxInvocations = 2
  MaxBindings = 2
  BindingSlots = 2
  MaxBindingBytes = 4
  MaxBoundBytes = 4
  Align = 2

SPECIFICATION ManagerSpec

INVARIANTS
  DispatchAtomic
  CommitComplete

PROPERTIES
  DispatchConfined
  FenceAfterCommit
