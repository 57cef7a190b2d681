CONSTANTS
  Value = {0, 1}
  Sizes = {1}
  Descriptors <- MCDescriptors
  Groups = {}
  Fences = {}
  ExecutorFence = private
  MaxPipelines = 1
  MaxBuffers = 1
  MaxInvocations = 1
  MaxBindings = 1
  BindingSlots = 1
  MaxBindingBytes = 1
  MaxBoundBytes = 1
  Align = 1
  CommandLists <- MCCommandLists
  VertexSizes = {3}
  TextureSizes = {2, 3}
  IndexLists <- MCIndexLists
  VertexStride = 1
  MaxGraphicsBuffers = 2
  MaxTextures = 1
  MaxExecuted = 1

SPECIFICATION ExecutorSpec

CONSTRAINT Separate

INVARIANTS
  ListAccounted

PROPERTIES
  FailedCommandLeavesNoTrace
