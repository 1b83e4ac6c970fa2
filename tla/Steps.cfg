CONSTANTS
  Thread = t1
  Threads = {t1}
  MaxCores = 2
  Asked = {2, Default}
  Default = Default
  Timed = 2
  Environments <- MCEnvironments
  Registrars = {r1}
  Plugins = {p1, p2}
  TrainablePlugins = {p2}
  PluginNames = {"fused", "custom", "auto"}
  MaxRegistrations = 1
  Names = {"auto", "vulkan"}
  Calls <- MCCalls
  Measured <- MCMeasured
  Nil = Nil
  Error = Error
SPECIFICATION CallsSpec
INVARIANTS
  PinnedThroughout
  LeavesNoTrace
  MeasuredAsRequested
  OneBackendPerStep
  AdapterNeverWidens
  BothPassesAgree
  GradientsLandWhereUsed
