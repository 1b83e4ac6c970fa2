CONSTANTS
  Keys = {k1, k2}
  Sizes = {1}
  Data = {d1}
  Nil = Nil
  Garbage = Garbage
  Absent = Absent
  Faults = {"instance", "properties", "device", "buffer", "memoryType", "memory", "bind", "mapping",
            "shaderModule", "setLayout", "descriptorPool", "descriptorSet", "pipelineLayout",
            "pipeline", "commandPool", "commandBuffer", "fence", "reset", "begin", "end",
            "resetFence", "submit", "devices", "families", "timeout", "lost"}
  Probe = Probe
SPECIFICATION Spec
CHECK_DEADLOCK FALSE
SYMMETRY KeySymmetry
INVARIANTS NothingLeaks DestroysWhatExists ParentsOutlive UntouchedInFlight WaitMeansDone
PROPERTY ImplementsTheApi
