SPECIFICATION Spec
CONSTANTS
  speaker = speaker
  mic = mic
  render = render
  capture = capture
  s1 = s1
  s2 = s2
  p = p
  Devices = {speaker, mic}
  Removable = {speaker}
  Flows = {render, capture}
  FlowOf <- MCFlowOf
  Output = render
  Natives = {s1, s2}
  DeviceOf <- MCDeviceOf
  ProcessOf <- MCProcessOf
  NoDevice = NoDevice
  Nothing = Nothing
  MaxWork = 2
  Apart = TRUE
  Once = TRUE
SYMMETRY Symmetry
CHECK_DEADLOCK FALSE
INVARIANTS
  WindowsInv
  FollowsSystem
  MasterFollowsDefault
  CleanupLeavesNothing
