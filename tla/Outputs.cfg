SPECIFICATION Spec
CONSTANTS
  g1 = g1
  g2 = g2
  eDP = eDP
  DP1 = DP1
  DP2 = DP2
  Headset = Headset
  left = left
  right = right
  Gpus = {g1, g2}
  Primary = g1
  DisplayOnly = {g2}
  Hotpluggable = {g2}
  Connectors <- mcConnectors
  DeviceOf <- mcDeviceOf
  Kind <- mcKind
  Edid <- mcEdid
  Docked = {DP1}
  Configurable = {DP1}
  Ignorable = {g2}
  MaxEvents = 2
  Outs <- mcOuts
  Native <- mcNative
  Picks <- mcPicks
  Clients = {k}
  MaxChanges = 1
  Crtcs = {c1, c2}
  Atomic = {c1}
  Ramps = {1, 2}
CHECK_DEADLOCK FALSE
INVARIANT OutputsFollowHardware OutputsDisjoint HeadsTruthful GammaFollowsControl
