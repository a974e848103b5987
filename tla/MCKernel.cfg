SPECIFICATION KernelSpec
CONSTANTS
  Word = 2
  Radix = 2
  ByteBase = 2
  Okay <- MCOkay
  Fail <- MCFail
  Several = 11
  Missing = 12
  Offline = 13
  Garbled = 30
  Services = {"query", "exec", "inspect", "attempt"}
  Payloads <- MCPayloads
  Details <- MCDetails
  Scripts <- MCScripts
  GroupBits = 3
  MaxBytes = 3
  Fixed <- MCFixed
  NotUtf8 = 15
  Devices <- MCDevices
  MaxDevices = 2
  Statuses <- MCStatuses
  Unknown <- MCUnknown
  Users = {0, 10}
  Packages = {"p", "q"}
  Displays = {0, 1}
  Windows = {"v", "w"}
  Precision = 10
  FractionBits = 12
  Tolerance = 256
  Callers = {1, 2}
  Readers = {1}
  MaxFrames = 2
  MaxClock = 1
  MaxBack = 1
  ScreenWidth = 3
  ScreenHeight = 2
  Shapes = {2, 4}
  Depths = {8, 16}
  Usable = {TRUE, FALSE}
  Locations <- MCLocations
  Regions <- MCRegions
  Targets <- MCTargets
  Reach = 7
\* A call, a report, a text and the bounded clock all come to an end.
CHECK_DEADLOCK FALSE
INVARIANTS AnswersExact FramesInOrder PixelsInPlace
