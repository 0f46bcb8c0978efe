SPECIFICATION Spec
CONSTANTS
  Reserved = 1
  Descriptors = 7
  Unused = {0}
  Registrants = {"spurious", "pit", "d1", "d2"}
  Drivers = {"d1", "d2"}
  Magic = Magic
  Idle = Idle
  NoLapic = NoLapic
  NoTable = NoTable
  Irqs = 8
  Machines <- MCMachines
  Line <- MCLine
  FirmwareLvt <- MCLvt
  Targets = {0, 1, 2}
INVARIANTS
  OnlyBootable
  OwnTick
  SourcesHandled
  RightHandler
  IpiReaches
  PlatformAsListed
PROPERTIES
  Exclusive
  BootCompletes
CHECK_DEADLOCK FALSE
