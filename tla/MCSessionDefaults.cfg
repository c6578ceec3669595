SPECIFICATION SessionSpec
CONSTANTS
  dock = dock  eventlog = eventlog  screensaver = screensaver  power = power
  part1 = part1  part2 = part2
  Name = {dock, screensaver, power, eventlog}
  Module = {dock, screensaver, power, eventlog}
  Call = {part1, part2}
  Dep <- EventlogDep
  Part <- EventlogPart
  InitConfig <- AllOn
  Request <- PartEnabled
  Disable <- PartDisabled
  Flag <- NoFlags
  DebugLog <- NoDebug
  MaxChanges = 0
INVARIANT DefaultsStart
