SPECIFICATION MCSpec
CONSTANTS
  pa = pa
  pb = pb
  log = log
  alias = alias
  run = run
  dir = dir
  Name = {pa, pb, log, alias, run, dir}
  Unknown = Unknown
  EnvironmentKey = {pa, pb}
  Runtime = {run}
  ProjectDir = dir
  ParameterOf <- Aliases
  Percent = Percent
  Escaped = Escaped
  Other = Other
  NotString = NotString
  Undefined = Undefined
  MaxLength = 12
PROPERTIES
  ResolveReturns
  RuntimeParametersKept
CHECK_DEADLOCK FALSE
