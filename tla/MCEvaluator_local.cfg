SPECIFICATION Spec
CONSTANTS
  none = none
  Unset = none
  Collectors = {c1, c2}
  Configs <- DropConfigs
  Arrivals <- AllArrivals
  MaxArrivals = 2
  Hash <- MCHash
  RegexMatch <- MCRegexMatch
  ValidRegexes = {".*", "prod"}
  MinInt64 <- MinInt
  MaxInt64 = 9
  NsPerMs = 10
CHECK_DEADLOCK FALSE
INVARIANTS
  LocalSameEverywhere
