SPECIFICATION UsersSpec
CONSTANTS
  Limit <- LimitOfSettings
  Owner = "A"
  Others <- ThreeOthers
  MaxUsers = 4
  MaxFailures = 0
INVARIANT OwnSettings
