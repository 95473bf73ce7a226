SPECIFICATION UsersSpec
CONSTANTS
  Limit <- LimitOfSettings
  Owner = "A"
  Others <- TwoOthers
  MaxUsers = 4
  MaxFailures = 2
INVARIANTS UsersTypeOK CountsAgree NoneHidden OwnerStays
PROPERTY ListChanges
