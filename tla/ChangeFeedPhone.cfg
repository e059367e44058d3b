CONSTANTS
  c1 = c1  c2 = c2  d1 = d1  i1 = i1  p1 = p1  phone = phone  tab = tab
  Clients = {c1, c2}
  Debts = {d1}
  Periods = {i1}
  Payments = {p1}
  ParentOf <- MCParentOf
  Legacy <- MCLegacy
  LegacyKey <- MCLegacyKey
  LegacyLink <- MCLegacyLink
  Scopes = {"mine", "theirs"}
  ScopeOf <- MCScopeOf
  Phones <- MCPhone
  Tabs <- MCNone
  DeviceScope <- MCDeviceScope
  NoPeriod = NoPeriod
  PageSize = 2
  MaxPk = 7
SPECIFICATION Spec
INVARIANTS TypeOK FreshOutsideGap LogHoldsLatest LinksLive
PROPERTIES FloorCoversRemoval
CHECK_DEADLOCK FALSE
