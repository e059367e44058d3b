CONSTANTS
  ana = ana  rui = rui
  People = {ana, rui}
  NoOrg = NoOrg
  Types = {invoice}
  invoice = invoice
  Reference = Reference
  MaxWork = 6
  MaxPayments = 1
  MaxStaffing = 3
SPECIFICATION Spec
INVARIANTS NumbersIssuedOnce LoansKeepPlans NothingDangles OwnerRemains
SYMMETRY Symmetry
CHECK_DEADLOCK FALSE
