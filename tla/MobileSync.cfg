CONSTANTS
  phone = phone
  Phones = {phone}
  Web = Web
  BaseAmount = 2
  PenaltyAmount = 1
  Amounts = {3}
  MaxId = 5
  MaxEdits = 3
  MaxUploads = 2
SPECIFICATION Spec
INVARIANTS BooksFollow
PROPERTIES FactsSurvive NothingDropped
CHECK_DEADLOCK FALSE
