SPECIFICATION EmailPhoneSpec
CONSTANTS
  email = e1
  Emails = {e1}
  Phones = {p1}
  Pairs <- EmailPairs
  MaxAttempts = 2
  MaxFaults = 2
  MaxWrong = 3
  NoRow = NoRow
INVARIANTS
  EmailPhoneTypeOK
PROPERTIES
  OwnersGetThrough
CHECK_DEADLOCK FALSE
