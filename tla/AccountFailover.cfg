SPECIFICATION FairSpec
CONSTANTS
  Calls = {c1, c2}
  AccountCount = 2
  Guests = {1}
  GuestMaxRetries = 1
  MaxExpiring = 1
INVARIANTS TypeOK ExhaustedAfterAll HealthyAccountFound RetriesWithNewToken
PROPERTIES HealthyIndexStays CallsReturn
CHECK_DEADLOCK FALSE
