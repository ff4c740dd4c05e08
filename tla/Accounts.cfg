SPECIFICATION MCSpec
CONSTANTS
  None = None
  Masked = Masked
  anna = anna
  ben = ben
  cleo = cleo
  club = club
  band = band
  mail1 = mail1
  mail2 = mail2
  mail3 = mail3
  till = till
  Users = {anna, ben, cleo}
  Emails = {mail1, mail2, mail3}
  Orgs = {club, band}
  Names = {till}
  Pins = {1234}
  Lists <- MCLists
  Workers = {w1, w2}
  MaxRequests = 2
  MaxCrashes = 1
  MaxLoginAttempts = 2
  MaxOtpAttempts = 1
  RecoveryCodes = 1
  MaxTokens = 12
  MaxExpired = 1
INVARIANTS
  TypeOK
  TwoFactorUsable
  ErasedStaysErased
  AnAdminRemains
  AcceptedOnce
  AdmittedBelongs
  RentedOnce
  RentalPrinterHasRental
SYMMETRY WorkerSymmetry
CHECK_DEADLOCK FALSE
