SPECIFICATION FairSpec
CHECK_DEADLOCK FALSE
CONSTANTS
  Checkouts = {c1}
  Deliveries = {d1, d2}
  Nobody = Nobody
  Events = {"authorized", "captured"}
  MaxCrashes = 1
  MaxFaults = 1
INVARIANTS
  TypeOK
  OkIsRecorded
  ChainPerStart
  WebhookOncePerStart
  SeenIsRecorded
PROPERTIES
  KeepsPaymentLedger
  CheckoutAnswers
  CapturedIsRecorded
