SPECIFICATION GatewaySpec
CONSTANTS
  NumHooks = 7
  WebhookFriendly = {1, 3, 7}
  Quota = 2
  MaxAttempts = 3
  MaxDeliveries = 2
INVARIANTS
  GatewayTypeOK
  FulfilledOncePerKey
  HeldKeyMeansFulfilled
  NothingChargedForFailures
PROPERTIES
  EveryCallIsSettled
CHECK_DEADLOCK FALSE
