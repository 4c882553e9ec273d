SPECIFICATION FairSpec
CONSTANTS
  NumHooks = 4
  WebhookFriendly <- MCWebhookFriendly
  MaxDeliveries = 2
INVARIANTS
  ServiceBehindAllHooks
  AnswerProvenance
  FailureStaysFailure
  EveryResponseHookRuns
  RetryKeepsMessage
PROPERTIES
  ImplementsContract
CHECK_DEADLOCK FALSE
