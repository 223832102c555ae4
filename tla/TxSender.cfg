SPECIFICATION FairSpec
CONSTANTS
  SEND_MAX_ATTEMPTS = 3
  Validity = 3
INVARIANT SenderTypeOK
PROPERTY PromiseSpec
PROPERTY NoResendWhileLive
PROPERTY CallerIsAnswered
CHECK_DEADLOCK FALSE
