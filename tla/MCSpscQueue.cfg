CONSTANTS
  QUEUE_SIZE = 4
  NUM_MESSAGES = 3
SPECIFICATION FairSpec
PROPERTY AllReceived
CHECK_DEADLOCK FALSE
