SPECIFICATION FairSpec
CONSTANTS
  App = {a1}
  Client = client
  UserId = {1, 2}
  SubAppMax = 2
  SenderMax = 1
  SendErrors = TRUE
  Cancels = FALSE
  CancelInit = FALSE
  MaxRequests = 2
  MaxReplies = 1
  MaxLeaks = 1
PROPERTY EndsWhenQuiet
