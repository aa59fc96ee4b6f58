SPECIFICATION Spec
CONSTANTS
  App = {a1, a2}
  Client = client
  UserId = {1, 2}
  SubAppMax = 1
  SenderMax = 1
  SendErrors = TRUE
  Cancels = TRUE
  CancelInit = FALSE
  MaxRequests = 2
  MaxReplies = 1
  MaxLeaks = 1
SYMMETRY Symmetry
INVARIANT TypeOK
INVARIANT RefsAccounted
INVARIANT EndsOnce
INVARIANT OwnReply
INVARIANT QueueIsWatched
