------------------------------ MODULE RaftClient ------------------------------
(***************************************************************************)
(* The life of a request in the raft client library (raft_client.c).       *)
(* Application threads submit and cancel requests; one client thread runs  *)
(* the timer, the receive handler and the sender, one handler at a time.   *)
(* They share a tree of sub-app objects, one per pending user id, whose    *)
(* references are counted, and the queue of objects to send.  One mutex    *)
(* protects both; a step here is one critical section or the code between  *)
(* two of them.                                                            *)
(*                                                                         *)
(* The object of the n-th call to submit is the number n; its RPC carries  *)
(* n as message id.  An object is destroyed, and the application told its  *)
(* result, when its last reference is put.                                 *)
(*                                                                         *)
(* A reply that the receive handler drops (not from the leader, a system   *)
(* error) is a reply that is not delivered.  Whether the leader is viable  *)
(* is chosen anew each time a thread asks.                                 *)
(***************************************************************************)
EXTENDS Integers, Sequences, FiniteSets, SequencesExt

CONSTANTS
  App,          \* application threads
  Client,       \* the client thread
  UserId,       \* rncui values, numbers: the tree is ordered by them
  SubAppMax,    \* raftClientSubAppMax
  SenderMax,    \* RAFT_CLIENT_RPC_SENDER_MAX
  SendErrors,   \* the transport may fail with an error other than EAGAIN
  Cancels,      \* applications call raft_client_request_cancel()
  CancelInit,   \* also while the request is being initialized
  MaxRequests,  \* bound: calls of raft_client_request_submit()
  MaxReplies,   \* bound: replies on their way to one request
  MaxLeaks      \* bound: cancels of a request beyond its initialization

ASSUME ClientAssumption == IsFiniteSet(App) /\ Client \notin App
ASSUME LimitAssumption ==
  /\ UserId \subseteq Nat /\ UserId # {}
  /\ SubAppMax \in Nat /\ SenderMax \in Nat \ {0}
ASSUME SwitchAssumption ==
  SendErrors \in BOOLEAN /\ Cancels \in BOOLEAN /\ CancelInit \in BOOLEAN
ASSUME BoundAssumption == MaxRequests \in Nat /\ MaxReplies \in Nat /\ MaxLeaks \in Nat

VARIABLES
  alive,      \* objects in the tree
  user,       \* rcsa_rncui of each object
  ref_cnt,    \* rte_ref_cnt
  flags,      \* the rcrh_ bits that are set
  result,     \* rcrh_error, or the message whose data was copied
  age,        \* whether the timeout of the request has passed
  replies,    \* number of replies on their way, per message
  sendq,      \* rci_sendq; rcrh_sendq is membership
  expiredq,   \* expiredq of raft_client_check_pending_requests()
  pc, cur,    \* per thread: what it does next, and to which object
  queue,      \* per application thread: the leader was viable
  reply,      \* client thread: the message id of the reply at hand
  remaining_sends,
  notified,   \* the event pipe RAFT_EVP_CLIENT is readable
  throttled,  \* rci_requests_throttled
  resend,     \* requests_throttled of raft_client_thread()
  leaks       \* references that nobody will put, per object

objVars  == <<alive, user, ref_cnt, flags, result, age, replies, leaks>>
qVars    == <<sendq, expiredq>>
sendVars == <<remaining_sends, notified, throttled, resend>>
vars == <<objVars, qVars, sendVars, pc, cur, queue, reply>>

Thread  == App \cup {Client}
Request == 1 .. MaxRequests
Flag == {"initializing", "blocking", "delay", "sent", "completing", "ready",
         "cancel", "send_failed"}
NoRequest == 0

\* What a thread does next.
Label == {"idle", "add", "init", "enqueue", "notify", "wait", "epoll", "reply",
          "send", "launch", "dequeue_put", "cancel", "done", "done_put", "put"}

\* Errors of a request, as errno values: it timed out, it was canceled, it
\* could not be sent (any transport error), it could not be initialized.
ETIMEDOUT == -110
ECANCELED == -125
ECOMM     == -70
EMSGSIZE  == -90

Goto(t, where) == pc' = [pc EXCEPT ![t] = where]

\* The end of a call of an application thread.
Return(t) == Goto(t, "idle") /\ cur' = [cur EXCEPT ![t] = NoRequest]

\* raft_client_check_pending_requests() takes the next object off its queue q,
\* or returns.
NextExpired(q) ==
  IF q = <<>>
    THEN /\ expiredq' = q
         /\ Goto(Client, "epoll")
         /\ cur' = [cur EXCEPT ![Client] = NoRequest]
    ELSE /\ expiredq' = Tail(q)
         /\ Goto(Client, "cancel")
         /\ cur' = [cur EXCEPT ![Client] = Head(q)]

Init ==
  /\ alive = {} /\ sendq = <<>> /\ expiredq = <<>>
  /\ user = [x \in Request |-> CHOOSE u \in UserId : TRUE]
  /\ ref_cnt = [x \in Request |-> 0]
  /\ flags = [x \in Request |-> {}]
  /\ result = [x \in Request |-> NoRequest]
  /\ age = [x \in Request |-> "unused"]
  /\ leaks = [x \in Request |-> 0]
  /\ replies = [x \in Request |-> 0]
  /\ pc = [t \in Thread |-> IF t = Client THEN "epoll" ELSE "idle"]
  /\ cur = [t \in Thread |-> NoRequest]
  /\ queue = [t \in App |-> FALSE]
  /\ reply = NoRequest /\ remaining_sends = 0
  /\ notified = FALSE /\ throttled = FALSE /\ resend = FALSE

-----------------------------------------------------------------------------
(* The reference-counted tree *)

\* raft_client_sub_app_lookup(): the objects of user u, at most one.
Find(u) == {x \in alive : user[x] = u}

\* raft_client_sub_app_put(): the last put destroys the object, which runs the
\* callback or wakes the blocked thread (raft_client_sub_app_destruct()).
Put(x) ==
  /\ ref_cnt' = [ref_cnt EXCEPT ![x] = @ - 1]
  /\ IF ref_cnt[x] = 1
       THEN /\ alive' = alive \ {x}
            /\ flags' = [flags EXCEPT ![x] = {}]
            /\ age' = [age EXCEPT ![x] = "freed"]
       ELSE UNCHANGED <<alive, flags, age>>

Get(x) == ref_cnt' = [ref_cnt EXCEPT ![x] = @ + 1]

-----------------------------------------------------------------------------
(* Submitting *)

\* raft_client_sub_app_may_add_new()
MayAddNew == Cardinality(alive) < SubAppMax

\* raft_client_request_submit() up to raft_client_sub_app_may_add_new(); the
\* early returns change nothing.
Submit(t) ==
  /\ pc[t] = "idle" /\ MayAddNew
  /\ Cardinality({a \in App : pc[a] = "add"}) <
       Cardinality({x \in Request : age[x] = "unused"})
  /\ Goto(t, "add")
  /\ UNCHANGED <<objVars, qVars, sendVars, cur, queue, reply>>

\* The number of the next call.
Fresh == {x \in Request : age[x] = "unused" /\ \A y \in 1 .. x - 1 : age[y] # "unused"}

\* raft_client_sub_app_add() of a user that has no pending request.
SubAppAdd(t, u) ==
  /\ pc[t] = "add" /\ Find(u) = {}
  /\ \E x \in Fresh :
       /\ alive' = alive \cup {x}
       /\ user' = [user EXCEPT ![x] = u]
       /\ ref_cnt' = [ref_cnt EXCEPT ![x] = 1]
       /\ flags' = [flags EXCEPT ![x] = {"initializing"}]
       /\ age' = [age EXCEPT ![x] = "new"]
       /\ cur' = [cur EXCEPT ![t] = x]
  /\ Goto(t, "init")
  /\ UNCHANGED <<result, replies, leaks, qVars, sendVars, queue, reply>>

\* raft_client_sub_app_add() of a user whose request is pending: EALREADY, once
\* the reference that the tree has taken is put.
SubAppAlready(t, u) ==
  /\ pc[t] = "add"
  /\ \E x \in Find(u) : Get(x) /\ cur' = [cur EXCEPT ![t] = x]
  /\ \E x \in Fresh : age' = [age EXCEPT ![x] = "freed"]
  /\ Goto(t, "put")
  /\ UNCHANGED <<alive, user, flags, result, replies, leaks, qVars, sendVars,
                 queue, reply>>

\* raft_client_request_handle_init() succeeds; the leader is looked at before
\* the lock of raft_client_request_submit_enqueue() is taken.
HandleInit(t, block, viable) ==
  /\ pc[t] = "init"
  /\ flags' = [flags EXCEPT ![cur[t]] = @ \cup (IF block THEN {"blocking"} ELSE {})]
  /\ queue' = [queue EXCEPT ![t] = viable]
  /\ Goto(t, "enqueue")
  /\ UNCHANGED <<alive, user, ref_cnt, result, age, replies, leaks, qVars, sendVars,
                 cur, reply>>

\* raft_client_request_handle_init() fails: there is no callback yet, the error
\* is returned by raft_client_request_submit().
HandleInitFails(t) ==
  /\ pc[t] = "init"
  /\ result' = [result EXCEPT ![cur[t]] = EMSGSIZE]
  /\ Goto(t, "put")
  /\ UNCHANGED <<alive, user, ref_cnt, flags, age, replies, leaks, qVars, sendVars,
                 cur, queue, reply>>

\* The caller of raft_client_request_submit() after the critical section.
AfterEnqueue(t) ==
  IF "blocking" \in flags[cur[t]] THEN Goto(t, "wait") /\ UNCHANGED cur
                                  ELSE Return(t)

\* Mutant: the object is queued without a reference of its own.
SendQueueAddNoRef(X) == ref_cnt

\* raft_client_request_send_queue_add_locked(), the reference of each of X.
SendQueueAdd(X) ==
  [x \in Request |-> IF x \in X THEN ref_cnt[x] + 1 ELSE ref_cnt[x]]

\* The critical section of raft_client_request_submit_enqueue().
Enqueue(t) ==
  LET x == cur[t] IN
  /\ pc[t] = "enqueue"
  /\ flags' = [flags EXCEPT ![x] = (@ \ {"initializing"}) \cup
                             (IF queue[t] THEN {} ELSE {"delay"})]
  /\ sendq' = IF queue[t] THEN Append(sendq, x) ELSE sendq
  /\ ref_cnt' = SendQueueAdd(IF queue[t] THEN {x} ELSE {})
  /\ IF queue[t] THEN Goto(t, "notify") /\ UNCHANGED cur ELSE AfterEnqueue(t)
  /\ queue' = [queue EXCEPT ![t] = FALSE]
  /\ UNCHANGED <<alive, user, result, age, replies, leaks, expiredq, sendVars, reply>>

\* RAFT_NET_EVP_NOTIFY_NO_FAIL() after the critical section.
Notify(t) ==
  /\ pc[t] = "notify"
  /\ notified' = TRUE
  /\ AfterEnqueue(t)
  /\ UNCHANGED <<objVars, qVars, remaining_sends, throttled, resend, queue, reply>>

\* raft_client_sub_app_wait() returns.
Wake(t) ==
  /\ pc[t] = "wait" /\ cur[t] \notin alive
  /\ Return(t)
  /\ UNCHANGED <<objVars, qVars, sendVars, queue, reply>>

-----------------------------------------------------------------------------
(* Canceling, and the end of a request *)

\* raft_client_request_cancel() of user u: the lookup takes a reference, which
\* is kept for ever if the request is not being initialized.
Cancel(t, u) ==
  /\ Cancels /\ pc[t] = "idle"
  /\ \E x \in Find(u) :
       /\ IF "initializing" \in flags[x] THEN CancelInit ELSE leaks[x] < MaxLeaks
       /\ Get(x)
       /\ IF "initializing" \in flags[x]
            THEN /\ Goto(t, "cancel")
                 /\ cur' = [cur EXCEPT ![t] = x]
                 /\ UNCHANGED leaks
            ELSE /\ leaks' = [leaks EXCEPT ![x] = @ + 1]
                 /\ UNCHANGED <<pc, cur>>
  /\ UNCHANGED <<alive, user, flags, result, age, replies, qVars, sendVars, queue,
                 reply>>

\* Mutant: a request that has ended is canceled all the same.
CancelPendingReqAlways(t) ==
  LET x == cur[t] IN
  /\ pc[t] = "cancel"
  /\ flags' = [flags EXCEPT ![x] = @ \cup {"cancel"}]
  /\ Goto(t, "done")
  /\ UNCHANGED <<alive, user, ref_cnt, result, age, replies, leaks, qVars,
                 sendVars, cur, queue, reply>>

\* The critical section of raft_client_sub_app_cancel_pending_req().
CancelPendingReq(t) ==
  LET x == cur[t] IN
  /\ pc[t] = "cancel"
  /\ IF flags[x] \cap {"completing", "ready"} = {}
       THEN /\ flags' = [flags EXCEPT ![x] = @ \cup {"cancel"}]
            /\ Goto(t, "done")
       ELSE Goto(t, "put") /\ UNCHANGED flags
  /\ UNCHANGED <<alive, user, ref_cnt, result, age, replies, leaks, qVars, sendVars,
                 cur, queue, reply>>

\* What raft_client_sub_app_done() asserts of its object.
DoneAsserts(x) ==
  /\ "ready" \notin flags[x]
  /\ "cancel" \in flags[x] <=> "completing" \notin flags[x]

\* The result with which t calls raft_client_sub_app_done(): the data of the
\* reply at hand, or an error.
DoneResult(t) ==
  CASE "completing" \in flags[cur[t]]  -> reply
    [] "send_failed" \in flags[cur[t]] -> ECOMM
    [] OTHER -> IF t = Client THEN ETIMEDOUT ELSE ECANCELED

\* The critical section of raft_client_sub_app_done().
Done(t) ==
  LET x == cur[t] IN
  /\ pc[t] = "done"
  /\ result' = [result EXCEPT ![x] = DoneResult(t)]
  /\ flags' = [flags EXCEPT ![x] =
       IF "cancel" \in @ THEN @ ELSE (@ \ {"completing"}) \cup {"ready"}]
  /\ Goto(t, "done_put")
  /\ UNCHANGED <<alive, user, ref_cnt, age, replies, leaks, qVars, sendVars, cur,
                 queue, reply>>

\* raft_client_sub_app_done() puts the reference of the constructor.  After a
\* failed send nobody puts the reference of the send queue (lines 1940-1945).
DonePut(t) ==
  LET x == cur[t] IN
  /\ pc[t] = "done_put" /\ Put(x)
  /\ IF "send_failed" \in flags[x]
       THEN /\ leaks' = [leaks EXCEPT ![x] = @ + 1]
            /\ Goto(t, "send") /\ cur' = [cur EXCEPT ![t] = NoRequest]
       ELSE Goto(t, "put") /\ UNCHANGED <<leaks, cur>>
  /\ UNCHANGED <<user, result, replies, qVars, sendVars, queue, reply>>

\* The last put of a thread that has a reference of its own.
LastPut(t) ==
  /\ pc[t] = "put" /\ Put(cur[t])
  /\ IF t = Client THEN NextExpired(expiredq) /\ reply' = NoRequest
                   ELSE Return(t) /\ UNCHANGED <<expiredq, reply>>
  /\ UNCHANGED <<user, result, replies, leaks, sendq, sendVars, queue>>

-----------------------------------------------------------------------------
(* The timer *)

\* Objects that raft_client_check_pending_requests() does not bypass.
Pending ==
  {x \in alive : /\ flags[x] \cap {"cancel", "initializing"} = {}
                 /\ x \notin Range(sendq)}

\* Mutant: a request that waits for a leader does not expire.
ExpiredNotDelayed ==
  {x \in Pending : age[x] = "late" /\ "delay" \notin flags[x]}

\* Requests past their rcrh_timeout.
Expired == {x \in Pending : age[x] = "late"}

\* Requests to send when the leader is viable: delayed or never sent, or those
\* of late that are older than raftClientRetryTimeoutMS.
Requeue(viable, late) ==
  IF ~viable THEN {}
  ELSE {x \in Pending \ Expired :
          "delay" \in flags[x] \/ "sent" \notin flags[x] \/ x \in late}

\* RT_FOREACH_LOCKED() visits the tree in the order of its keys.
Rank(X, x) == Cardinality({y \in X : user[y] <= user[x]})
InTreeOrder(X) ==
  [i \in 1 .. Cardinality(X) |-> CHOOSE x \in X : Rank(X, x) = i]

\* raft_client_check_pending_requests(): the critical section, with the notify
\* that follows it.
CheckPendingRequests(again) ==
  /\ pc[Client] = "epoll"
  /\ NextExpired(Reverse(InTreeOrder(Expired)))
  /\ sendq' = sendq \o InTreeOrder(again)
  /\ ref_cnt' = [x \in Request |->
                   IF x \in Expired THEN ref_cnt[x] + 1 ELSE SendQueueAdd(again)[x]]
  /\ flags' = [x \in Request |->
                 IF x \in again THEN flags[x] \ {"delay"} ELSE flags[x]]
  /\ notified' = (notified \/ again # {})
  /\ UNCHANGED <<alive, user, result, age, replies, leaks, remaining_sends,
                 throttled, resend, queue, reply>>

-----------------------------------------------------------------------------
(* The receive handler *)

\* raft_client_reply_try_complete() up to the lookup, for a reply to message n.
\* It may be late, and there may be several when the request was sent again.
ReplyLookup(n) ==
  /\ pc[Client] = "epoll" /\ replies[n] > 0
  /\ replies' = [replies EXCEPT ![n] = @ - 1]
  /\ \E x \in Find(user[n]) : Get(x) /\ cur' = [cur EXCEPT ![Client] = x]
  /\ reply' = n
  /\ Goto(Client, "reply")
  /\ UNCHANGED <<alive, user, flags, result, age, leaks, qVars, sendVars,
                 queue>>

\* Mutant: the message id of the reply is not compared.
ReplyMatchesUser(x) == "initializing" \notin flags[x]

\* The reply at hand answers x.
ReplyMatches(x) == "initializing" \notin flags[x] /\ reply = x

\* raft_client_reply_try_complete() from the comparison to the copy of the data.
ReplyTryComplete ==
  LET x == cur[Client] IN
  /\ pc[Client] = "reply"
  /\ IF ReplyMatches(x) /\ flags[x] \cap {"ready", "cancel"} = {}
       THEN /\ flags' = [flags EXCEPT ![x] = @ \cup {"completing"}]
            /\ Goto(Client, "done")
       ELSE Goto(Client, "put") /\ UNCHANGED flags
  /\ UNCHANGED <<alive, user, ref_cnt, result, age, replies, leaks, qVars, sendVars,
                 cur, queue, reply>>

-----------------------------------------------------------------------------
(* The sender *)

\* raft_client_rpc_sender() up to its loop; n is what its share and the rate
\* of this interval leave it to send.
RpcSender(n) ==
  IF n = 0
    THEN throttled' = TRUE /\ UNCHANGED <<pc, remaining_sends>>
    ELSE /\ remaining_sends' = n
         /\ Goto(Client, "send")
         /\ UNCHANGED throttled

\* raft_client_evp_cb()
EvpCb(n) ==
  /\ pc[Client] = "epoll" /\ notified
  /\ notified' = FALSE
  /\ RpcSender(n)
  /\ UNCHANGED <<objVars, qVars, resend, cur, queue, reply>>

\* raft_client_thread() begins a round after one that was throttled.
ThreadLoop ==
  /\ pc[Client] = "epoll" /\ throttled /\ ~resend
  /\ resend' = TRUE /\ throttled' = FALSE
  /\ UNCHANGED <<objVars, qVars, remaining_sends, notified, pc, cur, queue, reply>>

\* raft_client_thread() calls the sender at the end of such a round.
ThreadResend(n) ==
  /\ pc[Client] = "epoll" /\ resend
  /\ resend' = FALSE
  /\ RpcSender(n)
  /\ UNCHANGED <<objVars, qVars, notified, cur, queue, reply>>

\* Mutant: a sender that has used its share leaves the rest to nobody.
SenderExitSilent ==
  /\ pc[Client] = "send" /\ (remaining_sends = 0 \/ sendq = <<>>)
  /\ Goto(Client, "epoll")
  /\ remaining_sends' = 0
  /\ UNCHANGED <<objVars, qVars, notified, throttled, resend, cur, queue, reply>>

\* raft_client_rpc_sender() after its loop.
SenderExit ==
  /\ pc[Client] = "send" /\ (remaining_sends = 0 \/ sendq = <<>>)
  /\ throttled' = (throttled \/ sendq # <<>>)
  /\ notified' = (notified \/ sendq # <<>>)
  /\ Goto(Client, "epoll")
  /\ remaining_sends' = 0
  /\ UNCHANGED <<objVars, qVars, resend, cur, queue, reply>>

\* raft_client_request_send_queue_remove_prep_locked() of the head of the queue.
Dequeue ==
  /\ pc[Client] = "send" /\ remaining_sends > 0 /\ sendq # <<>>
  /\ LET x == Head(sendq) IN
       /\ cur' = [cur EXCEPT ![Client] = x]
       /\ Goto(Client, IF flags[x] \cap {"cancel", "ready", "completing"} = {}
                       THEN "launch" ELSE "dequeue_put")
  /\ sendq' = Tail(sendq)
  /\ UNCHANGED <<objVars, expiredq, sendVars, queue, reply>>

\* raft_client_rpc_launch() sends, or is told EAGAIN.  A reply may be
\* on its way for ever: requests and replies are lost that way.
Launch(again) ==
  /\ pc[Client] = "launch"
  /\ IF again
       THEN UNCHANGED <<flags, replies, remaining_sends>>
       ELSE /\ flags' = [flags EXCEPT ![cur[Client]] = @ \cup {"sent"}]
            /\ replies' = [replies EXCEPT ![cur[Client]] =
                             IF @ < MaxReplies THEN @ + 1 ELSE @]
            /\ remaining_sends' = remaining_sends - 1
  /\ Goto(Client, "dequeue_put")
  /\ UNCHANGED <<alive, user, ref_cnt, result, age, leaks, qVars, notified,
                 throttled, resend, cur, queue, reply>>

\* raft_client_rpc_launch() fails: the critical section that follows.  An
\* ENOENT of the transport also ends the loop of the sender.
LaunchFails ==
  /\ SendErrors /\ pc[Client] = "launch"
  /\ flags' = [flags EXCEPT ![cur[Client]] = @ \cup {"cancel", "send_failed"}]
  /\ remaining_sends' \in {remaining_sends, 0}
  /\ Goto(Client, "done")
  /\ UNCHANGED <<alive, user, ref_cnt, result, age, replies, leaks, qVars,
                 notified, throttled, resend, cur, queue, reply>>

\* raft_client_request_send_queue_remove_done()
DequeuePut ==
  /\ pc[Client] = "dequeue_put" /\ Put(cur[Client])
  /\ Goto(Client, "send") /\ cur' = [cur EXCEPT ![Client] = NoRequest]
  /\ UNCHANGED <<user, result, replies, leaks, qVars, sendVars, queue, reply>>

-----------------------------------------------------------------------------
(* The environment *)

\* The timeout of a request passes.
Timeout(x) ==
  /\ x \in alive /\ "initializing" \notin flags[x] /\ age[x] = "new"
  /\ age' = [age EXCEPT ![x] = "late"]
  /\ UNCHANGED <<alive, user, ref_cnt, flags, result, replies, leaks, qVars,
                 sendVars, pc, cur, queue, reply>>

\* An application thread inside of a call.
AppStep(t) ==
  \/ \E u \in UserId : SubAppAdd(t, u) \/ SubAppAlready(t, u)
  \/ \E block, viable \in BOOLEAN : HandleInit(t, block, viable)
  \/ HandleInitFails(t)
  \/ Enqueue(t) \/ Notify(t) \/ Wake(t)
  \/ CancelPendingReq(t) \/ Done(t) \/ DonePut(t) \/ LastPut(t)

\* The client thread inside of a handler.
ClientStep ==
  \/ ReplyTryComplete
  \/ SenderExit \/ Dequeue \/ LaunchFails \/ DequeuePut
  \/ \E again \in BOOLEAN : Launch(again)
  \/ CancelPendingReq(Client) \/ Done(Client) \/ DonePut(Client)
  \/ LastPut(Client)

\* raft_client_timerfd_cb(), with the leader viable or not and some requests
\* due for another send.
Timer ==
  \E viable \in BOOLEAN, late \in SUBSET Request :
    CheckPendingRequests(Requeue(viable, late))

Sender(n) == EvpCb(n) \/ ThreadResend(n)

Next ==
  \/ \E t \in App : Submit(t) \/ AppStep(t) \/ \E u \in UserId : Cancel(t, u)
  \/ ClientStep \/ Timer
  \/ \E n \in Request : ReplyLookup(n) \/ Timeout(n)
  \/ ThreadLoop \/ \E n \in 0 .. SenderMax : Sender(n)

Spec == Init /\ [][Next]_vars

-----------------------------------------------------------------------------
(* Properties *)

\* Threads that use the object cur[t].
Uses(t) == pc[t] \in {"init", "enqueue", "cancel", "done", "done_put", "put",
                      "reply", "launch", "dequeue_put"}

\* Threads that have a reference of their own to cur[t].
Holds(t) == Uses(t) /\ pc[t] \notin {"init", "enqueue"}

\* The reference of the constructor has not been put.
Constructed(x) ==
  result[x] = NoRequest \/ \E t \in Thread : pc[t] = "done_put" /\ cur[t] = x

\* Every variable has its type; a reference count never falls below zero and
\* the sender never sends more than its share.
TypeOK ==
  /\ alive \subseteq Request
  /\ user \in [Request -> UserId]
  /\ ref_cnt \in [Request -> Nat]
  /\ flags \in [Request -> SUBSET Flag]
  /\ result \in [Request -> Request \cup {NoRequest, ETIMEDOUT, ECANCELED, ECOMM,
                                          EMSGSIZE}]
  /\ age \in [Request -> {"unused", "new", "late", "freed"}]
  /\ leaks \in [Request -> Nat] /\ replies \in [Request -> 0 .. MaxReplies]
  /\ sendq \in Seq(Request) /\ expiredq \in Seq(Request)
  /\ pc \in [Thread -> Label] /\ cur \in [Thread -> Request \cup {NoRequest}]
  /\ queue \in [App -> BOOLEAN]
  /\ reply \in Request \cup {NoRequest}
  /\ remaining_sends \in 0 .. SenderMax
  /\ {notified, throttled, resend} \subseteq BOOLEAN

\* Every reference that is counted has one holder that will put it, but for the
\* references that are known to leak; and nobody uses an object that has been
\* destroyed.
RefsAccounted ==
  /\ \A x \in alive :
       ref_cnt[x] = leaks[x]
         + (IF Constructed(x) THEN 1 ELSE 0)
         + Cardinality({i \in DOMAIN sendq : sendq[i] = x})
         + Cardinality({i \in DOMAIN expiredq : expiredq[i] = x})
         + Cardinality({t \in Thread : Holds(t) /\ cur[t] = x})
  /\ \A t \in Thread : Uses(t) => cur[t] \in alive
  /\ Range(sendq) \cup Range(expiredq) \subseteq alive

\* A request ends once: raft_client_sub_app_done() finds it neither ready nor
\* both canceled and completing, and a reply finds it not completing.
EndsOnce ==
  \A t \in Thread :
    /\ pc[t] = "done" => DoneAsserts(cur[t])
    /\ pc[t] = "reply" => "completing" \notin flags[cur[t]]

\* The data that an application gets is the answer to this request, not the
\* late answer to an earlier request of the same user.
OwnReply == \A x \in Request : result[x] > 0 => result[x] = x

\* A queued request is never forgotten: the sender runs, or will be woken.
QueueIsWatched ==
  sendq # <<>> =>
    \/ notified \/ throttled \/ resend
    \/ pc[Client] \in {"send", "launch", "dequeue_put"}
    \/ pc[Client] \in {"done", "done_put"} /\ "send_failed" \in flags[cur[Client]]
    \/ \E t \in App : pc[t] = "notify"

=============================================================================
