--------------------------- MODULE RaftClientLive ---------------------------
(***************************************************************************)
(* RaftClient with time: which requests end, and when the timer runs.      *)
(* raft_client_thread() sets its timer anew at the top of each round, to   *)
(* expire once after an interval.  Events that come closer together than   *)
(* that put the timer off for as long as they come.                        *)
(***************************************************************************)
EXTENDS RaftClient

VARIABLE
  busy  \* descriptors become ready within the interval of the timer

live == <<vars, busy>>

\* The traffic of the client thread gets denser, or lets up.  It is not only
\* that of the requests in the model: messages the receive handler drops, and
\* requests beyond MaxRequests, count too.
Traffic == busy' = ~busy /\ UNCHANGED vars

\* The timer expires in a round without other events.
QuietTimer == ~busy /\ Timer /\ UNCHANGED busy

\* Every other step of RaftClient
Untimed == Next /\ ~Timer /\ UNCHANGED busy

LiveInit == Init /\ busy = FALSE
LiveNext == Traffic \/ QuietTimer \/ Untimed

\* Threads run inside of calls and handlers, and time passes.  When no event
\* comes, the timer that was set expires.  Each round begins at the top of the
\* loop; epoll reports a pipe that stays readable, and the rate limit of the
\* sender is lifted every two milliseconds, so that of its calls some may send.
\* Replies, new calls and quiet are not assumed, nor is a viable leader: the
\* timer has to do something whoever leads only if a request has expired.
FairSpec ==
  /\ LiveInit /\ [][LiveNext]_live
  /\ \A t \in App : WF_live(AppStep(t) /\ UNCHANGED busy)
  /\ WF_live(ClientStep /\ UNCHANGED busy)
  /\ WF_live(Expired # {} /\ QuietTimer)
  /\ SF_live(ThreadLoop /\ UNCHANGED busy)
  /\ SF_live(\E n \in 1 .. SenderMax : Sender(n) /\ UNCHANGED busy)
  /\ \A x \in Request : WF_live(Timeout(x) /\ UNCHANGED busy)

(***************************************************************************)
(* Properties.                                                             *)
(***************************************************************************)

\* EndsWhenQuiet: if the traffic of the client thread lets up for good, every
\* request of an application that does not cancel ends, whatever messages and
\* leaders are lost, by its reply or by raft_client_check_pending_requests(),
\* unless raft_client_rpc_launch() has failed to send it: the only way in which
\* the application is never told.
EndsWhenQuiet ==
  <>[]~busy =>
    \A x \in Request :
      x \in alive ~> (x \notin alive \/ "send_failed" \in flags[x])

=============================================================================
