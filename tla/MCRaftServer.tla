---------------------------- MODULE MCRaftServer ----------------------------
(* Model-checking instances of RaftServer. *)
EXTENDS RaftServer, TLC

Symmetry == Permutations(Server)

(* Candidate and leader tables are read only in the states that set them up  *)
(* afresh, so two states that differ in a dead table are the same state.     *)
Live(table, i, states) == IF ri_state[i] \in states THEN table[i] ELSE None

View ==
  <<ri_state, fatal, rlh_term, rlh_voted_for, ri_csn_leader, log, synced,
    ri_commit_idx, msgs, timeouts, restarts,
    [i \in Server |->
       <<Live(rcs_results, i, {"prevote", "candidate"}),
         Live(rcs_term, i, {"prevote", "candidate"}),
         Live(rls_initial_term_idx, i, {"leader"}),
         Live(rfi_next_idx, i, {"leader"}),
         Live(rfi_current_idx_term, i, {"leader"}),
         Live(rfi_ackd_idx, i, {"leader"}),
         Live(rfi_synced_idx, i, {"leader"})>>]>>

-----------------------------------------------------------------------------
(* A cluster that comes up after a divided past.  Server a led term 1 and    *)
(* its marker reached everyone; it led term 2 and its marker stayed alone; b *)
(* led term 3 with the vote of c and its marker stayed alone; then all were  *)
(* restarted.  Index 1 is in conflict between a and b.                       *)

MarkerOf(t) == [term |-> t, data |-> Marker]

DividedLog(a, b) ==
  [i \in Server |->
     CASE i = a -> <<MarkerOf(1), MarkerOf(2)>>
       [] i = b -> <<MarkerOf(1), MarkerOf(3)>>
       [] OTHER -> <<MarkerOf(1)>>]

NoVotes == [i \in Server |-> [j \in Server |-> "unknown"]]

\* Every server is a follower that has just been restarted.
Restarted ==
  /\ ri_state = [i \in Server |-> "follower"]
  /\ ri_csn_leader = [i \in Server |-> None]
  /\ rcs_term = [i \in Server |-> 0]
  /\ rcs_results = NoVotes
  /\ rls_initial_term_idx = [i \in Server |-> 0]
  /\ rfi_next_idx = [i \in Server |-> [j \in Server |-> 0]]
  /\ rfi_current_idx_term = [i \in Server |-> [j \in Server |-> 0]]
  /\ rfi_ackd_idx = [i \in Server |-> [j \in Server |-> 0]]
  /\ rfi_synced_idx = [i \in Server |-> [j \in Server |-> 0]]
  /\ ri_commit_idx = [i \in Server |-> -1]
  /\ timeouts = 0

Divided ==
  /\ \E a, b \in Server :
       /\ a # b
       /\ log = DividedLog(a, b)
       /\ rlh_term = [i \in Server |-> IF i = a THEN 2 ELSE 3]
       /\ rlh_voted_for = [i \in Server |-> IF i = a THEN a ELSE b]
  /\ synced = [i \in Server |-> Len(log[i])]
  /\ Restarted

\* Server a has become the leader of a term with the votes of "voters"; its
\* marker is at index "first" and has been acknowledged by "acked".  The other
\* servers stand in its term and know of it.
Leads(a, term, voters, first, acked) ==
  LET table(yes, no) ==
        [i \in Server |-> [j \in Server |->
           IF i # a THEN 0 ELSE IF j \in acked THEN yes ELSE no]]
  IN
  /\ rlh_term = [i \in Server |-> term]
  /\ rlh_voted_for = [i \in Server |-> IF i \in voters THEN a ELSE None]
  /\ ri_state = [i \in Server |-> IF i = a THEN "leader" ELSE "follower"]
  /\ ri_csn_leader = [i \in Server |-> a]
  /\ rcs_term = [i \in Server |-> IF i = a THEN term ELSE 0]
  /\ rcs_results =
       [NoVotes EXCEPT ![a] =
          [j \in Server |-> IF j \in voters THEN "yes" ELSE "unknown"]]
  /\ rls_initial_term_idx = [i \in Server |-> IF i = a THEN first - 1 ELSE 0]
  /\ rfi_next_idx = table(first + 1, first)
  /\ rfi_current_idx_term = table(term, -1)
  /\ rfi_ackd_idx = table(first, -1)
  /\ rfi_synced_idx = table(first, -1)
  /\ ri_commit_idx =
       [i \in Server |-> IF i = a /\ acked # {} THEN first ELSE -1]

(* A cluster with an empty log in which a has been elected by all, after     *)
(* candidacies without a majority, and in the last term there is: its marker *)
(* has reached nobody else.  Only this leader takes writes.                  *)

NewLeader(a) ==
  /\ log = [i \in Server |-> IF i = a THEN <<MarkerOf(MaxTerm)>> ELSE <<>>]
  /\ synced = [i \in Server |-> IF SyncWrites THEN Len(log[i]) ELSE 0]
  /\ Leads(a, MaxTerm, Server, 0, {})
  /\ timeouts = MaxTimeouts

(* The same leader later: with b's acknowledgement it has committed its      *)
(* marker, and it has taken a client's entry that it has not synced.         *)

ServingLeader(a, b) ==
  /\ \E v \in Value :
       log = [i \in Server |->
                CASE i = a -> <<MarkerOf(MaxTerm), [term |-> MaxTerm, data |-> v]>>
                  [] i = b -> <<MarkerOf(MaxTerm)>>
                  [] OTHER -> <<>>]
  /\ synced = [i \in Server |-> Min2(Len(log[i]), 1)]
  /\ Leads(a, MaxTerm, Server, 0, {b})
  /\ timeouts = MaxTimeouts

(* The divided past once more, in which a was a candidate of term 3, too,    *)
(* without a vote.  It has then been elected for term 4 by c, and has met b  *)
(* with a heartbeat, which b's log does not match.                           *)

ThirdLeader(a, b) ==
  /\ log = [DividedLog(a, b) EXCEPT ![a] = Append(@, MarkerOf(4))]
  /\ synced = [i \in Server |-> Len(log[i])]
  /\ Leads(a, 4, Server \ {b}, 2, {})
  /\ timeouts = 0

\* What all the starting points have in common.
Quiet ==
  /\ fatal = [i \in Server |-> "none"]
  /\ msgs = {}
  /\ restarts = 0

DividedInit == (Divided \/ \E a \in Server : NewLeader(a)) /\ Quiet

DividedSpec == DividedInit /\ [][Next]_vars

AsyncInit ==
  \/ Init
  \/ (\E a, b \in Server : a # b /\ ServingLeader(a, b)) /\ Quiet

AsyncSpec == AsyncInit /\ [][Next]_vars

ThirdLeaderInit ==
  (\E a, b \in Server : a # b /\ ThirdLeader(a, b)) /\ Quiet

ThirdLeaderSpec == ThirdLeaderInit /\ [][Next]_vars
=============================================================================
