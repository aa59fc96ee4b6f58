----------------------------- MODULE RaftServer -----------------------------
(***************************************************************************)
(* The consensus core of src/src/raft_server.c: pre-vote and vote          *)
(* elections, log replication with append-entries (AE) requests and        *)
(* replies, the leader's commit tally, the synced and unsynced ends of the *)
(* log, and crashes with restart.  One action is one callback of the       *)
(* server's epoll loop (a timer, a received message, an event pipe) or the *)
(* sync thread.                                                            *)
(*                                                                         *)
(* An index of the code is 0 for the first entry and -1 for "none"; entry  *)
(* i of a log is element i + 1 of the sequence.  The SYNC and UNSYNC       *)
(* newest-entry headers are the ends of log[i] at synced[i] and Len.       *)
(***************************************************************************)
EXTENDS Integers, Sequences, FiniteSets

CONSTANTS
  Server,       \* the peers of the raft configuration
  None,         \* the null uuid / NULL ctl_svc_node pointer
  Value,        \* client payloads
  Marker,       \* the empty payload of a leader-change-marker entry
  SyncWrites,   \* raft_server_does_synchronous_writes(): no sync thread
  LateVotes,    \* a vote reply may outlive the candidacy it answers
  LateAcks,     \* an AE reply may outlive the leadership it answers
  Overtaking,   \* an AE request may arrive after a later one of its sender
  MaxTerm,      \* bound: no candidacy proposes a higher term
  MaxTimeouts,  \* bound: pre-vote candidacies of the whole cluster
  MaxLogLen,    \* bound: clients stop writing at this log length
  MaxVoteMsgs,  \* bound: vote messages in the network; the others are lost
  MaxAppendMsgs, \* bound: AE and sync-idx messages in the network
  MaxRestarts   \* bound: crashes of the whole cluster

ASSUME ServerAssumption == IsFiniteSet(Server) /\ None \notin Server
ASSUME ValueAssumption == Marker \notin Value
ASSUME SwitchAssumption ==
  /\ SyncWrites \in BOOLEAN
  /\ LateVotes \in BOOLEAN /\ LateAcks \in BOOLEAN /\ Overtaking \in BOOLEAN
ASSUME BoundAssumption ==
  /\ MaxTerm \in Nat /\ MaxTimeouts \in Nat /\ MaxLogLen \in Nat
  /\ MaxVoteMsgs \in Nat /\ MaxAppendMsgs \in Nat /\ MaxRestarts \in Nat

VARIABLES
  ri_state,              \* follower, prevote, candidate, leader or aborted
  fatal,                 \* the FATAL_IF / NIOVA_ASSERT that aborted the server
  rlh_term,              \* log header: persistent term
  rlh_voted_for,         \* log header: persistent vote
  ri_csn_leader,         \* the leader this server believes in
  rcs_term,              \* term of the candidacy
  rcs_results,           \* votes registered in the candidacy
  log,                   \* the entries, synced or not
  synced,                \* how many of them are durable
  ri_commit_idx,
  rls_initial_term_idx,  \* a leader's synced index when it was elected
  rfi_next_idx,          \* per follower: index of the next entry to send
  rfi_current_idx_term,  \* per follower: cached term of that entry
  rfi_ackd_idx,          \* per follower: highest acknowledged index
  rfi_synced_idx,        \* per follower: highest index reported as synced
  msgs,                  \* messages in the network
  timeouts, restarts     \* how often the bounded events happened

boundVars == <<timeouts, restarts>>

hdrVars  == <<rlh_term, rlh_voted_for>>
candVars == <<rcs_term, rcs_results>>
logVars  == <<log, synced>>
rfiVars  == <<rfi_next_idx, rfi_current_idx_term, rfi_ackd_idx, rfi_synced_idx>>
vars == <<ri_state, fatal, hdrVars, ri_csn_leader, candVars, logVars,
          ri_commit_idx, rls_initial_term_idx, rfiVars, msgs, boundVars>>

-----------------------------------------------------------------------------
(* Entries and logs *)

Entry == [term : Nat, data : Value \cup {Marker}]

\* What the newest-entry header says of an empty log.
NullEntry == [term |-> 0, data |-> None]

LastIdx(L) == Len(L) - 1

EntryAt(L, idx) == IF idx \in 0 .. LastIdx(L) THEN L[idx + 1] ELSE NullEntry

\* The part of server i's log that the SYNC header ends.
SyncIdx(i) == synced[i] - 1

SyncTerm(i) == EntryAt(log[i], SyncIdx(i)).term

Min2(a, b) == IF a < b THEN a ELSE b
Max2(a, b) == IF a > b THEN a ELSE b

IsMajority(S) == Cardinality(S) >= (Cardinality(Server) \div 2) + 1

-----------------------------------------------------------------------------
(* Messages.  "re" is not a field of the code's vote replies: it is the     *)
(* proposed term of the request, kept to tell a late reply.                 *)

VoteRequest ==
  [type : {"PRE_VOTE_REQUEST", "VOTE_REQUEST"}, src : Server, dst : Server,
   proposed_term : Nat, last_log_term : Nat, last_log_index : Int]

VoteReply ==
  [type : {"PRE_VOTE_REPLY", "VOTE_REPLY"}, src : Server, dst : Server,
   term : Nat, voted_granted : BOOLEAN, current_leader : Server \cup {None},
   re : Nat]

AppendRequest ==
  [type : {"APPEND_ENTRIES_REQUEST"}, src : Server, dst : Server,
   heartbeat : {TRUE}, leader_term : Nat, commit_index : Int,
   log_term : Int, data : {None},
   prev_log_index : Int, prev : Entry \cup {NullEntry}]
  \cup
  [type : {"APPEND_ENTRIES_REQUEST"}, src : Server, dst : Server,
   heartbeat : {FALSE}, leader_term : Nat, commit_index : Int,
   log_term : Nat, data : Value \cup {Marker},
   prev_log_index : Int, prev : Entry \cup {NullEntry}]

AppendReply ==
  [type : {"APPEND_ENTRIES_REPLY"}, src : Server, dst : Server,
   leader_term : Nat, prev_log_index : Int, heartbeat : BOOLEAN,
   newly_initialized : BOOLEAN, synced_log_index : Int,
   err_stale_term : BOOLEAN, err_non_matching : BOOLEAN]

SyncIdxUpdate ==
  [type : {"SYNC_IDX_UPDATE"}, src : Server, dst : Server,
   term : Nat, synced_log_index : Int]

Message ==
  VoteRequest \cup VoteReply \cup AppendRequest \cup AppendReply
    \cup SyncIdxUpdate

\* A handler takes the messages of "gone" and sends those of "out"; the
\* network loses any of them, and reorders those it keeps.
VoteTypes ==
  {"PRE_VOTE_REQUEST", "VOTE_REQUEST", "PRE_VOTE_REPLY", "VOTE_REPLY"}

WithinBounds(M) ==
  LET votes == {m \in M : m.type \in VoteTypes} IN
  /\ Cardinality(votes) <= MaxVoteMsgs
  /\ Cardinality(M \ votes) <= MaxAppendMsgs

Transmit(gone, out) ==
  \E kept \in SUBSET out :
    /\ WithinBounds((msgs \ gone) \cup kept)
    /\ msgs' = (msgs \ gone) \cup kept

Peers(i) == Server \ {i}
Alive(i) == ri_state[i] # "aborted"

\* The process dies in a FATAL_IF or a NIOVA_ASSERT.
Abort(i, why) ==
  /\ ri_state' = [ri_state EXCEPT ![i] = "aborted"]
  /\ fatal' = [fatal EXCEPT ![i] = why]

-----------------------------------------------------------------------------
Init ==
  /\ ri_state = [i \in Server |-> "follower"]
  /\ fatal = [i \in Server |-> "none"]
  /\ rlh_term = [i \in Server |-> 0]
  /\ rlh_voted_for = [i \in Server |-> None]
  /\ ri_csn_leader = [i \in Server |-> None]
  /\ rcs_term = [i \in Server |-> 0]
  /\ rcs_results = [i \in Server |-> [j \in Server |-> "unknown"]]
  /\ log = [i \in Server |-> <<>>]
  /\ synced = [i \in Server |-> 0]
  /\ ri_commit_idx = [i \in Server |-> -1]
  /\ rls_initial_term_idx = [i \in Server |-> 0]
  /\ rfi_next_idx = [i \in Server |-> [j \in Server |-> 0]]
  /\ rfi_current_idx_term = [i \in Server |-> [j \in Server |-> 0]]
  /\ rfi_ackd_idx = [i \in Server |-> [j \in Server |-> 0]]
  /\ rfi_synced_idx = [i \in Server |-> [j \in Server |-> 0]]
  /\ msgs = {}
  /\ timeouts = 0
  /\ restarts = 0

-----------------------------------------------------------------------------
(* Elections *)

\* raft_server_log_header_write(): the header write is durable, and the sync
\* that follows it makes every entry durable too.
LogHeaderWrite(i, candidate, term) ==
  /\ rlh_term' = [rlh_term EXCEPT ![i] = term]
  /\ rlh_voted_for' = [rlh_voted_for EXCEPT ![i] = candidate]
  /\ synced' = [synced EXCEPT ![i] = Len(log[i])]

\* The vote table of a new candidacy holds the candidate's own vote only.
SelfVote(i) == [j \in Server |-> IF j = i THEN "yes" ELSE "unknown"]

\* The broadcast of a candidacy; idx and term are those of the SYNC header
\* after the self-vote.
VoteRequests(i, type, idx, term) ==
  {[type |-> type, src |-> i, dst |-> j, proposed_term |-> rlh_term[i] + 1,
    last_log_term |-> term, last_log_index |-> idx] : j \in Peers(i)}

\* raft_server_become_candidate(prevote = true), from the election timer, or
\* from a leader's timer that finds its quorum gone.
BecomePreVote(i) ==
  /\ rlh_term[i] < MaxTerm /\ timeouts < MaxTimeouts
  /\ timeouts' = timeouts + 1
  /\ ri_csn_leader' = [ri_csn_leader EXCEPT ![i] = None]
  /\ ri_state' = [ri_state EXCEPT ![i] = "prevote"]
  /\ rcs_term' = [rcs_term EXCEPT ![i] = rlh_term[i] + 1]
  /\ rcs_results' = [rcs_results EXCEPT ![i] = SelfVote(i)]
  /\ Transmit({}, VoteRequests(i, "PRE_VOTE_REQUEST", SyncIdx(i), SyncTerm(i)))
  /\ UNCHANGED <<fatal, hdrVars, logVars, ri_commit_idx, rls_initial_term_idx,
                 rfiVars, restarts>>

ElectionTimeout(i) ==
  /\ ri_state[i] \in {"follower", "prevote", "candidate"}
  /\ BecomePreVote(i)

QuorumLoss(i) ==
  /\ ri_state[i] = "leader"
  /\ BecomePreVote(i)

\* Mutant: a vote is granted in the voter's own term.
VoteDecideSameTerm(i, m) ==
  /\ m.proposed_term >= rlh_term[i]
  /\ m.last_log_term >= EntryAt(log[i], LastIdx(log[i])).term
  /\ m.last_log_index >= LastIdx(log[i])

\* Mutant: the candidate's log is not looked at.
VoteDecideAnyLog(i, m) == m.proposed_term > rlh_term[i]

\* raft_server_process_vote_request_decide()
VoteDecide(i, m) ==
  /\ m.proposed_term > rlh_term[i]
  /\ m.last_log_term >= EntryAt(log[i], LastIdx(log[i])).term
  /\ m.last_log_index >= LastIdx(log[i])

\* raft_server_process_pre_vote_request_decide()
PreVoteDecide(i, m) ==
  /\ VoteDecide(i, m)
  /\ \/ m.proposed_term > rlh_term[i] + 1
     \/ ri_csn_leader[i] = None
     \/ ri_state[i] \in {"prevote", "candidate"}

\* The reply carries the term from before the vote.
VoteReplyTo(i, m, type, granted) ==
  [type |-> type, src |-> i, dst |-> m.src, term |-> rlh_term[i],
   voted_granted |-> granted,
   current_leader |-> IF granted THEN None ELSE ri_csn_leader[i],
   re |-> m.proposed_term]

\* A pre-vote changes nothing but the synced end of the log.
ProcessPreVoteRequest(m) ==
  LET i == m.dst IN
  /\ m.type = "PRE_VOTE_REQUEST" /\ Alive(i)
  /\ synced' = [synced EXCEPT ![i] = Len(log[i])]
  /\ Transmit({m}, {VoteReplyTo(i, m, "PRE_VOTE_REPLY", PreVoteDecide(i, m))})
  /\ UNCHANGED <<ri_state, fatal, hdrVars, ri_csn_leader, candVars, log,
                 ri_commit_idx, rls_initial_term_idx, rfiVars, boundVars>>

\* A granted vote is durable, with its term, before the reply is sent.
GrantVote(m) ==
  LET i == m.dst IN
  /\ m.type = "VOTE_REQUEST" /\ Alive(i)
  /\ VoteDecide(i, m)
  /\ ri_state' = [ri_state EXCEPT ![i] = "follower"]
  /\ ri_csn_leader' = [ri_csn_leader EXCEPT ![i] = m.src]
  /\ LogHeaderWrite(i, m.src, m.proposed_term)
  /\ Transmit({m}, {VoteReplyTo(i, m, "VOTE_REPLY", TRUE)})
  /\ UNCHANGED <<fatal, candVars, log, ri_commit_idx, rls_initial_term_idx,
                 rfiVars, boundVars>>

RefuseVote(m) ==
  LET i == m.dst IN
  /\ m.type = "VOTE_REQUEST" /\ Alive(i)
  /\ ~VoteDecide(i, m)
  /\ synced' = [synced EXCEPT ![i] = Len(log[i])]
  /\ Transmit({m}, {VoteReplyTo(i, m, "VOTE_REPLY", FALSE)})
  /\ UNCHANGED <<ri_state, fatal, hdrVars, ri_csn_leader, candVars, log,
                 ri_commit_idx, rls_initial_term_idx, rfiVars, boundVars>>

-----------------------------------------------------------------------------
(* Vote replies: raft_server_process_vote_reply_common() *)

\* The reply is of the kind the candidacy asks for.  The code compares no
\* term; with ~LateVotes the network brings no reply to an older candidacy.
Relevant(m) ==
  /\ \/ m.type = "PRE_VOTE_REPLY" /\ ri_state[m.dst] = "prevote"
     \/ m.type = "VOTE_REPLY" /\ ri_state[m.dst] = "candidate"
  /\ LateVotes \/ m.re = rcs_term[m.dst]

Results(m) ==
  [rcs_results[m.dst] EXCEPT ![m.src] = IF m.voted_granted THEN "yes" ELSE "no"]

YesVotes(results) == {j \in Server : results[j] = "yes"}

\* raft_server_candidate_can_become_leader() and its pre-vote counterpart.
Elected(m) == m.voted_granted /\ IsMajority(YesVotes(Results(m)))

IgnoreVoteReply(m) ==
  /\ m.type \in {"PRE_VOTE_REPLY", "VOTE_REPLY"} /\ Alive(m.dst)
  /\ ~Relevant(m)
  /\ msgs' = msgs \ {m}
  /\ UNCHANGED <<ri_state, fatal, hdrVars, ri_csn_leader, candVars, logVars,
                 ri_commit_idx, rls_initial_term_idx, rfiVars, boundVars>>

\* A "no" that names a leader of a newer term ends the candidacy.
Deposes(m) ==
  /\ m.type = "VOTE_REPLY"
  /\ ~m.voted_granted
  /\ m.term > rlh_term[m.dst]
  /\ m.current_leader \notin {None, m.dst}

RegisterVote(m) ==
  /\ m.type \in {"PRE_VOTE_REPLY", "VOTE_REPLY"}
  /\ Relevant(m) /\ ~Elected(m) /\ ~Deposes(m)
  /\ rcs_results' = [rcs_results EXCEPT ![m.dst] = Results(m)]
  /\ msgs' = msgs \ {m}
  /\ UNCHANGED <<ri_state, fatal, hdrVars, ri_csn_leader, rcs_term, logVars,
                 ri_commit_idx, rls_initial_term_idx, rfiVars, boundVars>>

\* raft_server_becomes_follower(RAFT_BFRSN_STALE_TERM_WHILE_CANDIDATE)
VoteReplyDeposes(m) ==
  LET i == m.dst IN
  /\ m.type = "VOTE_REPLY"
  /\ Relevant(m) /\ Deposes(m)
  /\ rcs_results' = [rcs_results EXCEPT ![i] = Results(m)]
  /\ ri_state' = [ri_state EXCEPT ![i] = "follower"]
  /\ ri_csn_leader' = [ri_csn_leader EXCEPT ![i] = m.current_leader]
  /\ LogHeaderWrite(i, None, m.term)
  /\ msgs' = msgs \ {m}
  /\ UNCHANGED <<fatal, rcs_term, log, ri_commit_idx, rls_initial_term_idx,
                 rfiVars, boundVars>>

\* raft_server_become_candidate(prevote = false): the vote for itself in the
\* next term is durable before the requests are sent.
BecomeCandidate(m) ==
  LET i == m.dst IN
  /\ m.type = "PRE_VOTE_REPLY"
  /\ Relevant(m) /\ Elected(m)
  /\ ri_csn_leader' = [ri_csn_leader EXCEPT ![i] = None]
  /\ ri_state' = [ri_state EXCEPT ![i] = "candidate"]
  /\ rcs_term' = [rcs_term EXCEPT ![i] = rlh_term[i] + 1]
  /\ rcs_results' = [rcs_results EXCEPT ![i] = SelfVote(i)]
  /\ LogHeaderWrite(i, i, rlh_term[i] + 1)
  /\ Transmit({m}, VoteRequests(i, "VOTE_REQUEST", LastIdx(log[i]),
                                EntryAt(log[i], LastIdx(log[i])).term))
  /\ UNCHANGED <<fatal, log, ri_commit_idx, rls_initial_term_idx, rfiVars,
                 boundVars>>

-----------------------------------------------------------------------------
(* Leadership *)

\* raft_server_entry_write(): with synchronous writes the entry is durable
\* when the call returns, otherwise only the UNSYNC header moves.
SyncedAfterWrite(n, len) == IF SyncWrites THEN len + 1 ELSE n

\* raft_server_candidate_becomes_leader(): leader state is initialised from
\* the SYNC header, then the leader-change marker is written to the log.
BecomeLeader(m) ==
  LET i == m.dst IN
  /\ m.type = "VOTE_REPLY"
  /\ Relevant(m) /\ Elected(m)
  /\ rcs_results' = [rcs_results EXCEPT ![i] = Results(m)]
  /\ ri_state' = [ri_state EXCEPT ![i] = "leader"]
  /\ ri_csn_leader' = [ri_csn_leader EXCEPT ![i] = i]
  /\ rls_initial_term_idx' = [rls_initial_term_idx EXCEPT ![i] = SyncIdx(i)]
  /\ rfi_next_idx' =
       [rfi_next_idx EXCEPT ![i] = [j \in Server |-> SyncIdx(i) + 1]]
  /\ rfi_current_idx_term' =
       [rfi_current_idx_term EXCEPT ![i] = [j \in Server |-> -1]]
  /\ rfi_ackd_idx' = [rfi_ackd_idx EXCEPT ![i] = [j \in Server |-> -1]]
  /\ rfi_synced_idx' = [rfi_synced_idx EXCEPT ![i] = [j \in Server |-> -1]]
  /\ log' = [log EXCEPT ![i] =
               Append(@, [term |-> rlh_term[i], data |-> Marker])]
  /\ synced' = [synced EXCEPT ![i] = SyncedAfterWrite(@, Len(log[i]))]
  /\ msgs' = msgs \ {m}
  /\ UNCHANGED <<fatal, hdrVars, rcs_term, ri_commit_idx, boundVars>>

\* raft_server_client_recv_handler() for a write with coalescing off.  The
\* leader serves clients once an index above its initial one is committed (the
\* code waits for its application too, which can only come later).
ClientWrite(i, v) ==
  /\ ri_state[i] = "leader"
  /\ ri_commit_idx[i] > rls_initial_term_idx[i]
  /\ Len(log[i]) < MaxLogLen
  /\ log' = [log EXCEPT ![i] = Append(@, [term |-> rlh_term[i], data |-> v])]
  /\ synced' = [synced EXCEPT ![i] = SyncedAfterWrite(@, Len(log[i]))]
  /\ UNCHANGED <<ri_state, fatal, hdrVars, ri_csn_leader, candVars,
                 ri_commit_idx, rls_initial_term_idx, rfiVars, msgs, boundVars>>

-----------------------------------------------------------------------------
(* Append-entries requests: the sender *)

\* raft_server_refresh_follower_prev_log_term(): the term of the follower's
\* next entry is re-read whenever that entry exists, and is left as it was
\* (stale) when the follower has caught up.
RefreshedTerm(i, j) ==
  IF rfi_next_idx[i][j] <= LastIdx(log[i])
  THEN EntryAt(log[i], rfi_next_idx[i][j]).term
  ELSE IF rfi_next_idx[i][j] = 0 THEN -1 ELSE rfi_current_idx_term[i][j]

\* raft_server_leader_init_append_entry_msg().  The crc of an entry is
\* modelled by the entry: equal crcs at an index mean equal entries.
AppendRequestTo(i, j, hb) ==
  LET next == rfi_next_idx[i][j] IN
  [type |-> "APPEND_ENTRIES_REQUEST", src |-> i, dst |-> j,
   heartbeat |-> hb, leader_term |-> rlh_term[i],
   commit_index |-> ri_commit_idx[i], log_term |-> RefreshedTerm(i, j),
   data |-> IF hb THEN None ELSE EntryAt(log[i], next).data,
   prev_log_index |-> next - 1, prev |-> EntryAt(log[i], next - 1)]

\* The requests that the network loses when later ones are sent.
Overtaken(i, to) ==
  IF Overtaking THEN {}
  ELSE {m \in msgs : /\ m.type = "APPEND_ENTRIES_REQUEST"
                     /\ m.src = i /\ m.dst \in to}

\* raft_server_append_entry_sender() to the followers of "to"; the others are
\* skipped by raft_server_append_entry_should_send_to_follower().
AppendEntrySender(i, to, hb) ==
  /\ rfi_current_idx_term' =
       [rfi_current_idx_term EXCEPT ![i] =
          [j \in Server |-> IF j \in to THEN RefreshedTerm(i, j) ELSE @[j]]]
  /\ Transmit(Overtaken(i, to), {AppendRequestTo(i, j, hb) : j \in to})
  /\ UNCHANGED <<ri_state, fatal, hdrVars, ri_csn_leader, candVars, logVars,
                 ri_commit_idx, rls_initial_term_idx, rfi_next_idx,
                 rfi_ackd_idx, rfi_synced_idx, boundVars>>

\* The leader's timer: a heartbeat to every peer.
Heartbeat(i) ==
  /\ ri_state[i] = "leader"
  /\ AppendEntrySender(i, Peers(i), TRUE)

\* The REMOTE_SEND event: the next entry to followers that lack it.
RemoteSend(i) ==
  /\ ri_state[i] = "leader"
  /\ \E to \in SUBSET {j \in Peers(i) : rfi_next_idx[i][j] <= LastIdx(log[i])} :
       /\ to # {}
       /\ AppendEntrySender(i, to, FALSE)

-----------------------------------------------------------------------------
(* Append-entries requests: the receiver,                                  *)
(* raft_server_process_append_entries_request()                            *)

\* The follower's log extends past the index the leader takes it to end at.
Ahead(i, m) == LastIdx(log[i]) > m.prev_log_index

\* raft_server_append_entry_check_already_stored(), its result.
AlreadyStored(i, m) ==
  m.log_term > 0 =>
    EntryAt(log[i], m.prev_log_index + 1).term = m.log_term

Prunes(i, m) == Ahead(i, m) /\ ~AlreadyStored(i, m)

\* The log after raft_server_append_entry_log_prune_if_needed().
PrunedLog(i, m) ==
  IF Prunes(i, m) THEN SubSeq(log[i], 1, m.prev_log_index + 1) ELSE log[i]

\* Mutant: the term at the previous index is not compared.
PrepareRcNoTermCheck(i, m) ==
  CASE Ahead(i, m) /\ AlreadyStored(i, m)   -> "EALREADY"
    [] LastIdx(log[i]) < m.prev_log_index   -> "ERANGE"
    [] OTHER                                -> "OK"

\* raft_server_append_entry_log_prepare_and_check()
PrepareRc(i, m) ==
  CASE Ahead(i, m) /\ AlreadyStored(i, m)   -> "EALREADY"
    [] LastIdx(log[i]) < m.prev_log_index   -> "ERANGE"
    [] /\ ~(Ahead(i, m) /\ AlreadyStored(i, m))
       /\ LastIdx(log[i]) >= m.prev_log_index
       /\ EntryAt(PrunedLog(i, m), m.prev_log_index).term # m.prev.term
                                            -> "EEXIST"
    [] OTHER                                -> "OK"

\* The entry of the request is written to the log.
Writes(i, m) == PrepareRc(i, m) = "OK" /\ ~m.heartbeat

\* The first assertion of the handler that fails, if any.
FatalOf(i, m) ==
  IF /\ ri_state[i] = "leader" /\ rlh_term[i] = m.leader_term
     /\ Ahead(i, m) \/ Writes(i, m)
  THEN "not_follower"
  ELSE IF /\ Ahead(i, m) /\ AlreadyStored(i, m)
          /\ m.log_term > 0 /\ ~m.heartbeat
          /\ EntryAt(log[i], m.prev_log_index + 1).data # m.data
  THEN "already_crc"
  ELSE IF /\ Ahead(i, m) /\ AlreadyStored(i, m)
          /\ m.prev_log_index >= 0
          /\ EntryAt(log[i], m.prev_log_index) # m.prev
  THEN "already_prev"
  ELSE IF Prunes(i, m) /\ ri_commit_idx[i] >= m.prev_log_index + 1
  THEN "prune_committed"
  ELSE IF Prunes(i, m) /\ m.prev_log_index = -1
  THEN "prune_all"
  ELSE IF Writes(i, m) /\ (m.log_term <= 0 \/ m.log_term < m.prev.term)
  THEN "entry_term"
  ELSE "none"

Stale(i, m) == rlh_term[i] > m.leader_term

\* raft_server_process_append_entries_term_check_ops(): adopt the sender's
\* term and leadership.  The vote is kept if the term is not new.
AdoptTerm(i, m) ==
  /\ rlh_term' = [rlh_term EXCEPT ![i] = m.leader_term]
  /\ rlh_voted_for' =
       [rlh_voted_for EXCEPT ![i] =
          IF rlh_term[i] < m.leader_term THEN None ELSE @]
  /\ ri_csn_leader' = [ri_csn_leader EXCEPT ![i] = m.src]

\* Mutant: a prune leaves the SYNC header where it was.
SyncedAfterPrepareNoReset(i, m) ==
  IF rlh_term[i] < m.leader_term THEN Len(log[i]) ELSE synced[i]

\* The entries that are durable when the handler is done: the header write of
\* a new term and a prune both sync the log.
SyncedAfterPrepare(i, m) ==
  IF Prunes(i, m) \/ rlh_term[i] < m.leader_term
  THEN Len(PrunedLog(i, m)) ELSE synced[i]

SyncedAfterAppend(i, m) ==
  IF Writes(i, m)
  THEN SyncedAfterWrite(SyncedAfterPrepare(i, m), Len(PrunedLog(i, m)))
  ELSE SyncedAfterPrepare(i, m)

\* Mutant: the commit index may pass the synced end of the log.
AdvanceCommitIdxUnsynced(cur, new, syncIdx) == IF cur < new THEN new ELSE cur

\* raft_server_advance_commit_idx()
AdvanceCommitIdx(cur, new, syncIdx) ==
  IF cur < new /\ syncIdx >= new THEN new ELSE cur

\* A message that is found already stored commits as far as the log is synced.
CommitAfterAppend(i, m) ==
  LET syncIdx == SyncedAfterAppend(i, m) - 1 IN
  CASE PrepareRc(i, m) = "OK" ->
         AdvanceCommitIdx(ri_commit_idx[i], m.commit_index, syncIdx)
    [] PrepareRc(i, m) = "EALREADY" ->
         AdvanceCommitIdx(ri_commit_idx[i], Min2(m.commit_index, syncIdx),
                          syncIdx)
    [] OTHER -> ri_commit_idx[i]

\* Mutant: the reply to a heartbeat does not say that it is one.
AppendReplyToNoHeartbeat(i, m, term, syncIdx, stale, nonmatch, ok) ==
  [type |-> "APPEND_ENTRIES_REPLY", src |-> i, dst |-> m.src,
   leader_term |-> term, prev_log_index |-> m.prev_log_index,
   heartbeat |-> FALSE, newly_initialized |-> syncIdx = -1,
   synced_log_index |-> IF ok \/ nonmatch THEN syncIdx ELSE -1,
   err_stale_term |-> stale, err_non_matching |-> nonmatch]

\* raft_server_process_append_entries_request_prep_reply()
AppendReplyTo(i, m, term, syncIdx, stale, nonmatch, ok) ==
  [type |-> "APPEND_ENTRIES_REPLY", src |-> i, dst |-> m.src,
   leader_term |-> term, prev_log_index |-> m.prev_log_index,
   heartbeat |-> m.heartbeat, newly_initialized |-> syncIdx = -1,
   synced_log_index |-> IF ok \/ nonmatch THEN syncIdx ELSE -1,
   err_stale_term |-> stale, err_non_matching |-> nonmatch]

AppendStale(m) ==
  LET i == m.dst IN
  /\ m.type = "APPEND_ENTRIES_REQUEST" /\ Alive(i)
  /\ Stale(i, m)
  /\ Transmit({m}, {AppendReplyTo(i, m, rlh_term[i], SyncIdx(i),
                                  TRUE, FALSE, FALSE)})
  /\ UNCHANGED <<ri_state, fatal, hdrVars, ri_csn_leader, candVars, logVars,
                 ri_commit_idx, rls_initial_term_idx, rfiVars, boundVars>>

\* Mutant: a candidate goes on after a request of its own term.
StateAfterTermCheckCandidate(i, m) ==
  IF ri_state[i] \in {"leader", "candidate"} /\ rlh_term[i] = m.leader_term
  THEN ri_state[i] ELSE "follower"

\* Only a leader of the very same term keeps its state.
StateAfterTermCheck(i, m) ==
  IF ri_state[i] = "leader" /\ rlh_term[i] = m.leader_term
  THEN "leader" ELSE "follower"

AppendAccept(m) ==
  LET i == m.dst
      rc == PrepareRc(i, m)
  IN
  /\ m.type = "APPEND_ENTRIES_REQUEST" /\ Alive(i)
  /\ ~Stale(i, m)
  /\ FatalOf(i, m) = "none"
  /\ AdoptTerm(i, m)
  /\ ri_state' = [ri_state EXCEPT ![i] = StateAfterTermCheck(i, m)]
  /\ log' = [log EXCEPT ![i] =
               IF Writes(i, m)
               THEN Append(PrunedLog(i, m),
                           [term |-> m.log_term, data |-> m.data])
               ELSE PrunedLog(i, m)]
  /\ synced' = [synced EXCEPT ![i] = SyncedAfterAppend(i, m)]
  /\ ri_commit_idx' = [ri_commit_idx EXCEPT ![i] = CommitAfterAppend(i, m)]
  /\ Transmit({m}, {AppendReplyTo(i, m, m.leader_term,
                                  SyncedAfterAppend(i, m) - 1, FALSE,
                                  rc \in {"ERANGE", "EEXIST"}, rc = "OK")})
  /\ UNCHANGED <<fatal, candVars, rls_initial_term_idx, rfiVars, boundVars>>

\* The handler aborts after the term check, which may have been persisted.
AppendAbort(m) ==
  LET i == m.dst IN
  /\ m.type = "APPEND_ENTRIES_REQUEST" /\ Alive(i)
  /\ ~Stale(i, m)
  /\ FatalOf(i, m) # "none"
  /\ AdoptTerm(i, m)
  /\ Abort(i, FatalOf(i, m))
  /\ synced' = [synced EXCEPT ![i] =
                  IF Prunes(i, m) \/ rlh_term[i] < m.leader_term
                  THEN Len(log[i]) ELSE @]
  /\ msgs' = msgs \ {m}
  /\ UNCHANGED <<candVars, log, ri_commit_idx, rls_initial_term_idx,
                 rfiVars, boundVars>>

-----------------------------------------------------------------------------
(* The leader's commit tally and append-entries replies *)

\* raft_server_get_majority_entry_idx(): the element at position
\* n - n/2 - 1 of the sorted values.
MajorityEntryIdx(value) ==
  LET pos == Cardinality(Server) - (Cardinality(Server) \div 2) - 1 IN
  CHOOSE v \in {value[j] : j \in Server} :
    /\ Cardinality({j \in Server : value[j] < v}) <= pos
    /\ Cardinality({j \in Server : value[j] <= v}) > pos

\* Mutant: an acknowledged entry counts before it is synced.
CommittedIdxUnsynced(i, ackd, syncd) ==
  MajorityEntryIdx([j \in Server |-> IF j = i THEN SyncIdx(i) ELSE ackd[j]])

\* raft_server_leader_calculate_committed_idx(), given the leader's tables.
CommittedIdx(i, ackd, syncd) ==
  MajorityEntryIdx([j \in Server |->
    IF j = i THEN SyncIdx(i) ELSE Min2(ackd[j], syncd[j])])

\* Mutant: the tally commits one index more than a majority has reached.
TallyCommitOneMore(i, ackd, syncd) ==
  LET idx == CommittedIdx(i, ackd, syncd) IN
  IF idx >= rls_initial_term_idx[i] /\ idx > ri_commit_idx[i]
  THEN AdvanceCommitIdx(ri_commit_idx[i], idx + 1, SyncIdx(i))
  ELSE ri_commit_idx[i]

\* raft_server_leader_can_advance_commit_idx() and the advance it allows.
TallyCommit(i, ackd, syncd) ==
  LET idx == CommittedIdx(i, ackd, syncd) IN
  IF idx >= rls_initial_term_idx[i] /\ idx > ri_commit_idx[i]
  THEN AdvanceCommitIdx(ri_commit_idx[i], idx, SyncIdx(i))
  ELSE ri_commit_idx[i]

\* Mutant: the entries before "next" count as synced, whatever sli says.
TryUpdateFollowerSyncIdxAckd(i, j, next, term, sli) ==
  LET accept == term = SyncTerm(i) /\ rfi_synced_idx[i][j] <= next
      new(t) == IF accept THEN [t EXCEPT ![j] = Max2(@, next - 1)] ELSE t
      ackd   == new(rfi_ackd_idx[i])
      syncd  == new(rfi_synced_idx[i])
  IN
  /\ rfi_ackd_idx' = [rfi_ackd_idx EXCEPT ![i] = ackd]
  /\ rfi_synced_idx' = [rfi_synced_idx EXCEPT ![i] = syncd]
  /\ ri_commit_idx' =
       [ri_commit_idx EXCEPT ![i] = TallyCommit(i, ackd, syncd)]

\* raft_server_try_update_follower_sync_idx(): follower j acknowledges all
\* entries before "next" and has synced up to sli.
TryUpdateFollowerSyncIdx(i, j, next, term, sli) ==
  LET accept == /\ term = SyncTerm(i)
                /\ rfi_synced_idx[i][j] <= next
      ackd   == IF accept
                THEN [rfi_ackd_idx[i] EXCEPT ![j] = Max2(@, next - 1)]
                ELSE rfi_ackd_idx[i]
      syncd  == IF accept
                THEN [rfi_synced_idx[i] EXCEPT ![j] = Max2(@, sli)]
                ELSE rfi_synced_idx[i]
  IN
  /\ rfi_ackd_idx' = [rfi_ackd_idx EXCEPT ![i] = ackd]
  /\ rfi_synced_idx' = [rfi_synced_idx EXCEPT ![i] = syncd]
  /\ ri_commit_idx' =
       [ri_commit_idx EXCEPT ![i] =
          IF ackd # rfi_ackd_idx[i] \/ syncd # rfi_synced_idx[i]
          THEN TallyCommit(i, ackd, syncd) ELSE @]

\* The code compares no term; with ~LateAcks the network brings no reply to an
\* older leadership.
AckRelevant(m) ==
  /\ ri_state[m.dst] = "leader"
  /\ LateAcks \/ m.err_stale_term \/ m.leader_term = rlh_term[m.dst]

\* The reply answers a request made with the current next-idx.
AckMatches(m) == m.prev_log_index + 1 = rfi_next_idx[m.dst][m.src]

AckDeposes(m) == m.err_stale_term /\ m.leader_term > rlh_term[m.dst]

IgnoreAppendReply(m) ==
  /\ m.type = "APPEND_ENTRIES_REPLY" /\ Alive(m.dst)
  /\ \/ ~AckRelevant(m)
     \/ m.err_stale_term /\ ~AckDeposes(m)
     \/ ~m.err_stale_term /\ ~AckMatches(m)
  /\ msgs' = msgs \ {m}
  /\ UNCHANGED <<ri_state, fatal, hdrVars, ri_csn_leader, candVars, logVars,
                 ri_commit_idx, rls_initial_term_idx, rfiVars, boundVars>>

\* raft_server_becomes_follower(RAFT_BFRSN_STALE_TERM_WHILE_LEADER)
AppendReplyDeposes(m) ==
  LET i == m.dst IN
  /\ m.type = "APPEND_ENTRIES_REPLY"
  /\ AckRelevant(m) /\ AckDeposes(m)
  /\ ri_state' = [ri_state EXCEPT ![i] = "follower"]
  /\ ri_csn_leader' = [ri_csn_leader EXCEPT ![i] = m.src]
  /\ LogHeaderWrite(i, None, m.leader_term)
  /\ msgs' = msgs \ {m}
  /\ UNCHANGED <<fatal, candVars, log, ri_commit_idx, rls_initial_term_idx,
                 rfiVars, boundVars>>

\* The follower's log does not match: step its next-idx back.
AppendReplyMismatch(m) ==
  LET i == m.dst
      next == rfi_next_idx[i][m.src]
      sli == m.synced_log_index
  IN
  /\ m.type = "APPEND_ENTRIES_REPLY"
  /\ AckRelevant(m) /\ ~m.err_stale_term /\ AckMatches(m)
  /\ m.err_non_matching
  /\ rfi_next_idx' =
       [rfi_next_idx EXCEPT ![i][m.src] =
          IF next = 0 \/ m.newly_initialized THEN 0
          ELSE IF sli >= 0 /\ sli < next THEN sli ELSE next - 1]
  /\ msgs' = msgs \ {m}
  /\ UNCHANGED <<ri_state, fatal, hdrVars, ri_csn_leader, candVars, logVars,
                 ri_commit_idx, rls_initial_term_idx, rfi_current_idx_term,
                 rfi_ackd_idx, rfi_synced_idx, boundVars>>

\* The follower stored the entry, or already had it.
AppendReplyOk(m) ==
  LET i == m.dst
      next == rfi_next_idx[i][m.src] + IF m.heartbeat THEN 0 ELSE 1
  IN
  /\ m.type = "APPEND_ENTRIES_REPLY"
  /\ AckRelevant(m) /\ ~m.err_stale_term /\ AckMatches(m)
  /\ ~m.err_non_matching
  /\ rfi_next_idx' = [rfi_next_idx EXCEPT ![i][m.src] = next]
  /\ TryUpdateFollowerSyncIdx(i, m.src, next, m.leader_term,
                              m.synced_log_index)
  /\ msgs' = msgs \ {m}
  /\ UNCHANGED <<ri_state, fatal, hdrVars, ri_csn_leader, candVars, logVars,
                 rls_initial_term_idx, rfi_current_idx_term, boundVars>>

-----------------------------------------------------------------------------
(* Asynchronous writes: the sync thread and what it triggers *)

\* raft_server_sync_thread() and raft_server_backend_sync(): the SYNC header
\* moves to where the UNSYNC header stood before the device was synced; the
\* main thread may have appended since.
SyncThread(i) ==
  /\ ~SyncWrites /\ Alive(i)
  /\ \E n \in synced[i] + 1 .. Len(log[i]) :
       synced' = [synced EXCEPT ![i] = n]
  /\ UNCHANGED <<ri_state, fatal, hdrVars, ri_csn_leader, candVars, log,
                 ri_commit_idx, rls_initial_term_idx, rfiVars, msgs, boundVars>>

\* raft_server_follower_send_sync_idx(): the message carries the term of the
\* newest synced entry.
SendSyncIdx(i) ==
  /\ ~SyncWrites
  /\ ri_state[i] = "follower"
  /\ ri_csn_leader[i] \notin {None, i}
  /\ Transmit({}, {[type |-> "SYNC_IDX_UPDATE", src |-> i,
                    dst |-> ri_csn_leader[i], term |-> SyncTerm(i),
                    synced_log_index |-> SyncIdx(i)]})
  /\ UNCHANGED <<ri_state, fatal, hdrVars, ri_csn_leader, candVars, logVars,
                 ri_commit_idx, rls_initial_term_idx, rfiVars, boundVars>>

\* raft_server_process_sync_idx_update()
ProcessSyncIdxUpdate(m) ==
  LET i == m.dst IN
  /\ m.type = "SYNC_IDX_UPDATE"
  /\ ri_state[i] = "leader" /\ m.term = rlh_term[i]
  /\ TryUpdateFollowerSyncIdx(i, m.src, rfi_next_idx[i][m.src], m.term,
                              m.synced_log_index)
  /\ msgs' = msgs \ {m}
  /\ UNCHANGED <<ri_state, fatal, hdrVars, ri_csn_leader, candVars, logVars,
                 rls_initial_term_idx, rfi_next_idx, rfi_current_idx_term,
                 boundVars>>

IgnoreSyncIdxUpdate(m) ==
  LET i == m.dst IN
  /\ m.type = "SYNC_IDX_UPDATE" /\ Alive(i)
  /\ ri_state[i] # "leader" \/ m.term # rlh_term[i]
  /\ msgs' = msgs \ {m}
  /\ UNCHANGED <<ri_state, fatal, hdrVars, ri_csn_leader, candVars, logVars,
                 ri_commit_idx, rls_initial_term_idx, rfiVars, boundVars>>

\* raft_server_commit_idx_adv_evp_cb(): the sync thread found that the
\* leader's own progress completes a majority.
CommitIdxAdv(i) ==
  /\ ~SyncWrites
  /\ ri_state[i] = "leader"
  /\ TallyCommit(i, rfi_ackd_idx[i], rfi_synced_idx[i]) # ri_commit_idx[i]
  /\ ri_commit_idx' =
       [ri_commit_idx EXCEPT ![i] =
          TallyCommit(i, rfi_ackd_idx[i], rfi_synced_idx[i])]
  /\ UNCHANGED <<ri_state, fatal, hdrVars, ri_csn_leader, candVars, logVars,
                 rls_initial_term_idx, rfiVars, msgs, boundVars>>

-----------------------------------------------------------------------------
\* A crash, or the end of an aborted process, and the next start:
\* raft_server_instance_init() and raft_server_log_load().  Entries that were
\* not synced survive up to some point; all that is found counts as synced.
Restart(i) ==
  /\ restarts < MaxRestarts
  /\ restarts' = restarts + 1
  /\ \E n \in synced[i] .. Len(log[i]) :
       /\ log' = [log EXCEPT ![i] = SubSeq(@, 1, n)]
       /\ synced' = [synced EXCEPT ![i] = n]
  /\ ri_state' = [ri_state EXCEPT ![i] = "follower"]
  /\ fatal' = [fatal EXCEPT ![i] = "none"]
  /\ ri_csn_leader' = [ri_csn_leader EXCEPT ![i] = None]
  /\ ri_commit_idx' = [ri_commit_idx EXCEPT ![i] = -1]
  /\ rcs_term' = [rcs_term EXCEPT ![i] = 0]
  /\ rcs_results' =
       [rcs_results EXCEPT ![i] = [j \in Server |-> "unknown"]]
  /\ UNCHANGED <<hdrVars, rls_initial_term_idx, rfiVars, msgs, timeouts>>

TimerStep(i) == ElectionTimeout(i) \/ QuorumLoss(i) \/ Heartbeat(i)

VoteStep(m) ==
  \/ ProcessPreVoteRequest(m) \/ GrantVote(m) \/ RefuseVote(m)
  \/ IgnoreVoteReply(m) \/ RegisterVote(m) \/ VoteReplyDeposes(m)
  \/ BecomeCandidate(m) \/ BecomeLeader(m)

AppendStep(m) ==
  \/ AppendStale(m) \/ AppendAccept(m) \/ AppendAbort(m)
  \/ IgnoreAppendReply(m) \/ AppendReplyDeposes(m)
  \/ AppendReplyMismatch(m) \/ AppendReplyOk(m)

SyncStep(m) == ProcessSyncIdxUpdate(m) \/ IgnoreSyncIdxUpdate(m)

LocalStep(i) ==
  \/ RemoteSend(i) \/ (\E v \in Value : ClientWrite(i, v))
  \/ SyncThread(i) \/ SendSyncIdx(i) \/ CommitIdxAdv(i)

Next ==
  \/ \E i \in Server : TimerStep(i) \/ LocalStep(i) \/ Restart(i)
  \/ \E m \in msgs : VoteStep(m) \/ AppendStep(m) \/ SyncStep(m)

Spec == Init /\ [][Next]_vars

-----------------------------------------------------------------------------
(* Properties *)

StateType ==
  /\ ri_state \in
       [Server -> {"follower", "prevote", "candidate", "leader", "aborted"}]
  /\ fatal \in
       [Server -> {"none", "not_follower", "already_crc", "already_prev",
                   "prune_committed", "prune_all", "entry_term"}]
  /\ ri_csn_leader \in [Server -> Server \cup {None}]

HeaderType ==
  /\ rlh_term \in [Server -> Nat]
  /\ rlh_voted_for \in [Server -> Server \cup {None}]

CandidateType ==
  /\ rcs_term \in [Server -> Nat]
  /\ rcs_results \in [Server -> [Server -> {"unknown", "yes", "no"}]]

LogType ==
  /\ log \in [Server -> Seq(Entry)]
  /\ synced \in [Server -> Nat]
  /\ \A i \in Server : synced[i] <= Len(log[i])

LeaderType ==
  /\ ri_commit_idx \in [Server -> Int]
  /\ rls_initial_term_idx \in [Server -> Int]
  /\ rfi_next_idx \in [Server -> [Server -> Nat]]
  /\ rfi_current_idx_term \in [Server -> [Server -> Int]]
  /\ rfi_ackd_idx \in [Server -> [Server -> Int]]
  /\ rfi_synced_idx \in [Server -> [Server -> Int]]

NetworkType == msgs \subseteq Message

BoundType == timeouts \in Nat /\ restarts \in Nat

\* Every variable has its type: the log header, the newest-entry headers, the
\* candidate and leader tables and the RPC messages of raft.h; and the SYNC
\* header is never ahead of the UNSYNC one
\* (raft_server_has_unsynced_entries()).
TypeOK ==
  /\ StateType /\ HeaderType /\ CandidateType /\ LogType /\ LeaderType
  /\ NetworkType /\ BoundType

\* The sanity check of raft_server_candidate_reg_vote_result() and the one of
\* raft_server_leader_init_state() can never fail: whoever collects votes does
\* so for the term its header stands in, and a candidate for leadership has
\* nothing unsynced, whatever messages arrived since it proposed the term.
CandidateViable ==
  \A i \in Server :
    /\ ri_state[i] = "prevote" => rcs_term[i] = rlh_term[i] + 1
    /\ ri_state[i] = "candidate" => /\ rcs_term[i] = rlh_term[i]
                                    /\ synced[i] = Len(log[i])

\* "allow at most one winner per term": two servers never lead in one term at
\* the same time.
ElectionSafety ==
  \A i, j \in Server :
    /\ ri_state[i] = "leader" /\ ri_state[j] = "leader"
    /\ rlh_term[i] = rlh_term[j]
    => i = j

\* The votes <<voter, term, candidate>> of the granted replies under way, of
\* the tables of candidates and leaders, and of the log headers: all that the
\* system can still tell of a vote.
VotesSent ==
  {<<m.src, m.re, m.dst>> :
     m \in {r \in msgs : r.type = "VOTE_REPLY" /\ r.voted_granted}}

VotesCounted ==
  UNION {{<<v, rlh_term[c], c>> : v \in YesVotes(rcs_results[c])} :
           c \in {d \in Server : ri_state[d] \in {"candidate", "leader"}}}

VotesStored ==
  {<<v, rlh_term[v], rlh_voted_for[v]>> :
     v \in {w \in Server : rlh_voted_for[w] # None}}

Votes == VotesSent \cup VotesCounted \cup VotesStored

\* What candidates count is what the voters wrote: no voter backs two servers
\* in a term, a vote is never for a later term than the header of its voter,
\* and who leads was backed by a majority.
VotesWritten ==
  /\ \A b, d \in Votes : b[1] = d[1] /\ b[2] = d[2] => b[3] = d[3]
  /\ \A b \in Votes : b[2] <= rlh_term[b[1]]
  /\ \A i \in Server :
       ri_state[i] = "leader" => IsMajority(YesVotes(rcs_results[i]))

\* The log header never goes back: the persisted term does not decrease, and
\* within a term a vote once written is not changed, restarts included.
VoteIsFinal ==
  [][\A i \in Server :
       /\ rlh_term'[i] >= rlh_term[i]
       /\ rlh_term'[i] = rlh_term[i] /\ rlh_voted_for[i] # None
            => rlh_voted_for'[i] = rlh_voted_for[i]]_vars

\* Two logs that hold an entry of the same term at the same index hold the
\* same entries up to it: the prev-term check, the cached terms of heartbeats
\* and the prune never splice logs of different leaders.
LogMatching ==
  \A i, j \in Server : \A n \in 1 .. Min2(Len(log[i]), Len(log[j])) :
    log[i][n].term = log[j][n].term
      => SubSeq(log[i], 1, n) = SubSeq(log[j], 1, n)

\* A leader never takes a follower to be more than one entry ahead of its own
\* log, the assertion of raft_server_append_entry_should_send_to_follower().
NextIdxBound ==
  \A i \in Server : ri_state[i] = "leader" =>
    \A j \in Peers(i) : rfi_next_idx[i][j] \in 0 .. Len(log[i])

\* What the leader counts for a follower is really there: while the follower
\* has not moved to a later term, its durable log holds the leader's entries
\* up to the index the leader counts.
AckedIsStored ==
  \A i \in Server : ri_state[i] = "leader" =>
    \A j \in Peers(i) :
      LET n == Min2(rfi_ackd_idx[i][j], rfi_synced_idx[i][j]) + 1 IN
      rlh_term[j] <= rlh_term[i] =>
        /\ n <= synced[j]
        /\ n <= Len(log[i])
        /\ SubSeq(log[j], 1, n) = SubSeq(log[i], 1, n)

\* The servers whose durable log starts with the first n entries of L.
Holders(L, n) ==
  {j \in Server : synced[j] >= n /\ SubSeq(log[j], 1, n) = SubSeq(L, 1, n)}

\* When a leader has committed past its initial index, its marker and all that
\* precedes it are durable on a majority, whatever crashes.
CommittedIsDurable ==
  \A i \in Server :
    /\ ri_state[i] = "leader"
    /\ ri_commit_idx[i] > rls_initial_term_idx[i]
    => IsMajority(Holders(log[i], ri_commit_idx[i] + 1))

\* Nothing that a leader committed past its initial index is missing from the
\* log of a leader of a later term.
LeaderCompleteness ==
  \A i, j \in Server :
    /\ ri_state[i] = "leader" /\ ri_commit_idx[i] > rls_initial_term_idx[i]
    /\ ri_state[j] = "leader" /\ rlh_term[j] > rlh_term[i]
    => /\ Len(log[j]) > ri_commit_idx[i]
       /\ SubSeq(log[j], 1, ri_commit_idx[i] + 1)
            = SubSeq(log[i], 1, ri_commit_idx[i] + 1)

\* No server takes an index to be committed that it has not synced.
CommitWithinSync ==
  \A i \in Server : Alive(i) => ri_commit_idx[i] < synced[i]

\* "Only increase the commit index if the majority has ACKd this leader's
\* leader_change_marker AE": committed prefixes agree.
StateMachineSafety ==
  \A i, j \in Server :
    LET n == Min2(ri_commit_idx[i], ri_commit_idx[j]) + 1 IN
    /\ Alive(i) /\ Alive(j)
    => SubSeq(log[i], 1, n) = SubSeq(log[j], 1, n)

\* The leader's tally never falls behind its commit index once it counts
\* (DBG_RAFT_INSTANCE_FATAL_IF of raft_server_leader_can_advance_commit_idx()).
TallyNeverRegresses ==
  \A i \in Server : ri_state[i] = "leader" =>
    LET idx == CommittedIdx(i, rfi_ackd_idx[i], rfi_synced_idx[i]) IN
    idx >= rls_initial_term_idx[i] => idx >= ri_commit_idx[i]

\* Of the assertions in the append-entries handler only those that guard a
\* prune can fail: a prune of the whole log, which is not implemented, and one
\* of what a leader committed of an earlier term (see StateMachineSafety).
\* What is found already stored is what the leader sends, no entry is older
\* than the one before it, and nobody but the leader writes in its term.
OnlyPruneAborts ==
  \A i \in Server : fatal[i] \in {"none", "prune_all", "prune_committed"}

=============================================================================
