--------------------------- MODULE RaftLog_proofs ---------------------------
(***************************************************************************)
(* The logs and the commit index, in every cluster.                        *)
(*                                                                         *)
(* The commit index stays within the synced end of the log whatever the    *)
(* network does.  Next-idx stays within the leader's log if no AE reply is *)
(* late.  If no vote reply is late, a term has one owner: the server that  *)
(* a majority can elect in it (Owner).  Only the owner makes entries of    *)
(* the term, so that a place and a term determine an entry and the entry   *)
(* before it (OneEntry, OneLink), in logs and in requests alike, and logs  *)
(* match.  The tally of a leader only grows, since no other leader of its  *)
(* term can make it cut its log (NoRival).                                 *)
(***************************************************************************)
EXTENDS RaftServer_proofs, SequenceTheorems

-----------------------------------------------------------------------------
(* The commit index and the synced end of the log *)

\* A server that runs after the step ran before it with the same commit index
\* and lost no synced entry, or has synced what it takes to be committed.
CommitKept ==
  \A c \in Server : ri_state'[c] # "aborted" =>
    \/ /\ ri_state[c] # "aborted"
       /\ ri_commit_idx'[c] = ri_commit_idx[c]
       /\ synced'[c] >= synced[c]
    \/ ri_commit_idx'[c] < synced'[c]

\* Such a step keeps every commit index within what is synced.
LEMMA CommitKeptWithin ==
  ASSUME TypeOK, TypeOK', CommitWithinSync, CommitKept
  PROVE  CommitWithinSync'
<1> SUFFICES ASSUME NEW c \in Server, ri_state'[c] # "aborted"
             PROVE  ri_commit_idx'[c] < synced'[c]
  BY DEF CommitWithinSync, Alive
<1>1. /\ ri_commit_idx[c] \in Int /\ synced[c] \in Nat
      /\ ri_commit_idx'[c] \in Int /\ synced'[c] \in Nat
  BY DEF TypeOK, LeaderType, LogType
<1>2. ri_state[c] # "aborted" => ri_commit_idx[c] < synced[c]
  BY DEF CommitWithinSync, Alive
<1> QED
  BY <1>1, <1>2 DEF CommitKept

\* Steps that do not touch commit indexes, abort nobody and lose no synced
\* entry.
LEMMA SyncedGrows ==
  ASSUME TypeOK, UNCHANGED ri_commit_idx,
         \A c \in Server : ri_state[c] = "aborted" => ri_state'[c] = "aborted",
         \A c \in Server : synced'[c] >= synced[c]
  PROVE  CommitKept
BY DEF CommitKept

\* The tally stays within what the leader has synced.
LEMMA TallyWithin ==
  ASSUME TypeOK, NEW i \in Server, NEW ackd, NEW syncd,
         CommittedIdx(i, ackd, syncd) \in Int
  PROVE  \/ TallyCommit(i, ackd, syncd) = ri_commit_idx[i]
         \/ TallyCommit(i, ackd, syncd) < synced[i]
<1>1. synced[i] \in Nat /\ ri_commit_idx[i] \in Int
  BY DEF TypeOK, LeaderType, LogType
<1> DEFINE idx == CommittedIdx(i, ackd, syncd)
<1>2. idx \in Int
  OBVIOUS
<1>3. TallyCommit(i, ackd, syncd) =
        IF idx >= rls_initial_term_idx[i] /\ idx > ri_commit_idx[i]
        THEN AdvanceCommitIdx(ri_commit_idx[i], idx, SyncIdx(i))
        ELSE ri_commit_idx[i]
  BY DEF TallyCommit
<1> HIDE DEF idx
<1> QED
  BY <1>1, <1>2, <1>3 DEF AdvanceCommitIdx, SyncIdx

\* The index the tally finds is an index.
LEMMA CommittedType ==
  ASSUME TypeOK, NEW i \in Server, NEW ackd \in [Server -> Int],
         NEW syncd \in [Server -> Int]
  PROVE  CommittedIdx(i, ackd, syncd) \in Int
<1> DEFINE value == [j \in Server |-> IF j = i THEN SyncIdx(i)
                                      ELSE Min2(ackd[j], syncd[j])]
<1>1. SyncIdx(i) \in Int
  BY SyncType DEF TypeOK
<1>2. value \in [Server -> Int]
  BY <1>1 DEF Min2
<1>3. MajorityEntryIdx(value) \in Int
  BY <1>2, MajorityReached
<1> QED
  BY <1>3 DEF CommittedIdx

\* What a follower reports moves the leader's commit index within its log.
LEMMA UpdateWithin ==
  ASSUME TypeOK, NEW i \in Server, NEW j \in Server, NEW next \in Int,
         NEW sli \in Int, NEW term, TryUpdateFollowerSyncIdx(i, j, next, term, sli)
  PROVE  \A c \in Server : \/ ri_commit_idx'[c] = ri_commit_idx[c]
                           \/ ri_commit_idx'[c] < synced[c]
<1> DEFINE accept == term = SyncTerm(i) /\ rfi_synced_idx[i][j] <= next
           ackd == IF accept
                   THEN [rfi_ackd_idx[i] EXCEPT ![j] = Max2(@, next - 1)]
                   ELSE rfi_ackd_idx[i]
           syncd == IF accept
                    THEN [rfi_synced_idx[i] EXCEPT ![j] = Max2(@, sli)]
                    ELSE rfi_synced_idx[i]
<1>1. /\ rfi_ackd_idx[i] \in [Server -> Int] /\ rfi_synced_idx[i] \in [Server -> Int]
      /\ ri_commit_idx \in [Server -> Int]
  BY DEF TypeOK, LeaderType
<1>2. ackd \in [Server -> Int] /\ syncd \in [Server -> Int]
  BY <1>1 DEF Max2
<1>3. ri_commit_idx' =
        [ri_commit_idx EXCEPT ![i] =
           IF ackd # rfi_ackd_idx[i] \/ syncd # rfi_synced_idx[i]
           THEN TallyCommit(i, ackd, syncd) ELSE @]
  BY DEF TryUpdateFollowerSyncIdx
<1> HIDE DEF ackd, syncd
<1>4. \/ TallyCommit(i, ackd, syncd) = ri_commit_idx[i]
      \/ TallyCommit(i, ackd, syncd) < synced[i]
  BY <1>2, CommittedType, TallyWithin
<1> QED
  BY <1>1, <1>3, <1>4

\* The handler of AE requests commits what is synced, and prunes nothing that
\* is committed.
LEMMA AcceptWithin ==
  ASSUME TypeOK, NEW m \in msgs, AppendAccept(m)
  PROVE  CommitKept
<1> DEFINE i == m.dst
           cur == ri_commit_idx[i]
           syn == SyncedAfterAppend(i, m)
<1>1. m \in AppendRequest /\ i \in Server
  BY MessageKinds DEF TypeOK, NetworkType, AppendAccept
<1>2. /\ log[i] \in Seq(Entry) /\ Len(log[i]) \in Nat /\ synced[i] \in Nat
      /\ synced[i] <= Len(log[i]) /\ cur \in Int
  BY <1>1 DEF TypeOK, LogType, LeaderType
<1>3. m.prev_log_index \in Int /\ m.commit_index \in Int
  BY <1>1 DEF AppendRequest
<1>4. FatalOf(i, m) = "none" /\ Alive(i)
  BY DEF AppendAccept
<1>5. /\ Len(PrunedLog(i, m)) \in Nat /\ SyncedAfterPrepare(i, m) \in Nat
      /\ SyncedAfterPrepare(i, m) <= Len(PrunedLog(i, m))
  BY <1>1, <1>4, PrepareType
<1>6. syn \in Nat /\ syn >= SyncedAfterPrepare(i, m)
  BY <1>5 DEF SyncedAfterAppend, SyncedAfterWrite
<1>7. SyncedAfterPrepare(i, m) >= synced[i] \/ cur < SyncedAfterPrepare(i, m)
  <2>1. CASE Prunes(i, m)
    <3>1. cur < m.prev_log_index + 1
      BY <1>2, <1>3, <1>4, <2>1 DEF FatalOf
    <3>2. PrunedLog(i, m) = SubSeq(log[i], 1, m.prev_log_index + 1)
      BY <2>1 DEF PrunedLog
    <3>3. m.prev_log_index + 1 <= Len(log[i])
      BY <1>2, <1>3, <2>1 DEF Prunes, Ahead, LastIdx
    <3>4. m.prev_log_index + 1 <= Len(PrunedLog(i, m))
      <4>1. CASE m.prev_log_index + 1 >= 1
        BY <1>2, <1>3, <3>2, <3>3, <4>1, SubSeqProperties
      <4>2. CASE m.prev_log_index + 1 < 1
        BY <1>3, <1>5, <4>2
      <4> QED
        BY <1>3, <4>1, <4>2
    <3>5. SyncedAfterPrepare(i, m) = Len(PrunedLog(i, m))
      BY <2>1 DEF SyncedAfterPrepare
    <3> QED
      BY <1>2, <1>3, <1>5, <3>1, <3>4, <3>5
  <2>2. CASE ~Prunes(i, m)
    <3>1. PrunedLog(i, m) = log[i]
      BY <2>2 DEF PrunedLog
    <3> QED
      BY <1>2, <2>2, <3>1 DEF SyncedAfterPrepare
  <2> QED
    BY <2>1, <2>2
<1>8. CommitAfterAppend(i, m) = cur \/ CommitAfterAppend(i, m) < syn
  <2> DEFINE rc == PrepareRc(i, m)
  <2> HIDE DEF rc, cur, syn
  <2>1. /\ rc = "OK" => CommitAfterAppend(i, m) = AdvanceCommitIdx(cur, m.commit_index, syn - 1)
        /\ rc = "EALREADY" =>
             CommitAfterAppend(i, m)
               = AdvanceCommitIdx(cur, Min2(m.commit_index, syn - 1), syn - 1)
        /\ rc \notin {"OK", "EALREADY"} => CommitAfterAppend(i, m) = cur
    BY DEF CommitAfterAppend, rc, cur, syn
  <2>2. /\ Min2(m.commit_index, syn - 1) \in Int /\ syn - 1 \in Int
    BY <1>3, <1>6 DEF Min2
  <2>3. ASSUME NEW new \in Int
        PROVE  AdvanceCommitIdx(cur, new, syn - 1) = cur
                 \/ AdvanceCommitIdx(cur, new, syn - 1) < syn
    BY <1>2, <1>6, <2>2 DEF AdvanceCommitIdx, cur
  <2> QED
    BY <1>3, <2>1, <2>2, <2>3
<1>9. /\ synced'[i] = syn /\ ri_commit_idx'[i] = CommitAfterAppend(i, m)
      /\ \A c \in Server \ {i} : /\ synced'[c] = synced[c]
                                 /\ ri_commit_idx'[c] = ri_commit_idx[c]
                                 /\ ri_state'[c] = ri_state[c]
  BY <1>1 DEF TypeOK, StateType, LogType, LeaderType, AppendAccept
<1>10. ri_state[i] # "aborted"
  BY <1>4 DEF Alive
<1>11. ASSUME NEW c \in Server \ {i}
       PROVE  synced'[c] >= synced[c]
  BY <1>9 DEF TypeOK, LogType
<1> HIDE DEF i, cur, syn
<1>12. \/ ri_commit_idx'[i] = cur /\ syn >= synced[i]
       \/ ri_commit_idx'[i] < syn
  BY <1>2, <1>5, <1>6, <1>7, <1>8, <1>9 DEF cur
<1> QED
  BY <1>9, <1>10, <1>11, <1>12 DEF CommitKept, cur

\* Messages move commit indexes within what is synced.
LEMMA MessageWithin ==
  ASSUME TypeOK, TypeOK', NEW m \in msgs,
         VoteStep(m) \/ AppendStep(m) \/ SyncStep(m)
  PROVE  CommitKept
<1> DEFINE i == m.dst
<1>1. m \in Message /\ i \in Server /\ m.src \in Server
  BY MessageKinds DEF TypeOK, NetworkType
<1>2. \A c \in Server : /\ synced[c] \in Nat /\ Len(log[c]) \in Nat
                        /\ synced[c] <= Len(log[c])
  BY DEF TypeOK, LogType
<1>3. CASE \/ IgnoreVoteReply(m) \/ RegisterVote(m) \/ AppendStale(m)
           \/ IgnoreAppendReply(m) \/ AppendReplyMismatch(m)
           \/ IgnoreSyncIdxUpdate(m)
  BY <1>2, <1>3, SyncedGrows
     DEF IgnoreVoteReply, RegisterVote, AppendStale, IgnoreAppendReply,
         AppendReplyMismatch, IgnoreSyncIdxUpdate, logVars
<1>4. CASE ProcessPreVoteRequest(m) \/ RefuseVote(m)
  <2>1. /\ UNCHANGED <<ri_state, ri_commit_idx>>
        /\ synced' = [synced EXCEPT ![i] = Len(log[i])]
    BY <1>4 DEF ProcessPreVoteRequest, RefuseVote
  <2>2. \A c \in Server : synced'[c] >= synced[c]
    BY <1>1, <1>2, <2>1 DEF TypeOK, LogType
  <2> QED
    BY <2>1, <2>2, SyncedGrows
<1>5. CASE \/ GrantVote(m) \/ VoteReplyDeposes(m) \/ AppendReplyDeposes(m)
           \/ BecomeCandidate(m)
  <2>1. /\ UNCHANGED ri_commit_idx
        /\ synced' = [synced EXCEPT ![i] = Len(log[i])]
        /\ \A c \in Server \ {i} : ri_state'[c] = ri_state[c]
    BY <1>5 DEF TypeOK, StateType, GrantVote, VoteReplyDeposes,
                AppendReplyDeposes, BecomeCandidate, LogHeaderWrite
  <2>2. ri_state[i] # "aborted"
    BY <1>5 DEF GrantVote, VoteReplyDeposes, AppendReplyDeposes,
                BecomeCandidate, Relevant, AckRelevant, Alive
  <2>3. \A c \in Server : synced'[c] >= synced[c]
    BY <1>1, <1>2, <2>1 DEF TypeOK, LogType
  <2> QED
    BY <2>1, <2>2, <2>3, SyncedGrows
<1>6. CASE BecomeLeader(m)
  <2>1. /\ UNCHANGED ri_commit_idx
        /\ synced' = [synced EXCEPT ![i] = SyncedAfterWrite(@, Len(log[i]))]
        /\ \A c \in Server \ {i} : ri_state'[c] = ri_state[c]
    BY <1>6 DEF TypeOK, StateType, BecomeLeader
  <2>2. ri_state[i] # "aborted"
    BY <1>6 DEF BecomeLeader, Relevant
  <2>3. \A c \in Server : synced'[c] >= synced[c]
    BY <1>1, <1>2, <2>1 DEF TypeOK, LogType, SyncedAfterWrite
  <2> QED
    BY <2>1, <2>2, <2>3, SyncedGrows
<1>7. CASE AppendAccept(m)
  BY <1>7, AcceptWithin
<1>8. CASE AppendAbort(m)
  <2>1. /\ UNCHANGED ri_commit_idx /\ ri_state'[i] = "aborted"
        /\ \A c \in Server \ {i} : ri_state'[c] = ri_state[c]
        /\ \A c \in Server \ {i} : synced'[c] = synced[c]
    BY <1>1, <1>8 DEF TypeOK, StateType, LogType, AppendAbort, Abort
  <2> QED
    BY <1>2, <2>1 DEF CommitKept
<1>9. CASE AppendReplyOk(m) \/ ProcessSyncIdxUpdate(m)
  <2>1. UNCHANGED <<ri_state, log, synced>>
    BY <1>9 DEF AppendReplyOk, ProcessSyncIdxUpdate, logVars
  <2>2. \A c \in Server : \/ ri_commit_idx'[c] = ri_commit_idx[c]
                          \/ ri_commit_idx'[c] < synced[c]
    <3>1. PICK next \in Int, sli \in Int, term \in Nat :
            TryUpdateFollowerSyncIdx(i, m.src, next, term, sli)
      <4>1. rfi_next_idx[i][m.src] \in Nat
        BY <1>1 DEF TypeOK, LeaderType
      <4>2. CASE AppendReplyOk(m)
        <5>1. m \in AppendReply
          BY <1>1, <4>2, MessageKinds DEF AppendReplyOk
        <5>2. m.synced_log_index \in Int /\ m.leader_term \in Nat
          BY <5>1 DEF AppendReply
        <5>3. rfi_next_idx[i][m.src] + (IF m.heartbeat THEN 0 ELSE 1) \in Int
          BY <4>1
        <5> QED
          BY <4>2, <5>2, <5>3 DEF AppendReplyOk
      <4>3. CASE ProcessSyncIdxUpdate(m)
        <5>1. m \in SyncIdxUpdate
          BY <1>1, <4>3, MessageKinds DEF ProcessSyncIdxUpdate
        <5>2. m.synced_log_index \in Int /\ m.term \in Nat
          BY <5>1 DEF SyncIdxUpdate
        <5> QED
          BY <4>1, <4>3, <5>2 DEF ProcessSyncIdxUpdate
      <4> QED
        BY <1>9, <4>2, <4>3
    <3> QED
      BY <1>1, <3>1, UpdateWithin
  <2>3. \A c \in Server : ri_commit_idx[c] \in Int
    BY DEF TypeOK, LeaderType
  <2>4. \A c \in Server : ri_state[c] # "aborted" \/ ri_state'[c] = "aborted"
    BY <2>1
  <2> QED
    BY <1>2, <2>1, <2>2, <2>4 DEF CommitKept
<1> QED
  BY <1>3, <1>4, <1>5, <1>6, <1>7, <1>8, <1>9 DEF VoteStep, AppendStep, SyncStep

\* So do timers, client writes, the sync thread and restarts.
LEMMA LocalWithin ==
  ASSUME TypeOK, TypeOK', NEW i \in Server,
         TimerStep(i) \/ LocalStep(i) \/ Restart(i)
  PROVE  CommitKept
<1>1. \A c \in Server : /\ synced[c] \in Nat /\ Len(log[c]) \in Nat
                        /\ synced[c] <= Len(log[c])
  BY DEF TypeOK, LogType
<1>2. CASE BecomePreVote(i) /\ ri_state[i] # "aborted"
  <2>1. /\ UNCHANGED <<ri_commit_idx, synced>>
        /\ \A c \in Server \ {i} : ri_state'[c] = ri_state[c]
    BY <1>2 DEF TypeOK, StateType, BecomePreVote, logVars
  <2> QED
    BY <1>1, <1>2, <2>1, SyncedGrows
<1>3. CASE Heartbeat(i) \/ RemoteSend(i) \/ SendSyncIdx(i)
  <2>1. UNCHANGED <<ri_state, ri_commit_idx, synced>>
    BY <1>3 DEF Heartbeat, RemoteSend, AppendEntrySender, SendSyncIdx, logVars
  <2> QED
    BY <1>1, <2>1, SyncedGrows
<1>4. CASE \E v \in Value : ClientWrite(i, v)
  <2>1. /\ UNCHANGED <<ri_commit_idx, ri_state>>
        /\ synced' = [synced EXCEPT ![i] = SyncedAfterWrite(@, Len(log[i]))]
    BY <1>4 DEF ClientWrite
  <2>2. \A c \in Server : synced'[c] >= synced[c]
    BY <1>1, <2>1 DEF TypeOK, LogType, SyncedAfterWrite
  <2> QED
    BY <2>1, <2>2, SyncedGrows
<1>5. CASE SyncThread(i)
  <2>1. PICK n \in synced[i] + 1 .. Len(log[i]) :
          synced' = [synced EXCEPT ![i] = n]
    BY <1>5 DEF SyncThread
  <2>2. UNCHANGED <<ri_commit_idx, ri_state>>
    BY <1>5 DEF SyncThread
  <2>3. \A c \in Server : synced'[c] >= synced[c]
    BY <1>1, <2>1 DEF TypeOK, LogType
  <2> QED
    BY <2>2, <2>3, SyncedGrows
<1>6. CASE CommitIdxAdv(i)
  <2>1. /\ UNCHANGED <<ri_state, log, synced>>
        /\ ri_commit_idx' =
             [ri_commit_idx EXCEPT ![i] =
                TallyCommit(i, rfi_ackd_idx[i], rfi_synced_idx[i])]
    BY <1>6 DEF CommitIdxAdv, logVars
  <2>2. \/ TallyCommit(i, rfi_ackd_idx[i], rfi_synced_idx[i]) = ri_commit_idx[i]
        \/ TallyCommit(i, rfi_ackd_idx[i], rfi_synced_idx[i]) < synced[i]
    <3>1. rfi_ackd_idx[i] \in [Server -> Int] /\ rfi_synced_idx[i] \in [Server -> Int]
      BY DEF TypeOK, LeaderType
    <3> QED
      BY <3>1, CommittedType, TallyWithin
  <2>3. \A c \in Server : ri_commit_idx'[c] = ri_commit_idx[c] \/ ri_commit_idx'[c] < synced[c]
    BY <2>1, <2>2 DEF TypeOK, LeaderType
  <2>4. \A c \in Server : ri_state[c] # "aborted" \/ ri_state'[c] = "aborted"
    BY <2>1
  <2> QED
    BY <1>1, <2>1, <2>3, <2>4 DEF CommitKept
<1>7. CASE Restart(i)
  <2>1. PICK n \in synced[i] .. Len(log[i]) :
          synced' = [synced EXCEPT ![i] = n]
    BY <1>7 DEF Restart
  <2>2. /\ ri_commit_idx' = [ri_commit_idx EXCEPT ![i] = -1]
        /\ ri_state' = [ri_state EXCEPT ![i] = "follower"]
    BY <1>7 DEF Restart
  <2>3. ri_commit_idx'[i] < synced'[i]
    BY <1>1, <2>1, <2>2 DEF TypeOK, LogType, LeaderType
  <2>4. \A c \in Server \ {i} : /\ ri_commit_idx'[c] = ri_commit_idx[c]
                                /\ synced'[c] = synced[c]
                                /\ ri_state'[c] = ri_state[c]
    BY <2>1, <2>2 DEF TypeOK, StateType, LogType, LeaderType
  <2>5. \A c \in Server \ {i} : synced'[c] >= synced[c]
    BY <1>1, <2>4
  <2> QED
    BY <2>3, <2>4, <2>5 DEF CommitKept
<1> QED
  BY <1>2, <1>3, <1>4, <1>5, <1>6, <1>7
     DEF TimerStep, LocalStep, ElectionTimeout, QuorumLoss

\* No server takes an index to be committed that it has not synced: neither
\* the leader's tally nor a leader's commit index in an AE request, and no
\* prune or restart takes back what is committed.
THEOREM CommitsAreSynced == Spec => []CommitWithinSync
<1>1. Init => CommitWithinSync
  BY DEF Init, CommitWithinSync
<1>2. TypeOK /\ TypeOK' /\ CommitWithinSync /\ [Next]_vars => CommitWithinSync'
  <2> SUFFICES ASSUME TypeOK, TypeOK', CommitWithinSync, [Next]_vars
               PROVE  CommitWithinSync'
    OBVIOUS
  <2>1. CASE UNCHANGED vars
    BY <2>1 DEF CommitWithinSync, Alive, vars, logVars
  <2>2. CASE Next
    BY <2>2, LocalWithin, MessageWithin, CommitKeptWithin DEF Next
  <2> QED
    BY <2>1, <2>2
<1> QED
  BY <1>1, <1>2, TypeCorrect, PTL DEF Spec
-----------------------------------------------------------------------------
(* What a step can do to roles, requests, replies and logs *)

\* Terms only grow; a candidacy is older than the step or in a new term; who
\* leads after the step led or was a candidate in the same term before.
Roles ==
  \A c \in Server :
    /\ rlh_term[c] <= rlh_term'[c]
    /\ ri_state'[c] = "candidate" =>
         ri_state[c] = "candidate" \/ rlh_term[c] < rlh_term'[c]
    /\ ri_state'[c] = "leader" =>
         ri_state[c] \in {"candidate", "leader"} /\ rlh_term'[c] = rlh_term[c]

\* A step that casts no vote moves roles this way.
LEMMA QuietRoles ==
  ASSUME TypeOK, TypeOK', Quiet
  PROVE  Roles
<1>1. \A c \in Server : rlh_term[c] \in Nat /\ rlh_term'[c] \in Nat
  BY DEF TypeOK, HeaderType
<1> QED
  BY <1>1 DEF Quiet, HeaderMoves, Roles

\* Every step does.
LEMMA StepRoles ==
  ASSUME TypeOK, TypeOK', [Next]_vars
  PROVE  Roles
<1>1. \A c \in Server : rlh_term[c] \in Nat
  BY DEF TypeOK, HeaderType
<1>2. UNCHANGED vars => Quiet
  BY DEF Quiet, HeaderMoves, vars, hdrVars, candVars
<1>3. ASSUME NEW m \in msgs, VoteStep(m) PROVE Roles
  <2> DEFINE i == m.dst
  <2>1. i \in Server
    BY MessageKinds DEF TypeOK, NetworkType
  <2>2. CASE \/ ProcessPreVoteRequest(m) \/ RefuseVote(m) \/ IgnoreVoteReply(m)
             \/ VoteReplyDeposes(m)
    BY <2>2, RefusalQuiet, VoteReplyQuiet, QuietRoles
  <2>3. CASE GrantVote(m)
    <3>1. /\ m.proposed_term \in Nat /\ rlh_term[i] < m.proposed_term
          /\ rlh_term' = [rlh_term EXCEPT ![i] = m.proposed_term]
          /\ ri_state' = [ri_state EXCEPT ![i] = "follower"]
      BY <2>3, GrantBacked
    <3>2. /\ rlh_term'[i] > rlh_term[i] /\ ri_state'[i] = "follower"
          /\ \A c \in Server \ {i} : /\ rlh_term'[c] = rlh_term[c]
                                     /\ ri_state'[c] = ri_state[c]
      BY <2>1, <3>1 DEF TypeOK, HeaderType, StateType
    <3> QED
      BY <1>1, <2>1, <3>1, <3>2 DEF Roles
  <2>4. CASE BecomeCandidate(m)
    <3>1. /\ rlh_term' = [rlh_term EXCEPT ![i] = rlh_term[i] + 1]
          /\ ri_state' = [ri_state EXCEPT ![i] = "candidate"]
      BY <2>4, CandidateBacked
    <3>2. /\ rlh_term'[i] = rlh_term[i] + 1 /\ ri_state'[i] = "candidate"
          /\ \A c \in Server \ {i} : /\ rlh_term'[c] = rlh_term[c]
                                     /\ ri_state'[c] = ri_state[c]
      BY <2>1, <3>1 DEF TypeOK, HeaderType, StateType
    <3> QED
      BY <1>1, <2>1, <3>2 DEF Roles
  <2>5. CASE RegisterVote(m)
    BY <1>1, <2>5 DEF RegisterVote, Roles, hdrVars
  <2>6. CASE BecomeLeader(m)
    <3>1. /\ UNCHANGED rlh_term /\ ri_state[i] = "candidate"
          /\ ri_state'[i] = "leader"
          /\ \A c \in Server \ {i} : ri_state'[c] = ri_state[c]
      BY <2>1, <2>6 DEF TypeOK, StateType, BecomeLeader, Relevant, hdrVars
    <3> QED
      BY <1>1, <3>1 DEF Roles
  <2> QED
    BY <1>3, <2>2, <2>3, <2>4, <2>5, <2>6 DEF VoteStep
<1> QED
  BY <1>2, <1>3, LocalQuiet, RestartQuiet, AppendQuiet, QuietRoles DEF Next

\* An AppendEntries request, a heartbeat included.
IsRequest(m) == m.type = "APPEND_ENTRIES_REQUEST"

\* A reply that the leader may act on.
IsAnswer(m) == m.type = "APPEND_ENTRIES_REPLY" /\ ~m.err_stale_term

\* The request is built from its sender's log.
Sent(m) ==
  LET i == m.src
      n == m.prev_log_index + 1
  IN
  /\ ri_state[i] = "leader" /\ m.leader_term = rlh_term[i]
  /\ m.dst # i /\ n \in Nat /\ n = rfi_next_idx[i][m.dst]
  /\ n >= 1 /\ n <= Len(log[i]) => m.prev = log[i][n]
  /\ n + 1 <= Len(log[i]) => m.log_term = log[i][n + 1].term
  /\ ~m.heartbeat => /\ n + 1 <= Len(log[i])
                     /\ log[i][n + 1] = [term |-> m.log_term, data |-> m.data]
                     /\ n >= 1 => m.prev = log[i][n]
  /\ n = 0 => m.prev.term = 0

\* A step sends requests from its sender's log only.
NewRequests == \A m \in msgs' : IsRequest(m) => m \in msgs \/ Sent(m)

\* The reply answers the request.
Answers(m, r) ==
  /\ IsRequest(r) /\ m.dst = r.src /\ m.leader_term = r.leader_term
  /\ m.prev_log_index = r.prev_log_index /\ m.heartbeat = r.heartbeat

\* A step sends replies to requests only.
NewReplies ==
  \A m \in msgs' : IsAnswer(m) => m \in msgs \/ \E r \in msgs : Answers(m, r)

\* A request is what its sender has in its log.
LEMMA RequestSent ==
  ASSUME TypeOK, NEW i \in Server, ri_state[i] = "leader", NEW j \in Peers(i),
         NEW hb \in BOOLEAN, ~hb => rfi_next_idx[i][j] <= LastIdx(log[i])
  PROVE  IsRequest(AppendRequestTo(i, j, hb)) /\ Sent(AppendRequestTo(i, j, hb))
<1> DEFINE m == AppendRequestTo(i, j, hb)
           next == rfi_next_idx[i][j]
<1>1. j \in Server /\ j # i /\ next \in Nat
  BY DEF Peers, TypeOK, LeaderType
<1>2. /\ m.type = "APPEND_ENTRIES_REQUEST" /\ m.src = i /\ m.dst = j
      /\ m.heartbeat = hb /\ m.leader_term = rlh_term[i]
      /\ m.log_term = RefreshedTerm(i, j)
      /\ m.data = IF hb THEN None ELSE EntryAt(log[i], next).data
      /\ m.prev_log_index = next - 1 /\ m.prev = EntryAt(log[i], next - 1)
  BY DEF AppendRequestTo
<1> HIDE DEF m
<1>3. m.prev_log_index + 1 = next
  BY <1>1, <1>2
<1>4. log[i] \in Seq(Entry) /\ Len(log[i]) \in Nat
  BY DEF TypeOK, LogType
<1>5. next >= 1 /\ next <= Len(log[i]) => m.prev = log[i][next]
  BY <1>1, <1>2, <1>4 DEF EntryAt, LastIdx
<1>6. ASSUME next + 1 <= Len(log[i])
      PROVE  /\ EntryAt(log[i], next) = log[i][next + 1]
             /\ m.log_term = log[i][next + 1].term
  <2>1. EntryAt(log[i], next) = log[i][next + 1]
    BY <1>1, <1>4, <1>6 DEF EntryAt, LastIdx
  <2>2. next <= LastIdx(log[i])
    BY <1>1, <1>4, <1>6 DEF LastIdx
  <2> QED
    BY <1>2, <2>1, <2>2 DEF RefreshedTerm
<1>7. ASSUME ~hb
      PROVE  /\ next + 1 <= Len(log[i])
             /\ log[i][next + 1] = [term |-> m.log_term, data |-> m.data]
  <2>1. next + 1 <= Len(log[i])
    BY <1>1, <1>4, <1>7 DEF LastIdx
  <2>2. log[i][next + 1] \in Entry
    BY <1>1, <1>4, <2>1, ElementOfSeq
  <2>3. m.log_term = log[i][next + 1].term /\ m.data = log[i][next + 1].data
    BY <1>2, <1>6, <1>7, <2>1
  <2> QED
    BY <2>1, <2>2, <2>3 DEF Entry
<1>8. next + 1 <= Len(log[i]) => next <= Len(log[i])
  BY <1>1, <1>4
<1>9. next = 0 => m.prev.term = 0
  BY <1>2, <1>4 DEF EntryAt, LastIdx, NullEntry
<1> QED
  BY <1>1, <1>2, <1>3, <1>5, <1>6, <1>7, <1>8, <1>9 DEF IsRequest, Sent, m

\* Steps that send no AE message.
LEMMA NoAppendMessage ==
  ASSUME NEW out, msgs' \subseteq msgs \cup out,
         \A m \in out : m.type \notin {"APPEND_ENTRIES_REQUEST", "APPEND_ENTRIES_REPLY"}
  PROVE  NewRequests /\ NewReplies
BY DEF NewRequests, NewReplies, IsRequest, IsAnswer

\* The handlers of vote messages send vote messages.
LEMMA VoteStepSends ==
  ASSUME NEW m \in msgs, VoteStep(m)
  PROVE  \A r \in msgs' : r \in msgs \/ r.type \in VoteTypes
<1> DEFINE i == m.dst
<1>1. PICK out : /\ msgs' \subseteq msgs \cup out
                 /\ \A r \in out : r.type \in VoteTypes
  <2>1. CASE ProcessPreVoteRequest(m)
    <3> DEFINE q == {VoteReplyTo(i, m, "PRE_VOTE_REPLY", PreVoteDecide(i, m))}
    <3>1. msgs' \subseteq msgs \cup q
      BY <2>1, TransmitAdds DEF ProcessPreVoteRequest
    <3>2. \A r \in q : r.type \in VoteTypes
      BY DEF VoteReplyTo, VoteTypes
    <3> HIDE DEF q
    <3> QED
      BY <3>1, <3>2
  <2>2. CASE GrantVote(m)
    <3> DEFINE q == {VoteReplyTo(i, m, "VOTE_REPLY", TRUE)}
    <3>1. msgs' \subseteq msgs \cup q
      BY <2>2, TransmitAdds DEF GrantVote
    <3>2. \A r \in q : r.type \in VoteTypes
      BY DEF VoteReplyTo, VoteTypes
    <3> HIDE DEF q
    <3> QED
      BY <3>1, <3>2
  <2>3. CASE RefuseVote(m)
    <3> DEFINE q == {VoteReplyTo(i, m, "VOTE_REPLY", FALSE)}
    <3>1. msgs' \subseteq msgs \cup q
      BY <2>3, TransmitAdds DEF RefuseVote
    <3>2. \A r \in q : r.type \in VoteTypes
      BY DEF VoteReplyTo, VoteTypes
    <3> HIDE DEF q
    <3> QED
      BY <3>1, <3>2
  <2>4. CASE BecomeCandidate(m)
    <3> DEFINE q == VoteRequests(i, "VOTE_REQUEST", LastIdx(log[i]),
                                 EntryAt(log[i], LastIdx(log[i])).term)
    <3>1. msgs' \subseteq msgs \cup q
      BY <2>4, TransmitAdds DEF BecomeCandidate
    <3>2. \A r \in q : r.type \in VoteTypes
      BY DEF VoteRequests, VoteTypes
    <3> HIDE DEF q
    <3> QED
      BY <3>1, <3>2
  <2>5. CASE \/ IgnoreVoteReply(m) \/ RegisterVote(m) \/ VoteReplyDeposes(m)
             \/ BecomeLeader(m)
    <3> DEFINE q == {}
    <3>1. msgs' \subseteq msgs \cup q
      BY <2>5 DEF IgnoreVoteReply, RegisterVote, VoteReplyDeposes, BecomeLeader
    <3>2. \A r \in q : r.type \in VoteTypes
      OBVIOUS
    <3> HIDE DEF q
    <3> QED
      BY <3>1, <3>2
  <2> QED
    BY <2>1, <2>2, <2>3, <2>4, <2>5 DEF VoteStep
<1> QED
  BY <1>1

\* The handlers of vote messages send no AE messages.
LEMMA VoteStepMessages ==
  ASSUME NEW m \in msgs, VoteStep(m)
  PROVE  NewRequests /\ NewReplies
BY VoteStepSends DEF NewRequests, NewReplies, IsRequest, IsAnswer, VoteTypes

\* The handlers of AE messages send what they should.
LEMMA AppendStepMessages ==
  ASSUME NEW m \in msgs, AppendStep(m) \/ SyncStep(m)
  PROVE  NewRequests /\ NewReplies
<1> DEFINE i == m.dst
<1>1. CASE AppendStale(m)
  <2> DEFINE q == AppendReplyTo(i, m, rlh_term[i], SyncIdx(i), TRUE, FALSE, FALSE)
  <2>1. msgs' \subseteq msgs \cup {q}
    BY <1>1, TransmitAdds DEF AppendStale
  <2>2. q.type = "APPEND_ENTRIES_REPLY" /\ q.err_stale_term
    BY DEF AppendReplyTo
  <2> HIDE DEF q
  <2> QED
    BY <2>1, <2>2 DEF NewRequests, NewReplies, IsRequest, IsAnswer
<1>2. CASE AppendAccept(m)
  <2> DEFINE rc == PrepareRc(i, m)
             q == AppendReplyTo(i, m, m.leader_term, SyncedAfterAppend(i, m) - 1,
                                FALSE, rc \in {"ERANGE", "EEXIST"}, rc = "OK")
  <2>1. msgs' \subseteq msgs \cup {q}
    BY <1>2, TransmitAdds DEF AppendAccept
  <2>2. /\ q.type = "APPEND_ENTRIES_REPLY" /\ q.dst = m.src
        /\ q.leader_term = m.leader_term /\ q.heartbeat = m.heartbeat
        /\ q.prev_log_index = m.prev_log_index
    BY DEF AppendReplyTo
  <2> HIDE DEF q
  <2>3. Answers(q, m)
    BY <1>2, <2>2 DEF Answers, IsRequest, AppendAccept
  <2> QED
    BY <2>1, <2>2, <2>3 DEF NewRequests, NewReplies, IsRequest
<1>3. CASE \/ AppendAbort(m) \/ IgnoreAppendReply(m) \/ AppendReplyDeposes(m)
           \/ AppendReplyMismatch(m) \/ AppendReplyOk(m) \/ SyncStep(m)
  <2>1. msgs' \subseteq msgs
    BY <1>3 DEF AppendAbort, IgnoreAppendReply, AppendReplyDeposes,
                AppendReplyMismatch, AppendReplyOk, SyncStep,
                ProcessSyncIdxUpdate, IgnoreSyncIdxUpdate
  <2> QED
    BY <2>1 DEF NewRequests, NewReplies
<1> QED
  BY <1>1, <1>2, <1>3 DEF AppendStep

\* So do timers, local work and a restart.
LEMMA LocalMessages ==
  ASSUME TypeOK, NEW i \in Server, TimerStep(i) \/ LocalStep(i) \/ Restart(i)
  PROVE  NewRequests /\ NewReplies
<1>1. CASE BecomePreVote(i)
  <2> DEFINE q == VoteRequests(i, "PRE_VOTE_REQUEST", SyncIdx(i), SyncTerm(i))
  <2>1. msgs' \subseteq msgs \cup q
    BY <1>1, TransmitAdds DEF BecomePreVote
  <2>2. \A r \in q : r.type = "PRE_VOTE_REQUEST"
    BY DEF VoteRequests
  <2> HIDE DEF q
  <2> QED
    BY <2>1, <2>2, NoAppendMessage
<1>2. CASE Heartbeat(i) \/ RemoteSend(i)
  <2>1. PICK to \in SUBSET Peers(i), hb \in BOOLEAN :
          /\ AppendEntrySender(i, to, hb) /\ ri_state[i] = "leader"
          /\ ~hb => \A j \in to : rfi_next_idx[i][j] <= LastIdx(log[i])
    BY <1>2 DEF Heartbeat, RemoteSend
  <2> DEFINE out == {AppendRequestTo(i, j, hb) : j \in to}
  <2>2. msgs' \subseteq msgs \cup out
    BY <2>1, TransmitAdds DEF AppendEntrySender
  <2>3. \A m \in out : IsRequest(m) /\ Sent(m)
    <3> SUFFICES ASSUME NEW j \in to
                 PROVE  /\ IsRequest(AppendRequestTo(i, j, hb))
                        /\ Sent(AppendRequestTo(i, j, hb))
      OBVIOUS
    <3>1. j \in Peers(i) /\ (~hb => rfi_next_idx[i][j] <= LastIdx(log[i]))
      BY <2>1
    <3> QED
      BY <2>1, <3>1, RequestSent
  <2> HIDE DEF out
  <2> QED
    BY <2>2, <2>3 DEF NewRequests, NewReplies, IsRequest, IsAnswer
<1>3. CASE SendSyncIdx(i)
  <2> DEFINE out == {[type |-> "SYNC_IDX_UPDATE", src |-> i,
                      dst |-> ri_csn_leader[i], term |-> SyncTerm(i),
                      synced_log_index |-> SyncIdx(i)]}
  <2>1. msgs' \subseteq msgs \cup out
    BY <1>3, TransmitAdds DEF SendSyncIdx
  <2>2. \A m \in out : m.type = "SYNC_IDX_UPDATE"
    OBVIOUS
  <2> HIDE DEF out
  <2> QED
    BY <2>1, <2>2, NoAppendMessage
<1>4. CASE \/ (\E v \in Value : ClientWrite(i, v)) \/ SyncThread(i)
           \/ CommitIdxAdv(i) \/ Restart(i)
  <2>1. UNCHANGED msgs
    BY <1>4 DEF ClientWrite, SyncThread, CommitIdxAdv, Restart
  <2> QED
    BY <2>1 DEF NewRequests, NewReplies
<1> QED
  BY <1>1, <1>2, <1>3, <1>4
     DEF TimerStep, LocalStep, ElectionTimeout, QuorumLoss

\* Requests come from the log of a leader, and replies from requests.
LEMMA StepMessages ==
  ASSUME TypeOK, [Next]_vars
  PROVE  NewRequests /\ NewReplies
<1>1. UNCHANGED vars => NewRequests /\ NewReplies
  BY DEF NewRequests, NewReplies, vars
<1> QED
  BY <1>1, VoteStepMessages, AppendStepMessages, LocalMessages DEF Next

\* The log of c is cut, or is as it was.
Shorter(c) ==
  /\ Len(log'[c]) <= Len(log[c])
  /\ \A k \in 1 .. Len(log'[c]) : log'[c][k] = log[c][k]

\* The log of i ends in e after n of its entries.
Extended(i, n, e) ==
  /\ n \in 0 .. Len(log[i]) /\ Len(log'[i]) = n + 1
  /\ \A k \in 1 .. n : log'[i][k] = log[i][k]
  /\ log'[i][n + 1] = e

\* No log but that of i changes.
Others(i) == \A c \in Server \ {i} : log'[c] = log[c]

\* A leader writes an entry of its term.
Own(i) ==
  /\ \E e \in Entry : e.term = rlh_term[i] /\ Extended(i, Len(log[i]), e)
  /\ ri_state'[i] = "leader"
  /\ Others(i)

\* A follower writes the entry of a request.
Copied(m) ==
  LET i == m.dst
      n == m.prev_log_index + 1
  IN
  /\ IsRequest(m) /\ ~m.heartbeat
  /\ Extended(i, n, [term |-> m.log_term, data |-> m.data])
  /\ n >= 1 => log[i][n].term = m.prev.term
  /\ m.prev.term <= m.log_term
  /\ rlh_term[i] <= m.leader_term /\ rlh_term'[i] = m.leader_term
  /\ ri_state'[i] # "leader"
  /\ Others(i)

\* The step sends no request.
NoNewRequests == \A m \in msgs' : IsRequest(m) => m \in msgs

\* Logs are cut, or one leader writes, or one follower copies.
LogsMove ==
  \/ \A c \in Server : Shorter(c)
  \/ NoNewRequests /\ \E i \in Server : Own(i)
  \/ NoNewRequests /\ \E m \in msgs : Copied(m)

\* The log of a leader is never cut.
LeaderGrows ==
  \A c \in Server : ri_state'[c] = "leader" =>
    /\ Len(log[c]) <= Len(log'[c])
    /\ \A k \in 1 .. Len(log[c]) : log'[c][k] = log[c][k]

\* No request asks for an entry before the first.
RequestsValid == \A m \in msgs : IsRequest(m) => m.prev_log_index >= -1

\* A log that stays is not longer.
LEMMA SameIsShorter ==
  ASSUME TypeOK, NEW c \in Server, log'[c] = log[c]
  PROVE  Shorter(c)
<1>1. log[c] \in Seq(Entry) /\ Len(log[c]) \in Nat
  BY DEF TypeOK, LogType
<1> QED
  BY <1>1 DEF Shorter

\* A step that leaves all logs moves them this way.
LEMMA LogsSame ==
  ASSUME TypeOK, UNCHANGED log
  PROVE  LogsMove /\ LeaderGrows
<1>1. \A c \in Server : Len(log[c]) \in Nat
  BY DEF TypeOK, LogType
<1> QED
  BY <1>1, SameIsShorter DEF LogsMove, LeaderGrows

\* What the handler of AE requests has made of the log when it has compared
\* terms: it has been cut after the previous entry or not at all, and if the
\* request matches, it ends there, in an entry of the same term.
LEMMA PreparedLog ==
  ASSUME TypeOK, NEW m \in msgs, IsRequest(m), NEW i \in Server,
         m.prev_log_index >= -1, FatalOf(i, m) = "none"
  PROVE  LET n == m.prev_log_index + 1
             P == PrunedLog(i, m)
         IN  /\ n \in Nat /\ P \in Seq(Entry) /\ Len(P) \in Nat
             /\ Len(P) <= Len(log[i])
             /\ \A k \in 1 .. Len(P) : P[k] = log[i][k]
             /\ Prunes(i, m) => Len(P) = n
             /\ ~Prunes(i, m) => P = log[i]
             /\ PrepareRc(i, m) = "OK" =>
                  /\ Len(P) = n
                  /\ n >= 1 => log[i][n].term = m.prev.term
<1> DEFINE n == m.prev_log_index + 1
           L == log[i]
           P == PrunedLog(i, m)
<1>1. m \in AppendRequest
  BY MessageKinds DEF TypeOK, NetworkType, IsRequest
<1>2. L \in Seq(Entry) /\ Len(L) \in Nat
  BY <1>1 DEF TypeOK, LogType
<1>3. m.prev_log_index \in Int /\ n \in Nat
  <2>1. m.prev_log_index \in Int
    BY <1>1 DEF AppendRequest
  <2> QED
    BY <2>1
<1>4. P \in Seq(Entry) /\ Len(P) \in Nat
  BY <1>1, PrepareType
<1>5. /\ Len(P) <= Len(L) /\ \A k \in 1 .. Len(P) : P[k] = L[k]
      /\ Prunes(i, m) => Len(P) = n
      /\ ~Prunes(i, m) => P = L
  <2>1. CASE Prunes(i, m)
    <3>1. P = SubSeq(L, 1, n)
      BY <2>1 DEF PrunedLog
    <3>2. n <= Len(L)
      BY <1>2, <1>3, <2>1 DEF Prunes, Ahead, LastIdx
    <3>3. Len(P) = n /\ \A k \in 1 .. n : P[k] = L[k]
      <4>1. n >= 1
        BY <1>3, <2>1 DEF FatalOf
      <4> HIDE DEF n, L, P
      <4> QED
        BY <1>2, <1>3, <3>1, <3>2, <4>1, SubSeqProperties
    <3> HIDE DEF n, L, P
    <3> QED
      BY <2>1, <3>2, <3>3
  <2>2. CASE ~Prunes(i, m)
    <3>1. P = L
      BY <2>2 DEF PrunedLog
    <3> QED
      BY <1>2, <2>2, <3>1
  <2> QED
    BY <2>1, <2>2
<1>6. ASSUME PrepareRc(i, m) = "OK"
      PROVE  Len(P) = n /\ (n >= 1 => L[n].term = m.prev.term)
  <2>1. /\ ~(Ahead(i, m) /\ AlreadyStored(i, m))
        /\ LastIdx(L) >= m.prev_log_index
        /\ EntryAt(P, m.prev_log_index).term = m.prev.term
    <3>1. LastIdx(L) \in Int
      BY <1>2 DEF LastIdx
    <3> QED
      BY <1>3, <1>6, <3>1 DEF PrepareRc
  <2>2. Len(P) = n
    <3>1. CASE Ahead(i, m)
      BY <1>5, <2>1, <3>1 DEF Prunes
    <3>2. CASE ~Ahead(i, m)
      <4>1. P = L
        BY <1>5, <3>2 DEF Prunes
      <4>2. LastIdx(L) <= m.prev_log_index
        BY <1>2, <1>3, <3>2 DEF Ahead, LastIdx
      <4> QED
        BY <1>2, <1>3, <2>1, <4>1, <4>2 DEF LastIdx
    <3> QED
      BY <3>1, <3>2
  <2>3. n >= 1 => EntryAt(P, m.prev_log_index) = P[n]
    BY <1>3, <2>2 DEF EntryAt, LastIdx
  <2> HIDE DEF P
  <2> QED
    BY <1>3, <1>5, <2>1, <2>2, <2>3
<1> QED
  BY <1>3, <1>4, <1>5, <1>6

\* The handler of AE requests cuts the log or copies the entry.
LEMMA AcceptLog ==
  ASSUME TypeOK, NEW m \in msgs, AppendAccept(m), m.prev_log_index >= -1
  PROVE  /\ Others(m.dst)
         /\ \/ /\ Shorter(m.dst)
               /\ ri_state'[m.dst] = "leader" => log'[m.dst] = log[m.dst]
            \/ Copied(m)
<1> DEFINE i == m.dst
           n == m.prev_log_index + 1
           e == [term |-> m.log_term, data |-> m.data]
           L == log[i]
           P == PrunedLog(i, m)
<1>1. m \in AppendRequest /\ i \in Server /\ IsRequest(m)
  BY MessageKinds DEF TypeOK, NetworkType, AppendAccept, IsRequest
<1>2. L \in Seq(Entry) /\ Len(L) \in Nat
  BY <1>1 DEF TypeOK, LogType
<1>3. FatalOf(i, m) = "none"
  BY DEF AppendAccept
<1>4. Others(i) /\ log'[i] = IF Writes(i, m) THEN Append(P, e) ELSE P
  BY <1>1 DEF TypeOK, LogType, AppendAccept, Others
<1>5. ri_state'[i] = StateAfterTermCheck(i, m)
  BY <1>1 DEF TypeOK, StateType, AppendAccept
<1>6. ri_state'[i] = "leader" => ~Ahead(i, m) /\ ~Writes(i, m)
  BY <1>3, <1>5 DEF FatalOf, StateAfterTermCheck
<1>7. /\ n \in Nat /\ P \in Seq(Entry) /\ Len(P) \in Nat
      /\ Len(P) <= Len(L) /\ \A k \in 1 .. Len(P) : P[k] = L[k]
      /\ ~Prunes(i, m) => P = L
      /\ PrepareRc(i, m) = "OK" =>
           Len(P) = n /\ (n >= 1 => L[n].term = m.prev.term)
  BY <1>1, <1>3, PreparedLog
<1>8. CASE ~Writes(i, m)
  <2>1. log'[i] = P
    BY <1>4, <1>8
  <2>2. Shorter(i)
    BY <1>7, <2>1 DEF Shorter
  <2>3. ri_state'[i] = "leader" => log'[i] = L
    BY <1>6, <1>7, <2>1 DEF Prunes
  <2> QED
    BY <1>4, <2>2, <2>3
<1>9. CASE Writes(i, m)
  <2>1. PrepareRc(i, m) = "OK" /\ ~m.heartbeat
    BY <1>9 DEF Writes
  <2>2. log'[i] = Append(P, e)
    BY <1>4, <1>9
  <2>3. e \in Entry
    BY <1>1, <1>3, <1>9, PrepareType
  <2>4. m.prev.term <= m.log_term
    <3>1. m.log_term \in Int /\ m.prev.term \in Nat
      <4>1. m.prev \in Entry \cup {NullEntry}
        BY <1>1 DEF AppendRequest
      <4>2. m.prev.term \in Nat
        BY <4>1 DEF Entry, NullEntry
      <4>3. m.log_term \in Int
        BY <2>3 DEF Entry
      <4> QED
        BY <4>2, <4>3
    <3> QED
      BY <1>3, <1>9, <3>1 DEF FatalOf
  <2>5. rlh_term[i] <= m.leader_term /\ rlh_term'[i] = m.leader_term
    <3>1. m.leader_term \in Nat /\ rlh_term[i] \in Nat
      BY <1>1 DEF AppendRequest, TypeOK, HeaderType
    <3> QED
      BY <1>1, <3>1 DEF AppendAccept, AdoptTerm, Stale, TypeOK, HeaderType
  <2> HIDE DEF P, e
  <2>6. /\ Len(log'[i]) = n + 1 /\ log'[i][n + 1] = e
        /\ \A k \in 1 .. n : log'[i][k] = P[k]
    BY <1>7, <2>1, <2>2, <2>3, AppendProperties
  <2>7. Extended(i, n, e)
    BY <1>2, <1>7, <2>1, <2>6 DEF Extended
  <2>8. ri_state'[i] # "leader"
    BY <1>6, <1>9
  <2>9. Copied(m)
    BY <1>1, <1>4, <1>7, <2>1, <2>4, <2>5, <2>7, <2>8 DEF Copied, e
  <2> QED
    BY <1>4, <2>9
<1> QED
  BY <1>8, <1>9

\* The marker of a new leader and the entries of clients are entries of the
\* leader's term at the end of its log.
LEMMA OwnWrite ==
  ASSUME TypeOK, NEW i \in Server, NEW e \in Entry, e.term = rlh_term[i],
         log' = [log EXCEPT ![i] = Append(@, e)], ri_state'[i] = "leader",
         msgs' \subseteq msgs
  PROVE  LogsMove /\ LeaderGrows
<1> DEFINE L == log[i]
<1>1. L \in Seq(Entry) /\ Len(L) \in Nat
  BY DEF TypeOK, LogType
<1>2. log'[i] = Append(L, e) /\ Others(i)
  BY DEF TypeOK, LogType, Others
<1>3. /\ Len(log'[i]) = Len(L) + 1 /\ log'[i][Len(L) + 1] = e
      /\ \A k \in 1 .. Len(L) : log'[i][k] = L[k]
  BY <1>1, <1>2, AppendProperties
<1>4. Extended(i, Len(L), e)
  BY <1>1, <1>3 DEF Extended
<1>5. Own(i)
  BY <1>2, <1>4 DEF Own
<1>6. NoNewRequests
  BY DEF NoNewRequests
<1>7. LeaderGrows
  <2> SUFFICES ASSUME NEW c \in Server
               PROVE  /\ Len(log[c]) <= Len(log'[c])
                      /\ \A k \in 1 .. Len(log[c]) : log'[c][k] = log[c][k]
    BY DEF LeaderGrows
  <2>1. Len(log[c]) \in Nat
    BY DEF TypeOK, LogType
  <2> QED
    BY <1>1, <1>2, <1>3, <2>1 DEF Others
<1> QED
  BY <1>5, <1>6, <1>7 DEF LogsMove

\* The handler of AE requests moves logs this way.
LEMMA AcceptMoves ==
  ASSUME TypeOK, NEW m \in msgs, AppendAccept(m), m.prev_log_index >= -1
  PROVE  LogsMove /\ LeaderGrows
<1> DEFINE i == m.dst
<1>1. i \in Server
  BY MessageKinds DEF TypeOK, NetworkType
<1>2. Others(i) /\ \A c \in Server \ {i} : Shorter(c)
  BY AcceptLog, SameIsShorter DEF Others
<1>3. \A c \in Server : Len(log[c]) \in Nat
  BY DEF TypeOK, LogType
<1>4. CASE Shorter(i) /\ (ri_state'[i] = "leader" => log'[i] = log[i])
  <2>1. \A c \in Server : Shorter(c)
    BY <1>2, <1>4
  <2>2. LeaderGrows
    BY <1>2, <1>3, <1>4 DEF LeaderGrows, Others
  <2> QED
    BY <2>1, <2>2 DEF LogsMove
<1>5. CASE Copied(m)
  <2>1. ri_state'[i] # "leader"
    BY <1>5 DEF Copied
  <2>2. LeaderGrows
    BY <1>2, <1>3, <2>1 DEF LeaderGrows, Others
  <2>3. NoNewRequests
    <3> DEFINE rc == PrepareRc(i, m)
               q == AppendReplyTo(i, m, m.leader_term, SyncedAfterAppend(i, m) - 1,
                                  FALSE, rc \in {"ERANGE", "EEXIST"}, rc = "OK")
    <3>1. msgs' \subseteq msgs \cup {q}
      BY TransmitAdds DEF AppendAccept
    <3>2. q.type = "APPEND_ENTRIES_REPLY"
      BY DEF AppendReplyTo
    <3> HIDE DEF q
    <3> QED
      BY <3>1, <3>2 DEF NoNewRequests, IsRequest
  <2> QED
    BY <1>5, <2>2, <2>3 DEF LogsMove
<1> QED
  BY <1>4, <1>5, AcceptLog

\* Every step does.
LEMMA StepLogs ==
  ASSUME TypeOK, RequestsValid, [Next]_vars
  PROVE  LogsMove /\ LeaderGrows
<1>1. ASSUME NEW i \in Server, TimerStep(i) \/ LocalStep(i) \/ Restart(i)
      PROVE  LogsMove /\ LeaderGrows
  <2>1. CASE \/ BecomePreVote(i) \/ Heartbeat(i) \/ RemoteSend(i)
             \/ SyncThread(i) \/ SendSyncIdx(i) \/ CommitIdxAdv(i)
    <3>1. UNCHANGED log
      BY <2>1 DEF BecomePreVote, Heartbeat, RemoteSend, AppendEntrySender,
                  SyncThread, SendSyncIdx, CommitIdxAdv, logVars
    <3> QED
      BY <3>1, LogsSame
  <2>2. CASE \E v \in Value : ClientWrite(i, v)
    <3>1. PICK v \in Value : ClientWrite(i, v)
      BY <2>2
    <3> DEFINE e == [term |-> rlh_term[i], data |-> v]
    <3>2. e \in Entry /\ e.term = rlh_term[i]
      BY DEF TypeOK, HeaderType, Entry
    <3>3. /\ log' = [log EXCEPT ![i] = Append(@, e)]
          /\ ri_state'[i] = "leader" /\ msgs' \subseteq msgs
      BY <3>1 DEF ClientWrite
    <3> HIDE DEF e
    <3> QED
      BY <3>2, <3>3, OwnWrite
  <2>3. CASE Restart(i)
    <3>1. PICK n \in synced[i] .. Len(log[i]) :
            log' = [log EXCEPT ![i] = SubSeq(@, 1, n)]
      BY <2>3 DEF Restart
    <3>2. /\ log'[i] = SubSeq(log[i], 1, n)
          /\ \A c \in Server \ {i} : log'[c] = log[c]
      BY <3>1 DEF TypeOK, LogType
    <3>3. log[i] \in Seq(Entry) /\ Len(log[i]) \in Nat /\ synced[i] \in Nat
      BY DEF TypeOK, LogType
    <3>4. n \in Nat /\ n <= Len(log[i])
      BY <3>3
    <3>5. Len(log'[i]) = n /\ \A k \in 1 .. n : log'[i][k] = log[i][k]
      <4>1. CASE n = 0
        <5>1. SubSeq(log[i], 1, n) = << >>
          BY <3>3, <4>1, SubSeqEmpty
        <5> QED
          BY <3>2, <4>1, <5>1
      <4>2. CASE n >= 1
        BY <3>2, <3>3, <3>4, <4>2, SubSeqProperties
      <4> QED
        BY <3>4, <4>1, <4>2
    <3>6. Shorter(i)
      BY <3>4, <3>5 DEF Shorter
    <3>7. \A c \in Server : Shorter(c)
      BY <3>2, <3>6, SameIsShorter
    <3>8. ri_state'[i] = "follower"
      BY <2>3 DEF TypeOK, StateType, Restart
    <3>9. \A c \in Server : Len(log[c]) \in Nat
      BY DEF TypeOK, LogType
    <3>10. LeaderGrows
      <4> SUFFICES ASSUME NEW c \in Server, ri_state'[c] = "leader"
                   PROVE  /\ Len(log[c]) <= Len(log'[c])
                          /\ \A k \in 1 .. Len(log[c]) : log'[c][k] = log[c][k]
        BY DEF LeaderGrows
      <4>1. c # i
        BY <3>8
      <4>2. log'[c] = log[c]
        BY <3>2, <4>1
      <4> QED
        BY <3>9, <4>2
    <3> QED
      BY <3>7, <3>10 DEF LogsMove
  <2> QED
    BY <1>1, <2>1, <2>2, <2>3
       DEF TimerStep, LocalStep, ElectionTimeout, QuorumLoss
<1>2. ASSUME NEW m \in msgs, VoteStep(m) \/ AppendStep(m) \/ SyncStep(m)
      PROVE  LogsMove /\ LeaderGrows
  <2> DEFINE i == m.dst
  <2>1. i \in Server
    BY MessageKinds DEF TypeOK, NetworkType
  <2>2. CASE AppendAccept(m)
    <3>1. m.prev_log_index >= -1
      BY <2>2 DEF RequestsValid, IsRequest, AppendAccept
    <3> QED
      BY <2>2, <3>1, AcceptMoves
  <2>3. CASE BecomeLeader(m)
    <3> DEFINE e == [term |-> rlh_term[i], data |-> Marker]
    <3>1. e \in Entry /\ e.term = rlh_term[i]
      BY <2>1 DEF TypeOK, HeaderType, Entry
    <3>2. /\ log' = [log EXCEPT ![i] = Append(@, e)]
          /\ ri_state'[i] = "leader" /\ msgs' \subseteq msgs
      BY <2>1, <2>3 DEF TypeOK, StateType, BecomeLeader
    <3> HIDE DEF e, i
    <3> QED
      BY <2>1, <3>1, <3>2, OwnWrite
  <2>4. CASE \/ ProcessPreVoteRequest(m) \/ GrantVote(m) \/ RefuseVote(m)
             \/ IgnoreVoteReply(m) \/ RegisterVote(m) \/ VoteReplyDeposes(m)
             \/ BecomeCandidate(m)
    <3>1. UNCHANGED log
      BY <2>4 DEF ProcessPreVoteRequest, GrantVote, RefuseVote,
         IgnoreVoteReply, RegisterVote, VoteReplyDeposes, BecomeCandidate, logVars
    <3> QED
      BY <3>1, LogsSame
  <2>5. CASE \/ AppendStale(m) \/ AppendAbort(m) \/ IgnoreAppendReply(m)
             \/ AppendReplyDeposes(m) \/ AppendReplyMismatch(m)
             \/ AppendReplyOk(m) \/ SyncStep(m)
    <3>1. UNCHANGED log
      BY <2>5 DEF AppendStale, AppendAbort, IgnoreAppendReply,
         AppendReplyDeposes, AppendReplyMismatch, AppendReplyOk, SyncStep,
         ProcessSyncIdxUpdate, IgnoreSyncIdxUpdate, logVars
    <3> QED
      BY <3>1, LogsSame
  <2> QED
    BY <1>2, <2>2, <2>3, <2>4, <2>5 DEF VoteStep, AppendStep
<1>3. UNCHANGED vars => UNCHANGED log
  BY DEF vars, logVars
<1> QED
  BY <1>1, <1>2, <1>3, LogsSame DEF Next
-----------------------------------------------------------------------------
(* Next-idx *)

\* Whoever leads after a step and did not before was elected in it.
LEMMA LeadersAreElected ==
  ASSUME TypeOK, [Next]_vars, NEW c \in Server, ri_state'[c] = "leader",
         ri_state[c] # "leader"
  PROVE  \E m \in msgs : BecomeLeader(m) /\ m.dst = c
<1>1. ~Quiet
  BY DEF Quiet
<1>2. UNCHANGED vars => Quiet
  BY DEF Quiet, HeaderMoves, vars, hdrVars, candVars
<1>3. PICK m \in msgs : VoteStep(m)
  BY <1>1, <1>2, LocalQuiet, RestartQuiet, AppendQuiet DEF Next
<1>4. m.dst \in Server
  BY MessageKinds DEF TypeOK, NetworkType
<1>5. ~GrantVote(m)
  BY <1>4 DEF TypeOK, StateType, GrantVote
<1>6. ~BecomeCandidate(m)
  BY <1>4 DEF TypeOK, StateType, BecomeCandidate
<1>7. ~RegisterVote(m)
  BY DEF RegisterVote
<1>8. BecomeLeader(m)
  BY <1>1, <1>3, <1>5, <1>6, <1>7, RefusalQuiet, VoteReplyQuiet DEF VoteStep
<1>9. m.dst = c
  BY <1>4, <1>8 DEF TypeOK, StateType, BecomeLeader
<1> QED
  BY <1>8, <1>9

\* s led or leads in term t, and if it still does its log holds the entry of
\* an AE with this previous index.
Held(s, t, hb, prev) ==
  /\ t <= rlh_term[s]
  /\ rlh_term[s] = t => ri_state[s] # "candidate"
  /\ ~hb /\ ri_state[s] = "leader" /\ rlh_term[s] = t => prev + 2 <= Len(log[s])

\* Requests are from a leadership, and not to its leader.
RequestsHeld ==
  \A m \in msgs : IsRequest(m) =>
    /\ m.prev_log_index >= -1 /\ m.src # m.dst
    /\ Held(m.src, m.leader_term, m.heartbeat, m.prev_log_index)

\* So are the requests that replies answer.
AnswersHeld ==
  \A m \in msgs : IsAnswer(m) =>
    Held(m.dst, m.leader_term, m.heartbeat, m.prev_log_index)

\* A leadership that goes on keeps its entries, and a past one is not resumed.
LEMMA HeldKept ==
  ASSUME TypeOK, TypeOK', Roles, LeaderGrows, NEW s \in Server, NEW t \in Nat,
         NEW hb, NEW prev \in Int, Held(s, t, hb, prev)
  PROVE  Held(s, t, hb, prev)'
<1>1. rlh_term[s] \in Nat /\ rlh_term'[s] \in Nat
  BY DEF TypeOK, HeaderType
<1>2. Len(log[s]) \in Nat /\ Len(log'[s]) \in Nat
  BY DEF TypeOK, LogType
<1>3. t <= rlh_term'[s]
  BY <1>1 DEF Held, Roles
<1>4. rlh_term'[s] = t => ri_state'[s] # "candidate"
  BY <1>1 DEF Held, Roles
<1>5. ASSUME ~hb, ri_state'[s] = "leader", rlh_term'[s] = t
      PROVE  prev + 2 <= Len(log'[s])
  <2>1. ri_state[s] \in {"candidate", "leader"} /\ rlh_term[s] = t
    BY <1>5 DEF Roles
  <2>2. prev + 2 <= Len(log[s])
    BY <1>5, <2>1 DEF Held
  <2>3. Len(log[s]) <= Len(log'[s])
    BY <1>5 DEF LeaderGrows
  <2> QED
    BY <1>2, <2>2, <2>3
<1> QED
  BY <1>3, <1>4, <1>5 DEF Held

\* The types of a request's fields.
LEMMA RequestFields ==
  ASSUME NEW m \in Message, IsRequest(m)
  PROVE  /\ m \in AppendRequest /\ m.src \in Server /\ m.dst \in Server
         /\ m.leader_term \in Nat /\ m.prev_log_index \in Int
         /\ m.heartbeat \in BOOLEAN
         /\ ~m.heartbeat => [term |-> m.log_term, data |-> m.data] \in Entry
<1>1. m \in AppendRequest
  BY MessageKinds DEF IsRequest
<1>2. /\ m.src \in Server /\ m.dst \in Server
      /\ m.leader_term \in Nat /\ m.prev_log_index \in Int
      /\ m.heartbeat \in BOOLEAN
  BY <1>1 DEF AppendRequest
<1>3. ~m.heartbeat => m.log_term \in Nat /\ m.data \in Value \cup {Marker}
  BY <1>1 DEF AppendRequest
<1> QED
  BY <1>1, <1>2, <1>3 DEF Entry

\* The types of a reply's fields.
LEMMA AnswerFields ==
  ASSUME NEW m \in Message, IsAnswer(m)
  PROVE  /\ m.src \in Server /\ m.dst \in Server
         /\ m.leader_term \in Nat /\ m.prev_log_index \in Int
         /\ m.heartbeat \in BOOLEAN
<1>1. m \in AppendReply
  BY MessageKinds DEF IsAnswer
<1> QED
  BY <1>1 DEF AppendReply

\* Requests and replies stay behind the leadership they are from.
LEMMA StepHeld ==
  ASSUME TypeOK, TypeOK', RequestsHeld, AnswersHeld, [Next]_vars
  PROVE  RequestsHeld' /\ AnswersHeld'
<1>1. Roles /\ NewRequests /\ NewReplies
  BY StepRoles, StepMessages
<1>2. LeaderGrows
  BY StepLogs DEF RequestsHeld, RequestsValid
<1>3. msgs \subseteq Message /\ msgs' \subseteq Message
  BY DEF TypeOK, NetworkType
<1>4. ASSUME NEW m \in msgs', IsRequest(m)
      PROVE  /\ m.prev_log_index >= -1 /\ m.src # m.dst
             /\ Held(m.src, m.leader_term, m.heartbeat, m.prev_log_index)
  <2>1. CASE m \in msgs
    BY <1>4, <2>1 DEF RequestsHeld
  <2>2. CASE Sent(m)
    <3>1. /\ m.src \in Server /\ m.leader_term \in Nat /\ m.prev_log_index \in Int
      BY <1>3, <1>4, RequestFields
    <3>2. /\ ri_state[m.src] = "leader" /\ m.leader_term = rlh_term[m.src]
          /\ m.src # m.dst /\ m.prev_log_index + 1 \in Nat
          /\ ~m.heartbeat => m.prev_log_index + 1 + 1 <= Len(log[m.src])
      BY <2>2 DEF Sent
    <3>3. m.prev_log_index >= -1
      BY <3>1, <3>2
    <3>4. ~m.heartbeat => m.prev_log_index + 2 <= Len(log[m.src])
      BY <3>1, <3>2
    <3>5. m.leader_term <= rlh_term[m.src]
      BY <3>1, <3>2
    <3> QED
      BY <3>2, <3>3, <3>4, <3>5 DEF Held
  <2> QED
    BY <1>1, <1>4, <2>1, <2>2 DEF NewRequests
<1>5. RequestsHeld'
  <2> SUFFICES ASSUME NEW m \in msgs', IsRequest(m)
               PROVE  /\ m.prev_log_index >= -1 /\ m.src # m.dst
                      /\ Held(m.src, m.leader_term, m.heartbeat, m.prev_log_index)'
    BY DEF RequestsHeld, IsRequest
  <2>1. /\ m.src \in Server /\ m.leader_term \in Nat /\ m.prev_log_index \in Int
    BY <1>3, RequestFields
  <2> QED
    BY <1>1, <1>2, <1>4, <2>1, HeldKept
<1>6. AnswersHeld'
  <2> SUFFICES ASSUME NEW m \in msgs', IsAnswer(m)
               PROVE  Held(m.dst, m.leader_term, m.heartbeat, m.prev_log_index)'
    BY DEF AnswersHeld, IsAnswer
  <2>1. Held(m.dst, m.leader_term, m.heartbeat, m.prev_log_index)
    <3>1. CASE m \in msgs
      BY <3>1 DEF AnswersHeld
    <3>2. ASSUME NEW r \in msgs, Answers(m, r)
          PROVE  Held(m.dst, m.leader_term, m.heartbeat, m.prev_log_index)
      BY <3>2 DEF Answers, RequestsHeld
    <3> QED
      BY <1>1, <3>1, <3>2 DEF NewReplies
  <2>2. m.dst \in Server /\ m.leader_term \in Nat /\ m.prev_log_index \in Int
    BY <1>3, AnswerFields
  <2> QED
    BY <1>1, <1>2, <2>1, <2>2, HeldKept
<1> QED
  BY <1>5, <1>6

\* Both hold in every state.
LEMMA MessagesHeld == Spec => [](RequestsHeld /\ AnswersHeld)
<1>1. Init => RequestsHeld /\ AnswersHeld
  BY DEF Init, RequestsHeld, AnswersHeld
<1>2. /\ TypeOK /\ TypeOK' /\ RequestsHeld /\ AnswersHeld /\ [Next]_vars
      => RequestsHeld' /\ AnswersHeld'
  BY StepHeld
<1> QED
  BY <1>1, <1>2, TypeCorrect, PTL DEF Spec

\* How next-idx moves in a leadership that goes on: back, or past the entry
\* that a follower has acknowledged.
NextMoves ==
  \A c, j \in Server :
    \/ rfi_next_idx'[c][j] <= rfi_next_idx[c][j]
    \/ \E m \in msgs : /\ IsAnswer(m) /\ AckRelevant(m) /\ m.dst = c
                       /\ m.src = j /\ ~m.heartbeat /\ ~m.err_non_matching
                       /\ rfi_next_idx'[c][j] = m.prev_log_index + 2

\* Every step but that of a new leader moves next-idx this way.
LEMMA StepNext ==
  ASSUME TypeOK, TypeOK', [Next]_vars,
         ~ \E m \in msgs : BecomeLeader(m)
  PROVE  NextMoves
<1>1. \A c, j \in Server : rfi_next_idx[c][j] \in Nat
  BY DEF TypeOK, LeaderType
<1>2. UNCHANGED rfi_next_idx => NextMoves
  BY <1>1 DEF NextMoves
<1>3. UNCHANGED vars => UNCHANGED rfi_next_idx
  BY DEF vars, rfiVars
<1>4. ASSUME NEW i \in Server, TimerStep(i) \/ LocalStep(i) \/ Restart(i)
      PROVE  UNCHANGED rfi_next_idx
  BY <1>4 DEF TimerStep, LocalStep, ElectionTimeout, QuorumLoss, BecomePreVote,
              Heartbeat, RemoteSend, AppendEntrySender, ClientWrite, SyncThread,
              SendSyncIdx, CommitIdxAdv, Restart, rfiVars
<1>5. ASSUME NEW m \in msgs, VoteStep(m) PROVE UNCHANGED rfi_next_idx
  BY <1>5 DEF VoteStep, ProcessPreVoteRequest, GrantVote, RefuseVote,
              IgnoreVoteReply, RegisterVote, VoteReplyDeposes, BecomeCandidate,
              rfiVars
<1>6. ASSUME NEW m \in msgs, AppendStep(m) \/ SyncStep(m) PROVE NextMoves
  <2> DEFINE i == m.dst
             next == rfi_next_idx[i][m.src]
  <2>1. i \in Server /\ m.src \in Server /\ m \in Message
    BY MessageKinds DEF TypeOK, NetworkType
  <2>2. next \in Nat
    BY <1>1, <2>1
  <2>3. CASE \/ AppendStale(m) \/ AppendAccept(m) \/ AppendAbort(m)
             \/ IgnoreAppendReply(m) \/ AppendReplyDeposes(m) \/ SyncStep(m)
    <3>1. UNCHANGED rfi_next_idx
      BY <2>3 DEF AppendStale, AppendAccept, AppendAbort, IgnoreAppendReply,
                  AppendReplyDeposes, SyncStep, ProcessSyncIdxUpdate,
                  IgnoreSyncIdxUpdate, rfiVars
    <3> QED
      BY <1>2, <3>1
  <2>4. CASE AppendReplyMismatch(m)
    <3> DEFINE sli == m.synced_log_index
               new == IF next = 0 \/ m.newly_initialized THEN 0
                      ELSE IF sli >= 0 /\ sli < next THEN sli ELSE next - 1
    <3>1. rfi_next_idx' = [rfi_next_idx EXCEPT ![i][m.src] = new]
      BY <2>4 DEF AppendReplyMismatch
    <3>2. sli \in Int
      <4>1. m \in AppendReply
        BY <2>1, <2>4, MessageKinds DEF AppendReplyMismatch
      <4> QED
        BY <4>1 DEF AppendReply
    <3>3. new <= next
      BY <2>2, <3>2
    <3> HIDE DEF new, next
    <3>4. \A c, j \in Server : rfi_next_idx'[c][j] = rfi_next_idx[c][j]
                                 \/ (c = i /\ j = m.src /\ rfi_next_idx'[c][j] = new)
      BY <2>1, <3>1 DEF TypeOK, LeaderType
    <3> QED
      BY <1>1, <3>3, <3>4 DEF NextMoves, next
  <2>5. CASE AppendReplyOk(m)
    <3> DEFINE new == next + IF m.heartbeat THEN 0 ELSE 1
    <3>1. rfi_next_idx' = [rfi_next_idx EXCEPT ![i][m.src] = new]
      BY <2>5 DEF AppendReplyOk
    <3>2. m.prev_log_index \in Int /\ m.heartbeat \in BOOLEAN
      <4>1. m \in AppendReply
        BY <2>1, <2>5, MessageKinds DEF AppendReplyOk
      <4> QED
        BY <4>1 DEF AppendReply
    <3>3. m.prev_log_index + 1 = next
      BY <2>5 DEF AppendReplyOk, AckMatches
    <3>4. new = IF m.heartbeat THEN next ELSE m.prev_log_index + 2
      BY <2>2, <3>2, <3>3
    <3>5. IsAnswer(m) /\ AckRelevant(m) /\ ~m.err_non_matching
      BY <2>5 DEF AppendReplyOk, IsAnswer
    <3> HIDE DEF new, next
    <3>6. \A c, j \in Server : rfi_next_idx'[c][j] = rfi_next_idx[c][j]
                                 \/ (c = i /\ j = m.src /\ rfi_next_idx'[c][j] = new)
      BY <2>1, <3>1 DEF TypeOK, LeaderType
    <3>7. ASSUME NEW c \in Server, NEW j \in Server
          PROVE  \/ rfi_next_idx'[c][j] <= rfi_next_idx[c][j]
                 \/ \E r \in msgs : /\ IsAnswer(r) /\ AckRelevant(r) /\ r.dst = c
                                    /\ r.src = j /\ ~r.heartbeat
                                    /\ ~r.err_non_matching
                                    /\ rfi_next_idx'[c][j] = r.prev_log_index + 2
      <4>1. CASE rfi_next_idx'[c][j] = rfi_next_idx[c][j]
        BY <1>1, <4>1
      <4>2. CASE c = i /\ j = m.src /\ rfi_next_idx'[c][j] = new
        <5>1. CASE m.heartbeat
          BY <1>1, <3>4, <4>2, <5>1 DEF next
        <5>2. CASE ~m.heartbeat
          BY <3>4, <3>5, <4>2, <5>2
        <5> QED
          BY <5>1, <5>2
      <4> QED
        BY <3>6, <4>1, <4>2
    <3> QED
      BY <3>7 DEF NextMoves
  <2> QED
    BY <1>6, <2>3, <2>4, <2>5 DEF AppendStep
<1> QED
  BY <1>2, <1>3, <1>4, <1>5, <1>6 DEF Next

\* Every step keeps next-idx within the log of its leader if no AE reply is
\* late.
LEMMA StepNextIdx ==
  ASSUME ~LateAcks, TypeOK, TypeOK', RequestsHeld, AnswersHeld, NextIdxBound,
         [Next]_vars
  PROVE  NextIdxBound'
<1> SUFFICES ASSUME NEW c \in Server, ri_state'[c] = "leader",
                    NEW j \in Server, j # c
             PROVE  rfi_next_idx'[c][j] \in 0 .. Len(log'[c])
  BY DEF NextIdxBound, Peers
<1>1. rfi_next_idx'[c][j] \in Nat /\ rfi_next_idx[c][j] \in Nat
  BY DEF TypeOK, LeaderType
<1>2. Len(log[c]) \in Nat /\ Len(log'[c]) \in Nat
  BY DEF TypeOK, LogType
<1>3. Len(log[c]) <= Len(log'[c])
  BY StepLogs DEF LeaderGrows, RequestsHeld, RequestsValid
<1>4. CASE \E m \in msgs : BecomeLeader(m)
  <2>1. PICK m \in msgs : BecomeLeader(m)
    BY <1>4
  <2>2. m.dst \in Server
    BY MessageKinds DEF TypeOK, NetworkType
  <2>3. CASE c = m.dst
    <3>1. SyncIdx(c) + 1 = synced[c] /\ synced[c] <= Len(log[c])
      BY DEF SyncIdx, TypeOK, LogType
    <3>2. rfi_next_idx'[c] = [k \in Server |-> SyncIdx(c) + 1]
      BY <2>1, <2>3 DEF TypeOK, LeaderType, BecomeLeader
    <3>3. rfi_next_idx'[c][j] = synced[c]
      BY <3>1, <3>2
    <3> QED
      BY <1>1, <1>2, <1>3, <3>1, <3>3 DEF TypeOK, LogType
  <2>4. CASE c # m.dst
    <3>1. rfi_next_idx'[c] = rfi_next_idx[c]
      BY <2>1, <2>4 DEF TypeOK, LeaderType, BecomeLeader
    <3>2. ri_state[c] = "leader"
      BY <2>1, <2>4 DEF TypeOK, StateType, BecomeLeader
    <3>3. rfi_next_idx[c][j] \in 0 .. Len(log[c])
      BY <3>2 DEF NextIdxBound, Peers
    <3> QED
      BY <1>1, <1>2, <1>3, <3>1, <3>3
  <2> QED
    BY <2>3, <2>4
<1>5. CASE ~ \E m \in msgs : BecomeLeader(m)
  <2>1. ri_state[c] = "leader"
    BY <1>5, LeadersAreElected
  <2>2. rfi_next_idx[c][j] \in 0 .. Len(log[c])
    BY <2>1 DEF NextIdxBound, Peers
  <2>3. NextMoves
    BY <1>5, StepNext
  <2>4. CASE rfi_next_idx'[c][j] <= rfi_next_idx[c][j]
    BY <1>1, <1>2, <1>3, <2>2, <2>4
  <2>5. ASSUME NEW m \in msgs, IsAnswer(m), AckRelevant(m), m.dst = c,
               ~m.heartbeat, rfi_next_idx'[c][j] = m.prev_log_index + 2
        PROVE  rfi_next_idx'[c][j] <= Len(log[c])
    <3>1. m.leader_term = rlh_term[c]
      BY <2>5 DEF AckRelevant, IsAnswer
    <3>2. Held(c, m.leader_term, m.heartbeat, m.prev_log_index)
      BY <2>5 DEF AnswersHeld
    <3> QED
      BY <2>1, <2>5, <3>1, <3>2 DEF Held
  <2>6. rfi_next_idx'[c][j] <= Len(log[c]) => rfi_next_idx'[c][j] \in 0 .. Len(log'[c])
    BY <1>1, <1>2, <1>3
  <2> QED
    BY <2>3, <2>4, <2>5, <2>6 DEF NextMoves
<1> QED
  BY <1>4, <1>5

\* The assertion of raft_server_append_entry_should_send_to_follower() holds
\* for every follower in every leadership, provided that no AE reply outlives
\* the leadership it answers; vote replies may be late.
THEOREM NextIdxWithinLog == ~LateAcks => (Spec => []NextIdxBound)
<1> SUFFICES ASSUME ~LateAcks PROVE Spec => []NextIdxBound
  OBVIOUS
<1>1. Init => NextIdxBound
  BY DEF Init, NextIdxBound
<1>2. /\ TypeOK /\ TypeOK' /\ RequestsHeld /\ AnswersHeld /\ NextIdxBound
      /\ [Next]_vars
      => NextIdxBound'
  BY StepNextIdx
<1> QED
  BY <1>1, <1>2, TypeCorrect, MessagesHeld, PTL DEF Spec
-----------------------------------------------------------------------------
(* Log matching *)

\* Server o has won term t: a majority is past the votes of the term, and what
\* is left of them is for o.
Owner(t, o) ==
  /\ t \in Nat /\ t <= rlh_term[o]
  /\ rlh_term[o] = t => ri_state[o] # "candidate"
  /\ \E Q \in SUBSET Server :
       /\ IsMajority(Q)
       /\ \A q \in Q : t <= rlh_term[q]
       /\ \A q \in Q : \A c \in Server : Backed(q, t, c) => c = o

\* A leader owns its term, and nobody else does.
LeadersOwn ==
  \A i \in Server : ri_state[i] = "leader" =>
    /\ Owner(rlh_term[i], i)
    /\ \A o \in Server : Owner(rlh_term[i], o) => o = i

\* The votes that were written make leaders owners.
LEMMA LeadersOwnTerms == TypeOK /\ VotesWritten => LeadersOwn
<1> SUFFICES ASSUME TypeOK, VotesWritten, NEW i \in Server,
                    ri_state[i] = "leader"
             PROVE  /\ Owner(rlh_term[i], i)
                    /\ \A o \in Server : Owner(rlh_term[i], o) => o = i
  BY DEF LeadersOwn
<1> DEFINE t == rlh_term[i]
           Q == YesVotes(rcs_results[i])
<1>1. OneVote /\ NotAhead /\ Led
  BY WrittenVotes
<1>2. t \in Nat
  BY DEF TypeOK, HeaderType
<1>3. Q \in SUBSET Server /\ IsMajority(Q)
  BY <1>1 DEF Led, YesVotes
<1>4. \A q \in Q : Backed(q, t, i)
  BY DEF YesVotes, Backed
<1> HIDE DEF Q
<1>5. Owner(t, i)
  <2>1. \A q \in Q : t <= rlh_term[q]
    BY <1>1, <1>2, <1>3, <1>4 DEF NotAhead
  <2>2. \A q \in Q : \A c \in Server : Backed(q, t, c) => c = i
    BY <1>1, <1>2, <1>3, <1>4 DEF OneVote
  <2> QED
    BY <1>2, <1>3, <2>1, <2>2 DEF Owner
<1>6. ASSUME NEW o \in Server, Owner(t, o) PROVE o = i
  <2>1. PICK R \in SUBSET Server :
          /\ IsMajority(R)
          /\ \A q \in R : \A c \in Server : Backed(q, t, c) => c = o
    BY <1>6 DEF Owner
  <2>2. PICK v \in Server : v \in Q /\ v \in R
    BY <1>3, <2>1, MajoritiesMeet
  <2> QED
    BY <1>4, <2>1, <2>2
<1> QED
  BY <1>5, <1>6

\* A term that was won stays won.
LEMMA OwnerKept ==
  ASSUME ~LateVotes, TypeOK, TypeOK', CandidateViable, [Next]_vars,
         NEW t, NEW o \in Server, Owner(t, o)
  PROVE  Owner(t, o)'
<1>1. Roles
  BY StepRoles
<1>2. \A c \in Server : rlh_term[c] \in Nat /\ rlh_term'[c] \in Nat
  BY DEF TypeOK, HeaderType
<1>3. t \in Nat /\ t <= rlh_term[o]
  BY DEF Owner
<1>4. t <= rlh_term'[o] /\ (rlh_term'[o] = t => ri_state'[o] # "candidate")
  BY <1>1, <1>2, <1>3 DEF Owner, Roles
<1>5. PICK Q \in SUBSET Server :
        /\ IsMajority(Q)
        /\ \A q \in Q : t <= rlh_term[q]
        /\ \A q \in Q : \A c \in Server : Backed(q, t, c) => c = o
  BY DEF Owner
<1>6. \A q \in Q : t <= rlh_term'[q]
  BY <1>1, <1>2, <1>3, <1>5 DEF Roles
<1>7. ASSUME NEW q \in Q, NEW c \in Server, Backed(q, t, c)'
      PROVE  c = o
  <2>1. q \in Server /\ ~(rlh_term[q] < t)
    BY <1>2, <1>3, <1>5
  <2>2. Backed(q, t, c)
    BY <1>3, <1>7, <2>1, VotesAreNew
  <2> QED
    BY <1>5, <2>2
<1>8. IsMajority(Q)'
  BY <1>5 DEF IsMajority
<1> QED
  BY <1>3, <1>4, <1>6, <1>7, <1>8 DEF Owner

\* An entry that some log or some request holds at place n.
Logged(n, e) ==
  \/ \E i \in Server : n \in 1 .. Len(log[i]) /\ log[i][n] = e
  \/ \E m \in msgs :
       /\ IsRequest(m) /\ ~m.heartbeat
       /\ \/ /\ n = m.prev_log_index + 2
             /\ e = [term |-> m.log_term, data |-> m.data]
          \/ n = m.prev_log_index + 1 /\ n >= 1 /\ e = m.prev

\* Some log or some request holds e at place n after p.
Linked(n, e, p) ==
  \/ \E i \in Server : /\ n \in 2 .. Len(log[i])
                       /\ log[i][n] = e /\ log[i][n - 1] = p
  \/ \E m \in msgs :
       /\ IsRequest(m) /\ ~m.heartbeat
       /\ n = m.prev_log_index + 2 /\ n >= 2
       /\ e = [term |-> m.log_term, data |-> m.data] /\ p = m.prev

\* Leader i adds e to its log at place n.
Wrote(i, n, e) ==
  /\ n = Len(log[i]) + 1 /\ Extended(i, Len(log[i]), e)
  /\ e.term = rlh_term[i] /\ ri_state'[i] = "leader" /\ Others(i)

\* A term has one entry and one predecessor of it at a place.
OneEntry ==
  \A n \in Nat : \A e, f : Logged(n, e) /\ Logged(n, f) /\ e.term = f.term => e = f

\* The entry before it is one, too.
OneLink ==
  \A n \in Nat : \A e, f, p, q :
    Linked(n, e, p) /\ Linked(n, f, q) /\ e.term = f.term => p = q

\* No entry of a leader's term is beyond its log.
LeaderHasAll ==
  \A i \in Server : ri_state[i] = "leader" =>
    \A n \in Nat : \A e : Logged(n, e) /\ e.term = rlh_term[i] => n <= Len(log[i])

\* Every entry is of a term that was won.
EntriesOwned ==
  \A n \in Nat : \A e : Logged(n, e) => \E o \in Server : Owner(e.term, o)

\* What a request holds when it is sent is in its sender's log.
LEMMA SentIsLogged ==
  ASSUME TypeOK, NEW m, IsRequest(m), Sent(m), ~m.heartbeat, m.src \in Server,
         m.prev_log_index \in Int
  PROVE  /\ Logged(m.prev_log_index + 2, [term |-> m.log_term, data |-> m.data])
         /\ m.prev_log_index + 1 >= 1 =>
              /\ Logged(m.prev_log_index + 1, m.prev)
              /\ Linked(m.prev_log_index + 2,
                        [term |-> m.log_term, data |-> m.data], m.prev)
<1> DEFINE i == m.src
           n == m.prev_log_index + 1
           e == [term |-> m.log_term, data |-> m.data]
<1>1. n \in Nat /\ n + 1 = m.prev_log_index + 2 /\ Len(log[i]) \in Nat
  BY DEF Sent, TypeOK, LogType
<1>2. n + 1 <= Len(log[i]) /\ log[i][n + 1] = e /\ (n >= 1 => m.prev = log[i][n])
  BY DEF Sent
<1> HIDE DEF n, e
<1>3. Logged(n + 1, e)
  BY <1>1, <1>2 DEF Logged
<1>4. n >= 1 => Logged(n, m.prev)
  BY <1>1, <1>2 DEF Logged
<1>5. n >= 1 => Linked(n + 1, e, m.prev)
  <2> SUFFICES ASSUME n >= 1 PROVE Linked(n + 1, e, m.prev)
    OBVIOUS
  <2>1. n + 1 \in 2 .. Len(log[i]) /\ (n + 1) - 1 = n
    BY <1>1, <1>2
  <2> QED
    BY <1>2, <2>1 DEF Linked
<1> QED
  BY <1>1, <1>3, <1>4, <1>5 DEF n, e

\* Cut logs and sent requests hold nothing new.
LEMMA CutLogged ==
  ASSUME TypeOK, TypeOK', NewRequests, \A c \in Server : Shorter(c), NEW n \in Nat,
         NEW e
  PROVE  /\ Logged(n, e)' => Logged(n, e)
         /\ \A p : Linked(n, e, p)' => Linked(n, e, p)
<1>1. \A c \in Server : /\ Len(log[c]) \in Nat /\ Len(log'[c]) \in Nat
                        /\ Len(log'[c]) <= Len(log[c])
                        /\ \A k \in 1 .. Len(log'[c]) : log'[c][k] = log[c][k]
  BY DEF TypeOK, LogType, Shorter
<1>2. ASSUME NEW i \in Server, n \in 1 .. Len(log'[i]), log'[i][n] = e
      PROVE  Logged(n, e)
  BY <1>1, <1>2 DEF Logged
<1>3. ASSUME NEW m \in msgs', IsRequest(m)
      PROVE  /\ m.src \in Server /\ m.prev_log_index \in Int
             /\ m \in msgs \/ Sent(m)
  BY <1>3, RequestFields DEF TypeOK, NetworkType, NewRequests
<1>4. ASSUME NEW m \in msgs', IsRequest(m), ~m.heartbeat,
             \/ /\ n = m.prev_log_index + 2
                /\ e = [term |-> m.log_term, data |-> m.data]
             \/ n = m.prev_log_index + 1 /\ n >= 1 /\ e = m.prev
      PROVE  Logged(n, e)
  <2>1. CASE m \in msgs
    BY <1>4, <2>1 DEF Logged
  <2>2. CASE Sent(m)
    BY <1>3, <1>4, <2>2, SentIsLogged
  <2> QED
    BY <1>3, <1>4, <2>1, <2>2
<1>5. ASSUME NEW p, NEW i \in Server, n \in 2 .. Len(log'[i]), log'[i][n] = e,
             log'[i][n - 1] = p
      PROVE  Linked(n, e, p)
  <2>1. n \in 2 .. Len(log[i]) /\ n \in 1 .. Len(log'[i]) /\ n - 1 \in 1 .. Len(log'[i])
    BY <1>1, <1>5
  <2>2. log[i][n] = e /\ log[i][n - 1] = p
    BY <1>1, <1>5, <2>1
  <2> QED
    BY <2>1, <2>2 DEF Linked
<1>6. ASSUME NEW p, NEW m \in msgs', IsRequest(m), ~m.heartbeat,
             n = m.prev_log_index + 2, n >= 2,
             e = [term |-> m.log_term, data |-> m.data], p = m.prev
      PROVE  Linked(n, e, p)
  <2>1. CASE m \in msgs
    BY <1>6, <2>1 DEF Linked
  <2>2. CASE Sent(m)
    <3>1. m.prev_log_index + 1 >= 1
      BY <1>3, <1>6
    <3> QED
      BY <1>3, <1>6, <2>2, <3>1, SentIsLogged
  <2> QED
    BY <1>3, <1>6, <2>1, <2>2
<1>7. Logged(n, e)' => Logged(n, e)
  BY <1>2, <1>4 DEF Logged, IsRequest
<1>8. \A p : Linked(n, e, p)' => Linked(n, e, p)
  BY <1>5, <1>6 DEF Linked, IsRequest
<1> QED
  BY <1>7, <1>8

\* A leader that writes adds one entry and one link.
LEMMA OwnLogged ==
  ASSUME TypeOK, TypeOK', NoNewRequests, NEW i \in Server, Own(i), NEW n \in Nat,
         NEW e
  PROVE  /\ Logged(n, e)' => Logged(n, e) \/ Wrote(i, n, e)
         /\ \A p : Linked(n, e, p)' =>
              Linked(n, e, p) \/ (Wrote(i, n, e) /\ n >= 2 /\ p = log[i][n - 1])
<1> DEFINE len == Len(log[i])
<1>1. \A c \in Server : Len(log[c]) \in Nat /\ Len(log'[c]) \in Nat
  BY DEF TypeOK, LogType
<1>2. PICK f \in Entry : f.term = rlh_term[i] /\ Extended(i, len, f)
  BY DEF Own
<1>3. /\ Len(log'[i]) = len + 1 /\ log'[i][len + 1] = f
      /\ \A k \in 1 .. len : log'[i][k] = log[i][k]
      /\ \A c \in Server \ {i} : log'[c] = log[c]
  BY <1>2 DEF Extended, Own, Others
<1>4. n = len + 1 /\ e = f => Wrote(i, n, e)
  BY <1>2 DEF Wrote, Own
<1> HIDE DEF len
<1>5. len \in Nat /\ Len(log[i]) = len
  BY <1>1 DEF len
<1>6. ASSUME NEW c \in Server, n \in 1 .. Len(log'[c]), log'[c][n] = e
      PROVE  Logged(n, e) \/ Wrote(i, n, e)
  <2>1. CASE c # i
    BY <1>3, <1>6, <2>1 DEF Logged
  <2>2. CASE c = i /\ n <= len
    <3>1. n \in 1 .. len
      BY <1>5, <1>6, <2>2
    <3>2. log[i][n] = e
      BY <1>3, <1>6, <2>2, <3>1
    <3> QED
      BY <1>5, <3>1, <3>2 DEF Logged
  <2>3. CASE c = i /\ n > len
    <3>1. n = len + 1
      BY <1>3, <1>5, <1>6, <2>3
    <3> QED
      BY <1>3, <1>4, <1>6, <2>3, <3>1
  <2> QED
    BY <1>5, <2>1, <2>2, <2>3
<1>7. ASSUME NEW p, NEW c \in Server, n \in 2 .. Len(log'[c]), log'[c][n] = e,
             log'[c][n - 1] = p
      PROVE  Linked(n, e, p) \/ (Wrote(i, n, e) /\ n >= 2 /\ p = log[i][n - 1])
  <2>1. CASE c # i
    BY <1>3, <1>7, <2>1 DEF Linked
  <2>2. CASE c = i /\ n <= len
    <3>1. n \in 1 .. len /\ n - 1 \in 1 .. len /\ n \in 2 .. len
      BY <1>5, <1>7, <2>2
    <3>2. log[i][n] = e /\ log[i][n - 1] = p
      BY <1>3, <1>7, <2>2, <3>1
    <3> QED
      BY <1>5, <3>1, <3>2 DEF Linked
  <2>3. CASE c = i /\ n > len
    <3>1. n = len + 1 /\ n - 1 \in 1 .. len /\ n >= 2
      BY <1>3, <1>5, <1>7, <2>3
    <3>2. e = f /\ p = log[i][n - 1]
      BY <1>3, <1>7, <2>3, <3>1
    <3> QED
      BY <1>4, <3>1, <3>2
  <2> QED
    BY <1>5, <2>1, <2>2, <2>3
<1>8. \A m \in msgs' : IsRequest(m) => m \in msgs
  BY DEF NoNewRequests
<1>9. Logged(n, e)' => Logged(n, e) \/ Wrote(i, n, e)
  <2> SUFFICES ASSUME Logged(n, e)' PROVE Logged(n, e) \/ Wrote(i, n, e)
    OBVIOUS
  <2>1. CASE \E c \in Server : n \in 1 .. Len(log'[c]) /\ log'[c][n] = e
    BY <1>6, <2>1
  <2>2. CASE ~ \E c \in Server : n \in 1 .. Len(log'[c]) /\ log'[c][n] = e
    BY <1>8, <2>2 DEF Logged, IsRequest
  <2> QED
    BY <2>1, <2>2
<1>10. ASSUME NEW p, Linked(n, e, p)'
       PROVE  Linked(n, e, p) \/ (Wrote(i, n, e) /\ n >= 2 /\ p = log[i][n - 1])
  <2>1. CASE \E c \in Server : /\ n \in 2 .. Len(log'[c])
                               /\ log'[c][n] = e /\ log'[c][n - 1] = p
    BY <1>7, <2>1
  <2>2. CASE ~ \E c \in Server : /\ n \in 2 .. Len(log'[c])
                                 /\ log'[c][n] = e /\ log'[c][n - 1] = p
    BY <1>8, <1>10, <2>2 DEF Linked, IsRequest
  <2> QED
    BY <2>1, <2>2
<1> QED
  BY <1>9, <1>10

\* The place at which a request's entry goes, and what precedes it there, is
\* what the request says.
LEMMA CopyFields ==
  ASSUME TypeOK, RequestsValid, OneEntry, NEW m \in msgs, Copied(m)
  PROVE  LET n == m.prev_log_index + 1
             e == [term |-> m.log_term, data |-> m.data]
         IN  /\ n \in Nat /\ Logged(n + 1, e)
             /\ n >= 1 => log[m.dst][n] = m.prev /\ Linked(n + 1, e, m.prev)
<1> DEFINE i == m.dst
           n == m.prev_log_index + 1
           e == [term |-> m.log_term, data |-> m.data]
<1>1. i \in Server /\ m.prev_log_index \in Int /\ m.prev_log_index >= -1
  BY RequestFields DEF TypeOK, NetworkType, Copied, RequestsValid
<1>2. n \in Nat /\ n + 1 = m.prev_log_index + 2
  BY <1>1
<1>3. IsRequest(m) /\ ~m.heartbeat /\ (n >= 1 => log[i][n].term = m.prev.term)
  BY DEF Copied
<1>4. Logged(n + 1, e)
  BY <1>2, <1>3 DEF Logged
<1>5. ASSUME n >= 1 PROVE log[i][n] = m.prev /\ Linked(n + 1, e, m.prev)
  <2>1. Logged(n, m.prev)
    BY <1>3, <1>5 DEF Logged
  <2>2. Logged(n, log[i][n])
    <3>1. n \in 0 .. Len(log[i])
      BY DEF Copied, Extended
    <3>2. n \in 1 .. Len(log[i])
      BY <1>2, <1>5, <3>1
    <3> QED
      BY <1>1, <3>2 DEF Logged
  <2>3. log[i][n] = m.prev
    BY <1>2, <1>3, <1>5, <2>1, <2>2 DEF OneEntry
  <2>4. n + 1 >= 2
    BY <1>2, <1>5
  <2>5. Linked(n + 1, e, m.prev)
    BY <1>2, <1>3, <2>4 DEF Linked
  <2> QED
    BY <2>3, <2>5
<1> QED
  BY <1>2, <1>4, <1>5

\* A follower that copies an entry adds nothing new.
LEMMA CopyLogged ==
  ASSUME TypeOK, TypeOK', RequestsValid, OneEntry, NoNewRequests, NEW m \in msgs,
         Copied(m), NEW n \in Nat, NEW e
  PROVE  /\ Logged(n, e)' => Logged(n, e)
         /\ \A p : Linked(n, e, p)' => Linked(n, e, p)
<1> DEFINE i == m.dst
           len == m.prev_log_index + 1
           f == [term |-> m.log_term, data |-> m.data]
<1>1. i \in Server
  BY RequestFields DEF TypeOK, NetworkType, Copied
<1>2. /\ len \in Nat /\ Logged(len + 1, f)
      /\ len >= 1 => log[i][len] = m.prev /\ Linked(len + 1, f, m.prev)
  BY CopyFields
<1>3. /\ len <= Len(log[i]) /\ Len(log'[i]) = len + 1 /\ log'[i][len + 1] = f
      /\ \A k \in 1 .. len : log'[i][k] = log[i][k]
      /\ \A c \in Server \ {i} : log'[c] = log[c]
  BY DEF Copied, Extended, Others
<1>4. Len(log[i]) \in Nat
  BY <1>1 DEF TypeOK, LogType
<1> HIDE DEF len, f
<1>6. ASSUME NEW c \in Server, n \in 1 .. Len(log'[c]), log'[c][n] = e
      PROVE  Logged(n, e)
  <2>1. CASE c # i
    BY <1>3, <1>6, <2>1 DEF Logged
  <2>2. CASE c = i /\ n <= len
    <3>1. n \in 1 .. len /\ n \in 1 .. Len(log[i])
      BY <1>2, <1>3, <1>4, <1>6, <2>2
    <3>2. log[i][n] = e
      BY <1>3, <1>6, <2>2, <3>1
    <3> QED
      BY <1>1, <3>1, <3>2 DEF Logged
  <2>3. CASE c = i /\ n > len
    <3>1. n = len + 1
      BY <1>2, <1>3, <1>6, <2>3
    <3> QED
      BY <1>2, <1>3, <1>6, <2>3, <3>1
  <2> QED
    BY <1>2, <2>1, <2>2, <2>3
<1>7. ASSUME NEW p, NEW c \in Server, n \in 2 .. Len(log'[c]), log'[c][n] = e,
             log'[c][n - 1] = p
      PROVE  Linked(n, e, p)
  <2>1. CASE c # i
    BY <1>3, <1>7, <2>1 DEF Linked
  <2>2. CASE c = i /\ n <= len
    <3>1. n \in 1 .. len /\ n - 1 \in 1 .. len /\ n \in 2 .. Len(log[i])
      BY <1>2, <1>3, <1>4, <1>7, <2>2
    <3>2. log[i][n] = e /\ log[i][n - 1] = p
      BY <1>3, <1>7, <2>2, <3>1
    <3> QED
      BY <1>1, <3>1, <3>2 DEF Linked
  <2>3. CASE c = i /\ n > len
    <3>1. n = len + 1 /\ n - 1 = len /\ len \in 1 .. len /\ len >= 1
      BY <1>2, <1>3, <1>7, <2>3
    <3>2. e = f /\ p = m.prev
      BY <1>2, <1>3, <1>7, <2>3, <3>1
    <3> QED
      BY <1>2, <3>1, <3>2
  <2> QED
    BY <1>2, <2>1, <2>2, <2>3
<1>8. \A r \in msgs' : IsRequest(r) => r \in msgs
  BY DEF NoNewRequests
<1>9. Logged(n, e)' => Logged(n, e)
  <2> SUFFICES ASSUME Logged(n, e)' PROVE Logged(n, e)
    OBVIOUS
  <2>1. CASE \E c \in Server : n \in 1 .. Len(log'[c]) /\ log'[c][n] = e
    BY <1>6, <2>1
  <2>2. CASE ~ \E c \in Server : n \in 1 .. Len(log'[c]) /\ log'[c][n] = e
    BY <1>8, <2>2 DEF Logged, IsRequest
  <2> QED
    BY <2>1, <2>2
<1>10. ASSUME NEW p, Linked(n, e, p)' PROVE Linked(n, e, p)
  <2>1. CASE \E c \in Server : /\ n \in 2 .. Len(log'[c])
                               /\ log'[c][n] = e /\ log'[c][n - 1] = p
    BY <1>7, <2>1
  <2>2. CASE ~ \E c \in Server : /\ n \in 2 .. Len(log'[c])
                                 /\ log'[c][n] = e /\ log'[c][n - 1] = p
    BY <1>8, <1>10, <2>2 DEF Linked, IsRequest
  <2> QED
    BY <2>1, <2>2
<1> QED
  BY <1>9, <1>10

\* What a step adds to the logs and requests is what a leader writes.
EntriesMove ==
  \A n \in Nat : \A e :
    /\ Logged(n, e)' => Logged(n, e) \/ \E i \in Server : Wrote(i, n, e)
    /\ \A p : Linked(n, e, p)' =>
         \/ Linked(n, e, p)
         \/ \E i \in Server : Wrote(i, n, e) /\ n >= 2 /\ p = log[i][n - 1]

\* Every step moves entries this way.
LEMMA StepEntries ==
  ASSUME TypeOK, TypeOK', RequestsValid, OneEntry, [Next]_vars
  PROVE  EntriesMove
<1> SUFFICES ASSUME NEW n \in Nat, NEW e
             PROVE  /\ Logged(n, e)' => Logged(n, e) \/ \E i \in Server : Wrote(i, n, e)
                    /\ \A p : Linked(n, e, p)' =>
                         \/ Linked(n, e, p)
                         \/ \E i \in Server : Wrote(i, n, e) /\ n >= 2 /\ p = log[i][n - 1]
  BY DEF EntriesMove
<1>1. NewRequests /\ LogsMove
  BY StepMessages, StepLogs
<1>2. CASE \A c \in Server : Shorter(c)
  BY <1>1, <1>2, CutLogged
<1>3. ASSUME NoNewRequests, NEW i \in Server, Own(i)
      PROVE  /\ Logged(n, e)' => Logged(n, e) \/ Wrote(i, n, e)
             /\ \A p : Linked(n, e, p)' =>
                  Linked(n, e, p) \/ (Wrote(i, n, e) /\ n >= 2 /\ p = log[i][n - 1])
  BY <1>3, OwnLogged
<1>4. ASSUME NoNewRequests, NEW m \in msgs, Copied(m)
      PROVE  /\ Logged(n, e)' => Logged(n, e)
             /\ \A p : Linked(n, e, p)' => Linked(n, e, p)
  BY <1>4, CopyLogged
<1> QED
  BY <1>1, <1>2, <1>3, <1>4 DEF LogsMove

\* The invariant of entries.
EntryInv == OneEntry /\ OneLink /\ LeaderHasAll /\ EntriesOwned

\* Whoever starts to lead finds no entry of its term.
LEMMA NewTermEmpty ==
  ASSUME ~LateVotes, TypeOK, TypeOK', CandidateViable, EntriesOwned, LeadersOwn',
         [Next]_vars, NEW i \in Server, ri_state'[i] = "leader",
         ri_state[i] = "candidate", NEW n \in Nat, NEW e, Logged(n, e)
  PROVE  e.term # rlh_term[i]
<1> SUFFICES ASSUME e.term = rlh_term[i] PROVE FALSE
  OBVIOUS
<1>1. PICK o \in Server : Owner(rlh_term[i], o)
  BY DEF EntriesOwned
<1>2. rlh_term'[i] = rlh_term[i]
  BY StepRoles DEF Roles
<1>3. Owner(rlh_term[i], o)'
  <2>1. PICK t : t = rlh_term[i]
    OBVIOUS
  <2>2. Owner(t, o)'
    BY <1>1, <2>1, OwnerKept
  <2>3. rlh_term'[i] = t
    BY <1>2, <2>1
  <2> QED
    BY <2>2, <2>3
<1>4. o = i
  BY <1>3 DEF LeadersOwn
<1> QED
  BY <1>1, <1>4 DEF Owner

\* What a leader writes is new at its place.
LEMMA WroteNew ==
  ASSUME ~LateVotes, TypeOK, TypeOK', CandidateViable, EntryInv, LeadersOwn',
         [Next]_vars, NEW i \in Server, NEW n \in Nat, NEW e, NEW f,
         Wrote(i, n, e), Logged(n, f)
  PROVE  f.term # e.term
<1>1. n = Len(log[i]) + 1 /\ e.term = rlh_term[i] /\ ri_state'[i] = "leader"
  BY DEF Wrote
<1>2. Len(log[i]) \in Nat
  BY DEF TypeOK, LogType
<1>3. ri_state[i] \in {"candidate", "leader"}
  BY <1>1, StepRoles DEF Roles
<1>4. CASE ri_state[i] = "leader"
  BY <1>1, <1>2, <1>4 DEF EntryInv, LeaderHasAll
<1>5. CASE ri_state[i] = "candidate"
  BY <1>1, <1>5, NewTermEmpty DEF EntryInv
<1> QED
  BY <1>3, <1>4, <1>5

\* One step writes one entry.
LEMMA WroteOne ==
  ASSUME TypeOK, NEW i \in Server, NEW j \in Server, NEW n, NEW e, NEW f,
         Wrote(i, n, e), Wrote(j, n, f)
  PROVE  i = j /\ e = f
<1>1. Len(log[i]) \in Nat /\ Len(log[j]) \in Nat
  BY DEF TypeOK, LogType
<1>2. Len(log'[j]) = Len(log[j]) + 1
  BY DEF Wrote, Extended
<1>3. i = j
  BY <1>1, <1>2 DEF Wrote, Others
<1> QED
  BY <1>3 DEF Wrote, Extended

\* Entries that follow one another are logged.
LEMMA LinkedIsLogged ==
  ASSUME TypeOK, NEW n \in Nat, NEW e, NEW p, Linked(n, e, p)
  PROVE  n >= 2 /\ Logged(n, e) /\ Logged(n - 1, p)
<1>1. CASE \E i \in Server : /\ n \in 2 .. Len(log[i])
                             /\ log[i][n] = e /\ log[i][n - 1] = p
  <2>1. PICK i \in Server : /\ n \in 2 .. Len(log[i])
                            /\ log[i][n] = e /\ log[i][n - 1] = p
    BY <1>1
  <2>2. Len(log[i]) \in Nat
    BY DEF TypeOK, LogType
  <2>3. n \in 1 .. Len(log[i]) /\ n - 1 \in 1 .. Len(log[i]) /\ n >= 2
    BY <2>1, <2>2
  <2> QED
    BY <2>1, <2>3 DEF Logged
<1>2. CASE \E m \in msgs :
             /\ IsRequest(m) /\ ~m.heartbeat
             /\ n = m.prev_log_index + 2 /\ n >= 2
             /\ e = [term |-> m.log_term, data |-> m.data] /\ p = m.prev
  <2>1. PICK m \in msgs :
          /\ IsRequest(m) /\ ~m.heartbeat
          /\ n = m.prev_log_index + 2 /\ n >= 2
          /\ e = [term |-> m.log_term, data |-> m.data] /\ p = m.prev
    BY <1>2
  <2>2. m.prev_log_index \in Int
    BY <2>1, RequestFields DEF TypeOK, NetworkType
  <2>3. n - 1 = m.prev_log_index + 1 /\ n - 1 >= 1
    BY <2>1, <2>2
  <2> QED
    BY <2>1, <2>3 DEF Logged
<1> QED
  BY <1>1, <1>2 DEF Linked

\* Every step keeps the invariant of entries.
LEMMA StepEntryInv ==
  ASSUME ~LateVotes, TypeOK, TypeOK', CandidateViable, ElectionSafety',
         LeadersOwn', RequestsValid, EntryInv, [Next]_vars
  PROVE  EntryInv'
<1>1. EntriesMove /\ Roles /\ LeaderGrows
  BY StepEntries, StepRoles, StepLogs DEF EntryInv
<1>2. OneEntry'
  <2> SUFFICES ASSUME NEW n \in Nat, NEW e, NEW f, Logged(n, e)', Logged(n, f)',
                      e.term = f.term
               PROVE  e = f
    BY DEF OneEntry
  <2>1. /\ Logged(n, e) \/ \E i \in Server : Wrote(i, n, e)
        /\ Logged(n, f) \/ \E i \in Server : Wrote(i, n, f)
    BY <1>1 DEF EntriesMove
  <2>2. CASE Logged(n, e) /\ Logged(n, f)
    BY <2>2 DEF EntryInv, OneEntry
  <2>3. ~(Logged(n, f) /\ \E i \in Server : Wrote(i, n, e))
    BY WroteNew
  <2>4. ~(Logged(n, e) /\ \E i \in Server : Wrote(i, n, f))
    BY WroteNew
  <2>5. CASE (\E i \in Server : Wrote(i, n, e)) /\ (\E i \in Server : Wrote(i, n, f))
    BY <2>5, WroteOne
  <2> QED
    BY <2>1, <2>2, <2>3, <2>4, <2>5
<1>3. OneLink'
  <2> SUFFICES ASSUME NEW n \in Nat, NEW e, NEW f, NEW p, NEW q,
                      Linked(n, e, p)', Linked(n, f, q)', e.term = f.term
               PROVE  p = q
    BY DEF OneLink
  <2>1. /\ \/ Linked(n, e, p)
           \/ \E i \in Server : Wrote(i, n, e) /\ n >= 2 /\ p = log[i][n - 1]
        /\ \/ Linked(n, f, q)
           \/ \E i \in Server : Wrote(i, n, f) /\ n >= 2 /\ q = log[i][n - 1]
    BY <1>1 DEF EntriesMove
  <2>2. CASE Linked(n, e, p) /\ Linked(n, f, q)
    BY <2>2 DEF EntryInv, OneLink
  <2>3. ~(Linked(n, f, q) /\ \E i \in Server : Wrote(i, n, e))
    BY LinkedIsLogged, WroteNew
  <2>4. ~(Linked(n, e, p) /\ \E i \in Server : Wrote(i, n, f))
    BY LinkedIsLogged, WroteNew
  <2>5. CASE /\ \E i \in Server : Wrote(i, n, e) /\ p = log[i][n - 1]
             /\ \E i \in Server : Wrote(i, n, f) /\ q = log[i][n - 1]
    BY <2>5, WroteOne
  <2> QED
    BY <2>1, <2>2, <2>3, <2>4, <2>5
<1>4. LeaderHasAll'
  <2> SUFFICES ASSUME NEW i \in Server, ri_state'[i] = "leader", NEW n \in Nat,
                      NEW e, Logged(n, e)', e.term = rlh_term'[i]
               PROVE  n <= Len(log'[i])
    BY DEF LeaderHasAll
  <2>1. ri_state[i] \in {"candidate", "leader"} /\ rlh_term'[i] = rlh_term[i]
    BY <1>1 DEF Roles
  <2>2. Len(log[i]) \in Nat /\ Len(log'[i]) \in Nat /\ Len(log[i]) <= Len(log'[i])
    BY <1>1 DEF TypeOK, LogType, LeaderGrows
  <2>3. CASE Logged(n, e)
    <3>1. ri_state[i] = "leader"
      BY <2>1, <2>3, NewTermEmpty DEF EntryInv
    <3>2. n <= Len(log[i])
      BY <2>1, <2>3, <3>1 DEF EntryInv, LeaderHasAll
    <3> QED
      BY <2>2, <3>2
  <2>4. ASSUME NEW j \in Server, Wrote(j, n, e) PROVE n <= Len(log'[i])
    <3>1. ri_state'[j] = "leader" /\ e.term = rlh_term[j]
      BY <2>4 DEF Wrote
    <3>2. rlh_term'[j] = rlh_term[j]
      BY <1>1, <3>1 DEF Roles
    <3>3. i = j
      BY <3>1, <3>2 DEF ElectionSafety
    <3> QED
      BY <2>2, <2>4, <3>3 DEF Wrote, Extended
  <2> QED
    BY <1>1, <2>3, <2>4 DEF EntriesMove
<1>5. EntriesOwned'
  <2> SUFFICES ASSUME NEW n \in Nat, NEW e, Logged(n, e)'
               PROVE  \E o \in Server : Owner(e.term, o)'
    BY DEF EntriesOwned
  <2>1. CASE Logged(n, e)
    <3>1. PICK o \in Server : Owner(e.term, o)
      BY <2>1 DEF EntryInv, EntriesOwned
    <3>2. Owner(e.term, o)'
      BY <3>1, OwnerKept
    <3> QED
      BY <3>2
  <2>2. ASSUME NEW j \in Server, Wrote(j, n, e)
        PROVE  \E o \in Server : Owner(e.term, o)'
    <3>1. ri_state'[j] = "leader" /\ e.term = rlh_term[j]
      BY <2>2 DEF Wrote
    <3>2. rlh_term'[j] = e.term
      BY <1>1, <3>1 DEF Roles
    <3>3. Owner(rlh_term[j], j)'
      BY <3>1 DEF LeadersOwn
    <3>4. Owner(e.term, j)'
      BY <3>2, <3>3
    <3> QED
      BY <3>4
  <2> QED
    BY <1>1, <2>1, <2>2 DEF EntriesMove
<1> QED
  BY <1>2, <1>3, <1>4, <1>5 DEF EntryInv

\* Two sequences have the same first n elements.
LEMMA SamePrefix ==
  ASSUME NEW L \in Seq(Entry), NEW M \in Seq(Entry), NEW n \in Nat, n >= 1,
         n <= Len(L), n <= Len(M)
  PROVE  SubSeq(L, 1, n) = SubSeq(M, 1, n) <=> \A k \in 1 .. n : L[k] = M[k]
<1>1. /\ SubSeq(L, 1, n) \in Seq(Entry) /\ Len(SubSeq(L, 1, n)) = n
      /\ \A k \in 1 .. n : SubSeq(L, 1, n)[k] = L[k]
  BY SubSeqProperties
<1>2. /\ SubSeq(M, 1, n) \in Seq(Entry) /\ Len(SubSeq(M, 1, n)) = n
      /\ \A k \in 1 .. n : SubSeq(M, 1, n)[k] = M[k]
  BY SubSeqProperties
<1>3. (\A k \in 1 .. n : L[k] = M[k]) => SubSeq(L, 1, n) = SubSeq(M, 1, n)
  BY <1>1, <1>2, SeqEqual
<1> QED
  BY <1>1, <1>2, <1>3

\* Logs i and j agree up to any place at which their terms agree.
Agree(i, j) ==
  \A n \in Nat : /\ n >= 1 /\ n <= Len(log[i]) /\ n <= Len(log[j])
                 /\ log[i][n].term = log[j][n].term
                 => \A k \in 1 .. n : log[i][k] = log[j][k]

\* All logs agree.
AllAgree == \A i, j \in Server : Agree(i, j)

\* This is LogMatching.
LEMMA MatchingIsAgreement == TypeOK => (LogMatching <=> AllAgree)
<1> SUFFICES ASSUME TypeOK PROVE LogMatching <=> AllAgree
  OBVIOUS
<1>1. \A i \in Server : log[i] \in Seq(Entry) /\ Len(log[i]) \in Nat
  BY DEF TypeOK, LogType
<1>2. \A i, j \in Server : \A n \in Nat :
        n \in 1 .. Min2(Len(log[i]), Len(log[j]))
          <=> n >= 1 /\ n <= Len(log[i]) /\ n <= Len(log[j])
  BY <1>1 DEF Min2
<1>3. ASSUME NEW i \in Server, NEW j \in Server, NEW n \in Nat,
             n >= 1, n <= Len(log[i]), n <= Len(log[j])
      PROVE  SubSeq(log[i], 1, n) = SubSeq(log[j], 1, n)
               <=> \A k \in 1 .. n : log[i][k] = log[j][k]
  BY <1>1, <1>3, SamePrefix
<1>4. ASSUME LogMatching PROVE AllAgree
  <2> SUFFICES ASSUME NEW i \in Server, NEW j \in Server, NEW n \in Nat,
                      n >= 1, n <= Len(log[i]), n <= Len(log[j]),
                      log[i][n].term = log[j][n].term
               PROVE  \A k \in 1 .. n : log[i][k] = log[j][k]
    BY DEF AllAgree, Agree
  <2>1. SubSeq(log[i], 1, n) = SubSeq(log[j], 1, n)
    BY <1>2, <1>4 DEF LogMatching
  <2> QED
    BY <1>3, <2>1
<1>5. ASSUME AllAgree PROVE LogMatching
  <2> SUFFICES ASSUME NEW i \in Server, NEW j \in Server,
                      NEW n \in 1 .. Min2(Len(log[i]), Len(log[j])),
                      log[i][n].term = log[j][n].term
               PROVE  SubSeq(log[i], 1, n) = SubSeq(log[j], 1, n)
    BY DEF LogMatching
  <2>1. n \in Nat /\ n >= 1
    BY <1>1 DEF Min2
  <2>2. n <= Len(log[i]) /\ n <= Len(log[j])
    BY <1>2, <2>1
  <2>3. \A k \in 1 .. n : log[i][k] = log[j][k]
    BY <1>5, <2>1, <2>2 DEF AllAgree, Agree
  <2> QED
    BY <1>3, <2>1, <2>2, <2>3
<1> QED
  BY <1>4, <1>5

\* Agreement is symmetric.
LEMMA AgreeBack ==
  ASSUME NEW i \in Server, NEW j \in Server, Agree(i, j)
  PROVE  Agree(j, i)
BY DEF Agree

\* Where a log holds an entry of e's term after len others, it holds e, and the
\* same term before it as log i.
Continues(i, len, e) ==
  \A j \in Server : \A f :
    /\ len + 1 <= Len(log[j]) /\ log[j][len + 1] = f /\ f.term = e.term
    => f = e /\ (len >= 1 => log[j][len].term = log[i][len].term)

\* A log that grows by an entry that, wherever it stands, follows the same
\* entries agrees with the others.
LEMMA ExtendAgrees ==
  ASSUME TypeOK, TypeOK', AllAgree, NEW i \in Server, NEW len \in Nat, NEW e,
         Extended(i, len, e), Others(i),
         Continues(i, len, e)
  PROVE  AllAgree'
<1>1. \A c \in Server : Len(log[c]) \in Nat /\ Len(log'[c]) \in Nat
  BY DEF TypeOK, LogType
<1>2. /\ len <= Len(log[i]) /\ Len(log'[i]) = len + 1 /\ log'[i][len + 1] = e
      /\ \A k \in 1 .. len : log'[i][k] = log[i][k]
      /\ \A c \in Server \ {i} : log'[c] = log[c]
  BY DEF Extended, Others
<1>3. ASSUME NEW j \in Server, j # i PROVE Agree(i, j)'
  <2> SUFFICES ASSUME NEW n \in Nat, n >= 1, n <= Len(log'[i]), n <= Len(log'[j]),
                      log'[i][n].term = log'[j][n].term, NEW k \in 1 .. n
               PROVE  log'[i][k] = log'[j][k]
    BY DEF Agree
  <2>1. log'[j] = log[j] /\ Agree(i, j)
    BY <1>2, <1>3 DEF AllAgree
  <2>2. CASE n <= len
    <3>1. n \in 1 .. len /\ k \in 1 .. len /\ n <= Len(log[i])
      BY <1>1, <1>2, <2>2
    <3>2. log[i][n].term = log[j][n].term /\ n <= Len(log[j])
      BY <1>2, <2>1, <3>1
    <3> QED
      BY <1>2, <2>1, <3>1, <3>2 DEF Agree
  <2>3. CASE n > len
    <3>1. n = len + 1
      BY <1>1, <1>2, <2>3
    <3>2. log[j][n] = e /\ (len >= 1 => log[j][len].term = log[i][len].term)
      BY <1>2, <2>1, <3>1 DEF Continues
    <3>3. CASE k = n
      BY <1>2, <2>1, <3>1, <3>2, <3>3
    <3>4. CASE k # n
      <4>1. k \in 1 .. len /\ len >= 1 /\ len <= Len(log[i]) /\ len <= Len(log[j])
        BY <1>1, <1>2, <2>1, <3>1, <3>4
      <4>2. log[i][k] = log[j][k]
        BY <2>1, <3>2, <4>1 DEF Agree
      <4> QED
        BY <1>2, <2>1, <4>1, <4>2
    <3> QED
      BY <3>3, <3>4
  <2> QED
    BY <2>2, <2>3
<1>4. ASSUME NEW a \in Server, NEW b \in Server, a # i, b # i PROVE Agree(a, b)'
  <2>1. log'[a] = log[a] /\ log'[b] = log[b] /\ Agree(a, b)
    BY <1>2, <1>4 DEF AllAgree
  <2> QED
    BY <2>1 DEF Agree
<1>5. ASSUME NEW j \in Server, j # i PROVE Agree(j, i)'
  BY <1>3, <1>5 DEF Agree
<1>6. Agree(i, i)'
  BY DEF Agree
<1> QED
  BY <1>3, <1>4, <1>5, <1>6 DEF AllAgree

\* Every step keeps the logs in agreement.
LEMMA StepAgree ==
  ASSUME ~LateVotes, TypeOK, TypeOK', CandidateViable, LeadersOwn', RequestsValid,
         EntryInv, AllAgree, [Next]_vars
  PROVE  AllAgree'
<1>1. LogsMove
  BY StepLogs
<1>2. \A c \in Server : Len(log[c]) \in Nat /\ Len(log'[c]) \in Nat
  BY DEF TypeOK, LogType
<1>3. CASE \A c \in Server : Shorter(c)
  <2> SUFFICES ASSUME NEW i \in Server, NEW j \in Server, NEW n \in Nat, n >= 1,
                      n <= Len(log'[i]), n <= Len(log'[j]),
                      log'[i][n].term = log'[j][n].term, NEW k \in 1 .. n
               PROVE  log'[i][k] = log'[j][k]
    BY DEF AllAgree, Agree
  <2>1. /\ Len(log'[i]) <= Len(log[i]) /\ Len(log'[j]) <= Len(log[j])
        /\ \A l \in 1 .. Len(log'[i]) : log'[i][l] = log[i][l]
        /\ \A l \in 1 .. Len(log'[j]) : log'[j][l] = log[j][l]
    BY <1>3 DEF Shorter
  <2>2. /\ n \in 1 .. Len(log'[i]) /\ n \in 1 .. Len(log'[j])
        /\ k \in 1 .. Len(log'[i]) /\ k \in 1 .. Len(log'[j])
        /\ n <= Len(log[i]) /\ n <= Len(log[j])
    BY <1>2, <2>1
  <2>3. log[i][n].term = log[j][n].term
    BY <2>1, <2>2
  <2>4. log[i][k] = log[j][k]
    BY <2>2, <2>3 DEF AllAgree, Agree
  <2> QED
    BY <2>1, <2>2, <2>4
<1>4. ASSUME NEW i \in Server, Own(i) PROVE AllAgree'
  <2>1. PICK e \in Entry : /\ e.term = rlh_term[i] /\ Extended(i, Len(log[i]), e)
                           /\ ri_state'[i] = "leader" /\ Others(i)
    BY <1>4 DEF Own
  <2>2. PICK len \in Nat : len = Len(log[i])
    BY <1>2
  <2>3. Wrote(i, len + 1, e) /\ len + 1 \in Nat /\ Extended(i, len, e)
    BY <2>1, <2>2 DEF Wrote
  <2>4. ASSUME NEW j \in Server, NEW f, len + 1 <= Len(log[j]),
               log[j][len + 1] = f, f.term = e.term
        PROVE  FALSE
    <3>1. len + 1 \in 1 .. Len(log[j])
      BY <1>2, <2>4
    <3>2. Logged(len + 1, f)
      BY <2>4, <3>1 DEF Logged
    <3> QED
      BY <2>3, <2>4, <3>2, WroteNew
  <2>5. Continues(i, len, e)
    BY <2>4 DEF Continues
  <2> QED
    BY <2>1, <2>3, <2>5, ExtendAgrees
<1>5. ASSUME NEW m \in msgs, Copied(m) PROVE AllAgree'
  <2> DEFINE i == m.dst
             len == m.prev_log_index + 1
             e == [term |-> m.log_term, data |-> m.data]
  <2>1. i \in Server
    BY <1>5, RequestFields DEF TypeOK, NetworkType, Copied
  <2>2. /\ len \in Nat /\ Logged(len + 1, e)
        /\ len >= 1 => log[i][len] = m.prev /\ Linked(len + 1, e, m.prev)
    BY <1>5, CopyFields DEF EntryInv
  <2>3. Extended(i, len, e) /\ Others(i)
    BY <1>5 DEF Copied
  <2> HIDE DEF e, len, i
  <2>4. ASSUME NEW j \in Server, NEW f, len + 1 <= Len(log[j]),
               log[j][len + 1] = f, f.term = e.term
        PROVE  f = e /\ (len >= 1 => log[j][len].term = log[i][len].term)
    <3>1. len + 1 \in 1 .. Len(log[j]) /\ len + 1 \in Nat
      BY <1>2, <2>2, <2>4
    <3>2. Logged(len + 1, f)
      BY <2>4, <3>1 DEF Logged
    <3>3. f = e
      BY <2>2, <2>4, <3>1, <3>2 DEF EntryInv, OneEntry
    <3>4. ASSUME len >= 1 PROVE log[j][len] = log[i][len]
      <4>1. len + 1 \in 2 .. Len(log[j]) /\ (len + 1) - 1 = len
        BY <2>2, <3>1, <3>4
      <4>2. Linked(len + 1, f, log[j][len])
        BY <2>4, <4>1 DEF Linked
      <4> QED
        BY <2>2, <2>4, <3>1, <3>4, <4>2 DEF EntryInv, OneLink
    <3> QED
      BY <3>3, <3>4
  <2>5. Continues(i, len, e)
    BY <2>4 DEF Continues
  <2> QED
    BY <2>1, <2>2, <2>3, <2>5, ExtendAgrees
<1> QED
  BY <1>1, <1>3, <1>4, <1>5 DEF LogsMove

\* Both invariants hold if no vote reply is late.
LEMMA EntriesInvariant == ~LateVotes => (Spec => [](EntryInv /\ AllAgree))
<1> SUFFICES ASSUME ~LateVotes PROVE Spec => [](EntryInv /\ AllAgree)
  OBVIOUS
<1>1. Init => EntryInv /\ AllAgree
  <2> SUFFICES ASSUME Init PROVE EntryInv /\ AllAgree
    OBVIOUS
  <2>1. \A c \in Server : Len(log[c]) = 0
    BY DEF Init
  <2>2. \A n \in Nat : \A e : ~Logged(n, e)
    BY <2>1 DEF Init, Logged
  <2>3. \A n \in Nat : \A e, p : ~Linked(n, e, p)
    BY <2>1 DEF Init, Linked
  <2>4. AllAgree
    BY <2>1 DEF AllAgree, Agree
  <2> QED
    BY <2>2, <2>3, <2>4 DEF EntryInv, OneEntry, OneLink, LeaderHasAll, EntriesOwned
<1>2. /\ TypeOK /\ TypeOK' /\ CandidateViable /\ ElectionSafety' /\ LeadersOwn'
      /\ RequestsHeld /\ EntryInv /\ AllAgree /\ [Next]_vars
      => EntryInv' /\ AllAgree'
  <2>1. RequestsHeld => RequestsValid
    BY DEF RequestsHeld, RequestsValid
  <2> QED
    BY <2>1, StepEntryInv, StepAgree
<1>3. Spec => []ElectionSafety /\ []VotesWritten
  BY OneLeaderPerTerm, VotesAreWritten
<1> QED
  BY <1>1, <1>2, <1>3, LeadersOwnTerms, TypeCorrect, CandidatesViable,
     MessagesHeld, PTL DEF Spec

\* Two logs that hold an entry of the same term at the same index hold the same
\* entries up to it, in every cluster and through any number of crashes, late
\* or overtaken AE messages, provided that no vote reply outlives its
\* candidacy.
THEOREM LogsMatch == ~LateVotes => (Spec => []LogMatching)
<1> SUFFICES ASSUME ~LateVotes PROVE Spec => []LogMatching
  OBVIOUS
<1>1. Spec => [](EntryInv /\ AllAgree)
  BY EntriesInvariant
<1> QED
  BY <1>1, MatchingIsAgreement, TypeCorrect, PTL
-----------------------------------------------------------------------------
(* The leader's tally *)

\* The term of a request was won by its sender.
RequestsOwned ==
  \A m \in msgs : IsRequest(m) => Owner(m.leader_term, m.src)

\* No leader has a request of its own term to read.
NoRival ==
  \A m \in msgs : IsRequest(m) /\ ri_state[m.dst] = "leader" =>
    m.leader_term # rlh_term[m.dst]

\* It holds if no vote reply is late.
LEMMA RequestsInvariant == ~LateVotes => (Spec => []RequestsOwned)
<1> SUFFICES ASSUME ~LateVotes PROVE Spec => []RequestsOwned
  OBVIOUS
<1>1. Init => RequestsOwned
  BY DEF Init, RequestsOwned
<1>2. /\ TypeOK /\ TypeOK' /\ CandidateViable /\ LeadersOwn /\ RequestsOwned
      /\ [Next]_vars
      => RequestsOwned'
  <2> SUFFICES ASSUME TypeOK, TypeOK', CandidateViable, LeadersOwn, RequestsOwned,
                      [Next]_vars, NEW m \in msgs', IsRequest(m)
               PROVE  Owner(m.leader_term, m.src)'
    BY DEF RequestsOwned, IsRequest
  <2>1. m.src \in Server
    BY RequestFields DEF TypeOK, NetworkType
  <2>2. m \in msgs \/ Sent(m)
    BY StepMessages DEF NewRequests
  <2>3. Owner(m.leader_term, m.src)
    BY <2>1, <2>2 DEF RequestsOwned, Sent, LeadersOwn
  <2> QED
    BY <2>1, <2>3, OwnerKept
<1>3. Spec => []VotesWritten
  BY VotesAreWritten
<1> QED
  BY <1>1, <1>2, <1>3, LeadersOwnTerms, TypeCorrect, CandidatesViable, PTL DEF Spec

\* Owners of a term are alone, so there is no rival.
LEMMA OwnersHaveNoRival ==
  TypeOK /\ LeadersOwn /\ RequestsHeld /\ RequestsOwned => NoRival
<1> SUFFICES ASSUME TypeOK, LeadersOwn, RequestsHeld, RequestsOwned, NEW m \in msgs,
                    IsRequest(m), ri_state[m.dst] = "leader",
                    m.leader_term = rlh_term[m.dst]
             PROVE  FALSE
  BY DEF NoRival
<1>1. m.src \in Server /\ m.dst \in Server
  BY RequestFields DEF TypeOK, NetworkType
<1>2. m.src # m.dst
  BY DEF RequestsHeld
<1>3. Owner(rlh_term[m.dst], m.src)
  BY DEF RequestsOwned
<1> QED
  BY <1>1, <1>2, <1>3 DEF LeadersOwn

\* How the tally of a leader moves: its tables and its synced index grow, and
\* its commit index stays or is what the tables say.
TallyMoves(c) ==
  /\ rls_initial_term_idx'[c] = rls_initial_term_idx[c]
  /\ synced[c] <= synced'[c]
  /\ \A j \in Server : /\ rfi_ackd_idx[c][j] <= rfi_ackd_idx'[c][j]
                       /\ rfi_synced_idx[c][j] <= rfi_synced_idx'[c][j]
  /\ \/ ri_commit_idx'[c] = ri_commit_idx[c]
     \/ ri_commit_idx'[c] = CommittedIdx(c, rfi_ackd_idx[c], rfi_synced_idx[c])'

\* A step that leaves the tables and the commit index moves the tally this way.
LEMMA TallySteady ==
  ASSUME TypeOK, NEW c \in Server,
         rls_initial_term_idx'[c] = rls_initial_term_idx[c],
         rfi_ackd_idx'[c] = rfi_ackd_idx[c], rfi_synced_idx'[c] = rfi_synced_idx[c],
         ri_commit_idx'[c] = ri_commit_idx[c], synced[c] <= synced'[c]
  PROVE  TallyMoves(c)
<1>1. \A j \in Server : rfi_ackd_idx[c][j] \in Int /\ rfi_synced_idx[c][j] \in Int
  BY DEF TypeOK, LeaderType
<1> QED
  BY <1>1 DEF TallyMoves

\* A tally leaves the commit index or moves it to what the tables say.
LEMMA TallyChoice ==
  ASSUME NEW i \in Server, NEW ackd, NEW syncd
  PROVE  \/ TallyCommit(i, ackd, syncd) = ri_commit_idx[i]
         \/ TallyCommit(i, ackd, syncd) = CommittedIdx(i, ackd, syncd)
BY DEF TallyCommit, AdvanceCommitIdx

\* The index that the tally finds does not go back.
LEMMA CommittedGrows ==
  ASSUME TypeOK, TypeOK', NEW c \in Server, TallyMoves(c)
  PROVE  CommittedIdx(c, rfi_ackd_idx[c], rfi_synced_idx[c])
           <= CommittedIdx(c, rfi_ackd_idx[c], rfi_synced_idx[c])'
<1> DEFINE value == [j \in Server |-> IF j = c THEN SyncIdx(c)
                       ELSE Min2(rfi_ackd_idx[c][j], rfi_synced_idx[c][j])]
           new == [j \in Server |-> IF j = c THEN synced'[c] - 1
                     ELSE Min2(rfi_ackd_idx'[c][j], rfi_synced_idx'[c][j])]
<1>1. /\ CommittedIdx(c, rfi_ackd_idx[c], rfi_synced_idx[c]) = MajorityEntryIdx(value)
      /\ CommittedIdx(c, rfi_ackd_idx[c], rfi_synced_idx[c])' = MajorityEntryIdx(new)
  BY DEF CommittedIdx, SyncIdx
<1>2. /\ synced[c] \in Nat /\ synced'[c] \in Nat /\ synced[c] <= synced'[c]
      /\ SyncIdx(c) = synced[c] - 1
  BY DEF TypeOK, LogType, TallyMoves, SyncIdx
<1>3. ASSUME NEW j \in Server
      PROVE  value[j] \in Int /\ new[j] \in Int /\ value[j] <= new[j]
  <2>1. /\ rfi_ackd_idx[c][j] \in Int /\ rfi_synced_idx[c][j] \in Int
        /\ rfi_ackd_idx'[c][j] \in Int /\ rfi_synced_idx'[c][j] \in Int
    BY DEF TypeOK, LeaderType
  <2>2. /\ rfi_ackd_idx[c][j] <= rfi_ackd_idx'[c][j]
        /\ rfi_synced_idx[c][j] <= rfi_synced_idx'[c][j]
    BY DEF TallyMoves
  <2> QED
    BY <1>2, <2>1, <2>2 DEF Min2
<1>4. value \in [Server -> Int] /\ new \in [Server -> Int]
  BY <1>3
<1> HIDE DEF value, new
<1> QED
  BY <1>1, <1>3, <1>4, MajorityGrows

\* What a follower reports only adds to the leader's tables.
LEMMA UpdateTally ==
  ASSUME TypeOK, TypeOK', NEW i \in Server, NEW j \in Server, NEW next \in Int,
         NEW sli \in Int, NEW term, TryUpdateFollowerSyncIdx(i, j, next, term, sli),
         UNCHANGED <<synced, rls_initial_term_idx>>
  PROVE  \A c \in Server : TallyMoves(c)
<1> DEFINE accept == term = SyncTerm(i) /\ rfi_synced_idx[i][j] <= next
           ackd == IF accept
                   THEN [rfi_ackd_idx[i] EXCEPT ![j] = Max2(@, next - 1)]
                   ELSE rfi_ackd_idx[i]
           syncd == IF accept
                    THEN [rfi_synced_idx[i] EXCEPT ![j] = Max2(@, sli)]
                    ELSE rfi_synced_idx[i]
<1>1. /\ rfi_ackd_idx[i] \in [Server -> Int] /\ rfi_synced_idx[i] \in [Server -> Int]
      /\ \A c \in Server : synced[c] \in Nat
  BY DEF TypeOK, LeaderType, LogType
<1>2. \A k \in Server : ackd[k] >= rfi_ackd_idx[i][k] /\ syncd[k] >= rfi_synced_idx[i][k]
  BY <1>1 DEF Max2
<1>3. /\ rfi_ackd_idx' = [rfi_ackd_idx EXCEPT ![i] = ackd]
      /\ rfi_synced_idx' = [rfi_synced_idx EXCEPT ![i] = syncd]
      /\ ri_commit_idx' =
           [ri_commit_idx EXCEPT ![i] =
              IF ackd # rfi_ackd_idx[i] \/ syncd # rfi_synced_idx[i]
              THEN TallyCommit(i, ackd, syncd) ELSE @]
  BY DEF TryUpdateFollowerSyncIdx
<1> HIDE DEF ackd, syncd
<1>4. /\ rfi_ackd_idx'[i] = ackd /\ rfi_synced_idx'[i] = syncd
      /\ \/ ri_commit_idx'[i] = ri_commit_idx[i]
         \/ ri_commit_idx'[i] = TallyCommit(i, ackd, syncd)
      /\ \A c \in Server \ {i} : /\ rfi_ackd_idx'[c] = rfi_ackd_idx[c]
                                 /\ rfi_synced_idx'[c] = rfi_synced_idx[c]
                                 /\ ri_commit_idx'[c] = ri_commit_idx[c]
  BY <1>3 DEF TypeOK, LeaderType
<1>5. ASSUME NEW c \in Server, c # i PROVE TallyMoves(c)
  BY <1>1, <1>4, <1>5, TallySteady
<1>6. TallyMoves(i)
  <2>1. CommittedIdx(i, rfi_ackd_idx[i], rfi_synced_idx[i])'
          = CommittedIdx(i, ackd, syncd)
    BY <1>4 DEF CommittedIdx, SyncIdx
  <2>2. \/ ri_commit_idx'[i] = ri_commit_idx[i]
        \/ ri_commit_idx'[i] = CommittedIdx(i, ackd, syncd)
    BY <1>4, TallyChoice
  <2> QED
    BY <1>1, <1>2, <1>4, <2>1, <2>2 DEF TallyMoves
<1> QED
  BY <1>5, <1>6

\* Every step moves the tally of a leader that goes on leading.
LEMMA StepTally ==
  ASSUME TypeOK, TypeOK', NoRival, [Next]_vars, ~ \E m \in msgs : BecomeLeader(m),
         NEW c \in Server, ri_state'[c] = "leader"
  PROVE  TallyMoves(c)
<1>1. \A d \in Server : /\ synced[d] \in Nat /\ Len(log[d]) \in Nat
                        /\ synced[d] <= Len(log[d])
  BY DEF TypeOK, LogType
<1>2. ASSUME UNCHANGED <<rls_initial_term_idx, rfi_ackd_idx, rfi_synced_idx,
                         ri_commit_idx>>,
             synced'[c] >= synced[c]
      PROVE  TallyMoves(c)
  <2>1. synced[c] <= synced'[c]
    BY <1>1, <1>2 DEF TypeOK, LogType
  <2> QED
    BY <1>2, <2>1, TallySteady
<1>3. UNCHANGED vars =>
        /\ UNCHANGED <<rls_initial_term_idx, rfi_ackd_idx, rfi_synced_idx,
                       ri_commit_idx>>
        /\ synced' = synced
  BY DEF vars, rfiVars, logVars
<1>4. ASSUME NEW i \in Server, TimerStep(i) \/ LocalStep(i) \/ Restart(i)
      PROVE  TallyMoves(c)
  <2>1. CASE \/ BecomePreVote(i) \/ Heartbeat(i) \/ RemoteSend(i) \/ SendSyncIdx(i)
    <3>1. /\ UNCHANGED <<rls_initial_term_idx, rfi_ackd_idx, rfi_synced_idx,
                         ri_commit_idx>>
          /\ UNCHANGED synced
      BY <2>1 DEF BecomePreVote, Heartbeat, RemoteSend, AppendEntrySender,
                  SendSyncIdx, rfiVars, logVars
    <3> QED
      BY <1>1, <1>2, <3>1
  <2>2. CASE (\E v \in Value : ClientWrite(i, v)) \/ SyncThread(i)
    <3>1. UNCHANGED <<rls_initial_term_idx, rfi_ackd_idx, rfi_synced_idx,
                      ri_commit_idx>>
      BY <2>2 DEF ClientWrite, SyncThread, rfiVars
    <3>2. CASE \E v \in Value : ClientWrite(i, v)
      <4>1. synced' = [synced EXCEPT ![i] = SyncedAfterWrite(@, Len(log[i]))]
        BY <3>2 DEF ClientWrite
      <4>2. synced'[c] >= synced[c]
        BY <1>1, <4>1 DEF TypeOK, LogType, SyncedAfterWrite
      <4> QED
        BY <1>2, <3>1, <4>2
    <3>3. CASE SyncThread(i)
      <4>1. PICK n \in synced[i] + 1 .. Len(log[i]) :
              synced' = [synced EXCEPT ![i] = n]
        BY <3>3 DEF SyncThread
      <4>2. synced'[c] >= synced[c]
        BY <1>1, <4>1 DEF TypeOK, LogType
      <4> QED
        BY <1>2, <3>1, <4>2
    <3> QED
      BY <2>2, <3>2, <3>3
  <2>3. CASE CommitIdxAdv(i)
    <3>1. UNCHANGED <<rls_initial_term_idx, rfi_ackd_idx, rfi_synced_idx, synced>>
      BY <2>3 DEF CommitIdxAdv, rfiVars, logVars
    <3>2. CASE c # i
      <4>1. ri_commit_idx'[c] = ri_commit_idx[c]
        BY <2>3, <3>2 DEF TypeOK, LeaderType, CommitIdxAdv
      <4> QED
        BY <1>1, <3>1, <4>1, TallySteady
    <3>3. CASE c = i
      <4>1. ri_commit_idx'[c] = TallyCommit(c, rfi_ackd_idx[c], rfi_synced_idx[c])
        BY <2>3, <3>3 DEF TypeOK, LeaderType, CommitIdxAdv
      <4>2. CommittedIdx(c, rfi_ackd_idx[c], rfi_synced_idx[c])'
              = CommittedIdx(c, rfi_ackd_idx[c], rfi_synced_idx[c])
        BY <3>1 DEF CommittedIdx, SyncIdx
      <4>3. \/ ri_commit_idx'[c] = ri_commit_idx[c]
            \/ ri_commit_idx'[c] = CommittedIdx(c, rfi_ackd_idx[c], rfi_synced_idx[c])'
        BY <4>1, <4>2, TallyChoice
      <4>4. \A j \in Server : rfi_ackd_idx[c][j] \in Int /\ rfi_synced_idx[c][j] \in Int
        BY DEF TypeOK, LeaderType
      <4> QED
        BY <1>1, <3>1, <4>3, <4>4 DEF TallyMoves
    <3> QED
      BY <3>2, <3>3
  <2>4. CASE Restart(i)
    <3>1. c # i
      BY <2>4 DEF TypeOK, StateType, Restart
    <3>2. /\ UNCHANGED <<rls_initial_term_idx, rfi_ackd_idx, rfi_synced_idx>>
          /\ ri_commit_idx'[c] = ri_commit_idx[c] /\ synced'[c] = synced[c]
      BY <2>4, <3>1 DEF TypeOK, LeaderType, LogType, Restart, rfiVars
    <3> QED
      BY <1>1, <3>2, TallySteady
  <2> QED
    BY <1>4, <2>1, <2>2, <2>3, <2>4
       DEF TimerStep, LocalStep, ElectionTimeout, QuorumLoss
<1>5. ASSUME NEW m \in msgs, VoteStep(m) PROVE TallyMoves(c)
  <2> DEFINE i == m.dst
  <2>1. ~BecomeLeader(m) /\ i \in Server
    BY MessageKinds DEF TypeOK, NetworkType
  <2>2. UNCHANGED <<rls_initial_term_idx, rfi_ackd_idx, rfi_synced_idx, ri_commit_idx>>
    BY <1>5, <2>1 DEF VoteStep, ProcessPreVoteRequest, GrantVote, RefuseVote,
              IgnoreVoteReply, RegisterVote, VoteReplyDeposes, BecomeCandidate,
              rfiVars
  <2>3. synced' = [synced EXCEPT ![i] = Len(log[i])] \/ synced' = synced
    BY <1>5, <2>1 DEF VoteStep, ProcessPreVoteRequest, GrantVote, RefuseVote,
              IgnoreVoteReply, RegisterVote, VoteReplyDeposes, BecomeCandidate,
              LogHeaderWrite, logVars
  <2>4. synced'[c] = Len(log[c]) \/ synced'[c] = synced[c]
    BY <2>1, <2>3 DEF TypeOK, LogType
  <2>5. synced'[c] >= synced[c]
    BY <1>1, <2>4
  <2> QED
    BY <1>2, <2>2, <2>5
<1>6. ASSUME NEW m \in msgs, AppendStep(m) \/ SyncStep(m) PROVE TallyMoves(c)
  <2> DEFINE i == m.dst
  <2>1. i \in Server /\ m.src \in Server /\ m \in Message
    BY MessageKinds DEF TypeOK, NetworkType
  <2>2. CASE \/ AppendStale(m) \/ IgnoreAppendReply(m) \/ AppendReplyMismatch(m)
             \/ IgnoreSyncIdxUpdate(m)
    <3>1. /\ UNCHANGED <<rls_initial_term_idx, rfi_ackd_idx, rfi_synced_idx,
                         ri_commit_idx>>
          /\ UNCHANGED synced
      BY <2>2 DEF AppendStale, IgnoreAppendReply, AppendReplyMismatch,
                  IgnoreSyncIdxUpdate, rfiVars, logVars
    <3> QED
      BY <1>1, <1>2, <3>1
  <2>3. CASE AppendReplyDeposes(m)
    <3>1. /\ UNCHANGED <<rls_initial_term_idx, rfi_ackd_idx, rfi_synced_idx,
                         ri_commit_idx>>
          /\ synced' = [synced EXCEPT ![i] = Len(log[i])]
      BY <2>3 DEF AppendReplyDeposes, LogHeaderWrite, rfiVars
    <3>2. synced'[c] >= synced[c]
      BY <1>1, <2>1, <3>1 DEF TypeOK, LogType
    <3> QED
      BY <1>2, <3>1, <3>2
  <2>4. CASE AppendAccept(m) \/ AppendAbort(m)
    <3>1. c # i
      <4>1. ri_state'[i] = "leader" =>
              /\ IsRequest(m) /\ ri_state[i] = "leader"
              /\ rlh_term[i] = m.leader_term
        BY <2>1, <2>4 DEF TypeOK, StateType, AppendAccept, AppendAbort, Abort,
                          StateAfterTermCheck, IsRequest
      <4> QED
        BY <4>1 DEF NoRival
    <3>2. /\ UNCHANGED <<rls_initial_term_idx, rfi_ackd_idx, rfi_synced_idx>>
          /\ ri_commit_idx'[c] = ri_commit_idx[c] /\ synced'[c] = synced[c]
      BY <2>4, <3>1 DEF TypeOK, LeaderType, LogType, AppendAccept, AppendAbort,
                        rfiVars
    <3> QED
      BY <1>1, <3>2, TallySteady
  <2>5. CASE AppendReplyOk(m) \/ ProcessSyncIdxUpdate(m)
    <3>1. UNCHANGED <<synced, rls_initial_term_idx>>
      BY <2>5 DEF AppendReplyOk, ProcessSyncIdxUpdate, logVars
    <3>2. PICK next \in Int, sli \in Int, term \in Nat :
            TryUpdateFollowerSyncIdx(i, m.src, next, term, sli)
      <4>1. rfi_next_idx[i][m.src] \in Nat
        BY <2>1 DEF TypeOK, LeaderType
      <4>2. CASE AppendReplyOk(m)
        <5>1. m \in AppendReply
          BY <2>1, <4>2, MessageKinds DEF AppendReplyOk
        <5>2. m.synced_log_index \in Int /\ m.leader_term \in Nat
          BY <5>1 DEF AppendReply
        <5>3. rfi_next_idx[i][m.src] + (IF m.heartbeat THEN 0 ELSE 1) \in Int
          BY <4>1
        <5> QED
          BY <4>2, <5>2, <5>3 DEF AppendReplyOk
      <4>3. CASE ProcessSyncIdxUpdate(m)
        <5>1. m \in SyncIdxUpdate
          BY <2>1, <4>3, MessageKinds DEF ProcessSyncIdxUpdate
        <5>2. m.synced_log_index \in Int /\ m.term \in Nat
          BY <5>1 DEF SyncIdxUpdate
        <5> QED
          BY <4>1, <4>3, <5>2 DEF ProcessSyncIdxUpdate
      <4> QED
        BY <2>5, <4>2, <4>3
    <3> QED
      BY <2>1, <3>1, <3>2, UpdateTally
  <2> QED
    BY <1>6, <2>2, <2>3, <2>4, <2>5 DEF AppendStep, SyncStep
<1> QED
  BY <1>1, <1>2, <1>3, <1>4, <1>5, <1>6 DEF Next

\* A leader's commit index is not past its initial index, or not past its
\* tally.
Tallied ==
  \A i \in Server : ri_state[i] = "leader" =>
    \/ ri_commit_idx[i] <= rls_initial_term_idx[i]
    \/ ri_commit_idx[i] <= CommittedIdx(i, rfi_ackd_idx[i], rfi_synced_idx[i])

\* The tally of every server is an index.
CommittedAreIdx ==
  \A i \in Server : CommittedIdx(i, rfi_ackd_idx[i], rfi_synced_idx[i]) \in Int

\* What the tally finds is an index.
LEMMA CommittedIsIdx == TypeOK => CommittedAreIdx
<1> SUFFICES ASSUME TypeOK, NEW i \in Server
             PROVE  CommittedIdx(i, rfi_ackd_idx[i], rfi_synced_idx[i]) \in Int
  BY DEF CommittedAreIdx
<1>1. rfi_ackd_idx[i] \in [Server -> Int] /\ rfi_synced_idx[i] \in [Server -> Int]
  BY DEF TypeOK, LeaderType
<1> QED
  BY <1>1, CommittedType

\* Every step keeps a leader's commit index within its tally.
LEMMA StepTallied ==
  ASSUME TypeOK, TypeOK', NoRival, CommitWithinSync, Tallied, [Next]_vars
  PROVE  Tallied'
<1> SUFFICES ASSUME NEW c \in Server, ri_state'[c] = "leader"
             PROVE  \/ ri_commit_idx'[c] <= rls_initial_term_idx'[c]
                    \/ ri_commit_idx'[c]
                         <= CommittedIdx(c, rfi_ackd_idx[c], rfi_synced_idx[c])'
  BY DEF Tallied
<1> DEFINE idx == CommittedIdx(c, rfi_ackd_idx[c], rfi_synced_idx[c])
<1>1. /\ ri_commit_idx[c] \in Int /\ ri_commit_idx'[c] \in Int
      /\ rls_initial_term_idx[c] \in Int /\ synced[c] \in Nat
  BY DEF TypeOK, LeaderType, LogType
<1>2. idx \in Int /\ idx' \in Int
  <2>1. CommittedAreIdx /\ CommittedAreIdx'
    BY CommittedIsIdx, PTL
  <2> QED
    BY <2>1 DEF CommittedAreIdx
<1>3. CASE TallyMoves(c) /\ ri_state[c] = "leader"
  <2>1. idx <= idx'
    BY <1>3, CommittedGrows
  <2>2. ri_commit_idx[c] <= rls_initial_term_idx[c] \/ ri_commit_idx[c] <= idx
    BY <1>3 DEF Tallied
  <2>3. /\ rls_initial_term_idx'[c] = rls_initial_term_idx[c]
        /\ ri_commit_idx'[c] = ri_commit_idx[c] \/ ri_commit_idx'[c] = idx'
    BY <1>3 DEF TallyMoves
  <2> HIDE DEF idx
  <2>4. ri_commit_idx'[c] <= rls_initial_term_idx'[c] \/ ri_commit_idx'[c] <= idx'
    BY <1>1, <1>2, <2>1, <2>2, <2>3
  <2> QED
    BY <2>4 DEF idx
<1>4. ASSUME NEW m \in msgs, BecomeLeader(m)
      PROVE  \/ c = m.dst /\ ri_commit_idx'[c] <= rls_initial_term_idx'[c]
             \/ TallyMoves(c) /\ ri_state[c] = "leader"
  <2>1. m.dst \in Server
    BY MessageKinds DEF TypeOK, NetworkType
  <2>2. CASE c = m.dst
    <3>1. /\ rls_initial_term_idx'[c] = SyncIdx(c)
          /\ ri_commit_idx'[c] = ri_commit_idx[c]
          /\ ri_state[c] = "candidate"
      BY <1>4, <2>2 DEF TypeOK, LeaderType, BecomeLeader, Relevant
    <3>2. ri_commit_idx[c] < synced[c]
      BY <3>1 DEF CommitWithinSync, Alive
    <3> QED
      BY <1>1, <2>2, <3>1, <3>2 DEF SyncIdx
  <2>3. CASE c # m.dst
    <3>1. /\ rls_initial_term_idx'[c] = rls_initial_term_idx[c]
          /\ rfi_ackd_idx'[c] = rfi_ackd_idx[c]
          /\ rfi_synced_idx'[c] = rfi_synced_idx[c]
          /\ ri_commit_idx'[c] = ri_commit_idx[c] /\ synced'[c] = synced[c]
      BY <1>4, <2>3 DEF TypeOK, LeaderType, LogType, BecomeLeader
    <3>2. ri_state[c] = "leader"
      BY <1>4, <2>3 DEF TypeOK, StateType, BecomeLeader
    <3> QED
      BY <1>1, <3>1, <3>2, TallySteady
  <2> QED
    BY <2>2, <2>3
<1>5. CASE ~ \E m \in msgs : BecomeLeader(m)
  <2>1. ri_state[c] = "leader"
    BY <1>5, LeadersAreElected
  <2>2. TallyMoves(c)
    BY <1>5, StepTally
  <2> QED
    BY <1>3, <2>1, <2>2
<1> QED
  BY <1>3, <1>4, <1>5

\* A leader's commit index is within its tally, if no vote reply is late.
LEMMA LeadersAreTallied == ~LateVotes => (Spec => []Tallied)
<1> SUFFICES ASSUME ~LateVotes PROVE Spec => []Tallied
  OBVIOUS
<1>1. Init => Tallied
  BY DEF Init, Tallied
<1>2. /\ TypeOK /\ TypeOK' /\ NoRival /\ CommitWithinSync /\ Tallied /\ [Next]_vars
      => Tallied'
  BY StepTallied
<1>3. Spec => []VotesWritten /\ []RequestsOwned
  BY VotesAreWritten, RequestsInvariant
<1> QED
  BY <1>1, <1>2, <1>3, LeadersOwnTerms, OwnersHaveNoRival, MessagesHeld,
     CommitsAreSynced, TypeCorrect, PTL DEF Spec

\* The assertion of raft_server_leader_can_advance_commit_idx() never fails: in
\* every cluster the tally of a leader, once it counts, is not behind the
\* leader's commit index.  AE replies may be late, but no vote reply.
THEOREM TallyHolds == ~LateVotes => (Spec => []TallyNeverRegresses)
<1> SUFFICES ASSUME ~LateVotes PROVE Spec => []TallyNeverRegresses
  OBVIOUS
<1>1. TypeOK /\ Tallied => TallyNeverRegresses
  <2> SUFFICES ASSUME TypeOK, Tallied, NEW i \in Server, ri_state[i] = "leader",
                      CommittedIdx(i, rfi_ackd_idx[i], rfi_synced_idx[i])
                        >= rls_initial_term_idx[i]
               PROVE  CommittedIdx(i, rfi_ackd_idx[i], rfi_synced_idx[i])
                        >= ri_commit_idx[i]
    BY DEF TallyNeverRegresses
  <2>1. ri_commit_idx[i] \in Int /\ rls_initial_term_idx[i] \in Int
    BY DEF TypeOK, LeaderType
  <2>2. CommittedIdx(i, rfi_ackd_idx[i], rfi_synced_idx[i]) \in Int
    BY CommittedIsIdx DEF CommittedAreIdx
  <2> QED
    BY <2>1, <2>2 DEF Tallied
<1>2. Spec => []Tallied
  BY LeadersAreTallied
<1> QED
  BY <1>1, <1>2, TypeCorrect, PTL
=============================================================================
