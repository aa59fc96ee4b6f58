-------------------------- MODULE RaftCommit_proofs --------------------------
(***************************************************************************)
(* What a leader counts is stored, what it commits is durable, and a later *)
(* leader has it, in every cluster whose network brings no late replies    *)
(* and no overtaken requests.                                              *)
(*                                                                         *)
(* A follower's report to a leader (Reported) is followed from the reply   *)
(* that carries it to the leader's table.  Entry n of leader i is barred   *)
(* (Barred) when a majority has left i's term without reporting n: then i  *)
(* never commits it.  The invariant Safe says of entries that are not      *)
(* barred that who reported them keeps them (Evidence), that who reported  *)
(* them votes for candidates that have them (VoteSafe), that a log with an *)
(* entry of a later term has them (LogSafe), and that no request of a      *)
(* later term replaces them (ReqSafe).  What is committed was reported by  *)
(* a majority, so it is not barred.                                        *)
(*                                                                         *)
(* The last part shows that only prunes abort the handler of AE requests:  *)
(* a follower that has acknowledged a leader's entries has them while it   *)
(* is in the leader's term (Followed), so a heartbeat that finds its place *)
(* taken finds the entry before it as it says (HeartbeatsHeld).            *)
(***************************************************************************)
EXTENDS RaftLog_proofs

-----------------------------------------------------------------------------
(* Logs that share entries *)

\* The first x entries of L and M exist and are the same.
Share(L, M, x) == x <= Len(L) /\ x <= Len(M) /\ \A k \in 1 .. x : L[k] = M[k]

\* L is what M starts with.
Grows(L, M) == Len(L) <= Len(M) /\ \A k \in 1 .. Len(L) : M[k] = L[k]

\* Sharing is an equivalence and goes down to every shorter prefix.
LEMMA ShareFacts ==
  ASSUME NEW L \in Seq(Entry), NEW M \in Seq(Entry), NEW x \in Nat, Share(L, M, x)
  PROVE  /\ Share(M, L, x)
         /\ \A y \in Nat : y <= x => Share(L, M, y)
         /\ \A N : Share(M, N, x) => Share(L, N, x)
BY DEF Share

\* Sharing survives that the second log grows and that the first keeps what is
\* shared.
LEMMA ShareKept ==
  ASSUME NEW L \in Seq(Entry), NEW M \in Seq(Entry), NEW x \in Nat,
         Share(L, M, x), NEW K, NEW N, Len(K) \in Nat, Len(N) \in Nat,
         Grows(M, N), x <= Len(K), \A k \in 1 .. x : K[k] = L[k]
  PROVE  Share(K, N, x)
<1>1. Len(L) \in Nat /\ Len(M) \in Nat
  OBVIOUS
<1> QED
  BY <1>1 DEF Share, Grows

\* Logs that agree and have an entry of one term at place x share x entries.
LEMMA AgreeShare ==
  ASSUME TypeOK, NEW i \in Server, NEW j \in Server, Agree(i, j), NEW x \in Nat,
         x >= 1, x <= Len(log[i]), x <= Len(log[j]),
         log[i][x].term = log[j][x].term
  PROVE  Share(log[i], log[j], x)
BY DEF Agree, Share

-----------------------------------------------------------------------------
(* The synced entries of a server *)

\* Server q loses none of its synced entries.
KeepsSynced(q) ==
  /\ synced[q] <= synced'[q]
  /\ \A k \in 1 .. synced[q] : log'[q][k] = log[q][k]

\* Request m, whose entry is not the one that q has in its place, makes q cut
\* its log to what precedes that place.
Cuts(m, q) ==
  LET n == m.prev_log_index + 1 IN
  /\ IsRequest(m) /\ m.dst = q
  /\ n + 1 <= Len(log[q]) /\ m.log_term > 0 /\ log[q][n + 1].term # m.log_term
  /\ rlh_term[q] <= m.leader_term /\ rlh_term'[q] = m.leader_term
  /\ n <= synced'[q]
  /\ \A k \in 1 .. n : log'[q][k] = log[q][k]

\* A server whose log stays loses no synced entry.
LEMMA SameKeepsSynced ==
  ASSUME TypeOK, NEW q \in Server, log'[q] = log[q], synced[q] <= synced'[q]
  PROVE  KeepsSynced(q)
BY DEF KeepsSynced

\* The handler of AE requests loses no synced entry unless it cuts the log.
LEMMA AcceptSynced ==
  ASSUME TypeOK, NEW m \in msgs, AppendAccept(m), m.prev_log_index >= -1
  PROVE  KeepsSynced(m.dst) \/ Cuts(m, m.dst)
<1> DEFINE i == m.dst
           n == m.prev_log_index + 1
           e == [term |-> m.log_term, data |-> m.data]
           L == log[i]
           P == PrunedLog(i, m)
<1>1. m \in AppendRequest /\ i \in Server /\ IsRequest(m)
  BY MessageKinds DEF TypeOK, NetworkType, AppendAccept, IsRequest
<1>2. /\ L \in Seq(Entry) /\ Len(L) \in Nat /\ synced[i] \in Nat
      /\ synced[i] <= Len(L)
  BY <1>1 DEF TypeOK, LogType
<1>3. FatalOf(i, m) = "none"
  BY DEF AppendAccept
<1>4. /\ n \in Nat /\ P \in Seq(Entry) /\ Len(P) \in Nat
      /\ Len(P) <= Len(L) /\ \A k \in 1 .. Len(P) : P[k] = L[k]
      /\ Prunes(i, m) => Len(P) = n
      /\ ~Prunes(i, m) => P = L
  BY <1>1, <1>3, PreparedLog
<1>5. /\ log'[i] = IF Writes(i, m) THEN Append(P, e) ELSE P
      /\ synced'[i] = SyncedAfterAppend(i, m)
  BY <1>1 DEF TypeOK, LogType, AppendAccept
<1>6. /\ rlh_term[i] <= m.leader_term /\ rlh_term'[i] = m.leader_term
  <2>1. m.leader_term \in Nat /\ rlh_term[i] \in Nat
    BY <1>1 DEF AppendRequest, TypeOK, HeaderType
  <2> QED
    BY <1>1, <2>1 DEF AppendAccept, AdoptTerm, Stale, TypeOK, HeaderType
<1>7. \A k \in 1 .. Len(P) : log'[i][k] = L[k]
  <2>1. CASE Writes(i, m)
    <3>1. e \in Entry
      BY <1>1, <1>3, <2>1, PrepareType
    <3>2. log'[i] = Append(P, e)
      BY <1>5, <2>1
    <3> HIDE DEF P, e
    <3> QED
      BY <1>4, <3>1, <3>2, AppendProperties
  <2>2. CASE ~Writes(i, m)
    BY <1>4, <1>5, <2>2
  <2> QED
    BY <2>1, <2>2
<1>8. SyncedAfterPrepare(i, m) <= synced'[i]
  <2>1. /\ SyncedAfterPrepare(i, m) \in Nat
        /\ SyncedAfterPrepare(i, m) <= Len(P)
    BY <1>1, <1>3, PrepareType
  <2> HIDE DEF P
  <2> QED
    BY <1>4, <1>5, <2>1 DEF SyncedAfterAppend, SyncedAfterWrite, P
<1>9. CASE Prunes(i, m)
  <2>1. SyncedAfterPrepare(i, m) = n
    BY <1>4, <1>9 DEF SyncedAfterPrepare
  <2>2. n + 1 <= Len(L) /\ m.log_term > 0 /\ L[n + 1].term # m.log_term
    <3>1. m.prev_log_index + 1 \in 0 .. LastIdx(L)
      <4>1. m.prev_log_index \in Int
        BY <1>1 DEF AppendRequest
      <4>2. LastIdx(L) \in Int
        BY <1>2 DEF LastIdx
      <4> QED
        BY <1>4, <1>9, <4>1, <4>2 DEF Prunes, Ahead
    <3>2. EntryAt(L, m.prev_log_index + 1) = L[n + 1]
      BY <3>1 DEF EntryAt
    <3> QED
      BY <1>2, <1>4, <1>9, <3>1, <3>2 DEF Prunes, AlreadyStored, LastIdx
  <2>3. \A k \in 1 .. n : log'[i][k] = L[k]
    BY <1>4, <1>7, <1>9
  <2> QED
    BY <1>1, <1>6, <1>8, <2>1, <2>2, <2>3 DEF Cuts
<1>10. CASE ~Prunes(i, m)
  <2>1. P = L
    BY <1>4, <1>10
  <2>2. synced[i] <= SyncedAfterPrepare(i, m)
    BY <1>2, <1>10, <2>1 DEF SyncedAfterPrepare
  <2>3. synced'[i] \in Nat /\ SyncedAfterPrepare(i, m) \in Nat
    BY <1>1, <1>3, <1>5, PrepareType, <1>4 DEF SyncedAfterAppend, SyncedAfterWrite
  <2> QED
    BY <1>2, <1>7, <1>8, <2>1, <2>2, <2>3 DEF KeepsSynced
<1> QED
  BY <1>9, <1>10

\* Nor does a leader that writes.
LEMMA WriteSynced ==
  ASSUME TypeOK, TypeOK', NEW i \in Server, NEW e \in Entry,
         log' = [log EXCEPT ![i] = Append(@, e)],
         synced' = [synced EXCEPT ![i] = SyncedAfterWrite(@, Len(log[i]))],
         NEW q \in Server
  PROVE  KeepsSynced(q)
<1>1. /\ log[q] \in Seq(Entry) /\ Len(log[q]) \in Nat /\ synced[q] \in Nat
      /\ synced[q] <= Len(log[q])
  BY DEF TypeOK, LogType
<1>2. CASE q # i
  <2>1. log'[q] = log[q] /\ synced'[q] = synced[q]
    BY <1>2 DEF TypeOK, LogType
  <2> QED
    BY <1>1, <2>1, SameKeepsSynced
<1>3. CASE q = i
  <2>1. /\ log'[q] = Append(log[q], e)
        /\ synced'[q] = SyncedAfterWrite(synced[q], Len(log[q]))
    BY <1>3 DEF TypeOK, LogType
  <2>2. \A k \in 1 .. Len(log[q]) : log'[q][k] = log[q][k]
    BY <1>1, <2>1, AppendProperties
  <2> QED
    BY <1>1, <2>1, <2>2 DEF KeepsSynced, SyncedAfterWrite
<1> QED
  BY <1>2, <1>3

\* No step takes synced entries from a server but the request that cuts its
\* log: not a crash, and not a change of term.
LEMMA StepSynced ==
  ASSUME TypeOK, TypeOK', RequestsValid, [Next]_vars, NEW q \in Server
  PROVE  KeepsSynced(q) \/ \E m \in msgs : Cuts(m, q)
<1>1. /\ log[q] \in Seq(Entry) /\ Len(log[q]) \in Nat /\ synced[q] \in Nat
      /\ synced[q] <= Len(log[q]) /\ synced'[q] \in Nat
  BY DEF TypeOK, LogType
<1>2. ASSUME NEW i \in Server, TimerStep(i) \/ LocalStep(i) \/ Restart(i)
      PROVE  KeepsSynced(q)
  <2>1. CASE \/ BecomePreVote(i) \/ Heartbeat(i) \/ RemoteSend(i)
             \/ SendSyncIdx(i) \/ CommitIdxAdv(i)
    <3>1. UNCHANGED <<log, synced>>
      BY <2>1 DEF BecomePreVote, Heartbeat, RemoteSend, AppendEntrySender,
                  SendSyncIdx, CommitIdxAdv, logVars
    <3> QED
      BY <1>1, <3>1, SameKeepsSynced
  <2>2. CASE SyncThread(i)
    <3>1. log' = log /\ \E n \in synced[i] + 1 .. Len(log[i]) :
                          synced' = [synced EXCEPT ![i] = n]
      BY <2>2 DEF SyncThread
    <3>2. synced[i] \in Nat
      BY DEF TypeOK, LogType
    <3>3. synced[q] <= synced'[q]
      BY <1>1, <3>1, <3>2 DEF TypeOK, LogType
    <3> QED
      BY <3>1, <3>3, SameKeepsSynced
  <2>3. CASE \E v \in Value : ClientWrite(i, v)
    <3>1. PICK v \in Value : ClientWrite(i, v)
      BY <2>3
    <3> DEFINE e == [term |-> rlh_term[i], data |-> v]
    <3>2. e \in Entry
      BY DEF TypeOK, HeaderType, Entry
    <3>3. /\ log' = [log EXCEPT ![i] = Append(@, e)]
          /\ synced' = [synced EXCEPT ![i] = SyncedAfterWrite(@, Len(log[i]))]
      BY <3>1 DEF ClientWrite
    <3> HIDE DEF e
    <3> QED
      BY <3>2, <3>3, WriteSynced
  <2>4. CASE Restart(i)
    <3>1. PICK n \in synced[i] .. Len(log[i]) :
            /\ log' = [log EXCEPT ![i] = SubSeq(@, 1, n)]
            /\ synced' = [synced EXCEPT ![i] = n]
      BY <2>4 DEF Restart
    <3>2. CASE q # i
      <4>1. log'[q] = log[q] /\ synced'[q] = synced[q]
        BY <3>1, <3>2 DEF TypeOK, LogType
      <4> QED
        BY <1>1, <4>1, SameKeepsSynced
    <3>3. CASE q = i
      <4>1. log'[q] = SubSeq(log[q], 1, n) /\ synced'[q] = n
        BY <3>1, <3>3 DEF TypeOK, LogType
      <4>2. n \in Nat /\ synced[q] <= n /\ n <= Len(log[q])
        BY <1>1, <3>1, <3>3
      <4>3. \A k \in 1 .. n : log'[q][k] = log[q][k]
        <5>1. CASE n = 0
          BY <5>1
        <5>2. CASE n >= 1
          BY <1>1, <4>1, <4>2, <5>2, SubSeqProperties
        <5> QED
          BY <4>2, <5>1, <5>2
      <4> QED
        BY <1>1, <4>1, <4>2, <4>3 DEF KeepsSynced
    <3> QED
      BY <3>2, <3>3
  <2> QED
    BY <1>2, <2>1, <2>2, <2>3, <2>4
       DEF TimerStep, LocalStep, ElectionTimeout, QuorumLoss
<1>3. ASSUME NEW m \in msgs, VoteStep(m) \/ AppendStep(m) \/ SyncStep(m)
      PROVE  KeepsSynced(q) \/ Cuts(m, q)
  <2> DEFINE i == m.dst
  <2>1. i \in Server
    BY MessageKinds DEF TypeOK, NetworkType
  <2>2. CASE AppendAccept(m)
    <3>1. m.prev_log_index >= -1
      BY <2>2 DEF RequestsValid, IsRequest, AppendAccept
    <3>2. CASE q = i
      BY <2>2, <3>1, <3>2, AcceptSynced
    <3>3. CASE q # i
      <4>1. log'[q] = log[q] /\ synced'[q] = synced[q]
        BY <2>2, <3>3 DEF AppendAccept, TypeOK, LogType
      <4> QED
        BY <1>1, <4>1, SameKeepsSynced
    <3> QED
      BY <3>2, <3>3
  <2>3. CASE BecomeLeader(m)
    <3> DEFINE e == [term |-> rlh_term[i], data |-> Marker]
    <3>1. e \in Entry
      BY <2>1 DEF TypeOK, HeaderType, Entry
    <3>2. /\ log' = [log EXCEPT ![i] = Append(@, e)]
          /\ synced' = [synced EXCEPT ![i] = SyncedAfterWrite(@, Len(log[i]))]
      BY <2>1, <2>3 DEF BecomeLeader
    <3> HIDE DEF e, i
    <3> QED
      BY <2>1, <3>1, <3>2, WriteSynced
  <2>4. CASE \/ ProcessPreVoteRequest(m) \/ GrantVote(m) \/ RefuseVote(m)
             \/ VoteReplyDeposes(m) \/ BecomeCandidate(m) \/ AppendReplyDeposes(m)
    <3>1. /\ log' = log
          /\ synced' = [synced EXCEPT ![i] = Len(log[i])]
      BY <2>4 DEF ProcessPreVoteRequest, GrantVote, RefuseVote, LogHeaderWrite,
         VoteReplyDeposes, BecomeCandidate, AppendReplyDeposes
    <3>2. synced[q] <= synced'[q]
      BY <1>1, <2>1, <3>1 DEF TypeOK, LogType
    <3> QED
      BY <3>1, <3>2, SameKeepsSynced
  <2>5. CASE AppendAbort(m)
    <3>1. /\ log' = log
          /\ synced' = [synced EXCEPT ![i] = Len(log[i])] \/ synced' = synced
      <4>1. i \in Server /\ synced = [synced EXCEPT ![i] = synced[i]]
        BY <2>1 DEF TypeOK, LogType
      <4> QED
        BY <2>5, <4>1 DEF AppendAbort
    <3>2. synced[q] <= synced'[q]
      BY <1>1, <2>1, <3>1 DEF TypeOK, LogType
    <3> QED
      BY <3>1, <3>2, SameKeepsSynced
  <2>6. CASE \/ IgnoreVoteReply(m) \/ RegisterVote(m)
             \/ AppendStale(m) \/ IgnoreAppendReply(m)
             \/ AppendReplyMismatch(m) \/ AppendReplyOk(m) \/ SyncStep(m)
    <3>1. UNCHANGED <<log, synced>>
      BY <2>6 DEF IgnoreVoteReply, RegisterVote, AppendStale, IgnoreAppendReply,
         AppendReplyMismatch, AppendReplyOk, SyncStep,
         ProcessSyncIdxUpdate, IgnoreSyncIdxUpdate, logVars
    <3> QED
      BY <1>1, <3>1, SameKeepsSynced
  <2> QED
    BY <1>3, <2>2, <2>3, <2>4, <2>5, <2>6 DEF VoteStep, AppendStep
<1>4. UNCHANGED vars => UNCHANGED <<log, synced>>
  BY DEF vars, logVars
<1> QED
  BY <1>1, <1>2, <1>3, <1>4, SameKeepsSynced DEF Next
-----------------------------------------------------------------------------
(* Terms *)

\* Entries have terms.
LEMMA EntryTerms ==
  ASSUME TypeOK, NEW c \in Server
  PROVE  /\ log[c] \in Seq(Entry) /\ Len(log[c]) \in Nat /\ rlh_term[c] \in Nat
         /\ \A k \in 1 .. Len(log[c]) : log[c][k].term \in Nat
<1>1. log[c] \in Seq(Entry) /\ Len(log[c]) \in Nat /\ rlh_term[c] \in Nat
  BY DEF TypeOK, LogType, HeaderType
<1>2. ASSUME NEW k \in 1 .. Len(log[c])
      PROVE  log[c][k].term \in Nat
  <2>1. log[c][k] \in Entry
    BY <1>1, ElementOfSeq
  <2> QED
    BY <2>1 DEF Entry
<1> QED
  BY <1>1, <1>2

\* The same of every server, in a form that can be primed.
EntriesTyped ==
  \A c \in Server :
    /\ log[c] \in Seq(Entry) /\ Len(log[c]) \in Nat /\ rlh_term[c] \in Nat
    /\ \A k \in 1 .. Len(log[c]) : log[c][k].term \in Nat

\* The types give it.
LEMMA EntriesAreTyped == TypeOK => EntriesTyped
BY EntryTerms DEF EntriesTyped

\* The numbers in a request.
LEMMA RequestNumbers ==
  ASSUME TypeOK, NEW m \in msgs, IsRequest(m)
  PROVE  /\ m.src \in Server /\ m.dst \in Server /\ m.leader_term \in Nat
         /\ m.prev_log_index \in Int /\ m.log_term \in Int /\ m.prev.term \in Nat
         /\ m.heartbeat \in BOOLEAN
<1>1. m \in Message
  BY DEF TypeOK, NetworkType
<1>2. /\ m \in AppendRequest /\ m.src \in Server /\ m.dst \in Server
      /\ m.leader_term \in Nat /\ m.prev_log_index \in Int
      /\ m.heartbeat \in BOOLEAN
  BY <1>1, RequestFields
<1>3. m.prev \in Entry \cup {NullEntry}
  BY <1>2 DEF AppendRequest
<1>4. m.prev.term \in Nat
  BY <1>3 DEF Entry, NullEntry
<1>5. m.log_term \in Int
  <2>1. m.log_term \in Int \/ m.log_term \in Nat
    BY <1>2 DEF AppendRequest
  <2> QED
    BY <2>1
<1> QED
  BY <1>2, <1>4, <1>5

\* The terms of L do not decrease and do not pass t.
Ordered(L, t) ==
  \A k \in 1 .. Len(L) :
    L[k].term <= t /\ \A x \in k .. Len(L) : L[k].term <= L[x].term

\* No candidacy and no leadership is in term 0, no log is ahead of its server's
\* term, and no entry is sent by a leader of an earlier term.
TermsOrdered ==
  /\ \A c \in Server :
       ri_state[c] \in {"candidate", "leader"} => rlh_term[c] >= 1
  /\ \A c \in Server : Ordered(log[c], rlh_term[c])
  /\ \A m \in msgs : IsRequest(m) /\ ~m.heartbeat => m.log_term <= m.leader_term

\* An entry that is not older than what precedes it keeps the order.
LEMMA ExtendOrdered ==
  ASSUME TypeOK, TypeOK', NEW i \in Server, NEW n \in Nat, NEW e,
         Extended(i, n, e), Ordered(log[i], rlh_term[i]),
         rlh_term[i] <= rlh_term'[i], e.term <= rlh_term'[i],
         n >= 1 => log[i][n].term <= e.term
  PROVE  Ordered(log'[i], rlh_term'[i])
<1>1. EntriesTyped /\ EntriesTyped'
  BY EntriesAreTyped, PTL
<1>2. /\ Len(log'[i]) = n + 1 /\ n <= Len(log[i]) /\ log'[i][n + 1] = e
      /\ \A k \in 1 .. n : log'[i][k] = log[i][k]
  BY DEF Extended
<1>3. e.term \in Nat
  BY <1>1, <1>2 DEF EntriesTyped
<1>4. ASSUME NEW k \in 1 .. n + 1
      PROVE  log'[i][k].term <= rlh_term'[i] /\ log'[i][k].term <= e.term
  <2>1. CASE k = n + 1
    BY <1>2, <1>3, <2>1
  <2>2. CASE k \in 1 .. n
    <3>1. k \in 1 .. Len(log[i]) /\ n \in k .. Len(log[i]) /\ n >= 1
      BY <1>1, <1>2, <2>2 DEF EntriesTyped
    <3>2. log[i][k].term <= rlh_term[i] /\ log[i][k].term <= log[i][n].term
      BY <3>1 DEF Ordered
    <3>3. log[i][k].term \in Nat /\ log[i][n].term \in Nat
      BY <1>1, <3>1 DEF EntriesTyped
    <3>4. log'[i][k] = log[i][k] /\ log[i][n].term <= e.term
      BY <1>2, <2>2, <3>1
    <3>5. rlh_term[i] \in Nat /\ rlh_term'[i] \in Nat
      BY <1>1 DEF EntriesTyped
    <3> QED
      BY <1>3, <3>2, <3>3, <3>4, <3>5
  <2> QED
    BY <2>1, <2>2
<1>5. ASSUME NEW k \in 1 .. n + 1, NEW x \in k .. n + 1
      PROVE  log'[i][k].term <= log'[i][x].term
  <2>1. CASE x = n + 1
    BY <1>2, <1>4, <2>1
  <2>2. CASE x # n + 1
    <3>1. k \in 1 .. n /\ x \in 1 .. n /\ k \in 1 .. Len(log[i]) /\ x \in k .. Len(log[i])
      BY <1>1, <1>2, <2>2 DEF EntriesTyped
    <3> QED
      BY <1>2, <3>1 DEF Ordered
  <2> QED
    BY <2>1, <2>2
<1> QED
  BY <1>2, <1>4, <1>5 DEF Ordered

\* Every step keeps the order of terms.
LEMMA StepTerms ==
  ASSUME TypeOK, TypeOK', RequestsValid, TermsOrdered, [Next]_vars
  PROVE  TermsOrdered'
<1>1. EntriesTyped /\ EntriesTyped'
  BY EntriesAreTyped, PTL
<1>2. Roles /\ NewRequests /\ LogsMove
  BY StepRoles, StepMessages, StepLogs
<1>3. ASSUME NEW c \in Server, ri_state'[c] \in {"candidate", "leader"}
      PROVE  rlh_term'[c] >= 1
  <2>1. rlh_term[c] \in Nat /\ rlh_term'[c] \in Nat
    BY <1>1 DEF EntriesTyped
  <2>2. \/ ri_state[c] \in {"candidate", "leader"} \/ rlh_term[c] < rlh_term'[c]
    BY <1>2, <1>3 DEF Roles
  <2>3. rlh_term[c] <= rlh_term'[c]
    BY <1>2 DEF Roles
  <2> QED
    BY <2>1, <2>2, <2>3 DEF TermsOrdered
<1>4. ASSUME NEW m \in msgs', IsRequest(m), ~m.heartbeat
      PROVE  m.log_term <= m.leader_term
  <2>1. CASE m \in msgs
    BY <1>4, <2>1 DEF TermsOrdered
  <2>2. CASE Sent(m)
    <3>1. m.src \in Server /\ m.prev_log_index \in Int
      BY <1>4, RequestFields DEF TypeOK, NetworkType
    <3> DEFINE n == m.prev_log_index + 1
    <3>2. /\ n \in Nat /\ n + 1 <= Len(log[m.src]) /\ m.leader_term = rlh_term[m.src]
          /\ m.log_term = log[m.src][n + 1].term
      BY <1>4, <2>2 DEF Sent
    <3>3. n + 1 \in 1 .. Len(log[m.src])
      BY <1>1, <3>1, <3>2 DEF EntriesTyped
    <3> QED
      BY <3>1, <3>2, <3>3 DEF TermsOrdered, Ordered
  <2> QED
    BY <1>2, <1>4, <2>1, <2>2 DEF NewRequests
<1>5. ASSUME NEW c \in Server
      PROVE  Ordered(log'[c], rlh_term'[c])
  <2>1. rlh_term[c] <= rlh_term'[c]
    BY <1>2 DEF Roles
  <2>2. Ordered(log[c], rlh_term[c])
    BY DEF TermsOrdered
  <2>3. CASE Shorter(c)
    <3> SUFFICES ASSUME NEW k \in 1 .. Len(log'[c]), NEW x \in k .. Len(log'[c])
                 PROVE  /\ log'[c][k].term <= rlh_term'[c]
                        /\ log'[c][k].term <= log'[c][x].term
      <4>1. \A k \in 1 .. Len(log'[c]) : k \in k .. Len(log'[c])
        BY <1>1 DEF EntriesTyped
      <4> QED
        BY <4>1 DEF Ordered
    <3>1. /\ k \in 1 .. Len(log[c]) /\ x \in k .. Len(log[c]) /\ x \in 1 .. Len(log'[c])
      BY <1>1, <2>3 DEF Shorter, EntriesTyped
    <3>2. log'[c][k] = log[c][k] /\ log'[c][x] = log[c][x]
      BY <2>3, <3>1 DEF Shorter
    <3>3. log[c][k].term <= rlh_term[c] /\ log[c][k].term <= log[c][x].term
      BY <2>2, <3>1 DEF Ordered
    <3>4. log[c][k].term \in Nat /\ rlh_term[c] \in Nat /\ rlh_term'[c] \in Nat
      BY <1>1, <3>1 DEF EntriesTyped
    <3> QED
      BY <2>1, <3>2, <3>3, <3>4
  <2>4. CASE Own(c)
    <3>1. PICK e \in Entry : e.term = rlh_term[c] /\ Extended(c, Len(log[c]), e)
      BY <2>4 DEF Own
    <3>2. /\ Len(log[c]) \in Nat /\ rlh_term'[c] \in Nat
          /\ Len(log[c]) >= 1 => Len(log[c]) \in 1 .. Len(log[c])
      BY <1>1 DEF EntriesTyped
    <3>3. Len(log[c]) >= 1 => log[c][Len(log[c])].term <= e.term
      BY <2>2, <3>1, <3>2 DEF Ordered
    <3> QED
      BY <2>1, <2>2, <3>1, <3>2, <3>3, ExtendOrdered
  <2>5. ASSUME NEW m \in msgs, Copied(m), m.dst = c
        PROVE  Ordered(log'[c], rlh_term'[c])
    <3> DEFINE n == m.prev_log_index + 1
               e == [term |-> m.log_term, data |-> m.data]
    <3>1. /\ IsRequest(m) /\ ~m.heartbeat /\ Extended(c, n, e)
          /\ n >= 1 => log[c][n].term = m.prev.term
          /\ m.prev.term <= m.log_term /\ rlh_term'[c] = m.leader_term
      BY <2>5 DEF Copied
    <3>2. m.prev_log_index \in Int
      BY <3>1, RequestNumbers
    <3>3. n \in Nat
      BY <1>1, <3>1, <3>2 DEF Extended, EntriesTyped
    <3>4. m.log_term <= m.leader_term
      BY <3>1 DEF TermsOrdered
    <3>5. e.term = m.log_term
      OBVIOUS
    <3> HIDE DEF n, e
    <3> QED
      BY <2>1, <2>2, <3>1, <3>3, <3>4, <3>5, ExtendOrdered
  <2>6. ASSUME NEW i \in Server, Others(i), i # c
        PROVE  Shorter(c)
    BY <2>6, SameIsShorter DEF Others
  <2>7. ASSUME NEW m \in msgs, Copied(m)
        PROVE  Others(m.dst) /\ m.dst \in Server
    BY <2>7, RequestNumbers DEF Copied
  <2> QED
    BY <1>2, <2>3, <2>4, <2>5, <2>6, <2>7 DEF LogsMove, Own
<1> QED
  BY <1>3, <1>4, <1>5 DEF TermsOrdered, IsRequest
-----------------------------------------------------------------------------
(* Votes and beliefs *)

\* A vote leaves its first trace when it is granted or when its voter becomes
\* a candidate.
LEMMA VoteCast ==
  ASSUME ~LateVotes, TypeOK, CandidateViable, [Next]_vars,
         NEW v \in Server, NEW c \in Server, NEW t \in Nat,
         Backed(v, t, c)', ~Backed(v, t, c)
  PROVE  \E m \in msgs :
           \/ /\ GrantVote(m) /\ m.dst = v /\ m.src = c /\ m.proposed_term = t
              /\ rlh_term[v] < t
           \/ /\ BecomeCandidate(m) /\ m.dst = v /\ c = v /\ t = rlh_term[v] + 1
<1>1. ASSUME Quiet PROVE FALSE
  BY <1>1, QuietBacked
<1>2. ASSUME NEW m \in msgs, VoteStep(m)
      PROVE  \/ /\ GrantVote(m) /\ m.dst = v /\ m.src = c /\ m.proposed_term = t
                /\ rlh_term[v] < t
             \/ /\ BecomeCandidate(m) /\ m.dst = v /\ c = v /\ t = rlh_term[v] + 1
  <2>1. CASE \/ ProcessPreVoteRequest(m) \/ RefuseVote(m) \/ IgnoreVoteReply(m)
             \/ VoteReplyDeposes(m)
    BY <1>1, <2>1, RefusalQuiet, VoteReplyQuiet
  <2>2. CASE GrantVote(m)
    BY <2>2, GrantBacked DEF AddsVote
  <2>3. CASE BecomeCandidate(m)
    BY <2>3, CandidateBacked DEF AddsVote
  <2>4. CASE RegisterVote(m) \/ BecomeLeader(m)
    BY <2>4, CountBacked
  <2> QED
    BY <1>2, <2>1, <2>2, <2>3, <2>4 DEF VoteStep
<1>3. UNCHANGED vars => Quiet
  BY DEF Quiet, HeaderMoves, vars, hdrVars, candVars
<1> QED
  BY <1>1, <1>2, <1>3, LocalQuiet, RestartQuiet, AppendQuiet DEF Next

\* The log of a candidate does not change.
LEMMA CandidateSteady ==
  ASSUME TypeOK, [Next]_vars, NEW c \in Server, ri_state'[c] = "candidate"
  PROVE  log'[c] = log[c]
<1>1. ASSUME NEW i \in Server, TimerStep(i) \/ LocalStep(i) \/ Restart(i)
      PROVE  log'[c] = log[c]
  <2>1. CASE \/ BecomePreVote(i) \/ Heartbeat(i) \/ RemoteSend(i)
             \/ SyncThread(i) \/ SendSyncIdx(i) \/ CommitIdxAdv(i)
    BY <2>1 DEF BecomePreVote, Heartbeat, RemoteSend, AppendEntrySender,
                SyncThread, SendSyncIdx, CommitIdxAdv, logVars
  <2>2. CASE \E v \in Value : ClientWrite(i, v)
    <3>1. /\ ri_state'[i] = "leader"
          /\ \E e : log' = [log EXCEPT ![i] = e]
      BY <2>2 DEF ClientWrite
    <3> QED
      BY <3>1 DEF TypeOK, LogType
  <2>3. CASE Restart(i)
    <3>1. /\ ri_state'[i] = "follower"
          /\ \E e : log' = [log EXCEPT ![i] = e]
      BY <2>3 DEF Restart, TypeOK, StateType
    <3> QED
      BY <3>1 DEF TypeOK, LogType
  <2> QED
    BY <1>1, <2>1, <2>2, <2>3
       DEF TimerStep, LocalStep, ElectionTimeout, QuorumLoss
<1>2. ASSUME NEW m \in msgs, VoteStep(m) \/ AppendStep(m) \/ SyncStep(m)
      PROVE  log'[c] = log[c]
  <2>1. m.dst \in Server
    BY MessageKinds DEF TypeOK, NetworkType
  <2>2. CASE AppendAccept(m) \/ BecomeLeader(m)
    <3>1. /\ ri_state'[m.dst] \in {"leader", "follower"}
          /\ \E e : log' = [log EXCEPT ![m.dst] = e]
      BY <2>1, <2>2 DEF AppendAccept, BecomeLeader, StateAfterTermCheck, TypeOK, StateType
    <3> QED
      BY <3>1 DEF TypeOK, LogType
  <2>3. CASE \/ ProcessPreVoteRequest(m) \/ GrantVote(m) \/ RefuseVote(m)
             \/ IgnoreVoteReply(m) \/ RegisterVote(m) \/ VoteReplyDeposes(m)
             \/ BecomeCandidate(m)
    BY <2>3 DEF ProcessPreVoteRequest, GrantVote, RefuseVote,
         IgnoreVoteReply, RegisterVote, VoteReplyDeposes, BecomeCandidate, logVars
  <2>4. CASE \/ AppendStale(m) \/ AppendAbort(m) \/ IgnoreAppendReply(m)
             \/ AppendReplyDeposes(m) \/ AppendReplyMismatch(m)
             \/ AppendReplyOk(m) \/ SyncStep(m)
    BY <2>4 DEF AppendStale, AppendAbort, IgnoreAppendReply,
         AppendReplyDeposes, AppendReplyMismatch, AppendReplyOk, SyncStep,
         ProcessSyncIdxUpdate, IgnoreSyncIdxUpdate, logVars
  <2> QED
    BY <1>2, <2>2, <2>3, <2>4 DEF VoteStep, AppendStep
<1>3. UNCHANGED vars => log'[c] = log[c]
  BY DEF vars, logVars
<1> QED
  BY <1>1, <1>2, <1>3 DEF Next

\* A vote request says how the log of its candidate ends.
Describes(m) ==
  LET c == m.src IN
  ri_state[c] = "candidate" /\ rlh_term[c] = m.proposed_term =>
    /\ m.last_log_index = LastIdx(log[c])
    /\ m.last_log_term = EntryAt(log[c], LastIdx(log[c])).term

\* A candidate stands in the term it asks votes for; a server that is named as
\* a leader, or that sends a newer term, is not behind that term.
Timely(m) ==
  /\ m.type = "VOTE_REQUEST" =>
       m.proposed_term <= rlh_term[m.src] /\ Describes(m)
  /\ m.type = "VOTE_REPLY" /\ ~m.voted_granted /\ m.current_leader # None =>
       m.term <= rlh_term[m.current_leader]
  /\ m.type = "APPEND_ENTRIES_REPLY" /\ m.err_stale_term =>
       m.leader_term <= rlh_term[m.src]

\* Nobody is ahead of the leader it believes in.
BeliefsTimely ==
  /\ \A m \in msgs : Timely(m)
  /\ \A q \in Server :
       ri_csn_leader[q] # None => rlh_term[q] <= rlh_term[ri_csn_leader[q]]

\* The fields of the messages that Timely is about.
LEMMA TimelyFields ==
  ASSUME TypeOK, NEW m \in msgs
  PROVE  /\ m.src \in Server /\ m.dst \in Server
         /\ m.type = "VOTE_REQUEST" => m.proposed_term \in Nat
         /\ m.type = "VOTE_REPLY" =>
              m.term \in Nat /\ m.current_leader \in Server \cup {None}
         /\ m.type = "APPEND_ENTRIES_REPLY" => m.leader_term \in Nat
<1>1. m \in Message
  BY DEF TypeOK, NetworkType
<1>2. /\ m.src \in Server /\ m.dst \in Server
      /\ m.type = "VOTE_REQUEST" => m \in VoteRequest
      /\ m.type = "VOTE_REPLY" => m \in VoteReply
      /\ m.type = "APPEND_ENTRIES_REPLY" => m \in AppendReply
  BY <1>1, MessageKinds
<1> QED
  BY <1>2 DEF VoteRequest, VoteReply, AppendReply

\* Messages stay timely.
LEMMA TimelyKept ==
  ASSUME TypeOK, TypeOK', [Next]_vars, NEW m \in msgs, Timely(m)
  PROVE  Timely(m)'
<1>1. Roles
  BY StepRoles
<1>2. /\ m.src \in Server /\ m.dst \in Server
      /\ m.type = "VOTE_REQUEST" => m.proposed_term \in Nat
      /\ m.type = "VOTE_REPLY" =>
           m.term \in Nat /\ m.current_leader \in Server \cup {None}
      /\ m.type = "APPEND_ENTRIES_REPLY" => m.leader_term \in Nat
  BY TimelyFields
<1>3. \A c \in Server : /\ rlh_term[c] \in Nat /\ rlh_term'[c] \in Nat
                        /\ rlh_term[c] <= rlh_term'[c]
  BY <1>1 DEF TypeOK, HeaderType, Roles
<1>4. m.type = "VOTE_REQUEST" =>
        m.proposed_term <= rlh_term'[m.src] /\ Describes(m)'
  <2> SUFFICES ASSUME m.type = "VOTE_REQUEST"
               PROVE  m.proposed_term <= rlh_term'[m.src] /\ Describes(m)'
    OBVIOUS
  <2>1. m.proposed_term <= rlh_term[m.src] /\ Describes(m)
    BY DEF Timely
  <2>2. m.proposed_term <= rlh_term'[m.src]
    BY <1>2, <1>3, <2>1
  <2>3. ASSUME ri_state'[m.src] = "candidate", rlh_term'[m.src] = m.proposed_term
        PROVE  /\ ri_state[m.src] = "candidate" /\ rlh_term[m.src] = m.proposed_term
               /\ log'[m.src] = log[m.src]
    <3>1. rlh_term[m.src] = m.proposed_term
      BY <1>2, <1>3, <2>1, <2>3
    <3>2. ri_state[m.src] = "candidate"
      BY <1>1, <1>2, <1>3, <2>3, <3>1 DEF Roles
    <3> QED
      BY <1>2, <2>3, <3>1, <3>2, CandidateSteady
  <2> QED
    BY <2>1, <2>2, <2>3 DEF Describes
<1>5. m.type = "VOTE_REPLY" /\ ~m.voted_granted /\ m.current_leader # None =>
        m.term <= rlh_term'[m.current_leader]
  BY <1>2, <1>3 DEF Timely
<1>6. m.type = "APPEND_ENTRIES_REPLY" /\ m.err_stale_term =>
        m.leader_term <= rlh_term'[m.src]
  BY <1>2, <1>3 DEF Timely
<1> QED
  BY <1>4, <1>5, <1>6 DEF Timely

\* What a step sends is timely.
NewTimely == \A m \in msgs' : m \in msgs \/ Timely(m)'

\* Steps that send nothing that Timely speaks of.
LEMMA OthersTimely ==
  ASSUME NEW out, msgs' \subseteq msgs \cup out,
         \A m \in out :
           /\ m.type # "VOTE_REQUEST"
           /\ m.type = "VOTE_REPLY" => m.voted_granted
           /\ m.type = "APPEND_ENTRIES_REPLY" => ~m.err_stale_term
  PROVE  NewTimely
<1>1. \A m \in out : Timely(m)'
  BY DEF Timely
<1> QED
  BY <1>1 DEF NewTimely

\* The requests of a new candidate describe it.
LEMMA CandidateTimely ==
  ASSUME TypeOK, NEW m \in msgs, BecomeCandidate(m)
  PROVE  NewTimely
<1> DEFINE i == m.dst
           idx == LastIdx(log[i])
           term == EntryAt(log[i], LastIdx(log[i])).term
           out == VoteRequests(i, "VOTE_REQUEST", idx, term)
<1>1. i \in Server
  BY MessageKinds DEF TypeOK, NetworkType
<1>2. msgs' \subseteq msgs \cup out
  BY TransmitAdds DEF BecomeCandidate
<1>3. log' = log /\ rlh_term'[i] = rlh_term[i] + 1 /\ rlh_term[i] \in Nat
  BY <1>1 DEF BecomeCandidate, LogHeaderWrite, TypeOK, HeaderType
<1>4. ASSUME NEW r \in out
      PROVE  Timely(r)'
  <2>1. /\ r.type = "VOTE_REQUEST" /\ r.src = i
        /\ r.proposed_term = rlh_term[i] + 1
        /\ r.last_log_term = term /\ r.last_log_index = idx
    BY DEF VoteRequests
  <2>2. r.proposed_term <= rlh_term'[r.src]
    BY <1>3, <2>1
  <2>3. Describes(r)'
    BY <1>3, <2>1 DEF Describes
  <2> QED
    BY <2>1, <2>2, <2>3 DEF Timely
<1> QED
  BY <1>2, <1>4 DEF NewTimely

\* A refused vote names a leader that is not behind.
LEMMA RefusalTimely ==
  ASSUME TypeOK, BeliefsTimely, NEW m \in msgs, RefuseVote(m)
  PROVE  NewTimely
<1> DEFINE i == m.dst
<1>0. PICK r : r = VoteReplyTo(i, m, "VOTE_REPLY", FALSE)
  OBVIOUS
<1>1. i \in Server
  BY MessageKinds DEF TypeOK, NetworkType
<1>2. msgs' \subseteq msgs \cup {r} /\ rlh_term' = rlh_term
  BY <1>0, TransmitAdds DEF RefuseVote, hdrVars
<1>3. /\ r.type = "VOTE_REPLY" /\ r.term = rlh_term[i]
      /\ r.current_leader = ri_csn_leader[i]
  BY <1>0 DEF VoteReplyTo
<1>4. Timely(r)'
  BY <1>1, <1>2, <1>3 DEF Timely, BeliefsTimely
<1> QED
  BY <1>2, <1>4 DEF NewTimely

\* The reply to a stale request has the term of its sender.
LEMMA StaleTimely ==
  ASSUME TypeOK, NEW m \in msgs, AppendStale(m)
  PROVE  NewTimely
<1> DEFINE i == m.dst
<1>0. PICK r : r = AppendReplyTo(i, m, rlh_term[i], SyncIdx(i), TRUE, FALSE, FALSE)
  OBVIOUS
<1>1. i \in Server /\ rlh_term[i] \in Nat
  BY MessageKinds DEF TypeOK, NetworkType, HeaderType
<1>2. msgs' \subseteq msgs \cup {r} /\ rlh_term' = rlh_term
  BY <1>0, TransmitAdds DEF AppendStale, hdrVars
<1>3. /\ r.type = "APPEND_ENTRIES_REPLY" /\ r.leader_term = rlh_term[i] /\ r.src = i
  BY <1>0 DEF AppendReplyTo
<1>4. Timely(r)'
  BY <1>1, <1>2, <1>3 DEF Timely
<1> QED
  BY <1>2, <1>4 DEF NewTimely

\* Every step sends timely messages only.
LEMMA StepTimely ==
  ASSUME TypeOK, BeliefsTimely, [Next]_vars
  PROVE  NewTimely
<1>0. ASSUME msgs' \subseteq msgs
      PROVE  NewTimely
  BY <1>0 DEF NewTimely
<1>1. ASSUME NEW i \in Server, TimerStep(i) \/ LocalStep(i) \/ Restart(i)
      PROVE  NewTimely
  <2>1. CASE BecomePreVote(i)
    <3> DEFINE out == VoteRequests(i, "PRE_VOTE_REQUEST", SyncIdx(i), SyncTerm(i))
    <3>1. msgs' \subseteq msgs \cup out
      BY <2>1, TransmitAdds DEF BecomePreVote
    <3>2. \A m \in out : m.type = "PRE_VOTE_REQUEST"
      BY DEF VoteRequests
    <3> HIDE DEF out
    <3> QED
      BY <3>1, <3>2, OthersTimely
  <2>2. CASE Heartbeat(i) \/ RemoteSend(i)
    <3>1. PICK to : \E hb \in BOOLEAN : AppendEntrySender(i, to, hb)
      BY <2>2 DEF Heartbeat, RemoteSend
    <3>0. PICK hb \in BOOLEAN : AppendEntrySender(i, to, hb)
      BY <3>1
    <3> DEFINE out == {AppendRequestTo(i, j, hb) : j \in to}
    <3>2. msgs' \subseteq msgs \cup out
      BY <3>0, TransmitAdds DEF AppendEntrySender
    <3>3. \A m \in out : m.type = "APPEND_ENTRIES_REQUEST"
      BY DEF AppendRequestTo
    <3> HIDE DEF out
    <3> QED
      BY <3>2, <3>3, OthersTimely
  <2>3. CASE SendSyncIdx(i)
    <3> DEFINE out == {[type |-> "SYNC_IDX_UPDATE", src |-> i,
                        dst |-> ri_csn_leader[i], term |-> SyncTerm(i),
                        synced_log_index |-> SyncIdx(i)]}
    <3>1. msgs' \subseteq msgs \cup out
      BY <2>3, TransmitAdds DEF SendSyncIdx
    <3>2. \A m \in out : m.type = "SYNC_IDX_UPDATE"
      OBVIOUS
    <3> HIDE DEF out
    <3> QED
      BY <3>1, <3>2, OthersTimely
  <2>4. CASE \/ (\E v \in Value : ClientWrite(i, v)) \/ SyncThread(i)
             \/ CommitIdxAdv(i) \/ Restart(i)
    BY <1>0, <2>4 DEF ClientWrite, SyncThread, CommitIdxAdv, Restart
  <2> QED
    BY <1>1, <2>1, <2>2, <2>3, <2>4
       DEF TimerStep, LocalStep, ElectionTimeout, QuorumLoss
<1>2. ASSUME NEW m \in msgs, VoteStep(m) \/ AppendStep(m) \/ SyncStep(m)
      PROVE  NewTimely
  <2>1. CASE ProcessPreVoteRequest(m)
    <3> DEFINE out == {VoteReplyTo(m.dst, m, "PRE_VOTE_REPLY", PreVoteDecide(m.dst, m))}
    <3>1. msgs' \subseteq msgs \cup out
      BY <2>1, TransmitAdds DEF ProcessPreVoteRequest
    <3>2. \A r \in out : r.type = "PRE_VOTE_REPLY"
      BY DEF VoteReplyTo
    <3> HIDE DEF out
    <3> QED
      BY <3>1, <3>2, OthersTimely
  <2>2. CASE GrantVote(m)
    <3> DEFINE out == {VoteReplyTo(m.dst, m, "VOTE_REPLY", TRUE)}
    <3>1. msgs' \subseteq msgs \cup out
      BY <2>2, TransmitAdds DEF GrantVote
    <3>2. \A r \in out : r.type = "VOTE_REPLY" /\ r.voted_granted
      BY DEF VoteReplyTo
    <3> HIDE DEF out
    <3> QED
      BY <3>1, <3>2, OthersTimely
  <2>3. CASE AppendAccept(m)
    <3> DEFINE rc == PrepareRc(m.dst, m)
               out == {AppendReplyTo(m.dst, m, m.leader_term,
                                     SyncedAfterAppend(m.dst, m) - 1, FALSE,
                                     rc \in {"ERANGE", "EEXIST"}, rc = "OK")}
    <3>1. msgs' \subseteq msgs \cup out
      BY <2>3, TransmitAdds DEF AppendAccept
    <3>2. \A r \in out : r.type = "APPEND_ENTRIES_REPLY" /\ r.err_stale_term = FALSE
      BY DEF AppendReplyTo
    <3> HIDE DEF out
    <3> QED
      BY <3>1, <3>2, OthersTimely
  <2>4. CASE \/ IgnoreVoteReply(m) \/ RegisterVote(m) \/ VoteReplyDeposes(m)
             \/ BecomeLeader(m) \/ AppendAbort(m) \/ IgnoreAppendReply(m)
             \/ AppendReplyDeposes(m) \/ AppendReplyMismatch(m)
             \/ AppendReplyOk(m) \/ SyncStep(m)
    <3>1. msgs' = msgs \ {m}
      BY <2>4 DEF IgnoreVoteReply, RegisterVote, VoteReplyDeposes, BecomeLeader,
         AppendAbort, IgnoreAppendReply, AppendReplyDeposes, AppendReplyMismatch,
         AppendReplyOk, SyncStep, ProcessSyncIdxUpdate, IgnoreSyncIdxUpdate
    <3> QED
      BY <1>0, <3>1
  <2> QED
    BY <1>2, <2>1, <2>2, <2>3, <2>4, RefusalTimely, CandidateTimely, StaleTimely
       DEF VoteStep, AppendStep
<1>3. UNCHANGED vars => msgs' \subseteq msgs
  BY DEF vars
<1> QED
  BY <1>0, <1>1, <1>2, <1>3 DEF Next

\* How the leader that a server believes in changes: its own term comes with
\* the belief.
BeliefsMove ==
  \A q \in Server :
    \/ ri_csn_leader'[q] = ri_csn_leader[q] /\ rlh_term'[q] = rlh_term[q]
    \/ ri_csn_leader'[q] = None
    \/ rlh_term'[q] <= rlh_term[ri_csn_leader'[q]]

\* The step of one server that takes o for the leader, in term t.
LEMMA OneBelief ==
  ASSUME TypeOK, NEW i \in Server, NEW o \in Server \cup {None}, NEW t,
         ri_csn_leader' = [ri_csn_leader EXCEPT ![i] = o],
         rlh_term' = [rlh_term EXCEPT ![i] = t],
         o = None \/ t <= rlh_term[o]
  PROVE  BeliefsMove
<1> SUFFICES ASSUME NEW q \in Server
             PROVE  \/ ri_csn_leader'[q] = ri_csn_leader[q] /\ rlh_term'[q] = rlh_term[q]
                    \/ ri_csn_leader'[q] = None
                    \/ rlh_term'[q] <= rlh_term[ri_csn_leader'[q]]
  BY DEF BeliefsMove
<1>1. CASE q = i
  <2>1. ri_csn_leader'[q] = o /\ rlh_term'[q] = t
    BY <1>1 DEF TypeOK, StateType, HeaderType
  <2> QED
    BY <2>1
<1>2. CASE q # i
  BY <1>2 DEF TypeOK, StateType, HeaderType
<1> QED
  BY <1>1, <1>2

\* Every step moves beliefs this way.
LEMMA StepBeliefs ==
  ASSUME TypeOK, RequestsHeld, BeliefsTimely, [Next]_vars
  PROVE  BeliefsMove
<1>0. ASSUME ri_csn_leader' = ri_csn_leader, rlh_term' = rlh_term
      PROVE  BeliefsMove
  BY <1>0 DEF BeliefsMove
<1>1. \A c \in Server : rlh_term[c] \in Nat /\ rlh_term = [rlh_term EXCEPT ![c] = rlh_term[c]]
  BY DEF TypeOK, HeaderType
<1>2. ASSUME NEW i \in Server, TimerStep(i) \/ LocalStep(i) \/ Restart(i)
      PROVE  BeliefsMove
  <2>1. CASE BecomePreVote(i) \/ Restart(i)
    <3>1. /\ ri_csn_leader' = [ri_csn_leader EXCEPT ![i] = None]
          /\ rlh_term' = [rlh_term EXCEPT ![i] = rlh_term[i]]
      BY <1>1, <2>1 DEF BecomePreVote, Restart, hdrVars
    <3> QED
      BY <3>1, OneBelief
  <2>2. CASE \/ Heartbeat(i) \/ RemoteSend(i) \/ (\E v \in Value : ClientWrite(i, v))
             \/ SyncThread(i) \/ SendSyncIdx(i) \/ CommitIdxAdv(i)
    BY <1>0, <2>2 DEF Heartbeat, RemoteSend, AppendEntrySender, ClientWrite,
       SyncThread, SendSyncIdx, CommitIdxAdv, hdrVars
  <2> QED
    BY <1>2, <2>1, <2>2 DEF TimerStep, LocalStep, ElectionTimeout, QuorumLoss
<1>3. ASSUME NEW m \in msgs, VoteStep(m) \/ AppendStep(m) \/ SyncStep(m)
      PROVE  BeliefsMove
  <2> DEFINE i == m.dst
  <2>1. i \in Server /\ m.src \in Server /\ Timely(m)
    BY MessageKinds DEF TypeOK, NetworkType, BeliefsTimely
  <2>2. CASE GrantVote(m)
    <3>1. /\ ri_csn_leader' = [ri_csn_leader EXCEPT ![i] = m.src]
          /\ rlh_term' = [rlh_term EXCEPT ![i] = m.proposed_term]
          /\ m.type = "VOTE_REQUEST"
      BY <2>2 DEF GrantVote, LogHeaderWrite
    <3>2. m.proposed_term <= rlh_term[m.src]
      BY <2>1, <3>1 DEF Timely
    <3> HIDE DEF i
    <3> QED
      BY <2>1, <3>1, <3>2, OneBelief
  <2>3. CASE VoteReplyDeposes(m)
    <3>1. /\ ri_csn_leader' = [ri_csn_leader EXCEPT ![i] = m.current_leader]
          /\ rlh_term' = [rlh_term EXCEPT ![i] = m.term]
          /\ m.type = "VOTE_REPLY" /\ ~m.voted_granted /\ m.current_leader # None
      BY <2>3 DEF VoteReplyDeposes, LogHeaderWrite, Deposes
    <3>2. m.term <= rlh_term[m.current_leader]
      BY <2>1, <3>1 DEF Timely
    <3>3. m.current_leader \in Server \cup {None}
      BY <3>1, TimelyFields
    <3> HIDE DEF i
    <3> QED
      BY <2>1, <3>1, <3>2, <3>3, OneBelief
  <2>4. CASE BecomeCandidate(m)
    <3>1. /\ ri_csn_leader' = [ri_csn_leader EXCEPT ![i] = None]
          /\ rlh_term' = [rlh_term EXCEPT ![i] = rlh_term[i] + 1]
      BY <2>4 DEF BecomeCandidate, LogHeaderWrite
    <3> HIDE DEF i
    <3> QED
      BY <2>1, <3>1, OneBelief
  <2>5. CASE BecomeLeader(m)
    <3>1. /\ ri_csn_leader' = [ri_csn_leader EXCEPT ![i] = i]
          /\ rlh_term' = [rlh_term EXCEPT ![i] = rlh_term[i]]
      BY <1>1, <2>1, <2>5 DEF BecomeLeader, hdrVars
    <3> HIDE DEF i
    <3>2. rlh_term[i] <= rlh_term[i]
      BY <1>1, <2>1
    <3> QED
      BY <2>1, <3>1, <3>2, OneBelief
  <2>6. CASE AppendAccept(m) \/ AppendAbort(m)
    <3>1. /\ ri_csn_leader' = [ri_csn_leader EXCEPT ![i] = m.src]
          /\ rlh_term' = [rlh_term EXCEPT ![i] = m.leader_term]
          /\ IsRequest(m)
      BY <2>6 DEF AppendAccept, AppendAbort, AdoptTerm, IsRequest
    <3>2. m.leader_term <= rlh_term[m.src]
      BY <3>1 DEF RequestsHeld, Held
    <3> HIDE DEF i
    <3> QED
      BY <2>1, <3>1, <3>2, OneBelief
  <2>7. CASE AppendReplyDeposes(m)
    <3>1. /\ ri_csn_leader' = [ri_csn_leader EXCEPT ![i] = m.src]
          /\ rlh_term' = [rlh_term EXCEPT ![i] = m.leader_term]
          /\ m.type = "APPEND_ENTRIES_REPLY" /\ m.err_stale_term
      BY <2>7 DEF AppendReplyDeposes, LogHeaderWrite, AckDeposes
    <3>2. m.leader_term <= rlh_term[m.src]
      BY <2>1, <3>1 DEF Timely
    <3> HIDE DEF i
    <3> QED
      BY <2>1, <3>1, <3>2, OneBelief
  <2>8. CASE \/ ProcessPreVoteRequest(m) \/ RefuseVote(m) \/ IgnoreVoteReply(m)
             \/ RegisterVote(m) \/ AppendStale(m) \/ IgnoreAppendReply(m)
             \/ AppendReplyMismatch(m) \/ AppendReplyOk(m) \/ SyncStep(m)
    BY <1>0, <2>8 DEF ProcessPreVoteRequest, RefuseVote, IgnoreVoteReply,
       RegisterVote, AppendStale, IgnoreAppendReply, AppendReplyMismatch,
       AppendReplyOk, SyncStep, ProcessSyncIdxUpdate, IgnoreSyncIdxUpdate, hdrVars
  <2> QED
    BY <1>3, <2>2, <2>3, <2>4, <2>5, <2>6, <2>7, <2>8 DEF VoteStep, AppendStep
<1>4. UNCHANGED vars => ri_csn_leader' = ri_csn_leader /\ rlh_term' = rlh_term
  BY DEF vars, hdrVars
<1> QED
  BY <1>0, <1>2, <1>3, <1>4 DEF Next

\* Every step keeps beliefs timely.
LEMMA StepBeliefsTimely ==
  ASSUME TypeOK, TypeOK', RequestsHeld, BeliefsTimely, [Next]_vars
  PROVE  BeliefsTimely'
<1>1. NewTimely /\ BeliefsMove /\ Roles
  BY StepTimely, StepBeliefs, StepRoles
<1>2. \A m \in msgs' : Timely(m)'
  BY <1>1, TimelyKept DEF NewTimely, BeliefsTimely
<1>3. ASSUME NEW q \in Server, ri_csn_leader'[q] # None
      PROVE  rlh_term'[q] <= rlh_term'[ri_csn_leader'[q]]
  <2>1. ri_csn_leader'[q] \in Server
    BY <1>3 DEF TypeOK, StateType
  <2>2. rlh_term'[q] <= rlh_term[ri_csn_leader'[q]]
    BY <1>1, <1>3 DEF BeliefsMove, BeliefsTimely
  <2>3. /\ rlh_term'[q] \in Nat /\ rlh_term[ri_csn_leader'[q]] \in Nat
        /\ rlh_term'[ri_csn_leader'[q]] \in Nat
    BY <2>1 DEF TypeOK, HeaderType
  <2>4. rlh_term[ri_csn_leader'[q]] <= rlh_term'[ri_csn_leader'[q]]
    BY <1>1, <2>1 DEF Roles
  <2> QED
    BY <2>2, <2>3, <2>4
<1> QED
  BY <1>2, <1>3 DEF BeliefsTimely
-----------------------------------------------------------------------------
(* Where messages come from *)

\* Reply m of server i says that the entry of request r is stored, or that it
\* does not match.
ReplyOf(m, r) ==
  LET i  == r.dst
      rc == PrepareRc(i, r)
  IN  /\ AppendAccept(r)
      /\ m = AppendReplyTo(i, r, r.leader_term, SyncedAfterAppend(i, r) - 1, FALSE,
                           rc \in {"ERANGE", "EEXIST"}, rc = "OK")

\* Server i reports in m how far it has synced.
UpdateOf(m, i) ==
  /\ SendSyncIdx(i)
  /\ m = [type |-> "SYNC_IDX_UPDATE", src |-> i, dst |-> ri_csn_leader[i],
          term |-> SyncTerm(i), synced_log_index |-> SyncIdx(i)]

\* Leader i sends requests.
Sends(i) == Heartbeat(i) \/ RemoteSend(i)

\* The step that sent m.
Origin(m) ==
  /\ IsRequest(m) => \E i \in Server : Sends(i)
  /\ IsAnswer(m) => \E r \in msgs : ReplyOf(m, r)
  /\ m.type = "SYNC_IDX_UPDATE" => \E i \in Server : UpdateOf(m, i)

\* Only AppendEntrySender sends AE requests, only the handler of requests
\* replies to them, and only followers send sync-idx updates.
LEMMA Origins ==
  ASSUME [Next]_vars, NEW m \in msgs', m \notin msgs
  PROVE  Origin(m)
<1>1. ASSUME m.type \in VoteTypes PROVE Origin(m)
  BY <1>1 DEF Origin, IsRequest, IsAnswer, VoteTypes
<1>2. ASSUME NEW i \in Server, TimerStep(i) \/ LocalStep(i) \/ Restart(i)
      PROVE  Origin(m)
  <2>1. CASE BecomePreVote(i)
    <3> DEFINE out == VoteRequests(i, "PRE_VOTE_REQUEST", SyncIdx(i), SyncTerm(i))
    <3>1. msgs' \subseteq msgs \cup out
      BY <2>1, TransmitAdds DEF BecomePreVote
    <3>2. \A r \in out : r.type \in VoteTypes
      BY DEF VoteRequests, VoteTypes
    <3> HIDE DEF out
    <3> QED
      BY <1>1, <3>1, <3>2
  <2>2. CASE Sends(i)
    <3>1. PICK to \in SUBSET Peers(i), hb \in BOOLEAN : AppendEntrySender(i, to, hb)
      BY <2>2 DEF Sends, Heartbeat, RemoteSend
    <3> DEFINE out == {AppendRequestTo(i, j, hb) : j \in to}
    <3>2. msgs' \subseteq msgs \cup out
      BY <3>1, TransmitAdds DEF AppendEntrySender
    <3>3. \A r \in out : IsRequest(r)
      BY DEF AppendRequestTo, IsRequest
    <3> HIDE DEF out
    <3>4. IsRequest(m)
      BY <3>2, <3>3
    <3> QED
      BY <2>2, <3>4 DEF Origin, IsRequest, IsAnswer
  <2>3. CASE SendSyncIdx(i)
    <3> DEFINE r == [type |-> "SYNC_IDX_UPDATE", src |-> i, dst |-> ri_csn_leader[i],
                     term |-> SyncTerm(i), synced_log_index |-> SyncIdx(i)]
    <3>1. msgs' \subseteq msgs \cup {r}
      BY <2>3, TransmitAdds DEF SendSyncIdx
    <3>2. m = r
      BY <3>1
    <3>3. UpdateOf(m, i)
      BY <2>3, <3>2 DEF UpdateOf
    <3>4. m.type = "SYNC_IDX_UPDATE"
      BY <3>2
    <3> QED
      BY <3>3, <3>4 DEF Origin, IsRequest, IsAnswer
  <2>4. CASE \/ (\E v \in Value : ClientWrite(i, v)) \/ SyncThread(i)
             \/ CommitIdxAdv(i) \/ Restart(i)
    BY <2>4 DEF ClientWrite, SyncThread, CommitIdxAdv, Restart
  <2> QED
    BY <1>2, <2>1, <2>2, <2>3, <2>4 DEF TimerStep, LocalStep, ElectionTimeout,
                                        QuorumLoss, Sends
<1>3. ASSUME NEW r \in msgs, AppendStep(r) \/ SyncStep(r)
      PROVE  Origin(m)
  <2> DEFINE i == r.dst
  <2>1. CASE AppendStale(r)
    <3> DEFINE a == AppendReplyTo(i, r, rlh_term[i], SyncIdx(i), TRUE, FALSE, FALSE)
    <3>1. msgs' \subseteq msgs \cup {a}
      BY <2>1, TransmitAdds DEF AppendStale
    <3>2. a.type = "APPEND_ENTRIES_REPLY" /\ a.err_stale_term
      BY DEF AppendReplyTo
    <3> HIDE DEF a
    <3>3. m = a
      BY <3>1
    <3> QED
      BY <3>2, <3>3 DEF Origin, IsRequest, IsAnswer
  <2>2. CASE AppendAccept(r)
    <3> DEFINE rc == PrepareRc(i, r)
               a == AppendReplyTo(i, r, r.leader_term, SyncedAfterAppend(i, r) - 1,
                                  FALSE, rc \in {"ERANGE", "EEXIST"}, rc = "OK")
    <3>1. msgs' \subseteq msgs \cup {a}
      BY <2>2, TransmitAdds DEF AppendAccept
    <3>2. a.type = "APPEND_ENTRIES_REPLY"
      BY DEF AppendReplyTo
    <3>3. m = a
      BY <3>1
    <3>4. ReplyOf(m, r)
      BY <2>2, <3>3 DEF ReplyOf
    <3> HIDE DEF a
    <3> QED
      BY <3>2, <3>3, <3>4 DEF Origin, IsRequest, IsAnswer
  <2>3. CASE \/ AppendAbort(r) \/ IgnoreAppendReply(r) \/ AppendReplyDeposes(r)
             \/ AppendReplyMismatch(r) \/ AppendReplyOk(r) \/ SyncStep(r)
    BY <2>3 DEF AppendAbort, IgnoreAppendReply, AppendReplyDeposes,
                AppendReplyMismatch, AppendReplyOk, SyncStep,
                ProcessSyncIdxUpdate, IgnoreSyncIdxUpdate
  <2> QED
    BY <1>3, <2>1, <2>2, <2>3 DEF AppendStep
<1>4. ASSUME NEW r \in msgs, VoteStep(r)
      PROVE  Origin(m)
  BY <1>1, <1>4, VoteStepSends
<1>5. ~UNCHANGED vars
  BY DEF vars
<1> QED
  BY <1>2, <1>3, <1>4, <1>5 DEF Next
-----------------------------------------------------------------------------
(* What is known of every state *)

\* The invariants proved so far.
Ground ==
  /\ TypeOK /\ CandidateViable /\ NotAhead /\ ElectionSafety /\ LeadersOwn
  /\ RequestsHeld /\ AnswersHeld /\ RequestsValid
  /\ EntryInv /\ AllAgree /\ RequestsOwned /\ NextIdxBound
  /\ TermsOrdered /\ BeliefsTimely

\* They hold if no vote reply and no AE reply is late.
LEMMA GroundHolds == ~LateVotes /\ ~LateAcks => (Spec => []Ground)
<1> SUFFICES ASSUME ~LateVotes, ~LateAcks PROVE Spec => []Ground
  OBVIOUS
<1>1. Init => TermsOrdered /\ BeliefsTimely
  <2> SUFFICES ASSUME Init PROVE TermsOrdered /\ BeliefsTimely
    OBVIOUS
  <2>1. \A c \in Server : Len(log[c]) = 0 /\ ri_state[c] = "follower"
    BY DEF Init
  <2>2. TermsOrdered
    BY <2>1 DEF Init, TermsOrdered, Ordered
  <2> QED
    BY <2>2 DEF Init, BeliefsTimely
<1>2. RequestsHeld => RequestsValid
  BY DEF RequestsHeld, RequestsValid
<1>3. /\ TypeOK /\ TypeOK' /\ RequestsHeld /\ TermsOrdered /\ BeliefsTimely
      /\ [Next]_vars
      => TermsOrdered' /\ BeliefsTimely'
  BY <1>2, StepTerms, StepBeliefsTimely
<1>4. TypeOK /\ VotesWritten => NotAhead
  BY WrittenVotes
<1>5. /\ Spec => []VotesWritten /\ []ElectionSafety /\ []RequestsOwned
      /\ Spec => [](EntryInv /\ AllAgree) /\ []NextIdxBound
  BY VotesAreWritten, OneLeaderPerTerm, RequestsInvariant, EntriesInvariant,
     NextIdxWithinLog
<1>6. TypeOK /\ VotesWritten => LeadersOwn
  BY LeadersOwnTerms
<1>7. /\ TypeOK /\ CandidateViable /\ NotAhead /\ ElectionSafety /\ LeadersOwn
      /\ RequestsHeld /\ AnswersHeld /\ RequestsValid
      /\ EntryInv /\ AllAgree /\ RequestsOwned /\ NextIdxBound
      /\ TermsOrdered /\ BeliefsTimely
      => Ground
  BY DEF Ground
<1> QED
  BY <1>1, <1>2, <1>3, <1>4, <1>5, <1>6, <1>7, TypeCorrect, CandidatesViable,
     MessagesHeld, PTL DEF Spec-----------------------------------------------------------------------------
(* Votes, requests and the leader's own entries *)

\* No vote is for a candidate that has not reached its term.
VotesBehind ==
  \A v, c \in Server : \A t \in Nat : Backed(v, t, c) => t <= rlh_term[c]

\* Every step keeps votes behind their candidates.
LEMMA StepVotesBehind ==
  ASSUME ~LateVotes, Ground, Ground', VotesBehind, [Next]_vars
  PROVE  VotesBehind'
<1> SUFFICES ASSUME NEW v \in Server, NEW c \in Server, NEW t \in Nat,
                    Backed(v, t, c)'
             PROVE  t <= rlh_term'[c]
  BY DEF VotesBehind
<1>1. TypeOK /\ TypeOK' /\ CandidateViable /\ BeliefsTimely
  BY DEF Ground
<1>2. rlh_term[c] \in Nat /\ rlh_term'[c] \in Nat
  BY <1>1 DEF TypeOK, HeaderType
<1>3. rlh_term[c] <= rlh_term'[c]
  BY <1>1, StepRoles DEF Roles
<1>4. CASE Backed(v, t, c)
  BY <1>2, <1>3, <1>4 DEF VotesBehind
<1>5. CASE ~Backed(v, t, c)
  <2>1. PICK m \in msgs :
           \/ /\ GrantVote(m) /\ m.dst = v /\ m.src = c /\ m.proposed_term = t
              /\ rlh_term[v] < t
           \/ /\ BecomeCandidate(m) /\ m.dst = v /\ c = v /\ t = rlh_term[v] + 1
    BY <1>1, <1>5, VoteCast
  <2>2. CASE GrantVote(m) /\ m.src = c /\ m.proposed_term = t
    <3>1. m.type = "VOTE_REQUEST" /\ Timely(m)
      BY <1>1, <2>2 DEF GrantVote, BeliefsTimely
    <3>2. t <= rlh_term[c]
      BY <2>2, <3>1 DEF Timely
    <3> QED
      BY <1>2, <1>3, <3>2
  <2>3. CASE BecomeCandidate(m) /\ m.dst = c /\ t = rlh_term[c] + 1
    <3>1. rlh_term' = [rlh_term EXCEPT ![c] = rlh_term[c] + 1]
      BY <1>1, <2>3, CandidateBacked
    <3>2. rlh_term'[c] = rlh_term[c] + 1
      BY <1>1, <3>1 DEF TypeOK, HeaderType
    <3> QED
      BY <1>2, <2>3, <3>2
  <2> QED
    BY <2>1, <2>2, <2>3
<1> QED
  BY <1>4, <1>5

\* A leader has at most one request under way to a follower.
OneRequest ==
  \A m, r \in msgs :
    IsRequest(m) /\ IsRequest(r) /\ m.src = r.src /\ m.dst = r.dst => m = r

\* Every step keeps it if no request is overtaken.
LEMMA StepOneRequest ==
  ASSUME ~Overtaking, Ground, OneRequest, [Next]_vars
  PROVE  OneRequest'
<1>1. CASE NoNewRequests
  BY <1>1 DEF OneRequest, NoNewRequests, IsRequest
<1>2. CASE ~NoNewRequests
  <2>1. PICK i \in Server : Sends(i)
    BY <1>2, Origins DEF NoNewRequests, Origin
  <2>2. PICK to \in SUBSET Peers(i), hb \in BOOLEAN : AppendEntrySender(i, to, hb)
    BY <2>1 DEF Sends, Heartbeat, RemoteSend
  <2> DEFINE out == {AppendRequestTo(i, j, hb) : j \in to}
  <2>3. \A m \in msgs' : m \in out \/ (m \in msgs /\ m \notin Overtaken(i, to))
    BY <2>2 DEF AppendEntrySender, Transmit
  <2>4. \A m \in out : m.src = i /\ m.dst \in to /\ m = AppendRequestTo(i, m.dst, hb)
    BY DEF AppendRequestTo
  <2> HIDE DEF out
  <2>5. \A m \in msgs : IsRequest(m) /\ m.src = i /\ m.dst \in to
                          => m \in Overtaken(i, to)
    BY DEF Overtaken, IsRequest
  <2> SUFFICES ASSUME NEW m \in msgs', NEW r \in msgs', IsRequest(m), IsRequest(r),
                      m.src = r.src, m.dst = r.dst
               PROVE  m = r
    BY DEF OneRequest, IsRequest
  <2>6. CASE m \in out \/ r \in out
    BY <2>3, <2>4, <2>5, <2>6
  <2>7. CASE m \notin out /\ r \notin out
    BY <2>3, <2>7 DEF OneRequest
  <2> QED
    BY <2>6, <2>7
<1> QED
  BY <1>1, <1>2

\* A sync-idx update has the term of an entry, which was won.
UpdatesOwned ==
  \A m \in msgs : m.type = "SYNC_IDX_UPDATE" /\ m.term >= 1 =>
    \E o \in Server : Owner(m.term, o)

\* Every step keeps it.
LEMMA StepUpdatesOwned ==
  ASSUME ~LateVotes, Ground, Ground', UpdatesOwned, [Next]_vars
  PROVE  UpdatesOwned'
<1>1. TypeOK /\ TypeOK' /\ CandidateViable /\ EntriesOwned /\ EntriesTyped
  BY EntriesAreTyped DEF Ground, EntryInv
<1> SUFFICES ASSUME NEW m \in msgs', m.type = "SYNC_IDX_UPDATE", m.term >= 1
             PROVE  \E o \in Server : Owner(m.term, o)'
  BY DEF UpdatesOwned
<1>2. \E o \in Server : Owner(m.term, o)
  <2>1. CASE m \in msgs
    BY <2>1 DEF UpdatesOwned
  <2>2. CASE m \notin msgs
    <3>1. PICK i \in Server : UpdateOf(m, i)
      BY <2>2, Origins DEF Origin
    <3>2. m.term = SyncTerm(i)
      BY <3>1 DEF UpdateOf
    <3> DEFINE s == synced[i]
    <3>3. s \in Nat /\ s <= Len(log[i])
      BY <1>1 DEF TypeOK, LogType
    <3>4. s >= 1 /\ SyncTerm(i) = log[i][s].term
      <4>1. CASE s = 0
        <5>1. SyncTerm(i) = 0
          BY <1>1, <4>1 DEF SyncTerm, SyncIdx, EntryAt, NullEntry, LastIdx, EntriesTyped
        <5> QED
          BY <3>2, <5>1
      <4>2. CASE s # 0
        <5>1. s - 1 \in 0 .. LastIdx(log[i]) /\ (s - 1) + 1 = s
          BY <1>1, <3>3, <4>2 DEF LastIdx, EntriesTyped
        <5> QED
          BY <3>3, <4>2, <5>1 DEF SyncTerm, SyncIdx, EntryAt
      <4> QED
        BY <4>1, <4>2
    <3>5. Logged(s, log[i][s])
      BY <1>1, <3>3, <3>4 DEF Logged, EntriesTyped
    <3>6. \E o \in Server : Owner(log[i][s].term, o)
      BY <1>1, <3>3, <3>5 DEF EntriesOwned
    <3> QED
      BY <3>2, <3>4, <3>6
  <2> QED
    BY <2>1, <2>2
<1>3. PICK t : t = m.term
  OBVIOUS
<1>4. PICK o \in Server : Owner(t, o)
  BY <1>2, <1>3
<1>5. Owner(t, o)'
  BY <1>1, <1>4, OwnerKept
<1> QED
  BY <1>3, <1>5

\* The entries of a leader's term are those past its initial index, in every
\* log and in every request.
LeaderTail ==
  \A i \in Server : ri_state[i] = "leader" =>
    LET b == rls_initial_term_idx[i] + 1 IN
    /\ b \in Nat /\ b < Len(log[i])
    /\ \A k \in 1 .. Len(log[i]) : k > b => log[i][k].term = rlh_term[i]
    /\ \A n \in Nat : \A e : Logged(n, e) /\ e.term = rlh_term[i] => n > b

\* A leadership that goes on keeps its term, its log and its initial index.
LEMMA LeaderSteady ==
  ASSUME Ground, Ground', [Next]_vars, NEW i \in Server, ri_state[i] = "leader",
         ri_state'[i] = "leader"
  PROVE  /\ rlh_term'[i] = rlh_term[i]
         /\ rls_initial_term_idx'[i] = rls_initial_term_idx[i]
         /\ Grows(log[i], log'[i])
<1>1. TypeOK /\ TypeOK' /\ RequestsValid /\ NoRival
  BY OwnersHaveNoRival DEF Ground
<1>2. Grows(log[i], log'[i])
  BY <1>1, StepLogs DEF LeaderGrows, Grows
<1>3. rlh_term'[i] = rlh_term[i]
  BY <1>1, StepRoles DEF Roles
<1>4. CASE \E m \in msgs : BecomeLeader(m)
  <2>1. PICK m \in msgs : BecomeLeader(m)
    BY <1>4
  <2>2. m.dst # i
    BY <2>1 DEF BecomeLeader, Relevant
  <2>3. rls_initial_term_idx'[i] = rls_initial_term_idx[i]
    BY <1>1, <2>1, <2>2 DEF BecomeLeader, TypeOK, LeaderType
  <2> QED
    BY <1>2, <1>3, <2>3
<1>5. CASE ~ \E m \in msgs : BecomeLeader(m)
  BY <1>1, <1>2, <1>3, <1>5, StepTally DEF TallyMoves
<1> QED
  BY <1>4, <1>5

\* A leader's log only ever gets entries of its term.
LEMMA TailGrows ==
  ASSUME Ground, Ground', LeaderTail, [Next]_vars, NEW i \in Server,
         ri_state[i] = "leader", ri_state'[i] = "leader", NEW k \in Nat,
         Len(log[i]) <= k, 1 <= k, k <= Len(log'[i])
  PROVE  log'[i][k].term = rlh_term[i]
<1>1. /\ TypeOK /\ TypeOK' /\ TermsOrdered'
      /\ EntriesTyped /\ EntriesTyped'
  BY EntriesAreTyped, PTL DEF Ground
<1>2. Grows(log[i], log'[i]) /\ rlh_term'[i] = rlh_term[i]
  BY LeaderSteady
<1> DEFINE len == Len(log[i])
           b == rls_initial_term_idx[i] + 1
<1>3. len \in Nat /\ b \in Nat /\ b < len
  BY <1>1 DEF EntriesTyped, LeaderTail
<1>4. len \in 1 .. Len(log[i]) /\ len > b
  BY <1>3
<1>5. log[i][len].term = rlh_term[i]
  BY <1>4 DEF LeaderTail
<1>6. log'[i][len] = log[i][len]
  BY <1>2, <1>4 DEF Grows
<1>7. len \in 1 .. Len(log'[i]) /\ k \in len .. Len(log'[i]) /\ k \in 1 .. Len(log'[i])
  BY <1>1, <1>3 DEF EntriesTyped
<1>8. Ordered(log'[i], rlh_term'[i])
  BY <1>1 DEF TermsOrdered
<1>9. log'[i][len].term <= log'[i][k].term /\ log'[i][k].term <= rlh_term'[i]
  BY <1>7, <1>8 DEF Ordered
<1>10. log'[i][k].term \in Nat /\ rlh_term[i] \in Nat
  BY <1>1, <1>7 DEF EntriesTyped
<1> QED
  BY <1>2, <1>5, <1>6, <1>9, <1>10

\* Every step keeps the entries of a leader's term past its initial index.
LEMMA StepLeaderTail ==
  ASSUME ~LateVotes, Ground, Ground', LeaderTail, [Next]_vars
  PROVE  LeaderTail'
<1>1. /\ TypeOK /\ TypeOK' /\ EntriesTyped /\ EntriesTyped'
      /\ CandidateViable /\ EntriesOwned /\ OneEntry /\ RequestsValid
      /\ LeadersOwn' /\ ElectionSafety'
  BY EntriesAreTyped, PTL DEF Ground, EntryInv
<1>2. EntriesMove /\ Roles
  BY <1>1, StepEntries, StepRoles
<1> SUFFICES ASSUME NEW i \in Server, ri_state'[i] = "leader"
             PROVE  LET b == rls_initial_term_idx'[i] + 1 IN
                    /\ b \in Nat /\ b < Len(log'[i])
                    /\ \A k \in 1 .. Len(log'[i]) :
                         k > b => log'[i][k].term = rlh_term'[i]
                    /\ \A n \in Nat : \A e :
                         Logged(n, e)' /\ e.term = rlh_term'[i] => n > b
  BY DEF LeaderTail
<1>3. rlh_term'[i] = rlh_term[i] /\ Len(log[i]) \in Nat /\ Len(log'[i]) \in Nat
  BY <1>1, <1>2 DEF Roles, EntriesTyped
<1>4. ASSUME NEW j \in Server, NEW n \in Nat, NEW e, Wrote(j, n, e),
             e.term = rlh_term'[i]
      PROVE  j = i /\ n = Len(log[i]) + 1
  <2>1. ri_state'[j] = "leader" /\ n = Len(log[j]) + 1 /\ e.term = rlh_term[j]
    BY <1>4 DEF Wrote
  <2>2. rlh_term'[j] = rlh_term[j]
    BY <1>2, <2>1 DEF Roles
  <2> QED
    BY <1>1, <1>4, <2>1, <2>2 DEF ElectionSafety
<1>5. CASE ri_state[i] = "leader"
  <2> DEFINE b == rls_initial_term_idx[i] + 1
  <2>1. rls_initial_term_idx'[i] = rls_initial_term_idx[i] /\ Grows(log[i], log'[i])
    BY <1>5, LeaderSteady
  <2>2. b \in Nat /\ b < Len(log[i])
    BY <1>5 DEF LeaderTail
  <2>3. b < Len(log'[i])
    BY <1>3, <2>1, <2>2 DEF Grows
  <2>4. ASSUME NEW k \in 1 .. Len(log'[i]), k > b
        PROVE  log'[i][k].term = rlh_term'[i]
    <3>1. CASE k <= Len(log[i])
      <4>1. k \in 1 .. Len(log[i])
        BY <1>3, <3>1
      <4>2. log[i][k].term = rlh_term[i]
        BY <1>5, <2>4, <4>1 DEF LeaderTail
      <4> QED
        BY <1>3, <2>1, <4>1, <4>2 DEF Grows
    <3>2. CASE k > Len(log[i])
      <4>1. k \in Nat /\ Len(log[i]) <= k /\ 1 <= k /\ k <= Len(log'[i])
        BY <1>3, <3>2
      <4> QED
        BY <1>3, <1>5, <4>1, TailGrows
    <3> QED
      BY <1>3, <3>1, <3>2
  <2>5. ASSUME NEW n \in Nat, NEW e, Logged(n, e)', e.term = rlh_term'[i]
        PROVE  n > b
    <3>1. CASE Logged(n, e)
      BY <1>3, <1>5, <2>5, <3>1 DEF LeaderTail
    <3>2. CASE \E j \in Server : Wrote(j, n, e)
      <4>1. n = Len(log[i]) + 1
        BY <1>4, <2>5, <3>2
      <4> QED
        BY <1>3, <2>2, <4>1
    <3> QED
      BY <1>2, <2>5, <3>1, <3>2 DEF EntriesMove
  <2> HIDE DEF b
  <2>6. rls_initial_term_idx'[i] + 1 = b
    BY <2>1 DEF b
  <2> QED
    BY <2>2, <2>3, <2>4, <2>5, <2>6
<1>6. CASE ri_state[i] # "leader"
  <2>1. PICK m \in msgs : BecomeLeader(m) /\ m.dst = i
    BY <1>1, <1>6, LeadersAreElected
  <2>2. ri_state[i] = "candidate"
    BY <2>1 DEF BecomeLeader, Relevant
  <2> DEFINE b == Len(log[i])
  <2>3. synced[i] = b
    BY <1>1, <2>2 DEF CandidateViable
  <2>4. rls_initial_term_idx'[i] = synced[i] - 1
    BY <1>1, <2>1 DEF BecomeLeader, SyncIdx, TypeOK, LeaderType
  <2>5. rls_initial_term_idx'[i] + 1 = b
    BY <1>3, <2>3, <2>4
  <2>6. log'[i] = Append(log[i], [term |-> rlh_term[i], data |-> Marker])
    BY <1>1, <2>1 DEF BecomeLeader, TypeOK, LogType
  <2>7. Len(log'[i]) = b + 1 /\ log'[i][b + 1].term = rlh_term[i]
    <3> DEFINE e == [term |-> rlh_term[i], data |-> Marker]
    <3>1. e.term = rlh_term[i]
      OBVIOUS
    <3>2. e \in Entry
      BY <1>1 DEF Entry, EntriesTyped
    <3> HIDE DEF e
    <3>3. log[i] \in Seq(Entry) /\ log'[i] = Append(log[i], e)
      BY <1>1, <2>6 DEF e, EntriesTyped
    <3>4. Len(log'[i]) = b + 1 /\ log'[i][b + 1] = e
      BY <3>2, <3>3
    <3> QED
      BY <3>1, <3>4
  <2>8. ASSUME NEW n \in Nat, NEW e, Logged(n, e)', e.term = rlh_term'[i]
        PROVE  n > b
    <3>1. CASE Logged(n, e)
      BY <1>1, <1>3, <2>2, <2>8, <3>1, NewTermEmpty
    <3>2. CASE \E j \in Server : Wrote(j, n, e)
      <4>1. n = Len(log[i]) + 1
        BY <1>4, <2>8, <3>2
      <4> QED
        BY <1>3, <4>1
    <3> QED
      BY <1>2, <2>8, <3>1, <3>2 DEF EntriesMove
  <2>9. ASSUME NEW k \in 1 .. Len(log'[i]), k > b
        PROVE  log'[i][k].term = rlh_term'[i]
    <3>1. k = b + 1
      BY <1>3, <2>7, <2>9
    <3> QED
      BY <1>3, <2>7, <3>1
  <2>10. b \in Nat /\ b < Len(log'[i])
    BY <1>3, <2>7
  <2> HIDE DEF b
  <2> QED
    BY <2>5, <2>8, <2>9, <2>10
<1> QED
  BY <1>5, <1>6

\* Log L has no entry of term t at place k.
Lacks(L, k, t) == k > Len(L) \/ L[k].term # t

\* Request m of leader i still describes the log of i.  A heartbeat may have a
\* cached term in it, but only if its receiver has nothing of the leader's term
\* in that place.
Mirrors(m, i) ==
  LET n == m.prev_log_index + 1
      j == m.dst
  IN
  /\ n \in Nat /\ n <= Len(log[i])
  /\ n >= 1 => m.prev = log[i][n]
  /\ ~m.heartbeat => /\ n + 1 <= Len(log[i])
                     /\ log[i][n + 1] = [term |-> m.log_term, data |-> m.data]
  /\ m.heartbeat /\ m.log_term > 0 =>
       \/ n + 1 <= Len(log[i]) /\ log[i][n + 1].term = m.log_term
       \/ /\ \A k \in n + 1 .. Len(log[i]) : log[i][k].term = rlh_term[i]
          /\ rlh_term[j] <= rlh_term[i] => Lacks(log[j], n + 1, rlh_term[i])

\* The requests of a leadership that goes on describe its log.
OwnRequests ==
  \A m \in msgs :
    IsRequest(m) /\ ri_state[m.src] = "leader" /\ m.leader_term = rlh_term[m.src]
      => Mirrors(m, m.src)

\* A request describes its sender's log when it is sent.
LEMMA SentDescribes ==
  ASSUME Ground, Ground', LeaderTail, [Next]_vars, NEW m \in msgs', m \notin msgs,
         IsRequest(m), ri_state'[m.src] = "leader"
  PROVE  Mirrors(m, m.src)'
<1>1. /\ TypeOK /\ TypeOK' /\ EntriesTyped /\ EntriesTyped'
      /\ RequestsValid /\ NextIdxBound /\ LeaderHasAll'
  BY EntriesAreTyped, PTL DEF Ground, EntryInv
<1>2. Sent(m)
  BY <1>1, StepMessages DEF NewRequests
<1>3. m.src \in Server /\ m.dst \in Server /\ m.prev_log_index \in Int
  BY <1>1, RequestFields DEF TypeOK, NetworkType
<1>4. PICK i \in Server : i = m.src
  BY <1>3
<1>5. PICK j \in Server : j = m.dst
  BY <1>3
<1>6. PICK n \in Int : n = m.prev_log_index + 1
  BY <1>3
<1>7. ri_state[i] = "leader" /\ n = rfi_next_idx[i][j] /\ j # i
  BY <1>2, <1>4, <1>5, <1>6 DEF Sent
<1>8. n \in Nat /\ n <= Len(log[i])
  BY <1>1, <1>7 DEF NextIdxBound, Peers, EntriesTyped
<1>9. \A c \in Server : Shorter(c)
  BY <1>1, StepLogs DEF LogsMove, NoNewRequests
<1>10. Grows(log[i], log'[i])
  BY <1>4, <1>7, LeaderSteady
<1>11. Len(log'[i]) = Len(log[i]) /\ \A k \in 1 .. Len(log[i]) : log'[i][k] = log[i][k]
  BY <1>1, <1>9, <1>10 DEF Shorter, Grows, EntriesTyped
<1>12. Len(log[i]) \in Nat
  BY <1>1 DEF EntriesTyped
<1>13. n >= 1 => m.prev = log'[i][n]
  BY <1>2, <1>4, <1>6, <1>8, <1>11, <1>12 DEF Sent
<1>14. n + 1 <= Len(log[i]) => m.log_term = log'[i][n + 1].term
  BY <1>2, <1>4, <1>6, <1>8, <1>11, <1>12 DEF Sent
<1>15. ~m.heartbeat => /\ n + 1 <= Len(log'[i])
                       /\ log'[i][n + 1] = [term |-> m.log_term, data |-> m.data]
  BY <1>2, <1>4, <1>6, <1>8, <1>11, <1>12 DEF Sent
<1>16. \/ n + 1 <= Len(log'[i]) /\ log'[i][n + 1].term = m.log_term
       \/ /\ \A k \in n + 1 .. Len(log'[i]) : log'[i][k].term = rlh_term'[i]
          /\ Lacks(log'[j], n + 1, rlh_term'[i])
  <2>1. CASE n + 1 <= Len(log[i])
    BY <1>11, <1>14, <2>1
  <2>2. CASE n = Len(log[i])
    <3>1. \A k \in n + 1 .. Len(log'[i]) : FALSE
      BY <1>11, <1>12, <2>2
    <3>2. ASSUME n + 1 <= Len(log'[j]), log'[j][n + 1].term = rlh_term'[i]
          PROVE  FALSE
      <4>1. Len(log'[j]) \in Nat
        BY <1>1 DEF EntriesTyped
      <4>2. n + 1 \in 1 .. Len(log'[j]) /\ n + 1 \in Nat
        BY <1>8, <3>2, <4>1
      <4>3. PICK e : e = log'[j][n + 1]
        OBVIOUS
      <4>4. Logged(n + 1, e)'
        BY <4>2, <4>3 DEF Logged
      <4>5. n + 1 <= Len(log'[i])
        BY <1>1, <1>4, <3>2, <4>2, <4>3, <4>4 DEF LeaderHasAll
      <4> QED
        BY <1>11, <1>12, <2>2, <4>5
    <3>3. n + 1 > Len(log'[j]) \/ n + 1 <= Len(log'[j])
      <4>1. Len(log'[j]) \in Nat
        BY <1>1 DEF EntriesTyped
      <4> QED
        BY <1>8, <4>1
    <3> QED
      BY <3>1, <3>2, <3>3 DEF Lacks
  <2> QED
    BY <1>8, <1>12, <2>1, <2>2
<1>17. n \in Nat /\ n <= Len(log'[i])
  BY <1>8, <1>11
<1> QED
  BY <1>4, <1>5, <1>6, <1>13, <1>15, <1>16, <1>17 DEF Mirrors

\* No entry of the leader's term reaches a follower that has a heartbeat of
\* that leader to read.
LEMMA LacksKept ==
  ASSUME Ground, Ground', OneRequest, [Next]_vars, NEW m \in msgs, IsRequest(m),
         m.heartbeat, NEW i \in Server, m.src = i, ri_state[i] = "leader",
         ri_state'[i] = "leader", NEW j \in Server, m.dst = j,
         rlh_term'[j] <= rlh_term[i], NEW k \in Nat, k >= 1,
         Lacks(log[j], k, rlh_term[i])
  PROVE  Lacks(log'[j], k, rlh_term[i])
<1>1. /\ TypeOK /\ TypeOK' /\ EntriesTyped /\ EntriesTyped' /\ RequestsValid
      /\ RequestsHeld /\ TermsOrdered /\ RequestsOwned /\ LeadersOwn
      /\ ElectionSafety'
  BY EntriesAreTyped, PTL DEF Ground
<1>2. LogsMove /\ Roles
  BY <1>1, StepLogs, StepRoles
<1>3. i # j
  BY <1>1 DEF RequestsHeld
<1>4. Len(log[j]) \in Nat /\ Len(log'[j]) \in Nat
  BY <1>1 DEF EntriesTyped
<1> SUFFICES ASSUME k <= Len(log'[j]), log'[j][k].term = rlh_term[i]
             PROVE  FALSE
  BY <1>4 DEF Lacks
<1>5. ~(k <= Len(log[j]) /\ log'[j][k] = log[j][k])
  BY <1>4 DEF Lacks
<1>6. CASE Shorter(j)
  BY <1>4, <1>5, <1>6 DEF Shorter
<1>7. CASE Own(j)
  <2>1. PICK e \in Entry : e.term = rlh_term[j] /\ Extended(j, Len(log[j]), e)
    BY <1>7 DEF Own
  <2>2. k = Len(log[j]) + 1 /\ log'[j][k].term = rlh_term[j]
    BY <1>4, <1>5, <2>1 DEF Extended
  <2>3. ri_state'[j] = "leader"
    BY <1>7 DEF Own
  <2>4. rlh_term'[j] = rlh_term[j] /\ rlh_term'[i] = rlh_term[i]
    BY <1>2, <2>3 DEF Roles
  <2> QED
    BY <1>1, <1>3, <2>2, <2>3, <2>4 DEF ElectionSafety
<1>8. ASSUME NEW r \in msgs, Copied(r), r.dst = j
      PROVE  FALSE
  <2>1. /\ IsRequest(r) /\ ~r.heartbeat /\ rlh_term'[j] = r.leader_term
        /\ Extended(j, r.prev_log_index + 1, [term |-> r.log_term, data |-> r.data])
    BY <1>8 DEF Copied
  <2>2. r.src \in Server /\ r.leader_term \in Nat /\ r.log_term \in Int
    BY <1>1, <2>1, RequestNumbers
  <2>3. log'[j][k].term = r.log_term
    <3> DEFINE p == r.prev_log_index + 1
               e == [term |-> r.log_term, data |-> r.data]
    <3>0. e.term = r.log_term
      OBVIOUS
    <3> HIDE DEF p, e
    <3>1. /\ p \in 0 .. Len(log[j]) /\ Len(log'[j]) = p + 1 /\ log'[j][p + 1] = e
          /\ \A x \in 1 .. p : log'[j][x] = log[j][x]
      BY <2>1 DEF Extended, p, e
    <3>2. k = p + 1
      BY <1>4, <1>5, <3>1
    <3> QED
      BY <3>0, <3>1, <3>2
  <2>4. r.log_term <= r.leader_term
    BY <1>1, <2>1 DEF TermsOrdered
  <2>5. rlh_term[i] \in Nat
    BY <1>1 DEF EntriesTyped
  <2>6. r.leader_term = rlh_term[i]
    BY <2>1, <2>2, <2>3, <2>4, <2>5
  <2>7. r.src = i
    BY <1>1, <2>1, <2>2, <2>6 DEF RequestsOwned, LeadersOwn
  <2>8. r = m
    BY <1>8, <2>1, <2>7 DEF OneRequest
  <2> QED
    BY <2>1, <2>8
<1>9. ASSUME NEW c \in Server, Others(c), c # j
      PROVE  Shorter(j)
  BY <1>1, <1>9, SameIsShorter DEF Others
<1>10. ASSUME NEW r \in msgs, Copied(r)
      PROVE  Others(r.dst) /\ r.dst \in Server
  BY <1>1, <1>10, RequestNumbers DEF Copied
<1> QED
  BY <1>2, <1>6, <1>7, <1>8, <1>9, <1>10 DEF LogsMove, Own

\* Requests go on describing the log of a leader that grows.
LEMMA MirrorKept ==
  ASSUME Ground, Ground', LeaderTail, OneRequest, [Next]_vars, NEW m \in msgs,
         IsRequest(m), NEW i \in Server, m.src = i, ri_state[i] = "leader",
         ri_state'[i] = "leader", Mirrors(m, i)
  PROVE  Mirrors(m, i)'
<1>1. TypeOK /\ TypeOK' /\ EntriesTyped /\ EntriesTyped'
  BY EntriesAreTyped, PTL DEF Ground
<1>2. m.dst \in Server /\ m.prev_log_index \in Int
  BY <1>1, RequestNumbers
<1>3. PICK j \in Server : j = m.dst
  BY <1>2
<1>4. PICK n \in Int : n = m.prev_log_index + 1
  BY <1>2
<1>5. /\ n \in Nat /\ n <= Len(log[i]) /\ (n >= 1 => m.prev = log[i][n])
      /\ ~m.heartbeat => /\ n + 1 <= Len(log[i])
                         /\ log[i][n + 1] = [term |-> m.log_term, data |-> m.data]
      /\ m.heartbeat /\ m.log_term > 0 =>
           \/ n + 1 <= Len(log[i]) /\ log[i][n + 1].term = m.log_term
           \/ /\ \A k \in n + 1 .. Len(log[i]) : log[i][k].term = rlh_term[i]
              /\ rlh_term[j] <= rlh_term[i] => Lacks(log[j], n + 1, rlh_term[i])
  BY <1>3, <1>4 DEF Mirrors
<1>6. /\ Len(log[i]) \in Nat /\ Len(log'[i]) \in Nat /\ Len(log[i]) <= Len(log'[i])
      /\ \A k \in 1 .. Len(log[i]) : log'[i][k] = log[i][k]
      /\ rlh_term'[i] = rlh_term[i]
  BY <1>1, LeaderSteady DEF Grows, EntriesTyped
<1>7. n >= 1 => m.prev = log'[i][n]
  BY <1>5, <1>6
<1>8. n + 1 <= Len(log[i]) => n + 1 <= Len(log'[i]) /\ log'[i][n + 1] = log[i][n + 1]
  BY <1>5, <1>6
<1>9. ~m.heartbeat => /\ n + 1 <= Len(log'[i])
                      /\ log'[i][n + 1] = [term |-> m.log_term, data |-> m.data]
  BY <1>5, <1>8
<1>10. ASSUME m.heartbeat, m.log_term > 0
       PROVE  \/ n + 1 <= Len(log'[i]) /\ log'[i][n + 1].term = m.log_term
              \/ /\ \A k \in n + 1 .. Len(log'[i]) : log'[i][k].term = rlh_term'[i]
                 /\ rlh_term'[j] <= rlh_term'[i]
                      => Lacks(log'[j], n + 1, rlh_term'[i])
  <2>1. CASE n + 1 <= Len(log[i]) /\ log[i][n + 1].term = m.log_term
    BY <1>8, <2>1
  <2>2. CASE /\ \A k \in n + 1 .. Len(log[i]) : log[i][k].term = rlh_term[i]
             /\ rlh_term[j] <= rlh_term[i] => Lacks(log[j], n + 1, rlh_term[i])
    <3>1. ASSUME NEW k \in n + 1 .. Len(log'[i])
          PROVE  log'[i][k].term = rlh_term'[i]
      <4>1. CASE k <= Len(log[i])
        <5>1. k \in n + 1 .. Len(log[i]) /\ k \in 1 .. Len(log[i])
          BY <1>5, <1>6, <4>1
        <5> QED
          BY <1>6, <2>2, <5>1
      <4>2. CASE k > Len(log[i])
        <5>1. k \in Nat /\ Len(log[i]) <= k /\ 1 <= k /\ k <= Len(log'[i])
          BY <1>5, <1>6, <4>2
        <5> QED
          BY <1>6, <5>1, TailGrows
      <4> QED
        BY <1>5, <1>6, <4>1, <4>2
    <3>2. ASSUME rlh_term'[j] <= rlh_term'[i]
          PROVE  Lacks(log'[j], n + 1, rlh_term'[i])
      <4>1. rlh_term[j] <= rlh_term'[j]
        BY <1>1, StepRoles DEF Roles
      <4>2. /\ rlh_term[j] \in Nat /\ rlh_term'[j] \in Nat /\ rlh_term[i] \in Nat
            /\ n + 1 \in Nat /\ n + 1 >= 1
        BY <1>1, <1>5 DEF EntriesTyped
      <4>3. rlh_term[j] <= rlh_term[i] /\ rlh_term'[j] <= rlh_term[i]
        BY <1>6, <3>2, <4>1, <4>2
      <4>4. Lacks(log[j], n + 1, rlh_term[i])
        BY <2>2, <4>3
      <4>5. Lacks(log'[j], n + 1, rlh_term[i])
        BY <1>3, <1>10, <4>2, <4>3, <4>4, LacksKept
      <4> QED
        BY <1>6, <4>5
    <3> QED
      BY <3>1, <3>2
  <2> QED
    BY <1>5, <1>10, <2>1, <2>2
<1>11. n \in Nat /\ n <= Len(log'[i])
  BY <1>5, <1>6
<1> QED
  BY <1>3, <1>4, <1>7, <1>9, <1>10, <1>11 DEF Mirrors

\* Every step keeps what the requests of a leader say of its log.
LEMMA StepOwnRequests ==
  ASSUME Ground, Ground', LeaderTail, OneRequest, OwnRequests, [Next]_vars
  PROVE  OwnRequests'
<1>1. TypeOK /\ TypeOK' /\ RequestsHeld
  BY DEF Ground
<1>2. Roles
  BY <1>1, StepRoles
<1> SUFFICES ASSUME NEW m \in msgs', IsRequest(m), ri_state'[m.src] = "leader",
                    m.leader_term = rlh_term'[m.src]
             PROVE  Mirrors(m, m.src)'
  BY DEF OwnRequests, IsRequest
<1>3. CASE m \notin msgs
  BY <1>3, SentDescribes
<1>4. CASE m \in msgs
  <2>1. PICK i \in Server : i = m.src
    BY <1>1, <1>4, RequestNumbers
  <2>2. ri_state[i] \in {"candidate", "leader"} /\ rlh_term'[i] = rlh_term[i]
    BY <1>2, <2>1 DEF Roles
  <2>3. ri_state[i] = "leader"
    BY <1>1, <1>4, <2>1, <2>2 DEF RequestsHeld, Held
  <2>4. Mirrors(m, i)
    BY <1>4, <2>1, <2>2, <2>3 DEF OwnRequests
  <2>5. Mirrors(m, i)'
    BY <1>4, <2>1, <2>3, <2>4, MirrorKept
  <2> QED
    BY <2>1, <2>5
<1> QED
  BY <1>3, <1>4

\* What the votes, the requests and the sync-idx updates still say.
Traces ==
  VotesBehind /\ OneRequest /\ UpdatesOwned /\ LeaderTail /\ OwnRequests

\* Every step keeps these.
LEMMA StepTraces ==
  ASSUME ~LateVotes, ~Overtaking, Ground, Ground', Traces, [Next]_vars
  PROVE  Traces'
<1>1. VotesBehind /\ OneRequest /\ UpdatesOwned /\ LeaderTail /\ OwnRequests
  BY DEF Traces
<1>2. VotesBehind' /\ OneRequest' /\ UpdatesOwned' /\ LeaderTail' /\ OwnRequests'
  BY <1>1, StepVotesBehind, StepOneRequest, StepUpdatesOwned, StepLeaderTail,
     StepOwnRequests
<1> QED
  BY <1>2 DEF Traces

\* They hold at the start, when nobody leads and nothing is sent.
LEMMA InitTraces == Init => Traces
<1> SUFFICES ASSUME Init PROVE Traces
  OBVIOUS
<1>1. \A c \in Server : /\ ri_state[c] = "follower" /\ rlh_voted_for[c] = None
                        /\ rlh_term[c] = 0
  BY DEF Init
<1>2. msgs = {}
  BY DEF Init
<1>3. VotesBehind
  BY <1>1, <1>2, ServerAssumption DEF VotesBehind, Backed
<1> QED
  BY <1>1, <1>2, <1>3 DEF Traces, OneRequest, UpdatesOwned, LeaderTail, OwnRequests-----------------------------------------------------------------------------
(* What followers report *)

\* Message m tells leader i that server q has synced n entries.
Counts(m, i, q, n) ==
  /\ m.src = q /\ m.dst = i
  /\ \/ IsAnswer(m) /\ ~m.err_non_matching /\ m.leader_term = rlh_term[i]
     \/ m.type = "SYNC_IDX_UPDATE" /\ m.term = rlh_term[i]
  /\ n <= m.synced_log_index + 1

\* Leader i knows, or is going to hear, that q has synced n entries.
Reported(i, q, n) ==
  \/ n <= rfi_synced_idx[i][q] + 1
  \/ \E m \in msgs : Counts(m, i, q, n)

\* Server q acknowledges a request of i, or tells i what it has synced.
Acks(i, q, n) ==
  /\ \E r \in msgs : /\ AppendAccept(r) /\ r.dst = q /\ r.src = i
                     /\ r.leader_term = rlh_term[i] /\ PrepareRc(q, r) = "OK"
  /\ n <= synced'[q]

\* Server q tells its leader i in a sync-idx update what it has synced.
Tells(i, q, n) ==
  /\ SendSyncIdx(q) /\ ri_csn_leader[q] = i /\ SyncTerm(q) = rlh_term[i]
  /\ n <= synced[q]

\* How the leader's table of synced indices moves.
LEMMA UpdateSynced ==
  ASSUME TypeOK, NEW i \in Server, NEW j \in Server, NEW next \in Int,
         NEW sli \in Int, NEW term, TryUpdateFollowerSyncIdx(i, j, next, term, sli)
  PROVE  \A c, q \in Server :
           \/ rfi_synced_idx'[c][q] = rfi_synced_idx[c][q]
           \/ c = i /\ q = j /\ rfi_synced_idx'[c][q] = sli
<1> SUFFICES ASSUME NEW c \in Server, NEW q \in Server
             PROVE  \/ rfi_synced_idx'[c][q] = rfi_synced_idx[c][q]
                    \/ c = i /\ q = j /\ rfi_synced_idx'[c][q] = sli
  OBVIOUS
<1> DEFINE accept == term = SyncTerm(i) /\ rfi_synced_idx[i][j] <= next
           syncd == IF accept
                    THEN [rfi_synced_idx[i] EXCEPT ![j] = Max2(@, sli)]
                    ELSE rfi_synced_idx[i]
<1>1. rfi_synced_idx[i] \in [Server -> Int]
  BY DEF TypeOK, LeaderType
<1>2. syncd[q] = rfi_synced_idx[i][q] \/ (q = j /\ syncd[q] = sli)
  BY <1>1 DEF Max2
<1>3. rfi_synced_idx' = [rfi_synced_idx EXCEPT ![i] = syncd]
  BY DEF TryUpdateFollowerSyncIdx
<1> HIDE DEF syncd
<1> QED
  BY <1>2, <1>3 DEF TypeOK, LeaderType

\* A leader counts what a message has told it.
LEMMA StepTable ==
  ASSUME ~LateAcks, TypeOK, [Next]_vars, NEW i \in Server, ri_state[i] = "leader",
         NEW q \in Server, NEW n \in Nat, n <= rfi_synced_idx'[i][q] + 1
  PROVE  Reported(i, q, n)
<1>1. ASSUME rfi_synced_idx'[i][q] = rfi_synced_idx[i][q]
      PROVE  Reported(i, q, n)
  BY <1>1 DEF Reported
<1>2. ASSUME NEW c \in Server, TimerStep(c) \/ LocalStep(c) \/ Restart(c)
      PROVE  rfi_synced_idx' = rfi_synced_idx
  BY <1>2 DEF TimerStep, ElectionTimeout, QuorumLoss, BecomePreVote, Heartbeat,
     AppendEntrySender, LocalStep, RemoteSend, ClientWrite, SyncThread, SendSyncIdx,
     CommitIdxAdv, Restart, rfiVars
<1>3. ASSUME NEW m \in msgs,
             \/ ProcessPreVoteRequest(m) \/ GrantVote(m) \/ RefuseVote(m)
             \/ IgnoreVoteReply(m) \/ RegisterVote(m) \/ VoteReplyDeposes(m)
             \/ BecomeCandidate(m) \/ AppendStale(m) \/ AppendAccept(m)
             \/ AppendAbort(m) \/ IgnoreAppendReply(m) \/ AppendReplyDeposes(m)
             \/ AppendReplyMismatch(m) \/ IgnoreSyncIdxUpdate(m)
      PROVE  rfi_synced_idx' = rfi_synced_idx
  BY <1>3 DEF ProcessPreVoteRequest, GrantVote, RefuseVote, IgnoreVoteReply,
     RegisterVote, VoteReplyDeposes, BecomeCandidate, AppendStale, AppendAccept,
     AppendAbort, IgnoreAppendReply, AppendReplyDeposes, AppendReplyMismatch,
     IgnoreSyncIdxUpdate, rfiVars
<1>4. ASSUME NEW m \in msgs, BecomeLeader(m)
      PROVE  rfi_synced_idx'[i][q] = rfi_synced_idx[i][q]
  <2>1. m.dst # i
    BY <1>4 DEF BecomeLeader, Relevant
  <2> QED
    BY <1>4, <2>1 DEF BecomeLeader, TypeOK, LeaderType
<1>5. ASSUME NEW m \in msgs, AppendReplyOk(m)
      PROVE  Reported(i, q, n)
  <2>1. m \in AppendReply /\ m.src \in Server /\ m.dst \in Server
    BY <1>5, MessageKinds DEF TypeOK, NetworkType, AppendReplyOk
  <2> DEFINE next == rfi_next_idx[m.dst][m.src] + IF m.heartbeat THEN 0 ELSE 1
  <2>2. next \in Int /\ m.synced_log_index \in Int
    BY <2>1 DEF TypeOK, LeaderType, AppendReply
  <2>3. /\ TryUpdateFollowerSyncIdx(m.dst, m.src, next, m.leader_term,
                                    m.synced_log_index)
        /\ IsAnswer(m) /\ ~m.err_non_matching /\ AckRelevant(m)
    BY <1>5 DEF AppendReplyOk, IsAnswer
  <2> HIDE DEF next
  <2>4. \/ rfi_synced_idx'[i][q] = rfi_synced_idx[i][q]
        \/ i = m.dst /\ q = m.src /\ rfi_synced_idx'[i][q] = m.synced_log_index
    <3>1. \A c, f \in Server :
            \/ rfi_synced_idx'[c][f] = rfi_synced_idx[c][f]
            \/ c = m.dst /\ f = m.src /\ rfi_synced_idx'[c][f] = m.synced_log_index
      BY <2>1, <2>2, <2>3, UpdateSynced
    <3> QED
      BY <3>1
  <2>5. m.leader_term = rlh_term[m.dst]
    BY <2>3 DEF AckRelevant, IsAnswer
  <2>6. CASE i = m.dst /\ q = m.src /\ rfi_synced_idx'[i][q] = m.synced_log_index
    <3>1. Counts(m, i, q, n)
      BY <2>3, <2>5, <2>6 DEF Counts
    <3> QED
      BY <3>1 DEF Reported
  <2> QED
    BY <1>1, <2>4, <2>6
<1>6. ASSUME NEW m \in msgs, ProcessSyncIdxUpdate(m)
      PROVE  Reported(i, q, n)
  <2>1. m \in SyncIdxUpdate /\ m.src \in Server /\ m.dst \in Server
    BY <1>6, MessageKinds DEF TypeOK, NetworkType, ProcessSyncIdxUpdate
  <2> DEFINE next == rfi_next_idx[m.dst][m.src]
  <2>2. next \in Int /\ m.synced_log_index \in Int
    BY <2>1 DEF TypeOK, LeaderType, SyncIdxUpdate
  <2>3. /\ TryUpdateFollowerSyncIdx(m.dst, m.src, next, m.term, m.synced_log_index)
        /\ m.type = "SYNC_IDX_UPDATE" /\ m.term = rlh_term[m.dst]
    BY <1>6 DEF ProcessSyncIdxUpdate
  <2> HIDE DEF next
  <2>4. \/ rfi_synced_idx'[i][q] = rfi_synced_idx[i][q]
        \/ i = m.dst /\ q = m.src /\ rfi_synced_idx'[i][q] = m.synced_log_index
    <3>1. \A c, f \in Server :
            \/ rfi_synced_idx'[c][f] = rfi_synced_idx[c][f]
            \/ c = m.dst /\ f = m.src /\ rfi_synced_idx'[c][f] = m.synced_log_index
      BY <2>1, <2>2, <2>3, UpdateSynced
    <3> QED
      BY <3>1
  <2>5. CASE i = m.dst /\ q = m.src /\ rfi_synced_idx'[i][q] = m.synced_log_index
    <3>1. Counts(m, i, q, n)
      BY <2>3, <2>5 DEF Counts
    <3> QED
      BY <3>1 DEF Reported
  <2> QED
    BY <1>1, <2>4, <2>5
<1>7. UNCHANGED vars => rfi_synced_idx' = rfi_synced_idx
  BY DEF vars, rfiVars
<1> QED
  BY <1>1, <1>2, <1>3, <1>4, <1>5, <1>6, <1>7 DEF Next, VoteStep, AppendStep, SyncStep

\* A report that is new in a leadership comes from a server that acknowledges
\* a request or tells what it has synced.
LEMMA StepReports ==
  ASSUME ~LateAcks, Ground, Ground', [Next]_vars, NEW i \in Server,
         ri_state[i] = "leader", ri_state'[i] = "leader", NEW q \in Server,
         NEW n \in Nat, n >= 1, Reported(i, q, n)'
  PROVE  Reported(i, q, n) \/ Acks(i, q, n) \/ Tells(i, q, n)
<1>1. TypeOK /\ TypeOK'
  BY DEF Ground
<1>2. rlh_term'[i] = rlh_term[i]
  BY LeaderSteady
<1>3. CASE n <= rfi_synced_idx'[i][q] + 1
  BY <1>1, <1>3, StepTable
<1>4. CASE \E m \in msgs' : Counts(m, i, q, n)'
  <2>1. PICK m \in msgs' : Counts(m, i, q, n)'
    BY <1>4
  <2>2. Counts(m, i, q, n)
    BY <1>2, <2>1 DEF Counts, IsAnswer
  <2>3. CASE m \in msgs
    BY <2>2, <2>3 DEF Reported
  <2>4. CASE m \notin msgs /\ IsAnswer(m)
    <3>1. PICK r \in msgs : ReplyOf(m, r)
      BY <2>4, Origins DEF Origin
    <3>2. AppendAccept(r)
      BY <3>1 DEF ReplyOf
    <3>3. r.dst \in Server /\ synced'[r.dst] = SyncedAfterAppend(r.dst, r)
      <4>1. r.dst \in Server
        BY <1>1, MessageKinds DEF TypeOK, NetworkType
      <4> QED
        BY <1>1, <3>2, <4>1 DEF AppendAccept, TypeOK, LogType
    <3> DEFINE sli == SyncedAfterAppend(r.dst, r) - 1
               bad == PrepareRc(r.dst, r) \in {"ERANGE", "EEXIST"}
               ok == PrepareRc(r.dst, r) = "OK"
    <3>4. m = AppendReplyTo(r.dst, r, r.leader_term, sli, FALSE, bad, ok)
      BY <3>1 DEF ReplyOf
    <3> HIDE DEF sli, bad, ok
    <3>5. /\ m.src = r.dst /\ m.dst = r.src /\ m.leader_term = r.leader_term
          /\ m.err_non_matching = bad
          /\ m.synced_log_index = IF ok \/ bad THEN sli ELSE -1
          /\ m.type = "APPEND_ENTRIES_REPLY"
      BY <3>4 DEF AppendReplyTo
    <3>6. m.src = q /\ m.dst = i /\ ~bad /\ n <= m.synced_log_index + 1
      BY <2>2, <2>4, <3>5 DEF Counts, IsAnswer
    <3>7. ok
      BY <3>5, <3>6
    <3>8. m.leader_term = rlh_term[i]
      BY <2>2, <3>5 DEF Counts
    <3>9. synced'[q] \in Nat
      BY <1>1 DEF TypeOK, LogType
    <3>10. n <= synced'[q]
      BY <3>3, <3>5, <3>6, <3>7, <3>9 DEF sli
    <3>11. PrepareRc(q, r) = "OK"
      BY <3>5, <3>6, <3>7 DEF ok
    <3> QED
      BY <3>2, <3>5, <3>6, <3>8, <3>10, <3>11 DEF Acks
  <2>5. CASE m \notin msgs /\ m.type = "SYNC_IDX_UPDATE"
    <3>1. PICK c \in Server : UpdateOf(m, c)
      BY <2>5, Origins DEF Origin
    <3>2. /\ SendSyncIdx(c) /\ m.src = c /\ m.dst = ri_csn_leader[c]
          /\ m.term = SyncTerm(c) /\ m.synced_log_index = SyncIdx(c)
      BY <3>1 DEF UpdateOf
    <3>3. m.src = q /\ m.dst = i /\ m.term = rlh_term[i] /\ n <= m.synced_log_index + 1
      BY <2>2, <2>5 DEF Counts, IsAnswer
    <3>4. synced[q] \in Nat
      BY <1>1 DEF TypeOK, LogType
    <3>5. n <= synced[q]
      BY <3>2, <3>3, <3>4 DEF SyncIdx
    <3> QED
      BY <3>2, <3>3, <3>5 DEF Tells
  <2> QED
    BY <2>2, <2>3, <2>4, <2>5 DEF Counts
<1> QED
  BY <1>3, <1>4 DEF Reported

\* Server q has synced the first n entries of i's log.
Stored(q, i, n) == n <= synced[q] /\ Share(log[q], log[i], n)

\* What a server has synced is in a log that has the term of its last entry.
EndsStored ==
  \A q, i \in Server : \A x, n \in Nat :
    /\ x >= 1 /\ Len(log[q]) = x /\ x <= Len(log[i])
    /\ log[q][x].term = log[i][x].term /\ n <= synced[q]
    => Stored(q, i, n)

\* Logs that match give it.
LEMMA EndsAreStored == TypeOK /\ AllAgree => EndsStored
<1> SUFFICES ASSUME TypeOK, AllAgree, NEW q \in Server, NEW i \in Server,
                    NEW x \in Nat, NEW n \in Nat, x >= 1, Len(log[q]) = x,
                    x <= Len(log[i]), log[q][x].term = log[i][x].term,
                    n <= synced[q]
             PROVE  Stored(q, i, n)
  BY DEF EndsStored
<1>1. Share(log[q], log[i], x)
  BY AgreeShare DEF AllAgree
<1>2. synced[q] \in Nat /\ synced[q] <= Len(log[q])
  BY DEF TypeOK, LogType
<1>3. log[q] \in Seq(Entry) /\ log[i] \in Seq(Entry)
  BY DEF TypeOK, LogType
<1>4. n <= x
  BY <1>2
<1>5. Share(log[q], log[i], n)
  BY <1>1, <1>3, <1>4, ShareFacts
<1> QED
  BY <1>5 DEF Stored

\* What a server acknowledges it has stored, in the leader's term.
LEMMA AcksStored ==
  ASSUME Ground, Ground', Traces, [Next]_vars, NEW i \in Server,
         ri_state[i] = "leader", NEW q \in Server, NEW n \in Nat, n >= 1,
         Acks(i, q, n)
  PROVE  /\ log'[i] = log[i] /\ rlh_term'[q] = rlh_term[i]
         /\ Stored(q, i, n)'
<1>1. /\ TypeOK /\ TypeOK' /\ EntriesTyped /\ EntriesTyped' /\ RequestsHeld
      /\ RequestsValid /\ AllAgree' /\ OwnRequests
  BY EntriesAreTyped, PTL DEF Ground, Traces
<1>2. PICK r \in msgs : /\ AppendAccept(r) /\ r.dst = q /\ r.src = i
                        /\ r.leader_term = rlh_term[i] /\ PrepareRc(q, r) = "OK"
  BY DEF Acks
<1>3. n <= synced'[q]
  BY DEF Acks
<1>4. IsRequest(r) /\ r \in AppendRequest
  BY <1>1, <1>2, MessageKinds DEF AppendAccept, IsRequest, TypeOK, NetworkType
<1>5. i # q /\ r.prev_log_index >= -1 /\ r.prev_log_index \in Int
      /\ r.heartbeat \in BOOLEAN
  BY <1>1, <1>2, <1>4, RequestNumbers DEF RequestsHeld, RequestsValid
<1>6. FatalOf(q, r) = "none"
  BY <1>2 DEF AppendAccept
<1> DEFINE x == r.prev_log_index + 1
           P == PrunedLog(q, r)
           e == [term |-> r.log_term, data |-> r.data]
<1>7. /\ x \in Nat /\ P \in Seq(Entry) /\ Len(P) = x /\ x <= Len(log[q])
      /\ \A k \in 1 .. Len(P) : P[k] = log[q][k]
      /\ x >= 1 => log[q][x].term = r.prev.term
  BY <1>1, <1>2, <1>4, <1>5, <1>6, PreparedLog
<1>8. Mirrors(r, i)
  BY <1>1, <1>2, <1>4 DEF OwnRequests
<1>9. /\ x <= Len(log[i]) /\ (x >= 1 => r.prev = log[i][x])
      /\ ~r.heartbeat => x + 1 <= Len(log[i]) /\ log[i][x + 1] = e
  BY <1>8 DEF Mirrors
<1>10. log'[i] = log[i] /\ rlh_term'[q] = rlh_term[i]
  BY <1>1, <1>2, <1>5 DEF AppendAccept, AdoptTerm, TypeOK, LogType, HeaderType
<1>11. log'[q] = IF Writes(q, r) THEN Append(P, e) ELSE P
  BY <1>1, <1>2 DEF AppendAccept, TypeOK, LogType
<1>12. Writes(q, r) <=> ~r.heartbeat
  BY <1>2 DEF Writes
<1>13. EndsStored'
  BY <1>1, EndsAreStored, PTL
<1>14. CASE ~r.heartbeat
  <2>1. e \in Entry
    BY <1>4, <1>6, <1>12, <1>14, PrepareType, <1>1
  <2>2. log'[q] = Append(P, e)
    BY <1>11, <1>12, <1>14
  <2> HIDE DEF P, e
  <2>3. Len(log'[q]) = x + 1 /\ log'[q][x + 1] = e
    BY <1>7, <2>1, <2>2
  <2>4. x + 1 <= Len(log'[i]) /\ log'[i][x + 1] = e
    BY <1>9, <1>10, <1>14
  <2> HIDE DEF x
  <2>5. PICK y \in Nat : y = x + 1 /\ y >= 1
    BY <1>7
  <2>6. /\ Len(log'[q]) = y /\ y <= Len(log'[i])
        /\ log'[q][y].term = log'[i][y].term
    BY <2>3, <2>4, <2>5
  <2>9. Stored(q, i, n)'
    BY <1>3, <1>13, <2>5, <2>6 DEF EndsStored
  <2> QED
    BY <1>10, <2>9
<1>15. CASE r.heartbeat
  <2>1. log'[q] = P
    BY <1>11, <1>12, <1>15
  <2> HIDE DEF P, e
  <2>2. Len(log'[q]) = x
    BY <1>7, <2>1
  <2>3. x >= 1
    <3>1. synced'[q] <= Len(log'[q]) /\ synced'[q] \in Nat
      BY <1>1 DEF TypeOK, LogType
    <3> QED
      BY <1>3, <1>7, <2>2, <3>1
  <2>4. x \in 1 .. Len(P)
    BY <1>7, <2>3
  <2>5. log'[q][x].term = log'[i][x].term /\ x <= Len(log'[i])
    BY <1>7, <1>9, <1>10, <2>1, <2>3, <2>4
  <2> HIDE DEF x
  <2>6. PICK y \in Nat : y = x /\ y >= 1
    BY <1>7, <2>3
  <2>9. Stored(q, i, n)'
    BY <1>3, <1>13, <2>2, <2>5, <2>6 DEF EndsStored
  <2> QED
    BY <1>10, <2>9
<1> QED
  BY <1>5, <1>14, <1>15

\* Entries of the leader's term are where the leader has its own.
LEMMA OwnTermShare ==
  ASSUME Ground, LeaderTail, NEW i \in Server, ri_state[i] = "leader",
         NEW c \in Server, NEW x \in 1 .. Len(log[c]), log[c][x].term = rlh_term[i]
  PROVE  Share(log[c], log[i], x)
<1>1. TypeOK /\ EntriesTyped /\ LeaderHasAll /\ AllAgree
  BY EntriesAreTyped DEF Ground, EntryInv
<1>2. Len(log[c]) \in Nat /\ Len(log[i]) \in Nat
  BY <1>1 DEF EntriesTyped
<1>3. x \in Nat /\ x >= 1 /\ x <= Len(log[c])
  BY <1>2
<1>4. PICK e : e = log[c][x]
  OBVIOUS
<1>5. Logged(x, e) /\ e.term = rlh_term[i]
  BY <1>4 DEF Logged
<1>6. x <= Len(log[i])
  BY <1>1, <1>3, <1>5 DEF LeaderHasAll
<1>7. x > rls_initial_term_idx[i] + 1 /\ x \in 1 .. Len(log[i])
  BY <1>2, <1>3, <1>5, <1>6 DEF LeaderTail
<1>8. log[i][x].term = rlh_term[i]
  BY <1>7 DEF LeaderTail
<1> QED
  BY <1>1, <1>3, <1>6, <1>8, AgreeShare DEF AllAgree

\* So is what a server tells the leader it has synced.
LEMMA TellsStored ==
  ASSUME Ground, Ground', Traces, [Next]_vars, NEW i \in Server,
         ri_state[i] = "leader", NEW q \in Server, NEW n \in Nat, n >= 1,
         Tells(i, q, n)
  PROVE  /\ log'[i] = log[i] /\ rlh_term'[q] = rlh_term[i]
         /\ Stored(q, i, n)'
<1>1. /\ TypeOK /\ EntriesTyped /\ TermsOrdered /\ BeliefsTimely /\ LeaderTail
  BY EntriesAreTyped DEF Ground, Traces
<1>2. UNCHANGED <<log, synced, rlh_term>>
  BY DEF Tells, SendSyncIdx, logVars, hdrVars
<1> DEFINE s == synced[q]
<1>3. s \in Nat /\ s <= Len(log[q]) /\ n <= s /\ SyncTerm(q) = rlh_term[i]
      /\ Len(log[q]) \in Nat
  BY <1>1 DEF TypeOK, LogType, Tells
<1>4. s - 1 \in 0 .. LastIdx(log[q]) /\ (s - 1) + 1 = s /\ s \in 1 .. Len(log[q])
  BY <1>3 DEF LastIdx
<1>5. log[q][s].term = rlh_term[i]
  BY <1>3, <1>4 DEF SyncTerm, SyncIdx, EntryAt
<1>6. Share(log[q], log[i], s)
  BY <1>1, <1>4, <1>5, OwnTermShare
<1>7. Share(log[q], log[i], n)
  <2>1. log[q] \in Seq(Entry) /\ log[i] \in Seq(Entry)
    BY <1>1 DEF EntriesTyped
  <2> QED
    BY <1>3, <1>6, <2>1, ShareFacts
<1>8. rlh_term[q] = rlh_term[i]
  <2>1. rlh_term[q] \in Nat /\ rlh_term[i] \in Nat
    BY <1>1 DEF EntriesTyped
  <2>2. rlh_term[i] <= rlh_term[q]
    BY <1>1, <1>4, <1>5 DEF TermsOrdered, Ordered
  <2>3. ri_csn_leader[q] = i /\ i # None
    BY ServerAssumption DEF Tells
  <2>4. rlh_term[q] <= rlh_term[i]
    BY <1>1, <2>3 DEF BeliefsTimely
  <2> QED
    BY <2>1, <2>2, <2>4
<1> QED
  BY <1>2, <1>3, <1>7, <1>8 DEF Stored, Share

\* A report that a leadership has is older than the step, or its sender stores
\* what it reports and is in the leader's term.
LEMMA NewReport ==
  ASSUME ~LateAcks, Ground, Ground', Traces, [Next]_vars, NEW i \in Server,
         ri_state[i] = "leader", ri_state'[i] = "leader", NEW q \in Server,
         NEW n \in Nat, n >= 1, Reported(i, q, n)', ~Reported(i, q, n)
  PROVE  /\ log'[i] = log[i] /\ rlh_term'[q] = rlh_term'[i]
         /\ Stored(q, i, n)'
<1>1. Acks(i, q, n) \/ Tells(i, q, n)
  BY StepReports
<1>2. /\ log'[i] = log[i] /\ rlh_term'[q] = rlh_term[i]
      /\ Stored(q, i, n)'
  BY <1>1, AcksStored, TellsStored
<1>3. rlh_term'[i] = rlh_term[i]
  BY LeaderSteady
<1> QED
  BY <1>2, <1>3

-----------------------------------------------------------------------------
(* Entries that can no longer be committed *)

\* Leader i has an entry of its own term at place n.
OwnAt(i, n) == n \in 1 .. Len(log[i]) /\ log[i][n].term = rlh_term[i]

\* A majority has left the term of leader i without reporting place n: no
\* majority ever will.
Barred(i, n) ==
  \E Q \in SUBSET Server :
    /\ IsMajority(Q)
    /\ \A q \in Q : rlh_term[i] < rlh_term[q] /\ ~Reported(i, q, n)

\* What is barred stays barred: who has left a term reports nothing more to
\* its leader.
LEMMA BarredKept ==
  ASSUME ~LateAcks, Ground, Ground', Traces, [Next]_vars, NEW i \in Server,
         ri_state[i] = "leader", ri_state'[i] = "leader", NEW n \in Nat, n >= 1,
         Barred(i, n)
  PROVE  Barred(i, n)'
<1>1. TypeOK /\ TypeOK'
  BY DEF Ground
<1>2. PICK Q \in SUBSET Server :
        /\ IsMajority(Q)
        /\ \A q \in Q : rlh_term[i] < rlh_term[q] /\ ~Reported(i, q, n)
  BY DEF Barred
<1>3. rlh_term'[i] = rlh_term[i]
  BY LeaderSteady
<1>4. ASSUME NEW q \in Q
      PROVE  rlh_term'[i] < rlh_term'[q] /\ ~Reported(i, q, n)'
  <2>1. q \in Server
    OBVIOUS
  <2>2. rlh_term[q] <= rlh_term'[q]
    BY <1>1, <2>1, StepRoles DEF Roles
  <2>3. rlh_term[i] \in Nat /\ rlh_term[q] \in Nat /\ rlh_term'[q] \in Nat
    BY <1>1, <2>1 DEF TypeOK, HeaderType
  <2>4. rlh_term'[i] < rlh_term'[q]
    BY <1>2, <1>3, <2>2, <2>3
  <2>5. ~Reported(i, q, n)
    BY <1>2
  <2>6. Reported(i, q, n)' => rlh_term'[q] = rlh_term'[i]
    BY <2>1, <2>5, NewReport
  <2> QED
    BY <1>3, <2>3, <2>4, <2>6
<1>5. IsMajority(Q)'
  BY <1>2 DEF IsMajority
<1> QED
  BY <1>4, <1>5 DEF Barred

\* What is reported to a leader is in its log.  The reporter was in the
\* leader's term; while it is there, it has what it reported.  It never loses
\* an entry of the leader's term that it reported unless that entry is barred.
Evidence ==
  \A i, q \in Server : ri_state[i] = "leader" /\ q # i =>
    \A n \in Nat : n >= 1 /\ Reported(i, q, n) =>
      /\ n <= Len(log[i])
      /\ rlh_term[i] <= rlh_term[q]
      /\ rlh_term[q] = rlh_term[i] => Stored(q, i, n)
      /\ OwnAt(i, n) => Stored(q, i, n) \/ Barred(i, n)

\* Nobody has reported anything to a new leader.
LEMMA NewLeaderUnreported ==
  ASSUME ~LateVotes, Ground, Ground', Traces, [Next]_vars, NEW i \in Server,
         ri_state'[i] = "leader", ri_state[i] # "leader", NEW q \in Server,
         NEW n \in Nat, n >= 1
  PROVE  ~Reported(i, q, n)'
<1>1. /\ TypeOK /\ TypeOK' /\ CandidateViable /\ AnswersHeld /\ UpdatesOwned
      /\ LeadersOwn' /\ TermsOrdered'
  BY DEF Ground, Traces
<1>2. PICK m \in msgs : BecomeLeader(m) /\ m.dst = i
  BY <1>1, LeadersAreElected
<1>3. /\ ri_state[i] = "candidate" /\ msgs' \subseteq msgs
      /\ rlh_term'[i] = rlh_term[i]
      /\ rfi_synced_idx'[i] = [j \in Server |-> -1]
  BY <1>1, <1>2 DEF BecomeLeader, Relevant, hdrVars, TypeOK, LeaderType
<1>4. ~(n <= rfi_synced_idx'[i][q] + 1)
  BY <1>3
<1>5. ASSUME NEW r \in msgs', Counts(r, i, q, n)'
      PROVE  FALSE
  <2>1. Counts(r, i, q, n) /\ r \in msgs
    BY <1>3, <1>5 DEF Counts, IsAnswer
  <2>2. CASE IsAnswer(r) /\ r.leader_term = rlh_term[i]
    BY <1>1, <1>3, <2>1, <2>2 DEF AnswersHeld, Held, Counts
  <2>3. CASE r.type = "SYNC_IDX_UPDATE" /\ r.term = rlh_term[i]
    <3>1. PICK t : t = rlh_term[i]
      OBVIOUS
    <3>2. t >= 1
      BY <1>1, <1>3, <3>1 DEF TermsOrdered
    <3>3. PICK o \in Server : Owner(t, o)
      BY <1>1, <2>1, <2>3, <3>1, <3>2 DEF UpdatesOwned
    <3>4. Owner(t, o)'
      BY <1>1, <3>3, OwnerKept
    <3>5. o = i
      BY <1>1, <1>3, <3>1, <3>4 DEF LeadersOwn
    <3> QED
      BY <1>3, <3>1, <3>3, <3>5 DEF Owner
  <2> QED
    BY <2>1, <2>2, <2>3 DEF Counts
<1> QED
  BY <1>4, <1>5 DEF Reported

\* Place n is new in leader i's log, or the leader is new.
Fresh(i, n) ==
  ri_state'[i] = "leader" /\ (ri_state[i] # "leader" \/ n > Len(log[i]))

\* Nobody has reported a fresh place.
LEMMA FreshUnreported ==
  ASSUME ~LateVotes, ~LateAcks, Ground, Ground', Traces, Evidence, [Next]_vars,
         NEW i \in Server, NEW q \in Server, q # i, NEW n \in Nat, n >= 1,
         Fresh(i, n)
  PROVE  ~Reported(i, q, n)'
<1>1. CASE ri_state[i] # "leader"
  BY <1>1, NewLeaderUnreported DEF Fresh
<1>2. CASE ri_state[i] = "leader" /\ n > Len(log[i])
  <2>1. Len(log[i]) \in Nat /\ Len(log'[i]) \in Nat
    <3>1. TypeOK /\ TypeOK'
      BY DEF Ground
    <3> QED
      BY <3>1 DEF TypeOK, LogType
  <2>2. ~Reported(i, q, n)
    BY <1>2, <2>1 DEF Evidence
  <2>3. Reported(i, q, n)' => log'[i] = log[i] /\ Stored(q, i, n)'
    BY <1>2, <2>2, NewReport DEF Fresh
  <2>4. Stored(q, i, n)' => n <= Len(log'[i])
    BY DEF Stored, Share
  <2> QED
    BY <1>2, <2>1, <2>3, <2>4
<1> QED
  BY <1>1, <1>2 DEF Fresh

\* A fresh place is barred if a later term has been won.
LEMMA FreshBarred ==
  ASSUME ~LateVotes, ~LateAcks, Ground, Ground', Traces, Evidence, [Next]_vars,
         NEW i \in Server, NEW n \in Nat, n >= 1, Fresh(i, n),
         NEW w, NEW o \in Server, Owner(w, o)', rlh_term'[i] < w
  PROVE  Barred(i, n)'
<1>1. TypeOK'
  BY DEF Ground
<1>2. w \in Nat
  BY DEF Owner
<1>3. PICK Q \in SUBSET Server : IsMajority(Q)' /\ \A q \in Q : w <= rlh_term'[q]
  BY DEF Owner
<1>4. ASSUME NEW q \in Q
      PROVE  rlh_term'[i] < rlh_term'[q] /\ ~Reported(i, q, n)'
  <2>1. q \in Server /\ rlh_term'[i] \in Nat /\ rlh_term'[q] \in Nat
    BY <1>1 DEF TypeOK, HeaderType
  <2>2. rlh_term'[i] < rlh_term'[q]
    BY <1>2, <1>3, <2>1
  <2>3. q # i
    BY <2>1, <2>2
  <2> QED
    BY <2>1, <2>2, <2>3, FreshUnreported
<1> QED
  BY <1>3, <1>4 DEF Barred

\* An entry of the leader's term that is not fresh was there before.
LEMMA OwnAtOld ==
  ASSUME Ground, Ground', [Next]_vars, NEW i \in Server, ri_state'[i] = "leader",
         NEW n \in Nat, OwnAt(i, n)', ~Fresh(i, n)
  PROVE  /\ ri_state[i] = "leader" /\ OwnAt(i, n) /\ n >= 1 /\ n <= Len(log[i])
         /\ rlh_term'[i] = rlh_term[i]
         /\ \A k \in 1 .. n : k \in 1 .. Len(log[i]) /\ log'[i][k] = log[i][k]
<1>1. TypeOK /\ TypeOK'
  BY DEF Ground
<1>2. ri_state[i] = "leader" /\ Len(log[i]) \in Nat /\ Len(log'[i]) \in Nat
  BY <1>1 DEF Fresh, TypeOK, LogType
<1>3. Grows(log[i], log'[i]) /\ rlh_term'[i] = rlh_term[i]
  BY <1>2, LeaderSteady
<1>4. n \in 1 .. Len(log'[i]) /\ log'[i][n].term = rlh_term'[i] /\ n <= Len(log[i])
  BY <1>2 DEF OwnAt, Fresh
<1>5. \A k \in 1 .. n : k \in 1 .. Len(log[i]) /\ log'[i][k] = log[i][k]
  BY <1>2, <1>3, <1>4 DEF Grows
<1>6. n \in 1 .. n /\ n >= 1
  BY <1>4
<1>7. OwnAt(i, n)
  BY <1>3, <1>4, <1>5, <1>6 DEF OwnAt
<1> QED
  BY <1>2, <1>3, <1>4, <1>5, <1>6, <1>7-----------------------------------------------------------------------------
(* Votes, logs and requests of later terms *)

\* Who votes for a later candidate and has reported an entry of leader i has
\* made sure that the candidate has it, or the entry is barred.
VoteSafe ==
  \A i, q, c \in Server :
    /\ ri_state[i] = "leader" /\ ri_state[c] = "candidate"
    /\ rlh_term[i] < rlh_term[c] /\ Backed(q, rlh_term[c], c)
    => \A n \in Nat : OwnAt(i, n) /\ Reported(i, q, n) =>
         Share(log[c], log[i], n) \/ Barred(i, n)

\* A log with an entry of a later term has the entry of leader i before it, or
\* the entry is barred.
LogSafe ==
  \A i, c \in Server : ri_state[i] = "leader" =>
    \A x \in 1 .. Len(log[c]) : rlh_term[i] < log[c][x].term =>
      \A n \in Nat : OwnAt(i, n) =>
        (n < x /\ Share(log[c], log[i], n)) \/ Barred(i, n)

\* Request m of a later term neither cuts nor replaces place n of leader i.
Spares(m, i, n) ==
  /\ m.log_term > 0 /\ m.prev_log_index + 2 <= n =>
       m.log_term = log[i][m.prev_log_index + 2].term
  /\ ~m.heartbeat /\ rlh_term[i] < m.log_term =>
       n <= m.prev_log_index + 1 /\ rlh_term[i] <= m.prev.term

\* No request of a later term does, or place n is barred.
ReqSafe ==
  \A i \in Server : ri_state[i] = "leader" =>
    \A m \in msgs : IsRequest(m) /\ rlh_term[i] < m.leader_term =>
      \A n \in Nat : OwnAt(i, n) => Spares(m, i, n) \/ Barred(i, n)

\* The leader's own requests make nobody lose what it shares with the leader.
LEMMA OwnRequestCuts ==
  ASSUME Ground, Traces, NEW i \in Server, ri_state[i] = "leader",
         NEW q \in Server, NEW n \in Nat, Stored(q, i, n), NEW m \in msgs, Cuts(m, q),
         m.leader_term = rlh_term[i]
  PROVE  n <= m.prev_log_index + 1
<1>1. TypeOK /\ EntriesTyped /\ RequestsOwned /\ LeadersOwn /\ OwnRequests
  BY EntriesAreTyped DEF Ground, Traces
<1>2. /\ IsRequest(m) /\ m.dst = q /\ m.log_term > 0 /\ rlh_term[q] <= m.leader_term
  BY DEF Cuts
<1>3. m.src \in Server /\ m.prev_log_index \in Int /\ m.heartbeat \in BOOLEAN
  BY <1>1, <1>2, RequestNumbers
<1>4. m.src = i
  BY <1>1, <1>2, <1>3 DEF RequestsOwned, LeadersOwn
<1>5. Mirrors(m, i)
  BY <1>1, <1>2, <1>4 DEF OwnRequests
<1>6. PICK x \in Int : x = m.prev_log_index + 1
  BY <1>3
<1>7. /\ x \in Nat /\ ~m.heartbeat => log[i][x + 1] = [term |-> m.log_term, data |-> m.data]
  BY <1>5, <1>6 DEF Mirrors
<1>8. m.heartbeat =>
           \/ x + 1 <= Len(log[i]) /\ log[i][x + 1].term = m.log_term
           \/ /\ \A k \in x + 1 .. Len(log[i]) : log[i][k].term = rlh_term[i]
              /\ rlh_term[q] <= rlh_term[i] => Lacks(log[q], x + 1, rlh_term[i])
  BY <1>2, <1>5, <1>6 DEF Mirrors
<1>9. x + 1 <= Len(log[q]) /\ log[q][x + 1].term # m.log_term
  BY <1>6 DEF Cuts
<1>10. x \in Nat
  BY <1>5, <1>6 DEF Mirrors
<1> SUFFICES ASSUME n > x PROVE FALSE
  BY <1>6, <1>10
<1>11. x + 1 \in 1 .. n /\ n <= Len(log[i])
  BY <1>10 DEF Stored, Share
<1>12. log[q][x + 1] = log[i][x + 1]
  BY <1>11 DEF Stored, Share
<1>13. log[i][x + 1].term # m.log_term
  BY <1>9, <1>12
<1>14. m.heartbeat
  BY <1>7, <1>10, <1>13
<1>15. /\ \A k \in x + 1 .. Len(log[i]) : log[i][k].term = rlh_term[i]
       /\ rlh_term[q] <= rlh_term[i] => Lacks(log[q], x + 1, rlh_term[i])
  BY <1>8, <1>13, <1>14
<1>16. x + 1 \in x + 1 .. Len(log[i]) /\ Len(log[q]) \in Nat
  BY <1>1, <1>10, <1>11 DEF EntriesTyped
<1>17. Lacks(log[q], x + 1, rlh_term[i])
  BY <1>2, <1>15
<1> QED
  BY <1>9, <1>10, <1>12, <1>15, <1>16, <1>17 DEF Lacks

\* Entries that a server has stored for a leader survive a step that does not
\* cut them.
LEMMA StoredKept ==
  ASSUME Ground, Ground', [Next]_vars, NEW i \in Server, ri_state[i] = "leader",
         ri_state'[i] = "leader", NEW q \in Server, NEW n \in Nat, Stored(q, i, n),
         \/ KeepsSynced(q)
         \/ \E m \in msgs : Cuts(m, q) /\ n <= m.prev_log_index + 1
  PROVE  Stored(q, i, n)'
<1>1. TypeOK /\ TypeOK' /\ EntriesTyped /\ EntriesTyped'
  BY EntriesAreTyped, PTL DEF Ground
<1>2. Grows(log[i], log'[i])
  BY LeaderSteady
<1>3. /\ synced[q] \in Nat /\ synced'[q] \in Nat /\ synced'[q] <= Len(log'[q])
      /\ Len(log'[q]) \in Nat /\ Len(log'[i]) \in Nat
      /\ log[q] \in Seq(Entry) /\ log[i] \in Seq(Entry)
  BY <1>1 DEF TypeOK, LogType
<1>4. n <= synced'[q] /\ \A k \in 1 .. n : log'[q][k] = log[q][k]
  <2>1. CASE KeepsSynced(q)
    BY <1>3, <2>1 DEF KeepsSynced, Stored
  <2>2. CASE \E m \in msgs : Cuts(m, q) /\ n <= m.prev_log_index + 1
    <3>1. PICK m \in msgs : Cuts(m, q) /\ n <= m.prev_log_index + 1
      BY <2>2
    <3>2. m.prev_log_index \in Int
      BY <1>1, <3>1, RequestNumbers DEF Cuts
    <3>3. PICK x \in Int : x = m.prev_log_index + 1
      BY <3>2
    <3>4. n <= x /\ x <= synced'[q] /\ \A k \in 1 .. x : log'[q][k] = log[q][k]
      BY <3>1, <3>3 DEF Cuts
    <3> QED
      BY <1>3, <3>4
  <2> QED
    BY <2>1, <2>2
<1>5. n <= Len(log'[q]) /\ Share(log[q], log[i], n)
  BY <1>3, <1>4 DEF Stored
<1>6. Share(log'[q], log'[i], n)
  BY <1>2, <1>3, <1>4, <1>5, ShareKept
<1> QED
  BY <1>4, <1>6 DEF Stored

\* Every step keeps the evidence.
LEMMA StepEvidence ==
  ASSUME ~LateVotes, ~LateAcks, Ground, Ground', Traces, Evidence, ReqSafe,
         [Next]_vars
  PROVE  Evidence'
<1>1. TypeOK /\ TypeOK' /\ EntriesTyped /\ EntriesTyped' /\ RequestsValid
  BY EntriesAreTyped, PTL DEF Ground
<1> SUFFICES ASSUME NEW i \in Server, NEW q \in Server, ri_state'[i] = "leader",
                    q # i, NEW n \in Nat, n >= 1, Reported(i, q, n)'
             PROVE  /\ n <= Len(log'[i])
                    /\ rlh_term'[i] <= rlh_term'[q]
                    /\ rlh_term'[q] = rlh_term'[i] => Stored(q, i, n)'
                    /\ OwnAt(i, n)' => Stored(q, i, n)' \/ Barred(i, n)'
  BY DEF Evidence
<1>2. ~Fresh(i, n)
  BY FreshUnreported
<1>3. ri_state[i] = "leader" /\ n <= Len(log[i])
  BY <1>1, <1>2 DEF Fresh, EntriesTyped
<1>4. Grows(log[i], log'[i]) /\ rlh_term'[i] = rlh_term[i]
  BY <1>3, LeaderSteady
<1>5. Len(log[i]) \in Nat /\ Len(log'[i]) \in Nat /\ rlh_term[i] \in Nat
      /\ rlh_term[q] \in Nat /\ rlh_term'[q] \in Nat
  BY <1>1 DEF EntriesTyped
<1>6. n <= Len(log'[i])
  BY <1>3, <1>4, <1>5 DEF Grows
<1>7. CASE ~Reported(i, q, n)
  <2>1. rlh_term'[q] = rlh_term'[i] /\ Stored(q, i, n)'
    BY <1>3, <1>7, NewReport
  <2> QED
    BY <1>4, <1>5, <1>6, <2>1
<1>8. CASE Reported(i, q, n)
  <2>1. /\ rlh_term[i] <= rlh_term[q]
        /\ rlh_term[q] = rlh_term[i] => Stored(q, i, n)
        /\ OwnAt(i, n) => Stored(q, i, n) \/ Barred(i, n)
    BY <1>3, <1>8 DEF Evidence
  <2>2. rlh_term[q] <= rlh_term'[q]
    BY <1>1, StepRoles DEF Roles
  <2>3. rlh_term'[i] <= rlh_term'[q]
    BY <1>4, <1>5, <2>1, <2>2
  <2>4. KeepsSynced(q) \/ \E m \in msgs : Cuts(m, q)
    BY <1>1, StepSynced
  <2>5. ASSUME Stored(q, i, n), NEW m \in msgs, Cuts(m, q), m.leader_term = rlh_term[i]
        PROVE  Stored(q, i, n)'
    <3>1. n <= m.prev_log_index + 1
      BY <1>3, <2>5, OwnRequestCuts
    <3> QED
      BY <1>3, <2>5, <3>1, StoredKept
  <2>6. ASSUME rlh_term'[q] = rlh_term'[i]
        PROVE  Stored(q, i, n)'
    <3>1. Stored(q, i, n)
      BY <1>4, <1>5, <2>1, <2>2, <2>6
    <3>2. CASE KeepsSynced(q)
      BY <1>3, <3>1, <3>2, StoredKept
    <3>3. CASE \E m \in msgs : Cuts(m, q)
      <4>1. PICK m \in msgs : Cuts(m, q)
        BY <3>3
      <4>2. m.leader_term = rlh_term[i]
        BY <1>4, <2>6, <4>1 DEF Cuts
      <4> QED
        BY <2>5, <3>1, <4>1, <4>2
    <3> QED
      BY <2>4, <3>2, <3>3
  <2>7. ASSUME OwnAt(i, n)'
        PROVE  Stored(q, i, n)' \/ Barred(i, n)'
    <3>1. OwnAt(i, n)
      BY <1>2, <2>7, OwnAtOld
    <3>2. Barred(i, n) => Barred(i, n)'
      BY <1>3, BarredKept
    <3>3. CASE Stored(q, i, n) /\ KeepsSynced(q)
      BY <1>3, <3>3, StoredKept
    <3>4. CASE Stored(q, i, n) /\ \E m \in msgs : Cuts(m, q)
      <4>1. PICK m \in msgs : Cuts(m, q)
        BY <3>4
      <4>2. /\ IsRequest(m) /\ rlh_term[q] <= m.leader_term /\ m.log_term > 0
        BY <4>1 DEF Cuts
      <4>3. m.leader_term \in Nat /\ m.prev_log_index \in Int
        BY <1>1, <4>2, RequestNumbers
      <4>4. CASE m.leader_term = rlh_term[i]
        BY <2>5, <3>4, <4>1, <4>4
      <4>5. CASE rlh_term[i] < m.leader_term /\ Spares(m, i, n)
        <5>1. PICK x \in Int : x = m.prev_log_index + 1
          BY <4>3
        <5>2. m.prev_log_index + 2 = x + 1
          BY <4>3, <5>1
        <5>3. /\ x + 1 <= Len(log[q]) /\ log[q][x + 1].term # m.log_term
          BY <4>1, <5>1 DEF Cuts
        <5>4. x + 1 <= n => m.log_term = log[i][x + 1].term
          BY <4>2, <4>5, <5>2 DEF Spares
        <5>5. x >= 0
          BY <1>1, <4>2, <4>3, <5>1 DEF RequestsValid
        <5>6. ~(x + 1 <= n)
          BY <3>4, <5>3, <5>4, <5>5 DEF Stored, Share
        <5>7. n <= m.prev_log_index + 1
          BY <5>1, <5>6
        <5> QED
          BY <1>3, <3>4, <4>1, <5>7, StoredKept
      <4>6. rlh_term[i] <= m.leader_term
        BY <1>5, <2>1, <4>2, <4>3
      <4>7. CASE rlh_term[i] < m.leader_term
        BY <1>3, <3>1, <3>2, <4>2, <4>5, <4>7 DEF ReqSafe
      <4> QED
        BY <1>5, <4>3, <4>4, <4>6, <4>7
    <3> QED
      BY <2>1, <2>4, <3>1, <3>2, <3>3, <3>4
  <2> QED
    BY <1>6, <2>3, <2>6, <2>7
<1> QED
  BY <1>7, <1>8

\* Sharing goes on while the first log keeps its entries and the second grows.
LEMMA LeaderShareKept ==
  ASSUME Ground, Ground', [Next]_vars, NEW i \in Server, ri_state[i] = "leader",
         ri_state'[i] = "leader", NEW c \in Server, NEW n \in Nat,
         Share(log[c], log[i], n), n <= Len(log'[c]),
         \A k \in 1 .. n : log'[c][k] = log[c][k]
  PROVE  Share(log'[c], log'[i], n)
<1>1. EntriesTyped /\ EntriesTyped'
  BY EntriesAreTyped, PTL DEF Ground
<1>2. Grows(log[i], log'[i])
  BY LeaderSteady
<1>3. /\ log[c] \in Seq(Entry) /\ log[i] \in Seq(Entry)
      /\ Len(log'[c]) \in Nat /\ Len(log'[i]) \in Nat
  BY <1>1 DEF EntriesTyped
<1> QED
  BY <1>2, <1>3, ShareKept

\* The last entry of a log that is not empty.
LEMMA LastEntry ==
  ASSUME NEW L \in Seq(Entry), Len(L) >= 1
  PROVE  EntryAt(L, LastIdx(L)) = L[Len(L)] /\ Len(L) \in 1 .. Len(L)
<1>1. Len(L) \in Nat
  OBVIOUS
<1>2. LastIdx(L) \in 0 .. LastIdx(L) /\ LastIdx(L) + 1 = Len(L)
  BY <1>1 DEF LastIdx
<1> QED
  BY <1>1, <1>2 DEF EntryAt

\* A candidate whose log does not end before that of a server that has stored
\* entry n of leader i has it too.
LEMMA UpToDateShare ==
  ASSUME Ground, Traces, LogSafe, NEW i \in Server, ri_state[i] = "leader",
         NEW q \in Server, NEW c \in Server, NEW n \in Nat, OwnAt(i, n),
         Stored(q, i, n), LastIdx(log[q]) <= LastIdx(log[c]),
         EntryAt(log[q], LastIdx(log[q])).term
           <= EntryAt(log[c], LastIdx(log[c])).term
  PROVE  Share(log[c], log[i], n) \/ Barred(i, n)
<1>1. TypeOK /\ EntriesTyped /\ TermsOrdered /\ LeaderTail
  BY EntriesAreTyped DEF Ground, Traces
<1>2. /\ Len(log[q]) \in Nat /\ Len(log[c]) \in Nat /\ rlh_term[i] \in Nat
      /\ log[q] \in Seq(Entry) /\ log[c] \in Seq(Entry) /\ log[i] \in Seq(Entry)
  BY <1>1 DEF EntriesTyped
<1>3. n >= 1 /\ log[i][n].term = rlh_term[i]
  BY DEF OwnAt
<1>4. n <= Len(log[q]) /\ log[q][n] = log[i][n]
  <2>1. n \in 1 .. n
    BY <1>3
  <2> QED
    BY <2>1 DEF Stored, Share
<1> DEFINE x == Len(log[c])
           y == Len(log[q])
<1>5. y <= x /\ y >= 1 /\ x >= 1 /\ n <= x
  BY <1>2, <1>3, <1>4 DEF LastIdx
<1>6. /\ EntryAt(log[q], LastIdx(log[q])) = log[q][y] /\ y \in 1 .. Len(log[q])
      /\ EntryAt(log[c], LastIdx(log[c])) = log[c][x] /\ x \in 1 .. Len(log[c])
  BY <1>2, <1>5, LastEntry
<1>7. log[q][y].term <= log[c][x].term
  BY <1>6
<1>8. n \in 1 .. Len(log[q]) /\ y \in n .. Len(log[q])
  BY <1>2, <1>3, <1>4, <1>5
<1>9. log[q][n].term <= log[q][y].term
  BY <1>1, <1>8 DEF TermsOrdered, Ordered
<1>10. /\ log[q][n].term \in Nat /\ log[q][y].term \in Nat /\ log[c][x].term \in Nat
  BY <1>1, <1>6, <1>8 DEF EntriesTyped
<1>11. rlh_term[i] <= log[c][x].term
  BY <1>2, <1>3, <1>4, <1>7, <1>9, <1>10
<1>12. CASE rlh_term[i] < log[c][x].term
  BY <1>6, <1>12 DEF LogSafe
<1>13. CASE rlh_term[i] = log[c][x].term
  <2>1. Share(log[c], log[i], x)
    BY <1>1, <1>6, <1>13, OwnTermShare
  <2>2. x \in Nat
    BY <1>2
  <2> QED
    BY <1>2, <1>5, <2>1, <2>2, ShareFacts
<1> QED
  BY <1>2, <1>10, <1>11, <1>12, <1>13

\* Every step keeps votes safe.
LEMMA StepVoteSafe ==
  ASSUME ~LateVotes, ~LateAcks, Ground, Ground', Traces, Evidence, VoteSafe, LogSafe,
         [Next]_vars
  PROVE  VoteSafe'
<1>1. /\ TypeOK /\ TypeOK' /\ EntriesTyped /\ EntriesTyped' /\ NotAhead'
      /\ CandidateViable /\ BeliefsTimely /\ VotesBehind
  BY EntriesAreTyped, PTL DEF Ground, Traces
<1> SUFFICES ASSUME NEW i \in Server, NEW q \in Server, NEW c \in Server,
                    ri_state'[i] = "leader", ri_state'[c] = "candidate",
                    rlh_term'[i] < rlh_term'[c], Backed(q, rlh_term[c], c)',
                    NEW n \in Nat, OwnAt(i, n)', Reported(i, q, n)'
             PROVE  Share(log'[c], log'[i], n) \/ Barred(i, n)'
  BY DEF VoteSafe
<1>2. PICK t \in Nat : t = rlh_term'[c]
  BY <1>1 DEF EntriesTyped
<1>3. Backed(q, t, c)'
  BY <1>2
<1>4. t <= rlh_term'[q]
  BY <1>1, <1>3 DEF NotAhead
<1>5. rlh_term'[i] \in Nat /\ rlh_term'[q] \in Nat /\ rlh_term[c] \in Nat
  BY <1>1 DEF EntriesTyped
<1>6. rlh_term'[i] < rlh_term'[q] /\ q # i /\ rlh_term'[q] # rlh_term'[i]
  BY <1>2, <1>4, <1>5
<1>7. n >= 1
  <2>1. Len(log'[i]) \in Nat
    BY <1>1 DEF EntriesTyped
  <2> QED
    BY <2>1 DEF OwnAt
<1>8. ~Fresh(i, n)
  BY <1>6, <1>7, FreshUnreported
<1>9. ri_state[i] = "leader" /\ OwnAt(i, n) /\ rlh_term'[i] = rlh_term[i]
  BY <1>8, OwnAtOld
<1>10. Reported(i, q, n)
  BY <1>6, <1>7, <1>9, NewReport
<1>11. Barred(i, n) => Barred(i, n)'
  BY <1>7, <1>9, BarredKept
<1>12. log'[c] = log[c]
  BY <1>1, CandidateSteady
<1>13. Share(log[c], log[i], n) => Share(log'[c], log'[i], n)
  <2>1. Share(log[c], log[i], n) => n <= Len(log'[c])
    BY <1>12 DEF Share
  <2> QED
    BY <1>9, <1>12, <2>1, LeaderShareKept
<1>14. Roles
  BY <1>1, StepRoles
<1>15. CASE Backed(q, t, c)
  <2>1. t <= rlh_term[c] /\ rlh_term[c] <= rlh_term'[c]
    BY <1>1, <1>14, <1>15 DEF VotesBehind, Roles
  <2>2. rlh_term[c] = t
    BY <1>2, <1>5, <2>1
  <2>3. ri_state[c] = "candidate"
    BY <1>2, <1>5, <1>14, <2>2 DEF Roles
  <2>4. rlh_term[i] < rlh_term[c]
    BY <1>2, <1>9, <2>2
  <2> QED
    BY <1>9, <1>10, <1>11, <1>13, <1>15, <2>2, <2>3, <2>4 DEF VoteSafe
<1>16. CASE ~Backed(q, t, c)
  <2>1. Stored(q, i, n) \/ Barred(i, n)
    BY <1>6, <1>7, <1>9, <1>10 DEF Evidence
  <2>2. PICK m \in msgs :
           \/ /\ GrantVote(m) /\ m.dst = q /\ m.src = c /\ m.proposed_term = t
              /\ rlh_term[q] < t
           \/ /\ BecomeCandidate(m) /\ m.dst = q /\ c = q /\ t = rlh_term[q] + 1
    BY <1>1, <1>3, <1>16, VoteCast
  <2>3. CASE c = q
    BY <1>11, <1>13, <2>1, <2>3 DEF Stored
  <2>4. CASE GrantVote(m) /\ m.dst = q /\ m.src = c /\ m.proposed_term = t
    <3>1. m.type = "VOTE_REQUEST" /\ VoteDecide(q, m) /\ Timely(m)
      BY <1>1, <2>4 DEF GrantVote, BeliefsTimely
    <3>2. /\ rlh_term' = [rlh_term EXCEPT ![q] = m.proposed_term]
          /\ ri_state' = [ri_state EXCEPT ![q] = "follower"]
      BY <1>1, <2>4, GrantBacked
    <3>3. c # q
      BY <1>1, <3>2 DEF TypeOK, StateType
    <3>4. ri_state[c] = "candidate" /\ rlh_term[c] = t
      BY <1>1, <1>2, <3>2, <3>3 DEF TypeOK, StateType, HeaderType
    <3>5. /\ m.last_log_index = LastIdx(log[c])
          /\ m.last_log_term = EntryAt(log[c], LastIdx(log[c])).term
      BY <2>4, <3>1, <3>4 DEF Timely, Describes
    <3>6. /\ m.last_log_term >= EntryAt(log[q], LastIdx(log[q])).term
          /\ m.last_log_index >= LastIdx(log[q])
      BY <3>1 DEF VoteDecide
    <3>7. LastIdx(log[q]) <= LastIdx(log[c])
      BY <3>5, <3>6
    <3>8. EntryAt(log[q], LastIdx(log[q])).term
            <= EntryAt(log[c], LastIdx(log[c])).term
      BY <3>5, <3>6
    <3>9. Stored(q, i, n) => Share(log[c], log[i], n) \/ Barred(i, n)
      BY <1>9, <3>7, <3>8, UpToDateShare
    <3> QED
      BY <1>11, <1>13, <2>1, <3>9
  <2> QED
    BY <2>2, <2>3, <2>4
<1> QED
  BY <1>15, <1>16

\* A new leader has the entries of earlier leaders that are not barred: its
\* voters have seen to it.
LEMMA ElectedHas ==
  ASSUME ~LateVotes, Ground, Ground', VoteSafe, [Next]_vars, NEW i \in Server,
         ri_state[i] = "leader", NEW c \in Server, ri_state'[c] = "leader",
         ri_state[c] # "leader", rlh_term[i] < rlh_term[c],
         NEW n \in Nat, OwnAt(i, n)
  PROVE  Share(log[c], log[i], n) \/ Barred(i, n)
<1>1. TypeOK /\ TypeOK' /\ CandidateViable /\ NotAhead
  BY DEF Ground
<1>2. PICK m \in msgs : BecomeLeader(m) /\ m.dst = c
  BY <1>1, LeadersAreElected
<1>3. m.src \in Server
  BY <1>1, MessageKinds DEF TypeOK, NetworkType
<1>4. /\ ri_state[c] = "candidate" /\ IsMajority(YesVotes(Results(m)))
      /\ rcs_results' = [rcs_results EXCEPT ![c] = Results(m)]
  BY <1>2 DEF BecomeLeader, Relevant, Elected
<1>5. rcs_results'[c] = Results(m)
  BY <1>1, <1>4 DEF TypeOK, CandidateType
<1>6. rlh_term'[c] = rlh_term[c]
  BY <1>2 DEF BecomeLeader, hdrVars
<1>7. PICK t \in Nat : t = rlh_term[c]
  BY <1>1 DEF TypeOK, HeaderType
<1> DEFINE Y == YesVotes(Results(m))
<1>8. Y \in SUBSET Server
  BY DEF YesVotes
<1>9. ASSUME NEW q \in Y
      PROVE  q \in Server /\ Backed(q, t, c)
  <2>1. q \in Server /\ rcs_results'[c][q] = "yes"
    BY <1>5 DEF YesVotes
  <2>2. Backed(q, t, c)'
    BY <1>6, <1>7, <2>1 DEF Backed
  <2> QED
    BY <1>1, <1>2, <2>1, <2>2, CountBacked
<1>10. \A q \in Y : rlh_term[i] < rlh_term[q]
  <2> SUFFICES ASSUME NEW q \in Y PROVE rlh_term[i] < rlh_term[q]
    OBVIOUS
  <2>1. q \in Server /\ t <= rlh_term[q]
    BY <1>1, <1>9 DEF NotAhead
  <2>2. rlh_term[i] \in Nat /\ rlh_term[q] \in Nat
    BY <1>1, <2>1 DEF TypeOK, HeaderType
  <2> QED
    BY <1>7, <2>1, <2>2
<1> HIDE DEF Y
<1>11. CASE \E q \in Y : Reported(i, q, n)
  <2>1. PICK q \in Y : Reported(i, q, n)
    BY <1>11
  <2>2. q \in Server /\ Backed(q, rlh_term[c], c)
    BY <1>7, <1>9
  <2> QED
    BY <1>4, <2>1, <2>2 DEF VoteSafe
<1>12. CASE \A q \in Y : ~Reported(i, q, n)
  BY <1>4, <1>8, <1>10, <1>12 DEF Barred, Y
<1> QED
  BY <1>11, <1>12

\* Every step keeps logs safe.
LEMMA StepLogSafe ==
  ASSUME ~LateVotes, ~LateAcks, Ground, Ground', Traces, Evidence, VoteSafe, LogSafe,
         ReqSafe, [Next]_vars
  PROVE  LogSafe'
<1>1. /\ TypeOK /\ TypeOK' /\ EntriesTyped /\ EntriesTyped' /\ RequestsValid
      /\ TermsOrdered /\ LeaderTail /\ EntriesOwned'
  BY EntriesAreTyped, PTL DEF Ground, Traces, EntryInv
<1>2. LogsMove /\ Roles
  BY <1>1, StepLogs, StepRoles
<1> SUFFICES ASSUME NEW i \in Server, NEW c \in Server, ri_state'[i] = "leader",
                    NEW x \in 1 .. Len(log'[c]), rlh_term'[i] < log'[c][x].term,
                    NEW n \in Nat, OwnAt(i, n)'
             PROVE  (n < x /\ Share(log'[c], log'[i], n)) \/ Barred(i, n)'
  BY DEF LogSafe
<1>3. /\ Len(log'[i]) \in Nat /\ Len(log'[c]) \in Nat /\ Len(log[c]) \in Nat
      /\ x \in Nat /\ x >= 1 /\ x <= Len(log'[c])
  BY <1>1 DEF EntriesTyped
<1>4. n >= 1
  BY <1>3 DEF OwnAt
<1>5. CASE Fresh(i, n)
  <2>1. PICK w : w = log'[c][x].term
    OBVIOUS
  <2>2. PICK e : e = log'[c][x]
    OBVIOUS
  <2>3. Logged(x, e)'
    BY <2>2 DEF Logged
  <2>4. PICK o \in Server : Owner(w, o)'
    BY <1>1, <1>3, <2>1, <2>2, <2>3 DEF EntriesOwned
  <2> QED
    BY <1>4, <1>5, <2>1, <2>4, FreshBarred
<1>6. CASE ~Fresh(i, n)
  <2>1. ri_state[i] = "leader" /\ OwnAt(i, n) /\ rlh_term'[i] = rlh_term[i]
    BY <1>6, OwnAtOld
  <2>2. Barred(i, n) => Barred(i, n)'
    BY <1>4, <2>1, BarredKept
  \* An older entry of a later term.
  <2>3. ASSUME NEW y \in 1 .. Len(log[c]), rlh_term[i] < log[c][y].term, y <= x,
               \A k \in 1 .. y : log'[c][k] = log[c][k]
        PROVE  (n < x /\ Share(log'[c], log'[i], n)) \/ Barred(i, n)'
    <3>1. (n < y /\ Share(log[c], log[i], n)) \/ Barred(i, n)
      BY <2>1, <2>3 DEF LogSafe
    <3>2. ASSUME n < y, Share(log[c], log[i], n)
          PROVE  n < x /\ Share(log'[c], log'[i], n)
      <4>1. /\ n < x /\ n <= Len(log'[c])
            /\ \A k \in 1 .. n : log'[c][k] = log[c][k]
        BY <1>3, <2>3, <3>2
      <4> QED
        BY <2>1, <3>2, <4>1, LeaderShareKept
    <3> QED
      BY <2>2, <3>1, <3>2
  <2>4. ASSUME x <= Len(log[c]), \A k \in 1 .. x : log'[c][k] = log[c][k]
        PROVE  (n < x /\ Share(log'[c], log'[i], n)) \/ Barred(i, n)'
    <3>1. x \in 1 .. Len(log[c]) /\ x <= x /\ log'[c][x] = log[c][x]
      BY <1>3, <2>4
    <3> QED
      BY <2>1, <2>3, <2>4, <3>1
  <2>5. CASE Shorter(c)
    <3>1. x <= Len(log[c]) /\ \A k \in 1 .. x : log'[c][k] = log[c][k]
      BY <1>3, <2>5 DEF Shorter
    <3> QED
      BY <2>4, <3>1
  <2>6. CASE Own(c)
    <3> DEFINE len == Len(log[c])
    <3>1. PICK e \in Entry : e.term = rlh_term[c] /\ Extended(c, len, e)
      BY <2>6 DEF Own
    <3>2. /\ Len(log'[c]) = len + 1 /\ log'[c][len + 1] = e
          /\ \A k \in 1 .. len : log'[c][k] = log[c][k]
      BY <3>1 DEF Extended
    <3>3. ri_state'[c] = "leader"
      BY <2>6 DEF Own
    <3>4. CASE x <= len
      <4>1. \A k \in 1 .. x : log'[c][k] = log[c][k]
        BY <1>3, <3>2, <3>4
      <4> QED
        BY <2>4, <3>4, <4>1
    <3>5. CASE x = len + 1
      <4>1. rlh_term[i] < rlh_term[c]
        BY <2>1, <3>1, <3>2, <3>5
      <4>2. CASE ri_state[c] = "leader"
        <5>1. len \in 1 .. Len(log[c]) /\ len > rls_initial_term_idx[c] + 1
          BY <1>1, <1>3, <4>2 DEF LeaderTail
        <5>2. log[c][len].term = rlh_term[c]
          BY <1>1, <4>2, <5>1 DEF LeaderTail
        <5>3. len <= x
          BY <1>3, <3>5
        <5> QED
          BY <2>3, <3>2, <4>1, <5>1, <5>2, <5>3
      <4>3. CASE ri_state[c] # "leader"
        <5>1. Share(log[c], log[i], n) \/ Barred(i, n)
          BY <2>1, <3>3, <4>1, <4>3, ElectedHas
        <5>2. ASSUME Share(log[c], log[i], n)
              PROVE  n < x /\ Share(log'[c], log'[i], n)
          <6>1. n <= len
            BY <5>2 DEF Share
          <6>2. /\ n < x /\ n <= Len(log'[c])
                /\ \A k \in 1 .. n : log'[c][k] = log[c][k]
            BY <1>3, <3>2, <3>5, <6>1
          <6> QED
            BY <2>1, <5>2, <6>2, LeaderShareKept
        <5> QED
          BY <2>2, <5>1, <5>2
      <4> QED
        BY <4>2, <4>3
    <3> QED
      BY <1>3, <3>2, <3>4, <3>5
  <2>7. ASSUME NEW m \in msgs, Copied(m), m.dst = c
        PROVE  (n < x /\ Share(log'[c], log'[i], n)) \/ Barred(i, n)'
    <3>1. IsRequest(m) /\ ~m.heartbeat
      BY <2>7 DEF Copied
    <3>2. /\ m.prev_log_index \in Int /\ m.log_term \in Int /\ m.leader_term \in Nat
          /\ m.prev.term \in Nat
      BY <1>1, <3>1, RequestNumbers
    <3>3. PICK p \in Int : p = m.prev_log_index + 1
      BY <3>2
    <3>4. PICK e : e = [term |-> m.log_term, data |-> m.data]
      OBVIOUS
    <3>10. e.term = m.log_term
      BY <3>4
    <3>5. /\ Extended(c, p, e) /\ (p >= 1 => log[c][p].term = m.prev.term)
      BY <2>7, <3>3, <3>4 DEF Copied
    <3>6. /\ p \in 0 .. Len(log[c]) /\ Len(log'[c]) = p + 1 /\ log'[c][p + 1] = e
          /\ \A k \in 1 .. p : log'[c][k] = log[c][k]
      BY <3>5 DEF Extended
    <3>7. CASE x <= p
      <4>1. x <= Len(log[c]) /\ \A k \in 1 .. x : log'[c][k] = log[c][k]
        BY <1>3, <3>6, <3>7
      <4> QED
        BY <2>4, <4>1
    <3>8. CASE x = p + 1
      <4>1. rlh_term[i] < m.log_term
        BY <2>1, <3>10, <3>6, <3>8
      <4>2. m.log_term <= m.leader_term
        BY <1>1, <3>1 DEF TermsOrdered
      <4>3. rlh_term[i] \in Nat
        BY <1>1 DEF EntriesTyped
      <4>4. rlh_term[i] < m.leader_term
        BY <3>2, <4>1, <4>2, <4>3
      <4>5. Spares(m, i, n) \/ Barred(i, n)
        BY <2>1, <3>1, <4>4 DEF ReqSafe
      <4>6. CASE Spares(m, i, n)
        <5>1. n <= p /\ rlh_term[i] <= m.prev.term
          BY <3>1, <3>3, <4>1, <4>6 DEF Spares
        <5>2. p \in 1 .. Len(log[c]) /\ p <= x /\ p \in Nat /\ p >= 1
          BY <1>3, <1>4, <3>6, <3>8, <5>1
        <5>3. log[c][p].term = m.prev.term
          BY <3>5, <5>2
        <5>4. CASE rlh_term[i] < m.prev.term
          BY <2>3, <3>6, <5>2, <5>3, <5>4
        <5>5. CASE rlh_term[i] = m.prev.term
          <6>1. Share(log[c], log[i], p)
            BY <1>1, <2>1, <5>2, <5>3, <5>5, OwnTermShare
          <6>2. Share(log[c], log[i], n)
            <7>1. log[c] \in Seq(Entry) /\ log[i] \in Seq(Entry)
              BY <1>1 DEF EntriesTyped
            <7> QED
              BY <5>1, <5>2, <6>1, <7>1, ShareFacts
          <6>3. /\ n < x /\ n <= Len(log'[c])
                /\ \A k \in 1 .. n : log'[c][k] = log[c][k]
            BY <1>3, <3>6, <3>8, <5>1
          <6> QED
            BY <2>1, <6>2, <6>3, LeaderShareKept
        <5> QED
          BY <3>2, <4>3, <5>1, <5>4, <5>5
      <4> QED
        BY <2>2, <4>5, <4>6
    <3> QED
      BY <1>3, <3>6, <3>7, <3>8
  <2>8. ASSUME NEW j \in Server, Others(j), j # c
        PROVE  Shorter(c)
    BY <1>1, <2>8, SameIsShorter DEF Others
  <2>9. ASSUME NEW m \in msgs, Copied(m)
        PROVE  Others(m.dst) /\ m.dst \in Server
    BY <1>1, <2>9, RequestNumbers DEF Copied
  <2>10. CASE \E j \in Server : Own(j)
    BY <2>5, <2>6, <2>8, <2>10 DEF Own
  <2>11. CASE \E m \in msgs : Copied(m)
    BY <2>5, <2>7, <2>8, <2>9, <2>11
  <2> QED
    BY <1>2, <2>5, <2>10, <2>11 DEF LogsMove
<1> QED
  BY <1>5, <1>6

\* A later leader sends nothing that replaces the entries of leader i that are
\* not barred.
LEMMA SentSpares ==
  ASSUME Ground, Traces, LogSafe, NEW i \in Server, ri_state[i] = "leader",
         NEW m, IsRequest(m), Sent(m), m.src \in Server, m.dst \in Server,
         m.prev_log_index \in Int, rlh_term[i] < m.leader_term,
         NEW n \in Nat, OwnAt(i, n)
  PROVE  Spares(m, i, n) \/ Barred(i, n)
<1>1. TypeOK /\ EntriesTyped /\ LeaderTail /\ NextIdxBound /\ TermsOrdered
  BY EntriesAreTyped DEF Ground, Traces
<1>2. PICK j \in Server : j = m.src
  OBVIOUS
<1>3. PICK p \in Int : p = m.prev_log_index + 1
  OBVIOUS
<1>4. /\ ri_state[j] = "leader" /\ m.leader_term = rlh_term[j]
      /\ p \in Nat
      /\ p >= 1 /\ p <= Len(log[j]) => m.prev = log[j][p]
      /\ p + 1 <= Len(log[j]) => m.log_term = log[j][p + 1].term
      /\ ~m.heartbeat => p + 1 <= Len(log[j])
  BY <1>2, <1>3 DEF Sent
<1>5. Len(log[j]) \in Nat /\ n >= 1 /\ log[i][n].term = rlh_term[i]
  BY <1>1 DEF OwnAt, EntriesTyped
<1> DEFINE b == rls_initial_term_idx[j] + 1
<1>6. b \in Nat /\ b < Len(log[j])
  BY <1>1, <1>4 DEF LeaderTail
<1>7. b + 1 \in 1 .. Len(log[j]) /\ b + 1 > b
  BY <1>5, <1>6
<1>8. log[j][b + 1].term = rlh_term[j]
  BY <1>1, <1>4, <1>7 DEF LeaderTail
<1>9. Share(log[j], log[i], n) \/ Barred(i, n)
  BY <1>2, <1>4, <1>7, <1>8 DEF LogSafe
<1>10. ASSUME Share(log[j], log[i], n), ~Barred(i, n)
       PROVE  Spares(m, i, n)
  <2>1. n <= Len(log[j])
    BY <1>10 DEF Share
  <2>2. ASSUME p + 1 <= n
        PROVE  m.log_term = log[i][p + 1].term
    <3>1. p + 1 <= Len(log[j]) /\ p + 1 \in 1 .. n
      BY <1>4, <1>5, <2>1, <2>2
    <3> QED
      BY <1>4, <1>10, <3>1 DEF Share
  <2>3. ASSUME ~m.heartbeat, rlh_term[i] < m.log_term
        PROVE  n <= p /\ rlh_term[i] <= m.prev.term
    <3>1. p + 1 \in 1 .. Len(log[j]) /\ m.log_term = log[j][p + 1].term
      BY <1>4, <1>5, <2>3
    <3>2. n < p + 1
      BY <1>10, <2>3, <3>1 DEF LogSafe
    <3>3. n <= p /\ p >= 1 /\ p <= Len(log[j])
      BY <1>4, <1>5, <3>1, <3>2
    <3>4. n \in 1 .. Len(log[j]) /\ p \in n .. Len(log[j]) /\ n \in 1 .. n
      BY <1>5, <3>3, <2>1
    <3>5. log[j][n].term <= log[j][p].term
      BY <1>1, <3>4 DEF TermsOrdered, Ordered
    <3>6. log[j][n] = log[i][n]
      BY <1>10, <3>4 DEF Share
    <3> QED
      BY <1>4, <1>5, <3>3, <3>5, <3>6
  <2>4. m.prev_log_index + 2 = p + 1
    BY <1>3
  <2> QED
    BY <1>3, <2>2, <2>3, <2>4 DEF Spares
<1> QED
  BY <1>9, <1>10

\* Every step keeps requests safe.
LEMMA StepReqSafe ==
  ASSUME ~LateVotes, ~LateAcks, Ground, Ground', Traces, Evidence, LogSafe, ReqSafe,
         [Next]_vars
  PROVE  ReqSafe'
<1>1. TypeOK /\ TypeOK' /\ EntriesTyped' /\ RequestsOwned' /\ RequestsValid
  BY EntriesAreTyped, PTL DEF Ground
<1> SUFFICES ASSUME NEW i \in Server, ri_state'[i] = "leader", NEW m \in msgs',
                    IsRequest(m), rlh_term'[i] < m.leader_term, NEW n \in Nat,
                    OwnAt(i, n)'
             PROVE  Spares(m, i, n)' \/ Barred(i, n)'
  BY DEF ReqSafe, IsRequest
<1>2. m.src \in Server /\ m.dst \in Server /\ m.prev_log_index \in Int
  BY <1>1, RequestFields DEF TypeOK, NetworkType
<1>3. n >= 1
  <2>1. Len(log'[i]) \in Nat
    BY <1>1 DEF EntriesTyped
  <2> QED
    BY <2>1 DEF OwnAt
<1>4. CASE Fresh(i, n)
  <2>1. PICK w : w = m.leader_term
    OBVIOUS
  <2>2. PICK o \in Server : o = m.src
    BY <1>2
  <2>3. Owner(w, o)'
    BY <1>1, <2>1, <2>2 DEF RequestsOwned, IsRequest
  <2> QED
    BY <1>3, <1>4, <2>1, <2>3, FreshBarred
<1>5. CASE ~Fresh(i, n)
  <2>1. /\ ri_state[i] = "leader" /\ OwnAt(i, n) /\ rlh_term'[i] = rlh_term[i]
        /\ \A k \in 1 .. n : k \in 1 .. Len(log[i]) /\ log'[i][k] = log[i][k]
    BY <1>5, OwnAtOld
  <2>2. Barred(i, n) => Barred(i, n)'
    BY <1>3, <2>1, BarredKept
  <2>3. Spares(m, i, n) \/ Barred(i, n)
    <3>1. CASE m \in msgs
      BY <2>1, <3>1 DEF ReqSafe
    <3>2. CASE m \notin msgs
      <4>1. Sent(m)
        BY <1>1, <3>2, StepMessages DEF NewRequests
      <4> QED
        BY <1>2, <2>1, <4>1, SentSpares
    <3> QED
      BY <3>1, <3>2
  <2>4. ASSUME Spares(m, i, n)
        PROVE  Spares(m, i, n)'
    <3>1. PICK p \in Int : p = m.prev_log_index + 2
      BY <1>2
    <3>2. p >= 1
      <4>1. m.prev_log_index >= -1
        <5>1. RequestsHeld'
          BY DEF Ground
        <5> QED
          BY <5>1 DEF RequestsHeld, IsRequest
      <4> QED
        BY <1>2, <3>1, <4>1
    <3>3. p <= n => log'[i][p] = log[i][p]
      BY <2>1, <3>1, <3>2
    <3> QED
      BY <2>1, <2>4, <3>1, <3>3 DEF Spares
  <2> QED
    BY <2>2, <2>3, <2>4
<1> QED
  BY <1>4, <1>5

\* The inductive invariant of commits.
Safe == Evidence /\ VoteSafe /\ LogSafe /\ ReqSafe

\* It holds if the network brings no late replies and no overtaken requests.
LEMMA SafeHolds ==
  ~LateVotes /\ ~LateAcks /\ ~Overtaking => (Spec => [](Ground /\ Traces /\ Safe))
<1> SUFFICES ASSUME ~LateVotes, ~LateAcks, ~Overtaking
             PROVE  Spec => [](Ground /\ Traces /\ Safe)
  OBVIOUS
<1>1. Init => Traces /\ Safe
  <2> SUFFICES ASSUME Init PROVE Safe
    BY InitTraces
  <2>1. \A c \in Server : ri_state[c] = "follower"
    BY DEF Init
  <2> QED
    BY <2>1 DEF Safe, Evidence, VoteSafe, LogSafe, ReqSafe
<1>2. Ground /\ Ground' /\ Traces /\ Safe /\ [Next]_vars => Traces' /\ Safe'
  <2> SUFFICES ASSUME Ground, Ground', Traces, Safe, [Next]_vars
               PROVE  Traces' /\ Safe'
    OBVIOUS
  <2>1. Evidence /\ VoteSafe /\ LogSafe /\ ReqSafe
    BY DEF Safe
  <2>2. Traces'
    BY StepTraces
  <2>3. Evidence' /\ VoteSafe' /\ LogSafe' /\ ReqSafe'
    BY <2>1, StepEvidence, StepVoteSafe, StepLogSafe, StepReqSafe
  <2> QED
    BY <2>2, <2>3 DEF Safe
<1>3. Spec => []Ground
  BY GroundHolds
<1> QED
  BY <1>1, <1>2, <1>3, PTL DEF Spec
-----------------------------------------------------------------------------
(* What is committed *)

\* What a server has stored for a leader is the same sequence.
LEMMA StoredPrefix ==
  ASSUME TypeOK, NEW i \in Server, NEW q \in Server, NEW n \in Nat, n >= 1,
         Share(log[q], log[i], n)
  PROVE  /\ n <= Len(log[q]) /\ n <= Len(log[i])
         /\ SubSeq(log[q], 1, n) = SubSeq(log[i], 1, n)
<1>1. log[q] \in Seq(Entry) /\ log[i] \in Seq(Entry)
  BY DEF TypeOK, LogType
<1>2. n <= Len(log[q]) /\ n <= Len(log[i]) /\ \A k \in 1 .. n : log[q][k] = log[i][k]
  BY DEF Share
<1> QED
  BY <1>1, <1>2, SamePrefix

\* A leader that has committed n entries, the last one past its initial index,
\* has heard of them from a majority, and the last one is of its own term and
\* is not barred.
LEMMA CommittedIsReported ==
  ASSUME Ground, Traces, Tallied, CommitWithinSync, NEW i \in Server,
         ri_state[i] = "leader", ri_commit_idx[i] > rls_initial_term_idx[i],
         NEW n \in Int, n = ri_commit_idx[i] + 1
  PROVE  /\ n \in Nat /\ n >= 1 /\ n <= synced[i] /\ OwnAt(i, n)
         /\ \E Q \in SUBSET Server :
              IsMajority(Q) /\ \A q \in Q : q = i \/ Reported(i, q, n)
         /\ ~Barred(i, n)
<1>1. /\ TypeOK /\ LeaderTail
  BY DEF Ground, Traces
<1>2. /\ ri_commit_idx[i] \in Int /\ rls_initial_term_idx[i] \in Int
      /\ rfi_ackd_idx[i] \in [Server -> Int] /\ rfi_synced_idx[i] \in [Server -> Int]
      /\ synced[i] \in Nat /\ Len(log[i]) \in Nat /\ synced[i] <= Len(log[i])
  BY <1>1 DEF TypeOK, LeaderType, LogType
<1>3. n <= synced[i]
  BY <1>2 DEF CommitWithinSync, Alive
<1>4. n \in Nat /\ n >= 1 /\ n > rls_initial_term_idx[i] + 1
  BY <1>1, <1>2 DEF LeaderTail
<1>5. OwnAt(i, n)
  BY <1>1, <1>2, <1>3, <1>4 DEF LeaderTail, OwnAt
<1> DEFINE value == [j \in Server |-> IF j = i THEN SyncIdx(i)
                       ELSE Min2(rfi_ackd_idx[i][j], rfi_synced_idx[i][j])]
           w == MajorityEntryIdx(value)
           Q == {j \in Server : value[j] >= w}
<1>6. value \in [Server -> Int]
  BY <1>2 DEF SyncIdx, Min2
<1>7. w \in Int /\ IsMajority(Q)
  <2> HIDE DEF value
  <2> QED
    BY <1>6, MajorityReached
<1>8. n <= w + 1
  <2>1. w = CommittedIdx(i, rfi_ackd_idx[i], rfi_synced_idx[i])
    BY DEF CommittedIdx
  <2>2. ri_commit_idx[i] <= w
    BY <1>2, <2>1 DEF Tallied
  <2> HIDE DEF w
  <2> QED
    BY <1>2, <1>7, <2>2
<1>9. ASSUME NEW q \in Q PROVE q = i \/ Reported(i, q, n)
  <2> SUFFICES ASSUME q # i PROVE n <= rfi_synced_idx[i][q] + 1
    BY DEF Reported
  <2>1. q \in Server /\ value[q] >= w
    OBVIOUS
  <2>2. value[q] = Min2(rfi_ackd_idx[i][q], rfi_synced_idx[i][q])
    BY <2>1
  <2>3. rfi_ackd_idx[i][q] \in Int /\ rfi_synced_idx[i][q] \in Int
    BY <1>2, <2>1
  <2> HIDE DEF w, value
  <2> QED
    BY <1>2, <1>7, <1>8, <2>1, <2>2, <2>3 DEF Min2
<1>10. Q \in SUBSET Server
  OBVIOUS
<1> HIDE DEF Q
<1>11. ~Barred(i, n)
  <2> SUFFICES ASSUME NEW R \in SUBSET Server, IsMajority(R),
                      \A q \in R : rlh_term[i] < rlh_term[q] /\ ~Reported(i, q, n)
               PROVE  FALSE
    BY DEF Barred
  <2>1. PICK v \in Server : v \in Q /\ v \in R
    BY <1>7, <1>10, MajoritiesMeet
  <2>2. v # i
    BY <2>1, <1>1 DEF TypeOK, StateType, HeaderType
  <2> QED
    BY <1>9, <2>1, <2>2
<1> QED
  BY <1>3, <1>4, <1>5, <1>7, <1>9, <1>10, <1>11

\* In every cluster, what a leader counts for a follower of its term the
\* follower has synced, and it is what the leader has in its own log:
\* rfi_ackd_idx and rfi_synced_idx never promise more than is stored, if the
\* network brings no late replies and no overtaken requests.
THEOREM CountedIsStored ==
  ~LateVotes /\ ~LateAcks /\ ~Overtaking => (Spec => []AckedIsStored)
<1> SUFFICES ASSUME ~LateVotes, ~LateAcks, ~Overtaking PROVE Spec => []AckedIsStored
  OBVIOUS
<1>1. Ground /\ Safe => AckedIsStored
  <2> SUFFICES ASSUME Ground, Safe, NEW i \in Server, ri_state[i] = "leader",
                      NEW j \in Peers(i), NEW n,
                      n = Min2(rfi_ackd_idx[i][j], rfi_synced_idx[i][j]) + 1,
                      rlh_term[j] <= rlh_term[i]
               PROVE  /\ n <= synced[j] /\ n <= Len(log[i])
                      /\ SubSeq(log[j], 1, n) = SubSeq(log[i], 1, n)
    BY DEF AckedIsStored
  <2>1. TypeOK /\ Evidence /\ j \in Server /\ j # i
    BY DEF Ground, Safe, Peers
  <2>2. /\ rfi_ackd_idx[i][j] \in Int /\ rfi_synced_idx[i][j] \in Int
        /\ synced[j] \in Nat /\ Len(log[i]) \in Nat
        /\ rlh_term[i] \in Nat /\ rlh_term[j] \in Nat
        /\ log[i] \in Seq(Entry) /\ log[j] \in Seq(Entry)
    BY <2>1 DEF TypeOK, LeaderType, LogType, HeaderType
  <2>3. n \in Int /\ n <= rfi_synced_idx[i][j] + 1
    BY <2>2 DEF Min2
  <2>4. CASE n >= 1
    <3>1. n \in Nat /\ Reported(i, j, n)
      BY <2>3, <2>4 DEF Reported
    <3>2. rlh_term[i] <= rlh_term[j] /\ (rlh_term[j] = rlh_term[i] => Stored(j, i, n))
      BY <2>1, <2>4, <3>1 DEF Evidence
    <3>3. n <= synced[j] /\ Share(log[j], log[i], n)
      BY <2>2, <3>2 DEF Stored
    <3> QED
      BY <2>1, <2>4, <3>1, <3>3, StoredPrefix
  <2>5. CASE n < 1
    <3>1. SubSeq(log[j], 1, n) = << >> /\ SubSeq(log[i], 1, n) = << >>
      BY <2>2, <2>3, <2>5
    <3> QED
      BY <2>2, <2>3, <2>5, <3>1
  <2> QED
    BY <2>3, <2>4, <2>5
<1>2. Spec => [](Ground /\ Traces /\ Safe)
  BY SafeHolds
<1> QED
  BY <1>1, <1>2, PTL

\* In every cluster, when a leader has committed past its initial index, a
\* majority of the servers has synced all that it committed, under the same
\* conditions: whichever minority crashes, the entries stay.
THEOREM CommitsAreDurable ==
  ~LateVotes /\ ~LateAcks /\ ~Overtaking => (Spec => []CommittedIsDurable)
<1> SUFFICES ASSUME ~LateVotes, ~LateAcks, ~Overtaking
             PROVE  Spec => []CommittedIsDurable
  OBVIOUS
<1>1. Ground /\ Traces /\ Safe /\ Tallied /\ CommitWithinSync => CommittedIsDurable
  <2> SUFFICES ASSUME Ground, Traces, Safe, Tallied, CommitWithinSync,
                      NEW i \in Server, ri_state[i] = "leader",
                      ri_commit_idx[i] > rls_initial_term_idx[i], NEW n,
                      n = ri_commit_idx[i] + 1
               PROVE  IsMajority(Holders(log[i], n))
    BY DEF CommittedIsDurable
  <2>1. TypeOK /\ Evidence /\ n \in Int
    BY DEF Ground, Safe, TypeOK, LeaderType
  <2>2. /\ n \in Nat /\ n >= 1 /\ n <= synced[i] /\ OwnAt(i, n) /\ ~Barred(i, n)
        /\ \E Q \in SUBSET Server :
             IsMajority(Q) /\ \A q \in Q : q = i \/ Reported(i, q, n)
    BY <2>1, CommittedIsReported
  <2>3. PICK Q \in SUBSET Server :
          IsMajority(Q) /\ \A q \in Q : q = i \/ Reported(i, q, n)
    BY <2>2
  <2>4. ASSUME NEW q \in Q PROVE q \in Holders(log[i], n)
    <3>1. CASE q = i
      BY <2>1, <2>2, <3>1 DEF Holders, TypeOK, LogType
    <3>2. CASE q # i
      <4>1. Stored(q, i, n)
        BY <2>1, <2>2, <2>3, <3>2 DEF Evidence
      <4>2. n <= synced[q] /\ Share(log[q], log[i], n)
        BY <4>1 DEF Stored
      <4>3. SubSeq(log[q], 1, n) = SubSeq(log[i], 1, n)
        BY <2>1, <2>2, <4>2, StoredPrefix
      <4> QED
        BY <2>1, <2>2, <4>2, <4>3 DEF Holders, TypeOK, LogType
    <3> QED
      BY <3>1, <3>2
  <2>5. Q \subseteq Holders(log[i], n) /\ Holders(log[i], n) \subseteq Server
    BY <2>4 DEF Holders
  <2>6. /\ IsFiniteSet(Holders(log[i], n)) /\ IsFiniteSet(Q)
        /\ Cardinality(Q) <= Cardinality(Holders(log[i], n))
    BY <2>5, ServerAssumption, FS_Subset
  <2>7. /\ Cardinality(Q) \in Nat /\ Cardinality(Holders(log[i], n)) \in Nat
        /\ Cardinality(Server) \in Nat
    BY <2>6, ServerAssumption, FS_CardinalityType
  <2> QED
    BY <2>3, <2>6, <2>7 DEF IsMajority
<1>2. Spec => [](Ground /\ Traces /\ Safe)
  BY SafeHolds
<1>3. Spec => []Tallied
  BY LeadersAreTallied
<1> QED
  BY <1>1, <1>2, <1>3, CommitsAreSynced, PTL

\* In every cluster, the leader of a later term has all that a leader has
\* committed past its initial index, under the same conditions.
THEOREM LaterLeadersHaveCommitted ==
  ~LateVotes /\ ~LateAcks /\ ~Overtaking => (Spec => []LeaderCompleteness)
<1> SUFFICES ASSUME ~LateVotes, ~LateAcks, ~Overtaking
             PROVE  Spec => []LeaderCompleteness
  OBVIOUS
<1>1. Ground /\ Traces /\ Safe /\ Tallied /\ CommitWithinSync => LeaderCompleteness
  <2> SUFFICES ASSUME Ground, Traces, Safe, Tallied, CommitWithinSync,
                      NEW i \in Server, NEW j \in Server, ri_state[i] = "leader",
                      ri_commit_idx[i] > rls_initial_term_idx[i],
                      ri_state[j] = "leader", rlh_term[j] > rlh_term[i], NEW n,
                      n = ri_commit_idx[i] + 1
               PROVE  /\ Len(log[j]) > ri_commit_idx[i]
                      /\ SubSeq(log[j], 1, n) = SubSeq(log[i], 1, n)
    BY DEF LeaderCompleteness
  <2>1. TypeOK /\ LogSafe /\ LeaderTail
    BY DEF Ground, Traces, Safe
  <2>2. /\ n \in Int /\ ri_commit_idx[i] \in Int
        /\ rlh_term[i] \in Nat /\ rlh_term[j] \in Nat /\ Len(log[j]) \in Nat
    <3>1. rlh_term[i] \in Nat /\ rlh_term[j] \in Nat
      BY <2>1 DEF TypeOK, HeaderType
    <3>2. Len(log[j]) \in Nat
      BY <2>1 DEF TypeOK, LogType
    <3>3. ri_commit_idx[i] \in Int
      BY <2>1 DEF TypeOK, LeaderType
    <3> QED
      BY <3>1, <3>2, <3>3
  <2>3. n \in Nat /\ n >= 1 /\ OwnAt(i, n) /\ ~Barred(i, n)
    BY <2>1, <2>2, CommittedIsReported
  <2>4. Len(log[j]) \in 1 .. Len(log[j]) /\ log[j][Len(log[j])].term = rlh_term[j]
    BY <2>1, <2>2 DEF LeaderTail
  <2>5. Share(log[j], log[i], n)
    BY <2>1, <2>2, <2>3, <2>4 DEF LogSafe
  <2> QED
    BY <2>1, <2>2, <2>3, <2>5, StoredPrefix
<1>2. Spec => [](Ground /\ Traces /\ Safe)
  BY SafeHolds
<1>3. Spec => []Tallied
  BY LeadersAreTallied
<1> QED
  BY <1>1, <1>2, <1>3, CommitsAreSynced, PTL
-----------------------------------------------------------------------------
(* The assertions of the handler of AE requests *)

\* Entries have terms from 1 on, and none is older than the one before it.
EntriesOrdered ==
  /\ \A n \in Nat : \A e : Logged(n, e) => e.term >= 1
  /\ \A n \in Nat : \A e, p : Linked(n, e, p) => p.term <= e.term
  /\ \A m \in msgs : IsRequest(m) /\ m.prev_log_index = -1 => m.prev.term = 0

\* Every step keeps entries ordered.
LEMMA StepEntriesOrdered ==
  ASSUME Ground, Ground', EntriesOrdered, [Next]_vars
  PROVE  EntriesOrdered'
<1>1. /\ TypeOK /\ TypeOK' /\ RequestsValid /\ EntryInv /\ TermsOrdered
      /\ EntriesTyped
  BY EntriesAreTyped DEF Ground
<1>2. EntriesMove /\ Roles /\ NewRequests
  BY <1>1, StepEntries, StepRoles, StepMessages DEF EntryInv
<1>3. ASSUME NEW i \in Server, NEW n \in Nat, NEW e, Wrote(i, n, e)
      PROVE  /\ e.term = rlh_term[i] /\ e.term >= 1
             /\ n >= 2 => log[i][n - 1].term <= e.term
  <2>1. /\ n = Len(log[i]) + 1 /\ e.term = rlh_term[i] /\ ri_state'[i] = "leader"
    BY <1>3 DEF Wrote
  <2>2. ri_state[i] \in {"candidate", "leader"}
    BY <1>2, <2>1 DEF Roles
  <2>3. rlh_term[i] >= 1 /\ Ordered(log[i], rlh_term[i])
    BY <1>1, <2>2 DEF TermsOrdered
  <2>4. Len(log[i]) \in Nat
    BY <1>1 DEF EntriesTyped
  <2>5. n >= 2 => n - 1 \in 1 .. Len(log[i])
    BY <2>1, <2>4
  <2> QED
    BY <2>1, <2>3, <2>5 DEF Ordered
<1>4. ASSUME NEW n \in Nat, NEW e, Logged(n, e)' PROVE e.term >= 1
  BY <1>2, <1>3, <1>4 DEF EntriesMove, EntriesOrdered
<1>5. ASSUME NEW n \in Nat, NEW e, NEW p, Linked(n, e, p)' PROVE p.term <= e.term
  <2>1. CASE Linked(n, e, p)
    BY <2>1 DEF EntriesOrdered
  <2>2. ASSUME NEW i \in Server, Wrote(i, n, e), n >= 2, p = log[i][n - 1]
        PROVE  p.term <= e.term
    BY <1>3, <2>2
  <2> QED
    BY <1>2, <1>5, <2>1, <2>2 DEF EntriesMove
<1>6. ASSUME NEW m \in msgs', IsRequest(m), m.prev_log_index = -1
      PROVE  m.prev.term = 0
  <2>1. CASE m \in msgs
    BY <1>6, <2>1 DEF EntriesOrdered
  <2>2. CASE Sent(m)
    BY <1>6, <2>2 DEF Sent
  <2> QED
    BY <1>2, <1>6, <2>1, <2>2 DEF NewRequests
<1> QED
  BY <1>4, <1>5, <1>6 DEF EntriesOrdered, IsRequest

\* The requests of a term have one sender.
OneSender ==
  \A m, r \in msgs :
    IsRequest(m) /\ IsRequest(r) /\ m.leader_term = r.leader_term => m.src = r.src

\* Every step keeps it.
LEMMA StepOneSender ==
  ASSUME Ground, Ground', OneSender, [Next]_vars
  PROVE  OneSender'
<1>1. TypeOK /\ RequestsOwned /\ LeadersOwn
  BY DEF Ground
<1>2. NewRequests
  BY <1>1, StepMessages
<1>3. \A m \in msgs' : IsRequest(m) => m.src \in Server
  <2>1. TypeOK'
    BY DEF Ground
  <2> QED
    BY <2>1, RequestFields DEF TypeOK, NetworkType
<1>4. ASSUME NEW m, IsRequest(m), Sent(m), m.src \in Server, NEW r \in msgs,
             IsRequest(r), r.src \in Server, m.leader_term = r.leader_term
      PROVE  m.src = r.src
  <2>1. ri_state[m.src] = "leader" /\ m.leader_term = rlh_term[m.src]
    BY <1>4 DEF Sent
  <2>2. Owner(rlh_term[m.src], r.src)
    BY <1>1, <1>4, <2>1 DEF RequestsOwned
  <2> QED
    BY <1>1, <1>4, <2>1, <2>2 DEF LeadersOwn
<1>5. ASSUME NEW m, IsRequest(m), Sent(m), m.src \in Server, NEW r,
             IsRequest(r), Sent(r), r.src \in Server, m.leader_term = r.leader_term
      PROVE  m.src = r.src
  <2>1. /\ ri_state[m.src] = "leader" /\ m.leader_term = rlh_term[m.src]
        /\ ri_state[r.src] = "leader" /\ r.leader_term = rlh_term[r.src]
    BY <1>5 DEF Sent
  <2>2. Owner(rlh_term[r.src], r.src)
    BY <1>1, <1>5, <2>1 DEF LeadersOwn
  <2> QED
    BY <1>1, <1>5, <2>1, <2>2 DEF LeadersOwn
<1> SUFFICES ASSUME NEW m \in msgs', NEW r \in msgs', IsRequest(m), IsRequest(r),
                    m.leader_term = r.leader_term
             PROVE  m.src = r.src
  BY DEF OneSender, IsRequest
<1>6. (m \in msgs \/ Sent(m)) /\ (r \in msgs \/ Sent(r))
  BY <1>2 DEF NewRequests
<1>7. m.src \in Server /\ r.src \in Server
  BY <1>3
<1>8. CASE m \in msgs /\ r \in msgs
  BY <1>8 DEF OneSender
<1> QED
  BY <1>4, <1>5, <1>6, <1>7, <1>8

\* An entry of a server's log was there, or the server leads, or it has copied
\* the entry of a request.
LEMMA NewPlace ==
  ASSUME TypeOK, TypeOK', RequestsValid, [Next]_vars, NEW j \in Server,
         NEW k \in 1 .. Len(log'[j])
  PROVE  \/ k \in 1 .. Len(log[j]) /\ log'[j][k] = log[j][k]
         \/ ri_state'[j] = "leader"
         \/ \E r \in msgs : /\ Copied(r) /\ r.dst = j /\ k = r.prev_log_index + 2
                            /\ log'[j][k] = [term |-> r.log_term, data |-> r.data]
<1>1. LogsMove
  BY StepLogs
<1>2. Len(log[j]) \in Nat /\ Len(log'[j]) \in Nat /\ k \in Nat
  BY DEF TypeOK, LogType
<1>3. CASE Shorter(j)
  BY <1>2, <1>3 DEF Shorter
<1>4. CASE Own(j)
  BY <1>4 DEF Own
<1>5. ASSUME NEW r \in msgs, Copied(r), r.dst = j
      PROVE  \/ k \in 1 .. Len(log[j]) /\ log'[j][k] = log[j][k]
             \/ /\ k = r.prev_log_index + 2
                /\ log'[j][k] = [term |-> r.log_term, data |-> r.data]
  <2> DEFINE p == r.prev_log_index + 1
             e == [term |-> r.log_term, data |-> r.data]
  <2>1. Extended(j, p, e) /\ IsRequest(r)
    BY <1>5 DEF Copied
  <2>2. r.prev_log_index \in Int
    BY <2>1, RequestNumbers
  <2>3. k = p + 1 => k = r.prev_log_index + 2
    BY <2>2
  <2> HIDE DEF p, e
  <2>4. /\ p \in 0 .. Len(log[j]) /\ Len(log'[j]) = p + 1 /\ log'[j][p + 1] = e
        /\ \A x \in 1 .. p : log'[j][x] = log[j][x]
    BY <2>1 DEF Extended
  <2>5. CASE k <= p
    BY <1>2, <2>4, <2>5
  <2>6. CASE k = p + 1
    BY <2>3, <2>4, <2>6 DEF e
  <2> QED
    BY <1>2, <2>4, <2>5, <2>6
<1>6. ASSUME NEW c \in Server, Others(c), c # j
      PROVE  Shorter(j)
  BY <1>6, SameIsShorter DEF Others
<1>7. ASSUME NEW r \in msgs, Copied(r)
      PROVE  Others(r.dst) /\ r.dst \in Server
  BY <1>7, RequestNumbers DEF Copied
<1> QED
  BY <1>1, <1>3, <1>4, <1>5, <1>6, <1>7 DEF LogsMove, Own

\* Server j is not behind leader i; while it is in i's term, all it has up to
\* place n past i's initial index is of that term.
Follows(i, j, n) ==
  /\ rlh_term[i] <= rlh_term[j]
  /\ rlh_term[j] = rlh_term[i] =>
       \A k \in 1 .. Len(log[j]) :
         k > rls_initial_term_idx[i] + 1 /\ k <= n => log[j][k].term = rlh_term[i]

\* Who follows a leader goes on doing so.
LEMMA FollowsKept ==
  ASSUME Ground, Ground', LeaderTail, OwnRequests, [Next]_vars, NEW i \in Server,
         ri_state[i] = "leader", ri_state'[i] = "leader", NEW j \in Server, j # i,
         NEW n \in Int, NEW x \in Int, x <= n, Follows(i, j, n)
  PROVE  Follows(i, j, x)'
<1>1. /\ TypeOK /\ TypeOK' /\ EntriesTyped /\ EntriesTyped' /\ RequestsValid
      /\ RequestsOwned /\ LeadersOwn /\ ElectionSafety'
  BY EntriesAreTyped, PTL DEF Ground
<1>2. Roles
  BY <1>1, StepRoles
<1>3. /\ rlh_term'[i] = rlh_term[i]
      /\ rls_initial_term_idx'[i] = rls_initial_term_idx[i]
  BY LeaderSteady
<1>4. /\ rlh_term[i] \in Nat /\ rlh_term[j] \in Nat /\ rlh_term'[j] \in Nat
      /\ rlh_term[j] <= rlh_term'[j] /\ rlh_term[i] <= rlh_term[j]
  BY <1>1, <1>2 DEF EntriesTyped, Roles, Follows
<1> DEFINE b == rls_initial_term_idx[i] + 1
<1>5. ASSUME rlh_term'[j] = rlh_term'[i], NEW k \in 1 .. Len(log'[j]), k > b, k <= x
      PROVE  log'[j][k].term = rlh_term'[i]
  <2>1. rlh_term[j] = rlh_term[i]
    BY <1>3, <1>4, <1>5
  <2>2. CASE k \in 1 .. Len(log[j]) /\ log'[j][k] = log[j][k]
    <3>1. k <= n
      BY <1>5, <2>2
    <3> QED
      BY <1>3, <1>5, <2>1, <2>2, <3>1 DEF Follows
  <2>3. CASE ri_state'[j] = "leader"
    BY <1>1, <1>5, <2>3 DEF ElectionSafety
  <2>4. ASSUME NEW r \in msgs, Copied(r), r.dst = j, k = r.prev_log_index + 2,
               log'[j][k] = [term |-> r.log_term, data |-> r.data]
        PROVE  log'[j][k].term = rlh_term'[i]
    <3>1. IsRequest(r) /\ ~r.heartbeat /\ rlh_term'[j] = r.leader_term
      BY <2>4 DEF Copied
    <3>2. r.src \in Server /\ r.prev_log_index \in Int
      BY <1>1, <3>1, RequestNumbers
    <3>3. r.leader_term = rlh_term[i]
      BY <1>3, <1>5, <3>1
    <3>4. Owner(rlh_term[i], r.src)
      BY <1>1, <3>1, <3>3 DEF RequestsOwned
    <3>5. r.src = i
      BY <1>1, <3>2, <3>4 DEF LeadersOwn
    <3>6. Mirrors(r, i)
      BY <3>1, <3>3, <3>5 DEF OwnRequests
    <3>7. /\ r.prev_log_index + 2 <= Len(log[i])
          /\ log[i][r.prev_log_index + 2] = [term |-> r.log_term, data |-> r.data]
      <4> DEFINE y == r.prev_log_index + 1
      <4>1. y + 1 <= Len(log[i])
            /\ log[i][y + 1] = [term |-> r.log_term, data |-> r.data]
        BY <3>1, <3>6 DEF Mirrors
      <4>2. y + 1 = r.prev_log_index + 2
        BY <3>2
      <4> HIDE DEF y
      <4> QED
        BY <4>1, <4>2
    <3>8. k \in 1 .. Len(log[i]) /\ log[i][k] = log'[j][k]
      <4>1. Len(log[i]) \in Nat
        BY <1>1 DEF EntriesTyped
      <4> QED
        BY <2>4, <3>7, <4>1
    <3>9. log[i][k].term = rlh_term[i]
      BY <1>5, <3>8 DEF LeaderTail
    <3> QED
      BY <1>3, <3>8, <3>9
  <2> QED
    BY <1>1, <2>2, <2>3, <2>4, NewPlace
<1>6. rlh_term'[i] <= rlh_term'[j]
  BY <1>3, <1>4
<1> HIDE DEF b
<1>7. rls_initial_term_idx'[i] + 1 = b
  BY <1>3 DEF b
<1> QED
  BY <1>5, <1>6, <1>7 DEF Follows

\* Past its initial index a leader's next-idx is not past what the follower
\* has of the leader; nor is a reply that moves it.
Followed ==
  /\ \A i, j \in Server :
       /\ ri_state[i] = "leader" /\ j # i
       /\ rfi_next_idx[i][j] > rls_initial_term_idx[i] + 1
       => Follows(i, j, rfi_next_idx[i][j])
  /\ \A m \in msgs :
       /\ IsAnswer(m) /\ ~m.err_non_matching /\ ~m.heartbeat
       /\ ri_state[m.dst] = "leader" /\ m.leader_term = rlh_term[m.dst]
       => m.src # m.dst /\ Follows(m.dst, m.src, m.prev_log_index + 2)

\* Agreement of logs, in a form that can be primed.
TermsShare ==
  \A q, i \in Server : \A x \in Nat :
    /\ x >= 1 /\ x <= Len(log[q]) /\ x <= Len(log[i])
    /\ log[q][x].term = log[i][x].term
    => Share(log[q], log[i], x)

\* Logs that match give it.
LEMMA TermsAreShared == TypeOK /\ AllAgree => TermsShare
BY AgreeShare DEF TermsShare, AllAgree

\* A server that has stored the entry of a request follows its leader up to
\* that entry.
LEMMA AnswerFollows ==
  ASSUME Ground, Ground', Traces, Traces', EntriesOrdered, [Next]_vars,
         NEW r \in msgs, AppendAccept(r), ~r.heartbeat,
         PrepareRc(r.dst, r) \notin {"ERANGE", "EEXIST"},
         ri_state'[r.src] = "leader", r.leader_term = rlh_term'[r.src]
  PROVE  r.src # r.dst /\ Follows(r.src, r.dst, r.prev_log_index + 2)'
<1>1. /\ TypeOK /\ TypeOK' /\ EntriesTyped /\ EntriesTyped' /\ RequestsHeld
      /\ RequestsValid /\ OwnRequests /\ LeaderTail' /\ TermsShare'
  BY EntriesAreTyped, TermsAreShared, PTL DEF Ground, Traces
<1>2. IsRequest(r) /\ r \in AppendRequest
  BY <1>1, MessageKinds DEF AppendAccept, IsRequest, TypeOK, NetworkType
<1>3. /\ r.src \in Server /\ r.dst \in Server /\ r.prev_log_index \in Int
      /\ r.prev_log_index >= -1 /\ r.src # r.dst /\ r.leader_term \in Nat
  BY <1>1, <1>2, RequestNumbers DEF RequestsHeld, RequestsValid
<1>4. PICK i \in Server : i = r.src
  BY <1>3
<1>5. PICK q \in Server : q = r.dst
  BY <1>3
<1>6. FatalOf(q, r) = "none"
  BY <1>5 DEF AppendAccept
<1> DEFINE x == r.prev_log_index + 1
           P == PrunedLog(q, r)
           e == [term |-> r.log_term, data |-> r.data]
<1>7. /\ x \in Nat /\ P \in Seq(Entry) /\ Len(P) <= Len(log[q])
      /\ \A k \in 1 .. Len(P) : P[k] = log[q][k]
      /\ ~Prunes(q, r) => P = log[q]
      /\ PrepareRc(q, r) = "OK" => Len(P) = x
  BY <1>1, <1>2, <1>3, <1>6, PreparedLog
<1>8. /\ log'[i] = log[i] /\ rlh_term'[i] = rlh_term[i] /\ ri_state'[i] = ri_state[i]
      /\ rlh_term'[q] = r.leader_term
  BY <1>1, <1>3, <1>4, <1>5 DEF AppendAccept, AdoptTerm, TypeOK, LogType, HeaderType, StateType
<1>9. Mirrors(r, i)
  BY <1>1, <1>2, <1>4, <1>8 DEF OwnRequests
<1>10. x + 1 <= Len(log[i]) /\ log[i][x + 1] = e
  BY <1>9 DEF Mirrors
<1>11. log'[q] = IF Writes(q, r) THEN Append(P, e) ELSE P
  BY <1>1, <1>5 DEF AppendAccept, TypeOK, LogType
<1>12. x + 1 <= Len(log'[q]) /\ log'[q][x + 1].term = r.log_term
  <2>1. CASE PrepareRc(q, r) = "OK"
    <3>1. Writes(q, r)
      BY <2>1 DEF Writes
    <3>2. e \in Entry /\ e.term = r.log_term
      BY <1>1, <1>2, <1>6, <3>1, PrepareType
    <3>3. log'[q] = Append(P, e) /\ Len(P) = x
      BY <1>7, <1>11, <2>1, <3>1
    <3> HIDE DEF P, e
    <3>4. Len(log'[q]) = x + 1 /\ log'[q][x + 1] = e
      BY <1>7, <3>2, <3>3
    <3> QED
      BY <1>7, <3>2, <3>4
  <2>2. CASE PrepareRc(q, r) # "OK"
    <3>1. Ahead(q, r) /\ AlreadyStored(q, r)
      BY <1>5, <2>2 DEF PrepareRc
    <3>2. ~Writes(q, r) /\ ~Prunes(q, r)
      BY <2>2, <3>1 DEF Writes, Prunes
    <3>3. log'[q] = log[q]
      BY <1>7, <1>11, <3>2
    <3>4. Len(log[q]) \in Nat /\ Len(log[i]) \in Nat
      BY <1>1 DEF EntriesTyped
    <3>5. x + 1 <= Len(log[q])
      BY <1>3, <3>1, <3>4 DEF Ahead, LastIdx
    <3>6. r.log_term > 0
      <4>1. Logged(x + 1, e)
        BY <1>7, <1>10, <3>4 DEF Logged
      <4>2. e.term >= 1 /\ x + 1 \in Nat
        BY <1>7, <4>1 DEF EntriesOrdered
      <4>3. e.term = r.log_term
        OBVIOUS
      <4>4. r.log_term \in Int
        BY <1>1, <1>2, RequestNumbers
      <4> HIDE DEF e
      <4> QED
        BY <4>2, <4>3, <4>4
    <3>7. log[q][x + 1].term = r.log_term
      BY <1>3, <1>7, <3>1, <3>4, <3>5, <3>6 DEF AlreadyStored, EntryAt, LastIdx
    <3> QED
      BY <3>3, <3>5, <3>7
  <2> QED
    BY <2>1, <2>2
<1>13. PICK y \in Nat : y = x + 1 /\ y >= 1
  BY <1>7
<1>14. y = r.prev_log_index + 2
  BY <1>3, <1>13
<1> HIDE DEF x, P
<1>15. Share(log'[q], log'[i], y)
  <2>1. y <= Len(log'[q]) /\ y <= Len(log'[i]) /\ log'[q][y].term = log'[i][y].term
    BY <1>8, <1>10, <1>12, <1>13
  <2> QED
    BY <1>1, <1>13, <2>1 DEF TermsShare
<1>16. ASSUME NEW k \in 1 .. Len(log'[q]), k > rls_initial_term_idx'[i] + 1, k <= y
       PROVE  log'[q][k].term = rlh_term'[i]
  <2>1. Len(log'[i]) \in Nat
    BY <1>1 DEF EntriesTyped
  <2>2. k \in 1 .. y /\ k \in 1 .. Len(log'[i])
    BY <1>15, <1>16, <2>1 DEF Share
  <2>3. log'[q][k] = log'[i][k]
    BY <1>15, <2>2 DEF Share
  <2> QED
    BY <1>1, <1>4, <1>16, <2>2, <2>3 DEF LeaderTail
<1>17. rlh_term'[q] = rlh_term'[i] /\ rlh_term'[i] \in Nat
  BY <1>1, <1>4, <1>8 DEF EntriesTyped
<1>18. Follows(i, q, y)'
  BY <1>16, <1>17 DEF Follows
<1> QED
  BY <1>3, <1>4, <1>5, <1>14, <1>18

\* Every step keeps followers following.
LEMMA StepFollowed ==
  ASSUME ~LateAcks, Ground, Ground', Traces, Traces', EntriesOrdered, Followed,
         [Next]_vars
  PROVE  Followed'
<1>1. /\ TypeOK /\ TypeOK' /\ RequestsHeld /\ AnswersHeld /\ LeaderTail
      /\ OwnRequests /\ CandidateViable
  BY DEF Ground, Traces
<1>2. Roles
  BY <1>1, StepRoles
<1>3. \A i, j \in Server : /\ rfi_next_idx[i][j] \in Int /\ rfi_next_idx'[i][j] \in Int
                           /\ rls_initial_term_idx[i] \in Int
  BY <1>1 DEF TypeOK, LeaderType
<1>4. ASSUME NEW i \in Server, NEW j \in Server, ri_state'[i] = "leader", j # i,
             rfi_next_idx'[i][j] > rls_initial_term_idx'[i] + 1
      PROVE  Follows(i, j, rfi_next_idx[i][j])'
  <2>1. CASE ri_state[i] # "leader"
    <3>1. PICK m \in msgs : BecomeLeader(m) /\ m.dst = i
      BY <1>1, <1>4, <2>1, LeadersAreElected
    <3>2. /\ rls_initial_term_idx'[i] = SyncIdx(i)
          /\ rfi_next_idx'[i][j] = SyncIdx(i) + 1
      BY <1>1, <3>1 DEF BecomeLeader, TypeOK, LeaderType
    <3>3. SyncIdx(i) \in Int
      BY <1>1 DEF SyncIdx, TypeOK, LogType
    <3> QED
      BY <1>4, <3>2, <3>3
  <2>2. CASE ri_state[i] = "leader"
    <3>1. rls_initial_term_idx'[i] = rls_initial_term_idx[i]
      BY <1>4, <2>2, LeaderSteady
    <3>2. PICK x \in Int : x = rfi_next_idx'[i][j]
      BY <1>3
    <3>3. CASE x <= rfi_next_idx[i][j]
      <4>1. rfi_next_idx[i][j] > rls_initial_term_idx[i] + 1
        BY <1>3, <1>4, <3>1, <3>2, <3>3
      <4>2. Follows(i, j, rfi_next_idx[i][j])
        BY <1>4, <2>2, <4>1 DEF Followed
      <4>3. PICK n \in Int : n = rfi_next_idx[i][j]
        BY <1>3
      <4>4. Follows(i, j, n) /\ x <= n
        BY <3>3, <4>2, <4>3
      <4>5. Follows(i, j, x)'
        BY <1>1, <1>4, <2>2, <4>4, FollowsKept
      <4> QED
        BY <3>2, <4>5
    <3>4. ASSUME NEW m \in msgs, IsAnswer(m), AckRelevant(m), m.dst = i, m.src = j,
                 ~m.heartbeat, ~m.err_non_matching, x = m.prev_log_index + 2
          PROVE  Follows(i, j, rfi_next_idx[i][j])'
      <4>1. m.leader_term = rlh_term[i]
        BY <3>4 DEF AckRelevant, IsAnswer
      <4>2. Follows(i, j, x)
        BY <2>2, <3>4, <4>1 DEF Followed
      <4>3. Follows(i, j, x)'
        BY <1>1, <1>4, <2>2, <4>2, FollowsKept
      <4> QED
        BY <3>2, <4>3
    <3>5. CASE \E m \in msgs : BecomeLeader(m)
      <4>1. PICK m \in msgs : BecomeLeader(m)
        BY <3>5
      <4>2. m.dst # i
        BY <2>2, <4>1 DEF BecomeLeader, Relevant
      <4>3. rfi_next_idx'[i] = rfi_next_idx[i]
        BY <1>1, <4>1, <4>2 DEF BecomeLeader, TypeOK, LeaderType
      <4>4. x <= rfi_next_idx[i][j]
        BY <1>3, <3>2, <4>3
      <4> QED
        BY <3>3, <4>4
    <3>6. CASE ~ \E m \in msgs : BecomeLeader(m)
      <4>1. NextMoves
        BY <1>1, <3>6, StepNext
      <4> QED
        BY <3>2, <3>3, <3>4, <4>1 DEF NextMoves
    <3> QED
      BY <3>5, <3>6
  <2> QED
    BY <2>1, <2>2
<1>5. ASSUME NEW m \in msgs', IsAnswer(m), ~m.err_non_matching, ~m.heartbeat,
             ri_state'[m.dst] = "leader", m.leader_term = rlh_term'[m.dst]
      PROVE  m.src # m.dst /\ Follows(m.dst, m.src, m.prev_log_index + 2)'
  <2>1. m.src \in Server /\ m.dst \in Server /\ m.prev_log_index \in Int
    BY <1>1, <1>5, AnswerFields DEF TypeOK, NetworkType
  <2>2. PICK i \in Server : i = m.dst
    BY <2>1
  <2>3. PICK j \in Server : j = m.src
    BY <2>1
  <2>4. PICK x \in Int : x = m.prev_log_index + 2
    BY <2>1
  <2>5. CASE m \in msgs
    <3>1. rlh_term'[i] = rlh_term[i] /\ ri_state[i] \in {"candidate", "leader"}
      BY <1>2, <1>5, <2>2 DEF Roles
    <3>2. ri_state[i] # "candidate"
      BY <1>1, <1>5, <2>2, <2>5, <3>1 DEF AnswersHeld, Held
    <3>3. j # i /\ Follows(i, j, x)
      BY <1>5, <2>2, <2>3, <2>4, <2>5, <3>1, <3>2 DEF Followed
    <3>4. Follows(i, j, x)'
      BY <1>1, <1>5, <2>2, <3>1, <3>2, <3>3, FollowsKept
    <3> QED
      BY <2>2, <2>3, <2>4, <3>3, <3>4
  <2>6. CASE m \notin msgs
    <3>1. Origin(m)
      BY <1>5, <2>6, Origins
    <3>2. PICK r \in msgs : ReplyOf(m, r)
      BY <1>5, <3>1 DEF Origin
    <3>3. /\ AppendAccept(r)
          /\ m = AppendReplyTo(r.dst, r, r.leader_term, SyncedAfterAppend(r.dst, r) - 1,
                               FALSE, PrepareRc(r.dst, r) \in {"ERANGE", "EEXIST"},
                               PrepareRc(r.dst, r) = "OK")
      BY <3>2 DEF ReplyOf
    <3>4. /\ m.src = r.dst /\ m.dst = r.src /\ m.leader_term = r.leader_term
          /\ m.prev_log_index = r.prev_log_index /\ m.heartbeat = r.heartbeat
          /\ m.err_non_matching = (PrepareRc(r.dst, r) \in {"ERANGE", "EEXIST"})
      <4> DEFINE s == SyncedAfterAppend(r.dst, r) - 1
                 bad == PrepareRc(r.dst, r) \in {"ERANGE", "EEXIST"}
                 ok == PrepareRc(r.dst, r) = "OK"
      <4>1. m = AppendReplyTo(r.dst, r, r.leader_term, s, FALSE, bad, ok)
        BY <3>3
      <4> HIDE DEF s, bad, ok
      <4>2. /\ m.src = r.dst /\ m.dst = r.src /\ m.leader_term = r.leader_term
            /\ m.prev_log_index = r.prev_log_index /\ m.heartbeat = r.heartbeat
            /\ m.err_non_matching = bad
        BY <4>1 DEF AppendReplyTo
      <4> QED
        BY <4>2 DEF bad
    <3>5. PrepareRc(r.dst, r) \notin {"ERANGE", "EEXIST"} /\ ~r.heartbeat
      BY <1>5, <3>4
    <3>6. ri_state'[r.src] = "leader" /\ r.leader_term = rlh_term'[r.src]
      BY <1>5, <3>4
    <3>7. r.src # r.dst /\ Follows(r.src, r.dst, r.prev_log_index + 2)'
      BY <3>3, <3>5, <3>6, AnswerFollows
    <3> QED
      BY <3>4, <3>7
  <2> QED
    BY <2>5, <2>6
<1> QED
  BY <1>4, <1>5 DEF Followed, IsAnswer

\* The receiver of heartbeat m has been in its leader's term; while it is
\* there, it has m's previous entry if its log is that long.
PrevHeld(m) ==
  LET n == m.prev_log_index + 1
      j == m.dst
  IN
  /\ n >= 1 /\ m.leader_term <= rlh_term[j]
  /\ rlh_term[j] = m.leader_term /\ n <= Len(log[j]) => log[j][n] = m.prev

\* The term in heartbeat m is that of an entry whose predecessor is m's
\* previous entry, wherever it stands.
TermHeld(m) ==
  LET n == m.prev_log_index + 1 IN
  /\ m.log_term >= 1 /\ \E o \in Server : Owner(m.log_term, o)
  /\ \A c \in Server : ri_state[c] = "leader" /\ rlh_term[c] = m.log_term =>
       n + 1 <= Len(log[c])
  /\ \A e, p : Linked(n + 1, e, p) /\ e.term = m.log_term => p = m.prev

\* What heartbeats say of the entry before.
HeartbeatsHeld ==
  \A m \in msgs : IsRequest(m) /\ m.heartbeat => PrevHeld(m) \/ TermHeld(m)

\* The entry that the term of a heartbeat is from keeps its predecessor.
LEMMA TermHeldKept ==
  ASSUME ~LateVotes, Ground, Ground', [Next]_vars, NEW m, m.prev_log_index \in Int,
         m.prev_log_index >= -1, TermHeld(m)
  PROVE  TermHeld(m)'
<1>1. /\ TypeOK /\ TypeOK' /\ EntriesTyped /\ EntriesTyped' /\ CandidateViable
      /\ OneEntry /\ RequestsValid /\ LeadersOwn'
  BY EntriesAreTyped, PTL DEF Ground, EntryInv
<1>2. EntriesMove /\ Roles
  BY <1>1, StepEntries, StepRoles
<1>3. PICK x \in Nat : x = m.prev_log_index + 1 + 1
  OBVIOUS
<1>4. PICK t : t = m.log_term
  OBVIOUS
<1>5. /\ t >= 1 /\ \E o \in Server : Owner(t, o)
      /\ \A c \in Server : ri_state[c] = "leader" /\ rlh_term[c] = t => x <= Len(log[c])
      /\ \A e, p : Linked(x, e, p) /\ e.term = t => p = m.prev
  BY <1>3, <1>4 DEF TermHeld
<1>6. PICK o \in Server : Owner(t, o)
  BY <1>5
<1>7. Owner(t, o)'
  BY <1>1, <1>6, OwnerKept
<1>8. ASSUME NEW c \in Server, ri_state'[c] = "leader", rlh_term'[c] = t
      PROVE  ri_state[c] = "leader" /\ rlh_term[c] = t
  <2>1. ri_state[c] \in {"candidate", "leader"} /\ rlh_term[c] = t
    BY <1>2, <1>8 DEF Roles
  <2>2. Owner(rlh_term[c], o)'
    BY <1>7, <1>8
  <2>3. o = c
    BY <1>1, <1>8, <2>2 DEF LeadersOwn
  <2>4. ri_state[c] # "candidate"
    BY <1>6, <2>1, <2>3 DEF Owner
  <2> QED
    BY <2>1, <2>4
<1>9. ASSUME NEW c \in Server, ri_state'[c] = "leader", rlh_term'[c] = t
      PROVE  x <= Len(log[c]) /\ x <= Len(log'[c])
  <2>1. x <= Len(log[c])
    BY <1>5, <1>8, <1>9
  <2>2. Grows(log[c], log'[c])
    BY <1>8, <1>9, LeaderSteady
  <2>3. Len(log[c]) \in Nat /\ Len(log'[c]) \in Nat
    BY <1>1 DEF EntriesTyped
  <2> QED
    BY <2>1, <2>2, <2>3 DEF Grows
<1>10. ASSUME NEW e, NEW p, Linked(x, e, p)', e.term = t
       PROVE  p = m.prev
  <2>1. CASE Linked(x, e, p)
    BY <1>5, <1>10, <2>1
  <2>2. ASSUME NEW i \in Server, Wrote(i, x, e)
        PROVE  FALSE
    <3>1. /\ ri_state'[i] = "leader" /\ x = Len(log[i]) + 1 /\ e.term = rlh_term[i]
      BY <2>2 DEF Wrote
    <3>2. rlh_term'[i] = t
      BY <1>2, <1>10, <3>1 DEF Roles
    <3>3. x <= Len(log[i])
      BY <1>9, <3>1, <3>2
    <3>4. Len(log[i]) \in Nat
      BY <1>1 DEF EntriesTyped
    <3> QED
      BY <3>1, <3>3, <3>4
  <2> QED
    BY <1>2, <1>10, <2>1, <2>2 DEF EntriesMove
<1> QED
  BY <1>3, <1>4, <1>5, <1>7, <1>9, <1>10 DEF TermHeld

\* The receiver keeps a heartbeat's previous entry while it waits.
LEMMA PrevHeldKept ==
  ASSUME Ground, Ground', Traces, OneSender, [Next]_vars, NEW m \in msgs,
         m \in msgs', IsRequest(m), m.heartbeat, PrevHeld(m)
  PROVE  PrevHeld(m)'
<1>1. /\ TypeOK /\ TypeOK' /\ EntriesTyped /\ EntriesTyped' /\ RequestsValid
      /\ LeadersOwn' /\ RequestsOwned' /\ RequestsHeld /\ OneRequest
  BY EntriesAreTyped, PTL DEF Ground, Traces
<1>2. Roles
  BY <1>1, StepRoles
<1>3. /\ m.src \in Server /\ m.dst \in Server /\ m.leader_term \in Nat
      /\ m.prev_log_index \in Int /\ m.src # m.dst
  BY <1>1, RequestNumbers DEF RequestsHeld
<1>4. PICK j \in Server : j = m.dst
  BY <1>3
<1>5. PICK n \in Int : n = m.prev_log_index + 1
  BY <1>3
<1>6. /\ n >= 1 /\ m.leader_term <= rlh_term[j]
      /\ rlh_term[j] = m.leader_term /\ n <= Len(log[j]) => log[j][n] = m.prev
  BY <1>4, <1>5 DEF PrevHeld
<1>7. /\ rlh_term[j] \in Nat /\ rlh_term'[j] \in Nat /\ rlh_term[j] <= rlh_term'[j]
      /\ Len(log[j]) \in Nat /\ Len(log'[j]) \in Nat
  BY <1>1, <1>2 DEF EntriesTyped, Roles
<1>8. ASSUME rlh_term'[j] = m.leader_term, n <= Len(log'[j])
      PROVE  log'[j][n] = m.prev
  <2>1. rlh_term[j] = m.leader_term /\ n \in 1 .. Len(log'[j])
    BY <1>3, <1>6, <1>7, <1>8
  <2>2. CASE n \in 1 .. Len(log[j]) /\ log'[j][n] = log[j][n]
    BY <1>6, <2>1, <2>2
  <2>3. CASE ri_state'[j] = "leader"
    <3>1. Owner(m.leader_term, m.src)'
      BY <1>1 DEF RequestsOwned
    <3>2. Owner(rlh_term[j], m.src)'
      BY <1>8, <3>1
    <3> QED
      BY <1>1, <1>3, <1>4, <2>3, <3>2 DEF LeadersOwn
  <2>4. ASSUME NEW r \in msgs, Copied(r), r.dst = j
        PROVE  FALSE
    <3>1. IsRequest(r) /\ ~r.heartbeat /\ r.leader_term = m.leader_term
      BY <1>8, <2>4 DEF Copied
    <3>2. r.src = m.src
      BY <3>1 DEF OneSender
    <3>3. r = m
      BY <1>1, <1>4, <2>4, <3>1, <3>2 DEF OneRequest
    <3> QED
      BY <3>1, <3>3
  <2> QED
    BY <1>1, <2>1, <2>2, <2>3, <2>4, NewPlace
<1> QED
  BY <1>4, <1>5, <1>6, <1>7, <1>3, <1>8 DEF PrevHeld

\* A heartbeat says so when it is sent: next-idx is at an entry of the leader,
\* or past all of them, and then the follower has acknowledged the last one.
LEMMA SentPrev ==
  ASSUME Ground, LeaderTail, EntriesOrdered, Followed, NEW m, IsRequest(m), Sent(m),
         m.src \in Server, m.dst \in Server, m.prev_log_index \in Int
  PROVE  PrevHeld(m) \/ TermHeld(m)
<1>1. /\ TypeOK /\ EntriesTyped /\ OneLink /\ LeaderHasAll /\ EntriesOwned
      /\ NextIdxBound
  BY EntriesAreTyped DEF Ground, EntryInv
<1>2. PICK i \in Server : i = m.src
  OBVIOUS
<1>3. PICK j \in Server : j = m.dst
  OBVIOUS
<1>4. PICK n \in Int : n = m.prev_log_index + 1
  OBVIOUS
<1>5. /\ ri_state[i] = "leader" /\ m.leader_term = rlh_term[i]
      /\ j # i /\ n \in Nat /\ n = rfi_next_idx[i][j]
      /\ n >= 1 /\ n <= Len(log[i]) => m.prev = log[i][n]
      /\ n + 1 <= Len(log[i]) => m.log_term = log[i][n + 1].term
  BY <1>2, <1>3, <1>4 DEF Sent
<1>6. Len(log[i]) \in Nat /\ rlh_term[i] \in Nat /\ log[i] \in Seq(Entry)
  BY <1>1 DEF EntriesTyped
<1>7. CASE n + 1 <= Len(log[i])
  <2>1. PICK x \in Nat : x = n + 1
    BY <1>5
  <2>2. x \in 1 .. Len(log[i]) /\ m.log_term = log[i][x].term
    BY <1>5, <1>6, <1>7, <2>1
  <2>3. Logged(x, log[i][x])
    BY <2>2 DEF Logged
  <2>4. m.log_term >= 1
    BY <2>2, <2>3 DEF EntriesOrdered
  <2>5. \E o \in Server : Owner(m.log_term, o)
    BY <1>1, <2>2, <2>3 DEF EntriesOwned
  <2>6. ASSUME NEW c \in Server, ri_state[c] = "leader", rlh_term[c] = m.log_term
        PROVE  x <= Len(log[c])
    BY <1>1, <2>2, <2>3, <2>6 DEF LeaderHasAll
  <2>7. ASSUME NEW e, NEW p, Linked(x, e, p), e.term = m.log_term
        PROVE  p = m.prev
    <3>1. x >= 2
      BY <1>1, <2>7, LinkedIsLogged
    <3>2. x \in 2 .. Len(log[i]) /\ n >= 1 /\ x - 1 = n
      BY <1>5, <2>1, <2>2, <3>1
    <3>3. Linked(x, log[i][x], log[i][x - 1])
      BY <3>2 DEF Linked
    <3>4. p = log[i][x - 1]
      BY <1>1, <2>2, <2>7, <3>3 DEF OneLink
    <3>5. m.prev = log[i][n]
      BY <1>5, <1>6, <1>7, <3>2
    <3> QED
      BY <3>2, <3>4, <3>5
  <2>8. TermHeld(m)
    <3>1. m.prev_log_index + 1 + 1 = x
      BY <1>4, <2>1
    <3> QED
      BY <2>4, <2>5, <2>6, <2>7, <3>1 DEF TermHeld
  <2> QED
    BY <2>8
<1>8. CASE n + 1 > Len(log[i])
  <2>1. n = Len(log[i])
    BY <1>1, <1>5, <1>6, <1>8 DEF NextIdxBound, Peers
  <2>2. rls_initial_term_idx[i] + 1 \in Nat /\ rls_initial_term_idx[i] + 1 < n
    BY <1>5, <2>1 DEF LeaderTail
  <2>3. Follows(i, j, n)
    BY <1>5, <2>2 DEF Followed
  <2>4. n >= 1 /\ m.prev = log[i][n]
    BY <1>5, <1>6, <2>1, <2>2
  <2>5. ASSUME rlh_term[j] = m.leader_term, n <= Len(log[j])
        PROVE  log[j][n] = m.prev
    <3>1. Len(log[j]) \in Nat
      BY <1>1 DEF EntriesTyped
    <3>2. n \in 1 .. Len(log[j])
      BY <1>5, <2>4, <2>5, <3>1
    <3>3. log[j][n].term = rlh_term[i]
      BY <1>5, <2>2, <2>3, <2>5, <3>2 DEF Follows
    <3>4. Share(log[j], log[i], n)
      BY <1>5, <3>2, <3>3, OwnTermShare
    <3>5. n \in 1 .. n
      BY <1>5, <2>4
    <3> QED
      BY <2>4, <3>4, <3>5 DEF Share
  <2>6. PrevHeld(m)
    BY <1>3, <1>4, <1>5, <2>3, <2>4, <2>5 DEF PrevHeld, Follows
  <2> QED
    BY <2>6
<1> QED
  BY <1>5, <1>6, <1>7, <1>8

\* Every step keeps what heartbeats say of the entry before.
LEMMA StepHeartbeats ==
  ASSUME ~LateVotes, Ground, Ground', Traces, EntriesOrdered, OneSender, Followed,
         HeartbeatsHeld, [Next]_vars
  PROVE  HeartbeatsHeld'
<1>1. /\ TypeOK /\ TypeOK' /\ LeaderTail /\ RequestsValid'
  BY DEF Ground, Traces
<1>2. NewRequests
  BY <1>1, StepMessages
<1> SUFFICES ASSUME NEW m \in msgs', IsRequest(m), m.heartbeat
             PROVE  PrevHeld(m)' \/ TermHeld(m)'
  BY DEF HeartbeatsHeld, IsRequest
<1>3. /\ m.src \in Server /\ m.dst \in Server /\ m.prev_log_index \in Int
      /\ m.prev_log_index >= -1
  BY <1>1, RequestFields DEF TypeOK, NetworkType, RequestsValid, IsRequest
<1>4. ASSUME TermHeld(m) PROVE TermHeld(m)'
  BY <1>3, <1>4, TermHeldKept
<1>5. CASE m \in msgs
  <2>1. PrevHeld(m) \/ TermHeld(m)
    BY <1>5 DEF HeartbeatsHeld
  <2>2. ASSUME PrevHeld(m) PROVE PrevHeld(m)'
    BY <1>5, <2>2, PrevHeldKept
  <2> QED
    BY <1>4, <2>1, <2>2
<1>6. CASE m \notin msgs
  <2>1. Sent(m)
    BY <1>2, <1>6 DEF NewRequests
  <2>2. PrevHeld(m) \/ TermHeld(m)
    BY <1>1, <1>3, <2>1, SentPrev
  <2>3. PICK i \in Server : Sends(i)
    BY <1>6, Origins DEF Origin
  <2>4. log' = log /\ rlh_term' = rlh_term
    BY <2>3 DEF Sends, Heartbeat, RemoteSend, AppendEntrySender, logVars, hdrVars
  <2>5. ASSUME PrevHeld(m) PROVE PrevHeld(m)'
    BY <2>4, <2>5 DEF PrevHeld
  <2> QED
    BY <1>4, <2>2, <2>5
<1> QED
  BY <1>5, <1>6

\* The assertions about the entry that is already stored, and about what is
\* written, hold for every request.
LEMMA RequestsPass ==
  ASSUME Ground, EntriesOrdered, HeartbeatsHeld, NEW m \in msgs, IsRequest(m),
         NEW i \in Server, i = m.dst, ~Stale(i, m)
  PROVE  FatalOf(i, m) \in {"none", "prune_all", "prune_committed"}
<1>1. /\ TypeOK /\ EntriesTyped /\ RequestsValid /\ OneEntry /\ OneLink /\ NoRival
  BY EntriesAreTyped, OwnersHaveNoRival DEF Ground, EntryInv
<1>2. /\ m.prev_log_index \in Int /\ m.prev_log_index >= -1 /\ m.leader_term \in Nat
      /\ m.log_term \in Int /\ m.prev.term \in Nat /\ m.heartbeat \in BOOLEAN
  BY <1>1, RequestNumbers DEF RequestsValid
<1>3. /\ log[i] \in Seq(Entry) /\ Len(log[i]) \in Nat /\ rlh_term[i] \in Nat
  BY <1>1 DEF EntriesTyped
<1> DEFINE e == [term |-> m.log_term, data |-> m.data]
<1>4. PICK n \in Nat : n = m.prev_log_index + 1
  BY <1>2
<1>5. PICK x \in Nat : x = n + 1 /\ x = m.prev_log_index + 2
  BY <1>2, <1>4
<1>6. e.term = m.log_term /\ e.data = m.data
  OBVIOUS
<1>7. ~m.heartbeat => /\ Logged(x, e) /\ m.log_term >= 1
                      /\ n >= 1 => Linked(x, e, m.prev)
  <2> SUFFICES ASSUME ~m.heartbeat
               PROVE  Logged(x, e) /\ m.log_term >= 1 /\ (n >= 1 => Linked(x, e, m.prev))
    OBVIOUS
  <2>1. Logged(x, e)
    BY <1>5 DEF Logged
  <2>2. n >= 1 => x >= 2
    BY <1>5
  <2>3. n >= 1 => Linked(x, e, m.prev)
    BY <1>5, <2>2 DEF Linked
  <2> HIDE DEF e
  <2>4. e.term >= 1
    BY <2>1 DEF EntriesOrdered
  <2> QED
    BY <1>6, <2>1, <2>3, <2>4
<1> HIDE DEF e
<1>8. ASSUME Ahead(i, m)
      PROVE  /\ x \in 1 .. Len(log[i]) /\ Logged(x, log[i][x])
             /\ EntryAt(log[i], m.prev_log_index + 1) = log[i][x]
             /\ n >= 1 => /\ Linked(x, log[i][x], log[i][n]) /\ n <= Len(log[i])
                          /\ EntryAt(log[i], m.prev_log_index) = log[i][n]
  <2>1. x \in 1 .. Len(log[i])
    BY <1>2, <1>3, <1>5, <1>8 DEF Ahead, LastIdx
  <2>2. Logged(x, log[i][x])
    BY <2>1 DEF Logged
  <2>3. EntryAt(log[i], m.prev_log_index + 1) = log[i][x]
    <3>1. n \in 0 .. LastIdx(log[i])
      BY <1>3, <1>5, <2>1 DEF LastIdx
    <3>2. EntryAt(log[i], n) = log[i][n + 1]
      BY <3>1 DEF EntryAt
    <3> QED
      BY <1>4, <1>5, <3>2
  <2>4. ASSUME n >= 1
        PROVE  /\ Linked(x, log[i][x], log[i][n]) /\ n <= Len(log[i])
               /\ EntryAt(log[i], m.prev_log_index) = log[i][n]
    <3>1. x \in 2 .. Len(log[i]) /\ x - 1 = n /\ n <= Len(log[i])
      BY <1>3, <1>5, <2>1, <2>4
    <3>2. Linked(x, log[i][x], log[i][n])
      BY <3>1 DEF Linked
    <3>3. EntryAt(log[i], m.prev_log_index) = log[i][n]
      <4>1. m.prev_log_index \in 0 .. LastIdx(log[i]) /\ m.prev_log_index + 1 = n
        BY <1>2, <1>3, <1>4, <2>4, <3>1 DEF LastIdx
      <4> QED
        BY <4>1 DEF EntryAt
    <3> QED
      BY <3>1, <3>2, <3>3
  <2> QED
    BY <2>1, <2>2, <2>3, <2>4
<1>9. ASSUME Ahead(i, m), AlreadyStored(i, m), m.log_term > 0
      PROVE  log[i][x].term = m.log_term
  BY <1>8, <1>9 DEF AlreadyStored
<1>10. ~(ri_state[i] = "leader" /\ rlh_term[i] = m.leader_term)
  BY <1>1 DEF NoRival
<1>11. ~(/\ Ahead(i, m) /\ AlreadyStored(i, m) /\ m.log_term > 0 /\ ~m.heartbeat
         /\ EntryAt(log[i], m.prev_log_index + 1).data # m.data)
  <2> SUFFICES ASSUME Ahead(i, m), AlreadyStored(i, m), m.log_term > 0, ~m.heartbeat
               PROVE  EntryAt(log[i], m.prev_log_index + 1).data = m.data
    OBVIOUS
  <2>1. log[i][x] = e
    BY <1>1, <1>6, <1>7, <1>8, <1>9 DEF OneEntry
  <2> QED
    BY <1>6, <1>8, <2>1
<1>12. ~(/\ Ahead(i, m) /\ AlreadyStored(i, m) /\ m.prev_log_index >= 0
         /\ EntryAt(log[i], m.prev_log_index) # m.prev)
  <2> SUFFICES ASSUME Ahead(i, m), AlreadyStored(i, m), m.prev_log_index >= 0
               PROVE  EntryAt(log[i], m.prev_log_index) = m.prev
    OBVIOUS
  <2>1. n >= 1
    BY <1>2, <1>4
  <2>2. /\ Linked(x, log[i][x], log[i][n]) /\ n <= Len(log[i])
        /\ EntryAt(log[i], m.prev_log_index) = log[i][n]
    BY <1>8, <2>1
  <2>3. CASE ~m.heartbeat
    <3>1. log[i][x].term = m.log_term
      BY <1>2, <1>7, <1>9, <2>3
    <3>2. log[i][n] = m.prev
      BY <1>1, <1>6, <1>7, <2>1, <2>2, <2>3, <3>1 DEF OneLink
    <3> QED
      BY <2>2, <3>2
  <2>4. CASE m.heartbeat /\ PrevHeld(m)
    <3>1. m.leader_term <= rlh_term[i]
      BY <2>4 DEF PrevHeld
    <3>2. rlh_term[i] = m.leader_term
      BY <1>2, <1>3, <3>1 DEF Stale
    <3>3. log[i][n] = m.prev
      BY <1>4, <2>2, <2>4, <3>2 DEF PrevHeld
    <3> QED
      BY <2>2, <3>3
  <2>5. CASE m.heartbeat /\ TermHeld(m)
    <3>1. m.log_term > 0
      <4>1. m.log_term >= 1
        BY <2>5 DEF TermHeld
      <4> QED
        BY <1>2, <4>1
    <3>2. log[i][x].term = m.log_term
      BY <1>9, <3>1
    <3>3. log[i][n] = m.prev
      <4>1. \A f, p : Linked(x, f, p) /\ f.term = m.log_term => p = m.prev
        BY <1>4, <1>5, <2>5 DEF TermHeld
      <4> QED
        BY <2>2, <3>2, <4>1
    <3> QED
      BY <2>2, <3>3
  <2> QED
    BY <2>3, <2>4, <2>5 DEF HeartbeatsHeld
<1>13. ~(Writes(i, m) /\ (m.log_term <= 0 \/ m.log_term < m.prev.term))
  <2> SUFFICES ASSUME Writes(i, m)
               PROVE  m.log_term > 0 /\ m.log_term >= m.prev.term
    BY <1>2
  <2>1. ~m.heartbeat
    BY DEF Writes
  <2>2. m.log_term > 0
    BY <1>2, <1>7, <2>1
  <2>3. CASE n = 0
    <3>1. m.prev.term = 0
      BY <1>2, <1>4, <2>3 DEF EntriesOrdered
    <3> QED
      BY <1>2, <2>2, <3>1
  <2>4. CASE n >= 1
    <3>1. m.prev.term <= e.term
      BY <1>7, <2>1, <2>4 DEF EntriesOrdered
    <3> QED
      BY <1>2, <1>6, <2>2, <3>1
  <2> QED
    BY <2>3, <2>4
<1> QED
  BY <1>10, <1>11, <1>12, <1>13 DEF FatalOf

\* A server aborts in the handler of AE requests only, and starts again clean.
LEMMA StepFatal ==
  ASSUME TypeOK, [Next]_vars, NEW c \in Server
  PROVE  \/ fatal'[c] \in {fatal[c], "none"}
         \/ \E m \in msgs : /\ IsRequest(m) /\ m.dst = c /\ ~Stale(c, m)
                            /\ fatal'[c] = FatalOf(c, m)
<1>1. fatal = [i \in Server |-> fatal[i]]
  BY DEF TypeOK, StateType
<1>2. ASSUME NEW i \in Server, TimerStep(i)
      PROVE  fatal' = fatal
  BY <1>2 DEF TimerStep, ElectionTimeout, QuorumLoss, BecomePreVote, Heartbeat,
     AppendEntrySender
<1>3. ASSUME NEW i \in Server, LocalStep(i)
      PROVE  fatal' = fatal
  BY <1>3 DEF LocalStep, RemoteSend, AppendEntrySender, ClientWrite, SyncThread,
     SendSyncIdx, CommitIdxAdv
<1>4. ASSUME NEW i \in Server, Restart(i)
      PROVE  fatal'[c] \in {fatal[c], "none"}
  BY <1>1, <1>4 DEF Restart
<1>5. ASSUME NEW m \in msgs, VoteStep(m)
      PROVE  fatal' = fatal
  BY <1>5 DEF VoteStep, ProcessPreVoteRequest, GrantVote, RefuseVote,
     IgnoreVoteReply, RegisterVote, VoteReplyDeposes, BecomeCandidate, BecomeLeader
<1>6. ASSUME NEW m \in msgs, AppendStep(m), ~AppendAbort(m)
      PROVE  fatal' = fatal
  BY <1>6 DEF AppendStep, AppendStale, AppendAccept, IgnoreAppendReply,
     AppendReplyDeposes, AppendReplyMismatch, AppendReplyOk
<1>7. ASSUME NEW m \in msgs, AppendAbort(m)
      PROVE  \/ fatal'[c] = fatal[c]
             \/ /\ IsRequest(m) /\ m.dst = c /\ ~Stale(c, m)
                /\ fatal'[c] = FatalOf(c, m)
  <2>1. fatal' = [fatal EXCEPT ![m.dst] = FatalOf(m.dst, m)]
    BY <1>7 DEF AppendAbort, Abort
  <2>2. IsRequest(m) /\ ~Stale(m.dst, m)
    BY <1>7 DEF AppendAbort, IsRequest
  <2>3. CASE m.dst = c
    BY <1>1, <2>1, <2>2, <2>3
  <2>4. CASE m.dst # c
    BY <1>1, <2>1, <2>4
  <2> QED
    BY <2>3, <2>4
<1>8. ASSUME NEW m \in msgs, SyncStep(m)
      PROVE  fatal' = fatal
  BY <1>8 DEF SyncStep, ProcessSyncIdxUpdate, IgnoreSyncIdxUpdate
<1>9. CASE UNCHANGED vars
  BY <1>9 DEF vars
<1> QED
  BY <1>2, <1>3, <1>4, <1>5, <1>6, <1>7, <1>8, <1>9 DEF Next

\* What the assertions of the AE handler rest on.
Fit == EntriesOrdered /\ OneSender /\ Followed /\ HeartbeatsHeld

\* Of the assertions of raft_server_process_append_entries_request() only those
\* on prunes can fail, in every cluster whose network brings no late replies
\* and no overtaken requests: what a follower finds already stored is what the
\* leader sends, a heartbeat's previous entry included, no entry that is
\* written is older than the one before it, and no leader writes as a follower
\* in its own term.
THEOREM OnlyPrunesAbort ==
  ~LateVotes /\ ~LateAcks /\ ~Overtaking => (Spec => []OnlyPruneAborts)
<1> SUFFICES ASSUME ~LateVotes, ~LateAcks, ~Overtaking
             PROVE  Spec => []OnlyPruneAborts
  OBVIOUS
<1>1. Init => Fit /\ OnlyPruneAborts
  <2> SUFFICES ASSUME Init PROVE Fit /\ OnlyPruneAborts
    OBVIOUS
  <2>1. /\ \A c \in Server : ri_state[c] = "follower" /\ Len(log[c]) = 0
        /\ \A c \in Server : fatal[c] = "none"
        /\ msgs = {}
    BY DEF Init
  <2>2. \A n \in Nat : \A e : ~Logged(n, e)
    BY <2>1 DEF Logged
  <2>3. \A n \in Nat : \A e, p : ~Linked(n, e, p)
    BY <2>1 DEF Linked
  <2>4. EntriesOrdered
    BY <2>1, <2>2, <2>3 DEF EntriesOrdered
  <2>5. OneSender /\ Followed /\ HeartbeatsHeld
    BY <2>1 DEF OneSender, Followed, HeartbeatsHeld
  <2> QED
    BY <2>1, <2>4, <2>5 DEF Fit, OnlyPruneAborts
<1>2. /\ Ground /\ Ground' /\ Traces /\ Traces' /\ Fit /\ OnlyPruneAborts
      /\ [Next]_vars
      => Fit' /\ OnlyPruneAborts'
  <2> SUFFICES ASSUME Ground, Ground', Traces, Traces', Fit, OnlyPruneAborts,
                      [Next]_vars
               PROVE  Fit' /\ OnlyPruneAborts'
    OBVIOUS
  <2>1. EntriesOrdered /\ OneSender /\ Followed /\ HeartbeatsHeld
    BY DEF Fit
  <2>2. Fit'
    BY <2>1, StepEntriesOrdered, StepOneSender, StepFollowed, StepHeartbeats DEF Fit
  <2>3. ASSUME NEW c \in Server
        PROVE  fatal'[c] \in {"none", "prune_all", "prune_committed"}
    <3>1. TypeOK
      BY DEF Ground
    <3>2. fatal[c] \in {"none", "prune_all", "prune_committed"}
      BY DEF OnlyPruneAborts
    <3>3. ASSUME NEW m \in msgs, IsRequest(m), m.dst = c, ~Stale(c, m)
          PROVE  FatalOf(c, m) \in {"none", "prune_all", "prune_committed"}
      BY <2>1, <3>3, RequestsPass
    <3> QED
      BY <3>1, <3>2, <3>3, StepFatal
  <2> QED
    BY <2>2, <2>3 DEF OnlyPruneAborts
<1>3. Spec => [](Ground /\ Traces)
  BY SafeHolds, PTL
<1> QED
  BY <1>1, <1>2, <1>3, PTL DEF Spec
=============================================================================
