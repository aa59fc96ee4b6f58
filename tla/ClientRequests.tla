--------------------------- MODULE ClientRequests ---------------------------
(***************************************************************************)
(* Client requests on the servers, from the message of the client to the   *)
(* reply: the request handlers of the TCP worker threads, the coalesced    *)
(* write of the leader, the apply callback of the main thread, and the     *)
(* application behind ri_server_sm_request_cb().                           *)
(*                                                                         *)
(* Elections, replication and commit are RaftServer; here they are only    *)
(* what RaftServer guarantees: a new leader has all committed entries, the *)
(* newest leader commits, and a follower takes over its leader's log and   *)
(* commit index.  Entries are numbered from 1.                             *)
(*                                                                         *)
(* The application is the reference server's (one write per client at a    *)
(* time, numbered by the client), on a store of the type                   *)
(* RAFT_INSTANCE_STORE_ROCKSDB_PERSISTENT_APP: what it applies is written  *)
(* together with the last-applied record, without a sync.                  *)
(***************************************************************************)
EXTENDS Integers, FiniteSets, Sequences, SequencesExt, TLC

CONSTANTS
  Servers,
  Workers,     \* TCP worker threads of a server
  Clients,
  NumEntries,  \* RAFT_ENTRY_NUM_ENTRIES, requests in a coalesced write
  MaxSeq,      \* bound: writes of a client
  MaxTerm,     \* bound: terms
  MaxTaken,    \* bound: writes that workers take, those sent again included
  MaxFaults,   \* bound: restarts, and leaders that lose their quorum, together
  SeenInInit   \* a worker may check leadership while the main thread is
               \* within raft_server_leader_init_state()

ASSUME RequestBounds ==
  /\ NumEntries \in Nat \ {0}
  /\ MaxSeq \in Nat /\ MaxTerm \in Nat /\ MaxTaken \in Nat
  /\ MaxFaults \in Nat
  /\ SeenInInit \in BOOLEAN

VARIABLES
  top,      \* the newest term that has had a leader
  clog,     \* the committed entries
  raft,     \* per server: state, term, log, rls_initial_term_idx, commit index
  co,       \* ri_coalesced_wr: requests, each with the term it was taken in,
            \* and their write supplements
  sm,       \* ri_last_applied, and the writes the application has applied
  pend,     \* smna_pending and its term, per client; not persistent
  disk,     \* a state of sm that is synced: a crash leaves it or the last one
  wk,       \* the request in each worker, with its handle
  nai,      \* the entry the main thread is applying, or Idle
  evp,      \* RAFT_EVP_SM_APPLY is notified
  fatal,    \* the assertion that has failed
  acked,    \* history: writes that were answered with success
  stale,    \* history: a read of the newest leader has missed one of them
  late,     \* history: a request was accepted or logged in another term than
            \* it was taken in
  restarted,\* history: the servers that have restarted
  won,      \* history: server and worker, if the server has become leader since
            \* the worker filled its handle and before it checks leadership
  faults, taken

vars == <<top, clog, raft, co, sm, pend, disk, wk, nai, evp, fatal, acked,
          stale, late, restarted, won, faults, taken>>
hist == <<acked, stale, late, restarted, won>>
bounds == <<faults, taken>>

Op   == [c : Clients, n : 1..MaxSeq]
Idle == [pc |-> "idle"]

NoCo      == [items |-> <<>>, ws |-> <<>>]
NoApplied == [idx |-> 0, sub |-> 0, max |-> 0, crc |-> {}, kv |-> <<>>]
NoPend    == [c \in Clients |-> [seq |-> 0, term |-> 0]]

Init ==
  /\ top = 0 /\ clog = <<>>
  /\ raft = [s \in Servers |-> [role |-> "follower", term |-> 0, log |-> <<>>,
                                initial |-> 0, commit |-> 0]]
  /\ co = [s \in Servers |-> NoCo]
  /\ sm = [s \in Servers |-> [la |-> NoApplied, app |-> <<>>]]
  /\ pend = [s \in Servers |-> NoPend]
  /\ disk = sm
  /\ wk = [s \in Servers |-> [w \in Workers |-> Idle]]
  /\ nai = [s \in Servers |-> Idle]
  /\ evp = [s \in Servers |-> FALSE] /\ fatal = [s \in Servers |-> "none"]
  /\ acked = {} /\ stale = FALSE /\ late = FALSE /\ restarted = {}
  /\ won = {} /\ faults = 0 /\ taken = 0

Up(s) == fatal[s] = "none"

Abort(s, why) == fatal' = [fatal EXCEPT ![s] = why]

\* ri_write_mutex
Locked(s) == nai[s] # Idle \/ \E w \in Workers : wk[s][w].pc = "write"

(***************************************************************************)
(* The cluster, as far as RaftServer shows it.                             *)
(***************************************************************************)

\* The main thread is not within an apply.
MainIdle(s) == Up(s) /\ nai[s] = Idle

\* raft_server_become_candidate(): after its pre-vote, a server that does not
\* lead starts an election in the next term.  The elections in a term that has
\* had a leader, which it loses, are left out.
Candidacy(s) ==
  /\ MainIdle(s) /\ raft[s].role # "leader"
  /\ LET n == Max({top, raft[s].term}) + 1 IN
     /\ n <= MaxTerm
     /\ raft' = [raft EXCEPT ![s] = [@ EXCEPT !.role = "candidate", !.term = n]]
  /\ UNCHANGED <<top, clog, co, sm, pend, disk, wk, nai, evp, fatal, hist, bounds>>

\* A candidate that RaftServer lets win: nobody led in its term or after it,
\* and its log has what is committed.
MayWin(s) ==
  /\ MainIdle(s) /\ raft[s].role = "candidate" /\ raft[s].term > top
  /\ IsPrefix(clog, raft[s].log)

\* raft_server_candidate_becomes_leader(), with raft_server_leader_init_state()
\* and the marker
BecomeLeader(s) ==
  /\ MayWin(s)
  /\ top' = raft[s].term
  /\ raft' = [raft EXCEPT ![s] =
       [@ EXCEPT !.role = "leader", !.initial = Len(raft[s].log),
                 !.log = Append(raft[s].log,
                                [term |-> raft[s].term, ops |-> <<>>, ws |-> <<>>])]]
  /\ won' = won \cup ({s} \X {w \in Workers : wk[s][w].pc = "check"})
  /\ UNCHANGED <<clog, co, sm, pend, disk, wk, nai, evp, fatal, acked, stale,
                 late, restarted, bounds>>

\* raft_server_becomes_follower() destroys the supplements of the coalesced
\* write and keeps its requests.
Demoted(b) == [b EXCEPT !.ws = <<>>]

\* AE requests of the newest leader: the follower takes over the log and, if
\* it is higher, the commit index.  A request that arrives late is one that
\* arrived at once, for the follower waits.
Follow(t, s) ==
  /\ MainIdle(t) /\ Up(s) /\ s # t
  /\ raft[s].role = "leader" /\ raft[s].term = top /\ raft[t].term <= top
  /\ raft' = [raft EXCEPT ![t] =
       [@ EXCEPT !.role = "follower", !.term = top, !.log = raft[s].log,
                 !.commit = Max({raft[t].commit, raft[s].commit})]]
  /\ evp' = [evp EXCEPT ![t] = @ \/ raft[t].commit < raft[s].commit]
  /\ co' = IF raft[t].role # "follower" \/ raft[t].term < top
           THEN [co EXCEPT ![t] = Demoted(@)] ELSE co
  /\ UNCHANGED <<top, clog, sm, pend, disk, wk, nai, fatal, hist, bounds>>

\* A message of a server with a newer term makes any server a follower.
StaleTerm(t, s) ==
  /\ MainIdle(t) /\ raft[t].term < raft[s].term
  /\ raft' = [raft EXCEPT ![t] =
       [@ EXCEPT !.role = "follower", !.term = raft[s].term]]
  /\ co' = [co EXCEPT ![t] = Demoted(@)]
  /\ UNCHANGED <<top, clog, sm, pend, disk, wk, nai, evp, fatal, hist, bounds>>

\* A leader loses its quorum: a pre-vote, in the term it has led.
BecomeCandidate(s) ==
  /\ MainIdle(s) /\ raft[s].role = "leader"
  /\ faults < MaxFaults /\ faults' = faults + 1
  /\ raft' = [raft EXCEPT ![s].role = "prevote"]
  /\ UNCHANGED <<top, clog, co, sm, pend, disk, wk, nai, evp, fatal, hist, taken>>

\* The newest leader commits what it has logged; the last entry is of its term.
Commit(s) ==
  /\ MainIdle(s) /\ raft[s].role = "leader" /\ raft[s].term = top
  /\ raft[s].commit < Len(raft[s].log)
  /\ clog' = raft[s].log
  /\ raft' = [raft EXCEPT ![s].commit = Len(raft[s].log)]
  /\ evp' = [evp EXCEPT ![s] = TRUE]
  /\ UNCHANGED <<top, co, sm, pend, disk, wk, nai, fatal, hist, bounds>>

(***************************************************************************)
(* The coalesced write.                                                    *)
(***************************************************************************)

\* Mutant: the coalesced write is not cleared.
CoWrittenKept(b) == b

\* raft_server_write_coalesced_entries() clears it.
CoWritten(b) == NoCo

\* raft_net_sm_write_supplements_merge()
SuppMerge(ws, op) == Append(ws, op)

\* raft_server_write_coalesce_entry(): request r joins it.
CoAdd(b, r) ==
  [items |-> Append(b.items, [op |-> r.op, term |-> r.term]),
   ws    |-> SuppMerge(b.ws, r.op)]

CoIsFull(b) == Len(b.items) >= NumEntries

\* The entry it writes
CoEntry(s, b) ==
  [term |-> raft[s].term, ws |-> b.ws,
   ops |-> [i \in 1..Len(b.items) |-> b.items[i].op]]

IsLate(s, b) == \E i \in 1..Len(b.items) : b.items[i].term # raft[s].term

\* The log after b was written
CoLog(s, b) ==
  IF b.items = <<>> THEN raft[s].log ELSE Append(raft[s].log, CoEntry(s, b))

\* Mutant: a leader answers before it has applied its marker.
MayAcceptUnapplied(s) == raft[s].role = "leader"

\* raft_server_may_accept_client_request().  A leader that has not heard of
\* its followers for a while (raft_leader_instance_is_fresh) also refuses:
\* a refusal is always possible.  What it reads is taken at one time, except
\* that the initial index is 0, of the first entry, in the course of
\* raft_server_leader_init_state(): a worker that checks then does so just
\* before BecomeLeader here.
MayAccept(s) ==
  \/ raft[s].role = "leader" /\ sm[s].la.idx > raft[s].initial
  \/ SeenInInit /\ MayWin(s) /\ sm[s].la.idx > 1

\* raft_server_leader_co_wr_timer_expired(), in the main thread
CoWrTimerExpired(s) ==
  /\ MainIdle(s) /\ ~Locked(s) /\ raft[s].role = "leader" /\ MayAccept(s)
  /\ co[s].items # <<>>
  /\ raft' = [raft EXCEPT ![s].log = CoLog(s, co[s])]
  /\ late' = (late \/ IsLate(s, co[s]))
  /\ co' = [co EXCEPT ![s] = CoWritten(@)]
  /\ UNCHANGED <<top, clog, sm, pend, disk, wk, nai, evp, fatal, acked, stale,
                 restarted, won, bounds>>

(***************************************************************************)
(* The handlers of the worker threads.                                     *)
(***************************************************************************)

Worker(s, w, label) == Up(s) /\ wk[s][w].pc = label
Goto(s, w, rec)     == wk' = [wk EXCEPT ![s][w] = rec]

\* A client sends its next write when the one before is answered, and any of
\* them again.
MaySend(op) == op.n > 1 => [op EXCEPT !.n = @ - 1] \in acked

\* raft_server_net_client_request_init(): the handle has the term, and whether
\* this server leads.
RequestInit(s, w) ==
  /\ Worker(s, w, "idle") /\ taken < MaxTaken /\ taken' = taken + 1
  /\ \E op \in Op :
       /\ MaySend(op)
       /\ Goto(s, w, [pc |-> "check", op |-> op, term |-> raft[s].term,
                      leader |-> raft[s].role = "leader"])
  /\ won' = won \ {<<s, w>>}
  /\ UNCHANGED <<top, clog, raft, co, sm, pend, disk, nai, evp, fatal, acked,
                 stale, late, restarted, faults>>

\* raft_server_client_rncr_prepare() goes on, when the reply buffer is cleared:
\* a write that is not denied waits for the mutex.
PrepareWrite(s, w) ==
  /\ Worker(s, w, "check")
  /\ \/ Goto(s, w, Idle)
     \/ MayAccept(s) /\ Goto(s, w, [wk[s][w] EXCEPT !.pc = "lock"])
  /\ UNCHANGED <<top, clog, raft, co, sm, pend, disk, nai, evp, fatal, hist,
                 bounds>>

\* raft_server_reply_to_client(), with success
ReplyToClient(op) == acked' = acked \cup {op}

\* The last write of c that is applied
AppSeq(st, c) == Cardinality({i \in DOMAIN st.app : st.app[i].c = c})

\* rst_sm_handler_write() asserts that the handle is a leader's.
HandleFails(s, w) ==
  /\ Worker(s, w, "lock") /\ ~Locked(s) /\ ~wk[s][w].leader
  /\ Abort(s, "handle")
  /\ UNCHANGED <<top, clog, raft, co, sm, pend, disk, wk, nai, evp, hist, bounds>>

\* rst_sm_handler_write()
SmAlready(s, r) == r.op.n <= AppSeq(sm[s], r.op.c)
SmPending(s, r) ==
  LET p == pend[s][r.op.c] IN p.term = r.term /\ p.seq # 0
SmAccepts(s, r) ==
  ~SmAlready(s, r) /\ ~SmPending(s, r) /\ r.op.n = AppSeq(sm[s], r.op.c) + 1

\* raft_server_do_client_write() and raft_server_client_rncr_complete() for a
\* write that the application answers: success if it is applied.
WriteAnswered(s, w) ==
  /\ Worker(s, w, "lock") /\ ~Locked(s) /\ wk[s][w].leader
  /\ ~SmAccepts(s, wk[s][w])
  /\ Goto(s, w, Idle)
  /\ \/ UNCHANGED acked
     \/ /\ SmAlready(s, wk[s][w]) /\ MayAccept(s)
        /\ ReplyToClient(wk[s][w].op)
  /\ UNCHANGED <<top, clog, raft, co, sm, pend, disk, nai, evp, fatal, stale,
                 late, restarted, won, bounds>>

\* A write the application accepts.  It has noted it as pending when the
\* server checks its leadership again.
WriteAccepted(s, w) ==
  /\ Worker(s, w, "lock") /\ ~Locked(s) /\ wk[s][w].leader
  /\ LET r == wk[s][w] IN
     /\ SmAccepts(s, r)
     /\ pend' = [pend EXCEPT ![s][r.op.c] = [seq |-> r.op.n, term |-> r.term]]
     /\ late' = (late \/ r.term # raft[s].term)
     /\ \/ Goto(s, w, Idle)
        \/ MayAccept(s) /\ Goto(s, w, [r EXCEPT !.pc = "write"])
  /\ UNCHANGED <<top, clog, raft, co, sm, disk, nai, evp, fatal, acked, stale,
                 restarted, won, bounds>>

\* raft_server_client_rncr_write_raft_entry() and
\* raft_server_write_coalesce_entry(): the buffer is written first if the
\* request does not fit, and at the end if it is full or does not coalesce.
\* A server that writes must lead.
WriteRaftEntry(s, w) ==
  /\ Worker(s, w, "write")
  /\ \E nofit, full \in BOOLEAN :
       LET r    == wk[s][w]
           b1   == IF nofit THEN CoWritten(co[s]) ELSE co[s]
           b2   == CoAdd(b1, r)
           push == full \/ CoIsFull(b2)
           log1 == IF nofit THEN CoLog(s, co[s]) ELSE raft[s].log
           log2 == IF push THEN Append(log1, CoEntry(s, b2)) ELSE log1
       IN /\ nofit => co[s].items # <<>>
          /\ IF (nofit \/ push) /\ raft[s].role # "leader"
             THEN Abort(s, "not_leader") /\ UNCHANGED <<raft, co, late, wk>>
             ELSE /\ raft' = [raft EXCEPT ![s].log = log2]
                  /\ co' = [co EXCEPT ![s] = IF push THEN CoWritten(b2) ELSE b2]
                  /\ late' = (late \/ (nofit /\ IsLate(s, co[s]))
                                   \/ (push /\ IsLate(s, b2)))
                  /\ Goto(s, w, Idle) /\ UNCHANGED fatal
  /\ UNCHANGED <<top, clog, sm, pend, disk, nai, evp, acked, stale,
                 restarted, won, bounds>>

\* raft_server_client_recv_handler_read(): leadership is checked before and
\* after the application is read, without the mutex.  What is applied only
\* grows and a failed second check only takes the reply away, so that it is
\* one step.  A client reads when a write was answered.
Read(s, w) ==
  /\ acked # {} /\ Worker(s, w, "idle") /\ MayAccept(s)
  /\ stale' = (stale \/ /\ raft[s].term >= top
                        /\ ~(acked \subseteq ToSet(sm[s].app)))
  /\ UNCHANGED <<top, clog, raft, co, sm, pend, disk, wk, nai, evp, fatal,
                 acked, late, restarted, won, bounds>>

(***************************************************************************)
(* The apply callback of the main thread.                                  *)
(***************************************************************************)

\* raft_server_needs_apply()
NeedsApply(la, commit) ==
  la.idx < commit \/ (la.idx = commit /\ la.sub < la.max)

\* Mutant: an entry of which a part was applied starts again.
NextApplyIdxWhole(la) ==
  IF la.sub = la.max THEN [la EXCEPT !.idx = @ + 1, !.sub = 0, !.max = 0]
  ELSE [la EXCEPT !.sub = 0]

NextApplyIdx(la) ==
  IF la.sub = la.max THEN [la EXCEPT !.idx = @ + 1, !.sub = 0, !.max = 0]
  ELSE [la EXCEPT !.sub = @ + 1]

Xor(crc, i) == (crc \ {i}) \cup ({i} \ crc)

\* raft_server_get_raft_header_to_apply(); a marker counts as one entry.
HeaderToApply(s) ==
  LET n == NextApplyIdx(sm[s].la)
      e == raft[s].log[n.idx]
  IN [n EXCEPT !.max = IF e.ops = <<>> THEN 0 ELSE Len(e.ops) - 1,
               !.crc = Xor(sm[s].la.crc, n.idx)]

\* Mutant: the first sub-entry is taken for the whole entry.
SetLastAppliedWhole(la, n) == [n EXCEPT !.sub = n.max]

\* raft_server_set_last_applied(): the sums move with the last sub-entry.
SetLastApplied(la, n) ==
  IF n.sub = n.max THEN n ELSE [n EXCEPT !.crc = la.crc, !.kv = la.kv]

\* rsbr_write_supplements_put(), and the sum over what it puts
SuppPut(app, op)    == Append(app, op)
KvCrcUpdate(kv, op) == Append(kv, op)

\* raft_server_sm_apply_opt(): the record and the supplements in one write.
\* What was written before may have been synced in the meantime.
SmApplyOpt(s, st) ==
  /\ sm' = [sm EXCEPT ![s] = st]
  /\ \/ UNCHANGED disk
     \/ disk' = [disk EXCEPT ![s] = sm[s]]

\* Nothing to do, or an assertion on the indexes fails.
ApplyReturns(s) ==
  /\ MainIdle(s) /\ evp[s] /\ ~Locked(s)
  /\ IF sm[s].la.idx > raft[s].commit
     THEN Abort(s, "commit_behind") /\ UNCHANGED evp
     ELSE /\ ~NeedsApply(sm[s].la, raft[s].commit)
          /\ evp' = [evp EXCEPT ![s] = FALSE] /\ UNCHANGED fatal
  /\ UNCHANGED <<top, clog, raft, co, sm, pend, disk, wk, nai, hist, bounds>>

ApplyIsDue(s) ==
  /\ MainIdle(s) /\ evp[s] /\ ~Locked(s)
  /\ sm[s].la.idx <= raft[s].commit /\ NeedsApply(sm[s].la, raft[s].commit)

ApplyMarker(s) ==
  /\ ApplyIsDue(s)
  /\ LET n == HeaderToApply(s)
         la == SetLastApplied(sm[s].la, n)
     IN /\ raft[s].log[n.idx].ops = <<>>
        /\ SmApplyOpt(s, [sm[s] EXCEPT !.la = la])
        /\ evp' = [evp EXCEPT ![s] = NeedsApply(la, raft[s].commit)]
  /\ UNCHANGED <<top, clog, raft, co, pend, wk, nai, fatal, hist, bounds>>

\* The sub-entry that is next in the loop of raft_server_state_machine_apply()
NextSubEntry(s) == IF nai[s] = Idle THEN HeaderToApply(s) ELSE nai[s]

\* raft_server_init_send_reply(): mine if the application has the sender
InitSendReply(s, op, mine) ==
  IF mine /\ raft[s].role = "leader" THEN ReplyToClient(op) ELSE UNCHANGED acked

\* The application knows op as a write of this term.
IsMine(s, op) == pend[s][op.c].term = raft[s].term

\* The assertions on sub-entry next with write op.  rst_sm_handler_commit()
\* compares a write that it knows as pending in this term, and asserts that no
\* number is left out or repeated.
ApplyFails(s, next, op) ==
  IF sm[s].la.sub # sm[s].la.max /\ next.max # sm[s].la.max THEN "partial"
  ELSE IF IsMine(s, op) /\ pend[s][op.c].seq # op.n         THEN "pending"
  ELSE IF op.n # AppSeq(sm[s], op.c) + 1                    THEN "seqno"
  ELSE "none"

\* One round of the loop, the first one with what comes before it.  A leader
\* replies if the pending write is of its term.
ApplySubEntry(s) ==
  /\ Up(s) /\ (nai[s] # Idle \/ ApplyIsDue(s))
  /\ raft[s].log[NextSubEntry(s).idx].ops # <<>>
  /\ LET next == NextSubEntry(s)
         op   == raft[s].log[next.idx].ops[next.sub + 1]
         n    == [next EXCEPT !.kv = KvCrcUpdate(@, op)]
         la   == SetLastApplied(sm[s].la, n)
         done == la.sub = la.max
         why  == ApplyFails(s, next, op)
     IN \/ /\ why # "none" /\ Abort(s, why)
           /\ UNCHANGED <<sm, disk, pend, nai, evp, acked>>
        \/ /\ why = "none"
           /\ SmApplyOpt(s, [la |-> la, app |-> SuppPut(sm[s].app, op)])
           /\ pend' = [pend EXCEPT ![s][op.c].seq = 0]
           /\ InitSendReply(s, op, IsMine(s, op))
           /\ nai' = [nai EXCEPT ![s] =
                        IF done THEN Idle ELSE [n EXCEPT !.sub = @ + 1]]
           /\ evp' = IF done
                     THEN [evp EXCEPT ![s] = NeedsApply(la, raft[s].commit)]
                     ELSE evp
           /\ UNCHANGED fatal
  /\ UNCHANGED <<top, clog, raft, co, wk, stale, late, restarted, won, bounds>>

(***************************************************************************)
(* Restarts.                                                               *)
(***************************************************************************)

\* A crash, or a failed assertion, loses memory and the writes that are not
\* on disk.  The last-applied record is loaded; the commit index is not known.
Restart(s) ==
  /\ faults < MaxFaults /\ faults' = faults + 1
  /\ restarted' = restarted \cup {s}
  /\ \E st \in {sm[s], disk[s]} :
       /\ sm' = [sm EXCEPT ![s] = st]
       /\ disk' = [disk EXCEPT ![s] = st]
  /\ raft' = [raft EXCEPT ![s] =
       [@ EXCEPT !.role = "follower", !.initial = 0, !.commit = 0]]
  /\ co' = [co EXCEPT ![s] = NoCo] /\ pend' = [pend EXCEPT ![s] = NoPend]
  /\ wk' = [wk EXCEPT ![s] = [w \in Workers |-> Idle]]
  /\ nai' = [nai EXCEPT ![s] = Idle] /\ evp' = [evp EXCEPT ![s] = FALSE]
  /\ fatal' = [fatal EXCEPT ![s] = "none"]
  /\ UNCHANGED <<top, clog, acked, stale, late, won, taken>>

Next ==
  \E s \in Servers :
    \/ Candidacy(s) \/ BecomeLeader(s) \/ BecomeCandidate(s) \/ Commit(s)
    \/ \E t \in Servers : Follow(t, s) \/ StaleTerm(t, s)
    \/ CoWrTimerExpired(s)
    \/ \E w \in Workers :
         \/ RequestInit(s, w) \/ PrepareWrite(s, w)
         \/ HandleFails(s, w) \/ WriteAnswered(s, w) \/ WriteAccepted(s, w)
         \/ WriteRaftEntry(s, w)
         \/ Read(s, w)
    \/ ApplyReturns(s) \/ ApplyMarker(s) \/ ApplySubEntry(s)
    \/ Restart(s)

Spec == Init /\ [][Next]_vars

Symmetry ==
  Permutations(Servers) \cup Permutations(Clients) \cup Permutations(Workers)

\* The disk is left out when no server will restart any more.
View ==
  <<top, clog, raft, co, sm, pend, wk, nai, evp, fatal, hist, bounds,
    [s \in Servers |->
       IF faults = MaxFaults THEN NoApplied ELSE disk[s]]>>

(***************************************************************************)
(* Properties.                                                             *)
(***************************************************************************)

\* The writes of the first n committed entries
Writes(n) == FlattenSeq([i \in 1..n |-> clog[i].ops])

\* The writes that la stands for
WritesOf(la) ==
  LET part == IF la.idx = 0 THEN <<>> ELSE clog[la.idx].ops
      n    == IF Len(part) > la.sub THEN la.sub + 1 ELSE Len(part)
  IN Writes(la.idx - 1) \o SubSeq(part, 1, n)

\* The last entry that is applied as a whole
WholeIdx(la) == IF la.sub = la.max THEN la.idx ELSE la.idx - 1

\* AppliedPrefix: on every server, in memory and in every state a crash may
\* leave on disk, the application has applied each committed write up to the
\* last-applied index and sub-index once and in order, also if it was
\* interrupted within a coalesced entry (raft_server_state_machine_apply); the
\* cumulative crc covers the entries that are applied as a whole, and so does
\* the KV crc on a server that has not restarted.
AppliedPrefix ==
  \A s \in Servers : \A st \in {sm[s], disk[s]} :
    /\ st.la.idx <= Len(clog)
    /\ st.app = WritesOf(st.la)
    /\ st.la.crc = 1..WholeIdx(st.la)
    /\ s \notin restarted => st.la.kv = Writes(WholeIdx(st.la))

\* EntriesIntact: unless a request was accepted or logged in another term
\* than it was taken in, no write is committed twice, whatever is sent again
\* to whichever leader, and every entry carries the supplements of its requests.
EntriesIntact ==
  ~late =>
    /\ IsInjective(Writes(Len(clog)))
    /\ \A s \in Servers : \A e \in ToSet(raft[s].log) : e.ws = e.ops

\* AckedIsSeen: a write that a client was told has succeeded is committed, and
\* a read that the newest leader has begun after that and answers returns it
\* (raft_server_may_accept_client_request: the leader has applied its marker).
AckedIsSeen ==
  /\ acked \subseteq ToSet(Writes(Len(clog)))
  /\ ~stale

\* AbortsExplained: the assertions of the apply and of the application fail
\* only after a request was accepted or logged in another term than it was
\* taken in, or, the one on the commit index, after a restart of that server;
\* a server that writes a request has stopped to lead only by a step of the
\* main thread between the check and the write; and the application gets a
\* handle that is not a leader's only if the server has become leader between
\* raft_server_net_client_request_init() and the check of leadership.
AbortsExplained ==
  \A s \in Servers :
    /\ fatal[s] \in {"none", "commit_behind", "not_leader", "pending", "seqno",
                    "handle"}
    /\ fatal[s] = "commit_behind" => s \in restarted
    /\ fatal[s] = "not_leader" => \E w \in Workers : wk[s][w].pc = "write"
    /\ fatal[s] \in {"pending", "seqno"} => late
    /\ fatal[s] = "handle" =>
         \E w \in Workers :
           wk[s][w].pc = "lock" /\ ~wk[s][w].leader /\ <<s, w>> \in won
====
