# A verification of niova-raft

niova-raft is a raft library in C: a server (`src/src/raft_server.c`) that
replicates a log of client writes with elections that start with a pre-vote, two
storage backends (flat file, RocksDB), log compaction and bulk recovery, and a
client (`src/src/raft_client.c`), both on a message layer (`src/src/raft_net.c`).
This directory holds TLA+ modules of its parts, TLC runs, and proofs checked by
TLAPS.  `PROJECT.json` maps every definition to the lines it models.

## Inventory

| part | state | operations | what makes it correct |
|---|---|---|---|
| elections | `ri_state`, log header (`rlh_term`, `rlh_voted_for`, persistent), `ri_candidate` | election timer, quorum-loss check, pre-vote and vote requests and replies | one leader per term; a vote is durable and final; candidacies stay consistent with the header |
| log replication | log, newest-entry headers SYNC and UNSYNC, `raft_follower_info` tables | AE request, AE reply, heartbeat, remote send, sync-idx update | logs match; next-idx stays within the log; nothing committed is pruned; no assertion fails |
| commit tally | `rfi_ackd_idx`, `rfi_synced_idx`, `rls_initial_term_idx`, `ri_commit_idx` | replies, sync updates, sync thread | committed entries are durable on a majority and kept by later leaders |
| log sync and prune | SYNC and UNSYNC headers, the store, `ri_last_applied` | entry write, header write, background sync, prune, crash | what is called synced survives a crash; headers never cross |
| state machine apply | `ri_last_applied`, key-values of the application | SM_APPLY event, reply to the client | each sub-entry applied in order and once, whatever a crash undoes |
| client requests on the server | `ri_coalesced_wr`, request handles, `ri_write_mutex` | redirect, read, write, coalescing timer | what is acknowledged is committed and seen by later reads; a write sent again is not committed twice |
| log compaction, checkpoints | `ri_lowest_idx`, `ri_pending_read_idx`, `ri_checkpoint_last_idx`, checkpoint directories | checkpoint thread, reap, read registration | no read of a reaped entry; nothing is reaped that a restart has to apply; a checkpoint can be started from |
| bulk recovery | recovery marker, staged database, `ri_db_uuid` | rsync, stage, remove, scrub, promote | a crash or an error at any step leaves a whole database; acknowledged entries are kept |
| server process | `ri_proc_state`, `ri_needs_bulk_recovery`, the set-up subsystems | start, main loop, shutdown, recovery loop | each exit has a reason; what is set up is released before the next start |
| client | sub-application tree, send queue, leader and ping state | submit, send, retry, time out, reply, cancel | references balance across threads; every request ends once, with its own reply; no queued request is forgotten |
| message layer | connections, event pipes, last-send and last-recv times | send, receive, notify | loss and reordering only |

The parts meet as follows.  All handlers of a server run in one epoll loop (timers,
sockets, event pipes), one at a time; the sync thread and the checkpoint thread run
beside it and share the newest-entry headers, `ri_last_applied`, `ri_lowest_idx` and
the store with it, under several small mutexes.  A client has one such loop, its
client thread; application threads call into the library beside it and share the tree
of pending requests and the send queue with it, under one mutex.  Servers exchange messages that can
be lost, delayed and reordered.  The hard behaviours, in `PROJECT.json` under
"hazards", come from there: late replies that carry no term, crashes that lose
unsynced entries, decisions on headers that another thread moves, the off-by-one
between indexes and lengths, and assertions that only a long history can reach.

## Modules

**RaftServer** is the cluster.  Its variables are the fields of `struct
raft_instance` with their names, one per server, and the set of messages in the
network.  One action is one callback of the epoll loop, taken as a whole: a timer
(`ElectionTimeout`, `QuorumLoss`, `Heartbeat`), a received message (one or more
actions for the branches of its handler, e.g. `AppendStale`, `AppendAccept` and
`AppendAbort` for `raft_server_process_append_entries_request()`), an event pipe
(`RemoteSend`, `SendSyncIdx`, `CommitIdxAdv`), a client write, one round of the sync
thread, or a crash with restart.  A failed `FATAL_IF` or `NIOVA_ASSERT` of the AE
handler makes the server "aborted" and `fatal` names it (`FatalOf` keeps the order in
which the code meets them).  The other assertions of the handlers are stated as
invariants instead: `CandidateViable`, `NextIdxBound`, `TallyNeverRegresses`.

What RaftServer abstracts:

- An entry is its term and payload.  Equal crcs at an index mean equal entries.
- SYNC and UNSYNC headers are the ends of the log at `synced[i]` and `Len(log[i])`;
  LogSync justifies that.  `SyncWrites` selects the backend's mode.
- A handler runs without interruption.  A crash inside one is a crash after it whose
  messages were lost, or before it.
- A message is lost when it is sent (`Transmit` keeps any subset) and messages are
  taken in any order.  They are not duplicated.
- Clocks are not modelled: timers expire at any time, so do the quorum window, the
  freshness test of the leader and the send back-off.
- A client write needs a committed index above the initial one; the code also waits
  for its application, which only comes later.  Coalescing is in ClientRequests.
- Nothing is compacted; compaction of one log is LogCompaction, and the
  `entry_out_of_range` path of the AE handler is `OutOfRange` of ServerInstance.
- The EBADR answer to a request below the follower's lowest index
  (`raft_server_append_entry_request_bounds_check()`) is left out.  Without compaction
  it is the answer to previous index -1 by a follower that has restarted on RocksDB
  with entries, where the model goes on to prune and write.  The leader takes it for
  success, and the synced index -1 in it keeps the follower out of the tally.  The
  follower does less than the model's, so no property of the runs changes; that such a
  follower may never converge is a finding.
- Three constants say what the network may do besides losing and reordering.
  `LateVotes`: a vote reply may arrive after the candidacy it answers (the field `re`
  of a reply, which the code's message does not have, tells them apart).  `LateAcks`:
  an AE reply may arrive after the leadership it answers.  `Overtaking`: an AE request
  may arrive after a later one of the same leader to the same follower.  The code
  prevents none of the three, and each breaks what it relies on (see Findings), so
  TRUE is the code as it stands, and FALSE the network that the code is right for.
  The passing runs set all three FALSE; each theorem names the ones it needs.

**LogStore** is what the protocol may expect of one server's log: append, sync of a
growing prefix, prune, and crashes that lose nothing synced.

**LogSync** is one server's log at the grain of single accesses: the main thread and
the sync thread, `raft_server_backend_sync()` with its mutex and its local copies,
both newest-entry headers, the store and what of it is on disk.  RocksDB writes with
the sync option (log header, truncation, device sync) make all earlier writes
durable, since they share a write-ahead log; entry and apply writes do not.
`ImplementsLogStore` maps it to LogStore: the log is the store, and the prune takes
place at the truncation, not when the headers are set back, for a crash between the
two brings the pruned entries back.  `SyncInPrune` says whether a sync may start
between the sync of a prune and its end.  The code allows it (see Findings); the
passing run does not.  A prune with previous index -1 is left to RaftServer.

**LogCompaction** is one server's log with three threads: the main thread writes,
applies and reads entries, the sync thread syncs, and the checkpoint thread, once per
second, copies the store into a directory and cuts the front of the log.  A step is
the code between two accesses of shared state: the range check of a read and its
registration under `ri_compaction_mutex` are two steps, so are the raise of the
last-applied index and the write of its record, the copy of a checkpoint, its rename,
the clean-up of old ones and the publication of the index.  `wal` is the list of
stores since the last synchronous write; a crash leaves any of them.  `Restart` has
the scan of the log and of the checkpoint directories.  A failed assertion stops the
process and `fatal` names it.  Checkpoints and reaps start from requests of the user,
which the code takes in the same place as its automatic ones, at any time; with
`AutoCheckpoints` the state space is too large for a run.

**BulkRecovery** has the steps of `rsbr_bulk_recover()`: dry run, transfer and second
dry run with rsync and its retries, the rename that makes the marker, removal of the
old database, the scrub of each entry header, the two header writes and the rename to
`db/`.  Its state is the directories of one server, and of its leaders the checkpoint
they offer and their lowest index, which move on at any time.  **ServerInstance**
extends it with the process around it, `raft_server_instance_run()`: the twelve steps
of a start, each of which may fail with the release that the code then does (`held` is
what is set up and not released), the main loop as far as terms and the request of a
recovery go, the stop, the loop condition with its one return code, and new processes
after an exit, an abort or a crash at any step.  `MarkerParses` lets the name of a
marker be parsed or not: as coded it never is (see Findings), and the other case is
what the rest of the code is written for.  A checkpoint is its index, the term in its
header and whether all its files are there; `short` remembers that a leader offered a
checkpoint older than its own lowest entry, after which no recovery can help.

**ClientRequests** follows a request from the client's message to the reply: the
worker threads of a server up to `ri_write_mutex` and under it, the coalesced write
and its timer, the apply callback one sub-entry at a time, and the reference
application, which takes one numbered write per client and notes it as pending with
the term of the request.  Elections, replication and commit are reduced to what
RaftServer shows of them: a new leader has all committed entries, only the newest
leader commits, a follower takes over its log and its commit index.  `sm` is the
application with the last-applied record in one RocksDB write; a crash leaves it or
some earlier synced state.  A worker fills its handle (`RequestInit`), checks the
leadership (`PrepareWrite`), takes the mutex and asks the application, and writes, in
four steps; elections, won or lost, fall between any two of them.  `late` remembers that
a request was accepted or logged in another term than the one in which it was taken,
`won` that a server has become leader since a worker filled its handle; the code allows
both (see Findings).  `MayAccept` reads state, term and indexes at one moment and
`BecomeLeader` sets them in one step.  `SeenInInit` lets a worker check within
`raft_server_leader_init_state()`, when the initial index is still 0.  The code does not
prevent that (see Findings), nor the FATAL at 2173, which a worker meets before the
leader term is set and which is not modelled.  The run has it FALSE, and the theorems
name it.

**MCRaftServer** has the symmetry set, a VIEW and the initial states of three runs.  The VIEW hides candidate and leader tables of servers that are not candidates
or leaders: every entry into those states sets them afresh.  `DividedInit` has two
kinds of states, both reachable.  In the first a led term 1 and its marker reached
everybody, then led term 2 and its marker stayed alone, b led term 3 with the vote of
c, and all were restarted; getting there from `Init` would take three terms and three
restarts.  In the second the logs are empty and a has just been elected in the last
term, after candidacies that failed: this leader takes a client's write, and the sync
thread of each server moves on its own (`CommitIdxAdv`).  `AsyncInit` is `Init` or such
a leader later, when it has committed its marker and has a client's entry that it has
not synced.  `ThirdLeaderInit` goes on from the divided past: a has been elected once
more, for term 4, with the vote of c.

**RaftClient** is the life of a request in the client library.  Application threads
submit and cancel; the client thread runs the timer, the receive handler and the
sender, one at a time.  A step is one critical section of the tree's mutex, or the
code between two of them; `pc` and `cur` say where a thread is and with which object.
The object of the n-th call to submit is the number n, which is also its message id.
`ref_cnt` follows every get and put of the code; the object leaves the tree when its
last reference is put, which is where the code runs the callback or wakes the blocked
caller.  `leaks` is not in the code: it counts the references that the code loses (see
Findings).  What RaftClient abstracts:

- Whether the leader is viable is chosen anew each time the code asks: leader
  discovery only decides that.
- Time is `Timeout(x)`, the moment at which the request passes its timeout.  The retry
  interval may have passed for any set of requests whenever the timer looks.
- A reply may come at any time after a send, never, or more than once.  One that the
  receive handler drops (not from the leader, a system error) is one that never comes.
- The rate limit may leave the sender any number of sends, none included.
- A send that fails may end the sender's loop, as -ENOENT does.
- Calls to submit are bounded (`MaxRequests`), also in the model's liveness run.
  Without the bound an endless row of calls for the same user id could, by their
  short-lived references, keep an ended object in the tree; the code has the same
  freedom.
- `CancelInit` lets `raft_client_request_cancel()` catch a request that its submitter
  still initializes.  The code allows it and then uses a freed object (see Findings);
  the runs do not.

**RaftClientLive** adds time to RaftClient, for liveness.  The client thread sets its
one-shot timer anew in every round, so that events which come closer together than its
interval keep it from expiring.  `busy` says whether they do at present; it changes at
any time (`Traffic`), since messages that the receive handler drops, and requests beyond
the bound, are events too.  The timer of RaftClient runs only while it is FALSE.

**MCRaftClient** adds the symmetry of application threads.

**RaftServer_proofs**, **RaftLog_proofs**, **RaftCommit_proofs** (about RaftServer, each
on top of the one before), **LogSync_proofs**, **LogCompaction_proofs**,
**ServerInstance_proofs**, **ClientRequests_proofs** and **RaftClient_proofs** hold the
proofs.

## Runs

All cluster runs have three servers, the smallest cluster in which a majority is
neither one server nor all.  `CHECK_DEADLOCK FALSE` is set for them, and for requests,
because their bounds stop the system; the other runs are checked for deadlock.

| run | bounds | shows |
|---|---|---|
| async_restart | 2 terms, 2 timeouts, markers only, 1 vote and 1 AE message, 1 restart, async, from `AsyncInit` | `CandidateViable`, `AckedIsStored`, `CommittedIsDurable`, `LeaderCompleteness`, `CommitWithinSync`, `ElectionSafety`, `VotesWritten`, `VoteIsFinal` |
| divided | 4 terms, 2 timeouts, 1 client write by the leader of an empty log, sync, from `DividedInit` | `TypeOK`, `LogMatching`, `NextIdxBound`, `TallyNeverRegresses`, `OnlyPruneAborts` |
| log_sync | log 3, terms 2, prune 1, crash 1 | `TypeOK`, `NoFatal`, `SyncedIsDurable`, `AppliedWithinOne`, `ImplementsLogStore`, `EventuallySynced` |
| compaction | log of 5 with 2 applied, 1 more entry, keep 2, 2 requests, 1 crash, restarts after aborts | `AbortsExplained`, `AppliedOrLogged`, `CheckpointComplete`, `RequestNotLost`, `PreviousKept` |
| instance | 2 leaders, indexes to 2, terms to 1, 2 entry headers, 2 rsync tries, 1 failing call, 1 crash (3.8 million states) | `TypeOK`, `StoreKept`, `LogKept`, `ExitsExplained`, `CleanRestart` |
| requests | 2 servers, 1 worker each, 2 clients with 1 write, 2 writes taken, 2 requests per entry, 2 terms, 1 restart or lost quorum, `SeenInInit` FALSE (231 thousand states) | `AppliedPrefix`, `EntriesIntact`, `AckedIsSeen`, `AbortsExplained` |
| client | 2 application threads, 2 users, 2 requests, 1 reply and 1 leak each, limit of 1 pending request | `TypeOK`, `RefsAccounted`, `EndsOnce`, `OwnReply`, `QueueIsWatched` |
| client_live | 1 application thread, 2 users, 2 requests, no cancels, fairness (345 thousand states) | `EndsWhenQuiet` |
| initial_commit | violation, from `ThirdLeaderInit` | `StateMachineSafety` |
| late_vote | violation | `ElectionSafety` with `LateVotes` |
| prune_race | violation | `NoFatal` with `SyncInPrune` |
| recovered_term | violation | `TermKept` |

With a log bound of 0 every leader still writes its marker.  A message bound of one does not make
the network orderly: while a message waits, the others are lost, and it may be
delivered after everybody has moved on.  Two log entries in conflict, a mismatch
reply, a step back and a prune all happen in divided.

In compaction the log starts long enough for a reap (which needs twice the entries to
keep), most of it not yet applied, and the index read is the first one to go.  In
instance the crash may hit a recovery and the failing call its resumption, after which
the process starts once more; two entry headers allow a half-done scrub.

In requests the two writes that workers take (`MaxTaken`) are those of a coalesced entry,
which can be interrupted between them, or one write that is sent again, to the same
leader or to another.  With three (1.4 million states) and four (4.6 million states, ten
minutes) that run passed as well, so that a write of a coalesced entry is sent again.
With `SeenInInit`, TLC finds `AckedIsSeen` violated, and `AbortsExplained`: the handle was
then filled before the election and checked in the course of it.

client_live has no cancels: one that is refused keeps a reference to the request for
ever (see Findings), and what it does to the end of a request is `RefsAccounted` of the
run client.  Two requests suffice for a sender that stops with one of them queued, and
for a user id that is submitted again.

Each property has a mutant in `PROJECT.json` that changes the code's logic in a
plausible way and is caught under the same bounds.

**Fairness.**  RaftServer has none: its properties are safety properties.  LogSync's
`FairSpec` assumes weak fairness of the sync thread, which is a loop around a short
sleep, and of the main thread inside a handler, which does not wait for anything but
the sync mutex.  No fairness is assumed of new handlers.  RaftClientLive's
`FairSpec` assumes weak fairness of threads inside of calls and handlers, of time, and
of the timer when something has expired and no other event comes within its interval
(`QuietTimer`).  Strong fairness is assumed of the top of the thread's loop, which every
round passes, and of the sender with some rate left: both are enabled only between two
handlers, epoll reports a pipe that stays readable, and the rate is renewed every two
milliseconds.  Nothing is assumed of leaders, replies and new calls, nor that the
traffic lets up: `EndsWhenQuiet` has that as its condition, and without it TLC finds
the timer starved and a request that never ends.

## Findings

The violation runs show disagreements between the code and its own comments; see
"findings" in `PROJECT.json` for lines and quotes.

- *initial_commit*: the tally may commit the initial index, the newest entry of
  earlier terms, before the marker is acknowledged; the comparison is off by one, and
  a later leader may overwrite what was committed.  `LeaderCompleteness` and
  `CommittedIsDurable` are therefore stated for what is committed beyond the initial
  index.
- *late_vote*: vote replies are matched to the kind of candidacy, not to its term.  A
  granted vote of term 1 that arrives late makes a second leader of term 2.
- *prune_race*: the sync thread can raise the SYNC header over a pruned log.
- *recovered_term*: a recovered server has the term and the vote of the leader's
  checkpoint, not its own, and may vote twice in a term.

The other findings are in the models as they are in the code, and the properties say
how far they reach.

- Replication: an AE reply is not matched to the leadership it answers; a late one is
  counted in a later leadership of the same server and may push next-idx past the log
  (`LateAcks`).  A follower that has restarted answers previous index -1 with what the
  leader takes for success, and may never converge.  A heartbeat carries a cached
  term, so that one that is overtaken by a later request makes the follower prune what
  it has acknowledged (`Overtaking`).
- Log: an application may count as synced before it is written, though never more than
  one (`AppliedWithinOne`); a prune of the whole log aborts the follower
  (`OnlyPruneAborts` shows that only the assertions on prunes fail in the AE handler); the
  term in a sync-idx update is the entry's, not the server's; a scan from index 0
  validates nothing.
- Compaction (`AbortsExplained`): a read that loses the race with a reap aborts the
  server; after a restart the newest checkpoint may be ahead of the restored
  last-applied record, which aborts it within a second, again and again if nothing new
  is applied.  The checkpoint before a recovery may be an older one that was under way.
- Recovery and process (`ExitsExplained`, `CleanRestart`): the name of a marker is cut
  one character too early, so an interrupted recovery cannot be resumed; if it could,
  the process would abort once after it and leak its sockets; a uuid left from an
  earlier database makes a second recovery impossible to resume; the return code of a
  failed recovery ends the process at the next one; a database whose creation was
  interrupted cannot be opened; a failing timer or event loop at the start reads a
  null pointer.
- Requests (`EntriesIntact`, `AbortsExplained`, `AppliedPrefix`): a deposed leader
  keeps its coalesced requests and may log them in a later term, without their
  supplements and after the client has sent them elsewhere; the term of a request is
  read before the mutex is taken; a server may stop to lead between check and write,
  which is an assertion failure, as is a handle that was filled before the server became
  leader and is used after it; a worker may check the leadership while the new leader's
  state is being set up (`SeenInInit`); after a restart a new leader's commit index may be
  below the applied one, which is another; the KV crc of a server that stopped within
  a coalesced entry differs from the others for ever.
- Client: a request whose send fails loses its constructor reference instead of the
  one of the send queue, and its caller is never told (`EndsWhenQuiet` shows that this
  is the only such case among requests that nobody cancels, once the timer expires);
  the timer is set again in every round, so dense traffic keeps it from ever expiring;
  `raft_client_request_cancel()` tests `rcrh_initializing` the wrong way round, so it
  refuses every pending request and leaks a reference to it.

## Proofs

The theorems hold for every finite set of servers, every set of values and every
bound; the assumptions on the constants are the named ASSUMEs of RaftServer,
LogSync, LogCompaction, BulkRecovery, ServerInstance, ClientRequests and RaftClient.  A
condition such as `~LateVotes` stands in the theorem itself.  It names what the network
must not do; without it the statement is false, as the run `late_vote` and those
described under Findings show.

**RaftServer_proofs.**  `MajorityReached`: the index the tally picks has been reached by
a majority.  The code sorts and takes a position; the model characterises that element
by counting smaller ones.  The proof finds a least element of a set of naturals and
counts with the theorems on finite sets.  `TypeCorrect`: `Spec => []TypeOK`.  `TypeOK`
is inductive: one lemma per action, and one for `Transmit`, which shows that what a
handler sends is well-formed.

On elections, in the same module:

- `CandidatesViable`: `CandidateViable` is inductive together with `TypeOK`.  Only the
  candidacy itself moves `rcs_term`, and every action that changes the header of a
  server also makes it a follower.  Late votes do no harm here.
- `VotesAreWritten` and `OneLeaderPerTerm`, for `~LateVotes`.  `ElectionSafety` alone
  is not inductive: two leaders of a term have majorities in their tables that share
  a voter, so one needs to know that no voter backs two servers in a term, and that
  knowledge has to cover replies that are still under way and the voter's header,
  where the vote comes from.  `VotesWritten` says just that about all places where a
  vote can be (`Votes`), and that no vote is ahead of its voter's term; a new vote is
  then always one of a term nobody has a vote of that voter for.  With
  `CandidateViable` and `TypeOK` it is inductive.  `HeaderMoves` collects what a step
  may do to a header.
- `VotesAreFinal`: `VoteIsFinal` from the same invariants, for each kind of header
  write.

**RaftLog_proofs** starts from lemmas on what a step can do to roles, requests, replies
and logs (`Roles`, `NewRequests`, `NewReplies`, `LogsMove`), so that the arguments
below do not go through the actions again.

- `CommitsAreSynced`: `CommitWithinSync`, whatever the network does.
- `NextIdxWithinLog`: `NextIdxBound`, for `~LateAcks`.  The strengthening is `Held`: a
  request or a reply of a leadership that goes on names an entry that its leader has.
- `LogsMatch`: `LogMatching`, for `~LateVotes`.  A term has an owner (`Owner`): a
  majority is past the votes of the term and what is left of them is for one server.
  Unlike leadership, this survives the owner's crash.  Entries are of terms that have
  owners (`EntriesOwned`), nobody starts to lead in a term that has entries, a leader's
  log reaches as far as the entries of its term (`LeaderHasAll`), so a place and a term
  determine the entry and the entry before it (`OneEntry`, `OneLink`), in logs and in
  requests alike; from there agreement of logs is inductive (`AllAgree`).
- `TallyHolds`: `TallyNeverRegresses`, for `~LateVotes`.  A leader's tables and synced
  index only grow while it leads, since the owner of a term meets no request of a rival
  (`NoRival`), and its commit index is never past the tally (`Tallied`).

**RaftCommit_proofs**, for `~LateVotes`, `~LateAcks` and `~Overtaking`: `CountedIsStored`
(`AckedIsStored`), `CommitsAreDurable` (`CommittedIsDurable`) and
`LaterLeadersHaveCommitted` (`LeaderCompleteness`).  The model has no history of what
was committed, so the invariant is about what can still become committed.  A report
(`Reported`) is followed from the message that carries it to the leader's table.  An
entry of a leader's own term is `Barred` when a majority has left the term without
reporting it: then it never commits, and what has a majority of reports is never
barred.  `Safe` says of every other entry that who reported it keeps it (`Evidence`),
that who reported it and votes for a later candidate has seen that the candidate has it
(`VoteSafe`), that a log with an entry of a later term has it (`LogSafe`), and that no
request of a later term cuts or replaces it (`ReqSafe`).  The four need one another.
Below them are `Ground` (types, the invariants above, the order of terms) and `Traces`:
a vote in flight belongs to a server that is past its term (`VotesBehind`), a follower
has one request of a leadership to read (`OneRequest`, which is where `~Overtaking`
comes in), sync-idx updates are from servers that follow the leader they tell
(`UpdatesOwned`), and the leader's entries past its initial index are all of its own
term (`LeaderTail`), which is why a count suffices to commit them.  `OnlyPrunesAbort`
(`OnlyPruneAborts`) rests on `Fit` besides: no entry is older than the one before it, in
logs and in requests (`EntriesOrdered`), and a heartbeat, whose term may be a cached
one, says the truth about the entry before (`HeartbeatsHeld`): its next-idx is at an
entry, which determines its predecessor, or past all of them, and then the follower has
acknowledged the last one and keeps it as long as it is in the leader's term
(`Followed`).

**LogSync_proofs.**

- `AppliedNearlySynced`: `AppliedWithinOne` with `RlaIndInv`, whatever the threads do.
- `TypeCorrect`, `AssertionsHold` (`NoFatal`) and `SyncedEntriesDurable`
  (`SyncedIsDurable`), for `~SyncInPrune`, with `IndInv`.  It relates the local copies
  that the sync thread has taken, by its label, to the headers and to the disk: a
  header that the thread is about to write describes entries that are already
  durable, unless a prune is between its sync and its truncation, and then no sync is
  under way.
- `LogStoreImplemented`: `Spec => ImplementsLogStore`, for `~SyncInPrune`: the store
  of the threads implements LogStore step by step.

**LogCompaction_proofs.**  `CompactionAborts` (`AbortsExplained`), `ReapedIsApplied`
(`AppliedOrLogged`), `CheckpointsComplete` (`CheckpointComplete`), `RequestAnswered`
(`RequestNotLost`) and `PreviousCheckpointKept` (`PreviousKept`), for every log, bound
and tunable; the only assumption on the tunables is that two checkpoints or more are
kept, as `CHKPT_MIN` has it.  All follow from `CompactionInvariant`.  What the three
threads know of one another is always old, so the parts of the invariant say how old:

- `StoresGood` and `CurrentStore`: in each store that a crash may leave, the entries are
  an interval that begins at or before the entry after the store's last-applied record.
  That record is one behind `rla_idx` within an apply (`Lag`), and `rla_synced_idx`, the
  synced and the unsynced index are in order.
- `SyncLocals`: what the sync thread has copied before its fsync is not ahead of memory.
- `ReadSafe`: an index that a reader has registered holds the compaction back until the
  read is done.
- `ReapLocals`: what the reap is about to remove lies below the last-applied record.
- `TakeLocals` and `Directories`: every directory holds a good checkpoint, the last
  checkpoint index is the newest of them, and one that has been renamed but not yet
  recorded (`Pending`) is counted apart.
- `NoneBehind`: without a restart, neither the last checkpoint nor the lowest index is
  past what is synced.
- `Answered`: a request is noted, is being worked on, or is answered.

**ServerInstance_proofs.**  `TypeCorrect`, `ServerKeepsAStore` (`StoreKept`),
`RecoveryKeepsTheLog` (`LogKept`), `ProcessEndsExplained` (`ExitsExplained`) and
`RestartIsClean` (`CleanRestart`), for every number of leaders, log length and bound, all
from one inductive invariant, by the label of the step.  None of the properties is
inductive by itself, since what a step relies on was checked several steps before:

- `MarkersInv`: there is one marker at most, so that promotion, which removes one,
  leaves none; its directory is whole and not behind the log the server ran with.
- `DbInv`: what is in db/ is whole, and if it is gone there is a marker.
- `HandleInv` and `StartInv`: what the recovery handle, the copy, the staged directory
  and the header in memory are at each step, e.g. that db/ is empty from its removal to
  the promotion, and that a uuid comparison still holds at the scrub unless it was stale.
- `ProcInv`: a process that has met a marker has `ri_proc_state` "shutdown" for good;
  any other holds nothing when it loops.
- `TriesInv`: a leader's request uses one attempt, a marker one more, and a recovery
  that succeeds gives them back.  Two is the bound, so `RecoveryAttempts` is assumed to
  be at least 2 (the code has 100).
- `RcInv`: each error with its reason, for as long as `rc` keeps it; an error of the
  main loop is one of a running process, which releases what it holds and exits.

**RaftClient_proofs**, for `~CancelInit`: `TypeCorrect`, `ReferencesAccounted`
(`RefsAccounted`), `RequestsEndOnce` (`EndsOnce`), `RepliesAreOwn` (`OwnReply`) and
`QueueWatched` (`QueueIsWatched`), for every number of application threads, users and
requests.  The condition is that no application cancels a request while its submitter
initializes it; with such a cancel the code uses a freed object (see Findings).  TLC
finds `TypeOK` (a count below zero), `RefsAccounted` and `EndsOnce` violated then;
`OwnReply` and `QueueIsWatched` still hold on the instance of the run `client`, but the
proof rests on the counts.  A put destroys an object if the count is 1, so that a count
that is right is needed to know that nobody else uses it, and that nobody uses a
destroyed object is needed to keep the count right:

- `Counts` says of every object in the tree that its count is the number of its
  holders: the constructor until `raft_client_sub_app_done()`, either queue, the client
  thread, application threads, and leaks.  `HeldIsCounted` draws the conclusion that
  the holder of the last reference is alone.
- `Queues`: an object is at most once in either queue, so membership counts one
  reference; what has expired is left alone until the client thread takes it.
- `Places`: what a thread uses is in the tree, and an object under initialization has
  one thread that does so.
- `Ending`: how the flags of a request follow its end; only the client thread
  completes, and `rcrh_completing` is set only from the comparison of the message id to
  the end of `raft_client_sub_app_done()`.
- `Lives`: one object per user, so that `RT_FOREACH_LOCKED()` puts every object on a
  queue once (`TreeOrder`).

The lemmas on sequences without repetition (`TailOnce`, `ConcatOnce`, `ReverseOnce`,
`CountOnce`) stand for what the code gets from its linked lists.

**ClientRequests_proofs.**  `AppliedPrefixHolds`, `EntriesIntactHolds`,
`AckedIsSeenHolds` and `AbortsExplainedHolds`, for every number of servers, workers,
clients, writes, terms and restarts, for `~SeenInInit`, from `RequestsInvariant`.  With
`SeenInInit` a leader may be asked before it has applied its marker, and `AckedIsSeen`
is false, as is `AbortsExplained`.  There is no other condition on the environment; where a request of another
term, or a handle from before an election, does harm, the property says so (`late`,
`won`).  The writes of a log are read as one sequence (`All`), and the parts of the
invariant say how far each place has got in it:

- `Logs`: a log has what its server has committed and applied, in memory and on disk; the
  newest leader's has all that is committed, and a marker without writes follows what
  the leader began with.
- `StoresCorrect`: the last-applied record is a place in the committed log (`Place`), and
  what is applied is what lies before it (`Upto`), also within a coalesced entry.
- `Applying`: within such an entry the main thread has the next sub-entry at hand.  For
  this reason the "partial" assertion never fails.
- `Acks`: an answered write is committed, is known to the newest leader by the time its
  marker is applied, and older leaders are behind that marker, so they answer nothing
  that the newest does not have.
- `Workings`: one worker at a time has the lock; each failed assertion has its cause.
- `Handles`, an invariant of its own (`HandlesAt`): a handle that is not a leader's, of a
  worker that has passed the check or of a server that leads, was filled before that
  server won (`won`).
- `InTerm`, as long as `~late`: the log, the coalesced write and the worker that is about
  to write continue what is applied, in the order of the client's numbers (`InOrder`,
  `Queued`).  What is past the applied writes holds one write of a client at most, and
  that one is pending in the term (`InFlight`): this is why the application's check for
  a pending write keeps a repeated request out.  Pending writes and requests of a term
  exist only once the leader has applied its marker (`OfTheTerm`), so what an earlier
  leader left in the log is applied before anything is compared with it.

`FlattenSeq` of the library is a recursive function over positions; `Flattens`
characterises it by its prefixes, and the lemmas on it take a least counterexample
instead of an induction.  The lemmas on `CountOf` turn "numbered in order"
into "no write twice".

Only model-checked: liveness (`EventuallySynced` of LogSync and `EndsWhenQuiet` of
RaftClientLive), which is out of TLAPS's reach.

## Plan

All of the plan is done: elections, replication, tally (RaftServer); the threads of the
log (LogSync, LogCompaction); bulk recovery and the process (BulkRecovery,
ServerInstance); requests and apply (ClientRequests); the life of a client request
(RaftClient, RaftClientLive); their runs; and a theorem for every safety property that a passing run
checks.  What could be added is a proof that RaftServer provides what ClientRequests
assumes of it, as a refinement, and leader discovery in the client library.

## Not modelled

- niova-core (control-service, epoll, thread control, logging): a submodule that is
  not in the repository.
- Leader discovery in the client (pings, redirects): it keeps no state that a request
  depends on beyond whether a leader is viable, which RaftClient leaves open.
- Connections and handshakes of the message layer, and its recency tables: they decide
  which messages arrive, and the models lose any message.
- The EBADR answer to a request below the follower's lowest index (see RaftServer), and
  the rotating header blocks of the POSIX file.
- A checkpoint whose path cannot be built (`raft_server_backend_rocksdb.c:1336-1352`),
  which would return a positive errno: it fails only if the configured path leaves no
  room within `PATH_MAX` for the name of a checkpoint.
- The second call of `raft_server_instance_shutdown()` after a failed start
  (`raft_net.c:1655`): the backend's shutdown then returns -EALREADY and nothing changes.
- Fault injection, such as `raft_server_main_loop_break`.
- Liveness of elections: every bound on terms stops the elections, so a bounded run
  would show nothing.
- Key formats, parsing, statistics and the control interface, the command lines of the
  reference applications.
