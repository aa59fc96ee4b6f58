---------------------------- MODULE BulkRecovery ----------------------------
(***************************************************************************)
(* Bulk recovery on the RocksDB backend: a follower whose next entry the   *)
(* leader has compacted copies a checkpoint of the leader, rewrites the    *)
(* names of the peer in it and puts it in the place of its own database.   *)
(*                                                                         *)
(* The module keeps the directories of one server and the leaders'         *)
(* checkpoints, and has the steps of rsbr_bulk_recover().  The process     *)
(* around them, which starts, stops and calls them, is ServerInstance.     *)
(* A crash may happen between any two steps; directories are renamed       *)
(* atomically, and writes that are not synchronous may be lost.            *)
(***************************************************************************)
EXTENDS Integers, FiniteSets, FiniteSetsExt

CONSTANTS
  Peers,         \* servers that may lead and offer a checkpoint
  Self,          \* this server
  NoPeer,        \* a null uuid
  Entries,       \* entries in a copied log, whose headers are rewritten
  RsyncTries,    \* BULK_RECOVERY_RSYNC_RETRY_MAX
  MarkerParses,  \* subset of BOOLEAN: whether a marker's name can be parsed
  MaxIdx,        \* bound: checkpoint and log indexes
  MaxTerm,       \* bound: terms
  MaxFaults      \* bound: calls of the system that fail

ASSUME PeersAssumption ==
  Self \notin Peers /\ NoPeer \notin Peers \cup {Self}
ASSUME RecoveryBounds ==
  /\ Entries \in Nat \ {0} /\ RsyncTries \in Nat \ {0}
  /\ MarkerParses \subseteq BOOLEAN
  /\ MaxIdx \in Nat /\ MaxTerm \in Nat /\ MaxFaults \in Nat

VARIABLES
  db,       \* the directory db/
  copy,     \* chkpt/peers/<db>_<peer>, per peer
  stage,    \* inprogress-recovery-db.<db>_<peer>, per peer: the markers
  chkpt,    \* per peer: index of its last checkpoint
  lowest,   \* per peer: lowest index in its log
  pc, rc,
  proc,     \* ri_proc_state
  saved,    \* ri_proc_state before the recovery
  needs,    \* ri_needs_bulk_recovery
  rrh,      \* ri_recovery_handle
  recuuid,  \* ri_db_recovery_uuid
  hdr,      \* the term in ri_log_hdr
  retries,  \* failed calls of the current rsync command
  faults,
  parses,   \* the choice from MarkerParses
  stale,    \* history: recuuid was that of a database opened before
  short     \* history: a leader's checkpoint was older than its log

dirs  == <<db, copy, stage>>
peerv == <<chkpt, lowest>>
mem   == <<proc, saved, needs, rrh, recuuid, hdr>>

Idx   == -1..MaxIdx
Term  == -1..MaxTerm
Owner == Peers \cup {Self}
Uuid  == Owner \cup {NoPeer}     \* a peer's database has one uuid, ours many

NoDir == [kind |-> "none"]
Empty == [kind |-> "empty"]

\* A RocksDB directory: whether all files are there, the uuid of the database
\* and the one before recovery, the term in the log header of each peer, the
\* number of entry headers that name this server, and the newest entry.
Store == [kind : {"db"}, full : BOOLEAN, uuid : Uuid, pre : Uuid,
          hdr : [Owner -> Term], mine : 0..Entries, idx : Idx]

Handle   == [peer : Peers \cup {NoPeer}, idx : Idx, marker : BOOLEAN]
NoHandle == [peer |-> NoPeer, idx |-> -1, marker |-> FALSE]

NoCopy == [idx |-> -1, full |-> FALSE]

\* The checkpoint of index i of peer p; the term of its header grows with i.
CheckpointOf(p, c) ==
  [kind |-> "db", full |-> c.full, uuid |-> p, pre |-> NoPeer,
   hdr |-> [o \in Owner |-> IF o = p THEN Min({c.idx + 1, MaxTerm}) ELSE -1],
   mine |-> 0, idx |-> c.idx]

Markers == {p \in Peers : stage[p] # NoDir}

RecoveryInit ==
  /\ db = NoDir
  /\ copy = [p \in Peers |-> NoCopy]
  /\ stage = [p \in Peers |-> NoDir]
  /\ chkpt = [p \in Peers |-> -1] /\ lowest = [p \in Peers |-> 0]
  /\ rc = "ok" /\ proc = "booting" /\ saved = "booting"
  /\ needs = FALSE /\ rrh = NoHandle /\ recuuid = NoPeer /\ hdr = -1
  /\ retries = 0 /\ faults = 0 /\ parses \in MarkerParses /\ stale = FALSE /\ short = FALSE

(***************************************************************************)
(* The leaders.                                                            *)
(***************************************************************************)

\* A peer takes a checkpoint.
PeerCheckpoint(p) ==
  /\ chkpt[p] < MaxIdx
  /\ chkpt' = [chkpt EXCEPT ![p] = @ + 1]
  /\ UNCHANGED <<dirs, lowest, pc, rc, mem, retries, faults, parses, stale, short>>

\* A peer compacts its log.  The automatic checkpoints keep up with that; a
\* reap by the operator, or after a checkpoint has failed, does not wait.
PeerCompacts(p) ==
  /\ lowest[p] < MaxIdx
  /\ lowest' = [lowest EXCEPT ![p] = @ + 1]
  /\ UNCHANGED <<dirs, chkpt, pc, rc, mem, retries, faults, parses, stale, short>>

\* A peer keeps its last two checkpoints (ri_num_checkpoints).
Offered(p) == {chkpt[p] - 1, chkpt[p]} \ {-1, -2}

(***************************************************************************)
(* Choice and return.                                                      *)
(***************************************************************************)

Goto(label) == pc' = label

\* rsbr_bulk_recover() returns an error, which stays in rc, and
\* raft_server_bulk_recovery() restores the process state.
RecoveryFails(e) ==
  /\ rc' = e /\ proc' = saved /\ retries' = 0
  /\ Goto("init")
  /\ UNCHANGED <<saved, needs, rrh, recuuid, hdr>>

Fault == faults < MaxFaults /\ faults' = faults + 1

(***************************************************************************)
(* rsbr_bulk_recovery_import_remote_db()                                   *)
(***************************************************************************)

\* The checks on the handle
Importable(h) == ~h.marker /\ h.idx >= 0 /\ h.peer \in Peers

ImportInvalid ==
  /\ pc = "import" /\ ~Importable(rrh)
  /\ RecoveryFails("EINVAL")
  /\ UNCHANGED <<dirs, peerv, faults, parses, stale, short>>

\* No space on the device, a peer that is unknown, a path too long
ImportRefused ==
  /\ pc = "import" /\ Fault
  /\ RecoveryFails("ENOSPC")
  /\ UNCHANGED <<dirs, peerv, parses, stale, short>>

\* Mutant: the calls are repeated without end.
RetriesExhaustedNever == FALSE

RetriesExhausted == retries + 1 >= RsyncTries

\* RSBR_BULK_RECOVER_RSYNC_CMD(): a call that fails is repeated.  It fails if
\* the peer has removed the checkpoint, or for a passing reason.
RsyncError(label) ==
  /\ pc = label
  /\ IF rrh.idx \in Offered(rrh.peer) THEN Fault ELSE UNCHANGED faults
  /\ IF RetriesExhausted THEN RecoveryFails("EIO")
     ELSE /\ retries' = retries + 1
          /\ UNCHANGED <<pc, rc, mem>>

DryRun ==
  /\ pc = "import" /\ Importable(rrh)
  /\ rrh.idx \in Offered(rrh.peer)
  /\ retries' = 0
  /\ Goto("xfer")
  /\ UNCHANGED <<dirs, peerv, rc, mem, faults, parses, stale, short>>

DryRunError ==
  /\ Importable(rrh) /\ RsyncError("import")
  /\ UNCHANGED <<dirs, peerv, parses, stale, short>>

\* rsbr_bulk_recover_xfer(): files arrive, and the name of the directory does
\* not say of which checkpoint.
XferSome ==
  /\ pc = "xfer" /\ rrh.idx \in Offered(rrh.peer)
  /\ copy[rrh.peer] # [idx |-> rrh.idx, full |-> TRUE]
  /\ copy' = [copy EXCEPT ![rrh.peer] = [idx |-> rrh.idx, full |-> FALSE]]
  /\ UNCHANGED <<db, stage, peerv, pc, rc, mem, retries, faults, parses, stale, short>>

\* rsync ends; its exit status does not always show that it has not copied all.
XferDone ==
  /\ pc = "xfer" /\ rrh.idx \in Offered(rrh.peer)
  /\ \/ /\ copy' = [copy EXCEPT ![rrh.peer] = [idx |-> rrh.idx, full |-> TRUE]]
        /\ UNCHANGED faults
     \/ Fault /\ UNCHANGED copy
  /\ retries' = 0
  /\ Goto("verify")
  /\ UNCHANGED <<db, stage, peerv, rc, mem, parses, stale, short>>

XferError ==
  /\ RsyncError("xfer")
  /\ UNCHANGED <<dirs, peerv, parses, stale, short>>

\* Mutant: the transfer is not checked.
RemainingIgnored(p, i) == FALSE

\* rrh_remaining # 0 after the second dry run
Remaining(p, i) == copy[p] # [idx |-> i, full |-> TRUE]

VerifyError ==
  /\ RsyncError("verify")
  /\ UNCHANGED <<dirs, peerv, parses, stale, short>>

VerifyIncomplete ==
  /\ pc = "verify" /\ rrh.idx \in Offered(rrh.peer)
  /\ Remaining(rrh.peer, rrh.idx)
  /\ RecoveryFails("EBADE")
  /\ UNCHANGED <<dirs, peerv, faults, parses, stale, short>>

Verify ==
  /\ pc = "verify" /\ rrh.idx \in Offered(rrh.peer)
  /\ ~Remaining(rrh.peer, rrh.idx)
  /\ retries' = 0
  /\ Goto("stage")
  /\ UNCHANGED <<dirs, peerv, rc, mem, faults, parses, stale, short>>

(***************************************************************************)
(* Staging, removal of the old database, and the scrub.                    *)
(***************************************************************************)

\* rsbr_bulk_recovery_stage_remote_db(): the rename makes the marker.
StageRemoteDb ==
  /\ pc = "stage"
  /\ stage' = [stage EXCEPT ![rrh.peer] =
                 CheckpointOf(rrh.peer, copy[rrh.peer])]
  /\ copy' = [copy EXCEPT ![rrh.peer] = NoCopy]
  /\ Goto("remove")
  /\ UNCHANGED <<db, peerv, rc, mem, retries, faults, parses, stale, short>>

\* rsbr_bulk_recovery_remove_current_db_contents(), whatever the error of the
\* last checkpoint
RemoveCurrentDb ==
  /\ pc = "remove"
  /\ db' = NoDir
  /\ Goto("open")
  /\ UNCHANGED <<copy, stage, peerv, rc, mem, retries, faults, parses, stale, short>>

RemoveError ==
  /\ pc = "remove" /\ Fault
  /\ RecoveryFails("EIO")
  /\ UNCHANGED <<dirs, peerv, parses, stale, short>>

\* rsb_sm_get_instance_uuid(): a key that is missing leaves the old value.
RecoveryUuid(st) == IF st.pre = NoPeer THEN recuuid ELSE st.pre

\* Mutant: only the database's own uuid is compared.
UuidMatchesOwnOnly(st, p) == st.uuid = p

UuidMatches(st, p) == st.uuid = p \/ RecoveryUuid(st) = p

\* rsbr_setup_rir() and rsbr_db_open() of the staged directory, and the start
\* of rsbr_bulk_recovery_db_scrub(), which loads the header of the peer
OpenStaged ==
  /\ pc = "open"
  /\ LET st == stage[rrh.peer] IN
     /\ st.full /\ UuidMatches(st, rrh.peer) /\ st.hdr[rrh.peer] >= 0
     /\ recuuid' = RecoveryUuid(st)
     /\ stale' = (stale \/ (st.pre = NoPeer /\ recuuid # NoPeer))
     /\ hdr' = st.hdr[rrh.peer]
  /\ Goto("scrub")
  /\ UNCHANGED <<dirs, peerv, rc, proc, saved, needs, rrh, retries, faults,
                 parses, short>>

OpenError ==
  /\ pc = "open"
  /\ LET st == stage[rrh.peer] IN
     \/ ~st.full /\ RecoveryFails("ENOTCONN") /\ UNCHANGED faults
     \/ st.full /\ ~UuidMatches(st, rrh.peer) /\ RecoveryFails("ENODEV")
        /\ UNCHANGED faults
     \/ Fault /\ RecoveryFails("ENOTCONN")
  /\ UNCHANGED <<dirs, peerv, parses, stale, short>>

\* rsbr_entry_header_write_recovery_scrub(), not synchronous
ScrubEntryHeader ==
  /\ pc = "scrub" /\ stage[rrh.peer].mine < Entries
  /\ stage' = [stage EXCEPT ![rrh.peer].mine = @ + 1]
  /\ UNCHANGED <<db, copy, peerv, pc, rc, mem, retries, faults, parses, stale, short>>

\* All entry headers name this server.
ScrubIsDone(st) == st.mine = Entries

\* rsbr_init_header(), first write: a new uuid, and the one before recovery
\* unless ri_db_recovery_uuid has that value
InitHeader ==
  /\ pc = "scrub" /\ ScrubIsDone(stage[rrh.peer])
  /\ stage' = [stage EXCEPT
       ![rrh.peer].uuid = Self,
       ![rrh.peer].pre = IF recuuid = rrh.peer THEN @ ELSE rrh.peer]
  /\ Goto("header")
  /\ UNCHANGED <<db, copy, peerv, rc, mem, retries, faults, parses, stale, short>>

\* The header of the peer, under this server's name
ScrubbedHeader(st) == [st.hdr EXCEPT ![Self] = hdr]

\* rsbr_header_write() under this server's name; the database is closed.
HeaderWrite ==
  /\ pc = "header"
  /\ stage' = [stage EXCEPT ![rrh.peer].hdr = ScrubbedHeader(stage[rrh.peer])]
  /\ Goto("promote")
  /\ UNCHANGED <<db, copy, peerv, rc, mem, retries, faults, parses, stale, short>>

\* rsbr_bulk_recovery_promote_scrubbed_db(), and the success branch of
\* raft_server_instance_run()
PromoteScrubbedDb ==
  /\ pc = "promote"
  /\ db \in {NoDir, Empty}
  /\ db' = stage[rrh.peer]
  /\ stage' = [stage EXCEPT ![rrh.peer] = NoDir]
  /\ rc' = "ok" /\ proc' = saved /\ needs' = FALSE
  /\ Goto("loop")
  /\ UNCHANGED <<copy, peerv, saved, rrh, recuuid, hdr, retries, faults,
                 parses, stale, short>>

PromoteError ==
  /\ pc = "promote" /\ Fault
  /\ RecoveryFails("EIO")
  /\ UNCHANGED <<dirs, peerv, parses, stale, short>>

RecoveryStep ==
  \/ ImportInvalid \/ ImportRefused \/ DryRun \/ DryRunError
  \/ XferSome \/ XferDone \/ XferError
  \/ VerifyError \/ VerifyIncomplete \/ Verify
  \/ StageRemoteDb \/ RemoveCurrentDb \/ RemoveError
  \/ OpenStaged \/ OpenError \/ ScrubEntryHeader
  \/ InitHeader \/ HeaderWrite \/ PromoteError

PeerStep == \E p \in Peers : PeerCheckpoint(p) \/ PeerCompacts(p)
====
