---------------------------- MODULE LogCompaction ----------------------------
(***************************************************************************)
(* Checkpoints and compaction of one server's log on the RocksDB backend.  *)
(* Three threads share the log: the main thread writes, applies and reads  *)
(* entries, the sync thread makes them durable, and the checkpoint thread  *)
(* wakes up every second, copies the store into a checkpoint directory     *)
(* and removes old entries from the front of the log.                      *)
(*                                                                         *)
(* The store is written through a write-ahead log: a crash leaves the      *)
(* store of some moment after the last synchronous write.  Directories     *)
(* are renamed atomically and survive a crash.  The server may be stopped  *)
(* between any two steps and is then started again.                        *)
(***************************************************************************)
EXTENDS Integers, Sequences, FiniteSets, FiniteSetsExt

CONSTANTS
  MinScanEntries,      \* RAFT_INSTANCE_PERSISTENT_APP_MIN_SCAN_ENTRIES
  ScanEntries,         \* configured ri_max_scan_entries
  ReapFactor,          \* configured ri_log_reap_factor
  ReapFactorMax,       \* RAFT_INSTANCE_PERSISTENT_APP_REAP_FACTOR_MAX
  NumCheckpoints,      \* configured ri_num_checkpoints
  ChkptMin, ChkptMax,  \* RAFT_INSTANCE_PERSISTENT_APP_CHKPT_MIN and _MAX
  AutoCheckpoints,     \* ri_auto_checkpoints_enabled
  InitialScan,         \* LOG_INITIAL_SCAN_SZ
  FirstIdx,            \* newest entry of the log the server starts on
  FirstApplied,        \* the entry that was applied last before
  ReadIdx,             \* bound: the indexes that are read
  MaxIdx,              \* bound: the highest entry index
  MaxUnsynced,         \* bound: writes between two synchronous ones
  MaxRequests,         \* bound: requests for a checkpoint or a reap
  MaxCrashes           \* bound: stops of the process that are not aborts

ASSUME TunableAssumption ==
  /\ MinScanEntries \in Nat \ {0} /\ ScanEntries \in Int
  /\ ReapFactor \in Nat \ {0} /\ ReapFactorMax \in Nat \ {0}
  /\ NumCheckpoints \in Nat /\ ChkptMin \in Nat /\ ChkptMax \in Nat
  /\ 2 <= ChkptMin /\ ChkptMin <= ChkptMax
  /\ InitialScan \in Nat \ {0} /\ AutoCheckpoints \in BOOLEAN
ASSUME BoundAssumption ==
  /\ MaxIdx \in Nat /\ FirstIdx \in -1..MaxIdx
  /\ FirstApplied \in -1..FirstIdx /\ MaxUnsynced \in Nat
  /\ ReadIdx \subseteq Nat
  /\ MaxRequests \in Nat /\ MaxCrashes \in Nat

VARIABLES
  wal,      \* stores since the last synchronous write; the last is current
  unsync, sync,              \* index of the newest entry: written, durable
  rla_idx, rla_synced_idx,   \* ri_last_applied
  ri_lowest_idx, ri_pending_read_idx,
  ri_checkpoint_last_idx, ri_last_chkpt_err,
  ri_user_requested_checkpoint, ri_user_requested_reap,
  chkpts,   \* completed checkpoint directories: index -> the store copied
  tmp,      \* indexes of the ".in-progress_" directories
  pc,       \* per thread: what it does next
  rd,       \* main thread: index being read
  ck,       \* checkpoint thread: its locals
  snap,     \* sync thread: its locals
  wait,     \* main thread: what it waits for before a bulk recovery
  fatal,    \* the assertion that has stopped the process
  restarted, \* history: the process has been started again
  requests, crashes

storeVars == <<wal, unsync, sync, rla_idx, rla_synced_idx>>
readVars  == <<ri_lowest_idx, ri_pending_read_idx, rd>>
dirVars   == <<chkpts, tmp>>
flagVars  == <<ri_user_requested_checkpoint, ri_user_requested_reap>>
lastVars  == <<ri_checkpoint_last_idx, ri_last_chkpt_err>>
vars == <<storeVars, readVars, dirVars, flagVars, lastVars, pc, ck, snap,
          wait, fatal, restarted, requests, crashes>>

Thread == {"main", "sync", "chkpt"}

\* What RocksDB holds of the log: the indexes of the entries, and the record
\* of the last applied entry, with rla_synced_idx as it was when written.
NoStore == [ents |-> {}, idx |-> -1, syn |-> -1]

\* A log of which the first entries are applied, the last since the last sync.
FirstStore == [ents |-> 0..FirstIdx, idx |-> FirstApplied,
               syn |-> Max({-1, FirstApplied - 1})]

store == wal[Len(wal)]

NoLocals == [reap |-> FALSE, idx |-> -1, st |-> NoStore, rc |-> "none"]
NoSnap   == [applied |-> -1, unsync |-> -1]
NoWait   == [old |-> -1, asked |-> -1, result |-> "none"]

\* raft_server_set_max_scan_entries()
ri_max_scan_entries ==
  IF ScanEntries < 0 THEN -1 ELSE Max({ScanEntries, MinScanEntries})

\* raft_server_set_log_reap_factor()
ri_log_reap_factor == Min({ReapFactor, ReapFactorMax})

\* raft_server_set_num_checkpoints()
ri_num_checkpoints == Min({Max({ChkptMin, NumCheckpoints}), ChkptMax})

num_keep_entries == ri_log_reap_factor * ri_max_scan_entries

Highest(S) == IF S = {} THEN -1 ELSE Max(S)

\* rsbr_lowest_entry_get()
LowestEntry(ents) == IF ents = {} THEN -1 ELSE Min(ents)

\* rsbr_num_entries_calc()
NumEntries(ents) == Highest(ents) + 1

Init ==
  /\ wal = <<FirstStore>> /\ unsync = FirstIdx /\ sync = FirstIdx
  /\ rla_idx = FirstStore.idx /\ rla_synced_idx = FirstStore.syn
  /\ ri_lowest_idx = LowestEntry(FirstStore.ents) /\ ri_pending_read_idx = -1 /\ rd = -1
  /\ chkpts = <<>> /\ tmp = {}
  /\ ri_user_requested_checkpoint = FALSE /\ ri_user_requested_reap = FALSE
  /\ ri_checkpoint_last_idx = -1 /\ ri_last_chkpt_err = "none"
  /\ pc = [t \in Thread |-> "idle"]
  /\ ck = NoLocals /\ snap = NoSnap /\ wait = NoWait
  /\ fatal = "none" /\ restarted = FALSE /\ requests = 0 /\ crashes = 0

Running(t, label) == fatal = "none" /\ pc[t] = label
Goto(t, label)    == pc' = [pc EXCEPT ![t] = label]

\* The process aborts; nothing else happens before it is started again.
Abort(why) ==
  /\ fatal' = why
  /\ UNCHANGED <<storeVars, readVars, dirVars, flagVars, lastVars, pc, ck,
                 snap, wait, requests, crashes, restarted>>

(***************************************************************************)
(* The main thread writes and applies entries.                             *)
(***************************************************************************)

\* rsbr_entry_write() and the UNSYNC newest-entry header; not synchronous.
WriteEntry ==
  /\ Running("main", "idle") /\ unsync < MaxIdx /\ Len(wal) <= MaxUnsynced
  /\ unsync' = unsync + 1
  /\ wal' = Append(wal, [store EXCEPT !.ents = @ \cup {unsync + 1}])
  /\ UNCHANGED <<sync, rla_idx, rla_synced_idx, readVars, dirVars, flagVars,
                 lastVars, pc, ck, snap, wait, fatal, requests, crashes, restarted>>

\* raft_server_set_last_applied(): an entry is committed once it is synced.
SetLastApplied ==
  /\ Running("main", "idle") /\ rla_idx < sync
  /\ Len(wal) <= MaxUnsynced
  /\ rla_idx' = rla_idx + 1
  /\ Goto("main", "apply")
  /\ UNCHANGED <<wal, unsync, sync, rla_synced_idx, readVars, dirVars,
                 flagVars, lastVars, ck, snap, wait, fatal, requests,
                 crashes, restarted>>

\* rsbr_sm_apply_opt(): the record is written after the index is raised.
SmApplyOpt ==
  /\ Running("main", "apply")
  /\ wal' = Append(wal, [store EXCEPT !.idx = rla_idx,
                                      !.syn = rla_synced_idx])
  /\ Goto("main", "idle")
  /\ UNCHANGED <<unsync, sync, rla_idx, rla_synced_idx, readVars, dirVars,
                 flagVars, lastVars, ck, snap, wait, fatal, requests,
                 crashes, restarted>>

(***************************************************************************)
(* raft_server_backend_sync(), by the sync thread or for a header write.   *)
(***************************************************************************)

SyncSnapshot ==
  /\ Running("sync", "idle")
  /\ unsync > sync \/ rla_idx > rla_synced_idx
  /\ snap' = [applied |-> rla_idx, unsync |-> unsync]
  /\ Goto("sync", "sync")
  /\ UNCHANGED <<storeVars, readVars, dirVars, flagVars, lastVars, ck, wait,
                 fatal, requests, crashes, restarted>>

SyncBackend ==
  /\ Running("sync", "sync")
  /\ wal' = <<store>>
  /\ sync' = snap.unsync
  /\ rla_synced_idx' = Max({rla_synced_idx, snap.applied})
  /\ snap' = NoSnap
  /\ Goto("sync", "idle")
  /\ UNCHANGED <<unsync, rla_idx, readVars, dirVars, flagVars, lastVars, ck,
                 wait, fatal, requests, crashes, restarted>>

(***************************************************************************)
(* The main thread reads an entry that a follower or the leader asks for.  *)
(***************************************************************************)

\* raft_server_entry_has_been_compacted()
HasBeenCompacted(idx) == idx < ri_lowest_idx

\* raft_server_entry_range_check() of a server that is not booting
RangeCheck(idx) ==
  IF idx > unsync THEN "EDOM"
  ELSE IF HasBeenCompacted(idx) THEN "ERANGE" ELSE "OK"

\* raft_server_read_entry_register_idx(), before the mutex is taken.  A read
\* that is refused with ERANGE changes nothing.
ReadRangeCheck(idx) ==
  /\ Running("main", "idle") /\ RangeCheck(idx) = "OK"
  /\ rd' = idx
  /\ Goto("main", "register")
  /\ UNCHANGED <<storeVars, ri_lowest_idx, ri_pending_read_idx, dirVars,
                 flagVars, lastVars, ck, snap, wait, fatal, requests,
                 crashes, restarted>>

\* raft_server_read_entry_register_idx(), under ri_compaction_mutex
ReadRegister ==
  /\ Running("main", "register")
  /\ ri_pending_read_idx = -1 /\ ~HasBeenCompacted(rd)
  /\ ri_pending_read_idx' = rd
  /\ Goto("main", "read")
  /\ UNCHANGED <<storeVars, ri_lowest_idx, rd, dirVars, flagVars, lastVars,
                 ck, snap, wait, fatal, requests, crashes, restarted>>

\* The registration returns 1, and its caller asserts that it is -ERANGE.
ReadRegisterAbort ==
  /\ Running("main", "register")
  /\ ri_pending_read_idx = -1 => HasBeenCompacted(rd)
  /\ Abort(IF ri_pending_read_idx = -1 THEN "read_race" ELSE "pending_read")

\* rsbr_entry_read() and rsbr_entry_header_read(): an entry that is not there
\* is fatal.  raft_server_read_entry_unregister_idx() follows.
EntryRead ==
  /\ Running("main", "read")
  /\ fatal' = IF rd \in store.ents THEN "none" ELSE "read_missing"
  /\ ri_pending_read_idx' = -1 /\ rd' = -1
  /\ Goto("main", "idle")
  /\ UNCHANGED <<storeVars, ri_lowest_idx, dirVars, flagVars, lastVars, ck,
                 snap, wait, requests, crashes, restarted>>

(***************************************************************************)
(* Requests to the checkpoint thread.                                      *)
(***************************************************************************)

\* The registry's write of chkpt-idx, or of lowest-idx
RequestCheckpoint ==
  /\ fatal = "none" /\ requests < MaxRequests /\ ~ri_user_requested_checkpoint
  /\ ri_user_requested_checkpoint' = TRUE
  /\ requests' = requests + 1
  /\ UNCHANGED <<storeVars, readVars, dirVars, ri_user_requested_reap,
                 lastVars, pc, ck, snap, wait, fatal, crashes, restarted>>

RequestReap ==
  /\ fatal = "none" /\ requests < MaxRequests /\ ~ri_user_requested_reap
  /\ ri_user_requested_reap' = TRUE
  /\ requests' = requests + 1
  /\ UNCHANGED <<storeVars, readVars, dirVars, ri_user_requested_checkpoint,
                 lastVars, pc, ck, snap, wait, fatal, crashes, restarted>>

\* raft_server_chkpt_prior_to_recovery() asks for a checkpoint and waits.
PriorToRecovery ==
  /\ Running("main", "idle") /\ requests < MaxRequests /\ sync >= 0
  /\ wait' = [old |-> ri_checkpoint_last_idx, asked |-> rla_synced_idx,
              result |-> "none"]
  /\ ri_last_chkpt_err' = "none"
  /\ ri_user_requested_checkpoint' = TRUE
  /\ requests' = requests + 1
  /\ Goto("main", "wait")
  /\ UNCHANGED <<storeVars, readVars, dirVars, ri_user_requested_reap,
                 ri_checkpoint_last_idx, ck, snap, fatal, crashes,
                 restarted>>

PriorAnswered ==
  ri_checkpoint_last_idx > wait.old \/ ri_last_chkpt_err # "none"

PriorResult(err) ==
  IF err \in {"ENODATA", "EALREADY", "none"} THEN "ok" ELSE err

\* raftServerChkptTimeoutSec polls of one second; the server then shuts down.
PriorDone ==
  /\ Running("main", "wait")
  /\ LET err == IF PriorAnswered THEN ri_last_chkpt_err ELSE "ETIMEDOUT" IN
     /\ ri_last_chkpt_err' = err
     /\ wait' = [wait EXCEPT !.result = PriorResult(err)]
  /\ Goto("main", "left")
  /\ UNCHANGED <<storeVars, readVars, dirVars, flagVars,
                 ri_checkpoint_last_idx, ck, snap, fatal, requests, crashes, restarted>>

(***************************************************************************)
(* raft_server_chkpt_thread()                                              *)
(***************************************************************************)

\* Mutant: entries that are committed and not applied yet count too.
ChkptCompactMaxIdxCommit == sync

\* raft_server_instance_chkpt_compact_max_idx()
ChkptCompactMaxIdx == rla_synced_idx

WantsCheckpoint(asked) ==
  \/ asked
  \/ /\ AutoCheckpoints
     /\ ChkptCompactMaxIdx - ri_checkpoint_last_idx >= ri_max_scan_entries

WantsReap(asked) == asked \/ (AutoCheckpoints /\ ri_log_reap_factor > 0)

\* One wake-up: the requests are taken, and dropped if nothing is applied.
ChkptRound ==
  /\ Running("chkpt", "idle")
  /\ pc["main"] # "left"
  /\ ri_user_requested_checkpoint' = FALSE
  /\ ri_user_requested_reap' = FALSE
  /\ ChkptCompactMaxIdx >= 0 =>
       ChkptCompactMaxIdx >= ri_checkpoint_last_idx
  /\ LET takes == /\ ChkptCompactMaxIdx >= 0
                  /\ WantsCheckpoint(ri_user_requested_checkpoint)
         reaps == /\ ChkptCompactMaxIdx >= 0
                  /\ WantsReap(ri_user_requested_reap)
     IN
     /\ ck' = [NoLocals EXCEPT !.reap = reaps]
     /\ Goto("chkpt", IF takes THEN "take" ELSE IF reaps THEN "reap"
                      ELSE "idle")
  /\ UNCHANGED <<storeVars, readVars, dirVars, lastVars, snap, wait, fatal,
                 requests, crashes, restarted>>

\* DBG_RAFT_INSTANCE_FATAL_IF(num_entries_since_last_chkpt < 0, ...)
ChkptRoundAbort ==
  /\ Running("chkpt", "idle") /\ pc["main"] # "left"
  /\ ChkptCompactMaxIdx >= 0
  /\ ChkptCompactMaxIdx < ri_checkpoint_last_idx
  /\ Abort("chkpt_behind")

\* The round goes on to reap the log, or ends.
AfterTake ==
  IF ck.reap
  THEN ck' = [NoLocals EXCEPT !.reap = TRUE] /\ Goto("chkpt", "reap")
  ELSE ck' = NoLocals /\ Goto("chkpt", "idle")

\* Mutant: that the checkpoint exists already is not reported.
TakeAlreadySilent ==
  /\ Running("chkpt", "take")
  /\ LET idx == ChkptCompactMaxIdx IN
     /\ idx = ri_checkpoint_last_idx \/ idx \in DOMAIN chkpts
     /\ tmp' = IF idx = ri_checkpoint_last_idx THEN tmp ELSE tmp \ {idx}
  /\ AfterTake
  /\ UNCHANGED <<storeVars, readVars, chkpts, flagVars, lastVars, snap, wait,
                 fatal, requests, crashes, restarted>>

\* rsbr_checkpoint() up to the check of the final path; a directory that an
\* earlier attempt at the same index left behind goes to the trash.
TakeAlready ==
  /\ Running("chkpt", "take")
  /\ LET idx == ChkptCompactMaxIdx IN
     /\ idx = ri_checkpoint_last_idx \/ idx \in DOMAIN chkpts
     /\ tmp' = IF idx = ri_checkpoint_last_idx THEN tmp ELSE tmp \ {idx}
  /\ ri_last_chkpt_err' = "EALREADY"
  /\ AfterTake
  /\ UNCHANGED <<storeVars, readVars, chkpts, flagVars,
                 ri_checkpoint_last_idx, snap, wait, fatal, requests,
                 crashes, restarted>>

TakeStart ==
  /\ Running("chkpt", "take")
  /\ LET idx == ChkptCompactMaxIdx IN
     /\ idx # ri_checkpoint_last_idx /\ idx \notin DOMAIN chkpts
     /\ ck' = [ck EXCEPT !.idx = idx]
     /\ tmp' = tmp \ {idx}
  /\ Goto("chkpt", "create")
  /\ UNCHANGED <<storeVars, readVars, chkpts, flagVars, lastVars, snap, wait,
                 fatal, requests, crashes, restarted>>

\* rocksdb_checkpoint_create() copies the store into the temporary directory.
CreateCheckpoint ==
  /\ Running("chkpt", "create")
  /\ ck' = [ck EXCEPT !.st = [store EXCEPT !.syn = -1]]
  /\ tmp' = tmp \cup {ck.idx}
  /\ Goto("chkpt", "rename")
  /\ UNCHANGED <<storeVars, readVars, chkpts, flagVars, lastVars, snap, wait,
                 fatal, requests, crashes, restarted>>

\* The copy fails and may leave a part of the directory.
CreateFails ==
  /\ Running("chkpt", "create")
  /\ tmp' \in {tmp, tmp \cup {ck.idx}}
  /\ ri_last_chkpt_err' = "ENOMEM"
  /\ AfterTake
  /\ UNCHANGED <<storeVars, readVars, chkpts, flagVars,
                 ri_checkpoint_last_idx, snap, wait, fatal, requests,
                 crashes, restarted>>

\* rename() of the temporary directory to its final name
RenameCheckpoint ==
  /\ Running("chkpt", "rename")
  /\ \/ /\ chkpts' = [i \in DOMAIN chkpts \cup {ck.idx} |->
                        IF i = ck.idx THEN ck.st ELSE chkpts[i]]
        /\ tmp' = tmp \ {ck.idx}
        /\ ck' = [ck EXCEPT !.st = NoStore]
     \/ /\ ck' = [ck EXCEPT !.st = NoStore, !.rc = "EIO"]
        /\ UNCHANGED dirVars
  /\ Goto("chkpt", "cleanup")
  /\ UNCHANGED <<storeVars, readVars, flagVars, lastVars, snap, wait, fatal,
                 requests, crashes, restarted>>

\* Mutant: one checkpoint fewer is kept.
KeptOneFewer(c) ==
  [i \in {j \in DOMAIN c :
            Cardinality({k \in DOMAIN c : k > j}) + 1 < ri_num_checkpoints}
     |-> c[i]]

\* rsbr_self_chkpt_scan(), newest first; the rest goes to the trash, which
\* rsbr_remove_trash() empties.
Kept(c) ==
  [i \in {j \in DOMAIN c :
            Cardinality({k \in DOMAIN c : k > j}) < ri_num_checkpoints}
     |-> c[i]]

CleanupCheckpoints ==
  /\ Running("chkpt", "cleanup")
  /\ chkpts' = Kept(chkpts)
  /\ Goto("chkpt", "last")
  /\ UNCHANGED <<storeVars, readVars, tmp, flagVars, lastVars, ck, snap,
                 wait, fatal, requests, crashes, restarted>>

\* raft_server_take_chkpt() after the backend returns: an error and index 0
\* are recorded as the last error, and an index as the last checkpoint, which
\* raft_server_set_checkpoint_last_idx() never lets go back.
SetCheckpointLastIdx ==
  /\ Running("chkpt", "last")
  /\ fatal' = IF ck.rc = "none" /\ ck.idx < ri_checkpoint_last_idx
              THEN "chkpt_index" ELSE "none"
  /\ ri_checkpoint_last_idx' =
       IF ck.rc = "none" THEN ck.idx ELSE ri_checkpoint_last_idx
  /\ ri_last_chkpt_err' =
       IF ck.rc # "none" \/ ck.idx = 0 THEN ck.rc ELSE ri_last_chkpt_err
  /\ AfterTake
  /\ UNCHANGED <<storeVars, readVars, dirVars, flagVars, snap, wait,
                 requests, crashes, restarted>>

(***************************************************************************)
(* raft_server_reap_log()                                                  *)
(***************************************************************************)

NewLowestIdx == ChkptCompactMaxIdx - num_keep_entries

ReapIsDue ==
  /\ num_keep_entries >= MinScanEntries
  /\ ChkptCompactMaxIdx >= 0
  /\ NewLowestIdx > Max({0, ri_lowest_idx}) + num_keep_entries

\* Mutant: a registered read does not stop the compaction.
ReadInRegionIgnored(idx) == FALSE

ReadInRegion(idx) == ri_pending_read_idx # -1 /\ ri_pending_read_idx < idx

\* raft_server_compaction_try_increase_lowest_idx(), after the assertion that
\* max_idx >= lowest_idx
TryIncreaseLowestIdx ==
  /\ Running("chkpt", "reap")
  /\ fatal' = IF /\ num_keep_entries >= MinScanEntries
                 /\ 0 <= ChkptCompactMaxIdx
                 /\ ChkptCompactMaxIdx < ri_lowest_idx
              THEN "reap_behind" ELSE "none"
  /\ IF ReapIsDue /\ ~ReadInRegion(NewLowestIdx)
     THEN /\ ri_lowest_idx' = NewLowestIdx
          /\ ck' = [ck EXCEPT !.idx = NewLowestIdx]
          /\ Goto("chkpt", "delete")
     ELSE /\ Goto("chkpt", "idle") /\ ck' = NoLocals
          /\ UNCHANGED ri_lowest_idx
  /\ UNCHANGED <<storeVars, ri_pending_read_idx, rd, dirVars, flagVars,
                 lastVars, snap, wait, requests, crashes, restarted>>

Reaped(ents, idx) == {i \in ents : i >= idx}

\* rsbr_log_reap(): a synchronous deletion of the range before the new index
LogReap ==
  /\ Running("chkpt", "delete")
  /\ wal' = <<[store EXCEPT !.ents = Reaped(@, ck.idx)]>>
  /\ ck' = NoLocals
  /\ Goto("chkpt", "idle")
  /\ UNCHANGED <<unsync, sync, rla_idx, rla_synced_idx, readVars, dirVars,
                 flagVars, lastVars, snap, wait, fatal, requests,
                 crashes, restarted>>

(***************************************************************************)
(* Stops and starts.                                                       *)
(***************************************************************************)

\* raft_server_entries_scan(): where the scan of the headers begins
ScanStart(lowest, num) ==
  IF ri_max_scan_entries > 0 /\ num > ri_max_scan_entries
  THEN Max({lowest, num - ri_max_scan_entries})
  ELSE Max({0, lowest})

\* The headers that the start reads, in one or two passes
ScannedEntries(ents) ==
  LET num    == NumEntries(ents)
      lowest == LowestEntry(ents)
      start  == ScanStart(lowest, num)
  IN  (start..(num - 1)) \cup
      (IF start > 0 THEN lowest..(Min({lowest + InitialScan, num}) - 1)
       ELSE {})

\* The process has aborted, or has left the main loop for a bulk recovery.
Stopped == fatal # "none" \/ (pc["main"] = "left" /\ pc["chkpt"] = "idle")

\* rsbr_prep_raft_instance_from_db() and raft_server_log_load() after a stop
\* that keeps the store w.
Restart(w) ==
  /\ \/ Stopped /\ UNCHANGED crashes
     \/ ~Stopped /\ crashes < MaxCrashes /\ crashes' = crashes + 1
  /\ wal' = <<w>>
  /\ unsync' = NumEntries(w.ents) - 1 /\ sync' = NumEntries(w.ents) - 1
  /\ rla_idx' = w.idx /\ rla_synced_idx' = w.syn
  /\ ri_lowest_idx' = LowestEntry(w.ents) /\ ri_pending_read_idx' = -1 /\ rd' = -1
  /\ chkpts' = Kept(chkpts)
  /\ tmp' = IF pc["chkpt"] = "create" THEN tmp \cup {ck.idx} ELSE tmp
  /\ ri_user_requested_checkpoint' = FALSE /\ ri_user_requested_reap' = FALSE
  /\ ri_checkpoint_last_idx' = Highest(DOMAIN chkpts)
  /\ ri_last_chkpt_err' = "none"
  /\ pc' = [t \in Thread |-> "idle"]
  /\ ck' = NoLocals /\ snap' = NoSnap /\ wait' = NoWait
  /\ fatal' = IF ScannedEntries(w.ents) \subseteq w.ents THEN "none"
              ELSE "scan"
  /\ restarted' = TRUE
  /\ UNCHANGED requests

MainStep ==
  \/ WriteEntry \/ SetLastApplied \/ SmApplyOpt
  \/ \E idx \in ReadIdx : ReadRangeCheck(idx)
  \/ ReadRegister \/ ReadRegisterAbort \/ EntryRead
  \/ PriorToRecovery \/ PriorDone

SyncStep == SyncSnapshot \/ SyncBackend

ChkptStep ==
  \/ ChkptRound \/ ChkptRoundAbort
  \/ TakeAlready \/ TakeStart \/ CreateCheckpoint \/ CreateFails
  \/ RenameCheckpoint \/ CleanupCheckpoints
  \/ SetCheckpointLastIdx \/ TryIncreaseLowestIdx \/ LogReap

Next ==
  \/ MainStep \/ SyncStep \/ ChkptStep
  \/ RequestCheckpoint \/ RequestReap
  \/ \E n \in 1..Len(wal) : Restart(wal[n])

Spec == Init /\ [][Next]_vars

(***************************************************************************)
(* Properties.                                                             *)
(***************************************************************************)

\* AbortsExplained: an assertion of raft_server.c stops the process only when
\* the reader loses the race with the compaction (line 1091), or when a start
\* has taken rla_synced_idx from a record older than the last checkpoint or
\* reap (lines 5865 and 5819).  In particular no read misses its entry, the
\* start finds every header it scans, and checkpoint indexes never go back.
AbortsExplained ==
  \/ fatal \in {"none", "read_race"}
  \/ fatal \in {"chkpt_behind", "reap_behind"} /\ restarted

\* What a start from the store st has to apply is still in its log.
Replayable(st) == (st.idx + 1)..Highest(st.ents) \subseteq st.ents

\* AppliedOrLogged: whatever store a crash leaves, compaction has removed no
\* entry that the record of the last applied entry does not cover.
AppliedOrLogged == \A n \in 1..Len(wal) : Replayable(wal[n])

\* CheckpointComplete: a directory that has its final name is a store to start
\* from, whose log reaches its index and which has applied at least all
\* entries before it, whatever was applied, synced or reaped during the copy;
\* the index a leader sends with its AE requests (ri_checkpoint_last_idx) names
\* such a directory.
CheckpointComplete ==
  /\ \A i \in DOMAIN chkpts :
       /\ Replayable(chkpts[i])
       /\ i <= Highest(chkpts[i].ents) /\ chkpts[i].idx >= i - 1
  /\ ri_checkpoint_last_idx >= 0 => ri_checkpoint_last_idx \in DOMAIN chkpts

\* PreviousKept: when a new index is advertised, the checkpoint of the one
\* before, which a peer may be copying, is not removed.
PreviousKept ==
  [][/\ ri_checkpoint_last_idx >= 0
     /\ ri_checkpoint_last_idx' # ri_checkpoint_last_idx
     => ri_checkpoint_last_idx \in DOMAIN chkpts']_vars

\* RequestNotLost: the main thread, which has asked for a checkpoint before a
\* bulk recovery, does not wait for an answer that nobody will give, unless
\* nothing that was applied had been synced when it asked.
RequestNotLost ==
  /\ fatal = "none" /\ pc["main"] = "wait" /\ pc["chkpt"] = "idle"
  /\ ~ri_user_requested_checkpoint /\ wait.asked >= 0
  => PriorAnswered
====
