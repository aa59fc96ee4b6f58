------------------------------- MODULE LogSync -------------------------------
(***************************************************************************)
(* The two threads of a server that share its log when writes are          *)
(* asynchronous: the main thread, which writes entries, persists the log   *)
(* header, prunes and applies, and the sync thread, which makes written    *)
(* entries durable in the background (raft_server.c, with the RocksDB      *)
(* backend).  Both call raft_server_backend_sync(), which a mutex          *)
(* serialises; the newest-entry headers have a mutex of their own, so that *)
(* one step here is one access to them or one call of the backend.         *)
(*                                                                         *)
(* A backend write with sync option makes every earlier write durable too: *)
(* they share the write-ahead log.  An index is 0 for the first entry.     *)
(***************************************************************************)
EXTENDS Integers, Sequences

CONSTANTS
  SyncInPrune,  \* a sync may start while the main thread prunes, as coded
  MaxLogLen,    \* bound: no entry is written at this length
  MaxTerm,      \* bound: the terms of entries
  MaxPrunes,    \* bound
  MaxCrashes    \* bound

ASSUME SwitchAssumption == SyncInPrune \in BOOLEAN
ASSUME BoundAssumption ==
  /\ MaxLogLen \in Nat /\ MaxTerm \in Nat /\ MaxPrunes \in Nat
  /\ MaxCrashes \in Nat

VARIABLES
  log,      \* terms of the entries in the store
  kv,       \* last-applied record in the store
  disk,     \* what of the store survives a crash: [log, kv]
  sync,     \* newest-entry header RI_NEHDR_SYNC
  unsync,   \* newest-entry header RI_NEHDR_UNSYNC
  ri_commit_idx,
  rla_idx, rla_synced_idx,  \* ri_last_applied
  mutex,    \* who is in raft_server_backend_sync()
  pc,       \* per thread: what it does next
  snap,     \* per thread: the locals of raft_server_backend_sync()
  op,       \* main thread: who called raft_server_backend_sync()
  prev,     \* main thread: raerqm_prev_log_index of the prune
  fatal,    \* an assertion has failed
  prunes, crashes

storeVars == <<log, kv, disk>>
hdrVars   == <<sync, unsync>>
rlaVars   == <<ri_commit_idx, rla_idx, rla_synced_idx>>
mainVars  == <<op, prev>>
boundVars == <<prunes, crashes>>
vars == <<storeVars, hdrVars, rlaVars, mutex, pc, snap, mainVars, fatal,
          boundVars>>

Thread == {"main", "sync"}

\* raft_entry_header, and the one of an empty log.
Header == [idx : Int, term : Nat]

HeaderOf(L, idx) ==
  [idx |-> idx, term |-> IF idx >= 0 THEN L[idx + 1] ELSE 0]

NewestOf(L) == HeaderOf(L, Len(L) - 1)

Store == [log |-> log, kv |-> kv]

\* The locals of raft_server_backend_sync() outside of it.
NoLocals == [hdr |-> [idx |-> -1, term |-> 0], rla |-> -1]

Running(t, where) == fatal = "none" /\ pc[t] = where

Goto(t, where) == pc' = [pc EXCEPT ![t] = where]

Init ==
  /\ log = <<>> /\ kv = [idx |-> -1, synced |-> -1] /\ disk = Store
  /\ sync = NewestOf(log) /\ unsync = NewestOf(log)
  /\ ri_commit_idx = -1 /\ rla_idx = -1 /\ rla_synced_idx = -1
  /\ mutex = "free"
  /\ pc = [t \in Thread |-> IF t = "main" THEN "idle" ELSE "sleep"]
  /\ snap = [t \in Thread |-> NoLocals]
  /\ op = "none" /\ prev = -1 /\ fatal = "none"
  /\ prunes = 0 /\ crashes = 0

-----------------------------------------------------------------------------
(* The newest-entry headers *)

\* raft_server_has_unsynced_entries(): its result and its sanity check.
HasUnsynced == sync # unsync

InvalidHeaders ==
  HasUnsynced /\ (sync.idx > unsync.idx \/ sync.term > unsync.term)

\* raft_instance_update_newest_entry_hdr() without force.
Newer(reh, tgt) == IF reh.idx > tgt.idx THEN reh ELSE tgt

-----------------------------------------------------------------------------
(* raft_server_backend_sync(), called by thread t *)

\* The mutex is taken and the last-applied index is copied.
Lock(t) ==
  /\ Running(t, "lock") /\ mutex = "free"
  /\ t = "sync" => SyncInPrune \/ pc["main"] \notin {"force", "truncate", "check"}
  /\ mutex' = t
  /\ snap' = [snap EXCEPT ![t].rla = rla_idx]
  /\ Goto(t, "snapshot")
  /\ UNCHANGED <<storeVars, hdrVars, rlaVars, mainVars, fatal, boundVars>>

\* The unsynced header is copied.
Snapshot(t) ==
  /\ Running(t, "snapshot")
  /\ snap' = [snap EXCEPT ![t].hdr = unsync]
  /\ Goto(t, "device")
  /\ fatal' = IF sync.idx > unsync.idx THEN "sync_idx" ELSE "none"
  /\ UNCHANGED <<storeVars, hdrVars, rlaVars, mutex, mainVars, boundVars>>

\* rib_backend_sync()
DeviceSync(t) ==
  /\ Running(t, "device")
  /\ disk' = Store
  /\ Goto(t, "header")
  /\ UNCHANGED <<log, kv, hdrVars, rlaVars, mutex, snap, mainVars, fatal,
                 boundVars>>

\* Mutant: the header as it is now, not the copy made before the sync.
UpdateSyncHdrCurrent(t) ==
  /\ Running(t, "header")
  /\ sync' = Newer(unsync, sync)
  /\ Goto(t, "unlock")
  /\ UNCHANGED <<storeVars, unsync, rlaVars, mutex, snap, mainVars, fatal,
                 boundVars>>

\* The copy of the unsynced header becomes the synced one.
UpdateSyncHdr(t) ==
  /\ Running(t, "header")
  /\ sync' = Newer(snap[t].hdr, sync)
  /\ Goto(t, "unlock")
  /\ UNCHANGED <<storeVars, unsync, rlaVars, mutex, snap, mainVars, fatal,
                 boundVars>>

\* Where the caller goes on.
AfterSync(t) ==
  IF t = "sync" THEN "sleep" ELSE IF op = "prune" THEN "force" ELSE "idle"

\* Mutant: the last-applied index as it is now, not the copy.
UnlockCurrentRla(t) ==
  /\ Running(t, "unlock")
  /\ rla_synced_idx' = rla_idx
  /\ mutex' = "free"
  /\ snap' = [snap EXCEPT ![t] = NoLocals]
  /\ op' = IF t = "main" THEN "none" ELSE op
  /\ Goto(t, AfterSync(t))
  /\ UNCHANGED <<storeVars, hdrVars, ri_commit_idx, rla_idx, prev, fatal,
                 boundVars>>

\* The synced last-applied index is raised, the mutex is released, and the
\* caller goes on.
Unlock(t) ==
  /\ Running(t, "unlock")
  /\ rla_synced_idx' =
       IF rla_synced_idx < snap[t].rla THEN snap[t].rla ELSE rla_synced_idx
  /\ fatal' = IF \/ rla_idx < rla_synced_idx
                 \/ snap[t].rla < rla_synced_idx
              THEN "rla_synced" ELSE "none"
  /\ mutex' = "free"
  /\ snap' = [snap EXCEPT ![t] = NoLocals]
  /\ op' = IF t = "main" THEN "none" ELSE op
  /\ Goto(t, AfterSync(t))
  /\ UNCHANGED <<storeVars, hdrVars, ri_commit_idx, rla_idx, prev, boundVars>>

BackendSync(t) ==
  Lock(t) \/ Snapshot(t) \/ DeviceSync(t) \/ UpdateSyncHdr(t) \/ Unlock(t)

-----------------------------------------------------------------------------
(* The sync thread *)

\* raft_server_sync_thread() wakes up and looks for unsynced entries.
Wake ==
  /\ Running("sync", "sleep")
  /\ HasUnsynced
  /\ IF InvalidHeaders
     THEN fatal' = "headers" /\ UNCHANGED pc
     ELSE Goto("sync", "pending") /\ UNCHANGED fatal
  /\ UNCHANGED <<storeVars, hdrVars, rlaVars, mutex, snap, mainVars, boundVars>>

\* Mutant: the result of the check is inverted.
SyncPendingInverted ==
  /\ Running("sync", "pending")
  /\ Goto("sync", IF HasUnsynced THEN "sleep" ELSE "lock")
  /\ UNCHANGED <<storeVars, hdrVars, rlaVars, mutex, snap, mainVars, fatal,
                 boundVars>>

\* raft_server_backend_sync_pending() looks once more.
SyncPending ==
  /\ Running("sync", "pending")
  /\ Goto("sync", IF HasUnsynced THEN "lock" ELSE "sleep")
  /\ fatal' = IF InvalidHeaders THEN "headers" ELSE "none"
  /\ UNCHANGED <<storeVars, hdrVars, rlaVars, mutex, snap, mainVars, boundVars>>

-----------------------------------------------------------------------------
(* The main thread *)

\* raft_server_entry_write(), the write to the store: no sync is asked for.
WriteEntry ==
  /\ Running("main", "idle")
  /\ unsync.idx + 1 < MaxLogLen
  /\ \E term \in unsync.term .. MaxTerm :
       /\ term > 0
       /\ log' = Append(SubSeq(log, 1, unsync.idx + 1), term)
  /\ Goto("main", "written")
  /\ UNCHANGED <<kv, disk, hdrVars, rlaVars, mutex, snap, mainVars, fatal,
                 boundVars>>

\* raft_server_entry_write(), the update of the unsynced header.
UpdateUnsyncHdr ==
  /\ Running("main", "written")
  /\ unsync' = Newer(HeaderOf(log, unsync.idx + 1), unsync)
  /\ Goto("main", "idle")
  /\ UNCHANGED <<storeVars, sync, rlaVars, mutex, snap, mainVars, fatal,
                 boundVars>>

\* raft_server_log_header_write(): the header write is synchronous.
LogHeaderWrite ==
  /\ Running("main", "idle")
  /\ disk' = Store
  /\ op' = "header"
  /\ Goto("main", "lock")
  /\ UNCHANGED <<log, kv, hdrVars, rlaVars, mutex, snap, prev, fatal, boundVars>>

\* raft_server_backend_sync_pending(), for a vote request.
VoteSync ==
  /\ Running("main", "idle")
  /\ HasUnsynced
  /\ IF InvalidHeaders
     THEN fatal' = "headers" /\ UNCHANGED pc
     ELSE Goto("main", "lock") /\ UNCHANGED fatal
  /\ op' = "pending"
  /\ UNCHANGED <<storeVars, hdrVars, rlaVars, mutex, snap, prev, boundVars>>

\* raft_server_append_entry_log_prune_if_needed() starts with a sync.  What is
\* committed or applied is not pruned.
PruneSync ==
  /\ Running("main", "idle")
  /\ prunes < MaxPrunes /\ prunes' = prunes + 1
  /\ \E p \in 0 .. unsync.idx - 1 :
       /\ p >= ri_commit_idx /\ p >= rla_idx
       /\ prev' = p
  /\ op' = "prune"
  /\ Goto("main", "lock")
  /\ UNCHANGED <<storeVars, hdrVars, rlaVars, mutex, snap, fatal, crashes>>

\* Mutant: only the unsynced header is set back.
PruneHdrsUnsyncOnly ==
  /\ Running("main", "force")
  /\ unsync' = HeaderOf(log, prev)
  /\ Goto("main", "truncate")
  /\ UNCHANGED <<storeVars, sync, rlaVars, mutex, snap, mainVars, fatal,
                 boundVars>>

\* Both headers are set to the entry the log is cut behind.
PruneHdrs ==
  /\ Running("main", "force")
  /\ sync' = HeaderOf(log, prev)
  /\ unsync' = HeaderOf(log, prev)
  /\ Goto("main", "truncate")
  /\ UNCHANGED <<storeVars, rlaVars, mutex, snap, mainVars, fatal, boundVars>>

\* Mutant: the write of the truncation is not synchronous.
LogTruncateAsync ==
  /\ Running("main", "truncate")
  /\ log' = SubSeq(log, 1, sync.idx + 1)
  /\ Goto("main", "check")
  /\ UNCHANGED <<kv, disk, hdrVars, rlaVars, mutex, snap, mainVars, fatal,
                 boundVars>>

\* Mutant: the entry the synced header names is cut off too.
LogTruncateOneMore ==
  /\ Running("main", "truncate")
  /\ log' = SubSeq(log, 1, sync.idx)
  /\ disk' = [Store EXCEPT !.log = log']
  /\ Goto("main", "check")
  /\ UNCHANGED <<kv, hdrVars, rlaVars, mutex, snap, mainVars, fatal, boundVars>>

\* raft_server_log_truncate() cuts at the synced header; the write is
\* synchronous.
LogTruncate ==
  /\ Running("main", "truncate")
  /\ log' = SubSeq(log, 1, sync.idx + 1)
  /\ disk' = [Store EXCEPT !.log = log']
  /\ Goto("main", "check")
  /\ UNCHANGED <<kv, hdrVars, rlaVars, mutex, snap, mainVars, fatal, boundVars>>

\* Nothing is unsynced after a prune and the log does not go past prev.
PruneCheck ==
  /\ Running("main", "check")
  /\ fatal' = IF InvalidHeaders THEN "headers"
              ELSE IF HasUnsynced THEN "pruned_unsynced"
              ELSE IF sync.idx > prev THEN "pruned_idx" ELSE "none"
  /\ prev' = -1
  /\ Goto("main", "idle")
  /\ UNCHANGED <<storeVars, hdrVars, rlaVars, mutex, snap, op, boundVars>>

\* raft_server_advance_commit_idx()
AdvanceCommitIdx ==
  /\ Running("main", "idle")
  /\ ri_commit_idx < sync.idx
  /\ ri_commit_idx' \in ri_commit_idx + 1 .. sync.idx
  /\ UNCHANGED <<storeVars, hdrVars, rla_idx, rla_synced_idx, mutex, pc, snap,
                 mainVars, fatal, boundVars>>

\* raft_server_state_machine_apply(), raft_server_set_last_applied(): the
\* index moves in memory first ...
SetLastApplied ==
  /\ Running("main", "idle")
  /\ rla_idx < ri_commit_idx
  /\ rla_idx' = rla_idx + 1
  /\ Goto("main", "apply")
  /\ UNCHANGED <<storeVars, hdrVars, ri_commit_idx, rla_synced_idx, mutex, snap,
                 mainVars, fatal, boundVars>>

\* ... and rsbr_sm_apply_opt() writes it with the application's data, without
\* a sync.
SmApplyOpt ==
  /\ Running("main", "apply")
  /\ kv' = [idx |-> rla_idx, synced |-> rla_synced_idx]
  /\ Goto("main", "idle")
  /\ UNCHANGED <<log, disk, hdrVars, rlaVars, mutex, snap, mainVars, fatal,
                 boundVars>>

-----------------------------------------------------------------------------
\* The process stops at any step and starts again with what is durable.  All
\* entries that are found count as synced, nothing as committed.
Crash ==
  /\ crashes < MaxCrashes /\ crashes' = crashes + 1
  /\ log' = disk.log /\ kv' = disk.kv /\ UNCHANGED disk
  /\ sync' = NewestOf(disk.log) /\ unsync' = NewestOf(disk.log)
  /\ ri_commit_idx' = -1
  /\ rla_idx' = disk.kv.idx /\ rla_synced_idx' = disk.kv.synced
  /\ mutex' = "free"
  /\ pc' = [t \in Thread |-> IF t = "main" THEN "idle" ELSE "sleep"]
  /\ snap' = [t \in Thread |-> NoLocals]
  /\ op' = "none" /\ prev' = -1 /\ fatal' = "none"
  /\ UNCHANGED prunes

MainStep ==
  \/ WriteEntry \/ UpdateUnsyncHdr \/ LogHeaderWrite \/ VoteSync
  \/ PruneSync \/ PruneHdrs \/ LogTruncate \/ PruneCheck
  \/ AdvanceCommitIdx \/ SetLastApplied \/ SmApplyOpt
  \/ BackendSync("main")

SyncStep == Wake \/ SyncPending \/ BackendSync("sync")

Next == MainStep \/ SyncStep \/ Crash

\* The main thread finishes the handler it is in.
Finish ==
  \/ UpdateUnsyncHdr \/ PruneHdrs \/ LogTruncate \/ PruneCheck \/ SmApplyOpt
  \/ BackendSync("main")

Spec == Init /\ [][Next]_vars

FairSpec == Spec /\ WF_vars(Finish) /\ WF_vars(SyncStep)

-----------------------------------------------------------------------------
(* Properties *)

MainLabels ==
  {"idle", "written", "apply", "force", "truncate", "check", "lock",
   "snapshot", "device", "header", "unlock"}

SyncLabels ==
  {"sleep", "pending", "lock", "snapshot", "device", "header", "unlock"}

\* Every variable has its type: the store, the two newest-entry headers, the
\* last-applied record, and the program counters of the two threads.  The
\* headers name entries of the store.
TypeOK ==
  /\ log \in Seq(Nat) /\ kv \in [idx : Int, synced : Int]
  /\ disk \in [log : Seq(Nat), kv : [idx : Int, synced : Int]]
  /\ sync \in Header /\ sync.idx \in -1 .. unsync.idx
  /\ unsync \in Header /\ unsync.idx \in -1 .. Len(log) - 1
  /\ ri_commit_idx \in Int /\ rla_idx \in Int /\ rla_synced_idx \in Int
  /\ mutex \in Thread \cup {"free"}
  /\ pc \in [Thread -> MainLabels \cup SyncLabels]
  /\ pc["main"] \in MainLabels /\ pc["sync"] \in SyncLabels
  /\ snap \in [Thread -> [hdr : Header, rla : Int]]
  /\ op \in {"none", "header", "pending", "prune"} /\ prev \in Int
  /\ fatal \in {"none", "headers", "sync_idx", "rla_synced",
                 "pruned_unsynced", "pruned_idx"}
  /\ prunes \in Nat /\ crashes \in Nat

\* "Forcing a sync here will prevent the sync-thread from persisting new log
\* entries which may be beyond raerqm_prev_log_index": no assertion of the two
\* threads fails, neither the sanity check of the headers nor those behind a
\* prune.
NoFatal == fatal = "none"

\* What the SYNC header says is synced is on disk, whatever the two threads do
\* between the copy of the UNSYNC header and the update of the SYNC header.
SyncedIsDurable ==
  /\ Len(disk.log) > sync.idx
  /\ SubSeq(disk.log, 1, sync.idx + 1) = SubSeq(log, 1, sync.idx + 1)
  /\ sync = HeaderOf(log, sync.idx)

\* rla_synced_idx is "the raft-entry-idx which will not be rolled back": at most
\* the one application that is under way is counted as synced before it is.
AppliedWithinOne ==
  /\ rla_synced_idx <= disk.kv.idx + 1
  /\ pc["main"] # "apply" => rla_synced_idx <= kv.idx

\* The two threads implement the log that the protocol relies on.  A prune
\* happens when the store is truncated: until then a crash brings the pruned
\* entries back.
Abstract ==
  INSTANCE LogStore
    WITH Term <- 1 .. MaxTerm,
         synced <- IF pc["main"] = "truncate" THEN Len(log) ELSE sync.idx + 1

\* See Abstract: appends, syncs, prunes and crashes, and nothing else.
ImplementsLogStore == Abstract!Spec

\* Every entry that is written is synced, or pruned, or lost in a crash.
EventuallySynced ==
  \A n \in 0 .. MaxLogLen - 1 :
    unsync.idx >= n ~> sync.idx >= n \/ unsync.idx < n
=============================================================================
