--------------------------- MODULE LogSync_proofs ---------------------------
(***************************************************************************)
(* Proofs about LogSync for every bound, for a server whose sync thread    *)
(* does not start a sync between the sync of a prune and the end of it     *)
(* (~SyncInPrune): no assertion fails, what is called synced is durable,   *)
(* and the two threads implement LogStore.  What is said of the            *)
(* last-applied index needs no such condition.                             *)
(***************************************************************************)
EXTENDS LogSync, SequenceTheorems, TLAPS

-----------------------------------------------------------------------------
(* The inductive invariant *)

\* Thread t is in raft_server_backend_sync() with the mutex.
InSync(t) == pc[t] \in {"snapshot", "device", "header", "unlock"}

\* The main thread is in a prune, past its own sync.
Pruning == pc["main"] \in {"force", "truncate", "check"}

\* Header h names an entry of log L, or none.
Names(h, L) ==
  /\ h \in Header /\ h.idx \in -1 .. Len(L) - 1
  /\ h = HeaderOf(L, h.idx)

\* One thread at a time is in raft_server_backend_sync(), and a prune keeps
\* the sync thread out.
MutexInv ==
  /\ \A t \in Thread : InSync(t) <=> mutex = t
  /\ mutex = "sync" => ~Pruning

\* The terms in a log do not decrease.
Ordered(L) ==
  /\ L \in Seq(1 .. MaxTerm)
  /\ \A m, n \in 1 .. Len(L) : m <= n => L[m] <= L[n]

\* What is on disk is the front of the log, as far as the SYNC header and
\* further.  The main thread finds all of it there after its own sync.
DiskInv ==
  /\ Ordered(log) /\ Ordered(disk.log)
  /\ Len(disk.log) <= Len(log)
  /\ \A n \in 1 .. Len(disk.log) : disk.log[n] = log[n]
  /\ sync.idx < Len(disk.log)
  /\ pc["main"] \in {"header", "unlock", "force", "truncate"}
       => Len(disk.log) = Len(log)

\* Both headers name entries of the log; the UNSYNC one the newest, but while
\* an entry is being written or the log is being cut.
HdrInv ==
  /\ Names(sync, log) /\ Names(unsync, log) /\ sync.idx <= unsync.idx
  /\ pc["main"] = "written" => Len(log) = unsync.idx + 2
  /\ pc["main"] \notin {"written", "truncate"} => Len(log) = unsync.idx + 1

\* The copy of the UNSYNC header a sync works with names an entry that is in
\* the log, and on disk when the device has been synced.
SnapInv ==
  /\ \A t \in Thread : pc[t] \in {"device", "header"} =>
       Names(snap[t].hdr, log) /\ snap[t].hdr.idx <= unsync.idx
  /\ \A t \in Thread : pc[t] = "header" => snap[t].hdr.idx < Len(disk.log)
  /\ pc["main"] \in {"device", "header"} => snap["main"].hdr = unsync
  /\ pc["main"] \in {"unlock", "force"} => sync.idx = unsync.idx

\* Where a prune cuts.
PruneInv ==
  /\ op = "prune" => pc["main"] = "lock" \/ InSync("main")
  /\ op = "prune" \/ pc["main"] = "force" => prev \in 0 .. unsync.idx - 1
  /\ pc["main"] = "truncate" =>
       prev \in 0 .. Len(log) - 2 /\ sync.idx = prev /\ unsync = sync
  /\ pc["main"] = "check" => sync = unsync /\ sync.idx = prev

\* The inductive invariant of the two threads.
IndInv ==
  /\ TypeOK /\ NoFatal /\ MutexInv /\ DiskInv /\ HdrInv /\ SnapInv /\ PruneInv

-----------------------------------------------------------------------------
(* The last-applied index, for a sync thread that may start in a prune *)

\* The part of the types that the last-applied index needs.
RlaTypes ==
  /\ kv.idx \in Int /\ kv.synced \in Int
  /\ disk.kv.idx \in Int /\ disk.kv.synced \in Int
  /\ rla_idx \in Int /\ rla_synced_idx \in Int
  /\ pc \in [Thread -> MainLabels \cup SyncLabels]
  /\ DOMAIN snap = Thread /\ snap = [t \in Thread |-> snap[t]]
  /\ \A t \in Thread : snap[t] = [hdr |-> snap[t].hdr, rla |-> snap[t].rla]
  /\ \A t \in Thread : snap[t].rla \in Int

\* The mutex is held by the thread that is in a sync.
Exclusive == \A t \in Thread : InSync(t) <=> mutex = t

\* The last-applied index, its record in the store and on disk, and the copy
\* a sync works with.
RlaInv ==
  /\ rla_synced_idx <= rla_idx
  /\ kv.synced <= kv.idx /\ disk.kv.synced <= disk.kv.idx
  /\ disk.kv.idx <= kv.idx
  /\ rla_idx = kv.idx + IF pc["main"] = "apply" THEN 1 ELSE 0
  /\ rla_synced_idx <= disk.kv.idx + 1
  /\ \A t \in Thread : InSync(t) =>
       rla_synced_idx <= snap[t].rla /\ snap[t].rla <= rla_idx
  /\ \A t \in Thread : pc[t] \in {"header", "unlock"} =>
       snap[t].rla <= disk.kv.idx + 1

\* The inductive invariant of the last-applied index.
RlaIndInv == RlaTypes /\ Exclusive /\ RlaInv

\* What a step of raft_server_backend_sync() does to the last-applied index.
LEMMA BackendSyncRla ==
  ASSUME RlaIndInv, NEW t \in Thread, BackendSync(t)
  PROVE  RlaIndInv'
<1> USE DEF Running, Goto, MainLabels, SyncLabels
<1>1. /\ \A u \in Thread : InSync(u) <=> mutex = u
      /\ "main" \in Thread /\ "sync" \in Thread /\ "free" \notin Thread
      /\ pc[t] # "apply" /\ (pc'["main"] = "apply" <=> pc["main"] = "apply")
  BY DEF RlaIndInv, RlaTypes, Exclusive, Thread, BackendSync, Lock, Snapshot,
     DeviceSync, UpdateSyncHdr, Unlock, AfterSync
<1>2. CASE Lock(t)
  <2>1. /\ pc'[t] = "snapshot" /\ snap'[t].rla = rla_idx /\ mutex' = t
        /\ \A u \in Thread \ {t} : pc'[u] = pc[u] /\ snap'[u] = snap[u]
        /\ pc' \in [Thread -> MainLabels \cup SyncLabels]
        /\ \A u \in Thread : ~InSync(u)
    BY <1>1, <1>2 DEF Lock, RlaIndInv, RlaTypes
  <2>2. RlaTypes'
    BY <1>2, <2>1 DEF Lock, RlaIndInv, RlaTypes, storeVars, rlaVars
  <2>3. Exclusive'
    BY <2>1 DEF Exclusive, InSync
  <2>4. RlaInv'
    BY <1>1, <1>2, <2>1 DEF Lock, RlaIndInv, RlaTypes, RlaInv, InSync,
       storeVars, rlaVars
  <2> QED
    BY <2>2, <2>3, <2>4 DEF RlaIndInv
<1>3. CASE Snapshot(t)
  <2>1. /\ pc[t] = "snapshot" /\ pc'[t] = "device"
        /\ snap'[t].rla = snap[t].rla
        /\ \A u \in Thread \ {t} : pc'[u] = pc[u] /\ snap'[u] = snap[u]
        /\ pc' \in [Thread -> MainLabels \cup SyncLabels]
    BY <1>1, <1>3 DEF Snapshot, RlaIndInv, RlaTypes
  <2>2. RlaTypes'
    BY <1>3, <2>1 DEF Snapshot, RlaIndInv, RlaTypes, storeVars, rlaVars
  <2>3. Exclusive'
    BY <1>1, <1>3, <2>1 DEF Snapshot, Exclusive, InSync
  <2>4. RlaInv'
    BY <1>1, <1>3, <2>1 DEF Snapshot, RlaIndInv, RlaTypes, RlaInv, InSync,
       storeVars, rlaVars
  <2> QED
    BY <2>2, <2>3, <2>4 DEF RlaIndInv
<1>4. CASE DeviceSync(t)
  <2>1. /\ pc[t] = "device" /\ pc'[t] = "header" /\ disk'.kv = kv
        /\ \A u \in Thread \ {t} : pc'[u] = pc[u] /\ ~InSync(u)
        /\ pc' \in [Thread -> MainLabels \cup SyncLabels]
    BY <1>1, <1>4 DEF DeviceSync, RlaIndInv, RlaTypes, Store, InSync
  <2>2. RlaTypes'
    BY <1>4, <2>1 DEF DeviceSync, RlaIndInv, RlaTypes, rlaVars
  <2>3. Exclusive'
    BY <1>1, <1>4, <2>1 DEF DeviceSync, Exclusive, InSync
  <2>4. RlaInv'
    BY <1>1, <1>4, <2>1 DEF DeviceSync, RlaIndInv, RlaTypes, RlaInv, InSync,
       rlaVars
  <2> QED
    BY <2>2, <2>3, <2>4 DEF RlaIndInv
<1>5. CASE UpdateSyncHdr(t)
  <2>1. /\ pc[t] = "header" /\ pc'[t] = "unlock"
        /\ \A u \in Thread \ {t} : pc'[u] = pc[u]
        /\ pc' \in [Thread -> MainLabels \cup SyncLabels]
    BY <1>1, <1>5 DEF UpdateSyncHdr, RlaIndInv, RlaTypes
  <2>2. RlaTypes'
    BY <1>5, <2>1 DEF UpdateSyncHdr, RlaIndInv, RlaTypes, storeVars, rlaVars
  <2>3. Exclusive'
    BY <1>1, <1>5, <2>1 DEF UpdateSyncHdr, Exclusive, InSync
  <2>4. RlaInv'
    BY <1>1, <1>5, <2>1 DEF UpdateSyncHdr, RlaIndInv, RlaTypes, RlaInv, InSync,
       storeVars, rlaVars
  <2> QED
    BY <2>2, <2>3, <2>4 DEF RlaIndInv
<1>6. CASE Unlock(t)
  <2>1. /\ pc[t] = "unlock" /\ pc'[t] \in {"sleep", "force", "idle"}
        /\ \A u \in Thread \ {t} : pc'[u] = pc[u] /\ snap'[u] = snap[u]
                                   /\ ~InSync(u)
        /\ pc' \in [Thread -> MainLabels \cup SyncLabels]
        /\ snap'[t] = NoLocals
    BY <1>1, <1>6 DEF Unlock, RlaIndInv, RlaTypes, AfterSync, InSync
  <2>2. RlaTypes'
    BY <1>6, <2>1 DEF Unlock, RlaIndInv, RlaTypes, storeVars, rlaVars, NoLocals
  <2>3. Exclusive'
    BY <1>1, <1>6, <2>1 DEF Unlock, Exclusive, InSync
  <2>4. RlaInv'
    BY <1>1, <1>6, <2>1 DEF Unlock, RlaIndInv, RlaTypes, RlaInv, InSync,
       storeVars, rlaVars
  <2> QED
    BY <2>2, <2>3, <2>4 DEF RlaIndInv
<1> QED
  BY <1>2, <1>3, <1>4, <1>5, <1>6 DEF BackendSync

\* Every step keeps the last-applied index and its records as they should be.
LEMMA NextRla ==
  ASSUME RlaIndInv, [Next]_vars
  PROVE  RlaIndInv'
<1> USE DEF Running, Goto, MainLabels, SyncLabels
<1>0. "main" \in Thread /\ "sync" \in Thread /\ "main" # "sync"
  BY DEF Thread
<1>1. CASE WriteEntry \/ UpdateUnsyncHdr \/ PruneHdrs \/ PruneCheck \/ PruneSync
           \/ AdvanceCommitIdx \/ VoteSync \/ Wake \/ SyncPending
  <2>1. PICK t \in Thread, from \in {"idle", "written", "force", "check",
                                     "sleep", "pending"},
             to \in {"idle", "written", "truncate", "lock", "sleep", "pending"} :
          pc[t] = from /\ (pc' = pc \/ pc' = [pc EXCEPT ![t] = to])
    BY <1>0, <1>1 DEF WriteEntry, UpdateUnsyncHdr, PruneHdrs, PruneCheck,
       PruneSync, AdvanceCommitIdx, VoteSync, Wake, SyncPending
  <2>2. /\ kv' = kv /\ disk' = disk /\ snap' = snap /\ mutex' = mutex
        /\ rla_idx' = rla_idx /\ rla_synced_idx' = rla_synced_idx
    BY <1>1 DEF WriteEntry, UpdateUnsyncHdr, PruneHdrs, PruneCheck, PruneSync,
       AdvanceCommitIdx, VoteSync, Wake, SyncPending, storeVars, rlaVars
  <2>3. /\ pc' \in [Thread -> MainLabels \cup SyncLabels]
        /\ pc'["main"] = "apply" <=> pc["main"] = "apply"
        /\ \A u \in Thread : InSync(u)' <=> InSync(u)
        /\ \A u \in Thread : pc'[u] \in {"header", "unlock"}
                               <=> pc[u] \in {"header", "unlock"}
    BY <2>1 DEF RlaIndInv, RlaTypes, InSync, Thread
  <2> QED
    BY <2>2, <2>3 DEF RlaIndInv, RlaTypes, Exclusive, RlaInv
<1>2. CASE LogHeaderWrite \/ LogTruncate
  <2>1. PICK from \in {"idle", "truncate"}, to \in {"lock", "check"} :
          pc["main"] = from /\ pc' = [pc EXCEPT !["main"] = to]
    BY <1>2 DEF LogHeaderWrite, LogTruncate
  <2>2. /\ kv' = kv /\ disk'.kv = kv /\ snap' = snap /\ mutex' = mutex
        /\ rla_idx' = rla_idx /\ rla_synced_idx' = rla_synced_idx
    BY <1>2 DEF LogHeaderWrite, LogTruncate, Store, rlaVars
  <2>3. /\ pc' \in [Thread -> MainLabels \cup SyncLabels]
        /\ pc'["main"] # "apply" /\ pc["main"] # "apply"
        /\ \A u \in Thread : InSync(u)' <=> InSync(u)
        /\ \A u \in Thread : pc'[u] \in {"header", "unlock"}
                               <=> pc[u] \in {"header", "unlock"}
    BY <2>1 DEF RlaIndInv, RlaTypes, InSync, Thread
  <2> QED
    BY <2>2, <2>3 DEF RlaIndInv, RlaTypes, Exclusive, RlaInv
<1>3. CASE SetLastApplied
  <2>1. /\ kv' = kv /\ disk' = disk /\ snap' = snap /\ mutex' = mutex
        /\ rla_idx' = rla_idx + 1 /\ rla_synced_idx' = rla_synced_idx
        /\ pc["main"] = "idle" /\ pc' = [pc EXCEPT !["main"] = "apply"]
    BY <1>3 DEF SetLastApplied, storeVars
  <2>2. /\ pc' \in [Thread -> MainLabels \cup SyncLabels]
        /\ pc'["main"] = "apply"
        /\ \A u \in Thread : InSync(u)' <=> InSync(u)
        /\ \A u \in Thread : pc'[u] \in {"header", "unlock"}
                               <=> pc[u] \in {"header", "unlock"}
    BY <2>1 DEF RlaIndInv, RlaTypes, InSync, Thread
  <2> QED
    BY <2>1, <2>2 DEF RlaIndInv, RlaTypes, Exclusive, RlaInv
<1>4. CASE SmApplyOpt
  <2>1. /\ kv'.idx = rla_idx /\ kv'.synced = rla_synced_idx /\ disk' = disk
        /\ snap' = snap /\ mutex' = mutex
        /\ rla_idx' = rla_idx /\ rla_synced_idx' = rla_synced_idx
        /\ pc["main"] = "apply" /\ pc' = [pc EXCEPT !["main"] = "idle"]
    BY <1>4 DEF SmApplyOpt, rlaVars
  <2>2. /\ pc' \in [Thread -> MainLabels \cup SyncLabels]
        /\ pc'["main"] = "idle"
        /\ \A u \in Thread : InSync(u)' <=> InSync(u)
        /\ \A u \in Thread : pc'[u] \in {"header", "unlock"}
                               <=> pc[u] \in {"header", "unlock"}
    BY <2>1 DEF RlaIndInv, RlaTypes, InSync, Thread
  <2> QED
    BY <2>1, <2>2 DEF RlaIndInv, RlaTypes, Exclusive, RlaInv
<1>5. CASE Crash
  <2>1. /\ kv' = disk.kv /\ disk' = disk /\ mutex' = "free"
        /\ rla_idx' = disk.kv.idx /\ rla_synced_idx' = disk.kv.synced
        /\ snap' = [t \in Thread |-> NoLocals]
    BY <1>5 DEF Crash
  <2>2. /\ pc' \in [Thread -> MainLabels \cup SyncLabels]
        /\ pc'["main"] = "idle" /\ pc'["sync"] = "sleep"
    BY <1>5 DEF Crash, Thread
  <2>3. RlaTypes'
    BY <2>1, <2>2 DEF RlaIndInv, RlaTypes, NoLocals
  <2>4. Exclusive'
    BY <2>1, <2>2 DEF Exclusive, InSync, Thread
  <2>5. RlaInv'
    BY <2>1, <2>2 DEF RlaIndInv, RlaTypes, RlaInv, InSync, Thread
  <2> QED
    BY <2>3, <2>4, <2>5 DEF RlaIndInv
<1>6. CASE UNCHANGED vars
  BY <1>6 DEF vars, storeVars, rlaVars, RlaIndInv, RlaTypes, Exclusive, RlaInv,
     InSync
<1> QED
  BY <1>0, <1>1, <1>2, <1>3, <1>4, <1>5, <1>6, BackendSyncRla
  DEF Next, MainStep, SyncStep

\* It holds of every behaviour.
LEMMA RlaInvariance == Spec => []RlaIndInv
<1>1. Init => RlaIndInv
  <2> SUFFICES ASSUME Init
               PROVE  RlaIndInv
    OBVIOUS
  <2>1. /\ kv.idx = -1 /\ kv.synced = -1 /\ disk.kv = kv /\ mutex = "free"
        /\ rla_idx = -1 /\ rla_synced_idx = -1
        /\ snap = [t \in Thread |-> NoLocals]
        /\ pc \in [Thread -> MainLabels \cup SyncLabels]
        /\ pc["main"] = "idle" /\ pc["sync"] = "sleep"
    BY DEF Init, Store, Thread, MainLabels, SyncLabels
  <2>2. RlaTypes
    BY <2>1 DEF RlaTypes, NoLocals
  <2>3. Exclusive
    BY <2>1 DEF Exclusive, InSync, Thread
  <2>4. RlaInv
    BY <2>1 DEF RlaInv, InSync, Thread
  <2> QED
    BY <2>2, <2>3, <2>4 DEF RlaIndInv
<1>2. RlaIndInv /\ [Next]_vars => RlaIndInv'
  BY NextRla
<1> QED
  BY <1>1, <1>2, PTL DEF Spec

\* At most one application counts as synced before it is on disk, whether or
\* not the sync thread stays out of a prune.
THEOREM AppliedNearlySynced == Spec => []AppliedWithinOne
<1>1. RlaIndInv => AppliedWithinOne
  BY DEF RlaIndInv, RlaTypes, RlaInv, AppliedWithinOne
<1> QED
  BY <1>1, RlaInvariance, PTL

-----------------------------------------------------------------------------
(* Headers and logs *)

\* The header of an index names the entry there.
LEMMA HeaderNames ==
  ASSUME NEW L \in Seq(1 .. MaxTerm), NEW i \in -1 .. Len(L) - 1
  PROVE  Names(HeaderOf(L, i), L) /\ HeaderOf(L, i).idx = i
<1>1. i >= 0 => L[i + 1] \in Nat
  BY BoundAssumption
<1>2. HeaderOf(L, i) \in Header /\ HeaderOf(L, i).idx = i
  BY <1>1 DEF HeaderOf, Header
<1> QED
  BY <1>2 DEF Names

\* A header goes on naming its entry in a log that agrees with the old one.
LEMMA NamesKept ==
  ASSUME NEW L, NEW M, NEW h, Names(h, L), Len(M) \in Nat, h.idx < Len(M),
         h.idx >= 0 => L[h.idx + 1] = M[h.idx + 1]
  PROVE  Names(h, M)
BY DEF Names, HeaderOf, Header

\* Headers of one log are ordered by index and by term.
LEMMA HeadersOrdered ==
  ASSUME NEW L, Ordered(L), NEW g, Names(g, L), NEW h, Names(h, L),
         g.idx <= h.idx
  PROVE  /\ g.term <= h.term
         /\ g.idx = h.idx => g = h
<1>1. g.idx \in Int /\ h.idx \in Int /\ h.idx <= Len(L) - 1 /\ g.idx >= -1
      /\ Len(L) \in Nat /\ L \in Seq(1 .. MaxTerm) /\ h.idx >= -1
  BY DEF Names, Header, Ordered
<1>2. g.term = IF g.idx >= 0 THEN L[g.idx + 1] ELSE 0
  BY DEF Names, HeaderOf
<1>3. h.term = IF h.idx >= 0 THEN L[h.idx + 1] ELSE 0
  BY DEF Names, HeaderOf
<1>4. g.idx >= 0 => L[g.idx + 1] <= L[h.idx + 1]
  <2> SUFFICES ASSUME g.idx >= 0
               PROVE  L[g.idx + 1] <= L[h.idx + 1]
    OBVIOUS
  <2>1. g.idx + 1 \in 1 .. Len(L) /\ h.idx + 1 \in 1 .. Len(L)
        /\ g.idx + 1 <= h.idx + 1
    BY <1>1
  <2> QED
    BY <2>1 DEF Ordered
<1>5. h.idx >= 0 => L[h.idx + 1] \in 1 .. MaxTerm
  <2>1. h.idx >= 0 => h.idx + 1 \in 1 .. Len(L)
    BY <1>1
  <2> QED
    BY <1>1, <2>1, ElementOfSeq
<1>6. g.idx = h.idx => g = h
  BY DEF Names
<1> QED
  BY <1>1, <1>2, <1>3, <1>4, <1>5, <1>6, BoundAssumption

\* The sanity check of raft_server_has_unsynced_entries() does not fail.
LEMMA HeadersValid ==
  ASSUME IndInv
  PROVE  ~InvalidHeaders
<1>1. sync.term <= unsync.term
  BY HeadersOrdered DEF IndInv, HdrInv, DiskInv
<1>2. sync.idx <= unsync.idx /\ sync \in Header /\ unsync \in Header
  BY DEF IndInv, HdrInv, Names
<1> QED
  BY <1>1, <1>2 DEF InvalidHeaders, Header

\* Writing behind the end keeps a log ordered, and so does cutting its end.
LEMMA AppendOrdered ==
  ASSUME NEW L, Ordered(L), NEW e \in 1 .. MaxTerm,
         Len(L) > 0 => L[Len(L)] <= e
  PROVE  /\ Ordered(Append(L, e)) /\ Len(Append(L, e)) = Len(L) + 1
         /\ \A n \in 1 .. Len(L) : Append(L, e)[n] = L[n]
<1>1. L \in Seq(1 .. MaxTerm) /\ Len(L) \in Nat
  BY DEF Ordered
<1>2. Append(L, e) \in Seq(1 .. MaxTerm) /\ Len(Append(L, e)) = Len(L) + 1
      /\ \A n \in 1 .. Len(L) : Append(L, e)[n] = L[n]
      /\ Append(L, e)[Len(L) + 1] = e
  BY <1>1
<1>3. \A n \in 1 .. Len(L) : L[n] <= e
  <2> SUFFICES ASSUME NEW n \in 1 .. Len(L)
               PROVE  L[n] <= e
    OBVIOUS
  <2>1. L[n] <= L[Len(L)] /\ L[n] \in 1 .. MaxTerm /\ L[Len(L)] \in 1 .. MaxTerm
    <3>1. Len(L) \in 1 .. Len(L) /\ n \in 1 .. Len(L) /\ n <= Len(L)
      BY <1>1
    <3> QED
      BY <1>1, <3>1, ElementOfSeq DEF Ordered
  <2> QED
    BY <2>1, <1>1, BoundAssumption
<1>4. \A m, n \in 1 .. Len(L) + 1 : m <= n => Append(L, e)[m] <= Append(L, e)[n]
  BY <1>1, <1>2, <1>3, BoundAssumption DEF Ordered
<1> QED
  BY <1>1, <1>2, <1>4 DEF Ordered

\* Cutting the end of a log keeps it ordered and its entries in place.
LEMMA SubSeqOrdered ==
  ASSUME NEW L, Ordered(L), NEW k \in 0 .. Len(L)
  PROVE  /\ Ordered(SubSeq(L, 1, k)) /\ Len(SubSeq(L, 1, k)) = k
         /\ \A n \in 1 .. k : SubSeq(L, 1, k)[n] = L[n]
<1>1. L \in Seq(1 .. MaxTerm) /\ Len(L) \in Nat
  BY DEF Ordered
<1>2. \A n \in 1 .. Len(L) : L[n] \in 1 .. MaxTerm
  BY <1>1, ElementOfSeq
<1>3. SubSeq(L, 1, k) \in Seq(1 .. MaxTerm) /\ Len(SubSeq(L, 1, k)) = k
      /\ \A n \in 1 .. k : SubSeq(L, 1, k)[n] = L[n]
  BY <1>1, <1>2, SubSeqProperties
<1> QED
  BY <1>1, <1>3 DEF Ordered

-----------------------------------------------------------------------------
(* Every step preserves the invariant *)

\* The entry goes behind the newest one and is on disk only later.
LEMMA WriteEntryInv ==
  ASSUME IndInv, WriteEntry
  PROVE  IndInv'
<1> USE DEF Running, Goto, Thread, WriteEntry
<1>1. pc["main"] = "idle" /\ Ordered(log) /\ Names(unsync, log)
      /\ Len(log) = unsync.idx + 1 /\ log \in Seq(1 .. MaxTerm)
      /\ Len(log) \in Nat /\ unsync.term \in Nat /\ unsync.idx \in Int
  BY DEF IndInv, HdrInv, DiskInv, Ordered, Names, Header
<1>2. PICK term \in 1 .. MaxTerm :
        term >= unsync.term /\ log' = Append(log, term)
  <2>1. SubSeq(log, 1, unsync.idx + 1) = log
    BY <1>1, SubSeqFull
  <2>2. PICK term \in unsync.term .. MaxTerm :
          term > 0 /\ log' = Append(SubSeq(log, 1, unsync.idx + 1), term)
    OBVIOUS
  <2>3. term \in 1 .. MaxTerm /\ term >= unsync.term
    BY <1>1, <2>2, BoundAssumption
  <2> QED
    BY <2>1, <2>2, <2>3
<1>3. /\ Ordered(log') /\ Len(log') = Len(log) + 1
      /\ \A n \in 1 .. Len(log) : log'[n] = log[n]
  <2>1. Len(log) > 0 => log[Len(log)] <= term
    BY <1>1, <1>2 DEF Names, HeaderOf
  <2> QED
    BY <1>1, <1>2, <2>1, AppendOrdered
<1>4. \A h : Names(h, log) => Names(h, log')
  <2> SUFFICES ASSUME NEW h, Names(h, log)
               PROVE  Names(h, log')
    OBVIOUS
  <2>1. h.idx \in -1 .. Len(log) - 1
    BY DEF Names
  <2>2. h.idx >= 0 => h.idx + 1 \in 1 .. Len(log)
    BY <1>1, <2>1
  <2>3. Len(log') \in Nat /\ h.idx < Len(log')
    BY <1>1, <1>3, <2>1
  <2> QED
    BY <1>3, <2>2, <2>3, NamesKept
<1>5. TypeOK'
  <2>1. log' \in Seq(Nat)
    BY <1>3, SeqMonotonic, BoundAssumption DEF Ordered
  <2>2. unsync.idx \in -1 .. Len(log') - 1
    BY <1>1, <1>3
  <2> QED
    BY <2>1, <2>2
    DEF IndInv, TypeOK, MainLabels, SyncLabels, hdrVars, rlaVars, mainVars,
        boundVars
<1>6. NoFatal'
  BY DEF IndInv, NoFatal
<1>7. MutexInv'
  BY DEF IndInv, TypeOK, MutexInv, InSync, Pruning
<1>8. DiskInv'
  <2>1. Len(disk.log) \in Nat /\ Len(disk.log) <= Len(log)
    BY DEF IndInv, DiskInv, Ordered
  <2>2. \A n \in 1 .. Len(disk.log) : disk.log[n] = log'[n]
    BY <1>1, <1>3, <2>1 DEF IndInv, DiskInv
  <2>3. disk' = disk /\ sync' = sync /\ pc'["main"] = "written"
    BY DEF IndInv, TypeOK, hdrVars
  <2> QED
    BY <1>1, <1>3, <2>1, <2>2, <2>3 DEF IndInv, DiskInv
<1>9. HdrInv'
  BY <1>1, <1>3, <1>4 DEF IndInv, TypeOK, HdrInv, hdrVars
<1>10. SnapInv'
  BY <1>1, <1>3, <1>4 DEF IndInv, TypeOK, SnapInv, hdrVars
<1>11. PruneInv'
  BY DEF IndInv, TypeOK, PruneInv, InSync, hdrVars, mainVars
<1> QED
  BY <1>5, <1>6, <1>7, <1>8, <1>9, <1>10, <1>11 DEF IndInv

\* The UNSYNC header catches up with the log.
LEMMA UpdateUnsyncHdrInv ==
  ASSUME IndInv, UpdateUnsyncHdr
  PROVE  IndInv'
<1> USE DEF Running, Goto, Thread, UpdateUnsyncHdr
<1>1. pc["main"] = "written" /\ Ordered(log) /\ Names(unsync, log)
      /\ Len(log) = unsync.idx + 2 /\ log \in Seq(1 .. MaxTerm)
      /\ Len(log) \in Nat /\ unsync.idx \in Int /\ unsync.idx >= -1
  BY DEF IndInv, HdrInv, DiskInv, Ordered, Names, Header
<1>2. /\ Names(unsync', log) /\ unsync'.idx = unsync.idx + 1
  BY <1>1, HeaderNames DEF Newer
<1>3. TypeOK'
  <2>1. unsync' \in Header
    BY <1>2 DEF Names
  <2>2. sync.idx <= unsync.idx /\ sync.idx \in Int /\ sync.idx >= -1
    BY DEF IndInv, HdrInv, Names, Header
  <2>3. sync.idx \in -1 .. unsync'.idx /\ unsync'.idx \in -1 .. Len(log) - 1
    BY <1>1, <1>2, <2>2
  <2> QED
    BY <2>1, <2>3
    DEF IndInv, TypeOK, MainLabels, SyncLabels, storeVars, rlaVars, mainVars,
        boundVars
<1>4. NoFatal'
  BY DEF IndInv, NoFatal
<1>5. MutexInv'
  BY DEF IndInv, TypeOK, MutexInv, InSync, Pruning
<1>6. DiskInv'
  BY DEF IndInv, TypeOK, DiskInv, storeVars
<1>7. HdrInv'
  <2>1. sync.idx \in Int /\ unsync.idx \in Int
    BY DEF IndInv, HdrInv, Names, Header
  <2>2. log' = log /\ sync' = sync /\ pc'["main"] = "idle"
    BY DEF IndInv, TypeOK, storeVars
  <2> QED
    BY <1>1, <1>2, <2>1, <2>2 DEF IndInv, HdrInv
<1>8. SnapInv'
  <2>1. \A t \in Thread : snap[t].hdr.idx \in Int
    BY DEF IndInv, TypeOK, Header
  <2>2. /\ pc'["main"] = "idle" /\ pc'["sync"] = pc["sync"]
        /\ log' = log /\ disk' = disk /\ snap' = snap
    BY DEF IndInv, TypeOK, storeVars
  <2>3. unsync.idx \in Int /\ unsync'.idx \in Int /\ unsync.idx <= unsync'.idx
    BY <1>1, <1>2
  <2> QED
    BY <2>1, <2>2, <2>3 DEF IndInv, SnapInv
<1>9. PruneInv'
  BY <1>1 DEF IndInv, TypeOK, PruneInv, InSync, mainVars
<1> QED
  BY <1>3, <1>4, <1>5, <1>6, <1>7, <1>8, <1>9 DEF IndInv

\* A synchronous write of the log header takes the unsynced entries to disk.
LEMMA LogHeaderWriteInv ==
  ASSUME IndInv, LogHeaderWrite
  PROVE  IndInv'
<1> USE DEF Running, Goto, Thread, LogHeaderWrite
<1>1. TypeOK'
  BY DEF IndInv, TypeOK, MainLabels, SyncLabels, Store, hdrVars, rlaVars,
         boundVars
<1>2. NoFatal'
  BY DEF IndInv, NoFatal, Store
<1>3. MutexInv'
  BY DEF IndInv, TypeOK, MutexInv, InSync, Pruning, Store
<1>4. DiskInv'
  BY DEF IndInv, TypeOK, DiskInv, Store, hdrVars
<1>5. HdrInv'
  BY DEF IndInv, TypeOK, HdrInv, Store, hdrVars
<1>6. SnapInv'
  <2>1. pc["main"] = "idle" /\ pc'["main"] = "lock" /\ pc'["sync"] = pc["sync"]
        /\ log' = log /\ unsync' = unsync /\ sync' = sync /\ snap' = snap
        /\ disk'.log = log
    BY DEF IndInv, TypeOK, Store, hdrVars
  <2>2. \A t \in Thread : pc[t] \in {"device", "header"} =>
          snap[t].hdr.idx < Len(log)
    BY DEF IndInv, SnapInv, Names
  <2> QED
    BY <2>1, <2>2 DEF IndInv, SnapInv
<1>7. PruneInv'
  BY DEF IndInv, TypeOK, PruneInv, InSync, MutexInv, Store, hdrVars
<1> QED
  BY <1>1, <1>2, <1>3, <1>4, <1>5, <1>6, <1>7 DEF IndInv

\* The check of the headers before a vote finds nothing wrong.
LEMMA VoteSyncInv ==
  ASSUME IndInv, VoteSync
  PROVE  IndInv'
<1> USE DEF Running, Goto, Thread, VoteSync
<1>1. TypeOK'
  BY DEF IndInv, TypeOK, MainLabels, SyncLabels, HasUnsynced,
         InvalidHeaders, storeVars, hdrVars, rlaVars, boundVars
<1>2. NoFatal'
  BY HeadersValid DEF IndInv, NoFatal
<1>3. MutexInv'
  BY DEF IndInv, TypeOK, MutexInv, InSync, Pruning, HasUnsynced,
         InvalidHeaders
<1>4. DiskInv'
  BY DEF IndInv, TypeOK, DiskInv, HasUnsynced, InvalidHeaders, storeVars,
         hdrVars
<1>5. HdrInv'
  BY DEF IndInv, TypeOK, HdrInv, HasUnsynced, InvalidHeaders, storeVars,
         hdrVars
<1>6. SnapInv'
  BY DEF IndInv, TypeOK, SnapInv, MutexInv, InSync, HasUnsynced,
         InvalidHeaders, storeVars, hdrVars
<1>7. PruneInv'
  BY DEF IndInv, TypeOK, PruneInv, InSync, MutexInv, HasUnsynced,
         InvalidHeaders, storeVars, hdrVars
<1> QED
  BY <1>1, <1>2, <1>3, <1>4, <1>5, <1>6, <1>7 DEF IndInv

\* A prune starts between two entries, with a sync of its own.
LEMMA PruneSyncInv ==
  ASSUME IndInv, PruneSync
  PROVE  IndInv'
<1> USE DEF Running, Goto, Thread, PruneSync
<1>1. TypeOK'
  BY DEF IndInv, TypeOK, MainLabels, SyncLabels, storeVars, hdrVars,
         rlaVars, Header
<1>2. NoFatal'
  BY DEF IndInv, NoFatal
<1>3. MutexInv'
  BY DEF IndInv, TypeOK, MutexInv, InSync, Pruning
<1>4. DiskInv'
  BY DEF IndInv, TypeOK, DiskInv, storeVars, hdrVars
<1>5. HdrInv'
  BY DEF IndInv, TypeOK, HdrInv, storeVars, hdrVars
<1>6. SnapInv'
  BY DEF IndInv, TypeOK, SnapInv, MutexInv, InSync, storeVars, hdrVars
<1>7. PruneInv'
  BY DEF IndInv, TypeOK, PruneInv, InSync, MutexInv, storeVars, hdrVars
<1> QED
  BY <1>1, <1>2, <1>3, <1>4, <1>5, <1>6, <1>7 DEF IndInv

\* Setting the headers back leaves the log longer than both, all of it on disk.
LEMMA PruneHdrsInv ==
  ASSUME IndInv, PruneHdrs
  PROVE  IndInv'
<1> USE DEF Running, Goto, Thread, PruneHdrs
<1>0. /\ pc["main"] = "force" /\ pc'["main"] = "truncate"
      /\ pc'["sync"] = pc["sync"] /\ log' = log /\ disk' = disk /\ prev' = prev
      /\ snap' = snap /\ mutex' = mutex /\ op' = op
  BY DEF IndInv, TypeOK, storeVars, mainVars
<1>a. /\ prev \in 0 .. Len(log) - 2 /\ Len(log) \in Nat
      /\ Ordered(log) /\ log \in Seq(1 .. MaxTerm)
  BY <1>0 DEF IndInv, PruneInv, HdrInv, DiskInv, Ordered, Names, Header
<1>b. Names(sync', log) /\ sync'.idx = prev /\ unsync' = sync'
  BY <1>a, HeaderNames
<1>1. TypeOK'
  <2>1. sync' \in Header /\ unsync' \in Header
        /\ sync'.idx \in -1 .. unsync'.idx /\ unsync'.idx \in -1 .. Len(log) - 1
    BY <1>a, <1>b DEF Names
  <2> QED
    BY <1>0, <2>1 DEF IndInv, TypeOK, MainLabels, SyncLabels, storeVars, rlaVars,
                      mainVars, boundVars
<1>2. NoFatal'
  BY DEF IndInv, NoFatal, HeaderOf
<1>3. MutexInv'
  BY DEF IndInv, TypeOK, MutexInv, InSync, Pruning, HeaderOf
<1>4. DiskInv'
  BY <1>0, <1>a, <1>b DEF IndInv, DiskInv
<1>5. HdrInv'
  BY <1>0, <1>a, <1>b DEF IndInv, HdrInv
<1>6. SnapInv'
  <2>1. mutex # "sync"
    BY <1>0 DEF IndInv, MutexInv, Pruning
  <2> QED
    BY <1>0, <2>1 DEF IndInv, SnapInv, MutexInv, InSync
<1>7. PruneInv'
  BY <1>0, <1>a, <1>b DEF IndInv, PruneInv, InSync
<1> QED
  BY <1>1, <1>2, <1>3, <1>4, <1>5, <1>6, <1>7 DEF IndInv

\* The cut leaves the entry that both headers name as the last one.
LEMMA LogTruncateInv ==
  ASSUME IndInv, LogTruncate
  PROVE  IndInv'
<1> USE DEF Running, Goto, Thread, LogTruncate
<1>0. /\ pc["main"] = "truncate" /\ pc'["main"] = "check"
      /\ pc'["sync"] = pc["sync"] /\ sync' = sync /\ unsync' = unsync
      /\ log' = SubSeq(log, 1, sync.idx + 1) /\ disk' = [log |-> log', kv |-> kv]
      /\ kv' = kv /\ prev' = prev /\ snap' = snap /\ mutex' = mutex /\ op' = op
  BY DEF IndInv, TypeOK, hdrVars, mainVars, Store
<1>a. /\ prev \in 0 .. Len(log) - 2 /\ sync.idx = prev /\ unsync = sync
      /\ Ordered(log) /\ Names(sync, log)
      /\ Len(log) \in Nat /\ sync.idx \in Nat
  BY <1>0 DEF IndInv, PruneInv, HdrInv, DiskInv, Ordered
<1>b. /\ Ordered(log') /\ Len(log') = sync.idx + 1
      /\ \A n \in 1 .. sync.idx + 1 : log'[n] = log[n]
  <2>1. sync.idx + 1 \in 0 .. Len(log)
    BY <1>a
  <2> QED
    BY <1>0, <1>a, <2>1, SubSeqOrdered
<1>c. Names(sync, log')
  <2>1. sync.idx + 1 \in 1 .. sync.idx + 1 /\ Len(log') \in Nat
        /\ sync.idx < Len(log')
    BY <1>a, <1>b
  <2> QED
    BY <1>a, <1>b, <2>1, NamesKept
<1>1. TypeOK'
  <2>0. log' \in Seq(Nat)
    BY <1>b, SeqMonotonic, BoundAssumption DEF Ordered
  <2>1. disk' \in [log : Seq(Nat), kv : [idx : Int, synced : Int]]
    <3>1. kv \in [idx : Int, synced : Int]
      BY DEF IndInv, TypeOK
    <3>2. disk' = [log |-> log', kv |-> kv]
      BY <1>0
    <3>3. \A a, b : a \in Seq(Nat) /\ b \in [idx : Int, synced : Int] =>
            [log |-> a, kv |-> b] \in [log : Seq(Nat), kv : [idx : Int, synced : Int]]
      OBVIOUS
    <3> QED
      BY <2>0, <3>1, <3>2, <3>3, Zenon
  <2>2. unsync.idx \in -1 .. Len(log') - 1
    BY <1>a, <1>b
  <2> QED
    BY <1>0, <2>0, <2>1, <2>2
    DEF IndInv, TypeOK, MainLabels, SyncLabels, hdrVars, rlaVars, mainVars,
        boundVars
<1>2. NoFatal'
  BY DEF IndInv, NoFatal, Store
<1>3. MutexInv'
  BY DEF IndInv, TypeOK, MutexInv, InSync, Pruning, Store
<1>4. DiskInv'
  <2>1. disk'.log = log'
    BY <1>0
  <2> QED
    BY <1>0, <1>a, <1>b, <2>1 DEF DiskInv
<1>5. HdrInv'
  BY <1>0, <1>a, <1>b, <1>c DEF IndInv, HdrInv
<1>6. SnapInv'
  <2>1. mutex # "sync"
    BY <1>0 DEF IndInv, MutexInv, Pruning
  <2> QED
    BY <1>0, <2>1 DEF IndInv, SnapInv, MutexInv, InSync
<1>7. PruneInv'
  BY <1>0, <1>a DEF IndInv, PruneInv, InSync
<1> QED
  BY <1>1, <1>2, <1>3, <1>4, <1>5, <1>6, <1>7 DEF IndInv

\* The assertions behind a prune hold.
LEMMA PruneCheckInv ==
  ASSUME IndInv, PruneCheck
  PROVE  IndInv'
<1> USE DEF Running, Goto, Thread, PruneCheck
<1>1. TypeOK'
  BY DEF IndInv, TypeOK, MainLabels, SyncLabels, HasUnsynced,
         InvalidHeaders, storeVars, hdrVars, rlaVars, boundVars
<1>2. NoFatal'
  BY HeadersValid DEF IndInv, NoFatal, PruneInv, TypeOK, HasUnsynced
<1>3. MutexInv'
  BY DEF IndInv, TypeOK, MutexInv, InSync, Pruning, HasUnsynced,
         InvalidHeaders
<1>4. DiskInv'
  <2>1. pc["main"] = "check" /\ pc'["main"] = "idle"
    BY DEF IndInv, TypeOK
  <2> QED
    BY <2>1 DEF IndInv, DiskInv, storeVars, hdrVars
<1>5. HdrInv'
  BY DEF IndInv, TypeOK, HdrInv, HasUnsynced, InvalidHeaders, storeVars,
         hdrVars
<1>6. SnapInv'
  BY DEF IndInv, TypeOK, SnapInv, MutexInv, InSync, HasUnsynced,
         InvalidHeaders, storeVars, hdrVars
<1>7. PruneInv'
  BY DEF IndInv, TypeOK, PruneInv, InSync, MutexInv, HasUnsynced,
         InvalidHeaders, storeVars, hdrVars
<1> QED
  BY <1>1, <1>2, <1>3, <1>4, <1>5, <1>6, <1>7 DEF IndInv

\* The commit index is no part of the invariant.
LEMMA AdvanceCommitIdxInv ==
  ASSUME IndInv, AdvanceCommitIdx
  PROVE  IndInv'
<1> USE DEF Running, Goto, Thread, AdvanceCommitIdx
<1>1. TypeOK'
  BY DEF IndInv, TypeOK, MainLabels, SyncLabels, storeVars, hdrVars,
         mainVars, boundVars
<1>2. NoFatal'
  BY DEF IndInv, NoFatal
<1>3. MutexInv'
  BY DEF IndInv, TypeOK, MutexInv, InSync, Pruning
<1>4. DiskInv'
  BY DEF IndInv, TypeOK, DiskInv, storeVars, hdrVars
<1>5. HdrInv'
  BY DEF IndInv, TypeOK, HdrInv, storeVars, hdrVars
<1>6. SnapInv'
  BY DEF IndInv, TypeOK, SnapInv, MutexInv, InSync, storeVars, hdrVars
<1>7. PruneInv'
  BY DEF IndInv, TypeOK, PruneInv, InSync, MutexInv, storeVars, hdrVars,
         mainVars
<1> QED
  BY <1>1, <1>2, <1>3, <1>4, <1>5, <1>6, <1>7 DEF IndInv

\* The last-applied index runs one ahead of its record while it is written.
LEMMA SetLastAppliedInv ==
  ASSUME IndInv, SetLastApplied
  PROVE  IndInv'
<1> USE DEF Running, Goto, Thread, SetLastApplied
<1>1. TypeOK'
  BY DEF IndInv, TypeOK, MainLabels, SyncLabels, storeVars, hdrVars,
         mainVars, boundVars
<1>2. NoFatal'
  BY DEF IndInv, NoFatal
<1>3. MutexInv'
  BY DEF IndInv, TypeOK, MutexInv, InSync, Pruning
<1>4. DiskInv'
  BY DEF IndInv, TypeOK, DiskInv, storeVars, hdrVars
<1>5. HdrInv'
  BY DEF IndInv, TypeOK, HdrInv, storeVars, hdrVars
<1>6. SnapInv'
  BY DEF IndInv, TypeOK, SnapInv, MutexInv, InSync, storeVars, hdrVars
<1>7. PruneInv'
  BY DEF IndInv, TypeOK, PruneInv, InSync, MutexInv, storeVars, hdrVars,
         mainVars
<1> QED
  BY <1>1, <1>2, <1>3, <1>4, <1>5, <1>6, <1>7 DEF IndInv

\* The record catches up with the index.
LEMMA SmApplyOptInv ==
  ASSUME IndInv, SmApplyOpt
  PROVE  IndInv'
<1> USE DEF Running, Goto, Thread, SmApplyOpt
<1>1. TypeOK'
  BY DEF IndInv, TypeOK, MainLabels, SyncLabels, hdrVars, rlaVars,
         mainVars, boundVars
<1>2. NoFatal'
  BY DEF IndInv, NoFatal
<1>3. MutexInv'
  BY DEF IndInv, TypeOK, MutexInv, InSync, Pruning
<1>4. DiskInv'
  BY DEF IndInv, TypeOK, DiskInv, hdrVars
<1>5. HdrInv'
  BY DEF IndInv, TypeOK, HdrInv, hdrVars
<1>6. SnapInv'
  BY DEF IndInv, TypeOK, SnapInv, MutexInv, InSync, hdrVars
<1>7. PruneInv'
  BY DEF IndInv, TypeOK, PruneInv, InSync, MutexInv, hdrVars, mainVars
<1> QED
  BY <1>1, <1>2, <1>3, <1>4, <1>5, <1>6, <1>7 DEF IndInv

\* The sync thread finds valid headers.
LEMMA WakeInv ==
  ASSUME IndInv, Wake
  PROVE  IndInv'
<1> USE DEF Running, Goto, Thread, Wake
<1>1. TypeOK'
  BY DEF IndInv, TypeOK, MainLabels, SyncLabels, HasUnsynced,
         InvalidHeaders, storeVars, hdrVars, rlaVars, mainVars, boundVars
<1>2. NoFatal'
  BY HeadersValid DEF IndInv, NoFatal
<1>3. MutexInv'
  BY DEF IndInv, TypeOK, MutexInv, InSync, Pruning, HasUnsynced,
         InvalidHeaders
<1>4. DiskInv'
  BY DEF IndInv, TypeOK, DiskInv, HasUnsynced, InvalidHeaders, storeVars,
         hdrVars
<1>5. HdrInv'
  BY DEF IndInv, TypeOK, HdrInv, HasUnsynced, InvalidHeaders, storeVars,
         hdrVars
<1>6. SnapInv'
  BY DEF IndInv, TypeOK, SnapInv, MutexInv, InSync, HasUnsynced,
         InvalidHeaders, storeVars, hdrVars
<1>7. PruneInv'
  BY DEF IndInv, TypeOK, PruneInv, InSync, MutexInv, HasUnsynced,
         InvalidHeaders, storeVars, hdrVars, mainVars
<1> QED
  BY <1>1, <1>2, <1>3, <1>4, <1>5, <1>6, <1>7 DEF IndInv

\* And finds them once more, with the main thread having moved on.
LEMMA SyncPendingInv ==
  ASSUME IndInv, SyncPending
  PROVE  IndInv'
<1> USE DEF Running, Goto, Thread, SyncPending
<1>1. TypeOK'
  BY DEF IndInv, TypeOK, MainLabels, SyncLabels, HasUnsynced,
         InvalidHeaders, storeVars, hdrVars, rlaVars, mainVars, boundVars
<1>2. NoFatal'
  BY HeadersValid DEF IndInv, NoFatal
<1>3. MutexInv'
  BY DEF IndInv, TypeOK, MutexInv, InSync, Pruning, HasUnsynced,
         InvalidHeaders
<1>4. DiskInv'
  BY DEF IndInv, TypeOK, DiskInv, HasUnsynced, InvalidHeaders, storeVars,
         hdrVars
<1>5. HdrInv'
  BY DEF IndInv, TypeOK, HdrInv, HasUnsynced, InvalidHeaders, storeVars,
         hdrVars
<1>6. SnapInv'
  BY DEF IndInv, TypeOK, SnapInv, MutexInv, InSync, HasUnsynced,
         InvalidHeaders, storeVars, hdrVars
<1>7. PruneInv'
  BY DEF IndInv, TypeOK, PruneInv, InSync, MutexInv, HasUnsynced,
         InvalidHeaders, storeVars, hdrVars, mainVars
<1> QED
  BY <1>1, <1>2, <1>3, <1>4, <1>5, <1>6, <1>7 DEF IndInv

\* What is found on disk after a crash satisfies the invariant from anywhere.
LEMMA CrashInv ==
  ASSUME IndInv, Crash
  PROVE  IndInv'
<1> USE DEF Running, Goto, Thread, Crash
<1>0. /\ Ordered(disk.log) /\ disk.log \in Seq(1 .. MaxTerm)
      /\ Len(disk.log) \in Nat /\ Len(disk.log) - 1 \in -1 .. Len(disk.log) - 1
  BY DEF IndInv, DiskInv, Ordered
<1>a. Names(sync', log') /\ sync'.idx = Len(log') - 1 /\ unsync' = sync'
  BY <1>0, HeaderNames DEF NewestOf
<1>b. pc' \in [Thread -> {"idle", "sleep"}] /\ pc'["main"] = "idle"
      /\ pc'["sync"] = "sleep"
  OBVIOUS
<1>1. TypeOK'
  <2>1. sync' \in Header /\ sync'.idx \in -1 .. unsync'.idx
        /\ unsync' \in Header /\ unsync'.idx \in -1 .. Len(log') - 1
    BY <1>0, <1>a DEF Names
  <2>2. NoLocals \in [hdr : Header, rla : Int]
    BY DEF NoLocals, Header
  <2>3. log' \in Seq(Nat) /\ kv' \in [idx : Int, synced : Int]
        /\ rla_idx' \in Int /\ rla_synced_idx' \in Int
    BY DEF IndInv, TypeOK
  <2>4. pc' \in [Thread -> MainLabels \cup SyncLabels]
        /\ pc'["main"] \in MainLabels /\ pc'["sync"] \in SyncLabels
    BY <1>b DEF MainLabels, SyncLabels
  <2> QED
    BY <2>1, <2>2, <2>3, <2>4 DEF IndInv, TypeOK
<1>2. NoFatal'
  BY DEF IndInv, NoFatal, NewestOf, HeaderOf
<1>3. MutexInv'
  BY DEF IndInv, TypeOK, MutexInv, InSync, Pruning, NewestOf, HeaderOf
<1>4. DiskInv'
  BY <1>0, <1>a, <1>b DEF DiskInv
<1>5. HdrInv'
  <2>1. sync'.idx \in Int
    BY <1>a DEF Names, Header
  <2> QED
    BY <1>0, <1>a, <1>b, <2>1 DEF HdrInv
<1>6. SnapInv'
  BY <1>b DEF SnapInv
<1>7. PruneInv'
  BY <1>b DEF PruneInv
<1> QED
  BY <1>1, <1>2, <1>3, <1>4, <1>5, <1>6, <1>7 DEF IndInv

\* The mutex is free, so nobody is in a sync, and no prune is under way.
LEMMA LockInv ==
  ASSUME IndInv, ~SyncInPrune, NEW t \in Thread, Lock(t)
  PROVE  IndInv'
<1> USE DEF Running, Goto, Thread, Lock
<1>1. TypeOK'
  BY DEF IndInv, TypeOK, MainLabels, SyncLabels, storeVars, hdrVars,
         rlaVars, mainVars, boundVars
<1>2. NoFatal'
  BY DEF IndInv, NoFatal
<1>3. MutexInv'
  BY DEF IndInv, TypeOK, MutexInv, InSync, Pruning
<1>4. DiskInv'
  BY DEF IndInv, TypeOK, DiskInv, storeVars, hdrVars
<1>5. HdrInv'
  BY DEF IndInv, TypeOK, HdrInv, storeVars, hdrVars
<1>6. SnapInv'
  BY DEF IndInv, TypeOK, SnapInv, MutexInv, InSync, storeVars, hdrVars
<1>7. PruneInv'
  BY DEF IndInv, TypeOK, PruneInv, InSync, MutexInv, storeVars, hdrVars,
         mainVars
<1> QED
  BY <1>1, <1>2, <1>3, <1>4, <1>5, <1>6, <1>7 DEF IndInv

\* The copy of the UNSYNC header names an entry of the log.
LEMMA SnapshotInv ==
  ASSUME IndInv, NEW t \in Thread, Snapshot(t)
  PROVE  IndInv'
<1> USE DEF Running, Goto, Thread, Snapshot
<1>1. TypeOK'
  BY DEF IndInv, TypeOK, MainLabels, SyncLabels, storeVars, hdrVars,
         rlaVars, mainVars, boundVars
<1>2. NoFatal'
  <2>1. sync.idx <= unsync.idx /\ sync.idx \in Int /\ unsync.idx \in Int
    BY DEF IndInv, HdrInv, Names, Header
  <2> QED
    BY <2>1 DEF IndInv, NoFatal
<1>3. MutexInv'
  BY DEF IndInv, TypeOK, MutexInv, InSync, Pruning
<1>4. DiskInv'
  BY DEF IndInv, TypeOK, DiskInv, storeVars, hdrVars
<1>5. HdrInv'
  BY DEF IndInv, TypeOK, HdrInv, storeVars, hdrVars
<1>6. SnapInv'
  <2>1. /\ snap'[t].hdr = unsync /\ pc'[t] = "device" /\ pc[t] = "snapshot"
        /\ \A u \in Thread \ {t} : snap'[u] = snap[u] /\ pc'[u] = pc[u]
        /\ log' = log /\ disk' = disk /\ unsync' = unsync /\ sync' = sync
    BY DEF IndInv, TypeOK, storeVars, hdrVars
  <2>2. Names(unsync, log) /\ unsync.idx <= unsync.idx
    BY DEF IndInv, HdrInv, Names, Header
  <2> QED
    BY <2>1, <2>2 DEF IndInv, SnapInv
<1>7. PruneInv'
  BY DEF IndInv, TypeOK, PruneInv, InSync, MutexInv, storeVars, hdrVars,
         mainVars
<1> QED
  BY <1>1, <1>2, <1>3, <1>4, <1>5, <1>6, <1>7 DEF IndInv

\* Everything the copy names, and more, is on disk.
LEMMA DeviceSyncInv ==
  ASSUME IndInv, NEW t \in Thread, DeviceSync(t)
  PROVE  IndInv'
<1> USE DEF Running, Goto, Thread, DeviceSync
<1>1. TypeOK'
  BY DEF IndInv, TypeOK, MainLabels, SyncLabels, Store, hdrVars, rlaVars,
         mainVars, boundVars
<1>2. NoFatal'
  BY DEF IndInv, NoFatal, Store
<1>3. MutexInv'
  BY DEF IndInv, TypeOK, MutexInv, InSync, Pruning, Store
<1>4. DiskInv'
  BY DEF IndInv, TypeOK, DiskInv, Store, hdrVars
<1>5. HdrInv'
  BY DEF IndInv, TypeOK, HdrInv, Store, hdrVars
<1>6. SnapInv'
  <2>1. /\ pc'[t] = "header" /\ pc[t] = "device" /\ snap' = snap
        /\ \A u \in Thread \ {t} : pc'[u] = pc[u] /\ ~InSync(u)
        /\ log' = log /\ disk'.log = log /\ unsync' = unsync /\ sync' = sync
    BY DEF IndInv, TypeOK, MutexInv, InSync, hdrVars, Store
  <2>2. snap[t].hdr.idx < Len(log)
    BY <2>1 DEF IndInv, SnapInv, Names
  <2> QED
    BY <2>1, <2>2 DEF IndInv, SnapInv, InSync
<1>7. PruneInv'
  BY DEF IndInv, TypeOK, PruneInv, InSync, MutexInv, Store, hdrVars,
         mainVars
<1> QED
  BY <1>1, <1>2, <1>3, <1>4, <1>5, <1>6, <1>7 DEF IndInv

\* The SYNC header takes the copy only now that its entry is on disk.
LEMMA UpdateSyncHdrInv ==
  ASSUME IndInv, NEW t \in Thread, UpdateSyncHdr(t)
  PROVE  IndInv'
<1> USE DEF Running, Goto, Thread, UpdateSyncHdr
<1>1. TypeOK'
  BY DEF IndInv, TypeOK, MainLabels, SyncLabels, Newer, storeVars,
         rlaVars, mainVars, boundVars, SnapInv, Names
<1>2. NoFatal'
  BY DEF IndInv, NoFatal, Newer
<1>3. MutexInv'
  BY DEF IndInv, TypeOK, MutexInv, InSync, Pruning, Newer
<1>4. DiskInv'
  BY DEF IndInv, TypeOK, DiskInv, Newer, storeVars, SnapInv, MutexInv,
         InSync
<1>5. HdrInv'
  BY DEF IndInv, TypeOK, HdrInv, Newer, storeVars, SnapInv, Names
<1>6. SnapInv'
  <2>1. /\ pc'[t] = "unlock" /\ pc[t] = "header" /\ snap' = snap
        /\ \A u \in Thread \ {t} : pc'[u] = pc[u] /\ ~InSync(u)
        /\ log' = log /\ disk' = disk /\ unsync' = unsync
    BY DEF IndInv, TypeOK, MutexInv, InSync, storeVars
  <2>2. mutex = t
    BY DEF IndInv, MutexInv, InSync
  <2>3. t = "main" => sync'.idx = unsync.idx
    BY <2>1 DEF IndInv, SnapInv, HdrInv, Newer, TypeOK, Header
  <2>4. t # "main" => pc["main"] # "force" /\ pc["main"] # "unlock"
    BY <2>1, <2>2 DEF IndInv, MutexInv, Pruning, InSync
  <2> QED
    BY <2>1, <2>3, <2>4 DEF IndInv, SnapInv, InSync
<1>7. PruneInv'
  BY DEF IndInv, TypeOK, PruneInv, InSync, MutexInv, Newer, storeVars,
         mainVars, Pruning
<1> QED
  BY <1>1, <1>2, <1>3, <1>4, <1>5, <1>6, <1>7 DEF IndInv

\* The copy of the last-applied index was taken before the device sync.
LEMMA UnlockInv ==
  ASSUME IndInv, RlaInv, NEW t \in Thread, Unlock(t)
  PROVE  IndInv'
<1> USE DEF Running, Goto, Thread, Unlock
<1>1. TypeOK'
  <2>1. NoLocals \in [hdr : Header, rla : Int]
    BY DEF NoLocals, Header
  <2>2. AfterSync(t) \in MainLabels \cup SyncLabels
        /\ (t = "main" => AfterSync(t) \in MainLabels)
        /\ (t = "sync" => AfterSync(t) \in SyncLabels)
    <3>1. t = "sync" => AfterSync(t) = "sleep"
      BY DEF AfterSync
    <3>2. t = "main" => AfterSync(t) \in {"force", "idle"}
      BY DEF AfterSync
    <3> QED
      BY <3>1, <3>2 DEF MainLabels, SyncLabels
  <2>3. /\ pc' \in [Thread -> MainLabels \cup SyncLabels]
        /\ pc'["main"] \in MainLabels /\ pc'["sync"] \in SyncLabels
    BY <2>2 DEF IndInv, TypeOK
  <2>4. snap' \in [Thread -> [hdr : Header, rla : Int]] /\ rla_synced_idx' \in Int
    BY <2>1 DEF IndInv, TypeOK
  <2> QED
    BY <2>3, <2>4 DEF IndInv, TypeOK, storeVars, hdrVars, boundVars
<1>2. NoFatal'
  <2>1. rla_synced_idx <= snap[t].rla /\ rla_synced_idx <= rla_idx
    BY DEF RlaInv, InSync
  <2>2. rla_synced_idx \in Int /\ snap[t].rla \in Int /\ rla_idx \in Int
    BY DEF IndInv, TypeOK
  <2> QED
    BY <2>1, <2>2 DEF IndInv, NoFatal
<1>3. MutexInv'
  BY DEF IndInv, TypeOK, MutexInv, InSync, Pruning, AfterSync, NoLocals
<1>4. DiskInv'
  BY DEF IndInv, TypeOK, DiskInv, AfterSync, NoLocals, storeVars, hdrVars
<1>5. HdrInv'
  BY DEF IndInv, TypeOK, HdrInv, AfterSync, NoLocals, storeVars, hdrVars
<1>6. SnapInv'
  BY DEF IndInv, TypeOK, SnapInv, MutexInv, InSync, AfterSync, NoLocals,
         storeVars, hdrVars
<1>7. PruneInv'
  BY DEF IndInv, TypeOK, PruneInv, InSync, MutexInv, AfterSync, NoLocals,
         storeVars, hdrVars
<1> QED
  BY <1>1, <1>2, <1>3, <1>4, <1>5, <1>6, <1>7 DEF IndInv

-----------------------------------------------------------------------------
(* The theorems *)

\* The invariant holds at the start.
LEMMA InitInv == Init => IndInv
<1> SUFFICES ASSUME Init
             PROVE  IndInv
  OBVIOUS
<1>1. log = <<>> /\ Len(log) = 0 /\ Ordered(log) /\ log \in Seq(Nat)
  BY DEF Init, Ordered
<1>2. sync = [idx |-> -1, term |-> 0] /\ unsync = sync /\ disk.log = log
      /\ disk.kv = kv
  BY <1>1 DEF Init, NewestOf, HeaderOf, Store
<1>3. Names(sync, log)
  BY <1>1, <1>2 DEF Names, Header, HeaderOf
<1>4. pc["main"] = "idle" /\ pc["sync"] = "sleep"
      /\ pc \in [Thread -> {"idle", "sleep"}]
  BY DEF Init, Thread
<1>5. TypeOK
  <2>1. NoLocals \in [hdr : Header, rla : Int]
    BY DEF NoLocals, Header
  <2>2. sync \in Header /\ unsync \in Header
    BY <1>2, <1>3 DEF Names
  <2> QED
    BY <1>1, <1>2, <1>4, <2>1, <2>2
    DEF Init, TypeOK, Store, MainLabels, SyncLabels
<1>6. NoFatal /\ MutexInv /\ PruneInv /\ SnapInv
  BY <1>4 DEF Init, NoFatal, MutexInv, InSync, PruneInv, SnapInv, Thread
<1>7. DiskInv /\ HdrInv
  BY <1>1, <1>2, <1>3, <1>4 DEF DiskInv, HdrInv
<1> QED
  BY <1>5, <1>6, <1>7 DEF IndInv

\* It is about the variables only.
LEMMA StutterInv ==
  ASSUME IndInv, UNCHANGED vars
  PROVE  IndInv'
<1> USE DEF vars, storeVars, hdrVars, rlaVars, mainVars, boundVars
<1>1. TypeOK'
  BY DEF IndInv, TypeOK
<1>2. NoFatal' /\ MutexInv' /\ PruneInv'
  BY DEF IndInv, NoFatal, MutexInv, PruneInv, InSync, Pruning
<1>3. DiskInv' /\ HdrInv' /\ SnapInv'
  BY DEF IndInv, DiskInv, HdrInv, SnapInv
<1> QED
  BY <1>1, <1>2, <1>3 DEF IndInv

\* The invariant is inductive for a sync thread that stays out of a prune.
LEMMA NextInv ==
  ASSUME ~SyncInPrune, IndInv, RlaInv, [Next]_vars
  PROVE  IndInv'
<1>1. ASSUME NEW t \in Thread, BackendSync(t)
      PROVE  IndInv'
  BY <1>1, LockInv, SnapshotInv, DeviceSyncInv, UpdateSyncHdrInv, UnlockInv
  DEF BackendSync
<1>2. CASE MainStep
  BY <1>1, <1>2, WriteEntryInv, UpdateUnsyncHdrInv, LogHeaderWriteInv,
     VoteSyncInv, PruneSyncInv, PruneHdrsInv, LogTruncateInv, PruneCheckInv,
     AdvanceCommitIdxInv, SetLastAppliedInv, SmApplyOptInv
  DEF MainStep, Thread
<1>3. CASE SyncStep
  BY <1>1, <1>3, WakeInv, SyncPendingInv DEF SyncStep, Thread
<1>4. CASE Crash
  BY <1>4, CrashInv
<1>5. CASE UNCHANGED vars
  BY <1>5, StutterInv
<1> QED
  BY <1>2, <1>3, <1>4, <1>5 DEF Next

\* It holds in every state.
LEMMA Invariance ==
  ASSUME ~SyncInPrune
  PROVE  Spec => []IndInv
<1>1. IndInv /\ RlaInv /\ [Next]_vars => IndInv'
  BY NextInv
<1>2. RlaIndInv => RlaInv
  BY DEF RlaIndInv
<1> QED
  BY <1>1, <1>2, InitInv, RlaInvariance, PTL DEF Spec

\* Every variable of the two threads has its type.
THEOREM TypeCorrect ==
  ASSUME ~SyncInPrune
  PROVE  Spec => []TypeOK
<1>1. IndInv => TypeOK
  BY DEF IndInv
<1> QED
  BY <1>1, Invariance, PTL

\* No assertion of raft_server_backend_sync(), of the sanity check of the
\* headers or of a prune fails.
THEOREM AssertionsHold ==
  ASSUME ~SyncInPrune
  PROVE  Spec => []NoFatal
<1>1. IndInv => NoFatal
  BY DEF IndInv
<1> QED
  BY <1>1, Invariance, PTL

\* The entries up to the SYNC header are on disk, whenever the process stops.
THEOREM SyncedEntriesDurable ==
  ASSUME ~SyncInPrune
  PROVE  Spec => []SyncedIsDurable
<1>1. ASSUME IndInv
      PROVE  SyncedIsDurable
  <2>1. /\ Ordered(log) /\ Ordered(disk.log) /\ Len(log) \in Nat
        /\ Len(disk.log) \in Nat /\ Len(disk.log) <= Len(log)
        /\ \A n \in 1 .. Len(disk.log) : disk.log[n] = log[n]
        /\ sync.idx < Len(disk.log) /\ sync.idx \in Int /\ sync.idx >= -1
    BY <1>1 DEF IndInv, DiskInv, HdrInv, Names, Ordered
  <2> DEFINE k == sync.idx + 1
  <2>2. k \in 0 .. Len(disk.log) /\ k \in 0 .. Len(log)
    BY <2>1
  <2>3. SubSeq(disk.log, 1, k) = SubSeq(log, 1, k)
    <3>1. \A n \in 1 .. k : n \in 1 .. Len(disk.log)
      BY <2>1, <2>2
    <3>2. /\ SubSeq(disk.log, 1, k) \in Seq(1 .. MaxTerm)
          /\ SubSeq(log, 1, k) \in Seq(1 .. MaxTerm)
          /\ Len(SubSeq(disk.log, 1, k)) = k /\ Len(SubSeq(log, 1, k)) = k
          /\ \A n \in 1 .. k : SubSeq(disk.log, 1, k)[n] = SubSeq(log, 1, k)[n]
      BY <2>1, <2>2, <3>1, SubSeqOrdered DEF Ordered
    <3> QED
      BY <3>2, SeqEqual
  <2>4. sync = HeaderOf(log, sync.idx)
    BY <1>1 DEF IndInv, HdrInv, Names
  <2> QED
    BY <2>1, <2>3, <2>4 DEF SyncedIsDurable
<1> QED
  BY <1>1, Invariance, PTL

-----------------------------------------------------------------------------
(* The implementation of LogStore *)

\* The number of entries that LogStore takes to be synced.
AbsSynced == IF pc["main"] = "truncate" THEN Len(log) ELSE sync.idx + 1

\* A crash leaves the front of the log that is on disk.
LEMMA CrashImplements ==
  ASSUME IndInv, Crash
  PROVE  Abstract!Crash
<1>1. /\ log \in Seq(1 .. MaxTerm) /\ disk.log \in Seq(1 .. MaxTerm)
      /\ Ordered(log) /\ Len(log) \in Nat
      /\ Len(disk.log) \in Nat /\ Len(disk.log) <= Len(log)
      /\ \A n \in 1 .. Len(disk.log) : disk.log[n] = log[n]
      /\ sync.idx < Len(disk.log) /\ sync.idx \in Int
      /\ pc["main"] = "truncate" => Len(disk.log) = Len(log)
  BY DEF IndInv, DiskInv, HdrInv, Names, Header, Ordered
<1>2. Len(disk.log) \in AbsSynced .. Len(log)
  BY <1>1 DEF AbsSynced
<1>3. log' = SubSeq(log, 1, Len(disk.log))
  <2>1. Len(disk.log) \in 0 .. Len(log)
    BY <1>1
  <2>2. /\ SubSeq(log, 1, Len(disk.log)) \in Seq(1 .. MaxTerm)
        /\ Len(SubSeq(log, 1, Len(disk.log))) = Len(disk.log)
        /\ \A n \in 1 .. Len(disk.log) :
             SubSeq(log, 1, Len(disk.log))[n] = disk.log[n]
    BY <1>1, <2>1, SubSeqOrdered DEF Ordered
  <2>3. disk.log = SubSeq(log, 1, Len(disk.log))
    BY <1>1, <2>2, SeqEqual
  <2> QED
    BY <2>3 DEF Crash
<1>4. AbsSynced' = Len(disk.log)
  <2>1. pc'["main"] = "idle"
    BY DEF Crash, Thread
  <2>2. sync'.idx = Len(disk.log) - 1
    BY DEF Crash, NewestOf, HeaderOf
  <2> QED
    BY <1>1, <2>1, <2>2 DEF AbsSynced
<1> QED
  BY <1>2, <1>3, <1>4 DEF Abstract!Crash, AbsSynced

\* An entry is written behind the newest one.
LEMMA WriteImplements ==
  ASSUME IndInv, WriteEntry
  PROVE  Abstract!AppendEntry
<1>1. /\ log \in Seq(1 .. MaxTerm) /\ Len(log) \in Nat
      /\ Len(log) = unsync.idx + 1 /\ unsync.term \in Nat
      /\ pc["main"] = "idle" /\ pc \in [Thread -> MainLabels \cup SyncLabels]
  BY DEF IndInv, DiskInv, HdrInv, Ordered, WriteEntry, Running, TypeOK, Header
<1>2. SubSeq(log, 1, unsync.idx + 1) = log
  BY <1>1, SubSeqFull
<1>3. PICK term \in unsync.term .. MaxTerm :
        term > 0 /\ log' = Append(SubSeq(log, 1, unsync.idx + 1), term)
  BY DEF WriteEntry
<1>4. term \in 1 .. MaxTerm
  BY <1>1, <1>3, BoundAssumption
<1>5. AbsSynced' = AbsSynced
  <2>1. pc'["main"] = "written"
    BY <1>1 DEF WriteEntry, Goto, Thread
  <2> QED
    BY <1>1, <2>1 DEF AbsSynced, WriteEntry, hdrVars
<1> QED
  BY <1>2, <1>3, <1>4, <1>5 DEF Abstract!AppendEntry, AbsSynced

\* The SYNC header moves up within the log, or stays.
LEMMA UpdateSyncHdrImplements ==
  ASSUME IndInv, NEW t \in Thread, UpdateSyncHdr(t)
  PROVE  Abstract!Sync \/ UNCHANGED Abstract!vars
<1>1. /\ pc[t] = "header" /\ pc' = [pc EXCEPT ![t] = "unlock"]
      /\ sync' = Newer(snap[t].hdr, sync) /\ log' = log
  BY DEF UpdateSyncHdr, Running, Goto, storeVars
<1>2. /\ Len(log) \in Nat /\ sync.idx \in Int
      /\ Names(snap[t].hdr, log) /\ snap[t].hdr.idx \in -1 .. Len(log) - 1
      /\ pc["main"] # "truncate" /\ pc'["main"] # "truncate"
  <2>1. Names(snap[t].hdr, log) /\ Len(log) \in Nat /\ sync.idx \in Int
    BY <1>1 DEF IndInv, SnapInv, TypeOK, Header
  <2>2. pc["main"] # "truncate"
    BY <1>1 DEF IndInv, MutexInv, InSync, Pruning, Thread
  <2>3. pc'["main"] # "truncate"
    BY <1>1, <2>2 DEF Thread, IndInv, TypeOK
  <2> QED
    BY <2>1, <2>2, <2>3 DEF Names
<1>3. AbsSynced = sync.idx + 1 /\ AbsSynced' = sync'.idx + 1
  BY <1>2 DEF AbsSynced
<1>4. CASE snap[t].hdr.idx > sync.idx
  <2> DEFINE n == snap[t].hdr.idx
  <2>1. AbsSynced' = n + 1
    BY <1>1, <1>3, <1>4 DEF Newer
  <2>2. n \in Int /\ n + 1 <= Len(log) /\ sync.idx < n
    BY <1>2, <1>4
  <2>3. n + 1 \in AbsSynced + 1 .. Len(log)
    <3> HIDE DEF n
    <3> QED
      BY <1>2, <1>3, <2>2
  <2> QED
    BY <1>1, <2>1, <2>3 DEF Abstract!Sync, AbsSynced
<1>5. CASE ~(snap[t].hdr.idx > sync.idx)
  <2>1. sync' = sync
    BY <1>1, <1>5 DEF Newer
  <2>2. AbsSynced' = AbsSynced
    BY <1>3, <2>1
  <2> QED
    BY <1>1, <2>2 DEF Abstract!vars, AbsSynced
<1> QED
  BY <1>4, <1>5

\* The store is cut behind the entry that both headers name.
LEMMA TruncateImplements ==
  ASSUME IndInv, LogTruncate
  PROVE  Abstract!Prune
<1>1. /\ pc["main"] = "truncate" /\ pc \in [Thread -> MainLabels \cup SyncLabels]
      /\ log' = SubSeq(log, 1, sync.idx + 1) /\ sync' = sync
      /\ pc' = [pc EXCEPT !["main"] = "check"]
  BY DEF LogTruncate, Running, Goto, hdrVars, IndInv, TypeOK
<1>2. sync.idx \in 0 .. Len(log) - 2 /\ Len(log) \in Nat
  <2>1. log \in Seq(Nat)
    BY DEF IndInv, TypeOK
  <2> QED
    BY <1>1, <2>1 DEF IndInv, PruneInv
<1>3. sync.idx + 1 \in 1 .. Len(log) - 1
  BY <1>2
<1>4. AbsSynced' = sync.idx + 1
  BY <1>1 DEF AbsSynced, Thread
<1> QED
  BY <1>1, <1>3, <1>4 DEF Abstract!Prune, AbsSynced

\* Everything is synced when a prune sets the headers back.
LEMMA PruneHdrsImplements ==
  ASSUME IndInv, PruneHdrs
  PROVE  UNCHANGED Abstract!vars
<1>1. /\ pc["main"] = "force" /\ pc \in [Thread -> MainLabels \cup SyncLabels]
      /\ log' = log /\ pc' = [pc EXCEPT !["main"] = "truncate"]
  BY DEF PruneHdrs, Running, Goto, storeVars, IndInv, TypeOK
<1>2. sync.idx + 1 = Len(log)
  BY <1>1 DEF IndInv, SnapInv, HdrInv
<1>3. AbsSynced = Len(log) /\ AbsSynced' = Len(log)
  BY <1>1, <1>2 DEF AbsSynced, Thread
<1> QED
  BY <1>1, <1>3 DEF Abstract!vars, AbsSynced

\* The steps that leave the store's log and the SYNC header alone.
LEMMA OtherImplements ==
  ASSUME IndInv, log' = log, sync' = sync, pc["main"] # "truncate",
         pc'["main"] # "truncate"
  PROVE  UNCHANGED Abstract!vars
BY DEF Abstract!vars

\* Every step of the two threads is a step of LogStore or leaves it alone.
LEMMA StepImplements ==
  ASSUME IndInv, [Next]_vars
  PROVE  [Abstract!Next]_(Abstract!vars)
<1>0. pc \in [Thread -> MainLabels \cup SyncLabels] /\ pc["main"] \in MainLabels
  BY DEF IndInv, TypeOK
<1>1. ASSUME NEW t \in Thread, BackendSync(t)
      PROVE  [Abstract!Next]_(Abstract!vars)
  <2>1. CASE UpdateSyncHdr(t)
    BY <2>1, UpdateSyncHdrImplements DEF Abstract!Next
  <2>2. CASE Lock(t) \/ Snapshot(t) \/ DeviceSync(t) \/ Unlock(t)
    <3>1. log' = log /\ sync' = sync
      BY <2>2 DEF Lock, Snapshot, DeviceSync, Unlock, storeVars, hdrVars
    <3>2. PICK l \in {"snapshot", "device", "header", "sleep", "force", "idle"} :
            pc' = [pc EXCEPT ![t] = l]
      BY <2>2 DEF Lock, Snapshot, DeviceSync, Unlock, Goto, AfterSync
    <3>3. CASE pc["main"] = "truncate"
      <4>1. t = "sync"
        BY <2>2, <3>3
        DEF Lock, Snapshot, DeviceSync, Unlock, Running, Thread
      <4>2. pc'["main"] = "truncate"
        BY <1>0, <3>2, <3>3, <4>1 DEF Thread
      <4> QED
        BY <3>1, <3>3, <4>2 DEF Abstract!vars
    <3>4. CASE pc["main"] # "truncate"
      <4>1. pc'["main"] # "truncate"
        BY <1>0, <3>2, <3>4 DEF Thread
      <4> QED
        BY <3>1, <3>4, <4>1, OtherImplements
    <3> QED
      BY <3>3, <3>4
  <2> QED
    BY <1>1, <2>1, <2>2 DEF BackendSync
<1>2. CASE MainStep
  <2>1. CASE WriteEntry
    BY <2>1, WriteImplements DEF Abstract!Next
  <2>2. CASE LogTruncate
    BY <2>2, TruncateImplements DEF Abstract!Next
  <2>3. CASE PruneHdrs
    BY <2>3, PruneHdrsImplements
  <2>4. CASE \/ UpdateUnsyncHdr \/ LogHeaderWrite \/ VoteSync \/ PruneSync
             \/ PruneCheck \/ AdvanceCommitIdx \/ SetLastApplied \/ SmApplyOpt
    <3>1. log' = log /\ sync' = sync
      BY <2>4 DEF UpdateUnsyncHdr, LogHeaderWrite, VoteSync, PruneSync,
         PruneCheck, AdvanceCommitIdx, SetLastApplied, SmApplyOpt, storeVars,
         hdrVars
    <3>2. pc["main"] # "truncate"
      BY <2>4 DEF UpdateUnsyncHdr, LogHeaderWrite, VoteSync, PruneSync,
         PruneCheck, AdvanceCommitIdx, SetLastApplied, SmApplyOpt, Running
    <3>3. pc' = pc \/ \E l \in {"idle", "lock", "apply"} :
                        pc' = [pc EXCEPT !["main"] = l]
      BY <2>4 DEF UpdateUnsyncHdr, LogHeaderWrite, VoteSync, PruneSync,
         PruneCheck, AdvanceCommitIdx, SetLastApplied, SmApplyOpt, Goto
    <3>4. pc'["main"] # "truncate"
      BY <1>0, <3>2, <3>3 DEF Thread
    <3> QED
      BY <3>1, <3>2, <3>4, OtherImplements
  <2> QED
    BY <1>1, <1>2, <2>1, <2>2, <2>3, <2>4 DEF MainStep, Thread
<1>3. CASE SyncStep
  <2>1. CASE Wake \/ SyncPending
    <3>1. log' = log /\ sync' = sync
      BY <2>1 DEF Wake, SyncPending, storeVars, hdrVars
    <3>2. pc' = pc \/ \E l \in SyncLabels : pc' = [pc EXCEPT !["sync"] = l]
      BY <2>1 DEF Wake, SyncPending, Goto, SyncLabels
    <3>3. pc'["main"] = pc["main"]
      BY <1>0, <3>2 DEF Thread
    <3> QED
      BY <3>1, <3>3 DEF Abstract!vars
  <2> QED
    BY <1>1, <1>3, <2>1 DEF SyncStep, Thread
<1>4. CASE Crash
  BY <1>4, CrashImplements DEF Abstract!Next
<1>5. CASE UNCHANGED vars
  BY <1>5 DEF vars, storeVars, hdrVars, Abstract!vars
<1> QED
  BY <1>2, <1>3, <1>4, <1>5 DEF Next

\* The two threads implement the log of LogStore.
THEOREM LogStoreImplemented ==
  ASSUME ~SyncInPrune
  PROVE  Spec => ImplementsLogStore
<1>1. Init => Abstract!Init
  <2> SUFFICES ASSUME Init
               PROVE  Abstract!Init
    OBVIOUS
  <2>1. log = <<>> /\ pc["main"] = "idle" /\ sync.idx = -1
    BY DEF Init, NewestOf, HeaderOf, Thread
  <2> QED
    BY <2>1 DEF Abstract!Init
<1>2. IndInv /\ [Next]_vars => [Abstract!Next]_(Abstract!vars)
  BY StepImplements
<1> QED
  BY <1>1, <1>2, Invariance, PTL DEF Spec, ImplementsLogStore, Abstract!Spec
=============================================================================
